SPECIFICATION PageSpec
CONSTANTS
    Jobs        = {j1, j2}
    Workers     = {w1, w2}
    Idle        = idle
    Pages       = {"closed", "synchronise", "render", "deploy"}
    PageWorkers = {w1}
    MaxCuts     = 1
INVARIANTS IInv WorkingFollowsAJob StopsAtTheEnd
PROPERTIES StatusOnlyEscalates ButtonSettles
CHECK_DEADLOCK FALSE
