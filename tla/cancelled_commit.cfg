SPECIFICATION PageSpec
CONSTANTS
    Jobs        = {j1, j2}
    Workers     = {w1}
    Idle        = idle
    Pages       = {"deploy"}
    PageWorkers = {w1}
    MaxCuts     = 0
INVARIANT SuccessMeansItRan
CHECK_DEADLOCK FALSE
