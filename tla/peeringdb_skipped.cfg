SPECIFICATION Spec
CONSTANTS
    Networks    = {n1, n2}
    Ports       = {p1, p2}
    LanOf      <- OwnLan
    Connections = {}
    Addresses   = {a1, a2}
    Runs        = {r1}
    None        = none
    MaxNow      = 2
    MaxRuns     = 3
    MaxTroubles = 1
    MaxEdits    = 0
SYMMETRY PeeringDBSymmetry
INVARIANTS EveryChangeIsFetched
CHECK_DEADLOCK FALSE
