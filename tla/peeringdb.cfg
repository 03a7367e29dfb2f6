SPECIFICATION Spec
CONSTANTS
    Networks    = {n1}
    Ports       = {p1, p2}
    LanOf      <- OwnLan
    Connections = {c1}
    Addresses   = {a1}
    Runs        = {r1, r2}
    None        = none
    MaxNow      = 2
    MaxRuns     = 2
    MaxTroubles = 1
    MaxEdits    = 1
SYMMETRY PeeringDBSymmetry
INVARIANTS TypeOK LinksAreRestored CacheIsCurrent
CHECK_DEADLOCK FALSE
