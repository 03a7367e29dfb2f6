SPECIFICATION RoutersSpec
CONSTANTS
    Tasks       = {t1, t2}
    Texts       = {a, b}
    None        = none
    MaxEdits    = 2
    MaxTroubles = 1
    Imports     = {i1, i2}
    NumConnections = 2
    Ips         = {"ip1", "ip2", "ip3"}
    ASNs        = {"as1", "as2"}
    Allowed     = {"ip1", "ip2"}
    Listings   <- TwoListings
    MaxImportEdits    = 1
    MaxImportTroubles = 1
SYMMETRY RoutersSymmetry
INVARIANTS TypeOK ReportsAreTrue  CheckedBeforeCommitted ImportTypeOK PassedConnectionsAreImported
PROPERTIES InstallsAtomically NewASesHaveSessions ImportsEnd
CHECK_DEADLOCK FALSE
