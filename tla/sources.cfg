SPECIFICATION SourcesSpec
CONSTANTS
    Jobs     = {j1, j2}
    Workers  = {w1, w2}
    Idle     = idle
    Commands = {}
    Kinds    = {"sync", "push"}
    Paths    = {p, q}
    Ignored  = {q}
    PushPath = q
    Contents = {a, b}
    Missing  = missing
    MaxCommits = 1
    MaxEdits = 0
    MaxFaults = 0
    Objects   = {o1, o2}
    DataFiles = {f, g}
    MaxSyncs  = 2
    MaxSaves  = 3
    Rows      = {r1, r2, r3}
    Protected = {r1}
    RowsPerPage = 2
    MaxChanges = 2
    Tabs      = {"list", "other"}
    List      = "list"
    Columns  <- FourColumns
    Default  <- TwoOfThem
    MaxRequests = 2
    MaxMoves  = 2
SYMMETRY SourcesSymmetry
INVARIANTS TypesOK OtherFilesMirrorTheClone CompletedPushIsPublished TextComesFromTheFile AutomaticObjectsAreFresh AutomaticObjectsAreRecorded UncheckedRowsAreLeftAlone BlocksMoveTogether PreferencesAreAsAsked
PROPERTIES PickedObjectsAreReviewed SavedColumnsAreShown
CHECK_DEADLOCK FALSE
