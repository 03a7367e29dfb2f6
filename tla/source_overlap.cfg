SPECIFICATION FairSpec
CONSTANTS
    Jobs     = {j1}
    Workers  = {w1}
    Idle     = idle
    Commands = {c1}
    Kinds    = {"sync", "push"}
    Paths    = {p}
    Ignored  = {}
    PushPath = p
    Contents = {a}
    Missing  = missing
    MaxCommits = 1
    MaxEdits = 1
    MaxFaults = 1
INVARIANT QuietSourceIsSettled
PROPERTIES JobsFollowTheirLifecycle QueuedSourceSettles QueuedJobsSettle
CHECK_DEADLOCK FALSE
