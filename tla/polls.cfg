SPECIFICATION PollsSpec
CONSTANTS
    Polls       = {p1, p2}
    Singles     = {q1}
    Sessions    = {s1}
    States      = {idle, established}
    Wordy       = wordy
    Idle        = idle
    None        = none
    MaxChanges  = 1
    MaxEdits    = 2
    MaxTroubles = 1
    MaxEvents   = 2
INVARIANT EditsOutlivePolls
PROPERTIES PolledStatesConverge WordsAreReplaced
CHECK_DEADLOCK FALSE
