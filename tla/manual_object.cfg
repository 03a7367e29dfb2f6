SPECIFICATION Spec
CONSTANTS
    Objects  = {o1}
    Files    = {f, g}
    Contents = {a, b}
    None     = none
    MaxSyncs = 3
    MaxEdits = 3
PROPERTY ManualObjectsAreLeftAlone
CHECK_DEADLOCK FALSE
