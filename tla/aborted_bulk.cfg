SPECIFICATION Spec
CONSTANTS
    Objects  = {o1, o2}
    Requests = {r1}
    Views    = {"api_update"}
    TagSteps = {"keep"}
    None     = none
    MaxLost  = 0
PROPERTY AbortsAreSilent
CHECK_DEADLOCK FALSE
