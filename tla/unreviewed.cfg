SPECIFICATION Spec
CONSTANTS
    Objects   = {o1, o2, o3}
    Protected = {o1}
    PerPage   = 1
    MaxEdits  = 1
PROPERTY ObjectsAreReviewed
CHECK_DEADLOCK FALSE
