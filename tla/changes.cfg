SPECIFICATION Spec
CONSTANTS
    Objects  = {o1, o2}
    Requests = {r1, r2}
    Views    = {"form", "bulk_edit", "bulk_delete", "api_update", "api_delete"}
    TagSteps = {"keep", "change", "clear"}
    None     = none
    MaxLost  = 1
SYMMETRY ChangeSymmetry
INVARIANTS TypeOK DoneChangesAreTold DoneChangesAreLogged
PROPERTIES CommitsAreJournalled HandledAbortsAreSilent
CHECK_DEADLOCK FALSE
