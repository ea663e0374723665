CONSTANTS
    Programs <- MCPrograms
    AllocMayFail = FALSE
SPECIFICATION Spec
INVARIANTS
    ElseBelongsToItsIf
CHECK_DEADLOCK FALSE
