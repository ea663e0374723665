CONSTANTS
    Programs <- MCPrograms
    AllocMayFail = FALSE
SPECIFICATION Spec
INVARIANTS
    EndsMatch
    ElsesMatch
    StructuredNeverLost
    CountInv
PROPERTIES
    Terminates
CHECK_DEADLOCK FALSE
