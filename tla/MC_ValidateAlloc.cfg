CONSTANTS
    Programs <- MCPrograms
    AllocMayFail = TRUE
SPECIFICATION Spec
INVARIANTS
    TypeOK
    PassInv
    BlocksNested
    FindBlkUnique
    BlocksInBody
CHECK_DEADLOCK FALSE
