CONSTANTS
    Programs <- AnyPrograms
    AllocMayFail = TRUE
    StackMax = 3
    DepthMod = 3
    MaxActs = 3
    ArgVals = {1}
    HostVals = {0}
    HostArgsMax = 1
SPECIFICATION Spec
INVARIANTS
    TypeOK
    LocalsOwned
    NoBadFree
    LocalsHeld
    RuntimeInv
PROPERTIES
    RunEnds
CHECK_DEADLOCK FALSE
