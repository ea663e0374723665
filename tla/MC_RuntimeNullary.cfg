CONSTANTS
    Programs <- CallNullary
    AllocMayFail = FALSE
    StackMax = 8
    DepthMod = 8
    MaxActs = 6
    ArgVals = {0, 1}
    HostVals = {0}
    HostArgsMax = 20
SPECIFICATION Spec
INVARIANTS
    LocalsUsable
CHECK_DEADLOCK FALSE
