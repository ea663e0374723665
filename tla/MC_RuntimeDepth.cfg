CONSTANTS
    Programs <- TypedPrograms
    AllocMayFail = FALSE
    StackMax = 16
    DepthMod = 2
    MaxActs = 6
    ArgVals = {0, 1}
    HostVals = {0, 1}
    HostArgsMax = 20
SPECIFICATION Spec
PROPERTIES
    CallerOperandsKept
CHECK_DEADLOCK FALSE
