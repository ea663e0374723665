CONSTANTS
    Programs <- WellTyped
    AllocMayFail = FALSE
    StackMax = 16
    DepthMod = 16
    MaxActs = 6
    ArgVals = {0, 1}
    HostVals = {0}
    HostArgsMax = 20
SPECIFICATION Spec
INVARIANTS
    RunsRight
    NoLocalsLeak
    FragmentLocals
PROPERTIES
    CallerOperandsKept
    FragmentReturns
    RunEnds
CHECK_DEADLOCK FALSE
