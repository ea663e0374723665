CONSTANTS
    U32 = 256
    h1 = h1
    h2 = h2
    h3 = h3
    NoHost = NoHost
    Hosts = {h1, h2, h3}
    Names <- MCNames
    Main <- MCMain
    Cases <- MCCases
SPECIFICATION Spec
INVARIANTS
    TypeOK
    LoadedAsWritten
    CountsRight
    ParsedModulesSafe
    HalfParsedFreed
    NothingLeft
    LoadLeavesNothing
    IndexSpace
    ExportRight
PROPERTIES
    RegistryImplements
    SessionEnds
CHECK_DEADLOCK FALSE
