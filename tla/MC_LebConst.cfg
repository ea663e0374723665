CONSTANTS
    Buffers <- MCBuffers
    Skips = {0}
SPECIFICATION Spec
INVARIANTS
    ConstAsSigned
CHECK_DEADLOCK FALSE
