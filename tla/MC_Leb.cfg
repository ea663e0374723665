CONSTANTS
    Buffers <- MCBuffers
    Skips = {0, 2, 5}
SPECIFICATION Spec
INVARIANTS
    TypeOK
    UnsignedRight
    SignedRight
    FieldsTile
    OverreadsTruncatedOnly
PROPERTIES
    ReadersFinish
CHECK_DEADLOCK FALSE
