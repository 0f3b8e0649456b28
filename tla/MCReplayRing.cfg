SPECIFICATION RingSpec
CONSTANTS
    MaxMsgs = 3
    MaxBytes = 5
    FrameSizes = {1, 2, 5, 6}
    MaxSeq = 12
INVARIANTS
    Contiguous
    BytesExact
    ReplayExact
PROPERTY
    ImplementsWindow
CHECK_DEADLOCK FALSE
