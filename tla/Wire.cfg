CONSTANTS
    Int32Bits = 14
    Int64Bits = 28
    Depth = 1
    MaxSent = 2
SPECIFICATION Spec
INVARIANTS
    RoundTrip
    SendableIsRead
    NarrowSafe
    SizeExact
CHECK_DEADLOCK FALSE
