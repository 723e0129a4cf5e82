CONSTANTS
    p1 = p1
    p2 = p2
    f1 = f1
    f2 = f2
    f3 = f3
    Producer = {p1, p2}
    Frame = {f1, f2, f3}
    None = None
    Capacity = 2
    BatchSize = 2
SPECIFICATION FairStreamSpec
INVARIANTS
    TypeOK
    NoGapOnTheWire
    NothingDropped
    EarlyFramesFirst
PROPERTIES
    CloseEndsWriter
    Written
    MutexReleased
