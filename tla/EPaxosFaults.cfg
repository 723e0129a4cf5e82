CONSTANTS
    N = 3
    c1 = c1
    c2 = c2
    c3 = c3
    c4 = c4
    Command = {c1, c2, c3, c4}
    Write = {c1, c2, c4}
    Key <- Keys
    KeyOf <- KeyOfCommand
    Noop = Noop
    None = None
    Home <- HomeOf
    World <- WorldFaults
    MaxSlot = 1
    MaxBallot = 5
SPECIFICATION Spec
CHECK_DEADLOCK FALSE
INVARIANTS
    TypeOK
    Agreement
    SameOrder
    RealTime
PROPERTIES
    CommitIsFinal
