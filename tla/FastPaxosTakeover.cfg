CONSTANTS
    N = 3
    r1 = r1
    r2 = r2
    Request = {r1, r2}
    Noop = Noop
    None = None
    PageSize = 1
    FastWindow = 2
    InflightWindow = 4
    RepairBudget = 4
    Retain = TRUE
    MaxSlot = 1
    MaxEpoch = 4
    World <- WorldTakeover
SPECIFICATION Spec
CHECK_DEADLOCK FALSE
INVARIANTS
    TypeOK
    NoPanic
    OneHistory
PROPERTIES
    ImplementsDecidedLog
