CONSTANTS
    N = 5
    r1 = r1
    r2 = r2
    Request = {r1, r2}
    Noop = Noop
    None = None
    PageSize = 1
    FastWindow = 1
    InflightWindow = 4
    RepairBudget = 4
    Retain = TRUE
    MaxSlot = 0
    MaxEpoch = 5
    World <- WorldFive
SPECIFICATION Spec
CHECK_DEADLOCK FALSE
INVARIANTS
    DecidedOnce
