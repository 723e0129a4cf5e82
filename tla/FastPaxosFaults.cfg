CONSTANTS
    N = 3
    r1 = r1
    r2 = r2
    Request = {r1}
    Noop = Noop
    None = None
    PageSize = 1
    FastWindow = 1
    InflightWindow = 4
    RepairBudget = 4
    Retain = FALSE
    MaxSlot = 0
    MaxEpoch = 7
    World <- WorldFaults
SPECIFICATION FairSpec
CHECK_DEADLOCK FALSE
PROPERTIES
    Answered
    CatchUp
