CONSTANTS
    N = 3
    InitLeader = 2
    Request = {1, 2}
    Op <- OpGetPut
    After <- AfterPut
    Keys <- OneKey
    ClientOf <- OwnClient
    None = None
    PageSize = 1
    AdmissionWindow = 2
    SuffixLimit = 4
    Wire <- WireDeposed
    Link <- LinkDeposed
    Timers <- TimersDeposed
    MaxSlot = 1
    MaxBallot = 3
SPECIFICATION Spec
CHECK_DEADLOCK FALSE
INVARIANTS
    TypeOK
    Agreement
    CompletedSurvives
    Linearizable
