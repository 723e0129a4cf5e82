CONSTANTS
    N = 3
    InitLeader = 2
    r1 = r1
    r2 = r2
    Request = {r1, r2}
    Noop = Noop
    Route <- RouteRotation
    Link <- LinkRotation
    PageSize = 1
    AdmissionWindow = 2
    SuffixLimit = 1
    Timed = {}
    Retain = TRUE
    MaxSlot = 1
    MaxBallot = 7
    Fault = {"loss"}
    Down = {}
    Mortal = {}
    Lossy = {}
    MaxLoss = 0
SPECIFICATION Spec
INVARIANTS
    TypeOK
    Agreement
    NoConflictingDecision
    ExecutedOnce
    OneHistory
    LeaderCompleteness
PROPERTIES
    CommittedStays
    ImplementsDecidedLog
