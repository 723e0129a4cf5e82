CONSTANTS
    N = 3
    GuardDuration = 1
    LeaseDuration = 1
    FailureGrace = 1
    Leader = 0
    w1 = w1
    w2 = w2
    Put = {w1}
    Noop = Noop
    Hole = Hole
    Holders = {0, 1}
    DefaultMask = {0, 1}
    PageSize = 1
    AdmissionWindow = 4
    MaxSlot = 0
    MaxBallot = 0
    MaxEpoch = 2
    MaxSequence = 2
    MaxTime = 3
    Punctual = TRUE
    World <- WorldLapse
SPECIFICATION Spec
CHECK_DEADLOCK FALSE
INVARIANTS
    FreshOnceActive
