CONSTANTS
    N = 3
    GuardDuration = 2
    LeaseDuration = 2
    FailureGrace = 1
    Leader = 0
    w1 = w1
    w2 = w2
    Put = {w1, w2}
    Noop = Noop
    Hole = Hole
    Holders = {0, 1}
    DefaultMask = {0, 1}
    PageSize = 1
    AdmissionWindow = 4
    MaxSlot = 1
    MaxBallot = 4
    MaxEpoch = 2
    MaxSequence = 2
    MaxTime = 5
    Punctual = FALSE
    World <- WorldEras
SPECIFICATION Spec
CHECK_DEADLOCK FALSE
INVARIANTS
    TypeOK
    Enclosed
    Agreement
    FreshOnBasis
