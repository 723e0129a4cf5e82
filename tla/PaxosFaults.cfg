CONSTANTS
    N = 3
    InitLeader = 0
    r1 = r1
    r2 = r2
    Request = {r1}
    Noop = Noop
    Route <- RouteBackups
    Link <- NoLink
    PageSize = 1
    AdmissionWindow = 2
    SuffixLimit = 1
    Timed = {1, 2}
    Retain = FALSE
    MaxSlot = 0
    MaxBallot = 4
    Fault = {"crash", "loss"}
    Down = {0}
    Mortal = {0}
    Lossy = {"Prepare", "Promise", "Accept", "Ack", "Commit", "Ready", "Fetch", "Forward"}
    MaxLoss = 1
SPECIFICATION FairSpec
PROPERTIES
    Answered
