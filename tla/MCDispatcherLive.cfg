CONSTANTS
    A = A
    B = B
    C = C
    X = X
    t1 = t1
    t2 = t2
    t3 = t3
    t4 = t4
    r1 = r1
    r2 = r2
    NoHold = NoHold
    NoPlace = NoPlace
    Hold = {A, B, X}
    Task = {t1, t2, t3, t4}
    Repo = {r1, r2}
    TaskOf <- TwoAttempts
    RepoOf <- CElsewhere
    CallerOf <- ACallsX
    Concurrent = {}
    Limits = {1, 2}
    MaxResumes = 1
SPECIFICATION FairSpec
PROPERTIES EverySubmittedRunEnds WaitReturns
CHECK_DEADLOCK FALSE
