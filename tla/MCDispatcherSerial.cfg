CONSTANTS
    A = A
    B = B
    C = C
    X = X
    t1 = t1
    t2 = t2
    t3 = t3
    t4 = t4
    r1 = r1
    r2 = r2
    NoHold = NoHold
    NoPlace = NoPlace
    Hold = {A, B, C, X}
    Task = {t1, t2, t3, t4}
    Repo = {r1, r2}
    TaskOf <- FourTasks
    RepoOf <- XElsewhere
    CallerOf <- ACallsX
    Concurrent = {}
    Limits = {0}
    MaxResumes = 1
SPECIFICATION Spec
INVARIANT RepoSerial
CHECK_DEADLOCK FALSE
