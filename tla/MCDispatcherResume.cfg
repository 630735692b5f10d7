CONSTANTS
    A = A
    B = B
    C = C
    X = X
    t1 = t1
    t2 = t2
    t3 = t3
    t4 = t4
    r1 = r1
    r2 = r2
    NoHold = NoHold
    NoPlace = NoPlace
    Hold = {A, C, X}
    Task = {t1, t2, t3, t4}
    Repo = {r1, r2}
    TaskOf <- FourTasks
    RepoOf <- CElsewhere
    CallerOf <- ACallsXAndC
    Concurrent = {C}
    Limits = {1, 2}
    MaxResumes = 2
SPECIFICATION Spec
INVARIANTS SlotAccounting CapacityReturned OpenPlaceIsHeld NoLostWakeup
CHECK_DEADLOCK FALSE
