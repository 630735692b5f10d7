SPECIFICATION ServicesSpec
CONSTANTS
    u1 = u1
    u2 = u2
    j1 = j1
    j2 = j2
    Plans <- ThreePlans
    MaxCallDepth = 2
    MaxExecs = 3
    MaxRetries = 1
    MaxActs = 2
    MaxCallFaults = 1
    Workflows = 3
    User <- Users
    Caps <- OneOrNoCap
    MaxPoolChanges = 1
    MaxPoolFaults = 1
    MaxVersion = 3
    MaxAttempts = 2
    Job <- Jobs
    Once <- OnceJobs
    MaxParallel = 1
    QueueDepth = 1
    MarkTries = 2
    MaxNow = 1
    MaxEdits = 1
    MaxRunFaults = 1
INVARIANTS
    OneLiveChild   VerdictIsRight
    ActiveIsHeld TornDownOnce NoLostRestart NeverOverlaps StoppedIsQuiet
PROPERTIES
    WaitEnds LifetimeIsCapped  MarkTouchesItsOwn DueIsRun
\* The services stop: an engine that was stopped, a pool whose users are done.
CHECK_DEADLOCK FALSE
