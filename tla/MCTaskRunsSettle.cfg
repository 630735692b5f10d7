CONSTANTS
    Task = {t1}
    MaxAttempt = 2
    NStages = 2
    Workflow = {w1}
    Remediate = w1
    NoResume = NoResume
    MaxRetries = 0
    Operator = {o1}
    Action = {"stop", "retry"}
    ResumeAt = {1, 2}
    StageResult <- ResultsHandoff
    AgentCalls = FALSE
    AllowConcurrent = FALSE
    Faults = FALSE
    Stops = FALSE
    MaxCrashes = 1
SPECIFICATION FairSpec
INVARIANTS RunningHasRun  
PROPERTIES RunSettles
CHECK_DEADLOCK FALSE
