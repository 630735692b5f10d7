CONSTANTS
    Task = {t1}
    MaxAttempt = 2
    NStages = 1
    Workflow = {w1}
    Remediate = w1
    NoResume = NoResume
    MaxRetries = 0
    Operator = {o1}
    Action = {"stop", "retry"}
    ResumeAt = {}
    StageResult <- ResultsParked
    AgentCalls = FALSE
    AllowConcurrent = FALSE
    Faults = FALSE
    Stops = FALSE
    MaxCrashes = 0
SPECIFICATION Spec
PROPERTIES OwnAttemptOnly
CHECK_DEADLOCK FALSE
