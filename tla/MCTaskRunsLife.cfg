CONSTANTS
    Task = {t1}
    MaxAttempt = 2
    NStages = 1
    Workflow = {w1}
    Remediate = w1
    NoResume = NoResume
    MaxRetries = 0
    Operator = {o1}
    Action = {"stop", "abandon", "withdraw", "approve", "retry", "merge", "archive"}
    ResumeAt = {}
    StageResult <- ResultsReview
    AgentCalls = TRUE
    AllowConcurrent = FALSE
    Faults = TRUE
    Stops = TRUE
    MaxCrashes = 0
SPECIFICATION Spec
 
PROPERTIES Lifecycle
CHECK_DEADLOCK FALSE
