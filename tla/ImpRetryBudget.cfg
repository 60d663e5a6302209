\* A task whose handler keeps failing, one retry allowed.
CONSTANTS
    t1 = t1
    t2 = t2
    t3 = t3
    w1 = w1
    w2 = w2
    Tasks = {t1}
    Workers = {w1}
    Approvers = {}
    DependsOn <- NoDeps
    PriorityRank <- Flat
    MaxRetries <- OneRetry
    Deniable = {}
    Gated = {}
    Planned = {}
    Handled = {t1}
    SelfEscalating = {}
    SubmitAfter <- AnyOrder
    EarlySubmit = FALSE
    MaxFailures = 2
    MaxCrashes = 0
    MaxDecisions = 0
    MaxCancels = 0
SPECIFICATION Spec
INVARIANTS
    RetryBudget
CHECK_DEADLOCK FALSE
