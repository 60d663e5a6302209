\* A parent fails, the process restarts, the child is resumed.
CONSTANTS
    t1 = t1
    t2 = t2
    t3 = t3
    w1 = w1
    w2 = w2
    Tasks = {t1, t2}
    Workers = {w1, w2}
    Approvers = {}
    DependsOn <- Chain
    PriorityRank <- ChildFirst
    MaxRetries <- NoRetry
    Deniable = {}
    Gated = {}
    Planned = {}
    Handled = {t1, t2}
    SelfEscalating = {}
    SubmitAfter <- ParentsFirst
    EarlySubmit = FALSE
    MaxFailures = 1
    MaxCrashes = 1
    MaxDecisions = 0
    MaxCancels = 0
SPECIFICATION Spec
INVARIANTS
    DependenciesSucceeded
CHECK_DEADLOCK FALSE
