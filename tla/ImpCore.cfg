\* The headless service with no approvals: two workers, a parent and the child
\* that outranks it, failures, one retry for the parent, one crash.
CONSTANTS
    t1 = t1
    t2 = t2
    t3 = t3
    w1 = w1
    w2 = w2
    Tasks = {t1, t2, t3}
    Workers = {w1, w2}
    Approvers = {}
    DependsOn <- Chain
    PriorityRank <- ChildFirst
    MaxRetries <- MixedRetry
    Deniable = {}
    Gated = {}
    Planned = {t1}
    Handled = {t1, t2, t3}
    SelfEscalating = {}
    SubmitAfter <- ParentsFirst
    EarlySubmit = FALSE
    MaxFailures = 2
    MaxCrashes = 1
    MaxDecisions = 0
    MaxCancels = 0
SPECIFICATION Spec
INVARIANTS
    TypeOK
    SingleRunner
    DependenciesFirst
    QueuedIsPoppable
    DurableSuccess
    NoTaskLost
    DeadLettersFinal
CHECK_DEADLOCK FALSE
