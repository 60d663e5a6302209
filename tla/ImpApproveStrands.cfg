\* A gated task is approved from the Throne.
CONSTANTS
    t1 = t1
    t2 = t2
    t3 = t3
    w1 = w1
    w2 = w2
    Tasks = {t1}
    Workers = {w1, w2}
    Approvers = {"throne"}
    DependsOn <- NoDeps
    PriorityRank <- Flat
    MaxRetries <- NoRetry
    Deniable = {}
    Gated = {t1}
    Planned = {}
    Handled = {t1}
    SelfEscalating = {}
    SubmitAfter <- AnyOrder
    EarlySubmit = FALSE
    MaxFailures = 0
    MaxCrashes = 0
    MaxDecisions = 0
    MaxCancels = 0
SPECIFICATION Spec
INVARIANTS
    QueuedIsPoppable
CHECK_DEADLOCK FALSE
