\* The line submit writes is built before and appended after the worker's.
CONSTANTS
    t1 = t1
    t2 = t2
    t3 = t3
    w1 = w1
    w2 = w2
    Tasks = {t1}
    Workers = {w1, w2}
    Approvers = {}
    DependsOn <- NoDeps
    PriorityRank <- Flat
    MaxRetries <- NoRetry
    Deniable = {}
    Gated = {}
    Planned = {}
    Handled = {t1}
    SelfEscalating = {}
    SubmitAfter <- AnyOrder
    EarlySubmit = FALSE
    MaxFailures = 0
    MaxCrashes = 0
    MaxDecisions = 0
    MaxCancels = 0
SPECIFICATION Spec
INVARIANTS
    CheckpointCurrent
CHECK_DEADLOCK FALSE
