\* Everything the public interface allows: submissions before start, both approving
\* threads, cancellations.
CONSTANTS
    t1 = t1
    t2 = t2
    t3 = t3
    w1 = w1
    w2 = w2
    Tasks = {t1}
    Workers = {w1, w2}
    Approvers = {"poller", "throne"}
    DependsOn <- NoDeps
    PriorityRank <- Flat
    MaxRetries <- OneRetry
    Deniable = {t1}
    Gated = {}
    Planned = {t1}
    Handled = {t1}
    SelfEscalating = {t1}
    SubmitAfter <- AnyOrder
    EarlySubmit = TRUE
    MaxFailures = 1
    MaxCrashes = 1
    MaxDecisions = 1
    MaxCancels = 1
SPECIFICATION Spec
INVARIANTS
    QueuedAccounted
CHECK_DEADLOCK FALSE
