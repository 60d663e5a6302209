\* The headless service: the poller applies the decisions of CLI and web API to a
\* task the constitution gates and to one whose plan or handler escalates.
CONSTANTS
    t1 = t1
    t2 = t2
    t3 = t3
    w1 = w1
    w2 = w2
    Tasks = {t1, t2}
    Workers = {w1}
    Approvers = {"poller"}
    DependsOn <- NoDeps
    PriorityRank <- ChildFirst
    MaxRetries <- NoRetry
    Deniable = {}
    Gated = {t1}
    Planned = {t2}
    Handled = {t1}
    SelfEscalating = {t2}
    SubmitAfter <- ParentsFirst
    EarlySubmit = FALSE
    MaxFailures = 1
    MaxCrashes = 1
    MaxDecisions = 2
    MaxCancels = 0
SPECIFICATION Spec
PROPERTIES
    FinalStays
    LifeSpec
CHECK_DEADLOCK FALSE
