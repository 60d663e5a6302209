\* The scheduling the host gives: every accepted task settles, whatever the retries
\* and the restart.
CONSTANTS
    t1 = t1
    t2 = t2
    t3 = t3
    w1 = w1
    w2 = w2
    Tasks = {t1, t2}
    Workers = {w1, w2}
    Approvers = {}
    DependsOn <- Chain
    PriorityRank <- ChildFirst
    MaxRetries <- OneRetry
    Deniable = {}
    Gated = {}
    Planned = {t2}
    Handled = {t1, t2}
    SelfEscalating = {}
    SubmitAfter <- ParentsFirst
    EarlySubmit = FALSE
    MaxFailures = 1
    MaxCrashes = 1
    MaxDecisions = 0
    MaxCancels = 0
SPECIFICATION FairSpec
PROPERTIES
    EveryTaskSettles
CHECK_DEADLOCK FALSE
