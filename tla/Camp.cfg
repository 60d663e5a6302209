\* A diamond of nodes with any plans, watched by the guard or not, one crash and
\* a second run.
CONSTANTS
    n1 = n1
    n2 = n2
    n3 = n3
    n4 = n4
    Nodes = {n1, n2, n3, n4}
    DependsOn <- Diamond
    Created <- AsNumbered
    Plans <- AnyPlan
    Attached = {TRUE, FALSE}
    Threshold = 1
    MaxRuns = 2
    MaxCrashes = 1
SPECIFICATION FairCampaignSpec
INVARIANTS
    DispatchedOnce
    DependenciesRan
    SuccessIsComplete
    UndoneInOrder
PROPERTIES
    FileMovesForward
    RunsEnd
CHECK_DEADLOCK FALSE
