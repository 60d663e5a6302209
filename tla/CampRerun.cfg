\* A chain is interrupted and run again.
CONSTANTS
    n1 = n1
    n2 = n2
    n3 = n3
    n4 = n4
    Nodes = {n1, n2}
    DependsOn <- Diamond
    Created <- AsNumbered
    Plans <- NoPlan
    Attached = {FALSE}
    Threshold = 1
    MaxRuns = 2
    MaxCrashes = 1
SPECIFICATION CampaignSpec
INVARIANTS
    SucceededMeansAll
CHECK_DEADLOCK FALSE
