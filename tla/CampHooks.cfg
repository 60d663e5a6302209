\* One node whose plan has a step with a rollback hook.
CONSTANTS
    n1 = n1
    n2 = n2
    n3 = n3
    n4 = n4
    Nodes = {n1}
    DependsOn <- Diamond
    Created <- AsNumbered
    Plans <- AnyPlan
    Attached = {FALSE}
    Threshold = 1
    MaxRuns = 1
    MaxCrashes = 0
SPECIFICATION CampaignSpec
INVARIANTS
    RolledBackMeansAll
CHECK_DEADLOCK FALSE
