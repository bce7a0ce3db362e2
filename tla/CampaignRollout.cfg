SPECIFICATION FairSpec
CONSTANTS
    d1 = d1
    d2 = d2
    d3 = d3
    a1 = a1
    a2 = a2
    Devices = {d1, d2}
    Targets <- TwoTargets
    CanaryPercent = 50
    Admins = {a1, a2}
    Removals = FALSE
    MaxJobs = 3
    MaxInflight = 1
CHECK_DEADLOCK FALSE
INVARIANTS TypeOK OneJobPerDevice PilotFirst
PROPERTY EveryJobDecided
