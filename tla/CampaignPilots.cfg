SPECIFICATION Spec
CONSTANTS
    d1 = d1
    d2 = d2
    d3 = d3
    a1 = a1
    a2 = a2
    Devices = {d1, d2, d3}
    Targets <- ThreeTargets
    CanaryPercent = 50
    Admins = {a1}
    Removals = FALSE
    MaxJobs = 2
    MaxInflight = 1
CHECK_DEADLOCK FALSE
PROPERTY OnlyCompletedPilots
