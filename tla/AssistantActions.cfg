SPECIFICATION Spec
CONSTANTS
    owner = owner
    operator = operator
    d1 = d1
    Users = {owner, operator}
    Can <- Roles
    Devices = {d1}
    Reports <- Inventories
    Minute = 2
    Limit = 2
    Lifetime = 2
    MaxTime = 3
    MaxCalls = 3
    MaxTokens = 1
    MaxJobs = 2
    MaxInflight = 2
    MaxStops = 1
CHECK_DEADLOCK FALSE
INVARIANTS TypeOK LimitIsExact OneJobPerApproval JobsHaveDevices
