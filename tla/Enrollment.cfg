SPECIFICATION Spec
CONSTANTS
    a1 = a1
    a2 = a2
    t1 = t1
    t2 = t2
    w1 = w1
    Agents = {a1, a2}
    Tokens = {t1, t2}
    TenantOf <- TwoTenants
    Writers = {w1}
    MaxRequests = 3
    MaxFaults = 1
CHECK_DEADLOCK FALSE
INVARIANTS TypeOK TokenEnrollsOnce OwnIdentity EnrolledIsKnown RemovedStaysRemoved
SYMMETRY AgentSymmetry
