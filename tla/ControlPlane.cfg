SPECIFICATION Spec
CONSTANTS
    owner = owner
    alice = alice
    bob = bob
    d1 = d1
    none = none
    s1 = s1
    s2 = s2
    Owner = owner
    Emails = {alice, bob}
    Roles = {"platform_administrator", "organization_owner", "organization_administrator", "fleet_operator"}
    Devices = {d1}
    Seeds = {s1, s2}
    NoDevice = none
    MaxRequests = 4
    MaxFaults = 1
SYMMETRY Interchangeable
CHECK_DEADLOCK FALSE
INVARIANTS TypeOK StoreConsistent RefusedIsUnknown AnsweredIsDurable DelegationNeverWidens LostOnlyByOverlap
