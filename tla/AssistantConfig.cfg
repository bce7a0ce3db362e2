SPECIFICATION Spec
CONSTANTS
    server = server
    gateway = gateway
    e1 = e1
    e2 = e2
    Server = server
    Others = {gateway}
    Endpoints = {e1, e2}
    MaxRequests = 2
    MaxCalls = 1
    MaxStops = 3
SYMMETRY Interchangeable
CHECK_DEADLOCK FALSE
INVARIANTS TypeOK SecretsOpen KeyFitsProvider
