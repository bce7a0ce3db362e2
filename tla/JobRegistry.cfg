SPECIFICATION Spec
CONSTANTS
    command = command
    update = update
    unknown = unknown
    Jobs = {command, update, unknown}
    OtaJobs = {update}
    Unsupported = {unknown}
    NoJob = NoJob
    MaxRuns = 2
    MaxInflight = 2
    MaxFaults = 1
CHECK_DEADLOCK FALSE
INVARIANTS TypeOK SuccessIsReal
PROPERTY NotRerunAfterReconnect
