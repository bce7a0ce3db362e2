SPECIFICATION Spec
CONSTANTS
    command = command
    update = update
    unknown = unknown
    Jobs = {command, update}
    OtaJobs = {update}
    Unsupported = {}
    NoJob = NoJob
    MaxRuns = 2
    MaxInflight = 1
    MaxFaults = 1
CHECK_DEADLOCK FALSE
PROPERTY NotRerunAfterRestart
