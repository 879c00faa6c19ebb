SPECIFICATION FairSpec
CONSTANTS
    configuredPass = configuredPass  otherPass = otherPass  worker = worker
    None = None
    OutboxIds = {o1, o2, o3}
    Passes = {configuredPass, otherPass}
    WorkerIds = {worker}
    workerId <- SharedWorkerId
    Configured = {configuredPass}
    BatchSize = 2
    RetryDelay = 1
    MaxFaults = 2
CHECK_DEADLOCK FALSE
PROPERTY AtLeastOnce
