\* The push of a retried job fails.
SPECIFICATION FairSpec
CONSTANTS
    j1 = j1
    j2 = j2
    Job = {j1}
    NoJob = NoJob
    Priorities <- MCPriorities
    JobPriority <- MCJobPriority
    MaxAttempts <- MCRetryOnce
    FaultKinds = {"redis"}
    MaxFaults = 1
    Client = {c1}
    Worker = {w1}
    Pump = {w1}
    PumpLimit = 100
    Reap = {w1}
    MaxEntries = 2
PROPERTIES
    PickedUpLater
