\* A worker crashes while it executes a job.
SPECIFICATION FairSpec
CONSTANTS
    j1 = j1
    j2 = j2
    Job = {j2}
    NoJob = NoJob
    Priorities <- MCPriorities
    JobPriority <- MCJobPriority
    MaxAttempts <- MCRetryOnce
    FaultKinds = {"crash"}
    MaxFaults = 1
    Client = {c1}
    Worker = {w1}
    Pump = {w1}
    PumpLimit = 100
    Reap = {w1}
    MaxEntries = 2
PROPERTIES
    StuckJobRecovered
