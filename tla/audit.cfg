\* A job that fails once and then succeeds.
SPECIFICATION Spec
CONSTANTS
    j1 = j1
    j2 = j2
    Job = {j1}
    NoJob = NoJob
    Priorities <- MCPriorities
    JobPriority <- MCJobPriority
    MaxAttempts <- MCRetryOnce
    FaultKinds = {}
    MaxFaults = 0
    Client = {c1}
    Worker = {w1}
    Pump = {w1}
    PumpLimit = 100
    Reap = {}
    MaxEntries = 2
INVARIANTS
    SuccessAudited
