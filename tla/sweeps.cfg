\* Two workers, one of them with a pump and a reaper.
SPECIFICATION Spec
CONSTANTS
    j1 = j1
    j2 = j2
    Job = {j1}
    NoJob = NoJob
    Priorities <- MCPriorities
    JobPriority <- MCJobPriority
    MaxAttempts <- MCRetryOnce
    FaultKinds = {}
    MaxFaults = 0
    Client = {c1}
    Worker = {w1, w2}
    Pump = {w1}
    PumpLimit = 100
    Reap = {w1}
    MaxEntries = 2
INVARIANTS
    SingleExecution
    QueuedReachable
    RunningExecuted
PROPERTIES
    ImplementsLifecycle
