\* Two workers, the one with the pump stopped at any time, and a client.
SPECIFICATION StopFairSpec
CONSTANTS
    j1 = j1
    j2 = j2
    Job = {j1}
    NoJob = NoJob
    Priorities <- MCPriorities
    JobPriority <- MCJobPriority
    MaxAttempts <- MCMaxAttempts
    FaultKinds = {"crash", "redis", "db"}
    MaxFaults = 24
    Client = {c1}
    Worker = {w1, w2}
    Pump = {w1}
    PumpLimit = 100
    Reap = {}
    MaxEntries = 2
    Self = w1
CHECK_DEADLOCK FALSE
INVARIANTS
    StopTypeOK
    StopWaits
    EntryKept
    OnlyHeldStuck
PROPERTIES
    ImplementsLifecycle
    ProcessExits
