\* Two jobs of different priority, without retries, and a reaper.
SPECIFICATION FairSpec
CONSTANTS
    j1 = j1
    j2 = j2
    Job = {j1, j2}
    NoJob = NoJob
    Priorities <- MCPriorities
    JobPriority <- MCJobPriority
    MaxAttempts <- MCNoRetry
    FaultKinds = {}
    MaxFaults = 0
    Client = {c1}
    Worker = {w1}
    Pump = {}
    PumpLimit = 100
    Reap = {w1}
    MaxEntries = 1
INVARIANTS
    OneTicket
    ProcessingAccounted
PROPERTIES
    EveryJobEnds
