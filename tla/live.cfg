\* One worker with pump and reaper; a crash, a Redis or a database error.
SPECIFICATION FairSpec
CONSTANTS
    j1 = j1
    j2 = j2
    Job = {j1}
    NoJob = NoJob
    Priorities <- MCOnePriority
    JobPriority <- MCJobPriority
    MaxAttempts <- MCRetryOnce
    FaultKinds = {"crash", "redis", "db"}
    MaxFaults = 1
    Client = {c1}
    Worker = {w1}
    Pump = {w1}
    PumpLimit = 100
    Reap = {w1}
    MaxEntries = 2
INVARIANTS
    AttemptBudget
    DeadLetterAgrees
PROPERTIES
    DeadLetterOnce
    ImplementsLifecycle
    EveryJobEnds
    LeftEntryRecovered
