\* One job, two clients, two workers with their pumps, no faults.
SPECIFICATION Spec
CONSTANTS
    j1 = j1
    j2 = j2
    Job = {j1}
    NoJob = NoJob
    Priorities <- MCPriorities
    JobPriority <- MCJobPriority
    MaxAttempts <- MCRetryOnce
    FaultKinds = {}
    MaxFaults = 0
    Client = {c1, c2}
    Worker = {w1, w2}
    Pump = {w1, w2}
    PumpLimit = 100
    Reap = {}
    MaxEntries = 2
INVARIANTS
    TypeOK
    SingleExecution
    AttemptBudget
    DeadLetterAgrees
    OneTicket
    ProcessingAccounted
    AuditComplete
PROPERTIES
    
    OutcomeFinal
    ImplementsLifecycle
