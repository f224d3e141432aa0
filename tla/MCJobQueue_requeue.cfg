CONSTANTS
    w1 = w1
    w2 = w2
    w3 = w3
    j1 = j1
    j2 = j2
    Worker = {w1, w2}
    Job = {j1}
    Stamp = {1}
    Handles <- AllHandle
    Beating = {j1}
    Concurrency = 2
    MaxAttempts = 1
    MaxDeliveries = 2
    SuspectDeliveries = 2
    SchedulerBatch = 2
    Steady = {}
    MaxEntry = 3
    MaxSends = 2
    MaxRequeues = 1
    MaxFaults = 1
    NoFields = NoFields
    NoOwner = NoOwner
SPECIFICATION Spec
CHECK_DEADLOCK FALSE
SYMMETRY WorkerSymmetry
INVARIANTS SlotsRespected PendingExact DlqExact EffectOnce
PROPERTY RefinesContract
