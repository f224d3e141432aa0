CONSTANTS
    w1 = w1
    w2 = w2
    w3 = w3
    j1 = j1
    j2 = j2
    Worker = {w1, w2}
    Job = {j1}
    Stamp = {1}
    Handles <- AllHandle
    Beating = {j1}
    Concurrency = 1
    MaxAttempts = 2
    MaxDeliveries = 2
    SuspectDeliveries = 2
    SchedulerBatch = 2
    Steady = {}
    MaxEntry = 4
    MaxSends = 2
    MaxRequeues = 0
    MaxFaults = 1
    NoFields = NoFields
    NoOwner = NoOwner
SPECIFICATION Spec
CHECK_DEADLOCK FALSE
SYMMETRY WorkerSymmetry
INVARIANTS TypeOK NoLoss NoNewCopies OneResult ConnectionsSuffice
PROPERTY LeaseRespected
