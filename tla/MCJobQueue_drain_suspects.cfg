CONSTANTS
    w1 = w1
    w2 = w2
    w3 = w3
    j1 = j1
    j2 = j2
    Worker = {w1, w2}
    Job = {j1, j2}
    Stamp = {1}
    Handles <- NotAllHandle
    Beating = {j1}
    Concurrency = 2
    MaxAttempts = 1
    MaxDeliveries = 2
    SuspectDeliveries = 2
    SchedulerBatch = 2
    Steady = {w1}
    MaxEntry = 2
    MaxSends = 1
    MaxRequeues = 0
    MaxFaults = 0
    NoFields = NoFields
    NoOwner = NoOwner
SPECIFICATION FairSpec
CHECK_DEADLOCK FALSE
PROPERTY QueueDrains
