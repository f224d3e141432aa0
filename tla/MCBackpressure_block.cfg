CONSTANTS
    c1 = c1
    c2 = c2
    c3 = c3
    j1 = j1
    j2 = j2
    j3 = j3
    j4 = j4
    k1 = k1
    Call = {c1, c2, c3}
    Job = {j1, j2, j3, j4}
    Key = {k1}
    Batch <- Batches
    KeyOf <- Keys
    High = 2
    Low = 1
    BlockMode = TRUE
    MaxLost = 2
    MaxRequeues = 1
    NoKey = NoKey
    NoJob = NoJob
SPECIFICATION FairSpec
CHECK_DEADLOCK FALSE
INVARIANTS TypeOK WatermarkHolds AcceptedWasAdded KeyExact KeyedRefusalWroteNothing
PROPERTIES EmptyQueueAdmits BlockedCallEnds
