CONSTANTS
    Run = {r1, r2, r3}
    PoolSize = 2
    Timeout = 1
    StuckSets = {{}, {1}}
    MaxDeaths = 1
    Settings <- WorkerSettings
    TtlMargin = 2
    Job = {j1, j2, j3}
    Hollow = {j1}
    PageSize = 2
    MaxEntry = 4
    MaxLost = 1
    N = 4
    Suspects = {1, 2, 4}
    LongRunSets = {{}, {1, 2, 4}}
    Slots = 2
    ScanFactor = 1
    MaxFaults = 1
SPECIFICATION Spec
CHECK_DEADLOCK FALSE
INVARIANTS
    WorkerTypeOK TimeoutEarned BystandersRestart NoLostPool
    CommitsOnce HealthyKeepsLease SweepExact
PROPERTIES
    WorkerEnds SuspectsDoNotBlock
