CONSTANTS
    Run = {r1, r2, r3}
    PoolSize = 2
    Timeout = 1
    StuckSets = {{}}
    MaxDeaths = 1
    Settings <- DefaultSettings
    TtlMargin = 10
    Job = {j1, j2, j3}
    Hollow = {j1}
    PageSize = 2
    MaxEntry = 4
    MaxLost = 1
    N = 4
    Suspects = {1, 2, 4}
    LongRunSets = {{}, {1, 2, 4}}
    Slots = 2
    ScanFactor = 1
    MaxFaults = 1
SPECIFICATION Spec
CHECK_DEADLOCK FALSE
INVARIANT OneMissedBeatIsFine
