CONSTANTS
    w1 = w1
    w2 = w2
    f1 = f1
    f2 = f2
    f3 = f3
    f4 = f4
    Worker = {w1, w2}
    Fault = {f1, f2, f3, f4}
    Plans = {{f1, f2}, {f1, f3}, {f3, f4}}
    WorkerOf <- SpreadWorkers
    KindOf <- SpreadKinds
    MaxCrashes = 1
    MaxDockerErrors = 1
    Job = {j1, j2}
    MaxAttempts = 5
    MaxDeliveries = 3
    MaxFaults = 1
    c = c
    h1 = h1
    h2 = h2
    l1 = l1
    l2 = l2
    Host = {h1, h2}
    Coordinator = c
    LoadJob = {l1, l2}
    HostOf <- TwoJobs
    MaxHostCrashes = 1
    MaxLost = 1
    Rate = 6
    Second = 6
    Duration = 10
    Tick = 2
    Batch = 1
    MaxAwait = 1
    Producers = {p1, p2}
    Earlier <- OneSlow
    Latencies = {1, 2, 3}
    Bucket = 2
    Steps = {4, 5}
    MaxCalls = 20
    RoundsUp = {1000}
    Cores = 2
    MaxTime = 5
    MaxSamples = 4
    Points = 2
    MaxSessions = 2
    MaxDriverCrashes = 1
    CanRecover = TRUE
SPECIFICATION Spec
CHECK_DEADLOCK FALSE
INVARIANTS
    HarnessTypeOK VerifiedAtRest AlarmsRight DrainUndisturbed VerdictRight
    OkIsTrue KeepsRate FiguresTrue PointIsOneRun
PROPERTIES
    HarnessEnds
