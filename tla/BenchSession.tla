---------------------------- MODULE BenchSession ----------------------------
(***************************************************************************)
(* The benchmark driver (deploy/bench.py): for each point of a session it  *)
(* empties Redis, scales the workers, saves a snapshot of them, starts a   *)
(* pair of loadgen tasks, waits for both, and saves the report it reads    *)
(* from the coordinator's log.  Tasks run in the cloud: they go on when    *)
(* the driver dies, and their log lines arrive when they arrive.  A        *)
(* session can be resumed, and a report that was missed can be recovered.  *)
(***************************************************************************)
EXTENDS Naturals, FiniteSets

CONSTANTS
    Points,         \* points of a session: 1 .. Points
    MaxSessions,    \* bound: calls of `run`
    MaxDriverCrashes,     \* bound: driver failures (killed, a failed AWS call, a wait that ran out)
    CanRecover      \* `recover` is used

ASSUME SessionAssumption ==
    /\ Points \in Nat /\ MaxSessions \in Nat /\ MaxDriverCrashes \in Nat /\ CanRecover \in BOOLEAN

Point == 1 .. Points
RunId == 1 .. Points * MaxSessions      \* run ids are never reused
NoRun == 0

VARIABLES
    driver,         \* the driver
    point,      \* the point it is at
    run,        \* the run id of that point
    redisReady, \* redis_ready: this session has waited for Redis
    snapshot,   \* of each point: the run its .services.json file is from
    report,     \* of each point: the run its .json file is from
    of,         \* of each run id used: its point
    task,       \* of each run: its coordinator and producer tasks, as one
    log,        \* of each run: how much of its report is in the coordinator's log
    redisUp,    \* the Redis task is running and healthy
    workers,    \* worker tasks are running
    inFlight,   \* runs that have jobs in a worker's memory
    redis,      \* runs that have left something in Redis
    sessions, driverCrashes

driverVars == <<driver, point, run, redisReady>>
fileVars == <<snapshot, report>>
cloudVars == <<task, log, redisUp, workers, inFlight, redis>>
countVars == <<sessions, driverCrashes>>
sessionVars == <<driverVars, fileVars, of, cloudVars, countVars>>

\* The types; a report is only ever saved where a snapshot is.
SessionTypeOK ==
    /\ driver \in {"off", "next", "redis", "drain", "flush", "scale", "snapshot", "save",
           "producer", "coordinator", "wait", "read"}
    /\ point \in 1 .. Points + 1 /\ run \in RunId \union {NoRun}
    /\ snapshot \in [Point -> RunId \union {NoRun}] /\ report \in [Point -> RunId \union {NoRun}]
    /\ of \in [RunId -> Point \union {0}]
    /\ task \in [RunId -> {"none", "running", "stopped", "failed"}]
    /\ log \in [RunId -> {"none", "written", "partial", "arrived"}]
    /\ {workers, redisUp, redisReady} \subseteq BOOLEAN /\ inFlight \subseteq RunId /\ redis \subseteq RunId
    /\ sessions \in 0 .. MaxSessions /\ driverCrashes \in 0 .. MaxDriverCrashes
    /\ \A p \in Point : report[p] # NoRun => snapshot[p] # NoRun

SessionInit ==
    /\ driver = "off" /\ point = 1 /\ run = NoRun /\ redisReady = FALSE /\ redisUp = FALSE
    /\ snapshot = [p \in Point |-> NoRun] /\ report = [p \in Point |-> NoRun]
    /\ of = [r \in RunId |-> 0]
    /\ task = [r \in RunId |-> "none"] /\ log = [r \in RunId |-> "none"]
    /\ workers = FALSE /\ inFlight = {} /\ redis = {}
    /\ sessions = 0 /\ driverCrashes = 0

-----------------------------------------------------------------------------
(* The cloud *)

RedisStarts ==
    /\ ~redisUp /\ redisUp' = TRUE
    /\ UNCHANGED <<driverVars, fileVars, of, task, log, workers, inFlight, redis, countVars>>

\* A running pair enqueues jobs of its run.
Enqueue(r) ==
    /\ task[r] = "running"
    /\ redis' = redis \union {r}
    /\ UNCHANGED <<driverVars, fileVars, of, task, log, redisUp, workers, inFlight, countVars>>

\* A worker takes a job, and later writes its result and statistics.
Fetch(r) ==
    /\ workers /\ r \in redis
    /\ inFlight' = inFlight \union {r}
    /\ UNCHANGED <<driverVars, fileVars, of, task, log, redisUp, workers, redis, countVars>>

Finish(r) ==
    /\ workers /\ r \in inFlight
    /\ inFlight' = inFlight \ {r} /\ redis' = redis \union {r}
    /\ UNCHANGED <<driverVars, fileVars, of, task, log, redisUp, workers, countVars>>

\* The pair ends: with exit code 0 or 1 the report has been dumped into the log.
PairStops(r) ==
    /\ task[r] = "running"
    /\ \/ /\ task' = [task EXCEPT ![r] = "stopped"]
          /\ log' = [log EXCEPT ![r] = "written"]
       \/ /\ task' = [task EXCEPT ![r] = "failed"]
          /\ UNCHANGED log
    /\ UNCHANGED <<driverVars, fileVars, of, redisUp, workers, inFlight, redis, countVars>>

\* awslogs is non-blocking: the lines land some time after the stop, and not at once.
LogArrives(r) ==
    /\ log[r] \in {"written", "partial"}
    /\ log' = [log EXCEPT ![r] = IF @ = "written" THEN "partial" ELSE "arrived"]
    /\ UNCHANGED <<driverVars, fileVars, of, task, redisUp, workers, inFlight, redis, countVars>>

\* decode_report gets nothing out of a log that is missing or cut short.
Decoded(r) == log[r] = "arrived"

-----------------------------------------------------------------------------
(* The driver: run_session *)

StartSession ==
    /\ driver = "off" /\ sessions < MaxSessions
    /\ sessions' = sessions + 1 /\ driver' = "next" /\ point' = 1 /\ redisReady' = FALSE
    /\ UNCHANGED <<run, fileVars, of, cloudVars, driverCrashes>>

\* The point's report exists (`--redo`, which runs such a point again, is not modelled).
Saved == report[point] # NoRun

NextPoint == point' = point + 1 /\ driver' = "next"

\* The point is skipped, saved or too late.
SkipPoint ==
    /\ driver = "next" /\ point \in Point
    /\ NextPoint
    /\ UNCHANGED <<run, redisReady, fileVars, of, cloudVars, countVars>>

\* It gets a run id of its own.
BeginPoint ==
    /\ driver = "next" /\ point \in Point /\ ~Saved
    /\ run' = CHOOSE r \in RunId : of[r] = 0 /\ \A q \in RunId : q < r => of[q] # 0
    /\ of' = [of EXCEPT ![run'] = point]
    /\ driver' = IF redisReady THEN "drain" ELSE "redis"
    /\ UNCHANGED <<point, redisReady, fileVars, cloudVars, countVars>>

\* Once per session, before the first point that runs: the driver can be started before the
\* Redis task is.
WaitForRedis ==
    /\ driver = "redis" /\ redisUp
    /\ redisReady' = TRUE /\ driver' = "drain"
    /\ UNCHANGED <<point, run, fileVars, of, cloudVars, countVars>>

\* The wait runs out: the session ends with an error.
RedisTimeout ==
    /\ driver = "redis" /\ ~redisUp
    /\ driver' = "off"
    /\ UNCHANGED <<point, run, redisReady, fileVars, of, cloudVars, countVars>>

\* Mutant: the service is scaled down but not waited for.
ScaleToZeroAtOnce ==
    /\ driver = "drain"
    /\ driver' = "flush"
    /\ UNCHANGED <<point, run, redisReady, fileVars, of, cloudVars, countVars>>

\* set_workers(0) waits until none is running.
ScaleToZero ==
    /\ driver = "drain"
    /\ workers' = FALSE /\ inFlight' = {} /\ driver' = "flush"
    /\ UNCHANGED <<point, run, redisReady, fileVars, of, task, log, redisUp, redis, countVars>>

Flush ==
    /\ driver = "flush"
    /\ redis' = {} /\ driver' = "scale"
    /\ UNCHANGED <<point, run, redisReady, fileVars, of, task, log, redisUp, workers, inFlight, countVars>>

Scale ==
    /\ driver = "scale"
    /\ workers' = TRUE /\ driver' = "snapshot"
    /\ UNCHANGED <<point, run, redisReady, fileVars, of, task, log, redisUp, inFlight, redis, countVars>>

\* The running services and tasks, from several AWS calls.
TakeSnapshot ==
    /\ driver = "snapshot"
    /\ driver' = "save"
    /\ UNCHANGED <<point, run, redisReady, fileVars, of, cloudVars, countVars>>

\* Written before the pair starts.
SaveSnapshot ==
    /\ driver = "save"
    /\ snapshot' = [snapshot EXCEPT ![point] = run] /\ driver' = "producer"
    /\ UNCHANGED <<point, run, redisReady, report, of, cloudVars, countVars>>

\* Of the two tasks of a run, the first to be started only waits for the other's spec.
StartProducer ==
    /\ driver = "producer"
    /\ driver' = "coordinator"
    /\ UNCHANGED <<point, run, redisReady, fileVars, of, cloudVars, countVars>>

StartPair ==
    /\ driver = "coordinator"
    /\ task' = [task EXCEPT ![run] = "running"] /\ driver' = "wait"
    /\ UNCHANGED <<point, run, redisReady, fileVars, of, log, redisUp, workers, inFlight, redis, countVars>>

PairStopped ==
    /\ driver = "wait" /\ task[run] \in {"stopped", "failed"}
    /\ driver' = "read"
    /\ UNCHANGED <<point, run, redisReady, fileVars, of, cloudVars, countVars>>

\* All of the report has arrived in the log: it is saved.
SaveReport ==
    /\ driver = "read" /\ Decoded(run)
    /\ report' = [report EXCEPT ![point] = run] /\ NextPoint
    /\ UNCHANGED <<run, redisReady, snapshot, of, cloudVars, countVars>>

\* The pair failed, or the wait for its log ran out: FAILED, and on to the next point.
NoReport ==
    /\ driver = "read" /\ ~Decoded(run)
    /\ NextPoint
    /\ UNCHANGED <<run, redisReady, fileVars, of, cloudVars, countVars>>

EndSession ==
    /\ driver = "next" /\ point = Points + 1
    /\ driver' = "off"
    /\ UNCHANGED <<point, run, redisReady, fileVars, of, cloudVars, countVars>>

\* The driver is killed, or one of its calls raises.
DriverFails ==
    /\ driver # "off" /\ driverCrashes < MaxDriverCrashes
    /\ driverCrashes' = driverCrashes + 1 /\ driver' = "off"
    /\ UNCHANGED <<point, run, redisReady, fileVars, of, cloudVars, sessions>>

-----------------------------------------------------------------------------
(* recover *)

\* The coordinator logs with a whole report of this point.
Found(p) == {r \in RunId : of[r] = p /\ Decoded(r)}

\* A snapshot without a report, and exactly one log that has it.
Recover(p) ==
    /\ CanRecover /\ driver = "off"
    /\ snapshot[p] # NoRun /\ report[p] = NoRun
    /\ Cardinality(Found(p)) = 1
    /\ report' = [report EXCEPT ![p] = CHOOSE r \in Found(p) : TRUE]
    /\ UNCHANGED <<driverVars, snapshot, of, cloudVars, countVars>>

Cloud == RedisStarts \/ \E r \in RunId : Enqueue(r) \/ Fetch(r) \/ Finish(r) \/ PairStops(r) \/ LogArrives(r)
Driver ==
    \/ BeginPoint \/ SkipPoint \/ WaitForRedis \/ RedisTimeout \/ ScaleToZero \/ Flush \/ Scale
    \/ TakeSnapshot \/ SaveSnapshot \/ StartProducer \/ StartPair \/ PairStopped \/ SaveReport \/ NoReport \/ EndSession

SessionNext == Cloud \/ StartSession \/ Driver \/ DriverFails \/ \E p \in Point : Recover(p)

\* Every wait of the driver has a limit, and every loadgen task stops itself.
SessionFairness == WF_sessionVars(Driver) /\ WF_sessionVars(\E r \in RunId : PairStops(r))

SessionSpec == SessionInit /\ [][SessionNext]_sessionVars /\ SessionFairness

-----------------------------------------------------------------------------
(* Properties *)

\* "Every point starts from an empty Redis, so memory, the results log, and the consumer
\* group never carry over": what is in Redis while a point's pair runs is its own, as long as
\* no earlier session was cut short (it may have left its pair running).
CleanStart == driver = "wait" /\ (sessions = 1 \/ driverCrashes = 0) => redis \subseteq {run}

\* The report of a point and the snapshot beside it are of the same run, in the first session
\* and in what `recover` finds after it (a second one may have run the point again).
ReportOfSnapshot == sessions = 1 => \A p \in Point : report[p] # NoRun => report[p] = snapshot[p]

\* What is saved for a point is of one run, which had Redis to itself, unless an earlier session
\* was cut short or a later one has run the point again.
PointIsOneRun == CleanStart /\ ReportOfSnapshot

SessionOver == driver = "off"
====
