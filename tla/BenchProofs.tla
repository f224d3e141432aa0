----------------------------- MODULE BenchProofs -----------------------------
(***************************************************************************)
(* Proofs about the benchmark: the driver's sessions (any number of them,  *)
(* of points and of failures), a paced producer (any rate, tick, batch and *)
(* duration of its calls), the load test (any hosts and jobs), the figures *)
(* of a report (any calls and CPU samples); and the harness of which they  *)
(* and the chaos run are the parts.                                        *)
(***************************************************************************)
EXTENDS MCHarness, ChaosProofs, TLAPS, FiniteSetTheorems

-----------------------------------------------------------------------------
(* Sessions *)

AtPoint == {"redis", "drain", "flush", "scale", "snapshot", "save",
            "producer", "coordinator", "wait", "read"}
Snapped == {"producer", "coordinator", "wait", "read"}
Emptied == {"scale", "snapshot", "save", "producer", "coordinator"}

\* The points this session has begun, or may have.
Begun == IF driver = "next" THEN point - 1 ELSE IF driver = "off" THEN Points ELSE point

\* Run ids are used in order, and every session uses at most one for each point: there is
\* always one left.
IdsLeft ==
    /\ sessions = 0 => driver = "off" /\ driverCrashes = 0
    /\ \E k \in Nat : /\ k + Points <= sessions * Points + Begun
                      /\ \A r \in RunId : of[r] # 0 <=> r <= k
    /\ driver \in AtPoint => point \in Point /\ run \in RunId /\ of[run] = point

\* What is saved for a point is of a run of this point.
Files ==
    /\ \A p \in Point : snapshot[p] # NoRun => of[snapshot[p]] = p
    /\ driver \in Snapped => snapshot[point] = run
    /\ driver \in AtPoint => report[point] = NoRun

\* In the first session every point has one run at most.
OneRunEach ==
    sessions <= 1 =>
        /\ \A r, q \in RunId : of[r] # 0 /\ of[r] = of[q] => r = q
        /\ \A r \in RunId : of[r] # 0 /\ driver # "off" => of[r] <= Begun
        /\ \A p \in Point : report[p] # NoRun => report[p] = snapshot[p]

\* No session was cut short and followed by another.
Undisturbed == sessions <= 1 \/ driverCrashes = 0

\* Then the only pair that runs is the one the driver waits for, and what Redis and the
\* workers hold from the flush on is its own.
OwnPair ==
    Undisturbed =>
        /\ driver # "off" \/ driverCrashes = 0 =>
             \A r \in RunId : task[r] = "running" => driver = "wait" /\ r = run
        /\ driver = "flush" => ~workers /\ inFlight = {}
        /\ driver \in Emptied => inFlight = {} /\ redis = {}
        /\ driver = "wait" => inFlight \subseteq {run} /\ redis \subseteq {run}

\* The inductive invariant.
SessionInv == SessionTypeOK /\ IdsLeft /\ Files /\ OneRunEach /\ OwnPair

-----------------------------------------------------------------------------

\* The driver is off, between two points or at one.
LEMMA DriverPlaces ==
    ASSUME SessionTypeOK, IdsLeft
    PROVE  /\ driver = "off" \/ driver = "next" \/ driver \in AtPoint
           /\ Begun \in Nat /\ Begun <= Points /\ sessions * Points \in Nat
           /\ sessions \in Nat /\ driverCrashes \in Nat /\ point \in Nat
<1>1. sessions \in Nat /\ driverCrashes \in Nat /\ point \in Nat /\ point <= Points + 1
    BY SessionAssumption DEF SessionTypeOK
<1>2. sessions * Points \in Nat
    BY <1>1, SessionAssumption
<1>3. driver = "off" \/ driver = "next" \/ driver \in AtPoint
    BY DEF SessionTypeOK, AtPoint
<1>4. Begun \in Nat /\ Begun <= Points
    BY <1>1, <1>3, SessionAssumption DEF SessionTypeOK, IdsLeft, AtPoint, Begun, Point
<1> QED
    BY <1>1, <1>2, <1>3, <1>4

\* A point that begins gets the next run id, which no run has had.
LEMMA FreshRun ==
    ASSUME SessionInv, BeginPoint, NEW k \in Nat,
           k + Points <= sessions * Points + Begun,
           \A r \in RunId : of[r] # 0 <=> r <= k
    PROVE  run' = k + 1 /\ run' \in RunId /\ of[run'] = 0
<1>0. SessionTypeOK /\ driver = "next" /\ point \in Point
    BY DEF SessionInv, BeginPoint
<1>1. k + Points <= sessions * Points + (point - 1) /\ sessions \in 0 .. MaxSessions
    BY <1>0 DEF Begun, SessionTypeOK
<1>2. point \in Nat /\ point <= Points /\ Points \in Nat /\ MaxSessions \in Nat
    BY <1>0, SessionAssumption DEF Point
<1>3. sessions * Points <= Points * MaxSessions /\ sessions * Points \in Nat
    <2>1. MaxSessions - sessions \in Nat /\ sessions \in Nat
        BY <1>1, <1>2
    <2>2. (MaxSessions - sessions) * Points \in Nat
        BY <1>2, <2>1
    <2>3. Points * MaxSessions = sessions * Points + (MaxSessions - sessions) * Points
        BY <1>2, <2>1
    <2>4. sessions * Points \in Nat
        BY <1>2, <2>1
    <2> QED
        BY <2>2, <2>3, <2>4
<1>4. Points * MaxSessions \in Nat
    BY <1>2
<1>5. k + 1 \in RunId
    BY <1>1, <1>2, <1>3, <1>4 DEF RunId
<1>6. of[k + 1] = 0 /\ \A q \in RunId : q < k + 1 => of[q] # 0
    BY <1>5 DEF RunId
<1>7. ASSUME NEW r \in RunId, of[r] = 0, \A q \in RunId : q < r => of[q] # 0
      PROVE  r = k + 1
    BY <1>5, <1>6, <1>7 DEF RunId
<1>8. run' = CHOOSE r \in RunId : of[r] = 0 /\ \A q \in RunId : q < r => of[q] # 0
    BY DEF BeginPoint
<1>9. run' = k + 1
    BY <1>5, <1>6, <1>7, <1>8
<1> QED
    BY <1>5, <1>6, <1>9

\* A first session starts from nothing.
LEMMA InitSession == SessionInit => SessionInv
<1> SUFFICES ASSUME SessionInit PROVE SessionInv
    OBVIOUS
<1>1. SessionTypeOK
    <2>1. {workers, redisUp, redisReady} \subseteq BOOLEAN
        BY DEF SessionInit
    <2> QED
        BY <2>1, SessionAssumption DEF SessionInit, SessionTypeOK, NoRun, Point, RunId
<1>2. IdsLeft
    <2>1. sessions * Points = 0 /\ Begun = Points
        BY SessionAssumption DEF SessionInit, Begun
    <2>2. \A r \in RunId : of[r] = 0 /\ ~(r <= 0)
        BY DEF SessionInit, RunId
    <2> QED
        BY <2>1, <2>2, SessionAssumption DEF SessionInit, IdsLeft, AtPoint
<1>3. Files /\ OneRunEach /\ OwnPair
    BY DEF SessionInit, Files, OneRunEach, OwnPair, AtPoint, Snapped, Emptied, NoRun
<1> QED
    BY <1>1, <1>2, <1>3 DEF SessionInv

\* What `recover` takes is one of the logs it found.
LEMMA FoundSome ==
    ASSUME NEW p \in Point, Recover(p)
    PROVE  (CHOOSE r \in Found(p) : TRUE) \in Found(p)
<1>1. Found(p) # {}
    BY FS_EmptySet DEF Recover
<1> QED
    BY <1>1

\* Every action keeps the types.
LEMMA StepSessionTypes ==
    ASSUME SessionInv, SessionNext
    PROVE  SessionTypeOK'
<1>0. SessionTypeOK /\ IdsLeft /\ Files
    BY DEF SessionInv
<1> USE <1>0, SessionAssumption
<1>1. ASSUME NEW r \in RunId, Enqueue(r) \/ Fetch(r) \/ Finish(r) \/ PairStops(r) \/ LogArrives(r)
      PROVE  SessionTypeOK'
    BY <1>1 DEF SessionTypeOK, Enqueue, Fetch, Finish, PairStops, LogArrives, driverVars,
                fileVars, countVars
<1>2. CASE RedisStarts
    BY <1>2 DEF SessionTypeOK, RedisStarts, driverVars, fileVars, countVars
<1>3. CASE StartSession
    <2>1. {workers', redisUp', redisReady'} \subseteq BOOLEAN
        BY <1>3 DEF SessionTypeOK, StartSession, cloudVars
    <2>2. sessions' \in 0 .. MaxSessions /\ point' \in 1 .. Points + 1
        BY <1>3 DEF SessionTypeOK, StartSession
    <2> QED
        BY <1>3, <2>1, <2>2 DEF SessionTypeOK, StartSession, fileVars, cloudVars
<1>4. CASE BeginPoint
    <2>1. run' \in RunId
        BY <1>4, FreshRun DEF IdsLeft
    <2> QED
        BY <1>4, <2>1 DEF SessionTypeOK, BeginPoint, fileVars, cloudVars, countVars
<1>5. CASE SkipPoint \/ NoReport
    BY <1>5 DEF SessionTypeOK, SkipPoint, NoReport, NextPoint, IdsLeft, AtPoint, Point, fileVars,
                cloudVars, countVars
<1>6. CASE WaitForRedis \/ RedisTimeout \/ TakeSnapshot \/ StartProducer \/ PairStopped \/ EndSession
    BY <1>6 DEF SessionTypeOK, WaitForRedis, RedisTimeout, TakeSnapshot, StartProducer,
                PairStopped, EndSession, fileVars, cloudVars, countVars
<1>7. CASE ScaleToZero \/ Flush \/ Scale
    BY <1>7 DEF SessionTypeOK, ScaleToZero, Flush, Scale, fileVars, countVars
<1>8. CASE SaveSnapshot
    BY <1>8 DEF SessionTypeOK, SaveSnapshot, IdsLeft, AtPoint, RunId, NoRun, cloudVars, countVars
<1>9. CASE StartPair
    BY <1>9 DEF SessionTypeOK, StartPair, fileVars, countVars
<1>10. CASE SaveReport
    BY <1>10 DEF SessionTypeOK, SaveReport, NextPoint, IdsLeft, Files, AtPoint, Snapped, Point,
                 RunId, NoRun, cloudVars, countVars
<1>11. CASE DriverFails
    BY <1>11 DEF SessionTypeOK, DriverFails, fileVars, cloudVars
<1>12. ASSUME NEW p \in Point, Recover(p) PROVE SessionTypeOK'
    <2>1. (CHOOSE r \in Found(p) : TRUE) \in Found(p)
        BY <1>12, FoundSome
    <2>2. (CHOOSE r \in Found(p) : TRUE) \in RunId
        BY <2>1 DEF Found
    <2> QED
        BY <1>12, <2>2 DEF SessionTypeOK, Recover, driverVars, cloudVars, countVars
<1> QED
    BY <1>1, <1>2, <1>3, <1>4, <1>5, <1>6, <1>7, <1>8, <1>9, <1>10, <1>11, <1>12
       DEF SessionNext, Cloud, Driver

\* Every action keeps the account of run ids.
LEMMA StepIds ==
    ASSUME SessionInv, SessionNext
    PROVE  IdsLeft'
<1>0. SessionTypeOK /\ IdsLeft
    BY DEF SessionInv
<1>a. PICK k \in Nat : /\ k + Points <= sessions * Points + Begun
                       /\ \A r \in RunId : of[r] # 0 <=> r <= k
    BY <1>0 DEF IdsLeft
<1>b. /\ driver = "off" \/ driver = "next" \/ driver \in AtPoint
      /\ Begun \in Nat /\ Begun <= Points /\ sessions * Points \in Nat
      /\ sessions \in Nat /\ driverCrashes \in Nat /\ point \in Nat
      /\ Points \in Nat
    BY <1>0, DriverPlaces, SessionAssumption
<1>c. ASSUME UNCHANGED <<of, sessions>>, Begun <= Begun', Begun' \in Nat,
             sessions = 0 => driver' = "off" /\ driverCrashes' = 0,
             driver' \in AtPoint => point' \in Point /\ run' \in RunId /\ of[run'] = point'
      PROVE  IdsLeft'
    <2>1. sessions' * Points = sessions * Points
        BY <1>c
    <2>2. PICK b \in Nat : b = Begun' /\ Begun <= b
        BY <1>c
    <2>3. k + Points <= sessions * Points + b
        <3>1. PICK g \in Nat : g = Begun
            BY <1>b
        <3>2. PICK m \in Nat : m = sessions * Points
            BY <1>b
        <3>3. k + Points <= m + g /\ g <= b
            BY <1>a, <2>2, <3>1, <3>2
        <3> QED
            BY <1>b, <3>2, <3>3
    <2> QED
        BY <1>a, <1>c, <2>1, <2>2, <2>3 DEF IdsLeft
<1>1. CASE UNCHANGED <<driver, point, run, of, sessions, driverCrashes>>
    BY <1>0, <1>b, <1>c, <1>1 DEF IdsLeft, Begun
<1>2. CASE StartSession
    <2>1. sessions' = sessions + 1 /\ Begun' = 0 /\ Begun = Points /\ of' = of /\ driver' = "next"
        BY <1>2, <1>b DEF StartSession, Begun
    <2>2. sessions' * Points = sessions * Points + Points
        BY <1>b, <2>1
    <2>3. k + Points <= sessions' * Points + Begun'
        BY <1>a, <1>b, <2>1, <2>2
    <2> QED
        BY <1>a, <1>b, <2>1, <2>3 DEF IdsLeft, AtPoint
<1>3. CASE BeginPoint
    <2>1. run' = k + 1 /\ run' \in RunId /\ of[run'] = 0
        BY <1>3, <1>a, FreshRun
    <2>2. of' = [of EXCEPT ![run'] = point] /\ point \in Point /\ UNCHANGED <<point, sessions>>
        BY <1>3 DEF BeginPoint, countVars
    <2>3. Begun = point - 1 /\ Begun' = point /\ driver' # "off"
        BY <1>3 DEF BeginPoint, Begun
    <2>4. k + 1 + Points <= sessions' * Points + Begun'
        BY <1>a, <1>b, <2>2, <2>3
    <2>5. of'[run'] = point /\ \A r \in RunId : r # run' => of'[r] = of[r]
        BY <1>0, <2>1, <2>2 DEF SessionTypeOK
    <2>6. \A r \in RunId : of'[r] # 0 <=> r <= k + 1
        BY <1>a, <2>1, <2>2, <2>5 DEF RunId, Point
    <2>7. sessions' # 0
        BY <1>0, <1>3, <2>2 DEF IdsLeft, BeginPoint
    <2> QED
        BY <2>1, <2>2, <2>4, <2>5, <2>6, <2>7 DEF IdsLeft
<1>4. CASE SkipPoint \/ NoReport \/ SaveReport
    <2>1. /\ UNCHANGED <<of, sessions, driverCrashes>> /\ driver # "off" /\ driver' = "next"
          /\ point' = point + 1
        BY <1>4 DEF SkipPoint, NoReport, SaveReport, NextPoint, countVars
    <2>2. Begun <= Begun' /\ Begun' \in Nat
        BY <1>b, <2>1 DEF Begun
    <2> QED
        BY <1>0, <1>c, <2>1, <2>2 DEF IdsLeft, AtPoint
<1>5. CASE EndSession \/ RedisTimeout \/ DriverFails
    <2>1. UNCHANGED <<of, sessions>> /\ driver # "off" /\ driver' = "off"
        BY <1>5 DEF EndSession, RedisTimeout, DriverFails, countVars
    <2>2. Begun <= Begun' /\ Begun' \in Nat
        BY <1>b, <2>1 DEF Begun
    <2> QED
        BY <1>0, <1>c, <2>1, <2>2 DEF IdsLeft, AtPoint
<1>6. CASE \/ WaitForRedis \/ ScaleToZero \/ Flush \/ Scale \/ TakeSnapshot \/ SaveSnapshot
           \/ StartProducer \/ StartPair \/ PairStopped
    <2>1. /\ UNCHANGED <<of, sessions, driverCrashes, point, run>>
          /\ driver \in AtPoint /\ driver' \in AtPoint
        BY <1>6 DEF WaitForRedis, ScaleToZero, Flush, Scale, TakeSnapshot, SaveSnapshot,
                    StartProducer, StartPair, PairStopped, countVars, AtPoint
    <2>2. Begun = point /\ Begun' = point /\ driver # "off"
        BY <2>1 DEF Begun, AtPoint
    <2> QED
        BY <1>0, <1>b, <1>c, <2>1, <2>2 DEF IdsLeft
<1>7. ASSUME NEW r \in RunId, Enqueue(r) \/ Fetch(r) \/ Finish(r) \/ PairStops(r) \/ LogArrives(r)
      PROVE  IdsLeft'
    BY <1>1, <1>7 DEF Enqueue, Fetch, Finish, PairStops, LogArrives, driverVars, countVars
<1>8. CASE RedisStarts \/ \E p \in Point : Recover(p)
    BY <1>1, <1>8 DEF RedisStarts, Recover, driverVars, countVars
<1> QED
    BY <1>2, <1>3, <1>4, <1>5, <1>6, <1>7, <1>8 DEF SessionNext, Cloud, Driver

\* Every action keeps the files in order.
LEMMA StepFiles ==
    ASSUME SessionInv, SessionNext
    PROVE  Files'
<1>0. SessionTypeOK /\ IdsLeft /\ Files
    BY DEF SessionInv
<1>1. CASE UNCHANGED <<snapshot, report, of>> /\ driver' \notin AtPoint
    BY <1>0, <1>1 DEF Files, AtPoint, Snapped
<1>2. CASE UNCHANGED <<snapshot, report, of, driver, point, run>>
    BY <1>0, <1>2 DEF Files
<1>3. CASE StartSession \/ SkipPoint \/ NoReport \/ EndSession \/ RedisTimeout \/ DriverFails
    BY <1>1, <1>3 DEF StartSession, SkipPoint, NoReport, EndSession, RedisTimeout, DriverFails,
                      NextPoint, fileVars, AtPoint
<1>4. CASE BeginPoint
    <2>1. PICK r \in RunId : r = run' /\ of[r] = 0
        BY <1>0, <1>4, FreshRun DEF IdsLeft
    <2>2. of' = [of EXCEPT ![r] = point] /\ UNCHANGED <<snapshot, report, point>> /\ ~Saved
        BY <1>4, <2>1 DEF BeginPoint, fileVars
    <2>3. driver' \in {"drain", "redis"}
        BY <1>4 DEF BeginPoint
    <2>4. ASSUME NEW p \in Point, snapshot[p] # NoRun PROVE of'[snapshot[p]] = p
        <3>1. of[snapshot[p]] = p /\ snapshot[p] \in RunId
            BY <1>0, <2>4 DEF Files, SessionTypeOK
        <3>2. snapshot[p] # r
            BY <2>1, <3>1 DEF Point
        <3> QED
            BY <1>0, <2>2, <3>1, <3>2 DEF SessionTypeOK
    <2> QED
        BY <2>2, <2>3, <2>4 DEF Files, Saved, Snapped
<1>5. CASE \/ WaitForRedis \/ ScaleToZero \/ Flush \/ Scale \/ TakeSnapshot
           \/ StartProducer \/ StartPair \/ PairStopped
    <2>1. /\ UNCHANGED <<snapshot, report, of, point, run>>
          /\ driver \in AtPoint /\ (driver' \in Snapped => driver \in Snapped)
        BY <1>5 DEF WaitForRedis, ScaleToZero, Flush, Scale, TakeSnapshot, StartProducer,
                    StartPair, PairStopped, fileVars, AtPoint, Snapped
    <2> QED
        BY <1>0, <2>1 DEF Files
<1>6. CASE SaveSnapshot
    <2>1. /\ snapshot' = [snapshot EXCEPT ![point] = run] /\ UNCHANGED <<report, of, point, run>>
          /\ driver \in AtPoint
        BY <1>6 DEF SaveSnapshot, AtPoint
    <2>2. point \in Point /\ run \in RunId /\ of[run] = point
        BY <1>0, <2>1 DEF IdsLeft
    <2>3. snapshot'[point] = run /\ \A p \in Point : p # point => snapshot'[p] = snapshot[p]
        BY <1>0, <2>1, <2>2 DEF SessionTypeOK
    <2> QED
        BY <1>0, <2>1, <2>2, <2>3 DEF Files
<1>7. CASE SaveReport
    BY <1>0, <1>7 DEF SaveReport, NextPoint, Files, AtPoint, Snapped
<1>8. ASSUME NEW r \in RunId, Enqueue(r) \/ Fetch(r) \/ Finish(r) \/ PairStops(r) \/ LogArrives(r)
      PROVE  Files'
    BY <1>2, <1>8 DEF Enqueue, Fetch, Finish, PairStops, LogArrives, driverVars, fileVars
<1>9. CASE RedisStarts
    BY <1>2, <1>9 DEF RedisStarts, driverVars, fileVars
<1>10. ASSUME NEW p \in Point, Recover(p) PROVE Files'
    BY <1>0, <1>10 DEF Recover, driverVars, Files, AtPoint, Snapped
<1> QED
    BY <1>3, <1>4, <1>5, <1>6, <1>7, <1>8, <1>9, <1>10 DEF SessionNext, Cloud, Driver

\* Every action keeps the first session's runs and files.
LEMMA StepOneRun ==
    ASSUME SessionInv, SessionNext
    PROVE  OneRunEach'
<1>0. SessionTypeOK /\ IdsLeft /\ Files /\ OneRunEach
    BY DEF SessionInv
<1>b. /\ driver = "off" \/ driver = "next" \/ driver \in AtPoint
      /\ Begun \in Nat /\ sessions \in Nat /\ point \in Nat
      /\ \A r \in RunId : of[r] \in Nat
    BY <1>0, DriverPlaces, SessionAssumption DEF SessionTypeOK, Point
<1>1. ASSUME UNCHANGED <<snapshot, report, of, sessions>>, driver # "off",
             driver' # "off" => Begun <= Begun' /\ Begun' \in Nat
      PROVE  OneRunEach'
    BY <1>0, <1>b, <1>1 DEF OneRunEach
<1>2. CASE UNCHANGED <<snapshot, report, of, driver, point, sessions>>
    BY <1>0, <1>2 DEF OneRunEach, Begun
<1>3. CASE StartSession
    <2>1. sessions' = sessions + 1 /\ UNCHANGED <<of, snapshot, report>>
        BY <1>3 DEF StartSession, fileVars
    <2>2. CASE sessions = 0
        <3>1. PICK k \in Nat : /\ k + Points <= sessions * Points + Begun
                               /\ \A r \in RunId : of[r] # 0 <=> r <= k
            BY <1>0 DEF IdsLeft
        <3>2. sessions * Points = 0 /\ Begun = Points
            BY <1>3, <2>2, SessionAssumption DEF StartSession, Begun
        <3>3. k = 0
            BY <3>1, <3>2, SessionAssumption
        <3>4. \A r \in RunId : of[r] = 0
            BY <3>1, <3>3 DEF RunId
        <3> QED
            BY <1>0, <1>b, <2>1, <2>2, <3>4 DEF OneRunEach
    <2>3. CASE sessions # 0
        BY <1>b, <2>1, <2>3 DEF OneRunEach
    <2> QED
        BY <2>2, <2>3
<1>4. CASE BeginPoint
    <2>1. PICK r \in RunId : r = run' /\ of[r] = 0
        BY <1>0, <1>4, FreshRun DEF IdsLeft
    <2>2. of' = [of EXCEPT ![r] = point] /\ UNCHANGED <<snapshot, report, point, sessions>>
        BY <1>4, <2>1 DEF BeginPoint, fileVars, countVars
    <2>3. driver = "next" /\ driver' \in {"drain", "redis"} /\ point \in Point
        BY <1>4 DEF BeginPoint
    <2>4. Begun = point - 1 /\ Begun' = point
        BY <2>2, <2>3 DEF Begun
    <2>5. of'[r] = point /\ \A q \in RunId : q # r => of'[q] = of[q]
        BY <1>0, <2>2 DEF SessionTypeOK
    <2> SUFFICES ASSUME sessions <= 1 PROVE OneRunEach'
        BY <2>2 DEF OneRunEach
    <2>6. \A q \in RunId : of[q] # 0 => of[q] <= point - 1
        BY <1>0, <2>3, <2>4 DEF OneRunEach
    <2>7. \A q \in RunId : q # r => of'[q] # point
        BY <1>b, <2>3, <2>5, <2>6 DEF Point
    <2>8. \A q, x \in RunId : of'[q] # 0 /\ of'[q] = of'[x] => q = x
        BY <1>0, <2>5, <2>7 DEF OneRunEach
    <2>9. \A q \in RunId : of'[q] # 0 => of'[q] <= Begun'
        BY <1>b, <2>4, <2>5, <2>6
    <2> QED
        BY <1>0, <2>2, <2>8, <2>9 DEF OneRunEach
<1>5. CASE SkipPoint \/ NoReport
    <2>1. /\ UNCHANGED <<snapshot, report, of, sessions>> /\ driver # "off" /\ driver' = "next"
          /\ point' = point + 1
        BY <1>5 DEF SkipPoint, NoReport, NextPoint, fileVars, countVars
    <2> QED
        BY <1>b, <1>1, <2>1 DEF Begun
<1>6. CASE EndSession \/ RedisTimeout \/ DriverFails
    BY <1>1, <1>6 DEF EndSession, RedisTimeout, DriverFails, fileVars, countVars
<1>7. CASE \/ WaitForRedis \/ ScaleToZero \/ Flush \/ Scale \/ TakeSnapshot
           \/ StartProducer \/ StartPair \/ PairStopped
    <2>1. UNCHANGED <<snapshot, report, of, sessions, point>> /\ {driver, driver'} \subseteq AtPoint
        BY <1>7 DEF WaitForRedis, ScaleToZero, Flush, Scale, TakeSnapshot, StartProducer,
                    StartPair, PairStopped, fileVars, countVars, AtPoint
    <2>2. driver # "off" /\ Begun' = Begun
        BY <2>1 DEF Begun, AtPoint
    <2> QED
        BY <1>b, <1>1, <2>1, <2>2
<1>8. CASE SaveSnapshot
    <2>1. /\ snapshot' = [snapshot EXCEPT ![point] = run]
          /\ UNCHANGED <<report, of, point, sessions>>
          /\ {driver, driver'} \subseteq AtPoint
        BY <1>8 DEF SaveSnapshot, AtPoint, countVars
    <2>2. report[point] = NoRun /\ point \in Point
        BY <1>0, <2>1 DEF IdsLeft, Files
    <2>3. \A p \in Point : p # point => snapshot'[p] = snapshot[p]
        BY <1>0, <2>1 DEF SessionTypeOK
    <2>4. Begun' = Begun /\ driver # "off"
        BY <2>1 DEF Begun, AtPoint
    <2> QED
        BY <1>0, <2>1, <2>2, <2>3, <2>4 DEF OneRunEach
<1>9. CASE SaveReport
    <2>1. /\ report' = [report EXCEPT ![point] = run]
          /\ UNCHANGED <<snapshot, of, sessions>> /\ point' = point + 1
          /\ driver = "read" /\ driver' = "next"
        BY <1>9 DEF SaveReport, NextPoint, countVars
    <2>2. snapshot[point] = run /\ point \in Point
        BY <1>0, <2>1 DEF IdsLeft, Files, AtPoint, Snapped
    <2>3. report'[point] = run /\ \A p \in Point : p # point => report'[p] = report[p]
        BY <1>0, <2>1, <2>2 DEF SessionTypeOK
    <2>4. Begun' = Begun
        BY <1>b, <2>1 DEF Begun
    <2> QED
        BY <1>0, <2>1, <2>2, <2>3, <2>4 DEF OneRunEach
<1>10. ASSUME NEW r \in RunId, Enqueue(r) \/ Fetch(r) \/ Finish(r) \/ PairStops(r) \/ LogArrives(r)
      PROVE  OneRunEach'
    BY <1>2, <1>10 DEF Enqueue, Fetch, Finish, PairStops, LogArrives, driverVars, fileVars, countVars
<1>11. CASE RedisStarts
    BY <1>2, <1>11 DEF RedisStarts, driverVars, fileVars, countVars
<1>12. ASSUME NEW p \in Point, Recover(p) PROVE OneRunEach'
    <2>1. PICK r \in Found(p) : report' = [report EXCEPT ![p] = r]
        BY <1>12, FoundSome DEF Recover
    <2>2. r \in RunId /\ of[r] = p
        BY <2>1 DEF Found
    <2>3. snapshot[p] # NoRun /\ UNCHANGED <<snapshot, of, driver, point, sessions>>
        BY <1>12 DEF Recover, driverVars, countVars
    <2>4. of[snapshot[p]] = p /\ snapshot[p] \in RunId
        BY <1>0, <2>3 DEF Files, SessionTypeOK
    <2>5. sessions <= 1 => snapshot[p] = r
        BY <1>0, <2>2, <2>4 DEF OneRunEach, Point
    <2>6. report'[p] = r /\ \A q \in Point : q # p => report'[q] = report[q]
        BY <1>0, <2>1 DEF SessionTypeOK
    <2>7. Begun' = Begun
        BY <2>3 DEF Begun
    <2> QED
        BY <1>0, <2>3, <2>5, <2>6, <2>7 DEF OneRunEach
<1> QED
    BY <1>3, <1>4, <1>5, <1>6, <1>7, <1>8, <1>9, <1>10, <1>11, <1>12 DEF SessionNext, Cloud, Driver

\* Every action keeps a point's pair the only one, as long as no session was cut short.
LEMMA StepOwnPair ==
    ASSUME SessionInv, SessionNext
    PROVE  OwnPair'
<1>0. SessionTypeOK /\ IdsLeft /\ OwnPair
    BY DEF SessionInv
<1>b. sessions \in Nat /\ driverCrashes \in Nat
    BY <1>0, DriverPlaces
<1> USE <1>0
<1>1. ASSUME NEW r \in RunId, Enqueue(r) PROVE OwnPair'
    <2>1. /\ task[r] = "running" /\ redis' = redis \union {r}
          /\ UNCHANGED <<driver, run, task, workers, inFlight, sessions, driverCrashes>>
        BY <1>1 DEF Enqueue, driverVars, countVars
    <2>2. Undisturbed' = Undisturbed
        BY <2>1 DEF Undisturbed
    <2>3. Undisturbed /\ driver # "off" => driver = "wait" /\ r = run
        BY <2>1 DEF OwnPair
    <2> QED
        BY <2>1, <2>2, <2>3 DEF OwnPair, Emptied
<1>2. ASSUME NEW r \in RunId, Fetch(r) \/ Finish(r) PROVE OwnPair'
    <2>1. /\ UNCHANGED <<driver, run, task, workers, sessions, driverCrashes>>
          /\ workers /\ r \in redis \union inFlight
          /\ inFlight' \subseteq inFlight \union {r} /\ redis' \subseteq redis \union {r}
        BY <1>2 DEF Fetch, Finish, driverVars, countVars
    <2>2. Undisturbed' = Undisturbed
        BY <2>1 DEF Undisturbed
    <2>3. Undisturbed => /\ driver # "flush" /\ driver \notin Emptied
                         /\ driver = "wait" => r = run
        BY <2>1 DEF OwnPair
    <2> QED
        BY <2>1, <2>2, <2>3 DEF OwnPair
<1>3. ASSUME NEW r \in RunId, PairStops(r) \/ LogArrives(r) PROVE OwnPair'
    <2>1. /\ UNCHANGED <<driver, run, workers, inFlight, redis, sessions, driverCrashes>>
          /\ \A q \in RunId : task'[q] = "running" => task[q] = "running"
        BY <1>3 DEF PairStops, LogArrives, SessionTypeOK, driverVars, countVars
    <2>2. Undisturbed' = Undisturbed
        BY <2>1 DEF Undisturbed
    <2> QED
        BY <2>1, <2>2 DEF OwnPair
<1>4. CASE RedisStarts \/ \E p \in Point : Recover(p)
    BY <1>4 DEF RedisStarts, Recover, OwnPair, Undisturbed, driverVars, cloudVars, countVars
<1>5. CASE StartSession
    <2>1. /\ driver = "off" /\ driver' = "next" /\ sessions' = sessions + 1
          /\ UNCHANGED <<task, driverCrashes>>
        BY <1>5 DEF StartSession, cloudVars
    <2>2. Undisturbed' => Undisturbed /\ driverCrashes = 0
        BY <1>b, <2>1 DEF Undisturbed, IdsLeft
    <2> QED
        BY <2>1, <2>2 DEF OwnPair, Emptied
<1>6. CASE BeginPoint \/ SkipPoint \/ NoReport \/ SaveReport
    <2>1. /\ driver \in {"next", "read"} /\ driver' \in {"next", "drain", "redis"}
          /\ UNCHANGED <<task, sessions, driverCrashes>>
        BY <1>6 DEF BeginPoint, SkipPoint, NoReport, SaveReport, NextPoint, cloudVars, countVars
    <2>2. Undisturbed' = Undisturbed
        BY <2>1 DEF Undisturbed
    <2> QED
        BY <2>1, <2>2 DEF OwnPair, Emptied
<1>7. CASE WaitForRedis \/ RedisTimeout \/ EndSession
    <2>1. /\ driver \in {"redis", "next"} /\ driver' \in {"drain", "off"}
          /\ UNCHANGED <<task, sessions, driverCrashes>>
        BY <1>7 DEF WaitForRedis, RedisTimeout, EndSession, cloudVars, countVars
    <2>2. Undisturbed' = Undisturbed
        BY <2>1 DEF Undisturbed
    <2> QED
        BY <2>1, <2>2 DEF OwnPair, Emptied
<1>8. CASE ScaleToZero \/ Flush \/ Scale
    <2>1. /\ driver \in {"drain", "flush", "scale"} /\ UNCHANGED <<task, sessions, driverCrashes>>
          /\ \/ driver' = "flush" /\ workers' = FALSE /\ inFlight' = {}
             \/ driver' = "scale" /\ driver = "flush" /\ inFlight' = inFlight /\ redis' = {}
             \/ driver' = "snapshot" /\ driver = "scale" /\ UNCHANGED <<inFlight, redis>>
        BY <1>8 DEF ScaleToZero, Flush, Scale, countVars
    <2>2. Undisturbed' = Undisturbed
        BY <2>1 DEF Undisturbed
    <2> QED
        BY <2>1, <2>2 DEF OwnPair, Emptied
<1>9. CASE TakeSnapshot \/ SaveSnapshot \/ StartProducer
    <2>1. /\ driver \in {"snapshot", "save", "producer"}
          /\ driver' \in {"save", "producer", "coordinator"}
          /\ UNCHANGED <<task, inFlight, redis, sessions, driverCrashes>>
        BY <1>9 DEF TakeSnapshot, SaveSnapshot, StartProducer, cloudVars, countVars
    <2>2. Undisturbed' = Undisturbed
        BY <2>1 DEF Undisturbed
    <2> QED
        BY <2>1, <2>2 DEF OwnPair, Emptied
<1>10. CASE StartPair
    <2>1. /\ driver = "coordinator" /\ driver' = "wait" /\ task' = [task EXCEPT ![run] = "running"]
          /\ UNCHANGED <<run, inFlight, redis, sessions, driverCrashes>>
        BY <1>10 DEF StartPair, countVars
    <2>2. Undisturbed' = Undisturbed
        BY <2>1 DEF Undisturbed
    <2>3. \A r \in RunId : r # run => task'[r] = task[r]
        BY <2>1 DEF SessionTypeOK
    <2> QED
        BY <2>1, <2>2, <2>3 DEF OwnPair, Emptied
<1>11. CASE PairStopped
    <2>1. /\ driver = "wait" /\ driver' = "read" /\ task[run] # "running"
          /\ UNCHANGED <<run, task, sessions, driverCrashes>>
        BY <1>11 DEF PairStopped, cloudVars, countVars
    <2>2. Undisturbed' = Undisturbed
        BY <2>1 DEF Undisturbed
    <2> QED
        BY <2>1, <2>2 DEF OwnPair, Emptied
<1>12. CASE DriverFails
    <2>1. driver' = "off" /\ driverCrashes' = driverCrashes + 1
        BY <1>12 DEF DriverFails
    <2> QED
        BY <1>b, <2>1 DEF OwnPair, Emptied
<1> QED
    BY <1>1, <1>2, <1>3, <1>4, <1>5, <1>6, <1>7, <1>8, <1>9, <1>10, <1>11, <1>12
       DEF SessionNext, Cloud, Driver

\* Every step keeps the invariant.
LEMMA StepSessions == SessionInv /\ [SessionNext]_sessionVars => SessionInv'
<1> SUFFICES ASSUME SessionInv, [SessionNext]_sessionVars PROVE SessionInv'
    OBVIOUS
<1>1. CASE SessionNext
    BY <1>1, StepSessionTypes, StepIds, StepFiles, StepOneRun, StepOwnPair DEF SessionInv
<1>2. CASE UNCHANGED sessionVars
    BY <1>2 DEF SessionInv, SessionTypeOK, IdsLeft, Begun, Files, OneRunEach, OwnPair,
                Undisturbed, sessionVars, driverVars, fileVars, cloudVars, countVars
<1> QED
    BY <1>1, <1>2

\* The invariant holds through every session.
THEOREM SessionAlwaysSound == SessionSpec => []SessionInv
BY InitSession, StepSessions, PTL DEF SessionSpec

\* The driver's state, its files and its run ids are what they should be, through any number
\* of sessions.
THEOREM SessionTypes == SessionSpec => []SessionTypeOK
BY SessionAlwaysSound, PTL DEF SessionInv

\* What the invariant is for.
LEMMA SessionFollows == SessionInv => PointIsOneRun
<1> SUFFICES ASSUME SessionInv PROVE PointIsOneRun
    OBVIOUS
<1>1. CleanStart
    BY DEF SessionInv, OwnPair, Undisturbed, CleanStart
<1>2. ReportOfSnapshot
    BY DEF SessionInv, OneRunEach, ReportOfSnapshot
<1> QED
    BY <1>1, <1>2 DEF PointIsOneRun

\* With any number of points: while deploy/bench.py waits for a point's pair, only that run has
\* written to Redis, unless a session before this one was cut short and left its pair running;
\* and in the first session, and in what `recover` finds after it, the report of a point is of
\* the run its snapshot is of.  After a later session has run the point again it need not be:
\* nothing is said of that.
THEOREM PointsAreOneRun == SessionSpec => []PointIsOneRun
<1> QED
    BY SessionFollows, SessionAlwaysSound, PTL

-----------------------------------------------------------------------------
(* A paced producer *)

\* At time t, no more than the jobs of the last d units, and a fraction of one, are missing.
Behind(t, d) == Rate * t < (offered + 1) * Second + Rate * d

AllOffered == offered = total_due

PaceTypes ==
    /\ loop \in {"top", "xlen", "call", "sleep", "done"}
    /\ clock \in Nat /\ since \in Nat /\ now \in Nat /\ due \in Nat /\ offered \in Nat

\* Nothing is offered before it is due; a call is for what is due at its turn's reading of the
\* clock.
NotEarly ==
    /\ now <= clock /\ offered * Second <= Rate * now /\ offered <= total_due
    /\ loop = "call" =>
         /\ due >= 1 /\ offered + due <= total_due
         /\ (offered + due) * Second <= Rate * now
         /\ offered + due = total_due \/ Rate * now < (offered + due + 1) * Second

\* Without a depth limit, where the clock may be from the reading, and how far behind the
\* producer may be.
NotLate ==
    ~depthLimited =>
        /\ loop \in {"top", "xlen", "done"} => AllOffered \/ Behind(clock, Tick + 2 * MaxAwait)
        /\ loop = "xlen" => clock = now
        /\ loop = "call" =>
             Behind(now, Tick + 2 * MaxAwait) /\ since = now /\ clock <= now + MaxAwait
        /\ loop = "sleep" =>
             /\ AllOffered \/ Rate * now < (offered + 1) * Second
             /\ since <= now + MaxAwait + Tick /\ clock <= since + MaxAwait

\* The inductive invariant.
PaceInv == PaceTypes /\ NotEarly /\ NotLate

\* The constants are positive numbers, and so is the number of jobs.
LEMMA PaceConstants ==
    /\ Rate \in Nat /\ Second \in Nat /\ Duration \in Nat /\ Tick \in Nat /\ Batch \in Nat
    /\ Rate > 0 /\ Second > 0 /\ Duration > 0 /\ Tick > 0 /\ Batch > 0 /\ MaxAwait \in Nat
BY PacingAssumption

\* Division rounds down.
LEMMA Floor ==
    ASSUME NEW a \in Nat, NEW b \in Nat, b > 0
    PROVE  /\ a \div b \in Nat
           /\ (a \div b) * b <= a /\ a < ((a \div b) + 1) * b
OBVIOUS

\* The lesser of two numbers.
LEMMA LesserOfTwo ==
    ASSUME NEW a \in Nat, NEW b \in Nat
    PROVE  Min({a, b}) = IF a <= b THEN a ELSE b
BY DEF Min

\* The order of products.
LEMMA Scaled ==
    ASSUME NEW a \in Nat, NEW b \in Nat, NEW m \in Nat, a <= b
    PROVE  a * m <= b * m /\ m * a <= m * b
<1>1. (b - a) * m \in Nat
    OBVIOUS
<1> QED
    BY <1>1

\* A sleep to the grid ends within a tick.
LEMMA NextTickSoon ==
    ASSUME clock \in Nat
    PROVE  NextTick \in Nat /\ clock <= NextTick /\ NextTick <= clock + Tick
<1>1. clock % Tick \in 0 .. Tick - 1
    BY PaceConstants
<1> QED
    BY <1>1, PaceConstants DEF NextTick

\* The number of jobs of a whole run.
LEMMA TotalDue == total_due \in Nat /\ Rate * Duration < (total_due + 1) * Second
<1>1. Rate * Duration \in Nat
    BY PaceConstants
<1> QED
    BY <1>1, PaceConstants, Floor DEF total_due

\* What is due at a turn brings the offered jobs up to the rate, or to the total.
LEMMA DueUpToRate ==
    ASSUME PaceTypes, NotEarly
    PROVE  /\ JobsDue \in Int
           /\ JobsDue >= 1 =>
                /\ JobsDue \in Nat /\ offered + JobsDue <= total_due
                /\ (offered + JobsDue) * Second <= Rate * now
                /\ \/ offered + JobsDue = total_due
                   \/ Rate * now < (offered + JobsDue + 1) * Second
           /\ JobsDue < 1 => AllOffered \/ Rate * now < (offered + 1) * Second
<1>1. offered \in Nat /\ now \in Nat /\ Rate \in Nat /\ Second \in Nat /\ Second > 0
    BY PaceConstants DEF PaceTypes
<1>2. PICK m \in Nat : m = Rate * now
    BY <1>1
<1>3. PICK q \in Nat : q = m \div Second /\ q * Second <= m /\ m < (q + 1) * Second
    BY <1>1, <1>2, Floor
<1>4. PICK t \in Nat : t = total_due
    BY TotalDue
<1>5. JobsDue = (IF q <= t THEN q ELSE t) - offered
    BY <1>2, <1>3, <1>4, LesserOfTwo DEF JobsDue
<1>6. offered <= t
    BY <1>4 DEF NotEarly
<1>7. CASE q <= t
    <2>1. JobsDue = q - offered
        BY <1>5, <1>7
    <2>2. ASSUME JobsDue >= 1
          PROVE  /\ JobsDue \in Nat /\ offered + JobsDue = q
        BY <1>1, <2>1, <2>2
    <2>3. ASSUME JobsDue < 1 PROVE m < (offered + 1) * Second
        <3>1. q + 1 <= offered + 1
            BY <1>1, <2>1, <2>3
        <3>2. (q + 1) * Second <= (offered + 1) * Second
            BY <1>1, <3>1, Scaled
        <3>3. (q + 1) * Second \in Nat /\ (offered + 1) * Second \in Nat
            BY <1>1
        <3> QED
            BY <1>3, <3>2, <3>3
    <2> QED
        BY <1>1, <1>2, <1>3, <1>4, <1>7, <2>1, <2>2, <2>3
<1>8. CASE ~(q <= t)
    <2>1. JobsDue = t - offered
        BY <1>5, <1>8
    <2>2. t * Second <= m
        <3>1. t * Second <= q * Second
            BY <1>1, <1>8, Scaled
        <3>2. t * Second \in Nat /\ q * Second \in Nat
            BY <1>1
        <3> QED
            BY <1>3, <3>1, <3>2
    <2>3. offered + JobsDue = t
        BY <1>1, <2>1
    <2>4. JobsDue < 1 => offered = t
        BY <1>1, <1>6, <2>1
    <2> QED
        BY <1>1, <1>2, <1>4, <2>1, <2>2, <2>3, <2>4 DEF AllOffered
<1> QED
    BY <1>7, <1>8

\* The producer starts at zero.
LEMMA InitPace == PacingInit => PaceInv
<1> SUFFICES ASSUME PacingInit PROVE PaceInv
    OBVIOUS
<1>1. PaceTypes
    BY DEF PacingInit, PaceTypes
<1>2. NotEarly
    BY TotalDue, PaceConstants DEF PacingInit, NotEarly
<1>3. Behind(clock, Tick + 2 * MaxAwait)
    <2>1. Rate * clock = 0 /\ (offered + 1) * Second = Second
        BY PaceConstants DEF PacingInit
    <2>2. Rate * (Tick + 2 * MaxAwait) \in Nat
        BY PaceConstants
    <2> QED
        BY <2>1, <2>2, PaceConstants DEF Behind
<1>4. NotLate
    BY <1>3 DEF PacingInit, NotLate
<1> QED
    BY <1>1, <1>2, <1>4 DEF PaceInv

\* A batch is part of what is due, and all of it unless the batch is full.
LEMMA SizeOfCall ==
    ASSUME due \in Nat, due >= 1
    PROVE  /\ Size \in Nat /\ Size <= due
           /\ Size # due => Size = Batch
BY PaceConstants, LesserOfTwo DEF Size

\* Every action keeps the types of the producer's loop.
LEMMA StepPaceTypes ==
    ASSUME PaceTypes, NotEarly, PacingNext
    PROVE  PaceTypes'
<1> USE PaceConstants
<1>1. CASE Pass
    BY <1>1 DEF Pass, PaceTypes
<1>2. CASE Turn
    BY <1>2 DEF Turn, PaceTypes
<1>3. CASE TooDeep
    BY <1>3 DEF TooDeep, Sleep, PaceTypes
<1>4. CASE NotDue
    BY <1>4, NextTickSoon DEF NotDue, Sleep, PaceTypes
<1>5. CASE StartCall
    <2>1. JobsDue \in Nat
        BY <1>5, DueUpToRate DEF StartCall
    <2> QED
        BY <1>5, <2>1 DEF StartCall, PaceTypes
<1>6. CASE Wake
    BY <1>6 DEF Wake, PaceTypes
<1>7. ASSUME NEW a \in 0 .. Batch, CallReturns(a) PROVE PaceTypes'
    <2>1. Size \in Nat
        BY <1>7, SizeOfCall DEF CallReturns, PaceTypes, NotEarly
    <2> QED
        BY <1>7, <2>1, NextTickSoon DEF CallReturns, AfterCall, Sleep, PaceTypes
<1> QED
    BY <1>1, <1>2, <1>3, <1>4, <1>5, <1>6, <1>7 DEF PacingNext, Await

\* No action offers a job before it is due.
LEMMA StepNotEarly ==
    ASSUME PaceTypes, NotEarly, PacingNext
    PROVE  NotEarly'
<1> USE PaceConstants
<1>1. CASE Pass
    BY <1>1 DEF Pass, PaceTypes, NotEarly, total_due
<1>2. CASE Turn
    <2>1. now' = clock /\ clock' = clock /\ offered' = offered /\ loop' # "call"
        BY <1>2 DEF Turn
    <2>2. Rate * now <= Rate * clock /\ offered * Second <= Rate * now
        BY Scaled DEF PaceTypes, NotEarly
    <2>3. Rate * now \in Nat /\ Rate * clock \in Nat /\ offered * Second \in Nat
        BY DEF PaceTypes
    <2>4. offered * Second <= Rate * clock
        BY <2>2, <2>3
    <2> QED
        BY <2>1, <2>4 DEF PaceTypes, NotEarly, total_due
<1>3. CASE TooDeep \/ NotDue \/ Wake
    BY <1>3 DEF TooDeep, NotDue, Wake, Sleep, NotEarly, total_due
<1>4. CASE StartCall
    BY <1>4, DueUpToRate DEF StartCall, NotEarly, total_due
<1>5. ASSUME NEW a \in 0 .. Batch, CallReturns(a) PROVE NotEarly'
    <2>1. /\ offered \in Nat /\ due \in Nat /\ now \in Nat /\ Size \in Nat /\ Size <= due
        BY <1>5, SizeOfCall DEF CallReturns, PaceTypes, NotEarly
    <2>2. /\ offered' = offered + Size /\ UNCHANGED <<now, clock>> /\ loop' # "call"
        BY <1>5 DEF CallReturns, AfterCall, Sleep
    <2>3. offered + Size <= total_due
        BY <1>5, <2>1, TotalDue DEF CallReturns, NotEarly
    <2>4. (offered + Size) * Second <= (offered + due) * Second
        BY <2>1, Scaled
    <2>5. (offered + due) * Second <= Rate * now
        BY <1>5 DEF CallReturns, NotEarly
    <2>6. /\ (offered + Size) * Second \in Nat /\ (offered + due) * Second \in Nat
          /\ Rate * now \in Nat
        BY <2>1
    <2>7. (offered + Size) * Second <= Rate * now
        BY <2>4, <2>5, <2>6
    <2> QED
        BY <2>2, <2>3, <2>7 DEF NotEarly, total_due
<1> QED
    BY <1>1, <1>2, <1>3, <1>4, <1>5 DEF PacingNext, Await

\* How far behind the producer is grows with the clock and no faster.
LEMMA Later ==
    ASSUME offered \in Nat, NEW t \in Nat, NEW u \in Nat, NEW d \in Nat, NEW e \in Nat,
           Behind(t, d), u + d <= t + e
    PROVE  Behind(u, e)
<1>1. Rate * (u + d) <= Rate * (t + e)
    BY Scaled, PaceConstants
<1>2. Rate * (u + d) = Rate * u + Rate * d /\ Rate * (t + e) = Rate * t + Rate * e
    BY PaceConstants
<1>3. /\ Rate * u \in Nat /\ Rate * d \in Nat /\ Rate * t \in Nat /\ Rate * e \in Nat
      /\ (offered + 1) * Second \in Nat
    BY PaceConstants
<1>4. Rate * t < (offered + 1) * Second + Rate * d
    BY DEF Behind
<1>5. Rate * u < (offered + 1) * Second + Rate * e
    BY <1>1, <1>2, <1>3, <1>4
<1> QED
    BY <1>5 DEF Behind

\* Up to date at the reading of the clock, the producer is not behind at all.
LEMMA UpToDate ==
    ASSUME now \in Nat, offered \in Nat, Rate * now < (offered + 1) * Second
    PROVE  Behind(now, 0)
<1>1. Rate * 0 = 0 /\ (offered + 1) * Second \in Nat
    BY PaceConstants
<1> QED
    BY <1>1 DEF Behind

\* A full batch makes up for the time its call takes, if the calls can carry the rate.
LEMMA BatchKeepsUp ==
    ASSUME Rate * MaxAwait <= Batch * Second,
           offered \in Nat, now \in Nat, clock \in Nat, clock <= now + MaxAwait,
           NEW d \in Nat, Behind(now, d), offered' = offered + Batch, clock' = clock
    PROVE  Behind(clock, d)'
<1>1. Rate * clock <= Rate * now + Rate * MaxAwait
    <2>1. Rate * clock <= Rate * (now + MaxAwait)
        BY Scaled, PaceConstants
    <2> QED
        BY <2>1, PaceConstants
<1>2. (offered' + 1) * Second = (offered + 1) * Second + Batch * Second
    BY PaceConstants
<1>3. /\ Rate * clock \in Nat /\ Rate * now \in Nat /\ Rate * MaxAwait \in Nat
      /\ Batch * Second \in Nat /\ (offered + 1) * Second \in Nat /\ Rate * d \in Nat
    BY PaceConstants
<1>4. Rate * now < (offered + 1) * Second + Rate * d
    BY DEF Behind
<1>5. Rate * clock < ((offered + 1) * Second + Batch * Second) + Rate * d
    BY <1>1, <1>3, <1>4
<1> QED
    BY <1>2, <1>5 DEF Behind

\* No action leaves the producer further behind.
LEMMA StepNotLate ==
    ASSUME Rate * MaxAwait <= Batch * Second, PaceInv, PacingNext
    PROVE  NotLate'
<1>0. PaceTypes /\ NotEarly /\ NotLate
    BY DEF PaceInv
<1>a. depthLimited' = depthLimited
    BY DEF PacingNext, Pass, Turn, Await, TooDeep, NotDue, StartCall, Wake, CallReturns
<1> SUFFICES ASSUME ~depthLimited PROVE NotLate'
    BY <1>a DEF NotLate
<1>b. /\ clock \in Nat /\ since \in Nat /\ now \in Nat /\ due \in Nat /\ offered \in Nat
      /\ loop \in {"top", "xlen", "call", "sleep", "done"} /\ now <= clock
    BY <1>0 DEF PaceTypes, NotEarly
<1>c. Tick \in Nat /\ MaxAwait \in Nat
    BY PaceConstants
<1>d. ASSUME offered' = offered PROVE AllOffered' = AllOffered
    BY <1>d DEF AllOffered, total_due
<1>1. CASE Pass
    <2>1. /\ loop \in {"call", "sleep"} /\ clock < since + MaxAwait /\ clock' = clock + 1
          /\ UNCHANGED <<loop, since, now, offered>>
        BY <1>1 DEF Pass
    <2>2. clock' <= since + MaxAwait
        BY <1>b, <1>c, <2>1
    <2> QED
        BY <1>0, <1>a, <1>d, <2>1, <2>2 DEF NotLate, Behind
<1>2. CASE Turn
    BY <1>0, <1>a, <1>d, <1>2 DEF Turn, NotLate, Behind
<1>3. CASE TooDeep
    BY <1>3 DEF TooDeep
<1>4. CASE NotDue
    <2>1. /\ loop = "xlen" /\ JobsDue < 1 /\ loop' = "sleep" /\ since' = NextTick
          /\ UNCHANGED <<clock, now, offered>>
        BY <1>4 DEF NotDue, Sleep
    <2>2. clock = now
        BY <1>0, <2>1 DEF NotLate
    <2>3. AllOffered \/ Rate * now < (offered + 1) * Second
        BY <1>0, <2>1, DueUpToRate
    <2>4. since' <= now + MaxAwait + Tick /\ clock <= since' + MaxAwait
        BY <1>b, <1>c, <2>1, <2>2, NextTickSoon
    <2> QED
        BY <1>a, <1>d, <2>1, <2>3, <2>4 DEF NotLate
<1>5. CASE StartCall
    <2>1. /\ loop = "xlen" /\ JobsDue >= 1 /\ loop' = "call" /\ since' = clock
          /\ UNCHANGED <<clock, now, offered>>
        BY <1>5 DEF StartCall
    <2>2. clock = now
        BY <1>0, <2>1 DEF NotLate
    <2>3. ~AllOffered
        BY <1>0, <1>b, <2>1, DueUpToRate, TotalDue DEF AllOffered
    <2>4. Behind(now, Tick + 2 * MaxAwait)
        BY <1>0, <2>1, <2>2, <2>3 DEF NotLate
    <2> QED
        BY <1>a, <1>b, <1>c, <2>1, <2>2, <2>4 DEF NotLate, Behind
<1>6. CASE Wake
    <2>1. loop = "sleep" /\ loop' = "top" /\ UNCHANGED <<clock, offered>>
        BY <1>6 DEF Wake
    <2>2. CASE AllOffered
        BY <1>d, <2>1, <2>2 DEF NotLate
    <2>3. CASE ~AllOffered
        <3>1. /\ Rate * now < (offered + 1) * Second
              /\ since <= now + MaxAwait + Tick /\ clock <= since + MaxAwait
            BY <1>0, <2>1, <2>3 DEF NotLate
        <3>2. Behind(now, 0)
            BY <1>b, <3>1, UpToDate
        <3>3. clock + 0 <= now + (Tick + 2 * MaxAwait) /\ Tick + 2 * MaxAwait \in Nat
            BY <1>b, <1>c, <3>1
        <3>4. Behind(clock, Tick + 2 * MaxAwait)
            BY <1>b, <3>2, <3>3, Later
        <3> QED
            BY <2>1, <3>4 DEF NotLate, Behind
    <2> QED
        BY <2>2, <2>3
<1>7. ASSUME NEW a \in 0 .. Batch, CallReturns(a) PROVE NotLate'
    <2>1. /\ loop = "call" /\ offered' = offered + Size /\ UNCHANGED <<clock, now>>
          /\ AfterCall
        BY <1>7 DEF CallReturns
    <2>2. /\ due >= 1 /\ Size \in Nat /\ Size <= due /\ (Size # due => Size = Batch)
          /\ offered + due = total_due \/ Rate * now < (offered + due + 1) * Second
        BY <1>0, <1>b, <2>1, SizeOfCall DEF NotEarly
    <2>3. Behind(now, Tick + 2 * MaxAwait) /\ clock <= now + MaxAwait
        BY <1>0, <2>1 DEF NotLate
    <2>4. CASE Size = due
        <3>1. loop' = "sleep" /\ since' = NextTick /\ offered' = offered + due
            BY <2>1, <2>4 DEF AfterCall, Sleep
        <3>2. AllOffered' \/ Rate * now' < (offered' + 1) * Second
            BY <2>1, <2>2, <3>1 DEF AllOffered, total_due
        <3>3. since' <= now' + MaxAwait + Tick /\ clock' <= since' + MaxAwait
            BY <1>b, <1>c, <2>1, <2>3, <3>1, NextTickSoon
        <3> QED
            BY <3>1, <3>2, <3>3 DEF NotLate
    <2>5. CASE Size # due
        <3>1. loop' = "top" /\ offered' = offered + Batch
            BY <2>1, <2>2, <2>5 DEF AfterCall
        <3>2. Tick + 2 * MaxAwait \in Nat
            BY <1>c
        <3>3. Behind(clock, Tick + 2 * MaxAwait)'
            BY <1>b, <2>1, <2>3, <3>1, <3>2, BatchKeepsUp
        <3> QED
            BY <3>1, <3>3 DEF NotLate
    <2> QED
        BY <2>4, <2>5
<1> QED
    BY <1>1, <1>2, <1>3, <1>4, <1>5, <1>6, <1>7 DEF PacingNext, Await

\* Neither early nor late, the producer keeps its rate.
LEMMA PaceFollows == PaceInv => KeepsRate
<1> SUFFICES ASSUME PaceInv PROVE KeepsRate
    OBVIOUS
<1>1. PaceTypes /\ NotEarly /\ NotLate
    BY DEF PaceInv
<1>2. /\ clock \in Nat /\ since \in Nat /\ now \in Nat /\ offered \in Nat /\ now <= clock
      /\ loop \in {"top", "xlen", "call", "sleep", "done"}
    BY <1>1 DEF PaceTypes, NotEarly
<1>3. offered * Second <= Rate * clock
    <2>1. offered * Second <= Rate * now /\ Rate * now <= Rate * clock
        BY <1>1, <1>2, Scaled, PaceConstants DEF NotEarly
    <2>2. offered * Second \in Nat /\ Rate * now \in Nat /\ Rate * clock \in Nat
        BY <1>2, PaceConstants
    <2> QED
        BY <2>1, <2>2
<1>4. ASSUME ~depthLimited, clock <= Duration PROVE Behind(clock, Turnaround)
    <2>0. Turnaround = Tick + 3 * MaxAwait /\ Turnaround \in Nat /\ Tick + 2 * MaxAwait \in Nat
        BY PaceConstants DEF Turnaround
    <2>1. CASE AllOffered
        <3>1. Rate * clock <= Rate * Duration
            BY <1>2, <1>4, Scaled, PaceConstants
        <3>2. Rate * Duration < (offered + 1) * Second
            BY <2>1, TotalDue DEF AllOffered
        <3>3. /\ Rate * clock \in Nat /\ Rate * Duration \in Nat /\ Rate * Turnaround \in Nat
              /\ (offered + 1) * Second \in Nat
            BY <1>2, <2>0, PaceConstants
        <3> QED
            BY <3>1, <3>2, <3>3 DEF Behind
    <2>2. CASE ~AllOffered /\ loop \in {"top", "xlen", "done"}
        <3>1. Behind(clock, Tick + 2 * MaxAwait)
            BY <1>1, <1>4, <2>2 DEF NotLate
        <3>2. clock + (Tick + 2 * MaxAwait) <= clock + Turnaround
            BY <1>2, <2>0, PaceConstants
        <3> QED
            BY <1>2, <2>0, <3>1, <3>2, Later
    <2>3. CASE loop = "call"
        <3>1. Behind(now, Tick + 2 * MaxAwait) /\ clock <= now + MaxAwait
            BY <1>1, <1>4, <2>3 DEF NotLate
        <3>2. clock + (Tick + 2 * MaxAwait) <= now + Turnaround
            BY <1>2, <2>0, <3>1, PaceConstants
        <3> QED
            BY <1>2, <2>0, <3>1, <3>2, Later
    <2>4. CASE ~AllOffered /\ loop = "sleep"
        <3>1. /\ Rate * now < (offered + 1) * Second
              /\ since <= now + MaxAwait + Tick /\ clock <= since + MaxAwait
            BY <1>1, <1>4, <2>4 DEF NotLate
        <3>2. Behind(now, 0)
            BY <1>2, <3>1, UpToDate
        <3>3. clock + 0 <= now + Turnaround
            BY <1>2, <2>0, <3>1, PaceConstants
        <3> QED
            BY <1>2, <2>0, <3>2, <3>3, Later
    <2> QED
        BY <1>2, <2>1, <2>2, <2>3, <2>4
<1> QED
    BY <1>1, <1>3, <1>4 DEF KeepsRate, NotEarly, Behind

\* Every action keeps the invariant, as long as calls can carry the rate.
LEMMA StepPace ==
    ASSUME Rate * MaxAwait <= Batch * Second
    PROVE  PaceInv /\ [PacingNext]_pacingVars => PaceInv'
<1> SUFFICES ASSUME PaceInv, [PacingNext]_pacingVars PROVE PaceInv'
    OBVIOUS
<1>1. CASE PacingNext
    BY <1>1, StepPaceTypes, StepNotEarly, StepNotLate DEF PaceInv
<1>2. CASE UNCHANGED pacingVars
    BY <1>2 DEF PaceInv, PaceTypes, NotEarly, NotLate, AllOffered, Behind, total_due, pacingVars
<1> QED
    BY <1>1, <1>2

\* A producer keeps its rate ("A fixed grid, so sleeps that overshoot don't accumulate into a
\* lower rate"), for any rate, tick, batch and duration, as long as its calls can carry the
\* rate: a full batch is at least what falls due while one call runs.
THEOREM RateIsKept ==
    ASSUME Rate * MaxAwait <= Batch * Second
    PROVE  PacingSpec => []KeepsRate
<1> QED
    BY InitPace, StepPace, PaceFollows, PTL DEF PacingSpec

-----------------------------------------------------------------------------
(* Sums *)

\* A set of natural numbers that is not empty has a least element.
LEMMA LeastNatural ==
    ASSUME NEW T, T \subseteq Nat, T # {}
    PROVE  \E n \in T : \A m \in T : n <= m
<1> DEFINE R == OpToRel(<, Nat)
<1>1. IsWellFoundedOn(R, Nat)
    BY NatLessThanWellFounded
<1>2. \A x, y \in Nat : x < y => <<x, y>> \in R
    BY DEF OpToRel
<1> HIDE DEF R
<1>3. PICK x \in T : \A y \in T : ~ (<<y, x>> \in R)
    BY <1>1, WFMin
<1>4. ASSUME NEW y \in T PROVE x <= y
  <2>1. x \in Nat /\ y \in Nat
      OBVIOUS
  <2>2. ~ (<<y, x>> \in R)
      BY <1>3
  <2>3. ~ (y < x)
      BY <1>2, <2>1, <2>2
    <2> QED
        BY <2>1, <2>3
<1> QED
    BY <1>4

\* Among some subsets of a finite set there is one that contains no other of them.
LEMMA LeastSubset ==
    ASSUME NEW S, IsFiniteSet(S), NEW B, B \subseteq SUBSET S, B # {}
    PROVE  \E A \in B : \A C \in B : C \subseteq A => C = A
<1> DEFINE T == {Cardinality(A) : A \in B}
<1>1. \A A \in B : IsFiniteSet(A) /\ Cardinality(A) \in Nat
    BY FS_Subset, FS_CardinalityType
<1>2. T \subseteq Nat /\ T # {}
    BY <1>1
<1>3. PICK n \in T : \A m \in T : n <= m
    <2> HIDE DEF T
    <2> QED
        BY <1>2, LeastNatural
<1>4. PICK A \in B : Cardinality(A) = n
    OBVIOUS
<1>5. ASSUME NEW C \in B, C \subseteq A PROVE C = A
    <2>1. /\ Cardinality(C) <= Cardinality(A)
          /\ Cardinality(A) = Cardinality(C) => A = C
        BY <1>1, <1>5, FS_Subset
    <2>2. Cardinality(A) <= Cardinality(C)
        BY <1>3, <1>4
    <2> QED
        BY <1>1, <2>1, <2>2
<1> QED
    BY <1>5

\* What the recursive function of a sum satisfies.
Sums(g, f, S) ==
    g = [T \in SUBSET S |->
            IF T = {} THEN 0
            ELSE f[CHOOSE x \in T : TRUE] + g[T \ {CHOOSE x \in T : TRUE}]]

\* The sums of subsets do not depend on the set they are taken from.
LEMMA SumsAgree ==
    ASSUME NEW f, NEW S, IsFiniteSet(S), NEW T, T \subseteq S,
           NEW g, Sums(g, f, S), NEW h, Sums(h, f, T)
    PROVE  g[T] = h[T]
<1> DEFINE B == {A \in SUBSET T : g[A] # h[A]}
<1> SUFFICES ASSUME B # {} PROVE FALSE
    OBVIOUS
<1>1. PICK A \in B : \A C \in B : C \subseteq A => C = A
    <2>1. IsFiniteSet(T) /\ B \subseteq SUBSET T
        BY FS_Subset
    <2> HIDE DEF B
    <2> QED
        BY <2>1, LeastSubset
<1> DEFINE x == CHOOSE x \in A : TRUE
<1>2. A # {}
    BY <1>1 DEF Sums
<1>3. x \in A /\ A \ {x} \subseteq A /\ A \ {x} # A
    BY <1>2
<1>4. g[A] = f[x] + g[A \ {x}] /\ h[A] = f[x] + h[A \ {x}]
    BY <1>2 DEF Sums
<1> HIDE DEF x
<1>5. g[A \ {x}] = h[A \ {x}]
    BY <1>1, <1>3
<1> QED
    BY <1>1, <1>4, <1>5

\* The sum over a set is that of a function of sums.
LEMMA SumIs ==
    ASSUME NEW f, NEW S
    PROVE  SumFunctionOnSet(f, S) = (CHOOSE g : Sums(g, f, S))[S]
BY DEF SumFunctionOnSet, FoldFunctionOnSet, MapThenFoldSet, Sums

\* Functions of sums exist, by the least set that would have none.
LEMMA SumsExist ==
    ASSUME NEW f, NEW S, IsFiniteSet(S)
    PROVE  \E g : Sums(g, f, S)
<1> DEFINE B == {A \in SUBSET S : ~ \E g : Sums(g, f, A)}
<1> SUFFICES ASSUME B # {} PROVE FALSE
    OBVIOUS
<1>1. PICK A \in B : \A C \in B : C \subseteq A => C = A
    <2>1. B \subseteq SUBSET S
        OBVIOUS
    <2> HIDE DEF B
    <2> QED
        BY <2>1, LeastSubset
<1> DEFINE Of(T) == CHOOSE g : Sums(g, f, T)
           ch(T) == CHOOSE x \in T : TRUE
           next(T) == f[ch(T)] + SumFunctionOnSet(f, T \ {ch(T)})
           h == [T \in SUBSET A |-> IF T = {} THEN 0 ELSE next(T)]
<1>2. ASSUME NEW T, T \subseteq A, T # A
      PROVE  SumFunctionOnSet(f, T) = IF T = {} THEN 0 ELSE next(T)
    <2>1. ASSUME NEW C, C \subseteq A, C # A
          PROVE  Sums(Of(C), f, C)
        <3>1. C \in SUBSET S /\ C \notin B
            BY <1>1, <2>1
        <3>2. PICK g : Sums(g, f, C)
            BY <3>1
        <3> QED
            BY <3>2
    <2>2. Sums(Of(T), f, T)
        BY <1>2, <2>1
    <2>3. SumFunctionOnSet(f, T) = Of(T)[T]
        BY SumIs
    <2>4. CASE T = {}
        <3> HIDE DEF Of
        <3> QED
            BY <2>2, <2>3, <2>4 DEF Sums
    <2>5. CASE T # {}
        <3> DEFINE x == ch(T)
                   U == T \ {x}
        <3>1. x \in T
            BY <2>5
        <3>2. U \subseteq A /\ U # A /\ U \subseteq T
            BY <1>2, <3>1
        <3> HIDE DEF U
        <3>3. Sums(Of(U), f, U) /\ SumFunctionOnSet(f, U) = Of(U)[U]
            BY <3>2, <2>1, SumIs
        <3> HIDE DEF Of
        <3>4. Of(T)[U] = Of(U)[U]
            <4>1. IsFiniteSet(T)
                BY <1>2, FS_Subset
            <4> QED
                BY <2>2, <3>2, <3>3, <4>1, SumsAgree
        <3>5. Of(T)[T] = f[x] + Of(T)[U]
            BY <2>2, <2>5 DEF Sums, U
        <3> QED
            BY <2>3, <2>5, <3>3, <3>4, <3>5 DEF U
    <2> QED
        BY <2>4, <2>5
<1>3. Sums(h, f, A)
    <2>1. ASSUME NEW T \in SUBSET A, T # {}
          PROVE  h[T] = f[ch(T)] + h[T \ {ch(T)}]
        <3> DEFINE U == T \ {ch(T)}
        <3>1. ch(T) \in T
            BY <2>1
        <3>2. U \in SUBSET A /\ U # A
            BY <3>1
        <3>3. h[T] = f[ch(T)] + SumFunctionOnSet(f, U)
            BY <2>1
        <3> HIDE DEF U, ch
        <3>4. h[U] = SumFunctionOnSet(f, U)
            BY <1>2, <3>2
        <3> QED
            BY <3>3, <3>4 DEF U
    <2>2. h[{}] = 0
        OBVIOUS
    <2>3. h = [T \in SUBSET A |-> h[T]]
        OBVIOUS
    <2> HIDE DEF h
    <2> QED
        BY <2>1, <2>2, <2>3 DEF Sums
<1> QED
    BY <1>1, <1>3

\* The sum over no element, and over one more than the others: whichever the sum begins with.
LEMMA SumBegins ==
    ASSUME NEW f, NEW S, IsFiniteSet(S)
    PROVE  SumFunctionOnSet(f, S) =
               IF S = {} THEN 0
               ELSE f[CHOOSE x \in S : TRUE] + SumFunctionOnSet(f, S \ {CHOOSE x \in S : TRUE})
<1> DEFINE x == CHOOSE x \in S : TRUE
           U == S \ {x}
           Of(T) == CHOOSE g : Sums(g, f, T)
<1>1. IsFiniteSet(U) /\ U \subseteq S
    BY FS_Subset
<1>2. Sums(Of(S), f, S) /\ Sums(Of(U), f, U)
    BY <1>1, SumsExist
<1>3. SumFunctionOnSet(f, S) = Of(S)[S] /\ SumFunctionOnSet(f, U) = Of(U)[U]
    BY SumIs
<1> HIDE DEF Of
<1>4. Of(S)[U] = Of(U)[U]
    <2> HIDE DEF U
    <2> QED
        BY <1>1, <1>2, SumsAgree
<1>5. Of(S)[S] = IF S = {} THEN 0 ELSE f[x] + Of(S)[U]
    BY <1>2 DEF Sums
<1> QED
    BY <1>3, <1>4, <1>5

\* A sum of natural numbers is one, and can begin with any of them.
LEMMA SumSplit ==
    ASSUME NEW f, NEW S, IsFiniteSet(S), \A x \in S : f[x] \in Nat
    PROVE  /\ SumFunctionOnSet(f, S) \in Nat
           /\ S = {} => SumFunctionOnSet(f, S) = 0
           /\ \A x \in S : SumFunctionOnSet(f, S) = f[x] + SumFunctionOnSet(f, S \ {x})
<1> DEFINE sum(A) == SumFunctionOnSet(f, A)
           Good(A) == sum(A) \in Nat /\ \A x \in A : sum(A) = f[x] + sum(A \ {x})
           B == {A \in SUBSET S : ~ Good(A)}
<1>0. \A A \in SUBSET S : IsFiniteSet(A)
    BY FS_Subset
<1>1. sum({}) = 0
    BY SumBegins, FS_EmptySet
<1> SUFFICES ASSUME B # {} PROVE FALSE
    <2>1. S \in SUBSET S /\ (S = {} => sum(S) = 0)
        BY <1>1
    <2> QED
        BY <2>1
<1>2. PICK A \in B : \A C \in B : C \subseteq A => C = A
    <2>1. B \subseteq SUBSET S
        OBVIOUS
    <2> HIDE DEF B
    <2> QED
        BY <2>1, LeastSubset
<1>3. A # {}
    <2> HIDE DEF sum
    <2>1. Good({})
        BY <1>1
    <2> QED
        BY <1>2, <2>1
<1> DEFINE y == CHOOSE y \in A : TRUE
<1>4. y \in A /\ sum(A) = f[y] + sum(A \ {y})
    BY <1>0, <1>3, SumBegins
<1> HIDE DEF y
<1>5. ASSUME NEW C, C \subseteq A, C # A PROVE Good(C)
    BY <1>2, <1>5
<1>6. \A x \in A : f[x] \in Nat
    BY <1>2
<1> HIDE DEF sum, B
<1>7. Good(A \ {y})
    BY <1>4, <1>5
<1>8. sum(A) \in Nat
    BY <1>4, <1>6, <1>7
<1>9. ASSUME NEW x \in A PROVE sum(A) = f[x] + sum(A \ {x})
    <2>1. CASE x = y
        BY <2>1, <1>4
    <2>2. CASE x # y
        <3>1. x \in A \ {y} /\ y \in A \ {x} /\ (A \ {y}) \ {x} = (A \ {x}) \ {y}
            BY <1>4, <2>2
        <3>2. Good(A \ {x}) /\ Good((A \ {x}) \ {y})
            BY <1>5
        <3>3. PICK rest \in Nat : rest = sum((A \ {x}) \ {y})
            BY <3>2
        <3>4. sum(A \ {y}) = f[x] + rest
            BY <1>7, <3>1, <3>3
        <3>5. sum(A \ {x}) = f[y] + rest
            BY <3>1, <3>2, <3>3
        <3> QED
            BY <1>4, <1>6, <3>4, <3>5
    <2> QED
        BY <2>1, <2>2
<1> QED
    BY <1>2, <1>8, <1>9 DEF B

\* Sums of two values are two sums.
LEMMA SumOfBoth ==
    ASSUME NEW f, NEW g, NEW h, NEW S, IsFiniteSet(S),
           \A x \in S : f[x] \in Nat /\ g[x] \in Nat /\ h[x] = f[x] + g[x]
    PROVE  SumFunctionOnSet(h, S) = SumFunctionOnSet(f, S) + SumFunctionOnSet(g, S)
<1> DEFINE sum(k, A) == SumFunctionOnSet(k, A)
           B == {A \in SUBSET S : sum(h, A) # sum(f, A) + sum(g, A)}
<1> SUFFICES ASSUME B # {} PROVE FALSE
    OBVIOUS
<1>1. PICK A \in B : \A C \in B : C \subseteq A => C = A
    <2>1. B \subseteq SUBSET S
        OBVIOUS
    <2> HIDE DEF B
    <2> QED
        BY <2>1, LeastSubset
<1>2. ASSUME NEW C \in SUBSET S
      PROVE  /\ C = {} => sum(f, C) = 0 /\ sum(g, C) = 0 /\ sum(h, C) = 0
             /\ sum(f, C) \in Nat /\ sum(g, C) \in Nat
             /\ \A x \in C : /\ sum(f, C) = f[x] + sum(f, C \ {x})
                             /\ sum(g, C) = g[x] + sum(g, C \ {x})
                             /\ sum(h, C) = h[x] + sum(h, C \ {x})
    <2>1. IsFiniteSet(C)
        BY FS_Subset
    <2>2. \A x \in C : f[x] \in Nat /\ g[x] \in Nat /\ h[x] \in Nat
        OBVIOUS
    <2> QED
        BY <2>1, <2>2, SumSplit
<1> HIDE DEF sum
<1>3. A # {}
    BY <1>1, <1>2
<1>4. PICK x \in A : TRUE
    BY <1>3
<1>5. sum(h, A \ {x}) = sum(f, A \ {x}) + sum(g, A \ {x})
    BY <1>1
<1>6. PICK u \in Nat, v \in Nat : u = sum(f, A \ {x}) /\ v = sum(g, A \ {x})
    BY <1>2
<1>7. sum(f, A) = f[x] + u /\ sum(g, A) = g[x] + v /\ sum(h, A) = f[x] + g[x] + (u + v)
    BY <1>2, <1>5, <1>6
<1>8. f[x] \in Nat /\ g[x] \in Nat
    OBVIOUS
<1>9. sum(h, A) = sum(f, A) + sum(g, A)
    BY <1>7, <1>8
<1> QED
    BY <1>1, <1>9

\* The sum of nothing.
LEMMA SumOfZeros ==
    ASSUME NEW f, NEW S, IsFiniteSet(S), \A x \in S : f[x] = 0
    PROVE  SumFunctionOnSet(f, S) = 0
<1>1. PICK n \in Nat : n = SumFunctionOnSet(f, S)
    BY SumSplit
<1>2. SumFunctionOnSet(f, S) = SumFunctionOnSet(f, S) + SumFunctionOnSet(f, S)
    BY SumOfBoth
<1>3. n = n + n
    BY <1>1, <1>2, Zenon
<1>4. n = 0
    BY <1>3
<1> QED
    BY <1>1, <1>4

\* Equal values have equal sums.
LEMMA SumOfEqual ==
    ASSUME NEW f, NEW g, NEW S, IsFiniteSet(S), \A x \in S : f[x] \in Nat /\ g[x] = f[x]
    PROVE  SumFunctionOnSet(g, S) = SumFunctionOnSet(f, S)
<1> DEFINE zero == [x \in S |-> 0]
<1>1. \A x \in S : zero[x] = 0 /\ zero[x] \in Nat /\ g[x] = f[x] + zero[x]
    OBVIOUS
<1> HIDE DEF zero
<1>2. SumFunctionOnSet(g, S) = SumFunctionOnSet(f, S) + SumFunctionOnSet(zero, S)
    BY <1>1, SumOfBoth
<1>3. SumFunctionOnSet(zero, S) = 0 /\ SumFunctionOnSet(f, S) \in Nat
    BY <1>1, SumOfZeros, SumSplit
<1> QED
    BY <1>2, <1>3

\* The sum over two sets that share nothing.
LEMMA SumOfUnion ==
    ASSUME NEW f, NEW S, IsFiniteSet(S), NEW T, IsFiniteSet(T), S \intersect T = {},
           \A x \in S \union T : f[x] \in Nat
    PROVE  SumFunctionOnSet(f, S \union T) = SumFunctionOnSet(f, S) + SumFunctionOnSet(f, T)
<1> DEFINE sum(A) == SumFunctionOnSet(f, A)
           B == {D \in SUBSET T : sum(S \union D) # sum(S) + sum(D)}
<1>0. ASSUME NEW C \in SUBSET (S \union T)
      PROVE  /\ sum(C) \in Nat /\ (C = {} => sum(C) = 0)
             /\ \A x \in C : sum(C) = f[x] + sum(C \ {x})
    <2>1. IsFiniteSet(C) /\ \A x \in C : f[x] \in Nat
        BY FS_Union, FS_Subset
    <2> QED
        BY <2>1, SumSplit
<1> HIDE DEF sum
<1> SUFFICES ASSUME B # {} PROVE FALSE
    BY DEF sum
<1>1. PICK D \in B : \A E \in B : E \subseteq D => E = D
    <2>1. B \subseteq SUBSET T
        OBVIOUS
    <2> HIDE DEF B
    <2> QED
        BY <2>1, LeastSubset
<1> DEFINE U == S \union D
<1>2. PICK x \in D : TRUE
    <2>1. ASSUME D = {} PROVE FALSE
        <3>1. PICK n \in Nat : sum(S) = n
            BY <1>0
        <3>2. sum(S \union D) = n /\ sum(D) = 0
            BY <1>0, <2>1, <3>1
        <3> QED
            BY <1>1, <3>1, <3>2
    <2> QED
        BY <2>1
<1>3. x \in U /\ U \ {x} = S \union (D \ {x}) /\ U \subseteq S \union T /\ f[x] \in Nat
    OBVIOUS
<1> HIDE DEF U
<1>4. sum(U) = f[x] + sum(U \ {x}) /\ sum(D) = f[x] + sum(D \ {x})
    BY <1>0, <1>3
<1>5. sum(U \ {x}) = sum(S) + sum(D \ {x})
    BY <1>1, <1>3
<1>6. sum(S) \in Nat /\ sum(D \ {x}) \in Nat
    BY <1>0
<1>7. sum(U) = sum(S) + sum(D)
    BY <1>3, <1>4, <1>5, <1>6
<1> QED
    BY <1>1, <1>7 DEF U

\* A sum over fewer is no more.
LEMMA SumOfFewer ==
    ASSUME NEW f, NEW S, IsFiniteSet(S), \A x \in S : f[x] \in Nat, NEW T, T \subseteq S
    PROVE  SumFunctionOnSet(f, T) <= SumFunctionOnSet(f, S)
<1>1. IsFiniteSet(T) /\ IsFiniteSet(S \ T) /\ S = T \union (S \ T)
    BY FS_Subset
<1> DEFINE R == S \ T
<1>2. T \intersect R = {} /\ S = T \union R /\ IsFiniteSet(R) /\ \A x \in T \union R : f[x] \in Nat
    BY <1>1
<1> HIDE DEF R
<1>3. SumFunctionOnSet(f, S) = SumFunctionOnSet(f, T) + SumFunctionOnSet(f, R)
    BY <1>1, <1>2, SumOfUnion
<1>4. SumFunctionOnSet(f, T) \in Nat /\ SumFunctionOnSet(f, R) \in Nat
    BY <1>1, <1>2, SumSplit
<1> QED
    BY <1>3, <1>4

\* Counts by row and column: the columns T summed over the rows P, in either order.
LEMMA SumExchange ==
    ASSUME NEW m, NEW P, IsFiniteSet(P), NEW T, IsFiniteSet(T),
           \A p \in P, x \in T : m[p][x] \in Nat
    PROVE  SumFunctionOnSet([p \in P |-> SumFunctionOnSet(m[p], T)], P)
             = SumFunctionOnSet([x \in T |-> SumFunctionOnSet([p \in P |-> m[p][x]], P)], T)
<1> DEFINE col == [x \in T |-> SumFunctionOnSet([p \in P |-> m[p][x]], P)]
           row(A) == [p \in P |-> SumFunctionOnSet(m[p], A)]
           rows(A) == SumFunctionOnSet(row(A), P)
           cols(A) == SumFunctionOnSet(col, A)
           B == {A \in SUBSET T : rows(A) # cols(A)}
<1> SUFFICES ASSUME B # {} PROVE FALSE
    OBVIOUS
<1>1. PICK A \in B : \A C \in B : C \subseteq A => C = A
    <2>1. B \subseteq SUBSET T
        OBVIOUS
    <2> HIDE DEF B
    <2> QED
        BY <2>1, LeastSubset
<1>2. IsFiniteSet(A)
    BY FS_Subset
<1>3. ASSUME NEW x \in T PROVE col[x] = SumFunctionOnSet([p \in P |-> m[p][x]], P) /\ col[x] \in Nat
    <2> DEFINE k == [p \in P |-> m[p][x]]
    <2>1. \A p \in P : k[p] \in Nat
        OBVIOUS
    <2> HIDE DEF k
    <2>2. SumFunctionOnSet(k, P) \in Nat
        BY <2>1, SumSplit
    <2> QED
        BY <2>2 DEF k
<1>4. ASSUME NEW p \in P, NEW C \in SUBSET T
      PROVE  /\ row(C)[p] \in Nat /\ (C = {} => row(C)[p] = 0)
             /\ \A x \in C : row(C)[p] = m[p][x] + row(C \ {x})[p]
    <2>1. IsFiniteSet(C) /\ \A x \in C : m[p][x] \in Nat
        BY FS_Subset
    <2>2. /\ SumFunctionOnSet(m[p], C) \in Nat /\ (C = {} => SumFunctionOnSet(m[p], C) = 0)
          /\ \A x \in C : SumFunctionOnSet(m[p], C) = m[p][x] + SumFunctionOnSet(m[p], C \ {x})
        BY <2>1, SumSplit
    <2> QED
        BY <2>2
<1> HIDE DEF row, col
<1>5. PICK x \in A : TRUE
    <2>1. ASSUME A = {} PROVE FALSE
        <3>1. rows(A) = 0
            BY <1>4, <2>1, SumOfZeros
        <3>2. cols(A) = 0
            BY <1>2, <2>1, SumSplit
        <3> HIDE DEF rows, cols
        <3> QED
            BY <1>1, <3>1, <3>2
    <2> QED
        BY <2>1
<1> DEFINE k == [p \in P |-> m[p][x]]
           rest == row(A \ {x})
<1>6. \A p \in P : k[p] \in Nat /\ rest[p] \in Nat /\ row(A)[p] = k[p] + rest[p]
    BY <1>4
<1>7. col[x] = SumFunctionOnSet(k, P)
    BY <1>3
<1> HIDE DEF k
<1>8. rows(A) = col[x] + rows(A \ {x})
    <2>1. SumFunctionOnSet(row(A), P) = SumFunctionOnSet(k, P) + SumFunctionOnSet(rest, P)
        <3> HIDE DEF rest
        <3> QED
            BY <1>6, SumOfBoth
    <2> QED
        BY <1>7, <2>1
<1>9. cols(A) = col[x] + cols(A \ {x})
    BY <1>2, <1>3, SumSplit
<1> HIDE DEF rows, cols
<1> QED
    BY <1>1, <1>8, <1>9

\* The sum of the sums of the parts G of a set is the sum over all of them.
LEMMA SumOfParts ==
    ASSUME NEW f, NEW S, IsFiniteSet(S), \A x \in S : f[x] \in Nat,
           NEW G, IsFiniteSet(G), NEW part_of \in [G -> SUBSET S],
           \A d, e \in G : d # e => part_of[d] \intersect part_of[e] = {},
           NEW sums, \A e \in G : sums[e] = SumFunctionOnSet(f, part_of[e]),
           NEW U, U \subseteq S, \A x \in S : x \in U <=> \E e \in G : x \in part_of[e]
    PROVE  SumFunctionOnSet(sums, G) = SumFunctionOnSet(f, U)
<1> DEFINE In(A) == {x \in S : \E e \in A : x \in part_of[e]}
           sum(A) == SumFunctionOnSet(f, A)
           all(A) == SumFunctionOnSet(sums, A)
           B == {A \in SUBSET G : all(A) # sum(In(A))}
<1> SUFFICES ASSUME B # {} PROVE FALSE
    <2>1. U = In(G)
        OBVIOUS
    <2>2. all(G) = sum(In(G))
        OBVIOUS
    <2> QED
        BY <2>1, <2>2
<1>1. PICK A \in B : \A C \in B : C \subseteq A => C = A
    <2>1. B \subseteq SUBSET G
        OBVIOUS
    <2> HIDE DEF B
    <2> QED
        BY <2>1, LeastSubset
<1>2. ASSUME NEW T \in SUBSET S
      PROVE  IsFiniteSet(T) /\ (\A x \in T : f[x] \in Nat) /\ sum(T) \in Nat
    <2>1. IsFiniteSet(T) /\ \A x \in T : f[x] \in Nat
        BY FS_Subset
    <2> QED
        BY <2>1, SumSplit
<1>3. IsFiniteSet(A)
    BY FS_Subset
<1>4. \A e \in A : sums[e] = sum(part_of[e]) /\ sums[e] \in Nat /\ part_of[e] \in SUBSET S
    <2> TAKE e \in A
    <2>1. sums[e] = sum(part_of[e]) /\ part_of[e] \in SUBSET S
        OBVIOUS
    <2> QED
        BY <1>2, <2>1
<1>5. PICK e \in A : TRUE
    <2>1. ASSUME A = {} PROVE FALSE
        <3>1. all(A) = 0
            BY <1>3, <2>1, SumSplit
        <3>2. In(A) = {} /\ sum({}) = 0
            BY <2>1, FS_EmptySet, SumSplit
        <3> HIDE DEF all, sum, In
        <3> QED
            BY <1>1, <3>1, <3>2
    <2> QED
        BY <2>1
<1>6. all(A) = sums[e] + all(A \ {e})
    BY <1>3, <1>4, SumSplit
<1>7. sum(In(A)) = sum(part_of[e]) + sum(In(A \ {e}))
    <2> DEFINE P == part_of[e]
               Q == In(A \ {e})
    <2>1. P \in SUBSET S /\ Q \in SUBSET S
        BY <1>4
    <2>2. In(A) = P \union Q
        BY <1>4
    <2>3. P \intersect Q = {}
        OBVIOUS
    <2> HIDE DEF P, Q
    <2>4. sum(P \union Q) = sum(P) + sum(Q)
        BY <1>2, <2>1, <2>3, SumOfUnion
    <2> HIDE DEF sum, In
    <2> QED
        BY <2>2, <2>4 DEF P, Q
<1>8. all(A \ {e}) = sum(In(A \ {e}))
    BY <1>1
<1> HIDE DEF all, sum, In
<1> QED
    BY <1>1, <1>4, <1>6, <1>7, <1>8

\* More of one value is more of the sum.
LEMMA SumGrows ==
    ASSUME NEW S, IsFiniteSet(S), NEW f, NEW g, NEW x \in S, NEW d \in Nat,
           \A y \in S : f[y] \in Nat, g[x] = f[x] + d, \A y \in S : y # x => g[y] = f[y]
    PROVE  SumFunctionOnSet(g, S) = SumFunctionOnSet(f, S) + d
<1> DEFINE R == S \ {x}
<1>1. IsFiniteSet(R) /\ x \notin R /\ \A y \in R : f[y] \in Nat /\ g[y] = f[y]
    BY FS_Subset
<1>2. SumFunctionOnSet(g, S) = g[x] + SumFunctionOnSet(g, R)
    BY SumSplit
<1>3. SumFunctionOnSet(f, S) = f[x] + SumFunctionOnSet(f, R)
    BY SumSplit
<1> HIDE DEF R
<1>4. SumFunctionOnSet(g, R) = SumFunctionOnSet(f, R) /\ SumFunctionOnSet(f, R) \in Nat
    BY <1>1, SumOfEqual, SumSplit
<1> QED
    BY <1>2, <1>3, <1>4

-----------------------------------------------------------------------------
(* The counts of a producer *)

\* The number of seconds.
LEMMA LastSecondType ==
    /\ LastSecond \in Nat
    /\ \A t \in Nat : t < Duration => t \div Second \in Seconds
<1>1. PICK d \in Nat : d = Duration - 1
    BY PaceConstants
<1>2. PICK q \in Nat : q = d \div Second /\ d < (q + 1) * Second
    BY <1>1, Floor, PaceConstants
<1>3. LastSecond = q
    BY <1>1, <1>2 DEF LastSecond
<1>4. ASSUME NEW t \in Nat, t < Duration PROVE t \div Second \in Seconds
    <2>1. PICK p \in Nat : p = t \div Second /\ p * Second <= t
        BY <1>4, Floor, PaceConstants
    <2>2. t <= d
        BY <1>1, <1>4, PaceConstants
    <2>3. p <= q
        <3> SUFFICES ASSUME q + 1 <= p PROVE FALSE
            BY <1>2, <2>1
        <3>1. (q + 1) * Second <= p * Second
            BY <1>2, <2>1, PaceConstants, Scaled
        <3>2. (q + 1) * Second \in Nat /\ p * Second \in Nat
            BY <1>2, <2>1, PaceConstants
        <3> QED
            BY <1>2, <2>1, <2>2, <3>1, <3>2
    <2> QED
        BY <1>3, <2>1, <2>3 DEF Seconds
<1> QED
    BY <1>2, <1>3, <1>4

Buckets == [Seconds -> [offered : Nat, accepted : Nat]]

\* Of every second: the jobs offered.
OfferedList == [s \in Seconds |-> OfferedIn(s)]

\* Seconds can be counted.
LEMMA SecondsFinite == IsFiniteSet(Seconds)
BY FS_Interval, LastSecondType DEF Seconds

\* Clock readings are within the run, a job is offered within its duration, and its second
\* counts it.
CountInv ==
    /\ PaceTypes /\ NotEarly
    /\ depthLimited \in BOOLEAN
    /\ clock <= LastClock /\ since <= LastClock + Tick /\ due <= total_due
    /\ loop \in {"xlen", "call"} => now < Duration
    /\ perSecond \in Buckets /\ \A s \in Seconds : AcceptedIn(s) <= OfferedIn(s)
    /\ SumFunctionOnSet(OfferedList, Seconds) = offered

\* Nothing is counted at first.
LEMMA InitCounts == PacingInit => CountInv
<1> SUFFICES ASSUME PacingInit PROVE CountInv
    OBVIOUS
<1>1. PaceTypes /\ NotEarly
    BY InitPace DEF PaceInv
<1>2. perSecond \in Buckets
    BY DEF PacingInit, Buckets
<1>3. \A s \in Seconds : OfferedIn(s) = 0 /\ AcceptedIn(s) = 0
    BY DEF PacingInit, OfferedIn, AcceptedIn
<1>4. SumFunctionOnSet(OfferedList, Seconds) = 0
    <2>1. \A s \in Seconds : OfferedList[s] = 0
        BY <1>3 DEF OfferedList
    <2> QED
        BY <2>1, SecondsFinite, SumOfZeros
<1>5. LastClock \in Nat /\ total_due \in Nat
    BY PaceConstants, TotalDue DEF LastClock
<1> QED
    BY <1>1, <1>2, <1>3, <1>4, <1>5, PaceConstants DEF PacingInit, CountInv

\* Every action keeps the counts: a call adds its batch to one second and to the total.
LEMMA StepCounts ==
    ASSUME CountInv, PacingNext
    PROVE  CountInv'
<1>1. PaceTypes /\ NotEarly /\ PaceTypes' /\ NotEarly'
    BY StepPaceTypes, StepNotEarly DEF CountInv
<1>2. LastClock \in Nat /\ total_due \in Nat
    BY PaceConstants, TotalDue DEF LastClock
<1>3. ASSUME UNCHANGED <<depthLimited, offered, perSecond>>,
             clock' <= LastClock, since' <= LastClock + Tick, due' <= total_due,
             loop' \in {"xlen", "call"} => now' < Duration
      PROVE  CountInv'
    BY <1>1, <1>3
    DEF CountInv, OfferedList, OfferedIn, AcceptedIn, LastClock, total_due, Buckets, Seconds,
        LastSecond
<1>4. CASE Pass
    BY <1>1, <1>2, <1>3, <1>4, PaceConstants DEF Pass, CountInv, PaceTypes
<1>5. CASE Turn
    BY <1>1, <1>2, <1>3, <1>5, PaceConstants DEF Turn, CountInv, PaceTypes
<1>6. CASE TooDeep
    BY <1>1, <1>2, <1>3, <1>6, PaceConstants DEF TooDeep, Sleep, CountInv, PaceTypes
<1>7. CASE NotDue
    BY <1>1, <1>2, <1>3, <1>7, PaceConstants, NextTickSoon DEF NotDue, Sleep, CountInv, PaceTypes
<1>8. CASE StartCall
    <2>1. JobsDue <= total_due
        BY <1>1, <1>2, <1>8, DueUpToRate DEF StartCall, PaceTypes
    <2> QED
        BY <1>1, <1>2, <1>3, <1>8, <2>1, PaceConstants DEF StartCall, CountInv, PaceTypes
<1>9. CASE Wake
    BY <1>1, <1>2, <1>3, <1>9, PaceConstants DEF Wake, CountInv, PaceTypes
<1>10. ASSUME NEW a \in 0 .. Batch, a <= Size, CallReturns(a) PROVE CountInv'
    <2>1. Size \in Nat
        BY <1>1, <1>10, SizeOfCall DEF CallReturns, PaceTypes, NotEarly
    <2>2. PICK z \in Nat : z = Size
        BY <2>1
    <2>3. PICK s \in Seconds : s = now \div Second
        BY <1>1, <1>10, LastSecondType DEF CountInv, CallReturns, PaceTypes
    <2>4. /\ perSecond \in Buckets /\ a \in Nat /\ a <= z
          /\ perSecond' = [perSecond EXCEPT ![s] = [offered |-> @.offered + z,
                                                    accepted |-> @.accepted + a]]
          /\ offered' = offered + z
        BY <1>10, <2>2, <2>3, PaceConstants DEF CountInv, CallReturns, Count
    <2>5. perSecond' \in Buckets
        BY <2>4 DEF Buckets
    <2>6. \A i \in Seconds : OfferedIn(i) \in Nat /\ AcceptedIn(i) \in Nat
        BY <2>4 DEF Buckets, OfferedIn, AcceptedIn
    <2>7. /\ OfferedIn(s)' = OfferedIn(s) + z /\ AcceptedIn(s)' = AcceptedIn(s) + a
          /\ \A i \in Seconds : i # s =>
               OfferedIn(i)' = OfferedIn(i) /\ AcceptedIn(i)' = AcceptedIn(i)
        BY <2>4 DEF Buckets, OfferedIn, AcceptedIn
    <2>8. \A i \in Seconds : AcceptedIn(i)' <= OfferedIn(i)'
        BY <2>2, <2>4, <2>6, <2>7 DEF CountInv
    <2>9. SumFunctionOnSet(OfferedList, Seconds)' = offered'
        <3>1. PICK f, g : f = OfferedList /\ g = OfferedList'
            OBVIOUS
        <3>2. /\ \A i \in Seconds : f[i] = OfferedIn(i) /\ g[i] = OfferedIn(i)'
              /\ Seconds' = Seconds
            BY <3>1 DEF OfferedList, Seconds, LastSecond
        <3>3. SumFunctionOnSet(g, Seconds) = SumFunctionOnSet(f, Seconds) + z
            BY <2>6, <2>7, <3>2, SecondsFinite, SumGrows
        <3>4. PICK S : S = Seconds
            OBVIOUS
        <3>5. SumFunctionOnSet(g, S) = offered'
            BY <2>4, <3>1, <3>3, <3>4 DEF CountInv
        <3> QED
            BY <3>1, <3>2, <3>4, <3>5
    <2>10. clock' <= LastClock /\ since' <= LastClock + Tick /\ due' <= total_due
        BY <1>1, <1>2, <1>10, PaceConstants, NextTickSoon
        DEF CallReturns, AfterCall, Sleep, CountInv, PaceTypes
    <2>11. depthLimited' \in BOOLEAN /\ loop' \notin {"xlen", "call"}
        BY <1>10 DEF CallReturns, AfterCall, Sleep, CountInv
    <2> QED
        BY <1>1, <2>5, <2>8, <2>9, <2>10, <2>11
        DEF CountInv, LastClock, total_due, Seconds, LastSecond
<1> QED
    BY <1>4, <1>5, <1>6, <1>7, <1>8, <1>9, <1>10 DEF PacingNext, Await

\* Nothing changes in a stuttering step.
LEMMA StutterCounts == CountInv /\ UNCHANGED pacingVars => CountInv'
BY DEF CountInv, PaceTypes, NotEarly, OfferedList, OfferedIn, AcceptedIn, LastClock, total_due,
       Buckets, Seconds, LastSecond, pacingVars

\* The types, and the sum of the counts, are part of the invariant.
LEMMA CountTypes == CountInv => PacingTypeOK
<1> SUFFICES ASSUME CountInv PROVE PacingTypeOK
    OBVIOUS
<1>1. LastClock \in Nat /\ total_due \in Nat
    BY PaceConstants, TotalDue DEF LastClock
<1>2. \A s \in Seconds : OfferedIn(s) \in Nat /\ AcceptedIn(s) \in Nat
    BY DEF CountInv, Buckets, OfferedIn, AcceptedIn
<1>3. \A s \in Seconds : OfferedIn(s) \in Nat /\ AcceptedIn(s) \in 0 .. OfferedIn(s)
    BY <1>2 DEF CountInv
<1>4. /\ clock \in 0 .. LastClock /\ since \in 0 .. LastClock + Tick /\ now \in 0 .. LastClock
      /\ due \in 0 .. total_due /\ offered \in 0 .. total_due
    BY <1>1, PaceConstants DEF CountInv, PaceTypes, NotEarly
<1> QED
    BY <1>3, <1>4 DEF CountInv, PaceTypes, OfferedList, PacingTypeOK, SumFunction

\* The report's counts per second add up to the jobs the producer offered, with none accepted that
\* was not offered, although the second is that of the reading of the clock before the call; for any
\* rate, tick, batch, duration of the run and of the calls.
THEOREM CountsAreTrue == PacingSpec => []PacingTypeOK
BY InitCounts, StepCounts, StutterCounts, CountTypes, PTL DEF PacingSpec

-----------------------------------------------------------------------------
(* The load test *)

\* While no command was sent twice, a list of summaries has one of each host, made when
\* the host had ended, and true since.
Listed(list) ==
    /\ \A i \in 1 .. Len(list) :
         /\ at[list[i].host] = "ended"
         /\ list[i].accepted = Cardinality(Accepted(list[i].host))
    /\ \A i, k \in 1 .. Len(list) : list[i].host = list[k].host => i = k

\* ... and the list ready has each host that is warm once.
Waited ==
    /\ \A i \in 1 .. Len(ready) : at[ready[i]] \notin {"begin", "warm"}
    /\ \A i, k \in 1 .. Len(ready) : ready[i] = ready[k] => i = k

\* Nobody produces before the start, which waits for every host.
Gate ==
    /\ start => \A h \in Host : \E i \in 1 .. Len(ready) : ready[i] = h
    /\ \A h \in Hosts : at[h] = "producing" => start
    /\ \A j \in LoadJob : loadJob[j] # "new" => start

\* "ok" was said of a run that is over.
OkIsFinal ==
    ok => /\ at[Coordinator] = "ended"
          /\ \A h \in Host : \E i \in 1 .. Len(seen) : seen[i].host = h
          /\ \A j \in LoadJob : loadJob[j] \in {"new", "refused", "done"}

LoadInv ==
    /\ LoadgenTypeOK
    /\ lost = 0 => Listed(produced) /\ Listed(seen) /\ Waited /\ Gate /\ OkIsFinal

-----------------------------------------------------------------------------
(* Counting *)

\* Sets of jobs can be counted.
LEMMA LoadJobsFinite ==
    ASSUME NEW S, S \subseteq LoadJob
    PROVE  IsFiniteSet(S) /\ Cardinality(S) \in Nat /\ Cardinality(S) <= Cardinality(LoadJob)
BY LoadgenAssumption, FS_Subset, FS_CardinalityType

\* A list without repetitions that is as long as a finite set is large has all of it.
LEMMA ListCovers ==
    ASSUME NEW S, IsFiniteSet(S), NEW n \in Nat, n >= Cardinality(S), NEW f \in [1 .. n -> S],
           \A i, k \in 1 .. n : f[i] = f[k] => i = k
    PROVE  \A x \in S : \E i \in 1 .. n : f[i] = x
<1> DEFINE I == 1 .. n
<1>1. IsFiniteSet(I) /\ Cardinality(I) = n
    BY FS_Interval
<1>2. f \in Injection(I, S)
    BY DEF Injection, IsInjective
<1>3. f \in Surjection(I, S)
    <2> HIDE DEF I
    <2>1. Cardinality(S) \in Nat /\ Cardinality(I) <= Cardinality(S)
        BY <1>2, FS_Injection, FS_CardinalityType
    <2>2. Cardinality(I) = Cardinality(S)
        BY <1>1, <2>1
    <2> QED
        BY <1>2, <2>2, FS_Injection
<1> QED
    BY <1>3 DEF Surjection

\* The jobs of some hosts of a list.
JobsAt(list, I) == {j \in LoadJob : \E i \in I : j \in Accepted(list[i].host)}

\* The sum of their counts is the number of their jobs.
LEMMA SumOfHosts ==
    ASSUME NEW list \in Seq(Summary), Listed(list)
    PROVE  SumFunction([i \in DOMAIN list |-> list[i].accepted])
             = Cardinality(JobsAt(list, 1 .. Len(list)))
<1> DEFINE S == 1 .. Len(list)
           f == [i \in S |-> list[i].accepted]
           T == {I \in SUBSET S : SumFunctionOnSet(f, I) # Cardinality(JobsAt(list, I))}
<1>1. DOMAIN list = S /\ IsFiniteSet(S) /\ \A i \in S : list[i] \in Summary
    BY FS_Interval
<1>2. \A i \in S : f[i] = list[i].accepted /\ f[i] \in Nat
    <2>1. Cardinality(LoadJob) \in Nat
        BY LoadJobsFinite
    <2>2. \A x \in Summary : x.accepted \in Nat
        BY <2>1 DEF Summary
    <2> QED
        BY <1>1, <2>2
<1>3. SumFunction([i \in DOMAIN list |-> list[i].accepted]) = SumFunctionOnSet(f, S)
    BY <1>1 DEF SumFunction
<1> HIDE DEF f, S
<1> SUFFICES ASSUME T # {} PROVE FALSE
    <2>1. SumFunctionOnSet(f, S) = Cardinality(JobsAt(list, S))
        OBVIOUS
    <2> QED
        BY <1>3, <2>1 DEF S
<1>4. PICK I \in T : \A J \in T : J \subseteq I => J = I
    <2>1. T \subseteq SUBSET S
        OBVIOUS
    <2> HIDE DEF T
    <2> QED
        BY <1>1, <2>1, LeastSubset
<1>5. IsFiniteSet(I) /\ \A i \in I : f[i] \in Nat
    BY <1>1, <1>2, FS_Subset
<1>6. PICK k \in I : TRUE
    <2>1. ASSUME I = {} PROVE FALSE
        <3>1. JobsAt(list, I) = {}
            BY <2>1 DEF JobsAt
        <3>2. Cardinality(JobsAt(list, I)) = 0
            BY <3>1, FS_EmptySet
        <3>3. SumFunctionOnSet(f, I) = 0
            BY <1>5, <2>1, SumSplit
        <3> QED
            BY <1>4, <3>2, <3>3
    <2> QED
        BY <2>1
<1> DEFINE A == JobsAt(list, I \ {k})
           B == Accepted(list[k].host)
<1>7. SumFunctionOnSet(f, I) = f[k] + SumFunctionOnSet(f, I \ {k})
    BY <1>5, SumSplit
<1>8. SumFunctionOnSet(f, I \ {k}) = Cardinality(A)
    BY <1>4
<1>9. JobsAt(list, I) = A \union B
    BY DEF JobsAt, Accepted, JobsOf
<1>10. A \intersect B = {}
    <2> SUFFICES ASSUME NEW j \in A, j \in B PROVE FALSE
        OBVIOUS
    <2>1. PICK i \in I \ {k} : j \in Accepted(list[i].host)
        BY DEF JobsAt
    <2>2. list[i].host = list[k].host
        BY <2>1 DEF Accepted, JobsOf
    <2> QED
        BY <1>4, <2>2 DEF Listed, S
<1>11. A \subseteq LoadJob /\ B \subseteq LoadJob
    BY DEF Accepted, JobsOf, JobsAt
<1>12. f[k] = Cardinality(B)
    BY <1>2, <1>4 DEF Listed, S
<1> HIDE DEF A, B
<1>13. Cardinality(A \union B) = Cardinality(A) + Cardinality(B)
    <2>1. IsFiniteSet(A) /\ IsFiniteSet(B)
          /\ Cardinality(A) \in Nat /\ Cardinality(B) \in Nat
        BY <1>11, LoadJobsFinite
    <2>2. Cardinality(A \union B)
            = Cardinality(A) + Cardinality(B) - Cardinality(A \intersect B)
        BY <2>1, FS_Union
    <2>3. Cardinality(A \intersect B) = 0
        BY <1>10, FS_EmptySet
    <2> QED
        BY <2>1, <2>2, <2>3
<1>14. SumFunctionOnSet(f, I) = Cardinality(JobsAt(list, I))
    <2>1. Cardinality(A) \in Nat /\ Cardinality(B) \in Nat
        BY <1>11, LoadJobsFinite
    <2> QED
        BY <1>7, <1>8, <1>9, <1>12, <1>13, <2>1
<1> QED
    BY <1>4, <1>14

-----------------------------------------------------------------------------
(* Types *)

Places == {"begin", "warm", "waiting", "producing", "reporting", "draining", "ended", "failed"}
JobPlaces == {"new", "refused", "stream", "delayed", "dead", "done"}

\* A list stays one of its kind when something is pushed, once or twice.
LEMMA PushedType ==
    ASSUME NEW S, NEW list \in Seq(S), NEW x \in S, NEW n \in 1 .. 2
    PROVE  Pushed(list, x, n) \in Seq(S)
<1>1. [i \in 1 .. n |-> x] \in Seq(S)
    OBVIOUS
<1> QED
    BY <1>1 DEF Pushed

\* The states of the load test are those described: at first,
LEMMA LoadTypeInit == LoadgenInit => LoadgenTypeOK
<1> SUFFICES ASSUME LoadgenInit PROVE LoadgenTypeOK
    OBVIOUS
<1>1. <<>> \in Seq(Host) /\ <<>> \in Seq(Summary)
    OBVIOUS
<1>2. MaxHostCrashes \in Nat /\ MaxLost \in Nat
    BY LoadgenAssumption
<1>3. at \in [Hosts -> Places] /\ loadJob \in [LoadJob -> JobPlaces]
    BY DEF LoadgenInit, Places, JobPlaces
<1>4. {spec, start, empty, drained, ok} \subseteq BOOLEAN /\ reported \in BOOLEAN
    BY DEF LoadgenInit
<1>5. hostCrashes \in 0 .. MaxHostCrashes /\ lost \in 0 .. MaxLost
    BY <1>2 DEF LoadgenInit
<1>6. ready \in Seq(Host) /\ produced \in Seq(Summary) /\ seen \in Seq(Summary)
    BY <1>1 DEF LoadgenInit
<1> QED
    BY <1>3, <1>4, <1>5, <1>6 DEF LoadgenInit, LoadgenTypeOK, Places, JobPlaces

\* ... and after every action.
LEMMA LoadTypeStep ==
    ASSUME LoadgenTypeOK, LoadgenNext
    PROVE  LoadgenTypeOK'
<1> USE DEF LoadgenTypeOK, Go, keyVars, runVars, envVars, Hosts
<1>1. CASE WorkerStep
    BY <1>1 DEF WorkerStep, Complete, Retry, Reschedule, Dead
<1>2. ASSUME NEW j \in LoadJob, Offer(j) PROVE LoadgenTypeOK'
    BY <1>2 DEF Offer
<1>3. ASSUME NEW h \in Hosts, Produced(h) PROVE LoadgenTypeOK'
    BY <1>3 DEF Produced
<1>4. ASSUME NEW h \in Host, HostStep(h) \/ Fail(h) PROVE LoadgenTypeOK'
    <2>0. h # Coordinator
        BY LoadgenAssumption
    <2>1. CASE TakeSpec(h)
        BY <2>0, <2>1 DEF TakeSpec
    <2>2. CASE Ready(h)
        <3>1. PICK n \in 1 .. 2 : Sent(n) /\ ready' = Pushed(ready, h, n)
            BY <2>2 DEF Ready
        <3>2. ready' \in Seq(Host)
            BY <3>1, PushedType
        <3>3. lost' \in 0 .. MaxLost
            BY <3>1, LoadgenAssumption DEF Sent
        <3> QED
            BY <2>0, <2>2, <3>2, <3>3 DEF Ready
    <2>3. CASE SeeStart(h)
        BY <2>0, <2>3 DEF SeeStart
    <2>4. CASE Report(h)
        <3> DEFINE x == [host |-> h, accepted |-> Cardinality(Accepted(h))]
        <3>1. PICK n \in 1 .. 2 : Sent(n) /\ produced' = Pushed(produced, x, n)
            BY <2>4 DEF Report
        <3>2. x \in Summary
            <4>1. Accepted(h) \subseteq LoadJob
                BY DEF Accepted, JobsOf
            <4>2. /\ Cardinality(LoadJob) \in Nat
                  /\ Cardinality(Accepted(h)) \in 0 .. Cardinality(LoadJob)
                BY <4>1, LoadJobsFinite
            <4> QED
                BY <4>2 DEF Summary
        <3> HIDE DEF x
        <3>3. produced' \in Seq(Summary)
            BY <3>1, <3>2, PushedType
        <3>4. lost' \in 0 .. MaxLost
            BY <3>1, LoadgenAssumption DEF Sent
        <3> QED
            BY <2>0, <2>4, <3>3, <3>4 DEF Report
    <2>5. CASE HostTimeout(h)
        BY <2>0, <2>5 DEF HostTimeout
    <2>6. CASE Fail(h)
        BY <2>0, <2>6, LoadgenAssumption DEF Fail
    <2> QED
        BY <1>3, <1>4, <2>1, <2>2, <2>3, <2>4, <2>5, <2>6 DEF HostStep
<1>5. CASE CoordinatorStep
    <2>1. CASE PublishSpec
        <3>1. PICK n \in 1 .. 2 : Sent(n) /\ Go(Coordinator, IF n = 1 THEN "warm" ELSE "failed")
            BY <2>1 DEF PublishSpec
        <3>2. lost' \in 0 .. MaxLost
            BY <3>1, LoadgenAssumption DEF Sent
        <3> QED
            BY <2>1, <3>1, <3>2 DEF PublishSpec
    <2>2. CASE PublishStart
        BY <2>2 DEF PublishStart
    <2>3. CASE ReadyTimeout
        BY <2>3 DEF ReadyTimeout
    <2>4. CASE ReadProduced
        BY <2>4 DEF ReadProduced
    <2>5. CASE ReadXlen
        BY <2>5 DEF ReadXlen
    <2>6. CASE ReadZcard
        <3>1. drained' \in BOOLEAN
            BY <2>6 DEF ReadZcard
        <3> QED
            BY <2>6, <3>1 DEF ReadZcard
    <2>7. CASE ReportRun
        <3>1. ok' \in BOOLEAN
            BY <2>7 DEF ReportRun, Verdict
        <3> QED
            BY <2>7, <3>1 DEF ReportRun
    <2> QED
        BY <1>3, <1>5, <2>1, <2>2, <2>3, <2>4, <2>5, <2>6, <2>7 DEF CoordinatorStep
<1> QED
    BY <1>1, <1>2, <1>4, <1>5 DEF LoadgenNext

-----------------------------------------------------------------------------
(* The verdict *)

\* What an ended host reported stays true.
EndedStays ==
    \A h \in Hosts : at[h] = "ended" => at'[h] = "ended" /\ Accepted(h)' = Accepted(h)

\* A host offers nothing after it has ended, and workers do not change what was accepted.
LEMMA EndedIsStable ==
    ASSUME LoadgenTypeOK, LoadgenNext
    PROVE  EndedStays
<1> USE DEF LoadgenTypeOK, Go, keyVars, runVars, envVars, Hosts, EndedStays
<1>1. CASE WorkerStep
    <2>1. UNCHANGED at
        BY <1>1 DEF WorkerStep, Complete, Retry, Reschedule, Dead
    <2>2. \A j \in LoadJob :
            loadJob'[j] \in {"new", "refused"} <=> loadJob[j] \in {"new", "refused"}
        BY <1>1 DEF WorkerStep, Complete, Retry, Reschedule, Dead
    <2> QED
        BY <2>1, <2>2 DEF Accepted, JobsOf
<1>2. ASSUME NEW j \in LoadJob, Offer(j) PROVE EndedStays
    <2>1. UNCHANGED at /\ at[HostOf[j]] # "ended"
        BY <1>2 DEF Offer
    <2>2. \A i \in LoadJob : i # j => loadJob'[i] = loadJob[i]
        BY <1>2 DEF Offer
    <2> QED
        BY <2>1, <2>2 DEF Accepted, JobsOf
<1>3. ASSUME UNCHANGED loadJob, \A h \in Hosts : at[h] = "ended" => at'[h] = "ended"
      PROVE  EndedStays
    BY <1>3 DEF Accepted, JobsOf
<1>4. ASSUME NEW h \in Hosts, Produced(h) PROVE EndedStays
    BY <1>3, <1>4 DEF Produced
<1>5. ASSUME NEW h \in Host, HostStep(h) \/ Fail(h) PROVE EndedStays
    BY <1>3, <1>4, <1>5
    DEF HostStep, TakeSpec, Ready, SeeStart, Report, HostTimeout, Fail
<1>6. CASE CoordinatorStep
    BY <1>3, <1>4, <1>6
    DEF CoordinatorStep, PublishSpec, PublishStart, ReadyTimeout, ReadProduced, ReadXlen,
        ReadZcard, ReportRun
<1> QED
    BY <1>1, <1>2, <1>5, <1>6 DEF LoadgenNext

\* So does a list of reports.
LEMMA ListedStays ==
    ASSUME NEW list \in Seq(Summary), Listed(list), EndedStays
    PROVE  Listed(list)'
<1>1. \A i \in 1 .. Len(list) : list[i].host \in Hosts
    <2>1. \A i \in 1 .. Len(list) : list[i] \in Summary
        OBVIOUS
    <2> QED
        BY <2>1 DEF Summary, Hosts
<1> QED
    BY <1>1 DEF Listed, EndedStays

\* One more report of a host that ends now.
LEMMA ListedAppend ==
    ASSUME NEW list \in Seq(Summary), Listed(list), EndedStays, NEW h \in Host,
           at[h] # "ended", at'[h] = "ended", UNCHANGED loadJob,
           NEW next, next = Pushed(list, [host |-> h, accepted |-> Cardinality(Accepted(h))], 1)
    PROVE  Listed(next)'
<1> DEFINE x == [host |-> h, accepted |-> Cardinality(Accepted(h))]
<1>1. Listed(list)'
    BY ListedStays
<1>2. /\ Len(next) = Len(list) + 1 /\ Len(list) \in Nat
      /\ \A i \in 1 .. Len(list) : next[i] = list[i]
      /\ next[Len(list) + 1] = x
    <2> HIDE DEF x
    <2>1. next = list \o [i \in 1 .. 1 |-> x] /\ [i \in 1 .. 1 |-> x] \in Seq({x})
        BY DEF Pushed, x
    <2> QED
        BY <2>1
<1>3. x.host = h /\ x.accepted = Cardinality(Accepted(h)) /\ Accepted(h)' = Accepted(h)
    BY DEF Accepted, JobsOf
<1> HIDE DEF x
<1>4. \A i \in 1 .. Len(list) : next[i].host # h
    BY <1>2 DEF Listed
<1>5. \A i \in 1 .. Len(next) : i \in 1 .. Len(list) \/ i = Len(list) + 1
    BY <1>2
<1>6. ASSUME NEW i \in 1 .. Len(next)
      PROVE  at'[next[i].host] = "ended" /\ next[i].accepted = Cardinality(Accepted(next[i].host)')
    <2>1. CASE i \in 1 .. Len(list)
        BY <1>1, <1>2, <2>1 DEF Listed
    <2>2. CASE i = Len(list) + 1
        BY <1>2, <1>3, <2>2
    <2> QED
        BY <1>5, <2>1, <2>2
<1>7. ASSUME NEW i \in 1 .. Len(next), NEW k \in 1 .. Len(next), next[i].host = next[k].host
      PROVE  i = k
    <2>1. CASE i \in 1 .. Len(list) /\ k \in 1 .. Len(list)
        BY <1>1, <1>2, <1>7, <2>1 DEF Listed
    <2> QED
        BY <1>2, <1>3, <1>4, <1>5, <1>7, <2>1
<1> QED
    BY <1>6, <1>7 DEF Listed

\* When the reports of all hosts are in and they add up, every accepted job has its result.
LEMMA AddsUp ==
    ASSUME LoadgenTypeOK, Listed(seen), Verdict
    PROVE  /\ \A h \in Host : \E i \in 1 .. Len(seen) : seen[i].host = h
           /\ \A j \in LoadJob : loadJob[j] \in {"new", "refused", "done"}
<1>1. seen \in Seq(Summary) /\ Len(seen) \in Nat
    BY DEF LoadgenTypeOK
<1>2. IsFiniteSet(Host) /\ Cardinality(Host) \in Nat
    BY LoadgenAssumption, FS_CardinalityType
<1>3. \A h \in Host : \E i \in 1 .. Len(seen) : seen[i].host = h
    <2> DEFINE f == [i \in 1 .. Len(seen) |-> seen[i].host]
    <2>1. \A i \in 1 .. Len(seen) : seen[i] \in Summary
        BY <1>1
    <2>2. f \in [1 .. Len(seen) -> Host]
        BY <2>1 DEF Summary
    <2>3. \A i, k \in 1 .. Len(seen) : f[i] = f[k] => i = k
        BY DEF Listed
    <2>4. Len(seen) >= Cardinality(Host)
        BY <1>1, <1>2 DEF Verdict, HostsReported
    <2>5. \A i \in 1 .. Len(seen) : f[i] = seen[i].host
        OBVIOUS
    <2> HIDE DEF f
    <2>6. \A h \in Host : \E i \in 1 .. Len(seen) : f[i] = h
        BY <1>1, <1>2, <2>2, <2>3, <2>4, ListCovers
    <2> QED
        BY <2>5, <2>6
<1> DEFINE A == JobsAt(seen, 1 .. Len(seen))
           B == Accepted(Coordinator)
           D == {j \in LoadJob : loadJob[j] = "done"}
<1>4. A \subseteq LoadJob /\ B \subseteq LoadJob /\ D \subseteq LoadJob
    BY DEF JobsAt, Accepted, JobsOf
<1>5. A \intersect B = {}
    <2>1. \A i \in 1 .. Len(seen) : seen[i] \in Summary
        BY <1>1
    <2>2. \A i \in 1 .. Len(seen) : seen[i].host # Coordinator
        BY <2>1, LoadgenAssumption DEF Summary
    <2> QED
        BY <2>2 DEF JobsAt, Accepted, JobsOf
<1>6. \A j \in LoadJob : loadJob[j] \notin {"new", "refused"} => j \in A \union B
    <2> SUFFICES ASSUME NEW j \in LoadJob, loadJob[j] \notin {"new", "refused"}
                 PROVE  j \in A \union B
        OBVIOUS
    <2>1. HostOf[j] \in Host \/ HostOf[j] = Coordinator
        BY LoadgenAssumption
    <2>2. j \in Accepted(HostOf[j])
        BY DEF Accepted, JobsOf
    <2> QED
        BY <1>3, <2>1, <2>2 DEF JobsAt
<1>7. D \subseteq A \union B
    BY <1>6
<1>8. Cardinality(D) = Cardinality(B) + Cardinality(A)
    BY <1>1, SumOfHosts DEF Verdict, TotalAccepted, Distinct
<1> HIDE DEF A, B, D
<1>9. /\ IsFiniteSet(A) /\ Cardinality(A) \in Nat
      /\ IsFiniteSet(B) /\ Cardinality(B) \in Nat
    BY <1>4, LoadJobsFinite
<1>10. IsFiniteSet(A \union B) /\ Cardinality(A \union B) = Cardinality(B) + Cardinality(A)
    <2>1. IsFiniteSet(A \union B) /\ Cardinality(A \union B)
            = Cardinality(A) + Cardinality(B) - Cardinality(A \intersect B)
        BY <1>9, FS_Union
    <2>2. Cardinality(A \intersect B) = 0
        BY <1>5, FS_EmptySet
    <2> QED
        BY <1>9, <2>1, <2>2
<1>11. Cardinality(A \union B) = Cardinality(D)
    BY <1>8, <1>10
<1>12. D = A \union B
    BY <1>7, <1>10, <1>11, FS_Subset
<1>13. \A j \in LoadJob : loadJob[j] \in {"new", "refused", "done"}
    BY <1>6, <1>12 DEF D
<1> QED
    BY <1>3, <1>13

\* The lists are empty at first.
LEMMA LoadInvInit == LoadgenInit => LoadInv
<1> SUFFICES ASSUME LoadgenInit PROVE LoadInv
    OBVIOUS
<1>1. LoadgenTypeOK
    BY LoadTypeInit
<1>2. Len(<<>>) = 0
    OBVIOUS
<1>3. \A i \in 1 .. 0 : FALSE
    OBVIOUS
<1>4. Listed(produced) /\ Listed(seen) /\ Waited
    BY <1>2, <1>3 DEF LoadgenInit, Listed, Waited
<1>5. Gate /\ OkIsFinal
    BY DEF LoadgenInit, Gate, OkIsFinal
<1> QED
    BY <1>1, <1>4, <1>5 DEF LoadInv

\* The lists of reports, in a step after which no command was sent twice.
LEMMA ListedStep ==
    ASSUME LoadInv, LoadgenNext, lost = 0, lost' = 0
    PROVE  Listed(produced)' /\ Listed(seen)'
<1> USE DEF Go, keyVars, runVars, envVars, Hosts
<1>1. LoadgenTypeOK /\ Listed(produced) /\ Listed(seen) /\ EndedStays
    BY EndedIsStable DEF LoadInv
<1>2. produced \in Seq(Summary) /\ seen \in Seq(Summary)
    BY <1>1 DEF LoadgenTypeOK
<1>3. PICK p : p = produced
    OBVIOUS
<1>4. PICK s : s = seen
    OBVIOUS
<1>5. Listed(p)' /\ Listed(s)'
    BY <1>1, <1>2, <1>3, <1>4, ListedStays
<1>6. ASSUME produced' = produced, seen' \in {seen, produced}
      PROVE  Listed(produced)' /\ Listed(seen)'
    BY <1>3, <1>4, <1>5, <1>6 DEF Listed
<1>7. ASSUME NEW h \in Host, Report(h) PROVE Listed(produced)' /\ Listed(seen)'
    <2>1. produced' = Pushed(produced, [host |-> h, accepted |-> Cardinality(Accepted(h))], 1)
        BY <1>7 DEF Report, Sent
    <2>2. PICK next : next = produced'
        OBVIOUS
    <2>3. at[h] # "ended" /\ at'[h] = "ended" /\ UNCHANGED <<loadJob, seen>>
        BY <1>1, <1>7 DEF Report, LoadgenTypeOK
    <2>4. Listed(next)'
        BY <1>1, <1>2, <2>1, <2>2, <2>3, ListedAppend
    <2>5. Listed(produced)'
        BY <2>2, <2>4 DEF Listed
    <2>6. Listed(seen)'
        BY <1>4, <1>5, <2>3 DEF Listed
    <2> QED
        BY <2>5, <2>6
<1>8. CASE WorkerStep
    BY <1>6, <1>8 DEF WorkerStep, Complete, Retry, Reschedule, Dead
<1>9. ASSUME NEW j \in LoadJob, Offer(j) PROVE Listed(produced)' /\ Listed(seen)'
    BY <1>6, <1>9 DEF Offer
<1>10. ASSUME NEW h \in Host, HostStep(h) \/ Fail(h) PROVE Listed(produced)' /\ Listed(seen)'
    BY <1>6, <1>7, <1>10 DEF HostStep, TakeSpec, Ready, SeeStart, Produced, HostTimeout, Fail
<1>11. CASE CoordinatorStep
    BY <1>6, <1>11
    DEF CoordinatorStep, PublishSpec, PublishStart, ReadyTimeout, Produced, ReadProduced,
        ReadXlen, ReadZcard, ReportRun
<1> QED
    BY <1>8, <1>9, <1>10, <1>11 DEF LoadgenNext

\* The list of hosts that are warm, likewise.
LEMMA WaitedStep ==
    ASSUME LoadInv, LoadgenNext, lost = 0, lost' = 0
    PROVE  Waited'
<1> USE DEF Go, keyVars, runVars, envVars, Hosts
<1>1. LoadgenTypeOK /\ Waited /\ ready \in Seq(Host) /\ Len(ready) \in Nat
    BY DEF LoadInv, LoadgenTypeOK
<1>2. Coordinator \notin Host /\ \A i \in 1 .. Len(ready) : ready[i] \in Host
    BY <1>1, LoadgenAssumption
<1>3. ASSUME UNCHANGED ready,
             \A g \in Host : at[g] \notin {"begin", "warm"} => at'[g] \notin {"begin", "warm"}
      PROVE  Waited'
    BY <1>1, <1>2, <1>3 DEF Waited
<1>4. ASSUME NEW h \in Host, Ready(h) PROVE Waited'
    <2>1. ready' = ready \o [i \in 1 .. 1 |-> h]
        BY <1>4 DEF Ready, Sent, Pushed
    <2>2. /\ Len(ready') = Len(ready) + 1
          /\ \A i \in 1 .. Len(ready) : ready'[i] = ready[i]
          /\ ready'[Len(ready) + 1] = h
        <3>1. [i \in 1 .. 1 |-> h] \in Seq(Host)
            OBVIOUS
        <3> QED
            BY <1>1, <2>1, <3>1
    <2>3. at[h] = "warm" /\ at' = [at EXCEPT ![h] = "waiting"]
        BY <1>4 DEF Ready
    <2>4. \A i \in 1 .. Len(ready) : ready[i] # h
        BY <1>1, <2>3 DEF Waited
    <2>5. \A i \in 1 .. Len(ready') : i \in 1 .. Len(ready) \/ i = Len(ready) + 1
        BY <1>1, <2>2
    <2>6. ASSUME NEW i \in 1 .. Len(ready') PROVE at'[ready'[i]] \notin {"begin", "warm"}
        BY <1>1, <1>2, <2>2, <2>3, <2>4, <2>5 DEF Waited, LoadgenTypeOK
    <2>7. ASSUME NEW i \in 1 .. Len(ready'), NEW k \in 1 .. Len(ready'), ready'[i] = ready'[k]
          PROVE  i = k
        BY <1>1, <2>2, <2>4, <2>5, <2>7 DEF Waited
    <2> QED
        BY <2>6, <2>7 DEF Waited
<1>5. CASE WorkerStep
    BY <1>3, <1>5 DEF WorkerStep, Complete, Retry, Reschedule, Dead
<1>6. ASSUME NEW j \in LoadJob, Offer(j) PROVE Waited'
    BY <1>3, <1>6 DEF Offer
<1>7. ASSUME NEW h \in Host, HostStep(h) \/ Fail(h) PROVE Waited'
    BY <1>1, <1>3, <1>4, <1>7
    DEF HostStep, TakeSpec, SeeStart, Produced, Report, HostTimeout, Fail, LoadgenTypeOK
<1>8. CASE CoordinatorStep
    BY <1>1, <1>2, <1>3, <1>8
    DEF CoordinatorStep, PublishSpec, PublishStart, ReadyTimeout, Produced, ReadProduced,
        ReadXlen, ReadZcard, ReportRun, LoadgenTypeOK
<1> QED
    BY <1>5, <1>6, <1>7, <1>8 DEF LoadgenNext

\* The start, likewise.
LEMMA GateStep ==
    ASSUME LoadInv, LoadgenNext, lost = 0, lost' = 0
    PROVE  Gate'
<1> DEFINE Covered == \A h \in Host : \E i \in 1 .. Len(ready) : ready[i] = h
<1> USE DEF Go, keyVars, runVars, envVars, Hosts
<1>1. LoadgenTypeOK /\ Waited /\ Gate /\ ready \in Seq(Host) /\ Len(ready) \in Nat
    BY DEF LoadInv, LoadgenTypeOK
<1>2. \A j \in LoadJob : HostOf[j] \in Hosts
    BY LoadgenAssumption
<1>3. ASSUME UNCHANGED <<ready, start>>,
             \A h \in Hosts : at'[h] = "producing" => at[h] = "producing" \/ start,
             \A j \in LoadJob : loadJob'[j] # "new" => loadJob[j] # "new" \/ start
      PROVE  Gate'
    BY <1>1, <1>3 DEF Gate
<1>4. ASSUME NEW h \in Host, Ready(h) PROVE Gate'
    <2>1. ready' = ready \o [i \in 1 .. 1 |-> h]
        BY <1>4 DEF Ready, Sent, Pushed
    <2>2. Len(ready') = Len(ready) + 1 /\ \A i \in 1 .. Len(ready) : ready'[i] = ready[i]
        <3>1. [i \in 1 .. 1 |-> h] \in Seq(Host)
            OBVIOUS
        <3> QED
            BY <1>1, <2>1, <3>1
    <2>3. Covered => Covered'
        BY <1>1, <2>2
    <2>4. /\ UNCHANGED <<start, loadJob>>
          /\ \A g \in Hosts : at'[g] = "producing" => at[g] = "producing"
        BY <1>1, <1>4 DEF Ready, LoadgenTypeOK
    <2> QED
        BY <1>1, <2>3, <2>4 DEF Gate
<1>5. CASE PublishStart
    <2>1. Covered
        <3>1. IsFiniteSet(Host) /\ Cardinality(Host) \in Nat
            BY LoadgenAssumption, FS_CardinalityType
        <3>2. Len(ready) >= Cardinality(Host)
            BY <1>5 DEF PublishStart, AllReady
        <3>3. ready \in [1 .. Len(ready) -> Host]
            BY <1>1
        <3>4. \A i, k \in 1 .. Len(ready) : ready[i] = ready[k] => i = k
            BY <1>1 DEF Waited
        <3> QED
            BY <1>1, <3>1, <3>2, <3>3, <3>4, ListCovers
    <2>2. Covered' /\ start'
        BY <1>5, <2>1 DEF PublishStart
    <2> QED
        BY <2>2 DEF Gate
<1>6. CASE WorkerStep
    BY <1>1, <1>3, <1>6 DEF WorkerStep, Complete, Retry, Reschedule, Dead, LoadgenTypeOK
<1>7. ASSUME NEW j \in LoadJob, Offer(j) PROVE Gate'
    <2>1. start
        BY <1>1, <1>2, <1>7 DEF Offer, Gate
    <2> QED
        BY <1>3, <1>7, <2>1 DEF Offer
<1>8. ASSUME NEW h \in Host, HostStep(h) \/ Fail(h) PROVE Gate'
    BY <1>1, <1>3, <1>4, <1>8
    DEF HostStep, TakeSpec, SeeStart, Produced, Report, HostTimeout, Fail, LoadgenTypeOK
<1>9. CASE CoordinatorStep
    BY <1>1, <1>3, <1>5, <1>9
    DEF CoordinatorStep, PublishSpec, ReadyTimeout, Produced, ReadProduced, ReadXlen,
        ReadZcard, ReportRun, LoadgenTypeOK
<1> QED
    BY <1>6, <1>7, <1>8, <1>9 DEF LoadgenNext

\* The verdict, likewise: "ok" is right when it is given, and by then nobody can offer.
LEMMA OkStep ==
    ASSUME LoadInv, LoadgenNext, lost = 0, lost' = 0
    PROVE  OkIsFinal'
<1> USE DEF Go, keyVars, runVars, envVars, Hosts
<1>1. LoadgenTypeOK /\ Listed(seen) /\ OkIsFinal /\ EndedStays
    BY EndedIsStable DEF LoadInv
<1>2. ok => \A h \in Hosts : at[h] = "ended"
    <2>1. ASSUME ok, NEW h \in Host PROVE at[h] = "ended"
        <3>1. PICK i \in 1 .. Len(seen) : seen[i].host = h
            BY <1>1, <2>1 DEF OkIsFinal
        <3> QED
            BY <1>1, <3>1 DEF Listed
    <2> QED
        BY <1>1, <2>1 DEF OkIsFinal
<1>3. ASSUME UNCHANGED <<seen, ok>>,
             \A j \in LoadJob :
               loadJob[j] \in {"new", "refused", "done"} => loadJob'[j] = loadJob[j]
      PROVE  OkIsFinal'
    BY <1>1, <1>3 DEF OkIsFinal, EndedStays
<1>4. CASE ReportRun
    <2>1. ok' = Verdict /\ UNCHANGED <<seen, loadJob>> /\ at'[Coordinator] = "ended"
        BY <1>1, <1>4 DEF ReportRun, LoadgenTypeOK
    <2>2. CASE Verdict
        <3>1. /\ \A h \in Host : \E i \in 1 .. Len(seen) : seen[i].host = h
              /\ \A j \in LoadJob : loadJob[j] \in {"new", "refused", "done"}
            BY <1>1, <2>2, AddsUp
        <3> QED
            BY <2>1, <3>1 DEF OkIsFinal
    <2> QED
        BY <2>1, <2>2 DEF OkIsFinal
<1>5. CASE WorkerStep
    BY <1>1, <1>3, <1>5 DEF WorkerStep, Complete, Retry, Reschedule, Dead, LoadgenTypeOK
<1>6. ASSUME NEW j \in LoadJob, Offer(j) PROVE OkIsFinal'
    <2>1. ~ok
        BY <1>2, <1>6, LoadgenAssumption DEF Offer
    <2> QED
        BY <1>6, <2>1 DEF Offer, OkIsFinal
<1>7. ASSUME NEW h \in Host, HostStep(h) \/ Fail(h) PROVE OkIsFinal'
    BY <1>3, <1>7 DEF HostStep, TakeSpec, Ready, SeeStart, Produced, Report, HostTimeout, Fail
<1>8. CASE ReadProduced
    <2>1. ~ok
        BY <1>2, <1>8 DEF ReadProduced
    <2> QED
        BY <1>8, <2>1 DEF ReadProduced, OkIsFinal
<1>9. CASE CoordinatorStep
    BY <1>3, <1>4, <1>8, <1>9
    DEF CoordinatorStep, PublishSpec, PublishStart, ReadyTimeout, Produced, ReadXlen, ReadZcard
<1> QED
    BY <1>5, <1>6, <1>7, <1>9 DEF LoadgenNext

\* Every step keeps the invariant.
LEMMA LoadInvStep ==
    ASSUME LoadInv, [LoadgenNext]_loadgenVars
    PROVE  LoadInv'
<1>1. CASE LoadgenNext
    <2>1. LoadgenTypeOK'
        BY <1>1, LoadTypeStep DEF LoadInv
    <2>2. ASSUME lost' = 0 PROVE lost = 0
        <3>1. lost \in Nat
            BY LoadgenAssumption DEF LoadInv, LoadgenTypeOK
        <3>2. lost' = lost \/ lost' = lost + 1
            BY <1>1 DEF LoadgenNext, WorkerStep, Complete, Retry, Reschedule, Dead, Offer, HostStep,
                        TakeSpec, Ready, SeeStart, Produced, Report, HostTimeout, Fail,
                        CoordinatorStep, PublishSpec, PublishStart, ReadyTimeout, ReadProduced,
                        ReadXlen, ReadZcard, ReportRun, Sent, envVars
        <3> QED
            BY <2>2, <3>1, <3>2
    <2> QED
        BY <1>1, <2>1, <2>2, ListedStep, WaitedStep, GateStep, OkStep DEF LoadInv
<1>2. CASE UNCHANGED loadgenVars
    <2> USE <1>2 DEF loadgenVars, keyVars, runVars, envVars
    <2>1. LoadgenTypeOK => LoadgenTypeOK'
        BY DEF LoadgenTypeOK
    <2>2. \A h : Accepted(h)' = Accepted(h)
        BY DEF Accepted, JobsOf
    <2>3. Listed(produced) => Listed(produced)'
        BY <2>2 DEF Listed
    <2>4. Listed(seen) => Listed(seen)'
        BY <2>2 DEF Listed
    <2>5. (Waited => Waited') /\ (Gate => Gate') /\ (OkIsFinal => OkIsFinal')
        BY DEF Waited, Gate, OkIsFinal
    <2> QED
        BY <2>1, <2>3, <2>4, <2>5 DEF LoadInv
<1> QED
    BY <1>1, <1>2

\* The invariant holds through every load test.
THEOREM LoadAlwaysSound == LoadgenSpec => []LoadInv
BY LoadInvInit, LoadInvStep, PTL DEF LoadgenSpec

\* Keys, hosts, jobs and the coordinator's copies are what they should be.
THEOREM LoadTypes == LoadgenSpec => []LoadgenTypeOK
<1>1. LoadInv => LoadgenTypeOK
    BY DEF LoadInv
<1> QED
    BY <1>1, LoadAlwaysSound, PTL

\* What the invariant is for.
LEMMA LoadFollows == LoadInv => OkIsTrue
<1> SUFFICES ASSUME LoadInv, lost = 0 PROVE OkIsTrue
    BY DEF OkIsTrue
<1>1. seen \in Seq(Summary) /\ ready \in Seq(Host)
    BY DEF LoadInv, LoadgenTypeOK
<1>2. DOMAIN seen = 1 .. Len(seen) /\ DOMAIN ready = 1 .. Len(ready)
    BY <1>1
<1> QED
    BY <1>2 DEF LoadInv, OkIsFinal, Gate, OkIsTrue, Range

\* exactly_once.ok is true: for any number of hosts and jobs, whichever hosts die and whenever the
\* coordinator stops waiting, "ok" means that every host has reported and every job any of them got
\* accepted has its one result; and nothing is enqueued before every host is ready.  All of it
\* as long as no command was sent twice (OkIsTrue asks for lost = 0).
THEOREM OkIsAlwaysTrue == LoadgenSpec => []OkIsTrue
<1> QED
    BY LoadFollows, LoadAlwaysSound, PTL

-----------------------------------------------------------------------------
(* The percentiles of a report *)

\* The least of some natural numbers.
LEMMA LeastOf ==
    ASSUME NEW T, T \subseteq Nat, T # {}
    PROVE  Min(T) \in T /\ \A y \in T : Min(T) <= y
<1>1. \E n \in T : \A m \in T : n <= m
    BY LeastNatural
<1> QED
    BY <1>1 DEF Min

\* The greatest of finitely many.
LEMMA GreatestOf ==
    ASSUME NEW T, \A x \in T : x \in Nat, T # {}, IsFiniteSet(T)
    PROVE  Max(T) \in T /\ \A y \in T : y <= Max(T)
<1> DEFINE From(x) == {y \in T : x <= y}
           B == {From(x) : x \in T}
<1>1. PICK A \in B : \A C \in B : C \subseteq A => C = A
    <2>1. B \subseteq SUBSET T
        OBVIOUS
    <2>2. B # {}
        OBVIOUS
    <2> HIDE DEF B
    <2> QED
        BY <2>1, <2>2, LeastSubset
<1>2. PICK x \in T : A = From(x)
    OBVIOUS
<1>3. ASSUME NEW y \in T PROVE y <= x
    <2> SUFFICES ASSUME x < y PROVE FALSE
        OBVIOUS
    <2>1. x \in Nat /\ y \in Nat
        OBVIOUS
    <2>2. \A z \in T : y <= z => x <= z
        BY <2>1
    <2>3. x \notin From(y) /\ x \in From(x)
        BY <2>1
    <2> QED
        BY <1>1, <1>2, <2>2, <2>3, From(y) \subseteq From(x)
<1>4. \E z \in T : \A y \in T : z >= y
    BY <1>3
<1> QED
    BY <1>4 DEF Max

\* The counts of a producer's calls.
CallTypes == calls \in [Producers -> [Latencies -> Nat]]

\* The calls of all producers, by latency.
ByLatency == [v \in Latencies |-> SumFunctionOnSet([p \in Producers |-> calls[p][v]], Producers)]

\* The constants of the analysis.
LEMMA AnalysisConstants ==
    /\ IsFiniteSet(Producers) /\ IsFiniteSet(Latencies)
    /\ Bucket \in Nat /\ Bucket > 0 /\ Cores \in Nat
    /\ \A v \in Latencies : v \in Nat /\ v > 0
BY AnalysisAssumption

\* They are counts.
LEMMA ByLatencyType ==
    ASSUME CallTypes
    PROVE  \A v \in Latencies : ByLatency[v] \in Nat
<1> TAKE v \in Latencies
<1> DEFINE f == [p \in Producers |-> calls[p][v]]
<1>1. \A p \in Producers : f[p] \in Nat
    BY DEF CallTypes
<1>2. ByLatency[v] = SumFunctionOnSet(f, Producers)
    BY DEF ByLatency
<1> HIDE DEF f
<1> QED
    BY <1>1, <1>2, SumSplit, AnalysisConstants

\* Calls may be counted by producer or by latency.
LEMMA CallsByLatency ==
    ASSUME CallTypes, NEW T, T \subseteq Latencies
    PROVE  SumFunctionOnSet([p \in Producers |-> SumFunctionOnSet(calls[p], T)], Producers)
             = SumFunctionOnSet(ByLatency, T)
<1> DEFINE here == [v \in T |-> SumFunctionOnSet([p \in Producers |-> calls[p][v]], Producers)]
<1>1. IsFiniteSet(T) /\ IsFiniteSet(Producers)
    BY AnalysisConstants, FS_Subset
<1>2. \A p \in Producers, v \in T : calls[p][v] \in Nat
    BY DEF CallTypes
<1>3. SumFunctionOnSet([p \in Producers |-> SumFunctionOnSet(calls[p], T)], Producers)
        = SumFunctionOnSet(here, T)
    BY <1>1, <1>2, SumExchange
<1>4. \A v \in T : ByLatency[v] \in Nat /\ here[v] = ByLatency[v]
    BY ByLatencyType DEF ByLatency
<1> HIDE DEF here
<1> QED
    BY <1>1, <1>3, <1>4, SumOfEqual

\* The figures the percentiles are held against.
LEMMA CallsCounted ==
    ASSUME CallTypes
    PROVE  /\ AllCalls = SumFunctionOnSet(ByLatency, Latencies)
           /\ \A v : AtMost(v) = SumFunctionOnSet(ByLatency, {w \in Latencies : w <= v})
           /\ AllCalls \in Nat
<1>1. \A p \in Producers : DOMAIN calls[p] = Latencies
    BY DEF CallTypes
<1>2. AllCalls = SumFunctionOnSet(ByLatency, Latencies)
    <2>1. SumFunctionOnSet([p \in Producers |-> SumFunctionOnSet(calls[p], Latencies)], Producers)
            = SumFunctionOnSet(ByLatency, Latencies)
        BY CallsByLatency
    <2>2. [p \in Producers |-> SumFunction(calls[p])]
            = [p \in Producers |-> SumFunctionOnSet(calls[p], Latencies)]
        BY <1>1 DEF SumFunction
    <2> QED
        BY <2>1, <2>2 DEF AllCalls, SumFunction
<1>3. ASSUME NEW v
      PROVE  AtMost(v) = SumFunctionOnSet(ByLatency, {w \in Latencies : w <= v})
    <2> DEFINE T == {w \in Latencies : w <= v}
    <2>1. T \subseteq Latencies
        OBVIOUS
    <2>2. AtMost(v)
            = SumFunctionOnSet([p \in Producers |-> SumFunctionOnSet(calls[p], T)], Producers)
        BY DEF AtMost, SumFunction
    <2> HIDE DEF T
    <2>3. AtMost(v) = SumFunctionOnSet(ByLatency, T)
        BY <2>1, <2>2, CallsByLatency
    <2> QED
        BY <2>3 DEF T
<1>4. AllCalls \in Nat
    BY <1>2, ByLatencyType, SumSplit, AnalysisConstants
<1> QED
    BY <1>2, <1>3, <1>4

\* The upper edge of a bucket is no less than what is in it, and edges are in order.
LEMMA EdgeOrder ==
    ASSUME NEW v \in Nat, NEW w \in Nat
    PROVE  /\ Edge(v) \in Nat /\ v <= Edge(v)
           /\ v <= w => Edge(v) <= Edge(w)
<1>1. ASSUME NEW x \in Nat
      PROVE  \E k \in Nat : /\ k = CeilDiv(x, Bucket) /\ Edge(x) = k * Bucket
                            /\ k * Bucket <= x + Bucket - 1
                            /\ x + Bucket - 1 < (k + 1) * Bucket
    <2>1. PICK y \in Nat : y = x + Bucket - 1
        BY AnalysisConstants
    <2>2. CeilDiv(x, Bucket) = y \div Bucket
        BY <2>1 DEF CeilDiv
    <2> QED
        BY <2>1, <2>2, Floor, AnalysisConstants DEF Edge
<1>2. PICK i \in Nat : /\ Edge(v) = i * Bucket /\ i * Bucket <= v + Bucket - 1
                       /\ v + Bucket - 1 < (i + 1) * Bucket
    BY <1>1
<1>3. PICK k \in Nat : /\ Edge(w) = k * Bucket /\ w + Bucket - 1 < (k + 1) * Bucket
    BY <1>1
<1>4. /\ (i + 1) * Bucket = i * Bucket + Bucket /\ (k + 1) * Bucket = k * Bucket + Bucket
      /\ i * Bucket \in Nat /\ k * Bucket \in Nat
    BY AnalysisConstants
<1>5. v <= Edge(v)
    BY <1>2, <1>4, AnalysisConstants
<1>6. ASSUME v <= w PROVE Edge(v) <= Edge(w)
    <2>1. i <= k
        <3> SUFFICES ASSUME k + 1 <= i PROVE FALSE
            OBVIOUS
        <3>1. (k + 1) * Bucket <= i * Bucket
            <4>1. PICK m \in Nat : m = k + 1 /\ m <= i
                OBVIOUS
            <4>2. m * Bucket <= i * Bucket
                BY <4>1, AnalysisConstants, Scaled
            <4> QED
                BY <4>1, <4>2
        <3> QED
            BY <1>2, <1>3, <1>4, <1>6, <3>1, AnalysisConstants
    <2> QED
        BY <1>2, <1>3, <2>1, AnalysisConstants, Scaled
<1> QED
    BY <1>2, <1>4, <1>5, <1>6

Edges == {Edge(v) : v \in Latencies}

\* The merged histogram counts, in every bucket, the calls of all producers.
LEMMA MergedCounts ==
    ASSUME CallTypes
    PROVE  /\ DOMAIN Merged = Edges
           /\ \A e \in Edges :
                Merged[e] = SumFunctionOnSet(ByLatency, {v \in Latencies : Edge(v) = e})
<1> DEFINE H == [p \in Producers |-> histogram(calls[p])]
<1>1. \A p \in Producers : DOMAIN H[p] = Edges
    BY DEF histogram, Edges
<1>2. UNION {DOMAIN H[p] : p \in Producers} = Edges
    BY <1>1, AnalysisAssumption
<1>3. /\ DOMAIN Merged = Edges
      /\ \A e \in Edges : Merged[e] = SumFunction([p \in Producers |-> H[p][e]])
    <2> HIDE DEF H
    <2>1. Merged = merge(H)
        BY DEF Merged, H
    <2> QED
        BY <1>2, <2>1 DEF merge
<1>4. ASSUME NEW e \in Edges
      PROVE  Merged[e] = SumFunctionOnSet(ByLatency, {v \in Latencies : Edge(v) = e})
    <2> DEFINE T == {v \in Latencies : Edge(v) = e}
    <2>1. \A p \in Producers : H[p][e] = SumFunctionOnSet(calls[p], T)
        BY DEF histogram, Edges
    <2>2. [p \in Producers |-> H[p][e]] = [p \in Producers |-> SumFunctionOnSet(calls[p], T)]
        BY <2>1
    <2>3. T \subseteq Latencies
        OBVIOUS
    <2> HIDE DEF H, T
    <2>4. Merged[e]
            = SumFunctionOnSet([p \in Producers |-> SumFunctionOnSet(calls[p], T)], Producers)
        BY <1>3, <2>2 DEF SumFunction
    <2>5. Merged[e] = SumFunctionOnSet(ByLatency, T)
        BY <2>3, <2>4, CallsByLatency
    <2> QED
        BY <2>5 DEF T
<1> QED
    BY <1>3, <1>4

\* What has been seen by a bucket, and in all.
LEMMA SeenIs ==
    ASSUME CallTypes, NEW e
    PROVE  /\ SumFunctionOnSet(Merged, {d \in Edges : d <= e})
                = SumFunctionOnSet(ByLatency, {v \in Latencies : Edge(v) <= e})
           /\ SumFunction(Merged) = AllCalls
<1> DEFINE edge == [v \in Latencies |-> Edge(v)]
<1>0. IsFiniteSet(Edges)
    <2>1. edge \in Surjection(Latencies, Edges)
        BY DEF Surjection, Edges
    <2> HIDE DEF edge
    <2> QED
        BY <2>1, AnalysisConstants, FS_Surjection
<1>1. ASSUME NEW G, G \subseteq Edges, NEW U, U \subseteq Latencies,
             \A v \in Latencies : v \in U <=> Edge(v) \in G
      PROVE  SumFunctionOnSet(Merged, G) = SumFunctionOnSet(ByLatency, U)
    <2> DEFINE part_of == [d \in G |-> {v \in Latencies : Edge(v) = d}]
    <2>1. IsFiniteSet(G)
        BY <1>0, <1>1, FS_Subset
    <2>2. part_of \in [G -> SUBSET Latencies]
        OBVIOUS
    <2>3. \A d, k \in G : d # k => part_of[d] \intersect part_of[k] = {}
        OBVIOUS
    <2>4. \A d \in G : Merged[d] = SumFunctionOnSet(ByLatency, part_of[d])
        BY <1>1, MergedCounts
    <2>5. \A v \in Latencies : v \in U <=> \E d \in G : v \in part_of[d]
        BY <1>1
    <2> HIDE DEF part_of
    <2> QED
        BY <1>1, <2>1, <2>2, <2>3, <2>4, <2>5, ByLatencyType, AnalysisConstants, SumOfParts
<1> DEFINE G == {d \in Edges : d <= e}
           U == {v \in Latencies : Edge(v) <= e}
<1>2. G \subseteq Edges /\ U \subseteq Latencies /\ \A v \in Latencies : v \in U <=> Edge(v) \in G
    BY DEF Edges
<1>3. \A v \in Latencies : v \in Latencies <=> Edge(v) \in Edges
    BY DEF Edges
<1>4. SumFunctionOnSet(Merged, Edges) = SumFunctionOnSet(ByLatency, Latencies)
    BY <1>1, <1>3
<1>5. SumFunction(Merged) = AllCalls
    BY <1>4, MergedCounts, CallsCounted DEF SumFunction
<1> HIDE DEF G, U
<1>6. SumFunctionOnSet(Merged, G) = SumFunctionOnSet(ByLatency, U)
    BY <1>1, <1>2
<1> QED
    BY <1>5, <1>6 DEF G, U

\* A rank is that of the q-th part of a total, or the next; it is within the total.
LEMMA RankIs ==
    ASSUME NEW q \in PERCENTILES, NEW total \in Nat, total > 0
    PROVE  /\ Rank(q, total) \in Nat /\ Rank(q, total) <= total
           /\ \A n \in Nat : n >= Rank(q, total) => 1000 * n >= q * total
           /\ q # 999 \/ total \notin RoundsUp =>
                \A n \in Nat : 1000 * n >= q * total => n >= Rank(q, total)
<1>1. q \in Nat /\ q <= 999
    BY DEF PERCENTILES
<1>2. PICK x \in Nat : x = q * total
    BY <1>1
<1>3. PICK y \in Nat : y = x + 1000 - 1
    BY <1>2
<1>4. PICK r \in Nat : r = y \div 1000 /\ r * 1000 <= y /\ y < (r + 1) * 1000
    BY <1>3, Floor
<1>5. CeilDiv(q * total, 1000) = r
    BY <1>2, <1>3, <1>4 DEF CeilDiv
<1>6. x <= 999 * total
    BY <1>1, <1>2, Scaled
<1>7. CASE q = 999 /\ total \in RoundsUp
    <2>1. total % 1000 = 0
        BY <1>7, AnalysisAssumption
    <2>2. PICK k \in Nat : total = 1000 * k
        BY <2>1
    <2>3. Rank(q, total) = r + 1
        BY <1>5, <1>7, <1>4 DEF Rank
    <2>4. x = 999000 * k /\ k >= 1
        BY <1>2, <1>7, <2>2
    <2> QED
        BY <1>2, <1>3, <1>4, <1>7, <2>2, <2>3, <2>4
<1>8. CASE ~ (q = 999 /\ total \in RoundsUp)
    <2>1. Rank(q, total) = r
        BY <1>5, <1>8, <1>4 DEF Rank
    <2> QED
        BY <1>2, <1>3, <1>4, <1>6, <2>1
<1> QED
    BY <1>7, <1>8

\* A percentile is the bucket of the nearest rank, or above it.
LEMMA PercentilesRight ==
    ASSUME CallTypes
    PROVE  IsNearestRank
<1> SUFFICES ASSUME AllCalls > 0, NEW q \in PERCENTILES
             PROVE  /\ FromRank(Merged, q) # {}
                    /\ percentile(Merged, q) >= NearestRank(q)
                    /\ q # 999 \/ AllCalls \notin RoundsUp =>
                            percentile(Merged, q) = Edge(NearestRank(q))
    BY DEF IsNearestRank
<1> DEFINE sum(T) == SumFunctionOnSet(ByLatency, T)
           UpTo(v) == {w \in Latencies : w <= v}
           In(e) == {w \in Latencies : Edge(w) <= e}
           near == {v \in Latencies : 1000 * AtMost(v) >= q * AllCalls}
           rank == Rank(q, AllCalls)
           Exact == q # 999 \/ AllCalls \notin RoundsUp
<1>1. PICK all \in Nat : all = AllCalls /\ all > 0 /\ sum(Latencies) = all
    BY CallsCounted
<1>2. \A v : AtMost(v) = sum(UpTo(v))
    BY CallsCounted
<1>3. FromRank(Merged, q) = {e \in Edges : sum(In(e)) >= rank}
    <2>1. DOMAIN Merged = Edges /\ SumFunction(Merged) = AllCalls
        BY MergedCounts, SeenIs
    <2>2. \A e : SumFunctionOnSet(Merged, {d \in Edges : d <= e}) = sum(In(e))
        BY SeenIs
    <2> HIDE DEF sum, In
    <2> QED
        BY <2>1, <2>2 DEF FromRank
<1>4. ASSUME NEW T, T \subseteq Latencies
      PROVE  /\ sum(T) \in Nat /\ (T = {} => sum(T) = 0)
             /\ \A U \in SUBSET T : sum(U) <= sum(T)
    <2>1. IsFiniteSet(T) /\ \A v \in T : ByLatency[v] \in Nat
        BY <1>4, AnalysisConstants, FS_Subset, ByLatencyType
    <2> QED
        BY <2>1, SumSplit, SumOfFewer
<1>5. /\ rank \in Nat /\ rank <= all
      /\ \A n \in Nat : n >= rank => 1000 * n >= q * all
      /\ Exact => \A n \in Nat : 1000 * n >= q * all => n >= rank
    BY <1>1, RankIs
<1>6. q \in Nat /\ q * all \in Nat /\ q * all > 0 /\ 1000 * all >= q * all
    <2>1. q \in Nat /\ q > 0 /\ q <= 1000
        BY DEF PERCENTILES
    <2> QED
        BY <1>1, <2>1, Scaled
<1>7. /\ \A v : UpTo(v) \subseteq Latencies /\ In(v) \subseteq Latencies
      /\ \A v \in Latencies : v \in Nat /\ Edge(v) \in Nat /\ v <= Edge(v)
      /\ \A v, w \in Latencies : v <= w => Edge(v) <= Edge(w)
    BY AnalysisConstants, EdgeOrder
<1> HIDE DEF sum, rank
<1>8. Latencies # {}
    BY <1>1, <1>4
<1>9. PICK top \in Latencies : \A v \in Latencies : v <= top
    BY <1>8, AnalysisConstants, GreatestOf
<1>10. UpTo(top) = Latencies /\ In(Edge(top)) = Latencies
    BY <1>7, <1>9
<1> HIDE DEF UpTo, In
<1>11. top \in near
    BY <1>1, <1>2, <1>6, <1>10
<1>12. FromRank(Merged, q) # {}
    BY <1>1, <1>3, <1>5, <1>10 DEF Edges
<1>13. near \subseteq Nat /\ near # {}
    BY <1>7, <1>11
<1>14. FromRank(Merged, q) \subseteq Nat
    BY <1>3, <1>7 DEF Edges
<1>15. PICK N \in near : N = NearestRank(q) /\ \A v \in near : N <= v
    <2>1. NearestRank(q) = Min(near)
        BY DEF NearestRank
    <2> HIDE DEF near
    <2> QED
        BY <1>13, <2>1, LeastOf
<1>16. PICK P \in FromRank(Merged, q) :
            P = percentile(Merged, q) /\ \A e \in FromRank(Merged, q) : P <= e
    BY <1>12, <1>14, LeastOf DEF percentile
<1>17. N \in Latencies /\ N \in Nat /\ P \in Nat /\ sum(In(P)) >= rank
    BY <1>3, <1>7, <1>14
<1>18. 1000 * sum(In(P)) >= q * all /\ sum(In(P)) \in Nat
    BY <1>4, <1>5, <1>7, <1>17
<1>19. PICK g \in In(P) : \A v \in In(P) : v <= g
    <2>1. In(P) # {}
        BY <1>4, <1>6, <1>7, <1>18
    <2>2. (\A v \in In(P) : v \in Nat) /\ IsFiniteSet(In(P))
        BY <1>7, AnalysisConstants, FS_Subset
    <2> QED
        BY <2>1, <2>2, GreatestOf
<1>20. g \in Latencies /\ Edge(g) <= P /\ In(P) \subseteq UpTo(g)
    BY <1>7, <1>19 DEF In, UpTo
<1>21. g \in near
    <2>1. sum(In(P)) <= sum(UpTo(g)) /\ sum(UpTo(g)) \in Nat
        BY <1>4, <1>7, <1>20
    <2>2. 1000 * sum(UpTo(g)) >= q * all
        BY <1>6, <1>18, <2>1
    <2> QED
        BY <1>1, <1>2, <1>20, <2>2
<1>22. N <= g /\ Edge(N) <= Edge(g)
    BY <1>7, <1>15, <1>17, <1>20, <1>21
<1>23. N <= P /\ Edge(N) <= P
    BY <1>7, <1>17, <1>20, <1>22
<1>24. ASSUME Exact PROVE P <= Edge(N)
    <2>1. UpTo(N) \subseteq In(Edge(N))
        BY <1>7, <1>17 DEF UpTo, In
    <2>2. sum(UpTo(N)) <= sum(In(Edge(N))) /\ sum(UpTo(N)) \in Nat /\ sum(In(Edge(N))) \in Nat
        BY <1>4, <1>7, <2>1
    <2>3. 1000 * sum(UpTo(N)) >= q * all
        BY <1>1, <1>2, <1>15
    <2>4. 1000 * sum(In(Edge(N))) >= q * all
        BY <1>6, <2>2, <2>3
    <2>5. sum(In(Edge(N))) >= rank
        BY <1>5, <1>24, <2>2, <2>4
    <2>6. Edge(N) \in FromRank(Merged, q)
        BY <1>3, <1>17, <2>5 DEF Edges
    <2> QED
        BY <1>16, <2>6
<1> QED
    BY <1>7, <1>12, <1>15, <1>16, <1>17, <1>23, <1>24

-----------------------------------------------------------------------------
(* The CPU figures of a report *)

\* A counter that only grows, and in a time by no more than all cores can use.
Grows(s) ==
    \A i, k \in 1 .. Len(s) : i <= k =>
        /\ s[i][1] <= s[k][1] /\ s[i][2] <= s[k][2]
        /\ s[k][2] + Cores * s[i][1] <= s[i][2] + Cores * s[k][1]

Recorded(s) == s \in Seq(Nat \X Nat) /\ Grows(s)

\* Samples are pairs of natural numbers.
LEMMA SampleTypes ==
    ASSUME NEW s, Recorded(s)
    PROVE  Len(s) \in Nat /\ \A i \in 1 .. Len(s) : s[i][1] \in Nat /\ s[i][2] \in Nat
<1>1. s \in Seq(Nat \X Nat)
    BY DEF Recorded
<1>2. Len(s) \in Nat /\ \A i \in 1 .. Len(s) : s[i] \in Nat \X Nat
    BY <1>1
<1> QED
    BY <1>2

\* Whatever their places: of two samples the later has no less, and not too much more.
LEMMA ByTime ==
    ASSUME NEW s, Recorded(s), NEW i \in 1 .. Len(s), NEW k \in 1 .. Len(s), s[i][1] <= s[k][1]
    PROVE  s[i][2] <= s[k][2] /\ s[k][2] + Cores * s[i][1] <= s[i][2] + Cores * s[k][1]
<1>1. /\ Len(s) \in Nat
      /\ s[i][1] \in Nat /\ s[i][2] \in Nat /\ s[k][1] \in Nat /\ s[k][2] \in Nat
    BY SampleTypes
<1>2. CASE i <= k
    BY <1>2 DEF Recorded, Grows
<1>3. CASE k < i
    <2>1. /\ s[k][1] <= s[i][1] /\ s[k][2] <= s[i][2]
          /\ s[i][2] + Cores * s[k][1] <= s[k][2] + Cores * s[i][1]
        BY <1>3 DEF Recorded, Grows
    <2>2. s[k][1] = s[i][1]
        BY <1>1, <2>1
    <2>3. PICK x \in Nat : x = Cores * s[i][1] /\ x = Cores * s[k][1]
        BY <1>1, <2>2, AnalysisConstants
    <2>4. s[i][2] + x <= s[k][2] + x
        BY <2>1, <2>3
    <2>5. s[k][2] = s[i][2]
        BY <1>1, <2>1, <2>3, <2>4
    <2> QED
        BY <1>1, <2>2, <2>3, <2>5
<1> QED
    BY <1>1, <1>2, <1>3

\* At the time of a sample its value is read.
LEMMA ReadAtSample ==
    ASSUME NEW s, Recorded(s), NEW k \in 1 .. Len(s), NEW t \in Nat, t = s[k][1]
    PROVE  \E n \in Nat, d \in Nat : d > 0 /\ value_at(s, t) = <<n, d>> /\ n = s[k][2] * d
<1> DEFINE between == {i \in 1 .. Len(s) - 1 : s[i][1] <= t /\ t <= s[i + 1][1]}
<1>1. Len(s) \in Nat /\ \A i \in 1 .. Len(s) : s[i][1] \in Nat /\ s[i][2] \in Nat
    BY SampleTypes
<1>2. \A i \in 1 .. Len(s) : s[i][1] = t => s[i][2] = s[k][2]
    <2> SUFFICES ASSUME NEW i \in 1 .. Len(s), s[i][1] = t PROVE s[i][2] = s[k][2]
        OBVIOUS
    <2>1. s[i][1] <= s[k][1] /\ s[k][1] <= s[i][1]
        BY <1>1
    <2>2. s[i][2] <= s[k][2] /\ s[k][2] <= s[i][2]
        BY <2>1, ByTime
    <2> QED
        BY <1>1, <2>2
<1>3. \A i, m \in 1 .. Len(s) : i <= m => s[i][1] <= s[m][1]
    BY DEF Recorded, Grows
<1>4. 1 \in 1 .. Len(s) /\ t \in Nat /\ s[1][1] \in Nat
    BY <1>1
<1>5. CASE t <= s[1][1]
    <2>1. s[1][1] = t
        BY <1>3, <1>4, <1>5
    <2>2. value_at(s, t) = <<s[1][2], 1>>
        <3>1. ~ (t > s[1][1])
            BY <1>4, <1>5
        <3> QED
            BY <1>5, <3>1 DEF value_at
    <2> QED
        BY <1>1, <1>2, <1>4, <2>1, <2>2
<1>6. CASE t > s[1][1]
    <2>1. k - 1 \in between
        <3>1. k # 1
            BY <1>4, <1>6
        <3>2. k - 1 \in 1 .. Len(s) - 1 /\ k - 1 \in 1 .. Len(s) /\ k - 1 <= k /\ (k - 1) + 1 = k
            BY <1>1, <3>1
        <3>3. s[k - 1][1] <= s[k][1]
            BY <1>3, <3>2
        <3> QED
            BY <1>4, <3>2, <3>3
    <2>2. between # {} /\ between \subseteq Nat
        <3>1. \A m \in 1 .. Len(s) - 1 : m \in Nat
            BY <1>1
        <3> QED
            BY <2>1, <3>1
    <2> DEFINE i == Min(between)
               dt == s[i + 1][1] - s[i][1]
    <2>3. value_at(s, t) = IF dt = 0 THEN <<s[i][2], 1>>
                           ELSE <<s[i][2] * dt + (s[i + 1][2] - s[i][2]) * (t - s[i][1]), dt>>
        <3>1. ~ (t <= s[1][1])
            BY <1>4, <1>6
        <3> QED
            BY <1>6, <2>2, <3>1 DEF value_at
    <2>4. i \in between
        <3> HIDE DEF between
        <3> QED
            BY <2>2, LeastOf
    <2>5. PICK m \in between : m = i
        BY <2>4
    <2>6. /\ m \in 1 .. Len(s) /\ m + 1 \in 1 .. Len(s) /\ s[m][1] <= t /\ t <= s[m + 1][1]
        BY <1>1
    <2>7. PICK a \in Nat, b \in Nat, v \in Nat, w \in Nat :
            a = s[m][1] /\ b = s[m + 1][1] /\ v = s[m][2] /\ w = s[m + 1][2]
        BY <1>1, <2>6
    <2>8. value_at(s, t) = IF b - a = 0 THEN <<v, 1>>
                           ELSE <<v * (b - a) + (w - v) * (t - a), b - a>>
        BY <2>3, <2>5, <2>7
    <2>9. t = a \/ t = b
        <3>1. CASE k <= m
            BY <1>3, <1>4, <2>6, <2>7, <3>1
        <3>2. CASE m + 1 <= k
            BY <1>3, <1>4, <2>6, <2>7, <3>2
        <3> QED
            BY <2>6, <3>1, <3>2
    <2>10. (t = a => v = s[k][2]) /\ (t = b => w = s[k][2])
        BY <1>2, <2>6, <2>7
    <2>11. CASE b = a
        <3>1. value_at(s, t) = <<v, 1>>
            BY <2>7, <2>8, <2>11
        <3>2. v = s[k][2] /\ v = v * 1
            BY <2>7, <2>9, <2>10, <2>11
        <3> QED
            BY <3>1, <3>2
    <2>12. CASE b # a
        <3>1. PICK d \in Nat : d = b - a /\ d > 0
            <4>1. a <= b
                BY <1>3, <2>6, <2>7
            <4> QED
                BY <2>7, <2>12, <4>1
        <3>2. value_at(s, t) = <<v * d + (w - v) * (t - a), d>>
            <4>1. b - a # 0
                BY <2>7, <2>12
            <4>2. value_at(s, t) = <<v * (b - a) + (w - v) * (t - a), b - a>>
                BY <2>8, <4>1, Zenon
            <4> QED
                BY <3>1, <4>2, Zenon
        <3>3. v * d + (w - v) * (t - a) = s[k][2] * d
            <4>1. CASE t = a
                <5>1. t - a = 0 /\ v = s[k][2]
                    BY <2>7, <2>10, <4>1
                <5>2. v * d + (w - v) * 0 = v * d
                    BY <2>7, <3>1
                <5> QED
                    BY <5>1, <5>2
            <4>2. CASE t = b
                <5>1. t - a = d /\ w = s[k][2]
                    BY <2>10, <3>1, <4>2
                <5>2. v * d + (w - v) * d = w * d
                    BY <2>7, <3>1
                <5> QED
                    BY <5>1, <5>2
            <4> QED
                BY <2>9, <4>1, <4>2
        <3>4. s[k][2] * d \in Nat
            BY <1>1, <3>1
        <3> QED
            BY <3>1, <3>2, <3>3, <3>4
    <2> QED
        BY <2>11, <2>12
<1>7. t <= s[1][1] \/ t > s[1][1]
    BY <1>4
<1> QED
    BY <1>5, <1>6, <1>7, Zenon

\* Between two samples the value grows evenly.
LEMMA ReadBetween ==
    ASSUME NEW s, Recorded(s), NEW i \in 1 .. Len(s) - 1, NEW t \in Nat,
           s[i][1] < t, t < s[i + 1][1]
    PROVE  value_at(s, t) =
               <<s[i][2] * (s[i + 1][1] - s[i][1]) + (s[i + 1][2] - s[i][2]) * (t - s[i][1]),
                 s[i + 1][1] - s[i][1]>>
<1> DEFINE between == {m \in 1 .. Len(s) - 1 : s[m][1] <= t /\ t <= s[m + 1][1]}
<1>1. Len(s) \in Nat /\ \A m \in 1 .. Len(s) : s[m][1] \in Nat /\ s[m][2] \in Nat
    BY SampleTypes
<1>2. \A k, m \in 1 .. Len(s) : k <= m => s[k][1] <= s[m][1]
    BY DEF Recorded, Grows
<1>3. i \in 1 .. Len(s) /\ i + 1 \in 1 .. Len(s) /\ 1 \in 1 .. Len(s)
    BY <1>1
<1>4. s[i][1] \in Nat /\ s[i + 1][1] \in Nat /\ s[1][1] \in Nat /\ s[1][1] <= s[i][1]
    BY <1>1, <1>2, <1>3
<1>5. \A m \in between : m = i
    <2> SUFFICES ASSUME NEW m \in between, m # i PROVE FALSE
        OBVIOUS
    <2>1. m \in 1 .. Len(s) /\ m + 1 \in 1 .. Len(s) /\ s[m][1] \in Nat /\ s[m + 1][1] \in Nat
        BY <1>1
    <2>2. CASE m < i
        <3>1. s[m + 1][1] <= s[i][1]
            BY <1>2, <1>3, <2>1, <2>2
        <3> QED
            BY <1>4, <2>1, <3>1
    <2>3. CASE i < m
        <3>1. s[i + 1][1] <= s[m][1]
            BY <1>2, <1>3, <2>1, <2>3
        <3> QED
            BY <1>4, <2>1, <3>1
    <2> QED
        BY <1>3, <2>1, <2>2, <2>3
<1>6. i \in between
    BY <1>4
<1>7. between # {} /\ Min(between) = i
    <2>1. between = {i}
        BY <1>5, <1>6
    <2>2. i \in Nat
        BY <1>3
    <2> HIDE DEF between
    <2> QED
        BY <2>1, <2>2, LeastOf
<1>8. t > s[1][1] /\ ~ (t <= s[1][1]) /\ s[i + 1][1] - s[i][1] # 0
    BY <1>4
<1> QED
    BY <1>7, <1>8 DEF value_at

\* A reading n / d at time t agrees with a counter that was v at time x.
Agrees(n, d, t, x, v) ==
    /\ x <= t => v * d <= n /\ n <= (v + Cores * (t - x)) * d
    /\ t <= x => n <= v * d /\ v * d <= n + (Cores * (x - t)) * d

\* A value between v and w, a after the one and b before the other, agrees with what was at
\* most v, e before the first,
LEMMA AgreesBefore ==
    ASSUME NEW x \in Nat, NEW v \in Nat, NEW w \in Nat, NEW a \in Nat, NEW b \in Nat, NEW e \in Nat,
           x <= v, v <= x + Cores * e, v <= w, w <= v + Cores * (a + b)
    PROVE  /\ x * (a + b) <= v * (a + b) + (w - v) * a
           /\ v * (a + b) + (w - v) * a <= (x + Cores * (e + a)) * (a + b)
<1>1. PICK d \in Nat, g \in Nat : d = a + b /\ g = w - v
    OBVIOUS
<1>2. PICK k \in Nat, m \in Nat : k = Cores * e /\ m = Cores * d
    BY <1>1, AnalysisConstants
<1>3. x * d <= v * d /\ v * d <= (x + k) * d /\ g * a <= m * a
    <2>1. v <= x + k /\ x + k \in Nat /\ g <= m
        BY <1>1, <1>2
    <2> QED
        BY <1>1, <1>2, <2>1, Scaled
<1>4. x * d \in Nat /\ v * d \in Nat /\ g * a \in Nat /\ (x + k) * d \in Nat /\ m * a \in Nat
    BY <1>1, <1>2
<1>5. (x + k) * d + m * a = (x + Cores * (e + a)) * d
    BY <1>1, <1>2, AnalysisConstants
<1>6. x * d <= v * d + g * a /\ v * d + g * a <= (x + Cores * (e + a)) * d
    BY <1>3, <1>4, <1>5
<1> QED
    BY <1>1, <1>6

\* ... and with what was at least w, e after the second.
LEMMA AgreesAfter ==
    ASSUME NEW x \in Nat, NEW v \in Nat, NEW w \in Nat, NEW a \in Nat, NEW b \in Nat, NEW e \in Nat,
           w <= x, x <= w + Cores * e, v <= w, w <= v + Cores * (a + b)
    PROVE  /\ v * (a + b) + (w - v) * a <= x * (a + b)
           /\ x * (a + b) <= v * (a + b) + (w - v) * a + (Cores * (e + b)) * (a + b)
<1>1. PICK d \in Nat, g \in Nat : d = a + b /\ g = w - v
    OBVIOUS
<1>2. PICK k \in Nat, m \in Nat : k = Cores * e /\ m = Cores * d
    BY <1>1, AnalysisConstants
<1>3. w * d <= x * d /\ x * d <= (w + k) * d /\ g * b <= m * b
    <2>1. x <= w + k /\ w + k \in Nat /\ g <= m
        BY <1>1, <1>2
    <2> QED
        BY <1>1, <1>2, <2>1, Scaled
<1>4. /\ x * d \in Nat /\ w * d \in Nat /\ v * d \in Nat /\ g * a \in Nat /\ g * b \in Nat
      /\ k * d \in Nat /\ m * b \in Nat
    BY <1>1, <1>2
<1>5. w * d = v * d + g * a + g * b /\ (w + k) * d = w * d + k * d
    <2>1. w = v + g
        BY <1>1
    <2> QED
        BY <1>1, <1>2, <2>1
<1>6. k * d + m * b = (Cores * (e + b)) * d
    BY <1>1, <1>2, AnalysisConstants
<1>7. v * d + g * a <= x * d
    BY <1>3, <1>4, <1>5
<1>8. x * d <= v * d + g * a + (k * d + m * b)
    BY <1>3, <1>4, <1>5
<1> QED
    BY <1>1, <1>6, <1>7, <1>8

\* A window is covered if its ends are.
Within(s, t) == \E i, k \in 1 .. Len(s) : s[i][1] <= t /\ t <= s[k][1]

\* Where it is covered, a time is that of a sample or between two neighbours.
LEMMA Neighbours ==
    ASSUME NEW s, Recorded(s), NEW t \in Nat, Within(s, t)
    PROVE  \/ \E k \in 1 .. Len(s) : s[k][1] = t
           \/ \E i \in 1 .. Len(s) - 1 : s[i][1] < t /\ t < s[i + 1][1]
<1> DEFINE T == {k \in 1 .. Len(s) : t <= s[k][1]}
<1>1. Len(s) \in Nat /\ \A i \in 1 .. Len(s) : s[i][1] \in Nat
    BY SampleTypes
<1>2. \A i, k \in 1 .. Len(s) : i <= k => s[i][1] <= s[k][1]
    BY DEF Recorded, Grows
<1>3. PICK k \in T : \A m \in T : k <= m
    <2>1. T # {} /\ \A m \in 1 .. Len(s) : m \in Nat
        BY <1>1 DEF Within
    <2>2. T \subseteq Nat
        BY <2>1
    <2> HIDE DEF T
    <2> QED
        BY <2>1, <2>2, LeastNatural
<1>4. k \in 1 .. Len(s) /\ t <= s[k][1] /\ s[k][1] \in Nat
    BY <1>1
<1>5. CASE s[k][1] = t
    BY <1>5
<1>6. CASE s[k][1] # t
    <2>1. t < s[k][1]
        BY <1>4, <1>6
    <2>2. k # 1
        <3>1. PICK i \in 1 .. Len(s) : s[i][1] <= t
            BY DEF Within
        <3>2. s[i][1] \in Nat /\ s[i][1] < s[k][1]
            BY <1>1, <1>4, <2>1, <3>1
        <3> QED
            BY <1>1, <1>2, <1>4, <3>2
    <2>3. PICK i \in 1 .. Len(s) - 1 : i + 1 = k /\ i \in 1 .. Len(s) /\ i < k
        <3>1. k - 1 \in 1 .. Len(s) - 1 /\ (k - 1) + 1 = k /\ k - 1 \in 1 .. Len(s) /\ k - 1 < k
            BY <1>1, <1>4, <2>2
        <3> QED
            BY <3>1
    <2>4. i \notin T
        BY <1>1, <1>3, <1>4, <2>3
    <2>5. s[i][1] < t
        BY <1>1, <2>3, <2>4
    <2> QED
        BY <2>1, <2>3, <2>5
<1> QED
    BY <1>5, <1>6

\* A reading agrees with every sample.
LEMMA ReadingsAgree ==
    ASSUME NEW s, Recorded(s), NEW t \in Nat, Within(s, t)
    PROVE  \E n \in Nat, d \in Nat :
               /\ d > 0 /\ value_at(s, t) = <<n, d>>
               /\ \A k \in 1 .. Len(s) : Agrees(n, d, t, s[k][1], s[k][2])
<1>1. Len(s) \in Nat /\ \A i \in 1 .. Len(s) : s[i][1] \in Nat /\ s[i][2] \in Nat
    BY SampleTypes
<1>2. ASSUME NEW m \in 1 .. Len(s), s[m][1] = t
      PROVE  \E n \in Nat, d \in Nat :
                 /\ d > 0 /\ value_at(s, t) = <<n, d>>
                 /\ \A k \in 1 .. Len(s) : Agrees(n, d, t, s[k][1], s[k][2])
    <2>1. PICK n \in Nat, d \in Nat : d > 0 /\ value_at(s, t) = <<n, d>> /\ n = s[m][2] * d
        BY <1>2, ReadAtSample
    <2>2. ASSUME NEW k \in 1 .. Len(s) PROVE Agrees(n, d, t, s[k][1], s[k][2])
        <3>1. PICK x \in Nat, v \in Nat, w \in Nat : x = s[k][1] /\ v = s[k][2] /\ w = s[m][2]
            BY <1>1
        <3>2. ASSUME x <= t PROVE v * d <= w * d /\ w * d <= (v + Cores * (t - x)) * d
            <4>1. v <= w /\ w + Cores * x <= v + Cores * t
                BY <1>2, <3>1, <3>2, ByTime
            <4>2. PICK e \in Nat : e = t - x
                BY <3>2
            <4>3. Cores * t = Cores * x + Cores * e /\ Cores * x \in Nat /\ Cores * e \in Nat
                BY <4>2, AnalysisConstants
            <4>4. w <= v + Cores * e
                BY <4>1, <4>3
            <4> QED
                BY <4>1, <4>2, <4>3, <4>4, Scaled
        <3>3. ASSUME t <= x PROVE w * d <= v * d /\ v * d <= w * d + (Cores * (x - t)) * d
            <4>1. w <= v /\ v + Cores * t <= w + Cores * x
                BY <1>2, <3>1, <3>3, ByTime
            <4>2. PICK e \in Nat : e = x - t
                BY <3>3
            <4>3. Cores * x = Cores * t + Cores * e /\ Cores * t \in Nat /\ Cores * e \in Nat
                BY <4>2, AnalysisConstants
            <4>4. v <= w + Cores * e
                BY <4>1, <4>3
            <4>5. v * d <= (w + Cores * e) * d
                BY <4>3, <4>4, Scaled
            <4>6. (w + Cores * e) * d = w * d + (Cores * e) * d
                BY <4>3
            <4> QED
                BY <4>1, <4>2, <4>5, <4>6, Scaled
        <3> QED
            BY <2>1, <3>1, <3>2, <3>3 DEF Agrees
    <2> QED
        BY <2>1, <2>2
<1>3. ASSUME NEW i \in 1 .. Len(s) - 1, s[i][1] < t, t < s[i + 1][1]
      PROVE  \E n \in Nat, d \in Nat :
                 /\ d > 0 /\ value_at(s, t) = <<n, d>>
                 /\ \A k \in 1 .. Len(s) : Agrees(n, d, t, s[k][1], s[k][2])
    <2>1. i \in 1 .. Len(s) /\ i + 1 \in 1 .. Len(s)
        BY <1>1
    <2>2. PICK y \in Nat, z \in Nat, v \in Nat, w \in Nat :
            y = s[i][1] /\ z = s[i + 1][1] /\ v = s[i][2] /\ w = s[i + 1][2]
        BY <1>1, <2>1
    <2>3. PICK a \in Nat, b \in Nat : a = t - y /\ b = z - t /\ a > 0
        BY <1>3, <2>2
    <2>4. z - y = a + b /\ t - y = a /\ z = t + b
        BY <2>3
    <2>5. value_at(s, t) = <<v * (a + b) + (w - v) * a, a + b>>
        <3>1. value_at(s, t) = <<v * (z - y) + (w - v) * (t - y), z - y>>
            BY <1>3, <2>2, ReadBetween
        <3> QED
            BY <2>4, <3>1
    <2>6. v <= w /\ w <= v + Cores * (a + b)
        <3>1. y <= z
            BY <1>3, <2>2
        <3>2. v <= w /\ w + Cores * y <= v + Cores * z
            BY <2>1, <2>2, <3>1, ByTime
        <3>3. z = y + (a + b)
            BY <2>2, <2>4
        <3>4. Cores * z = Cores * y + Cores * (a + b) /\ Cores * y \in Nat /\ Cores * (a + b) \in Nat
            BY <2>3, <3>3, AnalysisConstants
        <3> QED
            BY <3>2, <3>4
    <2>7. PICK g \in Nat : g = w - v
        BY <2>6
    <2>8. PICK n \in Nat, d \in Nat : n = v * (a + b) + (w - v) * a /\ d = a + b /\ d > 0
        <3>1. v * (a + b) + g * a \in Nat
            BY <2>7
        <3> QED
            BY <2>3, <2>7, <3>1
    <2>9. ASSUME NEW k \in 1 .. Len(s) PROVE Agrees(n, d, t, s[k][1], s[k][2])
        <3>1. PICK x \in Nat, u \in Nat : x = s[k][1] /\ u = s[k][2]
            BY <1>1
        <3>2. ASSUME x <= t PROVE Agrees(n, d, t, x, u)
            <4>1. x <= y
                <5>1. k < i + 1
                    <6> SUFFICES ASSUME i + 1 <= k PROVE FALSE
                        BY <1>1, <2>1
                    <6>1. z <= x
                        BY <2>1, <2>2, <3>1 DEF Recorded, Grows
                    <6> QED
                        BY <1>3, <2>2, <3>2, <6>1
                <5>2. k <= i
                    BY <5>1
                <5> QED
                    BY <2>1, <2>2, <3>1, <5>2 DEF Recorded, Grows
            <4>2. u <= v /\ v + Cores * x <= u + Cores * y
                BY <2>1, <2>2, <3>1, <4>1, ByTime
            <4>3. PICK e \in Nat : e = y - x
                BY <4>1
            <4>4. y = x + e
                BY <4>3
            <4>5. Cores * y = Cores * x + Cores * e /\ Cores * x \in Nat /\ Cores * e \in Nat
                BY <4>4, AnalysisConstants
            <4>6. v <= u + Cores * e
                BY <4>2, <4>5
            <4>7. u * (a + b) <= n /\ n <= (u + Cores * (e + a)) * (a + b)
                BY <2>6, <2>8, <4>2, <4>6, AgreesBefore
            <4>8. e + a = t - x /\ x # t
                BY <2>3, <4>3
            <4> QED
                BY <2>8, <3>2, <4>7, <4>8 DEF Agrees
        <3>3. ASSUME t <= x PROVE Agrees(n, d, t, x, u)
            <4>1. z <= x
                <5>1. i < k
                    <6> SUFFICES ASSUME k <= i PROVE FALSE
                        BY <1>1, <2>1
                    <6>1. x <= y
                        BY <2>1, <2>2, <3>1 DEF Recorded, Grows
                    <6> QED
                        BY <1>3, <2>2, <3>3, <6>1
                <5>2. i + 1 <= k
                    BY <5>1
                <5> QED
                    BY <2>1, <2>2, <3>1, <5>2 DEF Recorded, Grows
            <4>2. w <= u /\ u + Cores * z <= w + Cores * x
                BY <2>1, <2>2, <3>1, <4>1, ByTime
            <4>3. PICK e \in Nat : e = x - z
                BY <4>1
            <4>4. x = z + e
                BY <4>3
            <4>5. Cores * x = Cores * z + Cores * e /\ Cores * z \in Nat /\ Cores * e \in Nat
                BY <4>4, AnalysisConstants
            <4>6. u <= w + Cores * e
                BY <4>2, <4>5
            <4>7. n <= u * (a + b) /\ u * (a + b) <= n + (Cores * (e + b)) * (a + b)
                BY <2>6, <2>8, <4>2, <4>6, AgreesAfter
            <4>8. e + b = x - t /\ x # t
                <5>1. t < z
                    BY <1>3, <2>2
                <5> QED
                    BY <2>4, <4>4, <5>1
            <4> QED
                BY <2>8, <3>3, <4>7, <4>8 DEF Agrees
        <3> QED
            BY <3>1, <3>2, <3>3
    <2> QED
        BY <2>5, <2>8, <2>9
<1> QED
    BY <1>2, <1>3, Neighbours

\* What two readings differ by, if each is known to be above or below something.
LEMMA Difference ==
    ASSUME NEW i \in Nat, NEW d \in Nat, NEW k \in Nat, NEW e \in Nat,
           NEW x \in Nat, NEW y \in Nat
    PROVE  /\ k <= y * e /\ x * d <= i => k * d - i * e <= (y - x) * (e * d)
           /\ x * e <= k /\ i <= y * d => k * d - i * e >= (x - y) * (e * d)
<1>1. /\ (y - x) * (e * d) = (y * e) * d - (x * d) * e
      /\ (x - y) * (e * d) = (x * e) * d - (y * d) * e
    OBVIOUS
<1>2. /\ y * e \in Nat /\ x * d \in Nat /\ x * e \in Nat /\ y * d \in Nat
      /\ k * d \in Nat /\ i * e \in Nat
    OBVIOUS
<1>3. ASSUME k <= y * e, x * d <= i PROVE k * d - i * e <= (y - x) * (e * d)
    <2>1. k * d <= (y * e) * d /\ (x * d) * e <= i * e
        BY <1>2, <1>3, Scaled
    <2>2. (y * e) * d \in Nat /\ (x * d) * e \in Nat
        BY <1>2
    <2> QED
        BY <1>1, <1>2, <2>1, <2>2
<1>4. ASSUME x * e <= k, i <= y * d PROVE k * d - i * e >= (x - y) * (e * d)
    <2>1. (x * e) * d <= k * d /\ i * e <= (y * d) * e
        BY <1>2, <1>4, Scaled
    <2>2. (x * e) * d \in Nat /\ (y * d) * e \in Nat
        BY <1>2
    <2> QED
        BY <1>1, <1>2, <2>1, <2>2
<1> QED
    BY <1>3, <1>4

\* With a sample in the window, both readings agree with it, a after its start and b before
\* its end.
LEMMA SampleInside ==
    ASSUME NEW i \in Nat, NEW d \in Nat, NEW k \in Nat, NEW e \in Nat,
           NEW v \in Nat, NEW a \in Nat, NEW b \in Nat,
           i <= v * d, v * d <= i + (Cores * a) * d, v * e <= k, k <= (v + Cores * b) * e
    PROVE  0 <= k * d - i * e /\ k * d - i * e <= Cores * (a + b) * (e * d)
<1>1. PICK m \in Nat, n \in Nat : m = Cores * a /\ n = Cores * b
    BY AnalysisConstants
<1>2. k * d - i * e >= (v - v) * (e * d)
    BY Difference
<1>3. (v - v) * (e * d) = 0 /\ k * d \in Nat /\ i * e \in Nat
    OBVIOUS
<1>4. k * d <= ((v + n) * e) * d /\ (v * d) * e <= (i + m * d) * e
    <2>1. (v + n) * e \in Nat /\ v * d \in Nat /\ i + m * d \in Nat
        BY <1>1
    <2> QED
        BY <1>1, <2>1, Scaled
<1>5. /\ ((v + n) * e) * d = (v * d) * e + n * (e * d)
      /\ (i + m * d) * e = i * e + m * (e * d)
      /\ Cores * (a + b) * (e * d) = m * (e * d) + n * (e * d)
    BY <1>1, AnalysisConstants
<1>6. (v * d) * e \in Nat /\ m * (e * d) \in Nat /\ n * (e * d) \in Nat
    BY <1>1
<1>7. 0 <= k * d - i * e
    BY <1>2, <1>3
<1>8. k * d - i * e <= m * (e * d) + n * (e * d)
    BY <1>3, <1>4, <1>5, <1>6
<1> QED
    BY <1>5, <1>7, <1>8

\* Without one, both are on the same straight line: from v up by g in d.
LEMMA NoneInside ==
    ASSUME NEW d \in Nat, NEW v \in Nat, NEW g \in Nat, g <= Cores * d, NEW a \in Nat, NEW b \in Nat
    PROVE  LET i == v * d + g * a
               k == v * d + g * (a + b)
           IN  0 <= k * d - i * d /\ k * d - i * d <= Cores * b * (d * d)
<1>1. PICK m \in Nat : m = Cores * d
    BY AnalysisConstants
<1>2. (v * d + g * (a + b)) * d - (v * d + g * a) * d = (g * b) * d
    OBVIOUS
<1>3. (g * b) * d \in Nat
    OBVIOUS
<1>4. (g * b) * d <= (m * b) * d
    <2>1. g * b <= m * b /\ g * b \in Nat /\ m * b \in Nat
        BY <1>1, Scaled
    <2> QED
        BY <2>1, Scaled
<1>5. (m * b) * d = Cores * b * (d * d)
    BY <1>1, AnalysisConstants
<1> QED
    BY <1>2, <1>3, <1>4, <1>5

\* The least and the greatest of some samples are samples.
LEMMA CpuExtremes ==
    ASSUME NEW s, Recorded(s), NEW S, S \subseteq 1 .. Len(s), S # {}
    PROVE  \E i, k \in S : /\ Min({s[m][2] : m \in S}) = s[i][2]
                           /\ Max({s[m][2] : m \in S}) = s[k][2]
<1> DEFINE T == {s[m][2] : m \in S}
           f == [m \in S |-> s[m][2]]
<1>1. Len(s) \in Nat /\ \A m \in S : s[m][2] \in Nat
    BY SampleTypes
<1>2. T # {} /\ T \subseteq Nat /\ \A x \in T : x \in Nat
    BY <1>1
<1>3. IsFiniteSet(T)
    <2>1. IsFiniteSet(1 .. Len(s))
        <3>1. PICK n \in Nat : n = Len(s)
            BY <1>1
        <3>2. 1 \in Int /\ n \in Int
            OBVIOUS
        <3> QED
            BY <3>1, <3>2, FS_Interval
    <2>2. IsFiniteSet(S)
        BY <2>1, FS_Subset
    <2>3. f \in Surjection(S, T)
        BY DEF Surjection
    <2> HIDE DEF f, T
    <2> QED
        BY <2>2, <2>3, FS_Surjection
<1>4. Min(T) \in T
    <2> HIDE DEF T
    <2> QED
        BY <1>2, LeastOf
<1>5. Max(T) \in T
    <2> HIDE DEF T
    <2> QED
        BY <1>2, <1>3, GreatestOf
<1> QED
    BY <1>4, <1>5

\* The CPU of a window that samples cover is what they tell, and no more than there was.
LEMMA WindowMeasured ==
    ASSUME Recorded(samples), NEW from \in Nat, NEW to \in Nat, from < to, Covers(samples, from, to)
    PROVE  LET u == Used(samples, from, to)
               cpu(S) == {samples[i][2] : i \in S}
               earlier(t) == {i \in DOMAIN samples : samples[i][1] <= t}
               later(t) == {i \in DOMAIN samples : samples[i][1] >= t}
           IN  /\ earlier(from) # {} /\ later(to) # {}
               /\ u[1] <= (Min(cpu(later(to))) - Max(cpu(earlier(from)))) * u[2]
               /\ u[1] >= (Max(cpu(earlier(to))) - Min(cpu(later(from)))) * u[2]
               /\ u[1] >= 0 /\ u[1] <= Cores * (to - from) * u[2]
<1>0. PICK s : s = samples
    OBVIOUS
<1> DEFINE D == 1 .. Len(s)
           cpu(S) == {s[i][2] : i \in S}
           NotAfter(t) == {i \in D : s[i][1] <= t}
           NotBefore(t) == {i \in D : s[i][1] >= t}
           u == Used(s, from, to)
<1>1. Recorded(s) /\ Covers(s, from, to)
    BY <1>0
<1>2. Len(s) \in Nat /\ (\A i \in D : s[i][1] \in Nat /\ s[i][2] \in Nat) /\ DOMAIN s = D
    BY <1>1, SampleTypes DEF Recorded
<1>3. 1 \in D /\ Len(s) \in D /\ s[1][1] <= from /\ to <= s[Len(s)][1]
    BY <1>1, <1>2 DEF Covers
<1>4. from <= s[Len(s)][1] /\ s[1][1] <= to
    BY <1>2, <1>3
<1>5. Within(s, from) /\ Within(s, to)
    BY <1>3, <1>4 DEF Within
<1>6. PICK i \in Nat, d \in Nat :
            /\ d > 0 /\ value_at(s, from) = <<i, d>>
            /\ \A m \in D : Agrees(i, d, from, s[m][1], s[m][2])
    BY <1>1, <1>5, ReadingsAgree
<1>7. PICK k \in Nat, e \in Nat :
            /\ e > 0 /\ value_at(s, to) = <<k, e>>
            /\ \A m \in D : Agrees(k, e, to, s[m][1], s[m][2])
    BY <1>1, <1>5, ReadingsAgree
<1>8. u = <<k * d - i * e, e * d>>
    BY <1>6, <1>7 DEF Used, Minus
<1>9. u[1] = k * d - i * e /\ u[2] = e * d
    BY <1>8
<1>10. NotAfter(from) # {} /\ NotBefore(to) # {} /\ NotAfter(to) # {} /\ NotBefore(from) # {}
    <2>1. 1 \in NotAfter(from) /\ 1 \in NotAfter(to)
        BY <1>3, <1>4
    <2>2. Len(s) \in NotBefore(to) /\ Len(s) \in NotBefore(from)
        BY <1>2, <1>3, <1>4
    <2> QED
        BY <2>1, <2>2
<1>11. ASSUME NEW m \in NotAfter(from), NEW n \in NotBefore(to)
       PROVE  k * d - i * e <= (s[n][2] - s[m][2]) * (e * d)
    <2>1. /\ m \in D /\ n \in D /\ s[m][1] <= from /\ to <= s[n][1]
          /\ s[m][2] \in Nat /\ s[n][2] \in Nat
        BY <1>2
    <2>2. s[m][2] * d <= i /\ k <= s[n][2] * e
        BY <1>6, <1>7, <2>1 DEF Agrees
    <2> QED
        BY <2>1, <2>2, Difference
<1>12. ASSUME NEW m \in NotAfter(to), NEW n \in NotBefore(from)
       PROVE  k * d - i * e >= (s[m][2] - s[n][2]) * (e * d)
    <2>1. /\ m \in D /\ n \in D /\ s[m][1] <= to /\ from <= s[n][1]
          /\ s[m][2] \in Nat /\ s[n][2] \in Nat
        BY <1>2
    <2>2. s[m][2] * e <= k /\ i <= s[n][2] * d
        BY <1>6, <1>7, <2>1 DEF Agrees
    <2> QED
        BY <2>1, <2>2, Difference
<1>13. 0 <= k * d - i * e /\ k * d - i * e <= Cores * (to - from) * (e * d)
    <2>1. ASSUME NEW m \in D, from <= s[m][1], s[m][1] <= to
          PROVE  0 <= k * d - i * e /\ k * d - i * e <= Cores * (to - from) * (e * d)
        <3>1. PICK x \in Nat, v \in Nat : x = s[m][1] /\ v = s[m][2]
            BY <1>2
        <3>2. PICK a \in Nat, b \in Nat : a = x - from /\ b = to - x
            <4>1. from <= x /\ x <= to
                BY <2>1, <3>1
            <4>2. x - from \in Nat /\ to - x \in Nat
                BY <4>1
            <4> QED
                BY <4>2
        <3>3. i <= v * d /\ v * d <= i + (Cores * a) * d
            BY <1>6, <2>1, <3>1, <3>2 DEF Agrees
        <3>4. v * e <= k /\ k <= (v + Cores * b) * e
            BY <1>7, <2>1, <3>1, <3>2 DEF Agrees
        <3>5. a + b = to - from
            BY <3>2
        <3>6. 0 <= k * d - i * e /\ k * d - i * e <= Cores * (a + b) * (e * d)
            BY <3>3, <3>4, SampleInside
        <3> QED
            BY <3>5, <3>6
    <2>2. ASSUME \A m \in D : ~ (from <= s[m][1] /\ s[m][1] <= to)
          PROVE  0 <= k * d - i * e /\ k * d - i * e <= Cores * (to - from) * (e * d)
        <3>1. PICK m \in 1 .. Len(s) - 1 : s[m][1] < from /\ from < s[m + 1][1]
            <4>1. \A m \in D : s[m][1] # from
                <5> SUFFICES ASSUME NEW m \in D, s[m][1] = from PROVE FALSE
                    OBVIOUS
                <5>1. from <= s[m][1] /\ s[m][1] <= to
                    OBVIOUS
                <5> QED
                    BY <2>2, <5>1
            <4> QED
                BY <1>1, <1>5, <4>1, Neighbours
        <3>2. m \in D /\ m + 1 \in D
            BY <1>2
        <3>3. PICK y \in Nat, z \in Nat, v \in Nat, w \in Nat :
                y = s[m][1] /\ z = s[m + 1][1] /\ v = s[m][2] /\ w = s[m + 1][2]
            BY <1>2, <3>2
        <3>4. y < from /\ y < to /\ from < z /\ to < z /\ y <= z
            BY <2>2, <3>1, <3>2, <3>3
        <3>5. PICK span \in Nat, a \in Nat, b \in Nat :
                span = z - y /\ a = from - y /\ b = to - from /\ to - y = a + b
            BY <3>4
        <3>6. v <= w /\ w + Cores * y <= v + Cores * z
            BY <1>1, <3>2, <3>3, <3>4, ByTime
        <3>7. PICK g \in Nat : g = w - v
            BY <3>6
        <3>8. g <= Cores * span
            <4>1. z = y + span /\ w = v + g
                BY <3>5, <3>7
            <4>2. Cores * z = Cores * y + Cores * span /\ Cores * y \in Nat /\ Cores * span \in Nat
                BY <4>1, AnalysisConstants
            <4> QED
                BY <3>6, <4>1, <4>2
        <3>9. value_at(s, from) = <<v * span + g * a, span>>
            <4>1. value_at(s, from) = <<v * (z - y) + (w - v) * (from - y), z - y>>
                BY <1>1, <3>1, <3>3, ReadBetween
            <4> QED
                BY <3>5, <3>7, <4>1
        <3>10. value_at(s, to) = <<v * span + g * (a + b), span>>
            <4>1. value_at(s, to) = <<v * (z - y) + (w - v) * (to - y), z - y>>
                BY <1>1, <3>3, <3>4, ReadBetween
            <4> QED
                BY <3>5, <3>7, <4>1
        <3>11. d = span /\ e = span /\ i = v * span + g * a /\ k = v * span + g * (a + b)
            BY <1>6, <1>7, <3>9, <3>10
        <3> QED
            BY <3>5, <3>8, <3>11, NoneInside
    <2> QED
        BY <2>1, <2>2
<1> HIDE DEF NotAfter, NotBefore, u
<1>14. NotAfter(from) \subseteq D /\ NotBefore(to) \subseteq D /\ NotAfter(to) \subseteq D
       /\ NotBefore(from) \subseteq D
    BY DEF NotAfter, NotBefore
<1>15. u[1] <= (Min(cpu(NotBefore(to))) - Max(cpu(NotAfter(from)))) * u[2]
    <2>1. PICK m \in NotAfter(from) : Max(cpu(NotAfter(from))) = s[m][2]
        BY <1>1, <1>10, <1>14, CpuExtremes
    <2>2. PICK n \in NotBefore(to) : Min(cpu(NotBefore(to))) = s[n][2]
        BY <1>1, <1>10, <1>14, CpuExtremes
    <2> QED
        BY <1>9, <1>11, <2>1, <2>2
<1>16. u[1] >= (Max(cpu(NotAfter(to))) - Min(cpu(NotBefore(from)))) * u[2]
    <2>1. PICK m \in NotAfter(to) : Max(cpu(NotAfter(to))) = s[m][2]
        BY <1>1, <1>10, <1>14, CpuExtremes
    <2>2. PICK n \in NotBefore(from) : Min(cpu(NotBefore(from))) = s[n][2]
        BY <1>1, <1>10, <1>14, CpuExtremes
    <2> QED
        BY <1>9, <1>12, <2>1, <2>2
<1>17. u[1] >= 0 /\ u[1] <= Cores * (to - from) * u[2]
    BY <1>9, <1>13
<1> QED
    BY <1>0, <1>2, <1>10, <1>15, <1>16, <1>17 DEF NotAfter, NotBefore, u

\* The inductive invariant: calls are counted, and the counter is one of CPU.
FiguresInv == CallTypes /\ Recorded(samples)

\* Nothing is sampled at first.
LEMMA FiguresInit == AnalysisInit => FiguresInv
<1> SUFFICES ASSUME AnalysisInit PROVE FiguresInv
    OBVIOUS
<1>1. CallTypes
    <2>1. PICK e \in Earlier :
            calls = [[p \in Producers |-> NoCalls] EXCEPT ![CHOOSE p \in Producers : TRUE] = e]
        BY DEF AnalysisInit
    <2>2. e \in [Latencies -> Nat] /\ NoCalls \in [Latencies -> Nat]
        BY AnalysisAssumption DEF NoCalls
    <2> QED
        BY <2>1, <2>2 DEF CallTypes
<1>2. samples = <<>> /\ <<>> \in Seq(Nat \X Nat)
    BY DEF AnalysisInit
<1>3. Grows(<<>>)
    BY DEF Grows
<1> QED
    BY <1>1, <1>2, <1>3 DEF FiguresInv, Recorded

\* A later sample goes on from the last.
LEMMA NextSample ==
    ASSUME NEW s, Recorded(s), NEW y \in Nat, NEW v \in Nat,
           s # <<>> => /\ s[Len(s)][1] <= y /\ s[Len(s)][2] <= v
                       /\ v + Cores * s[Len(s)][1] <= s[Len(s)][2] + Cores * y
    PROVE  Recorded(Append(s, <<y, v>>))
<1> DEFINE t == Append(s, <<y, v>>)
<1>1. s \in Seq(Nat \X Nat) /\ <<y, v>> \in Nat \X Nat
    BY DEF Recorded
<1>2. t \in Seq(Nat \X Nat)
    BY <1>1
<1>3. PICK n \in Nat : n = Len(s)
    BY <1>1
<1>4. Len(t) = n + 1 /\ t[n + 1] = <<y, v>> /\ \A i \in 1 .. n : t[i] = s[i]
    BY <1>1, <1>3
<1>5. n = 0 <=> s = <<>>
    BY <1>1, <1>3
<1> HIDE DEF t
<1>6. ASSUME NEW i \in 1 .. n + 1, NEW k \in 1 .. n + 1, i <= k
      PROVE  /\ t[i][1] <= t[k][1] /\ t[i][2] <= t[k][2]
             /\ t[k][2] + Cores * t[i][1] <= t[i][2] + Cores * t[k][1]
    <2>1. CASE k <= n
        <3>1. i \in 1 .. n /\ k \in 1 .. n
            BY <1>6, <2>1
        <3> QED
            BY <1>3, <1>4, <1>6, <3>1 DEF Recorded, Grows
    <2>2. CASE k = n + 1 /\ i = n + 1
        <3>1. t[k][1] = y /\ t[k][2] = v /\ Cores * y \in Nat
            BY <1>4, <2>2, AnalysisConstants
        <3> QED
            BY <2>2, <3>1
    <2>3. CASE k = n + 1 /\ i <= n
        <3>1. i \in 1 .. n /\ n \in 1 .. n /\ i <= n
            BY <2>3
        <3>2. PICK a \in Nat, b \in Nat, x \in Nat, w \in Nat :
                a = s[i][1] /\ b = s[i][2] /\ x = s[n][1] /\ w = s[n][2]
            BY <1>3, <3>1, SampleTypes
        <3>3. a <= x /\ b <= w /\ w + Cores * a <= b + Cores * x
            BY <1>3, <3>1, <3>2 DEF Recorded, Grows
        <3>4. x <= y /\ w <= v /\ v + Cores * x <= w + Cores * y
            BY <1>3, <1>5, <3>1, <3>2
        <3>5. Cores * a \in Nat /\ Cores * x \in Nat /\ Cores * y \in Nat
            BY AnalysisConstants
        <3>6. a <= y /\ b <= v /\ v + Cores * a <= b + Cores * y
            BY <3>3, <3>4, <3>5
        <3>7. t[k][1] = y /\ t[k][2] = v /\ t[i][1] = a /\ t[i][2] = b
            BY <1>4, <2>3, <3>1, <3>2
        <3> QED
            BY <3>6, <3>7
    <2> QED
        BY <2>1, <2>2, <2>3
<1>7. Grows(t)
    BY <1>4, <1>6 DEF Grows
<1> QED
    BY <1>2, <1>7 DEF Recorded, t

\* Calls and samples keep it.
LEMMA FiguresStep == FiguresInv /\ [AnalysisNext]_analysisVars => FiguresInv'
<1> SUFFICES ASSUME FiguresInv, [AnalysisNext]_analysisVars PROVE FiguresInv'
    OBVIOUS
<1>1. ASSUME NEW p \in Producers, NEW v \in Latencies, NEW k \in Steps, Call(p, v, k)
      PROVE  FiguresInv'
    <2>1. k \in Nat
        BY AnalysisAssumption
    <2>2. CallTypes'
        BY <1>1, <2>1 DEF FiguresInv, CallTypes, Call
    <2>3. samples' = samples
        BY <1>1 DEF Call
    <2> QED
        BY <2>2, <2>3 DEF FiguresInv, Recorded, Grows
<1>2. ASSUME NEW dt \in 0 .. MaxTime, NEW dv \in 0 .. Cores * dt, Sample(dt, dv)
      PROVE  FiguresInv'
    <2>1. PICK s : s = samples
        OBVIOUS
    <2>2. Recorded(s) /\ dt \in Nat /\ dv \in Nat /\ dv <= Cores * dt /\ Cores * dt \in Nat
        BY <2>1, AnalysisAssumption DEF FiguresInv
    <2>3. s \in Seq(Nat \X Nat)
        BY <2>2 DEF Recorded
    <2>4. PICK y \in Nat, v \in Nat :
            /\ samples' = Append(s, <<y, v>>)
            /\ s # <<>> => y = s[Len(s)][1] + dt /\ v = s[Len(s)][2] + dv
        <3>1. CASE s = <<>>
            <4>1. samples' = Append(s, <<0 + dt, 0 + dv>>)
                BY <1>2, <2>1, <3>1 DEF Sample
            <4> QED
                BY <2>2, <3>1, <4>1
        <3>2. CASE s # <<>>
            <4>1. samples' = Append(s, <<s[Len(s)][1] + dt, s[Len(s)][2] + dv>>)
                BY <1>2, <2>1, <3>2 DEF Sample, Last
            <4>2. s[Len(s)][1] \in Nat /\ s[Len(s)][2] \in Nat
                <5>1. Len(s) \in 1 .. Len(s)
                    BY <2>3, <3>2
                <5> QED
                    BY <2>2, <5>1, SampleTypes
            <4>3. s[Len(s)][1] + dt \in Nat /\ s[Len(s)][2] + dv \in Nat
                BY <2>2, <4>2
            <4> QED
                BY <4>1, <4>3
        <3> QED
            BY <3>1, <3>2
    <2>5. s # <<>> => /\ s[Len(s)][1] <= y /\ s[Len(s)][2] <= v
                      /\ v + Cores * s[Len(s)][1] <= s[Len(s)][2] + Cores * y
        <3> SUFFICES ASSUME s # <<>>
                     PROVE  /\ s[Len(s)][1] <= y /\ s[Len(s)][2] <= v
                            /\ v + Cores * s[Len(s)][1] <= s[Len(s)][2] + Cores * y
            OBVIOUS
        <3>1. Len(s) \in 1 .. Len(s)
            BY <2>3
        <3>2. PICK a \in Nat, b \in Nat : a = s[Len(s)][1] /\ b = s[Len(s)][2]
            BY <2>2, <3>1, SampleTypes
        <3>3. y = a + dt /\ v = b + dv
            BY <2>4, <3>2
        <3>4. Cores * y = Cores * a + Cores * dt /\ Cores * a \in Nat
            BY <2>2, <3>3, AnalysisConstants
        <3>5. a <= y /\ b <= v /\ v + Cores * a <= b + Cores * y
            BY <2>2, <3>3, <3>4
        <3> QED
            BY <3>2, <3>5
    <2>6. Recorded(Append(s, <<y, v>>))
        BY <2>2, <2>5, NextSample
    <2>7. PICK t : t = samples' /\ Recorded(t)
        BY <2>4, <2>6
    <2>8. Recorded(samples)'
        BY <2>7 DEF Recorded, Grows
    <2>9. calls' = calls
        BY <1>2 DEF Sample
    <2> QED
        BY <2>8, <2>9 DEF FiguresInv, CallTypes
<1>3. ASSUME UNCHANGED analysisVars PROVE FiguresInv'
    BY <1>3 DEF FiguresInv, CallTypes, Recorded, Grows, analysisVars
<1> QED
    BY <1>1, <1>2, <1>3 DEF AnalysisNext, Producing, Sampling

\* The invariant is of the calls and samples alone.
LEMMA FiguresHold == FiguresInv => FiguresTrue
<1> SUFFICES ASSUME FiguresInv PROVE FiguresTrue
    OBVIOUS
<1>1. IsNearestRank
    BY PercentilesRight DEF FiguresInv
<1>2. BusyIsMeasured
    <2>1. Recorded(samples) /\ \A t \in 0 .. MaxTime : t \in Nat
        BY AnalysisAssumption DEF FiguresInv
    <2> QED
        BY <2>1, WindowMeasured DEF BusyIsMeasured
<1> QED
    BY <1>1, <1>2 DEF FiguresTrue

\* What a report says of latency and of CPU is what was measured, for any producers, latencies,
\* width of a bucket and number of calls, and for samples of any number at any times:
\* percentiles of merged histograms are the buckets of the nearest ranks, the loop that looks
\* for one finds it, and the CPU of a window is that of the samples around it.
THEOREM FiguresAreTrue == AnalysisSpec => []FiguresTrue
<1> QED
    BY FiguresInit, FiguresStep, FiguresHold, PTL DEF AnalysisSpec

-----------------------------------------------------------------------------
(* The harness as a whole *)

\* The part that runs satisfies its invariant, and the others rest; figures and sessions have
\* theirs from the start.
HarnessInv ==
    /\ IF part = "run" THEN ChaosInv /\ AlarmInv ELSE ChaosRest
    /\ IF part = "verdict" THEN VerdictInv ELSE VerdictRest
    /\ IF part = "hosts" THEN LoadInv ELSE LoadgenRest
    /\ IF part = "producer" THEN CountInv ELSE PacingRest
    /\ FiguresInv /\ SessionInv

\* What every part is for, as far as it asks nothing of the rate.
HarnessSafe ==
    /\ VerifiedAtRest /\ DrainUndisturbed /\ AlarmsRight /\ VerdictRight
    /\ OkIsTrue /\ FiguresTrue /\ PointIsOneRun

\* The states of the parts at rest.
LEMMA RestTypes ==
    /\ ChaosRest => ChaosTypeOK
    /\ VerdictRest => VerdictTypeOK
    /\ LoadgenRest => LoadgenTypeOK
    /\ PacingRest => PacingTypeOK
<1>1. ASSUME ChaosRest PROVE ChaosTypeOK
    <2>1. starting = {} /\ Cardinality(starting) = 0
        BY <1>1, FS_EmptySet DEF ChaosRest
    <2> QED
        BY <1>1, <2>1, ChaosAssumption DEF ChaosRest, ChaosTypeOK, Code
<1>2. ASSUME VerdictRest PROVE VerdictTypeOK
    <2>1. "normal" \in KindName
        BY DEF KindName, Kinds
    <2>2. <<>> \in Seq(DlqEntry)
        OBVIOUS
    <2>3. \A j \in Job : job[j] \in JobState /\ job[j].count = 0
        BY <1>2, <2>1, <2>2, Sizes DEF VerdictRest, JobState
    <2> QED
        BY <1>2, <2>3, Sizes DEF VerdictRest, VerdictTypeOK
<1>3. ASSUME LoadgenRest PROVE LoadgenTypeOK
    <2>1. <<>> \in Seq(Host) /\ <<>> \in Seq(Summary)
        OBVIOUS
    <2>2. /\ at \in [Hosts -> Places] /\ loadJob \in [LoadJob -> JobPlaces]
          /\ at[Coordinator] = "ended"
        BY <1>3 DEF LoadgenRest, Places, JobPlaces, Hosts
    <2>3. {spec, start, empty, drained, ok} \subseteq BOOLEAN /\ reported \in BOOLEAN
        BY <1>3 DEF LoadgenRest
    <2>4. hostCrashes \in 0 .. MaxHostCrashes /\ lost \in 0 .. MaxLost
        BY <1>3, LoadgenAssumption DEF LoadgenRest
    <2> QED
        BY <1>3, <2>1, <2>2, <2>3, <2>4 DEF LoadgenRest, LoadgenTypeOK, Places, JobPlaces
<1>4. ASSUME PacingRest PROVE PacingTypeOK
    <2>2. \A s \in Seconds : OfferedIn(s) = 0 /\ AcceptedIn(s) = 0
        BY <1>4 DEF PacingRest, OfferedIn, AcceptedIn
    <2>4. \A s \in Seconds : OfferedList[s] = 0
        BY <2>2 DEF OfferedList
    <2>5. SumFunctionOnSet(OfferedList, Seconds) = 0
        BY <2>4, SecondsFinite, SumOfZeros
    <2>6. LastClock \in Nat /\ total_due \in Nat
        BY PaceConstants, TotalDue DEF LastClock
    <2> QED
        BY <1>4, <2>2, <2>5, <2>6, PaceConstants DEF PacingRest, PacingTypeOK, OfferedList, SumFunction
<1> QED
    BY <1>1, <1>2, <1>3, <1>4

\* No alarm was raised in a run at rest, and its verdict is right.
LEMMA RestIsSafe ==
    /\ ChaosRest => VerifiedAtRest /\ DrainUndisturbed /\ AlarmsRight
    /\ VerdictRest => VerdictRight
    /\ LoadgenRest => OkIsTrue
    /\ PacingRest => KeepsRate
<1>1. ASSUME ChaosRest PROVE VerifiedAtRest /\ DrainUndisturbed /\ AlarmsRight
    <2>1. Active = {}
        BY <1>1 DEF ChaosRest, Active
    <2>2. Killing = {} /\ \A x \in Code : restarts[x] = 0
        BY <1>1 DEF ChaosRest, Killing
    <2>3. AlarmsRight
        BY <1>1, <2>2 DEF ChaosRest, AlarmsRight, KilledStayDown, Code
    <2> QED
        BY <1>1, <2>1, <2>3 DEF ChaosRest, VerifiedAtRest, DrainUndisturbed
<1>2. ASSUME VerdictRest PROVE VerdictRight
    <2>1. \A j \in Job : /\ job[j].kind = "normal" /\ job[j].done = "SUCCEEDED" /\ job[j].dlq = <<>>
                         /\ job[j].results = 1 /\ job[j].effects = 1 /\ job[j].copy = "none"
        BY <1>2 DEF VerdictRest
    <2>2. \A j \in Job : KindOfJob(j).expect = "SUCCEEDED" /\ KindOfJob(j).effect
        <3>1. Kinds["normal"] = Kind("SUCCEEDED", TRUE, "none", {0}, "none")
            BY DEF Kinds
        <3>2. Kinds["normal"].expect = "SUCCEEDED" /\ Kinds["normal"].effect
            BY <3>1 DEF Kind
        <3> QED
            BY <2>1, <3>2 DEF KindOfJob
    <2>3. Crashy = {} /\ Cardinality(Crashy) = 0
        BY <2>1, FS_EmptySet DEF Crashy
    <2>4. I1 /\ I2 /\ I2b /\ I5
        BY <1>2, <2>1, <2>2 DEF VerdictRest, I1, I2, I2b, I5, Want
    <2>5. I3
        BY <1>2, <2>1, <2>2, <2>3, Sizes DEF VerdictRest, I3
    <2>6. \A n \in DOMAIN reclaims : Others(n) = 0
        <3> SUFFICES ASSUME NEW n \in DOMAIN reclaims PROVE Others(n) = 0
            OBVIOUS
        <3>1. {j \in Crashy : \E i \in DOMAIN job[j].dlq : job[j].dlq[i].deliveries >= n} = {}
            BY <2>3
        <3>2. reclaims[n] = 0
            BY <1>2 DEF VerdictRest
        <3> QED
            BY <3>1, <3>2, FS_EmptySet DEF Others
    <2> QED
        BY <1>2, <2>4, <2>5, <2>6 DEF VerdictRest, VerdictRight, Passed
<1>3. ASSUME LoadgenRest PROVE OkIsTrue
    BY <1>3 DEF LoadgenRest, OkIsTrue
<1>4. ASSUME PacingRest PROVE KeepsRate
    <2>1. Rate * 0 = 0 /\ 0 * Second = 0 /\ total_due \in Nat
        BY PaceConstants, TotalDue
    <2> QED
        BY <1>4, <2>1 DEF PacingRest, KeepsRate
<1> QED
    BY <1>1, <1>2, <1>3, <1>4

\* The invariant of each part has the part's types.
LEMMA PartTypes ==
    /\ ChaosInv => ChaosTypeOK
    /\ LoadInv => LoadgenTypeOK
    /\ CountInv => PacingTypeOK
    /\ SessionInv => SessionTypeOK
    /\ VerdictInv => VerdictTypeOK
BY CountTypes, VerdictInvTypes DEF ChaosInv, LoadInv, SessionInv

\* One part begins, the others rest.
LEMMA InitHarness == Init => HarnessInv
<1> SUFFICES ASSUME Init PROVE HarnessInv
    OBVIOUS
<1>1. SessionInv /\ FiguresInv
    BY InitSession, FiguresInit DEF Init, Rest
<1>2. IF part = "run" THEN ChaosInv /\ AlarmInv ELSE ChaosRest
    BY InitInv, InitAlarm DEF Init, Rest, All
<1>3. IF part = "verdict" THEN VerdictInv ELSE VerdictRest
    BY InitVerdict DEF Init, Rest, All
<1>4. IF part = "hosts" THEN LoadInv ELSE LoadgenRest
    BY LoadInvInit DEF Init, Rest, All
<1>5. IF part = "producer" THEN CountInv ELSE PacingRest
    BY InitCounts DEF Init, Rest, All
<1> QED
    BY <1>1, <1>2, <1>3, <1>4, <1>5 DEF HarnessInv

\* A part that is left alone stays as it is.
LEMMA PartsAlone ==
    /\ UNCHANGED chaosVars => (ChaosRest => ChaosRest') /\ (ChaosInv => ChaosInv')
                              /\ (ChaosInv /\ AlarmInv => AlarmInv')
    /\ UNCHANGED verdictVars => (VerdictRest => VerdictRest') /\ (VerdictInv => VerdictInv')
    /\ UNCHANGED loadgenVars => (LoadgenRest => LoadgenRest') /\ (LoadInv => LoadInv')
    /\ UNCHANGED pacingVars => (PacingRest => PacingRest') /\ (CountInv => CountInv')
    /\ UNCHANGED sessionVars => (SessionInv => SessionInv')
    /\ UNCHANGED analysisVars => (FiguresInv => FiguresInv')
<1>1. UNCHANGED chaosVars => (ChaosRest => ChaosRest')
    BY DEF ChaosRest, chaosVars, dockerVars, supVars, mainVars
<1>2. UNCHANGED verdictVars => (VerdictRest => VerdictRest')
    BY DEF VerdictRest, verdictVars
<1>3. UNCHANGED loadgenVars => (LoadgenRest => LoadgenRest')
    BY DEF LoadgenRest, loadgenVars, keyVars, runVars, envVars
<1>4. UNCHANGED pacingVars => (PacingRest => PacingRest')
    BY DEF PacingRest, pacingVars
<1> QED
    BY <1>1, <1>2, <1>3, <1>4, StutterInv, StepAlarm, NextVerdict, LoadInvStep, StutterCounts,
       StepSessions, FiguresStep

\* One part moves, the others are left alone.
LEMMA StepHarness == HarnessInv /\ Next => HarnessInv'
<1> SUFFICES ASSUME HarnessInv, Next PROVE HarnessInv'
    OBVIOUS
<1> USE PartsAlone DEF HarnessInv, chaosParts, loadParts
<1>0. part' = part
    BY DEF Next
<1>1. ASSUME part = "run", ChaosNext,
             UNCHANGED <<verdictVars, loadParts, analysisVars, sessionVars>>
      PROVE  HarnessInv'
    <2>1. ChaosInv' /\ AlarmInv'
        BY <1>1, StepTypes, StepPhases, StepRest, StepAlarm DEF ChaosInv
    <2> QED
        BY <1>0, <1>1, <2>1
<1>2. ASSUME part = "verdict", VerdictNext,
             UNCHANGED <<chaosVars, loadParts, analysisVars, sessionVars>>
      PROVE  HarnessInv'
    <2>1. VerdictInv'
        BY <1>2, NextVerdict
    <2> QED
        BY <1>0, <1>2, <2>1
<1>3. ASSUME part = "hosts", LoadgenNext,
             UNCHANGED <<chaosParts, pacingVars, analysisVars, sessionVars>>
      PROVE  HarnessInv'
    <2>1. LoadInv'
        BY <1>3, LoadInvStep
    <2> QED
        BY <1>0, <1>3, <2>1
<1>4. ASSUME part = "producer", PacingNext,
             UNCHANGED <<chaosParts, loadgenVars, analysisVars, sessionVars>>
      PROVE  HarnessInv'
    <2>1. CountInv'
        BY <1>4, StepCounts
    <2> QED
        BY <1>0, <1>4, <2>1
<1>5. ASSUME part \in {"percentiles", "cpu"}, Producing \/ Sampling,
             UNCHANGED <<chaosParts, loadParts, sessionVars>>
      PROVE  HarnessInv'
    <2>1. FiguresInv'
        BY <1>5, FiguresStep DEF AnalysisNext
    <2> QED
        BY <1>0, <1>5, <2>1
<1>6. ASSUME part = "session", SessionNext, UNCHANGED <<chaosParts, loadParts, analysisVars>>
      PROVE  HarnessInv'
    <2>1. SessionInv'
        BY <1>6, StepSessions
    <2> QED
        BY <1>0, <1>6, <2>1
<1> QED
    BY <1>1, <1>2, <1>3, <1>4, <1>5, <1>6 DEF Next

harness == <<part, chaosParts, loadParts, analysisVars, sessionVars>>

\* A step that changes nothing.
LEMMA StutterHarness == HarnessInv /\ UNCHANGED harness => HarnessInv'
<1> SUFFICES ASSUME HarnessInv, UNCHANGED harness PROVE HarnessInv'
    OBVIOUS
<1>1. /\ UNCHANGED chaosVars /\ UNCHANGED verdictVars /\ UNCHANGED loadgenVars
      /\ UNCHANGED pacingVars /\ UNCHANGED analysisVars /\ UNCHANGED sessionVars /\ part' = part
    BY DEF harness, chaosParts, loadParts
<1> QED
    BY <1>1, PartsAlone DEF HarnessInv

\* The invariant holds in every behaviour of the harness.
THEOREM HarnessAlwaysSound == Spec => []HarnessInv
BY InitHarness, StepHarness, StutterHarness, PTL DEF Spec, harness

\* Containers, jobs, hosts, a producer's counts and the driver's files are of their types in the
\* harness as it is checked, for any size of each of its parts.
THEOREM HarnessTypes == Spec => []HarnessTypeOK
<1>1. HarnessInv => HarnessTypeOK
    BY PartTypes, RestTypes DEF HarnessInv, HarnessTypeOK
<1> QED
    BY <1>1, HarnessAlwaysSound, PTL

\* In the harness as it is checked, for any size of each of its parts: the verifier reads a system
\* at rest, the queue drains in peace, the supervisor's alarms are right (about killed workers
\* until a hold lapses), a failed verdict means a bug, exactly_once.ok is true, the figures of a
\* report are those measured, and a point of a curve is one run, except where an earlier session
\* was cut short or has run the point again.
THEOREM HarnessIsSafe == Spec => []HarnessSafe
<1>1. HarnessInv => HarnessSafe
    <2> SUFFICES ASSUME HarnessInv PROVE HarnessSafe
        OBVIOUS
    <2>1. VerifiedAtRest /\ DrainUndisturbed /\ AlarmsRight
        BY RestIsSafe, AlarmsFollow DEF HarnessInv, ChaosInv
    <2>2. VerdictRight
        BY RestIsSafe, VerdictFollows DEF HarnessInv
    <2>3. OkIsTrue
        BY RestIsSafe, LoadFollows DEF HarnessInv
    <2>4. FiguresTrue /\ PointIsOneRun
        BY FiguresHold, SessionFollows DEF HarnessInv
    <2> QED
        BY <2>1, <2>2, <2>3, <2>4 DEF HarnessSafe
<1> QED
    BY <1>1, HarnessAlwaysSound, PTL

\* The producer of the harness as it is checked keeps its rate, if calls can carry it.
THEOREM HarnessKeepsRate ==
    ASSUME Rate * MaxAwait <= Batch * Second
    PROVE  Spec => []KeepsRate
<1> DEFINE Paced == part = "producer" => PaceInv
<1>1. Init => Paced
    BY InitPace DEF Init
<1>2. HarnessInv /\ Paced /\ [Next]_harness => Paced'
    <2> SUFFICES ASSUME HarnessInv, Paced, [Next]_harness PROVE Paced'
        OBVIOUS
    <2>1. part' = part
        BY DEF Next, harness
    <2>2. ASSUME part = "producer" PROVE PaceInv'
        <3>1. [PacingNext]_pacingVars
            BY <2>2 DEF Next, harness, loadParts
        <3> QED
            BY <2>2, <3>1, StepPace
    <2> QED
        BY <2>1, <2>2
<1>3. HarnessInv /\ Paced => KeepsRate
    BY RestIsSafe, PaceFollows DEF HarnessInv
<1> HIDE DEF Paced
<1> QED
    BY <1>1, <1>2, <1>3, HarnessAlwaysSound, PTL DEF Spec, harness

=============================================================================
