------------------------------ MODULE Lifetime ------------------------------
(***************************************************************************)
(* How long a late copy of a job can live, in ticks of a discrete clock.   *)
(* Settings.lifetime_bound (src/ftq/config.py) bounds it, and the TTL of   *)
(* the done key must outlast it: the first copy's success is remembered by *)
(* that key alone.  The module follows one copy of the job through its     *)
(* deliveries, heartbeats, crashes, reclaims, retries and backoffs while   *)
(* another copy commits at any moment.  A heartbeat is a call with re-sends*)
(* and takes time; when too many are slow or lost, a reaper takes the entry*)
(* from a healthy worker, whose run goes on and may still commit.          *)
(***************************************************************************)
EXTENDS Integers

CONSTANTS
    Settings,   \* the settings to try: timeout, jobTimeout, visibilityTimeout,
                \* heartbeatInterval, maxAttempts, maxDeliveries, backoffBase,
                \* backoffCap, reapInterval, ttl, socketTimeout, retryAttempts and
                \* retryBackoffCap, in ticks; with them slotWait, how long a process
                \* run waits for its slot and its pool
    TtlMargin   \* how many lifetimes a TTL has to cover (_TTL_MARGIN, 10 in the code)

\* What Settings declares durations and limits to be (gt=0, ge=1).
Positive == Nat \ {0}

\* So are the settings a worker is given; a ttl of 0 means for ever, expired leases may be
\* found at once, and a backoff between re-sends may be shorter than a tick.
ASSUME LagAssumption ==
    /\ TtlMargin \in Positive
    /\ Settings \subseteq
         [timeout : Positive, jobTimeout : Positive, visibilityTimeout : Positive,
          heartbeatInterval : Positive, maxAttempts : Positive, maxDeliveries : Positive,
          backoffBase : Positive, backoffCap : Positive,
          reapInterval : Nat, slotWait : Nat, ttl : Nat,
          socketTimeout : Positive, retryAttempts : Nat, retryBackoffCap : Nat]

-----------------------------------------------------------------------------
(* The settings *)

\* backoff_bound: the longest delay after failed attempt number a.
MaxExponent == 62
BackoffBound(a, s) ==
    LET n == IF a <= MaxExponent THEN a ELSE MaxExponent
        b == s.backoffBase * 2 ^ n
    IN IF b <= s.backoffCap THEN b ELSE s.backoffCap

\* Settings.lifetime_bound.
LifetimeBound(timeout, s) ==
    LET perDelivery == timeout + s.visibilityTimeout
        perAttempt == s.maxDeliveries * perDelivery + s.backoffCap
    IN s.maxAttempts * perAttempt

\* Settings.check_ttl_covers; a ttl of 0 is a key that never expires.
CheckTtlCovers(timeout, s) ==
    s.ttl # 0 => s.ttl >= TtlMargin * LifetimeBound(timeout, s)

\* make_redis: how long a call to Redis can go on, when every try runs into the socket's
\* timeout.  (Connecting again can only add to it.)
CallLimit(x) ==
    (x.retryAttempts + 1) * x.socketTimeout + x.retryAttempts * x.retryBackoffCap

\* Mutant: half the lease is enough for the heartbeat.
HeartbeatFitsHalf(s) == 2 * s.heartbeatInterval <= s.visibilityTimeout

\* Settings._check: a lost beat must leave time for the next one.
HeartbeatFits(s) == 3 * s.heartbeatInterval <= s.visibilityTimeout

\* Mutant: only the default timeout is checked, not a handler type's own.
AcceptedByDefault(s) ==
    /\ HeartbeatFits(s)
    /\ s.backoffBase <= s.backoffCap
    /\ CheckTtlCovers(s.jobTimeout, s)

\* The settings a worker starts with: Settings._check, and Worker.__init__ for the
\* timeout of each handler type.
Accepted(s) ==
    /\ HeartbeatFits(s)
    /\ s.backoffBase <= s.backoffCap
    /\ CheckTtlCovers(s.jobTimeout, s)
    /\ CheckTtlCovers(s.timeout, s)

-----------------------------------------------------------------------------
(* One copy *)

VARIABLES
    s,          \* the settings in force
    now,        \* ticks since the copy was first delivered
    place,      \* queued (for a slot), running, crashed, delayed or gone
    age,        \* ticks in this phase
    idle,       \* ticks since the entry's last delivery or heartbeat
    beat,       \* the heartbeat loop: sleeping, or calling Redis
    beatFor,    \* ticks in that
    attempt,    \* the copy's attempt number
    delivery,   \* deliveries of its entry
    staleUntil, \* when the last run whose entry was taken from it is over
    doneUntil,  \* when the done key expires, or NotDone
    commits,    \* results committed for the job
    \* History, of the heartbeats since the entry's last delivery or reset:
    lostBeats,  \* calls given up that never ran heartbeat.lua
    spent       \* ticks spent in calls

beatVars == <<beat, beatFor, lostBeats, spent>>
doneVars == <<doneUntil, commits>>
lifetimeVars == <<s, now, place, age, idle, attempt, delivery, staleUntil, beatVars, doneVars>>

NotDone == -1
Done == doneUntil # NotDone /\ (s.ttl = 0 \/ now < doneUntil)

\* The types; the counters stay within the settings' limits.
LifetimeTypeOK ==
    /\ s \in Settings /\ now \in Nat /\ age \in Nat /\ idle \in Nat
    /\ place \in {"queued", "running", "crashed", "delayed", "gone"}
    /\ beat \in {"sleeping", "calling"} /\ beatFor \in Nat
    /\ lostBeats \in Nat /\ spent \in Nat /\ staleUntil \in Nat
    /\ attempt \in 0 .. s.maxAttempts - 1 /\ delivery \in 1 .. s.maxDeliveries + 1
    /\ doneUntil \in Nat \union {NotDone} /\ commits \in Nat

LifetimeInit ==
    /\ s \in {x \in Settings : Accepted(x)}
    /\ now = 0 /\ age = 0 /\ idle = 0 /\ staleUntil = 0
    /\ beat = "sleeping" /\ beatFor = 0 /\ lostBeats = 0 /\ spent = 0
    /\ place = "queued" /\ attempt = 0 /\ delivery = 1
    /\ doneUntil = NotDone /\ commits = 0

\* A worker runs the copy, or waits to, and its heartbeat loop with it.
Holding == place \in {"queued", "running"}

\* How long the worker's run can still take.
RunLeft == IF place = "queued" THEN s.slotWait - age + s.timeout ELSE s.timeout - age

\* The copy leaves its phase for p.
Enter(p) == place' = p /\ age' = 0

\* A delivery: the lease starts over and the heartbeat loop with it.
Deliver(n) ==
    /\ Enter(IF n > s.maxDeliveries THEN "gone" ELSE "queued")
    /\ delivery' = n /\ idle' = 0 /\ lostBeats' = 0 /\ spent' = 0
    /\ beat' = "sleeping" /\ beatFor' = 0

\* The entry is no longer the worker's: a run under way goes on to its end.
LosesEntry ==
    staleUntil' = IF Holding /\ staleUntil <= now + RunLeft THEN now + RunLeft + 1
                  ELSE staleUntil

\* commit.lua: first wins, as long as the done key is there.
CommitFirst ==
    IF Done THEN UNCHANGED doneVars
    ELSE doneUntil' = now + s.ttl /\ commits' = commits + 1

\* This copy, or a run it was taken from, can still commit.
Alive == place # "gone" \/ now < staleUntil

\* The other copy succeeds.
OtherCommits ==
    /\ doneUntil = NotDone /\ Alive
    /\ doneUntil' = now + s.ttl
    /\ commits' = commits + 1
    /\ UNCHANGED <<s, now, place, age, idle, attempt, delivery, staleUntil, beatVars>>

\* The run takes its slot and its clock starts.
StartRun ==
    /\ place = "queued"
    /\ Enter("running")
    /\ UNCHANGED <<s, now, idle, attempt, delivery, staleUntil, beatVars, doneVars>>

\* The run succeeds.
Commit ==
    /\ place = "running"
    /\ Enter("gone")
    /\ CommitFirst
    /\ UNCHANGED <<s, now, idle, attempt, delivery, staleUntil, beatVars>>

\* A run whose entry was taken from it succeeds.  commit.lua asks for no lease, and takes the
\* entry out of the stream: the one at hand, if it was delivered again since, or that of an
\* earlier attempt, which is gone.
StaleCommit ==
    /\ now < staleUntil
    /\ CommitFirst
    /\ \/ /\ place \in {"queued", "running", "crashed"} /\ delivery > 1
          /\ Enter("gone") /\ LosesEntry
       \/ /\ place \in {"delayed", "gone"} \/ attempt > 0
          /\ UNCHANGED <<place, age, staleUntil>>
    /\ UNCHANGED <<s, now, idle, attempt, delivery, beatVars>>

\* The run fails or times out: retry.lua drops the copy if the job is done, the last
\* attempt goes to the DLQ, any other waits out its backoff.
Fail ==
    /\ place = "running"
    /\ IF Done \/ attempt + 1 >= s.maxAttempts
       THEN Enter("gone") /\ UNCHANGED attempt
       ELSE Enter("delayed") /\ attempt' = attempt + 1
    /\ UNCHANGED <<s, now, idle, delivery, staleUntil, beatVars, doneVars>>

\* The retry is due and goes back to the stream, where it is fetched at once.
BackoffElapses ==
    /\ place = "delayed"
    /\ Deliver(1)
    /\ UNCHANGED <<s, now, attempt, staleUntil, doneVars>>

\* The worker dies.
Crash ==
    /\ Holding
    /\ Enter("crashed")
    /\ UNCHANGED <<s, now, idle, attempt, delivery, staleUntil, beatVars, doneVars>>

\* A reaper pass finds the lease expired, whether the worker died or its beats failed, and
\* delivers the entry again; past max_deliveries that only moves it to the DLQ.
Reclaim ==
    /\ place = "crashed" \/ Holding
    /\ idle >= s.visibilityTimeout
    /\ Deliver(delivery + 1) /\ LosesEntry
    /\ UNCHANGED <<s, now, attempt, doneVars>>

\* The heartbeat loop has slept its interval and sends a beat.
SendBeat ==
    /\ Holding /\ beat = "sleeping" /\ beatFor = s.heartbeatInterval
    /\ beat' = "calling" /\ beatFor' = 0
    /\ UNCHANGED <<s, now, place, age, idle, attempt, delivery, staleUntil, lostBeats, spent,
                   doneVars>>

\* heartbeat.lua runs; again, when the call is sent again after a lost reply.
BeatLands ==
    /\ Holding /\ beat = "calling"
    /\ idle' = 0 /\ lostBeats' = 0 /\ spent' = 0
    /\ UNCHANGED <<s, now, place, age, attempt, delivery, staleUntil, beat, beatFor, doneVars>>

\* It ran during this call.
Landed == idle <= beatFor

\* The call returns, or has used up its tries; the loop goes on the same.
BeatOver ==
    /\ Holding /\ beat = "calling"
    /\ beat' = "sleeping" /\ beatFor' = 0
    /\ lostBeats' = IF Landed THEN lostBeats ELSE lostBeats + 1
    /\ UNCHANGED <<s, now, place, age, idle, attempt, delivery, staleUntil, spent, doneVars>>

\* How long the copy can stay in its phase.
Limit ==
    CASE place = "queued" -> age < s.slotWait
      [] place = "running" -> age < s.timeout
      [] place = "crashed" -> idle < s.visibilityTimeout + s.reapInterval
      [] place = "delayed" -> age < BackoffBound(attempt - 1, s)
      [] place = "gone" -> now < staleUntil

\* How long the heartbeat loop can.
BeatLimit ==
    beatFor < IF beat = "sleeping" THEN s.heartbeatInterval ELSE CallLimit(s)

TimePasses ==
    /\ Limit /\ (Holding => BeatLimit)
    /\ now' = now + 1 /\ age' = age + 1 /\ idle' = idle + 1
    /\ beatFor' = IF Holding THEN beatFor + 1 ELSE beatFor
    /\ spent' = IF Holding /\ beat = "calling" THEN spent + 1 ELSE spent
    /\ UNCHANGED <<s, place, attempt, delivery, staleUntil, beat, lostBeats, doneVars>>

LifetimeNext ==
    \/ OtherCommits \/ StartRun \/ Commit \/ StaleCommit \/ Fail \/ BackoffElapses
    \/ Crash \/ Reclaim \/ SendBeat \/ BeatLands \/ BeatOver \/ TimePasses

LifetimeSpec == LifetimeInit /\ [][LifetimeNext]_lifetimeVars

-----------------------------------------------------------------------------
(* Properties *)

\* The done key outlives every copy of its job, however late the reaper comes within
\* the margin, and whether its runs keep their leases or not: the result is committed once.
\* And where expired leases are found at once and runs do not wait for a slot, nothing runs
\* after Settings.lifetime_bound.
CommitsOnce ==
    /\ commits <= 1
    /\ s.reapInterval = 0 /\ s.slotWait = 0 /\ Alive => now <= LifetimeBound(s.timeout, s)

\* What Settings._check leaves a healthy worker: no reaper can take its entry as long as the
\* time its calls took since the last beat that landed, and an interval for each one lost
\* among them, come to less than two intervals.  So one beat may be lost if the calls took
\* less than an interval together.
HealthyKeepsLease ==
    Holding /\ lostBeats * s.heartbeatInterval + spent < 2 * s.heartbeatInterval
        => idle < s.visibilityTimeout

\* What worker.py says of a heartbeat that fails: one missed beat is fine.
OneMissedBeatIsFine == Holding /\ lostBeats = 1 => idle < s.visibilityTimeout
====
