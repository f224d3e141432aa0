------------------------------ MODULE MCWorker ------------------------------
(***************************************************************************)
(* The parts of a worker and of the DLQ that JobQueue takes as given, each *)
(* on an instance of its own: `part` says which of them this behaviour is  *)
(* of, and the others are at rest.                                         *)
(***************************************************************************)
EXTENDS ProcessPool, Lifetime, DlqSweep, ReaperCursor

VARIABLE part

-----------------------------------------------------------------------------
(* Settings for Lifetime, in ticks *)

\* A handler timeout above or equal to the default one, leases that are long enough for
\* the heartbeat or not, and TTLs on both sides of what each timeout needs.
Candidates ==
    [timeout : {1, 4}, jobTimeout : {1}, visibilityTimeout : {2, 3},
     heartbeatInterval : {1}, maxAttempts : {1}, maxDeliveries : {2},
     backoffBase : {1, 2}, backoffCap : {1}, reapInterval : {2, 3, 5, 6}, slotWait : {1},
     ttl : {18, 30}, socketTimeout : {1}, retryAttempts : {0}, retryBackoffCap : {0}]

\* The reaper comes as late as the margin of the TTL allows: nothing validates
\* reap_interval itself.
Margin == {x \in Candidates :
             x.slotWait + x.reapInterval = (TtlMargin - 1) * (x.timeout + x.visibilityTimeout)}

\* Expired leases are found at once.
EagerReaper == {[timeout |-> 2, jobTimeout |-> 2, visibilityTimeout |-> 3,
                 heartbeatInterval |-> 1, maxAttempts |-> 2, maxDeliveries |-> 2,
                 backoffBase |-> 1, backoffCap |-> 1, reapInterval |-> 0, slotWait |-> 0,
                 ttl |-> 0, socketTimeout |-> 1, retryAttempts |-> 1, retryBackoffCap |-> 0]}

\* Calls that take up to two and a half intervals, and leases of three intervals or less.
SlowCalls ==
    [timeout : {9}, jobTimeout : {1}, visibilityTimeout : {4, 5, 6},
     heartbeatInterval : {2}, maxAttempts : {1}, maxDeliveries : {1},
     backoffBase : {1}, backoffCap : {1}, reapInterval : {0}, slotWait : {0},
     ttl : {0}, socketTimeout : {2}, retryAttempts : {1}, retryBackoffCap : {1}]

WorkerSettings == Margin \union EagerReaper \union SlowCalls

\* The defaults, in ticks of 5 s: what is shorter counts as a tick, a backoff between
\* re-sends (1 s at most) as none.
DefaultSettings ==
    {[timeout |-> 60, jobTimeout |-> 60, visibilityTimeout |-> 6,
      heartbeatInterval |-> 2, maxAttempts |-> 5, maxDeliveries |-> 10,
      backoffBase |-> 1, backoffCap |-> 60, reapInterval |-> 1, slotWait |-> 0,
      ttl |-> 120960, socketTimeout |-> 1, retryAttempts |-> 3, retryBackoffCap |-> 0]}

-----------------------------------------------------------------------------
(* Parts at rest: none of their fair actions is enabled *)

PoolRest ==
    /\ stuck = {} /\ current = NoPool /\ reset = {} /\ died = {}
    /\ warm = [p \in Pool |-> "none"]
    /\ up = [p \in Pool |-> {}] /\ answered = [p \in Pool |-> {}]
    /\ procs = [p \in Pool |-> "none"]
    /\ phase = [r \in Run |-> "done"] /\ pool = [r \in Run |-> NoPool]
    /\ clock = [r \in Run |-> 0] /\ work = [r \in Run |-> 0]
    /\ stopping = TRUE /\ abandoned = FALSE /\ stopped = TRUE

LifetimeRest == LifetimeInit /\ s = CHOOSE x \in Settings : Accepted(x)

SweepRest == SweepInit

\* All slots taken by runs that do not end.
CursorRest ==
    /\ longRuns \in LongRunSets /\ 1 .. Slots \subseteq longRuns
    /\ lease = [e \in Entry |-> IF e <= Slots THEN "mine" ELSE "gone"]
    /\ cursor = 0 /\ due = TRUE /\ turn = "top" /\ fresh = 0 /\ faults = 0

-----------------------------------------------------------------------------
Init ==
    \/ part = "pool" /\ PoolInit /\ LifetimeRest /\ SweepRest /\ CursorRest
    \/ part = "lifetime" /\ PoolRest /\ LifetimeInit /\ SweepRest /\ CursorRest
    \/ part = "sweep" /\ PoolRest /\ LifetimeRest /\ SweepInit /\ CursorRest
    \/ part = "cursor" /\ PoolRest /\ LifetimeRest /\ SweepRest /\ CursorInit

Next ==
    \/ part = "pool" /\ PoolNext /\ UNCHANGED <<part, lifetimeVars, sweepVars, cursorVars>>
    \/ part = "lifetime" /\ LifetimeNext /\ UNCHANGED <<part, poolVars, sweepVars, cursorVars>>
    \/ part = "sweep" /\ SweepNext /\ UNCHANGED <<part, poolVars, lifetimeVars, cursorVars>>
    \/ part = "cursor" /\ CursorNext /\ UNCHANGED <<part, poolVars, lifetimeVars, sweepVars>>

Spec ==
    /\ Init /\ [][Next]_<<part, poolVars, lifetimeVars, sweepVars, cursorVars>>
    /\ PoolFairness /\ SweepFairness /\ CursorFairness

-----------------------------------------------------------------------------
(* Properties of all parts *)

\* The pools of a worker, a job's copy and done key, the sweep and the cursor are of their types.
WorkerTypeOK == PoolTypeOK /\ LifetimeTypeOK /\ SweepTypeOK /\ CursorTypeOK

\* What a worker begins it ends: an attempt in the process pool, the shutdown of the pools,
\* the taking up of expired leases by the reaper; and the sweep of requeue_all.
WorkerEnds == <>[](AttemptsOver /\ StopOver /\ ExpiredTaken /\ SweepOver)
====
