---------------------------- MODULE ProcessPool ----------------------------
(***************************************************************************)
(* The process pool of one worker (src/ftq/worker.py, "pools"): process    *)
(* jobs take a slot, wait without a clock for the pool to be warm, run in  *)
(* it under their timeout, and are restarted, charged or abandoned when    *)
(* the pool is reset, breaks, or the worker stops.  One element of Run is  *)
(* one attempt of one job.                                                 *)
(***************************************************************************)
EXTENDS Naturals, FiniteSets

CONSTANTS
    Run,        \* the attempts of process jobs this worker is given
    PoolSize,   \* Settings.process_pool_size
    Timeout,    \* ticks of the handler's timeout
    StuckSets,  \* the sets of children that may never finish their start-up
    MaxDeaths   \* bound: children that die by themselves

ASSUME PoolAssumption ==
    /\ IsFiniteSet(Run)
    /\ PoolSize \in Nat \ {0}
    /\ Timeout \in Nat \ {0}
    /\ StuckSets \subseteq SUBSET (1..PoolSize)
    /\ MaxDeaths \in Nat

Child == 1..PoolSize

\* Every reset ends an attempt and every break needs a death, so the pools a
\* worker can create are counted.
Pool == 1..(1 + Cardinality(Run) + MaxDeaths)

NoPool == 0

VARIABLES
    stuck,      \* the children (of every pool) that never finish their start-up
    current,    \* Worker._process_pool
    warm,       \* of each pool: the state of its Worker._pool_ready future
    up,         \* of each pool: the children through their initializer
    answered,   \* of each pool: the pids _warm_up has seen
    procs,      \* of each pool: whether its processes exist
    reset,      \* Worker._reset_pools
    died,       \* the pools a child of which died by itself
    phase,      \* of each attempt: where it is
    pool,       \* of each attempt: the pool it waits for or runs in
    clock,      \* of each attempt: ticks since _Run.started
    work,       \* of each attempt: ticks its handler has been running
    stopping,   \* the worker stopped fetching
    abandoned,  \* the grace period ended with attempts in flight
    stopped     \* the pools are shut down

poolState == <<warm, up, answered, procs, died>>
attemptVars == <<phase, pool, clock, work>>
workerVars == <<stuck, stopping, abandoned, stopped>>
poolVars == <<current, reset, poolState, attemptVars, workerVars>>

Live == {"slot", "pool", "running"}
Ended == {"done", "timeout", "broken", "abandoned"}

LiveRuns == {r \in Run : phase[r] \in Live}

\* Mutant: a timeout leaves without releasing its slot.
SlotHoldersLeaky == {r \in Run : phase[r] \in {"pool", "running", "timeout"}}

\* The attempts that hold a slot of Worker._process_slots.
SlotHolders == {r \in Run : phase[r] \in {"pool", "running"}}

RunningIn(p) == {r \in Run : phase[r] = "running" /\ pool[r] = p}

\* The types of the pool's state; a warm-up has only seen the pids of
\* children that are up.
PoolTypeOK ==
    /\ stuck \in StuckSets
    /\ current \in Pool \union {NoPool}
    /\ warm \in [Pool -> {"none", "pending", "ok", "failed"}]
    /\ up \in [Pool -> SUBSET Child] /\ answered \in [Pool -> SUBSET Child]
    /\ procs \in [Pool -> {"none", "live", "dead"}]
    /\ reset \subseteq Pool /\ died \subseteq Pool
    /\ phase \in [Run -> {"idle"} \union Live \union Ended]
    /\ pool \in [Run -> Pool \union {NoPool}]
    /\ clock \in [Run -> 0..Timeout] /\ work \in [Run -> 0..Timeout]
    /\ stopping \in BOOLEAN /\ abandoned \in BOOLEAN /\ stopped \in BOOLEAN
    /\ \A p \in Pool : answered[p] \subseteq up[p]

PoolInit ==
    /\ stuck \in StuckSets
    /\ current = NoPool /\ reset = {} /\ died = {}
    /\ warm = [p \in Pool |-> "none"]
    /\ up = [p \in Pool |-> {}] /\ answered = [p \in Pool |-> {}]
    /\ procs = [p \in Pool |-> "none"]
    /\ phase = [r \in Run |-> "idle"] /\ pool = [r \in Run |-> NoPool]
    /\ clock = [r \in Run |-> 0] /\ work = [r \in Run |-> 0]
    /\ stopping = FALSE /\ abandoned = FALSE /\ stopped = FALSE

-----------------------------------------------------------------------------
(* Getting a pool *)

\* The pool the next creation makes.
Fresh == CHOOSE p \in Pool : warm[p] = "none" /\ \A q \in Pool : warm[q] = "none" => p <= q

\* Mutant: a restart keeps the old deadline.
AwaitPoolOldClock(r) ==
    LET p == IF current = NoPool THEN Fresh ELSE current IN
    /\ current' = p
    /\ warm' = [warm EXCEPT ![p] = IF current = NoPool THEN "pending" ELSE @]
    /\ procs' = [procs EXCEPT ![p] = IF current = NoPool THEN "live" ELSE @]
    /\ pool' = [pool EXCEPT ![r] = p]
    /\ phase' = [phase EXCEPT ![r] = CASE warm'[p] = "pending" -> "pool"
                                       [] warm'[p] = "ok" -> "running"
                                       [] warm'[p] = "failed" -> "broken"]
    /\ work' = [work EXCEPT ![r] = 0]
    /\ UNCHANGED <<clock, up, answered, died, reset, workerVars>>

\* _run_in_process from its stop_clock to its start_clock: create the pool if
\* there is none, then wait for its warm-up.  A warm-up that is over does not
\* suspend: the attempt starts running, or fails at once.
AwaitPool(r) ==
    LET p == IF current = NoPool THEN Fresh ELSE current IN
    /\ current' = p
    /\ warm' = [warm EXCEPT ![p] = IF current = NoPool THEN "pending" ELSE @]
    /\ procs' = [procs EXCEPT ![p] = IF current = NoPool THEN "live" ELSE @]
    /\ pool' = [pool EXCEPT ![r] = p]
    /\ phase' = [phase EXCEPT ![r] = CASE warm'[p] = "pending" -> "pool"
                                       [] warm'[p] = "ok" -> "running"
                                       [] warm'[p] = "failed" -> "broken"]
    /\ clock' = [clock EXCEPT ![r] = 0]
    /\ work' = [work EXCEPT ![r] = 0]
    /\ UNCHANGED <<up, answered, died, reset, workerVars>>

Begin(r) ==
    /\ phase[r] = "idle" /\ ~stopping
    /\ phase' = [phase EXCEPT ![r] = "slot"]
    /\ UNCHANGED <<current, reset, poolState, pool, clock, work, workerVars>>

TakeSlot(r) ==
    /\ phase[r] = "slot"
    /\ Cardinality(SlotHolders) < PoolSize
    /\ AwaitPool(r)

\* A child gets through the initializer: a new interpreter, the handler imports.
ChildStarts(p, c) ==
    /\ procs[p] = "live" /\ c \notin up[p] /\ c \notin stuck
    /\ up' = [up EXCEPT ![p] = @ \union {c}]
    /\ UNCHANGED <<current, reset, warm, answered, procs, died, attemptVars, workerVars>>

\* The future of pool p's warm-up is done: every attempt waiting on it goes on,
\* to its run or to its failure.
WarmUpOver(p, outcome, next) ==
    /\ warm' = [warm EXCEPT ![p] = outcome]
    /\ phase' = [r \in Run |-> IF phase[r] = "pool" /\ pool[r] = p THEN next ELSE phase[r]]
    /\ UNCHANGED <<current, reset, up, pool, clock, work, workerVars>>

\* One round of PoolSize tasks, run by the children that are up.  A round ends
\* only if some child is up; the loop ends when every pid has come back.
WarmUpRound(p) ==
    /\ warm[p] = "pending" /\ procs[p] = "live"
    /\ \E pids \in SUBSET up[p] \ {{}} :
        /\ answered' = [answered EXCEPT ![p] = @ \union pids]
        /\ IF answered'[p] = Child
           THEN WarmUpOver(p, "ok", "running")
           ELSE UNCHANGED <<warm, phase, current, reset, up, pool, clock, work, workerVars>>
    /\ UNCHANGED <<procs, died>>

\* Between two rounds the warm-up finds its time up: a child is stuck, or only slow.
WarmUpTimesOut(p) ==
    /\ warm[p] = "pending" /\ procs[p] = "live"
    /\ answered[p] # {} /\ answered[p] # Child
    /\ WarmUpOver(p, "failed", "broken")
    /\ UNCHANGED <<answered, procs, died>>

\* A child dies in its initializer (a handler module that fails to import):
\* the executor breaks and the round in progress raises.
WarmUpBreaks(p) ==
    /\ warm[p] = "pending" /\ procs[p] = "live" /\ Cardinality(died) < MaxDeaths
    /\ procs' = [procs EXCEPT ![p] = "dead"]
    /\ died' = died \union {p}
    /\ WarmUpOver(p, "failed", "broken")
    /\ UNCHANGED answered

-----------------------------------------------------------------------------
(* Running *)

\* Time passes.  A break reaches the attempts of its pool within a tick (the
\* executor's thread reports it in milliseconds).
Tick ==
    /\ \A p \in Pool : procs[p] = "dead" => RunningIn(p) = {}
    /\ \E r \in Run : phase[r] = "running" /\ clock[r] < Timeout
    /\ LET older(f) == [r \in Run |-> IF phase[r] = "running" /\ f[r] < Timeout
                                      THEN f[r] + 1 ELSE f[r]]
       IN clock' = older(clock) /\ work' = older(work)
    /\ UNCHANGED <<current, reset, poolState, phase, pool, workerVars>>

\* The handler returns or raises.
HandlerEnds(r) ==
    /\ phase[r] = "running" /\ procs[pool[r]] = "live"
    /\ phase' = [phase EXCEPT ![r] = "done"]
    /\ UNCHANGED <<current, reset, poolState, pool, clock, work, workerVars>>

\* A child is killed from outside, or its handler crashes the interpreter; the
\* executor terminates the other children.
ChildDies(p) ==
    /\ procs[p] = "live" /\ warm[p] = "ok" /\ Cardinality(died) < MaxDeaths
    /\ procs' = [procs EXCEPT ![p] = "dead"]
    /\ died' = died \union {p}
    /\ UNCHANGED <<current, reset, warm, up, answered, attemptVars, workerVars>>

\* Mutant: the pool is not remembered as reset.
ResetUnrecorded(p) ==
    /\ current' = IF current = p THEN NoPool ELSE current
    /\ procs' = [procs EXCEPT ![p] = "dead"]
    /\ UNCHANGED reset

\* Mutant: whatever pool is current is forgotten.
ResetForgetsAny(p) ==
    /\ current' = NoPool
    /\ reset' = reset \union {p}
    /\ procs' = [procs EXCEPT ![p] = "dead"]

\* Kill every child of pool p; the next job starts a fresh pool.
ResetProcessPool(p) ==
    /\ current' = IF current = p THEN NoPool ELSE current
    /\ reset' = reset \union {p}
    /\ procs' = [procs EXCEPT ![p] = "dead"]

\* Past its deadline the attempt is given up and its pool reset.
TimesOut(r) ==
    /\ phase[r] = "running" /\ clock[r] = Timeout
    /\ phase' = [phase EXCEPT ![r] = "timeout"]
    /\ ResetProcessPool(pool[r])
    /\ UNCHANGED <<warm, up, answered, died, pool, clock, work, workerVars>>

\* BrokenProcessPool in a pool the worker reset: run again, same attempt.
Restart(r) ==
    /\ phase[r] = "running" /\ procs[pool[r]] = "dead" /\ pool[r] \in reset
    /\ AwaitPool(r)

\* BrokenProcessPool in any other pool: replace it, the attempt failed.
Break(r) ==
    /\ phase[r] = "running" /\ procs[pool[r]] = "dead" /\ pool[r] \notin reset
    /\ phase' = [phase EXCEPT ![r] = "broken"]
    /\ current' = IF current = pool[r] THEN NoPool ELSE current
    /\ UNCHANGED <<reset, poolState, pool, clock, work, workerVars>>

-----------------------------------------------------------------------------
(* Stopping *)

StopFetching ==
    /\ ~stopping
    /\ stopping' = TRUE
    /\ UNCHANGED <<current, reset, poolState, attemptVars, stuck, abandoned, stopped>>

\* _drain past the grace period: every attempt in flight is cancelled; a
\* process run is not reset here.
Abandon ==
    /\ stopping /\ ~stopped /\ LiveRuns # {}
    /\ abandoned' = TRUE
    /\ phase' = [r \in Run |-> IF r \in LiveRuns THEN "abandoned" ELSE phase[r]]
    /\ UNCHANGED <<current, reset, poolState, pool, clock, work, stuck, stopping, stopped>>

\* The children of pool p exit when asked to: none is still in its initializer
\* or in the handler of an abandoned attempt.
ChildrenExit(p) ==
    \/ procs[p] = "dead"
    \/ up[p] = Child /\ \A r \in Run : ~(phase[r] = "abandoned" /\ pool[r] = p)

\* _shutdown_pools: after an abandon terminate the children, else wait for them.
ShutdownPools ==
    /\ stopping /\ ~stopped /\ LiveRuns = {}
    /\ \/ current = NoPool /\ UNCHANGED procs
       \/ /\ current # NoPool
          /\ abandoned \/ ChildrenExit(current)
          /\ procs' = [procs EXCEPT ![current] = "dead"]
    /\ stopped' = TRUE
    /\ UNCHANGED <<current, reset, warm, up, answered, died, attemptVars, stuck, stopping, abandoned>>

PoolNext ==
    \/ \E r \in Run : \/ Begin(r) \/ TakeSlot(r) \/ HandlerEnds(r)
                      \/ TimesOut(r) \/ Restart(r) \/ Break(r)
    \/ \E p \in Pool : \/ WarmUpRound(p) \/ WarmUpTimesOut(p) \/ WarmUpBreaks(p)
                       \/ ChildDies(p) \/ \E c \in Child : ChildStarts(p, c)
    \/ Tick \/ StopFetching \/ Abandon \/ ShutdownPools

\* The event loop keeps running its tasks, time passes, and a child that is not
\* stuck gets through its start-up; handlers may hang, stops may never come.
\* A round repeats, so in the end it includes every child that is up.
PoolFairness ==
    /\ WF_poolVars(\E r \in Run : TakeSlot(r))
    /\ WF_poolVars(\E r \in Run : TimesOut(r) \/ Restart(r) \/ Break(r))
    /\ WF_poolVars(\E p \in Pool, c \in Child : ChildStarts(p, c))
    /\ WF_poolVars(\E p \in Pool : WarmUpRound(p) /\ up[p] \subseteq answered'[p])
    /\ WF_poolVars(\E p \in Pool : WarmUpTimesOut(p))
    /\ WF_poolVars(Tick) /\ WF_poolVars(ShutdownPools)

PoolSpec == PoolInit /\ [][PoolNext]_poolVars /\ PoolFairness

-----------------------------------------------------------------------------
(* Properties *)

\* An attempt is lost with its pool only if a child of that pool died by itself
\* or the pool never started: what another attempt's timeout kills is restarted.
BystandersRestart ==
    \A r \in Run : phase[r] = "broken" => pool[r] \in died \/ warm[pool[r]] = "failed"

\* An attempt that timed out had its handler running for the whole timeout in
\* the pool it was last started in: neither the wait for a slot, nor a pool's
\* start-up, nor the run a reset cut short counts.  While its clock runs in a
\* pool that was not killed, every child is up and there is one per attempt.
TimeoutEarned ==
    /\ \A r \in Run : phase[r] = "timeout" => work[r] = Timeout
    /\ \A p \in Pool : procs[p] = "live" /\ RunningIn(p) # {} =>
         up[p] = Child /\ Cardinality(RunningIn(p)) <= PoolSize

\* The only processes alive are those of the pool the worker knows, so that
\* _shutdown_pools leaves none behind.
NoLostPool ==
    /\ \A p \in Pool : procs[p] = "live" => p = current
    /\ stopped => \A p \in Pool : procs[p] # "live"

\* Every attempt that began has ended: none waits for a slot or a pool, and
\* none is restarted again for the reset of another.
AttemptsOver == LiveRuns = {}

\* A worker told to stop has its pools shut down, as long as its children can start: the
\* shutdown waits for a child, and one stuck in its start-up never exits by itself.
StopOver == stuck = {} /\ stopping => stopped
====
