------------------------------ MODULE JobQueue ------------------------------
(***************************************************************************)
(* The core of ftq: the Redis state of one queue and everything that       *)
(* changes it.  Each Lua script is one atomic action; each worker is a set *)
(* of concurrent tasks, one per delivery of a stream entry.                *)
(*                                                                         *)
(* A worker process has a unique consumer name and never comes back: a     *)
(* restart is another member of Worker.  Time is abstract: an entry's      *)
(* lease is running or expired, a delayed retry is due or not.  Statistics *)
(* counters, payloads, results' contents and error texts are left out.     *)
(*                                                                         *)
(* Admission control (steps 1-3 of enqueue.lua) is module Backpressure;    *)
(* here an Enqueue is one that was admitted, since a refused one leaves    *)
(* this state alone.                                                       *)
(***************************************************************************)
EXTENDS Integers, FiniteSets

CONSTANTS
    Worker,            \* consumer names, one per worker process
    Job,               \* job ids
    Stamp,             \* values of enqueued_at_ms, as far as they differ
    Handles,           \* [Worker -> SUBSET Job]: the jobs a worker can parse and has a handler for
    Beating,           \* the jobs whose handler is registered with heartbeat=True
    Concurrency,       \* Settings.concurrency
    MaxAttempts,       \* Settings.max_attempts
    MaxDeliveries,     \* Settings.max_deliveries
    SuspectDeliveries, \* Settings.suspect_deliveries
    SchedulerBatch,    \* Settings.scheduler_batch
    Steady,            \* the workers that are never stopped and never crash
    MaxEntry,          \* bound: stream entries ever added
    MaxSends,          \* bound: times one enqueue is sent
    MaxRequeues,       \* bound: operator requeues
    MaxFaults,         \* bound: lost replies, Redis errors and stalls
    NoFields,          \* in place of an entry's fields: no such entry
    NoOwner            \* in place of an entry's consumer: not pending

EntryId == 1 .. MaxEntry
NoGroup == -1
NoEntry == 0

\* The job fields that matter: identity, attempt number, time of acceptance.
Fields == [job : Job, attempt : 0 .. MaxAttempts - 1, stamp : Stamp]

\* What the settings' validators enforce.
ASSUME SettingsAssumption ==
    /\ Handles \in [Worker -> SUBSET Job]
    /\ Beating \subseteq Job
    /\ Steady \subseteq Worker
    /\ Concurrency \in Nat \ {0}
    /\ MaxAttempts \in Nat \ {0}
    /\ MaxDeliveries \in Nat \ {0}
    /\ SuspectDeliveries \in Nat \ {0, 1}
    /\ SchedulerBatch \in Nat \ {0}

ASSUME BoundsAssumption == {MaxEntry, MaxSends, MaxRequeues, MaxFaults} \subseteq Nat

ASSUME SentinelAssumption == NoFields \notin Fields /\ NoOwner \notin Worker

VARIABLES
    entry,       \* the stream: the fields of each entry in it, NoFields elsewhere
    next,        \* the id XADD '*' gives next
    last,        \* the group's last-delivered-id, or NoGroup before XGROUP CREATE
    owner,       \* the PEL: the consumer of each pending entry, NoOwner elsewhere
    deliveries,  \* the PEL's delivery counts, 0 elsewhere
    expired,     \* pending entries idle for visibility_timeout or longer
    consumers,   \* consumer records of the group
    delayed,     \* the delayed set: job fields waiting for their backoff
    due,         \* its members whose score has passed
    done,        \* done keys: the state field, "NONE" without a key
    deadEntry,   \* done keys: the dead_entry_id field
    dlq,         \* the dead-letter stream: fields by source entry id
    results,     \* results log: number of entries of each job
    marked,      \* jobs whose ledger marker is set
    effects,     \* effects log: number of entries of each job
    status,      \* lifecycle of each worker
    tasks,       \* Worker._in_flight, over all workers
    orphans,     \* Worker._orphans: timed-out runs that still run
    sends,       \* times each job's enqueue added an entry
    requeues,    \* operator requeues so far
    faults       \* faults so far

groupVars  == <<last, owner, deliveries, expired, consumers>>
queueVars  == <<entry, next, groupVars>>
retryVars  == <<delayed, due>>
doneVars   == <<done, deadEntry, dlq, results>>
ledgerVars == <<marked, effects>>
workerVars == <<status, tasks, orphans>>
envVars    == <<sends, requeues, faults>>
vars == <<queueVars, retryVars, doneVars, ledgerVars, workerVars, envVars>>

-----------------------------------------------------------------------------
WithAttempt(f, n) == [f EXCEPT !.attempt = n]

\* "running": the handler runs and its heartbeat loop beats.  "silent": it runs
\* without one.  "ok", "failed": the handler has ended, and the transition it calls
\* for has not been answered yet.  "doomed": to be dead-lettered unrun.
Phase == {"running", "silent", "ok", "failed", "doomed"}
Task == [w : Worker, e : EntryId, d : Nat \ {0}, f : Fields, phase : Phase]
Orphan == [w : Worker, e : EntryId, d : Nat \ {0}, f : Fields]
Status == {"off", "up", "stopping", "draining", "down"}

Stream == {e \in EntryId : entry[e] # NoFields}
Pel == {e \in EntryId : owner[e] # NoOwner}
Waiting == {e \in Stream : e > last}
TasksOf(w) == {t \in tasks : t.w = w}
OrphansOf(w) == {o \in orphans : o.w = w}

\* Mutant: an orphaned run gives its slot back.
FreeOfOrphans(w) == Concurrency - Cardinality(TasksOf(w))

\* Slots left to a worker: an orphaned run keeps its slot.
Free(w) == Concurrency - Cardinality(TasksOf(w)) - Cardinality(OrphansOf(w))

SuspectThreshold ==
    IF SuspectDeliveries <= MaxDeliveries THEN SuspectDeliveries ELSE MaxDeliveries
IsSuspect(d) == SuspectThreshold <= d /\ d <= MaxDeliveries

\* Worker._suspects: tasks that a reaper pass (hence d > 1) started as suspects.
SuspectsOf(w) == {t \in TasksOf(w) : t.d > 1 /\ IsSuspect(t.d)}

Fault == faults < MaxFaults /\ faults' = faults + 1

Init ==
    /\ entry = [e \in EntryId |-> NoFields] /\ next = 1
    /\ last = NoGroup /\ consumers = {} /\ expired = {}
    /\ owner = [e \in EntryId |-> NoOwner] /\ deliveries = [e \in EntryId |-> 0]
    /\ delayed = {} /\ due = {}
    /\ done = [j \in Job |-> "NONE"] /\ deadEntry = [j \in Job |-> NoEntry]
    /\ dlq = [e \in EntryId |-> NoFields] /\ results = [j \in Job |-> 0]
    /\ marked = {} /\ effects = [j \in Job |-> 0]
    /\ status = [w \in Worker |-> "off"] /\ tasks = {} /\ orphans = {}
    /\ sends = [j \in Job |-> 0] /\ requeues = 0 /\ faults = 0

-----------------------------------------------------------------------------
(* Producers and operators *)

\* XADD stream '*' f
Add(f) ==
    /\ next \in EntryId
    /\ entry' = [entry EXCEPT ![next] = f]
    /\ next' = next + 1

\* enqueue.lua, once admitted: stamp the job with Redis's clock and append it.  A send
\* whose reply was lost is sent again by the client and, without an idempotency key,
\* appends the same job a second time, with a stamp of its own.
Enqueue(j) ==
    /\ sends[j] < MaxSends
    /\ \E s \in Stamp : Add([job |-> j, attempt |-> 0, stamp |-> s])
    /\ sends' = [sends EXCEPT ![j] = @ + 1]
    /\ UNCHANGED <<groupVars, retryVars, doneVars, ledgerVars, workerVars, requeues, faults>>

\* requeue.lua: a DEAD job goes back to the stream with its attempts reset, leaves the
\* DLQ and loses its done key.
RequeueScript(j) ==
    LET dead == deadEntry[j] IN
    /\ done[j] = "DEAD" /\ dlq[dead] # NoFields
    /\ Add(WithAttempt(dlq[dead], 0))
    /\ dlq' = [dlq EXCEPT ![dead] = NoFields]
    /\ done' = [done EXCEPT ![j] = "NONE"]
    /\ deadEntry' = [deadEntry EXCEPT ![j] = NoEntry]

\* `ftq dlq requeue`
Requeue(j) ==
    /\ requeues < MaxRequeues
    /\ RequeueScript(j)
    /\ requeues' = requeues + 1
    /\ UNCHANGED <<groupVars, retryVars, results, ledgerVars, workerVars, sends, faults>>

-----------------------------------------------------------------------------
(* Worker lifecycle *)

\* Mutant: the group is created at '$'.
EnsureGroupAtEnd == last' = IF last = NoGroup THEN next - 1 ELSE last

\* Worker.ensure_group: XGROUP CREATE at id 0; an existing group is left alone.
EnsureGroup == last' = IF last = NoGroup THEN 0 ELSE last

Start(w) ==
    /\ status[w] = "off"
    /\ EnsureGroup
    /\ status' = [status EXCEPT ![w] = "up"]
    /\ UNCHANGED <<entry, next, owner, deliveries, expired, consumers, retryVars, doneVars,
                   ledgerVars, tasks, orphans, envVars>>

\* Worker.request_stop: the blocking read under way, if any, still returns.
RequestStop(w) ==
    /\ w \notin Steady
    /\ status[w] = "up"
    /\ status' = [status EXCEPT ![w] = "stopping"]
    /\ UNCHANGED <<queueVars, retryVars, doneVars, ledgerVars, tasks, orphans, envVars>>

\* The fetch loop sees the stop; the maintenance loop is cancelled and the drain starts.
StopFetching(w) ==
    /\ status[w] = "stopping"
    /\ status' = [status EXCEPT ![w] = "draining"]
    /\ UNCHANGED <<queueVars, retryVars, doneVars, ledgerVars, tasks, orphans, envVars>>

\* The process is gone, with every task and every orphaned run in it; Redis keeps its
\* pending entries.
Vanish(w) ==
    /\ status' = [status EXCEPT ![w] = "down"]
    /\ tasks' = tasks \ TasksOf(w)
    /\ orphans' = orphans \ OrphansOf(w)
    /\ UNCHANGED <<queueVars, retryVars, doneVars, ledgerVars, envVars>>

\* The drain is over: nothing is in flight, or the grace period has passed and what is
\* left is abandoned.
Exit(w) == status[w] = "draining" /\ Vanish(w)

Crash(w) ==
    /\ w \notin Steady
    /\ status[w] \in {"up", "stopping", "draining"}
    /\ Vanish(w)

-----------------------------------------------------------------------------
(* Deliveries *)

\* A reply that arrives, or one that is lost although the command was carried out.
Reply(received) == IF received THEN UNCHANGED faults ELSE Fault

\* What Worker._process finds out before it runs anything: an entry that cannot be
\* parsed, has been delivered too often or has no handler here is dead-lettered unrun.
FirstPhase(w, d, f) ==
    IF f.job \notin Handles[w] \/ d > MaxDeliveries THEN "doomed"
    ELSE IF f.job \in Beating THEN "running" ELSE "silent"

\* Worker._spawn: one task per delivered entry, told its delivery count.
Spawn(w, es, count) ==
    {[w |-> w, e |-> e, d |-> count[e], f |-> entry[e],
      phase |-> FirstPhase(w, count[e], entry[e])] : e \in es}

\* XREADGROUP '>' COUNT Free(w): the oldest entries never delivered become pending.
\* If the reply is lost they stay pending with no task working on them.
Fetch(w, received) ==
    /\ status[w] \in {"up", "stopping"}
    /\ Free(w) > 0
    /\ \E n \in {last} \cup Waiting :
         LET got == {e \in Waiting : e <= n} IN
         /\ Cardinality(got) <= Free(w)
         /\ Cardinality(got) = Free(w) \/ got = Waiting
         /\ received \/ got # {}
         /\ last' = n
         /\ owner' = [e \in EntryId |-> IF e \in got THEN w ELSE owner[e]]
         /\ deliveries' = [e \in EntryId |-> IF e \in got THEN 1 ELSE deliveries[e]]
         /\ tasks' = IF received THEN tasks \cup Spawn(w, got, deliveries') ELSE tasks
    /\ consumers' = consumers \cup {w}
    /\ status' = [status EXCEPT ![w] = IF @ = "stopping" THEN "draining" ELSE @]
    /\ Reply(received)
    /\ UNCHANGED <<entry, next, expired, retryVars, doneVars, ledgerVars, orphans, sends, requeues>>

\* Mutant: suspect_slots is not decremented.
KeptWithoutCounting(claimed, slots) ==
    {e \in claimed : IsSuspect(deliveries[e] + 1) => slots > 0}

\* Mutant: off by one in the slot test.
KeptNever(claimed, slots) ==
    {e \in claimed : IsSuspect(deliveries[e] + 1) => slots > 1}

\* reclaim.lua, step 2: which of the claimed entries the caller keeps.  The delivery
\* count has just been incremented; the first suspect may take the only suspect slot.
Kept(claimed, slots) ==
    {e \in claimed :
        IsSuspect(deliveries[e] + 1) =>
            /\ slots > 0
            /\ \A o \in claimed : IsSuspect(deliveries[o] + 1) => e <= o}

\* reclaim.lua: XAUTOCLAIM takes over expired entries, at most one per free slot, in id
\* order from the reaper's cursor.  The entries not kept are put back: still expired,
\* their count restored, but with the caller as their consumer.
Reclaim(w, received) ==
    /\ status[w] \in {"up", "stopping"}
    /\ Free(w) > 0
    /\ \E lo, hi \in EntryId :
         LET claimed == {e \in expired : lo <= e /\ e <= hi}
             kept == Kept(claimed, IF SuspectsOf(w) = {} THEN 1 ELSE 0)
         IN /\ claimed # {}
            /\ Cardinality(claimed) <= Free(w)
            /\ owner' = [e \in EntryId |-> IF e \in claimed THEN w ELSE owner[e]]
            /\ deliveries' =
                 [e \in EntryId |-> IF e \in kept THEN deliveries[e] + 1 ELSE deliveries[e]]
            /\ expired' = expired \ kept
            /\ received \/ kept # {}
            /\ tasks' = IF received THEN tasks \cup Spawn(w, kept, deliveries') ELSE tasks
    /\ consumers' = consumers \cup {w}
    /\ Reply(received)
    /\ UNCHANGED <<entry, next, last, retryVars, doneVars, ledgerVars, status, orphans,
                   sends, requeues>>

\* The owner of e has a task that keeps the lease alive or is about to give it up.
Held(e) == \E t \in tasks : t.e = e /\ t.w = owner[e] /\ t.phase # "silent"

\* The idle time of a pending entry reaches visibility_timeout.  While its owner holds
\* it, that takes a stall: a blocked event loop, a pause, a partition.
LeaseExpires(e) ==
    /\ e \in Pel \ expired
    /\ IF Held(e) THEN Fault ELSE UNCHANGED faults
    /\ expired' = expired \cup {e}
    /\ UNCHANGED <<entry, next, last, owner, deliveries, consumers, retryVars, doneVars,
                   ledgerVars, workerVars, sends, requeues>>

\* Mutant: the check that a consumer owns nothing is missing.
PruneOwners(w, idle) ==
    /\ status[w] \in {"up", "stopping"}
    /\ idle # {}
    /\ consumers' = consumers \ idle
    /\ owner' = [e \in EntryId |-> IF owner[e] \in idle THEN NoOwner ELSE owner[e]]
    /\ deliveries' = [e \in EntryId |-> IF owner[e] \in idle THEN 0 ELSE deliveries[e]]
    /\ expired' = {e \in expired : owner[e] \notin idle}
    /\ UNCHANGED <<entry, next, last, retryVars, doneVars, ledgerVars, workerVars, envVars>>

\* prune_consumers.lua: of the consumers idle for long enough, other than the caller,
\* delete those that own nothing.  XGROUP DELCONSUMER would discard what they own.
Prune(w, idle) ==
    LET deleted == {c \in idle : \A e \in Pel : owner[e] # c} IN
    /\ status[w] \in {"up", "stopping"}
    /\ deleted # {}
    /\ consumers' = consumers \ deleted
    /\ owner' = [e \in EntryId |-> IF owner[e] \in deleted THEN NoOwner ELSE owner[e]]
    /\ deliveries' = [e \in EntryId |-> IF owner[e] \in deleted THEN 0 ELSE deliveries[e]]
    /\ expired' = {e \in expired : owner[e] \notin deleted}
    /\ UNCHANGED <<entry, next, last, retryVars, doneVars, ledgerVars, workerVars, envVars>>

-----------------------------------------------------------------------------
(* Handler runs *)

InPhase(t, p) == [t EXCEPT !.phase = p]
SetPhase(t, p) == tasks' = (tasks \ {t}) \cup {InPhase(t, p)}
Running(t) == t.phase \in {"running", "silent"}

\* Mutant: SET without NX.
LedgerApplyAlways(j) ==
    /\ marked' = marked \cup {j}
    /\ effects' = [effects EXCEPT ![j] = @ + 1]

\* ledger.lua: SET NX the marker; append to the effects log only if that succeeded.
LedgerApply(j) ==
    IF j \in marked
    THEN UNCHANGED ledgerVars
    ELSE /\ marked' = marked \cup {j}
         /\ effects' = [effects EXCEPT ![j] = @ + 1]

\* A run, in flight or orphaned, performs its job's side effect through the ledger.
ApplyEffect(r) ==
    /\ r \in orphans \/ (r \in tasks /\ Running(r))
    /\ LedgerApply(r.f.job)
    /\ UNCHANGED <<queueVars, retryVars, doneVars, workerVars, envVars>>

\* The handler returns.  By then its ledger call was answered: the marker is set.
HandlerReturns(t) ==
    /\ Running(t) /\ t.f.job \in marked
    /\ SetPhase(t, "ok")
    /\ UNCHANGED <<queueVars, retryVars, doneVars, ledgerVars, status, orphans, envVars>>

\* The handler raises, or times out and really stops.
HandlerFails(t) ==
    /\ Running(t)
    /\ SetPhase(t, "failed")
    /\ UNCHANGED <<queueVars, retryVars, doneVars, ledgerVars, status, orphans, envVars>>

\* The handler times out but cannot be stopped (a thread, or a coroutine that swallows
\* its cancellation): the attempt has failed and the run goes on as an orphan.
HandlerTimesOut(t) ==
    /\ Running(t)
    /\ SetPhase(t, "failed")
    /\ orphans' = orphans \cup {[w |-> t.w, e |-> t.e, d |-> t.d, f |-> t.f]}
    /\ UNCHANGED <<queueVars, retryVars, doneVars, ledgerVars, status, envVars>>

\* The orphan ends; its outcome is discarded.
OrphanEnds(o) ==
    /\ orphans' = orphans \ {o}
    /\ UNCHANGED <<queueVars, retryVars, doneVars, ledgerVars, status, tasks, envVars>>

-----------------------------------------------------------------------------
(* Transitions of a task *)

\* The task ends with the reply.  If the reply is lost, the client library sends the
\* same call again: the task stays where it is.
Answered(t, received) ==
    /\ tasks' = IF received THEN tasks \ {t} ELSE tasks
    /\ Reply(received)

\* XPENDING for one id: is the caller the entry's current consumer?
Owns(w, e) == owner[e] = w

\* XACK, then XDEL
Remove(e) ==
    /\ entry' = [entry EXCEPT ![e] = NoFields]
    /\ owner' = [owner EXCEPT ![e] = NoOwner]
    /\ deliveries' = [deliveries EXCEPT ![e] = 0]
    /\ expired' = expired \ {e}

\* Mutant: XCLAIM without the ownership check.
HeartbeatSteals(w, e) ==
    IF owner[e] # NoOwner
    THEN expired' = expired \ {e} /\ owner' = [owner EXCEPT ![e] = w]
    ELSE UNCHANGED <<expired, owner>>

\* heartbeat.lua: the owner claims its own entry again, which resets the idle time and
\* leaves the delivery count alone.
HeartbeatScript(w, e) ==
    IF Owns(w, e)
    THEN expired' = expired \ {e} /\ owner' = [owner EXCEPT ![e] = w]
    ELSE UNCHANGED <<expired, owner>>

\* Worker._heartbeat_loop: a beat that finds the lease lost is the loop's last one.
Heartbeat(t) ==
    /\ t.phase = "running"
    /\ HeartbeatScript(t.w, t.e)
    /\ IF Owns(t.w, t.e) THEN UNCHANGED tasks ELSE SetPhase(t, "silent")
    /\ UNCHANGED <<entry, next, last, deliveries, consumers, retryVars, doneVars,
                   ledgerVars, status, orphans, envVars>>

\* Mutant: every commit records a result.
CommitAgain(e, j) ==
    /\ Remove(e)
    /\ done' = [done EXCEPT ![j] = "SUCCEEDED"]
    /\ deadEntry' = [deadEntry EXCEPT ![j] = NoEntry]
    /\ dlq' = [i \in EntryId |->
                 IF done[j] = "DEAD" /\ i = deadEntry[j] THEN NoFields ELSE dlq[i]]
    /\ results' = [results EXCEPT ![j] = @ + 1]

\* Mutant: a late success leaves the DLQ alone.
CommitKeepsDlq(e, j) ==
    /\ Remove(e)
    /\ IF done[j] = "SUCCEEDED"
       THEN UNCHANGED doneVars
       ELSE /\ done' = [done EXCEPT ![j] = "SUCCEEDED"]
            /\ deadEntry' = [deadEntry EXCEPT ![j] = NoEntry]
            /\ results' = [results EXCEPT ![j] = @ + 1]
            /\ UNCHANGED dlq

\* commit.lua: no ownership check; the first success of a job wins, also over an earlier
\* DEAD, whose DLQ entry it deletes; a later one only removes its entry.
CommitScript(e, j) ==
    /\ Remove(e)
    /\ IF done[j] = "SUCCEEDED"
       THEN UNCHANGED doneVars
       ELSE /\ done' = [done EXCEPT ![j] = "SUCCEEDED"]
            /\ deadEntry' = [deadEntry EXCEPT ![j] = NoEntry]
            /\ dlq' = [i \in EntryId |->
                         IF done[j] = "DEAD" /\ i = deadEntry[j] THEN NoFields ELSE dlq[i]]
            /\ results' = [results EXCEPT ![j] = @ + 1]

Commit(t, received) ==
    /\ t.phase = "ok"
    /\ CommitScript(t.e, t.f.job)
    /\ Answered(t, received)
    /\ UNCHANGED <<next, last, consumers, retryVars, ledgerVars, status, orphans, sends, requeues>>

\* Mutant: off by one.
AttemptsUsedUpLate(f) == f.attempt + 1 > MaxAttempts

\* Worker._fail: was this the job's last attempt?
AttemptsUsedUp(f) == f.attempt + 1 >= MaxAttempts

\* Mutant: the entry is acknowledged before the ownership check.
RetryAcksFirst(w, e, j) ==
    /\ Remove(e)
    /\ IF ~Owns(w, e) \/ done[j] # "NONE"
       THEN UNCHANGED retryVars
       ELSE LET member == WithAttempt(entry[e], entry[e].attempt + 1) IN
            /\ delayed' = delayed \cup {member}
            /\ due' = due \ {member}

\* Mutant: the failed entry is not removed.
RetryKeepsEntry(w, e, j) ==
    /\ UNCHANGED <<entry, owner, deliveries, expired>>
    /\ IF ~Owns(w, e) \/ done[j] # "NONE"
       THEN UNCHANGED retryVars
       ELSE LET member == WithAttempt(entry[e], entry[e].attempt + 1) IN
            /\ delayed' = delayed \cup {member}
            /\ due' = due \ {member}

\* retry.lua: the owner parks the failed entry's fields, attempt bumped, in the delayed
\* set.  A member that is there already only gets a new score.
RetryScript(w, e, j) ==
    IF ~Owns(w, e)
    THEN UNCHANGED <<entry, owner, deliveries, expired, retryVars>>
    ELSE /\ Remove(e)
         /\ IF done[j] # "NONE"
            THEN UNCHANGED retryVars
            ELSE LET member == WithAttempt(entry[e], entry[e].attempt + 1) IN
                 /\ delayed' = delayed \cup {member}
                 /\ due' = due \ {member}

Retry(t, received) ==
    /\ t.phase = "failed" /\ ~AttemptsUsedUp(t.f)
    /\ RetryScript(t.w, t.e, t.f.job)
    /\ Answered(t, received)
    /\ UNCHANGED <<next, last, consumers, doneVars, ledgerVars, status, orphans, sends, requeues>>

\* Mutant: the terminal-state check is missing.
DeadAlways(w, e, j) ==
    IF ~Owns(w, e)
    THEN UNCHANGED <<entry, owner, deliveries, expired, doneVars>>
    ELSE /\ Remove(e)
         /\ dlq' = [dlq EXCEPT ![e] = entry[e]]
         /\ done' = [done EXCEPT ![j] = "DEAD"]
         /\ deadEntry' = [deadEntry EXCEPT ![j] = e]
         /\ UNCHANGED results

\* dead.lua: the owner moves the entry to the DLQ, unless another copy of the job is
\* already terminal; then the entry is only dropped.
DeadScript(w, e, j) ==
    IF ~Owns(w, e)
    THEN UNCHANGED <<entry, owner, deliveries, expired, doneVars>>
    ELSE /\ Remove(e)
         /\ IF done[j] # "NONE"
            THEN UNCHANGED doneVars
            ELSE /\ dlq' = [dlq EXCEPT ![e] = entry[e]]
                 /\ done' = [done EXCEPT ![j] = "DEAD"]
                 /\ deadEntry' = [deadEntry EXCEPT ![j] = e]
                 /\ UNCHANGED results

Dead(t, received) ==
    /\ t.phase = "doomed" \/ (t.phase = "failed" /\ AttemptsUsedUp(t.f))
    /\ DeadScript(t.w, t.e, t.f.job)
    /\ Answered(t, received)
    /\ UNCHANGED <<next, last, consumers, retryVars, ledgerVars, status, orphans, sends, requeues>>

\* Mutant: a task that gives up acknowledges its entry.
GiveUpAndAck(t) ==
    /\ ~Running(t)
    /\ tasks' = tasks \ {t}
    /\ Remove(t.e)
    /\ Fault
    /\ UNCHANGED <<next, last, consumers, retryVars, doneVars, ledgerVars, status, orphans,
                   sends, requeues>>

\* Redis is unreachable, or refuses the script: the task ends, the entry stays pending.
GiveUp(t) ==
    /\ ~Running(t)
    /\ tasks' = tasks \ {t}
    /\ Fault
    /\ UNCHANGED <<queueVars, retryVars, doneVars, ledgerVars, status, orphans, sends, requeues>>

-----------------------------------------------------------------------------
(* The delayed set *)

BackoffElapses(m) ==
    /\ m \in delayed \ due
    /\ due' = due \cup {m}
    /\ UNCHANGED <<queueVars, delayed, doneVars, ledgerVars, workerVars, envVars>>

\* schedule.lua: move up to SchedulerBatch due members to the stream, oldest score first.
Schedule(w) ==
    /\ status[w] \in {"up", "stopping"}
    /\ \E n \in 1 .. SchedulerBatch : \E moved \in [1 .. n -> due] :
         LET gone == {moved[i] : i \in 1 .. n} IN
         /\ \A i, k \in 1 .. n : moved[i] = moved[k] => i = k
         /\ n = SchedulerBatch \/ gone = due
         /\ next + n - 1 \in EntryId
         /\ entry' = [e \in EntryId |->
                         IF e \in next .. next + n - 1 THEN moved[e - next + 1] ELSE entry[e]]
         /\ next' = next + n
         /\ delayed' = delayed \ gone
         /\ due' = due \ gone
    /\ UNCHANGED <<groupVars, doneVars, ledgerVars, workerVars, envVars>>

-----------------------------------------------------------------------------
TaskStep(t) ==
    \/ Heartbeat(t) \/ ApplyEffect(t)
    \/ HandlerReturns(t) \/ HandlerFails(t) \/ HandlerTimesOut(t)
    \/ GiveUp(t)
    \/ \E received \in BOOLEAN : Commit(t, received) \/ Retry(t, received) \/ Dead(t, received)

WorkerStep(w) ==
    \/ Start(w) \/ RequestStop(w) \/ StopFetching(w) \/ Exit(w) \/ Crash(w)
    \/ \E received \in BOOLEAN : Fetch(w, received) \/ Reclaim(w, received)
    \/ Schedule(w)
    \/ \E idle \in SUBSET (consumers \ {w}) : Prune(w, idle)

Next ==
    \/ \E j \in Job : Enqueue(j) \/ Requeue(j)
    \/ \E w \in Worker : WorkerStep(w)
    \/ \E e \in EntryId : LeaseExpires(e)
    \/ \E t \in tasks : TaskStep(t)
    \/ \E o \in orphans : ApplyEffect(o) \/ OrphanEnds(o)
    \/ \E m \in delayed : BackoffElapses(m)

Spec == Init /\ [][Next]_vars

\* The run ends: it returns, raises, or is cut off by its timeout.
RunEnds(t) == HandlerReturns(t) \/ HandlerFails(t) \/ HandlerTimesOut(t)
\* The transition's reply arrives.
Settles(t) == Commit(t, TRUE) \/ Retry(t, TRUE) \/ Dead(t, TRUE)

\* What the code's scheduling gives: a steady worker keeps starting, fetching, reaping
\* and scheduling; every run ends, by its timeout if nothing else; the transitions are
\* answered; a stopped worker leaves; and time passes.  That orphaned runs end is up to
\* the handlers.
Fairness ==
    /\ \A w \in Steady :
         /\ WF_vars(Start(w))
         /\ WF_vars(Fetch(w, TRUE))
         /\ WF_vars(Reclaim(w, TRUE))
         /\ WF_vars(Schedule(w))
    /\ \A w \in Worker :
         /\ WF_vars(StopFetching(w))
         /\ WF_vars(Exit(w))
         /\ WF_vars(\E o \in OrphansOf(w) : OrphanEnds(o))
         /\ \A e \in EntryId :
              WF_vars(\E t \in TasksOf(w) : t.e = e /\ (RunEnds(t) \/ Settles(t)))
    /\ \A e \in EntryId : WF_vars(~Held(e) /\ LeaseExpires(e))
    /\ \A m \in Fields : WF_vars(BackoffElapses(m))

FairSpec == Spec /\ Fairness

-----------------------------------------------------------------------------
(* Properties *)

\* Type invariant.  The attempt numbers are part of it: no entry, retry, DLQ entry or
\* task carries an attempt the job was not entitled to (Worker._fail).
TypeOK ==
    /\ entry \in [EntryId -> Fields \cup {NoFields}]
    /\ next \in 1 .. MaxEntry + 1
    /\ last \in NoGroup .. MaxEntry
    /\ owner \in [EntryId -> Worker \cup {NoOwner}]
    /\ deliveries \in [EntryId -> Nat]
    /\ expired \subseteq EntryId
    /\ consumers \subseteq Worker
    /\ delayed \subseteq Fields
    /\ due \subseteq delayed
    /\ done \in [Job -> {"NONE", "SUCCEEDED", "DEAD"}]
    /\ deadEntry \in [Job -> EntryId \cup {NoEntry}]
    /\ dlq \in [EntryId -> Fields \cup {NoFields}]
    /\ results \in [Job -> Nat]
    /\ marked \subseteq Job
    /\ effects \in [Job -> Nat]
    /\ status \in [Worker -> Status]
    /\ tasks \subseteq Task
    /\ orphans \subseteq Orphan
    /\ sends \in [Job -> 0 .. MaxSends]
    /\ requeues \in 0 .. MaxRequeues
    /\ faults \in 0 .. MaxFaults

\* The entries with a lease are pending.
ExpiredPending == expired \subseteq Pel

\* Entry ids are used once: what is in the stream or the DLQ has an old id, and no entry
\* is in both.
IdsFresh ==
    /\ last < next
    /\ \A e \in EntryId :
         /\ entry[e] # NoFields \/ dlq[e] # NoFields => e < next
         /\ entry[e] # NoFields => dlq[e] = NoFields

\* A task works on a delivered entry, and on the job that the entry holds.
TasksMatch == \A t \in tasks : t.e <= last /\ entry[t.e] \in {t.f, NoFields}

HasCopy(j) ==
    \/ \E e \in EntryId : entry[e] # NoFields /\ entry[e].job = j
    \/ \E m \in delayed : m.job = j

\* No accepted job is lost: in every state it is in the stream or the delayed set, or it
\* is terminal.
NoLoss == \A j \in Job : sends[j] > 0 => HasCopy(j) \/ done[j] # "NONE"

\* Every entry in the stream is either still to be delivered or pending, and every
\* pending entry is in the stream: a delivered entry leaves both in one step, so none
\* sits where neither a fetch nor a reaper finds it, and XLEN is undelivered + in flight.
PendingExact == \A e \in EntryId : owner[e] # NoOwner <=> (entry[e] # NoFields /\ e <= last)

\* The DLQ holds exactly the DEAD jobs, each once, under the id its done key names.
DlqExact ==
    /\ \A j \in Job : done[j] = "DEAD" =>
          /\ deadEntry[j] \in EntryId
          /\ dlq[deadEntry[j]] # NoFields
          /\ dlq[deadEntry[j]].job = j
    /\ \A e \in EntryId : dlq[e] # NoFields =>
          done[dlq[e].job] = "DEAD" /\ deadEntry[dlq[e].job] = e

\* The inductive invariant behind TypeOK, PendingExact and DlqExact.
Consistent ==
    TypeOK /\ PendingExact /\ ExpiredPending /\ IdsFresh /\ TasksMatch /\ DlqExact

\* A job has one entry in the results log if it succeeded, and none otherwise.
OneResult == \A j \in Job : results[j] = IF done[j] = "SUCCEEDED" THEN 1 ELSE 0

\* A job's effect is applied at most once over all its deliveries, attempts, orphaned
\* runs and requeues, and exactly once if it succeeded.
EffectOnce ==
    \A j \in Job : effects[j] <= 1 /\ (done[j] = "SUCCEEDED" => effects[j] = 1)

\* The ledger's markers and log agree; a run that has ended well, and a success, had
\* their job's effect before.
LedgerExact ==
    /\ \A j \in Job : effects[j] = IF j \in marked THEN 1 ELSE 0
    /\ \A t \in tasks : t.phase = "ok" => t.f.job \in marked
    /\ \A j \in Job : done[j] = "SUCCEEDED" => j \in marked

\* Nothing is known of a job that was never enqueued.
OnlySent ==
    /\ \A e \in EntryId :
         /\ entry[e] # NoFields => sends[entry[e].job] > 0
         /\ dlq[e] # NoFields => sends[dlq[e].job] > 0
    /\ \A r \in tasks \cup orphans : sends[r.f.job] > 0
    /\ \A m \in delayed : sends[m.job] > 0
    /\ \A j \in Job : done[j] # "NONE" => sends[j] > 0

\* The inductive invariant behind NoLoss, OneResult, EffectOnce and RefinesContract.
Faithful == Consistent /\ NoLoss /\ OneResult /\ LedgerExact /\ OnlySent

Copies(j) ==
    Cardinality({e \in Stream : entry[e].job = j}) + Cardinality({m \in delayed : m.job = j})

\* Copies of a job come from enqueues only.  Retries, redeliveries, the scheduler and
\* requeues move a copy and never make one.
NoNewCopies ==
    \A j \in Job : Copies(j) + (IF done[j] = "DEAD" THEN 1 ELSE 0) <= sends[j]

\* A worker never has more handlers running than slots, orphaned runs included, so a
\* blocking handler never waits for a thread; and never two suspects in flight.
SlotsRespected ==
    \A w \in Worker :
        /\ Cardinality({t \in TasksOf(w) : Running(t)} \cup OrphansOf(w)) <= Concurrency
        /\ Cardinality(SuspectsOf(w)) <= 1

\* The Redis connections a worker can hold at once: its fetch and maintenance loops one
\* each, a run one for its ledger call and, while it beats, one for its heartbeat, a task
\* past its run one for its transition, an orphan one for its ledger call.
WorkerLoopConnections == 2
ConnectionsOf(w) ==
    WorkerLoopConnections + Cardinality(OrphansOf(w)) + Cardinality(TasksOf(w))
        + Cardinality({t \in TasksOf(w) : t.phase = "running" /\ t.f.job \in Beating})

\* Settings.redis_max_connections, without its floor.
RedisMaxConnections == 2 * Concurrency + WorkerLoopConnections

\* The pool is never exhausted, so no heartbeat or transition fails for want of a
\* connection, although a task and the orphan it left behind both hold one.
ConnectionsSuffice == \A w \in Worker : ConnectionsOf(w) <= RedisMaxConnections

\* A lease protects its holder: another worker takes an entry over only once it has
\* expired, and an entry leaves the queue only because its job has succeeded or because
\* a task of its owner gives it up.
LeaseRespected ==
    [][\A e \in Pel :
        /\ owner'[e] \notin {owner[e], NoOwner} => e \in expired
        /\ owner'[e] = NoOwner =>
              \/ done'[entry[e].job] = "SUCCEEDED"
              \/ \E t \in tasks : t.e = e /\ t.w = owner[e] /\ t.phase \in {"failed", "doomed"}]_vars

ContractState ==
    [j \in Job |-> IF sends[j] = 0 THEN "UNKNOWN"
                   ELSE IF done[j] = "NONE" THEN "ACCEPTED" ELSE done[j]]

Contract == INSTANCE JobContract WITH state <- ContractState

\* The queue implements the contract: SUCCEEDED is final, DEAD never replaces it, only a
\* DEAD job is requeued, and results and effects are recorded once.
RefinesContract == Contract!Spec

\* As long as one worker stays up and faults do not go on for ever, the queue drains:
\* with NoLoss, every accepted job then is SUCCEEDED or DEAD.
QueueDrains == <>[](Stream = {} /\ delayed = {})

\* The contract's liveness: an accepted job eventually is SUCCEEDED or DEAD.
MeetsContract == Contract!FairSpec

-----------------------------------------------------------------------------
(* What the documentation says and the code does not do *)

\* ADR-035: "each worker runs at most one at a time" (suspects), counting every run that
\* is going on.  (A timed-out suspect's run goes on as an orphan.)
OneSuspectRuns ==
    \A w \in Worker :
        Cardinality({<<r.e, r.d>> : r \in {t \in TasksOf(w) : Running(t)} \cup OrphansOf(w)}
                    \cap {x \in EntryId \X (2 .. MaxDeliveries) : IsSuspect(x[2])}) <= 1
====
