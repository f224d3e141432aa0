---------------------------- MODULE ChaosVerdict ----------------------------
(***************************************************************************)
(* What a chaos run's verdict rests on: the kinds of jobs it enqueues      *)
(* (chaos/mix.py), what their handlers do on each attempt                  *)
(* (ftq/handlers/faults.py), and the checks made on what Redis recorded    *)
(* (chaos/verifier.py).  Of the queue, each job keeps one entry and the    *)
(* runs of it that are under way; the rules are those of the scripts.      *)
(***************************************************************************)
EXTENDS Integers, FiniteSets, Sequences

CONSTANTS
    Job,
    MaxAttempts, MaxDeliveries,
    MaxFaults       \* bound: runs cut short or stalled by the injected faults

MaxFailTimes == 3
MaxHangAttempts == 2

\* The sizing the mix counts on: no job that should succeed is worn out by faults.
ASSUME SizingAssumption ==
    /\ MaxFaults \in Nat /\ MaxAttempts \in Nat /\ MaxDeliveries \in Nat /\ IsFiniteSet(Job)
    /\ MaxFailTimes + MaxFaults < MaxAttempts
    /\ 2 + MaxFaults <= MaxDeliveries

VARIABLES
    job,            \* all there is about each job, see JobState
    reclaims,       \* histogram: reclaims by the delivery count they led to
    crashCount,        \* worker exits with the crashy code
    late,           \* counter late_successes
    timeouts,       \* HandlerTimeout lines of runs that cannot hang
    faults          \* injected so far

verdictVars == <<job, reclaims, crashCount, late, timeouts, faults>>

-----------------------------------------------------------------------------
(* The mix.  `bad`: what the handler does while attempt < need. *)

Kind(expect, effect, bad, needs, reason) ==
    [expect |-> expect, effect |-> effect, bad |-> bad, needs |-> needs, reason |-> reason]

Kinds ==
    [ normal       |-> Kind("SUCCEEDED", TRUE,  "none",  {0}, "none"),
      flaky        |-> Kind("SUCCEEDED", TRUE,  "raise", 1 .. MaxFailTimes, "none"),
      slow         |-> Kind("SUCCEEDED", TRUE,  "none",  {0}, "none"),
      cpu          |-> Kind("SUCCEEDED", FALSE, "none",  {0}, "none"),
      hang         |-> Kind("SUCCEEDED", TRUE,  "hang",  1 .. MaxHangAttempts, "none"),
      hang_thread  |-> Kind("SUCCEEDED", FALSE, "hang",  {1}, "none"),
      hang_process |-> Kind("SUCCEEDED", FALSE, "hang",  1 .. MaxHangAttempts, "none"),
      hang_forever |-> Kind("DEAD", FALSE, "hang",  {MaxAttempts + 1000}, "max_attempts"),
      poison       |-> Kind("DEAD", FALSE, "raise", {MaxAttempts}, "max_attempts"),
      crashy       |-> Kind("DEAD", FALSE, "crash", {MaxAttempts}, "max_deliveries") ]

KindName == DOMAIN Kinds
KindOfJob(j) == Kinds[job[j].kind]

\* _may_hang: can a run of this kind hang at this attempt?
MayHang(kind, attempt) ==
    \/ kind = "hang_forever"
    \/ kind \in {"hang", "hang_process"} /\ attempt < 2
    \/ kind = "hang_thread" /\ attempt < 1

\* A run: its entry's attempt, its delivery count, how far it is.
Run == [a : 0 .. MaxAttempts, d : 1 .. MaxDeliveries + MaxFaults + 1,
        phase : {"running", "applied", "doomed"}]
DlqEntry == [reason : {"max_attempts", "max_deliveries"}, deliveries : Nat, attempts : Nat,
             error : {"none", "raise", "hang"}]
JobState ==
    [kind : KindName, need : Nat,
     copy : {"queued", "pending", "delayed", "none"},   \* where its entry is
     attempt : 0 .. MaxAttempts, count : Nat,           \* of that entry
     runs : SUBSET Run,
     done : {"NONE", "SUCCEEDED", "DEAD"}, dlq : Seq(DlqEntry),
     results : Nat, effects : Nat]

\* The types; an entry that is not pending has no delivery count.
VerdictTypeOK ==
    /\ \A j \in Job : /\ job[j] \in JobState
                      /\ job[j].copy # "pending" => job[j].count = 0
    /\ \A n \in DOMAIN reclaims : reclaims[n] \in Nat
    /\ {crashCount, late, timeouts} \subseteq Nat /\ faults \in 0 .. MaxFaults

\* build: every job enqueued, with its kind and the payload drawn for it.
VerdictInit ==
    /\ \E kind \in [Job -> KindName] : \E need \in [Job -> UNION {Kinds[k].needs : k \in KindName}] :
         /\ \A j \in Job : need[j] \in Kinds[kind[j]].needs
         /\ job = [j \in Job |-> [kind |-> kind[j], need |-> need[j], copy |-> "queued",
                                  attempt |-> 0, count |-> 0, runs |-> {}, done |-> "NONE",
                                  dlq |-> <<>>, results |-> 0, effects |-> 0]]
    /\ reclaims = [n \in 2 .. MaxDeliveries + MaxFaults + 1 |-> 0]
    /\ crashCount = 0 /\ late = 0 /\ timeouts = 0 /\ faults = 0

-----------------------------------------------------------------------------
(* The queue *)

Set(j, s) == job' = [job EXCEPT ![j] = s]
TakeFault == faults < MaxFaults /\ faults' = faults + 1

IsOwner(j, r) == job[j].copy = "pending" /\ r.a = job[j].attempt /\ r.d = job[j].count
Without(j, r) == [job[j] EXCEPT !.runs = @ \ {r}]

\* XACK and XDEL
Removed(s) == [s EXCEPT !.copy = "none", !.count = 0]

\* Worker._process: past max_deliveries a job is not run.
PhaseAt(d) == IF d > MaxDeliveries THEN "doomed" ELSE "running"

Deliver(j) ==
    /\ job[j].copy = "queued"
    /\ Set(j, [job[j] EXCEPT !.copy = "pending", !.count = 1,
                 !.runs = @ \union {[a |-> job[j].attempt, d |-> 1, phase |-> "running"]}])
    /\ UNCHANGED <<reclaims, crashCount, late, timeouts, faults>>

\* The lease of the entry has expired: its owner is gone; or it is a slow job, which
\* does not beat and ends within two leases; or the owner was stalled.
Reclaim(j) ==
    LET s == job[j]
        owners == {r \in s.runs : IsOwner(j, r)}
        d == s.count + 1
    IN /\ s.copy = "pending" /\ d \in DOMAIN reclaims
       /\ IF owners = {} \/ (s.kind = "slow" /\ s.runs = owners)
          THEN UNCHANGED faults ELSE TakeFault
       /\ Set(j, [s EXCEPT !.count = d,
                    !.runs = @ \union {[a |-> s.attempt, d |-> d, phase |-> PhaseAt(d)]}])
       /\ reclaims' = [reclaims EXCEPT ![d] = @ + 1]
       /\ UNCHANGED <<crashCount, late, timeouts>>

\* schedule.lua
Schedule(j) ==
    /\ job[j].copy = "delayed"
    /\ Set(j, [job[j] EXCEPT !.copy = "queued"])
    /\ UNCHANGED <<reclaims, crashCount, late, timeouts, faults>>

\* A run ends with its worker, or with the reply it waits for: a kill, a partition, a
\* bystander's crash.
RunLost(j, r) ==
    /\ r \in job[j].runs /\ TakeFault
    /\ Set(j, Without(j, r))
    /\ UNCHANGED <<reclaims, crashCount, late, timeouts>>

-----------------------------------------------------------------------------
(* The handlers *)

Bad(j, r) == r.phase = "running" /\ r.a < job[j].need /\ KindOfJob(j).bad # "none"

\* Mutant: the effect is not guarded by its marker.
LedgerApplyAlways(s) == [s EXCEPT !.effects = @ + 1]

\* ledger.lua: the effect is logged once per key.
LedgerApply(s) == [s EXCEPT !.effects = IF @ = 0 THEN 1 ELSE @]

Apply(j, r) ==
    /\ r \in job[j].runs /\ r.phase = "running" /\ ~Bad(j, r) /\ KindOfJob(j).effect
    /\ Set(j, LedgerApply([Without(j, r) EXCEPT !.runs = @ \union {[r EXCEPT !.phase = "applied"]}]))
    /\ UNCHANGED <<reclaims, crashCount, late, timeouts, faults>>

\* commit.lua: the first success wins, also over an earlier DEAD.
Committed(s) ==
    IF s.done = "SUCCEEDED" THEN s
    ELSE [s EXCEPT !.done = "SUCCEEDED", !.dlq = <<>>, !.results = @ + 1]

Commit(j, r) ==
    /\ r \in job[j].runs /\ ~Bad(j, r)
    /\ r.phase = IF KindOfJob(j).effect THEN "applied" ELSE "running"
    /\ LET s == Committed(Without(j, r)) IN
       Set(j, IF s.copy = "pending" /\ r.a = s.attempt THEN Removed(s) ELSE s)
    /\ late' = IF job[j].done = "DEAD" THEN late + 1 ELSE late
    /\ UNCHANGED <<reclaims, crashCount, timeouts, faults>>

\* dead.lua, called by the entry's owner
DeadLettered(s, reason, attempts, error) ==
    IF s.done # "NONE" THEN Removed(s)
    ELSE [Removed(s) EXCEPT !.done = "DEAD",
            !.dlq = Append(@, [reason |-> reason, deliveries |-> s.count,
                               attempts |-> attempts, error |-> error])]

\* Worker._fail, retry.lua: the owner parks the job for its next attempt, or gives it up.
Failed(j, r, error) ==
    LET s == Without(j, r) IN
    IF ~IsOwner(j, r) THEN s
    ELSE IF r.a + 1 >= MaxAttempts THEN DeadLettered(s, "max_attempts", r.a + 1, error)
    ELSE IF s.done # "NONE" THEN Removed(s)
    ELSE [Removed(s) EXCEPT !.copy = "delayed", !.attempt = r.a + 1]

\* flaky and poison raise
Raises(j, r) ==
    /\ r \in job[j].runs /\ Bad(j, r) /\ KindOfJob(j).bad = "raise"
    /\ Set(j, Failed(j, r, "raise"))
    /\ UNCHANGED <<reclaims, crashCount, late, timeouts, faults>>

\* A run that hangs is stopped by its timeout; so is, under a fault, one that does not.
TimesOut(j, r) ==
    /\ r \in job[j].runs /\ r.phase # "doomed"
    /\ IF Bad(j, r) /\ KindOfJob(j).bad = "hang" THEN UNCHANGED faults
       ELSE ~Bad(j, r) /\ TakeFault
    /\ Set(j, Failed(j, r, "hang"))
    /\ timeouts' = IF MayHang(job[j].kind, r.a) THEN timeouts ELSE timeouts + 1
    /\ UNCHANGED <<reclaims, crashCount, late>>

\* crashy: os._exit
Crashes(j, r) ==
    /\ r \in job[j].runs /\ Bad(j, r) /\ KindOfJob(j).bad = "crash"
    /\ Set(j, Without(j, r))
    /\ crashCount' = crashCount + 1
    /\ UNCHANGED <<reclaims, late, timeouts, faults>>

\* A doomed run goes to the DLQ, unless it has lost the entry meanwhile.
Doomed(j, r) ==
    /\ r \in job[j].runs /\ r.phase = "doomed"
    /\ Set(j, IF IsOwner(j, r) THEN DeadLettered(Without(j, r), "max_deliveries", r.a + 1, "none")
              ELSE Without(j, r))
    /\ UNCHANGED <<reclaims, crashCount, late, timeouts, faults>>

RunStep(j, r) ==
    Apply(j, r) \/ Commit(j, r) \/ Raises(j, r) \/ TimesOut(j, r) \/ Crashes(j, r) \/ Doomed(j, r)

VerdictNext ==
    \E j \in Job :
        \/ Deliver(j) \/ Reclaim(j) \/ Schedule(j)
        \/ \E r \in job[j].runs : RunLost(j, r) \/ RunStep(j, r)

\* Workers go on: the queue is read, leases are watched, runs end.
VerdictFairness ==
    /\ WF_verdictVars(\E j \in Job : Deliver(j)) /\ WF_verdictVars(\E j \in Job : Schedule(j))
    /\ WF_verdictVars(\E j \in Job : Reclaim(j) /\ faults' = faults)
    /\ WF_verdictVars(\E j \in Job : \E r \in job[j].runs : RunStep(j, r) /\ faults' = faults)

VerdictSpec == VerdictInit /\ [][VerdictNext]_verdictVars /\ VerdictFairness

-----------------------------------------------------------------------------
(* The verifier, on the state the run ended in *)

I1 == /\ \A j \in Job : job[j].done = KindOfJob(j).expect
      /\ late = 0

Want(j) == IF job[j].done = "SUCCEEDED" THEN 1 ELSE 0
I2 == \A j \in Job : job[j].effects = IF KindOfJob(j).effect THEN Want(j) ELSE 0
I2b == \A j \in Job : job[j].results = Want(j)

DlqRight(j, e) ==
    /\ e.reason = KindOfJob(j).reason
    /\ job[j].kind = "crashy" => e.deliveries > MaxDeliveries
    /\ job[j].kind \in {"poison", "hang_forever"} => e.attempts = MaxAttempts
    /\ job[j].kind = "hang_forever" => e.error = "hang"

Crashy == {j \in Job : job[j].kind = "crashy"}

I3 ==
    /\ \A j \in Job :
         IF KindOfJob(j).expect # "DEAD" THEN job[j].dlq = <<>>
         ELSE Len(job[j].dlq) = 1 /\ DlqRight(j, job[j].dlq[1])
    /\ crashCount <= Cardinality(Crashy) * MaxDeliveries

I5 == \A j \in Job : job[j].copy = "none"

Passed == I1 /\ I2 /\ I2b /\ I3 /\ I5

\* reclaims_by_delivery_excluding_crashy
Others(n) ==
    reclaims[n] - Cardinality({j \in Crashy : \E i \in DOMAIN job[j].dlq : job[j].dlq[i].deliveries >= n})

-----------------------------------------------------------------------------
(* Properties *)

\* The run has drained and its workers have stopped.
AtRest == \A j \in Job : job[j].copy = "none" /\ job[j].runs = {}

\* However the faults fall, a run that keeps to the sizing passes every check: a failed
\* verdict means a bug, not bad luck.  The figures beside the verdict are explained too.
\* "A crashy job's single entry is reclaimed exactly once at each delivery count from 2
\* up to the count it was dead-lettered at": what is left after subtracting those is
\* never negative, and shows every other job within max_deliveries.  And a timeout reported
\* as that of a run that cannot hang is one a fault caused.
VerdictRight ==
    /\ AtRest => Passed
    /\ AtRest => \A n \in DOMAIN reclaims : Others(n) >= 0 /\ (Others(n) > 0 => n <= MaxDeliveries)
    /\ timeouts <= faults
====
