--------------------------- MODULE JobSafetyProofs --------------------------
(***************************************************************************)
(* Proofs that no job is lost, that results and effects are recorded once, *)
(* and that JobQueue implements JobContract, for every value of the        *)
(* constants.  They rest on Consistent, proved in JobQueueProofs.          *)
(***************************************************************************)
EXTENDS JobQueueProofs

-----------------------------------------------------------------------------
(* Kinds of steps *)

\* A step that moves no copy of a job and records nothing: the copies, the done keys, the
\* logs and the ledger stay, new tasks and orphans are about jobs at hand, and a run that
\* ends well has its effect behind it.
Quiet ==
    /\ UNCHANGED <<entry, delayed, done, deadEntry, dlq, results, marked, effects, sends>>
    /\ \A r \in tasks' \cup orphans' :
          \/ \E q \in tasks \cup orphans : r.f = q.f
          \/ \E e \in EntryId : entry[e] # NoFields /\ r.f = entry[e]
    /\ \A t \in tasks' : t.phase = "ok" => t \in tasks \/ t.f.job \in marked

\* Changing a task's phase, other than to "ok" without the effect, is quiet.
LEMMA PhaseChangeQuiet ==
    ASSUME Consistent, NEW t \in tasks, NEW p \in Phase, SetPhase(t, p),
           p = "ok" => t.f.job \in marked,
           orphans' \subseteq orphans \cup {[w |-> t.w, e |-> t.e, d |-> t.d, f |-> t.f]},
           UNCHANGED <<entry, delayed, done, deadEntry, dlq, results, marked, effects, sends>>
    PROVE  Quiet
<1> DEFINE u == InPhase(t, p)
<1>1. u.f = t.f /\ u.phase = p
    BY TaskFacts, InPhaseTask
<1>2. tasks' = (tasks \ {t}) \cup {u}
    BY DEF SetPhase
<1> HIDE DEF u
<1>3. \A r \in tasks' \cup orphans' : \E q \in tasks \cup orphans : r.f = q.f
    BY <1>1, <1>2
<1>4. \A r \in tasks' : r.phase = "ok" => r \in tasks \/ r.f.job \in marked
    BY <1>1, <1>2
<1> QED BY <1>3, <1>4 DEF Quiet

\* A delivery is quiet: its tasks are about entries of the stream and have yet to run.
LEMMA DeliveryQuiet ==
    ASSUME Consistent, NEW w \in Worker, NEW received \in BOOLEAN,
           Fetch(w, received) \/ Reclaim(w, received)
    PROVE  Quiet
<1>1. \E es \in SUBSET Stream : /\ \A e \in es : deliveries'[e] \in Nat \ {0}
                                /\ tasks' \subseteq tasks \cup Spawn(w, es, deliveries')
  <2>1. CASE Fetch(w, received)
    <3>1. PICK n \in {last} \cup Waiting :
             /\ deliveries' = [e \in EntryId |-> IF e \in {i \in Waiting : i <= n} THEN 1
                                                 ELSE deliveries[e]]
             /\ tasks' \subseteq tasks \cup Spawn(w, {i \in Waiting : i <= n}, deliveries')
        BY <2>1 DEF Fetch
    <3> DEFINE es == {i \in Waiting : i <= n}
    <3>2. es \in SUBSET Stream /\ \A e \in es : deliveries'[e] \in Nat \ {0}
        BY <3>1 DEF Waiting, Stream
    <3> QED BY <3>1, <3>2
  <2>2. CASE Reclaim(w, received)
    <3> DEFINE Claimed(lo, hi) == {e \in expired : lo <= e /\ e <= hi}
               KeptOf(lo, hi) == Kept(Claimed(lo, hi), IF SuspectsOf(w) = {} THEN 1 ELSE 0)
    <3>1. PICK lo \in EntryId, hi \in EntryId :
             /\ deliveries' = [e \in EntryId |->
                                 IF e \in KeptOf(lo, hi) THEN deliveries[e] + 1 ELSE deliveries[e]]
             /\ tasks' \subseteq tasks \cup Spawn(w, KeptOf(lo, hi), deliveries')
        BY <2>2 DEF Reclaim
    <3> DEFINE es == KeptOf(lo, hi)
    <3>2. es \subseteq expired
        BY DEF Kept
    <3>3. es \in SUBSET Stream
        BY <3>2 DEF Consistent, TypeOK, ExpiredPending, PendingExact, Pel, Stream
    <3>4. \A e \in es : deliveries'[e] \in Nat \ {0}
        BY <3>1, <3>3 DEF Consistent, TypeOK, Stream
    <3> HIDE DEF KeptOf
    <3> QED BY <3>1, <3>3, <3>4
  <2> QED BY <2>1, <2>2
<1>2. PICK es \in SUBSET Stream : /\ \A e \in es : deliveries'[e] \in Nat \ {0}
                                  /\ tasks' \subseteq tasks \cup Spawn(w, es, deliveries')
    BY <1>1
<1>3. \A t \in Spawn(w, es, deliveries') :
         t.e \in es /\ t.f = entry[t.e] /\ t.phase \in {"doomed", "running", "silent"}
    BY <1>2, SpawnTasks DEF Consistent
<1>4. /\ UNCHANGED <<entry, delayed, done, deadEntry, dlq, results, marked, effects, sends>>
      /\ orphans' = orphans
    BY DEF Fetch, Reclaim, retryVars, doneVars, ledgerVars
<1>5. \A t \in tasks' : t \in tasks \/ (\E e \in EntryId : entry[e] # NoFields /\ t.f = entry[e])
    BY <1>2, <1>3 DEF Stream
<1>6. \A t \in tasks' : t.phase = "ok" => t \in tasks
    BY <1>2, <1>3
<1> QED BY <1>4, <1>5, <1>6 DEF Quiet

\* A step that leaves Redis's copies alone and starts nothing is quiet.
LEMMA ShrinkQuiet ==
    ASSUME tasks' \subseteq tasks, orphans' \subseteq orphans,
           UNCHANGED <<entry, delayed, done, deadEntry, dlq, results, marked, effects, sends>>
    PROVE  Quiet
BY DEF Quiet

\* Every step is quiet or one of those that move copies, record outcomes or effects.
LEMMA StepKinds ==
    ASSUME Consistent, [Next]_vars
    PROVE  \/ Quiet
           \/ \E j \in Job : Enqueue(j) \/ Requeue(j)
           \/ \E r \in tasks \cup orphans : ApplyEffect(r)
           \/ \E t \in tasks, received \in BOOLEAN :
                 Commit(t, received) \/ Retry(t, received) \/ Dead(t, received)
           \/ \E w \in Worker : Schedule(w)
<1> USE DEF queueVars, groupVars, retryVars, doneVars, ledgerVars, workerVars, envVars
<1>1. ASSUME NEW w \in Worker, WorkerStep(w), ~Schedule(w)
      PROVE  Quiet
  <2>1. CASE Start(w) \/ RequestStop(w) \/ StopFetching(w)
      BY <2>1, ShrinkQuiet DEF Start, RequestStop, StopFetching
  <2>2. CASE Exit(w) \/ Crash(w)
    <3>1. Vanish(w)
        BY <2>2 DEF Exit, Crash
    <3> QED BY <3>1, ShrinkQuiet DEF Vanish
  <2>3. CASE \E received \in BOOLEAN : Fetch(w, received) \/ Reclaim(w, received)
      BY <2>3, DeliveryQuiet
  <2>4. CASE \E idle \in SUBSET (consumers \ {w}) : Prune(w, idle)
      BY <2>4, ShrinkQuiet DEF Prune
  <2> QED BY <1>1, <2>1, <2>2, <2>3, <2>4 DEF WorkerStep
<1>2. ASSUME NEW e \in EntryId, LeaseExpires(e)
      PROVE  Quiet
    BY <1>2, ShrinkQuiet DEF LeaseExpires
<1>3. ASSUME NEW t \in tasks, TaskStep(t), ~ApplyEffect(t),
             ~ \E received \in BOOLEAN :
                  Commit(t, received) \/ Retry(t, received) \/ Dead(t, received)
      PROVE  Quiet
  <2>1. CASE Heartbeat(t)
    <3>1. UNCHANGED <<entry, delayed, done, deadEntry, dlq, results, marked, effects, sends, orphans>>
        BY <2>1 DEF Heartbeat
    <3>2. CASE UNCHANGED tasks
        BY <3>1, <3>2, ShrinkQuiet
    <3>3. CASE SetPhase(t, "silent")
        BY <3>1, <3>3, PhaseChangeQuiet DEF Phase
    <3> QED BY <2>1, <3>2, <3>3 DEF Heartbeat
  <2>2. CASE HandlerReturns(t)
      BY <2>2, PhaseChangeQuiet DEF HandlerReturns, Phase
  <2>3. CASE HandlerFails(t)
      BY <2>3, PhaseChangeQuiet DEF HandlerFails, Phase
  <2>4. CASE HandlerTimesOut(t)
      BY <2>4, PhaseChangeQuiet DEF HandlerTimesOut, Phase
  <2>5. CASE GiveUp(t)
      BY <2>5, ShrinkQuiet DEF GiveUp
  <2> QED BY <1>3, <2>1, <2>2, <2>3, <2>4, <2>5 DEF TaskStep
<1>4. ASSUME NEW o \in orphans, OrphanEnds(o)
      PROVE  Quiet
    BY <1>4, ShrinkQuiet DEF OrphanEnds
<1>5. ASSUME NEW m \in delayed, BackoffElapses(m)
      PROVE  Quiet
    BY <1>5, ShrinkQuiet DEF BackoffElapses
<1>6. CASE UNCHANGED vars
    BY <1>6, ShrinkQuiet DEF vars
<1> QED BY <1>1, <1>2, <1>3, <1>4, <1>5, <1>6 DEF Next

-----------------------------------------------------------------------------
(* What the steps that are not quiet do to the copies of jobs *)

\* An enqueue adds one entry, under an unused id, for its own job.
LEMMA EnqueueAdds ==
    ASSUME Consistent, NEW j \in Job, Enqueue(j)
    PROVE  /\ \E e \in EntryId : entry'[e] # NoFields /\ entry'[e].job = j
           /\ \A e \in EntryId : entry[e] # NoFields => entry'[e] = entry[e]
           /\ \A e \in EntryId : entry'[e] # NoFields => entry'[e] = entry[e] \/ entry'[e].job = j
           /\ sends'[j] > 0 /\ \A i \in Job : sends[i] > 0 => sends'[i] > 0
           /\ \A i \in Job \ {j} : sends'[i] = sends[i]
           /\ UNCHANGED <<delayed, done, deadEntry, dlq, results, marked, effects, tasks, orphans>>
<1>1. PICK s \in Stamp : Add([job |-> j, attempt |-> 0, stamp |-> s])
    BY DEF Enqueue
<1> DEFINE f == [job |-> j, attempt |-> 0, stamp |-> s]
<1>2. f \in Fields /\ f.job = j /\ f # NoFields
    BY SettingsAssumption, SentinelAssumption DEF Fields
<1> HIDE DEF f
<1>3. /\ entry[next] = NoFields /\ entry'[next] = f
      /\ \A e \in EntryId \ {next} : entry'[e] = entry[e]
      /\ next \in EntryId
    BY <1>1, <1>2, AddKeeps DEF f
<1>4. sends' = [sends EXCEPT ![j] = @ + 1] /\ sends \in [Job -> 0 .. MaxSends]
    BY DEF Enqueue, Consistent, TypeOK
<1>5. sends'[j] > 0 /\ \A i \in Job \ {j} : sends'[i] = sends[i]
    BY <1>4, BoundsAssumption
<1>6. UNCHANGED <<delayed, done, deadEntry, dlq, results, marked, effects, tasks, orphans>>
    BY DEF Enqueue, groupVars, retryVars, doneVars, ledgerVars, workerVars
<1> QED BY <1>2, <1>3, <1>5, <1>6

\* A requeue turns a DEAD job's DLQ entry into a new stream entry.
LEMMA RequeueMoves ==
    ASSUME Consistent, NEW j \in Job, Requeue(j)
    PROVE  /\ \E e \in EntryId : entry'[e] # NoFields /\ entry'[e].job = j
           /\ \A e \in EntryId : entry[e] # NoFields => entry'[e] = entry[e]
           /\ \A e \in EntryId : entry'[e] # NoFields => entry'[e] = entry[e] \/ entry'[e].job = j
           /\ \A e \in EntryId : dlq'[e] \in {dlq[e], NoFields}
           /\ done[j] = "DEAD" /\ done' = [done EXCEPT ![j] = "NONE"]
           /\ UNCHANGED <<delayed, results, marked, effects, tasks, orphans, sends>>
<1> DEFINE dead == deadEntry[j]
           f == WithAttempt(dlq[dead], 0)
<1>1. /\ done[j] = "DEAD" /\ dlq[dead] # NoFields /\ Add(f)
      /\ dlq' = [dlq EXCEPT ![dead] = NoFields]
      /\ done' = [done EXCEPT ![j] = "NONE"]
    BY DEF Requeue, RequeueScript
<1>2. dead \in EntryId /\ dlq[dead] \in Fields /\ dlq[dead].job = j
    BY <1>1 DEF Consistent, DlqExact, TypeOK
<1>3. f \in Fields /\ f.job = j
    BY <1>2, WithAttemptFields, SettingsAssumption
<1> HIDE DEF f
<1>4. f # NoFields
    BY <1>3, SentinelAssumption
<1>5. /\ entry[next] = NoFields /\ entry'[next] = f
      /\ \A e \in EntryId \ {next} : entry'[e] = entry[e]
      /\ next \in EntryId
    BY <1>1, <1>3, AddKeeps
<1>6. \A e \in EntryId : dlq'[e] \in {dlq[e], NoFields}
    BY <1>1, <1>2 DEF Consistent, TypeOK
<1>7. UNCHANGED <<delayed, results, marked, effects, tasks, orphans, sends>>
    BY DEF Requeue, groupVars, retryVars, ledgerVars, workerVars
<1> QED BY <1>1, <1>3, <1>4, <1>5, <1>6, <1>7

\* A transition removes at most its task's entry, and that entry holds the task's job.
LEMMA TransitionRemoves ==
    ASSUME Consistent, NEW t \in tasks, Remove(t.e)
    PROVE  /\ \A e \in EntryId : entry'[e] \in {entry[e], NoFields}
           /\ \A e \in EntryId : entry[e] # NoFields /\ entry[e].job # t.f.job
                                 => entry'[e] = entry[e]
<1>1. t.e \in EntryId /\ t.e <= last /\ (entry[t.e] # NoFields => entry[t.e] = t.f)
    BY TaskFacts
<1>2. entry'[t.e] = NoFields /\ \A i \in EntryId \ {t.e} : entry'[i] = entry[i]
    BY <1>1, RemoveKeeps
<1> QED BY <1>1, <1>2

\* The scheduler turns delayed members into entries of the same job.
LEMMA ScheduleMoves ==
    ASSUME Consistent, NEW w \in Worker, Schedule(w)
    PROVE  /\ delayed' \subseteq delayed
           /\ \A e \in EntryId : entry[e] # NoFields => entry'[e] = entry[e]
           /\ \A m \in delayed \ delayed' : \E e \in EntryId : entry'[e] = m
           /\ \A e \in EntryId : entry'[e] = entry[e] \/ entry'[e] \in delayed
           /\ UNCHANGED <<done, deadEntry, dlq, results, marked, effects, tasks, orphans, sends>>
<1>1. PICK n \in 1 .. SchedulerBatch : \E moved \in [1 .. n -> due] :
         /\ next + n - 1 \in EntryId
         /\ entry' = [e \in EntryId |->
                         IF e \in next .. next + n - 1 THEN moved[e - next + 1] ELSE entry[e]]
         /\ delayed' = delayed \ {moved[i] : i \in 1 .. n}
    BY DEF Schedule
<1>2. PICK moved \in [1 .. n -> due] :
         /\ next + n - 1 \in EntryId
         /\ entry' = [e \in EntryId |->
                         IF e \in next .. next + n - 1 THEN moved[e - next + 1] ELSE entry[e]]
         /\ delayed' = delayed \ {moved[i] : i \in 1 .. n}
    BY <1>1
<1>3. n \in Nat \ {0} /\ next \in Nat \ {0}
    BY SettingsAssumption, BoundsAssumption DEF Consistent, TypeOK
<1>4. \A e \in EntryId : entry[e] # NoFields => e \notin next .. next + n - 1
    BY <1>3 DEF Consistent, IdsFresh, EntryId
<1>5. \A i \in 1 .. n : next + i - 1 \in EntryId /\ entry'[next + i - 1] = moved[i]
  <2> TAKE i \in 1 .. n
  <2>1. next + i - 1 \in EntryId /\ next + i - 1 \in next .. next + n - 1
      BY <1>2, <1>3, BoundsAssumption DEF EntryId
  <2>2. (next + i - 1) - next + 1 = i
      BY <1>3
  <2> QED BY <1>2, <2>1, <2>2
<1>6. \A e \in EntryId : entry'[e] = entry[e] \/ entry'[e] \in delayed
  <2> TAKE e \in EntryId
  <2>1. CASE e \in next .. next + n - 1
    <3>1. e - next + 1 \in 1 .. n
        BY <2>1, <1>3
    <3>2. moved[e - next + 1] \in delayed
        BY <3>1 DEF Consistent, TypeOK
    <3> QED BY <1>2, <2>1, <3>2
  <2> QED BY <1>2, <2>1
<1>7. UNCHANGED <<done, deadEntry, dlq, results, marked, effects, tasks, orphans, sends>>
    BY DEF Schedule, groupVars, doneVars, ledgerVars, workerVars, envVars
<1>8. \A m \in delayed \ delayed' : \E i \in 1 .. n : m = moved[i]
    BY <1>2
<1>9. \A m \in delayed \ delayed' : \E e \in EntryId : entry'[e] = m
    BY <1>5, <1>8
<1>10. \A e \in EntryId : entry[e] # NoFields => entry'[e] = entry[e]
    BY <1>2, <1>4
<1> QED BY <1>2, <1>6, <1>7, <1>9, <1>10

\* A commit records the task's job as SUCCEEDED, unless it is so already.
LEMMA CommitRecords ==
    ASSUME Consistent, NEW t \in tasks, NEW received \in BOOLEAN, Commit(t, received)
    PROVE  /\ Remove(t.e) /\ tasks' \subseteq tasks
           /\ \A e \in EntryId : dlq'[e] \in {dlq[e], NoFields}
           /\ \/ done[t.f.job] = "SUCCEEDED" /\ UNCHANGED <<done, results>>
              \/ /\ done[t.f.job] # "SUCCEEDED"
                 /\ done' = [done EXCEPT ![t.f.job] = "SUCCEEDED"]
                 /\ results' = [results EXCEPT ![t.f.job] = @ + 1]
           /\ UNCHANGED <<delayed, marked, effects, orphans, sends>>
<1>1. tasks' \subseteq tasks
    BY AnsweredKeeps DEF Commit
<1> USE DEF Commit, CommitScript, retryVars, ledgerVars, doneVars
<1>2. \A e \in EntryId : dlq'[e] \in {dlq[e], NoFields}
    BY DEF Consistent, TypeOK
<1> QED BY <1>1, <1>2

\* A retry by the entry's owner leaves the job terminal or in the delayed set.
LEMMA RetryMoves ==
    ASSUME Consistent, NEW t \in tasks, NEW received \in BOOLEAN, Retry(t, received)
    PROVE  /\ tasks' \subseteq tasks
           /\ \/ UNCHANGED <<entry, delayed>>
              \/ Remove(t.e) /\ done[t.f.job] # "NONE" /\ UNCHANGED delayed
              \/ /\ Remove(t.e)
                 /\ \E m \in Fields : m.job = t.f.job /\ delayed' = delayed \cup {m}
           /\ UNCHANGED <<done, deadEntry, dlq, results, marked, effects, orphans, sends>>
<1>1. tasks' \subseteq tasks
    BY AnsweredKeeps DEF Retry
<1>2. UNCHANGED <<done, deadEntry, dlq, results, marked, effects, orphans, sends>>
    BY DEF Retry, doneVars, ledgerVars
<1>3. CASE ~Owns(t.w, t.e)
    BY <1>1, <1>2, <1>3 DEF Retry, RetryScript, retryVars
<1>4. CASE Owns(t.w, t.e)
  <2> DEFINE member == WithAttempt(entry[t.e], entry[t.e].attempt + 1)
  <2>1. member \in Fields /\ member.job = t.f.job
      BY <1>4, TaskFacts, RetriedFields DEF Retry
  <2>2. /\ Remove(t.e)
        /\ \/ done[t.f.job] # "NONE" /\ UNCHANGED delayed
           \/ delayed' = delayed \cup {member}
      BY <1>4 DEF Retry, RetryScript, retryVars
  <2> HIDE DEF member
  <2> QED BY <1>1, <1>2, <2>1, <2>2
<1> QED BY <1>3, <1>4

\* A dead-lettering by the entry's owner leaves the job terminal.
LEMMA DeadRecords ==
    ASSUME Consistent, NEW t \in tasks, NEW received \in BOOLEAN, Dead(t, received)
    PROVE  /\ tasks' \subseteq tasks
           /\ \/ UNCHANGED <<entry, done, dlq>>
              \/ Remove(t.e) /\ done[t.f.job] # "NONE" /\ UNCHANGED <<done, dlq>>
              \/ /\ Remove(t.e) /\ done[t.f.job] = "NONE"
                 /\ done' = [done EXCEPT ![t.f.job] = "DEAD"]
                 /\ dlq' = [dlq EXCEPT ![t.e] = t.f]
           /\ UNCHANGED <<delayed, results, marked, effects, orphans, sends>>
<1>1. tasks' \subseteq tasks
    BY AnsweredKeeps DEF Dead
<1>2. Owns(t.w, t.e) => entry[t.e] = t.f
    BY TaskFacts
<1> QED BY <1>1, <1>2 DEF Dead, DeadScript, retryVars, ledgerVars, doneVars

-----------------------------------------------------------------------------
(* Faithful is inductive *)

\* No step loses the last copy of a job that is not terminal.
LEMMA NextNoLoss ==
    ASSUME Faithful, [Next]_vars
    PROVE  NoLoss'
<1> USE DEF Faithful
<1> SUFFICES ASSUME NEW j \in Job, sends'[j] > 0, done'[j] = "NONE"
             PROVE  HasCopy(j)'
    BY DEF NoLoss
<1>0. done \in [Job -> {"NONE", "SUCCEEDED", "DEAD"}]
    BY DEF Consistent, TypeOK
<1>1. CASE Quiet
    BY <1>1 DEF Quiet, NoLoss, HasCopy
<1>2. ASSUME NEW i \in Job, Enqueue(i)
      PROVE  HasCopy(j)'
    BY <1>2, EnqueueAdds DEF NoLoss, HasCopy
<1>3. ASSUME NEW i \in Job, Requeue(i)
      PROVE  HasCopy(j)'
    BY <1>0, <1>3, RequeueMoves DEF NoLoss, HasCopy
<1>4. ASSUME NEW r \in tasks \cup orphans, ApplyEffect(r)
      PROVE  HasCopy(j)'
    BY <1>4 DEF ApplyEffect, NoLoss, HasCopy, queueVars, retryVars, doneVars, envVars
<1>5. ASSUME NEW t \in tasks, NEW received \in BOOLEAN,
             Commit(t, received) \/ Retry(t, received) \/ Dead(t, received)
      PROVE  HasCopy(j)'
  <2>1. t.f.job \in Job
      BY TaskFacts
  <2>2. CASE Commit(t, received)
    <3>1. done[j] = "NONE" /\ t.f.job # j /\ sends[j] > 0
        BY <1>0, <2>1, <2>2, CommitRecords
    <3>2. \A e \in EntryId : entry[e] # NoFields /\ entry[e].job # t.f.job => entry'[e] = entry[e]
        BY <2>2, CommitRecords, TransitionRemoves
    <3>3. UNCHANGED delayed
        BY <2>2, CommitRecords
    <3> QED BY <3>1, <3>2, <3>3 DEF NoLoss, HasCopy
  <2>3. CASE Retry(t, received)
    <3>1. HasCopy(j) /\ done[j] = "NONE"
        BY <2>3, RetryMoves DEF NoLoss
    <3>2. CASE UNCHANGED <<entry, delayed>>
        BY <3>1, <3>2 DEF HasCopy
    <3>3. CASE Remove(t.e)
      <4>1. \A e \in EntryId : entry[e] # NoFields /\ entry[e].job # t.f.job => entry'[e] = entry[e]
          BY <3>3, TransitionRemoves
      <4>2. \/ delayed \subseteq delayed' /\ (t.f.job = j => \E m \in delayed' : m.job = j)
            \/ UNCHANGED <<entry, delayed>>
          BY <2>3, <3>1, RetryMoves
      <4> QED BY <3>1, <4>1, <4>2 DEF HasCopy
    <3> QED BY <2>3, <3>2, <3>3, RetryMoves
  <2>4. CASE Dead(t, received)
    <3>1. HasCopy(j) /\ done[j] = "NONE" /\ UNCHANGED delayed
        BY <1>0, <2>1, <2>4, DeadRecords DEF NoLoss
    <3>2. CASE UNCHANGED entry
        BY <3>1, <3>2 DEF HasCopy
    <3>3. CASE Remove(t.e) /\ t.f.job # j
      <4>1. \A e \in EntryId : entry[e] # NoFields /\ entry[e].job # t.f.job => entry'[e] = entry[e]
          BY <3>3, TransitionRemoves
      <4> QED BY <3>1, <3>3, <4>1 DEF HasCopy
    <3> QED BY <1>0, <2>1, <2>4, <3>1, <3>2, <3>3, DeadRecords
  <2> QED BY <1>5, <2>2, <2>3, <2>4
<1>6. ASSUME NEW w \in Worker, Schedule(w)
      PROVE  HasCopy(j)'
  <2>1. HasCopy(j)
      BY <1>6, ScheduleMoves DEF NoLoss
  <2>2. ASSUME NEW e \in EntryId, entry[e] # NoFields, entry[e].job = j
        PROVE  HasCopy(j)'
      BY <1>6, <2>2, ScheduleMoves DEF HasCopy
  <2>3. ASSUME NEW m \in delayed, m.job = j
        PROVE  HasCopy(j)'
    <3>1. m # NoFields
        BY SentinelAssumption DEF Consistent, TypeOK
    <3> QED BY <1>6, <2>3, <3>1, ScheduleMoves DEF HasCopy
  <2> QED BY <2>1, <2>2, <2>3 DEF HasCopy
<1> QED BY <1>1, <1>2, <1>3, <1>4, <1>5, <1>6, StepKinds

\* A result is recorded exactly when a job becomes SUCCEEDED, and it stays so.
LEMMA NextOneResult ==
    ASSUME Faithful, [Next]_vars
    PROVE  OneResult'
<1> USE DEF Faithful
<1>0. done \in [Job -> {"NONE", "SUCCEEDED", "DEAD"}] /\ results \in [Job -> Nat]
    BY DEF Consistent, TypeOK
<1>1. CASE Quiet
    BY <1>1 DEF Quiet, OneResult
<1>2. ASSUME NEW i \in Job, Enqueue(i)
      PROVE  OneResult'
    BY <1>2, EnqueueAdds DEF OneResult
<1>3. ASSUME NEW i \in Job, Requeue(i)
      PROVE  OneResult'
    BY <1>0, <1>3, RequeueMoves DEF OneResult
<1>4. ASSUME NEW r \in tasks \cup orphans, ApplyEffect(r)
      PROVE  OneResult'
    BY <1>4 DEF ApplyEffect, OneResult, doneVars
<1>5. ASSUME NEW t \in tasks, NEW received \in BOOLEAN,
             Commit(t, received) \/ Retry(t, received) \/ Dead(t, received)
      PROVE  OneResult'
  <2>1. t.f.job \in Job
      BY TaskFacts
  <2>2. CASE Commit(t, received)
      BY <1>0, <2>1, <2>2, CommitRecords DEF OneResult
  <2>3. CASE Retry(t, received)
      BY <2>3, RetryMoves DEF OneResult
  <2>4. CASE Dead(t, received)
      BY <1>0, <2>1, <2>4, DeadRecords DEF OneResult
  <2> QED BY <1>5, <2>2, <2>3, <2>4
<1>6. ASSUME NEW w \in Worker, Schedule(w)
      PROVE  OneResult'
    BY <1>6, ScheduleMoves DEF OneResult
<1> QED BY <1>1, <1>2, <1>3, <1>4, <1>5, <1>6, StepKinds

\* The ledger's log has one entry per marker, and successes come after their effect.
LEMMA NextLedgerExact ==
    ASSUME Faithful, [Next]_vars
    PROVE  LedgerExact'
<1> USE DEF Faithful
<1>0. done \in [Job -> {"NONE", "SUCCEEDED", "DEAD"}] /\ effects \in [Job -> Nat]
    BY DEF Consistent, TypeOK
<1>1. CASE Quiet
    BY <1>1 DEF Quiet, LedgerExact
<1>2. ASSUME NEW i \in Job, Enqueue(i)
      PROVE  LedgerExact'
    BY <1>2, EnqueueAdds DEF LedgerExact
<1>3. ASSUME NEW i \in Job, Requeue(i)
      PROVE  LedgerExact'
    BY <1>0, <1>3, RequeueMoves DEF LedgerExact
<1>4. ASSUME NEW r \in tasks \cup orphans, ApplyEffect(r)
      PROVE  LedgerExact'
  <2>1. r.f.job \in Job
      BY DEF Consistent, TypeOK, Task, Orphan, Fields
  <2>2. UNCHANGED <<done, tasks>>
      BY <1>4 DEF ApplyEffect, doneVars, workerVars
  <2> QED BY <1>0, <1>4, <2>1, <2>2 DEF ApplyEffect, LedgerApply, ledgerVars, LedgerExact
<1>5. ASSUME NEW t \in tasks, NEW received \in BOOLEAN,
             Commit(t, received) \/ Retry(t, received) \/ Dead(t, received)
      PROVE  LedgerExact'
  <2>1. t.f.job \in Job
      BY TaskFacts
  <2>2. CASE Commit(t, received)
    <3>1. t.f.job \in marked
        BY <2>2 DEF Commit, LedgerExact
    <3> QED BY <1>0, <2>1, <2>2, <3>1, CommitRecords DEF LedgerExact
  <2>3. CASE Retry(t, received)
      BY <2>3, RetryMoves DEF LedgerExact
  <2>4. CASE Dead(t, received)
      BY <1>0, <2>1, <2>4, DeadRecords DEF LedgerExact
  <2> QED BY <1>5, <2>2, <2>3, <2>4
<1>6. ASSUME NEW w \in Worker, Schedule(w)
      PROVE  LedgerExact'
    BY <1>6, ScheduleMoves DEF LedgerExact
<1> QED BY <1>1, <1>2, <1>3, <1>4, <1>5, <1>6, StepKinds

\* Only jobs that were enqueued ever show up anywhere.
LEMMA NextOnlySent ==
    ASSUME Faithful, [Next]_vars
    PROVE  OnlySent'
<1> USE DEF Faithful
<1>0. /\ done \in [Job -> {"NONE", "SUCCEEDED", "DEAD"}]
      /\ \A e \in EntryId : entry[e] # NoFields => entry[e].job \in Job
      /\ \A e \in EntryId : dlq[e] # NoFields => dlq[e].job \in Job
      /\ \A r \in tasks \cup orphans : r.f.job \in Job
      /\ \A m \in delayed : m.job \in Job
    BY DEF Consistent, TypeOK, Task, Orphan, Fields
<1>1. CASE Quiet
    BY <1>1 DEF Quiet, OnlySent
<1>2. ASSUME NEW i \in Job, Enqueue(i)
      PROVE  OnlySent'
    BY <1>0, <1>2, EnqueueAdds DEF OnlySent
<1>3. ASSUME NEW i \in Job, Requeue(i)
      PROVE  OnlySent'
  <2>1. sends[i] > 0
      BY <1>3, RequeueMoves DEF OnlySent
  <2> QED BY <1>0, <1>3, <2>1, RequeueMoves DEF OnlySent
<1>4. ASSUME NEW r \in tasks \cup orphans, ApplyEffect(r)
      PROVE  OnlySent'
    BY <1>4 DEF ApplyEffect, OnlySent, queueVars, retryVars, doneVars, workerVars, envVars
<1>5. ASSUME NEW t \in tasks, NEW received \in BOOLEAN,
             Commit(t, received) \/ Retry(t, received) \/ Dead(t, received)
      PROVE  OnlySent'
  <2>1. t.f.job \in Job /\ t.e \in EntryId /\ sends[t.f.job] > 0
      BY TaskFacts DEF OnlySent
  <2>2. Remove(t.e) => \A e \in EntryId : entry'[e] \in {entry[e], NoFields}
      BY TransitionRemoves
  <2>3. CASE Commit(t, received)
      BY <1>0, <2>1, <2>2, <2>3, CommitRecords DEF OnlySent
  <2>4. CASE Retry(t, received)
      BY <2>1, <2>2, <2>4, RetryMoves DEF OnlySent
  <2>5. CASE Dead(t, received)
    <3>1. dlq \in [EntryId -> Fields \cup {NoFields}]
        BY DEF Consistent, TypeOK
    <3> QED BY <1>0, <2>1, <2>2, <2>5, <3>1, DeadRecords DEF OnlySent
  <2> QED BY <1>5, <2>3, <2>4, <2>5
<1>6. ASSUME NEW w \in Worker, Schedule(w)
      PROVE  OnlySent'
    BY <1>6, ScheduleMoves DEF OnlySent
<1> QED BY <1>1, <1>2, <1>3, <1>4, <1>5, <1>6, StepKinds

\* The initial state knows no job.
LEMMA InitFaithful == Init => Faithful
<1> SUFFICES ASSUME Init PROVE Faithful
    OBVIOUS
<1>1. Consistent
    BY InitConsistent
<1>2. NoLoss /\ OneResult /\ LedgerExact /\ OnlySent
    BY DEF Init, NoLoss, OneResult, LedgerExact, OnlySent
<1> QED BY <1>1, <1>2 DEF Faithful

\* In every reachable state: consistent structures, no lost job, one result, an exact
\* ledger, and nothing about jobs that were never enqueued.
THEOREM AlwaysFaithful == Spec => []Faithful
<1>1. Faithful /\ [Next]_vars => Faithful'
    BY NextConsistent, NextNoLoss, NextOneResult, NextLedgerExact, NextOnlySent DEF Faithful
<1> QED BY <1>1, InitFaithful, PTL DEF Spec

\* No accepted job is ever lost, whatever crashes, lost replies, expired leases, retries
\* and requeues come together.
THEOREM NothingLost == Spec => []NoLoss
<1>1. Faithful => NoLoss
    BY DEF Faithful
<1> QED BY <1>1, AlwaysFaithful, PTL

\* A job has exactly one result if it succeeded and none otherwise (commit.lua).
THEOREM ResultsOnce == Spec => []OneResult
<1>1. Faithful => OneResult
    BY DEF Faithful
<1> QED BY <1>1, AlwaysFaithful, PTL

\* A job's effect happens at most once, and has happened if the job succeeded (ledger.lua).
THEOREM EffectsOnce == Spec => []EffectOnce
<1>1. Faithful => EffectOnce
    BY DEF Faithful, LedgerExact, EffectOnce
<1> QED BY <1>1, AlwaysFaithful, PTL

-----------------------------------------------------------------------------
(* JobQueue implements JobContract *)

\* A step that changes the state of one job.
LEMMA OneStateChanges ==
    ASSUME NEW j \in Job, NEW s, ContractState'[j] = s,
           \A i \in Job \ {j} : ContractState'[i] = ContractState[i]
    PROVE  ContractState' = [ContractState EXCEPT ![j] = s]
<1>1. \A i \in Job : ContractState'[i] = [ContractState EXCEPT ![j] = s][i]
    BY DEF ContractState
<1>2. /\ ContractState' = [i \in Job |-> ContractState'[i]]
      /\ [ContractState EXCEPT ![j] = s] = [i \in Job |-> [ContractState EXCEPT ![j] = s][i]]
    BY DEF ContractState
<1> HIDE DEF ContractState
<1> QED BY <1>1, <1>2

\* Every step of the queue is a step of the contract or leaves it alone.
LEMMA StepRefines ==
    ASSUME Faithful, [Next]_vars
    PROVE  [Contract!Next]_(Contract!vars)
<1> USE DEF Faithful
<1>0. /\ done \in [Job -> {"NONE", "SUCCEEDED", "DEAD"}] /\ results \in [Job -> Nat]
      /\ effects \in [Job -> Nat] /\ sends \in [Job -> 0 .. MaxSends]
    BY DEF Consistent, TypeOK
<1>1. CASE Quiet
    BY <1>1 DEF Quiet, ContractState, Contract!vars
<1>2. ASSUME NEW j \in Job, Enqueue(j)
      PROVE  [Contract!Next]_(Contract!vars)
  <2>1. /\ sends'[j] > 0 /\ \A i \in Job \ {j} : sends'[i] = sends[i]
        /\ UNCHANGED <<done, results, effects>>
      BY <1>2, EnqueueAdds
  <2>2. CASE sends[j] = 0
    <3>1. done[j] = "NONE"
        BY <2>2 DEF OnlySent
    <3>2. ContractState[j] = "UNKNOWN"
        BY <2>2 DEF ContractState
    <3>3. /\ ContractState'[j] = "ACCEPTED"
          /\ \A i \in Job \ {j} : ContractState'[i] = ContractState[i]
        BY <1>0, <2>1, <3>1 DEF ContractState
    <3>4. ContractState' = [ContractState EXCEPT ![j] = "ACCEPTED"]
        BY <3>3, OneStateChanges
    <3> QED BY <2>1, <3>2, <3>4 DEF Contract!Next, Contract!Accept
  <2>3. CASE sends[j] # 0
    <3>1. ContractState' = ContractState
        BY <1>0, <2>1, <2>3 DEF ContractState
    <3> QED BY <2>1, <3>1 DEF Contract!vars
  <2> QED BY <2>2, <2>3
<1>3. ASSUME NEW j \in Job, Requeue(j)
      PROVE  [Contract!Next]_(Contract!vars)
  <2>1. /\ done[j] = "DEAD" /\ done' = [done EXCEPT ![j] = "NONE"]
        /\ UNCHANGED <<results, effects, sends>>
      BY <1>3, RequeueMoves
  <2>2. sends[j] > 0
      BY <2>1 DEF OnlySent
  <2>3. /\ ContractState[j] = "DEAD" /\ ContractState'[j] = "ACCEPTED"
        /\ \A i \in Job \ {j} : ContractState'[i] = ContractState[i]
      BY <1>0, <2>1, <2>2 DEF ContractState
  <2>4. ContractState' = [ContractState EXCEPT ![j] = "ACCEPTED"]
      BY <2>3, OneStateChanges
  <2> QED BY <2>1, <2>3, <2>4 DEF Contract!Next, Contract!Requeue
<1>4. ASSUME NEW r \in tasks \cup orphans, ApplyEffect(r)
      PROVE  [Contract!Next]_(Contract!vars)
  <2> DEFINE j == r.f.job
  <2>1. j \in Job /\ sends[j] > 0
      BY DEF Consistent, TypeOK, Task, Orphan, Fields, OnlySent
  <2>2. UNCHANGED <<done, results, sends>> /\ LedgerApply(j)
      BY <1>4 DEF ApplyEffect, doneVars, envVars
  <2> HIDE DEF j
  <2>3. ContractState' = ContractState
      BY <2>2 DEF ContractState
  <2>4. CASE j \in marked
      BY <2>2, <2>3, <2>4 DEF LedgerApply, ledgerVars, Contract!vars
  <2>5. CASE j \notin marked
    <3>1. effects[j] = 0 /\ effects' = [effects EXCEPT ![j] = 1]
        BY <1>0, <2>1, <2>2, <2>5 DEF LedgerApply, LedgerExact
    <3>2. ContractState[j] \in {"ACCEPTED", "DEAD"}
        BY <1>0, <2>1, <2>5 DEF ContractState, LedgerExact
    <3> QED BY <2>1, <2>2, <2>3, <3>1, <3>2 DEF Contract!Next, Contract!Perform
  <2> QED BY <2>4, <2>5
<1>5. ASSUME NEW t \in tasks, NEW received \in BOOLEAN,
             Commit(t, received) \/ Retry(t, received) \/ Dead(t, received)
      PROVE  [Contract!Next]_(Contract!vars)
  <2> DEFINE j == t.f.job
  <2>1. j \in Job /\ sends[j] > 0
      BY TaskFacts DEF OnlySent
  <2>2. CASE Commit(t, received)
    <3>1. effects[j] = 1
        BY <2>1, <2>2 DEF Commit, LedgerExact
    <3>2. UNCHANGED <<effects, sends>>
        BY <2>2, CommitRecords
    <3>3. CASE UNCHANGED <<done, results>>
        BY <3>2, <3>3 DEF ContractState, Contract!vars
    <3>4. CASE /\ done[j] # "SUCCEEDED"
               /\ done' = [done EXCEPT ![j] = "SUCCEEDED"]
               /\ results' = [results EXCEPT ![j] = @ + 1]
      <4>1. ContractState' = [ContractState EXCEPT ![j] = "SUCCEEDED"]
        <5>1. /\ ContractState'[j] = "SUCCEEDED"
              /\ \A i \in Job \ {j} : ContractState'[i] = ContractState[i]
            BY <1>0, <2>1, <3>2, <3>4 DEF ContractState
        <5> QED BY <2>1, <5>1, OneStateChanges
      <4>2. ContractState[j] \in {"ACCEPTED", "DEAD"}
          BY <1>0, <2>1, <3>4 DEF ContractState
      <4>3. Contract!Record(j)
          BY <3>1, <3>2, <3>4, <4>1 DEF Contract!Record
      <4> QED BY <2>1, <4>2, <4>3 DEF Contract!Next, Contract!Succeed, Contract!SucceedLate
    <3> QED BY <2>2, <3>3, <3>4, CommitRecords
  <2>3. CASE Retry(t, received)
      BY <2>3, RetryMoves DEF ContractState, Contract!vars
  <2>4. CASE Dead(t, received)
    <3>1. UNCHANGED <<results, effects, sends>>
        BY <2>4, DeadRecords
    <3>2. CASE UNCHANGED done
        BY <3>1, <3>2 DEF ContractState, Contract!vars
    <3>3. CASE done[j] = "NONE" /\ done' = [done EXCEPT ![j] = "DEAD"]
      <4>1. /\ ContractState[j] = "ACCEPTED"
            /\ ContractState' = [ContractState EXCEPT ![j] = "DEAD"]
          BY <1>0, <2>1, <3>1, <3>3 DEF ContractState
      <4> QED BY <2>1, <3>1, <4>1 DEF Contract!Next, Contract!Die
    <3> QED BY <2>4, <3>2, <3>3, DeadRecords
  <2> QED BY <1>5, <2>2, <2>3, <2>4
<1>6. ASSUME NEW w \in Worker, Schedule(w)
      PROVE  [Contract!Next]_(Contract!vars)
    BY <1>6, ScheduleMoves DEF ContractState, Contract!vars
<1> QED BY <1>1, <1>2, <1>3, <1>4, <1>5, <1>6, StepKinds

\* The queue implements the contract: SUCCEEDED is final, DEAD never replaces it, only a
\* DEAD job is requeued, effects precede successes, and both are recorded once.
THEOREM ImplementsContract == Spec => RefinesContract
<1>1. Init => Contract!Init
    BY DEF Init, Contract!Init, ContractState
<1>2. Faithful /\ [Next]_vars => [Contract!Next]_(Contract!vars)
    BY StepRefines
<1> QED BY <1>1, <1>2, AlwaysFaithful, PTL DEF Spec, RefinesContract, Contract!Spec
====
