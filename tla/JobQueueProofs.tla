--------------------------- MODULE JobQueueProofs ---------------------------
(***************************************************************************)
(* Proofs about JobQueue, for every value of its constants.                *)
(***************************************************************************)
EXTENDS JobQueue, TLAPS

-----------------------------------------------------------------------------
(* Operators the actions are built from *)

\* Changing the attempt number leaves the rest of a job's fields alone.
LEMMA WithAttemptFields ==
    ASSUME NEW f \in Fields, NEW n \in 0 .. MaxAttempts - 1
    PROVE  WithAttempt(f, n) \in Fields /\ WithAttempt(f, n).job = f.job
BY DEF WithAttempt, Fields

\* The attempt number stays in range: a retry is only sent while attempts are left.
LEMMA RetriedFields ==
    ASSUME NEW f \in Fields, ~AttemptsUsedUp(f)
    PROVE  /\ WithAttempt(f, f.attempt + 1) \in Fields
           /\ WithAttempt(f, f.attempt + 1).job = f.job
<1>1. f.attempt + 1 \in 0 .. MaxAttempts - 1
    BY SettingsAssumption DEF Fields, AttemptsUsedUp
<1> QED BY <1>1, WithAttemptFields

\* A task changes its phase and nothing else.
LEMMA InPhaseTask ==
    ASSUME NEW t \in Task, NEW p \in Phase
    PROVE  /\ InPhase(t, p) \in Task
           /\ InPhase(t, p).e = t.e /\ InPhase(t, p).w = t.w /\ InPhase(t, p).f = t.f
           /\ InPhase(t, p).phase = p
BY DEF InPhase, Task

\* What a delivery hands to its task: the entry's fields as they are in the stream.
LEMMA SpawnTasks ==
    ASSUME TypeOK, NEW w \in Worker, NEW es \in SUBSET Stream,
           NEW count, \A e \in es : count[e] \in Nat \ {0}
    PROVE  /\ Spawn(w, es, count) \subseteq Task
           /\ \A t \in Spawn(w, es, count) :
                t.e \in es /\ t.f = entry[t.e] /\ t.phase \in {"doomed", "running", "silent"}
<1>1. ASSUME NEW e \in es
      PROVE  [w |-> w, e |-> e, d |-> count[e], f |-> entry[e],
              phase |-> FirstPhase(w, count[e], entry[e])] \in Task
  <2>1. e \in EntryId /\ entry[e] \in Fields
      BY DEF Stream, TypeOK
  <2>2. FirstPhase(w, count[e], entry[e]) \in Phase
      BY DEF FirstPhase, Phase
  <2> QED BY <2>1, <2>2 DEF Task
<1>2. \A e \in es : FirstPhase(w, count[e], entry[e]) \in {"doomed", "running", "silent"}
    BY DEF FirstPhase
<1> QED BY <1>1, <1>2 DEF Spawn

\* XADD of well-typed fields keeps the stream consistent.
LEMMA AddKeeps ==
    ASSUME Consistent, NEW f \in Fields, Add(f)
    PROVE  /\ entry' \in [EntryId -> Fields \cup {NoFields}]
           /\ next' \in 1 .. MaxEntry + 1
           /\ entry[next] = NoFields /\ owner[next] = NoOwner /\ dlq[next] = NoFields
           /\ entry'[next] = f
           /\ \A e \in EntryId \ {next} : entry'[e] = entry[e]
           /\ next \in EntryId /\ next' = next + 1 /\ last < next
BY BoundsAssumption DEF Add, Consistent, TypeOK, IdsFresh, PendingExact, EntryId

-----------------------------------------------------------------------------
(* Consistent is inductive *)

\* An empty queue and no running worker are consistent.
LEMMA InitConsistent == Init => Consistent
<1> SUFFICES ASSUME Init PROVE Consistent
    OBVIOUS
<1>1. TypeOK
    BY SettingsAssumption, BoundsAssumption
    DEF Init, TypeOK, Status, NoGroup, NoEntry, EntryId, Fields, Task, Orphan
<1> QED BY <1>1 DEF Consistent, Init, PendingExact, ExpiredPending, IdsFresh, TasksMatch,
                   DlqExact, Pel, NoGroup

\* A new entry (enqueue.lua) gets an id that nothing refers to.
LEMMA EnqueueConsistent ==
    ASSUME Consistent, NEW j \in Job, Enqueue(j)
    PROVE  Consistent'
<1>1. PICK s \in Stamp : Add([job |-> j, attempt |-> 0, stamp |-> s])
    BY DEF Enqueue
<1> DEFINE f == [job |-> j, attempt |-> 0, stamp |-> s]
<1>2. f \in Fields
    BY SettingsAssumption DEF Fields
<1> HIDE DEF f
<1>3. Add(f)
    BY <1>1 DEF f
<1>4. /\ entry' \in [EntryId -> Fields \cup {NoFields}]
      /\ next' \in 1 .. MaxEntry + 1
      /\ entry[next] = NoFields /\ owner[next] = NoOwner /\ dlq[next] = NoFields
      /\ entry'[next] = f
      /\ \A e \in EntryId \ {next} : entry'[e] = entry[e]
      /\ next \in EntryId /\ next' = next + 1 /\ last < next
    BY <1>2, <1>3, AddKeeps
<1>5. sends' \in [Job -> 0 .. MaxSends]
    BY BoundsAssumption DEF Enqueue, Consistent, TypeOK
<1> USE DEF Consistent, Enqueue, groupVars, retryVars, doneVars, ledgerVars, workerVars
<1>6. TypeOK'
    BY <1>4, <1>5 DEF TypeOK
<1>7. PendingExact' /\ ExpiredPending' /\ IdsFresh'
    BY <1>2, <1>4, SentinelAssumption DEF TypeOK, PendingExact, ExpiredPending, IdsFresh, Pel, EntryId, NoGroup
<1>8. TasksMatch' /\ DlqExact'
    BY <1>4 DEF TypeOK, TasksMatch, DlqExact, Task, EntryId, NoGroup
<1> QED BY <1>6, <1>7, <1>8

\* A requeued job (requeue.lua) leaves the DLQ and gets a new entry.
LEMMA RequeueConsistent ==
    ASSUME Consistent, NEW j \in Job, Requeue(j)
    PROVE  Consistent'
<1> DEFINE dead == deadEntry[j]
           f == WithAttempt(dlq[dead], 0)
<1>1. /\ done[j] = "DEAD" /\ dlq[dead] # NoFields /\ Add(f)
      /\ dlq' = [dlq EXCEPT ![dead] = NoFields]
      /\ done' = [done EXCEPT ![j] = "NONE"]
      /\ deadEntry' = [deadEntry EXCEPT ![j] = NoEntry]
    BY DEF Requeue, RequeueScript
<1>2. dead \in EntryId /\ dlq[dead] \in Fields /\ dlq[dead].job = j
    BY <1>1 DEF Consistent, DlqExact, TypeOK
<1>3. f \in Fields
    BY <1>2, WithAttemptFields, SettingsAssumption
<1> HIDE DEF f
<1>4. /\ entry' \in [EntryId -> Fields \cup {NoFields}]
      /\ next' \in 1 .. MaxEntry + 1
      /\ entry[next] = NoFields /\ owner[next] = NoOwner /\ dlq[next] = NoFields
      /\ entry'[next] = f
      /\ \A e \in EntryId \ {next} : entry'[e] = entry[e]
      /\ next \in EntryId /\ next' = next + 1 /\ last < next
    BY <1>1, <1>3, AddKeeps
<1> USE DEF Consistent, Requeue, groupVars, retryVars, ledgerVars, workerVars
<1>5. TypeOK'
  <2>1. /\ dlq' \in [EntryId -> Fields \cup {NoFields}]
        /\ done' \in [Job -> {"NONE", "SUCCEEDED", "DEAD"}]
        /\ deadEntry' \in [Job -> EntryId \cup {NoEntry}]
      BY <1>1 DEF TypeOK
  <2>2. requeues' \in 0 .. MaxRequeues
      BY BoundsAssumption DEF TypeOK
  <2> QED BY <2>1, <2>2, <1>4 DEF TypeOK
<1>6. PendingExact' /\ ExpiredPending' /\ IdsFresh'
    BY <1>1, <1>3, <1>4, SentinelAssumption
    DEF TypeOK, PendingExact, ExpiredPending, IdsFresh, Pel, EntryId, NoGroup
<1>7. TasksMatch'
    BY <1>4 DEF TypeOK, TasksMatch, Task, EntryId, NoGroup
<1>8. DlqExact'
    BY <1>1, <1>2, SentinelAssumption DEF TypeOK, DlqExact
<1> QED BY <1>5, <1>6, <1>7, <1>8

\* A group created at id 0 has delivered nothing.
LEMMA StartConsistent ==
    ASSUME Consistent, NEW w \in Worker, Start(w)
    PROVE  Consistent'
<1> USE DEF Consistent, Start, EnsureGroup, retryVars, doneVars, ledgerVars, envVars
<1>1. last' \in NoGroup .. MaxEntry /\ last' < next
    BY BoundsAssumption DEF TypeOK, IdsFresh, NoGroup
<1>2. TypeOK'
    BY <1>1 DEF TypeOK, Status
<1>3. \A e \in EntryId : e <= last <=> e <= last'
    BY DEF TypeOK, EntryId, NoGroup
<1>4. \A t \in tasks : t.e \in EntryId
    BY DEF TypeOK, Task
<1> QED BY <1>1, <1>2, <1>3, <1>4
        DEF PendingExact, ExpiredPending, IdsFresh, TasksMatch, DlqExact, Pel

\* Steps that change nothing but a worker's status, or take tasks and orphans away.
LEMMA StatusConsistent ==
    ASSUME Consistent, NEW w \in Worker, NEW s \in Status,
           status' = [status EXCEPT ![w] = s],
           tasks' \subseteq tasks, orphans' \subseteq orphans,
           UNCHANGED <<queueVars, retryVars, doneVars, ledgerVars, envVars>>
    PROVE  Consistent'
<1> USE DEF Consistent, queueVars, groupVars, retryVars, doneVars, ledgerVars, envVars
<1>1. TypeOK'
    BY DEF TypeOK
<1> QED BY <1>1 DEF PendingExact, ExpiredPending, IdsFresh, TasksMatch, DlqExact, Pel

\* XREADGROUP makes exactly the entries it delivers pending.
LEMMA FetchConsistent ==
    ASSUME Consistent, NEW w \in Worker, NEW received \in BOOLEAN, Fetch(w, received)
    PROVE  Consistent'
<1> DEFINE Got(n) == {e \in Waiting : e <= n}
<1>1. PICK n \in {last} \cup Waiting :
         /\ last' = n
         /\ owner' = [e \in EntryId |-> IF e \in Got(n) THEN w ELSE owner[e]]
         /\ deliveries' = [e \in EntryId |-> IF e \in Got(n) THEN 1 ELSE deliveries[e]]
         /\ tasks' = IF received THEN tasks \cup Spawn(w, Got(n), deliveries') ELSE tasks
    BY DEF Fetch
<1> DEFINE got == Got(n)
<1>2. /\ got \subseteq Stream /\ got \subseteq EntryId
      /\ \A e \in got : last < e /\ e <= n /\ entry[e] # NoFields
      /\ \A e \in EntryId : entry[e] # NoFields /\ last < e /\ e <= n => e \in got
    BY DEF Waiting, Stream
<1>3. n \in NoGroup .. MaxEntry /\ last <= n /\ n < next
    BY DEF Consistent, TypeOK, IdsFresh, Waiting, Stream, EntryId, NoGroup
<1>4. \A e \in got : deliveries'[e] \in Nat \ {0}
    BY <1>1, <1>2
<1>5. /\ Spawn(w, got, deliveries') \subseteq Task
      /\ \A t \in Spawn(w, got, deliveries') : t.e \in got /\ t.f = entry[t.e]
    BY <1>2, <1>4, SpawnTasks DEF Consistent
<1> HIDE DEF Got
<1>6. tasks' \subseteq tasks \cup Spawn(w, got, deliveries')
    BY <1>1
<1> HIDE DEF got
<1> USE DEF Consistent, Fetch, retryVars, doneVars, ledgerVars, Reply, Fault
<1>7. status' \in [Worker -> Status]
    BY DEF TypeOK, Status
<1>8. faults' \in 0 .. MaxFaults
    BY BoundsAssumption DEF TypeOK
<1>9. TypeOK'
  <2>1. owner' \in [EntryId -> Worker \cup {NoOwner}] /\ deliveries' \in [EntryId -> Nat]
      BY <1>1 DEF TypeOK
  <2>2. tasks' \subseteq Task
      BY <1>5, <1>6 DEF TypeOK
  <2>3. last' \in NoGroup .. MaxEntry /\ consumers' \subseteq Worker
      BY <1>1, <1>3 DEF TypeOK
  <2> QED BY <2>1, <2>2, <2>3, <1>7, <1>8 DEF TypeOK
<1>10. PendingExact'
    BY <1>1, <1>2, <1>3, SentinelAssumption DEF TypeOK, PendingExact, EntryId, NoGroup, got
<1>11. ExpiredPending' /\ IdsFresh' /\ DlqExact'
    BY <1>1, <1>2, <1>3, SentinelAssumption DEF TypeOK, ExpiredPending, IdsFresh, DlqExact, Pel, got
<1>12. TasksMatch'
  <2> SUFFICES ASSUME NEW t \in tasks'
               PROVE  t.e <= n /\ entry[t.e] \in {t.f, NoFields}
      BY <1>1 DEF TasksMatch
  <2>1. CASE t \in tasks
    <3>1. t.e \in EntryId /\ t.e <= last
        BY <2>1 DEF TypeOK, Task, TasksMatch
    <3>2. t.e <= n
        BY <3>1, <1>3 DEF TypeOK, EntryId, NoGroup
    <3> QED BY <2>1, <3>2 DEF TasksMatch
  <2>2. CASE t \in Spawn(w, got, deliveries')
      BY <2>2, <1>2, <1>5
  <2> QED BY <2>1, <2>2, <1>6
<1> QED BY <1>9, <1>10, <1>11, <1>12

\* A reaper pass (reclaim.lua) moves entries between consumers, kept or put back.
LEMMA ReclaimConsistent ==
    ASSUME Consistent, NEW w \in Worker, NEW received \in BOOLEAN, Reclaim(w, received)
    PROVE  Consistent'
<1> DEFINE Claimed(lo, hi) == {e \in expired : lo <= e /\ e <= hi}
           KeptOf(lo, hi) == Kept(Claimed(lo, hi), IF SuspectsOf(w) = {} THEN 1 ELSE 0)
<1>1. PICK lo \in EntryId, hi \in EntryId :
         /\ owner' = [e \in EntryId |-> IF e \in Claimed(lo, hi) THEN w ELSE owner[e]]
         /\ deliveries' = [e \in EntryId |->
                             IF e \in KeptOf(lo, hi) THEN deliveries[e] + 1 ELSE deliveries[e]]
         /\ expired' = expired \ KeptOf(lo, hi)
         /\ tasks' = IF received THEN tasks \cup Spawn(w, KeptOf(lo, hi), deliveries') ELSE tasks
    BY DEF Reclaim
<1> DEFINE claimed == Claimed(lo, hi)
           kept == KeptOf(lo, hi)
<1>2. /\ claimed \subseteq expired /\ claimed \subseteq EntryId
      /\ kept \subseteq claimed
    BY DEF Kept, Consistent, TypeOK
<1> HIDE DEF Claimed, KeptOf
<1>3. \A e \in claimed : owner[e] # NoOwner /\ entry[e] # NoFields /\ e <= last
    BY <1>2 DEF Consistent, ExpiredPending, PendingExact, Pel
<1>4. kept \subseteq Stream
    BY <1>2, <1>3 DEF Stream
<1>5. \A e \in kept : deliveries'[e] \in Nat \ {0}
    BY <1>1, <1>2 DEF Consistent, TypeOK
<1>6. /\ Spawn(w, kept, deliveries') \subseteq Task
      /\ \A t \in Spawn(w, kept, deliveries') : t.e \in kept /\ t.f = entry[t.e]
    BY <1>4, <1>5, SpawnTasks DEF Consistent
<1>7. tasks' \subseteq tasks \cup Spawn(w, kept, deliveries')
    BY <1>1
<1> USE DEF Consistent, Reclaim, retryVars, doneVars, ledgerVars, Reply, Fault
<1>8. TypeOK'
  <2>1. owner' \in [EntryId -> Worker \cup {NoOwner}] /\ deliveries' \in [EntryId -> Nat]
      BY <1>1 DEF TypeOK
  <2>2. tasks' \subseteq Task /\ expired' \subseteq EntryId /\ consumers' \subseteq Worker
      BY <1>1, <1>6, <1>7 DEF TypeOK
  <2>3. faults' \in 0 .. MaxFaults
      BY BoundsAssumption DEF TypeOK
  <2> QED BY <2>1, <2>2, <2>3 DEF TypeOK
<1> HIDE DEF claimed, kept
<1>9. \A e \in EntryId : owner'[e] # NoOwner <=> owner[e] # NoOwner
    BY <1>1, <1>3, SentinelAssumption DEF TypeOK, claimed
<1>10. PendingExact' /\ ExpiredPending'
    BY <1>1, <1>9 DEF PendingExact, ExpiredPending, Pel
<1>11. IdsFresh' /\ DlqExact'
    BY DEF IdsFresh, DlqExact
<1>12. TasksMatch'
    BY <1>2, <1>3, <1>6, <1>7 DEF TasksMatch
<1> QED BY <1>8, <1>10, <1>11, <1>12

\* Only pending entries expire.
LEMMA LeaseExpiresConsistent ==
    ASSUME Consistent, NEW e \in EntryId, LeaseExpires(e)
    PROVE  Consistent'
<1> USE DEF Consistent, LeaseExpires, retryVars, doneVars, ledgerVars, workerVars, Fault
<1>1. faults' \in 0 .. MaxFaults
    BY BoundsAssumption DEF TypeOK
<1>2. TypeOK'
    BY <1>1 DEF TypeOK
<1> QED BY <1>2 DEF PendingExact, ExpiredPending, IdsFresh, TasksMatch, DlqExact, Pel

\* Pruning deletes nobody's entries.
LEMMA PruneKeepsPel ==
    ASSUME Consistent, NEW w \in Worker, NEW idle \in SUBSET (consumers \ {w}), Prune(w, idle)
    PROVE  owner' = owner /\ deliveries' = deliveries /\ expired' = expired
<1> DEFINE deleted == {c \in idle : \A e \in Pel : owner[e] # c}
<1>1. \A e \in EntryId : owner[e] \notin deleted
    BY SentinelAssumption DEF Pel, Consistent, TypeOK
<1>2. owner' = [e \in EntryId |-> owner[e]] /\ deliveries' = [e \in EntryId |-> deliveries[e]]
    BY <1>1 DEF Prune
<1>3. expired' = expired
    BY <1>1 DEF Prune, Consistent, TypeOK
<1> QED BY <1>2, <1>3 DEF Consistent, TypeOK

\* Pruning (prune_consumers.lua) removes consumer records only.
LEMMA PruneConsistent ==
    ASSUME Consistent, NEW w \in Worker, NEW idle \in SUBSET (consumers \ {w}), Prune(w, idle)
    PROVE  Consistent'
<1>1. owner' = owner /\ deliveries' = deliveries /\ expired' = expired
    BY PruneKeepsPel
<1> USE DEF Consistent, Prune, retryVars, doneVars, ledgerVars, workerVars, envVars
<1>2. TypeOK'
    BY <1>1 DEF TypeOK
<1> QED BY <1>1, <1>2 DEF PendingExact, ExpiredPending, IdsFresh, TasksMatch, DlqExact, Pel

\* A run's effect (ledger.lua) touches the ledger only.
LEMMA ApplyEffectConsistent ==
    ASSUME Consistent, NEW r \in tasks \cup orphans, ApplyEffect(r)
    PROVE  Consistent'
<1> USE DEF Consistent, ApplyEffect, LedgerApply, queueVars, groupVars, retryVars, doneVars,
            ledgerVars, workerVars, envVars
<1>1. r.f.job \in Job
    BY DEF TypeOK, Task, Orphan, Fields
<1>2. marked' \subseteq Job /\ effects' \in [Job -> Nat]
    BY <1>1 DEF TypeOK
<1>3. TypeOK'
    BY <1>2 DEF TypeOK
<1> QED BY <1>3 DEF PendingExact, ExpiredPending, IdsFresh, TasksMatch, DlqExact, Pel

\* A handler's end changes its task's phase and may leave an orphan.
LEMMA RunEndsConsistent ==
    ASSUME Consistent, NEW t \in tasks, RunEnds(t)
    PROVE  Consistent'
<1> USE DEF Consistent, RunEnds, HandlerReturns, HandlerFails, HandlerTimesOut, SetPhase,
            queueVars, groupVars, retryVars, doneVars, ledgerVars, envVars
<1>1. t \in Task
    BY DEF TypeOK
<1>2. PICK p \in Phase : tasks' = (tasks \ {t}) \cup {InPhase(t, p)}
    BY DEF Phase
<1>3. InPhase(t, p) \in Task /\ InPhase(t, p).e = t.e /\ InPhase(t, p).f = t.f
    BY <1>1, InPhaseTask
<1>4. orphans' \subseteq Orphan
    BY <1>1 DEF TypeOK, Task, Orphan
<1>5. TypeOK'
    BY <1>2, <1>3, <1>4 DEF TypeOK
<1>6. TasksMatch'
    BY <1>2, <1>3 DEF TasksMatch
<1> QED BY <1>5, <1>6 DEF PendingExact, ExpiredPending, IdsFresh, DlqExact, Pel

\* An orphan's end touches nothing else.
LEMMA OrphanEndsConsistent ==
    ASSUME Consistent, NEW o \in orphans, OrphanEnds(o)
    PROVE  Consistent'
<1> USE DEF Consistent, OrphanEnds, queueVars, groupVars, retryVars, doneVars, ledgerVars, envVars
<1>1. TypeOK'
    BY DEF TypeOK
<1> QED BY <1>1 DEF PendingExact, ExpiredPending, IdsFresh, TasksMatch, DlqExact, Pel

\* A beat (heartbeat.lua) moves no entry to another consumer.
LEMMA HeartbeatConsistent ==
    ASSUME Consistent, NEW t \in tasks, Heartbeat(t)
    PROVE  Consistent'
<1> USE DEF Consistent, Heartbeat, HeartbeatScript, Owns, retryVars, doneVars, ledgerVars, envVars
<1>1. t \in Task /\ t.e \in EntryId /\ t.w \in Worker
    BY DEF TypeOK, Task
<1>2. owner' = owner /\ expired' \subseteq expired
    BY <1>1 DEF TypeOK
<1>3. tasks' = tasks \/ tasks' = (tasks \ {t}) \cup {InPhase(t, "silent")}
    BY DEF SetPhase
<1>4. /\ InPhase(t, "silent") \in Task
      /\ InPhase(t, "silent").e = t.e /\ InPhase(t, "silent").f = t.f
    BY <1>1, InPhaseTask DEF Phase
<1>5. TypeOK'
    BY <1>2, <1>3, <1>4 DEF TypeOK
<1>6. TasksMatch'
    BY <1>3, <1>4 DEF TasksMatch
<1> QED BY <1>2, <1>5, <1>6 DEF PendingExact, ExpiredPending, IdsFresh, DlqExact, Pel

\* XACK and XDEL of a delivered entry.
LEMMA RemoveKeeps ==
    ASSUME Consistent, NEW e \in EntryId, e <= last, Remove(e)
    PROVE  /\ entry' \in [EntryId -> Fields \cup {NoFields}]
           /\ owner' \in [EntryId -> Worker \cup {NoOwner}]
           /\ deliveries' \in [EntryId -> Nat]
           /\ expired' \subseteq EntryId
           /\ entry'[e] = NoFields /\ owner'[e] = NoOwner
           /\ \A i \in EntryId \ {e} : entry'[i] = entry[i] /\ owner'[i] = owner[i]
           /\ expired' = expired \ {e}
BY DEF Remove, Consistent, TypeOK

\* What a transition's reply does to the tasks.
LEMMA AnsweredKeeps ==
    ASSUME Consistent, NEW t \in tasks, NEW received \in BOOLEAN, Answered(t, received)
    PROVE  tasks' \subseteq tasks /\ faults' \in 0 .. MaxFaults
BY BoundsAssumption DEF Answered, Reply, Fault, Consistent, TypeOK

\* A task's entry is delivered, and holds the task's job if it is still there.
LEMMA TaskFacts ==
    ASSUME Consistent, NEW t \in tasks
    PROVE  /\ t \in Task /\ t.e \in EntryId /\ t.w \in Worker /\ t.f \in Fields /\ t.f.job \in Job
           /\ t.e <= last /\ (entry[t.e] # NoFields => entry[t.e] = t.f)
           /\ Owns(t.w, t.e) => entry[t.e] = t.f
<1>1. t \in Task /\ t.e \in EntryId /\ t.w \in Worker /\ t.f \in Fields /\ t.f.job \in Job
    BY DEF Consistent, TypeOK, Task, Fields
<1>2. t.e <= last /\ (entry[t.e] # NoFields => entry[t.e] = t.f)
    BY DEF Consistent, TasksMatch
<1>3. ASSUME Owns(t.w, t.e) PROVE entry[t.e] # NoFields
    BY <1>1, <1>3, SentinelAssumption DEF Owns, Consistent, PendingExact
<1> QED BY <1>1, <1>2, <1>3

\* A commit (commit.lua) removes its entry and its job's DLQ entry together with the DEAD state.
LEMMA CommitConsistent ==
    ASSUME Consistent, NEW t \in tasks, NEW received \in BOOLEAN, Commit(t, received)
    PROVE  Consistent'
<1> DEFINE e == t.e
           j == t.f.job
<1>1. e \in EntryId /\ j \in Job /\ e <= last /\ t.f \in Fields
    BY TaskFacts
<1>2. /\ entry' \in [EntryId -> Fields \cup {NoFields}]
      /\ owner' \in [EntryId -> Worker \cup {NoOwner}]
      /\ deliveries' \in [EntryId -> Nat]
      /\ expired' \subseteq EntryId
      /\ entry'[e] = NoFields /\ owner'[e] = NoOwner
      /\ \A i \in EntryId \ {e} : entry'[i] = entry[i] /\ owner'[i] = owner[i]
      /\ expired' = expired \ {e}
    BY <1>1, RemoveKeeps DEF Commit, CommitScript
<1>3. tasks' \subseteq tasks /\ faults' \in 0 .. MaxFaults
    BY AnsweredKeeps DEF Commit
<1>4. \/ UNCHANGED doneVars
      \/ /\ done' = [done EXCEPT ![j] = "SUCCEEDED"]
         /\ deadEntry' = [deadEntry EXCEPT ![j] = NoEntry]
         /\ dlq' = [i \in EntryId |->
                      IF done[j] = "DEAD" /\ i = deadEntry[j] THEN NoFields ELSE dlq[i]]
         /\ results' = [results EXCEPT ![j] = @ + 1]
    BY DEF Commit, CommitScript
<1> HIDE DEF e, j
<1> USE DEF Consistent, Commit, retryVars, ledgerVars
<1>5. /\ done' \in [Job -> {"NONE", "SUCCEEDED", "DEAD"}]
      /\ deadEntry' \in [Job -> EntryId \cup {NoEntry}]
      /\ dlq' \in [EntryId -> Fields \cup {NoFields}]
      /\ results' \in [Job -> Nat]
      /\ \A i \in EntryId : dlq'[i] \in {dlq[i], NoFields}
    BY <1>1, <1>4 DEF TypeOK, doneVars
<1>6. TypeOK'
    BY <1>2, <1>3, <1>5 DEF TypeOK
<1>7. PendingExact' /\ ExpiredPending' /\ IdsFresh'
    BY <1>2, <1>5 DEF PendingExact, ExpiredPending, IdsFresh, Pel
<1>8. TasksMatch'
    BY <1>2, <1>3 DEF TypeOK, TasksMatch, Task
<1>9. DlqExact'
    BY <1>1, <1>4, SentinelAssumption DEF TypeOK, DlqExact, doneVars, Fields
<1> QED BY <1>6, <1>7, <1>8, <1>9

\* A failed task's retry moves its entry to the delayed set.
LEMMA RetryConsistent ==
    ASSUME Consistent, NEW t \in tasks, NEW received \in BOOLEAN, Retry(t, received)
    PROVE  Consistent'
<1> DEFINE e == t.e
           member == WithAttempt(entry[e], entry[e].attempt + 1)
<1>1. e \in EntryId /\ e <= last /\ t.f \in Fields /\ (Owns(t.w, e) => entry[e] = t.f)
    BY TaskFacts
<1>2. tasks' \subseteq tasks /\ faults' \in 0 .. MaxFaults
    BY AnsweredKeeps DEF Retry
<1> USE DEF Consistent, Retry, retryVars, doneVars, ledgerVars
<1>3. CASE ~Owns(t.w, e)
  <2>1. UNCHANGED <<entry, owner, deliveries, expired, delayed, due>>
      BY <1>3 DEF RetryScript
  <2>2. TypeOK'
      BY <1>2, <2>1 DEF TypeOK
  <2> QED BY <1>2, <2>1, <2>2
          DEF PendingExact, ExpiredPending, IdsFresh, TasksMatch, DlqExact, Pel
<1>4. CASE Owns(t.w, e)
  <2>1. member \in Fields
      BY <1>1, <1>4, RetriedFields
  <2>2. Remove(e) /\ (\/ UNCHANGED <<delayed, due>>
                      \/ delayed' = delayed \cup {member} /\ due' = due \ {member})
      BY <1>4 DEF RetryScript
  <2>3. /\ entry' \in [EntryId -> Fields \cup {NoFields}]
        /\ owner' \in [EntryId -> Worker \cup {NoOwner}]
        /\ deliveries' \in [EntryId -> Nat]
        /\ expired' \subseteq EntryId
        /\ entry'[e] = NoFields /\ owner'[e] = NoOwner
        /\ \A i \in EntryId \ {e} : entry'[i] = entry[i] /\ owner'[i] = owner[i]
        /\ expired' = expired \ {e}
      BY <1>1, <2>2, RemoveKeeps
  <2> HIDE DEF e, member
  <2>4. delayed' \subseteq Fields /\ due' \subseteq delayed'
      BY <2>1, <2>2 DEF TypeOK
  <2>5. TypeOK'
      BY <1>2, <2>3, <2>4 DEF TypeOK
  <2>6. PendingExact' /\ ExpiredPending' /\ IdsFresh' /\ DlqExact'
      BY <1>1, <2>3 DEF PendingExact, ExpiredPending, IdsFresh, DlqExact, Pel
  <2>7. TasksMatch'
      BY <1>2, <2>3 DEF TypeOK, TasksMatch, Task
  <2> QED BY <2>5, <2>6, <2>7
<1> QED BY <1>3, <1>4

\* A dead-lettered entry leaves the stream and names its job's only DLQ entry.
LEMMA DeadConsistent ==
    ASSUME Consistent, NEW t \in tasks, NEW received \in BOOLEAN, Dead(t, received)
    PROVE  Consistent'
<1> DEFINE e == t.e
           j == t.f.job
<1>1. /\ e \in EntryId /\ e <= last /\ t.f \in Fields /\ j \in Job
      /\ Owns(t.w, e) => entry[e] = t.f
    BY TaskFacts
<1>2. tasks' \subseteq tasks /\ faults' \in 0 .. MaxFaults
    BY AnsweredKeeps DEF Dead
<1> USE DEF Consistent, Dead, retryVars, ledgerVars
<1>3. CASE ~Owns(t.w, e)
  <2>1. UNCHANGED <<entry, owner, deliveries, expired, done, deadEntry, dlq, results>>
      BY <1>3 DEF DeadScript, doneVars
  <2>2. TypeOK'
      BY <1>2, <2>1 DEF TypeOK
  <2> QED BY <1>2, <2>1, <2>2
          DEF PendingExact, ExpiredPending, IdsFresh, TasksMatch, DlqExact, Pel
<1>4. CASE Owns(t.w, e)
  <2>1. entry[e] = t.f /\ entry[e] # NoFields
      BY <1>1, <1>4, SentinelAssumption
  <2>2. Remove(e) /\ (\/ UNCHANGED <<done, deadEntry, dlq, results>>
                      \/ /\ done[j] = "NONE"
                         /\ dlq' = [dlq EXCEPT ![e] = entry[e]]
                         /\ done' = [done EXCEPT ![j] = "DEAD"]
                         /\ deadEntry' = [deadEntry EXCEPT ![j] = e]
                         /\ UNCHANGED results)
      BY <1>4 DEF DeadScript, doneVars
  <2>3. /\ entry' \in [EntryId -> Fields \cup {NoFields}]
        /\ owner' \in [EntryId -> Worker \cup {NoOwner}]
        /\ deliveries' \in [EntryId -> Nat]
        /\ expired' \subseteq EntryId
        /\ entry'[e] = NoFields /\ owner'[e] = NoOwner
        /\ \A i \in EntryId \ {e} : entry'[i] = entry[i] /\ owner'[i] = owner[i]
        /\ expired' = expired \ {e}
      BY <1>1, <2>2, RemoveKeeps
  <2>4. e < next /\ entry[e].job = j
      BY <1>1, <2>1 DEF IdsFresh
  <2> HIDE DEF e, j
  <2>5. /\ done' \in [Job -> {"NONE", "SUCCEEDED", "DEAD"}]
        /\ deadEntry' \in [Job -> EntryId \cup {NoEntry}]
        /\ dlq' \in [EntryId -> Fields \cup {NoFields}]
        /\ results' \in [Job -> Nat]
        /\ \A i \in EntryId : i # e => dlq'[i] = dlq[i]
      BY <1>1, <2>1, <2>2 DEF TypeOK
  <2>6. TypeOK'
      BY <1>2, <2>3, <2>5 DEF TypeOK
  <2>7. PendingExact' /\ ExpiredPending' /\ IdsFresh'
      BY <1>1, <2>3, <2>4, <2>5 DEF PendingExact, ExpiredPending, IdsFresh, Pel
  <2>8. TasksMatch'
      BY <1>2, <2>3 DEF TypeOK, TasksMatch, Task
  <2>9. DlqExact'
    <3>1. CASE UNCHANGED <<done, deadEntry, dlq, results>>
        BY <3>1 DEF DlqExact
    <3>2. CASE /\ done[j] = "NONE"
               /\ dlq' = [dlq EXCEPT ![e] = entry[e]]
               /\ done' = [done EXCEPT ![j] = "DEAD"]
               /\ deadEntry' = [deadEntry EXCEPT ![j] = e]
      <4>1. dlq[e] = NoFields
          BY <1>1, <2>1 DEF IdsFresh
      <4>2. dlq'[e] = entry[e] /\ done'[j] = "DEAD" /\ deadEntry'[j] = e
          BY <1>1, <3>2 DEF TypeOK
      <4>3. \A i \in Job \ {j} : done'[i] = done[i] /\ deadEntry'[i] = deadEntry[i]
          BY <3>2 DEF TypeOK
      <4>4. ASSUME NEW i \in Job, done'[i] = "DEAD"
            PROVE  /\ deadEntry'[i] \in EntryId
                   /\ dlq'[deadEntry'[i]] # NoFields
                   /\ dlq'[deadEntry'[i]].job = i
        <5>1. CASE i = j
            BY <5>1, <1>1, <2>1, <2>4, <4>2
        <5>2. CASE i # j
          <6>1. /\ deadEntry[i] \in EntryId
                /\ dlq[deadEntry[i]] # NoFields
                /\ dlq[deadEntry[i]].job = i
              BY <5>2, <4>3, <4>4 DEF DlqExact
          <6>2. deadEntry[i] # e
              BY <6>1, <4>1
          <6> QED BY <5>2, <6>1, <6>2, <2>5, <4>3
        <5> QED BY <5>1, <5>2
      <4>5. ASSUME NEW i \in EntryId, dlq'[i] # NoFields
            PROVE  done'[dlq'[i].job] = "DEAD" /\ deadEntry'[dlq'[i].job] = i
        <5>1. CASE i = e
            BY <5>1, <2>4, <4>2
        <5>2. CASE i # e
          <6>1. dlq'[i] = dlq[i] /\ dlq[i] \in Fields
              BY <5>2, <2>5, <4>5 DEF TypeOK
          <6>2. /\ dlq[i].job \in Job
                /\ done[dlq[i].job] = "DEAD" /\ deadEntry[dlq[i].job] = i
              BY <6>1, <4>5 DEF DlqExact, Fields
          <6>3. dlq[i].job # j
              BY <6>2, <3>2
          <6> QED BY <6>1, <6>2, <6>3, <4>3
        <5> QED BY <5>1, <5>2
      <4> QED BY <4>4, <4>5 DEF DlqExact
    <3> QED BY <3>1, <3>2, <2>2
  <2> QED BY <2>6, <2>7, <2>8, <2>9
<1> QED BY <1>3, <1>4

\* A task that gives up leaves Redis alone.
LEMMA GiveUpConsistent ==
    ASSUME Consistent, NEW t \in tasks, GiveUp(t)
    PROVE  Consistent'
<1> USE DEF Consistent, GiveUp, Fault, queueVars, groupVars, retryVars, doneVars, ledgerVars
<1>1. faults' \in 0 .. MaxFaults
    BY BoundsAssumption DEF TypeOK
<1>2. TypeOK'
    BY <1>1 DEF TypeOK
<1> QED BY <1>2 DEF PendingExact, ExpiredPending, IdsFresh, TasksMatch, DlqExact, Pel

\* Time passing makes a delayed member due.
LEMMA BackoffElapsesConsistent ==
    ASSUME Consistent, NEW m \in delayed, BackoffElapses(m)
    PROVE  Consistent'
<1> USE DEF Consistent, BackoffElapses, queueVars, groupVars, doneVars, ledgerVars, workerVars,
            envVars
<1>1. TypeOK'
    BY DEF TypeOK
<1> QED BY <1>1 DEF PendingExact, ExpiredPending, IdsFresh, TasksMatch, DlqExact, Pel

\* The scheduler appends due members under fresh ids.
LEMMA ScheduleConsistent ==
    ASSUME Consistent, NEW w \in Worker, Schedule(w)
    PROVE  Consistent'
<1>1. PICK n \in 1 .. SchedulerBatch : \E moved \in [1 .. n -> due] :
         LET gone == {moved[i] : i \in 1 .. n} IN
         /\ next + n - 1 \in EntryId
         /\ entry' = [e \in EntryId |->
                         IF e \in next .. next + n - 1 THEN moved[e - next + 1] ELSE entry[e]]
         /\ next' = next + n
         /\ delayed' = delayed \ gone
         /\ due' = due \ gone
    BY DEF Schedule
<1>2. PICK moved \in [1 .. n -> due] :
         LET gone == {moved[i] : i \in 1 .. n} IN
         /\ next + n - 1 \in EntryId
         /\ entry' = [e \in EntryId |->
                         IF e \in next .. next + n - 1 THEN moved[e - next + 1] ELSE entry[e]]
         /\ next' = next + n
         /\ delayed' = delayed \ gone
         /\ due' = due \ gone
    BY <1>1
<1>3. delayed' \subseteq Fields /\ due' \subseteq delayed'
    BY <1>2 DEF Consistent, TypeOK
<1>4. n \in Nat \ {0} /\ next \in Nat \ {0}
    BY SettingsAssumption, BoundsAssumption DEF Consistent, TypeOK
<1>5. \A e \in next .. next + n - 1 : moved[e - next + 1] \in Fields
  <2> TAKE e \in next .. next + n - 1
  <2>1. e - next + 1 \in 1 .. n
      BY <1>4
  <2> QED BY <2>1 DEF Consistent, TypeOK
<1>6. /\ entry' \in [EntryId -> Fields \cup {NoFields}]
      /\ \A e \in EntryId : e < next => entry'[e] = entry[e]
      /\ \A e \in EntryId : e >= next + n => entry'[e] = entry[e]
      /\ \A e \in EntryId : e >= next => dlq[e] = NoFields /\ owner[e] = NoOwner /\ ~(e <= last)
  <2>1. entry' \in [EntryId -> Fields \cup {NoFields}]
      BY <1>2, <1>5 DEF Consistent, TypeOK
  <2>2. /\ \A e \in EntryId : e < next => entry'[e] = entry[e]
        /\ \A e \in EntryId : e >= next + n => entry'[e] = entry[e]
      BY <1>2, <1>4 DEF EntryId
  <2>3. \A e \in EntryId : e >= next => dlq[e] = NoFields /\ owner[e] = NoOwner /\ ~(e <= last)
      BY <1>4 DEF Consistent, TypeOK, IdsFresh, PendingExact, EntryId, NoGroup
  <2> QED BY <2>1, <2>2, <2>3
<1>7. next' \in 1 .. MaxEntry + 1 /\ next < next'
    BY <1>2, <1>4, BoundsAssumption DEF EntryId
<1> USE DEF Consistent, Schedule, groupVars, doneVars, ledgerVars, workerVars, envVars
<1>8. TypeOK'
    BY <1>3, <1>6, <1>7 DEF TypeOK
<1>9. PendingExact' /\ ExpiredPending' /\ DlqExact'
    BY <1>4, <1>6 DEF PendingExact, ExpiredPending, DlqExact, Pel, EntryId
<1>10. IdsFresh'
  <2>1. last' < next'
      BY <1>7, <1>4 DEF TypeOK, IdsFresh, NoGroup
  <2>2. ASSUME NEW e \in EntryId
        PROVE  /\ entry'[e] # NoFields \/ dlq'[e] # NoFields => e < next'
               /\ entry'[e] # NoFields => dlq'[e] = NoFields
    <3>1. e \in Nat
        BY DEF EntryId
    <3>2. CASE e < next
        BY <3>1, <3>2, <1>4, <1>6, <1>7 DEF IdsFresh
    <3>3. CASE e >= next /\ e < next'
        BY <3>3, <1>6
    <3>4. CASE e >= next'
        BY <3>1, <3>4, <1>2, <1>4, <1>6 DEF IdsFresh
    <3> QED BY <3>1, <3>2, <3>3, <3>4, <1>4, <1>7
  <2> QED BY <2>1, <2>2 DEF IdsFresh
<1>11. TasksMatch'
    BY <1>4, <1>6 DEF TypeOK, TasksMatch, Task, IdsFresh, EntryId, NoGroup
<1> QED BY <1>8, <1>9, <1>10, <1>11

\* Every step of the system keeps Consistent.
LEMMA NextConsistent == Consistent /\ [Next]_vars => Consistent'
<1> SUFFICES ASSUME Consistent, [Next]_vars
             PROVE  Consistent'
    OBVIOUS
<1>1. CASE \E j \in Job : Enqueue(j) \/ Requeue(j)
    BY <1>1, EnqueueConsistent, RequeueConsistent
<1>2. ASSUME NEW w \in Worker, WorkerStep(w)
      PROVE  Consistent'
  <2>1. CASE Start(w)
      BY <2>1, StartConsistent
  <2>2. CASE RequestStop(w) \/ StopFetching(w)
    <3>1. PICK s \in Status : status' = [status EXCEPT ![w] = s]
        BY <2>2 DEF RequestStop, StopFetching, Status
    <3>2. /\ tasks' \subseteq tasks /\ orphans' \subseteq orphans
          /\ UNCHANGED <<queueVars, retryVars, doneVars, ledgerVars, envVars>>
        BY <2>2 DEF RequestStop, StopFetching
    <3> QED BY <3>1, <3>2, StatusConsistent
  <2>3. CASE Exit(w) \/ Crash(w)
    <3>1. /\ status' = [status EXCEPT ![w] = "down"]
          /\ tasks' \subseteq tasks /\ orphans' \subseteq orphans
          /\ UNCHANGED <<queueVars, retryVars, doneVars, ledgerVars, envVars>>
        BY <2>3 DEF Exit, Crash, Vanish
    <3>2. "down" \in Status
        BY DEF Status
    <3> QED BY <3>1, <3>2, StatusConsistent
  <2>4. CASE \E received \in BOOLEAN : Fetch(w, received) \/ Reclaim(w, received)
      BY <2>4, FetchConsistent, ReclaimConsistent
  <2>5. CASE Schedule(w)
      BY <2>5, ScheduleConsistent
  <2>6. CASE \E idle \in SUBSET (consumers \ {w}) : Prune(w, idle)
      BY <2>6, PruneConsistent
  <2> QED BY <1>2, <2>1, <2>2, <2>3, <2>4, <2>5, <2>6 DEF WorkerStep
<1>3. CASE \E e \in EntryId : LeaseExpires(e)
    BY <1>3, LeaseExpiresConsistent
<1>4. ASSUME NEW t \in tasks, TaskStep(t)
      PROVE  Consistent'
  <2>1. CASE Heartbeat(t)
      BY <2>1, HeartbeatConsistent
  <2>2. CASE ApplyEffect(t)
      BY <2>2, ApplyEffectConsistent
  <2>3. CASE HandlerReturns(t) \/ HandlerFails(t) \/ HandlerTimesOut(t)
      BY <2>3, RunEndsConsistent DEF RunEnds
  <2>4. CASE GiveUp(t)
      BY <2>4, GiveUpConsistent
  <2>5. CASE \E received \in BOOLEAN :
                 Commit(t, received) \/ Retry(t, received) \/ Dead(t, received)
      BY <2>5, CommitConsistent, RetryConsistent, DeadConsistent
  <2> QED BY <1>4, <2>1, <2>2, <2>3, <2>4, <2>5 DEF TaskStep
<1>5. CASE \E o \in orphans : ApplyEffect(o) \/ OrphanEnds(o)
    BY <1>5, ApplyEffectConsistent, OrphanEndsConsistent
<1>6. CASE \E m \in delayed : BackoffElapses(m)
    BY <1>6, BackoffElapsesConsistent
<1>7. CASE UNCHANGED vars
    BY <1>7 DEF vars, queueVars, groupVars, retryVars, doneVars, ledgerVars, workerVars, envVars,
                Consistent, TypeOK, PendingExact, ExpiredPending, IdsFresh, TasksMatch,
                DlqExact, Pel
<1> QED BY <1>1, <1>2, <1>3, <1>4, <1>5, <1>6, <1>7 DEF Next

\* Redis's structures stay consistent with each other and with the workers' tasks in
\* every reachable state: types, pending entries, leases, ids, tasks and the DLQ.
THEOREM AlwaysConsistent == Spec => []Consistent
BY InitConsistent, NextConsistent, PTL DEF Spec

\* Type correctness, the attempt numbers included (Worker._fail).
THEOREM TypeCorrect == Spec => []TypeOK
<1>1. Consistent => TypeOK
    BY DEF Consistent
<1> QED BY <1>1, AlwaysConsistent, PTL

\* No script ever leaves an entry where neither a fetch nor a reaper finds it: pending
\* entries and delivered entries of the stream are the same.
THEOREM PendingIsExact == Spec => []PendingExact
<1>1. Consistent => PendingExact
    BY DEF Consistent
<1> QED BY <1>1, AlwaysConsistent, PTL

\* The DLQ and the DEAD done keys always agree (dead.lua, commit.lua, requeue.lua).
THEOREM DlqIsExact == Spec => []DlqExact
<1>1. Consistent => DlqExact
    BY DEF Consistent
<1> QED BY <1>1, AlwaysConsistent, PTL
====
