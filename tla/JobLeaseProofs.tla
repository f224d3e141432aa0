--------------------------- MODULE JobLeaseProofs ---------------------------
(***************************************************************************)
(* Proofs that leases are respected, that a worker stays within its slots  *)
(* and its connections, and that copies of a job come from enqueues only,  *)
(* for every value of JobQueue's constants.  They rest on Consistent,      *)
(* proved in JobQueueProofs, and on the kinds of steps of JobSafetyProofs. *)
(***************************************************************************)
EXTENDS JobSafetyProofs, FiniteSetTheorems

-----------------------------------------------------------------------------
(* Leases *)

\* What LeaseRespected says of one step.
LeaseStep ==
    \A e \in Pel :
        /\ owner'[e] \notin {owner[e], NoOwner} => e \in expired
        /\ owner'[e] = NoOwner =>
              \/ done'[entry[e].job] = "SUCCEEDED"
              \/ \E t \in tasks : t.e = e /\ t.w = owner[e] /\ t.phase \in {"failed", "doomed"}

\* A fetch (XREADGROUP '>') gives nobody an entry that somebody has.
LEMMA FetchLease ==
    ASSUME Consistent, NEW w \in Worker, NEW received \in BOOLEAN, Fetch(w, received)
    PROVE  LeaseStep
<1>1. PICK n \in {last} \cup Waiting :
         owner' = [e \in EntryId |-> IF e \in {i \in Waiting : i <= n} THEN w ELSE owner[e]]
    BY DEF Fetch
<1>2. \A e \in Pel : e \in EntryId /\ e \notin Waiting /\ owner[e] # NoOwner
    BY DEF Pel, Waiting, Consistent, TypeOK, PendingExact, EntryId, NoGroup
<1>3. \A e \in Pel : owner'[e] = owner[e]
    BY <1>1, <1>2
<1> QED BY <1>2, <1>3 DEF LeaseStep

\* A reaper pass (reclaim.lua) takes over expired entries only.
LEMMA ReclaimLease ==
    ASSUME Consistent, NEW w \in Worker, NEW received \in BOOLEAN, Reclaim(w, received)
    PROVE  LeaseStep
<1>1. PICK lo \in EntryId, hi \in EntryId :
         owner' = [e \in EntryId |-> IF e \in {i \in expired : lo <= i /\ i <= hi} THEN w ELSE owner[e]]
    BY DEF Reclaim
<1>2. \A e \in Pel : e \in EntryId /\ owner[e] # NoOwner
    BY DEF Pel
<1>3. \A e \in Pel : owner'[e] = owner[e] \/ (e \in expired /\ owner'[e] = w)
    BY <1>1, <1>2
<1> QED BY <1>2, <1>3, SentinelAssumption DEF LeaseStep

\* A transition takes an entry from the queue after its job has succeeded, or as its owner.
LEMMA TransitionLease ==
    ASSUME Consistent, NEW t \in tasks, NEW received \in BOOLEAN,
           Commit(t, received) \/ Retry(t, received) \/ Dead(t, received)
    PROVE  LeaseStep
<1>1. /\ t.e \in EntryId /\ t.w \in Worker /\ t.f.job \in Job /\ t.e <= last
      /\ entry[t.e] # NoFields => entry[t.e] = t.f
    BY TaskFacts
<1>2. Remove(t.e) => \A e \in EntryId \ {t.e} : owner'[e] = owner[e]
    BY <1>1, RemoveKeeps
<1>3. \A e \in Pel : e \in EntryId /\ entry[e] # NoFields /\ owner[e] # NoOwner
    BY DEF Pel, Consistent, PendingExact
<1>4. Remove(t.e) => owner'[t.e] = NoOwner
    BY <1>1, RemoveKeeps
<1>5. CASE Commit(t, received)
  <2>1. Remove(t.e) /\ done'[t.f.job] = "SUCCEEDED"
      BY <1>1, <1>5, CommitRecords DEF Consistent, TypeOK
  <2> QED BY <1>1, <1>2, <1>3, <1>4, <2>1 DEF LeaseStep
<1>6. CASE Retry(t, received)
  <2>1. t.phase = "failed"
      BY <1>6 DEF Retry
  <2>2. UNCHANGED owner \/ (Remove(t.e) /\ owner[t.e] = t.w)
      BY <1>6 DEF Retry, RetryScript, Owns
  <2> QED BY <1>2, <1>3, <1>4, <2>1, <2>2 DEF LeaseStep
<1>7. CASE Dead(t, received)
  <2>1. t.phase \in {"failed", "doomed"}
      BY <1>7 DEF Dead
  <2>2. UNCHANGED owner \/ (Remove(t.e) /\ owner[t.e] = t.w)
      BY <1>7 DEF Dead, DeadScript, Owns
  <2> QED BY <1>2, <1>3, <1>4, <2>1, <2>2 DEF LeaseStep
<1> QED BY <1>5, <1>6, <1>7

\* The other steps leave the consumers of the pending entries alone.
LEMMA OwnersKept ==
    ASSUME Consistent, [Next]_vars
    PROVE  \/ UNCHANGED owner
           \/ \E w \in Worker, received \in BOOLEAN : Fetch(w, received) \/ Reclaim(w, received)
           \/ \E t \in tasks, received \in BOOLEAN :
                 Commit(t, received) \/ Retry(t, received) \/ Dead(t, received)
<1> USE DEF queueVars, groupVars
<1>1. ASSUME NEW j \in Job, Enqueue(j) \/ Requeue(j)
      PROVE  UNCHANGED owner
    BY <1>1 DEF Enqueue, Requeue
<1>2. ASSUME NEW w \in Worker, WorkerStep(w),
             ~ \E received \in BOOLEAN : Fetch(w, received) \/ Reclaim(w, received)
      PROVE  UNCHANGED owner
  <2>1. CASE Start(w) \/ RequestStop(w) \/ StopFetching(w) \/ Exit(w) \/ Crash(w) \/ Schedule(w)
      BY <2>1 DEF Start, RequestStop, StopFetching, Exit, Crash, Vanish, Schedule
  <2>2. CASE \E idle \in SUBSET (consumers \ {w}) : Prune(w, idle)
      BY <2>2, PruneKeepsPel
  <2> QED BY <1>2, <2>1, <2>2 DEF WorkerStep
<1>3. ASSUME NEW e \in EntryId, LeaseExpires(e)
      PROVE  UNCHANGED owner
    BY <1>3 DEF LeaseExpires
<1>4. ASSUME NEW t \in tasks, TaskStep(t),
             ~ \E received \in BOOLEAN :
                  Commit(t, received) \/ Retry(t, received) \/ Dead(t, received)
      PROVE  UNCHANGED owner
  <2>1. CASE Heartbeat(t)
    <3>1. t.e \in EntryId
        BY TaskFacts
    <3> QED BY <2>1, <3>1 DEF Heartbeat, HeartbeatScript, Owns, Consistent, TypeOK
  <2>2. CASE ApplyEffect(t) \/ HandlerReturns(t) \/ HandlerFails(t) \/ HandlerTimesOut(t) \/ GiveUp(t)
      BY <2>2 DEF ApplyEffect, HandlerReturns, HandlerFails, HandlerTimesOut, GiveUp
  <2> QED BY <1>4, <2>1, <2>2 DEF TaskStep
<1>5. ASSUME NEW o \in orphans, ApplyEffect(o) \/ OrphanEnds(o)
      PROVE  UNCHANGED owner
    BY <1>5 DEF ApplyEffect, OrphanEnds
<1>6. ASSUME NEW m \in delayed, BackoffElapses(m)
      PROVE  UNCHANGED owner
    BY <1>6 DEF BackoffElapses
<1>7. CASE UNCHANGED vars
    BY <1>7 DEF vars
<1> QED BY <1>1, <1>2, <1>3, <1>4, <1>5, <1>6, <1>7 DEF Next

\* A lease protects its holder: whatever crashes, stalls and lost replies come together,
\* only an expired entry changes hands, and an entry leaves the queue only because its job
\* has succeeded or because a task of its owner gives it up.
THEOREM LeasesAreRespected == Spec => LeaseRespected
<1>1. ASSUME Consistent, [Next]_vars
      PROVE  [LeaseStep]_vars
  <2>1. CASE UNCHANGED owner
    <3>1. \A e \in Pel : owner[e] # NoOwner
        BY DEF Pel
    <3> QED BY <2>1, <3>1 DEF LeaseStep
  <2> QED BY <1>1, <2>1, OwnersKept, FetchLease, ReclaimLease, TransitionLease
<1> QED BY <1>1, AlwaysConsistent, PTL DEF Spec, LeaseRespected, LeaseStep

-----------------------------------------------------------------------------
(* Slots and connections *)

RunsOf(w) == {t \in TasksOf(w) : Running(t)}

\* The inductive invariant behind SlotsRespected and ConnectionsSuffice.  The tasks alone
\* stay within the slots, and so do the running ones together with the orphans: a task
\* whose run was orphaned is past its run, so it and its orphan share a slot.
Slots ==
    /\ IsFiniteSet(tasks) /\ IsFiniteSet(orphans)
    /\ \A w \in Worker :
         /\ Cardinality(TasksOf(w)) <= Concurrency
         /\ Cardinality(RunsOf(w)) + Cardinality(OrphansOf(w)) <= Concurrency
         /\ \A t, u \in SuspectsOf(w) : t = u

\* The sets of a worker are finite, as parts of finite sets.
LEMMA FiniteParts ==
    ASSUME IsFiniteSet(tasks), IsFiniteSet(orphans), NEW w
    PROVE  /\ IsFiniteSet(TasksOf(w)) /\ Cardinality(TasksOf(w)) \in Nat
           /\ IsFiniteSet(RunsOf(w)) /\ Cardinality(RunsOf(w)) \in Nat
           /\ IsFiniteSet(OrphansOf(w)) /\ Cardinality(OrphansOf(w)) \in Nat
           /\ Cardinality(RunsOf(w)) <= Cardinality(TasksOf(w))
<1>1. IsFiniteSet(TasksOf(w)) /\ IsFiniteSet(OrphansOf(w))
    BY FS_Subset DEF TasksOf, OrphansOf
<1>2. IsFiniteSet(RunsOf(w)) /\ Cardinality(RunsOf(w)) <= Cardinality(TasksOf(w))
    BY <1>1, FS_Subset DEF RunsOf
<1> QED BY <1>1, <1>2, FS_CardinalityType

\* Adding a set to another adds at most its elements.
LEMMA UnionBound ==
    ASSUME NEW S, NEW T, IsFiniteSet(S), IsFiniteSet(T)
    PROVE  /\ IsFiniteSet(S \cup T)
           /\ Cardinality(S \cup T) \in Nat
           /\ Cardinality(S \cup T) <= Cardinality(S) + Cardinality(T)
<1>1. IsFiniteSet(S \cup T) /\ IsFiniteSet(S \cap T)
    BY FS_Union, FS_Intersection
<1>2. Cardinality(S \cup T) = Cardinality(S) + Cardinality(T) - Cardinality(S \cap T)
    BY FS_Union
<1>3. /\ Cardinality(S) \in Nat /\ Cardinality(T) \in Nat
      /\ Cardinality(S \cup T) \in Nat /\ Cardinality(S \cap T) \in Nat
    BY <1>1, FS_CardinalityType
<1> QED BY <1>1, <1>2, <1>3

\* One element in the place of another leaves a set no larger than it was.
LEMMA ReplaceBound ==
    ASSUME NEW S, IsFiniteSet(S), NEW t \in S, NEW u
    PROVE  /\ IsFiniteSet((S \ {t}) \cup {u})
           /\ Cardinality((S \ {t}) \cup {u}) <= Cardinality(S)
<1>1. IsFiniteSet(S \ {t}) /\ Cardinality(S \ {t}) = Cardinality(S) - 1
    BY FS_RemoveElement
<1>2. Cardinality(S) \in Nat /\ Cardinality(S \ {t}) \in Nat
    BY <1>1, FS_CardinalityType
<1>3. /\ IsFiniteSet((S \ {t}) \cup {u})
      /\ Cardinality((S \ {t}) \cup {u}) \in {Cardinality(S \ {t}), Cardinality(S \ {t}) + 1}
    BY <1>1, FS_AddElement
<1> QED BY <1>1, <1>2, <1>3

\* A step that starts nothing keeps within the slots.
LEMMA ShrinkSlots ==
    ASSUME Slots, tasks' \subseteq tasks, orphans' \subseteq orphans
    PROVE  Slots'
<1>1. IsFiniteSet(tasks') /\ IsFiniteSet(orphans')
    BY FS_Subset DEF Slots
<1> SUFFICES ASSUME NEW w \in Worker
             PROVE  /\ Cardinality(TasksOf(w)') <= Concurrency
                    /\ Cardinality(RunsOf(w)') + Cardinality(OrphansOf(w)') <= Concurrency
                    /\ \A t, u \in SuspectsOf(w)' : t = u
    BY <1>1 DEF Slots
<1>2. /\ TasksOf(w)' \subseteq TasksOf(w) /\ RunsOf(w)' \subseteq RunsOf(w)
      /\ OrphansOf(w)' \subseteq OrphansOf(w) /\ SuspectsOf(w)' \subseteq SuspectsOf(w)
    BY DEF TasksOf, RunsOf, OrphansOf, SuspectsOf
<1>3. /\ IsFiniteSet(TasksOf(w)) /\ Cardinality(TasksOf(w)) \in Nat
      /\ IsFiniteSet(RunsOf(w)) /\ Cardinality(RunsOf(w)) \in Nat
      /\ IsFiniteSet(OrphansOf(w)) /\ Cardinality(OrphansOf(w)) \in Nat
    BY FiniteParts DEF Slots
<1>4. /\ Cardinality(TasksOf(w)') <= Cardinality(TasksOf(w))
      /\ Cardinality(RunsOf(w)') <= Cardinality(RunsOf(w))
      /\ Cardinality(OrphansOf(w)') <= Cardinality(OrphansOf(w))
    BY <1>2, <1>3, FS_Subset
<1>5. /\ Cardinality(TasksOf(w)') \in Nat /\ Cardinality(RunsOf(w)') \in Nat
      /\ Cardinality(OrphansOf(w)') \in Nat
    BY <1>2, <1>3, FS_Subset, FS_CardinalityType
<1> QED BY <1>2, <1>3, <1>4, <1>5, SettingsAssumption DEF Slots

\* A set of entry ids is finite.
LEMMA EntriesFinite ==
    ASSUME NEW S \in SUBSET EntryId
    PROVE  IsFiniteSet(S)
<1>1. IsFiniteSet(1 .. MaxEntry)
    BY FS_Interval, BoundsAssumption
<1> QED BY <1>1, FS_Subset DEF EntryId

\* Worker._spawn starts at most one task per delivered entry, all of its own worker.
LEMMA SpawnBound ==
    ASSUME NEW w, NEW es, IsFiniteSet(es), NEW count
    PROVE  /\ IsFiniteSet(Spawn(w, es, count))
           /\ Cardinality(Spawn(w, es, count)) <= Cardinality(es)
           /\ \A t \in Spawn(w, es, count) : t.w = w /\ t.e \in es /\ t.d = count[t.e]
           /\ \A t, u \in Spawn(w, es, count) : t.e = u.e => t = u
<1> DEFINE g == [e \in es |-> [w |-> w, e |-> e, d |-> count[e], f |-> entry[e],
                              phase |-> FirstPhase(w, count[e], entry[e])]]
<1>1. g \in Surjection(es, Spawn(w, es, count))
    BY DEF Surjection, Spawn
<1>2. \A t \in Spawn(w, es, count) : t.w = w /\ t.e \in es /\ t.d = count[t.e]
    BY DEF Spawn
<1>3. \A e \in es : g[e].e = e
    OBVIOUS
<1>4. \A t \in Spawn(w, es, count) : \E e \in es : t = g[e]
    BY DEF Spawn
<1> HIDE DEF g
<1>5. \A t, u \in Spawn(w, es, count) : t.e = u.e => t = u
    BY <1>3, <1>4
<1> QED BY <1>1, <1>2, <1>5, FS_Surjection

\* A delivery of no more entries than there are free slots keeps within the slots.
LEMMA DeliverySlots ==
    ASSUME Consistent, Slots, NEW w \in Worker, NEW es, IsFiniteSet(es), NEW count,
           Cardinality(es) <= Free(w),
           tasks' \subseteq tasks \cup Spawn(w, es, count), orphans' = orphans,
           \A t, u \in SuspectsOf(w)' : t = u
    PROVE  Slots'
<1> DEFINE new == Spawn(w, es, count)
<1>1. IsFiniteSet(new) /\ Cardinality(new) <= Cardinality(es) /\ \A t \in new : t.w = w
    BY SpawnBound
<1>2. Cardinality(es) \in Nat /\ Cardinality(new) \in Nat
    BY <1>1, FS_CardinalityType
<1> HIDE DEF new
<1>3. IsFiniteSet(tasks \cup new) /\ IsFiniteSet(tasks) /\ IsFiniteSet(orphans)
    BY <1>1, FS_Union DEF Slots
<1>4. IsFiniteSet(tasks')
    BY <1>3, FS_Subset DEF new
<1>5. ASSUME NEW v \in Worker \ {w}
      PROVE  /\ TasksOf(v)' \subseteq TasksOf(v) /\ RunsOf(v)' \subseteq RunsOf(v)
             /\ SuspectsOf(v)' \subseteq SuspectsOf(v) /\ OrphansOf(v)' = OrphansOf(v)
    BY <1>1 DEF TasksOf, RunsOf, SuspectsOf, OrphansOf, new
<1>6. /\ TasksOf(w)' \subseteq TasksOf(w) \cup new
      /\ RunsOf(w)' \subseteq RunsOf(w) \cup new
      /\ OrphansOf(w)' = OrphansOf(w)
    BY DEF TasksOf, RunsOf, OrphansOf, new
<1>7. ASSUME NEW v \in Worker
      PROVE  /\ IsFiniteSet(TasksOf(v)) /\ Cardinality(TasksOf(v)) \in Nat
             /\ IsFiniteSet(RunsOf(v)) /\ Cardinality(RunsOf(v)) \in Nat
             /\ Cardinality(OrphansOf(v)) \in Nat
             /\ Cardinality(RunsOf(v)) <= Cardinality(TasksOf(v))
    BY <1>3, FiniteParts
<1>8. ASSUME NEW v \in Worker \ {w}
      PROVE  /\ Cardinality(TasksOf(v)') <= Concurrency
             /\ Cardinality(RunsOf(v)') + Cardinality(OrphansOf(v)') <= Concurrency
             /\ \A t, u \in SuspectsOf(v)' : t = u
  <2>1. /\ Cardinality(TasksOf(v)') <= Cardinality(TasksOf(v))
        /\ Cardinality(RunsOf(v)') <= Cardinality(RunsOf(v))
      BY <1>5, <1>7, FS_Subset
  <2>2. Cardinality(TasksOf(v)') \in Nat /\ Cardinality(RunsOf(v)') \in Nat
      BY <1>5, <1>7, FS_Subset, FS_CardinalityType
  <2> QED BY <1>5, <1>7, <2>1, <2>2, SettingsAssumption DEF Slots
<1>9. /\ Cardinality(TasksOf(w)') <= Concurrency
      /\ Cardinality(RunsOf(w)') + Cardinality(OrphansOf(w)') <= Concurrency
  <2>1. /\ IsFiniteSet(TasksOf(w) \cup new) /\ IsFiniteSet(RunsOf(w) \cup new)
        /\ Cardinality(TasksOf(w) \cup new) \in Nat /\ Cardinality(RunsOf(w) \cup new) \in Nat
        /\ Cardinality(TasksOf(w) \cup new) <= Cardinality(TasksOf(w)) + Cardinality(new)
        /\ Cardinality(RunsOf(w) \cup new) <= Cardinality(RunsOf(w)) + Cardinality(new)
      BY <1>1, <1>7, UnionBound
  <2>2. /\ Cardinality(TasksOf(w)') <= Cardinality(TasksOf(w) \cup new)
        /\ Cardinality(RunsOf(w)') <= Cardinality(RunsOf(w) \cup new)
      BY <1>6, <2>1, FS_Subset
  <2>3. Cardinality(TasksOf(w)') \in Nat /\ Cardinality(RunsOf(w)') \in Nat
      BY <1>6, <2>1, FS_Subset, FS_CardinalityType
  <2>4. Cardinality(new) <= Concurrency - Cardinality(TasksOf(w)) - Cardinality(OrphansOf(w))
      BY <1>1, <1>2, <1>7, SettingsAssumption DEF Free
  <2> QED BY <1>2, <1>6, <1>7, <2>1, <2>2, <2>3, <2>4, SettingsAssumption
<1> QED BY <1>3, <1>4, <1>8, <1>9 DEF Slots

\* A fetch fills free slots, with first deliveries, which are never suspects.
LEMMA FetchSlots ==
    ASSUME Consistent, Slots, NEW w \in Worker, NEW received \in BOOLEAN, Fetch(w, received)
    PROVE  Slots'
<1>1. PICK n \in {last} \cup Waiting :
         /\ Cardinality({i \in Waiting : i <= n}) <= Free(w)
         /\ deliveries' = [e \in EntryId |-> IF e \in {i \in Waiting : i <= n} THEN 1 ELSE deliveries[e]]
         /\ tasks' \subseteq tasks \cup Spawn(w, {i \in Waiting : i <= n}, deliveries')
    BY DEF Fetch
<1> DEFINE got == {i \in Waiting : i <= n}
<1>2. got \subseteq EntryId
    BY DEF Waiting, Stream
<1>3. IsFiniteSet(got)
    BY <1>2, EntriesFinite
<1>4. \A t \in Spawn(w, got, deliveries') : t.d = 1
  <2>1. \A e \in got : deliveries'[e] = 1
      BY <1>1, <1>2
  <2> HIDE DEF got
  <2> QED BY <1>3, <2>1, SpawnBound
<1>5. SuspectsOf(w)' \subseteq SuspectsOf(w)
    BY <1>1, <1>4 DEF SuspectsOf, TasksOf
<1>6. orphans' = orphans
    BY DEF Fetch
<1> HIDE DEF got
<1> QED BY <1>1, <1>3, <1>5, <1>6, DeliverySlots DEF got, Slots

\* A reaper pass fills free slots, with one suspect at most, and only if none is in flight.
LEMMA ReclaimSlots ==
    ASSUME Consistent, Slots, NEW w \in Worker, NEW received \in BOOLEAN, Reclaim(w, received)
    PROVE  Slots'
<1> DEFINE Claimed(lo, hi) == {e \in expired : lo <= e /\ e <= hi}
           KeptOf(lo, hi) == Kept(Claimed(lo, hi), IF SuspectsOf(w) = {} THEN 1 ELSE 0)
<1>1. PICK lo \in EntryId, hi \in EntryId :
         /\ Cardinality(Claimed(lo, hi)) <= Free(w)
         /\ deliveries' = [e \in EntryId |->
                             IF e \in KeptOf(lo, hi) THEN deliveries[e] + 1 ELSE deliveries[e]]
         /\ tasks' \subseteq tasks \cup Spawn(w, KeptOf(lo, hi), deliveries')
    BY DEF Reclaim
<1> DEFINE claimed == Claimed(lo, hi)
           kept == KeptOf(lo, hi)
           new == Spawn(w, kept, deliveries')
<1>2. claimed \subseteq EntryId /\ kept \subseteq claimed
    BY DEF Kept, Consistent, TypeOK
<1>3. IsFiniteSet(claimed) /\ IsFiniteSet(kept)
    BY <1>2, EntriesFinite
<1>4. Cardinality(kept) <= Cardinality(claimed)
    BY <1>2, <1>3, FS_Subset
<1>5. Cardinality(kept) <= Free(w)
  <2>1. Cardinality(claimed) \in Nat /\ Cardinality(kept) \in Nat
      BY <1>3, FS_CardinalityType
  <2>2. Free(w) \in Int
      BY FiniteParts, SettingsAssumption DEF Free, Slots
  <2> QED BY <1>1, <1>4, <2>1, <2>2
<1>6. \A e \in kept : IsSuspect(deliveries'[e]) =>
         /\ SuspectsOf(w) = {}
         /\ \A o \in kept : IsSuspect(deliveries'[o]) => e <= o
  <2>1. \A e \in kept : deliveries'[e] = deliveries[e] + 1
      BY <1>1, <1>2
  <2> QED BY <1>2, <2>1 DEF Kept
<1>7. \A t \in new : t.e \in kept /\ t.d = deliveries'[t.e]
    BY <1>3, SpawnBound
<1>8. \A t, u \in new : t.e = u.e => t = u
    BY <1>3, SpawnBound
<1>9. SuspectsOf(w)' \subseteq SuspectsOf(w) \cup {t \in new : IsSuspect(t.d)}
    BY <1>1 DEF SuspectsOf, TasksOf
<1>10. kept \subseteq Int
    BY <1>2 DEF EntryId
<1> HIDE DEF claimed, kept, new
<1>11. \A t, u \in SuspectsOf(w)' : t = u
  <2> TAKE t, u \in SuspectsOf(w)'
  <2>1. CASE t \in SuspectsOf(w) /\ u \in SuspectsOf(w)
      BY <2>1 DEF Slots
  <2>2. CASE t \in new /\ u \in new /\ IsSuspect(t.d) /\ IsSuspect(u.d)
    <3>1. t.e <= u.e /\ u.e <= t.e
        BY <1>6, <1>7, <2>2
    <3>2. t.e \in Int /\ u.e \in Int
        BY <1>7, <1>10, <2>2
    <3>3. t.e = u.e
        BY <3>1, <3>2
    <3> QED BY <1>8, <2>2, <3>3
  <2> QED BY <1>6, <1>7, <1>9, <2>1, <2>2
<1>12. orphans' = orphans
    BY DEF Reclaim
<1> QED BY <1>1, <1>3, <1>5, <1>11, <1>12, DeliverySlots DEF kept, new

\* A change of phase keeps the slot; a run left behind as an orphan keeps the task's.
LEMMA PhaseSlots ==
    ASSUME Consistent, Slots, NEW t \in tasks, NEW p \in Phase \ {"running"}, SetPhase(t, p),
           \/ orphans' = orphans /\ (p = "silent" => Running(t))
           \/ /\ Running(t) /\ p = "failed"
              /\ orphans' = orphans \cup {[w |-> t.w, e |-> t.e, d |-> t.d, f |-> t.f]}
    PROVE  Slots'
<1> DEFINE u == InPhase(t, p)
           o == [w |-> t.w, e |-> t.e, d |-> t.d, f |-> t.f]
<1>1. u.w = t.w /\ u.d = t.d /\ u.phase = p
    BY TaskFacts DEF InPhase, Task
<1>2. tasks' = (tasks \ {t}) \cup {u}
    BY DEF SetPhase
<1>3. IsFiniteSet(tasks) /\ IsFiniteSet(orphans)
    BY DEF Slots
<1>4. IsFiniteSet(tasks')
    BY <1>2, <1>3, ReplaceBound
<1>5. o.w = t.w
    OBVIOUS
<1>6. IsFiniteSet(orphans')
  <2>1. orphans' = orphans \/ orphans' = orphans \cup {o}
      OBVIOUS
  <2> HIDE DEF o
  <2> QED BY <1>3, <2>1, FS_AddElement
<1> HIDE DEF u, o
<1> SUFFICES ASSUME NEW w \in Worker
             PROVE  /\ Cardinality(TasksOf(w)') <= Concurrency
                    /\ Cardinality(RunsOf(w)') + Cardinality(OrphansOf(w)') <= Concurrency
                    /\ \A r, s \in SuspectsOf(w)' : r = s
    BY <1>4, <1>6 DEF Slots
<1>7. /\ IsFiniteSet(TasksOf(w)) /\ Cardinality(TasksOf(w)) \in Nat
      /\ IsFiniteSet(RunsOf(w)) /\ Cardinality(RunsOf(w)) \in Nat
      /\ IsFiniteSet(OrphansOf(w)) /\ Cardinality(OrphansOf(w)) \in Nat
    BY <1>3, FiniteParts
<1>8. CASE w # t.w
  <2>1. /\ TasksOf(w)' = TasksOf(w) /\ RunsOf(w)' = RunsOf(w)
        /\ OrphansOf(w)' = OrphansOf(w) /\ SuspectsOf(w)' = SuspectsOf(w)
      BY <1>1, <1>2, <1>5, <1>8 DEF TasksOf, RunsOf, OrphansOf, SuspectsOf, o
  <2> QED BY <2>1 DEF Slots
<1>9. CASE w = t.w
  <2>1. TasksOf(w)' = (TasksOf(w) \ {t}) \cup {u} /\ t \in TasksOf(w)
      BY <1>1, <1>2, <1>9 DEF TasksOf
  <2>2. /\ Cardinality(TasksOf(w)') <= Cardinality(TasksOf(w))
        /\ Cardinality(TasksOf(w)') \in Nat
      BY <1>7, <2>1, ReplaceBound, FS_CardinalityType
  <2>3. \A r, s \in SuspectsOf(w)' : r = s
    <3>1. SuspectsOf(w)' = {r \in TasksOf(w)' : r.d > 1 /\ IsSuspect(r.d)}
        BY DEF SuspectsOf
    <3> QED BY <1>1, <2>1, <3>1 DEF Slots, SuspectsOf
  <2>4. Cardinality(RunsOf(w)') + Cardinality(OrphansOf(w)') <= Concurrency
    <3>1. CASE orphans' = orphans /\ p = "silent" /\ Running(t)
      <4>1. RunsOf(w)' = (RunsOf(w) \ {t}) \cup {u} /\ t \in RunsOf(w)
          BY <1>1, <2>1, <3>1 DEF RunsOf, Running
      <4>2. Cardinality(RunsOf(w)') <= Cardinality(RunsOf(w)) /\ Cardinality(RunsOf(w)') \in Nat
          BY <1>7, <4>1, ReplaceBound, FS_CardinalityType
      <4>3. OrphansOf(w)' = OrphansOf(w)
          BY <3>1 DEF OrphansOf
      <4> QED BY <1>7, <4>2, <4>3, SettingsAssumption DEF Slots
    <3>2. CASE orphans' = orphans /\ p # "silent"
      <4>1. RunsOf(w)' \subseteq RunsOf(w)
          BY <1>1, <2>1, <3>2 DEF RunsOf, Running
      <4>2. Cardinality(RunsOf(w)') <= Cardinality(RunsOf(w)) /\ Cardinality(RunsOf(w)') \in Nat
          BY <1>7, <4>1, FS_Subset, FS_CardinalityType
      <4>3. OrphansOf(w)' = OrphansOf(w)
          BY <3>2 DEF OrphansOf
      <4> QED BY <1>7, <4>2, <4>3, SettingsAssumption DEF Slots
    <3>3. CASE Running(t) /\ p = "failed" /\ orphans' = orphans \cup {o}
      <4>1. RunsOf(w)' \subseteq RunsOf(w) \ {t} /\ t \in RunsOf(w)
          BY <1>1, <2>1, <3>3 DEF RunsOf, Running
      <4>2. /\ IsFiniteSet(RunsOf(w) \ {t})
            /\ Cardinality(RunsOf(w) \ {t}) = Cardinality(RunsOf(w)) - 1
          BY <1>7, <4>1, FS_RemoveElement
      <4>3. /\ Cardinality(RunsOf(w)') <= Cardinality(RunsOf(w)) - 1
            /\ Cardinality(RunsOf(w)') \in Nat
          BY <4>1, <4>2, FS_Subset, FS_CardinalityType
      <4>4. OrphansOf(w)' = OrphansOf(w) \cup {o}
          BY <1>5, <1>9, <3>3 DEF OrphansOf
      <4>5. Cardinality(OrphansOf(w)') \in {Cardinality(OrphansOf(w)), Cardinality(OrphansOf(w)) + 1}
          BY <1>7, <4>4, FS_AddElement
      <4> QED BY <1>7, <4>3, <4>5, SettingsAssumption DEF Slots
    <3> QED BY <3>1, <3>2, <3>3 DEF o
  <2> QED BY <1>7, <2>2, <2>3, <2>4, SettingsAssumption DEF Slots
<1> QED BY <1>8, <1>9

\* No step takes a worker beyond its slots.
LEMMA NextSlots ==
    ASSUME Consistent, Slots, [Next]_vars
    PROVE  Slots'
<1> USE DEF workerVars
<1>1. ASSUME NEW j \in Job, Enqueue(j) \/ Requeue(j)
      PROVE  Slots'
    BY <1>1, ShrinkSlots DEF Enqueue, Requeue
<1>2. ASSUME NEW w \in Worker, WorkerStep(w)
      PROVE  Slots'
  <2>1. CASE Start(w) \/ RequestStop(w) \/ StopFetching(w) \/ Exit(w) \/ Crash(w) \/ Schedule(w)
      BY <2>1, ShrinkSlots DEF Start, RequestStop, StopFetching, Exit, Crash, Vanish, Schedule
  <2>2. CASE \E idle \in SUBSET (consumers \ {w}) : Prune(w, idle)
      BY <2>2, ShrinkSlots DEF Prune
  <2>3. CASE \E received \in BOOLEAN : Fetch(w, received) \/ Reclaim(w, received)
      BY <2>3, FetchSlots, ReclaimSlots
  <2> QED BY <1>2, <2>1, <2>2, <2>3 DEF WorkerStep
<1>3. ASSUME NEW e \in EntryId, LeaseExpires(e)
      PROVE  Slots'
    BY <1>3, ShrinkSlots DEF LeaseExpires
<1>4. ASSUME NEW t \in tasks, TaskStep(t)
      PROVE  Slots'
  <2>1. CASE Heartbeat(t)
    <3>1. CASE UNCHANGED tasks
        BY <2>1, <3>1, ShrinkSlots DEF Heartbeat
    <3>2. CASE SetPhase(t, "silent")
        BY <2>1, <3>2, PhaseSlots DEF Heartbeat, Phase, Running
    <3> QED BY <2>1, <3>1, <3>2 DEF Heartbeat
  <2>2. CASE ApplyEffect(t)
      BY <2>2, ShrinkSlots DEF ApplyEffect
  <2>3. CASE HandlerReturns(t) \/ HandlerFails(t)
      BY <2>3, PhaseSlots DEF HandlerReturns, HandlerFails, Phase
  <2>4. CASE HandlerTimesOut(t)
      BY <2>4, PhaseSlots DEF HandlerTimesOut, Phase
  <2>5. CASE GiveUp(t)
      BY <2>5, ShrinkSlots DEF GiveUp
  <2>6. CASE \E received \in BOOLEAN : Commit(t, received) \/ Retry(t, received) \/ Dead(t, received)
    <3>1. tasks' \subseteq tasks /\ orphans' = orphans
        BY <2>6, CommitRecords, RetryMoves, DeadRecords
    <3> QED BY <3>1, ShrinkSlots
  <2> QED BY <1>4, <2>1, <2>2, <2>3, <2>4, <2>5, <2>6 DEF TaskStep
<1>5. ASSUME NEW o \in orphans, ApplyEffect(o) \/ OrphanEnds(o)
      PROVE  Slots'
    BY <1>5, ShrinkSlots DEF ApplyEffect, OrphanEnds
<1>6. ASSUME NEW m \in delayed, BackoffElapses(m)
      PROVE  Slots'
    BY <1>6, ShrinkSlots DEF BackoffElapses
<1>7. CASE UNCHANGED vars
    BY <1>7, ShrinkSlots DEF vars
<1> QED BY <1>1, <1>2, <1>3, <1>4, <1>5, <1>6, <1>7 DEF Next

\* No worker runs anything at first.
LEMMA InitSlots == Init => Slots
<1> SUFFICES ASSUME Init PROVE Slots
    OBVIOUS
<1>1. tasks = {} /\ orphans = {}
    BY DEF Init
<1>2. ASSUME NEW w \in Worker
      PROVE  TasksOf(w) = {} /\ RunsOf(w) = {} /\ OrphansOf(w) = {} /\ SuspectsOf(w) = {}
    BY <1>1 DEF TasksOf, RunsOf, OrphansOf, SuspectsOf
<1> QED BY <1>1, <1>2, FS_EmptySet, SettingsAssumption DEF Slots

\* In every reachable state, every worker is within its slots.
THEOREM AlwaysSlots == Spec => []Slots
<1>1. Consistent /\ Slots /\ [Next]_vars => Slots'
    BY NextSlots
<1> QED BY <1>1, InitSlots, AlwaysConsistent, PTL DEF Spec

\* A worker never has more handlers running than slots, orphaned runs included, and never
\* two suspects in flight, however its fetches, reaper passes and timeouts interleave.
THEOREM SlotsAreRespected == Spec => []SlotsRespected
<1>1. Slots => SlotsRespected
  <2> SUFFICES ASSUME Slots, NEW w \in Worker
               PROVE  /\ Cardinality(RunsOf(w) \cup OrphansOf(w)) <= Concurrency
                      /\ Cardinality(SuspectsOf(w)) <= 1
      BY DEF SlotsRespected, RunsOf
  <2>1. /\ IsFiniteSet(RunsOf(w)) /\ IsFiniteSet(OrphansOf(w))
        /\ Cardinality(RunsOf(w)) \in Nat /\ Cardinality(OrphansOf(w)) \in Nat
      BY FiniteParts DEF Slots
  <2>2. /\ Cardinality(RunsOf(w) \cup OrphansOf(w)) \in Nat
        /\ Cardinality(RunsOf(w) \cup OrphansOf(w)) <= Cardinality(RunsOf(w)) + Cardinality(OrphansOf(w))
      BY <2>1, UnionBound
  <2>3. SuspectsOf(w) = {} \/ \E t : SuspectsOf(w) = {t}
      BY DEF Slots
  <2>4. Cardinality(SuspectsOf(w)) \in {0, 1}
      BY <2>3, FS_EmptySet, FS_Singleton
  <2> QED BY <2>1, <2>2, <2>4, SettingsAssumption DEF Slots
<1> QED BY <1>1, AlwaysSlots, PTL

\* A worker's connection pool (Settings.redis_max_connections) is never exhausted: a
\* task, its heartbeat, the orphans and the two loops always find a connection.
THEOREM ConnectionsAlwaysSuffice == Spec => []ConnectionsSuffice
<1>1. Slots => ConnectionsSuffice
  <2> SUFFICES ASSUME Slots, NEW w \in Worker
               PROVE  ConnectionsOf(w) <= RedisMaxConnections
      BY DEF ConnectionsSuffice
  <2> DEFINE beats == {t \in TasksOf(w) : t.phase = "running" /\ t.f.job \in Beating}
  <2>1. /\ IsFiniteSet(RunsOf(w)) /\ Cardinality(TasksOf(w)) \in Nat
        /\ Cardinality(RunsOf(w)) \in Nat /\ Cardinality(OrphansOf(w)) \in Nat
      BY FiniteParts DEF Slots
  <2>2. beats \subseteq RunsOf(w)
      BY DEF RunsOf, Running
  <2>3. Cardinality(beats) \in Nat /\ Cardinality(beats) <= Cardinality(RunsOf(w))
      BY <2>1, <2>2, FS_Subset, FS_CardinalityType
  <2> HIDE DEF beats
  <2>4. ConnectionsOf(w) = 2 + Cardinality(OrphansOf(w)) + Cardinality(TasksOf(w)) + Cardinality(beats)
      BY DEF ConnectionsOf, WorkerLoopConnections, beats
  <2> QED BY <2>1, <2>3, <2>4, SettingsAssumption DEF Slots, RedisMaxConnections, WorkerLoopConnections
<1> QED BY <1>1, AlwaysSlots, PTL

-----------------------------------------------------------------------------
(* Copies of a job *)

StreamOf(j) == {e \in Stream : entry[e].job = j}
DelayedOf(j) == {m \in delayed : m.job = j}

\* The inductive invariant behind NoNewCopies.
Counted == IsFiniteSet(delayed) /\ NoNewCopies

\* The copies of a job can be counted.
LEMMA CopiesFinite ==
    ASSUME IsFiniteSet(delayed), NEW j
    PROVE  /\ IsFiniteSet(StreamOf(j)) /\ Cardinality(StreamOf(j)) \in Nat
           /\ IsFiniteSet(DelayedOf(j)) /\ Cardinality(DelayedOf(j)) \in Nat
<1>1. IsFiniteSet(StreamOf(j))
    BY EntriesFinite DEF StreamOf, Stream
<1>2. IsFiniteSet(DelayedOf(j))
    BY FS_Subset DEF DelayedOf
<1> QED BY <1>1, <1>2, FS_CardinalityType

\* What a step has to keep for one job: its copies, and its DEAD state, within its sends.
LEMMA CountedStep ==
    ASSUME Counted, NEW j \in Job, NEW k \in Int, NEW l \in Int,
           IsFiniteSet(delayed'),
           Cardinality(StreamOf(j)') <= Cardinality(StreamOf(j)) + k,
           Cardinality(DelayedOf(j)') <= Cardinality(DelayedOf(j)) + l,
           sends \in [Job -> 0 .. MaxSends], sends'[j] \in Int,
           k + l + (IF done'[j] = "DEAD" THEN 1 ELSE 0) - (IF done[j] = "DEAD" THEN 1 ELSE 0)
              <= sends'[j] - sends[j]
    PROVE  Copies(j)' + (IF done'[j] = "DEAD" THEN 1 ELSE 0) <= sends'[j]
<1>1. /\ Cardinality(StreamOf(j)) \in Nat /\ Cardinality(DelayedOf(j)) \in Nat
      /\ Cardinality(StreamOf(j)') \in Nat /\ Cardinality(DelayedOf(j)') \in Nat
  <2>1. IsFiniteSet(StreamOf(j)')
      BY EntriesFinite DEF StreamOf, Stream
  <2>2. IsFiniteSet(DelayedOf(j)')
      BY FS_Subset DEF DelayedOf
  <2> QED BY <2>1, <2>2, CopiesFinite, FS_CardinalityType DEF Counted
<1>2. /\ Copies(j) = Cardinality(StreamOf(j)) + Cardinality(DelayedOf(j))
      /\ Copies(j)' = Cardinality(StreamOf(j)') + Cardinality(DelayedOf(j)')
    BY DEF Copies, StreamOf, DelayedOf
<1>3. Copies(j) + (IF done[j] = "DEAD" THEN 1 ELSE 0) <= sends[j] /\ sends[j] \in Int
    BY BoundsAssumption DEF Counted, NoNewCopies
<1> QED BY <1>1, <1>2, <1>3

\* XADD adds one copy of its own job.
LEMMA AddCopies ==
    ASSUME Consistent, NEW f \in Fields, Add(f), NEW j
    PROVE  Cardinality(StreamOf(j)') <= Cardinality(StreamOf(j)) + (IF f.job = j THEN 1 ELSE 0)
<1>1. /\ entry[next] = NoFields /\ entry'[next] = f /\ next \in EntryId
      /\ \A e \in EntryId \ {next} : entry'[e] = entry[e]
    BY AddKeeps
<1>2. IsFiniteSet(StreamOf(j)) /\ Cardinality(StreamOf(j)) \in Nat
    BY EntriesFinite, FS_CardinalityType DEF StreamOf, Stream
<1>3. CASE f.job = j
  <2>1. StreamOf(j)' \subseteq StreamOf(j) \cup {next}
      BY <1>1 DEF StreamOf, Stream
  <2>2. /\ IsFiniteSet(StreamOf(j) \cup {next})
        /\ Cardinality(StreamOf(j) \cup {next}) \in
              {Cardinality(StreamOf(j)), Cardinality(StreamOf(j)) + 1}
      BY <1>2, FS_AddElement
  <2>3. Cardinality(StreamOf(j)') <= Cardinality(StreamOf(j) \cup {next})
        /\ Cardinality(StreamOf(j)') \in Nat
      BY <2>1, <2>2, FS_Subset, FS_CardinalityType
  <2> QED BY <1>2, <1>3, <2>2, <2>3
<1>4. CASE f.job # j
  <2>1. StreamOf(j)' \subseteq StreamOf(j)
      BY <1>1, <1>4 DEF StreamOf, Stream
  <2>2. Cardinality(StreamOf(j)') <= Cardinality(StreamOf(j)) /\ Cardinality(StreamOf(j)') \in Nat
      BY <1>2, <2>1, FS_Subset, FS_CardinalityType
  <2> QED BY <1>2, <1>4, <2>2
<1> QED BY <1>3, <1>4

\* XACK and XDEL take one copy away, if the entry was still there.
LEMMA RemoveCopies ==
    ASSUME Consistent, NEW t \in tasks, Remove(t.e), NEW j
    PROVE  /\ Cardinality(StreamOf(j)') <= Cardinality(StreamOf(j))
           /\ Owns(t.w, t.e) /\ t.f.job = j =>
                 Cardinality(StreamOf(j)') <= Cardinality(StreamOf(j)) - 1
<1>1. /\ t.e \in EntryId /\ t.e <= last /\ t.f # NoFields
      /\ Owns(t.w, t.e) => entry[t.e] = t.f
    BY TaskFacts, SentinelAssumption
<1>2. entry'[t.e] = NoFields /\ \A i \in EntryId \ {t.e} : entry'[i] = entry[i]
    BY <1>1, RemoveKeeps
<1>3. IsFiniteSet(StreamOf(j)) /\ Cardinality(StreamOf(j)) \in Nat
    BY EntriesFinite, FS_CardinalityType DEF StreamOf, Stream
<1>4. StreamOf(j)' \subseteq StreamOf(j) \ {t.e}
    BY <1>1, <1>2 DEF StreamOf, Stream
<1>5. /\ IsFiniteSet(StreamOf(j) \ {t.e})
      /\ Cardinality(StreamOf(j) \ {t.e}) =
            IF t.e \in StreamOf(j) THEN Cardinality(StreamOf(j)) - 1 ELSE Cardinality(StreamOf(j))
    BY <1>3, FS_RemoveElement
<1>6. /\ Cardinality(StreamOf(j)') <= Cardinality(StreamOf(j) \ {t.e})
      /\ Cardinality(StreamOf(j)') \in Nat /\ Cardinality(StreamOf(j) \ {t.e}) \in Nat
    BY <1>4, <1>5, FS_Subset, FS_CardinalityType
<1>7. Owns(t.w, t.e) /\ t.f.job = j => t.e \in StreamOf(j)
    BY <1>1 DEF StreamOf, Stream
<1> QED BY <1>3, <1>5, <1>6, <1>7

\* The scheduler (schedule.lua) puts one entry in the stream for each member it takes from
\* the delayed set.
LEMMA ScheduleCopies ==
    ASSUME Consistent, IsFiniteSet(delayed), NEW w \in Worker, Schedule(w), NEW j
    PROVE  Cardinality(StreamOf(j)') + Cardinality(DelayedOf(j)')
              <= Cardinality(StreamOf(j)) + Cardinality(DelayedOf(j))
<1>1. PICK n \in 1 .. SchedulerBatch : \E moved \in [1 .. n -> due] :
         /\ \A i, k \in 1 .. n : moved[i] = moved[k] => i = k
         /\ next + n - 1 \in EntryId
         /\ entry' = [e \in EntryId |->
                         IF e \in next .. next + n - 1 THEN moved[e - next + 1] ELSE entry[e]]
         /\ delayed' = delayed \ {moved[i] : i \in 1 .. n}
    BY DEF Schedule
<1>2. PICK moved \in [1 .. n -> due] :
         /\ \A i, k \in 1 .. n : moved[i] = moved[k] => i = k
         /\ next + n - 1 \in EntryId
         /\ entry' = [e \in EntryId |->
                         IF e \in next .. next + n - 1 THEN moved[e - next + 1] ELSE entry[e]]
         /\ delayed' = delayed \ {moved[i] : i \in 1 .. n}
    BY <1>1
<1> DEFINE gone == {moved[i] : i \in 1 .. n}
           ids == {e \in EntryId : e \in next .. next + n - 1 /\ moved[e - next + 1].job = j}
           g == [e \in ids |-> moved[e - next + 1]]
<1>3. n \in Nat \ {0} /\ next \in Nat \ {0}
    BY SettingsAssumption, BoundsAssumption DEF Consistent, TypeOK
<1>4. \A e \in ids : e \in Int /\ e - next + 1 \in 1 .. n
    BY <1>3
<1>5. g \in Injection(ids, DelayedOf(j) \cap gone)
  <2>1. ASSUME NEW e \in ids
        PROVE  g[e] \in DelayedOf(j) \cap gone
    <3>1. g[e] = moved[e - next + 1] /\ g[e].job = j /\ e - next + 1 \in 1 .. n
        BY <1>4
    <3>2. g[e] \in due /\ due \subseteq delayed
        BY <3>1 DEF Consistent, TypeOK
    <3> QED BY <3>1, <3>2 DEF DelayedOf
  <2>2. ASSUME NEW e \in ids, NEW i \in ids, g[e] = g[i]
        PROVE  e = i
    <3>1. e - next + 1 = i - next + 1
        BY <1>2, <1>4, <2>2
    <3> QED BY <1>3, <1>4, <3>1
  <2>3. g \in [ids -> DelayedOf(j) \cap gone]
      BY <2>1
  <2> HIDE DEF g, ids
  <2> QED BY <2>2, <2>3 DEF Injection, IsInjective
<1>6. StreamOf(j)' \subseteq StreamOf(j) \cup ids
    BY <1>2 DEF StreamOf, Stream
<1>7. DelayedOf(j)' = DelayedOf(j) \ gone
    BY <1>2 DEF DelayedOf
<1> HIDE DEF gone, ids, g
<1>8. /\ IsFiniteSet(StreamOf(j)) /\ Cardinality(StreamOf(j)) \in Nat
      /\ IsFiniteSet(DelayedOf(j)) /\ Cardinality(DelayedOf(j)) \in Nat
    BY CopiesFinite
<1>9. IsFiniteSet(DelayedOf(j) \cap gone)
    BY <1>8, FS_Intersection
<1>10. IsFiniteSet(ids) /\ Cardinality(ids) <= Cardinality(DelayedOf(j) \cap gone)
    BY <1>5, <1>9, FS_Injection
<1>11. /\ IsFiniteSet(DelayedOf(j) \ gone)
       /\ Cardinality(DelayedOf(j) \ gone) = Cardinality(DelayedOf(j)) - Cardinality(DelayedOf(j) \cap gone)
    BY <1>8, FS_Difference
<1>12. /\ IsFiniteSet(StreamOf(j) \cup ids) /\ Cardinality(StreamOf(j) \cup ids) \in Nat
       /\ Cardinality(StreamOf(j) \cup ids) <= Cardinality(StreamOf(j)) + Cardinality(ids)
    BY <1>8, <1>10, UnionBound
<1>13. Cardinality(StreamOf(j)') <= Cardinality(StreamOf(j) \cup ids) /\ Cardinality(StreamOf(j)') \in Nat
    BY <1>6, <1>12, FS_Subset, FS_CardinalityType
<1>14. Cardinality(ids) \in Nat /\ Cardinality(DelayedOf(j) \cap gone) \in Nat
    BY <1>9, <1>10, FS_CardinalityType
<1> QED BY <1>7, <1>8, <1>10, <1>11, <1>12, <1>13, <1>14

\* A retry (retry.lua) puts at most one member in the delayed set, for the entry it takes.
LEMMA RetryCopies ==
    ASSUME Consistent, IsFiniteSet(delayed), NEW t \in tasks, NEW received \in BOOLEAN,
           Retry(t, received), NEW j
    PROVE  /\ IsFiniteSet(delayed')
           /\ \E k \in {-1, 0} :
                /\ Cardinality(StreamOf(j)') <= Cardinality(StreamOf(j)) + k
                /\ Cardinality(DelayedOf(j)') <= Cardinality(DelayedOf(j)) - k
<1>0. /\ Cardinality(StreamOf(j)) \in Nat
      /\ IsFiniteSet(DelayedOf(j)) /\ Cardinality(DelayedOf(j)) \in Nat
    BY CopiesFinite
<1>1. CASE UNCHANGED <<entry, delayed>>
  <2>1. StreamOf(j)' = StreamOf(j) /\ DelayedOf(j)' = DelayedOf(j)
      BY <1>1 DEF StreamOf, Stream, DelayedOf
  <2> QED BY <1>0, <1>1, <2>1
<1>2. CASE Remove(t.e) /\ UNCHANGED delayed
  <2>1. DelayedOf(j)' = DelayedOf(j)
      BY <1>2 DEF DelayedOf
  <2>2. Cardinality(StreamOf(j)') <= Cardinality(StreamOf(j))
      BY <1>2, RemoveCopies
  <2>3. Cardinality(StreamOf(j)') \in Nat
      BY EntriesFinite, FS_CardinalityType DEF StreamOf, Stream
  <2> QED BY <1>0, <1>2, <2>1, <2>2, <2>3
<1>3. CASE Remove(t.e) /\ Owns(t.w, t.e) /\ \E m \in Fields : m.job = t.f.job /\ delayed' = delayed \cup {m}
  <2>1. PICK m \in Fields : m.job = t.f.job /\ delayed' = delayed \cup {m}
      BY <1>3
  <2>2. IsFiniteSet(delayed')
      BY <2>1, FS_AddElement
  <2>3. Cardinality(StreamOf(j)') \in Nat
      BY EntriesFinite, FS_CardinalityType DEF StreamOf, Stream
  <2>4. CASE t.f.job = j
    <3>1. DelayedOf(j)' = DelayedOf(j) \cup {m}
        BY <2>1, <2>4 DEF DelayedOf
    <3>2. Cardinality(DelayedOf(j)') \in {Cardinality(DelayedOf(j)), Cardinality(DelayedOf(j)) + 1}
        BY <1>0, <3>1, FS_AddElement
    <3>3. Cardinality(StreamOf(j)') <= Cardinality(StreamOf(j)) - 1
        BY <1>3, <2>4, RemoveCopies
    <3>4. Cardinality(StreamOf(j)') <= Cardinality(StreamOf(j)) + (-1)
        BY <1>0, <2>3, <3>3
    <3>5. Cardinality(DelayedOf(j)') <= Cardinality(DelayedOf(j)) - (-1)
        BY <1>0, <3>2
    <3> QED BY <2>2, <3>4, <3>5
  <2>5. CASE t.f.job # j
    <3>1. DelayedOf(j)' = DelayedOf(j)
        BY <2>1, <2>5 DEF DelayedOf
    <3>2. Cardinality(StreamOf(j)') <= Cardinality(StreamOf(j))
        BY <1>3, RemoveCopies
    <3> QED BY <1>0, <2>2, <2>3, <3>1, <3>2
  <2> QED BY <2>4, <2>5
<1>4. Owns(t.w, t.e) \/ UNCHANGED <<entry, delayed>>
    BY DEF Retry, RetryScript, retryVars
<1> QED BY <1>1, <1>2, <1>3, <1>4, RetryMoves

\* No step makes a copy that no enqueue accounts for.
LEMMA NextCounted ==
    ASSUME Consistent, Counted, [Next]_vars
    PROVE  Counted'
<1>0. /\ done \in [Job -> {"NONE", "SUCCEEDED", "DEAD"}]
      /\ sends \in [Job -> 0 .. MaxSends] /\ sends' \in [Job -> 0 .. MaxSends]
      /\ MaxSends \in Nat /\ IsFiniteSet(delayed)
    BY NextConsistent, BoundsAssumption DEF Consistent, TypeOK, Counted
<1>1. IsFiniteSet(delayed')
  <2>1. CASE \E t \in tasks, received \in BOOLEAN : Retry(t, received)
      BY <1>0, <2>1, RetryCopies
  <2>2. CASE delayed' \subseteq delayed
      BY <1>0, <2>2, FS_Subset
  <2>3. (\E t \in tasks, received \in BOOLEAN : Retry(t, received)) \/ delayed' \subseteq delayed
    <3>1. ASSUME NEW r, ApplyEffect(r) PROVE delayed' = delayed
        BY <3>1 DEF ApplyEffect, retryVars
    <3> QED BY <3>1, StepKinds, EnqueueAdds, RequeueMoves, CommitRecords, DeadRecords, ScheduleMoves
            DEF Quiet
  <2> QED BY <2>1, <2>2, <2>3
<1> SUFFICES ASSUME NEW j \in Job
             PROVE  Copies(j)' + (IF done'[j] = "DEAD" THEN 1 ELSE 0) <= sends'[j]
    BY <1>1 DEF Counted, NoNewCopies
<1>2. /\ sends[j] \in Int /\ sends'[j] \in Int
      /\ Cardinality(StreamOf(j)) \in Nat /\ Cardinality(DelayedOf(j)) \in Nat
    BY <1>0, CopiesFinite
<1>3. Cardinality(StreamOf(j)') \in Nat /\ Cardinality(DelayedOf(j)') \in Nat
  <2>1. IsFiniteSet(StreamOf(j)')
      BY EntriesFinite DEF StreamOf, Stream
  <2>2. IsFiniteSet(DelayedOf(j)')
      BY <1>1, FS_Subset DEF DelayedOf
  <2> QED BY <2>1, <2>2, FS_CardinalityType
<1>4. delayed' = delayed => Cardinality(DelayedOf(j)') <= Cardinality(DelayedOf(j)) + 0
    BY <1>2 DEF DelayedOf
<1>5. entry' = entry => Cardinality(StreamOf(j)') <= Cardinality(StreamOf(j)) + 0
    BY <1>2 DEF StreamOf, Stream
<1>6. CASE UNCHANGED <<entry, delayed, done, sends>>
    BY <1>0, <1>1, <1>2, <1>4, <1>5, <1>6, CountedStep
<1>7. ASSUME NEW i \in Job, Enqueue(i)
      PROVE  Copies(j)' + (IF done'[j] = "DEAD" THEN 1 ELSE 0) <= sends'[j]
  <2>1. PICK s \in Stamp : Add([job |-> i, attempt |-> 0, stamp |-> s])
      BY <1>7 DEF Enqueue
  <2> DEFINE f == [job |-> i, attempt |-> 0, stamp |-> s]
  <2>2. f \in Fields /\ f.job = i
      BY SettingsAssumption DEF Fields
  <2> HIDE DEF f
  <2>3. Cardinality(StreamOf(j)') <= Cardinality(StreamOf(j)) + (IF i = j THEN 1 ELSE 0)
      BY <2>1, <2>2, AddCopies DEF f
  <2>4. sends'[j] = sends[j] + (IF i = j THEN 1 ELSE 0)
      BY <1>0, <1>2, <1>7 DEF Enqueue
  <2>5. UNCHANGED <<delayed, done>>
      BY <1>7, EnqueueAdds
  <2>6. CASE i = j
      BY <1>0, <1>1, <1>2, <1>4, <2>3, <2>4, <2>5, <2>6, CountedStep
  <2>7. CASE i # j
      BY <1>0, <1>1, <1>2, <1>4, <2>3, <2>4, <2>5, <2>7, CountedStep
  <2> QED BY <2>6, <2>7
<1>8. ASSUME NEW i \in Job, Requeue(i)
      PROVE  Copies(j)' + (IF done'[j] = "DEAD" THEN 1 ELSE 0) <= sends'[j]
  <2> DEFINE f == WithAttempt(dlq[deadEntry[i]], 0)
  <2>1. /\ Add(f) /\ dlq[deadEntry[i]] \in Fields /\ dlq[deadEntry[i]].job = i
      BY <1>8 DEF Requeue, RequeueScript, Consistent, DlqExact, TypeOK
  <2>2. f \in Fields /\ f.job = i
      BY <2>1, WithAttemptFields, SettingsAssumption
  <2> HIDE DEF f
  <2>3. Cardinality(StreamOf(j)') <= Cardinality(StreamOf(j)) + (IF i = j THEN 1 ELSE 0)
      BY <2>1, <2>2, AddCopies
  <2>4. UNCHANGED <<delayed, sends>> /\ done[i] = "DEAD" /\ done' = [done EXCEPT ![i] = "NONE"]
      BY <1>8, RequeueMoves
  <2>5. CASE i = j
    <3>1. done[j] = "DEAD" /\ done'[j] = "NONE"
        BY <1>0, <2>4, <2>5
    <3> QED BY <1>0, <1>1, <1>2, <1>4, <2>3, <2>4, <2>5, <3>1, CountedStep
  <2>6. CASE i # j
    <3>1. done'[j] = done[j]
        BY <1>0, <2>4, <2>6
    <3> QED BY <1>0, <1>1, <1>2, <1>4, <2>3, <2>4, <2>6, <3>1, CountedStep
  <2> QED BY <2>5, <2>6
<1>9. ASSUME NEW t \in tasks, NEW received \in BOOLEAN, Commit(t, received)
      PROVE  Copies(j)' + (IF done'[j] = "DEAD" THEN 1 ELSE 0) <= sends'[j]
  <2>1. Remove(t.e) /\ UNCHANGED <<delayed, sends>>
      BY <1>9, CommitRecords
  <2>2. done'[j] \in {done[j], "SUCCEEDED"}
      BY <1>0, <1>9, CommitRecords
  <2>3. Cardinality(StreamOf(j)') <= Cardinality(StreamOf(j)) + 0
      BY <1>2, <1>3, <2>1, RemoveCopies
  <2> QED BY <1>0, <1>1, <1>2, <1>4, <2>1, <2>2, <2>3, CountedStep
<1>10. ASSUME NEW t \in tasks, NEW received \in BOOLEAN, Retry(t, received)
      PROVE  Copies(j)' + (IF done'[j] = "DEAD" THEN 1 ELSE 0) <= sends'[j]
  <2>1. PICK k \in {-1, 0} :
          /\ Cardinality(StreamOf(j)') <= Cardinality(StreamOf(j)) + k
          /\ Cardinality(DelayedOf(j)') <= Cardinality(DelayedOf(j)) - k
      BY <1>0, <1>10, RetryCopies
  <2>2. k \in Int /\ -k \in Int /\ k + (-k) = 0
      OBVIOUS
  <2>3. Cardinality(DelayedOf(j)') <= Cardinality(DelayedOf(j)) + (-k)
      BY <1>2, <1>3, <2>1, <2>2
  <2>4. UNCHANGED <<done, sends>>
      BY <1>10, RetryMoves
  <2> QED BY <1>0, <1>1, <1>2, <2>1, <2>2, <2>3, <2>4, CountedStep
<1>11. ASSUME NEW t \in tasks, NEW received \in BOOLEAN, Dead(t, received)
      PROVE  Copies(j)' + (IF done'[j] = "DEAD" THEN 1 ELSE 0) <= sends'[j]
  <2>1. UNCHANGED <<delayed, sends>>
      BY <1>11, DeadRecords
  <2>2. CASE UNCHANGED <<entry, done>>
      BY <1>6, <2>1, <2>2
  <2>3. CASE Remove(t.e) /\ Owns(t.w, t.e) /\ done' = [done EXCEPT ![t.f.job] = "DEAD"]
             /\ done[t.f.job] = "NONE" /\ t.f.job = j
    <3>1. Cardinality(StreamOf(j)') <= Cardinality(StreamOf(j)) + (-1)
        BY <1>2, <1>3, <2>3, RemoveCopies
    <3>2. done[j] = "NONE" /\ done'[j] = "DEAD"
        BY <1>0, <2>3
    <3> QED BY <1>0, <1>1, <1>2, <1>4, <2>1, <3>1, <3>2, CountedStep
  <2>4. CASE Remove(t.e) /\ done'[j] = done[j]
    <3>1. Cardinality(StreamOf(j)') <= Cardinality(StreamOf(j)) + 0
        BY <1>2, <1>3, <2>4, RemoveCopies
    <3> QED BY <1>0, <1>1, <1>2, <1>4, <2>1, <2>4, <3>1, CountedStep
  <2>5. Owns(t.w, t.e) \/ UNCHANGED <<entry, done>>
      BY <1>11 DEF Dead, DeadScript, doneVars
  <2> QED BY <1>0, <1>11, <2>2, <2>3, <2>4, <2>5, TaskFacts, DeadRecords
<1>12. ASSUME NEW w \in Worker, Schedule(w)
      PROVE  Copies(j)' + (IF done'[j] = "DEAD" THEN 1 ELSE 0) <= sends'[j]
  <2> DEFINE k == Cardinality(DelayedOf(j)) - Cardinality(DelayedOf(j)')
  <2>1. k \in Int /\ -k \in Int /\ k + (-k) = 0
      BY <1>2, <1>3
  <2>2. Cardinality(DelayedOf(j)') <= Cardinality(DelayedOf(j)) + (-k)
      BY <1>2, <1>3
  <2>3. Cardinality(StreamOf(j)') <= Cardinality(StreamOf(j)) + k
      BY <1>0, <1>2, <1>3, <1>12, ScheduleCopies
  <2>4. UNCHANGED <<done, sends>>
      BY <1>12, ScheduleMoves
  <2> HIDE DEF k
  <2> QED BY <1>0, <1>1, <1>2, <2>1, <2>2, <2>3, <2>4, CountedStep
<1>13. ASSUME NEW r \in tasks \cup orphans, ApplyEffect(r)
       PROVE  UNCHANGED <<entry, delayed, done, sends>>
    BY <1>13 DEF ApplyEffect, queueVars, retryVars, doneVars, envVars
<1>14. Quiet => UNCHANGED <<entry, delayed, done, sends>>
    BY DEF Quiet
<1> QED BY <1>6, <1>7, <1>8, <1>9, <1>10, <1>11, <1>12, <1>13, <1>14, StepKinds

\* Copies of a job come from enqueues only: retries, redeliveries, the scheduler,
\* requeues, crashes and lost replies move a copy and never make one.
THEOREM CopiesComeFromEnqueues == Spec => []NoNewCopies
<1>1. Init => Counted
  <2> SUFFICES ASSUME Init, NEW j \in Job
               PROVE  Copies(j) + (IF done[j] = "DEAD" THEN 1 ELSE 0) <= sends[j]
    <3>1. Init => IsFiniteSet(delayed)
        BY FS_EmptySet DEF Init
    <3> QED BY <3>1 DEF Counted, NoNewCopies
  <2>1. StreamOf(j) = {} /\ DelayedOf(j) = {}
      BY DEF Init, Stream, StreamOf, DelayedOf
  <2>2. done[j] = "NONE" /\ sends[j] = 0
      BY DEF Init
  <2>3. Copies(j) = Cardinality(StreamOf(j)) + Cardinality(DelayedOf(j))
      BY DEF Copies, StreamOf, DelayedOf
  <2>4. Cardinality(StreamOf(j)) = 0 /\ Cardinality(DelayedOf(j)) = 0
      BY <2>1, FS_EmptySet
  <2> QED BY <2>2, <2>3, <2>4
<1>2. Consistent /\ Counted /\ [Next]_vars => Counted'
    BY NextCounted
<1>3. Counted => NoNewCopies
    BY DEF Counted
<1> QED BY <1>1, <1>2, <1>3, AlwaysConsistent, PTL DEF Spec
====
