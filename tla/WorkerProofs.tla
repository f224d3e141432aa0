---------------------------- MODULE WorkerProofs ----------------------------
(***************************************************************************)
(* Proofs about the parts of a worker and of the DLQ that JobQueue takes   *)
(* as given (those about the process pools are in ProcessPoolProofs):      *)
(*   - how long a copy of a job lives, for any settings a worker accepts:  *)
(*     how far a healthy worker keeps its lease, and that the done key     *)
(*     outlives every copy and every run that lost its lease.  The second  *)
(*     is arithmetic: a clock that every phase of a copy's life stays      *)
(*     within, and the bound Settings.lifetime_bound puts on that clock;   *)
(*   - requeue_all, for any jobs, page size, number of deaths and of lost  *)
(*     replies: a sweep that returns has emptied the part of the DLQ it    *)
(*     started with, and requeues nothing else, and a job again only when  *)
(*     a reply was lost;                                                   *)
(*   - the reaper's passes never claim more than the worker has slots for; *)
(*   - all of them together, with the pools, as the worker they are parts  *)
(*     of: their invariants, and what follows, hold side by side.          *)
(***************************************************************************)
EXTENDS MCWorker, ProcessPoolProofs, TLAPS, FiniteSetTheorems

-----------------------------------------------------------------------------
(* How long a copy lives *)

\* The longest a delivery and an attempt take here: as in lifetime_bound, with the wait for a
\* slot and the reaper's interval.
PerDelivery == s.slotWait + s.timeout + s.visibilityTimeout + s.reapInterval
PerAttempt == s.maxDeliveries * PerDelivery + s.backoffCap

\* When this delivery began, at the latest.
DeliveredBy == attempt * PerAttempt + (delivery - 1) * PerDelivery

\* No phase of the copy takes longer than its part of the bound.
Clocks ==
    /\ place = "queued" => age <= s.slotWait /\ now <= DeliveredBy + age
    /\ place = "running" => age <= s.timeout /\ now <= DeliveredBy + s.slotWait + age
    /\ place = "crashed" =>
         /\ now <= DeliveredBy + s.slotWait + s.timeout + idle
         /\ now <= DeliveredBy + PerDelivery
    /\ place = "delayed" =>
         /\ attempt >= 1 /\ age <= s.backoffCap
         /\ now + s.backoffCap <= attempt * PerAttempt + age

\* The entry is idle for as long as the calls took since the last beat that landed, an interval
\* for each one lost and the time slept since; and a call knows whether its beat landed.
Beats ==
    Holding =>
        /\ beat = "sleeping" => beatFor <= s.heartbeatInterval /\ beatFor <= idle
        /\ beat = "calling" => beatFor < idle \/ (lostBeats = 0 /\ idle <= spent)
        /\ beat = "sleeping" => idle <= lostBeats * s.heartbeatInterval + spent + beatFor
        /\ beat = "calling" =>
             idle <= lostBeats * s.heartbeatInterval + spent + s.heartbeatInterval

\* A run that lost its entry is over by the end of the time its attempts have.
Stale == staleUntil <= s.maxAttempts * PerAttempt

\* The done key is set by a commit, for its whole TTL.
Commits ==
    /\ doneUntil = NotDone => commits = 0
    /\ doneUntil # NotDone => doneUntil >= s.ttl
    /\ place # "gone" => delivery <= s.maxDeliveries

\* The inductive invariant.
LifetimeInv == LifetimeTypeOK /\ Accepted(s) /\ Clocks /\ Beats /\ Stale /\ Commits

-----------------------------------------------------------------------------
(* Arithmetic *)

\* The fields of the settings in force.
LEMMA Fields ==
    ASSUME NEW x \in Settings
    PROVE  /\ x.timeout \in Nat /\ x.visibilityTimeout \in Nat /\ x.heartbeatInterval \in Nat
           /\ x.maxAttempts \in Nat /\ x.maxDeliveries \in Nat /\ x.backoffCap \in Nat
           /\ x.reapInterval \in Nat /\ x.slotWait \in Nat /\ x.ttl \in Nat
           /\ x.timeout > 0 /\ x.visibilityTimeout > 0 /\ x.heartbeatInterval > 0
           /\ x.maxAttempts > 0 /\ x.maxDeliveries > 0 /\ x.backoffBase \in Nat
           /\ x.socketTimeout \in Nat /\ x.retryAttempts \in Nat
           /\ x.retryBackoffCap \in Nat
BY LagAssumption DEF Positive

\* The times of one delivery, one attempt and of what came before are natural numbers.
LEMMA Times ==
    ASSUME LifetimeTypeOK
    PROVE  PerDelivery \in Nat /\ PerAttempt \in Nat /\ DeliveredBy \in Nat
<1>1. s \in Settings /\ attempt \in Nat /\ delivery - 1 \in Nat
    BY Fields DEF LifetimeTypeOK
<1>2. PerDelivery \in Nat
    BY <1>1, Fields DEF PerDelivery
<1>3. s.maxDeliveries * PerDelivery \in Nat
    BY <1>1, <1>2, Fields
<1>4. PerAttempt \in Nat
    BY <1>1, <1>3, Fields DEF PerAttempt
<1>5. attempt * PerAttempt \in Nat /\ (delivery - 1) * PerDelivery \in Nat
    BY <1>1, <1>2, <1>4
<1> QED
    BY <1>2, <1>4, <1>5 DEF DeliveredBy

\* One more of n equal parts.
LEMMA OneMore ==
    ASSUME NEW k \in Nat, NEW n \in Nat, NEW d \in Nat
    PROVE  /\ (k + 1) * d = k * d + d
           /\ k < n => k * d + d <= n * d
<1>1. (k + 1) * d = k * d + d
    OBVIOUS
<1>2. ASSUME k < n PROVE k * d + d <= n * d
    <2>1. n - (k + 1) \in Nat
        BY <1>2
    <2>2. (n - (k + 1)) * d \in Nat
        BY <2>1
    <2>3. n * d = (k + 1) * d + (n - (k + 1)) * d
        OBVIOUS
    <2> QED
        BY <1>1, <2>2, <2>3
<1> QED
    BY <1>1, <1>2

\* backoff_bound never exceeds the cap.
LEMMA BackoffCapped ==
    ASSUME NEW x \in Settings, NEW a \in Nat
    PROVE  BackoffBound(a, x) \in Int /\ BackoffBound(a, x) <= x.backoffCap
<1> DEFINE n == IF a <= MaxExponent THEN a ELSE MaxExponent
<1>1. n \in Nat
    BY DEF MaxExponent
<1>2. 2 ^ n \in Int
    BY <1>1
<1>3. x.backoffBase * 2 ^ n \in Int
    BY <1>2, Fields
<1> QED
    BY <1>3, Fields DEF BackoffBound

-----------------------------------------------------------------------------
(* The invariant *)

\* A copy's first delivery satisfies the invariant.
LEMMA InitLifetime == LifetimeInit => LifetimeInv
<1> SUFFICES ASSUME LifetimeInit PROVE LifetimeInv
    OBVIOUS
<1>1. s \in Settings /\ Accepted(s)
    BY DEF LifetimeInit
<1>2. LifetimeTypeOK
    BY <1>1, Fields, LagAssumption DEF LifetimeInit, LifetimeTypeOK
<1>3. Clocks /\ Beats /\ Commits
    BY <1>1, <1>2, Times, Fields
       DEF LifetimeInit, Clocks, Beats, Commits, Holding, NotDone
<1>4. Stale
    <2>1. s.maxAttempts * PerAttempt \in Nat
        BY <1>1, <1>2, Times, Fields
    <2> QED
        BY <2>1 DEF LifetimeInit, Stale
<1> QED
    BY <1>1, <1>2, <1>3, <1>4 DEF LifetimeInv

\* The settings do not change.
LEMMA SettingsStay ==
    ASSUME LifetimeInv, LifetimeNext
    PROVE  s' = s /\ Accepted(s)' /\ UNCHANGED <<PerDelivery, PerAttempt>>
<1>1. s' = s
    BY DEF LifetimeNext, OtherCommits, StartRun, Commit, StaleCommit, Fail, BackoffElapses, Crash,
           Reclaim, SendBeat, BeatLands, BeatOver, TimePasses
<1> QED
    BY <1>1 DEF LifetimeInv, Accepted, HeartbeatFits, CheckTtlCovers, LifetimeBound,
           PerDelivery, PerAttempt

\* What a run under way can still take is a natural number, and within its delivery's time.
LEMMA RunsEnd ==
    ASSUME LifetimeInv, Holding
    PROVE  /\ RunLeft \in Nat
           /\ now + RunLeft <= DeliveredBy + s.slotWait + s.timeout
<1>1. /\ LifetimeTypeOK /\ Clocks /\ s \in Settings
      /\ now \in Nat /\ age \in Nat /\ DeliveredBy \in Nat
    BY Times DEF LifetimeInv, LifetimeTypeOK
<1> QED
    BY <1>1, Fields DEF Clocks, Holding, RunLeft

\* The current delivery's time is within that of all attempts.
LEMMA DeliveriesFit ==
    ASSUME LifetimeInv, place # "gone"
    PROVE  /\ s.maxAttempts * PerAttempt \in Nat
           /\ DeliveredBy + PerDelivery <= s.maxAttempts * PerAttempt
<1>0. LifetimeTypeOK /\ Commits /\ s \in Settings
    BY DEF LifetimeInv, LifetimeTypeOK
<1>1. /\ attempt \in Nat /\ attempt < s.maxAttempts /\ delivery - 1 \in Nat
      /\ delivery - 1 < s.maxDeliveries
    BY <1>0, Fields DEF LifetimeTypeOK, Commits
<1>2. PerDelivery \in Nat /\ PerAttempt \in Nat
    BY <1>0, Times
<1>3. /\ attempt * PerAttempt + PerAttempt <= s.maxAttempts * PerAttempt
      /\ (delivery - 1) * PerDelivery + PerDelivery <= s.maxDeliveries * PerDelivery
    BY <1>0, <1>1, <1>2, OneMore, Fields
<1>4. /\ attempt * PerAttempt \in Nat /\ s.maxAttempts * PerAttempt \in Nat
      /\ (delivery - 1) * PerDelivery \in Nat /\ s.maxDeliveries * PerDelivery \in Nat
    BY <1>0, <1>1, <1>2, Fields
<1> QED
    BY <1>0, <1>2, <1>3, <1>4, Fields DEF DeliveredBy, PerAttempt

\* So is the end of a run that loses its entry.
LEMMA LosersEnd ==
    ASSUME LifetimeInv, LosesEntry, s' = s
    PROVE  staleUntil' \in Nat /\ Stale'
<1>0. LifetimeTypeOK /\ Stale /\ s \in Settings /\ now \in Nat /\ staleUntil \in Nat
    BY DEF LifetimeInv, LifetimeTypeOK
<1>1. PerAttempt' = PerAttempt
    BY DEF PerAttempt, PerDelivery
<1>2. CASE staleUntil' = staleUntil
    BY <1>0, <1>1, <1>2 DEF Stale
<1>3. CASE Holding /\ staleUntil' = now + RunLeft + 1
    <2>1. RunLeft \in Nat /\ now + RunLeft <= DeliveredBy + s.slotWait + s.timeout
        BY <1>3, RunsEnd
    <2>2. /\ s.maxAttempts * PerAttempt \in Nat /\ DeliveredBy \in Nat
          /\ DeliveredBy + PerDelivery <= s.maxAttempts * PerAttempt
        BY <1>0, <1>3, DeliveriesFit, Times DEF Holding
    <2>3. s.slotWait + s.timeout + 1 <= PerDelivery /\ PerDelivery \in Nat
        BY <1>0, Fields DEF PerDelivery
    <2>4. staleUntil' <= s.maxAttempts * PerAttempt
        BY <1>0, <1>3, <2>1, <2>2, <2>3, Fields
    <2> QED
        BY <1>0, <1>1, <1>3, <2>1, <2>4 DEF Stale
<1> QED
    BY <1>2, <1>3 DEF LosesEntry

\* Every action keeps the types.
LEMMA StepTypes ==
    ASSUME LifetimeInv, LifetimeNext
    PROVE  LifetimeTypeOK'
<1>0. LifetimeTypeOK /\ Commits /\ s \in Settings
    BY DEF LifetimeInv, LifetimeTypeOK
<1>a. LosesEntry /\ s' = s => staleUntil' \in Nat
    BY LosersEnd
<1> USE <1>0, Fields DEF LifetimeTypeOK, beatVars, doneVars
<1>1. CASE OtherCommits
    BY <1>1 DEF OtherCommits, NotDone
<1>2. CASE StartRun
    BY <1>2 DEF StartRun, Enter
<1>3. CASE Commit
    BY <1>3 DEF Commit, CommitFirst, Enter, NotDone
<1>4. CASE StaleCommit
    BY <1>4, <1>a DEF StaleCommit, CommitFirst, Enter, NotDone
<1>5. CASE Fail
    BY <1>5 DEF Fail, Enter
<1>6. CASE BackoffElapses
    BY <1>6 DEF BackoffElapses, Deliver, Enter
<1>7. CASE Crash
    BY <1>7 DEF Crash, Enter
<1>8. CASE Reclaim
    BY <1>8, <1>a DEF Reclaim, Deliver, Enter, Commits, Holding
<1>9. CASE SendBeat \/ BeatLands \/ BeatOver
    BY <1>9 DEF SendBeat, BeatLands, BeatOver
<1>10. CASE TimePasses
    BY <1>10 DEF TimePasses
<1> QED
    BY <1>1, <1>2, <1>3, <1>4, <1>5, <1>6, <1>7, <1>8, <1>9, <1>10 DEF LifetimeNext

\* Every action keeps the heartbeat's account.
LEMMA StepBeats ==
    ASSUME LifetimeInv, LifetimeNext
    PROVE  Beats'
<1>0. LifetimeTypeOK /\ Beats /\ s \in Settings /\ s.heartbeatInterval \in Nat \ {0} /\ s' = s
    BY SettingsStay, Fields DEF LifetimeInv, LifetimeTypeOK
<1>1. CASE ~Holding'
    BY <1>1 DEF Beats
<1>2. CASE Holding' /\ Holding /\ UNCHANGED <<idle, beatVars>>
    BY <1>0, <1>2 DEF Beats, beatVars
<1>3. CASE BackoffElapses \/ Reclaim
    <2>1. beat' = "sleeping" /\ beatFor' = 0 /\ idle' = 0 /\ lostBeats' = 0 /\ spent' = 0
        BY <1>3 DEF BackoffElapses, Reclaim, Deliver
    <2> QED
        BY <1>0, <2>1 DEF Beats
<1>4. CASE SendBeat
    <2>1. /\ Holding /\ beat = "sleeping" /\ beatFor = s.heartbeatInterval
          /\ beat' = "calling" /\ beatFor' = 0 /\ UNCHANGED <<idle, lostBeats, spent>>
          /\ lostBeats \in Nat /\ idle \in Nat /\ spent \in Nat
        BY <1>0, <1>4 DEF SendBeat, LifetimeTypeOK
    <2>2. lostBeats * s.heartbeatInterval \in Nat
        BY <1>0, <2>1
    <2>3. 0 < idle /\ idle <= lostBeats * s.heartbeatInterval + spent + s.heartbeatInterval
        BY <1>0, <2>1, <2>2 DEF Beats
    <2>4. lostBeats' * s'.heartbeatInterval + spent' + s'.heartbeatInterval
            = lostBeats * s.heartbeatInterval + spent + s.heartbeatInterval
        BY <1>0, <2>1
    <2>5. beatFor' < idle' /\ beat' # "sleeping"
        BY <2>1, <2>3
    <2>6. idle' <= lostBeats' * s'.heartbeatInterval + spent' + s'.heartbeatInterval
        BY <2>1, <2>3, <2>4
    <2> QED
        BY <2>5, <2>6 DEF Beats
<1>5. CASE BeatLands
    BY <1>0, <1>5 DEF BeatLands, Beats, Holding, LifetimeTypeOK
<1>6. CASE BeatOver
    <2>1. /\ Holding /\ beat = "calling" /\ beat' = "sleeping" /\ beatFor' = 0
          /\ UNCHANGED <<idle, spent>>
          /\ lostBeats \in Nat /\ idle \in Nat /\ spent \in Nat /\ beatFor \in Nat
        BY <1>0, <1>6 DEF BeatOver, LifetimeTypeOK
    <2>2. idle <= lostBeats' * s.heartbeatInterval + spent
        <3>1. CASE Landed
            BY <1>0, <1>6, <2>1, <3>1 DEF BeatOver, Landed, Beats
        <3>2. CASE ~Landed
            <4>1. lostBeats' = lostBeats + 1
                BY <1>6, <3>2 DEF BeatOver
            <4>2. lostBeats' * s.heartbeatInterval
                    = lostBeats * s.heartbeatInterval + s.heartbeatInterval
                BY <1>0, <2>1, <4>1, OneMore
            <4>3. lostBeats * s.heartbeatInterval \in Nat
                BY <1>0, <2>1
            <4> QED
                BY <1>0, <2>1, <4>2, <4>3 DEF Beats
        <3> QED
            BY <3>1, <3>2
    <2>3. lostBeats' \in Nat /\ lostBeats' * s.heartbeatInterval \in Nat
        BY <1>0, <1>6, <2>1 DEF BeatOver
    <2> QED
        BY <1>0, <2>1, <2>2, <2>3 DEF Beats
<1>7. CASE TimePasses /\ Holding'
    <2>1. /\ Holding /\ BeatLimit /\ idle' = idle + 1 /\ beatFor' = beatFor + 1
          /\ spent' = (IF beat = "calling" THEN spent + 1 ELSE spent)
          /\ UNCHANGED <<beat, lostBeats>>
          /\ lostBeats \in Nat /\ idle \in Nat /\ spent \in Nat /\ beatFor \in Nat
        BY <1>0, <1>7 DEF TimePasses, Holding, LifetimeTypeOK
    <2>2. lostBeats * s.heartbeatInterval \in Nat
        BY <1>0, <2>1
    <2> QED
        BY <1>0, <2>1, <2>2 DEF Beats, BeatLimit
<1> QED
    BY <1>1, <1>2, <1>3, <1>4, <1>5, <1>6, <1>7
       DEF LifetimeNext, OtherCommits, StartRun, Commit, StaleCommit, Fail, Crash, Enter, Holding

\* Every action keeps the account of commits.
LEMMA StepCommits ==
    ASSUME LifetimeInv, LifetimeNext
    PROVE  Commits'
<1>0. LifetimeTypeOK /\ Commits /\ s \in Settings
    BY DEF LifetimeInv, LifetimeTypeOK
<1> USE <1>0, Fields DEF LifetimeTypeOK, Commits, NotDone, doneVars
<1>1. CASE OtherCommits
    BY <1>1 DEF OtherCommits
<1>2. CASE StartRun
    BY <1>2 DEF StartRun, Enter
<1>3. CASE Commit
    BY <1>3 DEF Commit, CommitFirst, Enter
<1>4. CASE StaleCommit
    BY <1>4 DEF StaleCommit, CommitFirst, Enter
<1>5. CASE Fail
    BY <1>5 DEF Fail, Enter
<1>6. CASE BackoffElapses
    BY <1>6 DEF BackoffElapses, Deliver, Enter
<1>7. CASE Crash
    BY <1>7 DEF Crash, Enter, Holding
<1>8. CASE Reclaim
    BY <1>8 DEF Reclaim, Deliver, Enter
<1>9. CASE SendBeat \/ BeatLands \/ BeatOver
    BY <1>9 DEF SendBeat, BeatLands, BeatOver
<1>10. CASE TimePasses
    BY <1>10 DEF TimePasses
<1> QED
    BY <1>1, <1>2, <1>3, <1>4, <1>5, <1>6, <1>7, <1>8, <1>9, <1>10 DEF LifetimeNext

\* Every action keeps the bound on runs that lost their entries.
LEMMA StepStale ==
    ASSUME LifetimeInv, LifetimeNext
    PROVE  Stale'
<1>1. CASE LosesEntry
    BY <1>1, SettingsStay, LosersEnd
<1>2. CASE staleUntil' = staleUntil
    BY <1>2, SettingsStay DEF LifetimeInv, Stale
<1> QED
    BY <1>1, <1>2
       DEF LifetimeNext, OtherCommits, StartRun, Commit, StaleCommit, Fail, BackoffElapses, Crash,
           Reclaim, SendBeat, BeatLands, BeatOver, TimePasses

\* Every action keeps the clocks.
LEMMA StepClocks ==
    ASSUME LifetimeInv, LifetimeNext
    PROVE  Clocks'
<1>0. LifetimeTypeOK /\ Clocks /\ Commits /\ s \in Settings
    BY DEF LifetimeInv, LifetimeTypeOK
<1>a. s' = s /\ PerDelivery' = PerDelivery /\ PerAttempt' = PerAttempt
    BY SettingsStay
<1>b. PerDelivery \in Nat /\ PerAttempt \in Nat /\ DeliveredBy \in Nat
    BY <1>0, Times
<1>c. /\ attempt \in Nat /\ delivery \in Nat /\ delivery - 1 \in Nat
      /\ now \in Nat /\ age \in Nat /\ idle \in Nat
    BY <1>0, Fields DEF LifetimeTypeOK
<1>d. ASSUME UNCHANGED <<attempt, delivery>> PROVE DeliveredBy' = DeliveredBy
    BY <1>a, <1>d DEF DeliveredBy
<1>e. s.slotWait + s.timeout + s.visibilityTimeout + s.reapInterval = PerDelivery
    BY DEF PerDelivery
<1> USE <1>0, <1>a, <1>b, <1>c, <1>e, Fields
<1>1. CASE OtherCommits
    BY <1>1, <1>d DEF OtherCommits, Clocks
<1>2. CASE StartRun
    BY <1>2, <1>d DEF StartRun, Enter, Clocks
<1>3. CASE Commit \/ StaleCommit
    BY <1>3, <1>d DEF Commit, StaleCommit, Enter, Clocks
<1>4. CASE Fail
    <2>1. CASE place' = "gone"
        BY <2>1 DEF Clocks
    <2>2. CASE place' # "gone"
        <3>1. /\ place = "running" /\ place' = "delayed" /\ age' = 0 /\ now' = now
              /\ attempt' = attempt + 1
            BY <1>4, <2>2 DEF Fail, Enter
        <3>2. now <= DeliveredBy + PerDelivery
            BY <3>1 DEF Clocks
        <3>3. (delivery - 1) * PerDelivery + PerDelivery <= s.maxDeliveries * PerDelivery
            <4>1. delivery - 1 < s.maxDeliveries
                BY <3>1 DEF Commits, LifetimeTypeOK
            <4> QED
                BY <4>1, OneMore
        <3>4. attempt' * PerAttempt = attempt * PerAttempt + PerAttempt
            BY <3>1, OneMore
        <3>5. /\ attempt * PerAttempt \in Nat /\ s.maxDeliveries * PerDelivery \in Nat
              /\ (delivery - 1) * PerDelivery \in Nat
            OBVIOUS
        <3>6. now' + s.backoffCap <= attempt' * PerAttempt
            BY <3>1, <3>2, <3>3, <3>4, <3>5 DEF DeliveredBy, PerAttempt
        <3> QED
            BY <3>1, <3>4, <3>5, <3>6 DEF Clocks
    <2> QED
        BY <2>1, <2>2
<1>5. CASE BackoffElapses
    <2>1. /\ place = "delayed" /\ place' = "queued" /\ age' = 0 /\ now' = now
          /\ attempt' = attempt /\ delivery' = 1
        BY <1>5 DEF BackoffElapses, Deliver, Enter
    <2>2. DeliveredBy' = attempt * PerAttempt
        BY <2>1 DEF DeliveredBy
    <2>3. now <= attempt * PerAttempt /\ attempt * PerAttempt \in Nat
        BY <2>1 DEF Clocks
    <2> QED
        BY <2>1, <2>2, <2>3 DEF Clocks
<1>6. CASE Crash
    BY <1>6, <1>d DEF Crash, Holding, Enter, Clocks
<1>7. CASE Reclaim
    <2>1. CASE place' = "gone"
        BY <2>1 DEF Clocks
    <2>2. CASE place' # "gone"
        <3>1. /\ place \in {"queued", "running", "crashed"} /\ place' = "queued"
              /\ age' = 0 /\ now' = now /\ attempt' = attempt /\ delivery' = delivery + 1
            BY <1>7, <2>2 DEF Reclaim, Deliver, Enter, Holding
        <3>0. now <= DeliveredBy + PerDelivery
            BY <3>1 DEF Clocks
        <3>2. delivery' - 1 = (delivery - 1) + 1
            BY <3>1
        <3>3. (delivery' - 1) * PerDelivery = (delivery - 1) * PerDelivery + PerDelivery
            BY <3>2, OneMore
        <3>4. attempt * PerAttempt \in Nat /\ (delivery - 1) * PerDelivery \in Nat
            OBVIOUS
        <3>5. DeliveredBy' = DeliveredBy + PerDelivery
            BY <3>1, <3>3, <3>4 DEF DeliveredBy
        <3> QED
            BY <3>0, <3>1, <3>5 DEF Clocks
    <2> QED
        BY <2>1, <2>2
<1>8. CASE SendBeat \/ BeatLands \/ BeatOver
    BY <1>8, <1>d DEF SendBeat, BeatLands, BeatOver, Holding, Clocks
<1>9. CASE TimePasses
    <2>1. /\ Limit /\ place' = place /\ now' = now + 1 /\ age' = age + 1 /\ idle' = idle + 1
          /\ UNCHANGED <<attempt, delivery>>
        BY <1>9 DEF TimePasses
    <2>2. DeliveredBy' = DeliveredBy
        BY <2>1, <1>d
    <2>3. CASE place = "delayed"
        <3>1. attempt - 1 \in Nat
            BY <2>3 DEF Clocks
        <3>2. age < BackoffBound(attempt - 1, s)
            BY <2>1, <2>3 DEF Limit
        <3>3. age + 1 <= s.backoffCap
            BY <3>1, <3>2, BackoffCapped
        <3>4. attempt * PerAttempt \in Nat
            OBVIOUS
        <3> QED
            BY <2>1, <2>3, <3>3, <3>4 DEF Clocks
    <2>4. CASE place = "queued"
        BY <2>1, <2>2, <2>4 DEF Clocks, Limit
    <2>5. CASE place = "running"
        BY <2>1, <2>2, <2>5 DEF Clocks, Limit
    <2>6. CASE place = "crashed"
        BY <2>1, <2>2, <2>6 DEF Clocks, Limit
    <2>7. CASE place = "gone"
        BY <2>1, <2>7 DEF Clocks
    <2> QED
        BY <2>3, <2>4, <2>5, <2>6, <2>7 DEF LifetimeTypeOK
<1> QED
    BY <1>1, <1>2, <1>3, <1>4, <1>5, <1>6, <1>7, <1>8, <1>9 DEF LifetimeNext

\* Every step keeps the invariant.
LEMMA NextLifetime ==
    ASSUME LifetimeInv, [LifetimeNext]_lifetimeVars
    PROVE  LifetimeInv'
<1>1. CASE LifetimeNext
    BY <1>1, SettingsStay, StepTypes, StepClocks, StepBeats, StepStale, StepCommits
       DEF LifetimeInv
<1>2. CASE UNCHANGED lifetimeVars
    BY <1>2 DEF LifetimeInv, LifetimeTypeOK, Accepted, HeartbeatFits, CheckTtlCovers,
          LifetimeBound, Clocks, DeliveredBy, PerAttempt, PerDelivery, Beats, Holding, Stale,
          Commits, lifetimeVars, beatVars, doneVars
<1> QED
    BY <1>1, <1>2

\* The invariant holds throughout a copy's life.
THEOREM LifetimeAlwaysSound == LifetimeSpec => []LifetimeInv
BY InitLifetime, NextLifetime, PTL DEF LifetimeSpec

-----------------------------------------------------------------------------
(* The results *)

\* The counters of a copy's life stay within the settings' limits.
THEOREM LifetimeTypes == LifetimeSpec => []LifetimeTypeOK
BY LifetimeAlwaysSound, PTL DEF LifetimeInv

\* What the invariant says of the lease.
LEMMA LeaseFollows == LifetimeInv => HealthyKeepsLease
<1> SUFFICES ASSUME LifetimeInv, Holding,
                    lostBeats * s.heartbeatInterval + spent < 2 * s.heartbeatInterval
             PROVE  idle < s.visibilityTimeout
    BY DEF HealthyKeepsLease
<1>1. LifetimeTypeOK /\ Beats /\ s \in Settings /\ 3 * s.heartbeatInterval <= s.visibilityTimeout
    BY DEF LifetimeInv, LifetimeTypeOK, Accepted, HeartbeatFits
<1>2. lostBeats \in Nat /\ idle \in Nat /\ spent \in Nat /\ beatFor \in Nat
    BY <1>1 DEF LifetimeTypeOK
<1>3. lostBeats * s.heartbeatInterval \in Nat
    BY <1>1, <1>2, Fields
<1>4. idle <= lostBeats * s.heartbeatInterval + spent + s.heartbeatInterval
    BY <1>1, <1>2, <1>3, Fields DEF Beats, LifetimeTypeOK
<1> QED
    BY <1>1, <1>2, <1>3, <1>4, Fields

\* Whatever heartbeat calls are lost, slow or sent again, for any settings a worker accepts: as
\* long as the time the calls took since the last beat that landed, and an interval for each one
\* lost, come to less than two intervals, the entry of a healthy worker is not idle enough for a
\* reaper.  Nothing bounds how long the calls take; beyond two intervals the lease may be lost,
\* and CommitsOnlyOnce covers what then follows.
THEOREM HealthyAlwaysKeepsLease == LifetimeSpec => []HealthyKeepsLease
BY LeaseFollows, LifetimeAlwaysSound, PTL

\* What can still commit is within the time of its attempts.
LEMMA LivesWithin ==
    ASSUME LifetimeInv, Alive
    PROVE  /\ now <= s.maxAttempts * PerAttempt
           /\ place = "running" \/ now < staleUntil => now < s.maxAttempts * PerAttempt
<1>0. LifetimeTypeOK /\ Clocks /\ Stale /\ Commits /\ s \in Settings
    BY DEF LifetimeInv, LifetimeTypeOK
<1>1. /\ now \in Nat /\ age \in Nat /\ idle \in Nat /\ attempt \in Nat /\ staleUntil \in Nat
      /\ PerDelivery \in Nat /\ PerAttempt \in Nat /\ DeliveredBy \in Nat
    BY <1>0, Times DEF LifetimeTypeOK
<1>2. s.maxAttempts * PerAttempt \in Nat
    BY <1>0, <1>1, Fields
<1>3. ASSUME now < staleUntil PROVE now < s.maxAttempts * PerAttempt
    BY <1>0, <1>1, <1>2, <1>3 DEF Stale
<1>4. CASE place = "delayed"
    <2>1. attempt < s.maxAttempts
        BY <1>0, Fields DEF LifetimeTypeOK
    <2>2. attempt * PerAttempt + PerAttempt <= s.maxAttempts * PerAttempt
        BY <1>0, <1>1, <2>1, OneMore, Fields
    <2>3. attempt * PerAttempt \in Nat
        BY <1>1
    <2> QED
        BY <1>0, <1>1, <1>2, <1>3, <1>4, <2>2, <2>3, Fields DEF Clocks
<1>5. CASE place \in {"queued", "running", "crashed"}
    <2>1. DeliveredBy + PerDelivery <= s.maxAttempts * PerAttempt
        BY <1>5, DeliveriesFit
    <2> QED
        BY <1>0, <1>1, <1>2, <1>3, <1>5, <2>1, Fields DEF Clocks, PerDelivery
<1>6. CASE place = "gone"
    BY <1>1, <1>2, <1>3, <1>6 DEF Alive
<1> QED
    BY <1>0, <1>4, <1>5, <1>6 DEF LifetimeTypeOK

\* What the waits for slots and for the reaper add to a life is within the margin of the TTL.
LEMMA MarginCovers ==
    ASSUME s \in Settings,
           s.slotWait + s.reapInterval <= (TtlMargin - 1) * (s.timeout + s.visibilityTimeout)
    PROVE  s.maxAttempts * PerAttempt <= TtlMargin * LifetimeBound(s.timeout, s)
<1> DEFINE d == s.timeout + s.visibilityTimeout
           p == s.maxDeliveries * d + s.backoffCap
<1>1. d \in Nat /\ p \in Nat /\ TtlMargin \in Nat /\ TtlMargin >= 1 /\ s.maxAttempts \in Nat
    <2>1. d \in Nat
        BY Fields
    <2>2. s.maxDeliveries * d \in Nat
        BY <2>1, Fields
    <2> QED
        BY <2>1, <2>2, Fields, LagAssumption DEF Positive
<1>2. PerDelivery <= TtlMargin * d
    BY <1>1, Fields DEF PerDelivery
<1>3. PerAttempt <= TtlMargin * p
    <2>1. PerDelivery \in Nat
        BY Fields DEF PerDelivery
    <2>2. s.maxDeliveries * PerDelivery <= s.maxDeliveries * (TtlMargin * d)
        BY <1>1, <1>2, <2>1, Fields
    <2>3. s.maxDeliveries * (TtlMargin * d) = TtlMargin * (s.maxDeliveries * d)
        BY <1>1, Fields
    <2>4. s.backoffCap <= TtlMargin * s.backoffCap
        BY <1>1, Fields
    <2>5. TtlMargin * p = TtlMargin * (s.maxDeliveries * d) + TtlMargin * s.backoffCap
        BY <1>1, Fields
    <2>6. /\ s.maxDeliveries * PerDelivery \in Nat /\ TtlMargin * (s.maxDeliveries * d) \in Nat
          /\ TtlMargin * s.backoffCap \in Nat
        BY <1>1, <2>1, Fields
    <2> QED
        BY <2>2, <2>3, <2>4, <2>5, <2>6, Fields DEF PerAttempt
<1>4. PerAttempt \in Nat
    <2>1. PerDelivery \in Nat
        BY Fields DEF PerDelivery
    <2> QED
        BY <2>1, Fields DEF PerAttempt
<1>5. LifetimeBound(s.timeout, s) = s.maxAttempts * p
    BY DEF LifetimeBound
<1> HIDE DEF p, d
<1>6. s.maxAttempts * PerAttempt <= s.maxAttempts * (TtlMargin * p)
    BY <1>1, <1>3, <1>4
<1>7. s.maxAttempts * (TtlMargin * p) = TtlMargin * (s.maxAttempts * p)
    BY <1>1
<1> QED
    BY <1>5, <1>6, <1>7

\* What the invariant says of a life without waits.
LEMMA CommitsFollow == LifetimeInv /\ commits <= 1 => CommitsOnce
<1> SUFFICES ASSUME LifetimeInv, commits <= 1,
                    s.reapInterval = 0, s.slotWait = 0, Alive
             PROVE  now <= LifetimeBound(s.timeout, s)
    BY DEF CommitsOnce
<1>1. s \in Settings
    BY DEF LifetimeInv, LifetimeTypeOK
<1>2. PerDelivery = s.timeout + s.visibilityTimeout
    BY <1>1, Fields DEF PerDelivery
<1>3. LifetimeBound(s.timeout, s) = s.maxAttempts * PerAttempt
    BY <1>2 DEF LifetimeBound, PerAttempt
<1> QED
    BY <1>3, LivesWithin

\* No copy commits after another did: it finds the done key.
LEMMA StepCommitsOnce ==
    ASSUME \A x \in Settings :
             x.slotWait + x.reapInterval <= (TtlMargin - 1) * (x.timeout + x.visibilityTimeout)
    PROVE  LifetimeInv /\ commits <= 1 /\ [LifetimeNext]_lifetimeVars => (commits <= 1)'
<1> SUFFICES ASSUME LifetimeInv, commits <= 1, [LifetimeNext]_lifetimeVars PROVE commits' <= 1
    OBVIOUS
<1>1. CASE commits' = commits
    BY <1>1
<1>2. CASE OtherCommits
    BY <1>2 DEF OtherCommits, LifetimeInv, Commits
<1>3. CASE Commit \/ StaleCommit
    <2>a. CommitFirst /\ Alive /\ (place = "running" \/ now < staleUntil)
        BY <1>3 DEF Commit, StaleCommit, Alive
    <2>1. CASE doneUntil = NotDone
        BY <2>a, <2>1 DEF CommitFirst, LifetimeInv, Commits, doneVars
    <2>2. CASE doneUntil # NotDone /\ s.ttl # 0
        <3>1. s \in Settings /\ now \in Nat /\ doneUntil \in Nat /\ doneUntil >= s.ttl
            BY <2>2 DEF LifetimeInv, LifetimeTypeOK, Commits
        <3>2. now < s.maxAttempts * PerAttempt /\ s.maxAttempts * PerAttempt \in Nat
            <4>1. now < s.maxAttempts * PerAttempt
                BY <2>a, LivesWithin
            <4>2. PerAttempt \in Nat
                BY Times DEF LifetimeInv
            <4> QED
                BY <4>1, <4>2, <3>1, Fields
        <3>3. s.maxAttempts * PerAttempt <= TtlMargin * LifetimeBound(s.timeout, s)
            BY <3>1, MarginCovers
        <3>4. TtlMargin * LifetimeBound(s.timeout, s) <= s.ttl
            BY <2>2 DEF LifetimeInv, Accepted, CheckTtlCovers
        <3>5. TtlMargin * LifetimeBound(s.timeout, s) \in Nat
            BY <3>1, Fields, LagAssumption DEF LifetimeBound, Positive
        <3>6. now < doneUntil
            BY <3>1, <3>2, <3>3, <3>4, <3>5, Fields
        <3> QED
            BY <2>a, <2>2, <3>6 DEF CommitFirst, Done, doneVars
    <2>3. CASE doneUntil # NotDone /\ s.ttl = 0
        BY <2>a, <2>3 DEF CommitFirst, Done, doneVars
    <2> QED
        BY <2>1, <2>2, <2>3
<1> QED
    BY <1>1, <1>2, <1>3 DEF LifetimeNext, StartRun, Fail, BackoffElapses, Crash, Reclaim,
          SendBeat, BeatLands, BeatOver, TimePasses, lifetimeVars, doneVars

\* Settings.check_ttl_covers makes the done key outlive every copy of its job, and every run that
\* lost its lease, so that the result is committed once, as long as the waits for a slot and for the reaper, which nothing
\* validates, stay within the margin; and a copy that never waits is gone by
\* Settings.lifetime_bound.
THEOREM CommitsOnlyOnce ==
    ASSUME \A x \in Settings :
             x.slotWait + x.reapInterval <= (TtlMargin - 1) * (x.timeout + x.visibilityTimeout)
    PROVE  LifetimeSpec => []CommitsOnce
<1>3. LifetimeInit => commits <= 1
    BY DEF LifetimeInit
<1> QED
    BY StepCommitsOnce, CommitsFollow, <1>3, LifetimeAlwaysSound, PTL DEF LifetimeSpec

-----------------------------------------------------------------------------
(* The sweep of requeue_all *)

InPage(j) == \E i \in 1..Len(page) : page[i] = j

\* Ids grow: no entry is ahead of the last id, and no two jobs share one.
Entries ==
    /\ \A j \in Job : entryOf[j] <= lastId
    /\ \A j, k \in Dead : entryOf[j] = entryOf[k] => j = k

\* What was appended before the sweep began belongs to a job that was there; the sweep's end
\* is not ahead of the last id, so what dies later lies behind it.
OldEntries ==
    /\ stage = "idle" => \A j \in Job : requeued[j] = 0
    /\ stage # "idle" =>
         /\ end <= lastId
         /\ \A j \in Dead : entryOf[j] <= end => j \in atStart

\* A page holds jobs that were there, each once, and not an empty one is worked on.
Pages ==
    /\ stage = "idle" => page = <<>>
    /\ stage = "requeueing" => page # <<>>
    /\ \A i \in 1..Len(page) : page[i] \in atStart
    /\ \A i, k \in 1..Len(page) : page[i] = page[k] => i = k

\* The sweep's start has nothing behind it but the page at hand.
Swept ==
    /\ stage = "reading" => \A j \in Dead : entryOf[j] <= end => entryOf[j] > start
    /\ stage = "requeueing" =>
         \A j \in Dead : entryOf[j] <= end /\ entryOf[j] <= start => InPage(j)
    /\ stage = "returned" => \A j \in Dead : entryOf[j] > end

\* A job that was requeued has no old entry any more, so no later page holds it; and only a
\* lost reply makes a call be sent again.
Counts ==
    /\ \A j \in Job : requeued[j] > 0 => j \in atStart /\ (j \in Dead => entryOf[j] > end)
    /\ \A j \in Job : requeued[j] <= 1 + lostReplies
    /\ \A i \in 1..Len(page) : requeued[page[i]] <= lostReplies

\* The inductive invariant.
SweepInv == SweepTypeOK /\ Entries /\ OldEntries /\ Pages /\ Swept /\ Counts

-----------------------------------------------------------------------------
(* XRANGE *)

Rank(S, i) == Cardinality({x \in S : x <= i})

\* The elements of a finite set of numbers have the ranks 1, 2, ... in their order.
LEMMA Ranks ==
    ASSUME NEW S, S \subseteq Nat, IsFiniteSet(S)
    PROVE  /\ \A i \in S : Rank(S, i) \in 1..Cardinality(S)
           /\ \A i, k \in S : i < k => Rank(S, i) < Rank(S, k)
           /\ \A r \in 1..Cardinality(S) : \E i \in S : Rank(S, i) = r
<1> DEFINE upTo(i) == {x \in S : x <= i}
           c == Cardinality(S)
<1>0. c \in Nat
    BY FS_CardinalityType
<1>1. ASSUME NEW i \in S
      PROVE  IsFiniteSet(upTo(i)) /\ Rank(S, i) \in Nat /\ Rank(S, i) <= c /\ Rank(S, i) > 0
    <2>1. upTo(i) \subseteq S /\ i \in upTo(i)
        OBVIOUS
    <2>2. IsFiniteSet(upTo(i)) /\ Cardinality(upTo(i)) <= c
        BY <2>1, FS_Subset
    <2>3. Cardinality(upTo(i)) \in Nat
        BY <2>2, FS_CardinalityType
    <2>4. Cardinality(upTo(i)) # 0
        BY <2>1, <2>2, FS_EmptySet
    <2> QED
        BY <2>2, <2>3, <2>4 DEF Rank
<1>2. ASSUME NEW i \in S, NEW k \in S, i < k PROVE Rank(S, i) < Rank(S, k)
    <2>0. i \in Nat /\ k \in Nat /\ \A x \in S : x \in Nat
        OBVIOUS
    <2>1. upTo(i) \subseteq upTo(k) /\ k \in upTo(k) /\ k \notin upTo(i)
        <3>1. ASSUME NEW x \in S, x <= i PROVE x <= k
            BY <1>2, <2>0, <3>1
        <3>2. k <= k /\ ~(k <= i)
            BY <1>2, <2>0
        <3> QED
            BY <3>1, <3>2
    <2>2. upTo(i) # upTo(k)
        BY <2>1
    <2>3. Cardinality(upTo(i)) <= Cardinality(upTo(k)) /\ Cardinality(upTo(i)) # Cardinality(upTo(k))
        BY <2>1, <2>2, <1>1, FS_Subset
    <2>4. Rank(S, i) <= Rank(S, k) /\ Rank(S, i) # Rank(S, k)
        BY <2>3 DEF Rank
    <2>5. Rank(S, i) \in Nat /\ Rank(S, k) \in Nat
        BY <1>1
    <2> QED
        BY <2>4, <2>5
<1>b. \A i \in S : Rank(S, i) \in 1..c
    <2> SUFFICES ASSUME NEW i \in S PROVE Rank(S, i) \in 1..c
        OBVIOUS
    <2>1. Rank(S, i) \in Nat /\ Rank(S, i) <= c /\ Rank(S, i) > 0
        BY <1>1
    <2> QED
        BY <2>1, <1>0
<1>3. \A r \in 1..c : \E i \in S : Rank(S, i) = r
    <2> DEFINE f == [i \in S |-> Rank(S, i)]
    <2>1. f \in [S -> 1..c]
        BY <1>b
    <2>2. \A i, k \in S : f[i] = f[k] => i = k
        <3> SUFFICES ASSUME NEW i \in S, NEW k \in S, i # k PROVE f[i] # f[k]
            OBVIOUS
        <3>1. i < k \/ k < i
            OBVIOUS
        <3>2. Rank(S, i) \in Nat /\ Rank(S, k) \in Nat
            BY <1>1
        <3> QED
            BY <3>1, <3>2, <1>2
    <2>3. f \in Injection(S, 1..c)
        BY <2>1, <2>2 DEF Injection, IsInjective
    <2>4. IsFiniteSet(1..c) /\ Cardinality(1..c) = c
        BY <1>0, FS_Interval
    <2> HIDE DEF f
    <2>5. f \in Surjection(S, 1..c)
        BY <2>3, <2>4, FS_Injection
    <2> QED
        BY <2>5 DEF Surjection, f
<1> QED
    BY <1>b, <1>2, <1>3

\* The smaller of two numbers.
LEMMA MinOfTwo ==
    ASSUME NEW n \in Nat, NEW c \in Nat
    PROVE  Min({n, c}) = (IF n <= c THEN n ELSE c)
<1> DEFINE m == IF n <= c THEN n ELSE c
<1>1. m \in {n, c} /\ \A y \in {n, c} : m =< y
    OBVIOUS
<1>2. \A x \in {n, c} : (\A y \in {n, c} : x =< y) => x = m
    OBVIOUS
<1> QED
    BY <1>1, <1>2 DEF Min

\* q lists jobs of the DLQ with entries in lo..hi, each once, and leaves out none up to its last.
FirstEntries(q, lo, hi) ==
    /\ q \in Seq(Job)
    /\ \A k \in 1..Len(q) : q[k] \in Dead /\ entryOf[q[k]] \in lo..hi
    /\ \A k, m \in 1..Len(q) : q[k] = q[m] => k = m
    /\ q = <<>> => \A j \in Dead : entryOf[j] \notin lo..hi
    /\ q # <<>> => \A j \in Dead :
         entryOf[j] \in lo..hi /\ entryOf[j] <= entryOf[q[Len(q)]] =>
             \E k \in 1..Len(q) : q[k] = j

\* XRANGE returns the jobs of the first n entries in lo..hi.
LEMMA XRangeFirst ==
    ASSUME SweepTypeOK, Entries, NEW lo \in Nat, NEW hi \in Nat, NEW n \in Nat, n > 0
    PROVE  FirstEntries(XRange(lo, hi, n), lo, hi)
<1> DEFINE q == XRange(lo, hi, n)
           in == {i \in lo..hi : \E j \in Dead : entryOf[j] = i}
           jobAt(i) == CHOOSE j \in Dead : entryOf[j] = i
           nth(k) == CHOOSE i \in in : Rank(in, i) = k
           c == Cardinality(in)
           m == IF n <= c THEN n ELSE c
<1>1. IsFiniteSet(in) /\ c \in Nat /\ in \subseteq Nat
    <2>1. IsFiniteSet(lo..hi) /\ in \subseteq lo..hi
        BY FS_Interval
    <2>2. IsFiniteSet(in)
        BY <2>1, FS_Subset
    <2> QED
        BY <2>1, <2>2, FS_CardinalityType
<1>2. q = [k \in 1..m |-> jobAt(nth(k))]
    <2>1. Min({n, c}) = m
        BY <1>1, MinOfTwo
    <2> QED
        BY <2>1 DEF XRange, Rank
<1>3. \A i \in in : jobAt(i) \in Dead /\ entryOf[jobAt(i)] = i
    OBVIOUS
<1>4. m \in Nat /\ m <= c /\ (c > 0 => m > 0)
    BY <1>1
<1>5. \A k \in 1..m : nth(k) \in in /\ Rank(in, nth(k)) = k
    <2> SUFFICES ASSUME NEW k \in 1..m PROVE \E i \in in : Rank(in, i) = k
        OBVIOUS
    <2>1. k \in 1..c
        BY <1>1, <1>4
    <2> HIDE DEF in, c
    <2> QED
        BY <2>1, <1>1, Ranks DEF c
<1>6. \A i \in in : Rank(in, i) \in 1..c
    <2> HIDE DEF in
    <2> QED
        BY <1>1, Ranks
<1>7. \A i, k \in in : Rank(in, i) <= Rank(in, k) => i <= k
    <2> SUFFICES ASSUME NEW i \in in, NEW k \in in, k < i PROVE Rank(in, k) < Rank(in, i)
        BY <1>1, <1>6
    <2> HIDE DEF in
    <2> QED
        BY <1>1, Ranks
<1>8. \A i, k \in in : i <= k => Rank(in, i) <= Rank(in, k)
    <2> SUFFICES ASSUME NEW i \in in, NEW k \in in, i < k PROVE Rank(in, i) <= Rank(in, k)
        BY <1>1, <1>6
    <2>1. Rank(in, i) < Rank(in, k)
        <3> HIDE DEF in
        <3> QED
            BY <1>1, Ranks
    <2> QED
        BY <2>1, <1>6
<1>9. \A j \in Dead : entryOf[j] \in lo..hi => entryOf[j] \in in
    OBVIOUS
<1>10. \A j \in Dead : entryOf[j] \in in => jobAt(entryOf[j]) = j
    BY <1>3 DEF Entries
<1>11. Dead \subseteq Job
    BY DEF Dead
<1>12. in \subseteq lo..hi
    OBVIOUS
<1> HIDE DEF q, in, jobAt, nth, c, m
<1>13. q \in Seq(Job) /\ Len(q) = m
    BY <1>2, <1>3, <1>4, <1>5, <1>11
<1>14. \A k \in 1..Len(q) : q[k] \in Dead /\ entryOf[q[k]] = nth(k)
    BY <1>2, <1>3, <1>5, <1>13
<1>15. \A k \in 1..Len(q) : entryOf[q[k]] \in lo..hi
    BY <1>14, <1>5, <1>12, <1>13
<1>16. ASSUME NEW k \in 1..Len(q), NEW l \in 1..Len(q), q[k] = q[l] PROVE k = l
    BY <1>16, <1>14, <1>5, <1>13
<1>17. ASSUME q = <<>>, NEW j \in Dead, entryOf[j] \in lo..hi PROVE FALSE
    <2>1. m = 0 /\ c = 0
        BY <1>17, <1>13, <1>4, <1>1 DEF m
    <2> QED
        BY <2>1, <1>17, <1>9, <1>6
<1>18. ASSUME q # <<>>, NEW j \in Dead, entryOf[j] \in lo..hi,
              entryOf[j] <= entryOf[q[Len(q)]]
       PROVE  \E k \in 1..Len(q) : q[k] = j
    <2>1. m > 0 /\ m \in 1..m /\ Len(q) = m
        BY <1>18, <1>13, <1>4
    <2>2. entryOf[q[Len(q)]] = nth(m) /\ nth(m) \in in /\ Rank(in, nth(m)) = m
        BY <2>1, <1>14, <1>5
    <2>3. entryOf[j] \in in /\ Rank(in, entryOf[j]) <= m
        BY <1>18, <1>9, <2>2, <1>8
    <2>4. Rank(in, entryOf[j]) \in 1..m
        <3>1. Rank(in, entryOf[j]) \in 1..c
            BY <2>3, <1>6
        <3>2. c \in Nat /\ m \in Nat
            BY <1>1, <1>4
        <3> QED
            BY <2>3, <3>1, <3>2
    <2> DEFINE k == Rank(in, entryOf[j])
    <2>5. nth(k) = entryOf[j]
        <3>1. nth(k) \in in /\ Rank(in, nth(k)) = k /\ k \in Nat
            BY <2>4, <1>5
        <3>2. nth(k) <= entryOf[j] /\ entryOf[j] <= nth(k)
            BY <3>1, <2>3, <1>7
        <3>3. nth(k) \in Nat /\ entryOf[j] \in Nat
            BY <3>1, <2>3, <1>1
        <3> QED
            BY <3>2, <3>3
    <2>6. q[k] = j
        BY <2>4, <2>5, <2>3, <1>2, <1>10
    <2> QED
        BY <2>4, <2>6, <1>13
<1> QED
    BY <1>13, <1>14, <1>15, <1>16, <1>17, <1>18 DEF FirstEntries, q

\* A bounded set of numbers has a largest one.
LEMMA Largest ==
    ASSUME NEW S, S \subseteq Nat, S # {}, NEW b \in Nat, \A x \in S : x <= b
    PROVE  Max(S) \in S /\ \A y \in S : Max(S) >= y
<1>1. IsFiniteSet(S)
    <2>1. IsFiniteSet(0..b) /\ S \subseteq 0..b
        BY FS_Interval
    <2> QED
        BY <2>1, FS_Subset
<1>2. Cardinality(S) \in Nat /\ Cardinality(S) # 0
    BY <1>1, FS_CardinalityType, FS_EmptySet
<1>3. Cardinality(S) \in 1..Cardinality(S)
    BY <1>2
<1>4. PICK i \in S : Rank(S, i) = Cardinality(S)
    BY <1>1, <1>3, Ranks
<1>5. {x \in S : x <= i} = S
    BY <1>1, <1>4, FS_Subset DEF Rank
<1>6. \A y \in S : i >= y
    BY <1>5
<1> QED
    BY <1>6 DEF Max

-----------------------------------------------------------------------------
(* The invariant *)

\* An empty DLQ and no sweep yet.
LEMMA InitSweep == SweepInit => SweepInv
<1> SUFFICES ASSUME SweepInit PROVE SweepInv
    OBVIOUS
<1>1. SweepTypeOK
    BY SweepAssumption DEF SweepInit, SweepTypeOK, NoId, Id
<1>2. Dead = {}
    BY DEF SweepInit, Dead
<1> QED
    BY <1>1, <1>2, SweepAssumption
       DEF SweepInv, SweepInit, Entries, OldEntries, Pages, Swept, Counts, NoId

\* What a requeue does to the job it is for: it is LIVE again without an entry, or nothing changes.
LEMMA Requeued ==
    ASSUME SweepTypeOK, NEW j \in Job, RequeueScript(j)
    PROVE  /\ lastId' = lastId
           /\ \A k \in Job \ {j} : state'[k] = state[k] /\ entryOf'[k] = entryOf[k]
           /\ IF state[j] = "DEAD" /\ j \notin Hollow THEN state'[j] = "LIVE" /\ entryOf'[j] = NoId
              ELSE state'[j] = state[j] /\ entryOf'[j] = entryOf[j]
           /\ state' \in [Job -> {"LIVE", "DEAD", "SUCCEEDED"}]
           /\ entryOf' \in [Job -> Id \union {NoId}]
           /\ \A k \in Job : state'[k] = "DEAD" <=> entryOf'[k] # NoId
<1>1. CASE state[j] = "DEAD" /\ j \notin Hollow
    BY <1>1 DEF RequeueScript, SweepTypeOK
<1>2. CASE ~(state[j] = "DEAD" /\ j \notin Hollow)
    BY <1>2 DEF RequeueScript, SweepTypeOK, jobVars
<1> QED
    BY <1>1, <1>2

\* A worker kills a job: its entry lies behind everything the sweep is after.
LEMMA StepDie ==
    ASSUME SweepInv, NEW j \in Job, Die(j)
    PROVE  SweepInv'
<1>0. SweepTypeOK /\ lastId \in Nat /\ end \in Nat
    BY SweepAssumption DEF SweepInv, SweepTypeOK, Id, NoId
<1>1. /\ UNCHANGED <<stage, end, start, page, total, atStart, requeued, lostReplies>>
      /\ lastId' = lastId + 1 /\ entryOf'[j] = lastId + 1 /\ lastId < MaxEntry
      /\ \A k \in Job \ {j} : state'[k] = state[k] /\ entryOf'[k] = entryOf[k]
    BY <1>0 DEF Die, sweepState, SweepTypeOK
<1>2. SweepTypeOK'
    BY <1>0, <1>1, SweepAssumption DEF Die, SweepTypeOK, Id, NoId
<1>3. Dead' = Dead \union {j} /\ j \notin Dead
    BY <1>0 DEF Die, Dead, SweepTypeOK
<1>4. \A k \in Job : entryOf[k] \in Nat /\ entryOf[k] <= lastId
    BY <1>0 DEF SweepInv, Entries, SweepTypeOK, Id, NoId
<1>5. \A k \in Dead : k \in Job /\ k # j /\ entryOf'[k] = entryOf[k]
    BY <1>1, <1>3 DEF Dead
<1>6. Entries'
    BY <1>0, <1>1, <1>3, <1>4, <1>5 DEF SweepInv, Entries
<1>7. stage # "idle" => end < entryOf'[j]
    BY <1>0, <1>1 DEF SweepInv, OldEntries
<1>8. OldEntries'
    BY <1>0, <1>1, <1>3, <1>5, <1>7 DEF SweepInv, OldEntries
<1>9. Pages'
    BY <1>1 DEF SweepInv, Pages
<1>10. Swept' /\ Counts'
    <2>1. stage # "idle" => ~(entryOf'[j] <= end)
        BY <1>0, <1>1, <1>7
    <2>2. Swept'
        BY <1>0, <1>1, <1>3, <1>5, <1>7, <2>1 DEF SweepInv, Swept, InPage
    <2>3. \A k \in Job : requeued[k] > 0 => stage # "idle"
        BY <1>0 DEF SweepInv, OldEntries
    <2>4. Counts'
        BY <1>0, <1>1, <1>3, <1>5, <1>7, <2>3 DEF SweepInv, Counts
    <2> QED
        BY <2>2, <2>4
<1> QED
    BY <1>2, <1>6, <1>8, <1>9, <1>10 DEF SweepInv

\* Entries that go away, by a success or another operator's requeue, take nothing from the sweep.
LEMMA StepFewerDead ==
    ASSUME SweepInv, SweepTypeOK', Dead' \subseteq Dead, UNCHANGED <<lastId, sweepState, requeued, lostReplies>>,
           \A k \in Job : entryOf'[k] = entryOf[k] \/ entryOf'[k] = NoId,
           \A k \in Dead' : entryOf'[k] = entryOf[k]
    PROVE  SweepInv'
<1>0. SweepTypeOK /\ lastId \in Nat
    BY DEF SweepInv, SweepTypeOK, Id, NoId
<1>1. Entries'
    BY <1>0 DEF SweepInv, Entries, NoId
<1>2. OldEntries' /\ Pages'
    BY <1>0 DEF SweepInv, OldEntries, Pages, sweepState
<1>3. Swept' /\ Counts'
    BY <1>0 DEF SweepInv, Swept, Counts, InPage, sweepState
<1> QED
    BY <1>1, <1>2, <1>3 DEF SweepInv

\* A late success deletes the job's entry.
LEMMA StepSucceed ==
    ASSUME SweepInv, NEW j \in Job, Succeed(j)
    PROVE  SweepInv'
<1>0. SweepTypeOK
    BY DEF SweepInv
<1>1. SweepTypeOK'
    BY <1>0 DEF Succeed, SweepTypeOK, sweepState
<1>2. Dead' \subseteq Dead /\ j \notin Dead'
    BY <1>0 DEF Succeed, Dead, SweepTypeOK
<1>3. \A k \in Job : entryOf'[k] = IF k = j THEN NoId ELSE entryOf[k]
    BY <1>0 DEF Succeed, SweepTypeOK
<1>4. \A k \in Dead' : k \in Job
    BY DEF Dead
<1> QED
    BY <1>1, <1>2, <1>3, <1>4, StepFewerDead DEF Succeed

\* So does another operator's requeue.
LEMMA StepOtherRequeues ==
    ASSUME SweepInv, NEW j \in Job, OtherRequeues(j)
    PROVE  SweepInv'
<1>0. SweepTypeOK /\ RequeueScript(j)
    BY DEF SweepInv, OtherRequeues
<1>1. SweepTypeOK'
    BY <1>0, Requeued DEF OtherRequeues, SweepTypeOK, sweepState
<1>2. Dead' \subseteq Dead
    BY <1>0, Requeued DEF Dead
<1>3. /\ \A k \in Job : entryOf'[k] = entryOf[k] \/ entryOf'[k] = NoId
      /\ \A k \in Dead' : entryOf'[k] = entryOf[k]
    BY <1>0, Requeued DEF Dead
<1> QED
    BY <1>0, <1>1, <1>2, <1>3, Requeued, StepFewerDead DEF OtherRequeues

\* The sweep notes the last entry there is.
LEMMA StepBeginSweep ==
    ASSUME SweepInv, BeginSweep
    PROVE  SweepInv'
<1>0. SweepTypeOK /\ lastId \in Nat /\ Dead \subseteq Job
    BY DEF SweepInv, SweepTypeOK, Id, NoId, Dead
<1> DEFINE S == {entryOf[j] : j \in Dead}
<1>1. S \subseteq Nat /\ S # {} /\ \A x \in S : x <= lastId
    BY <1>0 DEF BeginSweep, SweepInv, Entries, SweepTypeOK, Id, NoId
<1>2. Max(S) \in S
    <2> HIDE DEF S
    <2> QED
        BY <1>0, <1>1, Largest
<1>3. end' \in Nat /\ end' <= lastId
    BY <1>1, <1>2 DEF BeginSweep
<1>4. /\ UNCHANGED <<state, entryOf, lastId, requeued, lostReplies>>
      /\ atStart' = Dead /\ start' = 0 /\ total' = 0 /\ page' = <<>> /\ stage' = "reading"
      /\ stage = "idle"
    BY DEF BeginSweep, jobVars
<1>5. Dead' = Dead
    BY <1>4 DEF Dead
<1>6. SweepTypeOK'
    <2>1. end' \in 0..MaxEntry
        BY <1>0, <1>3, SweepAssumption DEF SweepTypeOK, Id, NoId
    <2> QED
        BY <1>0, <1>4, <2>1, SweepAssumption DEF SweepTypeOK
<1>7. Entries' /\ OldEntries'
    BY <1>3, <1>4, <1>5 DEF SweepInv, Entries, OldEntries
<1>8. Pages'
    BY <1>4 DEF Pages
<1>9. Swept'
    <2>1. \A j \in Dead : entryOf[j] > 0
        BY <1>0 DEF SweepTypeOK, Dead, Id, NoId
    <2> QED
        BY <1>4, <1>5, <2>1 DEF Swept
<1>10. Counts'
    BY <1>0, <1>4, SweepAssumption DEF SweepInv, OldEntries, Counts, SweepTypeOK
<1> QED
    BY <1>6, <1>7, <1>8, <1>9, <1>10 DEF SweepInv

\* The next page takes up all old entries up to its last, or there are none left.
LEMMA StepReadPage ==
    ASSUME SweepInv, ReadPage
    PROVE  SweepInv'
<1>0. /\ SweepTypeOK /\ Entries /\ Dead \subseteq Job
      /\ start \in Nat /\ end \in Nat /\ start + 1 \in Nat /\ stage = "reading"
    BY DEF SweepInv, SweepTypeOK, Dead, ReadPage
<1> DEFINE got == XRange(start + 1, end, PageSize)
<1>1. /\ page' = got /\ UNCHANGED <<state, entryOf, lastId, end, total, atStart, requeued, lostReplies>>
      /\ got = <<>> => stage' = "returned" /\ start' = start
      /\ got # <<>> => stage' = "requeueing" /\ start' = entryOf[got[Len(got)]]
    BY DEF ReadPage, jobVars
<1>2. FirstEntries(got, start + 1, end)
    <2>1. PageSize \in Nat /\ PageSize > 0
        BY SweepAssumption
    <2> QED
        BY <1>0, <2>1, XRangeFirst
<1> HIDE DEF got
<1>3. Dead' = Dead
    BY <1>1 DEF Dead
<1>4. \A j \in Dead : entryOf[j] \in Nat /\ (entryOf[j] <= end => entryOf[j] \in start + 1..end)
    BY <1>0 DEF SweepInv, SweepTypeOK, Swept, Id, NoId
<1>5. SweepTypeOK'
    <2>1. CASE got = <<>>
        BY <1>0, <1>1, <1>2, <2>1 DEF SweepTypeOK, FirstEntries
    <2>2. CASE got # <<>>
        <3>1. Len(got) \in 1..Len(got)
            BY <1>2, <2>2 DEF FirstEntries
        <3>2. entryOf[got[Len(got)]] \in 0..MaxEntry
            BY <1>0, <1>2, <3>1, SweepAssumption DEF SweepTypeOK, Id, NoId, FirstEntries
        <3> QED
            BY <1>0, <1>1, <1>2, <2>2, <3>2 DEF SweepTypeOK, FirstEntries
    <2> QED
        BY <2>1, <2>2
<1>6. Entries'
    BY <1>0, <1>1, <1>3 DEF Entries
<1>7. OldEntries'
    BY <1>0, <1>1, <1>3 DEF SweepInv, OldEntries
<1>8. \A k \in 1..Len(got) : got[k] \in atStart /\ entryOf[got[k]] <= end
    BY <1>0, <1>2 DEF SweepInv, OldEntries, FirstEntries
<1>9. Pages'
    BY <1>1, <1>2, <1>8 DEF Pages, FirstEntries
<1>10. Swept'
    <2>1. CASE got = <<>>
        <3>1. \A j \in Dead : entryOf[j] > end
            BY <1>0, <1>2, <1>4, <2>1 DEF FirstEntries
        <3> QED
            BY <1>1, <1>3, <2>1, <3>1 DEF Swept
    <2>2. CASE got # <<>>
        BY <1>1, <1>2, <1>3, <1>4, <2>2 DEF Swept, InPage, FirstEntries
    <2> QED
        BY <2>1, <2>2
<1>11. Counts'
    <2>1. ASSUME NEW k \in 1..Len(got) PROVE requeued[got[k]] = 0
        <3>1. got[k] \in Dead /\ got[k] \in Job /\ entryOf[got[k]] <= end /\ entryOf[got[k]] \in Nat
            BY <1>0, <1>2, <1>4, <1>8 DEF FirstEntries
        <3>2. ~(entryOf[got[k]] > end)
            BY <1>0, <3>1
        <3>3. ~(requeued[got[k]] > 0)
            BY <3>1, <3>2 DEF SweepInv, Counts
        <3>4. requeued[got[k]] \in Nat
            BY <1>0, <3>1 DEF SweepTypeOK
        <3> QED
            BY <3>3, <3>4
    <2> QED
        BY <1>0, <1>1, <1>3, <2>1, SweepAssumption DEF SweepInv, Counts, SweepTypeOK
<1> QED
    BY <1>5, <1>6, <1>7, <1>9, <1>10, <1>11 DEF SweepInv

\* One requeue of the page, with or without its reply.
LEMMA StepRequeueNext ==
    ASSUME SweepInv, NEW received \in BOOLEAN, RequeueNext(received)
    PROVE  SweepInv'
<1> DEFINE j == Head(page)
           ok == state[j] = "DEAD" /\ j \notin Hollow
<1>0. /\ SweepTypeOK /\ stage = "requeueing" /\ page \in Seq(Job) /\ page # <<>>
      /\ j = page[1] /\ j \in Job /\ j \in atStart /\ Len(page) \in Nat /\ 1 \in 1..Len(page)
    BY DEF SweepInv, Pages, SweepTypeOK, RequeueNext
<1>1. RequeueScript(j) /\ UNCHANGED <<end, start, atStart>>
    BY DEF RequeueNext
<1>2. /\ lastId' = lastId
      /\ \A k \in Job \ {j} : state'[k] = state[k] /\ entryOf'[k] = entryOf[k]
      /\ ok => state'[j] = "LIVE" /\ entryOf'[j] = NoId
      /\ ~ok => state'[j] = state[j] /\ entryOf'[j] = entryOf[j]
      /\ state' \in [Job -> {"LIVE", "DEAD", "SUCCEEDED"}]
      /\ entryOf' \in [Job -> Id \union {NoId}]
      /\ \A k \in Job : state'[k] = "DEAD" <=> entryOf'[k] # NoId
    BY <1>0, <1>1, Requeued
<1>3. /\ requeued' \in [Job -> Nat]
      /\ \A k \in Job \ {j} : requeued'[k] = requeued[k]
      /\ ok => requeued'[j] = requeued[j] + 1
      /\ ~ok => requeued'[j] = requeued[j]
    BY <1>0 DEF RequeueNext, SweepTypeOK
<1>4. IF received
      THEN /\ total' \in Nat /\ page' = Tail(page) /\ lostReplies' = lostReplies
           /\ state[j] = "DEAD" /\ j \in Hollow => stage' = "raised"
           /\ ~(state[j] = "DEAD" /\ j \in Hollow) =>
                 stage' = IF Len(page) = 1 THEN "reading" ELSE "requeueing"
      ELSE lostReplies' = lostReplies + 1 /\ lostReplies < MaxLost /\ UNCHANGED <<total, page, stage>>
    BY <1>0 DEF RequeueNext, SweepTypeOK
<1>5. /\ Tail(page) \in Seq(Job) /\ Len(Tail(page)) = Len(page) - 1
      /\ \A i \in 1..Len(Tail(page)) : Tail(page)[i] = page[i + 1] /\ i + 1 \in 1..Len(page)
    BY <1>0
<1>6. /\ \A k \in Job : k \in Dead <=> state[k] = "DEAD"
      /\ \A k \in Job : k \in Dead' <=> state'[k] = "DEAD"
      /\ Dead \subseteq Job /\ Dead' \subseteq Job
    BY DEF Dead
<1> HIDE DEF j, ok
<1>7. /\ Dead' \subseteq Dead /\ \A k \in Dead' : entryOf'[k] = entryOf[k]
      /\ ok => j \notin Dead'
      /\ \A k \in Job : entryOf'[k] = entryOf[k] \/ entryOf'[k] = NoId
    BY <1>0, <1>2, <1>6
<1>8. lastId \in Nat /\ end \in Nat /\ lostReplies \in Nat /\ requeued \in [Job -> Nat]
    BY <1>0 DEF SweepTypeOK, Id, NoId
<1>9. SweepTypeOK'
    <2>1. lostReplies' \in 0..MaxLost
        BY <1>0, <1>4, SweepAssumption DEF SweepTypeOK
    <2>2. /\ page' \in Seq(Job) /\ total' \in Nat
          /\ stage' \in {"idle", "reading", "requeueing", "returned", "raised"}
        BY <1>0, <1>4, <1>5 DEF SweepTypeOK
    <2> QED
        BY <1>0, <1>1, <1>2, <1>3, <2>1, <2>2 DEF SweepTypeOK
<1>10. Entries'
    BY <1>2, <1>7, <1>8 DEF SweepInv, Entries, NoId
<1>11. stage' # "idle"
    BY <1>0, <1>4
<1>12. OldEntries'
    BY <1>0, <1>1, <1>2, <1>7, <1>11 DEF SweepInv, OldEntries
<1>13. Pages'
    <2>1. CASE received
        <3>1. stage' = "requeueing" => page' # <<>>
            BY <1>0, <1>4, <1>5, <2>1
        <3>2. /\ \A i \in 1..Len(page') : page'[i] \in atStart'
              /\ \A i, k \in 1..Len(page') : page'[i] = page'[k] => i = k
            BY <1>0, <1>1, <1>4, <1>5, <2>1 DEF SweepInv, Pages
        <3> QED
            BY <3>1, <3>2, <1>11 DEF Pages
    <2>2. CASE ~received
        BY <1>0, <1>1, <1>4, <2>2 DEF SweepInv, Pages
    <2> QED
        BY <2>1, <2>2
<1>14. Swept'
    <2>1. CASE ~received
        BY <1>0, <1>1, <1>4, <1>7, <2>1 DEF SweepInv, Swept, InPage
    <2>2. CASE received /\ stage' = "raised"
        BY <2>2 DEF Swept
    <2>3. CASE received /\ stage' # "raised"
        <3>1. j \notin Dead'
            BY <1>0, <1>2, <1>4, <1>6, <1>7, <2>3 DEF ok
        <3>2. ASSUME NEW k \in Dead', entryOf'[k] <= end, entryOf'[k] <= start
              PROVE  \E i \in 1..Len(Tail(page)) : Tail(page)[i] = k
            <4>1. PICK i \in 1..Len(page) : page[i] = k
                BY <1>0, <1>7, <3>2 DEF SweepInv, Swept, InPage
            <4>2. i # 1
                BY <1>0, <3>1, <4>1
            <4>3. i - 1 \in 1..Len(Tail(page)) /\ Tail(page)[i - 1] = page[i]
                BY <1>0, <1>5, <4>2
            <4> QED
                BY <4>1, <4>3
        <3>3. \A k \in Dead' : entryOf'[k] \in Nat
            BY <1>2, <1>6 DEF Id, NoId
        <3>4. stage' = "reading" => Len(Tail(page)) = 0
            BY <1>0, <1>4, <1>5, <2>3
        <3>5. start \in Nat
            BY <1>0 DEF SweepTypeOK
        <3>6. stage' = "reading" => \A k \in Dead' : entryOf'[k] <= end => entryOf'[k] > start
            <4> SUFFICES ASSUME stage' = "reading", NEW k \in Dead', entryOf'[k] <= end,
                                entryOf'[k] <= start
                         PROVE  FALSE
                BY <3>3, <3>5
            <4>1. PICK i \in 1..Len(Tail(page)) : Tail(page)[i] = k
                BY <3>2
            <4>2. Len(Tail(page)) = 0
                BY <3>4
            <4> QED
                BY <4>1, <4>2
        <3>7. stage' \in {"reading", "requeueing"}
            BY <1>4, <2>3
        <3> QED
            BY <1>1, <1>4, <2>3, <3>2, <3>6, <3>7 DEF Swept, InPage
    <2> QED
        BY <2>1, <2>2, <2>3
<1>15. Counts'
    <2>1. requeued[j] <= lostReplies /\ requeued[j] \in Nat
        BY <1>0, <1>8 DEF SweepInv, Counts
    <2>2. \A k \in Job : requeued'[k] > 0 => k \in atStart' /\ (k \in Dead' => entryOf'[k] > end')
        <3>1. ASSUME NEW k \in Job, k # j, requeued'[k] > 0
              PROVE  k \in atStart' /\ (k \in Dead' => entryOf'[k] > end')
            BY <1>1, <1>3, <1>7, <3>1 DEF SweepInv, Counts
        <3>2. CASE ok
            BY <1>0, <1>1, <1>7, <3>1, <3>2
        <3>3. CASE ~ok
            BY <1>0, <1>1, <1>3, <1>7, <3>1, <3>3 DEF SweepInv, Counts
        <3> QED
            BY <3>2, <3>3
    <2>3. \A k \in Job : requeued'[k] <= 1 + lostReplies'
        BY <1>0, <1>3, <1>4, <1>8, <2>1 DEF SweepInv, Counts
    <2>4. \A i \in 1..Len(page') : requeued'[page'[i]] <= lostReplies'
        <3>1. \A i \in 1..Len(page) : page[i] \in Job /\ (page[i] = j => i = 1)
            BY <1>0 DEF SweepInv, Pages
        <3>2. CASE received
            <4> SUFFICES ASSUME NEW i \in 1..Len(Tail(page))
                         PROVE  requeued'[Tail(page)[i]] <= lostReplies
                BY <1>4, <3>2
            <4>1. i + 1 \in 1..Len(page) /\ Tail(page)[i] = page[i + 1] /\ i + 1 # 1
                BY <1>0, <1>5
            <4>2. requeued'[page[i + 1]] = requeued[page[i + 1]]
                BY <1>3, <3>1, <4>1
            <4> QED
                BY <4>1, <4>2 DEF SweepInv, Counts
        <3>3. CASE ~received
            <4> SUFFICES ASSUME NEW i \in 1..Len(page)
                         PROVE  requeued'[page[i]] <= lostReplies + 1
                BY <1>4, <3>3
            <4>1. requeued[page[i]] <= lostReplies /\ requeued[page[i]] \in Nat
                BY <1>8, <3>1 DEF SweepInv, Counts
            <4>2. requeued'[page[i]] <= requeued[page[i]] + 1
                BY <1>3, <3>1, <4>1
            <4>3. requeued'[page[i]] \in Nat
                BY <1>3, <3>1
            <4> QED
                BY <4>1, <4>2, <4>3, <1>8
        <3> QED
            BY <3>2, <3>3
    <2> QED
        BY <2>2, <2>3, <2>4 DEF Counts
<1> QED
    BY <1>9, <1>10, <1>12, <1>13, <1>14, <1>15 DEF SweepInv

-----------------------------------------------------------------------------
(* The results *)

\* Every step keeps the invariant.
LEMMA NextSweep ==
    ASSUME SweepInv, [SweepNext]_sweepVars
    PROVE  SweepInv'
<1>1. CASE SweepNext
    BY <1>1, StepBeginSweep, StepReadPage, StepRequeueNext, StepDie, StepSucceed, StepOtherRequeues
       DEF SweepNext, Sweep
<1>2. CASE UNCHANGED sweepVars
    BY <1>2 DEF SweepInv, SweepTypeOK, Entries, OldEntries, Pages, Swept, Counts, InPage, Dead,
          sweepVars, jobVars, sweepState
<1> QED
    BY <1>1, <1>2

\* The invariant holds throughout a sweep, whatever happens around it.
THEOREM SweepAlwaysSound == SweepSpec => []SweepInv
BY InitSweep, NextSweep, PTL DEF SweepSpec

\* The sweep's state is of its types, and the DLQ holds one entry for each DEAD job and no other.
THEOREM SweepTypes == SweepSpec => []SweepTypeOK
BY SweepAlwaysSound, PTL DEF SweepInv

\* What the invariant is for.
LEMMA SweepFollows == SweepInv => SweepExact
BY DEF SweepInv, Swept, Counts, SweepExact

\* requeue_all, when it returns, has emptied the part of the DLQ it started with, whatever
\* workers and other operators did to it meanwhile; it requeues only jobs that were there, and
\* none more often than once and once more for each reply that was lost.
THEOREM SweepIsExact == SweepSpec => []SweepExact
BY SweepFollows, SweepAlwaysSound, PTL

-----------------------------------------------------------------------------
(* The reaper's cursor *)

\* The entries, and how many of a set of them there are.
LEMMA EntrySets ==
    ASSUME NEW S, S \subseteq Entry
    PROVE  IsFiniteSet(S) /\ Cardinality(S) \in Nat
<1>1. IsFiniteSet(Entry)
    BY CursorAssumption, FS_Interval DEF Entry
<1> QED
    BY <1>1, FS_Subset, FS_CardinalityType

\* A pass claims no more entries than there are free slots: before the last one it claims, it
\* had claimed fewer.
LEMMA ClaimsFit ==
    ASSUME CursorTypeOK, Free > 0
    PROVE  Cardinality(Claimed) \in Nat /\ Cardinality(Claimed) <= Free
<1>1. Claimed \subseteq Entry
    BY DEF Claimed, Expired, Scanned, Ahead
<1>2. Cardinality(Claimed) \in Nat /\ IsFiniteSet(Claimed) /\ Free \in Int
    <2>1. Mine \subseteq Entry
        BY DEF Mine
    <2> QED
        BY <1>1, <2>1, EntrySets, CursorAssumption DEF Free, CursorTypeOK
<1>3. CASE Claimed = {}
    BY <1>2, <1>3, FS_EmptySet
<1>4. CASE Claimed # {}
    <2>1. Claimed \subseteq Nat /\ N \in Nat /\ \A x \in Claimed : x <= N
        BY <1>1, CursorAssumption DEF Entry
    <2>2. PICK last \in Claimed : \A y \in Claimed : last >= y
        BY <1>4, <2>1, Largest
    <2> DEFINE before == Expired(AheadOf(last))
    <2>3. Claimed \ {last} \subseteq before
        <3> SUFFICES ASSUME NEW y \in Claimed, y # last PROVE y \in before
            OBVIOUS
        <3>1. y < last
            BY <2>1, <2>2
        <3>2. y \in Ahead /\ lease[y] = "expired"
            BY DEF Claimed, Expired, Scanned
        <3> QED
            BY <3>1, <3>2 DEF Expired, AheadOf
    <2>4. before \subseteq Entry
        BY DEF Expired, AheadOf, Ahead
    <2>5. Cardinality(before) < Free
        BY DEF Claimed, Expired, Scanned
    <2> HIDE DEF before
    <2>6. Cardinality(Claimed \ {last}) <= Cardinality(before) /\ Cardinality(before) \in Nat
        BY <2>3, <2>4, EntrySets, FS_Subset
    <2>7. Cardinality(Claimed \ {last}) = Cardinality(Claimed) - 1
        BY <1>2, <2>2, FS_RemoveElement
    <2> QED
        BY <1>2, <2>5, <2>6, <2>7
<1> QED
    BY <1>3, <1>4

\* So what it keeps fits into the free slots, and none of it was the worker's already.
LEMMA KeepsFit ==
    ASSUME CursorTypeOK, Free > 0
    PROVE  /\ Kept \subseteq Entry /\ Kept \cap Mine = {}
           /\ Cardinality(Kept \union Mine) <= Free + Cardinality(Mine)
           /\ Cardinality(Kept \union Mine) \in Nat
<1>1. Kept \subseteq Claimed /\ Claimed \subseteq Entry /\ Claimed \cap Mine = {} /\ Mine \subseteq Entry
    BY DEF Kept, Claimed, Expired, Scanned, Ahead, Mine
<1>2. /\ IsFiniteSet(Kept) /\ Cardinality(Kept) \in Nat
      /\ IsFiniteSet(Mine) /\ Cardinality(Mine) \in Nat /\ IsFiniteSet(Claimed)
    BY <1>1, EntrySets
<1>3. Cardinality(Kept) <= Cardinality(Claimed)
    BY <1>1, <1>2, FS_Subset
<1>4. Kept \cap Mine = {}
    BY <1>1
<1>5. Cardinality(Kept \union Mine) = Cardinality(Kept) + Cardinality(Mine) - Cardinality(Kept \cap Mine)
    BY <1>2, FS_Union
<1>6. Cardinality(Kept \cap Mine) = 0
    BY <1>4, FS_EmptySet
<1>7. Cardinality(Claimed) \in Nat /\ Cardinality(Claimed) <= Free /\ Free \in Int
    BY <1>2, ClaimsFit, CursorAssumption DEF Free, CursorTypeOK
<1> QED
    BY <1>1, <1>2, <1>3, <1>4, <1>5, <1>6, <1>7

\* The cursor is an entry, or "0-0".
LEMMA CursorMoves ==
    ASSUME CursorTypeOK
    PROVE  NextCursor \in 0 .. N
<1>1. CASE Scanned = Ahead
    BY <1>1, CursorAssumption DEF NextCursor
<1>2. CASE Scanned # Ahead
    <2> DEFINE rest == Ahead \ Scanned
    <2>1. rest # {} /\ rest \subseteq Entry /\ rest \subseteq Nat
        BY <1>2, CursorAssumption DEF Scanned, Ahead, Entry
    <2>2. NextCursor = Min(rest)
        BY <1>2 DEF NextCursor
    <2> HIDE DEF rest
    <2>3. PICK n \in rest : \A m \in rest : n <= m
        BY <2>1, LeastNatural
    <2>4. Min(rest) \in rest
        BY <2>3 DEF Min
    <2>5. Min(rest) \in 0 .. N
        <3>1. PICK m \in Entry : m = Min(rest)
            BY <2>1, <2>4
        <3> QED
            BY <3>1, CursorAssumption DEF Entry
    <2> QED
        BY <2>2, <2>5
<1> QED
    BY <1>1, <1>2

\* No slot is given twice when fewer entries are the worker's than before.
LEMMA FewerMine ==
    ASSUME CursorTypeOK, Mine' \subseteq Mine, fresh' \in Nat, fresh' <= fresh
    PROVE  Free' >= 0
<1>1. Mine \subseteq Entry
    BY DEF Mine
<1>2. IsFiniteSet(Mine) /\ Cardinality(Mine) \in Nat
    BY <1>1, EntrySets
<1>3. Cardinality(Mine') \in Nat /\ Cardinality(Mine') <= Cardinality(Mine)
    BY <1>1, <1>2, EntrySets, FS_Subset
<1> QED
    BY <1>2, <1>3, CursorAssumption DEF Free, CursorTypeOK

\* A worker that has claimed nothing yet.
LEMMA InitCursor == CursorInit => CursorTypeOK
<1> SUFFICES ASSUME CursorInit PROVE CursorTypeOK
    OBVIOUS
<1>1. due \in BOOLEAN
    BY DEF CursorInit
<1>2. Mine = {}
    BY DEF CursorInit, Mine
<1>3. Free >= 0
    BY <1>2, FS_EmptySet, CursorAssumption DEF CursorInit, Free
<1> QED
    BY <1>1, <1>3, CursorAssumption DEF CursorInit, CursorTypeOK

\* Every step of the reaper's loop keeps the types and the slots.
LEMMA StepCursor ==
    ASSUME CursorTypeOK, [CursorNext]_cursorVars
    PROVE  CursorTypeOK'
<1> USE CursorAssumption
<1>0. /\ fresh \in Nat /\ Slots \in Nat /\ Cardinality(Mine) \in Nat /\ Free \in Int
      /\ Free = Slots - fresh - Cardinality(Mine) /\ Free >= 0
    <2>1. Mine \subseteq Entry
        BY DEF Mine
    <2> QED
        BY <2>1, EntrySets DEF CursorTypeOK, Free
<1>1. CASE Reap
    <2>1. /\ Free > 0 /\ Take(Kept, "mine") /\ cursor' = NextCursor /\ due' = (NextCursor # 0)
          /\ UNCHANGED <<longRuns, fresh, faults>>
        BY <1>1 DEF Reap
    <2>2. turn' \in {"top", "fetch"}
        BY <1>1 DEF Reap
    <2>3. lease' \in [Entry -> {"live", "expired", "mine", "lost", "gone"}]
        BY <2>1 DEF Take, CursorTypeOK
    <2>4. Mine' = Kept \union Mine
        BY <2>1, KeepsFit DEF Mine, Take
    <2>5. Free' >= 0
        BY <1>0, <2>1, <2>4, KeepsFit DEF Free
    <2>6. due' \in BOOLEAN
        BY <2>1
    <2> QED
        BY <2>1, <2>2, <2>3, <2>5, <2>6, CursorMoves DEF CursorTypeOK
<1>2. CASE ReapFails
    <2>1. /\ Free > 0
          /\ Take(Kept, "lost") \/ UNCHANGED lease
          /\ UNCHANGED <<longRuns, cursor, fresh>>
          /\ turn' = "fetch" /\ faults' \in 0 .. MaxFaults
        BY <1>2 DEF ReapFails, CursorTypeOK
    <2>2. lease' \in [Entry -> {"live", "expired", "mine", "lost", "gone"}]
        BY <2>1 DEF Take, CursorTypeOK
    <2>3. Mine' = Mine
        BY <2>1, KeepsFit DEF Mine, Take
    <2>4. due' \in BOOLEAN
        BY <1>2 DEF ReapFails
    <2>5. Free' >= 0
        BY <1>0, <2>1, <2>3, FewerMine
    <2> QED
        BY <2>1, <2>2, <2>4, <2>5 DEF CursorTypeOK
<1>3. ASSUME NEW k \in 0 .. Slots, Fetch(k) PROVE CursorTypeOK'
    <2>1. fresh' = fresh + k /\ k <= Free /\ turn' = "top" /\ UNCHANGED <<longRuns, lease, cursor, due, faults>>
        BY <1>3 DEF Fetch
    <2>2. Mine' = Mine
        BY <2>1 DEF Mine
    <2>3. Free' >= 0 /\ fresh' \in 0 .. Slots
        BY <1>0, <2>1, <2>2 DEF Free
    <2> QED
        BY <2>1, <2>3 DEF CursorTypeOK
<1>4. CASE SkipReap \/ IntervalElapses \/ UNCHANGED cursorVars
    <2>1. UNCHANGED <<longRuns, lease, cursor, fresh, faults>> /\ turn' \in {"top", "fetch"}
        BY <1>4 DEF SkipReap, IntervalElapses, cursorVars, CursorTypeOK
    <2>2. due' \in BOOLEAN
        BY <1>4 DEF SkipReap, IntervalElapses, cursorVars, CursorTypeOK
    <2>3. Free' = Free
        BY <2>1 DEF Free, Mine
    <2> QED
        BY <2>1, <2>2, <2>3 DEF CursorTypeOK
<1>5. CASE FreshEnds
    <2>1. fresh' \in 0 .. Slots /\ fresh' <= fresh /\ UNCHANGED <<longRuns, lease, cursor, due, turn, faults>>
        BY <1>5 DEF FreshEnds, CursorTypeOK
    <2>2. Mine' = Mine
        BY <2>1 DEF Mine
    <2>3. Free' >= 0
        BY <1>0, <2>1, <2>2, FewerMine
    <2> QED
        BY <2>1, <2>3 DEF CursorTypeOK
<1>6. ASSUME NEW e \in Entry, TaskEnds(e) \/ LeaseExpires(e) PROVE CursorTypeOK'
    <2>1. /\ Take({e}, "gone") \/ Take({e}, "expired")
          /\ UNCHANGED <<longRuns, cursor, due, turn, fresh, faults>>
        BY <1>6 DEF TaskEnds, LeaseExpires
    <2>2. lease' \in [Entry -> {"live", "expired", "mine", "lost", "gone"}]
        BY <2>1 DEF Take, CursorTypeOK
    <2>3. Mine' \subseteq Mine
        BY <2>1 DEF Mine, Take
    <2>4. Free' >= 0
        BY <1>0, <2>1, <2>3, FewerMine
    <2> QED
        BY <2>1, <2>2, <2>4 DEF CursorTypeOK
<1> QED
    BY <1>1, <1>2, <1>3, <1>4, <1>5, <1>6 DEF CursorNext, Loop

\* The reaper never takes more expired entries, nor the fetch more fresh ones, than the worker
\* has slots for: whatever the windows XAUTOCLAIM scans, the passes that fail and the order in
\* which leases run out.
THEOREM CursorTypes == CursorSpec => []CursorTypeOK
BY InitCursor, StepCursor, PTL DEF CursorSpec

-----------------------------------------------------------------------------
(* All parts *)

\* The parts at rest are in states of theirs.
LEMMA RestSound ==
    ASSUME {} \in StuckSets
    PROVE  (PoolRest => PoolInv) /\ (CursorRest => CursorTypeOK)
<1>1. ASSUME PoolRest PROVE PoolInv
    <2>1. PoolTypeOK
        <3>1. stopping \in BOOLEAN /\ abandoned \in BOOLEAN /\ stopped \in BOOLEAN
            BY <1>1 DEF PoolRest
        <3>2. 0 \in 0 .. Timeout
            BY PoolAssumption
        <3> QED
            BY <1>1, <3>1, <3>2 DEF PoolRest, PoolTypeOK, NoPool, Ended
    <2>2. Used = {} /\ reset = {} /\ died = {} /\ TimedOut = {} /\ SlotHolders = {} /\ LiveRuns = {}
        BY <1>1 DEF PoolRest, Used, TimedOut, SlotHolders, LiveRuns, Live
    <2>3. PoolsCounted
        BY <1>1, <2>2, FS_EmptySet, PoolAssumption DEF PoolsCounted, PoolRest
    <2>4. AttemptsPlaced
        BY <1>1, <2>2, FS_EmptySet, PoolAssumption DEF AttemptsPlaced, PoolRest
    <2> QED
        BY <1>1, <2>1, <2>2, <2>3, <2>4 DEF PoolInv, PoolRest, KilledForAReason, StoppedIsOver
<1>2. ASSUME CursorRest PROVE CursorTypeOK
    <2>1. due \in BOOLEAN
        BY <1>2 DEF CursorRest
    <2>2. Mine \subseteq 1 .. Slots /\ IsFiniteSet(1 .. Slots) /\ Cardinality(1 .. Slots) = Slots
        BY <1>2, CursorAssumption, FS_Interval DEF CursorRest, Mine, Entry
    <2>3. Cardinality(Mine) <= Slots /\ Cardinality(Mine) \in Nat
        BY <2>2, FS_Subset, FS_CardinalityType
    <2>4. Free >= 0
        BY <1>2, <2>3, CursorAssumption DEF CursorRest, Free
    <2> QED
        BY <1>2, <2>1, <2>4, CursorAssumption DEF CursorRest, CursorTypeOK
<1> QED
    BY <1>1, <1>2

\* Every part is sound: the one that runs and the ones at rest.
WorkerInv == PoolInv /\ LifetimeInv /\ SweepInv /\ CursorTypeOK

\* One part begins, the others rest.
LEMMA InitWorker ==
    ASSUME {} \in StuckSets
    PROVE  Init => WorkerInv
BY RestSound, InitPoolInv, InitLifetime, InitSweep, InitCursor
   DEF Init, LifetimeRest, SweepRest, WorkerInv

allParts == <<part, poolVars, lifetimeVars, sweepVars, cursorVars>>

\* A step of the worker is a step of each part, or leaves the part alone.
LEMMA PartSteps ==
    ASSUME [Next]_allParts
    PROVE  /\ [PoolNext]_poolVars /\ [LifetimeNext]_lifetimeVars
           /\ [SweepNext]_sweepVars /\ [CursorNext]_cursorVars
BY DEF Next, allParts

\* Every step keeps the parts sound.
LEMMA StepWorker == WorkerInv /\ [Next]_allParts => WorkerInv'
<1> SUFFICES ASSUME WorkerInv, [Next]_allParts PROVE WorkerInv'
    OBVIOUS
<1>1. PoolInv'
    BY PartSteps, NextPoolInv DEF WorkerInv
<1>2. LifetimeInv'
    BY PartSteps, NextLifetime DEF WorkerInv
<1>3. SweepInv'
    BY PartSteps, NextSweep DEF WorkerInv
<1>4. CursorTypeOK'
    BY PartSteps, StepCursor DEF WorkerInv
<1> QED
    BY <1>1, <1>2, <1>3, <1>4 DEF WorkerInv

\* The invariant holds in every behaviour of the parts.
THEOREM WorkerAlwaysSound ==
    ASSUME {} \in StuckSets
    PROVE  Spec => []WorkerInv
BY InitWorker, StepWorker, PTL DEF Spec, allParts

\* The parts keep their types side by side: the pools, a job's copy, the sweep and the cursor.
THEOREM WorkerTypes ==
    ASSUME {} \in StuckSets
    PROVE  Spec => []WorkerTypeOK
<1>1. WorkerInv => WorkerTypeOK
    BY DEF WorkerInv, PoolInv, LifetimeInv, SweepInv, WorkerTypeOK
<1> QED
    BY <1>1, WorkerAlwaysSound, PTL

\* In the worker as it is checked, for any size of each part: timeouts are charged to attempts that
\* had them, bystanders of a reset are restarted, no pool is lost, a healthy worker keeps its lease
\* as far as its heartbeat calls allow, and a sweep of the DLQ is exact, but for the requeues that
\* lost replies repeat.
THEOREM WorkerIsSafe ==
    ASSUME {} \in StuckSets
    PROVE  Spec => [](/\ BystandersRestart /\ TimeoutEarned /\ NoLostPool
                      /\ HealthyKeepsLease /\ SweepExact)
<1>1. WorkerInv => /\ BystandersRestart /\ TimeoutEarned /\ NoLostPool
                   /\ HealthyKeepsLease /\ SweepExact
    BY PoolFollows, LeaseFollows, SweepFollows DEF WorkerInv
<1> QED
    BY <1>1, WorkerAlwaysSound, PTL

\* And a job is committed once, for every settings with waits within the margin of the TTL,
\* whichever part of the worker runs.
THEOREM WorkerCommitsOnce ==
    ASSUME {} \in StuckSets,
           \A x \in Settings :
             x.slotWait + x.reapInterval <= (TtlMargin - 1) * (x.timeout + x.visibilityTimeout)
    PROVE  Spec => []CommitsOnce
<1>1. Init => commits <= 1
    BY DEF Init, LifetimeRest, LifetimeInit
<1>2. WorkerInv /\ commits <= 1 /\ [Next]_allParts => (commits <= 1)'
    BY PartSteps, StepCommitsOnce DEF WorkerInv
<1>3. WorkerInv /\ commits <= 1 => CommitsOnce
    BY CommitsFollow DEF WorkerInv
<1> QED
    BY <1>1, <1>2, <1>3, WorkerAlwaysSound, PTL DEF Spec, allParts

=============================================================================
