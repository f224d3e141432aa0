------------------------- MODULE BackpressureProofs -------------------------
(***************************************************************************)
(* Proofs about Backpressure: for any number of calls, jobs and keys, any  *)
(* watermarks, and any pattern of lost replies.                            *)
(***************************************************************************)
EXTENDS Backpressure, TLAPS

-----------------------------------------------------------------------------
(* The inductive invariant *)

\* A key that is set names a job that was added.
KeyNamesAdded == \A k \in Key : idem[k] # NoJob => added[idem[k]] > 0

\* An id in a reply under way is that of a job that was added.
RepliesTrue == \A j \in Job : replies[j].id # NoJob => added[replies[j].id] > 0

\* A refusal under way was decided on by a script that wrote nothing, and nobody else
\* sends this job.
RefusalsTrue == \A j \in Job : KeyOf[j] # NoKey /\ replies[j] = Full => added[j] = 0

Admission ==
    /\ TypeOK /\ WatermarkHolds
    /\ KeyExact /\ KeyNamesAdded
    /\ RepliesTrue /\ AcceptedWasAdded
    /\ RefusalsTrue /\ KeyedRefusalWroteNothing

-----------------------------------------------------------------------------
(* Operators *)

\* The kinds of a reply can be told apart, and only ADDED and DUPLICATE carry an id.
LEMMA ReplyKinds ==
    /\ NoReply \in Replies /\ Full \in Replies /\ Full # NoReply
    /\ NoReply.id = NoJob /\ Full.id = NoJob
    /\ \A j \in Job : /\ Added(j) \in Replies /\ Duplicate(j) \in Replies
                      /\ Added(j).id = j /\ Duplicate(j).id = j
                      /\ Added(j) # Full /\ Duplicate(j) # Full
                      /\ Added(j) # NoReply /\ Duplicate(j) # NoReply
    /\ \A r \in Replies : r.id \in Job \cup {NoJob}
    /\ \A r \in Replies : r # NoReply /\ r # Full => r.id \in Job
<1>1. \A j \in Job : /\ Added(j) \in Replies /\ Duplicate(j) \in Replies
                        /\ Added(j).id = j /\ Duplicate(j).id = j
    BY DEF Replies, Added, Duplicate
<1>2. NoReply.status = "NONE" /\ Full.status = "FULL"
    BY DEF NoReply, Full
<1>3. \A j \in Job : Added(j).status = "ADDED" /\ Duplicate(j).status = "DUPLICATE"
    BY DEF Added, Duplicate
<1>4. NoReply \in Replies /\ Full \in Replies /\ NoReply.id = NoJob /\ Full.id = NoJob
    BY DEF Replies, NoReply, Full
<1>5. /\ Full # NoReply
      /\ \A j \in Job : /\ Added(j) # Full /\ Duplicate(j) # Full
                        /\ Added(j) # NoReply /\ Duplicate(j) # NoReply
    BY <1>2, <1>3
<1>6. \A r \in Replies : r = NoReply \/ r = Full \/ \E j \in Job : r = Added(j) \/ r = Duplicate(j)
    BY DEF Replies
<1> QED BY <1>1, <1>4, <1>5, <1>6

\* A job belongs to one call only.
LEMMA OneCall ==
    ASSUME TypeOK, NEW c \in Call, NEW d \in Call, NEW j \in pending[c], j \in pending[d]
    PROVE  c = d
BY BackpressureAssumption DEF TypeOK

\* Forgetting a round's replies leaves those of the other calls alone.
LEMMA ForgetReplies ==
    ASSUME TypeOK, NEW c \in Call, Forget(c)
    PROVE  /\ replies' \in [Job -> Replies]
           /\ \A j \in Job : replies'[j] = NoReply \/ replies'[j] = replies[j]
BY ReplyKinds DEF TypeOK, Forget

-----------------------------------------------------------------------------
(* Admission is inductive *)

\* A quiet step adds nothing, sets no key and sends no reply.
Quiet ==
    /\ UNCHANGED <<idem, added>>
    /\ \A j \in Job : replies'[j] = NoReply \/ replies'[j] = replies[j]

\* Nothing is claimed yet.
LEMMA InitAdmission == Init => Admission
<1> SUFFICES ASSUME Init PROVE Admission
    OBVIOUS
<1>0. full \in BOOLEAN
    BY DEF Init
<1>1. replies \in [Job -> Replies] /\ phase \in [Call -> Phase]
    BY ReplyKinds DEF Init, Phase
<1>2. /\ depth \in Nat
      /\ requeued \in 0 .. MaxRequeues /\ lost \in 0 .. MaxLost
    BY BackpressureAssumption DEF Init
<1>3. TypeOK
    BY <1>0, <1>1, <1>2 DEF Init, TypeOK
<1>4. WatermarkHolds /\ KeyExact /\ KeyNamesAdded /\ AcceptedWasAdded
    BY BackpressureAssumption DEF Init, WatermarkHolds, KeyExact, KeyNamesAdded, AcceptedWasAdded
<1>5. RepliesTrue /\ RefusalsTrue /\ KeyedRefusalWroteNothing
    BY ReplyKinds DEF Init, RepliesTrue, RefusalsTrue, KeyedRefusalWroteNothing, Refused
<1> QED BY <1>3, <1>4, <1>5 DEF Admission

\* What the keys and replies say stays true in a quiet step.
LEMMA QuietKeeps ==
    ASSUME Admission, Quiet
    PROVE  KeyExact' /\ KeyNamesAdded' /\ RepliesTrue' /\ RefusalsTrue'
<1>1. KeyExact' /\ KeyNamesAdded'
    BY DEF Admission, Quiet, KeyExact, KeyNamesAdded
<1>2. RepliesTrue' /\ RefusalsTrue'
    BY ReplyKinds DEF Admission, Quiet, RepliesTrue, RefusalsTrue
<1> QED BY <1>1, <1>2

\* enqueue.lua: a new key names the job just added, and a job is added under a key at most
\* once; the depth was below the high watermark if the script added to it.
LEMMA SendAdmission ==
    ASSUME Admission, NEW c \in Call, NEW j \in Batch[c], Send(c, j)
    PROVE  Admission'
<1>1. /\ j \in Job /\ j \in pending[c] /\ phase[c] = "sending" /\ replies[j] = NoReply
      /\ UNCHANGED <<requeued, phase, pending, accepted, lost>>
      /\ KeyOf[j] \in Key \cup {NoKey}
    BY BackpressureAssumption DEF Send, Admission, TypeOK
<1>2. CASE Repeated(j)
  <2>1. /\ replies' = [replies EXCEPT ![j] = Duplicate(idem[KeyOf[j]])]
        /\ UNCHANGED queueVars
      BY <1>2 DEF Send, EnqueueScript
  <2>2. KeyOf[j] \in Key /\ idem[KeyOf[j]] \in Job /\ added[idem[KeyOf[j]]] > 0
      BY <1>1, <1>2 DEF Repeated, Admission, TypeOK, KeyNamesAdded
  <2>3. Duplicate(idem[KeyOf[j]]) \in Replies
      BY <2>2, ReplyKinds
  <2>4. TypeOK' /\ WatermarkHolds'
      BY <1>1, <2>1, <2>3 DEF Admission, TypeOK, WatermarkHolds, queueVars
  <2>5. KeyExact' /\ KeyNamesAdded' /\ AcceptedWasAdded' /\ KeyedRefusalWroteNothing'
      BY <1>1, <2>1 DEF Admission, KeyExact, KeyNamesAdded, AcceptedWasAdded,
                        KeyedRefusalWroteNothing, Refused, queueVars
  <2>6. RepliesTrue' /\ RefusalsTrue'
      BY <2>1, <2>2, ReplyKinds DEF Admission, TypeOK, RepliesTrue, RefusalsTrue, queueVars
  <2> QED BY <2>4, <2>5, <2>6 DEF Admission
<1>3. CASE ~Repeated(j) /\ FullNow
  <2>1. /\ replies' = [replies EXCEPT ![j] = Full] /\ full' = FullNow
        /\ UNCHANGED <<depth, idem, added>>
      BY <1>3 DEF Send, EnqueueScript
  <2>2. KeyOf[j] # NoKey => added[j] = 0
      BY <1>1, <1>3, BackpressureAssumption DEF Repeated, Admission, TypeOK, KeyExact
  <2>3. full' \in BOOLEAN
      BY <1>3, <2>1
  <2>4. TypeOK' /\ WatermarkHolds'
      BY <1>1, <2>1, <2>3, ReplyKinds DEF Admission, TypeOK, WatermarkHolds
  <2>5. KeyExact' /\ KeyNamesAdded' /\ AcceptedWasAdded' /\ KeyedRefusalWroteNothing'
      BY <1>1, <2>1 DEF Admission, KeyExact, KeyNamesAdded, AcceptedWasAdded,
                        KeyedRefusalWroteNothing, Refused
  <2>6. RepliesTrue' /\ RefusalsTrue'
      BY <2>1, <2>2, ReplyKinds DEF Admission, TypeOK, RepliesTrue, RefusalsTrue
  <2> QED BY <2>4, <2>5, <2>6 DEF Admission
<1>4. CASE ~Repeated(j) /\ ~FullNow
  <2>1. /\ replies' = [replies EXCEPT ![j] = Added(j)]
        /\ idem' = [k \in Key |-> IF k = KeyOf[j] THEN j ELSE idem[k]]
        /\ depth' = depth + 1 /\ added' = [added EXCEPT ![j] = @ + 1] /\ full' = FullNow
      BY <1>4 DEF Send, EnqueueScript
  <2>2. KeyOf[j] # NoKey => idem[KeyOf[j]] = NoJob
      BY <1>4 DEF Repeated
  <2>3. /\ added' \in [Job -> Nat] /\ idem' \in [Key -> Job \cup {NoJob}]
        /\ replies' \in [Job -> Replies] /\ depth' \in Nat
        /\ added'[j] = added[j] + 1 /\ \A i \in Job : i # j => added'[i] = added[i]
        /\ \A i \in Job : added[i] > 0 => added'[i] > 0
      BY <1>1, <2>1, ReplyKinds DEF Admission, TypeOK
  <2>4. TypeOK'
    <3>1. full' = FALSE
        BY <1>4, <2>1
    <3> QED BY <1>1, <2>3, <3>1 DEF Admission, TypeOK
  <2>5. WatermarkHolds'
      BY <1>1, <1>4, <2>1, BackpressureAssumption DEF Admission, TypeOK, WatermarkHolds, FullNow
  <2>6. KeyExact'
    <3>1. ASSUME NEW i \in Job, KeyOf[i] # NoKey
          PROVE  added'[i] = IF idem'[KeyOf[i]] = i THEN 1 ELSE 0
      <4>1. KeyOf[i] \in Key /\ idem[KeyOf[i]] \in Job \cup {NoJob} /\ NoJob \notin Job
          BY <3>1, BackpressureAssumption DEF Admission, TypeOK
      <4>2. added[i] = IF idem[KeyOf[i]] = i THEN 1 ELSE 0
          BY <3>1 DEF Admission, KeyExact
      <4>3. CASE i = j
          BY <4>1, <4>2, <4>3, <3>1, <2>1, <2>2, <2>3
      <4>4. CASE i # j /\ KeyOf[i] = KeyOf[j]
          BY <4>1, <4>2, <4>4, <3>1, <2>1, <2>2, <2>3
      <4>5. CASE i # j /\ KeyOf[i] # KeyOf[j]
          BY <4>1, <4>2, <4>5, <2>1, <2>3
      <4> QED BY <4>3, <4>4, <4>5
    <3> QED BY <3>1 DEF KeyExact
  <2>7. KeyNamesAdded'
      BY <1>1, <2>1, <2>3 DEF Admission, TypeOK, KeyNamesAdded
  <2>8. RepliesTrue'
      BY <1>1, <2>1, <2>3, ReplyKinds DEF Admission, TypeOK, RepliesTrue
  <2>9. AcceptedWasAdded'
      BY <1>1, <2>3 DEF Admission, TypeOK, AcceptedWasAdded
  <2>10. RefusalsTrue'
      BY <1>1, <2>1, <2>3, ReplyKinds DEF Admission, TypeOK, RefusalsTrue
  <2>11. KeyedRefusalWroteNothing'
    <3>1. \A d \in Call : phase[d] = "QueueFull" => j \notin pending[d]
        BY <1>1, OneCall DEF Admission
    <3> QED BY <1>1, <3>1, <2>3 DEF Admission, KeyedRefusalWroteNothing, Refused
  <2> QED BY <2>4, <2>5, <2>6, <2>7, <2>8, <2>9, <2>10, <2>11 DEF Admission
<1> QED BY <1>2, <1>3, <1>4

\* What the client does with the replies adds nothing to the queue; a job it calls refused
\* is one a script refused.
LEMMA CallAdmission ==
    ASSUME Admission, NEW c \in Call,
           StartCall(c) \/ ResendRound(c) \/ LoseConnection(c) \/ Answer(c) \/ Poll(c)
    PROVE  Admission'
<1> USE DEF Admission
<1>1. UNCHANGED <<queueVars, requeued>> /\ lost' \in 0 .. MaxLost
    BY BackpressureAssumption
    DEF StartCall, ResendRound, LoseConnection, Answer, Poll, TypeOK
<1>2. /\ replies' \in [Job -> Replies]
      /\ \A j \in Job : replies'[j] = NoReply \/ replies'[j] = replies[j]
    BY ForgetReplies DEF StartCall, ResendRound, LoseConnection, Answer, Poll, TypeOK
<1>3. KeyExact' /\ KeyNamesAdded' /\ RepliesTrue' /\ RefusalsTrue'
    BY <1>1, <1>2, QuietKeeps DEF Quiet, queueVars
<1>4. phase' \in [Call -> Phase]
    BY DEF StartCall, ResendRound, LoseConnection, Answer, Poll, TypeOK, Phase
<1>5. WatermarkHolds'
    BY <1>1 DEF WatermarkHolds, queueVars
<1>6. CASE Answer(c)
  <2> DEFINE refused == {j \in pending[c] : replies[j] = Full}
  <2>1. /\ accepted' = [j \in Job |-> IF j \in pending[c] \ refused THEN replies[j].id ELSE accepted[j]]
        /\ pending' = [pending EXCEPT ![c] = refused]
        /\ \A d \in Call : d # c => phase'[d] = phase[d]
        /\ \A j \in pending[c] : replies[j] # NoReply
      BY <1>6 DEF Answer, TypeOK
  <2>2. pending[c] \subseteq Job
      BY DEF TypeOK
  <2>3. ASSUME NEW j \in Job, j \in pending[c] \ refused
        PROVE  replies[j].id \in Job /\ added[replies[j].id] > 0
      BY <2>1, <2>3, ReplyKinds, BackpressureAssumption DEF TypeOK, RepliesTrue
  <2>4. TypeOK'
    <3>1. accepted' \in [Job -> Job \cup {NoJob}]
        BY <2>1, <2>3 DEF TypeOK
    <3>2. pending' \in [Call -> SUBSET Job] /\ \A d \in Call : pending'[d] \subseteq Batch[d]
        BY <2>1, <2>2 DEF TypeOK
    <3> QED BY <1>1, <1>2, <1>4, <3>1, <3>2 DEF TypeOK, queueVars
  <2>5. AcceptedWasAdded'
      BY <1>1, <2>1, <2>3 DEF AcceptedWasAdded, TypeOK, queueVars
  <2>6. KeyedRefusalWroteNothing'
      BY <1>1, <2>1 DEF KeyedRefusalWroteNothing, Refused, RefusalsTrue, TypeOK, queueVars
  <2> QED BY <1>3, <1>5, <2>4, <2>5, <2>6
<1>7. CASE ~Answer(c)
  <2>1. UNCHANGED accepted
      BY <1>7 DEF StartCall, ResendRound, LoseConnection, Poll
  <2>2. /\ pending' \in [Call -> SUBSET Job]
        /\ \A d \in Call : pending'[d] \subseteq Batch[d]
      BY <1>7, BackpressureAssumption DEF StartCall, ResendRound, LoseConnection, Poll, TypeOK
  <2>3. \A d \in Call : phase'[d] = "QueueFull" => phase[d] = "QueueFull" /\ pending'[d] = pending[d]
      BY <1>7 DEF StartCall, ResendRound, LoseConnection, Poll, TypeOK
  <2>4. TypeOK'
      BY <1>1, <1>2, <1>4, <2>1, <2>2 DEF TypeOK, queueVars
  <2>5. AcceptedWasAdded'
      BY <1>1, <2>1 DEF AcceptedWasAdded, queueVars
  <2>6. KeyedRefusalWroteNothing'
      BY <1>1, <2>3 DEF KeyedRefusalWroteNothing, Refused, queueVars
  <2> QED BY <1>3, <1>5, <2>4, <2>5, <2>6
<1> QED BY <1>6, <1>7

\* Workers and operators change the depth only.
LEMMA DepthAdmission ==
    ASSUME Admission, Leave \/ Requeue
    PROVE  Admission'
<1>1. TypeOK' /\ WatermarkHolds'
    BY BackpressureAssumption DEF Admission, TypeOK, WatermarkHolds, Leave, Requeue, callVars
<1>2. UNCHANGED <<idem, added, phase, pending, replies, accepted>>
    BY DEF Leave, Requeue, callVars
<1> QED BY <1>1, <1>2 DEF Admission, KeyExact, KeyNamesAdded, RepliesTrue, AcceptedWasAdded,
                         RefusalsTrue, KeyedRefusalWroteNothing, Refused

\* Every step keeps the invariant.
LEMMA NextAdmission == Admission /\ [Next]_vars => Admission'
<1> SUFFICES ASSUME Admission, [Next]_vars PROVE Admission'
    OBVIOUS
<1>1. CASE Leave \/ Requeue
    BY <1>1, DepthAdmission
<1>2. ASSUME NEW c \in Call, CallStep(c)
      PROVE  Admission'
    BY <1>2, SendAdmission, CallAdmission DEF CallStep
<1>3. CASE UNCHANGED vars
    BY <1>3 DEF Admission, TypeOK, WatermarkHolds, KeyExact, KeyNamesAdded, RepliesTrue,
                AcceptedWasAdded, RefusalsTrue, KeyedRefusalWroteNothing, Refused,
                vars, queueVars, callVars
<1> QED BY <1>1, <1>2, <1>3 DEF Next

-----------------------------------------------------------------------------
(* Theorems *)

\* What enqueue.lua and Client.enqueue_many keep between them: types, watermark, keys,
\* replies, acceptances and refusals.
THEOREM AdmissionHolds == Spec => []Admission
<1> QED BY InitAdmission, NextAdmission, PTL DEF Spec

\* Every variable keeps its type, and a call only asks for jobs of its own batch.
THEOREM AdmissionTypes == Spec => []TypeOK
<1>1. Admission => TypeOK
    BY DEF Admission
<1> QED BY <1>1, AdmissionHolds, PTL

\* However many producers race, enqueues stop at the high watermark (enqueue.lua decides
\* and appends in one script).
THEOREM WatermarkNeverPassed == Spec => []WatermarkHolds
<1>1. Admission => WatermarkHolds
    BY DEF Admission
<1> QED BY <1>1, AdmissionHolds, PTL

\* An id that enqueue returned is that of a job on the queue, also when it was answered
\* from an idempotency key.
THEOREM AcceptanceIsTrue == Spec => []AcceptedWasAdded
<1>1. Admission => AcceptedWasAdded
    BY DEF Admission
<1> QED BY <1>1, AdmissionHolds, PTL

\* One entry per idempotency key, however often an enqueue is re-sent.
THEOREM KeysAreExact == Spec => []KeyExact
<1>1. Admission => KeyExact
    BY DEF Admission
<1> QED BY <1>1, AdmissionHolds, PTL

\* QueueFull is the truth about a job with an idempotency key.
THEOREM KeyedRefusalsAreTrue == Spec => []KeyedRefusalWroteNothing
<1>1. Admission => KeyedRefusalWroteNothing
    BY DEF Admission
<1> QED BY <1>1, AdmissionHolds, PTL

\* With a low watermark above 0, no step refuses a job while the queue is empty: the full
\* flag is judged again by the script that reads it.
THEOREM EmptyQueueAlwaysAdmits ==
    ASSUME Low # 0
    PROVE  Spec => EmptyQueueAdmits
<1>1. ASSUME Admission, [Next]_vars
      PROVE  [\A j \in Job : depth = 0 /\ replies[j] = NoReply => replies'[j] # Full]_vars
  <2> SUFFICES ASSUME Next, NEW j \in Job, depth = 0, replies[j] = NoReply
               PROVE  replies'[j] # Full
      BY <1>1
  <2>1. CASE Leave \/ Requeue
      BY <2>1, ReplyKinds DEF Leave, Requeue, callVars
  <2>2. ASSUME NEW c \in Call, StartCall(c) \/ ResendRound(c) \/ LoseConnection(c) \/ Answer(c) \/ Poll(c)
        PROVE  replies'[j] # Full
      BY <1>1, <2>2, ForgetReplies, ReplyKinds
      DEF Admission, StartCall, ResendRound, LoseConnection, Answer, Poll
  <2>3. ASSUME NEW c \in Call, NEW i \in Batch[c], Send(c, i)
        PROVE  replies'[j] # Full
    <3>1. ~FullNow
        BY BackpressureAssumption DEF FullNow
    <3>2. Repeated(i) => KeyOf[i] \in Key /\ idem[KeyOf[i]] \in Job
        BY <1>1, BackpressureAssumption DEF Repeated, Admission, TypeOK
    <3> QED BY <1>1, <2>3, <3>1, <3>2, ReplyKinds, BackpressureAssumption
            DEF Send, EnqueueScript, Admission, TypeOK
  <2> QED BY <2>1, <2>2, <2>3 DEF Next, CallStep
<1> QED BY <1>1, AdmissionHolds, PTL DEF Spec, EmptyQueueAdmits
=============================================================================
