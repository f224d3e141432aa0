---------------------------- MODULE Backpressure ----------------------------
(***************************************************************************)
(* Admission to the queue: enqueue.lua with its watermarks, full flag and  *)
(* idempotency keys, and the producer's side of it, Client.enqueue_many in *)
(* reject or block mode over a connection that loses replies.              *)
(*                                                                         *)
(* Of the queue itself only the depth is kept (XLEN + ZCARD delayed); what *)
(* else changes it is an environment action.  A call is one invocation of  *)
(* enqueue_many (enqueue is a call with one job); calls of all producers   *)
(* run concurrently.  Idempotency keys outlive the model: the TTL is a     *)
(* day, a re-send takes seconds.                                           *)
(***************************************************************************)
EXTENDS Integers

CONSTANTS
    Call,         \* invocations of enqueue_many
    Job,          \* job ids generated for them
    Batch,        \* [Call -> SUBSET Job]: the jobs of each call
    Key,          \* idempotency keys
    KeyOf,        \* [Job -> Key \cup {NoKey}]
    High,         \* Settings.high_watermark
    Low,          \* Settings.low_watermark
    BlockMode,    \* Settings.backpressure_mode = "block"
    MaxLost,      \* bound: lost replies
    MaxRequeues,  \* bound: dlq requeues, which bypass admission
    NoKey, NoJob

ASSUME BackpressureAssumption ==
    /\ Batch \in [Call -> SUBSET Job]
    /\ \A c, d \in Call : c # d => Batch[c] \cap Batch[d] = {}
    /\ KeyOf \in [Job -> Key \cup {NoKey}]
    /\ NoKey \notin Key /\ NoJob \notin Job
    /\ BlockMode \in BOOLEAN
    /\ High \in Nat \ {0} /\ Low \in Nat /\ Low < High
    /\ MaxLost \in Nat /\ MaxRequeues \in Nat

VARIABLES
    depth,     \* XLEN(stream) + ZCARD(delayed)
    full,      \* the full flag exists
    idem,      \* idem keys: the job id each maps to, or NoJob
    added,     \* entries ever added for each job
    requeued,  \* dlq requeues so far
    phase,     \* where each call is
    pending,   \* jobs of each call not accepted yet
    replies,   \* the current round's replies by job, NoReply if not sent yet
    accepted,  \* for each job: the id its call was told, or NoJob
    lost       \* replies lost so far

queueVars == <<depth, full, idem, added>>
callVars  == <<phase, pending, replies, accepted>>
vars == <<queueVars, requeued, callVars, lost>>

NoReply == [id |-> NoJob, status |-> "NONE"]
Full == [id |-> NoJob, status |-> "FULL"]
Added(j) == [id |-> j, status |-> "ADDED"]
Duplicate(j) == [id |-> j, status |-> "DUPLICATE"]
Replies == {NoReply, Full} \cup {Added(j) : j \in Job} \cup {Duplicate(j) : j \in Job}

Phase == {"new", "sending", "sleeping", "returned", "QueueFull", "ConnectionError"}

Init ==
    /\ depth = 0 /\ full = FALSE
    /\ idem = [k \in Key |-> NoJob]
    /\ added = [j \in Job |-> 0]
    /\ requeued = 0 /\ lost = 0
    /\ phase = [c \in Call |-> "new"]
    /\ pending = [c \in Call |-> {}]
    /\ replies = [j \in Job |-> NoReply]
    /\ accepted = [j \in Job |-> NoJob]

-----------------------------------------------------------------------------
\* Mutant: admits one too many.
FullNowLate == IF full THEN depth >= Low ELSE depth > High

\* Mutant: the flag is never deleted.
FullNowForEver == full \/ depth >= High

\* The full flag as the script leaves it: between the watermarks it keeps its value.
FullNow == IF full THEN depth >= Low ELSE depth >= High

\* enqueue.lua, step 1: the key already names an accepted job.
Repeated(j) == KeyOf[j] # NoKey /\ idem[KeyOf[j]] # NoJob

\* Mutant: the key is claimed before admission.
EnqueueClaimsFirst(j) ==
    IF Repeated(j)
    THEN /\ replies' = [replies EXCEPT ![j] = Duplicate(idem[KeyOf[j]])]
         /\ UNCHANGED queueVars
    ELSE /\ full' = FullNow
         /\ idem' = [k \in Key |-> IF k = KeyOf[j] THEN j ELSE idem[k]]
         /\ IF FullNow
            THEN /\ replies' = [replies EXCEPT ![j] = Full]
                 /\ UNCHANGED <<depth, added>>
            ELSE /\ depth' = depth + 1
                 /\ added' = [added EXCEPT ![j] = @ + 1]
                 /\ replies' = [replies EXCEPT ![j] = Added(j)]

\* Mutant: the wrong argument is stored under the key.
EnqueueStoresArgv(j) ==
    /\ ~Repeated(j)
    /\ full' = FullNow
    /\ IF FullNow
       THEN /\ replies' = [replies EXCEPT ![j] = Full]
            /\ UNCHANGED <<depth, idem, added>>
       ELSE /\ idem' = [k \in Key |-> IF k = KeyOf[j] THEN Low ELSE idem[k]]
            /\ depth' = depth + 1
            /\ added' = [added EXCEPT ![j] = @ + 1]
            /\ replies' = [replies EXCEPT ![j] = Added(j)]

\* Mutant: no key is ever claimed.
EnqueueForgetsKey(j) ==
    /\ full' = FullNow
    /\ UNCHANGED idem
    /\ IF FullNow
       THEN /\ replies' = [replies EXCEPT ![j] = Full]
            /\ UNCHANGED <<depth, added>>
       ELSE /\ depth' = depth + 1
            /\ added' = [added EXCEPT ![j] = @ + 1]
            /\ replies' = [replies EXCEPT ![j] = Added(j)]

\* Mutant: admission is decided before the key is looked up.
EnqueueRefusesRepeats(j) ==
    /\ full' = FullNow
    /\ IF FullNow
       THEN /\ replies' = [replies EXCEPT ![j] = Full]
            /\ UNCHANGED <<depth, idem, added>>
       ELSE IF Repeated(j)
       THEN /\ replies' = [replies EXCEPT ![j] = Duplicate(idem[KeyOf[j]])]
            /\ UNCHANGED <<depth, idem, added>>
       ELSE /\ idem' = [k \in Key |-> IF k = KeyOf[j] THEN j ELSE idem[k]]
            /\ depth' = depth + 1
            /\ added' = [added EXCEPT ![j] = @ + 1]
            /\ replies' = [replies EXCEPT ![j] = Added(j)]

\* enqueue.lua for job j: answer a repeat, refuse when full, or claim the key and append.
EnqueueScript(j) ==
    IF Repeated(j)
    THEN /\ replies' = [replies EXCEPT ![j] = Duplicate(idem[KeyOf[j]])]
         /\ UNCHANGED queueVars
    ELSE /\ full' = FullNow
         /\ IF FullNow
            THEN /\ replies' = [replies EXCEPT ![j] = Full]
                 /\ UNCHANGED <<depth, idem, added>>
            ELSE /\ idem' = [k \in Key |-> IF k = KeyOf[j] THEN j ELSE idem[k]]
                 /\ depth' = depth + 1
                 /\ added' = [added EXCEPT ![j] = @ + 1]
                 /\ replies' = [replies EXCEPT ![j] = Added(j)]

-----------------------------------------------------------------------------
Forget(c) == replies' = [j \in Job |-> IF j \in Batch[c] THEN NoReply ELSE replies[j]]

\* Client.enqueue_many: ids are generated once, every job is pending.
StartCall(c) ==
    /\ phase[c] = "new"
    /\ phase' = [phase EXCEPT ![c] = "sending"]
    /\ pending' = [pending EXCEPT ![c] = Batch[c]]
    /\ UNCHANGED <<queueVars, requeued, replies, accepted, lost>>

\* Client._send: the pipeline runs one script per pending job, with the scripts of
\* other clients between them.
Send(c, j) ==
    /\ phase[c] = "sending"
    /\ j \in pending[c] /\ replies[j] = NoReply
    /\ EnqueueScript(j)
    /\ UNCHANGED <<requeued, phase, pending, accepted, lost>>

\* The round's replies are lost, wholly or from some command on: the client library
\* sends the round again.
ResendRound(c) ==
    /\ phase[c] = "sending" /\ lost < MaxLost
    /\ \E j \in pending[c] : replies[j] # NoReply
    /\ Forget(c)
    /\ lost' = lost + 1
    /\ UNCHANGED <<queueVars, requeued, phase, pending, accepted>>

\* The library's retries are used up: enqueue_many raises the connection error.
LoseConnection(c) ==
    /\ phase[c] = "sending" /\ lost < MaxLost
    /\ phase' = [phase EXCEPT ![c] = "ConnectionError"]
    /\ Forget(c)
    /\ lost' = lost + 1
    /\ UNCHANGED <<queueVars, requeued, pending, accepted>>

\* The round is answered.  Jobs answered with an id are accepted; if some were refused,
\* raise QueueFull in reject mode or once block_timeout has passed, else sleep.
Answer(c) ==
    LET refused == {j \in pending[c] : replies[j] = Full} IN
    /\ phase[c] = "sending"
    /\ \A j \in pending[c] : replies[j] # NoReply
    /\ accepted' = [j \in Job |-> IF j \in pending[c] \ refused THEN replies[j].id ELSE accepted[j]]
    /\ pending' = [pending EXCEPT ![c] = refused]
    /\ \/ refused = {} /\ phase' = [phase EXCEPT ![c] = "returned"]
       \/ refused # {} /\ phase' = [phase EXCEPT ![c] = "QueueFull"]
       \/ refused # {} /\ BlockMode /\ phase' = [phase EXCEPT ![c] = "sleeping"]
    /\ Forget(c)
    /\ UNCHANGED <<queueVars, requeued, lost>>

\* block_poll_interval later: ask again for the refused jobs, with the same ids.
Poll(c) ==
    /\ phase[c] = "sleeping"
    /\ phase' = [phase EXCEPT ![c] = "sending"]
    /\ UNCHANGED <<queueVars, requeued, pending, replies, accepted, lost>>

\* A copy of a job leaves the queue for good (commit.lua, dead.lua, a dropped duplicate).
Leave ==
    /\ depth > 0
    /\ depth' = depth - 1
    /\ UNCHANGED <<full, idem, added, requeued, callVars, lost>>

\* requeue.lua appends without asking for admission.
Requeue ==
    /\ requeued < MaxRequeues
    /\ depth' = depth + 1
    /\ requeued' = requeued + 1
    /\ UNCHANGED <<full, idem, added, callVars, lost>>

CallStep(c) ==
    \/ StartCall(c) \/ ResendRound(c) \/ LoseConnection(c) \/ Answer(c) \/ Poll(c)
    \/ \E j \in Batch[c] : Send(c, j)

Next == Leave \/ Requeue \/ \E c \in Call : CallStep(c)

Spec == Init /\ [][Next]_vars

\* A client keeps going and the workers drain the queue.  A blocked call is not assumed
\* to reach its block_timeout.
Fairness ==
    /\ WF_vars(Leave)
    /\ \A c \in Call :
         /\ WF_vars(StartCall(c))
         /\ WF_vars(Poll(c))
         /\ WF_vars(Answer(c))
         /\ WF_vars(\E j \in Batch[c] : Send(c, j))

FairSpec == Spec /\ Fairness

-----------------------------------------------------------------------------
(* Properties *)

\* Type invariant.
TypeOK ==
    /\ depth \in Nat /\ full \in BOOLEAN
    /\ idem \in [Key -> Job \cup {NoJob}]
    /\ added \in [Job -> Nat]
    /\ requeued \in 0 .. MaxRequeues /\ lost \in 0 .. MaxLost
    /\ phase \in [Call -> Phase]
    /\ pending \in [Call -> SUBSET Job]
    /\ \A c \in Call : pending[c] \subseteq Batch[c]
    /\ replies \in [Job -> Replies]
    /\ accepted \in [Job -> Job \cup {NoJob}]

\* Enqueues never push the depth past the high watermark, however many producers there
\* are; only operator requeues can.
WatermarkHolds == depth <= High + requeued

\* A call told the id of an accepted job is told the truth: that job was put on the
\* queue, even if the answer came from an idempotency key while the queue was full.
AcceptedWasAdded == \A j \in Job : accepted[j] # NoJob => added[accepted[j]] > 0

\* An idempotency key names the one job that was added under it; a refused or re-sent
\* enqueue leaves neither a key without a job nor a second entry.
KeyExact ==
    \A j \in Job : KeyOf[j] # NoKey =>
        added[j] = IF idem[KeyOf[j]] = j THEN 1 ELSE 0

Refused(j) == \E c \in Call : phase[c] = "QueueFull" /\ j \in pending[c]

\* A job refused with QueueFull is not in the queue, if it has an idempotency key.
KeyedRefusalWroteNothing == \A j \in Job : Refused(j) /\ KeyOf[j] # NoKey => added[j] = 0

\* An empty queue refuses nobody: the full flag cannot outlive what filled the queue.
EmptyQueueAdmits ==
    [][\A j \in Job : depth = 0 /\ replies[j] = NoReply => replies'[j] # Full]_vars

\* A blocked producer gets in once the workers have drained the queue below the low
\* watermark, unless it gives up first.
BlockedCallEnds == \A c \in Call : phase[c] = "sleeping" ~> phase[c] \notin {"sleeping", "sending"}

\* client.py:15: "A refused job wrote nothing: it is not in the queue and never will be."
\* (Without an idempotency key, a re-sent enqueue may be refused after its first copy
\* was added.)
RefusalWroteNothing == \A j \in Job : Refused(j) => added[j] = 0
====
