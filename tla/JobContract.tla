---------------------------- MODULE JobContract -----------------------------
(***************************************************************************)
(* What ftq promises about a job, with no queue in it: an accepted job     *)
(* ends SUCCEEDED or DEAD; SUCCEEDED is final; a DEAD job may still        *)
(* succeed late or be requeued by an operator; a result is recorded once,  *)
(* and the job's effect happens at most once and before its success.       *)
(***************************************************************************)
EXTENDS Naturals

CONSTANT Job

VARIABLES
    state,    \* of each job
    results,  \* results recorded for each job
    effects   \* effects performed for each job

vars == <<state, results, effects>>

State == {"UNKNOWN", "ACCEPTED", "SUCCEEDED", "DEAD"}

Init ==
    /\ state = [j \in Job |-> "UNKNOWN"]
    /\ results = [j \in Job |-> 0]
    /\ effects = [j \in Job |-> 0]

\* The producer's enqueue returns.
Accept(j) ==
    /\ state[j] = "UNKNOWN"
    /\ state' = [state EXCEPT ![j] = "ACCEPTED"]
    /\ UNCHANGED <<results, effects>>

\* A run performs the effect, the first time; it may belong to a job that is already
\* DEAD, never to one that has succeeded.
Perform(j) ==
    /\ state[j] \in {"ACCEPTED", "DEAD"}
    /\ effects[j] = 0
    /\ effects' = [effects EXCEPT ![j] = 1]
    /\ UNCHANGED <<state, results>>

Record(j) ==
    /\ effects[j] = 1
    /\ state' = [state EXCEPT ![j] = "SUCCEEDED"]
    /\ results' = [results EXCEPT ![j] = @ + 1]
    /\ UNCHANGED effects

Succeed(j) == state[j] = "ACCEPTED" /\ Record(j)

\* A holder that was slower than the dead-lettering finishes after all.
SucceedLate(j) == state[j] = "DEAD" /\ Record(j)

Die(j) ==
    /\ state[j] = "ACCEPTED"
    /\ state' = [state EXCEPT ![j] = "DEAD"]
    /\ UNCHANGED <<results, effects>>

Requeue(j) ==
    /\ state[j] = "DEAD"
    /\ state' = [state EXCEPT ![j] = "ACCEPTED"]
    /\ UNCHANGED <<results, effects>>

Next ==
    \E j \in Job :
        Accept(j) \/ Perform(j) \/ Succeed(j) \/ SucceedLate(j) \/ Die(j) \/ Requeue(j)

Spec == Init /\ [][Next]_vars

\* An accepted job does not stay so.
FairSpec == Spec /\ \A j \in Job : WF_vars(Succeed(j) \/ Die(j))
====
