------------------------------ MODULE DlqSweep ------------------------------
(***************************************************************************)
(* requeue_all (src/ftq/dlq.py): a sweep that pages through the dead       *)
(* letter queue and requeues its jobs one call at a time, while workers    *)
(* kill jobs again, late successes delete entries, another operator        *)
(* requeues, and the client re-sends calls whose reply was lost.           *)
(***************************************************************************)
EXTENDS Naturals, Sequences, FiniteSets, FiniteSetsExt

CONSTANTS
    Job,
    Hollow,     \* jobs whose DLQ entry carries metadata only (dead.lua: the stream
                \* entry had vanished), so that requeue.lua refuses them
    PageSize,   \* _PAGE
    MaxEntry,   \* bound: DLQ entries ever appended
    MaxLost     \* bound: replies lost to the sweep

ASSUME SweepAssumption ==
    /\ IsFiniteSet(Job) /\ Hollow \subseteq Job
    /\ PageSize \in Nat \ {0} /\ MaxEntry \in Nat /\ MaxLost \in Nat

Id == 1..MaxEntry
NoId == 0

VARIABLES
    state,      \* of each job: LIVE, DEAD or SUCCEEDED
    entryOf,    \* of each DEAD job: dead_entry_id, its entry in the DLQ
    lastId,     \* the last id appended to the DLQ
    stage,         \* the sweep: idle, reading, requeueing, returned or raised
    end,        \* the last id of the DLQ when the sweep started
    start,      \* the next page starts after this id
    page,       \* the jobs of the page still to be requeued
    total,      \* what the sweep returns
    atStart,    \* the jobs in the DLQ when the sweep started
    requeued,   \* the jobs the sweep's calls requeued, with how often
    lostReplies        \* replies lost

jobVars == <<state, entryOf, lastId>>
sweepState == <<stage, end, start, page, total, atStart>>
sweepVars == <<jobVars, sweepState, requeued, lostReplies>>

Dead == {j \in Job : state[j] = "DEAD"}

\* The types; the DLQ holds one entry for each DEAD job and no other.
SweepTypeOK ==
    /\ state \in [Job -> {"LIVE", "DEAD", "SUCCEEDED"}]
    /\ entryOf \in [Job -> Id \union {NoId}] /\ lastId \in Id \union {NoId}
    /\ stage \in {"idle", "reading", "requeueing", "returned", "raised"}
    /\ end \in 0..MaxEntry /\ start \in 0..MaxEntry
    /\ page \in Seq(Job) /\ total \in Nat
    /\ atStart \subseteq Job /\ requeued \in [Job -> Nat] /\ lostReplies \in 0..MaxLost
    /\ \A j \in Job : state[j] = "DEAD" <=> entryOf[j] # NoId

SweepInit ==
    /\ state = [j \in Job |-> "LIVE"] /\ entryOf = [j \in Job |-> NoId] /\ lastId = NoId
    /\ stage = "idle" /\ end = 0 /\ start = 0 /\ page = <<>> /\ total = 0
    /\ atStart = {} /\ requeued = [j \in Job |-> 0] /\ lostReplies = 0

-----------------------------------------------------------------------------
(* Workers and the other operator *)

\* dead.lua appends the job's entry at the end of the DLQ.
Die(j) ==
    /\ state[j] = "LIVE" /\ lastId < MaxEntry
    /\ state' = [state EXCEPT ![j] = "DEAD"]
    /\ lastId' = lastId + 1
    /\ entryOf' = [entryOf EXCEPT ![j] = lastId + 1]
    /\ UNCHANGED <<sweepState, requeued, lostReplies>>

\* commit.lua: a (late) success; the job's DLQ entry is deleted with it.
Succeed(j) ==
    /\ state[j] # "SUCCEEDED"
    /\ state' = [state EXCEPT ![j] = "SUCCEEDED"]
    /\ entryOf' = [entryOf EXCEPT ![j] = NoId]
    /\ UNCHANGED <<lastId, sweepState, requeued, lostReplies>>

\* Mutant: the DLQ entry is left behind.
RequeueKeepsEntry(j) ==
    IF state[j] = "DEAD" /\ j \notin Hollow
    THEN state' = [state EXCEPT ![j] = "LIVE"] /\ UNCHANGED <<entryOf, lastId>>
    ELSE UNCHANGED jobVars

\* requeue.lua: only a DEAD job, and only one whose fields are known.
RequeueScript(j) ==
    IF state[j] = "DEAD" /\ j \notin Hollow
    THEN /\ state' = [state EXCEPT ![j] = "LIVE"]
         /\ entryOf' = [entryOf EXCEPT ![j] = NoId]
         /\ UNCHANGED lastId
    ELSE UNCHANGED jobVars

\* Another `ftq dlq requeue`, of one job.
OtherRequeues(j) ==
    /\ state[j] = "DEAD"
    /\ RequeueScript(j)
    /\ UNCHANGED <<sweepState, requeued, lostReplies>>

-----------------------------------------------------------------------------
(* The sweep *)

\* XRANGE: the first n entries with an id in lo..hi, as the sequence of their jobs.
XRange(lo, hi, n) ==
    LET in == {i \in lo..hi : \E j \in Dead : entryOf[j] = i}
        jobAt(i) == CHOOSE j \in Dead : entryOf[j] = i
        nth(k) == CHOOSE i \in in : Cardinality({x \in in : x <= i}) = k
    IN [k \in 1..Min({n, Cardinality(in)}) |-> jobAt(nth(k))]

BeginSweep ==
    /\ stage = "idle" /\ Dead # {}
    /\ end' = Max({entryOf[j] : j \in Dead})
    /\ atStart' = Dead
    /\ start' = 0 /\ total' = 0 /\ page' = <<>>
    /\ stage' = "reading"
    /\ UNCHANGED <<jobVars, requeued, lostReplies>>

\* Mutant: the next page starts a page's length further on.
ReadPageByCount ==
    /\ stage = "reading"
    /\ LET got == XRange(start + 1, end, PageSize) IN
       /\ page' = got
       /\ IF got = <<>> THEN stage' = "returned" /\ UNCHANGED start
          ELSE stage' = "requeueing" /\ start' = Min({MaxEntry, start + PageSize + 1})
    /\ UNCHANGED <<jobVars, end, total, atStart, requeued, lostReplies>>

\* The next page, or the end of the sweep.  The start moves past the page's last entry
\* whatever becomes of its jobs.
ReadPage ==
    /\ stage = "reading"
    /\ LET got == XRange(start + 1, end, PageSize) IN
       /\ page' = got
       /\ IF got = <<>> THEN stage' = "returned" /\ UNCHANGED start
          ELSE stage' = "requeueing" /\ start' = entryOf[got[Len(got)]]
    /\ UNCHANGED <<jobVars, end, total, atStart, requeued, lostReplies>>

\* One requeue of the page.  Its reply may be lost after the script ran: the client
\* library sends the call again.  An error reply ends the sweep with an exception.
RequeueNext(received) ==
    /\ stage = "requeueing"
    /\ LET j == Head(page)
           ok == state[j] = "DEAD" /\ j \notin Hollow
       IN
       /\ RequeueScript(j)
       /\ requeued' = [requeued EXCEPT ![j] = IF ok THEN @ + 1 ELSE @]
       /\ IF received
          THEN /\ total' = IF ok THEN total + 1 ELSE total
               /\ page' = Tail(page)
               /\ stage' = CASE state[j] = "DEAD" /\ j \in Hollow -> "raised"
                          [] OTHER -> IF Len(page) = 1 THEN "reading" ELSE "requeueing"
               /\ UNCHANGED lostReplies
          ELSE lostReplies < MaxLost /\ lostReplies' = lostReplies + 1 /\ UNCHANGED <<total, page, stage>>
    /\ UNCHANGED <<end, start, atStart>>

Sweep == BeginSweep \/ ReadPage \/ RequeueNext(TRUE) \/ RequeueNext(FALSE)

SweepNext == Sweep \/ \E j \in Job : Die(j) \/ Succeed(j) \/ OtherRequeues(j)

\* The operator's command keeps going.
SweepFairness == WF_sweepVars(ReadPage) /\ WF_sweepVars(RequeueNext(TRUE))

SweepSpec == SweepInit /\ [][SweepNext]_sweepVars /\ SweepFairness

-----------------------------------------------------------------------------
(* Properties *)

\* A sweep that returns has emptied the part of the DLQ it started with, whatever
\* workers and operators did to it meanwhile; it requeues only jobs that were there when it
\* started, and not again one that dies again, unless a lost reply made the client send twice.
SweepExact ==
    /\ stage = "returned" => \A j \in Dead : entryOf[j] > end
    /\ \A j \in Job : /\ requeued[j] > 0 => j \in atStart
                      /\ requeued[j] <= 1 + lostReplies

\* The sweep has ended, although requeued jobs keep dying behind it; or nobody asked for one.
SweepOver == stage \in {"idle", "returned", "raised"}

====
