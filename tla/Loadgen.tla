------------------------------ MODULE Loadgen ------------------------------
(***************************************************************************)
(* A load test on several hosts (bench/loadgen.py): one coordinates and    *)
(* measures, the others only produce.  They meet through four keys of      *)
(* Redis, whose client sends a command again when its reply is lost.       *)
(* The coordinator's verdict says whether every accepted job has exactly   *)
(* one result.                                                             *)
(***************************************************************************)
EXTENDS Naturals, Sequences, FiniteSets, Functions

CONSTANTS
    Host,           \* the producer-only hosts
    Coordinator,
    LoadJob,            \* the jobs offered
    HostOf,         \* of each job: the host that offers it
    MaxHostCrashes,     \* bound: hosts that die
    MaxLost         \* bound: replies lost

ASSUME LoadgenAssumption ==
    /\ Coordinator \notin Host /\ HostOf \in [LoadJob -> Host \union {Coordinator}]
    /\ IsFiniteSet(Host) /\ IsFiniteSet(LoadJob)
    /\ MaxHostCrashes \in Nat /\ MaxLost \in Nat

VARIABLES
    spec,       \* key spec is set
    ready,      \* list ready
    start,      \* key start is set
    produced,   \* list produced: host and accepted count of each summary
    at,         \* where each host is
    loadJob,        \* of each job: where it is
    seen,       \* the coordinator's copy of produced
    empty,      \* it has read XLEN of the stream as 0
    drained, reported, ok,
    hostCrashes, lost

keyVars == <<spec, ready, start, produced>>
runVars == <<seen, empty, drained, reported, ok>>
envVars == <<hostCrashes, lost>>
loadgenVars == <<keyVars, at, loadJob, runVars, envVars>>

Hosts == Host \union {Coordinator}
JobsOf(h) == {j \in LoadJob : HostOf[j] = h}
Accepted(h) == {j \in JobsOf(h) : loadJob[j] \notin {"new", "refused"}}
Summary == [host : Host, accepted : 0 .. Cardinality(LoadJob)]

\* The types; the run that has reported is over.
LoadgenTypeOK ==
    /\ {spec, start, empty, drained, ok} \subseteq BOOLEAN
    /\ ready \in Seq(Host) /\ produced \in Seq(Summary) /\ seen \in Seq(Summary)
    /\ at \in [Hosts -> {"begin", "warm", "waiting", "producing", "reporting", "draining",
                         "ended", "failed"}]
    /\ loadJob \in [LoadJob -> {"new", "refused", "stream", "delayed", "dead", "done"}]
    /\ reported \in BOOLEAN /\ hostCrashes \in 0 .. MaxHostCrashes /\ lost \in 0 .. MaxLost
    /\ reported => at[Coordinator] = "ended"

LoadgenInit ==
    /\ spec = FALSE /\ ready = <<>> /\ start = FALSE /\ produced = <<>>
    /\ at = [h \in Hosts |-> "begin"]
    /\ loadJob = [j \in LoadJob |-> "new"]
    /\ seen = <<>> /\ empty = FALSE /\ drained = FALSE /\ reported = FALSE /\ ok = FALSE
    /\ hostCrashes = 0 /\ lost = 0

Go(h, place) == at' = [at EXCEPT ![h] = place]

\* A command whose reply is lost is sent, and carried out, once more.
Sent(n) ==
    \/ n = 1 /\ UNCHANGED lost
    \/ n = 2 /\ lost < MaxLost /\ lost' = lost + 1

\* RPUSH, n times
Pushed(list, x, n) == list \o [i \in 1 .. n |-> x]

-----------------------------------------------------------------------------
(* The queue and its workers *)

Complete(j) ==
    /\ loadJob[j] = "stream"
    /\ loadJob' = [loadJob EXCEPT ![j] = "done"]
    /\ UNCHANGED <<keyVars, at, runVars, envVars>>

Retry(j) ==
    /\ loadJob[j] = "stream"
    /\ loadJob' = [loadJob EXCEPT ![j] = "delayed"]
    /\ UNCHANGED <<keyVars, at, runVars, envVars>>

Reschedule(j) ==
    /\ loadJob[j] = "delayed"
    /\ loadJob' = [loadJob EXCEPT ![j] = "stream"]
    /\ UNCHANGED <<keyVars, at, runVars, envVars>>

Dead(j) ==
    /\ loadJob[j] = "stream"
    /\ loadJob' = [loadJob EXCEPT ![j] = "dead"]
    /\ UNCHANGED <<keyVars, at, runVars, envVars>>

-----------------------------------------------------------------------------
(* Every host *)

\* _produce: offer the next job; a full queue may refuse it.
Offer(j) ==
    /\ at[HostOf[j]] = "producing" /\ loadJob[j] = "new"
    /\ \E to \in {"stream", "refused"} : loadJob' = [loadJob EXCEPT ![j] = to]
    /\ UNCHANGED <<keyVars, at, runVars, envVars>>

\* The spec's duration is over; what was not offered by then is not.
Produced(h) ==
    /\ at[h] = "producing" /\ Go(h, "reporting")
    /\ UNCHANGED <<keyVars, loadJob, runVars, envVars>>

-----------------------------------------------------------------------------
(* A producer-only host: produce_only *)

\* The spec is there: warm the pool.
TakeSpec(h) ==
    /\ at[h] = "begin" /\ spec
    /\ Go(h, "warm")
    /\ UNCHANGED <<keyVars, loadJob, runVars, envVars>>

Ready(h) ==
    /\ at[h] = "warm" /\ Go(h, "waiting")
    /\ \E n \in 1 .. 2 : Sent(n) /\ ready' = Pushed(ready, h, n)
    /\ UNCHANGED <<spec, start, produced, loadJob, runVars, hostCrashes>>

SeeStart(h) ==
    /\ at[h] = "waiting" /\ start
    /\ Go(h, "producing")
    /\ UNCHANGED <<keyVars, loadJob, runVars, envVars>>

Report(h) ==
    /\ at[h] = "reporting" /\ Go(h, "ended")
    /\ \E n \in 1 .. 2 :
         /\ Sent(n)
         /\ produced' = Pushed(produced, [host |-> h, accepted |-> Cardinality(Accepted(h))], n)
    /\ UNCHANGED <<spec, ready, start, loadJob, runVars, hostCrashes>>

\* The host dies, or waited host_timeout for the spec or the start.
Fail(h) ==
    /\ at[h] # "ended" /\ at[h] # "failed" /\ hostCrashes < MaxHostCrashes
    /\ hostCrashes' = hostCrashes + 1 /\ Go(h, "failed")
    /\ UNCHANGED <<keyVars, loadJob, runVars, lost>>

HostTimeout(h) ==
    /\ at[h] \in {"begin", "waiting"} /\ at[Coordinator] = "failed"
    /\ Go(h, "failed")
    /\ UNCHANGED <<keyVars, loadJob, runVars, envVars>>

-----------------------------------------------------------------------------
(* The coordinator: run *)

\* SET NX.  Sent twice, the second time it finds its own key and the run is refused.
PublishSpec ==
    /\ at[Coordinator] = "begin" /\ spec' = TRUE
    /\ \E n \in 1 .. 2 : Sent(n) /\ Go(Coordinator, IF n = 1 THEN "warm" ELSE "failed")
    /\ UNCHANGED <<ready, start, produced, loadJob, runVars, hostCrashes>>

AllReady == Len(ready) >= Cardinality(Host)

\* SET start: sent twice it is the same.
PublishStart ==
    /\ at[Coordinator] = "warm" /\ AllReady
    /\ start' = TRUE /\ Go(Coordinator, "producing")
    /\ UNCHANGED <<spec, ready, produced, loadJob, runVars, envVars>>

\* A host that never shows up stops the run.
ReadyTimeout ==
    /\ at[Coordinator] = "warm" /\ ~AllReady
    /\ Go(Coordinator, "failed")
    /\ UNCHANGED <<keyVars, loadJob, runVars, envVars>>

AllReported == Len(produced) >= Cardinality(Host)

\* Mutant: no time limit.
ReadAllProduced ==
    /\ at[Coordinator] = "reporting" /\ AllReported
    /\ seen' = produced /\ Go(Coordinator, "draining")
    /\ UNCHANGED <<keyVars, loadJob, empty, drained, reported, ok, envVars>>

\* Every summary is there, or host_timeout has passed; what is there is read.
ReadProduced ==
    /\ at[Coordinator] = "reporting"
    /\ AllReported \/ \E h \in Host : at[h] # "ended"
    /\ seen' = produced /\ Go(Coordinator, "draining")
    /\ UNCHANGED <<keyVars, loadJob, empty, drained, reported, ok, envVars>>

\* The drain loop reads XLEN, then ZCARD.
ReadXlen ==
    /\ at[Coordinator] = "draining" /\ ~empty /\ ~drained
    /\ \A j \in LoadJob : loadJob[j] # "stream"
    /\ empty' = TRUE
    /\ UNCHANGED <<keyVars, at, loadJob, seen, drained, reported, ok, envVars>>

ReadZcard ==
    /\ at[Coordinator] = "draining" /\ empty
    /\ drained' = \A j \in LoadJob : loadJob[j] # "delayed"
    /\ empty' = FALSE
    /\ UNCHANGED <<keyVars, at, loadJob, seen, reported, ok, envVars>>

HostsReported == 1 + Len(seen)
TotalAccepted ==
    Cardinality(Accepted(Coordinator)) + SumFunction([i \in DOMAIN seen |-> seen[i].accepted])
Distinct == Cardinality({j \in LoadJob : loadJob[j] = "done"})
DlqLen == Cardinality({j \in LoadJob : loadJob[j] = "dead"})

\* Mutant: a host that did not report is overlooked.
VerdictOfReported == drained /\ TotalAccepted = Distinct /\ DlqLen = 0

\* _report: exactly_once.ok
Verdict ==
    /\ HostsReported = 1 + Cardinality(Host)
    /\ drained /\ TotalAccepted = Distinct /\ DlqLen = 0

\* Drained, or drain_timeout has passed: read the results log and report.
ReportRun ==
    /\ at[Coordinator] = "draining"
    /\ reported' = TRUE /\ ok' = Verdict /\ Go(Coordinator, "ended")
    /\ UNCHANGED <<keyVars, loadJob, seen, empty, drained, envVars>>

WorkerStep == \E j \in LoadJob : Complete(j) \/ Retry(j) \/ Reschedule(j) \/ Dead(j)
HostStep(h) ==
    \/ TakeSpec(h) \/ Ready(h) \/ SeeStart(h) \/ Produced(h) \/ Report(h) \/ HostTimeout(h)
CoordinatorStep ==
    \/ PublishSpec \/ PublishStart \/ ReadyTimeout \/ Produced(Coordinator) \/ ReadProduced
    \/ ReadXlen \/ ReadZcard \/ ReportRun

LoadgenNext ==
    \/ WorkerStep \/ CoordinatorStep \/ \E j \in LoadJob : Offer(j)
    \/ \E h \in Host : HostStep(h) \/ Fail(h)

\* Hosts that live go on; their loops all have a time limit.
LoadgenFairness ==
    WF_loadgenVars(CoordinatorStep) /\ WF_loadgenVars(ReportRun) /\ WF_loadgenVars(\E h \in Host : HostStep(h))

LoadgenSpec == LoadgenInit /\ [][LoadgenNext]_loadgenVars /\ LoadgenFairness

-----------------------------------------------------------------------------
(* Properties *)

\* A run that reports "ok" is one in which every job that any host, dead or alive, got
\* accepted has its result, and every host has told how many those were.  And "nothing is
\* enqueued until every host is warm and waiting".  Both as long as no RPUSH had to be sent
\* again: then one host counts as two.
OkIsTrue ==
    lost = 0 =>
        /\ ok => /\ \A j \in LoadJob : loadJob[j] \in {"new", "refused", "done"}
                 /\ \A h \in Host : \E i \in DOMAIN seen : seen[i].host = h
        /\ (\E j \in LoadJob : loadJob[j] # "new") => \A h \in Host : h \in Range(ready)

\* The coordinator has ended, with a report or an error, and so have the hosts.
LoadTestOver == \A h \in Hosts : at[h] \in {"ended", "failed"}
====
