----------------------------- MODULE MCHarness -----------------------------
(***************************************************************************)
(* The chaos and benchmark harness, part by part: how a chaos run is       *)
(* carried out and what its verdict rests on; the load test of several     *)
(* hosts, one of its producers, the figures of its report, and the driver  *)
(* of sessions.  `part` says which of them this behaviour is of; the       *)
(* others are at rest.                                                     *)
(***************************************************************************)
EXTENDS ChaosRun, ChaosVerdict, Loadgen, Pacing, BenchAnalysis, BenchSession

CONSTANTS w1, w2, f1, f2, f3, f4, c, h1, h2, l1, l2

VARIABLE part

\* A worker with two kills and a pause, another with a network fault.
SpreadWorkers == [f \in Fault |-> IF f = f4 THEN w2 ELSE w1]
SpreadKinds ==
    [f \in Fault |-> CASE f \in {f1, f2} -> "kill" [] f = f3 -> "pause" [] f = f4 -> "network"]

\* A job of the coordinator's, one of a producer's, and a host that offers none.
TwoJobs == [j \in LoadJob |-> IF j = l1 THEN c ELSE h1]

\* No calls yet, or 980 of which one was slow: with 20 fast ones more the slow one is the last
\* of a thousand.
OneSlow == {NoCalls, [v \in Latencies |-> CASE v = 1 -> 979 [] v = 2 -> 0 [] v = 3 -> 1]}

-----------------------------------------------------------------------------
(* Parts at rest: none of their fair actions is enabled *)

\* Every fault skipped, everything stopped and the verdict given.
ChaosRest ==
    /\ container = [w \in Worker |-> "exited"] /\ code = [w \in Worker |-> Clean]
    /\ crashes = 0 /\ dockerErrors = 0 /\ held = {} /\ delayed = {} /\ disturbed = {} /\ lapses = {}
    /\ stage = [f \in Fault |-> "skipped"]
    /\ sup = "off" /\ before = {} /\ todo = {} /\ starting = {}
    /\ sample = [w \in Worker |-> "running"]
    /\ restarts = [x \in Code |-> 0]
    /\ stopSup = TRUE /\ enqueueDone = TRUE /\ pc = "reported"

\* Every job was a normal one, and ran once.
VerdictRest ==
    /\ job = [j \in Job |-> [kind |-> "normal", need |-> 0, copy |-> "none",
                             attempt |-> 0, count |-> 0, runs |-> {}, done |-> "SUCCEEDED",
                             dlq |-> <<>>, results |-> 1, effects |-> 1]]
    /\ reclaims = [n \in 2 .. MaxDeliveries + MaxFaults + 1 |-> 0]
    /\ crashCount = 0 /\ late = 0 /\ timeouts = 0 /\ faults = 0

\* Every host has ended.
LoadgenRest ==
    /\ spec = FALSE /\ ready = <<>> /\ start = FALSE /\ produced = <<>>
    /\ at = [h \in Hosts |-> "ended"] /\ loadJob = [j \in LoadJob |-> "new"]
    /\ seen = <<>> /\ empty = FALSE /\ drained = FALSE /\ reported = FALSE /\ ok = FALSE
    /\ hostCrashes = 0 /\ lost = 0

PacingRest ==
    /\ depthLimited = TRUE
    /\ clock = 0 /\ loop = "done" /\ since = 0 /\ now = 0 /\ due = 0 /\ offered = 0
    /\ perSecond = [s \in Seconds |-> [offered |-> 0, accepted |-> 0]]

All == {"run", "verdict", "hosts", "producer", "percentiles"}

\* The figures have no fairness, and a driver that was not started does nothing.
Rest(parts) ==
    /\ "run" \in parts => ChaosRest
    /\ "verdict" \in parts => VerdictRest
    /\ "hosts" \in parts => LoadgenRest
    /\ "producer" \in parts => PacingRest
    /\ "percentiles" \in parts => calls = [p \in Producers |-> NoCalls]
    /\ AnalysisInit /\ SessionInit

-----------------------------------------------------------------------------
Init ==
    \/ part = "run" /\ ChaosInit /\ Rest(All \ {part})
    \/ part = "verdict" /\ VerdictInit /\ Rest(All \ {part})
    \/ part = "hosts" /\ LoadgenInit /\ Rest(All \ {part})
    \/ part = "producer" /\ PacingInit /\ Rest(All \ {part})
    \/ part \in {"percentiles", "cpu", "session"} /\ Rest(All \ {part})

chaosParts == <<chaosVars, verdictVars>>
loadParts == <<loadgenVars, pacingVars>>

Next ==
    /\ \/ part = "run" /\ ChaosNext /\ UNCHANGED <<verdictVars, loadParts, analysisVars, sessionVars>>
       \/ part = "verdict" /\ VerdictNext /\ UNCHANGED <<chaosVars, loadParts, analysisVars, sessionVars>>
       \/ part = "hosts" /\ LoadgenNext /\ UNCHANGED <<chaosParts, pacingVars, analysisVars, sessionVars>>
       \/ part = "producer" /\ PacingNext /\ UNCHANGED <<chaosParts, loadgenVars, analysisVars, sessionVars>>
       \/ part = "percentiles" /\ Producing /\ UNCHANGED <<chaosParts, loadParts, sessionVars>>
       \/ part = "cpu" /\ Sampling /\ UNCHANGED <<chaosParts, loadParts, sessionVars>>
       \/ part = "session" /\ SessionNext /\ UNCHANGED <<chaosParts, loadParts, analysisVars>>
    /\ UNCHANGED part

Spec ==
    /\ Init /\ [][Next]_<<part, chaosParts, loadParts, analysisVars, sessionVars>>
    /\ ChaosFairness /\ VerdictFairness /\ LoadgenFairness /\ PacingFairness /\ SessionFairness

-----------------------------------------------------------------------------
(* Properties of all parts *)

\* Containers, jobs, hosts, a producer's counts and the driver's files are of their types.
HarnessTypeOK ==
    ChaosTypeOK /\ VerdictTypeOK /\ LoadgenTypeOK /\ PacingTypeOK /\ SessionTypeOK

\* A chaos run ends: faults are not retried for ever, and the supervisor, which goes on until
\* it is told, gets some worker up to drain the queue, without help of the drain timeout;
\* and there is an end to every job it enqueued, the hanging and the crashing ones too.
\* A load test ends on every host, whoever dies or waits for whom; a producer stops, even if
\* the stream is never shallow again; and a session of the driver ends.
HarnessEnds == <>[](RunOver /\ AtRest /\ LoadTestOver /\ ProducerOver /\ SessionOver)
====
