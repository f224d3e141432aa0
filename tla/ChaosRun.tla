------------------------------ MODULE ChaosRun ------------------------------
(***************************************************************************)
(* One chaos run (src/chaos): the workers are started behind their         *)
(* proxies; while a producer enqueues, the injector carries out its        *)
(* faults, each as a task of its own, and the supervisor restarts workers  *)
(* that exited by themselves; the orchestrator then heals, drains, stops   *)
(* everything and only then lets the verifier look.  Docker commands take  *)
(* time: a step that awaits one is split where others can run.             *)
(***************************************************************************)
EXTENDS Naturals, FiniteSets

CONSTANTS
    Worker,
    Fault,
    Plans,          \* the plans to try: sets of faults
    WorkerOf,       \* of each fault: its worker
    KindOf,         \* of each fault: "kill", "pause" or "network"
    MaxCrashes,     \* bound: crashes by crashy jobs (exit code 70)
    MaxDockerErrors \* bound: docker commands that fail or time out, whether they took effect or not

ASSUME ChaosAssumption ==
    /\ Plans \subseteq SUBSET Fault /\ WorkerOf \in [Fault -> Worker]
    /\ KindOf \in [Fault -> {"kill", "pause", "network"}]
    /\ MaxCrashes \in Nat /\ MaxDockerErrors \in Nat

VARIABLES
    container,  \* of each worker: running, paused or exited
    code,       \* of each worker: its exit code, if it exited
    crashes,    \* crashes so far
    dockerErrors,   \* docker commands that failed by themselves so far
    disturbed,  \* the workers whose proxy has a toxic or is disabled
    stage,      \* of each fault: where its task is
    delayed,    \* the faults that are late, since an attempt failed
    held,       \* Injector.held_down
    sup,        \* the supervisor: where its loop is
    before,     \* its held_before
    sample,     \* the states worker_states returned
    todo,       \* the workers of this pass still to look at
    starting,   \* the workers it is running `docker start` for (none or one)
    restarts,   \* Supervisor.restarts, by exit code
    stopSup,    \* stop_supervisor is set
    enqueueDone,    \* the producer has enqueued every job
    pc,         \* the orchestrator
    lapses      \* history: the workers whose hold could not hold the supervisor off

dockerVars == <<container, code, crashes>>
supVars == <<sup, before, sample, todo, starting, restarts>>
mainVars == <<stopSup, enqueueDone, pc>>
chaosVars ==
    <<dockerVars, disturbed, stage, delayed, held, supVars, mainVars, lapses, dockerErrors>>

Clean == "0"
CrashyCode == "70"
KilledOnPurpose == "137"
Code == {Clean, CrashyCode, KilledOnPurpose}

Active == {f \in Fault : stage[f] \in {"waiting", "killing", "applied", "restarted"}}

\* The types; the supervisor starts one worker at a time, and none once it is off or failed.
ChaosTypeOK ==
    /\ container \in [Worker -> {"none", "running", "paused", "exited"}]
    /\ disturbed \subseteq Worker /\ enqueueDone \in BOOLEAN
    /\ code \in [Worker -> Code] /\ crashes \in 0..MaxCrashes
    /\ dockerErrors \in 0..MaxDockerErrors
    /\ stage \in [Fault -> {"planned", "waiting", "killing", "applied", "restarted",
                            "executed", "skipped"}]
    /\ delayed \subseteq Fault
    /\ held \subseteq Worker /\ before \subseteq Worker /\ todo \subseteq Worker
    /\ sup \in {"pass", "sampling", "looking", "off", "raised"}
    /\ starting \subseteq Worker /\ Cardinality(starting) <= 1
    /\ starting # {} => sup = "looking"
    /\ sample \in [Worker -> {"running", "paused"} \union Code]
    /\ restarts \in [Code -> Nat] /\ stopSup \in BOOLEAN /\ lapses \subseteq Worker
    /\ pc \in {"proxies", "up", "join", "faults", "drain", "stopping",
               "verify", "reported", "aborted"}

\* A fault that is not in the plan is over from the start.
ChaosInit ==
    /\ container = [w \in Worker |-> "none"] /\ code = [w \in Worker |-> Clean]
    /\ crashes = 0 /\ dockerErrors = 0 /\ held = {} /\ delayed = {} /\ disturbed = {} /\ lapses = {}
    /\ \E plan \in Plans : stage = [f \in Fault |-> IF f \in plan THEN "planned" ELSE "skipped"]
    /\ sup = "off" /\ before = {} /\ todo = {} /\ starting = {}
    /\ sample = [w \in Worker |-> "running"]
    /\ restarts = [c \in Code |-> 0]
    /\ stopSup = FALSE /\ enqueueDone = FALSE /\ pc = "proxies"

-----------------------------------------------------------------------------
(* The workers *)

\* A crashy job takes its worker down; there are jobs until the queue is drained.
Crash(w) ==
    /\ container[w] = "running" /\ crashes < MaxCrashes /\ pc \in {"faults", "drain"}
    /\ container' = [container EXCEPT ![w] = "exited"]
    /\ code' = [code EXCEPT ![w] = CrashyCode]
    /\ crashes' = crashes + 1
    /\ UNCHANGED <<stage, delayed, held, supVars, mainVars, disturbed, lapses, dockerErrors>>

-----------------------------------------------------------------------------
(* The injector: Injector._one, _apply and _heal *)

\* A docker command fails by itself.
DockerErrs == dockerErrors < MaxDockerErrors /\ dockerErrors' = dockerErrors + 1

To(f, st) == stage' = [stage EXCEPT ![f] = st]

\* A kill or a pause that failed is tried again for ten seconds.
TryAgainOrSkip(f) ==
    \/ To(f, "waiting") /\ delayed' = delayed \union {f}
    \/ To(f, "skipped") /\ delayed' = delayed \ {f}

\* The fault's moment comes.  plan leaves every worker time for one fault at a time, so
\* only a fault that had to be retried can still be at it.
Due(f) ==
    /\ pc = "faults" /\ stage[f] = "planned"
    /\ \A g \in Active : WorkerOf[g] = WorkerOf[f] => g \in delayed
    /\ To(f, "waiting")
    /\ UNCHANGED <<dockerVars, delayed, held, supVars, mainVars, disturbed, lapses,
                   dockerErrors>>

\* The kills under way: their workers should be on hold.
Killing == {f \in Fault : KindOf[f] = "kill" /\ stage[f] \in {"killing", "applied", "restarted"}}

\* A kill first puts its worker on hold.  held_down is a set of names: a second kill of the same
\* worker, when the first had to be retried, shares the hold and may release it.
BeginKill(f) ==
    /\ stage[f] = "waiting" /\ KindOf[f] = "kill"
    /\ To(f, "killing")
    /\ held' = held \union {WorkerOf[f]}
    /\ lapses' = IF \E g \in Killing : WorkerOf[g] = WorkerOf[f] THEN lapses \union {WorkerOf[f]}
                 ELSE lapses
    /\ UNCHANGED <<dockerVars, delayed, supVars, mainVars, disturbed, dockerErrors>>

ExitKilled(w) ==
    /\ container' = [container EXCEPT ![w] = "exited"]
    /\ code' = [code EXCEPT ![w] = KilledOnPurpose]

Kill(f) ==
    /\ stage[f] = "killing" /\ container[WorkerOf[f]] # "exited"
    /\ To(f, "applied")
    /\ ExitKilled(WorkerOf[f])
    /\ UNCHANGED <<crashes, delayed, held, supVars, mainVars, disturbed, lapses, dockerErrors>>

\* The worker is down already, or docker fails: the hold is released, the kill tried again or
\* given up.
KillFails(f) ==
    /\ stage[f] = "killing"
    /\ \/ container[WorkerOf[f]] = "exited" /\ UNCHANGED dockerErrors
       \/ DockerErrs
    /\ TryAgainOrSkip(f)
    /\ held' = held \ {WorkerOf[f]}
    /\ UNCHANGED <<dockerVars, supVars, mainVars, disturbed, lapses>>

\* The same when the kill took effect and only `docker kill` failed or timed out: the worker is
\* down without a hold.
KillUnreported(f) ==
    /\ stage[f] = "killing" /\ container[WorkerOf[f]] # "exited" /\ DockerErrs
    /\ TryAgainOrSkip(f)
    /\ ExitKilled(WorkerOf[f])
    /\ held' = held \ {WorkerOf[f]}
    /\ lapses' = lapses \union {WorkerOf[f]}
    /\ UNCHANGED <<crashes, supVars, mainVars, disturbed>>

Pause(f) ==
    /\ stage[f] = "waiting" /\ KindOf[f] = "pause"
    /\ container[WorkerOf[f]] = "running"
    /\ To(f, "applied")
    /\ container' = [container EXCEPT ![WorkerOf[f]] = "paused"]
    /\ UNCHANGED <<code, crashes, delayed, held, supVars, mainVars, disturbed, lapses,
                   dockerErrors>>

PauseFails(f) ==
    /\ stage[f] = "waiting" /\ KindOf[f] = "pause"
    /\ \/ container[WorkerOf[f]] # "running" /\ UNCHANGED dockerErrors
       \/ DockerErrs
    /\ TryAgainOrSkip(f)
    /\ UNCHANGED <<dockerVars, held, supVars, mainVars, disturbed, lapses>>

\* The worker is paused and only `docker pause` failed: heal_all will find it.
PauseUnreported(f) ==
    /\ stage[f] = "waiting" /\ KindOf[f] = "pause"
    /\ container[WorkerOf[f]] = "running" /\ DockerErrs
    /\ TryAgainOrSkip(f)
    /\ container' = [container EXCEPT ![WorkerOf[f]] = "paused"]
    /\ UNCHANGED <<code, crashes, held, supVars, mainVars, disturbed, lapses>>

\* The proxy of the worker is disabled or gets its toxic.
AddToxic(w) == disturbed' = disturbed \union {w}
RemoveToxic(w) == disturbed' = disturbed \ {w}

\* A network fault that fails is not tried again.  The call may have failed, or only its
\* reply: then the fault is skipped and yet there.
Disturb(f) ==
    /\ stage[f] = "waiting" /\ KindOf[f] = "network"
    /\ \/ To(f, "applied") /\ AddToxic(WorkerOf[f])
       \/ To(f, "skipped") /\ AddToxic(WorkerOf[f])
       \/ To(f, "skipped") /\ UNCHANGED disturbed
    /\ UNCHANGED <<dockerVars, delayed, held, supVars, mainVars, lapses, dockerErrors>>

\* `docker start` of a container that is not paused; the exit code is forgotten.
Start(w) ==
    /\ container' = [container EXCEPT ![w] = "running"]
    /\ code' = [code EXCEPT ![w] = Clean]

\* The supervisor has read that w is down by a kill, found it on no hold before that, and
\* is still to look whether it is on hold now.
SeenDown(w) ==
    /\ sup = "looking" /\ w \in todo /\ w \notin before
    /\ sample[w] = KilledOnPurpose

\* The killed worker is started again; a start of a running container does nothing.
HealKill(f) ==
    /\ stage[f] = "applied" /\ KindOf[f] = "kill" /\ container[WorkerOf[f]] # "paused"
    /\ To(f, "restarted")
    /\ Start(WorkerOf[f])
    /\ lapses' = IF SeenDown(WorkerOf[f]) THEN lapses \union {WorkerOf[f]} ELSE lapses
    /\ UNCHANGED <<crashes, delayed, held, supVars, mainVars, disturbed, dockerErrors>>

\* `docker start` of a paused container is an error; an error ends the run.
HealKillFails(f) ==
    /\ stage[f] = "applied" /\ KindOf[f] = "kill"
    /\ \/ container[WorkerOf[f]] = "paused" /\ UNCHANGED dockerErrors
       \/ DockerErrs
    /\ pc' = "aborted"
    /\ UNCHANGED <<dockerVars, stage, delayed, held, supVars, stopSup, enqueueDone, disturbed,
                   lapses>>

\* ... and only then is its hold released.
ReleaseHold(f) ==
    /\ stage[f] = "restarted"
    /\ To(f, "executed") /\ delayed' = delayed \ {f}
    /\ held' = held \ {WorkerOf[f]}
    /\ UNCHANGED <<dockerVars, supVars, mainVars, disturbed, lapses, dockerErrors>>

\* A pause ends.  `docker unpause` of a container that is not paused is an error.
HealPause(f) ==
    /\ stage[f] = "applied" /\ KindOf[f] = "pause"
    /\ To(f, "executed") /\ delayed' = delayed \ {f}
    /\ \/ /\ container[WorkerOf[f]] = "paused"
          /\ container' = [container EXCEPT ![WorkerOf[f]] = "running"]
          /\ UNCHANGED <<pc, dockerErrors>>
       \/ /\ \/ container[WorkerOf[f]] # "paused" /\ UNCHANGED dockerErrors
             \/ DockerErrs
          /\ pc' = "aborted" /\ UNCHANGED container
    /\ UNCHANGED <<code, crashes, disturbed, held, supVars, stopSup, enqueueDone, lapses>>

\* The toxic is removed, or the proxy enabled again; an error of its API ends the run.
HealNetwork(f) ==
    /\ stage[f] = "applied" /\ KindOf[f] = "network"
    /\ To(f, "executed")
    /\ \/ RemoveToxic(WorkerOf[f]) /\ UNCHANGED pc
       \/ pc' = "aborted" /\ UNCHANGED disturbed
    /\ UNCHANGED <<dockerVars, delayed, held, supVars, stopSup, enqueueDone, lapses,
                   dockerErrors>>

-----------------------------------------------------------------------------
(* The supervisor *)

SupervisorPass ==
    /\ sup = "pass"
    /\ IF stopSup THEN sup' = "off" /\ UNCHANGED before
       ELSE sup' = "sampling" /\ before' = held
    /\ UNCHANGED <<dockerVars, stage, delayed, held, sample, todo, starting, restarts,
                   mainVars, disturbed, lapses, dockerErrors>>

\* Stack.worker_states: `docker ps -a`.
WorkerStates ==
    /\ sup = "sampling"
    /\ sample' = [w \in Worker |-> IF container[w] = "exited" THEN code[w] ELSE container[w]]
    /\ todo' = Worker /\ sup' = "looking"
    /\ UNCHANGED <<dockerVars, stage, delayed, held, before, starting, restarts, mainVars,
                   disturbed, lapses, dockerErrors>>

\* An error of `docker ps` ends the supervisor.
WorkerStatesFails ==
    /\ sup = "sampling" /\ DockerErrs
    /\ sup' = "raised"
    /\ UNCHANGED <<dockerVars, stage, delayed, held, before, sample, todo, starting, restarts,
                   mainVars, disturbed, lapses>>

\* Mutant: the hold is only checked before the states are read.
HeldBeforeOnly(w) == w \in before

\* The worker is on hold, or was before the states were read.
Held(w) == w \in before \/ w \in held

Look(w) ==
    /\ sup = "looking" /\ starting = {} /\ w \in todo
    /\ todo' = todo \ {w}
    /\ starting' = IF sample[w] \in Code /\ ~Held(w) THEN {w} ELSE {}
    /\ UNCHANGED <<dockerVars, stage, delayed, held, sup, before, sample, restarts, mainVars,
                   disturbed, lapses, dockerErrors>>

\* `docker start` returns; the restart is counted under the exit code sampled.
Restart(w) ==
    /\ sup = "looking" /\ w \in starting /\ container[w] # "paused"
    /\ starting' = {}
    /\ Start(w)
    /\ restarts' = [restarts EXCEPT ![sample[w]] = @ + 1]
    /\ UNCHANGED <<crashes, stage, delayed, held, sup, before, sample, todo, mainVars,
                   disturbed, lapses, dockerErrors>>

\* Starting a paused container is an error; an error ends the supervisor.
RestartFails(w) ==
    /\ sup = "looking" /\ w \in starting
    /\ \/ container[w] = "paused" /\ UNCHANGED dockerErrors
       \/ DockerErrs
    /\ starting' = {} /\ sup' = "raised"
    /\ UNCHANGED <<dockerVars, stage, delayed, held, before, sample, todo, restarts, mainVars,
                   disturbed, lapses>>

\* The next pass reads anew.
EndPass ==
    /\ sup = "looking" /\ todo = {} /\ starting = {}
    /\ sup' = "pass" /\ before' = {} /\ sample' = [w \in Worker |-> "running"]
    /\ UNCHANGED <<dockerVars, stage, delayed, held, todo, starting, restarts, mainVars,
                   disturbed, lapses, dockerErrors>>

-----------------------------------------------------------------------------
(* The orchestrator: Run.main *)

\* Waiting ran out, or a call failed.
StartFails ==
    /\ pc \in {"proxies", "up", "join"}
    /\ pc' = "aborted"
    /\ UNCHANGED <<dockerVars, disturbed, stage, delayed, held, supVars, stopSup, enqueueDone,
                   lapses, dockerErrors>>

\* Toxiproxy answers, and every worker's proxy is made.
CreateProxies ==
    /\ pc = "proxies"
    /\ pc' = "up"
    /\ UNCHANGED <<dockerVars, disturbed, stage, delayed, held, supVars, stopSup, enqueueDone,
                   lapses, dockerErrors>>

ComposeUp ==
    /\ pc = "up"
    /\ container' = [w \in Worker |-> "running"] /\ pc' = "join"
    /\ UNCHANGED <<code, crashes, disturbed, stage, delayed, held, supVars, stopSup,
                   enqueueDone, lapses, dockerErrors>>

\* Every worker has joined the group with its first XREADGROUP: the supervisor, the producer
\* and the faults are let go.
AllJoined ==
    /\ pc = "join" /\ \A w \in Worker : container[w] = "running"
    /\ sup' = "pass" /\ pc' = "faults"
    /\ UNCHANGED <<dockerVars, disturbed, stage, delayed, held, before, sample, todo, starting,
                   restarts, stopSup, enqueueDone, lapses, dockerErrors>>

\* Every batch was accepted, or Redis failed the producer, and with it the run.
Produce ==
    /\ pc = "faults" /\ ~enqueueDone
    /\ \/ enqueueDone' = TRUE /\ UNCHANGED pc
       \/ pc' = "aborted" /\ UNCHANGED enqueueDone
    /\ UNCHANGED <<dockerVars, disturbed, stage, delayed, held, supVars, stopSup, lapses,
                   dockerErrors>>

\* Mutant: what is known to be healed is not healed again.
HealAllPaused ==
    /\ pc = "faults" /\ enqueueDone /\ \A f \in Fault : stage[f] \in {"executed", "skipped"}
    /\ container' = [w \in Worker |-> IF container[w] = "paused" THEN "running" ELSE container[w]]
    /\ pc' = "drain"
    /\ UNCHANGED <<code, crashes, disturbed, stage, delayed, held, supVars, stopSup,
                   enqueueDone, lapses, dockerErrors>>

\* Every fault task and the producer are done; heal_all resets the proxies and unpauses
\* what is paused.
HealAll ==
    /\ pc = "faults" /\ enqueueDone /\ \A f \in Fault : stage[f] \in {"executed", "skipped"}
    /\ disturbed' = {}
    /\ container' = [w \in Worker |-> IF container[w] = "paused" THEN "running" ELSE container[w]]
    /\ pc' = "drain"
    /\ UNCHANGED <<code, crashes, stage, delayed, held, supVars, stopSup, enqueueDone, lapses,
                   dockerErrors>>

\* Healing or stopping fails: the proxies' API or docker does.  What was healed no longer matters.
HealOrStopFails ==
    /\ \/ pc = "faults" /\ enqueueDone /\ \A f \in Fault : stage[f] \in {"executed", "skipped"}
       \/ pc = "stopping" /\ sup = "off"
    /\ DockerErrs
    /\ pc' = "aborted"
    /\ UNCHANGED <<dockerVars, stage, delayed, held, supVars, stopSup, enqueueDone, disturbed,
                   lapses>>

\* Three quiet polls in a row: the workers that run have done everybody's jobs.
Drained ==
    /\ pc = "drain" /\ \E w \in Worker : container[w] = "running"
    /\ stopSup' = TRUE /\ pc' = "stopping"
    /\ UNCHANGED <<dockerVars, stage, delayed, held, supVars, enqueueDone, disturbed, lapses,
                   dockerErrors>>

DrainTimeout ==
    /\ pc = "drain"
    /\ stopSup' = TRUE /\ pc' = "stopping"
    /\ UNCHANGED <<dockerVars, stage, delayed, held, supVars, enqueueDone, disturbed, lapses,
                   dockerErrors>>

\* Mutant: the supervisor is told to stop but not waited for.
StopWorkersAtOnce ==
    /\ pc = "stopping"
    /\ container' = [w \in Worker |-> "exited"]
    /\ code' = [w \in Worker |-> IF container[w] = "exited" THEN code[w] ELSE Clean]
    /\ pc' = "verify"
    /\ UNCHANGED <<crashes, stage, delayed, held, supVars, stopSup, enqueueDone, disturbed,
                   lapses, dockerErrors>>

\* The supervisor's task is awaited, then the workers are stopped.
StopWorkers ==
    /\ pc = "stopping" /\ sup = "off"
    /\ container' = [w \in Worker |-> "exited"]
    /\ code' = [w \in Worker |-> IF container[w] = "exited" THEN code[w] ELSE Clean]
    /\ pc' = "verify"
    /\ UNCHANGED <<crashes, stage, delayed, held, supVars, stopSup, enqueueDone, disturbed,
                   lapses, dockerErrors>>

\* The supervisor failed: awaiting it raises.
Abort ==
    /\ pc = "stopping" /\ sup = "raised"
    /\ pc' = "aborted"
    /\ UNCHANGED <<dockerVars, stage, delayed, held, supVars, stopSup, enqueueDone, disturbed,
                   lapses, dockerErrors>>

Verify ==
    /\ pc = "verify"
    /\ pc' = "reported"
    /\ UNCHANGED <<dockerVars, stage, delayed, held, supVars, stopSup, enqueueDone, disturbed,
                   lapses, dockerErrors>>

\* When the run is aborted, every task of it is cancelled.
Inject(f) ==
    /\ pc # "aborted"
    /\ \/ Due(f) \/ BeginKill(f) \/ Kill(f) \/ KillFails(f) \/ KillUnreported(f)
       \/ Pause(f) \/ PauseFails(f) \/ PauseUnreported(f) \/ Disturb(f)
       \/ HealKill(f) \/ HealKillFails(f) \/ ReleaseHold(f) \/ HealPause(f) \/ HealNetwork(f)

Supervise ==
    /\ pc # "aborted"
    /\ \/ SupervisorPass \/ WorkerStates \/ WorkerStatesFails \/ EndPass
       \/ \E w \in Worker : Look(w) \/ Restart(w) \/ RestartFails(w)

Orchestrate ==
    \/ CreateProxies \/ ComposeUp \/ AllJoined \/ Produce \/ HealAll \/ Drained
    \/ StopWorkers \/ Abort \/ Verify

ChaosNext ==
    \/ StartFails \/ \E w \in Worker : Crash(w)
    \/ \E f \in Fault : Inject(f)
    \/ Supervise \/ Orchestrate \/ DrainTimeout \/ HealOrStopFails

\* Every task of the event loop goes on, and a fault is not tried again for ever.  The
\* drain timeout need not come to the rescue: as long as one worker runs, the queue drains.
ChaosFairness ==
    /\ WF_chaosVars(\E f \in Fault : Inject(f))
    /\ SF_chaosVars(\E f \in Fault : Inject(f) /\ stage'[f] \in {"applied", "skipped"})
    /\ WF_chaosVars(Supervise) /\ WF_chaosVars(Orchestrate)

ChaosSpec == ChaosInit /\ [][ChaosNext]_chaosVars /\ ChaosFairness

-----------------------------------------------------------------------------
(* Properties *)

\* The verifier reads a system at rest: no worker runs and nobody is left to start one.
VerifiedAtRest ==
    pc \in {"verify", "reported"} =>
        /\ \A w \in Worker : container[w] = "exited"
        /\ sup = "off" /\ starting = {} /\ Active = {}

\* "Workers the injector killed on purpose are left down until the injector restarts them."
KilledStayDown == \A f \in Killing : stage[f] = "applied" => container[WorkerOf[f]] = "exited"

\* The supervisor's alarms: a restart counted under exit code 70 is a crash that happened; no
\* worker that was told to stop is counted; and nobody is passed by in silence: a worker is only
\* on hold while a kill of it is under way, not after one that failed or is over.  Killed workers
\* stay down, and are not counted as unexpected exits, which would fail the run, unless a lapse
\* came before: two kills of one worker overlapped, a `docker kill` failed after it took effect,
\* or a kill was healed between the supervisor's reading that the worker is down and its look at
\* the hold.
AlarmsRight ==
    /\ restarts[CrashyCode] <= crashes
    /\ restarts[Clean] = 0
    /\ held \subseteq {WorkerOf[f] : f \in Killing}
    /\ lapses = {} => KilledStayDown /\ restarts[KilledOnPurpose] = 0

\* The queue drains in peace: once healing is over no worker is paused or cut off, also by a
\* network fault that was skipped because only the reply to it was lost.
DrainUndisturbed ==
    pc \in {"drain", "stopping"} => disturbed = {} /\ \A w \in Worker : container[w] # "paused"

\* The run is over, with a verdict or an error; or a failed `docker start` ended the supervisor,
\* and it may need the drain timeout.
RunOver == pc \in {"reported", "aborted"} \/ sup = "raised"
====
