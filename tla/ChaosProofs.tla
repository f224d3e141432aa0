---------------------------- MODULE ChaosProofs ----------------------------
(***************************************************************************)
(* Proofs about a chaos run, for any workers, any plans of faults and any  *)
(* number of crashes and docker errors: the types, what the verifier and   *)
(* the drain find, and that the alarms of the supervisor are right.  No    *)
(* plan is excluded: what the code promises of killed workers is proved    *)
(* until the first lapse of a hold, everything else throughout.            *)
(*                                                                         *)
(* And about its verdict, for any jobs of the mix and any budget of faults *)
(* within its sizing: a run at rest passes every check.                    *)
(***************************************************************************)
EXTENDS ChaosRun, ChaosVerdict, TLAPS, FiniteSetTheorems

Over == {"executed", "skipped"}
Healed == {"drain", "stopping", "verify", "reported"}
Starting == {"proxies", "up", "join"}

\* Where the orchestrator is tells what the others have done: before the workers joined,
\* nothing; after healing, every fault is over; after the supervisor was awaited, it is off.
Phases ==
    /\ pc \in Starting => sup = "off" /\ \A f \in Fault : stage[f] \in {"planned", "skipped"}
    /\ pc \in {"proxies", "up"} => \A w \in Worker : container[w] = "none"
    /\ sup # "off" => \A w \in Worker : container[w] # "none"
    /\ pc \in Starting => \A w \in Worker : container[w] \in {"none", "running"}
    /\ pc \in Healed => \A f \in Fault : stage[f] \in Over
    /\ \A f \in Fault : stage[f] \in {"killing", "restarted"} => KindOf[f] = "kill"

\* The inductive invariant of every run.
ChaosInv == ChaosTypeOK /\ Phases /\ VerifiedAtRest /\ DrainUndisturbed

-----------------------------------------------------------------------------
(* The alarms: what holds throughout *)

\* On hold are only workers with a kill under way, and exit code 0 is for the end of the run.
HeldRight ==
    /\ \A w \in held : \E f \in Killing : WorkerOf[f] = w
    /\ \A w \in Worker : container[w] = "exited" /\ code[w] = Clean => pc \in {"verify", "reported"}

\* The supervisor never saw a worker that was told to stop and has counted none, starts only
\* what it saw down, and has looked at a worker before it starts it.
SampleRight ==
    /\ sup = "looking" => \A w \in todo \union starting : sample[w] # Clean
    /\ \A w \in starting : sample[w] \in Code
    /\ starting \intersect todo = {}
    /\ restarts[Clean] = 0

\* The workers that are down by a crashy job.
Crashed == {w \in Worker : container[w] = "exited" /\ code[w] = CrashyCode}

\* The workers the supervisor saw down by a crashy job and may still count.
Pending == {w \in todo \union starting : sup = "looking" /\ sample[w] = CrashyCode}

Down == Crashed \union Pending

\* Every restart counted under exit code 70 and every worker still down by a crash, or seen
\* down by one, has a crash of its own.
CrashesCounted ==
    /\ IsFiniteSet(Down)
    /\ restarts[CrashyCode] + Cardinality(Down) <= crashes

-----------------------------------------------------------------------------
(* The alarms: what holds until a hold lapses *)

\* No two kills of one worker are under way at once.
KillsApart == \A f, g \in Killing : WorkerOf[f] = WorkerOf[g] => f = g

Killed(w) == container[w] = "exited" /\ code[w] = KilledOnPurpose

\* The worker of every kill under way is on hold, a worker down by a kill waits for the
\* injector to start it, and a kill that was applied is one whose worker is down by it.
KillsHeld ==
    /\ \A f \in Killing : WorkerOf[f] \in held
    /\ \A w \in Worker : Killed(w) => \E f \in Killing : stage[f] = "applied" /\ WorkerOf[f] = w
    /\ \A f \in Killing : stage[f] = "applied" => Killed(WorkerOf[f])

\* What the supervisor still has to act on is true: a worker it saw down by a crash still is,
\* one it saw down by a kill was on hold before or still is, and it starts and has counted no
\* killed worker.
SampleTrue ==
    /\ sup = "looking" => \A w \in todo \union starting : sample[w] = CrashyCode => w \in Crashed
    /\ sup = "looking" => \A w \in todo : sample[w] = KilledOnPurpose =>
                              w \in before \/ (Killed(w) /\ w \in held)
    /\ \A w \in starting : sample[w] = CrashyCode
    /\ restarts[KilledOnPurpose] = 0

\* The inductive invariant of the alarms.
AlarmInv ==
    /\ HeldRight /\ SampleRight /\ CrashesCounted
    /\ lapses = {} => KillsApart /\ KillsHeld /\ SampleTrue

-----------------------------------------------------------------------------
(* Helpers *)

\* The supervisor starts none or one.
LEMMA NoneOrOne ==
    Cardinality({}) <= 1 /\ \A w : Cardinality({w}) <= 1
<1>1. Cardinality({}) <= 1
    <2>1. Cardinality({}) = 0
        BY FS_EmptySet
    <2> QED
        BY <2>1
<1>2. ASSUME NEW w PROVE Cardinality({w}) <= 1
    <2>1. Cardinality({w}) = 1
        BY FS_Singleton
    <2> QED
        BY <2>1
<1> QED
    BY <1>1, <1>2

\* Every step is one of the actions below.
LEMMA StepCases ==
    ASSUME ChaosNext
    PROVE  \/ StartFails \/ CreateProxies \/ ComposeUp \/ AllJoined \/ Produce \/ HealAll
           \/ HealOrStopFails \/ Drained \/ DrainTimeout \/ StopWorkers \/ Abort \/ Verify
           \/ \E w \in Worker : Crash(w)
           \/ pc # "aborted" /\ \E f \in Fault :
                \/ Due(f) \/ BeginKill(f) \/ Kill(f) \/ KillFails(f) \/ KillUnreported(f)
                \/ Pause(f) \/ PauseFails(f) \/ PauseUnreported(f) \/ Disturb(f)
                \/ HealKill(f) \/ HealKillFails(f) \/ ReleaseHold(f) \/ HealPause(f)
                \/ HealNetwork(f)
           \/ pc # "aborted" /\ (SupervisorPass \/ WorkerStates \/ WorkerStatesFails \/ EndPass)
           \/ pc # "aborted" /\ \E w \in Worker : Look(w) \/ Restart(w) \/ RestartFails(w)
BY DEF ChaosNext, Inject, Supervise, Orchestrate

-----------------------------------------------------------------------------
(* Every run *)

\* The initial state satisfies the invariant.
LEMMA InitInv == ChaosInit => ChaosInv
<1> SUFFICES ASSUME ChaosInit PROVE ChaosInv
    OBVIOUS
<1>1. ChaosTypeOK
    <2>1. starting \subseteq Worker /\ Cardinality(starting) <= 1
        BY NoneOrOne DEF ChaosInit
    <2>2. restarts \in [Code -> Nat] /\ code \in [Worker -> Code] /\ crashes \in 0..MaxCrashes
          /\ dockerErrors \in 0..MaxDockerErrors
        BY ChaosAssumption DEF ChaosInit, Code
    <2> QED
        BY <2>1, <2>2 DEF ChaosInit, ChaosTypeOK
<1>2. Phases /\ VerifiedAtRest /\ DrainUndisturbed
    BY DEF ChaosInit, Phases, Starting, Healed, VerifiedAtRest, DrainUndisturbed
<1> QED
    BY <1>1, <1>2 DEF ChaosInv

\* Every action keeps the types.
LEMMA StepTypes ==
    ASSUME ChaosInv, ChaosNext
    PROVE  ChaosTypeOK'
<1> USE ChaosAssumption
<1>0. ChaosTypeOK /\ Phases
    BY DEF ChaosInv
<1>a. stopSup \in BOOLEAN /\ enqueueDone \in BOOLEAN
    BY <1>0 DEF ChaosTypeOK
<1>1. CASE StartFails
    BY <1>1, <1>0, <1>a DEF StartFails, dockerVars, supVars, ChaosTypeOK
<1>2. CASE CreateProxies
    BY <1>2, <1>0, <1>a DEF CreateProxies, dockerVars, supVars, ChaosTypeOK
<1>3. CASE ComposeUp
    BY <1>3, <1>0, <1>a DEF ComposeUp, supVars, ChaosTypeOK
<1>4. CASE AllJoined
    BY <1>4, <1>0, <1>a DEF AllJoined, dockerVars, ChaosTypeOK, Phases, Starting
<1>5. CASE Produce
    BY <1>5, <1>0, <1>a DEF Produce, dockerVars, supVars, ChaosTypeOK
<1>6. CASE HealAll
    BY <1>6, <1>0, <1>a DEF HealAll, supVars, ChaosTypeOK
<1>7. CASE HealOrStopFails
    BY <1>7, <1>0, <1>a DEF HealOrStopFails, DockerErrs, dockerVars, supVars, ChaosTypeOK
<1>8. CASE Drained
    BY <1>8, <1>0, <1>a DEF Drained, dockerVars, supVars, ChaosTypeOK
<1>9. CASE DrainTimeout
    BY <1>9, <1>0, <1>a DEF DrainTimeout, dockerVars, supVars, ChaosTypeOK
<1>10. CASE StopWorkers
    BY <1>10, <1>0, <1>a DEF StopWorkers, supVars, ChaosTypeOK, Code, Clean, CrashyCode,
       KilledOnPurpose
<1>11. CASE Abort
    BY <1>11, <1>0, <1>a DEF Abort, dockerVars, supVars, ChaosTypeOK
<1>12. CASE Verify
    BY <1>12, <1>0, <1>a DEF Verify, dockerVars, supVars, ChaosTypeOK
<1>13. ASSUME NEW w \in Worker, Crash(w) PROVE ChaosTypeOK'
    BY <1>13, <1>0, <1>a DEF Crash, supVars, mainVars, ChaosTypeOK, Code, Clean, CrashyCode,
       KilledOnPurpose
<1>14. ASSUME NEW f \in Fault, Due(f) PROVE ChaosTypeOK'
    BY <1>14, <1>0, <1>a DEF Due, To, dockerVars, supVars, mainVars, ChaosTypeOK
<1>15. ASSUME NEW f \in Fault, BeginKill(f) PROVE ChaosTypeOK'
    BY <1>15, <1>0, <1>a DEF BeginKill, To, dockerVars, supVars, mainVars, ChaosTypeOK
<1>16. ASSUME NEW f \in Fault, Kill(f) PROVE ChaosTypeOK'
    BY <1>16, <1>0, <1>a DEF Kill, To, ExitKilled, supVars, mainVars, ChaosTypeOK, Code, Clean,
       CrashyCode, KilledOnPurpose
<1>17. ASSUME NEW f \in Fault, KillFails(f) PROVE ChaosTypeOK'
    BY <1>17, <1>0, <1>a DEF KillFails, DockerErrs, To, TryAgainOrSkip, dockerVars, supVars,
       mainVars, ChaosTypeOK
<1>18. ASSUME NEW f \in Fault, KillUnreported(f) PROVE ChaosTypeOK'
    BY <1>18, <1>0, <1>a DEF KillUnreported, DockerErrs, To, TryAgainOrSkip, ExitKilled, supVars,
       mainVars, ChaosTypeOK, Code, Clean, CrashyCode, KilledOnPurpose
<1>19. ASSUME NEW f \in Fault, Pause(f) PROVE ChaosTypeOK'
    BY <1>19, <1>0, <1>a DEF Pause, To, supVars, mainVars, ChaosTypeOK
<1>20. ASSUME NEW f \in Fault, PauseFails(f) PROVE ChaosTypeOK'
    BY <1>20, <1>0, <1>a DEF PauseFails, DockerErrs, To, TryAgainOrSkip, dockerVars, supVars,
       mainVars, ChaosTypeOK
<1>21. ASSUME NEW f \in Fault, PauseUnreported(f) PROVE ChaosTypeOK'
    BY <1>21, <1>0, <1>a DEF PauseUnreported, DockerErrs, To, TryAgainOrSkip, supVars, mainVars,
       ChaosTypeOK
<1>22. ASSUME NEW f \in Fault, Disturb(f) PROVE ChaosTypeOK'
    BY <1>22, <1>0, <1>a DEF Disturb, To, AddToxic, dockerVars, supVars, mainVars, ChaosTypeOK
<1>23. ASSUME NEW f \in Fault, HealKill(f) PROVE ChaosTypeOK'
    BY <1>23, <1>0, <1>a DEF HealKill, To, Start, supVars, mainVars, ChaosTypeOK, Code, Clean,
       CrashyCode, KilledOnPurpose
<1>24. ASSUME NEW f \in Fault, HealKillFails(f) PROVE ChaosTypeOK'
    BY <1>24, <1>0, <1>a DEF HealKillFails, DockerErrs, dockerVars, supVars, ChaosTypeOK
<1>25. ASSUME NEW f \in Fault, ReleaseHold(f) PROVE ChaosTypeOK'
    BY <1>25, <1>0, <1>a DEF ReleaseHold, To, dockerVars, supVars, mainVars, ChaosTypeOK
<1>26. ASSUME NEW f \in Fault, HealPause(f) PROVE ChaosTypeOK'
    BY <1>26, <1>0, <1>a DEF HealPause, DockerErrs, To, supVars, ChaosTypeOK
<1>27. ASSUME NEW f \in Fault, HealNetwork(f) PROVE ChaosTypeOK'
    BY <1>27, <1>0, <1>a DEF HealNetwork, To, RemoveToxic, dockerVars, supVars, ChaosTypeOK
<1>28. CASE SupervisorPass
    BY <1>28, <1>0, <1>a DEF SupervisorPass, dockerVars, mainVars, ChaosTypeOK
<1>29. CASE WorkerStates
    BY <1>29, <1>0, <1>a DEF WorkerStates, dockerVars, mainVars, ChaosTypeOK, Code, Clean,
       CrashyCode, KilledOnPurpose, Phases, Starting
<1>30. CASE WorkerStatesFails
    BY <1>30, <1>0, <1>a DEF WorkerStatesFails, DockerErrs, dockerVars, mainVars, ChaosTypeOK
<1>31. CASE EndPass
    BY <1>31, <1>0, <1>a DEF EndPass, dockerVars, mainVars, ChaosTypeOK
<1>32. ASSUME NEW w \in Worker, Look(w) PROVE ChaosTypeOK'
    <2>0. starting' = {} \/ starting' = {w}
        BY <1>32 DEF Look
    <2>1. starting' \subseteq Worker /\ Cardinality(starting') <= 1
        BY <2>0, NoneOrOne
    <2> QED
        BY <1>32, <2>1, <1>0, <1>a DEF Look, ChaosTypeOK, dockerVars, mainVars
<1>33. ASSUME NEW w \in Worker, Restart(w) PROVE ChaosTypeOK'
    <2>1. restarts' \in [Code -> Nat]
        <3>1. CASE sample[w] \in Code
            BY <1>33, <1>0, <3>1 DEF Restart, ChaosTypeOK
        <3>2. CASE sample[w] \notin Code
            BY <1>33, <1>0, <3>2 DEF Restart, ChaosTypeOK
        <3> QED
            BY <3>1, <3>2
    <2>2. Cardinality(starting') <= 1 /\ starting' = {}
        BY <1>33, NoneOrOne DEF Restart
    <2>3. code' \in [Worker -> Code]
        BY <1>33, <1>0 DEF Restart, Start, ChaosTypeOK, Code
    <2> QED
        BY <1>33, <2>1, <2>2, <2>3, <1>0, <1>a DEF Restart, Start, ChaosTypeOK, mainVars
<1>34. ASSUME NEW w \in Worker, RestartFails(w) PROVE ChaosTypeOK'
    BY <1>34, <1>0, <1>a, NoneOrOne DEF RestartFails, DockerErrs, dockerVars, mainVars, ChaosTypeOK
<1> QED
    BY StepCases, <1>1, <1>2, <1>3, <1>4, <1>5, <1>6, <1>7, <1>8, <1>9, <1>10, <1>11, <1>12,
       <1>13, <1>14, <1>15, <1>16, <1>17, <1>18, <1>19, <1>20, <1>21, <1>22, <1>23, <1>24, <1>25,
       <1>26, <1>27, <1>28, <1>29, <1>30, <1>31, <1>32, <1>33, <1>34

\* Every action keeps the orchestrator's phases.
LEMMA StepPhases ==
    ASSUME ChaosInv, ChaosNext
    PROVE  Phases'
<1>0. ChaosTypeOK /\ Phases /\ VerifiedAtRest
    BY DEF ChaosInv
<1>1. CASE StartFails
    BY <1>1, <1>0 DEF StartFails, dockerVars, supVars, ChaosTypeOK, Phases, Starting, Healed,
       Over
<1>2. CASE CreateProxies
    BY <1>2, <1>0 DEF CreateProxies, dockerVars, supVars, ChaosTypeOK, Phases, Starting, Healed,
       Over
<1>3. CASE ComposeUp
    BY <1>3, <1>0 DEF ComposeUp, supVars, ChaosTypeOK, Phases, Starting, Healed, Over
<1>4. CASE AllJoined
    BY <1>4, <1>0 DEF AllJoined, dockerVars, ChaosTypeOK, Phases, Starting, Healed, Over
<1>5. CASE Produce
    BY <1>5, <1>0 DEF Produce, dockerVars, supVars, ChaosTypeOK, Phases, Starting, Healed, Over
<1>6. CASE HealAll
    BY <1>6, <1>0 DEF HealAll, supVars, ChaosTypeOK, Phases, Starting, Healed, Over
<1>7. CASE HealOrStopFails
    BY <1>7, <1>0 DEF HealOrStopFails, DockerErrs, dockerVars, supVars, ChaosTypeOK, Phases,
       Starting, Healed, Over
<1>8. CASE Drained
    BY <1>8, <1>0 DEF Drained, dockerVars, supVars, ChaosTypeOK, Phases, Starting, Healed, Over
<1>9. CASE DrainTimeout
    BY <1>9, <1>0 DEF DrainTimeout, dockerVars, supVars, ChaosTypeOK, Phases, Starting, Healed,
       Over
<1>10. CASE StopWorkers
    BY <1>10, <1>0 DEF StopWorkers, supVars, ChaosTypeOK, Phases, Starting, Healed, Over
<1>11. CASE Abort
    BY <1>11, <1>0 DEF Abort, dockerVars, supVars, ChaosTypeOK, Phases, Starting, Healed, Over
<1>12. CASE Verify
    BY <1>12, <1>0 DEF Verify, dockerVars, supVars, ChaosTypeOK, Phases, Starting, Healed, Over
<1>13. ASSUME NEW w \in Worker, Crash(w) PROVE Phases'
    BY <1>13, <1>0 DEF Crash, supVars, mainVars, ChaosTypeOK, Phases, Starting, Healed, Over
<1>14. ASSUME NEW f \in Fault, Due(f) PROVE Phases'
    BY <1>14, <1>0 DEF Due, To, dockerVars, supVars, mainVars, ChaosTypeOK, Phases, Starting,
       Healed, Over
<1>15. ASSUME NEW f \in Fault, BeginKill(f) PROVE Phases'
    BY <1>15, <1>0 DEF BeginKill, To, dockerVars, supVars, mainVars, ChaosTypeOK, Phases,
       Starting, Healed, Over
<1>16. ASSUME NEW f \in Fault, Kill(f) PROVE Phases'
    BY <1>16, <1>0 DEF Kill, To, ExitKilled, supVars, mainVars, ChaosTypeOK, Phases, Starting,
       Healed, Over
<1>17. ASSUME NEW f \in Fault, KillFails(f) PROVE Phases'
    BY <1>17, <1>0 DEF KillFails, DockerErrs, To, TryAgainOrSkip, dockerVars, supVars, mainVars,
       ChaosTypeOK, Phases, Starting, Healed, Over
<1>18. ASSUME NEW f \in Fault, KillUnreported(f) PROVE Phases'
    BY <1>18, <1>0 DEF KillUnreported, DockerErrs, To, TryAgainOrSkip, ExitKilled, supVars,
       mainVars, ChaosTypeOK, Phases, Starting, Healed, Over
<1>19. ASSUME NEW f \in Fault, Pause(f) PROVE Phases'
    BY <1>19, <1>0 DEF Pause, To, supVars, mainVars, ChaosTypeOK, Phases, Starting, Healed, Over
<1>20. ASSUME NEW f \in Fault, PauseFails(f) PROVE Phases'
    BY <1>20, <1>0 DEF PauseFails, DockerErrs, To, TryAgainOrSkip, dockerVars, supVars, mainVars,
       ChaosTypeOK, Phases, Starting, Healed, Over
<1>21. ASSUME NEW f \in Fault, PauseUnreported(f) PROVE Phases'
    BY <1>21, <1>0 DEF PauseUnreported, DockerErrs, To, TryAgainOrSkip, supVars, mainVars,
       ChaosTypeOK, Phases, Starting, Healed, Over
<1>22. ASSUME NEW f \in Fault, Disturb(f) PROVE Phases'
    BY <1>22, <1>0 DEF Disturb, To, AddToxic, dockerVars, supVars, mainVars, ChaosTypeOK, Phases,
       Starting, Healed, Over
<1>23. ASSUME NEW f \in Fault, HealKill(f) PROVE Phases'
    BY <1>23, <1>0 DEF HealKill, To, Start, supVars, mainVars, ChaosTypeOK, Phases, Starting,
       Healed, Over
<1>24. ASSUME NEW f \in Fault, HealKillFails(f) PROVE Phases'
    BY <1>24, <1>0 DEF HealKillFails, DockerErrs, dockerVars, supVars, ChaosTypeOK, Phases,
       Starting, Healed, Over
<1>25. ASSUME NEW f \in Fault, ReleaseHold(f) PROVE Phases'
    BY <1>25, <1>0 DEF ReleaseHold, To, dockerVars, supVars, mainVars, ChaosTypeOK, Phases,
       Starting, Healed, Over
<1>26. ASSUME NEW f \in Fault, HealPause(f) PROVE Phases'
    BY <1>26, <1>0 DEF HealPause, DockerErrs, To, supVars, ChaosTypeOK, Phases, Starting, Healed,
       Over
<1>27. ASSUME NEW f \in Fault, HealNetwork(f) PROVE Phases'
    BY <1>27, <1>0 DEF HealNetwork, To, RemoveToxic, dockerVars, supVars, ChaosTypeOK, Phases,
       Starting, Healed, Over
<1>28. CASE SupervisorPass
    BY <1>28, <1>0 DEF SupervisorPass, dockerVars, mainVars, ChaosTypeOK, Phases, Starting,
       Healed, Over
<1>29. CASE WorkerStates
    BY <1>29, <1>0 DEF WorkerStates, dockerVars, mainVars, ChaosTypeOK, Phases, Starting, Healed,
       Over
<1>30. CASE WorkerStatesFails
    BY <1>30, <1>0 DEF WorkerStatesFails, DockerErrs, dockerVars, mainVars, ChaosTypeOK, Phases,
       Starting, Healed, Over
<1>31. CASE EndPass
    BY <1>31, <1>0 DEF EndPass, dockerVars, mainVars, ChaosTypeOK, Phases, Starting, Healed, Over
<1>32. ASSUME NEW w \in Worker, Look(w) PROVE Phases'
    BY <1>32, <1>0 DEF Look, dockerVars, mainVars, ChaosTypeOK, Phases, Starting, Healed, Over
<1>33. ASSUME NEW w \in Worker, Restart(w) PROVE Phases'
    BY <1>33, <1>0 DEF Restart, Start, mainVars, ChaosTypeOK, Phases, Starting, Healed, Over
<1>34. ASSUME NEW w \in Worker, RestartFails(w) PROVE Phases'
    BY <1>34, <1>0 DEF RestartFails, DockerErrs, dockerVars, mainVars, ChaosTypeOK, Phases,
       Starting, Healed, Over
<1> QED
    BY StepCases, <1>1, <1>2, <1>3, <1>4, <1>5, <1>6, <1>7, <1>8, <1>9, <1>10, <1>11, <1>12,
       <1>13, <1>14, <1>15, <1>16, <1>17, <1>18, <1>19, <1>20, <1>21, <1>22, <1>23, <1>24, <1>25,
       <1>26, <1>27, <1>28, <1>29, <1>30, <1>31, <1>32, <1>33, <1>34

\* Every action keeps the verifier's and the drain's peace.
LEMMA StepRest ==
    ASSUME ChaosInv, ChaosNext
    PROVE  VerifiedAtRest' /\ DrainUndisturbed'
<1>0. ChaosTypeOK /\ Phases /\ VerifiedAtRest /\ DrainUndisturbed
    BY DEF ChaosInv
<1>1. CASE StartFails
    BY <1>1, <1>0 DEF StartFails, dockerVars, supVars, ChaosTypeOK, Phases, Healed, Over,
       VerifiedAtRest, DrainUndisturbed, Active
<1>2. CASE CreateProxies
    BY <1>2, <1>0 DEF CreateProxies, dockerVars, supVars, ChaosTypeOK, Phases, Healed, Over,
       VerifiedAtRest, DrainUndisturbed, Active
<1>3. CASE ComposeUp
    BY <1>3, <1>0 DEF ComposeUp, supVars, ChaosTypeOK, Phases, Healed, Over, VerifiedAtRest,
       DrainUndisturbed, Active
<1>4. CASE AllJoined
    BY <1>4, <1>0 DEF AllJoined, dockerVars, ChaosTypeOK, Phases, Healed, Over, VerifiedAtRest,
       DrainUndisturbed, Active
<1>5. CASE Produce
    BY <1>5, <1>0 DEF Produce, dockerVars, supVars, ChaosTypeOK, Phases, Healed, Over,
       VerifiedAtRest, DrainUndisturbed, Active
<1>6. CASE HealAll
    BY <1>6, <1>0 DEF HealAll, supVars, ChaosTypeOK, Phases, Healed, Over, VerifiedAtRest,
       DrainUndisturbed, Active
<1>7. CASE HealOrStopFails
    BY <1>7, <1>0 DEF HealOrStopFails, DockerErrs, dockerVars, supVars, ChaosTypeOK, Phases,
       Healed, Over, VerifiedAtRest, DrainUndisturbed, Active
<1>8. CASE Drained
    BY <1>8, <1>0 DEF Drained, dockerVars, supVars, ChaosTypeOK, Phases, Healed, Over,
       VerifiedAtRest, DrainUndisturbed, Active
<1>9. CASE DrainTimeout
    BY <1>9, <1>0 DEF DrainTimeout, dockerVars, supVars, ChaosTypeOK, Phases, Healed, Over,
       VerifiedAtRest, DrainUndisturbed, Active
<1>10. CASE StopWorkers
    BY <1>10, <1>0 DEF StopWorkers, supVars, ChaosTypeOK, Phases, Healed, Over, VerifiedAtRest,
       DrainUndisturbed, Active
<1>11. CASE Abort
    BY <1>11, <1>0 DEF Abort, dockerVars, supVars, ChaosTypeOK, Phases, Healed, Over,
       VerifiedAtRest, DrainUndisturbed, Active
<1>12. CASE Verify
    BY <1>12, <1>0 DEF Verify, dockerVars, supVars, ChaosTypeOK, Phases, Healed, Over,
       VerifiedAtRest, DrainUndisturbed, Active
<1>13. ASSUME NEW w \in Worker, Crash(w) PROVE VerifiedAtRest' /\ DrainUndisturbed'
    BY <1>13, <1>0 DEF Crash, supVars, mainVars, ChaosTypeOK, Phases, Healed, Over,
       VerifiedAtRest, DrainUndisturbed, Active
<1>14. ASSUME NEW f \in Fault, Due(f) PROVE VerifiedAtRest' /\ DrainUndisturbed'
    BY <1>14, <1>0 DEF Due, To, dockerVars, supVars, mainVars, ChaosTypeOK, Phases, Healed, Over,
       VerifiedAtRest, DrainUndisturbed, Active
<1>15. ASSUME NEW f \in Fault, BeginKill(f) PROVE VerifiedAtRest' /\ DrainUndisturbed'
    BY <1>15, <1>0 DEF BeginKill, To, dockerVars, supVars, mainVars, ChaosTypeOK, Phases, Healed,
       Over, VerifiedAtRest, DrainUndisturbed, Active
<1>16. ASSUME NEW f \in Fault, Kill(f) PROVE VerifiedAtRest' /\ DrainUndisturbed'
    BY <1>16, <1>0 DEF Kill, To, ExitKilled, supVars, mainVars, ChaosTypeOK, Phases, Healed,
       Over, VerifiedAtRest, DrainUndisturbed, Active
<1>17. ASSUME NEW f \in Fault, KillFails(f) PROVE VerifiedAtRest' /\ DrainUndisturbed'
    BY <1>17, <1>0 DEF KillFails, DockerErrs, To, TryAgainOrSkip, dockerVars, supVars, mainVars,
       ChaosTypeOK, Phases, Healed, Over, VerifiedAtRest, DrainUndisturbed, Active
<1>18. ASSUME NEW f \in Fault, KillUnreported(f) PROVE VerifiedAtRest' /\ DrainUndisturbed'
    BY <1>18, <1>0 DEF KillUnreported, DockerErrs, To, TryAgainOrSkip, ExitKilled, supVars,
       mainVars, ChaosTypeOK, Phases, Healed, Over, VerifiedAtRest, DrainUndisturbed, Active
<1>19. ASSUME NEW f \in Fault, Pause(f) PROVE VerifiedAtRest' /\ DrainUndisturbed'
    BY <1>19, <1>0 DEF Pause, To, supVars, mainVars, ChaosTypeOK, Phases, Healed, Over,
       VerifiedAtRest, DrainUndisturbed, Active
<1>20. ASSUME NEW f \in Fault, PauseFails(f) PROVE VerifiedAtRest' /\ DrainUndisturbed'
    BY <1>20, <1>0 DEF PauseFails, DockerErrs, To, TryAgainOrSkip, dockerVars, supVars, mainVars,
       ChaosTypeOK, Phases, Healed, Over, VerifiedAtRest, DrainUndisturbed, Active
<1>21. ASSUME NEW f \in Fault, PauseUnreported(f) PROVE VerifiedAtRest' /\ DrainUndisturbed'
    BY <1>21, <1>0 DEF PauseUnreported, DockerErrs, To, TryAgainOrSkip, supVars, mainVars,
       ChaosTypeOK, Phases, Healed, Over, VerifiedAtRest, DrainUndisturbed, Active
<1>22. ASSUME NEW f \in Fault, Disturb(f) PROVE VerifiedAtRest' /\ DrainUndisturbed'
    BY <1>22, <1>0 DEF Disturb, To, AddToxic, dockerVars, supVars, mainVars, ChaosTypeOK, Phases,
       Healed, Over, VerifiedAtRest, DrainUndisturbed, Active
<1>23. ASSUME NEW f \in Fault, HealKill(f) PROVE VerifiedAtRest' /\ DrainUndisturbed'
    BY <1>23, <1>0 DEF HealKill, To, Start, supVars, mainVars, ChaosTypeOK, Phases, Healed, Over,
       VerifiedAtRest, DrainUndisturbed, Active
<1>24. ASSUME NEW f \in Fault, HealKillFails(f) PROVE VerifiedAtRest' /\ DrainUndisturbed'
    BY <1>24, <1>0 DEF HealKillFails, DockerErrs, dockerVars, supVars, ChaosTypeOK, Phases,
       Healed, Over, VerifiedAtRest, DrainUndisturbed, Active
<1>25. ASSUME NEW f \in Fault, ReleaseHold(f) PROVE VerifiedAtRest' /\ DrainUndisturbed'
    BY <1>25, <1>0 DEF ReleaseHold, To, dockerVars, supVars, mainVars, ChaosTypeOK, Phases,
       Healed, Over, VerifiedAtRest, DrainUndisturbed, Active
<1>26. ASSUME NEW f \in Fault, HealPause(f) PROVE VerifiedAtRest' /\ DrainUndisturbed'
    BY <1>26, <1>0 DEF HealPause, DockerErrs, To, supVars, ChaosTypeOK, Phases, Healed, Over,
       VerifiedAtRest, DrainUndisturbed, Active
<1>27. ASSUME NEW f \in Fault, HealNetwork(f) PROVE VerifiedAtRest' /\ DrainUndisturbed'
    BY <1>27, <1>0 DEF HealNetwork, To, RemoveToxic, dockerVars, supVars, ChaosTypeOK, Phases,
       Healed, Over, VerifiedAtRest, DrainUndisturbed, Active
<1>28. CASE SupervisorPass
    BY <1>28, <1>0 DEF SupervisorPass, dockerVars, mainVars, ChaosTypeOK, Phases, Healed, Over,
       VerifiedAtRest, DrainUndisturbed, Active
<1>29. CASE WorkerStates
    BY <1>29, <1>0 DEF WorkerStates, dockerVars, mainVars, ChaosTypeOK, Phases, Healed, Over,
       VerifiedAtRest, DrainUndisturbed, Active
<1>30. CASE WorkerStatesFails
    BY <1>30, <1>0 DEF WorkerStatesFails, DockerErrs, dockerVars, mainVars, ChaosTypeOK, Phases,
       Healed, Over, VerifiedAtRest, DrainUndisturbed, Active
<1>31. CASE EndPass
    BY <1>31, <1>0 DEF EndPass, dockerVars, mainVars, ChaosTypeOK, Phases, Healed, Over,
       VerifiedAtRest, DrainUndisturbed, Active
<1>32. ASSUME NEW w \in Worker, Look(w) PROVE VerifiedAtRest' /\ DrainUndisturbed'
    BY <1>32, <1>0 DEF Look, dockerVars, mainVars, ChaosTypeOK, Phases, Healed, Over,
       VerifiedAtRest, DrainUndisturbed, Active
<1>33. ASSUME NEW w \in Worker, Restart(w) PROVE VerifiedAtRest' /\ DrainUndisturbed'
    BY <1>33, <1>0 DEF Restart, Start, mainVars, ChaosTypeOK, Phases, Healed, Over,
       VerifiedAtRest, DrainUndisturbed, Active
<1>34. ASSUME NEW w \in Worker, RestartFails(w) PROVE VerifiedAtRest' /\ DrainUndisturbed'
    BY <1>34, <1>0 DEF RestartFails, DockerErrs, dockerVars, mainVars, ChaosTypeOK, Phases,
       Healed, Over, VerifiedAtRest, DrainUndisturbed, Active
<1> QED
    BY StepCases, <1>1, <1>2, <1>3, <1>4, <1>5, <1>6, <1>7, <1>8, <1>9, <1>10, <1>11, <1>12,
       <1>13, <1>14, <1>15, <1>16, <1>17, <1>18, <1>19, <1>20, <1>21, <1>22, <1>23, <1>24, <1>25,
       <1>26, <1>27, <1>28, <1>29, <1>30, <1>31, <1>32, <1>33, <1>34

\* A step that changes nothing keeps everything.
LEMMA StutterInv ==
    ASSUME ChaosInv, UNCHANGED chaosVars
    PROVE  ChaosInv'
BY DEF ChaosInv, ChaosTypeOK, Phases, VerifiedAtRest, DrainUndisturbed, Active, chaosVars,
   dockerVars, supVars, mainVars

\* The invariant holds throughout every chaos run.
THEOREM ChaosAlwaysSound == ChaosSpec => []ChaosInv
<1>1. ChaosInv /\ [ChaosNext]_chaosVars => ChaosInv'
    BY StepTypes, StepPhases, StepRest, StutterInv DEF ChaosInv
<1> QED
    BY InitInv, <1>1, PTL DEF ChaosSpec

-----------------------------------------------------------------------------
(* The supervisor's alarms *)

\* The supervisor has counted, and seen, nothing at first.
LEMMA InitAlarm == ChaosInit => AlarmInv
<1> SUFFICES ASSUME ChaosInit PROVE AlarmInv
    OBVIOUS
<1>1. HeldRight /\ SampleRight
    BY DEF ChaosInit, HeldRight, SampleRight, Code
<1>2. CrashesCounted
    <2>1. Down = {}
        BY DEF ChaosInit, Down, Crashed, Pending
    <2>2. IsFiniteSet(Down) /\ Cardinality(Down) = 0
        BY <2>1, FS_EmptySet
    <2> QED
        BY <2>2 DEF CrashesCounted, ChaosInit, Code
<1>3. KillsApart /\ KillsHeld /\ SampleTrue
    BY DEF ChaosInit, KillsApart, KillsHeld, Killed, Killing, SampleTrue, Code
<1> QED
    BY <1>1, <1>2, <1>3 DEF AlarmInv

\* A hold ends no later than its kill: a kill that is given up, tried again or over takes the
\* hold with it.
LEMMA StepHeldRight ==
    ASSUME ChaosInv, AlarmInv, ChaosNext
    PROVE  HeldRight'
<1> USE ChaosAssumption
<1>0. ChaosTypeOK /\ Phases /\ VerifiedAtRest /\ HeldRight
    BY DEF ChaosInv, AlarmInv
<1>1. CASE StartFails
    BY <1>1, <1>0 DEF StartFails, dockerVars, supVars, ChaosTypeOK, Phases, Starting,
       VerifiedAtRest, HeldRight, Killing, Clean, CrashyCode, KilledOnPurpose
<1>2. CASE CreateProxies
    BY <1>2, <1>0 DEF CreateProxies, dockerVars, supVars, ChaosTypeOK, Phases, Starting,
       VerifiedAtRest, HeldRight, Killing, Clean, CrashyCode, KilledOnPurpose
<1>3. CASE ComposeUp
    BY <1>3, <1>0 DEF ComposeUp, supVars, ChaosTypeOK, Phases, Starting, VerifiedAtRest,
       HeldRight, Killing, Clean, CrashyCode, KilledOnPurpose
<1>4. CASE AllJoined
    BY <1>4, <1>0 DEF AllJoined, dockerVars, ChaosTypeOK, Phases, Starting, VerifiedAtRest,
       HeldRight, Killing, Clean, CrashyCode, KilledOnPurpose
<1>5. CASE Produce
    BY <1>5, <1>0 DEF Produce, dockerVars, supVars, ChaosTypeOK, Phases, Starting,
       VerifiedAtRest, HeldRight, Killing, Clean, CrashyCode, KilledOnPurpose
<1>6. CASE HealAll
    BY <1>6, <1>0 DEF HealAll, supVars, ChaosTypeOK, Phases, Starting, VerifiedAtRest, HeldRight,
       Killing, Clean, CrashyCode, KilledOnPurpose
<1>7. CASE HealOrStopFails
    BY <1>7, <1>0 DEF HealOrStopFails, DockerErrs, dockerVars, supVars, ChaosTypeOK, Phases,
       Starting, VerifiedAtRest, HeldRight, Killing, Clean, CrashyCode, KilledOnPurpose
<1>8. CASE Drained
    BY <1>8, <1>0 DEF Drained, dockerVars, supVars, ChaosTypeOK, Phases, Starting,
       VerifiedAtRest, HeldRight, Killing, Clean, CrashyCode, KilledOnPurpose
<1>9. CASE DrainTimeout
    BY <1>9, <1>0 DEF DrainTimeout, dockerVars, supVars, ChaosTypeOK, Phases, Starting,
       VerifiedAtRest, HeldRight, Killing, Clean, CrashyCode, KilledOnPurpose
<1>10. CASE StopWorkers
    BY <1>10, <1>0 DEF StopWorkers, supVars, ChaosTypeOK, Phases, Starting, VerifiedAtRest,
       HeldRight, Killing, Clean, CrashyCode, KilledOnPurpose
<1>11. CASE Abort
    BY <1>11, <1>0 DEF Abort, dockerVars, supVars, ChaosTypeOK, Phases, Starting, VerifiedAtRest,
       HeldRight, Killing, Clean, CrashyCode, KilledOnPurpose
<1>12. CASE Verify
    BY <1>12, <1>0 DEF Verify, dockerVars, supVars, ChaosTypeOK, Phases, Starting,
       VerifiedAtRest, HeldRight, Killing, Clean, CrashyCode, KilledOnPurpose
<1>13. ASSUME NEW w \in Worker, Crash(w) PROVE HeldRight'
    BY <1>13, <1>0 DEF Crash, supVars, mainVars, ChaosTypeOK, Phases, Starting, VerifiedAtRest,
       HeldRight, Killing, Clean, CrashyCode, KilledOnPurpose
<1>14. ASSUME NEW f \in Fault, Due(f) PROVE HeldRight'
    BY <1>14, <1>0 DEF Due, To, dockerVars, supVars, mainVars, ChaosTypeOK, Phases, Starting,
       VerifiedAtRest, HeldRight, Killing, Clean, CrashyCode, KilledOnPurpose
<1>15. ASSUME NEW f \in Fault, BeginKill(f) PROVE HeldRight'
    BY <1>15, <1>0 DEF BeginKill, To, dockerVars, supVars, mainVars, ChaosTypeOK, Phases,
       Starting, VerifiedAtRest, HeldRight, Killing, Clean, CrashyCode, KilledOnPurpose
<1>16. ASSUME NEW f \in Fault, Kill(f) PROVE HeldRight'
    BY <1>16, <1>0 DEF Kill, To, ExitKilled, supVars, mainVars, ChaosTypeOK, Phases, Starting,
       VerifiedAtRest, HeldRight, Killing, Clean, CrashyCode, KilledOnPurpose
<1>17. ASSUME NEW f \in Fault, KillFails(f) PROVE HeldRight'
    BY <1>17, <1>0 DEF KillFails, DockerErrs, To, TryAgainOrSkip, dockerVars, supVars, mainVars,
       ChaosTypeOK, Phases, Starting, VerifiedAtRest, HeldRight, Killing, Clean, CrashyCode,
       KilledOnPurpose
<1>18. ASSUME NEW f \in Fault, KillUnreported(f) PROVE HeldRight'
    BY <1>18, <1>0 DEF KillUnreported, DockerErrs, To, TryAgainOrSkip, ExitKilled, supVars,
       mainVars, ChaosTypeOK, Phases, Starting, VerifiedAtRest, HeldRight, Killing, Clean,
       CrashyCode, KilledOnPurpose
<1>19. ASSUME NEW f \in Fault, Pause(f) PROVE HeldRight'
    BY <1>19, <1>0 DEF Pause, To, supVars, mainVars, ChaosTypeOK, Phases, Starting,
       VerifiedAtRest, HeldRight, Killing, Clean, CrashyCode, KilledOnPurpose
<1>20. ASSUME NEW f \in Fault, PauseFails(f) PROVE HeldRight'
    BY <1>20, <1>0 DEF PauseFails, DockerErrs, To, TryAgainOrSkip, dockerVars, supVars, mainVars,
       ChaosTypeOK, Phases, Starting, VerifiedAtRest, HeldRight, Killing, Clean, CrashyCode,
       KilledOnPurpose
<1>21. ASSUME NEW f \in Fault, PauseUnreported(f) PROVE HeldRight'
    BY <1>21, <1>0 DEF PauseUnreported, DockerErrs, To, TryAgainOrSkip, supVars, mainVars,
       ChaosTypeOK, Phases, Starting, VerifiedAtRest, HeldRight, Killing, Clean, CrashyCode,
       KilledOnPurpose
<1>22. ASSUME NEW f \in Fault, Disturb(f) PROVE HeldRight'
    BY <1>22, <1>0 DEF Disturb, To, AddToxic, dockerVars, supVars, mainVars, ChaosTypeOK, Phases,
       Starting, VerifiedAtRest, HeldRight, Killing, Clean, CrashyCode, KilledOnPurpose
<1>23. ASSUME NEW f \in Fault, HealKill(f) PROVE HeldRight'
    BY <1>23, <1>0 DEF HealKill, To, Start, supVars, mainVars, ChaosTypeOK, Phases, Starting,
       VerifiedAtRest, HeldRight, Killing, Clean, CrashyCode, KilledOnPurpose
<1>24. ASSUME NEW f \in Fault, HealKillFails(f) PROVE HeldRight'
    BY <1>24, <1>0 DEF HealKillFails, DockerErrs, dockerVars, supVars, ChaosTypeOK, Phases,
       Starting, VerifiedAtRest, HeldRight, Killing, Clean, CrashyCode, KilledOnPurpose, Healed,
       Over
<1>25. ASSUME NEW f \in Fault, ReleaseHold(f) PROVE HeldRight'
    BY <1>25, <1>0 DEF ReleaseHold, To, dockerVars, supVars, mainVars, ChaosTypeOK, Phases,
       Starting, VerifiedAtRest, HeldRight, Killing, Clean, CrashyCode, KilledOnPurpose
<1>26. ASSUME NEW f \in Fault, HealPause(f) PROVE HeldRight'
    BY <1>26, <1>0 DEF HealPause, DockerErrs, To, supVars, ChaosTypeOK, Phases, Starting,
       VerifiedAtRest, HeldRight, Killing, Clean, CrashyCode, KilledOnPurpose, Healed, Over
<1>27. ASSUME NEW f \in Fault, HealNetwork(f) PROVE HeldRight'
    BY <1>27, <1>0 DEF HealNetwork, To, RemoveToxic, dockerVars, supVars, ChaosTypeOK, Phases,
       Starting, VerifiedAtRest, HeldRight, Killing, Clean, CrashyCode, KilledOnPurpose, Healed,
       Over
<1>28. CASE SupervisorPass
    BY <1>28, <1>0 DEF SupervisorPass, dockerVars, mainVars, ChaosTypeOK, Phases, Starting,
       VerifiedAtRest, HeldRight, Killing, Clean, CrashyCode, KilledOnPurpose
<1>29. CASE WorkerStates
    BY <1>29, <1>0 DEF WorkerStates, dockerVars, mainVars, ChaosTypeOK, Phases, Starting,
       VerifiedAtRest, HeldRight, Killing, Clean, CrashyCode, KilledOnPurpose
<1>30. CASE WorkerStatesFails
    BY <1>30, <1>0 DEF WorkerStatesFails, DockerErrs, dockerVars, mainVars, ChaosTypeOK, Phases,
       Starting, VerifiedAtRest, HeldRight, Killing, Clean, CrashyCode, KilledOnPurpose
<1>31. CASE EndPass
    BY <1>31, <1>0 DEF EndPass, dockerVars, mainVars, ChaosTypeOK, Phases, Starting,
       VerifiedAtRest, HeldRight, Killing, Clean, CrashyCode, KilledOnPurpose
<1>32. ASSUME NEW w \in Worker, Look(w) PROVE HeldRight'
    BY <1>32, <1>0 DEF Look, dockerVars, mainVars, ChaosTypeOK, Phases, Starting, VerifiedAtRest,
       HeldRight, Killing, Clean, CrashyCode, KilledOnPurpose
<1>33. ASSUME NEW w \in Worker, Restart(w) PROVE HeldRight'
    BY <1>33, <1>0 DEF Restart, Start, mainVars, ChaosTypeOK, Phases, Starting, VerifiedAtRest,
       HeldRight, Killing, Clean, CrashyCode, KilledOnPurpose
<1>34. ASSUME NEW w \in Worker, RestartFails(w) PROVE HeldRight'
    BY <1>34, <1>0 DEF RestartFails, DockerErrs, dockerVars, mainVars, ChaosTypeOK, Phases,
       Starting, VerifiedAtRest, HeldRight, Killing, Clean, CrashyCode, KilledOnPurpose
<1> QED
    BY StepCases, <1>1, <1>2, <1>3, <1>4, <1>5, <1>6, <1>7, <1>8, <1>9, <1>10, <1>11, <1>12,
       <1>13, <1>14, <1>15, <1>16, <1>17, <1>18, <1>19, <1>20, <1>21, <1>22, <1>23, <1>24, <1>25,
       <1>26, <1>27, <1>28, <1>29, <1>30, <1>31, <1>32, <1>33, <1>34

\* The supervisor is off before the workers are told to stop, and so never sees one stopped.
LEMMA StepSampleRight ==
    ASSUME ChaosInv, AlarmInv, ChaosNext
    PROVE  SampleRight'
<1>0. ChaosTypeOK /\ VerifiedAtRest /\ HeldRight /\ SampleRight
    BY DEF ChaosInv, AlarmInv
<1>1. CASE StartFails
    BY <1>1, <1>0 DEF StartFails, dockerVars, supVars, ChaosTypeOK, SampleRight, HeldRight,
       VerifiedAtRest, Code
<1>2. CASE CreateProxies
    BY <1>2, <1>0 DEF CreateProxies, dockerVars, supVars, ChaosTypeOK, SampleRight, HeldRight,
       VerifiedAtRest, Code
<1>3. CASE ComposeUp
    BY <1>3, <1>0 DEF ComposeUp, supVars, ChaosTypeOK, SampleRight, HeldRight, VerifiedAtRest,
       Code
<1>4. CASE AllJoined
    BY <1>4, <1>0 DEF AllJoined, dockerVars, ChaosTypeOK, SampleRight, HeldRight, VerifiedAtRest,
       Code
<1>5. CASE Produce
    BY <1>5, <1>0 DEF Produce, dockerVars, supVars, ChaosTypeOK, SampleRight, HeldRight,
       VerifiedAtRest, Code
<1>6. CASE HealAll
    BY <1>6, <1>0 DEF HealAll, supVars, ChaosTypeOK, SampleRight, HeldRight, VerifiedAtRest, Code
<1>7. CASE HealOrStopFails
    BY <1>7, <1>0 DEF HealOrStopFails, DockerErrs, dockerVars, supVars, ChaosTypeOK, SampleRight,
       HeldRight, VerifiedAtRest, Code
<1>8. CASE Drained
    BY <1>8, <1>0 DEF Drained, dockerVars, supVars, ChaosTypeOK, SampleRight, HeldRight,
       VerifiedAtRest, Code
<1>9. CASE DrainTimeout
    BY <1>9, <1>0 DEF DrainTimeout, dockerVars, supVars, ChaosTypeOK, SampleRight, HeldRight,
       VerifiedAtRest, Code
<1>10. CASE StopWorkers
    BY <1>10, <1>0 DEF StopWorkers, supVars, ChaosTypeOK, SampleRight, HeldRight, VerifiedAtRest,
       Code
<1>11. CASE Abort
    BY <1>11, <1>0 DEF Abort, dockerVars, supVars, ChaosTypeOK, SampleRight, HeldRight,
       VerifiedAtRest, Code
<1>12. CASE Verify
    BY <1>12, <1>0 DEF Verify, dockerVars, supVars, ChaosTypeOK, SampleRight, HeldRight,
       VerifiedAtRest, Code
<1>13. ASSUME NEW w \in Worker, Crash(w) PROVE SampleRight'
    BY <1>13, <1>0 DEF Crash, supVars, mainVars, ChaosTypeOK, SampleRight, HeldRight,
       VerifiedAtRest, Code
<1>14. ASSUME NEW f \in Fault, Due(f) PROVE SampleRight'
    BY <1>14, <1>0 DEF Due, To, dockerVars, supVars, mainVars, ChaosTypeOK, SampleRight,
       HeldRight, VerifiedAtRest, Code
<1>15. ASSUME NEW f \in Fault, BeginKill(f) PROVE SampleRight'
    BY <1>15, <1>0 DEF BeginKill, To, dockerVars, supVars, mainVars, ChaosTypeOK, SampleRight,
       HeldRight, VerifiedAtRest, Code
<1>16. ASSUME NEW f \in Fault, Kill(f) PROVE SampleRight'
    BY <1>16, <1>0 DEF Kill, To, ExitKilled, supVars, mainVars, ChaosTypeOK, SampleRight,
       HeldRight, VerifiedAtRest, Code
<1>17. ASSUME NEW f \in Fault, KillFails(f) PROVE SampleRight'
    BY <1>17, <1>0 DEF KillFails, DockerErrs, To, TryAgainOrSkip, dockerVars, supVars, mainVars,
       ChaosTypeOK, SampleRight, HeldRight, VerifiedAtRest, Code
<1>18. ASSUME NEW f \in Fault, KillUnreported(f) PROVE SampleRight'
    BY <1>18, <1>0 DEF KillUnreported, DockerErrs, To, TryAgainOrSkip, ExitKilled, supVars,
       mainVars, ChaosTypeOK, SampleRight, HeldRight, VerifiedAtRest, Code
<1>19. ASSUME NEW f \in Fault, Pause(f) PROVE SampleRight'
    BY <1>19, <1>0 DEF Pause, To, supVars, mainVars, ChaosTypeOK, SampleRight, HeldRight,
       VerifiedAtRest, Code
<1>20. ASSUME NEW f \in Fault, PauseFails(f) PROVE SampleRight'
    BY <1>20, <1>0 DEF PauseFails, DockerErrs, To, TryAgainOrSkip, dockerVars, supVars, mainVars,
       ChaosTypeOK, SampleRight, HeldRight, VerifiedAtRest, Code
<1>21. ASSUME NEW f \in Fault, PauseUnreported(f) PROVE SampleRight'
    BY <1>21, <1>0 DEF PauseUnreported, DockerErrs, To, TryAgainOrSkip, supVars, mainVars,
       ChaosTypeOK, SampleRight, HeldRight, VerifiedAtRest, Code
<1>22. ASSUME NEW f \in Fault, Disturb(f) PROVE SampleRight'
    BY <1>22, <1>0 DEF Disturb, To, AddToxic, dockerVars, supVars, mainVars, ChaosTypeOK,
       SampleRight, HeldRight, VerifiedAtRest, Code
<1>23. ASSUME NEW f \in Fault, HealKill(f) PROVE SampleRight'
    BY <1>23, <1>0 DEF HealKill, To, Start, supVars, mainVars, ChaosTypeOK, SampleRight,
       HeldRight, VerifiedAtRest, Code
<1>24. ASSUME NEW f \in Fault, HealKillFails(f) PROVE SampleRight'
    BY <1>24, <1>0 DEF HealKillFails, DockerErrs, dockerVars, supVars, ChaosTypeOK, SampleRight,
       HeldRight, VerifiedAtRest, Code
<1>25. ASSUME NEW f \in Fault, ReleaseHold(f) PROVE SampleRight'
    BY <1>25, <1>0 DEF ReleaseHold, To, dockerVars, supVars, mainVars, ChaosTypeOK, SampleRight,
       HeldRight, VerifiedAtRest, Code
<1>26. ASSUME NEW f \in Fault, HealPause(f) PROVE SampleRight'
    BY <1>26, <1>0 DEF HealPause, DockerErrs, To, supVars, ChaosTypeOK, SampleRight, HeldRight,
       VerifiedAtRest, Code
<1>27. ASSUME NEW f \in Fault, HealNetwork(f) PROVE SampleRight'
    BY <1>27, <1>0 DEF HealNetwork, To, RemoveToxic, dockerVars, supVars, ChaosTypeOK,
       SampleRight, HeldRight, VerifiedAtRest, Code
<1>28. CASE SupervisorPass
    BY <1>28, <1>0 DEF SupervisorPass, dockerVars, mainVars, ChaosTypeOK, SampleRight, HeldRight,
       VerifiedAtRest, Code
<1>29. CASE WorkerStates
    BY <1>29, <1>0 DEF WorkerStates, dockerVars, mainVars, ChaosTypeOK, SampleRight, HeldRight,
       VerifiedAtRest, Code, Clean, CrashyCode, KilledOnPurpose
<1>30. CASE WorkerStatesFails
    BY <1>30, <1>0 DEF WorkerStatesFails, DockerErrs, dockerVars, mainVars, ChaosTypeOK,
       SampleRight, HeldRight, VerifiedAtRest, Code
<1>31. CASE EndPass
    BY <1>31, <1>0 DEF EndPass, dockerVars, mainVars, ChaosTypeOK, SampleRight, HeldRight,
       VerifiedAtRest, Code
<1>32. ASSUME NEW w \in Worker, Look(w) PROVE SampleRight'
    BY <1>32, <1>0 DEF Look, dockerVars, mainVars, ChaosTypeOK, SampleRight, HeldRight,
       VerifiedAtRest, Code
<1>33. ASSUME NEW w \in Worker, Restart(w) PROVE SampleRight'
    BY <1>33, <1>0 DEF Restart, Start, mainVars, ChaosTypeOK, SampleRight, HeldRight,
       VerifiedAtRest, Code
<1>34. ASSUME NEW w \in Worker, RestartFails(w) PROVE SampleRight'
    BY <1>34, <1>0 DEF RestartFails, DockerErrs, dockerVars, mainVars, ChaosTypeOK, SampleRight,
       HeldRight, VerifiedAtRest, Code
<1> QED
    BY StepCases, <1>1, <1>2, <1>3, <1>4, <1>5, <1>6, <1>7, <1>8, <1>9, <1>10, <1>11, <1>12,
       <1>13, <1>14, <1>15, <1>16, <1>17, <1>18, <1>19, <1>20, <1>21, <1>22, <1>23, <1>24, <1>25,
       <1>26, <1>27, <1>28, <1>29, <1>30, <1>31, <1>32, <1>33, <1>34

\* A crash adds one worker that is down, a restart under exit code 70 takes one away, and
\* nothing else adds any.
LEMMA StepCrashes ==
    ASSUME ChaosInv, AlarmInv, ChaosNext
    PROVE  CrashesCounted'
<1> USE ChaosAssumption
<1>0. ChaosTypeOK /\ Phases /\ SampleRight /\ CrashesCounted
    BY DEF ChaosInv, AlarmInv
<1>a. Cardinality(Down) \in Nat /\ restarts[CrashyCode] \in Nat /\ crashes \in Nat
    BY <1>0, FS_CardinalityType DEF CrashesCounted, ChaosTypeOK, Code
<1>b. ASSUME Down' \subseteq Down, crashes' = crashes,
             restarts'[CrashyCode] = restarts[CrashyCode]
      PROVE  CrashesCounted'
    <2>1. IsFiniteSet(Down') /\ Cardinality(Down') <= Cardinality(Down)
        BY <1>b, <1>0, FS_Subset DEF CrashesCounted
    <2>2. Cardinality(Down') \in Nat
        BY <2>1, FS_CardinalityType
    <2> QED
        BY <1>b, <2>1, <2>2, <1>0, <1>a DEF CrashesCounted
<1>1. CASE StartFails
    BY <1>1, <1>b, <1>0 DEF StartFails, dockerVars, supVars, Down, Crashed, Pending, ChaosTypeOK
<1>2. CASE CreateProxies
    BY <1>2, <1>b, <1>0 DEF CreateProxies, dockerVars, supVars, Down, Crashed, Pending,
       ChaosTypeOK
<1>3. CASE ComposeUp
    BY <1>3, <1>b, <1>0 DEF ComposeUp, supVars, Down, Crashed, Pending, ChaosTypeOK, Phases
<1>4. CASE AllJoined
    BY <1>4, <1>b, <1>0 DEF AllJoined, dockerVars, Down, Crashed, Pending, ChaosTypeOK
<1>5. CASE Produce
    BY <1>5, <1>b, <1>0 DEF Produce, dockerVars, supVars, Down, Crashed, Pending, ChaosTypeOK
<1>6. CASE HealAll
    BY <1>6, <1>b, <1>0 DEF HealAll, supVars, Down, Crashed, Pending, ChaosTypeOK
<1>7. CASE HealOrStopFails
    BY <1>7, <1>b, <1>0 DEF HealOrStopFails, DockerErrs, dockerVars, supVars, Down, Crashed,
       Pending, ChaosTypeOK
<1>8. CASE Drained
    BY <1>8, <1>b, <1>0 DEF Drained, dockerVars, supVars, Down, Crashed, Pending, ChaosTypeOK
<1>9. CASE DrainTimeout
    BY <1>9, <1>b, <1>0 DEF DrainTimeout, dockerVars, supVars, Down, Crashed, Pending,
       ChaosTypeOK
<1>10. CASE StopWorkers
    BY <1>10, <1>b, <1>0 DEF StopWorkers, supVars, Down, Crashed, Pending, ChaosTypeOK, Clean,
       CrashyCode, KilledOnPurpose
<1>11. CASE Abort
    BY <1>11, <1>b, <1>0 DEF Abort, dockerVars, supVars, Down, Crashed, Pending, ChaosTypeOK
<1>12. CASE Verify
    BY <1>12, <1>b, <1>0 DEF Verify, dockerVars, supVars, Down, Crashed, Pending, ChaosTypeOK
<1>13. ASSUME NEW w \in Worker, Crash(w) PROVE CrashesCounted'
    <2>1. Down' \subseteq Down \union {w}
        BY <1>13, <1>0 DEF Crash, supVars, Down, Crashed, Pending, ChaosTypeOK
    <2>2. IsFiniteSet(Down \union {w}) /\ Cardinality(Down \union {w}) <= Cardinality(Down) + 1
        <3>1. IsFiniteSet(Down)
            BY <1>0 DEF CrashesCounted
        <3>2. IsFiniteSet(Down \union {w})
            BY <3>1, FS_AddElement
        <3>3. Cardinality(Down \union {w}) = Cardinality(Down)
              \/ Cardinality(Down \union {w}) = Cardinality(Down) + 1
            BY <3>1, FS_AddElement
        <3> QED
            BY <3>2, <3>3, <1>a
    <2>3. IsFiniteSet(Down') /\ Cardinality(Down') <= Cardinality(Down \union {w})
        BY <2>1, <2>2, FS_Subset
    <2>4. Cardinality(Down') \in Nat /\ Cardinality(Down \union {w}) \in Nat
        BY <2>2, <2>3, FS_CardinalityType
    <2> QED
        BY <1>13, <2>2, <2>3, <2>4, <1>0, <1>a DEF Crash, CrashesCounted, supVars
<1>14. ASSUME NEW f \in Fault, Due(f) PROVE CrashesCounted'
    BY <1>14, <1>b, <1>0 DEF Due, To, dockerVars, supVars, mainVars, Down, Crashed, Pending,
       ChaosTypeOK
<1>15. ASSUME NEW f \in Fault, BeginKill(f) PROVE CrashesCounted'
    BY <1>15, <1>b, <1>0 DEF BeginKill, To, dockerVars, supVars, mainVars, Down, Crashed,
       Pending, ChaosTypeOK
<1>16. ASSUME NEW f \in Fault, Kill(f) PROVE CrashesCounted'
    BY <1>16, <1>b, <1>0 DEF Kill, To, ExitKilled, supVars, mainVars, Down, Crashed, Pending,
       ChaosTypeOK, Clean, CrashyCode, KilledOnPurpose
<1>17. ASSUME NEW f \in Fault, KillFails(f) PROVE CrashesCounted'
    BY <1>17, <1>b, <1>0 DEF KillFails, DockerErrs, To, TryAgainOrSkip, dockerVars, supVars,
       mainVars, Down, Crashed, Pending, ChaosTypeOK
<1>18. ASSUME NEW f \in Fault, KillUnreported(f) PROVE CrashesCounted'
    BY <1>18, <1>b, <1>0 DEF KillUnreported, DockerErrs, To, TryAgainOrSkip, ExitKilled, supVars,
       mainVars, Down, Crashed, Pending, ChaosTypeOK, Clean, CrashyCode, KilledOnPurpose
<1>19. ASSUME NEW f \in Fault, Pause(f) PROVE CrashesCounted'
    BY <1>19, <1>b, <1>0 DEF Pause, To, supVars, mainVars, Down, Crashed, Pending, ChaosTypeOK
<1>20. ASSUME NEW f \in Fault, PauseFails(f) PROVE CrashesCounted'
    BY <1>20, <1>b, <1>0 DEF PauseFails, DockerErrs, To, TryAgainOrSkip, dockerVars, supVars,
       mainVars, Down, Crashed, Pending, ChaosTypeOK
<1>21. ASSUME NEW f \in Fault, PauseUnreported(f) PROVE CrashesCounted'
    BY <1>21, <1>b, <1>0 DEF PauseUnreported, DockerErrs, To, TryAgainOrSkip, supVars, mainVars,
       Down, Crashed, Pending, ChaosTypeOK
<1>22. ASSUME NEW f \in Fault, Disturb(f) PROVE CrashesCounted'
    BY <1>22, <1>b, <1>0 DEF Disturb, To, AddToxic, dockerVars, supVars, mainVars, Down, Crashed,
       Pending, ChaosTypeOK
<1>23. ASSUME NEW f \in Fault, HealKill(f) PROVE CrashesCounted'
    BY <1>23, <1>b, <1>0 DEF HealKill, To, Start, supVars, mainVars, Down, Crashed, Pending,
       ChaosTypeOK, Clean, CrashyCode, KilledOnPurpose
<1>24. ASSUME NEW f \in Fault, HealKillFails(f) PROVE CrashesCounted'
    BY <1>24, <1>b, <1>0 DEF HealKillFails, DockerErrs, dockerVars, supVars, Down, Crashed,
       Pending, ChaosTypeOK
<1>25. ASSUME NEW f \in Fault, ReleaseHold(f) PROVE CrashesCounted'
    BY <1>25, <1>b, <1>0 DEF ReleaseHold, To, dockerVars, supVars, mainVars, Down, Crashed,
       Pending, ChaosTypeOK
<1>26. ASSUME NEW f \in Fault, HealPause(f) PROVE CrashesCounted'
    BY <1>26, <1>b, <1>0 DEF HealPause, DockerErrs, To, supVars, Down, Crashed, Pending,
       ChaosTypeOK
<1>27. ASSUME NEW f \in Fault, HealNetwork(f) PROVE CrashesCounted'
    BY <1>27, <1>b, <1>0 DEF HealNetwork, To, RemoveToxic, dockerVars, supVars, Down, Crashed,
       Pending, ChaosTypeOK
<1>28. CASE SupervisorPass
    BY <1>28, <1>b, <1>0 DEF SupervisorPass, dockerVars, mainVars, Down, Crashed, Pending,
       ChaosTypeOK
<1>29. CASE WorkerStates
    BY <1>29, <1>b, <1>0 DEF WorkerStates, dockerVars, mainVars, Down, Crashed, Pending,
       ChaosTypeOK, Code, Clean, CrashyCode, KilledOnPurpose
<1>30. CASE WorkerStatesFails
    BY <1>30, <1>b, <1>0 DEF WorkerStatesFails, DockerErrs, dockerVars, mainVars, Down, Crashed,
       Pending, ChaosTypeOK
<1>31. CASE EndPass
    BY <1>31, <1>b, <1>0 DEF EndPass, dockerVars, mainVars, Down, Crashed, Pending, ChaosTypeOK
<1>32. ASSUME NEW w \in Worker, Look(w) PROVE CrashesCounted'
    BY <1>32, <1>b, <1>0 DEF Look, dockerVars, mainVars, Down, Crashed, Pending, ChaosTypeOK
<1>33. ASSUME NEW w \in Worker, Restart(w) PROVE CrashesCounted'
    <2>1. Down' \subseteq Down \ {w}
        BY <1>33, <1>0 DEF Restart, Start, Down, Crashed, Pending, ChaosTypeOK, SampleRight
    <2>2. CASE sample[w] = CrashyCode
        <3>1. w \in Down
            BY <1>33, <2>2, <1>0 DEF Restart, Down, Pending
        <3>2. IsFiniteSet(Down \ {w}) /\ Cardinality(Down \ {w}) = Cardinality(Down) - 1
            BY <3>1, <1>0, FS_RemoveElement DEF CrashesCounted
        <3>3. IsFiniteSet(Down') /\ Cardinality(Down') <= Cardinality(Down \ {w})
            BY <2>1, <3>2, FS_Subset
        <3>4. restarts'[CrashyCode] = restarts[CrashyCode] + 1
            BY <1>33, <2>2, <1>0 DEF Restart, ChaosTypeOK, Code
        <3>5. Cardinality(Down') \in Nat
            BY <3>3, FS_CardinalityType
        <3> QED
            BY <1>33, <3>2, <3>3, <3>4, <3>5, <1>0, <1>a DEF Restart, CrashesCounted
    <2>3. CASE sample[w] # CrashyCode
        <3>1. restarts'[CrashyCode] = restarts[CrashyCode] /\ crashes' = crashes
            BY <1>33, <2>3, <1>0 DEF Restart, ChaosTypeOK, Code
        <3> QED
            BY <2>1, <3>1, <1>b
    <2> QED
        BY <2>2, <2>3
<1>34. ASSUME NEW w \in Worker, RestartFails(w) PROVE CrashesCounted'
    BY <1>34, <1>b, <1>0 DEF RestartFails, DockerErrs, dockerVars, mainVars, Down, Crashed,
       Pending, ChaosTypeOK
<1> QED
    BY StepCases, <1>1, <1>2, <1>3, <1>4, <1>5, <1>6, <1>7, <1>8, <1>9, <1>10, <1>11, <1>12,
       <1>13, <1>14, <1>15, <1>16, <1>17, <1>18, <1>19, <1>20, <1>21, <1>22, <1>23, <1>24, <1>25,
       <1>26, <1>27, <1>28, <1>29, <1>30, <1>31, <1>32, <1>33, <1>34

\* A lapse is never forgotten.
LEMMA LapsesStay ==
    ASSUME ChaosNext, lapses' = {}
    PROVE  lapses = {}
BY StepCases DEF StartFails, CreateProxies, ComposeUp, AllJoined, Produce, HealAll,
   HealOrStopFails, Drained, DrainTimeout, StopWorkers, Abort, Verify, Crash, Due, BeginKill,
   Kill, KillFails, KillUnreported, Pause, PauseFails, PauseUnreported, Disturb, HealKill,
   HealKillFails, ReleaseHold, HealPause, HealNetwork, SupervisorPass, WorkerStates,
   WorkerStatesFails, EndPass, Look, Restart, RestartFails

\* A second kill of a worker under way is a lapse.
LEMMA StepApart ==
    ASSUME ChaosTypeOK, KillsApart, ChaosNext, lapses = {}, lapses' = {}
    PROVE  KillsApart'
<1> USE ChaosAssumption
<1>1. ASSUME NEW f \in Fault, BeginKill(f) PROVE KillsApart'
    <2>1. \A g \in Killing : WorkerOf[g] # WorkerOf[f]
        BY <1>1 DEF BeginKill
    <2>2. Killing' \subseteq Killing \union {f}
        BY <1>1 DEF BeginKill, To, Killing, ChaosTypeOK
    <2> QED
        BY <2>1, <2>2 DEF KillsApart
<1>2. CASE Killing' \subseteq Killing
    BY <1>2 DEF KillsApart
<1>3. CASE UNCHANGED stage
    BY <1>2, <1>3 DEF Killing
<1>4. ASSUME NEW f \in Fault, NEW st \in {"waiting", "applied", "restarted", "executed", "skipped"},
             To(f, st), st \in {"applied", "restarted"} => KindOf[f] # "kill" \/ f \in Killing
      PROVE  KillsApart'
    BY <1>2, <1>4 DEF To, Killing, ChaosTypeOK
<1>5. ASSUME NEW f \in Fault, Due(f) PROVE KillsApart'
    BY <1>4, <1>5 DEF Due
<1>6. ASSUME NEW f \in Fault, Kill(f) \/ HealKill(f) PROVE KillsApart'
    <2>1. KindOf[f] = "kill" => f \in Killing
        BY <1>6 DEF Kill, HealKill, Killing
    <2> QED
        BY <1>4, <1>6, <2>1 DEF Kill, HealKill
<1>7. ASSUME NEW f \in Fault,
             KillFails(f) \/ KillUnreported(f) \/ PauseFails(f) \/ PauseUnreported(f)
      PROVE  KillsApart'
    BY <1>4, <1>7 DEF KillFails, KillUnreported, PauseFails, PauseUnreported, TryAgainOrSkip
<1>8. ASSUME NEW f \in Fault, Pause(f) \/ Disturb(f) PROVE KillsApart'
    BY <1>4, <1>8 DEF Pause, Disturb
<1>9. ASSUME NEW f \in Fault, ReleaseHold(f) \/ HealPause(f) \/ HealNetwork(f) PROVE KillsApart'
    BY <1>4, <1>9 DEF ReleaseHold, HealPause, HealNetwork
<1> QED
    BY StepCases, <1>1, <1>3, <1>5, <1>6, <1>7, <1>8, <1>9 DEF StartFails, CreateProxies,
       ComposeUp, AllJoined, Produce, HealAll, HealOrStopFails, Drained, DrainTimeout,
       StopWorkers, Abort, Verify, Crash, HealKillFails, SupervisorPass, WorkerStates,
       WorkerStatesFails, EndPass, Look, Restart, RestartFails

\* Kills are held until they are healed, as long as no hold lapses.
LEMMA StepHeld ==
    ASSUME ChaosInv, AlarmInv, ChaosNext, lapses = {}, lapses' = {}
    PROVE  KillsHeld'
<1> USE ChaosAssumption
<1>0. ChaosTypeOK /\ Phases /\ KillsApart /\ KillsHeld /\ SampleTrue /\ lapses = {} /\ lapses' = {}
    BY DEF ChaosInv, AlarmInv
<1>1. CASE StartFails
    BY <1>1, <1>0 DEF StartFails, dockerVars, supVars, ChaosTypeOK, Phases, KillsHeld,
       KillsApart, Killed, Killing, Starting, Clean, CrashyCode, KilledOnPurpose, SampleTrue,
       Crashed
<1>2. CASE CreateProxies
    BY <1>2, <1>0 DEF CreateProxies, dockerVars, supVars, ChaosTypeOK, Phases, KillsHeld,
       KillsApart, Killed, Killing, Starting, Clean, CrashyCode, KilledOnPurpose, SampleTrue,
       Crashed
<1>3. CASE ComposeUp
    BY <1>3, <1>0 DEF ComposeUp, supVars, ChaosTypeOK, Phases, KillsHeld, KillsApart, Killed,
       Killing, Starting, Clean, CrashyCode, KilledOnPurpose, SampleTrue, Crashed
<1>4. CASE AllJoined
    BY <1>4, <1>0 DEF AllJoined, dockerVars, ChaosTypeOK, Phases, KillsHeld, KillsApart, Killed,
       Killing, Starting, Clean, CrashyCode, KilledOnPurpose, SampleTrue, Crashed
<1>5. CASE Produce
    BY <1>5, <1>0 DEF Produce, dockerVars, supVars, ChaosTypeOK, Phases, KillsHeld, KillsApart,
       Killed, Killing, Starting, Clean, CrashyCode, KilledOnPurpose, SampleTrue, Crashed
<1>6. CASE HealAll
    BY <1>6, <1>0 DEF HealAll, supVars, ChaosTypeOK, Phases, KillsHeld, KillsApart, Killed,
       Killing, Starting, Clean, CrashyCode, KilledOnPurpose, SampleTrue, Crashed
<1>7. CASE HealOrStopFails
    BY <1>7, <1>0 DEF HealOrStopFails, DockerErrs, dockerVars, supVars, ChaosTypeOK, Phases,
       KillsHeld, KillsApart, Killed, Killing, Starting, Clean, CrashyCode, KilledOnPurpose,
       SampleTrue, Crashed
<1>8. CASE Drained
    BY <1>8, <1>0 DEF Drained, dockerVars, supVars, ChaosTypeOK, Phases, KillsHeld, KillsApart,
       Killed, Killing, Starting, Clean, CrashyCode, KilledOnPurpose, SampleTrue, Crashed
<1>9. CASE DrainTimeout
    BY <1>9, <1>0 DEF DrainTimeout, dockerVars, supVars, ChaosTypeOK, Phases, KillsHeld,
       KillsApart, Killed, Killing, Starting, Clean, CrashyCode, KilledOnPurpose, SampleTrue,
       Crashed
<1>10. CASE StopWorkers
    BY <1>10, <1>0 DEF StopWorkers, supVars, ChaosTypeOK, Phases, KillsHeld, KillsApart, Killed,
       Killing, Starting, Clean, CrashyCode, KilledOnPurpose, SampleTrue, Crashed
<1>11. CASE Abort
    BY <1>11, <1>0 DEF Abort, dockerVars, supVars, ChaosTypeOK, Phases, KillsHeld, KillsApart,
       Killed, Killing, Starting, Clean, CrashyCode, KilledOnPurpose, SampleTrue, Crashed
<1>12. CASE Verify
    BY <1>12, <1>0 DEF Verify, dockerVars, supVars, ChaosTypeOK, Phases, KillsHeld, KillsApart,
       Killed, Killing, Starting, Clean, CrashyCode, KilledOnPurpose, SampleTrue, Crashed
<1>13. ASSUME NEW w \in Worker, Crash(w) PROVE KillsHeld'
    BY <1>13, <1>0 DEF Crash, supVars, mainVars, ChaosTypeOK, Phases, KillsHeld, KillsApart,
       Killed, Killing, Starting, Clean, CrashyCode, KilledOnPurpose, SampleTrue, Crashed
<1>14. ASSUME NEW f \in Fault, Due(f) PROVE KillsHeld'
    BY <1>14, <1>0 DEF Due, To, dockerVars, supVars, mainVars, ChaosTypeOK, Phases, KillsHeld,
       KillsApart, Killed, Killing, Starting, Clean, CrashyCode, KilledOnPurpose, SampleTrue,
       Crashed
<1>15. ASSUME NEW f \in Fault, BeginKill(f) PROVE KillsHeld'
    BY <1>15, <1>0 DEF BeginKill, To, dockerVars, supVars, mainVars, ChaosTypeOK, Phases,
       KillsHeld, KillsApart, Killed, Killing, Starting, Clean, CrashyCode, KilledOnPurpose,
       SampleTrue, Crashed
<1>16. ASSUME NEW f \in Fault, Kill(f) PROVE KillsHeld'
    BY <1>16, <1>0 DEF Kill, To, ExitKilled, supVars, mainVars, ChaosTypeOK, Phases, KillsHeld,
       KillsApart, Killed, Killing, Starting, Clean, CrashyCode, KilledOnPurpose, SampleTrue,
       Crashed
<1>17. ASSUME NEW f \in Fault, KillFails(f) PROVE KillsHeld'
    BY <1>17, <1>0 DEF KillFails, DockerErrs, To, TryAgainOrSkip, dockerVars, supVars, mainVars,
       ChaosTypeOK, Phases, KillsHeld, KillsApart, Killed, Killing, Starting, Clean, CrashyCode,
       KilledOnPurpose, SampleTrue, Crashed
<1>18. ASSUME NEW f \in Fault, KillUnreported(f) PROVE KillsHeld'
    BY <1>18, <1>0 DEF KillUnreported, DockerErrs, To, TryAgainOrSkip, ExitKilled, supVars,
       mainVars, ChaosTypeOK, Phases, KillsHeld, KillsApart, Killed, Killing, Starting, Clean,
       CrashyCode, KilledOnPurpose, SampleTrue, Crashed
<1>19. ASSUME NEW f \in Fault, Pause(f) PROVE KillsHeld'
    BY <1>19, <1>0 DEF Pause, To, supVars, mainVars, ChaosTypeOK, Phases, KillsHeld, KillsApart,
       Killed, Killing, Starting, Clean, CrashyCode, KilledOnPurpose, SampleTrue, Crashed
<1>20. ASSUME NEW f \in Fault, PauseFails(f) PROVE KillsHeld'
    BY <1>20, <1>0 DEF PauseFails, DockerErrs, To, TryAgainOrSkip, dockerVars, supVars, mainVars,
       ChaosTypeOK, Phases, KillsHeld, KillsApart, Killed, Killing, Starting, Clean, CrashyCode,
       KilledOnPurpose, SampleTrue, Crashed
<1>21. ASSUME NEW f \in Fault, PauseUnreported(f) PROVE KillsHeld'
    BY <1>21, <1>0 DEF PauseUnreported, DockerErrs, To, TryAgainOrSkip, supVars, mainVars,
       ChaosTypeOK, Phases, KillsHeld, KillsApart, Killed, Killing, Starting, Clean, CrashyCode,
       KilledOnPurpose, SampleTrue, Crashed
<1>22. ASSUME NEW f \in Fault, Disturb(f) PROVE KillsHeld'
    BY <1>22, <1>0 DEF Disturb, To, AddToxic, dockerVars, supVars, mainVars, ChaosTypeOK, Phases,
       KillsHeld, KillsApart, Killed, Killing, Starting, Clean, CrashyCode, KilledOnPurpose,
       SampleTrue, Crashed
<1>23. ASSUME NEW f \in Fault, HealKill(f) PROVE KillsHeld'
    BY <1>23, <1>0 DEF HealKill, To, Start, supVars, mainVars, ChaosTypeOK, Phases, KillsHeld,
       KillsApart, Killed, Killing, Starting, Clean, CrashyCode, KilledOnPurpose, SampleTrue,
       Crashed
<1>24. ASSUME NEW f \in Fault, HealKillFails(f) PROVE KillsHeld'
    BY <1>24, <1>0 DEF HealKillFails, DockerErrs, dockerVars, supVars, ChaosTypeOK, Phases,
       KillsHeld, KillsApart, Killed, Killing, Starting, Clean, CrashyCode, KilledOnPurpose,
       SampleTrue, Crashed
<1>25. ASSUME NEW f \in Fault, ReleaseHold(f) PROVE KillsHeld'
    BY <1>25, <1>0 DEF ReleaseHold, To, dockerVars, supVars, mainVars, ChaosTypeOK, Phases,
       KillsHeld, KillsApart, Killed, Killing, Starting, Clean, CrashyCode, KilledOnPurpose,
       SampleTrue, Crashed
<1>26. ASSUME NEW f \in Fault, HealPause(f) PROVE KillsHeld'
    BY <1>26, <1>0 DEF HealPause, DockerErrs, To, supVars, ChaosTypeOK, Phases, KillsHeld,
       KillsApart, Killed, Killing, Starting, Clean, CrashyCode, KilledOnPurpose, SampleTrue,
       Crashed
<1>27. ASSUME NEW f \in Fault, HealNetwork(f) PROVE KillsHeld'
    BY <1>27, <1>0 DEF HealNetwork, To, RemoveToxic, dockerVars, supVars, ChaosTypeOK, Phases,
       KillsHeld, KillsApart, Killed, Killing, Starting, Clean, CrashyCode, KilledOnPurpose,
       SampleTrue, Crashed
<1>28. CASE SupervisorPass
    BY <1>28, <1>0 DEF SupervisorPass, dockerVars, mainVars, ChaosTypeOK, Phases, KillsHeld,
       KillsApart, Killed, Killing, Starting, Clean, CrashyCode, KilledOnPurpose, SampleTrue,
       Crashed
<1>29. CASE WorkerStates
    BY <1>29, <1>0 DEF WorkerStates, dockerVars, mainVars, ChaosTypeOK, Phases, KillsHeld,
       KillsApart, Killed, Killing, Starting, Clean, CrashyCode, KilledOnPurpose, SampleTrue,
       Crashed
<1>30. CASE WorkerStatesFails
    BY <1>30, <1>0 DEF WorkerStatesFails, DockerErrs, dockerVars, mainVars, ChaosTypeOK, Phases,
       KillsHeld, KillsApart, Killed, Killing, Starting, Clean, CrashyCode, KilledOnPurpose,
       SampleTrue, Crashed
<1>31. CASE EndPass
    BY <1>31, <1>0 DEF EndPass, dockerVars, mainVars, ChaosTypeOK, Phases, KillsHeld, KillsApart,
       Killed, Killing, Starting, Clean, CrashyCode, KilledOnPurpose, SampleTrue, Crashed
<1>32. ASSUME NEW w \in Worker, Look(w) PROVE KillsHeld'
    BY <1>32, <1>0 DEF Look, dockerVars, mainVars, ChaosTypeOK, Phases, KillsHeld, KillsApart,
       Killed, Killing, Starting, Clean, CrashyCode, KilledOnPurpose, SampleTrue, Crashed
<1>33. ASSUME NEW w \in Worker, Restart(w) PROVE KillsHeld'
    BY <1>33, <1>0 DEF Restart, Start, mainVars, ChaosTypeOK, Phases, KillsHeld, KillsApart,
       Killed, Killing, Starting, Clean, CrashyCode, KilledOnPurpose, SampleTrue, Crashed
<1>34. ASSUME NEW w \in Worker, RestartFails(w) PROVE KillsHeld'
    BY <1>34, <1>0 DEF RestartFails, DockerErrs, dockerVars, mainVars, ChaosTypeOK, Phases,
       KillsHeld, KillsApart, Killed, Killing, Starting, Clean, CrashyCode, KilledOnPurpose,
       SampleTrue, Crashed
<1> QED
    BY StepCases, <1>1, <1>2, <1>3, <1>4, <1>5, <1>6, <1>7, <1>8, <1>9, <1>10, <1>11, <1>12,
       <1>13, <1>14, <1>15, <1>16, <1>17, <1>18, <1>19, <1>20, <1>21, <1>22, <1>23, <1>24, <1>25,
       <1>26, <1>27, <1>28, <1>29, <1>30, <1>31, <1>32, <1>33, <1>34

\* What the supervisor has still to act on stays true, as long as no hold lapses.
LEMMA StepSample ==
    ASSUME ChaosInv, AlarmInv, ChaosNext, lapses = {}, lapses' = {}
    PROVE  SampleTrue'
<1> USE ChaosAssumption
<1>0. /\ ChaosTypeOK /\ Phases /\ VerifiedAtRest /\ KillsApart /\ KillsHeld
      /\ SampleRight /\ SampleTrue /\ lapses = {} /\ lapses' = {}
    BY DEF ChaosInv, AlarmInv
<1>1. CASE StartFails
    BY <1>1, <1>0 DEF StartFails, dockerVars, supVars, ChaosTypeOK, Phases, Starting, KillsHeld,
       Killed, Killing, KillsApart, SampleTrue, Crashed, Clean, CrashyCode, KilledOnPurpose,
       VerifiedAtRest, SeenDown
<1>2. CASE CreateProxies
    BY <1>2, <1>0 DEF CreateProxies, dockerVars, supVars, ChaosTypeOK, Phases, Starting,
       KillsHeld, Killed, Killing, KillsApart, SampleTrue, Crashed, Clean, CrashyCode,
       KilledOnPurpose, VerifiedAtRest, SeenDown
<1>3. CASE ComposeUp
    BY <1>3, <1>0 DEF ComposeUp, supVars, ChaosTypeOK, Phases, Starting, KillsHeld, Killed,
       Killing, KillsApart, SampleTrue, Crashed, Clean, CrashyCode, KilledOnPurpose,
       VerifiedAtRest, SeenDown
<1>4. CASE AllJoined
    BY <1>4, <1>0 DEF AllJoined, dockerVars, ChaosTypeOK, Phases, Starting, KillsHeld, Killed,
       Killing, KillsApart, SampleTrue, Crashed, Clean, CrashyCode, KilledOnPurpose,
       VerifiedAtRest, SeenDown
<1>5. CASE Produce
    BY <1>5, <1>0 DEF Produce, dockerVars, supVars, ChaosTypeOK, Phases, Starting, KillsHeld,
       Killed, Killing, KillsApart, SampleTrue, Crashed, Clean, CrashyCode, KilledOnPurpose,
       VerifiedAtRest, SeenDown
<1>6. CASE HealAll
    BY <1>6, <1>0 DEF HealAll, supVars, ChaosTypeOK, Phases, Starting, KillsHeld, Killed,
       Killing, KillsApart, SampleTrue, Crashed, Clean, CrashyCode, KilledOnPurpose,
       VerifiedAtRest, SeenDown
<1>7. CASE HealOrStopFails
    BY <1>7, <1>0 DEF HealOrStopFails, DockerErrs, dockerVars, supVars, ChaosTypeOK, Phases,
       Starting, KillsHeld, Killed, Killing, KillsApart, SampleTrue, Crashed, Clean, CrashyCode,
       KilledOnPurpose, VerifiedAtRest, SeenDown
<1>8. CASE Drained
    BY <1>8, <1>0 DEF Drained, dockerVars, supVars, ChaosTypeOK, Phases, Starting, KillsHeld,
       Killed, Killing, KillsApart, SampleTrue, Crashed, Clean, CrashyCode, KilledOnPurpose,
       VerifiedAtRest, SeenDown
<1>9. CASE DrainTimeout
    BY <1>9, <1>0 DEF DrainTimeout, dockerVars, supVars, ChaosTypeOK, Phases, Starting,
       KillsHeld, Killed, Killing, KillsApart, SampleTrue, Crashed, Clean, CrashyCode,
       KilledOnPurpose, VerifiedAtRest, SeenDown
<1>10. CASE StopWorkers
    BY <1>10, <1>0 DEF StopWorkers, supVars, ChaosTypeOK, Phases, Starting, KillsHeld, Killed,
       Killing, KillsApart, SampleTrue, Crashed, Clean, CrashyCode, KilledOnPurpose,
       VerifiedAtRest, SeenDown
<1>11. CASE Abort
    BY <1>11, <1>0 DEF Abort, dockerVars, supVars, ChaosTypeOK, Phases, Starting, KillsHeld,
       Killed, Killing, KillsApart, SampleTrue, Crashed, Clean, CrashyCode, KilledOnPurpose,
       VerifiedAtRest, SeenDown
<1>12. CASE Verify
    BY <1>12, <1>0 DEF Verify, dockerVars, supVars, ChaosTypeOK, Phases, Starting, KillsHeld,
       Killed, Killing, KillsApart, SampleTrue, Crashed, Clean, CrashyCode, KilledOnPurpose,
       VerifiedAtRest, SeenDown
<1>13. ASSUME NEW w \in Worker, Crash(w) PROVE SampleTrue'
    BY <1>13, <1>0 DEF Crash, supVars, mainVars, ChaosTypeOK, Phases, Starting, KillsHeld,
       Killed, Killing, KillsApart, SampleTrue, Crashed, Clean, CrashyCode, KilledOnPurpose,
       VerifiedAtRest, SeenDown
<1>14. ASSUME NEW f \in Fault, Due(f) PROVE SampleTrue'
    BY <1>14, <1>0 DEF Due, To, dockerVars, supVars, mainVars, ChaosTypeOK, Phases, Starting,
       KillsHeld, Killed, Killing, KillsApart, SampleTrue, Crashed, Clean, CrashyCode,
       KilledOnPurpose, VerifiedAtRest, SeenDown
<1>15. ASSUME NEW f \in Fault, BeginKill(f) PROVE SampleTrue'
    BY <1>15, <1>0 DEF BeginKill, To, dockerVars, supVars, mainVars, ChaosTypeOK, Phases,
       Starting, KillsHeld, Killed, Killing, KillsApart, SampleTrue, Crashed, Clean, CrashyCode,
       KilledOnPurpose, VerifiedAtRest, SeenDown
<1>16. ASSUME NEW f \in Fault, Kill(f) PROVE SampleTrue'
    BY <1>16, <1>0 DEF Kill, To, ExitKilled, supVars, mainVars, ChaosTypeOK, Phases, Starting,
       KillsHeld, Killed, Killing, KillsApart, SampleTrue, Crashed, Clean, CrashyCode,
       KilledOnPurpose, VerifiedAtRest, SeenDown
<1>17. ASSUME NEW f \in Fault, KillFails(f) PROVE SampleTrue'
    BY <1>17, <1>0 DEF KillFails, DockerErrs, To, TryAgainOrSkip, dockerVars, supVars, mainVars,
       ChaosTypeOK, Phases, Starting, KillsHeld, Killed, Killing, KillsApart, SampleTrue,
       Crashed, Clean, CrashyCode, KilledOnPurpose, VerifiedAtRest, SeenDown
<1>18. ASSUME NEW f \in Fault, KillUnreported(f) PROVE SampleTrue'
    BY <1>18, <1>0 DEF KillUnreported, DockerErrs, To, TryAgainOrSkip, ExitKilled, supVars,
       mainVars, ChaosTypeOK, Phases, Starting, KillsHeld, Killed, Killing, KillsApart,
       SampleTrue, Crashed, Clean, CrashyCode, KilledOnPurpose, VerifiedAtRest, SeenDown
<1>19. ASSUME NEW f \in Fault, Pause(f) PROVE SampleTrue'
    BY <1>19, <1>0 DEF Pause, To, supVars, mainVars, ChaosTypeOK, Phases, Starting, KillsHeld,
       Killed, Killing, KillsApart, SampleTrue, Crashed, Clean, CrashyCode, KilledOnPurpose,
       VerifiedAtRest, SeenDown
<1>20. ASSUME NEW f \in Fault, PauseFails(f) PROVE SampleTrue'
    BY <1>20, <1>0 DEF PauseFails, DockerErrs, To, TryAgainOrSkip, dockerVars, supVars, mainVars,
       ChaosTypeOK, Phases, Starting, KillsHeld, Killed, Killing, KillsApart, SampleTrue,
       Crashed, Clean, CrashyCode, KilledOnPurpose, VerifiedAtRest, SeenDown
<1>21. ASSUME NEW f \in Fault, PauseUnreported(f) PROVE SampleTrue'
    BY <1>21, <1>0 DEF PauseUnreported, DockerErrs, To, TryAgainOrSkip, supVars, mainVars,
       ChaosTypeOK, Phases, Starting, KillsHeld, Killed, Killing, KillsApart, SampleTrue,
       Crashed, Clean, CrashyCode, KilledOnPurpose, VerifiedAtRest, SeenDown
<1>22. ASSUME NEW f \in Fault, Disturb(f) PROVE SampleTrue'
    BY <1>22, <1>0 DEF Disturb, To, AddToxic, dockerVars, supVars, mainVars, ChaosTypeOK, Phases,
       Starting, KillsHeld, Killed, Killing, KillsApart, SampleTrue, Crashed, Clean, CrashyCode,
       KilledOnPurpose, VerifiedAtRest, SeenDown
<1>23. ASSUME NEW f \in Fault, HealKill(f) PROVE SampleTrue'
    <2>1. f \in Killing /\ Killed(WorkerOf[f]) /\ WorkerOf[f] \in Worker
        BY <1>23, <1>0 DEF HealKill, Killing, KillsHeld
    <2>2. Crashed' = Crashed /\ \A x \in Worker : x # WorkerOf[f] /\ Killed(x) => Killed(x)'
        BY <1>23, <2>1, <1>0 DEF HealKill, Start, Killed, Crashed, ChaosTypeOK, CrashyCode,
           KilledOnPurpose
    <2>3. ~SeenDown(WorkerOf[f])
        BY <1>23, <1>0 DEF HealKill
    <2>4. sup = "looking" => \A x \in todo : sample[x] = KilledOnPurpose =>
                                 x \in before \/ x # WorkerOf[f]
        BY <2>3 DEF SeenDown
    <2>5. UNCHANGED <<sup, sample, before, held, todo, starting, restarts>> /\ todo \subseteq Worker
        BY <1>23, <1>0 DEF HealKill, supVars, ChaosTypeOK
    <2> QED
        BY <2>2, <2>4, <2>5, <1>0 DEF SampleTrue
<1>24. ASSUME NEW f \in Fault, HealKillFails(f) PROVE SampleTrue'
    BY <1>24, <1>0 DEF HealKillFails, DockerErrs, dockerVars, supVars, ChaosTypeOK, Phases,
       Starting, KillsHeld, Killed, Killing, KillsApart, SampleTrue, Crashed, Clean, CrashyCode,
       KilledOnPurpose, VerifiedAtRest, SeenDown
<1>25. ASSUME NEW f \in Fault, ReleaseHold(f) PROVE SampleTrue'
    BY <1>25, <1>0 DEF ReleaseHold, To, dockerVars, supVars, mainVars, ChaosTypeOK, Phases,
       Starting, KillsHeld, Killed, Killing, KillsApart, SampleTrue, Crashed, Clean, CrashyCode,
       KilledOnPurpose, VerifiedAtRest, SeenDown
<1>26. ASSUME NEW f \in Fault, HealPause(f) PROVE SampleTrue'
    BY <1>26, <1>0 DEF HealPause, DockerErrs, To, supVars, ChaosTypeOK, Phases, Starting,
       KillsHeld, Killed, Killing, KillsApart, SampleTrue, Crashed, Clean, CrashyCode,
       KilledOnPurpose, VerifiedAtRest, SeenDown
<1>27. ASSUME NEW f \in Fault, HealNetwork(f) PROVE SampleTrue'
    BY <1>27, <1>0 DEF HealNetwork, To, RemoveToxic, dockerVars, supVars, ChaosTypeOK, Phases,
       Starting, KillsHeld, Killed, Killing, KillsApart, SampleTrue, Crashed, Clean, CrashyCode,
       KilledOnPurpose, VerifiedAtRest, SeenDown
<1>28. CASE SupervisorPass
    BY <1>28, <1>0 DEF SupervisorPass, dockerVars, mainVars, ChaosTypeOK, Phases, Starting,
       KillsHeld, Killed, Killing, KillsApart, SampleTrue, Crashed, Clean, CrashyCode,
       KilledOnPurpose, VerifiedAtRest, SeenDown
<1>29. CASE WorkerStates
    BY <1>29, <1>0 DEF WorkerStates, dockerVars, mainVars, ChaosTypeOK, Phases, Starting,
       KillsHeld, Killed, Killing, KillsApart, SampleTrue, Crashed, Clean, CrashyCode,
       KilledOnPurpose, VerifiedAtRest, SeenDown
<1>30. CASE WorkerStatesFails
    BY <1>30, <1>0 DEF WorkerStatesFails, DockerErrs, dockerVars, mainVars, ChaosTypeOK, Phases,
       Starting, KillsHeld, Killed, Killing, KillsApart, SampleTrue, Crashed, Clean, CrashyCode,
       KilledOnPurpose, VerifiedAtRest, SeenDown
<1>31. CASE EndPass
    BY <1>31, <1>0 DEF EndPass, dockerVars, mainVars, ChaosTypeOK, Phases, Starting, KillsHeld,
       Killed, Killing, KillsApart, SampleTrue, Crashed, Clean, CrashyCode, KilledOnPurpose,
       VerifiedAtRest, SeenDown
<1>32. ASSUME NEW w \in Worker, Look(w) PROVE SampleTrue'
    <2>1. starting' \subseteq {w} /\ starting = {} /\ todo' = todo \ {w} /\ w \in todo
        BY <1>32 DEF Look
    <2>2. sample[w] \in Code /\ ~Held(w) => sample[w] = CrashyCode /\ w \in Crashed
        BY <1>32, <2>1, <1>0 DEF Look, Held, SampleTrue, SampleRight, Code
    <2>3. \A x \in starting' : sample[x] = CrashyCode /\ x \in Crashed
        BY <1>32, <2>2 DEF Look
    <2>4. UNCHANGED <<sup, sample, before, held, container, code, Crashed, restarts>>
        BY <1>32 DEF Look, dockerVars, Crashed
    <2> QED
        BY <2>1, <2>3, <2>4, <1>0 DEF SampleTrue, Killed
<1>33. ASSUME NEW w \in Worker, Restart(w) PROVE SampleTrue'
    <2>1. w \in Crashed /\ sample[w] = CrashyCode
        BY <1>33, <1>0 DEF Restart, SampleTrue
    <2>2. restarts'[KilledOnPurpose] = restarts[KilledOnPurpose]
        BY <1>33, <2>1, <1>0 DEF Restart, ChaosTypeOK, Code, CrashyCode, KilledOnPurpose
    <2>3. Crashed' = Crashed \ {w} /\ \A x \in Worker : Killed(x) => Killed(x)'
        BY <1>33, <2>1, <1>0 DEF Restart, Start, Crashed, Killed, ChaosTypeOK, CrashyCode,
           KilledOnPurpose
    <2>4. w \notin todo /\ todo \subseteq Worker
        BY <1>33, <1>0 DEF Restart, SampleRight, ChaosTypeOK
    <2> QED
        BY <1>33, <2>2, <2>3, <2>4, <1>0 DEF Restart, SampleTrue
<1>34. ASSUME NEW w \in Worker, RestartFails(w) PROVE SampleTrue'
    BY <1>34, <1>0 DEF RestartFails, DockerErrs, dockerVars, mainVars, ChaosTypeOK, Phases,
       Starting, KillsHeld, Killed, Killing, KillsApart, SampleTrue, Crashed, Clean, CrashyCode,
       KilledOnPurpose, VerifiedAtRest, SeenDown
<1> QED
    BY StepCases, <1>1, <1>2, <1>3, <1>4, <1>5, <1>6, <1>7, <1>8, <1>9, <1>10, <1>11, <1>12,
       <1>13, <1>14, <1>15, <1>16, <1>17, <1>18, <1>19, <1>20, <1>21, <1>22, <1>23, <1>24, <1>25,
       <1>26, <1>27, <1>28, <1>29, <1>30, <1>31, <1>32, <1>33, <1>34

\* What the invariant is for.
LEMMA AlarmsFollow == ChaosInv /\ AlarmInv => AlarmsRight
<1> SUFFICES ASSUME ChaosInv, AlarmInv PROVE AlarmsRight
    OBVIOUS
<1>1. Cardinality(Down) \in Nat /\ restarts[CrashyCode] \in Nat /\ crashes \in Nat
    BY ChaosAssumption, FS_CardinalityType
       DEF ChaosInv, ChaosTypeOK, AlarmInv, CrashesCounted, Code
<1>2. restarts[CrashyCode] <= crashes
    BY <1>1 DEF AlarmInv, CrashesCounted
<1>3. held \subseteq {WorkerOf[f] : f \in Killing}
    BY DEF AlarmInv, HeldRight
<1>4. restarts[Clean] = 0
    BY DEF AlarmInv, SampleRight
<1>5. lapses = {} => KilledStayDown /\ restarts[KilledOnPurpose] = 0
    BY DEF AlarmInv, KillsHeld, SampleTrue, KilledStayDown, Killed
<1> QED
    BY <1>2, <1>3, <1>4, <1>5 DEF AlarmsRight

\* Every action keeps the invariant.
LEMMA StepAlarm == ChaosInv /\ AlarmInv /\ [ChaosNext]_chaosVars => AlarmInv'
<1> SUFFICES ASSUME ChaosInv, AlarmInv, [ChaosNext]_chaosVars PROVE AlarmInv'
    OBVIOUS
<1>1. CASE ChaosNext
    <2>1. HeldRight' /\ SampleRight' /\ CrashesCounted'
        BY <1>1, StepHeldRight, StepSampleRight, StepCrashes
    <2>2. ASSUME lapses' = {} PROVE KillsApart' /\ KillsHeld' /\ SampleTrue'
        <3>1. lapses = {} /\ ChaosTypeOK /\ KillsApart
            BY <1>1, <2>2, LapsesStay DEF AlarmInv, ChaosInv
        <3> QED
            BY <1>1, <2>2, <3>1, StepApart, StepHeld, StepSample
    <2> QED
        BY <2>1, <2>2 DEF AlarmInv
<1>2. CASE UNCHANGED chaosVars
    BY <1>2 DEF AlarmInv, HeldRight, SampleRight, CrashesCounted, Down, Crashed, Pending,
          KillsApart, KillsHeld, Killed, Killing, SampleTrue, chaosVars, dockerVars, supVars,
          mainVars
<1> QED
    BY <1>1, <1>2

\* The invariant of the alarms holds throughout every run.
LEMMA AlarmAlwaysSound == ChaosSpec => []AlarmInv
BY InitAlarm, ChaosAlwaysSound, StepAlarm, PTL DEF ChaosSpec

\* The supervisor's alarms are right in every run, of every plan: a restart counted under exit
\* code 70 was a crash, no worker told to stop is counted, and only a worker with a kill under
\* way is on hold.  Until the first lapse of a hold, killed workers also stay down until the
\* injector starts them, and none is counted as an unexpected exit.
THEOREM AlarmsAreRight == ChaosSpec => []AlarmsRight
BY ChaosAlwaysSound, AlarmAlwaysSound, AlarmsFollow, PTL

-----------------------------------------------------------------------------
(* The results of every run *)

\* The state of containers, faults, supervisor and orchestrator is of its type; the supervisor
\* starts one worker at a time, and none once it is off or failed.
THEOREM ChaosTypes == ChaosSpec => []ChaosTypeOK
BY ChaosAlwaysSound, PTL DEF ChaosInv

\* The verifier reads a system at rest: Run.main awaits the supervisor and the faults before
\* it stops the workers, whatever crashed, was retried or timed out.
THEOREM VerifiesAtRest == ChaosSpec => []VerifiedAtRest
BY ChaosAlwaysSound, PTL DEF ChaosInv

\* heal_all leaves nothing behind, and nothing disturbs the drain after it: also not a network
\* fault that was skipped because only its reply was lost.
THEOREM DrainsInPeace == ChaosSpec => []DrainUndisturbed
BY ChaosAlwaysSound, PTL DEF ChaosInv

-----------------------------------------------------------------------------
(* The verdict: one job *)

\* How many times the entry was delivered, of a dead job when it was given up.
Reached(s) == IF s.dlq # <<>> THEN s.dlq[1].deliveries ELSE s.count

HasOwner(s) == \E r \in s.runs : r.a = s.attempt /\ r.d = s.count

\* The deliveries of this attempt whose run has ended.
OverRuns(s) == {d \in 1 .. s.count : \A r \in s.runs : ~(r.a = s.attempt /\ r.d = d)}

\* Every run is of an attempt and a delivery of its own, none ahead of the entry.
RunsKnown(s) ==
    /\ s.need \in Kinds[s.kind].needs
    /\ s.attempt < MaxAttempts
    /\ \A r \in s.runs : r.a <= s.attempt
    /\ s.copy \in {"queued", "delayed"} => \A r \in s.runs : r.a < s.attempt
    /\ s.copy = "pending" => s.count >= 1 /\ \A r \in s.runs : r.a = s.attempt => r.d <= s.count
    /\ \A r, q \in s.runs : r.a = q.a /\ r.d = q.d => r = q
    /\ \A r \in s.runs : r.phase = "doomed" <=> r.d > MaxDeliveries

\* What faults have done to the job: an attempt beyond what its handler needs, a delivery
\* beyond the first (of a slow job, the second) and the loss of an entry's owner each took one.
NotWorn(s, f) ==
    /\ Kinds[s.kind].expect = "SUCCEEDED" => s.attempt <= s.need + f
    /\ s.kind = "crashy" => s.attempt = 0 /\ \A r \in s.runs : r.d <= Reached(s)
    /\ s.kind # "crashy" =>
         /\ \A r \in s.runs : r.d <= MaxDeliveries
         /\ s.copy = "pending" =>
              s.count + (IF HasOwner(s) THEN 0 ELSE 1) <= f + (IF s.kind = "slow" THEN 2 ELSE 1)
    /\ s.kind = "slow" /\ s.copy = "pending" => Cardinality(OverRuns(s)) <= f

\* DlqRight, of the job's state.
DlqFits(s, e) ==
    /\ e.reason = Kinds[s.kind].reason
    /\ s.kind = "crashy" => e.deliveries > MaxDeliveries
    /\ s.kind \in {"poison", "hang_forever"} => e.attempts = MaxAttempts
    /\ s.kind = "hang_forever" => e.error = "hang"

\* The job ends as its kind says, with one result and one effect, or one DLQ entry.
EndsRight(s) ==
    /\ s.done \in {"NONE", Kinds[s.kind].expect}
    /\ s.copy = "none" => s.done # "NONE"
    /\ s.results = IF s.done = "SUCCEEDED" THEN 1 ELSE 0
    /\ s.done = "DEAD" => s.copy = "none" /\ Len(s.dlq) = 1 /\ DlqFits(s, s.dlq[1])
    /\ s.done # "DEAD" => s.dlq = <<>>
    /\ s.effects \in {0, 1}
    /\ s.effects = 1 => Kinds[s.kind].effect
    /\ \A r \in s.runs : r.phase = "applied" => s.effects = 1
    /\ s.done = "SUCCEEDED" /\ Kinds[s.kind].effect => s.effects = 1

JobSound(s, f) ==
    /\ s \in JobState /\ (s.copy # "pending" => s.count = 0)
    /\ RunsKnown(s) /\ NotWorn(s, f) /\ EndsRight(s)

-----------------------------------------------------------------------------
(* The verdict: what is counted *)

\* The runs of crashy jobs that have ended: a delivery each.
CrashyOver ==
    {x \in Crashy \X (1 .. MaxDeliveries) :
        x[2] <= Reached(job[x[1]]) /\ \A r \in job[x[1]].runs : r.d # x[2]}

CrashyAt(n) == {j \in Crashy : Reached(job[j]) >= n}

Counted ==
    /\ DOMAIN reclaims = 2 .. MaxDeliveries + MaxFaults + 1
    /\ \A n \in DOMAIN reclaims :
         /\ reclaims[n] \in Nat /\ reclaims[n] >= Cardinality(CrashyAt(n))
         /\ n > MaxDeliveries => reclaims[n] = Cardinality(CrashyAt(n))
    /\ crashCount \in Nat /\ crashCount <= Cardinality(CrashyOver)
    /\ faults \in 0 .. MaxFaults /\ timeouts \in Nat /\ timeouts <= faults /\ late = 0

VerdictInv ==
    /\ job \in [Job -> JobState]
    /\ \A j \in Job : JobSound(job[j], faults)
    /\ Counted

-----------------------------------------------------------------------------
(* The kinds *)

\* The sizing of the mix, spelled out.
LEMMA Sizes ==
    /\ MaxFaults \in Nat /\ MaxAttempts \in Nat /\ MaxDeliveries \in Nat
    /\ 3 + MaxFaults < MaxAttempts /\ 2 + MaxFaults <= MaxDeliveries /\ IsFiniteSet(Job)
BY SizingAssumption DEF MaxFailTimes

\* What the proofs need to know of the ten kinds.
KindKnown(k) ==
    /\ Kinds[k].expect \in {"SUCCEEDED", "DEAD"}
    /\ Kinds[k].bad \in {"none", "raise", "hang", "crash"}
    /\ Kinds[k].bad = "crash" <=> k = "crashy"
    /\ Kinds[k].expect = "DEAD" <=> k \in {"hang_forever", "poison", "crashy"}
    /\ k = "slow" => Kinds[k].bad = "none"
    /\ Kinds[k].expect = "SUCCEEDED" => Kinds[k].needs \subseteq 0 .. 3
    /\ Kinds[k].expect = "DEAD" => ~Kinds[k].effect /\ Kinds[k].bad # "none"
    /\ k = "hang_forever" => Kinds[k].needs = {MaxAttempts + 1000} /\ Kinds[k].bad = "hang"
    /\ k \in {"poison", "crashy"} => Kinds[k].needs = {MaxAttempts}
    /\ k = "crashy" => Kinds[k].reason = "max_deliveries"
    /\ k \in {"hang_forever", "poison"} => Kinds[k].reason = "max_attempts"
    /\ Kinds[k].bad = "hang" => k \in {"hang", "hang_thread", "hang_process", "hang_forever"}
    /\ k \in {"hang", "hang_process"} => Kinds[k].needs = 1 .. 2
    /\ k = "hang_thread" => Kinds[k].needs = {1}

\* It follows from the table.
LEMMA KindFacts == \A k \in KindName : KindKnown(k) /\ Kinds[k].effect \in BOOLEAN
<1>1. KindName = {"normal", "flaky", "slow", "cpu", "hang", "hang_thread", "hang_process",
                  "hang_forever", "poison", "crashy"}
    BY DEF KindName, Kinds
<1>2. Kinds["normal"] = Kind("SUCCEEDED", TRUE, "none", {0}, "none")
    BY DEF Kinds
<1>3. Kinds["flaky"] = Kind("SUCCEEDED", TRUE, "raise", 1 .. MaxFailTimes, "none")
    BY DEF Kinds
<1>4. Kinds["slow"] = Kind("SUCCEEDED", TRUE, "none", {0}, "none")
    BY DEF Kinds
<1>5. Kinds["cpu"] = Kind("SUCCEEDED", FALSE, "none", {0}, "none")
    BY DEF Kinds
<1>6. Kinds["hang"] = Kind("SUCCEEDED", TRUE, "hang", 1 .. MaxHangAttempts, "none")
    BY DEF Kinds
<1>7. Kinds["hang_thread"] = Kind("SUCCEEDED", FALSE, "hang", {1}, "none")
    BY DEF Kinds
<1>8. Kinds["hang_process"] = Kind("SUCCEEDED", FALSE, "hang", 1 .. MaxHangAttempts, "none")
    BY DEF Kinds
<1>9. Kinds["hang_forever"] = Kind("DEAD", FALSE, "hang", {MaxAttempts + 1000}, "max_attempts")
    BY DEF Kinds
<1>10. Kinds["poison"] = Kind("DEAD", FALSE, "raise", {MaxAttempts}, "max_attempts")
    BY DEF Kinds
<1>11. Kinds["crashy"] = Kind("DEAD", FALSE, "crash", {MaxAttempts}, "max_deliveries")
    BY DEF Kinds
<1>12. KindKnown("normal") /\ Kinds["normal"].effect \in BOOLEAN
    BY <1>2 DEF KindKnown, Kind, MaxFailTimes, MaxHangAttempts
<1>13. KindKnown("flaky") /\ Kinds["flaky"].effect \in BOOLEAN
    BY <1>3 DEF KindKnown, Kind, MaxFailTimes, MaxHangAttempts
<1>14. KindKnown("slow") /\ Kinds["slow"].effect \in BOOLEAN
    BY <1>4 DEF KindKnown, Kind, MaxFailTimes, MaxHangAttempts
<1>15. KindKnown("cpu") /\ Kinds["cpu"].effect \in BOOLEAN
    BY <1>5 DEF KindKnown, Kind, MaxFailTimes, MaxHangAttempts
<1>16. KindKnown("hang") /\ Kinds["hang"].effect \in BOOLEAN
    BY <1>6 DEF KindKnown, Kind, MaxFailTimes, MaxHangAttempts
<1>17. KindKnown("hang_thread") /\ Kinds["hang_thread"].effect \in BOOLEAN
    BY <1>7 DEF KindKnown, Kind, MaxFailTimes, MaxHangAttempts
<1>18. KindKnown("hang_process") /\ Kinds["hang_process"].effect \in BOOLEAN
    BY <1>8 DEF KindKnown, Kind, MaxFailTimes, MaxHangAttempts
<1>19. KindKnown("hang_forever") /\ Kinds["hang_forever"].effect \in BOOLEAN
    BY <1>9 DEF KindKnown, Kind, MaxFailTimes, MaxHangAttempts
<1>20. KindKnown("poison") /\ Kinds["poison"].effect \in BOOLEAN
    BY <1>10 DEF KindKnown, Kind, MaxFailTimes, MaxHangAttempts
<1>21. KindKnown("crashy") /\ Kinds["crashy"].effect \in BOOLEAN
    BY <1>11 DEF KindKnown, Kind, MaxFailTimes, MaxHangAttempts
<1> QED
    BY <1>1, <1>12, <1>13, <1>14, <1>15, <1>16, <1>17, <1>18, <1>19, <1>20, <1>21

-----------------------------------------------------------------------------
(* One job, step by step *)

\* The fields of a job's state.
LEMMA JobFields ==
    ASSUME NEW s, NEW f, JobSound(s, f)
    PROVE  /\ s \in JobState /\ s.kind \in KindName /\ s.need \in Nat
           /\ s.copy \in {"queued", "pending", "delayed", "none"}
           /\ s.attempt \in 0 .. MaxAttempts /\ s.attempt \in Nat /\ s.count \in Nat
           /\ s.runs \subseteq Run /\ s.done \in {"NONE", "SUCCEEDED", "DEAD"}
           /\ s.dlq \in Seq(DlqEntry) /\ s.results \in Nat /\ s.effects \in Nat
           /\ \A r \in s.runs : r \in Run /\ r.a \in Nat /\ r.d \in Nat /\ r.d >= 1
BY Sizes DEF JobSound, JobState, Run

\* A job has finitely many runs of an attempt over.
LEMMA OverFinite ==
    ASSUME NEW s, s.count \in Nat
    PROVE  IsFiniteSet(OverRuns(s)) /\ Cardinality(OverRuns(s)) \in Nat
<1> DEFINE all == 1 .. s.count
           over == OverRuns(s)
<1>1. IsFiniteSet(all)
    BY FS_Interval
<1>2. over \subseteq all
    BY DEF OverRuns
<1> HIDE DEF all, over
<1>3. IsFiniteSet(over)
    BY <1>1, <1>2, FS_Subset
<1>4. Cardinality(over) \in Nat
    BY <1>3, FS_CardinalityType
<1> QED
    BY <1>3, <1>4 DEF over

\* Faults that strike elsewhere.
LEMMA MoreFaults ==
    ASSUME NEW s, NEW f \in Nat, NEW g \in Nat, f <= g, JobSound(s, f)
    PROVE  JobSound(s, g)
<1>1. s.need \in Nat /\ s.attempt \in Nat /\ s.count \in Nat
    BY JobFields
<1>2. Cardinality(OverRuns(s)) \in Nat
    BY <1>1, OverFinite
<1>3. PICK c \in Nat : c = Cardinality(OverRuns(s))
    BY <1>2
<1>4. NotWorn(s, g)
    BY <1>1, <1>3 DEF JobSound, NotWorn
<1> QED
    BY <1>4 DEF JobSound

\* The first delivery of an attempt.
LEMMA StepDeliver ==
    ASSUME NEW s, NEW f \in Nat, f <= MaxFaults, JobSound(s, f), s.copy = "queued"
    PROVE  JobSound([s EXCEPT !.copy = "pending", !.count = 1,
                       !.runs = @ \union {[a |-> s.attempt, d |-> 1, phase |-> "running"]}], f)
<1> DEFINE new == [a |-> s.attempt, d |-> 1, phase |-> "running"]
           t == [s EXCEPT !.copy = "pending", !.count = 1, !.runs = @ \union {new}]
<1>1. new \in Run /\ new.a = s.attempt /\ new.d = 1 /\ new.phase = "running"
    BY JobFields, Sizes DEF Run
<1>2. /\ t \in JobState /\ t.kind = s.kind /\ t.need = s.need /\ t.copy = "pending"
      /\ t.attempt = s.attempt /\ t.count = 1 /\ t.runs = s.runs \union {new}
      /\ t.done = s.done /\ t.dlq = s.dlq /\ t.results = s.results /\ t.effects = s.effects
    BY <1>1, JobFields DEF JobState
<1> HIDE DEF new, t
<1>3. RunsKnown(t)
    BY <1>1, <1>2, JobFields, Sizes DEF JobSound, RunsKnown
<1>4. HasOwner(t) /\ OverRuns(t) = {}
    BY <1>1, <1>2 DEF HasOwner, OverRuns
<1>5. NotWorn(t, f)
    <2>1. Cardinality(OverRuns(t)) = 0
        BY <1>4, FS_EmptySet
    <2>2. t.kind = "crashy" => \A r \in t.runs : r.d <= Reached(t)
        <3>1. s.kind = "crashy" => s.runs = {}
            <4> SUFFICES ASSUME s.kind = "crashy", NEW r \in s.runs PROVE FALSE
                OBVIOUS
            <4>1. s.attempt = 0 /\ r.a < s.attempt /\ r.a \in Nat
                BY JobFields DEF JobSound, RunsKnown, NotWorn
            <4> QED
                BY <4>1
        <3>2. t.dlq = <<>> /\ Reached(t) = 1
            BY <1>2 DEF JobSound, EndsRight, Reached
        <3> QED
            BY <1>1, <1>2, <3>1, <3>2
    <2> QED
        BY <1>1, <1>2, <1>4, <2>1, <2>2, JobFields, Sizes DEF JobSound, NotWorn
<1>6. EndsRight(t)
    BY <1>1, <1>2, JobFields DEF JobSound, EndsRight, DlqFits
<1> QED
    BY <1>2, <1>3, <1>5, <1>6 DEF JobSound, t, new

\* schedule.lua
LEMMA StepSchedule ==
    ASSUME NEW s, NEW f \in Nat, JobSound(s, f), s.copy = "delayed"
    PROVE  JobSound([s EXCEPT !.copy = "queued"], f)
<1> DEFINE t == [s EXCEPT !.copy = "queued"]
<1>2. /\ t \in JobState /\ t.kind = s.kind /\ t.need = s.need /\ t.copy = "queued"
      /\ t.attempt = s.attempt /\ t.count = s.count /\ t.runs = s.runs
      /\ t.done = s.done /\ t.dlq = s.dlq /\ t.results = s.results /\ t.effects = s.effects
    BY JobFields DEF JobState
<1> HIDE DEF t
<1>3. RunsKnown(t) /\ NotWorn(t, f) /\ EndsRight(t)
    BY <1>2 DEF JobSound, RunsKnown, NotWorn, EndsRight, DlqFits, Reached
<1> QED
    BY <1>2, <1>3 DEF JobSound, t

\* A run that ends and leaves the entry as it is: its loss took a fault, or it did not own
\* the entry.
LEMMA StepDrop ==
    ASSUME NEW s, NEW f \in Nat, NEW g \in {f, f + 1}, g <= MaxFaults, JobSound(s, f),
           NEW r \in s.runs,
           \/ g = f + 1
           \/ s.kind = "crashy"
           \/ s.copy # "pending"
           \/ r.a # s.attempt
           \/ s.kind # "slow" /\ r.d # s.count
    PROVE  JobSound([s EXCEPT !.runs = @ \ {r}], g)
<1> DEFINE t == [s EXCEPT !.runs = @ \ {r}]
<1>2. /\ t \in JobState /\ t.kind = s.kind /\ t.need = s.need /\ t.copy = s.copy
      /\ t.attempt = s.attempt /\ t.count = s.count /\ t.runs = s.runs \ {r}
      /\ t.done = s.done /\ t.dlq = s.dlq /\ t.results = s.results /\ t.effects = s.effects
    BY JobFields DEF JobState
<1> HIDE DEF t
<1>3. RunsKnown(t) /\ EndsRight(t)
    BY <1>2 DEF JobSound, RunsKnown, EndsRight, DlqFits
<1>4. Reached(t) = Reached(s)
    BY <1>2 DEF Reached
<1>5. s.copy = "pending" /\ s.kind # "crashy" /\ g = f => (HasOwner(t) <=> HasOwner(s))
    BY <1>2 DEF HasOwner
<1>6. s.copy = "pending" /\ s.kind = "slow" => Cardinality(OverRuns(t)) <= g
    <2> SUFFICES ASSUME s.copy = "pending", s.kind = "slow"
                 PROVE  Cardinality(OverRuns(t)) <= g
        OBVIOUS
    <2> DEFINE over == OverRuns(s)
               after == OverRuns(t)
    <2>1. IsFiniteSet(over) /\ Cardinality(over) \in Nat /\ Cardinality(over) <= f
        BY OverFinite, JobFields DEF JobSound, NotWorn
    <2>2. CASE r.a # s.attempt
        <3>1. after = over
            BY <1>2, <2>2 DEF OverRuns
        <3> QED
            BY <3>1, <2>1
    <2>3. CASE g = f + 1
        <3>1. after \subseteq over \union {r.d}
            <4> SUFFICES ASSUME NEW d \in after, d # r.d PROVE d \in over
                OBVIOUS
            <4>1. d \in 1 .. s.count /\ \A q \in t.runs : ~(q.a = s.attempt /\ q.d = d)
                BY <1>2 DEF OverRuns
            <4>2. \A q \in s.runs : ~(q.a = s.attempt /\ q.d = d)
                BY <4>1, <1>2
            <4> QED
                BY <4>1, <4>2 DEF OverRuns
        <3> HIDE DEF over, after
        <3> DEFINE more == over \union {r.d}
        <3>2. IsFiniteSet(more) /\ Cardinality(more) <= Cardinality(over) + 1
              /\ Cardinality(more) \in Nat
            <4>1. IsFiniteSet(more)
                BY <2>1, FS_AddElement
            <4>2. Cardinality(more) = IF r.d \in over THEN Cardinality(over)
                                      ELSE Cardinality(over) + 1
                BY <2>1, FS_AddElement
            <4> QED
                BY <4>1, <4>2, <2>1
        <3> HIDE DEF more
        <3>3. after \subseteq more
            BY <3>1 DEF more
        <3>4. Cardinality(after) <= Cardinality(more) /\ Cardinality(after) \in Nat
            BY <3>2, <3>3, FS_Subset, FS_CardinalityType
        <3>5. Cardinality(after) <= g
            BY <3>2, <3>4, <2>1, <2>3
        <3> QED
            BY <3>5 DEF after
    <2> QED
        BY <2>2, <2>3
<1>7. NotWorn(t, g)
    <2>1. Kinds[s.kind].expect = "SUCCEEDED" => s.attempt <= s.need + g
        BY JobFields DEF JobSound, NotWorn
    <2>2. s.kind # "crashy" /\ s.copy = "pending" =>
            s.count + (IF HasOwner(t) THEN 0 ELSE 1) <= g + (IF s.kind = "slow" THEN 2 ELSE 1)
        <3> SUFFICES ASSUME s.kind # "crashy", s.copy = "pending"
                     PROVE  s.count + (IF HasOwner(t) THEN 0 ELSE 1)
                              <= g + (IF s.kind = "slow" THEN 2 ELSE 1)
            OBVIOUS
        <3>1. s.count \in Nat /\ s.count + (IF HasOwner(s) THEN 0 ELSE 1)
                                 <= f + (IF s.kind = "slow" THEN 2 ELSE 1)
            BY JobFields DEF JobSound, NotWorn
        <3>2. CASE g = f
            BY <3>1, <3>2, <1>5
        <3>3. CASE g = f + 1
            BY <3>1, <3>3
        <3> QED
            BY <3>2, <3>3
    <2> QED
        BY <1>2, <1>4, <1>6, <2>1, <2>2 DEF JobSound, NotWorn
<1> QED
    BY <1>2, <1>3, <1>7 DEF JobSound, t

\* A reclaim: the entry's owner is gone, or it is the one run of a slow job, or a fault
\* stalled it.  A job that is not crashy stays within max_deliveries.
LEMMA StepReclaim ==
    ASSUME NEW s, NEW f \in Nat, NEW g \in {f, f + 1}, g <= MaxFaults, JobSound(s, f),
           s.copy = "pending", s.count + 1 <= MaxDeliveries + MaxFaults + 1,
           \/ g = f + 1
           \/ ~HasOwner(s)
           \/ s.kind = "slow" /\ \A r \in s.runs : r.a = s.attempt /\ r.d = s.count
    PROVE  /\ JobSound([s EXCEPT !.count = s.count + 1,
                          !.runs = @ \union {[a |-> s.attempt, d |-> s.count + 1,
                                              phase |-> PhaseAt(s.count + 1)]}], g)
           /\ s.kind # "crashy" => s.count + 1 <= MaxDeliveries
<1> DEFINE d == s.count + 1
           new == [a |-> s.attempt, d |-> d, phase |-> PhaseAt(d)]
           t == [s EXCEPT !.count = d, !.runs = @ \union {new}]
<1>1. d \in Nat /\ d >= 2 /\ d = s.count + 1 /\ s.count \in Nat
    BY JobFields DEF JobSound, RunsKnown
<1>2. /\ new \in Run /\ new.a = s.attempt /\ new.d = d
      /\ new.phase # "applied" /\ (new.phase = "doomed" <=> d > MaxDeliveries)
    BY <1>1, JobFields, Sizes DEF Run, PhaseAt
<1>3. /\ t \in JobState /\ t.kind = s.kind /\ t.need = s.need /\ t.copy = s.copy
      /\ t.attempt = s.attempt /\ t.count = d /\ t.runs = s.runs \union {new}
      /\ t.done = s.done /\ t.dlq = s.dlq /\ t.results = s.results /\ t.effects = s.effects
    BY <1>1, <1>2, JobFields DEF JobState
<1> HIDE DEF d, new, t
<1>4. RunsKnown(t)
    <2>1. \A r \in s.runs : r.a = s.attempt => r.d < d
        BY <1>1, JobFields DEF JobSound, RunsKnown
    <2>2. \A r, q \in t.runs : r.a = q.a /\ r.d = q.d => r = q
        <3> SUFFICES ASSUME NEW r \in t.runs, NEW q \in t.runs, r.a = q.a, r.d = q.d
                     PROVE  r = q
            OBVIOUS
        <3>1. CASE r \in s.runs /\ q \in s.runs
            BY <3>1 DEF JobSound, RunsKnown
        <3>2. r = new /\ q \in s.runs => FALSE
            BY <1>1, <1>2, <2>1
        <3>3. q = new /\ r \in s.runs => FALSE
            BY <1>1, <1>2, <2>1
        <3> QED
            BY <1>3, <3>1, <3>2, <3>3
    <2>3. \A r \in t.runs : r.phase = "doomed" <=> r.d > MaxDeliveries
        BY <1>2, <1>3 DEF JobSound, RunsKnown
    <2>4. \A r \in t.runs : r.a <= s.attempt
        BY <1>2, <1>3, JobFields DEF JobSound, RunsKnown
    <2>5. \A r \in t.runs : r.a = s.attempt => r.d <= d
        BY <1>1, <1>2, <1>3, <2>1, JobFields
    <2> QED
        BY <1>1, <1>3, <2>2, <2>3, <2>4, <2>5 DEF JobSound, RunsKnown
<1>5. EndsRight(t)
    BY <1>2, <1>3, JobFields DEF JobSound, EndsRight, DlqFits
<1>6. HasOwner(t)
    BY <1>2, <1>3 DEF HasOwner
<1>7. OverRuns(t) = OverRuns(s)
    <2>1. \A x \in 1 .. d : x \in 1 .. s.count \/ x = d
        BY <1>1
    <2>2. \A x \in 1 .. s.count : x \in 1 .. d /\ x # d
        BY <1>1
    <2> QED
        BY <1>2, <1>3, <2>1, <2>2 DEF OverRuns
<1>8. s.kind # "crashy" => d <= g + (IF s.kind = "slow" THEN 2 ELSE 1)
    <2> SUFFICES ASSUME s.kind # "crashy"
                 PROVE  d <= g + (IF s.kind = "slow" THEN 2 ELSE 1)
        OBVIOUS
    <2>1. s.count + (IF HasOwner(s) THEN 0 ELSE 1) <= f + (IF s.kind = "slow" THEN 2 ELSE 1)
        BY DEF JobSound, NotWorn
    <2>2. CASE g = f + 1
        BY <2>1, <2>2, <1>1
    <2>3. CASE ~HasOwner(s) /\ g = f
        BY <2>1, <2>3, <1>1
    <2>4. CASE g = f /\ s.kind = "slow" /\ \A r \in s.runs : r.a = s.attempt /\ r.d = s.count
        <3> DEFINE done == 1 .. s.count - 1
                   over == OverRuns(s)
        <3>1. done \subseteq over
            BY <1>1, <2>4 DEF OverRuns
        <3>2. Cardinality(done) = s.count - 1
            <4>1. PICK c \in Nat : c = s.count - 1
                BY <1>1
            <4>2. Cardinality(1 .. c) = IF 1 > c THEN 0 ELSE c - 1 + 1
                BY FS_Interval
            <4> QED
                BY <4>1, <4>2
        <3>3. IsFiniteSet(over) /\ Cardinality(over) \in Nat /\ Cardinality(over) <= f
            BY <2>4, <1>1, OverFinite DEF JobSound, NotWorn
        <3> HIDE DEF done, over
        <3>4. Cardinality(done) <= Cardinality(over)
            BY <3>1, <3>3, FS_Subset
        <3> QED
            BY <3>2, <3>3, <3>4, <1>1, <2>4
    <2> QED
        BY <2>2, <2>3, <2>4
<1>9. s.kind # "crashy" => d <= MaxDeliveries
    BY <1>8, <1>1, Sizes
<1>10. NotWorn(t, g)
    <2>1. Kinds[s.kind].expect = "SUCCEEDED" => s.attempt <= s.need + g
        BY JobFields DEF JobSound, NotWorn
    <2>2. s.kind # "crashy" => \A r \in t.runs : r.d <= MaxDeliveries
        BY <1>2, <1>3, <1>9 DEF JobSound, NotWorn
    <2>3. s.kind = "slow" => Cardinality(OverRuns(t)) <= g
        <3>1. PICK c \in Nat : c = Cardinality(OverRuns(s))
            BY <1>1, OverFinite
        <3> QED
            BY <3>1, <1>7 DEF JobSound, NotWorn
    <2>4. s.kind = "crashy" => \A r \in t.runs : r.d <= Reached(t)
        <3>1. t.dlq = <<>> /\ s.dlq = <<>> /\ Reached(t) = d /\ Reached(s) = s.count
            BY <1>3 DEF JobSound, EndsRight, Reached
        <3>2. s.kind = "crashy" => \A r \in s.runs : r.d <= s.count /\ r.d \in Nat
            BY <3>1, JobFields DEF JobSound, NotWorn
        <3> QED
            BY <1>1, <1>2, <1>3, <3>1, <3>2
    <2>5. s.kind # "crashy" => t.count + (IF HasOwner(t) THEN 0 ELSE 1)
                                 <= g + (IF s.kind = "slow" THEN 2 ELSE 1)
        BY <1>1, <1>3, <1>6, <1>8
    <2> QED
        BY <1>3, <2>1, <2>2, <2>3, <2>4, <2>5 DEF JobSound, NotWorn
<1> QED
    BY <1>3, <1>4, <1>5, <1>9, <1>10 DEF JobSound, t, new, d

\* ledger.lua: the effect is in before the run goes on.
LEMMA StepApply ==
    ASSUME NEW s, NEW f \in Nat, JobSound(s, f), NEW r \in s.runs, r.phase = "running",
           Kinds[s.kind].effect
    PROVE  JobSound(LedgerApply([s EXCEPT !.runs = (s.runs \ {r}) \union
                                            {[r EXCEPT !.phase = "applied"]}]), f)
<1> DEFINE q == [r EXCEPT !.phase = "applied"]
           u == [s EXCEPT !.runs = (s.runs \ {r}) \union {q}]
           t == LedgerApply(u)
<1>1. q \in Run /\ q.a = r.a /\ q.d = r.d /\ q.phase = "applied" /\ r.a \in Nat /\ r.d \in Nat
    BY JobFields DEF Run
<1>2. /\ t \in JobState /\ t.kind = s.kind /\ t.need = s.need /\ t.copy = s.copy
      /\ t.attempt = s.attempt /\ t.count = s.count /\ t.runs = (s.runs \ {r}) \union {q}
      /\ t.done = s.done /\ t.dlq = s.dlq /\ t.results = s.results
      /\ t.effects = IF s.effects = 0 THEN 1 ELSE s.effects
    <2>1. u \in JobState /\ u = [s EXCEPT !.runs = (s.runs \ {r}) \union {q}]
        BY <1>1, JobFields DEF JobState
    <2> HIDE DEF u
    <2>2. t = [u EXCEPT !.effects = IF u.effects = 0 THEN 1 ELSE u.effects]
        BY DEF LedgerApply
    <2>3. u.effects \in Nat
        BY <2>1 DEF JobState
    <2> HIDE DEF t
    <2>4. t \in JobState
        BY <2>1, <2>2, <2>3 DEF JobState
    <2> QED
        BY <2>1, <2>2, <2>4, JobFields DEF JobState
<1> HIDE DEF q, u, t
<1>3. RunsKnown(t)
    <2>1. \A x, y \in t.runs : x.a = y.a /\ x.d = y.d => x = y
        BY <1>1, <1>2 DEF JobSound, RunsKnown
    <2>2. \A x \in t.runs : x.phase = "doomed" <=> x.d > MaxDeliveries
        BY <1>1, <1>2 DEF JobSound, RunsKnown
    <2> QED
        BY <1>1, <1>2, <2>1, <2>2 DEF JobSound, RunsKnown
<1>4. t.effects = 1
    BY <1>2, JobFields DEF JobSound, EndsRight
<1>5. EndsRight(t)
    BY <1>1, <1>2, <1>4, JobFields DEF JobSound, EndsRight, DlqFits
<1>6. OverRuns(t) = OverRuns(s) /\ (HasOwner(t) <=> HasOwner(s)) /\ Reached(t) = Reached(s)
    BY <1>1, <1>2 DEF OverRuns, HasOwner, Reached
<1>7. NotWorn(t, f)
    BY <1>1, <1>2, <1>6 DEF JobSound, NotWorn
<1> QED
    BY <1>2, <1>3, <1>5, <1>7 DEF JobSound, t, u, q

\* The entry is taken out: for good, or to wait for its next attempt.
LEMMA StepLeave ==
    ASSUME NEW s, NEW f \in Nat, NEW g \in {f, f + 1}, JobSound(s, f), NEW t \in JobState,
           t.kind = s.kind, t.need = s.need, t.runs \subseteq s.runs, t.count = 0,
           \/ t.copy = "none" /\ t.attempt = s.attempt
           \/ /\ t.copy = "delayed" /\ t.attempt = s.attempt + 1 /\ t.attempt < MaxAttempts
              /\ s.kind # "crashy"
              /\ Kinds[s.kind].expect = "SUCCEEDED" => t.attempt <= s.need + g,
           s.kind = "crashy" => Reached(t) = Reached(s),
           EndsRight(t)
    PROVE  JobSound(t, g)
<1>1. \A r \in t.runs : r \in s.runs /\ r.a \in Nat /\ r.a <= s.attempt
    BY JobFields DEF JobSound, RunsKnown
<1>2. RunsKnown(t)
    <2>1. \A r \in t.runs : r.a <= t.attempt
        BY <1>1, JobFields
    <2>2. t.copy \in {"queued", "delayed"} => \A r \in t.runs : r.a < t.attempt
        BY <1>1, JobFields
    <2> QED
        BY <1>1, <2>1, <2>2 DEF JobSound, RunsKnown
<1>3. NotWorn(t, g)
    <2>1. Kinds[s.kind].expect = "SUCCEEDED" => t.attempt <= t.need + g
        BY JobFields DEF JobSound, NotWorn
    <2> QED
        BY <1>1, <2>1 DEF JobSound, NotWorn
<1> QED
    BY <1>2, <1>3 DEF JobSound

\* commit.lua, of a job that is to succeed.
LEMMA StepCommit ==
    ASSUME NEW s, NEW f \in Nat, f <= MaxFaults, JobSound(s, f), NEW r \in s.runs,
           Kinds[s.kind].expect = "SUCCEEDED", Kinds[s.kind].effect => r.phase = "applied",
           NEW c, c = Committed([s EXCEPT !.runs = @ \ {r}])
    PROVE  JobSound(IF c.copy = "pending" /\ r.a = c.attempt THEN Removed(c) ELSE c, f)
<1> DEFINE u == [s EXCEPT !.runs = @ \ {r}]
<1>1. /\ u \in JobState /\ u.kind = s.kind /\ u.need = s.need /\ u.copy = s.copy
      /\ u.attempt = s.attempt /\ u.count = s.count /\ u.runs = s.runs \ {r}
      /\ u.done = s.done /\ u.dlq = s.dlq /\ u.results = s.results /\ u.effects = s.effects
    BY JobFields DEF JobState
<1>2. c = Committed(u)
    OBVIOUS
<1> HIDE DEF u
<1>3. s.done \in {"NONE", "SUCCEEDED"} /\ s.dlq = <<>>
    BY JobFields DEF JobSound, EndsRight
<1>4. /\ c \in JobState /\ c.kind = s.kind /\ c.need = s.need /\ c.copy = s.copy
      /\ c.attempt = s.attempt /\ c.count = s.count /\ c.runs = s.runs \ {r}
      /\ c.done = "SUCCEEDED" /\ c.dlq = <<>> /\ c.results = 1 /\ c.effects = s.effects
    <2>1. CASE s.done = "SUCCEEDED"
        BY <1>1, <1>2, <1>3, <2>1 DEF Committed, JobSound, EndsRight
    <2>2. CASE s.done = "NONE"
        <3>1. s.results = 0
            BY <2>2 DEF JobSound, EndsRight
        <3>2. c = [u EXCEPT !.done = "SUCCEEDED", !.dlq = <<>>, !.results = u.results + 1]
            BY <1>1, <1>2, <2>2 DEF Committed
        <3>3. PICK q \in Seq(DlqEntry) : q = <<>>
            <4>1. <<>> \in Seq(DlqEntry)
                OBVIOUS
            <4> QED
                BY <4>1
        <3>4. c = [u EXCEPT !.done = "SUCCEEDED", !.dlq = q, !.results = 1]
            BY <1>1, <3>1, <3>2, <3>3
        <3>5. c \in JobState
            <4>1. [u EXCEPT !.done = "SUCCEEDED", !.dlq = q, !.results = 1] \in JobState
                BY <1>1 DEF JobState
            <4> QED
                BY <3>4, <4>1
        <3> QED
            BY <1>1, <3>3, <3>4, <3>5 DEF JobState
    <2> QED
        BY <1>3, <2>1, <2>2
<1>5. \A q \in c.runs : q.phase = "applied" => s.effects = 1
    BY <1>4 DEF JobSound, EndsRight
<1>6. Kinds[s.kind].effect => s.effects = 1
    BY DEF JobSound, EndsRight
<1>7. s.kind # "crashy"
    BY KindFacts, JobFields DEF KindKnown
<1>8. CASE s.copy = "pending" /\ r.a = s.attempt
    <2> DEFINE t == Removed(c)
    <2>1. /\ t \in JobState /\ t.kind = s.kind /\ t.need = s.need /\ t.copy = "none"
          /\ t.attempt = s.attempt /\ t.count = 0 /\ t.runs = s.runs \ {r}
          /\ t.done = "SUCCEEDED" /\ t.dlq = <<>> /\ t.results = 1 /\ t.effects = s.effects
        BY <1>4 DEF Removed, JobState
    <2> HIDE DEF t
    <2>2. EndsRight(t)
        BY <1>4, <1>5, <1>6, <2>1 DEF EndsRight, JobSound
    <2>3. JobSound(t, f)
        BY <1>7, <2>1, <2>2, StepLeave
    <2> QED
        BY <1>4, <1>8, <2>3 DEF t
<1>9. CASE ~(s.copy = "pending" /\ r.a = s.attempt)
    <2>1. JobSound(u, f)
        BY <1>9, StepDrop DEF u
    <2>2. EndsRight(c)
        BY <1>4, <1>5, <1>6 DEF EndsRight, JobSound
    <2>3. RunsKnown(c)
        BY <1>1, <1>4, <2>1 DEF JobSound, RunsKnown
    <2>4. OverRuns(c) = OverRuns(u) /\ (HasOwner(c) <=> HasOwner(u))
        <3>1. c.runs = u.runs /\ c.attempt = u.attempt /\ c.count = u.count
            BY <1>1, <1>4
        <3> QED
            BY <3>1 DEF OverRuns, HasOwner
    <2>5. NotWorn(c, f)
        BY <1>1, <1>4, <1>7, <2>1, <2>4 DEF JobSound, NotWorn
    <2>6. JobSound(c, f)
        BY <1>1, <1>4, <2>1, <2>2, <2>3, <2>5 DEF JobSound
    <2> QED
        BY <1>4, <1>9, <2>6
<1> QED
    BY <1>8, <1>9

\* retry.lua: the owner parks the job for its next attempt.
LEMMA StepDelay ==
    ASSUME NEW s, NEW f \in Nat, NEW g \in {f, f + 1}, JobSound(s, f), NEW r \in s.runs,
           s.copy = "pending", s.done = "NONE", s.attempt + 1 < MaxAttempts,
           s.kind # "crashy",
           Kinds[s.kind].expect = "SUCCEEDED" => s.attempt + 1 <= s.need + g
    PROVE  JobSound([Removed([s EXCEPT !.runs = @ \ {r}])
                       EXCEPT !.copy = "delayed", !.attempt = s.attempt + 1], g)
<1> DEFINE u == [s EXCEPT !.runs = @ \ {r}]
           t == [Removed(u) EXCEPT !.copy = "delayed", !.attempt = s.attempt + 1]
<1>1. u \in JobState /\ u = [s EXCEPT !.runs = @ \ {r}]
    BY JobFields DEF JobState
<1>2. s.attempt + 1 \in 0 .. MaxAttempts /\ s \in JobState
    BY JobFields, Sizes
<1> HIDE DEF u
<1>3. /\ t \in JobState /\ t.kind = s.kind /\ t.need = s.need /\ t.copy = "delayed"
      /\ t.attempt = s.attempt + 1 /\ t.count = 0 /\ t.runs = s.runs \ {r}
      /\ t.done = s.done /\ t.dlq = s.dlq /\ t.results = s.results /\ t.effects = s.effects
    BY <1>1, <1>2 DEF JobState, Removed
<1> HIDE DEF t
<1>4. EndsRight(t)
    BY <1>3 DEF JobSound, EndsRight
<1>5. JobSound(t, g)
    BY <1>3, <1>4, StepLeave
<1> QED
    BY <1>5 DEF t, u

\* dead.lua: the owner gives the job up, or only removes an entry whose job is done.
LEMMA StepDead ==
    ASSUME NEW s, NEW f \in Nat, NEW g \in {f, f + 1}, JobSound(s, f), NEW r \in s.runs,
           s.copy = "pending", NEW reason, NEW attempts, NEW error,
           s.done = "NONE" =>
             LET e == [reason |-> reason, deliveries |-> s.count, attempts |-> attempts,
                       error |-> error]
             IN  e \in DlqEntry /\ DlqFits(s, e) /\ Kinds[s.kind].expect = "DEAD"
    PROVE  JobSound(DeadLettered([s EXCEPT !.runs = @ \ {r}], reason, attempts, error), g)
<1> DEFINE u == [s EXCEPT !.runs = @ \ {r}]
           e == [reason |-> reason, deliveries |-> s.count, attempts |-> attempts,
                 error |-> error]
           t == DeadLettered(u, reason, attempts, error)
<1>1. /\ u \in JobState /\ u.kind = s.kind /\ u.need = s.need /\ u.copy = s.copy
      /\ u.attempt = s.attempt /\ u.count = s.count /\ u.runs = s.runs \ {r}
      /\ u.done = s.done /\ u.dlq = s.dlq /\ u.results = s.results /\ u.effects = s.effects
    BY JobFields DEF JobState
<1>2. s.dlq = <<>> /\ s.done # "DEAD"
    BY DEF JobSound, EndsRight
<1>3. CASE s.done = "NONE"
    <2>1. e \in DlqEntry /\ DlqFits(s, e) /\ Kinds[s.kind].expect = "DEAD"
        BY <1>3
    <2>2. e.deliveries = s.count
        OBVIOUS
    <2>3. t = [Removed(u) EXCEPT !.done = "DEAD", !.dlq = Append(u.dlq, e)]
        BY <1>1, <1>3 DEF DeadLettered, Removed
    <2> HIDE DEF u, e, t
    <2>4. /\ t \in JobState /\ t.kind = s.kind /\ t.need = s.need /\ t.copy = "none"
          /\ t.attempt = s.attempt /\ t.count = 0 /\ t.runs = s.runs \ {r}
          /\ t.done = "DEAD" /\ t.dlq = Append(s.dlq, e)
          /\ t.results = s.results /\ t.effects = s.effects
        <3>1. PICK q \in Seq(DlqEntry) : q = Append(s.dlq, e)
            <4>1. s.dlq \in Seq(DlqEntry)
                BY JobFields
            <4>2. Append(s.dlq, e) \in Seq(DlqEntry)
                BY <2>1, <4>1
            <4> QED
                BY <4>2
        <3>2. t = [u EXCEPT !.copy = "none", !.count = 0, !.done = "DEAD", !.dlq = q]
            BY <1>1, <2>3, <3>1 DEF Removed
        <3>3. t \in JobState
            BY <1>1, <3>2 DEF JobState
        <3> QED
            BY <1>1, <3>1, <3>2, <3>3 DEF JobState
    <2>5. t.dlq = <<e>> /\ Len(t.dlq) = 1 /\ t.dlq[1] = e /\ t.dlq # <<>>
        BY <1>2, <2>4
    <2>6. EndsRight(t)
        BY <1>3, <2>1, <2>4, <2>5 DEF JobSound, EndsRight, DlqFits
    <2>7. Reached(t) = Reached(s)
        BY <1>2, <2>2, <2>5 DEF Reached
    <2> QED
        BY <2>4, <2>6, <2>7, StepLeave DEF t, u
<1>4. CASE s.done # "NONE"
    <2>1. t = Removed(u)
        BY <1>1, <1>4 DEF DeadLettered
    <2> HIDE DEF u, e, t
    <2>2. /\ t \in JobState /\ t.kind = s.kind /\ t.need = s.need /\ t.copy = "none"
          /\ t.attempt = s.attempt /\ t.count = 0 /\ t.runs = s.runs \ {r}
          /\ t.done = s.done /\ t.dlq = s.dlq /\ t.results = s.results /\ t.effects = s.effects
        BY <1>1, <2>1 DEF Removed, JobState
    <2>3. EndsRight(t)
        BY <1>2, <1>4, <2>2 DEF JobSound, EndsRight
    <2>4. s.kind # "crashy"
        <3>1. Kinds[s.kind].expect # "DEAD"
            BY <1>2, <1>4, JobFields DEF JobSound, EndsRight
        <3> QED
            BY <3>1, KindFacts, JobFields DEF KindKnown
    <2> QED
        BY <2>2, <2>3, <2>4, StepLeave DEF t, u
<1> QED
    BY <1>3, <1>4

\* A run of a job that is to die never succeeds.
LEMMA DeadKindsAreBad ==
    ASSUME NEW j, NEW f, JobSound(job[j], f), NEW r \in job[j].runs, r.phase # "doomed",
           KindOfJob(j).expect = "DEAD"
    PROVE  Bad(j, r) /\ ~KindOfJob(j).effect /\ r.a < job[j].need
<1> DEFINE s == job[j]
<1>1. /\ s.kind \in {"hang_forever", "poison", "crashy"}
      /\ ~Kinds[s.kind].effect /\ Kinds[s.kind].bad # "none"
      /\ Kinds[s.kind].needs \in {{MaxAttempts}, {MaxAttempts + 1000}}
    BY KindFacts, JobFields DEF KindKnown, KindOfJob
<1>2. s.need \in {MaxAttempts, MaxAttempts + 1000} /\ r.a <= s.attempt /\ s.attempt < MaxAttempts
    BY <1>1 DEF JobSound, RunsKnown
<1>3. r.a \in Nat /\ s.attempt \in Nat /\ r.phase \in {"running", "applied", "doomed"}
    BY JobFields DEF Run
<1>4. r.phase # "applied"
    BY <1>1 DEF JobSound, EndsRight
<1>5. r.a < s.need
    BY <1>2, <1>3, Sizes
<1> QED
    BY <1>1, <1>3, <1>4, <1>5 DEF Bad, KindOfJob

\* Worker._fail: an attempt fails because its handler was to fail, or by a fault.
LEMMA StepFailed ==
    ASSUME NEW j, NEW f \in Nat, NEW g \in {f, f + 1}, g <= MaxFaults, JobSound(job[j], f),
           NEW r \in job[j].runs, NEW error \in {"raise", "hang"},
           job[j].kind # "crashy", job[j].kind = "slow" => g = f + 1,
           KindOfJob(j).expect = "SUCCEEDED" => r.a + 1 <= job[j].need + g,
           job[j].kind = "hang_forever" => error = "hang"
    PROVE  JobSound(Failed(j, r, error), g)
<1> DEFINE s == job[j]
           u == [s EXCEPT !.runs = @ \ {r}]
<1>1. /\ u.copy = s.copy /\ u.done = s.done /\ u = Without(j, r)
      /\ r.a \in Nat /\ s.attempt \in Nat /\ s.count \in Nat
      /\ s.need \in Nat /\ s.kind \in KindName /\ s.done \in {"NONE", "SUCCEEDED", "DEAD"}
    BY JobFields DEF JobState, Without
<1> HIDE DEF u
<1>2. CASE ~IsOwner(j, r)
    <2>1. Failed(j, r, error) = u
        BY <1>1, <1>2 DEF Failed
    <2>2. JobSound(u, g)
        BY <1>2, StepDrop DEF IsOwner, u
    <2> QED
        BY <2>1, <2>2
<1>3. CASE IsOwner(j, r)
    <2>1. s.copy = "pending" /\ r.a = s.attempt /\ r.d = s.count
        BY <1>3 DEF IsOwner
    <2>2. CASE r.a + 1 >= MaxAttempts
        <3> DEFINE e == [reason |-> "max_attempts", deliveries |-> s.count,
                         attempts |-> r.a + 1, error |-> error]
        <3>1. Failed(j, r, error) = DeadLettered(u, "max_attempts", r.a + 1, error)
            BY <1>1, <1>3, <2>2 DEF Failed
        <3>2. KindOfJob(j).expect = "DEAD" /\ s.kind \in {"poison", "hang_forever"}
            <4>1. KindOfJob(j).expect = "SUCCEEDED" => FALSE
                <5>1. KindOfJob(j).expect = "SUCCEEDED" => s.need \in 0 .. 3
                    BY <1>1, KindFacts DEF KindKnown, KindOfJob, JobSound, RunsKnown
                <5> QED
                    BY <5>1, <1>1, <2>2, Sizes
            <4> QED
                BY <4>1, <1>1, KindFacts DEF KindKnown, KindOfJob
        <3>3. r.a + 1 = MaxAttempts
            BY <1>1, <2>1, <2>2, Sizes DEF JobSound, RunsKnown
        <3>4. e \in DlqEntry
            BY <1>1 DEF DlqEntry
        <3>5. DlqFits(s, e)
            <4>1. Kinds[s.kind].reason = "max_attempts"
                BY <3>2, <1>1, KindFacts DEF KindKnown
            <4> QED
                BY <4>1, <3>2, <3>3 DEF DlqFits
        <3>6. JobSound(DeadLettered(u, "max_attempts", r.a + 1, error), g)
            BY <2>1, <3>2, <3>4, <3>5, StepDead DEF KindOfJob, u
        <3> QED
            BY <3>1, <3>6
    <2>3. CASE ~(r.a + 1 >= MaxAttempts) /\ s.done # "NONE"
        <3>1. Failed(j, r, error) = DeadLettered(u, "max_attempts", r.a + 1, error)
            BY <1>1, <1>3, <2>3 DEF Failed, DeadLettered
        <3>2. JobSound(DeadLettered(u, "max_attempts", r.a + 1, error), g)
            BY <2>1, <2>3, StepDead DEF u
        <3> QED
            BY <3>1, <3>2
    <2>4. CASE ~(r.a + 1 >= MaxAttempts) /\ s.done = "NONE"
        <3>1. Failed(j, r, error) = [Removed(u) EXCEPT !.copy = "delayed", !.attempt = s.attempt + 1]
            BY <1>1, <1>3, <2>1, <2>4 DEF Failed
        <3>2. s.attempt + 1 < MaxAttempts
            BY <1>1, <2>1, <2>4, Sizes
        <3>3. Kinds[s.kind].expect = "SUCCEEDED" => s.attempt + 1 <= s.need + g
            BY <2>1 DEF KindOfJob
        <3>4. JobSound([Removed(u) EXCEPT !.copy = "delayed", !.attempt = s.attempt + 1], g)
            BY <2>1, <2>4, <3>2, <3>3, StepDelay DEF u
        <3> QED
            BY <3>1, <3>4
    <2> QED
        BY <2>2, <2>3, <2>4
<1> QED
    BY <1>2, <1>3

\* Worker._process, past max_deliveries: only a crashy job comes this far.
LEMMA StepDoomed ==
    ASSUME NEW j, NEW f \in Nat, f <= MaxFaults, JobSound(job[j], f),
           NEW r \in job[j].runs, r.phase = "doomed", NEW t,
           t = IF IsOwner(j, r)
               THEN DeadLettered(Without(j, r), "max_deliveries", r.a + 1, "none")
               ELSE Without(j, r)
    PROVE  JobSound(t, f) /\ job[j].kind = "crashy"
<1> DEFINE s == job[j]
           u == [s EXCEPT !.runs = @ \ {r}]
<1>1. /\ u = Without(j, r) /\ r.a \in Nat /\ r.d \in Nat /\ s.count \in Nat
      /\ s.kind \in KindName
    BY JobFields DEF Without
<1>2. r.d > MaxDeliveries
    BY DEF JobSound, RunsKnown
<1>3. s.kind = "crashy"
    BY <1>1, <1>2, Sizes DEF JobSound, NotWorn
<1>4. Kinds[s.kind].expect = "DEAD" /\ Kinds[s.kind].reason = "max_deliveries"
    BY <1>1, <1>3, KindFacts DEF KindKnown
<1> HIDE DEF u
<1>5. CASE ~IsOwner(j, r)
    <2>1. JobSound(u, f)
        BY <1>3, StepDrop DEF u
    <2> QED
        BY <1>1, <1>3, <1>5, <2>1
<1>6. CASE IsOwner(j, r)
    <2> DEFINE e == [reason |-> "max_deliveries", deliveries |-> s.count,
                     attempts |-> r.a + 1, error |-> "none"]
    <2>1. s.copy = "pending" /\ r.d = s.count
        BY <1>6 DEF IsOwner
    <2>2. e \in DlqEntry /\ DlqFits(s, e)
        BY <1>1, <1>2, <1>3, <1>4, <2>1 DEF DlqEntry, DlqFits
    <2>3. JobSound(DeadLettered(u, "max_deliveries", r.a + 1, "none"), f)
        BY <1>4, <2>1, <2>2, StepDead DEF u
    <2> QED
        BY <1>1, <1>3, <1>6, <2>3
<1> QED
    BY <1>5, <1>6

-----------------------------------------------------------------------------
(* What is counted, step by step *)

\* A crashy job has come no further, and no run of it that was over is under way again.
Keeps(s, t) ==
    /\ \A n \in Nat : n >= 2 => (Reached(t) >= n <=> Reached(s) >= n)
    /\ \A d \in 1 .. MaxDeliveries :
         d <= Reached(s) /\ (\A r \in s.runs : r.d # d) => d <= Reached(t) /\ \A r \in t.runs : r.d # d

\* How far a job has come is a number.
LEMMA ReachedType ==
    ASSUME NEW s, NEW f, JobSound(s, f)
    PROVE  Reached(s) \in Nat
<1>1. CASE s.dlq = <<>>
    BY <1>1, JobFields DEF Reached
<1>2. CASE s.dlq # <<>>
    <2>1. s.dlq \in Seq(DlqEntry) /\ Len(s.dlq) = 1
        BY <1>2, JobFields DEF JobSound, EndsRight
    <2>2. s.dlq[1] \in DlqEntry
        BY <2>1
    <2> QED
        BY <1>2, <2>2 DEF Reached, DlqEntry
<1> QED
    BY <1>1, <1>2

\* The sets the counters are compared with are finite.
LEMMA JobsFinite ==
    ASSUME NEW C \in SUBSET Job
    PROVE  IsFiniteSet(C) /\ Cardinality(C) \in Nat
<1>1. IsFiniteSet(C)
    BY Sizes, FS_Subset
<1> QED
    BY <1>1, FS_CardinalityType

\* ... those of deliveries too.
LEMMA PairsFinite ==
    ASSUME NEW C \in SUBSET Job, NEW V \in SUBSET (C \X (1 .. MaxDeliveries))
    PROVE  /\ IsFiniteSet(V) /\ Cardinality(V) \in Nat
           /\ Cardinality(V) <= Cardinality(C) * MaxDeliveries
<1> DEFINE D == 1 .. MaxDeliveries
           P == C \X D
<1>1. IsFiniteSet(C) /\ Cardinality(C) \in Nat
    BY JobsFinite
<1>2. IsFiniteSet(D) /\ Cardinality(D) = MaxDeliveries
    <2>1. MaxDeliveries \in Nat /\ MaxDeliveries >= 2
        BY Sizes
    <2> QED
        BY <2>1, FS_Interval
<1>3. V \subseteq P
    OBVIOUS
<1> HIDE DEF D
<1>4. IsFiniteSet(P) /\ Cardinality(P) = Cardinality(C) * MaxDeliveries
    BY <1>1, <1>2, FS_Product
<1> HIDE DEF P
<1>5. IsFiniteSet(V) /\ Cardinality(V) <= Cardinality(P)
    BY <1>3, <1>4, FS_Subset
<1>6. Cardinality(V) \in Nat
    BY <1>5, FS_CardinalityType
<1> QED
    BY <1>4, <1>5, <1>6

\* What the counters are compared with, now and after a step.
LEMMA CountsFinite ==
    /\ Crashy \in SUBSET Job /\ Crashy' \in SUBSET Job
    /\ \A n : CrashyAt(n) \in SUBSET Job /\ CrashyAt(n)' \in SUBSET Job
    /\ CrashyOver \in SUBSET (Crashy \X (1 .. MaxDeliveries))
    /\ CrashyOver' \in SUBSET (Crashy' \X (1 .. MaxDeliveries))
BY DEF Crashy, CrashyAt, CrashyOver

\* A step that keeps each job's kind keeps the set of crashy jobs.
LEMMA CrashySame ==
    ASSUME job \in [Job -> JobState], NEW j \in Job, NEW t, t.kind = job[j].kind,
           job' = [job EXCEPT ![j] = t]
    PROVE  /\ Crashy' = Crashy
           /\ job'[j] = t /\ \A i \in Job : i # j => job'[i] = job[i]
BY DEF Crashy

\* ... and one that brings none of them further keeps the counts.
LEMMA CountsKept ==
    ASSUME job \in [Job -> JobState], NEW j \in Job, NEW t, t.kind = job[j].kind,
           job' = [job EXCEPT ![j] = t], t.kind = "crashy" => Keeps(job[j], t)
    PROVE  /\ \A n \in Nat : n >= 2 => CrashyAt(n)' = CrashyAt(n)
           /\ CrashyOver \subseteq CrashyOver'
<1>1. /\ Crashy' = Crashy /\ job'[j] = t
      /\ \A i \in Job : i # j => job'[i] = job[i]
    BY CrashySame
<1>2. \A n \in Nat : n >= 2 => CrashyAt(n)' = CrashyAt(n)
    <2> SUFFICES ASSUME NEW n \in Nat, n >= 2, NEW i \in Crashy
                 PROVE  Reached(job'[i]) >= n <=> Reached(job[i]) >= n
        BY <1>1 DEF CrashyAt
    <2>1. i \in Job /\ job[i].kind = "crashy"
        BY DEF Crashy
    <2> QED
        BY <1>1, <2>1 DEF Keeps
<1>3. CrashyOver \subseteq CrashyOver'
    <2> SUFFICES ASSUME NEW x \in CrashyOver
                 PROVE  x[2] <= Reached(job'[x[1]]) /\ \A r \in job'[x[1]].runs : r.d # x[2]
        BY <1>1 DEF CrashyOver
    <2>1. /\ x[1] \in Job /\ job[x[1]].kind = "crashy" /\ x[2] \in 1 .. MaxDeliveries
          /\ x[2] <= Reached(job[x[1]]) /\ \A r \in job[x[1]].runs : r.d # x[2]
        BY DEF CrashyOver, Crashy
    <2>2. CASE x[1] = j
        BY <1>1, <2>1, <2>2 DEF Keeps
    <2>3. CASE x[1] # j
        BY <1>1, <2>1, <2>3
    <2> QED
        BY <2>2, <2>3
<1> QED
    BY <1>2, <1>3

\* Then the histogram and the crashes stay explained.
LEMMA CountedKept ==
    ASSUME Counted, NEW j \in Job, NEW t, t.kind = job[j].kind, job \in [Job -> JobState],
           job' = [job EXCEPT ![j] = t], t.kind = "crashy" => Keeps(job[j], t),
           UNCHANGED <<reclaims, crashCount, late>>,
           faults' \in {faults, faults + 1}, faults' <= MaxFaults,
           timeouts' \in Nat, timeouts' <= faults'
    PROVE  Counted'
<1>1. /\ \A n \in Nat : n >= 2 => CrashyAt(n)' = CrashyAt(n)
      /\ CrashyOver \subseteq CrashyOver'
    BY CountsKept
<1>2. /\ IsFiniteSet(CrashyOver') /\ Cardinality(CrashyOver') \in Nat
      /\ Cardinality(CrashyOver) \in Nat
    BY CountsFinite, PairsFinite
<1>3. Cardinality(CrashyOver) <= Cardinality(CrashyOver')
    <2> DEFINE V == CrashyOver
               W == CrashyOver'
    <2>1. V \subseteq W /\ IsFiniteSet(W)
        BY <1>1, <1>2
    <2> HIDE DEF V, W
    <2> QED
        BY <2>1, FS_Subset DEF V, W
<1>4. \A n \in DOMAIN reclaims : n \in Nat /\ n >= 2
    BY Sizes DEF Counted
<1>5. \A n \in DOMAIN reclaims' :
        /\ reclaims'[n] \in Nat /\ reclaims'[n] >= Cardinality(CrashyAt(n)')
        /\ n > MaxDeliveries => reclaims'[n] = Cardinality(CrashyAt(n)')
    BY <1>1, <1>4 DEF Counted
<1> QED
    BY <1>2, <1>3, <1>5, Sizes DEF Counted

-----------------------------------------------------------------------------
(* The steps *)

\* No step changes a job's kind.
LEMMA KindKept ==
    ASSUME NEW s \in JobState, NEW r
    PROVE  /\ [s EXCEPT !.runs = @ \ {r}] \in JobState
           /\ [s EXCEPT !.runs = @ \ {r}].kind = s.kind
           /\ Removed(s).kind = s.kind
           /\ Removed(s) \in JobState
           /\ Committed(s).kind = s.kind
BY DEF JobState, Removed, Committed

\* ... nor does the script that gives a job up.
LEMMA KindOfDead ==
    ASSUME NEW s \in JobState, NEW reason, NEW attempts, NEW error
    PROVE  DeadLettered(s, reason, attempts, error).kind = s.kind
<1> DEFINE u == Removed(s)
<1>1. u \in JobState /\ u.kind = s.kind /\ u.dlq = s.dlq
    BY DEF JobState, Removed
<1> HIDE DEF u
<1>2. ASSUME NEW q PROVE [u EXCEPT !.done = "DEAD", !.dlq = q].kind = u.kind
    BY <1>1 DEF JobState
<1> QED
    BY <1>1, <1>2 DEF DeadLettered, u

\* One job moves; for the others only the faults do.
LEMMA JobsSound ==
    ASSUME VerdictInv, NEW j \in Job, NEW t, Set(j, t), JobSound(t, faults'),
           faults' \in {faults, faults + 1}
    PROVE  job' \in [Job -> JobState] /\ \A i \in Job : JobSound(job'[i], faults')
<1>1. t \in JobState /\ job' = [job EXCEPT ![j] = t] /\ job \in [Job -> JobState]
    BY DEF JobSound, Set, VerdictInv
<1>2. faults \in Nat /\ faults' \in Nat /\ faults <= faults'
    BY DEF VerdictInv, Counted
<1>3. ASSUME NEW i \in Job PROVE JobSound(job'[i], faults')
    <2>1. CASE i = j
        BY <1>1, <2>1
    <2>2. CASE i # j
        <3>1. job'[i] = job[i] /\ JobSound(job[i], faults)
            BY <1>1, <2>2 DEF VerdictInv
        <3> QED
            BY <3>1, <1>2, MoreFaults
    <2> QED
        BY <2>1, <2>2
<1> QED
    BY <1>1, <1>3

\* What a step of one job has to show.
LEMMA OneJobStep ==
    ASSUME VerdictInv, NEW j \in Job, NEW t, Set(j, t), JobSound(t, faults'),
           t.kind = job[j].kind, t.kind = "crashy" => Keeps(job[j], t),
           UNCHANGED <<reclaims, crashCount, late>>,
           faults' \in {faults, faults + 1}, faults' <= MaxFaults,
           timeouts' \in Nat, timeouts' <= faults'
    PROVE  VerdictInv'
<1>1. job' \in [Job -> JobState] /\ \A i \in Job : JobSound(job'[i], faults')
    BY JobsSound
<1>2. job' = [job EXCEPT ![j] = t] /\ Counted /\ job \in [Job -> JobState]
    BY DEF Set, VerdictInv
<1>3. Counted'
    BY <1>2, CountedKept
<1> QED
    BY <1>1, <1>3 DEF VerdictInv

\* A crashy job that loses a run, and is as far as it was.
LEMMA FewerRunsKeep ==
    ASSUME NEW s, NEW t, t.runs \subseteq s.runs, Reached(t) = Reached(s)
    PROVE  Keeps(s, t)
BY DEF Keeps

\* What an action may rely on.
LEMMA Before ==
    ASSUME VerdictInv, NEW j \in Job
    PROVE  /\ JobSound(job[j], faults) /\ job[j] \in JobState
           /\ faults \in Nat /\ faults <= MaxFaults /\ timeouts \in Nat /\ timeouts <= faults
BY Sizes DEF VerdictInv, Counted

\* A first delivery brings a crashy job to no delivery that is counted.
LEMMA DeliverKeeps == ASSUME VerdictInv, NEW j \in Job, Deliver(j) PROVE VerdictInv'
<1> DEFINE s == job[j]
           t == [s EXCEPT !.copy = "pending", !.count = 1,
                   !.runs = @ \union {[a |-> s.attempt, d |-> 1, phase |-> "running"]}]
<1>1. JobSound(t, faults)
    BY Before, StepDeliver DEF Deliver
<1>2. t.kind = s.kind /\ t.dlq = s.dlq /\ t.count = 1
    BY Before DEF JobState
<1>3. Reached(s) = 0 /\ Reached(t) = 1
    BY <1>2, Before DEF Deliver, JobSound, EndsRight, Reached
<1>4. Keeps(s, t)
    BY <1>3 DEF Keeps
<1>5. Set(j, t) /\ UNCHANGED <<reclaims, crashCount, late, timeouts, faults>>
    BY DEF Deliver
<1> HIDE DEF t
<1> QED
    BY <1>1, <1>2, <1>4, <1>5, Before, OneJobStep

\* A job that waits is where it was.
LEMMA ScheduleKeeps == ASSUME VerdictInv, NEW j \in Job, Schedule(j) PROVE VerdictInv'
<1> DEFINE s == job[j]
           t == [s EXCEPT !.copy = "queued"]
<1>1. JobSound(t, faults)
    BY Before, StepSchedule DEF Schedule
<1>2. t.kind = s.kind /\ t.dlq = s.dlq /\ t.count = s.count /\ t.runs = s.runs
    BY Before DEF JobState
<1>3. Set(j, t) /\ UNCHANGED <<reclaims, crashCount, late, timeouts, faults>>
    BY DEF Schedule
<1> HIDE DEF t
<1>4. Keeps(s, t)
    <2>1. Reached(t) = Reached(s)
        BY <1>2 DEF Reached
    <2> QED
        BY <1>2, <2>1, FewerRunsKeep
<1> QED
    BY <1>1, <1>2, <1>3, <1>4, Before, OneJobStep

\* A lost run costs a fault.
LEMMA RunLostKeeps ==
    ASSUME VerdictInv, NEW j \in Job, NEW r \in job[j].runs, RunLost(j, r)
    PROVE  VerdictInv'
<1> DEFINE s == job[j]
           t == [s EXCEPT !.runs = @ \ {r}]
<1>1. faults' = faults + 1 /\ faults' <= MaxFaults /\ faults' \in {faults, faults + 1}
    BY Before, Sizes DEF RunLost, TakeFault
<1>2. JobSound(t, faults')
    BY <1>1, Before, StepDrop
<1>3. t.kind = s.kind /\ t.dlq = s.dlq /\ t.count = s.count /\ t.runs \subseteq s.runs
    BY Before DEF JobState
<1>4. Set(j, t) /\ UNCHANGED <<reclaims, crashCount, late, timeouts>>
    BY DEF RunLost, Without
<1> HIDE DEF t
<1>5. Keeps(s, t)
    <2>1. Reached(t) = Reached(s)
        BY <1>3 DEF Reached
    <2> QED
        BY <1>3, <2>1, FewerRunsKeep
<1>6. timeouts' \in Nat /\ timeouts' <= faults'
    BY <1>1, <1>4, Before
<1> QED
    BY <1>1, <1>2, <1>3, <1>4, <1>5, <1>6, OneJobStep

\* The effect is logged before the run may commit.
LEMMA ApplyKeeps ==
    ASSUME VerdictInv, NEW j \in Job, NEW r \in job[j].runs, Apply(j, r)
    PROVE  VerdictInv'
<1> DEFINE s == job[j]
           u == [s EXCEPT !.runs = (s.runs \ {r}) \union {[r EXCEPT !.phase = "applied"]}]
           t == LedgerApply(u)
<1>1. Kinds[s.kind].effect /\ r.phase = "running"
    BY DEF Apply, KindOfJob
<1>2. JobSound(t, faults)
    BY <1>1, Before, StepApply
<1>3. [Without(j, r) EXCEPT !.runs = @ \union {[r EXCEPT !.phase = "applied"]}] = u
    BY Before DEF Without, JobState
<1>4. Set(j, t) /\ UNCHANGED <<reclaims, crashCount, late, timeouts, faults>>
    BY <1>3 DEF Apply
<1>5. t.kind = s.kind
    BY Before DEF LedgerApply, JobState
<1>6. t.kind # "crashy"
    BY <1>1, <1>5, KindFacts, Before, JobFields DEF KindKnown
<1> HIDE DEF t
<1> QED
    BY <1>2, <1>4, <1>5, <1>6, Before, OneJobStep

\* Only a job that is to succeed commits: none that was given up.
LEMMA CommitKeeps ==
    ASSUME VerdictInv, NEW j \in Job, NEW r \in job[j].runs, Commit(j, r)
    PROVE  VerdictInv'
<1> DEFINE s == job[j]
           u == [s EXCEPT !.runs = @ \ {r}]
           c == Committed(u)
           t == IF c.copy = "pending" /\ r.a = c.attempt THEN Removed(c) ELSE c
<1>1. u \in JobState /\ u.kind = s.kind /\ c.kind = s.kind /\ u = Without(j, r)
    BY Before, KindKept DEF Without
<1>2. KindOfJob(j).expect = "SUCCEEDED"
    <2> SUFFICES ASSUME KindOfJob(j).expect = "DEAD" PROVE FALSE
        BY Before, KindFacts, JobFields DEF KindKnown, KindOfJob
    <2>1. ~KindOfJob(j).effect
        BY Before, KindFacts, JobFields DEF KindKnown, KindOfJob
    <2>2. r.phase = "running" /\ ~Bad(j, r)
        BY <2>1 DEF Commit
    <2> QED
        BY <2>2, Before, DeadKindsAreBad
<1>3. Kinds[s.kind].effect => r.phase = "applied"
    BY DEF Commit, KindOfJob
<1>4. JobSound(t, faults)
    BY <1>2, <1>3, Before, StepCommit DEF KindOfJob
<1>5. t.kind = s.kind
    <2>1. c \in JobState
        <3>1. <<>> \in Seq(DlqEntry) /\ u.results + 1 \in Nat
            BY <1>1 DEF JobState
        <3> QED
            BY <1>1, <3>1 DEF Committed, JobState
    <2> HIDE DEF c
    <2> QED
        BY <1>1, <2>1, KindKept
<1>6. t.kind # "crashy"
    BY <1>2, <1>5, Before, KindFacts, JobFields DEF KindKnown, KindOfJob
<1>7. late' = late
    <2>1. s.done # "DEAD"
        BY <1>2, Before DEF JobSound, EndsRight, KindOfJob
    <2> QED
        BY <2>1 DEF Commit
<1>8. Set(j, t) /\ UNCHANGED <<reclaims, crashCount, timeouts, faults>>
    BY <1>1 DEF Commit
<1> HIDE DEF t
<1> QED
    BY <1>4, <1>5, <1>6, <1>7, <1>8, Before, OneJobStep

\* Worker._fail, with what has to hold of the run.
LEMMA FailedKeeps ==
    ASSUME VerdictInv, NEW j \in Job, NEW r \in job[j].runs, NEW error \in {"raise", "hang"},
           Set(j, Failed(j, r, error)), UNCHANGED <<reclaims, crashCount, late>>,
           faults' \in {faults, faults + 1}, faults' <= MaxFaults,
           timeouts' \in Nat, timeouts' <= faults',
           job[j].kind # "crashy", job[j].kind = "slow" => faults' = faults + 1,
           Bad(j, r) \/ faults' = faults + 1,
           job[j].kind = "hang_forever" => error = "hang"
    PROVE  VerdictInv'
<1> DEFINE s == job[j]
           t == Failed(j, r, error)
<1>1. KindOfJob(j).expect = "SUCCEEDED" => r.a + 1 <= s.need + faults'
    <2>1. r.a \in Nat /\ s.need \in Nat /\ s.attempt \in Nat /\ faults \in Nat
        BY Before, JobFields
    <2>2. CASE Bad(j, r)
        BY <2>1, <2>2 DEF Bad
    <2>3. CASE faults' = faults + 1
        BY <2>1, <2>3, Before DEF JobSound, NotWorn, RunsKnown, KindOfJob
    <2> QED
        BY <2>2, <2>3
<1>2. JobSound(t, faults')
    BY <1>1, Before, StepFailed
<1>3. t.kind = s.kind
    <2> DEFINE u == Without(j, r)
    <2>1. u \in JobState /\ u.kind = s.kind
        BY Before, KindKept DEF Without
    <2>2. Removed(u) \in JobState /\ Removed(u).kind = s.kind
        BY <2>1, KindKept
    <2>3. DeadLettered(u, "max_attempts", r.a + 1, error).kind = s.kind
        <3> HIDE DEF u
        <3> QED
            BY <2>1, KindOfDead
    <2>4. [Removed(u) EXCEPT !.copy = "delayed", !.attempt = r.a + 1].kind = s.kind
        BY <2>2 DEF JobState
    <2> HIDE DEF u
    <2> QED
        BY <2>1, <2>2, <2>3, <2>4 DEF Failed, u
<1> HIDE DEF t
<1> QED
    BY <1>2, <1>3, Before, OneJobStep DEF t

\* flaky and poison raise while they are to.
LEMMA RaisesKeeps ==
    ASSUME VerdictInv, NEW j \in Job, NEW r \in job[j].runs, Raises(j, r)
    PROVE  VerdictInv'
<1>1. job[j].kind \notin {"crashy", "slow", "hang_forever"}
    BY Before, KindFacts, JobFields DEF Raises, KindOfJob, KindKnown
<1>2. /\ Bad(j, r) /\ Set(j, Failed(j, r, "raise"))
      /\ UNCHANGED <<reclaims, crashCount, late, timeouts, faults>>
    BY DEF Raises
<1> QED
    BY <1>1, <1>2, Before, FailedKeeps

\* A timeout of a run that cannot hang is paid with a fault.
LEMMA TimesOutKeeps ==
    ASSUME VerdictInv, NEW j \in Job, NEW r \in job[j].runs, TimesOut(j, r)
    PROVE  VerdictInv'
<1> DEFINE s == job[j]
<1>1. s.kind \in KindName /\ r.a \in Nat /\ s.need \in Nat /\ s.need \in Kinds[s.kind].needs
    BY Before, JobFields DEF JobSound, RunsKnown
<1>2. /\ Set(j, Failed(j, r, "hang")) /\ UNCHANGED <<reclaims, crashCount, late>>
      /\ r.phase # "doomed"
      /\ timeouts' = IF MayHang(s.kind, r.a) THEN timeouts ELSE timeouts + 1
    BY DEF TimesOut
<1>3. CASE Bad(j, r) /\ KindOfJob(j).bad = "hang"
    <2>1. faults' = faults
        BY <1>3 DEF TimesOut
    <2>2. s.kind \in {"hang", "hang_thread", "hang_process", "hang_forever"} /\ r.a < s.need
        BY <1>1, <1>3, KindFacts DEF Bad, KindOfJob, KindKnown
    <2>3. MayHang(s.kind, r.a)
        <3>1. s.kind \in {"hang", "hang_process"} => s.need \in 1 .. 2
            BY <1>1, KindFacts DEF KindKnown
        <3>2. s.kind = "hang_thread" => s.need = 1
            BY <1>1, KindFacts DEF KindKnown
        <3> QED
            BY <1>1, <2>2, <3>1, <3>2 DEF MayHang
    <2>4. timeouts' = timeouts
        BY <1>2, <2>3
    <2> QED
        BY <1>2, <1>3, <2>1, <2>2, <2>4, Before, FailedKeeps
<1>4. CASE ~(Bad(j, r) /\ KindOfJob(j).bad = "hang")
    <2>1. ~Bad(j, r) /\ faults' = faults + 1 /\ faults < MaxFaults
        BY <1>4 DEF TimesOut, TakeFault
    <2>2. s.kind # "crashy"
        <3>1. KindOfJob(j).expect # "DEAD"
            BY <1>2, <2>1, Before, DeadKindsAreBad
        <3> QED
            BY <1>1, <3>1, KindFacts DEF KindOfJob, KindKnown
    <2>3. timeouts' \in Nat /\ timeouts' <= faults' /\ faults' <= MaxFaults
        BY <1>2, <2>1, Before, Sizes
    <2> QED
        BY <1>2, <2>1, <2>2, <2>3, Before, FailedKeeps
<1> QED
    BY <1>3, <1>4

\* A crashy job is given up as far as it came.
LEMMA DoomedKeeps ==
    ASSUME VerdictInv, NEW j \in Job, NEW r \in job[j].runs, Doomed(j, r)
    PROVE  VerdictInv'
<1> DEFINE s == job[j]
           u == Without(j, r)
           t == IF IsOwner(j, r) THEN DeadLettered(u, "max_deliveries", r.a + 1, "none") ELSE u
<1>1. Set(j, t) /\ UNCHANGED <<reclaims, crashCount, late, timeouts, faults>>
    BY DEF Doomed
<1>2. JobSound(t, faults) /\ s.kind = "crashy"
    BY Before, StepDoomed DEF Doomed
<1>3. /\ u \in JobState /\ u.kind = s.kind /\ u.runs \subseteq s.runs /\ u.copy = s.copy
      /\ u.done = s.done /\ u.dlq = s.dlq /\ u.count = s.count
    BY Before DEF Without, JobState
<1>4. t.kind = s.kind
    <2> HIDE DEF u
    <2>1. DeadLettered(u, "max_deliveries", r.a + 1, "none").kind = s.kind
        BY <1>3, KindOfDead
    <2> QED
        BY <1>3, <2>1
<1>5. t.runs \subseteq s.runs /\ Reached(t) = Reached(s)
    <2>1. CASE ~IsOwner(j, r)
        BY <1>3, <2>1 DEF Reached
    <2>2. CASE IsOwner(j, r)
        <3> DEFINE e == [reason |-> "max_deliveries", deliveries |-> s.count,
                         attempts |-> r.a + 1, error |-> "none"]
        <3>1. s.copy = "pending" /\ s.dlq = <<>> /\ s.done = "NONE"
            <4>1. s.copy = "pending"
                BY <2>2 DEF IsOwner
            <4>2. Kinds[s.kind].expect = "DEAD"
                BY <1>2, Before, JobFields, KindFacts DEF KindKnown
            <4> QED
                BY <4>1, <4>2, Before DEF JobSound, EndsRight
        <3>2. t = [Removed(u) EXCEPT !.done = "DEAD", !.dlq = Append(u.dlq, e)]
            BY <1>3, <2>2, <3>1 DEF DeadLettered, Removed
        <3>3. e.deliveries = s.count
            OBVIOUS
        <3> HIDE DEF u, t, e
        <3>4. t.runs = u.runs /\ t.dlq = Append(u.dlq, e)
            BY <1>3, <3>2 DEF Removed, JobState
        <3>5. t.dlq = Append(<<>>, e)
            BY <1>3, <3>1, <3>4
        <3>6. t.dlq # <<>> /\ t.dlq[1] = e
            <4>1. Append(<<>>, e) = <<e>>
                OBVIOUS
            <4> QED
                BY <3>5, <4>1
        <3> QED
            BY <1>3, <3>1, <3>3, <3>4, <3>6 DEF Reached
    <2> QED
        BY <2>1, <2>2
<1> HIDE DEF t
<1>6. Keeps(s, t)
    BY <1>5, FewerRunsKeep
<1> QED
    BY <1>1, <1>2, <1>4, <1>6, Before, OneJobStep

\* crashy's os._exit: one run less under way, one crash more.
LEMMA CrashesKeeps ==
    ASSUME VerdictInv, NEW j \in Job, NEW r \in job[j].runs, Crashes(j, r)
    PROVE  VerdictInv'
<1> DEFINE s == job[j]
           t == [s EXCEPT !.runs = @ \ {r}]
           x == <<j, r.d>>
<1>1. s.kind = "crashy"
    BY Before, JobFields, KindFacts DEF Crashes, KindOfJob, KindKnown
<1>2. JobSound(t, faults)
    BY <1>1, Before, StepDrop
<1>3. t.kind = s.kind /\ t.dlq = s.dlq /\ t.count = s.count /\ t.runs = s.runs \ {r}
    BY Before DEF JobState
<1>4. /\ Set(j, t) /\ crashCount' = crashCount + 1
      /\ UNCHANGED <<reclaims, late, timeouts, faults>>
    BY DEF Crashes, Without
<1> HIDE DEF t
<1>5. Reached(t) = Reached(s)
    BY <1>3 DEF Reached
<1>6. Keeps(s, t)
    BY <1>3, <1>5, FewerRunsKeep
<1>7. r.d \in 1 .. MaxDeliveries /\ r.d <= Reached(s)
    <2>1. r.phase = "running" /\ r.d \in Nat /\ r.d >= 1
        BY Before, JobFields DEF Crashes, Bad
    <2>2. ~(r.d > MaxDeliveries) /\ r.d <= Reached(s)
        BY <1>1, <2>1, Before DEF JobSound, RunsKnown, NotWorn
    <2> QED
        BY <2>1, <2>2, Sizes
<1>8. \A q \in t.runs : q.d # r.d
    <2> SUFFICES ASSUME NEW q \in s.runs, q.d = r.d PROVE q = r
        BY <1>3
    <2>1. q.a = 0 /\ r.a = 0
        <3>1. q.a \in Nat /\ r.a \in Nat /\ s.attempt = 0 /\ q.a <= s.attempt /\ r.a <= s.attempt
            BY <1>1, Before, JobFields DEF JobSound, RunsKnown, NotWorn
        <3> QED
            BY <3>1
    <2> QED
        BY <2>1, Before DEF JobSound, RunsKnown
<1>9. /\ job \in [Job -> JobState] /\ Counted
      /\ job' = [job EXCEPT ![j] = t]
    BY <1>4 DEF VerdictInv, Set
<1>10. /\ \A n \in Nat : n >= 2 => CrashyAt(n)' = CrashyAt(n)
       /\ CrashyOver \subseteq CrashyOver'
    BY <1>3, <1>6, <1>9, CountsKept
<1>11. x \in CrashyOver' /\ x \notin CrashyOver
    <2>1. Crashy' = Crashy /\ job'[j] = t /\ j \in Crashy
        BY <1>1, <1>3, <1>9, CrashySame DEF Crashy
    <2> QED
        BY <1>5, <1>7, <1>8, <2>1 DEF CrashyOver
<1>12. Cardinality(CrashyOver) + 1 <= Cardinality(CrashyOver')
    <2> DEFINE V == CrashyOver
               W == CrashyOver'
               Y == V \union {x}
    <2>1. IsFiniteSet(V) /\ Cardinality(V) \in Nat /\ IsFiniteSet(W)
        BY CountsFinite, PairsFinite
    <2>2. Y \subseteq W /\ x \notin V
        BY <1>10, <1>11
    <2> HIDE DEF V, W, x
    <2>3. Cardinality(Y) = Cardinality(V) + 1
        BY <2>1, <2>2, FS_AddElement
    <2> HIDE DEF Y
    <2>4. Cardinality(Y) <= Cardinality(W)
        BY <2>1, <2>2, FS_Subset
    <2> QED
        BY <2>3, <2>4 DEF V, W
<1>13. \A n \in DOMAIN reclaims : n \in Nat /\ n >= 2
    BY Sizes DEF VerdictInv, Counted
<1>14. Counted'
    <2>1. \A n \in DOMAIN reclaims' :
            /\ reclaims'[n] \in Nat /\ reclaims'[n] >= Cardinality(CrashyAt(n)')
            /\ n > MaxDeliveries => reclaims'[n] = Cardinality(CrashyAt(n)')
        BY <1>4, <1>9, <1>10, <1>13 DEF Counted
    <2>2. crashCount' \in Nat /\ crashCount' <= Cardinality(CrashyOver')
        <3>1. Cardinality(CrashyOver) \in Nat /\ Cardinality(CrashyOver') \in Nat
            BY CountsFinite, PairsFinite
        <3>2. crashCount \in Nat /\ crashCount <= Cardinality(CrashyOver)
            BY <1>9 DEF Counted
        <3> QED
            BY <1>4, <1>12, <3>1, <3>2
    <2> QED
        BY <1>4, <1>9, <2>1, <2>2 DEF Counted
<1>15. job' \in [Job -> JobState] /\ \A i \in Job : JobSound(job'[i], faults')
    BY <1>2, <1>4, JobsSound
<1> QED
    BY <1>14, <1>15 DEF VerdictInv

\* A reclaim is counted at the delivery it leads to: for a crashy job, once at each.
LEMMA ReclaimKeeps == ASSUME VerdictInv, NEW j \in Job, Reclaim(j) PROVE VerdictInv'
<1> DEFINE s == job[j]
           d == s.count + 1
           new == [a |-> s.attempt, d |-> d, phase |-> PhaseAt(d)]
           t == [s EXCEPT !.count = d, !.runs = @ \union {new}]
           owners == {r \in s.runs : IsOwner(j, r)}
<1>1. /\ s.copy = "pending" /\ d \in DOMAIN reclaims /\ Set(j, t)
      /\ IF owners = {} \/ (s.kind = "slow" /\ s.runs = owners) THEN UNCHANGED faults
         ELSE TakeFault
      /\ reclaims' = [reclaims EXCEPT ![d] = @ + 1]
      /\ UNCHANGED <<crashCount, late, timeouts>>
    BY DEF Reclaim
<1>2. /\ DOMAIN reclaims = 2 .. MaxDeliveries + MaxFaults + 1 /\ s.count \in Nat
      /\ d <= MaxDeliveries + MaxFaults + 1 /\ d \in Nat /\ d >= 2
    BY <1>1, Before, JobFields, Sizes DEF VerdictInv, Counted
<1>3. faults' \in {faults, faults + 1} /\ faults' <= MaxFaults
    BY <1>1, Before, Sizes DEF TakeFault
<1>4. \/ faults' = faults + 1
      \/ ~HasOwner(s)
      \/ s.kind = "slow" /\ \A r \in s.runs : r.a = s.attempt /\ r.d = s.count
    BY <1>1 DEF TakeFault, HasOwner, IsOwner
<1>5. JobSound(t, faults') /\ (s.kind # "crashy" => d <= MaxDeliveries)
    BY <1>1, <1>2, <1>3, <1>4, Before, StepReclaim
<1>6. job' \in [Job -> JobState] /\ \A i \in Job : JobSound(job'[i], faults')
    BY <1>1, <1>3, <1>5, JobsSound
<1>7. /\ t.kind = s.kind /\ t.dlq = s.dlq /\ t.count = d /\ t.runs = s.runs \union {new}
      /\ new.d = d
    BY Before DEF JobState
<1>8. Reached(t) = d /\ Reached(s) = s.count
    BY <1>1, <1>7, Before DEF JobSound, EndsRight, Reached
<1>9. job \in [Job -> JobState] /\ Counted /\ job' = [job EXCEPT ![j] = t]
    BY <1>1 DEF VerdictInv, Set
<1> HIDE DEF t, new
<1>10. /\ Crashy' = Crashy /\ job'[j] = t
       /\ \A i \in Job : i # j => job'[i] = job[i]
    BY <1>7, <1>9, CrashySame
<1>11. \A n \in DOMAIN reclaims : n \in Nat /\ n # d => CrashyAt(n)' = CrashyAt(n)
    <2> SUFFICES ASSUME NEW n \in Nat, n # d, NEW i \in Crashy
                 PROVE  Reached(job'[i]) >= n <=> Reached(job[i]) >= n
        BY <1>10 DEF CrashyAt
    <2>1. i \in Job
        BY DEF Crashy
    <2> QED
        BY <1>2, <1>8, <1>10, <2>1
<1>12. PICK k \in Nat : k = d
    BY <1>2
<1>13. Cardinality(CrashyAt(k)')
         = IF s.kind = "crashy" THEN Cardinality(CrashyAt(k)) + 1 ELSE Cardinality(CrashyAt(k))
    <2>1. \A i \in Crashy : i \in Job /\ (i = j => s.kind = "crashy")
        BY DEF Crashy
    <2>2. CASE s.kind # "crashy"
        <3>1. CrashyAt(k)' = CrashyAt(k)
            BY <1>10, <2>1, <2>2 DEF CrashyAt
        <3> QED
            BY <2>2, <3>1
    <2>3. CASE s.kind = "crashy"
        <3> DEFINE V == CrashyAt(k)
                   W == CrashyAt(k)'
        <3>1. IsFiniteSet(V) /\ Cardinality(V) \in Nat
            BY CountsFinite, JobsFinite
        <3>2. j \in Crashy
            BY <2>3 DEF Crashy
        <3>3. Reached(job'[j]) >= k /\ ~(Reached(job[j]) >= k)
            BY <1>2, <1>8, <1>10, <1>12
        <3>4. W = V \union {j} /\ j \notin V
            BY <1>10, <2>1, <3>2, <3>3 DEF CrashyAt
        <3> HIDE DEF V, W
        <3>5. Cardinality(W) = Cardinality(V) + 1
            BY <3>1, <3>4, FS_AddElement
        <3> QED
            BY <2>3, <3>5 DEF V, W
    <2> QED
        BY <2>2, <2>3
<1>14. ASSUME NEW n \in DOMAIN reclaims'
       PROVE  /\ reclaims'[n] \in Nat /\ reclaims'[n] >= Cardinality(CrashyAt(n)')
              /\ n > MaxDeliveries => reclaims'[n] = Cardinality(CrashyAt(n)')
    <2>1. n \in DOMAIN reclaims /\ n \in Nat
        BY <1>1, <1>2
    <2>2. /\ reclaims[n] \in Nat /\ reclaims[n] >= Cardinality(CrashyAt(n))
          /\ n > MaxDeliveries => reclaims[n] = Cardinality(CrashyAt(n))
        BY <1>9, <2>1 DEF Counted
    <2>3. CASE n # k
        BY <1>1, <1>11, <1>12, <2>1, <2>2, <2>3
    <2>4. CASE n = k
        <3>1. PICK c \in Nat : c = Cardinality(CrashyAt(n))
            BY CountsFinite, JobsFinite
        <3>2. reclaims'[n] = reclaims[n] + 1
            BY <1>1, <1>12, <2>1, <2>4
        <3>3. Cardinality(CrashyAt(n)') = IF s.kind = "crashy" THEN c + 1 ELSE c
            BY <1>13, <2>4, <3>1
        <3>4. s.kind # "crashy" => n <= MaxDeliveries
            BY <1>5, <1>12, <2>4
        <3> QED
            BY <2>1, <2>2, <3>1, <3>2, <3>3, <3>4, Sizes
    <2> QED
        BY <2>3, <2>4
<1>15. CrashyOver \subseteq CrashyOver'
    <2> SUFFICES ASSUME NEW x \in CrashyOver
                 PROVE  x[2] <= Reached(job'[x[1]]) /\ \A r \in job'[x[1]].runs : r.d # x[2]
        BY <1>10 DEF CrashyOver
    <2>1. /\ x[1] \in Job /\ x[2] \in 1 .. MaxDeliveries
          /\ x[2] <= Reached(job[x[1]]) /\ \A r \in job[x[1]].runs : r.d # x[2]
        BY DEF CrashyOver, Crashy
    <2>2. CASE x[1] = j
        <3>1. x[2] <= s.count /\ x[2] \in Nat /\ \A r \in s.runs : r.d # x[2]
            BY <1>8, <2>1, <2>2
        <3>2. x[2] < d
            BY <1>2, <3>1
        <3> QED
            BY <1>2, <1>7, <1>8, <1>10, <2>2, <3>1, <3>2
    <2>3. CASE x[1] # j
        BY <1>10, <2>1, <2>3
    <2> QED
        BY <2>2, <2>3
<1>16. crashCount' \in Nat /\ crashCount' <= Cardinality(CrashyOver')
    <2> DEFINE V == CrashyOver
               W == CrashyOver'
    <2>1. IsFiniteSet(W) /\ Cardinality(V) \in Nat /\ Cardinality(W) \in Nat /\ V \subseteq W
        BY <1>15, CountsFinite, PairsFinite
    <2>2. crashCount \in Nat /\ crashCount <= Cardinality(V) /\ crashCount' = crashCount
        BY <1>1, <1>9 DEF Counted
    <2> HIDE DEF V, W
    <2>3. Cardinality(V) <= Cardinality(W)
        BY <2>1, FS_Subset
    <2>4. crashCount' \in Nat /\ crashCount' <= Cardinality(W)
        BY <2>1, <2>2, <2>3
    <2> QED
        BY <2>4 DEF W
<1>17. Counted'
    <2>1. DOMAIN reclaims' = 2 .. MaxDeliveries + MaxFaults + 1
        BY <1>1, <1>2
    <2>2. faults' \in 0 .. MaxFaults /\ timeouts' \in Nat /\ timeouts' <= faults' /\ late' = 0
        BY <1>1, <1>3, <1>9, Before, Sizes DEF Counted
    <2> QED
        BY <1>14, <1>16, <2>1, <2>2 DEF Counted
<1> QED
    BY <1>6, <1>17 DEF VerdictInv

-----------------------------------------------------------------------------
(* The theorems *)

\* The first state.
LEMMA InitVerdict == VerdictInit => VerdictInv
<1> SUFFICES ASSUME VerdictInit PROVE VerdictInv
    OBVIOUS
<1>1. PICK kind \in [Job -> KindName], need \in [Job -> UNION {Kinds[k].needs : k \in KindName}] :
        /\ \A j \in Job : need[j] \in Kinds[kind[j]].needs
        /\ job = [j \in Job |-> [kind |-> kind[j], need |-> need[j], copy |-> "queued",
                                 attempt |-> 0, count |-> 0, runs |-> {}, done |-> "NONE",
                                 dlq |-> <<>>, results |-> 0, effects |-> 0]]
    BY DEF VerdictInit
<1>2. ASSUME NEW j \in Job
      PROVE  /\ job[j].kind \in KindName /\ job[j].need \in Kinds[job[j].kind].needs
             /\ job[j].need \in Nat /\ job[j].copy = "queued" /\ job[j].attempt = 0
             /\ job[j].count = 0 /\ job[j].runs = {} /\ job[j].done = "NONE"
             /\ job[j].dlq = <<>> /\ job[j].results = 0 /\ job[j].effects = 0
             /\ job[j] \in JobState
    <2>1. need[j] \in Nat
        <3>1. KindKnown(kind[j]) /\ need[j] \in Kinds[kind[j]].needs
            BY <1>1, KindFacts
        <3>2. CASE Kinds[kind[j]].expect = "SUCCEEDED"
            BY <3>1, <3>2 DEF KindKnown
        <3>3. CASE Kinds[kind[j]].expect = "DEAD"
            BY <3>1, <3>3, Sizes DEF KindKnown
        <3> QED
            BY <3>1, <3>2, <3>3 DEF KindKnown
    <2>2. PICK q \in Seq(DlqEntry) : q = <<>>
        <3>1. <<>> \in Seq(DlqEntry)
            OBVIOUS
        <3> QED
            BY <3>1
    <2>3. job[j] = [kind |-> kind[j], need |-> need[j], copy |-> "queued",
                    attempt |-> 0, count |-> 0, runs |-> {}, done |-> "NONE",
                    dlq |-> q, results |-> 0, effects |-> 0]
        BY <1>1, <2>2
    <2>4. job[j] \in JobState
        BY <2>1, <2>3, Sizes DEF JobState
    <2> QED
        BY <1>1, <2>1, <2>2, <2>3, <2>4
<1>3. job \in [Job -> JobState]
    BY <1>1, <1>2
<1>4. ASSUME NEW j \in Job PROVE JobSound(job[j], 0)
    <2>1. RunsKnown(job[j]) /\ EndsRight(job[j])
        BY <1>2, Sizes DEF RunsKnown, EndsRight
    <2>2. NotWorn(job[j], 0)
        BY <1>2 DEF NotWorn
    <2> QED
        BY <1>2, <2>1, <2>2 DEF JobSound
<1>5. /\ reclaims = [n \in 2 .. MaxDeliveries + MaxFaults + 1 |-> 0]
      /\ crashCount = 0 /\ late = 0 /\ timeouts = 0 /\ faults = 0
    BY DEF VerdictInit
<1>6. \A j \in Job : Reached(job[j]) = 0
    BY <1>2 DEF Reached
<1>7. \A n \in DOMAIN reclaims : n \in Nat /\ CrashyAt(n) = {}
    BY <1>5, <1>6, Sizes DEF CrashyAt, Crashy
<1>8. CrashyOver = {}
    BY <1>6 DEF CrashyOver, Crashy
<1>9. Counted
    <2>1. Cardinality({}) = 0
        BY FS_EmptySet
    <2>2. DOMAIN reclaims = 2 .. MaxDeliveries + MaxFaults + 1
        BY <1>5
    <2>3. \A n \in DOMAIN reclaims : reclaims[n] = 0 /\ Cardinality(CrashyAt(n)) = 0
        BY <1>5, <1>7, <2>1
    <2>4. crashCount \in Nat /\ crashCount <= Cardinality(CrashyOver)
        BY <1>5, <1>8, <2>1
    <2>5. faults \in 0 .. MaxFaults /\ timeouts \in Nat /\ timeouts <= faults /\ late = 0
        BY <1>5, Sizes
    <2> QED
        BY <2>2, <2>3, <2>4, <2>5 DEF Counted
<1> QED
    BY <1>3, <1>4, <1>5, <1>9 DEF VerdictInv

\* Every step.
LEMMA NextVerdict == VerdictInv /\ [VerdictNext]_verdictVars => VerdictInv'
<1> SUFFICES ASSUME VerdictInv, [VerdictNext]_verdictVars PROVE VerdictInv'
    OBVIOUS
<1>1. CASE VerdictNext
    <2>1. PICK j \in Job : \/ Deliver(j) \/ Reclaim(j) \/ Schedule(j)
                           \/ \E r \in job[j].runs : RunLost(j, r) \/ RunStep(j, r)
        BY <1>1 DEF VerdictNext
    <2>2. CASE Deliver(j)
        BY <2>2, DeliverKeeps
    <2>3. CASE Reclaim(j)
        BY <2>3, ReclaimKeeps
    <2>4. CASE Schedule(j)
        BY <2>4, ScheduleKeeps
    <2>5. ASSUME NEW r \in job[j].runs, RunLost(j, r) \/ RunStep(j, r) PROVE VerdictInv'
        <3>1. CASE RunLost(j, r)
            BY <3>1, RunLostKeeps
        <3>2. CASE Apply(j, r)
            BY <3>2, ApplyKeeps
        <3>3. CASE Commit(j, r)
            BY <3>3, CommitKeeps
        <3>4. CASE Raises(j, r)
            BY <3>4, RaisesKeeps
        <3>5. CASE TimesOut(j, r)
            BY <3>5, TimesOutKeeps
        <3>6. CASE Crashes(j, r)
            BY <3>6, CrashesKeeps
        <3>7. CASE Doomed(j, r)
            BY <3>7, DoomedKeeps
        <3> QED
            BY <2>5, <3>1, <3>2, <3>3, <3>4, <3>5, <3>6, <3>7 DEF RunStep
    <2> QED
        BY <2>1, <2>2, <2>3, <2>4, <2>5
<1>2. CASE UNCHANGED verdictVars
    BY <1>2 DEF verdictVars, VerdictInv, Counted, CrashyAt, CrashyOver, Crashy
<1> QED
    BY <1>1, <1>2

\* However the faults fall, each job is in a state its kind and the faults so far explain
\* (JobSound), and the counters are those of the crashy jobs (Counted).
THEOREM VerdictAlwaysSound == VerdictSpec => []VerdictInv
BY InitVerdict, NextVerdict, PTL DEF VerdictSpec

\* A drained job has ended as its kind says.
LEMMA RestingJob ==
    ASSUME VerdictInv, AtRest, NEW j \in Job
    PROVE  /\ job[j].done = KindOfJob(j).expect
           /\ job[j].effects = IF KindOfJob(j).effect THEN Want(j) ELSE 0
           /\ job[j].results = Want(j)
           /\ IF KindOfJob(j).expect # "DEAD" THEN job[j].dlq = <<>>
              ELSE Len(job[j].dlq) = 1 /\ DlqRight(j, job[j].dlq[1])
           /\ KindKnown(job[j].kind)
<1> DEFINE s == job[j]
<1>1. s.copy = "none" /\ EndsRight(s) /\ s.effects \in Nat
    BY Before, JobFields DEF AtRest, JobSound
<1>2. KindKnown(s.kind) /\ Kinds[s.kind].effect \in BOOLEAN
    BY Before, JobFields, KindFacts
<1>3. s.done = Kinds[s.kind].expect /\ s.done \in {"SUCCEEDED", "DEAD"}
    BY <1>1, <1>2 DEF EndsRight, KindKnown
<1>4. s.effects = IF Kinds[s.kind].effect THEN Want(j) ELSE 0
    <2>1. CASE Kinds[s.kind].effect
        <3>1. s.done = "SUCCEEDED"
            BY <1>2, <1>3, <2>1 DEF KindKnown
        <3> QED
            BY <1>1, <2>1, <3>1 DEF EndsRight, Want
    <2>2. CASE ~Kinds[s.kind].effect
        BY <1>1, <2>2 DEF EndsRight
    <2> QED
        BY <2>1, <2>2
<1>5. s.results = Want(j)
    BY <1>1 DEF EndsRight, Want
<1>6. IF Kinds[s.kind].expect # "DEAD" THEN s.dlq = <<>>
      ELSE Len(s.dlq) = 1 /\ DlqRight(j, s.dlq[1])
    BY <1>1, <1>3 DEF EndsRight, DlqFits, DlqRight, KindOfJob
<1> QED
    BY <1>2, <1>3, <1>4, <1>5, <1>6 DEF KindOfJob

\* At rest the histogram splits as the report does it.
LEMMA RestingOthers ==
    ASSUME VerdictInv, AtRest, NEW n \in DOMAIN reclaims
    PROVE  Others(n) >= 0 /\ (Others(n) > 0 => n <= MaxDeliveries)
<1>1. {j \in Crashy : \E i \in DOMAIN job[j].dlq : job[j].dlq[i].deliveries >= n} = CrashyAt(n)
    <2> SUFFICES ASSUME NEW j \in Crashy
                 PROVE  (\E i \in DOMAIN job[j].dlq : job[j].dlq[i].deliveries >= n)
                          <=> Reached(job[j]) >= n
        BY DEF CrashyAt
    <2>1. j \in Job /\ job[j].kind = "crashy"
        BY DEF Crashy
    <2>2. Len(job[j].dlq) = 1 /\ job[j].dlq \in Seq(DlqEntry)
        BY <2>1, RestingJob, Before, JobFields DEF KindOfJob, KindKnown
    <2>3. DOMAIN job[j].dlq = {1} /\ job[j].dlq # <<>>
        BY <2>2
    <2> QED
        BY <2>3 DEF Reached
<1>2. PICK c \in Nat : c = Cardinality(CrashyAt(n))
    BY CountsFinite, JobsFinite
<1>3. Others(n) = reclaims[n] - c
    BY <1>1, <1>2 DEF Others
<1>4. reclaims[n] \in Nat /\ reclaims[n] >= c /\ (n > MaxDeliveries => reclaims[n] = c) /\ n \in Nat
    BY <1>2, Sizes DEF VerdictInv, Counted
<1> QED
    BY <1>3, <1>4, Sizes

\* The verdict follows.
LEMMA VerdictFollows == VerdictInv => VerdictRight
<1> SUFFICES ASSUME VerdictInv PROVE VerdictRight
    OBVIOUS
<1>1. ASSUME AtRest PROVE Passed
    <2>1. I1 /\ I2 /\ I2b
        BY <1>1, RestingJob DEF I1, I2, I2b, VerdictInv, Counted
    <2>2. crashCount <= Cardinality(Crashy) * MaxDeliveries
        <3>1. PICK v \in Nat : v = Cardinality(CrashyOver)
            BY CountsFinite, PairsFinite
        <3>2. PICK m \in Nat : m = Cardinality(Crashy) * MaxDeliveries
            <4>1. Cardinality(Crashy) \in Nat
                BY CountsFinite, JobsFinite
            <4> QED
                BY <4>1, Sizes
        <3>3. v <= m
            BY <3>1, <3>2, CountsFinite, PairsFinite
        <3>4. crashCount \in Nat /\ crashCount <= v
            BY <3>1 DEF VerdictInv, Counted
        <3>5. crashCount <= m
            BY <3>3, <3>4
        <3> QED
            BY <3>2, <3>5
    <2>3. I3
        BY <1>1, <2>2, RestingJob DEF I3
    <2>4. I5
        BY <1>1 DEF I5, AtRest
    <2> QED
        BY <2>1, <2>3, <2>4 DEF Passed
<1>2. ASSUME AtRest, NEW n \in DOMAIN reclaims
      PROVE  Others(n) >= 0 /\ (Others(n) > 0 => n <= MaxDeliveries)
    BY <1>2, RestingOthers
<1>3. timeouts <= faults
    BY DEF VerdictInv, Counted
<1> QED
    BY <1>1, <1>2, <1>3 DEF VerdictRight

\* The invariant includes the types.
LEMMA VerdictInvTypes == VerdictInv => VerdictTypeOK
<1> SUFFICES ASSUME VerdictInv PROVE VerdictTypeOK
    OBVIOUS
<1>1. \A j \in Job : job[j] \in JobState /\ (job[j].copy # "pending" => job[j].count = 0)
    BY DEF VerdictInv, JobSound
<1>2. /\ \A n \in DOMAIN reclaims : reclaims[n] \in Nat
      /\ crashCount \in Nat /\ late = 0 /\ timeouts \in Nat /\ faults \in 0 .. MaxFaults
    BY DEF VerdictInv, Counted
<1> QED
    BY <1>1, <1>2 DEF VerdictTypeOK

\* The states of the verdict are those described.
THEOREM VerdictTypes == VerdictSpec => []VerdictTypeOK
BY VerdictAlwaysSound, VerdictInvTypes, PTL

\* For any jobs and any budget of faults within the sizing of the mix, a run at rest passes
\* every check of the verifier, the reclaims left after the crashy jobs' are explained, and a
\* timeout of a run that cannot hang was caused by a fault.
THEOREM VerdictsAreRight == VerdictSpec => []VerdictRight
BY VerdictAlwaysSound, VerdictFollows, PTL

=============================================================================
