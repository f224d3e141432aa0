# A TLA+ model of ftq

ftq is a task queue on Redis: at-least-once delivery with leases, retries, a dead-letter
queue, effectively-once side effects and backpressure. Around it the repository keeps a chaos
harness, a load generator and a benchmark driver. This directory holds TLA+ modules that model
all of these, the TLC runs that check them on small instances, and TLAPS proofs that hold for
every instance: of the queue, and of every other part as far as its safety goes. Paths below are
relative to `src/src/ftq/`, those that start with `chaos/`, `bench/` or `deploy/` to `src/`.

## The system

| Part | State it keeps | Operations | What makes it correct |
|---|---|---|---|
| Lua scripts (`scripts/*.lua`) | all in Redis: the stream, the group's pending list (PEL) with owner, delivery count and idle time, the delayed set, a done key per job, the DLQ stream, results log, effects log and its markers, full flag, idempotency keys | `enqueue`, `commit`, `retry`, `dead`, `heartbeat`, `reclaim`, `schedule`, `requeue`, `ledger`, `prune_consumers`; each runs atomically | a job is never in no place, never in two that contradict each other, and ends once |
| Worker (`worker.py`) | tasks in flight, suspects among them, orphaned runs, stop flag, pools | fetch loop with a reaper pass, maintenance loop (scheduler, pruning), one task per delivery, heartbeat loop per run, drain | what a worker believes about an entry may be stale at any await; the scripts' ownership checks must make that harmless |
| Reaper, scheduler, transitions, ledger (`reaper.py`, `scheduler.py`, `transitions.py`, `ledger.py`) | the reaper's cursor | one script call each | as above |
| Producer client (`client.py`) | pending and accepted jobs of a call | `enqueue`, `enqueue_many` in reject or block mode | an accepted job is in the queue; a refusal is true; nobody blocks for ever on an empty queue |
| DLQ tools (`dlq.py`) | none | `requeue`, `requeue_all`, `list_dead` | the DLQ is exactly the DEAD jobs |
| Settings (`config.py`) | limits, watermarks, time spans | validators | the TTLs outlast every redelivery; connections suffice |
| Process pool (in `worker.py`) | current pool, its readiness, pools reset on purpose, slots | warm-up, reset, restart of bystanders | a job killed by another job's timeout loses no attempt |
| Handlers, registry, models (`handlers/`, `registry.py`, `models.py`) | none | user code | outcomes only: return, raise, hang, crash |
| Chaos harness (`chaos/run.py`, `faults.py`, `topology.py`) | the state of each fault's task, the workers held down, restart counts | inject and heal faults, restart workers, drain, stop, verify | it verifies a system at rest, and never takes its own kills for failures |
| Verifier and job mix (`chaos/verifier.py`, `mix.py`, `handlers/faults.py`) | what Redis recorded | kinds of jobs, checks I1 to I5 | a correct queue passes, under every schedule of faults |
| Load generator (`bench/loadgen.py`) | four keys in Redis, a producer's offered jobs | rendezvous of hosts, paced producing, drain, verdict | nothing before everyone is ready; "ok" is true; the rate is kept |
| Benchmark arithmetic (`bench/analysis.py`) | none | histograms, percentiles, CPU in a window | no figure better than the truth, none invented |
| Benchmark driver (`deploy/bench.py`) | result files, tasks in the cloud | run, resume, recover | a point's figures are of that point alone, and files beside each other of one run |
| CLI, logs, metrics, charts, cloud stack | none of the queue's | observe or drive the above | - |

Producers and workers share nothing but Redis. They interact through the scripts, and each
script call may be carried out and yet unanswered: `make_redis` lets the client library send it
again. What is hard:

- *Concurrency.* Two workers hold the same entry when a lease expired under a slow one; two
  entries hold the same job when an enqueue was re-sent; a timed-out run goes on as an orphan
  beside its own retry; an operator's requeue races a late success.
- *Failure.* Workers die between any two steps; replies are lost; Redis is unreachable when the
  outcome of a run should be recorded; children of the process pool die or hang; the driver of a
  benchmark dies and its tasks go on.
- *Boundaries.* Attempts, deliveries, suspect slots, watermarks.
- *Progress.* Everything that gets stuck is recovered by a lease that expires and a reaper that
  comes by, or by a scheduler that moves due retries.

`PROJECT.json` lists these as hazards, each at its line, with the properties that cover it.

## Modules

| Module | Models | State and actions |
|---|---|---|
| `JobQueue` | the Redis state of one queue and its workers | one action per script call or worker step, below |
| `JobContract` | what a job is promised, with no queue in it | a state per job, its results and effects; `Accept`, `Perform`, `Succeed`, `SucceedLate`, `Die`, `Requeue` |
| `JobQueueProofs` | - | theorems about `JobQueue`: its structures stay consistent |
| `JobSafetyProofs` | - | theorems about `JobQueue`: nothing lost, everything once, the contract implemented |
| `JobLeaseProofs` | - | theorems about `JobQueue`: leases, slots, connections, copies |
| `BackpressureProofs`, `ProcessPoolProofs` | - | theorems about these two modules |
| `WorkerProofs` | - | theorems about `Lifetime`, `DlqSweep`, `ReaperCursor`, and all of `MCWorker` |
| `ChaosProofs` | - | theorems about `ChaosRun` and `ChaosVerdict` |
| `BenchProofs` | - | theorems about `BenchSession`, `Pacing`, `Loadgen`, `BenchAnalysis`, and all of `MCHarness` |
| `Backpressure` | `enqueue.lua` in full and `Client.enqueue_many` | depth, full flag, idempotency keys, calls in progress |
| `ReaperCursor` | the fetch loop and the reaper's cursor of one worker | leases, cursor, slots; `Reap`, `ReapFails`, `SkipReap`, `Fetch` |
| `ProcessPool` | the process pool of one worker | attempts with their phase, clock and pool, pools with their children |
| `Lifetime` | the settings' time bounds and one copy of a job | a discrete clock, the copy's phase, the done key's TTL |
| `DlqSweep` | `requeue_all` | the DLQ by id, the page being swept, what others do meanwhile |
| `ChaosRun` | injector, supervisor and orchestrator of a chaos run | stage of each fault, containers, proxies, holds, the supervisor's pass |
| `ChaosVerdict` | kinds of jobs, fault handlers, the verifier's checks | each job's entry, runs and record in Redis |
| `Loadgen` | coordinator and producer hosts of a load test | where each host is, the four keys, the jobs |
| `Pacing` | the loop of one producer process | clock, jobs offered, counts per second |
| `BenchAnalysis` | `bench/analysis.py` as operators | calls and CPU samples, to apply them to |
| `BenchSession` | the benchmark driver, with tasks, logs and Redis around it | the driver's place, files, tasks, logs |
| `MCJobQueue`, `MCBackpressure` | - | their instances for TLC |
| `MCWorker` | `ProcessPool`, `Lifetime`, `DlqSweep` and `ReaperCursor` | `part`: which of the four a behaviour is of |
| `MCHarness` | the six modules of the harness | `part`, likewise |

Operators whose comment starts with "Mutant" are not part of a specification: each is a
plausible bug in the definition that follows it, used to make sure that a property notices.

### JobQueue

The stream is a function from entry ids to job fields (`entry`); the PEL is `owner`,
`deliveries` and `expired`; `last` is the group's last delivered id. A job's fields are its id,
its attempt number and the time stamp `enqueue.lua` put on it. The time stamp is there because
the delayed set is a set of *fields*: two copies of a job are one member or two depending on it.
A DLQ entry is filed under the id of the stream entry it was made from (`dlq_source_entry_id`).

A worker is a consumer name with a `status`, the set of its `tasks` and the set of its
`orphans`. A restarted process has a new name, hence is another worker. A task is one delivery:
its entry, its delivery count, the fields as they were when delivered, and a phase.

| Code | Action |
|---|---|
| `Worker._connect`, `ensure_group` | `Start` |
| `request_stop`, end of `_fetch_loop`, `_drain` and `_shutdown_pools` | `RequestStop`, `StopFetching`, `Exit`; a read under way when the stop comes still delivers (`Fetch` in status "stopping") |
| a killed process | `Crash` |
| `_fetch`, `_spawn`, start of `_process` | `Fetch`, with `FirstPhase` deciding between a run and dead-lettering unrun |
| `_reap`, `Reaper.reclaim`, `reclaim.lua` | `Reclaim`, with `Kept` for the suspect slot |
| `_run_handler`, `_stop_run` | `HandlerReturns`, `HandlerFails`, `HandlerTimesOut`, `OrphanEnds` |
| a handler's `ctx.ledger.apply` | `ApplyEffect` |
| `_heartbeat_loop`, `heartbeat.lua` | `Heartbeat` |
| `commit.lua`, `retry.lua`, `dead.lua` through `Transitions` | `Commit`, `Retry`, `Dead`, each with its reply received or lost |
| the `except` branches of `_process`, `_fail`, `_to_dlq` | `GiveUp` |
| `schedule.lua`, `prune_consumers.lua` | `Schedule`, `Prune` |
| `requeue.lua` | `Requeue` |
| time | `LeaseExpires`, `BackoffElapses` |

Two things of the scripts are not in the model because the proved invariants exclude them.
`retry.lua`'s ENTRY_MISSING branch, `dead.lua`'s empty field list and the "deleted" ids of
XAUTOCLAIM need a pending entry without stream data, which `PendingExact` rules out;
`requeue.lua`'s "the DLQ entry is gone" needs a DEAD job without one, which `DlqExact` rules
out. A handler that has an effect does it through the ledger and returns only after the ledger
answered; a handler with no effect is the case in which nobody looks at the effects log.

Deliberate abstractions: idle time is "expired or not" and a delay is "due or not", with
arbitrary spans (`Lifetime` has the spans); the lease of a task that beats, or is about to give its entry up, expires only
through a fault (a stall, a pause, a partition), counted against `MaxFaults`; the reaper's
cursor is replaced by an arbitrary window of ids (`ReaperCursor` has the cursor); counters,
payloads and error texts are left out; done and ledger keys do not expire (`Lifetime` says why
they may). A run of a process job is a run like another (`ProcessPool` has its inside).

### Backpressure

Of the queue only its depth is kept. A call goes through rounds: every pending job is sent, the
scripts of other clients come between them, the round is answered, and the refused jobs are
polled again, or the call ends with QueueFull. `ResendRound` is the client library repeating a
pipeline whose replies were lost; `LoseConnection` is its giving up. Workers and operators change
the depth from outside (`Leave`, `Requeue`). The idempotency keys outlive the model.

### The other parts of a worker

*ReaperCursor.* The turns of `_fetch_loop`: a pass if one is due, then a read of fresh jobs with
the slots that are left. A pass looks at the pending list from the cursor on, as XAUTOCLAIM does
(an external definition, `Scanned`: an entry is within the window if fewer entries than the window
is long, or fewer claimable ones than the count asked for, come before it), keeps what
`reclaim.lua` keeps and remembers the cursor. If there is more to scan the next pass is due at
once. Other workers are left out; they can only
take entries away.

*ProcessPool.* One element of `Run` is one attempt of one process job. `TakeSlot`, `AwaitPool`
and `Begin` are `_run_in_process` up to the submit; `WarmUpRound`, `WarmUpTimesOut` and
`WarmUpBreaks` are `_warm_up` with its children; `TimesOut`, `Restart` and `Break` are the three
ways a run that did not return ends, told apart by `ResetProcessPool`'s record of pools reset on
purpose; `Abandon` and `ShutdownPools` are the stop. Time is a tick that moves the clocks of runs.

*Lifetime.* The operators are the validators of `config.py` and `backoff.py`'s bound; the state
machine is one copy of a job that is delivered, crashes, is reclaimed, fails and backs off, each
as late as it can, while another copy commits at some moment. The heartbeat loop beside a run
sleeps its interval and calls (`SendBeat`, `BeatLands`, `BeatOver`). A call takes as long as its
re-sends do, up to `CallLimit`; it runs `heartbeat.lua` never, once or repeatedly. When calls are
slow or lost, a reaper may take the entry from a healthy worker: its run goes on to its end and
may still commit (`StaleCommit`), as `commit.lua` asks for no lease.

*DlqSweep.* `BeginSweep`, `ReadPage` and `RequeueNext` are `requeue_all`; dying again, late success
and another operator's requeue happen between its calls; a reply lost to the client is re-sent.

### Chaos harness

*ChaosRun* splits every coroutine where it awaits Docker or a proxy. The orchestrator makes the
proxies, starts the workers and lets the producer, the injector and the supervisor go. A fault
goes through its stages (waiting for its moment, killing, applied, restarted, executed or
skipped). A docker command may fail by itself at any time (`DockerErrs`), and a kill or a pause
that failed may have taken effect all the same (`KillUnreported`, `PauseUnreported`), as may a
network fault whose call failed. The supervisor copies the
holds, reads the states and looks at one worker after the other. In the end the orchestrator
heals, drains, stops and verifies; an error aborts it and cancels every task. One fact about
durations is assumed: `Due` gives a worker no new fault while one of the plan
is at it, unless that one had to be retried (`plan` leaves room for the duration and a settling
time). A pass of the supervisor may take any time. The history variable `lapses` records the
workers whose hold did not keep the supervisor off, for the reasons given below.
*ChaosVerdict* leaves the containers out: faults hit runs (`RunLost`, a stalled `Reclaim`),
handlers do what their kind does at that attempt, and `I1` to `I5` are the checks on what Redis
then holds.

### Benchmarks

*Loadgen* has the coordinator and the hosts as processes that poll each other's keys, with pushes
that may be sent twice. *Pacing* is the inside of one producer: the clock is read at `Turn` and
used after the awaits. *BenchAnalysis* compares the code's algorithms with reference definitions
over bounded inputs; the one place where floating point matters, the rank of a percentile, is
modelled as it comes out (the totals of `RoundsUp`). *BenchSession* has the driver's steps in order, its two files per
point, and a cloud in which tasks run on and logs arrive late when the driver is dead.

## What TLC checks

| Run | Question | Instance | States |
|---|---|---|---|
| `copies` | Is a copy of a job ever lost or made up, and is the job recorded once? | 2 workers, 1 job sent twice, 2 attempts, 2 deliveries, a fault | 255 k |
| `requeue` | Do dead-lettering, late success, requeue, orphans and the ledger agree; do slots and the suspect slot hold, does no entry fall between stream and PEL? | 2 workers with 2 slots, 1 job sent twice, 1 attempt, 2 deliveries, a requeue, a fault | 737 k |
| `drain` | Does an accepted job end? | a steady worker and one that stops or dies, a retry, a requeue, a fault | 32 k |
| `drain_suspects` | Do suspects starve each other? | as above with 2 suspects, one job unknown to one worker and not beating | 64 k |
| `backpressure` | Watermarks, keys, truthful answers, progress | 3 calls of 2, 1 and 1 jobs, two under one key, watermarks 2 and 1, 2 lost replies, a requeue | 135 k |
| `worker` | The parts of a worker and the DLQ tool below | pool: 3 attempts, 2 children, a death, a stuck child or none; lifetime: every accepted combination of small settings, with heartbeat calls of up to two and a half intervals; sweep: 3 jobs, pages of 2, 4 DLQ entries, a lost reply; cursor: 4 entries, 3 of them suspects, 2 slots, a failed pass | 311 k |
| `harness` | The chaos and benchmark harness below | chaos run: 2 workers, plans of two kills of a worker, of a kill and a pause of one, of a pause and a network fault of two, a crash, a docker error; verdict: 2 jobs of any kinds, 5 attempts, 3 deliveries, a fault; load test: a coordinator, 2 hosts, 2 jobs, a death, a lost reply; producer: 10 units of time, 6 jobs per 6 units; figures: 20 calls (or 980 before them), 4 samples and every window; sessions: 2 of 2 points, a death of the driver, recover | 616 k |

`worker` and `harness` check several components in one run. The variable `part` is chosen
initially and never changes; only the chosen component moves, the others rest in a state in
which none of their fair actions is enabled. So each behaviour is one of the chosen component's
own specification (`PoolSpec`, `LifetimeSpec`, ...), and a liveness property of one component holds
trivially of the behaviours of the others and in full of its own.

The properties:

- `NoLoss`: an accepted job is in the stream, in the delayed set, or terminal.
- `NoNewCopies`: retries, redeliveries, schedules and requeues move a copy and never make one.
- `OneResult`: one results entry for a job that succeeded, none otherwise.
- `EffectOnce`: at most one effect over all deliveries, attempts, orphans and requeues, and
  exactly one if the job succeeded.
- `PendingExact`: delivered entries of the stream = pending entries.
- `DlqExact`: DLQ entries = DEAD jobs, under the ids the done keys name.
- `LeaseRespected`: an entry changes hands only when its lease has expired and leaves the queue
  only with a success or by a task of its owner.
- `SlotsRespected`: runs and orphans never exceed the slots; one suspect task at a time.
- `ConnectionsSuffice`: runs, their heartbeats, transitions and orphans never need more
  connections than `redis_max_connections` allows for (its part that depends on `concurrency`).
- `RefinesContract`, `MeetsContract`: the queue implements `JobContract`, its safety part and its
  liveness part, with a job's abstract state read off its done key.
- `QueueDrains`: stream and delayed set are empty in the end.
- `WatermarkHolds`, `EmptyQueueAdmits`, `BlockedCallEnds`, `AcceptedWasAdded`, `KeyExact`,
  `KeyedRefusalWroteNothing`: see `Backpressure`.

In `worker`:

- `TimeoutEarned`, `BystandersRestart`, `NoLostPool` (`ProcessPool`): an attempt is only charged
  for its own time or for a death in its own pool; the clock runs only while a child is there for
  the run; no pool's processes are forgotten.
- `CommitsOnce`, `HealthyKeepsLease` (`Lifetime`): the done key outlives every copy as long as
  waiting for a reaper and for a slot eats up no more than the margin, and without such waiting
  `lifetime_bound` is a bound, for runs that lost their entry too; and a healthy worker keeps its
  lease as long as the time its heartbeat calls took since the last beat that landed, and an
  interval for each one lost, come to less than two intervals.
- `SweepExact` (`DlqSweep`): a sweep takes all of the DLQ it started with, nothing else, and no
  job twice, except once more for each lost reply.
- `SuspectsDoNotBlock` (`ReaperCursor`): if suspects run for ever, every expired entry that is not
  a suspect is still taken up.
- `WorkerEnds`: attempts end (`AttemptsOver`), a stop ends (`StopOver`), where runs end every
  expired entry is taken up (`ExpiredTaken`), and a sweep ends (`SweepOver`).

In `harness`:

- `VerifiedAtRest`, `AlarmsRight`, `DrainUndisturbed` (`ChaosRun`): the verifier reads a system at
  rest; the crashes the supervisor counts happened, no worker told to stop is counted, and no worker
  is on hold without a kill under way; killed workers stay down and are not counted as unexpected
  exits until a hold has lapsed (`lapses`); nobody stays paused or cut off.
- `VerdictRight` (`ChaosVerdict`): a drained run of a correct queue passes every check, wherever
  the faults fell, and its histogram and its false timeouts are explained by them.
- `OkIsTrue` (`Loadgen`): "ok" and "start" rest on every host, unless a reply was lost (see below).
- `KeepsRate` (`Pacing`): the offered rate is never exceeded and never lags by more than one
  turnaround.
- `FiguresTrue` (`BenchAnalysis`): a percentile of the merged histograms exists and is the bucket of
  the nearest rank of the calls themselves (`IsNearestRank`, the exception below included); the CPU
  of a window lies between what the samples say was used inside it and what may have been
  (`BusyIsMeasured`). Both are against reference definitions.
- `PointIsOneRun` (`BenchSession`): `CleanStart` and `ReportOfSnapshot`; points and runs are kept
  apart, except in a session resumed after the driver died and for reports recovered after a
  second session (see below).
- `HarnessEnds`: chaos runs, their jobs, load tests, producers and sessions end.

`WorkerTypeOK` and `HarnessTypeOK` put together the type invariants of the parts.

*Bounds.* Two workers are enough for every race over an entry (the holder and the thief). Two
sends give two copies of a job, which in `requeue` are also two suspects for one suspect slot; two
attempts give a retry, two deliveries a reclaim that is a
suspect's and a third one that is dead-lettered unrun. `MaxEntry` is at least MaxAttempts x
(sends + requeues), so that the bound never keeps a retry or a requeue from being appended, and
liveness is not cut off. `MaxFaults` bounds lost replies, errors and stalls, not crashes: any
worker outside `Steady` may crash at any time. Runs without liveness properties use the symmetry
of worker names.

In `worker`, three attempts on two children make one wait for a slot while another's timeout
resets the pool under a third. `TtlMargin` is 2 instead of 10: nothing depends on its value, and
settings are chosen so that the reaper is as late as just fits the margin (`Margin`). `SlowCalls` has
heartbeat calls of up to five ticks with an interval of two, so that leases are kept, kept with a
lost beat, and lost; `EagerReaper` is the case in which `lifetime_bound` is exact.
`DefaultSettings`, in `doc_missed_beat`, are the code's defaults in ticks of 5 s. `StuckSets` leaves one
child able to start, `LongRunSets` has runs that all end or suspects that never do. Three jobs in
pages of two make a sweep read twice, with an entry that has no fields (`Hollow`) among them. In
`harness`, `Plans` has two kills of one worker, which can overlap; a kill and a pause of one, which
can meet when the first was retried; and a pause and a network fault of different workers.
`MaxDockerErrors` is 1: an error that hits one command while the others work.
`SizingAssumption` is the sizing `chaos/run.py` documents for attempts and deliveries:
one fault for 5 and 3. The 980 earlier calls of `OneSlow` let the total reach 1000, where the rank of
p99.9 is special.

*Deadlock* is not checked: a drained queue whose workers have left, or a producer whose calls
have ended, really stops.

*Fairness.* A steady worker keeps starting, fetching, reaping and scheduling: its loops catch
every Redis error and carry on (`worker.py` 276-281, 296-301, 384-388). A run ends, at its timeout if
nothing else; a transition is answered, since faults are bounded. A stopped worker leaves, by its
grace period. Leases run out and backoffs elapse because time passes. One assumption is about
user code: orphaned runs end some day. Without it a worker whose slots are all held by orphans never
fetches again, as the code intends (ADR-030). There is no fairness for crashes, stops, enqueues,
requeues or heartbeats. In `Backpressure`, clients go on with their calls and workers drain the
queue; a blocked call is not assumed to reach its `block_timeout`.

In the other modules fairness is weak, over the steps of a loop together. `PoolFairness`: the
event loop runs its tasks, time passes, children that are not stuck start; a handler need not
end (its timeout does) and a stop need not come. `CursorFairness`: the fetch loop goes on, its
interval elapses, fresh and reclaimed runs end, except the long ones. `SweepFairness`: the command
goes on. `ChaosFairness`: every task goes on; one strong condition says that a fault's retries end
(they have ten seconds, `chaos/faults.py` 134-151); the drain timeout is not relied on. `VerdictFairness`:
queue and workers go on, without faults. `LoadgenFairness` and `SessionFairness`: live hosts and a
live driver go on, their waits all have limits, and loadgen tasks stop by themselves.
`PacingFairness`: clock and loop go on.

### Where the documentation and the code disagree

| Run | What the text says | What the code does |
|---|---|---|
| `doc_one_suspect` | DECISIONS.md:1289: at most W suspects run at once across W workers | a timed-out suspect's run goes on as an orphan after its task has given up the suspect slot |
| `doc_refusal` | `client.py`:15: a refused job wrote nothing | without an idempotency key, a re-sent enqueue may be refused after its first copy was added; `KeyedRefusalWroteNothing` holds |
| `doc_low_zero` | `client.py`:10-12: block mode follows the rate at which the workers drain the queue | with `low_watermark` = 0, which the settings accept, the full flag is never deleted |
| `doc_missed_beat` | `worker.py`:616: one missed beat is fine; `config.py`:249-252: a full interval of margin for one lost or slow beat | a beat is missed only after `retry_attempts` re-sends of up to `socket_timeout` each: at the defaults 20 s, and with the intervals before and after it the entry is idle for longer than the lease of 30 s |
| `doc_killed_down` | `chaos/faults.py`:229-231: workers killed on purpose are left down until the injector restarts them | `held_down` is a set of names: where two kills of a worker overlap, the one whose `docker kill` fails releases the hold of the other, and the supervisor starts the worker |

### What the model of the other parts shows besides

These are consequences of the code that the modules contain. The properties are stated with
the condition under which they hold; without it TLC refutes them.

- *Queue.* DECISIONS.md:807 says that two copies of a job that fail at the same attempt collapse into
  one retry. Each copy has a time stamp of its own (`enqueue.lua`:86), which is part of the delayed
  set's member (`retry.lua`:66), so both are retried. `OneResult` and `EffectOnce` do not suffer; it
  costs runs. `Fetch` reads as many entries as there are slots at the moment of the read, where
  `_fetch` counts them before it blocks: only the loop that is blocked gives out slots, so in
  between they can only become free, and the model delivers all that the code can.
- *Process pool.* `_ready_processes` awaits the shared warm-up outside the `try` of
  `_run_in_process`: a pool whose warm-up failed stays the current one, and each later process
  job of the worker loses an attempt on it (`Break` with `warm` "failed" leaves `current` alone). `_warm_up` tests its limit
  between rounds, and a round is awaited without one: with every child stuck it is never reached
  (hence `StuckSets` never has all children). A stuck child also holds up a clean stop
  (`StopOver` asks for `stuck = {}`).
- *Lifetime.* `lifetime_bound` leaves out the reap interval and the wait for a slot, so it is
  a bound only where both are 0; the factor of ten absorbs them, as long as they are no more
  than nine times a delivery (`Margin`). No validator limits `reap_interval`. None relates
  `heartbeat_interval` to the length of a call, either, whence the condition of
  `HealthyKeepsLease`. A lease lost this way costs a second run at worst: `CommitsOnce` covers it, and
  the queue's own properties hold whoever loses a lease. The call that records a run's outcome is
  taken to be instantaneous; it is as long as a heartbeat's at most, and the TTL's margin absorbs it
  like the other waits.
- *DLQ sweep.* An entry without fields makes `requeue` raise in the middle of a sweep, and the
  entries behind it are not reached (`SweepExact` is about sweeps that return). A requeue whose
  reply was lost is answered 0 when re-sent: the total is too low.
- *Chaos run.* A worker that the harness killed may be started by the supervisor and counted as an
  unexpected exit, which fails the run, in three ways (`lapses`). Two kills of one worker overlap,
  since the first had to be retried and comes late (`chaos/faults.py` 134-151): one that fails
  releases the other's hold (the run `doc_killed_down`). A `docker kill` fails or times out after it
  took effect: the hold is released with the worker down (`KillUnreported`). A kill comes after
  the supervisor has copied the holds, is seen in the states it then reads, and is healed before it
  looks at this worker. `AlarmsRight` says of killed workers what holds as long as none of these
  came; the rest of it holds always.
  A `docker start` that fails ends the supervisor; the run then needs its drain timeout
  (`RunOver`).
- *Load generator.* RPUSH is not idempotent. One that is re-sent puts a host on the list twice,
  and a count of entries is not a count of hosts: the run may start without a host, or be called ok
  without one's summary (`lost = 0` in `OkIsTrue`).
- *Driver.* A session that resumes after the driver died scales the workers down and flushes
  Redis, but the old pair of loadgen tasks may still be enqueuing (`CleanStart`). `recover` finds
  a log by suite and label, not by run id: after two sessions the one it finds may be of another run
  than the snapshot (`ReportOfSnapshot`).
- *Percentiles.* `99.9 / 100` in floating point is above 0.999: where the total is a multiple of
  1000, p99.9 is the value after the nearest rank (`Rank`, `IsNearestRank`). Computed up to a total
  of 2 000 000, only such totals are affected: all of those below 33000, and most above. Which ones
  is left open as the constant `RoundsUp`, a set of multiples of 1000.

## What is proved

Each theorem holds for all values of the constants that satisfy the named assumptions: any
workers, jobs, callers, attempts, settings, plans, points, latencies, samples. They cover every
safety property of the runs that pass; of those of the worker's and the harness's parts each is
proved twice, for the specification of its part and for the composition that the run checks.

| Module | Theorems | Property of a run |
|---|---|---|
| `JobQueueProofs` | `TypeCorrect`, `PendingIsExact`, `DlqIsExact` from `AlwaysConsistent` | `TypeOK`, `PendingExact`, `DlqExact` |
| `JobSafetyProofs` | `NothingLost`, `ResultsOnce`, `EffectsOnce` from `AlwaysFaithful`; `ImplementsContract` | `NoLoss`, `OneResult`, `EffectOnce`, `RefinesContract` |
| `JobLeaseProofs` | `LeasesAreRespected`; `SlotsAreRespected`, `ConnectionsAlwaysSuffice` from `AlwaysSlots`; `CopiesComeFromEnqueues` | `LeaseRespected`, `SlotsRespected`, `ConnectionsSuffice`, `NoNewCopies` |
| `BackpressureProofs` | `AdmissionTypes`, `WatermarkNeverPassed`, `AcceptanceIsTrue`, `KeysAreExact`, `KeyedRefusalsAreTrue` from `AdmissionHolds`; `EmptyQueueAlwaysAdmits` | `TypeOK`, `WatermarkHolds`, `AcceptedWasAdded`, `KeyExact`, `KeyedRefusalWroteNothing`, `EmptyQueueAdmits` |
| `ProcessPoolProofs` | `PoolTypes`, `ResetsSpareBystanders`, `TimeoutsAreEarned`, `NoPoolIsLost` from `PoolAlwaysSound` | `BystandersRestart`, `TimeoutEarned`, `NoLostPool` |
| `WorkerProofs` | `LifetimeTypes`, `HealthyAlwaysKeepsLease`, `CommitsOnlyOnce` from `LifetimeAlwaysSound`; `SweepIsExact` from `SweepAlwaysSound`; `CursorTypes`; for the worker as a whole `WorkerTypes`, `WorkerIsSafe`, `WorkerCommitsOnce` from `WorkerAlwaysSound` | `HealthyKeepsLease`, `CommitsOnce`, `SweepExact`, `WorkerTypeOK`; with the pool's, all invariants of `worker` |
| `ChaosProofs` | `ChaosTypes`, `VerifiesAtRest`, `DrainsInPeace` from `ChaosAlwaysSound`; `AlarmsAreRight`; `VerdictTypes`, `VerdictsAreRight` from `VerdictAlwaysSound` | `VerifiedAtRest`, `DrainUndisturbed`, `AlarmsRight`, `VerdictRight` |
| `BenchProofs` | `SessionTypes`, `PointsAreOneRun` from `SessionAlwaysSound`; `RateIsKept`, `CountsAreTrue`; `LoadTypes`, `OkIsAlwaysTrue` from `LoadAlwaysSound`; `FiguresAreTrue`; for the harness as a whole `HarnessTypes`, `HarnessIsSafe`, `HarnessKeepsRate` from `HarnessAlwaysSound` | `PointIsOneRun`, `KeepsRate`, `OkIsTrue`, `FiguresTrue`, `HarnessTypeOK`; with the chaos run's, all invariants of `harness` |

### Assumptions

Assumptions on constants are named in the module that declares them, and TLC evaluates them on the
instances: `SettingsAssumption` (the validators of `config.py`), `BoundsAssumption` (bounds are
natural numbers) and `SentinelAssumption` (the "none" values differ from real ones) in
`JobQueue`; `LagAssumption` in `Lifetime` (durations and limits are positive, as `Settings` declares
them); `SizingAssumption` in `ChaosVerdict` (finitely many jobs, and attempts and deliveries to
spare for every fault, as the mix counts on); `LoadgenAssumption` in `Loadgen` (finitely many hosts
and jobs, every job offered by one of them); `AnalysisAssumption` in `BenchAnalysis` (finitely many
producers and latencies, buckets of positive width, `RoundsUp` as above); their likes in the other modules. Some
theorems have a hypothesis of their own, each the condition without which the code does not do it:

- `EmptyQueueAlwaysAdmits`: `Low # 0` (the run `doc_low_zero` shows the other case).
- `CommitsOnlyOnce` and `WorkerCommitsOnce` ask that waiting for a slot and for a reaper stays within the margin of
  the TTL.
- The theorems about the worker as a whole: no child being stuck is one of the cases considered
  (`{} \in StuckSets`), in which the pool rests while another part moves.
- `RateIsKept` and `HarnessKeepsRate`: a batch per longest call carries the rate (`Rate * MaxAwait <= Batch * Second`);
  a producer whose calls are slower than that falls behind, as it must.

`HealthyAlwaysKeepsLease`, `SweepIsExact`, `AlarmsAreRight`, `OkIsAlwaysTrue` and `PointsAreOneRun` have no
hypothesis: what they depend on is a condition within the property, on the history of the
behaviour (calls slow or lost, replies lost, holds lapsed, drivers dead), and every plan, setting
and schedule is covered.

### Arguments

*The queue's structures.* `PendingExact` and `DlqExact` are not inductive by themselves. Appending
an entry preserves them only if its id is new, both to the PEL and to the DLQ: that is `IdsFresh`. A
dead-lettering keeps `DlqExact` only if the entry holds the job that the task names, although
the task read it at delivery and the entry may have been removed since: that is
`TasksMatch`. A reclaim preserves `PendingExact` only if what expired is pending:
`ExpiredPending`. `Consistent` is the conjunction of these with `TypeOK`. The proof has a lemma
per action and lemmas for the operators the actions share (`Add`, `Remove`, `Spawn`, `Answered`,
`InPhase`, `WithAttempt`); `NextConsistent` puts them together.

*Nothing lost, everything once.* The second layer classifies the steps (`StepKinds`): a *quiet*
step moves no copy of a job and records nothing, and what remains is Enqueue, Requeue, ApplyEffect,
Commit, Retry, Dead and Schedule. One lemma each says what these do to the copies. `NoLoss` needs
`Consistent`: a transition removes an entry by its id, and only `TasksMatch` says that the entry
holds the job whose outcome is being recorded. `EffectOnce` needs `LedgerExact` (log and markers
agree; a run that ended well has its marker). The refinement also needs `OnlySent`: whatever is in
the stream, the delayed set, the DLQ or a worker's hands was enqueued, so its contract state is not
UNKNOWN. `Faithful` is the conjunction.

*Leases, slots, copies.* `LeaseRespected` is an action property: it follows step by step from
`Consistent`, with a transition's ownership check read together with `TasksMatch`.
`SlotsRespected` is about cardinalities: a fetch and a pass take at most the slots left over, a
timed-out task turns into an orphan and keeps its slot, and a pass keeps one suspect only if none
is in flight. `NoNewCopies` counts a job's copies over stream, delayed set and DLQ; a retry or a
requeue takes one out and puts one in, and a schedule moves as many as it finds.

*Admission.* An answer is only as true as the state it was read from, and other callers' scripts
come in between. `Admission` therefore says of each *reply under way* that it will be true when it
is taken: an id in a reply names an added job, a key names a job that was added, and a refusal
of a job with a key means that it was never added. Without a key the last fails (`doc_refusal`).

*Process pool.* `PoolInv` says that at most the current pool is alive, that a dead one was reset, has
lost a child or was shut down (`KilledForAReason`), that an attempt which holds a slot has a pool
that is warming up or warm, and that its clock has counted nothing but its handler
(`AttemptsPlaced`). A reset takes a timeout and a break takes a death, which counts the pools
(`PoolsCounted`). The shutdown comes last and leaves none alive (`StoppedIsOver`).

*A copy's life.* `LifetimeAlwaysSound` bounds the clock by where the copy is: by the deliveries and
attempts it has used up, each at most as long as `lifetime_bound` counts for it, plus the waits. The
products of that bound are handled by small lemmas on multiplication. For the heartbeat
(`Beats`) it says that an entry is idle for no longer than the time spent in calls since the last
beat that landed, an interval for each one lost and the sleep under way; three intervals fit the
lease, so what is left of two is for calls. A run whose entry was taken is over by the end of the time
its attempts have (`Stale`), whence the done key outlives it too.

*The sweep.* Nothing lies behind the sweep's start but the page in hand, and what is on the page or
ahead was not requeued by it before, since what dies again gets a higher id.

*The chaos run.* `ChaosInv` ties everything to the orchestrator's place: what may be up, held or
disturbed in each phase. `AlarmInv` has two halves. One holds always: each crash
counted, still down or seen down and not yet counted has a crash of its own (`CrashesCounted`, a
cardinality), and holds belong to kills. The other holds until a hold lapses: kills of one worker do
not overlap, a worker down by a kill is held until its restart, and the supervisor's sample and its
copy of the holds may still be acted on (`SampleTrue`).

*The verdict.* `VerdictInv` speaks of one job at a time (`JobSound`) and of the counters
(`Counted`). Each attempt beyond those its handler needs, each delivery beyond the first (of a slow
job the second, as it does not beat) took a fault; so no job that is to succeed reaches
`max_attempts` or `max_deliveries` within the sizing, and only a crashy one is ever past them. For
slow jobs this needs `OverRuns`, the deliveries whose run has ended: a reclaim is free only when the
job has one run, and then all the earlier ones ended, each by a fault. The counters are compared
with sets: a crash count with the deliveries of crashy jobs whose run is over (`CrashyOver`), the
histogram with the crashy jobs that came so far (`CrashyAt`).

*The driver and the producer.* `SessionInv` says that run ids are used in order, at most one for
each point of a session, so that one is left; that what is saved for a point is of a run of this
point; and that, as long as no session was cut short and followed by another, the only pair of
tasks running is the one the driver waits for and Redis and the workers hold nothing else from the
flush on. `PaceInv` says that nothing is offered before it is due at the turn's reading of the
clock, and how far the clock may be from that reading at each point of the loop. `CountInv` adds the
counts: a call is made within the duration, so the second it is counted in exists.

*The load test.* The coordinator adds up numbers that hosts sent it earlier, so `LoadInv` says of the
list of reports, and of the coordinator's copy of it, that each host is on it at most once, has ended,
and that its number still is the number of its accepted jobs (`Listed`): an ended host offers nothing,
and workers do not undo an acceptance. A list without repetitions that is as long as there are hosts
has all of them (`ListCovers`), which is what both the start and the verdict rely on. The numbers then
add up to the number of accepted jobs (`SumOfHosts`: hosts share no job), and if as many are done, and
only accepted ones can be, all are (`AddsUp`).

*Sums.* They are the community modules' folds over sets, of which the library proves nothing. What
is needed of them (`SumBegins`, `SumSplit`, `SumExchange`, `SumOfParts`) is proved from their
definition: a recursive function on finite subsets is shown to exist, and to be the only one, by
the least subset at which it would fail (`LeastSubset`), which takes the place of induction.

*The figures.* Percentiles: the merged histogram counts by bucket what the calls count by producer
and latency, so the samples seen up to a bucket's edge are the calls whose latency is at most this
edge (`MergedCounts`, `SeenIs`, by exchanging sums and by grouping them). Buckets keep the order
of latencies (`EdgeOrder`), and a whole number reaches the rank exactly if it reaches the
percentage (`RankIs`); so the first bucket to reach it is the bucket of the first latency to do so.
CPU: the samples are of a counter that grows, and never by more than all cores can use in the time
(`Recorded`). A value read between two samples is then no less than every sample before and no
greater than every sample after, and within the cores' reach of both (`ReadBetween`,
`ReadingsAgree`). Two readings are compared through a sample between them, or, when there is none,
on one line (`SampleInside`, `NoneInside`).

*The compositions.* In `HarnessInv` the part that moves satisfies its own invariant and the parts at
rest are in their state of rest, in which what is claimed of them holds (`RestTypes`, `RestIsSafe`).
In `WorkerInv` all four parts satisfy their invariants, as their states of rest do (`RestSound`), and
a step of the worker is a step of one and leaves the others alone (`PartSteps`).

Before it was proved, each of these invariants was checked by TLC on the instances of the runs.

### Only model-checked

- Liveness (`QueueDrains`, `MeetsContract`, `BlockedCallEnds`, `WorkerEnds`, `SuspectsDoNotBlock`,
  `HarnessEnds`): fairness is out of the prover's reach.

## What is not modelled

- Backoff's distribution: a delay may be of any length up to its bound.
- Statistics counters, logs, metrics, payloads, JSON, key names: no control depends on them.
- The command line, the cloud stack commands (`deploy/aws.py`), the local benchmark runner
  (`bench/run.py`) and the stand-alone probes: sequences of calls of other programs, with no state
  shared or resumed. Charts and summaries (`bench/plot.py`, `chaos/summary.py`): layout.
- Of the load generator: the unpaced mode, the samplers of depth and CPU, the report's layout. Of the
  driver: planning, cost, `--redo`, the rate of a backpressure point, the local backend. Of the
  verifier: I4, a comparison of counts with fixed minimums.
- Validators of names, of `block_ms` and of `consumer_prune_idle`, and environment parsing.
- Redis itself: scripts are atomic and durable. Failover and lost writes of Redis are outside
  what ftq promises. Docker, Toxiproxy and ECS are modelled as far as the harness relies on them.

## Plan

Done, in this order: `JobContract`, `JobQueue` and its runs, `Backpressure` and its runs,
`JobQueueProofs`, `JobSafetyProofs`; `ProcessPool`, `Lifetime`, `DlqSweep`, `ReaperCursor` and the
connections of a worker; `ChaosRun`, `ChaosVerdict`, `Loadgen`, `Pacing`, `BenchAnalysis`,
`BenchSession`; `JobLeaseProofs`, `BackpressureProofs`, `ProcessPoolProofs`, `WorkerProofs`,
`ChaosProofs`, `BenchProofs`.

Next: the order of passes of `ReaperCursor` (the part of `SuspectsDoNotBlock` that is a safety
property: a pass never steps over an entry it could have taken); and a shorter proof of the cases of
`ChaosProofs` that are alike.
