------------------------------- MODULE Pacing -------------------------------
(***************************************************************************)
(* One producer process of the load generator (bench/loadgen.py _produce): *)
(* it offers jobs at a fixed rate in batches, on a grid of ticks, and      *)
(* waits while the stream is too deep.  The clock is read once per turn of *)
(* the loop and used after awaits that take time of their own.             *)
(***************************************************************************)
EXTENDS Naturals, FiniteSetsExt

CONSTANTS
    Rate,           \* jobs per Second (rate > 0: the paced mode)
    Second,         \* one second, in units of the model's clock
    Duration,       \* spec.duration
    Tick,           \* spec.tick_ms
    Batch,          \* spec.batch
    MaxAwait        \* the longest an XLEN, an enqueue call or an overshoot of a sleep takes

ASSUME PacingAssumption ==
    /\ {Rate, Second, Duration, Tick, Batch} \subseteq Nat \ {0}
    /\ MaxAwait \in Nat

VARIABLES
    depthLimited,   \* spec.max_depth is set
    clock,      \* perf_counter() - t0
    loop,       \* where the loop is: "top", "xlen", "call", "sleep", "done"
    since,      \* when the await began; of a sleep, when it is to end
    now,        \* the reading of the clock this turn of the loop uses
    due,        \* jobs due by then
    offered,    \* jobs offered
    perSecond   \* of each second: offered and accepted jobs

pacingVars == <<depthLimited, clock, loop, since, now, due, offered, perSecond>>

LastSecond == (Duration - 1) \div Second
Seconds == 0 .. LastSecond
LastClock == Duration + Tick + 3 * MaxAwait     \* bound: past the end of the last turn

total_due == (Rate * Duration) \div Second

OfferedIn(s) == perSecond[s].offered
AcceptedIn(s) == perSecond[s].accepted

\* The types; every offered job is counted in one second, accepted or not.
PacingTypeOK ==
    /\ depthLimited \in BOOLEAN
    /\ clock \in 0 .. LastClock /\ since \in 0 .. LastClock + Tick /\ now \in 0 .. LastClock
    /\ loop \in {"top", "xlen", "call", "sleep", "done"}
    /\ due \in 0 .. total_due /\ offered \in 0 .. total_due
    /\ \A s \in Seconds : OfferedIn(s) \in Nat /\ AcceptedIn(s) \in 0 .. OfferedIn(s)
    /\ SumFunction([s \in Seconds |-> OfferedIn(s)]) = offered

PacingInit ==
    /\ depthLimited \in BOOLEAN
    /\ clock = 0 /\ loop = "top" /\ since = 0 /\ now = 0 /\ due = 0 /\ offered = 0
    /\ perSecond = [s \in Seconds |-> [offered |-> 0, accepted |-> 0]]

\* Time passes while the loop awaits: a bounded time in a call, and until a sleep is over.
Pass ==
    /\ loop \in {"call", "sleep"} \union (IF depthLimited THEN {"xlen"} ELSE {})
    /\ clock < since + MaxAwait /\ clock < LastClock
    /\ clock' = clock + 1
    /\ UNCHANGED <<depthLimited, loop, since, now, due, offered, perSecond>>

Sleep(until) == loop' = "sleep" /\ since' = until

\* The next multiple of the tick after the start.
NextTick == clock + (Tick - (clock % Tick))

\* while (now := perf_counter() - t0) < duration; then the XLEN, if depth is limited.
Turn ==
    /\ loop = "top"
    /\ now' = clock
    /\ loop' = IF clock < Duration THEN "xlen" ELSE "done"
    /\ since' = clock
    /\ UNCHANGED <<depthLimited, clock, due, offered, perSecond>>

TooDeep ==
    /\ loop = "xlen" /\ depthLimited
    /\ Sleep(clock + Tick)
    /\ UNCHANGED <<depthLimited, clock, now, due, offered, perSecond>>

\* Everything that should have been offered by `now` and was not.
JobsDue == Min({(Rate * now) \div Second, total_due}) - offered

NotDue ==
    /\ loop = "xlen" /\ JobsDue < 1
    /\ Sleep(NextTick)
    /\ UNCHANGED <<depthLimited, clock, now, due, offered, perSecond>>

StartCall ==
    /\ loop = "xlen" /\ JobsDue >= 1
    /\ due' = JobsDue /\ loop' = "call" /\ since' = clock
    /\ UNCHANGED <<depthLimited, clock, now, offered, perSecond>>

Size == Min({due, Batch})

\* Mutant: only accepted jobs count as offered.
CountAccepted(bucket, accepted) ==
    [offered |-> bucket.offered + accepted, accepted |-> bucket.accepted + accepted]

Count(bucket, accepted) ==
    [offered |-> bucket.offered + Size, accepted |-> bucket.accepted + accepted]

\* Mutant: it waits for the tick after every call.
AlwaysWait == Sleep(NextTick)

\* Caught up, the producer waits for the tick; otherwise it goes on at once.
AfterCall == IF Size = due THEN Sleep(NextTick) ELSE loop' = "top" /\ since' = clock

\* enqueue_many returned or raised QueueFull: some of the batch was accepted.
CallReturns(accepted) ==
    /\ loop = "call"
    /\ offered' = offered + Size
    /\ perSecond' = [perSecond EXCEPT ![now \div Second] = Count(@, accepted)]
    /\ AfterCall
    /\ UNCHANGED <<depthLimited, clock, now, due>>

Wake ==
    /\ loop = "sleep" /\ clock >= since
    /\ loop' = "top"
    /\ UNCHANGED <<depthLimited, clock, since, now, due, offered, perSecond>>

Await == TooDeep \/ NotDue \/ StartCall \/ Wake \/ \E a \in 0 .. Batch : a <= Size /\ CallReturns(a)
PacingNext == Pass \/ Turn \/ Await

\* A reply comes within MaxAwait and a sleep ends: both the loop and the clock go on.
PacingFairness == WF_pacingVars(Turn) /\ WF_pacingVars(Await) /\ WF_pacingVars(Pass)

PacingSpec == PacingInit /\ [][PacingNext]_pacingVars /\ PacingFairness

-----------------------------------------------------------------------------
(* Properties *)

\* The longest from one reading of the clock to the end of the call of the next: a call,
\* the sleep to the grid, its overshoot and a call (no XLEN without a depth limit).
Turnaround == Tick + 3 * MaxAwait

\* The producer is never ahead of its rate, at any instant and in total.  "A fixed grid, so
\* sleeps that overshoot don't accumulate into a lower rate": while calls can carry the rate
\* and the depth is not limited, what is missing is never more than one turnaround's worth of
\* jobs (and the fraction of a job), however long the run.
KeepsRate ==
    /\ offered * Second <= Rate * clock /\ offered <= total_due
    /\ ~depthLimited /\ clock <= Duration => Rate * clock < (offered + 1) * Second + Rate * Turnaround

ProducerOver == loop = "done"
====
