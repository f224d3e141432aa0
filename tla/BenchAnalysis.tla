--------------------------- MODULE BenchAnalysis ---------------------------
(***************************************************************************)
(* The benchmark's arithmetic (bench/analysis.py), as it is used: each     *)
(* producer counts the latencies of its calls into a histogram of buckets, *)
(* the histograms are merged and percentiles read from the result; a CPU   *)
(* counter is sampled at uneven times, and the CPU used in a window is     *)
(* read from the samples.  Latencies, times and CPU are whole numbers of a *)
(* small unit; what floating point makes of them is modelled where it      *)
(* matters, in the rank of a percentile.                                   *)
(***************************************************************************)
EXTENDS Integers, SequencesExt

CONSTANTS
    Producers,
    Earlier,        \* what the calls of one producer may have been so far, by latency
    Latencies,      \* possible latencies of a call
    Bucket,         \* the width of a bucket
    Steps,          \* how many equal calls one step of the model makes
    MaxCalls,       \* bound: further calls of all producers
    RoundsUp,       \* totals of which 99.9 % comes out a little above the whole number it is
    Cores,          \* threads that can use CPU at once
    MaxTime,        \* bound: the time of the last CPU sample
    MaxSamples      \* bound: the number of samples

ASSUME AnalysisAssumption ==
    /\ IsFiniteSet(Producers) /\ Producers # {}
    /\ Latencies \subseteq Nat \ {0} /\ IsFiniteSet(Latencies)
    /\ Bucket \in Nat \ {0} /\ Steps \subseteq Nat \ {0}
    /\ Earlier \subseteq [Latencies -> Nat]
    /\ \A n \in RoundsUp : n \in Nat /\ n % 1000 = 0
    /\ {MaxCalls, Cores, MaxTime, MaxSamples} \subseteq Nat

PERCENTILES == {500, 950, 990, 999}     \* in tenths of a percent

VARIABLES
    calls,      \* of each producer: how many calls had each latency
    further,    \* how many of them are not among the earlier ones
    samples     \* <<time, cumulative CPU>> pairs

analysisVars == <<calls, further, samples>>

-----------------------------------------------------------------------------
(* Histograms *)

CeilDiv(a, b) == (a + b - 1) \div b

\* A bucket is named by its upper edge.
Edge(v) == CeilDiv(v, Bucket) * Bucket

\* Counts are in a record of every key, absent ones 0.
histogram(counts) ==
    [e \in {Edge(v) : v \in Latencies} |->
        SumFunctionOnSet(counts, {v \in Latencies : Edge(v) = e})]

merge(hists) ==
    [e \in UNION {DOMAIN hists[p] : p \in Producers} |->
        SumFunction([p \in Producers |-> hists[p][e]])]

\* Mutant: the rank after, where the product is whole.
NextRank(q, total) == (q * total) \div 1000 + 1

\* math.ceil(q / 100 * total).  The double 99.9 / 100 is above 0.999: where the product
\* should be a whole number it may be a little more, and rounds up to the next.  (So it does
\* for every total below 33000, and for most above.)
Rank(q, total) == CeilDiv(q * total, 1000) + (IF q = 999 /\ total \in RoundsUp THEN 1 ELSE 0)

\* The values, in order, by which the samples seen reach the rank: the first is the answer.
FromRank(hist, q) ==
    {e \in DOMAIN hist : SumFunctionOnSet(hist, {d \in DOMAIN hist : d <= e})
                            >= Rank(q, SumFunction(hist))}

percentile(hist, q) == Min(FromRank(hist, q))

Merged == merge([p \in Producers |-> histogram(calls[p])])

-----------------------------------------------------------------------------
(* CPU *)

\* A fraction <<a, b>> is a / b.
Minus(x, y) == <<x[1] * y[2] - y[1] * x[2], x[2] * y[2]>>

\* Between two samples the counter is taken to grow evenly.
value_at(s, t) ==
    LET between == {i \in 1 .. Len(s) - 1 : s[i][1] <= t /\ t <= s[i + 1][1]}
        i == Min(between)
        dt == s[i + 1][1] - s[i][1]
    IN  CASE t <= s[1][1] -> <<s[1][2], 1>>
          [] t > s[1][1] /\ between # {} ->
                IF dt = 0 THEN <<s[i][2], 1>>
                ELSE <<s[i][2] * dt + (s[i + 1][2] - s[i][2]) * (t - s[i][1]), dt>>
          [] OTHER -> <<s[Len(s)][2], 1>>

\* The samples reach from before the window to after it.
Covers(s, from, to) == Len(s) >= 2 /\ s[1][1] <= from /\ s[Len(s)][1] >= to

\* The CPU used in the window (busy_fraction before it is divided by the window's length).
Used(s, from, to) == Minus(value_at(s, to), value_at(s, from))

-----------------------------------------------------------------------------
NoCalls == [v \in Latencies |-> 0]

AnalysisInit ==
    /\ \E e \in Earlier : calls = [[p \in Producers |-> NoCalls] EXCEPT ![CHOOSE p \in Producers : TRUE] = e]
    /\ further = 0
    /\ samples = <<>>

\* k calls of a producer take v each.
Call(p, v, k) ==
    /\ further + k <= MaxCalls /\ further' = further + k
    /\ calls' = [calls EXCEPT ![p][v] = @ + k]
    /\ UNCHANGED samples

\* A sample dt later, with dv more CPU on the counter.
Sample(dt, dv) ==
    /\ Len(samples) < MaxSamples
    /\ LET last == IF samples = <<>> THEN <<0, 0>> ELSE Last(samples)
       IN  /\ last[1] + dt <= MaxTime
           /\ samples' = Append(samples, <<last[1] + dt, last[2] + dv>>)
    /\ UNCHANGED <<calls, further>>

Producing == \E p \in Producers, v \in Latencies, k \in Steps : Call(p, v, k)
Sampling == \E dt \in 0 .. MaxTime : \E dv \in 0 .. Cores * dt : Sample(dt, dv)

AnalysisNext == Producing \/ Sampling

AnalysisSpec == AnalysisInit /\ [][AnalysisNext]_analysisVars

-----------------------------------------------------------------------------
(* Properties *)

\* How many calls of all producers took at most v.
AtMost(v) ==
    SumFunction([p \in Producers |-> SumFunctionOnSet(calls[p], {w \in Latencies : w <= v})])

AllCalls == SumFunction([p \in Producers |-> SumFunction(calls[p])])

\* "The smallest value with at least q% of the samples at or below it".
NearestRank(q) == Min({v \in Latencies : 1000 * AtMost(v) >= q * AllCalls})

\* "The bucketing can never make latency look better than it was": a percentile read from
\* the merged histograms is no less than that of the calls themselves.  "It can be recomputed
\* exactly from the histograms": it is the bucket of the nearest rank, except for the p99.9
\* of a whole number of thousands of calls, which may be a bucket above.  It always is some
\* bucket: "unreachable: ranks are bounded by the total".
IsNearestRank ==
    AllCalls > 0 => \A q \in PERCENTILES :
        /\ FromRank(Merged, q) # {}
        /\ percentile(Merged, q) >= NearestRank(q)
        /\ q # 999 \/ AllCalls \notin RoundsUp => percentile(Merged, q) = Edge(NearestRank(q))

\* "Extrapolating would invent a number": a CPU figure is only given for a window the samples
\* cover, and then lies between what was surely used inside it and what may have been.
BusyIsMeasured ==
    \A from, to \in 0 .. MaxTime :
        from < to /\ Covers(samples, from, to) =>
            LET u == Used(samples, from, to)
                cpu(S) == {samples[i][2] : i \in S}
                before(t) == {i \in DOMAIN samples : samples[i][1] <= t}
                after(t) == {i \in DOMAIN samples : samples[i][1] >= t}
            IN  /\ before(from) # {} /\ after(to) # {}
                /\ u[1] <= (Min(cpu(after(to))) - Max(cpu(before(from)))) * u[2]
                /\ u[1] >= (Max(cpu(before(to))) - Min(cpu(after(from)))) * u[2]
                /\ u[1] >= 0 /\ u[1] <= Cores * (to - from) * u[2]

\* What the report says of latency and of CPU is what was measured.
FiguresTrue == IsNearestRank /\ BusyIsMeasured
====
