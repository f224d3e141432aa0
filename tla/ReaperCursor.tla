---------------------------- MODULE ReaperCursor ----------------------------
(***************************************************************************)
(* How one worker's reaper gets through the pending list: the cursor that  *)
(* XAUTOCLAIM moves, the suspects that reclaim.lua puts back, and the      *)
(* fetch loop in which reaper passes alternate with reads of fresh jobs.   *)
(* JobQueue lets a pass claim any window of expired entries; here the      *)
(* window is the one the cursor gives, and the question is whether some    *)
(* expired entry is passed over for ever.                                  *)
(***************************************************************************)
EXTENDS Integers, FiniteSetsExt

CONSTANTS
    N,              \* pending entries: 1 .. N, in the order of their ids
    Suspects,       \* those whose delivery count makes them suspects
    LongRunSets,    \* the sets of entries whose run need not end
    Slots,          \* concurrency
    ScanFactor,     \* XAUTOCLAIM looks at this many entries per entry it may claim
    MaxFaults       \* bound: passes that fail

Entry == 1 .. N

ASSUME CursorAssumption ==
    /\ N \in Nat /\ Slots \in Nat \ {0} /\ ScanFactor \in Nat \ {0} /\ MaxFaults \in Nat
    /\ Suspects \subseteq Entry /\ LongRunSets \subseteq SUBSET Entry

VARIABLES
    longRuns,   \* the entries whose run need not end
    lease,      \* of each entry: "live" or "expired" in another's hands, "mine" (run here),
                \* "lost" (claimed here, but the reply was lost), "gone" (acknowledged)
    cursor,     \* Reaper._cursor; 0 is "0-0"
    due,        \* loop.time() >= _next_reap
    turn,         \* the fetch loop: at its "top", or about to "fetch"
    fresh,      \* tasks of freshly fetched jobs
    faults

cursorVars == <<longRuns, lease, cursor, due, turn, fresh, faults>>

Mine == {e \in Entry : lease[e] = "mine"}
Free == Slots - fresh - Cardinality(Mine)

\* The types; a worker never takes more than it has slots for.
CursorTypeOK ==
    /\ longRuns \in LongRunSets
    /\ lease \in [Entry -> {"live", "expired", "mine", "lost", "gone"}]
    /\ cursor \in 0 .. N /\ due \in BOOLEAN /\ turn \in {"top", "fetch"}
    /\ fresh \in 0 .. Slots /\ faults \in 0 .. MaxFaults
    /\ Free >= 0

CursorInit ==
    /\ longRuns \in LongRunSets
    /\ lease \in [Entry -> {"live", "expired"}]
    /\ cursor = 0 /\ due = TRUE /\ turn = "top" /\ fresh = 0 /\ faults = 0

-----------------------------------------------------------------------------
(* One pass *)

\* The pending entries from the cursor on.
Ahead == {e \in Entry : lease[e] # "gone" /\ e >= cursor}
AheadOf(e) == {o \in Ahead : o < e}
Expired(S) == {e \in S : lease[e] = "expired"}

\* XAUTOCLAIM goes on, in the order of the ids, until it has claimed one entry per free
\* slot, has looked at ScanFactor times as many, or is at the end.
Scanned ==
    {e \in Ahead : /\ Cardinality(AheadOf(e)) < ScanFactor * Free
                   /\ Cardinality(Expired(AheadOf(e))) < Free}

Claimed == Expired(Scanned)

\* Mutant: every pass starts over.
StartOver == 0

\* The next entry to look at, or "0-0" at the end.
NextCursor == IF Scanned = Ahead THEN 0 ELSE Min(Ahead \ Scanned)

\* The suspects there is no slot for are put back.
Kept ==
    {e \in Claimed : e \in Suspects =>
        Mine \cap Suspects = {} /\ \A o \in Claimed \cap Suspects : e <= o}

Take(S, as) == lease' = [e \in Entry |-> IF e \in S THEN as ELSE lease[e]]

\* More to scan: again at the next turn of the loop, without waiting.  No slot left: no fetch.
Reap ==
    /\ turn = "top" /\ Free > 0 /\ due
    /\ Take(Kept, "mine")
    /\ cursor' = NextCursor /\ due' = (NextCursor # 0)
    /\ turn' = IF Cardinality(Kept) = Free THEN "top" ELSE "fetch"
    /\ UNCHANGED <<longRuns, fresh, faults>>

\* The call fails, before or after the script ran; the cursor stays.
ReapFails ==
    /\ turn = "top" /\ Free > 0 /\ due
    /\ faults < MaxFaults /\ faults' = faults + 1
    /\ Take(Kept, "lost") \/ UNCHANGED lease
    /\ due' = FALSE /\ turn' = "fetch"
    /\ UNCHANGED <<longRuns, cursor, fresh>>

SkipReap ==
    /\ turn = "top" /\ Free > 0 /\ ~due
    /\ turn' = "fetch"
    /\ UNCHANGED <<longRuns, lease, cursor, due, fresh, faults>>

\* k fresh jobs come back: any number up to the free slots (the code's count, taken before
\* the pass, is no more).
Fetch(k) ==
    /\ turn = "fetch" /\ k <= Free
    /\ fresh' = fresh + k /\ turn' = "top"
    /\ UNCHANGED <<longRuns, lease, cursor, due, faults>>

-----------------------------------------------------------------------------
(* Time, and the jobs *)

IntervalElapses ==
    /\ ~due /\ due' = TRUE
    /\ UNCHANGED <<longRuns, lease, cursor, turn, fresh, faults>>

FreshEnds ==
    /\ fresh > 0 /\ fresh' = fresh - 1
    /\ UNCHANGED <<longRuns, lease, cursor, due, turn, faults>>

TaskEnds(e) ==
    /\ lease[e] = "mine" /\ Take({e}, "gone")
    /\ UNCHANGED <<longRuns, cursor, due, turn, fresh, faults>>

LeaseExpires(e) ==
    /\ lease[e] \in {"live", "lost"} /\ Take({e}, "expired")
    /\ UNCHANGED <<longRuns, cursor, due, turn, fresh, faults>>

Loop == Reap \/ SkipReap \/ \E k \in 0 .. Slots : Fetch(k)

CursorNext ==
    \/ Loop \/ ReapFails \/ IntervalElapses \/ FreshEnds
    \/ \E e \in Entry : TaskEnds(e) \/ LeaseExpires(e)

\* The loop goes on, time passes, fresh jobs end; so do reclaimed jobs, long runs excepted.
CursorFairness ==
    /\ WF_cursorVars(Loop) /\ WF_cursorVars(IntervalElapses) /\ WF_cursorVars(FreshEnds)
    /\ WF_cursorVars(\E e \in Entry \ longRuns : TaskEnds(e))
    /\ WF_cursorVars(\E e \in Entry : lease[e] = "lost" /\ LeaseExpires(e))

CursorSpec == CursorInit /\ [][CursorNext]_cursorVars /\ CursorFairness

-----------------------------------------------------------------------------
(* Properties *)

\* Where runs end, every expired entry was taken up, whatever the load of fresh jobs, the lost
\* replies and the order in which leases run out around the cursor.
ExpiredTaken == longRuns = {} => \A e \in Entry : lease[e] # "expired"

\* Suspects that are put back, because one runs and does not end, never keep the entries
\* behind them from being taken: the cursor moves past them.
SuspectsDoNotBlock ==
    longRuns \subseteq Suspects => <>[](\A e \in Entry \ Suspects : lease[e] # "expired")
====
