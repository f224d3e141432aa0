------------------------- MODULE ProcessPoolProofs -------------------------
(***************************************************************************)
(* Proofs about ProcessPool, for every number of attempts, every pool size *)
(* and timeout, every set of stuck children and any number of deaths.      *)
(***************************************************************************)
EXTENDS ProcessPool, TLAPS, FiniteSetTheorems

-----------------------------------------------------------------------------
(* The inductive invariant *)

Used == {p \in Pool : warm[p] # "none"}
TimedOut == {r \in Run : phase[r] = "timeout"}

\* Pools are made when there is none and dropped when they were reset or broken.  So at
\* most one pool is alive, and one more can be made: each reset took a timeout, each
\* break a death.
PoolsCounted ==
    /\ current # NoPool => current \in Used
    /\ \A p \in Pool : procs[p] # "none" => p \in Used
    /\ Used \subseteq {current} \union reset \union died
    /\ Cardinality(reset) <= Cardinality(TimedOut)
    /\ Cardinality(died) <= MaxDeaths

\* What is dead was killed by a reset, by a death, or by the shutdown; a warm-up goes on
\* in the current pool only.
KilledForAReason ==
    /\ \A p \in Pool : procs[p] = "live" => p = current
    /\ \A p \in Pool : procs[p] = "dead" => p \in reset \union died \/ stopped
    /\ \A p \in Pool : warm[p] = "pending" => p = current
    /\ \A p \in Pool : warm[p] = "ok" => answered[p] = Child

\* Where the attempts are: those that hold a slot have a pool that is warming up or warm,
\* there are no more of them than slots, and a clock counts nothing but its handler.
AttemptsPlaced ==
    /\ \A r \in Run : phase[r] = "pool" => pool[r] \in Pool /\ warm[pool[r]] = "pending"
    /\ \A r \in Run : phase[r] = "running" => pool[r] \in Pool /\ warm[pool[r]] = "ok"
    /\ \A r \in Run : phase[r] = "timeout" => work[r] = Timeout
    /\ \A r \in Run : phase[r] = "broken" =>
          pool[r] \in Pool /\ (pool[r] \in died \/ warm[pool[r]] = "failed")
    /\ \A r \in Run : clock[r] = work[r]
    /\ Cardinality(SlotHolders) <= PoolSize

\* The shutdown comes last.
StoppedIsOver == stopped => stopping /\ LiveRuns = {} /\ \A p \in Pool : procs[p] # "live"

PoolInv == PoolTypeOK /\ PoolsCounted /\ KilledForAReason /\ AttemptsPlaced /\ StoppedIsOver

-----------------------------------------------------------------------------
(* Counting *)

\* The sets of attempts and of pools are finite; there is a pool for each reset, one for
\* each death, and one more.
LEMMA FinitelyMany ==
    /\ \A S : S \subseteq Run => IsFiniteSet(S) /\ Cardinality(S) \in Nat
                                 /\ Cardinality(S) <= Cardinality(Run)
    /\ \A S : S \subseteq Pool => IsFiniteSet(S) /\ Cardinality(S) \in Nat
    /\ Cardinality(Run) \in Nat /\ MaxDeaths \in Nat
    /\ Cardinality(Pool) = 1 + Cardinality(Run) + MaxDeaths
<1>1. IsFiniteSet(Run) /\ Cardinality(Run) \in Nat /\ MaxDeaths \in Nat
    BY PoolAssumption, FS_CardinalityType
<1> DEFINE n == 1 + Cardinality(Run) + MaxDeaths
<1>2. n \in Nat \ {0}
    BY <1>1
<1>3. Pool = 1 .. n
    BY DEF Pool
<1> HIDE DEF n
<1>4. IsFiniteSet(Pool) /\ Cardinality(Pool) = n
    BY <1>2, <1>3, FS_Interval
<1>5. ASSUME NEW S, S \subseteq Run
      PROVE  IsFiniteSet(S) /\ Cardinality(S) \in Nat /\ Cardinality(S) <= Cardinality(Run)
    BY <1>1, <1>5, FS_Subset, FS_CardinalityType
<1>6. ASSUME NEW S, S \subseteq Pool
      PROVE  IsFiniteSet(S) /\ Cardinality(S) \in Nat
    BY <1>4, <1>6, FS_Subset, FS_CardinalityType
<1> QED BY <1>1, <1>4, <1>5, <1>6 DEF n

\* A set of natural numbers that is not empty has a least element.
LEMMA LeastNatural ==
    ASSUME NEW T, T \subseteq Nat, T # {}
    PROVE  \E n \in T : \A m \in T : n <= m
<1> DEFINE R == OpToRel(<, Nat)
<1>1. IsWellFoundedOn(R, Nat)
    BY NatLessThanWellFounded
<1>2. \A x, y \in Nat : x < y => <<x, y>> \in R
    BY DEF OpToRel
<1> HIDE DEF R
<1>3. PICK x \in T : \A y \in T : ~ (<<y, x>> \in R)
    BY <1>1, WFMin
<1>4. ASSUME NEW y \in T PROVE x <= y
  <2>1. x \in Nat /\ y \in Nat
      OBVIOUS
  <2>2. ~ (<<y, x>> \in R)
      BY <1>3
  <2>3. ~ (y < x)
      BY <1>2, <2>1, <2>2
  <2> QED BY <2>1, <2>3
<1> QED BY <1>4

\* A pool can be made whenever there is none: the bound on the pools hides nothing.
LEMMA FreshExists ==
    ASSUME PoolTypeOK, PoolsCounted, current = NoPool
    PROVE  Fresh \in Pool /\ warm[Fresh] = "none"
<1> DEFINE unused == {p \in Pool : warm[p] = "none"}
<1>1. Used \subseteq reset \union died /\ reset \subseteq Pool /\ died \subseteq Pool
    BY DEF PoolTypeOK, PoolsCounted, NoPool, Used, Pool
<1>2. /\ IsFiniteSet(reset) /\ Cardinality(reset) \in Nat
      /\ IsFiniteSet(died) /\ Cardinality(died) \in Nat
      /\ IsFiniteSet(Used) /\ Cardinality(Used) \in Nat
      /\ Cardinality(TimedOut) \in Nat /\ Cardinality(TimedOut) <= Cardinality(Run)
    BY <1>1, FinitelyMany DEF Used, TimedOut
<1>3. /\ IsFiniteSet(reset \union died) /\ IsFiniteSet(reset \cap died)
      /\ Cardinality(reset \union died)
            = Cardinality(reset) + Cardinality(died) - Cardinality(reset \cap died)
    BY <1>2, FS_Union, FS_Intersection
<1>4. Cardinality(reset \union died) \in Nat /\ Cardinality(reset \cap died) \in Nat
    BY <1>3, FS_CardinalityType
<1>5. Cardinality(Used) <= Cardinality(reset \union died)
    BY <1>1, <1>3, FS_Subset
<1>6. Cardinality(Used) <= Cardinality(Run) + MaxDeaths
    BY <1>2, <1>3, <1>4, <1>5, FinitelyMany DEF PoolsCounted
<1>7. Used # Pool
    BY <1>2, <1>6, FinitelyMany
<1>8. unused # {} /\ unused \subseteq Nat
    BY <1>7 DEF Used, Pool
<1>9. PICK p \in unused : \A q \in unused : p <= q
    BY <1>8, LeastNatural
<1>10. \E x \in Pool : warm[x] = "none" /\ \A q \in Pool : warm[q] = "none" => x <= q
    BY <1>9
<1> QED BY <1>10 DEF Fresh

\* Slots and resets as attempts go on: slots are only given up, timeouts only added.
LEMMA SlotsShrink ==
    ASSUME PoolInv, SlotHolders' \subseteq SlotHolders
    PROVE  Cardinality(SlotHolders') <= PoolSize
<1>1. SlotHolders \subseteq Run /\ SlotHolders' \subseteq Run
    BY DEF SlotHolders
<1>2. Cardinality(SlotHolders') <= Cardinality(SlotHolders)
    BY <1>1, FinitelyMany, FS_Subset
<1>3. Cardinality(SlotHolders) \in Nat /\ Cardinality(SlotHolders') \in Nat
    BY <1>1, FinitelyMany
<1> QED BY <1>2, <1>3, PoolAssumption DEF PoolInv, AttemptsPlaced

-----------------------------------------------------------------------------
(* PoolInv is inductive *)

\* A worker that has been given nothing.
LEMMA InitPoolInv == PoolInit => PoolInv
<1> SUFFICES ASSUME PoolInit PROVE PoolInv
    OBVIOUS
<1>1. PoolTypeOK
  <2>1. stopping \in BOOLEAN /\ abandoned \in BOOLEAN /\ stopped \in BOOLEAN
      BY DEF PoolInit
  <2>2. 0 \in 0 .. Timeout
      BY PoolAssumption
  <2> QED BY <2>1, <2>2 DEF PoolInit, PoolTypeOK, NoPool
<1>2. Used = {} /\ reset = {} /\ died = {} /\ TimedOut = {} /\ SlotHolders = {}
    BY DEF PoolInit, Used, TimedOut, SlotHolders
<1>3. PoolsCounted
    BY <1>2, FS_EmptySet, PoolAssumption DEF PoolsCounted, PoolInit
<1>4. AttemptsPlaced
    BY <1>2, FS_EmptySet, PoolAssumption DEF AttemptsPlaced, PoolInit
<1> QED BY <1>1, <1>3, <1>4 DEF PoolInv, PoolInit, KilledForAReason, StoppedIsOver

\* _run_in_process up to its start_clock: an attempt that holds a slot, or has just taken
\* a free one, gets the current pool, or a fresh one if there is none.
LEMMA AwaitPoolInv ==
    ASSUME PoolInv, NEW r \in Run, phase[r] \in {"slot", "running"}, AwaitPool(r),
           phase[r] = "slot" => Cardinality(SlotHolders) < PoolSize
    PROVE  PoolInv'
<1> DEFINE p == IF current = NoPool THEN Fresh ELSE current
<1> USE DEF PoolInv
<1>1. p \in Pool /\ p # NoPool
    BY FreshExists DEF PoolTypeOK, Pool, NoPool
<1>2. current = NoPool => warm[p] = "none"
    BY FreshExists
<1>3. current # NoPool => warm[p] \in {"pending", "ok", "failed"}
    BY DEF PoolTypeOK, PoolsCounted, Used
<1>4. /\ current' = p
      /\ warm' = [warm EXCEPT ![p] = IF current = NoPool THEN "pending" ELSE @]
      /\ procs' = [procs EXCEPT ![p] = IF current = NoPool THEN "live" ELSE @]
      /\ pool' = [pool EXCEPT ![r] = p]
      /\ phase' = [phase EXCEPT ![r] = CASE warm'[p] = "pending" -> "pool"
                                         [] warm'[p] = "ok" -> "running"
                                         [] warm'[p] = "failed" -> "broken"]
      /\ clock' = [clock EXCEPT ![r] = 0]
      /\ work' = [work EXCEPT ![r] = 0]
      /\ UNCHANGED <<up, answered, died, reset, stuck, stopping, abandoned, stopped>>
    BY DEF AwaitPool, workerVars
<1>5. current # NoPool => p = current
    OBVIOUS
<1> HIDE DEF p
<1>6. /\ warm'[p] = IF current = NoPool THEN "pending" ELSE warm[p]
      /\ procs'[p] = IF current = NoPool THEN "live" ELSE procs[p]
      /\ \A q \in Pool \ {p} : warm'[q] = warm[q] /\ procs'[q] = procs[q]
    BY <1>1, <1>4 DEF PoolTypeOK
<1>7. warm'[p] \in {"pending", "ok", "failed"}
    BY <1>2, <1>3, <1>6
<1>8. /\ phase'[r] = CASE warm'[p] = "pending" -> "pool"
                        [] warm'[p] = "ok" -> "running"
                        [] warm'[p] = "failed" -> "broken"
      /\ pool'[r] = p /\ clock'[r] = 0 /\ work'[r] = 0
      /\ \A q \in Run \ {r} : /\ phase'[q] = phase[q] /\ pool'[q] = pool[q]
                               /\ clock'[q] = clock[q] /\ work'[q] = work[q]
    BY <1>4 DEF PoolTypeOK
<1>9. /\ warm'[p] = "pending" => phase'[r] = "pool"
      /\ warm'[p] = "ok" => phase'[r] = "running"
      /\ warm'[p] = "failed" => phase'[r] = "broken"
    BY <1>8
<1>10. PoolTypeOK'
  <2>1. warm' \in [Pool -> {"none", "pending", "ok", "failed"}]
        /\ procs' \in [Pool -> {"none", "live", "dead"}]
      BY <1>4, <1>1 DEF PoolTypeOK
  <2>2. phase' \in [Run -> {"idle"} \union Live \union Ended]
    <3>1. phase'[r] \in {"pool", "running", "broken"}
        BY <1>7, <1>9
    <3>2. phase' = [phase EXCEPT ![r] = phase'[r]]
        BY <1>4, <1>8
    <3> QED BY <3>1, <3>2 DEF PoolTypeOK, Live, Ended
  <2>3. pool' \in [Run -> Pool \union {NoPool}]
      BY <1>1, <1>4 DEF PoolTypeOK
  <2>4. clock' \in [Run -> 0 .. Timeout] /\ work' \in [Run -> 0 .. Timeout]
      BY <1>4, PoolAssumption DEF PoolTypeOK
  <2> QED BY <1>1, <1>4, <2>1, <2>2, <2>3, <2>4 DEF PoolTypeOK
<1>11. PoolsCounted'
  <2>1. Used' = Used \union {p}
      BY <1>1, <1>6, <1>7 DEF Used
  <2>2. TimedOut' = TimedOut
      BY <1>7, <1>8, <1>9 DEF TimedOut
  <2>3. current # NoPool => p \in Used
      BY <1>5 DEF PoolsCounted
  <2>4. \A q \in Pool : procs'[q] # "none" => q \in Used'
      BY <1>1, <1>6, <2>1 DEF PoolsCounted
  <2>5. Used' \subseteq {current'} \union reset' \union died'
      BY <1>1, <1>4, <1>5, <2>1 DEF PoolsCounted, Used, NoPool, Pool
  <2> QED BY <1>4, <2>1, <2>2, <2>4, <2>5 DEF PoolsCounted
<1>12. KilledForAReason'
    BY <1>1, <1>2, <1>4, <1>5, <1>6 DEF KilledForAReason, NoPool, Pool
<1>13. AttemptsPlaced'
  <2>1. \A q \in Run \ {r} : phase'[q] = "pool" => pool'[q] \in Pool /\ warm'[pool'[q]] = "pending"
      BY <1>2, <1>6, <1>8 DEF AttemptsPlaced
  <2>2. \A q \in Run \ {r} : phase'[q] = "running" => pool'[q] \in Pool /\ warm'[pool'[q]] = "ok"
      BY <1>2, <1>6, <1>8 DEF AttemptsPlaced
  <2>3. \A q \in Run \ {r} : phase'[q] = "broken" =>
           pool'[q] \in Pool /\ (pool'[q] \in died \/ warm'[pool'[q]] = "failed")
      BY <1>2, <1>6, <1>8 DEF AttemptsPlaced
  <2>4. \A q \in Run \ {r} : phase'[q] = "timeout" => work'[q] = Timeout
      BY <1>8 DEF AttemptsPlaced
  <2>5. \A q \in Run : clock'[q] = work'[q]
      BY <1>8 DEF AttemptsPlaced
  <2>6. Cardinality(SlotHolders') <= PoolSize
    <3>1. CASE phase[r] = "running"
      <4>1. SlotHolders' \subseteq SlotHolders
          BY <3>1, <1>8 DEF SlotHolders
      <4> QED BY <4>1, SlotsShrink
    <3>2. CASE phase[r] = "slot"
      <4>1. SlotHolders' \subseteq SlotHolders \union {r}
          BY <1>8 DEF SlotHolders
      <4>2. SlotHolders \union {r} \subseteq Run /\ SlotHolders \subseteq Run
          BY DEF SlotHolders
      <4>3. Cardinality(SlotHolders \union {r}) <= Cardinality(SlotHolders) + 1
          BY <4>2, FinitelyMany, FS_AddElement
      <4>4. Cardinality(SlotHolders') <= Cardinality(SlotHolders \union {r})
          BY <4>1, <4>2, FinitelyMany, FS_Subset
      <4>5. /\ Cardinality(SlotHolders) \in Nat /\ Cardinality(SlotHolders \union {r}) \in Nat
            /\ Cardinality(SlotHolders') \in Nat
          BY <4>1, <4>2, FinitelyMany
      <4> QED BY <3>2, <4>3, <4>4, <4>5, PoolAssumption
    <3> QED BY <3>1, <3>2
  <2> QED BY <1>1, <1>4, <1>7, <1>8, <1>9, <2>1, <2>2, <2>3, <2>4, <2>5, <2>6 DEF AttemptsPlaced
<1>14. StoppedIsOver'
    BY <1>4 DEF StoppedIsOver, LiveRuns, Live
<1> QED BY <1>10, <1>11, <1>12, <1>13, <1>14

\* An attempt begins, or ends in its pool without harm to it.
LEMMA PhaseInv ==
    ASSUME PoolInv, NEW r \in Run, Begin(r) \/ HandlerEnds(r)
    PROVE  PoolInv'
<1> USE DEF PoolInv
<1>1. PICK x \in {"slot", "done"} : phase' = [phase EXCEPT ![r] = x]
    BY DEF Begin, HandlerEnds
<1>2. UNCHANGED <<current, reset, warm, up, answered, procs, died, pool, clock, work,
                  stuck, stopping, abandoned, stopped>>
    BY DEF Begin, HandlerEnds, poolState, workerVars
<1>3. phase[r] \in {"idle", "running"} /\ (x = "slot" => ~stopping)
    BY <1>1 DEF Begin, HandlerEnds, PoolTypeOK
<1>4. PoolTypeOK'
    BY <1>1, <1>2 DEF PoolTypeOK, Live, Ended
<1>5. TimedOut' = TimedOut /\ Used' = Used
    BY <1>1, <1>2, <1>3 DEF TimedOut, Used, PoolTypeOK
<1>6. SlotHolders' \subseteq SlotHolders
    BY <1>1 DEF SlotHolders, PoolTypeOK
<1>7. PoolsCounted' /\ KilledForAReason'
    BY <1>2, <1>5 DEF PoolsCounted, KilledForAReason
<1>8. AttemptsPlaced'
    BY <1>1, <1>2, <1>6, SlotsShrink DEF AttemptsPlaced, PoolTypeOK
<1>9. StoppedIsOver'
    BY <1>1, <1>2, <1>3 DEF StoppedIsOver, LiveRuns, Live, PoolTypeOK
<1> QED BY <1>4, <1>7, <1>8, <1>9

\* A child gets through its initializer.
LEMMA ChildStartsInv ==
    ASSUME PoolInv, NEW p \in Pool, NEW c \in Child, ChildStarts(p, c)
    PROVE  PoolInv'
<1> USE DEF PoolInv, ChildStarts, attemptVars, workerVars
<1>1. PoolTypeOK'
    BY DEF PoolTypeOK
<1>2. TimedOut' = TimedOut /\ Used' = Used /\ SlotHolders' = SlotHolders /\ LiveRuns' = LiveRuns
    BY DEF TimedOut, Used, SlotHolders, LiveRuns
<1> QED BY <1>1, <1>2 DEF PoolsCounted, KilledForAReason, AttemptsPlaced, StoppedIsOver

\* The warm-up of a pool is over: it ends once, and takes the attempts that wait along.
LEMMA WarmUpOverInv ==
    ASSUME PoolInv, NEW p \in Pool, warm[p] = "pending", procs[p] = "live",
           NEW outcome, NEW next, WarmUpOver(p, outcome, next),
           \/ /\ outcome = "ok" /\ next = "running" /\ answered'[p] = Child
              /\ answered' \in [Pool -> SUBSET Child] /\ up[p] = Child
              /\ \A q \in Pool \ {p} : answered'[q] = answered[q]
              /\ UNCHANGED <<procs, died>>
           \/ /\ outcome = "failed" /\ next = "broken" /\ UNCHANGED answered
              /\ \/ UNCHANGED <<procs, died>>
                 \/ /\ procs' = [procs EXCEPT ![p] = "dead"]
                    /\ died' = died \union {p} /\ Cardinality(died) < MaxDeaths
    PROVE  PoolInv'
<1> USE DEF PoolInv
<1>1. /\ warm' = [warm EXCEPT ![p] = outcome]
      /\ phase' = [r \in Run |-> IF phase[r] = "pool" /\ pool[r] = p THEN next ELSE phase[r]]
      /\ UNCHANGED <<current, reset, up, pool, clock, work, stuck, stopping, abandoned, stopped>>
    BY DEF WarmUpOver, workerVars
<1>2. /\ warm'[p] = outcome /\ outcome \in {"ok", "failed"}
      /\ \A q \in Pool \ {p} : warm'[q] = warm[q]
    BY <1>1 DEF PoolTypeOK
<1>3. \A q \in Pool : procs'[q] \in {procs[q], "dead"} /\ (procs'[q] # procs[q] => q = p /\ p \in died')
    BY DEF PoolTypeOK
<1>4. PoolTypeOK'
  <2>1. phase' \in [Run -> {"idle"} \union Live \union Ended]
      BY <1>1 DEF PoolTypeOK, Live, Ended
  <2>2. /\ warm' \in [Pool -> {"none", "pending", "ok", "failed"}]
        /\ procs' \in [Pool -> {"none", "live", "dead"}] /\ died' \subseteq Pool
      BY <1>1, <1>2 DEF PoolTypeOK
  <2>3. answered' \in [Pool -> SUBSET Child] /\ \A q \in Pool : answered'[q] \subseteq up[q]
      BY DEF PoolTypeOK
  <2> QED BY <1>1, <2>1, <2>2, <2>3 DEF PoolTypeOK
<1>5. Used' = Used
    BY <1>2 DEF Used
<1>6. TimedOut' = TimedOut /\ SlotHolders' \subseteq SlotHolders
    BY <1>1, <1>2 DEF TimedOut, SlotHolders
<1>7. Cardinality(died') <= MaxDeaths
  <2>1. CASE UNCHANGED died
      BY <2>1 DEF PoolsCounted
  <2>2. CASE died' = died \union {p} /\ Cardinality(died) < MaxDeaths
    <3>1. IsFiniteSet(died) /\ Cardinality(died) \in Nat
        BY FinitelyMany DEF PoolTypeOK
    <3>2. Cardinality(died \union {p}) \in {Cardinality(died), Cardinality(died) + 1}
        BY <3>1, FS_AddElement
    <3> QED BY <2>2, <3>1, <3>2, PoolAssumption
  <2> QED BY <2>1, <2>2
<1>8. died \subseteq died'
    OBVIOUS
<1>9. PoolsCounted'
    BY <1>1, <1>3, <1>5, <1>6, <1>7, <1>8 DEF PoolsCounted
<1>10. KilledForAReason'
    BY <1>1, <1>2, <1>3, <1>8 DEF KilledForAReason
<1>11. AttemptsPlaced'
  <2>1. Cardinality(SlotHolders') <= PoolSize
      BY <1>6, SlotsShrink
  <2>2. ASSUME NEW r \in Run
        PROVE  /\ phase'[r] = "pool" => pool[r] \in Pool /\ warm'[pool[r]] = "pending"
               /\ phase'[r] = "running" => pool[r] \in Pool /\ warm'[pool[r]] = "ok"
               /\ phase'[r] = "timeout" => work[r] = Timeout
               /\ phase'[r] = "broken" =>
                     pool[r] \in Pool /\ (pool[r] \in died' \/ warm'[pool[r]] = "failed")
      BY <1>1, <1>2, <1>8 DEF AttemptsPlaced
  <2> QED BY <1>1, <2>1, <2>2 DEF AttemptsPlaced
<1>12. StoppedIsOver'
    BY <1>1, <1>3 DEF StoppedIsOver
<1> QED BY <1>4, <1>9, <1>10, <1>11, <1>12

\* A warm-up goes on, succeeds once every child has answered, times out, or breaks.
LEMMA WarmUpInv ==
    ASSUME PoolInv, NEW p \in Pool, WarmUpRound(p) \/ WarmUpTimesOut(p) \/ WarmUpBreaks(p)
    PROVE  PoolInv'
<1> USE DEF PoolInv
<1>1. warm[p] = "pending" /\ procs[p] = "live"
    BY DEF WarmUpRound, WarmUpTimesOut, WarmUpBreaks
<1>2. CASE WarmUpRound(p)
  <2>1. PICK pids \in SUBSET up[p] \ {{}} :
          /\ answered' = [answered EXCEPT ![p] = @ \union pids]
          /\ IF answered'[p] = Child
             THEN WarmUpOver(p, "ok", "running")
             ELSE UNCHANGED <<warm, phase, current, reset, up, pool, clock, work, workerVars>>
      BY <1>2 DEF WarmUpRound
  <2>2. UNCHANGED <<procs, died>>
      BY <1>2 DEF WarmUpRound
  <2>3. /\ answered' \in [Pool -> SUBSET Child]
        /\ \A q \in Pool \ {p} : answered'[q] = answered[q]
        /\ \A q \in Pool : answered'[q] \subseteq up[q]
      BY <2>1 DEF PoolTypeOK
  <2>4. CASE answered'[p] = Child
    <3>1. up[p] = Child
        BY <2>3, <2>4 DEF PoolTypeOK
    <3>2. WarmUpOver(p, "ok", "running")
        BY <2>1, <2>4
    <3> QED BY <1>1, <2>2, <2>3, <2>4, <3>1, <3>2, WarmUpOverInv
  <2>5. CASE answered'[p] # Child
    <3>1. UNCHANGED <<warm, phase, current, reset, up, pool, clock, work, stuck, stopping, abandoned,
                      stopped>>
        BY <2>1, <2>5 DEF workerVars
    <3>2. PoolTypeOK'
        BY <2>2, <2>3, <3>1 DEF PoolTypeOK
    <3>3. TimedOut' = TimedOut /\ Used' = Used /\ SlotHolders' = SlotHolders /\ LiveRuns' = LiveRuns
        BY <3>1 DEF TimedOut, Used, SlotHolders, LiveRuns
    <3>4. \A q \in Pool : warm[q] = "ok" => answered'[q] = answered[q]
        BY <1>1, <2>3
    <3> QED BY <2>2, <3>1, <3>2, <3>3, <3>4 DEF PoolsCounted, KilledForAReason, AttemptsPlaced, StoppedIsOver
  <2> QED BY <2>4, <2>5
<1>3. CASE WarmUpTimesOut(p)
  <2>1. WarmUpOver(p, "failed", "broken") /\ UNCHANGED <<answered, procs, died>>
      BY <1>3 DEF WarmUpTimesOut
  <2> QED BY <1>1, <2>1, WarmUpOverInv
<1>4. CASE WarmUpBreaks(p)
  <2>1. /\ WarmUpOver(p, "failed", "broken") /\ UNCHANGED answered
        /\ procs' = [procs EXCEPT ![p] = "dead"]
        /\ died' = died \union {p} /\ Cardinality(died) < MaxDeaths
      BY <1>4 DEF WarmUpBreaks
  <2> QED BY <1>1, <2>1, WarmUpOverInv
<1> QED BY <1>2, <1>3, <1>4

\* A tick is counted by the clock and by the handler alike.
LEMMA TickInv ==
    ASSUME PoolInv, Tick
    PROVE  PoolInv'
<1> USE DEF PoolInv, Tick, poolState, workerVars
<1>1. /\ clock' = [r \in Run |-> IF phase[r] = "running" /\ clock[r] < Timeout
                                THEN clock[r] + 1 ELSE clock[r]]
      /\ work' = [r \in Run |-> IF phase[r] = "running" /\ work[r] < Timeout
                               THEN work[r] + 1 ELSE work[r]]
    OBVIOUS
<1>2. \A r \in Run : clock[r] \in 0 .. Timeout /\ work[r] \in 0 .. Timeout
    BY DEF PoolTypeOK
<1>3. \A r \in Run : clock'[r] \in 0 .. Timeout /\ work'[r] \in 0 .. Timeout
    BY <1>1, <1>2, PoolAssumption
<1>4. clock' \in [Run -> 0 .. Timeout] /\ work' \in [Run -> 0 .. Timeout]
    BY <1>3
<1>5. PoolTypeOK'
    BY <1>4 DEF PoolTypeOK
<1>6. \A r \in Run : clock'[r] = work'[r] /\ (phase[r] # "running" => work'[r] = work[r])
    BY <1>1 DEF AttemptsPlaced
<1>7. TimedOut' = TimedOut /\ Used' = Used /\ SlotHolders' = SlotHolders /\ LiveRuns' = LiveRuns
    BY DEF TimedOut, Used, SlotHolders, LiveRuns
<1> QED BY <1>5, <1>6, <1>7 DEF PoolsCounted, KilledForAReason, AttemptsPlaced, StoppedIsOver

\* A child dies by itself and its pool with it.
LEMMA ChildDiesInv ==
    ASSUME PoolInv, NEW p \in Pool, ChildDies(p)
    PROVE  PoolInv'
<1> USE DEF PoolInv, ChildDies, attemptVars, workerVars
<1>1. PoolTypeOK'
    BY DEF PoolTypeOK
<1>2. TimedOut' = TimedOut /\ Used' = Used /\ SlotHolders' = SlotHolders /\ LiveRuns' = LiveRuns
    BY DEF TimedOut, Used, SlotHolders, LiveRuns
<1>3. Cardinality(died') <= MaxDeaths
  <2>1. IsFiniteSet(died) /\ Cardinality(died) \in Nat
      BY FinitelyMany DEF PoolTypeOK
  <2>2. Cardinality(died \union {p}) \in {Cardinality(died), Cardinality(died) + 1}
      BY <2>1, FS_AddElement
  <2> QED BY <2>1, <2>2, PoolAssumption
<1>4. \A q \in Pool : procs'[q] = IF q = p THEN "dead" ELSE procs[q]
    BY DEF PoolTypeOK
<1>5. PoolsCounted'
    BY <1>2, <1>3, <1>4 DEF PoolsCounted
<1> QED BY <1>1, <1>2, <1>4, <1>5 DEF KilledForAReason, AttemptsPlaced, StoppedIsOver

\* A timeout resets its pool: one more attempt timed out, at most one more pool reset.
LEMMA TimesOutInv ==
    ASSUME PoolInv, NEW r \in Run, TimesOut(r)
    PROVE  PoolInv'
<1> DEFINE p == pool[r]
<1> USE DEF PoolInv
<1>1. /\ phase[r] = "running" /\ clock[r] = Timeout /\ phase' = [phase EXCEPT ![r] = "timeout"]
      /\ current' = (IF current = p THEN NoPool ELSE current)
      /\ reset' = reset \union {p} /\ procs' = [procs EXCEPT ![p] = "dead"]
      /\ UNCHANGED <<warm, up, answered, died, pool, clock, work, stuck, stopping, abandoned, stopped>>
    BY DEF TimesOut, ResetProcessPool, workerVars
<1>2. p \in Pool /\ warm[p] = "ok" /\ work[r] = Timeout
    BY <1>1 DEF AttemptsPlaced
<1> HIDE DEF p
<1>3. \A q \in Pool : procs'[q] = IF q = p THEN "dead" ELSE procs[q]
    BY <1>1, <1>2 DEF PoolTypeOK
<1>4. \A q \in Run : phase'[q] = IF q = r THEN "timeout" ELSE phase[q]
    BY <1>1 DEF PoolTypeOK
<1>5. PoolTypeOK'
    BY <1>1, <1>2 DEF PoolTypeOK, Ended
<1>6. Used' = Used /\ TimedOut' = TimedOut \union {r} /\ r \notin TimedOut
    BY <1>1, <1>4 DEF Used, TimedOut
<1>7. Cardinality(reset') <= Cardinality(TimedOut')
  <2>1. reset \subseteq Pool /\ TimedOut \subseteq Run
      BY DEF PoolTypeOK, TimedOut
  <2>2. /\ IsFiniteSet(reset) /\ Cardinality(reset) \in Nat
        /\ IsFiniteSet(TimedOut) /\ Cardinality(TimedOut) \in Nat
      BY <2>1, FinitelyMany
  <2>3. Cardinality(reset \union {p}) \in {Cardinality(reset), Cardinality(reset) + 1}
      BY <2>2, FS_AddElement
  <2>4. Cardinality(TimedOut \union {r}) = Cardinality(TimedOut) + 1
      BY <1>6, <2>2, FS_AddElement
  <2> QED BY <1>1, <1>6, <2>2, <2>3, <2>4 DEF PoolsCounted
<1>8. PoolsCounted'
    BY <1>1, <1>2, <1>3, <1>6, <1>7 DEF PoolsCounted, Used
<1>9. KilledForAReason'
    BY <1>1, <1>2, <1>3 DEF KilledForAReason
<1>10. SlotHolders' \subseteq SlotHolders
    BY <1>4 DEF SlotHolders
<1>11. AttemptsPlaced'
    BY <1>1, <1>2, <1>4, <1>10, SlotsShrink DEF AttemptsPlaced
<1>12. StoppedIsOver'
    BY <1>1, <1>3 DEF StoppedIsOver, LiveRuns, Live
<1> QED BY <1>5, <1>8, <1>9, <1>11, <1>12

\* A pool that broke without a reset had a child die: the attempt failed, and the pool is
\* replaced unless it is another one already.
LEMMA BreakInv ==
    ASSUME PoolInv, NEW r \in Run, Break(r)
    PROVE  PoolInv'
<1> DEFINE p == pool[r]
<1> USE DEF PoolInv
<1>1. /\ phase[r] = "running" /\ procs[p] = "dead" /\ p \notin reset
      /\ phase' = [phase EXCEPT ![r] = "broken"]
      /\ current' = (IF current = p THEN NoPool ELSE current)
      /\ UNCHANGED <<reset, warm, up, answered, procs, died, pool, clock, work, stuck, stopping,
                     abandoned, stopped>>
    BY DEF Break, poolState, workerVars
<1>2. p \in Pool /\ warm[p] = "ok"
    BY <1>1 DEF AttemptsPlaced
<1>3. p \in died /\ ~stopped
    BY <1>1, <1>2 DEF KilledForAReason, StoppedIsOver, LiveRuns, Live
<1>4. p = pool[r]
    OBVIOUS
<1> HIDE DEF p
<1>5. \A q \in Run : phase'[q] = IF q = r THEN "broken" ELSE phase[q]
    BY <1>1 DEF PoolTypeOK
<1>6. PoolTypeOK'
    BY <1>1 DEF PoolTypeOK, Ended
<1>7. Used' = Used /\ TimedOut' = TimedOut /\ SlotHolders' \subseteq SlotHolders
    BY <1>1, <1>5 DEF Used, TimedOut, SlotHolders
<1>8. PoolsCounted'
    BY <1>1, <1>3, <1>7 DEF PoolsCounted
<1>9. KilledForAReason'
    BY <1>1, <1>2 DEF KilledForAReason
<1>10. AttemptsPlaced'
    BY <1>1, <1>2, <1>3, <1>4, <1>5, <1>7, SlotsShrink DEF AttemptsPlaced
<1>11. StoppedIsOver'
    BY <1>1, <1>3 DEF StoppedIsOver
<1> QED BY <1>6, <1>8, <1>9, <1>10, <1>11

\* The stop: attempts in flight are abandoned, and the current pool is shut down last.
LEMMA StopInv ==
    ASSUME PoolInv, StopFetching \/ Abandon \/ ShutdownPools
    PROVE  PoolInv'
<1> USE DEF PoolInv
<1>1. CASE StopFetching
  <2> USE <1>1 DEF StopFetching, poolState, attemptVars
  <2>1. PoolTypeOK'
      BY DEF PoolTypeOK
  <2>2. TimedOut' = TimedOut /\ Used' = Used /\ SlotHolders' = SlotHolders /\ LiveRuns' = LiveRuns
      BY DEF TimedOut, Used, SlotHolders, LiveRuns
  <2> QED BY <2>1, <2>2 DEF PoolsCounted, KilledForAReason, AttemptsPlaced, StoppedIsOver
<1>2. CASE Abandon
  <2>1. /\ ~stopped /\ abandoned' = TRUE
        /\ phase' = [r \in Run |-> IF phase[r] \in Live THEN "abandoned" ELSE phase[r]]
        /\ UNCHANGED <<current, reset, warm, up, answered, procs, died, pool, clock, work, stuck,
                       stopping, stopped>>
      BY <1>2 DEF Abandon, LiveRuns, poolState
  <2>2. PoolTypeOK'
    <3>1. phase' \in [Run -> {"idle"} \union Live \union Ended]
        BY <2>1 DEF PoolTypeOK, Ended
    <3>2. abandoned' \in BOOLEAN
        BY <2>1
    <3> QED BY <2>1, <3>1, <3>2 DEF PoolTypeOK
  <2>3. TimedOut' = TimedOut /\ Used' = Used /\ SlotHolders' \subseteq SlotHolders
      BY <2>1 DEF TimedOut, Used, SlotHolders, Live
  <2>4. PoolsCounted' /\ KilledForAReason' /\ StoppedIsOver'
      BY <2>1, <2>3 DEF PoolsCounted, KilledForAReason, StoppedIsOver
  <2>5. AttemptsPlaced'
      BY <2>1, <2>3, SlotsShrink DEF AttemptsPlaced
  <2> QED BY <2>2, <2>4, <2>5
<1>3. CASE ShutdownPools
  <2>1. /\ stopping /\ LiveRuns = {} /\ stopped' = TRUE
        /\ \/ current = NoPool /\ UNCHANGED procs
           \/ current # NoPool /\ procs' = [procs EXCEPT ![current] = "dead"]
        /\ UNCHANGED <<current, reset, warm, up, answered, died, phase, pool, clock, work, stuck,
                       stopping, abandoned>>
      BY <1>3 DEF ShutdownPools, attemptVars
  <2>2. \A p \in Pool : procs'[p] \in {procs[p], "dead"} /\ (procs'[p] = "live" => p # current)
    <3>1. NoPool \notin Pool
        BY DEF NoPool, Pool
    <3> QED BY <2>1, <3>1 DEF PoolTypeOK
  <2>3. \A p \in Pool : procs'[p] # "live"
      BY <2>2 DEF KilledForAReason
  <2>4. PoolTypeOK'
    <3>1. procs' \in [Pool -> {"none", "live", "dead"}]
        BY <2>1 DEF PoolTypeOK
    <3>2. stopped' \in BOOLEAN
        BY <2>1
    <3> QED BY <2>1, <3>1, <3>2 DEF PoolTypeOK
  <2>5. TimedOut' = TimedOut /\ Used' = Used /\ SlotHolders' = SlotHolders /\ LiveRuns' = LiveRuns
      BY <2>1 DEF TimedOut, Used, SlotHolders, LiveRuns
  <2>6. PoolsCounted'
    <3>1. \A p \in Pool : procs'[p] # "none" => p \in Used
        BY <2>1 DEF PoolsCounted, PoolTypeOK
    <3> QED BY <2>1, <2>5, <3>1 DEF PoolsCounted
  <2>7. KilledForAReason' /\ AttemptsPlaced' /\ StoppedIsOver'
      BY <2>1, <2>3, <2>5 DEF KilledForAReason, AttemptsPlaced, StoppedIsOver
  <2> QED BY <2>4, <2>6, <2>7
<1> QED BY <1>1, <1>2, <1>3

\* Every step keeps the invariant.
LEMMA NextPoolInv ==
    ASSUME PoolInv, [PoolNext]_poolVars
    PROVE  PoolInv'
<1>1. ASSUME NEW r \in Run, TakeSlot(r) \/ Restart(r)
      PROVE  PoolInv'
    BY <1>1, AwaitPoolInv DEF TakeSlot, Restart
<1>2. CASE UNCHANGED poolVars
  <2> USE <1>2 DEF poolVars, poolState, attemptVars, workerVars
  <2>1. PoolTypeOK => PoolTypeOK'
      BY DEF PoolTypeOK
  <2>2. TimedOut' = TimedOut /\ Used' = Used /\ SlotHolders' = SlotHolders /\ LiveRuns' = LiveRuns
      BY DEF TimedOut, Used, SlotHolders, LiveRuns
  <2> QED BY <2>1, <2>2 DEF PoolInv, PoolsCounted, KilledForAReason, AttemptsPlaced, StoppedIsOver
<1> QED BY <1>1, <1>2, PhaseInv, TimesOutInv, BreakInv, WarmUpInv, ChildDiesInv, ChildStartsInv, TickInv,
           StopInv DEF PoolNext

\* In every reachable state: counted pools, kills that have a reason, and attempts whose
\* clocks count their handlers only.
THEOREM PoolAlwaysSound == PoolSpec => []PoolInv
BY InitPoolInv, NextPoolInv, PTL DEF PoolSpec

\* The types of the pool's state; the pids a warm-up has seen are of children that are up.
THEOREM PoolTypes == PoolSpec => []PoolTypeOK
<1>1. PoolInv => PoolTypeOK
    BY DEF PoolInv
<1> QED BY <1>1, PoolAlwaysSound, PTL

\* What the invariant is for.
LEMMA PoolFollows == PoolInv => BystandersRestart /\ TimeoutEarned /\ NoLostPool
<1> SUFFICES ASSUME PoolInv PROVE BystandersRestart /\ TimeoutEarned /\ NoLostPool
    OBVIOUS
<1> USE DEF PoolInv
<1>1. BystandersRestart
    BY DEF AttemptsPlaced, BystandersRestart
<1>2. ASSUME NEW p \in Pool, procs[p] = "live", RunningIn(p) # {}
      PROVE  up[p] = Child /\ Cardinality(RunningIn(p)) <= PoolSize
    <2>1. warm[p] = "ok"
        BY <1>2 DEF RunningIn, AttemptsPlaced
    <2>2. up[p] = Child
        BY <2>1 DEF KilledForAReason, PoolTypeOK
    <2>3. RunningIn(p) \subseteq SlotHolders /\ SlotHolders \subseteq Run
        BY DEF RunningIn, SlotHolders
    <2>4. Cardinality(RunningIn(p)) <= Cardinality(SlotHolders)
        BY <2>3, FinitelyMany, FS_Subset
    <2>5. Cardinality(RunningIn(p)) \in Nat /\ Cardinality(SlotHolders) \in Nat
        BY <2>3, FinitelyMany
    <2> QED
        BY <2>2, <2>4, <2>5, PoolAssumption DEF AttemptsPlaced
<1>3. TimeoutEarned
    BY <1>2 DEF TimeoutEarned, AttemptsPlaced
<1>4. NoLostPool
    BY DEF KilledForAReason, StoppedIsOver, NoLostPool
<1> QED
    BY <1>1, <1>3, <1>4

\* What another attempt's timeout kills is restarted: an attempt fails with its pool only
\* if a child of the pool died by itself or the pool never started.
THEOREM ResetsSpareBystanders == PoolSpec => []BystandersRestart
BY PoolFollows, PoolAlwaysSound, PTL

\* A timeout is charged only to an attempt whose handler had the whole of it: not the wait
\* for a slot, not the start of a pool, not a run that a reset cut short.
THEOREM TimeoutsAreEarned == PoolSpec => []TimeoutEarned
BY PoolFollows, PoolAlwaysSound, PTL

\* The worker knows every pool whose processes are alive, and its shutdown leaves none.
THEOREM NoPoolIsLost == PoolSpec => []NoLostPool
BY PoolFollows, PoolAlwaysSound, PTL
====
