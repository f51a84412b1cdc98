------------------------ MODULE PeriodicRunnerProofs ------------------------
(***************************************************************************)
(* Theorems of PeriodicRunner for every period, number of cycles, window   *)
(* and schedule of wake-ups; and the lemmas about sums, histograms and     *)
(* percentiles (JitterStats) on which the theorems of whole runs rest.     *)
(***************************************************************************)
EXTENDS PeriodicRunner, JitterStats, FiniteSetTheorems, TLAPS

-----------------------------------------------------------------------------
(* Periods and the clock.                                                  *)

LEMMA PeriodType ==
    ASSUME NEW t \in Nat
    PROVE  /\ Period(t) \in Nat
           /\ PeriodUs * Period(t) <= t
           /\ t < PeriodUs * (Period(t) + 1)
  BY PeriodAssumption, Z3 DEF Period

LEMMA PeriodMonotone ==
    ASSUME NEW s \in Nat, NEW t \in Nat, s <= t
    PROVE  Period(s) <= Period(t)
<1> DEFINE p == Period(s)
<1> DEFINE q == Period(t)
<1>1. /\ p \in Nat /\ q \in Nat
      /\ PeriodUs * p <= s
      /\ t < PeriodUs * (q + 1)
  BY PeriodType
<1> HIDE DEF p, q
<1>2. ASSUME q + 1 <= p PROVE FALSE
  <2>1. PeriodUs * (q + 1) <= PeriodUs * p
    BY <1>1, <1>2, PeriodAssumption, Z3
  <2>2. PeriodUs * (q + 1) \in Int /\ PeriodUs * p \in Int
    BY <1>1, PeriodAssumption, Z3
  <2>3. QED
    BY <1>1, <2>1, <2>2
<1>3. p <= q
  BY <1>1, <1>2
<1>4. QED
  BY <1>3 DEF p, q

-----------------------------------------------------------------------------
(* The ledger.                                                             *)

LEMMA CountMissesTypes ==
    ASSUME RunnerTypeOK, NEW n \in Nat, CountMisses(n)
    PROVE  /\ missesInside' \in Nat
           /\ missesOutside' \in Nat
           /\ missesInside' + missesOutside' = missesInside + missesOutside + n
  BY DEF RunnerTypeOK, CountMisses

LEMMA CountersAreNatural ==
    ASSUME RunnerTypeOK
    PROVE  /\ skipped \in Nat /\ overran \in Nat /\ samples \in Nat
           /\ missesInside \in Nat /\ missesOutside \in Nat
           /\ nextUnaccounted \in Nat
           /\ started \in SUBSET Nat
           /\ skippedSet \in SUBSET Nat
           /\ overranSet \in SUBSET Nat
  BY Zenon DEF RunnerTypeOK

LEMMA RunnerInductiveInit == RunnerInit => RunnerInductive
<1> SUFFICES ASSUME RunnerInit PROVE RunnerInductive
  OBVIOUS
<1>1. RunnerTypeOK
  <2>1. 0 \in Nat /\ 0 \in 0 .. Cycles /\ FALSE \in BOOLEAN /\ {} \in SUBSET Nat
    BY CyclesAssumption
  <2>2. QED
    BY <2>1, Zenon DEF RunnerInit, RunnerTypeOK
<1>2. EachPeriodOnce
  BY FS_EmptySet DEF RunnerInit, EachPeriodOnce
<1>3. QED
  BY <1>1, <1>2
  DEF RunnerInit, RunnerInductive, SkippedNeverStarted, MissesAttributed

LEMMA WakeUpPreserves ==
    ASSUME RunnerInductive, NEW t \in 0 .. LastInstant, WakeUp(t)
    PROVE  RunnerInductive'
<1> DEFINE p == Period(t)
<1> DEFINE n == SkippedCount(t)
<1>1. /\ t \in Nat /\ p \in Nat
      /\ startUs \in Nat /\ clock \in Nat /\ startUs <= t
      /\ nextUnaccounted \in Nat
  BY PeriodType, LastInstantAssumption DEF RunnerInductive, RunnerTypeOK, WakeUp
<1>2. Period(startUs) \in Nat /\ Period(startUs) <= p
  BY <1>1, PeriodType, PeriodMonotone
<1>3. n \in Nat
  BY <1>1 DEF SkippedCount
<1>4. /\ missesInside' \in Nat
      /\ missesOutside' \in Nat
      /\ missesInside' + missesOutside' = missesInside + missesOutside + n
  BY <1>3, CountMissesTypes DEF RunnerInductive, WakeUp
<1>5. RunnerTypeOK'
  <2>1. SkippedAt(t) \subseteq Nat
    BY <1>1 DEF SkippedAt
  <2>2. hogActive' \in BOOLEAN
    BY Zenon DEF RunnerInductive, RunnerTypeOK, WakeUp, HogSwitched
  <2>3. /\ clock' \in Nat /\ startUs' \in Nat
        /\ nextUnaccounted' \in Nat
        /\ skipped' \in Nat /\ samples' \in Nat
        /\ started' \in SUBSET Nat
        /\ skippedSet' \in SUBSET Nat
    <3>1. /\ clock' = t /\ startUs' = t /\ nextUnaccounted' = p + 1
          /\ skipped' = skipped + n /\ samples' = samples + 1
          /\ started' = started \cup {p}
          /\ skippedSet' = skippedSet \cup SkippedAt(t)
      BY DEF WakeUp, Standing
    <3>2. RunnerTypeOK
      BY DEF RunnerInductive
    <3> HIDE DEF n, p
    <3>3. QED
      BY <1>1, <1>3, <2>1, <3>1, <3>2, CountersAreNatural
  <2>4. /\ stage' \in {"asleep", "running"}
        /\ UNCHANGED << cycle, overran, overranSet >>
    BY DEF WakeUp
  <2>5. QED
    BY <1>4, <2>2, <2>3, <2>4, Zenon DEF RunnerInductive, RunnerTypeOK
<1>6. started' = started \cup {p} /\ nextUnaccounted' = p + 1 /\ startUs' = t
      /\ clock' = t /\ skipped' = skipped + n /\ overran' = overran
      /\ skippedSet' = skippedSet \cup SkippedAt(t)
  BY DEF WakeUp, Standing
<1>7. MissesAttributed'
  BY <1>3, <1>4, <1>6 DEF RunnerInductive, RunnerTypeOK, MissesAttributed
<1>8. IsFiniteSet(started)
  <2>1. IsFiniteSet(0 .. nextUnaccounted - 1)
    BY <1>1, FS_Interval
  <2>2. QED
    BY <2>1, FS_Subset DEF RunnerInductive
<1>9. Cardinality(started) \in Nat
  BY <1>8, FS_CardinalityType
<1>10. nextUnaccounted <= p + 1
  BY <1>1, <1>2 DEF RunnerInductive
<1>11. EachPeriodOnce'
  <2>1. CASE nextUnaccounted <= p
    <3>1. p \notin started
      BY <1>1, <2>1 DEF RunnerInductive
    <3>2. Cardinality(started') = Cardinality(started) + 1
      BY <1>6, <1>8, <3>1, FS_AddElement
    <3>3. n = p - nextUnaccounted
      BY <1>1, <2>1 DEF SkippedCount
    <3>4. QED
      BY <1>1, <1>6, <1>9, <3>2, <3>3
      DEF RunnerInductive, RunnerTypeOK, EachPeriodOnce
  <2>2. CASE nextUnaccounted = p + 1
    <3>1. Period(startUs) = p /\ p \in started
      BY <1>1, <1>2, <2>2 DEF RunnerInductive
    <3>2. started' = started
      BY <1>6, <3>1
    <3>3. n = 0
      BY <1>1, <2>2 DEF SkippedCount
    <3>4. QED
      <4>1. RunnerTypeOK /\ EachPeriodOnce
        BY DEF RunnerInductive
      <4>2. /\ skipped' = skipped
            /\ Cardinality(started') = Cardinality(started)
            /\ nextUnaccounted' = nextUnaccounted
        BY <1>6, <2>2, <3>2, <3>3, <4>1, CountersAreNatural
      <4>3. QED
        BY <4>1, <4>2 DEF EachPeriodOnce
  <2>3. QED
    BY <1>1, <1>10, <2>1, <2>2
<1>12. /\ started' \subseteq 0 .. nextUnaccounted' - 1
       /\ skippedSet' \subseteq 0 .. nextUnaccounted' - 1
  <2>1. nextUnaccounted' - 1 = p
    BY <1>1, <1>6
  <2>2. 0 .. nextUnaccounted - 1 \subseteq 0 .. p
    BY <1>1, <1>10
  <2>3. SkippedAt(t) \subseteq 0 .. p /\ p \in 0 .. p
    BY <1>1 DEF SkippedAt
  <2>4. started \subseteq 0 .. p /\ skippedSet \subseteq 0 .. p
    BY <2>2 DEF RunnerInductive
  <2>5. QED
    BY <1>6, <2>1, <2>3, <2>4
<1>13. SkippedNeverStarted'
  <2>1. p \notin SkippedAt(t)
    BY <1>1 DEF SkippedAt
  <2>2. SkippedAt(t) \cap started = {}
    BY <1>1 DEF SkippedAt, RunnerInductive
  <2>3. p \notin skippedSet
    <3>1. CASE nextUnaccounted <= p
      BY <1>1, <3>1 DEF RunnerInductive
    <3>2. CASE nextUnaccounted = p + 1
      BY <1>1, <1>2, <3>2 DEF RunnerInductive, SkippedNeverStarted
    <3>3. QED
      BY <1>1, <1>10, <3>1, <3>2
  <2>4. QED
    BY <1>6, <2>1, <2>2, <2>3 DEF RunnerInductive, SkippedNeverStarted
<1>14. startUs' <= clock' /\ nextUnaccounted' = Period(startUs') + 1
       /\ Period(startUs') \in started'
  BY <1>1, <1>6
<1>15. QED
  BY <1>5, <1>7, <1>11, <1>12, <1>13, <1>14 DEF RunnerInductive, WakeUp

LEMMA EndCyclePreserves ==
    ASSUME RunnerInductive, NEW t \in 0 .. LastInstant, EndCycleAt(t)
    PROVE  RunnerInductive'
<1> DEFINE n == IF t > DeadlineUs THEN 1 ELSE 0
<1>1. t \in Nat /\ n \in Nat /\ clock \in Nat /\ startUs \in Nat /\ startUs <= t
  BY LastInstantAssumption DEF RunnerInductive, RunnerTypeOK, EndCycleAt
<1>2. /\ missesInside' \in Nat
      /\ missesOutside' \in Nat
      /\ missesInside' + missesOutside' = missesInside + missesOutside + n
  BY <1>1, CountMissesTypes DEF RunnerInductive, EndCycleAt
<1>3. UNCHANGED << startUs, nextUnaccounted, skipped, samples, hogActive,
                   started, skippedSet >>
      /\ clock' = t /\ overran' = overran + n
  BY DEF EndCycleAt
<1> HIDE DEF n
<1>4. RunnerTypeOK'
  <2>1. cycle' \in 0 .. Cycles
    <3>1. cycle' = cycle + 1 /\ cycle < Cycles /\ cycle \in 0 .. Cycles
      BY DEF RunnerInductive, RunnerTypeOK, EndCycleAt
    <3>2. QED
      BY <3>1, CyclesAssumption
  <2>2. /\ clock' \in Nat /\ overran' \in Nat
        /\ stage' \in {"asleep", "running"}
        /\ overranSet' \in SUBSET Nat
    <3>1. stage' = "asleep"
      BY DEF EndCycleAt
    <3>2. RunnerTypeOK
      BY DEF RunnerInductive
    <3>3. cycle \in Nat
      BY <3>2, CyclesAssumption DEF RunnerTypeOK
    <3>4. overranSet' = overranSet \/ overranSet' = overranSet \cup {cycle}
      BY DEF EndCycleAt
    <3>5. QED
      BY <1>1, <1>3, <3>1, <3>2, <3>3, <3>4, CountersAreNatural
  <2>3. QED
    BY <1>2, <1>3, <2>1, <2>2, Zenon DEF RunnerInductive, RunnerTypeOK
<1>5. MissesAttributed'
  <2>1. RunnerTypeOK /\ MissesAttributed
    BY DEF RunnerInductive
  <2>2. QED
    BY <1>1, <1>2, <1>3, <2>1, CountersAreNatural DEF MissesAttributed
<1>6. stage' = "asleep"
  BY DEF EndCycleAt
<1>7. QED
  BY <1>1, <1>3, <1>4, <1>5, <1>6
  DEF RunnerInductive, EachPeriodOnce, SkippedNeverStarted, Period

LEMMA RunnerInductiveStep ==
    RunnerInductive /\ [RunnerNext]_runnerVars => RunnerInductive'
<1> SUFFICES ASSUME RunnerInductive, [RunnerNext]_runnerVars PROVE RunnerInductive'
  OBVIOUS
<1>1. ASSUME NEW t \in 0 .. LastInstant, WakeUp(t) PROVE RunnerInductive'
  BY <1>1, WakeUpPreserves
<1>2. ASSUME NEW t \in 0 .. LastInstant, EndCycleAt(t) PROVE RunnerInductive'
  BY <1>2, EndCyclePreserves
<1>3. CASE UNCHANGED runnerVars
  BY <1>3
  DEF runnerVars, runnerHistory, RunnerInductive, RunnerTypeOK, EachPeriodOnce,
      SkippedNeverStarted, MissesAttributed
<1>4. QED
  BY <1>1, <1>2, <1>3 DEF RunnerNext

-----------------------------------------------------------------------------
(* Theorems.                                                               *)

THEOREM RunnerInvariant == RunnerSpec => []RunnerInductive
<1>1. QED
  BY RunnerInductiveInit, RunnerInductiveStep, PTL DEF RunnerSpec

\* The ledger counts every period without a start exactly once, for every
\* pattern of stalls and catch-up cycles (runner.rs:110-140).
THEOREM LedgerExact == RunnerSpec => []EachPeriodOnce
<1>1. RunnerInductive => EachPeriodOnce
  BY DEF RunnerInductive
<1>2. QED
  BY <1>1, RunnerInvariant, PTL

\* A cycle that runs late never starts in a period already counted as skipped
\* (runner.rs:112-118).
THEOREM SkippedStaysSkipped == RunnerSpec => []SkippedNeverStarted
<1>1. RunnerInductive => SkippedNeverStarted
  BY DEF RunnerInductive
<1>2. QED
  BY <1>1, RunnerInvariant, PTL

\* The two sides of the hog window add up to all misses, for every window
\* (runner.rs:563-577, 607-620).
THEOREM AttributionComplete == RunnerSpec => []MissesAttributed
<1>1. RunnerInductive => MissesAttributed
  BY DEF RunnerInductive
<1>2. QED
  BY <1>1, RunnerInvariant, PTL

-----------------------------------------------------------------------------
(* The hog window: where the ledger and the spinners stand at a cycle.     *)

\* No period from the current cycle's own on has been accounted too early;
\* the spinners are switched at the boundary, before the cycle sleeps.
WindowInductive ==
    /\ stage = "asleep" =>
          /\ cycle <= nextUnaccounted
          /\ hogActive <=> StartCycle < cycle /\ cycle <= EndCycle
    /\ stage = "running" =>
          /\ cycle < nextUnaccounted
          /\ hogActive <=> InWindow

LEMMA NotBeforeItsPeriod ==
    ASSUME NEW c \in Nat, NEW t \in Nat, t >= c * PeriodUs
    PROVE  c <= Period(t)
<1> DEFINE p == Period(t)
<1>1. p \in Nat /\ t < PeriodUs * (p + 1)
  BY PeriodType
<1> HIDE DEF p
<1>2. ASSUME p + 1 <= c PROVE FALSE
  <2>1. PeriodUs * (p + 1) <= c * PeriodUs
    BY <1>1, <1>2, PeriodAssumption, Z3
  <2>2. PeriodUs * (p + 1) \in Int /\ c * PeriodUs \in Int
    BY <1>1, PeriodAssumption, Z3
  <2>3. QED
    BY <1>1, <2>1, <2>2
<1>3. c <= p
  BY <1>1, <1>2
<1>4. QED
  BY <1>3 DEF p

LEMMA WindowInductiveStep ==
    RunnerInductive /\ WindowInductive /\ [RunnerNext]_runnerVars => WindowInductive'
<1> SUFFICES ASSUME RunnerInductive, WindowInductive, [RunnerNext]_runnerVars
             PROVE  WindowInductive'
  OBVIOUS
<1>1. cycle \in Nat /\ nextUnaccounted \in Nat
  BY CyclesAssumption DEF RunnerInductive, RunnerTypeOK
<1>2. ASSUME NEW t \in 0 .. LastInstant, WakeUp(t) PROVE WindowInductive'
  <2>1. /\ stage = "asleep" /\ stage' = "running" /\ cycle' = cycle
        /\ nextUnaccounted' = Period(t) + 1 /\ hogActive' = HogSwitched
        /\ t \in Nat /\ t >= cycle * PeriodUs
    BY <1>2, LastInstantAssumption DEF WakeUp, Standing, ScheduledUs
  <2>2. cycle <= Period(t) /\ Period(t) \in Nat
    BY <1>1, <2>1, NotBeforeItsPeriod, PeriodType
  <2>3. HogSwitched <=> InWindow
    <3>1. hogActive <=> StartCycle < cycle /\ cycle <= EndCycle
      BY <2>1 DEF WindowInductive
    <3>2. CASE cycle = EndCycle
      BY <1>1, <3>2, WindowAssumption DEF HogSwitched, InWindow
    <3>3. CASE cycle = StartCycle /\ cycle # EndCycle
      BY <1>1, <3>3, WindowAssumption DEF HogSwitched, InWindow
    <3>4. CASE cycle # StartCycle /\ cycle # EndCycle
      <4>1. HogSwitched <=> hogActive
        BY <3>4, Zenon DEF HogSwitched
      <4>2. (StartCycle < cycle /\ cycle <= EndCycle) <=> InWindow
        BY <1>1, <3>4, WindowAssumption DEF InWindow
      <4>3. QED
        BY <3>1, <4>1, <4>2, Zenon
    <3>5. QED
      BY <3>2, <3>3, <3>4
  <2>4. InWindow' <=> InWindow
    BY <2>1 DEF InWindow
  <2>5. cycle' < nextUnaccounted'
    BY <1>1, <2>1, <2>2
  <2>6. QED
    BY <2>1, <2>3, <2>4, <2>5, Zenon DEF WindowInductive
<1>3. ASSUME NEW t \in 0 .. LastInstant, EndCycleAt(t) PROVE WindowInductive'
  <2>1. /\ stage = "running" /\ stage' = "asleep" /\ cycle' = cycle + 1
        /\ nextUnaccounted' = nextUnaccounted /\ hogActive' = hogActive
    BY <1>3 DEF EndCycleAt
  <2>2. cycle < nextUnaccounted /\ (hogActive <=> InWindow)
    BY <2>1 DEF WindowInductive
  <2>3. InWindow <=> StartCycle < cycle' /\ cycle' <= EndCycle
    BY <1>1, <2>1, WindowAssumption DEF InWindow
  <2>4. cycle' <= nextUnaccounted'
    BY <1>1, <2>1, <2>2
  <2>5. QED
    BY <2>1, <2>2, <2>3, <2>4, Zenon DEF WindowInductive
<1>4. CASE UNCHANGED runnerVars
  BY <1>4 DEF runnerVars, WindowInductive, InWindow
<1>5. QED
  BY <1>2, <1>3, <1>4 DEF RunnerNext

THEOREM WindowInvariant == RunnerSpec => []WindowInductive
<1>1. RunnerInit => WindowInductive
  BY WindowAssumption DEF RunnerInit, WindowInductive
<1>2. QED
  BY <1>1, WindowInductiveStep, RunnerInvariant, PTL DEF RunnerSpec

\* Whatever the window and the stalls, a cycle runs with the spinners switched
\* on exactly if it is measured as one of the window (runner.rs:545-552).
THEOREM SidesMatchTheHog == RunnerSpec => []WindowMatchesHog
<1>1. WindowInductive => WindowMatchesHog
  BY Zenon DEF WindowInductive, WindowMatchesHog
<1>2. QED
  BY <1>1, WindowInvariant, PTL

-----------------------------------------------------------------------------
(* Which side of the window a miss is counted on.                          *)

\* The cycles that ended late, and the running one if it will.
SureToOverrun ==
    overranSet \cup (IF stage = "running" /\ startUs > DeadlineUs THEN {cycle} ELSE {})

\* Until a period is skipped the ledger stands where the loop is.  A cycle that
\* is not late at its end can have found missed at most the period of its own
\* number, so only late cycles count a period on another side than its own.
SideInductive ==
    /\ skipped = 0 <=> skippedSet = {}
    /\ overran = 0 <=> overranSet = {}
    /\ skippedSet = {} => nextUnaccounted = IF stage = "running" THEN cycle + 1 ELSE cycle
    /\ overranSet \subseteq 0 .. cycle - 1
    /\ SureToOverrun \subseteq Window /\ skippedSet \subseteq Window => missesOutside = 0
    /\ SureToOverrun \cap Window = {} /\ skippedSet \cap Window = {} => missesInside = 0
    /\ (\A c \in SureToOverrun : c >= StartCycle) =>
          Cardinality(skippedSet \cap Window) + Cardinality(overranSet \cap Window)
              <= missesInside

LEMMA InWindowFinite ==
    ASSUME NEW S
    PROVE  IsFiniteSet(S \cap Window) /\ Cardinality(S \cap Window) \in Nat
<1>1. StartCycle \in Int /\ EndCycle - 1 \in Int
  BY WindowAssumption
<1>2. IsFiniteSet(Window)
  BY <1>1, FS_Interval DEF Window
<1>3. S \cap Window \subseteq Window
  OBVIOUS
<1>4. IsFiniteSet(S \cap Window)
  BY <1>2, <1>3, FS_Subset, Zenon
<1> QED
  BY <1>4, FS_CardinalityType, Zenon

LEMMA SkippedFacts ==
    ASSUME NEW t \in Nat, nextUnaccounted \in Nat, cycle \in Nat, cycle <= nextUnaccounted,
           cycle <= Period(t)
    PROVE  /\ SkippedCount(t) \in Nat
           /\ IsFiniteSet(SkippedAt(t)) /\ Cardinality(SkippedAt(t)) = SkippedCount(t)
           /\ SkippedCount(t) = 0 <=> SkippedAt(t) = {}
           /\ SkippedAt(t) = {} => Period(t) <= nextUnaccounted
           /\ \A p \in SkippedAt(t) : p \in Nat /\ cycle <= p
           /\ t <= DeadlineUs => \A p \in SkippedAt(t) : p = cycle
<1> DEFINE P == Period(t)
<1>1. P \in Nat /\ PeriodUs * P <= t
  BY PeriodType
<1>2. /\ SkippedCount(t) = IF P > nextUnaccounted THEN P - nextUnaccounted ELSE 0
      /\ SkippedAt(t) = nextUnaccounted .. P - 1
  BY DEF SkippedCount, SkippedAt
<1>3. ASSUME t <= DeadlineUs PROVE P <= cycle + 1
  <2>1. t <= PeriodUs * (cycle + 1)
    BY <1>3, PeriodAssumption, Z3 DEF DeadlineUs, ScheduledUs
  <2> HIDE DEF P
  <2>2. ASSUME cycle + 2 <= P PROVE FALSE
    <3>1. PeriodUs * (cycle + 2) <= PeriodUs * P
      BY <1>1, <2>2, PeriodAssumption, Z3
    <3>2. /\ PeriodUs * (cycle + 2) = PeriodUs * (cycle + 1) + PeriodUs
          /\ PeriodUs * (cycle + 1) \in Int /\ PeriodUs * P \in Int
      BY <1>1, PeriodAssumption, Z3
    <3> QED
      BY <1>1, <2>1, <3>1, <3>2, PeriodAssumption
  <2> QED
    BY <1>1, <2>2
<1> HIDE DEF P
<1>4. nextUnaccounted .. P - 1 = {} <=> ~ (P > nextUnaccounted)
  <2>1. CASE P > nextUnaccounted
    <3>1. nextUnaccounted \in nextUnaccounted .. P - 1
      BY <1>1, <2>1
    <3> QED
      BY <2>1, <3>1
  <2>2. CASE ~ (P > nextUnaccounted)
    BY <1>1, <2>2
  <2> QED
    BY <2>1, <2>2
<1>5. /\ IsFiniteSet(nextUnaccounted .. P - 1)
      /\ Cardinality(nextUnaccounted .. P - 1) = IF P > nextUnaccounted THEN P - nextUnaccounted ELSE 0
  <2> DEFINE last == P - 1
  <2>1. last \in Int /\ nextUnaccounted \in Int
    BY <1>1
  <2>2. /\ IsFiniteSet(nextUnaccounted .. last)
        /\ Cardinality(nextUnaccounted .. last) =
              IF nextUnaccounted > last THEN 0 ELSE last - nextUnaccounted + 1
    <3> HIDE DEF last
    <3> QED
      BY <2>1, FS_Interval
  <2>3. (IF nextUnaccounted > last THEN 0 ELSE last - nextUnaccounted + 1)
          = (IF P > nextUnaccounted THEN P - nextUnaccounted ELSE 0)
    <3>1. CASE P > nextUnaccounted
      <4>1. ~ (nextUnaccounted > last) /\ last - nextUnaccounted + 1 = P - nextUnaccounted
        BY <1>1, <3>1
      <4> QED
        BY <3>1, <4>1, Zenon
    <3>2. CASE ~ (P > nextUnaccounted)
      <4>1. nextUnaccounted > last
        BY <1>1, <3>2
      <4> QED
        BY <3>2, <4>1, Zenon
    <3> QED
      BY <3>1, <3>2, Zenon
  <2>4. last = P - 1
    OBVIOUS
  <2> DEFINE count == IF P > nextUnaccounted THEN P - nextUnaccounted ELSE 0
  <2>5. Cardinality(nextUnaccounted .. last) = count
    BY <2>2, <2>3
  <2> HIDE DEF last, count
  <2>6. IsFiniteSet(nextUnaccounted .. P - 1) /\ Cardinality(nextUnaccounted .. P - 1) = count
    BY <2>2, <2>4, <2>5
  <2> QED
    BY <2>6 DEF count
<1>6. \A p \in nextUnaccounted .. P - 1 : p \in Nat /\ cycle <= p /\ p <= P - 1
  BY <1>1
<1>7. t <= DeadlineUs => \A p \in nextUnaccounted .. P - 1 : p = cycle
  BY <1>1, <1>3, <1>6
<1>8. P <= nextUnaccounted <=> ~ (P > nextUnaccounted)
  BY <1>1
<1> QED
  <2>1. SkippedCount(t) \in Nat /\ (SkippedCount(t) = 0 <=> ~ (P > nextUnaccounted))
    BY <1>1, <1>2
  <2> QED
    BY <1>2, <1>4, <1>5, <1>6, <1>7, <1>8, <2>1 DEF P

LEMMA SideWakeUp ==
    ASSUME RunnerInductive, WindowInductive, SideInductive,
           NEW t \in 0 .. LastInstant, WakeUp(t)
    PROVE  SideInductive'
<1>1. /\ nextUnaccounted \in Nat /\ skipped \in Nat /\ overran \in Nat
      /\ missesInside \in Nat /\ missesOutside \in Nat
      /\ skippedSet \in SUBSET Nat /\ overranSet \in SUBSET Nat
  BY CountersAreNatural, Zenon DEF RunnerInductive
<1>2. cycle \in Nat
  BY CyclesAssumption DEF RunnerInductive, RunnerTypeOK
<1>3. /\ stage = "asleep" /\ stage' = "running" /\ cycle' = cycle /\ overran' = overran
      /\ overranSet' = overranSet /\ startUs' = t
      /\ nextUnaccounted' = Period(t) + 1 /\ skippedSet' = skippedSet \cup SkippedAt(t)
      /\ skipped' = skipped + SkippedCount(t)
      /\ t \in Nat /\ t >= cycle * PeriodUs
  BY LastInstantAssumption DEF WakeUp, Standing, ScheduledUs
<1>4. /\ InWindow => missesInside' = missesInside + SkippedCount(t) /\ missesOutside' = missesOutside
      /\ ~ InWindow => missesOutside' = missesOutside + SkippedCount(t) /\ missesInside' = missesInside
  BY DEF WakeUp, CountMisses
<1>5. cycle <= Period(t) /\ Period(t) \in Nat /\ cycle <= nextUnaccounted
  BY <1>2, <1>3, NotBeforeItsPeriod, PeriodType DEF WindowInductive
<1>6. /\ SkippedCount(t) \in Nat
      /\ IsFiniteSet(SkippedAt(t)) /\ Cardinality(SkippedAt(t)) = SkippedCount(t)
      /\ SkippedCount(t) = 0 <=> SkippedAt(t) = {}
      /\ SkippedAt(t) = {} => Period(t) <= nextUnaccounted
      /\ \A p \in SkippedAt(t) : p \in Nat /\ cycle <= p
      /\ t <= DeadlineUs => \A p \in SkippedAt(t) : p = cycle
  BY <1>1, <1>2, <1>3, <1>5, SkippedFacts
<1>7. SureToOverrun = overranSet /\ DeadlineUs' = DeadlineUs /\ DeadlineUs \in Int
  BY <1>2, <1>3, PeriodAssumption, Z3 DEF SureToOverrun, DeadlineUs, ScheduledUs
<1>8. /\ overranSet \subseteq SureToOverrun'
      /\ cycle \in SureToOverrun' \/ \A p \in SkippedAt(t) : p = cycle
  <2>1. SureToOverrun' = overranSet \cup (IF t > DeadlineUs THEN {cycle} ELSE {})
    BY <1>3, <1>7 DEF SureToOverrun
  <2>2. t > DeadlineUs \/ t <= DeadlineUs
    BY <1>3, <1>7
  <2> QED
    BY <1>6, <2>1, <2>2
<1>9. InWindow <=> cycle \in Window
  BY <1>2, WindowAssumption DEF InWindow, Window
<1>10. skipped' = 0 <=> skippedSet' = {}
  <2>1. skipped' = 0 <=> skipped = 0 /\ SkippedCount(t) = 0
    BY <1>1, <1>3, <1>6
  <2>2. skipped = 0 <=> skippedSet = {}
    BY Zenon DEF SideInductive
  <2>3. skippedSet' = {} <=> skippedSet = {} /\ SkippedAt(t) = {}
    BY <1>3
  <2> QED
    BY <1>6, <2>1, <2>2, <2>3, Zenon
<1>11. skippedSet' = {} => nextUnaccounted' = cycle' + 1
  <2> SUFFICES ASSUME skippedSet' = {} PROVE Period(t) = cycle
    BY <1>3
  <2>1. skippedSet = {} /\ SkippedAt(t) = {}
    BY <1>3
  <2>2. nextUnaccounted = cycle
    BY <1>3, <2>1 DEF SideInductive
  <2> QED
    BY <1>2, <1>5, <1>6, <2>1, <2>2
<1>12. ASSUME SureToOverrun' \subseteq Window, skippedSet' \subseteq Window
       PROVE  missesOutside' = 0
  <2>1. missesOutside = 0
    BY <1>3, <1>7, <1>8, <1>12 DEF SideInductive
  <2>2. CASE InWindow
    BY <1>4, <2>1, <2>2
  <2>3. CASE ~ InWindow
    <3>1. SkippedAt(t) = {}
      BY <1>3, <1>8, <1>9, <1>12, <2>3
    <3> QED
      BY <1>4, <1>6, <2>1, <2>3, <3>1
  <2> QED
    BY <2>2, <2>3
<1>13. ASSUME SureToOverrun' \cap Window = {}, skippedSet' \cap Window = {}
       PROVE  missesInside' = 0
  <2>1. missesInside = 0
    BY <1>3, <1>7, <1>8, <1>13 DEF SideInductive
  <2>2. CASE ~ InWindow
    BY <1>4, <2>1, <2>2
  <2>3. CASE InWindow
    <3>1. SkippedAt(t) = {}
      BY <1>3, <1>8, <1>9, <1>13, <2>3
    <3> QED
      BY <1>4, <1>6, <2>1, <2>3, <3>1
  <2> QED
    BY <2>2, <2>3
<1>14. ASSUME \A c \in SureToOverrun' : c >= StartCycle
       PROVE  Cardinality(skippedSet' \cap Window) + Cardinality(overranSet' \cap Window)
                  <= missesInside'
  <2> DEFINE S == skippedSet \cap Window
  <2> DEFINE A == SkippedAt(t) \cap Window
  <2>1. Cardinality(S) + Cardinality(overranSet \cap Window) <= missesInside
    BY <1>7, <1>8, <1>14 DEF SideInductive
  <2>2. skippedSet' \cap Window = S \cup A
    BY <1>3
  <2>3. IsFiniteSet(S) /\ Cardinality(S) \in Nat /\ IsFiniteSet(A) /\ Cardinality(A) \in Nat
        /\ Cardinality(overranSet \cap Window) \in Nat
    BY InWindowFinite, Zenon
  <2>4. Cardinality(A) <= SkippedCount(t)
    BY <1>6, FS_Subset
  <2>5. Cardinality(S \cup A) <= Cardinality(S) + Cardinality(A) /\ Cardinality(S \cup A) \in Nat
    <3>1. /\ IsFiniteSet(S \cup A) /\ IsFiniteSet(S \cap A)
          /\ Cardinality(S \cup A) = Cardinality(S) + Cardinality(A) - Cardinality(S \cap A)
      BY <2>3, FS_Union, FS_Intersection
    <3>2. Cardinality(S \cap A) \in Nat /\ Cardinality(S \cup A) \in Nat
      BY <3>1, FS_CardinalityType
    <3> HIDE DEF S, A
    <3> QED
      BY <2>3, <3>1, <3>2
  <2>6. CASE InWindow
    <3>1. missesInside' = missesInside + SkippedCount(t)
      BY <1>4, <2>6
    <3>2. Cardinality(skippedSet' \cap Window) = Cardinality(S \cup A)
          /\ Cardinality(overranSet' \cap Window) = Cardinality(overranSet \cap Window)
      BY <1>3, <2>2
    <3> DEFINE o == Cardinality(overranSet \cap Window)
    <3>3. Cardinality(S \cup A) + o <= missesInside + SkippedCount(t)
      <4>1. o \in Nat /\ Cardinality(S) + o <= missesInside
        BY <2>1, <2>3
      <4> HIDE DEF S, A, o
      <4> QED
        BY <1>1, <1>6, <2>3, <2>4, <2>5, <4>1
    <3> QED
      BY <3>1, <3>2, <3>3
  <2>7. CASE ~ InWindow
    <3>1. A = {}
      <4> SUFFICES ASSUME NEW p \in SkippedAt(t), p \in Window PROVE FALSE
        OBVIOUS
      <4>1. p \in Nat /\ StartCycle <= p /\ p < EndCycle /\ cycle <= p
        BY <1>6, WindowAssumption DEF Window
      <4>2. cycle < StartCycle
        BY <1>2, <2>7, <4>1, WindowAssumption DEF InWindow
      <4>3. cycle \notin SureToOverrun'
        BY <1>2, <1>14, <4>2, WindowAssumption
      <4> QED
        BY <1>2, <1>8, <4>1, <4>2, <4>3, WindowAssumption
    <3>2. skippedSet' \cap Window = S /\ missesInside' = missesInside
      BY <1>4, <2>2, <2>7, <3>1
    <3> QED
      BY <1>3, <2>1, <3>2
  <2> QED
    BY <2>6, <2>7
<1>15. overranSet' \subseteq 0 .. cycle' - 1 /\ (overran' = 0 <=> overranSet' = {})
  BY <1>3 DEF SideInductive
<1> HIDE DEF SureToOverrun
<1> QED
  BY <1>3, <1>10, <1>11, <1>12, <1>13, <1>14, <1>15 DEF SideInductive

LEMMA SideEndCycle ==
    ASSUME RunnerInductive, SideInductive, NEW t \in 0 .. LastInstant, EndCycleAt(t)
    PROVE  SideInductive'
<1>1. /\ skipped \in Nat /\ overran \in Nat /\ missesInside \in Nat /\ missesOutside \in Nat
      /\ skippedSet \in SUBSET Nat /\ overranSet \in SUBSET Nat
  BY CountersAreNatural, Zenon DEF RunnerInductive
<1>2. cycle \in Nat /\ startUs \in Nat /\ clock \in Nat /\ startUs <= clock /\ t \in Nat
  BY CyclesAssumption, LastInstantAssumption DEF RunnerInductive, RunnerTypeOK
<1>3. /\ stage = "running" /\ stage' = "asleep" /\ cycle' = cycle + 1 /\ t >= clock
      /\ UNCHANGED << nextUnaccounted, skipped, skippedSet >>
  BY DEF EndCycleAt
<1>4. InWindow <=> cycle \in Window
  BY <1>2, WindowAssumption DEF InWindow, Window
<1>5. DeadlineUs \in Int
  BY <1>2, PeriodAssumption, Z3 DEF DeadlineUs, ScheduledUs
<1>6. SureToOverrun' = overranSet'
  BY <1>3 DEF SureToOverrun
<1>7. cycle \notin overranSet /\ overranSet \subseteq 0 .. cycle - 1
  BY <1>2 DEF SideInductive
<1>8. /\ skipped' = 0 <=> skippedSet' = {}
      /\ skippedSet' = {} => nextUnaccounted' = cycle'
  BY <1>3 DEF SideInductive
<1>9. CASE t > DeadlineUs
  <2>1. overran' = overran + 1 /\ overranSet' = overranSet \cup {cycle}
    BY <1>9 DEF EndCycleAt
  <2>2. /\ InWindow => missesInside' = missesInside + 1 /\ missesOutside' = missesOutside
        /\ ~ InWindow => missesOutside' = missesOutside + 1 /\ missesInside' = missesInside
    BY <1>9 DEF EndCycleAt, CountMisses
  <2>3. SureToOverrun \subseteq overranSet'
    BY <2>1 DEF SureToOverrun
  <2>4. ASSUME overranSet' \subseteq Window, skippedSet' \subseteq Window PROVE missesOutside' = 0
    BY <1>3, <1>4, <2>1, <2>2, <2>3, <2>4 DEF SideInductive
  <2>5. ASSUME overranSet' \cap Window = {}, skippedSet' \cap Window = {} PROVE missesInside' = 0
    BY <1>3, <1>4, <2>1, <2>2, <2>3, <2>5 DEF SideInductive
  <2>6. ASSUME \A c \in overranSet' : c >= StartCycle
        PROVE  Cardinality(skippedSet' \cap Window) + Cardinality(overranSet' \cap Window)
                   <= missesInside'
    <3> DEFINE O == overranSet \cap Window
    <3>1. Cardinality(skippedSet \cap Window) + Cardinality(O) <= missesInside
      BY <2>3, <2>6 DEF SideInductive
    <3>2. IsFiniteSet(O) /\ Cardinality(O) \in Nat
      BY InWindowFinite, Zenon
    <3>3. Cardinality(skippedSet \cap Window) \in Nat
      BY InWindowFinite, Zenon
    <3>4. CASE InWindow
      <4>1. overranSet' \cap Window = O \cup {cycle} /\ cycle \notin O
        BY <1>4, <1>7, <2>1, <3>4
      <4>2. Cardinality(overranSet' \cap Window) = Cardinality(O) + 1
        BY <3>2, <4>1, FS_AddElement
      <4> HIDE DEF O
      <4> QED
        BY <1>1, <1>3, <2>2, <3>1, <3>2, <3>3, <3>4, <4>2
    <3>5. CASE ~ InWindow
      <4>1. overranSet' \cap Window = O
        BY <1>4, <2>1, <3>5
      <4> HIDE DEF O
      <4> QED
        BY <1>3, <2>2, <3>1, <3>5, <4>1
    <3> QED
      BY <3>4, <3>5
  <2>7. overranSet' \subseteq 0 .. cycle' - 1
    BY <1>2, <1>3, <1>7, <2>1
  <2>8. overran' = 0 <=> overranSet' = {}
    BY <1>1, <2>1
  <2> QED
    BY <1>3, <1>6, <1>8, <2>4, <2>5, <2>6, <2>7, <2>8 DEF SideInductive
<1>10. CASE ~ (t > DeadlineUs)
  <2>1. overran' = overran + 0 /\ overranSet' = overranSet \cup {}
    BY <1>10 DEF EndCycleAt
  <2>2. missesInside' \in {missesInside, missesInside + 0}
        /\ missesOutside' \in {missesOutside, missesOutside + 0}
    BY <1>10 DEF EndCycleAt, CountMisses
  <2>3. overran' = overran /\ overranSet' = overranSet
        /\ missesInside' = missesInside /\ missesOutside' = missesOutside
    BY <1>1, <2>1, <2>2
  <2>4. ~ (startUs > DeadlineUs)
    BY <1>2, <1>3, <1>5, <1>10
  <2>5. SureToOverrun = overranSet
    BY <2>4 DEF SureToOverrun
  <2>6. overranSet' \subseteq 0 .. cycle' - 1
    BY <1>2, <1>3, <1>7, <2>3
  <2> QED
    BY <1>3, <1>6, <1>8, <2>3, <2>5, <2>6 DEF SideInductive
<1> QED
  BY <1>9, <1>10

LEMMA SideInvariant == RunnerSpec => []SideInductive
<1>1. RunnerInit => SideInductive
  <2> SUFFICES ASSUME RunnerInit PROVE SideInductive
    OBVIOUS
  <2>1. Cardinality({}) = 0 /\ {} \cap Window = {}
    BY FS_EmptySet
  <2>2. skippedSet = {} /\ overranSet = {} /\ missesInside = 0 /\ missesOutside = 0
        /\ skipped = 0 /\ overran = 0 /\ nextUnaccounted = 0 /\ cycle = 0 /\ stage = "asleep"
    BY DEF RunnerInit
  <2>3. Cardinality(skippedSet \cap Window) + Cardinality(overranSet \cap Window) <= missesInside
    BY <2>1, <2>2
  <2> QED
    BY <2>2, <2>3 DEF SideInductive
<1>2. RunnerInductive /\ WindowInductive /\ SideInductive /\ [RunnerNext]_runnerVars => SideInductive'
  <2>1. CASE UNCHANGED runnerVars
    BY <2>1 DEF runnerVars, runnerHistory, SideInductive, SureToOverrun, DeadlineUs, ScheduledUs
  <2> QED
    BY <2>1, SideWakeUp, SideEndCycle DEF RunnerNext
<1> QED
  BY <1>1, <1>2, RunnerInvariant, WindowInvariant, PTL DEF RunnerSpec

\* If no cycle before the window ended late, every late cycle and every missed
\* period of the window is counted inside it, for every window, period and
\* pattern of stalls (runner.rs:545-570, 608-614).
THEOREM WindowPeriodsStayInside == RunnerSpec => []WindowPeriodsCountInside
<1>1. ASSUME SideInductive PROVE WindowPeriodsCountInside
  <2> SUFFICES ASSUME stage = "asleep", \A c \in overranSet : c >= StartCycle
               PROVE  Cardinality(skippedSet \cap Window) + Cardinality(overranSet \cap Window)
                          <= missesInside
    BY DEF WindowPeriodsCountInside
  <2>1. SureToOverrun = overranSet
    BY DEF SureToOverrun
  <2> QED
    BY <1>1, <2>1 DEF SideInductive
<1> QED
  BY <1>1, SideInvariant, PTL

-----------------------------------------------------------------------------
(* Sums.  The library defines a sum by recursion over the powerset of its  *)
(* domain; it is the number of units the summed values consist of.         *)

LEMMA LeastNatural ==
    ASSUME NEW S \in SUBSET Nat, S # {}
    PROVE  \E x \in S : \A y \in S : x <= y
<1> DEFINE R == OpToRel(<, Nat)
<1>1. IsWellFoundedOn(R, Nat)
  BY NatLessThanWellFounded
<1>2. R = {ss \in Nat \X Nat : ss[1] < ss[2]}
  BY DEF OpToRel
<1> HIDE DEF R
<1>3. PICK x \in S : \A y \in S : ~ (<< y, x >> \in R)
  BY <1>1, WFMin
<1>4. ASSUME NEW y \in S PROVE x <= y
  <2>1. ~ (y < x)
    BY <1>2, <1>3
  <2> QED
    BY <2>1
<1> QED
  BY <1>4

Units(f, S) == {p \in S \X Nat : p[2] \in 1 .. f[p[1]]}

NatValued(f, S) == IsFiniteSet(S) /\ \A x \in S : f[x] \in Nat

LEMMA UnitsFinite ==
    ASSUME NEW f, NEW S, NatValued(f, S)
    PROVE  IsFiniteSet(Units(f, S)) /\ Cardinality(Units(f, S)) \in Nat
<1> DEFINE column == [x \in S |-> {x} \X (1 .. f[x])]
<1> DEFINE T == {column[x] : x \in S}
<1>1. column \in Surjection(S, T)
  BY DEF Surjection
<1>2. IsFiniteSet(T)
  BY <1>1, FS_Surjection DEF NatValued
<1>3. ASSUME NEW U \in T PROVE IsFiniteSet(U)
  <2>1. PICK x \in S : U = {x} \X (1 .. f[x])
    <3>1. PICK x \in S : U = column[x]
      BY <1>3
    <3> QED
      BY <3>1
  <2>2. f[x] \in Int
    BY DEF NatValued
  <2>3. IsFiniteSet({x} \X (1 .. f[x]))
    <3>1. IsFiniteSet({x})
      BY FS_Singleton
    <3>2. IsFiniteSet(1 .. f[x])
      BY <2>2, FS_Interval
    <3> QED
      BY <3>1, <3>2, FS_Product
  <2> QED
    BY <2>1, <2>3
<1>4. IsFiniteSet(UNION T)
  BY <1>2, <1>3, FS_UNION
<1>5. Units(f, S) \in SUBSET UNION T
  <2>1. ASSUME NEW p \in Units(f, S) PROVE p \in UNION T
    <3>1. p \in S \X Nat /\ p[2] \in 1 .. f[p[1]]
      BY DEF Units
    <3>2. p[1] \in S /\ p \in {p[1]} \X (1 .. f[p[1]])
      BY <3>1
    <3>3. p \in column[p[1]] /\ column[p[1]] \in T
      BY <3>2
    <3> QED
      BY <3>3
  <2> QED
    BY <2>1
<1> QED
  BY <1>4, <1>5, FS_Subset, FS_CardinalityType

LEMMA UnitsSplit ==
    ASSUME NEW f, NEW S, NEW x \in S, NatValued(f, S)
    PROVE  Cardinality(Units(f, S)) = f[x] + Cardinality(Units(f, S \ {x}))
<1> DEFINE C == {x} \X (1 .. f[x])
<1> DEFINE V == Units(f, S \ {x})
<1>1. IsFiniteSet(C) /\ Cardinality(C) = f[x]
  <2>1. IsFiniteSet({x}) /\ Cardinality({x}) = 1
    BY FS_Singleton
  <2>2. f[x] \in Nat
    BY DEF NatValued
  <2>3. IsFiniteSet(1 .. f[x]) /\ Cardinality(1 .. f[x]) = f[x]
    <3> DEFINE m == f[x]
    <3>1. m \in Nat
      BY <2>2
    <3> HIDE DEF m
    <3>2. IsFiniteSet(1 .. m) /\ Cardinality(1 .. m) = (IF 1 > m THEN 0 ELSE m - 1 + 1)
      BY <3>1, FS_Interval
    <3>3. IsFiniteSet(1 .. m) /\ Cardinality(1 .. m) = m
      BY <3>1, <3>2
    <3> QED
      BY <3>3 DEF m
  <2>4. IsFiniteSet(C) /\ Cardinality(C) = 1 * f[x]
    <3> DEFINE D == 1 .. f[x]
    <3>1. IsFiniteSet(D) /\ Cardinality(D) = f[x]
      BY <2>3
    <3> HIDE DEF D
    <3>2. IsFiniteSet({x} \X D) /\ Cardinality({x} \X D) = Cardinality({x}) * Cardinality(D)
      BY <2>1, <3>1, FS_Product, Zenon
    <3> QED
      BY <2>1, <3>1, <3>2 DEF D
  <2> QED
    BY <2>2, <2>4
<1>2. IsFiniteSet(V) /\ Cardinality(V) \in Nat
  <2>1. NatValued(f, S \ {x})
    BY FS_RemoveElement DEF NatValued
  <2> QED
    BY <2>1, UnitsFinite
<1>3. Units(f, S) = C \cup V
  BY DEF Units, NatValued
<1>4. C \cap V = {}
  BY DEF Units
<1> HIDE DEF C, V
<1>5. Cardinality(C \cap V) = 0
  BY <1>4, FS_EmptySet
<1>6. Cardinality(C \cup V) = Cardinality(C) + Cardinality(V) - Cardinality(C \cap V)
  BY <1>1, <1>2, FS_Union
<1>7. f[x] \in Nat
  BY DEF NatValued
<1> QED
  BY <1>1, <1>2, <1>3, <1>5, <1>6, <1>7 DEF V

SumStep(f, s, g) ==
    IF s = {} THEN 0 ELSE f[CHOOSE x \in s : TRUE] + g[s \ {CHOOSE x \in s : TRUE}]

LEMMA SumCountsUnits ==
    ASSUME NEW f, NEW S, NatValued(f, S)
    PROVE  SumFunctionOnSet(f, S) = Cardinality(Units(f, S))
<1> DEFINE Solves(g) == g = [s \in SUBSET S |-> SumStep(f, s, g)]
<1> DEFINE sum == CHOOSE g : Solves(g)
<1> DEFINE count == [s \in SUBSET S |-> Cardinality(Units(f, s))]
<1>1. SumFunctionOnSet(f, S) = sum[S]
  BY Zenon DEF SumFunctionOnSet, FoldFunctionOnSet, MapThenFoldSet, SumStep
<1>2. ASSUME NEW s \in SUBSET S PROVE NatValued(f, s)
  BY FS_Subset DEF NatValued
<1>3. ASSUME NEW s \in SUBSET S, s # {}
      PROVE  /\ (CHOOSE x \in s : TRUE) \in s
             /\ s \ {CHOOSE x \in s : TRUE} \in SUBSET S
             /\ count[s] = SumStep(f, s, count)
  <2> DEFINE x == CHOOSE y \in s : TRUE
  <2>1. x \in s
    BY <1>3
  <2>2. s \ {x} \in SUBSET S
    OBVIOUS
  <2> HIDE DEF x
  <2>3. Cardinality(Units(f, s)) = f[x] + Cardinality(Units(f, s \ {x}))
    BY <1>2, <2>1, UnitsSplit
  <2>4. count[s] = f[x] + count[s \ {x}]
    BY <2>2, <2>3
  <2> HIDE DEF count
  <2>5. count[s] = SumStep(f, s, count)
    BY <1>3, <2>4 DEF SumStep, x
  <2> QED
    BY <2>1, <2>2, <2>5 DEF x
<1>4. count[{}] = SumStep(f, {}, count)
  <2>1. Units(f, {}) = {}
    BY DEF Units
  <2> QED
    BY <2>1, FS_EmptySet DEF SumStep
<1>5. Solves(count)
  <2>1. \A s \in SUBSET S : count[s] = SumStep(f, s, count)
    BY <1>3, <1>4
  <2>2. count = [s \in SUBSET S |-> count[s]]
    OBVIOUS
  <2> HIDE DEF count
  <2> QED
    BY <2>1, <2>2
<1>6. Solves(sum)
  <2> HIDE DEF Solves, count
  <2> QED
    BY <1>5
<1> HIDE DEF sum
<1>7. ASSUME NEW s \in SUBSET S PROVE sum[s] = SumStep(f, s, sum)
  BY <1>6
<1> HIDE DEF Solves
<1> DEFINE Bad == {s \in SUBSET S : sum[s] # count[s]}
<1>8. SUFFICES ASSUME Bad # {} PROVE FALSE
  <2>1. S \in SUBSET S
    OBVIOUS
  <2> QED
    BY <1>1, <2>1
<1> DEFINE Sizes == {Cardinality(s) : s \in Bad}
<1>9. Sizes \in SUBSET Nat /\ Sizes # {}
  BY <1>2, <1>8, FS_CardinalityType DEF NatValued
<1>10. PICK s \in Bad : \A t \in Bad : Cardinality(s) <= Cardinality(t)
  <2> HIDE DEF Bad
  <2>1. PICK n \in Sizes : \A m \in Sizes : n <= m
    <3> HIDE DEF Sizes
    <3> QED
      BY <1>9, LeastNatural
  <2> QED
    BY <2>1
<1>11. CASE s = {}
  BY <1>4, <1>7, <1>10, <1>11 DEF SumStep
<1>12. CASE s # {}
  <2> DEFINE x == CHOOSE y \in s : TRUE
  <2>1. x \in s /\ s \ {x} \in SUBSET S
    BY <1>3, <1>10, <1>12
  <2>2. count[s] = f[x] + count[s \ {x}]
    BY <1>3, <1>10, <1>12 DEF SumStep
  <2>3. sum[s] = f[x] + sum[s \ {x}]
    BY <1>7, <1>10, <1>12 DEF SumStep
  <2> HIDE DEF x, count
  <2>4. s \ {x} \in Bad
    BY <1>10, <2>1, <2>2, <2>3
  <2>5. Cardinality(s \ {x}) = Cardinality(s) - 1 /\ Cardinality(s) \in Nat
    BY <1>2, <1>10, <2>1, FS_RemoveElement, FS_CardinalityType DEF NatValued
  <2> QED
    BY <1>10, <2>4, <2>5
<1> QED
  BY <1>11, <1>12

LEMMA SumType ==
    ASSUME NEW f, NEW S, NatValued(f, S)
    PROVE  SumFunctionOnSet(f, S) \in Nat
  BY SumCountsUnits, UnitsFinite

LEMMA SumOfNone == ASSUME NEW f PROVE SumFunctionOnSet(f, {}) = 0
<1>1. NatValued(f, {}) /\ Units(f, {}) = {}
  BY FS_EmptySet DEF NatValued, Units
<1> QED
  BY <1>1, SumCountsUnits, FS_EmptySet

LEMMA SumSplit ==
    ASSUME NEW f, NEW S, NEW x \in S, NatValued(f, S)
    PROVE  SumFunctionOnSet(f, S) = f[x] + SumFunctionOnSet(f, S \ {x})
<1>1. NatValued(f, S \ {x})
  BY FS_RemoveElement DEF NatValued
<1> QED
  BY <1>1, SumCountsUnits, UnitsSplit

LEMMA SumMonotone ==
    ASSUME NEW f, NEW S, NEW T \in SUBSET S, NatValued(f, S)
    PROVE  SumFunctionOnSet(f, T) <= SumFunctionOnSet(f, S)
<1>1. NatValued(f, T)
  BY FS_Subset DEF NatValued
<1>2. Units(f, T) \in SUBSET Units(f, S)
  BY DEF Units
<1>3. Cardinality(Units(f, T)) <= Cardinality(Units(f, S))
  BY <1>2, UnitsFinite, FS_Subset
<1> QED
  BY <1>1, <1>3, SumCountsUnits

\* Elements that contribute nothing do not matter.
LEMMA SumWithoutZeros ==
    ASSUME NEW f, NEW S, NEW T, NatValued(f, S), NatValued(f, T),
           \A x \in S : f[x] > 0 => x \in T
    PROVE  SumFunctionOnSet(f, S) <= SumFunctionOnSet(f, T)
<1>1. Units(f, S) \in SUBSET Units(f, T)
  <2>1. ASSUME NEW p \in Units(f, S) PROVE p \in Units(f, T)
    <3>1. p \in S \X Nat /\ p[1] \in S /\ p[2] \in 1 .. f[p[1]]
      BY DEF Units
    <3>2. f[p[1]] \in Nat
      BY <3>1 DEF NatValued
    <3>3. f[p[1]] > 0
      BY <3>1, <3>2
    <3> QED
      BY <3>1, <3>3 DEF Units
  <2> QED
    BY <2>1
<1>2. Cardinality(Units(f, S)) <= Cardinality(Units(f, T))
  BY <1>1, UnitsFinite, FS_Subset
<1> QED
  BY <1>2, SumCountsUnits

LEMMA SumPositive ==
    ASSUME NEW f, NEW S, NatValued(f, S)
    PROVE  SumFunctionOnSet(f, S) > 0 <=> \E x \in S : f[x] > 0
<1>1. ASSUME NEW x \in S, f[x] > 0 PROVE SumFunctionOnSet(f, S) > 0
  <2>1. NatValued(f, S \ {x})
    BY FS_RemoveElement DEF NatValued
  <2>2. f[x] \in Nat /\ SumFunctionOnSet(f, S \ {x}) \in Nat
    BY <2>1, SumType DEF NatValued
  <2>3. SumFunctionOnSet(f, S) = f[x] + SumFunctionOnSet(f, S \ {x})
    BY SumSplit
  <2> QED
    BY <1>1, <2>2, <2>3
<1>2. ASSUME \A x \in S : ~ (f[x] > 0) PROVE ~ (SumFunctionOnSet(f, S) > 0)
  <2>1. NatValued(f, {}) /\ SumFunctionOnSet(f, {}) = 0
    BY FS_EmptySet, SumOfNone DEF NatValued
  <2>2. SumFunctionOnSet(f, S) <= SumFunctionOnSet(f, {})
    BY <1>2, <2>1, SumWithoutZeros
  <2> QED
    BY <2>1, <2>2, SumType
<1> QED
  BY <1>1, <1>2

LEMMA SumSame ==
    ASSUME NEW f, NEW g, NEW S, NatValued(f, S), \A x \in S : g[x] = f[x]
    PROVE  SumFunctionOnSet(g, S) = SumFunctionOnSet(f, S)
<1>1. Units(g, S) = Units(f, S) /\ NatValued(g, S)
  BY DEF Units, NatValued
<1> QED
  BY <1>1, SumCountsUnits

\* One more at x.
LEMMA SumOneMore ==
    ASSUME NEW f, NEW g, NEW S, NEW x, NatValued(f, S), NatValued(g, S),
           x \in S => g[x] = f[x] + 1, \A y \in S \ {x} : g[y] = f[y]
    PROVE  SumFunctionOnSet(g, S) = SumFunctionOnSet(f, S) + (IF x \in S THEN 1 ELSE 0)
<1>1. NatValued(f, S \ {x})
  BY FS_RemoveElement DEF NatValued
<1>2. SumFunctionOnSet(f, S) \in Nat /\ SumFunctionOnSet(f, S \ {x}) \in Nat
  BY <1>1, SumType
<1>3. SumFunctionOnSet(g, S \ {x}) = SumFunctionOnSet(f, S \ {x})
  BY <1>1, SumSame
<1>4. CASE x \in S
  <2>1. SumFunctionOnSet(f, S) = f[x] + SumFunctionOnSet(f, S \ {x})
    BY <1>4, SumSplit
  <2>2. SumFunctionOnSet(g, S) = g[x] + SumFunctionOnSet(g, S \ {x})
    BY <1>4, SumSplit
  <2>3. f[x] \in Nat
    BY <1>4 DEF NatValued
  <2> QED
    BY <1>2, <1>3, <1>4, <2>1, <2>2, <2>3
<1>5. CASE x \notin S
  <2>1. \A y \in S : g[y] = f[y]
    BY <1>5
  <2>2. SumFunctionOnSet(g, S) = SumFunctionOnSet(f, S)
    BY <2>1, SumSame
  <2> QED
    BY <1>2, <1>5, <2>2
<1> QED
  BY <1>4, <1>5

Summable(f, S) == NatValued(f, S) /\ S \subseteq DOMAIN f
Bumped(f, g, x) == g = [f EXCEPT ![x] = @ + 1]

LEMMA SumBumped ==
    ASSUME NEW f, NEW S, NEW x, NEW g, Summable(f, S), Bumped(f, g, x)
    PROVE  /\ x \in S => SumFunctionOnSet(g, S) = SumFunctionOnSet(f, S) + 1
           /\ x \notin S => SumFunctionOnSet(g, S) = SumFunctionOnSet(f, S)
<1>1. NatValued(f, S) /\ S \subseteq DOMAIN f
  BY DEF Summable
<1>2. (x \in S => g[x] = f[x] + 1) /\ \A y \in S \ {x} : g[y] = f[y]
  BY <1>1 DEF Bumped
<1>3. NatValued(g, S)
  BY <1>1, <1>2 DEF NatValued
<1>4. SumFunctionOnSet(g, S) = SumFunctionOnSet(f, S) + (IF x \in S THEN 1 ELSE 0)
  BY <1>1, <1>2, <1>3, SumOneMore
<1>5. SumFunctionOnSet(f, S) \in Nat
  BY <1>1, SumType
<1> QED
  BY <1>4, <1>5

-----------------------------------------------------------------------------
(* The histogram.                                                          *)

Stats == [buckets : [Buckets -> Nat], count : Nat, sum : Nat, min : Nat, max : Nat, missed : Nat]

ValuesOf(drawn) == {v \in DOMAIN drawn : drawn[v] > 0}
UpToBucket(drawn, i) == {w \in DOMAIN drawn : BucketOf(w) <= i}

CountsAgree(s, drawn) ==
    /\ s.count = Size(drawn)
    /\ \A i \in Buckets :
          SumFunctionOnSet(s.buckets, 0 .. i) = SumFunctionOnSet(drawn, UpToBucket(drawn, i))
    /\ \A v \in ValuesOf(drawn) : s.buckets[BucketOf(v)] > 0

ExtremesAgree(s, drawn) ==
    /\ ValuesOf(drawn) = {} => s.min = U64Max /\ s.max = 0
    /\ ValuesOf(drawn) # {} => s.min \in ValuesOf(drawn) /\ s.max \in ValuesOf(drawn)
    /\ \A v \in ValuesOf(drawn) : s.min <= v /\ v <= s.max
    /\ s.sum <= s.count * s.max
    /\ s.sum < U64Max => s.count * s.min <= s.sum

\* The strengthening: the statistics s are those of the samples drawn.
Recorded(s, drawn, last) ==
    /\ s \in Stats
    /\ drawn \in [0 .. last -> Nat]
    /\ CountsAgree(s, drawn)
    /\ ExtremesAgree(s, drawn)

LEMMA BucketType ==
    ASSUME NEW v \in Nat
    PROVE  /\ BucketOf(v) \in Buckets
           /\ BucketOf(v) = NUM_BUCKETS <=> v >= OVERFLOW_FLOOR_US
           /\ BucketOf(v) < NUM_BUCKETS => /\ BucketOf(v) * BUCKET_WIDTH_US <= v
                                           /\ v < (BucketOf(v) + 1) * BUCKET_WIDTH_US
           /\ OVERFLOW_FLOOR_US \in Nat
<1> DEFINE q == v \div BUCKET_WIDTH_US
<1>1. /\ q \in Nat /\ q * BUCKET_WIDTH_US <= v /\ v < (q + 1) * BUCKET_WIDTH_US
      /\ BUCKET_WIDTH_US \in Nat /\ BUCKET_WIDTH_US > 0 /\ NUM_BUCKETS \in Nat
  BY BucketAssumption, Z3
<1>2. BucketOf(v) = IF q >= NUM_BUCKETS THEN NUM_BUCKETS ELSE q
  BY DEF BucketOf
<1> HIDE DEF q
<1>3. q >= NUM_BUCKETS <=> v >= BUCKET_WIDTH_US * NUM_BUCKETS
  <2>1. ASSUME q >= NUM_BUCKETS PROVE v >= BUCKET_WIDTH_US * NUM_BUCKETS
    BY <1>1, <2>1, Z3
  <2>2. ASSUME q + 1 <= NUM_BUCKETS PROVE (q + 1) * BUCKET_WIDTH_US <= BUCKET_WIDTH_US * NUM_BUCKETS
    BY <1>1, <2>2, Z3
  <2>3. BUCKET_WIDTH_US * NUM_BUCKETS \in Nat /\ (q + 1) * BUCKET_WIDTH_US \in Nat
    BY <1>1, Z3
  <2> QED
    BY <1>1, <2>1, <2>2, <2>3
<1>4. BUCKET_WIDTH_US * NUM_BUCKETS \in Nat
  BY <1>1, Z3
<1> QED
  BY <1>1, <1>2, <1>3, <1>4 DEF Buckets, OVERFLOW_FLOOR_US

LEMMA BucketMonotone ==
    ASSUME NEW v \in Nat, NEW w \in Nat, v <= w
    PROVE  BucketOf(v) <= BucketOf(w)
<1> DEFINE q == v \div BUCKET_WIDTH_US
<1> DEFINE r == w \div BUCKET_WIDTH_US
<1>1. /\ q \in Nat /\ q * BUCKET_WIDTH_US <= v
      /\ r \in Nat /\ w < (r + 1) * BUCKET_WIDTH_US
      /\ BUCKET_WIDTH_US \in Nat /\ BUCKET_WIDTH_US > 0 /\ NUM_BUCKETS \in Nat
  BY BucketAssumption, Z3
<1>2. /\ BucketOf(v) = IF q >= NUM_BUCKETS THEN NUM_BUCKETS ELSE q
      /\ BucketOf(w) = IF r >= NUM_BUCKETS THEN NUM_BUCKETS ELSE r
  BY DEF BucketOf
<1> HIDE DEF q, r
<1>3. q <= r
  <2>1. ASSUME r + 1 <= q PROVE (r + 1) * BUCKET_WIDTH_US <= q * BUCKET_WIDTH_US
    BY <1>1, <2>1, Z3
  <2>2. (r + 1) * BUCKET_WIDTH_US \in Nat /\ q * BUCKET_WIDTH_US \in Nat
    BY <1>1, Z3
  <2> QED
    BY <1>1, <2>1, <2>2
<1> QED
  BY <1>1, <1>2, <1>3

LEMMA NatValuedOn ==
    ASSUME NEW D, IsFiniteSet(D), NEW f \in [D -> Nat], NEW S \in SUBSET D
    PROVE  NatValued(f, S) /\ SumFunctionOnSet(f, S) \in Nat
<1>1. NatValued(f, S)
  BY FS_Subset DEF NatValued
<1> QED
  BY <1>1, SumType

LEMMA Products ==
    ASSUME NEW a \in Nat, NEW b \in Nat, NEW c \in Nat
    PROVE  /\ a * b \in Nat
           /\ (a + 1) * b = a * b + b
           /\ b <= c => a * b <= a * c
  BY Z3

\* A sum of c values stays between c times the least and c times the greatest.
LEMMA SumBelow ==
    ASSUME NEW c \in Nat, NEW m \in Nat, NEW n \in Nat, NEW v \in Nat, NEW s \in Nat,
           m <= n, v <= n, s <= c * m
    PROVE  s + v <= (c + 1) * n
<1> DEFINE p == c * m
<1> DEFINE q == c * n
<1> DEFINE r == (c + 1) * n
<1>1. p \in Nat /\ q \in Nat /\ r = q + n /\ p <= q
  BY Products
<1>2. s <= p
  OBVIOUS
<1> HIDE DEF p, q, r
<1>3. s + v <= r
  BY <1>1, <1>2
<1> QED
  BY <1>3 DEF r

LEMMA SumAbove ==
    ASSUME NEW c \in Nat, NEW m \in Nat, NEW n \in Nat, NEW v \in Nat, NEW s \in Nat,
           n <= m, n <= v, c * m <= s
    PROVE  (c + 1) * n <= s + v
<1> DEFINE p == c * m
<1> DEFINE q == c * n
<1> DEFINE r == (c + 1) * n
<1>1. p \in Nat /\ q \in Nat /\ r = q + n /\ q <= p
  BY Products
<1>2. p <= s
  OBVIOUS
<1> HIDE DEF p, q, r
<1>3. r <= s + v
  BY <1>1, <1>2
<1> QED
  BY <1>3 DEF r

LEMMA SampleFields ==
    ASSUME NEW s \in Stats, NEW v \in Nat
    PROVE  /\ WithSample(s, v) \in Stats
           /\ WithSample(s, v).buckets = [s.buckets EXCEPT ![BucketOf(v)] = @ + 1]
           /\ WithSample(s, v).count = s.count + 1
           /\ WithSample(s, v).sum = IF s.sum + v > U64Max THEN U64Max ELSE s.sum + v
           /\ WithSample(s, v).min = IF v < s.min THEN v ELSE s.min
           /\ WithSample(s, v).max = IF v > s.max THEN v ELSE s.max
<1> DEFINE b == BucketOf(v)
<1> DEFINE t == WithSample(s, v)
<1>1. s.buckets \in [Buckets -> Nat] /\ b \in Buckets
  BY BucketType DEF Stats
<1>2. DOMAIN s = {"buckets", "count", "sum", "min", "max", "missed"}
  BY DEF Stats
<1>3. /\ t.buckets = [s.buckets EXCEPT ![b] = @ + 1]
      /\ t.count = s.count + 1
      /\ t.sum = IF s.sum + v > U64Max THEN U64Max ELSE s.sum + v
      /\ t.min = IF v < s.min THEN v ELSE s.min
      /\ t.max = IF v > s.max THEN v ELSE s.max
      /\ t.missed = s.missed
      /\ t = [x \in DOMAIN s |-> t[x]]
  <2> HIDE DEF b
  <2> QED
    BY <1>2 DEF WithSample, b
<1>4. t \in Stats
  <2>1. [s.buckets EXCEPT ![b] = @ + 1] \in [Buckets -> Nat]
    BY <1>1
  <2> HIDE DEF t, b
  <2> QED
    BY <1>2, <1>3, <2>1, BucketAssumption DEF Stats
<1> QED
  BY <1>3, <1>4

LEMMA CountsAfter ==
    ASSUME NEW last \in Nat, NEW s \in Stats, NEW drawn \in [0 .. last -> Nat],
           CountsAgree(s, drawn), NEW v \in 0 .. last
    PROVE  CountsAgree(WithSample(s, v), [drawn EXCEPT ![v] = @ + 1])
<1> DEFINE s2 == WithSample(s, v)
<1> DEFINE d2 == [drawn EXCEPT ![v] = @ + 1]
<1>1. v \in Nat /\ IsFiniteSet(0 .. last) /\ IsFiniteSet(Buckets) /\ DOMAIN drawn = 0 .. last
  BY FS_Interval, BucketAssumption DEF Buckets
<1>2. /\ s2.buckets = [s.buckets EXCEPT ![BucketOf(v)] = @ + 1] /\ s2.count = s.count + 1
      /\ s.buckets \in [Buckets -> Nat] /\ BucketOf(v) \in Buckets
  <2>1. s.buckets \in [Buckets -> Nat]
    BY DEF Stats
  <2>2. BucketOf(v) \in Buckets
    BY <1>1, BucketType, Zenon
  <2> QED
    BY <1>1, <2>1, <2>2, SampleFields, Zenon
<1>3. d2 \in [0 .. last -> Nat] /\ DOMAIN d2 = DOMAIN drawn
  OBVIOUS
<1>4. s2.count = Size(d2)
  <2>1. SumFunctionOnSet(d2, 0 .. last) = SumFunctionOnSet(drawn, 0 .. last) + 1
    <3> DEFINE D == 0 .. last
    <3>1. IsFiniteSet(D) /\ drawn \in [D -> Nat] /\ D \in SUBSET D /\ v \in D
      BY <1>1
    <3>2. Bumped(drawn, d2, v)
      BY DEF Bumped
    <3> HIDE DEF D, d2
    <3>3. Summable(drawn, D)
      BY <3>1, NatValuedOn DEF Summable
    <3>4. v \in D => SumFunctionOnSet(d2, D) = SumFunctionOnSet(drawn, D) + 1
      BY <3>2, <3>3, SumBumped
    <3>5. SumFunctionOnSet(d2, D) = SumFunctionOnSet(drawn, D) + 1
      BY <3>1, <3>4
    <3> QED
      BY <3>5 DEF D
  <2>2. Size(d2) = SumFunctionOnSet(d2, 0 .. last) /\ Size(drawn) = SumFunctionOnSet(drawn, 0 .. last)
    BY <1>1, <1>3 DEF Size, SumFunction
  <2> QED
    BY <1>2, <2>1, <2>2 DEF CountsAgree
<1>5. ASSUME NEW i \in Buckets
      PROVE  SumFunctionOnSet(s2.buckets, 0 .. i) = SumFunctionOnSet(d2, UpToBucket(d2, i))
  <2> HIDE DEF s2
  <2>1. 0 .. i \in SUBSET Buckets
    BY BucketAssumption DEF Buckets
  <2>2. /\ BucketOf(v) \in 0 .. i =>
              SumFunctionOnSet(s2.buckets, 0 .. i) = SumFunctionOnSet(s.buckets, 0 .. i) + 1
        /\ BucketOf(v) \notin 0 .. i =>
              SumFunctionOnSet(s2.buckets, 0 .. i) = SumFunctionOnSet(s.buckets, 0 .. i)
    <3> DEFINE h == s.buckets
    <3> DEFINE b == BucketOf(v)
    <3> DEFINE I == 0 .. i
    <3>1. h \in [Buckets -> Nat] /\ Bumped(h, s2.buckets, b)
          /\ IsFiniteSet(Buckets) /\ I \in SUBSET Buckets
      BY <1>1, <1>2, <2>1 DEF Bumped
    <3> HIDE DEF h, b, I
    <3>2. Summable(h, I)
      BY <3>1, NatValuedOn DEF Summable
    <3>3. /\ b \in I => SumFunctionOnSet(s2.buckets, I) = SumFunctionOnSet(h, I) + 1
          /\ b \notin I => SumFunctionOnSet(s2.buckets, I) = SumFunctionOnSet(h, I)
      BY <3>1, <3>2, SumBumped
    <3> QED
      BY <3>3 DEF h, b, I
  <2>3. UpToBucket(d2, i) = UpToBucket(drawn, i) /\ UpToBucket(drawn, i) \in SUBSET (0 .. last)
    BY <1>1, <1>3 DEF UpToBucket
  <2>4. LET U == UpToBucket(drawn, i)
        IN  /\ v \in U => SumFunctionOnSet(d2, U) = SumFunctionOnSet(drawn, U) + 1
            /\ v \notin U => SumFunctionOnSet(d2, U) = SumFunctionOnSet(drawn, U)
    <3> DEFINE D == 0 .. last
    <3> DEFINE U == UpToBucket(drawn, i)
    <3>1. IsFiniteSet(D) /\ drawn \in [D -> Nat] /\ U \in SUBSET D
      BY <1>1, <2>3
    <3>2. Bumped(drawn, d2, v)
      BY DEF Bumped
    <3> HIDE DEF D, U, d2
    <3>3. Summable(drawn, U)
      BY <3>1, NatValuedOn DEF Summable
    <3>4. /\ v \in U => SumFunctionOnSet(d2, U) = SumFunctionOnSet(drawn, U) + 1
          /\ v \notin U => SumFunctionOnSet(d2, U) = SumFunctionOnSet(drawn, U)
      BY <3>2, <3>3, SumBumped
    <3> QED
      BY <3>4 DEF U
  <2>5. v \in UpToBucket(drawn, i) <=> BucketOf(v) \in 0 .. i
    BY <1>1, <1>2, BucketAssumption DEF UpToBucket, Buckets
  <2>6. SumFunctionOnSet(s.buckets, 0 .. i) = SumFunctionOnSet(drawn, UpToBucket(drawn, i))
    BY DEF CountsAgree
  <2>7. SumFunctionOnSet(d2, UpToBucket(d2, i)) = SumFunctionOnSet(d2, UpToBucket(drawn, i))
    BY <2>3, Zenon
  <2> HIDE DEF s2, d2
  <2> QED
    BY <2>2, <2>4, <2>5, <2>6, <2>7, Zenon
<1>6. ASSUME NEW w \in ValuesOf(d2) PROVE s2.buckets[BucketOf(w)] > 0
  <2>1. w \in 0 .. last /\ w \in Nat /\ BucketOf(w) \in Buckets
    BY <1>1, <1>3, BucketType DEF ValuesOf
  <2>2. CASE w = v
    BY <1>2, <2>2
  <2>3. CASE w # v
    <3>1. w \in ValuesOf(drawn)
      BY <1>1, <2>1, <2>3 DEF ValuesOf
    <3> QED
      BY <1>2, <2>1, <3>1 DEF CountsAgree
  <2> QED
    BY <2>2, <2>3
<1> HIDE DEF s2, d2
<1>7. CountsAgree(s2, d2)
  BY <1>4, <1>5, <1>6 DEF CountsAgree
<1> QED
  BY <1>7 DEF s2, d2

LEMMA ExtremesAfter ==
    ASSUME NEW last \in Nat, last <= U64Max, NEW s \in Stats, NEW drawn \in [0 .. last -> Nat],
           CountsAgree(s, drawn), ExtremesAgree(s, drawn), NEW v \in 0 .. last
    PROVE  ExtremesAgree(WithSample(s, v), [drawn EXCEPT ![v] = @ + 1])
<1> DEFINE s2 == WithSample(s, v)
<1> DEFINE d2 == [drawn EXCEPT ![v] = @ + 1]
<1>1. v \in Nat /\ U64Max \in Nat /\ v <= U64Max /\ DOMAIN drawn = 0 .. last
  BY BucketAssumption
<1>2. /\ s2.count = s.count + 1
      /\ s2.sum = IF s.sum + v > U64Max THEN U64Max ELSE s.sum + v
      /\ s2.min = IF v < s.min THEN v ELSE s.min
      /\ s2.max = IF v > s.max THEN v ELSE s.max
      /\ s.count \in Nat /\ s.sum \in Nat /\ s.min \in Nat /\ s.max \in Nat
  BY <1>1, SampleFields DEF Stats
<1>3. ValuesOf(d2) = ValuesOf(drawn) \cup {v}
  BY <1>1 DEF ValuesOf
<1>4. \A w \in ValuesOf(drawn) : w \in Nat /\ s.min <= w /\ w <= s.max
  BY <1>1 DEF ExtremesAgree, ValuesOf
<1>5. s2.min \in ValuesOf(d2) /\ s2.max \in ValuesOf(d2)
  <2>1. CASE ValuesOf(drawn) = {}
    <3>1. s.min = U64Max /\ s.max = 0
      BY <2>1 DEF ExtremesAgree
    <3>2. s2.min = v /\ s2.max = v
      BY <1>1, <1>2, <3>1
    <3> QED
      BY <1>3, <3>2
  <2>2. CASE ValuesOf(drawn) # {}
    BY <1>2, <1>3, <2>2 DEF ExtremesAgree
  <2> QED
    BY <2>1, <2>2
<1>6. \A w \in ValuesOf(d2) : s2.min <= w /\ w <= s2.max
  <2> HIDE DEF s2, d2
  <2> QED
    BY <1>1, <1>2, <1>3, <1>4
<1> DEFINE c == s.count
<1> DEFINE mx == s.max
<1> DEFINE mn == s.min
<1>7. s.sum <= c * mx /\ (s.sum < U64Max => c * mn <= s.sum)
  BY DEF ExtremesAgree
<1>8. c \in Nat /\ mx \in Nat /\ mn \in Nat /\ s.sum \in Nat /\ s2.max \in Nat /\ s2.min \in Nat
      /\ s2.sum \in Nat /\ s2.count = c + 1
  BY <1>1, <1>2
<1>9. s2.sum <= (c + 1) * s2.max
  <2>1. s2.max >= mx /\ s2.max >= v /\ s2.sum <= s.sum + v
    BY <1>1, <1>2
  <2> HIDE DEF s2, c, mx, mn
  <2>2. s.sum + v <= (c + 1) * s2.max
    BY <1>1, <1>7, <1>8, <2>1, SumBelow
  <2>3. (c + 1) * s2.max \in Nat
    BY <1>8, Products
  <2> DEFINE r == (c + 1) * s2.max
  <2>4. s.sum + v <= r /\ r \in Nat
    BY <2>2, <2>3
  <2> HIDE DEF r
  <2>5. s2.sum <= r
    BY <1>1, <1>8, <2>1, <2>4
  <2> QED
    BY <2>5 DEF r
<1>10. s2.sum < U64Max => (c + 1) * s2.min <= s2.sum
  <2> SUFFICES ASSUME s2.sum < U64Max PROVE (c + 1) * s2.min <= s2.sum
    OBVIOUS
  <2>0. s2.min <= mn /\ s2.min <= v /\ s2.sum = IF s.sum + v > U64Max THEN U64Max ELSE s.sum + v
    BY <1>1, <1>2
  <2>1. s2.min <= mn /\ s2.min <= v /\ s2.sum = s.sum + v /\ s.sum < U64Max
    <3> DEFINE x == s2.sum
               y == s.sum
    <3>1. x = (IF y + v > U64Max THEN U64Max ELSE y + v) /\ x < U64Max
      BY <2>0
    <3>2. x \in Nat /\ y \in Nat /\ v \in Nat
      BY <1>1, <1>8
    <3> HIDE DEF x, y, s2
    <3>3. x = y + v /\ y < U64Max
      BY <3>1, <3>2, BucketAssumption
    <3> QED
      BY <2>0, <3>3 DEF x, y
  <2> HIDE DEF s2, c, mx, mn
  <2>2. (c + 1) * s2.min <= s.sum + v
    BY <1>1, <1>7, <1>8, <2>1, SumAbove
  <2> QED
    BY <2>1, <2>2
<1>11. ValuesOf(d2) # {}
  BY <1>3
<1> HIDE DEF s2, d2, c
<1>12. ExtremesAgree(s2, d2)
  BY <1>5, <1>6, <1>8, <1>9, <1>10, <1>11 DEF ExtremesAgree
<1> QED
  BY <1>12 DEF s2, d2

-----------------------------------------------------------------------------
(* Percentiles.                                                            *)

Permilles == 0 .. 1000

LEMMA RankReached ==
    ASSUME NEW s, s.count \in Nat, s.count > 0, NEW permille \in Permilles
    PROVE  /\ Rank(s, permille) \in 1 .. s.count
           /\ \A n \in Nat : n >= Rank(s, permille) <=> n >= 1 /\ n * 1000 >= permille * s.count
<1> DEFINE c == s.count
<1> DEFINE p == c * permille
<1> DEFINE q == (p + 999) \div 1000
<1>1. c \in Nat /\ permille \in Nat /\ permille <= 1000 /\ c >= 1
  BY DEF Permilles
<1>2. p \in Nat /\ p <= c * 1000 /\ permille * c = p
  <2> HIDE DEF c
  <2>1. p \in Nat /\ p <= c * 1000
    BY <1>1, Products
  <2>2. permille * c = c * permille
    BY <1>1, Z3
  <2> QED
    BY <2>1, <2>2
<1>3. Rank(s, permille) = IF q = 0 THEN 1 ELSE q
  BY DEF Rank
<1>4. q \in Nat /\ 1000 * q <= p + 999 /\ p + 999 < 1000 * q + 1000
  <2> HIDE DEF p
  <2> QED
    BY <1>2, Z3
<1> HIDE DEF c, p, q
<1>5. \A n \in Nat : n >= Rank(s, permille) <=> n >= 1 /\ n * 1000 >= p
  BY <1>2, <1>3, <1>4
<1>6. Rank(s, permille) \in Nat /\ Rank(s, permille) >= 1
  BY <1>3, <1>4
<1>7. c >= Rank(s, permille)
  BY <1>1, <1>2, <1>5
<1>8. Rank(s, permille) \in 1 .. c
  BY <1>1, <1>6, <1>7
<1> QED
  BY <1>2, <1>5, <1>8 DEF c

\* The samples that bring the cumulative count to the rank.
Enough(drawn, permille) ==
    {v \in DOMAIN drawn : drawn[v] > 0 /\ AtMost(drawn, v) * 1000 >= permille * Size(drawn)}

Reached(s, permille) ==
    {i \in Buckets : SumFunctionOnSet(s.buckets, 0 .. i) >= Rank(s, permille)}

LEMMA CountsOf ==
    ASSUME NEW last \in Nat, NEW s, NEW drawn, Recorded(s, drawn, last)
    PROVE  /\ s.count \in Nat /\ s.count = Size(drawn)
           /\ DOMAIN drawn = 0 .. last
           /\ \A S \in SUBSET (0 .. last) :
                 NatValued(drawn, S) /\ SumFunctionOnSet(drawn, S) \in Nat
           /\ \A i \in Buckets :
                 SumFunctionOnSet(s.buckets, 0 .. i) = SumFunctionOnSet(drawn, UpToBucket(drawn, i))
           /\ \A i : UpToBucket(drawn, i) \in SUBSET (0 .. last)
           /\ Size(drawn) > 0 <=> ValuesOf(drawn) # {}
<1>1. drawn \in [0 .. last -> Nat] /\ CountsAgree(s, drawn) /\ s \in Stats
  BY DEF Recorded
<1>2. IsFiniteSet(0 .. last) /\ DOMAIN drawn = 0 .. last
  BY <1>1, FS_Interval
<1>3. ASSUME NEW S \in SUBSET (0 .. last)
      PROVE  NatValued(drawn, S) /\ SumFunctionOnSet(drawn, S) \in Nat
  <2> DEFINE D == 0 .. last
  <2>1. IsFiniteSet(D) /\ drawn \in [D -> Nat] /\ S \in SUBSET D
    BY <1>1, <1>2
  <2> HIDE DEF D
  <2> QED
    BY <2>1, NatValuedOn
<1>4. Size(drawn) > 0 <=> ValuesOf(drawn) # {}
  <2>1. NatValued(drawn, 0 .. last)
    BY <1>3
  <2>2. SumFunctionOnSet(drawn, 0 .. last) > 0 <=> \E x \in 0 .. last : drawn[x] > 0
    BY <2>1, SumPositive
  <2>3. Size(drawn) = SumFunctionOnSet(drawn, 0 .. last)
    BY <1>2, Zenon DEF Size, SumFunction
  <2> QED
    BY <1>2, <2>2, <2>3 DEF ValuesOf
<1>5. \A i : UpToBucket(drawn, i) \in SUBSET (0 .. last)
  BY <1>2 DEF UpToBucket
<1>6. s.count \in Nat /\ s.count = Size(drawn)
  BY <1>1 DEF CountsAgree, Stats
<1>7. \A i \in Buckets :
         SumFunctionOnSet(s.buckets, 0 .. i) = SumFunctionOnSet(drawn, UpToBucket(drawn, i))
  BY <1>1, Zenon DEF CountsAgree
<1> QED
  BY <1>2, <1>3, <1>4, <1>5, <1>6, <1>7

LEMMA AtMostReached ==
    ASSUME NEW last \in Nat, NEW s, NEW drawn, Recorded(s, drawn, last), Size(drawn) > 0,
           NEW permille \in Permilles, NEW v \in DOMAIN drawn
    PROVE  /\ v \in Enough(drawn, permille) <=> drawn[v] > 0 /\ AtMost(drawn, v) >= Rank(s, permille)
           /\ AtMost(drawn, v) \in Nat
<1>1. /\ s.count \in Nat /\ s.count = Size(drawn) /\ DOMAIN drawn = 0 .. last
      /\ \A S \in SUBSET (0 .. last) :
            NatValued(drawn, S) /\ SumFunctionOnSet(drawn, S) \in Nat
  BY CountsOf
<1> DEFINE A == {w \in DOMAIN drawn : w <= v}
<1>2. A \in SUBSET (0 .. last) /\ v \in A
  BY <1>1
<1>3. NatValued(drawn, A) /\ AtMost(drawn, v) = SumFunctionOnSet(drawn, A)
      /\ SumFunctionOnSet(drawn, A) \in Nat
  BY <1>1, <1>2 DEF AtMost
<1> HIDE DEF A
<1>4. drawn[v] > 0 => AtMost(drawn, v) >= 1
  <2>1. drawn[v] > 0 => SumFunctionOnSet(drawn, A) > 0
    BY <1>2, <1>3, SumPositive
  <2> QED
    BY <1>3, <2>1
<1>5. AtMost(drawn, v) >= Rank(s, permille)
        <=> AtMost(drawn, v) >= 1 /\ AtMost(drawn, v) * 1000 >= permille * Size(drawn)
  <2> DEFINE n == AtMost(drawn, v)
             c == Size(drawn)
  <2>1. n \in Nat /\ s.count \in Nat /\ s.count = c /\ c > 0
    BY <1>1, <1>3, Zenon
  <2> HIDE DEF n, c
  <2>2. s.count > 0
    BY <2>1
  <2>3. n >= Rank(s, permille) <=> n >= 1 /\ n * 1000 >= permille * s.count
    BY <2>1, <2>2, RankReached
  <2>4. n >= Rank(s, permille) <=> n >= 1 /\ n * 1000 >= permille * c
    BY <2>1, <2>3
  <2> QED
    BY <2>4, Zenon DEF n, c
<1>6. v \in Enough(drawn, permille)
        <=> drawn[v] > 0 /\ AtMost(drawn, v) * 1000 >= permille * Size(drawn)
  BY Zenon DEF Enough
<1> QED
  BY <1>3, <1>4, <1>5, <1>6

\* A bucket the cumulative count has reached the rank at holds, or follows, the
\* bucket of a sample that brings it there.
LEMMA ReachedByASample ==
    ASSUME NEW last \in Nat, NEW s, NEW drawn, Recorded(s, drawn, last), Size(drawn) > 0,
           NEW permille \in Permilles, NEW j \in Reached(s, permille)
    PROVE  \E u \in Enough(drawn, permille) : BucketOf(u) <= j
<1>1. /\ s.count \in Nat /\ s.count = Size(drawn) /\ DOMAIN drawn = 0 .. last
      /\ \A S \in SUBSET (0 .. last) :
            NatValued(drawn, S) /\ SumFunctionOnSet(drawn, S) \in Nat
      /\ UpToBucket(drawn, j) \in SUBSET (0 .. last)
  BY CountsOf
<1>2. Rank(s, permille) \in Nat /\ Rank(s, permille) >= 1
  BY <1>1, RankReached
<1> DEFINE U == UpToBucket(drawn, j)
<1>3. SumFunctionOnSet(drawn, U) >= Rank(s, permille) /\ SumFunctionOnSet(drawn, U) \in Nat
  BY <1>1, CountsOf DEF Reached
<1> DEFINE P == {w \in U : drawn[w] > 0}
<1>4. P # {} /\ P \in SUBSET (0 .. last)
  <2>1. SumFunctionOnSet(drawn, U) > 0
    BY <1>2, <1>3
  <2>2. NatValued(drawn, U)
    BY <1>1
  <2>3. \E x \in U : drawn[x] > 0
    BY <2>1, <2>2, SumPositive
  <2> QED
    BY <1>1, <2>3
<1>5. PICK u \in P : \A w \in P : w <= u
  <2> HIDE DEF P
  <2> DEFINE N == {last - w : w \in P}
  <2>1. N \in SUBSET Nat /\ N # {}
    <3>1. \A w \in P : last - w \in Nat
      BY <1>4
    <3>2. N # {}
      BY <1>4
    <3> QED
      BY <3>1, <3>2
  <2>2. PICK n \in N : \A m \in N : n <= m
    <3> HIDE DEF N
    <3> QED
      BY <2>1, LeastNatural
  <2>3. PICK u \in P : n = last - u
    BY <2>2
  <2>4. ASSUME NEW w \in P PROVE w <= u
    <3>1. last - w \in N /\ w \in Int /\ u \in Int
      BY <1>4, <2>3
    <3>2. last - u <= last - w
      BY <2>2, <2>3, <3>1
    <3> QED
      BY <3>1, <3>2
  <2> QED
    BY <2>4
<1>6. u \in 0 .. last /\ drawn[u] > 0 /\ BucketOf(u) <= j
  BY <1>4, <1>5 DEF UpToBucket
<1> DEFINE A == {w \in DOMAIN drawn : w <= u}
<1>7. A \in SUBSET (0 .. last) /\ \A x \in U : drawn[x] > 0 => x \in A
  BY <1>1, <1>5
<1>8. SumFunctionOnSet(drawn, U) <= SumFunctionOnSet(drawn, A)
  <2>1. NatValued(drawn, U) /\ NatValued(drawn, A)
    BY <1>1, <1>7
  <2> HIDE DEF U, A
  <2> QED
    BY <1>7, <2>1, SumWithoutZeros
<1>9. AtMost(drawn, u) = SumFunctionOnSet(drawn, A)
  BY DEF AtMost
<1> HIDE DEF U, A
<1>10. AtMost(drawn, u) >= Rank(s, permille)
  <2>1. SumFunctionOnSet(drawn, A) \in Nat
    BY <1>1, <1>7
  <2> QED
    BY <1>2, <1>3, <1>8, <1>9, <2>1
<1>11. u \in Enough(drawn, permille)
  <2>1. u \in DOMAIN drawn
    BY <1>1, <1>6
  <2> QED
    BY <1>6, <1>10, <2>1, AtMostReached
<1> QED
  BY <1>6, <1>11

LEMMA FirstBucket ==
    ASSUME NEW last \in Nat, NEW s, NEW drawn, Recorded(s, drawn, last), Size(drawn) > 0,
           NEW permille \in Permilles
    PROVE  LET v == TrueValue(drawn, permille)
           IN  /\ v \in Enough(drawn, permille) /\ v \in 0 .. last
               /\ \A w \in Enough(drawn, permille) : v <= w
               /\ BucketOf(v) \in Reached(s, permille)
               /\ Percentile(s, permille) =
                    IF BucketOf(v) = NUM_BUCKETS THEN OVERFLOW_FLOOR_US
                    ELSE (BucketOf(v) + 1) * BUCKET_WIDTH_US
<1> DEFINE E == Enough(drawn, permille)
<1> DEFINE R == Reached(s, permille)
<1> DEFINE v == TrueValue(drawn, permille)
<1>1. /\ s.count \in Nat /\ s.count = Size(drawn) /\ DOMAIN drawn = 0 .. last
      /\ \A S \in SUBSET (0 .. last) :
            NatValued(drawn, S) /\ SumFunctionOnSet(drawn, S) \in Nat
      /\ \A i \in Buckets :
            SumFunctionOnSet(s.buckets, 0 .. i) = SumFunctionOnSet(drawn, UpToBucket(drawn, i))
      /\ \A i : UpToBucket(drawn, i) \in SUBSET (0 .. last)
  BY CountsOf
<1>2. Rank(s, permille) \in 1 .. s.count
  BY <1>1, RankReached
<1>3. NUM_BUCKETS \in R
  <2>1. NUM_BUCKETS \in Buckets
    BY BucketAssumption DEF Buckets
  <2>2. UpToBucket(drawn, NUM_BUCKETS) = 0 .. last
    <3>1. ASSUME NEW w \in 0 .. last PROVE BucketOf(w) <= NUM_BUCKETS
      <4>1. w \in Nat
        OBVIOUS
      <4> QED
        BY <4>1, BucketType, BucketAssumption DEF Buckets
    <3> QED
      BY <1>1, <3>1 DEF UpToBucket
  <2>3. Size(drawn) = SumFunctionOnSet(drawn, 0 .. last)
    BY <1>1, Zenon DEF Size, SumFunction
  <2>4. SumFunctionOnSet(s.buckets, 0 .. NUM_BUCKETS) = s.count
    BY <1>1, <2>1, <2>2, <2>3, Zenon
  <2> QED
    BY <1>1, <1>2, <2>1, <2>4 DEF Reached
<1>4. E # {} /\ E \in SUBSET Nat /\ E \in SUBSET (0 .. last)
  <2>1. \E u \in E : BucketOf(u) <= NUM_BUCKETS
    BY <1>3, ReachedByASample
  <2> QED
    BY <1>1, <2>1 DEF Enough
<1>5. v = CHOOSE x \in E : \A w \in E : x <= w
  BY Zenon DEF TrueValue, Enough
<1>6. v \in E /\ \A w \in E : v <= w
  <2> HIDE DEF E, v
  <2>1. \E x \in E : \A w \in E : x <= w
    BY <1>4, LeastNatural
  <2> QED
    BY <1>5, <2>1
<1> HIDE DEF v
<1>7. v \in Nat /\ v \in 0 .. last /\ BucketOf(v) \in Buckets
  BY <1>4, <1>6, BucketType
<1>8. BucketOf(v) \in R
  <2> DEFINE A == {w \in DOMAIN drawn : w <= v}
  <2> DEFINE U == UpToBucket(drawn, BucketOf(v))
  <2>1. A \in SUBSET U
    <3>1. ASSUME NEW w \in A PROVE w \in U
      <4>1. w \in 0 .. last /\ w \in Nat /\ w <= v
        BY <1>1, <3>1
      <4>2. BucketOf(w) <= BucketOf(v)
        BY <1>7, <4>1, BucketMonotone
      <4> QED
        BY <1>1, <4>1, <4>2 DEF UpToBucket
    <3> QED
      BY <3>1
  <2>2. SumFunctionOnSet(drawn, A) <= SumFunctionOnSet(drawn, U)
    <3>1. NatValued(drawn, U)
      BY <1>1
    <3> HIDE DEF A, U
    <3> QED
      BY <2>1, <3>1, SumMonotone
  <2>3. SumFunctionOnSet(drawn, A) \in Nat /\ SumFunctionOnSet(drawn, U) \in Nat
    BY <1>1
  <2>4. SumFunctionOnSet(drawn, A) >= Rank(s, permille)
    <3>1. v \in DOMAIN drawn
      BY <1>1, <1>7
    <3>2. AtMost(drawn, v) >= Rank(s, permille)
      BY <1>6, <3>1, AtMostReached
    <3> QED
      BY <3>2 DEF AtMost
  <2> HIDE DEF A
  <2>5. SumFunctionOnSet(s.buckets, 0 .. BucketOf(v)) = SumFunctionOnSet(drawn, U)
    BY <1>1, <1>7
  <2> HIDE DEF U
  <2>6. SumFunctionOnSet(s.buckets, 0 .. BucketOf(v)) >= Rank(s, permille)
    BY <1>1, <1>2, <2>2, <2>3, <2>4, <2>5
  <2> QED
    BY <1>7, <2>6 DEF Reached
<1>9. ASSUME NEW j \in R PROVE BucketOf(v) <= j
  <2>1. PICK u \in E : BucketOf(u) <= j
    BY <1>9, ReachedByASample
  <2>2. u \in Nat /\ v <= u
    BY <1>4, <1>6, <2>1
  <2>3. BucketOf(v) <= BucketOf(u)
    BY <1>7, <2>2, BucketMonotone
  <2>4. BucketOf(u) \in Int /\ BucketOf(v) \in Int /\ j \in Int
    BY <1>7, <2>2, BucketType, BucketAssumption DEF Buckets, Reached
  <2> QED
    BY <2>1, <2>3, <2>4
<1> DEFINE first == CHOOSE i \in R : \A j \in R : i <= j
<1>10. first = BucketOf(v)
  <2>1. first \in R /\ \A j \in R : first <= j
    <3> HIDE DEF R
    <3> QED
      BY <1>8, <1>9
  <2> HIDE DEF first
  <2>2. first <= BucketOf(v) /\ BucketOf(v) <= first
    BY <1>8, <1>9, <2>1
  <2>3. first \in Int /\ BucketOf(v) \in Int
    BY <1>7, <2>1, BucketAssumption DEF Buckets, Reached
  <2> QED
    BY <2>2, <2>3
<1>11. Percentile(s, permille) =
          IF first = NUM_BUCKETS THEN OVERFLOW_FLOOR_US ELSE (first + 1) * BUCKET_WIDTH_US
  <2>1. s.count # 0
    BY <1>1
  <2> QED
    BY <2>1, Zenon DEF Percentile, Reached
<1> HIDE DEF first
<1> QED
  BY <1>6, <1>7, <1>8, <1>10, <1>11 DEF v

LEMMA RecordedInit ==
    ASSUME NEW last \in Nat
    PROVE  Recorded(NewStats, [v \in 0 .. last |-> 0], last)
<1> DEFINE drawn == [v \in 0 .. last |-> 0]
<1>1. NewStats \in Stats /\ drawn \in [0 .. last -> Nat]
  BY BucketAssumption DEF NewStats, Stats
<1>2. ValuesOf(drawn) = {}
  BY DEF ValuesOf
<1>3. ASSUME NEW f, NEW S, NatValued(f, S), \A x \in S : f[x] = 0
      PROVE  SumFunctionOnSet(f, S) = 0
  <2>1. ~ (SumFunctionOnSet(f, S) > 0)
    BY <1>3, SumPositive
  <2> QED
    BY <1>3, <2>1, SumType
<1>4. ASSUME NEW S \in SUBSET (0 .. last) PROVE SumFunctionOnSet(drawn, S) = 0
  <2>1. IsFiniteSet(0 .. last)
    BY FS_Interval
  <2>2. NatValued(drawn, S) /\ \A x \in S : drawn[x] = 0
    BY <2>1, FS_Subset DEF NatValued
  <2> HIDE DEF drawn
  <2> QED
    BY <1>3, <2>2
<1>5. ASSUME NEW i \in Buckets PROVE SumFunctionOnSet(NewStats.buckets, 0 .. i) = 0
  <2>1. IsFiniteSet(0 .. i) /\ 0 .. i \in SUBSET Buckets
    BY BucketAssumption, FS_Interval DEF Buckets
  <2>2. NewStats.buckets = [j \in Buckets |-> 0]
    BY DEF NewStats
  <2> DEFINE b == NewStats.buckets
  <2> DEFINE I == 0 .. i
  <2>3. NatValued(b, I) /\ \A x \in I : b[x] = 0
    BY <2>1, <2>2 DEF NatValued
  <2> HIDE DEF b, I
  <2>4. SumFunctionOnSet(b, I) = 0
    BY <1>3, <2>3
  <2> QED
    BY <2>4 DEF b, I
<1>6. CountsAgree(NewStats, drawn)
  <2>1. Size(drawn) = 0
    <3>1. DOMAIN drawn \in SUBSET (0 .. last)
      OBVIOUS
    <3> HIDE DEF drawn
    <3> QED
      BY <1>4, <3>1, Zenon DEF Size, SumFunction
  <2>2. ASSUME NEW i \in Buckets PROVE SumFunctionOnSet(drawn, UpToBucket(drawn, i)) = 0
    <3>1. UpToBucket(drawn, i) \in SUBSET (0 .. last)
      BY DEF UpToBucket
    <3> HIDE DEF drawn
    <3> QED
      BY <1>4, <3>1, Zenon
  <2>3. NewStats.count = 0
    BY DEF NewStats
  <2> HIDE DEF drawn
  <2> QED
    BY <1>2, <1>5, <2>1, <2>2, <2>3 DEF CountsAgree
<1>7. ExtremesAgree(NewStats, drawn)
  <2> HIDE DEF drawn
  <2> QED
    BY <1>2, BucketAssumption DEF ExtremesAgree, NewStats
<1> QED
  BY <1>1, <1>6, <1>7 DEF Recorded

LEMMA RecordedStep ==
    ASSUME NEW last \in Nat, last <= U64Max, NEW s, NEW drawn, Recorded(s, drawn, last),
           NEW v \in 0 .. last
    PROVE  Recorded(WithSample(s, v), [drawn EXCEPT ![v] = @ + 1], last)
<1>1. /\ s \in Stats /\ drawn \in [0 .. last -> Nat]
      /\ CountsAgree(s, drawn) /\ ExtremesAgree(s, drawn)
  BY DEF Recorded
<1>2. WithSample(s, v) \in Stats
  <2>1. v \in Nat
    OBVIOUS
  <2> QED
    BY <1>1, <2>1, SampleFields
<1>3. [drawn EXCEPT ![v] = @ + 1] \in [0 .. last -> Nat]
  BY <1>1
<1>4. CountsAgree(WithSample(s, v), [drawn EXCEPT ![v] = @ + 1])
  BY <1>1, CountsAfter, Zenon
<1>5. ExtremesAgree(WithSample(s, v), [drawn EXCEPT ![v] = @ + 1])
  BY <1>1, ExtremesAfter, Zenon
<1> QED
  BY <1>2, <1>3, <1>4, <1>5, Zenon DEF Recorded

LEMMA RecordedMisses ==
    ASSUME NEW last \in Nat, NEW s, NEW drawn, Recorded(s, drawn, last), NEW n \in Nat
    PROVE  Recorded(WithMisses(s, n), drawn, last)
<1> DEFINE t == WithMisses(s, n)
<1>1. s \in Stats
  BY DEF Recorded
<1>2. t \in Stats /\ t.buckets = s.buckets /\ t.count = s.count /\ t.sum = s.sum
      /\ t.min = s.min /\ t.max = s.max
  BY <1>1 DEF WithMisses, Stats
<1> HIDE DEF t
<1>3. CountsAgree(t, drawn) /\ ExtremesAgree(t, drawn)
  BY <1>2, Zenon DEF Recorded, CountsAgree, ExtremesAgree
<1>4. Recorded(t, drawn, last)
  BY <1>2, <1>3, Zenon DEF Recorded
<1> QED
  BY <1>4 DEF t

\* What the histogram promises: a reported percentile brackets the true one.
LEMMA RecordedBrackets ==
    ASSUME NEW last \in Nat, NEW s, NEW drawn, Recorded(s, drawn, last), Size(drawn) > 0,
           NEW permille \in Permilles
    PROVE  Brackets(s, drawn, permille)
<1> DEFINE v == TrueValue(drawn, permille)
<1> DEFINE r == Percentile(s, permille)
<1>1. /\ v \in Enough(drawn, permille) /\ v \in 0 .. last
      /\ r = IF BucketOf(v) = NUM_BUCKETS THEN OVERFLOW_FLOOR_US
             ELSE (BucketOf(v) + 1) * BUCKET_WIDTH_US
  BY FirstBucket, Zenon
<1> HIDE DEF v, r
<1>2. v \in Nat /\ BucketOf(v) \in Buckets
      /\ (BucketOf(v) = NUM_BUCKETS <=> v >= OVERFLOW_FLOOR_US)
      /\ (BucketOf(v) < NUM_BUCKETS => /\ BucketOf(v) * BUCKET_WIDTH_US <= v
                                       /\ v < (BucketOf(v) + 1) * BUCKET_WIDTH_US)
  BY <1>1, BucketType
<1>3. CASE v >= OVERFLOW_FLOOR_US
  <2>1. r = OVERFLOW_FLOOR_US /\ BucketOf(v) = NUM_BUCKETS
    BY <1>1, <1>2, <1>3, Zenon
  <2>2. v \in ValuesOf(drawn)
    BY <1>1 DEF Enough, ValuesOf
  <2>3. s.buckets[BucketOf(v)] > 0
    BY <2>2, Zenon DEF Recorded, CountsAgree
  <2>4. Overflowed(s)
    BY <2>1, <2>3, Zenon DEF Overflowed
  <2> QED
    BY <1>3, <2>1, <2>4, Zenon DEF Brackets, v, r
<1>4. CASE ~ (v >= OVERFLOW_FLOOR_US)
  <2> DEFINE b == BucketOf(v)
  <2>1. b \in Nat /\ b < NUM_BUCKETS /\ r = (b + 1) * BUCKET_WIDTH_US
        /\ b * BUCKET_WIDTH_US <= v /\ v < (b + 1) * BUCKET_WIDTH_US
    BY <1>1, <1>2, <1>4, BucketAssumption DEF Buckets
  <2>2. BUCKET_WIDTH_US \in Nat
    BY BucketAssumption
  <2> HIDE DEF b
  <2> DEFINE p == b * BUCKET_WIDTH_US
  <2>3. r = p + BUCKET_WIDTH_US /\ p \in Nat /\ p <= v /\ v < r
    BY <2>1, <2>2, Products
  <2> HIDE DEF p
  <2>4. r - BUCKET_WIDTH_US <= v /\ v < r
    BY <1>2, <2>2, <2>3
  <2> QED
    BY <1>4, <2>4, Zenon DEF Brackets, v, r
<1> QED
  BY <1>3, <1>4, Zenon

LEMMA MeanBetween ==
    ASSUME NEW c \in Nat \ {0}, NEW m \in Nat, NEW n \in Nat, NEW s \in Nat, s <= c * n
    PROVE  s \div c <= n /\ (c * m <= s => m <= s \div c)
<1> DEFINE q == s \div c
<1>1. q \in Nat /\ c * q <= s /\ s < c * (q + 1)
  BY Z3
<1> HIDE DEF q
<1>2. q <= n
  <2>1. ASSUME n + 1 <= q PROVE FALSE
    <3>1. c * (n + 1) <= c * q
      BY <1>1, <2>1, Products
    <3>2. c * (n + 1) = c * n + c
      BY Z3
    <3> DEFINE p == c * n
    <3> DEFINE k == c * q
    <3>3. p \in Nat /\ k \in Nat /\ p + c <= k /\ k <= s /\ s <= p
      BY <1>1, <3>1, <3>2, Products
    <3> HIDE DEF p, k
    <3> QED
      BY <3>3
  <2> QED
    BY <1>1, <2>1
<1>3. ASSUME c * m <= s PROVE m <= q
  <2>1. ASSUME q + 1 <= m PROVE FALSE
    <3>1. c * (q + 1) <= c * m
      BY <1>1, <2>1, Products
    <3> DEFINE p == c * m
    <3> DEFINE k == c * (q + 1)
    <3>2. p \in Nat /\ k \in Nat /\ k <= p /\ s < k /\ p <= s
      BY <1>1, <1>3, <3>1, Products
    <3> HIDE DEF p, k
    <3> QED
      BY <3>2
  <2> QED
    BY <1>1, <2>1
<1> QED
  BY <1>2, <1>3 DEF q

\* Count, extremes and mean are those of the samples.
LEMMA RecordedSummarises ==
    ASSUME NEW last \in Nat, NEW s, NEW drawn, Recorded(s, drawn, last)
    PROVE  Summarises(s, drawn)
<1> DEFINE values == {v \in DOMAIN drawn : drawn[v] > 0}
<1>1. s \in Stats /\ ExtremesAgree(s, drawn) /\ values = ValuesOf(drawn)
  BY DEF Recorded, ValuesOf
<1>2. s.count \in Nat /\ s.count = Size(drawn) /\ (Size(drawn) > 0 <=> values # {})
  BY <1>1, CountsOf
<1>3. CASE values = {}
  <2>1. s.count = 0 /\ s.max = 0
    BY <1>1, <1>2, <1>3 DEF ExtremesAgree
  <2>2. MinUs(s) = 0 /\ Percentile(s, 500) = 0
    BY <2>1, Zenon DEF MinUs, Percentile
  <2> QED
    BY <1>2, <1>3, <2>1, <2>2, Zenon DEF Summarises
<1>4. CASE values # {}
  <2>1. s.count # 0 /\ s.count \in Nat \ {0} /\ s.sum \in Nat /\ s.min \in Nat /\ s.max \in Nat
    BY <1>1, <1>2, <1>4 DEF Stats
  <2>2. MinUs(s) = s.min /\ MeanUs(s) = s.sum \div s.count
    BY <2>1, Zenon DEF MinUs, MeanUs
  <2>3. /\ s.min \in values /\ s.max \in values
        /\ \A v \in values : s.min <= v /\ v <= s.max
        /\ s.sum <= s.count * s.max
        /\ s.sum < U64Max => s.count * s.min <= s.sum
    BY <1>1, <1>4 DEF ExtremesAgree
  <2>4. /\ s.sum \div s.count <= s.max
        /\ s.sum < U64Max => s.min <= s.sum \div s.count
    BY <2>1, <2>3, MeanBetween
  <2> HIDE DEF values
  <2>5. /\ MinUs(s) \in values /\ s.max \in values
        /\ \A v \in values : MinUs(s) <= v /\ v <= s.max
        /\ MeanUs(s) <= s.max
        /\ s.sum < U64Max => MinUs(s) <= MeanUs(s)
    BY <2>2, <2>3, <2>4
  <2> QED
    BY <1>2, <1>4, <2>5, Zenon DEF Summarises, values
<1> QED
  BY <1>3, <1>4
=============================================================================
