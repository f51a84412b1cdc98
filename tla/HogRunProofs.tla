----------------------------- MODULE HogRunProofs -----------------------------
(***************************************************************************)
(* Theorems of HogRun for every window, number of cycles and spinners: a   *)
(* run is a run of the periodic runner and one of the hog, whose theorems  *)
(* therefore hold of it, and the two agree on the window.                  *)
(***************************************************************************)
EXTENDS HogRun, PeriodicRunnerProofs, CpuHogProofs

-----------------------------------------------------------------------------
(* What the loop knows of the hog.                                         *)

Schedules == {<< >>, << "ACTIVE" >>, << "IDLE" >>, << "ACTIVE", "IDLE" >>}

\* What the word will be when the boundary's calls are through.
Settled ==
    CASE pending = << "ACTIVE" >> -> "ACTIVE"
      [] pending # << >> /\ pending # << "ACTIVE" >> -> "IDLE"
      [] pending = << >> /\ calling \in {"lock", "store"} -> next
      [] pending = << >> /\ calling \notin {"lock", "store"} -> word

\* The strengthening: a cycle runs with the switches made, and the switches
\* lead to the side of the window the cycle is on.
RunShape ==
    /\ config \in Configurations
    /\ part = "spawn" =>
          /\ cycle = 0 /\ stage = "asleep" /\ pending = << >>
          /\ word = "IDLE" /\ calling = "none"
    /\ part = "loop" =>
          /\ word # "TERMINATE" /\ calling # "join" /\ pending \in Schedules
          /\ calling # "none" => next # "TERMINATE"
          /\ calling = "notify" => word = next
          /\ cycle < Cycles => (Settled = "ACTIVE" <=> InWindow)
    /\ stage = "running" => part = "loop" /\ pending = << >> /\ calling = "none"

LEMMA SwitchesOf ==
    ASSUME NEW c \in Nat
    PROVE  /\ Switches(c) \in Schedules
           /\ c < Cycles /\ c = EndCycle => Switches(c) # << >> /\ Switches(c) # << "ACTIVE" >>
           /\ c < Cycles /\ c = StartCycle /\ c # EndCycle => Switches(c) = << "ACTIVE" >>
           /\ c # StartCycle /\ c # EndCycle => Switches(c) = << >>
<1>1. CASE c < Cycles /\ c = StartCycle /\ c = EndCycle
  BY <1>1 DEF Switches, Schedules
<1>2. CASE c < Cycles /\ c = StartCycle /\ c # EndCycle
  BY <1>2 DEF Switches, Schedules
<1>3. CASE c < Cycles /\ c # StartCycle /\ c = EndCycle
  BY <1>3 DEF Switches, Schedules
<1>4. CASE ~(c < Cycles) \/ (c # StartCycle /\ c # EndCycle)
  BY <1>4 DEF Switches, Schedules
<1>5. QED
  BY <1>1, <1>2, <1>3, <1>4

LEMMA ScheduleSteps ==
    ASSUME NEW s \in Schedules, s # << >>
    PROVE  /\ Head(s) \in {"IDLE", "ACTIVE"}
           /\ Tail(s) \in {<< >>, << "IDLE" >>}
           /\ Tail(s) = << >> => (Head(s) = "ACTIVE" <=> s = << "ACTIVE" >>)
           /\ Tail(s) # << >> => s # << "ACTIVE" >>
<1>1. CASE s = << "ACTIVE" >>
  BY <1>1
<1>2. CASE s = << "IDLE" >>
  BY <1>2
<1>3. CASE s = << "ACTIVE", "IDLE" >>
  BY <1>3
<1>4. QED
  BY <1>1, <1>2, <1>3 DEF Schedules

LEMMA WindowNeedsSwitch ==
    ASSUME NEW c \in Nat, c + 1 # StartCycle, c + 1 # EndCycle
    PROVE  (StartCycle <= c /\ c < EndCycle) <=> (StartCycle <= c + 1 /\ c + 1 < EndCycle)
  BY WindowAssumption

-----------------------------------------------------------------------------
(* A run's steps are steps of its parts.                                   *)

LEMMA HogStepOfRun ==
    RunShape /\ [HogRunNext]_hogRunVars => [HogNext]_hogVars
<1> SUFFICES ASSUME RunShape, [HogRunNext]_hogRunVars PROVE [HogNext]_hogVars
  OBVIOUS
<1>1. CASE SpawnOne
  <2>1. config.threads \in 1 .. Threads
    BY ConfigurationsAssumption DEF RunShape
  <2>2. PICK i \in 1 .. config.threads : Spawn(i)
    BY <1>1 DEF SpawnOne
  <2>3. i \in Spinners
    BY <2>1, <2>2, ThreadsAssumption DEF Spinners
  <2>4. word # "TERMINATE"
    BY <1>1 DEF SpawnOne, RunShape
  <2>5. QED
    BY <2>2, <2>3, <2>4 DEF HogNext
<1>2. CASE SwitchHog
  <2>1. Head(pending) \in {"IDLE", "ACTIVE"} /\ word # "TERMINATE" /\ Set(Head(pending))
    BY <1>2, ScheduleSteps DEF SwitchHog, RunShape
  <2>2. QED
    BY <2>1 DEF HogNext
<1>3. CASE StopHog
  BY <1>3 DEF StopHog, RunShape, HogNext
<1>4. CASE HogThreads
  BY <1>4 DEF HogThreads, HogNext
<1>5. CASE BeginLoop \/ ReadOutcome
  BY <1>5 DEF BeginLoop, ReadOutcome
<1>6. CASE \E t \in 0 .. LastInstant : HogWakeUp(t) \/ HogEndCycle(t)
  BY <1>6 DEF HogWakeUp, HogEndCycle
<1>7. CASE UNCHANGED hogRunVars
  BY <1>7 DEF hogRunVars
<1>8. QED
  BY <1>1, <1>2, <1>3, <1>4, <1>5, <1>6, <1>7 DEF HogRunNext, LoopStep

LEMMA RunnerStepOfRun == [HogRunNext]_hogRunVars => [RunnerNext]_runnerVars
<1> SUFFICES ASSUME [HogRunNext]_hogRunVars PROVE [RunnerNext]_runnerVars
  OBVIOUS
<1>1. CASE \E t \in 0 .. LastInstant : HogWakeUp(t) \/ HogEndCycle(t)
  BY <1>1 DEF HogWakeUp, HogEndCycle, RunnerNext
<1>2. CASE SpawnOne \/ BeginLoop \/ SwitchHog \/ StopHog \/ ReadOutcome \/ HogThreads
  BY <1>2 DEF SpawnOne, BeginLoop, SwitchHog, StopHog, ReadOutcome, HogThreads
<1>3. CASE UNCHANGED hogRunVars
  BY <1>3 DEF hogRunVars
<1>4. QED
  BY <1>1, <1>2, <1>3 DEF HogRunNext, LoopStep

-----------------------------------------------------------------------------
(* The loop and the word.                                                  *)

LEMMA RunShapeInit == HogRunInit => RunShape
  BY DEF HogRunInit, RunnerInit, HogInit, RunShape

LEMMA RunShapeStep ==
    RunnerInductive /\ HogInductive /\ RunShape /\ [HogRunNext]_hogRunVars => RunShape'
<1> SUFFICES ASSUME RunnerInductive, HogInductive, RunShape, [HogRunNext]_hogRunVars
             PROVE  RunShape'
  OBVIOUS
<1>1. cycle \in Nat
  BY CyclesAssumption DEF RunnerInductive, RunnerTypeOK
<1>2. CASE SpawnOne
  BY <1>2 DEF SpawnOne, Spawn, RunShape, runnerVars
<1>3. CASE BeginLoop
  <2>1. /\ part' = "loop" /\ pending' = Switches(0) /\ cycle' = 0 /\ stage' = "asleep"
        /\ word' = "IDLE" /\ calling' = "none" /\ config' = config /\ config \in Configurations
    BY <1>3 DEF BeginLoop, RunShape, runnerVars, hogVars
  <2>2. 0 < Cycles => (Settled' = "ACTIVE" <=> InWindow')
    <3> SUFFICES ASSUME 0 < Cycles PROVE Settled' = "ACTIVE" <=> InWindow'
      OBVIOUS
    <3>0. 0 \in Nat
      OBVIOUS
    <3>1. CASE 0 = EndCycle
      <4>1. Settled' = "IDLE"
        BY <2>1, <3>0, <3>1, SwitchesOf DEF Settled
      <4>2. ~InWindow'
        BY <2>1, <3>1 DEF InWindow
      <4>3. QED
        BY <4>1, <4>2
    <3>2. CASE 0 = StartCycle /\ 0 # EndCycle
      <4>1. Settled' = "ACTIVE"
        BY <2>1, <3>0, <3>2, SwitchesOf DEF Settled
      <4>2. InWindow'
        BY <2>1, <3>2, WindowAssumption DEF InWindow
      <4>3. QED
        BY <4>1, <4>2
    <3>3. CASE 0 # StartCycle /\ 0 # EndCycle
      <4>1. Settled' = "IDLE"
        BY <2>1, <3>0, <3>3, SwitchesOf DEF Settled
      <4>2. ~InWindow'
        BY <2>1, <3>3, WindowAssumption DEF InWindow
      <4>3. QED
        BY <4>1, <4>2
    <3>4. QED
      BY <3>1, <3>2, <3>3
  <2>3. QED
    BY <2>1, <2>2, SwitchesOf DEF RunShape
<1>4. CASE SwitchHog
  <2>1. /\ part = "loop" /\ part' = "loop" /\ pending # << >> /\ pending \in Schedules
        /\ pending' = Tail(pending) /\ next' = Head(pending)
        /\ calling' = "lock" /\ word' = word /\ word # "TERMINATE"
        /\ UNCHANGED << cycle, stage, config >> /\ stage # "running"
    BY <1>4 DEF SwitchHog, Set, RunShape, runnerVars
  <2>2. Settled' = "ACTIVE" <=> Settled = "ACTIVE"
    BY <2>1, ScheduleSteps DEF Settled
  <2>3. InWindow' <=> InWindow
    BY <2>1 DEF InWindow
  <2>4. pending' \in Schedules /\ next' # "TERMINATE"
    BY <2>1, ScheduleSteps DEF Schedules
  <2>5. QED
    BY <2>1, <2>2, <2>3, <2>4 DEF RunShape
<1>5. ASSUME NEW t \in 0 .. LastInstant, HogWakeUp(t) PROVE RunShape'
  <2>1. /\ part = "loop" /\ pending = << >> /\ calling = "none"
        /\ UNCHANGED << part, pending, word, calling, next, cycle, config >>
    BY <1>5 DEF HogWakeUp, WakeUp, hogVars
  <2>2. (Settled' = Settled) /\ (InWindow' <=> InWindow)
    BY <2>1 DEF Settled, InWindow
  <2>3. QED
    BY <2>1, <2>2 DEF RunShape
<1>6. ASSUME NEW t \in 0 .. LastInstant, HogEndCycle(t) PROVE RunShape'
  <2>1. /\ part = "loop" /\ stage = "running" /\ stage' = "asleep" /\ cycle' = cycle + 1
        /\ pending' = Switches(cycle + 1)
        /\ UNCHANGED << part, word, calling, next, config >>
    BY <1>6 DEF HogEndCycle, EndCycleAt, hogVars
  <2>2. calling = "none" /\ cycle < Cycles /\ (word = "ACTIVE" <=> InWindow)
    BY <2>1 DEF RunShape, RunnerInductive, Settled
  <2>3. ASSUME cycle + 1 < Cycles PROVE Settled' = "ACTIVE" <=> InWindow'
    <3>1. CASE cycle + 1 = EndCycle
      <4>1. Settled' = "IDLE"
        BY <1>1, <2>1, <2>3, <3>1, SwitchesOf DEF Settled
      <4>2. ~InWindow'
        BY <1>1, <2>1, <3>1, WindowAssumption DEF InWindow
      <4>3. QED
        BY <4>1, <4>2
    <3>2. CASE cycle + 1 = StartCycle /\ cycle + 1 # EndCycle
      <4>0. pending' = << "ACTIVE" >>
        BY <1>1, <2>1, <2>3, <3>2, SwitchesOf
      <4>1. Settled' = "ACTIVE"
        BY <4>0 DEF Settled
      <4>2. InWindow'
        BY <1>1, <2>1, <3>2, WindowAssumption DEF InWindow
      <4>3. QED
        BY <4>1, <4>2
    <3>3. CASE cycle + 1 # StartCycle /\ cycle + 1 # EndCycle
      <4>1. pending' = << >> /\ Settled' = word
        BY <1>1, <2>1, <2>2, <3>3, SwitchesOf DEF Settled
      <4>2. InWindow' <=> InWindow
        BY <1>1, <2>1, <3>3, WindowNeedsSwitch DEF InWindow
      <4>3. QED
        BY <2>2, <4>1, <4>2
    <3>4. QED
      BY <3>1, <3>2, <3>3
  <2>4. pending' \in Schedules
    BY <1>1, <2>1, SwitchesOf
  <2>5. cycle' < Cycles => (Settled' = "ACTIVE" <=> InWindow')
    BY <2>1, <2>3
  <2>6. QED
    BY <2>1, <2>2, <2>4, <2>5 DEF RunShape
<1>7. CASE StopHog \/ ReadOutcome
  BY <1>7 DEF StopHog, ReadOutcome, RunShape, runnerVars
<1>8. CASE HogThreads
  <2>1. UNCHANGED << part, pending, cycle, stage, config >> /\ (InWindow' <=> InWindow)
    BY <1>8 DEF HogThreads, runnerVars, InWindow
  <2>2. ASSUME NEW i \in Spinners, SpinnerStep(i) PROVE RunShape'
    <3>1. UNCHANGED << word, calling, next >>
      BY <2>2
      DEF SpinnerStep, RequestPolicy, Propagate, Load, Spin, Acquire, Retest, Block,
          SpuriousWakeup, signalUnchanged
    <3>2. Settled' = Settled
      BY <2>1, <3>1 DEF Settled
    <3>3. QED
      BY <2>1, <3>1, <3>2 DEF RunShape
  <2>3. ASSUME SetLock \/ SetStore \/ SetNotify PROVE RunShape'
    <3>1. /\ part # "spawn" /\ stage # "running"
          /\ part = "loop" => next # "TERMINATE" /\ next' = next
      BY <2>3 DEF SetLock, SetStore, SetNotify, RunShape
    <3>2. part = "loop" => /\ word' # "TERMINATE" /\ calling' # "join"
                           /\ calling' = "notify" => word' = next'
                           /\ Settled' = Settled
      BY <2>1, <2>3, <3>1
      DEF SetLock, SetStore, SetNotify, AfterSet, RunShape, Settled, Schedules
    <3>3. QED
      BY <2>1, <3>1, <3>2 DEF RunShape
  <2>4. ASSUME NEW i \in Spinners, Join(i) PROVE RunShape'
    BY <2>1, <2>4 DEF Join, RunShape
  <2>5. QED
    BY <1>8, <2>2, <2>3, <2>4 DEF HogThreads, CallStep
<1>9. CASE UNCHANGED hogRunVars
  BY <1>9 DEF hogRunVars, runnerVars, hogVars, RunShape, Settled, InWindow
<1>10. QED
  BY <1>2, <1>3, <1>4, <1>5, <1>6, <1>7, <1>8, <1>9 DEF HogRunNext, LoopStep

-----------------------------------------------------------------------------
(* Theorems.                                                               *)

\* The hog and its window are, at every point of a run, where the loop has
\* brought them (runner.rs:487-527).
THEOREM RunShapeInvariant == HogRunSpec => [](RunnerInductive /\ HogInductive /\ RunShape)
<1>1. HogRunInit => RunnerInductive /\ HogInductive /\ RunShape
  BY RunnerInductiveInit, HogInductiveInit, RunShapeInit DEF HogRunInit
<1>2. RunnerInductive /\ HogInductive /\ RunShape /\ [HogRunNext]_hogRunVars
          => (RunnerInductive /\ HogInductive /\ RunShape)'
  BY RunnerStepOfRun, HogStepOfRun, RunnerInductiveStep, HogInductiveStep, RunShapeStep
<1>3. QED
  BY <1>1, <1>2, PTL DEF HogRunSpec

\* run() makes only calls the hog allows, so what is proved of any sequence of
\* calls holds of a run (runner.rs:487-527, 625-629).
THEOREM RunUsesTheHog == HogRunSpec => HogSpec
<1>1. HogRunInit => HogInit
  BY DEF HogRunInit
<1>2. QED
  BY <1>1, HogStepOfRun, RunShapeInvariant, PTL DEF HogRunSpec, HogSpec

\* The hog takes nothing from the loop's timing model, so the ledger's
\* theorems hold of a contended run (runner.rs:515-622).
THEOREM RunIsPeriodic == HogRunSpec => RunnerSpec
<1>1. HogRunInit => RunnerInit
  BY DEF HogRunInit
<1>2. QED
  BY <1>1, RunnerStepOfRun, PTL DEF HogRunSpec, RunnerSpec

\* For every window, also an empty one and one at an end of the run, a cycle is
\* measured inside it exactly if the spinners have been told to run when it
\* starts (runner.rs:518-529, 545-552).
THEOREM ContendedInside == HogRunSpec => []WindowIsContended
<1>1. RunnerInductive /\ WindowInductive /\ RunShape => WindowIsContended
  <2> SUFFICES ASSUME RunnerInductive, WindowInductive, RunShape, stage = "running"
               PROVE  (hogActive <=> InWindow) /\ (word = "ACTIVE" <=> InWindow)
    BY Zenon DEF WindowIsContended
  <2>1. hogActive <=> InWindow
    BY Zenon DEF WindowInductive
  <2>2. part = "loop" /\ pending = << >> /\ calling = "none" /\ cycle < Cycles
    BY DEF RunShape, RunnerInductive
  <2>3. word = "ACTIVE" <=> InWindow
    BY <2>2 DEF RunShape, Settled
  <2>4. QED
    BY <2>1, <2>3, Zenon
<1>2. QED
  BY <1>1, RunShapeInvariant, RunIsPeriodic, WindowInvariant, PTL

-----------------------------------------------------------------------------
(* The verdict on a run.                                                   *)

\* The statistics count the misses of the ledger, and the outcome is read when
\* the loop is through.
RunVerdict ==
    /\ "missed" \in DOMAIN jitter /\ jitter.missed = skipped + overran
    /\ part \in {"stop", "done"} => cycle = Cycles /\ stage = "asleep"

LEMMA MissedCounts ==
    ASSUME NEW s, "missed" \in DOMAIN s, NEW v, NEW n
    PROVE  /\ "missed" \in DOMAIN WithMisses(s, n) /\ WithMisses(s, n).missed = s.missed + n
           /\ "missed" \in DOMAIN WithSample(s, v) /\ WithSample(s, v).missed = s.missed
  BY DEF WithMisses, WithSample

LEMMA RunVerdictStep ==
    RunnerInductive /\ RunShape /\ RunVerdict /\ [HogRunNext]_hogRunVars => RunVerdict'
<1> SUFFICES ASSUME RunnerInductive, RunShape, RunVerdict, [HogRunNext]_hogRunVars
             PROVE  RunVerdict'
  OBVIOUS
<1>1. skipped \in Nat /\ overran \in Nat /\ "missed" \in DOMAIN jitter
      /\ jitter.missed = skipped + overran
  BY CountersAreNatural, Zenon DEF RunnerInductive, RunVerdict
<1>2. ASSUME NEW t \in 0 .. LastInstant, HogWakeUp(t) PROVE RunVerdict'
  <2>1. /\ jitter' = WithMisses(WithSample(jitter, t - ScheduledUs), SkippedCount(t - ScheduledUs + ScheduledUs))
        /\ part = "loop" /\ part' = part
    BY <1>2 DEF HogWakeUp, SplitJitter
  <2>2. skipped' = skipped + SkippedCount(t) /\ overran' = overran
    BY <1>2 DEF HogWakeUp, WakeUp
  <2>3. t \in Int /\ ScheduledUs \in Int /\ Period(t) \in Nat /\ nextUnaccounted \in Nat
    <3>1. cycle \in Nat
      BY CyclesAssumption DEF RunnerInductive, RunnerTypeOK
    <3> QED
      BY <3>1, PeriodType, LastInstantAssumption, PeriodAssumption, CountersAreNatural, Z3
      DEF ScheduledUs, RunnerInductive
  <2>4. t - ScheduledUs + ScheduledUs = t /\ SkippedCount(t) \in Nat
    BY <2>3 DEF SkippedCount
  <2>5. /\ "missed" \in DOMAIN jitter'
        /\ jitter'.missed = jitter.missed + SkippedCount(t)
    <3> DEFINE s == WithSample(jitter, t - ScheduledUs)
    <3>1. "missed" \in DOMAIN s /\ s.missed = jitter.missed
      BY <1>1, MissedCounts
    <3> HIDE DEF s
    <3>2. "missed" \in DOMAIN WithMisses(s, SkippedCount(t))
          /\ WithMisses(s, SkippedCount(t)).missed = s.missed + SkippedCount(t)
      BY <3>1, MissedCounts
    <3>3. jitter' = WithMisses(s, SkippedCount(t))
      BY <2>1, <2>4 DEF s
    <3> QED
      BY <3>1, <3>2, <3>3
  <2>6. jitter'.missed = skipped' + overran'
    BY <1>1, <2>2, <2>4, <2>5
  <2> QED
    BY <2>1, <2>5, <2>6 DEF RunVerdict
<1>3. ASSUME NEW t \in 0 .. LastInstant, HogEndCycle(t) PROVE RunVerdict'
  <2> DEFINE n == IF t > DeadlineUs THEN 1 ELSE 0
  <2>1. jitter' = WithMisses(jitter, n) /\ part = "loop" /\ part' = part
    BY <1>3 DEF HogEndCycle
  <2>2. skipped' = skipped /\ overran' = overran + n
    BY <1>3 DEF HogEndCycle, EndCycleAt
  <2>3. n \in Nat
    OBVIOUS
  <2> HIDE DEF n
  <2>4. "missed" \in DOMAIN jitter' /\ jitter'.missed = jitter.missed + n
    BY <1>1, <2>1, MissedCounts
  <2>5. jitter'.missed = skipped' + overran'
    BY <1>1, <2>2, <2>3, <2>4
  <2> QED
    BY <2>1, <2>4, <2>5 DEF RunVerdict
<1>4. CASE SpawnOne \/ BeginLoop \/ SwitchHog \/ StopHog \/ ReadOutcome \/ HogThreads
  <2>1. UNCHANGED << jitter, skipped, overran, cycle, stage >>
    BY <1>4
    DEF SpawnOne, BeginLoop, SwitchHog, StopHog, ReadOutcome, HogThreads, jitterVars, runnerVars
  <2>2. part' \in {"stop", "done"} => cycle = Cycles /\ stage = "asleep"
    BY <1>4
    DEF RunVerdict, SpawnOne, BeginLoop, SwitchHog, StopHog, ReadOutcome, HogThreads
  <2> QED
    BY <2>1, <2>2 DEF RunVerdict
<1>5. CASE UNCHANGED hogRunVars
  BY <1>5 DEF hogRunVars, jitterVars, runnerVars, RunVerdict
<1> QED
  BY <1>2, <1>3, <1>4, <1>5 DEF HogRunNext, LoopStep

LEMMA RunVerdictAlways ==
    HogRunSpec => [](RunnerInductive /\ WindowInductive /\ SideInductive /\ RunVerdict)
<1>1. HogRunInit => RunVerdict
  BY DEF HogRunInit, RunnerInit, NewStats, RunVerdict
<1> QED
  BY <1>1, RunVerdictStep, RunShapeInvariant, RunIsPeriodic, RunnerInvariant, WindowInvariant,
     SideInvariant, PTL DEF HogRunSpec

\* With the frozen threshold of no missed deadline (frozen.json,
\* missed_deadlines_max), a run that was late in the window only is caught and
\* attributed to the contention, and one that was never late in it is not
\* attributed, for every window and every pattern of stalls, late ends and
\* cycles catching up (report.rs:595-625, 661-688).
THEOREM ContentionIsCaught == missed_deadlines_max = 0 => (HogRunSpec => []ContentionIsNamed)
<1>1. ASSUME RunnerInductive, SideInductive, RunVerdict, missed_deadlines_max = 0, part = "done"
      PROVE  /\ Late # {} /\ Late \subseteq Window =>
                    Verdict("cpu-hog", HogOutcome, {}) /\ Attributable(HogOutcome)
             /\ Late \cap Window = {} => ~ Attributable(HogOutcome)
  <2>1. skipped \in Nat /\ overran \in Nat /\ missesInside \in Nat /\ missesOutside \in Nat
        /\ missesInside + missesOutside = skipped + overran
    BY <1>1, CountersAreNatural, Zenon DEF RunnerInductive, MissesAttributed
  <2>2. SureToOverrun = overranSet
    BY <1>1 DEF RunVerdict, SureToOverrun
  <2>3. ASSUME Late # {}, Late \subseteq Window
        PROVE  Verdict("cpu-hog", HogOutcome, {}) /\ Attributable(HogOutcome)
    <3>1. missesOutside = 0 /\ (skipped # 0 \/ overran # 0)
      BY <1>1, <2>2, <2>3 DEF SideInductive, Late
    <3>2. skipped + overran > 0
      BY <2>1, <3>1
    <3>3. jitter.missed > 0
      BY <1>1, <3>2 DEF RunVerdict
    <3>4. ~ GatePass(HogOutcome)
      BY <1>1, <2>1, <3>2, <3>3 DEF GatePass, HogOutcome, RunVerdict
    <3>5. Attributable(HogOutcome)
      BY <2>1, <3>1, <3>2 DEF Attributable, HogOutcome
    <3> QED
      BY <3>4, <3>5 DEF Verdict, CpuHogCaught
  <2>4. ASSUME Late \cap Window = {} PROVE ~ Attributable(HogOutcome)
    <3>1. missesInside = 0
      BY <1>1, <2>2, <2>4 DEF SideInductive, Late
    <3> QED
      BY <3>1 DEF Attributable, HogOutcome
  <2> QED
    BY <2>3, <2>4
<1> SUFFICES ASSUME missed_deadlines_max = 0 PROVE HogRunSpec => []ContentionIsNamed
  OBVIOUS
<1>2. RunnerInductive /\ SideInductive /\ RunVerdict => ContentionIsNamed
  BY <1>1 DEF ContentionIsNamed
<1> QED
  BY <1>2, RunVerdictAlways, PTL

\* A run whose gate passes started a cycle in each of its periods and finished
\* none late: the half of GateNeverOptimistic that is not about percentiles.
LEMMA PassMeansOnTime ==
    ASSUME RunnerInductive, SideInductive, RunVerdict, missed_deadlines_max = 0,
           part = "done", GatePass(HogOutcome)
    PROVE  started = 0 .. Cycles - 1 /\ overran = 0
<1>1. skipped \in Nat /\ overran \in Nat
  BY CountersAreNatural, Zenon DEF RunnerInductive
<1>2. jitter.missed <= 0 /\ jitter.missed = skipped + overran
  BY DEF GatePass, HogOutcome, RunVerdict
<1>3. skipped = 0 /\ overran = 0
  BY <1>1, <1>2
<1>4. nextUnaccounted = Cycles
  <2>1. stage = "asleep" /\ cycle = Cycles
    BY DEF RunVerdict
  <2> QED
    BY <1>3, <2>1 DEF SideInductive
<1>5. started \subseteq 0 .. Cycles - 1 /\ Cardinality(started) = Cycles
  <2>1. skipped + Cardinality(started) = nextUnaccounted
        /\ started \subseteq 0 .. nextUnaccounted - 1
    BY Zenon DEF RunnerInductive, EachPeriodOnce
  <2>2. IsFiniteSet(0 .. Cycles - 1)
    BY FS_Interval, CyclesAssumption
  <2>3. Cardinality(started) \in Nat
    BY <1>4, <2>1, <2>2, FS_Subset, FS_CardinalityType
  <2> QED
    BY <1>3, <1>4, <2>1, <2>3
<1>6. IsFiniteSet(0 .. Cycles - 1) /\ Cardinality(0 .. Cycles - 1) = Cycles
  BY FS_Interval, CyclesAssumption
<1>7. started = 0 .. Cycles - 1
  BY <1>5, <1>6, FS_Subset
<1> QED
  BY <1>3, <1>7

-----------------------------------------------------------------------------
(* The statistics of a run.                                                *)

\* Each histogram is that of the samples of its side, and the run's has one
\* sample for each cycle started.
RunStatistics ==
    /\ Recorded(jitter, DrawnInAll, LastInstant)
    /\ Recorded(insideJitter, drawnInside, LastInstant)
    /\ Recorded(outsideJitter, drawnOutside, LastInstant)
    /\ jitter.count = IF stage = "running" THEN cycle + 1 ELSE cycle

LEMMA MissesKeepCount ==
    ASSUME NEW s, NEW drawn, Recorded(s, drawn, LastInstant), NEW n \in Nat
    PROVE  Recorded(WithMisses(s, n), drawn, LastInstant) /\ WithMisses(s, n).count = s.count
<1>1. s \in Stats
  BY DEF Recorded
<1>2. WithMisses(s, n).count = s.count
  BY <1>1 DEF WithMisses, Stats
<1> QED
  BY <1>2, RecordedMisses, LastInstantAssumption

LEMMA SampleKeepsRecord ==
    ASSUME LastInstant <= U64Max, NEW s, NEW drawn, Recorded(s, drawn, LastInstant),
           NEW v \in 0 .. LastInstant
    PROVE  /\ Recorded(WithSample(s, v), [drawn EXCEPT ![v] = @ + 1], LastInstant)
           /\ WithSample(s, v).count = s.count + 1
<1>1. s \in Stats /\ v \in Nat
  BY LastInstantAssumption DEF Recorded
<1>2. WithSample(s, v).count = s.count + 1
  BY <1>1, SampleFields
<1>3. Recorded(WithSample(s, v), [drawn EXCEPT ![v] = @ + 1], LastInstant)
  BY RecordedStep, LastInstantAssumption, Zenon
<1> QED
  BY <1>2, <1>3

LEMMA RunStatisticsInit == HogRunInit => RunStatistics
<1> SUFFICES ASSUME HogRunInit PROVE RunStatistics
  OBVIOUS
<1>1. /\ jitter = NewStats /\ insideJitter = NewStats /\ outsideJitter = NewStats
      /\ drawnInside = NoSamples /\ drawnOutside = NoSamples
      /\ stage = "asleep" /\ cycle = 0
  BY DEF HogRunInit, RunnerInit
<1>2. DrawnInAll = NoSamples
  BY <1>1 DEF DrawnInAll, NoSamples
<1>3. Recorded(NewStats, NoSamples, LastInstant)
  BY RecordedInit, LastInstantAssumption, Zenon DEF NoSamples
<1>4. jitter.count = 0
  BY <1>1 DEF NewStats
<1> QED
  BY <1>1, <1>2, <1>3, <1>4 DEF RunStatistics

LEMMA RunStatisticsStep ==
    /\ LastInstant <= U64Max
    /\ RunnerInductive /\ WindowInductive /\ RunShape /\ RunStatistics
    /\ [HogRunNext]_hogRunVars
    => RunStatistics'
<1> SUFFICES ASSUME LastInstant <= U64Max, RunnerInductive, WindowInductive, RunShape,
                    RunStatistics, [HogRunNext]_hogRunVars
             PROVE  RunStatistics'
  OBVIOUS
<1>1. /\ Recorded(jitter, DrawnInAll, LastInstant)
      /\ Recorded(insideJitter, drawnInside, LastInstant)
      /\ Recorded(outsideJitter, drawnOutside, LastInstant)
      /\ jitter.count = IF stage = "running" THEN cycle + 1 ELSE cycle
  BY Zenon DEF RunStatistics
<1>2. /\ drawnInside \in [0 .. LastInstant -> Nat] /\ drawnOutside \in [0 .. LastInstant -> Nat]
      /\ jitter \in Stats /\ cycle \in Nat
  BY <1>1, CyclesAssumption DEF Recorded, RunnerInductive, RunnerTypeOK
<1>3. ASSUME NEW t \in 0 .. LastInstant, HogWakeUp(t) PROVE RunStatistics'
  <2> DEFINE v == t - ScheduledUs
  <2>1. t >= ScheduledUs /\ stage = "asleep" /\ stage' = "running" /\ cycle' = cycle
    BY <1>3 DEF HogWakeUp, WakeUp
  <2>2. ScheduledUs \in Nat
    BY <1>2, PeriodAssumption, Products DEF ScheduledUs
  <2>3. v \in 0 .. LastInstant /\ v + ScheduledUs = t
    BY <2>1, <2>2, LastInstantAssumption
  <2>4. hogActive' <=> InWindow
    <3>1. WindowInductive'
      BY RunnerStepOfRun, WindowInductiveStep
    <3>2. hogActive' <=> InWindow'
      BY <2>1, <3>1, Zenon DEF WindowInductive
    <3>3. InWindow' <=> InWindow
      BY <2>1 DEF InWindow
    <3> QED
      BY <3>2, <3>3, Zenon
  <2>5. SkippedCount(t) \in Nat
    <3>1. Period(t) \in Nat /\ nextUnaccounted \in Nat
      <4>1. t \in Nat
        BY LastInstantAssumption
      <4>2. nextUnaccounted \in Nat
        BY CountersAreNatural, Zenon DEF RunnerInductive
      <4> QED
        BY <4>1, <4>2, PeriodType
    <3> QED
      BY <3>1 DEF SkippedCount
  <2>6. SplitJitter(v) /\ Drawn(v)
    BY <1>3 DEF HogWakeUp
  <2>7. jitter' = WithMisses(WithSample(jitter, v), SkippedCount(t))
    BY <2>3, <2>6, Zenon DEF SplitJitter
  <2> HIDE DEF v
  <2>8. /\ Recorded(WithSample(jitter, v), [DrawnInAll EXCEPT ![v] = @ + 1], LastInstant)
        /\ WithSample(jitter, v).count = jitter.count + 1
    BY <1>1, <2>3, SampleKeepsRecord, Zenon
  <2>9. /\ Recorded(jitter', [DrawnInAll EXCEPT ![v] = @ + 1], LastInstant)
        /\ jitter'.count = jitter.count + 1
    BY <2>5, <2>7, <2>8, MissesKeepCount, Zenon
  <2>10. jitter'.count = cycle' + 1
    BY <1>1, <2>1, <2>9
  <2>11. CASE InWindow
    <3>1. /\ insideJitter' = WithSample(insideJitter, v) /\ outsideJitter' = outsideJitter
          /\ drawnInside' = [drawnInside EXCEPT ![v] = @ + 1] /\ drawnOutside' = drawnOutside
      BY <2>4, <2>6, <2>11, Zenon DEF SplitJitter, Drawn
    <3>2. Recorded(insideJitter', drawnInside', LastInstant)
      BY <1>1, <2>3, <3>1, SampleKeepsRecord, Zenon
    <3>3. DrawnInAll' = [DrawnInAll EXCEPT ![v] = @ + 1]
      <4>1. \A w \in 0 .. LastInstant :
               drawnInside'[w] + drawnOutside'[w]
                 = IF w = v THEN drawnInside[w] + drawnOutside[w] + 1 ELSE drawnInside[w] + drawnOutside[w]
        BY <1>2, <3>1
      <4> QED
        BY <2>3, <4>1 DEF DrawnInAll
    <3> QED
      BY <1>1, <2>1, <2>9, <2>10, <3>1, <3>2, <3>3, Zenon DEF RunStatistics
  <2>12. CASE ~InWindow
    <3>1. /\ outsideJitter' = WithSample(outsideJitter, v) /\ insideJitter' = insideJitter
          /\ drawnOutside' = [drawnOutside EXCEPT ![v] = @ + 1] /\ drawnInside' = drawnInside
      BY <2>4, <2>6, <2>12, Zenon DEF SplitJitter, Drawn
    <3>2. Recorded(outsideJitter', drawnOutside', LastInstant)
      BY <1>1, <2>3, <3>1, SampleKeepsRecord, Zenon
    <3>3. DrawnInAll' = [DrawnInAll EXCEPT ![v] = @ + 1]
      <4>1. \A w \in 0 .. LastInstant :
               drawnInside'[w] + drawnOutside'[w]
                 = IF w = v THEN drawnInside[w] + drawnOutside[w] + 1 ELSE drawnInside[w] + drawnOutside[w]
        BY <1>2, <3>1
      <4> QED
        BY <2>3, <4>1 DEF DrawnInAll
    <3> QED
      BY <1>1, <2>1, <2>9, <2>10, <3>1, <3>2, <3>3, Zenon DEF RunStatistics
  <2> QED
    BY <2>11, <2>12
<1>4. ASSUME NEW t \in 0 .. LastInstant, HogEndCycle(t) PROVE RunStatistics'
  <2> DEFINE n == IF t > DeadlineUs THEN 1 ELSE 0
  <2>1. /\ jitter' = WithMisses(jitter, n) /\ n \in Nat
        /\ stage = "running" /\ stage' = "asleep" /\ cycle' = cycle + 1
        /\ UNCHANGED << insideJitter, outsideJitter, drawnInside, drawnOutside >>
    BY <1>4 DEF HogEndCycle, EndCycleAt
  <2>2. DrawnInAll' = DrawnInAll
    BY <2>1 DEF DrawnInAll
  <2> HIDE DEF n
  <2>3. Recorded(jitter', DrawnInAll, LastInstant) /\ jitter'.count = jitter.count
    BY <1>1, <2>1, MissesKeepCount, Zenon
  <2>4. jitter'.count = cycle'
    BY <1>1, <2>1, <2>3
  <2> QED
    BY <1>1, <2>1, <2>2, <2>3, <2>4 DEF RunStatistics
<1>5. CASE SpawnOne \/ BeginLoop \/ SwitchHog \/ StopHog \/ ReadOutcome \/ HogThreads
  <2>1. UNCHANGED << jitterVars, cycle, stage >>
    BY <1>5 DEF SpawnOne, BeginLoop, SwitchHog, StopHog, ReadOutcome, HogThreads, runnerVars
  <2> QED
    BY <1>1, <2>1 DEF jitterVars, RunStatistics, DrawnInAll
<1>6. CASE UNCHANGED hogRunVars
  BY <1>1, <1>6 DEF hogRunVars, jitterVars, runnerVars, RunStatistics, DrawnInAll
<1> QED
  BY <1>3, <1>4, <1>5, <1>6 DEF HogRunNext, LoopStep

LEMMA RunStatisticsAlways == LastInstant <= U64Max => (HogRunSpec => []RunStatistics)
<1> SUFFICES ASSUME LastInstant <= U64Max PROVE HogRunSpec => []RunStatistics
  OBVIOUS
<1>1. /\ RunnerInductive /\ WindowInductive /\ RunShape /\ RunStatistics
      /\ [HogRunNext]_hogRunVars
      => RunStatistics'
  BY RunStatisticsStep
<1> QED
  BY <1>1, RunStatisticsInit, RunShapeInvariant, RunIsPeriodic, WindowInvariant, PTL DEF HogRunSpec

\* With instants that fit a u64, every percentile the report prints, of the run
\* and of each side of the window, brackets the true one within a bucket, for
\* every width and number of buckets and every pattern of wake-ups; count,
\* extremes and mean are those of the samples (telemetry.rs:11-28).
THEOREM PercentilesAreHonest == LastInstant <= U64Max => (HogRunSpec => []PercentilesBracket)
<1>1. ASSUME RunStatistics PROVE PercentilesBracket
  <2>1. ASSUME NEW s, NEW drawn, Recorded(s, drawn, LastInstant)
        PROVE  /\ Summarises(s, drawn)
               /\ Size(drawn) > 0 =>
                     \A permille \in {0, 250, 334, 500, 501, 950, 990, 1000} :
                         Brackets(s, drawn, permille)
    <3>1. Summarises(s, drawn)
      BY <2>1, RecordedSummarises, LastInstantAssumption
    <3>2. ASSUME Size(drawn) > 0, NEW permille \in {0, 250, 334, 500, 501, 950, 990, 1000}
          PROVE  Brackets(s, drawn, permille)
      <4>1. permille \in Permilles
        BY DEF Permilles
      <4> QED
        BY <2>1, <3>2, <4>1, RecordedBrackets, LastInstantAssumption
    <3> QED
      BY <3>1, <3>2
  <2>2. ASSUME NEW p \in { << jitter, DrawnInAll >>, << insideJitter, drawnInside >>,
                           << outsideJitter, drawnOutside >> }
        PROVE  /\ Summarises(p[1], p[2])
               /\ Size(p[2]) > 0 =>
                     \A permille \in {0, 250, 334, 500, 501, 950, 990, 1000} :
                         Brackets(p[1], p[2], permille)
    <3>1. Recorded(p[1], p[2], LastInstant)
      BY <1>1 DEF RunStatistics
    <3> DEFINE s == p[1]
    <3> DEFINE drawn == p[2]
    <3>2. Recorded(s, drawn, LastInstant)
      BY <3>1
    <3> HIDE DEF s, drawn
    <3>3. /\ Summarises(s, drawn)
          /\ Size(drawn) > 0 =>
                \A permille \in {0, 250, 334, 500, 501, 950, 990, 1000} :
                    Brackets(s, drawn, permille)
      BY <2>1, <3>2
    <3> QED
      BY <3>3, Zenon DEF s, drawn
  <2> QED
    BY <2>2, Zenon DEF PercentilesBracket
<1> QED
  BY <1>1, RunStatisticsAlways, PTL

\* No missed deadline is allowed, the jitter bound lies below the overflow
\* bucket, and the run's instants fit a u64 (frozen.json, positive_gate).
GateThresholds ==
    missed_deadlines_max = 0 /\ p99_jitter_us_max < OVERFLOW_FLOOR_US /\ LastInstant <= U64Max

LEMMA PassBoundsJitter ==
    ASSUME NEW s, NEW drawn, Recorded(s, drawn, LastInstant),
           p99_jitter_us_max < OVERFLOW_FLOOR_US, P99(s) <= p99_jitter_us_max
    PROVE  AtMost(drawn, p99_jitter_us_max - 1) * 100 >= 99 * s.count
<1>1. /\ s.count \in Nat /\ s.count = Size(drawn) /\ DOMAIN drawn = 0 .. LastInstant
      /\ \A S \in SUBSET (0 .. LastInstant) :
            NatValued(drawn, S) /\ SumFunctionOnSet(drawn, S) \in Nat
  BY CountsOf, LastInstantAssumption
<1> DEFINE bound == p99_jitter_us_max - 1
<1> DEFINE A == {w \in DOMAIN drawn : w <= bound}
<1>2. AtMost(drawn, bound) = SumFunctionOnSet(drawn, A) /\ A \in SUBSET (0 .. LastInstant)
  BY <1>1 DEF AtMost
<1>3. CASE s.count = 0
  BY <1>1, <1>2, <1>3
<1>4. CASE s.count # 0
  <2> DEFINE v == TrueValue(drawn, 990)
  <2>1. Size(drawn) > 0 /\ 990 \in Permilles
    BY <1>1, <1>4 DEF Permilles
  <2>2. v \in Enough(drawn, 990) /\ v \in 0 .. LastInstant
    BY <2>1, FirstBucket, LastInstantAssumption
  <2>3. Brackets(s, drawn, 990)
    BY <2>1, RecordedBrackets, LastInstantAssumption
  <2>4. P99(s) = Percentile(s, 990) /\ OVERFLOW_FLOOR_US \in Nat /\ p99_jitter_us_max \in Nat
    BY BucketType, ManifestAssumption DEF P99
  <2>5. IF v >= OVERFLOW_FLOOR_US THEN P99(s) = OVERFLOW_FLOOR_US ELSE v < P99(s)
    BY <2>3, <2>4 DEF Brackets
  <2> HIDE DEF v
  <2>6. v < p99_jitter_us_max
    <3>1. ~ (v >= OVERFLOW_FLOOR_US)
      BY <2>4, <2>5
    <3>2. v < P99(s) /\ P99(s) \in Int
      <4>1. P99(s) \in Int
        BY <2>1, <2>4, FirstBucket, BucketType, BucketAssumption, LastInstantAssumption DEF Buckets
      <4> QED
        BY <2>5, <3>1, <4>1
    <3> QED
      BY <2>2, <2>4, <3>2
  <2> DEFINE V == {w \in DOMAIN drawn : w <= v}
  <2>7. V \in SUBSET A
    BY <1>1, <2>2, <2>4, <2>6
  <2>8. SumFunctionOnSet(drawn, V) <= SumFunctionOnSet(drawn, A)
        /\ SumFunctionOnSet(drawn, V) \in Nat /\ SumFunctionOnSet(drawn, A) \in Nat
    <3>1. NatValued(drawn, A)
      BY <1>1, <1>2
    <3>2. V \in SUBSET (0 .. LastInstant)
      BY <1>1
    <3> HIDE DEF V, A
    <3> QED
      BY <1>1, <1>2, <2>7, <3>1, <3>2, SumMonotone
  <2>9. SumFunctionOnSet(drawn, V) * 1000 >= 990 * Size(drawn)
    BY <2>2 DEF Enough, AtMost
  <2> HIDE DEF V, A, bound
  <2>10. AtMost(drawn, bound) * 100 >= 99 * s.count
    BY <1>1, <1>2, <2>8, <2>9
  <2> QED
    BY <2>10 DEF bound
<1> QED
  BY <1>3, <1>4

LEMMA FailShowsJitter ==
    ASSUME NEW s, NEW drawn, Recorded(s, drawn, LastInstant),
           p99_jitter_us_max < OVERFLOW_FLOOR_US, ~ (P99(s) <= p99_jitter_us_max)
    PROVE  \E v \in 0 .. LastInstant :
              drawn[v] > 0 /\ v + BUCKET_WIDTH_US > p99_jitter_us_max
<1>1. s.count \in Nat /\ s.count = Size(drawn) /\ DOMAIN drawn = 0 .. LastInstant
  BY CountsOf, LastInstantAssumption
<1>2. /\ P99(s) = Percentile(s, 990) /\ OVERFLOW_FLOOR_US \in Nat /\ p99_jitter_us_max \in Nat
      /\ BUCKET_WIDTH_US \in Nat /\ BUCKET_WIDTH_US > 0
  BY BucketType, BucketAssumption, ManifestAssumption DEF P99
<1>3. s.count # 0
  BY <1>2 DEF Percentile
<1>4. Size(drawn) > 0 /\ 990 \in Permilles
  BY <1>1, <1>3 DEF Permilles
<1> DEFINE v == TrueValue(drawn, 990)
<1>5. v \in Enough(drawn, 990) /\ v \in 0 .. LastInstant
  BY <1>4, FirstBucket, LastInstantAssumption
<1>6. Brackets(s, drawn, 990)
  BY <1>4, RecordedBrackets, LastInstantAssumption
<1>7. IF v >= OVERFLOW_FLOOR_US THEN P99(s) = OVERFLOW_FLOOR_US ELSE P99(s) - BUCKET_WIDTH_US <= v
  BY <1>2, <1>6 DEF Brackets
<1>8. P99(s) \in Int
  BY <1>2, <1>4, FirstBucket, BucketType, BucketAssumption, LastInstantAssumption DEF Buckets
<1> HIDE DEF v
<1>9. drawn[v] > 0 /\ v \in Int
  BY <1>5 DEF Enough
<1>10. v + BUCKET_WIDTH_US > p99_jitter_us_max
  BY <1>2, <1>7, <1>8, <1>9
<1> QED
  BY <1>5, <1>9, <1>10

\* With the frozen thresholds (no missed deadline, a jitter bound below the
\* overflow bucket), the gate is never optimistic: a run that passes had one
\* cycle per period, none late and 99 wake-ups in 100 below the bound, and a run
\* that fails has a miss or a wake-up within a bucket of the bound to show
\* (report.rs:558-593, frozen.json).
THEOREM GateIsNeverOptimistic == GateThresholds => (HogRunSpec => []GateNeverOptimistic)
<1> SUFFICES ASSUME GateThresholds PROVE HogRunSpec => []GateNeverOptimistic
  OBVIOUS
<1>1. missed_deadlines_max = 0 /\ p99_jitter_us_max < OVERFLOW_FLOOR_US /\ LastInstant <= U64Max
  BY DEF GateThresholds
<1>2. RunnerInductive /\ SideInductive /\ RunVerdict /\ RunStatistics => GateNeverOptimistic
  <2> SUFFICES ASSUME RunnerInductive, SideInductive, RunVerdict, RunStatistics, part = "done"
               PROVE  IF GatePass(HogOutcome)
                      THEN /\ started = 0 .. Cycles - 1
                           /\ overran = 0
                           /\ AtMost(DrawnInAll, p99_jitter_us_max - 1) * 100 >= 99 * Cycles
                      ELSE \/ skipped + overran > 0
                           \/ \E v \in 0 .. LastInstant :
                                  DrawnInAll[v] > 0 /\ v + BUCKET_WIDTH_US > p99_jitter_us_max
    BY Zenon DEF GateNeverOptimistic
  <2>1. Recorded(jitter, DrawnInAll, LastInstant) /\ jitter.count = Cycles
    BY DEF RunStatistics, RunVerdict
  <2>2. HogOutcome.jitter = jitter /\ HogOutcome.rejected = 0 /\ HogOutcome.safeState = {}
    BY DEF HogOutcome
  <2>3. skipped \in Nat /\ overran \in Nat /\ jitter.missed = skipped + overran
    BY CountersAreNatural, Zenon DEF RunnerInductive, RunVerdict
  <2>4. CASE GatePass(HogOutcome)
    <3>1. started = 0 .. Cycles - 1 /\ overran = 0
      BY <1>1, <2>4, PassMeansOnTime
    <3>2. P99(jitter) <= p99_jitter_us_max
      BY <2>2, <2>4, Zenon DEF GatePass
    <3>3. AtMost(DrawnInAll, p99_jitter_us_max - 1) * 100 >= 99 * Cycles
      BY <1>1, <2>1, <3>2, PassBoundsJitter
    <3> QED
      BY <2>4, <3>1, <3>3, Zenon
  <2>5. CASE ~ GatePass(HogOutcome)
    <3>1. ~ (jitter.missed <= 0) \/ ~ (P99(jitter) <= p99_jitter_us_max)
      BY <1>1, <2>2, <2>5, ManifestAssumption DEF GatePass
    <3>2. CASE ~ (jitter.missed <= 0)
      BY <2>3, <2>5, <3>2
    <3>3. CASE ~ (P99(jitter) <= p99_jitter_us_max)
      <4>1. \E v \in 0 .. LastInstant :
               DrawnInAll[v] > 0 /\ v + BUCKET_WIDTH_US > p99_jitter_us_max
        BY <1>1, <2>1, <3>3, FailShowsJitter
      <4> QED
        BY <2>5, <4>1, Zenon
    <3> QED
      BY <3>1, <3>2, <3>3
  <2> QED
    BY <2>4, <2>5
<1> QED
  BY <1>1, <1>2, RunVerdictAlways, RunStatisticsAlways, PTL
=============================================================================
