-------------------------------- MODULE HogRun --------------------------------
(***************************************************************************)
(* host/src/runner.rs, run() with a hog window: the spinners are created   *)
(* before the clock's origin, switched at the two boundaries of the window *)
(* and joined after the loop; wake jitter is recorded for the run and for  *)
(* each side of the window; the outcome is what the gate and the control   *)
(* are evaluated on.  Node and bus are ControlRun's part: here they only   *)
(* take time.                                                              *)
(***************************************************************************)
EXTENDS PeriodicRunner, CpuHog, CompletionGate, Sequences

CONSTANT Configurations   \* the clocks and numbers of spinners to run with

ASSUME ConfigurationsAssumption ==
    Configurations \subseteq [mode : {"RealTime", "Virtual"}, threads : 1 .. Threads]

VARIABLES
    config,                       \* RunConfig::mode and HogWindow::threads
    part,                         \* of run(): "spawn", "loop", "stop", "done"
    pending,                      \* set calls this boundary has still to make
    jitter, insideJitter, outsideJitter,
    drawnInside, drawnOutside     \* history: the samples themselves

jitterVars == << jitter, insideJitter, outsideJitter, drawnInside, drawnOutside >>
hogRunVars == << runnerVars, hogVars, config, part, pending, jitterVars >>

NoSamples == [v \in 0 .. LastInstant |-> 0]

HogRunInit ==
    /\ RunnerInit
    /\ HogInit
    /\ config \in Configurations
    /\ part = "spawn"
    /\ pending = << >>
    /\ jitter = NewStats /\ insideJitter = NewStats /\ outsideJitter = NewStats
    /\ drawnInside = NoSamples /\ drawnOutside = NoSamples

-----------------------------------------------------------------------------
\* Mutant: the hog is switched off one cycle late.
SwitchesLate(c) ==
    CASE c < Cycles /\ c = StartCycle   -> << "ACTIVE" >>
      [] c < Cycles /\ c = EndCycle + 1 -> << "IDLE" >>
      [] OTHER                          -> << >>

\* The boundary of cycle c, if the loop gets there; a window may be empty.
Switches(c) ==
    CASE c < Cycles /\ c = StartCycle /\ c = EndCycle -> << "ACTIVE", "IDLE" >>
      [] c < Cycles /\ c = StartCycle /\ c # EndCycle -> << "ACTIVE" >>
      [] c < Cycles /\ c # StartCycle /\ c = EndCycle -> << "IDLE" >>
      [] OTHER                                        -> << >>

SpawnOne ==
    /\ part = "spawn"
    /\ \E i \in 1 .. config.threads : Spawn(i)
    /\ UNCHANGED << runnerVars, config, part, pending, jitterVars >>

\* The clock's origin is taken, and the loop is at its first boundary.
BeginLoop ==
    /\ part = "spawn"
    /\ handles = 1 .. config.threads
    /\ part' = "loop"
    /\ pending' = Switches(0)
    /\ UNCHANGED << runnerVars, hogVars, config, jitterVars >>

SwitchHog ==
    /\ part = "loop" /\ pending # << >>
    /\ Set(Head(pending))
    /\ pending' = Tail(pending)
    /\ UNCHANGED << runnerVars, config, part, jitterVars >>

\* jitter_us = v goes to the run's histogram and to that of its side.
SplitJitter(v) ==
    /\ jitter' = WithMisses(WithSample(jitter, v), SkippedCount(v + ScheduledUs))
    /\ IF InWindow
       THEN insideJitter' = WithSample(insideJitter, v) /\ UNCHANGED outsideJitter
       ELSE outsideJitter' = WithSample(outsideJitter, v) /\ UNCHANGED insideJitter

\* History: the same samples, kept on the side the cycle is on.
Drawn(v) ==
    IF hogActive'
    THEN drawnInside' = [drawnInside EXCEPT ![v] = @ + 1] /\ UNCHANGED drawnOutside
    ELSE drawnOutside' = [drawnOutside EXCEPT ![v] = @ + 1] /\ UNCHANGED drawnInside

\* Virtual time is exactly on schedule, at both ends of a cycle.
OnClock(t) == config.mode = "Virtual" => t = ScheduledUs

HogWakeUp(t) ==
    /\ OnClock(t)
    /\ part = "loop" /\ pending = << >> /\ calling = "none"
    /\ WakeUp(t)
    /\ SplitJitter(t - ScheduledUs)
    /\ Drawn(t - ScheduledUs)
    /\ UNCHANGED << hogVars, config, part, pending >>

HogEndCycle(t) ==
    /\ OnClock(t)
    /\ part = "loop"
    /\ EndCycleAt(t)
    /\ jitter' = WithMisses(jitter, IF t > DeadlineUs THEN 1 ELSE 0)
    /\ pending' = Switches(cycle')
    /\ UNCHANGED << hogVars, config, part, insideJitter, outsideJitter, drawnInside, drawnOutside >>

\* After the last cycle, outside the timed path.
StopHog ==
    /\ part = "loop" /\ cycle = Cycles /\ stage = "asleep"
    /\ Stop
    /\ part' = "stop"
    /\ UNCHANGED << runnerVars, config, pending, jitterVars >>

ReadOutcome ==
    /\ part = "stop" /\ calling = "none"
    /\ part' = "done"
    /\ UNCHANGED << runnerVars, hogVars, config, pending, jitterVars >>

HogThreads ==
    /\ CallStep \/ \E i \in Spinners : SpinnerStep(i)
    /\ UNCHANGED << runnerVars, config, part, pending, jitterVars >>

LoopStep ==
    \/ SpawnOne
    \/ BeginLoop
    \/ SwitchHog
    \/ \E t \in 0 .. LastInstant : HogWakeUp(t) \/ HogEndCycle(t)
    \/ StopHog
    \/ ReadOutcome

HogRunNext == LoopStep \/ HogThreads

HogRunSpec ==
    HogRunInit /\ [][HogRunNext]_hogRunVars /\ WF_hogRunVars(LoopStep) /\ HogFairness

-----------------------------------------------------------------------------
(* Properties.                                                             *)

\* What run() returns for the gate and for the control.
HogOutcome ==
    [jitter |-> jitter, rejected |-> 0, safeState |-> {},
     missesInside |-> missesInside, missesOutside |-> missesOutside]

DrawnInAll == [v \in 0 .. LastInstant |-> drawnInside[v] + drawnOutside[v]]

\* A cycle measured as inside the window started with the spinners told to
\* run, one measured outside with them told not to: the call of set was through
\* before the cycle slept (runner.rs:545-552, hog.rs:217-226).
WindowIsContended ==
    stage = "running" => (hogActive <=> InWindow) /\ (word = "ACTIVE" <=> InWindow)

\* Every percentile reported, of the run and of each side of the window,
\* brackets the sample it stands for (telemetry.rs:11-28, runner.rs:546-557).
PercentilesBracket ==
    stage = "running" => \A p \in { << jitter, DrawnInAll >>, << insideJitter, drawnInside >>,
               << outsideJitter, drawnOutside >> } :
        /\ Summarises(p[1], p[2])
        /\ Size(p[2]) > 0 =>
              \A permille \in {0, 250, 334, 500, 501, 950, 990, 1000} :
                  Brackets(p[1], p[2], permille)

\* "never optimistic": a run whose gate passes started one cycle in each of its
\* periods, finished none late, and at most one wake-up in a hundred was later
\* than the bound; a run that fails it missed a deadline, or had a wake-up
\* within a bucket of the bound or later (report.rs:558-593, frozen.json).
GateNeverOptimistic ==
    part = "done" =>
        IF GatePass(HogOutcome)
        THEN /\ started = 0 .. Cycles - 1
             /\ overran = 0
             /\ AtMost(DrawnInAll, p99_jitter_us_max - 1) * 100 >= 99 * Cycles
        ELSE \/ skipped + overran > 0
             \/ \E v \in 0 .. LastInstant :
                    DrawnInAll[v] > 0 /\ v + BUCKET_WIDTH_US > p99_jitter_us_max

\* Where a run was late: the cycles that ended late, and the periods nobody
\* started in.
Late == overranSet \cup skippedSet

\* A run that was late in the window only, stalls and the cycles catching up
\* after them included, is caught and attributed to the contention; one that was
\* never late in the window is not attributed to it, whatever happened before
\* and after (report.rs:595-625, 661-688).
ContentionIsNamed ==
    part = "done" =>
        /\ Late # {} /\ Late \subseteq Window =>
               Verdict("cpu-hog", HogOutcome, {}) /\ Attributable(HogOutcome)
        /\ Late \cap Window = {} => ~ Attributable(HogOutcome)

\* "misses attributable to the hog land inside its window": a period that was
\* over while the spinners still ran is not counted outside.  The code counts
\* it on the side of the cycle that discovers it (report.rs:648-652,
\* runner.rs:565-570).
ContendedPeriodsInside ==
    [][\A p \in skippedSet' \ skippedSet :
          hogActive /\ (p + 1) * PeriodUs <= clock => InWindow]_hogRunVars

\* run() returns: the loop ends, stop wakes and joins every spinner
\* (runner.rs:625-642, hog.rs:238-246).
RunReturns == <>(part = "done" /\ handles = {})
=============================================================================
