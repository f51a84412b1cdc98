---------------------------- MODULE PeriodicRunner ----------------------------
(***************************************************************************)
(* host/src/runner.rs: the timing of the periodic loop.  Cycle k is due at *)
(* k * PeriodUs; it starts when the sleep returns (never early, as late as *)
(* the scheduler likes), and ends when receive, step and send are through. *)
(* The ledger counts the periods nobody started in; late and overrunning   *)
(* cycles, and the window in which the CPU hog is active, are accounted as *)
(* the code does.                                                          *)
(***************************************************************************)
EXTENDS Integers, FiniteSets

CONSTANTS
    PeriodUs,              \* cfg.period_us
    Cycles,                \* cfg.cycles
    StartCycle, EndCycle,  \* the hog window; both equal to Cycles for no hog
    LastInstant            \* bound: the latest instant of a wake-up or an end

ASSUME PeriodAssumption == PeriodUs \in Nat /\ PeriodUs > 0
ASSUME CyclesAssumption == Cycles \in Nat
ASSUME WindowAssumption ==
    StartCycle \in Nat /\ EndCycle \in Nat /\ StartCycle <= EndCycle
ASSUME LastInstantAssumption == LastInstant \in Nat

VARIABLES
    stage,             \* "asleep" before a cycle, "running" inside it
    cycle,
    clock,             \* the monotonic clock, microseconds since the origin
    startUs,           \* the local start_us of the current cycle
    nextUnaccounted,   \* PeriodLedger::next_unaccounted
    skipped,           \* misses of kind SkippedPeriod so far
    overran,           \* misses of kind WorkOverran so far
    missesInside, missesOutside,
    samples,           \* jitter samples recorded
    hogActive,         \* the spinners run
    started,           \* history: the periods in which a cycle started
    skippedSet,        \* history: the periods counted as skipped
    overranSet         \* history: the cycles counted as ended late

runnerHistory == << started, skippedSet, overranSet >>
runnerVars == << stage, cycle, clock, startUs, nextUnaccounted, skipped,
                 overran, missesInside, missesOutside, samples, hogActive,
                 runnerHistory >>

RunnerTypeOK ==
    /\ stage \in {"asleep", "running"}
    /\ cycle \in 0 .. Cycles
    /\ clock \in Nat
    /\ startUs \in Nat
    /\ nextUnaccounted \in Nat
    /\ skipped \in Nat
    /\ overran \in Nat
    /\ missesInside \in Nat
    /\ missesOutside \in Nat
    /\ samples \in Nat
    /\ hogActive \in BOOLEAN
    /\ started \in SUBSET Nat
    /\ skippedSet \in SUBSET Nat
    /\ overranSet \in SUBSET Nat

RunnerInit ==
    /\ stage = "asleep"
    /\ cycle = 0
    /\ clock = 0
    /\ startUs = 0
    /\ nextUnaccounted = 0
    /\ skipped = 0
    /\ overran = 0
    /\ missesInside = 0
    /\ missesOutside = 0
    /\ samples = 0
    /\ hogActive = FALSE
    /\ started = {}
    /\ skippedSet = {}
    /\ overranSet = {}

-----------------------------------------------------------------------------
ScheduledUs == cycle * PeriodUs
DeadlineUs == ScheduledUs + PeriodUs
Period(t) == t \div PeriodUs
\* Mutant: one cycle late.
InWindowLate == StartCycle < cycle /\ cycle <= EndCycle
InWindow == StartCycle <= cycle /\ cycle < EndCycle

\* Mutant: the period being started is counted too.
SkippedAtInclusive(t) == nextUnaccounted .. Period(t)

\* PeriodLedger::account_cycle_start: the periods from the first unaccounted
\* one to the one before the current.
SkippedAt(t) == nextUnaccounted .. Period(t) - 1
\* Mutant: the naive count, per late cycle, of the periods it is late by.
SkippedCountNaive(t) == (t - ScheduledUs) \div PeriodUs
SkippedCount(t) ==
    IF Period(t) > nextUnaccounted THEN Period(t) - nextUnaccounted ELSE 0

\* Mutant: the ledger stands at the current period, which is counted later.
StandingAt(t) == Period(t)
\* Where account_cycle_start leaves the ledger: the current period runs, late
\* or not.
Standing(t) == Period(t) + 1

\* n more misses, attributed to the side of the window this cycle is on.
CountMisses(n) ==
    IF InWindow
    THEN missesInside' = missesInside + n /\ UNCHANGED missesOutside
    ELSE missesOutside' = missesOutside + n /\ UNCHANGED missesInside

\* The hog is switched at the first and at the last boundary of the window,
\* before the cycle sleeps.
HogSwitched ==
    CASE cycle = EndCycle   -> FALSE
      [] cycle = StartCycle /\ cycle # EndCycle -> TRUE
      [] OTHER              -> hogActive

\* The sleep of a cycle returns at t: jitter, ledger, skipped periods.
WakeUp(t) ==
    /\ stage = "asleep"
    /\ cycle < Cycles
    /\ t >= clock
    /\ t >= ScheduledUs
    /\ stage' = "running"
    /\ clock' = t
    /\ startUs' = t
    /\ hogActive' = HogSwitched
    /\ samples' = samples + 1
    /\ nextUnaccounted' = Standing(t)
    /\ skipped' = skipped + SkippedCount(t)
    /\ CountMisses(SkippedCount(t))
    /\ started' = started \cup {Period(t)}
    /\ skippedSet' = skippedSet \cup SkippedAt(t)
    /\ UNCHANGED << cycle, overran, overranSet >>

\* The cycle has received, stepped and sent at t; late work is a miss.
EndCycleAt(t) ==
    /\ stage = "running"
    /\ t >= clock
    /\ stage' = "asleep"
    /\ clock' = t
    /\ cycle' = cycle + 1
    /\ overran' = overran + (IF t > DeadlineUs THEN 1 ELSE 0)
    /\ overranSet' = overranSet \cup (IF t > DeadlineUs THEN {cycle} ELSE {})
    /\ CountMisses(IF t > DeadlineUs THEN 1 ELSE 0)
    /\ UNCHANGED << startUs, nextUnaccounted, skipped, samples, hogActive,
                    started, skippedSet >>

RunnerNext ==
    \E t \in 0 .. LastInstant : WakeUp(t) \/ EndCycleAt(t)

RunnerSpec == RunnerInit /\ [][RunnerNext]_runnerVars

-----------------------------------------------------------------------------
(* Properties.                                                             *)

\* Every period up to the latest start is either one in which a cycle started
\* or one counted as skipped, exactly once, however the loop catches up after
\* a stall (runner.rs:110-118).
EachPeriodOnce == skipped + Cardinality(started) = nextUnaccounted

\* A period counted as skipped is one in which no cycle ever started: catching
\* up later never falls into a counted period (runner.rs:559-563).
SkippedNeverStarted == skippedSet \cap started = {}

\* Every miss is on exactly one side of the hog window (runner.rs:545-577).
MissesAttributed == missesInside + missesOutside = skipped + overran

\* A cycle measured as inside the window had the spinners running when it
\* started, one measured outside had not (runner.rs:545-552).
WindowMatchesHog == stage = "running" => (hogActive <=> InWindow)

\* The cycles of the window; the periods of the window have the same numbers.
Window == StartCycle .. EndCycle - 1

\* If no cycle before the window ended late, every cycle of the window that does
\* and every period of it nobody starts in is counted inside, however late the
\* loop finds it out.  A stall that begins before the window and reaches into it
\* is found by a cycle before it and counted outside (runner.rs:545-570,
\* 608-614, report.rs:648-651).
WindowPeriodsCountInside ==
    stage = "asleep" /\ (\A c \in overranSet : c >= StartCycle) =>
        Cardinality(skippedSet \cap Window) + Cardinality(overranSet \cap Window)
            <= missesInside

\* The strengthening the theorems rest on: the ledger stands one past the
\* period of the latest start, and everything before it is accounted.
RunnerInductive ==
    /\ RunnerTypeOK
    /\ stage = "running" => cycle < Cycles
    /\ startUs <= clock
    /\ nextUnaccounted > 0 => /\ nextUnaccounted = Period(startUs) + 1
                              /\ Period(startUs) \in started
    /\ started \subseteq 0 .. nextUnaccounted - 1
    /\ skippedSet \subseteq 0 .. nextUnaccounted - 1
    /\ SkippedNeverStarted
    /\ EachPeriodOnce
    /\ MissesAttributed
=============================================================================
