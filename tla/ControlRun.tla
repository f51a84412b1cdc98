------------------------------ MODULE ControlRun ------------------------------
(***************************************************************************)
(* host/src/runner.rs, run(): the periodic loop driving the control node   *)
(* over the simulated bus.  A cycle wakes up, receives its frames, steps   *)
(* the node on them at the instant it woke up, sends the command, keeps    *)
(* the first trip, and ends.                                               *)
(***************************************************************************)
EXTENDS ControlNode, PeriodicRunner, SimBus, CompletionGate

CONSTANTS
    MaxLate,        \* bound: how long after its due instant a cycle may still
                    \* run; 0 is Mode::Virtual, where every instant is on schedule
    MayFreeze       \* whether the schedule may freeze the sensor

ASSUME MaxLateAssumption == MaxLate \in Nat
ASSUME MayFreezeAssumption == MayFreeze \in BOOLEAN
\* The node takes every frame of the bus and every instant of the clock.
ASSUME EnvironmentAssumption == BusFrames \subseteq Frames /\ 0 .. LastInstant \subseteq Instants

VARIABLES
    work,         \* inside a cycle: "receive", then "step", then "done"
    inbox,        \* frames of this cycle the node's loop has not taken yet
    tripCycle,    \* Option<u64>
    safeState,    \* Option<SafeState> of the first trip
    actuatorZeroSinceTrip,
    jitter,
    quiet,        \* history: cycles in a row without an accepted frame
    lastJitter,   \* history: wake jitter of the previous cycle
    frozeAt       \* history: the cycle at which the sensor stopped

recordVars == << tripCycle, safeState, actuatorZeroSinceTrip >>
clockVars == << runnerVars, jitter >>
runVars == << vars, clockVars, busVars, work, inbox, recordVars, quiet, lastJitter, frozeAt >>

RunInit ==
    /\ Init /\ now = 0
    /\ RunnerInit
    /\ BusInit
    /\ work = "done"
    /\ inbox = << >>
    /\ tripCycle = {}
    /\ safeState = {}
    /\ actuatorZeroSinceTrip = TRUE
    /\ quiet = 0
    /\ lastJitter = 0
    /\ jitter = NewStats
    /\ frozeAt = {}

-----------------------------------------------------------------------------
JitterUs == startUs - ScheduledUs

Sleep(t) ==
    /\ WakeUp(t)
    /\ t <= ScheduledUs + MaxLate
    /\ work' = "receive"
    /\ jitter' = WithMisses(WithSample(jitter, t - ScheduledUs), SkippedCount(t))
    /\ UNCHANGED << vars, busVars, inbox, recordVars, quiet, lastJitter, frozeAt >>

\* recv_until, then into step at start_us: the wake-up instant, not the
\* instant the frames were received.
Receive(F, v, freeze) ==
    /\ stage = "running" /\ work = "receive"
    /\ freeze => MayFreeze
    /\ RecvUntil(F, freeze)
    /\ inbox' = Delivered(F, v, freeze)
    /\ StepBegin(startUs)
    /\ work' = "step"
    /\ quiet' = quiet + 1
    /\ frozeAt' = (IF freeze /\ ~frozen THEN {cycle} ELSE frozeAt)
    /\ UNCHANGED << clockVars, recordVars, lastJitter >>

TakeFrame ==
    /\ work = "step" /\ inbox # << >>
    /\ inbox' = Tail(inbox)
    /\ \/ IngestAccept(Head(inbox)) /\ quiet' = 0
       \/ (\E r \in Reject : IngestReject(Head(inbox), r)) /\ UNCHANGED quiet
    /\ UNCHANGED << clockVars, busVars, work, recordVars, lastJitter, frozeAt >>

\* Mutant: the latch is read before the step instead of after it.
RecordEarly ==
    LET out == CHOOSE o \in output' : TRUE
        trips == latched # {} /\ tripCycle = {}
    IN  /\ tripCycle' = (IF trips THEN {cycle} ELSE tripCycle)
        /\ safeState' = (IF trips THEN latched ELSE safeState)
        /\ actuatorZeroSinceTrip' =
             (actuatorZeroSinceTrip /\ (tripCycle' # {} => out.actuator = 0))

\* Everything run() records of the step it just made.
Record ==
    LET out == CHOOSE o \in output' : TRUE
        trips == latched' # {} /\ tripCycle = {}
    IN  /\ tripCycle' = (IF trips THEN {cycle} ELSE tripCycle)
        /\ safeState' = (IF trips THEN latched' ELSE safeState)
        /\ actuatorZeroSinceTrip' =
             (actuatorZeroSinceTrip /\ (tripCycle' # {} => out.actuator = 0))

StepAndSend ==
    /\ work = "step" /\ inbox = << >>
    /\ CommandSafe \/ CommandControl
    /\ Send
    /\ Record
    /\ work' = "done"
    /\ UNCHANGED << clockVars, inbox, quiet, lastJitter, frozeAt >>

\* Mutant: the sequence position is forgotten at the end of each cycle.
EndOfCycleResync(t) ==
    /\ work = "done"
    /\ t <= ScheduledUs + MaxLate
    /\ EndCycleAt(t)
    /\ ResetSequence
    /\ lastJitter' = JitterUs
    /\ UNCHANGED << watchdogVars, lawVars, phase, now, batch, fresh, txSeq, output,
                    historyVars, busVars, work, inbox, recordVars, quiet, jitter, frozeAt >>

EndOfCycle(t) ==
    /\ work = "done"
    /\ t <= ScheduledUs + MaxLate
    /\ EndCycleAt(t)
    /\ jitter' = WithMisses(jitter, IF t > DeadlineUs THEN 1 ELSE 0)
    /\ lastJitter' = JitterUs
    /\ UNCHANGED << vars, busVars, work, inbox, recordVars, quiet, frozeAt >>

RunNext ==
    \/ \E t \in 0 .. LastInstant : Sleep(t) \/ EndOfCycle(t)
    \/ \E F \in FaultMenu, v \in SensorValues, freeze \in BOOLEAN : Receive(F, v, freeze)
    \/ TakeFrame
    \/ StepAndSend

RunSpec == RunInit /\ [][RunNext]_runVars

-----------------------------------------------------------------------------
(* Properties.                                                             *)

\* What the loop does with the node is what ControlNode allows a caller to do
\* (one step at a time, never an earlier instant): its theorems hold of the
\* whole run (runner.rs:580-584).
NodeBehaviour == Spec

\* No legitimate frame is ever refused and each injected fault is refused
\* once, under its own reason, with no cascade into the next cycle
\* (bus.rs:236-240, report.rs:723-735).
ExactHistogram ==
    phase = "idle" =>
        /\ accepted = emitted
        /\ \A r \in Reject : byReason[r] = IF r \in DOMAIN injected THEN injected[r] ELSE 0

\* Once a run has tripped no command moves the actuator until it ends, and
\* the trip it reports is the one the node latched (runner.rs:588-597).
TripReported ==
    /\ actuatorZeroSinceTrip
    /\ phase = "idle" => safeState = latched /\ (tripCycle = {} <=> latched = {})

\* "cannot exceed one period plus the difference between two wake-jitter
\* samples" (watchdog.rs:55-61).
OvershootWithinPeriodAndJitter ==
    [][\A s \in latched' \ latched :
          OvershootPastBudget(s) <=
            JitterUs + (IF cycle = 0 THEN 0 ELSE PeriodUs - lastJitter)]_runVars

\* A sensor that stays silent trips the node within the cycles the budget
\* spans plus the lateness of one wake-up; before, it never trips
\* (node.rs:26-36).
SilenceTrips ==
    /\ work = "done" /\ quiet * PeriodUs > TimeoutUs + MaxLate + PeriodUs => latched # {}
    /\ \A s \in latched : s.tripped_at_us - s.last_seen_us <= TimeoutUs + PeriodUs + MaxLate

\* A trip means silence: with fewer silent cycles than the budget spans the
\* positive gate's "watchdog did not trip" holds (report.rs:562-593).
NoFalseTrip ==
    [][latched' # latched => quiet * PeriodUs + MaxLate > TimeoutUs]_runVars

\* What run() returns, as the gate and the controls read it.
Finished == cycle = Cycles
RunOutcome ==
    [jitter |-> jitter, accepted |-> accepted, rejected |-> rejected, byReason |-> byReason,
     safeState |-> safeState, tripCycle |-> tripCycle,
     actuatorZeroSinceTrip |-> actuatorZeroSinceTrip]

\* What a manifest expects of the schedule this run was given.
Expected ==
    [rejected |-> SumFunction(injected), accepted |-> emitted,
     byReason |-> [r \in Reject |-> IF r \in DOMAIN injected THEN injected[r] ELSE 0]]

\* On schedule, the can-corrupt control is caught for every schedule that
\* injects a frame, and a schedule that injects none, and keeps the sensor
\* alive, passes the positive gate (report.rs:695-747, bus.rs:54-75).
CorruptCaught ==
    Finished =>
        IF Expected.rejected > 0
        THEN Verdict("can-corrupt", RunOutcome, Expected)
        ELSE Verdict("positive", RunOutcome, Expected) <=> latched = {}

\* The sensor-freeze control is caught, with wake-ups as late as the margin of
\* the bound allows, if the run goes on long enough after the freeze and the
\* sensor was not silent long enough before it; and caught means that the run
\* ends latched in the trip it reports, with the safe value commanded
\* (report.rs:769-836, frozen.json sensor-freeze).
FreezeCaught ==
    Finished =>
        \A f \in frozeAt :
            LET caught == Verdict("sensor-freeze", RunOutcome, [freeze_at_cycle |-> f])
            IN  /\ (Cycles - f) * PeriodUs > TimeoutUs + MaxLate + PeriodUs =>
                      caught \/ \E t \in tripCycle : t <= f
                /\ caught => /\ latched = safeState /\ latched # {}
                             /\ \A o \in output : o.actuator = SafeActuator
=============================================================================
