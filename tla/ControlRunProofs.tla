--------------------------- MODULE ControlRunProofs ---------------------------
(***************************************************************************)
(* The run as a whole: its loop and its node behave as their own modules   *)
(* allow, so what is proved of those holds of every run; the bounds on     *)
(* silence, trip and overshoot hold for every period, budget and lateness; *)
(* and the histogram of refusals is exact for every schedule of faults.    *)
(***************************************************************************)
EXTENDS ControlRun, ControlNodeProofs, PeriodicRunnerProofs, SequenceTheorems

\* Where the run is, and what it hands to the node.
RunShape ==
    /\ stage \in {"asleep", "running"}
    /\ work \in {"receive", "step", "done"}
    /\ stage = "asleep" => work = "done"
    /\ phase = IF work = "step" THEN "ingest" ELSE "idle"
    /\ cycle \in Nat /\ startUs \in 0 .. LastInstant
    /\ busSeq \in Seqs
    /\ inbox \in Seq(BusFrames)

\* Cycles whose frames have been received.
Received == IF stage = "running" /\ work # "receive" THEN cycle + 1 ELSE cycle

\* When the run last checked the node, and when it last trusted the sensor.
RunTiming ==
    /\ quiet \in Nat /\ lastJitter \in Nat
    /\ stage = "running" => ScheduledUs <= startUs /\ startUs <= ScheduledUs + MaxLate
    /\ work = "step" => now = startUs
    /\ checkedAt = IF stage = "running" /\ work = "done" THEN startUs
                   ELSE IF cycle = 0 THEN 0 ELSE (cycle - 1) * PeriodUs + lastJitter
    /\ trustedAt <= (Received - quiet) * PeriodUs + MaxLate
    /\ trustedAt + PeriodUs >= (Received - quiet) * PeriodUs

\* What the run keeps of a trip, and how long the silence before it was.
RunTrip ==
    /\ actuatorZeroSinceTrip
    /\ safeState = latched
    /\ tripCycle = {} <=> latched = {}
    /\ \A s \in latched : s.tripped_at_us - s.last_seen_us <= TimeoutUs + PeriodUs + MaxLate

-----------------------------------------------------------------------------
(* What the bus delivers.                                                  *)

LEMMA ExtraIsBusFrame ==
    ASSUME NEW s \in Seqs, NEW v \in SensorValues,
           NEW k \in {"BadCrc", "Duplicate", "OutOfOrder", "OutOfRange", "BadLength"}
    PROVE  Extra(s, k, v) \in BusFrames
<1>1. \A n \in Nat : Ahead(s, n) \in Seqs
  BY SeqModAssumption DEF Ahead, Seqs
<1>2. Ahead(s, 1) \in Seqs /\ Ahead(s, SkipAhead) \in Seqs
  BY <1>1, SkipAheadAssumption, SeqModAssumption
<1>3. CASE k = "BadCrc" \/ k = "BadLength"
  BY <1>2, <1>3 DEF Extra, SensorFrame, BusFrames
<1>4. CASE k \in {"Duplicate", "OutOfOrder", "OutOfRange"}
  BY <1>2, <1>4 DEF Extra, SensorFrame, BusFrames
<1> QED
  BY <1>3, <1>4

LEMMA PushedType ==
    ASSUME NEW s \in Seqs, NEW F, NEW v \in SensorValues,
           NEW k \in {"BadCrc", "Duplicate", "OutOfOrder", "OutOfRange", "BadLength"}
    PROVE  Pushed(k, s, F, v) \in Seq(BusFrames)
  BY ExtraIsBusFrame DEF Pushed

LEMMA ExtrasType ==
    ASSUME NEW s \in Seqs, NEW F, NEW v \in SensorValues
    PROVE  Extras(s, F, v) \in Seq(BusFrames)
<1>1. \A k \in {"BadCrc", "Duplicate", "OutOfOrder", "OutOfRange", "BadLength"} :
         Pushed(k, s, F, v) \in Seq(BusFrames)
  BY PushedType
<1>2. \A a, b \in Seq(BusFrames) : a \o b \in Seq(BusFrames)
  BY ConcatProperties
<1> QED
  BY <1>1, <1>2, Zenon DEF Extras

LEMMA DeliveredAreBusFrames ==
    ASSUME busSeq \in Seqs, NEW F, NEW v \in SensorValues, NEW freeze \in BOOLEAN
    PROVE  Delivered(F, v, freeze) \in Seq(BusFrames)
<1>2. \A s, t \in Seq(BusFrames) : s \o t \in Seq(BusFrames)
  BY ConcatProperties
<1>3. Extras(busSeq, F, v) \in Seq(BusFrames)
  BY ExtrasType
<1>4. << SensorFrame(busSeq, v) >> \in Seq(BusFrames)
  BY DEF SensorFrame, BusFrames
<1>5. FramesOf(F, v) \in Seq(BusFrames) /\ << >> \in Seq(BusFrames)
  BY <1>2, <1>3, <1>4 DEF FramesOf
<1> QED
  BY <1>5 DEF Delivered

-----------------------------------------------------------------------------
(* The shape of a run.                                                     *)

LEMMA RunShapeInit == RunInit => RunShape
  BY SeqModAssumption, LastInstantAssumption
  DEF RunInit, Init, RunnerInit, BusInit, RunShape, Seqs

LEMMA RunShapeNext == RunShape /\ [RunNext]_runVars => RunShape'
<1> SUFFICES ASSUME RunShape, [RunNext]_runVars
             PROVE  RunShape'
  OBVIOUS
<1>1. ASSUME NEW t \in 0 .. LastInstant, Sleep(t)
      PROVE  RunShape'
  BY <1>1 DEF Sleep, WakeUp, RunShape, vars, busVars
<1>2. ASSUME NEW t \in 0 .. LastInstant, EndOfCycle(t)
      PROVE  RunShape'
  BY <1>2 DEF EndOfCycle, EndCycleAt, RunShape, vars, busVars
<1>3. ASSUME NEW F \in FaultMenu, NEW v \in SensorValues, NEW freeze \in BOOLEAN, Receive(F, v, freeze)
      PROVE  RunShape'
  <2>1. inbox' \in Seq(BusFrames)
    BY <1>3, DeliveredAreBusFrames DEF Receive, RunShape
  <2>2. busSeq' \in Seqs
    BY <1>3, SeqSuccType DEF Receive, RecvUntil, RunShape
  <2> QED
    BY <1>3, <2>1, <2>2 DEF Receive, StepBegin, RunShape, clockVars, runnerVars
<1>4. CASE TakeFrame
  <2>1. UNCHANGED << stage, work, cycle, startUs, busSeq, phase >>
    BY <1>4 DEF TakeFrame, IngestAccept, IngestReject, clockVars, runnerVars, busVars
  <2>2. inbox' \in Seq(BusFrames)
    BY <1>4 DEF TakeFrame, RunShape
  <2> QED
    BY <2>1, <2>2 DEF RunShape
<1>5. CASE StepAndSend
  BY <1>5 DEF StepAndSend, CommandSafe, CommandControl, Transmit, Send, RunShape, clockVars, runnerVars
<1>6. CASE UNCHANGED runVars
  BY <1>6 DEF runVars, vars, clockVars, runnerVars, busVars, RunShape
<1> QED
  BY <1>1, <1>2, <1>3, <1>4, <1>5, <1>6 DEF RunNext

LEMMA RunShapeAlways == RunSpec => []RunShape
<1>1. RunInit => RunShape
  BY RunShapeInit
<1>2. RunShape /\ [RunNext]_runVars => RunShape'
  BY RunShapeNext
<1> QED
  BY <1>1, <1>2, PTL DEF RunSpec

\* The node of a run is stepped as ControlNode allows, for every schedule of
\* faults and wake-ups: its theorems hold of the run (runner.rs:580-584).
THEOREM RunDrivesTheNode == RunSpec => NodeBehaviour
<1>1. RunInit => Init
  BY DEF RunInit
<1>2. RunShape /\ [RunNext]_runVars => [Next]_vars
  <2> SUFFICES ASSUME RunShape, [RunNext]_runVars
               PROVE  Next \/ UNCHANGED vars
    OBVIOUS
  <2>1. ASSUME NEW t \in 0 .. LastInstant, Sleep(t) \/ EndOfCycle(t)
        PROVE  UNCHANGED vars
    BY <2>1 DEF Sleep, EndOfCycle
  <2>2. ASSUME NEW F \in FaultMenu, NEW v \in SensorValues, NEW freeze \in BOOLEAN, Receive(F, v, freeze)
        PROVE  Next
    <3>1. startUs \in Instants /\ StepBegin(startUs)
      BY <2>2, EnvironmentAssumption DEF Receive, RunShape
    <3> QED
      BY <3>1, Zenon DEF Next
  <2>3. CASE TakeFrame
    <3>1. Head(inbox) \in Frames
      BY <2>3, EnvironmentAssumption DEF TakeFrame, RunShape
    <3> QED
      BY <2>3, <3>1, Zenon DEF TakeFrame, Next, Ingest
  <2>4. CASE StepAndSend
    BY <2>4, Zenon DEF StepAndSend, Next
  <2>5. CASE UNCHANGED runVars
    BY <2>5, Zenon DEF runVars
  <2> QED
    BY <2>1, <2>2, <2>3, <2>4, <2>5 DEF RunNext
<1> QED
  BY <1>1, <1>2, RunShapeAlways, PTL DEF RunSpec, NodeBehaviour, Spec

\* A whole run, its frames faulty and its wake-ups late as they may, is a fail-
\* safe loop: what it sends answers a sample within the budget or is the safe
\* output, and the safe mode is left only by an operator (runner.rs:535-624,
\* node.rs:93-150).
THEOREM RunIsFailSafe == RunSpec => ImplementsFailSafe
<1>1. NodeBehaviour => Spec
  BY PTL DEF NodeBehaviour, Spec
<1> QED
  BY <1>1, RunDrivesTheNode, Refinement, PTL

\* Its loop is the periodic one (runner.rs:535-624).
THEOREM RunKeepsPeriods == RunSpec => RunnerSpec
<1>1. RunInit => RunnerInit
  BY DEF RunInit
<1>2. [RunNext]_runVars => [RunnerNext]_runnerVars
  <2> SUFFICES ASSUME [RunNext]_runVars
               PROVE  RunnerNext \/ UNCHANGED runnerVars
    OBVIOUS
  <2>1. ASSUME NEW t \in 0 .. LastInstant, Sleep(t) \/ EndOfCycle(t)
        PROVE  RunnerNext
    BY <2>1, Zenon DEF Sleep, EndOfCycle, RunnerNext
  <2>2. ASSUME NEW F \in FaultMenu, NEW v \in SensorValues, NEW freeze \in BOOLEAN, Receive(F, v, freeze)
        PROVE  UNCHANGED runnerVars
    BY <2>2 DEF Receive, clockVars
  <2>3. CASE TakeFrame \/ StepAndSend
    BY <2>3 DEF TakeFrame, StepAndSend, clockVars
  <2>4. CASE UNCHANGED runVars
    BY <2>4 DEF runVars, clockVars
  <2> QED
    BY <2>1, <2>2, <2>3, <2>4 DEF RunNext
<1> QED
  BY <1>1, <1>2, PTL DEF RunSpec, RunnerSpec

-----------------------------------------------------------------------------
(* The timing of a run.                                                    *)

LEMMA PeriodTimes ==
    ASSUME NEW a \in Int
    PROVE  /\ a * PeriodUs \in Int
           /\ (a + 1) * PeriodUs = a * PeriodUs + PeriodUs
           /\ (a - 1) * PeriodUs = a * PeriodUs - PeriodUs
  BY PeriodAssumption, Z3

LEMMA RunTimingInit == RunInit => RunTiming
<1> SUFFICES ASSUME RunInit PROVE RunTiming
  OBVIOUS
<1>1. 0 * PeriodUs = 0
  BY PeriodAssumption, Z3
<1> QED
  BY <1>1, PeriodAssumption, MaxLateAssumption
  DEF RunInit, Init, RunnerInit, RunTiming, Received

LEMMA RunTimingNext ==
    RunShape /\ Inductive /\ RunTiming /\ [RunNext]_runVars => RunTiming'
<1> SUFFICES ASSUME RunShape, Inductive, RunTiming, [RunNext]_runVars
             PROVE  RunTiming'
  OBVIOUS
<1> USE PeriodAssumption, MaxLateAssumption, LastInstantAssumption
<1>1. trustedAt \in Nat /\ checkedAt \in Nat /\ cycle \in Nat /\ startUs \in Nat
  BY DEF Inductive, TypeOK, RunShape
<1>2. ASSUME NEW t \in 0 .. LastInstant, Sleep(t)
      PROVE  RunTiming'
  <2>1. stage = "asleep" /\ work = "done"
    BY <1>2 DEF Sleep, WakeUp, RunShape
  <2>2. /\ stage' = "running" /\ work' = "receive" /\ cycle' = cycle
        /\ startUs' = t /\ ScheduledUs <= t /\ t <= ScheduledUs + MaxLate
        /\ UNCHANGED << quiet, lastJitter, checkedAt, trustedAt >>
    BY <1>2 DEF Sleep, WakeUp, vars, historyVars
  <2> QED
    BY <2>1, <2>2 DEF RunTiming, Received, ScheduledUs
<1>3. ASSUME NEW t \in 0 .. LastInstant, EndOfCycle(t)
      PROVE  RunTiming'
  <2>1. stage = "running" /\ work = "done"
    BY <1>3 DEF EndOfCycle, EndCycleAt
  <2>2. /\ stage' = "asleep" /\ work' = "done" /\ cycle' = cycle + 1
        /\ lastJitter' = startUs - ScheduledUs
        /\ UNCHANGED << quiet, checkedAt, trustedAt >>
    BY <1>3, <2>1 DEF EndOfCycle, EndCycleAt, JitterUs, vars, historyVars
  <2>3. ScheduledUs \in Int /\ ScheduledUs <= startUs /\ checkedAt = startUs
    BY <1>1, <2>1, PeriodTimes DEF RunTiming, ScheduledUs
  <2>4. lastJitter' \in Nat
    BY <1>1, <2>2, <2>3
  <2>5. checkedAt' = (cycle' - 1) * PeriodUs + lastJitter'
    BY <1>1, <2>2, <2>3 DEF ScheduledUs
  <2>6. cycle' # 0 /\ Received' = Received
    BY <1>1, <2>1, <2>2 DEF Received
  <2> QED
    BY <2>2, <2>4, <2>5, <2>6 DEF RunTiming
<1>4. ASSUME NEW F \in FaultMenu, NEW v \in SensorValues, NEW freeze \in BOOLEAN, Receive(F, v, freeze)
      PROVE  RunTiming'
  <2>1. stage = "running" /\ work = "receive"
    BY <1>4 DEF Receive
  <2>2. /\ work' = "step" /\ now' = startUs /\ quiet' = quiet + 1
        /\ UNCHANGED << stage, cycle, startUs, lastJitter, checkedAt, trustedAt >>
    BY <1>4 DEF Receive, StepBegin, clockVars, runnerVars, historyVars
  <2>3. Received' - quiet' = Received - quiet
    BY <1>1, <2>1, <2>2 DEF Received, RunTiming
  <2> QED
    BY <2>1, <2>2, <2>3 DEF RunTiming, ScheduledUs
<1>5. CASE TakeFrame
  <2>1. /\ work = "step" /\ stage = "running" /\ now = startUs
        /\ UNCHANGED << stage, work, cycle, startUs, now, lastJitter, checkedAt >>
    BY <1>5 DEF TakeFrame, IngestAccept, IngestReject, clockVars, runnerVars, historyVars,
                RunShape, RunTiming
  <2>2. CASE quiet' = 0 /\ trustedAt' = now
    <3>1. Received' - quiet' = cycle + 1
      BY <1>1, <2>1, <2>2 DEF Received
    <3>2. /\ cycle * PeriodUs \in Int
          /\ (cycle + 1) * PeriodUs = cycle * PeriodUs + PeriodUs
      BY <1>1, PeriodTimes
    <3>3. cycle * PeriodUs <= startUs /\ startUs <= cycle * PeriodUs + MaxLate
      BY <2>1 DEF RunTiming, ScheduledUs
    <3>4. /\ trustedAt' <= (Received' - quiet') * PeriodUs + MaxLate
          /\ trustedAt' + PeriodUs >= (Received' - quiet') * PeriodUs
      BY <1>1, <2>1, <2>2, <3>1, <3>2, <3>3
    <3> QED
      BY <2>1, <2>2, <3>4 DEF RunTiming, ScheduledUs
  <2>3. CASE UNCHANGED << quiet, trustedAt >>
    BY <2>1, <2>3 DEF RunTiming, Received, ScheduledUs
  <2> QED
    BY <1>5, <2>2, <2>3 DEF TakeFrame, IngestAccept, IngestReject, historyVars
<1>6. CASE StepAndSend
  <2>1. /\ work = "step" /\ work' = "done" /\ stage = "running"
        /\ checkedAt' = now
        /\ UNCHANGED << stage, cycle, startUs, quiet, lastJitter, trustedAt >>
    BY <1>6 DEF StepAndSend, CommandSafe, CommandControl, Transmit, clockVars, runnerVars, RunShape
  <2> QED
    BY <2>1 DEF RunTiming, Received, ScheduledUs
<1>7. CASE UNCHANGED runVars
  BY <1>7 DEF runVars, vars, clockVars, runnerVars, historyVars, RunTiming, Received, ScheduledUs
<1> QED
  BY <1>2, <1>3, <1>4, <1>5, <1>6, <1>7 DEF RunNext

LEMMA RunTimingAlways == RunSpec => [](RunShape /\ Inductive /\ RunTiming)
<1>1. RunInit => RunTiming
  BY RunTimingInit
<1>2. RunShape /\ Inductive /\ RunTiming /\ [RunNext]_runVars => RunTiming'
  BY RunTimingNext
<1> QED
  BY <1>1, <1>2, RunShapeAlways, RunDrivesTheNode, InductiveInvariant, PTL DEF RunSpec, NodeBehaviour

-----------------------------------------------------------------------------
(* The trip.                                                               *)

\* The step that trips: the node was alive and inside its budget when it was
\* last checked, and the run is at the instant its cycle woke up.
LEMMA TripStep ==
    ASSUME RunShape, Inductive, RunTiming, [RunNext]_runVars, latched' # latched
    PROVE  /\ StepAndSend /\ CommandSafe
           /\ latched = {} /\ latched' = {[last_seen_us |-> lastSeen, tripped_at_us |-> startUs]}
           /\ now = startUs /\ stage = "running" /\ work = "step"
           /\ startUs > lastSeen + TimeoutUs
<1>1. \A t \in 0 .. LastInstant : ~ Sleep(t) /\ ~ EndOfCycle(t)
  BY DEF Sleep, EndOfCycle, vars, watchdogVars
<1>2. \A F \in FaultMenu, v \in SensorValues, freeze \in BOOLEAN : ~ Receive(F, v, freeze)
  BY DEF Receive, StepBegin, watchdogVars
<1>3. ~ TakeFrame
  BY DEF TakeFrame, IngestAccept, IngestReject, Feed, watchdogVars
<1>4. ~ UNCHANGED runVars
  BY DEF runVars, vars, watchdogVars
<1>5. StepAndSend
  BY <1>1, <1>2, <1>3, <1>4 DEF RunNext
<1>6. work = "step" /\ stage = "running" /\ now = startUs
  BY <1>5 DEF StepAndSend, RunShape, RunTiming
<1>7. latched' = Checked(now)
  BY <1>5 DEF StepAndSend, CommandSafe, CommandControl, Check
<1>8. /\ latched = {} /\ now > lastSeen + TimeoutUs
      /\ latched' = {[last_seen_us |-> lastSeen, tripped_at_us |-> now]}
  BY <1>7 DEF Checked, Stale
<1>9. CommandSafe
  BY <1>5, <1>7, <1>8 DEF StepAndSend, CommandControl
<1> QED
  BY <1>5, <1>6, <1>8, <1>9

\* The overshoot past the budget is at most one period and the difference of
\* two wake-ups' lateness, for every period and lateness (watchdog.rs:55-61).
THEOREM OvershootInTheLoop == RunSpec => OvershootWithinPeriodAndJitter
<1> DEFINE Bound == \A s \in latched' \ latched :
                       OvershootPastBudget(s) <=
                         JitterUs + (IF cycle = 0 THEN 0 ELSE PeriodUs - lastJitter)
<1>1. RunShape /\ Inductive /\ RunTiming /\ [RunNext]_runVars => [Bound]_runVars
  <2> SUFFICES ASSUME RunShape, Inductive, RunTiming, [RunNext]_runVars, latched' # latched
               PROVE  Bound
    OBVIOUS
  <2>1. /\ latched = {} /\ latched' = {[last_seen_us |-> lastSeen, tripped_at_us |-> startUs]}
        /\ stage = "running" /\ work = "step"
    BY TripStep
  <2>2. /\ lastSeen \in Nat /\ startUs \in Nat /\ cycle \in Nat /\ lastJitter \in Nat
        /\ checkedAt \in Nat /\ checkedAt <= lastSeen + TimeoutUs
    BY <2>1, LastInstantAssumption
    DEF Inductive, TypeOK, WatchdogTypeOK, RunShape, RunTiming
  <2>3. checkedAt = IF cycle = 0 THEN 0 ELSE (cycle - 1) * PeriodUs + lastJitter
    BY <2>1 DEF RunTiming
  <2>4. /\ cycle * PeriodUs \in Int /\ (cycle - 1) * PeriodUs = cycle * PeriodUs - PeriodUs
        /\ 0 * PeriodUs = 0
    BY <2>2, PeriodTimes, PeriodAssumption, Z3
  <2>5. startUs - checkedAt = JitterUs + (IF cycle = 0 THEN 0 ELSE PeriodUs - lastJitter)
    BY <2>2, <2>3, <2>4, PeriodAssumption DEF JitterUs, ScheduledUs
  <2>6. startUs - (lastSeen + TimeoutUs) <= startUs - checkedAt
    BY <2>2, TimeoutAssumption
  <2> QED
    BY <2>1, <2>5, <2>6 DEF OvershootPastBudget
<1> QED
  BY <1>1, RunTimingAlways, PTL DEF RunSpec, OvershootWithinPeriodAndJitter

\* A trip is always the end of a silence that spans the budget less one
\* wake-up's lateness: a sensor that is heard never trips (report.rs:562-593).
THEOREM TripMeansSilence == RunSpec => NoFalseTrip
<1> DEFINE Silence == latched' # latched => quiet * PeriodUs + MaxLate > TimeoutUs
<1>1. RunShape /\ Inductive /\ RunTiming /\ [RunNext]_runVars => [Silence]_runVars
  <2> SUFFICES ASSUME RunShape, Inductive, RunTiming, [RunNext]_runVars, latched' # latched
               PROVE  quiet * PeriodUs + MaxLate > TimeoutUs
    OBVIOUS
  <2>1. startUs > lastSeen + TimeoutUs /\ stage = "running" /\ work = "step"
    BY TripStep
  <2>2. /\ lastSeen \in Nat /\ trustedAt = lastSeen /\ startUs \in Nat /\ cycle \in Nat
        /\ quiet \in Nat
    BY LastInstantAssumption DEF Inductive, TypeOK, WatchdogTypeOK, RunShape, RunTiming
  <2>3. trustedAt + PeriodUs >= (Received - quiet) * PeriodUs
    BY Zenon DEF RunTiming
  <2>4. startUs <= cycle * PeriodUs + MaxLate
    BY <2>1 DEF RunTiming, ScheduledUs
  <2>5. Received = cycle + 1
    BY <2>1 DEF Received
  <2>6. /\ (Received - quiet) * PeriodUs = Received * PeriodUs - quiet * PeriodUs
        /\ Received * PeriodUs = cycle * PeriodUs + PeriodUs
        /\ cycle * PeriodUs \in Int /\ quiet * PeriodUs \in Int
    BY <2>2, <2>5, PeriodAssumption, Z3
  <2> QED
    BY <2>1, <2>2, <2>3, <2>4, <2>6, PeriodAssumption, TimeoutAssumption, MaxLateAssumption
<1> QED
  BY <1>1, RunTimingAlways, PTL DEF RunSpec, NoFalseTrip

LEMMA RunTripInit == RunInit => RunTrip
  BY DEF RunInit, Init, Arm, RunTrip

LEMMA RunTripNext ==
    RunShape /\ Inductive /\ RunTiming /\ RunTrip /\ [RunNext]_runVars => RunTrip'
<1> SUFFICES ASSUME RunShape, Inductive, RunTiming, RunTrip, [RunNext]_runVars
             PROVE  RunTrip'
  OBVIOUS
<1>1. CASE StepAndSend /\ latched' # latched
  <2>1. /\ CommandSafe /\ latched = {}
        /\ latched' = {[last_seen_us |-> lastSeen, tripped_at_us |-> startUs]}
        /\ stage = "running" /\ work = "step"
    BY <1>1, TripStep
  <2>2. \A o \in output' : o.actuator = 0
    BY <2>1 DEF CommandSafe, Transmit, SafeActuator
  <2>3. output' # {}
    BY <2>1 DEF CommandSafe, Transmit
  <2>4. (CHOOSE o \in output' : TRUE).actuator = 0
    BY <2>2, <2>3
  <2>5. tripCycle' = {cycle} /\ safeState' = latched' /\ actuatorZeroSinceTrip'
    BY <1>1, <2>1, <2>4 DEF StepAndSend, Record, RunTrip
  <2>6. /\ lastSeen \in Nat /\ startUs \in Nat /\ cycle \in Nat /\ lastJitter \in Nat
        /\ checkedAt \in Nat /\ checkedAt <= lastSeen + TimeoutUs
    BY <2>1, LastInstantAssumption
    DEF Inductive, TypeOK, WatchdogTypeOK, RunShape, RunTiming
  <2>7. checkedAt >= cycle * PeriodUs - PeriodUs
    <3>1. /\ cycle * PeriodUs \in Int /\ (cycle - 1) * PeriodUs = cycle * PeriodUs - PeriodUs
          /\ 0 * PeriodUs = 0
      BY <2>6, PeriodTimes, PeriodAssumption, Z3
    <3> QED
      BY <2>1, <2>6, <3>1, PeriodAssumption DEF RunTiming
  <2>8. startUs <= cycle * PeriodUs + MaxLate /\ cycle * PeriodUs \in Int
    BY <2>1, <2>6, PeriodTimes DEF RunTiming, ScheduledUs
  <2>9. startUs - lastSeen <= TimeoutUs + PeriodUs + MaxLate
    BY <2>6, <2>7, <2>8, PeriodAssumption, MaxLateAssumption, TimeoutAssumption
  <2>10. \A s \in latched' : s.tripped_at_us - s.last_seen_us <= TimeoutUs + PeriodUs + MaxLate
    BY <2>1, <2>9
  <2>11. tripCycle' # {} /\ latched' # {}
    BY <2>1, <2>5
  <2> QED
    BY <2>5, <2>10, <2>11, Zenon DEF RunTrip
<1>2. CASE StepAndSend /\ latched' = latched
  <2>1. latched # {} => \A o \in output' : o.actuator = 0
    BY <1>2 DEF StepAndSend, CommandSafe, CommandControl, Transmit, SafeActuator, Check
  <2>2. output' # {}
    BY <1>2 DEF StepAndSend, CommandSafe, CommandControl, Transmit
  <2>3. latched # {} => (CHOOSE o \in output' : TRUE).actuator = 0
    BY <2>1, <2>2
  <2>4. UNCHANGED << tripCycle, safeState, actuatorZeroSinceTrip >>
    BY <1>2, <2>3 DEF StepAndSend, Record, RunTrip
  <2> QED
    BY <1>2, <2>4 DEF RunTrip
<1>3. CASE ~ StepAndSend
  <2>1. latched' = latched
    BY <1>3, TripStep
  <2>2. UNCHANGED recordVars
    BY <1>3 DEF RunNext, Sleep, EndOfCycle, Receive, TakeFrame, runVars
  <2> QED
    BY <2>1, <2>2 DEF RunTrip, recordVars
<1> QED
  BY <1>1, <1>2, <1>3

LEMMA RunTripAlways == RunSpec => []RunTrip
<1>1. RunInit => RunTrip
  BY RunTripInit
<1>2. RunShape /\ Inductive /\ RunTiming /\ RunTrip /\ [RunNext]_runVars => RunTrip'
  BY RunTripNext
<1> QED
  BY <1>1, <1>2, RunTimingAlways, PTL DEF RunSpec

\* After the first trip no command of the run moves the actuator, and the trip
\* the run returns is the node's (runner.rs:588-597).
THEOREM TripIsReported == RunSpec => []TripReported
<1>1. RunTrip => TripReported
  BY DEF RunTrip, TripReported
<1> QED
  BY <1>1, RunTripAlways, PTL

\* A silent sensor trips the node within the cycles the budget spans, one
\* period and one wake-up's lateness (node.rs:26-36).
THEOREM SilenceIsBounded == RunSpec => []SilenceTrips
<1>1. RunShape /\ Inductive /\ RunTiming /\ RunTrip => SilenceTrips
  <2> SUFFICES ASSUME RunShape, Inductive, RunTiming, RunTrip
               PROVE  SilenceTrips
    OBVIOUS
  <2>0. SUFFICES ASSUME work = "done", latched = {}
                 PROVE  ~ (quiet * PeriodUs > TimeoutUs + MaxLate + PeriodUs)
    BY Zenon DEF RunTrip, SilenceTrips
  <2>1. /\ trustedAt \in Nat /\ startUs \in Nat /\ cycle \in Nat /\ lastJitter \in Nat
        /\ quiet \in Nat /\ checkedAt \in Nat /\ checkedAt <= trustedAt + TimeoutUs
    BY <2>0, LastInstantAssumption DEF Inductive, TypeOK, RunShape, RunTiming
  <2>2. Received \in Nat
    BY <2>1 DEF Received
  <2>3. /\ (Received - quiet) * PeriodUs = Received * PeriodUs - quiet * PeriodUs
        /\ Received * PeriodUs \in Int /\ quiet * PeriodUs \in Int
    BY <2>1, <2>2, PeriodAssumption, Z3
  <2>4. checkedAt >= Received * PeriodUs - PeriodUs
    <3>1. /\ (cycle - 1) * PeriodUs = cycle * PeriodUs - PeriodUs
          /\ (cycle + 1) * PeriodUs = cycle * PeriodUs + PeriodUs
          /\ cycle * PeriodUs \in Int /\ 0 * PeriodUs = 0
      BY <2>1, PeriodTimes, PeriodAssumption, Z3
    <3>2. CASE stage = "running"
      BY <2>0, <2>1, <3>1, <3>2, PeriodAssumption DEF RunTiming, Received, ScheduledUs
    <3>3. CASE stage # "running"
      BY <2>0, <2>1, <3>1, <3>3, PeriodAssumption DEF RunTiming, Received
    <3> QED
      BY <3>2, <3>3
  <2>5. trustedAt <= Received * PeriodUs - quiet * PeriodUs + MaxLate
    BY <2>3 DEF RunTiming
  <2> QED
    BY <2>1, <2>3, <2>4, <2>5, PeriodAssumption, MaxLateAssumption, TimeoutAssumption
<1> QED
  BY <1>1, RunTimingAlways, RunTripAlways, PTL

-----------------------------------------------------------------------------
(* The frozen sensor.                                                      *)

\* After the freeze no cycle has an accepted frame; and what the record and
\* the actuator show of a trip.
RunFreeze ==
    /\ frozen \in BOOLEAN
    /\ ~ frozen => frozeAt = {}
    /\ frozen /\ work = "step" => inbox = << >>
    /\ \A f \in frozeAt : f \in Nat /\ f <= Received /\ Received - f <= quiet
    /\ tripCycle \subseteq Nat
    /\ latched # {} => \A o \in output : o.actuator = SafeActuator

LEMMA RunFreezeInit == RunInit => RunFreeze
  BY DEF RunInit, BusInit, Init, Arm, RunFreeze

LEMMA RunFreezeNext ==
    RunShape /\ Inductive /\ RunTiming /\ RunFreeze /\ [RunNext]_runVars => RunFreeze'
<1> SUFFICES ASSUME RunShape, Inductive, RunTiming, RunFreeze, [RunNext]_runVars
             PROVE  RunFreeze'
  OBVIOUS
<1>1. /\ cycle \in Nat /\ quiet \in Nat /\ Received \in Nat
      /\ \A f \in frozeAt : f \in Nat /\ f <= Received /\ Received - f <= quiet
  BY DEF RunShape, RunTiming, RunFreeze, Received
<1>2. CASE StepAndSend
  <2>1. UNCHANGED << frozen, frozeAt, quiet, stage, cycle >> /\ work = "step" /\ work' = "done"
    BY <1>2 DEF StepAndSend, Send, clockVars, runnerVars
  <2>2. Received' = Received
    BY <2>1 DEF Received
  <2>3. tripCycle' \subseteq Nat
    BY <1>1, <1>2 DEF StepAndSend, Record, RunFreeze
  <2>4. latched' # {} => \A o \in output' : o.actuator = SafeActuator
    BY <1>2 DEF StepAndSend, CommandSafe, CommandControl, Transmit, SafeActuator, Check
  <2> QED
    BY <2>1, <2>2, <2>3, <2>4 DEF RunFreeze
<1>3. ASSUME ~ StepAndSend
      PROVE  /\ UNCHANGED << latched, tripCycle >>
             /\ output' \subseteq output
  <2>1. latched' = latched
    BY <1>3, TripStep
  <2>2. UNCHANGED << tripCycle, output >>
    BY <1>3
    DEF RunNext, Sleep, EndOfCycle, Receive, TakeFrame, StepBegin, IngestAccept, IngestReject,
        runVars, recordVars, vars
  <2> QED
    BY <2>1, <2>2
<1>4. ASSUME NEW t \in 0 .. LastInstant, Sleep(t) \/ EndOfCycle(t) PROVE RunFreeze'
  <2>1. UNCHANGED << frozen, frozeAt, quiet >> /\ work' # "step"
    BY <1>4 DEF Sleep, EndOfCycle, busVars
  <2>2. Received' = Received
    BY <1>4 DEF Sleep, EndOfCycle, WakeUp, EndCycleAt, Received
  <2>3. ~ StepAndSend
    BY <1>4 DEF Sleep, EndOfCycle, StepAndSend, WakeUp, RunShape
  <2> QED
    BY <1>1, <1>3, <2>1, <2>2, <2>3 DEF RunFreeze
<1>5. ASSUME NEW F \in FaultMenu, NEW v \in SensorValues, NEW freeze \in BOOLEAN,
             Receive(F, v, freeze)
      PROVE  RunFreeze'
  <2>1. /\ frozen' = (frozen \/ freeze) /\ quiet' = quiet + 1
        /\ frozeAt' = (IF freeze /\ ~ frozen THEN {cycle} ELSE frozeAt)
        /\ stage = "running" /\ work = "receive" /\ work' = "step"
        /\ UNCHANGED << stage, cycle >>
    BY <1>5 DEF Receive, RecvUntil, clockVars, runnerVars
  <2>2. Received = cycle /\ Received' = cycle + 1
    BY <2>1 DEF Received
  <2>3. frozen' => inbox' = << >>
    BY <1>5, <2>1 DEF Receive, Delivered, Silent
  <2>4. \A f \in frozeAt' : f \in Nat /\ f <= Received' /\ Received' - f <= quiet'
    BY <1>1, <2>1, <2>2
  <2>5. frozen' \in BOOLEAN /\ (~ frozen' => frozeAt' = {})
    BY <2>1 DEF RunFreeze
  <2>6. ~ StepAndSend
    BY <2>1 DEF StepAndSend
  <2> QED
    BY <1>3, <2>3, <2>4, <2>5, <2>6 DEF RunFreeze
<1>6. CASE TakeFrame
  <2>1. ~ frozen /\ frozeAt = {} /\ UNCHANGED << frozen, frozeAt >>
    BY <1>6 DEF TakeFrame, RunFreeze, busVars
  <2>2. ~ StepAndSend
    BY <1>6 DEF TakeFrame, StepAndSend
  <2> QED
    BY <1>3, <2>1, <2>2 DEF RunFreeze
<1>7. CASE UNCHANGED runVars
  BY <1>7 DEF runVars, vars, watchdogVars, busVars, clockVars, runnerVars, recordVars, RunFreeze, Received
<1> QED
  BY <1>2, <1>4, <1>5, <1>6, <1>7 DEF RunNext

\* Thresholds of the manifest under which the sensor-freeze control is meant to
\* be caught: a trip fails the gate, and the reaction bound has room for the
\* budget, a period and the lateness of one wake-up (frozen.json, sensor-freeze).
FreezeThresholds ==
    ~ watchdog_may_trip /\ TimeoutUs + PeriodUs + MaxLate <= max_reaction_time_us

\* A run that goes on long enough after its sensor froze is caught by the
\* control, for every number of cycles, period, budget and lateness, and for
\* every dropped frame before the freeze, unless it had tripped by then
\* (report.rs:769-836).
THEOREM FreezeIsCaught == FreezeThresholds => (RunSpec => []FreezeCaught)
<1>1. ASSUME RunShape, Inductive, RunTiming, RunTrip, RunFreeze, SilenceTrips, RunnerInductive,
             FreezeThresholds
      PROVE  FreezeCaught
  <2> SUFFICES ASSUME Finished, NEW f \in frozeAt
               PROVE  LET caught == Verdict("sensor-freeze", RunOutcome, [freeze_at_cycle |-> f])
                      IN  /\ (Cycles - f) * PeriodUs > TimeoutUs + MaxLate + PeriodUs =>
                                caught \/ \E t \in tripCycle : t <= f
                          /\ caught => /\ latched = safeState /\ latched # {}
                                       /\ \A o \in output : o.actuator = SafeActuator
    BY <1>1, Zenon DEF FreezeCaught
  <2> DEFINE spec == [freeze_at_cycle |-> f]
             caught == Verdict("sensor-freeze", RunOutcome, spec)
  <2>1. caught <=> SensorFreezeCaught(RunOutcome, spec)
    BY DEF Verdict
  <2>2. /\ RunOutcome.safeState = safeState /\ RunOutcome.tripCycle = tripCycle
        /\ RunOutcome.actuatorZeroSinceTrip = actuatorZeroSinceTrip
        /\ spec.freeze_at_cycle = f
    BY DEF RunOutcome
  <2> HIDE DEF spec
  <2>3. ASSUME (Cycles - f) * PeriodUs > TimeoutUs + MaxLate + PeriodUs,
               ~ \E t \in tripCycle : t <= f
        PROVE  caught
    <3>1. stage = "asleep" /\ work = "done" /\ cycle = Cycles /\ Received = Cycles
      BY <1>1, CyclesAssumption DEF Finished, RunnerInductive, RunShape, Received
    <3>2. f \in Nat /\ quiet \in Nat /\ Cycles - f <= quiet
      BY <1>1, <3>1 DEF RunFreeze, RunTiming
    <3>3. (Cycles - f) * PeriodUs <= quiet * PeriodUs
      <4>1. ASSUME NEW a \in Int, a <= quiet PROVE a * PeriodUs <= quiet * PeriodUs
        BY <3>2, <4>1, PeriodAssumption, Z3
      <4> QED
        BY <3>2, <4>1, CyclesAssumption
    <3>4. latched # {}
      <4>1. quiet * PeriodUs \in Int /\ (Cycles - f) * PeriodUs \in Int
        BY <3>2, PeriodAssumption, CyclesAssumption, Z3
      <4>2. TimeoutUs + MaxLate + PeriodUs \in Int
        BY PeriodAssumption, MaxLateAssumption, TimeoutAssumption
      <4>3. quiet * PeriodUs > TimeoutUs + MaxLate + PeriodUs
        BY <2>3, <3>3, <4>1, <4>2
      <4> QED
        BY <1>1, <3>1, <4>3 DEF SilenceTrips
    <3>5. safeState # {} /\ actuatorZeroSinceTrip /\ tripCycle # {}
      BY <1>1, <3>4, Zenon DEF RunTrip
    <3>6. \A s \in safeState : Reaction(s) <= max_reaction_time_us
      <4>1. ASSUME NEW s \in latched PROVE s.tripped_at_us - s.last_seen_us \in Int
        BY <1>1 DEF Inductive, TypeOK, WatchdogTypeOK, SafeState
      <4> QED
        BY <1>1, <4>1, PeriodAssumption, MaxLateAssumption, TimeoutAssumption, ManifestAssumption
        DEF RunTrip, FreezeThresholds, Reaction
    <3>7. ~ GatePass(RunOutcome)
      BY <1>1, <2>2, <3>5 DEF GatePass, FreezeThresholds
    <3>8. \A t \in tripCycle : t > f
      BY <1>1, <2>3, <3>2 DEF RunFreeze
    <3> QED
      BY <2>1, <2>2, <3>5, <3>6, <3>7, <3>8 DEF SensorFreezeCaught
  <2>4. ASSUME caught
        PROVE  latched = safeState /\ latched # {} /\ \A o \in output : o.actuator = SafeActuator
    BY <1>1, <2>1, <2>2, <2>4 DEF SensorFreezeCaught, RunTrip, RunFreeze
  <2> QED
    BY <2>3, <2>4 DEF spec
<1>2. RunInit => RunFreeze
  BY RunFreezeInit
<1>3. RunShape /\ Inductive /\ RunTiming /\ RunFreeze /\ [RunNext]_runVars => RunFreeze'
  BY RunFreezeNext
<1> SUFFICES ASSUME FreezeThresholds PROVE RunSpec => []FreezeCaught
  OBVIOUS
<1>4. RunShape /\ Inductive /\ RunTiming /\ RunTrip /\ RunFreeze /\ SilenceTrips /\ RunnerInductive
          => FreezeCaught
  BY <1>1
<1> QED
  BY <1>2, <1>3, <1>4, RunTimingAlways, RunTripAlways, SilenceIsBounded, RunKeepsPeriods,
     RunnerInvariant, PTL DEF RunSpec

-----------------------------------------------------------------------------
(* The histogram of refusals is exact for every schedule of faults: each   *)
(* injected frame is refused once, under its own reason, and none of them  *)
(* costs a legitimate frame.                                               *)

Kinds == {"BadCrc", "Duplicate", "OutOfOrder", "OutOfRange", "BadLength"}
Injected(r) == IF r \in DOMAIN injected THEN injected[r] ELSE 0

\* Refused so far: everything injected, up to one frame of each kind in G.
CountedBut(G) ==
    \A r \in Reject :
        Injected(r) = IF r \in G THEN CountSucc(byReason[r]) ELSE byReason[r]
\* s is the number the validator takes next.
Awaits(s) == \A last \in lastSeq : SeqSucc(last) = s

\* Between two steps.
Settled == CountedBut({}) /\ accepted = emitted /\ Awaits(busSeq)
\* Inside one: nothing was delivered, or the good frame of the cycle is still
\* there with all that follows it, or it is accepted and some extras are left.
Undelivered == inbox = << >> /\ Settled
GoodFirst(s, v, G) ==
    /\ inbox = << SensorFrame(s, v) >> \o Extras(s, G, v)
    /\ CountedBut(G) /\ emitted = CountSucc(accepted) /\ Awaits(s)
ExtrasLeft(s, v, G) ==
    /\ inbox = Extras(s, G, v)
    /\ CountedBut(G) /\ emitted = accepted /\ lastSeq = {s}
RunCounts ==
    /\ injected \in [Kinds -> Counts]
    /\ work # "step" => Settled
    /\ work = "step" =>
          \/ Undelivered
          \/ \E s \in Seqs, v \in SensorValues, G \in SUBSET Kinds :
                /\ busSeq = SeqSucc(s)
                /\ GoodFirst(s, v, G) \/ ExtrasLeft(s, v, G)

-----------------------------------------------------------------------------
(* What the validator makes of the bus's frames.                           *)

LEMMA KindsAreReasons == Kinds \subseteq Reject /\ Kinds = Fault \ {"Drop"}
  BY DEF Kinds, Reject, WireFaults, Fault

LEMMA FailsCases ==
    ASSUME NEW f
    PROVE  /\ \A r \in WireFaults : Fails(f, r) <=> r \in f.faults
           /\ Fails(f, "Duplicate") <=> f.seq \in lastSeq
           /\ Fails(f, "OutOfOrder") <=> NotNext(f.seq)
           /\ Fails(f, "OutOfRange") <=> f.value \notin VALUE_MIN .. VALUE_MAX
  BY DEF Fails, WireFaults

LEMMA GoodIsAccepted ==
    ASSUME NEW s \in Seqs, NEW v \in SensorValues, lastSeq \subseteq Seqs, Awaits(s),
           NEW r \in Reject
    PROVE  ~ Fails(SensorFrame(s, v), r)
<1> DEFINE f == SensorFrame(s, v)
<1>1. f.faults = {} /\ f.seq = s /\ f.value = v
  BY DEF SensorFrame
<1>2. s \notin lastSeq
  BY SeqModAssumption DEF Awaits, SeqSucc, Seqs
<1>3. ~ NotNext(s)
  BY DEF Awaits, NotNext
<1>4. v \in VALUE_MIN .. VALUE_MAX
  BY SensorValuesAssumption
<1> HIDE DEF f
<1> QED
  BY <1>1, <1>2, <1>3, <1>4, FailsCases DEF Reject, f

LEMMA ExtraIsRefused ==
    ASSUME NEW s \in Seqs, NEW v \in SensorValues, NEW k \in Kinds, lastSeq = {s}
    PROVE  /\ Fails(Extra(s, k, v), k)
           /\ \A r \in Reject : Attributed(Extra(s, k, v), r) => r = k
<1> DEFINE f == Extra(s, k, v)
<1>1. /\ Ahead(s, 1) = SeqSucc(s) /\ SeqSucc(s) # s
      /\ Ahead(s, SkipAhead) \notin {s, SeqSucc(s)}
  <2>1. s \in Int /\ 0 <= s /\ s < SeqMod
    BY SeqModAssumption DEF Seqs
  <2>2. \A n \in 1 .. SeqMod - 1 : Ahead(s, n) = IF s + n < SeqMod THEN s + n ELSE s + n - SeqMod
    <3> SUFFICES ASSUME NEW n \in 1 .. SeqMod - 1
                 PROVE  Ahead(s, n) = IF s + n < SeqMod THEN s + n ELSE s + n - SeqMod
      OBVIOUS
    <3> QED
      BY <2>1, SeqModAssumption DEF Ahead
  <2> QED
    BY <2>1, <2>2, SeqModAssumption, SkipAheadAssumption DEF SeqSucc
<1>2. \A n : NotNext(n) <=> n \notin {s, SeqSucc(s)}
  BY DEF NotNext
<1>3. v \in VALUE_MIN .. VALUE_MAX /\ VALUE_MAX + 1 \notin VALUE_MIN .. VALUE_MAX
  BY SensorValuesAssumption, ValueRangeAssumption
<1>4. CASE k = "BadCrc"
  <2>1. f.faults = {"BadCrc"} /\ f.seq = s /\ f.value = v
    BY <1>4 DEF Extra, SensorFrame
  <2>2. Precedes("BadCrc", "Duplicate")
    BY DEF Precedes, CheckOrder
  <2> HIDE DEF f
  <2>3. Fails(f, "BadCrc") /\ "BadCrc" \in Reject
    BY <2>1, FailsCases DEF WireFaults, Reject
  <2>4. \A r \in Reject : Fails(f, r) => r = "BadCrc" \/ r = "Duplicate"
    BY <1>2, <1>3, <2>1, FailsCases DEF Reject
  <2> QED
    BY <1>4, <2>2, <2>3, <2>4 DEF Attributed, f
<1>5. CASE k = "BadLength"
  <2>1. f.faults = {"BadLength"} /\ f.seq = SeqSucc(s) /\ f.value = v
    BY <1>1, <1>5 DEF Extra, SensorFrame
  <2> HIDE DEF f
  <2> QED
    BY <1>1, <1>2, <1>3, <1>5, <2>1, FailsCases DEF Reject, WireFaults, Attributed, f
<1>6. CASE k \in {"Duplicate", "OutOfOrder", "OutOfRange"}
  <2>1. /\ f.faults = {}
        /\ k = "Duplicate" => f.seq = s /\ f.value = v
        /\ k = "OutOfOrder" => f.seq = Ahead(s, SkipAhead) /\ f.value = v
        /\ k = "OutOfRange" => f.seq = SeqSucc(s) /\ f.value = VALUE_MAX + 1
    BY <1>1, <1>6 DEF Extra, SensorFrame
  <2> HIDE DEF f
  <2> QED
    BY <1>1, <1>2, <1>3, <1>6, <2>1, FailsCases DEF Reject, WireFaults, Attributed, f
<1> QED
  BY <1>4, <1>5, <1>6 DEF Kinds

-----------------------------------------------------------------------------
(* Taking the extra frames one by one.                                     *)

LEMMA FirstExtra ==
    ASSUME NEW s \in Seqs, NEW v \in SensorValues, NEW G \in SUBSET Kinds, G # {}
    PROVE  \E k \in G : Extras(s, G, v) = << Extra(s, k, v) >> \o Extras(s, G \ {k}, v)
<1> DEFINE P(k) == Pushed(k, s, G, v)
           E(k) == << Extra(s, k, v) >>
<1>1. \A k \in Kinds : P(k) \in Seq(BusFrames) /\ E(k) \in Seq(BusFrames)
  BY PushedType, ExtraIsBusFrame DEF Kinds
<1>2. \A j \in Kinds, k \in Kinds : Pushed(j, s, G \ {k}, v) = IF j = k THEN << >> ELSE P(j)
  BY DEF Pushed
<1>3. \A k \in Kinds : (k \in G => P(k) = E(k)) /\ (k \notin G => P(k) = << >>)
  BY DEF Pushed
<1>4. << >> \in Seq(BusFrames) /\ \A x \in Seq(BusFrames) : << >> \o x = x /\ x \o << >> = x
  BY ConcatEmptySeq
<1> HIDE DEF P, E
<1>5. Extras(s, G, v) = P("BadCrc") \o (P("Duplicate") \o (P("OutOfOrder") \o (P("OutOfRange") \o (P("BadLength")))))
  BY Zenon DEF Extras, P
<1>6. CASE "BadCrc" \in G
  <2>1. P("BadCrc") = E("BadCrc")
    BY <1>3, <1>6 DEF Kinds
  <2> DEFINE rest == P("Duplicate") \o (P("OutOfOrder") \o (P("OutOfRange") \o (P("BadLength"))))
  <2>2. rest \in Seq(BusFrames) /\ E("BadCrc") \o rest \in Seq(BusFrames)
    BY <1>1, ConcatProperties DEF Kinds
  <2>3. Extras(s, G \ {"BadCrc"}, v) = rest
    <3>1. /\ Pushed("BadCrc", s, G \ {"BadCrc"}, v) = << >>
          /\ Pushed("Duplicate", s, G \ {"BadCrc"}, v) = P("Duplicate")
          /\ Pushed("OutOfOrder", s, G \ {"BadCrc"}, v) = P("OutOfOrder")
          /\ Pushed("OutOfRange", s, G \ {"BadCrc"}, v) = P("OutOfRange")
          /\ Pushed("BadLength", s, G \ {"BadCrc"}, v) = P("BadLength")
      BY <1>2 DEF Kinds
    <3>2. Extras(s, G \ {"BadCrc"}, v) = << >> \o rest
      BY <3>1, Zenon DEF Extras
    <3>3. rest \in Seq(BusFrames)
      BY <2>2
    <3> HIDE DEF rest
    <3>4. << >> \o rest = rest
      BY <1>4, <3>3, Zenon
    <3> QED
      BY <3>2, <3>4, Zenon
  <2>4. Extras(s, G, v) = E("BadCrc") \o rest
    BY <1>4, <1>5, <2>1, <2>2
  <2> QED
    BY <1>6, <2>2, <2>3, <2>4 DEF E
<1>7. CASE "BadCrc" \notin G /\ "Duplicate" \in G
  <2>1. P("BadCrc") = << >> /\ P("Duplicate") = E("Duplicate")
    BY <1>3, <1>7 DEF Kinds
  <2> DEFINE rest == P("OutOfOrder") \o (P("OutOfRange") \o (P("BadLength")))
  <2>2. rest \in Seq(BusFrames) /\ E("Duplicate") \o rest \in Seq(BusFrames)
    BY <1>1, ConcatProperties DEF Kinds
  <2>3. Extras(s, G \ {"Duplicate"}, v) = rest
    <3>1. /\ Pushed("BadCrc", s, G \ {"Duplicate"}, v) = << >>
          /\ Pushed("Duplicate", s, G \ {"Duplicate"}, v) = << >>
          /\ Pushed("OutOfOrder", s, G \ {"Duplicate"}, v) = P("OutOfOrder")
          /\ Pushed("OutOfRange", s, G \ {"Duplicate"}, v) = P("OutOfRange")
          /\ Pushed("BadLength", s, G \ {"Duplicate"}, v) = P("BadLength")
      BY <1>2, <2>1 DEF Kinds
    <3>2. Extras(s, G \ {"Duplicate"}, v) = << >> \o (<< >> \o (rest))
      BY <3>1, Zenon DEF Extras
    <3>3. rest \in Seq(BusFrames)
      BY <2>2
    <3> HIDE DEF rest
    <3>4. << >> \o rest = rest
      BY <1>4, <3>3, Zenon
    <3> QED
      BY <3>2, <3>4, Zenon
  <2>4. Extras(s, G, v) = E("Duplicate") \o rest
    BY <1>4, <1>5, <2>1, <2>2
  <2> QED
    BY <1>7, <2>2, <2>3, <2>4 DEF E
<1>8. CASE "BadCrc" \notin G /\ "Duplicate" \notin G /\ "OutOfOrder" \in G
  <2>1. P("BadCrc") = << >> /\ P("Duplicate") = << >> /\ P("OutOfOrder") = E("OutOfOrder")
    BY <1>3, <1>8 DEF Kinds
  <2> DEFINE rest == P("OutOfRange") \o (P("BadLength"))
  <2>2. rest \in Seq(BusFrames) /\ E("OutOfOrder") \o rest \in Seq(BusFrames)
    BY <1>1, ConcatProperties DEF Kinds
  <2>3. Extras(s, G \ {"OutOfOrder"}, v) = rest
    <3>1. /\ Pushed("BadCrc", s, G \ {"OutOfOrder"}, v) = << >>
          /\ Pushed("Duplicate", s, G \ {"OutOfOrder"}, v) = << >>
          /\ Pushed("OutOfOrder", s, G \ {"OutOfOrder"}, v) = << >>
          /\ Pushed("OutOfRange", s, G \ {"OutOfOrder"}, v) = P("OutOfRange")
          /\ Pushed("BadLength", s, G \ {"OutOfOrder"}, v) = P("BadLength")
      BY <1>2, <2>1 DEF Kinds
    <3>2. Extras(s, G \ {"OutOfOrder"}, v) = << >> \o (<< >> \o (<< >> \o (rest)))
      BY <3>1, Zenon DEF Extras
    <3>3. rest \in Seq(BusFrames)
      BY <2>2
    <3> HIDE DEF rest
    <3>4. << >> \o rest = rest
      BY <1>4, <3>3, Zenon
    <3> QED
      BY <3>2, <3>4, Zenon
  <2>4. Extras(s, G, v) = E("OutOfOrder") \o rest
    BY <1>4, <1>5, <2>1, <2>2
  <2> QED
    BY <1>8, <2>2, <2>3, <2>4 DEF E
<1>9. CASE "BadCrc" \notin G /\ "Duplicate" \notin G /\ "OutOfOrder" \notin G /\ "OutOfRange" \in G
  <2>1. P("BadCrc") = << >> /\ P("Duplicate") = << >> /\ P("OutOfOrder") = << >> /\ P("OutOfRange") = E("OutOfRange")
    BY <1>3, <1>9 DEF Kinds
  <2> DEFINE rest == P("BadLength")
  <2>2. rest \in Seq(BusFrames) /\ E("OutOfRange") \o rest \in Seq(BusFrames)
    BY <1>1, ConcatProperties DEF Kinds
  <2>3. Extras(s, G \ {"OutOfRange"}, v) = rest
    <3>1. /\ Pushed("BadCrc", s, G \ {"OutOfRange"}, v) = << >>
          /\ Pushed("Duplicate", s, G \ {"OutOfRange"}, v) = << >>
          /\ Pushed("OutOfOrder", s, G \ {"OutOfRange"}, v) = << >>
          /\ Pushed("OutOfRange", s, G \ {"OutOfRange"}, v) = << >>
          /\ Pushed("BadLength", s, G \ {"OutOfRange"}, v) = P("BadLength")
      BY <1>2, <2>1 DEF Kinds
    <3>2. Extras(s, G \ {"OutOfRange"}, v) = << >> \o (<< >> \o (<< >> \o (<< >> \o (rest))))
      BY <3>1, Zenon DEF Extras
    <3>3. rest \in Seq(BusFrames)
      BY <2>2
    <3> HIDE DEF rest
    <3>4. << >> \o rest = rest
      BY <1>4, <3>3, Zenon
    <3> QED
      BY <3>2, <3>4, Zenon
  <2>4. Extras(s, G, v) = E("OutOfRange") \o rest
    <3>1. Extras(s, G, v) = << >> \o (<< >> \o (<< >> \o (E("OutOfRange") \o rest)))
      BY <1>5, <2>1, Zenon
    <3> QED
      BY <1>4, <2>2, <3>1
  <2> QED
    BY <1>9, <2>2, <2>3, <2>4 DEF E
<1>10. CASE "BadCrc" \notin G /\ "Duplicate" \notin G /\ "OutOfOrder" \notin G /\ "OutOfRange" \notin G /\ "BadLength" \in G
  <2>1. P("BadCrc") = << >> /\ P("Duplicate") = << >> /\ P("OutOfOrder") = << >> /\ P("OutOfRange") = << >> /\ P("BadLength") = E("BadLength")
    BY <1>3, <1>10 DEF Kinds
  <2>2. E("BadLength") \in Seq(BusFrames)
    BY <1>1 DEF Kinds
  <2>3. Extras(s, G \ {"BadLength"}, v) = << >>
    BY <1>2, <1>4, <2>1 DEF Extras, Kinds
  <2>4. Extras(s, G, v) = E("BadLength")
    BY <1>4, <1>5, <2>1, <2>2
  <2> QED
    BY <1>10, <2>2, <2>3, <2>4, <1>4 DEF E
<1> QED
  BY <1>6, <1>7, <1>8, <1>9, <1>10 DEF Kinds

LEMMA NoExtras ==
    ASSUME NEW s, NEW v
    PROVE  Extras(s, {}, v) = << >>
<1>1. << >> \o << >> = << >>
  OBVIOUS
<1> QED
  BY <1>1 DEF Extras, Pushed

LEMMA FrameAndRest ==
    ASSUME NEW S, NEW f \in S, NEW t \in Seq(S)
    PROVE  /\ << f >> \o t # << >>
           /\ Head(<< f >> \o t) = f
           /\ Tail(<< f >> \o t) = t
<1> DEFINE c == << f >> \o t
<1>1. /\ << f >> \in Seq(S) /\ Len(<< f >>) = 1 /\ << f >>[1] = f
      /\ Len(t) \in Nat
  OBVIOUS
<1>2. /\ c \in Seq(S) /\ Len(c) = 1 + Len(t)
      /\ \A i \in 1 .. 1 + Len(t) : c[i] = IF i <= 1 THEN f ELSE t[i - 1]
  BY <1>1, ConcatProperties
<1> HIDE DEF c
<1>3. c # << >> /\ Head(c) = f
  BY <1>1, <1>2
<1>4. /\ Tail(c) \in Seq(S) /\ Len(Tail(c)) = Len(t)
      /\ \A i \in 1 .. Len(t) : Tail(c)[i] = c[i + 1]
  BY <1>1, <1>2, <1>3, HeadTailProperties
<1>5. \A i \in 1 .. Len(t) : Tail(c)[i] = t[i]
  BY <1>1, <1>2, <1>4
<1>6. Tail(c) = t
  BY <1>4, <1>5, SeqEqual
<1> QED
  BY <1>3, <1>6 DEF c

-----------------------------------------------------------------------------
(* The counts of a run.                                                    *)

LEMMA RunCountsInit == RunInit => RunCounts
<1> SUFFICES ASSUME RunInit PROVE RunCounts
  OBVIOUS
<1>1. injected \in [Kinds -> Counts] /\ \A r \in Reject : Injected(r) = 0
  BY KindsAreReasons, CounterModAssumption DEF RunInit, BusInit, Injected, Counts
<1>2. Settled
  BY <1>1 DEF RunInit, Init, ValidatorInit, BusInit, Settled, CountedBut, Awaits
<1> QED
  BY <1>1, <1>2 DEF RunInit, RunCounts

LEMMA ReceiveCounts ==
    ASSUME RunShape, Inductive, RunCounts, NEW F \in FaultMenu, NEW v \in SensorValues,
           NEW freeze \in BOOLEAN, Receive(F, v, freeze)
    PROVE  RunCounts'
<1>1. Settled /\ work' = "step" /\ UNCHANGED validatorVars /\ RecvUntil(F, freeze)
      /\ inbox' = Delivered(F, v, freeze)
  BY DEF Receive, StepBegin, RunCounts
<1>2. CASE Silent(F, freeze)
  <2>1. inbox' = << >> /\ UNCHANGED << busSeq, emitted, injected >>
    BY <1>1, <1>2 DEF RecvUntil, Delivered
  <2>2. Settled'
    BY <1>1, <2>1 DEF Settled, CountedBut, Injected, Awaits, validatorVars
  <2> QED
    BY <1>1, <2>1, <2>2 DEF RunCounts, Undelivered
<1>3. CASE ~ Silent(F, freeze)
  <2>1. F \in SUBSET Kinds
    BY <1>3, FaultMenuAssumption, KindsAreReasons DEF Silent
  <2>2. /\ busSeq' = SeqSucc(busSeq) /\ emitted' = CountSucc(emitted)
        /\ injected' = [k \in DOMAIN injected |->
                           IF k \in F THEN CountSucc(injected[k]) ELSE injected[k]]
    BY <1>1, <1>3 DEF RecvUntil
  <2>3. DOMAIN injected = Kinds /\ injected' \in [Kinds -> Counts]
    BY <2>2, CountSuccType DEF RunCounts
  <2>4. inbox' = << SensorFrame(busSeq, v) >> \o Extras(busSeq, F, v)
    BY <1>1, <1>3 DEF Delivered, FramesOf
  <2>5. CountedBut(F)'
    <3> SUFFICES ASSUME NEW r \in Reject
                 PROVE  Injected(r)' = IF r \in F THEN CountSucc(byReason'[r]) ELSE byReason'[r]
      BY DEF CountedBut
    <3>1. Injected(r) = byReason[r] /\ byReason' = byReason
      BY <1>1 DEF Settled, CountedBut, validatorVars
    <3>2. CASE r \in Kinds
      BY <2>2, <2>3, <3>1, <3>2 DEF Injected
    <3>3. CASE r \notin Kinds
      BY <2>1, <2>2, <2>3, <3>1, <3>3 DEF Injected
    <3> QED
      BY <3>2, <3>3
  <2>6. emitted' = CountSucc(accepted')
    BY <1>1, <2>2 DEF Settled, validatorVars
  <2>7. \A last \in lastSeq' : SeqSucc(last) = busSeq
    BY <1>1 DEF Settled, Awaits, validatorVars
  <2>8. busSeq \in Seqs
    BY DEF RunShape
  <2>9. \E s \in Seqs, w \in SensorValues, G \in SUBSET Kinds :
           /\ busSeq' = SeqSucc(s)
           /\ GoodFirst(s, w, G)'
    BY <2>1, <2>2, <2>4, <2>5, <2>6, <2>7, <2>8 DEF GoodFirst, Awaits
  <2> QED
    BY <1>1, <2>3, <2>9 DEF RunCounts
<1> QED
  BY <1>2, <1>3

LEMMA TakeFrameCounts ==
    ASSUME RunShape, Inductive, RunCounts, TakeFrame
    PROVE  RunCounts'
<1>1. /\ work = "step" /\ work' = "step" /\ inbox # << >> /\ inbox' = Tail(inbox)
      /\ UNCHANGED << busSeq, emitted, injected >>
      /\ ValidateOk(Head(inbox)) \/ \E r \in Reject : ValidateErr(Head(inbox), r)
  BY DEF TakeFrame, IngestAccept, IngestReject, busVars
<1>2. lastSeq \subseteq Seqs /\ byReason \in [Reject -> Counts]
  BY DEF Inductive, TypeOK, ValidatorTypeOK
<1>3. PICK s \in Seqs, v \in SensorValues, G \in SUBSET Kinds :
         busSeq = SeqSucc(s) /\ (GoodFirst(s, v, G) \/ ExtrasLeft(s, v, G))
  BY <1>1 DEF RunCounts, Undelivered
<1>4. \E H \in SUBSET Kinds : ExtrasLeft(s, v, H)'
  <2>1. CASE GoodFirst(s, v, G)
    <3>1. SensorFrame(s, v) \in BusFrames /\ Extras(s, G, v) \in Seq(BusFrames)
      BY ExtrasType DEF SensorFrame, BusFrames
    <3>2. Head(inbox) = SensorFrame(s, v) /\ inbox' = Extras(s, G, v)
      BY <1>1, <2>1, <3>1, FrameAndRest DEF GoodFirst
    <3>3. \A r \in Reject : ~ ValidateErr(Head(inbox), r)
      BY <1>2, <2>1, <3>2, GoodIsAccepted DEF GoodFirst, ValidateErr, Attributed
    <3>4. ValidateOk(SensorFrame(s, v))
      BY <1>1, <3>2, <3>3
    <3>5. lastSeq' = {s} /\ accepted' = CountSucc(accepted) /\ byReason' = byReason
      BY <3>4 DEF ValidateOk, SensorFrame
    <3>6. CountedBut(G)'
      BY <1>1, <2>1, <3>5 DEF GoodFirst, CountedBut, Injected
    <3> QED
      BY <1>1, <2>1, <3>2, <3>5, <3>6 DEF GoodFirst, ExtrasLeft
  <2>2. CASE ExtrasLeft(s, v, G)
    <3>1. G # {}
      BY <1>1, <2>2, NoExtras DEF ExtrasLeft
    <3>2. PICK k \in G : Extras(s, G, v) = << Extra(s, k, v) >> \o Extras(s, G \ {k}, v)
      BY <3>1, FirstExtra
    <3>3. k \in Kinds /\ k \in Reject
      BY KindsAreReasons
    <3>4. Extra(s, k, v) \in BusFrames /\ Extras(s, G \ {k}, v) \in Seq(BusFrames)
      BY <3>3, ExtraIsBusFrame, ExtrasType DEF Kinds
    <3>5. Head(inbox) = Extra(s, k, v) /\ inbox' = Extras(s, G \ {k}, v)
      BY <1>1, <2>2, <3>2, <3>4, FrameAndRest DEF ExtrasLeft
    <3>6. /\ Fails(Extra(s, k, v), k)
          /\ \A r \in Reject : Attributed(Extra(s, k, v), r) => r = k
      BY <2>2, <3>3, ExtraIsRefused DEF ExtrasLeft
    <3>7. ValidateErr(Extra(s, k, v), k)
      BY <1>1, <3>3, <3>5, <3>6 DEF ValidateOk, Acceptable, ValidateErr
    <3>8. /\ byReason' = [byReason EXCEPT ![k] = CountSucc(byReason[k])]
          /\ UNCHANGED << lastSeq, accepted >>
      BY <3>7 DEF ValidateErr
    <3>9. CountedBut(G \ {k})'
      <4> SUFFICES ASSUME NEW r \in Reject
                   PROVE  Injected(r)' = IF r \in G \ {k} THEN CountSucc(byReason'[r])
                                                          ELSE byReason'[r]
        BY DEF CountedBut
      <4>1. Injected(r)' = Injected(r)
        BY <1>1 DEF Injected
      <4>2. Injected(r) = IF r \in G THEN CountSucc(byReason[r]) ELSE byReason[r]
        BY <2>2 DEF ExtrasLeft, CountedBut
      <4>3. byReason'[r] = IF r = k THEN CountSucc(byReason[r]) ELSE byReason[r]
        BY <1>2, <3>8
      <4> QED
        BY <4>1, <4>2, <4>3
    <3>10. ExtrasLeft(s, v, G \ {k})'
      BY <1>1, <2>2, <3>5, <3>8, <3>9 DEF ExtrasLeft
    <3> QED
      BY <3>10
  <2> QED
    BY <1>3, <2>1, <2>2
<1> QED
  BY <1>1, <1>3, <1>4 DEF RunCounts

LEMMA StepAndSendCounts ==
    ASSUME RunShape, Inductive, RunCounts, StepAndSend
    PROVE  RunCounts'
<1>1. /\ work = "step" /\ work' = "done" /\ inbox = << >>
      /\ UNCHANGED << validatorVars, busSeq, emitted, injected >>
  BY DEF StepAndSend, CommandSafe, CommandControl, Transmit, Send
<1>2. Settled
  <2>1. CASE Undelivered
    BY <2>1 DEF Undelivered
  <2>2. CASE ~ Undelivered
    <3>1. PICK s \in Seqs, v \in SensorValues, G \in SUBSET Kinds :
             busSeq = SeqSucc(s) /\ (GoodFirst(s, v, G) \/ ExtrasLeft(s, v, G))
      BY <1>1, <2>2 DEF RunCounts
    <3>2. ~ GoodFirst(s, v, G)
      <4>1. SensorFrame(s, v) \in BusFrames /\ Extras(s, G, v) \in Seq(BusFrames)
        BY ExtrasType DEF SensorFrame, BusFrames
      <4> QED
        BY <1>1, <4>1, FrameAndRest DEF GoodFirst
    <3>3. G = {}
      <4> SUFFICES ASSUME G # {} PROVE FALSE
        OBVIOUS
      <4>1. PICK k \in G : Extras(s, G, v) = << Extra(s, k, v) >> \o Extras(s, G \ {k}, v)
        BY FirstExtra
      <4>2. Extra(s, k, v) \in BusFrames /\ Extras(s, G \ {k}, v) \in Seq(BusFrames)
        BY ExtraIsBusFrame, ExtrasType DEF Kinds
      <4> QED
        BY <1>1, <3>1, <3>2, <4>1, <4>2, FrameAndRest DEF ExtrasLeft
    <3> QED
      BY <3>1, <3>2, <3>3 DEF ExtrasLeft, Settled, Awaits
  <2> QED
    BY <2>1, <2>2
<1>3. Settled'
  BY <1>1, <1>2 DEF Settled, CountedBut, Injected, Awaits, validatorVars
<1> QED
  BY <1>1, <1>3 DEF RunCounts

LEMMA RunCountsNext ==
    RunShape /\ Inductive /\ RunCounts /\ [RunNext]_runVars => RunCounts'
<1> SUFFICES ASSUME RunShape, Inductive, RunCounts, [RunNext]_runVars
             PROVE  RunCounts'
  OBVIOUS
<1>1. ASSUME NEW t \in 0 .. LastInstant, Sleep(t) \/ EndOfCycle(t)
      PROVE  RunCounts'
  <2>1. /\ work # "step" /\ work' # "step"
        /\ UNCHANGED << validatorVars, busSeq, emitted, injected >>
    BY <1>1 DEF Sleep, WakeUp, EndOfCycle, RunShape, vars, busVars
  <2>2. Settled'
    BY <2>1 DEF RunCounts, Settled, CountedBut, Injected, Awaits, validatorVars
  <2> QED
    BY <2>1, <2>2 DEF RunCounts
<1>2. CASE UNCHANGED runVars
  <2>1. UNCHANGED << work, inbox, lastSeq, accepted, byReason, busSeq, emitted, injected >>
    BY <1>2 DEF runVars, vars, validatorVars, busVars
  <2> QED
    BY <2>1 DEF RunCounts, Settled, Undelivered, GoodFirst, ExtrasLeft, CountedBut, Injected, Awaits
<1> QED
  BY <1>1, <1>2, ReceiveCounts, TakeFrameCounts, StepAndSendCounts DEF RunNext

\* For every schedule of faults, width of a sequence number and lateness: no
\* legitimate frame is refused and each injected one is refused once, under its
\* own reason; the counters wrap together (bus.rs:236-240, report.rs:723-735).
THEOREM HistogramIsExact == RunSpec => []ExactHistogram
<1>1. RunInit => RunCounts
  BY RunCountsInit
<1>2. RunShape /\ Inductive /\ RunCounts /\ [RunNext]_runVars => RunCounts'
  BY RunCountsNext
<1>3. RunShape /\ Inductive /\ RunCounts => ExactHistogram
  <2> SUFFICES ASSUME RunShape, RunCounts, phase = "idle"
               PROVE  /\ accepted = emitted
                      /\ \A r \in Reject : byReason[r] = IF r \in DOMAIN injected THEN injected[r] ELSE 0
    BY DEF ExactHistogram
  <2>1. Settled
    BY DEF RunShape, RunCounts
  <2> QED
    BY <2>1 DEF Settled, CountedBut, Injected
<1> QED
  BY <1>1, <1>2, <1>3, RunTimingAlways, PTL DEF RunSpec

-----------------------------------------------------------------------------
(* On schedule.                                                            *)

\* Thresholds under which the can-corrupt control and the positive run are
\* told apart on the virtual clock: every instant on schedule, no missed
\* deadline to report, one bucket of jitter allowed and no refused frame, and
\* a schedule too short to turn a counter over (frozen.json positive_gate).
CorruptThresholds ==
    /\ MaxLate = 0 /\ 5 * Cycles < CounterMod
    /\ BUCKET_WIDTH_US <= p99_jitter_us_max /\ rejected_frames_max = 0
    /\ ~ watchdog_may_trip

\* No jitter and no miss, and a ledger that never finds a skipped period.
RunOnSchedule ==
    /\ jitter \in Stats
    /\ jitter.missed = 0 /\ jitter.buckets[0] = jitter.count
    /\ nextUnaccounted = IF stage = "running" THEN cycle + 1 ELSE cycle

\* At most one frame of each kind per cycle.
RunInjects == \A k \in Kinds : injected[k] <= Received

LEMMA NoMisses ==
    ASSUME NEW s \in Stats
    PROVE  WithMisses(s, 0) = s
  BY DEF WithMisses, Stats

LEMMA SampleOnTime ==
    ASSUME NEW s \in Stats, s.missed = 0, s.buckets[0] = s.count
    PROVE  LET t == WithSample(s, 0)
           IN  t \in Stats /\ t.missed = 0 /\ t.buckets[0] = t.count
<1> DEFINE t == WithSample(s, 0)
<1>1. BucketOf(0) = 0 /\ 0 \in Buckets
  <2>1. 0 \div BUCKET_WIDTH_US = 0
    BY BucketAssumption, Z3
  <2> QED
    BY <2>1, BucketAssumption DEF BucketOf, Buckets
<1>2. /\ t \in Stats /\ t.buckets = [s.buckets EXCEPT ![0] = @ + 1]
      /\ t.count = s.count + 1
  BY <1>1, SampleFields
<1>3. t.missed = s.missed
  BY DEF WithSample, Stats
<1>4. s.buckets \in [Buckets -> Nat]
  BY DEF Stats
<1> HIDE DEF t
<1>5. t.buckets[0] = s.buckets[0] + 1
  BY <1>1, <1>2, <1>4
<1> QED
  BY <1>2, <1>3, <1>5 DEF t

LEMMA OnItsPeriod == cycle \in Nat => Period(ScheduledUs) = cycle
<1> SUFFICES ASSUME cycle \in Nat PROVE (cycle * PeriodUs) \div PeriodUs = cycle
  BY DEF Period, ScheduledUs
<1> DEFINE t == cycle * PeriodUs
<1>1. t \in Nat /\ PeriodUs * cycle = t /\ PeriodUs * (cycle + 1) = t + PeriodUs
  BY PeriodAssumption, Z3
<1> DEFINE q == t \div PeriodUs
<1>2. q \in Nat /\ PeriodUs * q <= t /\ t < PeriodUs * (q + 1)
  <2> HIDE DEF t
  <2> QED
    BY <1>1, PeriodAssumption, Z3
<1> HIDE DEF t, q
<1>3. ASSUME q + 1 <= cycle PROVE FALSE
  <2>1. PeriodUs * (q + 1) <= PeriodUs * cycle
    BY <1>2, <1>3, PeriodAssumption, Z3
  <2>2. PeriodUs * (q + 1) \in Int
    BY <1>2, PeriodAssumption, Z3
  <2> QED
    BY <1>1, <1>2, <2>1, <2>2
<1>4. ASSUME cycle + 1 <= q PROVE FALSE
  <2>1. PeriodUs * (cycle + 1) <= PeriodUs * q
    BY <1>2, <1>4, PeriodAssumption, Z3
  <2>2. PeriodUs * q \in Int
    BY <1>2, PeriodAssumption, Z3
  <2> QED
    BY <1>1, <1>2, <2>1, <2>2, PeriodAssumption
<1>5. q = cycle
  BY <1>2, <1>3, <1>4
<1> QED
  BY <1>5 DEF t, q

LEMMA RunOnScheduleInit == RunInit => RunOnSchedule
<1> SUFFICES ASSUME RunInit PROVE RunOnSchedule
  OBVIOUS
<1>1. NewStats \in Stats /\ NewStats.missed = 0 /\ NewStats.count = 0 /\ NewStats.buckets[0] = 0
  BY BucketAssumption DEF NewStats, Stats, Buckets
<1> QED
  BY <1>1 DEF RunInit, RunnerInit, RunOnSchedule

LEMMA RunOnScheduleNext ==
    ASSUME MaxLate = 0, RunShape, RunOnSchedule, [RunNext]_runVars
    PROVE  RunOnSchedule'
<1>1. cycle \in Nat /\ ScheduledUs \in Nat
  BY PeriodAssumption, Z3 DEF RunShape, ScheduledUs
<1>2. ASSUME NEW t \in 0 .. LastInstant, Sleep(t)
      PROVE  RunOnSchedule'
  <2>1. t \in Nat
    BY LastInstantAssumption
  <2>2. t = ScheduledUs
    BY <1>1, <1>2, <2>1 DEF Sleep, WakeUp
  <2>3. Period(t) = cycle /\ t - ScheduledUs = 0
    BY <1>1, <2>2, OnItsPeriod
  <2>4. stage = "asleep" /\ stage' = "running" /\ cycle' = cycle /\ nextUnaccounted' = cycle + 1
    BY <1>2, <2>3 DEF Sleep, WakeUp, Standing
  <2>5. nextUnaccounted = cycle
    BY <2>4 DEF RunOnSchedule
  <2>6. SkippedCount(t) = 0
    BY <1>1, <2>3, <2>5 DEF SkippedCount
  <2>7. WithSample(jitter, 0) \in Stats
    BY SampleOnTime DEF RunOnSchedule
  <2>8. jitter' = WithSample(jitter, 0)
    BY <1>2, <2>3, <2>6, <2>7, NoMisses DEF Sleep
  <2> QED
    BY <2>4, <2>8, SampleOnTime DEF RunOnSchedule
<1>3. ASSUME NEW t \in 0 .. LastInstant, EndOfCycle(t)
      PROVE  RunOnSchedule'
  <2>1. t \in Nat
    BY LastInstantAssumption
  <2>2. t <= ScheduledUs
    BY <1>1, <1>3, <2>1 DEF EndOfCycle
  <2>3. ~ (t > DeadlineUs)
    BY <1>1, <2>1, <2>2, PeriodAssumption DEF DeadlineUs
  <2>4. jitter' = jitter
    BY <1>3, <2>3, NoMisses DEF EndOfCycle, RunOnSchedule
  <2>5. /\ stage = "running" /\ stage' = "asleep" /\ cycle' = cycle + 1
        /\ nextUnaccounted' = nextUnaccounted
    BY <1>3 DEF EndOfCycle, EndCycleAt
  <2> QED
    BY <2>4, <2>5 DEF RunOnSchedule
<1>4. ASSUME UNCHANGED clockVars
      PROVE  RunOnSchedule'
  BY <1>4 DEF clockVars, runnerVars, RunOnSchedule
<1>5. CASE UNCHANGED runVars
  BY <1>4, <1>5 DEF runVars
<1> QED
  BY <1>2, <1>3, <1>4, <1>5 DEF RunNext, Receive, TakeFrame, StepAndSend

LEMMA RunInjectsInit == RunInit => RunInjects
  BY DEF RunInit, BusInit, RunnerInit, RunInjects, Received, Kinds, Fault

LEMMA RunInjectsNext ==
    ASSUME RunShape, RunCounts, RunInjects, [RunNext]_runVars
    PROVE  RunInjects'
<1>1. cycle \in Nat /\ injected \in [Kinds -> Counts] /\ CounterMod \in Nat /\ Received \in Nat
  BY CounterModAssumption DEF RunShape, RunCounts, Received
<1>2. ASSUME NEW F \in FaultMenu, NEW v \in SensorValues, NEW freeze \in BOOLEAN,
             Receive(F, v, freeze)
      PROVE  RunInjects'
  <2>1. Received' = Received + 1
    BY <1>2 DEF Receive, clockVars, runnerVars, Received
  <2>2. ASSUME NEW k \in Kinds PROVE injected'[k] \in {injected[k], CountSucc(injected[k])}
    BY <1>1, <1>2 DEF Receive, RecvUntil
  <2>3. ASSUME NEW k \in Kinds
        PROVE  injected[k] \in Nat /\ CountSucc(injected[k]) <= injected[k] + 1
    BY <1>1 DEF CountSucc, Counts
  <2>4. ASSUME NEW k \in Kinds PROVE CountSucc(injected[k]) \in Nat
    BY <1>1 DEF CountSucc, Counts
  <2> QED
    BY <1>1, <2>1, <2>2, <2>3, <2>4 DEF RunInjects
<1>3. ASSUME UNCHANGED injected, Received' = Received
      PROVE  RunInjects'
  BY <1>3 DEF RunInjects
<1>4. ASSUME NEW t \in 0 .. LastInstant, Sleep(t) \/ EndOfCycle(t)
      PROVE  RunInjects'
  <2>1. UNCHANGED injected
    BY <1>4 DEF Sleep, EndOfCycle, busVars
  <2>2. Received' = Received
    BY <1>4 DEF Sleep, EndOfCycle, WakeUp, EndCycleAt, Received
  <2> QED
    BY <1>3, <2>1, <2>2
<1>5. CASE TakeFrame
  BY <1>3, <1>5 DEF TakeFrame, clockVars, runnerVars, busVars, Received
<1>6. CASE StepAndSend
  BY <1>3, <1>6 DEF StepAndSend, Send, clockVars, runnerVars, Received
<1>7. CASE UNCHANGED runVars
  BY <1>3, <1>7 DEF runVars, clockVars, runnerVars, busVars, Received
<1> QED
  BY <1>2, <1>4, <1>5, <1>6, <1>7 DEF RunNext

-----------------------------------------------------------------------------
(* The can-corrupt control.                                                *)

\* A run whose every sample is 0 reports a p99 of at most one bucket.
LEMMA OnTimePercentile ==
    ASSUME NEW s \in Stats, s.buckets[0] = s.count
    PROVE  P99(s) \in {0, BUCKET_WIDTH_US}
<1>1. s.count \in Nat /\ s.buckets \in [Buckets -> Nat] /\ 0 \in Buckets /\ Buckets \in SUBSET Nat
  BY BucketAssumption DEF Stats, Buckets
<1>2. CASE s.count = 0
  BY <1>2 DEF P99, Percentile
<1>3. CASE s.count # 0
  <2> DEFINE reached == {i \in Buckets : SumFunctionOnSet(s.buckets, 0 .. i) >= Rank(s, 990)}
             first == CHOOSE i \in reached : \A j \in reached : i <= j
  <2>1. SumFunctionOnSet(s.buckets, 0 .. 0) = s.count
    <3> DEFINE b == s.buckets
    <3>1. 0 .. 0 = {0} /\ {0} \ {0} = {}
      OBVIOUS
    <3>2. NatValued(b, {0})
      BY <1>1, FS_Singleton DEF NatValued
    <3>3. b[0] = s.count
      OBVIOUS
    <3> HIDE DEF b
    <3>4. SumFunctionOnSet(b, {0}) = b[0] + SumFunctionOnSet(b, {0} \ {0})
      BY <3>2, SumSplit
    <3>5. SumFunctionOnSet(b, {}) = 0
      BY SumOfNone
    <3>6. SumFunctionOnSet(b, {0}) = s.count
      BY <1>1, <3>1, <3>3, <3>4, <3>5
    <3> QED
      BY <3>1, <3>6 DEF b
  <2>2. Rank(s, 990) \in 1 .. s.count
    <3>1. s.count > 0 /\ 990 \in Permilles
      BY <1>1, <1>3 DEF Permilles
    <3> QED
      BY <1>1, <3>1, RankReached
  <2>3. 0 \in reached
    BY <1>1, <2>1, <2>2
  <2>4. \A j \in reached : j \in Nat
    BY <1>1
  <2> HIDE DEF reached
  <2>5. first \in reached /\ first <= 0
    BY <2>3, <2>4
  <2>6. first = 0
    BY <2>4, <2>5
  <2>7. P99(s) = IF first = NUM_BUCKETS THEN OVERFLOW_FLOOR_US ELSE (first + 1) * BUCKET_WIDTH_US
    BY <1>3, Zenon DEF P99, Percentile, reached
  <2> HIDE DEF first
  <2> QED
    BY <2>6, <2>7, BucketAssumption
<1> QED
  BY <1>2, <1>3

\* What was injected in all, kind by kind.
LEMMA InjectedInAll ==
    ASSUME RunCounts
    PROVE  /\ SumFunction(injected) =
                 injected["BadCrc"] + injected["Duplicate"] + injected["OutOfOrder"]
                 + injected["OutOfRange"] + injected["BadLength"]
           /\ \A k \in Kinds : injected[k] \in Nat
<1>1. injected \in [Kinds -> Counts] /\ \A n \in Counts : n \in Nat
  BY CounterModAssumption DEF RunCounts, Counts
<1>2. \A k \in Kinds : injected[k] \in Nat
  BY <1>1
<1> DEFINE A == {"Duplicate", "OutOfOrder", "OutOfRange", "BadLength"}
           B == {"OutOfOrder", "OutOfRange", "BadLength"}
           C == {"OutOfRange", "BadLength"}
           D == {"BadLength"}
           total(S) == SumFunctionOnSet(injected, S)
<1>3. /\ Kinds \ {"BadCrc"} = A /\ A \ {"Duplicate"} = B /\ B \ {"OutOfOrder"} = C
      /\ C \ {"OutOfRange"} = D /\ D \ {"BadLength"} = {}
      /\ "BadCrc" \in Kinds /\ "Duplicate" \in A /\ "OutOfOrder" \in B /\ "OutOfRange" \in C
      /\ "BadLength" \in D
  BY DEF Kinds
<1>4. IsFiniteSet(D) /\ IsFiniteSet(C) /\ IsFiniteSet(B) /\ IsFiniteSet(A) /\ IsFiniteSet(Kinds)
  <2>1. IsFiniteSet(D)
    BY FS_Singleton
  <2>2. /\ C = D \cup {"OutOfRange"} /\ B = C \cup {"OutOfOrder"}
        /\ A = B \cup {"Duplicate"} /\ Kinds = A \cup {"BadCrc"}
    BY DEF Kinds
  <2> HIDE DEF A, B, C, D
  <2>3. IsFiniteSet(C)
    BY <2>1, <2>2, FS_AddElement
  <2>4. IsFiniteSet(B)
    BY <2>2, <2>3, FS_AddElement
  <2>5. IsFiniteSet(A)
    BY <2>2, <2>4, FS_AddElement
  <2>6. IsFiniteSet(Kinds)
    BY <2>2, <2>5, FS_AddElement
  <2> QED
    BY <2>1, <2>3, <2>4, <2>5, <2>6
<1>5. A \in SUBSET Kinds /\ B \in SUBSET Kinds /\ C \in SUBSET Kinds /\ D \in SUBSET Kinds
  BY DEF Kinds
<1> HIDE DEF A, B, C, D
<1>6. /\ NatValued(injected, Kinds) /\ NatValued(injected, A) /\ NatValued(injected, B)
      /\ NatValued(injected, C) /\ NatValued(injected, D)
  BY <1>2, <1>4, <1>5 DEF NatValued
<1> HIDE DEF total
<1>7. ASSUME NEW S, NEW x \in S, NatValued(injected, S)
      PROVE  total(S) = injected[x] + total(S \ {x})
  BY <1>7, SumSplit DEF total
<1>8. /\ total(Kinds) = injected["BadCrc"] + total(A)
      /\ total(A) = injected["Duplicate"] + total(B)
      /\ total(B) = injected["OutOfOrder"] + total(C)
      /\ total(C) = injected["OutOfRange"] + total(D)
      /\ total(D) = injected["BadLength"] + total({})
  <2>1. total(Kinds) = injected["BadCrc"] + total(A)
    BY <1>3, <1>6, <1>7
  <2>2. total(A) = injected["Duplicate"] + total(B)
    BY <1>3, <1>6, <1>7
  <2>3. total(B) = injected["OutOfOrder"] + total(C)
    BY <1>3, <1>6, <1>7
  <2>4. total(C) = injected["OutOfRange"] + total(D)
    BY <1>3, <1>6, <1>7
  <2>5. total(D) = injected["BadLength"] + total({})
    BY <1>3, <1>6, <1>7
  <2> QED
    BY <2>1, <2>2, <2>3, <2>4, <2>5
<1>9. total({}) = 0
  BY SumOfNone DEF total
<1>10. SumFunction(injected) = total(Kinds)
  BY <1>1, Zenon DEF SumFunction, total
<1> DEFINE a == injected["BadCrc"]
           b == injected["Duplicate"]
           c == injected["OutOfOrder"]
           d == injected["OutOfRange"]
           e == injected["BadLength"]
<1>11. a \in Nat /\ b \in Nat /\ c \in Nat /\ d \in Nat /\ e \in Nat
  BY <1>2 DEF Kinds
<1>12. total(Kinds) = a + b + c + d + e
  <2> HIDE DEF a, b, c, d, e
  <2> QED
    BY <1>8, <1>9, <1>11 DEF a, b, c, d, e
<1> QED
  BY <1>2, <1>10, <1>12

\* Between two steps all that was injected was refused, and the total of the
\* refusals is exact as long as no counter can have turned over.
LEMMA RefusalsAreInjections ==
    ASSUME RunCounts, RunInjects, Inductive, Accounted, Settled, Received = Cycles,
           5 * Cycles < CounterMod
    PROVE  rejected = SumFunction(injected) /\ SumFunction(injected) \in Nat
<1> DEFINE a == injected["BadCrc"]
           b == injected["Duplicate"]
           c == injected["OutOfOrder"]
           d == injected["OutOfRange"]
           e == injected["BadLength"]
<1>1. /\ a \in Nat /\ b \in Nat /\ c \in Nat /\ d \in Nat /\ e \in Nat
      /\ SumFunction(injected) = a + b + c + d + e
  BY InjectedInAll DEF Kinds
<1>2. a <= Cycles /\ b <= Cycles /\ c <= Cycles /\ d <= Cycles /\ e <= Cycles
  BY DEF RunInjects, Kinds
<1>3. DOMAIN injected = Kinds /\ \A r \in Reject : byReason[r] = Injected(r)
  BY DEF RunCounts, Settled, CountedBut
<1>4. /\ byReason["BadCrc"] = a /\ byReason["Duplicate"] = b /\ byReason["OutOfOrder"] = c
      /\ byReason["OutOfRange"] = d /\ byReason["BadLength"] = e
      /\ byReason["UnknownPgn"] = 0 /\ byReason["UnexpectedSource"] = 0
      /\ byReason["BadReserved"] = 0
  BY <1>3 DEF Injected, Kinds, Reject, WireFaults
<1>5. Refusals = e + 0 + 0 + a + 0 + b + c + d
  BY <1>4, Zenon DEF Refusals
<1> HIDE DEF a, b, c, d, e
<1>6. Refusals = SumFunction(injected) /\ Refusals \in Nat /\ Refusals < CounterMod
  BY <1>1, <1>2, <1>5, CyclesAssumption, CounterModAssumption
<1>7. PICK k \in Int : Refusals = rejected + CounterMod * k
  BY DEF Accounted
<1>8. rejected \in Nat /\ rejected < CounterMod /\ CounterMod \in Nat
  BY CounterModAssumption DEF Inductive, TypeOK, ValidatorTypeOK, Counts
<1>9. k = 0
  <2>1. ASSUME k >= 1 PROVE CounterMod * k >= CounterMod
    BY <1>8, <2>1, Z3
  <2>2. ASSUME k <= -1 PROVE CounterMod * k <= -CounterMod
    BY <1>8, <2>2, Z3
  <2>3. CounterMod * k \in Int
    BY <1>8
  <2> QED
    BY <1>6, <1>7, <1>8, <2>1, <2>2, <2>3
<1>10. CounterMod * k = 0
  BY <1>8, <1>9
<1> QED
  BY <1>6, <1>7, <1>8, <1>10

\* On schedule, the can-corrupt control is caught for every schedule that
\* injects a frame, whatever cycles are dropped or duplicated around it, and a
\* schedule that injects none passes the positive gate unless the sensor was
\* silent long enough to trip the node (report.rs:695-747).
THEOREM CorruptIsCaught == CorruptThresholds => (RunSpec => []CorruptCaught)
<1> SUFFICES ASSUME CorruptThresholds PROVE RunSpec => []CorruptCaught
  OBVIOUS
<1>1. /\ MaxLate = 0 /\ 5 * Cycles < CounterMod /\ BUCKET_WIDTH_US <= p99_jitter_us_max
      /\ rejected_frames_max = 0 /\ ~ watchdog_may_trip
  BY DEF CorruptThresholds
<1>2. RunShape /\ Inductive /\ RunTrip /\ RunCounts /\ RunnerInductive /\ RunOnSchedule
        /\ RunInjects /\ Accounted => CorruptCaught
  <2> SUFFICES ASSUME RunShape, Inductive, RunTrip, RunCounts, RunnerInductive, RunOnSchedule,
                      RunInjects, Accounted, Finished
               PROVE  IF Expected.rejected > 0
                      THEN Verdict("can-corrupt", RunOutcome, Expected)
                      ELSE Verdict("positive", RunOutcome, Expected) <=> latched = {}
    BY Zenon DEF CorruptCaught
  <2>1. stage = "asleep" /\ work = "done" /\ Received = Cycles
    BY CyclesAssumption DEF Finished, RunnerInductive, RunShape, Received
  <2>2. Settled
    BY <2>1 DEF RunCounts
  <2>3. rejected = SumFunction(injected) /\ SumFunction(injected) \in Nat
    BY <1>1, <2>1, <2>2, RefusalsAreInjections
  <2>4. /\ accepted = emitted
        /\ \A r \in Reject : byReason[r] = IF r \in DOMAIN injected THEN injected[r] ELSE 0
    BY <2>2 DEF Settled, CountedBut, Injected
  <2> DEFINE o == RunOutcome
             x == Expected
  <2>5. /\ o.jitter = jitter /\ o.accepted = accepted /\ o.rejected = rejected
        /\ o.byReason = byReason /\ o.safeState = latched
    BY DEF RunOutcome, RunTrip
  <2>6. /\ x.rejected = SumFunction(injected) /\ x.accepted = emitted
        /\ DOMAIN x.byReason = Reject
        /\ \A r \in Reject : x.byReason[r] = IF r \in DOMAIN injected THEN injected[r] ELSE 0
    BY DEF Expected
  <2>7. /\ Verdict("can-corrupt", o, x) <=> CanCorruptCaught(o, x)
        /\ Verdict("positive", o, x) <=> GatePass(o)
    BY DEF Verdict
  <2> HIDE DEF o, x
  <2>8. CASE x.rejected > 0
    <3>1. ~ GatePass(o)
      BY <1>1, <2>3, <2>5, <2>6, <2>8 DEF GatePass
    <3>2. CanCorruptCaught(o, x)
      BY <2>3, <2>4, <2>5, <2>6, <3>1 DEF CanCorruptCaught
    <3> QED
      BY <2>7, <2>8, <3>2 DEF o, x
  <2>9. CASE ~ (x.rejected > 0)
    <3>1. o.rejected = 0
      BY <2>3, <2>5, <2>6, <2>9
    <3>2. P99(o.jitter) <= p99_jitter_us_max
      BY <1>1, <2>5, OnTimePercentile, ManifestAssumption, BucketAssumption DEF RunOnSchedule
    <3>3. o.jitter.missed <= missed_deadlines_max
      BY <2>5, ManifestAssumption DEF RunOnSchedule
    <3>4. GatePass(o) <=> latched = {}
      BY <1>1, <2>5, <3>1, <3>2, <3>3 DEF GatePass
    <3> QED
      BY <2>7, <2>9, <3>4 DEF o, x
  <2> QED
    BY <2>8, <2>9 DEF x
<1>3. RunInit => RunCounts /\ RunOnSchedule /\ RunInjects
  BY RunCountsInit, RunOnScheduleInit, RunInjectsInit
<1>4. RunShape /\ Inductive /\ RunCounts /\ RunOnSchedule /\ RunInjects /\ [RunNext]_runVars
        => RunCounts' /\ RunOnSchedule' /\ RunInjects'
  BY <1>1, RunCountsNext, RunOnScheduleNext, RunInjectsNext
<1> QED
  BY <1>2, <1>3, <1>4, RunTimingAlways, RunTripAlways, RunKeepsPeriods, RunnerInvariant,
     RunDrivesTheNode, AccountedAlways, PTL DEF RunSpec, NodeBehaviour
=============================================================================
