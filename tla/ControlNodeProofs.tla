-------------------------- MODULE ControlNodeProofs --------------------------
(***************************************************************************)
(* Theorems of ControlNode for every budget, width, gain, clock and menu   *)
(* of frames.                                                              *)
(***************************************************************************)
EXTENDS ControlNode, TLAPS

-----------------------------------------------------------------------------
(* Arithmetic of the control law.                                          *)

\* The sign of a product with a gain.
LEMMA ProductSign ==
    ASSUME NEW k \in Nat, NEW e \in Int
    PROVE  /\ k * e \in Int
           /\ e >= 0 => k * e >= 0
           /\ e <= 0 => k * e <= 0
           /\ k > 0 /\ e > 0 => k * e > 0
           /\ k > 0 /\ e < 0 => k * e < 0
  BY Z3

LEMMA GainSplit ==
    ASSUME NEW k \in Nat, NEW i \in Int, NEW e \in Int
    PROVE  k * (i + e) = k * i + k * e
  BY Z3

\* Integrate keeps the integral an integer inside the output's authority.
LEMMA IntegrateInAuthority ==
    ASSUME NEW i \in Int, NEW e \in Int, Within(Ki * i)
    PROVE  /\ Integrate(i, e) \in Int
           /\ Within(Ki * Integrate(i, e))
<1> USE GainAssumption, LimitAssumption
<1> DEFINE c == i + e
<1>1. Kp * e \in Int /\ (e >= 0 => Kp * e >= 0) /\ (e <= 0 => Kp * e <= 0)
  BY ProductSign
<1>2. Ki * e \in Int /\ (e >= 0 => Ki * e >= 0) /\ (e <= 0 => Ki * e <= 0)
  BY ProductSign
<1>3. Ki * i \in Int
  BY ProductSign
<1>4. Ki * c = Ki * i + Ki * e
  BY GainSplit
<1>5. ASSUME Within(Kp * e + Ki * c) PROVE Within(Ki * c)
  BY <1>1, <1>2, <1>3, <1>4, <1>5 DEF Within
<1>6. QED
  BY <1>5 DEF Integrate, Unsaturated

\* The output respects the limits, whatever the integral.
LEMMA OutputWithinLimits ==
    ASSUME NEW i \in Int, NEW e \in Int
    PROVE  PiOutput(i, e) \in OutMin .. OutMax
<1> USE GainAssumption, LimitAssumption
<1>1. Kp * e \in Int /\ Ki * i \in Int
  BY ProductSign
<1>2. QED
  BY <1>1 DEF PiOutput, Clamp, Unsaturated

\* Blending stays between the old value and the sample.
LEMMA BlendInHull ==
    ASSUME NEW o \in Int, NEW x \in Int, NEW lo \in Int, NEW hi \in Int,
           lo <= o, o <= hi, lo <= x, x <= hi
    PROVE  /\ Blend(o, x) \in Int
           /\ lo <= Blend(o, x)
           /\ Blend(o, x) <= hi
<1> USE AlphaAssumption
<1> DEFINE d == x - o
<1> DEFINE p == AlphaNum * d
<1> DEFINE q == p \div AlphaDen
<1>1. p \in Int /\ d \in Int
  BY Z3
<1>2. q \in Int /\ AlphaDen * q <= p /\ p < AlphaDen * (q + 1)
  BY <1>1, Z3
<1>3. CASE d >= 0
  <2>1. 0 <= p /\ p <= AlphaDen * d
    BY <1>3, <1>1, Z3
  <2>2. q >= 0
    BY <1>1, <1>2, <2>1, Z3
  <2>3. q <= d
    BY <1>1, <1>2, <2>1, Z3
  <2>4. QED
    BY <1>1, <1>2, <2>2, <2>3, <1>3 DEF Blend
<1>4. CASE d < 0
  <2>1. p <= 0 /\ AlphaDen * d <= p
    BY <1>4, <1>1, Z3
  <2>2. q <= 0
    BY <1>1, <1>2, <2>1, Z3
  <2>3. d <= q
    BY <1>1, <1>2, <2>1, Z3
  <2>4. QED
    BY <1>1, <1>2, <2>2, <2>3, <1>4 DEF Blend
<1>5. QED
  BY <1>1, <1>3, <1>4

\* The output leaves a limit as soon as the error points away from it.
LEMMA OutputLeavesLimit ==
    ASSUME NEW i \in Int, NEW e \in Int, Within(Ki * i)
    PROVE  LET a == PiOutput(Integrate(i, e), e)
           IN  (e < 0 => a < OutMax) /\ (e > 0 => a > OutMin)
<1> USE GainAssumption, LimitAssumption
<1> DEFINE j == Integrate(i, e)
<1>1. j \in Int /\ Within(Ki * j)
  BY IntegrateInAuthority
<1>2. Ki * j \in Int
  BY <1>1, ProductSign
<1>3. /\ Kp * e \in Int
      /\ e > 0 => Kp * e > 0
      /\ e < 0 => Kp * e < 0
  BY ProductSign
<1>4. OutMin <= Ki * j /\ Ki * j <= OutMax
  BY <1>1 DEF Within
<1> HIDE DEF j
<1>5. /\ e < 0 => Kp * e + Ki * j < OutMax
      /\ e > 0 => Kp * e + Ki * j > OutMin
  BY <1>2, <1>3, <1>4
<1>6. /\ e < 0 => PiOutput(j, e) < OutMax
      /\ e > 0 => PiOutput(j, e) > OutMin
  BY <1>2, <1>3, <1>5 DEF PiOutput, Clamp, Unsaturated
<1>7. QED
  BY <1>6 DEF j
-----------------------------------------------------------------------------
(* The pieces of the node.                                                 *)

LEMMA SeqSuccType == ASSUME NEW s \in Seqs PROVE SeqSucc(s) \in Seqs
  BY SeqModAssumption DEF SeqSucc, Seqs

LEMMA CountSuccType == ASSUME NEW c \in Counts PROVE CountSucc(c) \in Counts
  BY CounterModAssumption DEF CountSucc, Counts

\* An accepted reading lies in the plausible range.
LEMMA AcceptedInRange ==
    ASSUME NEW f, Acceptable(f)
    PROVE  f.value \in VALUE_MIN .. VALUE_MAX
<1>1. "OutOfRange" \in Reject /\ "OutOfRange" \notin WireFaults
  BY DEF Reject, WireFaults
<1>2. Fails(f, "OutOfRange") <=> f.value \notin VALUE_MIN .. VALUE_MAX
  BY <1>1 DEF Fails
<1>3. QED
  BY <1>1, <1>2 DEF Acceptable

\* A trip records the last accepted reading and the check that saw it stale.
LEMMA CheckedTypes ==
    ASSUME WatchdogTypeOK, now \in Nat
    PROVE  Checked(now) \in SUBSET SafeState
  BY DEF WatchdogTypeOK, Checked, SafeState

LEMMA TransmitTypes ==
    ASSUME TypeOK, NEW a \in Int, NEW status \in {StatusOk, StatusSafe},
           Transmit(a, status)
    PROVE  /\ output' \in SUBSET StepOutput
           /\ txSeq' \in Seqs
           /\ \A o \in output' : /\ o.status = status
                                 /\ o.actuator = a
                                 /\ o.at = now
                                 /\ o.command = Quantise(a)
           /\ \E o \in output' : TRUE
<1>1. Quantise(a) \in Int
  BY OutScaleAssumption DEF Quantise
<1>2. SeqSucc(txSeq) \in Seqs
  BY SeqSuccType DEF TypeOK
<1>3. QED
  BY <1>1, <1>2 DEF Transmit, TypeOK, StepOutput

-----------------------------------------------------------------------------
(* The inductive invariant.                                                *)

LEMMA InductiveInit == Init => Inductive
<1> SUFFICES ASSUME Init PROVE Inductive
  OBVIOUS
<1>1. now \in Nat
  BY InstantsAssumption DEF Init
<1>2. ValidatorTypeOK
  BY CounterModAssumption DEF Init, ValidatorInit, ValidatorTypeOK, Counts
<1>3. WatchdogTypeOK /\ lastSeen = now /\ latched = {}
  BY <1>1 DEF Init, Arm, WatchdogTypeOK
<1>4. LawTypeOK /\ integral = 0 /\ primed = FALSE
  <2>1. y = 0 /\ integral = 0 /\ primed = FALSE
    BY Zenon DEF Init, LawInit
  <2>2. 0 \in Int /\ FALSE \in BOOLEAN
    OBVIOUS
  <2>3. QED
    BY <2>1, <2>2, Zenon DEF LawTypeOK
<1>5. TypeOK
  BY <1>1, <1>2, <1>3, <1>4, SeqModAssumption, MaxBatchAssumption
  DEF Init, TypeOK, Seqs
<1>6. IntegralInAuthority
  BY <1>4, GainAssumption, LimitAssumption DEF IntegralInAuthority, Within
<1>7. QED
  BY <1>1, <1>3, <1>4, <1>5, <1>6, TimeoutAssumption
  DEF Init, Inductive, FreshOrSafe, SafeCommandedWhileLatched, MeasurementPlausible

LEMMA StepBeginPreserves ==
    ASSUME Inductive, NEW t \in Instants, StepBegin(t)
    PROVE  Inductive'
<1>1. t \in Nat
  BY InstantsAssumption
<1>2. UNCHANGED << validatorVars, watchdogVars, lawVars, txSeq, output, historyVars >>
  BY DEF StepBegin
<1>3. TypeOK'
  BY <1>1, <1>2, MaxBatchAssumption
  DEF Inductive, TypeOK, StepBegin, ValidatorTypeOK, WatchdogTypeOK, LawTypeOK,
      validatorVars, watchdogVars, lawVars, historyVars
<1>4. now <= now' /\ now \in Nat /\ now' \in Nat
  BY <1>1 DEF StepBegin, Inductive, TypeOK
<1>5. QED
  BY <1>2, <1>3, <1>4
  DEF Inductive, TypeOK, watchdogVars, lawVars, historyVars, FreshOrSafe,
      SafeCommandedWhileLatched, IntegralInAuthority, MeasurementPlausible

LEMMA IngestAcceptPreserves ==
    ASSUME Inductive, NEW f \in Frames, IngestAccept(f)
    PROVE  Inductive'
<1>1. f \in Frame /\ f.value \in VALUE_MIN .. VALUE_MAX
  BY FramesAssumption, AcceptedInRange DEF IngestAccept, ValidateOk
<1>2. ValidatorTypeOK'
  BY <1>1, CountSuccType
  DEF Inductive, TypeOK, IngestAccept, ValidateOk, ValidatorTypeOK, Frame
<1>3. now \in Nat /\ lastSeen \in Nat /\ trustedAt \in Nat
  BY DEF Inductive, TypeOK, WatchdogTypeOK
<1>4. lastSeen' = now /\ trustedAt' = now /\ trustedAt <= now
  BY <1>3 DEF Inductive, IngestAccept, Feed
<1>5. UNCHANGED << lawVars, phase, now, txSeq, output, checkedAt, latched >>
  BY DEF IngestAccept, Feed
<1>6. batch' \in 0 .. MaxBatch /\ fresh' \in SUBSET (VALUE_MIN .. VALUE_MAX)
  BY <1>1, MaxBatchAssumption DEF Inductive, TypeOK, IngestAccept
<1>7. TypeOK'
  BY <1>2, <1>3, <1>4, <1>5, <1>6
  DEF Inductive, TypeOK, WatchdogTypeOK, LawTypeOK, lawVars
<1>8. FreshOrSafe'
  BY <1>3, <1>4, <1>5, TimeoutAssumption
  DEF Inductive, TypeOK, FreshOrSafe, StepOutput
<1>9. QED
  BY <1>3, <1>4, <1>5, <1>7, <1>8, TimeoutAssumption
  DEF Inductive, TypeOK, lawVars, SafeCommandedWhileLatched,
      IntegralInAuthority, MeasurementPlausible

LEMMA IngestRejectPreserves ==
    ASSUME Inductive, NEW f \in Frames, NEW r \in Reject, IngestReject(f, r)
    PROVE  Inductive'
<1>1. ValidatorTypeOK'
  BY CountSuccType
  DEF Inductive, TypeOK, IngestReject, ValidateErr, ValidatorTypeOK
<1>2. UNCHANGED << watchdogVars, lawVars, phase, now, fresh, txSeq, output, historyVars >>
  BY DEF IngestReject
<1>3. batch' \in 0 .. MaxBatch
  BY MaxBatchAssumption DEF Inductive, TypeOK, IngestReject
<1>4. TypeOK'
  BY <1>1, <1>2, <1>3
  DEF Inductive, TypeOK, WatchdogTypeOK, LawTypeOK, watchdogVars, lawVars, historyVars
<1>5. QED
  BY <1>2, <1>4
  DEF Inductive, watchdogVars, lawVars, historyVars, FreshOrSafe,
      SafeCommandedWhileLatched, IntegralInAuthority, MeasurementPlausible

LEMMA CommandSafePreserves ==
    ASSUME Inductive, CommandSafe
    PROVE  Inductive'
<1>1. TypeOK /\ WatchdogTypeOK /\ now \in Nat
  BY DEF Inductive, TypeOK
<1>2. /\ UNCHANGED << validatorVars, lawVars, lastSeen, now, batch, fresh, trustedAt >>
      /\ phase' = "idle"
      /\ checkedAt' = now
      /\ latched' = Checked(now)
      /\ latched' # {}
  BY DEF CommandSafe, Transmit, Check
<1>3. Transmit(SafeActuator, StatusSafe) /\ SafeActuator \in Int
  BY DEF CommandSafe, SafeActuator
<1>4. /\ output' \in SUBSET StepOutput
      /\ txSeq' \in Seqs
      /\ \A o \in output' : o.status = StatusSafe /\ o.command = Quantise(SafeActuator)
      /\ \E o \in output' : TRUE
  BY <1>1, <1>3, TransmitTypes
<1>5. Quantise(SafeActuator) = 0
  BY OutScaleAssumption DEF Quantise, SafeActuator
<1>6. latched' \in SUBSET SafeState
  BY <1>1, <1>2, CheckedTypes
<1>7. TypeOK'
  BY <1>1, <1>2, <1>4, <1>6
  DEF TypeOK, ValidatorTypeOK, WatchdogTypeOK, LawTypeOK, validatorVars, lawVars
<1>8. FreshOrSafe' /\ SafeCommandedWhileLatched'
  BY <1>4, <1>5 DEF FreshOrSafe, SafeCommandedWhileLatched, StatusOk, StatusSafe
<1>9. QED
  BY <1>1, <1>2, <1>7, <1>8
  DEF Inductive, lawVars, IntegralInAuthority, MeasurementPlausible

LEMMA CommandControlPreserves ==
    ASSUME Inductive, CommandControl
    PROVE  Inductive'
<1> DEFINE e == Setpoint - y'
<1>1. TypeOK /\ LawTypeOK /\ now \in Nat /\ lastSeen \in Nat /\ trustedAt = lastSeen
  BY DEF Inductive, TypeOK, WatchdogTypeOK
<1>2. /\ UNCHANGED << validatorVars, lastSeen, now, batch, fresh, trustedAt >>
      /\ phase' = "idle"
      /\ checkedAt' = now
      /\ latched' = Checked(now)
      /\ latched' = {}
  BY DEF CommandControl, Transmit, Check
<1>3. latched = {} /\ ~Stale(now)
  BY <1>2 DEF Checked
<1>4. now <= lastSeen + TimeoutUs
  BY <1>1, <1>3, TimeoutAssumption DEF Stale
<1>5. y' \in Int /\ primed' \in BOOLEAN /\ MeasurementPlausible'
  <2>1. CASE fresh = {}
    BY <2>1 DEF Inductive, TypeOK, LawTypeOK, MeasurementPlausible, CommandControl, Filter
  <2>2. CASE fresh # {}
    <3>1. PICK v \in fresh : LowPassUpdate(v)
      BY <2>2 DEF CommandControl, Filter
    <3>2. v \in Int /\ VALUE_MIN <= v /\ v <= VALUE_MAX
      BY <1>1, ValueRangeAssumption DEF TypeOK
    <3>3. CASE primed
      <4>1. /\ Blend(y, v) \in Int
            /\ VALUE_MIN <= Blend(y, v)
            /\ Blend(y, v) <= VALUE_MAX
        BY <3>2, <3>3, ValueRangeAssumption, BlendInHull
        DEF Inductive, TypeOK, LawTypeOK, MeasurementPlausible
      <4>2. QED
        BY <3>1, <3>3, <4>1 DEF LowPassUpdate, MeasurementPlausible
    <3>4. CASE ~primed
      BY <3>1, <3>2, <3>4 DEF LowPassUpdate, MeasurementPlausible
    <3>5. QED
      BY <3>3, <3>4
  <2>3. QED
    BY <2>1, <2>2
<1>6. e \in Int
  BY <1>5, GainAssumption
<1>7. integral' \in Int /\ Within(Ki * integral')
  BY <1>1, <1>6, IntegrateInAuthority
  DEF Inductive, LawTypeOK, IntegralInAuthority, CommandControl
<1>8. PiOutput(integral', e) \in Int
  BY <1>6, <1>7, OutputWithinLimits, LimitAssumption
<1>9. Transmit(PiOutput(integral', e), StatusOk)
  BY DEF CommandControl
<1>10. /\ output' \in SUBSET StepOutput
       /\ txSeq' \in Seqs
       /\ \A o \in output' : o.at = now
  BY <1>1, <1>8, <1>9, TransmitTypes
<1>11. TypeOK'
  BY <1>1, <1>2, <1>5, <1>7, <1>10
  DEF TypeOK, ValidatorTypeOK, WatchdogTypeOK, LawTypeOK, validatorVars
<1>12. FreshOrSafe' /\ SafeCommandedWhileLatched'
  BY <1>1, <1>2, <1>4, <1>10 DEF FreshOrSafe, SafeCommandedWhileLatched
<1>13. QED
  BY <1>1, <1>2, <1>4, <1>5, <1>7, <1>11, <1>12 DEF Inductive, IntegralInAuthority

LEMMA ResetPreserves ==
    ASSUME Inductive, NEW t \in Instants, Reset(t)
    PROVE  Inductive'
<1>1. /\ TypeOK
      /\ now \in Nat
      /\ t \in Nat
      /\ trustedAt \in Nat
      /\ trustedAt <= now
  BY InstantsAssumption DEF Inductive, TypeOK
<1>2. /\ now' = t /\ trustedAt' = t /\ checkedAt' = t /\ lastSeen' = t
      /\ now <= t
      /\ latched' = {}
      /\ y' = 0 /\ primed' = FALSE /\ integral' = 0
      /\ lastSeq' = {}
      /\ UNCHANGED << accepted, rejected, byReason, phase, batch, fresh, txSeq, output >>
  BY <1>1 DEF Reset, WatchdogReset, LawReset, ResetSequence
<1>3. TypeOK'
  <2>1. ValidatorTypeOK' /\ WatchdogTypeOK'
    BY <1>1, <1>2 DEF TypeOK, ValidatorTypeOK, WatchdogTypeOK
  <2>2. 0 \in Int /\ FALSE \in BOOLEAN
    OBVIOUS
  <2>3. LawTypeOK'
    BY <1>2, <2>2, Zenon DEF LawTypeOK
  <2>4. QED
    BY <1>1, <1>2, <2>1, <2>3 DEF TypeOK
<1>4. FreshOrSafe'
  BY <1>1, <1>2, TimeoutAssumption DEF Inductive, TypeOK, FreshOrSafe, StepOutput
<1>5. IntegralInAuthority'
  BY <1>2, GainAssumption, LimitAssumption DEF IntegralInAuthority, Within
<1>6. QED
  BY <1>1, <1>2, <1>3, <1>4, <1>5, TimeoutAssumption
  DEF Inductive, SafeCommandedWhileLatched, MeasurementPlausible

LEMMA InductiveStep == Inductive /\ [Next]_vars => Inductive'
<1> SUFFICES ASSUME Inductive, [Next]_vars PROVE Inductive'
  OBVIOUS
<1>1. ASSUME NEW t \in Instants, StepBegin(t) PROVE Inductive'
  BY <1>1, StepBeginPreserves
<1>2. ASSUME NEW t \in Instants, Reset(t) PROVE Inductive'
  BY <1>2, ResetPreserves
<1>3. ASSUME NEW f \in Frames, IngestAccept(f) PROVE Inductive'
  BY <1>3, IngestAcceptPreserves
<1>4. ASSUME NEW f \in Frames, NEW r \in Reject, IngestReject(f, r) PROVE Inductive'
  BY <1>4, IngestRejectPreserves
<1>5. CASE CommandSafe
  BY <1>5, CommandSafePreserves
<1>6. CASE CommandControl
  BY <1>6, CommandControlPreserves
<1>7. CASE UNCHANGED vars
  BY <1>7
  DEF vars, Inductive, TypeOK, ValidatorTypeOK, WatchdogTypeOK, LawTypeOK,
      validatorVars, watchdogVars, lawVars, historyVars, FreshOrSafe,
      SafeCommandedWhileLatched, IntegralInAuthority, MeasurementPlausible
<1>8. QED
  BY <1>1, <1>2, <1>3, <1>4, <1>5, <1>6, <1>7 DEF Next, Ingest
-----------------------------------------------------------------------------
(* Theorems.                                                               *)

THEOREM InductiveInvariant == Spec => []Inductive
<1>1. Init => Inductive
  BY InductiveInit
<1>2. Inductive /\ [Next]_vars => Inductive'
  BY InductiveStep
<1>3. QED
  BY <1>1, <1>2, PTL DEF Spec

\* Every variable keeps its type: in particular every command ever sent is a
\* well-formed record and every counter fits its width (node.rs:41-67).
THEOREM TypeCorrect == Spec => []TypeOK
<1>1. Inductive => TypeOK
  BY DEF Inductive
<1>2. QED
  BY <1>1, InductiveInvariant, PTL

\* No command with status OK is older than the budget, for every budget and
\* every schedule of checks (node.rs:111-118).
THEOREM Freshness == Spec => []FreshOrSafe
<1>1. Inductive => FreshOrSafe
  BY DEF Inductive
<1>2. QED
  BY <1>1, InductiveInvariant, PTL

\* The safe command is in force whenever a safe state is latched
\* (node.rs:120-133).
THEOREM SafeCommand == Spec => []SafeCommandedWhileLatched
<1>1. Inductive => SafeCommandedWhileLatched
  BY DEF Inductive
<1>2. QED
  BY <1>1, InductiveInvariant, PTL

\* The integral never leaves the output's authority, for all gains and errors
\* (control.rs:104-118).
THEOREM NoWindup == Spec => []IntegralInAuthority
<1>1. Inductive => IntegralInAuthority
  BY DEF Inductive
<1>2. QED
  BY <1>1, InductiveInvariant, PTL

\* The filtered measurement stays in the plausible range, for every smoothing
\* factor (control.rs:45-53).
THEOREM PlausibleMeasurement == Spec => []MeasurementPlausible
<1>1. Inductive => MeasurementPlausible
  BY DEF Inductive
<1>2. QED
  BY <1>1, InductiveInvariant, PTL

\* A latched safe state is never restamped, and step never clears it
\* (watchdog.rs:116-131).
THEOREM LatchStable == Spec => LatchHeld
<1> DEFINE Held == latched # {} => \/ latched' = latched
                                   \/ latched' = {} /\ phase = "idle" /\ output' = output
<1>1. [Next]_vars => [Held]_vars
  <2> SUFFICES ASSUME [Next]_vars PROVE Held
    OBVIOUS
  <2>1. ASSUME NEW t \in Instants, StepBegin(t) PROVE Held
    BY <2>1 DEF StepBegin, watchdogVars
  <2>2. ASSUME NEW t \in Instants, Reset(t) PROVE Held
    BY <2>2 DEF Reset, WatchdogReset
  <2>3. CASE Ingest
    BY <2>3 DEF Ingest, IngestAccept, IngestReject, Feed, watchdogVars
  <2>4. CASE CommandSafe
    BY <2>4 DEF CommandSafe, Check, Checked
  <2>5. CASE CommandControl
    BY <2>5 DEF CommandControl, Check, Checked
  <2>6. CASE UNCHANGED vars
    BY <2>6 DEF vars, watchdogVars
  <2>7. QED
    BY <2>1, <2>2, <2>3, <2>4, <2>5, <2>6 DEF Next
<1>2. QED
  BY <1>1, PTL DEF Spec, LatchHeld

\* A trip lands past the budget by at most the distance between two checks:
\* with a check per period, one period plus the difference of two wake
\* jitters (watchdog.rs:55-61).
THEOREM OvershootBound == Spec => OvershootWithinOneGap
<1> DEFINE Bounded == \A s \in latched' \ latched : OvershootPastBudget(s) <= now - checkedAt
<1>1. Inductive /\ [Next]_vars => [Bounded]_vars
  <2> SUFFICES ASSUME Inductive, [Next]_vars PROVE Bounded
    OBVIOUS
  <2>1. CASE CommandSafe \/ CommandControl
    <3> SUFFICES ASSUME NEW s \in latched', s \notin latched
                 PROVE  OvershootPastBudget(s) <= now - checkedAt
      OBVIOUS
    <3>1. latched' = Checked(now)
      BY <2>1 DEF CommandSafe, CommandControl, Check
    <3>2. /\ latched = {}
          /\ s = [last_seen_us |-> lastSeen, tripped_at_us |-> now]
      BY <3>1 DEF Checked
    <3>3. /\ checkedAt <= lastSeen + TimeoutUs
          /\ checkedAt \in Nat /\ lastSeen \in Nat /\ now \in Nat
      BY <3>2 DEF Inductive, TypeOK, WatchdogTypeOK
    <3>4. OvershootPastBudget(s) = now - (lastSeen + TimeoutUs)
      BY <3>2 DEF OvershootPastBudget
    <3>5. QED
      BY <3>3, <3>4, TimeoutAssumption
  <2>2. CASE UNCHANGED latched \/ latched' = {}
    BY <2>2
  <2>3. ASSUME NEW t \in Instants, StepBegin(t) \/ Reset(t)
        PROVE  UNCHANGED latched \/ latched' = {}
    BY <2>3 DEF StepBegin, Reset, WatchdogReset, watchdogVars
  <2>4. CASE Ingest
    BY <2>2, <2>4 DEF Ingest, IngestAccept, IngestReject, Feed, watchdogVars
  <2>5. CASE UNCHANGED vars
    BY <2>2, <2>5 DEF vars, watchdogVars
  <2>6. QED
    BY <2>1, <2>2, <2>3, <2>4, <2>5 DEF Next
<1>2. QED
  BY <1>1, InductiveInvariant, PTL DEF Spec, OvershootWithinOneGap

\* No output stays on a limit against the error (control.rs:109-112).
THEOREM LimitsLeft == Spec => ComesOffLimit
<1> DEFINE Off == \A o \in output' \ output : o.status = StatusOk =>
                     /\ Setpoint - y' < 0 => o.actuator < OutMax
                     /\ Setpoint - y' > 0 => o.actuator > OutMin
<1>1. Inductive /\ Inductive' /\ [Next]_vars => [Off]_vars
  <2> SUFFICES ASSUME Inductive, Inductive', [Next]_vars PROVE Off
    OBVIOUS
  <2>1. CASE UNCHANGED output
    BY <2>1
  <2>2. CASE CommandSafe
    BY <2>2, TransmitTypes DEF CommandSafe, Transmit, StatusOk, StatusSafe
  <2>3. CASE CommandControl
    <3> DEFINE e == Setpoint - y'
    <3>1. e \in Int /\ integral \in Int /\ Within(Ki * integral)
      BY GainAssumption DEF Inductive, TypeOK, LawTypeOK, IntegralInAuthority
    <3>2. integral' = Integrate(integral, e)
      BY <2>3 DEF CommandControl
    <3>3. \A o \in output' : o.actuator = PiOutput(Integrate(integral, e), e)
      BY <2>3, <3>2 DEF CommandControl, Transmit
    <3> HIDE DEF e
    <3>4. LET a == PiOutput(Integrate(integral, e), e)
          IN  (e < 0 => a < OutMax) /\ (e > 0 => a > OutMin)
      BY <3>1, OutputLeavesLimit
    <3>5. QED
      BY <3>3, <3>4 DEF e
  <2>4. ASSUME NEW t \in Instants, StepBegin(t) \/ Reset(t)
        PROVE  UNCHANGED output
    BY <2>4 DEF StepBegin, Reset
  <2>5. CASE Ingest
    BY <2>1, <2>5 DEF Ingest, IngestAccept, IngestReject
  <2>6. CASE UNCHANGED vars
    BY <2>1, <2>6 DEF vars
  <2>7. QED
    BY <2>1, <2>2, <2>3, <2>4, <2>5, <2>6 DEF Next
<1>2. QED
  BY <1>1, InductiveInvariant, PTL DEF Spec, ComesOffLimit

-----------------------------------------------------------------------------
(* The accounting of refusals.                                             *)

Refusals ==
    byReason["BadLength"] + byReason["UnknownPgn"] + byReason["UnexpectedSource"]
    + byReason["BadCrc"] + byReason["BadReserved"] + byReason["Duplicate"]
    + byReason["OutOfOrder"] + byReason["OutOfRange"]

\* Up to whole turns of the counters.
Accounted == \E k \in Int : Refusals = rejected + CounterMod * k

LEMMA WholeTurns ==
    ASSUME NEW m \in Nat \ {0}, NEW k \in Nat
    PROVE  (m * k) % m = 0
<1> DEFINE a == m * k
<1> DEFINE q == a \div m
<1> DEFINE t == a % m
<1>1. a \in Nat
  OBVIOUS
<1>2. q \in Int /\ t \in 0 .. m - 1 /\ a = m * q + t
  <2> HIDE DEF a
  <2> QED
    BY <1>1
<1> HIDE DEF q, t
<1>3. m * (k - q) = t
  BY <1>2
<1> DEFINE d == k - q
<1>4. d \in Int /\ m * d = t
  BY <1>2, <1>3
<1> HIDE DEF d
<1>5. CASE d >= 1
  <2>1. m * d >= m
    BY <1>4, <1>5
  <2> QED
    BY <2>1, <1>2, <1>4
<1>6. CASE d <= -1
  <2>1. m * d <= -m
    BY <1>4, <1>6
  <2> QED
    BY <2>1, <1>2, <1>4
<1>7. CASE d = 0
  BY <1>4, <1>7 DEF t
<1> QED
  BY <1>4, <1>5, <1>6, <1>7

\* A counter goes up by one, up to a turn.
LEMMA CountSuccTurns ==
    ASSUME NEW c \in Counts
    PROVE  CountSucc(c) \in {c + 1, c + 1 - CounterMod}
  BY CounterModAssumption DEF CountSucc, Counts

LEMMA RefusalCounted ==
    ASSUME ValidatorTypeOK, NEW f, NEW r \in Reject, ValidateErr(f, r)
    PROVE  Refusals' \in {Refusals + 1, Refusals + 1 - CounterMod}
<1>1. /\ byReason \in [Reject -> Counts]
      /\ byReason' = [byReason EXCEPT ![r] = CountSucc(@)]
  BY DEF ValidatorTypeOK, ValidateErr
<1>2. CountSucc(byReason[r]) \in {byReason[r] + 1, byReason[r] + 1 - CounterMod}
  BY <1>1, CountSuccTurns
<1>3. \A q \in Reject : byReason[q] \in Nat /\ byReason'[q] =
                            IF q = r THEN CountSucc(byReason[r]) ELSE byReason[q]
  BY <1>1, CounterModAssumption DEF Counts
<1>4. {"BadLength", "UnknownPgn", "UnexpectedSource", "BadCrc", "BadReserved",
       "Duplicate", "OutOfOrder", "OutOfRange"} = Reject
  BY DEF Reject, WireFaults
<1> QED
  BY <1>2, <1>3, <1>4, CounterModAssumption DEF Refusals

LEMMA AccountedNext ==
    ASSUME Inductive, Accounted, [Next]_vars
    PROVE  Accounted'
<1>1. CASE UNCHANGED << rejected, byReason >>
  BY <1>1 DEF Accounted, Refusals
<1>2. ASSUME NEW f, NEW r \in Reject, ValidateErr(f, r)
      PROVE  Accounted'
  <2>1. PICK k \in Int : Refusals = rejected + CounterMod * k
    BY DEF Accounted
  <2>2. ValidatorTypeOK /\ rejected \in Nat /\ CounterMod \in Nat
    BY CounterModAssumption DEF Inductive, TypeOK, ValidatorTypeOK, Counts
  <2>3. Refusals' \in {Refusals + 1, Refusals + 1 - CounterMod}
    BY <1>2, <2>2, RefusalCounted
  <2>4. rejected' \in {rejected + 1, rejected + 1 - CounterMod}
    BY <1>2, <2>2, CountSuccTurns DEF ValidateErr, ValidatorTypeOK
  <2>5. /\ CounterMod * (k + 1) = CounterMod * k + CounterMod
        /\ CounterMod * (k - 1) = CounterMod * k - CounterMod
        /\ CounterMod * k \in Int
    BY <2>2
  <2>6. \/ Refusals' = rejected' + CounterMod * (k - 1)
        \/ Refusals' = rejected' + CounterMod * k
        \/ Refusals' = rejected' + CounterMod * (k + 1)
    <3> DEFINE t == CounterMod * k
    <3>1. t \in Int /\ CounterMod * (k + 1) = t + CounterMod /\ CounterMod * (k - 1) = t - CounterMod
      BY <2>5
    <3>2. Refusals = rejected + t
      BY <2>1
    <3> HIDE DEF t
    <3>3. \/ Refusals' = rejected' + (t - CounterMod)
          \/ Refusals' = rejected' + t
          \/ Refusals' = rejected' + (t + CounterMod)
      <4>1. \A a, b, c, d \in Int :
               a = b + t /\ c \in {a + 1, a + 1 - CounterMod} /\ d \in {b + 1, b + 1 - CounterMod}
                 => c = d + (t - CounterMod) \/ c = d + t \/ c = d + (t + CounterMod)
        BY <2>2, <3>1
      <4>2. /\ Refusals \in Int /\ rejected \in Int /\ rejected' \in Int /\ Refusals' \in Int
        BY <2>2, <2>3, <2>4, <3>1, <3>2
      <4> QED
        BY <4>1, <4>2, <2>3, <2>4, <3>2
    <3> QED
      BY <3>1, <3>3 DEF t
  <2>7. k - 1 \in Int /\ k + 1 \in Int
    OBVIOUS
  <2> QED
    BY <2>6, <2>7 DEF Accounted
<1>3. ASSUME NEW t \in Instants, StepBegin(t) \/ Reset(t)
      PROVE  UNCHANGED << rejected, byReason >>
  BY <1>3 DEF StepBegin, Reset, ResetSequence, validatorVars
<1>4. ASSUME NEW f \in Frames, IngestAccept(f)
      PROVE  UNCHANGED << rejected, byReason >>
  BY <1>4 DEF IngestAccept, ValidateOk
<1>5. ASSUME NEW f \in Frames, NEW r \in Reject, IngestReject(f, r)
      PROVE  Accounted'
  BY <1>2, <1>5 DEF IngestReject
<1>6. CASE CommandSafe \/ CommandControl
  BY <1>1, <1>6 DEF CommandSafe, CommandControl, Transmit, validatorVars
<1>7. CASE UNCHANGED vars
  BY <1>1, <1>7 DEF vars, validatorVars
<1> QED
  BY <1>1, <1>3, <1>4, <1>5, <1>6, <1>7 DEF Next, Ingest

LEMMA AccountedAlways == Spec => [](Inductive /\ Accounted)
<1>1. Init => Accounted
  <2> SUFFICES ASSUME Init PROVE Accounted
    OBVIOUS
  <2>1. Refusals = 0 /\ rejected = 0
    BY DEF Init, ValidatorInit, Refusals, Reject, WireFaults
  <2>2. 0 = 0 + CounterMod * 0
    BY CounterModAssumption
  <2> QED
    BY <2>1, <2>2 DEF Accounted
<1>2. Inductive /\ Accounted /\ [Next]_vars => Accounted'
  BY AccountedNext
<1> QED
  BY <1>1, <1>2, InductiveInvariant, PTL DEF Spec

\* Every refusal is counted under exactly one reason, for every width of the
\* counters and however often they have wrapped (j1939.rs:357-361).
THEOREM RefusalsAccounted == Spec => []RejectionsAccounted
<1>1. Inductive /\ Accounted => RejectionsAccounted
  <2> SUFFICES ASSUME Inductive, Accounted PROVE RejectionsAccounted
    OBVIOUS
  <2>1. PICK k \in Int : Refusals = rejected + CounterMod * k
    BY DEF Accounted
  <2>2. /\ rejected \in 0 .. CounterMod - 1 /\ CounterMod \in Nat \ {0}
        /\ \A r \in Reject : byReason[r] \in Nat
    BY CounterModAssumption DEF Inductive, TypeOK, ValidatorTypeOK, Counts
  <2>3. Refusals \in Nat
    BY <2>2 DEF Refusals, Reject, WireFaults
  <2>4. k \in Nat
    <3> SUFFICES ASSUME k <= -1 PROVE FALSE
      OBVIOUS
    <3>1. CounterMod * k <= -CounterMod
      BY <2>2
    <3> QED
      BY <2>1, <2>2, <2>3, <3>1
  <2>5. Refusals - rejected = CounterMod * k
    BY <2>1, <2>2, <2>3
  <2>6. (CounterMod * k) % CounterMod = 0
    BY <2>2, <2>4, WholeTurns
  <2> QED
    BY <2>5, <2>6 DEF Refusals, RejectionsAccounted
<1> QED
  BY <1>1, AccountedAlways, PTL

-----------------------------------------------------------------------------
(* The refinement of FailSafe.                                             *)

AbstractMode == IF latched = {} THEN "control" ELSE "safe"
AbstractCommand ==
    {[kind |-> IF o.status = StatusOk THEN "control" ELSE "safe",
      actuator |-> o.actuator, at |-> o.at] : o \in output}

\* What a Transmit looks like through the refinement mapping.
LEMMA TransmitMapped ==
    ASSUME NEW a, NEW status \in {StatusOk, StatusSafe}, Transmit(a, status)
    PROVE  AbstractCommand' =
             {[kind |-> IF status = StatusOk THEN "control" ELSE "safe",
               actuator |-> a, at |-> now]}
<1> DEFINE o == [seq |-> txSeq, command |-> Quantise(a), status |-> status,
                 actuator |-> a, at |-> now]
<1>1. output' = {o}
  BY DEF Transmit
<1>2. o.status = status /\ o.actuator = a /\ o.at = now
  OBVIOUS
<1> HIDE DEF o
<1>3. AbstractCommand' =
        {[kind |-> IF o.status = StatusOk THEN "control" ELSE "safe",
          actuator |-> o.actuator, at |-> o.at]}
  BY <1>1 DEF AbstractCommand
<1>4. QED
  BY <1>2, <1>3

\* The node keeps the fail-safe promise for every budget, clock and menu of
\* frames: each of its steps is a step of FailSafe or invisible to it
\* (node.rs:93-148).
THEOREM Refinement == Spec => ImplementsFailSafe
<1>1. Init => FS!Init
  BY DEF Init, FS!Init, Arm
<1>2. Inductive /\ [Next]_vars => [FS!Next]_(FS!vars)
  <2> SUFFICES ASSUME Inductive, [Next]_vars
               PROVE  FS!Next \/ UNCHANGED FS!vars
    OBVIOUS
  <2>1. ASSUME NEW t \in Instants, StepBegin(t) PROVE FS!Advance
    BY <2>1 DEF StepBegin, FS!Advance, historyVars, watchdogVars
  <2>2. ASSUME NEW t \in Instants, Reset(t) PROVE FS!Rearm
    BY <2>2 DEF Reset, WatchdogReset, FS!Rearm
  <2>3. ASSUME NEW f \in Frames, IngestAccept(f) PROVE FS!Trust
    BY <2>3 DEF IngestAccept, Feed, FS!Trust
  <2>4. ASSUME NEW f \in Frames, NEW r \in Reject, IngestReject(f, r)
        PROVE  UNCHANGED FS!vars
    BY <2>4 DEF IngestReject, historyVars, watchdogVars, FS!vars
  <2>5. CASE CommandSafe
    <3>1. AbstractCommand' = {[kind |-> "safe", actuator |-> SafeActuator, at |-> now]}
      BY <2>5, TransmitMapped DEF CommandSafe, StatusOk, StatusSafe
    <3>2. /\ UNCHANGED << now, trustedAt >>
          /\ latched' = Checked(now)
          /\ latched' # {}
      BY <2>5 DEF CommandSafe, Transmit, Check
    <3>3. latched # {} \/ now > trustedAt + TimeoutUs
      BY <3>2 DEF Checked, Stale, Inductive
    <3>4. FS!CommandSafe
      BY <3>1, <3>2, <3>3 DEF FS!CommandSafe, AbstractCommand
    <3>5. QED
      BY <3>4 DEF FS!Next
  <2>6. CASE CommandControl
    <3> DEFINE e == Setpoint - y'
    <3> DEFINE a == PiOutput(integral', e)
    <3>1. a \in OutMin .. OutMax
      <4>1. Inductive'
        BY InductiveStep
      <4>2. e \in Int /\ integral' \in Int
        BY <4>1, GainAssumption DEF Inductive, TypeOK, LawTypeOK
      <4>3. QED
        BY <4>2, OutputWithinLimits
    <3>2. AbstractCommand' = {[kind |-> "control", actuator |-> a, at |-> now]}
      BY <2>6, TransmitMapped DEF CommandControl, StatusOk, StatusSafe
    <3>3. /\ UNCHANGED << now, trustedAt, latched >>
          /\ Checked(now) = {}
          /\ latched = {}
      BY <2>6 DEF CommandControl, Transmit, Check, Checked
    <3>4. now <= trustedAt + TimeoutUs
      <4>1. ~ Stale(now)
        BY <3>3 DEF Checked
      <4>2. now \in Nat /\ trustedAt \in Nat /\ lastSeen = trustedAt
        BY DEF Inductive, TypeOK
      <4>3. QED
        BY <4>1, <4>2, TimeoutAssumption DEF Stale
    <3> HIDE DEF a
    <3>5. FS!CommandControl
      BY <3>1, <3>2, <3>3, <3>4 DEF FS!CommandControl, AbstractCommand
    <3>6. QED
      BY <3>5 DEF FS!Next
  <2>7. CASE UNCHANGED vars
    BY <2>7 DEF vars, historyVars, watchdogVars, FS!vars
  <2>8. QED
    BY <2>1, <2>2, <2>3, <2>4, <2>5, <2>6, <2>7 DEF Next, Ingest, FS!Next
<1>3. QED
  BY <1>1, <1>2, InductiveInvariant, PTL DEF Spec, ImplementsFailSafe, FS!Spec
=============================================================================
