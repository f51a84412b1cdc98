----------------------------- MODULE ControlNode -----------------------------
(***************************************************************************)
(* core/src/node.rs: the control node, composed of the validator, the      *)
(* watchdog, the filter and the PI controller.                             *)
(*                                                                         *)
(* step(now, frames) is one call.  It is spread over actions because its   *)
(* loop takes any number of frames: StepBegin enters it, Ingest* is the    *)
(* loop body for one more frame of the slice, Command* is everything after *)
(* the loop.  phase keeps the call whole: nothing else runs in between.    *)
(***************************************************************************)
EXTENDS Validator, Watchdog, ControlLaw

CONSTANTS
    Instants,    \* clock readings a caller may pass
    Frames,      \* frames that may arrive
    MaxBatch,    \* bound: frames ingested by one step
    OutScale     \* scaled output units per unit of the i16 command

ASSUME InstantsAssumption == Instants \subseteq Nat
ASSUME FramesAssumption == Frames \subseteq Frame
ASSUME MaxBatchAssumption == MaxBatch \in Nat
ASSUME OutScaleAssumption == OutScale \in Nat /\ OutScale > 0

StatusOk == 0
StatusSafe == 1
SafeActuator == 0

VARIABLES
    phase,       \* "idle" between calls, "ingest" inside step
    now,         \* the latest clock reading passed in
    batch,       \* frames this step has taken
    fresh,       \* the local `fresh`: Option<f32>
    txSeq,
    output,      \* Option<StepOutput>: what the last call to step returned
    trustedAt,   \* history: last instant a reading was accepted or the node armed
    checkedAt    \* history: last instant the watchdog was checked or armed

historyVars == << trustedAt, checkedAt >>
vars == << validatorVars, watchdogVars, lawVars, phase, now, batch, fresh,
           txSeq, output, historyVars >>

StepOutput == [seq : Seqs, command : Int, status : {StatusOk, StatusSafe},
               actuator : Int, at : Nat]

TypeOK ==
    /\ ValidatorTypeOK
    /\ WatchdogTypeOK
    /\ LawTypeOK
    /\ phase \in {"idle", "ingest"}
    /\ now \in Nat
    /\ batch \in 0 .. MaxBatch
    /\ fresh \in SUBSET (VALUE_MIN .. VALUE_MAX)
    /\ txSeq \in Seqs
    /\ output \in SUBSET StepOutput
    /\ trustedAt \in Nat
    /\ checkedAt \in Nat

\* ControlNode::with_watchdog_timeout(start_us, timeout_us).
Init ==
    /\ ValidatorInit
    /\ LawInit
    /\ phase = "idle"
    /\ now \in Instants
    /\ Arm(now)
    /\ batch = 0
    /\ fresh = {}
    /\ txSeq = 0
    /\ output = {}
    /\ trustedAt = now
    /\ checkedAt = now

-----------------------------------------------------------------------------
\* Entering step at clock reading t; the clock is monotonic.
StepBegin(t) ==
    /\ phase = "idle"
    /\ t >= now
    /\ phase' = "ingest"
    /\ now' = t
    /\ batch' = 0
    /\ fresh' = {}
    /\ UNCHANGED << validatorVars, watchdogVars, lawVars, txSeq, output,
                    historyVars >>

\* The loop body for a frame the validator accepts.
IngestAccept(f) ==
    /\ phase = "ingest"
    /\ batch < MaxBatch
    /\ batch' = batch + 1
    /\ ValidateOk(f)
    /\ Feed(now)
    /\ fresh' = {f.value}
    /\ trustedAt' = now
    /\ UNCHANGED << lawVars, phase, now, txSeq, output, checkedAt >>

\* Mutant: a frame feeds the watchdog on arrival, accepted or not.
IngestRejectFeeding(f, r) ==
    /\ phase = "ingest"
    /\ batch < MaxBatch
    /\ batch' = batch + 1
    /\ ValidateErr(f, r)
    /\ Feed(now)
    /\ UNCHANGED << lawVars, phase, now, fresh, txSeq, output, historyVars >>

\* The loop body for a frame the validator refuses for reason r.
IngestReject(f, r) ==
    /\ phase = "ingest"
    /\ batch < MaxBatch
    /\ batch' = batch + 1
    /\ ValidateErr(f, r)
    /\ UNCHANGED << watchdogVars, lawVars, phase, now, fresh, txSeq, output,
                    historyVars >>

\* `actuator as i16`: truncation toward zero.
Quantise(a) == IF a >= 0 THEN a \div OutScale ELSE -((-a) \div OutScale)

\* The command frame and the returned StepOutput.
Transmit(a, status) ==
    /\ output' = {[seq |-> txSeq, command |-> Quantise(a), status |-> status,
                   actuator |-> a, at |-> now]}
    /\ txSeq' = SeqSucc(txSeq)
    /\ phase' = "idle"
    /\ checkedAt' = now
    /\ UNCHANGED << validatorVars, now, batch, fresh, trustedAt >>

\* After the loop, the watchdog holds a safe state: no control law.
CommandSafe ==
    /\ phase = "ingest"
    /\ Check(now)
    /\ Checked(now) # {}
    /\ Transmit(SafeActuator, StatusSafe)
    /\ UNCHANGED lawVars

\* The filter takes the last accepted reading of this step, if there was one.
Filter ==
    IF fresh = {} THEN UNCHANGED << y, primed >>
                  ELSE \E v \in fresh : LowPassUpdate(v)

\* Mutant: the control law runs although the check just latched.
CommandControlAnyway ==
    /\ phase = "ingest"
    /\ Check(now)
    /\ Filter
    /\ integral' = Integrate(integral, Setpoint - y')
    /\ Transmit(PiOutput(integral', Setpoint - y'), StatusOk)

\* After the loop, no safe state: filter, control, command.
CommandControl ==
    /\ phase = "ingest"
    /\ Check(now)
    /\ Checked(now) = {}
    /\ Filter
    /\ integral' = Integrate(integral, Setpoint - y')
    /\ Transmit(PiOutput(integral', Setpoint - y'), StatusOk)

\* ControlNode::reset, an operator action at clock reading t.
Reset(t) ==
    /\ phase = "idle"
    /\ t >= now
    /\ now' = t
    /\ WatchdogReset(t)
    /\ LawReset
    /\ ResetSequence
    /\ trustedAt' = t
    /\ checkedAt' = t
    /\ UNCHANGED << phase, batch, fresh, txSeq, output >>

Ingest ==
    \E f \in Frames : IngestAccept(f) \/ \E r \in Reject : IngestReject(f, r)

Next ==
    \/ \E t \in Instants : StepBegin(t) \/ Reset(t)
    \/ Ingest
    \/ CommandSafe
    \/ CommandControl

Spec == Init /\ [][Next]_vars
-----------------------------------------------------------------------------
(* Properties.                                                             *)

\* The control node implements the fail-safe promise: the safe state is the
\* latch, the trusted instant is that of the last accepted reading.
FS == INSTANCE FailSafe
      WITH Budget <- TimeoutUs, Outputs <- OutMin .. OutMax,
           Safe <- SafeActuator, clock <- now, trusted <- trustedAt,
           mode <- IF latched = {} THEN "control" ELSE "safe",
           command <- {[kind |-> IF o.status = StatusOk THEN "control" ELSE "safe",
                        actuator |-> o.actuator, at |-> o.at] : o \in output}
ImplementsFailSafe == FS!Spec

\* A command with status OK is at most the budget younger than the last
\* accepted reading (or arming): what arrives but is refused never counts
\* (node.rs:111-118, watchdog.rs:3-8).
FreshOrSafe ==
    \A o \in output : o.status = StatusOk => o.at <= trustedAt + TimeoutUs

\* While a safe state is latched the command in force is the safe one, also
\* when readings are accepted again (node.rs:102-106, 120-133).
SafeCommandedWhileLatched ==
    latched # {} => \E o \in output : o.status = StatusSafe /\ o.command = 0

\* The latched record is the one of the trip: a later check, feed or frame
\* neither clears nor restamps it; only a call from outside step clears it
\* (watchdog.rs:116-119, 138-142).
LatchHeld ==
    [][latched # {} => \/ latched' = latched
                       \/ latched' = {} /\ phase = "idle" /\ output' = output]_vars

\* The trip lands no further past the budget than the distance between two
\* consecutive checks (watchdog.rs:55-61).
OvershootWithinOneGap ==
    [][\A s \in latched' \ latched : OvershootPastBudget(s) <= now - checkedAt]_vars

\* Every refusal is counted under exactly one reason, also when a counter has
\* wrapped (j1939.rs:357-361).
RejectionsAccounted ==
    LET total == byReason["BadLength"] + byReason["UnknownPgn"]
                 + byReason["UnexpectedSource"] + byReason["BadCrc"]
                 + byReason["BadReserved"] + byReason["Duplicate"]
                 + byReason["OutOfOrder"] + byReason["OutOfRange"]
    IN  (total - rejected) % CounterMod = 0

\* No frame outside the plausible range, whatever else was sent with it, ever
\* moves the measurement outside that range (j1939.rs:395, control.rs:45-53).
MeasurementPlausible == primed => VALUE_MIN <= y /\ y <= VALUE_MAX

\* Conditional integration keeps the integral inside the authority of the
\* output, whatever the errors were (control.rs:69-73, 109-115).
IntegralInAuthority == Within(Ki * integral)

\* "the controller comes off the limit the moment the error changes sign"
\* (control.rs:109-112): no output stays on a limit against the error.
ComesOffLimit ==
    [][\A o \in output' \ output : o.status = StatusOk =>
          /\ Setpoint - y' < 0 => o.actuator < OutMax
          /\ Setpoint - y' > 0 => o.actuator > OutMin]_vars

\* control.rs:42-44 adopts the first sample so that the controller does not
\* "chase a startup transient that never existed on the bus": the integral
\* stays empty until a sample exists.
NoStartupTransient == integral # 0 => primed
\* The strengthening the theorems rest on: what the watchdog remembers is the
\* instant of trust, no instant lies in the future, and an unlatched node was
\* inside its budget when it was last checked (watchdog.rs:108-131).
Inductive ==
    /\ TypeOK
    /\ lastSeen = trustedAt
    /\ trustedAt <= now
    /\ checkedAt <= now
    /\ latched = {} => checkedAt <= lastSeen + TimeoutUs
    /\ FreshOrSafe
    /\ SafeCommandedWhileLatched
    /\ IntegralInAuthority
    /\ MeasurementPlausible
=============================================================================
