------------------------------ MODULE ControlLaw ------------------------------
(***************************************************************************)
(* core/src/control.rs: the low-pass filter and the PI controller with     *)
(* conditional integration.                                                *)
(*                                                                         *)
(* The f32 arithmetic becomes integer arithmetic in scaled units: the      *)
(* integral is counted in error-periods, so Ki stands for ki * PERIOD_S,   *)
(* and Kp, Ki and the limits share one scale (kp = 0.60, ki * PERIOD_S =   *)
(* 0.04, limit 1000 is exactly Kp = 15, Ki = 1, limit 25000, scale 25).    *)
(* Rounding of f32 sums is not modelled.                                   *)
(***************************************************************************)
EXTENDS Integers

CONSTANTS
    Setpoint,
    AlphaNum, AlphaDen,   \* alpha = AlphaNum / AlphaDen
    Kp, Ki,               \* gains, scaled
    OutMin, OutMax        \* output limits, scaled

ASSUME AlphaAssumption ==
    AlphaNum \in Nat /\ AlphaDen \in Nat /\ 0 < AlphaNum /\ AlphaNum <= AlphaDen
ASSUME GainAssumption ==
    Setpoint \in Int /\ Kp \in Nat /\ 0 < Kp /\ Ki \in Nat
ASSUME LimitAssumption ==
    OutMin \in Int /\ OutMax \in Int /\ OutMin < 0 /\ 0 < OutMax

VARIABLES y, primed, integral
lawVars == << y, primed, integral >>

LawTypeOK ==
    /\ y \in Int
    /\ primed \in BOOLEAN
    /\ integral \in Int

LawInit == y = 0 /\ primed = FALSE /\ integral = 0

-----------------------------------------------------------------------------
\* LowPass::update: the first sample is adopted, later ones are blended in.
Blend(old, x) == old + ((AlphaNum * (x - old)) \div AlphaDen)

LowPassUpdate(x) ==
    /\ y' = (IF primed THEN Blend(y, x) ELSE x)
    /\ primed' = TRUE

Within(x) == OutMin <= x /\ x <= OutMax
Clamp(x) == IF x < OutMin THEN OutMin ELSE IF x > OutMax THEN OutMax ELSE x
Unsaturated(error, i) == Kp * error + Ki * i

\* Mutants: no anti-windup; anti-windup that looks at the proportional part only.
IntegrateAlways(i, error) == i + error
IntegrateByError(i, error) == IF Within(Kp * error) THEN i + error ELSE i

\* Pi::update on an integral: integrate only while the output has authority.
Integrate(i, error) ==
    IF Within(Unsaturated(error, i + error)) THEN i + error ELSE i

PiOutput(i, error) == Clamp(Unsaturated(error, i))

LawReset == y' = 0 /\ primed' = FALSE /\ integral' = 0
=============================================================================
