------------------------------- MODULE FailSafe -------------------------------
(***************************************************************************)
(* What the control node promises whoever wires it to an actuator          *)
(* (core/src/watchdog.rs:1-13, core/src/node.rs:93-108): every command is  *)
(* either a control output backed by a reading no older than the budget,   *)
(* or the safe output; and once safe, always safe until an operator acts.  *)
(***************************************************************************)
EXTENDS Integers

CONSTANTS Budget, Instants, Outputs, Safe

VARIABLES clock, trusted, mode, command
vars == << clock, trusted, mode, command >>

\* The node counts as having just seen a reading when it is armed.
Init ==
    /\ clock \in Instants
    /\ trusted = clock
    /\ mode = "control"
    /\ command = {}

Advance ==
    /\ clock' \in Instants
    /\ clock' >= clock
    /\ UNCHANGED << trusted, mode, command >>

Trust ==
    /\ trusted' = clock
    /\ UNCHANGED << clock, mode, command >>

CommandControl ==
    /\ mode = "control"
    /\ clock <= trusted + Budget
    /\ \E a \in Outputs : command' = {[kind |-> "control", actuator |-> a, at |-> clock]}
    /\ UNCHANGED << clock, trusted, mode >>

CommandSafe ==
    /\ mode = "safe" \/ clock > trusted + Budget
    /\ mode' = "safe"
    /\ command' = {[kind |-> "safe", actuator |-> Safe, at |-> clock]}
    /\ UNCHANGED << clock, trusted >>

Rearm ==
    /\ clock' \in Instants
    /\ clock' >= clock
    /\ trusted' = clock'
    /\ mode' = "control"
    /\ UNCHANGED command

Next == Advance \/ Trust \/ CommandControl \/ CommandSafe \/ Rearm

Spec == Init /\ [][Next]_vars
=============================================================================
