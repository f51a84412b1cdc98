---------------------------- MODULE MCControlNode ----------------------------
(***************************************************************************)
(* Small instances of ControlNode: menus of frames and the clock readings. *)
(***************************************************************************)
EXTENDS ControlNode

MCInstants == 0 .. 4
MCFewInstants == 0 .. 2
MCOutMin == -4
MCValueMin == -2
Sent(F, s, v) == [faults |-> F, seq |-> s, value |-> v]

\* Readings at any sequence position, at both ends of the plausible range and
\* beyond them, and a frame that fails more than one check.
NodeFrames ==
    {Sent({}, s, v) : s \in Seqs, v \in {VALUE_MIN - 1, VALUE_MIN, VALUE_MAX, VALUE_MAX + 1}}
    \cup {Sent({"BadLength", "BadCrc"}, 0, VALUE_MAX + 1)}
=============================================================================
