----------------------------- MODULE MCControlRun -----------------------------
(***************************************************************************)
(* Short runs of the whole loop: fault menus, clock readings, frames.      *)
(***************************************************************************)
EXTENDS ControlRun

MCInstants == 0 .. LastInstant
MCOutMin == -4
MCSensorValues == {1}

MCFrames == BusFrames

\* Each fault alone, several on one cycle, and none.
CorruptMenu ==
    {{}, {"Drop"}, {"BadCrc"}, {"Duplicate"}, {"OutOfOrder"}, {"OutOfRange"},
     {"BadLength"}, {"BadCrc", "OutOfRange", "OutOfOrder"}}
DropMenu == {{}, {"Drop"}}
=============================================================================
