------------------------------- MODULE MCHogRun -------------------------------
(***************************************************************************)
(* A loop of a few cycles with stalls of any length at any point, over two *)
(* spinners; the hog window is main.rs's middle 40 percent (205-206).      *)
(***************************************************************************)
EXTENDS HogRun

MCStartCycle == (Cycles * 3) \div 10
MCEndCycle == (Cycles * 7) \div 10
MCConfigurations ==
    {[mode |-> "Virtual", threads |-> 2], [mode |-> "RealTime", threads |-> 1]}
=============================================================================
