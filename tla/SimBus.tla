-------------------------------- MODULE SimBus --------------------------------
(***************************************************************************)
(* host/src/bus.rs: the simulated bus.  Each cycle the sensor sends one    *)
(* good frame, followed by one extra frame per fault scheduled for that    *)
(* cycle; a dropped cycle or a frozen sensor sends nothing.  The schedule  *)
(* is chosen cycle by cycle instead of in advance, which gives the same    *)
(* schedules.  The plant and its noise only choose the value sent: any of  *)
(* SensorValues.                                                           *)
(***************************************************************************)
EXTENDS Validator, Sequences

CONSTANTS
    FaultMenu,     \* the sets of faults a cycle may be scheduled with
    SensorValues,  \* what plant plus noise can read: always plausible
    SkipAhead      \* 5: how far an out-of-order frame skips
                   \* ("cannot be mistaken for the next frame under any wrap")

Fault == {"BadCrc", "Duplicate", "OutOfOrder", "OutOfRange", "BadLength", "Drop"}

ASSUME FaultMenuAssumption == FaultMenu \subseteq SUBSET Fault
ASSUME SensorValuesAssumption == SensorValues \subseteq VALUE_MIN .. VALUE_MAX
ASSUME SkipAheadAssumption == SkipAhead \in 2 .. SeqMod - 1

VARIABLES
    busSeq,    \* SimBus::seq
    frozen,    \* freeze_at has been reached
    sent,      \* SimBus::sent
    emitted,   \* history: good frames delivered, as a u32
    injected   \* history: extra frames delivered, per fault, as a u32

busVars == << busSeq, frozen, sent, emitted, injected >>

BusTypeOK ==
    /\ busSeq \in Seqs
    /\ frozen \in BOOLEAN
    /\ sent \in Nat
    /\ emitted \in Counts
    /\ injected \in [Fault \ {"Drop"} -> Counts]

BusInit ==
    /\ busSeq = 0
    /\ frozen = FALSE
    /\ sent = 0
    /\ emitted = 0
    /\ injected = [k \in Fault \ {"Drop"} |-> 0]

-----------------------------------------------------------------------------
SensorFrame(s, v) == [faults |-> {}, seq |-> s, value |-> v]
Ahead(s, n) == (s + n) % SeqMod

\* The extra frame each fault adds after the good frame with number s.
Extra(s, kind, v) ==
    CASE kind = "BadCrc"     -> [SensorFrame(s, v) EXCEPT !.faults = {"BadCrc"}]
      [] kind = "Duplicate"  -> SensorFrame(s, v)
      [] kind = "OutOfOrder" -> SensorFrame(Ahead(s, SkipAhead), v)
      [] kind = "OutOfRange" -> SensorFrame(Ahead(s, 1), VALUE_MAX + 1)
      [] kind = "BadLength"  -> [SensorFrame(Ahead(s, 1), v) EXCEPT !.faults = {"BadLength"}]

\* In the order recv_until pushes them.
Pushed(kind, s, F, v) == IF kind \in F THEN << Extra(s, kind, v) >> ELSE << >>
Extras(s, F, v) ==
    Pushed("BadCrc", s, F, v) \o (Pushed("Duplicate", s, F, v) \o (Pushed("OutOfOrder", s, F, v)
        \o (Pushed("OutOfRange", s, F, v) \o Pushed("BadLength", s, F, v))))

\* Every frame the bus can deliver.
BusFrames ==
    [faults : {{}}, seq : Seqs, value : SensorValues \cup {VALUE_MAX + 1}]
    \cup [faults : {{"BadCrc"}, {"BadLength"}}, seq : Seqs, value : SensorValues]

\* Mutant: the extra frames arrive before the good one of their cycle.
FramesInjectedFirst(F, v) == Extras(busSeq, F, v) \o << SensorFrame(busSeq, v) >>

FramesOf(F, v) == << SensorFrame(busSeq, v) >> \o Extras(busSeq, F, v)

\* recv_until for a cycle with faults F; `freeze` is freeze_at being reached.
Silent(F, freeze) == frozen \/ freeze \/ "Drop" \in F

Delivered(F, v, freeze) == IF Silent(F, freeze) THEN << >> ELSE FramesOf(F, v)

RecvUntil(F, freeze) ==
    /\ frozen' = (frozen \/ freeze)
    /\ IF Silent(F, freeze)
       THEN UNCHANGED << busSeq, emitted, injected >>
       ELSE /\ busSeq' = SeqSucc(busSeq)
            /\ emitted' = CountSucc(emitted)
            /\ injected' = [k \in DOMAIN injected |->
                              IF k \in F THEN CountSucc(injected[k]) ELSE injected[k]]
    /\ UNCHANGED sent

\* send: the node's commands are always well formed.
Send == sent' = sent + 1 /\ UNCHANGED << busSeq, frozen, emitted, injected >>
=============================================================================
