------------------------------ MODULE Validator ------------------------------
(***************************************************************************)
(* core/src/j1939.rs: the sensor-frame validator.                          *)
(*                                                                         *)
(* A frame is reduced to what the validator tells apart: the structural    *)
(* checks it would fail (length, PGN, source address, CRC, reserved        *)
(* bytes), its sequence number and its value.  An Option<T> is a set of at *)
(* most one element.  Sequence numbers and counters keep a width: u8 and   *)
(* u32 wrap in the build that is shipped.                                  *)
(***************************************************************************)
EXTENDS Integers

CONSTANTS
    SeqMod,      \* number of sequence numbers: 256 in the code
    CounterMod,  \* number of values of a u32 counter: 2^32 in the code
    VALUE_MIN,   \* the plausible range of a reading
    VALUE_MAX

ASSUME SeqModAssumption == SeqMod \in Nat /\ SeqMod > 1
ASSUME CounterModAssumption == CounterMod \in Nat /\ CounterMod > 1
ASSUME ValueRangeAssumption ==
    VALUE_MIN \in Int /\ VALUE_MAX \in Int /\ VALUE_MIN <= VALUE_MAX

\* The reasons in the fixed order in which classify tests them.
CheckOrder == << "BadLength", "UnknownPgn", "UnexpectedSource", "BadCrc",
                 "BadReserved", "Duplicate", "OutOfOrder", "OutOfRange" >>

WireFaults == {"BadLength", "UnknownPgn", "UnexpectedSource", "BadCrc",
               "BadReserved"}
Reject == WireFaults \cup {"Duplicate", "OutOfOrder", "OutOfRange"}

Seqs == 0 .. SeqMod - 1
Counts == 0 .. CounterMod - 1
Frame == [faults : SUBSET WireFaults, seq : Seqs, value : Int]

VARIABLES lastSeq, accepted, rejected, byReason
validatorVars == << lastSeq, accepted, rejected, byReason >>

ValidatorTypeOK ==
    /\ lastSeq \in SUBSET Seqs
    /\ accepted \in Counts
    /\ rejected \in Counts
    /\ byReason \in [Reject -> Counts]

ValidatorInit ==
    /\ lastSeq = {}
    /\ accepted = 0
    /\ rejected = 0
    /\ byReason = [r \in Reject |-> 0]

-----------------------------------------------------------------------------
\* wrapping_add(1) on a u8 sequence number, and += 1 on a u32 counter.
SeqSucc(s) == IF s = SeqMod - 1 THEN 0 ELSE s + 1
CountSucc(c) == IF c = CounterMod - 1 THEN 0 ELSE c + 1

\* A sequence number the validator cannot place: neither a repeat of the last
\* accepted one nor its successor.
NotNext(s) == \E last \in lastSeq : s \notin {last, SeqSucc(last)}

\* Mutant: only the upper end of the plausible range is tested.
FailsUpperOnly(f, r) ==
    CASE r \in WireFaults   -> r \in f.faults
      [] r = "Duplicate"    -> f.seq \in lastSeq
      [] r = "OutOfOrder"   -> NotNext(f.seq)
      [] r = "OutOfRange"   -> f.value > VALUE_MAX

\* The checks of classify, each on its own.
Fails(f, r) ==
    CASE r \in WireFaults   -> r \in f.faults
      [] r = "Duplicate"    -> f.seq \in lastSeq
      [] r = "OutOfOrder"   -> NotNext(f.seq)
      [] r = "OutOfRange"   -> f.value \notin VALUE_MIN .. VALUE_MAX

Precedes(q, r) ==
    \E i, j \in DOMAIN CheckOrder :
        i < j /\ CheckOrder[i] = q /\ CheckOrder[j] = r

\* A faulty frame is attributed to the first check it fails.
Attributed(f, r) ==
    /\ Fails(f, r)
    /\ \A q \in Reject : Precedes(q, r) => ~Fails(f, q)

Acceptable(f) == \A r \in Reject : ~Fails(f, r)

\* validate returning Ok: the only place where the sequence position moves.
ValidateOk(f) ==
    /\ Acceptable(f)
    /\ lastSeq' = {f.seq}
    /\ accepted' = CountSucc(accepted)
    /\ UNCHANGED << rejected, byReason >>

\* Mutant: every failed check is counted, not the first one only.
ValidateErrCountingAll(f, r) ==
    /\ Attributed(f, r)
    /\ rejected' = CountSucc(rejected)
    /\ byReason' = [q \in Reject |-> IF Fails(f, q) THEN CountSucc(byReason[q])
                                                    ELSE byReason[q]]
    /\ UNCHANGED << lastSeq, accepted >>

\* validate returning Err(r).
ValidateErr(f, r) ==
    /\ Attributed(f, r)
    /\ rejected' = CountSucc(rejected)
    /\ byReason' = [byReason EXCEPT ![r] = CountSucc(@)]
    /\ UNCHANGED << lastSeq, accepted >>

\* reset_sequence: the counters survive.
ResetSequence ==
    /\ lastSeq' = {}
    /\ UNCHANGED << accepted, rejected, byReason >>
=============================================================================
