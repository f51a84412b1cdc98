----------------------------- MODULE SocketStream -----------------------------
(***************************************************************************)
(* host/src/socketcan.rs in front of the validator: a real sender on a     *)
(* real wire.  It numbers its frames and does not know what arrives.  The  *)
(* kernel queues what arrives, up to its buffer; recv_until reads until a  *)
(* read fails, converts what it can, and hands the frames to step.  A      *)
(* frame lost on the wire or for want of buffer, damaged, or implausible   *)
(* is one and the same gap to the sequence position (j1939.rs:330-348).    *)
(***************************************************************************)
EXTENDS Validator, Sequences

CONSTANTS
    ReadTimeout,            \* of one read; 0 is a non-blocking socket
    RcvBuf,                 \* frames the kernel keeps
    MaxSent, LastClock      \* bounds: frames of the sender, instants

ASSUME SocketAssumption ==
    /\ ReadTimeout \in Nat /\ RcvBuf \in Nat \ {0}
    /\ MaxSent \in Nat /\ LastClock \in Nat

VARIABLES
    clock,
    sentNo,        \* how many frames the sender has sent
    queue,         \* what the kernel holds, oldest first
    reading,       \* inside recv_until
    readSince,     \* when the read that is under way began
    out,           \* the frames collected for step
    lastTaken,     \* history: the number of the last accepted frame
    heardAt        \* history: when something last arrived, or the call began

streamVars == << validatorVars, clock, sentNo, queue, reading, readSince, out,
                 lastTaken, heardAt >>

StreamInit ==
    /\ ValidatorInit
    /\ clock = 0
    /\ sentNo = 0
    /\ queue = << >> /\ out = << >>
    /\ reading = FALSE
    /\ readSince = 0 /\ heardAt = 0
    /\ lastTaken = {}

-----------------------------------------------------------------------------
(* The wire and the kernel.                                                *)

\* What the frame sent as number n can look like when it arrives.
Readings(n) ==
    LET good == [faults |-> {}, seq |-> n % SeqMod, value |-> VALUE_MIN]
    IN  {good, [good EXCEPT !.faults = {"BadLength"}], [good EXCEPT !.value = VALUE_MAX + 1]}

\* Remote and error frames, and standard identifiers, of other nodes.
Foreign == [kind |-> "foreign"]

Enqueue(e) ==
    /\ queue' = (IF Len(queue) < RcvBuf THEN Append(queue, e) ELSE queue)
    /\ heardAt' = clock

Transmit ==
    /\ sentNo < MaxSent
    /\ sentNo' = sentNo + 1
    /\ \/ \E f \in Readings(sentNo) : Enqueue([kind |-> "data", no |-> sentNo, frame |-> f])
       \/ UNCHANGED << queue, heardAt >>
    /\ UNCHANGED << validatorVars, clock, reading, readSince, out, lastTaken >>

OtherTraffic ==
    /\ Len(queue) < RcvBuf
    /\ Enqueue(Foreign)
    /\ UNCHANGED << validatorVars, clock, sentNo, reading, readSince, out, lastTaken >>

\* Time passes while nothing is to be done: nobody reads, or a read waits.
Waited == clock - readSince
Tick ==
    /\ clock < LastClock
    /\ IF reading THEN queue = << >> /\ Waited < ReadTimeout ELSE out = << >>
    /\ clock' = clock + 1
    /\ UNCHANGED << validatorVars, sentNo, queue, reading, readSince, out, lastTaken, heardAt >>

-----------------------------------------------------------------------------
(* recv_until, and the loop of step over what it returns.                  *)

CallRecvUntil ==
    /\ ~reading /\ out = << >>
    /\ reading' = TRUE
    /\ readSince' = clock /\ heardAt' = clock
    /\ UNCHANGED << validatorVars, clock, sentNo, queue, out, lastTaken >>

\* from_socketcan: data frames with an extended identifier, length as received.
Converted(e) == IF e.kind = "data" THEN << e >> ELSE << >>

ReadFrame ==
    /\ reading /\ queue # << >>
    /\ out' = out \o Converted(Head(queue))
    /\ queue' = Tail(queue)
    /\ readSince' = clock
    /\ UNCHANGED << validatorVars, clock, sentNo, reading, lastTaken, heardAt >>

\* Mutant: a read that times out is tried again while frames were collected.
ReadFailsRetrying ==
    /\ reading
    /\ IF out # << >> /\ queue = << >>
       THEN reading' = TRUE /\ readSince' = clock
       ELSE reading' = FALSE /\ UNCHANGED readSince
    /\ UNCHANGED << validatorVars, clock, sentNo, queue, out, lastTaken, heardAt >>

\* An empty queue or a timeout, and likewise any other error of the socket,
\* which may leave frames queued: the loop ends and the error is dropped.
ReadFails ==
    /\ reading
    /\ reading' = FALSE
    /\ UNCHANGED << validatorVars, clock, sentNo, queue, readSince, out, lastTaken, heardAt >>

\* Mutant: a refused frame moves the sequence position all the same.
ArrivesAdvancing(f, n) ==
    \/ ValidateOk(f) /\ lastTaken' = {n}
    \/ /\ \E r \in Reject :
            /\ Attributed(f, r)
            /\ rejected' = CountSucc(rejected)
            /\ byReason' = [byReason EXCEPT ![r] = CountSucc(@)]
            /\ lastSeq' = {f.seq}
       /\ UNCHANGED << accepted, lastTaken >>

Arrives(f, n) ==
    \/ ValidateOk(f) /\ lastTaken' = {n}
    \/ \E r \in Reject : ValidateErr(f, r) /\ UNCHANGED lastTaken

TakeFrame ==
    /\ ~reading /\ out # << >>
    /\ Arrives(Head(out).frame, Head(out).no)
    /\ out' = Tail(out)
    /\ UNCHANGED << clock, sentNo, queue, reading, readSince, heardAt >>

StreamNext ==
    \/ Transmit
    \/ OtherTraffic
    \/ Tick
    \/ CallRecvUntil
    \/ ReadFrame
    \/ ReadFails
    \/ TakeFrame

StreamSpec == StreamInit /\ [][StreamNext]_streamVars

-----------------------------------------------------------------------------
(* Properties.                                                             *)

\* Frames are accepted in the order they were sent, and after a gap of any
\* origin nothing is accepted until the sender's counter has gone round: a
\* read error that leaves frames for the next call loses and doubles none
\* (socketcan.rs:115-131, j1939.rs:330-348).
GapIsRefused ==
    [][\A n \in lastTaken', m \in lastTaken :
          n # m => n > m /\ (n - m) % SeqMod = 1]_streamVars

\* A silent bus holds recv_until no longer than one read timeout, and not at
\* all on a non-blocking socket, whatever was read before the silence
\* (socketcan.rs:37-39, 110-114).
SilenceEndsTheCall == reading => clock - heardAt <= ReadTimeout
=============================================================================
