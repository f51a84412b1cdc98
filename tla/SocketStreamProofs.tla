-------------------------- MODULE SocketStreamProofs --------------------------
(***************************************************************************)
(* What SocketStream promises, for every buffer, timeout and sequence      *)
(* width: frames are accepted in the order sent and none after a gap       *)
(* within a lap of the counter, and silence ends the call.                 *)
(***************************************************************************)
EXTENDS SocketStream, SequenceTheorems, TLAPS

\* What the kernel can hold: frames of the sender, with the number that their
\* position in the stream gives them, and foreign ones.
Numbered ==
    {e \in [kind : {"data"}, no : Nat, frame : [faults : SUBSET WireFaults, seq : Int, value : Int]] :
        e.frame.seq = e.no % SeqMod}
Entry == Numbered \cup {Foreign}

Data(q) == {k \in 1 .. Len(q) : q[k].kind = "data"}
Ordered(q) == \A j, k \in Data(q) : j < k => q[j].no < q[k].no
Below(q, n) == \A k \in Data(q) : q[k].no < n
Above(q, n) == \A k \in Data(q) : n < q[k].no

StreamShape ==
    /\ sentNo \in Nat /\ clock \in Nat /\ readSince \in Nat /\ heardAt \in Nat
    /\ reading \in BOOLEAN
    /\ queue \in Seq(Entry) /\ out \in Seq(Numbered)
    /\ lastTaken \in SUBSET Nat

\* The stream from the last accepted frame to the sender is in order.
InOrder ==
    /\ Ordered(queue) /\ Ordered(out)
    /\ Below(queue, sentNo) /\ Below(out, sentNo)
    /\ \A j \in Data(out) : Above(queue, out[j].no)
    /\ \A n \in lastTaken : n < sentNo /\ Above(out, n) /\ Above(queue, n)

\* The sequence position is the number of the last accepted frame.
PositionIsLast ==
    \A n \in lastTaken : lastTaken = {n} /\ lastSeq = {n % SeqMod}

\* A read waits on an empty queue only, and began no later than the last
\* arrival; with frames queued no time has passed since the last arrival.
ReadIsTimed ==
    reading =>
        /\ readSince <= heardAt /\ heardAt <= clock
        /\ clock - readSince <= ReadTimeout
        /\ queue # << >> => heardAt = clock

StreamInductive == StreamShape /\ InOrder /\ PositionIsLast /\ ReadIsTimed

-----------------------------------------------------------------------------
(* Numbers and sequences.                                                  *)

\* A quotient and a remainder below the modulus are the only ones.
LEMMA RemainderIsUnique ==
    ASSUME NEW S \in Nat, NEW q \in Nat, NEW r \in 0 .. S - 1
    PROVE  (S * q + r) % S = r
<1> DEFINE a == S * q + r
          p == a \div S
          t == a % S
<1>1. p \in Int /\ t \in 0 .. S - 1 /\ a = S * p + t
  <2>1. S > 0 /\ a \in Nat
    <3>1. S * q \in Nat
      OBVIOUS
    <3> QED
      BY <3>1
  <2> HIDE DEF a
  <2> QED
    BY <2>1
<1> HIDE DEF p, t
<1>2. S * (p - q) = r - t
  BY <1>1
<1>3. p - q = 0
  <2> DEFINE d == p - q
  <2>1. d \in Int /\ S * d = r - t
    BY <1>1, <1>2
  <2> HIDE DEF d
  <2>2. CASE d >= 1
    <3>1. S * d >= S
      BY <2>1, <2>2
    <3> QED
      BY <3>1, <2>1, <1>1
  <2>3. CASE d <= -1
    <3>1. S * d <= -S
      BY <2>1, <2>3
    <3> QED
      BY <3>1, <2>1, <1>1
  <2>4. d = 0
    BY <2>1, <2>2, <2>3 DEF d
  <2> QED
    BY <2>4 DEF d
<1>4. p = q
  BY <1>1, <1>3
<1>5. t = r
  BY <1>1, <1>4
<1> QED
  BY <1>5 DEF t

\* If the number of a later frame follows that of an earlier one, what was
\* sent between them is a whole number of laps.
LEMMA SuccessorIsALapOrOne ==
    ASSUME NEW m \in Nat, NEW n \in Nat, m < n, n % SeqMod = SeqSucc(m % SeqMod)
    PROVE  (n - m) % SeqMod = 1
<1> DEFINE S == SeqMod
          qm == m \div S
          qn == n \div S
          rm == m % S
          rn == n % S
<1>1. S \in Nat /\ S > 1
  BY SeqModAssumption
<1>2. /\ qm \in Int /\ rm \in 0 .. S - 1 /\ m = S * qm + rm
      /\ qn \in Int /\ rn \in 0 .. S - 1 /\ n = S * qn + rn
  BY <1>1
<1>3. rn = IF rm = S - 1 THEN 0 ELSE rm + 1
  BY DEF SeqSucc
<1> HIDE DEF S, qm, qn, rm, rn
<1>4. PICK d \in Int : n - m = S * d + 1
  <2>1. CASE rm = S - 1
    <3>1. S * (qn - qm - 1) = S * qn - S * qm - S
      BY <1>1, <1>2
    <3>2. n - m = S * (qn - qm - 1) + 1
      BY <3>1, <2>1, <1>1, <1>2, <1>3
    <3> QED
      BY <3>2, <1>2
  <2>2. CASE rm # S - 1
    <3>1. S * (qn - qm) = S * qn - S * qm
      BY <1>1, <1>2
    <3>2. n - m = S * (qn - qm) + 1
      BY <3>1, <2>2, <1>1, <1>2, <1>3
    <3> QED
      BY <3>2, <1>2
  <2> QED
    BY <2>1, <2>2
<1>5. d >= 0
  <2> SUFFICES ASSUME d <= -1
               PROVE  FALSE
    OBVIOUS
  <2>1. S * d <= -S
    BY <1>1
  <2> QED
    BY <2>1, <1>1, <1>4
<1>6. (n - m) % S = 1
  <2> DEFINE g == n - m
  <2>1. g \in Nat /\ d \in Nat /\ 1 \in 0 .. S - 1 /\ g = S * d + 1
    BY <1>1, <1>4, <1>5
  <2> HIDE DEF g
  <2>2. g % S = 1
    BY <2>1, <1>1, RemainderIsUnique
  <2> QED
    BY <2>2 DEF g
<1> QED
  BY <1>6 DEF S

\* What appending to a queue and taking its head do to its numbered frames.
LEMMA AppendData ==
    ASSUME NEW T, NEW q \in Seq(T), NEW e \in T
    PROVE  /\ Append(q, e) \in Seq(T)
           /\ Append(q, e) # << >>
           /\ \A k \in Data(Append(q, e)) :
                 \/ k \in Data(q) /\ Append(q, e)[k] = q[k]
                 \/ k = Len(q) + 1 /\ Append(q, e)[k] = e
<1> QED
  BY AppendProperties DEF Data

LEMMA HeadTailData ==
    ASSUME NEW T, NEW q \in Seq(T), q # << >>
    PROVE  /\ Tail(q) \in Seq(T)
           /\ Head(q) \in T /\ Head(q) = q[1]
           /\ Head(q).kind = "data" => 1 \in Data(q)
           /\ \A k \in Data(Tail(q)) : k + 1 \in Data(q) /\ k + 1 > 1 /\ Tail(q)[k] = q[k + 1]
<1>1. Len(q) \in Nat /\ Len(q) >= 1 /\ Head(q) = q[1]
  OBVIOUS
<1> QED
  BY <1>1, HeadTailProperties DEF Data

-----------------------------------------------------------------------------
(* The invariant.                                                          *)

LEMMA StreamInductiveInit == StreamInit => StreamInductive
<1> SUFFICES ASSUME StreamInit PROVE StreamInductive
  OBVIOUS
<1>1. StreamShape
  <2>1. << >> \in Seq(Entry) /\ << >> \in Seq(Numbered)
    OBVIOUS
  <2> QED
    BY <2>1, Zenon DEF StreamInit, StreamShape
<1>2. Data(<< >>) = {}
  BY DEF Data
<1>3. InOrder
  BY <1>2 DEF StreamInit, InOrder, Ordered, Below, Above
<1>4. PositionIsLast /\ ReadIsTimed
  BY DEF StreamInit, PositionIsLast, ReadIsTimed
<1> QED
  BY <1>1, <1>3, <1>4 DEF StreamInductive

\* What the wire delivers is numbered, and later than all that is under way.
LEMMA TransmittedIsNumbered ==
    ASSUME NEW no \in Nat, NEW f \in Readings(no)
    PROVE  [kind |-> "data", no |-> no, frame |-> f] \in Numbered
<1>1. no % SeqMod \in Int
  BY SeqModAssumption
<1>2. /\ f.seq = no % SeqMod
      /\ f \in [faults : SUBSET WireFaults, seq : Int, value : Int]
  BY <1>1, ValueRangeAssumption DEF Readings, WireFaults
<1> QED
  BY <1>2 DEF Numbered

\* The numbers of the frames on their way are natural numbers.
LEMMA NumbersAreNat ==
    ASSUME StreamShape
    PROVE  /\ \A k \in Data(queue) : queue[k].no \in Nat
           /\ \A k \in Data(out) : out[k].no \in Nat
<1>1. /\ \A x \in Numbered : x.no \in Nat
      /\ \A x \in Entry : x.kind = "data" => x.no \in Nat
  BY DEF Entry, Numbered, Foreign
<1>2. /\ \A k \in 1 .. Len(queue) : queue[k] \in Entry
      /\ \A k \in 1 .. Len(out) : out[k] \in Numbered
  BY DEF StreamShape
<1> QED
  BY <1>1, <1>2 DEF Data

\* A frame that finds room goes to the end of the queue.
LEMMA EnqueuePreserves ==
    ASSUME StreamInductive, NEW e \in Entry, Enqueue(e),
           e.kind = "data" => e.no = sentNo /\ sentNo' = sentNo + 1,
           sentNo' \in {sentNo, sentNo + 1},
           UNCHANGED << validatorVars, clock, reading, readSince, out, lastTaken >>
    PROVE  StreamInductive'
<1>1. StreamShape /\ InOrder /\ PositionIsLast /\ ReadIsTimed
  BY DEF StreamInductive
<1>2. queue' \in {queue, Append(queue, e)} /\ heardAt' = clock
  BY DEF Enqueue
<1>3. StreamShape'
  <2>1. queue \in Seq(Entry) /\ e \in Entry
    BY <1>1 DEF StreamShape
  <2>2. Append(queue, e) \in Seq(Entry)
    BY <2>1, AppendData, Zenon
  <2> QED
    BY <1>1, <1>2, <2>2 DEF StreamShape
<1>4. ReadIsTimed'
  BY <1>1, <1>2 DEF StreamShape, ReadIsTimed
<1>5. PositionIsLast'
  BY <1>1 DEF PositionIsLast, validatorVars
<1>6. InOrder'
  <2>1. CASE queue' = queue
    <3>1. /\ \A k \in Data(queue) : queue[k].no \in Nat
          /\ \A k \in Data(out) : out[k].no \in Nat
      BY <1>1, NumbersAreNat
    <3> QED
      BY <1>1, <2>1, <3>1 DEF StreamShape, InOrder, Ordered, Below, Above
  <2>2. CASE queue' = Append(queue, e)
    <3>1. \A k \in Data(queue') :
             \/ k \in Data(queue) /\ queue'[k] = queue[k]
             \/ k = Len(queue) + 1 /\ queue'[k] = e /\ e.kind = "data"
      BY <1>1, <2>2, AppendData DEF StreamShape, Data
    <3>2. \A k \in Data(queue) : k \in Nat /\ k < Len(queue) + 1 /\ queue[k].no \in Nat
      BY <1>1, NumbersAreNat DEF StreamShape, Data
    <3>3. \A k \in Data(out) : out[k].no \in Nat
      BY <1>1, NumbersAreNat
    <3>4. Len(queue) \in Nat
      BY <1>1 DEF StreamShape
    <3>5. Ordered(queue')
      BY <1>1, <3>1, <3>2, <3>4 DEF StreamShape, InOrder, Ordered, Below
    <3>6. Ordered(out') /\ Below(queue', sentNo') /\ Below(out', sentNo')
      BY <1>1, <3>1, <3>2, <3>3 DEF StreamShape, InOrder, Ordered, Below
    <3>7. \A j \in Data(out') : Above(queue', out'[j].no)
      BY <1>1, <3>1, <3>2, <3>3 DEF StreamShape, InOrder, Above, Below
    <3>8. \A n \in lastTaken' : n < sentNo' /\ Above(out', n) /\ Above(queue', n)
      BY <1>1, <3>1, <3>2, <3>3 DEF StreamShape, InOrder, Above, Below
    <3> QED
      BY <3>5, <3>6, <3>7, <3>8 DEF InOrder
  <2> QED
    BY <1>2, <2>1, <2>2
<1> QED
  BY <1>3, <1>4, <1>5, <1>6 DEF StreamInductive

LEMMA TransmitPreserves ==
    ASSUME StreamInductive, Transmit
    PROVE  StreamInductive'
<1>1. StreamShape /\ InOrder /\ PositionIsLast /\ ReadIsTimed
  BY DEF StreamInductive
<1>2. ASSUME NEW f \in Readings(sentNo), Enqueue([kind |-> "data", no |-> sentNo, frame |-> f])
      PROVE  StreamInductive'
  <2> DEFINE e == [kind |-> "data", no |-> sentNo, frame |-> f]
  <2>1. e \in Entry /\ e.kind = "data" /\ e.no = sentNo
    BY <1>1, TransmittedIsNumbered DEF StreamShape, Entry
  <2> HIDE DEF e
  <2>2. sentNo' = sentNo + 1 /\ UNCHANGED << validatorVars, clock, reading, readSince, out, lastTaken >>
    BY DEF Transmit
  <2>3. Enqueue(e)
    BY <1>2 DEF e
  <2> QED
    BY <2>1, <2>2, <2>3, EnqueuePreserves
<1>3. CASE UNCHANGED << queue, heardAt >>
  <2>1. sentNo' = sentNo + 1 /\ UNCHANGED << validatorVars, clock, reading, readSince, out, lastTaken >>
    BY DEF Transmit
  <2>2. StreamShape' /\ PositionIsLast' /\ ReadIsTimed'
    BY <1>1, <1>3, <2>1 DEF StreamShape, PositionIsLast, ReadIsTimed, validatorVars
  <2>3. /\ \A k \in Data(queue) : queue[k].no \in Nat
        /\ \A k \in Data(out) : out[k].no \in Nat
    BY <1>1, NumbersAreNat
  <2>4. InOrder'
    BY <1>1, <1>3, <2>1, <2>3 DEF StreamShape, InOrder, Ordered, Below, Above
  <2> QED
    BY <2>2, <2>4 DEF StreamInductive
<1> QED
  BY <1>2, <1>3 DEF Transmit

LEMMA OtherTrafficPreserves ==
    ASSUME StreamInductive, OtherTraffic
    PROVE  StreamInductive'
<1>1. Foreign \in Entry /\ Foreign.kind # "data"
  BY DEF Entry, Foreign
<1>2. Enqueue(Foreign) /\ UNCHANGED << validatorVars, clock, sentNo, reading, readSince, out, lastTaken >>
  BY DEF OtherTraffic
<1> QED
  BY <1>1, <1>2, EnqueuePreserves

LEMMA ReadFramePreserves ==
    ASSUME StreamInductive, ReadFrame
    PROVE  StreamInductive'
<1>1. StreamShape /\ InOrder /\ PositionIsLast /\ ReadIsTimed
  BY DEF StreamInductive
<1>2. /\ reading /\ queue # << >> /\ queue \in Seq(Entry) /\ out \in Seq(Numbered)
      /\ out' = out \o Converted(Head(queue))
      /\ queue' = Tail(queue) /\ readSince' = clock
      /\ UNCHANGED << validatorVars, clock, sentNo, reading, lastTaken, heardAt >>
  BY <1>1 DEF StreamShape, ReadFrame
<1>3. /\ queue' \in Seq(Entry)
      /\ Head(queue) \in Entry /\ Head(queue) = queue[1]
      /\ Head(queue).kind = "data" => 1 \in Data(queue)
      /\ \A k \in Data(queue') : k + 1 \in Data(queue) /\ k + 1 > 1 /\ queue'[k] = queue[k + 1]
  BY <1>2, HeadTailData, Zenon
<1>4. /\ out' \in Seq(Numbered)
      /\ \A k \in Data(out') :
            \/ k \in Data(out) /\ out'[k] = out[k]
            \/ k = Len(out) + 1 /\ out'[k] = queue[1] /\ 1 \in Data(queue)
  <2>1. CASE Head(queue).kind = "data"
    <3>1. Head(queue) \in Numbered
      BY <1>3, <2>1 DEF Entry, Foreign
    <3>2. out' = Append(out, Head(queue))
      BY <1>2, <2>1, <3>1 DEF Converted
    <3>3. 1 \in Data(queue) /\ Head(queue) = queue[1] /\ out \in Seq(Numbered)
      BY <1>2, <1>3, <2>1
    <3> QED
      BY <3>1, <3>2, <3>3, AppendData, Zenon
  <2>2. CASE Head(queue).kind # "data"
    <3>1. out' = out
      BY <1>2, <2>2, ConcatEmptySeq DEF Converted
    <3> QED
      BY <1>2, <3>1 DEF Data
  <2> QED
    BY <2>1, <2>2
<1>5. StreamShape'
  BY <1>1, <1>2, <1>3, <1>4 DEF StreamShape
<1>6. PositionIsLast' /\ ReadIsTimed'
  BY <1>1, <1>2, SocketAssumption DEF StreamShape, PositionIsLast, ReadIsTimed, validatorVars
<1>7. /\ \A k \in Data(queue) : k \in Nat /\ queue[k].no \in Nat
      /\ \A k \in Data(out) : k \in Nat /\ k < Len(out) + 1 /\ out[k].no \in Nat
      /\ \A k \in Data(queue') : k \in Nat
      /\ Len(out) \in Nat
  BY <1>2, <1>3 DEF Data, Numbered, Entry, Foreign
<1>8. Ordered(queue') /\ Below(queue', sentNo')
  <2>1. Ordered(queue')
    <3> SUFFICES ASSUME NEW j \in Data(queue'), NEW k \in Data(queue'), j < k
                 PROVE  queue'[j].no < queue'[k].no
      BY DEF Ordered
    <3>1. j + 1 \in Data(queue) /\ k + 1 \in Data(queue) /\ j + 1 < k + 1
      BY <1>3, <1>7
    <3> QED
      BY <1>1, <1>3, <3>1 DEF InOrder, Ordered
  <2>2. Below(queue', sentNo')
    BY <1>1, <1>2, <1>3 DEF InOrder, Below
  <2> QED
    BY <2>1, <2>2
<1>9. Ordered(out')
  BY <1>1, <1>4, <1>7 DEF InOrder, Ordered, Above
<1>10. Below(out', sentNo')
  BY <1>1, <1>2, <1>4 DEF InOrder, Below
<1>11. \A j \in Data(out') : Above(queue', out'[j].no)
  BY <1>1, <1>3, <1>4, <1>7 DEF InOrder, Ordered, Above
<1>12. \A n \in lastTaken' : n < sentNo' /\ Above(out', n) /\ Above(queue', n)
  <2> SUFFICES ASSUME NEW n \in lastTaken'
               PROVE  n < sentNo' /\ Above(out', n) /\ Above(queue', n)
    OBVIOUS
  <2>1. n < sentNo /\ Above(out, n) /\ Above(queue, n)
    BY <1>1, <1>2 DEF InOrder
  <2>2. Above(queue', n)
    BY <1>3, <2>1 DEF Above
  <2>3. Above(out', n)
    BY <1>4, <2>1 DEF Above
  <2> QED
    BY <1>2, <2>1, <2>2, <2>3
<1> QED
  BY <1>5, <1>6, <1>8, <1>9, <1>10, <1>11, <1>12 DEF StreamInductive, InOrder

\* The loop of step takes the oldest frame; if it is accepted, it is the next
\* in order and gives the sequence position.
LEMMA TakeFramePreserves ==
    ASSUME StreamInductive, TakeFrame
    PROVE  StreamInductive'
<1>1. StreamShape /\ InOrder /\ PositionIsLast /\ ReadIsTimed
  BY DEF StreamInductive
<1> DEFINE f == Head(out)
<1>2. /\ out \in Seq(Numbered) /\ out # << >> /\ ~reading /\ out' = Tail(out)
      /\ UNCHANGED << clock, sentNo, queue, reading, readSince, heardAt >>
      /\ \/ lastSeq' = {f.frame.seq} /\ lastTaken' = {f.no}
         \/ UNCHANGED << lastSeq, lastTaken >>
  BY <1>1 DEF StreamShape, TakeFrame, Arrives, ValidateOk, ValidateErr
<1>3. /\ out' \in Seq(Numbered)
      /\ f \in Numbered /\ f = out[1] /\ (f.kind = "data" => 1 \in Data(out))
      /\ \A k \in Data(out') : k + 1 \in Data(out) /\ k + 1 > 1 /\ out'[k] = out[k + 1]
  BY <1>2, HeadTailData, Zenon
<1> HIDE DEF f
<1>4. f.no \in Nat /\ f.frame.seq = f.no % SeqMod /\ 1 \in Data(out)
  BY <1>3 DEF Numbered
<1>5. StreamShape'
  BY <1>1, <1>2, <1>3, <1>4 DEF StreamShape
<1>6. PositionIsLast' /\ ReadIsTimed'
  BY <1>1, <1>2, <1>4 DEF PositionIsLast, ReadIsTimed
<1>7. Ordered(out')
  <2> SUFFICES ASSUME NEW j \in Data(out'), NEW k \in Data(out'), j < k
               PROVE  out'[j].no < out'[k].no
    BY DEF Ordered
  <2>1. j \in Nat /\ k \in Nat
    BY DEF Data
  <2>2. j + 1 \in Data(out) /\ k + 1 \in Data(out) /\ j + 1 < k + 1
    BY <1>3, <2>1
  <2> QED
    BY <1>1, <1>3, <2>2 DEF InOrder, Ordered
<1>8. /\ Ordered(queue') /\ Below(queue', sentNo') /\ Below(out', sentNo')
      /\ \A j \in Data(out') : Above(queue', out'[j].no)
  BY <1>1, <1>2, <1>3 DEF InOrder, Ordered, Below, Above
<1>9. /\ f.no < sentNo /\ Above(queue, f.no)
      /\ \A k \in Data(out') : f.no < out'[k].no
  BY <1>1, <1>3, <1>4 DEF InOrder, Below, Ordered
<1>10. \A n \in lastTaken' : n < sentNo' /\ Above(out', n) /\ Above(queue', n)
  BY <1>1, <1>2, <1>3, <1>9 DEF InOrder, Above
<1> QED
  BY <1>5, <1>6, <1>7, <1>8, <1>10 DEF StreamInductive, InOrder

LEMMA StreamInductiveNext ==
    StreamInductive /\ [StreamNext]_streamVars => StreamInductive'
<1> SUFFICES ASSUME StreamInductive, [StreamNext]_streamVars
             PROVE  StreamInductive'
  OBVIOUS
<1>1. StreamShape /\ InOrder /\ PositionIsLast /\ ReadIsTimed
  BY DEF StreamInductive
<1>2. ASSUME UNCHANGED << lastSeq, sentNo, queue, out, lastTaken, heardAt >>, StreamShape', ReadIsTimed'
      PROVE  StreamInductive'
  BY <1>1, <1>2 DEF StreamInductive, InOrder, Ordered, Below, Above, Data, PositionIsLast
<1>3. CASE Transmit
  BY <1>3, TransmitPreserves
<1>4. CASE OtherTraffic
  BY <1>4, OtherTrafficPreserves
<1>5. CASE Tick
  <2>1. StreamShape' /\ ReadIsTimed'
    BY <1>1, <1>5, SocketAssumption DEF Tick, Waited, StreamShape, ReadIsTimed
  <2> QED
    BY <1>2, <1>5, <2>1 DEF Tick, validatorVars
<1>6. CASE CallRecvUntil
  <2>1. StreamShape' /\ ReadIsTimed'
    BY <1>1, <1>6, SocketAssumption DEF CallRecvUntil, StreamShape, ReadIsTimed
  <2>2. InOrder' /\ PositionIsLast'
    BY <1>1, <1>6 DEF CallRecvUntil, validatorVars, InOrder, Ordered, Below, Above, Data, PositionIsLast
  <2> QED
    BY <2>1, <2>2 DEF StreamInductive
<1>7. CASE ReadFrame
  BY <1>7, ReadFramePreserves
<1>8. CASE ReadFails
  <2>1. StreamShape' /\ ReadIsTimed'
    BY <1>1, <1>8 DEF ReadFails, StreamShape, ReadIsTimed
  <2> QED
    BY <1>2, <1>8, <2>1 DEF ReadFails, validatorVars
<1>9. CASE TakeFrame
  BY <1>9, TakeFramePreserves
<1>10. CASE UNCHANGED streamVars
  <2>1. StreamShape' /\ ReadIsTimed'
    BY <1>1, <1>10 DEF streamVars, StreamShape, ReadIsTimed
  <2> QED
    BY <1>2, <1>10, <2>1 DEF streamVars, validatorVars
<1> QED
  BY <1>3, <1>4, <1>5, <1>6, <1>7, <1>8, <1>9, <1>10 DEF StreamNext

-----------------------------------------------------------------------------
(* Theorems.                                                               *)

\* In every behaviour the frames under way are in order after the last
\* accepted one, whose number is the sequence position.
THEOREM StreamInvariant == StreamSpec => []StreamInductive
<1>1. StreamInit => StreamInductive
  BY StreamInductiveInit
<1>2. StreamInductive /\ [StreamNext]_streamVars => StreamInductive'
  BY StreamInductiveNext
<1> QED
  BY <1>1, <1>2, PTL DEF StreamSpec

\* A silent bus holds recv_until no longer than one read timeout, whatever the
\* timeout and whatever was read before (socketcan.rs:37-39, 110-114).
THEOREM SilenceReturns == StreamSpec => []SilenceEndsTheCall
<1>1. StreamInductive => SilenceEndsTheCall
  BY SocketAssumption DEF StreamInductive, StreamShape, ReadIsTimed, SilenceEndsTheCall
<1> QED
  BY <1>1, StreamInvariant, PTL

\* What is accepted after an accepted frame was sent after it, and right after
\* it but for whole laps of the counter, for every number of sequence numbers
\* (j1939.rs:330-348).
THEOREM GapsAreRefused == StreamSpec => GapIsRefused
<1>1. ASSUME StreamInductive, [StreamNext]_streamVars
      PROVE  \A n \in lastTaken', m \in lastTaken :
                n # m => n > m /\ (n - m) % SeqMod = 1
  <2> SUFFICES ASSUME NEW n \in lastTaken', NEW m \in lastTaken, n # m
               PROVE  n > m /\ (n - m) % SeqMod = 1
    OBVIOUS
  <2>1. lastTaken = {m} /\ lastSeq = {m % SeqMod} /\ m \in Nat
    BY <1>1 DEF StreamInductive, StreamShape, PositionIsLast
  <2>2. lastTaken' # lastTaken
    BY <2>1
  <2>3. TakeFrame /\ ValidateOk(Head(out).frame) /\ n = Head(out).no
    BY <1>1, <2>2 DEF StreamNext, streamVars, Transmit, OtherTraffic, Tick, CallRecvUntil,
                      ReadFrame, ReadFails, TakeFrame, Arrives
  <2> DEFINE f == Head(out)
  <2>4. out # << >> /\ out \in Seq(Numbered)
    BY <1>1, <2>3 DEF StreamInductive, StreamShape, TakeFrame
  <2>5. f \in Numbered /\ f = out[1] /\ (f.kind = "data" => 1 \in Data(out))
    BY <2>4, HeadTailData, Zenon
  <2> HIDE DEF f
  <2>6. n \in Nat /\ f.frame.seq = n % SeqMod /\ m < n
    BY <1>1, <2>3, <2>5 DEF f, Numbered, StreamInductive, InOrder, Above
  <2>7. f.frame.seq # m % SeqMod /\ f.frame.seq \in {m % SeqMod, SeqSucc(m % SeqMod)}
    <3>1. ~Fails(f.frame, "Duplicate") /\ ~Fails(f.frame, "OutOfOrder")
      BY <2>3 DEF f, ValidateOk, Acceptable, Reject
    <3> QED
      BY <3>1, <2>1 DEF Fails, NotNext, WireFaults
  <2> QED
    BY <2>1, <2>6, <2>7, SuccessorIsALapOrOne
<1> QED
  BY <1>1, StreamInvariant, PTL DEF StreamSpec, GapIsRefused
===============================================================================
