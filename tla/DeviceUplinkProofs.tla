-------------------------- MODULE DeviceUplinkProofs --------------------------
(***************************************************************************)
(* Device, link and store keep the contract, for every size of the ring    *)
(* and of a batch, any number of sessions and of faults, and whatever the  *)
(* store answers: the readings a request confirms are the front of the     *)
(* ring as long as the device waits for its answer, and a reading sampled  *)
(* now is new. The store in this system takes only steps its own           *)
(* specification allows, so what is proved of it holds here; and since an  *)
(* identity is sampled once, no request ever contradicts another.          *)
(***************************************************************************)
EXTENDS DeviceUplink, EventStoreProofs

\* Readings of an earlier session, or of this one up to now.
Earlier ==
    {r \in Reading : \E b \in 1 .. MaxBoots, n \in 0 .. MaxSequence :
        r.id = << b, n >> /\ (b < bootCounter \/ (b = bootCounter /\ n < nextSequence))}
OnlyEarlier(S) == \A f \in S : "id" \in DOMAIN f => f \in Earlier

DeviceShape ==
    /\ bootCounter \in 1 .. MaxBoots /\ nextSequence \in 0 .. MaxSequence
    /\ ring \in Seq(Reading)
    /\ Len(sending) \in Nat /\ DOMAIN sending = 1 .. Len(sending)

\* Everything in the device, on the link and confirmed has been sampled.
AllSampled ==
    /\ \A i \in 1 .. Len(ring) : ring[i] \in Earlier
    /\ \A batch \in strays : \A i \in DOMAIN batch : batch[i].reading \in Earlier
    /\ OnlyEarlier(request) /\ OnlyEarlier(acked)

\* The outcome the device waits for is that of the front of its ring.
WaitsForFront ==
    /\ Len(sending) <= Len(ring)
    /\ \A i \in 1 .. Len(sending) : sending[i].reading = ring[i]
    /\ at = "none" => sending = << >>
    /\ at = "store" =>
          /\ phase = "appending"
          /\ request = {sending[i].reading : i \in DOMAIN sending}

UplinkInductive == DeviceShape /\ AllSampled /\ WaitsForFront

-----------------------------------------------------------------------------
(* What the store does to what it confirms.                                *)

LEMMA IngestConfirms ==
    ASSUME NEW batch, NEW t, Ingest(batch, t)
    PROVE  /\ phase = "serving" /\ phase' = "appending"
           /\ request' = {batch[i].reading : i \in DOMAIN batch}
           /\ UNCHANGED acked
  BY DEF Ingest, Begin

LEMMA OperatorConfirms ==
    ASSUME NEW s, Operator(s)
    PROVE  /\ phase = "serving"
           /\ OnlyEarlier(request')
           /\ UNCHANGED << acked, ring, droppedWhenFull >>
<1>1. ASSUME NEW e, BeginRecord(e)
      PROVE  /\ phase = "serving" /\ UNCHANGED acked
             /\ request' = {[device |-> e.device, version |-> e.version, secret |-> e.secret]}
  BY <1>1 DEF BeginRecord, Begin
<1>2. \E e : BeginRecord(e)
  <2>1. CASE Register(Device, s)
    BY <2>1 DEF Register
  <2>2. CASE RotateCredential(Device, s)
    BY <2>2 DEF RotateCredential
  <2> QED
    BY <2>1, <2>2 DEF Operator
<1> QED
  BY <1>1, <1>2 DEF Operator, OnlyEarlier, deviceVars

LEMMA ServerKeepsRequest ==
    ASSUME ServerRuns
    PROVE  /\ UNCHANGED << request, acked, deviceVars, linkVars >>
           /\ phase = "appending" => phase' = "appending"
  BY DEF ServerRuns, Open, ReplayLine, Opened, AppendOk, progress

LEMMA FailureForgetsRequest ==
    ASSUME ServerFails
    PROVE  request' = {} /\ UNCHANGED << acked, strays >>
  BY DEF ServerFails, StoreFailure, AppendErr, Restart, Crash, PowerLoss, Stopped

-----------------------------------------------------------------------------
(* The invariant.                                                          *)

LEMMA UplinkInductiveInit == UplinkInit => UplinkInductive
<1> SUFFICES ASSUME UplinkInit PROVE UplinkInductive
  OBVIOUS
<1>1. << >> \in Seq(Reading) /\ Len(<< >>) = 0 /\ DOMAIN << >> = 1 .. 0
  OBVIOUS
<1>2. DeviceShape
  BY <1>1, SessionsAssumption DEF UplinkInit, DeviceShape
<1>3. AllSampled
  BY <1>1 DEF UplinkInit, StoreInit, AllSampled, OnlyEarlier
<1>4. WaitsForFront
  BY <1>1 DEF UplinkInit, WaitsForFront
<1> QED
  BY <1>2, <1>3, <1>4 DEF UplinkInductive

\* What has been sampled stays so, whatever the device does.
LEMMA EarlierGrows ==
    ASSUME DeviceShape,
           \/ bootCounter' = bootCounter /\ nextSequence' \in {nextSequence, nextSequence + 1}
           \/ bootCounter' = bootCounter + 1
    PROVE  Earlier \subseteq Earlier'
  BY SessionsAssumption DEF DeviceShape, Earlier

LEMMA SamplePreserves ==
    ASSUME UplinkInductive, NEW v \in Values, Sample(v)
    PROVE  /\ UplinkInductive'
           /\ \E r \in Reading :
                 /\ r \notin Earlier /\ r \in Earlier' /\ \A q \in Earlier : q.id # r.id
                 /\ IF Len(ring) = MaxRing
                    THEN ring' = Append(Tail(ring), r) /\ droppedWhenFull' = droppedWhenFull + 1
                    ELSE ring' = Append(ring, r) /\ UNCHANGED droppedWhenFull
<1>1. DeviceShape /\ AllSampled /\ WaitsForFront
  BY DEF UplinkInductive
<1> DEFINE r == [device |-> Device, id |-> << bootCounter, nextSequence >>, value |-> v]
<1>2. r \in Reading /\ r.id = << bootCounter, nextSequence >>
  <2>1. << bootCounter, nextSequence >> \in (1 .. MaxBoots) \X (0 .. MaxSequence - 1)
    BY <1>1, SessionsAssumption DEF DeviceShape, Sample
  <2> QED
    BY <2>1, SessionsAssumption, UplinkAssumption DEF Reading
<1>3. /\ at = "none" /\ nextSequence < MaxSequence /\ nextSequence' = nextSequence + 1
      /\ IF Len(ring) = MaxRing
         THEN ring' = Append(Tail(ring), r) /\ droppedWhenFull' = droppedWhenFull + 1
         ELSE ring' = Append(ring, r) /\ UNCHANGED droppedWhenFull
      /\ UNCHANGED << phase, request, acked, sending, at, strays, bootCounter >>
  BY DEF Sample, storeVars, progress, linkVars
<1> HIDE DEF r
<1>4. /\ r \notin Earlier /\ r \in Earlier'
      /\ \A q \in Earlier : q.id # r.id
  <2>1. r \in Earlier'
    BY <1>1, <1>2, <1>3, SessionsAssumption DEF DeviceShape, Earlier
  <2>2. \A q \in Earlier : q.id # r.id
    BY <1>1, <1>2, SessionsAssumption DEF DeviceShape, Earlier
  <2> QED
    BY <2>1, <2>2
<1>5. Earlier \subseteq Earlier'
  BY <1>1, <1>3, EarlierGrows
<1>6. /\ ring' \in Seq(Reading)
      /\ \A i \in 1 .. Len(ring') : ring'[i] \in Earlier'
  <2>1. ring \in Seq(Reading) /\ Len(ring) \in Nat /\ MaxRing > 0
    BY <1>1, UplinkAssumption DEF DeviceShape
  <2>2. CASE Len(ring) = MaxRing
    <3> DEFINE rest == Tail(ring)
    <3>1. /\ rest \in Seq(Reading) /\ Len(rest) \in Nat
          /\ \A i \in 1 .. Len(rest) : rest[i] \in Earlier
      BY <1>1, <2>1, <2>2 DEF AllSampled
    <3> HIDE DEF rest
    <3>2. ring' = Append(rest, r)
      BY <1>3, <2>2 DEF rest
    <3> QED
      BY <1>2, <1>4, <1>5, <3>1, <3>2
  <2>3. CASE Len(ring) # MaxRing
    <3>1. ring' = Append(ring, r)
      BY <1>3, <2>3
    <3> QED
      BY <1>1, <1>2, <1>4, <1>5, <2>1, <3>1 DEF AllSampled
  <2> QED
    BY <2>2, <2>3
<1>7. UplinkInductive'
  <2>1. DeviceShape'
    BY <1>1, <1>3, <1>6, SessionsAssumption DEF DeviceShape
  <2>2. AllSampled'
    BY <1>1, <1>3, <1>5, <1>6 DEF AllSampled, OnlyEarlier
  <2>3. WaitsForFront'
    BY <1>1, <1>3, <1>6 DEF WaitsForFront
  <2> QED
    BY <2>1, <2>2, <2>3 DEF UplinkInductive
<1> QED
  BY <1>2, <1>3, <1>4, <1>7

LEMMA RebootPreserves ==
    ASSUME UplinkInductive, Reboot
    PROVE  UplinkInductive'
<1>1. DeviceShape /\ AllSampled /\ WaitsForFront
  BY DEF UplinkInductive
<1>2. /\ bootCounter < MaxBoots /\ bootCounter' = bootCounter + 1 /\ nextSequence' = 0
      /\ UNCHANGED << phase, request, acked, sending, at, strays, ring >>
  BY DEF Reboot, storeVars, progress, linkVars
<1>3. Earlier \subseteq Earlier'
  BY <1>1, <1>2, EarlierGrows
<1>4. DeviceShape' /\ WaitsForFront'
  BY <1>1, <1>2, SessionsAssumption DEF DeviceShape, WaitsForFront
<1>5. AllSampled'
  BY <1>1, <1>2, <1>3 DEF AllSampled, OnlyEarlier
<1> QED
  BY <1>4, <1>5 DEF UplinkInductive

\* The batch is the front of the ring.
LEMMA SyncSendPreserves ==
    ASSUME UplinkInductive, SyncSend
    PROVE  UplinkInductive'
<1>1. DeviceShape /\ AllSampled /\ WaitsForFront
  BY DEF UplinkInductive
<1>2. /\ sending' = Batch /\ at' = "wire"
      /\ UNCHANGED << phase, request, acked, strays, ring, bootCounter, nextSequence >>
  BY DEF SyncSend, storeVars, progress, deviceVars
<1> DEFINE n == IF Len(ring) < MaxBatch THEN Len(ring) ELSE MaxBatch
<1>3. Len(ring) \in Nat /\ n \in Nat /\ n <= Len(ring)
  BY <1>1, LimitsAssumption DEF DeviceShape
<1>4. Batch = [i \in 1 .. n |-> [reading |-> ring[i], secret |-> deviceSecret]]
  BY DEF Batch
<1> HIDE DEF n
<1>5. /\ Len(Batch) = n /\ DOMAIN Batch = 1 .. n
      /\ \A i \in 1 .. n : Batch[i].reading = ring[i]
  BY <1>3, <1>4
<1>6. DeviceShape' /\ WaitsForFront'
  BY <1>1, <1>2, <1>3, <1>5 DEF DeviceShape, WaitsForFront
<1>7. AllSampled'
  <2>1. Earlier' = Earlier
    BY <1>2 DEF Earlier
  <2> QED
    BY <1>1, <1>2, <2>1 DEF AllSampled, OnlyEarlier
<1> QED
  BY <1>6, <1>7 DEF UplinkInductive

\* A step that neither moves the ring nor changes what the device waits for
\* preserves the invariant if what it confirms has been sampled.
LEMMA RingStands ==
    ASSUME UplinkInductive,
           UNCHANGED << ring, bootCounter, nextSequence >>,
           OnlyEarlier(request'), OnlyEarlier(acked'),
           \A batch \in strays' : \A i \in DOMAIN batch : batch[i].reading \in Earlier,
           \/ sending' = << >> /\ at' = "none"
           \/ sending' = sending /\ at # "none" /\ at' \in {"wire", "lost"}
           \/ /\ sending' = sending /\ at' \in {at, "store"}
              /\ at' = "store" => /\ phase' = "appending"
                                  /\ request' = {sending[i].reading : i \in DOMAIN sending}
    PROVE  UplinkInductive'
<1>1. DeviceShape /\ AllSampled /\ WaitsForFront
  BY DEF UplinkInductive
<1>2. Earlier' = Earlier
  BY DEF Earlier
<1>3. << >> = << >> /\ Len(<< >>) = 0 /\ DOMAIN << >> = 1 .. 0 /\ Len(ring) \in Nat
  BY <1>1 DEF DeviceShape
<1>4. DeviceShape'
  BY <1>1, <1>3 DEF DeviceShape
<1>5. AllSampled'
  BY <1>1, <1>2 DEF AllSampled, OnlyEarlier
<1>6. WaitsForFront'
  BY <1>1, <1>3 DEF WaitsForFront
<1> QED
  BY <1>4, <1>5, <1>6 DEF UplinkInductive

LEMMA ArrivePreserves ==
    ASSUME UplinkInductive, NEW t, Arrive(t) \/ ArriveStray(t)
    PROVE  UplinkInductive' /\ UNCHANGED << ring, acked, droppedWhenFull >>
<1>1. DeviceShape /\ AllSampled /\ WaitsForFront
  BY DEF UplinkInductive
<1>2. \A i \in DOMAIN sending : sending[i].reading \in Earlier
  BY <1>1 DEF DeviceShape, AllSampled, WaitsForFront
<1>3. CASE Arrive(t)
  <2>1. UNCHANGED << ring, bootCounter, nextSequence, droppedWhenFull, strays >> /\ at = "wire"
    BY <1>3 DEF Arrive, SyncErr, deviceVars
  <2>2. CASE Acceptable(sending)
    <3>1. /\ phase' = "appending" /\ at' = "store" /\ UNCHANGED << acked, sending >>
          /\ request' = {sending[i].reading : i \in DOMAIN sending}
      BY <1>3, <2>2, IngestConfirms DEF Arrive
    <3>2. OnlyEarlier(request')
      BY <1>2, <3>1 DEF OnlyEarlier
    <3> QED
      BY <1>1, <2>1, <3>1, <3>2, RingStands DEF AllSampled, OnlyEarlier
  <2>3. CASE ~ Acceptable(sending)
    <3>1. sending' = << >> /\ at' = "none" /\ UNCHANGED << request, acked >>
      BY <1>3, <2>3 DEF Arrive, SyncErr, storeVars, progress
    <3> QED
      BY <1>1, <2>1, <3>1, RingStands DEF AllSampled, OnlyEarlier
  <2> QED
    BY <2>2, <2>3
<1>4. CASE ArriveStray(t)
  <2>1. /\ UNCHANGED << ring, bootCounter, nextSequence, droppedWhenFull, sending, at >>
        /\ phase = "serving" /\ strays' \subseteq strays
    BY <1>4 DEF ArriveStray, deviceVars
  <2>2. at # "store"
    BY <1>1, <2>1 DEF WaitsForFront
  <2>3. PICK batch \in strays : IF Acceptable(batch) THEN Ingest(batch, t) ELSE UNCHANGED storeVars
    BY <1>4 DEF ArriveStray
  <2>4. UNCHANGED acked /\ OnlyEarlier(request')
    <3>1. CASE Acceptable(batch)
      BY <1>1, <2>3, <3>1, IngestConfirms DEF AllSampled, OnlyEarlier
    <3>2. CASE ~ Acceptable(batch)
      BY <1>1, <2>3, <3>2 DEF AllSampled, OnlyEarlier, storeVars, progress
    <3> QED
      BY <3>1, <3>2
  <2> QED
    BY <1>1, <2>1, <2>2, <2>4, RingStands DEF AllSampled, OnlyEarlier
<1> QED
  BY <1>3, <1>4

\* A success confirms the readings of the request, and the device that waits
\* for it lets go of the front of its ring, which is what it had sent.
LEMMA AnswerArrivesPreserves ==
    ASSUME UplinkInductive, AnswerArrives
    PROVE  /\ UplinkInductive'
           /\ acked' = acked \cup request /\ OnlyEarlier(request)
           /\ UNCHANGED droppedWhenFull
           /\ \E n \in 0 .. Len(ring) :
                 /\ ring' = SubSeq(ring, n + 1, Len(ring))
                 /\ \A i \in 1 .. n : ring[i] \in request
<1>1. DeviceShape /\ AllSampled /\ WaitsForFront
  BY DEF UplinkInductive
<1>2. /\ phase = "appending" /\ acked' = acked \cup request /\ request' = {}
      /\ UNCHANGED strays
  BY DEF AnswerArrives, Answer
<1>3. /\ ring \in Seq(Reading) /\ Len(ring) \in Nat
      /\ Len(sending) \in 0 .. Len(ring)
  BY <1>1 DEF DeviceShape, WaitsForFront
<1>4. OnlyEarlier(acked \cup request) /\ OnlyEarlier({})
  BY <1>1 DEF AllSampled, OnlyEarlier
<1>5. CASE at = "store"
  <2>1. /\ sending' = << >> /\ at' = "none"
        /\ ring' = SubSeq(ring, Len(sending) + 1, Len(ring))
        /\ UNCHANGED << nextSequence, bootCounter, droppedWhenFull >>
    BY <1>5 DEF AnswerArrives, SyncOk
  <2>2. \A i \in 1 .. Len(sending) : ring[i] \in request
    BY <1>1, <1>5 DEF DeviceShape, WaitsForFront
  <2>3. /\ ring' \in Seq(Reading)
        /\ Len(ring') = Len(ring) - Len(sending)
        /\ \A i \in 1 .. Len(ring') : ring'[i] = ring[i + Len(sending)]
    <3> DEFINE n == Len(sending)
    <3>1. n \in 0 .. Len(ring)
      BY <1>3
    <3> HIDE DEF n
    <3>2. /\ SubSeq(ring, n + 1, Len(ring)) \in Seq(Reading)
          /\ Len(SubSeq(ring, n + 1, Len(ring))) = Len(ring) - n
          /\ \A i \in 1 .. Len(ring) - n : SubSeq(ring, n + 1, Len(ring))[i] = ring[i + n]
      BY <1>3, <3>1
    <3> QED
      BY <2>1, <3>2 DEF n
  <2>4. Earlier' = Earlier
    BY <2>1 DEF Earlier
  <2>5. \A i \in 1 .. Len(ring') : i + Len(sending) \in 1 .. Len(ring)
    BY <1>3, <2>3
  <2>6. AllSampled'
    BY <1>1, <1>2, <1>4, <2>3, <2>4, <2>5 DEF AllSampled, OnlyEarlier
  <2>7. << >> \in Seq(Reading) /\ Len(<< >>) = 0 /\ DOMAIN << >> = 1 .. 0 /\ Len(ring') \in Nat
    BY <2>3
  <2>8. DeviceShape' /\ WaitsForFront'
    BY <1>1, <2>1, <2>3, <2>7 DEF DeviceShape, WaitsForFront
  <2>9. UplinkInductive'
    BY <2>6, <2>8 DEF UplinkInductive
  <2> QED
    BY <1>1, <1>2, <1>3, <2>1, <2>2, <2>9 DEF AllSampled
<1>6. CASE at # "store"
  <2>1. UNCHANGED << deviceVars, sending, at >>
    BY <1>6 DEF AnswerArrives
  <2>2. UplinkInductive'
    BY <1>1, <1>2, <1>4, <1>6, <2>1, RingStands DEF AllSampled, deviceVars
  <2>3. ring' = SubSeq(ring, 0 + 1, Len(ring)) /\ 0 \in 0 .. Len(ring)
    BY <1>3, <2>1 DEF deviceVars
  <2>4. UNCHANGED droppedWhenFull
    BY <2>1 DEF deviceVars
  <2> QED
    BY <1>1, <1>2, <2>2, <2>3, <2>4 DEF AllSampled
<1> QED
  BY <1>5, <1>6

LEMMA AnswerLostPreserves ==
    ASSUME UplinkInductive, AnswerLost
    PROVE  /\ UplinkInductive'
           /\ acked' = acked \cup request /\ OnlyEarlier(request)
           /\ UNCHANGED << ring, droppedWhenFull >>
<1>1. DeviceShape /\ AllSampled /\ WaitsForFront
  BY DEF UplinkInductive
<1>2. /\ acked' = acked \cup request /\ request' = {}
      /\ at = "store" /\ at' = "lost" /\ UNCHANGED << strays, deviceVars, sending >>
  BY DEF AnswerLost, Answer
<1>3. OnlyEarlier(acked') /\ OnlyEarlier(request')
  BY <1>1, <1>2 DEF AllSampled, OnlyEarlier
<1>4. UplinkInductive'
  BY <1>1, <1>2, <1>3, RingStands DEF AllSampled, deviceVars
<1> QED
  BY <1>1, <1>2, <1>4 DEF AllSampled, deviceVars

\* The remaining steps confirm nothing and leave the ring alone.
LEMMA OthersPreserve ==
    ASSUME UplinkInductive,
           \/ SyncSend \/ Provision \/ TimeOut \/ RequestLost \/ TimeOutEarly
           \/ ServerFails \/ ServerRuns \/ (\E s \in Secrets : Operator(s))
    PROVE  UplinkInductive' /\ UNCHANGED << ring, acked, droppedWhenFull >>
<1>1. DeviceShape /\ AllSampled /\ WaitsForFront
  BY DEF UplinkInductive
<1>2. CASE SyncSend
  BY <1>2, SyncSendPreserves DEF SyncSend, storeVars, deviceVars
<1>3. CASE Provision
  <2>1. UNCHANGED << ring, bootCounter, nextSequence, droppedWhenFull, phase, request, acked,
                     sending, at, strays >>
    BY <1>3 DEF Provision, storeVars, progress, linkVars
  <2>2. at = "none"
    BY <1>3 DEF Provision
  <2> QED
    BY <1>1, <2>1, <2>2, RingStands DEF AllSampled, OnlyEarlier
<1>4. CASE TimeOut
  <2>1. /\ UNCHANGED << ring, bootCounter, nextSequence, droppedWhenFull, request, acked, strays >>
        /\ sending' = << >> /\ at' = "none"
    BY <1>4 DEF TimeOut, SyncErr, storeVars, progress, deviceVars
  <2> QED
    BY <1>1, <2>1, RingStands DEF AllSampled, OnlyEarlier
<1>5. CASE RequestLost
  <2>1. /\ UNCHANGED << ring, bootCounter, nextSequence, droppedWhenFull, request, acked,
                        sending, strays >>
        /\ at = "wire" /\ at' = "lost"
    BY <1>5 DEF RequestLost, storeVars, progress, deviceVars
  <2> QED
    BY <1>1, <2>1, RingStands DEF AllSampled, OnlyEarlier
<1>6. CASE TimeOutEarly
  <2>1. /\ UNCHANGED << ring, bootCounter, nextSequence, droppedWhenFull, request, acked >>
        /\ sending' = << >> /\ at' = "none" /\ strays' \subseteq strays \cup {sending}
    BY <1>6 DEF TimeOutEarly, SyncErr, storeVars, progress, deviceVars
  <2>2. \A i \in DOMAIN sending : sending[i].reading \in Earlier
    BY <1>1 DEF DeviceShape, AllSampled, WaitsForFront
  <2> QED
    BY <1>1, <2>1, <2>2, RingStands DEF AllSampled, OnlyEarlier
<1>7. CASE ServerFails
  <2>1. request' = {} /\ UNCHANGED << acked, strays >>
    BY <1>7, FailureForgetsRequest
  <2>2. /\ UNCHANGED << ring, bootCounter, nextSequence, droppedWhenFull >>
        /\ \/ sending' = << >> /\ at' = "none"
           \/ at # "store" /\ UNCHANGED << sending, at >>
    BY <1>7 DEF ServerFails, SyncErr, deviceVars
  <2>3. OnlyEarlier(request')
    BY <2>1 DEF OnlyEarlier
  <2> QED
    BY <1>1, <2>1, <2>2, <2>3, RingStands DEF AllSampled, OnlyEarlier
<1>8. CASE ServerRuns
  <2>1. /\ UNCHANGED << ring, bootCounter, nextSequence, droppedWhenFull, request, acked,
                        sending, at, strays >>
        /\ phase = "appending" => phase' = "appending"
    BY <1>8, ServerKeepsRequest DEF deviceVars, linkVars
  <2> QED
    BY <1>1, <2>1, RingStands DEF AllSampled, WaitsForFront, OnlyEarlier
<1>9. ASSUME NEW s \in Secrets, Operator(s)
      PROVE  UplinkInductive' /\ UNCHANGED << ring, acked, droppedWhenFull >>
  <2>1. /\ phase = "serving" /\ OnlyEarlier(request')
        /\ UNCHANGED << ring, bootCounter, nextSequence, droppedWhenFull, acked, sending, at, strays >>
    BY <1>9, OperatorConfirms DEF Operator, deviceVars, linkVars
  <2>2. at # "store"
    BY <1>1, <2>1 DEF WaitsForFront
  <2> QED
    BY <1>1, <2>1, <2>2, RingStands DEF AllSampled, OnlyEarlier
<1> QED
  BY <1>2, <1>3, <1>4, <1>5, <1>6, <1>7, <1>8, <1>9

LEMMA UplinkInductiveNext ==
    UplinkInductive /\ [UplinkNext]_uplinkVars => UplinkInductive'
<1> SUFFICES ASSUME UplinkInductive, [UplinkNext]_uplinkVars
             PROVE  UplinkInductive'
  OBVIOUS
<1>1. CASE UNCHANGED uplinkVars
  <2>1. UNCHANGED << bootCounter, nextSequence, ring, sending, at, strays, phase, request, acked >>
    BY <1>1 DEF uplinkVars, storeVars, progress, deviceVars, linkVars
  <2>2. DeviceShape' /\ WaitsForFront'
    BY <2>1 DEF UplinkInductive, DeviceShape, WaitsForFront
  <2>3. Earlier' = Earlier
    BY <2>1 DEF Earlier
  <2>4. AllSampled'
    BY <2>1, <2>3 DEF UplinkInductive, AllSampled, OnlyEarlier
  <2> QED
    BY <2>2, <2>4 DEF UplinkInductive
<1>2. CASE \E v \in Values : Sample(v)
  BY <1>2, SamplePreserves
<1>3. CASE Reboot
  BY <1>3, RebootPreserves
<1>4. CASE \E t \in Instants : Arrive(t) \/ ArriveStray(t)
  BY <1>4, ArrivePreserves
<1>5. CASE AnswerArrives
  BY <1>5, AnswerArrivesPreserves
<1>6. CASE AnswerLost
  BY <1>6, AnswerLostPreserves
<1>7. CASE \/ SyncSend \/ Provision \/ TimeOut \/ RequestLost \/ TimeOutEarly
           \/ ServerFails \/ ServerRuns \/ (\E s \in Secrets : Operator(s))
  BY <1>7, OthersPreserve
<1> QED
  BY <1>1, <1>2, <1>3, <1>4, <1>5, <1>6, <1>7 DEF UplinkNext

-----------------------------------------------------------------------------
(* Theorems.                                                               *)

\* In every behaviour everything on its way was sampled before, and the device
\* waits for the outcome of the front of its ring (lib.rs:433-458).
THEOREM UplinkInvariant == UplinkSpec => []UplinkInductive
<1>1. UplinkInit => UplinkInductive
  BY UplinkInductiveInit
<1>2. UplinkInductive /\ [UplinkNext]_uplinkVars => UplinkInductive'
  BY UplinkInductiveNext
<1> QED
  BY <1>1, <1>2, PTL DEF UplinkSpec

\* Confirming only what is under way is a step of the contract.
LEMMA ConfirmationIsContracted ==
    ASSUME UplinkInductive, OnlyEarlier(request), acked' = acked \cup request,
           UNCHANGED droppedWhenFull,
           NEW n \in 0 .. Len(ring), ring' = SubSeq(ring, n + 1, Len(ring)),
           \A i \in 1 .. n : ring[i] \in request
    PROVE  Contract!Next
<1> DEFINE S == {f \in request : "id" \in DOMAIN f}
<1>1. S \in SUBSET Reading
  BY DEF OnlyEarlier, Earlier
<1>2. AckedReadings' = AckedReadings \cup S
  BY DEF AckedReadings
<1>3. \A i \in 1 .. n : ring[i] \in S
  <2>1. \A i \in 1 .. n : ring[i] \in Reading
    BY DEF UplinkInductive, DeviceShape
  <2>2. \A r \in Reading : "id" \in DOMAIN r
    BY DEF Reading
  <2> QED
    BY <2>1, <2>2
<1> HIDE DEF S
<1>4. Contract!Confirm(S, n)
  BY <1>2, <1>3 DEF Contract!Confirm
<1> QED
  BY <1>1, <1>4 DEF Contract!Next

\* Whatever link, timeouts and server do, a reading leaves the device confirmed
\* or counted as dropped, for every ring, batch and number of faults
\* (docs/decisions/0001, Recovery invariant 1; lib.rs:419-458).
THEOREM ContractKept == UplinkSpec => ImplementsContract
<1>1. UplinkInit => Contract!Init
  BY DEF UplinkInit, StoreInit, Contract!Init, AckedReadings
<1>2. UplinkInductive /\ [UplinkNext]_uplinkVars => [Contract!Next]_(Contract!contractVars)
  <2> SUFFICES ASSUME UplinkInductive, [UplinkNext]_uplinkVars
               PROVE  Contract!Next \/ UNCHANGED Contract!contractVars
    OBVIOUS
  <2>1. ASSUME UNCHANGED << ring, acked, droppedWhenFull >>
        PROVE  UNCHANGED Contract!contractVars
    BY <2>1 DEF Contract!contractVars, AckedReadings
  <2>2. ASSUME NEW v \in Values, Sample(v)
        PROVE  Contract!Next
    <3>1. PICK r \in Reading :
             /\ r \notin Earlier
             /\ IF Len(ring) = MaxRing
                THEN ring' = Append(Tail(ring), r) /\ droppedWhenFull' = droppedWhenFull + 1
                ELSE ring' = Append(ring, r) /\ UNCHANGED droppedWhenFull
      BY <2>2, SamplePreserves
    <3>2. r \notin AckedReadings /\ AckedReadings' = AckedReadings
      BY <2>2, <3>1 DEF UplinkInductive, AllSampled, OnlyEarlier, AckedReadings, Sample, storeVars
    <3>3. \A i \in DOMAIN ring : ring[i] # r
      BY <3>1 DEF UplinkInductive, DeviceShape, AllSampled
    <3>4. Contract!Sample(r)
      BY <3>1, <3>2, <3>3 DEF Contract!Sample
    <3> QED
      BY <3>4 DEF Contract!Next
  <2>3. CASE Reboot
    BY <2>1, <2>3 DEF Reboot, storeVars
  <2>4. CASE \E t \in Instants : Arrive(t) \/ ArriveStray(t)
    BY <2>1, <2>4, ArrivePreserves
  <2>5. CASE AnswerArrives
    BY <2>5, AnswerArrivesPreserves, ConfirmationIsContracted
  <2>6. CASE AnswerLost
    <3>1. Len(ring) \in Nat /\ ring = SubSeq(ring, 1, Len(ring))
      BY DEF UplinkInductive, DeviceShape
    <3>2. /\ 0 \in 0 .. Len(ring) /\ ring' = SubSeq(ring, 0 + 1, Len(ring))
          /\ \A i \in 1 .. 0 : ring[i] \in request
      BY <2>6, <3>1, AnswerLostPreserves
    <3> QED
      BY <2>6, <3>2, AnswerLostPreserves, ConfirmationIsContracted
  <2>7. CASE \/ SyncSend \/ Provision \/ TimeOut \/ RequestLost \/ TimeOutEarly
             \/ ServerFails \/ ServerRuns \/ (\E s \in Secrets : Operator(s))
    BY <2>1, <2>7, OthersPreserve
  <2>8. CASE UNCHANGED uplinkVars
    BY <2>1, <2>8 DEF uplinkVars, storeVars, deviceVars
  <2> QED
    BY <2>2, <2>3, <2>4, <2>5, <2>6, <2>7, <2>8 DEF UplinkNext
<1> QED
  BY <1>1, <1>2, UplinkInvariant, PTL DEF UplinkSpec, ImplementsContract, Contract!Spec

-----------------------------------------------------------------------------
(* The store of the system is the store of EventStore.                     *)

Batches == BoundedSeq(Envelope, MaxBatch)
LinkShape ==
    /\ Len(ring) <= MaxRing /\ droppedWhenFull \in Nat /\ deviceSecret \in Secrets
    /\ sending \in Batches /\ strays \subseteq Batches
    /\ at \in {"none", "wire", "store", "lost"} /\ (at # "none" => sending # << >>)
    /\ faults \in 0 .. MaxFaults

LEMMA BatchesAreSequences ==
    /\ \A b \in Batches : b \in Seq(Envelope) /\ Len(b) \in 0 .. MaxBatch
    /\ \A b \in Seq(Envelope) : Len(b) <= MaxBatch => b \in Batches
    /\ << >> \in Batches
<1>1. ASSUME NEW b \in Batches PROVE b \in Seq(Envelope) /\ Len(b) \in 0 .. MaxBatch
  BY LimitsAssumption, BoundedSequences DEF Batches
<1>2. ASSUME NEW b \in Seq(Envelope), Len(b) <= MaxBatch PROVE b \in Batches
  <2>1. Len(b) \in 0 .. MaxBatch /\ b \in [1 .. Len(b) -> Envelope]
    BY <1>2, LimitsAssumption
  <2> QED
    BY <2>1 DEF Batches, BoundedSeq, SeqOf
<1>3. << >> \in Batches
  <2>1. << >> \in Seq(Envelope) /\ Len(<< >>) = 0 /\ 0 <= MaxBatch
    BY LimitsAssumption
  <2> QED
    BY <1>2, <2>1
<1> QED
  BY <1>1, <1>2, <1>3

\* Each step of the system is a step of its store, or leaves it alone.
LEMMA StoreSteps ==
    ASSUME LinkShape, [UplinkNext]_uplinkVars
    PROVE  [StoreNext]_storeVars
<1>1. ASSUME NEW batch \in Batches, NEW t \in Instants, Ingest(batch, t)
      PROVE  StoreNext
  <2>1. phase = "serving"
    BY <1>1, IngestConfirms
  <2> QED
    BY <1>1, <2>1 DEF StoreNext, Batches
<1>2. CASE \E v \in Values : Sample(v)
  BY <1>2 DEF Sample
<1>3. CASE Reboot \/ SyncSend \/ Provision \/ TimeOut \/ RequestLost \/ TimeOutEarly
  BY <1>3 DEF Reboot, SyncSend, Provision, TimeOut, RequestLost, TimeOutEarly
<1>4. ASSUME NEW t \in Instants, Arrive(t) PROVE [StoreNext]_storeVars
  BY <1>1, <1>4 DEF Arrive, LinkShape
<1>5. ASSUME NEW t \in Instants, ArriveStray(t) PROVE [StoreNext]_storeVars
  BY <1>1, <1>5 DEF ArriveStray, LinkShape
<1>6. CASE AnswerArrives \/ AnswerLost
  BY <1>6 DEF AnswerArrives, AnswerLost, StoreNext, StoreStep
<1>7. CASE ServerFails
  BY <1>7 DEF ServerFails, StoreNext
<1>8. CASE ServerRuns
  BY <1>8 DEF ServerRuns, StoreNext, StoreStep
<1>9. ASSUME NEW s \in Secrets, Operator(s) PROVE StoreNext
  BY <1>9, UplinkAssumption DEF Operator, StoreNext
<1>10. CASE UNCHANGED uplinkVars
  BY <1>10 DEF uplinkVars
<1> QED
  BY <1>2, <1>3, <1>4, <1>5, <1>6, <1>7, <1>8, <1>9, <1>10 DEF UplinkNext

LEMMA LinkShapeInit == UplinkInit => LinkShape
<1> SUFFICES ASSUME UplinkInit PROVE LinkShape
  OBVIOUS
<1>1. /\ ring = << >> /\ droppedWhenFull = 0 /\ deviceSecret \in Secrets
      /\ sending = << >> /\ at = "none" /\ strays = {} /\ faults = 0
  BY DEF UplinkInit
<1>2. Len(<< >>) = 0 /\ MaxRing \in Nat /\ MaxFaults \in Nat
  BY UplinkAssumption
<1> QED
  BY <1>1, <1>2, BatchesAreSequences DEF LinkShape

LEMMA LinkShapeNext ==
    ASSUME StoreShape, UplinkInductive, LinkShape, [UplinkNext]_uplinkVars
    PROVE  LinkShape'
<1>1. ring \in Seq(Reading) /\ Len(ring) \in Nat /\ MaxRing \in Nat \ {0} /\ MaxFaults \in Nat
  BY UplinkAssumption DEF UplinkInductive, DeviceShape
<1>2. << >> \in Batches
  BY BatchesAreSequences
<1>3. ASSUME faults' = faults \/ Fault PROVE faults' \in 0 .. MaxFaults
  BY <1>1, <1>3 DEF Fault, LinkShape
\* Steps that leave the ring, the count of the dropped and the secret alone.
<1>4. ASSUME UNCHANGED << ring, droppedWhenFull, deviceSecret >>, faults' = faults \/ Fault,
             strays' \subseteq strays \cup {sending},
             \/ sending' = << >> /\ at' = "none"
             \/ /\ sending' = sending /\ at' \in {"none", "wire", "store", "lost"}
                /\ at' # "none" => at # "none"
      PROVE  LinkShape'
  BY <1>2, <1>3, <1>4 DEF LinkShape
<1>5. CASE \E v \in Values : Sample(v)
  <2>1. PICK r \in Reading : \/ /\ Len(ring) = MaxRing /\ ring' = Append(Tail(ring), r)
                                 /\ droppedWhenFull' = droppedWhenFull + 1
                              \/ /\ Len(ring) # MaxRing /\ ring' = Append(ring, r)
                                 /\ UNCHANGED droppedWhenFull
    BY <1>5, SamplePreserves
  <2>2. Len(ring') <= MaxRing /\ droppedWhenFull' \in Nat
    BY <1>1, <2>1 DEF LinkShape
  <2>3. UNCHANGED << sending, at, strays, deviceSecret, faults >>
    BY <1>5 DEF Sample, linkVars
  <2> QED
    BY <2>2, <2>3 DEF LinkShape
<1>6. CASE Reboot
  BY <1>4, <1>6 DEF Reboot, linkVars
<1>7. CASE SyncSend
  <2> DEFINE n == IF Len(ring) < MaxBatch THEN Len(ring) ELSE MaxBatch
             b == [i \in 1 .. n |-> [reading |-> ring[i], secret |-> deviceSecret]]
  <2>1. /\ sending' = b /\ at' = "wire" /\ ring # << >>
        /\ UNCHANGED << ring, droppedWhenFull, deviceSecret, strays, faults >>
    BY <1>7 DEF SyncSend, Batch, deviceVars
  <2>2. n \in Nat /\ n <= MaxBatch /\ n <= Len(ring) /\ n # 0
    BY <1>1, <2>1, LimitsAssumption
  <2> HIDE DEF n
  <2>3. \A i \in 1 .. n : [reading |-> ring[i], secret |-> deviceSecret] \in Envelope
    BY <1>1, <2>2 DEF LinkShape, Envelope
  <2>4. b \in Seq(Envelope) /\ Len(b) = n /\ b # << >>
    BY <2>2, <2>3
  <2>5. b \in Batches
    BY <2>2, <2>4, BatchesAreSequences
  <2> HIDE DEF b
  <2> QED
    BY <2>1, <2>4, <2>5 DEF LinkShape
<1>8. CASE Provision
  <2>1. /\ UNCHANGED << ring, droppedWhenFull, sending, at, strays, faults >>
        /\ Device \in DOMAIN devices /\ deviceSecret' = devices[Device].secret
    BY <1>8 DEF Provision, linkVars
  <2>2. deviceSecret' \in Secrets
    BY <2>1 DEF StoreShape, MemoryShape, Record
  <2> QED
    BY <2>1, <2>2 DEF LinkShape
<1>9. ASSUME NEW t \in Instants, Arrive(t)
      PROVE  LinkShape'
  <2>1. /\ UNCHANGED << ring, droppedWhenFull, deviceSecret, strays, faults >> /\ at = "wire"
        /\ \/ at' = "store" /\ sending' = sending
           \/ at' = "none" /\ sending' = << >>
    BY <1>9 DEF Arrive, SyncErr, deviceVars
  <2> QED
    BY <1>4, <2>1
<1>10. ASSUME NEW t \in Instants, ArriveStray(t)
       PROVE  LinkShape'
  <2>1. /\ UNCHANGED << ring, droppedWhenFull, deviceSecret, sending, at, faults >>
        /\ strays' \subseteq strays
    BY <1>10 DEF ArriveStray, deviceVars
  <2>2. at \in {"none", "wire", "store", "lost"}
    BY DEF LinkShape
  <2> QED
    BY <1>4, <2>1, <2>2
<1>11. CASE AnswerArrives
  <2>1. UNCHANGED << strays, faults, droppedWhenFull, deviceSecret >>
    BY <1>11 DEF AnswerArrives, SyncOk, deviceVars
  <2>2. Len(ring') <= MaxRing
    <3>1. PICK n \in 0 .. Len(ring) : ring' = SubSeq(ring, n + 1, Len(ring))
      BY <1>11, AnswerArrivesPreserves
    <3> QED
      BY <1>1, <3>1 DEF LinkShape
  <2>3. (sending' = << >> /\ at' = "none") \/ UNCHANGED << sending, at >>
    BY <1>11 DEF AnswerArrives, SyncOk
  <2> QED
    BY <1>2, <2>1, <2>2, <2>3 DEF LinkShape
<1>12. CASE AnswerLost \/ TimeOut \/ RequestLost \/ TimeOutEarly \/ ServerFails \/ ServerRuns
            \/ \E s \in Secrets : Operator(s)
  <2>1. UNCHANGED << ring, droppedWhenFull, deviceSecret >>
    BY <1>12 DEF AnswerLost, TimeOut, RequestLost, TimeOutEarly, ServerFails, ServerRuns, Operator,
                 SyncErr, deviceVars
  <2>2. /\ faults' = faults \/ Fault
        /\ strays' \subseteq strays \cup {sending}
    BY <1>12 DEF AnswerLost, TimeOut, RequestLost, TimeOutEarly, ServerFails, ServerRuns, Operator,
                 linkVars
  <2>3. \/ sending' = << >> /\ at' = "none"
        \/ sending' = sending /\ at' = at
        \/ sending' = sending /\ at # "none" /\ at' = "lost"
    BY <1>12 DEF AnswerLost, TimeOut, RequestLost, TimeOutEarly, ServerFails, ServerRuns, Operator,
                 SyncErr, linkVars
  <2>4. at \in {"none", "wire", "store", "lost"}
    BY DEF LinkShape
  <2> QED
    BY <1>4, <2>1, <2>2, <2>3, <2>4
<1>13. CASE UNCHANGED uplinkVars
  BY <1>13 DEF uplinkVars, deviceVars, linkVars, LinkShape
<1> QED
  BY <1>5, <1>6, <1>7, <1>8, <1>9, <1>10, <1>11, <1>12, <1>13 DEF UplinkNext

-----------------------------------------------------------------------------
(* One value of each reading.                                              *)

\* The readings in the log, under way to it and in memory, and those that the
\* device holds or has sent.
ReadingsIn(lines) ==
    {lines[i].reading : i \in {j \in 1 .. Len(lines) : lines[j].kind = "reading"}}
InStore ==
    ReadingsIn(Lines) \cup ReadingsIn(Sure) \cup ReadingsIn(pending)
    \cup {r \in Reading : InMemory(r)}
Sent(batch) == {batch[i].reading : i \in DOMAIN batch}
OnDevice ==
    {ring[i] : i \in 1 .. Len(ring)} \cup Sent(sending) \cup UNION {Sent(batch) : batch \in strays}
Known == InStore \cup OnDevice
OneValue ==
    /\ Known \subseteq Earlier
    /\ \A q, r \in Known : Key(q) = Key(r) => q = r

\* An event adds its own reading to the memory, if any.
LEMMA EffectKnown ==
    ASSUME NEW e \in Sound, Effect(e), NEW r \in Reading, InMemory(r)', ~ InMemory(r)
    PROVE  e.kind = "reading" /\ r = e.reading
<1>1. CASE e.kind = "reading"
  <2>1. Key(r) \in DOMAIN readings' /\ readings'[Key(r)] = r.value
    BY DEF InMemory, Stored
  <2>2. Key(r) = Key(e.reading)
    BY <1>1, <2>1 DEF Effect, InMemory, Stored
  <2>3. e.reading \in Reading /\ e.reading.value = r.value
    BY <1>1, <2>1, <2>2, EventFields DEF Effect
  <2> QED
    BY <1>1, <2>2, <2>3 DEF Reading, Key
<1>2. CASE e.kind # "reading"
  BY <1>2 DEF Effect, InMemory, Stored
<1> QED
  BY <1>1, <1>2

\* A step of the store that takes up no request brings no reading.
LEMMA StoreBringsNothing ==
    ASSUME StoreInductive, [StoreNext]_storeVars, ReadingsIn(pending') \subseteq ReadingsIn(pending)
    PROVE  InStore' \subseteq InStore
<1>1. StoreShape /\ Steps /\ Descends(Lines') /\ Descends(Sure')
  BY StepCases DEF StoreInductive, LogMoves
<1>2. pending # << >> /\ Writing.kind = "reading" => Writing.reading \in ReadingsIn(pending)
  BY <1>1, WritingIsALine DEF ReadingsIn, StoreShape
<1>3. ASSUME NEW lines, Descends(lines)
      PROVE  ReadingsIn(lines) \subseteq InStore
  <2>1. ASSUME NEW j \in 1 .. Len(lines), lines[j].kind = "reading"
        PROVE  lines[j].reading \in InStore
    <3>1. lines[j] # Garbage
      BY <2>1, KindsDiffer
    <3>2. Len(Lines) \in Nat /\ Len(Sure) \in Nat
      BY <1>1, SureIsPart DEF StoreShape
    <3>3. \/ j \in 1 .. Len(Lines) /\ lines[j] = Lines[j]
          \/ j \in 1 .. Len(Sure) /\ lines[j] = Sure[j]
          \/ lines[j] = Writing
      BY <1>3, <2>1, <3>1, <3>2 DEF Descends
    <3>4. lines[j] = Writing => pending # << >>
      BY <3>1 DEF Writing
    <3> QED
      BY <1>2, <2>1, <3>3, <3>4 DEF InStore, ReadingsIn
  <2> QED
    BY <2>1 DEF ReadingsIn
<1>4. ASSUME NEW r \in Reading, InMemory(r)'
      PROVE  r \in InStore
  <2>1. CASE InMemory(r)
    BY <2>1 DEF InStore
  <2>2. CASE ~ InMemory(r)
    <3>1. CASE UNCHANGED readings
      BY <1>4, <2>2, <3>1 DEF InMemory, Stored
    <3>2. CASE MemoryBecomes(NoMemory)
      BY <1>4, <3>2, NothingIsPartial DEF MemoryBecomes, NoMemory, InMemory, Stored
    <3>3. CASE AppendOk
      <4>1. Writing \in Sound /\ Effect(Writing) /\ pending # << >>
        BY <1>1, <3>3, AppendedEvent DEF AppendOk
      <4> QED
        BY <1>2, <1>4, <2>2, <4>1, EffectKnown DEF InStore
    <3>4. CASE ReplayLine /\ ~ MemoryBecomes(NoMemory)
      <4> DEFINE e == Lines[replayed + 1]
      <4>1. e \in Sound /\ replayed + 1 \in 1 .. Len(Lines) /\ MemoryBecomes(Apply(Current, e))
        BY <1>1, <3>4, ReplayedLine
      <4>2. Effect(e)
        BY <4>1, ApplyEffect DEF Sound
      <4>3. e.kind = "reading" => e.reading \in ReadingsIn(Lines)
        BY <4>1 DEF ReadingsIn
      <4> HIDE DEF e
      <4> QED
        BY <1>4, <2>2, <4>1, <4>2, <4>3, EffectKnown DEF InStore
    <3>5. UNCHANGED readings \/ MemoryBecomes(NoMemory) \/ AppendOk \/ ReplayLine
      BY <1>1 DEF Steps, Open, Opened, RequestBegins, Begin, Answer, AppendErr, Stops, Stopped,
                  Restart, Crash, PowerLoss, memory, storeVars
    <3> QED
      BY <3>1, <3>2, <3>3, <3>4, <3>5
  <2> QED
    BY <2>1, <2>2
<1>5. ReadingsIn(pending') \subseteq InStore
  BY DEF InStore
<1>6. ReadingsIn(Lines') \subseteq InStore /\ ReadingsIn(Sure') \subseteq InStore
  BY <1>1, <1>3
<1>7. InStore' = ReadingsIn(Lines') \cup ReadingsIn(Sure') \cup ReadingsIn(pending')
                 \cup {r \in Reading : InMemory(r)'}
  BY DEF InStore, ReadingsIn, Reading
<1> QED
  BY <1>4, <1>5, <1>6, <1>7

\* A batch brings only its own readings.
LEMMA IngestBrings ==
    ASSUME StoreShape, NEW batch \in Batches, NEW t, Ingest(batch, t)
    PROVE  InStore' \subseteq InStore \cup Sent(batch)
<1>1. PICK order \in BoundedSeq(Unseen(batch), Len(batch)) :
        /\ Range(order) = Unseen(batch)
        /\ Begin([i \in DOMAIN order |-> ReadingAccepted(batch[order[i]].reading, t)],
                 {batch[i].reading : i \in DOMAIN batch})
  BY DEF Ingest
<1>2. batch \in Seq(Envelope) /\ Len(batch) \in Nat /\ DOMAIN batch = 1 .. Len(batch)
  BY BatchesAreSequences
<1>3. order \in Seq(Unseen(batch)) /\ DOMAIN order = 1 .. Len(order) /\ Len(order) \in Nat
  BY <1>1, <1>2, BoundedSequences
<1> DEFINE events == [i \in 1 .. Len(order) |-> ReadingAccepted(batch[order[i]].reading, t)]
<1>4. /\ pending' = events /\ UNCHANGED << closed, tail, disk, readings, failures >>
  BY <1>1, <1>3 DEF Begin, file, memory
<1>5. Lines' = Lines /\ Sure' = Sure
  BY <1>4 DEF Lines, Sure, SyncedLines, LinesOf
<1>6. ReadingsIn(events) \subseteq Sent(batch)
  <2>1. ASSUME NEW i \in 1 .. Len(order)
        PROVE  events[i].reading = batch[order[i]].reading /\ order[i] \in DOMAIN batch
    BY <1>3, <2>1 DEF ReadingAccepted, Unseen
  <2>2. Len(events) = Len(order)
    BY <1>3
  <2> HIDE DEF events
  <2> QED
    BY <2>1, <2>2 DEF ReadingsIn, Sent
<1> HIDE DEF events
<1>7. InStore' = ReadingsIn(Lines) \cup ReadingsIn(Sure) \cup ReadingsIn(events)
                 \cup {r \in Reading : InMemory(r)}
  BY <1>4, <1>5 DEF InStore, ReadingsIn, InMemory, Stored
<1> QED
  BY <1>6, <1>7 DEF InStore

\* Ring, sends and strays get nothing but what the device has.
LEMMA DeviceBringsNothing ==
    ASSUME {ring'[i] : i \in 1 .. Len(ring')} \subseteq {ring[i] : i \in 1 .. Len(ring)},
           Sent(sending') \subseteq OnDevice, strays' \subseteq strays \cup {sending}
    PROVE  OnDevice' \subseteq OnDevice
<1>1. OnDevice' = {ring'[i] : i \in 1 .. Len(ring')} \cup Sent(sending')
                  \cup UNION {Sent(batch) : batch \in strays'}
  BY DEF OnDevice, Sent
<1>2. UNION {Sent(batch) : batch \in strays'} \subseteq OnDevice
  BY DEF OnDevice
<1> QED
  BY <1>1, <1>2 DEF OnDevice

\* Only a sample brings a reading, of which the session has had none.
LEMMA OnlySamplesBring ==
    ASSUME StoreInductive, UplinkInductive, LinkShape, [UplinkNext]_uplinkVars,
           Known \subseteq Earlier
    PROVE  /\ Earlier \subseteq Earlier'
           /\ \/ Known' \subseteq Known
              \/ \E r \in Earlier' : Known' \subseteq Known \cup {r} /\ \A q \in Earlier : q.id # r.id
<1>1. [StoreNext]_storeVars
  BY StoreSteps
<1>2. DeviceShape /\ StoreShape
  BY DEF UplinkInductive, StoreInductive
<1>3. Sent(<< >>) = {}
  BY DEF Sent
<1>4. ASSUME UNCHANGED storeVars PROVE InStore' \subseteq InStore
  <2>1. ReadingsIn(pending') = ReadingsIn(pending)
    BY <1>4 DEF storeVars, progress
  <2> QED
    BY <1>1, <2>1, StoreBringsNothing
<1>5. ASSUME UNCHANGED << bootCounter, nextSequence >> PROVE Earlier = Earlier'
  BY <1>5 DEF Earlier
<1>6. ASSUME NEW S, S \subseteq Known, InStore' \subseteq InStore \cup S, OnDevice' \subseteq OnDevice
      PROVE  Known' \subseteq Known
  BY <1>6 DEF Known
<1>7. CASE \E v \in Values : Sample(v)
  <2>1. PICK v \in Values : Sample(v)
    BY <1>7
  <2>2. PICK r \in Reading :
          /\ r \in Earlier' /\ \A q \in Earlier : q.id # r.id
          /\ IF Len(ring) = MaxRing THEN ring' = Append(Tail(ring), r) ELSE ring' = Append(ring, r)
    BY <2>1, SamplePreserves
  <2>3. /\ UNCHANGED << storeVars, sending, strays, bootCounter >>
        /\ nextSequence' = nextSequence + 1
    BY <2>1 DEF Sample, linkVars
  <2>4. Earlier \subseteq Earlier'
    BY <1>2, <2>3, EarlierGrows
  <2>5. {ring'[i] : i \in 1 .. Len(ring')} \subseteq {ring[i] : i \in 1 .. Len(ring)} \cup {r}
    <3>1. ring \in Seq(Reading) /\ Len(ring) \in Nat /\ MaxRing \in Nat \ {0}
      BY <1>2, UplinkAssumption DEF DeviceShape
    <3>2. CASE Len(ring) = MaxRing
      <4>1. ring' = Append(Tail(ring), r) /\ ring # << >>
        BY <2>2, <3>1, <3>2
      <4>2. \A i \in 1 .. Len(ring') : ring'[i] = r \/ (i + 1 \in 1 .. Len(ring) /\ ring'[i] = ring[i + 1])
        BY <3>1, <4>1
      <4> QED
        BY <4>2
    <3>3. CASE Len(ring) # MaxRing
      <4>1. ring' = Append(ring, r)
        BY <2>2, <3>3
      <4>2. \A i \in 1 .. Len(ring') : ring'[i] = r \/ (i \in 1 .. Len(ring) /\ ring'[i] = ring[i])
        BY <3>1, <4>1
      <4> QED
        BY <4>2
    <3> QED
      BY <3>2, <3>3
  <2>6. OnDevice' \subseteq OnDevice \cup {r}
    BY <2>3, <2>5 DEF OnDevice, Sent
  <2>7. Known' \subseteq Known \cup {r}
    BY <1>4, <2>3, <2>6 DEF Known
  <2> QED
    BY <2>2, <2>4, <2>7
<1>8. CASE Reboot
  <2>1. UNCHANGED << storeVars, ring, sending, strays >> /\ bootCounter' = bootCounter + 1
    BY <1>8 DEF Reboot, linkVars
  <2>2. Earlier \subseteq Earlier'
    BY <1>2, <2>1, EarlierGrows
  <2>3. OnDevice' = OnDevice
    BY <2>1 DEF OnDevice, Sent
  <2> QED
    BY <1>4, <1>6, <2>1, <2>2, <2>3
<1>9. CASE SyncSend
  <2>1. UNCHANGED << storeVars, ring, bootCounter, nextSequence, strays >> /\ sending' = Batch
    BY <1>9 DEF SyncSend, deviceVars
  <2>2. Sent(Batch) \subseteq OnDevice
    <3> DEFINE n == IF Len(ring) < MaxBatch THEN Len(ring) ELSE MaxBatch
    <3>1. /\ n \in Nat /\ n <= Len(ring) /\ Len(ring) \in Nat
          /\ Batch = [i \in 1 .. n |-> [reading |-> ring[i], secret |-> deviceSecret]]
      BY <1>2, LimitsAssumption DEF DeviceShape, Batch
    <3> HIDE DEF n
    <3>2. \A i \in DOMAIN Batch : Batch[i].reading = ring[i] /\ i \in 1 .. Len(ring)
      BY <3>1
    <3> QED
      BY <3>2 DEF Sent, OnDevice
  <2>3. OnDevice' \subseteq OnDevice
    BY <2>1, <2>2, DeviceBringsNothing
  <2> QED
    BY <1>4, <1>5, <1>6, <2>1, <2>3
<1>10. CASE Provision \/ TimeOut \/ RequestLost \/ TimeOutEarly
  <2>1. /\ UNCHANGED << storeVars, ring, bootCounter, nextSequence >>
        /\ sending' \in {sending, << >>} /\ strays' \subseteq strays \cup {sending}
    BY <1>10 DEF Provision, TimeOut, RequestLost, TimeOutEarly, SyncErr, deviceVars, linkVars
  <2>2. OnDevice' \subseteq OnDevice
    BY <1>3, <2>1, DeviceBringsNothing DEF OnDevice
  <2> QED
    BY <1>4, <1>5, <1>6, <2>1, <2>2
<1>11. ASSUME NEW t \in Instants, Arrive(t)
       PROVE  Earlier = Earlier' /\ Known' \subseteq Known
  <2>1. /\ UNCHANGED << ring, bootCounter, nextSequence, strays >>
        /\ sending' \in {sending, << >>}
        /\ Ingest(sending, t) \/ UNCHANGED storeVars
    BY <1>11 DEF Arrive, SyncErr, deviceVars
  <2>2. OnDevice' \subseteq OnDevice
    BY <1>3, <2>1, DeviceBringsNothing DEF OnDevice
  <2>3. InStore' \subseteq InStore \cup Sent(sending)
    BY <1>2, <1>4, <2>1, IngestBrings DEF LinkShape
  <2>4. Sent(sending) \subseteq Known
    BY DEF Known, OnDevice
  <2> QED
    BY <1>5, <1>6, <2>1, <2>2, <2>3, <2>4
<1>12. ASSUME NEW t \in Instants, ArriveStray(t)
       PROVE  Earlier = Earlier' /\ Known' \subseteq Known
  <2>1. PICK batch \in strays : Ingest(batch, t) \/ UNCHANGED storeVars
    BY <1>12 DEF ArriveStray
  <2>2. UNCHANGED << ring, bootCounter, nextSequence, sending >> /\ strays' \subseteq strays
    BY <1>12 DEF ArriveStray, deviceVars
  <2>3. OnDevice' \subseteq OnDevice
    BY <2>2, DeviceBringsNothing DEF OnDevice
  <2>4. InStore' \subseteq InStore \cup Sent(batch)
    BY <1>2, <1>4, <2>1, IngestBrings DEF LinkShape
  <2>5. Sent(batch) \subseteq Known
    BY DEF Known, OnDevice
  <2> QED
    BY <1>5, <1>6, <2>2, <2>3, <2>4, <2>5
<1>13. CASE AnswerArrives
  <2>1. PICK n \in 0 .. Len(ring) : ring' = SubSeq(ring, n + 1, Len(ring))
    BY <1>13, AnswerArrivesPreserves
  <2>2. /\ UNCHANGED << pending, strays, bootCounter, nextSequence >>
        /\ sending' \in {sending, << >>}
    BY <1>13 DEF AnswerArrives, Answer, SyncOk, deviceVars
  <2>3. {ring'[i] : i \in 1 .. Len(ring')} \subseteq {ring[i] : i \in 1 .. Len(ring)}
    <3>1. ring \in Seq(Reading) /\ Len(ring) \in Nat
      BY <1>2 DEF DeviceShape
    <3>2. \A i \in 1 .. Len(ring') : n + i \in 1 .. Len(ring) /\ ring'[i] = ring[n + i]
      BY <2>1, <3>1
    <3> QED
      BY <3>2
  <2>4. OnDevice' \subseteq OnDevice
    BY <1>3, <2>2, <2>3, DeviceBringsNothing DEF OnDevice
  <2>5. InStore' \subseteq InStore
    BY <1>1, <2>2, StoreBringsNothing
  <2> QED
    BY <1>5, <1>6, <2>2, <2>4, <2>5
<1>14. CASE AnswerLost \/ ServerFails \/ ServerRuns \/ \E s \in Secrets : Operator(s)
  <2>1. /\ UNCHANGED << ring, bootCounter, nextSequence, strays >>
        /\ sending' \in {sending, << >>}
    BY <1>14 DEF AnswerLost, ServerFails, ServerRuns, Operator, SyncErr, deviceVars, linkVars
  <2>2. OnDevice' \subseteq OnDevice
    BY <1>3, <2>1, DeviceBringsNothing DEF OnDevice
  <2>3. ReadingsIn(pending') \subseteq ReadingsIn(pending)
    <3>1. CASE pending' = pending
      BY <3>1
    <3>2. CASE pending' = << >>
      BY <3>2 DEF ReadingsIn
    <3>3. CASE AppendOk
      <4>1. /\ Len(pending) \in Nat /\ Len(pending') = Len(pending) - 1
            /\ \A i \in 1 .. Len(pending) - 1 : pending'[i] = pending[i + 1]
        BY <1>2, <3>3, AppendedEvent
      <4>2. \A i \in 1 .. Len(pending') : i + 1 \in 1 .. Len(pending) /\ pending'[i] = pending[i + 1]
        BY <4>1
      <4> QED
        BY <4>2 DEF ReadingsIn
    <3>4. ASSUME NEW s \in Secrets, Operator(s)
          PROVE  ReadingsIn(pending') = {}
      <4>1. \E e : e.kind = "device" /\ pending' = << e >>
        <5>1. CASE Register(Device, s)
          BY <5>1 DEF Register, BeginRecord, Begin, Registration
        <5>2. CASE RotateCredential(Device, s)
          BY <5>2 DEF RotateCredential, BeginRecord, Begin, Registration
        <5> QED
          BY <3>4, <5>1, <5>2 DEF Operator
      <4> QED
        BY <4>1 DEF ReadingsIn
    <3>5. CASE AnswerLost \/ ServerFails \/ ServerRuns
      <4>1. pending' = pending \/ pending' = << >> \/ AppendOk
        BY <3>5 DEF AnswerLost, Answer, ServerFails, StoreFailure, AppendErr, Restart, Crash,
                    PowerLoss, Stopped, ServerRuns, Open, ReplayLine, Opened, progress
      <4> QED
        BY <3>1, <3>2, <3>3, <4>1
    <3> QED
      BY <1>14, <3>4, <3>5
  <2>4. InStore' \subseteq InStore
    BY <1>1, <2>3, StoreBringsNothing
  <2> QED
    BY <1>5, <1>6, <2>1, <2>2, <2>4
<1>15. CASE UNCHANGED uplinkVars
  <2>1. UNCHANGED << storeVars, ring, bootCounter, nextSequence, sending, strays >>
    BY <1>15 DEF uplinkVars, deviceVars, linkVars
  <2>2. OnDevice' \subseteq OnDevice
    BY <2>1 DEF OnDevice, Sent
  <2> QED
    BY <1>4, <1>5, <1>6, <2>1, <2>2
<1> QED
  BY <1>7, <1>8, <1>9, <1>10, <1>11, <1>12, <1>13, <1>14, <1>15 DEF UplinkNext

LEMMA OneValueNext ==
    ASSUME StoreInductive, UplinkInductive, LinkShape, [UplinkNext]_uplinkVars, OneValue
    PROVE  OneValue'
<1>1. Earlier \subseteq Earlier' /\ Known \subseteq Earlier
  BY OnlySamplesBring DEF OneValue
<1>2. CASE Known' \subseteq Known
  BY <1>1, <1>2 DEF OneValue, Key
<1>3. CASE \E r \in Earlier' : Known' \subseteq Known \cup {r} /\ \A q \in Earlier : q.id # r.id
  <2>1. PICK r \in Earlier' : Known' \subseteq Known \cup {r} /\ \A q \in Earlier : q.id # r.id
    BY <1>3
  <2>2. \A q \in Known : Key(q) # Key(r)
    BY <1>1, <2>1 DEF Key
  <2>3. \A q, p \in Known : Key(q) = Key(p) => q = p
    BY DEF OneValue
  <2>4. Known' \subseteq Earlier'
    BY <1>1, <2>1
  <2>5. ASSUME NEW q \in Known', NEW p \in Known', Key(q) = Key(p) PROVE q = p
    BY <2>1, <2>2, <2>3, <2>5
  <2> QED
    BY <2>4, <2>5 DEF OneValue, Key
<1> QED
  BY <1>1, <1>2, <1>3, OnlySamplesBring

SystemInductive == StoreInductive /\ UplinkInductive /\ LinkShape /\ OneValue

LEMMA OneValueInit == UplinkInit => OneValue
<1> SUFFICES ASSUME UplinkInit PROVE OneValue
  OBVIOUS
<1>1. /\ ring = << >> /\ sending = << >> /\ strays = {} /\ pending = << >>
      /\ closed = << >> /\ tail = Empty /\ disk = << << >>, Empty >> /\ readings = Nothing
  BY DEF UplinkInit, StoreInit
<1>2. Lines = << >> /\ Sure = << >> /\ Len(<< >>) = 0
  BY <1>1 DEF Lines, Sure, SyncedLines, LinesOf
<1>3. ReadingsIn(<< >>) = {} /\ Sent(<< >>) = {}
  BY <1>2 DEF ReadingsIn, Sent
<1>4. \A r \in Reading : ~ InMemory(r)
  BY <1>1, NothingIsPartial DEF InMemory, Stored
<1>5. Known = {}
  BY <1>1, <1>2, <1>3, <1>4 DEF Known, InStore, OnDevice
<1> QED
  BY <1>5 DEF OneValue

\* The store within the system keeps its own invariant, what the device sends is
\* always a batch, and every identity has one value wherever it is.
THEOREM SystemIsInductive == UplinkSpec => []SystemInductive
<1>1. UplinkInit => SystemInductive
  BY StoreInductiveInit, UplinkInductiveInit, LinkShapeInit, OneValueInit
     DEF UplinkInit, SystemInductive
<1>2. SystemInductive /\ [UplinkNext]_uplinkVars => SystemInductive'
  <2> SUFFICES ASSUME SystemInductive, [UplinkNext]_uplinkVars PROVE SystemInductive'
    OBVIOUS
  <2>1. StoreInductive /\ UplinkInductive /\ LinkShape /\ OneValue /\ StoreShape
    BY DEF SystemInductive, StoreInductive
  <2>2. StoreInductive'
    BY <2>1, StoreSteps, StoreInductiveNext
  <2>3. UplinkInductive' /\ LinkShape' /\ OneValue'
    BY <2>1, UplinkInductiveNext, LinkShapeNext, OneValueNext
  <2> QED
    BY <2>2, <2>3 DEF SystemInductive
<1> QED
  BY <1>1, <1>2, PTL DEF UplinkSpec

\* Whatever devices and operators ask of it and whenever it fails, the store
\* under them behaves as EventStore says.
THEOREM UplinkHasStore == UplinkSpec => StoreSpec
<1>1. UplinkInit => StoreInit
  BY DEF UplinkInit
<1>2. LinkShape /\ [UplinkNext]_uplinkVars => [StoreNext]_storeVars
  BY StoreSteps
<1>3. SystemInductive => LinkShape
  BY DEF SystemInductive
<1> QED
  BY <1>1, <1>2, <1>3, SystemIsInductive, PTL DEF UplinkSpec, StoreSpec

\* Device, link and store: every variable has its type, the device waits for an
\* outcome exactly while it has sent something, which is the front of its ring.
THEOREM UplinkTypes == UplinkSpec => []UplinkTypeOK
<1>1. ASSUME SystemInductive PROVE UplinkTypeOK
  <2>1. UplinkInductive /\ DeviceShape /\ WaitsForFront /\ LinkShape
    BY <1>1 DEF SystemInductive, UplinkInductive
  <2>2. sending \in Seq(Envelope) /\ Len(sending) \in 0 .. MaxBatch /\ MaxBatch \in Nat
    BY <2>1, BatchesAreSequences, LimitsAssumption DEF LinkShape
  <2>3. Len(sending) <= MaxBatch /\ DOMAIN sending = 1 .. Len(sending)
    BY <2>2
  <2> QED
    BY <2>1, <2>2, <2>3, Zenon DEF UplinkTypeOK, DeviceShape, WaitsForFront, LinkShape
<1> QED
  BY <1>1, SystemIsInductive, PTL

\* A batch of readings that are known is not in conflict with what is stored.
LEMMA KnownNeverConflicts ==
    ASSUME SystemInductive, NEW batch \in Batches, Sent(batch) \subseteq Known
    PROVE  ~ Conflicts(batch)
<1>1. StoreShape /\ MemoryShape /\ OneValue
  BY DEF SystemInductive, StoreInductive, StoreShape
<1>2. batch \in Seq(Envelope) /\ DOMAIN batch = 1 .. Len(batch) /\ Len(batch) \in Nat
  BY BatchesAreSequences
<1>3. ASSUME NEW i \in 1 .. Len(batch)
      PROVE  batch[i].reading \in Reading /\ batch[i].reading \in Known
  <2>1. batch[i] \in Envelope
    BY <1>2
  <2> QED
    BY <1>2, <2>1 DEF Envelope, Sent
<1>4. ASSUME NEW i \in 1 .. Len(batch), Stored(batch[i].reading)
      PROVE  readings[Key(batch[i].reading)] = batch[i].reading.value
  <2> DEFINE r == batch[i].reading
             q == [device |-> r.device, id |-> r.id, value |-> readings[Key(r)]]
  <2>1. r \in Reading /\ r \in Known /\ Key(r) \in DOMAIN readings
    BY <1>3, <1>4 DEF Stored
  <2>2. readings[Key(r)] \in Values
    BY <1>1, <2>1 DEF MemoryShape, Partial
  <2> HIDE DEF r
  <2>3. q \in Reading /\ Key(q) = Key(r) /\ q.value = readings[Key(r)]
    BY <2>1, <2>2 DEF Reading, Key
  <2>4. q \in Known
    BY <2>1, <2>3 DEF Known, InStore, InMemory, Stored
  <2> HIDE DEF q
  <2>5. q = r
    BY <1>1, <2>1, <2>3, <2>4 DEF OneValue
  <2> QED
    BY <2>3, <2>5 DEF r
<1>5. ASSUME NEW i \in 1 .. Len(batch), NEW j \in 1 .. i - 1,
             Key(batch[j].reading) = Key(batch[i].reading)
      PROVE  batch[j].reading.value = batch[i].reading.value
  <2>1. j \in 1 .. Len(batch)
    BY <1>2
  <2> QED
    BY <1>1, <1>3, <1>5, <2>1 DEF OneValue
<1> QED
  BY <1>2, <1>4, <1>5 DEF Conflicts

\* What the device has sent, and waits for or has given up, is known.
LEMMA SentIsKnown ==
    ASSUME SystemInductive, NEW batch \in {sending} \cup strays
    PROVE  batch \in Batches /\ Sent(batch) \subseteq Known
  BY DEF SystemInductive, LinkShape, Known, OnDevice

\* What an honest device sends never contradicts what the store has, however
\* late it arrives: the boot counter keeps sessions apart.
THEOREM HonestNeverContradicts == UplinkSpec => []NeverContradicts
<1>1. ASSUME SystemInductive PROVE NeverContradicts
  BY <1>1, SentIsKnown, KnownNeverConflicts DEF NeverContradicts
<1> QED
  BY <1>1, SystemIsInductive, PTL

\* Signed with the secrets in force, and each value one that may be stored.
Admissible(batch) ==
    \A i \in DOMAIN batch : Authentic(batch[i]) /\ batch[i].reading.value \notin Invalid

\* All the store has to decide of a request the device has sent, at whatever time
\* it comes to it: whether its readings are admissible and the new ones find room.
\* A request that brings nothing new is refused for its signature alone, unless
\* an append may fail.
RefusalsExplained ==
    phase = "serving" =>
        \A batch \in {sending} \cup strays :
            batch # << >> =>
                /\ Acceptable(batch) <=> Admissible(batch) /\ Fits(batch)
                /\ ("io" \notin failures /\ \A i \in DOMAIN batch : Stored(batch[i].reading)) =>
                      (Acceptable(batch) <=> \A i \in DOMAIN batch : Authentic(batch[i]))

\* docs/decisions/0001: "A duplicate is acknowledged without creating a second
\* reading."  Of the checks of Store::ingest (lib.rs:277-316), those for size and
\* contradiction never refuse a device's request, however late it comes; the
\* signature does when its secret is not, or no more, the one in force, a value
\* that is not valid does, and the bound does when the readings not yet stored
\* find no room.  A batch stored as a whole is thus confirmed again, by a full
\* store too, unless its secret has been replaced; one stored in part may not be.
THEOREM RefusalsAreExplained == UplinkSpec => []RefusalsExplained
<1>1. ASSUME SystemInductive, NEW batch \in {sending} \cup strays, batch # << >>
      PROVE  Acceptable(batch) <=> Admissible(batch) /\ Fits(batch)
  <2>1. batch \in Batches /\ ~ Conflicts(batch)
    BY <1>1, SentIsKnown, KnownNeverConflicts
  <2>2. batch \in Seq(Envelope) /\ Len(batch) \in 0 .. MaxBatch
    BY <2>1, BatchesAreSequences
  <2>3. Len(batch) \in 1 .. MaxBatch
    BY <1>1, <2>2, LimitsAssumption
  <2> QED
    BY <2>1, <2>3, Zenon DEF Acceptable, Admissible
<1>2. ASSUME SystemInductive, "io" \notin failures, NEW batch \in {sending} \cup strays,
             \A i \in DOMAIN batch : Stored(batch[i].reading)
      PROVE  /\ Fits(batch)
             /\ \A i \in DOMAIN batch : batch[i].reading.value \notin Invalid
  <2>1. ~ Conflicts(batch)
    BY <1>2, SentIsKnown, KnownNeverConflicts
  <2>2. ASSUME NEW i \in DOMAIN batch
        PROVE  batch[i].reading.value \notin Invalid
    <3> DEFINE r == batch[i].reading
    <3>1. Key(r) \in DOMAIN readings
      BY <1>2 DEF Stored
    <3>2. readings[Key(r)] = r.value
      BY <1>2, <2>1 DEF Conflicts
    <3>3. readings \in Partial(Devices \X Ids, Values \ Invalid)
      BY <1>2 DEF SystemInductive, StoreInductive, StoreShape, MemoryShape
    <3> HIDE DEF r
    <3>4. readings[Key(r)] \in Values \ Invalid
      BY <3>1, <3>3 DEF Partial
    <3> QED
      BY <3>2, <3>4 DEF r
  <2>3. Unseen(batch) = {}
    BY <1>2 DEF Unseen
  <2>4. Fits(batch)
    <3> DEFINE S == LogKeys \cup KeysIn(pending) \cup DOMAIN readings
    <3>1. InBounds(S) /\ DOMAIN readings \in SUBSET S
      BY <1>2 DEF SystemInductive, StoreInductive, Bounded
    <3> HIDE DEF S
    <3>2. Cardinality(DOMAIN readings) <= MaxStored /\ Cardinality(DOMAIN readings) \in Nat
      BY <3>1, SmallerInBounds, FS_CardinalityType DEF InBounds
    <3>3. Cardinality({}) = 0
      BY FS_EmptySet
    <3> QED
      BY <2>3, <3>2, <3>3 DEF Fits
  <2> QED
    BY <2>2, <2>4
<1>3. ASSUME SystemInductive, NEW batch \in {sending} \cup strays, batch # << >>,
             "io" \notin failures, \A i \in DOMAIN batch : Stored(batch[i].reading)
      PROVE  Acceptable(batch) <=> \A i \in DOMAIN batch : Authentic(batch[i])
  <2>1. Acceptable(batch) <=> Admissible(batch) /\ Fits(batch)
    BY <1>1, <1>3
  <2>2. Fits(batch) /\ \A i \in DOMAIN batch : batch[i].reading.value \notin Invalid
    BY <1>2, <1>3
  <2> QED
    BY <2>1, <2>2, Zenon DEF Admissible
<1>4. SystemInductive => RefusalsExplained
  BY <1>1, <1>3, Zenon DEF RefusalsExplained
<1> QED
  BY <1>4, SystemIsInductive, PTL

-----------------------------------------------------------------------------
(* From the sensor to the log: what leaves the ring, and what may enter it.*)

\* docs/decisions/0001, Recovery invariant 1: "A reading leaves the device ring
\* only after the cloud accepts the complete batch": the store has it then, with
\* its value, or it was the oldest of a full ring and is counted.
LeavesForTheStore ==
    [][\A r \in Range(ring) \ Range(ring') :
          \/ r = ring[1] /\ Len(ring) = MaxRing /\ droppedWhenFull' = droppedWhenFull + 1
          \/ phase' = "serving" /\ r \in acked' /\ InMemory(r)']_uplinkVars

\* A full ring gives up its oldest reading, another one nothing.
LEMMA SampleDropsTheOldest ==
    ASSUME DeviceShape, NEW v \in Values, Sample(v), NEW r \in Range(ring) \ Range(ring')
    PROVE  r = ring[1] /\ Len(ring) = MaxRing /\ droppedWhenFull' = droppedWhenFull + 1
<1>1. ring \in Seq(Reading) /\ Len(ring) \in Nat
  BY DEF DeviceShape
<1>2. PICK i \in 1 .. Len(ring) : r = ring[i]
  BY <1>1 DEF Range
<1>3. \A j \in DOMAIN ring' : ring'[j] # r
  BY DEF Range
<1>4. PICK x : IF Len(ring) = MaxRing
               THEN ring' = Append(Tail(ring), x) /\ droppedWhenFull' = droppedWhenFull + 1
               ELSE ring' = Append(ring, x)
  BY DEF Sample
<1>5. CASE Len(ring) = MaxRing
  <2>1. i = 1
    <3> SUFFICES ASSUME i # 1 PROVE FALSE
      OBVIOUS
    <3>1. Len(Tail(ring)) = Len(ring) - 1 /\ Tail(ring) \in Seq(Reading) /\ i - 1 \in 1 .. Len(ring) - 1
      BY <1>1, <1>2
    <3>2. Tail(ring)[i - 1] = ring[i]
      BY <1>1, <1>2, <3>1
    <3>3. i - 1 \in DOMAIN ring' /\ ring'[i - 1] = Tail(ring)[i - 1]
      BY <1>4, <1>5, <3>1
    <3> QED
      BY <1>2, <1>3, <3>2, <3>3
  <2> QED
    BY <1>2, <1>4, <1>5, <2>1
<1>6. CASE Len(ring) # MaxRing
  <2>1. i \in DOMAIN ring' /\ ring'[i] = ring[i]
    BY <1>1, <1>4, <1>6
  <2> QED
    BY <1>2, <1>3, <2>1
<1> QED
  BY <1>5, <1>6

\* What a confirmation takes from the ring is in the memory of the store.
LEMMA ConfirmedIsStored ==
    ASSUME SystemInductive, AnswerArrives, NEW r \in Range(ring) \ Range(ring')
    PROVE  phase' = "serving" /\ r \in acked' /\ InMemory(r)'
<1>1. UplinkInductive /\ RequestFits /\ ring \in Seq(Reading) /\ Len(ring) \in Nat
  BY DEF SystemInductive, StoreInductive, UplinkInductive, DeviceShape
<1>2. PICK i \in 1 .. Len(ring) : r = ring[i]
  BY <1>1 DEF Range
<1>3. \A j \in DOMAIN ring' : ring'[j] # r
  BY DEF Range
<1>4. acked' = acked \cup request
      /\ \E n \in 0 .. Len(ring) :
            /\ ring' = SubSeq(ring, n + 1, Len(ring))
            /\ \A k \in 1 .. n : ring[k] \in request
  BY <1>1, AnswerArrivesPreserves
<1>5. PICK n \in 0 .. Len(ring) : /\ ring' = SubSeq(ring, n + 1, Len(ring))
                                  /\ \A k \in 1 .. n : ring[k] \in request
  BY <1>4
<1>6. i <= n
  <2> SUFFICES ASSUME i > n PROVE FALSE
    BY <1>2, <1>5
  <2>1. i - n \in 1 .. Len(ring) - n /\ (i - n) + n = i
    BY <1>1, <1>2
  <2>2. /\ Len(SubSeq(ring, n + 1, Len(ring))) = Len(ring) - n
        /\ \A k \in 1 .. Len(ring) - n : SubSeq(ring, n + 1, Len(ring))[k] = ring[k + n]
        /\ SubSeq(ring, n + 1, Len(ring)) \in Seq(Reading)
    BY <1>1
  <2>3. i - n \in DOMAIN ring' /\ ring'[i - n] = ring[i]
    BY <1>5, <2>1, <2>2
  <2> QED
    BY <1>2, <1>3, <2>3
<1>7. r \in request /\ r \in Reading
  BY <1>1, <1>2, <1>5, <1>6
<1>8. /\ pending = << >> /\ phase' = "serving" /\ UNCHANGED readings
  BY DEF AnswerArrives, Answer, memory
<1>9. InMemory(r)
  BY <1>1, <1>7, <1>8 DEF RequestFits, Met
<1> QED
  BY <1>4, <1>7, <1>8, <1>9 DEF InMemory, Stored

\* Whatever link, timeouts and server do, a reading leaves the device for the
\* memory of the store, where it stays through every restart (but for a loss of
\* power after a start that replayed an append never synced), or counted as
\* dropped (lib.rs:286-326, 404-458).
THEOREM HandedOver == UplinkSpec => LeavesForTheStore /\ []AckedSurvives
<1> DEFINE Leaves ==
      \A r \in Range(ring) \ Range(ring') :
         \/ r = ring[1] /\ Len(ring) = MaxRing /\ droppedWhenFull' = droppedWhenFull + 1
         \/ phase' = "serving" /\ r \in acked' /\ InMemory(r)'
<1>1. SystemInductive /\ [UplinkNext]_uplinkVars => [Leaves]_uplinkVars
  <2> SUFFICES ASSUME SystemInductive, UplinkNext
               PROVE  Leaves
    OBVIOUS
  <2>1. UplinkInductive /\ DeviceShape
    BY DEF SystemInductive, UplinkInductive
  <2>2. CASE UNCHANGED ring
    BY <2>2
  <2>3. ASSUME NEW v \in Values, Sample(v) PROVE Leaves
    BY <2>1, <2>3, SampleDropsTheOldest
  <2>4. CASE AnswerArrives
    BY <2>4, ConfirmedIsStored
  <2>5. CASE Reboot \/ AnswerLost
    BY <2>2, <2>5 DEF Reboot, AnswerLost, deviceVars
  <2>6. CASE \E t \in Instants : Arrive(t) \/ ArriveStray(t)
    BY <2>1, <2>2, <2>6, ArrivePreserves
  <2>7. CASE \/ SyncSend \/ Provision \/ TimeOut \/ RequestLost \/ TimeOutEarly
             \/ ServerFails \/ ServerRuns \/ (\E s \in Secrets : Operator(s))
    BY <2>1, <2>2, <2>7, OthersPreserve
  <2> HIDE DEF Leaves
  <2> QED
    BY <2>3, <2>4, <2>5, <2>6, <2>7, Zenon DEF UplinkNext
<1>2. UplinkSpec => LeavesForTheStore
  BY <1>1, SystemIsInductive, PTL DEF UplinkSpec, LeavesForTheStore
<1> QED
  BY <1>2, UplinkHasStore, ConfirmedSurvives, PTL

\* The identities the device may still give to a reading.
StillToCome ==
    {id \in (1 .. MaxBoots) \X (0 .. MaxSequence) :
        bootCounter < id[1] \/ (bootCounter = id[1] /\ nextSequence <= id[2])}

\* docs/decisions/0001: "A reboot increments the device boot counter and resets
\* the session-local sequence to zero", so that no reading gets the identity of
\* an older one, in the ring or in the store, before or after a restart of either.
IdentitiesAreFresh ==
    /\ \A i \in 1 .. Len(ring) : ring[i].id \notin StillToCome
    /\ \A k \in DOMAIN readings : k[2] \notin StillToCome
    /\ \A r \in AckedReadings : r.id \notin StillToCome

\* For any number of sessions and readings, and whatever is late, lost or
\* repeated on the link, the next identity of the device is one that neither its
\* ring nor the store has (lib.rs:398-417, 459-462).
THEOREM IdentityIsNew == UplinkSpec => []IdentitiesAreFresh
<1>1. ASSUME SystemInductive PROVE IdentitiesAreFresh
  <2>1. DeviceShape /\ AllSampled /\ OneValue /\ MemoryShape
    BY <1>1 DEF SystemInductive, UplinkInductive, StoreInductive, StoreShape
  <2>2. ASSUME NEW r \in Earlier PROVE r.id \notin StillToCome
    <3>1. bootCounter \in Nat /\ nextSequence \in Nat
      BY <2>1, SessionsAssumption DEF DeviceShape
    <3>2. PICK b \in 1 .. MaxBoots, n \in 0 .. MaxSequence :
             r.id = << b, n >> /\ (b < bootCounter \/ (b = bootCounter /\ n < nextSequence))
      BY DEF Earlier
    <3>3. b \in Nat /\ n \in Nat
      BY <3>2, SessionsAssumption
    <3>4. r.id[1] = b /\ r.id[2] = n
      BY <3>2
    <3>5. ~ (bootCounter < b \/ (bootCounter = b /\ nextSequence <= n))
      BY <3>1, <3>2, <3>3
    <3> QED
      BY <3>4, <3>5 DEF StillToCome
  <2>3. ASSUME NEW k \in DOMAIN readings PROVE k[2] \notin StillToCome
    <3> DEFINE r == [device |-> k[1], id |-> k[2], value |-> readings[k]]
    <3>1. k \in Devices \X Ids /\ readings[k] \in Values
      BY <2>1 DEF MemoryShape, Partial
    <3>2. r \in Reading /\ Key(r) = k /\ r.id = k[2] /\ r.value = readings[k]
      BY <3>1 DEF Reading, Key
    <3> HIDE DEF r
    <3>3. r \in Known
      BY <3>2 DEF Known, InStore, InMemory, Stored
    <3>4. r \in Earlier
      BY <2>1, <3>3 DEF OneValue
    <3> QED
      BY <2>2, <3>2, <3>4
  <2>4. \A i \in 1 .. Len(ring) : ring[i] \in Earlier
    BY <2>1 DEF AllSampled
  <2>5. \A r \in AckedReadings : r \in Earlier
    BY <2>1 DEF AckedReadings, AllSampled, OnlyEarlier
  <2> QED
    BY <2>2, <2>3, <2>4, <2>5 DEF IdentitiesAreFresh
<1> QED
  BY <1>1, SystemIsInductive, PTL
=============================================================================
