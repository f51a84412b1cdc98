----------------------------- MODULE DeviceUplink -----------------------------
(***************************************************************************)
(* cloud/src/lib.rs: DeviceSimulator, sending to the store of EventStore   *)
(* over a link that loses requests and answers, and delays requests past   *)
(* the timeout of their sender.  sync has exclusive access to the device:  *)
(* no sample or reboot falls between sending a batch and its outcome.      *)
(***************************************************************************)
EXTENDS EventStore

CONSTANTS
    Device,                 \* the simulated device
    MaxRing,
    MaxSequence, MaxBoots,  \* bounds: readings of a session, sessions
    MaxVersion,             \* bound: credentials of the device
    MaxFaults               \* bound: lost answers, early timeouts and stops

ASSUME UplinkAssumption ==
    Device \in Devices /\ MaxRing \in Nat \ {0} /\ MaxFaults \in Nat
ASSUME SessionsAssumption ==
    /\ MaxSequence \in Nat /\ MaxBoots \in Nat \ {0}
    /\ (1 .. MaxBoots) \X (0 .. MaxSequence - 1) \subseteq Ids

VARIABLES
    ring, nextSequence, bootCounter, droppedWhenFull, deviceSecret,
    sending,      \* sync: the envelopes whose outcome it waits for
    at,           \* where they are: "none", "wire", "store", "lost"
    strays,       \* requests under way nobody waits for any more
    faults        \* faults so far

deviceVars == << ring, nextSequence, bootCounter, droppedWhenFull, deviceSecret >>
linkVars == << sending, at, strays >>
uplinkVars == << storeVars, deviceVars, linkVars, faults >>

UplinkTypeOK ==
    /\ ring \in Seq(Reading) /\ Len(ring) <= MaxRing
    /\ nextSequence \in 0 .. MaxSequence
    /\ bootCounter \in 1 .. MaxBoots
    /\ droppedWhenFull \in Nat
    /\ deviceSecret \in Secrets
    /\ sending \in Seq(Envelope) /\ Len(sending) <= MaxBatch
    /\ at \in {"none", "wire", "store", "lost"}
    /\ at = "none" <=> sending = << >>
    /\ at = "store" => phase = "appending"
    /\ \A i \in DOMAIN sending : sending[i].reading = ring[i]
    /\ faults \in 0 .. MaxFaults

UplinkInit ==
    /\ StoreInit
    /\ ring = << >>
    /\ nextSequence = 0
    /\ bootCounter = 1
    /\ droppedWhenFull = 0
    /\ deviceSecret \in Secrets
    /\ sending = << >>
    /\ at = "none"
    /\ strays = {}
    /\ faults = 0

Fault == faults < MaxFaults /\ faults' = faults + 1

-----------------------------------------------------------------------------
(* The device.                                                             *)

\* Mutant: sampling goes on during sync.
SampleDuringSync(v) ==
    /\ nextSequence < MaxSequence
    /\ nextSequence' = nextSequence + 1
    /\ LET r == [device |-> Device, id |-> << bootCounter, nextSequence >>, value |-> v]
       IN  IF Len(ring) = MaxRing
           THEN /\ ring' = Append(Tail(ring), r)
                /\ droppedWhenFull' = droppedWhenFull + 1
           ELSE /\ ring' = Append(ring, r)
                /\ UNCHANGED droppedWhenFull
    /\ UNCHANGED << storeVars, linkVars, bootCounter, deviceSecret, faults >>

\* DeviceSimulator::sample: a full ring drops its oldest reading.
Sample(v) ==
    /\ at = "none"
    /\ nextSequence < MaxSequence
    /\ nextSequence' = nextSequence + 1
    /\ LET r == [device |-> Device, id |-> << bootCounter, nextSequence >>, value |-> v]
       IN  IF Len(ring) = MaxRing
           THEN /\ ring' = Append(Tail(ring), r)
                /\ droppedWhenFull' = droppedWhenFull + 1
           ELSE /\ ring' = Append(ring, r)
                /\ UNCHANGED droppedWhenFull
    /\ UNCHANGED << storeVars, linkVars, bootCounter, deviceSecret, faults >>

\* Mutant: the session-local sequence restarts in the old session.
RebootSameSession ==
    /\ at = "none"
    /\ bootCounter < MaxBoots
    /\ nextSequence' = 0
    /\ UNCHANGED << storeVars, linkVars, ring, bootCounter, droppedWhenFull,
                    deviceSecret, faults >>

\* DeviceSimulator::reboot.
Reboot ==
    /\ at = "none"
    /\ bootCounter < MaxBoots
    /\ bootCounter' = bootCounter + 1
    /\ nextSequence' = 0
    /\ UNCHANGED << storeVars, linkVars, ring, droppedWhenFull, deviceSecret, faults >>

\* The batch is the front of the ring, signed with the secret of now.
Batch ==
    LET n == IF Len(ring) < MaxBatch THEN Len(ring) ELSE MaxBatch
    IN  [i \in 1 .. n |-> [reading |-> ring[i], secret |-> deviceSecret]]

\* DeviceSimulator::sync up to the call of send.
SyncSend ==
    /\ at = "none"
    /\ ring # << >>
    /\ sending' = Batch
    /\ at' = "wire"
    /\ UNCHANGED << storeVars, deviceVars, strays, faults >>

\* Mutant: what has been sent is taken for delivered.
SyncErrDraining ==
    /\ sending' = << >>
    /\ at' = "none"
    /\ ring' = SubSeq(ring, Len(sending) + 1, Len(ring))
    /\ UNCHANGED << nextSequence, bootCounter, droppedWhenFull, deviceSecret >>

\* send returns an error: every reading is retained.
SyncErr == sending' = << >> /\ at' = "none" /\ UNCHANGED deviceVars

\* Mutant: only the rows newly stored are drained.
SyncOkNewRows ==
    /\ sending' = << >>
    /\ at' = "none"
    /\ ring' = SubSeq(ring, accepted + 1, Len(ring))
    /\ UNCHANGED << nextSequence, bootCounter, droppedWhenFull, deviceSecret >>

\* send returns Ok: the whole batch is drained, however many rows were new.
SyncOk ==
    /\ accepted <= Len(sending)
    /\ sending' = << >>
    /\ at' = "none"
    /\ ring' = SubSeq(ring, Len(sending) + 1, Len(ring))
    /\ UNCHANGED << nextSequence, bootCounter, droppedWhenFull, deviceSecret >>

\* The operator gives the device the credential in force.
Provision ==
    /\ at = "none"
    /\ Device \in DOMAIN devices
    /\ deviceSecret # devices[Device].secret
    /\ deviceSecret' = devices[Device].secret
    /\ UNCHANGED << storeVars, linkVars, ring, nextSequence, bootCounter,
                    droppedWhenFull, faults >>

-----------------------------------------------------------------------------
(* The link and the store.                                                 *)

\* A request reaches the store, which takes it up or refuses it.
Arrive(t) ==
    /\ at = "wire"
    /\ phase = "serving"
    /\ IF Acceptable(sending)
       THEN Ingest(sending, t) /\ at' = "store" /\ UNCHANGED << deviceVars, sending >>
       ELSE SyncErr /\ UNCHANGED storeVars
    /\ UNCHANGED << strays, faults >>

ArriveStray(t) ==
    /\ phase = "serving"
    /\ \E batch \in strays :
          /\ strays' = strays \ {batch}
          /\ IF Acceptable(batch) THEN Ingest(batch, t) ELSE UNCHANGED storeVars
    /\ UNCHANGED << deviceVars, sending, at, faults >>

\* The answer reaches the device that waits for it, or there is none.
AnswerArrives ==
    /\ Answer
    /\ IF at = "store" THEN SyncOk ELSE UNCHANGED << deviceVars, sending, at >>
    /\ UNCHANGED << strays, faults >>

AnswerLost ==
    /\ at = "store"
    /\ Answer
    /\ at' = "lost"
    /\ Fault
    /\ UNCHANGED << deviceVars, sending, strays >>

\* Nothing comes any more: the timeout of the device.
TimeOut ==
    /\ at = "lost"
    /\ SyncErr
    /\ UNCHANGED << storeVars, strays, faults >>

\* The request is lost, or the timeout fires while it is under way.
RequestLost ==
    /\ at = "wire"
    /\ at' = "lost"
    /\ Fault
    /\ UNCHANGED << storeVars, deviceVars, sending, strays >>
TimeOutEarly ==
    /\ at \in {"wire", "store"}
    /\ SyncErr
    /\ strays' = IF at = "wire" THEN strays \cup {sending} ELSE strays
    /\ Fault
    /\ UNCHANGED storeVars

\* An append fails or the server stops: the connection it serves is closed.
ServerFails ==
    /\ StoreFailure
    /\ Fault
    /\ IF at = "store" THEN SyncErr ELSE UNCHANGED << deviceVars, sending, at >>
    /\ UNCHANGED strays

ServerRuns ==
    /\ Open \/ ReplayLine \/ Opened \/ AppendOk
    /\ UNCHANGED << deviceVars, linkVars, faults >>

Operator(s) ==
    /\ Device \in DOMAIN devices => devices[Device].version < MaxVersion
    /\ Register(Device, s) \/ RotateCredential(Device, s)
    /\ UNCHANGED << deviceVars, linkVars, faults >>

UplinkNext ==
    \/ \E v \in Values : Sample(v)
    \/ Reboot
    \/ SyncSend
    \/ Provision
    \/ \E t \in Instants : Arrive(t) \/ ArriveStray(t)
    \/ AnswerArrives
    \/ AnswerLost
    \/ TimeOut
    \/ RequestLost
    \/ TimeOutEarly
    \/ ServerFails
    \/ ServerRuns
    \/ \E s \in Secrets : Operator(s)

UplinkSpec == UplinkInit /\ [][UplinkNext]_uplinkVars

\* The server runs, answers and is started again, the device keeps trying and
\* times out, and the operator registers the device and passes credentials on.
\* Sampling, rebooting and rotating are not forced, and faults are finite.
UplinkFairness ==
    /\ WF_uplinkVars(ServerRuns)
    /\ WF_uplinkVars(AnswerArrives)
    /\ WF_uplinkVars(SyncSend)
    /\ WF_uplinkVars(\E t \in Instants : Arrive(t))
    /\ WF_uplinkVars(TimeOut)
    /\ SF_uplinkVars(Provision)
    /\ WF_uplinkVars(Device \notin DOMAIN devices /\ \E s \in Secrets : Operator(s))

FairUplinkSpec == UplinkSpec /\ UplinkFairness

-----------------------------------------------------------------------------
(* Properties.                                                             *)

Contract == INSTANCE UplinkContract
    WITH Readings <- Reading, Capacity <- MaxRing,
         held <- ring, delivered <- AckedReadings, lost <- droppedWhenFull

\* A reading leaves the ring only confirmed or counted as dropped, whatever
\* the link, the timeouts and the server do (docs/decisions/0001, Recovery
\* invariant 1; lib.rs:419-458).
ImplementsContract == Contract!Spec

\* What an honest device sends never contradicts what the store has, however
\* late it arrives: the boot counter keeps sessions apart (lib.rs:459-462).
NeverContradicts ==
    phase = "serving" =>
        /\ ~ Conflicts(sending)
        /\ \A batch \in strays : ~ Conflicts(batch)

\* Once faults have ceased, everything sampled leaves the device: a batch
\* stored without the device knowing is confirmed by its repetition.
Drains == <>[](ring = << >>)
=============================================================================
