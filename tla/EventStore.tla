------------------------------ MODULE EventStore ------------------------------
(***************************************************************************)
(* cloud/src/lib.rs: Store.  The memory is a projection of an append-only  *)
(* log of events, one line each, replayed line by line at start.  A request*)
(* is validated whole, then its events are appended one by one: the line,  *)
(* a newline, sync_data, and only then the memory.  An append may fail and *)
(* the process or the machine may stop between any two of these.           *)
(*                                                                         *)
(* A line of the file is an event or Garbage: a proper part of an event is *)
(* no JSON value, nor are two events on one line.  A refusal by validation *)
(* changes nothing and is a stuttering step.                               *)
(***************************************************************************)
EXTENDS Naturals, SequencesExt

CONSTANTS
    Devices, Secrets,
    Ids,             \* (boot_counter, sequence) of a reading
    Values,          \* the rest of a reading
    Invalid,         \* the values and versions ingest refuses
    Instants,        \* receipt times
    Keys, Contents,  \* firmware and configuration metadata
    MaxBatch, MaxStored,
    FailureModes,    \* sets of what may happen: "io", "restart", "crash", "power"
    MaxEvents        \* bound: events in the log and under way

ASSUME FailureModesAssumption ==
    FailureModes \subseteq SUBSET {"io", "restart", "crash", "power"}
ASSUME LimitsAssumption == MaxBatch \in Nat \ {0} /\ MaxStored \in Nat /\ MaxEvents \in Nat
ASSUME InvalidAssumption == Invalid \subseteq Values

VARIABLES
    closed,    \* the file: its complete lines
    tail,      \* the file: what follows the last newline
    disk,      \* the part of the file that has been synced, << lines, tail >>
    phase,     \* "down", "replaying", "serving", "appending", "unopenable"
    replayed,  \* lines of the file that a start has applied so far
    devices, readings, published,   \* the memory
    pending,   \* events of the request still to be appended
    accepted,  \* readings the request has stored so far
    refused,   \* the last request failed after validation
    request,   \* what a success of the request confirms
    acked,     \* history: everything confirmed to a client
    failures   \* what may happen in this behaviour; never changes

file == << closed, tail, disk >>
memory == << devices, readings, published >>
progress == << pending, accepted, refused, request >>
storeVars == << file, phase, replayed, memory, progress, acked, failures >>

-----------------------------------------------------------------------------
Reading == [device : Devices, id : Ids, value : Values]
Envelope == [reading : Reading, secret : Secrets]
Registration(d, version, s, seen) ==
    [kind |-> "device", device |-> d, version |-> version, secret |-> s, seen |-> seen]
ReadingAccepted(r, t) == [kind |-> "reading", reading |-> r, received |-> t]
Publication(k, c) == [kind |-> "published", key |-> k, content |-> c]
Garbage == [kind |-> "garbage"]
Empty == [kind |-> "empty"]

\* What has been received last from a device, if anything.
Seen == {{}} \cup {{<< i, t >>} : i \in Ids, t \in Instants}
Record ==
    [kind : {"device"}, device : Devices, version : Nat, secret : Secrets, seen : Seen]
Event ==
    Record
    \cup [kind : {"reading"}, reading : Reading, received : Instants]
    \cup [kind : {"published"}, key : Keys, content : Contents]
Line == Event \cup {Garbage}

\* Functions from some of the elements of A to B.
Partial(A, B) == UNION {[D -> B] : D \in SUBSET A}

StoreTypeOK ==
    /\ closed \in Seq(Line) /\ Len(closed) <= MaxEvents
    /\ tail \in Line \cup {Empty}
    /\ disk[1] \in Seq(Line) /\ disk[2] \in Line \cup {Empty}
    /\ Len(disk[1]) <= Len(closed)
    /\ \A i \in DOMAIN disk[1] : closed[i] = disk[1][i]
    /\ phase \in {"down", "replaying", "serving", "appending", "unopenable"}
    /\ replayed \in 0 .. MaxEvents + 1
    /\ DOMAIN devices \subseteq Devices
    /\ \A d \in DOMAIN devices : devices[d] \in Record /\ devices[d].device = d
    /\ readings \in Partial(Devices \X Ids, Values \ Invalid)
    /\ published \in Partial(Keys, Contents)
    /\ pending \in Seq(Event) /\ Len(pending) <= MaxBatch
    /\ accepted \in 0 .. MaxBatch
    /\ refused \in BOOLEAN
    /\ failures \in FailureModes

Nothing == << >>
StoreInit ==
    /\ closed = << >>
    /\ tail = Empty
    /\ disk = << << >>, Empty >>
    /\ phase = "down"
    /\ replayed = 0
    /\ devices = Nothing
    /\ readings = Nothing
    /\ published = Nothing
    /\ pending = << >>
    /\ accepted = 0
    /\ refused = FALSE
    /\ request = {}
    /\ acked = {}
    /\ failures \in FailureModes

-----------------------------------------------------------------------------
(* The projection.                                                         *)

Key(r) == << r.device, r.id >>

\* Mutant: an event never replaces what is already there.
ApplyKeeping(m, e) ==
    CASE e.kind = "device" ->
            [m EXCEPT !.devices = @ @@ (e.device :> e)]
      [] e.kind = "reading" ->
            [m EXCEPT
               !.readings = @ @@ (Key(e.reading) :> e.reading.value),
               !.devices = IF e.reading.device \in DOMAIN @
                           THEN [@ EXCEPT ![e.reading.device].seen =
                                            {<< e.reading.id, e.received >>}]
                           ELSE @]
      [] e.kind = "published" ->
            [m EXCEPT !.published = @ @@ (e.key :> e.content)]

\* BTreeMap::insert.
With(f, x, y) == [z \in DOMAIN f \cup {x} |-> IF z = x THEN y ELSE f[z]]

\* Store::apply.
Apply(m, e) ==
    CASE e.kind = "device" ->
            [m EXCEPT !.devices = With(@, e.device, e)]
      [] e.kind = "reading" ->
            [m EXCEPT
               !.readings = With(@, Key(e.reading), e.reading.value),
               !.devices = IF e.reading.device \in DOMAIN @
                           THEN [@ EXCEPT ![e.reading.device].seen =
                                            {<< e.reading.id, e.received >>}]
                           ELSE @]
      [] e.kind = "published" ->
            [m EXCEPT !.published = With(@, e.key, e.content)]

MemoryBecomes(m) ==
    devices' = m.devices /\ readings' = m.readings /\ published' = m.published
Current == [devices |-> devices, readings |-> readings, published |-> published]
NoMemory == [devices |-> Nothing, readings |-> Nothing, published |-> Nothing]

LinesOf(f) == IF f[2] = Empty THEN f[1] ELSE Append(f[1], f[2])
Lines == LinesOf(<< closed, tail >>)

\* Store::open: nothing is in memory,
Open ==
    /\ phase = "down"
    /\ phase' = "replaying"
    /\ replayed' = 0
    /\ MemoryBecomes(NoMemory)
    /\ UNCHANGED << file, progress, acked, failures >>

\* then every line is parsed and applied, or there is no store,
ReplayLine ==
    /\ phase = "replaying"
    /\ replayed < Len(Lines)
    /\ IF Lines[replayed + 1] = Garbage
       THEN /\ phase' = "unopenable"
            /\ replayed' = 0
            /\ MemoryBecomes(NoMemory)
       ELSE /\ MemoryBecomes(Apply(Current, Lines[replayed + 1]))
            /\ replayed' = replayed + 1
            /\ UNCHANGED phase
    /\ UNCHANGED << file, progress, acked, failures >>

\* until the end of the file.
Opened ==
    /\ phase = "replaying"
    /\ replayed = Len(Lines)
    /\ phase' = "serving"
    /\ replayed' = 0
    /\ UNCHANGED << file, memory, progress, acked, failures >>

-----------------------------------------------------------------------------
(* Requests.  Each is validated and its events are made at once, since the *)
(* store is not shared; the appends follow.                                *)

Begin(events, confirms) ==
    /\ phase = "serving"
    /\ Len(closed) + Len(events) <= MaxEvents
    /\ phase' = "appending"
    /\ pending' = events
    /\ request' = confirms
    /\ accepted' = 0
    /\ refused' = FALSE
    /\ UNCHANGED << file, replayed, memory, acked, failures >>

BeginRecord(e) ==
    Begin(<< e >>, {[device |-> e.device, version |-> e.version, secret |-> e.secret]})

Register(d, s) ==
    /\ d \notin DOMAIN devices
    /\ BeginRecord(Registration(d, 1, s, {}))

RotateCredential(d, s) ==
    /\ d \in DOMAIN devices
    /\ BeginRecord(Registration(d, devices[d].version + 1, s, devices[d].seen))

Publish(k, c) == Begin(<< Publication(k, c) >>, {})

Stored(r) == Key(r) \in DOMAIN readings
\* Entries of a batch with the identity of an earlier one.
Repeats(batch, i) == \E j \in 1 .. i - 1 : Key(batch[j].reading) = Key(batch[i].reading)
Unseen(batch) ==
    {i \in DOMAIN batch : ~ Stored(batch[i].reading) /\ ~ Repeats(batch, i)}
Conflicts(batch) ==
    \E i \in DOMAIN batch :
        LET r == batch[i].reading IN
        \/ Stored(r) /\ readings[Key(r)] # r.value
        \/ \E j \in 1 .. i - 1 : /\ Key(batch[j].reading) = Key(r)
                                 /\ batch[j].reading.value # r.value
Authentic(e) ==
    /\ e.reading.device \in DOMAIN devices
    /\ e.secret = devices[e.reading.device].secret
\* Mutant: the room is checked without the batch.
FitsBefore(batch) == Cardinality(DOMAIN readings) <= MaxStored
Fits(batch) == Cardinality(DOMAIN readings) + Cardinality(Unseen(batch)) <= MaxStored

\* Mutant: a batch may bring another value for a stored identity.
AcceptableOverwriting(batch) ==
    /\ Len(batch) \in 1 .. MaxBatch
    /\ \A i \in DOMAIN batch :
          Authentic(batch[i]) /\ batch[i].reading.value \notin Invalid
    /\ Fits(batch)

\* Mutant: only the first entry of a batch is checked for its value.
AcceptableFirst(batch) ==
    /\ Len(batch) \in 1 .. MaxBatch
    /\ \A i \in DOMAIN batch : Authentic(batch[i])
    /\ batch[1].reading.value \notin Invalid
    /\ ~ Conflicts(batch)
    /\ Fits(batch)

Acceptable(batch) ==
    /\ Len(batch) \in 1 .. MaxBatch
    /\ \A i \in DOMAIN batch :
          Authentic(batch[i]) /\ batch[i].reading.value \notin Invalid
    /\ ~ Conflicts(batch)
    /\ Fits(batch)

\* Store::ingest: readings already stored are confirmed without an append.
Ingest(batch, t) ==
    /\ Acceptable(batch)
    /\ \E order \in BoundedSeq(Unseen(batch), Len(batch)) :
          /\ Range(order) = Unseen(batch)
          /\ \A i, j \in DOMAIN order : i < j => order[i] < order[j]
          /\ Begin([i \in DOMAIN order |-> ReadingAccepted(batch[order[i]].reading, t)],
                   {batch[i].reading : i \in DOMAIN batch})

-----------------------------------------------------------------------------
(* Store::append.                                                          *)

FileBecomes(f) == closed' = f[1] /\ tail' = f[2]
Glued(e) == IF tail = Empty THEN e ELSE Garbage

\* Mutant: the memory is updated without the health of the device.
AppendOkNoHealth ==
    /\ phase = "appending"
    /\ pending # << >>
    /\ closed' = Append(closed, Glued(Head(pending)))
    /\ tail' = Empty
    /\ disk' = << closed', Empty >>
    /\ devices' = IF Head(pending).kind = "device"
                  THEN Apply(Current, Head(pending)).devices ELSE devices
    /\ readings' = Apply(Current, Head(pending)).readings
    /\ published' = Apply(Current, Head(pending)).published
    /\ pending' = Tail(pending)
    /\ accepted' = accepted + (IF Head(pending).kind = "reading" THEN 1 ELSE 0)
    /\ UNCHANGED << phase, replayed, refused, request, acked, failures >>

\* The line, the newline and sync_data succeed, then the memory follows.
AppendOk ==
    /\ phase = "appending"
    /\ pending # << >>
    /\ closed' = Append(closed, Glued(Head(pending)))
    /\ tail' = Empty
    /\ disk' = << closed', Empty >>
    /\ MemoryBecomes(Apply(Current, Head(pending)))
    /\ pending' = Tail(pending)
    /\ accepted' = accepted + (IF Head(pending).kind = "reading" THEN 1 ELSE 0)
    /\ UNCHANGED << phase, replayed, refused, request, acked, failures >>

\* What an append that does not complete may leave in the file: nothing, a
\* part of the line, the line, or the line and the newline, not synced.
Remains(e) ==
    {<< closed, tail >>, << closed, Garbage >>, << closed, Glued(e) >>,
     << Append(closed, Glued(e)), Empty >>}

\* Any of them fails: the request is refused, what it has stored stays.
AppendErr ==
    /\ "io" \in failures
    /\ phase = "appending"
    /\ pending # << >>
    /\ \E f \in Remains(Head(pending)) : FileBecomes(f)
    /\ phase' = "serving"
    /\ pending' = << >>
    /\ request' = {}
    /\ refused' = TRUE
    /\ UNCHANGED << disk, replayed, memory, accepted, acked, failures >>

\* The request has succeeded and its client is told.
Answer ==
    /\ phase = "appending"
    /\ pending = << >>
    /\ phase' = "serving"
    /\ acked' = acked \cup request
    /\ request' = {}
    /\ UNCHANGED << file, replayed, memory, pending, accepted, refused, failures >>

-----------------------------------------------------------------------------
(* Stops.                                                                  *)

Stopped ==
    /\ phase' = "down"
    /\ replayed' = 0
    /\ MemoryBecomes(NoMemory)
    /\ pending' = << >>
    /\ request' = {}
    /\ accepted' = 0
    /\ refused' = FALSE
    /\ UNCHANGED << acked, failures >>

\* The operator restarts the server between two requests.
Restart ==
    /\ "restart" \in failures
    /\ phase = "serving"
    /\ Stopped
    /\ UNCHANGED file

LeftBehind ==
    IF pending = << >> THEN {<< closed, tail >>} ELSE Remains(Head(pending))

\* The process dies; what it wrote stays readable.
Crash ==
    /\ "crash" \in failures
    /\ phase \in {"replaying", "serving", "appending"}
    /\ \E f \in LeftBehind : FileBecomes(f)
    /\ Stopped
    /\ UNCHANGED disk

\* What may be left of a file f: all that was synced, and some of the rest.
OnDisk(f) ==
    LET lines == f[1]
        first == Len(disk[1])
        After(n) == IF n = Len(lines) THEN f[2] ELSE lines[n + 1]
        Base(n) == IF n = first THEN disk[2] ELSE Empty
        Cut(n) == IF After(n) = Base(n) THEN {Base(n)} ELSE {Base(n), Garbage, After(n)}
    IN  UNION {{<< SubSeq(lines, 1, n), t >> : t \in Cut(n)} : n \in first .. Len(lines)}

\* The machine loses power: what survives is what is on disk.
PowerLoss ==
    /\ "power" \in failures
    /\ phase \in {"down", "replaying", "serving", "appending"}
    /\ \E f \in UNION {OnDisk(g) : g \in LeftBehind} :
          FileBecomes(f) /\ disk' = f
    /\ Stopped

StoreFailure == AppendErr \/ Restart \/ Crash \/ PowerLoss
StoreStep == Open \/ ReplayLine \/ Opened \/ AppendOk \/ Answer

StoreNext ==
    \/ StoreStep
    \/ StoreFailure
    \/ \E d \in Devices, s \in Secrets : Register(d, s) \/ RotateCredential(d, s)
    \/ \E k \in Keys, c \in Contents : Publish(k, c)
    \/ /\ phase = "serving"
       /\ \E batch \in BoundedSeq(Envelope, MaxBatch), t \in Instants : Ingest(batch, t)

StoreSpec == StoreInit /\ [][StoreNext]_storeVars

-----------------------------------------------------------------------------
(* Properties.                                                             *)

AckedReadings == {f \in acked : "id" \in DOMAIN f}
AckedRecords == {f \in acked : "version" \in DOMAIN f}

\* docs/decisions/0001: "`sync_data` is called before an ingest is
\* acknowledged, and replay reconstructs readings": a confirmed reading is
\* there, with the value confirmed, whenever the store serves.
AckedDurable ==
    phase \in {"serving", "appending"} =>
        \A r \in AckedReadings : Stored(r) /\ readings[Key(r)] = r.value

\* A start may replay an append that was never synced, of which a loss of power
\* may then take what the memory shows.
UnsyncedReplay ==
    "power" \in failures /\ ("crash" \in failures \/ {"io", "restart"} \subseteq failures)

\* No failed append, retry, reuse of an identity or replay replaces or loses a
\* confirmed reading (lib.rs:286-317, 200-211), as long as no loss of power
\* follows a start that replayed an append never synced.
AckedSurvives == ~ UnsyncedReplay => AckedDurable

\* The credential in force is the last one confirmed or a newer one, across
\* failed rotations and restarts (lib.rs:266-273).
CredentialSurvives ==
    phase \in {"serving", "appending"} =>
        \A f \in AckedRecords :
            /\ f.device \in DOMAIN devices
            /\ \/ devices[f.device].version > f.version
               \/ /\ devices[f.device].version = f.version
                  /\ devices[f.device].secret = f.secret

\* The memory shows of every device, identity and key the latest line about it.
Latest(i, S) == i \in S /\ \A j \in S : j <= i
RecordLines(lines, d) == {i \in DOMAIN lines : lines[i].kind = "device" /\ lines[i].device = d}
ReadingLines(lines, k) ==
    {i \in DOMAIN lines : lines[i].kind = "reading" /\ Key(lines[i].reading) = k}
PublicationLines(lines, k) ==
    {i \in DOMAIN lines : lines[i].kind = "published" /\ lines[i].key = k}
HeardAfter(lines, d, i) ==
    {j \in DOMAIN lines : j > i /\ lines[j].kind = "reading" /\ lines[j].reading.device = d}

ShowsReadings(m, lines) ==
    /\ \A i \in DOMAIN lines :
          lines[i].kind = "reading" => Key(lines[i].reading) \in DOMAIN m.readings
    /\ \A k \in DOMAIN m.readings :
          \E i \in DOMAIN lines : /\ Latest(i, ReadingLines(lines, k))
                                  /\ m.readings[k] = lines[i].reading.value
ShowsPublished(m, lines) ==
    /\ \A i \in DOMAIN lines :
          lines[i].kind = "published" => lines[i].key \in DOMAIN m.published
    /\ \A k \in DOMAIN m.published :
          \E i \in DOMAIN lines : /\ Latest(i, PublicationLines(lines, k))
                                  /\ m.published[k] = lines[i].content
\* The health of a device is that of the latest reading since its record.
Health(lines, d, i, seen) ==
    LET heard == HeardAfter(lines, d, i)
    IN  IF heard = {} THEN seen = lines[i].seen
        ELSE \E j \in heard : /\ Latest(j, heard)
                              /\ seen = {<< lines[j].reading.id, lines[j].received >>}
ShowsDevices(m, lines) ==
    /\ \A i \in DOMAIN lines :
          lines[i].kind = "device" => lines[i].device \in DOMAIN m.devices
    /\ \A d \in DOMAIN m.devices :
          \E i \in DOMAIN lines :
              /\ Latest(i, RecordLines(lines, d))
              /\ m.devices[d] = [lines[i] EXCEPT !.seen = m.devices[d].seen]
              /\ Health(lines, d, i, m.devices[d].seen)
Shows(m, lines) ==
    ShowsReadings(m, lines) /\ ShowsPublished(m, lines) /\ ShowsDevices(m, lines)

Readable == \A i \in DOMAIN Lines : Lines[i] # Garbage

\* Without write errors the memory is what a restart would rebuild: devices
\* with their health, readings and metadata (lib.rs:185-193, 210).
MemoryIsReplay ==
    "io" \notin failures /\ phase \in {"serving", "appending"} /\ Readable =>
        Shows(Current, Lines)

\* Without write errors there are never more readings than the bound, however
\* often a batch is cut short and repeated (lib.rs:314).
RetentionBound == "io" \notin failures => Cardinality(DOMAIN readings) <= MaxStored

\* docs/runbook.md:9: "The cloud does not partially apply a rejected batch."
NoPartialBatch == refused => accepted = 0

\* docs/runbook.md:13: "Startup replay is the recovery operation."
Recoverable == phase # "unopenable"
=============================================================================
