-------------------------- MODULE EventStoreProofs --------------------------
(***************************************************************************)
(* What the store confirms is kept, for any number of devices, readings,   *)
(* retries and failures.  The argument is about the lines of the log: each *)
(* step leaves every line as it was, cuts lines that were never synced,    *)
(* adds the line being written, or spoils a line (Garbage, with which no   *)
(* start succeeds).  What has been confirmed is firm: a line with it       *)
(* survives whatever happens next, and no later line says otherwise.       *)
(***************************************************************************)
EXTENDS EventStore, FiniteSetTheorems, TLAPS

\* Events as validation lets them through.
Sound == {e \in Event : e.kind = "reading" => e.reading.value \notin Invalid}
SoundLine == Sound \cup {Garbage}
IsFile(f) == f[1] \in Seq(SoundLine) /\ f[2] \in SoundLine \cup {Empty}

SyncedLines == LinesOf(disk)
\* The lines that every further failure leaves in the file.
Sure == IF "power" \in failures THEN SyncedLines ELSE Lines

FileShape ==
    /\ IsFile(<< closed, tail >>) /\ IsFile(disk)
    /\ Len(disk[1]) <= Len(closed)
    /\ \A i \in 1 .. Len(disk[1]) : closed[i] = disk[1][i]
    /\ disk[2] # Empty =>
          /\ Len(disk[1]) < Len(Lines)
          /\ Lines[Len(disk[1]) + 1] \in {disk[2], Garbage}

\* What an interrupted append was writing, if anything.
Writing == IF pending = << >> THEN Garbage ELSE Head(pending)

\* Each line of the next file is an old one, the one being written, or spoilt.
Descends(lines) ==
    \A j \in 1 .. Len(lines) :
        \/ lines[j] = Garbage
        \/ j <= Len(Lines) /\ lines[j] = Lines[j]
        \/ j <= Len(Sure) /\ lines[j] = Sure[j]
        \/ j > Len(Lines) /\ lines[j] = Writing
LogMoves ==
    /\ Len(Sure) <= Len(Sure')
    /\ Descends(Lines') /\ Descends(Sure')
    /\ UNCHANGED failures

\* A line in G survives, unless spoilt, and no line after it is in B.
Firm(G, B) ==
    \E i \in 1 .. Len(Sure) :
        /\ Lines[i] \in G \cup {Garbage} /\ Sure[i] \in G \cup {Garbage}
        /\ \A j \in 1 .. Len(Lines) : j > i => Lines[j] \notin B
        /\ \A j \in 1 .. Len(Sure) : j > i => Sure[j] \notin B

\* A credential as it is confirmed.
Credential == [device : Devices, version : Nat, secret : Secrets]

ProgressShape ==
    /\ phase \in {"down", "replaying", "serving", "appending", "unopenable"}
    /\ replayed \in Nat /\ (replayed # 0 => phase = "replaying" /\ replayed <= Len(Lines))
    /\ pending \in Seq(Sound) /\ Len(closed) + Len(pending) <= MaxEvents
    /\ accepted \in Nat /\ accepted + Len(pending) <= MaxBatch
    /\ refused \in BOOLEAN /\ failures \in FailureModes
    /\ phase # "appending" => pending = << >> /\ request = {}
    /\ request \subseteq Reading \cup Credential
    /\ acked \subseteq Reading \cup Credential
MemoryShape ==
    /\ DOMAIN devices \subseteq Devices
    /\ \A d \in DOMAIN devices : devices[d] \in Record /\ devices[d].device = d
    /\ readings \in Partial(Devices \X Ids, Values \ Invalid)
    /\ published \in Partial(Keys, Contents)
StoreShape == FileShape /\ ProgressShape /\ MemoryShape

Serving == phase \in {"serving", "appending"}

\* The lines that confirm what f confirms, and those that would undo it.
RecordAs(f) ==
    {e \in Record : e.device = f.device /\ e.version = f.version /\ e.secret = f.secret}
RecordUpTo(f) == {e \in Record : e.device = f.device /\ e.version <= f.version}
ReadingAt(k) == {e \in Event : e.kind = "reading" /\ Key(e.reading) = k}
ReadingOf(k, v) == {e \in ReadingAt(k) : e.reading.value = v}
FirmRecord(f) == Firm(RecordAs(f), RecordUpTo(f))
FirmReading(k, v) == Firm(ReadingOf(k, v), ReadingAt(k))

\* The device has a credential at least as new as f.
InForce(f) ==
    /\ f.device \in DOMAIN devices
    /\ \/ devices[f.device].version > f.version
       \/ devices[f.device].version = f.version /\ devices[f.device].secret = f.secret
CredentialKept ==
    \A f \in acked \cap Credential : FirmRecord(f) /\ (Serving => InForce(f))

\* Whatever a start may replay has been synced, where it must be.
Synced ==
    "power" \in failures /\ (phase \in {"down", "replaying"} \/ "io" \notin failures) =>
        disk = << closed, tail >>

InMemory(r) == Stored(r) /\ readings[Key(r)] = r.value
ReadingKept ==
    ~ UnsyncedReplay =>
        /\ \A r \in acked \cap Reading : FirmReading(Key(r), r.value) /\ (Serving => InMemory(r))
        /\ Serving => \A k \in DOMAIN readings : FirmReading(k, readings[k])
        /\ Synced

\* Events still to be appended are news: no reading of theirs is stored, no
\* credential of theirs is older than one confirmed.
EventsFit(events) ==
    /\ \A i \in 1 .. Len(events) :
          /\ events[i].kind = "reading" => ~ Stored(events[i].reading)
          /\ events[i].kind = "device" =>
                \A f \in acked \cap Credential :
                    f.device = events[i].device => f.version < events[i].version
    /\ \A i, j \in 1 .. Len(events) :
          /\ events[i].kind = "reading" /\ events[j].kind = "reading"
          /\ Key(events[i].reading) = Key(events[j].reading)
          => i = j

\* What a success will confirm is in memory by now or still to be appended.
Met(f, events) ==
    /\ f \in Reading =>
          \/ InMemory(f)
          \/ \E i \in 1 .. Len(events) : events[i].kind = "reading" /\ events[i].reading = f
    /\ f \in Credential =>
          IF Len(events) = 0 THEN FirmRecord(f) /\ InForce(f)
          ELSE Len(events) = 1 /\ events[1] \in RecordAs(f)
RequestFits == EventsFit(pending) /\ \A f \in request : Met(f, pending)

\* The memory shows the lines replayed, then all lines.
MemoryShown ==
    /\ phase = "replaying" =>
          /\ \A i \in 1 .. replayed : Lines[i] # Garbage
          /\ Shows(Current, SubSeq(Lines, 1, replayed))
    /\ MemoryIsReplay

KeysIn(lines) ==
    {Key(lines[i].reading) : i \in {j \in 1 .. Len(lines) : lines[j].kind = "reading"}}
LogKeys == KeysIn(Lines) \cup KeysIn(Sure)
InBounds(S) == IsFiniteSet(S) /\ Cardinality(S) <= MaxStored
Bounded ==
    "io" \notin failures =>
        /\ InBounds(LogKeys \cup KeysIn(pending) \cup DOMAIN readings)
        /\ Serving => LogKeys \subseteq DOMAIN readings

StoreInductive ==
    /\ StoreShape /\ CredentialKept /\ ReadingKept /\ RequestFits /\ MemoryShown /\ Bounded

-----------------------------------------------------------------------------
(* Lines.                                                                  *)

LEMMA KindsDiffer ==
    /\ Empty \notin SoundLine /\ Garbage \in SoundLine
    /\ \A e \in Sound : e # Garbage /\ e \in Event
    /\ \A e \in Event : e.kind \in {"device", "reading", "published"}
    /\ Garbage.kind = "garbage"
  BY DEF Sound, SoundLine, Event, Record, Garbage, Empty

LEMMA LinesOfFile ==
    ASSUME NEW f, IsFile(f)
    PROVE  /\ LinesOf(f) \in Seq(SoundLine)
           /\ Len(f[1]) \in Nat
           /\ Len(LinesOf(f)) = IF f[2] = Empty THEN Len(f[1]) ELSE Len(f[1]) + 1
           /\ \A i \in 1 .. Len(f[1]) : LinesOf(f)[i] = f[1][i]
           /\ f[2] # Empty => LinesOf(f)[Len(f[1]) + 1] = f[2]
  BY DEF IsFile, LinesOf

\* The synced lines are the first lines of the file, the last perhaps spoilt.
LEMMA SyncedIsPart ==
    ASSUME FileShape
    PROVE  /\ Lines \in Seq(SoundLine) /\ SyncedLines \in Seq(SoundLine)
           /\ Len(Lines) \in Nat /\ Len(SyncedLines) \in Nat
           /\ Len(SyncedLines) <= Len(Lines)
           /\ \A i \in 1 .. Len(SyncedLines) : Lines[i] \in {SyncedLines[i], Garbage}
<1> DEFINE f == << closed, tail >>
<1>1. IsFile(f) /\ IsFile(disk) /\ f[1] = closed /\ f[2] = tail /\ Lines = LinesOf(f)
  BY DEF FileShape, Lines
<1> HIDE DEF f
<1>2. /\ Lines \in Seq(SoundLine) /\ SyncedLines \in Seq(SoundLine)
      /\ Len(Lines) \in Nat /\ Len(SyncedLines) \in Nat
  BY <1>1, LinesOfFile DEF SyncedLines
<1>3. /\ Len(Lines) = IF tail = Empty THEN Len(closed) ELSE Len(closed) + 1
      /\ \A i \in 1 .. Len(closed) : Lines[i] = closed[i]
  BY <1>1, LinesOfFile
<1>4. /\ Len(SyncedLines) = IF disk[2] = Empty THEN Len(disk[1]) ELSE Len(disk[1]) + 1
      /\ \A i \in 1 .. Len(disk[1]) : SyncedLines[i] = disk[1][i]
      /\ disk[2] # Empty => SyncedLines[Len(disk[1]) + 1] = disk[2]
      /\ Len(disk[1]) \in Nat /\ Len(closed) \in Nat
  BY <1>1, LinesOfFile DEF SyncedLines
<1>5. Len(SyncedLines) <= Len(Lines)
  BY <1>2, <1>3, <1>4 DEF FileShape
<1>6. ASSUME NEW i \in 1 .. Len(SyncedLines)
      PROVE  Lines[i] \in {SyncedLines[i], Garbage}
  <2>1. CASE i <= Len(disk[1])
    BY <2>1, <1>3, <1>4, <1>6 DEF FileShape
  <2>2. CASE i > Len(disk[1])
    <3>1. i = Len(disk[1]) + 1 /\ disk[2] # Empty
      BY <2>2, <1>4, <1>6
    <3> QED
      BY <3>1, <1>4 DEF FileShape
  <2> QED
    BY <2>1, <2>2, <1>4, <1>6
<1> QED
  BY <1>2, <1>5, <1>6

LEMMA SureIsPart ==
    FileShape => Len(Lines) \in Nat /\ Len(Sure) \in Nat /\ Len(Sure) <= Len(Lines)
  BY SyncedIsPart DEF Sure

\* What is firm stays so in each step that does not write an overriding line.
LEMMA FirmStays ==
    ASSUME FileShape, FileShape', LogMoves, NEW G, NEW B, Firm(G, B),
           Writing \notin B, Garbage \notin B
    PROVE  Firm(G, B)'
<1>1. PICK i \in 1 .. Len(Sure) :
        /\ Lines[i] \in G \cup {Garbage} /\ Sure[i] \in G \cup {Garbage}
        /\ \A j \in 1 .. Len(Lines) : j > i => Lines[j] \notin B
        /\ \A j \in 1 .. Len(Sure) : j > i => Sure[j] \notin B
  BY DEF Firm
<1>2. Len(Lines) \in Nat /\ Len(Sure) \in Nat /\ Len(Sure) <= Len(Lines)
  BY SureIsPart
<1>3. Len(Lines') \in Nat /\ Len(Sure') \in Nat /\ Len(Sure') <= Len(Lines')
  <2>1. (FileShape => Len(Lines) \in Nat /\ Len(Sure) \in Nat /\ Len(Sure) <= Len(Lines))'
    BY SureIsPart, PTL
  <2> QED
    BY <2>1
<1>4. i \in 1 .. Len(Sure') /\ i \in 1 .. Len(Lines') /\ i \in 1 .. Len(Lines) /\ i \in Nat
  BY <1>1, <1>2, <1>3 DEF LogMoves
<1>5. ASSUME NEW lines, Descends(lines), Len(lines) \in Nat
      PROVE  /\ i \in 1 .. Len(lines) => lines[i] \in G \cup {Garbage}
             /\ \A j \in 1 .. Len(lines) : j > i => lines[j] \notin B
  <2> DEFINE GG == G \cup {Garbage}
  <2>1. ASSUME NEW j \in 1 .. Len(lines)
        PROVE  \/ lines[j] = Garbage
               \/ j <= Len(Lines) /\ j \in 1 .. Len(Lines) /\ lines[j] = Lines[j]
               \/ j > Len(Lines) /\ lines[j] = Writing
               \/ j <= Len(Sure) /\ j \in 1 .. Len(Sure) /\ lines[j] = Sure[j]
    BY <1>2, <1>5 DEF Descends
  <2>2. ASSUME i \in 1 .. Len(lines) PROVE lines[i] \in GG
    <3>1. i <= Len(Lines) /\ Lines[i] \in GG /\ Sure[i] \in GG /\ Garbage \in GG
      BY <1>1, <1>2, <1>4
    <3> HIDE DEF GG
    <3> QED
      BY <1>2, <1>4, <2>1, <2>2, <3>1
  <2>3. ASSUME NEW j \in 1 .. Len(lines), j > i PROVE lines[j] \notin B
    BY <1>1, <2>1, <2>3
  <2> QED
    BY <2>2, <2>3
<1>6. /\ Lines'[i] \in G \cup {Garbage} /\ Sure'[i] \in G \cup {Garbage}
      /\ \A j \in 1 .. Len(Lines') : j > i => Lines'[j] \notin B
      /\ \A j \in 1 .. Len(Sure') : j > i => Sure'[j] \notin B
  BY <1>3, <1>4, <1>5 DEF LogMoves
<1> QED
  BY <1>4, <1>6 DEF Firm

-----------------------------------------------------------------------------
(* What the steps do to the file.                                          *)

\* A write that stops at any point, or completes.
LEMMA RemainsLines ==
    ASSUME FileShape, NEW e \in SoundLine, NEW f \in Remains(e)
    PROVE  /\ IsFile(f) /\ Len(closed) \in Nat
           /\ Len(f[1]) \in Len(closed) .. Len(closed) + 1
           /\ \A i \in 1 .. Len(closed) : f[1][i] = closed[i]
           /\ Len(Lines) <= Len(LinesOf(f))
           /\ \A j \in 1 .. Len(LinesOf(f)) :
                 \/ LinesOf(f)[j] = Garbage
                 \/ j <= Len(Lines) /\ LinesOf(f)[j] = Lines[j]
                 \/ j > Len(Lines) /\ LinesOf(f)[j] = e
<1> DEFINE now == << closed, tail >>
<1>1. IsFile(now) /\ now[1] = closed /\ now[2] = tail /\ Lines = LinesOf(now)
  BY DEF FileShape, Lines
<1> HIDE DEF now
<1>2. /\ closed \in Seq(SoundLine) /\ tail \in SoundLine \cup {Empty} /\ Len(closed) \in Nat
      /\ Len(Lines) = IF tail = Empty THEN Len(closed) ELSE Len(closed) + 1
      /\ \A i \in 1 .. Len(closed) : Lines[i] = closed[i]
      /\ tail # Empty => Lines[Len(closed) + 1] = tail
  BY <1>1, LinesOfFile DEF IsFile
<1> DEFINE x == Glued(e)
<1>3. /\ x \in SoundLine /\ x # Empty /\ Garbage \in SoundLine /\ Garbage # Empty
      /\ x = IF tail = Empty THEN e ELSE Garbage
  BY KindsDiffer DEF Glued
<1>4. f \in {<< closed, tail >>, << closed, Garbage >>, << closed, x >>, << Append(closed, x), Empty >>}
  BY DEF Remains
<1> HIDE DEF x
<1>5. IsFile(f) /\ (f[1] = closed \/ f[1] = Append(closed, x))
  <2>1. Append(closed, x) \in Seq(SoundLine)
    BY <1>2, <1>3
  <2>2. \E s \in {closed, Append(closed, x)}, t \in SoundLine \cup {Empty} : f = << s, t >>
    BY <1>2, <1>3, <1>4
  <2>3. PICK s \in {closed, Append(closed, x)}, t \in SoundLine \cup {Empty} : f = << s, t >>
    BY <2>2
  <2>4. s \in Seq(SoundLine) /\ f[1] = s /\ f[2] = t
    BY <1>2, <2>1, <2>3
  <2> QED
    BY <2>3, <2>4 DEF IsFile
<1>6. /\ Len(f[1]) \in Len(closed) .. Len(closed) + 1
      /\ \A i \in 1 .. Len(closed) : f[1][i] = closed[i]
  BY <1>2, <1>3, <1>5
<1>7. /\ Len(LinesOf(f)) = IF f[2] = Empty THEN Len(f[1]) ELSE Len(f[1]) + 1
      /\ \A i \in 1 .. Len(f[1]) : LinesOf(f)[i] = f[1][i]
      /\ f[2] # Empty => LinesOf(f)[Len(f[1]) + 1] = f[2]
  BY <1>5, LinesOfFile
<1>8. /\ Len(LinesOf(f)) \in Len(Lines) .. Len(closed) + 1
      /\ \A i \in 1 .. Len(closed) : LinesOf(f)[i] = Lines[i]
  BY <1>2, <1>3, <1>4, <1>6, <1>7
<1>9. ASSUME NEW j \in 1 .. Len(LinesOf(f)), j = Len(closed) + 1
      PROVE  \/ LinesOf(f)[j] = Garbage
             \/ tail # Empty /\ LinesOf(f)[j] = tail
             \/ tail = Empty /\ LinesOf(f)[j] = e
  BY <1>2, <1>3, <1>4, <1>7, <1>9
<1> QED
  BY <1>2, <1>5, <1>6, <1>8, <1>9

LEMMA WriteMoves ==
    ASSUME FileShape, Writing \in SoundLine, << closed', tail' >> \in Remains(Writing),
           \/ UNCHANGED disk
           \/ tail' = Empty /\ disk' = << closed', Empty >> /\ Len(closed') = Len(closed) + 1,
           UNCHANGED failures
    PROVE  FileShape' /\ LogMoves /\ Len(closed') \in Len(closed) .. Len(closed) + 1
<1> DEFINE f == << closed', tail' >>
<1>1. /\ IsFile(f) /\ f[1] = closed' /\ f[2] = tail' /\ Len(closed) \in Nat
      /\ Len(closed') \in Len(closed) .. Len(closed) + 1
      /\ \A i \in 1 .. Len(closed) : closed'[i] = closed[i]
      /\ Lines' = LinesOf(f)
      /\ Len(Lines) <= Len(Lines')
      /\ \A j \in 1 .. Len(Lines') :
            \/ Lines'[j] = Garbage
            \/ j <= Len(Lines) /\ Lines'[j] = Lines[j]
            \/ j > Len(Lines) /\ Lines'[j] = Writing
  BY RemainsLines DEF Lines, LinesOf
<1> HIDE DEF f
<1>2. Len(Lines) \in Nat /\ Len(SyncedLines) \in Nat /\ Len(SyncedLines) <= Len(Lines)
  BY SyncedIsPart
<1>3. Len(disk[1]) \in Nat /\ IsFile(disk)
  BY LinesOfFile DEF FileShape
<1>4. Descends(Lines')
  BY <1>1 DEF Descends
<1>5. CASE UNCHANGED disk
  <2>1. SyncedLines' = SyncedLines
    BY <1>5 DEF SyncedLines, LinesOf
  <2>2. \A i \in 1 .. Len(disk[1]) : closed'[i] = disk[1][i]
    BY <1>1, <1>3 DEF FileShape
  <2>3. disk[2] # Empty =>
          Len(disk[1]) < Len(Lines') /\ Lines'[Len(disk[1]) + 1] \in {disk[2], Garbage}
    <3>1. Len(Lines') \in Nat
      BY <1>1, LinesOfFile
    <3>2. ASSUME disk[2] # Empty
          PROVE  /\ Len(disk[1]) + 1 \in 1 .. Len(Lines') /\ Len(disk[1]) + 1 <= Len(Lines)
                 /\ Lines[Len(disk[1]) + 1] \in {disk[2], Garbage}
      BY <1>1, <1>2, <1>3, <3>1, <3>2 DEF FileShape
    <3> DEFINE k == Len(disk[1]) + 1
    <3>3. ASSUME disk[2] # Empty PROVE Lines'[k] = Garbage \/ Lines'[k] = Lines[k]
      <4>1. k \in 1 .. Len(Lines') /\ k <= Len(Lines) /\ k \in Nat
        BY <1>3, <3>2, <3>3
      <4> HIDE DEF k
      <4> QED
        BY <1>1, <1>2, <4>1
    <3>4. disk[2] # Empty => Len(disk[1]) < Len(Lines')
      BY <1>3, <3>1, <3>2
    <3>5. disk[2] # Empty => Lines[k] \in {disk[2], Garbage}
      BY <3>2
    <3> HIDE DEF k
    <3>6. disk[2] # Empty => Lines'[k] \in {disk[2], Garbage}
      BY <3>3, <3>5
    <3> QED
      BY <3>4, <3>6 DEF k
  <2>4. FileShape'
    BY <1>1, <1>3, <1>5, <2>2, <2>3 DEF FileShape, f, IsFile
  <2>5. Len(Sure) <= Len(Sure') /\ Descends(Sure')
    <3>1. Descends(SyncedLines) \/ "power" \notin failures
      BY DEF Descends, Sure
    <3> QED
      BY <1>1, <1>2, <1>4, <2>1, <3>1 DEF Sure
  <2> QED
    BY <1>1, <1>4, <2>4, <2>5 DEF LogMoves
<1>6. CASE tail' = Empty /\ disk' = << closed', Empty >> /\ Len(closed') = Len(closed) + 1
  <2>1. disk' = f /\ SyncedLines' = Lines'
    BY <1>1, <1>6 DEF SyncedLines, LinesOf, f
  <2>2. FileShape'
    BY <1>1, <1>6, <2>1 DEF FileShape, f
  <2>3. Sure' = Lines' /\ (Sure = Lines \/ Sure = SyncedLines)
    BY <2>1 DEF Sure
  <2> QED
    BY <1>1, <1>2, <1>4, <2>2, <2>3 DEF LogMoves
<1> QED
  BY <1>5, <1>6

\* What a loss of power leaves of a file.
LEMMA OnDiskLines ==
    ASSUME FileShape, NEW f, IsFile(f), Len(disk[1]) <= Len(f[1]),
           \A i \in 1 .. Len(disk[1]) : f[1][i] = disk[1][i],
           disk[2] # Empty => Len(disk[1]) < Len(LinesOf(f)),
           NEW g \in OnDisk(f)
    PROVE  /\ IsFile(g) /\ g = << g[1], g[2] >>
           /\ Len(g[1]) <= Len(f[1])
           /\ Len(SyncedLines) <= Len(LinesOf(g))
           /\ \A j \in 1 .. Len(LinesOf(g)) :
                 \/ LinesOf(g)[j] = Garbage
                 \/ j <= Len(LinesOf(f)) /\ LinesOf(g)[j] = LinesOf(f)[j]
                 \/ j <= Len(SyncedLines) /\ LinesOf(g)[j] = SyncedLines[j]
<1> DEFINE lines == f[1]
           first == Len(disk[1])
           After(n) == IF n = Len(lines) THEN f[2] ELSE lines[n + 1]
           Base(n) == IF n = first THEN disk[2] ELSE Empty
           Cut(n) == IF After(n) = Base(n) THEN {Base(n)} ELSE {Base(n), Garbage, After(n)}
<1>1. PICK n \in first .. Len(lines) : \E t \in Cut(n) : g = << SubSeq(lines, 1, n), t >>
  BY DEF OnDisk
<1>a. PICK t \in Cut(n) : g = << SubSeq(lines, 1, n), t >>
  BY <1>1
<1>2. t \in {Base(n), Garbage, After(n)} /\ (Base(n) = Empty \/ After(n) = Empty \/ t # Empty)
  BY <1>a, KindsDiffer
<1>3. /\ lines \in Seq(SoundLine) /\ f[2] \in SoundLine \cup {Empty}
      /\ disk[2] \in SoundLine \cup {Empty} /\ first \in Nat /\ Len(lines) \in Nat
  BY LinesOfFile DEF IsFile, FileShape
<1>4. n \in Nat /\ n >= first /\ n <= Len(lines)
  BY <1>1, <1>3
<1>5. t \in SoundLine \cup {Empty}
  <2>1. n # Len(lines) => lines[n + 1] \in SoundLine
    BY <1>3, <1>4
  <2> QED
    BY <1>2, <1>3, <2>1, KindsDiffer
<1>6. /\ g[1] = SubSeq(lines, 1, n) /\ g[2] = t
      /\ SubSeq(lines, 1, n) \in Seq(SoundLine) /\ Len(SubSeq(lines, 1, n)) = n
      /\ \A i \in 1 .. n : SubSeq(lines, 1, n)[i] = lines[i]
  BY <1>a, <1>3, <1>4
<1>7. /\ IsFile(g) /\ Len(g[1]) = n
      /\ Len(LinesOf(g)) = IF t = Empty THEN n ELSE n + 1
      /\ \A i \in 1 .. n : LinesOf(g)[i] = lines[i]
      /\ t # Empty => LinesOf(g)[n + 1] = t
  <2>1. IsFile(g)
    BY <1>5, <1>6 DEF IsFile
  <2> QED
    BY <1>6, <2>1, LinesOfFile
<1>8. /\ Len(LinesOf(f)) = IF f[2] = Empty THEN Len(lines) ELSE Len(lines) + 1
      /\ \A i \in 1 .. Len(lines) : LinesOf(f)[i] = lines[i]
      /\ f[2] # Empty => LinesOf(f)[Len(lines) + 1] = f[2]
  BY LinesOfFile
<1>9. /\ Len(SyncedLines) = IF disk[2] = Empty THEN first ELSE first + 1
      /\ disk[2] # Empty => SyncedLines[first + 1] = disk[2]
  BY LinesOfFile DEF FileShape, SyncedLines
<1>10. disk[2] # Empty => After(first) # Empty
  BY <1>3, <1>8, KindsDiffer
<1>11. After(n) # Empty => n + 1 <= Len(LinesOf(f)) /\ LinesOf(f)[n + 1] = After(n)
  BY <1>3, <1>4, <1>8
<1>12. Base(n) # Empty => n + 1 <= Len(SyncedLines) /\ SyncedLines[n + 1] = Base(n)
  BY <1>3, <1>4, <1>9
<1>13. n = first /\ disk[2] # Empty => t # Empty
  BY <1>2, <1>10
<1> HIDE DEF After, Base, Cut
<1>14. Len(SyncedLines) <= Len(LinesOf(g))
  BY <1>3, <1>4, <1>7, <1>9, <1>13
<1>15. ASSUME NEW j \in 1 .. Len(LinesOf(g))
       PROVE  \/ LinesOf(g)[j] = Garbage
              \/ j <= Len(LinesOf(f)) /\ LinesOf(g)[j] = LinesOf(f)[j]
              \/ j <= Len(SyncedLines) /\ LinesOf(g)[j] = SyncedLines[j]
  <2>1. CASE j <= n
    <3>1. j \in 1 .. n /\ j \in 1 .. Len(lines) /\ j <= Len(LinesOf(f))
      BY <1>3, <1>4, <1>7, <1>8, <2>1
    <3> QED
      BY <1>7, <1>8, <3>1
  <2>2. CASE j > n
    <3>1. j = n + 1 /\ t # Empty
      BY <1>4, <1>7, <2>2
    <3> QED
      BY <1>2, <1>7, <1>11, <1>12, <3>1
  <2> QED
    BY <2>1, <2>2, <1>4, <1>7
<1> QED
  BY <1>a, <1>4, <1>6, <1>7, <1>14, <1>15

LEMMA PowerMoves ==
    ASSUME FileShape, Writing \in SoundLine, "power" \in failures,
           NEW f \in Remains(Writing), NEW g \in OnDisk(f),
           closed' = g[1], tail' = g[2], disk' = g, UNCHANGED failures
    PROVE  /\ FileShape' /\ LogMoves
           /\ Len(closed') \in 0 .. Len(f[1]) /\ Len(f[1]) \in 0 .. Len(closed) + 1
<1>1. /\ IsFile(f) /\ Len(closed) \in Nat
      /\ Len(f[1]) \in Len(closed) .. Len(closed) + 1
      /\ \A i \in 1 .. Len(closed) : f[1][i] = closed[i]
      /\ Len(Lines) <= Len(LinesOf(f))
      /\ \A j \in 1 .. Len(LinesOf(f)) :
            \/ LinesOf(f)[j] = Garbage
            \/ j <= Len(Lines) /\ LinesOf(f)[j] = Lines[j]
            \/ j > Len(Lines) /\ LinesOf(f)[j] = Writing
  BY RemainsLines
<1>2. /\ Len(Lines) \in Nat /\ Len(LinesOf(f)) \in Nat /\ Len(disk[1]) \in Nat
      /\ Len(disk[1]) <= Len(closed)
  BY <1>1, SyncedIsPart, LinesOfFile DEF FileShape
<1>3. /\ Len(disk[1]) <= Len(f[1])
      /\ \A i \in 1 .. Len(disk[1]) : f[1][i] = disk[1][i]
      /\ disk[2] # Empty => Len(disk[1]) < Len(LinesOf(f))
  BY <1>1, <1>2 DEF FileShape
<1>4. /\ IsFile(g) /\ g = << g[1], g[2] >>
      /\ Len(g[1]) <= Len(f[1])
      /\ Len(SyncedLines) <= Len(LinesOf(g))
      /\ \A j \in 1 .. Len(LinesOf(g)) :
            \/ LinesOf(g)[j] = Garbage
            \/ j <= Len(LinesOf(f)) /\ LinesOf(g)[j] = LinesOf(f)[j]
            \/ j <= Len(SyncedLines) /\ LinesOf(g)[j] = SyncedLines[j]
  BY <1>1, <1>3, OnDiskLines
<1>5. /\ Lines' = LinesOf(g) /\ SyncedLines' = LinesOf(g)
      /\ Sure = SyncedLines /\ Sure' = LinesOf(g)
  BY <1>4 DEF Lines, SyncedLines, LinesOf, Sure
<1>6. Descends(LinesOf(g))
  <2>1. ASSUME NEW j \in 1 .. Len(LinesOf(g))
        PROVE  \/ LinesOf(g)[j] = Garbage
               \/ j <= Len(Lines) /\ LinesOf(g)[j] = Lines[j]
               \/ j <= Len(SyncedLines) /\ LinesOf(g)[j] = SyncedLines[j]
               \/ j > Len(Lines) /\ LinesOf(g)[j] = Writing
    <3>1. CASE j <= Len(LinesOf(f)) /\ LinesOf(g)[j] = LinesOf(f)[j]
      <4>1. j \in 1 .. Len(LinesOf(f))
        BY <1>2, <2>1, <3>1
      <4> QED
        BY <1>1, <3>1, <4>1
    <3> QED
      BY <1>4, <2>1, <3>1
  <2> QED
    BY <1>5, <2>1 DEF Descends
<1>7. FileShape'
  <2>1. /\ Len(g[1]) \in Nat
        /\ g[2] # Empty => /\ Len(LinesOf(g)) = Len(g[1]) + 1
                           /\ LinesOf(g)[Len(g[1]) + 1] = g[2]
    BY <1>4, LinesOfFile
  <2>2. IsFile(<< closed', tail' >>) /\ IsFile(disk')
    BY <1>4
  <2> QED
    BY <1>5, <2>1, <2>2 DEF FileShape
<1> QED
  BY <1>1, <1>2, <1>4, <1>5, <1>6, <1>7, LinesOfFile DEF LogMoves

LEMMA WritingIsALine ==
    ASSUME ProgressShape
    PROVE  /\ Writing \in SoundLine
           /\ pending # << >> => /\ Head(pending) \in Sound /\ Writing = Head(pending)
                                /\ Len(pending) \in Nat \ {0} /\ pending[1] = Head(pending)
                                /\ Tail(pending) \in Seq(Sound)
                                /\ Len(Tail(pending)) = Len(pending) - 1
                                /\ \A i \in 1 .. Len(pending) - 1 : Tail(pending)[i] = pending[i + 1]
           /\ pending = << >> => Writing = Garbage /\ Len(pending) = 0
  BY DEF ProgressShape, Writing, SoundLine

Stops == Restart \/ Crash \/ PowerLoss

\* The steps that only read the file.
Reads ==
    \/ Open \/ ReplayLine \/ Opened \/ Answer
    \/ \E events, confirms : Begin(events, confirms)

LEMMA RequestsBegin ==
    ASSUME \/ \E d \in Devices, s \in Secrets : Register(d, s) \/ RotateCredential(d, s)
           \/ \E k \in Keys, c \in Contents : Publish(k, c)
           \/ \E batch \in BoundedSeq(Envelope, MaxBatch), t \in Instants : Ingest(batch, t)
    PROVE  \E events, confirms : Begin(events, confirms)
<1>1. CASE \E d \in Devices, s \in Secrets : Register(d, s) \/ RotateCredential(d, s)
  <2>1. PICK d \in Devices, s \in Secrets : Register(d, s) \/ RotateCredential(d, s)
    BY <1>1
  <2>2. \E e : BeginRecord(e)
    BY <2>1 DEF Register, RotateCredential
  <2> QED
    BY <2>2 DEF BeginRecord
<1>2. CASE \E k \in Keys, c \in Contents : Publish(k, c)
  BY <1>2 DEF Publish
<1>3. CASE \E batch \in BoundedSeq(Envelope, MaxBatch), t \in Instants : Ingest(batch, t)
  BY <1>3 DEF Ingest
<1> QED
  BY <1>1, <1>2, <1>3

LEMMA StepKinds ==
    ASSUME [StoreNext]_storeVars
    PROVE  Reads \/ AppendOk \/ AppendErr \/ Stops \/ UNCHANGED storeVars
  BY RequestsBegin DEF StoreNext, StoreStep, StoreFailure, Reads, Stops

\* Every step of the store does to the file what LogMoves says.
LEMMA StepMoves ==
    ASSUME FileShape, ProgressShape,
           Reads \/ AppendOk \/ AppendErr \/ Stops \/ UNCHANGED storeVars
    PROVE  /\ FileShape' /\ LogMoves
           /\ Len(closed') \in Nat /\ Len(closed') + Len(pending') <= MaxEvents
<1>1. Writing \in SoundLine /\ Len(pending) \in Nat
  BY WritingIsALine DEF ProgressShape
<1>2. Len(closed) \in Nat /\ Len(closed) + Len(pending) <= MaxEvents /\ MaxEvents \in Nat
  BY LimitsAssumption DEF FileShape, IsFile, ProgressShape
<1>3. pending # << >> => Writing = Head(pending) /\ Len(pending) \in Nat \ {0}
  BY WritingIsALine
<1>4. << closed, tail >> \in Remains(Writing)
  BY DEF Remains
<1>5. LeftBehind \subseteq Remains(Writing)
  BY <1>3, <1>4 DEF LeftBehind
<1>6. ASSUME UNCHANGED << file, failures >>
      PROVE  FileShape' /\ LogMoves /\ closed' = closed
  <2>1. << closed', tail' >> \in Remains(Writing) /\ UNCHANGED << disk, failures, closed >>
    BY <1>4, <1>6 DEF file
  <2> QED
    BY <1>1, <2>1, WriteMoves
<1>7. CASE Reads \/ UNCHANGED storeVars \/ Restart
  <2>1. UNCHANGED << file, failures >>
    BY <1>7 DEF Reads, Open, ReplayLine, Opened, Answer, Begin, Restart, Stopped, storeVars
  <2>2. UNCHANGED pending \/ Len(closed) + Len(pending') <= MaxEvents \/ pending' = << >>
    BY <1>7 DEF Reads, Open, ReplayLine, Opened, Answer, Begin, Restart, Stopped, storeVars, progress
  <2> QED
    BY <1>2, <1>1, <1>6, <2>1, <2>2
<1>8. CASE AppendOk
  <2>1. /\ closed' = Append(closed, Glued(Writing)) /\ tail' = Empty
        /\ disk' = << closed', Empty >> /\ pending' = Tail(pending) /\ UNCHANGED failures
        /\ pending # << >>
    BY <1>3, <1>8 DEF AppendOk
  <2>2. << closed', tail' >> \in Remains(Writing)
    BY <2>1 DEF Remains
  <2>3. Len(closed') = Len(closed) + 1
    BY <2>1 DEF FileShape, IsFile
  <2>4. FileShape' /\ LogMoves
    BY <1>1, <2>1, <2>2, <2>3, WriteMoves
  <2>5. Len(pending') = Len(pending) - 1
    BY <2>1, WritingIsALine
  <2> QED
    BY <1>1, <1>2, <2>3, <2>4, <2>5
<1>9. CASE AppendErr \/ Crash
  <2>1. PICK f \in Remains(Writing) : closed' = f[1] /\ tail' = f[2]
    BY <1>3, <1>5, <1>9 DEF AppendErr, Crash, FileBecomes
  <2>2. UNCHANGED << disk, failures >> /\ pending' = << >>
    BY <1>9 DEF AppendErr, Crash, Stopped
  <2>3. << closed', tail' >> \in Remains(Writing)
    BY <2>1 DEF Remains
  <2>4. FileShape' /\ LogMoves /\ Len(closed') \in Len(closed) .. Len(closed) + 1
    BY <1>1, <2>2, <2>3, WriteMoves
  <2>5. closed' = closed \/ Len(pending) >= 1
    BY <1>3, <1>9, <1>1 DEF AppendErr, Crash, LeftBehind, FileBecomes
  <2> QED
    BY <1>1, <1>2, <2>2, <2>4, <2>5
<1>10. CASE PowerLoss
  <2>1. PICK f \in LeftBehind :
             \E g \in OnDisk(f) : closed' = g[1] /\ tail' = g[2] /\ disk' = g
    BY <1>10 DEF PowerLoss, FileBecomes
  <2>2. PICK g \in OnDisk(f) : closed' = g[1] /\ tail' = g[2] /\ disk' = g
    BY <2>1
  <2>3. "power" \in failures /\ UNCHANGED failures /\ pending' = << >>
    BY <1>10 DEF PowerLoss, Stopped
  <2>4. f \in Remains(Writing)
    BY <1>5
  <2>5. /\ FileShape' /\ LogMoves
        /\ Len(closed') \in 0 .. Len(f[1]) /\ Len(f[1]) \in 0 .. Len(closed) + 1
    BY <1>1, <2>2, <2>3, <2>4, PowerMoves
  <2>6. f[1] = closed \/ Len(pending) >= 1
    BY <1>1, <1>3 DEF LeftBehind
  <2> QED
    BY <1>1, <1>2, <2>3, <2>5, <2>6
<1> QED
  BY <1>7, <1>8, <1>9, <1>10 DEF Stops

-----------------------------------------------------------------------------
(* What an event does to the memory.                                       *)

Effect(e) ==
    /\ e.kind = "reading" =>
          /\ DOMAIN readings' = DOMAIN readings \cup {Key(e.reading)}
          /\ \A k \in DOMAIN readings' :
                readings'[k] = IF k = Key(e.reading) THEN e.reading.value ELSE readings[k]
          /\ DOMAIN devices' = DOMAIN devices
          /\ \A d \in DOMAIN devices :
                devices'[d] = IF d = e.reading.device
                              THEN [devices[d] EXCEPT !.seen = {<< e.reading.id, e.received >>}]
                              ELSE devices[d]
    /\ e.kind = "device" =>
          /\ DOMAIN devices' = DOMAIN devices \cup {e.device}
          /\ \A d \in DOMAIN devices' : devices'[d] = IF d = e.device THEN e ELSE devices[d]
    /\ e.kind = "published" =>
          /\ DOMAIN published' = DOMAIN published \cup {e.key}
          /\ \A k \in DOMAIN published' :
                published'[k] = IF k = e.key THEN e.content ELSE published[k]
    /\ e.kind # "reading" => readings' = readings
    /\ e.kind = "published" => devices' = devices
    /\ e.kind # "published" => published' = published

LEMMA ApplyEffect ==
    ASSUME NEW e \in Event, MemoryBecomes(Apply(Current, e))
    PROVE  Effect(e)
<1>1. CASE e.kind = "device"
  BY <1>1 DEF Apply, MemoryBecomes, Current, Effect, With
<1>2. CASE e.kind = "reading"
  BY <1>2 DEF Apply, MemoryBecomes, Current, Effect, With
<1>3. CASE e.kind = "published"
  BY <1>3 DEF Apply, MemoryBecomes, Current, Effect, With
<1> QED
  BY <1>1, <1>2, <1>3, KindsDiffer

LEMMA PartialGrows ==
    ASSUME NEW A, NEW B, NEW f \in Partial(A, B), NEW g, NEW a \in A, NEW b \in B,
           g = [x \in DOMAIN g |-> g[x]], DOMAIN g = DOMAIN f \cup {a},
           \A x \in DOMAIN g : g[x] = IF x = a THEN b ELSE f[x]
    PROVE  g \in Partial(A, B)
  BY DEF Partial

LEMMA EventFields ==
    ASSUME NEW e \in Sound
    PROVE  /\ e.kind = "reading" =>
                 /\ e.reading \in Reading /\ e.reading.value \in Values \ Invalid
                 /\ Key(e.reading) \in Devices \X Ids /\ e.received \in Instants
                 /\ {<< e.reading.id, e.received >>} \in Seen
           /\ e.kind = "device" => e \in Record /\ e.device \in Devices
           /\ e.kind = "published" => e.key \in Keys /\ e.content \in Contents
  BY DEF Sound, Event, Record, Reading, Key, Seen

LEMMA ApplyKeepsShape ==
    ASSUME MemoryShape, NEW e \in Sound, MemoryBecomes(Apply(Current, e))
    PROVE  MemoryShape' /\ Effect(e)
<1>1. Effect(e)
  BY ApplyEffect DEF Sound
<1>2. CASE e.kind = "reading"
  <2>1. readings' \in Partial(Devices \X Ids, Values \ Invalid)
    <3>1. readings' = [x \in DOMAIN readings' |-> readings'[x]]
      BY <1>2 DEF MemoryBecomes, Apply, Current, With
    <3>2. /\ readings \in Partial(Devices \X Ids, Values \ Invalid)
          /\ Key(e.reading) \in Devices \X Ids /\ e.reading.value \in Values \ Invalid
          /\ DOMAIN readings' = DOMAIN readings \cup {Key(e.reading)}
          /\ \A k \in DOMAIN readings' :
                readings'[k] = IF k = Key(e.reading) THEN e.reading.value ELSE readings[k]
      BY <1>1, <1>2, EventFields DEF Effect, MemoryShape
    <3> QED
      BY <3>1, <3>2, PartialGrows
  <2>2. \A d \in DOMAIN devices' : devices'[d] \in Record /\ devices'[d].device = d
    BY <1>1, <1>2, EventFields DEF Effect, MemoryShape, Record
  <2> QED
    BY <1>1, <1>2, <2>1, <2>2 DEF Effect, MemoryShape
<1>3. CASE e.kind = "device"
  <2>1. e \in Record /\ e.device \in Devices
    BY <1>3, EventFields
  <2>2. /\ DOMAIN devices' = DOMAIN devices \cup {e.device}
        /\ \A d \in DOMAIN devices' : devices'[d] = IF d = e.device THEN e ELSE devices[d]
        /\ UNCHANGED << readings, published >>
    BY <1>1, <1>3 DEF Effect
  <2>3. DOMAIN devices' \in SUBSET Devices
    BY <2>1, <2>2 DEF MemoryShape
  <2>4. ASSUME NEW d \in DOMAIN devices'
        PROVE  devices'[d] \in Record /\ devices'[d].device = d
    BY <2>1, <2>2 DEF MemoryShape
  <2> QED
    BY <1>1, <2>2, <2>3, <2>4 DEF MemoryShape
<1>4. CASE e.kind = "published"
  <2>1. published' \in Partial(Keys, Contents)
    <3>1. published' = [x \in DOMAIN published' |-> published'[x]]
      BY <1>4 DEF MemoryBecomes, Apply, Current, With
    <3>2. /\ published \in Partial(Keys, Contents) /\ e.key \in Keys /\ e.content \in Contents
          /\ DOMAIN published' = DOMAIN published \cup {e.key}
          /\ \A k \in DOMAIN published' :
                published'[k] = IF k = e.key THEN e.content ELSE published[k]
      BY <1>1, <1>4, EventFields DEF Effect, MemoryShape
    <3> QED
      BY <3>1, <3>2, PartialGrows
  <2> QED
    BY <1>1, <1>4, <2>1 DEF Effect, MemoryShape
<1> QED
  BY <1>1, <1>2, <1>3, <1>4, KindsDiffer DEF Sound

-----------------------------------------------------------------------------
(* What validation lets through.                                           *)

RequestBegins ==
    \E events \in Seq(Sound), confirms \in SUBSET (Reading \cup Credential) :
        /\ Begin(events, confirms) /\ Len(events) <= MaxBatch
        /\ EventsFit(events) /\ \A f \in confirms : Met(f, events)
        /\ "io" \notin failures => InBounds(KeysIn(events) \cup DOMAIN readings)

LEMMA LeastNatural ==
    ASSUME NEW S \in SUBSET Nat, S # {}
    PROVE  \E x \in S : \A y \in S : x <= y
<1> DEFINE R == OpToRel(<, Nat)
<1>1. IsWellFoundedOn(R, Nat)
  BY NatLessThanWellFounded
<1>2. R = {ss \in Nat \X Nat : ss[1] < ss[2]}
  BY DEF OpToRel
<1> HIDE DEF R
<1>3. PICK x \in S : \A y \in S : ~ (<< y, x >> \in R)
  BY <1>1, WFMin
<1>4. ASSUME NEW y \in S PROVE x <= y
  <2>1. ~ (y < x)
    BY <1>2, <1>3
  <2> QED
    BY <2>1
<1> QED
  BY <1>4

LEMMA BoundedSequences ==
    ASSUME NEW S, NEW n \in Nat, NEW s \in BoundedSeq(S, n)
    PROVE  s \in Seq(S) /\ Len(s) \in 0 .. n
  BY DEF BoundedSeq, SeqOf

\* The identities of a batch that are not stored yet fit, each under the first
\* entry that bears it.
LEMMA UnseenCovers ==
    ASSUME NEW batch \in Seq(Envelope), ~ Conflicts(batch), NEW i \in 1 .. Len(batch)
    PROVE  \/ InMemory(batch[i].reading)
           \/ \E j \in Unseen(batch) : batch[j].reading = batch[i].reading
<1> DEFINE r == batch[i].reading
           S == {j \in 1 .. Len(batch) : Key(batch[j].reading) = Key(r)}
<1>1. PICK j \in S : \A k \in S : j <= k
  <2>1. i \in S /\ S \in SUBSET Nat
    OBVIOUS
  <2> QED
    BY <2>1, LeastNatural
<1>2. j \in 1 .. Len(batch) /\ j <= i /\ Key(batch[j].reading) = Key(r) /\ ~ Repeats(batch, j)
  BY <1>1 DEF Repeats
<1>3. batch[i].reading \in Reading /\ batch[j].reading \in Reading
  <2>1. batch[i] \in Envelope /\ batch[j] \in Envelope
    BY <1>2
  <2> QED
    BY <2>1 DEF Envelope
<1>4. j = i \/ batch[j].reading.value = r.value
  BY <1>2 DEF Conflicts
<1>5. batch[j].reading = r
  BY <1>2, <1>3, <1>4 DEF Reading, Key
<1>6. CASE Stored(r)
  BY <1>6 DEF Conflicts, InMemory
<1>7. CASE ~ Stored(r)
  <2>1. j \in Unseen(batch)
    BY <1>2, <1>5, <1>7 DEF Unseen
  <2> QED
    BY <1>5, <2>1
<1> QED
  BY <1>6, <1>7

LEMMA RoomForBatch ==
    ASSUME NEW batch \in Seq(Envelope), IsFiniteSet(DOMAIN readings), Fits(batch)
    PROVE  InBounds({Key(batch[i].reading) : i \in Unseen(batch)} \cup DOMAIN readings)
<1> DEFINE U == Unseen(batch)
           f == [i \in U |-> Key(batch[i].reading)]
           K == {Key(batch[i].reading) : i \in U}
<1>1. IsFiniteSet(U)
  <2>1. U \in SUBSET (1 .. Len(batch)) /\ Len(batch) \in Int /\ 1 \in Int
    BY DEF Unseen
  <2> QED
    BY <2>1, FS_Interval, FS_Subset
<1>2. f \in Surjection(U, K)
  BY DEF Surjection
<1>3. IsFiniteSet(K) /\ Cardinality(K) <= Cardinality(U)
  BY <1>1, <1>2, FS_Surjection
<1>4. K \cap DOMAIN readings \in SUBSET K
  OBVIOUS
<1>5. /\ Cardinality(U) \in Nat /\ Cardinality(K) \in Nat /\ Cardinality(DOMAIN readings) \in Nat
      /\ Cardinality(K \cap DOMAIN readings) \in Nat
  BY <1>1, <1>3, <1>4, FS_Subset, FS_CardinalityType
<1>6. /\ IsFiniteSet(K \cup DOMAIN readings)
      /\ Cardinality(K \cup DOMAIN readings) =
            Cardinality(K) + Cardinality(DOMAIN readings) - Cardinality(K \cap DOMAIN readings)
  BY <1>3, FS_Union
<1>7. Cardinality(DOMAIN readings) + Cardinality(U) <= MaxStored /\ MaxStored \in Nat
  BY LimitsAssumption DEF Fits
<1> HIDE DEF K, U
<1>8. Cardinality(K \cup DOMAIN readings) <= MaxStored
  BY <1>3, <1>5, <1>6, <1>7
<1> QED
  BY <1>6, <1>8 DEF InBounds, K, U

LEMMA BatchBegins ==
    ASSUME StoreInductive, phase = "serving", NEW batch \in BoundedSeq(Envelope, MaxBatch),
           NEW t \in Instants, Ingest(batch, t)
    PROVE  RequestBegins
<1>1. batch \in Seq(Envelope) /\ Len(batch) \in 0 .. MaxBatch /\ MaxBatch \in Nat
  BY LimitsAssumption, BoundedSequences
<1>2. /\ ~ Conflicts(batch) /\ Fits(batch)
      /\ \A i \in 1 .. Len(batch) : batch[i].reading \in Reading
                                  /\ batch[i].reading.value \notin Invalid
  <2>1. ~ Conflicts(batch) /\ Fits(batch) /\ \A i \in DOMAIN batch : batch[i].reading.value \notin Invalid
    BY DEF Ingest, Acceptable
  <2>2. DOMAIN batch = 1 .. Len(batch) /\ \A i \in 1 .. Len(batch) : batch[i] \in Envelope
    BY <1>1
  <2>3. \A x \in Envelope : x.reading \in Reading
    BY DEF Envelope
  <2> QED
    BY <2>1, <2>2, <2>3
<1>3. PICK order \in BoundedSeq(Unseen(batch), Len(batch)) :
        /\ Range(order) = Unseen(batch)
        /\ \A i, j \in DOMAIN order : i < j => order[i] < order[j]
        /\ Begin([i \in DOMAIN order |-> ReadingAccepted(batch[order[i]].reading, t)],
                 {batch[i].reading : i \in DOMAIN batch})
  BY DEF Ingest
<1>4. order \in Seq(Unseen(batch)) /\ Len(order) \in 0 .. Len(batch) /\ Len(batch) \in Nat
  BY <1>1, <1>3, BoundedSequences
<1> DEFINE events == [i \in DOMAIN order |-> ReadingAccepted(batch[order[i]].reading, t)]
           confirms == {batch[i].reading : i \in DOMAIN batch}
<1>5. /\ DOMAIN order = 1 .. Len(order)
      /\ \A i \in 1 .. Len(order) : order[i] \in Unseen(batch) /\ order[i] \in 1 .. Len(batch)
  BY <1>1, <1>4 DEF Unseen
<1>6. /\ Len(events) = Len(order)
      /\ \A i \in 1 .. Len(order) : /\ events[i] = ReadingAccepted(batch[order[i]].reading, t)
                                   /\ events[i].kind = "reading"
                                   /\ events[i].reading = batch[order[i]].reading
                                   /\ events[i] \in Sound
  <2>1. Len(events) = Len(order)
    BY <1>4, <1>5
  <2>2. ASSUME NEW i \in 1 .. Len(order)
        PROVE  /\ events[i] = ReadingAccepted(batch[order[i]].reading, t)
               /\ events[i].kind = "reading"
               /\ events[i].reading = batch[order[i]].reading
               /\ events[i] \in Sound
    BY <1>2, <1>5, <2>2 DEF ReadingAccepted, Sound, Event
  <2> QED
    BY <2>1, <2>2
<1>7. events \in Seq(Sound)
  BY <1>4, <1>5, <1>6
<1>8. confirms \in SUBSET (Reading \cup Credential) /\ Begin(events, confirms)
  BY <1>1, <1>2, <1>3
<1> HIDE DEF events
<1>9. EventsFit(events)
  <2>1. \A i \in 1 .. Len(order) : ~ Stored(events[i].reading)
    BY <1>5, <1>6 DEF Unseen
  <2>2. ASSUME NEW i \in 1 .. Len(order), NEW j \in 1 .. Len(order), i < j
        PROVE  Key(events[i].reading) # Key(events[j].reading)
    <3>1. order[i] \in 1 .. order[j] - 1 /\ order[j] \in Unseen(batch)
      BY <1>1, <1>3, <1>5, <2>2
    <3> QED
      BY <1>6, <3>1 DEF Unseen, Repeats
  <2>3. \A i, j \in 1 .. Len(order) : Key(events[i].reading) = Key(events[j].reading) => i = j
    BY <1>4, <2>2
  <2> QED
    BY <1>6, <2>1, <2>3 DEF EventsFit
<1>10. ASSUME NEW f \in confirms
       PROVE  Met(f, events)
  <2>1. PICK i \in 1 .. Len(batch) : f = batch[i].reading
    BY <1>1
  <2>2. f \in Reading /\ f \notin Credential
    BY <1>2, <2>1 DEF Reading, Credential
  <2>3. CASE InMemory(f)
    BY <2>2, <2>3 DEF Met
  <2>4. CASE ~ InMemory(f)
    <3>1. PICK j \in Unseen(batch) : batch[j].reading = f
      BY <1>1, <1>2, <2>1, <2>4, UnseenCovers
    <3>2. PICK k \in 1 .. Len(order) : order[k] = j
      BY <1>3, <1>5, <3>1 DEF Range
    <3> QED
      BY <1>6, <2>2, <3>1, <3>2 DEF Met
  <2> QED
    BY <2>3, <2>4
<1>11. "io" \notin failures => InBounds(KeysIn(events) \cup DOMAIN readings)
  <2>1. KeysIn(events) = {Key(batch[i].reading) : i \in Unseen(batch)}
    <3>1. KeysIn(events) = {Key(batch[order[i]].reading) : i \in 1 .. Len(order)}
      BY <1>6 DEF KeysIn
    <3>2. Unseen(batch) = {order[i] : i \in 1 .. Len(order)}
      BY <1>3, <1>5 DEF Range
    <3> QED
      BY <3>1, <3>2
  <2>2. "io" \notin failures => IsFiniteSet(DOMAIN readings)
    BY FS_Subset DEF StoreInductive, Bounded, InBounds
  <2> QED
    BY <1>1, <1>2, <2>1, <2>2, RoomForBatch
<1>12. Len(events) <= MaxBatch
  BY <1>1, <1>4, <1>6
<1> HIDE DEF confirms
<1> QED
  BY <1>7, <1>8, <1>9, <1>10, <1>11, <1>12, Zenon DEF RequestBegins

\* A request of one event.
LEMMA OneEvent ==
    ASSUME StoreInductive, NEW e \in Sound
    PROVE  /\ << e >> \in Seq(Sound) /\ Len(<< e >>) = 1 /\ << e >>[1] = e /\ 1 <= MaxBatch
           /\ e.kind # "reading" /\ "io" \notin failures =>
                 InBounds(KeysIn(<< e >>) \cup DOMAIN readings)
<1>1. << e >> \in Seq(Sound) /\ Len(<< e >>) = 1 /\ << e >>[1] = e /\ 1 <= MaxBatch
  BY LimitsAssumption
<1>2. ASSUME e.kind # "reading", "io" \notin failures
      PROVE  InBounds(KeysIn(<< e >>) \cup DOMAIN readings)
  <2> DEFINE S == LogKeys \cup KeysIn(pending) \cup DOMAIN readings
  <2>1. KeysIn(<< e >>) \cup DOMAIN readings \in SUBSET S
    BY <1>1, <1>2 DEF KeysIn
  <2>2. IsFiniteSet(S) /\ Cardinality(S) <= MaxStored
    BY <1>2 DEF StoreInductive, Bounded, InBounds
  <2> HIDE DEF S
  <2> DEFINE T == KeysIn(<< e >>) \cup DOMAIN readings
  <2>3. T \in SUBSET S
    BY <2>1
  <2> HIDE DEF T
  <2>4. IsFiniteSet(T) /\ Cardinality(T) <= Cardinality(S) /\ Cardinality(T) \in Nat /\ Cardinality(S) \in Nat
    BY <2>2, <2>3, FS_Subset, FS_CardinalityType
  <2>5. Cardinality(T) <= MaxStored
    BY <2>2, <2>4, LimitsAssumption
  <2> QED
    BY <2>4, <2>5 DEF InBounds, T
<1> QED
  BY <1>1, <1>2

\* A credential that follows everything confirmed of its device.
LEMMA RecordBegins ==
    ASSUME StoreInductive, NEW e \in Record, BeginRecord(e),
           \A f \in acked \cap Credential : f.device = e.device => f.version < e.version
    PROVE  RequestBegins
<1> DEFINE g == [device |-> e.device, version |-> e.version, secret |-> e.secret]
<1>1. e \in Sound /\ e.kind = "device" /\ g \in Credential /\ g \notin Reading /\ e \in RecordAs(g)
  BY DEF Sound, Event, Record, Credential, Reading, RecordAs
<1>2. Begin(<< e >>, {g})
  BY DEF BeginRecord
<1>3. /\ << e >> \in Seq(Sound) /\ Len(<< e >>) = 1 /\ << e >>[1] = e /\ 1 <= MaxBatch
      /\ "io" \notin failures => InBounds(KeysIn(<< e >>) \cup DOMAIN readings)
  BY <1>1, OneEvent
<1>4. EventsFit(<< e >>)
  BY <1>1, <1>3 DEF EventsFit
<1>5. Met(g, << e >>)
  BY <1>1, <1>3 DEF Met
<1> DEFINE events == << e >>
           confirms == {g}
<1>6. /\ events \in Seq(Sound) /\ confirms \in SUBSET (Reading \cup Credential)
      /\ Begin(events, confirms) /\ Len(events) <= MaxBatch
      /\ EventsFit(events) /\ (\A f \in confirms : Met(f, events))
      /\ "io" \notin failures => InBounds(KeysIn(events) \cup DOMAIN readings)
  BY <1>1, <1>2, <1>3, <1>4, <1>5
<1> HIDE DEF events, confirms
<1> QED
  BY <1>6, Zenon DEF RequestBegins

LEMMA RequestsFit ==
    ASSUME StoreInductive, phase = "serving",
           \/ \E d \in Devices, s \in Secrets : Register(d, s) \/ RotateCredential(d, s)
           \/ \E k \in Keys, c \in Contents : Publish(k, c)
           \/ \E batch \in BoundedSeq(Envelope, MaxBatch), t \in Instants : Ingest(batch, t)
    PROVE  RequestBegins
<1>1. /\ \A f \in acked \cap Credential : InForce(f) /\ f.version \in Nat
      /\ \A d \in DOMAIN devices : devices[d] \in Record /\ devices[d].device = d /\ devices[d].version \in Nat
  BY DEF StoreInductive, CredentialKept, Serving, StoreShape, MemoryShape, Credential, Record
<1>2. ASSUME NEW d \in Devices, NEW s \in Secrets, Register(d, s)
      PROVE  RequestBegins
  <2> DEFINE e == Registration(d, 1, s, {})
  <2>1. e \in Record /\ e.device = d /\ BeginRecord(e) /\ d \notin DOMAIN devices
    BY <1>2 DEF Register, Registration, Record, Seen
  <2> HIDE DEF e
  <2>2. \A f \in acked \cap Credential : f.device # d
    BY <1>1, <2>1 DEF InForce
  <2> QED
    BY <2>1, <2>2, RecordBegins
<1>3. ASSUME NEW d \in Devices, NEW s \in Secrets, RotateCredential(d, s)
      PROVE  RequestBegins
  <2> DEFINE e == Registration(d, devices[d].version + 1, s, devices[d].seen)
  <2>1. d \in DOMAIN devices /\ BeginRecord(e)
    BY <1>3 DEF RotateCredential
  <2>2. e \in Record /\ e.device = d /\ e.version = devices[d].version + 1
    BY <1>1, <2>1 DEF Record, Registration
  <2> HIDE DEF e
  <2>3. ASSUME NEW f \in acked \cap Credential, f.device = e.device PROVE f.version < e.version
    BY <1>1, <2>1, <2>2, <2>3 DEF InForce
  <2> QED
    BY <2>1, <2>2, <2>3, RecordBegins
<1>4. ASSUME NEW k \in Keys, NEW c \in Contents, Publish(k, c)
      PROVE  RequestBegins
  <2> DEFINE e == Publication(k, c)
             events == << e >>
             confirms == {}
  <2>1. e \in Sound /\ e.kind = "published"
    BY DEF Publication, Sound, Event
  <2>2. Begin(events, confirms)
    BY <1>4 DEF Publish
  <2>3. /\ events \in Seq(Sound) /\ Len(events) = 1 /\ events[1] = e /\ 1 <= MaxBatch
        /\ "io" \notin failures => InBounds(KeysIn(events) \cup DOMAIN readings)
    BY <2>1, OneEvent
  <2>4. EventsFit(events)
    BY <2>1, <2>3 DEF EventsFit
  <2>5. confirms \in SUBSET (Reading \cup Credential) /\ \A f \in confirms : Met(f, events)
    OBVIOUS
  <2>6. Len(events) <= MaxBatch
    BY <2>3
  <2> HIDE DEF events, confirms
  <2> QED
    BY <2>2, <2>3, <2>4, <2>5, <2>6, Zenon DEF RequestBegins
<1> QED
  BY <1>2, <1>3, <1>4, BatchBegins

Steps ==
    \/ Open \/ ReplayLine \/ Opened \/ RequestBegins \/ Answer
    \/ AppendOk \/ AppendErr \/ Stops \/ UNCHANGED storeVars

LEMMA StepCases ==
    ASSUME StoreInductive, [StoreNext]_storeVars
    PROVE  /\ Steps /\ FileShape' /\ LogMoves
           /\ Len(closed') \in Nat /\ Len(closed') + Len(pending') <= MaxEvents
<1>1. Steps
  <2>1. ASSUME \E events, confirms : Begin(events, confirms)
        PROVE  phase = "serving"
    BY <2>1 DEF Begin
  <2> QED
    BY <2>1, RequestsBegin, RequestsFit DEF Steps, StoreNext, StoreStep, StoreFailure, Stops
<1>2. FileShape' /\ LogMoves /\ Len(closed') \in Nat /\ Len(closed') + Len(pending') <= MaxEvents
  BY StepMoves, StepKinds DEF StoreInductive, StoreShape
<1> QED
  BY <1>1, <1>2

-----------------------------------------------------------------------------
(* Types.                                                                  *)

LEMMA NothingIsPartial ==
    /\ \A A, B : Nothing \in Partial(A, B)
    /\ DOMAIN Nothing = {}
<1>1. DOMAIN Nothing = {} /\ Nothing = [x \in {} |-> x]
  BY DEF Nothing
<1>2. ASSUME NEW A, NEW B PROVE Nothing \in Partial(A, B)
  <2>1. {} \in SUBSET A /\ Nothing \in [{} -> B]
    BY <1>1
  <2> QED
    BY <2>1 DEF Partial
<1> QED
  BY <1>1, <1>2

LEMMA NoMemoryShape ==
    ASSUME MemoryBecomes(NoMemory)
    PROVE  MemoryShape'
  BY NothingIsPartial DEF MemoryBecomes, NoMemory, MemoryShape

LEMMA ReplayedLine ==
    ASSUME StoreShape, ReplayLine
    PROVE  /\ Lines[replayed + 1] \in SoundLine /\ replayed + 1 \in 1 .. Len(Lines)
           /\ Lines' = Lines /\ phase = "replaying" /\ replayed \in Nat
           /\ \/ /\ Lines[replayed + 1] = Garbage /\ phase' = "unopenable" /\ replayed' = 0
                 /\ MemoryBecomes(NoMemory)
              \/ /\ Lines[replayed + 1] \in Sound /\ phase' = "replaying"
                 /\ replayed' = replayed + 1
                 /\ MemoryBecomes(Apply(Current, Lines[replayed + 1]))
<1>1. Lines \in Seq(SoundLine) /\ Len(Lines) \in Nat
  BY SyncedIsPart DEF StoreShape
<1>2. replayed \in Nat /\ replayed < Len(Lines) /\ phase = "replaying" /\ Lines' = Lines
  BY DEF StoreShape, ProgressShape, ReplayLine, Lines, LinesOf, file
<1>3. replayed + 1 \in 1 .. Len(Lines) /\ Lines[replayed + 1] \in SoundLine
  BY <1>1, <1>2
<1> QED
  BY <1>2, <1>3 DEF ReplayLine, SoundLine

LEMMA AppendedEvent ==
    ASSUME StoreShape, AppendOk
    PROVE  /\ Writing \in Sound /\ Writing = pending[1] /\ Len(pending) \in Nat \ {0}
           /\ pending' = Tail(pending) /\ pending' \in Seq(Sound)
           /\ Len(pending') = Len(pending) - 1
           /\ \A i \in 1 .. Len(pending) - 1 : pending'[i] = pending[i + 1]
           /\ Lines' = Append(closed, Glued(Writing))
           /\ MemoryShape' /\ Effect(Writing)
           /\ phase = "appending" /\ phase' = "appending"
           /\ UNCHANGED << replayed, refused, request, acked, failures >>
<1>1. /\ pending # << >> /\ pending' = Tail(pending) /\ phase = "appending"
      /\ MemoryBecomes(Apply(Current, Head(pending)))
      /\ closed' = Append(closed, Glued(Head(pending))) /\ tail' = Empty
      /\ UNCHANGED << phase, replayed, refused, request, acked, failures >>
  BY DEF AppendOk
<1>2. /\ Head(pending) \in Sound /\ Writing = Head(pending)
      /\ Len(pending) \in Nat \ {0} /\ pending[1] = Head(pending)
      /\ Tail(pending) \in Seq(Sound)
      /\ Len(Tail(pending)) = Len(pending) - 1
      /\ \A i \in 1 .. Len(pending) - 1 : Tail(pending)[i] = pending[i + 1]
  BY <1>1, WritingIsALine DEF StoreShape
<1>3. Lines' = Append(closed, Glued(Writing))
  BY <1>1, <1>2 DEF Lines, LinesOf
<1>4. MemoryShape' /\ Effect(Writing)
  BY <1>1, <1>2, ApplyKeepsShape DEF StoreShape
<1> QED
  BY <1>1, <1>2, <1>3, <1>4

LEMMA ShapeKept ==
    ASSUME StoreInductive, [StoreNext]_storeVars
    PROVE  StoreShape'
<1>1. StoreShape /\ ProgressShape /\ MemoryShape
  BY DEF StoreInductive, StoreShape
<1>2. /\ Steps /\ FileShape' /\ UNCHANGED failures
      /\ Len(closed') \in Nat /\ Len(closed') + Len(pending') <= MaxEvents
  BY StepCases DEF LogMoves
<1>3. Len(Lines') \in Nat /\ 0 \in Nat /\ MaxBatch \in Nat
  <2>1. (FileShape => Len(Lines) \in Nat)'
    BY SureIsPart, PTL
  <2> QED
    BY <1>2, <2>1, LimitsAssumption
<1>4. ASSUME UNCHANGED << pending, accepted, refused, request, acked >>, phase # "appending",
             phase' \in {"replaying", "serving", "unopenable"},
             replayed' \in Nat, replayed' # 0 => phase' = "replaying" /\ replayed' <= Len(Lines')
      PROVE  ProgressShape'
  BY <1>1, <1>2, <1>4 DEF ProgressShape
<1>5. ASSUME pending' = << >>, request' = {}, UNCHANGED acked, accepted' \in {0, accepted},
             refused' \in BOOLEAN, phase' \in {"down", "serving"}, replayed' = 0
      PROVE  ProgressShape'
  <2>1. << >> \in Seq(Sound) /\ Len(<< >>) = 0 /\ Len(pending) \in Nat
    BY <1>1 DEF ProgressShape
  <2>2. /\ phase' \in {"down", "replaying", "serving", "appending", "unopenable"}
          /\ replayed' \in Nat /\ (replayed' # 0 => phase' = "replaying" /\ replayed' <= Len(Lines'))
          /\ pending' \in Seq(Sound)
          /\ accepted' \in Nat /\ accepted' + Len(pending') <= MaxBatch
          /\ (phase' # "appending" => pending' = << >> /\ request' = {})
    <3>1. accepted' \in 0 .. MaxBatch
      BY <1>1, <1>3, <1>5, <2>1 DEF ProgressShape
    <3>2. ASSUME NEW n \in 0 .. MaxBatch PROVE n \in Nat /\ n + Len(<< >>) <= MaxBatch
      BY <1>3, <2>1
    <3>3. accepted' \in Nat /\ accepted' + Len(<< >>) <= MaxBatch /\ pending' = << >>
      BY <1>5, <3>1, <3>2, Zenon
    <3>4. accepted' + Len(pending') <= MaxBatch /\ pending' \in Seq(Sound)
      BY <2>1, <3>3, Zenon
    <3>5. phase' \in {"down", "replaying", "serving", "appending", "unopenable"}
      BY <1>5
    <3>6. replayed' \in Nat /\ replayed' = 0
      BY <1>5
    <3>7. pending' = << >> /\ request' = {}
      BY <1>5
    <3> QED
      BY <3>3, <3>4, <3>5, <3>6, <3>7, Zenon
  <2> QED
    BY <1>1, <1>2, <1>5, <2>2, Zenon DEF ProgressShape
<1>6. CASE Open
  <2>1. ProgressShape'
    BY <1>1, <1>3, <1>4, <1>6 DEF Open, progress
  <2> QED
    BY <1>2, <1>6, <2>1, NoMemoryShape DEF Open, StoreShape
<1>7. CASE ReplayLine
  <2>1. UNCHANGED << pending, accepted, refused, request, acked >>
    BY <1>7 DEF ReplayLine, progress
  <2>2. ProgressShape'
    BY <1>1, <1>3, <1>4, <1>7, <2>1, ReplayedLine
  <2>3. MemoryShape'
    BY <1>1, <1>7, ReplayedLine, NoMemoryShape, ApplyKeepsShape
  <2> QED
    BY <1>2, <2>2, <2>3 DEF StoreShape
<1>8. CASE Opened
  <2>1. ProgressShape'
    BY <1>1, <1>3, <1>4, <1>8 DEF Opened, progress
  <2>2. MemoryShape'
    BY <1>1, <1>8 DEF Opened, memory, MemoryShape
  <2> QED
    BY <1>2, <2>1, <2>2 DEF StoreShape
<1>9. CASE RequestBegins
  <2>1. PICK events \in Seq(Sound), confirms \in SUBSET (Reading \cup Credential) :
          Begin(events, confirms) /\ Len(events) <= MaxBatch
    BY <1>9 DEF RequestBegins
  <2>2. /\ pending' = events /\ request' = confirms /\ accepted' = 0 /\ refused' = FALSE
        /\ phase' = "appending" /\ phase = "serving" /\ UNCHANGED << replayed, memory, acked, failures >>
    BY <2>1 DEF Begin
  <2>3. Len(events) \in Nat /\ replayed = 0
    BY <1>1, <2>2 DEF ProgressShape
  <2>4. /\ phase' \in {"down", "replaying", "serving", "appending", "unopenable"}
          /\ replayed' \in Nat /\ (replayed' # 0 => phase' = "replaying" /\ replayed' <= Len(Lines'))
          /\ pending' \in Seq(Sound)
          /\ accepted' \in Nat /\ accepted' + Len(pending') <= MaxBatch
          /\ (phase' # "appending" => pending' = << >> /\ request' = {})
    BY <1>1, <1>2, <1>3, <2>1, <2>2, <2>3 DEF ProgressShape
  <2>a. refused' \in BOOLEAN /\ request' \in SUBSET (Reading \cup Credential) /\ acked' = acked
    BY <2>1, <2>2, Zenon
  <2>6. ProgressShape'
    BY <1>1, <1>2, <2>4, <2>a, Zenon DEF ProgressShape
  <2>5. MemoryShape'
    BY <1>1, <2>2 DEF memory, MemoryShape
  <2> QED
    BY <1>2, <2>5, <2>6 DEF StoreShape
<1>10. CASE Answer
  <2>1. /\ pending = << >> /\ request' = {} /\ acked' = acked \cup request
        /\ phase' = "serving" /\ phase = "appending"
        /\ UNCHANGED << replayed, pending, accepted, refused, memory >>
    BY <1>10 DEF Answer
  <2>2. replayed = 0
    BY <1>1, <2>1 DEF ProgressShape
  <2>a. /\ phase' \in {"down", "replaying", "serving", "appending", "unopenable"}
          /\ replayed' \in Nat /\ (replayed' # 0 => phase' = "replaying" /\ replayed' <= Len(Lines'))
          /\ pending' \in Seq(Sound)
          /\ accepted' \in Nat /\ accepted' + Len(pending') <= MaxBatch
          /\ (phase' # "appending" => pending' = << >> /\ request' = {})
    BY <1>1, <1>2, <2>1, <2>2 DEF ProgressShape
  <2>b. refused' = refused /\ request' = {} /\ acked' \subseteq Reading \cup Credential
    BY <1>1, <2>1 DEF ProgressShape
  <2>3. ProgressShape'
    BY <1>1, <1>2, <2>a, <2>b, Zenon DEF ProgressShape
  <2>4. MemoryShape'
    BY <1>1, <2>1 DEF memory, MemoryShape
  <2> QED
    BY <1>2, <2>3, <2>4 DEF StoreShape
<1>11. CASE AppendOk
  <2>1. /\ pending' \in Seq(Sound) /\ Len(pending') = Len(pending) - 1 /\ Len(pending) \in Nat
        /\ MemoryShape' /\ phase = "appending" /\ phase' = "appending"
        /\ UNCHANGED << replayed, refused, request, acked >>
    BY <1>1, <1>11, AppendedEvent
  <2>2. accepted' \in {accepted, accepted + 1}
    BY <1>1, <1>11 DEF AppendOk, ProgressShape
  <2>3. replayed = 0
    BY <1>1, <2>1 DEF ProgressShape
  <2>a. /\ phase' \in {"down", "replaying", "serving", "appending", "unopenable"}
          /\ replayed' \in Nat /\ (replayed' # 0 => phase' = "replaying" /\ replayed' <= Len(Lines'))
          /\ pending' \in Seq(Sound)
          /\ accepted' \in Nat /\ accepted' + Len(pending') <= MaxBatch
          /\ (phase' # "appending" => pending' = << >> /\ request' = {})
    <3>1. accepted \in Nat /\ accepted + Len(pending) <= MaxBatch
      BY <1>1 DEF ProgressShape
    <3> QED
      BY <1>3, <2>1, <2>2, <2>3, <3>1
  <2>4. ProgressShape'
    BY <1>1, <1>2, <2>1, <2>a, Zenon DEF ProgressShape
  <2> QED
    BY <1>2, <2>1, <2>4 DEF StoreShape
<1>12. CASE AppendErr
  <2>1. replayed = 0 /\ UNCHANGED replayed
    BY <1>1, <1>12 DEF AppendErr, ProgressShape
  <2>2. ProgressShape'
    BY <1>5, <1>12, <2>1 DEF AppendErr
  <2>3. MemoryShape'
    BY <1>1, <1>12 DEF AppendErr, memory, MemoryShape
  <2> QED
    BY <1>2, <2>2, <2>3 DEF StoreShape
<1>13. CASE Stops
  <2>1. Stopped
    BY <1>13 DEF Stops, Restart, Crash, PowerLoss
  <2>2. ProgressShape'
    BY <1>5, <2>1 DEF Stopped
  <2> QED
    BY <1>2, <2>1, <2>2, NoMemoryShape DEF Stopped, StoreShape
<1>14. CASE UNCHANGED storeVars
  <2>1. Lines' = Lines
    BY <1>14 DEF storeVars, file, Lines, LinesOf
  <2>2. ProgressShape' /\ MemoryShape'
    BY <1>1, <1>14, <2>1 DEF storeVars, file, progress, memory, ProgressShape, MemoryShape
  <2> QED
    BY <1>2, <2>2 DEF StoreShape
<1> QED
  BY <1>2, <1>6, <1>7, <1>8, <1>9, <1>10, <1>11, <1>12, <1>13, <1>14 DEF Steps

-----------------------------------------------------------------------------
(* What is confirmed stays.                                                *)

\* How the store comes to serve, or goes on serving.
LEMMA ServingCases ==
    ASSUME StoreInductive, [StoreNext]_storeVars, Serving'
    PROVE  \/ Opened /\ phase = "replaying" /\ pending = << >>
           \/ AppendOk
           \/ /\ Serving /\ UNCHANGED << devices, readings, published >>
              /\ UNCHANGED << closed, tail, disk >> \/ "io" \in failures
<1>1. Steps
  BY StepCases
<1>2. CASE Opened
  BY <1>2 DEF Opened, StoreInductive, StoreShape, ProgressShape
<1>3. CASE RequestBegins
  BY <1>3 DEF RequestBegins, Begin, memory, file, Serving
<1>4. CASE Answer
  BY <1>4 DEF Answer, memory, file, Serving
<1>5. CASE AppendErr
  BY <1>5 DEF AppendErr, memory, Serving
<1>6. CASE UNCHANGED storeVars
  BY <1>6 DEF storeVars, memory, file, Serving
<1>7. CASE Open \/ ReplayLine \/ Stops
  <2>1. phase' \in {"replaying", "unopenable", "down"}
    BY <1>7 DEF Open, ReplayLine, Stops, Stopped, Restart, Crash, PowerLoss
  <2> QED
    BY <2>1 DEF Serving
<1> QED
  BY <1>1, <1>2, <1>3, <1>4, <1>5, <1>6, <1>7 DEF Steps

LEMMA AckedCases ==
    ASSUME StoreInductive, [StoreNext]_storeVars
    PROVE  \/ acked' = acked
           \/ /\ acked' = acked \cup request /\ pending = << >> /\ phase = "appending"
              /\ \A f \in request : Met(f, << >>)
<1>1. Steps
  BY StepCases
<1>2. CASE Answer
  <2>1. acked' = acked \cup request /\ pending = << >> /\ phase = "appending"
    BY <1>2 DEF Answer
  <2> QED
    BY <2>1 DEF StoreInductive, RequestFits
<1>3. CASE ~ Answer
  BY <1>1, <1>3 DEF Steps, Open, ReplayLine, Opened, RequestBegins, Begin, AppendOk, AppendErr,
                    Stops, Stopped, Restart, Crash, PowerLoss, storeVars
<1> QED
  BY <1>2, <1>3

\* At the end of a replay no line is Garbage, and the memory shows them all.
LEMMA ReplayEnds ==
    ASSUME StoreInductive, Opened
    PROVE  /\ Shows(Current, Lines) /\ \A i \in 1 .. Len(Lines) : Lines[i] # Garbage
           /\ Lines \in Seq(Sound) /\ Len(Lines) \in Nat
           /\ UNCHANGED << devices, readings, published, closed, tail, disk, failures >>
           /\ Lines' = Lines /\ Sure' = Sure
<1>1. phase = "replaying" /\ replayed = Len(Lines)
  BY DEF Opened
<1>2. Lines \in Seq(SoundLine) /\ Len(Lines) \in Nat
  BY SyncedIsPart DEF StoreInductive, StoreShape
<1>3. /\ \A i \in 1 .. Len(Lines) : Lines[i] # Garbage
      /\ Shows(Current, SubSeq(Lines, 1, Len(Lines)))
  BY <1>1 DEF StoreInductive, MemoryShown
<1>4. SubSeq(Lines, 1, Len(Lines)) = Lines
  BY <1>2
<1>5. Lines \in Seq(Sound)
  BY <1>2, <1>3 DEF SoundLine
<1>6. UNCHANGED << devices, readings, published, closed, tail, disk, failures >>
  BY DEF Opened, memory, file
<1>7. Lines' = Lines /\ Sure' = Sure
  BY <1>6 DEF Lines, Sure, SyncedLines, LinesOf
<1> QED
  BY <1>2, <1>3, <1>4, <1>5, <1>6, <1>7

\* The line that has just been synced is firm whatever was there before.
LEMMA AppendedIsFirm ==
    ASSUME StoreInductive, AppendOk, NEW G, NEW B, Writing \in G
    PROVE  Firm(G, B)'
<1>1. Lines' = Append(closed, Glued(Writing)) /\ closed \in Seq(SoundLine)
  BY AppendedEvent DEF StoreInductive, StoreShape, FileShape, IsFile
<1>2. Sure' = Lines'
  BY DEF AppendOk, Sure, SyncedLines, Lines, LinesOf
<1>3. Glued(Writing) \in G \cup {Garbage}
  BY DEF Glued
<1>4. /\ Len(Lines') = Len(closed) + 1 /\ Len(closed) \in Nat
      /\ Lines'[Len(closed) + 1] = Glued(Writing)
  BY <1>1
<1>5. Len(closed) + 1 \in 1 .. Len(Sure')
  BY <1>2, <1>4
<1>6. \A j \in 1 .. Len(Lines') : ~ (j > Len(closed) + 1)
  BY <1>4
<1> QED
  BY <1>2, <1>3, <1>4, <1>5, <1>6 DEF Firm

LEMMA RecordsFirm ==
    ASSUME StoreInductive, [StoreNext]_storeVars, NEW f \in Credential, FirmRecord(f),
           Writing \notin RecordUpTo(f)
    PROVE  FirmRecord(f)'
<1>1. Garbage \notin RecordUpTo(f)
  BY DEF RecordUpTo, Record, Garbage
<1> QED
  BY <1>1, FirmStays, StepCases DEF FirmRecord, StoreInductive, StoreShape

LEMMA ReadingsFirm ==
    ASSUME StoreInductive, [StoreNext]_storeVars, NEW k, NEW v, FirmReading(k, v),
           Writing \notin ReadingAt(k)
    PROVE  FirmReading(k, v)'
<1>1. Garbage \notin ReadingAt(k)
  BY KindsDiffer DEF ReadingAt
<1> QED
  BY <1>1, FirmStays, StepCases DEF FirmReading, StoreInductive, StoreShape

\* What is firm in the log is in a memory that shows the log.
LEMMA ShownInForce ==
    ASSUME Lines \in Seq(Sound), ShowsDevices(Current, Lines), NEW f \in Credential,
           Len(Sure) \in Nat, Len(Sure) <= Len(Lines), FirmRecord(f)
    PROVE  InForce(f)
<1>1. PICK i \in 1 .. Len(Sure) :
        /\ Lines[i] \in RecordAs(f) \cup {Garbage}
        /\ \A j \in 1 .. Len(Lines) : j > i => Lines[j] \notin RecordUpTo(f)
  BY DEF FirmRecord, Firm
<1>2. i \in 1 .. Len(Lines) /\ Len(Lines) \in Nat /\ Lines[i] \in Sound
  BY <1>1
<1>3. Lines[i] \in RecordAs(f)
  BY <1>1, <1>2, KindsDiffer
<1>4. Lines[i].kind = "device" /\ Lines[i].device = f.device
  BY <1>3 DEF RecordAs, Record
<1>5. f.device \in DOMAIN devices
  BY <1>2, <1>4 DEF ShowsDevices, Current
<1>6. PICK j \in 1 .. Len(Lines) :
        /\ Latest(j, RecordLines(Lines, f.device))
        /\ devices[f.device] = [Lines[j] EXCEPT !.seen = devices[f.device].seen]
  <2>1. /\ Current.devices = devices /\ DOMAIN Lines = 1 .. Len(Lines)
    BY DEF Current
  <2> QED
    BY <1>5, <2>1, Zenon DEF ShowsDevices
<1>7. i \in RecordLines(Lines, f.device)
  BY <1>2, <1>4 DEF RecordLines
<1>8. i <= j /\ Lines[j].kind = "device" /\ Lines[j].device = f.device /\ Lines[j] \in Sound
  BY <1>6, <1>7 DEF Latest, RecordLines
<1>9. Lines[j] \in Record
  BY <1>8, EventFields
<1>10. /\ devices[f.device].version = Lines[j].version
       /\ devices[f.device].secret = Lines[j].secret
       /\ Lines[j].version \in Nat /\ f.version \in Nat
  BY <1>6, <1>9 DEF Record, Credential
<1>11. CASE i = j
  BY <1>3, <1>5, <1>10, <1>11 DEF InForce, RecordAs
<1>12. CASE i # j
  <2>1. Lines[j] \notin RecordUpTo(f)
    BY <1>1, <1>2, <1>8, <1>12
  <2> QED
    BY <1>5, <1>8, <1>9, <1>10, <2>1 DEF InForce, RecordUpTo
<1> QED
  BY <1>11, <1>12

LEMMA ShownInMemory ==
    ASSUME Lines \in Seq(Sound), ShowsReadings(Current, Lines), NEW r \in Reading,
           Len(Sure) \in Nat, Len(Sure) <= Len(Lines), FirmReading(Key(r), r.value)
    PROVE  InMemory(r)
<1> DEFINE k == Key(r)
<1>1. PICK i \in 1 .. Len(Sure) :
        /\ Lines[i] \in ReadingOf(k, r.value) \cup {Garbage}
        /\ \A j \in 1 .. Len(Lines) : j > i => Lines[j] \notin ReadingAt(k)
  BY DEF FirmReading, Firm
<1>2. i \in 1 .. Len(Lines) /\ Len(Lines) \in Nat /\ Lines[i] \in Sound
  BY <1>1
<1>3. Lines[i].kind = "reading" /\ Key(Lines[i].reading) = k /\ Lines[i].reading.value = r.value
  BY <1>1, <1>2, KindsDiffer DEF ReadingOf, ReadingAt
<1> HIDE DEF k
<1>4. k \in DOMAIN readings
  BY <1>2, <1>3 DEF ShowsReadings, Current
<1>5. PICK j \in 1 .. Len(Lines) :
        Latest(j, ReadingLines(Lines, k)) /\ readings[k] = Lines[j].reading.value
  BY <1>4 DEF ShowsReadings, Current
<1>6. i \in ReadingLines(Lines, k)
  BY <1>2, <1>3 DEF ReadingLines
<1>7. i <= j /\ Lines[j] \in ReadingAt(k)
  BY <1>5, <1>6, KindsDiffer DEF Latest, ReadingLines, ReadingAt
<1>8. i = j
  BY <1>1, <1>2, <1>7
<1> QED
  BY <1>3, <1>4, <1>5, <1>8 DEF InMemory, Stored, k

\* An event replaces no reading, and no credential but by a newer one.
LEMMA EventsAreNews ==
    ASSUME StoreInductive, pending # << >>
    PROVE  /\ Writing.kind = "reading" => ~ Stored(Writing.reading)
           /\ \A f \in acked \cap Credential : Writing \notin RecordUpTo(f)
<1>1. Writing \in Sound /\ Writing = pending[1] /\ 1 \in 1 .. Len(pending)
  BY WritingIsALine DEF StoreInductive, StoreShape
<1>2. EventsFit(pending)
  BY DEF StoreInductive, RequestFits
<1>3. Writing.kind = "reading" => ~ Stored(Writing.reading)
  BY <1>1, <1>2 DEF EventsFit
<1>4. ASSUME NEW f \in acked \cap Credential, Writing \in RecordUpTo(f)
      PROVE  FALSE
  <2>1. Writing.kind = "device" /\ Writing.device = f.device /\ Writing.version <= f.version
    BY <1>4 DEF RecordUpTo, Record
  <2>2. f.version < Writing.version
    BY <1>1, <1>2, <2>1 DEF EventsFit
  <2>3. f.version \in Nat /\ Writing.version \in Nat
    BY <1>4 DEF RecordUpTo, Record, Credential
  <2> QED
    BY <2>1, <2>2, <2>3
<1> QED
  BY <1>3, <1>4

LEMMA AppendKeeps ==
    ASSUME StoreInductive, AppendOk
    PROVE  /\ \A k \in DOMAIN readings : k \in DOMAIN readings' /\ readings'[k] = readings[k]
           /\ \A r \in Reading : InMemory(r) => InMemory(r)'
           /\ \A f \in Credential : InForce(f) /\ Writing \notin RecordUpTo(f) => InForce(f)'
<1>1. Writing \in Sound /\ Effect(Writing) /\ pending # << >>
  BY AppendedEvent DEF StoreInductive, StoreShape, AppendOk
<1>2. Writing.kind = "reading" => Key(Writing.reading) \notin DOMAIN readings
  BY <1>1, EventsAreNews DEF Stored
<1>3. ASSUME NEW k \in DOMAIN readings
      PROVE  k \in DOMAIN readings' /\ readings'[k] = readings[k]
  <2>1. CASE Writing.kind = "reading"
    BY <1>1, <1>2, <1>3, <2>1 DEF Effect
  <2>2. CASE Writing.kind # "reading"
    BY <1>1, <1>3, <2>2 DEF Effect
  <2> QED
    BY <2>1, <2>2
<1>4. ASSUME NEW r \in Reading, InMemory(r)
      PROVE  InMemory(r)'
  BY <1>3, <1>4 DEF InMemory, Stored
<1>5. ASSUME NEW f \in Credential, InForce(f), Writing \notin RecordUpTo(f)
      PROVE  InForce(f)'
  <2>1. f.device \in DOMAIN devices /\ f.version \in Nat
    BY <1>5 DEF InForce, Credential
  <2>2. CASE Writing.kind = "reading"
    <3>1. /\ DOMAIN devices' = DOMAIN devices
          /\ devices'[f.device] = IF f.device = Writing.reading.device
                THEN [devices[f.device] EXCEPT !.seen = {<< Writing.reading.id, Writing.received >>}]
                ELSE devices[f.device]
      BY <1>1, <2>1, <2>2 DEF Effect
    <3>2. devices[f.device] \in Record
      BY <2>1 DEF StoreInductive, StoreShape, MemoryShape
    <3>3. /\ devices'[f.device].version = devices[f.device].version
          /\ devices'[f.device].secret = devices[f.device].secret
      BY <3>1, <3>2 DEF Record
    <3> QED
      BY <1>5, <3>1, <3>3 DEF InForce
  <2>3. CASE Writing.kind = "device"
    <3>1. f.device \in DOMAIN devices'
          /\ devices'[f.device] = IF f.device = Writing.device THEN Writing ELSE devices[f.device]
      BY <1>1, <2>1, <2>3 DEF Effect
    <3>2. CASE f.device = Writing.device
      <4>1. Writing \in Record
        BY <1>1, <2>3, EventFields
      <4>2. Writing.version > f.version
        BY <1>5, <2>1, <3>2, <4>1 DEF RecordUpTo, Record
      <4> QED
        BY <3>1, <3>2, <4>2 DEF InForce
    <3>3. CASE f.device # Writing.device
      BY <1>5, <3>1, <3>3 DEF InForce
    <3> QED
      BY <3>2, <3>3
  <2>4. CASE Writing.kind = "published"
    BY <1>1, <1>5, <2>4 DEF Effect, InForce
  <2> QED
    BY <1>1, <2>2, <2>3, <2>4, KindsDiffer
<1> QED
  BY <1>3, <1>4, <1>5

LEMMA CredentialsKept ==
    ASSUME StoreInductive, [StoreNext]_storeVars
    PROVE  CredentialKept'
<1> SUFFICES ASSUME NEW f \in (acked \cap Credential)'
             PROVE  FirmRecord(f)' /\ (Serving' => InForce(f)')
  BY DEF CredentialKept
<1>1. f \in Credential
  BY DEF Credential
<1>2. FirmRecord(f) /\ (Serving => InForce(f)) /\ Writing \notin RecordUpTo(f)
  <2>1. CASE f \in acked
    <3>1. FirmRecord(f) /\ (Serving => InForce(f))
      BY <1>1, <2>1 DEF StoreInductive, CredentialKept
    <3>2. pending = << >> => Writing \notin RecordUpTo(f)
      BY DEF Writing, RecordUpTo, Record, Garbage
    <3> QED
      BY <1>1, <2>1, <3>1, <3>2, EventsAreNews
  <2>2. CASE f \notin acked
    <3>1. pending = << >> /\ Met(f, << >>)
      BY <2>2, AckedCases
    <3>2. FirmRecord(f) /\ InForce(f)
      BY <1>1, <3>1 DEF Met
    <3> QED
      BY <3>1, <3>2 DEF Writing, RecordUpTo, Record, Garbage
  <2> QED
    BY <2>1, <2>2
<1>3. FirmRecord(f)'
  BY <1>1, <1>2, RecordsFirm
<1>4. ASSUME Serving' PROVE InForce(f)'
  <2>1. CASE Opened
    <3>1. InForce(f)
      <4>1. Len(Sure) \in Nat /\ Len(Sure) <= Len(Lines)
        BY SureIsPart DEF StoreInductive, StoreShape
      <4> QED
        BY <1>1, <1>2, <2>1, <4>1, ReplayEnds, ShownInForce DEF Shows
    <3> QED
      BY <2>1, <3>1, ReplayEnds DEF InForce
  <2>2. CASE AppendOk
    <3>1. Serving
      BY <2>2 DEF AppendOk, Serving
    <3> QED
      BY <1>1, <1>2, <2>2, <3>1, AppendKeeps
  <2>3. CASE Serving /\ UNCHANGED << devices, readings, published >>
    BY <1>2, <2>3 DEF InForce
  <2> QED
    BY <1>4, <2>1, <2>2, <2>3, ServingCases
<1> QED
  BY <1>3, <1>4

LEMMA SyncedStays ==
    ASSUME StoreInductive, [StoreNext]_storeVars, ~ UnsyncedReplay, Synced
    PROVE  Synced'
<1>1. Steps /\ failures' = failures
  BY StepCases DEF LogMoves
<1> SUFFICES ASSUME "power" \in failures, phase' \in {"down", "replaying"} \/ "io" \notin failures
             PROVE  disk' = << closed', tail' >>
  BY <1>1 DEF Synced
<1>2. "crash" \notin failures /\ ~ ("io" \in failures /\ "restart" \in failures)
  BY DEF UnsyncedReplay
<1>3. CASE AppendOk
  BY <1>3 DEF AppendOk
<1>4. CASE PowerLoss
  <2>1. \E g : \E f \in g : closed' = f[1] /\ tail' = f[2] /\ disk' = f
               /\ \E h \in LeftBehind : g = OnDisk(h)
    BY <1>4 DEF PowerLoss, FileBecomes
  <2>2. PICK h \in LeftBehind :
             \E f \in OnDisk(h) : closed' = f[1] /\ tail' = f[2] /\ disk' = f
    BY <2>1
  <2>3. PICK f \in OnDisk(h) : closed' = f[1] /\ tail' = f[2] /\ disk' = f
    BY <2>2
  <2>4. f = << f[1], f[2] >>
    BY DEF OnDisk
  <2> QED
    BY <2>3, <2>4
<1>5. CASE \/ Open \/ ReplayLine \/ Opened \/ RequestBegins \/ Answer \/ Restart
           \/ UNCHANGED storeVars
  <2>1. UNCHANGED << closed, tail, disk >>
    BY <1>5 DEF Open, ReplayLine, Opened, RequestBegins, Begin, Answer, Restart, file, storeVars
  <2>2. phase \in {"down", "replaying"} \/ "io" \notin failures
    BY <1>2, <1>5 DEF Open, ReplayLine, Opened, RequestBegins, Begin, Answer, Restart, storeVars
  <2> QED
    BY <2>1, <2>2 DEF Synced
<1>6. CASE AppendErr \/ Crash
  BY <1>2, <1>6 DEF AppendErr, Crash
<1> QED
  BY <1>1, <1>3, <1>4, <1>5, <1>6 DEF Steps, Stops

LEMMA ReadingsKept ==
    ASSUME StoreInductive, [StoreNext]_storeVars
    PROVE  ReadingKept'
<1>1. failures' = failures
  BY StepCases DEF LogMoves
<1> SUFFICES ASSUME ~ UnsyncedReplay
             PROVE  /\ \A r \in (acked \cap Reading)' :
                          FirmReading(Key(r), r.value)' /\ (Serving' => InMemory(r)')
                    /\ Serving' => \A k \in DOMAIN readings' : FirmReading(k, readings[k])'
                    /\ Synced'
  BY <1>1 DEF ReadingKept, UnsyncedReplay
<1>2. /\ \A r \in acked \cap Reading : FirmReading(Key(r), r.value) /\ (Serving => InMemory(r))
      /\ Serving => \A k \in DOMAIN readings : FirmReading(k, readings[k])
      /\ Synced
  BY DEF StoreInductive, ReadingKept
<1>3. Len(Sure) \in Nat /\ Len(Sure) <= Len(Lines)
  BY SureIsPart DEF StoreInductive, StoreShape
<1>4. \A k \in DOMAIN readings : Writing \notin ReadingAt(k)
  <2>1. CASE pending = << >>
    BY <2>1, KindsDiffer DEF Writing, ReadingAt
  <2>2. CASE pending # << >>
    BY <2>2, EventsAreNews DEF ReadingAt, Stored
  <2> QED
    BY <2>1, <2>2
<1>5. pending = << >> => \A k : Writing \notin ReadingAt(k)
  BY KindsDiffer DEF Writing, ReadingAt
<1>6. ASSUME NEW r \in (acked \cap Reading)'
      PROVE  FirmReading(Key(r), r.value)' /\ (Serving' => InMemory(r)')
  <2>1. r \in Reading
    BY <1>6 DEF Reading
  <2>2. /\ FirmReading(Key(r), r.value) /\ (Serving => InMemory(r))
        /\ Writing \notin ReadingAt(Key(r))
    <3>1. CASE r \in acked
      <4>1. FirmReading(Key(r), r.value) /\ (Serving => InMemory(r))
        BY <1>2, <2>1, <3>1
      <4>2. pending # << >> => Serving
        BY DEF StoreInductive, StoreShape, ProgressShape, Serving
      <4> QED
        BY <1>4, <1>5, <4>1, <4>2 DEF InMemory, Stored
    <3>2. CASE r \notin acked
      <4>1. pending = << >> /\ Met(r, << >>) /\ Serving
        BY <1>6, <3>2, AckedCases DEF Serving
      <4>2. InMemory(r)
        BY <2>1, <4>1 DEF Met
      <4> QED
        BY <1>2, <1>5, <4>1, <4>2 DEF InMemory, Stored
    <3> QED
      BY <3>1, <3>2
  <2>3. FirmReading(Key(r), r.value)'
    <3> DEFINE k == Key(r)
               v == r.value
    <3>1. FirmReading(k, v) /\ Writing \notin ReadingAt(k)
      BY <2>2
    <3> HIDE DEF k, v
    <3>2. FirmReading(k, v)'
      BY <3>1, ReadingsFirm
    <3> QED
      BY <3>2 DEF k, v
  <2>4. ASSUME Serving' PROVE InMemory(r)'
    <3>1. CASE Opened
      <4>1. InMemory(r)
        BY <1>3, <2>1, <2>2, <3>1, ReplayEnds, ShownInMemory DEF Shows
      <4> QED
        BY <3>1, <4>1, ReplayEnds DEF InMemory, Stored
    <3>2. CASE AppendOk
      <4>1. Serving
        BY <3>2 DEF AppendOk, Serving
      <4> QED
        BY <2>1, <2>2, <3>2, <4>1, AppendKeeps
    <3>3. CASE Serving /\ UNCHANGED << devices, readings, published >>
      BY <2>2, <3>3 DEF InMemory, Stored
    <3> QED
      BY <2>4, <3>1, <3>2, <3>3, ServingCases
  <2> QED
    BY <2>3, <2>4
<1>7. ASSUME Serving', NEW k \in DOMAIN readings'
      PROVE  FirmReading(k, readings[k])'
  <2>1. PICK v : v = readings'[k]
    OBVIOUS
  <2>2. SUFFICES FirmReading(k, v)'
    BY <2>1 DEF FirmReading, Firm, ReadingOf
  <2>3. CASE FirmReading(k, v) /\ Writing \notin ReadingAt(k)
    BY <2>3, ReadingsFirm
  <2>4. CASE Opened
    <3>1. readings' = readings /\ Sure = Lines /\ pending = << >>
      <4>1. pending = << >> /\ phase = "replaying"
        BY <2>4 DEF Opened, StoreInductive, StoreShape, ProgressShape
      <4>2. SyncedLines = Lines \/ "power" \notin failures
        BY <1>2, <4>1 DEF Synced, SyncedLines, Lines
      <4> QED
        BY <2>4, <4>1, <4>2, ReplayEnds DEF Sure
    <3>2. PICK i \in 1 .. Len(Lines) :
            Latest(i, ReadingLines(Lines, k)) /\ readings[k] = Lines[i].reading.value
      BY <1>7, <2>4, <3>1, ReplayEnds DEF Shows, ShowsReadings, Current
    <3>3. Lines[i] \in ReadingOf(k, readings[k])
      BY <2>4, <3>2, ReplayEnds, KindsDiffer DEF ReadingOf, ReadingAt, Latest, ReadingLines
    <3>4. \A j \in 1 .. Len(Lines) : j > i => Lines[j] \notin ReadingAt(k)
      BY <3>2 DEF Latest, ReadingLines, ReadingAt
    <3>5. FirmReading(k, readings[k])
      BY <3>1, <3>2, <3>3, <3>4 DEF FirmReading, Firm
    <3> QED
      BY <1>5, <2>1, <2>3, <3>1, <3>5
  <2>5. CASE AppendOk
    <3>1. Effect(Writing) /\ Writing \in Sound /\ Serving
      BY <2>5, AppendedEvent DEF StoreInductive, StoreShape, Serving
    <3>2. CASE k \in DOMAIN readings
      BY <1>2, <1>4, <2>1, <2>3, <2>5, <3>1, <3>2, AppendKeeps
    <3>3. CASE k \notin DOMAIN readings
      <4>1. Writing.kind = "reading" /\ k = Key(Writing.reading) /\ v = Writing.reading.value
        BY <1>7, <2>1, <3>1, <3>3 DEF Effect
      <4>2. Writing \in ReadingOf(k, v)
        BY <3>1, <4>1, KindsDiffer DEF ReadingOf, ReadingAt
      <4> QED
        BY <2>5, <4>2, AppendedIsFirm DEF FirmReading
    <3> QED
      BY <3>2, <3>3
  <2>6. CASE Serving /\ UNCHANGED << devices, readings, published >>
    BY <1>2, <1>4, <1>7, <2>1, <2>3, <2>6
  <2> QED
    BY <1>7, <2>4, <2>5, <2>6, ServingCases
<1> QED
  BY <1>2, <1>6, <1>7, SyncedStays

-----------------------------------------------------------------------------
(* Replay.                                                                 *)

LEMMA OneLineMore ==
    ASSUME NEW lines \in Seq(Sound), NEW e \in Sound, NEW more, more = Append(lines, e)
    PROVE  /\ Len(lines) \in Nat /\ more \in Seq(Sound)
           /\ DOMAIN lines = 1 .. Len(lines) /\ DOMAIN more = 1 .. Len(lines) + 1
           /\ \A i \in 1 .. Len(lines) : more[i] = lines[i]
           /\ more[Len(lines) + 1] = e
           /\ \A i \in 1 .. Len(lines) + 1 : i \in 1 .. Len(lines) \/ i = Len(lines) + 1
  OBVIOUS

\* The memory that shows some lines shows one line more once it is applied.
LEMMA ShowsMore ==
    ASSUME NEW lines \in Seq(Sound), NEW e \in Sound, MemoryShape,
           Shows(Current, lines), MemoryBecomes(Apply(Current, e)),
           NEW more, more = Append(lines, e)
    PROVE  Shows(Current', more)
<1> DEFINE n == Len(lines) + 1
<1>1. /\ n \in Nat /\ more \in Seq(Sound)
      /\ DOMAIN lines = 1 .. Len(lines) /\ DOMAIN more = 1 .. n
      /\ \A i \in 1 .. Len(lines) : i \in 1 .. n /\ i < n /\ more[i] = lines[i]
      /\ more[n] = e /\ n \in 1 .. n
      /\ \A i \in 1 .. n : i <= n /\ (i \in 1 .. Len(lines) \/ i = n)
  BY OneLineMore
<1>2. Effect(e) /\ e.kind \in {"device", "reading", "published"}
  BY ApplyEffect, KindsDiffer DEF Sound
<1> HIDE DEF n
<1>4. ShowsReadings(Current', more)
  <2>1. /\ \A i \in 1 .. Len(lines) :
              lines[i].kind = "reading" => Key(lines[i].reading) \in DOMAIN readings
        /\ \A k \in DOMAIN readings :
              \E i \in 1 .. Len(lines) : /\ Latest(i, ReadingLines(lines, k))
                                         /\ readings[k] = lines[i].reading.value
    BY <1>1, Zenon DEF Shows, ShowsReadings, Current
  <2>2. \A i \in 1 .. n : more[i].kind = "reading" => Key(more[i].reading) \in DOMAIN readings'
    <3>1. DOMAIN readings \subseteq DOMAIN readings'
      BY <1>2 DEF Effect
    <3>2. e.kind = "reading" => Key(e.reading) \in DOMAIN readings'
      BY <1>2 DEF Effect
    <3> QED
      BY <1>1, <2>1, <3>1, <3>2
  <2>3. ASSUME NEW k \in DOMAIN readings'
        PROVE  \E i \in 1 .. n : /\ Latest(i, ReadingLines(more, k))
                                 /\ readings'[k] = more[i].reading.value
    <3>1. CASE e.kind = "reading" /\ Key(e.reading) = k
      <4>1. Latest(n, ReadingLines(more, k))
        BY <1>1, <3>1 DEF Latest, ReadingLines
      <4>2. readings'[k] = more[n].reading.value
        BY <1>1, <1>2, <2>3, <3>1 DEF Effect
      <4> QED
        BY <1>1, <4>1, <4>2
    <3>2. CASE ~ (e.kind = "reading" /\ Key(e.reading) = k)
      <4>1. k \in DOMAIN readings /\ readings'[k] = readings[k]
        BY <1>2, <2>3, <3>2 DEF Effect
      <4>2. ReadingLines(more, k) = ReadingLines(lines, k)
        BY <1>1, <3>2 DEF ReadingLines
      <4> QED
        BY <1>1, <2>1, <4>1, <4>2
    <3> QED
      BY <3>1, <3>2
  <2> QED
    BY <1>1, <2>2, <2>3, Zenon DEF ShowsReadings, Current
<1>5. ShowsPublished(Current', more)
  <2>1. /\ \A i \in 1 .. Len(lines) :
              lines[i].kind = "published" => lines[i].key \in DOMAIN published
        /\ \A k \in DOMAIN published :
              \E i \in 1 .. Len(lines) : /\ Latest(i, PublicationLines(lines, k))
                                         /\ published[k] = lines[i].content
    BY <1>1, Zenon DEF Shows, ShowsPublished, Current
  <2>2. \A i \in 1 .. n : more[i].kind = "published" => more[i].key \in DOMAIN published'
    <3>1. DOMAIN published \subseteq DOMAIN published'
      BY <1>2 DEF Effect
    <3>2. e.kind = "published" => e.key \in DOMAIN published'
      BY <1>2 DEF Effect
    <3> QED
      BY <1>1, <2>1, <3>1, <3>2
  <2>3. ASSUME NEW k \in DOMAIN published'
        PROVE  \E i \in 1 .. n : /\ Latest(i, PublicationLines(more, k))
                                 /\ published'[k] = more[i].content
    <3>1. CASE e.kind = "published" /\ e.key = k
      <4>1. Latest(n, PublicationLines(more, k))
        BY <1>1, <3>1 DEF Latest, PublicationLines
      <4>2. published'[k] = more[n].content
        BY <1>1, <1>2, <2>3, <3>1 DEF Effect
      <4> QED
        BY <1>1, <4>1, <4>2
    <3>2. CASE ~ (e.kind = "published" /\ e.key = k)
      <4>1. k \in DOMAIN published /\ published'[k] = published[k]
        BY <1>2, <2>3, <3>2 DEF Effect
      <4>2. PublicationLines(more, k) = PublicationLines(lines, k)
        BY <1>1, <3>2 DEF PublicationLines
      <4> QED
        BY <1>1, <2>1, <4>1, <4>2
    <3> QED
      BY <3>1, <3>2
  <2> QED
    BY <1>1, <2>2, <2>3, Zenon DEF ShowsPublished, Current
<1>6. ShowsDevices(Current', more)
  <2>1. /\ \A i \in 1 .. Len(lines) :
              lines[i].kind = "device" => lines[i].device \in DOMAIN devices
        /\ \A d \in DOMAIN devices :
              \E i \in 1 .. Len(lines) :
                  /\ Latest(i, RecordLines(lines, d))
                  /\ devices[d] = [lines[i] EXCEPT !.seen = devices[d].seen]
                  /\ Health(lines, d, i, devices[d].seen)
    BY <1>1, Zenon DEF Shows, ShowsDevices, Current
  <2>2. \A i \in 1 .. n : more[i].kind = "device" => more[i].device \in DOMAIN devices'
    <3>1. DOMAIN devices \subseteq DOMAIN devices'
      BY <1>2 DEF Effect
    <3>2. e.kind = "device" => e.device \in DOMAIN devices'
      BY <1>2 DEF Effect
    <3> QED
      BY <1>1, <2>1, <3>1, <3>2
  <2>3. ASSUME NEW d \in DOMAIN devices'
        PROVE  \E i \in 1 .. n :
                  /\ Latest(i, RecordLines(more, d))
                  /\ devices'[d] = [more[i] EXCEPT !.seen = devices'[d].seen]
                  /\ Health(more, d, i, devices'[d].seen)
    <3>1. CASE e.kind = "device" /\ e.device = d
      <4>1. Latest(n, RecordLines(more, d))
        BY <1>1, <3>1 DEF Latest, RecordLines
      <4>2. devices'[d] = e
        BY <1>2, <2>3, <3>1 DEF Effect
      <4>3. e = [e EXCEPT !.seen = e.seen]
        BY <3>1, EventFields DEF Record
      <4>4. HeardAfter(more, d, n) = {}
        BY <1>1 DEF HeardAfter
      <4>5. Health(more, d, n, e.seen)
        BY <1>1, <4>4 DEF Health
      <4> QED
        BY <1>1, <4>1, <4>2, <4>3, <4>5
    <3>2. CASE ~ (e.kind = "device" /\ e.device = d)
      <4>1. d \in DOMAIN devices
        BY <1>2, <2>3, <3>2 DEF Effect
      <4>2. PICK i \in 1 .. Len(lines) :
                  /\ Latest(i, RecordLines(lines, d))
                  /\ devices[d] = [lines[i] EXCEPT !.seen = devices[d].seen]
                  /\ Health(lines, d, i, devices[d].seen)
        BY <2>1, <4>1
      <4>3. RecordLines(more, d) = RecordLines(lines, d)
        BY <1>1, <3>2 DEF RecordLines
      <4>4. lines[i] \in Record /\ more[i] = lines[i] /\ i \in 1 .. n /\ i < n
        <5>1. lines[i] \in Sound /\ lines[i].kind = "device"
          BY <4>2 DEF Latest, RecordLines
        <5> QED
          BY <1>1, <4>2, <5>1, EventFields
      <4>5. CASE e.kind = "reading" /\ e.reading.device = d
        <5> DEFINE h == {<< e.reading.id, e.received >>}
        <5>1. devices'[d] = [devices[d] EXCEPT !.seen = h]
          BY <1>2, <4>1, <4>5 DEF Effect
        <5>2. devices'[d].seen = h /\ devices'[d] = [lines[i] EXCEPT !.seen = devices'[d].seen]
          BY <4>2, <4>4, <5>1 DEF Record
        <5>3. Latest(n, HeardAfter(more, d, i))
          BY <1>1, <4>4, <4>5 DEF Latest, HeardAfter
        <5>4. Health(more, d, i, h)
          BY <1>1, <5>3 DEF Health, Latest
        <5> QED
          BY <4>2, <4>3, <4>4, <5>2, <5>4
      <4>6. CASE ~ (e.kind = "reading" /\ e.reading.device = d)
        <5>1. devices'[d] = devices[d]
          BY <1>2, <3>2, <4>1, <4>6 DEF Effect
        <5>2. HeardAfter(more, d, i) = HeardAfter(lines, d, i)
          BY <1>1, <4>6 DEF HeardAfter
        <5>3. Health(more, d, i, devices[d].seen)
          <6>1. HeardAfter(lines, d, i) \subseteq 1 .. Len(lines)
            BY <1>1 DEF HeardAfter
          <6> QED
            BY <1>1, <4>2, <4>4, <5>2, <6>1 DEF Health
        <5> QED
          BY <4>2, <4>3, <4>4, <5>1, <5>3
      <4> QED
        BY <4>5, <4>6
    <3> QED
      BY <3>1, <3>2
  <2> QED
    BY <1>1, <2>2, <2>3, Zenon DEF ShowsDevices, Current
<1> QED
  BY <1>4, <1>5, <1>6 DEF Shows

LEMMA MemoriesShown ==
    ASSUME StoreInductive, [StoreNext]_storeVars
    PROVE  MemoryShown'
<1>1. Steps /\ failures' = failures /\ MemoryShape
  BY StepCases DEF LogMoves, StoreInductive, StoreShape
<1>2. Lines \in Seq(SoundLine) /\ Len(Lines) \in Nat
  BY SyncedIsPart DEF StoreInductive, StoreShape
<1>3. ASSUME phase' = "replaying"
      PROVE  /\ \A i \in 1 .. replayed' : Lines'[i] # Garbage
             /\ Shows(Current', SubSeq(Lines', 1, replayed'))
  <2>1. Open \/ ReplayLine \/ UNCHANGED storeVars
    BY <1>1, <1>3 DEF Steps, Opened, RequestBegins, Begin, Answer, AppendOk, AppendErr, Stops,
                      Stopped, Restart, Crash, PowerLoss
  <2>2. CASE Open
    <3>1. replayed' = 0 /\ MemoryBecomes(NoMemory)
      BY <2>2 DEF Open
    <3>2. Lines' = Lines
      BY <2>2 DEF Open, file, Lines, LinesOf
    <3>3. DOMAIN SubSeq(Lines', 1, 0) = {}
      BY <1>2, <3>2
    <3>4. DOMAIN devices' = {} /\ DOMAIN readings' = {} /\ DOMAIN published' = {}
      BY <3>1, NothingIsPartial DEF MemoryBecomes, NoMemory
    <3>5. Shows(Current', SubSeq(Lines', 1, 0))
      BY <3>3, <3>4 DEF Shows, ShowsReadings, ShowsPublished, ShowsDevices, Current
    <3> QED
      BY <3>1, <3>5
  <2>3. CASE ReplayLine
    <3>1. /\ Lines[replayed + 1] \in Sound /\ replayed + 1 \in 1 .. Len(Lines)
          /\ Lines' = Lines /\ phase = "replaying" /\ replayed \in Nat
          /\ replayed' = replayed + 1
          /\ MemoryBecomes(Apply(Current, Lines[replayed + 1]))
      BY <1>3, <2>3, ReplayedLine DEF StoreInductive
    <3>2. /\ \A i \in 1 .. replayed : Lines[i] # Garbage
          /\ Shows(Current, SubSeq(Lines, 1, replayed))
      BY <3>1 DEF StoreInductive, MemoryShown
    <3> DEFINE lines == SubSeq(Lines, 1, replayed)
               more == SubSeq(Lines, 1, replayed + 1)
               e == Lines[replayed + 1]
    <3>3. /\ lines \in Seq(Sound) /\ more = Append(lines, e)
      <4>1. \A i \in 1 .. replayed : Lines[i] \in Sound
        BY <1>2, <3>1, <3>2 DEF SoundLine
      <4>2. lines \in Seq(Sound)
        BY <1>2, <3>1, <4>1
      <4>3. more = Append(lines, e)
        BY <1>2, <3>1
      <4> QED
        BY <4>2, <4>3
    <3>4. e \in Sound /\ Shows(Current, lines) /\ MemoryBecomes(Apply(Current, e))
      BY <3>1, <3>2
    <3>5. Shows(Current', more)
      <4> HIDE DEF lines, more, e
      <4> QED
        BY <1>1, <3>3, <3>4, ShowsMore
    <3>6. \A i \in 1 .. replayed + 1 : Lines[i] # Garbage
      BY <3>1, <3>2, KindsDiffer
    <3> QED
      BY <3>1, <3>5, <3>6
  <2>4. CASE UNCHANGED storeVars
    <3>1. Lines' = Lines /\ replayed' = replayed /\ Current' = Current /\ phase' = phase
      BY <2>4 DEF storeVars, file, memory, Lines, LinesOf, Current
    <3> QED
      BY <1>3, <3>1 DEF StoreInductive, MemoryShown
  <2> QED
    BY <2>1, <2>2, <2>3, <2>4
<1>4. ASSUME "io" \notin failures, Serving', Readable'
      PROVE  Shows(Current', Lines')
  <2>1. CASE Opened
    <3>1. Current' = Current /\ Lines' = Lines /\ Shows(Current, Lines)
      BY <2>1, ReplayEnds DEF StoreInductive, Current, StoreShape
    <3> QED
      BY <3>1
  <2>2. CASE AppendOk
    <3>1. /\ Lines' = Append(closed, Glued(Writing)) /\ Writing \in Sound
          /\ closed \in Seq(SoundLine) /\ Serving
          /\ MemoryBecomes(Apply(Current, Writing))
      <4>1. pending # << >> /\ MemoryBecomes(Apply(Current, Head(pending)))
        BY <2>2 DEF AppendOk
      <4> QED
        BY <2>2, <4>1, AppendedEvent
           DEF StoreInductive, StoreShape, FileShape, IsFile, Serving, Writing
    <3>2. /\ \A i \in 1 .. Len(closed) : Lines'[i] = closed[i]
          /\ Lines'[Len(closed) + 1] = Glued(Writing) /\ Len(Lines') = Len(closed) + 1
          /\ Len(closed) \in Nat /\ DOMAIN Lines' = 1 .. Len(closed) + 1
          /\ Len(closed) + 1 \in DOMAIN Lines'
          /\ \A i \in 1 .. Len(closed) : i \in DOMAIN Lines'
      BY <3>1, KindsDiffer DEF Glued, SoundLine
    <3>3. Glued(Writing) # Garbage /\ \A i \in 1 .. Len(closed) : closed[i] # Garbage
      BY <1>4, <3>2 DEF Readable
    <3>4. tail = Empty /\ Glued(Writing) = Writing /\ Lines = closed
      BY <3>3 DEF Glued, Lines, LinesOf
    <3>5. Lines \in Seq(Sound)
      BY <3>1, <3>3, <3>4 DEF SoundLine
    <3>6. Readable /\ Shows(Current, Lines)
      BY <1>4, <3>1, <3>3, <3>4 DEF StoreInductive, MemoryShown, MemoryIsReplay, Readable, Serving
    <3>7. Lines' = Append(Lines, Writing)
      BY <3>1, <3>4
    <3> QED
      BY <1>1, <3>1, <3>5, <3>6, <3>7, ShowsMore
  <2>3. CASE Serving /\ UNCHANGED << devices, readings, published, closed, tail, disk >>
    <3>1. Lines' = Lines /\ Current' = Current
      BY <2>3 DEF Lines, LinesOf, Current
    <3>2. Readable
      BY <1>4, <3>1 DEF Readable
    <3> QED
      BY <1>4, <2>3, <3>1, <3>2 DEF StoreInductive, MemoryShown, MemoryIsReplay, Serving
  <2> QED
    BY <1>4, <2>1, <2>2, <2>3, ServingCases
<1> QED
  BY <1>1, <1>3, <1>4 DEF MemoryShown, MemoryIsReplay, Serving

-----------------------------------------------------------------------------
(* Requests under way.                                                     *)

LEMMA RequestsKept ==
    ASSUME StoreInductive, [StoreNext]_storeVars
    PROVE  RequestFits'
<1>1. Steps /\ StoreShape /\ RequestFits
  BY StepCases DEF StoreInductive
<1>2. ASSUME NEW events, Len(events) \in Nat, EventsFit(events), \A f \in request' : Met(f, events),
             UNCHANGED << closed, tail, disk, devices, readings, published, acked, failures >>,
             pending' = events
      PROVE  RequestFits'
  <2>1. Lines' = Lines /\ Sure' = Sure
    BY <1>2 DEF Lines, Sure, SyncedLines, LinesOf
  <2>2. EventsFit(events)'
    BY <1>2 DEF EventsFit, Stored
  <2>3. ASSUME NEW f \in request'
        PROVE  Met(f, events)'
    <3>1. FirmRecord(f)' <=> FirmRecord(f)
      BY <2>1 DEF FirmRecord, Firm
    <3>2. (InForce(f)' <=> InForce(f)) /\ (InMemory(f)' <=> InMemory(f))
      BY <1>2 DEF InForce, InMemory, Stored
    <3>3. Met(f, events)
      BY <1>2
    <3> QED
      BY <3>1, <3>2, <3>3 DEF Met
  <2> QED
    BY <1>2, <2>2, <2>3 DEF RequestFits
<1>3. ASSUME pending' = << >>, request' = {}
      PROVE  RequestFits'
  BY <1>3 DEF RequestFits, EventsFit
<1>4. CASE phase # "appending" /\ UNCHANGED << pending, request >>
  BY <1>1, <1>3, <1>4 DEF StoreShape, ProgressShape
<1>5. CASE Open \/ ReplayLine \/ Opened
  BY <1>4, <1>5 DEF Open, ReplayLine, Opened, progress
<1>6. CASE Answer \/ AppendErr \/ Stops
  BY <1>3, <1>6 DEF Answer, AppendErr, Stops, Stopped, Restart, Crash, PowerLoss
<1>7. CASE RequestBegins
  <2>1. PICK events \in Seq(Sound) : \E confirms \in SUBSET (Reading \cup Credential) :
          Begin(events, confirms) /\ EventsFit(events) /\ (\A f \in confirms : Met(f, events))
    BY <1>7 DEF RequestBegins
  <2>2. PICK confirms \in SUBSET (Reading \cup Credential) :
          Begin(events, confirms) /\ EventsFit(events) /\ (\A f \in confirms : Met(f, events))
    BY <2>1
  <2>3. /\ pending' = events /\ request' = confirms
        /\ UNCHANGED << closed, tail, disk, devices, readings, published, acked, failures >>
    BY <2>2 DEF Begin, file, memory
  <2>4. Len(events) \in Nat
    OBVIOUS
  <2> QED
    BY <1>2, <2>2, <2>3, <2>4
<1>8. CASE UNCHANGED storeVars
  <2>1. /\ pending' = pending /\ request' = request
        /\ UNCHANGED << closed, tail, disk, devices, readings, published, acked, failures >>
    BY <1>8 DEF storeVars, file, memory, progress
  <2>2. Len(pending) \in Nat
    BY <1>1 DEF StoreShape, ProgressShape
  <2>3. PICK events : events = pending
    OBVIOUS
  <2> QED
    BY <1>1, <1>2, <2>1, <2>2, <2>3 DEF RequestFits
<1>9. CASE AppendOk
  <2>1. /\ Writing \in Sound /\ Writing = pending[1] /\ Len(pending) \in Nat \ {0}
        /\ pending' \in Seq(Sound) /\ Len(pending') = Len(pending) - 1
        /\ \A i \in 1 .. Len(pending) - 1 : pending'[i] = pending[i + 1]
        /\ Effect(Writing) /\ UNCHANGED << request, acked, failures >>
    BY <1>1, <1>9, AppendedEvent
  <2>2. EventsFit(pending) /\ 1 \in 1 .. Len(pending)
    BY <1>1, <2>1 DEF RequestFits
  <2>3. ASSUME NEW i \in 1 .. Len(pending')
        PROVE  /\ i + 1 \in 1 .. Len(pending) /\ i + 1 # 1
               /\ pending'[i] = pending[i + 1]
    BY <2>1
  <2>4. ASSUME NEW i \in 1 .. Len(pending'), pending'[i].kind = "reading"
        PROVE  Key(pending'[i].reading) \notin DOMAIN readings'
    <3>1. Key(pending[i + 1].reading) \notin DOMAIN readings
      BY <2>2, <2>3, <2>4 DEF EventsFit, Stored
    <3>2. CASE Writing.kind = "reading"
      <4>1. Key(pending[i + 1].reading) # Key(Writing.reading)
        BY <2>1, <2>2, <2>3, <2>4, <3>2 DEF EventsFit
      <4> QED
        BY <2>1, <2>3, <3>1, <3>2, <4>1 DEF Effect
    <3>3. CASE Writing.kind # "reading"
      BY <2>1, <2>3, <3>1, <3>3 DEF Effect
    <3> QED
      BY <3>2, <3>3
  <2>5. ASSUME NEW i \in 1 .. Len(pending'), pending'[i].kind = "device",
               NEW f \in acked', f \in Credential, f.device = pending'[i].device
        PROVE  f.version < pending'[i].version
    BY <2>1, <2>2, <2>3, <2>5 DEF EventsFit
  <2>6. ASSUME NEW i \in 1 .. Len(pending'), NEW j \in 1 .. Len(pending'),
               pending'[i].kind = "reading", pending'[j].kind = "reading",
               Key(pending'[i].reading) = Key(pending'[j].reading)
        PROVE  i = j
    <3>1. i + 1 = j + 1
      BY <2>2, <2>3, <2>6 DEF EventsFit
    <3> QED
      BY <3>1
  <2>7. EventsFit(pending)'
    BY <2>4, <2>5, <2>6 DEF EventsFit, Stored, Credential
  <2>8. ASSUME NEW f \in request'
        PROVE  Met(f, pending)'
    <3>1. Met(f, pending) /\ f \in Reading \cup Credential
      BY <1>1, <2>1, <2>8 DEF RequestFits, StoreShape, ProgressShape
    <3>2. ASSUME f \in Reading
          PROVE  \/ InMemory(f)'
                 \/ \E i \in 1 .. Len(pending') :
                       pending'[i].kind = "reading" /\ pending'[i].reading = f
      <4>1. CASE InMemory(f)
        BY <1>9, <3>2, <4>1, AppendKeeps
      <4>2. CASE ~ InMemory(f)
        <5>1. PICK i \in 1 .. Len(pending) :
                pending[i].kind = "reading" /\ pending[i].reading = f
          BY <3>1, <3>2, <4>2 DEF Met
        <5>2. CASE i = 1
          BY <2>1, <5>1, <5>2 DEF Effect, InMemory, Stored
        <5>3. CASE i # 1
          <6>1. i - 1 \in 1 .. Len(pending') /\ pending'[i - 1] = pending[i]
            BY <2>1, <5>1, <5>3
          <6> QED
            BY <5>1, <6>1
        <5> QED
          BY <5>2, <5>3
      <4> QED
        BY <4>1, <4>2
    <3>3. ASSUME f \in Credential
          PROVE  Len(pending') = 0 /\ FirmRecord(f)' /\ InForce(f)'
      <4>1. Len(pending) = 1 /\ Writing \in RecordAs(f)
        BY <2>1, <3>1, <3>3 DEF Met
      <4>2. FirmRecord(f)'
        BY <1>9, <4>1, AppendedIsFirm DEF FirmRecord
      <4>3. InForce(f)'
        <5>1. Writing.kind = "device" /\ Writing.device = f.device
          BY <4>1 DEF RecordAs, Record
        <5> QED
          BY <2>1, <4>1, <5>1 DEF Effect, InForce, RecordAs
      <4> QED
        BY <2>1, <4>1, <4>2, <4>3
    <3> QED
      BY <3>2, <3>3 DEF Met, Reading, Credential
  <2> QED
    BY <2>7, <2>8 DEF RequestFits
<1> QED
  BY <1>1, <1>5, <1>6, <1>7, <1>8, <1>9 DEF Steps

-----------------------------------------------------------------------------
(* The bound on what is retained.                                          *)

LEMMA SmallerInBounds ==
    ASSUME NEW S, InBounds(S), NEW T, T \subseteq S
    PROVE  InBounds(T)
<1>1. T \in SUBSET S /\ IsFiniteSet(S) /\ Cardinality(S) <= MaxStored
  BY DEF InBounds
<1>2. IsFiniteSet(T) /\ Cardinality(T) <= Cardinality(S) /\ Cardinality(T) \in Nat /\ Cardinality(S) \in Nat
  BY <1>1, FS_Subset, FS_CardinalityType
<1> QED
  BY <1>1, <1>2, LimitsAssumption DEF InBounds

\* The identities in the next log are old ones or that of the line written.
LEMMA LogKeysMove ==
    ASSUME StoreInductive, [StoreNext]_storeVars, NEW k \in LogKeys', k \notin LogKeys
    PROVE  /\ pending # << >> /\ Writing.kind = "reading" /\ k = Key(Writing.reading)
           /\ k \in KeysIn(pending)
<1>1. Descends(Lines') /\ Descends(Sure') /\ FileShape'
  BY StepCases DEF LogMoves
<1>2. ASSUME NEW lines, Descends(lines), k \in KeysIn(lines)
      PROVE  Writing.kind = "reading" /\ k = Key(Writing.reading)
  <2>1. PICK j \in 1 .. Len(lines) : lines[j].kind = "reading" /\ k = Key(lines[j].reading)
    BY <1>2 DEF KeysIn
  <2>2. lines[j] # Garbage
    BY <2>1, KindsDiffer
  <2>3. Len(Lines) \in Nat /\ Len(Sure) \in Nat
    BY SureIsPart DEF StoreInductive, StoreShape
  <2>4. ~ (j \in 1 .. Len(Lines) /\ lines[j] = Lines[j]) /\ ~ (j \in 1 .. Len(Sure) /\ lines[j] = Sure[j])
    BY <2>1 DEF LogKeys, KeysIn
  <2>5. lines[j] = Writing
    BY <1>2, <2>1, <2>2, <2>3, <2>4 DEF Descends
  <2> QED
    BY <2>1, <2>5
<1>3. Writing.kind = "reading" /\ k = Key(Writing.reading)
  BY <1>1, <1>2 DEF LogKeys
<1>4. pending # << >>
  BY <1>3, KindsDiffer DEF Writing
<1>5. Writing = pending[1] /\ 1 \in 1 .. Len(pending)
  BY <1>4, WritingIsALine DEF StoreInductive, StoreShape
<1> QED
  BY <1>3, <1>4, <1>5 DEF KeysIn

LEMMA BoundsKept ==
    ASSUME StoreInductive, [StoreNext]_storeVars
    PROVE  Bounded'
<1>1. Steps /\ failures' = failures /\ StoreShape
  BY StepCases DEF LogMoves, StoreInductive
<1> DEFINE S == LogKeys \cup KeysIn(pending) \cup DOMAIN readings
<1>2. ASSUME "io" \notin failures
      PROVE  InBounds(S) /\ (Serving => LogKeys \subseteq DOMAIN readings)
  BY <1>2 DEF StoreInductive, Bounded
<1>3. ASSUME NEW k \in LogKeys' PROVE k \in LogKeys \cup KeysIn(pending)
  BY <1>3, LogKeysMove
<1>4. ASSUME UNCHANGED << closed, tail, disk >> PROVE LogKeys' = LogKeys
  <2>1. Lines' = Lines /\ Sure' = Sure
    BY <1>1, <1>4 DEF Lines, Sure, SyncedLines, LinesOf
  <2> QED
    BY <2>1 DEF LogKeys
<1>5. ASSUME "io" \notin failures, Serving', NEW k \in LogKeys'
      PROVE  k \in DOMAIN readings'
  <2>1. CASE Opened
    <3>1. /\ Shows(Current, Lines) /\ \A i \in 1 .. Len(Lines) : Lines[i] # Garbage
          /\ Len(Lines) \in Nat /\ readings' = readings /\ Lines' = Lines /\ Sure' = Sure
      BY <2>1, ReplayEnds
    <3>2. KeysIn(Lines) \subseteq DOMAIN readings
      BY <3>1 DEF Shows, ShowsReadings, Current, KeysIn
    <3>3. KeysIn(Sure) \subseteq KeysIn(Lines)
      <4>1. /\ Len(SyncedLines) \in Nat /\ Len(SyncedLines) <= Len(Lines)
            /\ \A i \in 1 .. Len(SyncedLines) : Lines[i] \in {SyncedLines[i], Garbage}
        BY <1>1, SyncedIsPart DEF StoreShape
      <4>2. \A i \in 1 .. Len(Sure) : i \in 1 .. Len(Lines) /\ Lines[i] = Sure[i]
        BY <3>1, <4>1 DEF Sure
      <4> QED
        BY <4>2 DEF KeysIn
    <3> QED
      BY <1>5, <3>1, <3>2, <3>3 DEF LogKeys
  <2>2. CASE AppendOk
    <3>1. DOMAIN readings \subseteq DOMAIN readings' /\ Serving
      BY <2>2, AppendKeeps DEF AppendOk, Serving
    <3>2. Effect(Writing)
      BY <1>1, <2>2, AppendedEvent
    <3>3. CASE k \in LogKeys
      BY <1>2, <1>5, <3>1, <3>3
    <3>4. CASE k \notin LogKeys
      BY <1>5, <3>2, <3>4, LogKeysMove DEF Effect
    <3> QED
      BY <3>3, <3>4
  <2>3. CASE Serving /\ UNCHANGED << devices, readings, published, closed, tail, disk >>
    BY <1>2, <1>4, <1>5, <2>3
  <2> QED
    BY <1>5, <2>1, <2>2, <2>3, ServingCases
<1>6. ASSUME "io" \notin failures
      PROVE  InBounds(S')
  <2>1. CASE RequestBegins
    <3>1. PICK events \in Seq(Sound) :
            \E confirms : /\ Begin(events, confirms)
                          /\ "io" \notin failures => InBounds(KeysIn(events) \cup DOMAIN readings)
      BY <2>1 DEF RequestBegins
    <3>2. /\ pending' = events /\ phase = "serving" /\ readings' = readings
          /\ UNCHANGED << closed, tail, disk >>
          /\ InBounds(KeysIn(events) \cup DOMAIN readings)
      BY <1>6, <3>1 DEF Begin, memory, file
    <3>3. LogKeys' \subseteq DOMAIN readings
      BY <1>2, <1>4, <1>6, <3>2 DEF Serving
    <3>4. S' \subseteq KeysIn(events) \cup DOMAIN readings
      BY <3>2, <3>3
    <3> QED
      BY <3>2, <3>4, SmallerInBounds
  <2>2. CASE ~ RequestBegins
    <3>1. KeysIn(pending') \subseteq KeysIn(pending)
      <4>1. CASE pending' = pending
        BY <4>1
      <4>2. CASE pending' = << >>
        BY <4>2 DEF KeysIn
      <4>3. CASE AppendOk
        <5>1. /\ Len(pending) \in Nat /\ Len(pending') = Len(pending) - 1
              /\ \A i \in 1 .. Len(pending) - 1 : pending'[i] = pending[i + 1]
          BY <1>1, <4>3, AppendedEvent
        <5>2. \A i \in 1 .. Len(pending') : i + 1 \in 1 .. Len(pending) /\ pending'[i] = pending[i + 1]
          BY <5>1
        <5> QED
          BY <5>2 DEF KeysIn
      <4>4. pending' = pending \/ pending' = << >> \/ AppendOk
        BY <1>1, <2>2 DEF Steps, Open, ReplayLine, Opened, Answer, AppendErr, Stops, Stopped,
                          Restart, Crash, PowerLoss, progress, storeVars
      <4> QED
        BY <4>1, <4>2, <4>3, <4>4
    <3>2. DOMAIN readings' \subseteq S
      <4>1. CASE readings' = readings
        BY <4>1
      <4>2. CASE MemoryBecomes(NoMemory)
        BY <4>2, NothingIsPartial DEF MemoryBecomes, NoMemory
      <4>3. CASE AppendOk
        <5>1. /\ Writing = pending[1] /\ 1 \in 1 .. Len(pending) /\ Effect(Writing)
          BY <1>1, <4>3, AppendedEvent
        <5> QED
          BY <5>1 DEF Effect, KeysIn
      <4>4. CASE ReplayLine /\ ~ MemoryBecomes(NoMemory)
        <5>1. /\ Lines[replayed + 1] \in Sound /\ replayed + 1 \in 1 .. Len(Lines)
              /\ MemoryBecomes(Apply(Current, Lines[replayed + 1]))
          BY <1>1, <4>4, ReplayedLine
        <5>2. Effect(Lines[replayed + 1])
          BY <5>1, ApplyEffect DEF Sound
        <5>3. Lines[replayed + 1].kind = "reading" => Key(Lines[replayed + 1].reading) \in KeysIn(Lines)
          BY <5>1 DEF KeysIn
        <5> QED
          BY <5>2, <5>3 DEF Effect, LogKeys
      <4>5. readings' = readings \/ MemoryBecomes(NoMemory) \/ AppendOk \/ ReplayLine
        BY <1>1, <2>2 DEF Steps, Open, Opened, Answer, AppendErr, Stops, Stopped,
                          Restart, Crash, PowerLoss, memory, storeVars
      <4> QED
        BY <4>1, <4>2, <4>3, <4>4, <4>5
    <3>3. S' \subseteq S
      BY <1>3, <3>1, <3>2
    <3> QED
      BY <1>2, <1>6, <3>3, SmallerInBounds
  <2> QED
    BY <2>1, <2>2
<1> QED
  BY <1>1, <1>5, <1>6 DEF Bounded

-----------------------------------------------------------------------------
(* The invariant.                                                          *)

LEMMA StoreInductiveNext ==
    ASSUME StoreInductive, [StoreNext]_storeVars
    PROVE  StoreInductive'
  BY ShapeKept, CredentialsKept, ReadingsKept, RequestsKept, MemoriesShown, BoundsKept
     DEF StoreInductive

LEMMA StoreInductiveInit ==
    ASSUME StoreInit
    PROVE  StoreInductive
<1>1. /\ closed = << >> /\ tail = Empty /\ disk = << << >>, Empty >> /\ phase = "down"
      /\ replayed = 0 /\ devices = Nothing /\ readings = Nothing /\ published = Nothing
      /\ pending = << >> /\ accepted = 0 /\ refused = FALSE /\ request = {} /\ acked = {}
      /\ failures \in FailureModes
  BY DEF StoreInit
<1>2. Lines = << >> /\ SyncedLines = << >> /\ Sure = << >> /\ Len(<< >>) = 0
  BY <1>1 DEF Lines, SyncedLines, Sure, LinesOf
<1>3. FileShape
  BY <1>1, <1>2 DEF FileShape, IsFile
<1>4. ProgressShape
  <2>1. /\ << >> \in Seq(Sound) /\ Len(closed) + Len(pending) <= MaxEvents
        /\ accepted \in Nat /\ accepted + Len(pending) <= MaxBatch /\ replayed \in Nat
    BY <1>1, LimitsAssumption
  <2>2. refused \in BOOLEAN
    BY <1>1, Zenon
  <2>3. phase \in {"down", "replaying", "serving", "appending", "unopenable"}
    BY <1>1
  <2> QED
    BY <1>1, <2>1, <2>2, <2>3, Zenon DEF ProgressShape
<1>5. MemoryShape
  BY <1>1, NothingIsPartial DEF MemoryShape
<1>6. CredentialKept /\ ReadingKept /\ RequestFits /\ MemoryShown
  BY <1>1, <1>2 DEF CredentialKept, ReadingKept, Synced, Serving, RequestFits, EventsFit,
                    MemoryShown, MemoryIsReplay
<1>7. Bounded
  <2>1. KeysIn(<< >>) = {} /\ DOMAIN readings = {}
    BY <1>1, NothingIsPartial DEF KeysIn
  <2>2. InBounds({})
    BY FS_EmptySet, LimitsAssumption DEF InBounds
  <2>3. LogKeys \cup KeysIn(pending) \cup DOMAIN readings = {}
    BY <1>1, <1>2, <2>1 DEF LogKeys
  <2> QED
    BY <1>1, <2>2, <2>3 DEF Bounded, Serving
<1> QED
  BY <1>3, <1>4, <1>5, <1>6, <1>7 DEF StoreInductive, StoreShape

\* The invariant of the log holds in every state of the store.
THEOREM StoreIsInductive == StoreSpec => []StoreInductive
<1>1. StoreInit => StoreInductive
  BY StoreInductiveInit
<1>2. StoreInductive /\ [StoreNext]_storeVars => StoreInductive'
  BY StoreInductiveNext
<1> QED
  BY <1>1, <1>2, PTL DEF StoreSpec

\* Store: every variable has its type, and no more is written than the bound.
THEOREM StoreTypes == StoreSpec => []StoreTypeOK
<1>1. ASSUME StoreInductive PROVE StoreTypeOK
  <2>1. StoreShape /\ FileShape /\ ProgressShape /\ MemoryShape
    BY <1>1 DEF StoreInductive, StoreShape
  <2>2. SoundLine \subseteq Line /\ Sound \subseteq Event
    BY DEF SoundLine, Sound, Line
  <2>3. /\ closed \in Seq(SoundLine) /\ disk[1] \in Seq(SoundLine) /\ pending \in Seq(Sound)
        /\ tail \in SoundLine \cup {Empty} /\ disk[2] \in SoundLine \cup {Empty}
    BY <2>1 DEF FileShape, IsFile, ProgressShape
  <2>4. ASSUME NEW A, NEW B, A \subseteq B, NEW q \in Seq(A) PROVE q \in Seq(B)
    BY <2>4
  <2>5. closed \in Seq(Line) /\ disk[1] \in Seq(Line) /\ pending \in Seq(Event)
    BY <2>2, <2>3, <2>4
  <2>6. Len(closed) \in Nat /\ Len(pending) \in Nat /\ DOMAIN disk[1] = 1 .. Len(disk[1])
    BY <2>3
  <2>7. /\ Len(closed) <= MaxEvents /\ Len(pending) <= MaxBatch
        /\ accepted \in 0 .. MaxBatch
    BY <2>1, <2>6, LimitsAssumption DEF ProgressShape
  <2>8. replayed \in 0 .. MaxEvents + 1
    <3>1. /\ Len(Lines) <= Len(closed) + 1 /\ Len(Lines) \in Nat
      BY <2>3 DEF Lines, LinesOf
    <3> QED
      BY <2>1, <2>6, <2>7, <3>1, LimitsAssumption DEF ProgressShape
  <2>9. \A i \in DOMAIN disk[1] : closed[i] = disk[1][i]
    BY <2>1, <2>6 DEF FileShape
  <2>10. tail \in Line \cup {Empty} /\ disk[2] \in Line \cup {Empty}
    BY <2>2, <2>3
  <2> QED
    BY <2>1, <2>5, <2>7, <2>8, <2>9, <2>10, Zenon DEF StoreTypeOK, FileShape, ProgressShape, MemoryShape
<1> QED
  BY <1>1, StoreIsInductive, PTL

\* Whenever the store serves and no write has failed, a replay of its log would
\* rebuild exactly its memory.
THEOREM MemoryReplays == StoreSpec => []MemoryIsReplay
<1>1. StoreInductive => MemoryIsReplay
  BY DEF StoreInductive, MemoryShown
<1> QED
  BY <1>1, StoreIsInductive, PTL

\* Without write errors there are never more readings than the bound.
THEOREM RetentionBounded == StoreSpec => []RetentionBound
<1>1. ASSUME StoreInductive PROVE RetentionBound
  <2>1. ASSUME "io" \notin failures PROVE InBounds(DOMAIN readings)
    <3> DEFINE S == LogKeys \cup KeysIn(pending) \cup DOMAIN readings
               T == DOMAIN readings
    <3>1. InBounds(S) /\ T \subseteq S
      BY <1>1, <2>1 DEF StoreInductive, Bounded
    <3> HIDE DEF S, T
    <3>2. InBounds(T)
      BY <3>1, SmallerInBounds
    <3> QED
      BY <3>2 DEF T
  <2> QED
    BY <2>1 DEF RetentionBound, InBounds
<1> QED
  BY <1>1, StoreIsInductive, PTL

\* The credential in force is the last one confirmed or a newer one, across
\* failed rotations, crashes, losses of power and restarts.
THEOREM CredentialsSurvive == StoreSpec => []CredentialSurvives
<1>1. ASSUME StoreInductive PROVE CredentialSurvives
  <2>1. ASSUME NEW f \in AckedRecords PROVE f \in acked \cap Credential
    BY <1>1, <2>1 DEF AckedRecords, StoreInductive, StoreShape, ProgressShape, Reading
  <2> QED
    BY <1>1, <2>1 DEF CredentialSurvives, StoreInductive, CredentialKept, Serving, InForce
<1> QED
  BY <1>1, StoreIsInductive, PTL

\* No failed append, retry, reuse of an identity or replay replaces or loses a
\* confirmed reading.
THEOREM ConfirmedSurvives == StoreSpec => []AckedSurvives
<1>1. ASSUME StoreInductive PROVE AckedSurvives
  <2>1. ASSUME NEW f \in AckedReadings PROVE f \in acked \cap Reading
    BY <1>1, <2>1 DEF AckedReadings, StoreInductive, StoreShape, ProgressShape, Credential
  <2> QED
    BY <1>1, <2>1
       DEF AckedSurvives, AckedDurable, StoreInductive, ReadingKept, Serving, InMemory
<1> QED
  BY <1>1, StoreIsInductive, PTL

-----------------------------------------------------------------------------
(* A server that is only ever restarted between two requests.              *)

\* No append fails, and nothing stops the process or the machine meanwhile.
Orderly == failures \subseteq {"restart"}

\* No line of the log is spoilt, and all of them are on disk.
LogIsWhole ==
    Orderly =>
        /\ tail = Empty /\ disk = << closed, tail >> /\ phase # "unopenable"
        /\ \A i \in 1 .. Len(closed) : closed[i] # Garbage

\* docs/runbook.md:13: "Startup replay is the recovery operation": the log opens,
\* the memory is what it says, and nothing of it waits to be synced.
LogIsTheState ==
    Orderly =>
        /\ Readable /\ disk = << closed, tail >> /\ phase # "unopenable"
        /\ Serving => Shows(Current, Lines)

LEMMA WholeLines ==
    ASSUME FileShape, Orderly, LogIsWhole
    PROVE  Lines = closed /\ closed \in Seq(SoundLine) /\ Readable
<1>1. Lines = closed /\ closed \in Seq(SoundLine)
  BY DEF LogIsWhole, Lines, LinesOf, FileShape, IsFile
<1>2. DOMAIN Lines = 1 .. Len(closed)
  BY <1>1
<1> QED
  BY <1>1, <1>2 DEF LogIsWhole, Readable

LEMMA LogIsWholeNext ==
    ASSUME StoreInductive, LogIsWhole, [StoreNext]_storeVars
    PROVE  LogIsWhole'
<1> SUFFICES ASSUME Orderly'
             PROVE  LogIsWhole'
  BY DEF LogIsWhole
<1>1. StoreShape /\ FileShape /\ ProgressShape /\ Steps /\ failures' = failures
  BY StepCases DEF StoreInductive, StoreShape, LogMoves
<1>2. Orderly /\ "io" \notin failures /\ "crash" \notin failures /\ "power" \notin failures
  BY <1>1 DEF Orderly
<1>3. /\ tail = Empty /\ disk = << closed, tail >> /\ phase # "unopenable"
      /\ \A i \in 1 .. Len(closed) : closed[i] # Garbage
  BY <1>2 DEF LogIsWhole
<1>4. closed \in Seq(SoundLine) /\ \A i \in 1 .. Len(Lines) : Lines[i] # Garbage
  BY <1>1, <1>2, <1>3, WholeLines
<1>5. CASE UNCHANGED << closed, tail, disk >> /\ phase' # "unopenable"
  BY <1>3, <1>5 DEF LogIsWhole
<1>6. CASE Open \/ Opened \/ Answer
  <2>1. UNCHANGED << closed, tail, disk >> /\ phase' \in {"replaying", "serving"}
    BY <1>6 DEF Open, Opened, Answer, file
  <2> QED
    BY <1>5, <2>1
<1>7. CASE RequestBegins
  <2>1. UNCHANGED << closed, tail, disk >> /\ phase' = "appending"
    BY <1>7 DEF RequestBegins, Begin, file
  <2> QED
    BY <1>5, <2>1
<1>8. CASE ReplayLine
  <2>1. /\ Lines[replayed + 1] # Garbage
    BY <1>1, <1>4, <1>8, ReplayedLine
  <2>2. UNCHANGED << closed, tail, disk >> /\ phase' = phase
    BY <1>8, <2>1 DEF ReplayLine, file
  <2> QED
    BY <1>3, <1>5, <2>2
<1>9. CASE AppendOk
  <2>1. /\ Writing \in Sound /\ Writing = Head(pending) /\ Writing # Garbage
    BY <1>1, <1>9, WritingIsALine, KindsDiffer DEF AppendOk
  <2>2. Glued(Head(pending)) = Writing
    BY <1>3, <2>1 DEF Glued
  <2>3. /\ closed' = Append(closed, Writing) /\ tail' = Empty
        /\ disk' = << closed', Empty >> /\ phase' = "appending"
    BY <1>9, <2>2 DEF AppendOk
  <2>4. Writing \in SoundLine
    BY <1>1, WritingIsALine
  <2>5. ASSUME NEW i \in 1 .. Len(closed') PROVE closed'[i] # Garbage
    <3>1. (i \in 1 .. Len(closed) /\ closed'[i] = closed[i]) \/ closed'[i] = Writing
      BY <1>4, <2>3, <2>4
    <3> QED
      BY <1>3, <2>1, <3>1
  <2> QED
    BY <2>3, <2>5 DEF LogIsWhole
<1>10. CASE AppendErr
  BY <1>2, <1>10 DEF AppendErr
<1>11. CASE Stops
  <2>1. Restart
    BY <1>2, <1>11 DEF Stops, Crash, PowerLoss
  <2>2. UNCHANGED << closed, tail, disk >> /\ phase' = "down"
    BY <2>1 DEF Restart, Stopped, file
  <2> QED
    BY <1>5, <2>2
<1>12. CASE UNCHANGED storeVars
  <2>1. UNCHANGED << closed, tail, disk, phase >>
    BY <1>12 DEF storeVars, file
  <2> QED
    BY <1>3, <1>5, <2>1
<1> QED
  BY <1>1, <1>6, <1>7, <1>8, <1>9, <1>10, <1>11, <1>12 DEF Steps

\* As long as no append fails and the server only stops between two requests,
\* a restart opens the log and rebuilds exactly the memory it had, for any
\* number of devices, readings and restarts: the log is whole and synced at
\* every moment (docs/runbook.md:13; lib.rs:180-193, 200-212).
THEOREM OrderlyRestartRebuilds == StoreSpec => []LogIsTheState
<1>1. StoreInit => LogIsWhole
  BY DEF StoreInit, LogIsWhole
<1>2. StoreInductive /\ LogIsWhole /\ [StoreNext]_storeVars => LogIsWhole'
  BY LogIsWholeNext
<1>3. ASSUME StoreInductive, LogIsWhole PROVE LogIsTheState
  <2> SUFFICES ASSUME Orderly PROVE LogIsTheState
    BY DEF LogIsTheState
  <2>1. Readable
    BY <1>3, WholeLines DEF StoreInductive, StoreShape
  <2>2. "io" \notin failures
    BY DEF Orderly
  <2>3. Serving => Shows(Current, Lines)
    BY <1>3, <2>1, <2>2 DEF StoreInductive, MemoryShown, MemoryIsReplay, Serving
  <2> QED
    BY <1>3, <2>1, <2>3 DEF LogIsWhole, LogIsTheState
<1> QED
  BY <1>1, <1>2, <1>3, StoreIsInductive, PTL DEF StoreSpec
=============================================================================
