--------------------------- MODULE EventLogProofs ---------------------------
(***************************************************************************)
(* What EventLog promises, for every set of Attempts, questions, requests  *)
(* and contents, every bound and every mix of faults: answers are kept,    *)
(* artifacts are whole, a restart loses nothing, and a command that was    *)
(* answered is not carried out again.                                      *)
(*                                                                         *)
(* The inductive invariant IInv has nine parts:                            *)
(*   TypesRight    the values a variable may have;                         *)
(*   Fits          what is written, waits or is being put stays in bounds; *)
(*   SectionRight  the operation in the critical section is one that was   *)
(*                 asked for, and what it has yet to commit is not stored; *)
(*   LogRight      memory, file and answers agree, unless a line of the    *)
(*                 file is damaged;                                        *)
(*   StoredRight   no damaged line is in memory;                           *)
(*   SoundRight    the same with sequence numbers, while the disk is sound;*)
(*   WrittenRight  every line that is on disk, in memory or on its way to  *)
(*                 them says something that is so;                         *)
(*   PipeRight     so does what waits for the critical section;            *)
(*   RebuildRight  where nothing is under way for an Attempt, projection,  *)
(*                 index and log agree about it, unless it was recorded    *)
(*                 while it was being deleted.                             *)
(***************************************************************************)
EXTENDS EventLog, TLAPS, FiniteSetTheorems, SequenceTheorems

\* What commands commit before their own event.
FillerLines ==
  {Line("task.changed", DispatchKey(r), None) : r \in Requests}
    \cup {Line("attempt.activity.changed", ActivityKey(r.about), r.about) : r \in Requests}
    \cup {Line("attempt.session.changed", SessionKey(r.about, n), r.about) :
            r \in Requests, n \in 0..(3 * MaxLines)}

\* What may wait for the critical section.
Ops ==
  {Changed(a, v) : a \in Attempts, v \in 1..MaxVersion} \cup {Opened(q) : q \in Questions}
    \cup {Verified(c) : c \in Contents} \cup {Asked(r) : r \in Requests}

\* The events the Runtime writes, and the lines a file may have.
GoodLines == FillerLines \cup {Own(op) : op \in Ops}

AllLines == GoodLines \cup {Line("attempt.recorded", LegacyKey(a), a) : a \in Attempts} \cup {Damaged}

\* Every variable has its type, and only what was absent is being put.
TypesRight ==
  /\ setting \in Settings /\ up \in {"down", "up", "refused"} /\ unended \in BOOLEAN
  /\ index \in [Attempts -> (0..MaxVersion) \cup {None}]
  /\ projection \in [Attempts -> (0..MaxVersion) \cup {None}]
  /\ artifacts \in [Contents -> {"absent", "partial", "whole"}]
  /\ answered \in [Keys -> Nat]
  /\ versions \in [Attempts -> 0..MaxVersion]
  /\ given = [q \in Questions |-> given[q]]
  /\ pending \subseteq Questions
  /\ IsFiniteSet(puts) /\ IsFiniteSet(refreshing)
  /\ puts \subseteq Contents /\ refreshing \subseteq {r \in Requests : r.kind = "refresh"}
  /\ \A c \in puts : artifacts[c] = "partial"
  /\ file \in Seq(AllLines) /\ stored \in Seq(AllLines) /\ queue \in Seq(Ops)

\* The lines that the operation in the critical section may yet write.
Left ==
  CASE section.pc = "effect" -> 3
    [] section.pc = "write"  -> Len(section.op.lines)
    [] section.pc = "sync"   -> Len(section.op.lines) - 1
    [] OTHER                 -> 0

Waiting == Len(queue) + Cardinality(puts) + Cardinality(refreshing)

Fits == Len(file) + 3 * Waiting + Left <= 3 * MaxLines

Writing == section.pc \in {"write", "sync"}

\* A command reaches the orchestration, and an event is written, while its key is not stored; a
\* deletion is stored when the index forgets the Attempt.
SectionRight ==
  /\ section = [pc |-> section.pc, op |-> section.op]
  /\ section.pc \in {"idle", "effect", "write", "sync", "unindex"}
  /\ section.pc = "idle" => section = Idle
  /\ section.pc = "effect" =>
       \E r \in Requests : r.kind # "refresh" /\ section.op = Asked(r) /\ r.key \notin remembered
  /\ Writing =>
       LET lines == section.op.lines
       IN  /\ section.op = [kind |-> section.op.kind, lines |-> lines]
           /\ lines \in Seq(GoodLines) /\ Len(lines) \in 1..3
           /\ Op(section.op.kind, Own(section.op)) \in Ops
           /\ section.op.kind \in {"append", "delete", "respond"} => Len(lines) = 1
           /\ \A i \in 1..(Len(lines) - 1) : lines[i] \in FillerLines
           /\ \A i \in 1..Len(lines) : lines[i].key \notin remembered
           /\ \A i, j \in 1..Len(lines) : i # j => lines[i].key # lines[j].key
  /\ section.pc = "unindex" =>
       \E r \in Requests : /\ r.kind = "delete" /\ section.op = Asked(r)
                           /\ Len(stored) > 0 /\ stored[Len(stored)] = EventOf(r)

\* A line is damaged: no Runtime starts with this file any more.
Harmed(lines) == \E i \in 1..Len(lines) : lines[i] = Damaged

\* The keys in memory are those of the log, the log is in the file, and what was answered is in
\* both, unless a line of the file is damaged; a Runtime that is down has nothing in memory.
LogRight ==
  /\ up = "up" => remembered = KeysOf(stored)
  /\ up # "up" => /\ queue = <<>> /\ section = Idle /\ puts = {} /\ refreshing = {}
                  /\ pending = {} /\ stored = <<>> /\ remembered = {}
  /\ unended => Len(file) > 0
  /\ section.pc = "sync" =>
       /\ unended = FALSE
       /\ Harmed(file) \/ (Len(file) > 0 /\ file[Len(file)] = Head(section.op.lines))
  /\ up = "up" => \A k \in Keys : answered[k] # 0 => k \in KeysOf(stored)
  /\ Harmed(file) \/ \A k \in Keys : answered[k] # 0 => k \in KeysOf(file)
  /\ Harmed(file) \/ KeysOf(stored) \subseteq KeysOf(file)

\* What is in memory was read or written as an event.
StoredRight == \A i \in 1..Len(stored) : stored[i] # Damaged

\* While the disk is sound the file is the log, and the line that waits for its sync; an answer
\* named the line with its key.
SoundRight ==
  DiskIsSound =>
    /\ unended = FALSE /\ Readable(file) /\ up # "refused"
    /\ up = "up" => file = IF section.pc = "sync" THEN Append(stored, Head(section.op.lines)) ELSE stored
    /\ \A k \in Keys : answered[k] # 0 => answered[k] <= Len(file) /\ file[answered[k]].key = k
    /\ up = "up" => \A k \in Keys : answered[k] # 0 => answered[k] <= Len(stored)

\* The lines on disk, in memory and in the critical section.
Elements(lines) == {lines[i] : i \in 1..Len(lines)}
Written ==
  Elements(file) \cup Elements(stored) \cup (IF Writing THEN Elements(section.op.lines) ELSE {})

\* What a line that is written says is so.
LineRight(line) ==
  /\ line.type = "attempt.changed" => line.key[3] <= versions[line.about]
  /\ line.type = "verification.recorded" => artifacts[line.about] = "whole"
  /\ line.type = "intervention.resolved" =>
       line.about \in Questions /\ line.key \in Keys /\ given[line.about] = line.key

WrittenRight == \A line \in Written : LineRight(line)

\* What is under way, the operation in the critical section first.
PipeOf(inside, waiting) ==
  IF inside.pc = "idle" THEN waiting
  ELSE <<Op(inside.op.kind, Own(inside.op))>> \o waiting

Pipe == PipeOf(section, queue)

\* The records of an Attempt.
Recording(a) == {Changed(a, v) : v \in 1..MaxVersion}
VersionIn(op) == Own(op).key[3]

\* The versions of an Attempt that are under way: drawn, not yet stored, in the order they were
\* drawn, the last of them in the index.  Those that were recorded while the Attempt was being
\* deleted may wait behind its deletion, and the index may have forgotten them.
VersionsOrdered(pipe, drawn, keys, indexed, late) ==
  \A i \in 1..Len(pipe), a \in Attempts : pipe[i] \in Recording(a) =>
    /\ VersionIn(pipe[i]) <= drawn[a]
    /\ Own(pipe[i]).key \notin keys
    /\ \/ VersionIn(pipe[i]) = indexed[a]
       \/ indexed[a] = None /\ <<a, VersionIn(pipe[i])>> \in late
       \/ \E j \in (i+1)..Len(pipe) : pipe[j] \in Recording(a)
    /\ \A j \in (i+1)..Len(pipe) : pipe[j] \in Recording(a) => VersionIn(pipe[i]) < VersionIn(pipe[j])
    /\ \A j \in 1..(i-1) :
         pipe[j].kind = "delete" /\ Own(pipe[j]).about = a => <<a, VersionIn(pipe[i])>> \in late

\* An artifact that an event under way names is whole.
ArtifactsThere(pipe, kept) ==
  \A i \in 1..Len(pipe), c \in Contents : pipe[i] = Verified(c) => kept[c] = "whole"

Opening(pipe, q) == \E i \in 1..Len(pipe) : pipe[i] = Opened(q)

\* A question is under way or waits for its answer, once, and has none among these lines.
QuestionsOpen(pipe, waiting, told, lines) ==
  \A q \in Questions :
    /\ \A i, j \in 1..Len(pipe) : pipe[i] = Opened(q) /\ pipe[j] = Opened(q) => i = j
    /\ Opening(pipe, q) => q \notin waiting
    /\ q \in waiting \/ Opening(pipe, q) =>
         /\ told[q] = "asked"
         /\ \A line \in lines : ~(line.type = "intervention.resolved" /\ line.about = q)

PipeRight ==
  /\ VersionsOrdered(Pipe, versions, remembered, index, behind)
  /\ ArtifactsThere(Pipe, artifacts)
  /\ QuestionsOpen(Pipe, pending, given, Written)

\* A version of the Attempt is under way, or the deletion of the Attempt from the index is.
Underway(pipe, a) == \E i \in 1..Len(pipe) : pipe[i] \in Recording(a)
Unindexing(a) == section.pc = "unindex" /\ Own(section.op).about = a

\* What is shown of the Attempt is what a restart would rebuild, or a version that was recorded
\* while the Attempt was being deleted and that neither index nor log has.
AsRebuilt(shown, indexed, lines, late, a) ==
  \/ shown[a] = IF indexed[a] = None THEN Replayed(lines)[a] ELSE indexed[a]
  \/ indexed[a] = None /\ Replayed(lines)[a] = None /\ <<a, shown[a]>> \in late

\* An Attempt that was recorded while it was being deleted and is not in the index is deleted.
Forgotten(indexed, lines, late, a) ==
  indexed[a] = None /\ (\E v : <<a, v>> \in late) => Replayed(lines)[a] = None

\* Where nothing is under way, the projection is what a restart would rebuild.
RebuildRight ==
  /\ up # "up" => behind = {}
  /\ DiskIsSound /\ up = "up" =>
       \A a \in Attempts :
         /\ Unindexing(a) => projection[a] = None
         /\ Forgotten(index, stored, behind, a)
         /\ ~Unindexing(a) /\ ~Underway(Pipe, a) => AsRebuilt(projection, index, stored, behind, a)

-----------------------------------------------------------------------------
(* Lines and operations *)

LEMMA RequestFacts ==
  ASSUME NEW r \in Requests
  PROVE  /\ r.kind \in CommandKinds /\ r.kind # "append" /\ r.key \in Keys
         /\ \E n \in Nat : r.key = <<"command", n>>
BY RequestAssumption DEF RequestRecords, CommandKinds, Keys

\* An operation that waits is one event and its kind.
LEMMA OpFacts ==
  ASSUME NEW op \in Ops
  PROVE  /\ op = Op(op.kind, Own(op)) /\ op.lines = <<Own(op)>> /\ Len(op.lines) = 1
         /\ Head(op.lines) = Own(op) /\ Own(op) \in GoodLines
         /\ op = [kind |-> op.kind, lines |-> op.lines]
BY DEF Ops, GoodLines, Op, Own, Changed, Opened, Verified, Asked

LEMMA OpKinds ==
  ASSUME NEW op \in Ops
  PROVE  /\ op.kind = "append" =>
              \/ \E a \in Attempts, v \in 1..MaxVersion : op = Changed(a, v)
              \/ \E q \in Questions : op = Opened(q)
              \/ \E c \in Contents : op = Verified(c)
         /\ op.kind # "append" => \E r \in Requests : op = Asked(r) /\ op.kind = r.kind
BY RequestFacts DEF Ops, Op, Changed, Opened, Verified, Asked

\* What the fields of the operations are.
LEMMA OpFields ==
  /\ \A a, v : /\ Own(Changed(a, v)) = Line("attempt.changed", RecordKey(a, v), a)
               /\ Changed(a, v).kind = "append"
  /\ \A q : /\ Own(Opened(q)) = Line("intervention.requested", QuestionKey(q), q)
            /\ Opened(q).kind = "append"
  /\ \A c : /\ Own(Verified(c)) = Line("verification.recorded", ArtifactKey(c), c)
            /\ Verified(c).kind = "append"
  /\ \A r : Own(Asked(r)) = EventOf(r) /\ Asked(r).kind = r.kind
BY DEF Op, Own, Changed, Opened, Verified, Asked

LEMMA LineFields ==
  ASSUME NEW type, NEW key, NEW about
  PROVE  /\ Line(type, key, about).type = type /\ Line(type, key, about).key = key
         /\ Line(type, key, about).about = about
BY DEF Line

LEMMA EventFields ==
  ASSUME NEW r \in Requests
  PROVE  /\ EventOf(r).key = r.key /\ EventOf(r).about = r.about
         /\ EventOf(r).type \in {"attempt.deleted", "review.decided", "intervention.resolved",
                                 "runtime.command.requested"}
         /\ EventOf(r).type = "attempt.deleted" <=> r.kind = "delete"
         /\ EventOf(r).type = "intervention.resolved" <=> r.kind = "respond"
BY DEF EventOf, Line

LEMMA FillerFacts ==
  ASSUME NEW line \in FillerLines
  PROVE  /\ line.type \in {"task.changed", "attempt.activity.changed", "attempt.session.changed"}
         /\ \E x : line.key = <<"enable-task-dispatch", x>>
               \/ line.key = <<"activity-change", x>>
               \/ \E n : line.key = <<"session-change", x, n>>
BY DEF FillerLines, Line, DispatchKey, ActivityKey, SessionKey

\* The type of an event says which it is.
LEMMA LineKinds ==
  ASSUME NEW line \in GoodLines
  PROVE  /\ line # Damaged /\ line.type # "attempt.recorded"
         /\ line.type = "attempt.changed" =>
              \E a \in Attempts, v \in 1..MaxVersion : line = Own(Changed(a, v))
         /\ line.type = "intervention.requested" => \E q \in Questions : line = Own(Opened(q))
         /\ line.type = "verification.recorded" => \E c \in Contents : line = Own(Verified(c))
         /\ line.type \in {"attempt.deleted", "intervention.resolved"} =>
              \E r \in Requests : line = EventOf(r)
<1>1. CASE line \in FillerLines
  BY <1>1, FillerFacts DEF Damaged, Line
<1>2. CASE \E a \in Attempts, v \in 1..MaxVersion : line = Own(Changed(a, v))
  BY <1>2, OpFields DEF Damaged, Line
<1>3. CASE \E q \in Questions : line = Own(Opened(q))
  BY <1>3, OpFields DEF Damaged, Line
<1>4. CASE \E c \in Contents : line = Own(Verified(c))
  BY <1>4, OpFields DEF Damaged, Line
<1>5. CASE \E r \in Requests : line = EventOf(r)
  BY <1>5, EventFields, LineFields DEF Damaged
<1> QED
  BY <1>1, <1>2, <1>3, <1>4, <1>5, OpFields DEF GoodLines, Ops

\* The key of a version of an Attempt is the key of no other event.
LEMMA RecordKeyIsOwn ==
  ASSUME NEW line \in AllLines, NEW a, NEW v, line.key = RecordKey(a, v), line # Damaged
  PROVE  line.type = "attempt.changed" /\ line.about = a /\ line.key[3] = v
<1>1. RecordKey(a, v)[1] = "attempt-change" /\ RecordKey(a, v)[2] = a /\ RecordKey(a, v)[3] = v
  BY DEF RecordKey
<1>2. line \notin FillerLines
  BY <1>1, FillerFacts
<1>3. ASSUME NEW b \in Attempts, NEW w \in 1..MaxVersion, line = Own(Changed(b, w))
      PROVE  line.type = "attempt.changed" /\ line.about = a /\ line.key[3] = v
  <2>1. line = Line("attempt.changed", RecordKey(b, w), b)
    BY <1>3, OpFields
  <2>2. line.type = "attempt.changed" /\ line.key = RecordKey(b, w) /\ line.about = b
    BY <2>1, LineFields
  <2>3. RecordKey(b, w)[2] = b /\ RecordKey(b, w)[3] = w
    BY DEF RecordKey
  <2> QED
    BY <1>1, <2>2, <2>3
<1>4. \A q : line # Own(Opened(q))
  <2>1. ASSUME NEW q
        PROVE  Own(Opened(q)).key = QuestionKey(q) /\ QuestionKey(q)[1] = "intervention"
    <3>1. Own(Opened(q)) = Line("intervention.requested", QuestionKey(q), q)
      BY OpFields
    <3>2. QuestionKey(q)[1] = "intervention"
      BY DEF QuestionKey
    <3> QED
      BY <3>1, <3>2, LineFields
  <2> QED
    BY <1>1, <2>1
<1>5. \A c : line # Own(Verified(c))
  <2>1. ASSUME NEW c
        PROVE  Own(Verified(c)).key = ArtifactKey(c) /\ ArtifactKey(c)[1] = "verification"
    <3>1. Own(Verified(c)) = Line("verification.recorded", ArtifactKey(c), c)
      BY OpFields
    <3>2. ArtifactKey(c)[1] = "verification"
      BY DEF ArtifactKey
    <3> QED
      BY <3>1, <3>2, LineFields
  <2> QED
    BY <1>1, <2>1
<1>6. \A r \in Requests : line # EventOf(r)
  BY <1>1, EventFields, RequestFacts
<1>7. \A b : line # Line("attempt.recorded", LegacyKey(b), b)
  <2>1. \A b : Line("attempt.recorded", LegacyKey(b), b).key = LegacyKey(b) /\ LegacyKey(b)[1] = "legacy"
    BY LineFields DEF LegacyKey
  <2> QED
    BY <1>1, <2>1
<1>8. \A r \in Requests : Own(Asked(r)) = EventOf(r)
  BY OpFields
<1> QED
  BY <1>2, <1>3, <1>4, <1>5, <1>6, <1>7, <1>8 DEF AllLines, GoodLines, Ops

LEMMA AllLinesFacts == GoodLines \subseteq AllLines /\ Damaged \in AllLines
BY DEF AllLines

\* What a line does to the file.
LEMMA PutFacts ==
  ASSUME file \in Seq(AllLines), unended => Len(file) > 0, NEW line \in AllLines
  PROVE  /\ Put(line) \in Seq(AllLines) /\ Len(Put(line)) <= Len(file) + 1 /\ Len(Put(line)) > 0
         /\ Harmed(file) => Harmed(Put(line))
         /\ Harmed(Put(line)) \/ KeysOf(file) \subseteq KeysOf(Put(line))
         /\ Harmed(Put(line)) \/ Put(line)[Len(Put(line))] = line
         /\ Elements(Put(line)) \subseteq Elements(file) \cup {line, Damaged}
<1>1. CASE unended
  <2> DEFINE lines == [file EXCEPT ![Len(file)] = Damaged]
  <2>1. Put(line) = lines
    BY <1>1 DEF Put
  <2>2. lines \in Seq(AllLines) /\ Len(lines) = Len(file) /\ Len(file) \in Nat /\ Len(file) > 0
    BY <1>1, AllLinesFacts
  <2>0. DOMAIN file = 1..Len(file) /\ Len(file) \in 1..Len(file)
    BY <2>2
  <2>3. lines[Len(file)] = Damaged /\ \A i \in 1..Len(file) : i # Len(file) => lines[i] = file[i]
    BY <2>0
  <2> HIDE DEF lines
  <2>4. Harmed(lines)
    BY <2>2, <2>3 DEF Harmed
  <2>5. Elements(lines) \subseteq Elements(file) \cup {line, Damaged}
    BY <2>2, <2>3 DEF Elements
  <2> QED
    BY <2>1, <2>2, <2>4, <2>5
<1>2. CASE ~unended
  <2> DEFINE lines == Append(file, line)
  <2>1. Put(line) = lines
    BY <1>2 DEF Put
  <2>2. lines \in Seq(AllLines) /\ Len(lines) = Len(file) + 1 /\ Len(file) \in Nat
    OBVIOUS
  <2>3. lines[Len(file) + 1] = line /\ \A i \in 1..Len(file) : lines[i] = file[i]
    OBVIOUS
  <2> HIDE DEF lines
  <2>4. Harmed(file) => Harmed(lines)
    BY <2>2, <2>3 DEF Harmed
  <2>5. Elements(lines) \subseteq Elements(file) \cup {line, Damaged}
    BY <2>2, <2>3 DEF Elements
  <2>6. KeysOf(file) \subseteq KeysOf(lines)
    BY <2>2, <2>3 DEF KeysOf
  <2> QED
    BY <2>1, <2>2, <2>3, <2>4, <2>5, <2>6
<1> QED
  BY <1>1, <1>2

\* The operation in the critical section: its lines, and its own the last.
LEMMA WritingFacts ==
  ASSUME SectionRight, Writing
  PROVE  /\ section.op.lines \in Seq(GoodLines) /\ Len(section.op.lines) \in 1..3
         /\ Head(section.op.lines) = section.op.lines[1]
         /\ Head(section.op.lines) \in GoodLines /\ Head(section.op.lines) \in AllLines
         /\ Own(section.op) \in GoodLines
         /\ Own(section.op) = section.op.lines[Len(section.op.lines)]
BY AllLinesFacts DEF SectionRight, Own

\* The lines of a tear are put, or nothing is.
LEMMA TearIsPut ==
  ASSUME NEW line, TearLine(line)
  PROVE  UNCHANGED <<file, unended>> \/ file' = Put(line) \/ file' = Put(Damaged)
BY DEF TearLine

-----------------------------------------------------------------------------
(* Types *)

LEMMA AsksAreOps ==
  /\ \A a \in Attempts, v \in 1..MaxVersion : Changed(a, v) \in Ops
  /\ \A q \in Questions : Opened(q) \in Ops
  /\ \A c \in Contents : Verified(c) \in Ops
  /\ \A r \in Requests : Asked(r) \in Ops
BY DEF Ops

LEMMA ReplayedType == \A lines : Replayed(lines) \in [Attempts -> {0, None}]
BY DEF Replayed

LEMMA InitTypes == Init => TypesRight
<1> SUFFICES ASSUME Init PROVE TypesRight
  OBVIOUS
<1>1. file \in Seq(AllLines)
  <2>1. PICK legacy \in SUBSET setting.attempts :
          file = IF legacy = {} THEN <<>>
                 ELSE <<Line("attempt.recorded", LegacyKey(CHOOSE x \in legacy : TRUE),
                             CHOOSE x \in legacy : TRUE)>>
    BY DEF Init
  <2>2. setting.attempts \subseteq Attempts
    BY SettingAssumption DEF Init, SettingRecords
  <2>3. CASE legacy = {}
    BY <2>1, <2>3
  <2>4. CASE legacy # {}
    <3>1. PICK a \in Attempts : a = CHOOSE x \in legacy : TRUE
      BY <2>2, <2>4
    <3>2. file = <<Line("attempt.recorded", LegacyKey(a), a)>>
      BY <2>1, <2>4, <3>1
    <3>3. Line("attempt.recorded", LegacyKey(a), a) \in AllLines
      BY DEF AllLines
    <3> QED
      BY <3>2, <3>3
  <2> QED
    BY <2>3, <2>4
<1>2. /\ setting \in Settings /\ up \in {"down", "up", "refused"} /\ unended \in BOOLEAN
  BY DEF Init
<1>6. stored = <<>> /\ queue = <<>>
  BY DEF Init
<1>3. /\ index \in [Attempts -> (0..MaxVersion) \cup {None}]
      /\ projection \in [Attempts -> (0..MaxVersion) \cup {None}]
      /\ versions \in [Attempts -> 0..MaxVersion]
  BY LogBounds DEF Init
<1>4. /\ artifacts \in [Contents -> {"absent", "partial", "whole"}] /\ answered \in [Keys -> Nat]
      /\ given = [q \in Questions |-> given[q]] /\ pending \subseteq Questions
      /\ puts \subseteq Contents /\ refreshing \subseteq {r \in Requests : r.kind = "refresh"}
      /\ \A c \in puts : artifacts[c] = "partial"
  BY DEF Init
<1>5. IsFiniteSet(puts) /\ IsFiniteSet(refreshing)
  BY FS_EmptySet DEF Init
<1> QED
  BY <1>1, <1>2, <1>3, <1>4, <1>5, <1>6 DEF TypesRight

LEMMA AddedType ==
  ASSUME TypesRight, NEW op \in Ops, queue' = Append(queue, op)
  PROVE  queue' \in Seq(Ops)
BY DEF TypesRight

LEMMA RecordTypes ==
  ASSUME TypesRight, NEW a \in Attempts, RecordAttempt(a)
  PROVE  TypesRight'
<1>1. versions[a] + 1 \in 1..MaxVersion
  BY LogBounds DEF RecordAttempt, TypesRight
<1>2. queue' \in Seq(Ops)
  BY <1>1, AddedType, AsksAreOps DEF RecordAttempt
<1>3. versions' \in [Attempts -> 0..MaxVersion] /\ index' \in [Attempts -> (0..MaxVersion) \cup {None}]
  BY <1>1 DEF RecordAttempt, TypesRight, Upserted
<1> QED
  BY <1>2, <1>3 DEF RecordAttempt, TypesRight, memory, live

LEMMA CommandTypes ==
  ASSUME TypesRight, NEW r \in Requests, Command(r)
  PROVE  TypesRight'
<1>1. queue' \in Seq(Ops)
  BY AddedType, AsksAreOps DEF Command
<1> QED
  BY <1>1 DEF Command, TypesRight, memory, live, disk

\* The sequence number of a key that is stored.
LEMMA SequenceFacts ==
  ASSUME NEW key \in KeysOf(stored), stored \in Seq(AllLines)
  PROVE  /\ SequenceOf(key) \in 1..Len(stored) /\ stored[SequenceOf(key)].key = key
         /\ SequenceOf(key) \in Nat /\ SequenceOf(key) # 0
<1>1. \E i \in 1..Len(stored) : stored[i].key = key
  BY DEF KeysOf
<1>2. SequenceOf(key) \in 1..Len(stored) /\ stored[SequenceOf(key)].key = key
  BY <1>1 DEF SequenceOf
<1> QED
  BY <1>2

LEMMA RefreshTypes ==
  ASSUME TypesRight, LogRight, NEW r \in Requests, RefreshTracker(r)
  PROVE  TypesRight'
<1>0. r.key \in Keys
  BY RequestFacts
<1>1. CASE r.key \in remembered
  <2>1. r.key \in KeysOf(stored)
    BY <1>1 DEF LogRight, RefreshTracker
  <2>2. answered' = [answered EXCEPT ![r.key] = SequenceOf(r.key)] /\ refreshing' = refreshing
    BY <1>1 DEF RefreshTracker, SequenceOf
  <2>3. answered' \in [Keys -> Nat]
    BY <2>1, <2>2, SequenceFacts DEF TypesRight
  <2> QED
    BY <2>2, <2>3 DEF RefreshTracker, TypesRight, memory, disk
<1>2. CASE r.key \notin remembered
  <2>1. refreshing' = refreshing \cup {r} /\ answered' = answered /\ r.kind = "refresh"
    BY <1>2 DEF RefreshTracker
  <2>2. IsFiniteSet(refreshing')
    BY <2>1, FS_AddElement DEF TypesRight
  <2> QED
    BY <2>1, <2>2 DEF RefreshTracker, TypesRight, memory, disk
<1> QED
  BY <1>1, <1>2

LEMMA RefreshedTypes ==
  ASSUME TypesRight, NEW r \in Requests, Refreshed(r)
  PROVE  TypesRight'
<1>1. queue' \in Seq(Ops)
  BY AddedType, AsksAreOps DEF Refreshed, TypesRight
<1>2. IsFiniteSet(refreshing') /\ refreshing' \subseteq refreshing
  BY FS_RemoveElement DEF Refreshed, TypesRight
<1> QED
  BY <1>1, <1>2 DEF Refreshed, TypesRight, memory, disk

LEMMA AskTypes ==
  ASSUME TypesRight, NEW q \in Questions, Ask(q)
  PROVE  TypesRight'
<1>1. queue' \in Seq(Ops)
  BY AddedType, AsksAreOps DEF Ask
<1>2. given' = [p \in Questions |-> given'[p]]
  BY DEF Ask, TypesRight
<1> QED
  BY <1>1, <1>2 DEF Ask, TypesRight, memory, disk

LEMMA PutTypes ==
  ASSUME TypesRight, NEW c \in Contents, PutArtifact(c)
  PROVE  TypesRight'
<1>1. puts' = puts \cup {c} /\ artifacts' = [artifacts EXCEPT ![c] = "partial"]
  BY DEF PutArtifact
<1>2. IsFiniteSet(puts')
  BY <1>1, FS_AddElement DEF TypesRight
<1>3. artifacts' \in [Contents -> {"absent", "partial", "whole"}] /\ \A d \in puts' : artifacts'[d] = "partial"
  BY <1>1 DEF TypesRight
<1> QED
  BY <1>1, <1>2, <1>3 DEF PutArtifact, TypesRight, memory, live

LEMMA ArtifactPutTypes ==
  ASSUME TypesRight, NEW c \in Contents, ArtifactPut(c)
  PROVE  TypesRight'
<1>1. IsFiniteSet(puts') /\ puts' = puts \ {c}
  BY FS_RemoveElement DEF ArtifactPut, TypesRight
<1>2. queue' \in Seq(Ops)
  BY AddedType, AsksAreOps DEF ArtifactPut, TypesRight
<1>3. artifacts' \in [Contents -> {"absent", "partial", "whole"}] /\ \A d \in puts' : artifacts'[d] = "partial"
  BY <1>1 DEF ArtifactPut, TypesRight
<1> QED
  BY <1>1, <1>2, <1>3 DEF ArtifactPut, TypesRight, memory, live

LEMMA PutAgainTypes ==
  ASSUME TypesRight, NEW c \in Contents, PutAgain(c)
  PROVE  TypesRight'
<1>1. queue' \in Seq(Ops)
  BY AddedType, AsksAreOps DEF PutAgain
<1> QED
  BY <1>1 DEF PutAgain, TypesRight, memory, live, disk

LEMMA StartTypes ==
  ASSUME TypesRight, Start
  PROVE  TypesRight'
<1>1. index' \in [Attempts -> (0..MaxVersion) \cup {None}]
  BY ReplayedType, LogBounds DEF Start, TypesRight
<1>2. projection' \in [Attempts -> (0..MaxVersion) \cup {None}]
  <2>1. projection' = projection \/ projection' = Overlaid(file, index)
    BY DEF Start
  <2>2. Replayed(file) \in [Attempts -> {0, None}] /\ 0 \in 0..MaxVersion
    BY ReplayedType, LogBounds
  <2>3. Overlaid(file, index) \in [Attempts -> (0..MaxVersion) \cup {None}]
    BY <2>2 DEF Overlaid, TypesRight
  <2> QED
    BY <2>1, <2>3 DEF TypesRight
<1>3. stored' \in Seq(AllLines) /\ up' \in {"down", "up", "refused"}
  BY DEF Start, TypesRight
<1> QED
  BY <1>1, <1>2, <1>3 DEF Start, TypesRight, live

LEMMA EnterTypes ==
  ASSUME TypesRight, LogRight, Enter
  PROVE  TypesRight'
<1> DEFINE op == Head(queue)
<1>1. queue' = Tail(queue) /\ queue # <<>>
  BY DEF Enter
<1>2. queue' \in Seq(Ops) /\ op \in Ops
  BY <1>1 DEF TypesRight
<1>3. answered' \in [Keys -> Nat]
  <2>1. CASE Known(op) /\ IsCommand(op)
    <3>1. PICK r \in Requests : op = Asked(r)
      BY <1>2, <2>1, OpKinds DEF IsCommand
    <3>2. Own(op).key \in Keys
      BY <3>1, OpFields, EventFields, RequestFacts
    <3>3. Own(op).key \in KeysOf(stored)
      BY <2>1 DEF Known, LogRight, Enter
    <3>4. answered' = [answered EXCEPT ![Own(op).key] = SequenceOf(Own(op).key)]
      BY <2>1 DEF Enter, Answer
    <3> QED
      BY <3>2, <3>3, <3>4, SequenceFacts DEF TypesRight
  <2>2. CASE ~(Known(op) /\ IsCommand(op))
    BY <2>2 DEF Enter, TypesRight
  <2> QED
    BY <2>1, <2>2
<1> QED
  BY <1>2, <1>3 DEF Enter, TypesRight, disk, memory, live

LEMMA EffectTypes ==
  ASSUME TypesRight, Effect
  PROVE  TypesRight'
<1>1. pending' \subseteq Questions /\ given' = [q \in Questions |-> given'[q]]
  BY DEF Effect, TypesRight, GiveAnswer
<1> QED
  BY <1>1 DEF Effect, TypesRight, disk, memory

LEMMA WriteTypes ==
  ASSUME TypesRight, SectionRight, LogRight, Write
  PROVE  TypesRight'
<1>1. Writing
  BY DEF Write, Writing
<1>2. PICK line \in AllLines : UNCHANGED <<file, unended>> \/ (file' = Put(line) /\ unended' \in BOOLEAN)
  <2>1. Head(section.op.lines) \in AllLines /\ Damaged \in AllLines
    BY <1>1, WritingFacts, AllLinesFacts
  <2> QED
    BY <2>1 DEF Write, WriteLine, TearLine
<1>3. file' \in Seq(AllLines) /\ unended' \in BOOLEAN
  BY <1>2, PutFacts DEF TypesRight, LogRight
<1> QED
  BY <1>3 DEF Write, TypesRight, memory, live

LEMMA AppliedType ==
  ASSUME TypesRight, NEW line \in GoodLines
  PROVE  Applied(line) \in [Attempts -> (0..MaxVersion) \cup {None}]
<1>1. CASE line.type = "attempt.changed"
  <2>1. PICK a \in Attempts, v \in 1..MaxVersion : line = Own(Changed(a, v))
    BY <1>1, LineKinds
  <2>2. line.key = RecordKey(a, v)
    BY <2>1, OpFields, LineFields
  <2>3. line.key[3] = v
    BY <2>2 DEF RecordKey
  <2>4. Applied(line) = [projection EXCEPT ![line.about] = v]
    BY <1>1, <2>3 DEF Applied
  <2>5. v \in (0..MaxVersion) \cup {None} /\ projection \in [Attempts -> (0..MaxVersion) \cup {None}]
    BY LogBounds DEF TypesRight
  <2> QED
    BY <2>4, <2>5
<1> QED
  BY <1>1 DEF Applied, TypesRight

LEMMA SyncTypes ==
  ASSUME TypesRight, SectionRight, Sync
  PROVE  TypesRight'
<1> DEFINE line == Head(section.op.lines)
<1>1. Writing
  BY DEF Sync, Writing
<1>2. line \in GoodLines /\ line \in AllLines
  BY <1>1, WritingFacts
<1>3. stored' \in Seq(AllLines)
  <2>1. stored' = Append(stored, line) \/ stored' = stored
    BY DEF Sync
  <2>2. stored \in Seq(AllLines)
    BY DEF TypesRight
  <2> HIDE DEF line
  <2> QED
    BY <1>2, <2>1, <2>2
<1>4. projection' \in [Attempts -> (0..MaxVersion) \cup {None}]
  BY <1>2, AppliedType DEF Sync, TypesRight
<1>5. pending' \subseteq Questions
  <2>1. line.type = "intervention.requested" => line.about \in Questions
    <3> SUFFICES ASSUME line.type = "intervention.requested" PROVE line.about \in Questions
      OBVIOUS
    <3>1. PICK q \in Questions : line = Own(Opened(q))
      BY <1>2, LineKinds
    <3> QED
      BY <3>1, OpFields, LineFields
  <2> QED
    BY <2>1 DEF Sync, TypesRight
<1>6. answered' \in [Keys -> Nat]
  <2>1. NextSequence \in Nat
    BY DEF NextSequence, TypesRight
  <2>2. answered' = answered \/ answered' = [answered EXCEPT ![line.key] = NextSequence]
    BY DEF Sync, Answer
  <2> QED
    BY <2>1, <2>2 DEF TypesRight
<1> QED
  BY <1>3, <1>4, <1>5, <1>6 DEF Sync, TypesRight, disk

LEMMA UnindexTypes ==
  ASSUME TypesRight, SectionRight, Unindex
  PROVE  TypesRight'
<1>1. PICK r \in Requests : /\ section.op = Asked(r) /\ Len(stored) > 0
                            /\ stored[Len(stored)] = EventOf(r)
  BY DEF SectionRight, Unindex
<1>2. Own(section.op).key = r.key /\ r.key \in Keys
  BY <1>1, OpFields, EventFields, RequestFacts
<1>3. r.key \in KeysOf(stored)
  <2>1. Len(stored) \in 1..Len(stored) /\ stored[Len(stored)].key = r.key
    BY <1>1, EventFields DEF TypesRight
  <2> QED
    BY <2>1 DEF KeysOf
<1>4. answered' = [answered EXCEPT ![r.key] = SequenceOf(r.key)]
  BY <1>2 DEF Unindex, Answer
<1>5. answered' \in [Keys -> Nat]
  BY <1>2, <1>3, <1>4, SequenceFacts DEF TypesRight
<1>6. index' \in [Attempts -> (0..MaxVersion) \cup {None}]
  BY DEF Unindex, TypesRight
<1> QED
  BY <1>5, <1>6 DEF Unindex, TypesRight, memory, live

LEMMA CrashTypes ==
  ASSUME TypesRight, SectionRight, LogRight, Crash
  PROVE  TypesRight'
<1>1. file' \in Seq(AllLines) /\ unended' \in BOOLEAN
  <2>1. CASE section.pc = "write"
    <3>1. PICK line \in AllLines : UNCHANGED <<file, unended>> \/ (file' = Put(line) /\ unended' \in BOOLEAN)
      <4>1. Head(section.op.lines) \in AllLines /\ Damaged \in AllLines
        BY <2>1, WritingFacts, AllLinesFacts DEF Writing
      <4> QED
        BY <2>1, <4>1 DEF Crash, WriteLine, TearLine
    <3> QED
      BY <3>1, PutFacts DEF TypesRight, LogRight
  <2>2. CASE section.pc # "write"
    <3>1. \/ UNCHANGED <<file, unended>>
          \/ file # <<>> /\ file' = SubSeq(file, 1, Len(file) - 1) /\ UNCHANGED unended
          \/ file # <<>> /\ file' = [file EXCEPT ![Len(file)] = Damaged] /\ unended' = TRUE
      BY <2>2 DEF Crash
    <3>2. file # <<>> => SubSeq(file, 1, Len(file) - 1) \in Seq(AllLines)
      BY DEF TypesRight
    <3>3. file # <<>> => [file EXCEPT ![Len(file)] = Damaged] \in Seq(AllLines)
      BY AllLinesFacts DEF TypesRight
    <3> QED
      BY <3>1, <3>2, <3>3 DEF TypesRight
  <2> QED
    BY <2>1, <2>2
<1>2. projection' \in [Attempts -> (0..MaxVersion) \cup {None}]
  BY DEF Crash
<1>3. IsFiniteSet(puts') /\ IsFiniteSet(refreshing')
  BY FS_EmptySet DEF Crash
<1> QED
  BY <1>1, <1>2, <1>3 DEF Crash, TypesRight

-----------------------------------------------------------------------------
(* The bound on lines *)

LEMMA SizeTypes ==
  ASSUME TypesRight
  PROVE  /\ Len(file) \in Nat /\ Len(queue) \in Nat /\ Len(stored) \in Nat
         /\ Cardinality(puts) \in Nat /\ Cardinality(refreshing) \in Nat
BY FS_CardinalityType DEF TypesRight

LEMMA LeftBound ==
  ASSUME SectionRight
  PROVE  Left \in 0..3 /\ (section.pc = "idle" => Left = 0)
<1>1. CASE Writing
  BY <1>1, WritingFacts DEF Left, Writing
<1>2. CASE ~Writing
  BY <1>2 DEF Left, Writing
<1> QED
  BY <1>1, <1>2

LEMMA WaitingType == TypesRight => Waiting \in Nat
BY SizeTypes DEF Waiting

LEMMA RoomArithmetic ==
  ASSUME NEW f \in Nat, NEW w \in Nat, NEW l \in Nat, NEW s \in {0, 1}, NEW m \in Nat,
         f + w + s < m, l <= 3 * s
  PROVE  f + 3 * (w + 1) + l <= 3 * m
OBVIOUS

\* Where there is room, one operation more fits.
LEMMA RoomForOne ==
  ASSUME TypesRight, SectionRight, Room
  PROVE  Len(file) + 3 * (Waiting + 1) + Left <= 3 * MaxLines
<1>1. PICK s \in {0, 1} : /\ Len(file) + Waiting + s < MaxLines
                          /\ s = 0 => section.pc = "idle"
  <2>1. Len(file) + Len(queue) + Cardinality(puts) + Cardinality(refreshing) = Len(file) + Waiting
    BY SizeTypes DEF Waiting
  <2> QED
    BY <2>1 DEF Room
<1>2. Left \in Nat /\ Left <= 3 * s
  BY <1>1, LeftBound
<1> QED
  BY <1>1, <1>2, SizeTypes, WaitingType, LogBounds, RoomArithmetic

LEMMA SameLeft == ASSUME UNCHANGED section PROVE Left' = Left
BY DEF Left

LEMMA FitArithmetic ==
  ASSUME NEW f \in Nat, NEW w \in Nat, NEW v \in Nat, NEW l \in Nat, NEW m \in Nat,
         NEW room \in BOOLEAN,
         f + 3 * w + l <= 3 * m, room => f + 3 * (w + 1) + l <= 3 * m,
         v <= w \/ (room /\ v <= w + 1)
  PROVE  f + 3 * v + l <= 3 * m
OBVIOUS

\* What an operation asked for outside of the critical section does to the sizes.
LEMMA OutsideFits ==
  ASSUME TypesRight, SectionRight, Fits, UNCHANGED <<file, section>>,
         Waiting' \in Nat, Waiting' <= Waiting \/ (Room /\ Waiting' <= Waiting + 1)
  PROVE  Fits'
<1>1. Left' = Left /\ Left \in Nat /\ Len(file') = Len(file)
  BY SameLeft, LeftBound
<1>2. (Room = TRUE) => Len(file) + 3 * (Waiting + 1) + Left <= 3 * MaxLines
  BY RoomForOne
<1>3. Len(file) + 3 * Waiting + Left <= 3 * MaxLines
  BY DEF Fits
<1>4. Waiting' <= Waiting \/ ((Room = TRUE) /\ Waiting' <= Waiting + 1)
  OBVIOUS
<1>5. Len(file) + 3 * Waiting' + Left <= 3 * MaxLines
  BY <1>1, <1>2, <1>3, <1>4, SizeTypes, WaitingType, LogBounds, FitArithmetic
<1> QED
  BY <1>1, <1>5 DEF Fits

LEMMA AppendLen ==
  ASSUME TypesRight, NEW op \in Ops, queue' = Append(queue, op)
  PROVE  Len(queue') = Len(queue) + 1
BY DEF TypesRight

LEMMA OutsideActionsFit ==
  ASSUME TypesRight, SectionRight, Fits,
         \/ \E a \in Attempts : RecordAttempt(a)
         \/ \E r \in Requests : Command(r) \/ RefreshTracker(r) \/ Refreshed(r)
         \/ \E q \in Questions : Ask(q)
         \/ \E c \in Contents : PutArtifact(c) \/ ArtifactPut(c) \/ PutAgain(c)
  PROVE  Fits'
<1>1. UNCHANGED <<file, section>>
  BY DEF RecordAttempt, Command, RefreshTracker, Refreshed, Ask, PutArtifact, ArtifactPut, PutAgain,
         disk
<1>0. /\ Waiting = Len(queue) + Cardinality(puts) + Cardinality(refreshing)
      /\ Waiting' = Len(queue') + Cardinality(puts') + Cardinality(refreshing')
  BY DEF Waiting
<1> USE SizeTypes
<1>2. ASSUME NEW op \in Ops, queue' = Append(queue, op), UNCHANGED <<puts, refreshing>>, Room
      PROVE  Fits'
  <2>1. Len(queue') = Len(queue) + 1
    BY <1>2, AppendLen
  <2>2. Waiting' \in Nat /\ Waiting' <= Waiting + 1
    BY <1>0, <1>2, <2>1
  <2> QED
    BY <1>1, <1>2, <2>2, OutsideFits
<1>3. ASSUME NEW a \in Attempts, RecordAttempt(a) PROVE Fits'
  <2>1. versions[a] + 1 \in 1..MaxVersion
    BY <1>3, LogBounds DEF RecordAttempt, TypesRight
  <2> QED
    BY <1>2, <1>3, <2>1, AsksAreOps DEF RecordAttempt, live
<1>4. ASSUME NEW r \in Requests, Command(r) PROVE Fits'
  BY <1>2, <1>4, AsksAreOps DEF Command, live
<1>5. ASSUME NEW q \in Questions, Ask(q) PROVE Fits'
  BY <1>2, <1>5, AsksAreOps DEF Ask
<1>6. ASSUME NEW c \in Contents, PutAgain(c) PROVE Fits'
  BY <1>2, <1>6, AsksAreOps DEF PutAgain, live
<1>7. ASSUME NEW r \in Requests, RefreshTracker(r) PROVE Fits'
  <2>1. queue' = queue /\ puts' = puts /\ Room
    BY <1>7 DEF RefreshTracker
  <2>2. PICK n \in {0, 1} : Cardinality(refreshing') = Cardinality(refreshing) + n
    <3>1. CASE refreshing' = refreshing
      BY <3>1
    <3>2. CASE refreshing' = refreshing \cup {r}
      BY <1>7, <3>2, FS_AddElement DEF RefreshTracker, TypesRight
    <3> QED
      BY <1>7, <3>1, <3>2 DEF RefreshTracker
  <2>3. Waiting' \in Nat /\ Waiting' <= Waiting + 1
    BY <1>0, <2>1, <2>2
  <2> QED
    BY <1>1, <2>1, <2>3, OutsideFits
<1>8. ASSUME NEW r \in Requests, Refreshed(r) PROVE Fits'
  <2>1. Cardinality(refreshing') = Cardinality(refreshing) - 1
    BY <1>8, FS_RemoveElement DEF Refreshed, TypesRight
  <2>2. PICK q \in {0, 1} : Len(queue') = Len(queue) + q
    BY <1>8, AppendLen, AsksAreOps DEF Refreshed
  <2>3. puts' = puts
    BY <1>8 DEF Refreshed
  <2>4. Cardinality(refreshing') \in Nat
    BY <1>8, RefreshedTypes, FS_CardinalityType DEF TypesRight
  <2>5. Waiting' \in Nat /\ Waiting' <= Waiting
    BY <1>0, <2>1, <2>2, <2>3, <2>4
  <2> QED
    BY <1>1, <2>5, OutsideFits
<1>9. ASSUME NEW c \in Contents, PutArtifact(c) PROVE Fits'
  <2>1. c \notin puts
    BY <1>9 DEF PutArtifact, TypesRight
  <2>2. Cardinality(puts') = Cardinality(puts) + 1
    BY <1>9, <2>1, FS_AddElement DEF PutArtifact, TypesRight
  <2>3. queue' = queue /\ refreshing' = refreshing /\ Room
    BY <1>9 DEF PutArtifact, live
  <2>4. Waiting' \in Nat /\ Waiting' <= Waiting + 1
    BY <1>0, <2>2, <2>3
  <2> QED
    BY <1>1, <2>3, <2>4, OutsideFits
<1>10. ASSUME NEW c \in Contents, ArtifactPut(c) PROVE Fits'
  <2>1. Cardinality(puts') = Cardinality(puts) - 1
    BY <1>10, FS_RemoveElement DEF ArtifactPut, TypesRight
  <2>2. PICK q \in {0, 1} : Len(queue') = Len(queue) + q
    BY <1>10, AppendLen, AsksAreOps DEF ArtifactPut
  <2>3. refreshing' = refreshing
    BY <1>10 DEF ArtifactPut, live
  <2>4. Cardinality(puts') \in Nat
    BY <1>10, ArtifactPutTypes, FS_CardinalityType DEF TypesRight
  <2>5. Waiting' \in Nat /\ Waiting' <= Waiting
    BY <1>0, <2>1, <2>2, <2>3, <2>4
  <2> QED
    BY <1>1, <2>5, OutsideFits
<1> QED
  BY <1>3, <1>4, <1>5, <1>6, <1>7, <1>8, <1>9, <1>10

LEMMA InitFits == Init => Fits
<1> SUFFICES ASSUME Init PROVE Fits
  OBVIOUS
<1>1. Len(file) <= 1 /\ Len(file) \in Nat
  BY DEF Init
<1>2. Waiting = 0 /\ Left = 0
  BY FS_EmptySet DEF Init, Left, Idle, Waiting
<1> QED
  BY <1>1, <1>2, LogBounds DEF Fits

\* What a step of the critical section does to the sizes.
LEMMA InsideFits ==
  ASSUME TypesRight, SectionRight, Fits, Len(file') \in Nat, Left' \in Nat, Waiting' \in Nat,
         Len(file') + 3 * Waiting' + Left' <= Len(file) + 3 * Waiting + Left
  PROVE  Fits'
<1>1. Len(file) + 3 * Waiting + Left \in Nat /\ Len(file') + 3 * Waiting' + Left' \in Nat
  <2>1. Len(file) \in Nat /\ Waiting \in Nat /\ Left \in Nat
    <3>1. Len(file) \in Nat
      BY SizeTypes
    <3>2. Waiting \in Nat
      BY WaitingType
    <3>3. Left \in Nat
      BY LeftBound
    <3> QED
      BY <3>1, <3>2, <3>3
  <2>2. \A f, w, l \in Nat : f + 3 * w + l \in Nat
    OBVIOUS
  <2> QED
    BY <2>1, <2>2
<1>2. Len(file) + 3 * Waiting + Left <= 3 * MaxLines /\ 3 * MaxLines \in Nat
  BY LogBounds DEF Fits
<1>3. Len(file') + 3 * Waiting' + Left' <= 3 * MaxLines
  <2>1. \A x, y, z \in Nat : x <= y /\ y <= z => x <= z
    OBVIOUS
  <2> QED
    BY <1>1, <1>2, <2>1
<1> QED
  BY <1>3 DEF Fits

LEMMA EnterFits ==
  ASSUME TypesRight, SectionRight, Fits, Enter
  PROVE  Fits'
<1>1. /\ Len(queue') = Len(queue) - 1 /\ Len(queue') \in Nat
      /\ UNCHANGED <<file, puts, refreshing>>
  <2>1. queue' = Tail(queue) /\ queue # <<>> /\ queue \in Seq(Ops)
    BY DEF Enter, TypesRight
  <2>2. Len(Tail(queue)) = Len(queue) - 1 /\ Len(queue) # 0 /\ Len(queue) \in Nat
    BY <2>1
  <2>3. UNCHANGED <<file, puts, refreshing>>
    BY DEF Enter, disk, live
  <2> QED
    BY <2>1, <2>2, <2>3
<1>2. Waiting' = Waiting - 1 /\ Waiting' \in Nat
  BY <1>1, SizeTypes DEF Waiting
<1>3. Left = 0 /\ Left' \in 0..3
  <2>1. section.pc = "idle"
    BY DEF Enter
  <2>2. CASE section' = section
    BY <2>1, <2>2, SameLeft, LeftBound
  <2>3. CASE section' # section
    <3>1. /\ section'.pc \in {"write", "effect"} /\ section'.op = Head(queue)
      BY <2>3 DEF Enter, Goto
    <3>2. Head(queue) \in Ops
      BY DEF Enter, TypesRight
    <3>3. Len(section'.op.lines) = 1
      BY <3>1, <3>2, OpFacts
    <3>4. Left' \in {1, 3}
      BY <3>1, <3>3 DEF Left
    <3> QED
      BY <2>1, <3>4, LeftBound
  <2> QED
    BY <2>1, <2>2, <2>3, LeftBound
<1>4. Len(file') = Len(file) /\ Len(file') \in Nat
  BY <1>1, SizeTypes
<1>5. Len(file') + 3 * Waiting' + Left' <= Len(file) + 3 * Waiting + Left
  <2>1. \A f, w \in Nat, l \in 0..3 : f + 3 * (w - 1) + l <= f + 3 * w + 0
    OBVIOUS
  <2> QED
    BY <1>2, <1>3, <1>4, <2>1, WaitingType, SizeTypes
<1> QED
  BY <1>2, <1>3, <1>4, <1>5, InsideFits

LEMMA SectionFits ==
  ASSUME TypesRight, SectionRight, Fits, UNCHANGED <<queue, puts, refreshing>>,
         Len(file') \in Nat, Left' \in Nat, Len(file') + Left' <= Len(file) + Left
  PROVE  Fits'
<1>1. Waiting' = Waiting
  BY DEF Waiting
<1>2. Len(file') + 3 * Waiting' + Left' <= Len(file) + 3 * Waiting + Left
  <2>1. PICK w \in Nat, f \in Nat, g \in Nat, l \in Nat, k \in Nat :
          /\ w = Waiting /\ f = Len(file') /\ g = Len(file) /\ l = Left' /\ k = Left
    <3>1. Waiting \in Nat /\ Len(file) \in Nat /\ Left \in Nat
      BY SizeTypes, LeftBound, WaitingType
    <3> QED
      BY <3>1
  <2>2. f + l <= g + k
    BY <2>1
  <2>3. f + 3 * w + l <= g + 3 * w + k
    BY <2>2
  <2> QED
    BY <1>1, <2>1, <2>3
<1> QED
  BY <1>1, <1>2, WaitingType, InsideFits

LEMMA TwoLines == ASSUME NEW x, NEW y PROVE <<x>> \o <<y>> = <<x, y>>
<1> DEFINE s == <<x>> \o <<y>>
           t == <<x, y>>
<1>1. <<x>> \in Seq({x, y}) /\ <<y>> \in Seq({x, y})
  OBVIOUS
<1>2. s \in Seq({x, y}) /\ t \in Seq({x, y})
  BY <1>1
<1>3. Len(s) = 2 /\ s[1] = x /\ s[2] = y
  BY <1>1
<1>4. Len(t) = 2 /\ t[1] = x /\ t[2] = y
  OBVIOUS
<1> HIDE DEF s, t
<1>5. s = t
  BY <1>2, <1>3, <1>4, SeqEqual
<1> QED
  BY <1>5 DEF s, t

LEMMA NoneOrOne == /\ <<>> \o <<>> = <<>>
                   /\ \A x : <<x>> \o <<>> = <<x>> /\ <<>> \o <<x>> = <<x>>
OBVIOUS

\* Lines that are one or two of some are what those are.
LEMMA FewLines ==
  ASSUME NEW one \in FillerLines, NEW two \in FillerLines, one.key # two.key,
         NEW lines,
         \/ lines = <<>>
         \/ lines = <<one>> /\ one.key \notin remembered
         \/ lines = <<two>> /\ two.key \notin remembered
         \/ lines = <<one, two>> /\ one.key \notin remembered /\ two.key \notin remembered
  PROVE  /\ lines \in Seq(FillerLines) /\ Len(lines) \in 0..2
         /\ \A i \in 1..Len(lines) : lines[i].key \notin remembered
         /\ \A i, j \in 1..Len(lines) : i # j => lines[i].key # lines[j].key
<1>1. CASE lines = <<>>
  BY <1>1
<1>2. ASSUME NEW x \in FillerLines, lines = <<x>>, x.key \notin remembered
      PROVE  /\ lines \in Seq(FillerLines) /\ Len(lines) = 1
             /\ \A i \in 1..Len(lines) : lines[i].key \notin remembered
             /\ \A i, j \in 1..Len(lines) : i # j => lines[i].key # lines[j].key
  <2>1. Len(lines) = 1 /\ lines[1] = x /\ 1..1 = {1}
    BY <1>2
  <2> QED
    BY <1>2, <2>1
<1>3. CASE lines = <<one, two>> /\ one.key \notin remembered /\ two.key \notin remembered
  <2>1. Len(lines) = 2 /\ lines[1] = one /\ lines[2] = two /\ 1..2 = {1, 2} /\ lines \in Seq(FillerLines)
    BY <1>3
  <2> QED
    BY <1>3, <2>1
<1> QED
  BY <1>1, <1>2, <1>3

\* What commit leaves of a line, and of two.
LEMMA FreshFacts ==
  ASSUME NEW line, NEW before \in Seq(GoodLines), line \in GoodLines, line.key \notin remembered
  PROVE  /\ before \o Fresh(line) = Append(before, line)
         /\ Fresh(line) = <<line>>
BY DEF Fresh

LEMMA BeforeFacts ==
  ASSUME TypesRight, Fits, SectionRight, NEW r \in Requests, NEW before \in Before(Asked(r))
  PROVE  /\ before \in Seq(FillerLines) /\ Len(before) \in 0..2
         /\ \A i \in 1..Len(before) : before[i].key \notin remembered
         /\ \A i, j \in 1..Len(before) : i # j => before[i].key # before[j].key
         /\ r.kind \in {"delete", "respond"} => before = <<>>
<1>1. Own(Asked(r)).key = r.key /\ Own(Asked(r)).about = r.about /\ Asked(r).kind = r.kind
  BY OpFields, EventFields
<1>2. CASE r.kind = "enable"
  <2> DEFINE line == Line("task.changed", DispatchKey(EventOf(r)), None)
  <2>1. before = Fresh(line)
    BY <1>1, <1>2, OpFields DEF Before, DispatchLines
  <2>2. line \in FillerLines
    BY EventFields DEF FillerLines, DispatchKey
  <2> HIDE DEF line
  <2>3. before = <<>> \/ (before = <<line>> /\ line.key \notin remembered)
    BY <2>1 DEF Fresh
  <2>4. CASE before = <<>>
    BY <1>2, <2>4
  <2>5. CASE before = <<line>> /\ line.key \notin remembered
    <3>1. Len(before) = 1 /\ before[1] = line /\ 1..1 = {1} /\ before \in Seq(FillerLines)
      BY <2>2, <2>5
    <3> QED
      BY <1>2, <2>5, <3>1
  <2> QED
    BY <2>3, <2>4, <2>5
<1>3. CASE r.kind = "sync"
  <2>1. PICK n \in 0..(3 * MaxLines) : n = Len(file)
    BY SizeTypes, WaitingType, LeftBound, LogBounds DEF Fits
  <2> DEFINE one == Line("attempt.activity.changed", ActivityKey(r.about), r.about)
             two == Line("attempt.session.changed", SessionKey(r.about, n), r.about)
  <2>2. before = <<>> \/ before = Fresh(one) \o Fresh(two)
    BY <1>1, <1>3, <2>1 DEF Before, SessionLines
  <2>3. one \in FillerLines /\ two \in FillerLines
    BY DEF FillerLines
  <2>4. one.key # two.key
    <3>1. one.key[1] = "activity-change" /\ two.key[1] = "session-change"
      BY LineFields DEF ActivityKey, SessionKey
    <3> QED
      BY <3>1
  <2> HIDE DEF one, two
  <2>5. \/ before = <<>>
        \/ before = <<one>> /\ one.key \notin remembered
        \/ before = <<two>> /\ two.key \notin remembered
        \/ before = <<one, two>> /\ one.key \notin remembered /\ two.key \notin remembered
    <3>1. Fresh(one) = (IF one.key \in remembered THEN <<>> ELSE <<one>>)
      BY DEF Fresh
    <3>2. Fresh(two) = (IF two.key \in remembered THEN <<>> ELSE <<two>>)
      BY DEF Fresh
    <3>3. <<one>> \o <<two>> = <<one, two>>
      BY TwoLines
    <3> QED
      BY <2>2, <3>1, <3>2, <3>3, NoneOrOne
  <2> QED
    BY <1>3, <2>3, <2>4, <2>5, FewLines
<1>4. CASE r.kind \notin {"enable", "sync"}
  <2>1. before = <<>>
    BY <1>1, <1>4 DEF Before
  <2> QED
    BY <2>1
<1> QED
  BY <1>2, <1>3, <1>4

LEMMA EffectFits ==
  ASSUME TypesRight, SectionRight, Fits, Effect
  PROVE  Fits'
<1>1. PICK r \in Requests : section.op = Asked(r) /\ r.key \notin remembered /\ section.pc = "effect"
  BY DEF SectionRight, Effect
<1>2. Left' \in 0..3
  <2>1. CASE section' = Idle
    BY <2>1 DEF Left, Idle
  <2>2. CASE section' # Idle
    <3>1. PICK before \in Before(Asked(r)) :
            section' = [pc |-> "write",
                        op |-> [section.op EXCEPT !.lines = before \o Fresh(Own(section.op))]]
      BY <1>1, <2>2 DEF Effect, Goto
    <3>2. /\ section'.pc = "write"
          /\ section'.op.lines = before \o Fresh(EventOf(r))
      BY <1>1, <3>1, OpFields DEF Asked, Op
    <3>3. Fresh(EventOf(r)) = <<EventOf(r)>>
      BY <1>1, EventFields DEF Fresh
    <3>4. EventOf(r) \in GoodLines /\ FillerLines \subseteq GoodLines
      BY OpFields, AsksAreOps DEF GoodLines
    <3>5. before \in Seq(FillerLines) /\ Len(before) \in 0..2
      BY BeforeFacts
    <3>6. Len(before \o <<EventOf(r)>>) = Len(before) + 1
      BY <3>4, <3>5
    <3>7. Len(section'.op.lines) \in 1..3
      BY <3>2, <3>3, <3>5, <3>6
    <3> QED
      BY <3>2, <3>7 DEF Left
  <2> QED
    BY <2>1, <2>2
<1>3. Left = 3 /\ UNCHANGED <<file, queue, puts, refreshing>>
  BY <1>1 DEF Left, Effect, disk
<1>4. Len(file') + Left' <= Len(file) + Left /\ Len(file') \in Nat /\ Left' \in Nat
  BY <1>2, <1>3, SizeTypes
<1> QED
  BY <1>3, <1>4, SectionFits

LEMMA WriteFits ==
  ASSUME TypesRight, SectionRight, LogRight, Fits, Write
  PROVE  Fits'
<1>1. Writing /\ section.pc = "write"
  BY DEF Write, Writing
<1>2. Left = Len(section.op.lines) /\ Left \in 1..3
  BY <1>1, WritingFacts DEF Left
<1>3. Len(file') \in Nat /\ Len(file') <= Len(file) + 1
  <2>1. PICK line \in AllLines : UNCHANGED file \/ file' = Put(line)
    <3>1. Head(section.op.lines) \in AllLines /\ Damaged \in AllLines
      BY <1>1, WritingFacts, AllLinesFacts
    <3> QED
      BY <3>1 DEF Write, WriteLine, TearLine
  <2>2. Put(line) \in Seq(AllLines) /\ Len(Put(line)) <= Len(file) + 1
    BY PutFacts DEF TypesRight, LogRight
  <2> QED
    BY <2>1, <2>2, SizeTypes
<1>4. Left' = Left - 1 \/ Left' = 0
  BY <1>2 DEF Write, Goto, Left, Idle
<1>5. Len(file') + Left' <= Len(file) + Left /\ Left' \in Nat
  <2>1. PICK l \in 1..3, g \in Nat, f \in Nat : l = Left /\ g = Len(file) /\ f = Len(file')
    BY <1>2, <1>3, SizeTypes
  <2>2. Left' = l - 1 \/ Left' = 0
    BY <1>4, <2>1
  <2>3. f <= g + 1
    BY <1>3, <2>1
  <2>4. CASE Left' = l - 1
    BY <2>1, <2>3, <2>4
  <2>5. CASE Left' = 0
    BY <2>1, <2>3, <2>5
  <2> QED
    BY <2>2, <2>4, <2>5
<1>6. UNCHANGED <<queue, puts, refreshing>>
  BY DEF Write, live
<1> QED
  BY <1>3, <1>5, <1>6, SectionFits

LEMMA SyncFits ==
  ASSUME TypesRight, SectionRight, Fits, Sync
  PROVE  Fits'
<1>1. Writing /\ section.pc = "sync"
  BY DEF Sync, Writing
<1>2. Left = Len(section.op.lines) - 1 /\ Left \in 0..2 /\ section.op.lines \in Seq(GoodLines)
  BY <1>1, WritingFacts DEF Left
<1>3. Left' = Left \/ Left' = 0
  <2>1. \/ section' = [pc |-> "write", op |-> [section.op EXCEPT !.lines = Tail(@)]]
        \/ section'.pc \in {"idle", "unindex"}
    BY DEF Sync, Goto, Idle
  <2>2. CASE section' = [pc |-> "write", op |-> [section.op EXCEPT !.lines = Tail(@)]]
    <3>1. section'.pc = "write" /\ section'.op.lines = Tail(section.op.lines)
      BY <1>1, <2>2 DEF SectionRight
    <3>2. Len(Tail(section.op.lines)) = Len(section.op.lines) - 1
      BY <1>1, WritingFacts
    <3> QED
      BY <1>2, <3>1, <3>2 DEF Left
  <2> QED
    BY <2>1, <2>2 DEF Left
<1>4. UNCHANGED <<file, queue, puts, refreshing>>
  BY DEF Sync, disk
<1>5. Len(file') \in Nat /\ Left' \in Nat /\ Len(file') + Left' <= Len(file) + Left
  <2>1. PICK l \in 0..2, f \in Nat : l = Left /\ f = Len(file) /\ f = Len(file')
    BY <1>2, <1>4, SizeTypes
  <2>2. CASE Left' = l
    BY <2>1, <2>2
  <2>3. CASE Left' = 0
    BY <2>1, <2>3
  <2> QED
    BY <1>3, <2>1, <2>2, <2>3
<1> QED
  BY <1>4, <1>5, SectionFits

LEMMA UnindexFits ==
  ASSUME TypesRight, SectionRight, Fits, Unindex
  PROVE  Fits'
<1>1. Left = 0 /\ Left' = 0 /\ UNCHANGED <<file, queue, puts, refreshing>>
  BY DEF Unindex, Left, Idle, live
<1>2. Len(file') \in Nat /\ Len(file') + Left' <= Len(file) + Left
  BY <1>1, SizeTypes
<1> QED
  BY <1>1, <1>2, SectionFits

LEMMA StartFits ==
  ASSUME TypesRight, SectionRight, Fits, Start
  PROVE  Fits'
<1>1. Left' = Left /\ UNCHANGED <<file, queue, puts, refreshing>>
  BY DEF Start, Left, live
<1>2. Len(file') \in Nat /\ Left' \in Nat /\ Len(file') + Left' <= Len(file) + Left
  BY <1>1, SizeTypes, LeftBound
<1> QED
  BY <1>1, <1>2, SectionFits

LEMMA CrashFits ==
  ASSUME TypesRight, SectionRight, LogRight, Fits, Crash
  PROVE  Fits'
<1>1. Left' = 0 /\ Waiting' = 0
  BY FS_EmptySet DEF Crash, Left, Idle, Waiting
<1>2. Len(file') \in Nat /\ Len(file') <= Len(file) + Left
  <2>1. CASE section.pc = "write"
    <3>1. PICK line \in AllLines : UNCHANGED file \/ file' = Put(line)
      <4>1. Head(section.op.lines) \in AllLines /\ Damaged \in AllLines
        BY <2>1, WritingFacts, AllLinesFacts DEF Writing
      <4> QED
        BY <2>1, <4>1 DEF Crash, WriteLine, TearLine
    <3>2. Put(line) \in Seq(AllLines) /\ Len(Put(line)) <= Len(file) + 1
      BY PutFacts DEF TypesRight, LogRight
    <3>3. Left \in 1..3
      BY <2>1, WritingFacts DEF Left, Writing
    <3> QED
      BY <3>1, <3>2, <3>3, SizeTypes
  <2>2. CASE section.pc # "write"
    <3>1. \/ file' = file
          \/ file # <<>> /\ file' = SubSeq(file, 1, Len(file) - 1)
          \/ file # <<>> /\ file' = [file EXCEPT ![Len(file)] = Damaged]
      BY <2>2 DEF Crash
    <3>2. Len(file') \in Nat /\ Len(file') <= Len(file)
      BY <3>1 DEF TypesRight
    <3> QED
      BY <3>2, LeftBound, SizeTypes
  <2> QED
    BY <2>1, <2>2
<1>3. Len(file') + 3 * Waiting' + Left' <= Len(file) + 3 * Waiting + Left
  <2>1. PICK w \in Nat, f \in Nat, g \in Nat, k \in Nat :
          w = Waiting /\ f = Len(file') /\ g = Len(file) /\ k = Left
    BY <1>2, SizeTypes, LeftBound, WaitingType
  <2>2. f + 3 * 0 + 0 <= g + 3 * w + k
    BY <1>2, <2>1
  <2> QED
    BY <1>1, <2>1, <2>2
<1> QED
  BY <1>1, <1>2, <1>3, InsideFits

-----------------------------------------------------------------------------
(* The critical section *)

LEMMA SameSection ==
  ASSUME SectionRight, UNCHANGED <<section, stored, remembered>>
  PROVE  SectionRight'
BY DEF SectionRight, Writing, Own

LEMMA IdleSection ==
  ASSUME section' = Idle
  PROVE  SectionRight'
<1>1. section'.pc = "idle" /\ ~Writing' /\ section' = [pc |-> section'.pc, op |-> section'.op]
  BY DEF Idle, Writing
<1> QED
  BY <1>1 DEF SectionRight, Writing

LEMMA ExceptLines ==
  ASSUME NEW kind, NEW lines, NEW rest
  PROVE  [[kind |-> kind, lines |-> lines] EXCEPT !.lines = rest] = [kind |-> kind, lines |-> rest]
OBVIOUS

LEMMA TailLines ==
  ASSUME NEW S, NEW lines \in Seq(S), Len(lines) > 0
  PROVE  /\ Tail(lines) \in Seq(S) /\ Len(Tail(lines)) = Len(lines) - 1
         /\ \A i \in 1..(Len(lines) - 1) : Tail(lines)[i] = lines[i + 1]
OBVIOUS

\* What makes a section that writes right.
LEMMA WritingSection ==
  ASSUME NEW pc \in {"write", "sync"}, NEW kind, NEW lines \in Seq(GoodLines),
         section' = [pc |-> pc, op |-> [kind |-> kind, lines |-> lines]],
         Len(lines) \in 1..3, Op(kind, lines[Len(lines)]) \in Ops,
         kind \in {"append", "delete", "respond"} => Len(lines) = 1,
         \A i \in 1..(Len(lines) - 1) : lines[i] \in FillerLines,
         \A i \in 1..Len(lines) : lines[i].key \notin remembered',
         \A i, j \in 1..Len(lines) : i # j => lines[i].key # lines[j].key
  PROVE  SectionRight'
<1>1. /\ section'.pc = pc /\ section'.op = [kind |-> kind, lines |-> lines]
      /\ section'.op.kind = kind /\ section'.op.lines = lines
      /\ section' = [pc |-> section'.pc, op |-> section'.op]
  OBVIOUS
<1>2. Own(section'.op) = lines[Len(lines)]
  BY <1>1 DEF Own
<1>3. section'.pc \in {"idle", "effect", "write", "sync", "unindex"} /\ section'.pc # "idle"
      /\ section'.pc # "effect" /\ section'.pc # "unindex"
  BY <1>1
<1> QED
  BY <1>1, <1>2, <1>3 DEF SectionRight, Writing

LEMMA EnterSection ==
  ASSUME TypesRight, LogRight, SectionRight, Enter
  PROVE  SectionRight'
<1>1. PICK op \in Ops : op = Head(queue)
  BY DEF Enter, TypesRight
<1>2. UNCHANGED <<stored, remembered>>
  BY DEF Enter, memory
<1>3. CASE section' = section
  BY <1>2, <1>3, SameSection
<1>4. CASE section' # section
  <2>1. /\ ~Known(op) /\ ~(IsCommand(op) /\ Refused(op))
        /\ section' = [pc |-> IF op.kind \in {"append", "refresh"} THEN "write" ELSE "effect", op |-> op]
    BY <1>1, <1>4 DEF Enter, Goto
  <2>2. Own(op).key \notin remembered'
    BY <1>2, <2>1 DEF Known
  <2>3. CASE op.kind \in {"append", "refresh"}
    <3>1. section' = [pc |-> "write", op |-> op]
      BY <2>1, <2>3
    <3>2. /\ op.lines = <<Own(op)>> /\ op = [kind |-> op.kind, lines |-> op.lines]
          /\ Own(op) \in GoodLines /\ op = Op(op.kind, Own(op))
      BY OpFacts
    <3>3. Len(op.lines) = 1 /\ op.lines[1] = Own(op) /\ op.lines \in Seq(GoodLines) /\ 1..1 = {1}
      BY <3>2
    <3>4. section' = [pc |-> "write", op |-> [kind |-> op.kind, lines |-> op.lines]]
      BY <3>1, <3>2
    <3>5. Op(op.kind, op.lines[Len(op.lines)]) \in Ops
      BY <3>2, <3>3
    <3>6. /\ \A i \in 1..(Len(op.lines) - 1) : op.lines[i] \in FillerLines
          /\ \A i \in 1..Len(op.lines) : op.lines[i].key \notin remembered'
          /\ \A i, j \in 1..Len(op.lines) : i # j => op.lines[i].key # op.lines[j].key
      BY <2>2, <3>3
    <3>7. PICK kind, lines : kind = op.kind /\ lines = op.lines
      OBVIOUS
    <3>8. Len(lines) = 1 /\ lines \in Seq(GoodLines)
      BY <3>3, <3>7
    <3> QED
      BY <3>4, <3>5, <3>6, <3>7, <3>8, WritingSection
  <2>4. CASE op.kind \notin {"append", "refresh"}
    <3>1. section' = [pc |-> "effect", op |-> op]
      BY <2>1, <2>4
    <3>2. PICK r \in Requests : op = Asked(r) /\ op.kind = r.kind
      BY <2>4, OpKinds
    <3>3. r.key \notin remembered'
      BY <2>2, <3>2, OpFields, EventFields
    <3>4. section'.pc = "effect" /\ section'.op = op /\ section' = [pc |-> section'.pc, op |-> section'.op]
      BY <3>1
    <3> QED
      BY <2>4, <3>2, <3>3, <3>4 DEF SectionRight, Writing
  <2> QED
    BY <2>3, <2>4
<1> QED
  BY <1>3, <1>4

\* No key of a filler is the key of a command.
LEMMA FillerKeys ==
  ASSUME NEW r \in Requests, NEW line \in FillerLines
  PROVE  line.key # r.key
<1>1. r.key[1] = "command"
  BY RequestFacts
<1>2. line.key[1] # "command"
  BY FillerFacts
<1> QED
  BY <1>1, <1>2

\* What Effect does when nothing throws.
LEMMA EffectGoes ==
  ASSUME TypesRight, Fits, SectionRight, Effect, section' # Idle
  PROVE  \E r \in Requests, before \in Seq(FillerLines) :
           /\ section.op = Asked(r) /\ r.kind # "refresh" /\ before \in Before(Asked(r))
           /\ section' = [pc |-> "write",
                          op |-> [kind |-> r.kind, lines |-> Append(before, EventOf(r))]]
<1>1. PICK r \in Requests : /\ section.op = Asked(r) /\ r.key \notin remembered
                            /\ section.pc = "effect" /\ r.kind # "refresh"
  BY DEF SectionRight, Effect
<1>2. PICK before \in Before(Asked(r)) :
        section' = [pc |-> "write",
                    op |-> [section.op EXCEPT !.lines = before \o Fresh(Own(section.op))]]
  BY <1>1 DEF Effect, Goto
<1>3. Fresh(Own(section.op)) = <<EventOf(r)>>
  BY <1>1, EventFields, OpFields DEF Fresh
<1>4. before \in Seq(FillerLines)
  BY BeforeFacts
<1>5. EventOf(r) \in GoodLines /\ FillerLines \subseteq GoodLines
  BY OpFields, AsksAreOps DEF GoodLines
<1>6. before \o <<EventOf(r)>> = Append(before, EventOf(r))
  BY <1>4, <1>5
<1>7. [Asked(r) EXCEPT !.lines = Append(before, EventOf(r))]
        = [kind |-> r.kind, lines |-> Append(before, EventOf(r))]
  BY ExceptLines DEF Asked, Op
<1>8. section' = [pc |-> "write", op |-> [kind |-> r.kind, lines |-> Append(before, EventOf(r))]]
  BY <1>1, <1>2, <1>3, <1>6, <1>7
<1> QED
  BY <1>1, <1>4, <1>8

LEMMA EffectSection ==
  ASSUME TypesRight, Fits, SectionRight, Effect
  PROVE  SectionRight'
<1>1. CASE section' = Idle
  BY <1>1, IdleSection
<1>2. CASE section' # Idle
  <2>1. PICK r \in Requests, before \in Seq(FillerLines) :
           /\ section.op = Asked(r) /\ r.kind # "refresh" /\ before \in Before(Asked(r))
           /\ section' = [pc |-> "write",
                          op |-> [kind |-> r.kind, lines |-> Append(before, EventOf(r))]]
    BY <1>2, EffectGoes
  <2> DEFINE lines == Append(before, EventOf(r))
  <2>2. /\ Len(before) \in 0..2
        /\ \A i \in 1..Len(before) : before[i].key \notin remembered
        /\ \A i, j \in 1..Len(before) : i # j => before[i].key # before[j].key
        /\ r.kind \in {"delete", "respond"} => before = <<>>
    BY <2>1, BeforeFacts
  <2>3. EventOf(r) \in GoodLines /\ FillerLines \subseteq GoodLines
    BY OpFields, AsksAreOps DEF GoodLines
  <2>4. /\ lines \in Seq(GoodLines) /\ Len(lines) = Len(before) + 1
        /\ lines[Len(lines)] = EventOf(r) /\ \A i \in 1..Len(before) : lines[i] = before[i]
    BY <2>3
  <2>5. EventOf(r).key = r.key /\ r.key \notin remembered /\ r.kind # "append"
    <3>1. r.key \notin remembered
      <4>1. PICK s \in Requests : section.op = Asked(s) /\ s.key \notin remembered
        BY DEF SectionRight, Effect
      <4>2. EventOf(r).key = EventOf(s).key
        BY <2>1, <4>1, OpFields
      <4> QED
        BY <4>1, <4>2, EventFields
    <3> QED
      BY <3>1, EventFields, RequestFacts
  <2>6. section' = [pc |-> "write", op |-> [kind |-> r.kind, lines |-> lines]]
    BY <2>1
  <2>8. Op(r.kind, EventOf(r)) \in Ops
    BY AsksAreOps DEF Asked
  <2>9. \A i \in 1..(Len(lines) - 1) : lines[i] \in FillerLines /\ lines[i] = before[i] /\ i \in 1..Len(before)
    BY <2>4
  <2>10. \A i \in 1..Len(lines) : i \in 1..Len(before) \/ i = Len(lines)
    BY <2>2, <2>4
  <2>11. \A i \in 1..Len(before) : lines[i].key = before[i].key /\ before[i].key # r.key
    BY <2>4, FillerKeys
  <2>12. UNCHANGED remembered
    BY DEF Effect, memory
  <2> HIDE DEF lines
  <2>13. \A i \in 1..Len(lines) : lines[i].key \notin remembered'
    BY <2>2, <2>4, <2>5, <2>10, <2>11, <2>12
  <2>14. \A i, j \in 1..Len(lines) : i # j => lines[i].key # lines[j].key
    BY <2>2, <2>4, <2>5, <2>10, <2>11
  <2>15. Len(lines) \in 1..3 /\ (r.kind \in {"append", "delete", "respond"} => Len(lines) = 1)
    BY <2>2, <2>4, <2>5
  <2>16. \A i \in 1..(Len(lines) - 1) : lines[i] \in FillerLines
    BY <2>9
  <2> QED
    BY <2>4, <2>6, <2>8, <2>13, <2>14, <2>15, <2>16, WritingSection
<1> QED
  BY <1>1, <1>2

LEMMA WriteSection ==
  ASSUME SectionRight, Write
  PROVE  SectionRight'
<1>1. CASE section' = Idle
  BY <1>1, IdleSection
<1>2. CASE section' # Idle
  <2>1. section' = [pc |-> "sync", op |-> section.op] /\ section.pc = "write" /\ UNCHANGED <<stored, remembered>>
    BY <1>2 DEF Write, Goto, memory
  <2>2. section'.pc = "sync" /\ section'.op = section.op
    BY <2>1
  <2> QED
    BY <2>1, <2>2 DEF SectionRight, Writing, Own
<1> QED
  BY <1>1, <1>2

\* The section goes on with the next line.
LEMMA NextLineSection ==
  ASSUME SectionRight, Writing, Len(section.op.lines) > 1,
         section' = [pc |-> "write", op |-> [section.op EXCEPT !.lines = Tail(@)]],
         remembered' = remembered \cup {Head(section.op.lines).key}
  PROVE  SectionRight'
<1>1. PICK kind, lines : kind = section.op.kind /\ lines = section.op.lines
  OBVIOUS
<1>2. PICK rest : rest = Tail(lines)
  OBVIOUS
<1>3. /\ section.op = [kind |-> kind, lines |-> lines]
      /\ lines \in Seq(GoodLines) /\ Len(lines) \in 2..3
      /\ Op(kind, Own(section.op)) \in Ops
      /\ kind \notin {"append", "delete", "respond"}
      /\ \A i \in 1..(Len(lines) - 1) : lines[i] \in FillerLines
      /\ \A i \in 1..Len(lines) : lines[i].key \notin remembered
      /\ \A i, j \in 1..Len(lines) : i # j => lines[i].key # lines[j].key
  BY <1>1 DEF SectionRight
<1>4. section' = [pc |-> "write", op |-> [kind |-> kind, lines |-> rest]]
  <2>1. section' = [pc |-> "write", op |-> [[kind |-> kind, lines |-> lines] EXCEPT !.lines = rest]]
    BY <1>1, <1>2, <1>3
  <2> QED
    BY <2>1, ExceptLines
<1>5. /\ rest \in Seq(GoodLines) /\ Len(rest) = Len(lines) - 1
      /\ \A i \in 1..(Len(lines) - 1) : rest[i] = lines[i + 1]
  BY <1>2, <1>3, TailLines
<1>6. Len(rest) \in 1..2 /\ 1 \in 1..Len(lines) /\ Head(lines) = lines[1]
  BY <1>3, <1>5
<1>7. ASSUME NEW i \in 1..Len(rest)
      PROVE  rest[i] = lines[i + 1] /\ i + 1 \in 1..Len(lines) /\ i + 1 # 1
  BY <1>3, <1>5
<1>8. \A i \in 1..(Len(rest) - 1) : rest[i] \in FillerLines
  BY <1>3, <1>5, <1>6
<1>9. \A i \in 1..Len(rest) : rest[i].key \notin remembered'
  <2> SUFFICES ASSUME NEW i \in 1..Len(rest) PROVE rest[i].key \notin remembered'
    OBVIOUS
  <2>1. rest[i].key \notin remembered /\ rest[i].key # lines[1].key
    BY <1>3, <1>6, <1>7
  <2> QED
    BY <1>1, <1>6, <2>1
<1>10. \A i, j \in 1..Len(rest) : i # j => rest[i].key # rest[j].key
  <2> SUFFICES ASSUME NEW i \in 1..Len(rest), NEW j \in 1..Len(rest), i # j
               PROVE  rest[i].key # rest[j].key
    OBVIOUS
  <2>1. /\ rest[i] = lines[i + 1] /\ i + 1 \in 1..Len(lines)
        /\ rest[j] = lines[j + 1] /\ j + 1 \in 1..Len(lines) /\ i + 1 # j + 1
    BY <1>6, <1>7
  <2> QED
    BY <1>3, <2>1
<1>11. Op(kind, rest[Len(rest)]) \in Ops
  <2>1. rest[Len(rest)] = lines[Len(lines)] /\ Own(section.op) = lines[Len(lines)]
    BY <1>1, <1>3, <1>5, <1>6 DEF Own
  <2> QED
    BY <1>3, <2>1
<1>12. Len(rest) \in 1..3 /\ (kind \in {"append", "delete", "respond"} => Len(rest) = 1)
  BY <1>3, <1>6
<1> QED
  BY <1>4, <1>5, <1>8, <1>9, <1>10, <1>11, <1>12, WritingSection

LEMMA SyncSection ==
  ASSUME TypesRight, SectionRight, Sync
  PROVE  SectionRight'
<1>0. Writing /\ section.pc = "sync"
  BY DEF Sync, Writing
<1> DEFINE op == section.op
           lines == section.op.lines
<1>1. CASE section' = Idle
  BY <1>1, IdleSection
<1>2. CASE section' = [pc |-> "write", op |-> [op EXCEPT !.lines = Tail(@)]] /\ Len(lines) > 1
           /\ remembered' = remembered \cup {Head(lines).key}
  BY <1>0, <1>2, NextLineSection
<1>3. CASE section' = [pc |-> "unindex", op |-> op] /\ op.kind = "delete"
           /\ stored' = Append(stored, Head(lines))
  <2>1. lines \in Seq(GoodLines) /\ Len(lines) = 1 /\ Own(op) = lines[1] /\ Head(lines) = lines[1]
        /\ op = [kind |-> op.kind, lines |-> lines] /\ Op(op.kind, Own(op)) \in Ops
    BY <1>0, <1>3, WritingFacts DEF SectionRight
  <2>2. lines = <<Own(op)>>
    <3>1. <<lines[1]>> \in Seq(GoodLines) /\ Len(<<lines[1]>>) = 1 /\ <<lines[1]>>[1] = lines[1]
      BY <2>1
    <3>2. lines = <<lines[1]>>
      BY <2>1, <3>1, SeqEqual
    <3> QED
      BY <2>1, <3>2
  <2>3. op = Op(op.kind, Own(op))
    BY <2>1, <2>2 DEF Op
  <2>4. PICK r \in Requests : op = Asked(r) /\ op.kind = r.kind
    BY <1>3, <2>1, <2>3, OpKinds
  <2>5. Head(lines) = EventOf(r)
    BY <2>1, <2>4, OpFields
  <2>6. Len(stored') > 0 /\ stored'[Len(stored')] = EventOf(r)
    <3>1. stored \in Seq(AllLines) /\ Head(lines) \in AllLines
      BY <1>0, WritingFacts DEF TypesRight
    <3> QED
      BY <1>3, <2>5, <3>1
  <2>7. section'.pc = "unindex" /\ section'.op = op /\ section' = [pc |-> section'.pc, op |-> section'.op]
    BY <1>3
  <2> QED
    BY <1>3, <2>4, <2>6, <2>7 DEF SectionRight, Writing
<1> QED
  BY <1>1, <1>2, <1>3 DEF Sync, Goto

-----------------------------------------------------------------------------
(* The log, its file and the answers *)

\* Only a Runtime that is up has anything under way.
LEMMA BusyIsUp ==
  ASSUME LogRight, section.pc # "idle" \/ queue # <<>> \/ puts # {} \/ refreshing # {} \/ stored # <<>>
  PROVE  up = "up"
BY DEF LogRight, Idle

LEMMA QuietLog ==
  ASSUME LogRight, UNCHANGED <<file, unended, stored, remembered, up>>, up = "up",
         section'.pc = "sync" => section' = section,
         \A k \in Keys : answered'[k] # 0 => answered[k] # 0 \/ k \in KeysOf(stored)
  PROVE  LogRight'
<1>1. /\ KeysOf(stored)' = KeysOf(stored) /\ KeysOf(file)' = KeysOf(file) /\ Harmed(file)' = Harmed(file)
  BY DEF KeysOf, Harmed
<1>2. up' = "up" /\ remembered' = KeysOf(stored)'
  BY <1>1 DEF LogRight
<1>3. \A k \in Keys : answered'[k] # 0 => k \in KeysOf(stored)'
  BY <1>1 DEF LogRight
<1>4. Harmed(file)' \/ KeysOf(stored)' \subseteq KeysOf(file)'
  BY <1>1 DEF LogRight
<1>5. (unended => Len(file) > 0)'
  BY DEF LogRight
<1>6. section'.pc = "sync" =>
        unended' = FALSE /\ (Harmed(file)' \/ (Len(file') > 0 /\ file'[Len(file')] = Head(section'.op.lines)))
  BY <1>1 DEF LogRight
<1> QED
  BY <1>2, <1>3, <1>4, <1>5, <1>6 DEF LogRight

LEMMA OutsideLog ==
  ASSUME TypesRight, LogRight,
         \/ \E a \in Attempts : RecordAttempt(a)
         \/ \E r \in Requests : Command(r) \/ RefreshTracker(r) \/ Refreshed(r)
         \/ \E q \in Questions : Ask(q)
         \/ \E c \in Contents : PutArtifact(c) \/ ArtifactPut(c) \/ PutAgain(c)
  PROVE  LogRight'
<1>1. UNCHANGED <<file, unended, stored, remembered, up, section>>
  BY DEF RecordAttempt, Command, RefreshTracker, Refreshed, Ask, PutArtifact, ArtifactPut, PutAgain,
         disk, memory
<1>2. up = "up"
  BY BusyIsUp DEF RecordAttempt, Command, RefreshTracker, Refreshed, Ask, PutArtifact, ArtifactPut, PutAgain
<1>3. \A k \in Keys : answered'[k] # 0 => answered[k] # 0 \/ k \in KeysOf(stored)
  <2>1. CASE answered' = answered
    BY <2>1
  <2>2. ASSUME NEW r \in Requests, RefreshTracker(r), r.key \in remembered
        PROVE  \A k \in Keys : answered'[k] # 0 => answered[k] # 0 \/ k \in KeysOf(stored)
    <3>1. r.key \in KeysOf(stored)
      BY <1>2, <2>2 DEF LogRight
    <3>2. \A k \in Keys : k # r.key => answered'[k] = answered[k]
      BY <2>2 DEF RefreshTracker, TypesRight
    <3> QED
      BY <3>1, <3>2
  <2>3. answered' = answered \/ \E r \in Requests : RefreshTracker(r) /\ r.key \in remembered
    BY DEF RecordAttempt, Command, RefreshTracker, Refreshed, Ask, PutArtifact, ArtifactPut, PutAgain
  <2> QED
    BY <2>1, <2>2, <2>3
<1> QED
  BY <1>1, <1>2, <1>3, QuietLog

LEMMA EnterLog ==
  ASSUME TypesRight, LogRight, Enter
  PROVE  LogRight'
<1>1. UNCHANGED <<file, unended, stored, remembered, up>> /\ up = "up"
  BY DEF Enter, disk, memory
<1>2. section'.pc # "sync"
  BY DEF Enter, Goto
<1>3. \A k \in Keys : answered'[k] # 0 => answered[k] # 0 \/ k \in KeysOf(stored)
  <2>1. CASE answered' = answered
    BY <2>1
  <2>2. CASE answered' # answered
    <3>1. PICK key : /\ answered' = [answered EXCEPT ![key] = SequenceOf(key)]
                     /\ key \in remembered
      BY <2>2 DEF Enter, Answer, Known
    <3>2. key \in KeysOf(stored)
      BY <1>1, <3>1 DEF LogRight
    <3>3. \A k \in Keys : k # key => answered'[k] = answered[k]
      BY <3>1 DEF TypesRight
    <3> QED
      BY <3>2, <3>3
  <2> QED
    BY <2>1, <2>2
<1> QED
  BY <1>1, <1>2, <1>3, QuietLog

LEMMA EffectLog ==
  ASSUME LogRight, Effect
  PROVE  LogRight'
<1>1. UNCHANGED <<file, unended, stored, remembered, up, answered>>
  BY DEF Effect, disk, memory
<1>2. section'.pc # "sync"
  BY DEF Effect, Goto, Idle
<1>3. up = "up"
  BY BusyIsUp DEF Effect
<1> QED
  BY <1>1, <1>2, <1>3, QuietLog

LEMMA UnindexLog ==
  ASSUME TypesRight, SectionRight, LogRight, Unindex
  PROVE  LogRight'
<1>1. UNCHANGED <<file, unended, stored, remembered, up>>
  BY DEF Unindex, memory
<1>2. section'.pc # "sync"
  BY DEF Unindex, Idle
<1>3. up = "up"
  BY BusyIsUp DEF Unindex
<1>4. PICK r \in Requests : /\ section.op = Asked(r) /\ Len(stored) > 0
                            /\ stored[Len(stored)] = EventOf(r)
  BY DEF SectionRight, Unindex
<1>5. Own(section.op).key \in KeysOf(stored)
  <2>1. Len(stored) \in 1..Len(stored)
    BY <1>4, SizeTypes
  <2>2. Own(section.op) = stored[Len(stored)]
    BY <1>4, OpFields
  <2> QED
    BY <2>1, <2>2 DEF KeysOf
<1>6. \A k \in Keys : answered'[k] # 0 => answered[k] # 0 \/ k \in KeysOf(stored)
  <2>1. \A k \in Keys : k # Own(section.op).key => answered'[k] = answered[k]
    BY DEF Unindex, Answer, TypesRight
  <2> QED
    BY <1>5, <2>1
<1> QED
  BY <1>1, <1>2, <1>3, <1>6, QuietLog

LEMMA StartLog ==
  ASSUME LogRight, Start
  PROVE  LogRight'
<1>1. /\ UNCHANGED <<file, unended, section, answered, queue, puts, refreshing, pending>> /\ section = Idle
      /\ up = "down"
  BY DEF Start, live, LogRight
<1>2. section'.pc # "sync"
  BY <1>1 DEF Idle
<1>3. CASE Readable(file)
  <2>1. ~Harmed(file) /\ ~Harmed(file)'
    BY <1>1, <1>3 DEF Readable, Harmed
  <2>2. up' = "up" /\ stored' = file /\ remembered' = KeysOf(file)
    BY <1>3 DEF Start, ReplayedKeys
  <2>3. KeysOf(stored)' = KeysOf(file) /\ KeysOf(file)' = KeysOf(file)
    BY <1>1, <2>2 DEF KeysOf
  <2>4. \A k \in Keys : answered'[k] # 0 => k \in KeysOf(file)
    BY <1>1, <2>1 DEF LogRight
  <2>5. (unended => Len(file) > 0)'
    BY <1>1 DEF LogRight
  <2> QED
    BY <1>2, <2>2, <2>3, <2>4, <2>5 DEF LogRight
<1>4. CASE ~Readable(file)
  <2>1. up' = "refused" /\ UNCHANGED <<stored, remembered>>
    BY <1>4 DEF Start
  <2>2. KeysOf(stored)' = KeysOf(stored) /\ KeysOf(file)' = KeysOf(file) /\ Harmed(file)' = Harmed(file)
    BY <1>1, <2>1 DEF KeysOf, Harmed
  <2> QED
    BY <1>1, <1>2, <2>1, <2>2 DEF LogRight
<1> QED
  BY <1>3, <1>4

\* What the file keeps when a line is put.
LEMMA PutKeeps ==
  ASSUME TypesRight, LogRight, NEW line \in AllLines, file' = Put(line)
  PROVE  /\ Len(file') > 0
         /\ Harmed(file)' \/ file'[Len(file')] = line
         /\ Harmed(file)' \/ \A k \in Keys : answered[k] # 0 => k \in KeysOf(file)'
         /\ Harmed(file)' \/ KeysOf(stored) \subseteq KeysOf(file)'
<1>1. file \in Seq(AllLines) /\ (unended => Len(file) > 0)
  BY DEF TypesRight, LogRight
<1>2. /\ Len(file') > 0
      /\ Harmed(file)' \/ file'[Len(file')] = line
      /\ Harmed(file) => Harmed(file)'
      /\ Harmed(file)' \/ KeysOf(file) \subseteq KeysOf(file)'
  <2>1. PICK lines : lines = Put(line) /\ file' = lines
    OBVIOUS
  <2>2. Harmed(file)' = Harmed(lines) /\ KeysOf(file)' = KeysOf(lines)
    BY <2>1 DEF Harmed, KeysOf
  <2> QED
    BY <1>1, <2>1, <2>2, PutFacts
<1>3. Harmed(file)' \/ KeysOf(stored) \subseteq KeysOf(file)'
  BY <1>2 DEF LogRight
<1>4. Harmed(file)' \/ \A k \in Keys : answered[k] # 0 => k \in KeysOf(file)'
  BY <1>2 DEF LogRight
<1> QED
  BY <1>2, <1>3, <1>4

LEMMA WriteLog ==
  ASSUME TypesRight, SectionRight, LogRight, Write
  PROVE  LogRight'
<1>1. UNCHANGED <<stored, remembered, up, answered>> /\ up = "up"
  BY BusyIsUp DEF Write, memory
<1>2. Writing /\ Head(section.op.lines) \in AllLines /\ Damaged \in AllLines
  <2>1. Writing
    BY DEF Write, Writing
  <2> QED
    BY <2>1, WritingFacts, AllLinesFacts
<1>3. KeysOf(stored)' = KeysOf(stored) /\ remembered = KeysOf(stored)
  BY <1>1 DEF KeysOf, LogRight
<1>4. \A k \in Keys : answered'[k] # 0 => k \in KeysOf(stored)'
  BY <1>1, <1>3 DEF LogRight
<1>5. CASE file' = Put(Head(section.op.lines)) /\ unended' = FALSE /\ section' = [pc |-> "sync", op |-> section.op]
  <2>1. section'.op = section.op
    BY <1>5
  <2>2. /\ Len(file') > 0
        /\ Harmed(file)' \/ file'[Len(file')] = Head(section'.op.lines)
        /\ Harmed(file)' \/ \A k \in Keys : answered'[k] # 0 => k \in KeysOf(file)'
        /\ Harmed(file)' \/ KeysOf(stored)' \subseteq KeysOf(file)'
    BY <1>1, <1>2, <1>3, <1>5, <2>1, PutKeeps
  <2> QED
    BY <1>1, <1>3, <1>4, <1>5, <2>2 DEF LogRight
<1>6. ASSUME NEW line \in AllLines, file' = Put(line), section' = Idle PROVE LogRight'
  <2>1. section'.pc # "sync"
    BY <1>6 DEF Idle
  <2>2. /\ Len(file') > 0
        /\ Harmed(file)' \/ \A k \in Keys : answered'[k] # 0 => k \in KeysOf(file)'
        /\ Harmed(file)' \/ KeysOf(stored)' \subseteq KeysOf(file)'
    BY <1>1, <1>3, <1>6, PutKeeps
  <2> QED
    BY <1>1, <1>3, <1>4, <2>1, <2>2 DEF LogRight
<1>7. CASE UNCHANGED <<file, unended>> /\ section' = Idle
  <2>1. section'.pc # "sync"
    BY <1>7 DEF Idle
  <2> QED
    BY <1>1, <1>7, <2>1, QuietLog
<1>8. \/ file' = Put(Head(section.op.lines)) /\ unended' = FALSE /\ section' = [pc |-> "sync", op |-> section.op]
      \/ file' = Put(Head(section.op.lines)) /\ section' = Idle
      \/ file' = Put(Damaged) /\ section' = Idle
      \/ UNCHANGED <<file, unended>> /\ section' = Idle
  BY DEF Write, WriteLine, TearLine, Goto
<1> QED
  BY <1>2, <1>5, <1>6, <1>7, <1>8

LEMMA AppendedKeys ==
  ASSUME NEW S, NEW lines \in Seq(S), NEW line
  PROVE  KeysOf(Append(lines, line)) = KeysOf(lines) \cup {line.key}
<1>1. /\ Len(Append(lines, line)) = Len(lines) + 1 /\ Append(lines, line)[Len(lines) + 1] = line
      /\ \A i \in 1..Len(lines) : Append(lines, line)[i] = lines[i]
      /\ Len(lines) \in Nat
  OBVIOUS
<1>2. 1..(Len(lines) + 1) = (1..Len(lines)) \cup {Len(lines) + 1}
  BY <1>1
<1> QED
  BY <1>1, <1>2 DEF KeysOf

LEMMA SyncLog ==
  ASSUME TypesRight, SectionRight, LogRight, Sync
  PROVE  LogRight'
<1>1. UNCHANGED <<file, unended, up>> /\ up = "up" /\ section.pc = "sync" /\ section'.pc # "sync"
  BY BusyIsUp DEF Sync, disk, Goto, Idle
<1>2. PICK line : line = Head(section.op.lines)
  OBVIOUS
<1>3. CASE UNCHANGED <<stored, remembered, answered>>
  BY <1>1, <1>3, QuietLog
<1>4. CASE /\ stored' = Append(stored, line) /\ remembered' = remembered \cup {line.key}
           /\ answered' = answered \/ answered' = [answered EXCEPT ![line.key] = NextSequence]
  <2>1. KeysOf(stored)' = KeysOf(stored) \cup {line.key}
    <3>1. stored \in Seq(AllLines)
      BY DEF TypesRight
    <3>2. KeysOf(stored)' = KeysOf(Append(stored, line))
      BY <1>4 DEF KeysOf
    <3> QED
      BY <3>1, <3>2, AppendedKeys
  <2>2. remembered' = KeysOf(stored)'
    BY <1>1, <1>4, <2>1 DEF LogRight
  <2>3. \A k \in Keys : answered'[k] # 0 => k \in KeysOf(stored)'
    <3>1. \A k \in Keys : k # line.key => answered'[k] = answered[k]
      BY <1>4 DEF TypesRight
    <3> QED
      BY <1>1, <2>1, <3>1 DEF LogRight
  <2>4. Harmed(file)' = Harmed(file) /\ KeysOf(file)' = KeysOf(file)
    BY <1>1 DEF Harmed, KeysOf
  <2>5. Harmed(file) \/ line.key \in KeysOf(file)
    <3>1. Harmed(file) \/ (Len(file) > 0 /\ file[Len(file)] = line)
      BY <1>1, <1>2 DEF LogRight
    <3>2. Len(file) > 0 => Len(file) \in 1..Len(file)
      BY SizeTypes
    <3> QED
      BY <3>1, <3>2 DEF KeysOf
  <2>6. Harmed(file)' \/ KeysOf(stored)' \subseteq KeysOf(file)'
    BY <2>1, <2>4, <2>5 DEF LogRight
  <2>7. (unended => Len(file) > 0)'
    BY <1>1 DEF LogRight
  <2> QED
    BY <1>1, <2>2, <2>3, <2>6, <2>7 DEF LogRight
<1> QED
  BY <1>2, <1>3, <1>4 DEF Sync, Answer

LEMMA CrashLog ==
  ASSUME TypesRight, SectionRight, LogRight, Crash
  PROVE  LogRight'
<1>1. /\ up' = "down" /\ stored' = <<>> /\ remembered' = {} /\ queue' = <<>> /\ section' = Idle
      /\ puts' = {} /\ refreshing' = {} /\ pending' = {} /\ UNCHANGED answered /\ up = "up"
  BY DEF Crash
<1>2. section'.pc # "sync" /\ KeysOf(stored)' = {}
  BY <1>1 DEF Idle, KeysOf
<1>3. /\ (unended => Len(file) > 0)'
      /\ Harmed(file)' \/ \A k \in Keys : answered[k] # 0 => k \in KeysOf(file)'
  <2>1. CASE section.pc = "write"
    <3>1. Head(section.op.lines) \in AllLines /\ Damaged \in AllLines
      BY <2>1, WritingFacts, AllLinesFacts DEF Writing
    <3>2. UNCHANGED <<file, unended>> \/ \E line \in AllLines : file' = Put(line)
      BY <2>1, <3>1 DEF Crash, WriteLine, TearLine
    <3>3. CASE UNCHANGED <<file, unended>>
      <4>1. Harmed(file)' = Harmed(file) /\ KeysOf(file)' = KeysOf(file)
        BY <3>3 DEF Harmed, KeysOf
      <4> QED
        BY <3>3, <4>1 DEF LogRight
    <3>4. CASE \E line \in AllLines : file' = Put(line)
      BY <3>4, PutKeeps
    <3> QED
      BY <3>2, <3>3, <3>4
  <2>2. CASE section.pc # "write" /\ UNCHANGED <<file, unended>>
    <4>1. Harmed(file)' = Harmed(file) /\ KeysOf(file)' = KeysOf(file)
      BY <2>2 DEF Harmed, KeysOf
    <4> QED
      BY <2>2, <4>1 DEF LogRight
  <2>3. CASE /\ section.pc = "sync" /\ file # <<>> /\ file[Len(file)] = Head(section.op.lines)
             /\ file' = SubSeq(file, 1, Len(file) - 1) /\ UNCHANGED unended
    <3>1. PICK n \in Nat : n + 1 = Len(file) /\ file \in Seq(AllLines)
      <4>1. file \in Seq(AllLines) /\ Len(file) \in Nat /\ Len(file) # 0
        BY <2>3 DEF TypesRight
      <4>2. Len(file) - 1 \in Nat /\ (Len(file) - 1) + 1 = Len(file)
        BY <4>1
      <4> QED
        BY <4>1, <4>2
    <3>2. Len(file') = n /\ \A i \in 1..n : file'[i] = file[i]
      BY <2>3, <3>1
    <3>3. unended' = FALSE
      BY <2>3 DEF LogRight
    <3>4. Head(section.op.lines) \in GoodLines /\ Head(section.op.lines).key \notin remembered
      <4>1. Head(section.op.lines) = section.op.lines[1] /\ Head(section.op.lines) \in GoodLines
            /\ 1 \in 1..Len(section.op.lines) /\ Writing
        BY <2>3, WritingFacts DEF Writing
      <4> QED
        BY <4>1 DEF SectionRight
    <3>5. file[n + 1] # Damaged /\ file[n + 1].key \notin KeysOf(stored)
      BY <1>1, <2>3, <3>1, <3>4, LineKinds DEF LogRight
    <3>6. \A i \in 1..(n + 1) : i \in 1..n \/ i = n + 1
      OBVIOUS
    <3>7. Harmed(file) => Harmed(file)'
      BY <3>1, <3>2, <3>5, <3>6 DEF Harmed
    <3>8. \A k \in KeysOf(file) : k \in KeysOf(file)' \/ k = file[n + 1].key
      BY <3>1, <3>2, <3>6 DEF KeysOf
    <3>9. \A k \in Keys : answered[k] # 0 => k \in KeysOf(stored)
      BY <1>1 DEF LogRight
    <3> QED
      BY <3>3, <3>5, <3>7, <3>8, <3>9 DEF LogRight
  <2>4. CASE file # <<>> /\ file' = [file EXCEPT ![Len(file)] = Damaged]
    <3>1. Len(file) \in 1..Len(file) /\ file \in Seq(AllLines)
      BY <2>4 DEF TypesRight
    <3>2. Len(file') = Len(file) /\ file'[Len(file)] = Damaged
      BY <2>4, <3>1
    <3>3. Harmed(file)' /\ Len(file') > 0
      BY <3>1, <3>2 DEF Harmed
    <3> QED
      BY <3>3
  <2> QED
    BY <2>1, <2>2, <2>3, <2>4 DEF Crash
<1> QED
  BY <1>1, <1>2, <1>3 DEF LogRight

LEMMA InitLog == Init => LogRight
<1> SUFFICES ASSUME Init PROVE LogRight
  OBVIOUS
<1>1. /\ up = "down" /\ queue = <<>> /\ section = Idle /\ puts = {} /\ refreshing = {}
      /\ pending = {} /\ stored = <<>> /\ remembered = {} /\ unended = FALSE
      /\ answered = [k \in Keys |-> 0]
  BY DEF Init
<1>2. section.pc # "sync" /\ KeysOf(stored) = {}
  BY <1>1 DEF Idle, KeysOf
<1> QED
  BY <1>1, <1>2 DEF LogRight

-----------------------------------------------------------------------------
(* A sound disk *)

LEMMA AppendedElements ==
  ASSUME NEW S, NEW lines \in Seq(S), NEW line \in S
  PROVE  /\ Append(lines, line) \in Seq(S) /\ Len(Append(lines, line)) = Len(lines) + 1
         /\ Append(lines, line)[Len(lines) + 1] = line
         /\ \A i \in 1..Len(lines) : Append(lines, line)[i] = lines[i]
         /\ \A i \in 1..(Len(lines) + 1) : i \in 1..Len(lines) \/ i = Len(lines) + 1
         /\ Len(lines) \in Nat
OBVIOUS

LEMMA ReadableAppend ==
  ASSUME NEW lines \in Seq(AllLines), NEW line \in GoodLines, Readable(lines),
         line.key \notin KeysOf(lines)
  PROVE  Readable(Append(lines, line))
<1>1. line # Damaged /\ line \in AllLines
  BY LineKinds, AllLinesFacts
<1>2. \A i \in 1..Len(lines) : lines[i].key # line.key
  BY DEF KeysOf
<1>3. PICK longer : longer = Append(lines, line)
  OBVIOUS
<1>4. PICK n \in Nat : n = Len(lines)
  OBVIOUS
<1>5. /\ Len(longer) = n + 1 /\ longer[n + 1] = line
      /\ \A i \in 1..n : longer[i] = lines[i]
      /\ \A i \in 1..(n + 1) : i \in 1..n \/ i = n + 1
  BY <1>1, <1>3, <1>4, AppendedElements
<1>6. \A i \in 1..(n + 1) : longer[i] # Damaged
  BY <1>1, <1>4, <1>5 DEF Readable
<1>7. \A i, j \in 1..(n + 1) : i # j => longer[i].key # longer[j].key
  <2> SUFFICES ASSUME NEW i \in 1..(n + 1), NEW j \in 1..(n + 1), i # j
               PROVE  longer[i].key # longer[j].key
    OBVIOUS
  <2>1. CASE i \in 1..n /\ j \in 1..n
    BY <1>4, <1>5, <2>1 DEF Readable
  <2>2. CASE i = n + 1 /\ j \in 1..n
    BY <1>2, <1>4, <1>5, <2>2
  <2>3. CASE i \in 1..n /\ j = n + 1
    BY <1>2, <1>4, <1>5, <2>3
  <2> QED
    BY <1>5, <2>1, <2>2, <2>3
<1> QED
  BY <1>3, <1>5, <1>6, <1>7 DEF Readable

LEMMA SameSettingSound == ASSUME UNCHANGED setting PROVE DiskIsSound' = DiskIsSound
BY DEF DiskIsSound, faults

LEMMA SoundFaults ==
  ASSUME DiskIsSound
  PROVE  "torn" \notin faults /\ "sync" \notin faults
BY DEF DiskIsSound

\* The stored events are the first lines of the file.
LEMMA SoundFile ==
  ASSUME TypesRight, SectionRight, SoundRight, DiskIsSound, up = "up"
  PROVE  /\ Len(stored) <= Len(file) /\ \A i \in 1..Len(stored) : file[i] = stored[i]
         /\ section.pc # "sync" => file = stored
         /\ section.pc = "sync" => /\ file = Append(stored, Head(section.op.lines))
                                   /\ Len(file) = Len(stored) + 1
                                   /\ file[Len(file)] = Head(section.op.lines)
<1>1. CASE section.pc # "sync"
  BY <1>1, SizeTypes DEF SoundRight
<1>2. CASE section.pc = "sync"
  <2>1. file = Append(stored, Head(section.op.lines)) /\ stored \in Seq(AllLines)
    BY <1>2 DEF SoundRight, TypesRight
  <2>2. Head(section.op.lines) \in AllLines
    BY <1>2, WritingFacts DEF Writing
  <2> QED
    BY <1>2, <2>1, <2>2, AppendedElements
<1> QED
  BY <1>1, <1>2

LEMMA QuietSound ==
  ASSUME TypesRight, SectionRight, SoundRight, up = "up",
         UNCHANGED <<file, unended, stored, up, setting>>,
         section' = section \/ (section.pc # "sync" /\ section'.pc # "sync"),
         \A k \in Keys : answered'[k] # 0 =>
           \/ answered'[k] = answered[k]
           \/ answered'[k] \in 1..Len(stored) /\ stored[answered'[k]].key = k
  PROVE  SoundRight'
<1> SUFFICES ASSUME DiskIsSound' PROVE SoundRight'
  BY DEF SoundRight
<1>1. DiskIsSound
  BY SameSettingSound
<1>2. unended' = FALSE /\ up' = "up" /\ Readable(file)'
  BY <1>1 DEF SoundRight, Readable
<1>3. file' = IF section'.pc = "sync" THEN Append(stored', Head(section'.op.lines)) ELSE stored'
  BY <1>1 DEF SoundRight
<1>4. \A k \in Keys : answered'[k] # 0 =>
        answered'[k] <= Len(file) /\ file[answered'[k]].key = k /\ answered'[k] <= Len(stored)
  <2> SUFFICES ASSUME NEW k \in Keys, answered'[k] # 0
               PROVE  answered'[k] <= Len(file) /\ file[answered'[k]].key = k /\ answered'[k] <= Len(stored)
    OBVIOUS
  <2>1. CASE answered'[k] = answered[k]
    BY <1>1, <2>1 DEF SoundRight
  <2>2. CASE answered'[k] \in 1..Len(stored) /\ stored[answered'[k]].key = k
    BY <1>1, <2>2, SoundFile, SizeTypes
  <2> QED
    BY <2>1, <2>2
<1> QED
  BY <1>2, <1>3, <1>4 DEF SoundRight

\* A step of a Runtime that is up answers with an event that is stored.
LEMMA StoredAnswer ==
  ASSUME TypesRight, NEW key \in KeysOf(stored), answered' = [answered EXCEPT ![key] = SequenceOf(key)]
  PROVE  \A k \in Keys : answered'[k] # 0 =>
           \/ answered'[k] = answered[k]
           \/ answered'[k] \in 1..Len(stored) /\ stored[answered'[k]].key = k
BY SequenceFacts DEF TypesRight

LEMMA OutsideSound ==
  ASSUME TypesRight, SectionRight, LogRight, SoundRight,
         \/ \E a \in Attempts : RecordAttempt(a)
         \/ \E r \in Requests : Command(r) \/ RefreshTracker(r) \/ Refreshed(r)
         \/ \E q \in Questions : Ask(q)
         \/ \E c \in Contents : PutArtifact(c) \/ ArtifactPut(c) \/ PutAgain(c)
  PROVE  SoundRight'
<1>1. UNCHANGED <<file, unended, stored, up, section, setting>>
  BY DEF RecordAttempt, Command, RefreshTracker, Refreshed, Ask, PutArtifact, ArtifactPut, PutAgain,
         disk, memory
<1>2. up = "up"
  BY BusyIsUp DEF RecordAttempt, Command, RefreshTracker, Refreshed, Ask, PutArtifact, ArtifactPut, PutAgain
<1>3. \/ answered' = answered
      \/ \E key \in KeysOf(stored) : answered' = [answered EXCEPT ![key] = SequenceOf(key)]
  <2>1. answered' = answered \/ \E r \in Requests : RefreshTracker(r) /\ r.key \in remembered
    BY DEF RecordAttempt, Command, RefreshTracker, Refreshed, Ask, PutArtifact, ArtifactPut, PutAgain
  <2>2. ASSUME NEW r \in Requests, RefreshTracker(r), r.key \in remembered
        PROVE  r.key \in KeysOf(stored) /\ answered' = [answered EXCEPT ![r.key] = SequenceOf(r.key)]
    BY <1>2, <2>2 DEF LogRight, RefreshTracker, SequenceOf
  <2> QED
    BY <2>1, <2>2
<1>4. \A k \in Keys : answered'[k] # 0 =>
        \/ answered'[k] = answered[k]
        \/ answered'[k] \in 1..Len(stored) /\ stored[answered'[k]].key = k
  BY <1>3, StoredAnswer
<1> QED
  BY <1>1, <1>2, <1>4, QuietSound

LEMMA EnterSound ==
  ASSUME TypesRight, SectionRight, LogRight, SoundRight, Enter
  PROVE  SoundRight'
<1>1. UNCHANGED <<file, unended, stored, up, setting>> /\ up = "up"
      /\ section.pc # "sync" /\ section'.pc # "sync"
  BY DEF Enter, disk, memory, Goto
<1>3. \/ answered' = answered
      \/ \E key \in KeysOf(stored) : answered' = [answered EXCEPT ![key] = SequenceOf(key)]
  <2>1. remembered = KeysOf(stored)
    BY <1>1 DEF LogRight
  <2> QED
    BY <2>1 DEF Enter, Answer, Known
<1>4. \A k \in Keys : answered'[k] # 0 =>
        \/ answered'[k] = answered[k]
        \/ answered'[k] \in 1..Len(stored) /\ stored[answered'[k]].key = k
  BY <1>3, StoredAnswer
<1> QED
  BY <1>1, <1>4, QuietSound

LEMMA EffectSound ==
  ASSUME TypesRight, SectionRight, LogRight, SoundRight, Effect
  PROVE  SoundRight'
<1>1. /\ UNCHANGED <<file, unended, stored, up, setting, answered>>
      /\ section.pc # "sync" /\ section'.pc # "sync"
  BY DEF Effect, disk, memory, Goto, Idle
<1>2. up = "up"
  BY BusyIsUp DEF Effect
<1> QED
  BY <1>1, <1>2, QuietSound

LEMMA UnindexSound ==
  ASSUME TypesRight, SectionRight, LogRight, SoundRight, Unindex
  PROVE  SoundRight'
<1>1. /\ UNCHANGED <<file, unended, stored, up, setting>>
      /\ section.pc # "sync" /\ section'.pc # "sync"
  BY DEF Unindex, disk, memory, Goto, Idle
<1>2. up = "up"
  BY BusyIsUp DEF Unindex
<1>3. PICK r \in Requests : /\ section.op = Asked(r) /\ Len(stored) > 0
                            /\ stored[Len(stored)] = EventOf(r)
  BY DEF SectionRight, Unindex
<1>4. Own(section.op).key \in KeysOf(stored)
  <2>1. Len(stored) \in 1..Len(stored)
    BY <1>3, SizeTypes
  <2>2. Own(section.op) = stored[Len(stored)]
    BY <1>3, OpFields
  <2> QED
    BY <2>1, <2>2 DEF KeysOf
<1>5. PICK key \in KeysOf(stored) : answered' = [answered EXCEPT ![key] = SequenceOf(key)]
  BY <1>4 DEF Unindex, Answer
<1>6. \A k \in Keys : answered'[k] # 0 =>
        \/ answered'[k] = answered[k]
        \/ answered'[k] \in 1..Len(stored) /\ stored[answered'[k]].key = k
  BY <1>5, StoredAnswer
<1> QED
  BY <1>1, <1>2, <1>6, QuietSound

LEMMA StartSound ==
  ASSUME TypesRight, LogRight, SoundRight, Start
  PROVE  SoundRight'
<1> SUFFICES ASSUME DiskIsSound' PROVE SoundRight'
  BY DEF SoundRight
<1>1. DiskIsSound /\ UNCHANGED <<file, unended, section, answered>> /\ section = Idle
  BY SameSettingSound DEF Start, LogRight
<1>2. Readable(file) /\ Readable(file)'
  BY <1>1 DEF SoundRight, Readable
<1>3. up' = "up" /\ stored' = file
  BY <1>2 DEF Start
<1>4. section'.pc # "sync"
  BY <1>1 DEF Idle
<1> QED
  BY <1>1, <1>2, <1>3, <1>4 DEF SoundRight

\* The line that is being written is in the file, and the file stays readable.
LEMMA WrittenSound ==
  ASSUME TypesRight, SectionRight, LogRight, SoundRight, DiskIsSound, section.pc = "write",
         WriteLine(Head(section.op.lines))
  PROVE  /\ file' = Append(stored, Head(section.op.lines)) /\ unended' = FALSE
         /\ Len(file') = Len(stored) + 1 /\ \A i \in 1..Len(stored) : file'[i] = stored[i]
         /\ Readable(file)'
<1>1. up = "up" /\ file = stored /\ stored \in Seq(AllLines)
  <2>1. up = "up"
    BY BusyIsUp
  <2> QED
    BY <2>1, SoundFile DEF TypesRight
<1>2. PICK line : line = Head(section.op.lines)
  OBVIOUS
<1>3. line \in GoodLines /\ line \in AllLines /\ line.key \notin KeysOf(stored)
  <2>1. Writing
    BY DEF Writing
  <2>2. line = section.op.lines[1] /\ 1 \in 1..Len(section.op.lines)
    BY <1>2, <2>1, WritingFacts
  <2>3. line.key \notin remembered
    BY <2>1, <2>2 DEF SectionRight
  <2> QED
    BY <1>1, <1>2, <2>1, <2>3, WritingFacts DEF LogRight
<1>4. file' = Append(stored, line) /\ unended' = FALSE
  <2>1. ~unended
    BY DEF SoundRight
  <2> QED
    BY <1>1, <1>2, <2>1 DEF WriteLine, Put
<1>5. Readable(Append(stored, line))
  BY <1>1, <1>3, ReadableAppend DEF SoundRight
<1>6. Readable(file)'
  BY <1>4, <1>5 DEF Readable
<1> QED
  BY <1>1, <1>2, <1>3, <1>4, <1>6, AppendedElements

LEMMA WriteSound ==
  ASSUME TypesRight, SectionRight, LogRight, SoundRight, Write
  PROVE  SoundRight'
<1> SUFFICES ASSUME DiskIsSound' PROVE SoundRight'
  BY DEF SoundRight
<1>1. DiskIsSound /\ section.pc = "write" /\ UNCHANGED <<stored, up, answered>>
  BY SameSettingSound DEF Write, memory
<1>2. up = "up"
  BY <1>1, BusyIsUp
<1>3. WriteLine(Head(section.op.lines)) /\ section' = [pc |-> "sync", op |-> section.op]
  BY <1>1, SoundFaults DEF Write, Goto
<1>4. /\ file' = Append(stored, Head(section.op.lines)) /\ unended' = FALSE
      /\ Len(file') = Len(stored) + 1 /\ \A i \in 1..Len(stored) : file'[i] = stored[i]
      /\ Readable(file)'
  BY <1>1, <1>3, WrittenSound
<1>5. section'.pc = "sync" /\ section'.op = section.op
  BY <1>3
<1>6. file' = Append(stored', Head(section'.op.lines))
  BY <1>1, <1>4, <1>5
<1>7. file = stored
  BY <1>1, <1>2, SoundFile
<1>8. \A k \in Keys : answered'[k] # 0 =>
        answered'[k] <= Len(file') /\ file'[answered'[k]].key = k /\ answered'[k] <= Len(stored')
  <2> SUFFICES ASSUME NEW k \in Keys, answered'[k] # 0
               PROVE  answered'[k] <= Len(file') /\ file'[answered'[k]].key = k /\ answered'[k] <= Len(stored')
    OBVIOUS
  <2>1. answered[k] \in 1..Len(stored) /\ stored[answered[k]].key = k /\ answered'[k] = answered[k]
    BY <1>1, <1>7, SizeTypes DEF SoundRight, TypesRight
  <2> QED
    BY <1>1, <1>4, <2>1, SizeTypes
<1> QED
  BY <1>1, <1>2, <1>4, <1>5, <1>6, <1>8 DEF SoundRight

LEMMA SyncSound ==
  ASSUME TypesRight, SectionRight, LogRight, SoundRight, Sync
  PROVE  SoundRight'
<1> SUFFICES ASSUME DiskIsSound' PROVE SoundRight'
  BY DEF SoundRight
<1>1. DiskIsSound /\ section.pc = "sync" /\ UNCHANGED <<file, unended, up>>
  BY SameSettingSound DEF Sync, disk
<1>2. up = "up"
  BY <1>1, BusyIsUp
<1>3. PICK line : line = Head(section.op.lines)
  OBVIOUS
<1>4. /\ stored' = Append(stored, line) /\ section'.pc # "sync"
      /\ answered' = answered \/ answered' = [answered EXCEPT ![line.key] = Len(stored) + 1]
  BY <1>1, <1>3, SoundFaults DEF Sync, Answer, NextSequence, Goto, Idle
<1>5. file = Append(stored, line) /\ Len(file) = Len(stored) + 1 /\ file[Len(file)] = line
  BY <1>1, <1>2, <1>3, SoundFile
<1>6. file' = stored'
  BY <1>1, <1>4, <1>5
<1>7. \A k \in Keys : answered'[k] # 0 => answered'[k] <= Len(file) /\ file[answered'[k]].key = k
  <2> SUFFICES ASSUME NEW k \in Keys, answered'[k] # 0
               PROVE  answered'[k] <= Len(file) /\ file[answered'[k]].key = k
    OBVIOUS
  <2>1. CASE answered'[k] = answered[k]
    BY <1>1, <2>1 DEF SoundRight
  <2>2. CASE answered'[k] # answered[k]
    <3>1. k = line.key /\ answered'[k] = Len(stored) + 1
      BY <1>4, <2>2 DEF TypesRight
    <3> QED
      BY <1>5, <3>1, SizeTypes
  <2> QED
    BY <2>1, <2>2
<1>8. unended' = FALSE /\ up' = "up" /\ Readable(file)'
  BY <1>1, <1>2 DEF SoundRight, Readable
<1> QED
  BY <1>1, <1>4, <1>6, <1>7, <1>8 DEF SoundRight

LEMMA CrashSound ==
  ASSUME TypesRight, SectionRight, LogRight, SoundRight, Crash
  PROVE  SoundRight'
<1> SUFFICES ASSUME DiskIsSound' PROVE SoundRight'
  BY DEF SoundRight
<1>1. DiskIsSound /\ UNCHANGED answered /\ up = "up" /\ up' = "down"
  BY SameSettingSound DEF Crash
<1>2. \A k \in Keys : answered[k] # 0 => answered[k] \in 1..Len(stored) /\ stored[answered[k]].key = k
  BY <1>1, SoundFile, SizeTypes DEF SoundRight, TypesRight
<1>3. /\ unended' = FALSE /\ Readable(file)'
      /\ Len(stored) <= Len(file') /\ \A i \in 1..Len(stored) : file'[i] = stored[i]
  <2>1. CASE UNCHANGED <<file, unended>>
    BY <1>1, <2>1, SoundFile DEF SoundRight, Readable
  <2>2. CASE section.pc = "write" /\ WriteLine(Head(section.op.lines))
    BY <1>1, <2>2, WrittenSound, SizeTypes
  <2>3. CASE /\ section.pc = "sync" /\ file' = SubSeq(file, 1, Len(file) - 1) /\ UNCHANGED unended
    <3>1. Len(file) = Len(stored) + 1 /\ file \in Seq(AllLines) /\ \A i \in 1..Len(stored) : file[i] = stored[i]
      BY <1>1, <2>3, SoundFile DEF TypesRight
    <3>2. PICK n \in Nat : n = Len(stored) /\ Len(file) = n + 1
      BY <3>1, SizeTypes
    <3>3. Len(file') = n /\ \A i \in 1..n : file'[i] = file[i] /\ i \in 1..Len(file)
      BY <2>3, <3>1, <3>2
    <3>4. Readable(file)'
      BY <1>1, <3>3 DEF SoundRight, Readable
    <3> QED
      BY <1>1, <2>3, <3>1, <3>2, <3>3, <3>4 DEF SoundRight
  <2> QED
    BY <1>1, <2>1, <2>2, <2>3, SoundFaults DEF Crash, TearLine
<1>4. \A k \in Keys : answered'[k] # 0 => answered'[k] <= Len(file') /\ file'[answered'[k]].key = k
  <2> SUFFICES ASSUME NEW k \in Keys, answered'[k] # 0
               PROVE  answered'[k] <= Len(file') /\ file'[answered'[k]].key = k
    OBVIOUS
  <2>1. answered'[k] \in 1..Len(stored) /\ stored[answered'[k]].key = k
    BY <1>1, <1>2
  <2>2. Len(file') \in Nat
    BY CrashTypes DEF TypesRight
  <2> QED
    BY <1>3, <2>1, <2>2, SizeTypes
<1> QED
  BY <1>1, <1>3, <1>4 DEF SoundRight

LEMMA InitSound == Init => SoundRight
<1> SUFFICES ASSUME Init PROVE SoundRight
  OBVIOUS
<1>1. unended = FALSE /\ up = "down" /\ answered = [k \in Keys |-> 0]
  BY DEF Init
<1>2. Readable(file)
  <2>1. file = <<>> \/ \E a : file = <<Line("attempt.recorded", LegacyKey(a), a)>>
    BY DEF Init
  <2>2. CASE file = <<>>
    BY <2>2 DEF Readable
  <2>3. ASSUME NEW a, file = <<Line("attempt.recorded", LegacyKey(a), a)>>
        PROVE  Readable(file)
    <3>1. Len(file) = 1 /\ 1..1 = {1} /\ file[1] = Line("attempt.recorded", LegacyKey(a), a)
      BY <2>3
    <3>2. Line("attempt.recorded", LegacyKey(a), a) # Damaged
      BY DEF Line, Damaged
    <3> QED
      BY <3>1, <3>2 DEF Readable
  <2> QED
    BY <2>1, <2>2, <2>3
<1> QED
  BY <1>1, <1>2 DEF SoundRight

-----------------------------------------------------------------------------
(* What was written *)

LEMMA ElementOf ==
  ASSUME NEW lines, NEW i \in 1..Len(lines)
  PROVE  lines[i] \in Elements(lines)
BY DEF Elements

LEMMA ElementsType ==
  ASSUME NEW S, NEW lines \in Seq(S)
  PROVE  Elements(lines) \subseteq S
BY DEF Elements

LEMMA AppendElements ==
  ASSUME NEW S, NEW lines \in Seq(S), NEW line \in S
  PROVE  Elements(Append(lines, line)) = Elements(lines) \cup {line}
<1>0. PICK longer : longer = Append(lines, line)
  OBVIOUS
<1>1. PICK n \in Nat : longer = Append(lines, line) /\ n = Len(lines)
  BY <1>0
<1>2. /\ Len(longer) = n + 1 /\ longer[n + 1] = line
      /\ \A i \in 1..n : longer[i] = lines[i]
      /\ \A i \in 1..(n + 1) : i \in 1..n \/ i = n + 1
  BY <1>1, AppendedElements
<1>3. \A i \in 1..n : i \in 1..(n + 1)
  OBVIOUS
<1>4. n + 1 \in 1..(n + 1)
  OBVIOUS
<1> QED
  BY <1>1, <1>2, <1>3, <1>4 DEF Elements

LEMMA TailElements ==
  ASSUME NEW S, NEW lines \in Seq(S), Len(lines) > 0
  PROVE  Elements(Tail(lines)) \subseteq Elements(lines)
<1>0. PICK rest : rest = Tail(lines)
  OBVIOUS
<1>1. PICK n \in Nat : rest = Tail(lines) /\ n + 1 = Len(lines)
  <2>1. Len(lines) - 1 \in Nat /\ (Len(lines) - 1) + 1 = Len(lines)
    OBVIOUS
  <2> QED
    BY <1>0, <2>1
<1>2. Len(rest) = n /\ \A i \in 1..n : rest[i] = lines[i + 1]
  BY <1>1, TailLines
<1>3. \A i \in 1..n : i + 1 \in 1..(n + 1)
  OBVIOUS
<1> QED
  BY <1>1, <1>2, <1>3 DEF Elements

LEMMA WrittenType ==
  ASSUME TypesRight, SectionRight
  PROVE  Written \subseteq AllLines
<1>1. Elements(file) \subseteq AllLines /\ Elements(stored) \subseteq AllLines
  BY ElementsType DEF TypesRight
<1>2. Writing => Elements(section.op.lines) \subseteq AllLines
  <2> SUFFICES ASSUME Writing PROVE Elements(section.op.lines) \subseteq AllLines
    OBVIOUS
  <2>1. section.op.lines \in Seq(GoodLines)
    BY WritingFacts
  <2> QED
    BY <2>1, ElementsType, AllLinesFacts
<1> QED
  BY <1>1, <1>2 DEF Written

\* The line that is next is among those written.
LEMMA HeadWritten ==
  ASSUME SectionRight, Writing
  PROVE  Head(section.op.lines) \in Written
<1>1. Head(section.op.lines) = section.op.lines[1] /\ 1 \in 1..Len(section.op.lines)
  BY WritingFacts
<1> QED
  BY <1>1, ElementOf DEF Written

\* Where nothing new is written, section and file hold what they held.
LEMMA SameWritten ==
  ASSUME Elements(file') \subseteq Written \cup {Damaged}, Elements(stored') \subseteq Written,
         section'.pc \notin {"write", "sync"} \/ (Elements(section'.op.lines) \subseteq Written)
  PROVE  Written' \subseteq Written \cup {Damaged}
<1>1. Written' = Elements(file') \cup Elements(stored')
                  \cup (IF section'.pc \in {"write", "sync"} THEN Elements(section'.op.lines) ELSE {})
  BY DEF Written, Writing, Elements
<1> QED
  BY <1>1

LEMMA OutsideWritten ==
  ASSUME UNCHANGED <<file, stored, section>>
  PROVE  Written' = Written
BY DEF Written, Writing, Elements

LEMMA PutWritten ==
  ASSUME TypesRight, SectionRight, LogRight, Writing,
         \/ file' = file
         \/ file' = Put(Head(section.op.lines))
         \/ file' = Put(Damaged)
  PROVE  Elements(file') \subseteq Written \cup {Damaged}
<1>1. Head(section.op.lines) \in AllLines /\ Damaged \in AllLines /\ Head(section.op.lines) \in Written
  BY WritingFacts, HeadWritten, AllLinesFacts
<1>2. Elements(file) \subseteq Written
  BY DEF Written
<1>3. file \in Seq(AllLines) /\ (unended => Len(file) > 0)
  BY DEF TypesRight, LogRight
<1>4. \A line \in AllLines : Elements(Put(line)) \subseteq Elements(file) \cup {line, Damaged}
  BY <1>3, PutFacts
<1> QED
  BY <1>1, <1>2, <1>4

LEMMA WriteWritten ==
  ASSUME TypesRight, SectionRight, LogRight, Write
  PROVE  Written' \subseteq Written \cup {Damaged}
<1>1. Writing
  BY DEF Write, Writing
<1>2. Elements(file') \subseteq Written \cup {Damaged}
  BY <1>1, PutWritten DEF Write, WriteLine, TearLine
<1>3. Elements(stored') \subseteq Written
  BY DEF Write, memory, Written
<1>4. section' = Idle \/ section'.op = section.op
  BY DEF Write, Goto
<1>5. section'.pc \notin {"write", "sync"} \/ (Elements(section'.op.lines) \subseteq Written)
  BY <1>1, <1>4 DEF Idle, Written
<1> QED
  BY <1>2, <1>3, <1>5, SameWritten

LEMMA SyncWritten ==
  ASSUME TypesRight, SectionRight, Sync
  PROVE  Written' \subseteq Written \cup {Damaged}
<1>1. Writing
  BY DEF Sync, Writing
<1>2. Elements(file') \subseteq Written \cup {Damaged}
  BY DEF Sync, disk, Written
<1>3. Elements(stored') \subseteq Written
  <2>1. PICK line : line = Head(section.op.lines)
    OBVIOUS
  <2>2. line \in AllLines /\ line \in Written
    BY <1>1, <2>1, WritingFacts, HeadWritten
  <2>3. stored' = stored \/ stored' = Append(stored, line)
    BY <2>1 DEF Sync
  <2>4. Elements(Append(stored, line)) = Elements(stored) \cup {line}
    BY <2>2, AppendElements DEF TypesRight
  <2> QED
    BY <2>2, <2>3, <2>4 DEF Written
<1>4. section'.pc \notin {"write", "sync"} \/ (Elements(section'.op.lines) \subseteq Written)
  <2>1. CASE section'.pc \notin {"write", "sync"}
    BY <2>1
  <2>2. CASE section'.pc \in {"write", "sync"}
    <3>1. section' = [pc |-> "write", op |-> [section.op EXCEPT !.lines = Tail(@)]]
      BY <2>2 DEF Sync, Goto, Idle
    <3>2. section.op = [kind |-> section.op.kind, lines |-> section.op.lines]
      BY <1>1 DEF SectionRight
    <3>3. section'.op.lines = Tail(section.op.lines)
      BY <3>1, <3>2
    <3>4. Elements(Tail(section.op.lines)) \subseteq Elements(section.op.lines)
      <4>1. section.op.lines \in Seq(GoodLines) /\ Len(section.op.lines) > 0
        BY <1>1, WritingFacts
      <4> QED
        BY <4>1, TailElements
    <3> QED
      BY <1>1, <3>3, <3>4 DEF Written
  <2> QED
    BY <2>1, <2>2
<1> QED
  BY <1>2, <1>3, <1>4, SameWritten

LEMMA UnindexWritten ==
  ASSUME Unindex
  PROVE  Written' \subseteq Written
<1>1. UNCHANGED <<file, stored>> /\ ~Writing'
  BY DEF Unindex, memory, Writing, Idle
<1> QED
  BY <1>1 DEF Written, Elements

LEMMA StartWritten ==
  ASSUME LogRight, Start
  PROVE  Written' \subseteq Written
<1>1. UNCHANGED <<file, section>> /\ section = Idle /\ (stored' = stored \/ stored' = file)
  BY DEF Start, LogRight
<1>2. ~Writing'
  BY <1>1 DEF Writing, Idle
<1> QED
  BY <1>1, <1>2 DEF Written, Elements

LEMMA CrashWritten ==
  ASSUME TypesRight, SectionRight, LogRight, Crash
  PROVE  Written' \subseteq Written \cup {Damaged}
<1>1. stored' = <<>> /\ section' = Idle
  BY DEF Crash
<1>2. Elements(stored') \subseteq Written /\ section'.pc \notin {"write", "sync"}
  BY <1>1 DEF Elements, Idle
<1>3. Elements(file') \subseteq Written \cup {Damaged}
  <2>1. CASE section.pc = "write"
    BY <2>1, PutWritten DEF Crash, WriteLine, TearLine, Writing
  <2>2. CASE file' = file
    BY <2>2 DEF Written
  <2>3. CASE file # <<>> /\ file' = SubSeq(file, 1, Len(file) - 1)
    <3>0. PICK lines \in Seq(AllLines), n \in Nat : lines = file /\ n + 1 = Len(lines)
      <4>1. file \in Seq(AllLines) /\ file # <<>>
        BY <2>3 DEF TypesRight
      <4>2. Len(file) - 1 \in Nat /\ (Len(file) - 1) + 1 = Len(file)
        BY <4>1
      <4> QED
        BY <4>1, <4>2
    <3>4. Len(SubSeq(lines, 1, n)) = n /\ \A i \in 1..n : SubSeq(lines, 1, n)[i] = lines[i]
      BY <3>0
    <3>5. file' = SubSeq(lines, 1, n)
      BY <2>3, <3>0
    <3>1. Len(file') = n /\ \A i \in 1..n : file'[i] = lines[i]
      BY <3>4, <3>5
    <3>2. \A i \in 1..n : i \in 1..(n + 1)
      OBVIOUS
    <3>3. Elements(file') \subseteq Elements(file)
      BY <3>0, <3>1, <3>2 DEF Elements
    <3> QED
      BY <3>3 DEF Written
  <2>4. CASE file # <<>> /\ file' = [file EXCEPT ![Len(file)] = Damaged]
    <3>1. Len(file') = Len(file) /\ \A i \in 1..Len(file) : file'[i] \in {file[i], Damaged}
      BY <2>4 DEF TypesRight
    <3>2. Elements(file') \subseteq Elements(file) \cup {Damaged}
      BY <3>1 DEF Elements
    <3> QED
      BY <3>2 DEF Written
  <2> QED
    BY <2>1, <2>2, <2>3, <2>4 DEF Crash
<1> QED
  BY <1>2, <1>3, SameWritten

LEMMA OneElement == ASSUME NEW line PROVE Elements(<<line>>) = {line}
<1>1. Len(<<line>>) = 1 /\ 1..1 = {1} /\ <<line>>[1] = line
  OBVIOUS
<1> QED
  BY <1>1 DEF Elements

LEMMA EnterWritten ==
  ASSUME TypesRight, Enter
  PROVE  \/ Written' \subseteq Written /\ (section'.pc = "effect" \/ section' = section)
         \/ \E op \in Ops : /\ op = Head(queue) /\ section'.op = op /\ op.kind \in {"append", "refresh"}
                            /\ section'.pc = "write" /\ Written' \subseteq Written \cup {Own(op)}
<1>1. UNCHANGED <<file, stored>> /\ section.pc = "idle"
  BY DEF Enter, disk, memory
<1>2. Written' = Elements(file) \cup Elements(stored)
                  \cup (IF section'.pc \in {"write", "sync"} THEN Elements(section'.op.lines) ELSE {})
  BY <1>1 DEF Written, Writing, Elements
<1>3. Elements(file) \subseteq Written /\ Elements(stored) \subseteq Written
  BY DEF Written
<1>4. PICK op \in Ops : op = Head(queue)
  BY DEF Enter, TypesRight
<1>5. CASE section' = section
  BY <1>1, <1>2, <1>3, <1>5
<1>6. CASE section' = [pc |-> "effect", op |-> op]
  BY <1>2, <1>3, <1>6
<1>7. CASE section' = [pc |-> "write", op |-> op] /\ op.kind \in {"append", "refresh"}
  <2>1. Elements(op.lines) = {Own(op)}
    BY OpFacts, OneElement
  <2> QED
    BY <1>2, <1>3, <1>4, <1>7, <2>1
<1> QED
  BY <1>4, <1>5, <1>6, <1>7 DEF Enter, Goto

LEMMA EffectWritten ==
  ASSUME TypesRight, Fits, SectionRight, Effect
  PROVE  \/ Written' \subseteq Written /\ section' = Idle
         \/ \E r \in Requests : /\ section.op = Asked(r) /\ section' # Idle
                                /\ Written' \subseteq Written \cup FillerLines \cup {EventOf(r)}
<1>1. UNCHANGED <<file, stored>>
  BY DEF Effect, disk, memory
<1>2. Written' = Elements(file) \cup Elements(stored)
                  \cup (IF section'.pc \in {"write", "sync"} THEN Elements(section'.op.lines) ELSE {})
  BY <1>1 DEF Written, Writing, Elements
<1>3. Elements(file) \subseteq Written /\ Elements(stored) \subseteq Written
  BY DEF Written
<1>4. CASE section' = Idle
  <2>1. section'.pc \notin {"write", "sync"}
    BY <1>4 DEF Idle
  <2> QED
    BY <1>2, <1>3, <1>4, <2>1
<1>5. CASE section' # Idle
  <2>1. PICK r \in Requests, before \in Seq(FillerLines) :
           /\ section.op = Asked(r)
           /\ section' = [pc |-> "write",
                          op |-> [kind |-> r.kind, lines |-> Append(before, EventOf(r))]]
    BY <1>5, EffectGoes
  <2>2. EventOf(r) \in GoodLines /\ before \in Seq(GoodLines)
    <3>1. FillerLines \subseteq GoodLines
      BY DEF GoodLines
    <3> QED
      BY <3>1, OpFields, AsksAreOps DEF GoodLines
  <2>3. Elements(Append(before, EventOf(r))) = Elements(before) \cup {EventOf(r)}
    BY <2>2, AppendElements
  <2>4. Elements(before) \subseteq FillerLines
    BY ElementsType
  <2>5. section'.op.lines = Append(before, EventOf(r))
    BY <2>1
  <2> QED
    BY <1>2, <1>3, <1>5, <2>1, <2>3, <2>4, <2>5
<1> QED
  BY <1>4, <1>5

-----------------------------------------------------------------------------
(* What the lines written say *)

\* What a line of a type with consequences is about.
LEMMA AboutFacts ==
  ASSUME NEW line \in AllLines
  PROVE  /\ line.type = "attempt.changed" =>
              /\ line.about \in Attempts /\ line.key[3] \in 1..MaxVersion
              /\ line = Own(Changed(line.about, line.key[3])) /\ line.key = RecordKey(line.about, line.key[3])
         /\ line.type = "verification.recorded" => line.about \in Contents /\ line = Own(Verified(line.about))
         /\ line.type = "intervention.requested" => line.about \in Questions /\ line = Own(Opened(line.about))
<1>1. line.type \in {"attempt.changed", "verification.recorded", "intervention.requested"} => line \in GoodLines
  BY LineFields DEF AllLines, Damaged
<1>2. ASSUME line.type = "attempt.changed"
      PROVE  /\ line.about \in Attempts /\ line.key[3] \in 1..MaxVersion
             /\ line = Own(Changed(line.about, line.key[3])) /\ line.key = RecordKey(line.about, line.key[3])
  <2>1. PICK a \in Attempts, v \in 1..MaxVersion : line = Own(Changed(a, v))
    BY <1>1, <1>2, LineKinds
  <2>2. line.key = RecordKey(a, v) /\ line.about = a
    BY <2>1, OpFields, LineFields
  <2>3. RecordKey(a, v)[3] = v
    BY DEF RecordKey
  <2> QED
    BY <2>1, <2>2, <2>3
<1>3. ASSUME line.type = "verification.recorded"
      PROVE  line.about \in Contents /\ line = Own(Verified(line.about))
  <2>1. PICK c \in Contents : line = Own(Verified(c))
    BY <1>1, <1>3, LineKinds
  <2>2. line.about = c
    BY <2>1, OpFields, LineFields
  <2> QED
    BY <2>1, <2>2
<1>4. ASSUME line.type = "intervention.requested"
      PROVE  line.about \in Questions /\ line = Own(Opened(line.about))
  <2>1. PICK q \in Questions : line = Own(Opened(q))
    BY <1>1, <1>4, LineKinds
  <2>2. line.about = q
    BY <2>1, OpFields, LineFields
  <2> QED
    BY <2>1, <2>2
<1> QED
  BY <1>2, <1>3, <1>4

LEMMA DamagedRight == ASSUME NEW line, line = Damaged PROVE LineRight(line)'
BY DEF LineRight, Damaged, Line

\* A line that says something true goes on to.
LEMMA KeepsLine ==
  ASSUME NEW line \in AllLines, LineRight(line),
         \A a \in Attempts : versions[a] \in Nat /\ versions'[a] \in Nat /\ versions[a] <= versions'[a],
         \A c \in Contents : artifacts[c] = "whole" => artifacts'[c] = "whole",
         line.type = "intervention.resolved" => given'[line.about] = given[line.about]
  PROVE  LineRight(line)'
<1>1. line.type = "attempt.changed" => line.key[3] <= versions'[line.about]
  <2> SUFFICES ASSUME line.type = "attempt.changed" PROVE line.key[3] <= versions'[line.about]
    OBVIOUS
  <2>1. line.about \in Attempts /\ line.key[3] \in Nat
    BY AboutFacts
  <2>2. PICK v \in Nat : v = line.key[3]
    BY <2>1
  <2>3. v <= versions[line.about]
    BY <2>2 DEF LineRight
  <2> QED
    BY <2>1, <2>2, <2>3
<1>2. line.type = "verification.recorded" => artifacts'[line.about] = "whole"
  BY AboutFacts DEF LineRight
<1>3. line.type = "intervention.resolved" =>
         line.about \in Questions /\ line.key \in Keys /\ given'[line.about] = line.key
  BY DEF LineRight
<1> QED
  BY <1>1, <1>2, <1>3 DEF LineRight

LEMMA KeepsWritten ==
  ASSUME TypesRight, SectionRight, WrittenRight, Written' \subseteq Written \cup {Damaged},
         \A a \in Attempts : versions[a] \in Nat /\ versions'[a] \in Nat /\ versions[a] <= versions'[a],
         \A c \in Contents : artifacts[c] = "whole" => artifacts'[c] = "whole",
         \A line \in Written :
           line.type = "intervention.resolved" => given'[line.about] = given[line.about]
  PROVE  WrittenRight'
<1> SUFFICES ASSUME NEW line \in Written' PROVE LineRight(line)'
  BY DEF WrittenRight
<1>1. CASE line = Damaged
  BY <1>1, DamagedRight
<1>2. CASE line \in Written
  <2>1. line \in AllLines
    BY <1>2, WrittenType
  <2> QED
    BY <1>2, <2>1, KeepsLine DEF WrittenRight
<1> QED
  BY <1>1, <1>2

LEMMA VersionsType == TypesRight => \A a \in Attempts : versions[a] \in Nat /\ versions[a] <= versions[a]
BY LogBounds DEF TypesRight

\* A step that gives no answer and draws no version.
LEMMA SameWrittenRight ==
  ASSUME TypesRight, SectionRight, WrittenRight, Written' \subseteq Written \cup {Damaged},
         UNCHANGED <<versions, artifacts, given>>
  PROVE  WrittenRight'
BY KeepsWritten, VersionsType

LEMMA InitWrittenRight == Init => WrittenRight
<1> SUFFICES ASSUME Init, NEW line \in Written PROVE LineRight(line)
  BY DEF WrittenRight
<1>1. stored = <<>> /\ section = Idle
  BY DEF Init
<1>2. line \in Elements(file)
  BY <1>1 DEF Written, Writing, Idle, Elements
<1>3. file = <<>> \/ \E a : file = <<Line("attempt.recorded", LegacyKey(a), a)>>
  BY DEF Init
<1>4. CASE file = <<>>
  BY <1>2, <1>4 DEF Elements
<1>5. CASE \E a : file = <<Line("attempt.recorded", LegacyKey(a), a)>>
  <2>1. PICK a : file = <<Line("attempt.recorded", LegacyKey(a), a)>>
    BY <1>5
  <2>2. line = Line("attempt.recorded", LegacyKey(a), a)
    BY <1>2, <2>1, OneElement
  <2>3. line.type = "attempt.recorded"
    BY <2>2, LineFields
  <2> QED
    BY <2>3 DEF LineRight
<1> QED
  BY <1>3, <1>4, <1>5

LEMMA QuestionUnresolved ==
  ASSUME WrittenRight, NEW q \in Questions, given[q] = None, NEW line \in Written
  PROVE  ~(line.type = "intervention.resolved" /\ line.about = q)
BY NoneAssumption DEF WrittenRight, LineRight

LEMMA OutsideWrittenRight ==
  ASSUME TypesRight, SectionRight, WrittenRight,
         \/ \E a \in Attempts : RecordAttempt(a)
         \/ \E r \in Requests : Command(r) \/ RefreshTracker(r) \/ Refreshed(r)
         \/ \E q \in Questions : Ask(q)
         \/ \E c \in Contents : PutArtifact(c) \/ ArtifactPut(c) \/ PutAgain(c)
  PROVE  WrittenRight'
<1>1. UNCHANGED <<file, stored, section>>
  BY DEF RecordAttempt, Command, RefreshTracker, Refreshed, Ask, PutArtifact, ArtifactPut, PutAgain,
         disk, memory
<1>2. Written' = Written
  BY <1>1, OutsideWritten
<1>3. ASSUME UNCHANGED <<versions, artifacts, given>> PROVE WrittenRight'
  BY <1>2, <1>3, SameWrittenRight
<1>4. ASSUME NEW a \in Attempts, RecordAttempt(a) PROVE WrittenRight'
  <2>1. /\ versions' = [versions EXCEPT ![a] = @ + 1] /\ UNCHANGED <<artifacts, given>>
        /\ versions \in [Attempts -> 0..MaxVersion]
    BY <1>4 DEF RecordAttempt, live, TypesRight
  <2>2. \A b \in Attempts : versions[b] \in Nat /\ versions'[b] \in Nat /\ versions[b] <= versions'[b]
    BY <2>1, LogBounds
  <2> QED
    BY <1>2, <2>1, <2>2, KeepsWritten
<1>5. ASSUME NEW q \in Questions, Ask(q) PROVE WrittenRight'
  <2>1. /\ given' = [given EXCEPT ![q] = "asked"] /\ UNCHANGED <<artifacts, versions>>
        /\ given = [p \in Questions |-> given[p]] /\ given[q] = None
    BY <1>5 DEF Ask, disk, TypesRight
  <2>2. ASSUME NEW line \in Written, line.type = "intervention.resolved"
        PROVE  given'[line.about] = given[line.about]
    <3>1. line.about \in Questions
      BY <2>2 DEF WrittenRight, LineRight
    <3>2. line.about # q
      BY <2>1, <2>2, QuestionUnresolved
    <3> QED
      BY <2>1, <3>1, <3>2
  <2> QED
    BY <1>2, <2>1, <2>2, KeepsWritten, VersionsType
<1>6. ASSUME NEW c \in Contents, PutArtifact(c) \/ ArtifactPut(c) PROVE WrittenRight'
  <2>1. /\ UNCHANGED <<versions, given>> /\ artifacts \in [Contents -> {"absent", "partial", "whole"}]
        /\ artifacts' \in {artifacts, [artifacts EXCEPT ![c] = "whole"], [artifacts EXCEPT ![c] = "partial"]}
        /\ artifacts' = [artifacts EXCEPT ![c] = "partial"] => artifacts[c] # "whole"
    BY <1>6 DEF PutArtifact, ArtifactPut, live, TypesRight
  <2>2. \A d \in Contents : artifacts[d] = "whole" => artifacts'[d] = "whole"
    BY <2>1
  <2> QED
    BY <1>2, <2>1, <2>2, KeepsWritten, VersionsType
<1>7. ASSUME NEW c \in Contents, PutAgain(c) PROVE WrittenRight'
  BY <1>3, <1>7 DEF PutAgain, disk, live
<1>8. ASSUME NEW r \in Requests, Command(r) \/ RefreshTracker(r) \/ Refreshed(r) PROVE WrittenRight'
  BY <1>3, <1>8 DEF Command, RefreshTracker, Refreshed, disk, live
<1> QED
  BY <1>4, <1>5, <1>6, <1>7, <1>8

LEMMA EnterWrittenRight ==
  ASSUME TypesRight, SectionRight, WrittenRight, PipeRight, Enter
  PROVE  WrittenRight'
<1>1. UNCHANGED <<versions, artifacts, given>>
  BY DEF Enter, disk, live
<1>2. CASE Written' \subseteq Written
  BY <1>1, <1>2, SameWrittenRight
<1>3. ASSUME NEW op \in Ops, op = Head(queue), op.kind \in {"append", "refresh"},
             Written' \subseteq Written \cup {Own(op)}
      PROVE  WrittenRight'
  <2>1. Pipe = queue /\ queue \in Seq(Ops) /\ queue # <<>>
    BY DEF Pipe, PipeOf, Enter, TypesRight
  <2>2. 1 \in 1..Len(Pipe) /\ Pipe[1] = op
    BY <1>3, <2>1
  <2>3. LineRight(Own(op))
    <3>1. CASE op.kind = "refresh"
      <4>1. PICK r \in Requests : op = Asked(r) /\ r.kind = "refresh"
        BY <3>1, OpKinds
      <4>2. Own(op).type = "runtime.command.requested"
        BY <4>1, OpFields, LineFields DEF EventOf
      <4> QED
        BY <4>2 DEF LineRight
    <3>2. ASSUME NEW a \in Attempts, NEW v \in 1..MaxVersion, op = Changed(a, v) PROVE LineRight(Own(op))
      <4>1. Own(op).type = "attempt.changed" /\ Own(op).about = a
        BY <3>2, OpFields, LineFields
      <4>2. VersionIn(op) <= versions[a]
        BY <2>2, <3>2 DEF PipeRight, VersionsOrdered, Recording
      <4> QED
        BY <4>1, <4>2 DEF LineRight, VersionIn
    <3>3. ASSUME NEW q \in Questions, op = Opened(q) PROVE LineRight(Own(op))
      <4>1. Own(op).type = "intervention.requested"
        BY <3>3, OpFields, LineFields
      <4> QED
        BY <4>1 DEF LineRight
    <3>4. ASSUME NEW c \in Contents, op = Verified(c) PROVE LineRight(Own(op))
      <4>1. Own(op).type = "verification.recorded" /\ Own(op).about = c
        BY <3>4, OpFields, LineFields
      <4>2. artifacts[c] = "whole"
        BY <2>2, <3>4 DEF PipeRight, ArtifactsThere
      <4> QED
        BY <4>1, <4>2 DEF LineRight
    <3> QED
      BY <1>3, <3>1, <3>2, <3>3, <3>4, OpKinds
  <2>4. LineRight(Own(op))'
    BY <1>1, <2>3 DEF LineRight, Own
  <2>5. ASSUME NEW line \in Written' PROVE LineRight(line)'
    <3>1. CASE line = Own(op)
      BY <2>4, <3>1 DEF LineRight
    <3>2. CASE line \in Written
      BY <1>1, <3>2 DEF WrittenRight, LineRight
    <3> QED
      BY <1>3, <3>1, <3>2
  <2> QED
    BY <2>5 DEF WrittenRight
<1> QED
  BY <1>2, <1>3, EnterWritten

LEMMA EffectWrittenRight ==
  ASSUME TypesRight, Fits, SectionRight, WrittenRight, PipeRight, Effect
  PROVE  WrittenRight'
<1>1. UNCHANGED <<versions, artifacts>>
  BY DEF Effect, disk
<1>2. CASE Written' \subseteq Written /\ section' = Idle
  <2>1. UNCHANGED given
    BY <1>2 DEF Effect, Goto, Idle
  <2> QED
    BY <1>1, <1>2, <2>1, SameWrittenRight
<1>3. ASSUME NEW r \in Requests, section.op = Asked(r), section' # Idle,
             Written' \subseteq Written \cup FillerLines \cup {EventOf(r)}
      PROVE  WrittenRight'
  <2>1. section.op.kind = r.kind /\ Own(section.op) = EventOf(r)
    BY <1>3, OpFields
  <2>2. IF r.kind = "respond" THEN GiveAnswer(section.op) ELSE UNCHANGED given
    BY <1>3, <2>1 DEF Effect
  <2>3. r.kind = "respond" =>
          r.about \in pending /\ given' = [given EXCEPT ![r.about] = r.key] /\ r.about \in Questions
    BY <2>1, <2>2, EventFields DEF GiveAnswer, TypesRight
  <2>4. ASSUME NEW line \in Written, line.type = "intervention.resolved"
        PROVE  given'[line.about] = given[line.about]
    <3>1. line.about \in Questions
      BY <2>4 DEF WrittenRight, LineRight
    <3>2. r.kind = "respond" => line.about # r.about
      BY <2>3, <2>4 DEF PipeRight, QuestionsOpen
    <3>3. given = [q \in Questions |-> given[q]]
      BY DEF TypesRight
    <3> QED
      BY <2>2, <2>3, <3>1, <3>2, <3>3
  <2>5. ASSUME NEW line \in Written' PROVE LineRight(line)'
    <3>1. CASE line \in Written
      <4>1. line \in AllLines
        BY <3>1, WrittenType
      <4> QED
        BY <1>1, <2>4, <3>1, <4>1, KeepsLine, VersionsType DEF WrittenRight
    <3>2. CASE line \in FillerLines
      <4>1. line.type \in {"task.changed", "attempt.activity.changed", "attempt.session.changed"}
        BY <3>2, FillerFacts
      <4> QED
        BY <4>1 DEF LineRight
    <3>3. CASE line = EventOf(r) /\ r.kind # "respond"
      <4>1. line.type \in {"attempt.deleted", "review.decided", "runtime.command.requested"}
        BY <3>3, EventFields
      <4> QED
        BY <4>1 DEF LineRight
    <3>4. CASE line = EventOf(r) /\ r.kind = "respond"
      <4>1. line.type = "intervention.resolved" /\ line.about = r.about /\ line.key = r.key
        BY <3>4, EventFields
      <4>2. given'[r.about] = r.key /\ r.about \in Questions /\ r.key \in Keys
        BY <2>3, <3>4, RequestFacts DEF TypesRight
      <4> QED
        BY <4>1, <4>2 DEF LineRight
    <3> QED
      BY <1>3, <3>1, <3>2, <3>3, <3>4
  <2> QED
    BY <2>5 DEF WrittenRight
<1> QED
  BY <1>2, <1>3, EffectWritten

LEMMA InsideWrittenRight ==
  ASSUME TypesRight, SectionRight, LogRight, WrittenRight,
         Start \/ Write \/ Sync \/ Unindex \/ Crash
  PROVE  WrittenRight'
<1>1. UNCHANGED <<versions, artifacts, given>>
  BY DEF Start, Write, Sync, Unindex, Crash, live, disk
<1>2. Written' \subseteq Written \cup {Damaged}
  BY StartWritten, WriteWritten, SyncWritten, UnindexWritten, CrashWritten
<1> QED
  BY <1>1, <1>2, SameWrittenRight

-----------------------------------------------------------------------------
(* What is under way *)

LEMMA ConsFacts ==
  ASSUME NEW S, NEW x \in S, NEW q \in Seq(S)
  PROVE  /\ <<x>> \o q \in Seq(S) /\ Len(<<x>> \o q) = Len(q) + 1
         /\ (<<x>> \o q)[1] = x /\ \A i \in 1..Len(q) : (<<x>> \o q)[i + 1] = q[i]
OBVIOUS

LEMMA ConsTail ==
  ASSUME NEW S, NEW x \in S, NEW q \in Seq(S)
  PROVE  Tail(<<x>> \o q) = q
<1>1. PICK p \in Seq(S) : p = <<x>> \o q
  BY ConsFacts
<1>2. Len(p) = Len(q) + 1 /\ \A i \in 1..Len(q) : p[i + 1] = q[i]
  BY <1>1, ConsFacts
<1>3. Len(q) \in Nat
  OBVIOUS
<1>4. Tail(p) \in Seq(S) /\ Len(Tail(p)) = Len(q) /\ \A i \in 1..Len(q) : Tail(p)[i] = q[i]
  BY <1>2, <1>3, TailLines
<1> QED
  BY <1>1, <1>4, SeqEqual

LEMMA ConsHead ==
  ASSUME NEW S, NEW q \in Seq(S), q # <<>>
  PROVE  <<Head(q)>> \o Tail(q) = q
<1>1. Head(q) \in S /\ Tail(q) \in Seq(S) /\ Head(q) = q[1] /\ Len(q) > 0 /\ Len(q) \in Nat
  OBVIOUS
<1>2. PICK p \in Seq(S) : p = <<Head(q)>> \o Tail(q)
  BY <1>1, ConsFacts
<1>3. Len(p) = Len(q) /\ p[1] = q[1] /\ \A i \in 1..(Len(q) - 1) : p[i + 1] = Tail(q)[i]
  BY <1>1, <1>2, ConsFacts, TailLines
<1>4. \A i \in 1..Len(q) : p[i] = q[i]
  <2> SUFFICES ASSUME NEW i \in 1..Len(q) PROVE p[i] = q[i]
    OBVIOUS
  <2>1. CASE i = 1
    BY <1>3, <2>1
  <2>2. CASE i # 1
    <3>1. PICK k \in 1..(Len(q) - 1) : i = k + 1
      <4>1. i - 1 \in 1..(Len(q) - 1) /\ i = (i - 1) + 1
        BY <1>1, <2>2
      <4> QED
        BY <4>1
    <3>2. Tail(q)[k] = q[k + 1]
      BY <1>1, TailLines
    <3> QED
      BY <1>3, <3>1, <3>2
  <2> QED
    BY <2>1, <2>2
<1> QED
  BY <1>2, <1>3, <1>4, SeqEqual

LEMMA ConsAppend ==
  ASSUME NEW S, NEW x \in S, NEW q \in Seq(S), NEW y \in S
  PROVE  <<x>> \o Append(q, y) = Append(<<x>> \o q, y)
<1>1. Append(q, y) \in Seq(S) /\ Len(Append(q, y)) = Len(q) + 1 /\ Append(q, y)[Len(q) + 1] = y
      /\ \A i \in 1..Len(q) : Append(q, y)[i] = q[i]
  OBVIOUS
<1>2. PICK longer \in Seq(S) : longer = Append(q, y)
  BY <1>1
<1>3. PICK p \in Seq(S) : p = <<x>> \o longer
  BY ConsFacts
<1>4. PICK r \in Seq(S) : r = <<x>> \o q
  BY ConsFacts
<1>5. PICK n \in Nat : n = Len(q)
  OBVIOUS
<1>6. Len(p) = n + 2 /\ p[1] = x /\ \A i \in 1..(n + 1) : p[i + 1] = longer[i]
  BY <1>1, <1>2, <1>3, <1>5, ConsFacts
<1>7. Len(r) = n + 1 /\ r[1] = x /\ \A i \in 1..n : r[i + 1] = q[i]
  BY <1>4, <1>5, ConsFacts
<1>0. Append(r, y) \in Seq(S)
  OBVIOUS
<1>8. PICK s \in Seq(S) : s = Append(r, y)
  BY <1>0
<1>9. Len(s) = n + 2 /\ s[n + 2] = y /\ \A i \in 1..(n + 1) : s[i] = r[i]
  BY <1>7, <1>8
<1>10. \A i \in 1..(n + 2) : p[i] = s[i]
  <2> SUFFICES ASSUME NEW i \in 1..(n + 2) PROVE p[i] = s[i]
    OBVIOUS
  <2>1. CASE i = 1
    BY <1>6, <1>7, <1>9, <2>1
  <2>2. CASE i = n + 2
    <3>1. longer[n + 1] = y /\ n + 1 \in 1..(n + 1) /\ (n + 1) + 1 = n + 2
      BY <1>1, <1>2, <1>5
    <3> QED
      BY <1>6, <1>9, <2>2, <3>1
  <2>3. CASE i # 1 /\ i # n + 2
    <3>1. PICK k \in 1..n : i = k + 1
      <4>1. i - 1 \in 1..n /\ i = (i - 1) + 1
        BY <2>3
      <4> QED
        BY <4>1
    <3>2. longer[k] = q[k] /\ k \in 1..(n + 1) /\ i \in 1..(n + 1)
      BY <1>1, <1>2, <1>5, <3>1
    <3> QED
      BY <1>6, <1>7, <1>9, <3>1, <3>2
  <2> QED
    BY <2>1, <2>2, <2>3
<1> QED
  BY <1>2, <1>3, <1>4, <1>6, <1>8, <1>9, <1>10, SeqEqual

\* The operation in the critical section, as it waited.
LEMMA Inside ==
  ASSUME SectionRight, section.pc # "idle"
  PROVE  Op(section.op.kind, Own(section.op)) \in Ops
<1>1. CASE section.pc \in {"effect", "unindex"}
  <2>1. PICK r \in Requests : section.op = Asked(r)
    BY <1>1 DEF SectionRight
  <2>2. Asked(r) \in Ops
    BY DEF Ops
  <2> QED
    BY <2>1, <2>2, OpFacts
<1>2. CASE section.pc \in {"write", "sync"}
  BY <1>2 DEF SectionRight, Writing
<1> QED
  BY <1>1, <1>2 DEF SectionRight

LEMMA PipeType ==
  ASSUME TypesRight, SectionRight
  PROVE  Pipe \in Seq(Ops)
BY Inside, ConsFacts DEF Pipe, PipeOf, TypesRight

LEMMA PipeHead ==
  ASSUME TypesRight, SectionRight, section.pc # "idle"
  PROVE  /\ Len(Pipe) = Len(queue) + 1 /\ Tail(Pipe) = queue
         /\ Pipe[1] = Op(section.op.kind, Own(section.op))
         /\ \A i \in 1..Len(queue) : Pipe[i + 1] = queue[i]
BY Inside, ConsFacts, ConsTail DEF Pipe, PipeOf, TypesRight

\* The operation in the critical section leaves it.
LEMMA PipeLeaves ==
  ASSUME TypesRight, SectionRight, section.pc # "idle", section' = Idle, UNCHANGED queue
  PROVE  Pipe' = Tail(Pipe) /\ Len(Pipe) > 0
<1>1. Pipe' = queue'
  BY DEF Pipe, PipeOf, Idle
<1>2. Len(queue) \in Nat
  BY DEF TypesRight
<1> QED
  BY <1>1, <1>2, PipeHead

\* It stays there, and so does what it is.
LEMMA PipeStays ==
  ASSUME section.pc # "idle", section'.pc # "idle", section'.op.kind = section.op.kind,
         Own(section'.op) = Own(section.op), UNCHANGED queue
  PROVE  Pipe' = Pipe
<1>1. Own(section.op)' = Own(section'.op)
  BY DEF Own
<1> QED
  BY <1>1 DEF Pipe, PipeOf

LEMMA PipeSame ==
  ASSUME UNCHANGED <<section, queue>>
  PROVE  Pipe' = Pipe
BY DEF Pipe, PipeOf, Own, Op

LEMMA PipeGrows ==
  ASSUME TypesRight, SectionRight, UNCHANGED section, NEW op \in Ops, queue' = Append(queue, op)
  PROVE  Pipe' = Append(Pipe, op)
<1>1. Pipe' = PipeOf(section, Append(queue, op))
  BY DEF Pipe, PipeOf, Own, Op
<1> QED
  BY <1>1, Inside, ConsAppend DEF Pipe, PipeOf, TypesRight

LEMMA EnterPipe ==
  ASSUME TypesRight, Enter
  PROVE  /\ Pipe' = Tail(Pipe) \/ Pipe' = Pipe
         /\ Pipe = queue /\ queue # <<>>
<1>1. Pipe = queue /\ queue # <<>> /\ queue' = Tail(queue)
  BY DEF Pipe, PipeOf, Enter
<1>2. PICK op \in Ops : op = Head(queue)
  BY DEF Enter, TypesRight
<1>3. CASE UNCHANGED section
  <2>1. Pipe' = Tail(queue)
    BY <1>1, <1>3 DEF Pipe, PipeOf, Enter
  <2> QED
    BY <1>1, <2>1
<1>4. CASE section' # section
  <2>1. section'.op = op /\ section'.pc # "idle"
    BY <1>2, <1>4 DEF Enter, Goto
  <2>2. op = Op(op.kind, Own(op))
    BY OpFacts
  <2>3. Own(section.op)' = Own(op)
    BY <2>1 DEF Own
  <2>4. Pipe' = <<op>> \o Tail(queue)
    BY <1>1, <2>1, <2>2, <2>3 DEF Pipe, PipeOf
  <2> QED
    BY <1>1, <1>2, <2>4, ConsHead DEF TypesRight
<1> QED
  BY <1>3, <1>4

\* What each action does to what is under way.
LEMMA SyncPipe ==
  ASSUME TypesRight, SectionRight, Sync
  PROVE  /\ Pipe' = Pipe \/ (Pipe' = Tail(Pipe) /\ section' = Idle)
         /\ section' = Idle => Pipe' = Tail(Pipe)
         /\ section' # Idle /\ section.op.kind # "delete" => Len(section.op.lines) > 1
         /\ Len(Pipe) > 0 /\ Pipe[1] = Op(section.op.kind, Own(section.op))
         /\ section' # Idle => stored' # stored
<1>1. UNCHANGED queue /\ section.pc = "sync" /\ Writing
  BY DEF Sync, Writing
<1>2. Len(queue) \in Nat
  BY DEF TypesRight
<1>3. section.op = [kind |-> section.op.kind, lines |-> section.op.lines]
  BY <1>1 DEF SectionRight
<1>4. PICK lines \in Seq(GoodLines) : lines = section.op.lines /\ Len(lines) \in 1..3
  BY <1>1, WritingFacts
<1>8. section' # Idle => stored' # stored
  <2> SUFFICES ASSUME section' # Idle PROVE stored' # stored
    OBVIOUS
  <2>1. stored' = Append(stored, Head(section.op.lines))
    BY DEF Sync
  <2>2. Head(section.op.lines) \in AllLines /\ stored \in Seq(AllLines)
    BY <1>1, WritingFacts DEF TypesRight
  <2>3. Len(stored') = Len(stored) + 1 /\ Len(stored) \in Nat
    BY <2>1, <2>2
  <2> QED
    BY <2>3
<1>5. CASE section' = Idle
  BY <1>1, <1>2, <1>5, PipeLeaves, PipeHead
<1>6. CASE Len(lines) > 1 /\ section' = [pc |-> "write", op |-> [section.op EXCEPT !.lines = Tail(@)]]
  <2>1. section'.pc = "write" /\ section'.op = [kind |-> section.op.kind, lines |-> Tail(lines)]
    BY <1>3, <1>4, <1>6
  <2>2. Tail(lines)[Len(Tail(lines))] = lines[Len(lines)]
    <3>1. PICK n \in Nat : Len(lines) = n + 2
      <4>1. Len(lines) - 2 \in Nat /\ Len(lines) = (Len(lines) - 2) + 2
        BY <1>4, <1>6
      <4> QED
        BY <4>1
    <3>2. Len(Tail(lines)) = n + 1 /\ Tail(lines)[n + 1] = lines[n + 2]
      BY <3>1, TailLines
    <3> QED
      BY <3>1, <3>2
  <2>3. Own(section'.op) = Own(section.op) /\ section'.op.kind = section.op.kind
    <3>1. section'.op.lines = Tail(lines) /\ section'.op.kind = section.op.kind
      BY <2>1
    <3> QED
      BY <1>4, <2>2, <3>1 DEF Own
  <2>4. Pipe' = Pipe
    BY <1>1, <2>1, <2>3, PipeStays
  <2> QED
    BY <1>1, <1>2, <1>4, <1>6, <1>8, <2>1, <2>4, PipeHead DEF Idle
<1>7. CASE section.op.kind = "delete" /\ section' = [pc |-> "unindex", op |-> section.op]
  <2>1. Pipe' = Pipe
    BY <1>1, <1>7, PipeStays
  <2> QED
    BY <1>1, <1>2, <1>7, <1>8, <2>1, PipeHead DEF Idle
<1> QED
  BY <1>4, <1>5, <1>6, <1>7, <1>8 DEF Sync, Goto

LEMMA EffectPipe ==
  ASSUME TypesRight, Fits, SectionRight, Effect
  PROVE  /\ Len(Pipe) > 0 /\ Pipe[1] = Op(section.op.kind, Own(section.op))
         /\ section' = Idle => Pipe' = Tail(Pipe)
         /\ section' # Idle => Pipe' = Pipe
<1>1. UNCHANGED queue /\ section.pc = "effect" /\ Len(queue) \in Nat
  BY DEF Effect, TypesRight
<1>2. CASE section' = Idle
  BY <1>1, <1>2, PipeLeaves, PipeHead
<1>3. CASE section' # Idle
  <2>1. PICK r \in Requests, before \in Seq(FillerLines) :
           /\ section.op = Asked(r)
           /\ section' = [pc |-> "write",
                          op |-> [kind |-> r.kind, lines |-> Append(before, EventOf(r))]]
    BY <1>3, EffectGoes
  <2>2. section'.pc = "write" /\ section'.op.kind = r.kind
        /\ section'.op.lines = Append(before, EventOf(r))
    BY <2>1
  <2>3. EventOf(r) \in GoodLines /\ before \in Seq(GoodLines)
    <3>1. FillerLines \subseteq GoodLines
      BY DEF GoodLines
    <3> QED
      BY <3>1, OpFields, AsksAreOps DEF GoodLines
  <2>4. Append(before, EventOf(r))[Len(Append(before, EventOf(r)))] = EventOf(r)
    BY <2>3
  <2>5. Own(section'.op) = EventOf(r)
    BY <2>2, <2>4 DEF Own
  <2>6. Own(section.op) = EventOf(r) /\ section.op.kind = r.kind
    BY <2>1, OpFields
  <2>7. Pipe' = Pipe
    BY <1>1, <2>2, <2>5, <2>6, PipeStays
  <2> QED
    BY <1>1, <1>3, <2>7, PipeHead
<1> QED
  BY <1>2, <1>3

LEMMA WritePipe ==
  ASSUME TypesRight, SectionRight, Write
  PROVE  Len(Pipe) > 0 /\ (Pipe' = Pipe \/ Pipe' = Tail(Pipe))
<1>1. UNCHANGED queue /\ section.pc = "write" /\ Len(queue) \in Nat
  BY DEF Write, TypesRight
<1>2. CASE section' = Idle
  BY <1>1, <1>2, PipeLeaves, PipeHead
<1>3. CASE section' = [pc |-> "sync", op |-> section.op]
  BY <1>1, <1>3, PipeStays, PipeHead
<1> QED
  BY <1>2, <1>3 DEF Write, Goto

LEMMA UnindexPipe ==
  ASSUME TypesRight, SectionRight, Unindex
  PROVE  /\ Len(Pipe) > 0 /\ Pipe' = Tail(Pipe)
         /\ Pipe[1] = Op(section.op.kind, Own(section.op))
<1>1. UNCHANGED queue /\ section.pc = "unindex" /\ section' = Idle
  BY DEF Unindex
<1> QED
  BY <1>1, PipeLeaves, PipeHead

LEMMA StartPipe ==
  ASSUME LogRight, Start
  PROVE  Pipe' = Pipe /\ Pipe = <<>>
<1>1. UNCHANGED <<section, queue>> /\ section = Idle /\ queue = <<>>
  BY DEF Start, LogRight
<1> QED
  BY <1>1 DEF Pipe, PipeOf, Idle

LEMMA CrashPipe == ASSUME Crash PROVE Pipe' = <<>>
BY DEF Crash, Pipe, PipeOf, Idle

-----------------------------------------------------------------------------
(* What stays right about what is under way when it moves on or grows *)

LEMMA PipeTail ==
  ASSUME NEW pipe \in Seq(Ops), Len(pipe) > 0
  PROVE  \E rest \in Seq(Ops), n \in Nat :
           /\ rest = Tail(pipe) /\ n + 1 = Len(pipe) /\ Len(rest) = n
           /\ \A i \in 1..n : rest[i] = pipe[i + 1]
<1>1. Len(pipe) - 1 \in Nat /\ (Len(pipe) - 1) + 1 = Len(pipe)
  OBVIOUS
<1> QED
  BY <1>1, TailLines

LEMMA VersionsTail ==
  ASSUME NEW pipe \in Seq(Ops), Len(pipe) > 0, NEW drawn, NEW keys, NEW indexed, NEW late,
         VersionsOrdered(pipe, drawn, keys, indexed, late)
  PROVE  VersionsOrdered(Tail(pipe), drawn, keys, indexed, late)
<1>1. PICK rest \in Seq(Ops), n \in Nat :
         /\ rest = Tail(pipe) /\ n + 1 = Len(pipe) /\ Len(rest) = n
         /\ \A i \in 1..n : rest[i] = pipe[i + 1]
  BY PipeTail
<1> SUFFICES ASSUME NEW i \in 1..n, NEW a \in Attempts, rest[i] \in Recording(a)
             PROVE  /\ VersionIn(rest[i]) <= drawn[a]
                    /\ Own(rest[i]).key \notin keys
                    /\ \/ VersionIn(rest[i]) = indexed[a]
                       \/ indexed[a] = None /\ <<a, VersionIn(rest[i])>> \in late
                       \/ \E j \in (i+1)..n : rest[j] \in Recording(a)
                    /\ \A j \in (i+1)..n : rest[j] \in Recording(a) => VersionIn(rest[i]) < VersionIn(rest[j])
                    /\ \A j \in 1..(i-1) : rest[j].kind = "delete" /\ Own(rest[j]).about = a =>
                                          <<a, VersionIn(rest[i])>> \in late
  BY <1>1 DEF VersionsOrdered
<1>2. i + 1 \in 1..Len(pipe) /\ rest[i] = pipe[i + 1]
  BY <1>1
<1>3. /\ VersionIn(pipe[i + 1]) <= drawn[a]
      /\ Own(pipe[i + 1]).key \notin keys
      /\ \/ VersionIn(pipe[i + 1]) = indexed[a]
         \/ indexed[a] = None /\ <<a, VersionIn(pipe[i + 1])>> \in late
         \/ \E j \in (i+2)..Len(pipe) : pipe[j] \in Recording(a)
      /\ \A j \in (i+2)..Len(pipe) : pipe[j] \in Recording(a) => VersionIn(pipe[i + 1]) < VersionIn(pipe[j])
      /\ \A j \in 1..i : pipe[j].kind = "delete" /\ Own(pipe[j]).about = a =>
                          <<a, VersionIn(pipe[i + 1])>> \in late
  <2>1. (i + 1) + 1 = i + 2 /\ (i + 1) - 1 = i
    OBVIOUS
  <2> QED
    BY <1>2, <2>1 DEF VersionsOrdered
<1>4. \A j \in (i+2)..Len(pipe) : j - 1 \in (i+1)..n /\ rest[j - 1] = pipe[j]
  <2> SUFFICES ASSUME NEW j \in (i+2)..Len(pipe) PROVE j - 1 \in (i+1)..n /\ rest[j - 1] = pipe[j]
    OBVIOUS
  <2>1. j - 1 \in (i+1)..n /\ j - 1 \in 1..n /\ (j - 1) + 1 = j
    BY <1>1
  <2> QED
    BY <1>1, <2>1
<1>5. \A j \in (i+1)..n : j + 1 \in (i+2)..Len(pipe) /\ rest[j] = pipe[j + 1]
  BY <1>1
<1>6. \A j \in 1..(i-1) : j + 1 \in 1..i /\ rest[j] = pipe[j + 1]
  BY <1>1
<1> QED
  BY <1>2, <1>3, <1>4, <1>5, <1>6

LEMMA VersionsAppend ==
  ASSUME NEW pipe \in Seq(Ops), NEW op \in Ops, NEW drawn, NEW keys, NEW indexed, NEW late,
         VersionsOrdered(pipe, drawn, keys, indexed, late), \A a \in Attempts : op \notin Recording(a)
  PROVE  VersionsOrdered(Append(pipe, op), drawn, keys, indexed, late)
<1>1. PICK n \in Nat : n = Len(pipe)
  OBVIOUS
<1>0. Append(pipe, op) \in Seq(Ops)
  OBVIOUS
<1>2. PICK longer \in Seq(Ops) : longer = Append(pipe, op)
  BY <1>0
<1>3. Len(longer) = n + 1 /\ longer[n + 1] = op /\ \A i \in 1..n : longer[i] = pipe[i]
  BY <1>1, <1>2
<1> SUFFICES ASSUME NEW i \in 1..(n + 1), NEW a \in Attempts, longer[i] \in Recording(a)
             PROVE  /\ VersionIn(longer[i]) <= drawn[a]
                    /\ Own(longer[i]).key \notin keys
                    /\ \/ VersionIn(longer[i]) = indexed[a]
                       \/ indexed[a] = None /\ <<a, VersionIn(longer[i])>> \in late
                       \/ \E j \in (i+1)..(n + 1) : longer[j] \in Recording(a)
                    /\ \A j \in (i+1)..(n + 1) : longer[j] \in Recording(a) => VersionIn(longer[i]) < VersionIn(longer[j])
                    /\ \A j \in 1..(i-1) : longer[j].kind = "delete" /\ Own(longer[j]).about = a =>
                                          <<a, VersionIn(longer[i])>> \in late
  BY <1>2, <1>3 DEF VersionsOrdered
<1>4. i \in 1..n /\ longer[i] = pipe[i]
  BY <1>3
<1>5. /\ VersionIn(pipe[i]) <= drawn[a]
      /\ Own(pipe[i]).key \notin keys
      /\ \/ VersionIn(pipe[i]) = indexed[a]
         \/ indexed[a] = None /\ <<a, VersionIn(pipe[i])>> \in late
         \/ \E j \in (i+1)..n : pipe[j] \in Recording(a)
      /\ \A j \in (i+1)..n : pipe[j] \in Recording(a) => VersionIn(pipe[i]) < VersionIn(pipe[j])
      /\ \A j \in 1..(i-1) : pipe[j].kind = "delete" /\ Own(pipe[j]).about = a =>
                              <<a, VersionIn(pipe[i])>> \in late
  BY <1>1, <1>4 DEF VersionsOrdered
<1>6. \A j \in (i+1)..n : j \in (i+1)..(n+1) /\ longer[j] = pipe[j]
  BY <1>3
<1>7. \A j \in (i+1)..(n+1) : j = n + 1 \/ (j \in (i+1)..n /\ longer[j] = pipe[j])
  BY <1>3
<1>8. \A j \in 1..(i-1) : longer[j] = pipe[j]
  BY <1>3, <1>4
<1> QED
  BY <1>3, <1>4, <1>5, <1>6, <1>7, <1>8

LEMMA ArtifactsTail ==
  ASSUME NEW pipe \in Seq(Ops), Len(pipe) > 0, NEW kept, ArtifactsThere(pipe, kept)
  PROVE  ArtifactsThere(Tail(pipe), kept)
<1>1. PICK rest \in Seq(Ops), n \in Nat :
         /\ rest = Tail(pipe) /\ n + 1 = Len(pipe) /\ Len(rest) = n
         /\ \A i \in 1..n : rest[i] = pipe[i + 1]
  BY PipeTail
<1>2. \A i \in 1..n : i + 1 \in 1..Len(pipe)
  BY <1>1
<1> QED
  BY <1>1, <1>2 DEF ArtifactsThere

LEMMA ArtifactsAppend ==
  ASSUME NEW pipe \in Seq(Ops), NEW op \in Ops, NEW kept, ArtifactsThere(pipe, kept),
         \A c \in Contents : op = Verified(c) => kept[c] = "whole"
  PROVE  ArtifactsThere(Append(pipe, op), kept)
<1>1. PICK n \in Nat : n = Len(pipe)
  OBVIOUS
<1>2. PICK longer : longer = Append(pipe, op)
  OBVIOUS
<1>3. Len(longer) = n + 1 /\ longer[n + 1] = op /\ \A i \in 1..n : longer[i] = pipe[i]
  BY <1>1, <1>2
<1>4. \A i \in 1..(n + 1) : i = n + 1 \/ i \in 1..n
  OBVIOUS
<1> QED
  BY <1>1, <1>2, <1>3, <1>4 DEF ArtifactsThere

LEMMA QuestionsTail ==
  ASSUME NEW pipe \in Seq(Ops), Len(pipe) > 0, NEW waiting, NEW told, NEW lines,
         QuestionsOpen(pipe, waiting, told, lines)
  PROVE  /\ QuestionsOpen(Tail(pipe), waiting, told, lines)
         /\ \A q \in Questions : pipe[1] = Opened(q) => ~Opening(Tail(pipe), q)
<1>1. PICK rest \in Seq(Ops), n \in Nat :
         /\ rest = Tail(pipe) /\ n + 1 = Len(pipe) /\ Len(rest) = n
         /\ \A i \in 1..n : rest[i] = pipe[i + 1]
  BY PipeTail
<1>2. \A i \in 1..n : i + 1 \in 1..Len(pipe) /\ i + 1 # 1
  BY <1>1
<1>3. 1 \in 1..Len(pipe)
  BY <1>1
<1>4. \A q \in Questions : Opening(rest, q) => Opening(pipe, q)
  BY <1>1, <1>2 DEF Opening
<1>5. \A q \in Questions, i, j \in 1..n : rest[i] = Opened(q) /\ rest[j] = Opened(q) => i = j
  <2> SUFFICES ASSUME NEW q \in Questions, NEW i \in 1..n, NEW j \in 1..n,
                      rest[i] = Opened(q), rest[j] = Opened(q)
               PROVE  i = j
    OBVIOUS
  <2>1. pipe[i + 1] = Opened(q) /\ pipe[j + 1] = Opened(q)
    BY <1>1
  <2>2. i + 1 = j + 1
    BY <1>2, <2>1 DEF QuestionsOpen
  <2> QED
    BY <2>2
<1>6. \A q \in Questions : pipe[1] = Opened(q) => ~Opening(rest, q)
  BY <1>1, <1>2, <1>3 DEF QuestionsOpen, Opening
<1> QED
  BY <1>1, <1>4, <1>5, <1>6 DEF QuestionsOpen

LEMMA OpeningAppend ==
  ASSUME NEW pipe \in Seq(Ops), NEW op \in Ops, NEW q
  PROVE  Opening(Append(pipe, op), q) <=> Opening(pipe, q) \/ op = Opened(q)
<1>1. PICK n \in Nat : n = Len(pipe)
  OBVIOUS
<1>2. PICK longer : longer = Append(pipe, op)
  OBVIOUS
<1>3. Len(longer) = n + 1 /\ longer[n + 1] = op /\ \A i \in 1..n : longer[i] = pipe[i]
  BY <1>1, <1>2
<1>4. \A i \in 1..(n + 1) : i = n + 1 \/ i \in 1..n
  OBVIOUS
<1>5. n + 1 \in 1..(n + 1) /\ \A i \in 1..n : i \in 1..(n + 1)
  OBVIOUS
<1> QED
  BY <1>1, <1>2, <1>3, <1>4, <1>5 DEF Opening

LEMMA QuestionsAppend ==
  ASSUME NEW pipe \in Seq(Ops), NEW op \in Ops, NEW waiting, NEW told, NEW lines,
         QuestionsOpen(pipe, waiting, told, lines),
         \A q \in Questions : op = Opened(q) =>
           /\ ~Opening(pipe, q) /\ q \notin waiting /\ told[q] = "asked"
           /\ \A line \in lines : ~(line.type = "intervention.resolved" /\ line.about = q)
  PROVE  QuestionsOpen(Append(pipe, op), waiting, told, lines)
<1>1. PICK n \in Nat : n = Len(pipe)
  OBVIOUS
<1>2. PICK longer : longer = Append(pipe, op)
  OBVIOUS
<1>3. Len(longer) = n + 1 /\ longer[n + 1] = op /\ \A i \in 1..n : longer[i] = pipe[i]
  BY <1>1, <1>2
<1>4. \A i \in 1..(n + 1) : i = n + 1 \/ i \in 1..n
  OBVIOUS
<1>5. \A q \in Questions, i, j \in 1..(n + 1) : longer[i] = Opened(q) /\ longer[j] = Opened(q) => i = j
  <2> SUFFICES ASSUME NEW q \in Questions, NEW i \in 1..(n + 1), NEW j \in 1..(n + 1),
                      longer[i] = Opened(q), longer[j] = Opened(q)
               PROVE  i = j
    OBVIOUS
  <2>1. CASE op = Opened(q)
    <3>1. \A k \in 1..n : longer[k] # Opened(q)
      BY <1>1, <1>3, <2>1 DEF Opening
    <3> QED
      BY <1>4, <3>1
  <2>2. CASE op # Opened(q)
    <3>1. i \in 1..n /\ j \in 1..n
      BY <1>3, <1>4, <2>2
    <3> QED
      BY <1>1, <1>3, <3>1 DEF QuestionsOpen
  <2> QED
    BY <2>1, <2>2
<1>6. \A q \in Questions : Opening(longer, q) <=> Opening(pipe, q) \/ op = Opened(q)
  BY <1>2, OpeningAppend
<1> QED
  BY <1>2, <1>3, <1>5, <1>6 DEF QuestionsOpen

LEMMA NothingUnderWay ==
  /\ \A drawn, keys, indexed, late : VersionsOrdered(<<>>, drawn, keys, indexed, late)
  /\ \A kept : ArtifactsThere(<<>>, kept)
  /\ \A told, lines : QuestionsOpen(<<>>, {}, told, lines)
BY DEF VersionsOrdered, ArtifactsThere, QuestionsOpen, Opening

\* The events in memory are events.
LEMMA InitStored == Init => StoredRight
BY DEF Init, StoredRight

LEMMA StepStored ==
  ASSUME TypesRight, SectionRight, StoredRight, [Next]_vars
  PROVE  StoredRight'
<1>1. CASE UNCHANGED stored
  BY <1>1 DEF StoredRight
<1>2. CASE stored' = <<>>
  BY <1>2 DEF StoredRight
<1>3. CASE Readable(file) /\ stored' = file
  BY <1>3 DEF StoredRight, Readable
<1>4. CASE Writing /\ stored' = Append(stored, Head(section.op.lines))
  <2>1. PICK line : line = Head(section.op.lines)
    OBVIOUS
  <2>2. line \in GoodLines /\ line # Damaged
    BY <1>4, <2>1, WritingFacts, LineKinds
  <2>3. stored' = Append(stored, line) /\ stored \in Seq(AllLines)
    BY <1>4, <2>1 DEF TypesRight
  <2>4. PICK longer : longer = Append(stored, line)
    OBVIOUS
  <2>5. /\ Len(longer) = Len(stored) + 1 /\ longer[Len(stored) + 1] = line
        /\ \A i \in 1..Len(stored) : longer[i] = stored[i]
        /\ Len(stored) \in Nat
    BY <2>3, <2>4
  <2>6. \A i \in 1..Len(longer) : i = Len(stored) + 1 \/ i \in 1..Len(stored)
    BY <2>5
  <2>7. \A i \in 1..Len(longer) : longer[i] # Damaged
    BY <2>2, <2>5, <2>6 DEF StoredRight
  <2> QED
    BY <2>3, <2>4, <2>7 DEF StoredRight
<1>5. CASE Start
  BY <1>1, <1>3, <1>5 DEF Start
<1>6. CASE Sync
  BY <1>1, <1>4, <1>6 DEF Sync, Writing
<1>7. CASE Crash
  BY <1>2, <1>7 DEF Crash
<1>8. CASE Enter \/ Effect \/ Write \/ Unindex
  BY <1>1, <1>8 DEF Enter, Effect, Write, Unindex, memory
<1>9. CASE \/ \E a \in Attempts : RecordAttempt(a)
           \/ \E r \in Requests : Command(r) \/ RefreshTracker(r) \/ Refreshed(r)
           \/ \E q \in Questions : Ask(q)
           \/ \E c \in Contents : PutArtifact(c) \/ ArtifactPut(c) \/ PutAgain(c)
  BY <1>1, <1>9 DEF RecordAttempt, Command, RefreshTracker, Refreshed, Ask, PutArtifact, ArtifactPut,
                    PutAgain, memory
<1> QED
  BY <1>1, <1>5, <1>6, <1>7, <1>8, <1>9 DEF Next, vars, memory

-----------------------------------------------------------------------------
(* Which operation is which *)

LEMMA OpDistinct ==
  /\ \A a, v : /\ Own(Changed(a, v)).type = "attempt.changed" /\ Own(Changed(a, v)).about = a
               /\ Own(Changed(a, v)).key = RecordKey(a, v) /\ VersionIn(Changed(a, v)) = v
  /\ \A q : Own(Opened(q)).type = "intervention.requested" /\ Own(Opened(q)).about = q
  /\ \A c : Own(Verified(c)).type = "verification.recorded" /\ Own(Verified(c)).about = c
<1>1. \A a, v : RecordKey(a, v)[3] = v
  BY DEF RecordKey
<1> QED
  BY <1>1, OpFields, LineFields DEF VersionIn

LEMMA RecordingFacts ==
  ASSUME NEW a, NEW op \in Recording(a)
  PROVE  /\ op.kind = "append" /\ Own(op).type = "attempt.changed" /\ Own(op).about = a
         /\ VersionIn(op) \in 1..MaxVersion /\ Own(op).key = RecordKey(a, VersionIn(op))
         /\ op = Changed(a, VersionIn(op))
BY OpDistinct, OpFields DEF Recording

LEMMA NotRecording ==
  /\ \A q, a : Opened(q) \notin Recording(a)
  /\ \A c, a : Verified(c) \notin Recording(a)
  /\ \A r \in Requests : \A a : Asked(r) \notin Recording(a)
BY RecordingFacts, OpDistinct, OpFields, RequestFacts

LEMMA NotOthers ==
  /\ \A r \in Requests : \A q, c : Asked(r) # Opened(q) /\ Asked(r) # Verified(c)
  /\ \A a, v, q, c : Changed(a, v) # Opened(q) /\ Changed(a, v) # Verified(c)
  /\ \A q, c : Opened(q) # Verified(c)
  /\ \A q, p : Opened(q) = Opened(p) => q = p
  /\ \A c, d : Verified(c) = Verified(d) => c = d
BY OpDistinct, OpFields, RequestFacts

-----------------------------------------------------------------------------
(* The steps *)

\* Artifacts stay whole, and no line gives an answer that none gave.
LEMMA QuestionsLines ==
  ASSUME NEW pipe, NEW waiting, NEW told, NEW lines, NEW others,
         QuestionsOpen(pipe, waiting, told, lines),
         \A line \in others : line.type = "intervention.resolved" => line \in lines
  PROVE  QuestionsOpen(pipe, waiting, told, others)
BY DEF QuestionsOpen

LEMMA ArtifactsStay ==
  ASSUME NEW pipe, NEW kept, NEW then, ArtifactsThere(pipe, kept),
         \A c \in Contents : kept[c] = "whole" => then[c] = "whole"
  PROVE  ArtifactsThere(pipe, then)
BY DEF ArtifactsThere

LEMMA VersionsKeys ==
  ASSUME NEW pipe, NEW drawn, NEW keys, NEW key, NEW indexed, NEW late,
         VersionsOrdered(pipe, drawn, keys, indexed, late),
         \A i \in 1..Len(pipe), a \in Attempts : pipe[i] \in Recording(a) => Own(pipe[i]).key # key
  PROVE  VersionsOrdered(pipe, drawn, keys \cup {key}, indexed, late)
BY DEF VersionsOrdered

\* The index forgets an Attempt whose versions under way were all recorded late.
LEMMA VersionsForgotten ==
  ASSUME NEW pipe, NEW drawn, NEW keys, NEW indexed, NEW late, NEW then, NEW b,
         VersionsOrdered(pipe, drawn, keys, indexed, late),
         \A a \in Attempts : then[a] = IF a = b THEN None ELSE indexed[a],
         \A i \in 1..Len(pipe) :
           b \in Attempts /\ pipe[i] \in Recording(b) => <<b, VersionIn(pipe[i])>> \in late
  PROVE  VersionsOrdered(pipe, drawn, keys, then, late)
BY DEF VersionsOrdered

LEMMA DamagedUnresolved == Damaged.type # "intervention.resolved"
BY DEF Damaged, Line

\* A step that only moves on.
LEMMA MovesOn ==
  ASSUME TypesRight, SectionRight, PipeRight,
         Pipe' = Pipe \/ (Len(Pipe) > 0 /\ Pipe' = Tail(Pipe)),
         UNCHANGED <<versions, behind, remembered, index, artifacts, pending, given>>,
         \A line \in Written' : line.type = "intervention.resolved" => line \in Written
  PROVE  PipeRight'
<1>1. Pipe \in Seq(Ops)
  BY PipeType
<1>2. VersionsOrdered(Pipe', versions, remembered, index, behind)
  BY <1>1, VersionsTail DEF PipeRight
<1>3. ArtifactsThere(Pipe', artifacts)
  BY <1>1, ArtifactsTail DEF PipeRight
<1>4. QuestionsOpen(Pipe', pending, given, Written)
  BY <1>1, QuestionsTail DEF PipeRight
<1>5. QuestionsOpen(Pipe', pending, given, Written')
  BY <1>4, QuestionsLines
<1>6. PipeRight' = (/\ VersionsOrdered(Pipe', versions', remembered', index', behind')
                    /\ ArtifactsThere(Pipe', artifacts')
                    /\ QuestionsOpen(Pipe', pending', given', Written'))
  BY DEF PipeRight, VersionsOrdered, ArtifactsThere, QuestionsOpen, Recording, VersionIn, Opening,
         Own, Changed, Opened, Verified, Op, Line, RecordKey, QuestionKey, ArtifactKey
<1> QED
  BY <1>2, <1>3, <1>5, <1>6

LEMMA InitPipe == Init => PipeRight
<1> SUFFICES ASSUME Init PROVE PipeRight
  OBVIOUS
<1>1. Pipe = <<>> /\ pending = {}
  BY DEF Init, Pipe, PipeOf, Idle
<1> QED
  BY <1>1, NothingUnderWay DEF PipeRight

\* An operation that says nothing about versions and questions joins what is under way.
LEMMA JoinsPipe ==
  ASSUME TypesRight, SectionRight, PipeRight, UNCHANGED <<section, file, stored>>,
         UNCHANGED <<versions, behind, remembered, index, pending, given>>,
         NEW op \in Ops, queue' = Append(queue, op),
         \A a \in Attempts : op \notin Recording(a), \A q \in Questions : op # Opened(q),
         \A c \in Contents : artifacts[c] = "whole" \/ op = Verified(c) => artifacts'[c] = "whole"
  PROVE  PipeRight'
<1>1. Pipe \in Seq(Ops) /\ Pipe' = Append(Pipe, op) /\ Written' = Written
  BY PipeType, PipeGrows, OutsideWritten
<1>2. VersionsOrdered(Pipe', versions, remembered, index, behind)
  BY <1>1, VersionsAppend DEF PipeRight
<1>3. ArtifactsThere(Pipe, artifacts')
  BY ArtifactsStay DEF PipeRight
<1>4. ArtifactsThere(Pipe', artifacts')
  BY <1>1, <1>3, ArtifactsAppend
<1>5. QuestionsOpen(Pipe', pending, given, Written)
  BY <1>1, QuestionsAppend DEF PipeRight
<1> QED
  BY <1>1, <1>2, <1>4, <1>5 DEF PipeRight

LEMMA RequestPipe ==
  ASSUME TypesRight, SectionRight, PipeRight, NEW r \in Requests,
         Command(r) \/ RefreshTracker(r) \/ Refreshed(r)
  PROVE  PipeRight'
<1>1. UNCHANGED <<section, file, stored, versions, behind, remembered, index, artifacts, pending, given>>
  BY DEF Command, RefreshTracker, Refreshed, disk, memory, live
<1>2. CASE queue' = queue
  <2>1. Pipe' = Pipe /\ Written' = Written
    BY <1>1, <1>2, PipeSame, OutsideWritten
  <2> QED
    BY <1>1, <2>1, MovesOn
<1>3. CASE queue' = Append(queue, Asked(r))
  <2>1. Asked(r) \in Ops
    BY DEF Ops
  <2>2. /\ \A a \in Attempts : Asked(r) \notin Recording(a)
        /\ \A q \in Questions : Asked(r) # Opened(q)
        /\ \A c \in Contents : artifacts[c] = "whole" \/ Asked(r) = Verified(c) => artifacts'[c] = "whole"
    BY <1>1, NotRecording, NotOthers
  <2> QED
    BY <1>1, <1>3, <2>1, <2>2, JoinsPipe
<1> QED
  BY <1>2, <1>3 DEF Command, RefreshTracker, Refreshed

LEMMA ArtifactPipe ==
  ASSUME TypesRight, SectionRight, PipeRight, NEW c \in Contents,
         PutArtifact(c) \/ ArtifactPut(c) \/ PutAgain(c)
  PROVE  PipeRight'
<1>1. UNCHANGED <<section, file, stored, versions, behind, remembered, index, pending, given>>
  BY DEF PutArtifact, ArtifactPut, PutAgain, disk, memory, live
<1>2. /\ artifacts \in [Contents -> {"absent", "partial", "whole"}]
      /\ \A d \in Contents : artifacts[d] = "whole" => artifacts'[d] = "whole"
  BY DEF PutArtifact, ArtifactPut, PutAgain, disk, TypesRight
<1>3. CASE queue' = queue
  <2>1. Pipe' = Pipe /\ Written' = Written
    BY <1>1, <1>3, PipeSame, OutsideWritten
  <2>2. ArtifactsThere(Pipe, artifacts')
    BY <1>2, ArtifactsStay DEF PipeRight
  <2> QED
    BY <1>1, <2>1, <2>2 DEF PipeRight
<1>4. CASE queue' = Append(queue, Verified(c)) /\ artifacts'[c] = "whole"
  <2>1. Verified(c) \in Ops
    BY DEF Ops
  <2>2. /\ \A a \in Attempts : Verified(c) \notin Recording(a)
        /\ \A q \in Questions : Verified(c) # Opened(q)
        /\ \A d \in Contents : artifacts[d] = "whole" \/ Verified(c) = Verified(d) => artifacts'[d] = "whole"
    BY <1>2, <1>4, NotRecording, NotOthers
  <2> QED
    BY <1>1, <1>4, <2>1, <2>2, JoinsPipe
<1>5. queue' = queue \/ (queue' = Append(queue, Verified(c)) /\ artifacts'[c] = "whole")
  <2>1. PutArtifact(c) => queue' = queue
    BY DEF PutArtifact
  <2>2. ArtifactPut(c) => queue' = queue \/ (queue' = Append(queue, Verified(c)) /\ artifacts'[c] = "whole")
    BY <1>2 DEF ArtifactPut
  <2>3. PutAgain(c) => queue' = Append(queue, Verified(c)) /\ artifacts'[c] = "whole"
    BY DEF PutAgain, FoundArtifact, disk
  <2> QED
    BY <2>1, <2>2, <2>3
<1> QED
  BY <1>3, <1>4, <1>5

LEMMA AskPipe ==
  ASSUME TypesRight, SectionRight, WrittenRight, PipeRight, NEW q \in Questions, Ask(q)
  PROVE  PipeRight'
<1>1. /\ UNCHANGED <<section, file, stored, versions, behind, remembered, index, artifacts, pending>>
      /\ given[q] = None /\ given' = [given EXCEPT ![q] = "asked"] /\ queue' = Append(queue, Opened(q))
      /\ given = [p \in Questions |-> given[p]]
  BY DEF Ask, disk, memory, TypesRight
<1>2. Opened(q) \in Ops
  BY DEF Ops
<1>3. Pipe \in Seq(Ops) /\ Pipe' = Append(Pipe, Opened(q)) /\ Written' = Written
  BY <1>1, <1>2, PipeType, PipeGrows, OutsideWritten
<1>4. VersionsOrdered(Pipe', versions, remembered, index, behind)
  <2>1. \A a \in Attempts : Opened(q) \notin Recording(a)
    BY NotRecording
  <2> QED
    BY <1>2, <1>3, <2>1, VersionsAppend DEF PipeRight
<1>5. ArtifactsThere(Pipe', artifacts)
  <2>1. \A c \in Contents : Opened(q) = Verified(c) => artifacts[c] = "whole"
    BY NotOthers
  <2> QED
    BY <1>2, <1>3, <2>1, ArtifactsAppend DEF PipeRight
<1>6. \A line \in Written : ~(line.type = "intervention.resolved" /\ line.about = q)
  BY <1>1, QuestionUnresolved
<1>7. ~Opening(Pipe, q) /\ q \notin pending
  <2>1. given[q] = "asked" => None = "asked"
    BY <1>1
  <2>2. q \in pending \/ Opening(Pipe, q) => given[q] = "asked"
    BY DEF PipeRight, QuestionsOpen
  <2> QED
    BY <2>1, <2>2, NoneAssumption
<1>8. QuestionsOpen(Pipe, pending, given', Written)
  <2>1. \A p \in Questions : given[p] = "asked" => given'[p] = "asked"
    BY <1>1
  <2> QED
    BY <2>1 DEF PipeRight, QuestionsOpen
<1>9. QuestionsOpen(Pipe', pending, given', Written)
  <2>1. \A p \in Questions : Opened(q) = Opened(p) =>
           /\ ~Opening(Pipe, p) /\ p \notin pending /\ given'[p] = "asked"
           /\ \A line \in Written : ~(line.type = "intervention.resolved" /\ line.about = p)
    BY <1>1, <1>6, <1>7, NotOthers
  <2> QED
    BY <1>2, <1>3, <1>8, <2>1, QuestionsAppend
<1> QED
  BY <1>1, <1>3, <1>4, <1>5, <1>9 DEF PipeRight

\* A version that is not drawn yet has no event.
LEMMA FreshVersion ==
  ASSUME TypesRight, LogRight, StoredRight, WrittenRight, up = "up",
         NEW a \in Attempts, NEW v \in Nat, versions[a] < v
  PROVE  RecordKey(a, v) \notin remembered
<1> SUFFICES ASSUME RecordKey(a, v) \in KeysOf(stored) PROVE FALSE
  BY DEF LogRight
<1>1. PICK i \in 1..Len(stored) : stored[i].key = RecordKey(a, v)
  BY DEF KeysOf
<1>2. PICK line \in AllLines : line = stored[i]
  BY DEF TypesRight
<1>3. line.type = "attempt.changed" /\ line.about = a /\ line.key[3] = v
  BY <1>1, <1>2, RecordKeyIsOwn DEF StoredRight
<1>4. line \in Written
  BY <1>2, ElementOf DEF Written
<1>5. v <= versions[a]
  BY <1>3, <1>4 DEF WrittenRight, LineRight
<1>6. PICK w \in Nat : w = versions[a]
  BY LogBounds DEF TypesRight
<1> QED
  BY <1>5, <1>6

LEMMA VersionsRecorded ==
  ASSUME NEW pipe \in Seq(Ops), NEW a \in Attempts, NEW v \in 1..MaxVersion,
         NEW drawn \in [Attempts -> Nat], NEW keys, NEW S, NEW indexed \in [Attempts -> S],
         NEW late, NEW later, late \subseteq later,
         VersionsOrdered(pipe, drawn, keys, indexed, late), drawn[a] < v, RecordKey(a, v) \notin keys,
         \A i \in 1..Len(pipe) : pipe[i].kind = "delete" /\ Own(pipe[i]).about = a => <<a, v>> \in later
  PROVE  VersionsOrdered(Append(pipe, Changed(a, v)), [drawn EXCEPT ![a] = v], keys,
                         [indexed EXCEPT ![a] = v], later)
<1>1. PICK n \in Nat : n = Len(pipe)
  OBVIOUS
<1>2. PICK longer : longer = Append(pipe, Changed(a, v))
  OBVIOUS
<1>3. Len(longer) = n + 1 /\ longer[n + 1] = Changed(a, v) /\ \A i \in 1..n : longer[i] = pipe[i]
  BY <1>1, <1>2
<1>4. PICK next : next = [drawn EXCEPT ![a] = v]
  OBVIOUS
<1>5. next[a] = v /\ \A b \in Attempts : b # a => next[b] = drawn[b]
  BY <1>4
<1>6. PICK then : then = [indexed EXCEPT ![a] = v]
  OBVIOUS
<1>7. then[a] = v /\ \A b \in Attempts : b # a => then[b] = indexed[b]
  BY <1>6
<1>8. Changed(a, v) \in Recording(a) /\ VersionIn(Changed(a, v)) = v
      /\ Own(Changed(a, v)).key = RecordKey(a, v) /\ \A b : Changed(a, v) \in Recording(b) => b = a
  BY OpDistinct, RecordingFacts DEF Recording
<1> SUFFICES ASSUME NEW i \in 1..(n + 1), NEW b \in Attempts, longer[i] \in Recording(b)
             PROVE  /\ VersionIn(longer[i]) <= next[b]
                    /\ Own(longer[i]).key \notin keys
                    /\ \/ VersionIn(longer[i]) = then[b]
                       \/ then[b] = None /\ <<b, VersionIn(longer[i])>> \in later
                       \/ \E j \in (i+1)..(n + 1) : longer[j] \in Recording(b)
                    /\ \A j \in (i+1)..(n + 1) : longer[j] \in Recording(b) => VersionIn(longer[i]) < VersionIn(longer[j])
                    /\ \A j \in 1..(i-1) : longer[j].kind = "delete" /\ Own(longer[j]).about = b =>
                                          <<b, VersionIn(longer[i])>> \in later
  BY <1>2, <1>3, <1>4, <1>6 DEF VersionsOrdered
<1>9. CASE i = n + 1
  <2>1. longer[i] = Changed(a, v) /\ b = a
    BY <1>3, <1>8, <1>9
  <2>2. \A j \in 1..(i-1) : j \in 1..n
    BY <1>9
  <2>3. (i+1)..(n+1) = {}
    BY <1>9
  <2>4. ASSUME NEW j \in 1..(i-1), longer[j].kind = "delete", Own(longer[j]).about = a
        PROVE  <<a, v>> \in later
    <3>1. j \in 1..n /\ longer[j] = pipe[j]
      BY <1>3, <2>2
    <3> QED
      BY <1>1, <2>4, <3>1
  <2>5. VersionIn(longer[i]) <= next[b] /\ VersionIn(longer[i]) = then[b] /\ Own(longer[i]).key \notin keys
    BY <1>5, <1>7, <1>8, <2>1
  <2>6. \A j \in 1..(i-1) : longer[j].kind = "delete" /\ Own(longer[j]).about = b =>
                           <<b, VersionIn(longer[i])>> \in later
    BY <1>8, <2>1, <2>4
  <2> QED
    BY <2>3, <2>5, <2>6
<1>10. CASE i # n + 1
  <2>1. i \in 1..n /\ longer[i] = pipe[i]
    BY <1>3, <1>10
  <2>2. /\ VersionIn(pipe[i]) <= drawn[b]
        /\ Own(pipe[i]).key \notin keys
        /\ \/ VersionIn(pipe[i]) = indexed[b]
           \/ indexed[b] = None /\ <<b, VersionIn(pipe[i])>> \in late
           \/ \E j \in (i+1)..n : pipe[j] \in Recording(b)
        /\ \A j \in (i+1)..n : pipe[j] \in Recording(b) => VersionIn(pipe[i]) < VersionIn(pipe[j])
        /\ \A j \in 1..(i-1) : pipe[j].kind = "delete" /\ Own(pipe[j]).about = b =>
                                <<b, VersionIn(pipe[i])>> \in late
    BY <1>1, <2>1 DEF VersionsOrdered
  <2>3. PICK w \in Nat : w = VersionIn(pipe[i])
    BY <2>1, RecordingFacts
  <2>4. b = a => w < v
    BY <2>2, <2>3
  <2>5. VersionIn(longer[i]) <= next[b]
    <3>1. CASE b = a
      BY <1>5, <2>1, <2>3, <2>4, <3>1
    <3>2. CASE b # a
      BY <1>5, <2>1, <2>2, <3>2
    <3> QED
      BY <3>1, <3>2
  <2>6. \/ VersionIn(longer[i]) = then[b]
        \/ then[b] = None /\ <<b, VersionIn(longer[i])>> \in later
        \/ \E j \in (i+1)..(n + 1) : longer[j] \in Recording(b)
    <3>1. CASE b = a
      <4>1. n + 1 \in (i+1)..(n+1)
        BY <2>1
      <4> QED
        BY <1>3, <1>8, <3>1, <4>1
    <3>2. CASE b # a
      <4>1. \A j \in (i+1)..n : j \in (i+1)..(n+1) /\ longer[j] = pipe[j]
        BY <1>3
      <4> QED
        BY <1>7, <2>1, <2>2, <3>2, <4>1
    <3> QED
      BY <3>1, <3>2
  <2>7. ASSUME NEW j \in (i+1)..(n + 1), longer[j] \in Recording(b)
        PROVE  VersionIn(longer[i]) < VersionIn(longer[j])
    <3>1. CASE j = n + 1
      <4>1. b = a /\ VersionIn(longer[j]) = v
        BY <1>3, <1>8, <2>7, <3>1
      <4> QED
        BY <2>1, <2>3, <2>4, <4>1
    <3>2. CASE j # n + 1
      <4>1. j \in (i+1)..n /\ longer[j] = pipe[j]
        BY <1>3, <3>2
      <4> QED
        BY <2>1, <2>2, <2>7, <4>1
    <3> QED
      BY <3>1, <3>2
  <2>8. \A j \in 1..(i-1) : longer[j] = pipe[j]
    BY <1>3, <2>1
  <2> QED
    BY <2>1, <2>2, <2>5, <2>6, <2>7, <2>8
<1> QED
  BY <1>9, <1>10

LEMMA RecordPipe ==
  ASSUME TypesRight, SectionRight, LogRight, StoredRight, WrittenRight, PipeRight,
         NEW a \in Attempts, RecordAttempt(a)
  PROVE  PipeRight'
<1>1. PICK v \in Nat : v = versions[a] + 1
  <2>1. versions[a] \in Nat
    BY LogBounds DEF TypesRight
  <2>2. versions[a] + 1 \in Nat
    BY <2>1
  <2> QED
    BY <2>2
<1>2. v \in 1..MaxVersion /\ versions[a] < v
  <2>1. PICK w \in Nat : w = versions[a]
    BY LogBounds DEF TypesRight
  <2> QED
    BY <1>1, <2>1, LogBounds DEF RecordAttempt
<1>3. /\ UNCHANGED <<section, file, stored, remembered, artifacts, pending, given>>
      /\ versions' = [versions EXCEPT ![a] = v] /\ index' = [index EXCEPT ![a] = v]
      /\ queue' = Append(queue, Changed(a, v)) /\ up = "up"
      /\ behind' = IF Deleting(a) THEN behind \cup {<<a, v>>} ELSE behind
  BY <1>1 DEF RecordAttempt, Upserted, memory, live
<1>4. Changed(a, v) \in Ops
  BY <1>2 DEF Ops
<1>5. Pipe \in Seq(Ops) /\ Pipe' = Append(Pipe, Changed(a, v)) /\ Written' = Written
  BY <1>3, <1>4, PipeType, PipeGrows, OutsideWritten
<1>6. \A i \in 1..Len(Pipe) : Pipe[i].kind = "delete" /\ Own(Pipe[i]).about = a => Deleting(a)
  <2>2. CASE section.pc = "idle"
    BY <2>2 DEF Pipe, PipeOf, Deleting
  <2>3. CASE section.pc # "idle"
    <3>2. /\ Len(Pipe) = Len(queue) + 1 /\ Pipe[1] = Op(section.op.kind, Own(section.op))
          /\ \A i \in 1..Len(queue) : Pipe[i + 1] = queue[i]
      BY <2>3, PipeHead
    <3>3. Pipe[1].kind = section.op.kind /\ Own(Pipe[1]) = Own(section.op)
      BY <3>2 DEF Op, Own
    <3>1. Pipe[1].kind = "delete" /\ Own(Pipe[1]).about = a => Deleting(a)
      BY <2>3, <3>3 DEF Deleting
    <3>7. \A i \in 1..Len(queue) : queue[i].kind = "delete" /\ Own(queue[i]).about = a => Deleting(a)
      BY DEF Deleting
    <3> SUFFICES ASSUME NEW i \in 1..Len(Pipe), i # 1, Pipe[i].kind = "delete", Own(Pipe[i]).about = a
                 PROVE  Deleting(a)
      BY <3>1
    <3>8. queue \in Seq(Ops)
      BY DEF TypesRight
    <3>4. PICK n \in Nat : n = Len(queue)
      BY <3>8
    <3>5. i - 1 \in 1..n /\ (i - 1) + 1 = i
      BY <3>2, <3>4
    <3>6. Pipe[i] = queue[i - 1]
      BY <3>2, <3>4, <3>5
    <3> QED
      BY <3>4, <3>5, <3>6, <3>7
  <2> QED
    BY <2>2, <2>3
<1>7. VersionsOrdered(Pipe', versions', remembered, index', behind')
  <2>1. RecordKey(a, v) \notin remembered
    BY <1>2, <1>3, FreshVersion
  <2>2. versions \in [Attempts -> Nat] /\ index \in [Attempts -> (0..MaxVersion) \cup {None}]
    BY LogBounds DEF TypesRight
  <2>3. behind \subseteq behind'
    BY <1>3
  <2>4. \A i \in 1..Len(Pipe) : Pipe[i].kind = "delete" /\ Own(Pipe[i]).about = a => <<a, v>> \in behind'
    BY <1>3, <1>6
  <2>5. VersionsOrdered(Pipe, versions, remembered, index, behind)
    BY DEF PipeRight
  <2>6. VersionsOrdered(Append(Pipe, Changed(a, v)), [versions EXCEPT ![a] = v], remembered,
                        [index EXCEPT ![a] = v], behind')
    BY <1>2, <1>5, <2>1, <2>2, <2>3, <2>4, <2>5, VersionsRecorded
  <2> QED
    BY <1>3, <1>5, <2>6
<1>8. ArtifactsThere(Pipe', artifacts)
  <2>1. \A c \in Contents : Changed(a, v) = Verified(c) => artifacts[c] = "whole"
    BY NotOthers
  <2> QED
    BY <1>4, <1>5, <2>1, ArtifactsAppend DEF PipeRight
<1>9. QuestionsOpen(Pipe', pending, given, Written)
  <2>1. \A q \in Questions : Changed(a, v) # Opened(q)
    BY NotOthers
  <2> QED
    BY <1>4, <1>5, <2>1, QuestionsAppend DEF PipeRight
<1> QED
  BY <1>3, <1>5, <1>7, <1>8, <1>9 DEF PipeRight

LEMMA StartCrashPipe ==
  ASSUME LogRight, Start \/ Crash
  PROVE  PipeRight'
<1>1. Pipe' = <<>> /\ pending' = {}
  <2>1. CASE Start
    <3>1. pending' = pending /\ up # "up"
      BY <2>1 DEF Start, live
    <3> QED
      BY <2>1, <3>1, StartPipe DEF LogRight
  <2>2. CASE Crash
    <3>1. pending' = {}
      BY <2>2 DEF Crash
    <3> QED
      BY <2>2, <3>1, CrashPipe
  <2> QED
    BY <2>1, <2>2
<1> QED
  BY <1>1, NothingUnderWay DEF PipeRight

LEMMA EnterPipeRight ==
  ASSUME TypesRight, SectionRight, PipeRight, Enter
  PROVE  PipeRight'
<1>1. UNCHANGED <<versions, behind, remembered, index, artifacts, pending, given>>
  BY DEF Enter, disk, memory, live
<1>2. Pipe' = Pipe \/ (Len(Pipe) > 0 /\ Pipe' = Tail(Pipe))
  <2>1. queue \in Seq(Ops)
    BY DEF TypesRight
  <2> QED
    BY <2>1, EnterPipe
<1>3. ASSUME NEW line \in Written', line.type = "intervention.resolved" PROVE line \in Written
  <2>1. ASSUME NEW op \in Ops, op.kind \in {"append", "refresh"} PROVE Own(op).type # "intervention.resolved"
    <3>1. CASE op.kind = "append"
      BY <3>1, OpKinds, OpDistinct
    <3>2. CASE op.kind = "refresh"
      BY <3>2, OpKinds, OpFields, EventFields
    <3> QED
      BY <2>1, <3>1, <3>2
  <2> QED
    BY <1>3, <2>1, EnterWritten
<1> QED
  BY <1>1, <1>2, <1>3, MovesOn

LEMMA WritePipeRight ==
  ASSUME TypesRight, SectionRight, LogRight, PipeRight, Write
  PROVE  PipeRight'
<1>1. UNCHANGED <<versions, behind, remembered, index, artifacts, pending, given>>
  BY DEF Write, memory, live
<1> QED
  BY <1>1, WritePipe, WriteWritten, DamagedUnresolved, MovesOn

LEMMA EffectPipeRight ==
  ASSUME TypesRight, Fits, SectionRight, PipeRight, Effect
  PROVE  PipeRight'
<1>1. UNCHANGED <<versions, behind, remembered, index, artifacts>>
  BY DEF Effect, disk, memory
<1>2. Pipe' = Pipe \/ (Len(Pipe) > 0 /\ Pipe' = Tail(Pipe))
  BY EffectPipe
<1>3. CASE section' = Idle
  <2>1. UNCHANGED <<pending, given>>
    BY <1>3 DEF Effect, Goto, Idle
  <2>2. Written' \subseteq Written
    BY <1>3, EffectWritten
  <2> QED
    BY <1>1, <1>2, <2>1, <2>2, MovesOn
<1>4. CASE section' # Idle
  <2>1. PICK r \in Requests : /\ section.op = Asked(r)
                              /\ Written' \subseteq Written \cup FillerLines \cup {EventOf(r)}
    BY <1>4, EffectWritten
  <2>2. section.op.kind = r.kind /\ Own(section.op) = EventOf(r)
    BY <2>1, OpFields
  <2>3. Pipe' = Pipe
    BY <1>4, EffectPipe
  <2>4. \A line \in FillerLines : line.type # "intervention.resolved"
    BY FillerFacts
  <2>5. CASE r.kind # "respond"
    <3>1. UNCHANGED <<pending, given>>
      BY <1>4, <2>2, <2>5 DEF Effect
    <3>2. EventOf(r).type # "intervention.resolved"
      BY <2>5, EventFields
    <3>3. \A line \in Written' : line.type = "intervention.resolved" => line \in Written
      BY <2>1, <2>4, <3>2
    <3> QED
      BY <1>1, <2>3, <3>1, <3>3, MovesOn
  <2>6. CASE r.kind = "respond"
    <3>1. /\ r.about \in pending /\ pending' = pending \ {r.about}
          /\ given' = [given EXCEPT ![r.about] = r.key] /\ given = [q \in Questions |-> given[q]]
      BY <1>4, <2>2, <2>6, EventFields DEF Effect, GiveAnswer, TypesRight
    <3>2. \A line \in Written' :
             line.type = "intervention.resolved" => line \in Written \/ line.about = r.about
      BY <2>1, <2>4, EventFields
    <3>3. QuestionsOpen(Pipe, pending, given, Written)
      BY DEF PipeRight
    <3>4. ~Opening(Pipe, r.about) /\ r.about \in Questions
      BY <3>1, <3>3 DEF QuestionsOpen, TypesRight
    <3>5. QuestionsOpen(Pipe, pending', given', Written')
      <4> SUFFICES ASSUME NEW q \in Questions
                   PROVE  /\ \A i, j \in 1..Len(Pipe) : Pipe[i] = Opened(q) /\ Pipe[j] = Opened(q) => i = j
                          /\ Opening(Pipe, q) => q \notin pending'
                          /\ q \in pending' \/ Opening(Pipe, q) =>
                               /\ given'[q] = "asked"
                               /\ \A line \in Written' : ~(line.type = "intervention.resolved" /\ line.about = q)
        BY DEF QuestionsOpen
      <4>1. CASE q = r.about
        BY <3>1, <3>3, <3>4, <4>1 DEF QuestionsOpen
      <4>2. CASE q # r.about
        <5>1. given'[q] = given[q] /\ (q \in pending' <=> q \in pending)
          BY <3>1, <4>2
        <5> QED
          BY <3>2, <3>3, <4>2, <5>1 DEF QuestionsOpen
      <4> QED
        BY <4>1, <4>2
    <3> QED
      BY <1>1, <2>3, <3>5 DEF PipeRight
  <2> QED
    BY <2>5, <2>6
<1> QED
  BY <1>3, <1>4

LEMMA UnindexPipeRight ==
  ASSUME TypesRight, SectionRight, PipeRight, Unindex
  PROVE  PipeRight'
<1>1. UNCHANGED <<versions, behind, remembered, artifacts, pending, given>>
  BY DEF Unindex, memory, live
<1>2. PICK r \in Requests : r.kind = "delete" /\ section.op = Asked(r)
  BY DEF SectionRight, Unindex
<1>3. section.op.kind = "delete" /\ Own(section.op).about = r.about
  BY <1>2, OpFields, EventFields
<1>4. index' = [index EXCEPT ![r.about] = None] /\ index \in [Attempts -> (0..MaxVersion) \cup {None}]
  BY <1>3 DEF Unindex, TypesRight
<1>5. Pipe \in Seq(Ops) /\ Len(Pipe) > 0 /\ Pipe' = Tail(Pipe)
  BY PipeType, UnindexPipe
<1>6. Pipe[1].kind = "delete" /\ Own(Pipe[1]).about = r.about
  <2>1. Pipe[1] = Op(section.op.kind, Own(section.op))
    BY UnindexPipe
  <2> QED
    BY <1>3, <2>1 DEF Op, Own
<1>7. PICK rest \in Seq(Ops), n \in Nat :
         /\ rest = Tail(Pipe) /\ n + 1 = Len(Pipe) /\ Len(rest) = n
         /\ \A i \in 1..n : rest[i] = Pipe[i + 1]
  BY <1>5, PipeTail
<1>8. \A i \in 1..Len(rest) :
        r.about \in Attempts /\ rest[i] \in Recording(r.about) => <<r.about, VersionIn(rest[i])>> \in behind
  <2> SUFFICES ASSUME NEW i \in 1..n, rest[i] \in Recording(r.about), r.about \in Attempts
               PROVE  <<r.about, VersionIn(rest[i])>> \in behind
    BY <1>7
  <2>1. i + 1 \in 1..Len(Pipe) /\ Pipe[i + 1] \in Recording(r.about) /\ 1 \in 1..((i + 1) - 1)
    BY <1>7
  <2>2. <<r.about, VersionIn(Pipe[i + 1])>> \in behind
    BY <1>6, <2>1 DEF PipeRight, VersionsOrdered
  <2> QED
    BY <1>7, <2>2
<1>9. VersionsOrdered(Pipe', versions, remembered, index', behind)
  <2>1. VersionsOrdered(rest, versions, remembered, index, behind)
    BY <1>5, <1>7, VersionsTail DEF PipeRight
  <2>2. \A a \in Attempts : index'[a] = IF a = r.about THEN None ELSE index[a]
    BY <1>4
  <2>3. VersionsOrdered(rest, versions, remembered, index', behind)
    BY <1>8, <2>1, <2>2, VersionsForgotten
  <2> QED
    BY <1>5, <1>7, <2>3
<1>10. ArtifactsThere(Pipe', artifacts)
  BY <1>5, ArtifactsTail DEF PipeRight
<1>11. QuestionsOpen(Pipe', pending, given, Written')
  <2>1. QuestionsOpen(Pipe', pending, given, Written)
    BY <1>5, QuestionsTail DEF PipeRight
  <2> QED
    BY <2>1, UnindexWritten, QuestionsLines
<1> QED
  BY <1>1, <1>9, <1>10, <1>11 DEF PipeRight

\* A line with a meaning for the Attempts or the questions is the operation's own and only one.
LEMMA OnlyLine ==
  ASSUME TypesRight, SectionRight, Writing,
         Head(section.op.lines).type \in {"attempt.changed", "intervention.requested",
                                          "attempt.deleted", "intervention.resolved"}
  PROVE  /\ Own(section.op) = Head(section.op.lines)
         /\ Head(section.op.lines).type \in {"attempt.changed", "intervention.requested"} =>
              Len(section.op.lines) = 1 /\ section.op.kind = "append"
         /\ Len(section.op.lines) = 1
<1>1. PICK lines \in Seq(GoodLines) :
         lines = section.op.lines /\ Len(lines) \in 1..3 /\ Head(lines) = lines[1]
  BY WritingFacts
<1>2. \A i \in 1..(Len(lines) - 1) : lines[i] \in FillerLines
  BY <1>1 DEF SectionRight
<1>3. Len(lines) = 1
  <2> SUFFICES ASSUME Len(lines) # 1 PROVE FALSE
    OBVIOUS
  <2>0. PICK n \in Nat : n = Len(lines)
    OBVIOUS
  <2>3. n \in 1..3 /\ n # 1
    BY <1>1, <2>0
  <2>4. 1 \in 1..(n - 1)
    BY <2>3
  <2>1. 1 \in 1..(Len(lines) - 1)
    BY <2>0, <2>4
  <2>2. lines[1] \in FillerLines
    BY <1>2, <2>1
  <2> QED
    BY <1>1, <2>2, FillerFacts
<1>4. Own(section.op) = Head(section.op.lines)
  BY <1>1, <1>3 DEF Own
<1>5. ASSUME Own(section.op).type \in {"attempt.changed", "intervention.requested"}
      PROVE  section.op.kind = "append"
  <2>1. PICK op \in Ops : op = Op(section.op.kind, Own(section.op))
    BY DEF SectionRight
  <2>2. op.kind = section.op.kind /\ Own(op) = Own(section.op)
    BY <2>1 DEF Op, Own
  <2>3. CASE op.kind = "append"
    BY <2>2, <2>3
  <2>4. CASE op.kind # "append"
    <3>1. PICK r \in Requests : op = Asked(r)
      BY <2>4, OpKinds
    <3> QED
      BY <1>5, <2>2, <3>1, OpFields, EventFields
  <2> QED
    BY <2>3, <2>4
<1> QED
  BY <1>1, <1>3, <1>4, <1>5

\* So the section is left when it is stored.
LEMMA OnlyLineLeaves ==
  ASSUME TypesRight, SectionRight, Sync,
         Head(section.op.lines).type \in {"attempt.changed", "intervention.requested"}
  PROVE  /\ Len(Pipe) > 0 /\ Pipe' = Tail(Pipe)
         /\ Pipe[1] = Op("append", Head(section.op.lines)) /\ Pipe[1] \in Ops
<1>1. Writing
  BY DEF Writing, Sync
<1>2. /\ Own(section.op) = Head(section.op.lines) /\ Len(section.op.lines) = 1
      /\ section.op.kind = "append"
  BY <1>1, OnlyLine
<1>3. section' = Idle
  BY <1>2, SyncPipe
<1>4. Pipe[1] = Op("append", Head(section.op.lines))
  BY <1>2, SyncPipe
<1>5. Pipe[1] \in Ops
  BY <1>1, <1>2, <1>4 DEF SectionRight
<1> QED
  BY <1>3, <1>4, <1>5, SyncPipe

LEMMA SyncPipeRight ==
  ASSUME TypesRight, SectionRight, PipeRight, Sync
  PROVE  PipeRight'
<1>1. UNCHANGED <<versions, behind, index, artifacts, given>> /\ Writing
  BY DEF Sync, disk, Writing
<1>2. PICK line \in GoodLines : line = Head(section.op.lines)
  BY <1>1, WritingFacts
<1>3. Pipe \in Seq(Ops) /\ Len(Pipe) > 0 /\ (Pipe' = Pipe \/ Pipe' = Tail(Pipe))
  BY PipeType, SyncPipe
<1>4. VersionsOrdered(Pipe', versions, remembered, index, behind)
  BY <1>3, VersionsTail DEF PipeRight
<1>5. ArtifactsThere(Pipe', artifacts)
  BY <1>3, ArtifactsTail DEF PipeRight
<1>6. QuestionsOpen(Pipe', pending, given, Written')
  <2>1. QuestionsOpen(Pipe', pending, given, Written)
    BY <1>3, QuestionsTail DEF PipeRight
  <2> QED
    BY <2>1, SyncWritten, DamagedUnresolved, QuestionsLines
<1>7. VersionsOrdered(Pipe', versions, remembered', index, behind)
  <2>1. remembered' = remembered \/ remembered' = remembered \cup {line.key}
    BY <1>2 DEF Sync
  <2> SUFFICES ASSUME remembered' = remembered \cup {line.key}
               PROVE  VersionsOrdered(Pipe', versions, remembered', index, behind)
    BY <1>4, <2>1
  <2>2. \A i \in 1..Len(Pipe'), a \in Attempts : Pipe'[i] \in Recording(a) => Own(Pipe'[i]).key # line.key
    <3> SUFFICES ASSUME NEW i \in 1..Len(Pipe'), NEW a \in Attempts, Pipe'[i] \in Recording(a),
                        Own(Pipe'[i]).key = line.key
                 PROVE  FALSE
      OBVIOUS
    <3>1. PICK v \in 1..MaxVersion : v = VersionIn(Pipe'[i]) /\ line.key = RecordKey(a, v)
      BY RecordingFacts
    <3>2. line \in AllLines /\ line # Damaged
      BY AllLinesFacts, LineKinds
    <3>3. line.type = "attempt.changed" /\ line.about = a /\ line.key[3] = v
      BY <3>1, <3>2, RecordKeyIsOwn
    <3>4. Pipe' = Tail(Pipe) /\ Pipe[1] = Op("append", line) /\ Pipe[1] \in Ops
      BY <1>2, <3>3, OnlyLineLeaves
    <3>5. line = Own(Changed(a, v))
      <4>1. PICK b \in Attempts, w \in 1..MaxVersion : line = Own(Changed(b, w))
        BY <3>3, LineKinds
      <4>2. Own(Changed(b, w)).about = b /\ Own(Changed(b, w)).key = RecordKey(b, w) /\ RecordKey(b, w)[3] = w
        BY OpDistinct DEF RecordKey
      <4> QED
        BY <3>3, <4>1, <4>2
    <3>6. Pipe[1] = Changed(a, v)
      BY <3>4, <3>5, OpFields DEF Changed
    <3>7. Pipe[1] \in Recording(a) /\ VersionIn(Pipe[1]) = v
      BY <3>6, OpDistinct DEF Recording
    <3>8. PICK rest \in Seq(Ops), n \in Nat :
             /\ rest = Tail(Pipe) /\ n + 1 = Len(Pipe) /\ Len(rest) = n
             /\ \A k \in 1..n : rest[k] = Pipe[k + 1]
      BY <1>3, PipeTail
    <3>9. i \in 1..n /\ Pipe'[i] = Pipe[i + 1]
      BY <3>4, <3>8
    <3>10. 1 \in 1..Len(Pipe) /\ i + 1 \in (1 + 1)..Len(Pipe)
      BY <3>8, <3>9
    <3>11. VersionIn(Pipe[1]) < VersionIn(Pipe[i + 1])
      BY <3>7, <3>9, <3>10 DEF PipeRight, VersionsOrdered
    <3> QED
      BY <3>1, <3>7, <3>9, <3>11
  <2> QED
    BY <1>4, <2>2, VersionsKeys
<1>8. QuestionsOpen(Pipe', pending', given, Written')
  <2>1. CASE pending' = pending
    BY <1>6, <2>1
  <2>2. CASE line.type = "intervention.requested" /\ pending' = pending \cup {line.about}
    <3>1. PICK q \in Questions : line = Own(Opened(q))
      BY <2>2, LineKinds
    <3>2. line.about = q
      BY <3>1, OpDistinct
    <3>3. Pipe' = Tail(Pipe) /\ Pipe[1] = Op("append", line)
      BY <1>2, <2>2, OnlyLineLeaves
    <3>4. Pipe[1] = Opened(q)
      BY <3>1, <3>3, OpFields DEF Opened
    <3>5. ~Opening(Pipe', q)
      BY <1>3, <3>3, <3>4, QuestionsTail DEF PipeRight
    <3>6. Opening(Pipe, q)
      <4>1. 1 \in 1..Len(Pipe)
        BY <1>3
      <4> QED
        BY <3>4, <4>1 DEF Opening
    <3>7. given[q] = "asked" /\ \A l \in Written : ~(l.type = "intervention.resolved" /\ l.about = q)
      BY <3>6 DEF PipeRight, QuestionsOpen
    <3>8. \A l \in Written' : ~(l.type = "intervention.resolved" /\ l.about = q)
      BY <3>7, SyncWritten, DamagedUnresolved
    <3> QED
      BY <1>6, <2>2, <3>2, <3>5, <3>7, <3>8 DEF QuestionsOpen
  <2> QED
    BY <1>2, <2>1, <2>2 DEF Sync
<1> QED
  BY <1>1, <1>5, <1>7, <1>8 DEF PipeRight

LEMMA StepPipe ==
  ASSUME TypesRight, Fits, SectionRight, LogRight, StoredRight, WrittenRight, PipeRight, [Next]_vars
  PROVE  PipeRight'
<1>1. CASE UNCHANGED vars
  <2>1. Pipe' = Pipe
    BY <1>1, PipeSame DEF vars
  <2>2. Written' = Written
    BY <1>1, OutsideWritten DEF vars, disk, memory
  <2> QED
    BY <1>1, <2>1, <2>2, MovesOn DEF vars, disk, memory, live
<1> QED
  BY <1>1, StartCrashPipe, EnterPipeRight, EffectPipeRight, WritePipeRight, SyncPipeRight,
     UnindexPipeRight, RecordPipe, RequestPipe, AskPipe, ArtifactPipe DEF Next

LEMMA StepWritten ==
  ASSUME TypesRight, Fits, SectionRight, LogRight, WrittenRight, PipeRight, [Next]_vars
  PROVE  WrittenRight'
<1>1. CASE UNCHANGED vars
  <2>1. Written' = Written
    BY <1>1, OutsideWritten DEF vars, disk, memory
  <2> QED
    BY <1>1, <2>1, SameWrittenRight DEF vars, disk, live
<1> QED
  BY <1>1, InsideWrittenRight, EnterWrittenRight, EffectWrittenRight, OutsideWrittenRight DEF Next

-----------------------------------------------------------------------------
(* What a restart rebuilds *)

\* The log still has the Attempt.
Carries(lines, a) ==
  \E i \in 1..Len(lines) :
    /\ lines[i].type = "attempt.recorded" /\ lines[i].about = a
    /\ \A j \in (i+1)..Len(lines) : ~(lines[j].type = "attempt.deleted" /\ lines[j].about = a)

LEMMA ReplayedCarries ==
  ASSUME NEW lines, NEW a \in Attempts
  PROVE  Replayed(lines)[a] = IF Carries(lines, a) THEN 0 ELSE None
BY DEF Replayed, Carries

LEMMA ReplayedAppend ==
  ASSUME NEW S, NEW lines \in Seq(S), NEW line \in S, NEW a \in Attempts, line.type # "attempt.recorded",
         ~(line.type = "attempt.deleted" /\ line.about = a)
  PROVE  Replayed(Append(lines, line))[a] = Replayed(lines)[a]
<1>1. PICK n \in Nat : n = Len(lines)
  OBVIOUS
<1>2. PICK longer : longer = Append(lines, line)
  OBVIOUS
<1>3. Len(longer) = n + 1 /\ longer[n + 1] = line /\ \A i \in 1..n : longer[i] = lines[i]
  BY <1>1, <1>2
<1>4. ASSUME Carries(lines, a) PROVE Carries(longer, a)
  <2>1. PICK i \in 1..n :
          /\ lines[i].type = "attempt.recorded" /\ lines[i].about = a
          /\ \A j \in (i+1)..n : ~(lines[j].type = "attempt.deleted" /\ lines[j].about = a)
    BY <1>1, <1>4 DEF Carries
  <2>2. \A j \in (i+1)..(n+1) : j = n + 1 \/ (j \in (i+1)..n /\ longer[j] = lines[j])
    BY <1>3
  <2>3. i \in 1..(n + 1) /\ longer[i] = lines[i]
    BY <1>3
  <2> QED
    BY <1>3, <2>1, <2>2, <2>3 DEF Carries
<1>5. ASSUME Carries(longer, a) PROVE Carries(lines, a)
  <2>1. PICK i \in 1..(n + 1) :
          /\ longer[i].type = "attempt.recorded" /\ longer[i].about = a
          /\ \A j \in (i+1)..(n+1) : ~(longer[j].type = "attempt.deleted" /\ longer[j].about = a)
    BY <1>3, <1>5 DEF Carries
  <2>2. i \in 1..n
    BY <1>3, <2>1
  <2>3. \A j \in (i+1)..n : j \in (i+1)..(n+1) /\ longer[j] = lines[j]
    BY <1>3
  <2> QED
    BY <1>1, <1>3, <2>1, <2>2, <2>3 DEF Carries
<1> QED
  BY <1>2, <1>4, <1>5, ReplayedCarries

LEMMA ReplayedDeleted ==
  ASSUME NEW S, NEW lines \in Seq(S), Len(lines) > 0, NEW a \in Attempts,
         lines[Len(lines)].type = "attempt.deleted", lines[Len(lines)].about = a
  PROVE  Replayed(lines)[a] = None
<1>1. PICK n \in Nat : n = Len(lines)
  OBVIOUS
<1>2. ASSUME Carries(lines, a) PROVE FALSE
  <2>1. PICK i \in 1..n :
          /\ lines[i].type = "attempt.recorded"
          /\ \A j \in (i+1)..n : ~(lines[j].type = "attempt.deleted" /\ lines[j].about = a)
    BY <1>1, <1>2 DEF Carries
  <2>2. i = n \/ n \in (i+1)..n
    OBVIOUS
  <2> QED
    BY <1>1, <2>1, <2>2
<1> QED
  BY <1>2, ReplayedCarries

LEMMA UnderwayTail ==
  ASSUME NEW pipe \in Seq(Ops), Len(pipe) > 0, NEW a
  PROVE  Underway(pipe, a) <=> pipe[1] \in Recording(a) \/ Underway(Tail(pipe), a)
<1>1. PICK rest \in Seq(Ops), n \in Nat :
         /\ rest = Tail(pipe) /\ n + 1 = Len(pipe) /\ Len(rest) = n
         /\ \A i \in 1..n : rest[i] = pipe[i + 1]
  BY PipeTail
<1>2. \A i \in 1..n : i + 1 \in 1..(n + 1)
  OBVIOUS
<1>3. \A i \in 1..(n + 1) : i = 1 \/ (i - 1 \in 1..n /\ (i - 1) + 1 = i)
  OBVIOUS
<1>4. 1 \in 1..(n + 1)
  OBVIOUS
<1>5. Underway(rest, a) => Underway(pipe, a)
  BY <1>1, <1>2 DEF Underway
<1>6. ASSUME NEW i \in 1..(n + 1), pipe[i] \in Recording(a), i # 1 PROVE Underway(rest, a)
  <2>1. i - 1 \in 1..n /\ (i - 1) + 1 = i
    BY <1>3, <1>6
  <2>2. rest[i - 1] = pipe[i]
    BY <1>1, <2>1
  <2> QED
    BY <1>1, <1>6, <2>1, <2>2 DEF Underway
<1> QED
  BY <1>1, <1>4, <1>5, <1>6 DEF Underway

LEMMA UnderwayAppend ==
  ASSUME NEW pipe \in Seq(Ops), NEW op \in Ops, NEW a
  PROVE  Underway(Append(pipe, op), a) <=> Underway(pipe, a) \/ op \in Recording(a)
<1>1. PICK n \in Nat : n = Len(pipe)
  OBVIOUS
<1>2. PICK longer : longer = Append(pipe, op)
  OBVIOUS
<1>3. Len(longer) = n + 1 /\ longer[n + 1] = op /\ \A i \in 1..n : longer[i] = pipe[i]
  BY <1>1, <1>2
<1>4. \A i \in 1..(n + 1) : i = n + 1 \/ i \in 1..n
  OBVIOUS
<1>5. n + 1 \in 1..(n + 1) /\ \A i \in 1..n : i \in 1..(n + 1)
  OBVIOUS
<1> QED
  BY <1>1, <1>2, <1>3, <1>4, <1>5 DEF Underway

\* What is to be shown of a step.
LEMMA NextRebuild ==
  RebuildRight' =
    (/\ up' # "up" => behind' = {}
     /\ DiskIsSound' /\ up' = "up" =>
          \A a \in Attempts :
            /\ Unindexing(a)' => projection'[a] = None
            /\ Forgotten(index', stored', behind', a)
            /\ ~Unindexing(a)' /\ ~Underway(Pipe', a) =>
                 AsRebuilt(projection', index', stored', behind', a))
BY DEF RebuildRight, Underway, Recording, Replayed, AsRebuilt, Forgotten

LEMMA SameSound == ASSUME UNCHANGED setting PROVE DiskIsSound' <=> DiskIsSound
BY DEF DiskIsSound, faults

\* A step that leaves projection, index and log alone and records nothing of the Attempts.
LEMMA KeepsRebuild ==
  ASSUME RebuildRight,
         UNCHANGED <<setting, up, projection, index, stored, behind>>,
         section'.pc # "unindex", section.pc # "unindex",
         \A a \in Attempts : Underway(Pipe, a) => Underway(Pipe', a)
  PROVE  RebuildRight'
<1>1. \A a : ~Unindexing(a)' /\ ~Unindexing(a)
  BY DEF Unindexing
<1>2. up # "up" => behind' = {}
  BY DEF RebuildRight
<1>3. ASSUME DiskIsSound, up = "up", NEW a \in Attempts
      PROVE  /\ Forgotten(index, stored, behind, a)
             /\ ~Underway(Pipe', a) => AsRebuilt(projection, index, stored, behind, a)
  BY <1>1, <1>3 DEF RebuildRight
<1> QED
  BY <1>1, <1>2, <1>3, NextRebuild, SameSound

LEMMA SameUnindexing == ASSUME UNCHANGED section, NEW a PROVE Unindexing(a)' <=> Unindexing(a)
BY DEF Unindexing, Own

LEMMA OutsideRebuild ==
  ASSUME TypesRight, SectionRight, RebuildRight,
         \/ \E a \in Attempts : RecordAttempt(a)
         \/ \E r \in Requests : Command(r) \/ RefreshTracker(r) \/ Refreshed(r)
         \/ \E q \in Questions : Ask(q)
         \/ \E c \in Contents : PutArtifact(c) \/ ArtifactPut(c) \/ PutAgain(c)
  PROVE  RebuildRight'
<1>1. UNCHANGED <<setting, up, projection, stored, section>>
  BY DEF RecordAttempt, Command, RefreshTracker, Refreshed, Ask, PutArtifact, ArtifactPut, PutAgain,
         memory
<1>2. queue' = queue \/ \E op \in Ops : queue' = Append(queue, op)
  <2>1. ASSUME NEW a \in Attempts, RecordAttempt(a)
        PROVE  \E op \in Ops : queue' = Append(queue, op)
    <3>1. PICK v \in Nat : v = versions[a]
      BY LogBounds DEF TypesRight
    <3>2. v + 1 \in 1..MaxVersion /\ queue' = Append(queue, Changed(a, v + 1))
      BY <2>1, <3>1, LogBounds DEF RecordAttempt
    <3> QED
      BY <3>2 DEF Ops
  <2>2. ASSUME NEW r \in Requests, Command(r) \/ RefreshTracker(r) \/ Refreshed(r)
        PROVE  queue' = queue \/ \E op \in Ops : queue' = Append(queue, op)
    BY <2>2, AsksAreOps DEF Command, RefreshTracker, Refreshed
  <2>3. ASSUME NEW q \in Questions, Ask(q) PROVE \E op \in Ops : queue' = Append(queue, op)
    BY <2>3, AsksAreOps DEF Ask
  <2>4. ASSUME NEW c \in Contents, PutArtifact(c) \/ ArtifactPut(c) \/ PutAgain(c)
        PROVE  queue' = queue \/ \E op \in Ops : queue' = Append(queue, op)
    BY <2>4, AsksAreOps DEF PutArtifact, ArtifactPut, PutAgain
  <2> QED
    BY <2>1, <2>2, <2>3, <2>4
<1>3. \A a \in Attempts : Underway(Pipe, a) => Underway(Pipe', a)
  <2>1. CASE queue' = queue
    BY <1>1, <2>1, PipeSame
  <2>2. ASSUME NEW op \in Ops, queue' = Append(queue, op)
        PROVE  \A a \in Attempts : Underway(Pipe, a) => Underway(Pipe', a)
    <3>1. Pipe' = Append(Pipe, op) /\ Pipe \in Seq(Ops)
      BY <1>1, <2>2, PipeGrows, PipeType
    <3> QED
      BY <3>1, UnderwayAppend
  <2> QED
    BY <1>2, <2>1, <2>2
<1>5. \A a : Unindexing(a)' <=> Unindexing(a)
  BY <1>1, SameUnindexing
<1>7. ASSUME NEW a \in Attempts
      PROVE  \/ index'[a] = index[a] /\ \A v : <<a, v>> \in behind' <=> <<a, v>> \in behind
             \/ index'[a] # None /\ Underway(Pipe', a)
  <2>1. CASE UNCHANGED <<index, behind>>
    BY <2>1
  <2>2. ASSUME NEW b \in Attempts, RecordAttempt(b)
        PROVE  \/ index'[a] = index[a] /\ \A v : <<a, v>> \in behind' <=> <<a, v>> \in behind
               \/ index'[a] # None /\ Underway(Pipe', a)
    <3>1. PICK v \in Nat : v = versions[b]
      BY LogBounds DEF TypesRight
    <3>2. /\ v + 1 \in 1..MaxVersion /\ queue' = Append(queue, Changed(b, v + 1))
          /\ index' = [index EXCEPT ![b] = v + 1]
          /\ behind' = behind \/ behind' = behind \cup {<<b, v + 1>>}
      BY <2>2, <3>1, LogBounds DEF RecordAttempt, Upserted
    <3>3. Changed(b, v + 1) \in Ops /\ Changed(b, v + 1) \in Recording(b)
      BY <3>2 DEF Ops, Recording
    <3>4. Underway(Pipe', b)
      BY <1>1, <3>2, <3>3, PipeGrows, PipeType, UnderwayAppend
    <3>5. index'[b] # None
      <4>1. v + 1 \in 0..MaxVersion
        BY <3>2
      <4>2. index'[b] = v + 1
        BY <3>2 DEF TypesRight
      <4> QED
        BY <4>1, <4>2, NoneAssumption
    <3>6. a # b => index'[a] = index[a]
      BY <3>2 DEF TypesRight
    <3>7. a # b => \A w : <<a, w>> \in behind' <=> <<a, w>> \in behind
      BY <3>2
    <3> QED
      BY <3>4, <3>5, <3>6, <3>7
  <2> QED
    BY <2>1, <2>2 DEF Command, RefreshTracker, Refreshed, Ask, PutArtifact, ArtifactPut, PutAgain, disk
<1>8. up # "up" => behind' = {}
  BY DEF RebuildRight, RecordAttempt, Command, RefreshTracker, Refreshed, Ask, PutArtifact, ArtifactPut, PutAgain
<1>6. SUFFICES ASSUME DiskIsSound, up = "up", NEW a \in Attempts
               PROVE  /\ Unindexing(a)' => projection'[a] = None
                      /\ Forgotten(index', stored, behind', a)
                      /\ ~Unindexing(a)' /\ ~Underway(Pipe', a) =>
                           AsRebuilt(projection, index', stored, behind', a)
  BY <1>1, <1>8, NextRebuild, SameSound
<1>9. /\ Unindexing(a) => projection[a] = None
      /\ Forgotten(index, stored, behind, a)
      /\ ~Unindexing(a) /\ ~Underway(Pipe, a) => AsRebuilt(projection, index, stored, behind, a)
  BY <1>6 DEF RebuildRight
<1>10. CASE index'[a] # None /\ Underway(Pipe', a)
  BY <1>1, <1>5, <1>9, <1>10 DEF Forgotten
<1>11. CASE index'[a] = index[a] /\ \A v : <<a, v>> \in behind' <=> <<a, v>> \in behind
  <2>1. Forgotten(index', stored, behind', a)
    BY <1>9, <1>11 DEF Forgotten
  <2>2. AsRebuilt(projection, index, stored, behind, a) => AsRebuilt(projection, index', stored, behind', a)
    BY <1>11 DEF AsRebuilt
  <2> QED
    BY <1>1, <1>3, <1>5, <1>9, <2>1, <2>2
<1> QED
  BY <1>7, <1>10, <1>11

LEMMA SameRebuild ==
  ASSUME RebuildRight, UNCHANGED vars
  PROVE  RebuildRight'
<1>1. UNCHANGED <<setting, up, projection, index, stored, section, behind>> /\ Pipe' = Pipe
  BY PipeSame DEF vars, disk, memory
<1>2. \A a : Unindexing(a)' <=> Unindexing(a)
  BY <1>1, SameUnindexing
<1> QED
  BY <1>1, <1>2, NextRebuild, SameSound DEF RebuildRight

LEMMA StartCrashRebuild ==
  ASSUME TypesRight, LogRight, RebuildRight, Start \/ Crash
  PROVE  RebuildRight'
<1>0. behind' = {}
  BY DEF Start, Crash, RebuildRight
<1>1. CASE up' # "up"
  BY <1>0, <1>1 DEF RebuildRight
<1>2. CASE up' = "up"
  <2>1. /\ stored' = file /\ projection' = Overlaid(file, index)
        /\ index' = IF Empty(index) THEN Replayed(file) ELSE index
        /\ UNCHANGED section /\ section = Idle
    BY <1>2 DEF Start, Crash, LogRight
  <2>2. \A a : ~Unindexing(a)'
    BY <2>1 DEF Unindexing, Idle
  <2>3. ASSUME NEW a \in Attempts
        PROVE  projection'[a] = IF index'[a] = None THEN Replayed(stored')[a] ELSE index'[a]
    <3>1. projection'[a] = IF index[a] = None THEN Replayed(file)[a] ELSE index[a]
      BY <2>1 DEF Overlaid
    <3>2. CASE Empty(index)
      <4>1. index[a] = None /\ index'[a] = Replayed(file)[a]
        BY <2>1, <3>2 DEF Empty
      <4> QED
        BY <2>1, <3>1, <4>1
    <3>3. CASE ~Empty(index)
      BY <2>1, <3>1, <3>3
    <3> QED
      BY <3>2, <3>3
  <2> QED
    BY <1>0, <2>2, <2>3, NextRebuild DEF AsRebuilt, Forgotten
<1> QED
  BY <1>1, <1>2

\* An operation that is dropped is no version of an Attempt.
LEMMA EnterRebuild ==
  ASSUME TypesRight, SectionRight, PipeRight, RebuildRight, Enter
  PROVE  RebuildRight'
<1>1. UNCHANGED <<setting, up, projection, index, stored, behind>> /\ section.pc = "idle"
  BY DEF Enter, disk, memory
<1>2. Pipe = queue /\ queue # <<>> /\ (Pipe' = Tail(Pipe) \/ Pipe' = Pipe)
  BY EnterPipe
<1>3. PICK op \in Ops : op = Head(queue)
  BY DEF Enter, TypesRight
<1>4. Pipe \in Seq(Ops) /\ Len(Pipe) > 0 /\ Pipe[1] = op
  BY <1>2, <1>3 DEF TypesRight
<1>5. CASE section' = section
  <2>1. Known(op) \/ IsCommand(op)
    <3>1. CASE ~Known(op) /\ ~(IsCommand(op) /\ Refused(op))
      <4>1. section'.pc # "idle"
        BY <1>3, <3>1 DEF Enter, Goto
      <4> QED
        BY <1>1, <1>5, <4>1
    <3> QED
      BY <3>1
  <2>2. \A a \in Attempts : op \notin Recording(a)
    <3> SUFFICES ASSUME NEW a \in Attempts, op \in Recording(a) PROVE FALSE
      OBVIOUS
    <3>1. op.kind = "append"
      BY RecordingFacts
    <3>2. Own(op).key \in remembered
      BY <2>1, <3>1 DEF Known, IsCommand
    <3>3. 1 \in 1..Len(Pipe)
      BY <1>4
    <3> QED
      BY <1>4, <3>2, <3>3 DEF PipeRight, VersionsOrdered
  <2>3. \A a \in Attempts : Underway(Pipe, a) => Underway(Pipe', a)
    BY <1>2, <1>4, <2>2, UnderwayTail
  <2> QED
    BY <1>1, <1>5, <2>3, KeepsRebuild
<1>6. CASE section' # section
  <2>1. section'.op = op /\ section'.pc \in {"write", "effect"}
    BY <1>3, <1>6 DEF Enter, Goto
  <2>2. op = Op(op.kind, Own(op))
    BY OpFacts
  <2>3. Own(section.op)' = Own(op)
    BY <2>1 DEF Own
  <2>4. Pipe' = <<op>> \o Tail(queue)
    BY <2>1, <2>2, <2>3 DEF Pipe, PipeOf, Enter
  <2>5. Pipe' = Pipe
    BY <1>2, <1>3, <2>4, ConsHead DEF TypesRight
  <2> QED
    BY <1>1, <2>1, <2>5, KeepsRebuild
<1> QED
  BY <1>5, <1>6

LEMMA EffectRebuild ==
  ASSUME TypesRight, Fits, SectionRight, RebuildRight, Effect
  PROVE  RebuildRight'
<1>1. UNCHANGED <<setting, up, projection, index, stored, behind>> /\ section.pc = "effect"
  BY DEF Effect, disk, memory
<1>2. section'.pc # "unindex"
  BY DEF Effect, Goto, Idle
<1>3. PICK r \in Requests : section.op = Asked(r)
  BY <1>1 DEF SectionRight
<1>4. Pipe[1] = Op(section.op.kind, Own(section.op)) /\ Len(Pipe) > 0
  BY EffectPipe
<1>5. Pipe[1].kind # "append"
  BY <1>3, <1>4, RequestFacts, OpFields DEF Op
<1>6. \A a \in Attempts : Pipe[1] \notin Recording(a)
  BY <1>5, RecordingFacts
<1>7. \A a \in Attempts : Underway(Pipe, a) => Underway(Pipe', a)
  BY <1>4, <1>6, EffectPipe, PipeType, UnderwayTail
<1> QED
  BY <1>1, <1>2, <1>7, KeepsRebuild

LEMMA WriteRebuild ==
  ASSUME TypesRight, SectionRight, RebuildRight, Write
  PROVE  RebuildRight'
<1>1. UNCHANGED <<setting, up, projection, index, stored, queue, behind>> /\ section.pc = "write"
  BY DEF Write, memory
<1>2. CASE ~DiskIsSound
  BY <1>1, <1>2 DEF RebuildRight, DiskIsSound, faults
<1>3. CASE DiskIsSound
  <2>1. section' = [pc |-> "sync", op |-> section.op]
    BY <1>3 DEF Write, DiskIsSound, Goto
  <2>2. Pipe' = Pipe
    BY <1>1, <2>1, PipeStays
  <2> QED
    BY <1>1, <2>1, <2>2, KeepsRebuild
<1> QED
  BY <1>2, <1>3

LEMMA UnindexRebuild ==
  ASSUME TypesRight, SectionRight, PipeRight, RebuildRight, Unindex
  PROVE  RebuildRight'
<1>1. UNCHANGED <<setting, up, projection, stored, behind>> /\ section.pc = "unindex" /\ section' = Idle
  BY DEF Unindex, memory
<1>2. PICK r \in Requests : /\ r.kind = "delete" /\ section.op = Asked(r)
                            /\ Len(stored) > 0 /\ stored[Len(stored)] = EventOf(r)
  BY <1>1 DEF SectionRight
<1>3. section.op.kind = "delete" /\ Own(section.op).about = r.about
  BY <1>2, OpFields, EventFields
<1>4. index' = [index EXCEPT ![r.about] = None] /\ index \in [Attempts -> (0..MaxVersion) \cup {None}]
  BY <1>3 DEF Unindex, TypesRight
<1>5. /\ Pipe \in Seq(Ops) /\ Len(Pipe) > 0 /\ Pipe' = Tail(Pipe)
      /\ Pipe[1] = Op(section.op.kind, Own(section.op))
  BY PipeType, UnindexPipe
<1>6. \A a \in Attempts : Pipe[1] \notin Recording(a)
  <2>1. Pipe[1].kind = "delete"
    BY <1>3, <1>5 DEF Op
  <2> QED
    BY <2>1, RecordingFacts
<1>7. \A a \in Attempts : Underway(Pipe, a) => Underway(Pipe', a)
  BY <1>5, <1>6, UnderwayTail
<1>8. \A a : ~Unindexing(a)'
  BY <1>1 DEF Unindexing, Idle
<1>9. ASSUME DiskIsSound, up = "up", NEW a \in Attempts
      PROVE  /\ Forgotten(index', stored, behind, a)
             /\ ~Underway(Pipe', a) => AsRebuilt(projection, index', stored, behind, a)
  <2>1. CASE a = r.about
    <3>1. Unindexing(a)
      BY <1>1, <1>3, <2>1 DEF Unindexing
    <3>2. projection[a] = None
      BY <1>9, <3>1 DEF RebuildRight
    <3>3. Replayed(stored)[a] = None
      <4>1. stored[Len(stored)].type = "attempt.deleted" /\ stored[Len(stored)].about = a
        BY <1>2, <2>1, EventFields
      <4>2. stored \in Seq(AllLines) /\ Len(stored) > 0
        BY <1>2 DEF TypesRight
      <4> QED
        BY <4>1, <4>2, ReplayedDeleted
    <3>4. index'[a] = None
      BY <1>4, <2>1
    <3> QED
      BY <3>2, <3>3, <3>4 DEF AsRebuilt, Forgotten
  <2>2. CASE a # r.about
    <3>1. ~Unindexing(a) /\ index'[a] = index[a]
      BY <1>3, <1>4, <2>2 DEF Unindexing
    <3>2. /\ Forgotten(index, stored, behind, a)
          /\ ~Underway(Pipe', a) => AsRebuilt(projection, index, stored, behind, a)
      BY <1>7, <1>9, <3>1 DEF RebuildRight
    <3> QED
      BY <3>1, <3>2 DEF AsRebuilt, Forgotten
  <2> QED
    BY <2>1, <2>2
<1>10. up # "up" => behind' = {}
  BY <1>1 DEF RebuildRight
<1> QED
  BY <1>1, <1>8, <1>9, <1>10, NextRebuild, SameSound

\* What a stored line says about the Attempts.
LEMMA AppliedAt ==
  ASSUME TypesRight, NEW line \in GoodLines, NEW a \in Attempts
  PROVE  /\ line.type \notin {"attempt.deleted", "attempt.changed"} => Applied(line) = projection
         /\ line.type = "attempt.deleted" =>
              Applied(line)[a] = IF a = line.about THEN None ELSE projection[a]
         /\ line.type = "attempt.changed" =>
              Applied(line)[a] = IF a = line.about THEN line.key[3] ELSE projection[a]
BY DEF Applied, TypesRight

\* A deletion is a command and nothing else.
LEMMA DeletedIsDelete ==
  ASSUME NEW kind, NEW line, Op(kind, line) \in Ops
  PROVE  line.type = "attempt.deleted" <=> kind = "delete"
<1>1. PICK op \in Ops : op = Op(kind, line)
  OBVIOUS
<1>2. op.kind = kind /\ Own(op) = line
  BY <1>1 DEF Op, Own
<1>3. CASE op.kind = "append"
  BY <1>2, <1>3, OpKinds, OpDistinct
<1>4. CASE op.kind # "append"
  <2>1. PICK r \in Requests : op = Asked(r) /\ op.kind = r.kind
    BY <1>4, OpKinds
  <2> QED
    BY <1>2, <2>1, OpFields, EventFields
<1> QED
  BY <1>3, <1>4

LEMMA SyncRebuild ==
  ASSUME TypesRight, SectionRight, PipeRight, RebuildRight, Sync
  PROVE  RebuildRight'
<1>1. UNCHANGED <<setting, up, index, behind>> /\ section.pc = "sync" /\ Writing
  BY DEF Sync, disk, Writing
<1>2. CASE ~DiskIsSound
  <2>1. up # "up" => behind' = {}
    BY <1>1 DEF RebuildRight
  <2> QED
    BY <1>1, <1>2, <2>1, NextRebuild, SameSound
<1>3. CASE DiskIsSound
  <2>1. PICK line \in GoodLines : line = Head(section.op.lines)
    BY <1>1, WritingFacts
  <2>2. /\ stored' = Append(stored, line) /\ projection' = Applied(line)
        /\ \/ Len(section.op.lines) > 1 /\ section'.pc = "write"
           \/ Len(section.op.lines) <= 1 /\ section.op.kind = "delete" /\ section' = [pc |-> "unindex", op |-> section.op]
           \/ Len(section.op.lines) <= 1 /\ section.op.kind # "delete" /\ section' = Idle
    <3>1. Len(section.op.lines) \in Nat
      BY <1>1, WritingFacts
    <3> QED
      BY <1>3, <2>1, <3>1 DEF Sync, DiskIsSound, Goto
  <2>3. stored \in Seq(AllLines) /\ line \in AllLines /\ line.type # "attempt.recorded"
    BY <2>1, AllLinesFacts, LineKinds DEF TypesRight
  <2>4. /\ Pipe \in Seq(Ops) /\ Len(Pipe) > 0 /\ (Pipe' = Pipe \/ (Pipe' = Tail(Pipe) /\ section' = Idle))
        /\ Pipe[1] = Op(section.op.kind, Own(section.op))
    BY PipeType, SyncPipe
  <2>5. Len(section.op.lines) <= 1 => Own(section.op) = line
    <3>1. PICK lines : lines = section.op.lines /\ Len(lines) \in 1..3 /\ line = lines[1]
      BY <1>1, <2>1, WritingFacts
    <3> QED
      BY <3>1 DEF Own
  <2>6. Op(section.op.kind, Own(section.op)) \in Ops
    BY <1>1 DEF SectionRight
  <2>7. \A a \in Attempts : ~Unindexing(a)
    BY <1>1 DEF Unindexing
  <2>8. ASSUME up = "up", NEW a \in Attempts, Unindexing(a)' PROVE projection'[a] = None
    <3>1. section.op.kind = "delete" /\ Own(section.op) = line /\ line.about = a
      <4>1. section'.pc = "unindex" /\ Own(section'.op).about = a
        BY <2>8 DEF Unindexing, Own
      <4>2. section'.op = section.op /\ section.op.kind = "delete" /\ Len(section.op.lines) <= 1
        BY <2>2, <4>1 DEF Idle
      <4> QED
        BY <2>5, <4>1, <4>2
    <3>2. line.type = "attempt.deleted"
      BY <2>6, <3>1, DeletedIsDelete
    <3> QED
      BY <2>2, <3>1, <3>2, AppliedAt
  <2>10. ASSUME up = "up", NEW a \in Attempts PROVE Forgotten(index, stored', behind, a)
    <3>1. Forgotten(index, stored, behind, a)
      BY <1>3, <2>10 DEF RebuildRight
    <3>2. CASE line.type = "attempt.deleted" /\ line.about = a
      <4>1. PICK longer \in Seq(AllLines) : longer = stored' /\ Len(longer) > 0 /\ longer[Len(longer)] = line
        BY <2>2, <2>3
      <4>2. Replayed(longer)[a] = None
        BY <3>2, <4>1, ReplayedDeleted
      <4> QED
        BY <4>1, <4>2 DEF Forgotten
    <3>3. CASE ~(line.type = "attempt.deleted" /\ line.about = a)
      <4>1. Replayed(Append(stored, line))[a] = Replayed(stored)[a]
        BY <2>3, <3>3, ReplayedAppend
      <4> QED
        BY <2>2, <3>1, <4>1 DEF Forgotten
    <3> QED
      BY <3>2, <3>3
  <2>9. ASSUME up = "up", NEW a \in Attempts, ~Unindexing(a)', ~Underway(Pipe', a)
        PROVE  AsRebuilt(projection', index, stored', behind, a)
    <3>1. CASE line.type = "attempt.deleted" /\ line.about = a
      <4>1. Own(section.op) = line /\ Len(section.op.lines) = 1
        BY <1>1, <2>1, <3>1, OnlyLine
      <4>2. section.op.kind = "delete"
        BY <2>6, <3>1, <4>1, DeletedIsDelete
      <4>3. section' = [pc |-> "unindex", op |-> section.op]
        BY <2>2, <4>1, <4>2
      <4>4. Unindexing(a)'
        BY <3>1, <4>1, <4>3 DEF Unindexing, Own
      <4> QED
        BY <2>9, <4>4
    <3>2. CASE line.type = "attempt.changed" /\ line.about = a
      <4>1. Pipe' = Tail(Pipe) /\ Pipe[1] = Op("append", line)
        BY <2>1, <3>2, OnlyLineLeaves
      <4>2. PICK v \in 1..MaxVersion : line = Own(Changed(a, v)) /\ v = line.key[3]
        BY <2>3, <3>2, AboutFacts
      <4>3. Pipe[1] = Changed(a, v)
        BY <4>1, <4>2, OpFields DEF Changed
      <4>4. Pipe[1] \in Recording(a) /\ VersionIn(Pipe[1]) = v
        BY <4>3, OpDistinct DEF Recording
      <4>5. ~\E j \in (1+1)..Len(Pipe) : Pipe[j] \in Recording(a)
        <5>1. PICK rest \in Seq(Ops), n \in Nat :
                 /\ rest = Tail(Pipe) /\ n + 1 = Len(Pipe) /\ Len(rest) = n
                 /\ \A i \in 1..n : rest[i] = Pipe[i + 1]
          BY <2>4, PipeTail
        <5>2. \A i \in 1..n : rest[i] \notin Recording(a)
          BY <2>9, <4>1, <5>1 DEF Underway
        <5>3. \A j \in (1+1)..Len(Pipe) : j - 1 \in 1..n /\ (j - 1) + 1 = j
          BY <5>1
        <5>4. \A j \in (1+1)..Len(Pipe) : rest[j - 1] = Pipe[j]
          BY <5>1, <5>3
        <5> QED
          BY <5>2, <5>3, <5>4
      <4>6. v = index[a] \/ (index[a] = None /\ <<a, v>> \in behind)
        <5>1. 1 \in 1..Len(Pipe)
          BY <2>4
        <5> QED
          BY <4>4, <4>5, <5>1 DEF PipeRight, VersionsOrdered
      <4>7. v # None
        <5>1. v \in 0..MaxVersion
          OBVIOUS
        <5> QED
          BY <5>1, NoneAssumption
      <4>8. projection'[a] = v
        BY <2>2, <3>2, <4>2, AppliedAt
      <4>9. CASE v = index[a]
        BY <4>7, <4>8, <4>9 DEF AsRebuilt
      <4>10. CASE index[a] = None /\ <<a, v>> \in behind
        <5>1. Replayed(stored')[a] = None
          BY <2>9, <2>10, <4>10 DEF Forgotten
        <5> QED
          BY <4>8, <4>10, <5>1 DEF AsRebuilt
      <4> QED
        BY <4>6, <4>9, <4>10
    <3>3. CASE ~(line.type \in {"attempt.deleted", "attempt.changed"} /\ line.about = a)
      <4>1. projection'[a] = projection[a]
        BY <2>2, <3>3, AppliedAt
      <4>2. Replayed(stored')[a] = Replayed(stored)[a]
        BY <2>2, <2>3, <3>3, ReplayedAppend
      <4>3. ~Underway(Pipe, a)
        <5>1. CASE Pipe' = Pipe
          BY <2>9, <5>1
        <5>2. CASE Pipe' = Tail(Pipe) /\ section' = Idle
          <6>1. Len(section.op.lines) <= 1
            BY <2>2, <5>2 DEF Idle
          <6>2. Own(section.op) = line
            BY <2>5, <6>1
          <6>3. Own(Pipe[1]) = line
            BY <2>4, <6>2 DEF Op, Own
          <6>4. Pipe[1] \notin Recording(a)
            BY <3>3, <6>3, RecordingFacts
          <6> QED
            BY <2>4, <2>9, <5>2, <6>4, UnderwayTail
        <5> QED
          BY <2>4, <5>1, <5>2
      <4>4. AsRebuilt(projection, index, stored, behind, a)
        BY <1>3, <2>7, <2>9, <4>3 DEF RebuildRight
      <4> QED
        BY <4>1, <4>2, <4>4 DEF AsRebuilt
    <3> QED
      BY <3>1, <3>2, <3>3
  <2>11. up # "up" => behind' = {}
    BY <1>1 DEF RebuildRight
  <2> QED
    BY <1>1, <2>8, <2>9, <2>10, <2>11, NextRebuild
<1> QED
  BY <1>2, <1>3

LEMMA StepRebuild ==
  ASSUME TypesRight, Fits, SectionRight, LogRight, PipeRight, RebuildRight, [Next]_vars
  PROVE  RebuildRight'
BY SameRebuild, StartCrashRebuild, EnterRebuild, EffectRebuild, WriteRebuild, UnindexRebuild,
   SyncRebuild, OutsideRebuild DEF Next

-----------------------------------------------------------------------------
(* The invariant *)

\* The invariant: see the head of the module.
IInv ==
  /\ TypesRight /\ Fits /\ SectionRight /\ LogRight /\ StoredRight /\ SoundRight
  /\ WrittenRight /\ PipeRight /\ RebuildRight

LEMMA StepTypes ==
  ASSUME TypesRight, SectionRight, LogRight, [Next]_vars
  PROVE  TypesRight'
<1>1. CASE UNCHANGED vars
  BY <1>1 DEF vars, disk, memory, live, TypesRight
<1> QED
  BY <1>1, RecordTypes, CommandTypes, RefreshTypes, RefreshedTypes, AskTypes, PutTypes, ArtifactPutTypes,
     PutAgainTypes, StartTypes, EnterTypes, EffectTypes, WriteTypes, SyncTypes, UnindexTypes,
     CrashTypes DEF Next

LEMMA StepFits ==
  ASSUME TypesRight, SectionRight, LogRight, Fits, [Next]_vars
  PROVE  Fits'
<1>1. CASE UNCHANGED vars
  BY <1>1 DEF vars, disk, live, Fits, Left, Waiting
<1> QED
  BY <1>1, OutsideActionsFit, StartFits, EnterFits, EffectFits, WriteFits, SyncFits, UnindexFits,
     CrashFits DEF Next

LEMMA StepSection ==
  ASSUME TypesRight, Fits, SectionRight, LogRight, [Next]_vars
  PROVE  SectionRight'
<1>1. CASE UNCHANGED <<section, stored, remembered>>
  BY <1>1, SameSection
<1>2. CASE Start
  BY <1>2, IdleSection DEF Start, LogRight
<1>3. CASE Unindex \/ Crash
  BY <1>3, IdleSection DEF Unindex, Crash
<1>4. CASE Enter \/ Effect \/ Write \/ Sync
  BY <1>4, EnterSection, EffectSection, WriteSection, SyncSection
<1>5. CASE \/ \E a \in Attempts : RecordAttempt(a)
           \/ \E r \in Requests : Command(r) \/ RefreshTracker(r) \/ Refreshed(r)
           \/ \E q \in Questions : Ask(q)
           \/ \E c \in Contents : PutArtifact(c) \/ ArtifactPut(c) \/ PutAgain(c)
  BY <1>1, <1>5 DEF RecordAttempt, Command, RefreshTracker, Refreshed, Ask, PutArtifact, ArtifactPut,
                    PutAgain, memory
<1> QED
  BY <1>1, <1>2, <1>3, <1>4, <1>5 DEF Next, vars, memory

LEMMA StepLog ==
  ASSUME TypesRight, SectionRight, LogRight, [Next]_vars
  PROVE  LogRight'
<1>1. CASE UNCHANGED vars
  <2>1. UNCHANGED <<file, unended, up, stored, remembered, queue, section, puts, refreshing, pending, answered>>
    BY <1>1 DEF vars, disk, memory, live
  <2>2. KeysOf(stored)' = KeysOf(stored) /\ KeysOf(file)' = KeysOf(file) /\ Harmed(file)' = Harmed(file)
    BY <2>1 DEF KeysOf, Harmed
  <2> QED
    BY <2>1, <2>2 DEF LogRight
<1> QED
  BY <1>1, OutsideLog, StartLog, EnterLog, EffectLog, WriteLog, SyncLog, UnindexLog, CrashLog DEF Next

LEMMA StepSound ==
  ASSUME TypesRight, SectionRight, LogRight, SoundRight, [Next]_vars
  PROVE  SoundRight'
<1>1. CASE UNCHANGED vars
  BY <1>1 DEF vars, disk, memory, SoundRight, Readable, DiskIsSound, faults
<1> QED
  BY <1>1, OutsideSound, StartSound, EnterSound, EffectSound, WriteSound, SyncSound, UnindexSound,
     CrashSound DEF Next

\* The invariant of the EventLog holds in every behaviour.
THEOREM EventLogInvariant == Spec => []IInv
<1>1. Init => IInv
  <2>1. Init => RebuildRight
    BY DEF Init, RebuildRight
  <2>2. Init => SectionRight
    BY DEF Init, SectionRight, Idle, Writing
  <2> QED
    BY <2>1, <2>2, InitTypes, InitFits, InitLog, InitStored, InitSound, InitWrittenRight, InitPipe DEF IInv
<1>2. IInv /\ [Next]_vars => IInv'
  <2> SUFFICES ASSUME IInv, [Next]_vars PROVE IInv'
    OBVIOUS
  <2>1. TypesRight' /\ Fits' /\ SectionRight'
    BY StepTypes, StepFits, StepSection DEF IInv
  <2>2. LogRight' /\ StoredRight' /\ SoundRight'
    BY StepLog, StepStored, StepSound DEF IInv
  <2>3. WrittenRight' /\ PipeRight' /\ RebuildRight'
    BY StepWritten, StepPipe, StepRebuild DEF IInv
  <2> QED
    BY <2>1, <2>2, <2>3 DEF IInv
<1> QED
  BY <1>1, <1>2, PTL DEF Spec

-----------------------------------------------------------------------------
(* What clients and persons were told *)

\* A sound file holds what is in memory, under the same numbers.
LEMMA SoundLog ==
  ASSUME IInv, DiskIsSound
  PROVE  /\ Len(stored) <= Len(file)
         /\ up = "up" => \A i \in 1..Len(stored) : file[i] = stored[i]
<1>1. file \in Seq(AllLines) /\ stored \in Seq(AllLines)
  BY DEF IInv, TypesRight
<1>2. CASE up # "up"
  <2>1. stored = <<>>
    BY <1>2 DEF IInv, LogRight
  <2> QED
    BY <1>1, <1>2, <2>1
<1>3. CASE up = "up"
  <2>1. PICK line : file = stored \/ file = Append(stored, line)
    BY <1>3 DEF IInv, SoundRight
  <2>2. CASE file = stored
    BY <1>1, <2>2
  <2>3. CASE file = Append(stored, line)
    BY <1>1, <2>3
  <2> QED
    BY <2>1, <2>2, <2>3
<1> QED
  BY <1>2, <1>3

LEMMA TypeHolds == IInv => TypeOK
<1> SUFFICES ASSUME IInv PROVE TypeOK
  OBVIOUS
<1>1. pending \subseteq {q \in Questions : given[q] = "asked"}
  BY DEF IInv, TypesRight, PipeRight, QuestionsOpen
<1>2. Len(file) <= 3 * MaxLines
  <2>1. Len(file) \in Nat /\ Waiting \in Nat /\ Left \in Nat
    BY SizeTypes, WaitingType, LeftBound DEF IInv
  <2>2. PICK f \in Nat : f = Len(file)
    BY <2>1
  <2>3. PICK w \in Nat : w = Waiting
    BY <2>1
  <2>4. PICK l \in Nat : l = Left
    BY <2>1
  <2>5. f + 3 * w + l <= 3 * MaxLines
    BY <2>2, <2>3, <2>4 DEF IInv, Fits
  <2>6. f <= 3 * MaxLines
    BY <2>5, LogBounds
  <2> QED
    BY <2>2, <2>6
<1>3. DiskIsSound => Len(stored) <= Len(file)
  BY SoundLog
<1>4. section.pc \in {"idle", "effect", "write", "sync", "unindex"}
  BY DEF IInv, SectionRight
<1> QED
  BY <1>1, <1>2, <1>3, <1>4 DEF IInv, TypesRight, TypeOK

LEMMA StableSequences == IInv => SequencesStable
<1> SUFFICES ASSUME IInv, up = "up", DiskIsSound, NEW k \in Keys, answered[k] # 0
             PROVE  answered[k] <= Len(stored) /\ stored[answered[k]].key = k
  BY DEF SequencesStable
<1>1. answered[k] <= Len(stored) /\ file[answered[k]].key = k
  BY DEF IInv, SoundRight
<1>2. answered[k] \in Nat /\ Len(stored) \in Nat
  BY DEF IInv, TypesRight
<1>3. answered[k] \in 1..Len(stored)
  BY <1>1, <1>2
<1> QED
  BY <1>1, <1>3, SoundLog

LEMMA StoredLinesRight ==
  ASSUME IInv, NEW i \in 1..Len(stored)
  PROVE  LineRight(stored[i])
<1>1. stored[i] \in Written
  BY ElementOf DEF Written
<1> QED
  BY <1>1 DEF IInv, WrittenRight

\* Whatever the disk, the Tracker and the agents did and however often the process died, a Runtime
\* that starts has every command it answered, a sound one under the number its client was told, and
\* the log shows for a question the answer its agent was given.
THEOREM AnswersAreKept == Spec => []AnswersKept
<1>1. IInv => StartedHasAnswered
  BY DEF IInv, LogRight, StartedHasAnswered
<1>2. IInv => ResolutionsWereGiven
  BY StoredLinesRight DEF ResolutionsWereGiven, LineRight
<1>3. IInv => AnswersKept
  BY <1>1, <1>2, TypeHolds, StableSequences DEF AnswersKept
<1> QED
  BY <1>3, EventLogInvariant, PTL

\* An event that names an artifact finds the whole of it, through failed writes, crashes and two
\* writers of the same content.
THEOREM ArtifactsAreWhole == Spec => []ArtifactsWhole
<1>1. IInv => ArtifactsWhole
  BY StoredLinesRight DEF ArtifactsWhole, LineRight
<1> QED
  BY <1>1, EventLogInvariant, PTL

\* While the disk is sound the Runtime always starts again, and a log at rest is rebuilt by a
\* restart as it was: no version of an Attempt is lost, none is replaced by an older one and no
\* deleted Attempt comes back.  Only an Attempt whose last record was made while it was being
\* deleted is shown until the next restart, which forgets it.
THEOREM RestartIsSafe == Spec => []RestartSafe
<1>1. IInv => NeverRefuses
  BY DEF IInv, SoundRight, NeverRefuses
<1>2. IInv => RestartLosesNothing
  <2> SUFFICES ASSUME IInv, Quiet, DiskIsSound
               PROVE  /\ file = stored
                      /\ \A a \in Attempts :
                           \/ Overlaid(file, index)[a] = projection[a]
                           \/ Overlaid(file, index)[a] = None /\ <<a, projection[a]>> \in behind
    BY DEF RestartLosesNothing
  <2>1. section.pc = "idle" /\ queue = <<>> /\ up = "up"
    BY DEF Quiet
  <2>2. file = stored
    BY <2>1 DEF IInv, SoundRight
  <2>3. \A a : ~Unindexing(a) /\ ~Underway(Pipe, a)
    BY <2>1 DEF Unindexing, Underway, Pipe, PipeOf
  <2>4. \A a \in Attempts : AsRebuilt(projection, index, file, behind, a)
    BY <2>1, <2>2, <2>3 DEF IInv, RebuildRight
  <2>5. \A a \in Attempts : Overlaid(file, index)[a] = IF index[a] = None THEN Replayed(file)[a] ELSE index[a]
    BY DEF Overlaid
  <2> QED
    BY <2>2, <2>4, <2>5 DEF AsRebuilt
<1>3. IInv => RestartSafe
  BY <1>1, <1>2 DEF RestartSafe
<1> QED
  BY <1>3, EventLogInvariant, PTL

\* A command that was answered never reaches the orchestration again, however often its client
\* repeats it and whether or not the process died in between.
THEOREM AnsweredCommandsRunOnce == Spec => AnsweredRunsOnce
<1>1. IInv /\ [Next]_vars =>
        [\A k \in Keys : answered[k] # 0 /\ section'.pc = "effect" => Own(section'.op).key # k]_vars
  <2> SUFFICES ASSUME IInv, Next, section'.pc = "effect", NEW k \in Keys, answered[k] # 0
               PROVE  Own(section'.op).key # k
    BY DEF IInv
  <2>1. Own(section'.op).key \notin remembered /\ up = "up"
    <3>1. CASE Enter
      <4>1. section'.op = Head(queue) /\ ~Known(Head(queue)) /\ up = "up"
        BY <3>1 DEF Enter, Goto
      <4> QED
        BY <4>1 DEF Known
    <3>2. CASE section' = section
      <4>1. PICK r \in Requests : section.op = Asked(r) /\ r.key \notin remembered
        BY <3>2 DEF IInv, SectionRight
      <4>2. Own(section'.op).key = r.key
        BY <3>2, <4>1, OpFields, EventFields
      <4> QED
        BY <3>2, <4>1, <4>2, BusyIsUp DEF IInv
    <3>3. CASE Effect \/ Write \/ Sync \/ Unindex \/ Crash
      BY <3>3 DEF Effect, Write, Sync, Unindex, Crash, Goto, Idle
    <3>4. CASE Start \/ (\/ \E a \in Attempts : RecordAttempt(a)
                         \/ \E r \in Requests : Command(r) \/ RefreshTracker(r) \/ Refreshed(r)
                         \/ \E q \in Questions : Ask(q)
                         \/ \E c \in Contents : PutArtifact(c) \/ ArtifactPut(c) \/ PutAgain(c))
      BY <3>2, <3>4 DEF Start, RecordAttempt, Command, RefreshTracker, Refreshed, Ask, PutArtifact,
                        ArtifactPut, PutAgain
    <3> QED
      BY <3>1, <3>3, <3>4 DEF Next
  <2>2. k \in remembered
    BY <2>1 DEF IInv, LogRight
  <2> QED
    BY <2>1, <2>2
<1> QED
  BY <1>1, EventLogInvariant, PTL DEF Spec, AnsweredRunsOnce

=============================================================================
