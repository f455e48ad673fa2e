------------------------------ MODULE EventLog ------------------------------
(***************************************************************************)
(* The durable state of one Runtime: the JSONL store of domain events, the *)
(* index of Attempts and the artifacts (src/runtime/storage), the EventLog *)
(* with its idempotency keys and projection (service/event-log), the       *)
(* records that pass through it (service/recording) and the commands that  *)
(* hold its critical section (service/commands).                           *)
(*                                                                         *)
(* The process may die at every step.  A call of the file system may also  *)
(* fail, in the ways the fault set of the behaviour allows.                *)
(***************************************************************************)
EXTENDS Integers, Sequences, FiniteSets

CONSTANTS
  Attempts,     \* Attempt ids
  Questions,    \* interventions of the agents, each of an Attempt
  Requests,     \* the commands clients send, see RequestRecords
  Contents,     \* contents of artifacts
  Settings,     \* what happens and what may go wrong in a behaviour, see SettingRecords
  MaxLines,     \* bound: lines of the log when something is asked for
  MaxVersion,   \* bound: records of an Attempt
  None

VARIABLES
  file,        \* on disk: the lines of domain-events.jsonl
  unended,     \* on disk: the last line has no newline
  index,       \* on disk: attempts.json, attemptId -> version
  artifacts,   \* on disk: content -> state of its file
  up,          \* "down", "up", or "refused" when the replay threw
  stored,      \* #storedEvents; the sequence number of an event is its place
  remembered,  \* the idempotency keys of the store and of the log
  projection,  \* attemptId -> version
  queue,       \* the FIFO of #mutationTail behind its head
  section,     \* what is in the critical section
  puts,        \* artifacts being written
  refreshing,  \* refresh commands that wait for the Tracker
  pending,     \* #interventions of the orchestration: questions an agent waits for
  given,       \* question -> None, "asked", or the key of the answer the agent was given
  versions,    \* records drawn per Attempt
  behind,      \* history: the records made while the deletion of their Attempt was under way
  answered,    \* key -> the event sequence its client was told
  setting      \* the setting of this behaviour, fixed in Init

AllFaults == {"crash", "torn", "sync", "effect"}

CommandKinds == {"attempt", "delete", "sync", "review", "respond", "enable", "refresh"}

\* A command and its idempotency key. "attempt" is every command about an Attempt that reaches
\* the orchestration and has no other event of its own.
RequestRecords ==
  [kind : CommandKinds, key : {"command"} \X Nat, about : Attempts \cup Questions \cup {None}]

SettingRecords ==
  [faults : SUBSET AllFaults, attempts : SUBSET Attempts, requests : SUBSET Requests,
   questions : SUBSET Questions, contents : SUBSET Contents]

Keys == {r.key : r \in Requests}

ASSUME RequestAssumption == Requests \subseteq RequestRecords
ASSUME SettingAssumption == Settings \subseteq SettingRecords
ASSUME LogBounds == MaxLines \in Nat \ {0} /\ MaxVersion \in Nat
ASSUME NoneAssumption == None \notin Keys /\ None \notin 0..MaxVersion /\ None # "asked"

faults == setting.faults

disk == <<file, unended, index, artifacts>>
memory == <<up, stored, remembered, projection>>
live == <<refreshing, pending, given>>
vars == <<disk, memory, queue, section, puts, live, versions, behind, answered, setting>>

\* The keys of the events the Runtime writes for itself.
RecordKey(a, v) == <<"attempt-change", a, v>>
QuestionKey(q) == <<"intervention", q>>
DispatchKey(r) == <<"enable-task-dispatch", r.key>>
ActivityKey(a) == <<"activity-change", a>>
SessionKey(a, time) == <<"session-change", a, time>>
LegacyKey(a) == <<"legacy", a>>
ArtifactKey(c) == <<"verification", c>>

Line(type, key, about) == [type |-> type, key |-> key, about |-> about]

\* A line that is not the JSON of one event.
Damaged == Line("damaged", None, None)

\* What waits for the critical section: the events it commits there, its own the last.
Op(kind, line) == [kind |-> kind, lines |-> <<line>>]
Own(op) == op.lines[Len(op.lines)]

\* The event that says a command was carried out.
EventOf(r) ==
  Line(CASE r.kind = "delete"  -> "attempt.deleted"
         [] r.kind = "review"  -> "review.decided"
         [] r.kind = "respond" -> "intervention.resolved"
         [] OTHER              -> "runtime.command.requested", r.key, r.about)

Asked(r) == Op(r.kind, EventOf(r))

\* The events of the Runtime itself: a version of an Attempt, a question and an artifact.
Changed(a, version) == Op("append", Line("attempt.changed", RecordKey(a, version), a))
Opened(q) == Op("append", Line("intervention.requested", QuestionKey(q), q))
Verified(c) == Op("append", Line("verification.recorded", ArtifactKey(c), c))

Idle == [pc |-> "idle", op |-> None]
Quiet == up = "up" /\ section.pc = "idle" /\ queue = <<>> /\ puts = {} /\ refreshing = {}

\* The bound on lines, over what is queued, in the critical section and being put.
Room ==
  Len(file) + Len(queue) + Cardinality(puts) + Cardinality(refreshing)
    + (IF section.pc = "idle" THEN 0 ELSE 1) < MaxLines

KeysOf(lines) == {lines[i].key : i \in 1..Len(lines)}

-----------------------------------------------------------------------------
(* JsonlEventStore *)

\* Appended to a line without a newline, a line damages it.
Put(line) ==
  IF unended THEN [file EXCEPT ![Len(file)] = Damaged] ELSE Append(file, line)

\* writeFile puts the whole line into the file.
WriteLine(line) == file' = Put(line) /\ unended' = FALSE

\* writeFile, cut short: nothing, a part of the line, or all of it but the newline.
TearLine(line) ==
  \/ UNCHANGED <<file, unended>>
  \/ "torn" \in faults /\ file' = Put(Damaged) /\ unended' = TRUE
  \/ "torn" \in faults /\ file' = Put(line) /\ unended' = TRUE

\* MUTANT: a line that cannot be parsed is passed over.
ReadableBug(lines) ==
  \A i, j \in 1..Len(lines) : i # j /\ lines[i].key # None => lines[i].key # lines[j].key

\* #read and #remember accept the file: every line is an event, and no key comes twice.
Readable(lines) ==
  /\ \A i \in 1..Len(lines) : lines[i] # Damaged
  /\ \A i, j \in 1..Len(lines) : i # j => lines[i].key # lines[j].key

\* MUTANT: the keys are remembered only from the appends of this process.
ReplayedKeysBug(lines) == {}

ReplayedKeys(lines) == KeysOf(lines)

-----------------------------------------------------------------------------
(* EventLog.start *)

\* apply, over the whole log: only the events of older versions carry an Attempt, the newer
\* ones say that something changed, and a deletion takes the Attempt away.
Replayed(lines) ==
  [a \in Attempts |->
     IF \E i \in 1..Len(lines) :
          /\ lines[i].type = "attempt.recorded" /\ lines[i].about = a
          /\ \A j \in (i+1)..Len(lines) : ~(lines[j].type = "attempt.deleted" /\ lines[j].about = a)
     THEN 0 ELSE None]

Empty(attempts) == \A a \in Attempts : attempts[a] = None

\* The projection after a start: the replayed Attempts under those of the index.
Overlaid(lines, attempts) ==
  [a \in Attempts |-> IF attempts[a] = None THEN Replayed(lines)[a] ELSE attempts[a]]

Start ==
  /\ up = "down"
  /\ IF Readable(file)
     THEN /\ up' = "up"
          /\ stored' = file
          /\ remembered' = ReplayedKeys(file)
          /\ projection' = Overlaid(file, index)
          /\ index' = IF Empty(index) THEN Replayed(file) ELSE index
     ELSE /\ up' = "refused"
          /\ UNCHANGED <<stored, remembered, projection, index>>
  /\ UNCHANGED <<file, unended, artifacts, queue, section, puts, live, versions, behind, answered, setting>>

-----------------------------------------------------------------------------
(* Requests *)

\* The deletion of the Attempt waits or has begun, and the index has not forgotten it yet.
Deleting(a) ==
  \/ section.pc # "idle" /\ section.op.kind = "delete" /\ Own(section.op).about = a
  \/ \E i \in 1..Len(queue) : queue[i].kind = "delete" /\ Own(queue[i]).about = a

\* AttemptIndexStore.upsert.
Upserted(a, version) == [index EXCEPT ![a] = version]

\* recordAttempt: the index is written, then the event is queued, whatever is done with the
\* Attempt meanwhile: a job may still record an Attempt that is being deleted, or was.
RecordAttempt(a) ==
  /\ a \in setting.attempts
  /\ up = "up" /\ versions[a] < MaxVersion /\ Room
  /\ versions' = [versions EXCEPT ![a] = @ + 1]
  /\ index' = Upserted(a, versions[a] + 1)
  /\ queue' = Append(queue, Changed(a, versions[a] + 1))
  /\ behind' = IF Deleting(a) THEN behind \cup {<<a, versions[a] + 1>>} ELSE behind
  /\ UNCHANGED <<file, unended, artifacts, memory, section, puts, live, answered, setting>>

\* executeCommand: a client sends a command, or repeats one whose answer it did not get or
\* did not keep.
Command(r) ==
  /\ r \in setting.requests /\ r.kind # "refresh"
  /\ up = "up" /\ Room
  /\ \A i \in 1..Len(queue) : queue[i] # Asked(r)
  /\ section.pc # "idle" => Own(section.op).key # r.key
  /\ queue' = Append(queue, Asked(r))
  /\ UNCHANGED <<disk, memory, section, puts, live, versions, behind, answered, setting>>

\* refresh_tracker runs outside the critical section: the key is looked up, the Tracker is read
\* (whose records are in SingleAgent), and the event is appended.
RefreshTracker(r) ==
  /\ r \in setting.requests /\ r.kind = "refresh"
  /\ up = "up" /\ Room /\ r \notin refreshing
  /\ IF r.key \in remembered
     THEN /\ answered' = [answered EXCEPT ![r.key] = CHOOSE i \in 1..Len(stored) : stored[i].key = r.key]
          /\ UNCHANGED refreshing
     ELSE refreshing' = refreshing \cup {r} /\ UNCHANGED answered
  /\ UNCHANGED <<disk, memory, queue, section, puts, pending, given, versions, behind, setting>>

Refreshed(r) ==
  /\ r \in refreshing
  /\ refreshing' = refreshing \ {r}
  /\ \/ queue' = Append(queue, Asked(r))
     \/ "effect" \in faults /\ UNCHANGED queue
  /\ UNCHANGED <<disk, memory, section, puts, pending, given, versions, behind, answered, setting>>

\* #consume: an agent asks, and recordIntervention queues the question.
Ask(q) ==
  /\ q \in setting.questions /\ given[q] = None
  /\ up = "up" /\ projection[q.attempt] # None /\ Room
  /\ given' = [given EXCEPT ![q] = "asked"]
  /\ queue' = Append(queue, Opened(q))
  /\ UNCHANGED <<disk, memory, section, puts, refreshing, pending, versions, behind, answered, setting>>

\* ImmutableArtifactStore.put creates the file; who finds it compares the contents.
PutArtifact(c) ==
  /\ c \in setting.contents
  /\ up = "up" /\ artifacts[c] = "absent" /\ Room
  /\ artifacts' = [artifacts EXCEPT ![c] = "partial"]
  /\ puts' = puts \cup {c}
  /\ UNCHANGED <<file, unended, index, memory, queue, section, live, versions, behind, answered, setting>>

\* Written and synced, recordVerification queues the event that names it; a write that fails
\* leaves the file as it is.
ArtifactPut(c) ==
  /\ c \in puts
  /\ puts' = puts \ {c}
  /\ \/ /\ artifacts' = [artifacts EXCEPT ![c] = "whole"]
        /\ queue' = Append(queue, Verified(c))
     \/ "torn" \in faults /\ UNCHANGED <<artifacts, queue>>
  /\ UNCHANGED <<file, unended, index, memory, section, live, versions, behind, answered, setting>>

\* MUTANT: a file that exists is taken for the artifact.
FoundArtifactBug(c) == artifacts[c] # "absent"

FoundArtifact(c) == artifacts[c] = "whole"

\* put of an artifact that exists; one that differs, or is not finished, is a conflict.
PutAgain(c) ==
  /\ c \in setting.contents
  /\ up = "up" /\ FoundArtifact(c) /\ Room
  /\ \A i \in 1..Len(queue) : queue[i] # Verified(c)
  /\ queue' = Append(queue, Verified(c))
  /\ UNCHANGED <<disk, memory, section, puts, live, versions, behind, answered, setting>>

-----------------------------------------------------------------------------
(* The critical section *)

IsCommand(op) == op.kind # "append"
SequenceOf(key) == CHOOSE i \in 1..Len(stored) : stored[i].key = key
Goto(pc, op) == section' = [pc |-> pc, op |-> op]
Answer(key, sequence) == answered' = [answered EXCEPT ![key] = sequence]

\* idempotent(key): the event of this operation is stored.
Known(op) == Own(op).key \in remembered

\* The projection shows a question until it is answered or its Attempt is deleted.
QuestionPending(q) ==
  \E i \in 1..Len(stored) :
    /\ stored[i].type = "intervention.requested" /\ stored[i].about = q
    /\ \A j \in (i+1)..Len(stored) :
         /\ ~(stored[j].type = "intervention.resolved" /\ stored[j].about = q)
         /\ ~(stored[j].type = "attempt.deleted" /\ stored[j].about = q.attempt)

\* respondToIntervention: the question is not there, or has its answer.
AnswerRefused(op) == ~QuestionPending(Own(op).about)

\* recordReviewCommand: there is no Attempt to review.
ReviewRefused(op) == projection[Own(op).about] = None

\* requestAttemptCommand: there is no such Attempt.
AttemptRefused(op) == projection[Own(op).about] = None

\* The checks that need nothing but the projection.  Tasks are not followed here.
Refused(op) ==
  \/ op.kind = "respond" /\ AnswerRefused(op)
  \/ op.kind = "review" /\ ReviewRefused(op)
  \/ op.kind \in {"attempt", "delete", "sync"} /\ AttemptRefused(op)

\* The head of the FIFO.  A command whose event is stored is answered with it.
Enter ==
  /\ up = "up" /\ section.pc = "idle" /\ queue # <<>>
  /\ queue' = Tail(queue)
  /\ LET op == Head(queue)
     IN  IF Known(op)
         THEN /\ UNCHANGED section
              /\ IF IsCommand(op) THEN Answer(Own(op).key, SequenceOf(Own(op).key))
                                  ELSE UNCHANGED answered
         ELSE /\ UNCHANGED answered
              /\ IF IsCommand(op) /\ Refused(op) THEN UNCHANGED section
                 ELSE Goto(IF op.kind \in {"append", "refresh"} THEN "write" ELSE "effect", op)
  /\ UNCHANGED <<disk, memory, puts, live, versions, behind, setting>>

\* MUTANT: commit writes whatever it is given.
FreshBug(line) == <<line>>

\* commit: an event that is stored is returned and not written again.
Fresh(line) == IF line.key \in remembered THEN <<>> ELSE <<line>>

\* enable_task_dispatch commits the change of the Task before its own event.
DispatchLines(op) == Fresh(Line("task.changed", DispatchKey(Own(op)), None))

\* sync_attempt_session commits the activities of the session and the session, which was read
\* at a time of its own; there may be none.
SessionLines(op) ==
  LET a == Own(op).about
  IN  {<<>>, Fresh(Line("attempt.activity.changed", ActivityKey(a), a))
               \o Fresh(Line("attempt.session.changed", SessionKey(a, Len(file)), a))}

\* What a command commits before its own event.
Before(op) ==
  CASE op.kind = "enable" -> {DispatchLines(op)}
    [] op.kind = "sync"   -> SessionLines(op)
    [] OTHER              -> {<<>>}

\* respond: an answer reaches the agent that waits for it, once.
GiveAnswer(op) ==
  /\ Own(op).about \in pending
  /\ pending' = pending \ {Own(op).about}
  /\ given' = [given EXCEPT ![Own(op).about] = Own(op).key]

\* The orchestration and the Tracker may throw, respond when no agent waits, and record_review
\* when a merge is asked for that the Task is not ready for.
Throws(op) ==
  \/ "effect" \in faults \/ op.kind = "review"
  \/ op.kind = "respond" /\ Own(op).about \notin pending

\* The command reaches the orchestration or the Tracker; nobody implements the hook of a review.
Effect ==
  /\ section.pc = "effect"
  /\ \/ /\ \E before \in Before(section.op) :
             Goto("write", [section.op EXCEPT !.lines = before \o Fresh(Own(section.op))])
        /\ IF section.op.kind = "respond" THEN GiveAnswer(section.op) ELSE UNCHANGED <<pending, given>>
     \/ /\ Throws(section.op)
        /\ section' = Idle /\ UNCHANGED <<pending, given>>
  /\ UNCHANGED <<disk, memory, queue, puts, refreshing, versions, behind, answered, setting>>

\* append: the line is written.
Write ==
  /\ section.pc = "write"
  /\ \/ WriteLine(Head(section.op.lines)) /\ Goto("sync", section.op)
     \/ "torn" \in faults /\ TearLine(Head(section.op.lines)) /\ section' = Idle
  /\ UNCHANGED <<index, artifacts, memory, queue, puts, live, versions, behind, answered, setting>>

\* The sequence number of the event being stored.
NextSequence == Len(stored) + 1

\* What apply and the recorders do to the projection.
Applied(line) ==
  CASE line.type = "attempt.deleted" -> [projection EXCEPT ![line.about] = None]
    [] line.type = "attempt.changed" -> [projection EXCEPT ![line.about] = line.key[3]]
    [] OTHER -> projection

\* append, after the sync: the event gets its number, its key is remembered, it is applied and
\* sent to the listeners, and the section goes on.  When the sync throws, nothing of this
\* happens.  A question that is recorded can be answered.
Sync ==
  /\ section.pc = "sync"
  /\ LET op == section.op
         line == Head(op.lines)
     IN  \/ /\ stored' = Append(stored, line)
            /\ remembered' = remembered \cup {line.key}
            /\ projection' = Applied(line)
            /\ pending' = IF line.type = "intervention.requested" THEN pending \cup {line.about} ELSE pending
            /\ IF Len(op.lines) > 1 THEN Goto("write", [op EXCEPT !.lines = Tail(@)]) /\ UNCHANGED answered
               ELSE IF op.kind = "delete" THEN Goto("unindex", op) /\ UNCHANGED answered
               ELSE /\ section' = Idle
                    /\ IF IsCommand(op) THEN Answer(line.key, NextSequence) ELSE UNCHANGED answered
         \/ /\ "sync" \in faults /\ section' = Idle
            /\ UNCHANGED <<stored, remembered, projection, answered, pending>>
  /\ UNCHANGED <<disk, up, queue, puts, refreshing, given, versions, behind, setting>>

\* The index forgets the deleted Attempt, and the client is answered.
Unindex ==
  /\ section.pc = "unindex"
  /\ LET line == Own(section.op)
     IN  /\ index' = [index EXCEPT ![line.about] = None]
         /\ Answer(line.key, SequenceOf(line.key))
  /\ section' = Idle
  /\ UNCHANGED <<file, unended, artifacts, memory, queue, puts, live, versions, behind, setting>>

-----------------------------------------------------------------------------
(* The process dies *)

\* What was not synced may be lost, or cut.
Crash ==
  /\ "crash" \in faults /\ up = "up"
  /\ up' = "down"
  /\ IF section.pc = "write"
     THEN TearLine(Head(section.op.lines)) \/ WriteLine(Head(section.op.lines))
     ELSE IF section.pc = "sync" /\ file # <<>> /\ file[Len(file)] = Head(section.op.lines)
     THEN \/ UNCHANGED <<file, unended>>
          \/ file' = SubSeq(file, 1, Len(file) - 1) /\ UNCHANGED unended
          \/ "torn" \in faults /\ file' = [file EXCEPT ![Len(file)] = Damaged] /\ unended' = TRUE
     ELSE UNCHANGED <<file, unended>>
  /\ stored' = <<>> /\ remembered' = {}
  /\ projection' = [a \in Attempts |-> None]
  /\ queue' = <<>> /\ section' = Idle /\ puts' = {} /\ refreshing' = {} /\ pending' = {}
  /\ behind' = {}
  /\ UNCHANGED <<index, artifacts, given, versions, answered, setting>>

Init ==
  /\ setting \in Settings
  /\ \E legacy \in SUBSET setting.attempts :
       /\ Cardinality(legacy) <= 1
       /\ file = IF legacy = {} THEN <<>>
                 ELSE LET a == CHOOSE x \in legacy : TRUE
                      IN  <<Line("attempt.recorded", LegacyKey(a), a)>>
       /\ versions = [a \in Attempts |-> 0]
  /\ unended = FALSE
  /\ index = [a \in Attempts |-> None]
  /\ artifacts = [c \in Contents |-> "absent"]
  /\ up = "down" /\ stored = <<>> /\ remembered = {}
  /\ projection = [a \in Attempts |-> None]
  /\ queue = <<>> /\ section = Idle /\ puts = {} /\ refreshing = {}
  /\ behind = {} /\ pending = {} /\ given = [q \in Questions |-> None]
  /\ answered = [k \in Keys |-> 0]

Next ==
  \/ Start \/ Enter \/ Effect \/ Write \/ Sync \/ Unindex \/ Crash
  \/ \E a \in Attempts : RecordAttempt(a)
  \/ \E r \in Requests : Command(r) \/ RefreshTracker(r) \/ Refreshed(r)
  \/ \E q \in Questions : Ask(q)
  \/ \E c \in Contents : PutArtifact(c) \/ ArtifactPut(c) \/ PutAgain(c)

Spec == Init /\ [][Next]_vars

-----------------------------------------------------------------------------
(* Properties *)

\* A crash and an orchestration that throws are all that goes wrong.
DiskIsSound == faults \subseteq {"crash", "effect"}

\* Every variable keeps its type; the log in memory is no longer than a sound file.
TypeOK ==
  /\ setting \in Settings /\ up \in {"down", "up", "refused"}
  /\ index \in [Attempts -> (0..MaxVersion) \cup {None}]
  /\ projection \in [Attempts -> (0..MaxVersion) \cup {None}]
  /\ artifacts \in [Contents -> {"absent", "partial", "whole"}]
  /\ section.pc \in {"idle", "effect", "write", "sync", "unindex"}
  /\ answered \in [Keys -> Nat]
  /\ pending \subseteq {q \in Questions : given[q] = "asked"}
  /\ Len(file) <= 3 * MaxLines /\ (DiskIsSound => Len(stored) <= Len(file))

\* Whatever the disk did, a Runtime that starts has every command it ever answered: a damaged
\* log is refused and never passed over.
StartedHasAnswered ==
  up = "up" => \A k \in Keys : answered[k] # 0 => k \in KeysOf(stored)

\* While the disk is sound, the event of an answered command keeps the sequence number its
\* client was told, in this process and in the next ones: streams resume by that number.
SequencesStable ==
  up = "up" /\ DiskIsSound =>
    \A k \in Keys : answered[k] # 0 => answered[k] <= Len(stored) /\ stored[answered[k]].key = k

\* While the disk is sound, the log at rest is the file and the projection is what a restart
\* would rebuild from file and index, through crashes, deletions and the migration of an empty
\* index.  A restart changes one thing: an Attempt whose last record was made while its deletion
\* was under way is shown again, and forgotten by the restart.  It gives no older version of an
\* Attempt, and brings none back that is not shown.
RestartLosesNothing ==
  Quiet /\ DiskIsSound =>
    /\ file = stored
    /\ \A a \in Attempts :
         \/ Overlaid(file, index)[a] = projection[a]
         \/ Overlaid(file, index)[a] = None /\ <<a, projection[a]>> \in behind

\* While the disk is sound the Runtime always starts again: no repeated command writes its key
\* a second time.
NeverRefuses == DiskIsSound => up # "refused"

\* An event that names an artifact finds the whole of it, through failed writes, crashes and
\* two writers of the same content.
ArtifactsWhole ==
  \A i \in 1..Len(stored) :
    stored[i].type = "verification.recorded" => artifacts[stored[i].about] = "whole"

\* A command that was answered never reaches the orchestration again, however often its client
\* repeats it and whether or not the process died in between.
AnsweredRunsOnce ==
  [][\A k \in Keys : answered[k] # 0 /\ section'.pc = "effect" => Own(section'.op).key # k]_vars

\* The answer the log shows for a question is the one its agent was given, whoever else answered
\* it, whichever write failed in between and however often the process died.
ResolutionsWereGiven ==
  \A i \in 1..Len(stored) :
    stored[i].type = "intervention.resolved" => given[stored[i].about] = stored[i].key

\* Answers stay true: a Runtime that starts has every command it ever answered, and under the
\* sequence number its client was told as long as the disk is sound; and an answer a person gave
\* an agent is the one the log shows.
AnswersKept == TypeOK /\ StartedHasAnswered /\ SequencesStable /\ ResolutionsWereGiven

\* A restart is safe while the disk is sound: the Runtime starts, and with what it had.
RestartSafe == RestartLosesNothing /\ NeverRefuses

=============================================================================
