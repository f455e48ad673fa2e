--------------------------- MODULE ExecutorsProofs ---------------------------
(***************************************************************************)
(* Proofs about Executors for every value of its constants.                *)
(***************************************************************************)
EXTENDS Executors, TLAPS, FiniteSetTheorems

-----------------------------------------------------------------------------
(* The invariant *)

TurnRecords ==
  [state : States, error : {None, "turn", "exited", "timed_out", "stalled", "protocol", "init"},
   pending : SUBSET Refs, stall : BOOLEAN, interrupted : BOOLEAN, queued : Nat]

CallRecords ==
  [kind : {"initialize", "thread", "turn", "interrupt", "steer"}, turn : Nat,
   answer : {None, "ok", "error"}]

MessageRecords ==
  [kind : {"init"}, good : BOOLEAN]
    \cup [kind : {"ask"}, turn : Nat, ref : Refs]
    \cup [kind : {"done"}, turn : Nat, status : {"completed", "failed", "interrupted"}]

Messages == Range(inbox)
LatestIs(states) == turns # <<>> /\ turns[Latest].state \in states

\* Every variable has its type, and a Turn has no more prompts than were sent.
Typed ==
  /\ provider \in {"codex", "claude"} /\ receipt \in BOOLEAN /\ init \in BOOLEAN
  /\ worker \in {"opening", "open", "closing", "closed"}
  /\ stream \in {"open", "error", "closed"} /\ process \in {"running", "killed", "gone"}
  /\ turns \in Seq(TurnRecords) /\ calls \subseteq CallRecords
  /\ inbox \in Seq(MessageRecords) /\ work \in Seq(Nat)
  /\ asks \subseteq used /\ used \subseteq Refs
  /\ steers \in 0..MaxSteers /\ faults \in Nat
  /\ \A t \in DOMAIN turns : turns[t].queued \in 1..(1 + steers)

\* All Turns before the latest are completed; there is none before the worker is open.
Ordered ==
  /\ \A t \in DOMAIN turns : t # Latest => turns[t].state = "completed"
  /\ worker = "opening" => turns = <<>>

\* Requests are about Turns there are. A Turn that is starting is what one request is for; while the
\* worker is opened there is no other; and none outlives the process.
CallsRight ==
  /\ \A c \in calls :
       /\ c.turn <= Len(turns)
       /\ StartsTurn(c) => Codex /\ c.turn = Latest /\ LatestIs({"starting"})
       /\ c.kind = "initialize" => Codex /\ worker = "opening" /\ calls = {c}
       /\ \A d \in calls : StartsTurn(c) /\ StartsTurn(d) => c = d
  /\ LatestIs({"starting"}) => \E c \in calls : StartsTurn(c)
  /\ process = "gone" => calls = {}

\* An intervention is on its way or pending from the time it is asked for.
AsksRight ==
  /\ asks # {} => work # <<>>
  /\ LatestIs({"starting", "active"}) /\ work # <<>> /\ stream = "open" =>
       \A ref \in asks : \/ ref \in turns[Latest].pending
                         \/ \E m \in Messages : m.kind = "ask" /\ m.ref = ref
  /\ LatestIs({"starting"}) => turns[Latest].pending = {}
  /\ \A m \in Messages : m.kind = "ask" =>
       m.ref \in used /\ (Codex /\ m.ref \in asks => m.turn = Latest)

\* The process is at work on the latest Turn at most, and on no completed one.
WorkRight ==
  /\ \A t \in Range(work) : t = Latest /\ turns # <<>>
  /\ LatestIs({"completed"}) => work = <<>>
  /\ \A m \in Messages : m.kind # "init" => m.turn <= Len(turns)

\* A message that ends the latest Turn of Codex is sent after its prompt, and the prompt is gone.
CodexRight ==
  Codex =>
    /\ Len(work) <= 1
    /\ \A m \in Messages : m.kind # "init"
    /\ \A m \in Messages : m.kind = "done" /\ m.turn = Latest => work = <<>>
    /\ \A c \in calls : c.kind = "thread" \/ (c.kind = "turn" /\ c.answer = None) =>
         work = <<>> /\ \A m \in Messages : m.kind = "done" => m.turn # Latest

\* Claude Code owes as many results as the Turn expects, or fewer.
Dones == {i \in DOMAIN inbox : inbox[i].kind = "done"}

ClaudeRight ==
  ~Codex =>
    /\ LatestIs({"active"}) => Len(work) + Cardinality(Dones) <= turns[Latest].queued
    /\ turns = <<>> \/ LatestIs({"completed"}) => Dones = {}

\* Nothing is at work when the process has gone and the worker is closed.
EndRight ==
  /\ worker = "closed" => process = "gone"
  /\ ~Codex /\ worker \in {"closing", "closed"} => ~LatestIs({"active"})
  /\ Codex /\ process = "gone" => ~LatestIs({"active", "starting"})

IInv ==
  /\ Typed /\ Ordered /\ CallsRight /\ StallWatches /\ AsksRight
  /\ WorkRight /\ CodexRight /\ ClaudeRight /\ EndRight

-----------------------------------------------------------------------------
(* Sequences *)

LEMMA RangeIs ==
  ASSUME NEW S, NEW s \in Seq(S)
  PROVE  Range(s) = {s[i] : i \in 1..Len(s)} /\ (s = <<>> <=> Range(s) = {})
<1>1. DOMAIN s = 1..Len(s) /\ Len(s) \in Nat /\ (s = <<>> <=> Len(s) = 0)
  OBVIOUS
<1>2. Range(s) = {s[i] : i \in 1..Len(s)}
  BY <1>1, Zenon DEF Range
<1>3. Len(s) # 0 => 1 \in 1..Len(s)
  BY <1>1
<1>4. Len(s) = 0 => 1..Len(s) = {}
  BY <1>1
<1> QED
  BY <1>1, <1>2, <1>3, <1>4, Zenon

LEMMA AppendIs ==
  ASSUME NEW S, NEW s \in Seq(S), NEW e \in S
  PROVE  /\ Append(s, e) \in Seq(S) /\ Append(s, e) # <<>>
         /\ Len(Append(s, e)) = Len(s) + 1 /\ DOMAIN Append(s, e) = 1..(Len(s) + 1)
         /\ \A i \in 1..Len(s) : Append(s, e)[i] = s[i]
         /\ Append(s, e)[Len(s) + 1] = e
         /\ Range(Append(s, e)) = Range(s) \cup {e}
<1>1. /\ Append(s, e) \in Seq(S) /\ Append(s, e) # <<>>
      /\ Len(Append(s, e)) = Len(s) + 1 /\ DOMAIN Append(s, e) = 1..(Len(s) + 1)
      /\ \A i \in 1..Len(s) : Append(s, e)[i] = s[i]
      /\ Append(s, e)[Len(s) + 1] = e
  OBVIOUS
<1>2. Range(Append(s, e)) = Range(s) \cup {e}
  <2>1. Len(s) \in Nat /\ DOMAIN s = 1..Len(s)
    OBVIOUS
  <2>2. 1..(Len(s) + 1) = (1..Len(s)) \cup {Len(s) + 1}
    BY <2>1
  <2>3. Range(Append(s, e)) = {Append(s, e)[i] : i \in 1..(Len(s) + 1)}
    BY <1>1, RangeIs
  <2>4. Range(s) = {s[i] : i \in 1..Len(s)}
    BY RangeIs
  <2> QED
    BY <1>1, <2>1, <2>2, <2>3, <2>4
<1> QED
  BY <1>1, <1>2

LEMMA WorkAppend ==
  ASSUME NEW s \in Seq(Nat), NEW n \in Nat
  PROVE  /\ Append(s, n) \in Seq(Nat) /\ Len(Append(s, n)) = Len(s) + 1
         /\ Range(Append(s, n)) = Range(s) \cup {n}
<1> DEFINE S == Nat
<1>1. s \in Seq(S) /\ n \in S
  OBVIOUS
<1> HIDE DEF S
<1>2. /\ Append(s, n) \in Seq(S) /\ Len(Append(s, n)) = Len(s) + 1
      /\ Range(Append(s, n)) = Range(s) \cup {n}
  BY <1>1, AppendIs
<1> QED
  BY <1>2 DEF S

LEMMA TailIs ==
  ASSUME NEW S, NEW s \in Seq(S), s # <<>>
  PROVE  /\ Tail(s) \in Seq(S) /\ Len(s) >= 1 /\ Len(Tail(s)) = Len(s) - 1
         /\ Head(s) \in S /\ Head(s) = s[1] /\ Head(s) \in Range(s)
         /\ \A i \in 1..Len(Tail(s)) : Tail(s)[i] = s[i + 1]
         /\ Range(Tail(s)) \subseteq Range(s)
         /\ Range(s) = Range(Tail(s)) \cup {Head(s)}
<1>1. /\ Tail(s) \in Seq(S) /\ Len(s) >= 1 /\ Len(Tail(s)) = Len(s) - 1
      /\ Head(s) \in S /\ Head(s) = s[1] 
      /\ \A i \in 1..Len(Tail(s)) : Tail(s)[i] = s[i + 1]
  OBVIOUS
<1>2. Range(s) = {s[i] : i \in 1..Len(s)} /\ Range(Tail(s)) = {Tail(s)[i] : i \in 1..Len(Tail(s))}
  BY <1>1, RangeIs
<1>3. Head(s) \in Range(s) /\ Range(Tail(s)) \subseteq Range(s)
  BY <1>1, <1>2
<1>4. ASSUME NEW x \in Range(s), x # Head(s) PROVE x \in Range(Tail(s))
  <2>1. PICK i \in 1..Len(s) : x = s[i]
    BY <1>2
  <2>2. i - 1 \in 1..Len(Tail(s)) /\ Tail(s)[i - 1] = s[i]
    BY <2>1, <1>1, <1>4
  <2> QED
    BY <2>1, <2>2, <1>2
<1> QED
  BY <1>1, <1>3, <1>4

LEMMA UpdateIs ==
  ASSUME NEW S, NEW s \in Seq(S), NEW e \in S, NEW n \in DOMAIN s
  PROVE  /\ [s EXCEPT ![n] = e] \in Seq(S) /\ Len([s EXCEPT ![n] = e]) = Len(s)
         /\ DOMAIN [s EXCEPT ![n] = e] = DOMAIN s
OBVIOUS

-----------------------------------------------------------------------------
(* Turns *)

\* Only the latest Turn changes.
LatestBecomes(turn) == turns # <<>> /\ turns' = [turns EXCEPT ![Latest] = turn]

LEMMA LatestExists ==
  ASSUME Typed, turns # <<>>
  PROVE  Latest \in DOMAIN turns /\ Latest \in Nat /\ Latest >= 1 /\ turns[Latest] \in TurnRecords
<1>1. turns \in Seq(TurnRecords)
  BY DEF Typed
<1> QED
  BY <1>1 DEF Latest

LEMMA ActiveIsLatest ==
  ASSUME Typed, Ordered, NEW t \in Active
  PROVE  t = Latest /\ turns # <<>> /\ LatestIs({"active"}) /\ Active = {Latest}
<1>1. t \in DOMAIN turns /\ turns[t].state = "active"
  BY DEF Active
<1>2. \A u \in Active : u = Latest
  BY DEF Ordered, Active
<1>3. turns # <<>>
  BY <1>1 DEF Typed
<1> QED
  BY <1>1, <1>2, <1>3 DEF LatestIs, Active

LEMMA LatestIsActive ==
  ASSUME Typed, Ordered
  PROVE  Active = IF LatestIs({"active"}) THEN {Latest} ELSE {}
<1>1. CASE Active # {}
  BY <1>1, ActiveIsLatest
<1>2. CASE Active = {}
  BY <1>2, LatestExists DEF LatestIs, Active
<1> QED
  BY <1>1, <1>2

LEMMA SameTurns ==
  ASSUME Typed, Ordered, UNCHANGED <<turns, worker>>
  PROVE  /\ Ordered' /\ Latest' = Latest /\ Active' = Active
         /\ \A states : LatestIs(states)' = LatestIs(states)
         /\ StallWatches => StallWatches'
BY DEF Ordered, Latest, Active, LatestIs, StallWatches

LEMMA LatestTurns ==
  ASSUME Typed, Ordered, NEW turn \in TurnRecords, LatestBecomes(turn)
  PROVE  /\ turns' \in Seq(TurnRecords) /\ turns' # <<>> /\ Len(turns') = Len(turns)
         /\ DOMAIN turns' = DOMAIN turns /\ Latest' = Latest
         /\ turns'[Latest] = turn /\ \A t \in DOMAIN turns \ {Latest} : turns'[t] = turns[t]
         /\ \A states : LatestIs(states)' <=> turn.state \in states
         /\ Active' = IF turn.state = "active" THEN {Latest} ELSE {}
         /\ (worker' = "opening" => worker = "opening") => Ordered'
<1>1. turns # <<>> /\ turns' = [turns EXCEPT ![Latest] = turn] /\ turns \in Seq(TurnRecords)
  BY DEF LatestBecomes, Typed
<1>2. Latest \in DOMAIN turns
  BY <1>1, LatestExists
<1>3. /\ turns' \in Seq(TurnRecords) /\ turns' # <<>> /\ Len(turns') = Len(turns)
      /\ DOMAIN turns' = DOMAIN turns
  BY <1>1, <1>2, UpdateIs
<1>4. Latest' = Latest /\ turns'[Latest] = turn /\ \A t \in DOMAIN turns \ {Latest} : turns'[t] = turns[t]
  BY <1>1, <1>2, <1>3 DEF Latest
<1>5. \A states : LatestIs(states)' <=> turn.state \in states
  BY <1>3, <1>4 DEF LatestIs
<1>6. Active' = IF turn.state = "active" THEN {Latest} ELSE {}
  BY <1>2, <1>3, <1>4 DEF Active, Ordered
<1>7. (worker' = "opening" => worker = "opening") => Ordered'
  BY <1>1, <1>3, <1>4 DEF Ordered
<1> QED
  BY <1>1, <1>3, <1>4, <1>5, <1>6, <1>7

LEMMA AnotherTurn ==
  ASSUME Typed, Ordered, NEW turn \in TurnRecords, turns' = Append(turns, turn), worker # "opening",
         UNCHANGED worker, turns = <<>> \/ LatestIs({"completed"})
  PROVE  /\ turns' \in Seq(TurnRecords) /\ turns' # <<>> /\ Len(turns') = Len(turns) + 1
         /\ DOMAIN turns' = DOMAIN turns \cup {Latest + 1} /\ Latest' = Latest + 1
         /\ turns'[Latest + 1] = turn /\ \A t \in DOMAIN turns : turns'[t] = turns[t]
         /\ \A states : LatestIs(states)' <=> turn.state \in states
         /\ Active = {} /\ Active' = IF turn.state = "active" THEN {Latest + 1} ELSE {}
         /\ Ordered'
<1>1. turns \in Seq(TurnRecords) /\ Len(turns) \in Nat /\ DOMAIN turns = 1..Len(turns)
  BY DEF Typed
<1>2. /\ turns' \in Seq(TurnRecords) /\ turns' # <<>> /\ Len(turns') = Len(turns) + 1
      /\ DOMAIN turns' = DOMAIN turns \cup {Latest + 1} /\ Latest' = Latest + 1
      /\ turns'[Latest + 1] = turn /\ \A t \in DOMAIN turns : turns'[t] = turns[t]
  BY <1>1, AppendIs DEF Latest
<1>3. \A t \in DOMAIN turns : turns[t].state = "completed"
  BY DEF Ordered, LatestIs, Latest
<1>4. \A states : LatestIs(states)' <=> turn.state \in states
  BY <1>2 DEF LatestIs
<1>5. Active = {} /\ Active' = IF turn.state = "active" THEN {Latest + 1} ELSE {}
  BY <1>2, <1>3 DEF Active
<1>6. Ordered'
  BY <1>2, <1>3 DEF Ordered
<1> QED
  BY <1>2, <1>4, <1>5, <1>6

LEMMA TurnRecordsKept ==
  ASSUME NEW turn \in TurnRecords
  PROVE  /\ \A outcome \in {"completed", "failed", "interrupted"},
               error \in {None, "turn", "exited", "timed_out", "stalled", "protocol", "init"} :
              Finished(turn, outcome, error) \in TurnRecords
         /\ Touched(turn) \in TurnRecords
         /\ \A ref \in Refs : Requested(turn, ref) \in TurnRecords /\ Responded(turn, ref) \in TurnRecords
         /\ \A state \in States : [turn EXCEPT !.state = state] \in TurnRecords
         /\ \A b \in BOOLEAN : [turn EXCEPT !.interrupted = b] \in TurnRecords
         /\ \A n \in Nat : [turn EXCEPT !.queued = n] \in TurnRecords
         /\ Queued(turn) \in TurnRecords
<1>1. \A p \in SUBSET Refs, b \in BOOLEAN : [turn EXCEPT !.pending = p, !.stall = b] \in TurnRecords
  BY DEF TurnRecords
<1>2. \A b \in BOOLEAN : [turn EXCEPT !.stall = b] \in TurnRecords
  BY DEF TurnRecords
<1>3. \A p \in SUBSET Refs : [turn EXCEPT !.pending = p] \in TurnRecords
  BY DEF TurnRecords
<1>4. turn.pending \in SUBSET Refs /\ turn.queued \in Nat
  BY DEF TurnRecords
<1>5. \A u \in TurnRecords : Touched(u) \in TurnRecords
  <2> TAKE u \in TurnRecords
  <2>1. StallArmed(u.pending) \in BOOLEAN
    BY DEF StallArmed
  <2> QED
    BY <2>1 DEF Touched, TurnRecords
<1>6. \A outcome \in {"completed", "failed", "interrupted"},
         error \in {None, "turn", "exited", "timed_out", "stalled", "protocol", "init"} :
        Finished(turn, outcome, error) \in TurnRecords
  BY DEF Finished, TurnRecords, States
<1>7. \A ref \in Refs : Requested(turn, ref) \in TurnRecords
  BY <1>1, <1>4 DEF Requested
<1>8. \A ref \in Refs : Responded(turn, ref) \in TurnRecords
  BY <1>3, <1>4, <1>5 DEF Responded
<1>9. \A n \in Nat : [turn EXCEPT !.queued = n] \in TurnRecords
  BY DEF TurnRecords
<1>10. Queued(turn) \in TurnRecords
  BY <1>4, <1>5, <1>9 DEF Queued
<1>11. \A state \in States : [turn EXCEPT !.state = state] \in TurnRecords
  BY DEF TurnRecords
<1>12. \A b \in BOOLEAN : [turn EXCEPT !.interrupted = b] \in TurnRecords
  BY DEF TurnRecords
<1> QED
  BY <1>5, <1>6, <1>7, <1>8, <1>9, <1>10, <1>11, <1>12

LEMMA NewTurnIs ==
  ASSUME NEW state \in States
  PROVE  /\ NewTurn(state) \in TurnRecords /\ NewTurn(state).state = state
         /\ NewTurn(state).pending = {} /\ NewTurn(state).queued = 1
         /\ NewTurn(state).stall = (state = "active")
BY DEF NewTurn, TurnRecords

\* What the changes of a run handle leave of it.
LEMMA FinishedIs ==
  ASSUME NEW turn \in TurnRecords, NEW outcome \in {"completed", "failed", "interrupted"}, NEW error
  PROVE  /\ Finished(turn, outcome, error).state = IF turn.state = "active" THEN outcome ELSE turn.state
         /\ Finished(turn, outcome, error).pending = turn.pending
         /\ Finished(turn, outcome, error).queued = turn.queued
         /\ turn.state # "active" => Finished(turn, outcome, error) = turn
BY DEF Finished, TurnRecords

LEMMA TouchedIs ==
  ASSUME NEW turn \in TurnRecords
  PROVE  /\ Touched(turn).state = turn.state /\ Touched(turn).pending = turn.pending
         /\ Touched(turn).queued = turn.queued /\ (Touched(turn).stall <=> turn.pending = {})
BY DEF Touched, StallArmed, TurnRecords

-----------------------------------------------------------------------------
(* Messages *)

LEMMA InboxAppend ==
  ASSUME Typed, NEW message \in MessageRecords, inbox' = Append(inbox, message)
  PROVE  /\ inbox' \in Seq(MessageRecords) /\ Messages' = Messages \cup {message}
         /\ Dones' = IF message.kind = "done" THEN Dones \cup {Len(inbox) + 1} ELSE Dones
         /\ IsFiniteSet(Dones) /\ Cardinality(Dones) \in Nat /\ IsFiniteSet(Dones')
         /\ Cardinality(Dones') =
              IF message.kind = "done" THEN Cardinality(Dones) + 1 ELSE Cardinality(Dones)
<1>1. inbox \in Seq(MessageRecords) /\ Len(inbox) \in Nat /\ DOMAIN inbox = 1..Len(inbox)
  BY DEF Typed
<1>2. /\ inbox' \in Seq(MessageRecords) /\ Messages' = Messages \cup {message}
      /\ DOMAIN inbox' = 1..(Len(inbox) + 1) /\ inbox'[Len(inbox) + 1] = message
      /\ \A i \in 1..Len(inbox) : inbox'[i] = inbox[i]
  BY <1>1, AppendIs DEF Messages
<1>3. Dones' = IF message.kind = "done" THEN Dones \cup {Len(inbox) + 1} ELSE Dones
  BY <1>1, <1>2 DEF Dones
<1>4. IsFiniteSet(Dones) /\ Cardinality(Dones) \in Nat
  <2>1. IsFiniteSet(1..Len(inbox))
    BY <1>1, FS_Interval
  <2>2. Dones \subseteq 1..Len(inbox)
    BY <1>1 DEF Dones
  <2> QED
    BY <2>1, <2>2, FS_Subset, FS_CardinalityType
<1>5. Len(inbox) + 1 \notin Dones
  BY <1>1 DEF Dones
<1>6. /\ IsFiniteSet(Dones \cup {Len(inbox) + 1})
      /\ Cardinality(Dones \cup {Len(inbox) + 1}) = Cardinality(Dones) + 1
  BY <1>4, <1>5, FS_AddElement
<1> QED
  BY <1>2, <1>3, <1>4, <1>6

LEMMA InboxTail ==
  ASSUME Typed, inbox # <<>>, inbox' = Tail(inbox)
  PROVE  /\ inbox' \in Seq(MessageRecords) /\ Messages' \subseteq Messages
         /\ Head(inbox) \in MessageRecords /\ Head(inbox) \in Messages
         /\ Messages = Messages' \cup {Head(inbox)}
         /\ Cardinality(Dones) \in Nat /\ Cardinality(Dones') \in Nat
         /\ Cardinality(Dones) = IF Head(inbox).kind = "done" THEN Cardinality(Dones') + 1
                                                               ELSE Cardinality(Dones')
         /\ Cardinality(Dones') = 0 <=> Dones' = {}
         /\ Dones = {} => Dones' = {}
<1>1. inbox \in Seq(MessageRecords) /\ Len(inbox) \in Nat /\ DOMAIN inbox = 1..Len(inbox)
  BY DEF Typed
<1>2. /\ inbox' \in Seq(MessageRecords) /\ Messages' \subseteq Messages
      /\ Head(inbox) \in MessageRecords /\ Head(inbox) \in Messages
      /\ Messages = Messages' \cup {Head(inbox)}
      /\ Len(inbox) >= 1 /\ Len(inbox') = Len(inbox) - 1 /\ Head(inbox) = inbox[1]
      /\ \A i \in 1..Len(inbox') : inbox'[i] = inbox[i + 1]
  BY <1>1, TailIs DEF Messages
<1>3. DOMAIN inbox' = 1..(Len(inbox) - 1)
  BY <1>2
<1> DEFINE rest == Dones \ {1}
           f == [i \in Dones' |-> i + 1]
<1>4. IsFiniteSet(Dones) /\ IsFiniteSet(Dones')
  <2>1. IsFiniteSet(1..Len(inbox)) /\ IsFiniteSet(1..(Len(inbox) - 1))
    BY <1>1, FS_Interval
  <2>2. Dones \subseteq 1..Len(inbox) /\ Dones' \subseteq 1..(Len(inbox) - 1)
    BY <1>1, <1>3 DEF Dones
  <2> QED
    BY <2>1, <2>2, FS_Subset
<1>5. f \in Bijection(Dones', rest)
  <2>1. f \in [Dones' -> rest]
    BY <1>1, <1>2, <1>3 DEF Dones
  <2>2. \A i, j \in Dones' : f[i] = f[j] => i = j
    BY <1>3 DEF Dones
  <2>3. \A j \in rest : \E i \in Dones' : f[i] = j
    <3> TAKE j \in rest
    <3>1. j - 1 \in Dones'
      BY <1>1, <1>2, <1>3 DEF Dones
    <3>2. j \in Int
      BY <1>1 DEF Dones
    <3> QED
      BY <3>1, <3>2
  <2> QED
    BY <2>1, <2>2, <2>3 DEF Bijection, Injection, Surjection, IsInjective
<1>6. IsFiniteSet(rest) /\ Cardinality(rest) = Cardinality(Dones')
  BY <1>4, <1>5, FS_Bijection DEF ExistsBijection
<1>7. 1 \in Dones <=> Head(inbox).kind = "done"
  BY <1>1, <1>2 DEF Dones
<1>8. Cardinality(Dones) \in Nat /\ Cardinality(Dones') \in Nat
  BY <1>4, FS_CardinalityType
<1>9. Cardinality(rest) = IF 1 \in Dones THEN Cardinality(Dones) - 1 ELSE Cardinality(Dones)
  BY <1>4, FS_RemoveElement
<1>10. Cardinality(Dones') = 0 <=> Dones' = {}
  BY <1>4, FS_EmptySet
<1>11. Dones = {} => Dones' = {}
  BY <1>1, <1>2, <1>3 DEF Dones
<1> QED
  BY <1>2, <1>6, <1>7, <1>8, <1>9, <1>10, <1>11

-----------------------------------------------------------------------------
(* The operations *)

LEMMA InvInit == Init => IInv
<1> SUFFICES ASSUME Init PROVE IInv
  OBVIOUS
<1> USE DEF Init
<1>1. Typed
  <2>1. steers \in 0..MaxSteers /\ faults \in Nat
    BY ExecutorBounds
  <2>2. DOMAIN turns = {} /\ turns \in Seq(TurnRecords) /\ work \in Seq(Nat) /\ inbox \in Seq(MessageRecords)
    OBVIOUS
  <2> QED
    BY <2>1, <2>2 DEF Typed
<1>2. Messages = {} /\ Range(work) = {} /\ Dones = {} /\ Active = {}
  BY RangeIs DEF Messages, Dones, Active, Range
<1>3. Ordered /\ CallsRight /\ StallWatches /\ AsksRight /\ WorkRight /\ CodexRight /\ ClaudeRight /\ EndRight
  BY <1>2 DEF Ordered, CallsRight, StallWatches, AsksRight, WorkRight, CodexRight, ClaudeRight,
     EndRight, LatestIs
<1> QED
  BY <1>1, <1>3 DEF IInv

LEMMA InvOpen ==
  ASSUME IInv, Open
  PROVE  IInv'
<1> USE DEF Open, outside, bounds
<1>1. Typed /\ Ordered
  BY DEF IInv
<1>2. turns = <<>> /\ \A states : ~LatestIs(states) /\ ~LatestIs(states)'
  BY DEF LatestIs
<1>3. Messages' = Messages /\ Dones' = Dones /\ Active' = Active /\ Latest' = Latest
  BY DEF Messages, Dones, Active, Latest
<1>4. calls' = {} \/ (Codex /\ worker' = "opening" /\ calls' = {CallOf("initialize", 0)})
  BY DEF Codex
<1>5. CallOf("initialize", 0) \in CallRecords /\ CallOf("initialize", 0).turn = 0
      /\ CallOf("initialize", 0).kind = "initialize" /\ CallOf("initialize", 0).answer = None
  BY DEF CallOf, CallRecords
<1>6. Typed'
  BY <1>1, <1>4, <1>5 DEF Typed
<1>7. Ordered' /\ StallWatches'
  BY <1>3 DEF Ordered, StallWatches, IInv, Active
<1>8. CallsRight'
  <2>1. \A c \in calls' : /\ c.turn <= Len(turns') /\ ~StartsTurn(c)
                          /\ c.kind = "initialize" => Codex /\ worker' = "opening" /\ calls' = {c}
    BY <1>2, <1>4, <1>5 DEF StartsTurn
  <2>2. process # "gone" \/ calls' = {}
    BY DEF Writable
  <2> QED
    BY <1>2, <2>1, <2>2 DEF CallsRight, Codex
<1>9. AsksRight' /\ WorkRight' /\ ClaudeRight' /\ EndRight'
  BY <1>2, <1>3 DEF AsksRight, WorkRight, ClaudeRight, EndRight, IInv, Codex
<1>10. CodexRight'
  BY <1>3, <1>4, <1>5 DEF CodexRight, IInv, Codex
<1> QED
  BY <1>6, <1>7, <1>8, <1>9, <1>10 DEF IInv

LEMMA InvClose ==
  ASSUME IInv, CloseCodex \/ Closed
  PROVE  IInv'
<1> USE DEF CloseCodex, Closed, outside, bounds
<1>1. Typed /\ Ordered /\ worker \in {"open", "closing"}
  BY DEF IInv
<1>2. /\ Latest' = Latest /\ Active' = Active /\ \A states : LatestIs(states)' = LatestIs(states)
      /\ Messages' = Messages /\ Dones' = Dones
  BY DEF Messages, Dones, Latest, Active, LatestIs
<1>3. Typed' /\ Ordered' /\ StallWatches'
  BY <1>1, <1>2 DEF Typed, Ordered, StallWatches, IInv
<1>4. CallsRight'
  BY <1>1, <1>2 DEF CallsRight, IInv, Codex
<1>5. AsksRight' /\ WorkRight' /\ CodexRight' /\ ClaudeRight'
  BY <1>2 DEF AsksRight, WorkRight, CodexRight, ClaudeRight, IInv, Codex
<1>6. EndRight'
  BY <1>2 DEF EndRight, IInv, Codex
<1> QED
  BY <1>3, <1>4, <1>5, <1>6 DEF IInv

\* The process says something that is neither an intervention nor the end of a prompt.
LEMMA InvSay ==
  ASSUME IInv, SayInit \/ NestedEnds
  PROVE  IInv'
<1> USE DEF SayInit, NestedEnds, Emit, outside, bounds
<1>1. Typed /\ Ordered
  BY DEF IInv
<1>2. PICK message \in MessageRecords :
        /\ inbox' = Append(inbox, message)
        /\ \/ Codex /\ message.kind = "done" /\ message.turn = 0
           \/ ~Codex /\ message.kind = "init"
  <2>1. CASE SayInit
    <3>1. PICK good \in BOOLEAN : inbox' = Append(inbox, [kind |-> "init", good |-> good])
      BY <2>1
    <3>2. [kind |-> "init", good |-> good] \in MessageRecords
      BY DEF MessageRecords
    <3> QED
      BY <2>1, <3>1, <3>2
  <2>2. CASE NestedEnds
    <3>1. [kind |-> "done", turn |-> 0, status |-> "completed"] \in MessageRecords
      BY DEF MessageRecords
    <3> QED
      BY <2>2, <3>1
  <2> QED
    BY <2>1, <2>2
<1>3. /\ inbox' \in Seq(MessageRecords) /\ Messages' = Messages \cup {message}
      /\ ~Codex => Dones' = Dones
  BY <1>1, <1>2, InboxAppend
<1>4. Ordered' /\ StallWatches' /\ Latest' = Latest /\ \A states : LatestIs(states)' = LatestIs(states)
  BY <1>1, SameTurns DEF IInv
<1>5. turns # <<>> /\ Latest >= 1
  <2>1. Range(work) # {}
    BY <1>1, RangeIs DEF Typed
  <2> QED
    BY <2>1, <1>1, LatestExists DEF IInv, WorkRight
<1>6. Typed'
  <2>1. faults' = faults \/ faults' = faults + 1
    <3>1. CASE SayInit
      BY <3>1
    <3>2. CASE NestedEnds
      BY <3>2
    <3> QED
      BY <3>1, <3>2
  <2> QED
    BY <1>1, <1>3, <2>1 DEF Typed
<1>7. CallsRight' /\ EndRight'
  BY <1>4 DEF CallsRight, EndRight, IInv, Codex
<1>8. AsksRight'
  BY <1>2, <1>3, <1>4 DEF AsksRight, IInv, Codex
<1>9. WorkRight'
  BY <1>2, <1>3, <1>4, <1>5 DEF WorkRight, IInv, Codex, Latest
<1>10. CodexRight'
  BY <1>2, <1>3, <1>4, <1>5 DEF CodexRight, IInv, Codex
<1>11. ClaudeRight'
  BY <1>3, <1>4 DEF ClaudeRight, IInv, Codex
<1> QED
  BY <1>4, <1>6, <1>7, <1>8, <1>9, <1>10, <1>11 DEF IInv

LEMMA InvAsk ==
  ASSUME IInv, NEW ref \in Refs, Ask(ref)
  PROVE  IInv'
<1> USE DEF Ask, Emit, outside, bounds
<1> DEFINE message == [kind |-> "ask", turn |-> Head(work), ref |-> ref]
<1>1. Typed /\ Ordered
  BY DEF IInv
<1>2. Head(work) \in Nat /\ Head(work) = Latest /\ turns # <<>> /\ Latest \in Nat
  BY <1>1, TailIs, LatestExists DEF IInv, Typed, WorkRight
<1>3. message \in MessageRecords
  BY <1>2 DEF MessageRecords
<1>4. inbox' \in Seq(MessageRecords) /\ Messages' = Messages \cup {message} /\ Dones' = Dones
  BY <1>1, <1>3, InboxAppend
<1>5. Ordered' /\ StallWatches' /\ Latest' = Latest /\ \A states : LatestIs(states)' = LatestIs(states)
  BY <1>1, SameTurns DEF IInv
<1>6. Typed'
  BY <1>1, <1>4 DEF Typed
<1>7. CallsRight' /\ EndRight'
  BY <1>5 DEF CallsRight, EndRight, IInv, Codex
<1>8. AsksRight'
  <2>1. ref \notin used /\ asks \subseteq used
    BY DEF IInv, Typed
  <2> QED
    BY <1>2, <1>4, <1>5, <2>1 DEF AsksRight, IInv, Codex
<1>9. WorkRight'
  BY <1>2, <1>4, <1>5 DEF WorkRight, IInv, Codex, Latest
<1>10. CodexRight'
  BY <1>2, <1>4, <1>5 DEF CodexRight, IInv, Codex
<1>11. ClaudeRight'
  BY <1>4, <1>5 DEF ClaudeRight, IInv, Codex
<1> QED
  BY <1>5, <1>6, <1>7, <1>8, <1>9, <1>10, <1>11 DEF IInv

LEMMA InvFinish ==
  ASSUME IInv, NEW status \in {"completed", "failed"}, Finish(status)
  PROVE  IInv'
<1> USE DEF Finish, Emit, outside, bounds
<1> DEFINE message == [kind |-> "done", turn |-> Head(work), status |-> status]
<1>1. Typed /\ Ordered
  BY DEF IInv
<1>2. Head(work) \in Nat /\ Head(work) = Latest /\ turns # <<>> /\ Latest \in Nat
      /\ work' \in Seq(Nat) /\ Len(work) \in Nat /\ Len(work') = Len(work) - 1
      /\ Range(work') \subseteq Range(work)
  BY <1>1, TailIs, LatestExists DEF IInv, Typed, WorkRight
<1>3. message \in MessageRecords
  BY <1>2 DEF MessageRecords
<1>4. inbox' \in Seq(MessageRecords) /\ Messages' = Messages \cup {message}
      /\ Cardinality(Dones) \in Nat /\ Cardinality(Dones') = Cardinality(Dones) + 1
  BY <1>1, <1>3, InboxAppend
<1>5. Ordered' /\ StallWatches' /\ Latest' = Latest /\ \A states : LatestIs(states)' = LatestIs(states)
  BY <1>1, SameTurns DEF IInv
<1>6. ~LatestIs({"completed"})
  BY DEF IInv, WorkRight
<1>7. Typed'
  BY <1>1, <1>2, <1>4 DEF Typed
<1>8. CallsRight' /\ EndRight'
  BY <1>5 DEF CallsRight, EndRight, IInv, Codex
<1>9. AsksRight'
  BY <1>2, <1>4, <1>5 DEF AsksRight, IInv, Codex
<1>10. WorkRight'
  BY <1>2, <1>4, <1>5, <1>6 DEF WorkRight, IInv, Codex, Latest
<1>11. CodexRight'
  <2>1. Codex => work' = <<>>
    BY <1>2 DEF CodexRight, IInv
  <2>2. \A c \in calls : Codex => ~(c.kind = "thread" \/ (c.kind = "turn" /\ c.answer = None))
    BY DEF CodexRight, IInv
  <2> QED
    BY <1>2, <1>4, <1>5, <2>1, <2>2 DEF CodexRight, IInv, Codex
<1>12. ClaudeRight'
  <2>1. turns[Latest].queued \in Nat
    BY <1>1, <1>2, LatestExists DEF TurnRecords
  <2> QED
    BY <1>2, <1>4, <1>5, <1>6, <2>1 DEF ClaudeRight, IInv, Codex
<1> QED
  BY <1>5, <1>7, <1>8, <1>9, <1>10, <1>11, <1>12 DEF IInv

-----------------------------------------------------------------------------
(* Requests *)

LEMMA CallIs ==
  ASSUME NEW kind \in {"initialize", "thread", "turn", "interrupt", "steer"}, NEW t \in Nat
  PROVE  /\ CallOf(kind, t) \in CallRecords /\ CallOf(kind, t).kind = kind
         /\ CallOf(kind, t).turn = t /\ CallOf(kind, t).answer = None
BY DEF CallOf, CallRecords

LEMMA RefusedIs ==
  ASSUME IInv, NEW c \in calls, Refused({c})
  PROVE  /\ worker' = IF c.kind = "initialize" THEN "closing" ELSE worker
         /\ StartsTurn(c) => LatestBecomes([turns[Latest] EXCEPT !.state = "refused"])
         /\ ~StartsTurn(c) => turns' = turns
<1>1. turns \in Seq(TurnRecords) /\ DOMAIN turns = 1..Len(turns)
  BY DEF IInv, Typed
<1>2. turns' = [t \in DOMAIN turns |->
                  IF c.turn = t /\ StartsTurn(c) THEN [turns[t] EXCEPT !.state = "refused"] ELSE turns[t]]
  BY DEF Refused
<1>3. ~StartsTurn(c) => turns' = turns
  BY <1>1, <1>2
<1>4. StartsTurn(c) => LatestBecomes([turns[Latest] EXCEPT !.state = "refused"])
  <2> SUFFICES ASSUME StartsTurn(c)
               PROVE  LatestBecomes([turns[Latest] EXCEPT !.state = "refused"])
    OBVIOUS
  <2>1. c.turn = Latest /\ turns # <<>>
    BY DEF IInv, CallsRight, LatestIs
  <2> QED
    BY <1>1, <1>2, <2>1 DEF LatestBecomes
<1>5. worker' = IF c.kind = "initialize" THEN "closing" ELSE worker
  BY DEF Refused
<1> QED
  BY <1>3, <1>4, <1>5

\* A request that fails leaves nothing that starts.
LEMMA InvRefuse ==
  ASSUME IInv, NEW c \in calls, Refused({c}), calls' = calls \ {c},
         init' \in BOOLEAN, UNCHANGED <<provider, receipt, inbox, stream, outside, bounds>>
  PROVE  IInv'
<1> USE DEF outside, bounds
<1>1. Typed /\ Ordered /\ CallsRight
  BY DEF IInv
<1>2. Messages' = Messages /\ Dones' = Dones
  BY DEF Messages, Dones
<1>3. worker' = IF c.kind = "initialize" THEN "closing" ELSE worker
  BY RefusedIs
<1>4. CASE StartsTurn(c)
  <2> DEFINE turn == [turns[Latest] EXCEPT !.state = "refused"]
  <2>1. LatestBecomes(turn) /\ turns # <<>> /\ LatestIs({"starting"}) /\ c.turn = Latest /\ Codex
    BY <1>4, <1>1, RefusedIs DEF LatestBecomes, CallsRight
  <2>2. turns[Latest] \in TurnRecords /\ Latest \in DOMAIN turns
    BY <1>1, <2>1, LatestExists
  <2>3. turn \in TurnRecords /\ turn.state = "refused" /\ turn.queued = turns[Latest].queued
    <3>1. "refused" \in States
      BY DEF States
    <3>2. turn.state = "refused" /\ turn.queued = turns[Latest].queued
      BY <2>2 DEF TurnRecords
    <3> QED
      BY <2>2, <3>1, <3>2, TurnRecordsKept
  <2> HIDE DEF turn
  <2>4. worker' = worker
    BY <1>3, <1>4 DEF StartsTurn
  <2>5. /\ turns' \in Seq(TurnRecords) /\ turns' # <<>> /\ Len(turns') = Len(turns)
        /\ DOMAIN turns' = DOMAIN turns /\ Latest' = Latest
        /\ turns'[Latest] = turn /\ \A t \in DOMAIN turns \ {Latest} : turns'[t] = turns[t]
        /\ \A states : LatestIs(states)' <=> "refused" \in states
        /\ Active' = {} /\ Ordered'
    BY <1>1, <2>1, <2>3, <2>4, LatestTurns
  <2>6. Typed'
    BY <1>1, <2>2, <2>3, <2>4, <2>5 DEF Typed
  <2>7. CallsRight'
    BY <1>1, <1>4, <2>4, <2>5 DEF CallsRight, Codex
  <2>8. StallWatches' /\ AsksRight' /\ WorkRight'
    BY <1>2, <2>5 DEF StallWatches, AsksRight, WorkRight, IInv, Codex
  <2>9. CodexRight' /\ ClaudeRight' /\ EndRight'
    BY <1>2, <2>1, <2>4, <2>5 DEF CodexRight, ClaudeRight, EndRight, IInv, Codex
  <2> QED
    BY <2>5, <2>6, <2>7, <2>8, <2>9 DEF IInv
<1>5. CASE ~StartsTurn(c)
  <2>1. turns' = turns
    BY <1>5, RefusedIs
  <2>2. /\ Latest' = Latest /\ Active' = Active /\ \A states : LatestIs(states)' = LatestIs(states)
    BY <2>1 DEF Latest, Active, LatestIs
  <2>3. Typed' /\ Ordered' /\ StallWatches'
    BY <1>1, <1>3, <2>1, <2>2 DEF Typed, Ordered, StallWatches, IInv
  <2>4. CallsRight'
    BY <1>1, <1>3, <1>5, <2>1, <2>2 DEF CallsRight, Codex
  <2>5. AsksRight' /\ WorkRight' /\ CodexRight' /\ ClaudeRight'
    BY <1>2, <2>1, <2>2 DEF AsksRight, WorkRight, CodexRight, ClaudeRight, IInv, Codex
  <2>6. EndRight'
    BY <1>1, <1>3, <2>2 DEF EndRight, CallsRight, IInv, Codex
  <2> QED
    BY <2>3, <2>4, <2>5, <2>6 DEF IInv
<1> QED
  BY <1>4, <1>5

LEMMA InvExpire ==
  ASSUME IInv, NEW c \in calls, Expire(c)
  PROVE  IInv'
BY InvRefuse DEF Expire, IInv, Typed

LEMMA InvAnswered ==
  ASSUME IInv, NEW c \in calls, Answered(c)
  PROVE  IInv'
<1> USE DEF outside, bounds
<1>1. Typed /\ Ordered /\ CallsRight
  BY DEF IInv
<1>2. CASE c.answer = "error"
  BY <1>1, <1>2, InvRefuse DEF Answered, Typed
<1>3. ASSUME c.answer # "error" PROVE IInv'
  <2>1. /\ c.answer # None
        /\ worker' = IF c.kind = "initialize" THEN "open" ELSE worker
        /\ init' = (init \/ c.kind = "thread")
        /\ turns' = IF c.kind = "turn" THEN [turns EXCEPT ![c.turn] = NewTurn("active")]
                    ELSE IF c.kind = "thread" /\ ~Writable
                    THEN [turns EXCEPT ![c.turn].state = "refused"] ELSE turns
        /\ calls' = (calls \ {c}) \cup
             (IF c.kind = "thread" /\ Writable THEN {CallOf("turn", c.turn)} ELSE {})
        /\ UNCHANGED <<provider, receipt, inbox, stream, process, work, asks, steers, faults, used>>
    BY <1>3 DEF Answered
  <2>2. Messages' = Messages /\ Dones' = Dones
    BY <2>1 DEF Messages, Dones
  <2>3. c \in CallRecords /\ c.turn \in Nat
    BY <1>1 DEF Typed, CallRecords
  <2>4. CASE c.kind = "thread" /\ ~Writable
    <3>1. StartsTurn(c)
      BY <2>4 DEF StartsTurn
    <3>2. Refused({c})
      <4>1. turns' = [t \in DOMAIN turns |->
                        IF \E d \in {c} : d.turn = t /\ StartsTurn(d)
                        THEN [turns[t] EXCEPT !.state = "refused"] ELSE turns[t]]
        BY <1>1, <2>1, <2>4, <3>1 DEF Typed
      <4> QED
        BY <2>1, <2>4, <4>1 DEF Refused
    <3>3. init' \in BOOLEAN /\ calls' = calls \ {c}
      BY <2>1, <2>4, <1>1 DEF Typed
    <3> QED
      BY <2>1, <3>2, <3>3, InvRefuse
  <2>5. CASE c.kind = "thread" /\ Writable
    <3> DEFINE next == CallOf("turn", c.turn)
    <3>1. /\ next \in CallRecords /\ next.kind = "turn" /\ next.turn = c.turn /\ next.answer = None
          /\ calls' = (calls \ {c}) \cup {next} /\ StartsTurn(c) /\ StartsTurn(next)
          /\ process # "gone" /\ worker' = worker /\ turns' = turns
      BY <2>1, <2>3, <2>5, CallIs DEF StartsTurn, Writable
    <3> HIDE DEF next
    <3>2. /\ Ordered' /\ Latest' = Latest /\ Active' = Active /\ StallWatches'
          /\ \A states : LatestIs(states)' = LatestIs(states)
      BY <1>1, <3>1, SameTurns DEF IInv
    <3>3. Typed'
      BY <1>1, <2>1, <3>1 DEF Typed
    <3>4. CallsRight'
      BY <1>1, <2>1, <2>5, <3>1, <3>2 DEF CallsRight, Codex
    <3>5. AsksRight' /\ WorkRight' /\ ClaudeRight' /\ EndRight'
      BY <2>1, <2>2, <3>1, <3>2 DEF AsksRight, WorkRight, ClaudeRight, EndRight, IInv, Codex
    <3>6. CodexRight'
      <4>1. Codex => work = <<>> /\ \A m \in Messages : m.kind = "done" => m.turn # Latest
        BY <2>5 DEF CodexRight, IInv
      <4> QED
        BY <2>1, <2>2, <3>1, <3>2, <4>1 DEF CodexRight, IInv, Codex
    <3> QED
      BY <3>2, <3>3, <3>4, <3>5, <3>6 DEF IInv
  <2>6. CASE c.kind = "turn"
    <3>1. /\ StartsTurn(c) /\ c.turn = Latest /\ turns # <<>> /\ Codex /\ LatestIs({"starting"})
          /\ process # "gone" /\ worker' = worker /\ calls' = calls \ {c}
      BY <1>1, <2>1, <2>6 DEF StartsTurn, CallsRight, LatestIs
    <3> DEFINE turn == NewTurn("active")
    <3>2. /\ turn \in TurnRecords /\ turn.state = "active" /\ turn.pending = {} /\ turn.queued = 1
          /\ turn.stall
      BY NewTurnIs DEF States
    <3>3. LatestBecomes(turn)
      BY <2>1, <2>6, <3>1 DEF LatestBecomes
    <3> HIDE DEF turn
    <3>4. /\ turns' \in Seq(TurnRecords) /\ turns' # <<>> /\ Len(turns') = Len(turns)
          /\ DOMAIN turns' = DOMAIN turns /\ Latest' = Latest
          /\ turns'[Latest] = turn /\ \A t \in DOMAIN turns \ {Latest} : turns'[t] = turns[t]
          /\ \A states : LatestIs(states)' <=> "active" \in states
          /\ Active' = {Latest} /\ Ordered'
      BY <1>1, <3>1, <3>2, <3>3, LatestTurns
    <3>5. Typed'
      <4>1. \A t \in DOMAIN turns' : turns'[t].queued \in 1..(1 + steers)
        BY <1>1, <3>2, <3>4 DEF Typed
      <4> QED
        BY <1>1, <2>1, <3>1, <3>4, <4>1 DEF Typed
    <3>6. CallsRight'
      BY <1>1, <2>1, <3>1, <3>4 DEF CallsRight, Codex
    <3>7. StallWatches'
      BY <3>2, <3>4 DEF StallWatches
    <3>8. AsksRight'
      BY <2>1, <2>2, <3>1, <3>2, <3>4 DEF AsksRight, IInv, Codex, LatestIs
    <3>9. WorkRight' /\ CodexRight' /\ ClaudeRight' /\ EndRight'
      BY <2>1, <2>2, <3>1, <3>4 DEF WorkRight, CodexRight, ClaudeRight, EndRight, IInv, Codex
    <3> QED
      BY <3>4, <3>5, <3>6, <3>7, <3>8, <3>9 DEF IInv
  <2>7. CASE c.kind \notin {"thread", "turn"}
    <3>1. turns' = turns /\ calls' = calls \ {c} /\ ~StartsTurn(c) /\ init' \in BOOLEAN
      BY <1>1, <2>1, <2>7 DEF StartsTurn, Typed
    <3>2. worker = "opening" \/ worker' = worker
      BY <1>1, <2>1 DEF CallsRight
    <3>3. worker' \in {worker, "open"}
      BY <2>1
    <3>4. /\ Latest' = Latest /\ Active' = Active /\ \A states : LatestIs(states)' = LatestIs(states)
      BY <3>1 DEF Latest, Active, LatestIs
    <3>5. Typed' /\ Ordered' /\ StallWatches'
      BY <1>1, <2>1, <3>1, <3>2, <3>3, <3>4 DEF Typed, Ordered, StallWatches, IInv
    <3>6. CallsRight'
      BY <1>1, <2>1, <3>1, <3>2, <3>4 DEF CallsRight, Codex
    <3>7. AsksRight' /\ WorkRight' /\ CodexRight' /\ ClaudeRight'
      BY <2>1, <2>2, <3>1, <3>4 DEF AsksRight, WorkRight, CodexRight, ClaudeRight, IInv, Codex
    <3>8. EndRight'
      BY <2>1, <3>2, <3>3, <3>4 DEF EndRight, IInv, Codex
    <3> QED
      BY <3>5, <3>6, <3>7, <3>8 DEF IInv
  <2> QED
    BY <2>4, <2>5, <2>6, <2>7
<1> QED
  BY <1>2, <1>3

\* Requests that start nothing may be added while the process is there.
RequestsAdded ==
  /\ calls \subseteq calls' /\ calls' \subseteq CallRecords
  /\ calls' # calls => process # "gone" /\ turns # <<>>
  /\ \A c \in calls' \ calls : c.kind \in {"interrupt", "steer"} /\ c.turn = Latest

LEMMA RequestAdded ==
  ASSUME Typed, turns # <<>>, NEW kind \in {"interrupt", "steer"},
         calls' = (IF Writable THEN calls \cup {CallOf(kind, Latest)} ELSE calls)
  PROVE  RequestsAdded
<1>1. Latest \in Nat
  BY LatestExists
<1>2. CallOf(kind, Latest) \in CallRecords /\ CallOf(kind, Latest).kind = kind /\ CallOf(kind, Latest).turn = Latest
  BY <1>1, CallIs
<1> QED
  BY <1>2 DEF RequestsAdded, Typed, Writable

LEMMA NoRequest ==
  ASSUME Typed, calls' = calls
  PROVE  RequestsAdded
BY DEF RequestsAdded, Typed

\* The latest Turn is over, or there is none that is active.
LEMMA InvEnds ==
  ASSUME IInv, NEW turn \in TurnRecords,
         \/ ~LatestIs({"active"}) /\ turns' = turns
         \/ /\ LatestIs({"active"}) /\ LatestBecomes(turn)
            /\ turn.state \in {"failed", "interrupted"} /\ turn.queued = turns[Latest].queued,
         RequestsAdded, worker' = worker \/ (worker = "open" /\ worker' = "closing"),
         process' = process \/ (process = "running" /\ process' = "killed"),
         inbox' \in {inbox, <<>>}, stream' \in {stream, "error"}, inbox' = inbox \/ stream' = "error",
         faults' \in Nat, UNCHANGED <<provider, receipt, init, work, asks, steers, used>>
  PROVE  IInv'
<1>1. Typed /\ Ordered /\ CallsRight
  BY DEF IInv
<1>2. Messages' \subseteq Messages /\ inbox' \in Seq(MessageRecords)
      /\ (Dones = {} => Dones' = {})
  <2>1. CASE inbox' = inbox
    BY <2>1, <1>1 DEF Messages, Dones, Typed
  <2>2. CASE inbox' = <<>>
    <3>1. Range(<<>>) = {} /\ DOMAIN <<>> = {}
      BY DEF Range
    <3> QED
      BY <2>2, <3>1 DEF Messages, Dones
  <2> QED
    BY <2>1, <2>2
<1>3. stream' # "open" \/ (stream' = stream /\ Messages' = Messages)
  BY DEF Messages
<1>4. /\ turns' \in Seq(TurnRecords) /\ Len(turns') = Len(turns) /\ DOMAIN turns' = DOMAIN turns
      /\ (turns' = <<>> <=> turns = <<>>) /\ Latest' = Latest /\ Active' = {} /\ Ordered'
      /\ ~LatestIs({"active"})' /\ (LatestIs({"completed"})' <=> LatestIs({"completed"}))
      /\ (LatestIs({"starting"})' <=> LatestIs({"starting"}))
      /\ (LatestIs({"active", "starting"})' <=> LatestIs({"starting"}))
      /\ (LatestIs({"starting", "active"})' <=> LatestIs({"starting"}))
      /\ \A t \in DOMAIN turns : turns'[t].queued = turns[t].queued
      /\ LatestIs({"starting"}) => turns'[Latest] = turns[Latest]
  <2>1. worker' = "opening" => worker = "opening"
    OBVIOUS
  <2>2. CASE ~LatestIs({"active"}) /\ turns' = turns
    <3>1. Active = {}
      BY <2>2, <1>1, LatestIsActive
    <3>2. Latest' = Latest /\ Active' = Active /\ \A states : LatestIs(states)' = LatestIs(states)
      BY <2>2 DEF Latest, Active, LatestIs
    <3>3. Ordered'
      BY <1>1, <2>1, <2>2, <3>2 DEF Ordered
    <3>4. LatestIs({"starting", "active"}) <=> LatestIs({"starting"})
      BY <2>2 DEF LatestIs
    <3>5. LatestIs({"active", "starting"}) <=> LatestIs({"starting"})
      BY <2>2 DEF LatestIs
    <3> QED
      BY <1>1, <2>2, <3>1, <3>2, <3>3, <3>4, <3>5 DEF Typed
  <2>3. CASE LatestIs({"active"}) /\ LatestBecomes(turn) /\ turn.state \in {"failed", "interrupted"}
             /\ turn.queued = turns[Latest].queued
    <3>1. /\ turns' \in Seq(TurnRecords) /\ turns' # <<>> /\ Len(turns') = Len(turns)
          /\ DOMAIN turns' = DOMAIN turns /\ Latest' = Latest
          /\ turns'[Latest] = turn /\ \A t \in DOMAIN turns \ {Latest} : turns'[t] = turns[t]
          /\ \A states : LatestIs(states)' <=> turn.state \in states
          /\ Active' = {} /\ Ordered'
      BY <1>1, <2>1, <2>3, LatestTurns
    <3>2. turns # <<>> /\ ~LatestIs({"starting"}) /\ ~LatestIs({"completed"})
      BY <2>3 DEF LatestIs
    <3> QED
      BY <2>3, <3>1, <3>2
  <2> QED
    BY <2>2, <2>3
<1>5. Typed'
  BY <1>1, <1>2, <1>4 DEF Typed, RequestsAdded
<1>6. CallsRight'
  <2>1. \A c \in calls' : StartsTurn(c) \/ c.kind = "initialize" => c \in calls
    BY DEF RequestsAdded, StartsTurn
  <2>2. \A c \in calls' : c.turn <= Len(turns)
    BY <1>1 DEF RequestsAdded, CallsRight, Latest, Typed
  <2>3. \A c \in calls : c.kind = "initialize" => worker' = "opening" /\ calls' = calls
    BY <1>1, LatestExists DEF CallsRight, RequestsAdded, Ordered
  <2> QED
    BY <1>1, <1>4, <2>1, <2>2, <2>3 DEF CallsRight, Codex, RequestsAdded
<1>7. StallWatches' /\ AsksRight'
  BY <1>2, <1>3, <1>4 DEF StallWatches, AsksRight, IInv, Codex, LatestIs
<1>8. WorkRight' /\ ClaudeRight' /\ EndRight'
  BY <1>2, <1>4 DEF WorkRight, ClaudeRight, EndRight, IInv, Codex, LatestIs
<1>9. CodexRight'
  BY <1>2, <1>4 DEF CodexRight, IInv, Codex, RequestsAdded
<1> QED
  BY <1>4, <1>5, <1>6, <1>7, <1>8, <1>9 DEF IInv

LEMMA FinishedTurns ==
  ASSUME Typed, Ordered, NEW outcome \in {"failed", "interrupted"},
         NEW error \in {None, "exited", "timed_out", "stalled", "protocol", "init"},
         turns' = [t \in DOMAIN turns |-> Finished(turns[t], outcome, error)]
  PROVE  \E turn \in TurnRecords :
           \/ ~LatestIs({"active"}) /\ turns' = turns
           \/ /\ LatestIs({"active"}) /\ LatestBecomes(turn)
              /\ turn.state \in {"failed", "interrupted"} /\ turn.queued = turns[Latest].queued
<1>1. turns \in Seq(TurnRecords) /\ \A t \in DOMAIN turns : turns[t] \in TurnRecords
  BY DEF Typed
<1>2. \A t \in DOMAIN turns \ Active : Finished(turns[t], outcome, error) = turns[t]
  BY DEF Finished, Active
<1>3. CASE ~LatestIs({"active"})
  <2>1. Active = {}
    BY <1>3, LatestIsActive
  <2>2. turns' = turns
    BY <1>1, <1>2, <2>1
  <2>3. NewTurn("failed") \in TurnRecords
    BY NewTurnIs DEF States
  <2> QED
    BY <1>3, <2>2, <2>3
<1>4. CASE LatestIs({"active"})
  <2> DEFINE turn == Finished(turns[Latest], outcome, error)
  <2>1. Active = {Latest} /\ turns # <<>> /\ Latest \in DOMAIN turns /\ turns[Latest].state = "active"
    BY <1>4, LatestIsActive, LatestExists DEF LatestIs
  <2>2. turn \in TurnRecords
    BY <1>1, <2>1, TurnRecordsKept
  <2>3. turn.state = outcome /\ turn.queued = turns[Latest].queued
    BY <1>1, <2>1, FinishedIs
  <2>4. turns' = [turns EXCEPT ![Latest] = turn]
    BY <1>1, <1>2, <2>1
  <2> QED
    BY <1>4, <2>1, <2>2, <2>3, <2>4 DEF LatestBecomes
<1> QED
  BY <1>3, <1>4

LEMMA InvGarble ==
  ASSUME IInv, Garble
  PROVE  IInv'
<1> USE DEF Garble
<1>1. Typed /\ Ordered
  BY DEF IInv
<1>2. PICK turn \in TurnRecords :
        \/ ~LatestIs({"active"}) /\ turns' = turns
        \/ /\ LatestIs({"active"}) /\ LatestBecomes(turn)
           /\ turn.state \in {"failed", "interrupted"} /\ turn.queued = turns[Latest].queued
  BY <1>1, FinishedTurns
<1>3. RequestsAdded /\ faults' \in Nat
  BY <1>1, NoRequest DEF Typed
<1> QED
  BY <1>2, <1>3, InvEnds

LEMMA InvCloseClaude ==
  ASSUME IInv, CloseClaude
  PROVE  IInv'
<1> USE DEF CloseClaude, outside, bounds
<1>1. Typed /\ Ordered
  BY DEF IInv
<1>2. PICK turn \in TurnRecords :
        \/ ~LatestIs({"active"}) /\ turns' = turns
        \/ /\ LatestIs({"active"}) /\ LatestBecomes(turn)
           /\ turn.state \in {"failed", "interrupted"} /\ turn.queued = turns[Latest].queued
  BY <1>1, FinishedTurns
<1>3. RequestsAdded /\ faults' \in Nat
  BY <1>1, NoRequest DEF Typed
<1> QED
  BY <1>2, <1>3, InvEnds

\* A timer, or the pump of a Turn, finds that the Turn has failed.
LEMMA InvFails ==
  ASSUME IInv, NEW t \in Active,
         NEW error \in {None, "timed_out", "stalled", "protocol"},
         turns' = [turns EXCEPT ![t] = Finished(@, "failed", error)],
         calls' = calls \/ calls' = (IF Writable THEN calls \cup {CallOf("interrupt", t)} ELSE calls),
         UNCHANGED <<provider, receipt, worker, inbox, init, stream, outside, bounds>>
  PROVE  IInv'
<1> USE DEF outside, bounds
<1> DEFINE turn == Finished(turns[Latest], "failed", error)
<1>1. Typed /\ Ordered
  BY DEF IInv
<1>2. t = Latest /\ turns # <<>> /\ LatestIs({"active"}) /\ turns[Latest].state = "active"
      /\ turns[Latest] \in TurnRecords
  BY <1>1, ActiveIsLatest, LatestExists DEF LatestIs
<1>3. turn \in TurnRecords /\ turn.state = "failed" /\ turn.queued = turns[Latest].queued
  <2>1. turn \in TurnRecords
    BY <1>2, TurnRecordsKept
  <2>2. turn.state = "failed" /\ turn.queued = turns[Latest].queued
    BY <1>2, FinishedIs
  <2> QED
    BY <2>1, <2>2
<1>4. LatestBecomes(turn)
  BY <1>2 DEF LatestBecomes
<1>5. RequestsAdded
  BY <1>1, <1>2, NoRequest, RequestAdded
<1>6. faults' \in Nat
  BY <1>1 DEF Typed
<1> HIDE DEF turn
<1> QED
  BY <1>2, <1>3, <1>4, <1>5, <1>6, InvEnds

LEMMA InvTimer ==
  ASSUME IInv, NEW t \in DOMAIN turns, TurnTimeout(t) \/ Stall(t) \/ PumpFails(t)
  PROVE  IInv'
BY InvFails DEF TurnTimeout, Stall, PumpFails, TimedOut

-----------------------------------------------------------------------------
(* Starting a Turn *)

LEMMA MessageTurns ==
  ASSUME Typed, NEW m \in Messages, m.kind # "init"
  PROVE  m.turn \in Nat
<1>1. m \in MessageRecords
  BY RangeIs DEF Typed, Messages
<1> QED
  BY <1>1 DEF MessageRecords

LEMMA MayStartIs ==
  ASSUME IInv, MayStart
  PROVE  /\ turns = <<>> \/ LatestIs({"completed"})
         /\ work = <<>> /\ asks = {} /\ worker = "open" /\ Active = {}
         /\ \A c \in calls : ~StartsTurn(c) /\ c.kind # "initialize" /\ c.turn <= Len(turns)
         /\ Latest = Len(turns) /\ Len(turns) \in Nat
<1>1. Typed /\ Ordered
  BY DEF IInv
<1>2. turns = <<>> \/ LatestIs({"completed"})
  BY <1>1, LatestExists DEF MayStart, LatestIs
<1>3. work = <<>>
  <2>1. CASE turns = <<>>
    <3>1. Range(work) = {}
      BY <2>1 DEF IInv, WorkRight
    <3> QED
      BY <3>1, <1>1, RangeIs DEF Typed
  <2>2. CASE LatestIs({"completed"})
    BY <2>2 DEF IInv, WorkRight
  <2> QED
    BY <2>1, <2>2, <1>2
<1>4. asks = {}
  BY <1>3 DEF IInv, AsksRight
<1>5. ~LatestIs({"starting"}) /\ ~LatestIs({"active"})
  BY <1>2 DEF LatestIs
<1>6. Active = {}
  BY <1>1, <1>5, LatestIsActive
<1>7. \A c \in calls : ~StartsTurn(c) /\ c.kind # "initialize" /\ c.turn <= Len(turns)
  BY <1>5 DEF IInv, CallsRight, MayStart
<1>8. Latest = Len(turns) /\ Len(turns) \in Nat
  BY <1>1 DEF Typed, Latest
<1> QED
  BY <1>2, <1>3, <1>4, <1>6, <1>7, <1>8 DEF MayStart

LEMMA InvStartCodexTurn ==
  ASSUME IInv, StartCodexTurn
  PROVE  IInv'
<1> USE DEF StartCodexTurn, outside, bounds
<1> DEFINE state == IF Writable THEN "starting" ELSE "refused"
           turn == NewTurn(state)
           request == CallOf(IF init THEN "turn" ELSE "thread", Len(turns) + 1)
<1>1. Typed /\ Ordered /\ Codex
  BY DEF IInv
<1>2. /\ turns = <<>> \/ LatestIs({"completed"})
      /\ work = <<>> /\ asks = {} /\ worker = "open" /\ Active = {}
      /\ \A c \in calls : ~StartsTurn(c) /\ c.kind # "initialize" /\ c.turn <= Len(turns)
      /\ Latest = Len(turns) /\ Len(turns) \in Nat
  BY MayStartIs
<1>3. /\ turn \in TurnRecords /\ turn.state = state /\ turn.pending = {} /\ turn.queued = 1
      /\ state \in {"starting", "refused"} /\ (state = "starting" <=> Writable)
  BY NewTurnIs DEF States
<1>4. /\ request \in CallRecords /\ request.turn = Len(turns) + 1 /\ StartsTurn(request)
      /\ request.kind \in {"thread", "turn"} /\ request.answer = None
  BY <1>2, CallIs DEF StartsTurn
<1>5. /\ turns' = Append(turns, turn) /\ calls' = (IF Writable THEN calls \cup {request} ELSE calls)
      /\ UNCHANGED <<provider, receipt, worker, inbox, init, stream, outside, bounds>>
  OBVIOUS
<1> HIDE DEF state, turn, request
<1>6. /\ turns' \in Seq(TurnRecords) /\ turns' # <<>> /\ Len(turns') = Len(turns) + 1
      /\ DOMAIN turns' = DOMAIN turns \cup {Latest + 1} /\ Latest' = Latest + 1
      /\ turns'[Latest + 1] = turn /\ \A t \in DOMAIN turns : turns'[t] = turns[t]
      /\ \A states : LatestIs(states)' <=> state \in states
      /\ Active' = {} /\ Ordered'
  BY <1>1, <1>2, <1>3, <1>5, AnotherTurn
<1>7. Messages' = Messages /\ Dones' = Dones /\ \A m \in Messages : m.kind # "init" => m.turn <= Len(turns)
  BY <1>5 DEF Messages, Dones, IInv, WorkRight
<1>8. Typed'
  <2>1. \A t \in DOMAIN turns' : turns'[t].queued \in 1..(1 + steers)
    BY <1>1, <1>3, <1>6 DEF Typed
  <2> QED
    BY <1>1, <1>4, <1>5, <1>6, <2>1 DEF Typed
<1>9. CallsRight'
  <2>1. \A c \in calls' : c.turn <= Len(turns') /\ c.kind # "initialize"
    <3>1. \A c \in calls : c.turn \in Nat
      BY <1>1 DEF Typed, CallRecords
    <3>2. \A c \in calls' : c \in calls \/ c = request
      BY <1>5
    <3> QED
      BY <1>2, <1>4, <1>6, <3>1, <3>2
  <2>2. \A c \in calls' : StartsTurn(c) => c = request /\ state = "starting"
    BY <1>2, <1>3, <1>5
  <2>3. process = "gone" => calls' = calls
    BY <1>5 DEF Writable
  <2>4. process = "gone" => calls' = {}
    BY <2>3 DEF IInv, CallsRight
  <2>5. LatestIs({"starting"})' => request \in calls'
    BY <1>3, <1>5, <1>6
  <2>6. Codex' /\ request.turn = Latest' /\ process' = process
    BY <1>1, <1>2, <1>4, <1>5, <1>6 DEF Codex
  <2>7. state = "starting" => LatestIs({"starting"})'
    BY <1>6
  <2> QED
    BY <1>4, <2>1, <2>2, <2>4, <2>5, <2>6, <2>7, Zenon DEF CallsRight, StartsTurn
<1>10. StallWatches' /\ AsksRight' /\ WorkRight'
  <2>1. StallWatches'
    BY <1>6 DEF StallWatches
  <2>2. AsksRight'
    BY <1>2, <1>3, <1>5, <1>6, <1>7 DEF AsksRight, IInv, Codex
  <2>3. Range(work) = {}
    BY <1>1, <1>2, RangeIs DEF Typed
  <2>4. \A m \in Messages : m.kind # "init" => m.turn <= Len(turns')
    BY <1>1, <1>2, <1>6, <1>7, MessageTurns
  <2>5. WorkRight'
    BY <1>2, <1>5, <1>7, <2>3, <2>4 DEF WorkRight
  <2> QED
    BY <2>1, <2>2, <2>5
<1>11. CodexRight' /\ ClaudeRight' /\ EndRight'
  <2>1. \A m \in Messages : m.kind = "done" => m.turn # Latest'
    BY <1>1, <1>2, <1>6, <1>7, MessageTurns
  <2>2. CodexRight'
    BY <1>2, <1>5, <1>7, <2>1 DEF CodexRight, IInv, Codex
  <2>3. ClaudeRight' /\ EndRight'
    BY <1>1, <1>2, <1>3, <1>5, <1>6 DEF ClaudeRight, EndRight, Codex, Writable
  <2> QED
    BY <2>2, <2>3
<1> QED
  BY <1>6, <1>8, <1>9, <1>10, <1>11 DEF IInv

LEMMA InvStartClaudeTurn ==
  ASSUME IInv, StartClaudeTurn
  PROVE  IInv'
<1> USE DEF StartClaudeTurn, outside, bounds
<1> DEFINE turn == NewTurn("active")
<1>1. Typed /\ Ordered /\ ~Codex /\ ~Codex'
  BY DEF IInv, Codex
<1>2. /\ turns = <<>> \/ LatestIs({"completed"})
      /\ work = <<>> /\ asks = {} /\ worker = "open" /\ Active = {}
      /\ \A c \in calls : ~StartsTurn(c) /\ c.kind # "initialize" /\ c.turn <= Len(turns)
      /\ Latest = Len(turns) /\ Len(turns) \in Nat
  BY MayStartIs
<1>3. /\ turn \in TurnRecords /\ turn.state = "active" /\ turn.pending = {} /\ turn.queued = 1
      /\ turn.stall
  BY NewTurnIs DEF States
<1>4. /\ turns' = Append(turns, turn) /\ work' = (IF Writable THEN Append(work, Len(turns) + 1) ELSE work)
      /\ UNCHANGED <<provider, receipt, worker, calls, inbox, init, stream, process, asks, bounds>>
  OBVIOUS
<1> HIDE DEF turn
<1>5. /\ turns' \in Seq(TurnRecords) /\ turns' # <<>> /\ Len(turns') = Len(turns) + 1
      /\ DOMAIN turns' = DOMAIN turns \cup {Latest + 1} /\ Latest' = Latest + 1
      /\ turns'[Latest + 1] = turn /\ \A t \in DOMAIN turns : turns'[t] = turns[t]
      /\ \A states : LatestIs(states)' <=> "active" \in states
      /\ Active' = {Latest + 1} /\ Ordered'
  BY <1>1, <1>2, <1>3, <1>4, AnotherTurn
<1>6. Messages' = Messages /\ Dones' = Dones /\ \A m \in Messages : m.kind # "init" => m.turn <= Len(turns)
  BY <1>4 DEF Messages, Dones, IInv, WorkRight
<1>7. /\ work' \in Seq(Nat) /\ Len(work') \in Nat /\ Len(work') <= 1
      /\ \A t \in Range(work') : t = Latest + 1
  <2>1. work \in Seq(Nat) /\ Len(work) = 0 /\ Range(work) = {} /\ Len(turns) + 1 \in Nat
    <3>1. work \in Seq(Nat) /\ Len(work) = 0 /\ Len(turns) + 1 \in Nat
      BY <1>1, <1>2 DEF Typed
    <3> QED
      BY <1>2, <3>1, RangeIs
  <2>2. CASE Writable
    <3>1. work' = Append(work, Len(turns) + 1)
      BY <1>4, <2>2
    <3>2. work' \in Seq(Nat) /\ Len(work') = 1 /\ Range(work') = {Len(turns) + 1}
      <4> DEFINE n == Len(turns) + 1
      <4>1. n \in Nat /\ work' = Append(work, n)
        BY <2>1, <3>1
      <4> HIDE DEF n
      <4>2. /\ Append(work, n) \in Seq(Nat) /\ Len(Append(work, n)) = Len(work) + 1
            /\ Range(Append(work, n)) = Range(work) \cup {n}
        BY <2>1, <4>1, WorkAppend
      <4>3. work' \in Seq(Nat) /\ Len(work') = 1 /\ Range(work') = {n}
        BY <2>1, <4>1, <4>2
      <4> QED
        BY <4>3 DEF n
    <3> QED
      BY <1>2, <3>2
  <2>3. CASE ~Writable
    BY <1>4, <2>1, <2>3
  <2> QED
    BY <2>2, <2>3
<1>8. Typed'
  <2>1. \A t \in DOMAIN turns' : turns'[t].queued \in 1..(1 + steers)
    BY <1>1, <1>3, <1>5 DEF Typed
  <2> QED
    BY <1>1, <1>4, <1>5, <1>7, <2>1 DEF Typed
<1>9. CallsRight'
  <2>1. \A c \in calls' : c.turn <= Len(turns') /\ ~StartsTurn(c) /\ c.kind # "initialize"
    BY <1>1, <1>2, <1>4, <1>5 DEF Typed, CallRecords
  <2> QED
    BY <1>4, <1>5, <2>1 DEF CallsRight, IInv
<1>10. StallWatches' /\ AsksRight' /\ WorkRight'
  <2>1. StallWatches'
    BY <1>3, <1>5 DEF StallWatches
  <2>2. AsksRight'
    BY <1>1, <1>2, <1>4, <1>5, <1>6 DEF AsksRight, IInv
  <2>3. \A m \in Messages : m.kind # "init" => m.turn <= Len(turns')
    BY <1>1, <1>2, <1>5, <1>6, MessageTurns
  <2>4. WorkRight'
    BY <1>5, <1>6, <1>7, <2>3 DEF WorkRight
  <2> QED
    BY <2>1, <2>2, <2>4
<1>11. ClaudeRight'
  <2>1. Dones = {}
    BY <1>1, <1>2 DEF IInv, ClaudeRight
  <2>2. Cardinality(Dones) = 0
    BY <2>1, FS_EmptySet
  <2>3. turns'[Latest'].queued = 1
    BY <1>3, <1>5
  <2>4. Len(work') + Cardinality(Dones') <= 1
    <3>1. Cardinality(Dones') = 0
      BY <1>6, <2>2, Zenon
    <3>2. \A n : n = 0 => Len(work') + n <= 1
      BY <1>7
    <3> QED
      BY <3>1, <3>2, Zenon
  <2>5. ~LatestIs({"completed"})' /\ turns' # <<>>
    BY <1>5
  <2> QED
    BY <2>3, <2>4, <2>5 DEF ClaudeRight
<1>12. CodexRight' /\ EndRight'
  BY <1>1, <1>2, <1>4, <1>5 DEF CodexRight, EndRight
<1> QED
  BY <1>5, <1>8, <1>9, <1>10, <1>11, <1>12 DEF IInv

-----------------------------------------------------------------------------
(* A Turn that goes on *)

\* The latest Turn stays active, and its stall timer is right.
GoesOn(turn) ==
  /\ LatestIs({"active"}) /\ LatestBecomes(turn)
  /\ turn.state = "active" /\ (turn.stall <=> turn.pending = {})
  /\ turn.queued \in 1..(1 + steers') /\ steers' \in steers..MaxSteers
  /\ RequestsAdded /\ UNCHANGED <<provider, receipt, worker, stream, faults, used>>
  /\ init' \in BOOLEAN /\ asks' \subseteq asks
  /\ process' = process \/ (process = "running" /\ process' = "killed")

LEMMA GoesOnRight ==
  ASSUME IInv, NEW turn \in TurnRecords, GoesOn(turn),
         work' \in Seq(Nat), inbox' \in Seq(MessageRecords)
  PROVE  /\ Typed' /\ Ordered' /\ CallsRight' /\ StallWatches' /\ EndRight'
         /\ Latest' = Latest /\ turns' # <<>> /\ turns # <<>> /\ turns'[Latest] = turn
         /\ Len(turns') = Len(turns)
         /\ \A states : LatestIs(states)' <=> "active" \in states
         /\ ~LatestIs({"completed"}) /\ LatestIs({"starting", "active"})
<1> USE DEF GoesOn
<1>1. Typed /\ Ordered /\ CallsRight
  BY DEF IInv
<1>2. /\ turns' \in Seq(TurnRecords) /\ turns' # <<>> /\ Len(turns') = Len(turns)
      /\ DOMAIN turns' = DOMAIN turns /\ Latest' = Latest
      /\ turns'[Latest] = turn /\ \A t \in DOMAIN turns \ {Latest} : turns'[t] = turns[t]
      /\ \A states : LatestIs(states)' <=> "active" \in states
      /\ Active' = {Latest} /\ Ordered'
  BY <1>1, LatestTurns
<1>3. turns # <<>> /\ ~LatestIs({"starting"}) /\ ~LatestIs({"completed"}) /\ LatestIs({"starting", "active"})
  BY DEF LatestIs
<1>4. \A t \in DOMAIN turns' : turns'[t].queued \in 1..(1 + steers')
  <2> TAKE t \in DOMAIN turns'
  <2>1. CASE t = Latest
    BY <1>2, <2>1
  <2>2. CASE t # Latest
    <3>1. turns'[t].queued \in 1..(1 + steers) /\ steers \in Nat
      BY <1>1, <1>2, <2>2 DEF Typed
    <3>2. steers' \in Nat /\ steers <= steers'
      BY <3>1, ExecutorBounds
    <3> QED
      BY <3>1, <3>2
  <2> QED
    BY <2>1, <2>2
<1>5. Typed'
  <2>1. steers' \in 0..MaxSteers
    BY <1>1, ExecutorBounds DEF Typed
  <2> QED
    BY <1>1, <1>2, <1>4, <2>1 DEF Typed, RequestsAdded
<1>6. CallsRight'
  <2>1. \A c \in calls' : ~StartsTurn(c) /\ c.kind # "initialize" /\ c.turn <= Len(turns)
    <3> TAKE c \in calls'
    <3>1. CASE c \in calls
      BY <1>1, <1>3, <3>1 DEF CallsRight, Ordered
    <3>2. CASE c \notin calls
      <4>1. c.kind \in {"interrupt", "steer"} /\ c.turn = Latest
        BY <3>2 DEF RequestsAdded
      <4>2. Latest = Len(turns) /\ Len(turns) \in Nat
        BY <1>1 DEF Latest, Typed
      <4> QED
        BY <4>1, <4>2 DEF StartsTurn
    <3> QED
      BY <3>1, <3>2
  <2> QED
    BY <1>1, <1>2, <2>1 DEF CallsRight, RequestsAdded
<1>7. StallWatches'
  BY <1>2 DEF StallWatches
<1>8. EndRight'
  <2>1. LatestIs({"active", "starting"})
    BY DEF LatestIs
  <2>2. EndRight
    BY DEF IInv
  <2> QED
    BY <1>2, <2>1, <2>2 DEF EndRight, Codex
<1> QED
  BY <1>2, <1>3, <1>5, <1>6, <1>7, <1>8

LEMMA InvInterrupt ==
  ASSUME IInv, NEW t \in DOMAIN turns, Interrupt(t)
  PROVE  IInv'
<1> USE DEF outside, bounds
<1> DEFINE turn == [turns[Latest] EXCEPT !.interrupted = ~Codex]
<1>1. Typed /\ Ordered
  BY DEF IInv
<1>2. t = Latest /\ turns # <<>> /\ LatestIs({"active"}) /\ Latest \in DOMAIN turns
      /\ turns[Latest] \in TurnRecords /\ turns[Latest].state = "active"
  BY <1>1, ActiveIsLatest, LatestExists DEF Interrupt, LatestIs
<1>3. turn \in TurnRecords /\ turn.state = "active" /\ turn.pending = turns[Latest].pending
      /\ turn.stall = turns[Latest].stall /\ turn.queued = turns[Latest].queued
  <2>1. (~Codex) \in BOOLEAN
    BY DEF Codex
  <2>2. turn \in TurnRecords
    BY <1>2, <2>1, TurnRecordsKept
  <2>3. /\ turn.state = turns[Latest].state /\ turn.pending = turns[Latest].pending
        /\ turn.stall = turns[Latest].stall /\ turn.queued = turns[Latest].queued
    BY <1>2 DEF TurnRecords
  <2> QED
    BY <1>2, <2>2, <2>3
<1>4. LatestBecomes(turn)
  BY <1>2 DEF Interrupt, LatestBecomes
<1> HIDE DEF turn
<1>5. RequestsAdded
  BY <1>1, <1>2, NoRequest, RequestAdded DEF Interrupt
<1>6. /\ UNCHANGED <<provider, receipt, worker, inbox, init, stream, work, asks, steers, faults, used>>
      /\ process' = process \/ (process = "running" /\ process' = "killed")
  BY DEF Interrupt, Terminated
<1>7. turn.stall <=> turn.pending = {}
  BY <1>1, <1>2, <1>3, LatestIsActive DEF IInv, StallWatches
<1>8. GoesOn(turn)
  BY <1>1, <1>2, <1>3, <1>4, <1>5, <1>6, <1>7, ExecutorBounds DEF GoesOn, Typed
<1>9. /\ Typed' /\ Ordered' /\ CallsRight' /\ StallWatches' /\ EndRight'
      /\ Latest' = Latest /\ turns' # <<>> /\ turns # <<>> /\ turns'[Latest] = turn
      /\ Len(turns') = Len(turns)
      /\ \A states : LatestIs(states)' <=> "active" \in states
      /\ ~LatestIs({"completed"}) /\ LatestIs({"starting", "active"})
  BY <1>1, <1>3, <1>6, <1>8, GoesOnRight DEF Typed
<1>10. Messages' = Messages /\ Dones' = Dones
  BY <1>6 DEF Messages, Dones
<1>11. AsksRight' /\ WorkRight' /\ ClaudeRight'
  BY <1>2, <1>3, <1>6, <1>9, <1>10 DEF AsksRight, WorkRight, ClaudeRight, IInv, Codex
<1>12. CodexRight'
  BY <1>5, <1>6, <1>9, <1>10 DEF CodexRight, IInv, Codex, RequestsAdded
<1> QED
  BY <1>9, <1>11, <1>12 DEF IInv

LEMMA InvSteer ==
  ASSUME IInv, NEW t \in DOMAIN turns, Steer(t)
  PROVE  IInv'
<1> USE DEF outside, bounds
<1> DEFINE turn == IF Codex THEN turns[Latest] ELSE Queued(turns[Latest])
<1>1. Typed /\ Ordered
  BY DEF IInv
<1>2. t = Latest /\ turns # <<>> /\ LatestIs({"active"}) /\ Latest \in DOMAIN turns /\ Latest \in Nat
      /\ turns[Latest] \in TurnRecords /\ turns[Latest].state = "active"
      /\ turns[Latest].queued \in 1..(1 + steers)
  BY <1>1, ActiveIsLatest, LatestExists DEF Steer, LatestIs, Typed
<1>3. /\ turn \in TurnRecords /\ turn.state = "active" /\ turn.pending = turns[Latest].pending
      /\ turn.stall <=> turn.pending = {}
      /\ turn.queued = IF Codex THEN turns[Latest].queued ELSE turns[Latest].queued + 1
  <2>1. CASE Codex
    BY <1>1, <1>2, <2>1, LatestIsActive DEF IInv, StallWatches
  <2>2. CASE ~Codex
    <3> DEFINE more == [turns[Latest] EXCEPT !.queued = @ + 1]
    <3>1. more.state = "active" /\ more.pending = turns[Latest].pending
          /\ more.queued = turns[Latest].queued + 1 /\ more \in TurnRecords
      <4>1. turns[Latest].queued + 1 \in Nat
        BY <1>2 DEF TurnRecords
      <4>2. more \in TurnRecords
        BY <1>2, <4>1, TurnRecordsKept
      <4>3. more.state = "active" /\ more.pending = turns[Latest].pending
            /\ more.queued = turns[Latest].queued + 1
        BY <1>2 DEF TurnRecords
      <4> QED
        BY <4>2, <4>3
    <3>2. turn = Touched(more)
      BY <2>2 DEF Queued
    <3> HIDE DEF more, turn
    <3>3. /\ Touched(more).state = more.state /\ Touched(more).pending = more.pending
          /\ Touched(more).queued = more.queued /\ (Touched(more).stall <=> more.pending = {})
      BY <3>1, TouchedIs
    <3>4. Touched(more) \in TurnRecords
      BY <3>1, TurnRecordsKept
    <3> QED
      BY <2>2, <3>1, <3>2, <3>3, <3>4
  <2> QED
    BY <2>1, <2>2
<1>4. LatestBecomes(turn)
  BY <1>1, <1>2 DEF Steer, LatestBecomes, Typed
<1> HIDE DEF turn
<1>5. RequestsAdded
  BY <1>1, <1>2, NoRequest, RequestAdded DEF Steer
<1>6. /\ UNCHANGED <<provider, receipt, worker, inbox, init, stream, process, asks, faults, used>>
      /\ steers' = steers + 1 /\ steers < MaxSteers
      /\ work' = work \/ (~Codex /\ work' = Append(work, Latest))
  BY <1>2 DEF Steer
<1>7. GoesOn(turn)
  <2>1. steers \in Nat /\ MaxSteers \in Nat
    BY <1>1, ExecutorBounds DEF Typed
  <2>2. steers' \in steers..MaxSteers
    BY <1>6, <2>1
  <2>3. turn.queued \in 1..(1 + steers')
    BY <1>2, <1>3, <1>6, <2>1
  <2>4. init' \in BOOLEAN
    BY <1>1, <1>6 DEF Typed
  <2> QED
    BY <1>2, <1>3, <1>4, <1>5, <1>6, <2>2, <2>3, <2>4 DEF GoesOn
<1>8. /\ work' \in Seq(Nat) /\ (asks # {} => work' # <<>>)
      /\ \A n \in Range(work') : n = Latest
      /\ Len(work') \in Nat /\ Len(work) \in Nat /\ Len(work') <= Len(work) + 1
  <2>1. CASE work' = work
    BY <1>1, <2>1 DEF Typed, IInv, AsksRight, WorkRight
  <2>2. CASE work' = Append(work, Latest)
    <3>1. work \in Seq(Nat) /\ \A n \in Range(work) : n = Latest
      BY <1>1 DEF Typed, IInv, WorkRight
    <3>2. work' \in Seq(Nat) /\ Len(work') = Len(work) + 1 /\ Range(work') = Range(work) \cup {Latest}
      BY <1>2, <2>2, <3>1, WorkAppend
    <3>3. Len(work) \in Nat
      BY <3>1
    <3>4. work' # <<>>
      BY <3>2, <3>3
    <3> QED
      BY <3>1, <3>2, <3>3, <3>4
  <2> QED
    BY <1>6, <2>1, <2>2
<1>9. /\ Typed' /\ Ordered' /\ CallsRight' /\ StallWatches' /\ EndRight'
      /\ Latest' = Latest /\ turns' # <<>> /\ turns # <<>> /\ turns'[Latest] = turn
      /\ Len(turns') = Len(turns)
      /\ \A states : LatestIs(states)' <=> "active" \in states
      /\ ~LatestIs({"completed"}) /\ LatestIs({"starting", "active"})
  <2>1. inbox' \in Seq(MessageRecords)
    BY <1>1, <1>6 DEF Typed
  <2> QED
    BY <1>3, <1>7, <1>8, <2>1, GoesOnRight
<1>10. Messages' = Messages /\ Dones' = Dones
  BY <1>6 DEF Messages, Dones
<1>11. AsksRight'
  <2>1. asks # {} => work # <<>>
    BY DEF IInv, AsksRight
  <2> QED
    BY <1>3, <1>6, <1>8, <1>9, <1>10, <2>1 DEF AsksRight, IInv, Codex
<1>12. WorkRight'
  BY <1>6, <1>8, <1>9, <1>10 DEF WorkRight, IInv
<1>13. ClaudeRight'
  <2>1. CASE Codex
    BY <2>1, <1>6 DEF ClaudeRight, Codex
  <2>2. CASE ~Codex
    <3>1. Len(work) + Cardinality(Dones) <= turns[Latest].queued
      BY <1>2, <2>2 DEF IInv, ClaudeRight
    <3>2. Cardinality(Dones) \in Nat
      <4>1. inbox \in Seq(MessageRecords)
        BY <1>1 DEF Typed
      <4>2. IsFiniteSet(1..Len(inbox)) /\ Dones \subseteq 1..Len(inbox)
        BY <4>1, FS_Interval DEF Dones
      <4> QED
        BY <4>2, FS_Subset, FS_CardinalityType
    <3>3. turns[Latest].queued \in Nat /\ turn.queued = turns[Latest].queued + 1
      BY <1>2, <1>3, <2>2 DEF TurnRecords
    <3>4. Len(work') + Cardinality(Dones) <= turn.queued
      <4>1. Len(work') <= Len(work) + 1 /\ Len(work') \in Nat /\ Len(work) \in Nat
        BY <1>8
      <4>2. \A n, k, l, q \in Nat : n + k <= q /\ l <= n + 1 => l + k <= q + 1
        OBVIOUS
      <4> QED
        BY <3>1, <3>2, <3>3, <4>1, <4>2
    <3>5. Len(work') + Cardinality(Dones') <= turns'[Latest'].queued
      BY <1>9, <1>10, <3>4
    <3> QED
      BY <1>9, <3>5 DEF ClaudeRight
  <2> QED
    BY <2>1, <2>2
<1>14. CodexRight'
  BY <1>5, <1>6, <1>9, <1>10 DEF CodexRight, IInv, Codex, RequestsAdded
<1> QED
  BY <1>9, <1>11, <1>12, <1>13, <1>14 DEF IInv

LEMMA InvRespond ==
  ASSUME IInv, NEW t \in DOMAIN turns, NEW ref \in Refs, Respond(t, ref)
  PROVE  IInv'
<1> USE DEF outside, bounds
<1> DEFINE turn == Responded(turns[Latest], ref)
<1>1. Typed /\ Ordered
  BY DEF IInv
<1>2. t = Latest /\ turns # <<>> /\ LatestIs({"active"}) /\ Latest \in DOMAIN turns
      /\ turns[Latest] \in TurnRecords /\ turns[Latest].state = "active"
      /\ turns[Latest].queued \in 1..(1 + steers)
  BY <1>1, ActiveIsLatest, LatestExists DEF Respond, LatestIs, Typed
<1>3. /\ turn \in TurnRecords /\ turn.state = "active" /\ turn.pending = turns[Latest].pending \ {ref}
      /\ turn.stall <=> turn.pending = {}
      /\ turn.queued = turns[Latest].queued
  <2> DEFINE less == [turns[Latest] EXCEPT !.pending = @ \ {ref}]
  <2>1. less.state = "active" /\ less.pending = turns[Latest].pending \ {ref}
        /\ less.queued = turns[Latest].queued /\ less \in TurnRecords
    BY <1>2 DEF TurnRecords
  <2>2. turn = Touched(less)
    BY DEF Responded
  <2> HIDE DEF less, turn
  <2>3. /\ Touched(less).state = less.state /\ Touched(less).pending = less.pending
        /\ Touched(less).queued = less.queued /\ (Touched(less).stall <=> less.pending = {})
    BY <2>1, TouchedIs
  <2>4. Touched(less) \in TurnRecords
    BY <2>1, TurnRecordsKept
  <2> QED
    BY <2>1, <2>2, <2>3, <2>4
<1>4. LatestBecomes(turn)
  BY <1>2 DEF Respond, LatestBecomes
<1> HIDE DEF turn
<1>5. RequestsAdded
  BY <1>1, NoRequest DEF Respond
<1>6. /\ UNCHANGED <<provider, receipt, worker, calls, inbox, init, stream, process, work, steers, faults, used>>
      /\ asks' = asks \ {ref}
  BY DEF Respond
<1>7. GoesOn(turn)
  BY <1>1, <1>2, <1>3, <1>4, <1>5, <1>6, ExecutorBounds DEF GoesOn, Typed
<1>8. /\ Typed' /\ Ordered' /\ CallsRight' /\ StallWatches' /\ EndRight'
      /\ Latest' = Latest /\ turns' # <<>> /\ turns # <<>> /\ turns'[Latest] = turn
      /\ Len(turns') = Len(turns)
      /\ \A states : LatestIs(states)' <=> "active" \in states
      /\ ~LatestIs({"completed"}) /\ LatestIs({"starting", "active"})
  BY <1>1, <1>3, <1>6, <1>7, GoesOnRight DEF Typed
<1>9. Messages' = Messages /\ Dones' = Dones
  BY <1>6 DEF Messages, Dones
<1>10. AsksRight'
  BY <1>3, <1>6, <1>8, <1>9 DEF AsksRight, IInv, Codex
<1>11. WorkRight' /\ ClaudeRight' /\ CodexRight'
  BY <1>2, <1>3, <1>6, <1>8, <1>9 DEF WorkRight, ClaudeRight, CodexRight, IInv, Codex
<1> QED
  BY <1>8, <1>10, <1>11 DEF IInv

-----------------------------------------------------------------------------
(* The process answers *)

\* A request is replaced by the same request with its answer.
LEMMA HandledCalls ==
  ASSUME IInv, NEW c \in calls, NEW answer \in {"ok", "error"},
         calls' = (calls \ {c}) \cup {[c EXCEPT !.answer = answer]},
         UNCHANGED <<provider, worker, turns, process>>
  PROVE  /\ CallsRight' /\ calls' \subseteq CallRecords
         /\ \A d \in calls' : d \in calls \ {c} \/ (d.kind = c.kind /\ d.answer # None)
<1> DEFINE answered == [c EXCEPT !.answer = answer]
<1>1. Typed /\ CallsRight
  BY DEF IInv
<1>2. c \in CallRecords
  BY <1>1 DEF Typed
<1>3. answered \in CallRecords /\ answered.kind = c.kind /\ answered.turn = c.turn /\ answered.answer # None
  BY <1>2, ExecutorNone DEF CallRecords
<1>4. StartsTurn(answered) <=> StartsTurn(c)
  BY <1>3 DEF StartsTurn
<1>5. calls' = (calls \ {c}) \cup {answered}
  OBVIOUS
<1> HIDE DEF answered
<1>6. Latest' = Latest /\ \A states : LatestIs(states)' = LatestIs(states)
  BY DEF Latest, LatestIs
<1>7. CallsRight'
  <2>1. \A d \in calls' :
          /\ d.turn <= Len(turns)
          /\ StartsTurn(d) => Codex /\ d.turn = Latest /\ LatestIs({"starting"})
          /\ d.kind = "initialize" => Codex /\ worker = "opening" /\ calls' = {d}
    BY <1>1, <1>3, <1>4, <1>5 DEF CallsRight
  <2>2. \A d, e \in calls' : StartsTurn(d) /\ StartsTurn(e) => d = e
    BY <1>1, <1>4, <1>5 DEF CallsRight
  <2>3. LatestIs({"starting"}) => \E d \in calls' : StartsTurn(d)
    BY <1>1, <1>4, <1>5 DEF CallsRight
  <2>4. process # "gone"
    BY <1>1 DEF CallsRight
  <2> QED
    BY <1>6, <2>1, <2>2, <2>3, <2>4 DEF CallsRight, Codex
<1>8. calls' \subseteq CallRecords
  BY <1>1, <1>3, <1>5 DEF Typed
<1> QED
  BY <1>3, <1>5, <1>7, <1>8

LEMMA InvHandle ==
  ASSUME IInv, NEW c \in calls, Handle(c)
  PROVE  IInv'
<1> USE DEF outside, bounds
<1>1. Typed /\ Ordered /\ CallsRight
  BY DEF IInv
<1>2. /\ process = "running" /\ c.answer = None
      /\ UNCHANGED <<provider, receipt, worker, turns, init, stream, process, steers, used>>
  BY DEF Handle
<1>3. /\ Ordered' /\ Latest' = Latest /\ Active' = Active /\ StallWatches'
      /\ \A states : LatestIs(states)' = LatestIs(states)
  BY <1>1, <1>2, SameTurns DEF IInv
<1>4. PICK answer \in {"ok", "error"} : calls' = (calls \ {c}) \cup {[c EXCEPT !.answer = answer]}
  BY DEF Handle
<1>5. /\ CallsRight' /\ calls' \subseteq CallRecords
      /\ \A d \in calls' : d \in calls \ {c} \/ (d.kind = c.kind /\ d.answer # None)
  BY <1>2, <1>4, HandledCalls
<1>6. EndRight'
  BY <1>2, <1>3 DEF EndRight, IInv, Codex
<1>7. faults' \in Nat
  BY <1>1 DEF Handle, Typed
<1> DEFINE ends == c.kind = "interrupt" /\ c.turn \in Range(work)
<1>8. \/ UNCHANGED <<work, asks, inbox>>
      \/ c.kind = "turn" /\ work' = Append(work, c.turn) /\ UNCHANGED <<asks, inbox>>
      \/ /\ ends /\ work' = <<>> /\ asks' = {}
         /\ inbox' = Append(inbox, [kind |-> "done", turn |-> c.turn, status |-> "interrupted"])
  <2>1. CASE UNCHANGED <<work, asks, inbox>>
    BY <2>1
  <2>2. ASSUME ~UNCHANGED <<work, asks, inbox>>
        PROVE  /\ work' = IF c.kind = "turn" THEN Append(work, c.turn) ELSE IF ends THEN <<>> ELSE work
               /\ asks' = IF ends THEN {} ELSE asks
               /\ inbox' = IF ends THEN Append(inbox, [kind |-> "done", turn |-> c.turn, status |-> "interrupted"])
                                   ELSE inbox
    BY <2>2 DEF Handle
  <2> QED
    BY <2>1, <2>2
<1>9. CASE UNCHANGED <<work, asks, inbox>>
  <2>1. Messages' = Messages /\ Dones' = Dones
    BY <1>9 DEF Messages, Dones
  <2>2. Typed'
    BY <1>1, <1>2, <1>5, <1>7, <1>9 DEF Typed
  <2>3. AsksRight' /\ WorkRight' /\ ClaudeRight'
    BY <1>2, <1>3, <1>9, <2>1 DEF AsksRight, WorkRight, ClaudeRight, IInv, Codex
  <2>4. CodexRight'
    <3>1. \A d \in calls' : d.kind = "thread" \/ (d.kind = "turn" /\ d.answer = None) =>
            \E e \in calls : e.kind = "thread" \/ (e.kind = "turn" /\ e.answer = None)
      BY <1>2, <1>5
    <3> QED
      BY <1>2, <1>3, <1>9, <2>1, <3>1 DEF CodexRight, IInv, Codex
  <2> QED
    BY <1>3, <1>5, <1>6, <2>2, <2>3, <2>4 DEF IInv
<1>10. CASE c.kind = "turn" /\ work' = Append(work, c.turn) /\ UNCHANGED <<asks, inbox>>
  <2>1. Messages' = Messages /\ Dones' = Dones
    BY <1>10 DEF Messages, Dones
  <2>2. StartsTurn(c) /\ Codex /\ c.turn = Latest /\ LatestIs({"starting"}) /\ turns # <<>>
    BY <1>1, <1>10 DEF StartsTurn, CallsRight, LatestIs
  <2>3. work = <<>> /\ \A m \in Messages : m.kind = "done" => m.turn # Latest
    BY <1>2, <1>10, <2>2 DEF IInv, CodexRight
  <2>4. work' \in Seq(Nat) /\ Len(work') = 1 /\ Range(work') = {Latest} /\ work' # <<>>
    <3>1. work \in Seq(Nat) /\ Len(work) = 0 /\ Latest \in Nat
      BY <1>1, <2>2, <2>3, LatestExists DEF Typed
    <3>2. Range(work) = {}
      BY <2>3, <3>1, RangeIs
    <3>3. work' \in Seq(Nat) /\ Len(work') = 1 /\ Range(work') = {Latest}
      <4>1. work' = Append(work, Latest)
        BY <1>10, <2>2
      <4>2. /\ Append(work, Latest) \in Seq(Nat) /\ Len(Append(work, Latest)) = Len(work) + 1
            /\ Range(Append(work, Latest)) = Range(work) \cup {Latest}
        BY <3>1, WorkAppend
      <4> QED
        BY <3>1, <3>2, <4>1, <4>2
    <3> QED
      BY <3>3
  <2>5. asks = {}
    BY <2>3 DEF IInv, AsksRight
  <2>6. Typed'
    BY <1>1, <1>2, <1>5, <1>7, <1>10, <2>4 DEF Typed
  <2>7. AsksRight' /\ WorkRight' /\ ClaudeRight'
    <3>1. ~LatestIs({"completed"})
      BY <2>2 DEF LatestIs
    <3> QED
      BY <1>2, <1>3, <1>10, <2>1, <2>2, <2>4, <2>5, <3>1 DEF AsksRight, WorkRight, ClaudeRight, IInv, Codex
  <2>8. CodexRight'
    <3>1. \A d \in calls' : ~(d.kind = "thread" \/ (d.kind = "turn" /\ d.answer = None))
      BY <1>1, <1>5, <1>10, <2>2 DEF CallsRight, StartsTurn
    <3> QED
      BY <1>2, <1>3, <2>1, <2>3, <2>4, <3>1 DEF CodexRight, IInv, Codex
  <2> QED
    BY <1>3, <1>5, <1>6, <2>6, <2>7, <2>8 DEF IInv
<1>11. CASE /\ ends /\ work' = <<>> /\ asks' = {}
            /\ inbox' = Append(inbox, [kind |-> "done", turn |-> c.turn, status |-> "interrupted"])
  <2> DEFINE message == [kind |-> "done", turn |-> c.turn, status |-> "interrupted"]
  <2>1. c.turn = Latest /\ turns # <<>> /\ Latest \in Nat /\ work # <<>>
    <3>1. c.turn = Latest /\ turns # <<>>
      BY <1>11 DEF IInv, WorkRight
    <3>2. work # <<>>
      BY <1>1, <1>11, RangeIs DEF Typed
    <3> QED
      BY <1>1, <3>1, <3>2, LatestExists
  <2>2. message \in MessageRecords /\ message.kind = "done" /\ message.turn = Latest
    BY <2>1 DEF MessageRecords
  <2>3. inbox' = Append(inbox, message)
    BY <1>11
  <2> HIDE DEF message
  <2>4. inbox' \in Seq(MessageRecords) /\ Messages' = Messages \cup {message}
        /\ Cardinality(Dones) \in Nat /\ Cardinality(Dones') = Cardinality(Dones) + 1
    BY <1>1, <2>2, <2>3, InboxAppend
  <2>5. work' \in Seq(Nat) /\ Len(work') = 0 /\ Range(work') = {} /\ Len(work) \in Nat /\ Len(work) >= 1
    <3>1. work' \in Seq(Nat) /\ Len(work') = 0 /\ Len(work) \in Nat /\ Len(work) >= 1
      BY <1>1, <1>11, <2>1 DEF Typed
    <3> QED
      BY <1>11, <3>1, RangeIs
  <2>6. Typed'
    BY <1>1, <1>2, <1>5, <1>7, <1>11, <2>4, <2>5 DEF Typed
  <2>7. AsksRight'
    BY <1>2, <1>3, <1>11, <2>2, <2>4 DEF AsksRight, IInv, Codex
  <2>8. WorkRight'
    <3>1. Latest <= Len(turns)
      BY <2>1, <1>1 DEF Latest, Typed
    <3> QED
      BY <1>2, <1>3, <1>11, <2>2, <2>4, <2>5, <3>1 DEF WorkRight, IInv
  <2>9. CodexRight'
    <3>1. \A d \in calls' : Codex => ~(d.kind = "thread" \/ (d.kind = "turn" /\ d.answer = None))
      BY <1>5, <1>11, <2>1 DEF CodexRight, IInv
    <3> QED
      BY <1>2, <1>3, <1>11, <2>2, <2>4, <2>5, <3>1 DEF CodexRight, IInv, Codex
  <2>10. ClaudeRight'
    <3>1. ~LatestIs({"completed"}) /\ turns # <<>>
      BY <2>1 DEF IInv, WorkRight
    <3>2. ASSUME ~Codex, LatestIs({"active"}) PROVE Len(work') + Cardinality(Dones') <= turns[Latest].queued
      <4>1. Len(work) + Cardinality(Dones) <= turns[Latest].queued
        BY <3>2 DEF IInv, ClaudeRight
      <4>2. turns[Latest].queued \in Nat
        BY <1>1, <2>1, LatestExists DEF TurnRecords
      <4> QED
        BY <2>4, <2>5, <4>1, <4>2
    <3> QED
      BY <1>2, <1>3, <3>1, <3>2 DEF ClaudeRight, Codex
  <2> QED
    BY <1>3, <1>5, <1>6, <2>6, <2>7, <2>8, <2>9, <2>10 DEF IInv
<1> QED
  BY <1>8, <1>9, <1>10, <1>11

-----------------------------------------------------------------------------
(* The process ends *)

LEMMA ExitTurns ==
  ASSUME IInv, Exit
  PROVE  /\ turns' \in Seq(TurnRecords) /\ Len(turns') = Len(turns) /\ DOMAIN turns' = DOMAIN turns
         /\ (turns' = <<>> <=> turns = <<>>) /\ Latest' = Latest /\ Ordered'
         /\ ~LatestIs({"active"})' /\ ~LatestIs({"starting"})'
         /\ (LatestIs({"completed"})' <=> LatestIs({"completed"}))
         /\ \A t \in DOMAIN turns : turns'[t].queued = turns[t].queued
<1> DEFINE after(t) == IF turns[t].state = "starting" THEN [turns[t] EXCEPT !.state = "refused"]
                       ELSE ExitFinished(turns[t])
<1>1. Typed /\ Ordered
  BY DEF IInv
<1>2. turns' = [t \in DOMAIN turns |-> after(t)]
  BY DEF Exit
<1>3. ASSUME NEW t \in DOMAIN turns
      PROVE  /\ after(t) \in TurnRecords /\ after(t).queued = turns[t].queued
             /\ after(t).state \notin {"active", "starting"}
             /\ (after(t).state = "completed" <=> turns[t].state = "completed")
  <2>1. turns[t] \in TurnRecords
    BY <1>1 DEF Typed
  <2>2. CASE turns[t].state = "starting"
    <3>1. [turns[t] EXCEPT !.state = "refused"] \in TurnRecords
      BY <2>1, TurnRecordsKept DEF States
    <3>2. [turns[t] EXCEPT !.state = "refused"].state = "refused"
          /\ [turns[t] EXCEPT !.state = "refused"].queued = turns[t].queued
      BY <2>1 DEF TurnRecords
    <3> QED
      BY <2>2, <3>1, <3>2
  <2>3. CASE turns[t].state # "starting"
    <3>1. PICK outcome \in {"interrupted", "failed"}, error \in {None, "exited"} :
            ExitFinished(turns[t]) = Finished(turns[t], outcome, error)
      BY DEF ExitFinished
    <3>2. Finished(turns[t], outcome, error) \in TurnRecords
      BY <2>1, TurnRecordsKept
    <3>3. /\ Finished(turns[t], outcome, error).state = IF turns[t].state = "active" THEN outcome ELSE turns[t].state
          /\ Finished(turns[t], outcome, error).queued = turns[t].queued
      BY <2>1, FinishedIs
    <3> QED
      BY <2>3, <3>1, <3>2, <3>3
  <2> QED
    BY <2>2, <2>3
<1> HIDE DEF after
<1>4. turns \in Seq(TurnRecords) /\ DOMAIN turns = 1..Len(turns) /\ Len(turns) \in Nat
  BY <1>1 DEF Typed
<1>5. turns' \in [1..Len(turns) -> TurnRecords] /\ \A t \in DOMAIN turns : turns'[t] = after(t)
  BY <1>2, <1>3, <1>4
<1>6. turns' \in Seq(TurnRecords) /\ Len(turns') = Len(turns) /\ DOMAIN turns' = DOMAIN turns
  BY <1>4, <1>5
<1>7. (turns' = <<>> <=> turns = <<>>) /\ Latest' = Latest
  BY <1>4, <1>6 DEF Latest
<1>8. turns # <<>> => Latest \in DOMAIN turns
  BY <1>1, LatestExists
<1>9. /\ ~LatestIs({"active"})' /\ ~LatestIs({"starting"})'
      /\ (LatestIs({"completed"})' <=> LatestIs({"completed"}))
  BY <1>3, <1>5, <1>7, <1>8 DEF LatestIs
<1>10. Ordered'
  <2>1. worker' = "opening" => turns = <<>>
    BY <1>1 DEF Exit, Ordered
  <2> QED
    BY <1>1, <1>3, <1>5, <1>6, <1>7, <2>1 DEF Ordered
<1> QED
  BY <1>3, <1>5, <1>6, <1>7, <1>9, <1>10

LEMMA InvExit ==
  ASSUME IInv, Exit
  PROVE  IInv'
<1> USE DEF bounds
<1>1. Typed
  BY DEF IInv
<1>2. /\ turns' \in Seq(TurnRecords) /\ Len(turns') = Len(turns) /\ DOMAIN turns' = DOMAIN turns
      /\ (turns' = <<>> <=> turns = <<>>) /\ Latest' = Latest /\ Ordered'
      /\ ~LatestIs({"active"})' /\ ~LatestIs({"starting"})'
      /\ (LatestIs({"completed"})' <=> LatestIs({"completed"}))
      /\ \A t \in DOMAIN turns : turns'[t].queued = turns[t].queued
  BY ExitTurns
<1>3. ~LatestIs({"active", "starting"})' /\ ~LatestIs({"starting", "active"})'
  BY <1>2 DEF LatestIs
<1>4. /\ process' = "gone" /\ process # "gone" /\ work' = <<>> /\ asks' = {} /\ calls' = {}
      /\ stream' \in {stream, "closed"} /\ worker' \in {worker, "closing"}
      /\ UNCHANGED <<provider, receipt, inbox, init, steers, faults, used>>
  BY DEF Exit, StreamEnded
<1>5. Messages' = Messages /\ Dones' = Dones
  BY <1>4 DEF Messages, Dones
<1>6. Typed'
  BY <1>1, <1>2, <1>4 DEF Typed
<1>7. Active' = {}
  <2>1. \A t \in DOMAIN turns' : turns' # <<>>
    BY <1>2
  <2> QED
    BY <1>2, <2>1 DEF Active, Ordered, LatestIs
<1>8. Range(work') = {}
  BY <1>4, <1>6, RangeIs DEF Typed
<1>9. CallsRight' /\ StallWatches'
  BY <1>2, <1>4, <1>7 DEF CallsRight, StallWatches
<1>10. AsksRight' /\ WorkRight'
  BY <1>2, <1>3, <1>4, <1>5, <1>8 DEF AsksRight, WorkRight, IInv
<1>11. CodexRight'
  <2>1. Len(work') <= 1
    BY <1>4
  <2> QED
    BY <1>2, <1>4, <1>5, <2>1 DEF CodexRight, IInv, Codex
<1>12. ClaudeRight' /\ EndRight'
  BY <1>2, <1>3, <1>4, <1>5 DEF ClaudeRight, EndRight, IInv, Codex
<1> QED
  BY <1>2, <1>6, <1>9, <1>10, <1>11, <1>12 DEF IInv

-----------------------------------------------------------------------------
(* The pump *)

\* What a message does to the Turn that is active.
LEMMA ReceiveTurn ==
  ASSUME IInv, Receive, LatestIs({"active"})
  PROVE  \E turn \in TurnRecords :
           /\ LatestBecomes(turn) /\ init' \in BOOLEAN
           /\ \/ turn = turns[Latest]
                 /\ (Head(inbox).kind = "ask" => Codex /\ Head(inbox).turn # Latest)
                 /\ (Head(inbox).kind = "done" => Codex)
              \/ turn = Touched(turns[Latest]) /\ Head(inbox).kind = "init"
              \/ turn = Finished(turns[Latest], "failed", "init") /\ Head(inbox).kind = "init"
              \/ turn = Requested(turns[Latest], Head(inbox).ref) /\ Head(inbox).kind = "ask"
              \/ /\ turn = Completed(turns[Latest], Head(inbox).status) /\ Head(inbox).kind = "done"
                 /\ Codex => Head(inbox).turn = Latest
<1> DEFINE message == Head(inbox)
<1>1. Typed /\ Ordered
  BY DEF IInv
<1>2. Active = {Latest} /\ turns # <<>> /\ Latest \in DOMAIN turns /\ turns[Latest] \in TurnRecords
      /\ turns \in Seq(TurnRecords) /\ inbox # <<>>
  BY <1>1, LatestIsActive, LatestExists DEF Typed, LatestIs, Receive
<1>3. message \in MessageRecords
  BY <1>1, <1>2, TailIs DEF Typed
<1>4. (CHOOSE t \in Active : TRUE) = Latest
  BY <1>2
<1>5. IF message.kind = "init"
      THEN /\ turns' = [turns EXCEPT ![Latest] = IF message.good THEN Touched(@)
                                                 ELSE Finished(@, "failed", "init")]
           /\ init' = (init \/ message.good)
      ELSE /\ turns' = IF ~Belongs(message, Latest) THEN turns
                       ELSE [turns EXCEPT ![Latest] = IF message.kind = "ask"
                                                      THEN Requested(@, message.ref)
                                                      ELSE Completed(@, message.status)]
           /\ UNCHANGED init
  BY <1>2, <1>4 DEF Receive
<1> HIDE DEF message
<1>6. CASE message.kind = "init"
  <2>1. message.good \in BOOLEAN
    BY <1>3, <1>6 DEF MessageRecords
  <2>2. init' \in BOOLEAN
    BY <1>1, <1>5, <1>6, <2>1 DEF Typed
  <2>3. Touched(turns[Latest]) \in TurnRecords /\ Finished(turns[Latest], "failed", "init") \in TurnRecords
    BY <1>2, TurnRecordsKept
  <2>4. \/ LatestBecomes(Touched(turns[Latest]))
        \/ LatestBecomes(Finished(turns[Latest], "failed", "init"))
    BY <1>2, <1>5, <1>6 DEF LatestBecomes
  <2> QED
    BY <1>6, <2>2, <2>3, <2>4 DEF message
<1>7. CASE message.kind # "init" /\ ~Belongs(message, Latest)
  <2>1. turns' = [turns EXCEPT ![Latest] = turns[Latest]] /\ init' \in BOOLEAN
    BY <1>1, <1>2, <1>5, <1>7 DEF Typed
  <2>2. Codex /\ message.turn # Latest
    BY <1>7 DEF Belongs
  <2> QED
    BY <1>2, <2>1, <2>2 DEF message, LatestBecomes
<1>8. CASE message.kind = "ask" /\ Belongs(message, Latest)
  <2>1. message.ref \in Refs
    BY <1>3, <1>8 DEF MessageRecords
  <2>2. Requested(turns[Latest], message.ref) \in TurnRecords
    BY <1>2, <2>1, TurnRecordsKept
  <2>3. LatestBecomes(Requested(turns[Latest], message.ref)) /\ init' \in BOOLEAN
    BY <1>1, <1>2, <1>5, <1>8 DEF LatestBecomes, Typed
  <2> QED
    BY <1>8, <2>2, <2>3 DEF message
<1>9. CASE message.kind = "done" /\ Belongs(message, Latest)
  <2>1. message.status \in {"completed", "failed", "interrupted"}
    BY <1>3, <1>9 DEF MessageRecords
  <2>2. Completed(turns[Latest], message.status) \in TurnRecords
    <3>1. \A outcome \in {"completed", "failed", "interrupted"}, error \in {None, "turn"} :
            Finished(turns[Latest], outcome, error) \in TurnRecords
      BY <1>2, TurnRecordsKept
    <3>2. CASE Codex
      BY <2>1, <3>1, <3>2 DEF Completed
    <3>3. CASE ~Codex /\ LastResult(turns[Latest])
      BY <2>1, <3>1, <3>3 DEF Completed
    <3>4. CASE ~Codex /\ ~LastResult(turns[Latest])
      <4> DEFINE less == [turns[Latest] EXCEPT !.queued = @ - 1]
      <4>1. turns[Latest].queued - 1 \in Nat
        BY <1>2, <3>4 DEF LastResult, TurnRecords
      <4>2. less \in TurnRecords
        BY <1>2, <4>1, TurnRecordsKept
      <4>3. Touched(less) \in TurnRecords
        BY <4>2, TurnRecordsKept
      <4> QED
        BY <3>4, <4>3 DEF Completed
    <3> QED
      BY <3>2, <3>3, <3>4
  <2>3. LatestBecomes(Completed(turns[Latest], message.status)) /\ init' \in BOOLEAN
    BY <1>1, <1>2, <1>5, <1>9 DEF LatestBecomes, Typed
  <2>4. Codex => message.turn = Latest
    BY <1>9 DEF Belongs
  <2> QED
    BY <1>9, <2>2, <2>3, <2>4 DEF message
<1>10. message.kind \in {"init", "ask", "done"}
  BY <1>3 DEF MessageRecords
<1> QED
  BY <1>6, <1>7, <1>8, <1>9, <1>10

\* The Turn goes on after a message.
LEMMA ReceiveGoesOn ==
  ASSUME IInv, Receive, LatestIs({"active"}), NEW turn \in TurnRecords, LatestBecomes(turn),
         init' \in BOOLEAN, turn.state = "active", turn.stall <=> turn.pending = {},
         turns[Latest].pending \subseteq turn.pending,
         \/ turn.queued = turns[Latest].queued /\ (Head(inbox).kind = "done" => Codex)
         \/ /\ ~Codex /\ Head(inbox).kind = "done" /\ turns[Latest].queued > 1
            /\ turn.queued = turns[Latest].queued - 1,
         Head(inbox).kind = "ask" => \/ Head(inbox).ref \in turn.pending
                                     \/ Codex /\ Head(inbox).turn # Latest
  PROVE  IInv'
<1> USE DEF outside, bounds
<1>1. Typed /\ Ordered
  BY DEF IInv
<1>2. /\ UNCHANGED <<provider, receipt, worker, calls, stream, process, work, asks, steers, faults, used>>
      /\ inbox # <<>> /\ inbox' = Tail(inbox)
  BY DEF Receive
<1>3. /\ inbox' \in Seq(MessageRecords) /\ Messages' \subseteq Messages
      /\ Head(inbox) \in MessageRecords /\ Head(inbox) \in Messages
      /\ Messages = Messages' \cup {Head(inbox)}
      /\ Cardinality(Dones) \in Nat /\ Cardinality(Dones') \in Nat
      /\ Cardinality(Dones) = IF Head(inbox).kind = "done" THEN Cardinality(Dones') + 1
                                                            ELSE Cardinality(Dones')
  BY <1>1, <1>2, InboxTail
<1>4. turns # <<>> /\ turns[Latest] \in TurnRecords /\ turns[Latest].queued \in 1..(1 + steers)
      /\ steers \in 0..MaxSteers /\ MaxSteers \in Nat
  BY <1>1, LatestExists, ExecutorBounds DEF LatestIs, Typed
<1>5. GoesOn(turn)
  <2>1. turn.queued \in 1..(1 + steers')
    BY <1>2, <1>4
  <2>2. steers' \in steers..MaxSteers
    BY <1>2, <1>4
  <2>3. RequestsAdded
    BY <1>1, <1>2, NoRequest
  <2> QED
    BY <1>2, <2>1, <2>2, <2>3 DEF GoesOn
<1>6. /\ Typed' /\ Ordered' /\ CallsRight' /\ StallWatches' /\ EndRight'
      /\ Latest' = Latest /\ turns' # <<>> /\ turns # <<>> /\ turns'[Latest] = turn
      /\ Len(turns') = Len(turns)
      /\ \A states : LatestIs(states)' <=> "active" \in states
      /\ ~LatestIs({"completed"}) /\ LatestIs({"starting", "active"})
  BY <1>1, <1>2, <1>3, <1>5, GoesOnRight DEF Typed
<1>7. AsksRight'
  <2>1. ASSUME stream = "open", work # <<>>, NEW ref \in asks
        PROVE  ref \in turn.pending \/ \E m \in Messages' : m.kind = "ask" /\ m.ref = ref
    <3>1. ref \in turns[Latest].pending \/ \E m \in Messages : m.kind = "ask" /\ m.ref = ref
      BY <1>6, <2>1 DEF IInv, AsksRight
    <3>2. ASSUME Head(inbox).kind = "ask", Head(inbox).ref = ref PROVE ref \in turn.pending
      BY <1>3, <3>2 DEF IInv, AsksRight
    <3> QED
      BY <1>3, <3>1, <3>2
  <2>2. AsksRight
    BY DEF IInv
  <2> QED
    BY <1>2, <1>3, <1>6, <2>1, <2>2 DEF AsksRight, Codex
<1>8. WorkRight' /\ CodexRight'
  BY <1>2, <1>3, <1>6 DEF WorkRight, CodexRight, IInv, Codex
<1>9. ClaudeRight'
  <2>1. ASSUME ~Codex PROVE Len(work) + Cardinality(Dones') <= turn.queued
    <3>1. Len(work) + Cardinality(Dones) <= turns[Latest].queued
      BY <2>1 DEF IInv, ClaudeRight
    <3>2. Len(work) \in Nat /\ turns[Latest].queued \in Nat
      BY <1>1, <1>4 DEF Typed, TurnRecords
    <3>3. \A d, e \in Nat : d = e + 1 /\ Len(work) + d <= turns[Latest].queued
                              => Len(work) + e <= turns[Latest].queued - 1
      BY <3>2
    <3> QED
      BY <1>3, <2>1, <3>1, <3>2, <3>3
  <2>2. ~Codex => Len(work') + Cardinality(Dones') <= turns'[Latest'].queued
    BY <1>2, <1>6, <2>1
  <2> QED
    BY <1>2, <1>6, <2>2 DEF ClaudeRight, Codex
<1> QED
  BY <1>6, <1>7, <1>8, <1>9 DEF IInv

\* The Turn is over with a message.
LEMMA ReceiveEnds ==
  ASSUME IInv, Receive, LatestIs({"active"}), NEW turn \in TurnRecords, LatestBecomes(turn),
         init' \in BOOLEAN, turn.state \in {"completed", "failed", "interrupted"},
         turn.queued = turns[Latest].queued,
         turn.state = "completed" => /\ Head(inbox).kind = "done"
                                     /\ IF Codex THEN Head(inbox).turn = Latest ELSE turn.queued <= 1
  PROVE  IInv'
<1> USE DEF outside, bounds
<1>1. Typed /\ Ordered
  BY DEF IInv
<1>2. /\ UNCHANGED <<provider, receipt, worker, calls, stream, process, work, asks, steers, faults, used>>
      /\ inbox # <<>> /\ inbox' = Tail(inbox)
  BY DEF Receive
<1>3. /\ inbox' \in Seq(MessageRecords) /\ Messages' \subseteq Messages
      /\ Head(inbox) \in MessageRecords /\ Head(inbox) \in Messages
      /\ Cardinality(Dones) \in Nat /\ Cardinality(Dones') \in Nat
      /\ Cardinality(Dones) = IF Head(inbox).kind = "done" THEN Cardinality(Dones') + 1
                                                            ELSE Cardinality(Dones')
      /\ Cardinality(Dones') = 0 <=> Dones' = {}
  BY <1>1, <1>2, InboxTail
<1>4. /\ turns' \in Seq(TurnRecords) /\ turns' # <<>> /\ Len(turns') = Len(turns)
      /\ DOMAIN turns' = DOMAIN turns /\ Latest' = Latest
      /\ turns'[Latest] = turn /\ \A t \in DOMAIN turns \ {Latest} : turns'[t] = turns[t]
      /\ \A states : LatestIs(states)' <=> turn.state \in states
      /\ Active' = {} /\ Ordered'
  BY <1>1, <1>2, LatestTurns
<1>5. turns # <<>> /\ ~LatestIs({"starting"}) /\ turns[Latest].queued \in Nat
  BY <1>1, LatestExists DEF LatestIs, TurnRecords
<1>6. turn.state = "completed" => work = <<>> /\ (~Codex => Dones' = {})
  <2>1. ASSUME turn.state = "completed", Codex PROVE work = <<>>
    BY <1>3, <2>1 DEF IInv, CodexRight
  <2>2. ASSUME turn.state = "completed", ~Codex PROVE work = <<>> /\ Dones' = {}
    <3>1. Len(work) + Cardinality(Dones) <= turns[Latest].queued /\ turns[Latest].queued <= 1
      BY <2>2 DEF IInv, ClaudeRight
    <3>2. Len(work) \in Nat /\ (Len(work) = 0 => work = <<>>)
      BY <1>1 DEF Typed
    <3>3. Cardinality(Dones) = Cardinality(Dones') + 1
      BY <1>3, <2>2
    <3>4. \A l, d, e, q \in Nat : l + d <= q /\ q <= 1 /\ d = e + 1 => l = 0 /\ e = 0
      OBVIOUS
    <3>5. Len(work) = 0 /\ Cardinality(Dones') = 0
      BY <1>3, <1>5, <3>1, <3>2, <3>3, <3>4
    <3> QED
      BY <1>3, <3>2, <3>5
  <2> QED
    BY <2>1, <2>2
<1>7. Typed'
  BY <1>1, <1>2, <1>3, <1>4 DEF Typed
<1>8. CallsRight'
  BY <1>2, <1>4, <1>5 DEF CallsRight, IInv, Codex
<1>9. StallWatches' /\ AsksRight'
  BY <1>2, <1>3, <1>4 DEF StallWatches, AsksRight, IInv, Codex
<1>10. WorkRight' /\ CodexRight'
  BY <1>2, <1>3, <1>4, <1>5, <1>6 DEF WorkRight, CodexRight, IInv, Codex
<1>11. ClaudeRight' /\ EndRight'
  BY <1>2, <1>4, <1>5, <1>6 DEF ClaudeRight, EndRight, IInv, Codex
<1> QED
  BY <1>4, <1>7, <1>8, <1>9, <1>10, <1>11 DEF IInv

\* Claude Code says something between two Turns.
LEMMA ReceiveBetween ==
  ASSUME IInv, Receive, ~LatestIs({"active"})
  PROVE  IInv'
<1> USE DEF outside, bounds
<1>1. Typed /\ Ordered /\ Active = {} /\ ~Codex
  BY LatestIsActive DEF IInv, Receive
<1>2. /\ UNCHANGED <<provider, receipt, worker, turns, calls, init, stream, process, work, asks, steers,
                     faults, used>>
      /\ inbox # <<>> /\ inbox' = Tail(inbox)
  BY <1>1 DEF Receive
<1>3. inbox' \in Seq(MessageRecords) /\ Messages' \subseteq Messages /\ (Dones = {} => Dones' = {})
  BY <1>1, <1>2, InboxTail
<1>4. /\ Ordered' /\ Latest' = Latest /\ Active' = Active /\ StallWatches'
      /\ \A states : LatestIs(states)' = LatestIs(states)
  BY <1>1, <1>2, SameTurns DEF IInv
<1>5. Typed'
  BY <1>1, <1>2, <1>3 DEF Typed
<1>6. CallsRight' /\ EndRight' /\ WorkRight'
  BY <1>2, <1>3, <1>4 DEF CallsRight, EndRight, WorkRight, IInv, Codex
<1>7. ~LatestIs({"starting", "active"})
  <2>1. ~LatestIs({"starting"})
    BY <1>1 DEF IInv, CallsRight
  <2> QED
    BY <2>1 DEF LatestIs
<1>8. AsksRight' /\ CodexRight' /\ ClaudeRight'
  BY <1>1, <1>2, <1>3, <1>4, <1>7 DEF AsksRight, CodexRight, ClaudeRight, IInv, Codex
<1> QED
  BY <1>4, <1>5, <1>6, <1>8 DEF IInv

LEMMA InvReceive ==
  ASSUME IInv, Receive
  PROVE  IInv'
<1> DEFINE last == turns[Latest]
           message == Head(inbox)
<1>1. CASE ~LatestIs({"active"})
  BY <1>1, ReceiveBetween
<1>2. CASE LatestIs({"active"})
  <2>1. Typed /\ Ordered
    BY DEF IInv
  <2>2. last \in TurnRecords /\ last.state = "active" /\ Active = {Latest} /\ last.queued \in Nat
        /\ message \in MessageRecords
    BY <1>2, <2>1, LatestExists, LatestIsActive, TailIs DEF LatestIs, TurnRecords, Receive, Typed
  <2>3. last.stall <=> last.pending = {}
    BY <2>2 DEF IInv, StallWatches
  <2>4. PICK turn \in TurnRecords :
           /\ LatestBecomes(turn) /\ init' \in BOOLEAN
           /\ \/ turn = last
                 /\ (message.kind = "ask" => Codex /\ message.turn # Latest)
                 /\ (message.kind = "done" => Codex)
              \/ turn = Touched(last) /\ message.kind = "init"
              \/ turn = Finished(last, "failed", "init") /\ message.kind = "init"
              \/ turn = Requested(last, message.ref) /\ message.kind = "ask"
              \/ /\ turn = Completed(last, message.status) /\ message.kind = "done"
                 /\ Codex => message.turn = Latest
    BY <1>2, ReceiveTurn
  <2> HIDE DEF last, message
  <2>5. CASE /\ turn = last
             /\ (message.kind = "ask" => Codex /\ message.turn # Latest)
             /\ (message.kind = "done" => Codex)
    BY <1>2, <2>2, <2>3, <2>4, <2>5, ReceiveGoesOn DEF last, message
  <2>6. CASE turn = Touched(last) /\ message.kind = "init"
    <3>1. /\ turn.state = last.state /\ turn.pending = last.pending /\ turn.queued = last.queued
          /\ (turn.stall <=> last.pending = {})
      BY <2>2, <2>6, TouchedIs
    <3> QED
      BY <1>2, <2>2, <2>4, <2>6, <3>1, ReceiveGoesOn DEF last, message
  <2>7. CASE turn = Finished(last, "failed", "init") /\ message.kind = "init"
    <3>1. turn.state = "failed" /\ turn.queued = last.queued
      BY <2>2, <2>7, FinishedIs
    <3> QED
      BY <1>2, <2>4, <3>1, ReceiveEnds DEF last
  <2>8. CASE turn = Requested(last, message.ref) /\ message.kind = "ask"
    <3>1. /\ turn.state = last.state /\ turn.pending = last.pending \cup {message.ref}
          /\ turn.queued = last.queued /\ ~turn.stall
      BY <2>2, <2>8 DEF Requested, TurnRecords
    <3> QED
      BY <1>2, <2>2, <2>4, <2>8, <3>1, ReceiveGoesOn DEF last, message
  <2>9. CASE /\ turn = Completed(last, message.status) /\ message.kind = "done"
             /\ Codex => message.turn = Latest
    <3>1. message.status \in {"completed", "failed", "interrupted"}
      BY <2>2, <2>9 DEF MessageRecords
    <3>2. CASE Codex \/ LastResult(last)
      <4>1. PICK outcome \in {"completed", "failed", "interrupted"}, error \in {None, "turn"} :
              turn = Finished(last, outcome, error)
        BY <2>9, <3>1, <3>2 DEF Completed
      <4>2. turn.state = outcome /\ turn.queued = last.queued
        BY <2>2, <4>1, FinishedIs
      <4>3. ~Codex => turn.queued <= 1
        BY <3>2, <4>2 DEF LastResult
      <4> QED
        BY <1>2, <2>4, <2>9, <4>2, <4>3, ReceiveEnds DEF last, message
    <3>3. CASE ~Codex /\ ~LastResult(last)
      <4> DEFINE less == [last EXCEPT !.queued = @ - 1]
      <4>1. turn = Touched(less)
        BY <2>9, <3>3 DEF Completed
      <4>2. last.queued > 1 /\ last.queued - 1 \in Nat
        BY <2>2, <3>3 DEF LastResult
      <4>3. less \in TurnRecords
        BY <2>2, <4>2, TurnRecordsKept
      <4>4. less.state = last.state /\ less.pending = last.pending /\ less.queued = last.queued - 1
        BY <2>2 DEF TurnRecords
      <4> HIDE DEF less
      <4>5. /\ turn.state = last.state /\ turn.pending = last.pending /\ turn.queued = last.queued - 1
            /\ (turn.stall <=> last.pending = {})
        BY <4>1, <4>3, <4>4, TouchedIs
      <4> QED
        BY <1>2, <2>2, <2>4, <2>9, <3>3, <4>2, <4>5, ReceiveGoesOn DEF last, message
    <3> QED
      BY <3>2, <3>3
  <2> QED
    BY <2>4, <2>5, <2>6, <2>7, <2>8, <2>9
<1> QED
  BY <1>1, <1>2

-----------------------------------------------------------------------------
(* Every step *)

LEMMA InvNext == IInv /\ [Next]_vars => IInv'
<1> SUFFICES ASSUME IInv, [Next]_vars PROVE IInv'
  OBVIOUS
<1>1. ASSUME Program PROVE IInv'
  <2>1. ASSUME NEW t \in DOMAIN turns, TurnTimeout(t) \/ Stall(t) \/ PumpFails(t) PROVE IInv'
    BY <2>1, InvTimer
  <2> QED
    BY <1>1, <2>1, InvReceive, InvAnswered, InvExpire, InvOpen, InvClose DEF Program
<1>2. ASSUME NEW t \in DOMAIN turns, Interrupt(t) \/ Steer(t) PROVE IInv'
  BY <1>2, InvInterrupt, InvSteer
<1>3. ASSUME NEW t \in DOMAIN turns, NEW ref \in Refs, Respond(t, ref) PROVE IInv'
  BY <1>3, InvRespond
<1>4. ASSUME NEW ref \in Refs, Ask(ref) PROVE IInv'
  BY <1>4, InvAsk
<1>5. ASSUME NEW status \in {"completed", "failed"}, Finish(status) PROVE IInv'
  BY <1>5, InvFinish
<1>6. ASSUME UNCHANGED vars PROVE IInv'
  <2>1. UNCHANGED <<provider, receipt, worker, turns, calls, inbox, init, stream, process, work, asks,
                    steers, faults, used>>
    BY <1>6 DEF vars, outside, bounds
  <2>2. /\ Latest' = Latest /\ Active' = Active /\ Messages' = Messages /\ Dones' = Dones
        /\ \A states : LatestIs(states)' = LatestIs(states)
    BY <2>1 DEF Latest, Active, Messages, Dones, LatestIs
  <2>3. Typed' /\ Ordered' /\ CallsRight' /\ StallWatches'
    BY <2>1, <2>2 DEF IInv, Typed, Ordered, CallsRight, StallWatches, Codex
  <2>4. AsksRight' /\ WorkRight' /\ CodexRight' /\ ClaudeRight' /\ EndRight'
    BY <2>1, <2>2 DEF IInv, AsksRight, WorkRight, CodexRight, ClaudeRight, EndRight, Codex
  <2> QED
    BY <2>3, <2>4 DEF IInv
<1>7. ASSUME NEW c \in calls, Handle(c) PROVE IInv'
  BY <1>7, InvHandle
<1>8. ASSUME \/ StartCodexTurn \/ StartClaudeTurn \/ CloseCodex \/ CloseClaude
             \/ SayInit \/ NestedEnds \/ Garble \/ Exit
      PROVE  IInv'
  BY <1>8, InvStartCodexTurn, InvStartClaudeTurn, InvClose, InvCloseClaude, InvSay, InvGarble, InvExit
<1> QED
  BY <1>1, <1>2, <1>3, <1>4, <1>5, <1>6, <1>7, <1>8 DEF Next

LEMMA Invariance == Spec => []IInv
BY InvInit, InvNext, PTL DEF Spec

LEMMA IInvHolds ==
  ASSUME IInv
  PROVE  QuestionsHeld /\ CompletedIsIdle
<1>1. Typed /\ Ordered
  BY DEF IInv
<1>2. TypeOK
  <2>1. \A t \in DOMAIN turns : turns[t] \in TurnRecords /\ turns[t].queued \in 1..(1 + MaxSteers)
    <3> TAKE t \in DOMAIN turns
    <3>1. turns[t].queued \in 1..(1 + steers) /\ steers \in 0..MaxSteers /\ MaxSteers \in Nat
      BY <1>1, ExecutorBounds DEF Typed
    <3>2. turns[t] \in TurnRecords
      BY <1>1 DEF Typed
    <3> QED
      BY <3>1, <3>2
  <2>2. \A t \in DOMAIN turns : turns[t].state \in States /\ turns[t].pending \subseteq Refs
    BY <2>1 DEF TurnRecords
  <2>3. ASSUME NEW t \in DOMAIN turns, turns[t].state = "starting"
        PROVE  \E c \in calls : c.turn = t /\ c.kind \in {"thread", "turn"}
    <3>1. t = Latest /\ turns # <<>>
      BY <1>1, <2>3 DEF Ordered, Typed
    <3>2. LatestIs({"starting"})
      BY <2>3, <3>1 DEF LatestIs
    <3> QED
      BY <3>1, <3>2 DEF IInv, CallsRight, StartsTurn
  <2>4. Range(work) \subseteq DOMAIN turns
    BY <1>1, LatestExists DEF IInv, WorkRight
  <2> QED
    BY <1>1, <2>1, <2>2, <2>3, <2>4 DEF Typed, TypeOK
<1>3. AsksAreOpen
  <2> SUFFICES ASSUME NEW t \in Active, Range(work) = {t}, stream = "open", NEW ref \in asks
               PROVE  ref \in turns[t].pending \cup
                        {inbox[i].ref : i \in {j \in DOMAIN inbox : inbox[j].kind = "ask"}}
    BY DEF AsksAreOpen
  <2>1. t = Latest /\ LatestIs({"active"}) /\ LatestIs({"starting", "active"})
    BY <1>1, ActiveIsLatest DEF LatestIs
  <2>2. work # <<>>
    BY DEF IInv, AsksRight
  <2>3. ref \in turns[t].pending \/ \E m \in Messages : m.kind = "ask" /\ m.ref = ref
    BY <2>1, <2>2 DEF IInv, AsksRight
  <2>4. ASSUME NEW m \in Messages, m.kind = "ask", m.ref = ref
        PROVE  \E i \in {j \in DOMAIN inbox : inbox[j].kind = "ask"} : ref = inbox[i].ref
    BY <2>4, RangeIs DEF Messages, Range
  <2> QED
    BY <2>3, <2>4
<1>4. CompletedIsIdle
  <2> SUFFICES ASSUME NEW t \in DOMAIN turns, turns[t].state = "completed", t \in Range(work)
               PROVE  FALSE
    BY DEF CompletedIsIdle
  <2>1. t = Latest /\ LatestIs({"completed"})
    BY DEF IInv, WorkRight, LatestIs
  <2>2. work = <<>>
    BY <2>1 DEF IInv, WorkRight
  <2> QED
    BY <1>1, <2>2, RangeIs DEF Typed
<1> QED
  BY <1>2, <1>3, <1>4 DEF IInv, QuestionsHeld

\* Nobody loses a Turn by thinking about a question, and a process that hangs is noticed: the stall
\* timer is on exactly while nothing is asked, and what the process waits for can be answered.
THEOREM QuestionsAreHeld == Spec => []QuestionsHeld
BY Invariance, IInvHolds, PTL

\* When a Turn is reported completed the process has done with all of its prompts.
THEOREM CompletedStaysIdle == Spec => []CompletedIsIdle
BY Invariance, IInvHolds, PTL

-----------------------------------------------------------------------------
(* The contract of an Attempt Worker *)

\* What a step may do to the Turns.
TurnGoesOn == \E turn \in TurnRecords : LatestBecomes(turn) /\ turn.state = turns[Latest].state

TurnIsOver == \E turn \in TurnRecords :
  LatestIs({"active"}) /\ LatestBecomes(turn) /\ turn.state \in {"completed", "failed", "interrupted"}

TurnIsAnswered == \E turn \in TurnRecords :
  LatestIs({"starting"}) /\ LatestBecomes(turn) /\ turn.state \in {"refused", "active"}

TurnIsAdded == \E turn \in TurnRecords :
  MayStart /\ UNCHANGED worker /\ turns' = Append(turns, turn)
    /\ turn.state \in {"starting", "refused", "active"}

TurnsStep == UNCHANGED turns \/ TurnGoesOn \/ TurnIsOver \/ TurnIsAnswered \/ TurnIsAdded

WorkerStep ==
  \/ worker' = "closed" <=> worker = "closed"
  \/ worker' = "closed" /\ worker = "closing" /\ process = "gone" /\ UNCHANGED turns

LEMMA RefusedStep ==
  ASSUME IInv, NEW c \in calls, Refused({c})
  PROVE  TurnsStep /\ WorkerStep
<1>1. worker' = (IF c.kind = "initialize" THEN "closing" ELSE worker)
  BY RefusedIs
<1>2. WorkerStep
  BY <1>1 DEF WorkerStep, IInv, CallsRight
<1>3. CASE StartsTurn(c)
  <2> DEFINE turn == [turns[Latest] EXCEPT !.state = "refused"]
  <2>1. LatestBecomes(turn) /\ LatestIs({"starting"}) /\ turns # <<>>
    BY <1>3, RefusedIs DEF IInv, CallsRight, LatestIs
  <2>2. turns[Latest] \in TurnRecords
    BY <2>1, LatestExists DEF IInv
  <2>3. turn \in TurnRecords
    BY <2>2, TurnRecordsKept DEF States
  <2>4. turn.state = "refused"
    BY <2>2 DEF TurnRecords
  <2> HIDE DEF turn
  <2> QED
    BY <1>2, <2>1, <2>3, <2>4 DEF TurnsStep, TurnIsAnswered
<1>4. CASE ~StartsTurn(c)
  BY <1>2, <1>4, RefusedIs DEF TurnsStep
<1> QED
  BY <1>3, <1>4

LEMMA AnsweredStep ==
  ASSUME IInv, NEW c \in calls, Answered(c)
  PROVE  TurnsStep /\ WorkerStep
<1>1. Typed /\ CallsRight
  BY DEF IInv
<1>2. CASE c.answer = "error"
  BY <1>2, RefusedStep DEF Answered
<1>3. CASE c.answer # "error"
  <2>1. /\ worker' = IF c.kind = "initialize" THEN "open" ELSE worker
        /\ turns' = IF c.kind = "turn" THEN [turns EXCEPT ![c.turn] = NewTurn("active")]
                    ELSE IF c.kind = "thread" /\ ~Writable
                    THEN [turns EXCEPT ![c.turn].state = "refused"] ELSE turns
    BY <1>3 DEF Answered
  <2>2. WorkerStep
    BY <1>1, <2>1 DEF WorkerStep, CallsRight
  <2>3. CASE c.kind = "turn"
    <3>1. c.turn = Latest /\ LatestIs({"starting"}) /\ turns # <<>>
      BY <1>1, <2>3 DEF CallsRight, StartsTurn, LatestIs
    <3>2. NewTurn("active") \in TurnRecords /\ NewTurn("active").state = "active"
      BY NewTurnIs DEF States
    <3>3. LatestBecomes(NewTurn("active"))
      BY <2>1, <2>3, <3>1 DEF LatestBecomes
    <3> QED
      BY <2>2, <3>1, <3>2, <3>3 DEF TurnsStep, TurnIsAnswered
  <2>4. CASE c.kind = "thread" /\ ~Writable
    <3> DEFINE turn == [turns[Latest] EXCEPT !.state = "refused"]
    <3>1. c.turn = Latest /\ LatestIs({"starting"}) /\ turns # <<>>
      BY <1>1, <2>4 DEF CallsRight, StartsTurn, LatestIs
    <3>2. turns[Latest] \in TurnRecords
      BY <1>1, <3>1, LatestExists
    <3>3. turn \in TurnRecords
      BY <3>2, TurnRecordsKept DEF States
    <3>4. turn.state = "refused"
      BY <3>2 DEF TurnRecords
    <3>5. LatestBecomes(turn)
      BY <2>1, <2>4, <3>1 DEF LatestBecomes
    <3> HIDE DEF turn
    <3> QED
      BY <2>2, <3>1, <3>3, <3>4, <3>5 DEF TurnsStep, TurnIsAnswered
  <2>5. CASE c.kind # "turn" /\ ~(c.kind = "thread" /\ ~Writable)
    BY <2>1, <2>2, <2>5 DEF TurnsStep
  <2> QED
    BY <2>3, <2>4, <2>5
<1> QED
  BY <1>2, <1>3

LEMMA FinishedStep ==
  ASSUME IInv, NEW outcome \in {"failed", "interrupted"}, NEW error \in {None, "exited", "protocol"},
         turns' = [t \in DOMAIN turns |-> Finished(turns[t], outcome, error)]
  PROVE  TurnsStep
BY FinishedTurns DEF IInv, TurnsStep, TurnIsOver

LEMMA TimerStep ==
  ASSUME IInv, NEW t \in DOMAIN turns, TurnTimeout(t) \/ Stall(t) \/ PumpFails(t)
  PROVE  TurnsStep /\ UNCHANGED worker
<1>1. PICK error \in {"timed_out", "stalled", "protocol"} :
        t \in Active /\ turns' = [turns EXCEPT ![t] = Finished(@, "failed", error)] /\ UNCHANGED worker
  BY DEF TurnTimeout, Stall, PumpFails, TimedOut
<1> DEFINE turn == Finished(turns[Latest], "failed", error)
<1>2. t = Latest /\ turns # <<>> /\ LatestIs({"active"}) /\ turns[Latest].state = "active"
      /\ turns[Latest] \in TurnRecords
  BY <1>1, ActiveIsLatest, LatestExists DEF IInv, LatestIs
<1>3. turn \in TurnRecords
  BY <1>2, TurnRecordsKept
<1>4. turn.state = "failed"
  BY <1>2, FinishedIs
<1>5. LatestBecomes(turn)
  BY <1>1, <1>2 DEF LatestBecomes
<1> HIDE DEF turn
<1> QED
  BY <1>1, <1>2, <1>3, <1>4, <1>5 DEF TurnsStep, TurnIsOver

LEMMA ReceiveStep ==
  ASSUME IInv, Receive
  PROVE  TurnsStep /\ UNCHANGED worker
<1> DEFINE last == turns[Latest]
           message == Head(inbox)
<1>1. CASE ~LatestIs({"active"})
  BY <1>1, LatestIsActive DEF Receive, IInv, TurnsStep
<1>2. CASE LatestIs({"active"})
  <2>1. last \in TurnRecords /\ last.state = "active" /\ message \in MessageRecords
    BY <1>2, LatestExists, TailIs DEF LatestIs, Receive, Typed, IInv
  <2>2. PICK turn \in TurnRecords :
          /\ LatestBecomes(turn)
          /\ \/ turn = last \/ turn = Touched(last) \/ turn = Finished(last, "failed", "init")
             \/ turn = Requested(last, message.ref)
             \/ turn = Completed(last, message.status) /\ message.kind = "done"
    BY <1>2, ReceiveTurn
  <2> HIDE DEF last, message
  <2>3. turn.state \in {"active", "completed", "failed", "interrupted"}
    <3>1. CASE turn = last \/ turn = Touched(last)
      BY <2>1, <3>1, TouchedIs
    <3>2. CASE turn = Finished(last, "failed", "init")
      BY <2>1, <3>2, FinishedIs
    <3>3. CASE turn = Requested(last, message.ref)
      BY <2>1, <3>3 DEF Requested, TurnRecords
    <3>4. CASE turn = Completed(last, message.status) /\ message.kind = "done"
      <4>1. message.status \in {"completed", "failed", "interrupted"}
        BY <2>1, <3>4 DEF MessageRecords
      <4>2. CASE Codex \/ LastResult(last)
        <5>1. PICK outcome \in {"completed", "failed", "interrupted"}, error \in {None, "turn"} :
                turn = Finished(last, outcome, error)
          BY <3>4, <4>1, <4>2 DEF Completed
        <5> QED
          BY <2>1, <5>1, FinishedIs
      <4>3. CASE ~Codex /\ ~LastResult(last)
        <5> DEFINE less == [last EXCEPT !.queued = @ - 1]
        <5>1. turn = Touched(less)
          BY <3>4, <4>3 DEF Completed
        <5>2. last.queued - 1 \in Nat
          BY <2>1, <4>3 DEF LastResult, TurnRecords
        <5>3. less \in TurnRecords
          BY <2>1, <5>2, TurnRecordsKept
        <5>4. less.state = "active"
          BY <2>1 DEF TurnRecords
        <5> HIDE DEF less
        <5> QED
          BY <5>1, <5>3, <5>4, TouchedIs
      <4> QED
        BY <4>2, <4>3
    <3> QED
      BY <2>2, <3>1, <3>2, <3>3, <3>4
  <2>4. UNCHANGED worker
    BY DEF Receive
  <2> QED
    BY <1>2, <2>1, <2>2, <2>3, <2>4 DEF TurnsStep, TurnIsOver, TurnGoesOn, last
<1> QED
  BY <1>1, <1>2

\* A person interrupts, steers or answers.
LEMMA PersonStep ==
  ASSUME IInv, NEW t \in DOMAIN turns,
         Interrupt(t) \/ Steer(t) \/ \E ref \in Refs : Respond(t, ref)
  PROVE  TurnsStep /\ UNCHANGED worker
<1> DEFINE last == turns[Latest]
<1>1. t \in Active /\ UNCHANGED worker
  BY DEF Interrupt, Steer, Respond
<1>2. t = Latest /\ turns # <<>> /\ LatestIs({"active"}) /\ last \in TurnRecords
  BY <1>1, ActiveIsLatest, LatestExists DEF IInv
<1>3. \/ UNCHANGED turns
      \/ turns' = [turns EXCEPT ![Latest] = [last EXCEPT !.interrupted = ~Codex]]
      \/ turns' = [turns EXCEPT ![Latest] = Queued(last)]
      \/ \E ref \in Refs : turns' = [turns EXCEPT ![Latest] = Responded(last, ref)]
  BY <1>2 DEF Interrupt, Steer, Respond
<1> HIDE DEF last
<1>4. CASE turns' = [turns EXCEPT ![Latest] = [last EXCEPT !.interrupted = ~Codex]]
  <2> DEFINE turn == [last EXCEPT !.interrupted = ~Codex]
  <2>1. (~Codex) \in BOOLEAN
    BY DEF Codex
  <2>2. turn \in TurnRecords
    BY <1>2, <2>1, TurnRecordsKept
  <2>3. turn.state = last.state
    BY <1>2 DEF TurnRecords
  <2>4. LatestBecomes(turn)
    BY <1>2, <1>4 DEF LatestBecomes
  <2> HIDE DEF turn
  <2> QED
    BY <1>1, <2>2, <2>3, <2>4 DEF TurnsStep, TurnGoesOn, last
<1>5. CASE turns' = [turns EXCEPT ![Latest] = Queued(last)]
  <2> DEFINE more == [last EXCEPT !.queued = @ + 1]
  <2>1. last.queued + 1 \in Nat
    BY <1>2 DEF TurnRecords
  <2>2. more \in TurnRecords
    BY <1>2, <2>1, TurnRecordsKept
  <2>3. more.state = last.state /\ Queued(last) = Touched(more)
    BY <1>2 DEF TurnRecords, Queued
  <2> HIDE DEF more
  <2>4. Queued(last) \in TurnRecords /\ Queued(last).state = last.state
    BY <2>2, <2>3, TouchedIs, TurnRecordsKept
  <2>5. LatestBecomes(Queued(last))
    BY <1>2, <1>5 DEF LatestBecomes
  <2> QED
    BY <1>1, <2>4, <2>5 DEF TurnsStep, TurnGoesOn, last
<1>6. ASSUME NEW ref \in Refs, turns' = [turns EXCEPT ![Latest] = Responded(last, ref)]
      PROVE  TurnsStep
  <2> DEFINE less == [last EXCEPT !.pending = @ \ {ref}]
  <2>1. less \in TurnRecords /\ less.state = last.state
    BY <1>2 DEF TurnRecords
  <2>2. Responded(last, ref) = Touched(less)
    BY DEF Responded
  <2> HIDE DEF less
  <2>3. Responded(last, ref) \in TurnRecords /\ Responded(last, ref).state = last.state
    BY <2>1, <2>2, TouchedIs, TurnRecordsKept
  <2>4. LatestBecomes(Responded(last, ref))
    BY <1>2, <1>6 DEF LatestBecomes
  <2> QED
    BY <2>3, <2>4 DEF TurnsStep, TurnGoesOn, last
<1> QED
  BY <1>1, <1>3, <1>4, <1>5, <1>6 DEF TurnsStep

LEMMA ExitStep ==
  ASSUME IInv, Exit
  PROVE  TurnsStep /\ WorkerStep
<1>1. Typed /\ Ordered
  BY DEF IInv
<1>2. WorkerStep
  BY DEF Exit, WorkerStep, IInv, CallsRight
<1> DEFINE after(t) == IF turns[t].state = "starting" THEN [turns[t] EXCEPT !.state = "refused"]
                       ELSE ExitFinished(turns[t])
<1>3. turns' = [t \in DOMAIN turns |-> after(t)]
  BY DEF Exit
<1>4. ASSUME NEW t \in DOMAIN turns, turns[t].state \notin {"starting", "active"}
      PROVE  after(t) = turns[t]
  BY <1>4 DEF ExitFinished, Finished
<1>5. turns \in Seq(TurnRecords)
  BY <1>1 DEF Typed
<1>6. CASE turns = <<>> \/ ~LatestIs({"starting", "active"})
  <2>1. \A t \in DOMAIN turns : turns[t].state \notin {"starting", "active"}
    BY <1>1, <1>6 DEF Ordered, LatestIs
  <2>2. turns' = turns
    BY <1>3, <1>4, <1>5, <2>1
  <2> QED
    BY <1>2, <2>2 DEF TurnsStep
<1>7. CASE turns # <<>> /\ LatestIs({"starting", "active"})
  <2>1. Latest \in DOMAIN turns /\ turns[Latest] \in TurnRecords
    BY <1>1, <1>7, LatestExists
  <2>2. \A t \in DOMAIN turns \ {Latest} : after(t) = turns[t]
    BY <1>1, <1>4 DEF Ordered
  <2> HIDE DEF after
  <2>3. LatestBecomes(after(Latest))
    BY <1>3, <1>5, <1>7, <2>1, <2>2 DEF LatestBecomes
  <2>4. CASE LatestIs({"starting"})
    <3>1. after(Latest) = [turns[Latest] EXCEPT !.state = "refused"]
      BY <2>4 DEF after, LatestIs
    <3>2. after(Latest) \in TurnRecords
      BY <2>1, <3>1, TurnRecordsKept DEF States
    <3>3. after(Latest).state = "refused"
      BY <2>1, <3>1 DEF TurnRecords
    <3> QED
      BY <1>2, <2>3, <2>4, <3>2, <3>3 DEF TurnsStep, TurnIsAnswered
  <2>5. CASE LatestIs({"active"})
    <3>1. PICK outcome \in {"interrupted", "failed"}, error \in {None, "exited"} :
            after(Latest) = Finished(turns[Latest], outcome, error)
      BY <2>5 DEF after, LatestIs, ExitFinished
    <3>2. after(Latest) \in TurnRecords
      BY <2>1, <3>1, TurnRecordsKept
    <3>3. after(Latest).state = outcome
      BY <2>1, <2>5, <3>1, FinishedIs DEF LatestIs
    <3> QED
      BY <1>2, <2>3, <2>5, <3>2, <3>3 DEF TurnsStep, TurnIsOver
  <2> QED
    BY <1>7, <2>4, <2>5 DEF LatestIs
<1> QED
  BY <1>6, <1>7

LEMMA EveryStep ==
  ASSUME IInv, [Next]_vars
  PROVE  TurnsStep /\ WorkerStep
<1>1. ASSUME UNCHANGED <<turns, worker>> PROVE TurnsStep /\ WorkerStep
  BY <1>1 DEF TurnsStep, WorkerStep
<1>2. ASSUME TurnsStep, UNCHANGED worker PROVE TurnsStep /\ WorkerStep
  BY <1>2 DEF WorkerStep
<1>3. ASSUME NEW c \in calls, Answered(c) \/ Expire(c) \/ Handle(c) PROVE TurnsStep /\ WorkerStep
  BY <1>1, <1>3, AnsweredStep, RefusedStep DEF Expire, Handle
<1>4. ASSUME Receive \/ \E t \in DOMAIN turns : TurnTimeout(t) \/ Stall(t) \/ PumpFails(t)
      PROVE  TurnsStep /\ WorkerStep
  BY <1>2, <1>4, ReceiveStep, TimerStep
<1>5. ASSUME NEW t \in DOMAIN turns,
             Interrupt(t) \/ Steer(t) \/ \E ref \in Refs : Respond(t, ref)
      PROVE  TurnsStep /\ WorkerStep
  BY <1>2, <1>5, PersonStep
<1>6. ASSUME Open \/ Closed \/ CloseCodex PROVE TurnsStep /\ WorkerStep
  BY <1>6 DEF Open, Closed, CloseCodex, TurnsStep, WorkerStep, outside, bounds
<1>7. ASSUME CloseClaude \/ Garble PROVE TurnsStep /\ WorkerStep
  BY <1>7, FinishedStep DEF CloseClaude, Garble, WorkerStep
<1>8. ASSUME StartCodexTurn \/ StartClaudeTurn PROVE TurnsStep /\ WorkerStep
  <2>1. PICK state \in {"starting", "refused", "active"} :
          MayStart /\ UNCHANGED worker /\ turns' = Append(turns, NewTurn(state))
    BY <1>8 DEF StartCodexTurn, StartClaudeTurn
  <2>2. NewTurn(state) \in TurnRecords /\ NewTurn(state).state = state
    BY <2>1, NewTurnIs DEF States
  <2> QED
    BY <1>2, <2>1, <2>2 DEF TurnsStep, TurnIsAdded
<1>9. ASSUME \/ SayInit \/ NestedEnds \/ (\E ref \in Refs : Ask(ref))
             \/ \E status \in {"completed", "failed"} : Finish(status)
      PROVE  TurnsStep /\ WorkerStep
  BY <1>1, <1>9 DEF SayInit, NestedEnds, Ask, Finish
<1>10. ASSUME UNCHANGED vars PROVE TurnsStep /\ WorkerStep
  BY <1>1, <1>10 DEF vars
<1> QED
  BY <1>3, <1>4, <1>5, <1>6, <1>7, <1>8, <1>9, <1>10, ExitStep DEF Next, Program

\* The Turns with an outcome are all of them, but for a latest one that has no handle.
LEMMA OutcomesAre ==
  ASSUME Typed, Ordered
  PROVE  /\ Started = 1..Len(Outcomes) /\ Outcomes \in Seq(States)
         /\ Len(Outcomes) = IF LatestIs({"starting", "refused"}) THEN Len(turns) - 1 ELSE Len(turns)
<1>1. turns \in Seq(TurnRecords) /\ Len(turns) \in Nat /\ DOMAIN turns = 1..Len(turns)
  BY DEF Typed
<1> DEFINE n == IF LatestIs({"starting", "refused"}) THEN Len(turns) - 1 ELSE Len(turns)
<1>2. n \in Nat
  BY <1>1 DEF LatestIs
<1>3. Started = 1..n
  <2>1. \A t \in DOMAIN turns \ {Latest} : turns[t].state \notin {"starting", "refused"}
    BY DEF Ordered
  <2>2. Latest = Len(turns)
    BY DEF Latest
  <2>3. CASE LatestIs({"starting", "refused"})
    BY <1>1, <2>1, <2>2, <2>3 DEF Started, LatestIs
  <2>4. CASE ~LatestIs({"starting", "refused"})
    BY <1>1, <2>1, <2>2, <2>4 DEF Started, LatestIs
  <2> QED
    BY <2>3, <2>4
<1> HIDE DEF n
<1>4. \A t \in Started : turns[t].state \in States
  <2>1. \A t \in DOMAIN turns : turns[t] \in TurnRecords
    BY <1>1
  <2> QED
    BY <2>1 DEF Started, TurnRecords
<1>5. Outcomes \in [1..n -> States]
  BY <1>3, <1>4 DEF Outcomes
<1>6. Outcomes \in Seq(States) /\ Len(Outcomes) = n
  BY <1>2, <1>5
<1> QED
  BY <1>3, <1>6 DEF n

LEMMA SameOutcomes ==
  ASSUME IInv, TurnGoesOn \/ UNCHANGED turns
  PROVE  Outcomes' = Outcomes
<1>1. CASE UNCHANGED turns
  BY <1>1 DEF Outcomes, Started
<1>2. CASE TurnGoesOn
  <2>1. PICK turn \in TurnRecords : LatestBecomes(turn) /\ turn.state = turns[Latest].state
    BY <1>2 DEF TurnGoesOn
  <2>2. turns \in Seq(TurnRecords) /\ turns' = [turns EXCEPT ![Latest] = turn]
    BY <2>1 DEF IInv, Typed, LatestBecomes
  <2>3. DOMAIN turns' = DOMAIN turns /\ \A t \in DOMAIN turns : turns'[t].state = turns[t].state
    BY <2>1, <2>2
  <2>4. Started' = Started
    BY <2>3 DEF Started
  <2> QED
    BY <2>3, <2>4 DEF Outcomes, Started
<1> QED
  BY <1>1, <1>2

LEMMA OverSettles ==
  ASSUME IInv, TurnIsOver, UNCHANGED (worker = "closed")
  PROVE  Turns!Settle
<1>1. PICK turn \in TurnRecords :
        LatestIs({"active"}) /\ LatestBecomes(turn) /\ turn.state \in {"completed", "failed", "interrupted"}
  BY DEF TurnIsOver
<1>2. turns \in Seq(TurnRecords) /\ turns' = [turns EXCEPT ![Latest] = turn] /\ turns # <<>>
  BY <1>1 DEF IInv, Typed, LatestBecomes
<1>3. Latest \in DOMAIN turns /\ turns[Latest].state = "active"
  BY <1>1, <1>2, LatestExists DEF IInv, LatestIs
<1>4. DOMAIN turns' = DOMAIN turns /\ turns'[Latest] = turn
      /\ \A t \in DOMAIN turns \ {Latest} : turns'[t] = turns[t]
  BY <1>2, <1>3
<1>5. Started' = Started /\ Latest \in Started
  BY <1>1, <1>3, <1>4 DEF Started
<1>6. Outcomes[Latest] = "active" /\ Outcomes' = [Outcomes EXCEPT ![Latest] = turn.state]
  BY <1>1, <1>3, <1>4, <1>5 DEF Outcomes, Started
<1>7. Latest \in DOMAIN Outcomes
  BY <1>5 DEF Outcomes
<1> QED
  BY <1>1, <1>6, <1>7 DEF Turns!Settle, Turns!Outcomes

\* A Turn gets its handle.
LEMMA HandleStarts ==
  ASSUME IInv, IInv', worker # "closed", UNCHANGED (worker = "closed"),
         \A t \in Started : turns[t].state = "completed",
         Started' = Started \cup {Len(Outcomes) + 1},
         \A t \in Started : turns'[t].state = turns[t].state,
         turns'[Len(Outcomes) + 1].state = "active"
  PROVE  Turns!Start
<1>1. Started = 1..Len(Outcomes) /\ Outcomes \in Seq(States) /\ Len(Outcomes) \in Nat
  BY OutcomesAre DEF IInv
<1>2. DOMAIN Outcomes = 1..Len(Outcomes)
  BY <1>1
<1> DEFINE n == Len(Outcomes)
           more == Append(Outcomes, "active")
<1>3. /\ more \in Seq(States) /\ DOMAIN more = 1..(n + 1) /\ more[n + 1] = "active"
      /\ \A i \in 1..n : more[i] = Outcomes[i]
  <2>1. "active" \in States
    BY DEF States
  <2> QED
    BY <1>1, <2>1, AppendIs
<1>4. Started' = 1..(n + 1)
  BY <1>1
<1>5. \A t \in 1..(n + 1) : turns'[t].state = more[t]
  <2> TAKE t \in 1..(n + 1)
  <2>1. CASE t = n + 1
    BY <1>3, <2>1
  <2>2. CASE t \in 1..n
    <3>1. Outcomes[t] = turns[t].state
      BY <1>1, <2>2 DEF Outcomes
    <3> QED
      BY <1>1, <1>3, <2>2, <3>1
  <2> QED
    BY <1>1, <2>1, <2>2
<1>6. Outcomes' = [t \in 1..(n + 1) |-> turns'[t].state]
  BY <1>4 DEF Outcomes
<1> HIDE DEF n, more
<1>7. Outcomes' = more
  <2>1. more = [t \in 1..(n + 1) |-> more[t]]
    BY <1>3
  <2> QED
    BY <1>5, <1>6, <2>1
<1>8. \A t \in DOMAIN Outcomes : Outcomes[t] = "completed"
  BY <1>1, <1>2 DEF Outcomes
<1> QED
  BY <1>7, <1>8 DEF Turns!Start, more

LEMMA AnswerStep ==
  ASSUME IInv, IInv', TurnIsAnswered, UNCHANGED (worker = "closed")
  PROVE  Turns!Start \/ UNCHANGED Turns!vars
<1>1. PICK turn \in TurnRecords :
        LatestIs({"starting"}) /\ LatestBecomes(turn) /\ turn.state \in {"refused", "active"}
  BY DEF TurnIsAnswered
<1>2. turns \in Seq(TurnRecords) /\ turns' = [turns EXCEPT ![Latest] = turn] /\ turns # <<>>
  BY <1>1 DEF IInv, Typed, LatestBecomes
<1>3. Latest \in DOMAIN turns /\ turns[Latest].state = "starting" /\ Latest = Len(turns)
  BY <1>1, <1>2, LatestExists DEF IInv, LatestIs, Latest
<1>4. DOMAIN turns' = DOMAIN turns /\ turns'[Latest] = turn
      /\ \A t \in DOMAIN turns \ {Latest} : turns'[t] = turns[t]
  BY <1>2, <1>3
<1>5. Latest \notin Started
  BY <1>3 DEF Started
<1>6. CASE turn.state = "refused"
  <2>1. Started' = Started
    BY <1>3, <1>4, <1>6 DEF Started
  <2>2. \A t \in Started : turns'[t] = turns[t]
    BY <1>4, <1>5 DEF Started
  <2>3. Outcomes' = Outcomes
    BY <2>1, <2>2 DEF Outcomes
  <2> QED
    BY <2>3 DEF Turns!vars
<1>7. CASE turn.state = "active"
  <2>1. Started' = Started \cup {Latest}
    BY <1>3, <1>4, <1>7 DEF Started
  <2>2. \A t \in Started : turns'[t] = turns[t] /\ turns[t].state = "completed"
    BY <1>4, <1>5 DEF Started, IInv, Ordered
  <2>3. Len(Outcomes) + 1 = Latest
    <3>1. LatestIs({"starting", "refused"}) /\ Len(turns) \in Nat
      BY <1>2, <1>3 DEF LatestIs
    <3>2. Len(Outcomes) = Len(turns) - 1
      BY <3>1, OutcomesAre DEF IInv
    <3> QED
      BY <1>3, <3>1, <3>2
  <2>4. worker # "closed"
    <3>1. calls # {}
      BY <1>1 DEF IInv, CallsRight
    <3> QED
      BY <3>1 DEF IInv, CallsRight, EndRight
  <2> QED
    BY <1>4, <1>7, <2>1, <2>2, <2>3, <2>4, HandleStarts
<1> QED
  BY <1>1, <1>6, <1>7

LEMMA AddStep ==
  ASSUME IInv, IInv', TurnIsAdded
  PROVE  Turns!Start \/ UNCHANGED Turns!vars
<1>1. PICK turn \in TurnRecords :
        /\ MayStart /\ UNCHANGED worker /\ turns' = Append(turns, turn)
        /\ turn.state \in {"starting", "refused", "active"}
  BY DEF TurnIsAdded
<1>2. turns \in Seq(TurnRecords) /\ Len(turns) \in Nat /\ DOMAIN turns = 1..Len(turns)
  BY DEF IInv, Typed
<1>3. DOMAIN turns' = DOMAIN turns \cup {Len(turns) + 1} /\ turns'[Len(turns) + 1] = turn
      /\ \A t \in DOMAIN turns : turns'[t] = turns[t]
  BY <1>1, <1>2, AppendIs
<1>4. \A t \in DOMAIN turns : turns[t].state = "completed" /\ t # Len(turns) + 1
  BY <1>1, <1>2 DEF MayStart
<1>5. Started = DOMAIN turns
  BY <1>4 DEF Started
<1>6. CASE turn.state # "active"
  <2>1. Started' = Started
    BY <1>1, <1>3, <1>4, <1>5, <1>6 DEF Started
  <2>2. Outcomes' = Outcomes
    BY <1>3, <1>5, <2>1 DEF Outcomes
  <2> QED
    BY <1>1, <2>2 DEF Turns!vars
<1>7. CASE turn.state = "active"
  <2>1. Started' = Started \cup {Len(turns) + 1}
    BY <1>3, <1>4, <1>5, <1>7 DEF Started
  <2>2. Len(Outcomes) = Len(turns)
    <3>1. ~LatestIs({"starting", "refused"})
      BY <1>4, LatestExists DEF LatestIs, IInv
    <3> QED
      BY <3>1, OutcomesAre DEF IInv
  <2>3. worker # "closed"
    BY <1>1 DEF MayStart
  <2> QED
    BY <1>1, <1>3, <1>4, <1>5, <1>7, <2>1, <2>2, <2>3, HandleStarts
<1> QED
  BY <1>6, <1>7

LEMMA ContractStep ==
  ASSUME IInv, IInv', [Next]_vars
  PROVE  [Turns!Next]_Turns!vars
<1>1. TurnsStep /\ WorkerStep
  BY EveryStep
<1>2. CASE UNCHANGED (worker = "closed")
  <2>1. CASE UNCHANGED turns \/ TurnGoesOn
    BY <1>2, <2>1, SameOutcomes DEF Turns!vars
  <2>2. CASE TurnIsOver
    BY <1>2, <2>2, OverSettles DEF Turns!Next
  <2>3. CASE TurnIsAnswered
    BY <1>2, <2>3, AnswerStep DEF Turns!Next
  <2>4. CASE TurnIsAdded
    BY <2>4, AddStep DEF Turns!Next
  <2> QED
    BY <1>1, <2>1, <2>2, <2>3, <2>4 DEF TurnsStep
<1>3. CASE worker' = "closed" /\ worker = "closing" /\ process = "gone" /\ UNCHANGED turns
  <2>1. ~LatestIs({"active"})
    BY <1>3 DEF IInv, EndRight, LatestIs
  <2>2. Active = {}
    BY <2>1, LatestIsActive DEF IInv
  <2>3. \A t \in DOMAIN Outcomes : Outcomes[t] # "active"
    BY <2>2 DEF Active, Outcomes, Started
  <2>4. Outcomes' = Outcomes
    BY <1>3, SameOutcomes
  <2> QED
    BY <1>3, <2>3, <2>4 DEF Turns!Close, Turns!Next
<1> QED
  BY <1>1, <1>2, <1>3 DEF WorkerStep

\* Both executors keep the order of the contract, whatever the process, the people and the timers do:
\* one Turn at a time, one outcome that never changes, nothing at work when close has returned.
THEOREM ContractIsKept == Spec => KeepsOrder
<1>1. Init => Turns!Init
  <2> SUFFICES ASSUME Init PROVE Turns!Init
    OBVIOUS
  <2>1. Typed /\ Ordered /\ turns = <<>> /\ worker = "opening"
    BY InvInit DEF IInv, Init
  <2>2. Outcomes \in Seq(States) /\ Len(Outcomes) = 0
    BY <2>1, OutcomesAre DEF LatestIs
  <2>3. Outcomes = <<>>
    BY <2>2
  <2> QED
    BY <2>1, <2>3 DEF Turns!Init
<1>2. IInv /\ IInv' /\ [Next]_vars => [Turns!Next]_Turns!vars
  BY ContractStep
<1> QED
  BY <1>1, <1>2, Invariance, PTL DEF Spec, KeepsOrder, Turns!Safety
=============================================================================
