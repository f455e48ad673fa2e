---------------------------- MODULE TeamRunProofs -----------------------------
(***************************************************************************)
(* A Team run is accepted knowingly (AcceptedKnowingly of TeamRun), for    *)
(* any number of runs, Attempts, rounds, faults and edits.                 *)
(*                                                                         *)
(* The checkpoints may be ahead of the record, so a person may answer a    *)
(* question the graph has left. What saves the final decision is that the  *)
(* graph never leaves it but for its end: whoever was shown it, in the     *)
(* record or in what a handle or a command keeps, was shown the verdict    *)
(* the graph still has (Shown). That a verdict of passed is true (Truthful)*)
(* rests on the tree, which only moves on while a check runs.              *)
(*                                                                         *)
(* An answer to a handle without an operation makes the graph start over   *)
(* from any of its nodes. It never finds the final decision shown: there   *)
(* the contract takes the checkpoints, so there is an operation            *)
(* (DecisionOpen).                                                         *)
(*                                                                         *)
(* The record follows the graph (RecordFollows): as long as nothing fails, *)
(* the second half carries the run through the steps of a command, from    *)
(* the graph that moves on (its revision is ahead of the record) over the  *)
(* operation to the record and the end of the Attempt (Follows). Whatever  *)
(* fails, what is recorded, kept and brought to the record was a state of  *)
(* the graph, until an answer starts the graph over (ReachedInv).          *)
(***************************************************************************)
EXTENDS TeamRun, TLAPS

GraphCommand == [pc : {"graph"}, run : Runs, attempt : Attempts, answer : AnswerSet \cup {None}]
RecordCommand ==
  [pc : {"record", "verdict", "finish", "answer"}, run : Runs, attempt : Attempts, operation : State]
Checks ==
  [pc : {"running", "exited", "finished"}, before : Nat, exit : {0, 1, None}, group : {"gone", "alive"},
   timedOut : BOOLEAN, status : Verdicts \cup {None}]

\* A graph that asks for the final decision stands there, with a verdict.
AtItsQuestion(g) == g.pending = "final_decision" => g.next = "final_decision" /\ g.verdict \in Verdicts

\* Where a snapshot asks for the final decision, the graph g has not gone on and has its verdict.
Shown(x, g) ==
  x.pending = "final_decision" =>
    /\ x.verdict \in Verdicts
    /\ g \in State /\ g.next \in {"final_decision", "END"} /\ g.verdict = x.verdict

Truthful(g) == g.verdict = "passed" => g.attempt \in exact

GraphsRight ==
  graph \in [Runs -> State \cup {None}]
  /\ \A r \in Runs : graph[r] \in State => AtItsQuestion(graph[r]) /\ Truthful(graph[r])

RecordsRight ==
  record \in [Runs -> State \cup {None}] /\ \A r \in Runs : record[r] # None => Shown(record[r], graph[r])

HandlesRight ==
  live \in [Runs -> [last : State \cup {None}] \cup {None}]
  /\ \A r \in Runs : live[r] # None /\ live[r].last # None => graph[r] \in State /\ Shown(live[r].last, graph[r])

\* The command works at a graph that is there, and accepts what the record asks for.
CommandRight ==
  /\ cmd \in {Idle} \cup GraphCommand \cup RecordCommand
  /\ cmd.pc = "graph" =>
       /\ graph[cmd.run] \in State /\ live[cmd.run] \in [last : State \cup {None}]
       /\ cmd.answer = "accept" => record[cmd.run] # None /\ record[cmd.run].pending = "final_decision"
  /\ cmd.pc \notin {"idle", "graph"} => Shown(cmd.operation, graph[cmd.run])

\* The check of the command: while the tree is the one it began with, an exit with 0 was exact.
CheckRight ==
  /\ tree \in Nat
  /\ check # None =>
       /\ check \in Checks /\ check.before <= tree
       /\ cmd.pc = "graph" /\ graph[cmd.run].next = "verify"
       /\ check.exit = 0 /\ tree = check.before => graph[cmd.run].attempt \in exact
       /\ check.pc = "finished" => check.status \in Verdicts
       /\ check.status = "passed" => graph[cmd.run].attempt \in exact

IInv == GraphsRight /\ RecordsRight /\ HandlesRight /\ CommandRight /\ CheckRight

-----------------------------------------------------------------------------
(* Nodes *)

LEMMA AnswerList == AnswerSet = {"approve", "revise", "reject", "request_changes", "stop", "accept"}
BY DEF AnswerSet, Answers, Gates

\* None is none of the values a state is made of.
LEMMA NoneApart ==
  ASSUME TeamNone
  PROVE  None \notin State /\ None # 0 /\ None # "final_decision" /\ None # "accept" /\ None \notin Verdicts
BY AnswerList DEF TeamNone, Gates


LEMMA MovedState ==
  ASSUME NEW g \in State, NEW next \in Nodes, NEW status \in Statuses
  PROVE  /\ Moved(g, next, status) \in State
         /\ Moved(g, next, status).next = next
         /\ Moved(g, next, status).status = status
         /\ Moved(g, next, status).pending = g.pending
         /\ Moved(g, next, status).verdict = g.verdict
         /\ Moved(g, next, status).attempt = g.attempt
         /\ Moved(g, next, status).round = g.round
<1>1. g.revision + 1 \in Nat
  BY DEF State
<1> DEFINE n == g.revision + 1
<1>2. Moved(g, next, status) = [g EXCEPT !.next = next, !.status = status, !.revision = n]
  BY DEF Moved
<1> HIDE DEF n
<1>3. [g EXCEPT !.next = next, !.status = status, !.revision = n] \in State
  BY <1>1 DEF State, n
<1> QED
  BY <1>2, <1>3 DEF State

\* What a node keeps that is not verify: the verdict and the Attempt. It asks for no final decision.
Kept(g, h) ==
  /\ h \in State /\ h.verdict = g.verdict /\ h.attempt = g.attempt
  /\ h.pending # "final_decision"

\* A node moves the graph on and sets its question, not the final one.
LEMMA AskedState ==
  ASSUME NEW g \in State, NEW next \in Nodes, NEW status \in Statuses, NEW p \in Gates \cup {None}, p # "final_decision"
  PROVE  /\ Kept(g, [Moved(g, next, status) EXCEPT !.pending = p])
         /\ [Moved(g, next, status) EXCEPT !.pending = p].next = next
         /\ [Moved(g, next, status) EXCEPT !.pending = p].status = status
<1> DEFINE m == Moved(g, next, status)
<1>1. m \in State /\ m.next = next /\ m.status = status /\ m.verdict = g.verdict /\ m.attempt = g.attempt
  BY MovedState
<1> HIDE DEF m
<1>2. [m EXCEPT !.pending = p] \in State
  BY <1>1 DEF State
<1>3. /\ [m EXCEPT !.pending = p].pending = p /\ [m EXCEPT !.pending = p].next = m.next
      /\ [m EXCEPT !.pending = p].status = m.status /\ [m EXCEPT !.pending = p].verdict = m.verdict
      /\ [m EXCEPT !.pending = p].attempt = m.attempt
  BY <1>1 DEF State
<1> QED
  BY <1>1, <1>2, <1>3 DEF Kept, m

\* Or takes its question back.
LEMMA AnsweredState ==
  ASSUME NEW g \in State, NEW next \in Nodes, NEW status \in Statuses, None # "final_decision"
  PROVE  /\ Kept(g, [Moved(g, next, status) EXCEPT !.pending = None])
         /\ [Moved(g, next, status) EXCEPT !.pending = None].next = next
         /\ [Moved(g, next, status) EXCEPT !.pending = None].status = status
<1>1. None \in Gates \cup {None}
  OBVIOUS
<1> QED
  BY <1>1, AskedState

LEMMA ReviewRouteKeeps ==
  ASSUME NEW g \in State, NEW decision, None # "final_decision"
  PROVE  /\ Kept(g, ReviewRoute(g, decision))
         /\ ReviewRoute(g, decision).status # "completed"
<1>1. CASE decision = "request_changes" /\ g.round < MaxReviews
  <2> DEFINE m == Moved(g, "implement", "implementing")
  <2>1. m \in State /\ m.status = "implementing" /\ m.verdict = g.verdict /\ m.attempt = g.attempt /\ m.round = g.round
    BY MovedState DEF Nodes, Statuses
  <2>2. ReviewRoute(g, decision) = [m EXCEPT !.round = @ + 1, !.pending = None]
    BY <1>1 DEF ReviewRoute
  <2> HIDE DEF m
  <2> DEFINE n == m.round + 1
             h == [m EXCEPT !.round = n, !.pending = None]
  <2>3. n \in Nat
    BY <2>1 DEF State
  <2> HIDE DEF n
  <2>4. h \in State
    BY <2>1, <2>3 DEF State
  <2>5. h.pending = None /\ h.status = m.status /\ h.verdict = m.verdict /\ h.attempt = m.attempt
    BY <2>1 DEF State
  <2>6. ReviewRoute(g, decision) = h
    BY <2>2 DEF n
  <2> HIDE DEF h
  <2> QED
    BY <2>1, <2>4, <2>5, <2>6 DEF Kept
<1>2. CASE ~(decision = "request_changes" /\ g.round < MaxReviews) /\ decision = "stop"
  <2>1. ReviewRoute(g, decision) = [Moved(g, "stop", "stopped") EXCEPT !.pending = None]
    BY <1>2 DEF ReviewRoute
  <2>2. "stop" \in Nodes /\ "stopped" \in Statuses
    BY DEF Nodes, Statuses
  <2>3. /\ Kept(g, [Moved(g, "stop", "stopped") EXCEPT !.pending = None])
        /\ [Moved(g, "stop", "stopped") EXCEPT !.pending = None].status = "stopped"
    BY <2>2, AnsweredState
  <2> QED
    BY <2>1, <2>3
<1>3. CASE ~(decision = "request_changes" /\ g.round < MaxReviews) /\ decision # "stop"
  <2>1. ReviewRoute(g, decision) = [Moved(g, "verify", "verifying") EXCEPT !.pending = None]
    BY <1>3 DEF ReviewRoute
  <2>2. "verify" \in Nodes /\ "verifying" \in Statuses
    BY DEF Nodes, Statuses
  <2>3. /\ Kept(g, [Moved(g, "verify", "verifying") EXCEPT !.pending = None])
        /\ [Moved(g, "verify", "verifying") EXCEPT !.pending = None].status = "verifying"
    BY <2>2, AnsweredState
  <2> QED
    BY <2>1, <2>3
<1> QED
  BY <1>1, <1>2, <1>3

\* The nodes that ask nobody neither reach nor leave the final decision.
LEMMA AgentNodeKeeps ==
  ASSUME NEW g \in State, AtItsQuestion(g), NEW h \in AgentNode(g), None # "final_decision"
  PROVE  /\ Kept(g, h) /\ h.status # "completed"
         /\ g.next \notin {"final_decision", "END"} /\ g.pending # "final_decision"
<1>1. CASE g.next = "plan"
  <2>1. h = [Moved(g, "approve_plan", "awaiting_plan_approval") EXCEPT !.pending = "plan_approval"]
    BY <1>1 DEF AgentNode
  <2>2. "approve_plan" \in Nodes /\ "awaiting_plan_approval" \in Statuses /\ "plan_approval" \in Gates \cup {None}
    BY DEF Nodes, Statuses, Gates
  <2> QED
    BY <1>1, <2>1, <2>2, AskedState DEF AtItsQuestion
<1>2. CASE g.next = "implement"
  <2>1. h = Moved(g, "review", "reviewing")
    BY <1>2 DEF AgentNode
  <2> QED
    BY <1>2, <2>1, MovedState DEF Kept, Nodes, Statuses, AtItsQuestion
<1>3. CASE g.next = "review"
  <2>1. PICK d \in ReviewDecisions :
          h = [Moved(g, "route_review", IF Asks(g, d) THEN "awaiting_human_input" ELSE "reviewing")
                 EXCEPT !.review = d, !.pending = IF Asks(g, d) THEN "review_input" ELSE None]
    BY <1>3 DEF AgentNode
  <2> DEFINE p == IF Asks(g, d) THEN "review_input" ELSE None
             status == IF Asks(g, d) THEN "awaiting_human_input" ELSE "reviewing"
             m == Moved(g, "route_review", status)
  <2>2. /\ p \in Gates \cup {None} /\ p # "final_decision" /\ status \in Statuses /\ status # "completed"
        /\ "route_review" \in Nodes
    BY DEF Gates, Statuses, Nodes
  <2> HIDE DEF p, status
  <2>3. m \in State /\ m.status = status /\ m.verdict = g.verdict /\ m.attempt = g.attempt
    BY <2>2, MovedState
  <2>4. h = [m EXCEPT !.review = d, !.pending = p]
    BY <2>1 DEF p, status
  <2> HIDE DEF m
  <2> QED
    BY <1>3, <2>2, <2>3, <2>4 DEF State, Kept, AtItsQuestion
<1>4. CASE g.next = "route_review" /\ Gate(g) = None
  <2>1. h = ReviewRoute(g, IF g.review = None THEN "approve" ELSE g.review)
    BY <1>4 DEF AgentNode
  <2> QED
    BY <1>4, <2>1, ReviewRouteKeeps DEF AtItsQuestion
<1>5. CASE g.next = "stop"
  <2>1. h = Moved(g, "END", "stopped")
    BY <1>5 DEF AgentNode
  <2> QED
    BY <1>5, <2>1, MovedState DEF Kept, Nodes, Statuses, AtItsQuestion
<1> QED
  BY <1>1, <1>2, <1>3, <1>4, <1>5 DEF AgentNode

\* An answer completes a run only at the final decision, and that ends it.
LEMMA DecidedKeeps ==
  ASSUME NEW g \in State, AtItsQuestion(g), NEW answer \in AnswerSet,
         g.next \in {"approve_plan", "route_review", "final_decision"}, None # "final_decision"
  PROVE  LET h == Decided(g, answer)
         IN  /\ Kept(g, h)
             /\ h.status = "completed" => g.next = "final_decision" /\ answer = "accept"
             /\ g.next = "final_decision" => h.next = "END"
             /\ g.next # "final_decision" => g.pending # "final_decision"
<1>1. CASE g.next = "approve_plan" /\ answer \in {"reject", "stop"}
  <2>1. Decided(g, answer) = [Moved(g, "stop", "stopped") EXCEPT !.pending = None]
    BY <1>1 DEF Decided
  <2>2. "stop" \in Nodes /\ "stopped" \in Statuses
    BY DEF Nodes, Statuses
  <2>3. /\ Kept(g, [Moved(g, "stop", "stopped") EXCEPT !.pending = None])
        /\ [Moved(g, "stop", "stopped") EXCEPT !.pending = None].status = "stopped"
    BY <2>2, AnsweredState
  <2> QED
    BY <1>1, <2>1, <2>3 DEF AtItsQuestion
<1>2. CASE g.next = "approve_plan" /\ answer = "revise"
  <2>1. Decided(g, answer) = [Moved(g, "plan", "planning") EXCEPT !.pending = None]
    BY <1>2 DEF Decided
  <2>2. "plan" \in Nodes /\ "planning" \in Statuses
    BY DEF Nodes, Statuses
  <2>3. /\ Kept(g, [Moved(g, "plan", "planning") EXCEPT !.pending = None])
        /\ [Moved(g, "plan", "planning") EXCEPT !.pending = None].status = "planning"
    BY <2>2, AnsweredState
  <2> QED
    BY <1>2, <2>1, <2>3 DEF AtItsQuestion
<1>3. CASE g.next = "approve_plan" /\ answer \notin {"reject", "stop", "revise"}
  <2>1. Decided(g, answer) = [Moved(g, "implement", "implementing") EXCEPT !.pending = None]
    BY <1>3 DEF Decided
  <2>2. "implement" \in Nodes /\ "implementing" \in Statuses
    BY DEF Nodes, Statuses
  <2>3. /\ Kept(g, [Moved(g, "implement", "implementing") EXCEPT !.pending = None])
        /\ [Moved(g, "implement", "implementing") EXCEPT !.pending = None].status = "implementing"
    BY <2>2, AnsweredState
  <2> QED
    BY <1>3, <2>1, <2>3 DEF AtItsQuestion
<1>4. CASE g.next = "route_review"
  <2>1. Decided(g, answer) = ReviewRoute(g, answer)
    BY <1>4 DEF Decided
  <2> QED
    BY <1>4, <2>1, ReviewRouteKeeps DEF AtItsQuestion
<1>5. CASE g.next = "final_decision"
  <2> DEFINE status == IF answer = "accept" THEN "completed" ELSE "stopped"
             m == Moved(g, "END", status)
  <2>1. Decided(g, answer) = [m EXCEPT !.pending = None, !.final = answer]
    BY <1>5 DEF Decided
  <2>2. status \in Statuses /\ "END" \in Nodes /\ (status = "completed" => answer = "accept")
    BY DEF Statuses, Nodes
  <2> HIDE DEF status
  <2>3. m \in State /\ m.next = "END" /\ m.status = status /\ m.verdict = g.verdict /\ m.attempt = g.attempt
    BY <2>2, MovedState
  <2> HIDE DEF m
  <2> DEFINE new == [m EXCEPT !.pending = None, !.final = answer]
  <2>4. new \in State
    BY <2>3 DEF State
  <2>5. new.pending = None /\ new.next = m.next /\ new.status = m.status /\ new.verdict = m.verdict /\ new.attempt = m.attempt
    BY <2>3 DEF State
  <2> HIDE DEF new
  <2>6. Decided(g, answer) = new
    BY <2>1 DEF new
  <2> QED
    BY <1>5, <2>2, <2>3, <2>4, <2>5, <2>6 DEF Kept
<1> QED
  BY <1>1, <1>2, <1>3, <1>4, <1>5

-----------------------------------------------------------------------------
(* What steps share *)

\* The kinds of commands are told apart by where they stand.
LEMMA CommandKinds ==
  ASSUME CommandRight
  PROVE  /\ cmd = Idle => cmd.pc = "idle"
         /\ cmd.pc = "graph" => cmd \in GraphCommand /\ cmd.run \in Runs /\ cmd.attempt \in Attempts
         /\ cmd.pc \in {"record", "verdict", "finish", "answer"} =>
              cmd \in RecordCommand /\ cmd.run \in Runs /\ cmd.operation \in State /\ cmd.attempt \in Attempts
BY DEF CommandRight, Idle, GraphCommand, RecordCommand

\* A graph that works for a command is there.
LEMMA CommandGraph ==
  ASSUME GraphsRight, CommandRight, cmd.pc = "graph"
  PROVE  cmd.run \in Runs /\ graph[cmd.run] \in State /\ AtItsQuestion(graph[cmd.run]) /\ Truthful(graph[cmd.run])
<1>1. cmd.run \in Runs /\ graph[cmd.run] \in State
  BY CommandKinds DEF CommandRight
<1> QED
  BY <1>1 DEF GraphsRight

\* A snapshot taken of a graph shows what it asks.
LEMMA ShownNow ==
  ASSUME NEW g \in State, AtItsQuestion(g)
  PROVE  Shown(g, g)
BY DEF AtItsQuestion, Shown

\* One graph moves on, true and without losing what was shown of it.
LEMMA GraphMoves ==
  ASSUME GraphsRight, NEW r \in Runs, graph[r] \in State, NEW h \in State, graph' = [graph EXCEPT ![r] = h],
         exact' = exact, AtItsQuestion(h), Truthful(h),
         graph[r].next \in {"final_decision", "END"} => h.next = "END" /\ h.verdict = graph[r].verdict
  PROVE  /\ GraphsRight'
         /\ \A q \in Runs : \A x : Shown(x, graph[q]) => Shown(x, graph'[q])
         /\ \A q \in Runs : graph[q] \in State => graph'[q] \in State
<1>1. graph \in [Runs -> State \cup {None}]
  BY DEF GraphsRight
<1>2. graph'[r] = h /\ \A q \in Runs \ {r} : graph'[q] = graph[q]
  BY <1>1
<1>3. graph' \in [Runs -> State \cup {None}]
  BY <1>1
<1>4. GraphsRight'
  BY <1>2, <1>3 DEF GraphsRight, Truthful, AtItsQuestion
<1>5. \A x : Shown(x, graph[r]) => Shown(x, h)
  BY DEF Shown
<1>6. \A q \in Runs : \A x : Shown(x, graph[q]) => Shown(x, graph'[q])
  BY <1>2, <1>5
<1> QED
  BY <1>2, <1>4, <1>6

\* Records and handles stay right over such a move.
LEMMA OthersStay ==
  ASSUME RecordsRight, HandlesRight, UNCHANGED <<record, live>>,
         \A q \in Runs : \A x : Shown(x, graph[q]) => Shown(x, graph'[q]),
         \A q \in Runs : graph[q] \in State => graph'[q] \in State
  PROVE  RecordsRight' /\ HandlesRight'
BY DEF RecordsRight, HandlesRight

\* A command ends.
LEMMA IdleRight ==
  ASSUME cmd' = Idle
  PROVE  CommandRight'
BY DEF CommandRight, Idle

-----------------------------------------------------------------------------
(* The graph: one lemma for each of its steps *)

LEMMA RunNodeKeeps ==
  ASSUME IInv, TeamNone, RunNode
  PROVE  IInv' /\ (graph'[cmd.run].status = "completed" =>
                    graph[cmd.run].next = "final_decision" /\ cmd.answer = "accept")
<1> DEFINE r == cmd.run
           g == graph[r]
<1>1. r \in Runs /\ g \in State /\ AtItsQuestion(g) /\ Truthful(g) /\ cmd \in GraphCommand /\ None # "final_decision"
  BY CommandGraph, CommandKinds, NoneApart DEF IInv, RunNode
<1>2. PICK h : /\ graph' = [graph EXCEPT ![r] = h]
               /\ \/ h \in AgentNode(g)
                  \/ Gate(g) # None /\ cmd.answer # None /\ h = Decided(g, cmd.answer)
  BY DEF RunNode
<1>3. Kept(g, h) /\ (h.status = "completed" => g.next = "final_decision" /\ cmd.answer = "accept")
      /\ (g.next \in {"final_decision", "END"} => h.next = "END")
  <2>1. CASE h \in AgentNode(g)
    BY <1>1, <2>1, AgentNodeKeeps
  <2>2. CASE Gate(g) # None /\ cmd.answer # None /\ h = Decided(g, cmd.answer)
    <3>1. g.next \in {"approve_plan", "route_review", "final_decision"}
      BY <2>2 DEF Gate
    <3>2. cmd.answer \in AnswerSet
      BY <1>1, <2>2 DEF GraphCommand
    <3> QED
      BY <1>1, <2>2, <3>1, <3>2, DecidedKeeps
  <2> QED
    BY <1>2, <2>1, <2>2
<1>4. AtItsQuestion(h) /\ Truthful(h) /\ h \in State /\ h.verdict = g.verdict
  BY <1>1, <1>3 DEF Kept, AtItsQuestion, Truthful
<1>5. cmd' = [cmd EXCEPT !.answer = None] /\ check = None /\ cmd.pc = "graph" /\ UNCHANGED <<record, live, check, tree, exact>>
  BY DEF RunNode, process
<1> HIDE DEF r, g
<1>6. /\ GraphsRight'
      /\ \A q \in Runs : \A x : Shown(x, graph[q]) => Shown(x, graph'[q])
      /\ \A q \in Runs : graph[q] \in State => graph'[q] \in State
  BY <1>1, <1>2, <1>3, <1>4, <1>5, GraphMoves DEF IInv, g
<1>7. RecordsRight' /\ HandlesRight'
  BY <1>5, <1>6, OthersStay DEF IInv
<1>8. CommandRight'
  <2>1. cmd' \in GraphCommand /\ cmd'.pc = "graph" /\ cmd'.run = r /\ cmd'.answer = None
    BY <1>1, <1>5 DEF GraphCommand, r
  <2>2. live[r] \in [last : State \cup {None}]
    BY <1>5 DEF IInv, CommandRight, r
  <2>3. graph'[r] \in State
    BY <1>1, <1>6 DEF g
  <2> QED
    BY <1>5, <2>1, <2>2, <2>3, NoneApart DEF CommandRight
<1>9. CheckRight'
  BY <1>5 DEF IInv, CheckRight
<1>10. graph'[r] = h
  BY <1>1, <1>2 DEF IInv, GraphsRight
<1> QED
  BY <1>3, <1>6, <1>7, <1>8, <1>9, <1>10 DEF IInv, r, g

\* The graph asks or has ended: what it shows is noted.
LEMMA OperationKeeps ==
  ASSUME IInv, Operation
  PROVE  IInv'
<1> DEFINE r == cmd.run
           g == graph[r]
<1>1. r \in Runs /\ g \in State /\ AtItsQuestion(g) /\ cmd \in GraphCommand /\ cmd.attempt \in Attempts
  BY CommandGraph, CommandKinds DEF IInv, Operation
<1>2. check = None /\ UNCHANGED <<graph, record, check, tree, exact>>
  BY DEF Operation, disk, process
<1>3. GraphsRight' /\ RecordsRight' /\ CheckRight'
  BY <1>2 DEF IInv, GraphsRight, RecordsRight, CheckRight, Truthful
<1>4. CASE Valid(g)
  <2>1. live' = [live EXCEPT ![r].last = g] /\ live[r] \in [last : State \cup {None}]
    BY <1>4 DEF Operation, IInv, CommandRight
  <2>2. cmd' = [pc |-> "record", run |-> r, attempt |-> cmd.attempt, operation |-> g]
    BY <1>4 DEF Operation
  <2>3. Shown(g, g)
    BY <1>1, ShownNow
  <2> HIDE DEF r, g
  <2>4. CommandRight'
    <3>1. cmd' \in RecordCommand /\ cmd'.pc = "record" /\ cmd'.operation = g /\ cmd'.run = r
      BY <1>1, <2>2 DEF RecordCommand
    <3> QED
      BY <1>2, <2>3, <3>1 DEF CommandRight, g
  <2>5. HandlesRight'
    <3>1. live' \in [Runs -> [last : State \cup {None}] \cup {None}]
      BY <1>1, <2>1 DEF IInv, HandlesRight
    <3>2. live'[r].last = g /\ \A q \in Runs \ {r} : live'[q] = live[q]
      BY <1>1, <2>1 DEF IInv, HandlesRight
    <3> QED
      BY <1>1, <1>2, <2>3, <3>1, <3>2 DEF IInv, HandlesRight, g
  <2> QED
    BY <1>3, <2>4, <2>5 DEF IInv
<1>5. CASE ~Valid(g)
  <2>1. cmd' = Idle /\ UNCHANGED live
    BY <1>5 DEF Operation, Fails
  <2> QED
    BY <1>2, <1>3, <2>1, IdleRight DEF IInv, HandlesRight
<1> QED
  BY <1>4, <1>5

-----------------------------------------------------------------------------
(* Commands *)

LEMMA LastRight ==
  ASSUME GraphsRight, HandlesRight, NEW r \in Runs, LastOperation(r) # None
  PROVE  LastOperation(r) \in State /\ graph[r] \in State /\ Shown(LastOperation(r), graph[r])
<1>1. CASE live[r] # None
  BY <1>1 DEF LastOperation, HandlesRight
<1>2. CASE live[r] = None
  <2>1. LastOperation(r) = graph[r] /\ graph[r] # None
    BY <1>2 DEF LastOperation
  <2> QED
    BY <2>1, ShownNow DEF GraphsRight
<1> QED
  BY <1>1, <1>2

\* Only the final decision is answered with accept.
LEMMA AnswersKnown ==
  ASSUME NEW p \in Gates \cup {None}, NEW answer \in ResumeInput(p)
  PROVE  answer \in AnswerSet /\ p # None /\ (answer = "accept" => p = "final_decision")
BY AnswerList DEF ResumeInput, Gates, Answers

\* A handle is made of the last operation.
LEMMA HandleRight ==
  ASSUME GraphsRight, HandlesRight, NEW r \in Runs, live' = [live EXCEPT ![r] = Handle(LastOperation(r))],
         UNCHANGED graph
  PROVE  HandlesRight' /\ live'[r] \in [last : State \cup {None}]
<1> DEFINE last == LastOperation(r)
<1>1. last \in State \cup {None} /\ (last # None => graph[r] \in State /\ Shown(last, graph[r]))
  BY LastRight
<1> HIDE DEF last
<1>2. live' = [live EXCEPT ![r] = [last |-> last]]
  BY DEF Handle, last
<1>3. live' \in [Runs -> [last : State \cup {None}] \cup {None}] /\ live'[r] = [last |-> last]
      /\ \A q \in Runs \ {r} : live'[q] = live[q]
  BY <1>1, <1>2 DEF HandlesRight
<1> QED
  BY <1>1, <1>3 DEF HandlesRight

\* A graph that starts asks and says nothing yet.
LEMMA FreshRight ==
  ASSUME TeamNone, NEW a \in Attempts
  PROVE  Fresh(a) \in State /\ AtItsQuestion(Fresh(a)) /\ Truthful(Fresh(a)) /\ Fresh(a).final = None /\ Fresh(a).next = "plan"
BY NoneApart DEF Fresh, State, AtItsQuestion, Truthful, Nodes, Statuses, Verdicts, ReviewDecisions

LEMMA StartRunKeeps ==
  ASSUME IInv, TeamNone, NEW r \in Runs, NEW a \in Attempts, StartRun(r, a)
  PROVE  IInv'
<1>1. cmd = Idle /\ record[r] = None /\ UNCHANGED <<record, check, tree, exact>>
  BY DEF StartRun, process
<1>2. check = None
  BY <1>1 DEF IInv, CheckRight, Idle
<1>3. CheckRight'
  BY <1>1, <1>2 DEF IInv, CheckRight
<1>4. CASE live[r] = None /\ graph[r] = None
  <2>1. graph' = [graph EXCEPT ![r] = Fresh(a)] /\ live' = [live EXCEPT ![r] = [last |-> None]]
        /\ cmd' = [pc |-> "graph", run |-> r, attempt |-> a, answer |-> None]
    BY <1>4 DEF StartRun, LastOperation, Handle
  <2>2. Fresh(a) \in State /\ AtItsQuestion(Fresh(a)) /\ Truthful(Fresh(a))
    BY FreshRight
  <2>3. graph' \in [Runs -> State \cup {None}] /\ graph'[r] = Fresh(a) /\ \A q \in Runs \ {r} : graph'[q] = graph[q]
    BY <2>1, <2>2 DEF IInv, GraphsRight
  <2>4. live' \in [Runs -> [last : State \cup {None}] \cup {None}] /\ live'[r] = [last |-> None]
        /\ \A q \in Runs \ {r} : live'[q] = live[q]
    BY <2>1 DEF IInv, HandlesRight
  <2>5. GraphsRight'
    BY <1>1, <2>2, <2>3 DEF IInv, GraphsRight, Truthful
  <2>6. RecordsRight' /\ HandlesRight'
    BY <1>1, <2>3, <2>4 DEF IInv, RecordsRight, HandlesRight
  <2>7. CommandRight'
    <3>1. cmd' \in GraphCommand /\ cmd'.pc = "graph" /\ cmd'.run = r /\ cmd'.answer = None
      BY <2>1 DEF GraphCommand
    <3>2. live'[r] \in [last : State \cup {None}]
      BY <2>4
    <3> QED
      BY <2>2, <2>3, <3>1, <3>2, NoneApart DEF CommandRight
  <2> QED
    BY <1>3, <2>5, <2>6, <2>7 DEF IInv
<1>5. CASE ~(live[r] = None /\ graph[r] = None)
  <2>1. graph' = graph /\ live' = [live EXCEPT ![r] = Handle(LastOperation(r))]
        /\ cmd' = IF LastOperation(r) # None
                   THEN [pc |-> "record", run |-> r, attempt |-> a, operation |-> LastOperation(r)] ELSE Idle
    BY <1>5 DEF StartRun
  <2>2. HandlesRight'
    BY <2>1, HandleRight DEF IInv
  <2>3. GraphsRight' /\ RecordsRight'
    BY <1>1, <2>1 DEF IInv, GraphsRight, RecordsRight, Truthful
  <2>4. CommandRight'
    <3>1. CASE LastOperation(r) # None
      <4> DEFINE last == LastOperation(r)
      <4>1. last \in State /\ Shown(last, graph[r])
        BY <3>1, LastRight DEF IInv
      <4>2. cmd' = [pc |-> "record", run |-> r, attempt |-> a, operation |-> last]
        BY <2>1, <3>1
      <4> HIDE DEF last
      <4>3. cmd' \in RecordCommand /\ cmd'.pc = "record" /\ cmd'.run = r /\ cmd'.operation = last
        BY <4>1, <4>2 DEF RecordCommand
      <4> QED
        BY <2>1, <4>1, <4>3 DEF CommandRight
    <3>2. CASE LastOperation(r) = None
      BY <2>1, <3>2, IdleRight
    <3> QED
      BY <3>1, <3>2
  <2> QED
    BY <1>3, <2>2, <2>3, <2>4 DEF IInv
<1> QED
  BY <1>4, <1>5

\* What is forgotten was shown to nobody.
LEMMA ResetKeeps ==
  ASSUME IInv, TeamNone, NEW r \in Runs, Reset(r)
  PROVE  IInv'
<1>1. cmd = Idle /\ cmd' = Idle /\ UNCHANGED <<check, tree, exact>>
  BY DEF Reset, process
<1>2. graph' = [graph EXCEPT ![r] = None] /\ live' = [live EXCEPT ![r] = None] /\ record' = [record EXCEPT ![r] = None]
  BY DEF Reset
<1>3. check = None
  BY <1>1 DEF IInv, CheckRight, Idle
<1>4. CheckRight'
  BY <1>1, <1>3 DEF IInv, CheckRight
<1>5. /\ graph' \in [Runs -> State \cup {None}] /\ record' \in [Runs -> State \cup {None}]
      /\ live' \in [Runs -> [last : State \cup {None}] \cup {None}]
      /\ graph'[r] = None /\ live'[r] = None /\ record'[r] = None
      /\ \A q \in Runs \ {r} : graph'[q] = graph[q] /\ live'[q] = live[q] /\ record'[q] = record[q]
  BY <1>2 DEF IInv, GraphsRight, HandlesRight, RecordsRight
<1>6. RecordsRight' /\ HandlesRight'
  BY <1>5 DEF IInv, RecordsRight, HandlesRight
<1>7. GraphsRight'
  BY <1>1, <1>5, NoneApart DEF IInv, GraphsRight, Truthful
<1> QED
  BY <1>1, <1>4, <1>6, <1>7, IdleRight DEF IInv

-----------------------------------------------------------------------------
(* The verification *)

\* Steps of a check that leave the graph, what people see and the command alone.
LEMMA CheckSteps ==
  ASSUME IInv, UNCHANGED <<graph, record, live, cmd>>, exact \subseteq exact', CheckRight'
  PROVE  IInv'
<1>1. GraphsRight'
  BY DEF IInv, GraphsRight, Truthful
<1>2. RecordsRight' /\ HandlesRight' /\ CommandRight'
  BY DEF IInv, RecordsRight, HandlesRight, CommandRight
<1> QED
  BY <1>1, <1>2 DEF IInv

LEMMA StartCheckKeeps ==
  ASSUME IInv, TeamNone, StartCheck
  PROVE  IInv'
<1>1. UNCHANGED <<graph, record, live, cmd, tree, exact>> /\ cmd.pc = "graph" /\ graph[cmd.run].next = "verify"
      /\ check' = [pc |-> "running", before |-> tree, exit |-> None, group |-> "gone", timedOut |-> FALSE, status |-> None]
  BY DEF StartCheck, disk
<1>2. CheckRight'
  BY <1>1, NoneApart DEF IInv, CheckRight, Checks, Verdicts
<1> QED
  BY <1>1, <1>2, CheckSteps

LEMMA EditTreeKeeps ==
  ASSUME IInv, EditTree
  PROVE  IInv'
<1>1. UNCHANGED <<graph, record, live, cmd, check, exact>> /\ tree' = tree + 1 /\ check # None /\ check.status = None
  BY DEF EditTree, disk
<1>2. check.before \in Nat
  BY <1>1 DEF IInv, CheckRight, Checks
<1>3. CheckRight'
  BY <1>1, <1>2 DEF IInv, CheckRight
<1> QED
  BY <1>1, <1>3, CheckSteps

\* An exit with 0 on the tree of the beginning is exact.
LEMMA CheckExitsKeeps ==
  ASSUME IInv, TeamNone, NEW code \in {0, 1}, NEW group \in {"gone", "alive"}, CheckExits(code, group)
  PROVE  IInv'
<1>1. UNCHANGED <<graph, record, live, cmd, tree>> /\ check # None
      /\ check' = [check EXCEPT !.pc = "exited", !.exit = code, !.group = group]
  BY DEF CheckExits, disk
<1>2. exact' = IF code = 0 /\ tree = check.before THEN exact \cup {graph[cmd.run].attempt} ELSE exact
  BY DEF CheckExits
<1>3. check \in Checks
  BY <1>1 DEF IInv, CheckRight
<1>4. /\ check' \in Checks /\ check'.pc = "exited" /\ check'.exit = code /\ check'.before = check.before
      /\ check'.status = check.status
  BY <1>1, <1>3 DEF Checks
<1>5. CheckRight'
  BY <1>1, <1>2, <1>4 DEF IInv, CheckRight
<1> QED
  BY <1>1, <1>2, <1>5, CheckSteps

LEMMA CheckTimesOutKeeps ==
  ASSUME IInv, CheckTimesOut
  PROVE  IInv'
<1>1. UNCHANGED <<graph, record, live, cmd, tree, exact>> /\ check # None
      /\ check' = [check EXCEPT !.pc = "exited", !.timedOut = TRUE]
  BY DEF CheckTimesOut, disk
<1>2. check \in Checks
  BY <1>1 DEF IInv, CheckRight
<1>3. /\ check' \in Checks /\ check'.pc = "exited" /\ check'.exit = check.exit /\ check'.before = check.before
      /\ check'.status = check.status
  BY <1>1, <1>2 DEF Checks
<1>4. CheckRight'
  BY <1>1, <1>3 DEF IInv, CheckRight
<1> QED
  BY <1>1, <1>4, CheckSteps

\* A check that says passed has exited with 0, and the tree is still the one of the beginning.
LEMMA CheckFinishesKeeps ==
  ASSUME IInv, TeamNone, CheckFinishes
  PROVE  IInv'
<1>1. UNCHANGED <<graph, record, live, cmd, tree, exact>> /\ check # None
  BY DEF CheckFinishes
<1>2. PICK status \in Verdicts :
        /\ check' = [check EXCEPT !.pc = "finished", !.status = status]
        /\ status = "passed" => check.exit = 0 /\ tree = check.before
  BY DEF CheckFinishes, RevisionMatched, Verdicts
<1>3. check \in Checks
  BY <1>1 DEF IInv, CheckRight
<1>4. /\ check' \in Checks /\ check'.pc = "finished" /\ check'.exit = check.exit /\ check'.before = check.before
      /\ check'.status = status
  BY <1>2, <1>3 DEF Checks
<1>5. CheckRight'
  BY <1>1, <1>2, <1>4 DEF IInv, CheckRight
<1> QED
  BY <1>1, <1>5, CheckSteps

\* The graph takes the verdict over and asks; nobody was shown a question of its node.
LEMMA CheckedKeeps ==
  ASSUME IInv, Checked
  PROVE  IInv' /\ graph'[cmd.run].status # "completed"
<1> DEFINE r == cmd.run
           g == graph[r]
           m == Moved(g, "final_decision", "awaiting_human_decision")
           h == [m EXCEPT !.pending = "final_decision", !.verdict = check.status]
<1>1. /\ check # None /\ check.pc = "finished" /\ check' = None /\ UNCHANGED <<record, live, cmd, tree, exact>>
      /\ graph' = [graph EXCEPT ![r] = h]
  BY DEF Checked
<1>2. cmd.pc = "graph" /\ g.next = "verify" /\ check.status \in Verdicts /\ (check.status = "passed" => g.attempt \in exact)
  BY <1>1 DEF IInv, CheckRight
<1>3. r \in Runs /\ g \in State
  BY <1>2, CommandGraph DEF IInv
<1>4. m \in State /\ m.next = "final_decision" /\ m.status = "awaiting_human_decision" /\ m.attempt = g.attempt
  BY <1>3, MovedState DEF Nodes, Statuses
<1> HIDE DEF m
<1>5. /\ h \in State /\ h.next = "final_decision" /\ h.status = "awaiting_human_decision" /\ h.attempt = g.attempt
      /\ h.verdict = check.status
  BY <1>2, <1>4 DEF State, Gates
<1> HIDE DEF h
<1>6. AtItsQuestion(h) /\ Truthful(h)
  BY <1>2, <1>5 DEF AtItsQuestion, Truthful
<1> HIDE DEF r, g
<1>7. g.next \notin {"final_decision", "END"} /\ g = graph[r]
  BY <1>2 DEF g
<1>8. /\ GraphsRight'
      /\ \A q \in Runs : \A x : Shown(x, graph[q]) => Shown(x, graph'[q])
      /\ \A q \in Runs : graph[q] \in State => graph'[q] \in State
  BY <1>1, <1>3, <1>5, <1>6, <1>7, GraphMoves DEF IInv
<1>9. RecordsRight' /\ HandlesRight'
  BY <1>1, <1>8, OthersStay DEF IInv
<1>10. CommandRight'
  BY <1>1, <1>2, <1>3, <1>8 DEF IInv, CommandRight, r
<1>11. CheckRight'
  BY <1>1 DEF IInv, CheckRight
<1>12. graph'[r] = h
  BY <1>1, <1>3 DEF IInv, GraphsRight
<1> QED
  BY <1>5, <1>8, <1>9, <1>10, <1>11, <1>12 DEF IInv, r

-----------------------------------------------------------------------------
(* The record *)

\* A command that no longer works at the graph has no check.
LEMMA NoCheck ==
  ASSUME IInv, cmd.pc # "graph"
  PROVE  check = None /\ (UNCHANGED <<check, tree>> => CheckRight')
BY DEF IInv, CheckRight

\* Steps of a command that leave the graph and what people see alone.
LEMMA CommandSteps ==
  ASSUME IInv, cmd.pc # "graph", UNCHANGED <<graph, record, live, check, tree, exact>>, CommandRight'
  PROVE  IInv'
<1>1. CheckRight'
  BY NoCheck
<1>2. GraphsRight' /\ RecordsRight' /\ HandlesRight'
  BY DEF IInv, GraphsRight, RecordsRight, HandlesRight, Truthful
<1> QED
  BY <1>1, <1>2 DEF IInv

\* A command goes on with the snapshot it has.
LEMMA CommandMoves ==
  ASSUME IInv, NEW pc \in {"record", "verdict", "finish", "answer"}, UNCHANGED graph,
         cmd.pc \in {"record", "verdict", "finish", "answer"}, cmd' = [cmd EXCEPT !.pc = pc]
  PROVE  CommandRight'
<1>1. cmd \in RecordCommand /\ Shown(cmd.operation, graph[cmd.run])
  BY CommandKinds DEF IInv, CommandRight
<1>2. cmd' \in RecordCommand /\ cmd'.pc = pc /\ cmd'.run = cmd.run /\ cmd'.operation = cmd.operation
  BY <1>1 DEF RecordCommand
<1> QED
  BY <1>1, <1>2 DEF CommandRight

\* What is recorded is the snapshot of the command, as the Attempt of the command.
LEMMA RecordOperationKeeps ==
  ASSUME IInv, RecordOperation
  PROVE  IInv'
<1> DEFINE r == cmd.run
           op == cmd.operation
           pc == IF op.status = "awaiting_human_decision" THEN "verdict" ELSE IF Terminal(op) THEN "finish" ELSE "answer"
<1>1. /\ cmd.pc = "record" /\ UNCHANGED <<graph, live, check, tree, exact>> /\ cmd' = [cmd EXCEPT !.pc = pc]
      /\ pc \in {"record", "verdict", "finish", "answer"}
  BY DEF RecordOperation, process
<1>2. r \in Runs /\ op \in State /\ cmd.attempt \in Attempts /\ Shown(op, graph[r])
  BY <1>1, CommandKinds DEF IInv, CommandRight
<1>3. record' = record \/ record' = [record EXCEPT ![r] = [op EXCEPT !.attempt = cmd.attempt]]
  BY DEF RecordOperation
<1> HIDE DEF r, op, pc
<1>4. RecordsRight'
  <2>1. CASE record' = record
    BY <1>1, <2>1 DEF IInv, RecordsRight
  <2>2. CASE record' = [record EXCEPT ![r] = [op EXCEPT !.attempt = cmd.attempt]]
    <3> DEFINE x == [op EXCEPT !.attempt = cmd.attempt]
    <3>1. x \in State /\ x.pending = op.pending /\ x.verdict = op.verdict
      BY <1>2 DEF State
    <3>2. Shown(x, graph[r])
      BY <1>2, <3>1 DEF Shown
    <3> HIDE DEF x
    <3>3. record' \in [Runs -> State \cup {None}] /\ record'[r] = x /\ \A q \in Runs \ {r} : record'[q] = record[q]
      BY <1>2, <2>2, <3>1 DEF IInv, RecordsRight, x
    <3> QED
      BY <1>1, <3>2, <3>3 DEF IInv, RecordsRight
  <2> QED
    BY <1>3, <2>1, <2>2
<1>5. CommandRight'
  BY <1>1, CommandMoves
<1>6. CheckRight'
  BY <1>1, NoCheck
<1>7. GraphsRight' /\ HandlesRight'
  BY <1>1 DEF IInv, GraphsRight, HandlesRight, Truthful
<1> QED
  BY <1>4, <1>5, <1>6, <1>7 DEF IInv

LEMMA RecordVerificationKeeps ==
  ASSUME IInv, RecordVerification
  PROVE  IInv'
<1>1. cmd.pc = "verdict" /\ cmd' = [cmd EXCEPT !.pc = "answer"] /\ UNCHANGED <<graph, record, live, check, tree, exact>>
  BY DEF RecordVerification, process
<1>2. CommandRight'
  BY <1>1, CommandMoves
<1> QED
  BY <1>1, <1>2, CommandSteps

LEMMA FinishAttemptKeeps ==
  ASSUME IInv, FinishAttempt
  PROVE  IInv'
<1>1. cmd.pc = "finish" /\ cmd' = [cmd EXCEPT !.pc = "answer"] /\ UNCHANGED <<graph, record, live, check, tree, exact>>
  BY DEF FinishAttempt, process
<1>2. CommandRight'
  BY <1>1, CommandMoves
<1> QED
  BY <1>1, <1>2, CommandSteps

\* A command that is answered, or that fails where it records.
LEMMA CommandEnds ==
  ASSUME IInv, AnswerCommand \/ WriteFails
  PROVE  IInv'
<1>1. cmd.pc # "graph" /\ cmd' = Idle /\ UNCHANGED <<graph, record, live, check, tree, exact>>
  BY DEF AnswerCommand, WriteFails, Fails, disk, process
<1> QED
  BY <1>1, IdleRight, CommandSteps

\* An agent that fails has no check.
LEMMA NodeFailsKeeps ==
  ASSUME IInv, NodeFails
  PROVE  IInv'
<1>1. cmd' = Idle /\ UNCHANGED <<graph, record, live, check, tree, exact>> /\ graph[cmd.run].next # "verify"
  BY DEF NodeFails, Fails, disk, process, Agents
<1>2. GraphsRight' /\ RecordsRight' /\ HandlesRight' /\ CheckRight'
  BY <1>1 DEF IInv, GraphsRight, RecordsRight, HandlesRight, CheckRight, Truthful
<1> QED
  BY <1>1, <1>2, IdleRight DEF IInv

LEMMA RestartKeeps ==
  ASSUME IInv, Restart
  PROVE  IInv'
<1>1. cmd' = Idle /\ check' = None /\ live' = [r \in Runs |-> None] /\ UNCHANGED <<graph, record, tree, exact>>
  BY DEF Restart
<1>2. GraphsRight' /\ RecordsRight' /\ CheckRight'
  BY <1>1 DEF IInv, GraphsRight, RecordsRight, CheckRight, Truthful
<1>3. HandlesRight'
  BY <1>1 DEF HandlesRight
<1> QED
  BY <1>1, <1>2, <1>3, IdleRight DEF IInv

-----------------------------------------------------------------------------
(* What the nodes ask *)

\* A graph that waits shows its question, but for a review that approves in the last round; one
\* that has ended is over; it ends with an answer to the final question.
QuestionRight(g) ==
  /\ Gate(g) # None =>
       /\ ~Terminal(g)
       /\ g.pending = Gate(g) \/ (g.pending = None /\ g.status = "reviewing" /\ g.review \in {"approve", None})
  /\ g.next = "END" => Terminal(g)
  /\ g.final \in {None, "accept", "stop"}

\* What None is not.
LEMMA NoneAsks ==
  ASSUME TeamNone
  PROVE  /\ None \notin State /\ None \notin Gates /\ None \notin AttemptStatuses
         /\ None # "accept" /\ None # "stop" /\ None # "plan_approval" /\ None # "review_input" /\ None # "final_decision"
BY AnswerList DEF TeamNone, Gates

LEMMA MovedOn ==
  ASSUME NEW g \in State, NEW next \in Nodes, NEW status \in Statuses
  PROVE  /\ Moved(g, next, status).revision = g.revision + 1
         /\ Moved(g, next, status).review = g.review
         /\ Moved(g, next, status).final = g.final
<1> DEFINE n == g.revision + 1
<1>1. Moved(g, next, status) = [g EXCEPT !.next = next, !.status = status, !.revision = n]
  BY DEF Moved
<1> HIDE DEF n
<1>2. /\ [g EXCEPT !.next = next, !.status = status, !.revision = n].revision = n
      /\ [g EXCEPT !.next = next, !.status = status, !.revision = n].review = g.review
      /\ [g EXCEPT !.next = next, !.status = status, !.revision = n].final = g.final
  BY DEF State
<1> QED
  BY <1>1, <1>2 DEF n

\* The next state has the next revision and asks what its node asks.
MovesOn(g, h) ==
  /\ h.revision = g.revision + 1
  /\ g.final \in {None, "accept", "stop"} => QuestionRight(h)

\* A node that asks nobody at all.
Quiet == {"plan", "implement", "review", "verify", "stop"}

LEMMA QuietRight ==
  ASSUME NEW h, h.next \in Quiet, h.final \in {None, "accept", "stop"}
  PROVE  QuestionRight(h)
BY DEF QuestionRight, Gate, Quiet

\* A node sets a question of its own, or takes its question back.
LEMMA QuietNode ==
  ASSUME NEW g \in State, NEW next \in Quiet, NEW status \in Statuses
  PROVE  MovesOn(g, [Moved(g, next, status) EXCEPT !.pending = None])
<1> DEFINE m == Moved(g, next, status)
<1>1. next \in Nodes
  BY DEF Quiet, Nodes
<1>2. m \in State /\ m.next = next /\ m.revision = g.revision + 1 /\ m.final = g.final
  BY <1>1, MovedState, MovedOn
<1> HIDE DEF m
<1> DEFINE h == [m EXCEPT !.pending = None]
<1>3. h.next = m.next /\ h.revision = m.revision /\ h.final = m.final
  BY <1>2 DEF State
<1> HIDE DEF h
<1>4. MovesOn(g, h)
  BY <1>2, <1>3, QuietRight DEF MovesOn
<1> QED
  BY <1>4 DEF h, m

LEMMA ReviewRouteAsks ==
  ASSUME NEW g \in State, NEW decision
  PROVE  MovesOn(g, ReviewRoute(g, decision))
<1>1. CASE decision = "request_changes" /\ g.round < MaxReviews
  <2> DEFINE m == Moved(g, "implement", "implementing")
  <2>1. m \in State /\ m.next = "implement" /\ m.revision = g.revision + 1 /\ m.final = g.final
    BY MovedState, MovedOn DEF Nodes, Statuses
  <2>2. ReviewRoute(g, decision) = [m EXCEPT !.round = @ + 1, !.pending = None]
    BY <1>1 DEF ReviewRoute
  <2> HIDE DEF m
  <2> DEFINE n == m.round + 1
             h == [m EXCEPT !.round = n, !.pending = None]
  <2> HIDE DEF n
  <2>3. h.next = m.next /\ h.revision = m.revision /\ h.final = m.final
    BY <2>1 DEF State
  <2>4. ReviewRoute(g, decision) = h
    BY <2>2 DEF n
  <2> HIDE DEF h
  <2> QED
    BY <2>1, <2>3, <2>4, QuietRight DEF MovesOn, Quiet
<1>2. CASE ~(decision = "request_changes" /\ g.round < MaxReviews) /\ decision = "stop"
  <2>1. ReviewRoute(g, decision) = [Moved(g, "stop", "stopped") EXCEPT !.pending = None]
    BY <1>2 DEF ReviewRoute
  <2>2. "stop" \in Quiet /\ "stopped" \in Statuses
    BY DEF Quiet, Statuses
  <2>3. MovesOn(g, [Moved(g, "stop", "stopped") EXCEPT !.pending = None])
    BY <2>2, QuietNode
  <2> QED
    BY <2>1, <2>3
<1>3. CASE ~(decision = "request_changes" /\ g.round < MaxReviews) /\ decision # "stop"
  <2>1. ReviewRoute(g, decision) = [Moved(g, "verify", "verifying") EXCEPT !.pending = None]
    BY <1>3 DEF ReviewRoute
  <2>2. "verify" \in Quiet /\ "verifying" \in Statuses
    BY DEF Quiet, Statuses
  <2>3. MovesOn(g, [Moved(g, "verify", "verifying") EXCEPT !.pending = None])
    BY <2>2, QuietNode
  <2> QED
    BY <2>1, <2>3
<1> QED
  BY <1>1, <1>2, <1>3

LEMMA AgentNodeAsks ==
  ASSUME TeamNone, NEW g \in State, NEW h \in AgentNode(g)
  PROVE  MovesOn(g, h) /\ (g.next = "plan" => h.next = "approve_plan") /\ g.next # "approve_plan"
<1>1. CASE g.next = "plan"
  <2> DEFINE m == Moved(g, "approve_plan", "awaiting_plan_approval")
  <2>1. h = [m EXCEPT !.pending = "plan_approval"]
    BY <1>1 DEF AgentNode
  <2>2. m \in State /\ m.next = "approve_plan" /\ m.status = "awaiting_plan_approval"
        /\ m.revision = g.revision + 1 /\ m.final = g.final
    BY MovedState, MovedOn DEF Nodes, Statuses
  <2> HIDE DEF m
  <2>3. h.next = m.next /\ h.status = m.status /\ h.revision = m.revision /\ h.final = m.final /\ h.pending = "plan_approval"
    BY <2>1, <2>2 DEF State
  <2>4. Gate(h) = "plan_approval"
    BY <2>2, <2>3 DEF Gate
  <2>5. g.final \in {None, "accept", "stop"} => QuestionRight(h)
    BY <2>2, <2>3, <2>4 DEF QuestionRight, Terminal
  <2> QED
    BY <1>1, <2>2, <2>3, <2>5 DEF MovesOn
<1>2. CASE g.next = "implement"
  <2>1. h = Moved(g, "review", "reviewing")
    BY <1>2 DEF AgentNode
  <2>0. "review" \in Nodes /\ "reviewing" \in Statuses
    BY DEF Nodes, Statuses
  <2>2. h.next = "review" /\ h.revision = g.revision + 1 /\ h.final = g.final
    BY <2>0, <2>1, MovedState, MovedOn
  <2> QED
    BY <1>2, <2>2, QuietRight DEF MovesOn, Quiet
<1>3. CASE g.next = "review"
  <2>1. PICK d \in ReviewDecisions :
          h = [Moved(g, "route_review", IF Asks(g, d) THEN "awaiting_human_input" ELSE "reviewing")
                 EXCEPT !.review = d, !.pending = IF Asks(g, d) THEN "review_input" ELSE None]
    BY <1>3 DEF AgentNode
  <2>2. PICK p : p = IF Asks(g, d) THEN "review_input" ELSE None
    OBVIOUS
  <2>3. PICK status : status = IF Asks(g, d) THEN "awaiting_human_input" ELSE "reviewing"
    OBVIOUS
  <2> DEFINE m == Moved(g, "route_review", status)
  <2>4. status \in Statuses /\ "route_review" \in Nodes
    BY <2>3 DEF Statuses, Nodes
  <2>5. m \in State /\ m.next = "route_review" /\ m.status = status /\ m.round = g.round
        /\ m.revision = g.revision + 1 /\ m.final = g.final
    BY <2>4, MovedState, MovedOn
  <2>6. h = [m EXCEPT !.review = d, !.pending = p]
    BY <2>1, <2>2, <2>3
  <2> HIDE DEF m
  <2>7. h.next = "route_review" /\ h.status = status /\ h.revision = g.revision + 1 /\ h.final = g.final
        /\ h.round = g.round /\ h.review = d /\ h.pending = p
    BY <2>5, <2>6 DEF State
  <2>8. Gate(h) = IF d = "uncertain" \/ g.round >= MaxReviews THEN "review_input" ELSE None
    BY <2>7 DEF Gate
  <2>9. ~Terminal(h)
    BY <2>3, <2>7 DEF Terminal
  <2>10. Gate(h) # None => h.pending = Gate(h) \/ (h.pending = None /\ h.status = "reviewing" /\ h.review \in {"approve", None})
    BY <2>2, <2>3, <2>7, <2>8 DEF Asks, ReviewDecisions
  <2>11. g.final \in {None, "accept", "stop"} => QuestionRight(h)
    BY <2>7, <2>9, <2>10 DEF QuestionRight
  <2> QED
    BY <1>3, <2>7, <2>11 DEF MovesOn
<1>4. CASE g.next = "route_review" /\ Gate(g) = None
  <2>1. h = ReviewRoute(g, IF g.review = None THEN "approve" ELSE g.review)
    BY <1>4 DEF AgentNode
  <2> QED
    BY <1>4, <2>1, ReviewRouteAsks
<1>5. CASE g.next = "stop"
  <2>1. h = Moved(g, "END", "stopped")
    BY <1>5 DEF AgentNode
  <2>0. "END" \in Nodes /\ "stopped" \in Statuses
    BY DEF Nodes, Statuses
  <2>2. h.next = "END" /\ h.status = "stopped" /\ h.revision = g.revision + 1 /\ h.final = g.final
    BY <2>0, <2>1, MovedState, MovedOn
  <2>3. Gate(h) = None
    BY <2>2 DEF Gate
  <2> QED
    BY <1>5, <2>2, <2>3 DEF MovesOn, QuestionRight, Terminal
<1> QED
  BY <1>1, <1>2, <1>3, <1>4, <1>5 DEF AgentNode

\* The node that asked moves on, and ends with an answer to the final question.
LEMMA DecidedAsks ==
  ASSUME TeamNone, NEW g \in State, NEW answer \in AnswerSet, Gate(g) # None
  PROVE  LET h == Decided(g, answer)
         IN  /\ h.revision = g.revision + 1
             /\ g.final \in {None, "accept", "stop"} /\ (Gate(g) = "final_decision" => answer \in {"accept", "stop"})
                  => QuestionRight(h)
<1>0. g.next \in {"approve_plan", "route_review", "final_decision"}
  BY DEF Gate
<1>1. CASE g.next = "approve_plan" /\ answer \in {"reject", "stop"}
  <2>1. Decided(g, answer) = [Moved(g, "stop", "stopped") EXCEPT !.pending = None]
    BY <1>1 DEF Decided
  <2>2. "stop" \in Quiet /\ "stopped" \in Statuses
    BY DEF Quiet, Statuses
  <2>3. MovesOn(g, [Moved(g, "stop", "stopped") EXCEPT !.pending = None])
    BY <2>2, QuietNode
  <2> QED
    BY <2>1, <2>3 DEF MovesOn
<1>2. CASE g.next = "approve_plan" /\ answer = "revise"
  <2>1. Decided(g, answer) = [Moved(g, "plan", "planning") EXCEPT !.pending = None]
    BY <1>2 DEF Decided
  <2>2. "plan" \in Quiet /\ "planning" \in Statuses
    BY DEF Quiet, Statuses
  <2>3. MovesOn(g, [Moved(g, "plan", "planning") EXCEPT !.pending = None])
    BY <2>2, QuietNode
  <2> QED
    BY <2>1, <2>3 DEF MovesOn
<1>3. CASE g.next = "approve_plan" /\ answer \notin {"reject", "stop", "revise"}
  <2>1. Decided(g, answer) = [Moved(g, "implement", "implementing") EXCEPT !.pending = None]
    BY <1>3 DEF Decided
  <2>2. "implement" \in Quiet /\ "implementing" \in Statuses
    BY DEF Quiet, Statuses
  <2>3. MovesOn(g, [Moved(g, "implement", "implementing") EXCEPT !.pending = None])
    BY <2>2, QuietNode
  <2> QED
    BY <2>1, <2>3 DEF MovesOn
<1>4. CASE g.next = "route_review"
  <2>1. Decided(g, answer) = ReviewRoute(g, answer)
    BY <1>4 DEF Decided
  <2> QED
    BY <2>1, ReviewRouteAsks DEF MovesOn
<1>5. CASE g.next = "final_decision"
  <2>1. PICK status : status = IF answer = "accept" THEN "completed" ELSE "stopped"
    OBVIOUS
  <2> DEFINE m == Moved(g, "END", status)
  <2>2. Decided(g, answer) = [m EXCEPT !.pending = None, !.final = answer]
    BY <1>5, <2>1 DEF Decided
  <2>3. status \in Statuses /\ "END" \in Nodes /\ status \in {"completed", "stopped"}
    BY <2>1 DEF Statuses, Nodes
  <2>4. m \in State /\ m.next = "END" /\ m.status = status /\ m.revision = g.revision + 1
    BY <2>3, MovedState, MovedOn
  <2> HIDE DEF m
  <2> DEFINE new == [m EXCEPT !.pending = None, !.final = answer]
  <2>5. new.next = "END" /\ new.status = status /\ new.revision = g.revision + 1 /\ new.final = answer
    BY <2>4 DEF State
  <2> HIDE DEF new
  <2>6. Gate(new) = None /\ Gate(g) = "final_decision"
    BY <1>5, <2>5 DEF Gate
  <2>7. Gate(g) = "final_decision" /\ answer \in {"accept", "stop"} => QuestionRight(new)
    BY <2>3, <2>5, <2>6 DEF QuestionRight, Terminal
  <2>8. Decided(g, answer) = new
    BY <2>2 DEF new
  <2> QED
    BY <2>5, <2>6, <2>7, <2>8
<1> QED
  BY <1>0, <1>1, <1>2, <1>3, <1>4, <1>5

-----------------------------------------------------------------------------
(* The final decision *)

Regular(g) == g.final \in {None, "accept", "stop"}

\* While people are shown the final decision, or nothing yet, the contract takes the checkpoints of
\* the run, and a handle of it has an operation: an answer does not make the graph start over.
OpenRun(r) ==
  /\ graph[r] \in State =>
       /\ graph[r].next = "plan" \/ graph[r].revision > 0
       /\ record[r] = None \/ record[r].pending = "final_decision" => Regular(graph[r])
  /\ record[r] # None /\ record[r].pending = "final_decision" /\ live[r] # None => live[r].last # None

\* The command brings an answer to the question that is shown, or the operation of a handle.
OpenCommand ==
  /\ cmd.pc = "graph" /\ cmd.answer # None =>
       /\ record[cmd.run] # None
       /\ record[cmd.run].pending = "final_decision" => cmd.answer \in {"accept", "stop"}
  /\ cmd.pc \in {"record", "verdict", "finish", "answer"} =>
       /\ cmd.operation.pending = "final_decision" => Regular(graph[cmd.run])
       /\ live[cmd.run].last # None

DecisionOpen == OpenCommand /\ \A r \in Runs : OpenRun(r)

\* Where an answer finds the final decision there is an operation to resume.
LEMMA AnswerKeeps ==
  ASSUME IInv, DecisionOpen, TeamNone, NEW r \in Runs, NEW answer, Answer(r, answer)
  PROVE  IInv'
<1> DEFINE last == LastOperation(r)
           given == IF answer = "stop_team_session" THEN "stop" ELSE answer
<1>1. cmd = Idle /\ record[r] # None /\ UNCHANGED <<record, check, tree, exact>>
  BY DEF Answer, process
<1>2. check = None
  BY <1>1 DEF IInv, CheckRight, Idle
<1>3. CheckRight' /\ RecordsRight /\ record' = record
  BY <1>1, <1>2 DEF IInv, CheckRight
<1>4. live' = [live EXCEPT ![r] = Handle(LastOperation(r))]
  BY DEF Answer
<1>5. graph' = graph => GraphsRight' /\ RecordsRight' /\ HandlesRight' /\ live'[r] \in [last : State \cup {None}]
  <2> SUFFICES ASSUME graph' = graph
               PROVE  GraphsRight' /\ RecordsRight' /\ HandlesRight' /\ live'[r] \in [last : State \cup {None}]
    OBVIOUS
  <2>1. GraphsRight' /\ RecordsRight'
    BY <1>1 DEF IInv, GraphsRight, RecordsRight, Truthful
  <2>2. HandlesRight' /\ live'[r] \in [last : State \cup {None}]
    BY <1>4, HandleRight DEF IInv
  <2> QED
    BY <2>1, <2>2
<1>6. \/ cmd' = Idle /\ graph' = graph
      \/ /\ last # None /\ (answer = "stop_team_session" \/ answer \in ResumeInput(record[r].pending))
         /\ cmd' = [pc |-> "graph", run |-> r, attempt |-> record[r].attempt, answer |-> given]
         /\ graph' = graph
      \/ /\ StartsOver(r) /\ answer \in ResumeInput(record[r].pending)
         /\ cmd' = [pc |-> "graph", run |-> r, attempt |-> record[r].attempt, answer |-> None]
         /\ graph' = [graph EXCEPT ![r] = Fresh(record[r].attempt)]
  BY DEF Answer, StartsOver, LastOperation
<1>7. CASE cmd' = Idle /\ graph' = graph
  BY <1>3, <1>5, <1>7, IdleRight DEF IInv
<1>8. record[r] \in State /\ record[r].attempt \in Attempts /\ record[r].pending \in Gates \cup {None}
  BY <1>1 DEF IInv, RecordsRight, State
<1>9. CASE /\ last # None /\ (answer = "stop_team_session" \/ answer \in ResumeInput(record[r].pending))
           /\ cmd' = [pc |-> "graph", run |-> r, attempt |-> record[r].attempt, answer |-> given]
           /\ graph' = graph
  <2>1. graph[r] \in State
    BY <1>9, LastRight DEF IInv
  <2>3. given \in AnswerSet /\ (given = "accept" => record[r].pending = "final_decision")
    BY <1>8, <1>9, AnswersKnown, AnswerList
  <2> HIDE DEF given, last
  <2>4. cmd' \in GraphCommand /\ cmd'.pc = "graph" /\ cmd'.run = r /\ cmd'.answer = given
    BY <1>8, <1>9, <2>3 DEF GraphCommand
  <2>5. CommandRight'
    BY <1>1, <1>5, <1>9, <2>1, <2>3, <2>4 DEF CommandRight
  <2> QED
    BY <1>3, <1>5, <1>9, <2>5 DEF IInv
<1>10. CASE /\ StartsOver(r) /\ answer \in ResumeInput(record[r].pending)
            /\ cmd' = [pc |-> "graph", run |-> r, attempt |-> record[r].attempt, answer |-> None]
            /\ graph' = [graph EXCEPT ![r] = Fresh(record[r].attempt)]
  <2> DEFINE f == Fresh(record[r].attempt)
  <2>1. record[r].pending # "final_decision"
    BY <1>1, <1>10 DEF DecisionOpen, OpenRun, StartsOver
  <2>2. f \in State /\ AtItsQuestion(f) /\ Truthful(f)
    BY <1>8, FreshRight
  <2> HIDE DEF f
  <2>3. graph' \in [Runs -> State \cup {None}] /\ graph'[r] = f /\ \A q \in Runs \ {r} : graph'[q] = graph[q]
    BY <1>10, <2>2 DEF IInv, GraphsRight, f
  <2>4. live' \in [Runs -> [last : State \cup {None}] \cup {None}] /\ live'[r] = [last |-> None]
        /\ \A q \in Runs \ {r} : live'[q] = live[q]
    BY <1>4, <1>10 DEF IInv, HandlesRight, Handle, StartsOver, LastOperation
  <2>5. GraphsRight'
    BY <1>1, <2>2, <2>3 DEF IInv, GraphsRight, Truthful
  <2>6. RecordsRight' /\ HandlesRight'
    BY <1>1, <2>1, <2>3, <2>4 DEF IInv, RecordsRight, HandlesRight, Shown
  <2>7. CommandRight'
    <3>1. cmd' \in GraphCommand /\ cmd'.pc = "graph" /\ cmd'.run = r /\ cmd'.answer = None
      BY <1>8, <1>10 DEF GraphCommand
    <3>2. live'[r] \in [last : State \cup {None}]
      BY <2>4
    <3> QED
      BY <2>2, <2>3, <3>1, <3>2, NoneApart DEF CommandRight
  <2> QED
    BY <1>3, <2>5, <2>6, <2>7 DEF IInv
<1> QED
  BY <1>6, <1>7, <1>9, <1>10

\* A run the step is not about.
LEMMA OpenStays ==
  ASSUME NEW q \in Runs, OpenRun(q), graph'[q] = graph[q], record'[q] = record[q], live'[q] = live[q]
  PROVE  OpenRun(q)'
BY DEF OpenRun, Regular

\* The graph of the command moves on.
LEMMA OpenMoves ==
  ASSUME IInv, DecisionOpen, TeamNone, cmd.pc = "graph", NEW h, graph' = [graph EXCEPT ![cmd.run] = h],
         h.revision = graph[cmd.run].revision + 1, UNCHANGED <<record, live>>,
         record[cmd.run] = None \/ record[cmd.run].pending = "final_decision" => Regular(h),
         cmd' = cmd \/ (cmd'.pc = "graph" /\ cmd'.answer = None)
  PROVE  DecisionOpen'
<1>0. PICK r : r = cmd.run
  OBVIOUS
<1>1. r \in Runs /\ graph[r] \in State
  BY <1>0, CommandGraph DEF IInv
<1>2. graph'[r] = h /\ \A q \in Runs \ {r} : graph'[q] = graph[q]
  BY <1>0, <1>1 DEF IInv, GraphsRight
<1>3. h.revision > 0
  BY <1>0, <1>1 DEF State
<1>4. OpenRun(r)'
  BY <1>0, <1>1, <1>2, <1>3 DEF DecisionOpen, OpenRun, Regular
<1>5. \A q \in Runs \ {r} : OpenRun(q)'
  BY <1>2, OpenStays DEF DecisionOpen
<1>6. OpenCommand'
  BY DEF DecisionOpen, OpenCommand
<1> QED
  BY <1>4, <1>5, <1>6 DEF DecisionOpen

LEMMA RunNodeOpen ==
  ASSUME IInv, DecisionOpen, TeamNone, RunNode
  PROVE  DecisionOpen'
<1> DEFINE r == cmd.run
           g == graph[r]
<1>1. r \in Runs /\ g \in State /\ cmd \in GraphCommand /\ cmd.pc = "graph"
  BY CommandGraph, CommandKinds DEF IInv, RunNode
<1>2. PICK h : /\ graph' = [graph EXCEPT ![r] = h]
               /\ \/ h \in AgentNode(g)
                  \/ Gate(g) # None /\ cmd.answer # None /\ h = Decided(g, cmd.answer)
  BY DEF RunNode
<1>3. cmd' = [cmd EXCEPT !.answer = None] /\ UNCHANGED <<record, live>>
  BY DEF RunNode
<1>4. cmd'.pc = "graph" /\ cmd'.run = r /\ cmd'.answer = None
  BY <1>1, <1>3 DEF GraphCommand
<1>5. record[r] = None \/ record[r].pending = "final_decision" => Regular(g)
  BY <1>1 DEF DecisionOpen, OpenRun
<1>6. h.revision = g.revision + 1 /\ (record[r] = None \/ record[r].pending = "final_decision" => Regular(h))
  <2>1. CASE h \in AgentNode(g)
    <3>1. MovesOn(g, h)
      BY <1>1, <2>1, AgentNodeAsks
    <3> QED
      BY <1>5, <3>1 DEF MovesOn, Regular, QuestionRight
  <2>2. CASE Gate(g) # None /\ cmd.answer # None /\ h = Decided(g, cmd.answer)
    <3>1. cmd.answer \in AnswerSet
      BY <1>1, <2>2 DEF GraphCommand
    <3>2. /\ h.revision = g.revision + 1
          /\ g.final \in {None, "accept", "stop"} /\ (Gate(g) = "final_decision" => cmd.answer \in {"accept", "stop"})
               => QuestionRight(h)
      BY <1>1, <2>2, <3>1, DecidedAsks
    <3>3. record[r] # None /\ (record[r].pending = "final_decision" => cmd.answer \in {"accept", "stop"})
      BY <1>1, <2>2 DEF DecisionOpen, OpenCommand
    <3> QED
      BY <1>5, <3>2, <3>3 DEF Regular, QuestionRight
  <2> QED
    BY <1>2, <2>1, <2>2
<1> QED
  BY <1>1, <1>2, <1>3, <1>4, <1>6, OpenMoves

LEMMA CheckedOpen ==
  ASSUME IInv, DecisionOpen, TeamNone, Checked
  PROVE  DecisionOpen'
<1> DEFINE g == graph[cmd.run]
           m == Moved(g, "final_decision", "awaiting_human_decision")
           h == [m EXCEPT !.pending = "final_decision", !.verdict = check.status]
<1>1. graph' = [graph EXCEPT ![cmd.run] = h] /\ UNCHANGED <<record, live, cmd>> /\ check # None
  BY DEF Checked
<1>2. cmd.pc = "graph" /\ g.next = "verify"
  BY <1>1 DEF IInv, CheckRight
<1>3. cmd.run \in Runs /\ g \in State
  BY <1>2, CommandGraph DEF IInv
<1>4. m \in State /\ m.revision = g.revision + 1 /\ m.final = g.final
  <2>1. "final_decision" \in Nodes /\ "awaiting_human_decision" \in Statuses
    BY DEF Nodes, Statuses
  <2> QED
    BY <1>3, <2>1, MovedState, MovedOn
<1> HIDE DEF m
<1>5. h.revision = m.revision /\ h.final = m.final
  BY <1>4 DEF State
<1> HIDE DEF h
<1>6. record[cmd.run] = None \/ record[cmd.run].pending = "final_decision" => Regular(h)
  BY <1>3, <1>4, <1>5 DEF DecisionOpen, OpenRun, Regular
<1> QED
  BY <1>1, <1>2, <1>4, <1>5, <1>6, OpenMoves

\* Steps that leave the graph, what people see and the handles alone.
LEMMA OpenBeside ==
  ASSUME DecisionOpen, UNCHANGED <<graph, record, live>>, OpenCommand'
  PROVE  DecisionOpen'
BY OpenStays DEF DecisionOpen

LEMMA OperationOpen ==
  ASSUME IInv, DecisionOpen, TeamNone, Operation
  PROVE  DecisionOpen'
<1> DEFINE r == cmd.run
           g == graph[r]
<1>1. r \in Runs /\ g \in State /\ cmd.pc = "graph" /\ None \notin State
  BY CommandGraph, NoneApart DEF IInv, Operation
<1>2. UNCHANGED <<graph, record>>
  BY DEF Operation, disk
<1>3. CASE Valid(g)
  <2>1. live' = [live EXCEPT ![r].last = g] /\ live[r] \in [last : State \cup {None}]
    BY <1>1, <1>3 DEF Operation, IInv, CommandRight
  <2>2. cmd' = [pc |-> "record", run |-> r, attempt |-> cmd.attempt, operation |-> g]
    BY <1>3 DEF Operation
  <2> HIDE DEF r, g
  <2>3. live'[r] = [last |-> g] /\ \A q \in Runs \ {r} : live'[q] = live[q]
    BY <1>1, <2>1 DEF IInv, HandlesRight
  <2>4. live'[r].last # None
    BY <1>1, <2>3
  <2>5. Regular(g) /\ g = graph[r]
    BY <1>3 DEF Valid, Regular, g
  <2>7. OpenCommand'
    BY <1>2, <2>2, <2>4, <2>5 DEF OpenCommand, Regular
  <2>8. \A q \in Runs : OpenRun(q)'
    <3> SUFFICES ASSUME NEW q \in Runs PROVE OpenRun(q)'
      OBVIOUS
    <3>1. CASE q = r
      BY <1>2, <2>4, <3>1 DEF DecisionOpen, OpenRun, Regular
    <3>2. CASE q # r
      BY <1>2, <2>3, <3>2, OpenStays DEF DecisionOpen
    <3> QED
      BY <3>1, <3>2
  <2> QED
    BY <2>7, <2>8 DEF DecisionOpen
<1>4. CASE ~Valid(g)
  <2>1. cmd' = Idle /\ UNCHANGED live
    BY <1>4 DEF Operation, Fails
  <2>2. OpenCommand'
    BY <2>1 DEF OpenCommand, Idle
  <2> QED
    BY <1>2, <2>1, <2>2, OpenBeside
<1> QED
  BY <1>3, <1>4

LEMMA StartRunOpen ==
  ASSUME IInv, DecisionOpen, TeamNone, NEW r \in Runs, NEW a \in Attempts, StartRun(r, a)
  PROVE  DecisionOpen'
<1> DEFINE last == LastOperation(r)
<1>1. cmd = Idle /\ record[r] = None /\ record' = record /\ live' = [live EXCEPT ![r] = [last |-> last]]
  BY DEF StartRun, Handle
<1>2. \/ /\ graph' = [graph EXCEPT ![r] = Fresh(a)]
         /\ cmd' = [pc |-> "graph", run |-> r, attempt |-> a, answer |-> None]
      \/ graph' = graph /\ last # None /\ cmd' = [pc |-> "record", run |-> r, attempt |-> a, operation |-> last]
      \/ graph' = graph /\ cmd' = Idle
  BY DEF StartRun
<1>3. last # None => graph[r] \in State
  BY LastRight DEF IInv
<1> HIDE DEF last
<1>4. live'[r] = [last |-> last] /\ \A q \in Runs \ {r} : live'[q] = live[q]
  BY <1>1 DEF IInv, HandlesRight
<1>5. \/ graph'[r] = Fresh(a)
      \/ graph'[r] = graph[r]
  BY <1>2 DEF IInv, GraphsRight
<1>6. \A q \in Runs \ {r} : graph'[q] = graph[q]
  BY <1>2 DEF IInv, GraphsRight
<1>7. OpenRun(r)'
  BY <1>1, <1>5, FreshRight DEF DecisionOpen, OpenRun, Regular
<1>8. \A q \in Runs \ {r} : OpenRun(q)'
  BY <1>1, <1>4, <1>6, OpenStays DEF DecisionOpen
<1>9. OpenCommand'
  <2>1. last # None => Regular(graph[r])
    BY <1>1, <1>3 DEF DecisionOpen, OpenRun
  <2> QED
    BY <1>2, <1>4, <2>1 DEF OpenCommand, Regular, Idle
<1> QED
  BY <1>7, <1>8, <1>9 DEF DecisionOpen

\* An answer finds the operation, or makes it from checkpoints the contract takes.
LEMMA AnswerOpen ==
  ASSUME IInv, DecisionOpen, TeamNone, NEW r \in Runs, NEW answer, Answer(r, answer)
  PROVE  DecisionOpen'
<1> DEFINE last == LastOperation(r)
           given == IF answer = "stop_team_session" THEN "stop" ELSE answer
           decides == record[r].pending = "final_decision"
<1>1. cmd = Idle /\ record[r] # None /\ record' = record /\ live' = [live EXCEPT ![r] = [last |-> last]]
  BY DEF Answer, Handle
<1>2. \/ cmd' = Idle
      \/ /\ answer = "stop_team_session" \/ answer \in ResumeInput(record[r].pending)
         /\ cmd' = [pc |-> "graph", run |-> r, attempt |-> record[r].attempt, answer |-> given]
      \/ cmd' = [pc |-> "graph", run |-> r, attempt |-> record[r].attempt, answer |-> None]
  BY DEF Answer
<1>3. \/ graph' = graph
      \/ graph' = [graph EXCEPT ![r] = Fresh(record[r].attempt)] /\ StartsOver(r)
  BY DEF Answer
<1>4. record[r].attempt \in Attempts /\ Shown(record[r], graph[r])
  BY <1>1 DEF IInv, RecordsRight, State
<1>5. decides => last # None
  <2> SUFFICES ASSUME decides PROVE last # None
    OBVIOUS
  <2>1. CASE live[r] # None
    BY <1>1, <2>1 DEF DecisionOpen, OpenRun, LastOperation
  <2>2. CASE live[r] = None
    <3>1. graph[r] \in State /\ graph[r].next # "plan"
      BY <1>4 DEF Shown
    <3>2. Valid(graph[r]) /\ graph[r] # None
      BY <1>1, <3>1, NoneApart DEF DecisionOpen, OpenRun, Regular, Valid
    <3> QED
      BY <2>2, <3>2 DEF LastOperation
  <2> QED
    BY <2>1, <2>2
<1>6. decides => ~StartsOver(r)
  BY <1>1 DEF DecisionOpen, OpenRun, StartsOver
<1>7. decides /\ answer \in ResumeInput(record[r].pending) => answer \in {"accept", "stop"}
  BY NoneApart DEF ResumeInput, Answers
<1> HIDE DEF last
<1>8. live'[r] = [last |-> last] /\ \A q \in Runs \ {r} : live'[q] = live[q]
  BY <1>1 DEF IInv, HandlesRight
<1>9. graph'[r] = graph[r] \/ (graph'[r] = Fresh(record[r].attempt) /\ StartsOver(r))
  BY <1>3 DEF IInv, GraphsRight
<1>10. \A q \in Runs \ {r} : graph'[q] = graph[q]
  BY <1>3 DEF IInv, GraphsRight
<1>11. OpenRun(r)'
  BY <1>1, <1>4, <1>5, <1>6, <1>8, <1>9, FreshRight DEF DecisionOpen, OpenRun, Regular
<1>12. \A q \in Runs \ {r} : OpenRun(q)'
  BY <1>1, <1>8, <1>10, OpenStays DEF DecisionOpen
<1>13. OpenCommand'
  BY <1>1, <1>2, <1>7 DEF OpenCommand, Idle
<1> QED
  BY <1>11, <1>12, <1>13 DEF DecisionOpen

LEMMA ResetOpen ==
  ASSUME IInv, DecisionOpen, TeamNone, NEW r \in Runs, Reset(r)
  PROVE  DecisionOpen'
<1>1. cmd = Idle /\ cmd' = Idle
  BY DEF Reset
<1>2. /\ graph'[r] = None /\ record'[r] = None
      /\ \A q \in Runs \ {r} : graph'[q] = graph[q] /\ live'[q] = live[q] /\ record'[q] = record[q]
  BY DEF Reset, IInv, GraphsRight, HandlesRight, RecordsRight
<1>3. OpenRun(r)'
  BY <1>2, NoneApart DEF OpenRun
<1>4. \A q \in Runs \ {r} : OpenRun(q)'
  BY <1>2, OpenStays DEF DecisionOpen
<1>5. OpenCommand'
  BY <1>1 DEF OpenCommand, Idle
<1> QED
  BY <1>3, <1>4, <1>5 DEF DecisionOpen

LEMMA RecordOperationOpen ==
  ASSUME IInv, DecisionOpen, TeamNone, RecordOperation
  PROVE  DecisionOpen'
<1>0. PICK r, op, x : r = cmd.run /\ op = cmd.operation /\ x = [op EXCEPT !.attempt = cmd.attempt]
  OBVIOUS
<1>1. /\ cmd.pc = "record" /\ UNCHANGED <<graph, live>>
      /\ \E pc \in {"verdict", "finish", "answer"} : cmd' = [cmd EXCEPT !.pc = pc]
  BY DEF RecordOperation
<1>2. r \in Runs /\ op \in State /\ cmd \in RecordCommand
  BY <1>0, <1>1, CommandKinds DEF IInv
<1>3. record' = record \/ record' = [record EXCEPT ![r] = x]
  BY <1>0 DEF RecordOperation
<1>4. /\ op.pending = "final_decision" => Regular(graph[r])
      /\ live[r].last # None
  BY <1>0, <1>1 DEF DecisionOpen, OpenCommand
<1>5. cmd.attempt \in Attempts
  BY <1>1, CommandKinds DEF IInv
<1>8. x \in State /\ x.pending = op.pending /\ x # None
  <2>1. x \in State /\ x.pending = op.pending
    BY <1>0, <1>2, <1>5 DEF State
  <2> QED
    BY <2>1, NoneApart
<1>6. cmd'.pc \in {"verdict", "finish", "answer"} /\ cmd'.run = r /\ cmd'.operation = op
  BY <1>0, <1>1, <1>2 DEF RecordCommand
<1>7. record'[r] \in {record[r], x} /\ \A q \in Runs \ {r} : record'[q] = record[q]
  BY <1>2, <1>3 DEF IInv, RecordsRight
<1>9. OpenRun(r)'
  BY <1>1, <1>2, <1>4, <1>7, <1>8 DEF DecisionOpen, OpenRun, Regular
<1>10. \A q \in Runs \ {r} : OpenRun(q)'
  BY <1>1, <1>7, OpenStays DEF DecisionOpen
<1>11. OpenCommand'
  BY <1>1, <1>4, <1>6 DEF OpenCommand, Regular
<1> QED
  BY <1>9, <1>10, <1>11 DEF DecisionOpen

\* Every step keeps the final decision open.
LEMMA OpenNext ==
  ASSUME IInv, DecisionOpen, TeamNone, [Next]_vars
  PROVE  DecisionOpen'
<1>1. CASE UNCHANGED <<graph, record, live, cmd>>
  BY <1>1, OpenBeside DEF DecisionOpen, OpenCommand, Regular
<1>2. CASE RecordVerification \/ FinishAttempt
  <2>1. /\ cmd.pc \in {"verdict", "finish"} /\ cmd' = [cmd EXCEPT !.pc = "answer"]
        /\ UNCHANGED <<graph, record, live>>
    BY <1>2 DEF RecordVerification, FinishAttempt
  <2>2. cmd \in RecordCommand
    BY <2>1, CommandKinds DEF IInv
  <2>3. cmd'.pc = "answer" /\ cmd'.run = cmd.run /\ cmd'.operation = cmd.operation
    BY <2>1, <2>2 DEF RecordCommand
  <2>4. OpenCommand'
    BY <2>1, <2>3 DEF DecisionOpen, OpenCommand, Regular
  <2> QED
    BY <2>1, <2>4, OpenBeside
<1>3. CASE AnswerCommand \/ WriteFails \/ NodeFails
  <2>1. cmd' = Idle /\ UNCHANGED <<graph, record, live>>
    BY <1>3 DEF AnswerCommand, WriteFails, NodeFails, Fails, disk
  <2>2. OpenCommand'
    BY <2>1 DEF OpenCommand, Idle
  <2> QED
    BY <2>1, <2>2, OpenBeside
<1>4. CASE Restart
  <2>1. cmd' = Idle /\ UNCHANGED <<graph, record>> /\ live' = [r \in Runs |-> None]
    BY <1>4 DEF Restart
  <2>2. OpenCommand'
    BY <2>1 DEF OpenCommand, Idle
  <2> QED
    BY <2>1, <2>2 DEF DecisionOpen, OpenRun, Regular
<1>5. CASE RunNode \/ Operation \/ Checked \/ RecordOperation
  BY <1>5, RunNodeOpen, OperationOpen, CheckedOpen, RecordOperationOpen
<1>6. CASE StartCheck \/ EditTree \/ CheckTimesOut \/ CheckFinishes
  BY <1>1, <1>6 DEF StartCheck, EditTree, CheckTimesOut, CheckFinishes, disk
<1>7. CASE \E code \in {0, 1}, group \in {"gone", "alive"} : CheckExits(code, group)
  BY <1>1, <1>7 DEF CheckExits, disk
<1>8. CASE \E r \in Runs : \E a \in Attempts : StartRun(r, a)
  BY <1>8, StartRunOpen
<1>9. CASE \E r \in Runs : \E answer \in AnswerSet \cup {"stop_team_session"} : Answer(r, answer)
  BY <1>9, AnswerOpen
<1>10. CASE \E r \in Runs : Reset(r)
  BY <1>10, ResetOpen
<1>11. CASE UNCHANGED vars
  BY <1>1, <1>11 DEF vars, disk
<1> QED
  BY <1>2, <1>3, <1>4, <1>5, <1>6, <1>7, <1>8, <1>9, <1>10, <1>11 DEF Next, Steps

-----------------------------------------------------------------------------
(* The theorem *)

LEMMA InvInit ==
  ASSUME Init, TeamNone
  PROVE  IInv /\ DecisionOpen
BY NoneApart DEF Init, IInv, GraphsRight, RecordsRight, HandlesRight, CommandRight, CheckRight, Idle,
   DecisionOpen, OpenRun, OpenCommand

LEMMA InvNext ==
  ASSUME IInv, DecisionOpen, TeamNone, [Next]_vars
  PROVE  IInv'
<1>1. CASE UNCHANGED vars
  BY <1>1 DEF vars, disk, process, IInv, GraphsRight, RecordsRight, HandlesRight, CommandRight, CheckRight, Truthful
<1>2. CASE Steps
  <2>1. CASE \E code \in {0, 1}, group \in {"gone", "alive"} : CheckExits(code, group)
    BY <2>1, CheckExitsKeeps
  <2>2. CASE ~\E code \in {0, 1}, group \in {"gone", "alive"} : CheckExits(code, group)
    BY <1>2, <2>2, RunNodeKeeps, OperationKeeps, StartCheckKeeps, CheckedKeeps, CheckFinishesKeeps,
       RecordOperationKeeps, RecordVerificationKeeps, FinishAttemptKeeps, CommandEnds DEF Steps
  <2> QED
    BY <2>1, <2>2
<1>3. CASE EditTree \/ CheckTimesOut \/ NodeFails \/ WriteFails \/ Restart
  BY <1>3, EditTreeKeeps, CheckTimesOutKeeps, NodeFailsKeeps, CommandEnds, RestartKeeps
<1>4. CASE \E r \in Runs : \E a \in Attempts : StartRun(r, a)
  BY <1>4, StartRunKeeps
<1>5. CASE \E r \in Runs : \E answer \in AnswerSet \cup {"stop_team_session"} : Answer(r, answer)
  BY <1>5, AnswerKeeps
<1>6. CASE \E r \in Runs : Reset(r)
  BY <1>6, ResetKeeps
<1> QED
  BY <1>1, <1>2, <1>3, <1>4, <1>5, <1>6 DEF Next

\* A run is completed by the node of its final decision alone.
LEMMA Completes ==
  ASSUME IInv, TeamNone, [Next]_vars, NEW r \in Runs,
         graph[r] # None, graph'[r] # None, ~Terminal(graph[r]), graph'[r].status = "completed"
  PROVE  RunNode /\ r = cmd.run
<1>1. graph'[r] # graph[r]
  BY DEF Terminal
<1>2. graph \in [Runs -> State \cup {None}]
  BY DEF IInv, GraphsRight
<1>3. CASE RunNode
  BY <1>1, <1>2, <1>3 DEF RunNode
<1>4. CASE Checked
  <2>1. graph'[cmd.run].status # "completed"
    BY <1>4, CheckedKeeps
  <2>2. r = cmd.run
    BY <1>1, <1>2, <1>4 DEF Checked
  <2> QED
    BY <2>1, <2>2
<1>5. CASE \E q \in Runs : \E a \in Attempts : StartRun(q, a)
  <2>1. PICK q \in Runs, a \in Attempts : StartRun(q, a)
    BY <1>5
  <2>2. graph[q] = None /\ graph' = [graph EXCEPT ![q] = Fresh(a)]
    BY <1>1, <2>1 DEF StartRun
  <2> QED
    BY <1>1, <1>2, <2>2
<1>6. CASE \E q \in Runs : Reset(q)
  BY <1>1, <1>2, <1>6 DEF Reset
<1>7. CASE UNCHANGED graph
  BY <1>1, <1>7
<1>9. CASE \E q \in Runs : \E answer \in AnswerSet \cup {"stop_team_session"} : Answer(q, answer)
  <2>1. PICK q \in Runs : graph' = graph \/ graph' = [graph EXCEPT ![q] = Fresh(record[q].attempt)]
    BY <1>9 DEF Answer
  <2>2. q = r => graph'[r].status = "planning"
    BY <1>1, <1>2, <2>1 DEF Fresh
  <2> QED
    BY <1>1, <1>2, <2>1, <2>2
<1>8. CASE /\ Next /\ ~RunNode /\ ~Checked /\ (~\E q \in Runs : \E a \in Attempts : StartRun(q, a))
           /\ (~\E q \in Runs : Reset(q))
           /\ ~\E q \in Runs : \E answer \in AnswerSet \cup {"stop_team_session"} : Answer(q, answer)
  <2>1. UNCHANGED graph
    BY <1>8 DEF Next, Steps, Operation, StartCheck, CheckExits, CheckFinishes, RecordOperation, RecordVerification,
       FinishAttempt, AnswerCommand, EditTree, CheckTimesOut, NodeFails, WriteFails, Restart, disk
  <2> QED
    BY <1>7, <2>1
<1> QED
  BY <1>3, <1>4, <1>5, <1>6, <1>7, <1>8, <1>9 DEF vars, disk

\* What is accepted was asked for, so it was shown, with the verdict the graph has; and that is true.
LEMMA AcceptStep ==
  ASSUME IInv, TeamNone, [Next]_vars, NEW r \in Runs,
         graph[r] # None, graph'[r] # None, ~Terminal(graph[r]), graph'[r].status = "completed"
  PROVE  /\ record[r] # None /\ record[r].verdict = graph[r].verdict /\ record[r].verdict # None
         /\ graph[r].verdict = "passed" => graph[r].attempt \in exact
<1>1. RunNode /\ r = cmd.run
  BY Completes
<1>2. cmd.pc = "graph" /\ cmd.answer = "accept"
  BY <1>1, RunNodeKeeps DEF RunNode
<1>3. record[r] # None /\ record[r].pending = "final_decision"
  BY <1>1, <1>2 DEF IInv, CommandRight
<1>4. record[r].verdict \in Verdicts /\ graph[r].verdict = record[r].verdict
  BY <1>3 DEF IInv, RecordsRight, Shown
<1>5. Truthful(graph[r])
  BY <1>1, <1>2, CommandGraph DEF IInv
<1> QED
  BY <1>3, <1>4, <1>5, NoneApart DEF Truthful

\* A run is completed only when the person who accepts it was shown the verdict of just this
\* state, whatever crashes, failing writes and failing agents came before (final_decision of
\* runtime/team/workflow.ts, answered through orchestrator.ts and service/team.ts).
THEOREM AcceptedIsShown == Spec => AcceptedKnowingly
<1>1. Init => IInv /\ DecisionOpen
  BY InvInit, TeamNone
<1>2. IInv /\ DecisionOpen /\ [Next]_vars => IInv' /\ DecisionOpen'
  BY InvNext, OpenNext, TeamNone
<1>3. IInv /\ [Next]_vars =>
        [\A r \in Runs :
           graph[r] # None /\ graph'[r] # None /\ ~Terminal(graph[r]) /\ graph'[r].status = "completed"
             => /\ record[r] # None /\ record[r].verdict = graph[r].verdict /\ record[r].verdict # None
                /\ graph[r].verdict = "passed" => graph[r].attempt \in exact]_vars
  BY AcceptStep, TeamNone
<1> QED
  BY <1>1, <1>2, <1>3, PTL DEF Spec, AcceptedKnowingly

-----------------------------------------------------------------------------
(* The record *)

\* What was recorded, or is kept to be recorded, is a state the contract takes, of a run that has
\* checkpoints.
Backed(x, g) == Valid(x) /\ g # None

TypeRight ==
  /\ attempts \in [Attempts -> AttemptStatuses \cup {None}]
  /\ keys \in [Runs -> SUBSET Nat]
  /\ faults \in Nat
  /\ \A r \in Runs :
       /\ record[r] # None => Backed(record[r], graph[r]) /\ record[r].revision \in keys[r]
       /\ live[r] # None /\ live[r].last # None => Backed(live[r].last, graph[r])
  /\ cmd.pc \notin {"idle", "graph"} => Backed(cmd.operation, graph[cmd.run])

AtRest(g) == Gate(g) # None \/ g.next = "END"

AttemptOf(x) ==
  CASE x.status = "completed" -> "succeeded"
    [] x.status = "stopped" -> "failed"
    [] OTHER -> "running"

\* The command works at this run, and is at one of these steps.
Busy(r, pcs) == cmd.pc \in pcs /\ cmd.run = r

\* A run without a record: it starts, asks its first question, or was reset and is never recorded again.
Unrecorded(r) ==
  graph[r] # None =>
    \/ Busy(r, {"graph"}) /\ graph[r].next = "plan" /\ graph[r].revision = 0
    \/ graph[r].next = "approve_plan" /\ graph[r].revision = 1

\* A run with a record: unless the command moves it on, the record is the graph, which is at rest,
\* and its Attempt has come as far.
Recorded(r) ==
  /\ \A k \in keys[r] : k <= record[r].revision
  /\ ~Busy(r, {"graph", "record"}) =>
       /\ Shows(record[r], graph[r]) /\ AtRest(graph[r])
       /\ ~Busy(r, {"finish"}) => attempts[record[r].attempt] = AttemptOf(record[r])

RunRight(r) ==
  /\ keys[r] # {} => 1 \in keys[r]
  /\ graph[r] # None => QuestionRight(graph[r]) /\ (~Busy(r, {"graph"}) => LastOperation(r) = graph[r])
  /\ IF record[r] = None THEN Unrecorded(r) ELSE Recorded(r)

\* The command: its Attempt belongs to its run, and runs until it is finished; its answer is one to the question.
CommandFollows ==
  cmd.pc # "idle" =>
    LET r == cmd.run
        g == graph[cmd.run]
    IN  /\ \A q \in Runs : record[q] # None => (record[q].attempt = cmd.attempt <=> q = r)
        /\ cmd.pc \in {"graph", "record", "finish"} => attempts[cmd.attempt] = "running"
        /\ cmd.pc # "graph" => cmd.operation = g /\ AtRest(g)
        /\ cmd.pc \in {"graph", "record"} /\ record[r] # None =>
             record[r].revision < g.revision \/ (cmd.pc = "graph" /\ cmd.answer # None /\ record[r].revision = g.revision)
        /\ cmd.pc = "finish" => Terminal(g)
        /\ cmd.pc = "graph" /\ cmd.answer # None =>
             /\ record[r] # None /\ Gate(g) # None
             /\ Gate(g) = "final_decision" => cmd.answer \in {"accept", "stop"}

AttemptsApart ==
  \A q, r \in Runs : record[q] # None /\ record[r] # None /\ record[q].attempt = record[r].attempt => q = r

Follows == AttemptsApart /\ CommandFollows /\ \A r \in Runs : RunRight(r)
FInv == TypeRight /\ (faults = 0 => Follows)

-----------------------------------------------------------------------------
(* What steps share *)

LEMMA Typed ==
  ASSUME IInv, FInv
  PROVE  /\ graph \in [Runs -> State \cup {None}] /\ record \in [Runs -> State \cup {None}]
         /\ live \in [Runs -> [last : State \cup {None}] \cup {None}]
         /\ keys \in [Runs -> SUBSET Nat] /\ attempts \in [Attempts -> AttemptStatuses \cup {None}] /\ faults \in Nat
         /\ \A x \in State : x.revision \in Nat /\ x.attempt \in Attempts
BY DEF IInv, GraphsRight, RecordsRight, HandlesRight, FInv, TypeRight, State

\* The run of the command has a graph.
LEMMA CommandTyped ==
  ASSUME IInv, FInv, TeamNone, cmd.pc # "idle"
  PROVE  /\ cmd.pc = "graph" => cmd \in GraphCommand
         /\ cmd.pc # "graph" => cmd \in RecordCommand /\ cmd.operation \in State /\ Backed(cmd.operation, graph[cmd.run])
         /\ cmd.run \in Runs /\ cmd.attempt \in Attempts /\ graph[cmd.run] \in State
<1>1. cmd \in {Idle} \cup GraphCommand \cup RecordCommand /\ cmd # Idle
  BY DEF IInv, CommandRight, Idle
<1>2. CASE cmd.pc = "graph"
  <2>1. cmd \in GraphCommand /\ graph[cmd.run] \in State
    BY <1>1, <1>2 DEF GraphCommand, RecordCommand, IInv, CommandRight
  <2> QED
    BY <1>2, <2>1 DEF GraphCommand
<1>3. CASE cmd.pc # "graph"
  <2>1. cmd \in RecordCommand
    BY <1>1, <1>3 DEF GraphCommand
  <2>2. cmd.run \in Runs /\ cmd.attempt \in Attempts /\ cmd.operation \in State
    BY <2>1 DEF RecordCommand
  <2>3. Backed(cmd.operation, graph[cmd.run])
    BY <1>3 DEF FInv, TypeRight
  <2>4. graph[cmd.run] \in State
    BY <2>2, <2>3, Typed DEF Backed
  <2> QED
    BY <1>3, <2>1, <2>2, <2>3, <2>4
<1> QED
  BY <1>2, <1>3

\* A run the command is not about.
LEMMA OtherRun ==
  ASSUME NEW q \in Runs, RunRight(q), cmd.pc # "idle" => cmd.run # q, cmd'.pc # "idle" => cmd'.run # q,
         graph'[q] = graph[q], record'[q] = record[q], keys'[q] = keys[q], live'[q] = live[q],
         record[q] # None => attempts'[record[q].attempt] = attempts[record[q].attempt]
  PROVE  RunRight(q)'
<1>1. \A pcs : "idle" \notin pcs => ~Busy(q, pcs) /\ ~Busy(q, pcs)'
  BY DEF Busy
<1>2. ~Busy(q, {"graph"}) /\ ~Busy(q, {"graph"})' /\ ~Busy(q, {"graph", "record"}) /\ ~Busy(q, {"graph", "record"})'
      /\ ~Busy(q, {"finish"}) /\ ~Busy(q, {"finish"})'
  BY <1>1
<1>3. record[q] = None /\ Unrecorded(q) => Unrecorded(q)'
  BY <1>2 DEF Unrecorded
<1>4. record[q] # None /\ Recorded(q) => Recorded(q)'
  BY <1>2 DEF Recorded
<1> QED
  BY <1>2, <1>3, <1>4 DEF RunRight, LastOperation

\* The types stay right while records, handles and the operation do, and no graph goes back.
LEMMA TypesStay ==
  ASSUME IInv, FInv, UNCHANGED <<record, keys, live>>, attempts' \in [Attempts -> AttemptStatuses \cup {None}], faults' \in Nat,
         \A q \in Runs : \A x \in State : Backed(x, graph[q]) => Backed(x, graph'[q]),
         cmd'.pc \notin {"idle", "graph"} => Backed(cmd'.operation, graph'[cmd'.run])
  PROVE  TypeRight'
<1>1. \A q \in Runs : record[q] # None => record[q] \in State
  BY Typed
<1>2. \A q \in Runs : live[q] # None /\ live[q].last # None => live[q].last \in State
  BY Typed
<1> QED
  BY <1>1, <1>2 DEF FInv, TypeRight

\* Steps of the check alone.
LEMMA BesideRecord ==
  ASSUME FInv, UNCHANGED <<graph, record, keys, attempts, live, cmd, faults>>
  PROVE  FInv'
<1>1. TypeRight'
  BY DEF FInv, TypeRight
<1>2. ASSUME Follows
      PROVE  Follows'
  <2>1. AttemptsApart' /\ CommandFollows'
    BY <1>2 DEF Follows, AttemptsApart, CommandFollows
  <2>2. ASSUME NEW q \in Runs
        PROVE  RunRight(q)'
    <3>1. \A pcs : Busy(q, pcs)' <=> Busy(q, pcs)
      BY DEF Busy
    <3>2. Busy(q, {"graph"})' <=> Busy(q, {"graph"})
      BY <3>1
    <3>3. Busy(q, {"graph", "record"})' <=> Busy(q, {"graph", "record"})
      BY <3>1
    <3>4. Busy(q, {"finish"})' <=> Busy(q, {"finish"})
      BY <3>1
    <3>5. RunRight(q)
      BY <1>2 DEF Follows
    <3>6. Unrecorded(q) => Unrecorded(q)'
      BY <3>2 DEF Unrecorded
    <3>7. Recorded(q) => Recorded(q)'
      BY <3>3, <3>4 DEF Recorded
    <3> QED
      BY <3>2, <3>5, <3>6, <3>7 DEF RunRight, LastOperation
  <2> QED
    BY <2>1, <2>2 DEF Follows
<1> QED
  BY <1>1, <1>2 DEF FInv

\* Nothing is promised after a fault but the types.
LEMMA FaultFollows ==
  ASSUME IInv, FInv, faults' = faults + 1, UNCHANGED <<graph, record, keys>>, cmd' = Idle,
         UNCHANGED live \/ live' = [r \in Runs |-> None],
         attempts' \in [Attempts -> AttemptStatuses \cup {None}]
  PROVE  FInv'
<1>1. faults' \in Nat /\ faults' # 0
  BY DEF FInv, TypeRight
<1>2. TypeRight'
  BY <1>1 DEF FInv, TypeRight, Idle
<1> QED
  BY <1>1, <1>2 DEF FInv

-----------------------------------------------------------------------------
(* The record: one lemma for each of the steps *)

\* The graph of the command moves on.
LEMMA GraphGoesOn ==
  ASSUME IInv, FInv, TeamNone, cmd.pc = "graph", NEW h \in State, graph' = [graph EXCEPT ![cmd.run] = h],
         h.revision = graph[cmd.run].revision + 1, UNCHANGED <<record, keys, attempts, live, faults>>,
         cmd'.pc = "graph", cmd'.run = cmd.run, cmd'.attempt = cmd.attempt,
         faults = 0 /\ Follows =>
           /\ QuestionRight(h) /\ cmd'.answer = None
           /\ graph[cmd.run].next = "plan" => h.next = "approve_plan"
           /\ ~(graph[cmd.run].next = "approve_plan" /\ cmd.answer = None)
  PROVE  FInv'
<1>0. PICK r : r = cmd.run
  OBVIOUS
<1>1. r \in Runs /\ graph[r] \in State /\ graph[r].revision \in Nat /\ None \notin State
  BY <1>0, CommandTyped, Typed, NoneAsks
<1>2. graph'[r] = h /\ \A q \in Runs \ {r} : graph'[q] = graph[q]
  BY <1>0, <1>1, Typed
<1>3. TypeRight'
  <2>1. ASSUME NEW q \in Runs, NEW x \in State, Backed(x, graph[q])
        PROVE  Backed(x, graph'[q])
    <3>1. CASE q = r
      BY <1>1, <1>2, <2>1, <3>1 DEF Backed
    <3>2. CASE q # r
      BY <1>2, <2>1, <3>2
    <3> QED
      BY <3>1, <3>2
  <2> QED
    BY <2>1, TypesStay DEF FInv, TypeRight
<1>4. ASSUME Follows, faults = 0
      PROVE  Follows'
  <2>1. QuestionRight(h) /\ cmd'.answer = None /\ (graph[r].next = "plan" => h.next = "approve_plan")
        /\ ~(graph[r].next = "approve_plan" /\ cmd.answer = None)
    BY <1>0, <1>4
  <2>2. AttemptsApart'
    BY <1>4 DEF Follows, AttemptsApart
  <2>3. CommandFollows'
    <3>1. /\ \A q \in Runs : record[q] # None => (record[q].attempt = cmd.attempt <=> q = r)
          /\ attempts[cmd.attempt] = "running"
          /\ record[r] # None =>
               record[r].revision < graph[r].revision \/ (cmd.answer # None /\ record[r].revision = graph[r].revision)
      BY <1>0, <1>4 DEF Follows, CommandFollows
    <3>2. record[r] # None => record[r].revision \in Nat
      BY <1>1, Typed
    <3>3. record[r] # None => record[r].revision < h.revision
      BY <1>0, <1>1, <3>1, <3>2
    <3> QED
      BY <1>0, <1>2, <2>1, <3>1, <3>3 DEF CommandFollows
  <2>4. RunRight(r)'
    <3>1. RunRight(r)
      BY <1>1, <1>4 DEF Follows
    <3>2. Busy(r, {"graph"}) /\ Busy(r, {"graph"})' /\ Busy(r, {"graph", "record"})'
      BY <1>0 DEF Busy
    <3>3. CASE record[r] = None
      <4>1. cmd.answer = None
        BY <1>0, <1>4, <3>3 DEF Follows, CommandFollows
      <4>2. graph[r].revision = 0 /\ h.next = "approve_plan" /\ Unrecorded(r)
        BY <1>1, <2>1, <3>1, <3>3, <4>1 DEF RunRight, Unrecorded
      <4>3. h.revision = 1
        BY <1>0, <4>2
      <4>4. Unrecorded(r)'
        BY <1>2, <4>2, <4>3 DEF Unrecorded
      <4> QED
        BY <1>1, <1>2, <2>1, <3>1, <3>2, <3>3, <4>4 DEF RunRight
    <3>4. CASE record[r] # None
      <4>1. Recorded(r)'
        BY <3>1, <3>2, <3>4 DEF RunRight, Recorded
      <4> QED
        BY <1>1, <1>2, <2>1, <3>1, <3>2, <3>4, <4>1 DEF RunRight
    <3> QED
      BY <3>3, <3>4
  <2>5. ASSUME NEW q \in Runs, q # r
        PROVE  RunRight(q)'
    <3>1. RunRight(q)
      BY <1>4 DEF Follows
    <3> QED
      BY <1>0, <1>2, <2>5, <3>1, OtherRun
  <2> QED
    BY <2>2, <2>3, <2>4, <2>5 DEF Follows
<1> QED
  BY <1>3, <1>4 DEF FInv

LEMMA RunNodeFollows ==
  ASSUME IInv, FInv, TeamNone, RunNode
  PROVE  FInv'
<1> DEFINE g == graph[cmd.run]
<1>1. cmd.pc = "graph" /\ cmd \in GraphCommand /\ g \in State /\ cmd.run \in Runs /\ None \notin State
  BY CommandTyped, NoneAsks DEF RunNode
<1>2. PICK h : /\ graph' = [graph EXCEPT ![cmd.run] = h]
               /\ \/ Gate(g) = None /\ h \in AgentNode(g)
                  \/ Gate(g) # None /\ cmd.answer # None /\ h = Decided(g, cmd.answer)
  BY DEF RunNode
<1>3. cmd' = [cmd EXCEPT !.answer = None] /\ UNCHANGED <<record, keys, attempts, live, faults>>
  BY DEF RunNode
<1>4. cmd'.pc = "graph" /\ cmd'.run = cmd.run /\ cmd'.attempt = cmd.attempt /\ cmd'.answer = None
  BY <1>1, <1>3 DEF GraphCommand
<1>5. AtItsQuestion(g) /\ None # "final_decision"
  BY <1>1, CommandGraph, NoneAsks DEF IInv
<1>6. CASE Gate(g) = None /\ h \in AgentNode(g)
  <2>1. h \in State /\ MovesOn(g, h) /\ (g.next = "plan" => h.next = "approve_plan") /\ g.next # "approve_plan"
    BY <1>1, <1>5, <1>6, AgentNodeKeeps, AgentNodeAsks DEF Kept
  <2>2. faults = 0 /\ Follows => g.final \in {None, "accept", "stop"}
    BY <1>1 DEF Follows, RunRight, QuestionRight
  <2> HIDE DEF g
  <2>3. h.revision = g.revision + 1 /\ (faults = 0 /\ Follows => QuestionRight(h))
    BY <2>1, <2>2 DEF MovesOn
  <2> QED
    BY <1>1, <1>2, <1>3, <1>4, <2>1, <2>3, GraphGoesOn DEF g
<1>7. CASE Gate(g) # None /\ cmd.answer # None /\ h = Decided(g, cmd.answer)
  <2>1. g.next \in {"approve_plan", "route_review", "final_decision"} /\ cmd.answer \in AnswerSet
    BY <1>1, <1>7 DEF Gate, GraphCommand
  <2>2. h \in State
    BY <1>1, <1>5, <1>7, <2>1, DecidedKeeps DEF Kept
  <2>3. /\ h.revision = g.revision + 1
        /\ g.final \in {None, "accept", "stop"} /\ (Gate(g) = "final_decision" => cmd.answer \in {"accept", "stop"})
             => QuestionRight(h)
    BY <1>1, <1>7, <2>1, DecidedAsks
  <2>4. faults = 0 /\ Follows =>
          g.final \in {None, "accept", "stop"} /\ (Gate(g) = "final_decision" => cmd.answer \in {"accept", "stop"})
    BY <1>1, <1>7 DEF Follows, RunRight, QuestionRight, CommandFollows
  <2>5. g.next # "plan"
    BY <2>1
  <2> HIDE DEF g
  <2> QED
    BY <1>1, <1>2, <1>3, <1>4, <1>7, <2>2, <2>3, <2>4, <2>5, GraphGoesOn DEF g
<1> QED
  BY <1>2, <1>6, <1>7

\* The check is finished: its node asks the final question.
LEMMA CheckedFollows ==
  ASSUME IInv, FInv, TeamNone, Checked
  PROVE  FInv'
<1> DEFINE g == graph[cmd.run]
           m == Moved(g, "final_decision", "awaiting_human_decision")
           h == [m EXCEPT !.pending = "final_decision", !.verdict = check.status]
<1>1. graph' = [graph EXCEPT ![cmd.run] = h] /\ UNCHANGED <<record, keys, attempts, live, cmd, faults>> /\ check # None
      /\ check.pc = "finished"
  BY DEF Checked
<1>2. cmd.pc = "graph" /\ g.next = "verify" /\ check.status \in Verdicts
  BY <1>1 DEF IInv, CheckRight
<1>3. cmd.run \in Runs /\ g \in State
  BY <1>2, CommandTyped
<1>4. m \in State /\ m.next = "final_decision" /\ m.status = "awaiting_human_decision" /\ m.revision = g.revision + 1
      /\ m.final = g.final
  <2>1. "final_decision" \in Nodes /\ "awaiting_human_decision" \in Statuses
    BY DEF Nodes, Statuses
  <2> QED
    BY <1>3, <2>1, MovedState, MovedOn
<1> HIDE DEF m
<1>5. /\ h \in State /\ h.next = "final_decision" /\ h.status = "awaiting_human_decision" /\ h.pending = "final_decision"
      /\ h.revision = g.revision + 1 /\ h.final = g.final
  BY <1>2, <1>4 DEF State, Gates
<1> HIDE DEF h
<1>6. Gate(h) = "final_decision" /\ Gate(g) = None
  BY <1>2, <1>5 DEF Gate
<1>7. ASSUME Follows
      PROVE  QuestionRight(h) /\ cmd'.answer = None
  <2>1. g.final \in {None, "accept", "stop"}
    BY <1>3, <1>7, NoneAsks DEF Follows, RunRight, QuestionRight
  <2>2. QuestionRight(h)
    BY <1>5, <1>6, <2>1 DEF QuestionRight, Terminal
  <2>3. cmd.answer = None
    BY <1>2, <1>6, <1>7 DEF Follows, CommandFollows
  <2> QED
    BY <1>1, <2>2, <2>3
<1> HIDE DEF g
<1> QED
  BY <1>1, <1>2, <1>5, <1>7, GraphGoesOn DEF g

\* The operation is what the graph has come to, which the contract takes.
LEMMA OperationFollows ==
  ASSUME IInv, FInv, TeamNone, Operation
  PROVE  FInv'
<1>0. PICK r : r = cmd.run
  OBVIOUS
<1>1. PICK g : g = graph[r]
  OBVIOUS
<1>2. cmd.pc = "graph" /\ cmd \in GraphCommand /\ r \in Runs /\ g \in State /\ g.revision \in Nat /\ None \notin State
  BY <1>0, <1>1, CommandTyped, Typed, NoneAsks DEF Operation
<1>3. UNCHANGED <<graph, record, keys, attempts, faults>> /\ (g.next = "END" \/ (Gate(g) # None /\ cmd.answer = None))
  BY <1>0, <1>1 DEF Operation, disk
<1>4. CASE Valid(g)
  <2>1. live' = [live EXCEPT ![r].last = g]
    BY <1>0, <1>1, <1>4 DEF Operation
  <2>2. cmd' = [pc |-> "record", run |-> r, attempt |-> cmd.attempt, operation |-> g]
    BY <1>0, <1>1, <1>4 DEF Operation
  <2>3. live[r] \in [last : State \cup {None}]
    BY <1>0, <1>2 DEF IInv, CommandRight
  <2>4. live'[r].last = g /\ \A q \in Runs \ {r} : live'[q] = live[q]
    BY <1>2, <2>1, <2>3, Typed
  <2>5. Backed(g, g)
    BY <1>2, <1>4 DEF Backed
  <2>6. TypeRight'
    <3>1. \A q \in Runs : live'[q] # None /\ live'[q].last # None => Backed(live'[q].last, graph[q])
      BY <1>1, <2>4, <2>5 DEF FInv, TypeRight
    <3>2. cmd'.operation = g /\ cmd'.run = r
      BY <2>2
    <3> QED
      BY <1>1, <1>3, <2>5, <3>1, <3>2 DEF FInv, TypeRight
  <2>7. ASSUME Follows, faults = 0
        PROVE  Follows'
    <3>1. AttemptsApart'
      BY <1>3, <2>7 DEF Follows, AttemptsApart
    <3>2. RunRight(r) /\ (record[r] # None => record[r].revision \in Nat)
      BY <1>2, <2>7, Typed DEF Follows
    <3>3. cmd'.pc = "record" /\ cmd'.run = r /\ cmd'.attempt = cmd.attempt /\ cmd'.operation = g
      BY <2>2
    <3>4. AtRest(g)
      BY <1>3 DEF AtRest
    <3>5. g.next = "END" => Gate(g) = None
      BY DEF Gate
    <3>6. CommandFollows'
      <4>1. /\ \A q \in Runs : record[q] # None => (record[q].attempt = cmd.attempt <=> q = r)
            /\ attempts[cmd.attempt] = "running"
            /\ record[r] # None =>
                 record[r].revision < g.revision \/ (cmd.answer # None /\ record[r].revision = g.revision)
            /\ cmd.answer # None => Gate(g) # None
        BY <1>0, <1>1, <1>2, <2>7 DEF Follows, CommandFollows
      <4>2. cmd.answer = None
        BY <1>3, <3>5, <4>1
      <4> QED
        BY <1>1, <1>3, <3>3, <3>4, <4>1, <4>2 DEF CommandFollows
    <3>7. RunRight(r)'
      <4>1. Busy(r, {"graph"}) /\ ~Busy(r, {"graph"})' /\ Busy(r, {"graph", "record"})'
        BY <1>0, <1>2, <3>3 DEF Busy
      <4>2. LastOperation(r)' = g
        BY <1>1, <1>2, <1>3, <1>4, <2>4 DEF LastOperation
      <4>3. CASE record[r] = None
        <5>1. Unrecorded(r) /\ ~(graph[r].next = "plan" /\ graph[r].revision = 0)
          BY <1>1, <1>3, <1>4, <3>2, <4>3 DEF RunRight, Gate
        <5>2. Unrecorded(r)'
          BY <1>3, <5>1 DEF Unrecorded
        <5> QED
          BY <1>1, <1>2, <1>3, <3>2, <4>2, <4>3, <5>2 DEF RunRight
      <4>4. CASE record[r] # None
        <5>1. Recorded(r)'
          BY <1>3, <3>2, <4>1, <4>4 DEF RunRight, Recorded
        <5> QED
          BY <1>1, <1>2, <1>3, <3>2, <4>2, <4>4, <5>1 DEF RunRight
      <4> QED
        BY <4>3, <4>4
    <3>8. ASSUME NEW q \in Runs, q # r
          PROVE  RunRight(q)'
      <4>1. RunRight(q)
        BY <2>7 DEF Follows
      <4> QED
        BY <1>0, <1>3, <2>4, <3>3, <3>8, <4>1, OtherRun
    <3> QED
      BY <3>1, <3>6, <3>7, <3>8 DEF Follows
  <2> QED
    BY <1>3, <2>6, <2>7 DEF FInv
<1>5. CASE ~Valid(g)
  <2>1. cmd' = Idle /\ UNCHANGED live
    BY <1>0, <1>1, <1>5 DEF Operation, Fails
  <2>2. TypeRight'
    BY <1>3, <2>1 DEF FInv, TypeRight, Idle
  <2>3. ASSUME Follows, faults = 0
        PROVE  FALSE
    <3>1. g.final \in {None, "accept", "stop"}
      BY <1>1, <1>2, <2>3 DEF Follows, RunRight, QuestionRight
    <3>2. g.revision = 0
      BY <1>2, <1>5, <3>1 DEF Valid
    <3>3. /\ record[r] # None =>
               record[r].revision < g.revision \/ (cmd.answer # None /\ record[r].revision = g.revision)
          /\ cmd.answer # None => Gate(g) # None
      BY <1>0, <1>1, <1>2, <2>3 DEF Follows, CommandFollows
    <3>4. CASE record[r] = None
      <4>1. g.next = "plan" \/ g.revision = 1
        BY <1>1, <1>2, <2>3, <3>4 DEF Follows, RunRight, Unrecorded
      <4> QED
        BY <1>3, <3>2, <4>1 DEF Gate
    <3>5. CASE record[r] # None
      <4>1. record[r].revision \in Nat /\ record[r].revision > 0
        BY <1>2, <3>5, Typed DEF FInv, TypeRight, Backed, Valid
      <4> QED
        BY <3>2, <3>3, <3>5, <4>1
    <3> QED
      BY <3>4, <3>5
  <2> QED
    BY <1>3, <2>2, <2>3 DEF FInv
<1> QED
  BY <1>4, <1>5

\* A handle is made of the last operation: the operation stays the last one.
LEMMA HandleFollows ==
  ASSUME IInv, FInv, TeamNone, NEW r \in Runs, live' = [live EXCEPT ![r] = Handle(LastOperation(r))],
         UNCHANGED <<graph, record, keys, faults>>, attempts' \in [Attempts -> AttemptStatuses \cup {None}],
         cmd'.pc \notin {"idle", "graph"} => cmd'.run = r /\ cmd'.operation = LastOperation(r) /\ LastOperation(r) # None
  PROVE  /\ TypeRight'
         /\ LastOperation(r) # None => LastOperation(r) \in State /\ Backed(LastOperation(r), graph[r])
         /\ graph[r] # None /\ LastOperation(r) = graph[r] => LastOperation(r)' = graph[r]
         /\ \A q \in Runs \ {r} : live'[q] = live[q]
<1>1. PICK last : last = LastOperation(r)
  OBVIOUS
<1>2. live'[r] = [last |-> last] /\ \A q \in Runs \ {r} : live'[q] = live[q]
  BY <1>1, Typed DEF Handle
<1>3. last # None => last \in State /\ Backed(last, graph[r])
  <2>1. CASE live[r] # None
    <3>1. last = live[r].last
      BY <1>1, <2>1 DEF LastOperation
    <3> QED
      BY <2>1, <3>1, Typed DEF FInv, TypeRight
  <2>2. CASE live[r] = None
    <3>1. last # None => last = graph[r] /\ Valid(graph[r]) /\ graph[r] # None
      BY <1>1, <2>2 DEF LastOperation
    <3>2. graph[r] # None => graph[r].revision \in Nat /\ graph[r] \in State
      BY Typed
    <3> QED
      BY <3>1, <3>2 DEF Backed
  <2> QED
    BY <2>1, <2>2
<1>4. TypeRight'
  <2>1. \A q \in Runs : live'[q] # None /\ live'[q].last # None => Backed(live'[q].last, graph[q])
    BY <1>2, <1>3 DEF FInv, TypeRight
  <2>2. cmd'.pc \notin {"idle", "graph"} => Backed(cmd'.operation, graph[cmd'.run])
    BY <1>1, <1>3
  <2> QED
    BY <2>1, <2>2 DEF FInv, TypeRight
<1>5. graph[r] # None /\ last = graph[r] => LastOperation(r)' = graph[r]
  BY <1>2, <1>3 DEF LastOperation, Backed
<1> QED
  BY <1>1, <1>2, <1>3, <1>4, <1>5

LEMMA StartRunFollows ==
  ASSUME IInv, FInv, TeamNone, NEW r \in Runs, NEW a \in Attempts, StartRun(r, a)
  PROVE  FInv'
<1>1. cmd = Idle /\ cmd.pc = "idle" /\ record[r] = None /\ attempts[a] = None /\ UNCHANGED <<record, keys, faults>>
      /\ attempts' = [attempts EXCEPT ![a] = "running"] /\ None \notin State /\ None \notin AttemptStatuses
  BY NoneAsks DEF StartRun, Idle
<1>2. /\ attempts' \in [Attempts -> AttemptStatuses \cup {None}] /\ attempts'[a] = "running"
      /\ \A b \in Attempts \ {a} : attempts'[b] = attempts[b]
  BY <1>1, Typed DEF AttemptStatuses
<1>3. ASSUME Follows, NEW q \in Runs, record[q] # None
      PROVE  q # r /\ record[q].attempt \in Attempts \ {a}
  <2>1. record[q].attempt \in Attempts
    BY <1>3, Typed
  <2>2. Recorded(q)
    BY <1>3 DEF Follows, RunRight
  <2>3. attempts[record[q].attempt] = AttemptOf(record[q])
    BY <1>1, <2>2 DEF Recorded, Busy
  <2>4. AttemptOf(record[q]) \in AttemptStatuses
    BY DEF AttemptOf, AttemptStatuses
  <2> QED
    BY <1>1, <1>3, <2>1, <2>3, <2>4
<1>4. CASE live[r] = None /\ graph[r] = None
  <2>1. graph' = [graph EXCEPT ![r] = Fresh(a)] /\ live' = [live EXCEPT ![r] = [last |-> None]]
        /\ cmd' = [pc |-> "graph", run |-> r, attempt |-> a, answer |-> None]
    BY <1>4 DEF StartRun, LastOperation, Handle
  <2>2. PICK g : g = Fresh(a)
    OBVIOUS
  <2>3. g.next = "plan" /\ g.revision = 0 /\ g.final = None
    BY <2>2 DEF Fresh
  <2>4. graph'[r] = g /\ (\A q \in Runs \ {r} : graph'[q] = graph[q])
        /\ live'[r] = [last |-> None] /\ (\A q \in Runs \ {r} : live'[q] = live[q])
    BY <2>1, <2>2, Typed
  <2>5. cmd'.pc = "graph" /\ cmd'.run = r /\ cmd'.attempt = a /\ cmd'.answer = None
    BY <2>1
  <2>6. TypeRight'
    BY <1>1, <1>2, <2>4, <2>5 DEF FInv, TypeRight
  <2>7. ASSUME Follows, faults = 0
        PROVE  Follows'
    <3>1. AttemptsApart'
      BY <1>1, <2>7 DEF Follows, AttemptsApart
    <3>2. CommandFollows'
      BY <1>1, <1>2, <1>3, <2>5, <2>7 DEF CommandFollows
    <3>3. RunRight(r)'
      <4>1. Busy(r, {"graph"})'
        BY <2>5 DEF Busy
      <4>2. QuestionRight(g)
        BY <2>3, QuietRight DEF Quiet
      <4>3. keys[r] # {} => 1 \in keys[r]
        BY <2>7 DEF Follows, RunRight
      <4>4. Unrecorded(r)'
        BY <2>3, <2>4, <4>1 DEF Unrecorded
      <4> QED
        BY <1>1, <2>4, <4>1, <4>2, <4>3, <4>4 DEF RunRight
    <3>4. ASSUME NEW q \in Runs, q # r
          PROVE  RunRight(q)'
      <4>1. RunRight(q) /\ (record[q] # None => attempts'[record[q].attempt] = attempts[record[q].attempt])
        BY <1>2, <1>3, <2>7 DEF Follows
      <4> QED
        BY <1>1, <2>4, <2>5, <3>4, <4>1, OtherRun
    <3> QED
      BY <3>1, <3>2, <3>3, <3>4 DEF Follows
  <2> QED
    BY <1>1, <2>6, <2>7 DEF FInv
<1>5. CASE ~(live[r] = None /\ graph[r] = None)
  <2>1. graph' = graph /\ live' = [live EXCEPT ![r] = Handle(LastOperation(r))]
    BY <1>5 DEF StartRun
  <2>2. PICK last : last = LastOperation(r)
    OBVIOUS
  <2>3. cmd' = IF last # None THEN [pc |-> "record", run |-> r, attempt |-> a, operation |-> last] ELSE Idle
    BY <1>5, <2>2 DEF StartRun
  <2>4. last # None => cmd'.pc = "record" /\ cmd'.run = r /\ cmd'.attempt = a /\ cmd'.operation = last
    BY <2>3
  <2>5. last = None => cmd'.pc = "idle"
    BY <2>3 DEF Idle
  <2>6. /\ TypeRight'
        /\ last # None => last \in State /\ Backed(last, graph[r])
        /\ graph[r] # None /\ last = graph[r] => LastOperation(r)' = graph[r]
        /\ \A q \in Runs \ {r} : live'[q] = live[q]
    BY <1>1, <1>2, <2>1, <2>2, <2>4, <2>5, HandleFollows
  <2>7. ASSUME Follows, faults = 0
        PROVE  Follows'
    <3>1. AttemptsApart'
      BY <1>1, <2>7 DEF Follows, AttemptsApart
    <3>2. RunRight(r)
      BY <2>7 DEF Follows
    <3>3. graph[r] # None => last = graph[r] /\ QuestionRight(graph[r]) /\ graph[r].next = "approve_plan" /\ graph[r].revision = 1
      BY <1>1, <2>2, <3>2 DEF RunRight, Unrecorded, Busy
    <3>4. last # None => graph[r] # None
      BY <2>6 DEF Backed
    <3>5. CommandFollows'
      <4>1. CASE last = None
        BY <2>5, <4>1 DEF CommandFollows
      <4>2. CASE last # None
        <5>1. graph[r] = last /\ last.next = "approve_plan"
          BY <3>3, <3>4, <4>2
        <5>2. Gate(last) = "plan_approval" /\ AtRest(last)
          BY <5>1, NoneAsks DEF Gate, AtRest
        <5>3. cmd'.pc = "record" /\ cmd'.run = r /\ cmd'.attempt = a /\ cmd'.operation = last
          BY <2>4, <4>2
        <5> QED
          BY <1>1, <1>2, <1>3, <2>1, <2>7, <5>1, <5>2, <5>3 DEF CommandFollows
      <4> QED
        BY <4>1, <4>2
    <3>6. RunRight(r)'
      <4>1. Unrecorded(r)'
        BY <1>1, <2>1, <3>2, <3>3 DEF RunRight, Unrecorded
      <4> QED
        BY <1>1, <2>1, <2>6, <3>2, <3>3, <4>1 DEF RunRight
    <3>7. ASSUME NEW q \in Runs, q # r
          PROVE  RunRight(q)'
      <4>1. RunRight(q) /\ (record[q] # None => attempts'[record[q].attempt] = attempts[record[q].attempt])
        BY <1>2, <1>3, <2>7 DEF Follows
      <4>2. cmd'.pc # "idle" => cmd'.run # q
        BY <2>4, <2>5, <3>7
      <4> QED
        BY <1>1, <2>1, <2>6, <3>7, <4>1, <4>2, OtherRun
    <3> QED
      BY <3>1, <3>5, <3>6, <3>7 DEF Follows
  <2> QED
    BY <1>1, <2>6, <2>7 DEF FInv
<1> QED
  BY <1>4, <1>5

LEMMA AnswerFollows ==
  ASSUME IInv, FInv, TeamNone, NEW r \in Runs, NEW answer, Answer(r, answer)
  PROVE  FInv'
<1>1. PICK last : last = LastOperation(r)
  OBVIOUS
<1>2. PICK given : given = IF answer = "stop_team_session" THEN "stop" ELSE answer
  OBVIOUS
<1>0. CASE StartsOver(r)
  <2>1. cmd = Idle /\ cmd.pc = "idle" /\ record[r] # None /\ UNCHANGED <<record, keys, attempts, faults>>
    BY DEF Answer, Idle
  <2>2. live' = [live EXCEPT ![r] = [last |-> None]] /\ live[r].last = None /\ LastOperation(r) = None
    BY <1>0 DEF Answer, StartsOver, LastOperation, Handle
  <2>3. live'[r].last = None /\ \A q \in Runs \ {r} : live'[q] = live[q]
    BY <2>2, Typed
  <2>4. graph' = graph \/ graph' = [graph EXCEPT ![r] = Fresh(record[r].attempt)]
    BY DEF Answer
  <2>5. record[r].attempt \in Attempts /\ graph[r] # None
    BY <2>1, Typed DEF FInv, TypeRight, Backed
  <2>6. Fresh(record[r].attempt) # None
    BY <2>5, FreshRight, NoneApart
  <2>7. \A q \in Runs : graph[q] # None => graph'[q] # None
    BY <2>4, <2>6, Typed
  <2>8. cmd'.pc \in {"idle", "graph"}
    BY DEF Answer, Idle
  <2>9. TypeRight'
    BY <2>1, <2>3, <2>7, <2>8 DEF FInv, TypeRight, Backed
  <2>10. ~Follows
    BY <2>1, <2>2, <2>5 DEF Follows, RunRight, Busy
  <2> QED
    BY <2>1, <2>9, <2>10 DEF FInv
<1> SUFFICES ASSUME ~StartsOver(r)
             PROVE  FInv'
  BY <1>0
<1>3. cmd = Idle /\ cmd.pc = "idle" /\ record[r] # None /\ UNCHANGED <<graph, record, keys, attempts, faults>>
      /\ live' = [live EXCEPT ![r] = Handle(LastOperation(r))]
  BY DEF Answer, Idle
<1>4. \/ cmd' = Idle
      \/ /\ last # None /\ ~Terminal(last)
         /\ IF answer = "stop_team_session" THEN last.pending # None ELSE answer \in ResumeInput(record[r].pending)
         /\ cmd' = [pc |-> "graph", run |-> r, attempt |-> record[r].attempt, answer |-> given]
  BY <1>1, <1>2 DEF Answer
<1>5. cmd'.pc \in {"idle", "graph"} /\ (cmd'.pc # "idle" => cmd'.run = r)
  BY <1>4 DEF Idle
<1>6. /\ TypeRight'
      /\ last # None => last \in State /\ Backed(last, graph[r])
      /\ graph[r] # None /\ last = graph[r] => LastOperation(r)' = graph[r]
      /\ \A q \in Runs \ {r} : live'[q] = live[q]
  BY <1>1, <1>3, <1>5, Typed, HandleFollows
<1>7. ASSUME Follows, faults = 0
      PROVE  Follows'
  <2>1. AttemptsApart'
    BY <1>3, <1>7 DEF Follows, AttemptsApart
  <2>2. RunRight(r) /\ Recorded(r) /\ record[r] \in State /\ Backed(record[r], graph[r]) /\ graph[r] # None
    BY <1>3, <1>7, Typed DEF Follows, RunRight, FInv, TypeRight, Backed
  <2>3. Shows(record[r], graph[r]) /\ AtRest(graph[r]) /\ attempts[record[r].attempt] = AttemptOf(record[r])
        /\ QuestionRight(graph[r]) /\ last = graph[r]
    BY <1>1, <1>3, <2>2 DEF Recorded, RunRight, Busy
  <2>4. CASE cmd' = Idle
    <3>1. CommandFollows'
      BY <2>4 DEF CommandFollows, Idle
    <3>2. \A pcs : Busy(r, pcs) => cmd.pc \in pcs
      BY DEF Busy
    <3>3. RunRight(r)'
      <4>1. Recorded(r)'
        BY <1>3, <2>2, <2>3 DEF Recorded
      <4> QED
        BY <1>3, <1>6, <2>2, <2>3, <4>1 DEF RunRight
    <3>4. ASSUME NEW q \in Runs, q # r
          PROVE  RunRight(q)'
      <4>1. RunRight(q)
        BY <1>7 DEF Follows
      <4> QED
        BY <1>3, <1>5, <1>6, <3>4, <4>1, OtherRun
    <3> QED
      BY <2>1, <3>1, <3>3, <3>4 DEF Follows
  <2>5. CASE /\ last # None /\ ~Terminal(last)
             /\ IF answer = "stop_team_session" THEN last.pending # None ELSE answer \in ResumeInput(record[r].pending)
             /\ cmd' = [pc |-> "graph", run |-> r, attempt |-> record[r].attempt, answer |-> given]
    <3>1. cmd'.pc = "graph" /\ cmd'.run = r /\ cmd'.attempt = record[r].attempt /\ cmd'.answer = given
      BY <2>5
    <3>2. Gate(graph[r]) # None
      BY <2>3, <2>5 DEF AtRest, QuestionRight
    <3>3. Gate(graph[r]) = "final_decision" => given \in {"accept", "stop"}
      <4>1. ASSUME Gate(graph[r]) = "final_decision", answer # "stop_team_session"
            PROVE  given \in {"accept", "stop"}
        <5>1. graph[r].pending # None => graph[r].pending = "final_decision"
          BY <2>3, <3>2, <4>1 DEF QuestionRight
        <5>2. record[r].pending = graph[r].pending /\ record[r].pending # None
          BY <2>3, <2>5, <4>1 DEF Shows, ResumeInput
        <5>3. answer \in Answers.final_decision
          BY <2>5, <4>1, <5>1, <5>2 DEF ResumeInput, Answers
        <5> QED
          BY <1>2, <4>1, <5>3 DEF Answers
      <4> QED
        BY <1>2, <4>1
    <3>4. attempts[record[r].attempt] = "running"
      BY <2>3, <2>5 DEF AttemptOf, Terminal, Shows
    <3>5. CommandFollows'
      <4>1. \A q \in Runs : record[q] # None => (record[q].attempt = record[r].attempt <=> q = r)
        BY <1>3, <1>7 DEF Follows, AttemptsApart
      <4>2. given # None
        BY <1>2, <2>2, <2>3, <2>5, AnswersKnown, NoneAsks, NoneApart DEF State, TeamNone
      <4>3. record[r].revision = graph[r].revision
        BY <2>3 DEF Shows
      <4> QED
        BY <1>3, <3>1, <3>2, <3>3, <3>4, <4>1, <4>2, <4>3 DEF CommandFollows
    <3>6. RunRight(r)'
      <4>1. Busy(r, {"graph"})' /\ Busy(r, {"graph", "record"})'
        BY <3>1 DEF Busy
      <4>2. Recorded(r)'
        BY <1>3, <2>2, <4>1 DEF Recorded
      <4> QED
        BY <1>3, <2>2, <2>3, <4>1, <4>2 DEF RunRight
    <3>7. ASSUME NEW q \in Runs, q # r
          PROVE  RunRight(q)'
      <4>1. RunRight(q)
        BY <1>7 DEF Follows
      <4> QED
        BY <1>3, <1>5, <1>6, <3>7, <4>1, OtherRun
    <3> QED
      BY <2>1, <3>5, <3>6, <3>7 DEF Follows
  <2> QED
    BY <1>4, <2>4, <2>5
<1> QED
  BY <1>3, <1>6, <1>7 DEF FInv

\* A run is forgotten but for its keys.
LEMMA ResetFollows ==
  ASSUME IInv, FInv, TeamNone, NEW r \in Runs, Reset(r)
  PROVE  FInv'
<1>1. cmd = Idle /\ cmd.pc = "idle" /\ UNCHANGED <<cmd, keys, attempts, faults>>
  BY DEF Reset, Idle
<1>2. /\ graph'[r] = None /\ record'[r] = None /\ live'[r] = None
      /\ \A q \in Runs \ {r} : graph'[q] = graph[q] /\ record'[q] = record[q] /\ live'[q] = live[q]
  BY Typed DEF Reset
<1>3. TypeRight'
  BY <1>1, <1>2 DEF FInv, TypeRight
<1>4. ASSUME Follows
      PROVE  Follows'
  <2>1. AttemptsApart' /\ CommandFollows'
    BY <1>1, <1>2, <1>4 DEF Follows, AttemptsApart, CommandFollows
  <2>2. RunRight(r)'
    BY <1>1, <1>2, <1>4 DEF Follows, RunRight, Unrecorded
  <2>3. ASSUME NEW q \in Runs, q # r
        PROVE  RunRight(q)'
    BY <1>1, <1>2, <1>4, <2>3, OtherRun DEF Follows
  <2> QED
    BY <2>1, <2>2, <2>3 DEF Follows
<1> QED
  BY <1>1, <1>3, <1>4 DEF FInv

\* The command goes on after it has recorded its operation, or ends.
LEMMA CommandGoesOn ==
  ASSUME IInv, FInv, TeamNone, cmd.pc \in {"verdict", "finish", "answer"}, UNCHANGED <<graph, record, keys, live, faults>>,
         \/ attempts' = attempts /\ cmd.pc # "finish"
         \/ attempts' = [attempts EXCEPT ![cmd.attempt] = Outcome(cmd.operation)] /\ cmd.pc = "finish",
         cmd' = Idle \/ cmd' = [cmd EXCEPT !.pc = "answer"]
  PROVE  FInv'
<1>0. PICK r : r = cmd.run
  OBVIOUS
<1>1. cmd.pc # "idle" /\ cmd.pc # "graph" /\ cmd \in RecordCommand /\ r \in Runs /\ cmd.attempt \in Attempts
      /\ cmd.operation \in State /\ Backed(cmd.operation, graph[r]) /\ graph[r] \in State /\ None \notin State
  BY <1>0, CommandTyped, NoneAsks
<1>2. cmd'.pc \in {"idle", "answer"} /\ (cmd'.pc # "idle" =>
        cmd'.pc = "answer" /\ cmd'.run = r /\ cmd'.attempt = cmd.attempt /\ cmd'.operation = cmd.operation)
  BY <1>0, <1>1 DEF Idle, RecordCommand
<1>3. Outcome(cmd.operation) \in AttemptStatuses
  BY DEF Outcome, AttemptStatuses
<1>4. /\ attempts' \in [Attempts -> AttemptStatuses \cup {None}]
      /\ \A b \in Attempts \ {cmd.attempt} : attempts'[b] = attempts[b]
      /\ IF cmd.pc = "finish" THEN attempts'[cmd.attempt] = Outcome(cmd.operation)
                              ELSE attempts'[cmd.attempt] = attempts[cmd.attempt]
  BY <1>1, <1>3, Typed
<1>5. TypeRight'
  BY <1>1, <1>2, <1>4 DEF FInv, TypeRight
<1>6. ASSUME Follows
      PROVE  Follows'
  <2>1. /\ \A q \in Runs : record[q] # None => (record[q].attempt = cmd.attempt <=> q = r)
        /\ cmd.operation = graph[r] /\ AtRest(graph[r]) /\ (cmd.pc = "finish" => Terminal(graph[r]))
    BY <1>0, <1>1, <1>6 DEF Follows, CommandFollows
  <2>2. AttemptsApart'
    BY <1>6 DEF Follows, AttemptsApart
  <2>3. CommandFollows'
    BY <1>2, <2>1 DEF CommandFollows
  <2>4. RunRight(r)'
    <3>1. RunRight(r)
      BY <1>1, <1>6 DEF Follows
    <3>2. /\ ~Busy(r, {"graph"}) /\ ~Busy(r, {"graph", "record"}) /\ ~Busy(r, {"graph"})' /\ ~Busy(r, {"finish"})'
          /\ ~Busy(r, {"graph", "record"})' /\ (Busy(r, {"finish"}) <=> cmd.pc = "finish")
      BY <1>0, <1>2 DEF Busy
    <3>3. LastOperation(r)' = LastOperation(r)
      BY DEF LastOperation
    <3>4. CASE record[r] = None
      BY <3>1, <3>2, <3>3, <3>4 DEF RunRight, Unrecorded
    <3>5. CASE record[r] # None
      <4>1. record[r].attempt = cmd.attempt /\ Recorded(r) /\ Shows(record[r], graph[r])
        BY <1>1, <2>1, <3>1, <3>2, <3>5 DEF RunRight, Recorded
      <4>2. CASE cmd.pc = "finish"
        <5>1. Outcome(graph[r]) = AttemptOf(record[r])
          BY <2>1, <4>1, <4>2 DEF Terminal, Outcome, AttemptOf, Shows
        <5> QED
          BY <1>4, <2>1, <3>1, <3>2, <3>3, <3>5, <4>1, <4>2, <5>1 DEF RunRight, Recorded
      <4>3. CASE cmd.pc # "finish"
        <5>1. attempts'[record[r].attempt] = AttemptOf(record[r])
          BY <1>4, <3>2, <4>1, <4>3 DEF Recorded
        <5> QED
          BY <3>1, <3>2, <3>3, <3>5, <4>1, <5>1 DEF RunRight, Recorded
      <4> QED
        BY <4>2, <4>3
    <3> QED
      BY <3>4, <3>5
  <2>5. ASSUME NEW q \in Runs, q # r
        PROVE  RunRight(q)'
    <3>1. record[q] # None => record[q].attempt \in Attempts \ {cmd.attempt}
      BY <2>1, <2>5, Typed
    <3>2. RunRight(q) /\ (record[q] # None => attempts'[record[q].attempt] = attempts[record[q].attempt])
      BY <1>4, <1>6, <3>1 DEF Follows
    <3> QED
      BY <1>0, <1>2, <2>5, <3>2, OtherRun
  <2> QED
    BY <2>2, <2>3, <2>4, <2>5 DEF Follows
<1> QED
  BY <1>5, <1>6 DEF FInv

LEMMA CommandEndsFollows ==
  ASSUME IInv, FInv, TeamNone, RecordVerification \/ FinishAttempt \/ AnswerCommand
  PROVE  FInv'
<1>1. CASE RecordVerification \/ FinishAttempt
  <2>1. UNCHANGED <<graph, record, keys, live, faults>> /\ cmd' = [cmd EXCEPT !.pc = "answer"]
    BY <1>1 DEF RecordVerification, FinishAttempt
  <2> QED
    BY <1>1, <2>1, CommandGoesOn DEF RecordVerification, FinishAttempt
<1>2. CASE AnswerCommand
  BY <1>2, CommandGoesOn DEF AnswerCommand, disk
<1> QED
  BY <1>1, <1>2

\* The operation is recorded, once, as the Attempt of the command; a run that was reset is not.
LEMMA RecordOperationFollows ==
  ASSUME IInv, FInv, TeamNone, RecordOperation
  PROVE  FInv'
<1>0. PICK r : r = cmd.run
  OBVIOUS
<1>1. PICK op : op = cmd.operation
  OBVIOUS
<1>2. cmd.pc = "record" /\ cmd \in RecordCommand /\ r \in Runs /\ cmd.attempt \in Attempts /\ op \in State
      /\ Backed(op, graph[r]) /\ graph[r] \in State /\ op.revision \in Nat /\ None \notin State
  BY <1>0, <1>1, CommandTyped, Typed, NoneAsks DEF RecordOperation
<1>3. UNCHANGED <<graph, attempts, live, faults>>
  BY DEF RecordOperation
<1>4. PICK pc : pc = IF op.status = "awaiting_human_decision" THEN "verdict" ELSE IF Terminal(op) THEN "finish" ELSE "answer"
  OBVIOUS
<1>5. cmd' = [cmd EXCEPT !.pc = pc]
  BY <1>1, <1>4 DEF RecordOperation
<1>6. cmd'.pc = pc /\ cmd'.run = r /\ cmd'.attempt = cmd.attempt /\ cmd'.operation = op
  BY <1>0, <1>1, <1>2, <1>5 DEF RecordCommand
<1>7. pc \in {"verdict", "finish", "answer"} /\ (pc = "finish" <=> Terminal(op))
  BY <1>4 DEF Terminal
<1>8. PICK x : x = [op EXCEPT !.attempt = cmd.attempt]
  OBVIOUS
<1>9. x \in State /\ x.attempt = cmd.attempt /\ Shows(x, op) /\ Valid(x) /\ Backed(x, graph[r]) /\ x.revision = op.revision
  <2>1. x \in State /\ x.attempt = cmd.attempt /\ Shows(x, op) /\ x.final = op.final /\ x.revision = op.revision
    BY <1>2, <1>8 DEF State, Shows
  <2> QED
    BY <1>2, <2>1 DEF Backed, Valid
<1>10. IF op.revision \notin keys[r]
       THEN /\ record'[r] = x /\ keys'[r] = keys[r] \cup {op.revision} /\ keys' \in [Runs -> SUBSET Nat]
            /\ \A q \in Runs \ {r} : record'[q] = record[q] /\ keys'[q] = keys[q]
       ELSE UNCHANGED <<record, keys>>
  BY <1>0, <1>1, <1>2, <1>8, Typed DEF RecordOperation
<1>11. TypeRight'
  <2>1. /\ keys' \in [Runs -> SUBSET Nat]
        /\ \A q \in Runs : record'[q] # None => Backed(record'[q], graph[q]) /\ record'[q].revision \in keys'[q]
    BY <1>9, <1>10, Typed DEF FInv, TypeRight
  <2> QED
    BY <1>2, <1>3, <1>6, <2>1 DEF FInv, TypeRight
<1>12. ASSUME Follows
       PROVE  Follows'
  <2>1. /\ \A q \in Runs : record[q] # None => (record[q].attempt = cmd.attempt <=> q = r)
        /\ op = graph[r] /\ AtRest(graph[r]) /\ attempts[cmd.attempt] = "running"
        /\ record[r] # None => record[r].revision < op.revision
    BY <1>0, <1>1, <1>2, <1>12 DEF Follows, CommandFollows
  <2>2. RunRight(r)
    BY <1>2, <1>12 DEF Follows
  <2>3. /\ ~Busy(r, {"graph"}) /\ ~Busy(r, {"graph"})' /\ ~Busy(r, {"graph", "record"})'
        /\ (Busy(r, {"finish"})' <=> Terminal(op))
    BY <1>0, <1>2, <1>6, <1>7 DEF Busy
  <2>4. LastOperation(r)' = LastOperation(r)
    BY <1>3 DEF LastOperation
  <2>5. AttemptsApart'
    BY <1>9, <1>10, <1>12, <2>1 DEF Follows, AttemptsApart
  <2>6. CommandFollows'
    BY <1>3, <1>6, <1>7, <1>9, <1>10, <2>1 DEF CommandFollows
  <2>7. RunRight(r)'
    <3>1. CASE record[r] = None
      <4>1. graph[r].next = "approve_plan" /\ op.revision = 1
        BY <1>2, <2>1, <2>2, <2>3, <3>1 DEF RunRight, Unrecorded
      <4>2. CASE op.revision \notin keys[r]
        <5>1. keys[r] = {}
          BY <2>2, <4>1, <4>2 DEF RunRight
        <5>2. Recorded(r)'
          <6>1. ~Terminal(op) => attempts[cmd.attempt] = AttemptOf(x)
            BY <1>9, <2>1 DEF AttemptOf, Terminal, Shows
          <6>2. keys'[r] = {op.revision} /\ op.revision <= x.revision
            BY <1>2, <1>9, <1>10, <4>2, <5>1
          <6> QED
            BY <1>3, <1>9, <1>10, <2>1, <2>3, <4>2, <6>1, <6>2 DEF Recorded
        <5> QED
          BY <1>2, <1>3, <1>9, <1>10, <2>2, <2>3, <2>4, <4>1, <4>2, <5>2 DEF RunRight
      <4>3. CASE op.revision \in keys[r]
        BY <1>2, <1>3, <1>10, <2>2, <2>3, <2>4, <3>1, <4>1, <4>3 DEF RunRight, Unrecorded
      <4> QED
        BY <4>2, <4>3
    <3>2. CASE record[r] # None
      <4>1. Recorded(r) /\ record[r].revision \in Nat /\ keys[r] \subseteq Nat
        BY <1>2, <2>2, <3>2, Typed DEF RunRight
      <4>2. \A k \in keys[r] : k < op.revision
        <5>1. ASSUME NEW k \in keys[r]
              PROVE  k < op.revision
          <6>1. k \in Nat /\ k <= record[r].revision
            BY <4>1 DEF Recorded
          <6> QED
            BY <1>2, <2>1, <3>2, <4>1, <6>1
        <5> QED
          BY <5>1
      <4>3. op.revision \notin keys[r]
        BY <1>2, <4>2
      <4>4. Recorded(r)'
        <5>1. ~Terminal(op) => attempts[cmd.attempt] = AttemptOf(x)
          BY <1>9, <2>1 DEF AttemptOf, Terminal, Shows
        <5>2. \A k \in keys[r] \cup {op.revision} : k <= x.revision
          BY <1>2, <1>9, <4>1, <4>2
        <5> QED
          BY <1>3, <1>9, <1>10, <2>1, <2>3, <4>3, <5>1, <5>2 DEF Recorded
      <4>5. 1 \in keys'[r]
        <5>1. record[r].revision \in keys[r]
          BY <1>2, <3>2 DEF FInv, TypeRight
        <5> QED
          BY <1>10, <2>2, <4>3, <5>1 DEF RunRight
      <4> QED
        BY <1>2, <1>3, <1>9, <1>10, <2>2, <2>3, <2>4, <4>3, <4>4, <4>5 DEF RunRight
    <3> QED
      BY <3>1, <3>2
  <2>8. ASSUME NEW q \in Runs, q # r
        PROVE  RunRight(q)'
    <3>1. RunRight(q) /\ record'[q] = record[q] /\ keys'[q] = keys[q]
      BY <1>10, <1>12, <2>8 DEF Follows
    <3> QED
      BY <1>0, <1>3, <1>6, <2>8, <3>1, OtherRun
  <2> QED
    BY <2>5, <2>6, <2>7, <2>8 DEF Follows
<1> QED
  BY <1>3, <1>11, <1>12 DEF FInv

LEMMA FaultsFollow ==
  ASSUME IInv, FInv, NodeFails \/ WriteFails \/ Restart
  PROVE  FInv'
<1>1. CASE NodeFails \/ WriteFails
  <2>1. faults' = faults + 1 /\ UNCHANGED <<graph, record, keys, attempts, live>> /\ cmd' = Idle
    BY <1>1 DEF NodeFails, WriteFails, Fails, disk
  <2> QED
    BY <2>1, FaultFollows DEF FInv, TypeRight
<1>2. CASE Restart
  <2>1. attempts' \in [Attempts -> AttemptStatuses \cup {None}]
    BY <1>2, Typed DEF Restart, AttemptStatuses
  <2> QED
    BY <1>2, <2>1, FaultFollows DEF Restart
<1> QED
  BY <1>1, <1>2

-----------------------------------------------------------------------------
(* The record is never ahead, whatever fails *)

\* A snapshot of the graph as it is, or of an earlier revision; of a run that was started over, anything.
Reached(startedOver, x, g) == startedOver \/ x.revision < g.revision \/ Shows(x, g)

\* So is what is recorded, what the handles keep and what the command brings to the record.
ReachedInv ==
  /\ \A r \in Runs : record[r] # None => Reached(r \in over, record[r], graph[r])
  /\ \A r \in Runs : live[r] # None /\ live[r].last # None => Reached(r \in over, live[r].last, graph[r])
  /\ cmd.pc \notin {"idle", "graph"} => Reached(cmd.run \in over, cmd.operation, graph[cmd.run])

\* Steps that leave the graphs and the record alone, and forget handles at most.
LEMMA ReachedStays ==
  ASSUME ReachedInv, UNCHANGED <<graph, record, over>>, UNCHANGED live \/ live' = [r \in Runs |-> None],
         cmd'.pc \in {"idle", "graph"}
           \/ (cmd.pc \notin {"idle", "graph"} /\ cmd'.run = cmd.run /\ cmd'.operation = cmd.operation)
  PROVE  ReachedInv'
BY DEF ReachedInv, Reached, Shows

\* The graph of the command moves on: what was a snapshot of it is one of an earlier revision.
LEMMA ReachedBehind ==
  ASSUME IInv, FInv, ReachedInv, NEW r \in Runs, graph[r] \in State, NEW h, h.revision = graph[r].revision + 1,
         graph' = [graph EXCEPT ![r] = h], UNCHANGED <<record, live, over>>, cmd'.pc = "graph"
  PROVE  ReachedInv'
<1>1. graph'[r] = h /\ \A q \in Runs \ {r} : graph'[q] = graph[q]
  BY Typed
<1>2. ASSUME NEW x \in State, Reached(r \in over, x, graph[r])
      PROVE  Reached(r \in over, x, h)
  <2>1. x.revision \in Nat /\ graph[r].revision \in Nat
    BY Typed
  <2> QED
    BY <1>2, <2>1 DEF Reached, Shows
<1>3. ASSUME NEW q \in Runs, NEW x \in State, Reached(q \in over, x, graph[q])
      PROVE  Reached(q \in over, x, graph'[q])
  BY <1>1, <1>2, <1>3
<1>4. ASSUME NEW q \in Runs
      PROVE  /\ record[q] # None => record[q] \in State
             /\ live[q] # None /\ live[q].last # None => live[q].last \in State
  BY Typed
<1>5. UNCHANGED over
  OBVIOUS
<1> QED
  BY <1>3, <1>4, <1>5 DEF ReachedInv

LEMMA RunNodeReached ==
  ASSUME IInv, FInv, TeamNone, ReachedInv, RunNode
  PROVE  ReachedInv'
<1> DEFINE g == graph[cmd.run]
<1>1. cmd.pc = "graph" /\ cmd \in GraphCommand /\ g \in State /\ cmd.run \in Runs /\ None \notin State
  BY CommandTyped, NoneAsks DEF RunNode
<1>2. PICK h : /\ graph' = [graph EXCEPT ![cmd.run] = h]
               /\ \/ Gate(g) = None /\ h \in AgentNode(g)
                  \/ Gate(g) # None /\ cmd.answer # None /\ h = Decided(g, cmd.answer)
  BY DEF RunNode
<1>3. cmd' = [cmd EXCEPT !.answer = None] /\ UNCHANGED <<record, live, over>>
  BY DEF RunNode, process
<1>4. cmd'.pc = "graph"
  BY <1>1, <1>3 DEF GraphCommand
<1>5. h.revision = g.revision + 1
  <2>1. CASE Gate(g) = None /\ h \in AgentNode(g)
    BY <1>1, <2>1, AgentNodeAsks DEF MovesOn
  <2>2. CASE Gate(g) # None /\ cmd.answer # None /\ h = Decided(g, cmd.answer)
    BY <1>1, <2>2, DecidedAsks DEF GraphCommand
  <2> QED
    BY <1>2, <2>1, <2>2
<1> QED
  BY <1>1, <1>2, <1>3, <1>4, <1>5, ReachedBehind

LEMMA CheckedReached ==
  ASSUME IInv, FInv, TeamNone, ReachedInv, Checked
  PROVE  ReachedInv'
<1> DEFINE g == graph[cmd.run]
           m == Moved(g, "final_decision", "awaiting_human_decision")
           h == [m EXCEPT !.pending = "final_decision", !.verdict = check.status]
<1>1. graph' = [graph EXCEPT ![cmd.run] = h] /\ UNCHANGED <<record, live, cmd, over>> /\ check # None
  BY DEF Checked
<1>2. cmd.pc = "graph"
  BY <1>1 DEF IInv, CheckRight
<1>3. cmd.run \in Runs /\ g \in State
  BY <1>2, CommandTyped
<1>4. m \in State /\ m.revision = g.revision + 1
  <2>1. "final_decision" \in Nodes /\ "awaiting_human_decision" \in Statuses
    BY DEF Nodes, Statuses
  <2> QED
    BY <1>3, <2>1, MovedState, MovedOn
<1> HIDE DEF m
<1>5. h.revision = g.revision + 1
  BY <1>4 DEF State
<1> HIDE DEF h
<1> QED
  BY <1>1, <1>2, <1>3, <1>5, ReachedBehind

\* The operation is the graph as it is.
LEMMA OperationReached ==
  ASSUME IInv, FInv, TeamNone, ReachedInv, Operation
  PROVE  ReachedInv'
<1> DEFINE r == cmd.run
<1>1. cmd.pc = "graph" /\ r \in Runs /\ live \in [Runs -> [last : State \cup {None}] \cup {None}]
      /\ live[r] \in [last : State \cup {None}]
  BY CommandTyped, Typed DEF Operation, IInv, CommandRight
<1>2. UNCHANGED <<graph, record, over>>
  BY DEF Operation, disk, process
<1>3. CASE Valid(graph[r])
  <2>1. live' = [live EXCEPT ![r].last = graph[r]] /\ cmd'.run = r /\ cmd'.operation = graph[r]
    BY <1>3 DEF Operation
  <2>2. live'[r].last = graph[r] /\ \A q \in Runs \ {r} : live'[q] = live[q]
    BY <1>1, <2>1
  <2>3. Reached(r \in over, graph[r], graph[r])
    BY DEF Reached, Shows
  <2> QED
    BY <1>2, <2>1, <2>2, <2>3 DEF ReachedInv, Reached, Shows
<1>4. CASE ~Valid(graph[r])
  <2>1. cmd'.pc = "idle" /\ UNCHANGED live
    BY <1>4 DEF Operation, Fails, Idle
  <2> QED
    BY <1>2, <2>1, ReachedStays
<1> QED
  BY <1>3, <1>4

\* The snapshot of the command is recorded, as one of its Attempt.
LEMMA RecordOperationReached ==
  ASSUME IInv, FInv, TeamNone, ReachedInv, RecordOperation
  PROVE  ReachedInv'
<1> DEFINE r == cmd.run
           op == cmd.operation
           x == [op EXCEPT !.attempt = cmd.attempt]
<1>1. cmd.pc = "record" /\ r \in Runs /\ op \in State /\ cmd \in RecordCommand
  BY CommandTyped DEF RecordOperation
<1>2. UNCHANGED <<graph, live, over>> /\ (UNCHANGED record \/ record' = [record EXCEPT ![r] = x])
  BY DEF RecordOperation, process
<1>3. cmd'.run = r /\ cmd'.operation = op
  BY <1>1 DEF RecordOperation, RecordCommand
<1>4. Reached(r \in over, op, graph[r])
  BY <1>1 DEF ReachedInv
<1>5. x.revision = op.revision /\ x.status = op.status /\ x.pending = op.pending /\ x.review = op.review
  BY <1>1 DEF State
<1> HIDE DEF op, x
<1>6. Reached(r \in over, x, graph[r])
  BY <1>4, <1>5 DEF Reached, Shows
<1>7. record' = [record EXCEPT ![r] = x] => record'[r] = x /\ \A q \in Runs \ {r} : record'[q] = record[q]
  BY <1>1, Typed
<1>8. ASSUME NEW q \in Runs, record'[q] # None
      PROVE  Reached(q \in over, record'[q], graph[q])
  BY <1>2, <1>6, <1>7, <1>8 DEF ReachedInv
<1> QED
  BY <1>1, <1>2, <1>3, <1>4, <1>8 DEF ReachedInv, Reached, Shows

\* What a command finds is what the handle keeps, or the graph as it is.
LEMMA LastReached ==
  ASSUME ReachedInv, NEW r \in Runs, LastOperation(r) # None
  PROVE  Reached(r \in over, LastOperation(r), graph[r])
BY DEF ReachedInv, LastOperation, Reached, Shows

LEMMA StartRunReached ==
  ASSUME IInv, FInv, TeamNone, ReachedInv, NEW r \in Runs, NEW a \in Attempts, StartRun(r, a)
  PROVE  ReachedInv'
<1> DEFINE known == LastOperation(r)
           new == live[r] = None /\ graph[r] = None
<1>1. /\ record[r] = None /\ live' = [live EXCEPT ![r] = Handle(known)] /\ UNCHANGED <<record, over>>
      /\ graph' = IF new THEN [graph EXCEPT ![r] = Fresh(a)] ELSE graph
  BY DEF StartRun, process
<1>2. live'[r] = Handle(known) /\ \A q \in Runs \ {r} : live'[q] = live[q] /\ graph'[q] = graph[q]
  BY <1>1, Typed
<1>3. new => known = None
  BY DEF LastOperation
<1>4. Handle(known).last = known
  BY DEF Handle
<1>5. known # None => graph'[r] = graph[r] /\ Reached(r \in over, known, graph[r])
  BY <1>1, <1>3, LastReached
<1>6. \/ cmd'.pc \in {"idle", "graph"}
      \/ cmd'.run = r /\ cmd'.operation = known /\ known # None
  BY DEF StartRun, Idle
<1> HIDE DEF known, new
<1>7. ASSUME NEW q \in Runs, record'[q] # None
      PROVE  Reached(q \in over', record'[q], graph'[q])
  BY <1>1, <1>2, <1>7 DEF ReachedInv
<1>8. ASSUME NEW q \in Runs, live'[q] # None, live'[q].last # None
      PROVE  Reached(q \in over', live'[q].last, graph'[q])
  BY <1>1, <1>2, <1>4, <1>5, <1>8 DEF ReachedInv
<1>9. cmd'.pc \notin {"idle", "graph"} => Reached(cmd'.run \in over', cmd'.operation, graph'[cmd'.run])
  BY <1>1, <1>5, <1>6
<1> QED
  BY <1>7, <1>8, <1>9 DEF ReachedInv

\* An answer leaves the graph as it is, or starts it over, which is noted.
LEMMA AnswerReached ==
  ASSUME IInv, FInv, TeamNone, ReachedInv, NEW r \in Runs, NEW answer \in AnswerSet \cup {"stop_team_session"},
         Answer(r, answer)
  PROVE  ReachedInv'
<1> DEFINE known == LastOperation(r)
<1>1. live' = [live EXCEPT ![r] = Handle(known)] /\ UNCHANGED record /\ cmd'.pc \in {"idle", "graph"}
  BY DEF Answer, Idle
<1>2. \/ UNCHANGED <<graph, over>>
      \/ graph' = [graph EXCEPT ![r] = Fresh(record[r].attempt)] /\ over' = over \cup {r}
  BY DEF Answer
<1>3. \A q \in Runs \ {r} : live'[q] = live[q] /\ graph'[q] = graph[q] /\ (q \in over' <=> q \in over)
  BY <1>1, <1>2, Typed
<1>4. live'[r] = Handle(known) /\ Handle(known).last = known
  BY <1>1, Typed DEF Handle
<1>5. r \in over' \/ UNCHANGED <<graph, over>>
  BY <1>2
<1>6. known # None => Reached(r \in over, known, graph[r])
  BY LastReached
<1> HIDE DEF known
<1>7. ASSUME NEW q \in Runs, record'[q] # None
      PROVE  Reached(q \in over', record'[q], graph'[q])
  BY <1>1, <1>3, <1>5, <1>7 DEF ReachedInv, Reached
<1>8. ASSUME NEW q \in Runs, live'[q] # None, live'[q].last # None
      PROVE  Reached(q \in over', live'[q].last, graph'[q])
  BY <1>3, <1>4, <1>5, <1>6, <1>8 DEF ReachedInv, Reached
<1> QED
  BY <1>1, <1>7, <1>8 DEF ReachedInv

LEMMA ResetReached ==
  ASSUME IInv, FInv, TeamNone, ReachedInv, NEW r \in Runs, Reset(r)
  PROVE  ReachedInv'
<1>1. /\ graph' = [graph EXCEPT ![r] = None] /\ live' = [live EXCEPT ![r] = None]
      /\ record' = [record EXCEPT ![r] = None] /\ over' = over \ {r} /\ cmd'.pc = "idle"
  BY DEF Reset, Idle
<1>2. record'[r] = None /\ live'[r] = None
  BY <1>1, Typed
<1>3. \A q \in Runs \ {r} : live'[q] = live[q] /\ graph'[q] = graph[q] /\ record'[q] = record[q] /\ (q \in over' <=> q \in over)
  BY <1>1, Typed
<1>4. ASSUME NEW q \in Runs, record'[q] # None
      PROVE  Reached(q \in over', record'[q], graph'[q])
  BY <1>2, <1>3, <1>4 DEF ReachedInv, Reached
<1>5. ASSUME NEW q \in Runs, live'[q] # None, live'[q].last # None
      PROVE  Reached(q \in over', live'[q].last, graph'[q])
  BY <1>2, <1>3, <1>5 DEF ReachedInv, Reached
<1> QED
  BY <1>1, <1>4, <1>5 DEF ReachedInv

LEMMA ReachedNext ==
  ASSUME IInv, FInv, TeamNone, ReachedInv, [Next]_vars
  PROVE  ReachedInv'
<1>1. CASE UNCHANGED <<graph, record, live, cmd, over>>
  BY <1>1, ReachedStays
<1>2. CASE \/ StartCheck \/ EditTree \/ CheckTimesOut \/ CheckFinishes
           \/ \E code \in {0, 1}, group \in {"gone", "alive"} : CheckExits(code, group)
  BY <1>1, <1>2 DEF StartCheck, EditTree, CheckTimesOut, CheckFinishes, CheckExits, disk
<1>3. CASE RunNode \/ Operation \/ Checked \/ RecordOperation
  BY <1>3, RunNodeReached, OperationReached, CheckedReached, RecordOperationReached
<1>4. CASE RecordVerification \/ FinishAttempt
  <2>1. cmd.pc \in {"verdict", "finish"} /\ cmd' = [cmd EXCEPT !.pc = "answer"] /\ UNCHANGED <<graph, record, live, over>>
    BY <1>4 DEF RecordVerification, FinishAttempt, process
  <2>2. cmd \in RecordCommand
    BY <2>1, CommandTyped
  <2>3. cmd'.run = cmd.run /\ cmd'.operation = cmd.operation
    BY <2>1, <2>2 DEF RecordCommand
  <2> QED
    BY <2>1, <2>3, ReachedStays
<1>5. CASE AnswerCommand \/ NodeFails \/ WriteFails
  <2>1. cmd'.pc = "idle" /\ UNCHANGED <<graph, record, live, over>>
    BY <1>5 DEF AnswerCommand, NodeFails, WriteFails, Fails, Idle, disk, process
  <2> QED
    BY <2>1, ReachedStays
<1>6. CASE Restart
  <2>1. cmd'.pc = "idle" /\ UNCHANGED <<graph, record, over>> /\ live' = [r \in Runs |-> None]
    BY <1>6 DEF Restart, Idle
  <2> QED
    BY <2>1, ReachedStays
<1>7. CASE \E r \in Runs : \E a \in Attempts : StartRun(r, a)
  BY <1>7, StartRunReached
<1>8. CASE \E r \in Runs : \E answer \in AnswerSet \cup {"stop_team_session"} : Answer(r, answer)
  BY <1>8, AnswerReached
<1>9. CASE \E r \in Runs : Reset(r)
  BY <1>9, ResetReached
<1>10. CASE UNCHANGED vars
  BY <1>1, <1>10 DEF vars, disk, process
<1> QED
  BY <1>2, <1>3, <1>4, <1>5, <1>6, <1>7, <1>8, <1>9, <1>10 DEF Next, Steps

-----------------------------------------------------------------------------
(* The theorem of the record *)

LEMMA FollowsInit ==
  ASSUME Init
  PROVE  FInv
BY DEF Init, FInv, TypeRight, Follows, AttemptsApart, CommandFollows, RunRight, Unrecorded, Idle

LEMMA FollowsNext ==
  ASSUME IInv, FInv, TeamNone, [Next]_vars
  PROVE  FInv'
<1>1. CASE UNCHANGED vars
  BY <1>1, BesideRecord DEF vars, disk
<1>2. CASE \/ StartCheck \/ EditTree \/ CheckTimesOut \/ CheckFinishes
           \/ \E code \in {0, 1}, group \in {"gone", "alive"} : CheckExits(code, group)
  <2>1. UNCHANGED <<graph, record, keys, attempts, live, cmd, faults>>
    BY <1>2 DEF StartCheck, EditTree, CheckTimesOut, CheckFinishes, CheckExits, disk
  <2> QED
    BY <2>1, BesideRecord
<1>3. CASE RunNode \/ Operation \/ Checked \/ RecordOperation
  BY <1>3, RunNodeFollows, OperationFollows, CheckedFollows, RecordOperationFollows
<1>4. CASE RecordVerification \/ FinishAttempt \/ AnswerCommand
  BY <1>4, CommandEndsFollows
<1>5. CASE NodeFails \/ WriteFails \/ Restart
  BY <1>5, FaultsFollow
<1>6. CASE \E r \in Runs : \E a \in Attempts : StartRun(r, a)
  BY <1>6, StartRunFollows
<1>7. CASE \E r \in Runs : \E answer \in AnswerSet \cup {"stop_team_session"} : Answer(r, answer)
  BY <1>7, AnswerFollows
<1>8. CASE \E r \in Runs : Reset(r)
  BY <1>8, ResetFollows
<1> QED
  BY <1>1, <1>2, <1>3, <1>4, <1>5, <1>6, <1>7, <1>8 DEF Next, Steps

LEMMA FollowsShow ==
  ASSUME IInv, FInv, ReachedInv
  PROVE  RecordFollows
<1>1. TypeOK
  BY Typed DEF FInv, TypeRight, TypeOK, Backed, Valid
<1>2. AskedIsWaiting /\ AttemptsFollow
  <2>1. ASSUME cmd = Idle, faults = 0, NEW r \in Runs, record[r] # None
        PROVE  Shows(record[r], graph[r]) /\ AtRest(graph[r]) /\ QuestionRight(graph[r])
               /\ attempts[record[r].attempt] = AttemptOf(record[r])
    <3>1. RunRight(r) /\ cmd.pc = "idle" /\ graph[r] # None
      BY <2>1 DEF FInv, TypeRight, Backed, Follows, Idle
    <3>2. Recorded(r) /\ QuestionRight(graph[r])
      BY <2>1, <3>1 DEF RunRight
    <3> QED
      BY <3>1, <3>2 DEF Recorded, Busy
  <2>2. AskedIsWaiting
    <3>1. ASSUME cmd = Idle, faults = 0, NEW r \in Runs, record[r] # None, ~Terminal(record[r]),
                 ~(record[r].status = "reviewing" /\ record[r].review \in {"approve", None})
          PROVE  Gate(graph[r]) # None /\ record[r].pending = Gate(graph[r])
      BY <2>1, <3>1 DEF Shows, AtRest, QuestionRight, Terminal
    <3> QED
      BY <3>1 DEF AskedIsWaiting
  <2>3. AttemptsFollow
    BY <2>1 DEF AttemptsFollow, AttemptOf
  <2> QED
    BY <2>2, <2>3
<1>3. RecordIsReached
  BY DEF ReachedInv, Reached, RecordIsReached
<1> QED
  BY <1>1, <1>2, <1>3 DEF RecordFollows

\* Whatever fails, and however often the process dies, what people see of a run is the state its
\* graph has come to or an earlier one, until an answer makes the graph start over; as long as nothing
\* fails it is that state and the question the graph waits at, and its Attempt has come as far: for any
\* number of runs, rounds and resets (service/team.ts and runtime/team/orchestrator.ts).
THEOREM RecordIsTheGraph == Spec => []RecordFollows
<1>1. Init => IInv /\ DecisionOpen /\ FInv /\ ReachedInv
  BY InvInit, FollowsInit, TeamNone DEF Init, ReachedInv, Idle
<1>2. IInv /\ DecisionOpen /\ FInv /\ ReachedInv /\ [Next]_vars => IInv' /\ DecisionOpen' /\ FInv' /\ ReachedInv'
  BY InvNext, OpenNext, FollowsNext, ReachedNext, TeamNone
<1>3. IInv /\ FInv /\ ReachedInv => RecordFollows
  BY FollowsShow
<1> QED
  BY <1>1, <1>2, <1>3, PTL DEF Spec

=============================================================================
