------------------------------- MODULE TeamRun -------------------------------
(***************************************************************************)
(* The Team workflow (runtime/team): plan, approval, implementation,       *)
(* review, verification and the final decision as a graph that LangGraph   *)
(* runs and checkpoints node by node, the record of it in the event log    *)
(* that people see, and the commands that answer its questions.            *)
(*                                                                         *)
(* A command holds the lock of the Runtime until it is answered, so there  *)
(* is one at a time; what is hard is a command that ends half way: an      *)
(* agent fails, the log cannot be written, the process dies and finds its  *)
(* checkpoints ahead of the log.                                           *)
(*                                                                         *)
(* LangGraph is external: it checkpoints the state after each node, runs   *)
(* a node again whose run has failed, and gives the answer of a command    *)
(* only to the node the graph stands at.                                   *)
(***************************************************************************)
EXTENDS Integers, FiniteSets

CONSTANTS
  Runs,          \* ids of Team runs
  Attempts,      \* ids of Attempts, all of one Task
  MaxReviews,    \* the code's limit on rounds of review
  MaxRevised,    \* bound: a plan is sent back up to this revision
  MaxFaults,     \* bound: crashes, failing agents and failing writes
  MaxEdits,      \* bound: edits of a workspace by somebody else during a check
  None

VARIABLES
  graph,     \* checkpoints: run -> None or the state after the last node
  record,    \* event log: run -> None or the snapshot people see
  keys,      \* event log: run -> the revisions recorded, which are not recorded again
  attempts,  \* index: Attempt -> None or its status
  verdicts,  \* event log: runs whose verification is recorded
  artifacts, \* disk: <<Attempt, tree>> with a published verification
  live,      \* memory: run -> None or [last |-> its last operation or None]
  cmd,       \* the command that holds the lock
  check,     \* the process of the verification under way, or None
  tree,      \* the contents of the workspace, as a number
  exact,     \* history: Attempts whose check exited with 0 on a tree nobody changed
  over,      \* history: runs whose graph an answer has started over
  faults

ASSUME TeamBounds == {MaxReviews, MaxRevised, MaxFaults, MaxEdits} \subseteq Nat

disk == <<graph, record, keys, attempts, verdicts, artifacts>>
process == <<check, tree, exact, over>>
vars == <<disk, live, cmd, process, faults>>

Gates == {"plan_approval", "review_input", "final_decision"}
Answers == [plan_approval |-> {"approve", "revise", "reject"},
            review_input |-> {"approve", "request_changes", "stop"},
            final_decision |-> {"accept", "stop"}]
Idle == [pc |-> "idle"]
Terminal(op) == op.status \in {"completed", "stopped"}

-----------------------------------------------------------------------------
(* The graph *)

Fresh(a) ==
  [next |-> "plan", status |-> "planning", round |-> 0, revision |-> 0, review |-> None,
   pending |-> None, verdict |-> None, final |-> None, attempt |-> a]

Moved(g, next, status) == [g EXCEPT !.next = next, !.status = status, !.revision = @ + 1]

\* reviewRoute: changes are made while there are rounds left, everything but a stop is verified.
ReviewRoute(g, decision) ==
  CASE decision = "request_changes" /\ g.round < MaxReviews ->
         [Moved(g, "implement", "implementing") EXCEPT !.round = @ + 1, !.pending = None]
    [] decision = "stop" -> [Moved(g, "stop", "stopped") EXCEPT !.pending = None]
    [] OTHER -> [Moved(g, "verify", "verifying") EXCEPT !.pending = None]

\* MUTANT: only an uncertain review is a question.
AsksBug(g, decision) == decision = "uncertain"

\* review: what its snapshot tells people to answer.
Asks(g, decision) ==
  decision = "uncertain" \/ (decision = "request_changes" /\ g.round >= MaxReviews)

\* The question at which the node the graph stands at interrupts the run.
Gate(g) ==
  CASE g.next = "approve_plan" -> "plan_approval"
    [] g.next = "route_review" /\ (g.review = "uncertain" \/ g.round >= MaxReviews) -> "review_input"
    [] g.next = "final_decision" -> "final_decision"
    [] OTHER -> None

\* The nodes that run an agent; the snapshot of an agent that failed is recorded like the others,
\* only an agent that cannot be run at all fails its node.
Agents == {"plan", "implement", "review"}

\* What a reviewer may say; an adapter finds none in the events of some.
ReviewDecisions == {"approve", "request_changes", "uncertain", None}

Nodes == {"plan", "approve_plan", "implement", "review", "route_review", "verify", "final_decision", "stop", "END"}
Statuses ==
  {"planning", "awaiting_plan_approval", "implementing", "reviewing", "awaiting_human_input", "verifying",
   "awaiting_human_decision", "completed", "stopped", "failed"}
Verdicts == {"passed", "failed"}
AnswerSet == UNION {Answers[k] : k \in Gates}

\* The state of a graph, what is checkpointed.
State ==
  [next : Nodes, status : Statuses, round : Nat, revision : Nat, review : ReviewDecisions,
   pending : Gates \cup {None}, verdict : Verdicts \cup {None}, final : AnswerSet \cup {None}, attempt : Attempts]

AttemptStatuses == {"running", "interrupted", "succeeded", "failed"}

ASSUME TeamNone == None \notin State \cup {0} \cup Gates \cup AnswerSet \cup Verdicts \cup AttemptStatuses

\* What the nodes return that ask nobody; verify returns with Checked.
AgentNode(g) ==
  CASE g.next = "plan" ->
         {[Moved(g, "approve_plan", "awaiting_plan_approval") EXCEPT !.pending = "plan_approval"]}
    [] g.next = "implement" -> {Moved(g, "review", "reviewing")}
    [] g.next = "review" ->
         {[Moved(g, "route_review", IF Asks(g, d) THEN "awaiting_human_input" ELSE "reviewing")
             EXCEPT !.review = d, !.pending = IF Asks(g, d) THEN "review_input" ELSE None] :
            d \in ReviewDecisions}
    [] g.next = "route_review" /\ Gate(g) = None ->
         {ReviewRoute(g, IF g.review = None THEN "approve" ELSE g.review)}
    [] g.next = "stop" -> {Moved(g, "END", "stopped")}
    [] OTHER -> {}

\* What a node that asked returns for an answer, which may be the answer to another question.
Decided(g, answer) ==
  CASE g.next = "approve_plan" ->
         IF answer \in {"reject", "stop"} THEN [Moved(g, "stop", "stopped") EXCEPT !.pending = None]
         ELSE IF answer = "revise" THEN [Moved(g, "plan", "planning") EXCEPT !.pending = None]
         ELSE [Moved(g, "implement", "implementing") EXCEPT !.pending = None]
    [] g.next = "route_review" -> ReviewRoute(g, answer)
    [] g.next = "final_decision" ->
         [Moved(g, "END", IF answer = "accept" THEN "completed" ELSE "stopped")
            EXCEPT !.pending = None, !.final = answer]

\* #operation: the snapshot of a state, if the contract takes it.
Valid(g) == g.revision > 0 /\ g.final \in {None, "accept", "stop"}

-----------------------------------------------------------------------------
(* Commands *)

\* A command fails: its lock is free, what it has done stays.
Fails == cmd' = Idle

\* InternalRun: of what the orchestrator keeps of a run, the last operation matters.
Handle(last) == [last |-> last]

\* startOrResume: the last operation of the handle there is, or of one made from the checkpoints.
LastOperation(r) ==
  IF live[r] # None THEN live[r].last
  ELSE IF graph[r] # None /\ Valid(graph[r]) THEN graph[r] ELSE None

\* executeCommand and #start: the Task has no active Attempt, the ids are free. The Attempt is
\* recorded; the graph starts, or goes on where its checkpoints are.
StartRun(r, a) ==
  /\ cmd = Idle /\ record[r] = None /\ attempts[a] = None
  /\ \A b \in Attempts : attempts[b] # "running"
  /\ attempts' = [attempts EXCEPT ![a] = "running"]
  /\ LET known == LastOperation(r)
         new == live[r] = None /\ graph[r] = None
     IN  /\ graph' = IF new THEN [graph EXCEPT ![r] = Fresh(a)] ELSE graph
         /\ live' = [live EXCEPT ![r] = Handle(known)]
         /\ cmd' = IF new THEN [pc |-> "graph", run |-> r, attempt |-> a, answer |-> None]
                   ELSE IF known # None
                   THEN [pc |-> "record", run |-> r, attempt |-> a, operation |-> known]
                   ELSE Idle
  /\ UNCHANGED <<record, keys, verdicts, artifacts, process, faults>>

\* MUTANT: a decision is passed on whatever is asked.
ResumeInputBug(pending) == UNION {Answers[k] : k \in Gates}

\* resumeInput: the answers that are taken while the record shows this question.
ResumeInput(pending) == IF pending = None THEN {} ELSE Answers[pending]

\* #invoke of a handle without an operation: the graph starts over, whatever its checkpoints are.
StartsOver(r) == live[r] # None /\ live[r].last = None

\* A command about a run that is known: its handle is found, or made from the checkpoints,
\* and resumed with the answer (stop_team_session stops at any question). Checkpoints the contract
\* does not take fail the command, and leave a handle without an operation to the next one.
Answer(r, answer) ==
  /\ cmd = Idle /\ record[r] # None
  /\ answer = "revise" => record[r].revision <= MaxRevised
  /\ LET last == LastOperation(r)
         stops == answer = "stop_team_session"
         asked == IF stops THEN last # None /\ last.pending # None
                  ELSE answer \in ResumeInput(record[r].pending)
         resumed == last # None /\ ~Terminal(last)
         passed == IF StartsOver(r) THEN None ELSE IF stops THEN "stop" ELSE answer
     IN  /\ live' = [live EXCEPT ![r] = Handle(last)]
         /\ graph' = IF asked /\ StartsOver(r) THEN [graph EXCEPT ![r] = Fresh(record[r].attempt)]
                     ELSE graph
         /\ cmd' = IF asked /\ (resumed \/ StartsOver(r))
                   THEN [pc |-> "graph", run |-> r, attempt |-> record[r].attempt, answer |-> passed]
                   ELSE Idle
         /\ over' = IF asked /\ StartsOver(r) THEN over \cup {r} ELSE over
         /\ cmd' # Idle \/ live' # live
  /\ UNCHANGED <<record, keys, attempts, verdicts, artifacts, check, tree, exact, faults>>

\* reset_team_run; without a handle the orchestrator does not find the run.
Reset(r) ==
  /\ cmd = Idle /\ record[r] # None /\ live[r] # None
  /\ graph' = [graph EXCEPT ![r] = None]
  /\ live' = [live EXCEPT ![r] = None]
  /\ record' = [record EXCEPT ![r] = None]
  /\ over' = over \ {r}
  /\ UNCHANGED <<keys, attempts, verdicts, artifacts, cmd, check, tree, exact, faults>>

-----------------------------------------------------------------------------
(* #invoke *)

\* The next node runs: an agent's, or one that asked and has its answer now.
RunNode ==
  /\ cmd.pc = "graph" /\ check = None
  /\ LET r == cmd.run
         g == graph[r]
     IN  /\ \E h \in IF Gate(g) = None THEN AgentNode(g)
                      ELSE IF cmd.answer # None THEN {Decided(g, cmd.answer)} ELSE {} :
              graph' = [graph EXCEPT ![r] = h]
         /\ cmd' = [cmd EXCEPT !.answer = None]
  /\ UNCHANGED <<record, keys, attempts, verdicts, artifacts, live, process, faults>>

\* An agent fails: the graph stays before its node, the command is answered with the error.
NodeFails ==
  /\ cmd.pc = "graph" /\ faults < MaxFaults
  /\ graph[cmd.run].next \in Agents
  /\ faults' = faults + 1
  /\ Fails
  /\ UNCHANGED <<disk, live, process>>

\* The graph asks a question or has ended: its operation is noted, if it can be parsed.
Operation ==
  /\ cmd.pc = "graph" /\ check = None
  /\ LET g == graph[cmd.run]
     IN  /\ g.next = "END" \/ (Gate(g) # None /\ cmd.answer = None)
         /\ IF Valid(g)
            THEN /\ live' = [live EXCEPT ![cmd.run].last = g]
                 /\ cmd' = [pc |-> "record", run |-> cmd.run, attempt |-> cmd.attempt, operation |-> g]
            ELSE Fails /\ UNCHANGED live
  /\ UNCHANGED <<disk, process, faults>>

-----------------------------------------------------------------------------
(* The verification *)

\* verify: the head and the tree are read, the command is started.
StartCheck ==
  /\ cmd.pc = "graph" /\ check = None /\ graph[cmd.run].next = "verify"
  /\ check' = [pc |-> "running", before |-> tree, exit |-> None, group |-> "gone", timedOut |-> FALSE, status |-> None]
  /\ UNCHANGED <<disk, live, cmd, tree, exact, over, faults>>

\* Somebody edits the workspace while it is checked.
EditTree ==
  /\ check # None /\ check.status = None /\ tree < MaxEdits
  /\ tree' = tree + 1
  /\ UNCHANGED <<disk, live, cmd, check, exact, over, faults>>

\* The process exits by itself; what it has started may live on and resist being killed.
CheckExits(code, group) ==
  /\ check # None /\ check.pc = "running"
  /\ check' = [check EXCEPT !.pc = "exited", !.exit = code, !.group = group]
  /\ exact' = IF code = 0 /\ tree = check.before THEN exact \cup {graph[cmd.run].attempt} ELSE exact
  /\ UNCHANGED <<disk, live, cmd, tree, over, faults>>

\* The timer is cleared only when the process group is gone: it may fire after the exit.
CheckTimesOut ==
  /\ check # None /\ check.pc \in {"running", "exited"} /\ ~check.timedOut
  /\ check' = [check EXCEPT !.pc = "exited", !.timedOut = TRUE]
  /\ UNCHANGED <<disk, live, cmd, tree, exact, over, faults>>

RevisionMatched == tree = check.before

\* MUTANT: the process group is waited for without a deadline.
SettledBug == check.group = "gone"

\* containProcessGroup: the group is gone, or the deadline has passed.
Settled == check.group \in {"gone", "alive"}

\* Without its group gone a check has no exit code. The result is published, unless one of the
\* same Attempt and tree is there: then the adapter says that it failed.
CheckFinishes ==
  /\ check # None /\ check.pc = "exited" /\ Settled
  /\ LET name == <<graph[cmd.run].attempt, check.before>>
         passed == check.group = "gone" /\ ~check.timedOut /\ check.exit = 0 /\ RevisionMatched
     IN  /\ artifacts' = artifacts \cup {name}
         /\ check' = [check EXCEPT !.pc = "finished",
                        !.status = IF passed /\ name \notin artifacts THEN "passed" ELSE "failed"]
  /\ UNCHANGED <<graph, record, keys, attempts, verdicts, live, cmd, tree, exact, over, faults>>

\* The node returns, its checkpoint is written.
Checked ==
  /\ check # None /\ check.pc = "finished"
  /\ graph' = [graph EXCEPT ![cmd.run] =
       [Moved(@, "final_decision", "awaiting_human_decision")
          EXCEPT !.pending = "final_decision", !.verdict = check.status]]
  /\ check' = None
  /\ UNCHANGED <<record, keys, attempts, verdicts, artifacts, live, cmd, tree, exact, over, faults>>

-----------------------------------------------------------------------------
(* #recordOperation *)

\* team.run.created or updated, under the key of the revision.
RecordOperation ==
  /\ cmd.pc = "record"
  /\ LET r == cmd.run
         op == cmd.operation
         new == op.revision \notin keys[r]
     IN  /\ record' = IF new THEN [record EXCEPT ![r] = [op EXCEPT !.attempt = cmd.attempt]] ELSE record
         /\ keys' = IF new THEN [keys EXCEPT ![r] = @ \cup {op.revision}] ELSE keys
         /\ cmd' = [cmd EXCEPT !.pc = IF op.status = "awaiting_human_decision" THEN "verdict"
                                      ELSE IF Terminal(op) THEN "finish" ELSE "answer"]
  /\ UNCHANGED <<graph, attempts, verdicts, artifacts, live, process, faults>>

\* #recordVerification, once for a run.
RecordVerification ==
  /\ cmd.pc = "verdict"
  /\ verdicts' = verdicts \cup {cmd.run}
  /\ cmd' = [cmd EXCEPT !.pc = "answer"]
  /\ UNCHANGED <<graph, record, keys, attempts, artifacts, live, process, faults>>

Outcome(op) == IF op.status = "completed" THEN "succeeded" ELSE "failed"

\* recordAttempt: the Attempt ends with its run.
FinishAttempt ==
  /\ cmd.pc = "finish"
  /\ attempts' = [attempts EXCEPT ![cmd.attempt] = Outcome(cmd.operation)]
  /\ cmd' = [cmd EXCEPT !.pc = "answer"]
  /\ UNCHANGED <<graph, record, keys, verdicts, artifacts, live, process, faults>>

\* #commandEvent, and the result.
AnswerCommand ==
  /\ cmd.pc = "answer"
  /\ cmd' = Idle
  /\ UNCHANGED <<disk, live, process, faults>>

\* The log cannot be written.
WriteFails ==
  /\ cmd.pc \in {"record", "verdict", "finish", "answer"} /\ faults < MaxFaults
  /\ faults' = faults + 1
  /\ Fails
  /\ UNCHANGED <<disk, live, process>>

\* The process dies and is back: handles and commands are gone, Attempts that had not finished
\* are recorded as interrupted. The Task is known again from the Tracker before the next command.
Restart ==
  /\ faults < MaxFaults
  /\ faults' = faults + 1
  /\ live' = [r \in Runs |-> None]
  /\ cmd' = Idle /\ check' = None
  /\ attempts' = [a \in Attempts |-> IF attempts[a] = "running" THEN "interrupted" ELSE attempts[a]]
  /\ UNCHANGED <<graph, record, keys, verdicts, artifacts, tree, exact, over>>

-----------------------------------------------------------------------------
Init ==
  /\ graph = [r \in Runs |-> None] /\ record = [r \in Runs |-> None]
  /\ keys = [r \in Runs |-> {}] /\ attempts = [a \in Attempts |-> None]
  /\ verdicts = {} /\ artifacts = {}
  /\ live = [r \in Runs |-> None] /\ cmd = Idle
  /\ check = None /\ tree = 0 /\ exact = {} /\ over = {}
  /\ faults = 0

Steps ==
  \/ RunNode \/ Operation \/ StartCheck \/ Checked
  \/ \E code \in {0, 1}, group \in {"gone", "alive"} : CheckExits(code, group)
  \/ CheckFinishes
  \/ RecordOperation \/ RecordVerification \/ FinishAttempt \/ AnswerCommand

Next ==
  \/ Steps \/ EditTree \/ CheckTimesOut \/ NodeFails \/ WriteFails \/ Restart
  \/ \E r \in Runs :
       \/ \E a \in Attempts : StartRun(r, a)
       \/ \E answer \in AnswerSet \cup {"stop_team_session"} : Answer(r, answer)
       \/ Reset(r)

\* A command that runs goes on: agents answer, the process of a check exits or is killed.
Spec == Init /\ [][Next]_vars /\ WF_vars(Steps)

-----------------------------------------------------------------------------
(* Properties *)

\* Every variable keeps its type; what people are shown is a state the contract takes, of a run
\* that has checkpoints.
TypeOK ==
  /\ \A a \in Attempts : attempts[a] \in AttemptStatuses \cup {None}
  /\ \A r \in Runs : record[r] # None =>
       /\ record[r].revision > 0 /\ record[r].revision \in keys[r]
       /\ record[r].final \in {None, "accept", "stop"}
       /\ graph[r] # None

\* A run is completed only if the person who accepted it was shown the verification of just this
\* state, also when checkpoints are ahead of the record after a crash or a failing write; and if
\* that says passed, the command exited with 0 on the tree that was there before.
AcceptedKnowingly ==
  [][\A r \in Runs :
       graph[r] # None /\ graph'[r] # None /\ ~Terminal(graph[r]) /\ graph'[r].status = "completed"
         => /\ record[r] # None /\ record[r].verdict = graph[r].verdict /\ record[r].verdict # None
            /\ graph[r].verdict = "passed" => graph[r].attempt \in exact]_vars

\* What a record shows of a state.
Shows(x, g) ==
  x.revision = g.revision /\ x.status = g.status /\ x.pending = g.pending /\ x.review = g.review

\* Whatever fails and however often the process dies, the record shows the graph as it is, or an
\* earlier revision of it, until an answer makes the graph start over.
RecordIsReached ==
  \A r \in Runs : record[r] # None /\ r \notin over =>
    record[r].revision < graph[r].revision \/ Shows(record[r], graph[r])

\* As long as nothing fails, a run that is not over is shown with the question its graph waits
\* at. (A review that approves in the last round is not: nobody can answer that run.)
AskedIsWaiting ==
  cmd = Idle /\ faults = 0 =>
    \A r \in Runs :
      record[r] # None /\ ~Terminal(record[r])
        /\ ~(record[r].status = "reviewing" /\ record[r].review \in {"approve", None})
        => Gate(graph[r]) # None /\ record[r].pending = Gate(graph[r])

\* As long as nothing fails, the Attempt of a run that is over has ended the same way, and that
\* of a run that goes on is running.
AttemptsFollow ==
  cmd = Idle /\ faults = 0 =>
    \A r \in Runs : record[r] # None =>
      attempts[record[r].attempt] = CASE record[r].status = "completed" -> "succeeded"
                                      [] record[r].status = "stopped" -> "failed"
                                      [] OTHER -> "running"

\* Every command is answered: the rounds of review are limited, and so is the wait for the
\* processes of a check.
CommandsReturn == cmd # Idle ~> cmd = Idle

\* The record follows the graph and is ahead of it only where an answer has started the graph over;
\* as long as nothing fails its question is the one the graph waits at, and the Attempt of the run
\* goes on or has ended with it.
RecordFollows == TypeOK /\ RecordIsReached /\ AskedIsWaiting /\ AttemptsFollow
=============================================================================
