----------------------------- MODULE SingleAgent -----------------------------
(***************************************************************************)
(* RealSingleAgentOrchestration (src/runtime/orchestration/single-agent)   *)
(* with the parts of the Runtime it runs against: the mutation lock and    *)
(* the projection of the EventLog, the Attempt index on disk, the commands *)
(* that hold the lock while they call the orchestration, and the verdicts  *)
(* of the CoreScheduler (modelled in full by the module of that name).     *)
(*                                                                         *)
(* A process is an asynchronous call chain: the job of a Task, the command *)
(* in the critical section, the tick, the shutdown.  An action is what a   *)
(* process does between two awaits; what it awaits is the guard of its     *)
(* next action.  Awaits that only read the disk or the Tracker are merged  *)
(* with the action that uses their result, chosen by \E.                   *)
(***************************************************************************)
EXTENDS Integers, FiniteSets, Sequences

CONSTANTS
  Tasks,         \* Task ids
  MaxDrawn,      \* bound: Attempts ever drawn
  MaxAttempts,   \* policy: agent.max_attempts
  MaxTurns,      \* policy: agent.max_turns
  MaxAgents,     \* policy: agent.max_concurrent_agents
  Scenarios,     \* the surroundings a behaviour may have, see ScenarioRecords
  None

VARIABLES
  tracker,     \* taskId -> what the Tracker would answer
  known,       \* projection: taskId -> TaskSummary
  recorded,    \* projection: attemptId -> AttemptSnapshot
  workspaces,  \* projection: state of the workspace of a Task
  index,       \* on disk: attempts.json, attemptId -> AttemptSnapshot
  logged,      \* on disk: the workspace events of a Task
  schedulerUp, \* #scheduler is defined
  attempts,    \* scheduler: attemptId -> AttemptSnapshot
  claims,      \* scheduler: taskId -> attemptId
  retries,     \* scheduler: taskId -> RetryEntry
  runs,        \* attemptId -> ActiveRun, kept after it left the #runs map
  jobs,        \* taskId -> the job of a Task in #runningTasks
  lock,        \* the FIFO of #mutationTail; its head is in the critical section
  command,     \* the command being executed
  tick,        \* the tick being executed
  shutdown,    \* the call of stop
  drawn,       \* Attempts drawn so far
  given,       \* commands given so far
  restarts,    \* crashes so far
  scenario     \* the surroundings of this behaviour, fixed in Init

AttemptIds == 1..MaxDrawn
Live == {"preparing_workspace", "building_prompt", "launching_agent", "streaming_turn", "finishing"}
Terminal == {"succeeded", "failed", "interrupted", "canceled_by_reconciliation"}
AllKinds == {"start", "retry", "pause", "input", "handoff", "return", "delete", "stop"}
AllViews == {"eligible", "held", "closed"}
Enders == {"job", "command", "tick", "stop"}
AllFaults == {"tracker", "prepare", "install", "open", "turn", "finish", "remove"}

ASSUME PolicyAssumption == MaxAttempts \in Nat /\ MaxTurns \in Nat \ {0} /\ MaxAgents \in Nat

\* Where a Runtime runs: the Tasks people work with, what they ask of the Runtime, the calls
\* that may fail, the states a Task takes in the Tracker, and the bounds on Attempts, commands
\* and crashes.
ScenarioRecords ==
  [tasks : SUBSET Tasks, kinds : SUBSET AllKinds, faults : SUBSET AllFaults,
   views : SUBSET AllViews, drawn : 0..MaxDrawn, commands : Nat, restarts : Nat]

ASSUME ScenarioAssumption == MaxDrawn \in Nat /\ Scenarios \subseteq ScenarioRecords

Kinds == scenario.kinds
Faults == scenario.faults
Views == scenario.views

Snapshots ==
  [task : Tasks, sequence : Nat \ {0}, status : Live \cup Terminal \cup {"paused"},
   controller : {"symphoneer", "codex"}, session : BOOLEAN]

RetryRecords == [automatic : BOOLEAN, due : BOOLEAN]

\* How far whoever ends a run is.
Stages == {"none", "halt", "retained", "status", "settle", "done", "failed"}

RunRecords ==
  [attempt : Snapshots, view : AllViews, stopping : BOOLEAN, handoff : BOOLEAN,
   managed : {"ready", "retained"}, workspace : {"ready", "retained"},
   worker : {"none", "open", "closed"}, turn : {"none", "open", "completed", "interrupted"},
   attached : BOOLEAN, turns : Nat, listed : BOOLEAN, settled : BOOLEAN, ends : [Enders -> Stages]]

\* The steps of a job; at "append" it waits for its place in the FIFO.
Pcs == {"fetch", "append", "prepare", "resume", "install", "prompt", "open", "turn", "consume",
        "reread", "handoff", "interrupt", "decide", "retain", "retained", "finish", "settle",
        "fail", "failed"}

JobRecords ==
  [kind : {"run", "continue"}, pc : Pcs, reason : {"dispatch", "retry", "force"}, take : BOOLEAN,
   from : AttemptIds \cup {None}, attempt : AttemptIds \cup {None}, view : AllViews,
   write : {"event", "attempt", "task", "retained", "unreserved"}, snapshot : Snapshots \cup {None},
   space : {"ready", "retained", None}, next : Pcs \cup {"end"}]

\* The FIFO tells the tick and the command from the job of a Task.
ASSUME TaskAssumption == Tasks \cap {"tick", "command"} = {}

ASSUME AgentNone ==
  /\ None \notin Tasks /\ None \notin AllViews /\ None \notin AttemptIds
  /\ None \notin {"ready", "retained"}
  /\ None \notin Snapshots \cup RetryRecords \cup RunRecords \cup JobRecords

projection == <<known, recorded, workspaces>>
disk == <<index, logged>>
scheduler == <<schedulerUp, attempts, claims, retries>>
bounds == <<drawn, given, restarts, scenario>>
vars == <<tracker, projection, disk, scheduler, runs, jobs, lock, command, tick,
          shutdown, bounds>>

-----------------------------------------------------------------------------
(* State functions *)

Idle == [pc |-> "idle"]
AttemptsOf(t) == {a \in AttemptIds : recorded[a] # None /\ recorded[a].task = t}
Finished(s) == s.status \in Terminal
Job(t) == jobs[t] # None
At(t, pc) == Job(t) /\ jobs[t].pc = pc
Stopping == shutdown.pc # "idle"
Holds(p) == lock # <<>> /\ Head(lock) = p
Listed(a) == runs[a] # None /\ runs[a].listed
LiveIn(s, t) == {a \in AttemptIds : s[a] # None /\ s[a].task = t /\ s[a].status \in Live}
Scheduled(a) == attempts[a] # None /\ attempts[a].status \in Live

NextSequence(t) == Cardinality(AttemptsOf(t)) + 1

\* reserve: the sequence numbers of a Task have no gap at the end.
Follows(t, n) ==
  LET own == {a \in AttemptIds : attempts[a] # None /\ attempts[a].task = t}
  IN  /\ \A a \in own : attempts[a].sequence < n
      /\ n = 1 \/ \E a \in own : attempts[a].sequence = n - 1

HasRoom == Cardinality({a \in AttemptIds : Scheduled(a)}) < MaxAgents

NewRun(s, view) ==
  [attempt |-> s, view |-> view, stopping |-> FALSE, handoff |-> FALSE, managed |-> "ready",
   workspace |-> "ready", worker |-> "none", turn |-> "none", attached |-> FALSE,
   turns |-> 0, listed |-> TRUE, settled |-> FALSE, ends |-> [w \in Enders |-> "none"]]

NewJob(kind, reason, take, from, view) ==
  [kind |-> kind, pc |-> "fetch", reason |-> reason, take |-> take, from |-> from, attempt |-> None,
   view |-> view, write |-> "event", snapshot |-> None, space |-> None, next |-> "end"]

\* MUTANT: the last Attempt still queues an automatic retry.
NextRetryBug(s) == [automatic |-> s.sequence <= MaxAttempts, due |-> FALSE]

\* The entry finishAttempt queues, and restore rebuilds.
NextRetry(s) == [automatic |-> s.sequence < MaxAttempts, due |-> FALSE]

\* The first step of whoever ends a run: it is marked, then halted.
Stop(who, run) == [run EXCEPT !.stopping = TRUE, !.ends[who] = "halt"]

-----------------------------------------------------------------------------
(* Recording.  recordAttempt writes the index, then takes a place in the FIFO; the     *)
(* index serialises its writers in the order of their calls, so both are one step.     *)

\* MUTANT: the index is not written.
RecordAttemptBug(t, a, run, next) ==
  /\ lock' = Append(lock, t)
  /\ runs' = [runs EXCEPT ![a] = run]
  /\ jobs' = [jobs EXCEPT ![t] =
       [@ EXCEPT !.pc = "append", !.write = "attempt", !.attempt = a, !.next = next,
                 !.snapshot = run.attempt, !.space = run.workspace]]
  /\ UNCHANGED index

\* The job of t records what its run says of the Attempt, and goes on at next.
RecordAttempt(t, a, run, next) ==
  /\ index' = [index EXCEPT ![a] = run.attempt]
  /\ lock' = Append(lock, t)
  /\ runs' = [runs EXCEPT ![a] = run]
  /\ jobs' = [jobs EXCEPT ![t] =
       [@ EXCEPT !.pc = "append", !.write = "attempt", !.attempt = a, !.next = next,
                 !.snapshot = run.attempt, !.space = run.workspace]]

Record(t, write, next) ==
  /\ lock' = Append(lock, t)
  /\ jobs' = [jobs EXCEPT ![t] = [@ EXCEPT !.pc = "append", !.write = write, !.next = next]]

RecordTask(t, next) ==
  /\ lock' = Append(lock, t)
  /\ jobs' = [jobs EXCEPT ![t] = [@ EXCEPT !.pc = "append", !.write = "task", !.next = next,
                                           !.view = tracker[t]]]

\* The events that say a workspace is retained or released have one idempotency key each
\* for the life of the workspace: only the first one is stored and applied.
LogWorkspace(t, key, state) ==
  IF key \in logged[t].keys THEN UNCHANGED <<logged, workspaces>>
  ELSE /\ logged' = [logged EXCEPT ![t] = [last |-> state, keys |-> @.keys \cup {key}]]
       /\ workspaces' = [workspaces EXCEPT ![t] = state]

LogRetained(t) == LogWorkspace(t, "retained", "retained")
LogReleased(t) == LogWorkspace(t, "terminal-cleanup", "released")

\* commit of what the job of t has queued; the projection is brought up to date before
\* the next holder of the lock runs.
Commit(t) ==
  /\ At(t, "append") /\ Holds(t)
  /\ lock' = Tail(lock)
  /\ jobs' = [jobs EXCEPT ![t] = IF @.next = "end" THEN None ELSE [@ EXCEPT !.pc = jobs[t].next]]
  /\ CASE jobs[t].write = "attempt" ->
            /\ recorded' = [recorded EXCEPT ![jobs[t].attempt] = jobs[t].snapshot]
            /\ workspaces' = [workspaces EXCEPT ![t] = jobs[t].space]
            /\ UNCHANGED <<known, logged>>
       [] jobs[t].write = "task" ->
            /\ known' = [known EXCEPT ![t] = jobs[t].view]
            /\ UNCHANGED <<recorded, workspaces, logged>>
       [] jobs[t].write = "retained" ->
            /\ LogRetained(t)
            /\ UNCHANGED <<known, recorded>>
       [] jobs[t].write = "unreserved" ->
            /\ logged' = [logged EXCEPT ![t].last = "retained"]
            /\ workspaces' = [workspaces EXCEPT ![t] = "retained"]
            /\ UNCHANGED <<known, recorded>>
       [] OTHER -> UNCHANGED <<known, recorded, workspaces, logged>>
  /\ UNCHANGED <<tracker, index, scheduler, runs, command, tick, shutdown, bounds>>

-----------------------------------------------------------------------------
(* The job of a Task: #run and #continue, up to the first Turn *)

RunOf(t) == runs[jobs[t].attempt]
Goto(t, pc) == jobs' = [jobs EXCEPT ![t].pc = pc]
End(t) == jobs' = [jobs EXCEPT ![t] = None]

\* An exception in a job: the catch blocks of #run and #continue.
Throw(t) ==
  IF /\ jobs[t].attempt # None
     /\ jobs[t].kind = "run" => ~RunOf(t).stopping
  THEN Goto(t, "fail")
  ELSE End(t)

\* tracker.getTask, which refuses a Task that changed since the launch, and recordTask.
Fetch(t) ==
  /\ At(t, "fetch")
  /\ \/ RecordTask(t, IF jobs[t].kind = "run" THEN "prepare" ELSE "resume")
     \/ /\ "tracker" \in Faults \/ tracker[t] # jobs[t].view
        /\ End(t) /\ UNCHANGED lock
  /\ UNCHANGED <<tracker, projection, disk, scheduler, runs, command, tick, shutdown, bounds>>

\* What the scheduler is asked for can be granted: a dispatch needs an unclaimed Task, a
\* retry its entry, which is due or forced.
Granted(t) ==
  IF jobs[t].reason = "dispatch" THEN claims[t] = None
  ELSE /\ retries[t] # None
       /\ jobs[t].reason = "force" \/ (retries[t].automatic /\ retries[t].due)

\* #run throws: a Task that is not dispatchable, a workspace that cannot be prepared, a retry
\* that is gone or needs a person, a sequence number the scheduler refuses.  Beyond the bound on
\* Attempts no workspace can be prepared.
NotStarted(t) ==
  /\ At(t, "prepare") /\ schedulerUp
  /\ \/ jobs[t].view # "eligible"
     \/ "prepare" \in Faults \/ drawn = scenario.drawn
     \/ jobs[t].reason # "dispatch" /\ retries[t] = None
     \/ jobs[t].reason = "retry" /\ retries[t] # None /\ ~retries[t].automatic
     \/ /\ jobs[t].reason = "dispatch" \/ Granted(t)
        /\ ~Follows(t, NextSequence(t))
  /\ End(t)
  /\ UNCHANGED <<tracker, projection, disk, scheduler, runs, lock, command, tick, shutdown, bounds>>

\* #run: the reservation is rejected, or the retry is not due or put back; the workspace is
\* given back.
Unreserved(t) ==
  /\ At(t, "prepare") /\ schedulerUp
  /\ jobs[t].view = "eligible"
  /\ CASE jobs[t].reason = "dispatch" ->
            Follows(t, NextSequence(t)) /\ (~Granted(t) \/ ~HasRoom)
       [] jobs[t].reason = "retry" ->
            /\ retries[t] # None /\ retries[t].automatic
            /\ Granted(t) => Follows(t, NextSequence(t)) /\ ~HasRoom
       [] OTHER -> Granted(t) /\ Follows(t, NextSequence(t)) /\ ~HasRoom
  /\ retries' = IF jobs[t].reason # "dispatch" /\ Granted(t)
                THEN [retries EXCEPT ![t].due = FALSE] ELSE retries
  /\ \/ Record(t, "unreserved", "end")
     \/ "finish" \in Faults /\ End(t) /\ UNCHANGED lock
  /\ UNCHANGED <<tracker, projection, disk, schedulerUp, attempts, claims, runs, command, tick,
                 shutdown, bounds>>

\* #run: the Attempt is reserved and recorded.
Start(t) ==
  /\ At(t, "prepare") /\ schedulerUp
  /\ jobs[t].view = "eligible"
  /\ Granted(t)
  /\ HasRoom
  /\ Follows(t, NextSequence(t))
  /\ drawn < scenario.drawn
  /\ LET a == drawn + 1
         s == [task |-> t, sequence |-> NextSequence(t), status |-> "preparing_workspace",
               controller |-> "symphoneer", session |-> FALSE]
     IN  /\ drawn' = a
         /\ attempts' = [attempts EXCEPT ![a] = s]
         /\ claims' = [claims EXCEPT ![t] = a]
         /\ retries' = [retries EXCEPT ![t] = None]
         /\ RecordAttempt(t, a, NewRun(s, jobs[t].view), "install")
  /\ UNCHANGED <<tracker, projection, logged, schedulerUp, command, tick, shutdown, given, restarts,
                 scenario>>

\* recover, then resumePausedAttempt.
CanResume(t) ==
  LET a == jobs[t].from
  IN  /\ workspaces[t] = "retained"
      /\ attempts[a] # None /\ attempts[a].status = "paused"
      /\ attempts[a].controller = "codex" => jobs[t].take
      /\ claims[t] = a
      /\ LiveIn(attempts, t) = {}
      /\ HasRoom

\* #continue: the Attempt is not paused any more, or not ours, or cannot resume.
NotResumed(t) ==
  /\ At(t, "resume") /\ schedulerUp
  /\ \/ jobs[t].view # "eligible"
     \/ "prepare" \in Faults
     \/ ~CanResume(t)
  /\ End(t)
  /\ UNCHANGED <<tracker, projection, disk, scheduler, runs, lock, command, tick, shutdown, bounds>>

Resume(t) ==
  /\ At(t, "resume") /\ schedulerUp
  /\ jobs[t].view = "eligible"
  /\ CanResume(t)
  /\ LET a == jobs[t].from
         s == [attempts[a] EXCEPT !.status = "launching_agent", !.controller = "symphoneer"]
     IN  /\ attempts' = [attempts EXCEPT ![a] = s]
         /\ RecordAttempt(t, a, NewRun(s, jobs[t].view), "open")
  /\ UNCHANGED <<tracker, projection, logged, schedulerUp, claims, retries, command, tick,
                 shutdown, bounds>>

\* #setStatus; a status after the end of the Attempt does not parse.
SetStatus(t, status, next) ==
  IF RunOf(t).attempt.status \in Terminal
  THEN Throw(t) /\ UNCHANGED <<index, lock, runs>>
  ELSE RecordAttempt(t, jobs[t].attempt, [RunOf(t) EXCEPT !.attempt.status = status], next)

\* MUTANT: the job returns, and its run is left.
StopRunBug(t) == End(t) /\ UNCHANGED runs

\* #stopRunIfNeeded: true while the Runtime stops.
StopRun(t) ==
  IF RunOf(t).stopping THEN End(t) /\ UNCHANGED runs
  ELSE /\ Goto(t, "interrupt")
       /\ runs' = [runs EXCEPT ![jobs[t].attempt] = Stop("job", @)]

\* pnpm install, then the status building_prompt.
Install(t) ==
  /\ At(t, "install")
  /\ \/ Stopping /\ StopRun(t) /\ UNCHANGED <<index, lock>>
     \/ ~Stopping /\ SetStatus(t, "building_prompt", "prompt")
     \/ "install" \in Faults /\ Throw(t) /\ UNCHANGED <<index, lock, runs>>
  /\ UNCHANGED <<tracker, projection, logged, scheduler, command, tick, shutdown, bounds>>

\* renderPrompt, of the first or of the next Turn, then the status launching_agent.
Prompt(t) ==
  /\ At(t, "prompt")
  /\ SetStatus(t, "launching_agent", IF RunOf(t).worker = "none" THEN "open" ELSE "turn")
  /\ UNCHANGED <<tracker, projection, logged, scheduler, command, tick, shutdown, bounds>>

\* openWorker, and the check of #stopping after it.
Opened(t) ==
  LET a == jobs[t].attempt
      opened == [runs EXCEPT ![a].worker = "open"]
  IN  IF ~Stopping THEN runs' = opened /\ Goto(t, "turn")
      ELSE IF RunOf(t).stopping THEN runs' = opened /\ End(t)
      ELSE runs' = [opened EXCEPT ![a] = Stop("job", @)] /\ Goto(t, "interrupt")

\* #run opens the worker of a new Attempt.
Open(t) ==
  /\ At(t, "open") /\ jobs[t].kind = "run"
  /\ \/ Opened(t)
     \/ "open" \in Faults /\ Throw(t) /\ UNCHANGED runs
  /\ UNCHANGED <<tracker, projection, disk, scheduler, lock, command, tick, shutdown, bounds>>

\* #continue opens the worker of a paused Attempt with its session; it looks at #stopping first.
Reopen(t) ==
  /\ At(t, "open") /\ jobs[t].kind = "continue"
  /\ \/ Stopping /\ StopRun(t)
     \/ Opened(t)
     \/ "open" \in Faults /\ Throw(t) /\ UNCHANGED runs
  /\ UNCHANGED <<tracker, projection, disk, scheduler, lock, command, tick, shutdown, bounds>>

-----------------------------------------------------------------------------
(* The Turns of a job: #driveTurns, #consume and the two ends of an Attempt *)

StartTurn(t) ==
  /\ At(t, "turn")
  /\ \/ /\ RunOf(t).worker = "open"
        /\ runs' = [runs EXCEPT ![jobs[t].attempt] = [@ EXCEPT !.turn = "open", !.attached = FALSE]]
        /\ Goto(t, "consume")
     \/ /\ RunOf(t).worker = "closed" \/ "turn" \in Faults
        /\ Throw(t)
        /\ UNCHANGED runs
  /\ UNCHANGED <<tracker, projection, disk, scheduler, lock, command, tick, shutdown, bounds>>

\* external: the provider ends a Turn; it does so within turnTimeoutMs, when it is
\* interrupted and when its process is closed.
TurnEnds(a) ==
  /\ runs[a] # None /\ runs[a].turn = "open"
  /\ \E outcome \in {"completed"} \cup (IF "turn" \in Faults \/ runs[a].stopping
                                        THEN {"interrupted"} ELSE {}) :
       runs' = [runs EXCEPT ![a].turn = outcome]
  /\ UNCHANGED <<tracker, projection, disk, scheduler, jobs, lock, command, tick, shutdown, bounds>>

\* #setStreaming: the first event of every Turn.
Attach(t) ==
  /\ At(t, "consume") /\ ~RunOf(t).attached
  /\ LET a == jobs[t].attempt
         s == [attempts[a] EXCEPT !.status = "streaming_turn", !.session = TRUE]
     IN  IF Scheduled(a)
         THEN /\ attempts' = [attempts EXCEPT ![a] = s]
              /\ RecordAttempt(t, a, [RunOf(t) EXCEPT !.attempt = s, !.attached = TRUE], "consume")
         ELSE Throw(t) /\ UNCHANGED <<index, lock, runs, attempts>>
  /\ UNCHANGED <<tracker, projection, logged, schedulerUp, claims, retries, command, tick,
                 shutdown, bounds>>

\* #consume: an activity or a question of the agent.
Activity(t) ==
  /\ At(t, "consume") /\ RunOf(t).attached
  /\ RunOf(t).turn = "open"
  /\ Record(t, "event", "consume")
  /\ UNCHANGED <<tracker, projection, disk, scheduler, runs, command, tick, shutdown, bounds>>

\* The Turn is over: the job leaves a stopping run to whoever stops it, or it records the
\* session it read from the worker.
TurnOver(t) ==
  /\ At(t, "consume")
  /\ RunOf(t).turn = "interrupted" \/ (RunOf(t).turn = "completed" /\ RunOf(t).attached)
  /\ \/ RunOf(t).stopping /\ End(t) /\ UNCHANGED <<lock, runs>>
     \/ /\ ~RunOf(t).stopping /\ RunOf(t).turn # "completed"
        /\ Throw(t)
        /\ UNCHANGED <<lock, runs>>
     \/ /\ ~RunOf(t).stopping /\ RunOf(t).turn = "completed"
        /\ runs' = [runs EXCEPT ![jobs[t].attempt].turns = @ + 1]
        /\ \/ Record(t, "event", "reread")
           \/ "turn" \in Faults /\ Goto(t, "reread") /\ UNCHANGED lock
  /\ UNCHANGED <<tracker, projection, disk, scheduler, command, tick, shutdown, bounds>>

\* A requested handoff pauses the run; otherwise the Task is read again.
Reread(t) ==
  /\ At(t, "reread")
  /\ LET a == jobs[t].attempt
     IN  IF RunOf(t).handoff
         THEN IF RunOf(t).attempt.status = "paused" THEN End(t) /\ UNCHANGED <<lock, runs>>
              ELSE /\ Goto(t, "handoff")
                   /\ runs' = [runs EXCEPT ![a] = Stop("job", @)]
                   /\ UNCHANGED lock
         ELSE \/ /\ RecordTask(t, "decide")
                 /\ runs' = [runs EXCEPT ![a].view = tracker[t]]
              \/ "tracker" \in Faults /\ Throw(t) /\ UNCHANGED <<lock, runs>>
  /\ UNCHANGED <<tracker, projection, disk, scheduler, command, tick, shutdown, bounds>>

\* One more Turn, or #finishSucceeded.
Decide(t) ==
  /\ At(t, "decide")
  /\ IF jobs[t].view = "eligible" /\ RunOf(t).turns < MaxTurns
     THEN SetStatus(t, "building_prompt", "prompt")
     ELSE IF RunOf(t).attempt.status \in Terminal
          THEN Throw(t) /\ UNCHANGED <<index, lock, runs>>
          ELSE RecordAttempt(t, jobs[t].attempt,
                 [RunOf(t) EXCEPT !.attempt.status = "finishing", !.worker = "closed"], "retain")
  /\ UNCHANGED <<tracker, projection, logged, scheduler, command, tick, shutdown, bounds>>

\* manager.finish throws the second time.
CanRetain(a) == runs[a].managed = "ready"

Retain(t) ==
  /\ At(t, "retain")
  /\ LET a == jobs[t].attempt
     IN  IF RunOf(t).workspace = "retained" THEN Goto(t, "finish") /\ UNCHANGED runs
         ELSE \/ /\ CanRetain(a)
                 /\ runs' = [runs EXCEPT ![a].managed = "retained"]
                 /\ Goto(t, "retained")
              \/ /\ ~CanRetain(a) \/ "finish" \in Faults
                 /\ Throw(t) /\ UNCHANGED runs
  /\ UNCHANGED <<tracker, projection, disk, scheduler, lock, command, tick, shutdown, bounds>>

Retained(t) ==
  /\ At(t, "retained")
  /\ runs' = [runs EXCEPT ![jobs[t].attempt].workspace = "retained"]
  /\ Record(t, "retained", "finish")
  /\ UNCHANGED <<tracker, projection, disk, scheduler, command, tick, shutdown, bounds>>

\* scheduler.finishAttempt: it ends a running Attempt and queues its retry, and returns an
\* Attempt that is over as it is.
FinishAttempt(t, status) ==
  LET a == jobs[t].attempt
      s == [attempts[a] EXCEPT !.status = status]
  IN  IF Scheduled(a)
      THEN /\ attempts' = [attempts EXCEPT ![a] = s]
           /\ retries' = [retries EXCEPT ![t] = NextRetry(s)]
           /\ RecordAttempt(t, a, [RunOf(t) EXCEPT !.attempt = s], "settle")
      ELSE IF attempts[a] # None /\ attempts[a].status \in Terminal
      THEN /\ RecordAttempt(t, a, [RunOf(t) EXCEPT !.attempt = attempts[a]], "settle")
           /\ UNCHANGED <<attempts, retries>>
      ELSE Throw(t) /\ UNCHANGED <<index, lock, runs, attempts, retries>>

Finish(t) ==
  /\ At(t, "finish")
  /\ FinishAttempt(t, "succeeded")
  /\ UNCHANGED <<tracker, projection, logged, schedulerUp, claims, command, tick, shutdown, bounds>>

\* The run leaves #runs and its promise settles.
Settled(run) == [run EXCEPT !.listed = FALSE, !.settled = TRUE]

Settle(t) ==
  /\ At(t, "settle")
  /\ runs' = [runs EXCEPT ![jobs[t].attempt] = Settled(@)]
  /\ End(t)
  /\ UNCHANGED <<tracker, projection, disk, scheduler, lock, command, tick, shutdown, bounds>>

\* MUTANT: the worker stays open.
HaltBug(run) == run

\* A run is halted: its Turn is over and its worker closed.
Halt(run) == [run EXCEPT !.worker = IF @ = "open" THEN "closed" ELSE @]
Halted(a) == runs[a].turn # "open"

\* #fail: a workspace that cannot be observed stays as it is.
Fail(t) ==
  /\ At(t, "fail")
  /\ LET a == jobs[t].attempt
     IN  /\ Halted(a)
         /\ \/ /\ CanRetain(a)
               /\ runs' = [runs EXCEPT ![a] = [Halt(@) EXCEPT !.managed = "retained",
                                                              !.workspace = "retained"]]
               /\ Record(t, "retained", "failed")
            \/ /\ ~CanRetain(a) \/ "finish" \in Faults
               /\ runs' = [runs EXCEPT ![a] = Halt(@)]
               /\ Goto(t, "failed")
               /\ UNCHANGED lock
  /\ UNCHANGED <<tracker, projection, disk, scheduler, command, tick, shutdown, bounds>>

\* The scheduler hears of the failure only when the workspace is retained; an exception
\* here ends the job with its run as it is.
Failed(t) ==
  /\ At(t, "failed")
  /\ LET a == jobs[t].attempt
     IN  IF RunOf(t).workspace # "retained"
         THEN /\ RecordAttempt(t, a, [RunOf(t) EXCEPT !.attempt.status = "failed"], "settle")
              /\ UNCHANGED <<attempts, retries>>
         ELSE IF attempts[a] # None /\ attempts[a].status # "paused"
         THEN FinishAttempt(t, "failed")
         ELSE End(t) /\ UNCHANGED <<index, lock, runs, attempts, retries>>
  /\ UNCHANGED <<tracker, projection, logged, schedulerUp, claims, command, tick, shutdown, bounds>>

-----------------------------------------------------------------------------
(* Ending a run early: #pause for a job whose handoff was asked for and for a command,  *)
(* #interrupt for a job and for the shutdown, #recordReconciledAttempt for the tick.    *)
(* Several of them may end one run; run.ends says how far each is.  All but the tick    *)
(* commit without a place in the FIFO.                                                  *)

\* The Turn is interrupted, the worker closed, and the workspace handed back.
EndHalt(who, a) ==
  /\ runs[a] # None /\ runs[a].ends[who] = "halt" /\ Halted(a)
  /\ \E stage \in (IF runs[a].workspace = "retained" THEN {"status"}
                   ELSE (IF CanRetain(a) THEN {"retained"} ELSE {"failed"})
                        \cup (IF "finish" \in Faults THEN {"failed"} ELSE {})) :
       runs' = [runs EXCEPT ![a] = [Halt(@) EXCEPT
                  !.ends[who] = stage,
                  !.managed = IF stage = "retained" THEN "retained" ELSE runs[a].managed]]
  /\ UNCHANGED <<tracker, projection, disk, scheduler, jobs, lock, command, tick, shutdown, bounds>>

EndRetained(who, a) ==
  /\ who # "tick"
  /\ runs[a] # None /\ runs[a].ends[who] = "retained"
  /\ runs' = [runs EXCEPT ![a].workspace = "retained", ![a].ends[who] = "status"]
  /\ LogRetained(runs[a].attempt.task)
  /\ UNCHANGED <<tracker, known, recorded, index, scheduler, jobs, lock, command, tick,
                 shutdown, bounds>>

Pauses(who, a) ==
  who = "command" \/ (who = "job" /\ jobs[runs[a].attempt.task].pc = "handoff")

\* MUTANT: an Attempt that is not running can be paused.
CanPauseBug(a) == attempts[a] # None /\ attempts[a].session

\* scheduler.pauseAttempt takes a running Attempt that has a provider session.
CanPause(a) == Scheduled(a) /\ attempts[a].session

Paused(a) ==
  [attempts[a] EXCEPT !.status = "paused",
                      !.controller = IF runs[a].handoff THEN "codex" ELSE @]

EndStatus(who, a) ==
  /\ who # "tick"
  /\ runs[a] # None /\ runs[a].ends[who] = "status"
  /\ IF Pauses(who, a) /\ ~CanPause(a)
     THEN /\ runs' = [runs EXCEPT ![a].ends[who] = "failed"]
          /\ UNCHANGED <<index, recorded, workspaces, attempts>>
     ELSE LET s == IF Pauses(who, a) THEN Paused(a)
                   ELSE [runs[a].attempt EXCEPT !.status = "interrupted"]
          IN  /\ attempts' = IF Pauses(who, a) THEN [attempts EXCEPT ![a] = s] ELSE attempts
              /\ index' = [index EXCEPT ![a] = s]
              /\ recorded' = [recorded EXCEPT ![a] = s]
              /\ workspaces' = [workspaces EXCEPT ![s.task] = "retained"]
              /\ runs' = [runs EXCEPT ![a] = [Settled(@) EXCEPT !.attempt = s, !.ends[who] = "done"]]
  /\ UNCHANGED <<tracker, known, logged, schedulerUp, claims, retries, jobs, lock, command,
                 tick, shutdown, bounds>>

\* The job that ended its own run returns, or throws.
JobEnded(t) ==
  /\ At(t, "handoff") \/ At(t, "interrupt")
  /\ \/ RunOf(t).ends["job"] = "done" /\ End(t)
     \/ RunOf(t).ends["job"] = "failed" /\ Throw(t)
  /\ UNCHANGED <<tracker, projection, disk, scheduler, runs, lock, command, tick, shutdown, bounds>>

-----------------------------------------------------------------------------
(* #ensureScheduler: the first job or tick that needs the scheduler restores it from    *)
(* the Tasks of the projection.                                                         *)

Latest(s, t) ==
  {a \in AttemptIds : /\ s[a] # None /\ s[a].task = t
                      /\ \A b \in AttemptIds :
                           s[b] # None /\ s[b].task = t => s[b].sequence <= s[a].sequence}

\* restore: the Attempt that claims a Task, and whether it waits for a retry.
Waits(s, t) == s.controller # "codex" /\ s.status \in {"succeeded", "failed"} /\ workspaces[t] = "retained"
\* MUTANT: only an Attempt that waits for a retry claims its Task.
ClaimantsBug(s, t) == {a \in Latest(s, t) : workspaces[t] # "none" /\ Waits(s[a], t)}

Claimants(s, t) ==
  {a \in Latest(s, t) : /\ workspaces[t] # "none"
                        /\ s[a].controller = "codex" \/ s[a].status \notin Terminal \/ Waits(s[a], t)}

EnsureScheduler ==
  /\ ~schedulerUp
  /\ tick.pc = "reconcile" \/ \E t \in Tasks : At(t, "prepare") \/ At(t, "resume")
  /\ LET restored == [a \in AttemptIds |->
                        IF recorded[a] # None /\ known[recorded[a].task] # None
                        THEN recorded[a] ELSE None]
         claimant(t) == CHOOSE a \in Claimants(restored, t) : TRUE
     IN  /\ attempts' = restored
         /\ claims' = [t \in Tasks |-> IF Claimants(restored, t) = {} THEN None ELSE claimant(t)]
         /\ retries' = [t \in Tasks |->
              IF Claimants(restored, t) # {} /\ Waits(restored[claimant(t)], t)
              THEN NextRetry(restored[claimant(t)]) ELSE None]
  /\ schedulerUp' = TRUE
  /\ UNCHANGED <<tracker, projection, disk, runs, jobs, lock, command, tick, shutdown, bounds>>

-----------------------------------------------------------------------------
(* Commands: executeCommand and requestAttemptCommand run in the critical section       *)

\* A person gives a command; it waits for its turn.
Give(kind, a, t) ==
  /\ command.pc = "idle" /\ ~Stopping
  /\ given < scenario.commands
  /\ given' = given + 1
  /\ command' = [pc |-> "queued", kind |-> kind, attempt |-> a, task |-> t]
  /\ lock' = Append(lock, "command")
  /\ UNCHANGED <<tracker, projection, disk, scheduler, runs, jobs, tick, shutdown, drawn,
                 restarts, scenario>>

Now(kind) == command.pc = "queued" /\ command.kind = kind /\ Holds("command")
Answer == command' = [pc |-> "idle"] /\ lock' = Tail(lock)
Await(pc) == command' = [command EXCEPT !.pc = pc] /\ UNCHANGED lock

\* The Attempts that keep a command from starting another one.
Active(t) ==
  {a \in AttemptsOf(t) : recorded[a].controller = "codex" \/ recorded[a].status \in Live}

\* start_run
StartRun ==
  /\ Now("start")
  /\ LET t == command.task
     IN  jobs' = IF known[t] = "eligible" /\ Active(t) = {} /\ ~Job(t)
                 THEN [jobs EXCEPT ![t] = NewJob("run", "dispatch", FALSE, None, known[t])] ELSE jobs
  /\ Answer
  /\ UNCHANGED <<tracker, projection, disk, scheduler, runs, tick, shutdown, bounds>>

\* retry_attempt
RetryAttempt ==
  /\ Now("retry")
  /\ LET a == command.attempt
         t == command.task
     IN  jobs' = IF /\ recorded[a] # None /\ recorded[a].controller # "codex"
                    /\ Active(t) \ {a} = {}
                    /\ known[t] # None /\ ~Job(t)
                 THEN [jobs EXCEPT ![t] = NewJob("run", "force", FALSE, None, known[t])] ELSE jobs
  /\ Answer
  /\ UNCHANGED <<tracker, projection, disk, scheduler, runs, tick, shutdown, bounds>>

\* pause_attempt, and the first half of delete_attempt: #pause of a listed run.
PauseAttempt ==
  /\ Now("pause") \/ Now("delete")
  /\ LET a == command.attempt
         refused == \/ recorded[a] = None
                    \/ command.kind = "pause" /\ recorded[a].status \in Terminal
     IN  IF ~refused /\ Listed(a) /\ runs[a].attempt.status # "paused"
         THEN Await("pausing") /\ runs' = [runs EXCEPT ![a] = Stop("command", @)]
         ELSE /\ IF refused \/ command.kind = "pause" THEN Answer ELSE Await("delete")
              /\ UNCHANGED runs
  /\ UNCHANGED <<tracker, projection, disk, scheduler, jobs, tick, shutdown, bounds>>

\* MUTANT: only a pause that succeeds is answered.
AttemptPausedBug ==
  /\ command.pc = "pausing"
  /\ runs[command.attempt].ends["command"] = "done"
  /\ IF command.kind = "delete" THEN Await("delete") ELSE Answer
  /\ UNCHANGED <<tracker, projection, disk, scheduler, runs, jobs, tick, shutdown, bounds>>

AttemptPaused ==
  /\ command.pc = "pausing"
  /\ LET stage == runs[command.attempt].ends["command"]
     IN  \/ stage = "done" /\ command.kind = "delete" /\ Await("delete")
         \/ stage \in {"done", "failed"} /\ (stage = "done" => command.kind = "pause") /\ Answer
  /\ UNCHANGED <<tracker, projection, disk, scheduler, runs, jobs, tick, shutdown, bounds>>

\* scheduler.deleteAttempt throws for a running Attempt; then the event is committed.
DeleteAttempt ==
  /\ command.pc = "delete"
  /\ LET a == command.attempt
         t == command.task
     IN  IF Scheduled(a) THEN Answer /\ UNCHANGED <<recorded, attempts, claims, retries, runs>>
         ELSE /\ attempts' = [attempts EXCEPT ![a] = None]
              /\ claims' = [claims EXCEPT ![t] = IF @ = a THEN None ELSE @]
              /\ retries' = [retries EXCEPT ![t] = IF claims[t] = a THEN None ELSE @]
              /\ runs' = [b \in AttemptIds |->
                            IF b = a /\ runs[a] # None THEN [runs[a] EXCEPT !.listed = FALSE] ELSE runs[b]]
              /\ recorded' = [recorded EXCEPT ![a] = None]
              /\ Await("unindex")
  /\ UNCHANGED <<tracker, known, workspaces, disk, schedulerUp, jobs, tick, shutdown, bounds>>

Unindex ==
  /\ command.pc = "unindex"
  /\ index' = [index EXCEPT ![command.attempt] = None]
  /\ Answer
  /\ UNCHANGED <<tracker, projection, logged, scheduler, runs, jobs, tick, shutdown, bounds>>

\* send_attempt_input: the current Turn is steered, or a paused Attempt resumes.
SendInput ==
  /\ Now("input")
  /\ LET a == command.attempt
         t == command.task
         resumes == /\ recorded[a] # None /\ recorded[a].controller # "codex"
                    /\ ~(Listed(a) /\ runs[a].turn # "none")
                    /\ known[t] # None /\ ~Job(t)
                    /\ recorded[a].status = "paused" /\ recorded[a].session
                    /\ workspaces[t] # "none"
     IN  jobs' = IF resumes THEN [jobs EXCEPT ![t] = NewJob("continue", "dispatch", FALSE, a, known[t])]
                 ELSE jobs
  /\ Answer
  /\ UNCHANGED <<tracker, projection, disk, scheduler, runs, tick, shutdown, bounds>>

\* handoff_attempt: the command keeps the critical section until the run settles.
Handoff ==
  /\ Now("handoff")
  /\ LET a == command.attempt
     IN  IF recorded[a] # None /\ recorded[a].session /\ Listed(a)
         THEN Await("handoff") /\ runs' = [runs EXCEPT ![a].handoff = TRUE]
         ELSE Answer /\ UNCHANGED runs
  /\ UNCHANGED <<tracker, projection, disk, scheduler, jobs, tick, shutdown, bounds>>

\* setAttemptController, after the handoff or the return.
SetController(a, controller) ==
  IF recorded[a] = None THEN UNCHANGED <<index, recorded>>
  ELSE /\ index' = [index EXCEPT ![a] = [recorded[a] EXCEPT !.controller = controller]]
       /\ recorded' = [recorded EXCEPT ![a].controller = controller]

HandedOff ==
  /\ command.pc = "handoff"
  /\ LET a == command.attempt
     IN  /\ runs[a].settled
         /\ IF recorded[a] # None /\ recorded[a].status = "paused"
            THEN SetController(a, "codex")
            ELSE UNCHANGED <<index, recorded>>
  /\ Answer
  /\ UNCHANGED <<tracker, known, workspaces, logged, scheduler, runs, jobs, tick, shutdown, bounds>>

\* return_attempt_control: the command waits for the job to open its worker.
ReturnControl ==
  /\ Now("return")
  /\ LET a == command.attempt
         t == command.task
     IN  IF /\ recorded[a] # None /\ recorded[a].controller = "codex"
            /\ recorded[a].status = "paused" /\ recorded[a].session
            /\ known[t] # None /\ ~Job(t) /\ workspaces[t] # "none"
         THEN Await("return") /\ jobs' = [jobs EXCEPT ![t] = NewJob("continue", "dispatch", TRUE, a, known[t])]
         ELSE Answer /\ UNCHANGED jobs
  /\ UNCHANGED <<tracker, projection, disk, scheduler, runs, tick, shutdown, bounds>>

\* started settles: the worker is open, or the job has thrown.
Returned ==
  /\ command.pc = "return"
  /\ LET t == command.task
     IN  \/ /\ ~Job(t) \/ At(t, "fail")
            /\ UNCHANGED <<index, recorded>>
         \/ /\ Job(t) /\ jobs[t].attempt # None /\ RunOf(t).worker = "open"
            /\ SetController(command.attempt, "symphoneer")
  /\ Answer
  /\ UNCHANGED <<tracker, known, workspaces, logged, scheduler, runs, jobs, tick, shutdown, bounds>>

-----------------------------------------------------------------------------
(* The tick *)

TickAt(pc) == tick.pc = pc
TickTo(pc) == tick' = [tick EXCEPT !.pc = pc]
TickFails == tick' = [pc |-> "idle"]

\* The tick queues a write and goes on at next.
TickAppend(write, t, a, snapshot, next) ==
  /\ lock' = Append(lock, "tick")
  /\ tick' = [tick EXCEPT !.pc = "append", !.write = write, !.task = t, !.attempt = a,
                          !.snapshot = snapshot, !.next = next]

NewTick(seen) ==
  [pc |-> "reconcile", seen |-> seen, stopped |-> {}, closed |-> {}, due |-> {},
   write |-> "event", task |-> None, attempt |-> None, snapshot |-> None, next |-> "cancel"]

\* TrackerSynchronizer.refresh: every Task is recorded in the critical section, then the tick
\* starts with what was read.
Refresh ==
  /\ TickAt("idle") /\ ~Stopping
  /\ lock = <<>>
  /\ known' = tracker
  /\ tick' = NewTick(tracker)
  /\ UNCHANGED <<tracker, recorded, workspaces, disk, scheduler, runs, jobs, lock, command,
                 shutdown, bounds>>

\* #continueOrBlock sets no timer for a retry that a person has to ask for.
HasTimer(t) == retries[t] # None /\ retries[t].automatic

\* #scheduleTick: a retry is due.
RetryTimer(t) ==
  /\ HasTimer(t)
  /\ TickAt("idle") /\ ~Stopping
  /\ retries' = [retries EXCEPT ![t].due = TRUE]
  /\ tick' = NewTick(known)
  /\ UNCHANGED <<tracker, projection, disk, schedulerUp, attempts, claims, runs, jobs, lock,
                 command, shutdown, bounds>>

\* MUTANT: the Task just read counts, whatever a run works with.
ViewOfBug(t) == tick.seen[t]

\* The Task of a run in place of the one just read.
ViewOf(t) ==
  LET busy == {a \in AttemptIds : Listed(a) /\ ~runs[a].stopping /\ runs[a].attempt.task = t}
  IN  IF busy = {} THEN tick.seen[t] ELSE runs[CHOOSE a \in busy : TRUE].view

\* scheduler.reconcile
Reconcile ==
  /\ TickAt("reconcile") /\ schedulerUp
  /\ LET stopped == {a \in AttemptIds : /\ attempts[a] # None
                                        /\ attempts[a].status \in Live \cup {"paused"}
                                        /\ attempts[a].controller # "codex"
                                        /\ ViewOf(attempts[a].task) # "eligible"}
         released == {t \in Tasks : /\ ViewOf(t) # "eligible"
                                    /\ retries[t] # None \/ \E a \in stopped : attempts[a].task = t}
     IN  /\ attempts' = [a \in AttemptIds |->
              IF a \in stopped THEN [attempts[a] EXCEPT !.status = "canceled_by_reconciliation"]
              ELSE attempts[a]]
         /\ claims' = [t \in Tasks |-> IF t \in released THEN None ELSE claims[t]]
         /\ retries' = [t \in Tasks |-> IF t \in released THEN None ELSE retries[t]]
         /\ tick' = [tick EXCEPT !.pc = "cancel", !.stopped = stopped,
                                 !.closed = {t \in released : ViewOf(t) = "closed"}]
  /\ UNCHANGED <<tracker, projection, disk, schedulerUp, runs, jobs, lock, command, shutdown, bounds>>

\* #recordReconciledAttempt, for one Attempt after the other.
Cancel ==
  /\ TickAt("cancel")
  /\ \E a \in tick.stopped :
       LET s == [recorded[a] EXCEPT !.status = "canceled_by_reconciliation"]
           next == [tick EXCEPT !.stopped = @ \ {a}]
       IN  IF Listed(a)
           THEN /\ runs' = [runs EXCEPT ![a] = Stop("tick", @)]
                /\ tick' = [next EXCEPT !.pc = "ending", !.attempt = a]
                /\ UNCHANGED <<index, lock>>
           ELSE IF recorded[a] # None /\ recorded[a].status \notin Terminal
                   /\ recorded[a].controller # "codex"
           THEN /\ index' = [index EXCEPT ![a] = s]
                /\ lock' = Append(lock, "tick")
                /\ tick' = [next EXCEPT !.pc = "append", !.write = "attempt", !.task = s.task,
                                        !.attempt = a, !.snapshot = s, !.next = "cancel"]
                /\ UNCHANGED runs
           ELSE tick' = next /\ UNCHANGED <<index, lock, runs>>
  /\ UNCHANGED <<tracker, projection, logged, scheduler, jobs, command, shutdown, bounds>>

\* The steps of the tick that ends a run.
TickEnds ==
  /\ TickAt("ending")
  /\ LET a == tick.attempt
         run == runs[a]
         t == run.attempt.task
         s == [run.attempt EXCEPT !.status = "canceled_by_reconciliation"]
     IN  \/ /\ run.ends["tick"] = "retained"
            /\ runs' = [runs EXCEPT ![a].workspace = "retained", ![a].ends["tick"] = "status"]
            /\ TickAppend("retained", t, a, None, "ending")
            /\ UNCHANGED index
         \/ /\ run.ends["tick"] = "status"
            /\ runs' = [runs EXCEPT ![a].attempt = s, ![a].ends["tick"] = "settle"]
            /\ index' = [index EXCEPT ![a] = s]
            /\ TickAppend("attempt", t, a, s, "ending")
         \/ /\ run.ends["tick"] = "settle"
            /\ runs' = [runs EXCEPT ![a] = [Settled(@) EXCEPT !.ends["tick"] = "done"]]
            /\ TickTo("cancel")
            /\ UNCHANGED <<index, lock>>
         \/ /\ run.ends["tick"] = "failed"
            /\ TickFails
            /\ UNCHANGED <<index, lock, runs>>
  /\ UNCHANGED <<tracker, projection, logged, scheduler, jobs, command, shutdown, bounds>>

TickCommit ==
  /\ TickAt("append") /\ Holds("tick")
  /\ lock' = Tail(lock)
  /\ TickTo(tick.next)
  /\ CASE tick.write = "attempt" ->
            /\ recorded' = [recorded EXCEPT ![tick.attempt] = tick.snapshot]
            /\ workspaces' = [workspaces EXCEPT ![tick.task] =
                                IF runs[tick.attempt] # None THEN runs[tick.attempt].workspace ELSE @]
            /\ UNCHANGED <<known, logged>>
       [] tick.write = "task" ->
            /\ known' = [known EXCEPT ![tick.task] = tick.snapshot]
            /\ UNCHANGED <<recorded, workspaces, logged>>
       [] tick.write = "retained" -> LogRetained(tick.task) /\ UNCHANGED <<known, recorded>>
       [] tick.write = "released" -> LogReleased(tick.task) /\ UNCHANGED <<known, recorded>>
       [] OTHER -> UNCHANGED <<known, recorded, workspaces, logged>>
  /\ UNCHANGED <<tracker, index, scheduler, runs, jobs, command, shutdown, bounds>>

\* #cleanupWorkspace of the closed Tasks.
Cleanup ==
  /\ TickAt("cancel") /\ tick.stopped = {}
  /\ IF tick.closed = {}
     THEN /\ tick' = [tick EXCEPT !.pc = "retries",
                        !.due = {t \in Tasks : retries[t] # None /\ retries[t].automatic /\ retries[t].due}]
          /\ UNCHANGED lock
     ELSE \E t \in tick.closed :
            IF AttemptsOf(t) = {} \/ workspaces[t] # "retained"
            THEN tick' = [tick EXCEPT !.closed = @ \ {t}] /\ UNCHANGED lock
            ELSE \/ /\ lock' = Append(lock, "tick")
                    /\ tick' = [tick EXCEPT !.closed = @ \ {t}, !.pc = "append", !.task = t,
                                            !.write = "released", !.next = "cancel"]
                 \/ "remove" \in Faults /\ TickFails /\ UNCHANGED lock
  /\ UNCHANGED <<tracker, projection, disk, scheduler, runs, jobs, command, shutdown, bounds>>

\* The due retries, one after the other: the Task is read again.
ReadRetry ==
  /\ TickAt("retries")
  /\ \E t \in tick.due :
       \/ /\ known[t] # None
          /\ lock' = Append(lock, "tick")
          /\ tick' = [tick EXCEPT !.pc = "append", !.write = "task", !.task = t,
                                  !.snapshot = tracker[t], !.next = "retry"]
       \/ /\ "tracker" \in Faults
          /\ tick' = [tick EXCEPT !.due = @ \ {t}]
          /\ UNCHANGED lock
  /\ UNCHANGED <<tracker, projection, disk, scheduler, runs, jobs, command, shutdown, bounds>>

\* Then it is released, or launched; a closed Task is cleaned up first.
TryRetry ==
  /\ TickAt("retry")
  /\ LET t == tick.task
         next == [tick EXCEPT !.pc = "retries", !.due = @ \ {t}]
     IN  IF tick.snapshot = "eligible"
         THEN /\ jobs' = IF Job(t) THEN jobs
                         ELSE [jobs EXCEPT ![t] = NewJob("run", "retry", FALSE, None, "eligible")]
              /\ tick' = next
              /\ UNCHANGED <<claims, retries, lock>>
         ELSE IF retries[t] = None
         THEN TickFails /\ UNCHANGED <<claims, retries, lock, jobs>>
         ELSE /\ retries' = [retries EXCEPT ![t] = None]
              /\ claims' = [claims EXCEPT ![t] = None]
              /\ \/ /\ tick.snapshot # "closed" \/ workspaces[t] # "retained"
                    /\ tick' = next /\ UNCHANGED lock
                 \/ /\ tick.snapshot = "closed" /\ workspaces[t] = "retained"
                    /\ lock' = Append(lock, "tick")
                    /\ tick' = [next EXCEPT !.pc = "append", !.write = "released", !.next = "retries"]
                 \/ /\ tick.snapshot = "closed" /\ workspaces[t] = "retained"
                    /\ "remove" \in Faults /\ TickFails /\ UNCHANGED lock
              /\ UNCHANGED jobs
  /\ UNCHANGED <<tracker, projection, disk, schedulerUp, attempts, runs, command, shutdown, bounds>>

\* New work for the free places.
DispatchTick ==
  /\ TickAt("retries") /\ tick.due = {}
  /\ LET busy == {t \in Tasks : LiveIn(attempts, t) # {} \/ Job(t)}
         ready == {t \in Tasks : tick.seen[t] = "eligible" /\ claims[t] = None /\ ~Job(t)}
         room == MaxAgents - Cardinality(busy)
     IN  \E launched \in SUBSET ready :
           /\ \/ launched = ready /\ Cardinality(ready) <= room
              \/ Cardinality(launched) = room
              \/ room <= 0 /\ launched = {}
           /\ jobs' = [t \in Tasks |-> IF t \in launched THEN NewJob("run", "dispatch", FALSE, None, "eligible")
                                       ELSE jobs[t]]
  /\ tick' = [pc |-> "idle"]
  /\ UNCHANGED <<tracker, projection, disk, scheduler, runs, lock, command, shutdown, bounds>>

-----------------------------------------------------------------------------
(* stop *)

StopRequested ==
  /\ "stop" \in Kinds /\ ~Stopping
  /\ shutdown' = [pc |-> "tick", awaited |-> {}, ended |-> {}]
  /\ UNCHANGED <<tracker, projection, disk, scheduler, runs, jobs, lock, command, tick, bounds>>

\* After the tick: a run that is stopping or over is awaited, every other one interrupted.
StopRuns ==
  /\ shutdown.pc = "tick" /\ TickAt("idle")
  /\ LET listed == {a \in AttemptIds : Listed(a)}
         awaited == {a \in listed : runs[a].stopping \/ runs[a].attempt.status \in Terminal}
     IN  /\ shutdown' = [pc |-> "runs", awaited |-> awaited, ended |-> listed \ awaited]
         /\ runs' = [a \in AttemptIds |-> IF a \in listed \ awaited THEN Stop("stop", runs[a])
                                          ELSE runs[a]]
  /\ UNCHANGED <<tracker, projection, disk, scheduler, jobs, lock, command, tick, bounds>>

StopJobs ==
  /\ shutdown.pc = "runs"
  /\ shutdown' \in
       (IF \E a \in shutdown.ended : runs[a].ends["stop"] = "failed"
        THEN {[shutdown EXCEPT !.pc = "failed"]} ELSE {}) \cup
       (IF /\ \A a \in shutdown.ended : runs[a].ends["stop"] = "done"
           /\ \A a \in shutdown.awaited : runs[a].settled
        THEN {[shutdown EXCEPT !.pc = "jobs"]} ELSE {})
  /\ UNCHANGED <<tracker, projection, disk, scheduler, runs, jobs, lock, command, tick, bounds>>

\* The log goes offline: the commands that still wait for it fail.
Stopped ==
  /\ shutdown.pc = "jobs"
  /\ \A t \in Tasks : ~Job(t)
  /\ shutdown' = [shutdown EXCEPT !.pc = "stopped"]
  /\ command' = [pc |-> "idle"]
  /\ lock' = <<>>
  /\ UNCHANGED <<tracker, projection, disk, scheduler, runs, jobs, tick, bounds>>

-----------------------------------------------------------------------------
(* The Tracker, the restart of the process and the specification *)

\* external: a person moves the Task in the Tracker.
TrackerMoves(t) ==
  /\ t \in scenario.tasks
  /\ \E view \in Views \ {tracker[t]} : tracker' = [tracker EXCEPT ![t] = view]
  /\ UNCHANGED <<projection, disk, scheduler, runs, jobs, lock, command, tick, shutdown, bounds>>

\* The process dies; the next one replays the events, lays the index over them and
\* interrupts what no worker serves.
Orphan(s) ==
  IF s # None /\ s.controller = "symphoneer" /\ s.status \notin Terminal
  THEN [s EXCEPT !.status = "interrupted"] ELSE s

Restart ==
  /\ restarts < scenario.restarts
  /\ restarts' = restarts + 1
  /\ index' = [a \in AttemptIds |-> Orphan(index[a])]
  /\ recorded' = [a \in AttemptIds |-> Orphan(index[a])]
  /\ workspaces' = [t \in Tasks |-> logged[t].last]
  /\ known' = [t \in Tasks |-> None]
  /\ schedulerUp' = FALSE
  /\ attempts' = [a \in AttemptIds |-> None]
  /\ claims' = [t \in Tasks |-> None]
  /\ retries' = [t \in Tasks |-> None]
  /\ runs' = [a \in AttemptIds |-> None]
  /\ jobs' = [t \in Tasks |-> None]
  /\ lock' = <<>>
  /\ command' = [pc |-> "idle"]
  /\ tick' = [pc |-> "idle"]
  /\ shutdown' = [pc |-> "idle", awaited |-> {}, ended |-> {}]
  /\ UNCHANGED <<tracker, logged, drawn, given, scenario>>

Init ==
  /\ scenario \in Scenarios
  /\ tracker \in {f \in [Tasks -> Views \cup {"held"}] :
                    \A t \in Tasks : IF t \in scenario.tasks THEN f[t] \in Views ELSE f[t] = "held"}
  /\ known = [t \in Tasks |-> None]
  /\ recorded = [a \in AttemptIds |-> None]
  /\ workspaces = [t \in Tasks |-> "none"]
  /\ index = [a \in AttemptIds |-> None]
  /\ logged = [t \in Tasks |-> [last |-> "none", keys |-> {}]]
  /\ schedulerUp = FALSE
  /\ attempts = [a \in AttemptIds |-> None]
  /\ claims = [t \in Tasks |-> None]
  /\ retries = [t \in Tasks |-> None]
  /\ runs = [a \in AttemptIds |-> None]
  /\ jobs = [t \in Tasks |-> None]
  /\ lock = <<>>
  /\ command = [pc |-> "idle"]
  /\ tick = [pc |-> "idle"]
  /\ shutdown = [pc |-> "idle", awaited |-> {}, ended |-> {}]
  /\ drawn = 0 /\ given = 0 /\ restarts = 0

Ending(a) == \E who \in Enders : EndHalt(who, a) \/ EndRetained(who, a) \/ EndStatus(who, a)

JobStep(t) ==
  \/ Commit(t) \/ Fetch(t) \/ NotStarted(t) \/ Unreserved(t) \/ Start(t) \/ NotResumed(t)
  \/ Resume(t) \/ Install(t) \/ Prompt(t) \/ Open(t) \/ Reopen(t) \/ StartTurn(t) \/ Attach(t)
  \/ TurnOver(t) \/ Reread(t) \/ Decide(t) \/ Retain(t) \/ Retained(t) \/ Finish(t)
  \/ Settle(t) \/ Fail(t) \/ Failed(t) \/ JobEnded(t)

CommandStep ==
  \/ StartRun \/ RetryAttempt \/ PauseAttempt \/ AttemptPaused \/ DeleteAttempt \/ Unindex
  \/ SendInput \/ Handoff \/ HandedOff \/ ReturnControl \/ Returned

TickStep ==
  \/ Reconcile \/ Cancel \/ TickEnds \/ TickCommit \/ Cleanup \/ ReadRetry \/ TryRetry \/ DispatchTick

StopStep == StopRuns \/ StopJobs \/ Stopped

\* What comes from people and from the world: no fairness.
Request ==
  \/ \E t \in scenario.tasks : "start" \in Kinds /\ Give("start", None, t)
  \/ \E a \in AttemptIds, kind \in Kinds \ {"start", "stop"} :
       recorded[a] # None /\ Give(kind, a, recorded[a].task)
  \/ StopRequested

Next ==
  \/ Request
  \/ CommandStep
  \/ Refresh \/ TickStep \/ StopStep \/ EnsureScheduler
  \/ \E t \in Tasks : JobStep(t) \/ Activity(t) \/ RetryTimer(t) \/ TrackerMoves(t)
  \/ \E a \in AttemptIds : TurnEnds(a) \/ Ending(a)
  \/ Restart

Spec == Init /\ [][Next]_vars

\* Every asynchronous call goes on while it can, and a Turn ends within its timeout.
Fairness ==
  /\ \A t \in Tasks : WF_vars(JobStep(t))
  /\ \A a \in AttemptIds : WF_vars(TurnEnds(a)) /\ WF_vars(Ending(a))
  /\ WF_vars(CommandStep) /\ WF_vars(TickStep) /\ WF_vars(StopStep) /\ WF_vars(EnsureScheduler)

FairSpec == Spec /\ Fairness

-----------------------------------------------------------------------------
(* Properties *)

\* Every variable keeps its type, and a job's Attempt has a run.
TypeOK ==
  /\ scenario \in Scenarios
  /\ tracker \in [Tasks -> AllViews]
  /\ known \in [Tasks -> AllViews \cup {None}]
  /\ recorded \in [AttemptIds -> Snapshots \cup {None}]
  /\ index \in [AttemptIds -> Snapshots \cup {None}]
  /\ attempts \in [AttemptIds -> Snapshots \cup {None}]
  /\ workspaces \in [Tasks -> {"none", "ready", "retained", "released"}]
  /\ claims \in [Tasks -> AttemptIds \cup {None}]
  /\ retries \in [Tasks -> RetryRecords \cup {None}]
  /\ \A t \in Tasks : Job(t) /\ jobs[t].attempt # None => runs[jobs[t].attempt] # None
  /\ \A i \in 1..Len(lock) : lock[i] \in Tasks \cup {"tick", "command"}

\* Nothing is under way in the Runtime.
Quiet ==
  /\ tick.pc = "idle" /\ command.pc = "idle" /\ lock = <<>> /\ ~Stopping
  /\ \A t \in Tasks : ~Job(t)

\* Two Attempts of a Task never have a Turn open at the same time: jobs, retries, resumed
\* Attempts and cancellations leave one writer to a workspace.
OneTurnPerTask ==
  \A a, b \in AttemptIds :
    /\ a # b /\ runs[a] # None /\ runs[b] # None
    /\ runs[a].turn = "open" /\ runs[b].turn = "open"
    => runs[a].attempt.task # runs[b].attempt.task

\* No more Turns are open than agent.max_concurrent_agents allows, although the tick counts the
\* jobs, the scheduler the Attempts, and a person's start counts neither.
TurnsWithinLimit ==
  Cardinality({a \in AttemptIds : runs[a] # None /\ runs[a].turn = "open"}) <= MaxAgents

\* A run that settled leaves no worker behind, whoever ended it and however far its job was.
SettledRunsClose ==
  \A a \in AttemptIds : runs[a] # None /\ runs[a].settled => runs[a].worker # "open"

\* When all is quiet no Attempt holds a place in the scheduler: every way a job can end has
\* told the scheduler.
SlotsReleased == Quiet => \A a \in AttemptIds : ~Scheduled(a)

\* When all is quiet the projection says of every Attempt what the scheduler says: the job,
\* the tick and the FIFO have not put their records in another order.
RecordsAgree ==
  Quiet /\ schedulerUp => \A a \in AttemptIds : attempts[a] = recorded[a]

\* When all is quiet the index on disk is the projection, although the index is written before
\* the FIFO and the projection after it.
IndexAgrees == Quiet => index = recorded

\* Until the Runtime is stopped the index never changes an Attempt that is over: no late record
\* of its job, of a pause or of a cancellation rewrites how it ended.
FinishedStays ==
  [][~Stopping => \A a \in AttemptIds : index[a] # None /\ Finished(index[a]) /\ index'[a] # None
       => index'[a] = index[a]]_vars

\* A Task has at most MaxAttempts Attempts and one more for each time a person asks.
LimitPerRetry ==
  \A a \in AttemptIds : index[a] # None => index[a].sequence <= MaxAttempts + given

\* A Task in the hands of Codex is claimed by its Attempt and no Turn works on it, through
\* ticks, retries, commands and restarts.
CodexKeepsTask ==
  \A a \in AttemptIds :
    /\ attempts[a] # None /\ attempts[a].controller = "codex" /\ attempts[a].status = "paused"
    => /\ claims[attempts[a].task] = a
       /\ \A b \in AttemptIds :
            runs[b] # None /\ runs[b].attempt.task = attempts[a].task => runs[b].turn # "open"

\* Every command that was given is answered, so the critical section is free again.
CommandsReturn == command.pc # "idle" ~> command.pc = "idle"

\* A handoff that was accepted is answered: the Turn ends and the run settles.
HandoffsReturn == command.pc = "handoff" ~> command.pc = "idle"

\* A stop that was asked for completes or throws: it waits for no run that nobody ends, and a stop
\* that completes leaves no run in #runs.
StopReturns ==
  Stopping ~> \/ shutdown.pc = "failed"
              \/ shutdown.pc = "stopped" /\ \A a \in AttemptIds : ~Listed(a)

\* Jobs, the tick, retries and commands start Turns one at a time: one for a Task and no more than
\* the limit on agents in all.
TurnsExclusive == TypeOK /\ OneTurnPerTask /\ TurnsWithinLimit

\* At rest scheduler, projection and disk tell the same story, and no place is held for nothing.
QuietAgree == SlotsReleased /\ RecordsAgree /\ IndexAgrees
=============================================================================
