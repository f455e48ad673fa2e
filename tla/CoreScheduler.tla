---------------------------- MODULE CoreScheduler ----------------------------
(***************************************************************************)
(* The process-local scheduler of the Runtime: src/runtime/scheduler.      *)
(* CoreScheduler keeps ten maps; every operation of the class is one       *)
(* action.  The class is synchronous, so an operation is atomic, and an    *)
(* operation that throws changes nothing: a thrown error is a guard that   *)
(* is false, and so is the replay of a stored result by the ReplayCache.   *)
(*                                                                         *)
(* A map of the code is a function here, None at the keys the map does not *)
(* have.  Clocks are abstracted: callers stamp an operation no earlier     *)
(* than the Attempt it is about, a retry is due or it is not, and RetryDue *)
(* is the passing of its delay.                                            *)
(***************************************************************************)
EXTENDS Integers, FiniteSets

CONSTANTS
  Tasks,          \* Task ids
  AttemptIds,     \* Attempt ids; a caller draws a fresh one (randomUUID)
  Workspaces,     \* workspace identities, see WorkspacesAssumption
  Paths,          \* workspace paths
  WorkspaceIds,   \* workspace ids
  Repositories,   \* the rest of an identity: repository, branch and host
  Threads,        \* provider sessions (threadId)
  ClaudeThreads,  \* those of the claude-code provider
  Turns,          \* turnId
  TaskStates,     \* normalised tracker states
  Summaries,      \* what a TaskSummary can say, see SummariesAssumption
  Policies,       \* the CorePolicy values a workflow reload can bring
  MaxSequence,    \* bound: the largest Attempt sequence
  MaxRestarts,    \* bound: Runtime restarts
  None            \* the absent entry of a map, the null of an optional field

VARIABLES
  attempts,              \* attemptId -> AttemptSnapshot
  running,               \* taskId -> RunningAttempt
  claims,                \* taskId -> attemptId
  workspaceOwners,       \* path -> attemptId
  workspaces,            \* path -> WorkspaceReference
  activeTurns,           \* turnId -> attemptId
  activeThreads,         \* threadId -> attemptId
  pausedThreads,         \* threadId -> attemptId
  retries,               \* taskId -> RetryEntry
  pausedFailureRetries,  \* attemptId -> failure count kept over a pause
  policy,                \* the CorePolicy in force
  usedIds,               \* Attempt ids drawn so far (an id is never drawn twice)
  cleanup,               \* cleanupWorkspaceIds returned by the last operation
  restarts               \* Runtime restarts so far

ownership == <<claims, workspaceOwners, workspaces>>
sessions  == <<activeTurns, activeThreads, pausedThreads>>
vars == <<attempts, running, ownership, sessions, retries,
          pausedFailureRetries, policy, usedIds, cleanup, restarts>>

-----------------------------------------------------------------------------
(* Data *)

LiveStatuses == {"preparing_workspace", "launching_agent", "streaming_turn"}
FailureStatuses == {"failed"}  \* failed, timed_out and stalled are treated alike
TerminalStatuses ==
  FailureStatuses \cup {"succeeded", "interrupted", "canceled_by_reconciliation"}

AttemptRecords ==
  [taskId : Tasks, sequence : Nat,
   startReason : {"dispatch", "retry", "continuation"},
   status : LiveStatuses \cup {"paused"} \cup TerminalStatuses,
   controller : {"symphoneer", "codex"}, workspaceId : WorkspaceIds,
   activeTurn : Turns \cup {None}, thread : Threads \cup {None}]

RunningRecords ==
  [attemptId : AttemptIds, workspace : Workspaces, state : TaskStates,
   failureRetryAttempt : Nat]

KnownRecords == [ref : Workspaces, state : {"ready", "retained", "released"}]

RetryRecords ==
  [attempt : Nat, kind : {"failure", "continuation"}, automatic : BOOLEAN, due : BOOLEAN]

\* What a TaskSummary says to the scheduler: its state, and whether it is
\* dispatchable with every required label and no excluded one.
ASSUME SummariesAssumption == Summaries \subseteq [state : TaskStates, routable : BOOLEAN]

ASSUME WorkspacesAssumption ==
  Workspaces \subseteq
    [id : WorkspaceIds, taskId : Tasks, path : Paths, repository : Repositories]

ASSUME PoliciesAssumption ==
  Policies \subseteq
    [maxConcurrentAgents : Nat, maxPerState : [TaskStates -> Nat], maxAttempts : Nat,
     activeStates : SUBSET TaskStates, terminalStates : SUBSET TaskStates]

ASSUME SessionsAssumption == ClaudeThreads \subseteq Threads

ASSUME BoundsAssumption == MaxSequence \in Nat /\ MaxRestarts \in Nat

ASSUME FiniteAssumption == IsFiniteSet(AttemptIds)

ASSUME NoneAssumption ==
  /\ None \notin AttemptIds \cup Threads \cup Turns
  /\ None \notin AttemptRecords
  /\ None \notin RunningRecords
  /\ None \notin KnownRecords
  /\ None \notin RetryRecords
  /\ None \notin Summaries

-----------------------------------------------------------------------------
(* State functions *)

Exists(a) == attempts[a] # None
Finished(a) == Exists(a) /\ attempts[a].status \in TerminalStatuses
Paused(a) == Exists(a) /\ attempts[a].status = "paused"
AttemptsOf(t) == {a \in AttemptIds : Exists(a) /\ attempts[a].taskId = t}
Running(t) == running[t] # None
IsRunning(a) == /\ Exists(a)
                /\ Running(attempts[a].taskId)
                /\ running[attempts[a].taskId].attemptId = a

IsNextSequence(t, n) ==
  /\ \A a \in AttemptsOf(t) : attempts[a].sequence < n
  /\ n = 1 \/ \E a \in AttemptsOf(t) : attempts[a].sequence = n - 1

Terminal(summary) == summary.state \in policy.terminalStates

Eligible(summary) ==
  /\ summary.routable
  /\ summary.state \in policy.activeStates
  /\ ~Terminal(summary)

\* Bug: one Attempt too many.
HasCapacityBug(state) == Cardinality({t \in Tasks : Running(t)}) <= policy.maxConcurrentAgents

HasCapacity(state) ==
  /\ Cardinality({t \in Tasks : Running(t)}) < policy.maxConcurrentAgents
  /\ Cardinality({t \in Tasks : Running(t) /\ running[t].state = state})
       < policy.maxPerState[state]

\* Bug: the other paths are not looked at.
SameIdentityBug(w) == workspaces[w.path] # None => workspaces[w.path].ref = w

\* changedWorkspaceIdentity is false: the id is at no other path, the Task kept
\* its repository, and the path holds nothing else.
SameIdentity(w) ==
  \A p \in Paths : workspaces[p] # None =>
    LET known == workspaces[p].ref
    IN  /\ known.id = w.id => p = w.path
        /\ known.taskId = w.taskId => known.repository = w.repository
        /\ p = w.path => known = w

\* The entry finishAttempt queues for the next Attempt of the Task.
NextRetry(a, status, failures) ==
  [attempt |-> IF status = "succeeded" THEN 1 ELSE failures + 1,
   kind |-> IF status = "succeeded" THEN "continuation" ELSE "failure",
   automatic |-> attempts[a].sequence < policy.maxAttempts,
   due |-> FALSE]

\* What terminateRunning does to the maps when the running Attempts in A end.
RunningWithout(A) ==
  [t \in Tasks |-> IF Running(t) /\ running[t].attemptId \in A THEN None ELSE running[t]]

PathOf(p, A) == \E t \in Tasks : /\ Running(t)
                                 /\ running[t].attemptId \in A
                                 /\ running[t].workspace.path = p

OwnersWithout(A) == [p \in Paths |-> IF PathOf(p, A) THEN None ELSE workspaceOwners[p]]

WorkspacesRetaining(A) ==
  [p \in Paths |-> IF PathOf(p, A) THEN [workspaces[p] EXCEPT !.state = "retained"]
                                   ELSE workspaces[p]]

TurnsWithout(A) ==
  [tu \in Turns |-> IF \E a \in A : attempts[a].activeTurn = tu THEN None ELSE activeTurns[tu]]

ThreadsWithout(A) ==
  [th \in Threads |->
    IF \E a \in A : /\ attempts[a].thread = th
                    /\ attempts[a].activeTurn # None \/ activeThreads[th] = a
    THEN None ELSE activeThreads[th]]

\* What an Attempt gets back when it resumes; a restart has forgotten it.
KeptFailuresBug(a) == pausedFailureRetries[a]

KeptFailures(a) == IF pausedFailureRetries[a] = None THEN 0 ELSE pausedFailureRetries[a]

Ended(a, status) == [attempts[a] EXCEPT !.status = status, !.activeTurn = None]

-----------------------------------------------------------------------------
(* Operations *)

Init ==
  /\ attempts = [a \in AttemptIds |-> None]
  /\ running = [t \in Tasks |-> None]
  /\ claims = [t \in Tasks |-> None]
  /\ workspaceOwners = [p \in Paths |-> None]
  /\ workspaces = [p \in Paths |-> None]
  /\ activeTurns = [tu \in Turns |-> None]
  /\ activeThreads = [th \in Threads |-> None]
  /\ pausedThreads = [th \in Threads |-> None]
  /\ retries = [t \in Tasks |-> None]
  /\ pausedFailureRetries = [a \in AttemptIds |-> None]
  /\ policy \in Policies
  /\ usedIds = {}
  /\ cleanup = {}
  /\ restarts = 0

UpdatePolicy(p) ==
  /\ policy' = p
  /\ cleanup' = {}
  /\ UNCHANGED <<attempts, running, ownership, sessions, retries,
                 pausedFailureRetries, usedIds, restarts>>

\* dispatch/index.ts: the checks of reserve that end in an exception, and its result
\* "reserved".  The caller of reserve has made sure of the claim.
Reserve(a, t, w, summary, n, startReason, failures) ==
  /\ a \notin usedIds
  /\ w.taskId = t
  /\ IsNextSequence(t, n)
  /\ Eligible(summary)
  /\ HasCapacity(summary.state)
  /\ SameIdentity(w)
  /\ workspaceOwners[w.path] = None
  /\ attempts' = [attempts EXCEPT ![a] =
       [taskId |-> t, sequence |-> n, startReason |-> startReason,
        status |-> "preparing_workspace", controller |-> "symphoneer",
        workspaceId |-> w.id, activeTurn |-> None, thread |-> None]]
  /\ running' = [running EXCEPT ![t] =
       [attemptId |-> a, workspace |-> w, state |-> summary.state,
        failureRetryAttempt |-> failures]]
  /\ claims' = [claims EXCEPT ![t] = a]
  /\ workspaceOwners' = [workspaceOwners EXCEPT ![w.path] = a]
  /\ workspaces' = [workspaces EXCEPT ![w.path] = [ref |-> w, state |-> "ready"]]
  /\ retries' = [retries EXCEPT ![t] = None]
  /\ usedIds' = usedIds \cup {a}
  /\ cleanup' = {}
  /\ UNCHANGED <<sessions, pausedFailureRetries, policy, restarts>>

\* reserveAttempt: only a Task nobody claims is dispatched.
ReserveAttempt(a, t, w, summary, n) ==
  /\ claims[t] = None
  /\ Reserve(a, t, w, summary, n, "dispatch", 0)

\* Bug: the owner of the thread is not looked at.
SessionFreeBug(a, th, tu) == pausedThreads[th] = None /\ activeTurns[tu] = None

SessionFree(a, th, tu) ==
  /\ pausedThreads[th] = None
  /\ activeTurns[tu] = None
  /\ activeThreads[th] \in {None, a}

AttachTurn(a, th, tu) ==
  /\ IsRunning(a)
  /\ attempts[a].activeTurn # tu
  /\ attempts[a].thread \in {None, th}
  /\ SessionFree(a, th, tu)
  /\ attempts' = [attempts EXCEPT ![a].status = "streaming_turn",
                                  ![a].activeTurn = tu, ![a].thread = th]
  /\ activeTurns' = [u \in Turns |-> IF u = tu THEN a
                                     ELSE IF u = attempts[a].activeTurn THEN None
                                     ELSE activeTurns[u]]
  /\ activeThreads' = [activeThreads EXCEPT ![th] = a]
  /\ cleanup' = {}
  /\ UNCHANGED <<running, ownership, pausedThreads, retries, pausedFailureRetries,
                 policy, usedIds, restarts>>

PauseAttempt(a, controller) ==
  /\ IsRunning(a)
  /\ attempts[a].thread # None
  /\ controller \in {"codex", attempts[a].controller}
  /\ controller = "codex" => attempts[a].thread \notin ClaudeThreads
  /\ LET t == attempts[a].taskId
         th == attempts[a].thread
         path == running[t].workspace.path
         streaming == attempts[a].activeTurn # None
     IN  /\ attempts' = [attempts EXCEPT ![a].status = "paused", ![a].activeTurn = None,
                                         ![a].controller = controller]
         /\ pausedThreads' = [pausedThreads EXCEPT ![th] = a]
         /\ activeTurns' = TurnsWithout({a})
         /\ activeThreads' = IF streaming THEN [activeThreads EXCEPT ![th] = None]
                                          ELSE activeThreads
         /\ pausedFailureRetries' =
              [pausedFailureRetries EXCEPT ![a] = running[t].failureRetryAttempt]
         /\ workspaces' = [workspaces EXCEPT ![path].state = "retained"]
         /\ workspaceOwners' = [workspaceOwners EXCEPT ![path] = None]
         /\ running' = [running EXCEPT ![t] = None]
  /\ cleanup' = {}
  /\ UNCHANGED <<claims, retries, policy, usedIds, restarts>>

\* Bug: the claim of the deleted Attempt is left behind.
ClaimsWithoutBug(a) == claims

ClaimsWithout(a) == [claims EXCEPT ![attempts[a].taskId] = IF @ = a THEN None ELSE @]

DeleteAttempt(a) ==
  /\ Exists(a)
  /\ ~IsRunning(a)
  /\ LET t == attempts[a].taskId
         Purge(owner) == IF owner = a THEN None ELSE owner
     IN  /\ claims' = ClaimsWithout(a)
         /\ retries' = [retries EXCEPT ![t] = IF claims[t] = a THEN None ELSE @]
         /\ workspaceOwners' = [p \in Paths |-> Purge(workspaceOwners[p])]
         /\ activeTurns' = [tu \in Turns |-> Purge(activeTurns[tu])]
         /\ activeThreads' = [th \in Threads |-> Purge(activeThreads[th])]
         /\ pausedThreads' = [th \in Threads |-> Purge(pausedThreads[th])]
  /\ pausedFailureRetries' = [pausedFailureRetries EXCEPT ![a] = None]
  /\ attempts' = [attempts EXCEPT ![a] = None]
  /\ cleanup' = {}
  /\ UNCHANGED <<running, workspaces, policy, usedIds, restarts>>

ResumePausedAttempt(a, w, summary, takeControl) ==
  /\ Paused(a)
  /\ attempts[a].controller = "codex" => takeControl
  /\ w.id = attempts[a].workspaceId
  /\ workspaces[w.path] # None /\ workspaces[w.path].ref = w
  /\ Eligible(summary)
  /\ HasCapacity(summary.state)
  /\ LET t == attempts[a].taskId
         th == attempts[a].thread
     IN  /\ claims[t] = a
         /\ ~Running(t)
         /\ pausedThreads' = [pausedThreads EXCEPT ![th] = IF @ = a THEN None ELSE @]
         /\ activeThreads' = [activeThreads EXCEPT ![th] = a]
         /\ running' = [running EXCEPT ![t] =
              [attemptId |-> a, workspace |-> w, state |-> summary.state,
               failureRetryAttempt |-> KeptFailures(a)]]
  /\ attempts' = [attempts EXCEPT ![a].status = "launching_agent",
                                  ![a].controller = "symphoneer"]
  /\ pausedFailureRetries' = [pausedFailureRetries EXCEPT ![a] = None]
  /\ workspaces' = [workspaces EXCEPT ![w.path].state = "ready"]
  /\ workspaceOwners' = [workspaceOwners EXCEPT ![w.path] = a]
  /\ cleanup' = {}
  /\ UNCHANGED <<claims, activeTurns, retries, policy, usedIds, restarts>>

\* finishAttempt of a running Attempt: the claim stays with the queued retry,
\* except that a canceled Attempt gives its Task back.
FinishAttempt(a, status) ==
  /\ IsRunning(a)
  /\ LET t == attempts[a].taskId
         canceled == status = "canceled_by_reconciliation"
         retry == NextRetry(a, status, running[t].failureRetryAttempt)
     IN  /\ claims' = [claims EXCEPT ![t] = IF canceled THEN None ELSE a]
         /\ retries' = [retries EXCEPT ![t] = IF canceled THEN None ELSE retry]
  /\ attempts' = [attempts EXCEPT ![a] = Ended(a, status)]
  /\ running' = RunningWithout({a})
  /\ workspaceOwners' = OwnersWithout({a})
  /\ workspaces' = WorkspacesRetaining({a})
  /\ activeTurns' = TurnsWithout({a})
  /\ activeThreads' = ThreadsWithout({a})
  /\ cleanup' = {}
  /\ UNCHANGED <<pausedThreads, pausedFailureRetries, policy, usedIds, restarts>>

\* finishAttempt of an Attempt that has finished only refreshes its Workspace, and
\* only as long as no newer Attempt used that Workspace.
RefreshFinished(a, p) ==
  /\ Finished(a)
  /\ workspaces[p] # None /\ workspaces[p].ref.id = attempts[a].workspaceId
  /\ \A b \in AttemptIds : Exists(b) /\ attempts[b].workspaceId = attempts[a].workspaceId
       => attempts[b].sequence <= attempts[a].sequence
  /\ workspaceOwners[p] \in {None, a}
  /\ workspaces' = [workspaces EXCEPT ![p].state = "retained"]
  /\ cleanup' = {}
  /\ UNCHANGED <<attempts, running, claims, workspaceOwners, sessions, retries,
                 pausedFailureRetries, policy, usedIds, restarts>>

-----------------------------------------------------------------------------
(* Retries *)

RetryDue(t) ==
  /\ retries[t] # None
  /\ ~retries[t].due
  /\ retries' = [retries EXCEPT ![t].due = TRUE]
  /\ cleanup' = {}
  /\ UNCHANGED <<attempts, running, ownership, sessions, pausedFailureRetries,
                 policy, usedIds, restarts>>

\* transitionRetry goes on from here; a forced one comes with a clock that is not
\* before the retry is due (retryTransitionClock).
CanTransition(t, force) ==
  /\ retries[t] # None
  /\ retries[t].automatic \/ force
  /\ retries[t].due \/ force

\* Bug: the retained workspaces of every Task.
RetainedIdsBug(t) ==
  {workspaces[p].ref.id : p \in
    {q \in Paths : workspaces[q] # None /\ workspaces[q].state = "retained"}}

RetainedIds(t) ==
  {workspaces[p].ref.id : p \in
    {q \in Paths : /\ workspaces[q] # None
                   /\ workspaces[q].ref.taskId = t
                   /\ workspaces[q].state = "retained"}}

\* The Task is gone (None) or no longer eligible.
ReleaseRetry(t, force, seen) ==
  /\ CanTransition(t, force)
  /\ IF seen = None THEN TRUE ELSE ~Eligible(seen)
  /\ retries' = [retries EXCEPT ![t] = None]
  /\ claims' = [claims EXCEPT ![t] = None]
  /\ cleanup' = IF seen = None THEN {} ELSE IF Terminal(seen) THEN RetainedIds(t) ELSE {}
  /\ UNCHANGED <<attempts, running, workspaceOwners, workspaces, sessions,
                 pausedFailureRetries, policy, usedIds, restarts>>

ReserveRetry(a, t, w, summary, n, force) ==
  /\ CanTransition(t, force)
  /\ Reserve(a, t, w, summary, n,
             IF retries[t].kind = "continuation" THEN "continuation" ELSE "retry",
             IF retries[t].kind = "failure" THEN retries[t].attempt ELSE 0)

\* A transient rejection waits for one more delay.
RequeueRetry(t, w, summary, force) ==
  /\ CanTransition(t, force)
  /\ w.taskId = t
  /\ Eligible(summary)
  /\ SameIdentity(w)
  /\ ~HasCapacity(summary.state) \/ workspaceOwners[w.path] # None
  /\ retries' = [retries EXCEPT ![t].due = FALSE]
  /\ cleanup' = {}
  /\ UNCHANGED <<attempts, running, ownership, sessions, pausedFailureRetries,
                 policy, usedIds, restarts>>

-----------------------------------------------------------------------------
(* Reconciliation and restart *)

\* seen is what the Tracker said of every Task, None if it is missing.  A Task is
\* left alone while it is eligible, and an Attempt while Codex controls it.
Reconcile(seen) ==
  LET gone == {t \in Tasks : IF seen[t] = None THEN TRUE ELSE ~Eligible(seen[t])}
      over == {t \in gone : IF seen[t] = None THEN FALSE ELSE Terminal(seen[t])}
      ours(a) == attempts[a].controller # "codex"
      stopped == {a \in AttemptIds : IsRunning(a) /\ ours(a) /\ attempts[a].taskId \in gone}
      canceled == {a \in AttemptIds : Paused(a) /\ ours(a) /\ attempts[a].taskId \in gone}
      ended == stopped \cup canceled
      endedTasks == {attempts[a].taskId : a \in ended}
      released == {t \in gone \ endedTasks : retries[t] # None}
      stoppedRunning == RunningWithout(stopped)
  IN  /\ attempts' = [a \in AttemptIds |->
           IF a \in ended THEN Ended(a, "canceled_by_reconciliation") ELSE attempts[a]]
      /\ running' = [t \in Tasks |->
           IF stoppedRunning[t] = None \/ t \in gone THEN stoppedRunning[t]
           ELSE IF ours(running[t].attemptId) THEN [running[t] EXCEPT !.state = seen[t].state]
           ELSE running[t]]
      /\ claims' = [t \in Tasks |-> IF t \in endedTasks \cup released THEN None ELSE claims[t]]
      /\ retries' = [t \in Tasks |-> IF t \in endedTasks \cup released THEN None ELSE retries[t]]
      /\ workspaceOwners' = OwnersWithout(stopped)
      /\ workspaces' = WorkspacesRetaining(stopped)
      /\ activeTurns' = TurnsWithout(stopped)
      /\ activeThreads' = ThreadsWithout(stopped)
      /\ pausedThreads' = [th \in Threads |->
           IF \E a \in canceled : pausedThreads[th] = a /\ attempts[a].thread = th
           THEN None ELSE pausedThreads[th]]
      /\ pausedFailureRetries' = [a \in AttemptIds |->
           IF a \in canceled THEN None ELSE pausedFailureRetries[a]]
      /\ cleanup' = {attempts[a].workspaceId : a \in {b \in ended : attempts[b].taskId \in over}}
                      \cup UNION {RetainedIds(t) : t \in released \cap over}
      /\ UNCHANGED <<policy, usedIds, restarts>>

IsLatest(a, t) ==
  /\ a \in AttemptsOf(t)
  /\ \A b \in AttemptsOf(t) : attempts[b].sequence <= attempts[a].sequence

\* consecutiveFailures: the failed Attempts no other Attempt of the Task came after.
TrailingFailures(t) ==
  LET trailing == {a \in AttemptsOf(t) : \A b \in AttemptsOf(t) :
                     attempts[b].sequence >= attempts[a].sequence
                       => attempts[b].status \in FailureStatuses}
  IN  IF trailing = {} THEN 1 ELSE Cardinality(trailing)

Orphan(a) == Exists(a) /\ ~Finished(a) /\ attempts[a].controller = "symphoneer"

\* Bug: the controller is not looked at.
HeldBug(a) == FALSE

\* An Attempt handed to Codex keeps its Task over a restart.
Held(a) == attempts[a].controller = "codex"

\* The Runtime stops at any point and starts again.  RuntimeService.start interrupts
\* the unfinished Attempts Symphoneer controls, and restore rebuilds the maps from
\* the recorded Attempts.  latest is the newest Attempt of each Task; removed are
\* the workspaces an earlier cleanup has removed.
Restart(latest, removed) ==
  LET retained(id) == \E p \in Paths \ removed : /\ workspaces[p] # None
                                                 /\ workspaces[p].ref.id = id
                                                 /\ workspaces[p].state = "retained"
      queued(a) == /\ ~Held(a)
                   /\ attempts[a].status \in FailureStatuses \cup {"succeeded"}
                   /\ retained(attempts[a].workspaceId)
  IN  /\ restarts' = restarts + 1
      /\ \A t \in Tasks : IF AttemptsOf(t) = {} THEN latest[t] = None
                                                ELSE IsLatest(latest[t], t)
      /\ \A p \in removed : /\ workspaces[p] # None
                            /\ workspaces[p].state = "retained"
                            /\ claims[workspaces[p].ref.taskId] = None
      /\ attempts' = [a \in AttemptIds |->
           IF Orphan(a) THEN Ended(a, "interrupted") ELSE attempts[a]]
      /\ claims' = [t \in Tasks |->
           IF latest[t] = None THEN None
           ELSE IF Held(latest[t]) \/ queued(latest[t]) THEN latest[t] ELSE None]
      /\ retries' = [t \in Tasks |->
           IF latest[t] = None THEN None
           ELSE IF queued(latest[t])
                THEN NextRetry(latest[t], attempts[latest[t]].status, TrailingFailures(t) - 1)
                ELSE None]
      /\ workspaces' = [p \in Paths |->
           IF p \in removed THEN [workspaces[p] EXCEPT !.state = "released"] ELSE workspaces[p]]
      /\ running' = [t \in Tasks |-> None]
      /\ workspaceOwners' = [p \in Paths |-> None]
      /\ activeTurns' = [tu \in Turns |-> None]
      /\ activeThreads' = [th \in Threads |-> None]
      /\ pausedThreads' = [th \in Threads |-> None]
      /\ pausedFailureRetries' = [a \in AttemptIds |-> None]
      /\ cleanup' = {}
      /\ UNCHANGED <<policy, usedIds>>

-----------------------------------------------------------------------------

Dispatch ==
  \E a \in AttemptIds, t \in Tasks, w \in Workspaces, s \in Summaries, n \in 1..MaxSequence :
    ReserveAttempt(a, t, w, s, n)

Run ==
  \/ \E a \in AttemptIds, th \in Threads, tu \in Turns : AttachTurn(a, th, tu)
  \/ \E a \in AttemptIds, c \in {"symphoneer", "codex"} : PauseAttempt(a, c)
  \/ \E a \in AttemptIds, w \in Workspaces, s \in Summaries, f \in BOOLEAN :
       ResumePausedAttempt(a, w, s, f)
  \/ \E a \in AttemptIds, status \in TerminalStatuses \ {"interrupted"} :
       FinishAttempt(a, status)
  \/ \E a \in AttemptIds, p \in Paths : RefreshFinished(a, p)
  \/ \E a \in AttemptIds : DeleteAttempt(a)

Retry ==
  \/ \E t \in Tasks : RetryDue(t)
  \/ \E t \in Tasks, f \in BOOLEAN, s \in Summaries \cup {None} : ReleaseRetry(t, f, s)
  \/ \E t \in Tasks, w \in Workspaces, s \in Summaries, f \in BOOLEAN : RequeueRetry(t, w, s, f)
  \/ \E a \in AttemptIds, t \in Tasks, w \in Workspaces, s \in Summaries,
        n \in 1..MaxSequence, f \in BOOLEAN : ReserveRetry(a, t, w, s, n, f)

Reconciliation == \E seen \in [Tasks -> Summaries \cup {None}] : Reconcile(seen)

RuntimeRestart == restarts < MaxRestarts /\
  \E latest \in [Tasks -> AttemptIds \cup {None}], removed \in SUBSET Paths :
    Restart(latest, removed)

WorkflowReload == \E p \in Policies : UpdatePolicy(p)

Next ==
  \/ Dispatch
  \/ Run
  \/ Retry
  \/ Reconciliation
  \/ RuntimeRestart
  \/ WorkflowReload

Spec == Init /\ [][Next]_vars

-----------------------------------------------------------------------------
(* Properties *)

\* The maps hold entries of their types, whatever the callers ask for.
TypeOK ==
  /\ attempts \in [AttemptIds -> AttemptRecords \cup {None}]
  /\ running \in [Tasks -> RunningRecords \cup {None}]
  /\ claims \in [Tasks -> AttemptIds \cup {None}]
  /\ workspaceOwners \in [Paths -> AttemptIds \cup {None}]
  /\ workspaces \in [Paths -> KnownRecords \cup {None}]
  /\ activeTurns \in [Turns -> AttemptIds \cup {None}]
  /\ activeThreads \in [Threads -> AttemptIds \cup {None}]
  /\ pausedThreads \in [Threads -> AttemptIds \cup {None}]
  /\ retries \in [Tasks -> RetryRecords \cup {None}]
  /\ pausedFailureRetries \in [AttemptIds -> Nat \cup {None}]
  /\ policy \in Policies
  /\ usedIds \subseteq AttemptIds
  /\ cleanup \subseteq WorkspaceIds
  /\ restarts \in Nat

\* Work is claimed: an Attempt that has not finished holds the claim of its Task and is
\* either running or paused, and a running entry or a queued retry is always the
\* claimant's.  Otherwise a tick would dispatch the Task a second time.
WorkIsClaimed ==
  /\ \A a \in AttemptIds : Exists(a) /\ ~Finished(a) =>
       /\ claims[attempts[a].taskId] = a
       /\ Paused(a) <=> ~IsRunning(a)
  /\ \A t \in Tasks : Running(t) =>
       /\ claims[t] = running[t].attemptId
       /\ running[t].attemptId \in AttemptsOf(t)
       /\ attempts[running[t].attemptId].status \in LiveStatuses
  /\ \A t \in Tasks : retries[t] # None => claims[t] # None

\* A claim is live: the Attempt it names still exists and exactly one thing can give the
\* Task back (the running entry, the pause, or the queued retry).  A dangling claim
\* would keep the Task from ever being dispatched again.
ClaimsAreLive ==
  \A t \in Tasks : claims[t] # None =>
    /\ claims[t] \in AttemptsOf(t)
    /\ retries[t] # None <=> Finished(claims[t])

\* The claimant is the newest Attempt of its Task, and no two Attempts of a Task have
\* the same sequence number, whatever was deleted in between.
ClaimIsLatest ==
  \A t \in Tasks :
    /\ claims[t] # None => IsLatest(claims[t], t)
    /\ \A a, b \in AttemptsOf(t) : attempts[a].sequence = attempts[b].sequence => a = b

\* A workspace path is leased to exactly the Attempt that runs in it: the owner map, the
\* running entries and the known reference agree, so two Attempts never share a path.
LeasesAgree ==
  /\ \A t \in Tasks : Running(t) =>
       LET w == running[t].workspace
       IN  /\ workspaceOwners[w.path] = running[t].attemptId
           /\ workspaces[w.path] = [ref |-> w, state |-> "ready"]
           /\ w.taskId = t
           /\ attempts[running[t].attemptId].workspaceId = w.id
  /\ \A p \in Paths : workspaceOwners[p] # None =>
       \E t \in Tasks : /\ Running(t)
                        /\ running[t].attemptId = workspaceOwners[p]
                        /\ running[t].workspace.path = p

\* A workspace keeps its identity: one id is never known at two paths, and the workspace
\* an Attempt used stays known as one of the Attempt's own Task.
StableWorkspaces ==
  /\ \A a \in AttemptIds : Exists(a) =>
       \E p \in Paths : /\ workspaces[p] # None
                        /\ workspaces[p].ref.id = attempts[a].workspaceId
                        /\ workspaces[p].ref.taskId = attempts[a].taskId
                        /\ workspaces[p].ref.path = p
  /\ \A p, q \in Paths :
       workspaces[p] # None /\ workspaces[q] # None /\ workspaces[p].ref.id = workspaces[q].ref.id
         => p = q

\* What an operation hands over for removal is idle: nobody owns the workspace and its
\* Task is not claimed, so no Attempt loses the worktree it runs in or will resume in.
CleanupIsIdle ==
  \A p \in Paths : workspaces[p] # None => (workspaces[p].ref.id \in cleanup =>
    /\ workspaceOwners[p] = None
    /\ claims[workspaces[p].ref.taskId] = None)

\* A turn has one owner, the Attempt that streams it, and a session is never active for one
\* Attempt while another streams on it or keeps it over a pause.
SessionsExclusive ==
  /\ \A tu \in Turns, a \in AttemptIds :
       activeTurns[tu] = a <=> Exists(a) /\ attempts[a].activeTurn = tu
  /\ \A a \in AttemptIds : Exists(a) =>
       /\ attempts[a].activeTurn # None => activeThreads[attempts[a].thread] = a
       /\ Paused(a) => activeThreads[attempts[a].thread] \in {None, a}

\* An Attempt that starts or resumes finds room: the number of running Attempts and the
\* number in its tracker state stay within the policy in force.  (A policy change or a
\* tracker state change may leave more of them running; they are not stopped for it.)
StartsWithinLimits ==
  [][\A t \in Tasks : ~Running(t) /\ Running(t)' =>
       /\ Cardinality({u \in Tasks : Running(u)'}) <= policy.maxConcurrentAgents
       /\ Cardinality({u \in Tasks : Running(u)' /\ running'[u].state = running'[t].state})
            <= policy.maxPerState[running'[t].state]]_vars

\* What the scheduler promises its callers, see TaskLease: the life of every Attempt, and
\* the Task and workspace it holds until it is over.
Phase(a) == CASE a \notin usedIds -> "new"
              [] a \in usedIds /\ Paused(a) -> "paused"
              [] a \in usedIds /\ Exists(a) /\ ~Paused(a) /\ ~Finished(a) -> "running"
              [] OTHER -> "over"

Lease == INSTANCE TaskLease WITH
  phase <- [a \in AttemptIds |-> Phase(a)],
  job <- [a \in AttemptIds |->
           IF Phase(a) \in {"running", "paused"}
           THEN [task |-> attempts[a].taskId, workspace |-> attempts[a].workspaceId]
           ELSE None]

\* CoreScheduler implements TaskLease.
ImplementsTaskLease == Lease!Spec

\* The claims are right: unfinished work has the claim of its Task, no claim dangles, and the
\* claimant is the newest Attempt, through every order of pauses, retries, deletions and restarts.
ClaimsAgree == WorkIsClaimed /\ ClaimsAreLive /\ ClaimIsLatest

\* The workspaces are right: a path has one Attempt, an id one path, and the workspace of an
\* Attempt stays known, whatever references the callers bring and whatever is deleted.
WorkspacesAgree == LeasesAgree /\ StableWorkspaces

=============================================================================
