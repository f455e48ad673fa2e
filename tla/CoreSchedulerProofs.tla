------------------------ MODULE CoreSchedulerProofs ------------------------
(***************************************************************************)
(* Proofs about CoreScheduler for every value of its constants: that its   *)
(* maps agree, what it promises of the things Attempts share (places,      *)
(* workspaces to be removed, sessions of providers), and that it           *)
(* implements TaskLease: the initial state maps to the initial state of    *)
(* the lease, and every operation to a step of the lease or to none.       *)
(***************************************************************************)
EXTENDS CoreScheduler, FiniteSetTheorems, TLAPS

USE DEF LiveStatuses, FailureStatuses, TerminalStatuses

-----------------------------------------------------------------------------
(* Records *)

LEMMA AttemptUpdate ==
  ASSUME NEW r \in AttemptRecords,
         NEW status \in LiveStatuses \cup {"paused"} \cup TerminalStatuses,
         NEW turn \in Turns \cup {None}, NEW thread \in Threads \cup {None},
         NEW controller \in {"symphoneer", "codex"}
  PROVE  /\ [r EXCEPT !.status = status] \in AttemptRecords
         /\ [r EXCEPT !.activeTurn = turn] \in AttemptRecords
         /\ [r EXCEPT !.thread = thread] \in AttemptRecords
         /\ [r EXCEPT !.controller = controller] \in AttemptRecords
<1>1. [r EXCEPT !.status = status] \in AttemptRecords
  BY DEF AttemptRecords
<1>2. [r EXCEPT !.activeTurn = turn] \in AttemptRecords
  BY DEF AttemptRecords
<1>3. [r EXCEPT !.thread = thread] \in AttemptRecords
  BY DEF AttemptRecords
<1>4. [r EXCEPT !.controller = controller] \in AttemptRecords
  BY DEF AttemptRecords
<1> QED
  BY <1>1, <1>2, <1>3, <1>4

LEMMA KnownUpdate ==
  ASSUME NEW r \in KnownRecords, NEW state \in {"ready", "retained", "released"}
  PROVE  [r EXCEPT !.state = state] \in KnownRecords
BY DEF KnownRecords

LEMMA TypeInit == Init => TypeOK
BY DEF Init, TypeOK

LEMMA TypeReserve ==
  ASSUME TypeOK, NEW a \in AttemptIds, NEW t \in Tasks, NEW w \in Workspaces,
         NEW s \in Summaries, NEW n \in 1..MaxSequence,
         NEW reason \in {"dispatch", "retry", "continuation"}, NEW failures \in Nat,
         Reserve(a, t, w, s, n, reason, failures)
  PROVE  TypeOK'
<1>1. w.id \in WorkspaceIds /\ w.path \in Paths
  BY WorkspacesAssumption
<1>2. s.state \in TaskStates
  BY SummariesAssumption
<1>3. n \in Nat
  BY BoundsAssumption
<1>4. attempts' \in [AttemptIds -> AttemptRecords \cup {None}]
  BY <1>1, <1>3 DEF TypeOK, Reserve, AttemptRecords
<1>5. running' \in [Tasks -> RunningRecords \cup {None}]
  BY <1>2 DEF TypeOK, Reserve, RunningRecords
<1>6. workspaces' \in [Paths -> KnownRecords \cup {None}]
  BY <1>1 DEF TypeOK, Reserve, KnownRecords
<1> QED
  BY <1>1, <1>4, <1>5, <1>6 DEF TypeOK, Reserve, sessions

LEMMA TypeAttachTurn ==
  ASSUME TypeOK, NEW a \in AttemptIds, NEW th \in Threads, NEW tu \in Turns,
         AttachTurn(a, th, tu)
  PROVE  TypeOK'
<1>1. attempts[a] \in AttemptRecords
  BY DEF TypeOK, AttachTurn, IsRunning, Exists
<1>2. attempts' \in [AttemptIds -> AttemptRecords \cup {None}]
  BY <1>1, AttemptUpdate DEF TypeOK, AttachTurn
<1> QED
  BY <1>2 DEF TypeOK, AttachTurn, ownership

\* A running Attempt is in the map of Attempts, and its workspace is known.
LEMMA RunningFacts ==
  ASSUME TypeOK, LeasesAgree, NEW t \in Tasks, Running(t)
  PROVE  /\ running[t] \in RunningRecords
         /\ running[t].attemptId \in AttemptIds
         /\ running[t].workspace \in Workspaces
         /\ running[t].workspace.path \in Paths
         /\ running[t].failureRetryAttempt \in Nat
         /\ workspaces[running[t].workspace.path] \in KnownRecords
<1>1. running[t] \in RunningRecords
  BY DEF TypeOK, Running
<1>2. /\ running[t].attemptId \in AttemptIds /\ running[t].workspace \in Workspaces
      /\ running[t].failureRetryAttempt \in Nat
  BY <1>1 DEF RunningRecords
<1>3. running[t].workspace.path \in Paths
  BY <1>2, WorkspacesAssumption
<1>4. workspaces[running[t].workspace.path] = [ref |-> running[t].workspace, state |-> "ready"]
  BY DEF LeasesAgree
<1> QED
  BY <1>1, <1>2, <1>3, <1>4 DEF KnownRecords

LEMMA AttemptFacts ==
  ASSUME TypeOK, NEW a \in AttemptIds, Exists(a)
  PROVE  /\ attempts[a] \in AttemptRecords
         /\ attempts[a].taskId \in Tasks
         /\ attempts[a].workspaceId \in WorkspaceIds
         /\ attempts[a].activeTurn \in Turns \cup {None}
         /\ attempts[a].thread \in Threads \cup {None}
         /\ attempts[a].sequence \in Nat
<1>1. attempts[a] \in AttemptRecords
  BY DEF TypeOK, Exists
<1> QED
  BY <1>1 DEF AttemptRecords

\* The maps stay maps when the Attempts in A stop running.
LEMMA TypeTerminate ==
  ASSUME TypeOK, LeasesAgree, NEW A \in SUBSET AttemptIds
  PROVE  /\ RunningWithout(A) \in [Tasks -> RunningRecords \cup {None}]
         /\ OwnersWithout(A) \in [Paths -> AttemptIds \cup {None}]
         /\ WorkspacesRetaining(A) \in [Paths -> KnownRecords \cup {None}]
         /\ TurnsWithout(A) \in [Turns -> AttemptIds \cup {None}]
         /\ ThreadsWithout(A) \in [Threads -> AttemptIds \cup {None}]
<1>1. RunningWithout(A) \in [Tasks -> RunningRecords \cup {None}]
  BY DEF TypeOK, RunningWithout
<1>2. OwnersWithout(A) \in [Paths -> AttemptIds \cup {None}]
  BY DEF TypeOK, OwnersWithout
<1>3. ASSUME NEW p \in Paths, PathOf(p, A)
      PROVE  [workspaces[p] EXCEPT !.state = "retained"] \in KnownRecords
  BY <1>3, RunningFacts, KnownUpdate DEF PathOf
<1>4. WorkspacesRetaining(A) \in [Paths -> KnownRecords \cup {None}]
  BY <1>3 DEF TypeOK, WorkspacesRetaining
<1>5. TurnsWithout(A) \in [Turns -> AttemptIds \cup {None}]
  BY DEF TypeOK, TurnsWithout
<1>6. ThreadsWithout(A) \in [Threads -> AttemptIds \cup {None}]
  BY DEF TypeOK, ThreadsWithout
<1> QED
  BY <1>1, <1>2, <1>4, <1>5, <1>6

LEMMA TypePauseAttempt ==
  ASSUME TypeOK, LeasesAgree, NEW a \in AttemptIds, NEW c \in {"symphoneer", "codex"},
         PauseAttempt(a, c)
  PROVE  TypeOK'
<1> DEFINE t == attempts[a].taskId
           th == attempts[a].thread
           path == running[t].workspace.path
<1>1. Exists(a) /\ Running(t) /\ th \in Threads
  BY AttemptFacts DEF PauseAttempt, IsRunning
<1>2. attempts[a] \in AttemptRecords /\ t \in Tasks
  BY <1>1, AttemptFacts
<1>3. /\ path \in Paths /\ running[t].failureRetryAttempt \in Nat
      /\ workspaces[path] \in KnownRecords
  BY <1>1, <1>2, RunningFacts
<1>4. attempts' \in [AttemptIds -> AttemptRecords \cup {None}]
  BY <1>2, AttemptUpdate DEF TypeOK, PauseAttempt
<1>5. workspaces' \in [Paths -> KnownRecords \cup {None}]
  BY <1>3, KnownUpdate DEF TypeOK, PauseAttempt
<1>6. activeTurns' \in [Turns -> AttemptIds \cup {None}]
  BY TypeTerminate DEF PauseAttempt
<1>7. /\ running' \in [Tasks -> RunningRecords \cup {None}]
      /\ workspaceOwners' \in [Paths -> AttemptIds \cup {None}]
      /\ activeThreads' \in [Threads -> AttemptIds \cup {None}]
      /\ pausedThreads' \in [Threads -> AttemptIds \cup {None}]
      /\ pausedFailureRetries' \in [AttemptIds -> Nat \cup {None}]
  BY <1>1, <1>2, <1>3 DEF TypeOK, PauseAttempt
<1> QED
  BY <1>4, <1>5, <1>6, <1>7 DEF TypeOK, PauseAttempt

LEMMA TypeDeleteAttempt ==
  ASSUME TypeOK, NEW a \in AttemptIds, DeleteAttempt(a)
  PROVE  TypeOK'
<1>1. attempts[a].taskId \in Tasks
  BY AttemptFacts DEF DeleteAttempt
<1>2. claims' \in [Tasks -> AttemptIds \cup {None}]
  BY <1>1 DEF TypeOK, DeleteAttempt, ClaimsWithout
<1>3. retries' \in [Tasks -> RetryRecords \cup {None}]
  BY <1>1 DEF TypeOK, DeleteAttempt
<1> QED
  BY <1>1, <1>2, <1>3 DEF TypeOK, DeleteAttempt

LEMMA TypeResumePausedAttempt ==
  ASSUME TypeOK, NEW a \in AttemptIds, NEW w \in Workspaces, NEW s \in Summaries,
         NEW f \in BOOLEAN, ResumePausedAttempt(a, w, s, f)
  PROVE  TypeOK'
<1>1. /\ attempts[a] \in AttemptRecords /\ attempts[a].taskId \in Tasks
      /\ attempts[a].thread \in Threads \cup {None}
  BY AttemptFacts DEF ResumePausedAttempt, Paused
<1>2. w.path \in Paths /\ s.state \in TaskStates
  BY WorkspacesAssumption, SummariesAssumption
<1>3. workspaces[w.path] \in KnownRecords
  BY <1>2 DEF TypeOK, ResumePausedAttempt
<1>4. attempts' \in [AttemptIds -> AttemptRecords \cup {None}]
  BY <1>1, AttemptUpdate DEF TypeOK, ResumePausedAttempt
<1>5. workspaces' \in [Paths -> KnownRecords \cup {None}]
  BY <1>2, <1>3, KnownUpdate DEF TypeOK, ResumePausedAttempt
<1>6. KeptFailures(a) \in Nat
  BY DEF TypeOK, KeptFailures
<1>7. running' \in [Tasks -> RunningRecords \cup {None}]
  BY <1>1, <1>2, <1>6 DEF TypeOK, ResumePausedAttempt, RunningRecords
<1>8. /\ activeThreads' \in [Threads -> AttemptIds \cup {None}]
      /\ pausedThreads' \in [Threads -> AttemptIds \cup {None}]
      /\ pausedFailureRetries' \in [AttemptIds -> Nat \cup {None}]
      /\ workspaceOwners' \in [Paths -> AttemptIds \cup {None}]
  BY <1>1, <1>2 DEF TypeOK, ResumePausedAttempt
<1> QED
  BY <1>4, <1>5, <1>7, <1>8 DEF TypeOK, ResumePausedAttempt

LEMMA RetryType ==
  ASSUME NEW a, NEW status, NEW failures \in Int, failures + 1 \in Nat
  PROVE  NextRetry(a, status, failures) \in RetryRecords
BY PoliciesAssumption DEF NextRetry, RetryRecords

LEMMA TypeFinishAttempt ==
  ASSUME TypeOK, LeasesAgree, NEW a \in AttemptIds, NEW status \in TerminalStatuses,
         FinishAttempt(a, status)
  PROVE  TypeOK'
<1> DEFINE t == attempts[a].taskId
<1>1. attempts[a] \in AttemptRecords /\ t \in Tasks /\ Running(t)
  BY AttemptFacts DEF FinishAttempt, IsRunning
<1>2. running[t].failureRetryAttempt \in Nat
  BY <1>1, RunningFacts
<1>3. NextRetry(a, status, running[t].failureRetryAttempt) \in RetryRecords
  BY <1>2, RetryType
<1>4. attempts' \in [AttemptIds -> AttemptRecords \cup {None}]
  BY <1>1, AttemptUpdate DEF TypeOK, FinishAttempt, Ended
<1>5. /\ claims' \in [Tasks -> AttemptIds \cup {None}]
      /\ retries' \in [Tasks -> RetryRecords \cup {None}]
  BY <1>1, <1>3 DEF TypeOK, FinishAttempt
<1> QED
  BY <1>4, <1>5, TypeTerminate DEF TypeOK, FinishAttempt

LEMMA TypeRefreshFinished ==
  ASSUME TypeOK, NEW a \in AttemptIds, NEW p \in Paths, RefreshFinished(a, p)
  PROVE  TypeOK'
<1>1. workspaces' \in [Paths -> KnownRecords \cup {None}]
  BY KnownUpdate DEF TypeOK, RefreshFinished
<1> QED
  BY <1>1 DEF TypeOK, RefreshFinished, sessions

LEMMA TypeRetryDue ==
  ASSUME TypeOK, NEW t \in Tasks, RetryDue(t)
  PROVE  TypeOK'
<1>1. retries' \in [Tasks -> RetryRecords \cup {None}]
  BY DEF TypeOK, RetryDue, RetryRecords
<1> QED
  BY <1>1 DEF TypeOK, RetryDue, sessions, ownership

LEMMA TypeRequeueRetry ==
  ASSUME TypeOK, NEW t \in Tasks, NEW w \in Workspaces, NEW s \in Summaries,
         NEW f \in BOOLEAN, RequeueRetry(t, w, s, f)
  PROVE  TypeOK'
<1>1. retries[t] \in RetryRecords
  BY DEF TypeOK, RequeueRetry, CanTransition
<1>2. [retries[t] EXCEPT !.due = FALSE] \in RetryRecords
  BY <1>1 DEF RetryRecords
<1>3. retries' \in [Tasks -> RetryRecords \cup {None}]
  BY <1>2 DEF TypeOK, RequeueRetry
<1> QED
  BY <1>3 DEF TypeOK, RequeueRetry, sessions, ownership

LEMMA RetainedIdsType ==
  ASSUME TypeOK, NEW t \in Tasks
  PROVE  RetainedIds(t) \subseteq WorkspaceIds
<1>1. ASSUME NEW p \in Paths, workspaces[p] # None
      PROVE  workspaces[p].ref.id \in WorkspaceIds
  BY <1>1, WorkspacesAssumption DEF TypeOK, KnownRecords
<1> QED
  BY <1>1 DEF RetainedIds

LEMMA TypeReleaseRetry ==
  ASSUME TypeOK, NEW t \in Tasks, NEW f \in BOOLEAN, NEW s \in Summaries \cup {None},
         ReleaseRetry(t, f, s)
  PROVE  TypeOK'
BY RetainedIdsType DEF TypeOK, ReleaseRetry, sessions

LEMMA RetryReserve ==
  ASSUME TypeOK, NEW a \in AttemptIds, NEW t \in Tasks, NEW w \in Workspaces,
         NEW s \in Summaries, NEW n \in 1..MaxSequence, NEW f \in BOOLEAN,
         ReserveRetry(a, t, w, s, n, f)
  PROVE  \E reason \in {"retry", "continuation"}, failures \in Nat :
           Reserve(a, t, w, s, n, reason, failures)
<1>1. retries[t] \in RetryRecords
  BY DEF TypeOK, ReserveRetry, CanTransition
<1>2. retries[t].attempt \in Nat
  BY <1>1 DEF RetryRecords
<1> QED
  BY <1>2 DEF ReserveRetry

LEMMA TypeReconcile ==
  ASSUME TypeOK, LeasesAgree, NEW seen \in [Tasks -> Summaries \cup {None}], Reconcile(seen)
  PROVE  TypeOK'
<1> DEFINE gone == {t \in Tasks : IF seen[t] = None THEN TRUE ELSE ~Eligible(seen[t])}
           over == {t \in gone : IF seen[t] = None THEN FALSE ELSE Terminal(seen[t])}
           ours(a) == attempts[a].controller # "codex"
           stopped == {a \in AttemptIds : IsRunning(a) /\ ours(a) /\ attempts[a].taskId \in gone}
           canceled == {a \in AttemptIds : Paused(a) /\ ours(a) /\ attempts[a].taskId \in gone}
           ended == stopped \cup canceled
           endedTasks == {attempts[a].taskId : a \in ended}
           released == {t \in gone \ endedTasks : retries[t] # None}
           canceledStatus == "canceled_by_reconciliation"
<1>1. \A a \in ended : a \in AttemptIds /\ Exists(a)
  BY DEF IsRunning, Paused
<1>2. \A a \in ended : Ended(a, "canceled_by_reconciliation") \in AttemptRecords
  <2> TAKE a \in ended
  <2>1. attempts[a] \in AttemptRecords
    BY <1>1, AttemptFacts
  <2> QED
    BY <2>1, AttemptUpdate DEF Ended
<1>3. attempts' \in [AttemptIds -> AttemptRecords \cup {None}]
  <2>1. attempts' = [a \in AttemptIds |->
           IF a \in ended THEN Ended(a, "canceled_by_reconciliation") ELSE attempts[a]]
    BY DEF Reconcile
  <2> QED
    BY <2>1, <1>2 DEF TypeOK
<1>4. RunningWithout(stopped) \in [Tasks -> RunningRecords \cup {None}]
  BY TypeTerminate
<1>5. running' \in [Tasks -> RunningRecords \cup {None}]
  <2>1. running' = [t \in Tasks |->
           IF RunningWithout(stopped)[t] = None \/ t \in gone THEN RunningWithout(stopped)[t]
           ELSE IF ours(running[t].attemptId) THEN [running[t] EXCEPT !.state = seen[t].state]
           ELSE running[t]]
    BY DEF Reconcile
  <2>2. ASSUME NEW t \in Tasks, RunningWithout(stopped)[t] # None, t \notin gone
        PROVE  /\ running[t] \in RunningRecords
               /\ [running[t] EXCEPT !.state = seen[t].state] \in RunningRecords
    <3>1. running[t] \in RunningRecords
      BY <2>2 DEF RunningWithout, TypeOK
    <3>2. seen[t].state \in TaskStates
      BY <2>2, SummariesAssumption
    <3> QED
      BY <3>1, <3>2 DEF RunningRecords
  <2> QED
    BY <2>1, <2>2, <1>4
<1>6. /\ claims' \in [Tasks -> AttemptIds \cup {None}]
      /\ retries' \in [Tasks -> RetryRecords \cup {None}]
      /\ pausedThreads' \in [Threads -> AttemptIds \cup {None}]
      /\ pausedFailureRetries' \in [AttemptIds -> Nat \cup {None}]
  BY DEF TypeOK, Reconcile
<1>7. /\ workspaceOwners' \in [Paths -> AttemptIds \cup {None}]
      /\ workspaces' \in [Paths -> KnownRecords \cup {None}]
      /\ activeTurns' \in [Turns -> AttemptIds \cup {None}]
      /\ activeThreads' \in [Threads -> AttemptIds \cup {None}]
  <2>1. /\ workspaceOwners' = OwnersWithout(stopped)
        /\ workspaces' = WorkspacesRetaining(stopped)
        /\ activeTurns' = TurnsWithout(stopped)
        /\ activeThreads' = ThreadsWithout(stopped)
    BY DEF Reconcile
  <2> QED
    BY <2>1, TypeTerminate
<1>8. cleanup' \subseteq WorkspaceIds
  <2>1. cleanup' = {attempts[a].workspaceId : a \in {b \in ended : attempts[b].taskId \in over}}
                      \cup UNION {RetainedIds(t) : t \in released \cap over}
    BY DEF Reconcile
  <2>2. \A a \in ended : attempts[a].workspaceId \in WorkspaceIds
    BY <1>1, AttemptFacts
  <2>3. \A t \in released \cap over : RetainedIds(t) \subseteq WorkspaceIds
    BY RetainedIdsType
  <2> QED
    BY <2>1, <2>2, <2>3
<1> QED
  BY <1>3, <1>5, <1>6, <1>7, <1>8 DEF TypeOK, Reconcile

LEMMA TrailingFailuresType ==
  ASSUME NEW t \in Tasks
  PROVE  TrailingFailures(t) \in Nat
<1> DEFINE trailing == {a \in AttemptsOf(t) : \A b \in AttemptsOf(t) :
                          attempts[b].sequence >= attempts[a].sequence
                            => attempts[b].status \in FailureStatuses}
<1>1. IsFiniteSet(trailing)
  BY FiniteAssumption, FS_Subset DEF AttemptsOf
<1>2. Cardinality(trailing) \in Nat
  BY <1>1, FS_CardinalityType
<1> QED
  BY <1>2 DEF TrailingFailures

LEMMA TypeRestart ==
  ASSUME TypeOK, NEW latest \in [Tasks -> AttemptIds \cup {None}], NEW removed \in SUBSET Paths,
         Restart(latest, removed)
  PROVE  TypeOK'
<1>1. attempts' \in [AttemptIds -> AttemptRecords \cup {None}]
  <2>1. \A a \in AttemptIds : Orphan(a) => Ended(a, "interrupted") \in AttemptRecords
    <3> SUFFICES ASSUME NEW a \in AttemptIds, Orphan(a)
                 PROVE  Ended(a, "interrupted") \in AttemptRecords
      OBVIOUS
    <3>1. attempts[a] \in AttemptRecords
      BY AttemptFacts DEF Orphan
    <3> QED
      BY <3>1, AttemptUpdate DEF Ended
  <2> QED
    BY <2>1 DEF TypeOK, Restart
<1>2. workspaces' \in [Paths -> KnownRecords \cup {None}]
  <2>1. \A p \in removed : [workspaces[p] EXCEPT !.state = "released"] \in KnownRecords
    <3> SUFFICES ASSUME NEW p \in removed
                 PROVE  [workspaces[p] EXCEPT !.state = "released"] \in KnownRecords
      OBVIOUS
    <3>1. workspaces[p] \in KnownRecords
      BY DEF TypeOK, Restart
    <3> QED
      BY <3>1, KnownUpdate
  <2> QED
    BY <2>1 DEF TypeOK, Restart
<1>3. retries' \in [Tasks -> RetryRecords \cup {None}]
  <2>1. \A t \in Tasks : NextRetry(latest[t], attempts[latest[t]].status, TrailingFailures(t) - 1)
                           \in RetryRecords
    BY TrailingFailuresType, RetryType
  <2> QED
    BY <2>1 DEF Restart
<1>4. claims' \in [Tasks -> AttemptIds \cup {None}]
  BY DEF Restart
<1> QED
  BY <1>1, <1>2, <1>3, <1>4 DEF TypeOK, Restart

-----------------------------------------------------------------------------
(* The inductive invariant *)

\* A drawn Attempt id is never drawn again.
IdsAreDrawn == \A a \in AttemptIds : Exists(a) => a \in usedIds

\* Only a paused Attempt is in the hands of Codex.
CodexIsPaused ==
  \A a \in AttemptIds : Exists(a) /\ attempts[a].controller = "codex" => Paused(a)

IInv == /\ TypeOK
        /\ IdsAreDrawn
        /\ CodexIsPaused
        /\ WorkIsClaimed
        /\ ClaimsAreLive
        /\ ClaimIsLatest
        /\ LeasesAgree
        /\ StableWorkspaces

LEMMA InvInit == Init => IInv
<1> SUFFICES ASSUME Init PROVE IInv
  OBVIOUS
<1>1. TypeOK
  BY TypeInit
<1> QED
  BY <1>1 DEF Init, IInv, IdsAreDrawn, CodexIsPaused, WorkIsClaimed, ClaimsAreLive,
              ClaimIsLatest, LeasesAgree, StableWorkspaces, Exists, Running, AttemptsOf

\* Nothing of a Task that is not claimed, or whose claim waits for a retry, is unfinished.
LEMMA FreeTask ==
  ASSUME IInv, NEW t \in Tasks, claims[t] = None \/ retries[t] # None
  PROVE  /\ ~Running(t)
         /\ \A b \in AttemptIds : Exists(b) /\ attempts[b].taskId = t => Finished(b)
<1>1. ASSUME NEW b \in AttemptIds, Exists(b), attempts[b].taskId = t, ~Finished(b)
      PROVE  FALSE
  <2>1. claims[t] = b
    BY <1>1 DEF IInv, WorkIsClaimed
  <2>2. claims[t] # None
    BY <2>1, NoneAssumption
  <2>3. retries[t] # None
    BY <2>2
  <2>4. Finished(claims[t])
    BY <2>2, <2>3 DEF IInv, ClaimsAreLive
  <2> QED
    BY <1>1, <2>1, <2>4
<1>2. ASSUME Running(t) PROVE FALSE
  <2>1. /\ running[t].attemptId \in AttemptsOf(t)
        /\ attempts[running[t].attemptId].status \in LiveStatuses
    BY <1>2 DEF IInv, WorkIsClaimed
  <2>2. Finished(running[t].attemptId)
    BY <2>1, <1>1 DEF AttemptsOf
  <2> QED
    BY <2>1, <2>2 DEF Finished
<1> QED
  BY <1>1, <1>2

\* A running entry names an Attempt of its Task that runs.
LEMMA RunningAttempt ==
  ASSUME IInv, NEW t \in Tasks, Running(t)
  PROVE  /\ running[t].attemptId \in AttemptIds
         /\ Exists(running[t].attemptId)
         /\ attempts[running[t].attemptId].taskId = t
         /\ attempts[running[t].attemptId].status \in LiveStatuses
         /\ claims[t] = running[t].attemptId
BY DEF IInv, WorkIsClaimed, AttemptsOf

\* Two running Tasks never share a path.
LEMMA PathsAreExclusive ==
  ASSUME IInv, NEW t \in Tasks, NEW u \in Tasks, Running(t), Running(u),
         running[t].workspace.path = running[u].workspace.path
  PROVE  t = u
<1>1. /\ workspaceOwners[running[t].workspace.path] = running[t].attemptId
      /\ workspaceOwners[running[u].workspace.path] = running[u].attemptId
  BY DEF IInv, LeasesAgree
<1>2. running[t].attemptId = running[u].attemptId
  BY <1>1
<1> QED
  BY <1>2, RunningAttempt

LEMMA InvReserve ==
  ASSUME IInv, NEW a \in AttemptIds, NEW t \in Tasks, NEW w \in Workspaces,
         NEW s \in Summaries, NEW n \in 1..MaxSequence,
         NEW reason \in {"dispatch", "retry", "continuation"}, NEW failures \in Nat,
         claims[t] = None \/ retries[t] # None,
         Reserve(a, t, w, s, n, reason, failures)
  PROVE  IInv'
<1>1. TypeOK'
  BY TypeReserve DEF IInv
<1>2. /\ ~Running(t) /\ ~Exists(a)
      /\ \A b \in AttemptIds : Exists(b) /\ attempts[b].taskId = t => Finished(b)
  BY FreeTask DEF IInv, Reserve, IdsAreDrawn
<1>3. w.path \in Paths /\ w.taskId = t /\ w.id \in WorkspaceIds
  BY WorkspacesAssumption DEF Reserve
<1> DEFINE new == [taskId |-> t, sequence |-> n, startReason |-> reason,
                   status |-> "preparing_workspace", controller |-> "symphoneer",
                   workspaceId |-> w.id, activeTurn |-> None, thread |-> None]
           entry == [attemptId |-> a, workspace |-> w, state |-> s.state,
                     failureRetryAttempt |-> failures]
<1>4. /\ attempts'[a] = new /\ attempts'[a] # None
      /\ \A b \in AttemptIds : b # a => attempts'[b] = attempts[b]
  <2>1. attempts'[a] = new /\ \A b \in AttemptIds : b # a => attempts'[b] = attempts[b]
    BY DEF IInv, TypeOK, Reserve
  <2>2. new \in AttemptRecords
    BY <1>3, BoundsAssumption DEF AttemptRecords
  <2> QED
    BY <2>1, <2>2, NoneAssumption
<1>5. /\ running'[t] = entry /\ running'[t] # None
      /\ \A u \in Tasks : u # t => running'[u] = running[u]
  <2>1. running'[t] = entry /\ \A u \in Tasks : u # t => running'[u] = running[u]
    BY DEF IInv, TypeOK, Reserve
  <2>2. entry \in RunningRecords
    BY SummariesAssumption DEF RunningRecords
  <2> QED
    BY <2>1, <2>2, NoneAssumption
<1>6. /\ claims'[t] = a /\ \A u \in Tasks : u # t => claims'[u] = claims[u]
      /\ retries'[t] = None /\ \A u \in Tasks : u # t => retries'[u] = retries[u]
      /\ a # None
  BY NoneAssumption DEF IInv, TypeOK, Reserve
<1>7. /\ workspaceOwners'[w.path] = a
      /\ \A p \in Paths : p # w.path => workspaceOwners'[p] = workspaceOwners[p]
      /\ workspaces'[w.path] = [ref |-> w, state |-> "ready"]
      /\ \A p \in Paths : p # w.path => workspaces'[p] = workspaces[p]
      /\ workspaceOwners[w.path] = None
  BY <1>3 DEF IInv, TypeOK, Reserve
<1>8. workspaces'[w.path] # None
  BY <1>3, <1>7, NoneAssumption DEF KnownRecords
<1>9. IdsAreDrawn'
  BY <1>4 DEF IInv, IdsAreDrawn, Exists, Reserve
<1>10. \A u \in Tasks : u # t /\ Running(u) =>
         /\ running[u].attemptId \in AttemptIds \ {a}
         /\ running[u].workspace.path \in Paths \ {w.path}
  <2> TAKE u \in Tasks
  <2> HAVE u # t /\ Running(u)
  <2>1. running[u].attemptId \in AttemptIds /\ running[u].attemptId # a
    BY <1>2, RunningAttempt
  <2>2. running[u].workspace.path \in Paths
    BY RunningFacts DEF IInv
  <2>3. workspaceOwners[running[u].workspace.path] = running[u].attemptId
    BY DEF IInv, LeasesAgree
  <2> QED
    BY <2>1, <2>2, <2>3, <1>7, NoneAssumption
<1>11. WorkIsClaimed'
  <2>1. ASSUME NEW b \in AttemptIds, Exists(b)', ~Finished(b)'
        PROVE  claims'[attempts'[b].taskId] = b /\ (Paused(b)' <=> ~IsRunning(b)')
    <3>1. CASE b = a
      BY <3>1, <1>4, <1>5, <1>6 DEF Paused, IsRunning, Running, Exists
    <3>2. CASE b # a
      <4>1. attempts'[b] = attempts[b] /\ Exists(b) /\ ~Finished(b)
        BY <3>2, <2>1, <1>4 DEF Exists, Finished
      <4>2. attempts[b].taskId \in Tasks \ {t}
        BY <4>1, <1>2, AttemptFacts DEF IInv
      <4>3. claims[attempts[b].taskId] = b /\ (Paused(b) <=> ~IsRunning(b))
        BY <4>1 DEF IInv, WorkIsClaimed
      <4> QED
        BY <4>1, <4>2, <4>3, <1>5, <1>6 DEF Paused, IsRunning, Running, Exists
    <3> QED
      BY <3>1, <3>2
  <2>2. ASSUME NEW u \in Tasks, Running(u)'
        PROVE  /\ claims'[u] = running'[u].attemptId
               /\ running'[u].attemptId \in AttemptsOf(u)'
               /\ attempts'[running'[u].attemptId].status \in LiveStatuses
    <3>1. CASE u = t
      BY <3>1, <1>4, <1>5, <1>6 DEF AttemptsOf, Exists
    <3>2. CASE u # t
      <4>1. Running(u) /\ running'[u] = running[u] /\ claims'[u] = claims[u]
        BY <3>2, <2>2, <1>5, <1>6 DEF Running
      <4>2. attempts'[running[u].attemptId] = attempts[running[u].attemptId]
        BY <4>1, <3>2, <1>10, <1>4
      <4> QED
        BY <4>1, <4>2, RunningAttempt DEF AttemptsOf, Exists
    <3> QED
      BY <3>1, <3>2
  <2>3. \A u \in Tasks : retries'[u] # None => claims'[u] # None
    BY <1>6 DEF IInv, WorkIsClaimed
  <2> QED
    BY <2>1, <2>2, <2>3 DEF WorkIsClaimed
<1>12. ClaimsAreLive'
  <2> SUFFICES ASSUME NEW u \in Tasks, claims'[u] # None
               PROVE  /\ claims'[u] \in AttemptsOf(u)'
                      /\ (retries[u] # None <=> Finished(claims[u]))'
    BY DEF ClaimsAreLive
  <2>1. CASE u = t
    BY <2>1, <1>4, <1>6 DEF AttemptsOf, Exists, Finished
  <2>2. CASE u # t
    <3>1. claims'[u] = claims[u] /\ retries'[u] = retries[u] /\ claims[u] \in AttemptsOf(u)
      BY <2>2, <1>6 DEF IInv, ClaimsAreLive
    <3>2. claims[u] \in AttemptIds \ {a}
      BY <3>1, <1>2 DEF AttemptsOf
    <3> QED
      BY <2>2, <3>1, <3>2, <1>4 DEF IInv, ClaimsAreLive, AttemptsOf, Exists, Finished
  <2> QED
    BY <2>1, <2>2
<1>13. LeasesAgree'
  <2>1. ASSUME NEW u \in Tasks, Running(u)'
        PROVE  /\ workspaceOwners'[running'[u].workspace.path] = running'[u].attemptId
               /\ workspaces'[running'[u].workspace.path]
                    = [ref |-> running'[u].workspace, state |-> "ready"]
               /\ running'[u].workspace.taskId = u
               /\ attempts'[running'[u].attemptId].workspaceId = running'[u].workspace.id
    <3>1. CASE u = t
      BY <3>1, <1>3, <1>4, <1>5, <1>7
    <3>2. CASE u # t
      <4>1. Running(u) /\ running'[u] = running[u]
        BY <3>2, <2>1, <1>5 DEF Running
      <4>2. /\ running[u].attemptId \in AttemptIds \ {a}
            /\ running[u].workspace.path \in Paths \ {w.path}
        BY <4>1, <3>2, <1>10
      <4>3. /\ workspaceOwners[running[u].workspace.path] = running[u].attemptId
            /\ workspaces[running[u].workspace.path]
                 = [ref |-> running[u].workspace, state |-> "ready"]
            /\ running[u].workspace.taskId = u
            /\ attempts[running[u].attemptId].workspaceId = running[u].workspace.id
        BY <4>1 DEF IInv, LeasesAgree
      <4> QED
        BY <4>1, <4>2, <4>3, <1>4, <1>7
    <3> QED
      BY <3>1, <3>2
  <2>2. ASSUME NEW p \in Paths, workspaceOwners'[p] # None
        PROVE  \E u \in Tasks : /\ Running(u)'
                                /\ running'[u].attemptId = workspaceOwners'[p]
                                /\ running'[u].workspace.path = p
    <3>1. CASE p = w.path
      BY <3>1, <1>5, <1>7 DEF Running
    <3>2. CASE p # w.path
      <4>1. PICK u \in Tasks : /\ Running(u)
                               /\ running[u].attemptId = workspaceOwners[p]
                               /\ running[u].workspace.path = p
        BY <3>2, <2>2, <1>7 DEF IInv, LeasesAgree
      <4>2. u # t
        BY <4>1, <1>2
      <4> QED
        BY <4>1, <4>2, <3>2, <1>5, <1>7 DEF Running
    <3> QED
      BY <3>1, <3>2
  <2> QED
    BY <2>1, <2>2 DEF LeasesAgree
<1>14. StableWorkspaces'
  <2>1. SameIdentity(w)
    BY DEF Reserve
  <2>2. ASSUME NEW b \in AttemptIds, Exists(b)'
        PROVE  \E p \in Paths : /\ workspaces'[p] # None
                                /\ workspaces'[p].ref.id = attempts'[b].workspaceId
                                /\ workspaces'[p].ref.taskId = attempts'[b].taskId
                                /\ workspaces'[p].ref.path = p
    <3>1. CASE b = a
      BY <3>1, <1>3, <1>4, <1>7, <1>8
    <3>2. CASE b # a
      <4>1. attempts'[b] = attempts[b] /\ Exists(b)
        BY <3>2, <2>2, <1>4 DEF Exists
      <4>2. PICK p \in Paths : /\ workspaces[p] # None
                               /\ workspaces[p].ref.id = attempts[b].workspaceId
                               /\ workspaces[p].ref.taskId = attempts[b].taskId
                               /\ workspaces[p].ref.path = p
        BY <4>1 DEF IInv, StableWorkspaces
      <4>3. /\ workspaces'[p] # None
            /\ workspaces'[p].ref = workspaces[p].ref
        BY <4>2, <2>1, <1>7, <1>8 DEF SameIdentity
      <4> QED
        BY <4>1, <4>2, <4>3
    <3> QED
      BY <3>1, <3>2
  <2>3. ASSUME NEW p \in Paths, NEW q \in Paths, workspaces'[p] # None, workspaces'[q] # None,
               workspaces'[p].ref.id = workspaces'[q].ref.id
        PROVE  p = q
    <3>1. ASSUME NEW r \in Paths, workspaces'[r] # None, workspaces'[r].ref.id = w.id
          PROVE  r = w.path
      BY <3>1, <2>1, <1>7 DEF SameIdentity
    <3>2. CASE p = w.path \/ q = w.path
      BY <3>1, <3>2, <2>3, <1>7
    <3>3. CASE p # w.path /\ q # w.path
      BY <3>3, <2>3, <1>7 DEF IInv, StableWorkspaces
    <3> QED
      BY <3>2, <3>3
  <2> QED
    BY <2>2, <2>3 DEF StableWorkspaces
<1>15. CodexIsPaused'
  BY <1>4 DEF IInv, CodexIsPaused, Exists, Paused
<1>16. ClaimIsLatest'
  <2>1. /\ \A b \in AttemptsOf(t) : attempts[b].sequence < n
        /\ n \in Nat
    BY BoundsAssumption DEF Reserve, IsNextSequence
  <2>2. /\ AttemptsOf(t)' = AttemptsOf(t) \cup {a}
        /\ a \notin AttemptsOf(t)
        /\ \A u \in Tasks : u # t => AttemptsOf(u)' = AttemptsOf(u) /\ a \notin AttemptsOf(u)
    BY <1>2, <1>4 DEF AttemptsOf, Exists
  <2>3. \A u \in Tasks : \A b \in AttemptsOf(u) :
          attempts'[b] = attempts[b] /\ attempts[b].sequence \in Nat
    BY <1>2, <1>4, AttemptFacts DEF IInv, AttemptsOf
  <2> SUFFICES ASSUME NEW u \in Tasks
               PROVE  /\ claims'[u] # None => IsLatest(claims[u], u)'
                      /\ \A b, c \in AttemptsOf(u)' :
                           attempts'[b].sequence = attempts'[c].sequence => b = c
    BY DEF ClaimIsLatest
  <2>4. CASE u = t
    <3>1. IsLatest(claims[u], u)'
      BY <2>4, <1>4, <1>6, <2>1, <2>2, <2>3 DEF IsLatest
    <3>2. \A b, c \in AttemptsOf(t) : attempts[b].sequence = attempts[c].sequence => b = c
      BY DEF IInv, ClaimIsLatest
    <3> QED
      BY <2>4, <3>1, <3>2, <1>4, <2>1, <2>2, <2>3
  <2>5. CASE u # t
    BY <2>5, <1>6, <2>2, <2>3 DEF IInv, ClaimIsLatest, IsLatest
  <2> QED
    BY <2>4, <2>5
<1> QED
  BY <1>1, <1>9, <1>11, <1>12, <1>13, <1>14, <1>15, <1>16 DEF IInv

-----------------------------------------------------------------------------
(* What the operations have in common *)

\* Attempts keep what they are about; one may have been deleted.
LEMMA LatestKept ==
  ASSUME IInv,
         \A b \in AttemptIds : Exists(b)' =>
           /\ Exists(b)
           /\ attempts'[b].taskId = attempts[b].taskId
           /\ attempts'[b].sequence = attempts[b].sequence,
         \A t \in Tasks : claims'[t] # None => claims'[t] = claims[t] /\ Exists(claims[t])'
  PROVE  ClaimIsLatest'
<1> SUFFICES ASSUME NEW t \in Tasks
             PROVE  /\ claims'[t] # None => IsLatest(claims[t], t)'
                    /\ \A b, c \in AttemptsOf(t)' :
                         attempts'[b].sequence = attempts'[c].sequence => b = c
  BY DEF ClaimIsLatest
<1>1. \A b \in AttemptsOf(t)' :
        b \in AttemptsOf(t) /\ attempts'[b].sequence = attempts[b].sequence
  BY DEF AttemptsOf
<1>2. ASSUME claims'[t] # None PROVE IsLatest(claims[t], t)'
  <2>1. claims'[t] = claims[t] /\ Exists(claims[t])' /\ IsLatest(claims[t], t)
    BY <1>2 DEF IInv, ClaimIsLatest
  <2>2. claims[t] \in AttemptsOf(t)'
    BY <2>1 DEF IsLatest, AttemptsOf
  <2> QED
    BY <2>1, <2>2, <1>1 DEF IsLatest
<1> QED
  BY <1>1, <1>2 DEF IInv, ClaimIsLatest

\* Workspaces keep their references.
LEMMA StableKept ==
  ASSUME IInv,
         \A b \in AttemptIds : Exists(b)' =>
           /\ Exists(b)
           /\ attempts'[b].taskId = attempts[b].taskId
           /\ attempts'[b].workspaceId = attempts[b].workspaceId,
         \A p \in Paths :
           /\ workspaces'[p] # None <=> workspaces[p] # None
           /\ workspaces[p] # None => workspaces'[p].ref = workspaces[p].ref
  PROVE  StableWorkspaces'
<1>1. ASSUME NEW b \in AttemptIds, Exists(b)'
      PROVE  \E p \in Paths : /\ workspaces'[p] # None
                              /\ workspaces'[p].ref.id = attempts'[b].workspaceId
                              /\ workspaces'[p].ref.taskId = attempts'[b].taskId
                              /\ workspaces'[p].ref.path = p
  <2>1. PICK p \in Paths : /\ workspaces[p] # None
                           /\ workspaces[p].ref.id = attempts[b].workspaceId
                           /\ workspaces[p].ref.taskId = attempts[b].taskId
                           /\ workspaces[p].ref.path = p
    BY <1>1 DEF IInv, StableWorkspaces
  <2> QED
    BY <1>1, <2>1
<1>2. ASSUME NEW p \in Paths, NEW q \in Paths, workspaces'[p] # None, workspaces'[q] # None,
             workspaces'[p].ref.id = workspaces'[q].ref.id
      PROVE  p = q
  BY <1>2 DEF IInv, StableWorkspaces
<1> QED
  BY <1>1, <1>2 DEF StableWorkspaces

\* The Attempts in A stop running and give their leases back.
LEMMA LeasesKept ==
  ASSUME IInv, NEW A \in SUBSET AttemptIds,
         \A t \in Tasks : Running(t)' <=> Running(t) /\ running[t].attemptId \notin A,
         \A t \in Tasks : Running(t)' =>
           /\ running'[t].attemptId = running[t].attemptId
           /\ running'[t].workspace = running[t].workspace
           /\ attempts'[running[t].attemptId].workspaceId
                = attempts[running[t].attemptId].workspaceId,
         \A p \in Paths : workspaceOwners'[p] = OwnersWithout(A)[p],
         \A p \in Paths : workspaces'[p] = WorkspacesRetaining(A)[p]
  PROVE  LeasesAgree'
<1>1. ASSUME NEW t \in Tasks, Running(t)'
      PROVE  /\ workspaceOwners'[running'[t].workspace.path] = running'[t].attemptId
             /\ workspaces'[running'[t].workspace.path]
                  = [ref |-> running'[t].workspace, state |-> "ready"]
             /\ running'[t].workspace.taskId = t
             /\ attempts'[running'[t].attemptId].workspaceId = running'[t].workspace.id
  <2> DEFINE w == running[t].workspace
  <2>1. /\ Running(t) /\ running[t].attemptId \notin A
        /\ running'[t].attemptId = running[t].attemptId
        /\ running'[t].workspace = w
        /\ attempts'[running[t].attemptId].workspaceId
             = attempts[running[t].attemptId].workspaceId
    BY <1>1
  <2>2. w.path \in Paths
    BY <2>1, RunningFacts DEF IInv
  <2>3. ~PathOf(w.path, A)
    BY <2>1, PathsAreExclusive DEF PathOf
  <2>4. workspaceOwners'[w.path] = workspaceOwners[w.path]
    BY <2>2, <2>3 DEF OwnersWithout
  <2>5. workspaces'[w.path] = workspaces[w.path]
    BY <2>2, <2>3 DEF WorkspacesRetaining
  <2>6. /\ workspaceOwners[w.path] = running[t].attemptId
        /\ workspaces[w.path] = [ref |-> w, state |-> "ready"]
        /\ w.taskId = t
        /\ attempts[running[t].attemptId].workspaceId = w.id
    BY <2>1 DEF IInv, LeasesAgree
  <2> QED
    BY <2>1, <2>4, <2>5, <2>6
<1>2. ASSUME NEW p \in Paths, workspaceOwners'[p] # None
      PROVE  \E t \in Tasks : /\ Running(t)'
                              /\ running'[t].attemptId = workspaceOwners'[p]
                              /\ running'[t].workspace.path = p
  <2>1. ~PathOf(p, A) /\ workspaceOwners'[p] = workspaceOwners[p]
    BY <1>2 DEF OwnersWithout
  <2>2. PICK t \in Tasks : /\ Running(t)
                           /\ running[t].attemptId = workspaceOwners[p]
                           /\ running[t].workspace.path = p
    BY <1>2, <2>1 DEF IInv, LeasesAgree
  <2>3. running[t].attemptId \notin A
    BY <2>1, <2>2 DEF PathOf
  <2> QED
    BY <2>1, <2>2, <2>3
<1> QED
  BY <1>1, <1>2 DEF LeasesAgree

\* A workspace whose lease is given back keeps its reference.
LEMMA RetainedReference ==
  ASSUME IInv, NEW A \in SUBSET AttemptIds, NEW p \in Paths
  PROVE  /\ WorkspacesRetaining(A)[p] # None <=> workspaces[p] # None
         /\ workspaces[p] # None => WorkspacesRetaining(A)[p].ref = workspaces[p].ref
<1>1. CASE PathOf(p, A)
  <2>1. workspaces[p] \in KnownRecords
    BY <1>1, RunningFacts DEF IInv, PathOf
  <2>2. [workspaces[p] EXCEPT !.state = "retained"] \in KnownRecords
    BY <2>1, KnownUpdate
  <2>3. [workspaces[p] EXCEPT !.state = "retained"].ref = workspaces[p].ref
    BY <2>1 DEF KnownRecords
  <2> QED
    BY <1>1, <2>1, <2>2, <2>3, NoneAssumption DEF WorkspacesRetaining
<1>2. CASE ~PathOf(p, A)
  BY <1>2 DEF WorkspacesRetaining
<1> QED
  BY <1>1, <1>2

\* An operation that touches neither the Attempts nor what they hold.
LEMMA InvQuiet ==
  ASSUME IInv, TypeOK', UNCHANGED <<attempts, running, ownership>>, usedIds \subseteq usedIds',
         \A t \in Tasks : retries'[t] # None <=> retries[t] # None
  PROVE  IInv'
<1>1. IdsAreDrawn' /\ CodexIsPaused' /\ LeasesAgree' /\ StableWorkspaces' /\ ClaimIsLatest'
  BY DEF IInv, IdsAreDrawn, CodexIsPaused, LeasesAgree, StableWorkspaces, ClaimIsLatest,
         ownership, Exists, Paused, Running, IsLatest, AttemptsOf
<1>2. WorkIsClaimed'
  BY DEF IInv, WorkIsClaimed, ownership, Exists, Finished, Paused, Running, IsRunning, AttemptsOf
<1>3. ClaimsAreLive'
  BY DEF IInv, ClaimsAreLive, ownership, Exists, Finished, AttemptsOf
<1> QED
  BY <1>1, <1>2, <1>3 DEF IInv

-----------------------------------------------------------------------------
(* The operations keep the invariant *)

LEMMA InvAttachTurn ==
  ASSUME IInv, NEW a \in AttemptIds, NEW th \in Threads, NEW tu \in Turns,
         AttachTurn(a, th, tu)
  PROVE  IInv'
<1>1. TypeOK'
  BY TypeAttachTurn DEF IInv
<1>2. /\ IsRunning(a) /\ Exists(a) /\ attempts[a] \in AttemptRecords
      /\ attempts[a].taskId \in Tasks /\ ~Paused(a)
  BY AttemptFacts, RunningAttempt DEF IInv, AttachTurn, IsRunning, Paused
<1>3. /\ attempts'[a] = [attempts[a] EXCEPT !.status = "streaming_turn",
                                            !.activeTurn = tu, !.thread = th]
      /\ \A b \in AttemptIds : b # a => attempts'[b] = attempts[b]
  BY DEF IInv, TypeOK, AttachTurn
<1>4. attempts'[a] \in AttemptRecords /\ attempts'[a] # None
  <2>1. attempts'[a] \in AttemptRecords
    BY <1>2, <1>3 DEF AttemptRecords
  <2> QED
    BY <2>1, NoneAssumption
<1>5. /\ attempts'[a].taskId = attempts[a].taskId
      /\ attempts'[a].sequence = attempts[a].sequence
      /\ attempts'[a].workspaceId = attempts[a].workspaceId
      /\ attempts'[a].controller = attempts[a].controller
      /\ attempts'[a].status = "streaming_turn"
  BY <1>2, <1>3 DEF AttemptRecords
<1>6. \A b \in AttemptIds :
        /\ Exists(b)' <=> Exists(b)
        /\ Exists(b) => /\ attempts'[b].taskId = attempts[b].taskId
                        /\ attempts'[b].sequence = attempts[b].sequence
                        /\ attempts'[b].workspaceId = attempts[b].workspaceId
                        /\ attempts'[b].controller = attempts[b].controller
  BY <1>2, <1>3, <1>4, <1>5 DEF Exists
<1>7. /\ UNCHANGED <<running, claims, retries, workspaceOwners, workspaces, usedIds>>
  BY DEF AttachTurn, ownership
<1>8. \A b \in AttemptIds : (Finished(b)' <=> Finished(b)) /\ (Paused(b)' <=> Paused(b))
  <2>1. ~Finished(a)
    BY <1>2, RunningAttempt DEF IsRunning, Finished
  <2>2. ~Finished(a)' /\ ~Paused(a)'
    BY <1>5 DEF Finished, Paused
  <2> QED
    BY <2>1, <2>2, <1>2, <1>3 DEF Finished, Paused, Exists
<1>9. IdsAreDrawn'
  BY <1>6, <1>7 DEF IInv, IdsAreDrawn
<1>10. CodexIsPaused'
  BY <1>6, <1>8 DEF IInv, CodexIsPaused
<1>11. WorkIsClaimed'
  <2>1. ASSUME NEW b \in AttemptIds, Exists(b)', ~Finished(b)'
        PROVE  claims'[attempts'[b].taskId] = b /\ (Paused(b)' <=> ~IsRunning(b)')
    BY <2>1, <1>6, <1>7, <1>8 DEF IInv, WorkIsClaimed, IsRunning, Running
  <2>2. ASSUME NEW u \in Tasks, Running(u)'
        PROVE  /\ claims'[u] = running'[u].attemptId
               /\ running'[u].attemptId \in AttemptsOf(u)'
               /\ attempts'[running'[u].attemptId].status \in LiveStatuses
    BY <2>2, <1>3, <1>5, <1>6, <1>7 DEF IInv, WorkIsClaimed, Running, AttemptsOf
  <2>3. \A u \in Tasks : retries'[u] # None => claims'[u] # None
    BY <1>7 DEF IInv, WorkIsClaimed
  <2> QED
    BY <2>1, <2>2, <2>3 DEF WorkIsClaimed
<1>12. ClaimsAreLive'
  <2> SUFFICES ASSUME NEW u \in Tasks, claims'[u] # None
               PROVE  /\ claims'[u] \in AttemptsOf(u)'
                      /\ (retries[u] # None <=> Finished(claims[u]))'
    BY DEF ClaimsAreLive
  <2>1. claims[u] \in AttemptsOf(u) /\ (retries[u] # None <=> Finished(claims[u]))
    BY <1>7 DEF IInv, ClaimsAreLive
  <2>2. Finished(claims[u])' <=> Finished(claims[u])
    BY <2>1, <1>7, <1>8 DEF AttemptsOf
  <2> QED
    BY <2>1, <2>2, <1>6, <1>7 DEF AttemptsOf
<1>13. ClaimIsLatest'
  <2>1. \A t \in Tasks : claims'[t] # None => claims'[t] = claims[t] /\ Exists(claims[t])'
    BY <1>12, <1>7 DEF ClaimsAreLive, AttemptsOf
  <2> QED
    BY <2>1, <1>6, LatestKept
<1>14. LeasesAgree'
  <2>1. \A p \in Paths : workspaceOwners'[p] = OwnersWithout({})[p]
    BY <1>7 DEF OwnersWithout, PathOf
  <2>2. \A p \in Paths : workspaces'[p] = WorkspacesRetaining({})[p]
    BY <1>7 DEF WorkspacesRetaining, PathOf
  <2>3. \A t \in Tasks : Running(t)' =>
           /\ Running(t)
           /\ running'[t] = running[t]
           /\ attempts'[running[t].attemptId].workspaceId
                = attempts[running[t].attemptId].workspaceId
    BY <1>6, <1>7, RunningAttempt DEF Running
  <2>4. \A t \in Tasks : Running(t)' <=> Running(t) /\ running[t].attemptId \notin {}
    BY <1>7 DEF Running
  <2> QED
    BY <2>1, <2>2, <2>3, <2>4, LeasesKept
<1>15. StableWorkspaces'
  BY <1>6, <1>7, StableKept
<1> QED
  BY <1>1, <1>9, <1>10, <1>11, <1>12, <1>13, <1>14, <1>15 DEF IInv

LEMMA InvRefreshFinished ==
  ASSUME IInv, NEW a \in AttemptIds, NEW p \in Paths, RefreshFinished(a, p)
  PROVE  IInv'
<1>1. TypeOK'
  BY TypeRefreshFinished DEF IInv
<1>2. UNCHANGED <<attempts, running, claims, retries, workspaceOwners, usedIds>>
  BY DEF RefreshFinished
<1>3. workspaces[p] \in KnownRecords /\ workspaces[p] # None
  BY DEF IInv, TypeOK, RefreshFinished
<1>4. /\ workspaces'[p] = [workspaces[p] EXCEPT !.state = "retained"]
      /\ \A q \in Paths : q # p => workspaces'[q] = workspaces[q]
  BY DEF IInv, TypeOK, RefreshFinished
<1>5. workspaces'[p] # None /\ workspaces'[p].ref = workspaces[p].ref
  BY <1>3, <1>4, KnownUpdate, NoneAssumption DEF KnownRecords
<1>6. \A t \in Tasks : Running(t) => running[t].workspace.path # p
  <2> SUFFICES ASSUME NEW t \in Tasks, Running(t), running[t].workspace.path = p PROVE FALSE
    OBVIOUS
  <2>1. workspaceOwners[p] = running[t].attemptId
    BY DEF IInv, LeasesAgree
  <2>2. /\ running[t].attemptId \in AttemptIds
        /\ attempts[running[t].attemptId].status \in LiveStatuses
    BY RunningAttempt
  <2>3. running[t].attemptId = a
    BY <2>1, <2>2, NoneAssumption DEF RefreshFinished
  <2> QED
    BY <2>2, <2>3 DEF RefreshFinished, Finished
<1>7. /\ IdsAreDrawn' /\ CodexIsPaused' /\ ClaimIsLatest' /\ ClaimsAreLive'
  BY <1>2 DEF IInv, IdsAreDrawn, CodexIsPaused, ClaimIsLatest, ClaimsAreLive,
              Exists, Paused, Finished, IsLatest, AttemptsOf
<1>8. WorkIsClaimed'
  BY <1>2 DEF IInv, WorkIsClaimed, Exists, Finished, Paused, Running, IsRunning, AttemptsOf
<1>9. LeasesAgree'
  <2>1. ASSUME NEW t \in Tasks, Running(t)
        PROVE  workspaces'[running[t].workspace.path] = workspaces[running[t].workspace.path]
    BY <2>1, <1>4, <1>6, RunningFacts DEF IInv
  <2> QED
    BY <2>1, <1>2 DEF IInv, LeasesAgree, Running
<1>10. StableWorkspaces'
  BY <1>2, <1>3, <1>4, <1>5, StableKept DEF Exists
<1> QED
  BY <1>1, <1>7, <1>8, <1>9, <1>10 DEF IInv

LEMMA InvDeleteAttempt ==
  ASSUME IInv, NEW a \in AttemptIds, DeleteAttempt(a)
  PROVE  IInv'
<1> DEFINE t == attempts[a].taskId
<1>1. TypeOK'
  BY TypeDeleteAttempt DEF IInv
<1>2. Exists(a) /\ t \in Tasks /\ ~IsRunning(a)
  BY AttemptFacts DEF IInv, DeleteAttempt
<1>3. attempts'[a] = None /\ \A b \in AttemptIds : b # a => attempts'[b] = attempts[b]
  BY DEF IInv, TypeOK, DeleteAttempt
<1>4. UNCHANGED <<running, workspaces, usedIds>>
  BY DEF DeleteAttempt
<1>5. \A u \in Tasks : Running(u) =>
        /\ running[u].attemptId \in AttemptIds \ {a}
        /\ attempts'[running[u].attemptId] = attempts[running[u].attemptId]
  BY <1>2, <1>3, RunningAttempt DEF IsRunning
<1>6. /\ \A u \in Tasks : u # t => claims'[u] = claims[u] /\ retries'[u] = retries[u]
      /\ claims[t] # a => claims'[t] = claims[t] /\ retries'[t] = retries[t]
      /\ claims[t] = a => claims'[t] = None /\ retries'[t] = None
  BY <1>2 DEF IInv, TypeOK, DeleteAttempt, ClaimsWithout
<1>7. UNCHANGED workspaceOwners
  <2>1. ASSUME NEW p \in Paths PROVE workspaceOwners[p] # a
    <3> SUFFICES ASSUME workspaceOwners[p] = a PROVE FALSE
      OBVIOUS
    <3>1. PICK u \in Tasks : Running(u) /\ running[u].attemptId = a
      BY NoneAssumption DEF IInv, LeasesAgree
    <3> QED
      BY <3>1, <1>5
  <2> QED
    BY <2>1 DEF IInv, TypeOK, DeleteAttempt
<1>8. \A b \in AttemptIds : Exists(b)' => b # a /\ Exists(b) /\ attempts'[b] = attempts[b]
  BY <1>3 DEF Exists
<1>9. IdsAreDrawn' /\ CodexIsPaused'
  BY <1>4, <1>8 DEF IInv, IdsAreDrawn, CodexIsPaused, Exists, Paused
<1>10. WorkIsClaimed'
  <2>1. ASSUME NEW b \in AttemptIds, Exists(b)', ~Finished(b)'
        PROVE  claims'[attempts'[b].taskId] = b /\ (Paused(b)' <=> ~IsRunning(b)')
    <3>1. b # a /\ Exists(b) /\ ~Finished(b) /\ attempts'[b] = attempts[b]
      BY <2>1, <1>8 DEF Finished
    <3>2. claims[attempts[b].taskId] = b /\ (Paused(b) <=> ~IsRunning(b))
      BY <3>1 DEF IInv, WorkIsClaimed
    <3>3. attempts[b].taskId \in Tasks
      BY <3>1, AttemptFacts DEF IInv
    <3> QED
      BY <3>1, <3>2, <3>3, <1>4, <1>6 DEF Paused, IsRunning, Running, Exists
  <2>2. ASSUME NEW u \in Tasks, Running(u)'
        PROVE  /\ claims'[u] = running'[u].attemptId
               /\ running'[u].attemptId \in AttemptsOf(u)'
               /\ attempts'[running'[u].attemptId].status \in LiveStatuses
    <3>1. Running(u) /\ running'[u] = running[u]
      BY <2>2, <1>4 DEF Running
    <3> QED
      BY <3>1, <1>5, <1>6, RunningAttempt DEF AttemptsOf, Exists
  <2>3. \A u \in Tasks : retries'[u] # None => claims'[u] # None
    BY <1>6 DEF IInv, WorkIsClaimed
  <2> QED
    BY <2>1, <2>2, <2>3 DEF WorkIsClaimed
<1>11. ClaimsAreLive'
  <2> SUFFICES ASSUME NEW u \in Tasks, claims'[u] # None
               PROVE  /\ claims'[u] \in AttemptsOf(u)'
                      /\ (retries[u] # None <=> Finished(claims[u]))'
    BY DEF ClaimsAreLive
  <2>1. claims'[u] = claims[u] /\ retries'[u] = retries[u]
    BY <1>6
  <2>2. claims[u] \in AttemptsOf(u) /\ (retries[u] # None <=> Finished(claims[u]))
    BY <2>1 DEF IInv, ClaimsAreLive
  <2>3. claims[u] # a
    BY <2>1, <2>2, <1>6 DEF AttemptsOf
  <2>4. attempts'[claims[u]] = attempts[claims[u]]
    BY <2>2, <2>3, <1>3 DEF AttemptsOf
  <2> QED
    BY <2>1, <2>2, <2>4 DEF AttemptsOf, Exists, Finished
<1>12. ClaimIsLatest'
  <2>1. \A u \in Tasks : claims'[u] # None => claims'[u] = claims[u] /\ Exists(claims[u])'
    BY <1>6, <1>11 DEF ClaimsAreLive, AttemptsOf
  <2> QED
    BY <2>1, <1>8, LatestKept
<1>13. LeasesAgree'
  BY <1>4, <1>5, <1>7 DEF IInv, LeasesAgree, Running
<1>14. StableWorkspaces'
  BY <1>4, <1>8, StableKept
<1> QED
  BY <1>1, <1>9, <1>10, <1>11, <1>12, <1>13, <1>14 DEF IInv

LEMMA InvPauseAttempt ==
  ASSUME IInv, NEW a \in AttemptIds, NEW c \in {"symphoneer", "codex"}, PauseAttempt(a, c)
  PROVE  IInv'
<1> DEFINE t == attempts[a].taskId
           path == running[t].workspace.path
<1>1. TypeOK'
  BY TypePauseAttempt DEF IInv
<1>2. /\ IsRunning(a) /\ Exists(a) /\ attempts[a] \in AttemptRecords /\ t \in Tasks
      /\ Running(t) /\ running[t].attemptId = a /\ claims[t] = a
      /\ path \in Paths
  BY AttemptFacts, RunningAttempt, RunningFacts DEF IInv, PauseAttempt, IsRunning
<1>3. /\ attempts'[a] = [attempts[a] EXCEPT !.status = "paused", !.activeTurn = None,
                                            !.controller = c]
      /\ \A b \in AttemptIds : b # a => attempts'[b] = attempts[b]
  BY DEF IInv, TypeOK, PauseAttempt
<1>4. attempts'[a] \in AttemptRecords /\ attempts'[a] # None
  BY <1>2, <1>3, NoneAssumption DEF AttemptRecords
<1>5. /\ attempts'[a].taskId = t
      /\ attempts'[a].sequence = attempts[a].sequence
      /\ attempts'[a].workspaceId = attempts[a].workspaceId
      /\ attempts'[a].status = "paused"
  BY <1>2, <1>3 DEF AttemptRecords
<1>6. \A b \in AttemptIds :
        /\ Exists(b)' <=> Exists(b)
        /\ Exists(b) => /\ attempts'[b].taskId = attempts[b].taskId
                        /\ attempts'[b].sequence = attempts[b].sequence
                        /\ attempts'[b].workspaceId = attempts[b].workspaceId
  BY <1>2, <1>3, <1>4, <1>5 DEF Exists
<1>7. UNCHANGED <<claims, retries, usedIds>>
  BY DEF PauseAttempt
<1>8. /\ running'[t] = None
      /\ \A u \in Tasks : u # t => running'[u] = running[u]
  BY <1>2 DEF IInv, TypeOK, PauseAttempt
<1>9. \A u \in Tasks : Running(u) /\ u # t => running[u].attemptId \in AttemptIds \ {a}
  BY RunningAttempt
<1>10. \A p \in Paths : PathOf(p, {a}) <=> p = path
  BY <1>2, <1>9 DEF PathOf
<1>11. IdsAreDrawn'
  BY <1>6, <1>7 DEF IInv, IdsAreDrawn
<1>12. CodexIsPaused'
  BY <1>3, <1>4, <1>5 DEF IInv, CodexIsPaused, Paused, Exists
<1>13. WorkIsClaimed'
  <2>1. ASSUME NEW b \in AttemptIds, Exists(b)', ~Finished(b)'
        PROVE  claims'[attempts'[b].taskId] = b /\ (Paused(b)' <=> ~IsRunning(b)')
    <3>1. CASE b = a
      BY <3>1, <1>2, <1>4, <1>5, <1>7, <1>8 DEF Paused, IsRunning, Running, Exists
    <3>2. CASE b # a
      <4>1. attempts'[b] = attempts[b] /\ Exists(b) /\ ~Finished(b)
        BY <3>2, <2>1, <1>3 DEF Exists, Finished
      <4>2. claims[attempts[b].taskId] = b /\ (Paused(b) <=> ~IsRunning(b))
        BY <4>1 DEF IInv, WorkIsClaimed
      <4>3. attempts[b].taskId \in Tasks \ {t}
        BY <3>2, <4>1, <4>2, <1>2, AttemptFacts DEF IInv
      <4> QED
        BY <4>1, <4>2, <4>3, <1>7, <1>8 DEF Paused, IsRunning, Running, Exists
    <3> QED
      BY <3>1, <3>2
  <2>2. ASSUME NEW u \in Tasks, Running(u)'
        PROVE  /\ claims'[u] = running'[u].attemptId
               /\ running'[u].attemptId \in AttemptsOf(u)'
               /\ attempts'[running'[u].attemptId].status \in LiveStatuses
    <3>1. u # t /\ Running(u) /\ running'[u] = running[u]
      BY <2>2, <1>8 DEF Running
    <3>2. attempts'[running[u].attemptId] = attempts[running[u].attemptId]
      BY <3>1, <1>9, <1>3
    <3> QED
      BY <3>1, <3>2, <1>7, RunningAttempt DEF AttemptsOf, Exists
  <2>3. \A u \in Tasks : retries'[u] # None => claims'[u] # None
    BY <1>7 DEF IInv, WorkIsClaimed
  <2> QED
    BY <2>1, <2>2, <2>3 DEF WorkIsClaimed
<1>14. ClaimsAreLive'
  <2>1. ~Finished(a) /\ ~Finished(a)'
    BY <1>2, <1>5, RunningAttempt DEF Finished
  <2>2. \A b \in AttemptIds : Finished(b)' <=> Finished(b)
    BY <2>1, <1>3 DEF Finished, Exists
  <2> SUFFICES ASSUME NEW u \in Tasks, claims'[u] # None
               PROVE  /\ claims'[u] \in AttemptsOf(u)'
                      /\ (retries[u] # None <=> Finished(claims[u]))'
    BY DEF ClaimsAreLive
  <2>3. claims[u] \in AttemptsOf(u) /\ (retries[u] # None <=> Finished(claims[u]))
    BY <1>7 DEF IInv, ClaimsAreLive
  <2>4. Finished(claims[u])' <=> Finished(claims[u])
    BY <2>2, <2>3, <1>7 DEF AttemptsOf
  <2> QED
    BY <2>3, <2>4, <1>6, <1>7 DEF AttemptsOf
<1>15. ClaimIsLatest'
  <2>1. \A u \in Tasks : claims'[u] # None => claims'[u] = claims[u] /\ Exists(claims[u])'
    BY <1>14, <1>7 DEF ClaimsAreLive, AttemptsOf
  <2> QED
    BY <2>1, <1>6, LatestKept
<1>16. \A p \in Paths : workspaces'[p] = WorkspacesRetaining({a})[p]
  BY <1>2, <1>10 DEF IInv, TypeOK, PauseAttempt, WorkspacesRetaining
<1>17. LeasesAgree'
  <2>1. \A p \in Paths : workspaceOwners'[p] = OwnersWithout({a})[p]
    BY <1>2, <1>10 DEF IInv, TypeOK, PauseAttempt, OwnersWithout
  <2>2. \A u \in Tasks : Running(u)' <=> Running(u) /\ running[u].attemptId \notin {a}
    BY <1>2, <1>8, <1>9 DEF Running
  <2>3. \A u \in Tasks : Running(u)' =>
           /\ running'[u] = running[u]
           /\ attempts'[running[u].attemptId].workspaceId
                = attempts[running[u].attemptId].workspaceId
    BY <1>6, <1>8, RunningAttempt DEF Running
  <2> QED
    BY <2>1, <2>2, <2>3, <1>16, LeasesKept
<1>18. StableWorkspaces'
  <2>1. \A p \in Paths :
           /\ workspaces'[p] # None <=> workspaces[p] # None
           /\ workspaces[p] # None => workspaces'[p].ref = workspaces[p].ref
    BY <1>16, RetainedReference
  <2> QED
    BY <2>1, <1>6, StableKept
<1> QED
  BY <1>1, <1>11, <1>12, <1>13, <1>14, <1>15, <1>17, <1>18 DEF IInv

LEMMA InvResumePausedAttempt ==
  ASSUME IInv, NEW a \in AttemptIds, NEW w \in Workspaces, NEW s \in Summaries,
         NEW f \in BOOLEAN, ResumePausedAttempt(a, w, s, f)
  PROVE  IInv'
<1> DEFINE t == attempts[a].taskId
           entry == [attemptId |-> a, workspace |-> w, state |-> s.state,
                     failureRetryAttempt |-> KeptFailures(a)]
<1>1. TypeOK'
  BY TypeResumePausedAttempt DEF IInv
<1>2. /\ Exists(a) /\ Paused(a) /\ attempts[a] \in AttemptRecords /\ t \in Tasks
      /\ claims[t] = a /\ ~Running(t)
      /\ w.path \in Paths /\ w.id = attempts[a].workspaceId
      /\ workspaces[w.path] # None /\ workspaces[w.path].ref = w
  BY AttemptFacts, WorkspacesAssumption DEF IInv, ResumePausedAttempt, Paused
<1>3. w.taskId = t
  <2>1. PICK p \in Paths : /\ workspaces[p] # None
                           /\ workspaces[p].ref.id = attempts[a].workspaceId
                           /\ workspaces[p].ref.taskId = attempts[a].taskId
                           /\ workspaces[p].ref.path = p
    BY <1>2 DEF IInv, StableWorkspaces
  <2>2. p = w.path
    BY <2>1, <1>2 DEF IInv, StableWorkspaces
  <2> QED
    BY <2>1, <2>2, <1>2
<1>4. workspaceOwners[w.path] = None
  <2> SUFFICES ASSUME workspaceOwners[w.path] # None PROVE FALSE
    OBVIOUS
  <2>1. PICK u \in Tasks : /\ Running(u)
                           /\ running[u].workspace.path = w.path
    BY <1>2 DEF IInv, LeasesAgree
  <2>2. /\ workspaces[w.path] = [ref |-> running[u].workspace, state |-> "ready"]
        /\ running[u].workspace.taskId = u
    BY <2>1 DEF IInv, LeasesAgree
  <2> QED
    BY <2>1, <2>2, <1>2, <1>3
<1>5. /\ attempts'[a] = [attempts[a] EXCEPT !.status = "launching_agent",
                                            !.controller = "symphoneer"]
      /\ \A b \in AttemptIds : b # a => attempts'[b] = attempts[b]
  BY DEF IInv, TypeOK, ResumePausedAttempt
<1>6. attempts'[a] \in AttemptRecords /\ attempts'[a] # None
  <2>1. attempts'[a] \in AttemptRecords
    BY <1>2, <1>5 DEF AttemptRecords
  <2> QED
    BY <2>1, NoneAssumption
<1>7. /\ attempts'[a].taskId = t
      /\ attempts'[a].sequence = attempts[a].sequence
      /\ attempts'[a].workspaceId = attempts[a].workspaceId
      /\ attempts'[a].status = "launching_agent"
      /\ attempts'[a].controller = "symphoneer"
  BY <1>2, <1>5 DEF AttemptRecords
<1>8. \A b \in AttemptIds :
        /\ Exists(b)' <=> Exists(b)
        /\ Exists(b) => /\ attempts'[b].taskId = attempts[b].taskId
                        /\ attempts'[b].sequence = attempts[b].sequence
                        /\ attempts'[b].workspaceId = attempts[b].workspaceId
  BY <1>2, <1>5, <1>6, <1>7 DEF Exists
<1>9. UNCHANGED <<claims, retries, usedIds>>
  BY DEF ResumePausedAttempt
<1>10. /\ running'[t] = entry /\ running'[t] # None
      /\ \A u \in Tasks : u # t => running'[u] = running[u]
  <2>1. running'[t] = entry /\ \A u \in Tasks : u # t => running'[u] = running[u]
    BY <1>2 DEF IInv, TypeOK, ResumePausedAttempt
  <2>2. entry \in RunningRecords
    BY SummariesAssumption DEF RunningRecords, KeptFailures, IInv, TypeOK
  <2> QED
    BY <2>1, <2>2, NoneAssumption
<1>11. /\ workspaceOwners'[w.path] = a
       /\ \A p \in Paths : p # w.path => workspaceOwners'[p] = workspaceOwners[p]
       /\ workspaces'[w.path] = [ref |-> w, state |-> "ready"]
       /\ \A p \in Paths : p # w.path => workspaces'[p] = workspaces[p]
  <2>1. workspaces[w.path] \in KnownRecords
    BY <1>2 DEF IInv, TypeOK
  <2>2. [workspaces[w.path] EXCEPT !.state = "ready"] = [ref |-> w, state |-> "ready"]
    BY <2>1, <1>2 DEF KnownRecords
  <2>3. /\ workspaces'[w.path] = [workspaces[w.path] EXCEPT !.state = "ready"]
        /\ \A p \in Paths : p # w.path => workspaces'[p] = workspaces[p]
    BY <1>2 DEF IInv, TypeOK, ResumePausedAttempt
  <2>4. /\ workspaceOwners'[w.path] = a
        /\ \A p \in Paths : p # w.path => workspaceOwners'[p] = workspaceOwners[p]
    BY <1>2 DEF IInv, TypeOK, ResumePausedAttempt
  <2> QED
    BY <2>2, <2>3, <2>4
<1>12. \A u \in Tasks : Running(u) =>
         /\ u # t
         /\ running[u].attemptId \in AttemptIds \ {a}
         /\ running[u].workspace.path \in Paths \ {w.path}
  <2> TAKE u \in Tasks
  <2> HAVE Running(u)
  <2>1. u # t /\ running[u].attemptId \in AttemptIds /\ running[u].attemptId # a
    BY <1>2, RunningAttempt
  <2>2. running[u].workspace.path \in Paths
    BY RunningFacts DEF IInv
  <2>3. workspaceOwners[running[u].workspace.path] = running[u].attemptId
    BY DEF IInv, LeasesAgree
  <2> QED
    BY <2>1, <2>2, <2>3, <1>4, NoneAssumption
<1>13. IdsAreDrawn' /\ CodexIsPaused'
  <2>1. IdsAreDrawn'
    BY <1>8, <1>9 DEF IInv, IdsAreDrawn
  <2>2. CodexIsPaused'
    BY <1>5, <1>7 DEF IInv, CodexIsPaused, Paused, Exists
  <2> QED
    BY <2>1, <2>2
<1>14. WorkIsClaimed'
  <2>1. ASSUME NEW b \in AttemptIds, Exists(b)', ~Finished(b)'
        PROVE  claims'[attempts'[b].taskId] = b /\ (Paused(b)' <=> ~IsRunning(b)')
    <3>1. CASE b = a
      BY <3>1, <1>2, <1>6, <1>7, <1>9, <1>10 DEF Paused, IsRunning, Running, Exists
    <3>2. CASE b # a
      <4>1. attempts'[b] = attempts[b] /\ Exists(b) /\ ~Finished(b)
        BY <3>2, <2>1, <1>5 DEF Exists, Finished
      <4>2. claims[attempts[b].taskId] = b /\ (Paused(b) <=> ~IsRunning(b))
        BY <4>1 DEF IInv, WorkIsClaimed
      <4>3. attempts[b].taskId \in Tasks \ {t}
        BY <3>2, <4>1, <4>2, <1>2, AttemptFacts DEF IInv
      <4> QED
        BY <4>1, <4>2, <4>3, <1>9, <1>10 DEF Paused, IsRunning, Running, Exists
    <3> QED
      BY <3>1, <3>2
  <2>2. ASSUME NEW u \in Tasks, Running(u)'
        PROVE  /\ claims'[u] = running'[u].attemptId
               /\ running'[u].attemptId \in AttemptsOf(u)'
               /\ attempts'[running'[u].attemptId].status \in LiveStatuses
    <3>1. CASE u = t
      BY <3>1, <1>2, <1>6, <1>7, <1>9, <1>10 DEF AttemptsOf, Exists
    <3>2. CASE u # t
      <4>1. Running(u) /\ running'[u] = running[u]
        BY <3>2, <2>2, <1>10 DEF Running
      <4>2. attempts'[running[u].attemptId] = attempts[running[u].attemptId]
        BY <4>1, <1>12, <1>5
      <4> QED
        BY <4>1, <4>2, <1>9, RunningAttempt DEF AttemptsOf, Exists
    <3> QED
      BY <3>1, <3>2
  <2>3. \A u \in Tasks : retries'[u] # None => claims'[u] # None
    BY <1>9 DEF IInv, WorkIsClaimed
  <2> QED
    BY <2>1, <2>2, <2>3 DEF WorkIsClaimed
<1>15. ClaimsAreLive'
  <2>1. ~Finished(a) /\ ~Finished(a)'
    BY <1>2, <1>7 DEF Finished, Paused
  <2>2. \A b \in AttemptIds : Finished(b)' <=> Finished(b)
    BY <2>1, <1>5 DEF Finished, Exists
  <2> SUFFICES ASSUME NEW u \in Tasks, claims'[u] # None
               PROVE  /\ claims'[u] \in AttemptsOf(u)'
                      /\ (retries[u] # None <=> Finished(claims[u]))'
    BY DEF ClaimsAreLive
  <2>3. claims[u] \in AttemptsOf(u) /\ (retries[u] # None <=> Finished(claims[u]))
    BY <1>9 DEF IInv, ClaimsAreLive
  <2>4. Finished(claims[u])' <=> Finished(claims[u])
    BY <2>2, <2>3, <1>9 DEF AttemptsOf
  <2> QED
    BY <2>3, <2>4, <1>8, <1>9 DEF AttemptsOf
<1>16. ClaimIsLatest'
  <2>1. \A u \in Tasks : claims'[u] # None => claims'[u] = claims[u] /\ Exists(claims[u])'
    BY <1>15, <1>9 DEF ClaimsAreLive, AttemptsOf
  <2> QED
    BY <2>1, <1>8, LatestKept
<1>17. LeasesAgree'
  <2>1. ASSUME NEW u \in Tasks, Running(u)'
        PROVE  /\ workspaceOwners'[running'[u].workspace.path] = running'[u].attemptId
               /\ workspaces'[running'[u].workspace.path]
                    = [ref |-> running'[u].workspace, state |-> "ready"]
               /\ running'[u].workspace.taskId = u
               /\ attempts'[running'[u].attemptId].workspaceId = running'[u].workspace.id
    <3>1. CASE u = t
      BY <3>1, <1>2, <1>3, <1>7, <1>10, <1>11
    <3>2. CASE u # t
      <4>1. Running(u) /\ running'[u] = running[u]
        BY <3>2, <2>1, <1>10 DEF Running
      <4>2. /\ workspaceOwners[running[u].workspace.path] = running[u].attemptId
            /\ workspaces[running[u].workspace.path]
                 = [ref |-> running[u].workspace, state |-> "ready"]
            /\ running[u].workspace.taskId = u
            /\ attempts[running[u].attemptId].workspaceId = running[u].workspace.id
        BY <4>1 DEF IInv, LeasesAgree
      <4> QED
        BY <4>1, <4>2, <1>5, <1>11, <1>12
    <3> QED
      BY <3>1, <3>2
  <2>2. ASSUME NEW p \in Paths, workspaceOwners'[p] # None
        PROVE  \E u \in Tasks : /\ Running(u)'
                                /\ running'[u].attemptId = workspaceOwners'[p]
                                /\ running'[u].workspace.path = p
    <3>1. CASE p = w.path
      BY <3>1, <1>2, <1>10, <1>11 DEF Running
    <3>2. CASE p # w.path
      <4>1. PICK u \in Tasks : /\ Running(u)
                               /\ running[u].attemptId = workspaceOwners[p]
                               /\ running[u].workspace.path = p
        BY <3>2, <2>2, <1>11 DEF IInv, LeasesAgree
      <4> QED
        BY <4>1, <3>2, <1>10, <1>11, <1>12 DEF Running
    <3> QED
      BY <3>1, <3>2
  <2> QED
    BY <2>1, <2>2 DEF LeasesAgree
<1>18. StableWorkspaces'
  <2>1. [ref |-> w, state |-> "ready"] # None
    BY NoneAssumption DEF KnownRecords
  <2>2. \A p \in Paths :
           /\ workspaces'[p] # None <=> workspaces[p] # None
           /\ workspaces[p] # None => workspaces'[p].ref = workspaces[p].ref
    BY <2>1, <1>2, <1>11
  <2> QED
    BY <2>2, <1>8, StableKept
<1> QED
  BY <1>1, <1>13, <1>14, <1>15, <1>16, <1>17, <1>18 DEF IInv

LEMMA InvFinishAttempt ==
  ASSUME IInv, NEW a \in AttemptIds, NEW status \in TerminalStatuses,
         FinishAttempt(a, status)
  PROVE  IInv'
<1> DEFINE t == attempts[a].taskId
<1>1. TypeOK'
  BY TypeFinishAttempt DEF IInv
<1>2. /\ IsRunning(a) /\ Exists(a) /\ attempts[a] \in AttemptRecords /\ t \in Tasks
      /\ Running(t) /\ running[t].attemptId = a /\ claims[t] = a /\ a # None
      /\ running[t].failureRetryAttempt \in Nat
  BY AttemptFacts, RunningAttempt, RunningFacts, NoneAssumption
  DEF IInv, FinishAttempt, IsRunning
<1>3. /\ attempts'[a] = [attempts[a] EXCEPT !.status = status, !.activeTurn = None]
      /\ \A b \in AttemptIds : b # a => attempts'[b] = attempts[b]
  BY DEF IInv, TypeOK, FinishAttempt, Ended
<1>4. attempts'[a] \in AttemptRecords /\ attempts'[a] # None
  <2>1. attempts'[a] \in AttemptRecords
    BY <1>2, <1>3 DEF AttemptRecords
  <2> QED
    BY <2>1, NoneAssumption
<1>5. /\ attempts'[a].taskId = t
      /\ attempts'[a].sequence = attempts[a].sequence
      /\ attempts'[a].workspaceId = attempts[a].workspaceId
      /\ attempts'[a].controller = attempts[a].controller
      /\ attempts'[a].status = status
  BY <1>2, <1>3 DEF AttemptRecords
<1>6. \A b \in AttemptIds :
        /\ Exists(b)' <=> Exists(b)
        /\ Exists(b) => /\ attempts'[b].taskId = attempts[b].taskId
                        /\ attempts'[b].sequence = attempts[b].sequence
                        /\ attempts'[b].workspaceId = attempts[b].workspaceId
  BY <1>2, <1>3, <1>4, <1>5 DEF Exists
<1>7. Finished(a)'
  BY <1>4, <1>5 DEF Finished, Exists
<1>8. /\ \A u \in Tasks : u # t => claims'[u] = claims[u] /\ retries'[u] = retries[u]
      /\ \/ claims'[t] = None /\ retries'[t] = None
         \/ claims'[t] = a /\ retries'[t] # None
  <2>1. \A u \in Tasks : u # t => claims'[u] = claims[u] /\ retries'[u] = retries[u]
    BY DEF IInv, TypeOK, FinishAttempt
  <2>2. CASE status = "canceled_by_reconciliation"
    <3>1. /\ claims' = [claims EXCEPT ![t] = None]
          /\ retries' = [retries EXCEPT ![t] = None]
      BY <2>2 DEF FinishAttempt
    <3> QED
      BY <2>1, <3>1, <1>2 DEF IInv, TypeOK
  <2>3. CASE status # "canceled_by_reconciliation"
    <3>1. NextRetry(a, status, running[t].failureRetryAttempt) # None
      BY <1>2, RetryType, NoneAssumption
    <3> QED
      BY <2>1, <2>3, <3>1, <1>2 DEF IInv, TypeOK, FinishAttempt
  <2> QED
    BY <2>2, <2>3, <2>1
<1>9. /\ running'[t] = None
      /\ \A u \in Tasks : u # t => running'[u] = running[u]
  <2>1. \A u \in Tasks : Running(u) /\ u # t => running[u].attemptId # a
    BY RunningAttempt
  <2> QED
    BY <2>1, <1>2 DEF IInv, TypeOK, FinishAttempt, RunningWithout, Running
<1>10. \A u \in Tasks : Running(u) /\ u # t => running[u].attemptId \in AttemptIds \ {a}
  BY RunningAttempt
<1>11. IdsAreDrawn' /\ CodexIsPaused'
  <2>1. attempts[a].controller # "codex"
    BY <1>2, RunningAttempt DEF IInv, CodexIsPaused, Paused
  <2>2. ASSUME NEW b \in AttemptIds, Exists(b)', attempts'[b].controller = "codex"
        PROVE  Paused(b)'
    <3>1. b # a
      BY <2>1, <2>2, <1>5
    <3> QED
      BY <3>1, <2>2, <1>3 DEF IInv, CodexIsPaused, Paused, Exists
  <2>3. UNCHANGED usedIds
    BY DEF FinishAttempt
  <2> QED
    BY <2>2, <2>3, <1>6 DEF IInv, IdsAreDrawn, CodexIsPaused
<1>12. WorkIsClaimed'
  <2>1. ASSUME NEW b \in AttemptIds, Exists(b)', ~Finished(b)'
        PROVE  claims'[attempts'[b].taskId] = b /\ (Paused(b)' <=> ~IsRunning(b)')
    <3>1. b # a
      BY <2>1, <1>7
    <3>2. attempts'[b] = attempts[b] /\ Exists(b) /\ ~Finished(b)
      BY <3>1, <2>1, <1>3 DEF Exists, Finished
    <3>3. claims[attempts[b].taskId] = b /\ (Paused(b) <=> ~IsRunning(b))
      BY <3>2 DEF IInv, WorkIsClaimed
    <3>4. attempts[b].taskId \in Tasks \ {t}
      BY <3>1, <3>2, <3>3, <1>2, AttemptFacts DEF IInv
    <3> QED
      BY <3>2, <3>3, <3>4, <1>8, <1>9 DEF Paused, IsRunning, Running, Exists
  <2>2. ASSUME NEW u \in Tasks, Running(u)'
        PROVE  /\ claims'[u] = running'[u].attemptId
               /\ running'[u].attemptId \in AttemptsOf(u)'
               /\ attempts'[running'[u].attemptId].status \in LiveStatuses
    <3>1. u # t /\ Running(u) /\ running'[u] = running[u]
      BY <2>2, <1>9 DEF Running
    <3>2. attempts'[running[u].attemptId] = attempts[running[u].attemptId]
      BY <3>1, <1>10, <1>3
    <3> QED
      BY <3>1, <3>2, <1>8, RunningAttempt DEF AttemptsOf, Exists
  <2>3. \A u \in Tasks : retries'[u] # None => claims'[u] # None
    BY <1>2, <1>8 DEF IInv, WorkIsClaimed
  <2> QED
    BY <2>1, <2>2, <2>3 DEF WorkIsClaimed
<1>13. ClaimsAreLive'
  <2> SUFFICES ASSUME NEW u \in Tasks, claims'[u] # None
               PROVE  /\ claims'[u] \in AttemptsOf(u)'
                      /\ (retries[u] # None <=> Finished(claims[u]))'
    BY DEF ClaimsAreLive
  <2>1. CASE u = t
    <3>1. claims'[t] = a /\ retries'[t] # None
      BY <2>1, <1>8
    <3> QED
      BY <2>1, <3>1, <1>4, <1>5, <1>7 DEF AttemptsOf, Exists
  <2>2. CASE u # t
    <3>1. claims[u] \in AttemptsOf(u) /\ (retries[u] # None <=> Finished(claims[u]))
      BY <2>2, <1>8 DEF IInv, ClaimsAreLive
    <3>2. claims[u] # a
      BY <2>2, <3>1 DEF AttemptsOf
    <3>3. attempts'[claims[u]] = attempts[claims[u]]
      BY <3>1, <3>2, <1>3 DEF AttemptsOf
    <3> QED
      BY <2>2, <3>1, <3>3, <1>8 DEF AttemptsOf, Exists, Finished
  <2> QED
    BY <2>1, <2>2
<1>14. ClaimIsLatest'
  <2>1. \A u \in Tasks : claims'[u] # None => claims'[u] = claims[u] /\ Exists(claims[u])'
    BY <1>2, <1>8, <1>13 DEF ClaimsAreLive, AttemptsOf
  <2> QED
    BY <2>1, <1>6, LatestKept
<1>15. LeasesAgree'
  <2>1. /\ \A p \in Paths : workspaceOwners'[p] = OwnersWithout({a})[p]
        /\ \A p \in Paths : workspaces'[p] = WorkspacesRetaining({a})[p]
    BY DEF FinishAttempt
  <2>2. \A u \in Tasks : Running(u)' <=> Running(u) /\ running[u].attemptId \notin {a}
    BY <1>2, <1>9, <1>10 DEF Running
  <2>3. \A u \in Tasks : Running(u)' =>
           /\ running'[u] = running[u]
           /\ attempts'[running[u].attemptId].workspaceId
                = attempts[running[u].attemptId].workspaceId
    BY <1>6, <1>9, RunningAttempt DEF Running
  <2> QED
    BY <2>1, <2>2, <2>3, LeasesKept
<1>16. StableWorkspaces'
  <2>1. \A p \in Paths :
           /\ workspaces'[p] # None <=> workspaces[p] # None
           /\ workspaces[p] # None => workspaces'[p].ref = workspaces[p].ref
    BY RetainedReference DEF FinishAttempt
  <2> QED
    BY <2>1, <1>6, StableKept
<1> QED
  BY <1>1, <1>11, <1>12, <1>13, <1>14, <1>15, <1>16 DEF IInv

LEMMA InvReleaseRetry ==
  ASSUME IInv, NEW t \in Tasks, NEW f \in BOOLEAN, NEW s \in Summaries \cup {None},
         ReleaseRetry(t, f, s)
  PROVE  IInv'
<1>1. TypeOK'
  BY TypeReleaseRetry DEF IInv
<1>2. UNCHANGED <<attempts, running, workspaceOwners, workspaces, usedIds>>
  BY DEF ReleaseRetry
<1>3. /\ claims'[t] = None /\ retries'[t] = None
      /\ \A u \in Tasks : u # t => claims'[u] = claims[u] /\ retries'[u] = retries[u]
  BY DEF IInv, TypeOK, ReleaseRetry
<1>4. /\ ~Running(t)
      /\ \A b \in AttemptIds : Exists(b) /\ attempts[b].taskId = t => Finished(b)
  BY FreeTask DEF ReleaseRetry, CanTransition
<1>5. IdsAreDrawn' /\ CodexIsPaused' /\ LeasesAgree' /\ StableWorkspaces'
  BY <1>2 DEF IInv, IdsAreDrawn, CodexIsPaused, LeasesAgree, StableWorkspaces,
              Exists, Paused, Running
<1>6. WorkIsClaimed'
  <2>1. ASSUME NEW b \in AttemptIds, Exists(b)', ~Finished(b)'
        PROVE  claims'[attempts'[b].taskId] = b /\ (Paused(b)' <=> ~IsRunning(b)')
    <3>1. Exists(b) /\ ~Finished(b) /\ attempts[b].taskId \in Tasks \ {t}
      BY <2>1, <1>2, <1>4, AttemptFacts DEF IInv, Exists, Finished
    <3> QED
      BY <3>1, <1>2, <1>3 DEF IInv, WorkIsClaimed, Paused, IsRunning, Running, Exists
  <2>2. ASSUME NEW u \in Tasks, Running(u)'
        PROVE  /\ claims'[u] = running'[u].attemptId
               /\ running'[u].attemptId \in AttemptsOf(u)'
               /\ attempts'[running'[u].attemptId].status \in LiveStatuses
    <3>1. u # t /\ Running(u)
      BY <2>2, <1>2, <1>4 DEF Running
    <3> QED
      BY <3>1, <1>2, <1>3, RunningAttempt DEF AttemptsOf, Exists
  <2>3. \A u \in Tasks : retries'[u] # None => claims'[u] # None
    BY <1>3 DEF IInv, WorkIsClaimed
  <2> QED
    BY <2>1, <2>2, <2>3 DEF WorkIsClaimed
<1>7. ClaimsAreLive'
  BY <1>2, <1>3 DEF IInv, ClaimsAreLive, AttemptsOf, Exists, Finished
<1>8. ClaimIsLatest'
  BY <1>2, <1>3, <1>7, LatestKept DEF ClaimsAreLive, AttemptsOf, Exists
<1> QED
  BY <1>1, <1>5, <1>6, <1>7, <1>8 DEF IInv

LEMMA InvReconcile ==
  ASSUME IInv, NEW seen \in [Tasks -> Summaries \cup {None}], Reconcile(seen)
  PROVE  IInv'
<1> DEFINE gone == {t \in Tasks : IF seen[t] = None THEN TRUE ELSE ~Eligible(seen[t])}
           ours(a) == attempts[a].controller # "codex"
           stopped == {a \in AttemptIds : IsRunning(a) /\ ours(a) /\ attempts[a].taskId \in gone}
           canceled == {a \in AttemptIds : Paused(a) /\ ours(a) /\ attempts[a].taskId \in gone}
           ended == stopped \cup canceled
           endedTasks == {attempts[a].taskId : a \in ended}
           released == {t \in gone \ endedTasks : retries[t] # None}
           dropped == endedTasks \cup released
<1>1. TypeOK'
  BY TypeReconcile DEF IInv
<1>2. \A a \in ended : /\ a \in AttemptIds /\ Exists(a) /\ ~Finished(a)
                       /\ attempts[a].taskId \in gone
                       /\ claims[attempts[a].taskId] = a
  <2> SUFFICES ASSUME NEW a \in ended
               PROVE  /\ a \in AttemptIds /\ Exists(a) /\ ~Finished(a)
                      /\ attempts[a].taskId \in gone
                      /\ claims[attempts[a].taskId] = a
    OBVIOUS
  <2>1. a \in AttemptIds /\ Exists(a) /\ attempts[a].taskId \in gone
    BY DEF IsRunning, Paused
  <2>2. ~Finished(a)
    <3>1. CASE IsRunning(a)
      BY <3>1, <2>1, RunningAttempt DEF IsRunning, Finished
    <3>2. CASE Paused(a)
      BY <3>2 DEF Paused, Finished
    <3> QED
      BY <3>1, <3>2
  <2> QED
    BY <2>1, <2>2 DEF IInv, WorkIsClaimed
<1>3. /\ \A a \in ended : attempts'[a] = [attempts[a] EXCEPT
                            !.status = "canceled_by_reconciliation", !.activeTurn = None]
      /\ \A a \in AttemptIds \ ended : attempts'[a] = attempts[a]
  <2>1. attempts' = [a \in AttemptIds |->
           IF a \in ended THEN Ended(a, "canceled_by_reconciliation") ELSE attempts[a]]
    BY DEF Reconcile
  <2> QED
    BY <2>1 DEF Ended
<1>4. \A a \in ended :
        /\ attempts'[a] # None
        /\ attempts'[a].taskId = attempts[a].taskId
        /\ attempts'[a].sequence = attempts[a].sequence
        /\ attempts'[a].workspaceId = attempts[a].workspaceId
        /\ attempts'[a].controller = attempts[a].controller
        /\ attempts'[a].status = "canceled_by_reconciliation"
  <2> SUFFICES ASSUME NEW a \in ended
               PROVE  /\ attempts'[a] # None
                      /\ attempts'[a].taskId = attempts[a].taskId
                      /\ attempts'[a].sequence = attempts[a].sequence
                      /\ attempts'[a].workspaceId = attempts[a].workspaceId
                      /\ attempts'[a].controller = attempts[a].controller
                      /\ attempts'[a].status = "canceled_by_reconciliation"
    OBVIOUS
  <2>1. attempts[a] \in AttemptRecords
    BY <1>2, AttemptFacts DEF IInv
  <2>2. attempts'[a] = [attempts[a] EXCEPT
                            !.status = "canceled_by_reconciliation", !.activeTurn = None]
    BY <1>3
  <2>3. attempts'[a] \in AttemptRecords
    BY <2>1, <2>2 DEF AttemptRecords
  <2> QED
    BY <2>1, <2>2, <2>3, NoneAssumption DEF AttemptRecords
<1>5. \A b \in AttemptIds :
        /\ Exists(b)' <=> Exists(b)
        /\ Exists(b) => /\ attempts'[b].taskId = attempts[b].taskId
                        /\ attempts'[b].sequence = attempts[b].sequence
                        /\ attempts'[b].workspaceId = attempts[b].workspaceId
                        /\ attempts'[b].controller = attempts[b].controller
  BY <1>2, <1>3, <1>4 DEF Exists
<1>6. \A b \in AttemptIds :
        /\ b \in ended => Finished(b)'
        /\ b \notin ended => (Finished(b)' <=> Finished(b)) /\ (Paused(b)' <=> Paused(b))
  BY <1>3, <1>4 DEF Finished, Paused, Exists
<1>7. /\ \A t \in dropped : claims'[t] = None /\ retries'[t] = None
      /\ \A t \in Tasks \ dropped : claims'[t] = claims[t] /\ retries'[t] = retries[t]
      /\ dropped \subseteq Tasks
      /\ UNCHANGED usedIds
  <2>1. /\ claims' = [t \in Tasks |-> IF t \in dropped THEN None ELSE claims[t]]
        /\ retries' = [t \in Tasks |-> IF t \in dropped THEN None ELSE retries[t]]
        /\ UNCHANGED usedIds
    BY DEF Reconcile
  <2>2. dropped \subseteq Tasks
    BY <1>2
  <2> QED
    BY <2>1, <2>2
<1>8. \A t \in Tasks :
        /\ Running(t)' <=> Running(t) /\ running[t].attemptId \notin stopped
        /\ Running(t)' => /\ running'[t].attemptId = running[t].attemptId
                          /\ running'[t].workspace = running[t].workspace
  <2> SUFFICES ASSUME NEW t \in Tasks
               PROVE  /\ Running(t)' <=> Running(t) /\ running[t].attemptId \notin stopped
                      /\ Running(t)' => /\ running'[t].attemptId = running[t].attemptId
                                        /\ running'[t].workspace = running[t].workspace
    OBVIOUS
  <2>1. running'[t] =
           IF RunningWithout(stopped)[t] = None \/ t \in gone THEN RunningWithout(stopped)[t]
           ELSE IF ours(running[t].attemptId) THEN [running[t] EXCEPT !.state = seen[t].state]
           ELSE running[t]
    BY DEF Reconcile
  <2>2. RunningWithout(stopped)[t]
          = IF Running(t) /\ running[t].attemptId \in stopped THEN None ELSE running[t]
    BY DEF RunningWithout
  <2>3. CASE running'[t] = [running[t] EXCEPT !.state = seen[t].state]
             /\ RunningWithout(stopped)[t] # None /\ t \notin gone
    <3>1. Running(t) /\ running[t].attemptId \notin stopped /\ running[t] \in RunningRecords
      BY <2>2, <2>3 DEF Running, IInv, TypeOK
    <3>2. seen[t].state \in TaskStates
      BY <2>3, SummariesAssumption
    <3>3. running'[t] \in RunningRecords
      BY <2>3, <3>1, <3>2 DEF RunningRecords
    <3>4. /\ running'[t].attemptId = running[t].attemptId
          /\ running'[t].workspace = running[t].workspace
      BY <2>3, <3>1 DEF RunningRecords
    <3> QED
      BY <3>1, <3>3, <3>4, NoneAssumption DEF Running
  <2>4. CASE running'[t] = RunningWithout(stopped)[t]
    BY <2>2, <2>4 DEF Running
  <2> QED
    BY <2>1, <2>2, <2>3, <2>4
<1>9. IdsAreDrawn'
  BY <1>5, <1>7 DEF IInv, IdsAreDrawn
<1>10. CodexIsPaused'
  BY <1>5, <1>6 DEF IInv, CodexIsPaused
<1>11. \A t \in Tasks : Running(t)' =>
         /\ running[t].attemptId \in AttemptIds \ ended
         /\ t \notin dropped
  <2> SUFFICES ASSUME NEW t \in Tasks, Running(t)'
               PROVE  running[t].attemptId \in AttemptIds \ ended /\ t \notin dropped
    OBVIOUS
  <2> DEFINE r == running[t].attemptId
  <2>1. /\ Running(t) /\ r \notin stopped /\ r \in AttemptIds
        /\ attempts[r].taskId = t /\ attempts[r].status \in LiveStatuses /\ claims[t] = r
    BY <1>8, RunningAttempt
  <2>2. r \notin ended
    BY <2>1 DEF Paused
  <2>3. t \notin endedTasks
    BY <2>1, <2>2, <1>2
  <2>4. t \notin released
    BY <2>1, FreeTask
  <2> QED
    BY <2>1, <2>2, <2>3, <2>4
<1>12. WorkIsClaimed'
  <2>1. ASSUME NEW b \in AttemptIds, Exists(b)', ~Finished(b)'
        PROVE  claims'[attempts'[b].taskId] = b /\ (Paused(b)' <=> ~IsRunning(b)')
    <3> DEFINE u == attempts[b].taskId
    <3>1. /\ b \notin ended /\ Exists(b) /\ ~Finished(b) /\ attempts'[b] = attempts[b]
          /\ Paused(b)' <=> Paused(b)
      BY <2>1, <1>3, <1>5, <1>6
    <3>2. /\ claims[u] = b /\ u \in Tasks /\ (Paused(b) <=> ~IsRunning(b))
      BY <3>1, AttemptFacts DEF IInv, WorkIsClaimed
    <3>3. u \notin dropped
      <4>1. u \notin endedTasks
        BY <3>1, <3>2, <1>2
      <4>2. u \notin released
        BY <3>1, FreeTask
      <4> QED
        BY <4>1, <4>2
    <3>4. IsRunning(b)' <=> IsRunning(b)
      BY <3>1, <3>2, <1>8 DEF IsRunning, Exists
    <3> QED
      BY <3>1, <3>2, <3>3, <3>4, <1>7
  <2>2. ASSUME NEW u \in Tasks, Running(u)'
        PROVE  /\ claims'[u] = running'[u].attemptId
               /\ running'[u].attemptId \in AttemptsOf(u)'
               /\ attempts'[running'[u].attemptId].status \in LiveStatuses
    <3>1. /\ Running(u) /\ running'[u].attemptId = running[u].attemptId
          /\ running[u].attemptId \in AttemptIds \ ended /\ u \notin dropped
      BY <2>2, <1>8, <1>11
    <3>2. attempts'[running[u].attemptId] = attempts[running[u].attemptId]
      BY <3>1, <1>3
    <3> QED
      BY <3>1, <3>2, <1>7, RunningAttempt DEF AttemptsOf, Exists
  <2>3. \A u \in Tasks : retries'[u] # None => claims'[u] # None
    BY <1>7 DEF IInv, WorkIsClaimed
  <2> QED
    BY <2>1, <2>2, <2>3 DEF WorkIsClaimed
<1>13. ClaimsAreLive'
  <2> SUFFICES ASSUME NEW u \in Tasks, claims'[u] # None
               PROVE  /\ claims'[u] \in AttemptsOf(u)'
                      /\ (retries[u] # None <=> Finished(claims[u]))'
    BY DEF ClaimsAreLive
  <2>1. u \notin dropped /\ claims'[u] = claims[u] /\ retries'[u] = retries[u]
    BY <1>7
  <2>2. claims[u] \in AttemptsOf(u) /\ (retries[u] # None <=> Finished(claims[u]))
    BY <2>1 DEF IInv, ClaimsAreLive
  <2>3. claims[u] \notin ended
    BY <2>1, <2>2 DEF AttemptsOf
  <2>4. Finished(claims[u])' <=> Finished(claims[u])
    BY <2>1, <2>2, <2>3, <1>6 DEF AttemptsOf
  <2> QED
    BY <2>1, <2>2, <2>4, <1>5 DEF AttemptsOf
<1>14. ClaimIsLatest'
  <2>1. \A u \in Tasks : claims'[u] # None => claims'[u] = claims[u] /\ Exists(claims[u])'
    BY <1>7, <1>13 DEF ClaimsAreLive, AttemptsOf
  <2> QED
    BY <2>1, <1>5, LatestKept
<1>15. /\ \A p \in Paths : workspaceOwners'[p] = OwnersWithout(stopped)[p]
       /\ \A p \in Paths : workspaces'[p] = WorkspacesRetaining(stopped)[p]
  BY DEF Reconcile
<1>16. LeasesAgree'
  <2>1. \A t \in Tasks : Running(t)' => attempts'[running[t].attemptId].workspaceId
                                          = attempts[running[t].attemptId].workspaceId
    BY <1>5, <1>8, RunningAttempt
  <2> HIDE DEF stopped
  <2>2. stopped \in SUBSET AttemptIds
    BY DEF stopped
  <2> QED
    BY <2>1, <2>2, <1>8, <1>15, LeasesKept
<1>17. StableWorkspaces'
  <2> HIDE DEF stopped
  <2>1. stopped \in SUBSET AttemptIds
    BY DEF stopped
  <2>2. \A p \in Paths :
           /\ workspaces'[p] # None <=> workspaces[p] # None
           /\ workspaces[p] # None => workspaces'[p].ref = workspaces[p].ref
    BY <2>1, <1>15, RetainedReference
  <2> QED
    BY <2>2, <1>5, StableKept
<1> QED
  BY <1>1, <1>9, <1>10, <1>12, <1>13, <1>14, <1>16, <1>17 DEF IInv

LEMMA InvRestart ==
  ASSUME IInv, NEW latest \in [Tasks -> AttemptIds \cup {None}], NEW removed \in SUBSET Paths,
         Restart(latest, removed)
  PROVE  IInv'
<1>1. TypeOK'
  BY TypeRestart DEF IInv
<1>2. /\ \A a \in AttemptIds : attempts'[a] =
           IF Orphan(a) THEN [attempts[a] EXCEPT !.status = "interrupted", !.activeTurn = None]
           ELSE attempts[a]
      /\ \A t \in Tasks : running'[t] = None
      /\ \A p \in Paths : workspaceOwners'[p] = None
      /\ UNCHANGED usedIds
  BY DEF Restart, Ended
<1>3. \A a \in AttemptIds : Orphan(a) =>
        /\ Exists(a) /\ ~Finished(a) /\ attempts[a].controller = "symphoneer"
        /\ attempts'[a] # None
        /\ attempts'[a].taskId = attempts[a].taskId
        /\ attempts'[a].sequence = attempts[a].sequence
        /\ attempts'[a].workspaceId = attempts[a].workspaceId
        /\ attempts'[a].controller = attempts[a].controller
        /\ attempts'[a].status = "interrupted"
  <2> SUFFICES ASSUME NEW a \in AttemptIds, Orphan(a)
               PROVE  /\ Exists(a) /\ ~Finished(a) /\ attempts[a].controller = "symphoneer"
                      /\ attempts'[a] # None
                      /\ attempts'[a].taskId = attempts[a].taskId
                      /\ attempts'[a].sequence = attempts[a].sequence
                      /\ attempts'[a].workspaceId = attempts[a].workspaceId
                      /\ attempts'[a].controller = attempts[a].controller
                      /\ attempts'[a].status = "interrupted"
    OBVIOUS
  <2>1. attempts[a] \in AttemptRecords
    BY AttemptFacts DEF IInv, Orphan
  <2>2. attempts'[a] = [attempts[a] EXCEPT !.status = "interrupted", !.activeTurn = None]
    BY <1>2
  <2>3. attempts'[a] \in AttemptRecords
    BY <2>1, <2>2 DEF AttemptRecords
  <2> QED
    BY <2>1, <2>2, <2>3, NoneAssumption DEF AttemptRecords, Orphan
<1>4. \A a \in AttemptIds :
        /\ Exists(a)' <=> Exists(a)
        /\ Exists(a) => /\ attempts'[a].taskId = attempts[a].taskId
                        /\ attempts'[a].sequence = attempts[a].sequence
                        /\ attempts'[a].workspaceId = attempts[a].workspaceId
                        /\ attempts'[a].controller = attempts[a].controller
  BY <1>2, <1>3 DEF Exists, Orphan
<1>5. \A a \in AttemptIds : Exists(a) =>
        /\ Orphan(a) => Finished(a)'
        /\ ~Orphan(a) => (Finished(a)' <=> Finished(a)) /\ (Paused(a)' <=> Paused(a))
  BY <1>2, <1>3 DEF Finished, Paused, Exists
<1>6. \A a \in AttemptIds : Exists(a) /\ attempts[a].controller = "codex" =>
        Paused(a) /\ Paused(a)' /\ ~Finished(a) /\ ~Finished(a)'
  <2> SUFFICES ASSUME NEW a \in AttemptIds, Exists(a), attempts[a].controller = "codex"
               PROVE  Paused(a) /\ Paused(a)' /\ ~Finished(a) /\ ~Finished(a)'
    OBVIOUS
  <2>1. Paused(a) /\ ~Orphan(a)
    BY DEF IInv, CodexIsPaused, Orphan
  <2>2. ~Finished(a)
    BY <2>1 DEF Paused, Finished
  <2> QED
    BY <2>1, <2>2, <1>5
<1> DEFINE retained(id) == \E p \in Paths \ removed : /\ workspaces[p] # None
                                                      /\ workspaces[p].ref.id = id
                                                      /\ workspaces[p].state = "retained"
           queued(a) == /\ ~Held(a)
                        /\ attempts[a].status \in FailureStatuses \cup {"succeeded"}
                        /\ retained(attempts[a].workspaceId)
<1>7. \A t \in Tasks :
        /\ IF AttemptsOf(t) = {} THEN latest[t] = None ELSE IsLatest(latest[t], t)
        /\ claims'[t] = IF latest[t] = None THEN None
                        ELSE IF Held(latest[t]) \/ queued(latest[t]) THEN latest[t] ELSE None
        /\ retries'[t] = IF latest[t] = None THEN None
                         ELSE IF queued(latest[t])
                         THEN NextRetry(latest[t], attempts[latest[t]].status,
                                        TrailingFailures(t) - 1)
                         ELSE None
  BY DEF Restart
<1>8. \A t \in Tasks : latest[t] # None => IsLatest(latest[t], t) /\ latest[t] \in AttemptsOf(t)
  BY <1>7 DEF IsLatest
<1>9. \A t \in Tasks : NextRetry(latest[t], attempts[latest[t]].status, TrailingFailures(t) - 1)
                         # None
  BY TrailingFailuresType, RetryType, NoneAssumption
<1>10. IdsAreDrawn'
  BY <1>2, <1>4 DEF IInv, IdsAreDrawn
<1>11. CodexIsPaused'
  BY <1>4, <1>6 DEF CodexIsPaused
<1>12. WorkIsClaimed'
  <2>1. ASSUME NEW b \in AttemptIds, Exists(b)', ~Finished(b)'
        PROVE  claims'[attempts'[b].taskId] = b /\ (Paused(b)' <=> ~IsRunning(b)')
    <3> DEFINE u == attempts[b].taskId
    <3>1. Exists(b) /\ ~Orphan(b) /\ ~Finished(b)
      BY <2>1, <1>4, <1>5
    <3>2. attempts[b] \in AttemptRecords /\ u \in Tasks
      BY <3>1, AttemptFacts DEF IInv
    <3>3. attempts[b].controller = "codex"
      BY <3>1, <3>2 DEF Orphan, AttemptRecords
    <3>4. Paused(b)'
      BY <3>1, <3>3, <1>6
    <3>5. claims[u] = b /\ b # None
      BY <3>1, NoneAssumption DEF IInv, WorkIsClaimed
    <3>6. IsLatest(b, u) /\ b \in AttemptsOf(u)
      BY <3>2, <3>5 DEF IInv, ClaimIsLatest, IsLatest
    <3>7. IsLatest(latest[u], u)
      BY <3>2, <3>6, <1>7
    <3>8. latest[u] = b
      <4>1. attempts[latest[u]].sequence \in Nat /\ attempts[b].sequence \in Nat
        BY <3>1, <3>7, AttemptFacts DEF IInv, IsLatest, AttemptsOf
      <4>2. /\ attempts[latest[u]].sequence <= attempts[b].sequence
            /\ attempts[b].sequence <= attempts[latest[u]].sequence
            /\ latest[u] \in AttemptsOf(u)
        BY <3>6, <3>7 DEF IsLatest
      <4> QED
        BY <4>1, <4>2, <3>2, <3>6 DEF IInv, ClaimIsLatest
    <3>9. claims'[u] = b
      BY <3>2, <3>3, <3>5, <3>8, <1>7 DEF Held
    <3>10. ~IsRunning(b)' /\ attempts'[b].taskId = u
      BY <3>1, <3>2, <1>2, <1>4 DEF IsRunning, Running
    <3> QED
      BY <3>4, <3>9, <3>10
  <2>2. \A u \in Tasks : ~Running(u)'
    BY <1>2 DEF Running
  <2>3. \A u \in Tasks : retries'[u] # None => claims'[u] # None
    BY <1>7
  <2> QED
    BY <2>1, <2>2, <2>3 DEF WorkIsClaimed
<1>13. ClaimsAreLive'
  <2> SUFFICES ASSUME NEW u \in Tasks, claims'[u] # None
               PROVE  /\ claims'[u] \in AttemptsOf(u)'
                      /\ (retries[u] # None <=> Finished(claims[u]))'
    BY DEF ClaimsAreLive
  <2> DEFINE a == latest[u]
  <2>1. /\ a # None /\ claims'[u] = a /\ (Held(a) \/ queued(a))
        /\ a \in AttemptIds /\ Exists(a) /\ a \in AttemptsOf(u)
    BY <1>7, <1>8 DEF AttemptsOf
  <2>2. a \in AttemptsOf(u)'
    BY <2>1, <1>4 DEF AttemptsOf
  <2>3. CASE Held(a)
    <3>1. ~Finished(a)'
      BY <2>1, <2>3, <1>6 DEF Held
    <3>2. retries'[u] = None
      BY <2>1, <2>3, <1>7
    <3> QED
      BY <2>1, <2>2, <3>1, <3>2
  <2>4. CASE queued(a)
    <3>1. Finished(a)
      BY <2>1, <2>4 DEF Finished
    <3>2. Finished(a)'
      BY <2>1, <3>1, <1>5 DEF Orphan
    <3>3. retries'[u] # None
      BY <2>1, <2>4, <1>7, <1>9
    <3> QED
      BY <2>1, <2>2, <3>2, <3>3
  <2> QED
    BY <2>1, <2>3, <2>4
<1>14. ClaimIsLatest'
  <2> SUFFICES ASSUME NEW u \in Tasks
               PROVE  /\ claims'[u] # None => IsLatest(claims[u], u)'
                      /\ \A b, c \in AttemptsOf(u)' :
                           attempts'[b].sequence = attempts'[c].sequence => b = c
    BY DEF ClaimIsLatest
  <2>1. /\ AttemptsOf(u)' = AttemptsOf(u)
        /\ \A b \in AttemptsOf(u) : attempts'[b].sequence = attempts[b].sequence
    BY <1>4 DEF AttemptsOf
  <2>2. claims'[u] # None => claims'[u] = latest[u] /\ latest[u] # None
    BY <1>7
  <2> QED
    BY <2>1, <2>2, <1>8 DEF IInv, ClaimIsLatest, IsLatest
<1>15. LeasesAgree'
  BY <1>2 DEF LeasesAgree, Running
<1>16. StableWorkspaces'
  <2>1. ASSUME NEW p \in Paths
        PROVE  /\ workspaces'[p] # None <=> workspaces[p] # None
               /\ workspaces[p] # None => workspaces'[p].ref = workspaces[p].ref
    <3>1. CASE p \in removed
      <4>1. /\ workspaces'[p] = [workspaces[p] EXCEPT !.state = "released"]
            /\ workspaces[p] # None
        BY <3>1 DEF Restart
      <4>2. workspaces[p] \in KnownRecords
        BY <4>1 DEF IInv, TypeOK
      <4>3. workspaces'[p] \in KnownRecords
        BY <4>1, <4>2, KnownUpdate
      <4>4. workspaces'[p].ref = workspaces[p].ref
        BY <4>1, <4>2 DEF KnownRecords
      <4> QED
        BY <4>1, <4>3, <4>4, NoneAssumption
    <3>2. CASE p \notin removed
      BY <3>2 DEF Restart
    <3> QED
      BY <3>1, <3>2
  <2> QED
    BY <2>1, <1>4, StableKept
<1> QED
  BY <1>1, <1>10, <1>11, <1>12, <1>13, <1>14, <1>15, <1>16 DEF IInv

LEMMA InvNext == IInv /\ [Next]_vars => IInv'
<1> SUFFICES ASSUME IInv, [Next]_vars
             PROVE  IInv'
  OBVIOUS
<1>1. CASE Dispatch
  <2>1. PICK a \in AttemptIds, t \in Tasks, w \in Workspaces, s \in Summaries,
             n \in 1..MaxSequence : ReserveAttempt(a, t, w, s, n)
    BY <1>1 DEF Dispatch
  <2> QED
    BY <2>1, InvReserve DEF ReserveAttempt
<1>2. CASE Run
  <2>1. ASSUME NEW a \in AttemptIds, NEW th \in Threads, NEW tu \in Turns,
               AttachTurn(a, th, tu)
        PROVE  IInv'
    BY <2>1, InvAttachTurn
  <2>2. ASSUME NEW a \in AttemptIds, NEW c \in {"symphoneer", "codex"}, PauseAttempt(a, c)
        PROVE  IInv'
    BY <2>2, InvPauseAttempt
  <2>3. ASSUME NEW a \in AttemptIds, NEW w \in Workspaces, NEW s \in Summaries,
               NEW f \in BOOLEAN, ResumePausedAttempt(a, w, s, f)
        PROVE  IInv'
    BY <2>3, InvResumePausedAttempt
  <2>4. ASSUME NEW a \in AttemptIds, NEW status \in TerminalStatuses \ {"interrupted"},
               FinishAttempt(a, status)
        PROVE  IInv'
    BY <2>4, InvFinishAttempt
  <2>5. ASSUME NEW a \in AttemptIds, NEW p \in Paths, RefreshFinished(a, p)
        PROVE  IInv'
    BY <2>5, InvRefreshFinished
  <2>6. ASSUME NEW a \in AttemptIds, DeleteAttempt(a)
        PROVE  IInv'
    BY <2>6, InvDeleteAttempt
  <2> QED
    BY <1>2, <2>1, <2>2, <2>3, <2>4, <2>5, <2>6 DEF Run
<1>3. CASE Retry
  <2>1. ASSUME NEW t \in Tasks, RetryDue(t)
        PROVE  IInv'
    <3>1. TypeOK'
      BY <2>1, TypeRetryDue DEF IInv
    <3>2. [retries[t] EXCEPT !.due = TRUE] # None
      BY <2>1, NoneAssumption DEF IInv, TypeOK, RetryDue, RetryRecords
    <3>3. \A u \in Tasks : retries'[u] # None <=> retries[u] # None
      BY <2>1, <3>2 DEF IInv, TypeOK, RetryDue
    <3> QED
      BY <2>1, <3>1, <3>3, InvQuiet DEF RetryDue
  <2>2. ASSUME NEW t \in Tasks, NEW f \in BOOLEAN, NEW s \in Summaries \cup {None},
               ReleaseRetry(t, f, s)
        PROVE  IInv'
    BY <2>2, InvReleaseRetry
  <2>3. ASSUME NEW t \in Tasks, NEW w \in Workspaces, NEW s \in Summaries, NEW f \in BOOLEAN,
               RequeueRetry(t, w, s, f)
        PROVE  IInv'
    <3>1. TypeOK'
      BY <2>3, TypeRequeueRetry DEF IInv
    <3>2. [retries[t] EXCEPT !.due = FALSE] # None
      BY <2>3, NoneAssumption DEF IInv, TypeOK, RequeueRetry, CanTransition, RetryRecords
    <3>3. \A u \in Tasks : retries'[u] # None <=> retries[u] # None
      BY <2>3, <3>2 DEF IInv, TypeOK, RequeueRetry, CanTransition
    <3> QED
      BY <2>3, <3>1, <3>3, InvQuiet DEF RequeueRetry
  <2>4. ASSUME NEW a \in AttemptIds, NEW t \in Tasks, NEW w \in Workspaces, NEW s \in Summaries,
               NEW n \in 1..MaxSequence, NEW f \in BOOLEAN, ReserveRetry(a, t, w, s, n, f)
        PROVE  IInv'
    <3>1. PICK reason \in {"retry", "continuation"}, failures \in Nat :
            Reserve(a, t, w, s, n, reason, failures)
      BY <2>4, RetryReserve DEF IInv
    <3>2. retries[t] # None
      BY <2>4 DEF ReserveRetry, CanTransition
    <3> QED
      BY <3>1, <3>2, InvReserve
  <2> QED
    BY <1>3, <2>1, <2>2, <2>3, <2>4 DEF Retry
<1>4. CASE Reconciliation
  BY <1>4, InvReconcile DEF Reconciliation
<1>5. CASE RuntimeRestart
  BY <1>5, InvRestart DEF RuntimeRestart
<1>6. CASE WorkflowReload
  <2>1. PICK p \in Policies : UpdatePolicy(p)
    BY <1>6 DEF WorkflowReload
  <2>2. TypeOK'
    BY <2>1 DEF IInv, TypeOK, UpdatePolicy, ownership, sessions
  <2> QED
    BY <2>1, <2>2, InvQuiet DEF UpdatePolicy
<1>7. CASE UNCHANGED vars
  <2>1. TypeOK'
    BY <1>7 DEF IInv, TypeOK, vars, ownership, sessions
  <2> QED
    BY <1>7, <2>1, InvQuiet DEF vars
<1> QED
  BY <1>1, <1>2, <1>3, <1>4, <1>5, <1>6, <1>7 DEF Next

-----------------------------------------------------------------------------
(* Theorems *)

\* The conjunction of everything below holds in every reachable state of the scheduler.
THEOREM Invariance == Spec => []IInv
<1>1. Init => IInv
  BY InvInit
<1>2. IInv /\ [Next]_vars => IInv'
  BY InvNext
<1> QED
  BY <1>1, <1>2, PTL DEF Spec

\* The maps of the scheduler always hold entries of their types.
THEOREM TypeCorrect == Spec => []TypeOK
<1>1. IInv => TypeOK
  BY DEF IInv
<1> QED
  BY <1>1, Invariance, PTL

\* Unfinished work, running entries and queued retries always hold the claim of their Task.
THEOREM WorkStaysClaimed == Spec => []WorkIsClaimed
<1>1. IInv => WorkIsClaimed
  BY DEF IInv
<1> QED
  BY <1>1, Invariance, PTL

\* A claim never dangles: what it names exists, and one thing can give the Task back.
THEOREM ClaimsStayLive == Spec => []ClaimsAreLive
<1>1. IInv => ClaimsAreLive
  BY DEF IInv
<1> QED
  BY <1>1, Invariance, PTL

\* The claimant is the newest Attempt of its Task, and sequences are never given twice.
THEOREM ClaimantIsLatest == Spec => []ClaimIsLatest
<1>1. IInv => ClaimIsLatest
  BY DEF IInv
<1> QED
  BY <1>1, Invariance, PTL

\* A workspace path is leased to the one Attempt that runs in it.
THEOREM LeasesStayExclusive == Spec => []LeasesAgree
<1>1. IInv => LeasesAgree
  BY DEF IInv
<1> QED
  BY <1>1, Invariance, PTL

\* A workspace id stays at one path, and the workspace of an Attempt stays known.
THEOREM WorkspacesStayStable == Spec => []StableWorkspaces
<1>1. IInv => StableWorkspaces
  BY DEF IInv
<1> QED
  BY <1>1, Invariance, PTL

\* The claims are right in every reachable state: the three facts above together.
THEOREM ClaimsStayRight == Spec => []ClaimsAgree
<1>1. IInv => ClaimsAgree
  BY DEF IInv, ClaimsAgree
<1> QED
  BY <1>1, Invariance, PTL

\* The workspaces are right in every reachable state: leases and identities together.
THEOREM WorkspacesStayRight == Spec => []WorkspacesAgree
<1>1. IInv => WorkspacesAgree
  BY DEF IInv, WorkspacesAgree
<1> QED
  BY <1>1, Invariance, PTL

-----------------------------------------------------------------------------
(* Places *)

RunningTasks == {t \in Tasks : Running(t)}
RunningIn(state) == {t \in Tasks : Running(t) /\ running[t].state = state}

\* The running Tasks are finitely many, because each has an Attempt of its own.
LEMMA RunningFinite ==
  ASSUME IInv
  PROVE  IsFiniteSet(RunningTasks) /\ \A state : IsFiniteSet(RunningIn(state))
<1> DEFINE f == [t \in RunningTasks |-> running[t].attemptId]
<1>1. \A t \in RunningTasks : /\ running[t].attemptId \in AttemptIds
                              /\ attempts[running[t].attemptId].taskId = t
  BY RunningAttempt DEF RunningTasks
<1>2. f \in [RunningTasks -> AttemptIds]
  BY <1>1
<1>3. \A t, u \in RunningTasks : f[t] = f[u] => t = u
  BY <1>1
<1>4. f \in Injection(RunningTasks, AttemptIds)
  BY <1>2, <1>3 DEF Injection, IsInjective
<1>5. IsFiniteSet(RunningTasks)
  BY <1>4, FiniteAssumption, FS_Injection
<1>6. \A state : RunningIn(state) \in SUBSET RunningTasks
  BY DEF RunningIn, RunningTasks
<1> QED
  BY <1>5, <1>6, FS_Subset

\* The Task t starts in a place there is for its state.
LEMMA StartFits ==
  ASSUME IInv, NEW t \in Tasks, NEW entry, ~Running(t), entry # None,
         entry.state \in TaskStates, HasCapacity(entry.state),
         running' = [running EXCEPT ![t] = entry]
  PROVE  \A u \in Tasks : ~Running(u) /\ Running(u)' =>
           /\ Cardinality({v \in Tasks : Running(v)'}) <= policy.maxConcurrentAgents
           /\ Cardinality({v \in Tasks : Running(v)' /\ running'[v].state = running'[u].state})
                <= policy.maxPerState[running'[u].state]
<1>1. running'[t] = entry /\ \A v \in Tasks \ {t} : running'[v] = running[v]
  BY DEF IInv, TypeOK
<1>2. \A u \in Tasks : ~Running(u) /\ Running(u)' => u = t
  BY <1>1 DEF Running
<1>3. {v \in Tasks : Running(v)'} = RunningTasks \cup {t}
  BY <1>1 DEF RunningTasks, Running
<1>4. {v \in Tasks : Running(v)' /\ running'[v].state = entry.state}
        = RunningIn(entry.state) \cup {t}
  BY <1>1 DEF RunningIn, Running
<1>5. /\ IsFiniteSet(RunningTasks) /\ t \notin RunningTasks
      /\ IsFiniteSet(RunningIn(entry.state)) /\ t \notin RunningIn(entry.state)
  BY RunningFinite DEF RunningTasks, RunningIn
<1>6. /\ policy.maxConcurrentAgents \in Nat
      /\ policy.maxPerState[entry.state] \in Nat
  BY PoliciesAssumption DEF IInv, TypeOK
<1>7. /\ Cardinality(RunningTasks) < policy.maxConcurrentAgents
      /\ Cardinality(RunningIn(entry.state)) < policy.maxPerState[entry.state]
  BY DEF HasCapacity, RunningTasks, RunningIn
<1>8. /\ Cardinality(RunningTasks) \in Nat
      /\ Cardinality(RunningIn(entry.state)) \in Nat
      /\ Cardinality(RunningTasks \cup {t}) = Cardinality(RunningTasks) + 1
      /\ Cardinality(RunningIn(entry.state) \cup {t}) = Cardinality(RunningIn(entry.state)) + 1
  BY <1>5, FS_AddElement, FS_CardinalityType
<1>9. /\ Cardinality(RunningTasks \cup {t}) <= policy.maxConcurrentAgents
      /\ Cardinality(RunningIn(entry.state) \cup {t}) <= policy.maxPerState[entry.state]
  BY <1>6, <1>7, <1>8
<1>10. Cardinality({v \in Tasks : Running(v)'}) <= policy.maxConcurrentAgents
  BY <1>3, <1>9
<1>11. Cardinality({v \in Tasks : Running(v)' /\ running'[v].state = entry.state})
         <= policy.maxPerState[entry.state]
  BY <1>4, <1>9
<1>12. running'[t].state = entry.state
  BY <1>1
<1> QED
  BY <1>2, <1>10, <1>11, <1>12

LEMMA ReserveFits ==
  ASSUME IInv, NEW a \in AttemptIds, NEW t \in Tasks, NEW w \in Workspaces,
         NEW s \in Summaries, NEW n, NEW reason, NEW failures \in Nat,
         claims[t] = None \/ retries[t] # None,
         Reserve(a, t, w, s, n, reason, failures)
  PROVE  \A u \in Tasks : ~Running(u) /\ Running(u)' =>
           /\ Cardinality({v \in Tasks : Running(v)'}) <= policy.maxConcurrentAgents
           /\ Cardinality({v \in Tasks : Running(v)' /\ running'[v].state = running'[u].state})
                <= policy.maxPerState[running'[u].state]
<1> DEFINE entry == [attemptId |-> a, workspace |-> w, state |-> s.state,
                     failureRetryAttempt |-> failures]
<1>1. running' = [running EXCEPT ![t] = entry] /\ HasCapacity(s.state)
  BY DEF Reserve
<1>2. s.state \in TaskStates
  BY SummariesAssumption
<1>3. entry \in RunningRecords /\ entry.state = s.state
  BY <1>2 DEF RunningRecords
<1>4. entry # None
  BY <1>3, NoneAssumption
<1>5. ~Running(t)
  BY FreeTask
<1> HIDE DEF entry
<1> QED
  BY <1>1, <1>2, <1>3, <1>4, <1>5, StartFits

LEMMA ResumeFits ==
  ASSUME IInv, NEW a \in AttemptIds, NEW w \in Workspaces, NEW s \in Summaries,
         NEW f \in BOOLEAN, ResumePausedAttempt(a, w, s, f)
  PROVE  \A u \in Tasks : ~Running(u) /\ Running(u)' =>
           /\ Cardinality({v \in Tasks : Running(v)'}) <= policy.maxConcurrentAgents
           /\ Cardinality({v \in Tasks : Running(v)' /\ running'[v].state = running'[u].state})
                <= policy.maxPerState[running'[u].state]
<1> DEFINE t == attempts[a].taskId
           entry == [attemptId |-> a, workspace |-> w, state |-> s.state,
                     failureRetryAttempt |-> KeptFailures(a)]
<1>1. /\ running' = [running EXCEPT ![t] = entry] /\ HasCapacity(s.state)
      /\ ~Running(t)
  BY DEF ResumePausedAttempt
<1>2. s.state \in TaskStates /\ KeptFailures(a) \in Nat /\ t \in Tasks
  BY SummariesAssumption, AttemptFacts DEF KeptFailures, IInv, TypeOK, ResumePausedAttempt, Paused
<1>3. entry \in RunningRecords /\ entry.state = s.state
  BY <1>2 DEF RunningRecords
<1>4. entry # None
  BY <1>3, NoneAssumption
<1> HIDE DEF entry, t
<1> QED
  BY <1>1, <1>2, <1>3, <1>4, StartFits

\* No other operation starts a Task.
LEMMA ReconcileStartsNone ==
  ASSUME NEW seen, Reconcile(seen), NEW t \in Tasks, ~Running(t)
  PROVE  ~Running(t)'
<1> DEFINE stopped == {a \in AttemptIds : /\ IsRunning(a) /\ attempts[a].controller # "codex"
                         /\ attempts[a].taskId \in
                              {u \in Tasks : IF seen[u] = None THEN TRUE ELSE ~Eligible(seen[u])}}
<1>1. RunningWithout(stopped)[t] = None
  BY DEF RunningWithout, Running
<1> HIDE DEF stopped
<1>2. running'[t] = None
  <2>1. running' = [u \in Tasks |->
           IF \/ RunningWithout(stopped)[u] = None
              \/ u \in {v \in Tasks : IF seen[v] = None THEN TRUE ELSE ~Eligible(seen[v])}
           THEN RunningWithout(stopped)[u]
           ELSE IF attempts[running[u].attemptId].controller # "codex"
           THEN [running[u] EXCEPT !.state = seen[u].state]
           ELSE running[u]]
    BY DEF Reconcile, stopped
  <2> QED
    BY <1>1, <2>1
<1> QED
  BY <1>2 DEF Running

\* A start or resume never exceeds the limits of the policy in force: in all, and for the tracker
\* state of the Task that starts.
THEOREM LimitsAreKept == Spec => StartsWithinLimits
<1> DEFINE Within == \A t \in Tasks : ~Running(t) /\ Running(t)' =>
             /\ Cardinality({u \in Tasks : Running(u)'}) <= policy.maxConcurrentAgents
             /\ Cardinality({u \in Tasks : Running(u)' /\ running'[u].state = running'[t].state})
                  <= policy.maxPerState[running'[t].state]
<1>1. IInv /\ [Next]_vars => [Within]_vars
  <2> SUFFICES ASSUME IInv, Next PROVE Within
    OBVIOUS
  <2>1. ASSUME \A t \in Tasks : Running(t)' => Running(t) PROVE Within
    BY <2>1
  <2>2. CASE Dispatch
    BY <2>2, ReserveFits DEF Dispatch, ReserveAttempt
  <2>3. CASE Run
    <3>1. ASSUME NEW a \in AttemptIds, NEW w \in Workspaces, NEW s \in Summaries,
                 NEW f \in BOOLEAN, ResumePausedAttempt(a, w, s, f)
          PROVE  Within
      BY <3>1, ResumeFits
    <3>2. ASSUME NEW a \in AttemptIds, NEW th \in Threads, NEW tu \in Turns, AttachTurn(a, th, tu)
          PROVE  Within
      BY <3>2, <2>1 DEF AttachTurn, Running
    <3>3. ASSUME NEW a \in AttemptIds, NEW c, PauseAttempt(a, c)
          PROVE  Within
      BY <3>3, <2>1 DEF PauseAttempt, Running, IInv, TypeOK
    <3>4. ASSUME NEW a \in AttemptIds, NEW status, FinishAttempt(a, status)
          PROVE  Within
      BY <3>4, <2>1 DEF FinishAttempt, RunningWithout, Running
    <3>5. ASSUME NEW a \in AttemptIds, NEW p \in Paths, RefreshFinished(a, p)
          PROVE  Within
      BY <3>5, <2>1 DEF RefreshFinished, Running
    <3>6. ASSUME NEW a \in AttemptIds, DeleteAttempt(a)
          PROVE  Within
      BY <3>6, <2>1 DEF DeleteAttempt, Running
    <3> HIDE DEF Within
    <3> QED
      BY <2>3, <3>1, <3>2, <3>3, <3>4, <3>5, <3>6 DEF Run
  <2>4. CASE Retry
    <3>1. ASSUME NEW a \in AttemptIds, NEW t \in Tasks, NEW w \in Workspaces, NEW s \in Summaries,
                 NEW n \in 1..MaxSequence, NEW f \in BOOLEAN, ReserveRetry(a, t, w, s, n, f)
          PROVE  Within
      <4>1. PICK reason \in {"retry", "continuation"}, failures \in Nat :
              Reserve(a, t, w, s, n, reason, failures)
        BY <3>1, RetryReserve DEF IInv
      <4>2. retries[t] # None
        BY <3>1 DEF ReserveRetry, CanTransition
      <4> QED
        BY <4>1, <4>2, ReserveFits
    <3>2. ASSUME NEW t \in Tasks, RetryDue(t) PROVE Within
      BY <3>2, <2>1 DEF RetryDue, Running
    <3>3. ASSUME NEW t \in Tasks, NEW f, NEW s, ReleaseRetry(t, f, s) PROVE Within
      BY <3>3, <2>1 DEF ReleaseRetry, Running
    <3>4. ASSUME NEW t \in Tasks, NEW w, NEW s, NEW f, RequeueRetry(t, w, s, f) PROVE Within
      BY <3>4, <2>1 DEF RequeueRetry, Running
    <3> HIDE DEF Within
    <3> QED
      BY <2>4, <3>1, <3>2, <3>3, <3>4 DEF Retry
  <2>5. CASE Reconciliation
    BY <2>5, <2>1, ReconcileStartsNone DEF Reconciliation
  <2>6. CASE RuntimeRestart
    BY <2>6, <2>1 DEF RuntimeRestart, Restart, Running
  <2>7. CASE WorkflowReload
    BY <2>7, <2>1 DEF WorkflowReload, UpdatePolicy, Running
  <2> HIDE DEF Within
  <2> QED
    BY <2>2, <2>3, <2>4, <2>5, <2>6, <2>7 DEF Next
<1> QED
  BY <1>1, Invariance, PTL DEF Spec, StartsWithinLimits

-----------------------------------------------------------------------------
(* Workspaces to be removed *)

\* A retained workspace has no owner.
LEMMA RetainedIsFree ==
  ASSUME IInv, NEW p \in Paths, workspaces[p] # None, workspaces[p].state = "retained"
  PROVE  workspaceOwners[p] = None
<1> SUFFICES ASSUME workspaceOwners[p] # None PROVE FALSE
  OBVIOUS
<1>1. PICK t \in Tasks : Running(t) /\ running[t].workspace.path = p
  BY DEF IInv, LeasesAgree
<1>2. workspaces[p] = [ref |-> running[t].workspace, state |-> "ready"]
  BY <1>1 DEF IInv, LeasesAgree
<1> QED
  BY <1>2

\* Steps that hand over nothing.
LEMMA NothingToClean ==
  ASSUME cleanup' = {}
  PROVE  CleanupIsIdle'
BY DEF CleanupIsIdle

LEMMA ReleaseCleansIdle ==
  ASSUME IInv, NEW t \in Tasks, NEW f \in BOOLEAN, NEW s \in Summaries \cup {None},
         ReleaseRetry(t, f, s)
  PROVE  CleanupIsIdle'
<1>1. /\ claims' = [claims EXCEPT ![t] = None]
      /\ UNCHANGED <<workspaceOwners, workspaces>>
      /\ cleanup' \subseteq RetainedIds(t)
  BY DEF ReleaseRetry
<1>2. ASSUME NEW p \in Paths, workspaces[p] # None, workspaces[p].ref.id \in cleanup'
      PROVE  workspaceOwners[p] = None /\ claims'[workspaces[p].ref.taskId] = None
  <2>1. PICK q \in Paths : /\ workspaces[q] # None /\ workspaces[q].ref.taskId = t
                           /\ workspaces[q].state = "retained"
                           /\ workspaces[q].ref.id = workspaces[p].ref.id
    BY <1>1, <1>2 DEF RetainedIds
  <2>2. p = q
    BY <1>2, <2>1 DEF IInv, StableWorkspaces
  <2>3. workspaceOwners[p] = None
    BY <2>1, <2>2, RetainedIsFree
  <2>4. claims'[t] = None
    BY <1>1 DEF IInv, TypeOK
  <2> QED
    BY <2>1, <2>2, <2>3, <2>4
<1> QED
  BY <1>1, <1>2 DEF CleanupIsIdle

LEMMA ReconcileCleansIdle ==
  ASSUME IInv, IInv', NEW seen \in [Tasks -> Summaries \cup {None}], Reconcile(seen)
  PROVE  CleanupIsIdle'
<1> DEFINE gone == {t \in Tasks : IF seen[t] = None THEN TRUE ELSE ~Eligible(seen[t])}
           over == {t \in gone : IF seen[t] = None THEN FALSE ELSE Terminal(seen[t])}
           ours(a) == attempts[a].controller # "codex"
           stopped == {a \in AttemptIds : IsRunning(a) /\ ours(a) /\ attempts[a].taskId \in gone}
           canceled == {a \in AttemptIds : Paused(a) /\ ours(a) /\ attempts[a].taskId \in gone}
           ended == stopped \cup canceled
           endedTasks == {attempts[a].taskId : a \in ended}
           released == {t \in gone \ endedTasks : retries[t] # None}
<1>1. /\ claims' = [t \in Tasks |-> IF t \in endedTasks \cup released THEN None ELSE claims[t]]
      /\ workspaceOwners' = OwnersWithout(stopped)
      /\ workspaces' = WorkspacesRetaining(stopped)
      /\ cleanup' = {attempts[a].workspaceId : a \in {b \in ended : attempts[b].taskId \in over}}
                      \cup UNION {RetainedIds(t) : t \in released \cap over}
  BY DEF Reconcile
<1>2. \A a \in ended : Exists(a) /\ ~Finished(a) /\ attempts[a].taskId \in Tasks
  BY RunningAttempt, AttemptFacts DEF IsRunning, Paused, Finished, IInv
<1>3. \A a \in canceled : ~IsRunning(a)
  BY DEF IInv, WorkIsClaimed, Paused, Finished
<1> HIDE DEF stopped, canceled, over, gone
<1>4. ASSUME NEW p \in Paths, workspaces'[p] # None
      PROVE  /\ workspaces[p] # None
             /\ workspaces'[p].ref = workspaces[p].ref
  <2>1. CASE PathOf(p, stopped)
    <3>1. PICK t \in Tasks : Running(t) /\ running[t].workspace.path = p
      BY <2>1 DEF PathOf
    <3>2. workspaces[p] \in KnownRecords
      BY <3>1, RunningFacts DEF IInv
    <3>3. workspaces'[p] = [workspaces[p] EXCEPT !.state = "retained"]
      BY <1>1, <2>1 DEF WorkspacesRetaining
    <3> QED
      BY <3>2, <3>3, NoneAssumption DEF KnownRecords
  <2>2. CASE ~PathOf(p, stopped)
    BY <1>1, <1>4, <2>2 DEF WorkspacesRetaining
  <2> QED
    BY <2>1, <2>2
<1>5. ASSUME NEW p \in Paths, workspaces[p] # None, NEW a \in ended,
             workspaces[p].ref.id = attempts[a].workspaceId
      PROVE  workspaceOwners'[p] = None /\ claims'[workspaces[p].ref.taskId] = None
  <2>1. PICK q \in Paths : /\ workspaces[q] # None
                           /\ workspaces[q].ref.id = attempts[a].workspaceId
                           /\ workspaces[q].ref.taskId = attempts[a].taskId
    BY <1>2, <1>5 DEF IInv, StableWorkspaces, stopped, canceled
  <2>2. p = q /\ workspaces[p].ref.taskId = attempts[a].taskId
    BY <1>5, <2>1 DEF IInv, StableWorkspaces
  <2>3. claims'[attempts[a].taskId] = None
    BY <1>1, <1>2
  <2>4. ASSUME workspaceOwners'[p] # None PROVE FALSE
    <3>1. ~PathOf(p, stopped) /\ workspaceOwners[p] # None
      BY <1>1, <2>4 DEF OwnersWithout
    <3>2. PICK t \in Tasks : /\ Running(t) /\ running[t].workspace.path = p
                             /\ running[t].attemptId = workspaceOwners[p]
      BY <3>1 DEF IInv, LeasesAgree
    <3>3. /\ workspaces[p].ref = running[t].workspace
          /\ running[t].workspace.taskId = t
      <4>1. /\ workspaces[running[t].workspace.path] = [ref |-> running[t].workspace, state |-> "ready"]
            /\ running[t].workspace.taskId = t
        BY <3>2 DEF IInv, LeasesAgree
      <4> QED
        BY <3>2, <4>1
    <3>4. t = attempts[a].taskId
      BY <2>2, <3>3
    <3>5. claims[t] = a
      BY <1>2, <1>5, <3>4 DEF IInv, WorkIsClaimed, stopped, canceled
    <3>6. running[t].attemptId = a
      BY <3>2, <3>5, RunningAttempt
    <3>7. IsRunning(a)
      BY <1>2, <3>2, <3>4, <3>6 DEF IsRunning
    <3>8. a \in stopped
      BY <1>3, <1>5, <3>7
    <3> QED
      BY <3>1, <3>2, <3>6, <3>8 DEF PathOf
  <2> QED
    BY <2>2, <2>3, <2>4
<1>6. ASSUME NEW p \in Paths, workspaces[p] # None, NEW t \in released \cap over,
             workspaces[p].ref.id \in RetainedIds(t)
      PROVE  workspaceOwners'[p] = None /\ claims'[workspaces[p].ref.taskId] = None
  <2>1. PICK q \in Paths : /\ workspaces[q] # None /\ workspaces[q].ref.taskId = t
                           /\ workspaces[q].state = "retained"
                           /\ workspaces[q].ref.id = workspaces[p].ref.id
    BY <1>6 DEF RetainedIds
  <2>2. p = q
    BY <1>6, <2>1 DEF IInv, StableWorkspaces
  <2>3. workspaceOwners[p] = None
    BY <2>1, <2>2, RetainedIsFree
  <2>4. workspaceOwners'[p] = None
    BY <1>1, <2>3 DEF OwnersWithout
  <2>5. t \in Tasks /\ claims'[t] = None
    BY <1>1, <1>6 DEF gone
  <2> QED
    BY <2>1, <2>2, <2>4, <2>5
<1> HIDE DEF ended, released
<1>7. ASSUME NEW p \in Paths, workspaces'[p] # None, workspaces'[p].ref.id \in cleanup'
      PROVE  workspaceOwners'[p] = None /\ claims'[workspaces'[p].ref.taskId] = None
  <2>1. workspaces[p] # None /\ workspaces'[p].ref = workspaces[p].ref
    BY <1>4, <1>7
  <2>2. \/ \E a \in ended : workspaces[p].ref.id = attempts[a].workspaceId
        \/ \E t \in released \cap over : workspaces[p].ref.id \in RetainedIds(t)
    BY <1>1, <1>7, <2>1
  <2> QED
    BY <1>5, <1>6, <2>1, <2>2
<1> QED
  BY <1>7 DEF CleanupIsIdle

\* What the scheduler hands over to be removed is idle: nobody runs in the workspace, and no
\* Attempt has a claim with which it could come back to it.
THEOREM CleanupStaysIdle == Spec => []CleanupIsIdle
<1>1. Init => CleanupIsIdle
  BY DEF Init, CleanupIsIdle
<1>2. IInv /\ IInv' /\ CleanupIsIdle /\ [Next]_vars => CleanupIsIdle'
  <2> SUFFICES ASSUME IInv, IInv', CleanupIsIdle, [Next]_vars PROVE CleanupIsIdle'
    OBVIOUS
  <2>1. CASE Dispatch
    BY <2>1, NothingToClean DEF Dispatch, ReserveAttempt, Reserve
  <2>2. CASE Run
    BY <2>2, NothingToClean DEF Run, AttachTurn, PauseAttempt, ResumePausedAttempt, FinishAttempt,
                                RefreshFinished, DeleteAttempt
  <2>3. CASE Retry
    <3>1. ASSUME NEW t \in Tasks, NEW f \in BOOLEAN, NEW s \in Summaries \cup {None},
                 ReleaseRetry(t, f, s)
          PROVE  CleanupIsIdle'
      BY <3>1, ReleaseCleansIdle
    <3>2. ASSUME NEW t \in Tasks, RetryDue(t) PROVE CleanupIsIdle'
      BY <3>2, NothingToClean DEF RetryDue
    <3>3. ASSUME NEW t \in Tasks, NEW w, NEW s, NEW f, RequeueRetry(t, w, s, f) PROVE CleanupIsIdle'
      BY <3>3, NothingToClean DEF RequeueRetry
    <3>4. ASSUME NEW a, NEW t, NEW w, NEW s, NEW n, NEW f, ReserveRetry(a, t, w, s, n, f)
          PROVE  CleanupIsIdle'
      BY <3>4, NothingToClean DEF ReserveRetry, Reserve
    <3> QED
      BY <2>3, <3>1, <3>2, <3>3, <3>4 DEF Retry
  <2>4. CASE Reconciliation
    BY <2>4, ReconcileCleansIdle DEF Reconciliation
  <2>5. CASE RuntimeRestart
    BY <2>5, NothingToClean DEF RuntimeRestart, Restart
  <2>6. CASE WorkflowReload
    BY <2>6, NothingToClean DEF WorkflowReload, UpdatePolicy
  <2>7. CASE UNCHANGED vars
    BY <2>7 DEF vars, ownership, CleanupIsIdle
  <2> QED
    BY <2>1, <2>2, <2>3, <2>4, <2>5, <2>6, <2>7 DEF Next
<1> QED
  BY <1>1, <1>2, Invariance, PTL DEF Spec

-----------------------------------------------------------------------------
(* Sessions *)

Live(a) == Exists(a) /\ attempts[a].status \in LiveStatuses

\* Until the first restart: a Turn belongs to a live Attempt with a session, a live Attempt with a
\* session has it to itself, and a paused one keeps it.
SInv ==
  /\ \A tu \in Turns, a \in AttemptIds :
       activeTurns[tu] = a <=> Exists(a) /\ attempts[a].activeTurn = tu
  /\ \A a \in AttemptIds : Exists(a) /\ attempts[a].activeTurn # None =>
       Live(a) /\ attempts[a].thread # None
  /\ \A a \in AttemptIds : Live(a) /\ attempts[a].thread # None =>
       activeThreads[attempts[a].thread] = a
  /\ \A a \in AttemptIds : Paused(a) =>
       /\ attempts[a].thread # None
       /\ pausedThreads[attempts[a].thread] = a
       /\ activeThreads[attempts[a].thread] \in {None, a}

\* SInv says nothing else of the maps.
LEMMA SessionsSame ==
  ASSUME SInv, UNCHANGED <<attempts, sessions>>
  PROVE  SInv'
BY DEF SInv, sessions, Live, Paused, Exists

LEMMA SessionsReserve ==
  ASSUME IInv, SInv, NEW a \in AttemptIds, NEW t \in Tasks, NEW w \in Workspaces,
         NEW s \in Summaries, NEW n \in 1..MaxSequence,
         NEW reason \in {"dispatch", "retry", "continuation"}, NEW failures \in Nat,
         Reserve(a, t, w, s, n, reason, failures)
  PROVE  SInv'
<1> DEFINE new == [taskId |-> t, sequence |-> n, startReason |-> reason,
                   status |-> "preparing_workspace", controller |-> "symphoneer",
                   workspaceId |-> w.id, activeTurn |-> None, thread |-> None]
<1>1. ~Exists(a) /\ attempts' = [attempts EXCEPT ![a] = new] /\ UNCHANGED sessions
  BY DEF Reserve, IInv, IdsAreDrawn
<1>2. /\ attempts'[a] = new
      /\ \A b \in AttemptIds \ {a} : attempts'[b] = attempts[b]
  BY <1>1 DEF IInv, TypeOK
<1>3. new.activeTurn = None /\ new.thread = None /\ new.status = "preparing_workspace"
  OBVIOUS
<1> HIDE DEF new
<1>4. ~Paused(a)' /\ (Exists(a)' => attempts'[a].activeTurn = None /\ attempts'[a].thread = None)
  BY <1>2, <1>3 DEF Paused
<1>5. \A b \in AttemptIds \ {a} : /\ Exists(b)' = Exists(b) /\ Live(b)' = Live(b)
                                  /\ Paused(b)' = Paused(b)
  BY <1>2 DEF Exists, Live, Paused
<1>6. \A tu \in Turns : tu # None /\ activeTurns[tu] # a
  BY <1>1, NoneAssumption DEF SInv
<1> QED
  BY <1>1, <1>2, <1>4, <1>5, <1>6 DEF SInv, sessions, Live

LEMMA SessionsAttach ==
  ASSUME IInv, SInv, NEW a \in AttemptIds, NEW th \in Threads, NEW tu \in Turns,
         AttachTurn(a, th, tu)
  PROVE  SInv'
<1>1. /\ IsRunning(a) /\ attempts[a].thread \in {None, th} /\ attempts[a].activeTurn # tu
      /\ pausedThreads[th] = None /\ activeTurns[tu] = None /\ activeThreads[th] \in {None, a}
      /\ pausedThreads' = pausedThreads
  BY DEF AttachTurn, SessionFree
<1>2. Exists(a) /\ attempts[a] \in AttemptRecords /\ attempts[a].status \in LiveStatuses
  BY <1>1, RunningAttempt, AttemptFacts DEF IsRunning, IInv
<1>3. /\ attempts' = [attempts EXCEPT ![a].status = "streaming_turn", ![a].activeTurn = tu,
                                      ![a].thread = th]
      /\ activeTurns' = [u \in Turns |-> IF u = tu THEN a
                                          ELSE IF u = attempts[a].activeTurn THEN None
                                          ELSE activeTurns[u]]
      /\ activeThreads' = [activeThreads EXCEPT ![th] = a]
  BY DEF AttachTurn
<1>4. /\ attempts'[a] \in AttemptRecords
      /\ \A b \in AttemptIds \ {a} : attempts'[b] = attempts[b]
  BY <1>2, <1>3, AttemptUpdate DEF IInv, TypeOK
<1>5. /\ attempts'[a].status = "streaming_turn" /\ attempts'[a].activeTurn = tu
      /\ attempts'[a].thread = th
  BY <1>2, <1>3 DEF IInv, TypeOK, AttemptRecords
<1>6. Exists(a)' /\ Live(a)' /\ ~Paused(a)'
  BY <1>4, <1>5, NoneAssumption DEF Exists, Live, Paused
<1>7. \A b \in AttemptIds \ {a} : /\ Exists(b)' = Exists(b) /\ Live(b)' = Live(b)
                                  /\ Paused(b)' = Paused(b)
  BY <1>4 DEF Exists, Live, Paused
<1>8. th # None /\ tu # None /\ a # None
  BY NoneAssumption
<1>9. activeThreads'[th] = a /\ \A x \in Threads \ {th} : activeThreads'[x] = activeThreads[x]
  BY <1>3 DEF IInv, TypeOK
<1>10. \A b \in AttemptIds : Exists(b) => attempts[b].thread \in Threads \cup {None}
  BY AttemptFacts DEF IInv
<1>11. \A u \in Turns, b \in AttemptIds :
         activeTurns'[u] = b <=> Exists(b)' /\ attempts'[b].activeTurn = u
  <2>1. ASSUME NEW u \in Turns, NEW b \in AttemptIds \ {a}
        PROVE  activeTurns'[u] = b <=> Exists(b)' /\ attempts'[b].activeTurn = u
    <3>1. activeTurns[u] = b <=> Exists(b) /\ attempts[b].activeTurn = u
      BY DEF SInv
    <3>2. u = attempts[a].activeTurn => activeTurns[u] = a
      BY <1>2 DEF SInv
    <3>3. b # None
      BY NoneAssumption
    <3> QED
      BY <1>1, <1>3, <1>4, <1>7, <3>1, <3>2, <3>3
  <2>2. ASSUME NEW u \in Turns
        PROVE  activeTurns'[u] = a <=> Exists(a)' /\ attempts'[a].activeTurn = u
    <3>1. activeTurns[u] = a <=> attempts[a].activeTurn = u
      BY <1>2 DEF SInv
    <3> QED
      BY <1>3, <1>5, <1>6, <1>8, <3>1
  <2> QED
    BY <2>1, <2>2
<1>12. \A b \in AttemptIds : Exists(b)' /\ attempts'[b].activeTurn # None =>
         Live(b)' /\ attempts'[b].thread # None
  BY <1>4, <1>5, <1>6, <1>7, <1>8 DEF SInv
<1>13. \A b \in AttemptIds : Live(b)' /\ attempts'[b].thread # None =>
         activeThreads'[attempts'[b].thread] = b
  <2>1. ASSUME NEW b \in AttemptIds \ {a}, Live(b), attempts[b].thread # None
        PROVE  activeThreads'[attempts[b].thread] = b
    <3>1. activeThreads[attempts[b].thread] = b /\ attempts[b].thread \in Threads /\ b # None
      BY <2>1, <1>10, NoneAssumption DEF SInv, Live
    <3>2. attempts[b].thread # th
      BY <1>1, <3>1
    <3> QED
      BY <1>9, <3>1, <3>2
  <2> QED
    BY <1>4, <1>5, <1>7, <1>9, <2>1
<1>14. \A b \in AttemptIds : Paused(b)' =>
         /\ attempts'[b].thread # None
         /\ pausedThreads'[attempts'[b].thread] = b
         /\ activeThreads'[attempts'[b].thread] \in {None, b}
  <2>1. ASSUME NEW b \in AttemptIds \ {a}, Paused(b)
        PROVE  /\ attempts[b].thread # None
               /\ pausedThreads[attempts[b].thread] = b
               /\ activeThreads'[attempts[b].thread] \in {None, b}
    <3>1. /\ attempts[b].thread # None /\ pausedThreads[attempts[b].thread] = b /\ b # None
          /\ activeThreads[attempts[b].thread] \in {None, b} /\ attempts[b].thread \in Threads
      BY <2>1, <1>10, NoneAssumption DEF SInv, Paused
    <3>2. attempts[b].thread # th
      BY <1>1, <3>1
    <3> QED
      BY <1>9, <3>1, <3>2
  <2> QED
    BY <1>1, <1>4, <1>6, <1>7, <2>1
<1> QED
  BY <1>11, <1>12, <1>13, <1>14 DEF SInv

LEMMA SessionsPause ==
  ASSUME IInv, SInv, NEW a \in AttemptIds, NEW c \in {"symphoneer", "codex"}, PauseAttempt(a, c)
  PROVE  SInv'
<1> DEFINE th == attempts[a].thread
<1>1. /\ IsRunning(a) /\ th # None
      /\ attempts' = [attempts EXCEPT ![a].status = "paused", ![a].activeTurn = None,
                                      ![a].controller = c]
      /\ pausedThreads' = [pausedThreads EXCEPT ![th] = a]
      /\ activeTurns' = TurnsWithout({a})
      /\ \/ activeThreads' = [activeThreads EXCEPT ![th] = None]
         \/ activeThreads' = activeThreads
  BY DEF PauseAttempt
<1>2. Live(a) /\ attempts[a] \in AttemptRecords /\ th \in Threads
  BY <1>1, RunningAttempt, AttemptFacts DEF IsRunning, IInv, Live
<1>3. activeThreads[th] = a
  BY <1>1, <1>2 DEF SInv
<1>4. /\ attempts'[a] \in AttemptRecords
      /\ \A b \in AttemptIds \ {a} : attempts'[b] = attempts[b]
  BY <1>1, <1>2, AttemptUpdate DEF IInv, TypeOK
<1>5. /\ attempts'[a].status = "paused" /\ attempts'[a].activeTurn = None
      /\ attempts'[a].thread = th
  BY <1>1, <1>2 DEF IInv, TypeOK, AttemptRecords
<1>6. Exists(a)' /\ ~Live(a)' /\ Paused(a)'
  BY <1>4, <1>5, NoneAssumption DEF Exists, Live, Paused
<1>7. \A b \in AttemptIds \ {a} : /\ Exists(b)' = Exists(b) /\ Live(b)' = Live(b)
                                  /\ Paused(b)' = Paused(b)
  BY <1>4 DEF Exists, Live, Paused
<1>8. a # None /\ \A u \in Turns : u # None
  BY NoneAssumption
<1>9. /\ pausedThreads'[th] = a /\ activeThreads'[th] \in {None, a}
      /\ \A x \in Threads \ {th} : /\ pausedThreads'[x] = pausedThreads[x]
                                   /\ activeThreads'[x] = activeThreads[x]
  <2>1. pausedThreads'[th] = a /\ \A x \in Threads \ {th} : pausedThreads'[x] = pausedThreads[x]
    BY <1>1, <1>2 DEF IInv, TypeOK
  <2>2. activeThreads'[th] \in {None, a} /\ \A x \in Threads \ {th} : activeThreads'[x] = activeThreads[x]
    BY <1>1, <1>2, <1>3 DEF IInv, TypeOK
  <2> QED
    BY <2>1, <2>2
<1>10. ASSUME NEW b \in AttemptIds \ {a}, Live(b) \/ Paused(b), attempts[b].thread # None
       PROVE  attempts[b].thread \in Threads \ {th}
  <2>1. attempts[b].thread \in Threads
    BY <1>10, AttemptFacts DEF IInv, Live, Paused
  <2>2. activeThreads[attempts[b].thread] \in {None, b}
    BY <1>10 DEF SInv
  <2> QED
    BY <1>3, <1>8, <2>1, <2>2
<1>11. \A u \in Turns, b \in AttemptIds :
         activeTurns'[u] = b <=> Exists(b)' /\ attempts'[b].activeTurn = u
  <2>1. ASSUME NEW u \in Turns
        PROVE  activeTurns'[u] = IF attempts[a].activeTurn = u THEN None ELSE activeTurns[u]
    BY <1>1 DEF TurnsWithout
  <2>2. ASSUME NEW u \in Turns, NEW b \in AttemptIds \ {a}
        PROVE  activeTurns'[u] = b <=> Exists(b)' /\ attempts'[b].activeTurn = u
    <3>1. activeTurns[u] = b <=> Exists(b) /\ attempts[b].activeTurn = u
      BY DEF SInv
    <3>2. u = attempts[a].activeTurn => activeTurns[u] = a
      BY <1>2 DEF SInv, Live
    <3>3. b # None
      BY NoneAssumption
    <3> QED
      BY <1>4, <1>7, <2>1, <3>1, <3>2, <3>3
  <2>3. ASSUME NEW u \in Turns
        PROVE  activeTurns'[u] # a
    <3>1. activeTurns[u] = a => attempts[a].activeTurn = u
      BY DEF SInv
    <3> QED
      BY <1>8, <2>1, <3>1
  <2> QED
    BY <1>5, <1>8, <2>2, <2>3
<1>12. \A b \in AttemptIds : Exists(b)' /\ attempts'[b].activeTurn # None =>
         Live(b)' /\ attempts'[b].thread # None
  BY <1>4, <1>5, <1>7 DEF SInv
<1>13. \A b \in AttemptIds : Live(b)' /\ attempts'[b].thread # None =>
         activeThreads'[attempts'[b].thread] = b
  BY <1>4, <1>6, <1>7, <1>9, <1>10 DEF SInv
<1>14. \A b \in AttemptIds : Paused(b)' =>
         /\ attempts'[b].thread # None
         /\ pausedThreads'[attempts'[b].thread] = b
         /\ activeThreads'[attempts'[b].thread] \in {None, b}
  <2>1. ASSUME NEW b \in AttemptIds \ {a}, Paused(b)
        PROVE  /\ attempts[b].thread # None
               /\ pausedThreads'[attempts[b].thread] = b
               /\ activeThreads'[attempts[b].thread] \in {None, b}
    <3>1. /\ attempts[b].thread # None /\ pausedThreads[attempts[b].thread] = b
          /\ activeThreads[attempts[b].thread] \in {None, b}
      BY <2>1 DEF SInv
    <3>2. attempts[b].thread \in Threads \ {th}
      BY <1>10, <2>1, <3>1
    <3> QED
      BY <1>9, <3>1, <3>2
  <2>2. /\ attempts'[a].thread # None
        /\ pausedThreads'[attempts'[a].thread] = a
        /\ activeThreads'[attempts'[a].thread] \in {None, a}
    BY <1>1, <1>5, <1>9
  <2>3. ASSUME NEW b \in AttemptIds \ {a}, Paused(b)'
        PROVE  /\ attempts'[b].thread # None
               /\ pausedThreads'[attempts'[b].thread] = b
               /\ activeThreads'[attempts'[b].thread] \in {None, b}
    <3>1. Paused(b) /\ attempts'[b] = attempts[b]
      BY <1>4, <1>7, <2>3
    <3> QED
      BY <2>1, <3>1
  <2> QED
    BY <2>2, <2>3
<1> QED
  BY <1>11, <1>12, <1>13, <1>14 DEF SInv

LEMMA SessionsResume ==
  ASSUME IInv, SInv, NEW a \in AttemptIds, NEW w \in Workspaces, NEW s \in Summaries,
         NEW f \in BOOLEAN, ResumePausedAttempt(a, w, s, f)
  PROVE  SInv'
<1> DEFINE th == attempts[a].thread
<1>1. /\ Paused(a)
      /\ attempts' = [attempts EXCEPT ![a].status = "launching_agent",
                                      ![a].controller = "symphoneer"]
      /\ pausedThreads' = [pausedThreads EXCEPT ![th] = IF @ = a THEN None ELSE @]
      /\ activeThreads' = [activeThreads EXCEPT ![th] = a]
      /\ activeTurns' = activeTurns
  BY DEF ResumePausedAttempt
<1>2. Exists(a) /\ attempts[a] \in AttemptRecords /\ th \in Threads
  BY <1>1, AttemptFacts DEF IInv, SInv, Paused
<1>3. pausedThreads[th] = a /\ activeThreads[th] \in {None, a} /\ a # None
  BY <1>1, NoneAssumption DEF SInv
<1>4. attempts[a].activeTurn = None
  BY <1>1 DEF SInv, Live, Paused
<1>5. /\ attempts'[a] \in AttemptRecords
      /\ \A b \in AttemptIds \ {a} : attempts'[b] = attempts[b]
  BY <1>1, <1>2, AttemptUpdate DEF IInv, TypeOK
<1>6. /\ attempts'[a].status = "launching_agent" /\ attempts'[a].activeTurn = None
      /\ attempts'[a].thread = th
  BY <1>1, <1>2, <1>4 DEF IInv, TypeOK, AttemptRecords
<1>7. Exists(a)' /\ Live(a)' /\ ~Paused(a)'
  BY <1>5, <1>6, NoneAssumption DEF Exists, Live, Paused
<1>8. \A b \in AttemptIds \ {a} : /\ Exists(b)' = Exists(b) /\ Live(b)' = Live(b)
                                  /\ Paused(b)' = Paused(b)
  BY <1>5 DEF Exists, Live, Paused
<1>9. /\ activeThreads'[th] = a
      /\ \A x \in Threads \ {th} : /\ pausedThreads'[x] = pausedThreads[x]
                                   /\ activeThreads'[x] = activeThreads[x]
  BY <1>1, <1>2 DEF IInv, TypeOK
<1>10. ASSUME NEW b \in AttemptIds \ {a}, Live(b) \/ Paused(b), attempts[b].thread # None
       PROVE  attempts[b].thread \in Threads \ {th}
  <2>1. attempts[b].thread \in Threads /\ b # None
    BY <1>10, AttemptFacts, NoneAssumption DEF IInv, Live, Paused
  <2>2. \/ activeThreads[attempts[b].thread] = b
        \/ pausedThreads[attempts[b].thread] = b
    BY <1>10 DEF SInv
  <2> QED
    BY <1>3, <2>1, <2>2
<1>11. \A u \in Turns, b \in AttemptIds :
         activeTurns'[u] = b <=> Exists(b)' /\ attempts'[b].activeTurn = u
  <2>1. ASSUME NEW u \in Turns, NEW b \in AttemptIds \ {a}
        PROVE  activeTurns'[u] = b <=> Exists(b)' /\ attempts'[b].activeTurn = u
    <3>1. activeTurns[u] = b <=> Exists(b) /\ attempts[b].activeTurn = u
      BY DEF SInv
    <3> QED
      BY <1>1, <1>5, <1>8, <3>1
  <2>2. ASSUME NEW u \in Turns
        PROVE  activeTurns'[u] # a /\ u # None
    <3>1. activeTurns[u] = a => attempts[a].activeTurn = u
      BY DEF SInv
    <3> QED
      BY <1>1, <1>4, <3>1, NoneAssumption
  <2> QED
    BY <1>6, <2>1, <2>2
<1>12. \A b \in AttemptIds : Exists(b)' /\ attempts'[b].activeTurn # None =>
         Live(b)' /\ attempts'[b].thread # None
  BY <1>5, <1>6, <1>8 DEF SInv
<1>13. \A b \in AttemptIds : Live(b)' /\ attempts'[b].thread # None =>
         activeThreads'[attempts'[b].thread] = b
  BY <1>5, <1>6, <1>8, <1>9, <1>10 DEF SInv
<1>14. \A b \in AttemptIds : Paused(b)' =>
         /\ attempts'[b].thread # None
         /\ pausedThreads'[attempts'[b].thread] = b
         /\ activeThreads'[attempts'[b].thread] \in {None, b}
  BY <1>5, <1>7, <1>8, <1>9, <1>10 DEF SInv
<1> QED
  BY <1>11, <1>12, <1>13, <1>14 DEF SInv

LEMMA SessionsDelete ==
  ASSUME IInv, SInv, NEW a \in AttemptIds, DeleteAttempt(a)
  PROVE  SInv'
<1> DEFINE Purge(owner) == IF owner = a THEN None ELSE owner
<1>1. /\ attempts' = [attempts EXCEPT ![a] = None]
      /\ activeTurns' = [tu \in Turns |-> Purge(activeTurns[tu])]
      /\ activeThreads' = [th \in Threads |-> Purge(activeThreads[th])]
      /\ pausedThreads' = [th \in Threads |-> Purge(pausedThreads[th])]
  BY DEF DeleteAttempt
<1>2. attempts'[a] = None /\ \A b \in AttemptIds \ {a} : attempts'[b] = attempts[b]
  BY <1>1 DEF IInv, TypeOK
<1>3. ~Exists(a)' /\ ~Live(a)' /\ ~Paused(a)'
  BY <1>2 DEF Exists, Live, Paused
<1>4. \A b \in AttemptIds \ {a} : /\ Exists(b)' = Exists(b) /\ Live(b)' = Live(b)
                                  /\ Paused(b)' = Paused(b)
  BY <1>2 DEF Exists, Live, Paused
<1>5. \A b \in AttemptIds : Live(b) \/ Paused(b) => attempts[b].thread \in Threads \cup {None}
  BY AttemptFacts DEF IInv, Live, Paused
<1>6. \A b \in AttemptIds : b # None
  BY NoneAssumption
<1>7. \A u \in Turns, b \in AttemptIds :
         activeTurns'[u] = b <=> Exists(b)' /\ attempts'[b].activeTurn = u
  BY <1>1, <1>2, <1>3, <1>4, <1>6 DEF SInv
<1>8. \A b \in AttemptIds : Exists(b)' /\ attempts'[b].activeTurn # None =>
         Live(b)' /\ attempts'[b].thread # None
  BY <1>2, <1>3, <1>4 DEF SInv
<1>9. \A b \in AttemptIds : Live(b)' /\ attempts'[b].thread # None =>
         activeThreads'[attempts'[b].thread] = b
  BY <1>1, <1>2, <1>3, <1>4, <1>5 DEF SInv
<1>10. \A b \in AttemptIds : Paused(b)' =>
         /\ attempts'[b].thread # None
         /\ pausedThreads'[attempts'[b].thread] = b
         /\ activeThreads'[attempts'[b].thread] \in {None, b}
  BY <1>1, <1>2, <1>3, <1>4, <1>5 DEF SInv
<1> QED
  BY <1>7, <1>8, <1>9, <1>10 DEF SInv

\* Live Attempts and paused ones end, one or several at once.
LEMMA SessionsEnd ==
  ASSUME IInv, SInv, NEW stopped \in SUBSET AttemptIds, NEW canceled \in SUBSET AttemptIds,
         NEW status \in TerminalStatuses,
         \A a \in stopped : Live(a), \A a \in canceled : Paused(a),
         attempts' = [a \in AttemptIds |->
           IF a \in stopped \cup canceled THEN Ended(a, status) ELSE attempts[a]],
         activeTurns' = TurnsWithout(stopped),
         activeThreads' = ThreadsWithout(stopped),
         \A th \in Threads : \/ pausedThreads'[th] = pausedThreads[th]
                             \/ \E a \in canceled : pausedThreads[th] = a
  PROVE  SInv'
<1> DEFINE ended == stopped \cup canceled
<1>1. \A a \in ended : Exists(a) /\ attempts[a] \in AttemptRecords
  BY AttemptFacts DEF IInv, Live, Paused
<1>2. \A a \in ended : attempts'[a].status = status /\ attempts'[a].activeTurn = None
  BY <1>1 DEF Ended, AttemptRecords
<1>3. \A a \in ended : ~Live(a)' /\ ~Paused(a)'
  BY <1>2 DEF Live, Paused
<1>4. \A b \in AttemptIds \ ended : attempts'[b] = attempts[b]
  OBVIOUS
<1>5. \A b \in AttemptIds \ ended : /\ Exists(b)' = Exists(b) /\ Live(b)' = Live(b)
                                    /\ Paused(b)' = Paused(b)
  BY <1>4 DEF Exists, Live, Paused
<1>6. \A b \in AttemptIds : Live(b) \/ Paused(b) => attempts[b].thread \in Threads \cup {None}
  BY AttemptFacts DEF IInv, Live, Paused
<1>7. \A b \in AttemptIds : b # None
  BY NoneAssumption
<1>8. \A u \in Turns : u # None
  BY NoneAssumption
<1>9. \A u \in Turns : activeTurns'[u] =
         IF \E a \in stopped : attempts[a].activeTurn = u THEN None ELSE activeTurns[u]
  BY DEF TurnsWithout
<1>10. \A a \in canceled : attempts[a].activeTurn = None
  BY DEF SInv, Live, Paused
<1>11. \A u \in Turns, b \in AttemptIds :
         activeTurns'[u] = b <=> Exists(b)' /\ attempts'[b].activeTurn = u
  <2>1. ASSUME NEW u \in Turns, NEW b \in AttemptIds \ ended
        PROVE  activeTurns'[u] = b <=> Exists(b)' /\ attempts'[b].activeTurn = u
    <3>1. activeTurns[u] = b <=> Exists(b) /\ attempts[b].activeTurn = u
      BY DEF SInv
    <3>2. \A a \in stopped : attempts[a].activeTurn = u => activeTurns[u] = a
      BY <1>1 DEF SInv
    <3> QED
      BY <1>4, <1>5, <1>7, <1>9, <3>1, <3>2
  <2>2. ASSUME NEW u \in Turns, NEW b \in ended
        PROVE  activeTurns'[u] # b
    <3>1. activeTurns[u] = b => attempts[b].activeTurn = u
      BY DEF SInv
    <3>2. b \in AttemptIds /\ (b \in canceled => attempts[b].activeTurn # u)
      BY <1>8, <1>10
    <3> QED
      BY <1>7, <1>9, <3>1, <3>2
  <2> QED
    BY <1>2, <1>8, <2>1, <2>2
<1>12. \A b \in AttemptIds : Exists(b)' /\ attempts'[b].activeTurn # None =>
         Live(b)' /\ attempts'[b].thread # None
  BY <1>2, <1>4, <1>5 DEF SInv
<1>13. ASSUME NEW th \in Threads
       PROVE  \/ activeThreads'[th] = activeThreads[th]
              \/ activeThreads'[th] = None /\ \E a \in stopped : activeThreads[th] = a
  <2>1. \/ activeThreads'[th] = activeThreads[th]
        \/ activeThreads'[th] = None /\ \E a \in stopped : attempts[a].thread = th
    BY DEF ThreadsWithout
  <2>2. \A a \in stopped : attempts[a].thread = th => activeThreads[th] = a
    BY NoneAssumption DEF SInv
  <2> QED
    BY <2>1, <2>2
<1> HIDE DEF ended
<1>14. ASSUME NEW b \in AttemptIds, Live(b)', attempts'[b].thread # None
       PROVE  activeThreads'[attempts'[b].thread] = b
  <2>1. b \notin ended /\ Live(b) /\ attempts'[b] = attempts[b] /\ attempts[b].thread \in Threads
    BY <1>3, <1>4, <1>5, <1>6, <1>14
  <2>2. activeThreads[attempts[b].thread] = b
    BY <1>14, <2>1 DEF SInv
  <2>3. b \notin stopped
    BY <2>1 DEF ended
  <2> QED
    BY <1>13, <2>1, <2>2, <2>3
<1>15. ASSUME NEW b \in AttemptIds, Paused(b)'
       PROVE  /\ attempts'[b].thread # None
              /\ pausedThreads'[attempts'[b].thread] = b
              /\ activeThreads'[attempts'[b].thread] \in {None, b}
  <2>1. b \notin ended /\ Paused(b) /\ attempts'[b] = attempts[b]
    BY <1>3, <1>4, <1>5, <1>15
  <2>2. /\ attempts[b].thread # None /\ attempts[b].thread \in Threads
        /\ pausedThreads[attempts[b].thread] = b
        /\ activeThreads[attempts[b].thread] \in {None, b}
    BY <1>6, <2>1 DEF SInv
  <2>3. b \notin canceled
    BY <2>1 DEF ended
  <2>4. pausedThreads'[attempts[b].thread] = b
    BY <2>2, <2>3
  <2> QED
    BY <1>13, <2>1, <2>2, <2>4
<1> QED
  BY <1>11, <1>12, <1>14, <1>15 DEF SInv

LEMMA SessionsFinish ==
  ASSUME IInv, SInv, NEW a \in AttemptIds, NEW status \in TerminalStatuses,
         FinishAttempt(a, status)
  PROVE  SInv'
<1>1. Live(a)
  BY RunningAttempt, AttemptFacts DEF FinishAttempt, IsRunning, IInv, Live
<1>2. attempts' = [b \in AttemptIds |-> IF b \in {a} \cup {} THEN Ended(b, status) ELSE attempts[b]]
  BY DEF FinishAttempt, IInv, TypeOK
<1>3. /\ activeTurns' = TurnsWithout({a}) /\ activeThreads' = ThreadsWithout({a})
      /\ pausedThreads' = pausedThreads
  BY DEF FinishAttempt
<1>4. {a} \in SUBSET AttemptIds /\ {} \in SUBSET AttemptIds
  OBVIOUS
<1> QED
  BY <1>1, <1>2, <1>3, <1>4, SessionsEnd

LEMMA SessionsReconcile ==
  ASSUME IInv, SInv, NEW seen \in [Tasks -> Summaries \cup {None}], Reconcile(seen)
  PROVE  SInv'
<1> DEFINE gone == {t \in Tasks : IF seen[t] = None THEN TRUE ELSE ~Eligible(seen[t])}
           ours(a) == attempts[a].controller # "codex"
           stopped == {a \in AttemptIds : IsRunning(a) /\ ours(a) /\ attempts[a].taskId \in gone}
           canceled == {a \in AttemptIds : Paused(a) /\ ours(a) /\ attempts[a].taskId \in gone}
<1>1. /\ attempts' = [a \in AttemptIds |->
           IF a \in stopped \cup canceled THEN Ended(a, "canceled_by_reconciliation") ELSE attempts[a]]
      /\ activeTurns' = TurnsWithout(stopped)
      /\ activeThreads' = ThreadsWithout(stopped)
      /\ pausedThreads' = [th \in Threads |->
           IF \E a \in canceled : pausedThreads[th] = a /\ attempts[a].thread = th
           THEN None ELSE pausedThreads[th]]
  BY DEF Reconcile
<1>2. \A a \in stopped : Live(a)
  BY RunningAttempt, AttemptFacts DEF IsRunning, IInv, Live
<1>3. stopped \in SUBSET AttemptIds /\ canceled \in SUBSET AttemptIds /\ \A a \in canceled : Paused(a)
  OBVIOUS
<1> HIDE DEF stopped, canceled
<1>4. \A th \in Threads : \/ pausedThreads'[th] = pausedThreads[th]
                          \/ \E a \in canceled : pausedThreads[th] = a
  BY <1>1
<1> QED
  BY <1>1, <1>2, <1>3, <1>4, SessionsEnd

\* Until the first restart a Turn has one owner, and no session is active for one Attempt while
\* another streams on it or keeps it over a pause. (A restart forgets the sessions kept over a pause.)
THEOREM SessionsStayExclusive == Spec => [](restarts = 0 => SessionsExclusive)
<1>1. Init => (restarts = 0 => SInv)
  BY NoneAssumption DEF Init, SInv, Exists, Live, Paused
<1>2. IInv /\ (restarts = 0 => SInv) /\ [Next]_vars => (restarts = 0 => SInv)'
  <2> SUFFICES ASSUME IInv, restarts = 0 => SInv, [Next]_vars, restarts' = 0 PROVE SInv'
    OBVIOUS
  <2>1. CASE RuntimeRestart
    <3>1. restarts \in Nat /\ restarts' = restarts + 1
      BY <2>1 DEF IInv, TypeOK, RuntimeRestart, Restart
    <3> QED
      BY <3>1
  <2>2. CASE Dispatch
    <3>1. PICK a \in AttemptIds, t \in Tasks, w \in Workspaces, s \in Summaries,
               n \in 1..MaxSequence : ReserveAttempt(a, t, w, s, n)
      BY <2>2 DEF Dispatch
    <3>2. Reserve(a, t, w, s, n, "dispatch", 0) /\ restarts = 0
      BY <3>1 DEF ReserveAttempt, Reserve
    <3> QED
      BY <3>2, SessionsReserve
  <2>3. CASE Run
    <3>1. restarts = 0
      BY <2>3 DEF Run, AttachTurn, PauseAttempt, ResumePausedAttempt, FinishAttempt,
                  RefreshFinished, DeleteAttempt
    <3>2. ASSUME NEW a \in AttemptIds, NEW p \in Paths, RefreshFinished(a, p) PROVE SInv'
      BY <3>1, <3>2, SessionsSame DEF RefreshFinished
    <3> QED
      BY <2>3, <3>1, <3>2, SessionsAttach, SessionsPause, SessionsResume, SessionsFinish,
         SessionsDelete DEF Run
  <2>4. CASE Retry
    <3>1. ASSUME NEW a \in AttemptIds, NEW t \in Tasks, NEW w \in Workspaces, NEW s \in Summaries,
                 NEW n \in 1..MaxSequence, NEW f \in BOOLEAN, ReserveRetry(a, t, w, s, n, f)
          PROVE  SInv'
      <4>1. PICK reason \in {"retry", "continuation"}, failures \in Nat :
              Reserve(a, t, w, s, n, reason, failures)
        BY <3>1, RetryReserve DEF IInv
      <4>2. restarts = 0
        BY <4>1 DEF Reserve
      <4> QED
        BY <4>1, <4>2, SessionsReserve
    <3>2. ASSUME NEW t \in Tasks, RetryDue(t) PROVE SInv'
      BY <3>2, SessionsSame DEF RetryDue
    <3>3. ASSUME NEW t \in Tasks, NEW f, NEW s, ReleaseRetry(t, f, s) PROVE SInv'
      BY <3>3, SessionsSame DEF ReleaseRetry
    <3>4. ASSUME NEW t \in Tasks, NEW w, NEW s, NEW f, RequeueRetry(t, w, s, f) PROVE SInv'
      BY <3>4, SessionsSame DEF RequeueRetry
    <3> QED
      BY <2>4, <3>1, <3>2, <3>3, <3>4 DEF Retry
  <2>5. CASE Reconciliation
    BY <2>5, SessionsReconcile DEF Reconciliation, Reconcile
  <2>6. CASE WorkflowReload
    BY <2>6, SessionsSame DEF WorkflowReload, UpdatePolicy
  <2>7. CASE UNCHANGED vars
    BY <2>7, SessionsSame DEF vars
  <2> QED
    BY <2>1, <2>2, <2>3, <2>4, <2>5, <2>6, <2>7 DEF Next
<1>3. (restarts = 0 => SInv) => (restarts = 0 => SessionsExclusive)
  <2> SUFFICES ASSUME SInv PROVE SessionsExclusive
    OBVIOUS
  <2>1. \A a \in AttemptIds : Exists(a) /\ attempts[a].activeTurn # None =>
          activeThreads[attempts[a].thread] = a
    BY DEF SInv
  <2> QED
    BY <2>1 DEF SInv, SessionsExclusive, Paused
<1> QED
  BY <1>1, <1>2, <1>3, Invariance, PTL DEF Spec

-----------------------------------------------------------------------------
(* Steps of the lease *)

Holds(a) == Phase(a) \in {"running", "paused"}

\* What the lease knows of an Attempt is the same after a step.
Keeps(a) ==
  /\ Phase(a)' = Phase(a)
  /\ Holds(a) => /\ attempts'[a].taskId = attempts[a].taskId
                 /\ attempts'[a].workspaceId = attempts[a].workspaceId

LEMMA PhaseCases ==
  ASSUME IInv, NEW a \in AttemptIds
  PROVE  /\ a \notin usedIds => Phase(a) = "new" /\ ~Exists(a)
         /\ a \in usedIds /\ ~Exists(a) => Phase(a) = "over"
         /\ Paused(a) => Phase(a) = "paused" /\ a \in usedIds
         /\ Exists(a) /\ attempts[a].status \in LiveStatuses => Phase(a) = "running" /\ a \in usedIds
         /\ Finished(a) => Phase(a) = "over" /\ a \in usedIds
         /\ Exists(a) => attempts[a].status \in LiveStatuses \/ Paused(a) \/ Finished(a)
<1>1. Exists(a) => attempts[a] \in AttemptRecords /\ a \in usedIds
  BY AttemptFacts DEF IInv, IdsAreDrawn
<1>2. Exists(a) => attempts[a].status \in LiveStatuses \cup {"paused"} \cup TerminalStatuses
  BY <1>1 DEF AttemptRecords
<1> QED
  BY <1>1, <1>2 DEF Phase, Paused, Finished, Exists

\* An Attempt that holds something runs, and is the running entry of its Task, or is paused.
LEMMA HoldsIsWork ==
  ASSUME IInv, NEW a \in AttemptIds, Holds(a)
  PROVE  /\ Exists(a) /\ ~Finished(a)
         /\ Phase(a) = "running" => IsRunning(a)
<1>1. Exists(a) /\ ~Finished(a)
  BY PhaseCases DEF Holds
<1>2. Phase(a) = "running" => ~Paused(a)
  BY PhaseCases
<1> QED
  BY <1>1, <1>2 DEF IInv, WorkIsClaimed

LEMMA SameKeeps ==
  ASSUME NEW a \in AttemptIds, attempts'[a] = attempts[a], a \in usedIds' <=> a \in usedIds
  PROVE  Keeps(a)
BY DEF Keeps, Phase, Paused, Finished, Exists

LEMMA LeaseQuiet ==
  ASSUME \A a \in AttemptIds : Keeps(a)
  PROVE  UNCHANGED Lease!leaseVars
BY DEF Keeps, Holds, Lease!leaseVars

LEMMA LeaseEnd ==
  ASSUME NEW A \in SUBSET AttemptIds,
         \A a \in A : Holds(a) /\ Phase(a)' = "over",
         \A a \in AttemptIds \ A : Keeps(a)
  PROVE  Lease!Next
<1>1. Lease!End(A)
  BY DEF Keeps, Holds, Lease!End, Lease!Holding
<1> QED
  BY <1>1 DEF Lease!Next

LEMMA LeaseEndOne ==
  ASSUME NEW a \in AttemptIds, Holds(a), Phase(a)' = "over",
         \A b \in AttemptIds \ {a} : Keeps(b)
  PROVE  Lease!Next
<1>1. {a} \in SUBSET AttemptIds
  OBVIOUS
<1>2. \A b \in {a} : Holds(b) /\ Phase(b)' = "over"
  OBVIOUS
<1> QED
  BY <1>1, <1>2, LeaseEnd

-----------------------------------------------------------------------------
(* Operations *)

LEMMA ReserveStarts ==
  ASSUME IInv, IInv', NEW a \in AttemptIds, NEW t \in Tasks, NEW w \in Workspaces,
         NEW s \in Summaries, NEW n \in 1..MaxSequence,
         NEW reason \in {"dispatch", "retry", "continuation"}, NEW failures \in Nat,
         claims[t] = None \/ retries[t] # None,
         Reserve(a, t, w, s, n, reason, failures)
  PROVE  Lease!Next
<1>1. w.id \in WorkspaceIds
  BY WorkspacesAssumption
<1>2. /\ Phase(a) = "new"
      /\ Phase(a)' = "running"
      /\ attempts'[a].taskId = t /\ attempts'[a].workspaceId = w.id
  <2>1. /\ a \notin usedIds /\ a \in usedIds'
        /\ attempts' = [attempts EXCEPT ![a] =
             [taskId |-> t, sequence |-> n, startReason |-> reason,
              status |-> "preparing_workspace", controller |-> "symphoneer",
              workspaceId |-> w.id, activeTurn |-> None, thread |-> None]]
    BY DEF Reserve
  <2>2. attempts'[a] = [taskId |-> t, sequence |-> n, startReason |-> reason,
                        status |-> "preparing_workspace", controller |-> "symphoneer",
                        workspaceId |-> w.id, activeTurn |-> None, thread |-> None]
    BY <2>1 DEF IInv, TypeOK
  <2>3. /\ attempts'[a].status = "preparing_workspace"
        /\ attempts'[a].taskId = t /\ attempts'[a].workspaceId = w.id
    BY <2>2
  <2>4. attempts'[a] # None
    <3>1. n \in Nat /\ w.id \in WorkspaceIds
      BY BoundsAssumption, WorkspacesAssumption
    <3>2. attempts'[a] \in AttemptRecords
      BY <2>2, <3>1 DEF AttemptRecords
    <3> QED
      BY <3>2, NoneAssumption
  <2>5. Phase(a)' = "running"
    <3>1. ~Paused(a)' /\ ~Finished(a)' /\ Exists(a)'
      BY <2>3, <2>4 DEF Paused, Finished, Exists
    <3> QED
      BY <2>1, <3>1 DEF Phase
  <2> QED
    BY <2>1, <2>3, <2>5, PhaseCases
<1>3. \A b \in AttemptIds \ {a} : Keeps(b)
  BY SameKeeps DEF Reserve, IInv, TypeOK
<1>4. \A b \in AttemptIds : Holds(b) => attempts[b].taskId # t
  BY HoldsIsWork, FreeTask
<1>5. ASSUME NEW b \in AttemptIds, Phase(b) = "running", attempts[b].workspaceId = w.id
      PROVE  FALSE
  <2>1. IsRunning(b)
    BY <1>5, HoldsIsWork DEF Holds
  <2> DEFINE u == attempts[b].taskId
             path == running[u].workspace.path
  <2>2. u \in Tasks /\ Running(u) /\ running[u].attemptId = b /\ path \in Paths
    BY <2>1, AttemptFacts, RunningFacts DEF IsRunning, IInv
  <2>3. /\ workspaceOwners[path] = b
        /\ workspaces[path] = [ref |-> running[u].workspace, state |-> "ready"]
        /\ running[u].workspace.id = w.id
    BY <2>2, <1>5 DEF IInv, LeasesAgree
  <2>4. workspaces[path] # None /\ workspaces[path].ref.id = w.id
    BY <2>2, <2>3, RunningFacts, NoneAssumption DEF IInv
  <2>5. path = w.path
    BY <2>2, <2>4 DEF Reserve, SameIdentity
  <2> QED
    BY <2>3, <2>5, NoneAssumption DEF Reserve
<1>6. Lease!Start(a, t, w.id)
  <2>1. Lease!TaskFree(t)
    BY <1>4 DEF Lease!TaskFree, Lease!Holding, Holds
  <2>2. Lease!WorkspaceFree(w.id)
    BY <1>5 DEF Lease!WorkspaceFree
  <2> QED
    BY <2>1, <2>2, <1>2, <1>3 DEF Lease!Start, Keeps, Holds
<1> QED
  BY <1>1, <1>6 DEF Lease!Next

LEMMA PausePauses ==
  ASSUME IInv, IInv', NEW a \in AttemptIds, NEW c \in {"symphoneer", "codex"},
         PauseAttempt(a, c)
  PROVE  Lease!Next
<1>1. /\ IsRunning(a) /\ usedIds' = usedIds
      /\ attempts' = [attempts EXCEPT ![a].status = "paused", ![a].activeTurn = None,
                                      ![a].controller = c]
  BY DEF PauseAttempt
<1>2. attempts[a].status \in LiveStatuses
  BY <1>1, RunningAttempt, AttemptFacts DEF IsRunning, IInv
<1>3. attempts[a] \in AttemptRecords
  BY <1>1, AttemptFacts DEF IsRunning, IInv
<1>4. /\ attempts'[a].status = "paused"
      /\ attempts'[a].taskId = attempts[a].taskId
      /\ attempts'[a].workspaceId = attempts[a].workspaceId
      /\ attempts'[a] # None
  <2>1. attempts'[a] \in AttemptRecords
    BY <1>1, <1>3, AttemptUpdate DEF IInv, TypeOK
  <2>2. /\ attempts'[a].status = "paused"
        /\ attempts'[a].taskId = attempts[a].taskId
        /\ attempts'[a].workspaceId = attempts[a].workspaceId
    BY <1>1, <1>3 DEF IInv, TypeOK, AttemptRecords
  <2> QED
    BY <2>1, <2>2, NoneAssumption
<1>5. Phase(a) = "running" /\ a \in usedIds
  BY <1>1, <1>2, PhaseCases DEF IsRunning
<1>6. Phase(a)' = "paused"
  BY <1>1, <1>4, <1>5, NoneAssumption DEF Phase, Paused, Exists
<1>7. \A b \in AttemptIds \ {a} : Keeps(b)
  BY <1>1, SameKeeps DEF IInv, TypeOK
<1>8. Lease!Pause(a)
  BY <1>4, <1>5, <1>6, <1>7 DEF Lease!Pause, Keeps, Holds
<1> QED
  BY <1>8 DEF Lease!Next

LEMMA ResumeResumes ==
  ASSUME IInv, IInv', NEW a \in AttemptIds, NEW w \in Workspaces, NEW s \in Summaries,
         NEW f \in BOOLEAN, ResumePausedAttempt(a, w, s, f)
  PROVE  Lease!Next
<1>1. /\ Paused(a) /\ usedIds' = usedIds
      /\ ~Running(attempts[a].taskId)
      /\ attempts' = [attempts EXCEPT ![a].status = "launching_agent",
                                      ![a].controller = "symphoneer"]
  BY DEF ResumePausedAttempt
<1>2. attempts[a] \in AttemptRecords /\ attempts[a].taskId \in Tasks
  BY <1>1, AttemptFacts DEF Paused, IInv
<1>3. /\ attempts'[a].status = "launching_agent"
      /\ attempts'[a].taskId = attempts[a].taskId
      /\ attempts'[a].workspaceId = attempts[a].workspaceId
      /\ attempts'[a] # None
  <2>1. attempts'[a] \in AttemptRecords
    BY <1>1, <1>2, AttemptUpdate DEF IInv, TypeOK
  <2>2. /\ attempts'[a].status = "launching_agent"
        /\ attempts'[a].taskId = attempts[a].taskId
        /\ attempts'[a].workspaceId = attempts[a].workspaceId
    BY <1>1, <1>2 DEF IInv, TypeOK, AttemptRecords
  <2> QED
    BY <2>1, <2>2, NoneAssumption
<1>4. Phase(a) = "paused" /\ a \in usedIds
  BY <1>1, PhaseCases
<1>5. Phase(a)' = "running"
  BY <1>1, <1>3, <1>4, NoneAssumption DEF Phase, Paused, Exists, Finished
<1>6. \A b \in AttemptIds \ {a} : Keeps(b)
  BY <1>1, SameKeeps DEF IInv, TypeOK
<1>7. ASSUME NEW b \in AttemptIds, Phase(b) = "running",
             attempts[b].workspaceId = attempts[a].workspaceId
      PROVE  FALSE
  <2>1. IsRunning(b)
    BY <1>7, HoldsIsWork DEF Holds
  <2> DEFINE u == attempts[b].taskId
             path == running[u].workspace.path
  <2>2. u \in Tasks /\ Running(u) /\ running[u].attemptId = b /\ path \in Paths
    BY <2>1, AttemptFacts, RunningFacts DEF IsRunning, IInv
  <2>3. /\ workspaces[path] = [ref |-> running[u].workspace, state |-> "ready"]
        /\ running[u].workspace.id = attempts[a].workspaceId
        /\ running[u].workspace.taskId = u
    BY <2>2, <1>7 DEF IInv, LeasesAgree
  <2>4. /\ workspaces[path] # None /\ workspaces[path].ref.id = attempts[a].workspaceId
        /\ workspaces[path].ref.taskId = u
    BY <2>2, <2>3, RunningFacts, NoneAssumption DEF IInv
  <2>5. PICK p \in Paths : /\ workspaces[p] # None
                           /\ workspaces[p].ref.id = attempts[a].workspaceId
                           /\ workspaces[p].ref.taskId = attempts[a].taskId
    BY <1>1 DEF IInv, StableWorkspaces, Paused
  <2>6. p = path
    BY <2>2, <2>4, <2>5 DEF IInv, StableWorkspaces
  <2> QED
    BY <1>1, <2>2, <2>4, <2>5, <2>6
<1>8. Lease!Resume(a)
  <2>1. Lease!WorkspaceFree(attempts[a].workspaceId)
    BY <1>7 DEF Lease!WorkspaceFree
  <2> QED
    BY <2>1, <1>3, <1>4, <1>5, <1>6 DEF Lease!Resume, Lease!WorkspaceFree, Keeps, Holds
<1> QED
  BY <1>8 DEF Lease!Next

LEMMA FinishEnds ==
  ASSUME IInv, NEW a \in AttemptIds, NEW status \in TerminalStatuses \ {"interrupted"},
         FinishAttempt(a, status)
  PROVE  Lease!Next
<1>1. /\ IsRunning(a) /\ usedIds' = usedIds
      /\ attempts' = [attempts EXCEPT ![a] = Ended(a, status)]
  BY DEF FinishAttempt
<1>2. attempts[a].status \in LiveStatuses
  BY <1>1, RunningAttempt, AttemptFacts DEF IsRunning, IInv
<1>3. Holds(a) /\ a \in usedIds
  BY <1>1, <1>2, PhaseCases DEF IsRunning, Holds
<1>4. attempts'[a].status = status
  BY <1>1, AttemptFacts DEF IInv, TypeOK, Ended, IsRunning, AttemptRecords
<1>5. Phase(a)' = "over"
  <2>1. ~Paused(a)' /\ (Exists(a)' => Finished(a)')
    BY <1>4 DEF Paused, Finished, Exists
  <2> QED
    BY <1>1, <1>3, <2>1 DEF Phase
<1>6. \A b \in AttemptIds \ {a} : Keeps(b)
  BY <1>1, SameKeeps DEF IInv, TypeOK
<1> QED
  BY <1>3, <1>5, <1>6, LeaseEndOne

\* A deleted Attempt was paused, and ends, or was over.
LEMMA DeleteEnds ==
  ASSUME IInv, NEW a \in AttemptIds, DeleteAttempt(a)
  PROVE  [Lease!Next]_Lease!leaseVars
<1>1. /\ Exists(a) /\ ~IsRunning(a) /\ usedIds' = usedIds
      /\ attempts' = [attempts EXCEPT ![a] = None]
  BY DEF DeleteAttempt
<1>2. Phase(a)' = "over" /\ a \in usedIds
  <2>1. a \in usedIds /\ attempts'[a] = None
    BY <1>1 DEF IInv, TypeOK, IdsAreDrawn
  <2>2. ~Exists(a)' /\ ~Paused(a)'
    BY <2>1 DEF Exists, Paused
  <2> QED
    BY <1>1, <2>1, <2>2 DEF Phase
<1>3. \A b \in AttemptIds \ {a} : Keeps(b)
  BY <1>1, SameKeeps DEF IInv, TypeOK
<1>4. CASE Holds(a)
  BY <1>2, <1>3, <1>4, LeaseEndOne
<1>5. CASE ~Holds(a)
  <2>1. Phase(a) = "over"
    BY <1>1, <1>5, PhaseCases DEF Holds
  <2>2. Keeps(a)
    BY <1>2, <2>1 DEF Keeps, Holds
  <2> QED
    BY <1>3, <2>2, LeaseQuiet
<1> QED
  BY <1>4, <1>5

LEMMA AttachKeeps ==
  ASSUME IInv, NEW a \in AttemptIds, NEW th \in Threads, NEW tu \in Turns,
         AttachTurn(a, th, tu)
  PROVE  UNCHANGED Lease!leaseVars
<1>1. /\ IsRunning(a) /\ usedIds' = usedIds
      /\ attempts' = [attempts EXCEPT ![a].status = "streaming_turn",
                                      ![a].activeTurn = tu, ![a].thread = th]
  BY DEF AttachTurn
<1>2. attempts[a].status \in LiveStatuses /\ attempts[a] \in AttemptRecords
  BY <1>1, RunningAttempt, AttemptFacts DEF IsRunning, IInv
<1>3. Phase(a) = "running" /\ a \in usedIds
  BY <1>1, <1>2, PhaseCases DEF IsRunning
<1>4. attempts'[a] \in AttemptRecords
  BY <1>1, <1>2, AttemptUpdate DEF IInv, TypeOK
<1>5. /\ attempts'[a].status = "streaming_turn"
      /\ attempts'[a].taskId = attempts[a].taskId
      /\ attempts'[a].workspaceId = attempts[a].workspaceId
  BY <1>1, <1>2 DEF IInv, TypeOK, AttemptRecords
<1>6. Phase(a)' = "running"
  <2>1. Exists(a)' /\ ~Paused(a)' /\ ~Finished(a)'
    BY <1>4, <1>5, NoneAssumption DEF Exists, Paused, Finished
  <2> QED
    BY <1>1, <1>3, <2>1 DEF Phase
<1>7. \A b \in AttemptIds \ {a} : Keeps(b)
  BY <1>1, SameKeeps DEF IInv, TypeOK
<1>8. Keeps(a)
  BY <1>3, <1>5, <1>6 DEF Keeps
<1> QED
  BY <1>7, <1>8, LeaseQuiet

\* Operations that leave the Attempts alone.
LEMMA OthersKeep ==
  ASSUME UNCHANGED <<attempts, usedIds>>
  PROVE  UNCHANGED Lease!leaseVars
<1>1. \A a \in AttemptIds : Keeps(a)
  BY SameKeeps
<1> QED
  BY <1>1, LeaseQuiet

-----------------------------------------------------------------------------
(* Reconciliation and restart *)

\* Several Attempts end at once, and the others stay as they are.
LEMMA ManyEnd ==
  ASSUME IInv, NEW A \in SUBSET AttemptIds, NEW status \in TerminalStatuses,
         \A a \in A : Holds(a),
         usedIds' = usedIds,
         attempts' = [a \in AttemptIds |-> IF a \in A THEN Ended(a, status) ELSE attempts[a]]
  PROVE  Lease!Next
<1>1. ASSUME NEW a \in A PROVE Holds(a) /\ Phase(a)' = "over"
  <2>1. Exists(a) /\ a \in usedIds
    BY <1>1, HoldsIsWork DEF IInv, IdsAreDrawn
  <2>2. attempts'[a].status = status
    BY <1>1, <2>1, AttemptFacts DEF IInv, Ended, AttemptRecords
  <2>3. ~Paused(a)' /\ (Exists(a)' => Finished(a)')
    BY <2>2 DEF Paused, Finished, Exists
  <2> QED
    BY <2>1, <2>3 DEF Phase
<1>2. \A a \in AttemptIds \ A : Keeps(a)
  BY SameKeeps
<1> QED
  BY <1>1, <1>2, LeaseEnd

LEMMA ReconcileEnds ==
  ASSUME IInv, NEW seen \in [Tasks -> Summaries \cup {None}], Reconcile(seen)
  PROVE  Lease!Next
<1> DEFINE gone == {t \in Tasks : IF seen[t] = None THEN TRUE ELSE ~Eligible(seen[t])}
           ours(a) == attempts[a].controller # "codex"
           stopped == {a \in AttemptIds : IsRunning(a) /\ ours(a) /\ attempts[a].taskId \in gone}
           canceled == {a \in AttemptIds : Paused(a) /\ ours(a) /\ attempts[a].taskId \in gone}
           ended == stopped \cup canceled
<1>1. /\ usedIds' = usedIds
      /\ attempts' = [a \in AttemptIds |->
           IF a \in ended THEN Ended(a, "canceled_by_reconciliation") ELSE attempts[a]]
  BY DEF Reconcile
<1>2. ASSUME NEW a \in stopped PROVE Holds(a)
  <2>1. Exists(a) /\ attempts[a].status \in LiveStatuses
    BY <1>2, RunningAttempt, AttemptFacts DEF IsRunning, IInv
  <2> QED
    BY <2>1, PhaseCases DEF Holds
<1>3. ASSUME NEW a \in canceled PROVE Holds(a)
  BY PhaseCases DEF Holds
<1> HIDE DEF stopped, canceled
<1>4. ended \in SUBSET AttemptIds
  BY DEF stopped, canceled
<1> QED
  BY <1>1, <1>2, <1>3, <1>4, ManyEnd

LEMMA RestartEnds ==
  ASSUME IInv, NEW latest, NEW removed, Restart(latest, removed)
  PROVE  Lease!Next
<1> DEFINE orphans == {a \in AttemptIds : Orphan(a)}
<1>1. /\ usedIds' = usedIds
      /\ attempts' = [a \in AttemptIds |->
           IF a \in orphans THEN Ended(a, "interrupted") ELSE attempts[a]]
  BY DEF Restart
<1>2. \A a \in orphans : Holds(a)
  BY PhaseCases DEF Orphan, Holds
<1> QED
  BY <1>1, <1>2, ManyEnd

-----------------------------------------------------------------------------

LEMMA LeaseInit == Init => Lease!Init
BY DEF Init, Lease!Init, Phase

LEMMA LeaseStep ==
  ASSUME IInv, IInv', [Next]_vars
  PROVE  [Lease!Next]_Lease!leaseVars
<1>1. CASE Dispatch
  BY <1>1, ReserveStarts DEF Dispatch, ReserveAttempt
<1>2. CASE Run
  <2>1. ASSUME NEW a \in AttemptIds, NEW th \in Threads, NEW tu \in Turns, AttachTurn(a, th, tu)
        PROVE  UNCHANGED Lease!leaseVars
    BY <2>1, AttachKeeps
  <2>2. ASSUME NEW a \in AttemptIds, NEW c \in {"symphoneer", "codex"}, PauseAttempt(a, c)
        PROVE  Lease!Next
    BY <2>2, PausePauses
  <2>3. ASSUME NEW a \in AttemptIds, NEW w \in Workspaces, NEW s \in Summaries,
               NEW f \in BOOLEAN, ResumePausedAttempt(a, w, s, f)
        PROVE  Lease!Next
    BY <2>3, ResumeResumes
  <2>4. ASSUME NEW a \in AttemptIds, NEW status \in TerminalStatuses \ {"interrupted"},
               FinishAttempt(a, status)
        PROVE  Lease!Next
    BY <2>4, FinishEnds
  <2>5. ASSUME NEW a \in AttemptIds, NEW p \in Paths, RefreshFinished(a, p)
        PROVE  UNCHANGED Lease!leaseVars
    BY <2>5, OthersKeep DEF RefreshFinished
  <2>6. ASSUME NEW a \in AttemptIds, DeleteAttempt(a)
        PROVE  [Lease!Next]_Lease!leaseVars
    BY <2>6, DeleteEnds
  <2> QED
    BY <1>2, <2>1, <2>2, <2>3, <2>4, <2>5, <2>6 DEF Run
<1>3. CASE Retry
  <2>1. ASSUME NEW t \in Tasks, RetryDue(t) PROVE UNCHANGED Lease!leaseVars
    BY <2>1, OthersKeep DEF RetryDue
  <2>2. ASSUME NEW t \in Tasks, NEW f \in BOOLEAN, NEW s \in Summaries \cup {None},
               ReleaseRetry(t, f, s)
        PROVE  UNCHANGED Lease!leaseVars
    BY <2>2, OthersKeep DEF ReleaseRetry
  <2>3. ASSUME NEW t \in Tasks, NEW w \in Workspaces, NEW s \in Summaries, NEW f \in BOOLEAN,
               RequeueRetry(t, w, s, f)
        PROVE  UNCHANGED Lease!leaseVars
    BY <2>3, OthersKeep DEF RequeueRetry
  <2>4. ASSUME NEW a \in AttemptIds, NEW t \in Tasks, NEW w \in Workspaces, NEW s \in Summaries,
               NEW n \in 1..MaxSequence, NEW f \in BOOLEAN, ReserveRetry(a, t, w, s, n, f)
        PROVE  Lease!Next
    <3>1. PICK reason \in {"retry", "continuation"}, failures \in Nat :
            Reserve(a, t, w, s, n, reason, failures)
      BY <2>4, RetryReserve DEF IInv
    <3>2. retries[t] # None
      BY <2>4 DEF ReserveRetry, CanTransition
    <3> QED
      BY <3>1, <3>2, ReserveStarts
  <2> QED
    BY <1>3, <2>1, <2>2, <2>3, <2>4 DEF Retry
<1>4. CASE Reconciliation
  BY <1>4, ReconcileEnds DEF Reconciliation
<1>5. CASE RuntimeRestart
  BY <1>5, RestartEnds DEF RuntimeRestart
<1>6. CASE WorkflowReload
  BY <1>6, OthersKeep DEF WorkflowReload, UpdatePolicy
<1>7. CASE UNCHANGED vars
  BY <1>7, OthersKeep DEF vars
<1> QED
  BY <1>1, <1>2, <1>3, <1>4, <1>5, <1>6, <1>7 DEF Next

\* The scheduler keeps the promise of TaskLease to the orchestrations, whatever they ask for: an
\* Attempt holds its Task from its start to its end, and its workspace while it runs.
THEOREM SchedulerImplementsLease == Spec => ImplementsTaskLease
<1>1. Init => Lease!Init
  BY LeaseInit
<1>2. IInv /\ IInv' /\ [Next]_vars => [Lease!Next]_Lease!leaseVars
  BY LeaseStep
<1> QED
  BY <1>1, <1>2, Invariance, PTL DEF Spec, ImplementsTaskLease, Lease!Spec

\* The lease itself is exclusive: each of its steps keeps that no two Attempts hold one Task and no
\* two that run share a workspace.
LeasePhase == [a \in AttemptIds |-> Phase(a)]
LeaseJob == [a \in AttemptIds |->
              IF Phase(a) \in {"running", "paused"}
              THEN [task |-> attempts[a].taskId, workspace |-> attempts[a].workspaceId]
              ELSE None]

LeaseHolds(a) == LeasePhase[a] \in {"running", "paused"}

LeaseExclusive ==
  \A a, b \in AttemptIds : a # b =>
    /\ LeaseHolds(a) /\ LeaseHolds(b) => LeaseJob[a].task # LeaseJob[b].task
    /\ LeasePhase[a] = "running" /\ LeasePhase[b] = "running" =>
         LeaseJob[a].workspace # LeaseJob[b].workspace

LEMMA LeaseExclusiveIs == Lease!Exclusive <=> LeaseExclusive
BY Zenon DEF Lease!Exclusive, Lease!Holding, LeaseExclusive, LeaseHolds, LeasePhase, LeaseJob

LEMMA LeaseKeepsExclusive ==
  ASSUME LeaseExclusive, [Lease!Next]_Lease!leaseVars
  PROVE  LeaseExclusive'
<1>1. DOMAIN LeasePhase = AttemptIds /\ DOMAIN LeaseJob = AttemptIds
  BY DEF LeasePhase, LeaseJob
<1>2. ASSUME NEW a \in AttemptIds, NEW t \in Tasks, NEW w \in WorkspaceIds, Lease!Start(a, t, w)
      PROVE  LeaseExclusive'
  <2>1. /\ \A b \in AttemptIds : LeaseHolds(b) => LeaseJob[b].task # t
        /\ \A b \in AttemptIds : LeasePhase[b] = "running" => LeaseJob[b].workspace # w
        /\ LeasePhase' = [LeasePhase EXCEPT ![a] = "running"]
        /\ LeaseJob' = [LeaseJob EXCEPT ![a] = [task |-> t, workspace |-> w]]
    BY <1>2, Zenon DEF Lease!Start, Lease!TaskFree, Lease!WorkspaceFree, Lease!Holding,
                       LeasePhase, LeaseJob, LeaseHolds
  <2> QED
    BY <1>1, <2>1 DEF LeaseExclusive, LeaseHolds
<1>3. ASSUME NEW a \in AttemptIds, Lease!Pause(a)
      PROVE  LeaseExclusive'
  <2>1. /\ LeasePhase[a] = "running" /\ LeasePhase' = [LeasePhase EXCEPT ![a] = "paused"]
        /\ LeaseJob' = LeaseJob
    BY <1>3, Zenon DEF Lease!Pause, LeasePhase, LeaseJob
  <2> QED
    BY <1>1, <2>1 DEF LeaseExclusive, LeaseHolds
<1>4. ASSUME NEW a \in AttemptIds, Lease!Resume(a)
      PROVE  LeaseExclusive'
  <2>1. /\ LeasePhase[a] = "paused" /\ LeasePhase' = [LeasePhase EXCEPT ![a] = "running"]
        /\ \A b \in AttemptIds : LeasePhase[b] = "running" =>
             LeaseJob[b].workspace # LeaseJob[a].workspace
        /\ LeaseJob' = LeaseJob
    BY <1>4, Zenon DEF Lease!Resume, Lease!WorkspaceFree, LeasePhase, LeaseJob
  <2> QED
    BY <1>1, <2>1 DEF LeaseExclusive, LeaseHolds
<1>5. ASSUME NEW A \in SUBSET AttemptIds, Lease!End(A)
      PROVE  LeaseExclusive'
  <2>1. /\ LeasePhase' = [a \in AttemptIds |-> IF a \in A THEN "over" ELSE LeasePhase[a]]
        /\ LeaseJob' = [a \in AttemptIds |-> IF a \in A THEN None ELSE LeaseJob[a]]
    BY <1>5, Zenon DEF Lease!End, LeasePhase, LeaseJob
  <2> QED
    BY <2>1 DEF LeaseExclusive, LeaseHolds
<1>6. CASE UNCHANGED Lease!leaseVars
  <2>1. LeasePhase' = LeasePhase /\ LeaseJob' = LeaseJob
    BY <1>6, Zenon DEF Lease!leaseVars, LeasePhase, LeaseJob
  <2> QED
    BY <2>1 DEF LeaseExclusive, LeaseHolds
<1> QED
  BY <1>2, <1>3, <1>4, <1>5, <1>6 DEF Lease!Next

\* What the lease is worth: two Attempts never hold one Task, from their start to their end, and two
\* that run never share a workspace.
THEOREM LeaseIsExclusive == Spec => []Lease!Exclusive
<1>1. Init => LeaseExclusive
  BY DEF Init, LeaseExclusive, LeaseHolds, LeasePhase, Phase
<1>2. Spec => Lease!Init /\ [][Lease!Next]_Lease!leaseVars
  BY SchedulerImplementsLease, PTL DEF ImplementsTaskLease, Lease!Spec
<1>3. LeaseExclusive /\ [Lease!Next]_Lease!leaseVars => LeaseExclusive'
  BY LeaseKeepsExclusive
<1>4. Spec => []LeaseExclusive
  BY <1>1, <1>2, <1>3, PTL DEF Spec
<1> QED
  BY <1>4, LeaseExclusiveIs, PTL

=============================================================================
