-------------------------- MODULE MCCoreScheduler --------------------------
(***************************************************************************)
(* Small instances of CoreScheduler: two Tasks, each with the workspace    *)
(* the orchestrator derives from it.                                       *)
(***************************************************************************)
EXTENDS CoreScheduler, TLC

CONSTANTS t1, t2, p1, p2

W(id, task, path, repo) == [id |-> id, taskId |-> task, path |-> path, repository |-> repo]

\* Each Task has its own workspace.  In the contested set a reference claims the path of
\* t1 for t2, and another one moves the workspace of t1 to the path of t2.
MCStable == {W("w1", t1, p1, "r"), W("w2", t2, p2, "r")}
MCContested == MCStable \cup {W("w3", t2, p1, "r"), W("w1", t1, p2, "r")}
MCOneWorkspace == {W("w1", t1, p1, "r")}

MCPolicy(agents, perState, limit) ==
  [maxConcurrentAgents |-> agents, maxPerState |-> [s \in TaskStates |-> perState],
   maxAttempts |-> limit, activeStates |-> {"todo"}, terminalStates |-> {"done"}]

\* Eligible, open but out of scope, closed.
MCSummaries ==
  {[state |-> "todo", routable |-> TRUE], [state |-> "todo", routable |-> FALSE],
   [state |-> "done", routable |-> TRUE]}

MCOnePolicy == {MCPolicy(2, 2, 2)}
MCReloads == {MCPolicy(2, 2, 2), MCPolicy(1, 2, 2), MCPolicy(2, 1, 2)}

MCAttemptSymmetry == Permutations(AttemptIds)
MCSessionSymmetry == Permutations(AttemptIds) \cup Permutations(Threads) \cup Permutations(Turns)
=============================================================================
