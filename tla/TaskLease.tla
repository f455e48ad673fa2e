------------------------------ MODULE TaskLease ------------------------------
(***************************************************************************)
(* What CoreScheduler promises, without its maps: an Attempt runs at most  *)
(* once and may be paused in between; from its start until it is over it   *)
(* holds its Task alone, and while it runs it holds its workspace alone.   *)
(***************************************************************************)
CONSTANTS Tasks, AttemptIds, WorkspaceIds, None

VARIABLES phase,  \* attemptId -> "new", "running", "paused" or "over"
          job     \* attemptId -> the Task and workspace it holds, or None

leaseVars == <<phase, job>>

Holding(a) == phase[a] \in {"running", "paused"}

Init == /\ phase = [a \in AttemptIds |-> "new"]
        /\ job = [a \in AttemptIds |-> None]

TaskFree(t) == \A b \in AttemptIds : Holding(b) => job[b].task # t

WorkspaceFree(w) == \A b \in AttemptIds : phase[b] = "running" => job[b].workspace # w

Start(a, t, w) ==
  /\ phase[a] = "new"
  /\ TaskFree(t)
  /\ WorkspaceFree(w)
  /\ phase' = [phase EXCEPT ![a] = "running"]
  /\ job' = [job EXCEPT ![a] = [task |-> t, workspace |-> w]]

Pause(a) ==
  /\ phase[a] = "running"
  /\ phase' = [phase EXCEPT ![a] = "paused"]
  /\ UNCHANGED job

Resume(a) ==
  /\ phase[a] = "paused"
  /\ WorkspaceFree(job[a].workspace)
  /\ phase' = [phase EXCEPT ![a] = "running"]
  /\ UNCHANGED job

\* Attempts finish one by one; reconciliation and a restart end several at once.
End(A) ==
  /\ \A a \in A : Holding(a)
  /\ phase' = [a \in AttemptIds |-> IF a \in A THEN "over" ELSE phase[a]]
  /\ job' = [a \in AttemptIds |-> IF a \in A THEN None ELSE job[a]]

Next ==
  \/ \E a \in AttemptIds, t \in Tasks, w \in WorkspaceIds : Start(a, t, w)
  \/ \E a \in AttemptIds : Pause(a) \/ Resume(a)
  \/ \E A \in SUBSET AttemptIds : End(A)

Spec == Init /\ [][Next]_leaseVars

\* Two Attempts never hold one Task, and two running Attempts never share a workspace.
Exclusive ==
  \A a, b \in AttemptIds : a # b =>
    /\ Holding(a) /\ Holding(b) => job[a].task # job[b].task
    /\ phase[a] = "running" /\ phase[b] = "running" => job[a].workspace # job[b].workspace
=============================================================================
