------------------------------ MODULE AgentTurns ------------------------------
(***************************************************************************)
(* What an Attempt Worker promises to the orchestrations, whatever the     *)
(* executor (runtime/executor/agent-runner.ts): one Turn at a time, every  *)
(* Turn has one outcome that never changes, another Turn follows only a    *)
(* completed one, and when close has returned nothing is at work.          *)
(***************************************************************************)
EXTENDS Naturals, Sequences

VARIABLES
  turns,  \* the outcomes of the Turns of the worker so far, "active" for the one at work
  closed

vars == <<turns, closed>>
Outcomes == {"completed", "failed", "interrupted"}

Init == turns = <<>> /\ closed = FALSE

Start ==
  /\ ~closed /\ \A t \in DOMAIN turns : turns[t] = "completed"
  /\ turns' = Append(turns, "active")
  /\ UNCHANGED closed

Settle ==
  /\ \E t \in DOMAIN turns, outcome \in Outcomes :
       turns[t] = "active" /\ turns' = [turns EXCEPT ![t] = outcome]
  /\ UNCHANGED closed

Close ==
  /\ \A t \in DOMAIN turns : turns[t] # "active"
  /\ closed' = TRUE
  /\ UNCHANGED turns

Next == Start \/ Settle \/ Close

\* What never happens, and that a Turn that is at work has its outcome in the end.
Safety == Init /\ [][Next]_vars

Spec == Safety /\ WF_vars(Settle)
=============================================================================
