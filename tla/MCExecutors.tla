----------------------------- MODULE MCExecutors ------------------------------
(* Both executors, two Turns and two interventions, for TLC. *)
EXTENDS Executors
=============================================================================
