------------------------------ MODULE MCTeamRun ------------------------------
(* One Task with a Team run and two Attempts, for TLC. *)
EXTENDS TeamRun
=============================================================================
