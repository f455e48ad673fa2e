---------------------------- MODULE MCEventStream ----------------------------
(* A workbench and a host with two projects, for TLC. *)
EXTENDS EventStream
=============================================================================
