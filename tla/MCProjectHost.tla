---------------------------- MODULE MCProjectHost -----------------------------
(* Two checkouts and two runs of the process, for TLC. *)
EXTENDS ProjectHost
=============================================================================
