----------------------------- MODULE MCAssistant ------------------------------
(* One session, a few requests and tool calls, for TLC. *)
EXTENDS Assistant
=============================================================================
