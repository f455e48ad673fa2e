---------------------------- MODULE MCWorkspaces -----------------------------
(* Two Tasks whose names lead to the same path, for TLC. *)
EXTENDS Workspaces, TLC

CONSTANTS w1, w2

MCIds == {w1, w2}
MCPath == [id \in MCIds |-> "p"]
Symmetric == Permutations(MCIds) \cup Permutations(Attempts) \cup Permutations(Managers)
=============================================================================
