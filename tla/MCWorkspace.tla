------------------------------ MODULE MCWorkspace -----------------------------
(* An instance of Workspace for TLC. *)
EXTENDS Workspace, TLC

Symmetry == Permutations(Request) \cup Permutations(User)
===============================================================================
