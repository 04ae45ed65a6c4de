------------------------------ MODULE MCRealtime ------------------------------
(* One parameter of each table.                                             *)
EXTENDS Realtime, TLC

Symmetry == Permutations(Writer) \cup Permutations(Client) \cup Permutations(Snapshot)
===============================================================================
