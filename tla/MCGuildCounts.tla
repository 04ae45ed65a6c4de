----------------------------- MODULE MCGuildCounts -----------------------------
(* The numbers of one guild on small instances.                            *)
EXTENDS GuildCounts, TLC

Symmetry == Permutations(Handler)
===============================================================================
