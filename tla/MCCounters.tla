------------------------------- MODULE MCCounters -------------------------------
(* Live counters on small instances.                                       *)
EXTENDS Counters, TLC

Symmetry == Permutations(Worker) \cup Permutations(Counter) \cup Permutations(Channel)
===============================================================================
