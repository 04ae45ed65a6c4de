----------------------------- MODULE MCIngestor -----------------------------
(* The ingestor on small instances: one user's messages and voice events.   *)
EXTENDS Ingestor, TLC

CONSTANTS m1, m2, m3, j1, l1, l2, x1, x2, u1

KindOf == [e \in Events |->
    CASE e \in {m1, m2, m3} -> "message"
      [] e = j1 -> "voice_join"
      [] e \in {l1, l2} -> "voice_leave"
      [] e = x1 -> "unlisted"
      [] e = x2 -> "no_channel"]

UserOf == [e \in Events |-> u1]

\* Flushes are interchangeable, and so are messages.
Symmetric == Permutations(Flushes) \cup Permutations(Events \cap {m1, m2, m3})
=============================================================================
