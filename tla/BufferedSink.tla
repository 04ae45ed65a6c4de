---------------------------- MODULE BufferedSink ----------------------------
(***************************************************************************)
(* What the ingestor worker promises of its memory: an item it accepted is  *)
(* held until a write of it is confirmed, and only the loss of the whole    *)
(* memory at once, a crash, takes an item that no write has stored.         *)
(***************************************************************************)
CONSTANT Items
VARIABLES
    accepted,   \* everything ever accepted
    held,       \* accepted, and no write confirmed
    stored      \* written at least once

vars == <<accepted, held, stored>>

Init == accepted = {} /\ held = {} /\ stored = {}

Accept(i) ==
    /\ i \notin accepted
    /\ accepted' = accepted \cup {i}
    /\ held' = held \cup {i}
    /\ UNCHANGED stored

\* A confirmed write of some of the held items.
Confirm(items) ==
    /\ items # {}
    /\ held' = held \ items
    /\ stored' = stored \cup items
    /\ UNCHANGED accepted

\* A write that was applied although it reported an error.
Unconfirmed(items) ==
    /\ stored' = stored \cup items
    /\ UNCHANGED <<accepted, held>>

Crash == held' = {} /\ UNCHANGED <<accepted, stored>>

Next ==
    \/ \E i \in Items : Accept(i)
    \/ \E items \in SUBSET held : Confirm(items) \/ Unconfirmed(items)
    \/ Crash

Spec == Init /\ [][Next]_vars
=============================================================================
