----------------------------- MODULE MCHistorySync -----------------------------
(* The import of one guild's history, on small instances.                   *)
EXTENDS HistorySync

CONSTANTS c1, c2

\* All messages are in the first channel; the second one is empty.
ChannelOf == [m \in Messages |-> c1]
===============================================================================
