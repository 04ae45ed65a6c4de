---------------------------- MODULE MCGuildSettings ----------------------------
(* An instance of GuildSettings for TLC. *)
EXTENDS GuildSettings

\* One column or both, switched on; one column switched off.
MCAsked ==
    {[channel |-> 1, rest |-> 1], [channel |-> 1, rest |-> Kept], [channel |-> Kept, rest |-> 1],
     [channel |-> 0, rest |-> Kept], [channel |-> Kept, rest |-> 0]}
===============================================================================
