---------------------------- MODULE MCGuildPresence ----------------------------
(* The presence of the bot in one guild, on small instances.               *)
EXTENDS GuildPresence
===============================================================================
