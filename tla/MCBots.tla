--------------------------------- MODULE MCBots ---------------------------------
(* The creation of one guild's rows and its bots, on small instances.        *)
EXTENDS Bots

===============================================================================
