------------------------------- MODULE RateLimit -------------------------------
(***************************************************************************)
(* What the counters' worker promises Discord: of the uses it accounts for,  *)
(* no more than Max of one channel are ever young at the same time.  A use   *)
(* stops counting when it grows old (or when its account is lost).  A young   *)
(* use may go astray: the limiter no longer sees it.  Of these there are no   *)
(* more than Slack.                                                         *)
(***************************************************************************)
EXTENDS Naturals

CONSTANTS Channels, Max, Slack

VARIABLES
    young,   \* the young uses of each channel that the limiter sees
    stray    \* and those it does not

Init == young = [ch \in Channels |-> 0] /\ stray = [ch \in Channels |-> 0]

Use(ch) ==
    /\ young[ch] < Max
    /\ young' = [young EXCEPT ![ch] = @ + 1]
    /\ UNCHANGED stray

\* Time passes: uses grow old, and some go astray.
Age ==
    /\ young' \in [Channels -> 0..Max] /\ stray' \in [Channels -> 0..Slack]
    /\ \A ch \in Channels : /\ young'[ch] <= young[ch]
                            /\ young'[ch] + stray'[ch] <= young[ch] + stray[ch]

Next == (\E ch \in Channels : Use(ch)) \/ Age

Spec == Init /\ [][Next]_<<young, stray>>
===============================================================================
