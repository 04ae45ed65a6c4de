------------------------------ MODULE MCAnalytics ------------------------------
(* Two members of one guild, one of whom is anonymized.                       *)
EXTENDS Analytics

Row(kind, channel, author, anonymous, day, minutes) ==
    [kind |-> kind, guild |-> "g1", author |-> author, anonymous |-> anonymous, day |-> day,
     minutes |-> minutes, channel |-> channel, hour |-> day, command |-> "", role |-> ""]

\* Sessions that a custom client reports have no channel.
OfEvent ==
    [e1 |-> Row("message", "c1", "u1", FALSE, 1, 0),
     e2 |-> Row("message", "c2", "u2", TRUE, 2, 0),
     e3 |-> Row("voice", "", "u1", FALSE, 2, 2)]

Orders == {<<"voice", "asc">>}

Migration == <<"daily", "heatmap">>
===============================================================================
