------------------------------- MODULE Analytics -------------------------------
(***************************************************************************)
(* What the reports say.  ClickHouse keeps the rows of raw_events and, beside *)
(* it, materialized views that aggregate each insert as it is made and never   *)
(* see a row leave: rows leave with their retention and with the deletion of   *)
(* a user's data, which ClickHouse carries out some time after it was asked    *)
(* to.  A report is made of queries that are sent at once, or one after the     *)
(* other, and answered from what is there at that moment.                    *)
(*                                                                         *)
(* An answer is abstracted to the events its query was computed from; what it  *)
(* says is an operator on them.  A repeated insert counts like another event.  *)
(***************************************************************************)
EXTENDS Integers, FiniteSets, Sequences, SequencesExt

CONSTANTS
    Event,         \* what is inserted into raw_events
    Of,            \* the columns of each row
    Table,         \* the views, in the order the migration creates them
    Today,         \* the day it is in the guild's timezone
    OverviewDays,  \* 30
    MaxDays,       \* analyticsMaxDays of the guild's plan
    TopLimit, BoardLimit,          \* members in the report, and in the leaderboard: 20, 500
    KeyLimit,      \* channels, and commands, in the report: 10
    PageSize,      \* a page of the leaderboard
    Retention,     \* days until a row may be dropped
    Home,          \* the guild whose reports are followed
    Asked,         \* queries of a report that are followed (a bound)
    Pages,         \* the pages of the leaderboard that are read (a bound)
    Order,         \* the orders of the leaderboard that are asked for (a bound)
    Leaver,        \* the users who have their data deleted, once (a bound)
    Browser        \* browsers, each with a report or the leaderboard (a bound)

Views == Range(Table)
Day == 1..Today
Period == {p \in Day \X Day : p[1] <= p[2] /\ p[2] - p[1] <= MaxDays}

Query == {"chart", "members", "commands", "channels", "voice", "roles", "overview", "heatmap"}

\* The migration creates the view of the days before that of the heatmap; a row is of a
\* command or of a role; no message is stored without its channel; pages are read from the
\* first one on.
ASSUME AnalyticsAssumption ==
    /\ IsFiniteSet(Event) /\ Today \in Nat \ {0} /\ PageSize \in Nat \ {0}
    /\ MaxDays \in Nat /\ TopLimit \in Nat /\ BoardLimit \in Nat /\ KeyLimit \in Nat
    /\ \A e \in Event : /\ Of[e].kind \in {"message", "voice"} /\ Of[e].day \in Day
                        /\ Of[e].anonymous \in BOOLEAN /\ Of[e].minutes \in Nat
                        /\ Of[e].command = "" \/ Of[e].role = ""
                        /\ Of[e].kind = "message" => Of[e].channel # ""
    /\ Table \in Seq(STRING) /\ "heatmap" \in Views /\ ("commands" \in Asked => "command" \in Views)
    /\ \A i \in DOMAIN Table : Table[i] = "heatmap" => \E j \in 1..i : Table[j] = "daily"
    /\ Order \subseteq {"messages", "voice"} \X {"asc", "desc"}
    /\ {"chart", "channels", "heatmap"} \subseteq Asked /\ Asked \subseteq Query
    /\ IsFiniteSet(Pages) /\ Pages = 1..Cardinality(Pages)

VARIABLES
    made,         \* how many of the views have been created
    inserted,     \* the events that were ever inserted
    view,         \* the events each view has aggregated
    removed,      \* rows that have left raw_events
    queue,        \* users whose deletion is queued
    mutation,     \* ALTER TABLE DELETEs under way: the user and the rows
    erased,       \* history: users whose ALTER was accepted
    late,         \* history: what was inserted after its author's ALTER
    screen,       \* what each browser shows or waits for
    moved         \* history: browsers whose report's sources changed meanwhile

store == <<made, inserted, view, removed>>
deletions == <<queue, mutation, erased, late>>
analyticsVars == <<store, deletions, screen, moved>>

Raw == inserted \ removed
Author == {Of[e].author : e \in Event}

Source(q) ==
    CASE q \in {"chart", "members", "channels", "voice", "roles"} -> Raw
      [] q = "commands" -> view["command"]
      [] q = "overview" -> view["daily"]
      [] q = "heatmap" -> view["heatmap"]
Idle == [pc |-> "idle"]
Unread == [of |-> {}, entries |-> <<>>, read |-> FALSE]

AnalyticsTypeOK ==
    /\ made \in 0..Len(Table) /\ inserted \subseteq Event /\ removed \subseteq inserted
    /\ view \in [Views -> SUBSET inserted]
    /\ queue \subseteq Author /\ erased \subseteq Author /\ late \subseteq inserted
    /\ mutation \subseteq (Author \X SUBSET inserted)
    /\ \A b \in Browser :
          \/ screen[b] = Idle
          \/ screen[b] \in [pc : {"queries", "heatmap", "shown"}, period : Period,
                            asked : SUBSET Asked, answer : [Asked -> SUBSET inserted]]
          \/ /\ screen[b].pc = "board" /\ screen[b].order \in Order
             /\ \A k \in Pages : screen[b].page[k].of \subseteq inserted
    /\ moved \subseteq Browser

-------------------------------------------------------------------------------
(* What queries compute from the rows, or the aggregated events, S.          *)

Total(f(_), S) == Cardinality(UNION {{e} \X (1..f(e)) : e \in S})
Minutes(e) == IF Of[e].kind = "voice" THEN Of[e].minutes ELSE 0
Messages(S) == {e \in S : Of[e].kind = "message"}
In(S, g) == {e \in S : Of[e].guild = g}

\* Defect: a period leaves its first day out.
DuringAfter(S, p) == {e \in S : p[1] < Of[e].day /\ Of[e].day <= p[2]}

During(S, p) == {e \in S : p[1] <= Of[e].day /\ Of[e].day <= p[2]}

\* A row of a guild that anonymizes has a hash for an author, and no Discord id.
MemberId(e) == <<Of[e].anonymous, Of[e].author>>

TotalMessages(S, g) == Cardinality(Messages(In(S, g)))
TotalVoiceMinutes(S, g) == Total(Minutes, In(S, g))
GlobalMessages(S) == Cardinality(Messages(S))
MessagesOfGuilds(S, gs) == [g \in {Of[e].guild : e \in S} \cap gs |-> TotalMessages(S, g)]

\* unique_users_count counts user_id, which no row has.
Overview(S, g) ==
    [totalMessages |-> Cardinality(Messages(During(In(S, g), <<Today - OverviewDays, Today>>))),
     activeMembers24h |-> 0, activeMembers7d |-> 0]

\* One point for each day, zeros where there is no row.
Chart(S, g, p) ==
    [d \in p[1]..p[2] |->
       LET rows == During(In(S, g), <<d, d>>)
       IN  [messages |-> Cardinality(Messages(rows)),
            members |-> Cardinality({Of[e].author : e \in {f \in rows : ~Of[f].anonymous}}),
            voiceMinutes |-> Total(Minutes, rows)]]
Sum(chart, field) == Total(LAMBDA d : chart[d][field], DOMAIN chart)

\* Members, with what each has, in an order that is left open where both numbers tie.
Amount(S, id, metric) ==
    LET rows == {e \in S : MemberId(e) = id}
    IN  IF metric = "messages" THEN Cardinality(Messages(rows)) ELSE Total(Minutes, rows)
Other(metric) == IF metric = "messages" THEN "voice" ELSE "messages"
Ahead(S, metric, i, j) ==
    \/ Amount(S, i, metric) > Amount(S, j, metric)
    \/ /\ Amount(S, i, metric) = Amount(S, j, metric)
       /\ Amount(S, i, Other(metric)) > Amount(S, j, Other(metric))
Least(m, n) == IF m < n THEN m ELSE n
TopMembers(S, g, metric, limit) ==
    LET rows == In(S, g)
        ids == {MemberId(e) : e \in rows}
        lists == {s \in SetToSeqs(ids) :
                    \A i, j \in DOMAIN s : i < j => ~Ahead(rows, metric, s[j], s[i])}
    IN  {SubSeq(s, 1, Least(limit, Len(s))) : s \in lists}

\* Channels, commands and roles with their numbers.  A row without one counts for none.
Channelled(S) == {e \in S : Of[e].channel # ""}
PerMessageChannel(S, g, p) ==
    LET rows == Channelled(Messages(During(In(S, g), p)))
    IN  [c \in {Of[e].channel : e \in rows} |-> Cardinality({e \in rows : Of[e].channel = c})]
PerVoiceChannel(S, g, p) ==
    LET rows == {e \in Channelled(During(In(S, g), p)) : Of[e].kind = "voice"}
    IN  [c \in {Of[e].channel : e \in rows} |-> Total(Minutes, {e \in rows : Of[e].channel = c})]
PerCommand(S, g, p) ==
    LET rows == {e \in During(In(S, g), p) : Of[e].command # ""}
    IN  [c \in {Of[e].command : e \in rows} |-> Cardinality({e \in rows : Of[e].command = c})]
Roles(S, g, p) ==
    LET rows == {e \in During(In(S, g), p) : Of[e].role # ""}
    IN  [c \in {Of[e].role : e \in rows} |-> Cardinality({e \in rows : Of[e].role = c})]

\* ORDER BY the number DESC LIMIT: those with the highest numbers, in each way in which
\* ties at the limit can fall.
Tops(f) ==
    {[c \in keys |-> f[c]] : keys \in
        {ks \in SUBSET DOMAIN f : /\ Cardinality(ks) = Least(KeyLimit, Cardinality(DOMAIN f))
                                  /\ \A c \in ks, d \in DOMAIN f \ ks : f[c] >= f[d]}}
MessageChannels(S, g, p) == Tops(PerMessageChannel(S, g, p))
VoiceChannels(S, g, p) == Tops(PerVoiceChannel(S, g, p))
Commands(S, g, p) == Tops(PerCommand(S, g, p))
All(f) == Cardinality(UNION {{c} \X (1..f[c]) : c \in DOMAIN f})

\* Every hour of the week has a cell.
Heatmap(S, g) ==
    [h \in {Of[e].hour : e \in Event} |-> Cardinality({e \in Messages(In(S, g)) : Of[e].hour = h})]

\* What the export tells user u: the rows that still bear the Discord id.
RowsOfUser(S, u) == {e \in S : Of[e].author = u /\ ~Of[e].anonymous}
UserStats(S, u) == [totalMessages |-> Cardinality(Messages(RowsOfUser(S, u))),
                    totalVoiceMinutes |-> Total(Minutes, RowsOfUser(S, u))]

-------------------------------------------------------------------------------
(* ClickHouse.                                                             *)

AnalyticsInit ==
    /\ made \in 0..Len(Table)
    /\ inserted = {} /\ removed = {} /\ view = [v \in Views |-> {}]
    /\ queue = {} /\ mutation = {} /\ erased = {} /\ late = {}
    /\ screen = [b \in Browser |-> Idle] /\ moved = {}

InProgress == {b \in Browser : screen[b].pc \in {"queries", "heatmap"}}

\* A new release creates a view that an older one did not have, while others insert.
Create ==
    /\ made < Len(Table)
    /\ made' = made + 1
    /\ UNCHANGED <<inserted, view, removed, deletions, screen, moved>>

Exists(v) == \E i \in 1..made : Table[i] = v

\* A flush or a chunk of an import: the views that exist aggregate it.
Insert(batch) ==
    /\ batch \cap inserted = {}
    /\ inserted' = inserted \cup batch
    /\ view' = [v \in Views |-> IF Exists(v) THEN view[v] \cup batch ELSE view[v]]
    /\ late' = late \cup {e \in batch : Of[e].author \in erased}
    /\ moved' = moved \cup InProgress
    /\ UNCHANGED <<made, removed, queue, mutation, erased, screen>>

\* A merge drops rows whose retention is over; the views have none.
Expire(e) ==
    /\ e \in Raw /\ Of[e].day + Retention <= Today
    /\ removed' = removed \cup {e}
    /\ moved' = moved \cup InProgress
    /\ UNCHANGED <<made, inserted, view, deletions, screen>>

-------------------------------------------------------------------------------
(* The deletion of a user's data.                                          *)

\* deleteAllUserData adds the job when PostgreSQL has forgotten the user.
AddJob(u) ==
    /\ u \in Leaver \ (queue \cup erased)
    /\ queue' = queue \cup {u}
    /\ UNCHANGED <<store, mutation, erased, late, screen, moved>>

\* Defect: the deletion matches user_id, which no producer sets.
MatchingByUserId(u) == {}

\* WHERE discord_user_id = ...
Matching(u) == RowsOfUser(Raw, u)

\* The command answers once it is accepted, not when it is carried out.
Alter(u) ==
    /\ u \in queue
    /\ queue' = queue \ {u} /\ erased' = erased \cup {u}
    /\ mutation' = mutation \cup {<<u, Matching(u)>>}
    /\ UNCHANGED <<store, late, screen, moved>>

\* A command that reports an error may have been accepted; the job has one attempt.
AlterFails(u) ==
    /\ u \in queue
    /\ queue' = queue \ {u}
    /\ \/ UNCHANGED <<erased, mutation>>
       \/ erased' = erased \cup {u} /\ mutation' = mutation \cup {<<u, Matching(u)>>}
    /\ UNCHANGED <<store, late, screen, moved>>

\* ClickHouse rewrites the parts that were there: what was inserted since stays.
Mutate(m) ==
    /\ m \in mutation
    /\ mutation' = mutation \ {m}
    /\ removed' = removed \cup m[2]
    /\ moved' = moved \cup InProgress
    /\ UNCHANGED <<made, inserted, view, queue, erased, late, screen>>

-------------------------------------------------------------------------------
(* A report: queries at once, then the heatmap.                             *)

Ask(b, p) ==
    /\ screen[b] = Idle
    /\ screen' = [screen EXCEPT ![b] = [pc |-> "queries", period |-> p, asked |-> Asked \ {"heatmap"},
                                        answer |-> [q \in Asked |-> {}]]]
    /\ UNCHANGED <<store, deletions, moved>>

Answer(b, q) ==
    /\ screen[b].pc = "queries" /\ q \in screen[b].asked
    /\ screen' = [screen EXCEPT ![b].asked = @ \ {q}, ![b].answer[q] = Source(q),
                                ![b].pc = IF screen[b].asked = {q} THEN "heatmap" ELSE @]
    /\ UNCHANGED <<store, deletions, moved>>

AnswerHeatmap(b) ==
    /\ screen[b].pc = "heatmap"
    /\ Exists("heatmap")
    /\ screen' = [screen EXCEPT ![b].pc = "shown", ![b].answer["heatmap"] = Source("heatmap")]
    /\ UNCHANGED <<store, deletions, moved>>

\* One query that fails fails the report; those on a missing view do.
Fails(b) ==
    /\ screen[b].pc \in {"queries", "heatmap"}
    /\ screen' = [screen EXCEPT ![b] = Idle]
    /\ moved' = moved \ {b}
    /\ UNCHANGED <<store, deletions>>

Leave(b) ==
    /\ screen[b].pc \in {"shown", "board"}
    /\ screen' = [screen EXCEPT ![b] = Idle]
    /\ moved' = moved \ {b}
    /\ UNCHANGED <<store, deletions>>

-------------------------------------------------------------------------------
(* The leaderboard: each page is a query of its own.                        *)

\* Defect: a page has one row of the next one.
SliceOverlapping(s, k) == SubSeq(s, (k - 1) * PageSize + 1, Least(k * PageSize + 1, Len(s)))

Slice(s, k) == SubSeq(s, (k - 1) * PageSize + 1, Least(k * PageSize, Len(s)))

PageOf(s, k) ==
    LET slice == Slice(s, k)
    IN  [i \in DOMAIN slice |-> [rank |-> (k - 1) * PageSize + i, id |-> slice[i]]]

OpenBoard(b, o) ==
    /\ screen[b] = Idle
    /\ screen' = [screen EXCEPT ![b] = [pc |-> "board", order |-> o, page |-> [k \in Pages |-> Unread]]]
    /\ UNCHANGED <<store, deletions, moved>>

TurnTo(b, k) ==
    /\ screen[b].pc = "board"
    /\ \E s \in TopMembers(Raw, Home, screen[b].order[1], BoardLimit) :
          LET ordered == IF screen[b].order[2] = "asc" THEN Reverse(s) ELSE s
          IN  screen' = [screen EXCEPT ![b].page[k] =
                           [of |-> Raw, entries |-> PageOf(ordered, k), read |-> TRUE]]
    /\ UNCHANGED <<store, deletions, moved>>

-------------------------------------------------------------------------------
Storage == Create \/ (\E e \in Event : Expire(e)) \/ \E batch \in SUBSET Event \ {{}} : Insert(batch)
Deletion == \/ \E u \in Author : AddJob(u) \/ Alter(u) \/ AlterFails(u)
            \/ \E m \in mutation : Mutate(m)
Reports == \E b \in Browser :
    \/ \E p \in Period : Ask(b, p)
    \/ \E q \in Asked : Answer(b, q)
    \/ AnswerHeatmap(b) \/ Fails(b) \/ Leave(b)
Boards == \E b \in Browser : (\E o \in Order : OpenBoard(b, o)) \/ \E k \in Pages : TurnTo(b, k)

AnalyticsNext == Storage \/ Deletion \/ Reports \/ Boards

AnalyticsSpec == AnalyticsInit /\ [][AnalyticsNext]_analyticsVars

-------------------------------------------------------------------------------
(* Properties.                                                             *)

Few(f) == Cardinality(DOMAIN f) <= KeyLimit

\* Totals, which no deletion lowers, add up over guilds and days, are no less than the
\* heatmap, whose view was created later, and are the rows' as long as none has left
\* and none was there before.  The minutes of the channels that are shown, and those of no
\* channel, are the days' minutes, or less where the limit cuts channels off
\* (shared-analytics.service.ts:21-188, 462-497).
TotalsAgree ==
    LET daily == view["daily"]
        days == <<1, Today>>
        chart == Chart(Raw, Home, days)
        messages == Sum(chart, "messages")
        minutes == Sum(chart, "voiceMinutes")
    IN  /\ All(MessagesOfGuilds(daily, {Of[e].guild : e \in Event})) = GlobalMessages(daily)
        /\ Overview(daily, Home).totalMessages <= TotalMessages(daily, Home)
        /\ All(Heatmap(view["heatmap"], Home)) <= TotalMessages(daily, Home)
        /\ Raw = daily => /\ messages = TotalMessages(daily, Home)
                          /\ minutes = TotalVoiceMinutes(daily, Home)
        /\ \A top \in VoiceChannels(Raw, Home, days) :
              LET named == All(top) + Total(Minutes, In(Raw, Home) \ Channelled(Raw))
              IN  /\ named <= minutes
                  /\ Few(PerVoiceChannel(Raw, Home, days)) => named = minutes
        /\ \A top \in Commands(Raw, Home, days) :
              All(top) + All(Roles(Raw, Home, days)) <= Cardinality(Raw)
        /\ \A s \in TopMembers(Raw, Home, "messages", TopLimit) :
              Len(s) < TopLimit =>
                 Total(LAMBDA i : Amount(In(Raw, Home), s[i], "messages"), DOMAIN s) = messages

\* A report during which no row came or went agrees with itself: the days' messages are
\* those of the channels that are shown, or more where the limit cuts channels off.  The
\* heatmap, asked for last, shows no less than the days do, unless rows were there before
\* its view (analytics.service.ts:174-206).
ReportAgrees ==
    \A b \in Browser : screen[b].pc = "shown" =>
       LET a == screen[b].answer
           p == screen[b].period
           messages == Sum(Chart(a["chart"], Home, p), "messages")
       IN  /\ b \notin moved =>
                 \A top \in MessageChannels(a["channels"], Home, p) :
                    /\ All(top) <= messages
                    /\ Few(PerMessageChannel(a["channels"], Home, p)) => All(top) = messages
           /\ view["heatmap"] = inserted => messages <= All(Heatmap(a["heatmap"], Home))

PartsAgree == AnalyticsTypeOK /\ TotalsAgree /\ ReportAgrees

\* Once a deletion was carried out, no row bears the user's Discord id but those that
\* were inserted after the command (gdpr-user-delete.consumer.ts:46-62).
ErasedIsGone ==
    \A u \in erased : (\A m \in mutation : m[1] # u) =>
       /\ RowsOfUser(Raw, u) \subseteq late
       /\ UserStats(Raw \ late, u) = [totalMessages |-> 0, totalVoiceMinutes |-> 0]

\* No more members than its rank says are before a member on any page, and pages that were
\* read of the same rows, with no ties, show nobody twice and leave nobody out.  Where the
\* query cuts members off, the ascending order starts with the last of those that are left:
\* its ranks, and who it leaves out, are not followed then (analytics.service.ts:264-316).
Before(S, o, i, j) == IF o[2] = "desc" THEN Ahead(S, o[1], i, j) ELSE Ahead(S, o[1], j, i)
IdsOn(p) == {p.entries[i].id : i \in DOMAIN p.entries}
PagesPartition ==
    \A b \in Browser, k \in Pages : screen[b].pc = "board" /\ screen[b].page[k].read =>
       LET page == screen[b].page
           rows == In(page[k].of, Home)
           ids == {MemberId(e) : e \in rows}
           Leads(i, j) == Before(rows, screen[b].order, i, j)
           tied == \E i, j \in ids : i # j /\ ~Leads(i, j) /\ ~Leads(j, i)
           same == {l \in Pages : page[l].read /\ page[l].of = page[k].of}
           whole == Cardinality(ids) <= BoardLimit
       IN  /\ screen[b].order[2] = "desc" \/ whole => \A i \in DOMAIN page[k].entries :
                 Cardinality({j \in ids : Leads(j, page[k].entries[i].id)}) < page[k].entries[i].rank
           /\ ~tied => /\ \A l \in same \ {k} : IdsOn(page[k]) \cap IdsOn(page[l]) = {}
                       /\ same = Pages /\ whole /\ Cardinality(ids) <= PageSize * Cardinality(Pages) =>
                             UNION {IdsOn(page[l]) : l \in Pages} = ids
===============================================================================
