------------------------------- MODULE Realtime -------------------------------
(***************************************************************************)
(* The state of one guild on its way to the browsers.  Handlers and workers  *)
(* save a parameter and publish it on a channel of Redis; the frontend API    *)
(* subscribes to the channel and emits each message to the sockets in the    *)
(* guild's room.  A browser connects, subscribes, joins the room after a      *)
(* check of its rights, and may then ask (POST emit-full-state) for the      *)
(* stored values, which go to the whole room.                               *)
(*                                                                         *)
(* The sockets and the requests are those of one user, who is the guild's owner *)
(* or has rights in Discord; the list of guilds it manages is cached in Redis.  *)
(*                                                                         *)
(* A value is the number of the write that made it.  Redis keeps no message   *)
(* for a subscriber that is away; what is on its way is ordered.              *)
(***************************************************************************)
EXTENDS Integers, Sequences, FiniteSets, SequencesExt

CONSTANTS
    OfGuild,       \* parameters saved in guilds and published
    OfSettings,    \* parameters saved in server_settings and published
    Writer,        \* handlers and workers in progress at once
    Client,        \* sockets
    Snapshot,      \* requests for the full state in progress at once
    MaxWrites,     \* writes (a bound)
    MaxBreaks      \* failures, lost connections, restarts, changed rights (a bound)

ASSUME RealtimeAssumption ==
    /\ IsFiniteSet(Writer) /\ MaxWrites \in Nat /\ MaxBreaks \in Nat
    /\ OfGuild \cap OfSettings = {} /\ Client \cap Snapshot = {}

Parameter == OfGuild \cup OfSettings
Unset == -1

VARIABLES
    row,          \* PostgreSQL
    writer,       \* the handlers between their save and their publication
    channel,      \* Redis: messages on their way to the frontend API
    subscribed,   \* the frontend API's subscription is up
    phase,        \* the frontend API: starting, serving (it has a server), listening
    drained,      \* the queue has been drained
    queue,        \* broadcastQueue
    client,       \* the sockets
    view,         \* what each socket in the room was last told
    snapshot,     \* the requests in progress
    owner,        \* the user owns the guild
    rights,       \* Discord: the user may manage it
    listed,       \* Redis: what the user's cached guilds say: "yes", "no", or "none" cached
    check,        \* the checks of the user's rights in progress
    writes, breaks,
    astray,       \* history: parameters with overlapping publications, a lost one, or
                  \* one that an older snapshot followed
    lately        \* history: rights the user had while a list was cached or being fetched

publishers == <<row, writer, writes>>
process == <<phase, drained, queue>>
sockets == <<client, view>>
access == <<owner, rights, listed, check, lately>>
vars == <<publishers, channel, subscribed, process, sockets, access, snapshot, breaks, astray>>

Idle == [pc |-> "idle"]
Checker == Client \cup Snapshot
Room == {c \in Client : client[c] = "joined"}

TypeOK ==
    /\ row \in [Parameter -> 0..writes]
    /\ \A w \in Writer : writer[w] = Idle
                         \/ writer[w] \in [pc : {"publish"}, parameter : Parameter, value : 1..writes]
    /\ channel \in Seq([parameter : Parameter, value : 1..writes])
    /\ subscribed \in BOOLEAN
    /\ phase \in {"starting", "serving", "listening"} /\ drained \in BOOLEAN
    /\ queue \in Seq([parameter : Parameter, value : 1..writes])
    /\ client \in [Client -> {"off", "connected", "joined"}]
    /\ view \in [Client -> [Parameter -> {Unset} \cup 0..writes]]
    /\ \A s \in Snapshot :
          snapshot[s] = Idle
          \/ snapshot[s] \in [pc : {"guild", "settings"}, read : [Parameter -> 0..writes],
                              old : SUBSET Parameter]
    /\ owner \in BOOLEAN /\ rights \in BOOLEAN /\ listed \in {"none", "yes", "no"}
    /\ check \in [Checker -> {"none", "asked", "missed", "yes", "no", "granted"}]
    /\ lately \subseteq BOOLEAN
    /\ writes \in 0..MaxWrites /\ breaks \in 0..MaxBreaks
    /\ astray \subseteq Parameter

Init ==
    /\ row = [p \in Parameter |-> 0]
    /\ writer = [w \in Writer |-> Idle] /\ writes = 0
    /\ channel = <<>> /\ subscribed = FALSE
    /\ phase = "starting" /\ drained = FALSE /\ queue = <<>>
    /\ client = [c \in Client |-> "off"]
    /\ view = [c \in Client |-> [p \in Parameter |-> Unset]]
    /\ snapshot = [s \in Snapshot |-> Idle]
    /\ owner \in BOOLEAN /\ rights \in BOOLEAN /\ listed = "none"
    /\ check = [a \in Checker |-> "none"] /\ lately = {rights}
    /\ breaks = 0 /\ astray = {}

Breaks == breaks < MaxBreaks /\ breaks' = breaks + 1

\* The rights and the checks change.  What the user had counts until no list is cached
\* and no check holds one.
Checks(checks, list, may) ==
    /\ check' = checks /\ listed' = list /\ rights' = may
    /\ lately' = IF list = "none" /\ \A a \in Checker : checks[a] \in {"none", "asked", "missed"}
                 THEN {may} ELSE lately \cup {may}

-------------------------------------------------------------------------------
(* Handlers and workers.                                                   *)

Params(seq) == {seq[i].parameter : i \in DOMAIN seq}
Publishing(p) == \E w \in Writer : writer[w] # Idle /\ writer[w].parameter = p
InFlight(p) == Publishing(p) \/ p \in Params(channel) \/ p \in Params(queue)

\* The requests that have read p already now hold an older value.
Read(s, p) == \/ p \in OfGuild /\ snapshot[s].pc \in {"guild", "settings"}
              \/ p \in OfSettings /\ snapshot[s].pc = "settings"
Overtake(p) ==
    snapshot' = [s \in Snapshot |->
                   IF Read(s, p) THEN [snapshot[s] EXCEPT !.old = @ \cup {p}] ELSE snapshot[s]]

\* Defect: the value is published and not saved.
WriteUnsaved(w, p) ==
    /\ writer[w] = Idle /\ writes < MaxWrites
    /\ writes' = writes + 1
    /\ writer' = [writer EXCEPT ![w] = [pc |-> "publish", parameter |-> p, value |-> writes + 1]]
    /\ Overtake(p)
    /\ astray' = IF Publishing(p) THEN astray \cup {p} ELSE astray \ {p}
    /\ UNCHANGED <<row, channel, subscribed, process, sockets, breaks, access>>

\* A handler makes a new value and saves it.  A save that
\* fails either ends the handler or is ignored.
Write(w, p) ==
    /\ writer[w] = Idle /\ writes < MaxWrites
    /\ writes' = writes + 1
    /\ writer' = [writer EXCEPT ![w] = [pc |-> "publish", parameter |-> p, value |-> writes + 1]]
    /\ row' = [row EXCEPT ![p] = writes + 1]
    /\ Overtake(p)
    /\ astray' = IF Publishing(p) THEN astray \cup {p} ELSE astray \ {p}
    /\ UNCHANGED <<channel, subscribed, process, sockets, breaks, access>>

SaveFails(w, p) ==
    /\ writer[w] = Idle /\ writes < MaxWrites /\ Breaks
    /\ writes' = writes + 1
    /\ writer' = [writer EXCEPT ![w] = [pc |-> "publish", parameter |-> p, value |-> writes + 1]]
    /\ astray' = astray \cup {p}
    /\ UNCHANGED <<row, channel, subscribed, process, sockets, snapshot, access>>

\* PUBLISH is not awaited; nobody keeps a message for a subscriber that is away.
Publish(w) ==
    /\ writer[w] # Idle
    /\ writer' = [writer EXCEPT ![w] = Idle]
    /\ LET m == [parameter |-> writer[w].parameter, value |-> writer[w].value]
       IN  IF subscribed
           THEN channel' = Append(channel, m) /\ UNCHANGED astray
           ELSE astray' = astray \cup {m.parameter} /\ UNCHANGED channel
    /\ UNCHANGED <<row, writes, subscribed, process, sockets, snapshot, breaks, access>>

-------------------------------------------------------------------------------
(* The frontend API starts.  The subscriber subscribes before the gateway has *)
(* a server; afterInit sets it and defers the draining of the queue to the    *)
(* end of that turn of the event loop, before the first connection.          *)

Subscribe ==
    /\ ~subscribed
    /\ subscribed' = TRUE
    /\ UNCHANGED <<publishers, channel, process, sockets, snapshot, breaks, astray, access>>

AfterInit ==
    /\ phase = "starting"
    /\ phase' = "serving"
    /\ UNCHANGED <<publishers, channel, subscribed, drained, queue, sockets, snapshot, breaks, astray, access>>

\* server.to(room).emit, for each message of s: the last value of a parameter stays.
ValueIn(s, p) == s[SelectLastInSeq(s, LAMBDA m : m.parameter = p)].value
Emit(s) ==
    view' = [c \in Client |-> [p \in Parameter |->
               IF c \in Room /\ p \in Params(s) THEN ValueIn(s, p) ELSE view[c][p]]]

Drain ==
    /\ phase # "starting" /\ ~drained
    /\ drained' = TRUE /\ queue' = <<>>
    /\ Emit(queue)
    /\ UNCHANGED <<publishers, channel, subscribed, phase, client, snapshot, breaks, astray, access>>

\* Defect: connections are accepted before the queue is drained.
ListenAtOnce ==
    /\ phase = "serving"
    /\ phase' = "listening"
    /\ UNCHANGED <<publishers, channel, subscribed, drained, queue, sockets, snapshot, breaks, astray, access>>

Listen ==
    /\ phase = "serving" /\ drained
    /\ phase' = "listening"
    /\ UNCHANGED <<publishers, channel, subscribed, drained, queue, sockets, snapshot, breaks, astray, access>>

\* A message arrives: it is emitted, or queued while there is no server.
Arrive ==
    /\ channel # <<>>
    /\ channel' = Tail(channel)
    /\ IF phase = "starting"
       THEN queue' = Append(queue, Head(channel)) /\ UNCHANGED view
       ELSE Emit(<<Head(channel)>>) /\ UNCHANGED queue
    /\ UNCHANGED <<publishers, subscribed, phase, drained, client, snapshot, breaks, astray, access>>

\* The connection to Redis breaks: what is on its way is lost.
Unsubscribed ==
    /\ subscribed /\ Breaks
    /\ subscribed' = FALSE /\ channel' = <<>>
    /\ astray' = astray \cup Params(channel)
    /\ UNCHANGED <<publishers, process, sockets, snapshot, access>>

\* The process ends and starts again.
Restart ==
    /\ phase # "starting" /\ Breaks
    /\ phase' = "starting" /\ drained' = FALSE /\ queue' = <<>>
    /\ subscribed' = FALSE /\ channel' = <<>>
    /\ client' = [c \in Client |-> "off"]
    /\ snapshot' = [s \in Snapshot |-> Idle]
    /\ Checks([a \in Checker |-> "none"], listed, rights)
    /\ astray' = astray \cup Params(channel) \cup Params(queue)
    /\ UNCHANGED <<publishers, view, owner>>

-------------------------------------------------------------------------------
(* The user's rights: GuildsRealtimeService.  A check finds the cached list, or asks *)
(* Discord and caches the answer for five minutes.                           *)

\* Defect: whoever has a cached list is let in.
HitByAnyList(a) ==
    /\ check[a] = "asked" /\ listed # "none"
    /\ Checks([check EXCEPT ![a] = "granted"], listed, rights)
    /\ UNCHANGED <<publishers, channel, subscribed, process, sockets, snapshot, breaks, astray, owner>>

\* The cached list answers ...
Hit(a) ==
    /\ check[a] = "asked" /\ listed # "none"
    /\ Checks([check EXCEPT ![a] = IF listed = "yes" THEN "granted" ELSE "none"], listed, rights)
    /\ UNCHANGED <<publishers, channel, subscribed, process, sockets, snapshot, breaks, astray, owner>>

\* ... or it is not there; the request to Discord may take its time.
Miss(a) ==
    /\ check[a] = "asked" /\ listed = "none"
    /\ Checks([check EXCEPT ![a] = "missed"], listed, rights)
    /\ UNCHANGED <<publishers, channel, subscribed, process, sockets, snapshot, breaks, astray, owner>>

GetUserGuilds(a) ==
    /\ check[a] = "missed"
    /\ Checks([check EXCEPT ![a] = IF rights THEN "yes" ELSE "no"], listed, rights)
    /\ UNCHANGED <<publishers, channel, subscribed, process, sockets, snapshot, breaks, astray, owner>>

SetList(a) ==
    /\ check[a] \in {"yes", "no"}
    /\ Checks([check EXCEPT ![a] = IF @ = "yes" THEN "granted" ELSE "none"], check[a], rights)
    /\ UNCHANGED <<publishers, channel, subscribed, process, sockets, snapshot, breaks, astray, owner>>

\* No Discord token, or Discord or Redis fails.
CheckFails(a) ==
    /\ check[a] \in {"asked", "missed", "yes", "no"} /\ Breaks
    /\ Checks([check EXCEPT ![a] = "none"], listed, rights)
    /\ UNCHANGED <<publishers, channel, subscribed, process, sockets, snapshot, astray, owner>>

ListExpires ==
    /\ listed # "none"
    /\ Checks(check, "none", rights)
    /\ UNCHANGED <<publishers, channel, subscribed, process, sockets, snapshot, breaks, astray, owner>>

RightsChange ==
    /\ Breaks
    /\ Checks(check, listed, ~rights)
    /\ UNCHANGED <<publishers, channel, subscribed, process, sockets, snapshot, astray, owner>>

-------------------------------------------------------------------------------
(* Sockets.                                                                *)

Connect(c) ==
    /\ phase = "listening" /\ client[c] = "off" /\ check[c] = "none"
    /\ client' = [client EXCEPT ![c] = "connected"]
    /\ UNCHANGED <<publishers, channel, subscribed, process, view, access, snapshot, breaks, astray>>

\* handleSubscribe looks for the guild and, unless the user is the owner, asks for its
\* rights ...
Ask(c) ==
    /\ client[c] = "connected" /\ check[c] = "none"
    /\ Checks([check EXCEPT ![c] = IF owner THEN "granted" ELSE "asked"], listed, rights)
    /\ UNCHANGED <<publishers, channel, subscribed, process, sockets, snapshot, breaks, astray, owner>>

\* ... and joins the room: from now on the socket is told what arrives, and nobody asks
\* again.  A socket that is gone joins nothing.
Join(c) ==
    /\ check[c] = "granted"
    /\ Checks([check EXCEPT ![c] = "none"], listed, rights)
    /\ IF client[c] = "off" THEN UNCHANGED sockets
       ELSE /\ client' = [client EXCEPT ![c] = "joined"]
            /\ view' = [view EXCEPT ![c] = [p \in Parameter |-> Unset]]
    /\ UNCHANGED <<publishers, channel, subscribed, process, snapshot, breaks, astray, owner>>

\* A socket that is gone has left its rooms; what handles its message goes on.
Disconnect(c) ==
    /\ client[c] # "off"
    /\ client' = [client EXCEPT ![c] = "off"]
    /\ UNCHANGED <<publishers, channel, subscribed, process, view, access, snapshot, breaks, astray>>

-------------------------------------------------------------------------------
(* emitFullStateForGuild: the guild, then its settings, then (and it may be    *)
(* left out) the total of ClickHouse are read, and the room is told.          *)

\* GuildAdminGuard stands before the request.
Request(s) ==
    /\ phase = "listening" /\ snapshot[s] = Idle /\ check[s] = "none"
    /\ Checks([check EXCEPT ![s] = IF owner THEN "granted" ELSE "asked"], listed, rights)
    /\ UNCHANGED <<publishers, channel, subscribed, process, sockets, snapshot, breaks, astray, owner>>

ReadGuild(s) ==
    /\ check[s] = "granted"
    /\ Checks([check EXCEPT ![s] = "none"], listed, rights)
    /\ snapshot' = [snapshot EXCEPT ![s] = [pc |-> "guild", read |-> row, old |-> {}]]
    /\ UNCHANGED <<publishers, channel, subscribed, process, sockets, breaks, astray, owner>>

ReadSettings(s) ==
    /\ snapshot[s].pc = "guild"
    /\ snapshot' = [snapshot EXCEPT ![s].pc = "settings",
                      ![s].read = [p \in Parameter |-> IF p \in OfSettings THEN row[p] ELSE @[p]]]
    /\ UNCHANGED <<publishers, channel, subscribed, process, sockets, breaks, astray, access>>

\* A request that fails ends.
SnapshotFails(s) ==
    /\ snapshot[s] # Idle /\ Breaks
    /\ snapshot' = [snapshot EXCEPT ![s] = Idle]
    /\ UNCHANGED <<publishers, channel, subscribed, process, sockets, astray, access>>

EmitFullState(s) ==
    /\ snapshot[s].pc = "settings"
    /\ view' = [c \in Client |-> IF c \in Room THEN snapshot[s].read ELSE view[c]]
    /\ snapshot' = [snapshot EXCEPT ![s] = Idle]
    /\ astray' = (astray \ {p \in Parameter : ~InFlight(p)})
                   \cup {p \in snapshot[s].old : ~InFlight(p)}
    /\ UNCHANGED <<publishers, channel, subscribed, process, client, breaks, access>>

-------------------------------------------------------------------------------
Publishers ==
    \E w \in Writer :
       \/ Publish(w)
       \/ \E p \in Parameter : Write(w, p) \/ SaveFails(w, p)

Server == Subscribe \/ AfterInit \/ Drain \/ Listen \/ Arrive \/ Unsubscribed \/ Restart

Rights ==
    \/ ListExpires \/ RightsChange
    \/ \E a \in Checker : Hit(a) \/ Miss(a) \/ GetUserGuilds(a) \/ SetList(a) \/ CheckFails(a)

Sockets == \E c \in Client : Connect(c) \/ Ask(c) \/ Join(c) \/ Disconnect(c)

Requests == \E s \in Snapshot :
    Request(s) \/ ReadGuild(s) \/ ReadSettings(s) \/ SnapshotFails(s) \/ EmitFullState(s)

Next == Publishers \/ Server \/ Rights \/ Sockets \/ Requests

Spec == Init /\ [][Next]_vars

-------------------------------------------------------------------------------
(* Properties.                                                             *)

Quiet ==
    /\ \A w \in Writer : writer[w] = Idle
    /\ channel = <<>> /\ queue = <<>>
    /\ \A s \in Snapshot : snapshot[s] = Idle

\* With nothing on its way, what a socket was last told of a stored parameter is what
\* is stored, whatever the join, the snapshots of others and the messages did to each
\* other: unless publications of it overlapped, one was lost, or a snapshot read it
\* before the last write and was emitted after its message (realtime-full-state:26-137).
ViewSettles ==
    /\ TypeOK
    /\ Quiet => \A c \in Room, p \in Parameter \ astray : view[c][p] \in {Unset, row[p]}

\* What a socket is told never goes back to an older value, except for a while, with
\* the newer message still to come, or in the three cases above.
NeverBack ==
    [][\A c \in Client, p \in Parameter :
          client[c] = "joined" /\ client'[c] = "joined" /\ view'[c][p] < view[c][p] =>
             p \in astray \cup astray' \/ InFlight(p)]_vars

\* A socket enters the room, and a snapshot is read, by right: the user owns the guild
\* or had the rights in Discord while the list was cached that let it in or was being
\* fetched, however checks, changes of the rights and the expiry of the list interleave
\* (guilds-realtime.service.ts:49-123, guild-state.gateway.ts:163-184).
EntersByRight ==
    [][\A a \in Checker : check[a] = "granted" /\ check'[a] = "none" =>
          owner \/ TRUE \in lately]_vars

===============================================================================
