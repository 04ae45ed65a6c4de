---------------------------------- MODULE Bots ----------------------------------
(***************************************************************************)
(* An onboarded guild and its bots: the main bot of the shards, and a bot of *)
(* its own when server_settings stores a token for it.  MultiTokenConnection-*)
(* Manager logs the own bot in when the bot service starts, and only then;   *)
(* the events of both bots, the reconciliation and two PATCH requests write  *)
(* the rows of guilds and server_settings, each with findOne and save().     *)
(*                                                                         *)
(* A guild is onboarded first (GuildOnboarding) and used then: the requests  *)
(* and the jobs that created its rows are over.  A handler's write of guilds *)
(* and a save()'s SELECT and UPDATE are one step each; GuildPresence has     *)
(* them apart.  What the handlers publish is the affair of Realtime.         *)
(***************************************************************************)
EXTENDS GuildOnboarding

CONSTANTS
    Main, Own,       \* the two bots; the handlers of their events
    Recon,           \* the reconciliation
    Editors,         \* the users who change the guild's settings
    Tokens, NoToken, \* the own bot's tokens, none
    MaxMoves,        \* times a bot joins or leaves (a bound)
    MaxRare          \* restarts, lost sessions and errors (a bound on their sum)

Robots == {Main, Own}
Service == Robots \cup {Recon}
Tasks == Service \cup Editors

ASSUME BotsAssumption ==
    /\ Main # Own /\ Recon \notin Robots /\ Service \cap Editors = {}
    /\ Editors \subseteq Calls
    /\ NoToken \notin Tokens
    /\ MaxMoves \in Nat /\ MaxRare \in Nat

VARIABLES
    opened,      \* the guild's onboarding is over
    member, moves, \* Discord: which bot is in the guild; joins and leaves so far
    row,         \* PostgreSQL: guilds.is_bot_in_guild; server_settings' token
    service,     \* the bot service is "down", "starting" or "up"
    list,        \* the token it read when it started
    client,      \* the token of the own bot's client in customClients
    live, cache, \* that client has a session; its guild cache has the guild
    task,        \* the handlers and requests under way
    rare,        \* rare things so far
    given,       \* history: the token that a request was the last to store
    overlap      \* history: two tasks were between findOne and save at once

botVars == <<opened, member, moves, row, service, list, client, live, cache,
             task, rare, given, overlap>>
discordVars == <<member, moves>>
clientVars == <<service, list, client, live, cache>>

\* A request may leave the token out.
Keep == "keep"
Given == Tokens \cup {NoToken, Keep}

Saves == {"ready_save", "connected_save", "gone_save", "sync_save", "settings_save",
          "token_save"}
Places == Saves \cup
          {"idle", "ready", "create", "connected", "sync", "sync_find", "delete", "gone",
           "settings", "token", "list", "leave", "join", "own"}

\* `token` and `connected` are a task's copy of server_settings, `give` is the token of
\* its request, `then` where it goes on after a handler.
Task == [pc : Places, token : Tokens \cup {NoToken}, give : Given,
         listed : BOOLEAN, then : {"idle", "own"}]
Nothing == [pc |-> "idle", token |-> NoToken, give |-> Keep,
            listed |-> FALSE, then |-> "idle"]

BotsTypeOK ==
    /\ TypeOK
    /\ opened \in BOOLEAN
    /\ member \in [Robots -> BOOLEAN] /\ moves \in 0..MaxMoves
    /\ row \in [inGuild : BOOLEAN, token : Tokens \cup {NoToken}]
    /\ service \in {"down", "starting", "up"}
    /\ list \in Tokens \cup {NoToken} /\ client \in Tokens \cup {NoToken}
    /\ live \in BOOLEAN /\ cache \in BOOLEAN
    /\ task \in [Tasks -> Task]
    /\ rare \in 0..MaxRare
    /\ given \in Tokens \cup {NoToken} /\ overlap \in BOOLEAN

\* The guild's rows as onboarding stores them; the main bot is in it.
BotsInit ==
    /\ Init
    /\ opened = FALSE
    /\ member = [b \in Robots |-> b = Main] /\ moves = 0
    /\ row = [inGuild |-> TRUE, token |-> NoToken]
    /\ service = "up" /\ list = NoToken /\ client = NoToken
    /\ live = FALSE /\ cache = FALSE
    /\ task = [t \in Tasks |-> Nothing]
    /\ rare = 0 /\ given = NoToken /\ overlap = FALSE

\* Everyone who works on the guild's rows is done, and nothing is left to be retried.
Open ==
    /\ ~opened /\ settings /\ history
    /\ jobs = 0 /\ ~failed /\ ~broken /\ \A p \in Parties : At(p, "idle")
    /\ opened' = TRUE
    /\ UNCHANGED <<discordVars, row, clientVars, task, rare, given>>

Is(t, place) == task[t].pc = place
Move(t, place) == task' = [task EXCEPT ![t].pc = place]

\* A handler ends; the reconciliation may have more to compare.
Done(t) == task' = [task EXCEPT ![t] = [Nothing EXCEPT !.pc = task[t].then]]
Begin(t, place) == Is(t, "idle") /\ task' = [task EXCEPT ![t] = [Nothing EXCEPT !.pc = place]]

Rare == rare < MaxRare /\ rare' = rare + 1

-------------------------------------------------------------------------------
(* Discord.                                                                *)

\* A bot hears of the guild through the shard's connection or its own client.
Hears(b) == IF b = Main THEN service # "down" ELSE client # NoToken /\ live

\* A bot joins or leaves; its event starts a handler, or reaches nobody.  An event
\* waits for the handler of the bot's previous one (a bound: GuildPresence lets the
\* handlers of one bot overlap).
JoinOrLeave(b) ==
    /\ opened /\ moves < MaxMoves /\ Is(b, "idle")
    /\ member' = [member EXCEPT ![b] = ~@] /\ moves' = moves + 1
    /\ IF Hears(b)
       THEN /\ Begin(b, IF member'[b] THEN "create" ELSE "delete")
            /\ cache' = IF b = Own THEN member'[b] ELSE cache
       ELSE UNCHANGED <<task, cache>>
    /\ UNCHANGED <<opened, row, service, list, client, live, rare, given>>

\* 'invalidated': the session is over and nobody logs in again; the client stays in
\* customClients and keeps its cache.
LoseSession ==
    /\ client # NoToken /\ live /\ Rare
    /\ live' = FALSE
    /\ UNCHANGED <<opened, discordVars, row, service, list, client, cache, task, given>>

-------------------------------------------------------------------------------
(* The bot service starts and stops.                                       *)

Stop ==
    /\ opened /\ service # "down" /\ Rare
    /\ service' = "down" /\ list' = NoToken /\ client' = NoToken
    /\ live' = FALSE /\ cache' = FALSE
    /\ task' = [t \in Tasks |-> IF t \in Service THEN Nothing ELSE task[t]]
    /\ UNCHANGED <<opened, discordVars, row, given>>

\* onModuleInit reads all stored tokens ...
StartService ==
    /\ service = "down"
    /\ service' = "starting" /\ list' = row.token
    /\ UNCHANGED <<opened, discordVars, row, client, live, cache, task, rare, given>>

\* ... and logs one client in after the other.  The first READY comes with the
\* guilds the bot is in.
Login ==
    /\ service = "starting" /\ list # NoToken
    /\ service' = "up" /\ client' = list /\ list' = NoToken
    /\ live' = TRUE /\ cache' = member[Own]
    /\ Begin(Own, "ready")
    /\ UNCHANGED <<opened, discordVars, row, rare, given>>

\* No token, or one that cannot be decrypted or that Discord refuses: no client.
NoLogin ==
    /\ service = "starting"
    /\ \/ list = NoToken /\ UNCHANGED rare
       \/ list # NoToken /\ Rare
    /\ service' = "up" /\ list' = NoToken
    /\ UNCHANGED <<opened, discordVars, row, client, live, cache, task, given>>

-------------------------------------------------------------------------------
(* syncOnGuildCreate, syncOnGuildDelete: the guild's row.                    *)

MarkJoined(t) ==
    /\ Is(t, "create")
    /\ row' = [row EXCEPT !.inGuild = TRUE]
    /\ Move(t, "connected")
    /\ UNCHANGED <<opened, discordVars, clientVars, rare, given>>

MarkLeft(t) ==
    /\ Is(t, "delete")
    /\ row' = [row EXCEPT !.inGuild = FALSE]
    /\ Move(t, "gone")
    /\ UNCHANGED <<opened, discordVars, clientVars, rare, given>>

\* syncGuild asks Discord with the stored token, or else with the main bot's; only a
\* bot that is in the guild is answered.
BotOf(token) == IF token = NoToken THEN Main ELSE Own
FetchGuild(t) ==
    /\ Is(t, "sync")
    /\ IF member[BotOf(row.token)] THEN Move(t, "sync_find") ELSE Done(t)
    /\ UNCHANGED <<opened, discordVars, row, clientVars, rare, given>>

-------------------------------------------------------------------------------
(* findOne and save() of server_settings.                                    *)

\* Which save follows a read.
SaveAfter == [ready |-> "ready_save", connected |-> "connected_save", gone |-> "gone_save",
              sync_find |-> "sync_save", settings |-> "settings_save", token |-> "token_save"]

\* Defect: syncGuild saves the settings that were read before it asked Discord, as it
\* does with the guild.
FindBeforeFetch(t) ==
    /\ task[t].pc \in DOMAIN SaveAfter
    /\ task' = [task EXCEPT
         ![t].pc = SaveAfter[@],
         ![t].token = CASE Is(t, "token") -> task[t].give
                        [] Is(t, "sync_find") -> @
                        [] OTHER -> row.token]
    /\ UNCHANGED <<opened, discordVars, row, clientVars, rare, given>>

\* The copy has the row's token, or the one the request gives.
Find(t) ==
    /\ task[t].pc \in DOMAIN SaveAfter
    /\ task' = [task EXCEPT
         ![t].pc = SaveAfter[@],
         ![t].token = IF Is(t, "token") THEN task[t].give ELSE row.token]
    /\ UNCHANGED <<opened, discordVars, row, clientVars, rare, given>>

\* Defect: a token that the request leaves out is stored, too.
AfterAnyPatch(t) ==
    CASE Is(t, "connected_save") -> Move(t, "sync")
      [] Is(t, "settings_save") -> Move(t, "token")
      [] OTHER -> Done(t)

\* Where a task goes on when it saved its copy: a created guild is synced, a PATCH of
\* the settings that names a token stores it in a second turn.
After(t) ==
    CASE Is(t, "connected_save") -> Move(t, "sync")
      [] Is(t, "settings_save") /\ task[t].give # Keep -> Move(t, "token")
      [] OTHER -> Done(t)

\* The whole copy is written, however old it is.
Save(t) ==
    /\ task[t].pc \in Saves
    /\ row' = [row EXCEPT !.token = task[t].token]
    /\ given' = CASE overlap -> NoToken
                  [] Is(t, "token_save") /\ ~overlap -> task[t].token
                  [] OTHER -> given
    /\ After(t)
    /\ UNCHANGED <<opened, discordVars, clientVars, rare>>

-------------------------------------------------------------------------------
(* Requests.                                                                 *)

\* PATCH settings, with or without a token; PATCH token, which may clear it.  (The
\* message published then is heard by nobody.)
PatchSettings(e) ==
    /\ opened /\ Is(e, "idle")
    /\ \E give \in Given :
         task' = [task EXCEPT ![e] = [Nothing EXCEPT !.pc = "settings", !.give = give]]
    /\ UNCHANGED <<opened, discordVars, row, clientVars, rare, given>>

PatchToken(e) ==
    /\ opened /\ Is(e, "idle")
    /\ \E give \in Given \ {Keep} :
         task' = [task EXCEPT ![e] = [Nothing EXCEPT !.pc = "token", !.give = give]]
    /\ UNCHANGED <<opened, discordVars, row, clientVars, rare, given>>

-------------------------------------------------------------------------------
(* GuildReconciliationService.                                               *)

\* @Cron is mounted when every onModuleInit is over.
StartReconcile ==
    /\ opened /\ service = "up"
    /\ Begin(Recon, "list")
    /\ UNCHANGED <<opened, discordVars, row, clientVars, rare, given>>

ListGuilds ==
    /\ Is(Recon, "list")
    /\ task' = [task EXCEPT ![Recon].pc = "leave", ![Recon].listed = member[Main]]
    /\ UNCHANGED <<opened, discordVars, row, clientVars, rare, given>>

\* The reconciliation becomes the handler of the event it takes for missed.
Handle(place) ==
    task' = [task EXCEPT ![Recon].pc = place,
                         ![Recon].then = IF Is(Recon, "own") THEN "idle" ELSE "own"]

\* The main bot's guilds: not those with a token, nor those with a client.
CompareLeft ==
    /\ Is(Recon, "leave")
    /\ IF row.inGuild /\ row.token = NoToken /\ client = NoToken /\ ~task[Recon].listed
       THEN Handle("delete") ELSE Move(Recon, "join")
    /\ UNCHANGED <<opened, discordVars, row, clientVars, rare, given>>

\* Defect: the main bot joins the guilds of other clients, too.
CompareAllJoined ==
    /\ Is(Recon, "join")
    /\ IF ~row.inGuild /\ task[Recon].listed THEN Handle("create") ELSE Move(Recon, "own")
    /\ UNCHANGED <<opened, discordVars, row, clientVars, rare, given>>

CompareJoined ==
    /\ Is(Recon, "join")
    /\ IF ~row.inGuild /\ client = NoToken /\ task[Recon].listed
       THEN Handle("create") ELSE Move(Recon, "own")
    /\ UNCHANGED <<opened, discordVars, row, clientVars, rare, given>>

\* The own bot's guild is compared with its client's cache.
CompareOwn ==
    /\ Is(Recon, "own")
    /\ IF client # NoToken /\ row.inGuild # cache
       THEN Handle(IF cache THEN "create" ELSE "delete")
       ELSE task' = [task EXCEPT ![Recon] = Nothing]
    /\ UNCHANGED <<opened, discordVars, row, clientVars, rare, given>>

-------------------------------------------------------------------------------
\* A call of a handler or a request fails.
GiveUp(t) ==
    /\ ~Is(t, "idle") /\ Rare
    /\ task' = [task EXCEPT ![t] = Nothing]
    /\ UNCHANGED <<opened, discordVars, row, clientVars, given>>

ServiceStep(t) == MarkJoined(t) \/ MarkLeft(t) \/ FetchGuild(t) \/ Find(t) \/ Save(t)
Reconcile == ListGuilds \/ CompareLeft \/ CompareJoined \/ CompareOwn
Edit(e) ==
    PatchSettings(e) \/ PatchToken(e) \/ Find(e) \/ Save(e)

\* Two tasks between findOne and save of one row.
Overlapping == \E t, u \in Tasks : t # u /\ task[t].pc \in Saves /\ task[u].pc \in Saves

Recorded == overlap' = (overlap \/ Overlapping') /\ UNCHANGED vars

BotsStep ==
    /\ \/ Open
       \/ \E b \in Robots : JoinOrLeave(b)
       \/ LoseSession \/ Stop \/ StartService \/ Login \/ NoLogin
       \/ StartReconcile \/ Reconcile
       \/ \E t \in Service : ServiceStep(t)
       \/ \E e \in Editors : Edit(e)
       \/ \E t \in Tasks : GiveUp(t)
    /\ Recorded

BotsNext == (~opened /\ Next /\ UNCHANGED botVars) \/ BotsStep

\* A running handler goes on, and @Cron starts the reconciliation every 15 minutes.
\* Nobody need open the guild's settings, and the service need not be restarted.
BotsSpec ==
    /\ BotsInit /\ [][BotsNext]_<<vars, botVars>>
    /\ \A b \in Robots : WF_<<vars, botVars>>(ServiceStep(b) /\ Recorded)
    /\ WF_<<vars, botVars>>((StartReconcile \/ Reconcile \/ ServiceStep(Recon)) /\ Recorded)

-------------------------------------------------------------------------------
(* Properties.                                                             *)

\* What users gave is kept: as long as no two tasks were between reading and saving
\* the same row at once, the stored token is the one last given, whichever handlers
\* saved the settings since (guilds.service.ts:358-380, 554-569; guild-sync.updates.ts:47-55, 85-92;
\* guild-sync-internal.service.ts:90-96).
EditsKept == ~overlap => row.token = given

\* One bot serves the guild, and is in it or not: the own bot while its client has a
\* session, the main bot where no token is stored.
Served(inside) ==
    /\ opened /\ service = "up"
    /\ IF client = NoToken THEN row.token = NoToken ELSE live
    /\ member[IF client = NoToken THEN Main ELSE Own] = inside

\* The guild's row comes to follow the bot that serves the guild, although the other
\* bot's events write it, too, and restarts and lost sessions lose events
\* (guild-reconciliation.service.ts:77-135, 189-221).
FollowsItsBot ==
    \A inside \in BOOLEAN : <>[]Served(inside) => <>[](row.inGuild = inside)

===============================================================================
