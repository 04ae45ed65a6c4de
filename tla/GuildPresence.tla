----------------------------- MODULE GuildPresence -----------------------------
(***************************************************************************)
(* What the bot service stores of the bot's presence in one guild:          *)
(* guilds.is_bot_in_guild and guilds.status.                                *)
(* The gateway handlers of the shard, the reconciliation with Discord's      *)
(* guild list, syncGuild (scheduled, or asked for over HTTP) and two requests *)
(* write them, each from its own copy of the row: TypeORM's save() selects   *)
(* the stored row and then updates the columns that differ from the copy,    *)
(* however old the copy is.  (guildUpdate loads neither column, so its save   *)
(* writes neither.)                                                          *)
(*                                                                         *)
(* The guild is in the database (the unknown guild is guild:setup's affair) *)
(* and uses the main bot's token.  The same handlers then write              *)
(* server_settings (bot_connected, last_sync_at), which no step here reads:  *)
(* those writes are left out.                                               *)
(***************************************************************************)
EXTENDS Naturals, Sequences, FiniteSets

CONSTANTS
    Shard,       \* gateway handlers that may run at once (a bound)
    Recon,       \* the reconciliation
    Sync,        \* a sync nobody's GUILD_CREATE asked for, or another request, one at
                 \* a time (a bound)
    NoTask,      \* nobody
    MaxMoves,    \* times the bot joins or leaves (a bound)
    MaxRare      \* rate limits, lost events, errors, crashes, lock expiries and
                 \* requests (a bound on their sum)

Tasks == Shard \cup {Recon, Sync}

ASSUME PresenceAssumption ==
    /\ Recon # Sync /\ {Recon, Sync} \cap Shard = {}
    /\ NoTask \notin Tasks
    /\ MaxMoves \in Nat /\ MaxRare \in Nat

Row == [inGuild : BOOLEAN, status : {"active", "inactive"}]

\* What follows the end of each save.
After == [create_update |-> "sync", delete_update |-> "idle",
          sync_update |-> "sync_release", request_update |-> "idle"]

Phases == {"idle", "create", "create_save", "delete", "sync", "sync_lock",
           "sync_fetch", "sync_save", "sync_release", "request_save", "list", "compare"} \cup DOMAIN After

Task == [pc : Phases, row : Row, changed : SUBSET {"inGuild", "status"}, listed : BOOLEAN]

VARIABLES
    member, moves,     \* Discord: the bot is in the guild; joins and leaves so far
    events,            \* gateway: GUILD_CREATE (TRUE) and GUILD_DELETE (FALSE) under way
    row,               \* PostgreSQL: the guild's row
    lock,              \* Redis: who set bot-service:guild-sync:<id>, or NoTask
    task,              \* the running handlers
    rare,              \* rare things so far
    expired            \* history: a lock expired under its holder

vars == <<member, moves, events, row, lock, task, rare, expired>>
discordVars == <<member, moves, events>>

Present == [inGuild |-> TRUE, status |-> "active"]
Idle == [pc |-> "idle", row |-> Present, changed |-> {}, listed |-> FALSE]

TypeOK ==
    /\ member \in BOOLEAN /\ moves \in 0..MaxMoves /\ events \in Seq(BOOLEAN)
    /\ row \in Row
    /\ lock \in Tasks \cup {NoTask}
    /\ task \in [Tasks -> Task]
    /\ rare \in 0..MaxRare /\ expired \in BOOLEAN

\* A connected guild, as onboarding and the first GUILD_CREATE leave it.
Init ==
    /\ member = TRUE /\ moves = 0 /\ events = <<>>
    /\ row = Present
    /\ lock = NoTask
    /\ task = [t \in Tasks |-> Idle]
    /\ rare = 0 /\ expired = FALSE

At(t, pc) == task[t].pc = pc
Goto(t, pc) == task' = [task EXCEPT ![t].pc = pc]
\* The same, when the task has no more use for its copies.
Continue(t, pc) == task' = [task EXCEPT ![t] = [Idle EXCEPT !.pc = pc]]
\* A task's last step; nothing of it survives.
End(t) == task' = [task EXCEPT ![t] = Idle]

\* One of the bounded number of rare things.
Rare == rare < MaxRare /\ rare' = rare + 1

\* A task begins at `pc`.
Start(t, pc) ==
    /\ At(t, "idle")
    /\ task' = [task EXCEPT ![t] = [Idle EXCEPT !.pc = pc]]

-------------------------------------------------------------------------------
(* EntityManager.save(copy): a SELECT of the stored row ...                  *)
Save(t, copy, update) ==
    LET changed == {c \in DOMAIN row : copy[c] # row[c]}
    IN  IF changed = {} THEN Continue(t, After[update])
        ELSE task' = [task EXCEPT ![t] = [Idle EXCEPT !.pc = update, !.row = copy,
                                                      !.changed = changed]]

\* ... and an UPDATE of the columns that differ.
Update(t) ==
    /\ task[t].pc \in DOMAIN After
    /\ row' = [row EXCEPT
                 !.inGuild = IF "inGuild" \in task[t].changed THEN task[t].row.inGuild ELSE @,
                 !.status = IF "status" \in task[t].changed THEN task[t].row.status ELSE @]
    /\ Continue(t, After[task[t].pc])
    /\ UNCHANGED <<discordVars, lock, rare, expired>>

-------------------------------------------------------------------------------
(* Discord.                                                                *)

Move ==
    /\ moves < MaxMoves
    /\ member' = ~member /\ moves' = moves + 1
    /\ events' = Append(events, member')
    /\ UNCHANGED <<row, lock, task, rare, expired>>

\* The gateway delivers an event; its handler is asynchronous, so the next event
\* may be delivered before this handler ends.  Which of the idle tasks stands for the
\* handler does not matter.
Deliver ==
    /\ events # <<>> /\ \E t \in Shard : At(t, "idle")
    /\ Start(CHOOSE t \in Shard : At(t, "idle"), IF Head(events) THEN "create" ELSE "delete")
    /\ events' = Tail(events)
    /\ UNCHANGED <<member, moves, row, lock, rare, expired>>

-------------------------------------------------------------------------------
(* syncOnGuildCreate, then the sync it asks for.                            *)

FindOnCreate(t) ==
    /\ At(t, "create")
    /\ task' = [task EXCEPT ![t].pc = "create_save", ![t].row = row]
    /\ UNCHANGED <<discordVars, row, lock, rare, expired>>

\* status is not restored.
SaveOnCreate(t) ==
    /\ At(t, "create_save")
    /\ Save(t, [task[t].row EXCEPT !.inGuild = TRUE], "create_update")
    /\ UNCHANGED <<discordVars, row, lock, rare, expired>>

-------------------------------------------------------------------------------
(* syncOnGuildDelete.                                                      *)

\* Defect: a status the column's type does not have, which PostgreSQL, whose column is
\* a text, accepts.
MarkAsLeft(t) ==
    /\ At(t, "delete")
    /\ Save(t, [inGuild |-> FALSE, status |-> "left"], "delete_update")
    /\ UNCHANGED <<discordVars, row, lock, rare, expired>>

\* findOne finds the guild; the handler overwrites both columns of its copy.
SaveOnDelete(t) ==
    /\ At(t, "delete")
    /\ Save(t, [inGuild |-> FALSE, status |-> "inactive"], "delete_update")
    /\ UNCHANGED <<discordVars, row, lock, rare, expired>>

-------------------------------------------------------------------------------
(* GuildSyncInternalService.syncGuild.                                      *)

\* runScheduledSync takes the guilds whose row says that the bot is in; POST
\* /internal/guilds/:id/sync takes any guild.
StartSync ==
    /\ Start(Sync, "sync")
    /\ \/ row.inGuild /\ UNCHANGED rare
       \/ ~row.inGuild /\ Rare
    /\ UNCHANGED <<discordVars, row, lock, expired>>

\* The row is read before the lock is taken.
ReadRow(t) ==
    /\ At(t, "sync")
    /\ task' = [task EXCEPT ![t].pc = "sync_lock", ![t].row = row]
    /\ UNCHANGED <<discordVars, row, lock, rare, expired>>

\* SET key 1 EX 120 NX
TakeLock(t) ==
    /\ At(t, "sync_lock") /\ lock = NoTask
    /\ lock' = t
    /\ Goto(t, "sync_fetch")
    /\ UNCHANGED <<discordVars, row, rare, expired>>

\* Defect: the refused caller runs the finally, too.
ReleaseOnConflict(t) ==
    /\ At(t, "sync_lock") /\ lock # NoTask
    /\ lock' = NoTask
    /\ End(t)
    /\ UNCHANGED <<discordVars, row, rare, expired>>

\* SYNC_IN_PROGRESS is thrown before the try: its finally is not run.
RefuseSync(t) ==
    /\ At(t, "sync_lock") /\ lock # NoTask
    /\ End(t)
    /\ UNCHANGED <<discordVars, row, lock, rare, expired>>

\* Discord answers only a bot that is in the guild; otherwise the call throws.
FetchGuild(t) ==
    /\ At(t, "sync_fetch")
    /\ IF member THEN Goto(t, "sync_save") ELSE Continue(t, "sync_release")
    /\ UNCHANGED <<discordVars, row, lock, rare, expired>>

\* The copy is from before the lock and the call to Discord.
SaveSynced(t) ==
    /\ At(t, "sync_save")
    /\ Save(t, task[t].row, "sync_update")
    /\ UNCHANGED <<discordVars, row, lock, rare, expired>>

\* DEL, whoever holds the lock by now.
ReleaseLock(t) ==
    /\ At(t, "sync_release")
    /\ lock' = NoTask
    /\ End(t)
    /\ UNCHANGED <<discordVars, row, rare, expired>>

-------------------------------------------------------------------------------
(* Requests that save the guild's row.                                      *)

\* onboardGuild finds the guild, to make its user the owner.
ClaimOwner ==
    /\ At(Sync, "idle") /\ Rare
    /\ task' = [task EXCEPT ![Sync] = [Idle EXCEPT !.pc = "request_save", !.row = row]]
    /\ UNCHANGED <<discordVars, row, lock, expired>>

\* forceLeaveGuild finds a guild that the bot is in; the bot is not told to leave.
ForceLeave ==
    /\ At(Sync, "idle") /\ Rare
    /\ row.inGuild
    /\ task' = [task EXCEPT ![Sync] = [Idle EXCEPT !.pc = "request_save",
                                                   !.row = [row EXCEPT !.inGuild = FALSE]]]
    /\ UNCHANGED <<discordVars, row, lock, expired>>

SaveRequest(t) ==
    /\ At(t, "request_save")
    /\ Save(t, task[t].row, "request_update")
    /\ UNCHANGED <<discordVars, row, lock, rare, expired>>

-------------------------------------------------------------------------------
(* GuildReconciliationService.                                              *)

StartReconcile ==
    /\ Start(Recon, "list")
    /\ UNCHANGED <<discordVars, row, lock, rare, expired>>

\* GET /users/@me/guilds lists the guild if the bot is in it.
ListGuilds ==
    /\ At(Recon, "list")
    /\ task' = [task EXCEPT ![Recon].pc = "compare", ![Recon].listed = member]
    /\ UNCHANGED <<discordVars, row, lock, rare, expired>>

\* 429 on the first page: `continue` jumps to the loop's condition, which is false
\* without a page, so the list stays empty.
ListRateLimited ==
    /\ At(Recon, "list") /\ Rare
    /\ task' = [task EXCEPT ![Recon].pc = "compare", ![Recon].listed = FALSE]
    /\ UNCHANGED <<discordVars, row, lock, expired>>

\* Defect: guilds marked as left by mistake stay so.
CompareLeaversOnly ==
    /\ At(Recon, "compare")
    /\ \/ row.inGuild /\ ~task[Recon].listed /\ Continue(Recon, "delete")
       \/ (row.inGuild => task[Recon].listed) /\ End(Recon)
    /\ UNCHANGED <<discordVars, row, lock, rare, expired>>

\* A disagreement is repaired by the handler of the event that must have been missed.
Compare ==
    /\ At(Recon, "compare")
    /\ \/ row.inGuild /\ ~task[Recon].listed /\ Continue(Recon, "delete")
       \/ ~row.inGuild /\ task[Recon].listed /\ Continue(Recon, "create")
       \/ row.inGuild = task[Recon].listed /\ End(Recon)
    /\ UNCHANGED <<discordVars, row, lock, rare, expired>>

-------------------------------------------------------------------------------
(* Faults.                                                                 *)

\* A disconnected gateway session misses the event.
LoseEvent ==
    /\ Rare /\ events # <<>>
    /\ events' = Tail(events)
    /\ UNCHANGED <<member, moves, row, lock, task, expired>>

\* A call fails and the task ends; the finally of syncGuild frees the lock, unless
\* the whole process ended.
Abort(t) ==
    /\ Rare /\ ~At(t, "idle")
    /\ \/ UNCHANGED lock
       \/ /\ task[t].pc \in {"sync_fetch", "sync_save", "sync_update"}
          /\ lock' = NoTask
    /\ End(t)
    /\ UNCHANGED <<discordVars, row, expired>>

\* 120 seconds after SET; the holder may still wait for Discord.
ExpireLock ==
    /\ lock # NoTask
    /\ \/ At(lock, "idle") /\ UNCHANGED <<rare, expired>>
       \/ ~At(lock, "idle") /\ Rare /\ expired' = TRUE
    /\ lock' = NoTask
    /\ UNCHANGED <<discordVars, row, task>>

-------------------------------------------------------------------------------
Step(t) ==
    \/ FindOnCreate(t) \/ SaveOnCreate(t)
    \/ SaveOnDelete(t) \/ Update(t)
    \/ ReadRow(t) \/ TakeLock(t) \/ RefuseSync(t) \/ FetchGuild(t) \/ SaveSynced(t)
    \/ ReleaseLock(t) \/ SaveRequest(t)
    \/ t = Recon /\ (ListGuilds \/ Compare)

Next ==
    \/ Move
    \/ Deliver \/ StartSync \/ StartReconcile \/ ClaimOwner \/ ForceLeave
    \/ \E t \in Tasks : Step(t)
    \/ ListRateLimited \/ LoseEvent \/ ExpireLock \/ (\E t \in Tasks : Abort(t))

Spec == Init /\ [][Next]_vars

\* A running handler goes on, events are delivered, and the reconciliation is
\* started every 15 minutes by @Cron.  No sync need ever start,
\* and users ask for finitely many.
FairSpec ==
    /\ Spec
    /\ \A t \in Tasks : WF_vars(Step(t))
    /\ WF_vars(Deliver)
    /\ WF_vars(StartReconcile)

-------------------------------------------------------------------------------
(* Properties.                                                             *)

\* Whatever the handlers, syncs and reconciliations do to each other's writes, once
\* the bot stays or stays away, and nothing fails, the row comes to say so for good:
\* stale saves and lost events are repaired (guild-reconciliation.service.ts:61-135).
Converges ==
    /\ <>[]member => <>[](row.inGuild)
    /\ <>[]~member => <>[]~row.inGuild

\* Two syncs of the guild work at once only after a lock expired under its holder:
\* neither the refused caller nor a failing one frees a lock it does not hold.
Holding(t) == task[t].pc \in {"sync_fetch", "sync_save", "sync_update", "sync_release"}
SyncExclusive ==
    ~expired => \A s, t \in Tasks : Holding(s) /\ Holding(t) => s = t

===============================================================================
