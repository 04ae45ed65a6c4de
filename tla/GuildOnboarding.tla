---------------------------- MODULE GuildOnboarding ----------------------------
(***************************************************************************)
(* How a guild gets its rows.  Two paths create them, without a transaction *)
(* around the three writes (guilds, server_settings, queue history:sync):   *)
(* onboardGuild, a user's request to the frontend API, and the guild:setup   *)
(* consumer of the ingestor worker, started by the first GUILD_CREATE.       *)
(* Each reads first and creates what it misses; UNIQUE (discord_guild_id)    *)
(* and the primary key of server_settings decide who wins.                   *)
(*                                                                         *)
(* One Discord guild is modelled, and whether its rows exist; what the       *)
(* gateway handlers do to the guild's row is module GuildPresence.           *)
(***************************************************************************)
EXTENDS Naturals

CONSTANTS
    Calls,       \* onboardGuild requests, each of its own user; a user may ask again
    Setup,       \* the guild:setup worker, concurrency 1
    MaxJobs      \* guild:setup jobs waiting (a bound)

ASSUME OnboardingAssumption ==
    /\ Setup \notin Calls
    /\ MaxJobs \in Nat

Parties == Calls \cup {Setup}

VARIABLES
    guild,       \* PostgreSQL: guilds has a row for it
    settings,    \* PostgreSQL: server_settings has a row for it
    history,     \* Redis: a history:sync job was added for it
    jobs,        \* Redis: guild:setup jobs to be done, the active one included
    failed,      \* Redis: there are failed guild:setup jobs
    pc,          \* where each party is
    broken       \* history: a party failed that was to create settings or history

vars == <<guild, settings, history, jobs, failed, pc, broken>>

TypeOK ==
    /\ guild \in BOOLEAN /\ settings \in BOOLEAN /\ history \in BOOLEAN /\ broken \in BOOLEAN
    /\ jobs \in 0..MaxJobs /\ failed \in BOOLEAN
    /\ pc \in [Parties -> {"idle", "find", "claim", "insert", "recover", "look",
                           "check", "store", "history"}]
    \* an active job is still in the queue
    /\ pc[Setup] # "idle" => jobs > 0
    \* only requests take these turns
    /\ pc[Setup] \notin {"claim", "recover", "look"}

Init ==
    /\ guild = FALSE /\ settings = FALSE /\ history = FALSE /\ broken = FALSE
    /\ jobs = 0 /\ failed = FALSE
    /\ pc = [p \in Parties |-> "idle"]

At(p, place) == pc[p] = place
Goto(p, place) == pc' = [pc EXCEPT ![p] = place]

\* The request is answered, the job is completed.
End(p) ==
    /\ Goto(p, "idle")
    /\ jobs' = IF p = Setup THEN jobs - 1 ELSE jobs
    /\ UNCHANGED failed

\* The request is answered with an error; the job fails, for no queue sets `attempts`.
Fail(p) ==
    /\ Goto(p, "idle")
    /\ jobs' = IF p = Setup THEN jobs - 1 ELSE jobs
    /\ failed' = (failed \/ p = Setup)

-------------------------------------------------------------------------------
(* The beginnings.                                                         *)

\* GUILD_CREATE of a guild without a row: syncOnGuildCreate finds nothing, and its
\* caller adds a guild:setup job.  The add comes later than the read, but a job that
\* waits in the queue meanwhile is seen by nobody.
FirstContact ==
    /\ ~guild /\ jobs < MaxJobs
    /\ jobs' = jobs + 1
    /\ UNCHANGED <<guild, settings, history, failed, pc, broken>>

\* Defect: the job leaves the queue when it is taken, too.
TakeRemoves ==
    /\ At(Setup, "idle") /\ jobs > 0
    /\ Goto(Setup, "find")
    /\ jobs' = jobs - 1
    /\ UNCHANGED <<guild, settings, history, failed, broken>>

\* retryFailed: an administrator has a failed job offered again.
RetryFailed ==
    /\ failed /\ jobs < MaxJobs
    /\ jobs' = jobs + 1
    /\ failed' \in BOOLEAN
    /\ UNCHANGED <<guild, settings, history, pc, broken>>

TakeJob ==
    /\ At(Setup, "idle") /\ jobs > 0
    /\ Goto(Setup, "find")
    /\ UNCHANGED <<guild, settings, history, jobs, failed, broken>>

Request(c) ==
    /\ At(c, "idle")
    /\ Goto(c, "find")
    /\ UNCHANGED <<guild, settings, history, jobs, failed, broken>>

-------------------------------------------------------------------------------
(* The guild's row.                                                        *)

\* A guild with a row is taken for complete: the job only adds history:sync.  On the
\* way to the insert the job finds or creates the owner's user.
FindGuild(p) ==
    /\ At(p, "find")
    /\ Goto(p, IF ~guild THEN "insert" ELSE IF p = Setup THEN "history" ELSE "claim")
    /\ UNCHANGED <<guild, settings, history, jobs, failed, broken>>

\* The request makes its user the owner of the existing guild, and no more.
ClaimExisting(c) ==
    /\ At(c, "claim")
    /\ End(c)
    /\ UNCHANGED <<guild, settings, history, broken>>

InsertGuild(p) ==
    /\ At(p, "insert") /\ ~guild
    /\ guild' = TRUE
    /\ Goto(p, "check")
    /\ UNCHANGED <<settings, history, jobs, failed, broken>>

\* 23505: another party was faster.  The job throws; the request catches it.
InsertRefused(p) ==
    /\ At(p, "insert") /\ guild
    /\ IF p = Setup THEN Fail(p) ELSE Goto(p, "recover") /\ UNCHANGED <<jobs, failed>>
    /\ UNCHANGED <<guild, settings, history, broken>>

\* The request reads the row that was faster and saves its user as the owner.
Recover(c) ==
    /\ At(c, "recover")
    /\ Goto(c, "look")
    /\ UNCHANGED <<guild, settings, history, jobs, failed, broken>>

-------------------------------------------------------------------------------
(* The settings' row.                                                      *)

LookForSettings(c) ==
    /\ At(c, "look")
    /\ Goto(c, IF settings THEN "history" ELSE "check")
    /\ UNCHANGED <<guild, settings, history, jobs, failed, broken>>

\* save() of a row whose primary key is given: TypeORM selects it, and updates what
\* it finds ...
CheckSettings(p) ==
    /\ At(p, "check")
    /\ Goto(p, IF settings THEN "history" ELSE "store")
    /\ UNCHANGED <<guild, settings, history, jobs, failed, broken>>

\* ... or inserts.
StoreSettings(p) ==
    /\ At(p, "store") /\ ~settings
    /\ settings' = TRUE
    /\ Goto(p, "history")
    /\ UNCHANGED <<guild, history, jobs, failed, broken>>

\* 23505 on the primary key: not the duplicate that onboardGuild recovers from.
StoreRefused(p) ==
    /\ At(p, "store") /\ settings
    /\ Fail(p)
    /\ UNCHANGED <<guild, settings, history, broken>>

-------------------------------------------------------------------------------
(* The import of the guild's history.                                      *)

\* Defect: only the job asks for the history.
SetupAddsHistory(p) ==
    /\ At(p, "history")
    /\ history' = (history \/ p = Setup)
    /\ End(p)
    /\ UNCHANGED <<guild, settings, broken>>

\* The job then asks the bot service to sync the guild, whatever comes of it.
AddHistory(p) ==
    /\ At(p, "history")
    /\ history' = TRUE
    /\ End(p)
    /\ UNCHANGED <<guild, settings, broken>>

-------------------------------------------------------------------------------
(* Faults.                                                                 *)

\* A call to PostgreSQL, Redis or Discord fails, or the process ends.  onboardGuild
\* swallows the error of its last step; a stalled job is offered again.
Abort(p) ==
    /\ ~At(p, "idle")
    /\ \/ Fail(p)
       \/ p = Setup /\ Goto(p, "idle") /\ UNCHANGED <<jobs, failed>>
    /\ broken' = (broken \/ pc[p] \in {"check", "store", "history"})
    /\ UNCHANGED <<guild, settings, history>>

-------------------------------------------------------------------------------
Step(p) ==
    \/ FindGuild(p) \/ InsertGuild(p) \/ InsertRefused(p) \/ CheckSettings(p)
    \/ StoreSettings(p) \/ StoreRefused(p) \/ AddHistory(p)

OnlyRequests(c) == Request(c) \/ ClaimExisting(c) \/ Recover(c) \/ LookForSettings(c)

Next ==
    \/ FirstContact \/ RetryFailed \/ TakeJob
    \/ \E c \in Calls : OnlyRequests(c)
    \/ \E p \in Parties : Step(p) \/ Abort(p)

Spec == Init /\ [][Next]_vars

-------------------------------------------------------------------------------
(* Properties.                                                             *)

\* Once everyone who works on the guild is done, the guild has its settings and its
\* history was asked for, whoever won which insert, whoever was refused, and whoever
\* failed before it had a row to create (guilds.service.ts:590-701,
\* guild-setup.consumer.ts:75-178).
WholeWhenSettled ==
    guild /\ ~broken /\ (\A p \in Parties : At(p, "idle")) => settings /\ history

===============================================================================
