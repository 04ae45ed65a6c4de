------------------------------ MODULE HistorySync ------------------------------
(***************************************************************************)
(* The import of a guild's message history into raw_events: the history:sync *)
(* consumer and HistorySyncService of the ingestor worker, beside the live   *)
(* path that stores the same guild's new messages (module Ingestor; here it  *)
(* stores a message some time after it was posted, or never).                *)
(*                                                                         *)
(* One guild.  Its messages are 1, 2, ... in the order of their Discord ids.  *)
(* Pages are fetched in any order of the channels; the batches in which the  *)
(* code works on HISTORY_CONCURRENCY channels at a time are among those       *)
(* orders.  An answer 429 is waited out and changes nothing.                 *)
(*                                                                         *)
(* The bot service's syncGuild and the gateway handlers (module             *)
(* GuildPresence) load the guild's whole row and save it later, the status of *)
(* the import with it.                                                       *)
(***************************************************************************)
EXTENDS Naturals, FiniteSets, FiniteSetsExt

CONSTANTS
    Channels,    \* the guild's text channels
    Channel,     \* the channel of each message
    MaxMsg,      \* messages ever posted (a bound)
    Old,         \* of them, posted before the bot came
    PageSize,    \* MESSAGES_LIMIT_PER_REQUEST
    ScanDepth,   \* config.historySync.scanDepth
    MaxJobs,     \* history:sync jobs ever added or retried (a bound)
    MaxStarts,   \* times BullMQ starts one job: 1 + its maxStalledCount
    Leaving      \* the messages whose rows may leave the table (a bound)

Messages == 1..MaxMsg

ASSUME HistoryAssumption ==
    /\ MaxMsg \in Nat /\ Old \in 0..MaxMsg
    /\ Channel \in [Messages -> Channels]
    /\ PageSize \in Nat \ {0} /\ ScanDepth \in Nat \ {0}
    /\ MaxJobs \in Nat \ {0} /\ MaxStarts \in Nat \ {0}
    /\ Leaving \subseteq Messages

VARIABLES
    posted,               \* Discord: the newest message
    live,                 \* messages under way in the live path
    liveRows, histRows,   \* ClickHouse: rows of each message, by who wrote them
    status,               \* PostgreSQL: guilds.history_sync_status
    copy,                 \* the status in a copy of the row to be saved, or "none"
    jobs,                 \* Redis: history:sync jobs not yet done
    added, starts,        \* jobs added; times the present one was started
    pc, known, open, before, got, todo,   \* the running job
    \* history, read by no action: the messages this run should import; those without
    \* a row when it looked that it has not written; those of which a row has left since;
    \* it could not look; a run was cut off; the status the import wrote last
    due, raced, gone, blind, abandoned, outcome

envVars == <<posted, live, liveRows, copy>>
queueVars == <<jobs, added, starts>>
runVars == <<known, open, before, got, todo>>
historyVars == <<due, raced, gone, blind, abandoned, outcome>>
importVars == <<posted, live, liveRows, copy, histRows, status, jobs, added, starts,
                pc, known, open, before, got, todo, due, raced, gone, blind, abandoned, outcome>>

Statuses == {"pending", "processing", "completed", "failed"}

ImportTypeOK ==
    /\ posted \in Old..MaxMsg
    /\ live \subseteq Messages /\ liveRows \subseteq Messages
    /\ histRows \in [Messages -> Nat]
    /\ status \in Statuses /\ outcome \in Statuses
    /\ copy \in Statuses \cup {"none"}
    /\ jobs \in 0..MaxJobs /\ added \in 0..MaxJobs /\ starts \in 0..MaxStarts
    /\ pc \in {"idle", "received", "list", "read", "fetch", "insert", "count", "publish",
               "complete", "fail"}
    /\ known \subseteq Messages /\ todo \subseteq Messages
    /\ open \subseteq Channels
    /\ before \in [Channels -> 1..(MaxMsg + 1)]
    /\ got \in [Channels -> 0..ScanDepth]
    /\ due \subseteq Messages /\ raced \subseteq Messages /\ gone \subseteq Messages
    /\ blind \in BOOLEAN /\ abandoned \in BOOLEAN

Stored == liveRows \cup {m \in Messages : histRows[m] > 0}

\* The `n` newest of the messages `ms`.
Newest(n, ms) == {m \in ms : Cardinality({k \in ms : k > m}) < n}

InChannel(c) == {m \in 1..posted : Channel[m] = c}

ImportInit ==
    /\ posted = Old /\ live = {} /\ liveRows = {}
    /\ histRows = [m \in Messages |-> 0]
    /\ status = "pending" /\ outcome = "pending" /\ copy = "none"
    /\ jobs = 0 /\ added = 0 /\ starts = 0
    /\ pc = "idle" /\ known = {} /\ open = {} /\ todo = {}
    /\ before = [c \in Channels |-> MaxMsg + 1]
    /\ got = [c \in Channels |-> 0]
    /\ due = {} /\ raced = {} /\ gone = {} /\ blind = FALSE /\ abandoned = FALSE

-------------------------------------------------------------------------------
(* Around the job.                                                         *)

Post ==
    /\ posted < MaxMsg
    /\ posted' = posted + 1
    /\ live' = live \cup {posted'}
    /\ UNCHANGED <<liveRows, copy, histRows, status, queueVars, pc, runVars, historyVars>>

\* The live path stores a message, or loses it.
LiveEnds(m) ==
    /\ m \in live
    /\ live' = live \ {m}
    /\ liveRows' \in {liveRows, liveRows \cup {m}}
    /\ UNCHANGED <<posted, copy, histRows, status, queueVars, pc, runVars, historyVars>>

\* A row leaves the table, in whatever run: its retention, which began with its message,
\* is over, or its author's data are deleted.
RowLeaves(m) ==
    /\ \/ m \in liveRows /\ liveRows' = liveRows \ {m} /\ UNCHANGED histRows
       \/ histRows[m] > 0 /\ histRows' = [histRows EXCEPT ![m] = @ - 1] /\ UNCHANGED liveRows
    /\ gone' = gone \cup {m}
    /\ UNCHANGED <<posted, live, copy, status, queueVars, pc, runVars,
                   due, raced, blind, abandoned, outcome>>

\* Onboarding adds a job, perhaps from both of its paths; an administrator has a failed
\* one offered again, which is the same here.
AddJob ==
    /\ added < MaxJobs
    /\ added' = added + 1 /\ jobs' = jobs + 1
    /\ UNCHANGED <<envVars, histRows, status, starts, pc, runVars, historyVars>>

\* findOne of the guild ...
CopyGuild ==
    /\ copy = "none"
    /\ copy' = status
    /\ UNCHANGED <<posted, live, liveRows, histRows, status, queueVars, pc,
                   runVars, historyVars>>

\* ... and save() of the copy, or its handler fails before.
SaveGuild ==
    /\ copy # "none"
    /\ copy' = "none"
    /\ status' \in {copy, status}
    /\ UNCHANGED <<posted, live, liveRows, histRows, queueVars, pc, runVars,
                   historyVars>>

-------------------------------------------------------------------------------
(* HistorySyncConsumer.processJob and HistorySyncService.run.               *)

TakeJob ==
    /\ pc = "idle" /\ jobs > 0 /\ starts < MaxStarts
    /\ starts' = starts + 1
    /\ pc' = "received"
    /\ UNCHANGED <<envVars, histRows, status, jobs, added, runVars, historyVars>>

\* The job is completed or failed; nothing of the run is kept.
EndJob ==
    /\ pc' = "idle"
    /\ jobs' = jobs - 1 /\ starts' = 0
    /\ known' = {} /\ open' = {} /\ todo' = {}
    /\ before' = [c \in Channels |-> MaxMsg + 1]
    /\ got' = [c \in Channels |-> 0]
    /\ UNCHANGED <<envVars, histRows, added>>

\* The settings are read, or cannot be read; then the status is written.
Begin ==
    /\ pc = "received"
    /\ \/ /\ status' = "processing" /\ outcome' = "processing" /\ pc' = "list"
          /\ due' = {} /\ abandoned' = FALSE
          /\ UNCHANGED <<envVars, histRows, queueVars, runVars, raced, gone, blind>>
       \/ EndJob /\ UNCHANGED <<status, historyVars>>

\* The bot's token is resolved and the guild's channels are listed.
ListChannels ==
    /\ pc = "list"
    /\ open' = Channels
    /\ pc' = "read"
    /\ UNCHANGED <<envVars, histRows, status, queueVars,
                   known, before, got, todo, historyVars>>

\* Defect: only what live traffic stored is looked up.
ReadLiveOnly ==
    /\ pc = "read"
    /\ known' = liveRows /\ blind' = FALSE
    /\ raced' = Messages \ Stored /\ gone' = {}
    /\ pc' = "fetch"
    /\ UNCHANGED <<envVars, histRows, status, queueVars,
                   open, before, got, todo, due, abandoned, outcome>>

\* fetchExistingMessageIds: an error counts as an empty table.
ReadExisting ==
    /\ pc = "read"
    /\ \/ known' = Stored /\ blind' = FALSE
       \/ known' = {} /\ blind' = TRUE
    /\ raced' = Messages \ Stored /\ gone' = {}
    /\ pc' = "fetch"
    /\ UNCHANGED <<envVars, histRows, status, queueVars,
                   open, before, got, todo, due, abandoned, outcome>>

\* Defect: a page is asked for in full size, however near the scan depth is.
PageIgnoresDepth(c) == Newest(PageSize, {m \in InChannel(c) : m < before[c]})

\* What Discord answers to limit = ... & before = ...
Page(c) ==
    LET limit == IF PageSize < ScanDepth - got[c] THEN PageSize ELSE ScanDepth - got[c]
    IN  Newest(limit, {m \in InChannel(c) : m < before[c]})

\* A channel is done at the scan depth and at the first page that is not full.
Exhausted(c) == got'[c] >= ScanDepth \/ Cardinality(Page(c)) < PageSize

\* Defect: the next page starts where this one did.
FetchSamePage(c) ==
    /\ pc = "fetch" /\ c \in open
    /\ got' = [got EXCEPT ![c] = @ + Cardinality(Page(c))]
    /\ open' = IF Exhausted(c) THEN open \ {c} ELSE open
    /\ todo' = todo \cup (Page(c) \ known)
    /\ due' = IF got[c] = 0 THEN due \cup Newest(ScanDepth, InChannel(c)) ELSE due
    /\ UNCHANGED <<envVars, histRows, status, queueVars, pc,
                   known, before, raced, gone, blind, abandoned, outcome>>

\* fetchMessagesForChannel, one page.
FetchPage(c) ==
    /\ pc = "fetch" /\ c \in open
    /\ got' = [got EXCEPT ![c] = @ + Cardinality(Page(c))]
    /\ before' = [before EXCEPT ![c] = IF Page(c) = {} THEN @ ELSE Min(Page(c))]
    /\ open' = IF Exhausted(c) THEN open \ {c} ELSE open
    /\ todo' = todo \cup (Page(c) \ known)
    /\ due' = IF got[c] = 0 THEN due \cup Newest(ScanDepth, InChannel(c)) ELSE due
    /\ UNCHANGED <<envVars, histRows, status, queueVars, pc,
                   known, raced, gone, blind, abandoned, outcome>>

\* 403 or 404: what the channel gave so far is all it gives.
ChannelClosed(c) ==
    /\ pc = "fetch" /\ c \in open
    /\ open' = open \ {c}
    /\ due' = {m \in due : Channel[m] = c => m >= before[c]}
    /\ UNCHANGED <<envVars, histRows, status, queueVars, pc,
                   known, before, got, todo, raced, gone, blind, abandoned, outcome>>

Fetched ==
    /\ pc = "fetch" /\ open = {}
    /\ pc' = IF todo = {} THEN "complete" ELSE "insert"
    /\ UNCHANGED <<envVars, histRows, status, queueVars, runVars, historyVars>>

Written(chunk) == [m \in Messages |-> histRows[m] + (IF m \in chunk THEN 1 ELSE 0)]

\* insertEvents: one INSERT for each week, and for each 10 000 rows of it.
InsertChunk(chunk) ==
    /\ pc = "insert" /\ chunk # {} /\ chunk \subseteq todo
    /\ histRows' = Written(chunk)
    /\ todo' = todo \ chunk /\ raced' = raced \ chunk
    /\ pc' = IF todo' = {} THEN "count" ELSE "insert"
    /\ UNCHANGED <<envVars, status, queueVars, known, open, before, got,
                   due, gone, blind, abandoned, outcome>>

\* The insert reports an error, and may have been applied.
InsertFails(chunk) ==
    /\ pc = "insert" /\ chunk # {} /\ chunk \subseteq todo
    /\ histRows' \in {histRows, Written(chunk)}
    /\ pc' = "fail"
    /\ UNCHANGED <<envVars, status, queueVars, runVars, historyVars>>

\* The rows are counted, or the count fails; then SET takes it to Redis, or fails, too.
\* The key is module Ingestor's, and nothing here reads it.
CountRows ==
    /\ pc = "count"
    /\ pc' = "publish"
    /\ UNCHANGED <<envVars, histRows, status, queueVars, runVars, historyVars>>

PublishTotal ==
    /\ pc = "publish"
    /\ pc' = "complete"
    /\ UNCHANGED <<envVars, histRows, status, queueVars, runVars, historyVars>>

Complete ==
    /\ pc = "complete"
    /\ status' = "completed" /\ outcome' = "completed"
    /\ EndJob
    /\ UNCHANGED <<due, raced, gone, blind, abandoned>>

\* Discord, PostgreSQL or ClickHouse refuses a call inside the try.
Throw ==
    /\ pc \in {"list", "fetch", "complete"}
    /\ pc' = "fail"
    /\ UNCHANGED <<envVars, histRows, status, queueVars, runVars, historyVars>>

\* Defect: the error is passed on, but not told.
FailSilently ==
    /\ pc = "fail"
    /\ EndJob
    /\ UNCHANGED <<status, historyVars>>

\* The catch: the status is written, if PostgreSQL takes it, and the job fails.
Fail ==
    /\ pc = "fail"
    /\ \/ status' = "failed" /\ outcome' = "failed" /\ UNCHANGED abandoned
       \/ UNCHANGED <<status, outcome>> /\ abandoned' = TRUE
    /\ EndJob
    /\ UNCHANGED <<due, raced, gone, blind>>

\* The process ends; the stalled job is offered again until its starts are used up.
Crash ==
    /\ pc # "idle"
    /\ pc' = "idle"
    /\ IF starts < MaxStarts THEN UNCHANGED <<jobs, starts>>
                             ELSE jobs' = jobs - 1 /\ starts' = 0
    /\ known' = {} /\ open' = {} /\ todo' = {}
    /\ before' = [c \in Channels |-> MaxMsg + 1]
    /\ got' = [c \in Channels |-> 0]
    /\ \/ UNCHANGED histRows
       \/ /\ pc = "insert"
          /\ \E chunk \in SUBSET todo : histRows' = Written(chunk)
    /\ abandoned' = TRUE
    /\ UNCHANGED <<envVars, status, added, due, raced, gone, blind, outcome>>

-------------------------------------------------------------------------------
Run ==
    \/ Begin \/ ListChannels \/ ReadExisting \/ Fetched
    \/ \E c \in Channels : FetchPage(c) \/ ChannelClosed(c)
    \/ \E chunk \in SUBSET todo : InsertChunk(chunk) \/ InsertFails(chunk)
    \/ CountRows \/ PublishTotal \/ Complete \/ Throw \/ Fail

ImportNext ==
    \/ Post \/ AddJob \/ CopyGuild \/ SaveGuild \/ TakeJob \/ Run \/ Crash
    \/ \E m \in Messages : LiveEnds(m)
    \/ \E m \in Leaving : RowLeaves(m)

ImportSpec == ImportInit /\ [][ImportNext]_importVars

-------------------------------------------------------------------------------
(* Properties.                                                             *)

\* Imports repeat nothing: neither a second run, nor one that follows a failed or
\* crashed import, writes a message that had a row when it looked; and no run writes a
\* message twice, even if the first row has left (history-sync.service.ts:107-125, 259-274).
ImportsOnlyMissing ==
    [][\A m \in Messages : histRows'[m] > histRows[m] =>
          blind \/ (m \in raced /\ histRows[m] = 0 /\ histRows'[m] = 1)]_importVars

\* COMPLETED, when it is the import's word, means that every message within the scan
\* depth of every readable channel has a row, through pages, new messages, chunks and
\* earlier failures, unless a row of it has left the table since the run looked.
ImportedWhenCompleted ==
    status = outcome /\ status = "completed" => due \subseteq Stored \cup gone

\* A run that is over has said how it ended, unless it was cut off.
StatusTold == pc = "idle" /\ outcome = "processing" => abandoned

===============================================================================
