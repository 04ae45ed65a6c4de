# A verified model of the Discord bot backend

TLA+ modules about the parts of this backend whose correctness depends on order,
failure and concurrency, the TLC configurations that check them on small instances,
and proofs, checked by TLAPS, of what holds for every instance. Paths are relative to
`src/`; `ingestor/` stands for `apps/ingestor-worker/src/ingestor/`, `bot/` for
`apps/bot-service/src/`, `frontend/` for `apps/frontend-api/src/`, `admin/` for
`apps/admin-api/src/`, `analytics/` for `libs/shared/src/analytics/`.

Contents: [the system](#the-system) · [the modules](#the-modules) ·
[the runs](#the-runs) · [fairness](#fairness) · [the proofs](#the-proofs) ·
[disagreements](#disagreements-found) · [limits](#limits) ·
[not modelled](#not-modelled) · [what could come next](#what-could-come-next)

## The system

Five NestJS programs share PostgreSQL (TypeORM), Redis (BullMQ queues, caches, Pub/Sub)
and ClickHouse (table `raw_events`, a MergeTree with a TTL, and materialized views):

```
 Discord gateway --> bot-service --(ingestor-raw-events)--> ingestor-worker --> ClickHouse
                     |  ^   |  \--(guild:setup)----------->   |    ^               |
                     |  |   |   \--(Redis counts, Pub/Sub)-+   |    |              | reports
   GET guild list ---+  |   +-- guilds, server_settings    |   |    +-- import     | pages
                        |          (PostgreSQL)            v   v    +-- deletion   v
             POST /sync |            ^      ^          frontend-api <-----------> browsers
   admin-api -----------+            |      |              | (HTTP, sockets)
   (jobs, bans, forced leave) -------+      +--------------+
                        ^-- counters, settings jobs -------+
```

Node runs callbacks one at a time, so the concurrency is between awaits: of several async
handlers of one process, of processes, and of the copies of rows they hold. There is no
`attempts` on any queue: a job that throws stays failed until an administrator has it
retried (`admin/system/system.service.ts:297`); a job whose worker died is offered once more
by BullMQ (`maxStalledCount` is 1), and fails if that one dies, too. No handler for
unhandled rejections is installed, so one ends the process. TypeORM's `save(entity)` selects
the stored row and updates the columns that differ from the entity, however old the entity
is, and inserts it again if the row has gone.

| component | state | operations | hard behaviour | what makes it correct |
|---|---|---|---|---|
| event production (`bot/shard/shard-event-handlers.ts`, `bot/multi-token/multi-token-events.service.ts`) | Redis counts, message-count key | adds a job for each event, INCR, HINCRBY, SET, publishes | overlapping handlers, lost commands, the process ending between two, restarts over the keys | the counts add up to the events somebody counted; clients see the counts |
| event ingestion (`ingestor/`) | buffer, running flushes, voice-join keys, `raw_events` | consume, push, flush, retry, count, publish, shut down | overlapping flushes, ambiguous inserts, crash, redelivery | a live process loses and duplicates nothing; the buffer drains; counts are not ahead of what was stored; a voice session is credited once |
| guild presence (`bot/guild-sync/`, `bot/internal/`, `bot/shard/shard-worker.ts`) | `guilds.is_bot_in_guild`, `.status`, lock key | GUILD_CREATE, GUILD_DELETE, sync, reconcile, force leave | overlapping handlers, stale saves, lost events, lock expiry, rate limits | the row comes to agree with Discord; one sync at a time |
| own-token bots (`bot/multi-token/`) | one client for each stored token | connect at start, events, session loss, settings | two bots in a guild, stale settings saves | the row follows the bot that serves the guild; a given token is kept |
| guild onboarding (`frontend/guilds/guilds.service.ts`, `ingestor/guild-setup/`) | rows of `guilds`, `server_settings`; queue `history:sync` | onboard request, guild:setup job | two creators without a transaction, unique-key refusals, failures between saves | a guild has both rows and its import was asked for |
| history import (`ingestor/history-sync/`) | cursor per channel, known ids, `raw_events`, `history_sync_status` | list, read, page, insert in chunks, count, set status | crash between chunks, live messages, stale status saves | everything in the depth is imported, nothing twice, the status tells |
| counters (`bot/counters-*`, `frontend/counters/`) | `counters` rows, rate-limit lists, queue | create, edit, delete, update channel | two workers, check-then-act limit, a record of three commands, jobs added late or lost, save after delete | renames stay within the limit; a channel at rest shows its counter |
| log, welcome, goodbye settings, modules (`frontend/logs/`, `frontend/welcome-goodbye/`, `bot/logs-consumer/`, `bot/welcome-goodbye-consumer/`) | rows, Redis cache | PATCH, refresh job, expiry, handlers' reads | overlapping PATCHes, two workers, older read written last | no PATCH takes back another's; the cache comes to hold the rows |
| realtime state (`frontend/realtime/`, `frontend/guilds/guilds-realtime.service.ts`) | subscription, broadcast queue, rooms, cached rights | save, publish, subscribe, snapshot, broadcast, check rights | messages between snapshot and join, restarts, cached rights | a client's state comes to agree and never goes back; it entered by right |
| sessions and OAuth (`frontend/auth/`, `admin/auth/`) | users, refresh tokens, OAuth states, Discord tokens | login, callback, rotate, revoke, ban, plan, profile | check-then-act in several requests, stale saves | a token and a state are used once; a reuse ends sessions; decisions hold |
| teams (`frontend/team/`) | companies, members, invitations | invite, accept, change role, remove | no transactions, no unique keys | one membership for each user, one user for each invitation, an owner |
| deletion of a user (`frontend/user-data/`, `ingestor/gdpr-user-delete.consumer.ts`) | the user's rows everywhere | delete in PostgreSQL, `ALTER TABLE DELETE` | requests and events under way | no row of the user appears later |
| analytics (`analytics/`, `frontend/analytics/`) | rows, views, retention | reports of several queries, pages | rows that come and go between queries | parts add up; pages partition the members |
| administration of users, billing, profile | single rows | saves | older copies | in Sessions |
| commands, widgets, public pages, dashboards | single rows | reads and single updates | none to speak of | |
| background-worker | nothing | nothing (an empty shell) | | |

`PROJECT.json` lists every component with its sources and state of modelling, and every
hazard with its line.

## The modules

| module | models | proofs |
|---|---|---|
| `BufferedSink` | the abstract promise of the worker's memory: accepted items are held until a write is confirmed, and only a crash takes the rest | |
| `Ingestor` | `ingestor/`: queue consumer, voice sessions, buffer, flushes, process life; implements `BufferedSink` | `EventProofs` |
| `GuildPresence` | gateway handlers, reconciliation, syncGuild, forced leave and owner update on one guild's row | `GuildProofs` |
| `GuildOnboarding` | `onboardGuild` against the guild:setup job | `GuildOnboardingProofs` |
| `Bots` | composes with `GuildOnboarding`: the guild that came to be, its main bot and its own bot, the edits of its settings and token | `GuildOnboardingProofs` |
| `HistorySync` | the import job beside the live path and the saves of copies of the row | `GuildProofs` |
| `RateLimit` | the abstract promise of the renamings: so many young uses of a channel at most that the limiter sees, and so many strays it has lost | |
| `Counters` | rows, adding jobs, workers, limiter, edits and deletions; implements `RateLimit` | `CountersProofs` |
| `GuildCounts` | every command a gateway handler issues for a guild's numbers, of a shard or a custom client, over ends and starts of its process | `CountersProofs` |
| `GuildSettings` | PATCHes of the log settings, of welcome and goodbye, of modules; the cache; what shards and custom clients send by it | `GuildSettingsProofs` |
| `Realtime` | save, publication, Pub/Sub, queue, room, snapshots, rights | `RealtimeProofs` |
| `Sessions` | one person's account in the frontend API, or an administrator's | `SessionsProofs` |
| `Workspace` | companies, members, invitations | `WorkspaceProofs` |
| `Analytics` | rows, views, retention, deletion, reports, pages, and what each query computes | `EventProofs` |

Each `MC…` module gives the constants their values, with the `.cfg` files named after it.
`Bots` shares the variables of `GuildOnboarding`: a behaviour first creates the guild and
then opens it (`Open`). The other modules share no variables; where one component acts on
another's state, the module has the action of the environment: `Enqueue` and `CountMessage`
in `Ingestor`, `LiveEnds` (the ingestor seen from the import) and `CopyGuild`/`SaveGuild`
(syncGuild seen from the import) in `HistorySync`, `GuildSync` in `GuildCounts`,
`EnsureWorkspace` in `Sessions`.

Every module carries a few operators commented "Defect". They are no part of `Next`: each
is a plausible bug in the place of one action or operator (a key that is not deleted, a
batch copied instead of taken, a lock released by the wrong caller), and every property is
known to be violated by one of them.

Where the code cannot promise something under every interleaving, the module keeps a
history variable that says exactly when (`merged`, `astray`, `raced`, `loose`, `crossed`,
…), and the property excuses that case and no other. These variables are read by no guard.

### Ingestor

`jobState`, `starts` are BullMQ's; `voiceJoin[u]` the key `voice_join:<guild>:<user>`;
`messageCount` the key both the bot (INCR) and the worker (SET) write; `rawEvents` what was
inserted into the table and `gone` what has left it again, by the TTL on `retention_until`
(`libs/shared/src/clickhouse/clickhouse.service.ts:135`) or a user's deletion
(`RowLeaves`); `buffer` and `flight[f]` the service's buffer and the locals of each running
`flush()` (its batch, attempt and total); `pc`, `job`, `session` the one job in the
worker. An entry of the buffer is a `Delivery`: the job, which start of it, which
incarnation of the process, and the voice join it credits: two entries never look the
same unless the code makes them so.

`flush()` is cut at its awaits: `BeginFlush` (takes the buffer), `InsertOk`, `InsertFails`
(an error that may hide a write), `Retry`, `GiveUp` (puts the batch back and throws; the
process is `dying`), `CountRows`, `PublishTotal`. `pushEvent`, the timer and the shutdown
hook start flushes that nobody else awaits, so `Flushes` of them overlap. `left` is history:
the message rows that left since the total of the key's last SET was counted, which a flush
between count and SET keeps for itself. The timer condition `batchIntervalMs` is time, so it
may always have passed.

### GuildPresence

One guild's row, Discord's truth (`member`), the gateway's undelivered events and one
record per running handler: where it is, its copy of the row, the columns its save will
update, what the list said. `Save` is TypeORM's select-and-compare and `Update` its
UPDATE, two steps, as in the driver.

### GuildOnboarding and Bots

Whether the two rows and the import job exist, and a place for each party. Unique keys
decide: `InsertGuild`/`InsertRefused`, `StoreSettings`/`StoreRefused`. `Abort` is a failed
call or a dead process at any place.

`Bots` goes on from there. `list` and `client` are MultiTokenConnectionManager's: the tokens
it read when it started, the client in customClients; `live` and `cache` that client's
session and guild cache. `task` has one handler of each bot, the reconciliation and the
requests of the editors, each with its copy of `server_settings`; `Find` and `Save` are the
two sides of the awaits between. `Served` says which bot serves the guild.

### HistorySync

Messages are numbers in the order of Discord's ids. `Page` is Discord's answer to `limit`
and `before`; `FetchPage` moves the cursor; the inserts are chunks in any order, each of
which may fail, having been applied or not; `Crash` loses the run, and BullMQ offers the job
again. `RowLeaves` takes rows away, in whatever state the run is: an imported row has its
message's age from the start, and its retention may be over already. `CountRows` and
`PublishTotal` are control only: the key they SET is `Ingestor`'s, and nothing here reads
it. History variables (`due`, `raced`, `gone`, `blind`, `abandoned`, `outcome`) remember
what a run should import, what it could not know, what of it has left since, and what the
import last said.

### Counters

One number stands for the metrics of a guild that events change; a version for a row's edited
columns. A handler stores the number (`Event`), looks for the counters (`FindCounters`) and
adds a job for each (`AddJob`), three steps with others between; a request saves its row and
then adds its job. A failed add is swallowed, a failed look throws, a process ends: `JobsLost`
takes any of them away. A job is cut where it awaits: read the row (`Load`), resolve the number
(`GetMetricValue`), LRANGE of the limiter's list (`CheckRateLimit`), rename, and LPUSH, LTRIM
and EXPIRE (`RecordPush`, `RecordTrim`, `RecordExpire`), save. Each of these may fail: a read
(`ReadFails`) throws, or leaves the job with 0 or an older number, which it then shows and
saves as ACTIVE, as the code does; a refused job ends as if it were done. `Tick` lets time
pass and a list expire, also between LPUSH and EXPIRE. Both workers push over one connection,
and read the time right before, so entries come in the order of their times. `uses` is history:
the renamings of the last window that a record accounts for, or will; `strays` are those whose
entry went with a list that expired before its EXPIRE. The refinement maps them to
`RateLimit!young` and `RateLimit!stray`. `disturbed` has the counters whose last job was refused,
was lost, failed, read no number, or overlapped.

### GuildCounts

All commands of a process share one connection to Redis, which executes and answers in the
order of issue: `wire` holds the handlers that wait, a command takes effect when it is
issued, and the handler goes on when its answer is the first. Queries to PostgreSQL have no
order. A command that fails is never repeated: what it would have added is in `unseen` or
`lost`. `ProcessEnds` cuts all handlers off wherever they are: what they have yet to add or to
set (`VoiceDue`, `PresenceDue`, `Owes`) goes to the same places. The keys stay. While the process
is down (`up`) Discord's changes are counted by nobody; `ProcessStarts` counts nothing again.
The same actions serve a shard and a custom client (`served`), whose prefixes differ.

### GuildSettings

One behaviour is about one of the three tables (`kind`). `Find`, `Select` and `Write` are
findOne, the SELECT of `save()` and its INSERT or UPDATE; `Changed` is the code's
anyChanged. A job carries only the guild's id; `Take`, `ReadRows`, `SetCache` are the
consumer's; `Crash` puts a job that was begun back once, and not a second time (`again`,
`stalled`: BullMQ's `maxStalledCount`), so that no SET follows (`astray`); `Expire` is
`EX 600`. `Logs`, `Greetings`, `ShardSends`, `CustomSends` say what is sent and ingested by
the rows.

### Realtime

A value is the number of the write that made it. `Write` and `Publish` are a handler's two
steps; `channel` is what Redis has on its way; `queue` is broadcastQueue, filled while the
gateway has no server and drained in the turn after `afterInit`. `Ask`, `Hit`, `Miss`,
`GetUserGuilds`, `SetList` are the check of the rights and its cache; `Join` enters the
room. `Request`, `ReadGuild`, and the steps after it are emitFullStateForGuild.

### Sessions

The one row of users, the refresh tokens, the Discord token, the OAuth states. A request is
a record with its place, the entity it read and the row its `save()` selected, and walks
through the awaits of its handler. The two APIs have the same sessions over different
tables: `api` chooses one of them in `Init`.

### Workspace

Three tables as sequences in the order of creation, with `row = FALSE` for a row that was
deleted and could be inserted again by an older entity's save. No transaction and no unique
key but the deletion's transaction.

### Analytics

An answer is the set of events its query was computed from, and what it says is an operator
on them: `Overview`, `Chart`, `TopMembers`, `MessageChannels`, `VoiceChannels`, `Commands`,
`Roles`, `Heatmap`, `UserStats`. A view has every event inserted since the migration made
it. `MessageChannels`, `VoiceChannels` and `Commands` are the sets of the answers that their
ORDER BY and LIMIT admit (`Tops`: ties at the limit fall in any way); rows without a
channel, as a custom client's voice events are, count in none (`Channelled`). The deletion
is a job, the ALTER that is accepted, and the mutation that is carried out later; the TTL
drops rows; a report is several queries with inserts between them.

## The runs

"States" are distinct states.

| run (`.cfg`) | question | bounds | states |
|---|---|---|---|
| `MCIngestorFlush` | does the worker's memory keep its promise? `SingleOwner`, `NoDuplicateRows`, `NothingLostWhileRunning`, `CountNeverAhead`, `ImplementsSink` | 2 messages, 2 flushes, batch size 2, 2 attempts, 1 start of each job, 2 incarnations, 1 INCR; any row may leave | 1 304 000 |
| `MCIngestorVoice` | are voice sessions credited once, and does the buffer drain? `VoiceSessionCreditedOnce`, `Drains` | a join, a leave and an invalid event, 2 starts of each, 1 flush, 1 attempt, 1 kill | 222 000 |
| `MCGuildPresence` | does the row come to agree with Discord? `SyncExclusive`, `Converges` | 2 gateway handlers, a reconciliation, a sync or request, 2 moves, 1 rare event | 529 000 |
| `MCBots` | is a guild nobody works on complete, is a given token kept, does the row follow the right bot? `WholeWhenSettled`, `EditsKept`, `FollowsItsBot` | 3 users and 2 jobs create; then 2 bots, a reconciliation, 1 editor, 1 token, 2 moves, 1 rare event | 395 000 |
| `MCHistorySync` | does the import import all, and nothing twice? `ImportedWhenCompleted`, `ImportsOnlyMissing`, `StatusTold` | 2 channels, 4 messages, pages of 2, depth 3, 2 jobs, 2 starts; rows of 2 messages may leave | 4 818 000 |
| `MCCounters` | do the renamings stay within the limit, and does a channel at rest show its counter? `ImplementsRateLimit`, `ShownWhenSettled` | 2 counters, 2 channels, 2 workers, limit 1 in a window of 2, clock 2, 3 happenings | 3 280 000 |
| `MCGuildCounts` | do the keys add up, and do clients see them? `Kept`, `Told` | 1 user, 2 overlapping handlers, 3 events, 1 fault or end of the process | 2 039 000 |
| `MCGuildSettings` | do PATCHes keep each other's columns, and does the cache come to agree? `PatchKeeps`, `CacheAgrees`, `Heals` | 2 rows, 2 PATCHes at once, 2 workers, 2 faults | 400 000 |
| `MCRealtime` | is a client's state the stored one in the end, and may it see it? `ViewSettles`, `NeverBack`, `EntersByRight` | 2 parameters, 2 writers, 1 socket, 1 request, 2 writes, 2 breaks | 1 690 000 |
| `MCSessions` | are tokens and states used once, and do decisions hold? `UsedOnce`, `ReuseEndsSessions`, `DecisionHolds`, `DeletedIsGone` | 2 requests at once, 4 in all, 3 tokens, 2 ids, 1 OAuth state, 1 fault | 1 220 000 |
| `MCWorkspace` | one membership, one user for each invitation, an owner: `JoinedOnce`, `AdmitsOne`, `OwnerStays` | 3 users, 2 requests at once, 3 in all, 1 fault | 329 000 |
| `MCAnalytics` | do the parts of reports agree, is a deleted user gone, do pages partition? `PartsAgree`, `ErasedIsGone`, `PagesPartition` | 3 rows on 2 days, one anonymized, one without a channel, 2 views, 1 browser, 1 channel shown of 2, pages of 1 | 265 000 |

Why the bounds are enough for the questions:

* *Ingestor.* Two flushes are what an overlap needs, and the proofs cover every number; two
  attempts contain a failed attempt that is retried and one that is the last; two
  incarnations contain a restart over what the first left, and the process dies while it shuts
  down, at any point of that; a batch of two can be full or not. In the other run two starts
  of a leave contain a redelivery after each of its two Redis calls, a kill at any point is
  allowed, and the invalid event is one that the worker rejects.
* *GuildPresence.* Two handlers contain each order of a GUILD_CREATE and a GUILD_DELETE,
  which is leave-then-join with `MaxMoves = 2`; the bound `MaxRare` admits any one of the
  faults, and since convergence only starts when faults end, more of them would reach no
  other kind of row.
* *Bots.* Three creators contain one that loses each of the two inserts while another works
  on; one move of each bot, or two of one, are every pair of events that can cross; one
  editor against four handlers is every overlap of a token's save with one of theirs.
* *HistorySync.* Depth 3 with pages of 2 has a full page, a cut page and a short one; four
  messages leave one outside the depth; the second job meets what the first left, complete
  or not; `MaxStarts = 2` is BullMQ's own limit. Rows leave of a message that was there before
  the import (2) and of one that is posted beside it (4).
* *Counters.* Two workers are the consumer's `concurrency: 2`; a limit of 1 is reached by
  one renaming, and the proof covers every limit; the clock passes the window once, so that
  entries grow old and keys expire; three happenings create a counter and change it twice, or
  create two. That a list expires before a record renews it takes two records and a window,
  which the run has; more strays are in the proof.
* *GuildCounts.* Handlers of one user's events are the ones that meet on its status and
  voice state; the counts add, so another user adds no order of commands; the third event
  starts while two are under way, or comes while the process is down or after it is back.
* *GuildSettings.* Two PATCHes that overlap on one row or on two; two workers, so that the
  older read can be the later SET; two faults, so that a job stalls twice.
* *Realtime.* One parameter of each table, for a snapshot reads them at two moments; two
  writers, so that publications may overlap; two breaks contain a break after a restart.
  The view of a socket does not depend on the others.
* *Sessions, Workspace.* Two requests at once are every overlap of two handlers; the rest
  sets up what they meet (a session and its rotation, an invitation and its acceptance).
  What three of them could do to each other is not in these runs: it is in the proofs.
* *Analytics.* Two days, one of which may expire; the rows have every kind of author and
  event that the queries tell apart, and one is of no channel; messages are in two channels, of
  which the limit leaves one, or in one; pages of 1 have a border between any two members.

Deadlock is checked where something always remains to be done (`MCGuildPresence`, `MCBots`).
In the other runs the bounded inputs run out and the system rests.

The type invariants of the modules state the widths, and little else: `got` never passes
`ScanDepth`, `attempt` never passes `MaxAttempts`, an active guild:setup job is in its
queue.

## Fairness

* `Ingestor!Fairness`: weak fairness of each flush's steps, which includes the timer.
  `setInterval` fires, and every awaited call (ClickHouse, Redis, `sleep`) answers or times
  out. No particular answer is promised, jobs need not come, and nobody need restart a
  process; so `Drains` says that a buffered event leaves the memory *or the process ends*.
* `GuildPresence!FairSpec`: weak fairness of each running handler's steps, of the gateway's
  delivery, and of starting the reconciliation, which `@Cron` starts every 15 minutes.
  Nothing makes a sync or a request start. `Move` and the rare events are bounded: the
  property is about what happens once the bot stays or stays away.
* `Bots!BotsSpec`: weak fairness of the two bots' handlers and of the reconciliation, which
  is the same `@Cron`. Editors need not go on, and the service need not be restarted: the
  property is about a service that stays up.
* `GuildSettings!FairSpec`: weak fairness of each PATCH's awaits, of each worker's steps and
  of the expiry, which Redis carries out after `EX 600`. PATCHes need not be made. Without
  `Expire` a lost job would leave the cache wrong for good.

The other specifications are safety only.

## The proofs

For every set of events, users, flushes and requests and every value of the bounds.
The only assumptions are each module's one named ASSUME, which TLC evaluates in the runs:
numbers are numbers, `NoEvent` is no event, the worker is none of the requests, a socket is
no snapshot, workers, rows, users and handlers are finitely many, the visible statuses are
among Discord's `online`, `idle` and `dnd`, the view of the days is older than that of the
heatmap.

`EventProofs`, of `Ingestor`

* `TypeCorrect` (`TypeOK`). Not inductive alone: `TypeInv` adds that a busy worker holds a
  started job, and that a flush in back-off has an attempt left.
* `Owned`: the inductive invariant `Ownership`. `SingleOwner` is not inductive: nothing
  in it forbids a second push of the same delivery, or an insert by a flush with an old
  batch. `Batched` says that only inserting and waiting flushes have a batch; `Fresh`
  that what was pushed, was pushed by a start that has happened, and that the present start
  has not pushed until its job returns; `Known` that what is stored or held was pushed. From
  `Fresh` the next delivery is new (`PushedOnce`), and then each action of a flush moves its
  batch to one place.
* `OneOwner`, `NoDuplicates`: parts of `Ownership` (`SingleOwner`, `NoDuplicateRows`).
* `RefinesSink` (`ImplementsSink`): each step is classified by `Effects` as an accept, a
  confirmed write, an unconfirmed write, a crash or a stutter of `BufferedSink`.
* `NothingLost` (`NothingLostWhileRunning`): the same classification together with
  `Incarnations`, which says that a restart's epoch has pushed nothing yet.
* `NeverAhead` (`CountNeverAhead`): with the rows that left since it was counted, a total is
  never ahead of the table, whichever flush SETs it last: `OneRowLess` is the step of a row
  that leaves, which each flush between count and SET, and the key, are charged for.
  `Unpublished` says that a flush elsewhere has no total. What the
  property says, then, is that INCRs and rows that left are all that a key can be ahead by.
* `CreditedOnce` (`VoiceSessionCreditedOnce`). A count of pushed credits is not inductive: it
  must also count the credits still possible. `Credited` gives each delivery of a join at
  most one: while it is undecided, or while the join is recorded (in its key, or read by a
  leave that has not pushed), or as a credit that was pushed. `Keyed` says that a key
  holds a join of its own user and that a leave that is ready to push has deleted it, which is
  the code's order and the reason why a redelivered leave finds nothing.

`GuildOnboardingProofs` (`GuildOnboarding` and `Bots`)

* `Owed`: the inductive invariant `IInv`. `WholeWhenSettled` says nothing of a state in
  which somebody still works. `SomeoneOwes` does: what is missing, a party
  that has not failed is on the way to create (`check` and `store` owe the settings,
  `history` the import). The step that matters is `StoreRefused`: a party that is refused
  may leave, because the one that was faster is at `history`.
* `OnboardingTypes` (`TypeOK`), `Whole` (`WholeWhenSettled`).
* `BotsTypes` (`BotsTypeOK`) and `BotsKeepEdits` (`EditsKept`): the inductive invariant
  `BotsInv`. That the stored token is the last given says nothing of a handler that read an
  older one and saves it later. `CopiesInv` does: until two tasks were between reading and
  saving at once (`overlap`), each copy of the settings that somebody holds has the stored
  token, but the editor's own that is about to be saved.
* `BotsRefineOnboarding`: what `Bots` adds leaves onboarding's variables alone, so that each
  step is one of `GuildOnboarding` or a stutter; `WholeWhenSettled` comes with it.

`GuildProofs` (`GuildPresence` and `HistorySync`, whose `ImportInit`, `ImportNext`,
`ImportSpec` and `ImportTypeOK` have names of their own for it)

* `PresenceTypes` (`TypeOK`).
* `Locked`: the inductive invariant, `TypeOK` and `LockedByHolder`: unless a lock expired
  under its holder, who works under the lock is the one who set it. The DEL in the finally
  does not compare owners; it is harmless as long as only an owner comes to it, which is why
  it matters that SYNC_IN_PROGRESS is thrown before the try.
* `OneSync` (`SyncExclusive`): two cannot both have set it.
* `Told` (`StatusTold`): `WordGiven` extends the property to a job that was taken but has not
  begun.
* `NothingTwice` (`ImportsOnlyMissing`, an action property): `Looked` says that during the
  fetch what is not in the set of known ids has no row of an import, and that the same
  holds of what is still to be inserted while chunks of it are.
* `TypeCorrect` (`ImportTypeOK`): `Typed` adds that a run has a job. That a channel never goes
  beyond the scan depth rests on the lemmas about `Newest`, whose n newest messages are at
  most n (`NewestAreFew`), and are n if there is an older one (`NewestAreMany`). They use
  that a set of messages has an oldest and a newest one, which is the well-foundedness of
  `<` (`LessIsWellFounded`).
* `Imported` (`ImportedWhenCompleted`): `Due` says, for each place of the run, where what is
  due can be (`Had` are the messages with a row, or of which one has left since the run looked).
  In the fetch it is had, to be inserted, or `Coming`: its channel is open
  and it is within what is left of the depth below the cursor. `PageBefore` is the step that
  matters: a page that does not bring a message that is coming is full, leaves the channel
  open, and leaves the message below the new cursor and within the depth.

`GuildSettingsProofs`

* `Announces`: the inductive invariant `Ahead`. `CacheAgrees` says nothing of a state in
  which somebody still works, so that no step could keep it. `Cached` says that a cache that
  differs from the table is not the last word: a job waits, a PATCH is about to add one, or a
  worker is about to read (`Announced`) or to set; or something is `astray`, which a job that
  stalls twice is, too. `Setting` says the same of the rows a
  worker is about to set. `Untouched` is why a PATCH that adds no job has changed nothing: one
  that nobody overtook found, and selected, what is in the table, and no row goes away
  (`WriteUnchanged`: it writes its rows as they are).
* `Agreement` (`CacheAgrees`).
* `Keeps` (`PatchKeeps`): the inductive invariant `PatchInv`. A PATCH writes the columns that
  differ between its entity and the row it selected, so what matters is how old both are:
  as long as nobody overtook it (`merged`), they say what the last PATCH of each other
  column said. Of modules it says that two PATCHes that found none are both noted.

`CountersProofs`, of `Counters`

* `TypeCorrect` (`TypeOK`).
* `Budget`: the inductive invariant `BudgetInv`. How often a channel was renamed in a window is
  not inductive, for it does not say what the limiter will answer. `BudgetInv` accounts for each
  young renaming: it is pushed, and then it is in the channel's list or was trimmed from a
  list that is full of younger entries (`Accounted`); or its worker has not pushed it yet
  (`Held`). A list outlives the renamings whose record is done, because EXPIRE is set anew by
  each record; one whose record is not done may go with a list that an older EXPIRE ends, and
  is a stray then. `Astray` says that the channel's next list outlives the strays, so that a
  worker has one at a channel at most. `Room` leaves a channel room for the renamings of the
  workers that passed the check and have not renamed: the worker that passes found fewer than
  `Limit` young entries, and each other worker has one renaming in hand at most.
* `Limited` (`RenameBudget`): at most `Limit + workers - 1` young uses and one stray of each
  worker, `Limit + 2 * workers - 1` in all: with the code's limit of 2 and concurrency of 2,
  3 renamings in ten minutes, and 5 with strays. `LimiterImplemented`
  (`ImplementsRateLimit`): each step is a use of `RateLimit`, an ageing, or a stutter.
* `ShownInvariant`: `ShownInv`, and `ShownWhenQuiet` (`ShownWhenSettled`) from it. A counter
  that is not `disturbed` is `Attended`: a handler has yet to look for it, a job is to be
  added or waits (`Coming`); or the one worker that has it read what is stored, and will
  name the channel so and save it (`Faithful`); or it is shown. What a job in progress has
  read is the row's and the guild's, unless an edit or an event came behind its back, and
  then that one is to add a job of its own.

and of `GuildCounts`, whose `CountsInit`, `CountsNext`, `CountsSpec` and `CountsTypeOK` are so
named because this module extends both:

* `CountsTypeCorrect` (`CountsTypeOK`); its strengthening `CountsTyped` also says what a
  handler at each `pc` knows of its event, and that the wire holds once each handler that
  waits for an answer of Redis, and no other.
* `CountsInvariant`: the inductive invariant `CountsInv`. That a key is right when no handler
  runs says nothing of the states in between, where the work is done. Two ideas carry it.
  *What is due*: each handler has yet to add 1, -1 or nothing to a number, and
  `key + unseen + Total(what is due) = Discord's number` holds in every state (`VoiceSum`,
  `PresenceSum` for each status, `RoleCounts`), also when the process ends: what its handlers
  had due is `unseen` from then on. A sum over handlers would be an induction
  over data; as every term is 1, -1 or 0, `Total` is the difference of two cardinalities,
  and the lemmas about finite sets say how a step of one handler changes it. *The newest on
  the wire*: of the handlers that wait for a number, the one that asked last is answered
  last, and nothing changed the key after it asked without asking again (`VoiceTold`,
  `LastPublished`, `OnlineRead`); so the number published last is the key's. The rest is
  what the exceptions cover: two members' handlers between reading and publication
  (`MembersTold`), or two presences' between GET and SET of the number shown (`OneAtLast`,
  `LastCompared`).
* `CountsAreKept` (`Kept`) and `CountsAreTold` (`Told`), for any users, handlers, events and
  faults. The assumptions are that users and handlers are finitely many, and that the
  visible statuses are among Discord's three, none of which is `"offline"`.

`RealtimeProofs`

* `Righted`: the inductive invariant `AccessInv`. `EntersByRight` is about the step that lets
  somebody in; `Rightful` carries the reason there: a cached "yes", an answer "yes" under
  way and a granted check each rest on rights in `lately`, or on owning the guild. `lately`
  forgets only when nothing is cached and nothing is under way, so that an older answer
  cannot outlive its reason (`ChecksKeep`).
* `ByRight` (`EntersByRight`): the only steps out of "granted" are the two entries.
* `Viewed`: `ViewInv`, for `Settles` (`ViewSettles`) and `NoReturn` (`NeverBack`). Of each
  parameter that is not `astray`: what is on its way is in the order of the writes; what a
  socket was told is the row, or a later message is under way to it, in the channel, in the
  queue or at a writer that has yet to publish; and what a snapshot holds is no older than
  what a socket was told, or the newer message is still to come. `Gated` says that the
  queue is in use only while the gateway has no server, so that it overtakes nothing. The
  proof needs that sockets and snapshots are different things (`RealtimeAssumption`).

`SessionsProofs`

* `SessionTypes` (`TypeOK`): `Typed` adds what a request is about to use: the token of a
  refresh, the id of a deletion and the row of a save are there and belong to one user.
* `SessionsInvariant`: the inductive invariant `SessionsInv`. No property of the account is
  inductive, for each is about requests that have read something and not yet acted on it:
  * `ExchangeInv`: a token that is not `raced` was exchanged, or one refresh alone is on its
    way with it and has revoked it before it makes the session; hence one session;
  * `StateInv`: an OAuth state that is not `shared` is held by one callback at most, and once
    it admitted somebody whoever holds it did not find it;
  * `ReuseInv`: a session that was ended has no good token and no refresh past the check;
  * `DecisionInv`: the entity of each request agrees with the row in status and plan, but for
    what the request itself decides and what is noted as `loose`;
  * `DeletedInv`: a deletion that has committed left nothing, and whoever could write again
    knows of it (`revived`).
* `SessionsUsedOnce` (`UsedOnce`), `SessionsReuse` (`ReuseEndsSessions`), `SessionsDecisions`
  (`DecisionHolds`), `SessionsDeleted` (`DeletedIsGone`).

The attempt to prove `DecisionHolds` showed that the module had recorded too little: a ban
whose save inserted the deleted user again, followed by the save of a login that had read
the user before, wrote the old status, and `loose` did not say so. It takes three requests
at once, one more than the run has. `Save` now notes a row that it inserts again, too.

`WorkspaceProofs`

* `WorkspaceInvariant`: the inductive invariant `WorkspaceInv`, made of
  * `CompanyInv`: while a login is about to make a user's company (`Creates`), the user has
    none, and no other login is about to;
  * `EmptyInv`: a company whose owner is not a member yet has no members, so that the owner
    will be the only one with that company's first membership;
  * `ReturnInv`: a membership that a change of role will save is in the table, or it is
    `Lost`: noted in `revived`, or refused for good by the foreign key of a company or a user
    that has gone;
  * `JoinInv`: a user who is about to become a member is not one, and comes alone;
  * `InviteInv`: an invitation that somebody holds has admitted nobody, until the holder is
    about to remove it;
  * `OwnerStays` itself: the member to be removed is never the owner, for what the check
    read of the company does not change.
* `WorkspaceJoinedOnce` (`JoinedOnce`), `WorkspaceAdmitsOne` (`AdmitsOne`),
  `WorkspaceOwnerStays` (`OwnerStays`).

`EventProofs`, of `Analytics`

* What the prover has of counting is `Fibers`: a sum, over keys, of the numbers of elements
  with each key is the number of elements, by a bijection from the pairs of a key and an
  index. From it, with days, hours, guilds, channels, commands, roles or members as keys,
  each query's numbers are the cardinality of what it was computed from (`ChartMessages`,
  `ChannelMinutes`, `TopTotal`, ...), and totals that are said in different ways are equal.
* `AnalyticsInvariant`: the inductive invariant, of three parts. `Rows`: the heatmap's
  view has nothing that the days' view has not, since it was created later. `Deletions`: a
  row with the id of an erased user was inserted later or is in a mutation. `Screens`: what
  a report has been answered so far are the rows that are there, unless they moved; its
  heatmap has all its days have; a page that was read is a slice of some order of the
  members.
* `ErasedStaysGone` (`ErasedIsGone`), `ReportsAgree` (`PartsAgree`).
* `PagesArePartition` (`PagesPartition`): in any order of the members only those who are in
  earlier places can be ahead of a member (`PlaceCounts`), and without ties all of them are,
  so that two orders have it in the same place (`SamePlace`); a rank is on one page and on
  some page (`OnePage`, `SomePage`).

Only model-checked: liveness (`Drains`, `Converges`, `FollowsItsBot`, `Heals`), which is
beyond the prover. Every invariant and every other action property of the runs is the
statement of a theorem.

## Disagreements found

What a document or a comment says, and what the code does instead. No run asks for them;
the modules have the code's behaviour.

| statement | what the code does |
|---|---|
| "the ingestor loses no events" (`spec/06-02-event-pipeline.md:74`) | a job is completed when its event is in memory; a process that ends loses it (`ingestor/clickhouse-ingestor.service.ts:66`, `:54`, `:118`) |
| after a flush the right count is published (`bot/shard/shard-event-handlers.ts:548`) | a failed count query is published as 0 (`ingestor/clickhouse-ingestor.service.ts:150`) |
| only guilds absent from Discord's list are marked as left (`spec/06-04-upravlenie-botami.md:71`) | a 429 of the first page gives an empty list, and every guild is marked as left (`guild-reconciliation.service.ts:170`) |
| both columns are brought in line (`spec/06-04-upravlenie-botami.md:66`) | `status` is never restored after a rejoin (`guild-sync.updates.ts:81`) |
| the import follows both rows (`spec/06-02-event-pipeline.md:38`) | a guild's row alone is taken for complete (`guild-setup.consumer.ts:85`) |
| a message is not written twice (`spec/06-02-event-pipeline.md:83`) | stored ids are read once; what is under way is imported and stored (`history-sync.service.ts:107`) |
| the status is the import's (`ABOUT/API_SPEC_ADMIN/guilds.md:58`) | syncGuild saves an older copy of it (`guild-sync-internal.service.ts:88`) |
| bot_connected becomes false when the bot stops (`docs/frontend-realtime-messages.md:183`) | nothing sets it then |
| voice_online is set at the start (`docs/frontend-realtime-messages.md:99`) | the voice key is never initialised: it counts from 0, below 0 shown as 0 |
| the settings cache lives 1 to 5 minutes (`spec/04-03:49`) | 600 seconds (`logs-config-consumer.service.ts:67`) |

Further behaviour a reader of the code should know, which no document contradicts:

* *Counters.* The save after a renaming re-inserts a counter deleted meanwhile, and takes an
  edit back (`counters-consumer.service.ts:119`). A job that the limiter refuses is dropped
  (`:110`): the channel keeps an older number until another event. A query or command of
  Redis that fails is a 0, or the row's older number, and is shown and saved as ACTIVE
  (`:172`, `:226`). A list may expire between LPUSH and EXPIRE (`:261`), with the entry just
  pushed, and the limiter then admits more than `Limit` and one for each other job.
* *Counts.* The keys live on when the process ends: what its handlers had yet to add, and
  what Discord tells nobody meanwhile, is missing from them for good. A HGETALL or GET that
  fails is published as 0. A shard's role counter is frozen after its first fetch, for
  events and consumer spell the key differently (the prefix once and twice). emitFullState
  shows `guilds.online_members`, which no presence writes.
* *Settings.* A job whose worker died twice is failed by BullMQ: the cache keeps the older rows
  until it expires. anyChanged compares with a row read before (`logs.service.ts:116`), so that a
  change may announce nothing. Shards never find the cache (prefix twice in the consumer's
  client, `redis.module.ts:24`). Overlapping PATCHes of a module make two rows. Shards
  never log voice_change and always ingest it; a custom client does both if it is configured.
* *Realtime.* A socket stays in its room after its user's rights are withdrawn.
* *Sessions.* The save of an entity read before a ban or a change of plan reverts it; one
  that overlaps a deletion inserts the user again; two overlapping refreshes fork a session;
  two callbacks may share an OAuth state; a ban revokes no token and the Discord login does
  not ask for the status.
* *Own-token bots.* A token that changes is not followed until a restart, for the message of
  updateToken goes to a channel nobody subscribes to; a removed token's client keeps
  running. With both bots in a guild each event is handled twice.
* *Deletion.* A crash between the PostgreSQL commit and addGdprUserDelete
  (`user-data.service.ts:60`) loses the ClickHouse deletion; the queue has one attempt.
  Views keep what was aggregated; rows that bear a hash are not matched.
* *Analytics.* No producer sets user_id, role, command or isBotGenerated: active members are
  always 0, and the statistics of roles and commands empty. A custom client's voice_change has
  no channel, and counts in the days' minutes but in no channel. validatePlanPeriod admits
  maxDays + 1 days. Ascending ranks start from the least, and ties are unordered; of more
  than 500 members the ascending order starts with the 500th best, who is ranked first
  (`frontend/analytics/analytics.service.ts:291`), so `PagesPartition` claims ascending ranks
  up to `BoardLimit` members only. The run has two; the proof found it.

## Limits

* One guild (user, account) in each module. The code treats guilds one by one, and they
  share only batches, queues and pages.
* One replica of the worker, as in `docker-compose.yml`. A job whose lock is lost while its
  worker still processes it is not modelled; one whose worker is gone is.
* An insert is applied whole or not at all, also when the process dies.
* A row may leave the table at any time: `retention_until` and the time at which ClickHouse
  merges a part, or carries out an `ALTER DELETE`, are not compared. `CountNeverAhead` and
  `ImportedWhenCompleted` say which rows that are missing have left. `NoDuplicateRows`,
  `ImplementsSink` and the other properties of `Ingestor` are about what was inserted.
* The import SETs the message-count key and adds rows, too; `Ingestor` has neither, and
  `HistorySync` only the rows. The bot INCRs for every message, and ingests only with a log
  channel set.
* `ImportsOnlyMissing` excuses runs that could not read the table (`blind`), for the code
  treats that as an empty table; `StatusTold` excuses runs that were cut off or could not
  write the status (`abandoned`).
* `Converges` is about `is_bot_in_guild`. `bot_connected`, realtime values and the
  owner are not in the row; a stale save can revert the owner. A forced leave changes only
  the database and the next reconciliation reverts it.
* Syncs and requests without end could livelock with the reconciliation; they are bounded,
  or one at a time.
* `Bots` has one own bot and takes a write of `guilds`, and a save's SELECT and UPDATE, as
  one step; `GuildPresence` has them apart. A guild:setup job that saves default settings
  over a token given meanwhile is outside, because a guild is opened when its creation is
  over. A guild with a token but without a client is repaired by nobody, and is excused.
* `GuildCounts` serves a guild by one kind of client for its whole life. Commands that were
  issued and that Redis has not executed when the process ends are as if they had not been
  issued. A gateway session that is lost while the process goes on, and its events with it,
  is not modelled there; it would add to `unseen` and `lost` as the time without a process
  does.
* `Counters` adds no job for MESSAGES, VOICE and BOTS, as no event does, and has one number for
  the others. A failed read yields 0 or any number the guild had. Renamings whose record failed
  or was cut off are outside `RenameBudget`: the limiter does not know of them. The clock does
  not go back.
* One PATCH of the log settings names an event type once. Texts of messages are abstracted
  to whether one is sent and where.
* The sockets and requests of `Realtime` are those of one user.
* `Sessions` takes a password, a signature or a TOTP as right or wrong; the cookie's path,
  and impersonation, which reads no status, change no row.
* `Analytics` counts a repeated insert as another event. An administrator's retry of the
  deletion's job is not in it.
* Guilds that are removed with their owner's data appear in no guild module.

## Not modelled

* cleanupOrphans (`admin/system/system.service.ts:335`): it lists guilds before counters, and
  what is created between looks like an orphan; all modules are about one guild.
  Maintenance mode and the health overview are one flag and reads.
* Widgets, public pages, dashboards, bot listings: updates of single rows, and reads.
* Slash commands: their registration is one idempotent PUT, and they read.
* Listings and invoices of users administration and billing; the payment provider is a stub.
* Shared infrastructure (clients, configuration, constants), whose effects appear where it
  is used; logging, formatting, embeds, translations.
* Background worker: an empty shell.
* Sharding: discord.js spawns and restarts shards; `Bots` has the process's start and stop.

## What could come next

1. Two guilds at once: cleanupOrphans against their creation, pages of the guild list.
2. `Ingestor` with the import's rows and its SET of the message count.
3. A gateway session lost and not resumed, in `GuildCounts`.
