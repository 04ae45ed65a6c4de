----------------------------- MODULE GuildSettings -----------------------------
(***************************************************************************)
(* The settings a guild's owner edits and the bot follows: the log channel of *)
(* each event type (guild_log_settings), or the welcome and the goodbye       *)
(* message (guild_welcome_goodbye_settings).  A PATCH changes rows and adds a  *)
(* job; workers of the bot service copy the guild's rows to a cache in Redis   *)
(* that expires; the clients of bots with their own token read the cache, and *)
(* the table when it is not there.                                          *)
(*                                                                         *)
(* A row is two columns: the channel, and the rest.  The modules of the guild   *)
(* are switched on and off in a third table (guild_modules), which no bot reads *)
(* and no unique key guards.  One behaviour is about one of the three tables.  *)
(***************************************************************************)
EXTENDS Integers, Sequences, FiniteSets

CONSTANTS
    Slot,          \* event types, or welcome and goodbye, or the keys of modules
    Voice,         \* the event type voice_change
    Asked,         \* what a PATCH may ask of a row (a bound)
    Request,       \* PATCHes in progress at once
    Worker,        \* the consumer's concurrency
    MaxPatches,    \* PATCHes (a bound)
    MaxFaults      \* failed calls and crashes (a bound)

Value == 0..1      \* 0 is what a PATCH that leaves a column out gives a new row
Kept == 2          \* a column the PATCH leaves out
Column == {"channel", "rest"}
Row == [Column -> Value]
NoRow == [c \in Column |-> -1]
Table == [Slot -> Row \cup {NoRow}]
Given == [Column -> Value \cup {Kept}]

ASSUME SettingsAssumption ==
    /\ Asked \subseteq Given /\ IsFiniteSet(Slot) /\ IsFiniteSet(Worker)
    /\ MaxPatches \in Nat /\ MaxFaults \in Nat

VARIABLES
    kind,       \* "logs", "messages" or "modules"
    table,
    modules,    \* the rows of guild_modules, in the order of their creation
    request, patches,
    jobs,       \* jobs of the guild that wait: they carry nothing but its id
    again,      \* those of them that a worker had begun when its process ended
    task,       \* the workers
    cache,      \* the cached rows, or NoCache
    faults,
    wanted,     \* history: what each column was last told to be
    merged,     \* history: slots whose PATCHes overlapped
    astray      \* history: the cache was set out of order, or a change was not announced

vars == <<kind, table, modules, request, patches, jobs, again, task, cache, faults, wanted, merged, astray>>
bot == <<jobs, again, task, cache, astray>>
users == <<kind, table, modules, request, patches, wanted, merged>>

NoCache == <<>>
Idle == [pc |-> "idle"]
OfSome(f, S) == DOMAIN f \subseteq Slot /\ f \in [DOMAIN f -> S]

TypeOK ==
    /\ kind \in {"logs", "messages", "modules"}
    /\ table \in Table
    /\ modules \in Seq([key : Slot, enabled : Value])
    /\ \A p \in Request :
          \/ request[p] = Idle
          \/ /\ request[p].pc \in {"find", "select", "write", "add"}
             /\ OfSome(request[p].given, Given)
             /\ OfSome(request[p].found, Row \cup {NoRow})
             /\ OfSome(request[p].stored, Row \cup {NoRow})
             /\ request[p].overtaken \subseteq Slot
          \/ /\ request[p].pc \in {"module", "enable"}
             /\ OfSome(request[p].given, Value)
             /\ request[p].key \in Slot /\ request[p].found \in 0..Len(modules)
    /\ patches \in 0..MaxPatches /\ faults \in 0..MaxFaults
    /\ jobs \in 0..patches /\ again \in 0..jobs
    /\ \A w \in Worker :
          \/ task[w] = Idle
          \/ task[w] \in [pc : {"read"}, stalled : BOOLEAN]
          \/ task[w] \in [pc : {"set"}, stalled : BOOLEAN, rows : Table, behind : BOOLEAN]
    /\ cache \in Table \cup {NoCache}
    /\ wanted \in [Slot -> Row] /\ merged \subseteq Slot /\ astray \in BOOLEAN

Init ==
    /\ kind \in {"logs", "messages", "modules"} /\ modules = <<>>
    /\ table = [s \in Slot |-> NoRow]
    /\ request = [p \in Request |-> Idle] /\ patches = 0
    /\ jobs = 0 /\ again = 0 /\ task = [w \in Worker |-> Idle] /\ cache = NoCache
    /\ faults = 0
    /\ wanted = [s \in Slot |-> [c \in Column |-> 0]] /\ merged = {} /\ astray = FALSE

Fault == faults < MaxFaults /\ faults' = faults + 1

-------------------------------------------------------------------------------
(* PATCH .../logs/settings, /welcome, /goodbye.                             *)

At(p, pc) == request[p].pc = pc

\* The log settings are patched together, welcome and goodbye each on its own.
Start(p) ==
    /\ kind # "modules" /\ At(p, "idle") /\ patches < MaxPatches
    /\ patches' = patches + 1
    /\ \E S \in SUBSET Slot \ {{}} : \E g \in [S -> Asked] :
          /\ kind = "messages" => Cardinality(S) = 1
          /\ request' = [request EXCEPT ![p] =
                [pc |-> "find", given |-> g, found |-> <<>>, stored |-> <<>>, overtaken |-> {}]]
    /\ UNCHANGED <<kind, table, modules, wanted, merged, faults, bot>>

Slots(p) == DOMAIN request[p].given

Find(p) ==
    /\ At(p, "find")
    /\ request' = [request EXCEPT ![p].pc = "select", ![p].found = [s \in Slots(p) |-> table[s]]]
    /\ UNCHANGED <<kind, table, modules, patches, wanted, merged, faults, bot>>

\* Defect: what the PATCH leaves out is reset.
PatchedAfresh(row, given) ==
    [c \in Column |-> IF given[c] # Kept THEN given[c] ELSE 0]

\* The entity that is saved: what was found (or the defaults) with what was given.
Patched(row, given) ==
    [c \in Column |-> IF given[c] # Kept THEN given[c] ELSE IF row = NoRow THEN 0 ELSE row[c]]

Entity(p, s) == Patched(request[p].found[s], request[p].given[s])

\* save() first selects the rows it is about to write ...
Select(p) ==
    /\ At(p, "select")
    /\ request' = [request EXCEPT ![p].pc = "write", ![p].stored = [s \in Slots(p) |-> table[s]]]
    /\ UNCHANGED <<kind, table, modules, patches, wanted, merged, faults, bot>>

\* ... and then inserts the rows it did not find (the primary key refuses a second
\* insert), and updates the columns that differ from what it selected.
Conflict(p) == \E s \in Slots(p) : request[p].stored[s] = NoRow /\ table[s] # NoRow

Written(p, s) ==
    LET e == Entity(p, s) IN LET old == request[p].stored[s] IN
    IF old = NoRow THEN e
    ELSE [c \in Column |-> IF e[c] # old[c] THEN e[c] ELSE table[s][c]]

\* Defect: only a new channel counts as a change.
ChangedChannel(p) ==
    \/ kind = "messages"
    \/ \E s \in Slots(p) : \/ request[p].found[s] = NoRow
                           \/ Entity(p, s)["channel"] # request[p].found[s]["channel"]

\* patchSettings adds a job if a row changes from what it found; the other two always.
Changed(p) ==
    kind = "messages" \/ \E s \in Slots(p) : Entity(p, s) # request[p].found[s]

\* A change the cache is not told of: whoever has read the rows does not hold it.
Unannounced ==
    /\ astray' = TRUE
    /\ task' = [w \in Worker |-> IF task[w].pc = "set" THEN [task[w] EXCEPT !.behind = TRUE] ELSE task[w]]

Write(p) ==
    /\ At(p, "write") /\ ~Conflict(p)
    /\ table' = [s \in Slot |-> IF s \in Slots(p) THEN Written(p, s) ELSE table[s]]
    /\ request' = [q \in Request |->
          IF q = p THEN (IF Changed(p) THEN [request[p] EXCEPT !.pc = "add"] ELSE Idle)
          ELSE IF request[q].pc \in {"select", "write"}
               THEN [request[q] EXCEPT !.overtaken = @ \cup (Slots(p) \cap Slots(q))]
               ELSE request[q]]
    /\ wanted' = [s \in Slot |->
          IF s \notin Slots(p) THEN wanted[s]
          ELSE IF s \in merged THEN table'[s]
          ELSE [c \in Column |-> IF request[p].given[s][c] = Kept THEN wanted[s][c]
                                 ELSE request[p].given[s][c]]]
    /\ merged' = (merged \ Slots(p)) \cup request[p].overtaken
    /\ IF ~Changed(p) /\ request[p].overtaken # {} THEN Unannounced ELSE UNCHANGED <<task, astray>>
    /\ UNCHANGED <<kind, modules, patches, jobs, again, cache, faults>>

\* A request that fails has changed nothing: its rows are written in a transaction.  Of
\* the modules, those it has saved stay.
PatchFails(p) ==
    /\ \/ At(p, "write") /\ Conflict(p) /\ UNCHANGED faults
       \/ request[p].pc \in {"find", "select", "write", "module", "enable"} /\ Fault
    /\ request' = [request EXCEPT ![p] = Idle]
    /\ UNCHANGED <<kind, table, modules, patches, wanted, merged, bot>>

AddJob(p) ==
    /\ At(p, "add")
    /\ request' = [request EXCEPT ![p] = Idle]
    /\ jobs' = jobs + 1
    /\ UNCHANGED <<kind, table, modules, patches, wanted, merged, again, task, cache, faults, astray>>

\* An error of the queue is ignored; the process may also end here.
AddFails(p) ==
    /\ At(p, "add") /\ Fault
    /\ request' = [request EXCEPT ![p] = Idle]
    /\ Unannounced
    /\ UNCHANGED <<kind, table, modules, patches, wanted, merged, jobs, again, cache>>

-------------------------------------------------------------------------------
(* PATCH .../modules: one module, or several one after the other.            *)

StartModules(p) ==
    /\ kind = "modules" /\ At(p, "idle") /\ patches < MaxPatches
    /\ patches' = patches + 1
    /\ \E S \in SUBSET Slot \ {{}} : \E g \in [S -> Value], k \in S :
          request' = [request EXCEPT ![p] = [pc |-> "module", given |-> g, key |-> k, found |-> 0]]
    /\ UNCHANGED <<kind, table, modules, wanted, merged, faults, bot>>

Rows(k) == {i \in DOMAIN modules : modules[i].key = k}

\* findOne: any row of the module, if there is one.
FindModule(p) ==
    /\ At(p, "module")
    /\ LET k == request[p].key IN
       /\ \E i \in IF Rows(k) = {} THEN {0} ELSE Rows(k) :
             request' = [request EXCEPT ![p].pc = "enable", ![p].found = i]
       /\ merged' = IF \E q \in Request : At(q, "enable") /\ request[q].key = k
                    THEN merged \cup {k} ELSE merged
    /\ UNCHANGED <<kind, table, modules, patches, wanted, faults, bot>>

\* The row is saved, or another one made; the request goes on with its next module.
SaveModule(p) ==
    /\ At(p, "enable")
    /\ LET q == request[p] IN LET rest == DOMAIN q.given \ {q.key} IN
       /\ modules' = IF q.found = 0 THEN Append(modules, [key |-> q.key, enabled |-> q.given[q.key]])
                     ELSE [modules EXCEPT ![q.found].enabled = q.given[q.key]]
       /\ wanted' = [wanted EXCEPT ![q.key]["rest"] = q.given[q.key]]
       /\ IF rest = {} THEN request' = [request EXCEPT ![p] = Idle]
          ELSE \E k \in rest :
             request' = [request EXCEPT ![p] =
                [pc |-> "module", given |-> [s \in rest |-> q.given[s]], key |-> k, found |-> 0]]
    /\ UNCHANGED <<kind, table, patches, merged, faults, bot>>

-------------------------------------------------------------------------------
(* The bot service: the consumer of the jobs, and the cache.                 *)

Take(w) ==
    /\ task[w] = Idle /\ jobs > 0
    /\ jobs' = jobs - 1
    /\ \E stalled \in BOOLEAN :
          /\ IF stalled THEN again > 0 /\ again' = again - 1 ELSE jobs > again /\ again' = again
          /\ task' = [task EXCEPT ![w] = [pc |-> "read", stalled |-> stalled]]
    /\ UNCHANGED <<users, cache, faults, astray>>

ReadRows(w) ==
    /\ task[w].pc = "read"
    /\ task' = [task EXCEPT ![w] = [pc |-> "set", stalled |-> task[w].stalled,
                                      rows |-> table, behind |-> FALSE]]
    /\ UNCHANGED <<users, jobs, again, cache, faults, astray>>

SetCache(w) ==
    /\ task[w].pc = "set"
    /\ cache' = task[w].rows
    /\ astray' = task[w].behind
    /\ task' = [v \in Worker |->
                  IF v = w THEN Idle
                  ELSE IF task[v].pc = "set" THEN [task[v] EXCEPT !.behind = TRUE] ELSE task[v]]
    /\ UNCHANGED <<users, jobs, again, faults>>

\* The rows cannot be read or the key not be set: the job has failed, once and for all.
JobFails(w) ==
    /\ task[w] # Idle /\ Fault
    /\ astray' = TRUE
    /\ task' = [v \in Worker |->
                  IF v = w THEN Idle
                  ELSE IF task[v].pc = "set" THEN [task[v] EXCEPT !.behind = TRUE] ELSE task[v]]
    /\ UNCHANGED <<users, jobs, again, cache>>

\* The process ends.  The queue gives the jobs it held to the next worker, but each only
\* once (maxStalledCount is 1): a job that stalls again has failed.
Busy == {w \in Worker : task[w] # Idle}
Stalled == {w \in Busy : task[w].stalled}

Crash ==
    /\ Busy # {} /\ Fault
    /\ LET back == Cardinality(Busy \ Stalled) IN jobs' = jobs + back /\ again' = again + back
    /\ astray' = (astray \/ Stalled # {})
    /\ task' = [w \in Worker |-> Idle]
    /\ UNCHANGED <<users, cache>>

\* Defect: the cache is set without EX.
ExpireNever == FALSE /\ UNCHANGED vars

\* EX 600: a key that is there goes away.
Expire ==
    /\ cache # NoCache
    /\ cache' = NoCache /\ astray' = FALSE
    /\ UNCHANGED <<users, jobs, again, task, faults>>

-------------------------------------------------------------------------------
Users == \E p \in Request : Start(p) \/ Find(p) \/ Select(p) \/ Write(p) \/ PatchFails(p)
                             \/ AddJob(p) \/ AddFails(p)
                             \/ StartModules(p) \/ FindModule(p) \/ SaveModule(p)

Bot == Crash \/ Expire \/ \E w \in Worker : Take(w) \/ ReadRows(w) \/ SetCache(w) \/ JobFails(w)

Next == Users \/ Bot

Spec == Init /\ [][Next]_vars

FairSpec ==
    /\ Spec /\ WF_vars(Expire)
    /\ \A p \in Request : WF_vars(Find(p) \/ Select(p) \/ Write(p) \/ AddJob(p))
    /\ \A w \in Worker : WF_vars(Take(w)) /\ WF_vars(ReadRows(w)) /\ WF_vars(SetCache(w))

-------------------------------------------------------------------------------
(* What members see.  The consumer's Redis client prefixes a key that already  *)
(* has the prefix, and so does the client of a custom bot, in the same process;  *)
(* a shard's client adds none, so that a shard never finds the cache.           *)

ShardRows == table
CustomRows == IF cache = NoCache THEN table ELSE cache

\* A row is followed when it is enabled (0 is not, by default) and names a channel.
Followed(row) == row # NoRow /\ row["rest"] # 0 /\ row["channel"] # 0

\* A log message is about the event; welcome and goodbye are made of the row's text.
LogEmbed(s) == <<s>>
Greeting(row) == <<row["rest"]>>

\* What is sent, and where, when each of the events happens.
Logs(rows) == {<<rows[s]["channel"], LogEmbed(s)>> : s \in {x \in Slot : Followed(rows[x])}}
Greetings(rows) ==
    {<<rows[s]["channel"], Greeting(rows[s])>> : s \in {x \in Slot : Followed(rows[x])}}

\* A shard hands every voice event to the ingestor and returns before it would log it;
\* it hands in another event when it has logged it, and so does a custom client all.
Unlogged == IF kind = "logs" THEN {Voice} ELSE {}
ShardSends ==
    IF kind = "logs" THEN Logs([ShardRows EXCEPT ![Voice] = NoRow]) ELSE Greetings(ShardRows)
CustomSends == IF kind = "logs" THEN Logs(CustomRows) ELSE Greetings(CustomRows)
ShardEvents == Unlogged \cup {s \in Slot : kind = "logs" /\ Followed(ShardRows[s])}
CustomEvents == {s \in Slot : kind = "logs" /\ Followed(CustomRows[s])}

-------------------------------------------------------------------------------
(* Properties.                                                             *)

Quiet == jobs = 0 /\ (\A p \in Request : request[p] = Idle) /\ \A w \in Worker : task[w] = Idle

\* When every PATCH has been answered and every job is done, a cache that is there holds
\* the table's rows, however PATCHes, jobs and crashes interleaved: unless a worker set
\* what it had read before another one's SET, or a change found no job
\* (logs.service.ts:116, logs-config-consumer.service.ts:57-67).
CacheAgrees == Quiet /\ cache # NoCache /\ ~astray => cache = table

\* A column of a row is what the last PATCH that gave it said, unless PATCHes of that
\* row overlapped: another PATCH, or one that failed, does not take it back
\* (logs.service.ts:84-113, welcome-goodbye.service.ts:74-103).
ColumnsKept ==
    \A s \in Slot \ merged :
       \A c \in Column : wanted[s][c] = IF table[s] = NoRow THEN 0 ELSE table[s][c]

\* A module has one row, and is what the last PATCH said, unless two PATCHes had looked
\* for its row before either saved it (guilds.service.ts:508-523).
ModulesKept ==
    \A k \in Slot \ merged :
       /\ Cardinality(Rows(k)) <= 1
       /\ \A i \in Rows(k) : modules[i].enabled = wanted[k]["rest"]

\* Every state has its type, and of each table the above holds for its PATCHes
\* (logs.service.ts:84-113, guilds.service.ts:508-523).
PatchKeeps == TypeOK /\ IF kind = "modules" THEN ModulesKept ELSE ColumnsKept

\* Once nobody edits, the client of a custom bot sends what a shard would send, to the
\* same channels, and hands the same events to the ingestor, voice events apart, whatever
\* jobs were lost or set the cache out of order: the cache expires
\* (logs-config-consumer.service.ts:65-68, multi-token-events.service.ts:96-143).
Heals ==
    <>[](/\ {m \in CustomSends : kind = "logs" => m[2] # LogEmbed(Voice)} = ShardSends
         /\ CustomEvents \cup Unlogged = ShardEvents)
===============================================================================
