-------------------------------- MODULE Counters --------------------------------
(***************************************************************************)
(* Live counters: rows of the table counters, each with a Discord channel    *)
(* whose name shows a number of the guild.  A gateway event changes the      *)
(* number and adds a job for each counter; the bot service works on several  *)
(* jobs at once; a job reads the row and the number, asks a rate limiter in   *)
(* Redis, renames the channel, records the renaming and saves the row it      *)
(* read.  Meanwhile users create, edit and remove counters.                  *)
(*                                                                         *)
(* One number stands for the metrics of one guild that events change (ROLE,    *)
(* MEMBERS, presences; VOICE and BOTS always show 0, and no event adds a job   *)
(* for MESSAGES), a version for the columns a user edits, and the pair of a    *)
(* version and a number for the name that formatCounterChannelName makes.     *)
(* save() is one step: it makes the stored row equal to the entity, or inserts *)
(* it when there is none.  A clock in seconds that never goes back gives the   *)
(* limiter its times, and the time of an entry is read when it is pushed: both *)
(* workers push over one connection.                                         *)
(***************************************************************************)
EXTENDS Integers, Sequences, FiniteSets

CONSTANTS
    Counter,       \* ids of counters
    Channel,       \* Discord channels
    Worker,        \* jobs in progress at once
    Nobody,        \* no PATCH in progress
    Limit,         \* renamings of a channel the limiter allows in a window
    Window,        \* length of the window
    MaxTime,       \* seconds that pass (a bound)
    MaxHappens     \* what users do, events, failing calls and crashes (a bound on their sum)

ASSUME CountersAssumption ==
    /\ IsFiniteSet(Worker) /\ Worker # {} /\ IsFiniteSet(Counter)
    /\ Limit \in Nat \ {0} /\ Window \in Nat \ {0}
    /\ MaxTime \in Nat /\ MaxHappens \in Nat

Text == 0..MaxHappens
Number == 0..MaxHappens

\* A row: its channel, the version of its edited columns, current_value, status.
Row == [channel : Channel, text : Text, value : Number, status : {"active", "error"}]
NoRow == [status |-> "none"]

Job == [type : {"update", "delete"}, counter : Counter, channel : Channel, stalled : BOOLEAN]

VARIABLES
    row,        \* PostgreSQL: counters
    name,       \* Discord: the names the bot gave
    number,     \* the guild's number
    finding,    \* handlers of events that have yet to look for the counters
    todo,       \* jobs that handlers and requests have yet to add
    queue,      \* BullMQ: waiting jobs
    task,       \* the jobs in progress
    list,       \* Redis: a channel's list; the newest entry has the greatest seq
    expiry,     \* Redis: when the list's key expires
    now,
    seqs,       \* entries pushed so far
    edit,       \* a PATCH between its read and its save
    happened,   \* how much of MaxHappens is spent
    uses,       \* history: the renamings of the last window whose record did not fail
    strays,     \* history: those of them whose key expired before the record had renewed it
    removed,    \* history: counters a user removed
    disturbed   \* history: counters whose last job was refused, lost, failed, without a
                \* number or overlapped, or named another channel than the row

vars == <<row, name, number, finding, todo, queue, task, list, expiry, now, seqs, edit,
          happened, uses, strays, removed, disturbed>>

limiter == <<list, expiry, now, seqs, strays>>
adders == <<finding, todo>>
user == <<edit, removed>>

Idle == [pc |-> "idle"]
Phases == {"loaded", "valued", "checked", "renamed", "pushed", "trimmed", "recorded", "failing"}
Task == [pc : Phases, job : Job, row : Row, value : Number]

\* A key of Redis without an expiry.
Never == 0
Entry == [seq : Nat \ {0}, at : Nat]
Unrecorded == 0
Use == [channel : Channel, at : Nat, by : Worker, seq : Nat, kept : BOOLEAN]
Moment == 1..MaxHappens

TypeOK ==
    /\ row \in [Counter -> Row \cup {NoRow}]
    /\ name \in [Channel -> {<<>>} \cup (Text \X Number)]
    /\ number \in 0..happened
    /\ finding \subseteq Moment /\ todo \subseteq [by : Moment, job : Job]
    /\ queue \in Seq(Job)
    /\ task \in [Worker -> Task \cup {Idle}]
    /\ list \in [Channel -> SUBSET Entry] /\ expiry \in [Channel -> Nat]
    /\ now \in 0..MaxTime /\ seqs \in Nat
    /\ edit \in [counter : Counter, row : Row, by : Moment] \cup {Nobody}
    /\ happened \in 0..MaxHappens
    /\ uses \subseteq Use /\ strays \subseteq Use
    /\ removed \subseteq Counter /\ disturbed \subseteq Counter

Init ==
    /\ row = [c \in Counter |-> NoRow]
    /\ name = [ch \in Channel |-> <<>>]
    /\ number = 0
    /\ finding = {} /\ todo = {} /\ queue = <<>>
    /\ task = [w \in Worker |-> Idle]
    /\ list = [ch \in Channel |-> {}] /\ expiry = [ch \in Channel |-> Never]
    /\ now = 0 /\ seqs = 0
    /\ edit = Nobody /\ happened = 0
    /\ uses = {} /\ strays = {} /\ removed = {} /\ disturbed = {}

Exists(c) == row[c] # NoRow
Busy == {w \in Worker : task[w] # Idle}
\* Somebody works on a job of counter c.
Working(c) == \E w \in Busy : task[w].job.counter = c

Happens == happened < MaxHappens /\ happened' = happened + 1

UpdateJob(c, r) == [type |-> "update", counter |-> c, channel |-> r.channel, stalled |-> FALSE]

-------------------------------------------------------------------------------
(* Users: POST, PATCH and DELETE .../counters.  A request saves, then adds its *)
(* job.  (A job of type delete has no effect, whether it is added or not.)     *)

Order(moment, c, r) == [by |-> moment, job |-> UpdateJob(c, r)]

Create(c, ch) ==
    /\ ~Exists(c) /\ c \notin removed
    /\ Happens
    /\ row' = [row EXCEPT ![c] = [channel |-> ch, text |-> 0, value |-> 0, status |-> "active"]]
    /\ todo' = todo \cup {Order(happened', c, row'[c])}
    /\ UNCHANGED <<name, number, finding, queue, task, limiter, user, uses, disturbed>>

ReadForEdit(c) ==
    /\ edit = Nobody /\ Exists(c)
    /\ Happens
    /\ edit' = [counter |-> c, row |-> row[c], by |-> happened']
    /\ UNCHANGED <<row, name, number, adders, queue, task, limiter, uses, removed, disturbed>>

SaveEdit(ch) ==
    /\ edit # Nobody
    /\ row' = [row EXCEPT ![edit.counter] =
                 [edit.row EXCEPT !.text = edit.by, !.channel = ch]]
    /\ todo' = todo \cup {Order(edit.by, edit.counter, row'[edit.counter])}
    /\ edit' = Nobody
    /\ UNCHANGED <<name, number, finding, queue, task, limiter, happened, uses, removed, disturbed>>

Remove(c) ==
    /\ Exists(c)
    /\ Happens
    /\ row' = [row EXCEPT ![c] = NoRow]
    /\ \/ queue' = Append(queue, [UpdateJob(c, row[c]) EXCEPT !.type = "delete"])
       \/ UNCHANGED queue
    /\ removed' = removed \cup {c}
    /\ disturbed' = disturbed \cup {c}
    /\ UNCHANGED <<name, number, adders, task, limiter, edit, uses>>

-------------------------------------------------------------------------------
(* A gateway event: its handler stores the number, looks for the counters, and *)
(* adds a job for each.                                                     *)

Event ==
    /\ Happens
    /\ number' = number + 1
    /\ finding' = finding \cup {happened'}
    /\ UNCHANGED <<row, name, todo, queue, task, limiter, user, uses, disturbed>>

FindCounters(h) ==
    /\ h \in finding
    /\ todo' = todo \cup {Order(h, c, row[c]) : c \in {x \in Counter : Exists(x)}}
    /\ finding' = finding \ {h}
    /\ UNCHANGED <<row, name, number, queue, task, limiter, user, happened, uses, disturbed>>

AddJob(o) ==
    /\ o \in todo
    /\ queue' = Append(queue, o.job)
    /\ todo' = todo \ {o}
    /\ UNCHANGED <<row, name, number, finding, task, limiter, user, happened, uses, disturbed>>

\* Jobs are not added: an add fails, which is swallowed, the look for the counters does,
\* or the process of the handlers or of the requests ends.
JobsLost ==
    /\ Happens
    /\ \E S \in SUBSET finding, T \in SUBSET todo :
          /\ S # {} \/ T # {}
          /\ finding' = finding \ S /\ todo' = todo \ T
          /\ disturbed' = disturbed \cup {o.job.counter : o \in T}
                            \cup {c \in Counter : S # {} /\ Exists(c)}
    /\ UNCHANGED <<row, name, number, queue, task, limiter, user, uses>>

-------------------------------------------------------------------------------
(* processJob.                                                             *)

End(w) == task' = [task EXCEPT ![w] = Idle]
At(w, pc) == task[w].pc = pc
Goto(w, pc) == task' = [task EXCEPT ![w].pc = pc]
Disturb(w) == disturbed' = disturbed \cup {task[w].job.counter}

\* A job to delete, or of a counter that is gone, ends at once; else the row is read.
Skip ==
    /\ queue # <<>>
    /\ Head(queue).type = "delete" \/ ~Exists(Head(queue).counter)
    /\ queue' = Tail(queue)
    /\ UNCHANGED <<row, name, number, adders, task, limiter, user, happened, uses, disturbed>>

Load(w) ==
    /\ task[w] = Idle
    /\ queue # <<>> /\ Head(queue).type = "update"
    /\ LET j == Head(queue)
       IN  /\ Exists(j.counter)
           /\ task' = [task EXCEPT ![w] =
                         [pc |-> "loaded", job |-> j, row |-> row[j.counter], value |-> 0]]
           /\ disturbed' = IF Working(j.counter) \/ row[j.counter].channel # j.channel
                           THEN disturbed \cup {j.counter}
                           ELSE disturbed \ {j.counter}
    /\ queue' = Tail(queue)
    /\ UNCHANGED <<row, name, number, adders, limiter, user, happened, uses>>

GetMetricValue(w) ==
    /\ At(w, "loaded")
    /\ task' = [task EXCEPT ![w].pc = "valued", ![w].value = number]
    /\ UNCHANGED <<row, name, number, adders, queue, limiter, user, happened, uses, disturbed>>

\* A query, or a command of Redis, fails: the job throws, or goes on with a number that
\* stands in for the metric, which is 0 or an older one of the database (as it does when
\* the key is missing, or the hash has nobody online).
ReadFails(w) ==
    /\ Happens
    /\ \/ task[w].pc \in {"loaded", "valued"} /\ End(w)
       \/ /\ At(w, "loaded")
          /\ \E n \in 0..number : task' = [task EXCEPT ![w].pc = "valued", ![w].value = n]
    /\ Disturb(w)
    /\ UNCHANGED <<row, name, number, adders, queue, limiter, user, uses>>

Recent(ch) == {e \in list[ch] : e.at + Window > now}

\* Defect: a refused job is kept in a place of its own, where it never ends.
CheckRateLimitForgets(w) ==
    /\ At(w, "valued")
    /\ IF Cardinality(Recent(task[w].job.channel)) < Limit
       THEN Goto(w, "checked") /\ UNCHANGED disturbed
       ELSE Goto(w, "limited") /\ Disturb(w)
    /\ UNCHANGED <<row, name, number, adders, queue, limiter, user, happened, uses>>

\* A refused job returns, as if it were done.
CheckRateLimit(w) ==
    /\ At(w, "valued")
    /\ IF Cardinality(Recent(task[w].job.channel)) < Limit
       THEN Goto(w, "checked") /\ UNCHANGED disturbed
       ELSE End(w) /\ Disturb(w)
    /\ UNCHANGED <<row, name, number, adders, queue, limiter, user, happened, uses>>

\* Discord has the new name, which other counters of that channel did not give it.
Rename(w) == name' = [name EXCEPT ![task[w].job.channel] = <<task[w].row.text, task[w].value>>]
Sharing(w) == {c \in Counter \ {task[w].job.counter} :
                 Exists(c) /\ row[c].channel = task[w].job.channel}

SetChannelName(w) ==
    /\ At(w, "checked")
    /\ Rename(w) /\ disturbed' = disturbed \cup Sharing(w)
    /\ uses' = uses \cup {[channel |-> task[w].job.channel, at |-> now, by |-> w,
                           seq |-> Unrecorded, kept |-> FALSE]}
    /\ Goto(w, "renamed")
    /\ UNCHANGED <<row, number, adders, queue, limiter, user, happened>>

\* 429: the job fails.  Another error, which may come of a renaming that was done:
\* the error path.
RenameFails(w) ==
    /\ At(w, "checked")
    /\ Happens
    /\ \/ End(w) /\ Disturb(w) /\ UNCHANGED name
       \/ Goto(w, "failing") /\ Disturb(w) /\ UNCHANGED name
       \/ /\ Goto(w, "failing") /\ Rename(w)
          /\ disturbed' = disturbed \cup {task[w].job.counter} \cup Sharing(w)
    /\ UNCHANGED <<row, number, adders, queue, limiter, user, uses>>

(* recordRateLimit: LPUSH, LTRIM 0, Limit - 1 and EXPIRE, each awaited.  The    *)
(* list may be gone before EXPIRE.                                          *)

Push(ch) ==
    /\ list' = [list EXCEPT ![ch] = @ \cup {[seq |-> seqs + 1, at |-> now]}]
    /\ seqs' = seqs + 1

Trim(ch) ==
    \E newest \in SUBSET list[ch] :
       /\ \A e \in newest, f \in list[ch] \ newest : f.seq < e.seq
       /\ IF Cardinality(list[ch]) <= Limit THEN newest = list[ch]
                                            ELSE Cardinality(newest) = Limit
       /\ list' = [list EXCEPT ![ch] = newest]

\* Defect: the list expires a moment before the window is over.
ExpireEarly(ch) ==
    expiry' = IF list[ch] = {} THEN expiry ELSE [expiry EXCEPT ![ch] = now + Window - 1]

Expire(ch) ==
    expiry' = IF list[ch] = {} THEN expiry ELSE [expiry EXCEPT ![ch] = now + Window]

\* The renaming of worker w, until its record is done.
Unaccounted(w) == {u \in uses : u.by = w /\ ~u.kept}

RecordPush(w) ==
    /\ At(w, "renamed")
    /\ Push(task[w].job.channel)
    /\ uses' = (uses \ Unaccounted(w)) \cup {[u EXCEPT !.seq = seqs + 1] : u \in Unaccounted(w)}
    /\ Goto(w, "pushed")
    /\ UNCHANGED <<row, name, number, adders, queue, expiry, now, strays, user, happened,
                   disturbed>>

RecordTrim(w) ==
    /\ At(w, "pushed")
    /\ Trim(task[w].job.channel)
    /\ Goto(w, "trimmed")
    /\ UNCHANGED <<row, name, number, adders, queue, expiry, now, seqs, strays, user, happened,
                   uses, disturbed>>

RecordExpire(w) ==
    /\ At(w, "trimmed")
    /\ Expire(task[w].job.channel)
    /\ uses' = (uses \ Unaccounted(w)) \cup {[u EXCEPT !.kept = TRUE] : u \in Unaccounted(w)}
    /\ Goto(w, "recorded")
    /\ UNCHANGED <<row, name, number, adders, queue, list, now, seqs, strays, user, happened,
                   disturbed>>

\* One of the three fails, or Redis carries it out and its answer is lost.
RecordFails(w) ==
    /\ task[w].pc \in {"renamed", "pushed", "trimmed"}
    /\ Happens
    /\ LET ch == task[w].job.channel
       IN  \/ UNCHANGED <<list, seqs, expiry>>
           \/ At(w, "renamed") /\ Push(ch) /\ UNCHANGED expiry
           \/ At(w, "pushed") /\ Trim(ch) /\ UNCHANGED <<seqs, expiry>>
           \/ At(w, "trimmed") /\ Expire(ch) /\ UNCHANGED <<list, seqs>>
    /\ uses' = uses \ Unaccounted(w)
    /\ Goto(w, "failing") /\ Disturb(w)
    /\ UNCHANGED <<row, name, number, adders, queue, now, strays, user>>

\* Defect: the value that was shown is not part of the saved entity.
SavedAsRead(w, status) == [task[w].row EXCEPT !.status = status]

\* The entity of task w, as the last assignments left it.
Saved(w, status) == [task[w].row EXCEPT !.value = task[w].value, !.status = status]

SaveCounter(w) ==
    /\ At(w, "recorded")
    /\ row' = [row EXCEPT ![task[w].job.counter] = Saved(w, "active")]
    /\ End(w)
    /\ UNCHANGED <<name, number, adders, queue, limiter, user, happened, uses, disturbed>>

SaveFails(w) ==
    /\ At(w, "recorded")
    /\ Happens
    /\ task' = [task EXCEPT ![w].pc = "failing", ![w].row = Saved(w, "active")]
    /\ Disturb(w)
    /\ UNCHANGED <<row, name, number, adders, queue, limiter, user, uses>>

\* The error path saves the entity, if it can, and the job fails: it has one attempt.
SaveError(w) ==
    /\ At(w, "failing")
    /\ \/ row' = [row EXCEPT ![task[w].job.counter] = [task[w].row EXCEPT !.status = "error"]]
       \/ UNCHANGED row
    /\ End(w)
    /\ UNCHANGED <<name, number, adders, queue, limiter, user, happened, uses, disturbed>>

Orders(S) == {s \in [1..Cardinality(S) -> S] : \A x \in S : \E i \in DOMAIN s : s[i] = x}

\* The process dies: each of its jobs is put back once.
Crash ==
    /\ Busy # {} /\ Happens
    /\ \E s \in Orders({w \in Busy : ~task[w].job.stalled}) :
          queue' = [i \in DOMAIN s |-> [task[s[i]].job EXCEPT !.stalled = TRUE]] \o queue
    /\ task' = [w \in Worker |-> Idle]
    /\ uses' = {u \in uses : u.kept}
    /\ disturbed' = disturbed \cup {task[w].job.counter : w \in Busy}
    /\ UNCHANGED <<row, name, number, adders, limiter, user>>

Expired(ch) == expiry[ch] # Never /\ expiry[ch] <= now + 1

\* Renamings whose entry goes with its list, although they are young.
Losing == {u \in uses : Expired(u.channel) /\ u.seq # Unrecorded /\ ~u.kept}
Young(u) == u.at + Window > now + 1

\* Time passes, and keys expire.
Tick ==
    /\ now < MaxTime
    /\ now' = now + 1
    /\ list' = [ch \in Channel |-> IF Expired(ch) THEN {} ELSE list[ch]]
    /\ expiry' = [ch \in Channel |-> IF Expired(ch) THEN Never ELSE expiry[ch]]
    /\ uses' = {u \in uses \ Losing : Young(u)}
    /\ strays' = {u \in strays \cup Losing : Young(u)}
    /\ UNCHANGED <<row, name, number, adders, queue, task, seqs, user, happened, disturbed>>

-------------------------------------------------------------------------------
Step(w) ==
    \/ Load(w) \/ GetMetricValue(w) \/ ReadFails(w) \/ CheckRateLimit(w)
    \/ SetChannelName(w) \/ RenameFails(w)
    \/ RecordPush(w) \/ RecordTrim(w) \/ RecordExpire(w) \/ RecordFails(w)
    \/ SaveCounter(w) \/ SaveFails(w) \/ SaveError(w)

Users ==
    \/ \E c \in Counter : ReadForEdit(c) \/ Remove(c) \/ (\E ch \in Channel : Create(c, ch))
    \/ \E ch \in Channel : SaveEdit(ch)

Adders == (\E h \in finding : FindCounters(h)) \/ (\E o \in todo : AddJob(o)) \/ JobsLost

Next ==
    \/ Users \/ Event \/ Adders \/ Skip \/ Crash \/ Tick
    \/ \E w \in Worker : Step(w)

Spec == Init /\ [][Next]_vars

-------------------------------------------------------------------------------
(* Properties.                                                             *)

\* checkRateLimit and recordRateLimit are apart (:107, :115), and jobs run at once:
\* within any window a channel is renamed Limit times and once more for every other
\* job in progress; and once more for every job whose entry went with its list, which
\* expired before EXPIRE (:261-263); but never more often (renamings whose record
\* failed or was cut off aside).
UsesOf(ch) == {u \in uses : u.channel = ch}
StraysOf(ch) == {u \in strays : u.channel = ch}
RenameBudget ==
    \A ch \in Channel :
       Cardinality(UsesOf(ch)) + Cardinality(StraysOf(ch)) <= Limit + 2 * Cardinality(Worker) - 1

\* The same as an abstract limiter.
Limiter == INSTANCE RateLimit WITH
    Channels <- Channel, Max <- Limit + Cardinality(Worker) - 1, Slack <- Cardinality(Worker),
    young <- [ch \in Channel |-> Cardinality(UsesOf(ch))],
    stray <- [ch \in Channel |-> Cardinality(StraysOf(ch))]
ImplementsRateLimit == Limiter!Spec

Settled == finding = {} /\ todo = {} /\ queue = <<>> /\ Busy = {} /\ edit = Nobody

\* With nothing left to do, a counter's channel shows its template and the guild's
\* number, and its row the same number (:114-119): unless the last job of the
\* counter was refused by the limiter, was not added, failed or read no number, ran
\* beside another one or was added for an earlier channel, or the channel belongs to
\* two counters.
ShownWhenSettled ==
    Settled => \A c \in Counter \ disturbed :
                  Exists(c) => /\ name[row[c].channel] = <<row[c].text, number>>
                               /\ row[c].value = number

===============================================================================
