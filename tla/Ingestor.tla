------------------------------- MODULE Ingestor -------------------------------
(***************************************************************************)
(* The ingestor worker's live path, apps/ingestor-worker/src/ingestor: the  *)
(* BullMQ consumer of queue ingestor-raw-events, the in-memory buffer that  *)
(* batches events, the flushes that insert the batches into ClickHouse, and *)
(* the process that holds buffer and flushes and loses them when it dies.   *)
(*                                                                         *)
(* One guild is modelled: the code handles the guilds of a batch one by one *)
(* and they share nothing but the batch.  Node runs callbacks one at a      *)
(* time, so an action is what happens between two awaits.  The buffer is a   *)
(* set: raw_events is a MergeTree table, which keeps no insertion order.    *)
(***************************************************************************)
EXTENDS Naturals, FiniteSets

CONSTANTS
    Events,        \* the jobs the bot service adds to the queue
    Kind,          \* what each of them is, one of Kinds
    User,          \* the Discord user of each
    NoEvent,       \* no job, or no voice session
    Flushes,       \* the flush() calls that may overlap (a bound)
    BatchSize,     \* config.ingestor.batchSize
    MaxAttempts,   \* MAX_INSERT_RETRIES
    MaxStarts,     \* times BullMQ starts one job (a bound)
    MaxEpochs,     \* incarnations of the process (a bound)
    MaxKills,      \* kills from outside while it serves (a bound)
    MaxCounted     \* messages the bot service counts between two SETs (a bound)

Kinds == {"message", "voice_join", "voice_leave", "unlisted", "no_channel"}

ASSUME IngestorAssumption ==
    /\ Kind \in [Events -> Kinds]
    /\ NoEvent \notin Events
    /\ BatchSize \in Nat \ {0}
    /\ MaxAttempts \in Nat \ {0}
    /\ MaxStarts \in Nat \ {0}
    /\ MaxEpochs \in Nat \ {0}
    /\ MaxKills \in Nat
    /\ MaxCounted \in Nat

Users == {User[e] : e \in Events}
EventOrNone == Events \cup {NoEvent}

\* One entry of the buffer: job `ev` in its `n`-th start, pushed by incarnation
\* `epoch`; `session` is the voice join whose minutes it carries.
Delivery == [ev : Events, n : 1..MaxStarts, epoch : 1..MaxEpochs,
             session : EventOrNone]

\* A row of raw_events: a delivery and the insert that wrote it.
Row == [d : Delivery, by : Flushes \X (1..MaxAttempts)]

Flight == [phase : {"idle", "inserting", "backoff", "counting", "publishing"},
           batch : SUBSET Delivery, attempt : 1..MaxAttempts, total : Nat, left : Nat]
NoFlight == [phase |-> "idle", batch |-> {}, attempt |-> 1, total |-> 0, left |-> 0]

VARIABLES
    \* Redis: BullMQ's state of each job, its starts, the voice join keys, the
    \* message-count key
    jobState, starts, voiceJoin, messageCount,
    \* ClickHouse: the rows inserted, and those of them that have left the table
    rawEvents, gone,
    \* the process: the consumer's job, the buffer and the running flushes
    proc, epoch, kills, pc, job, session, buffer, flight,
    \* history, read by no action but for a bound: what was pushed; what was inserted
    \* by an insert that reported an error; the INCRs of the key since its last SET; the
    \* message rows that left since the total of that SET was counted
    pushed, ambiguous, counted, left

redisVars == <<jobState, starts, voiceJoin, messageCount, counted, left>>
workerVars == <<pc, job, session>>
bufferVars == <<buffer, flight>>
procVars == <<proc, epoch, kills>>
historyVars == <<pushed, ambiguous>>
vars == <<jobState, starts, voiceJoin, messageCount, rawEvents, gone, proc, epoch,
          kills, pc, job, session, buffer, flight, pushed, ambiguous, counted, left>>

TypeOK ==
    /\ jobState \in [Events -> {"unsent", "waiting", "active", "completed", "failed"}]
    /\ starts \in [Events -> 0..MaxStarts]
    /\ voiceJoin \in [Users -> EventOrNone]
    /\ messageCount \in Nat /\ counted \in 0..MaxCounted /\ left \in Nat
    /\ rawEvents \subseteq Row /\ IsFiniteSet(rawEvents) /\ gone \subseteq rawEvents
    /\ proc \in {"up", "stopping", "dying", "down"}
    /\ epoch \in 1..MaxEpochs
    /\ kills \in 0..MaxKills
    /\ pc \in {"idle", "received", "enriched", "leaving", "ready", "returned"}
    /\ job \in EventOrNone
    /\ session \in EventOrNone
    /\ buffer \subseteq Delivery /\ IsFiniteSet(buffer)
    /\ flight \in [Flushes -> Flight]
    /\ \A f \in Flushes : IsFiniteSet(flight[f].batch)
    /\ pushed \subseteq Delivery
    /\ ambiguous \subseteq Delivery

Init ==
    /\ jobState = [e \in Events |-> "unsent"]
    /\ starts = [e \in Events |-> 0]
    /\ voiceJoin = [u \in Users |-> NoEvent]
    /\ messageCount = 0 /\ counted = 0 /\ left = 0
    /\ rawEvents = {} /\ gone = {}
    /\ proc = "up" /\ epoch = 1 /\ kills = 0
    /\ pc = "idle" /\ job = NoEvent /\ session = NoEvent
    /\ buffer = {}
    /\ flight = [f \in Flushes |-> NoFlight]
    /\ pushed = {} /\ ambiguous = {}

Running == proc \in {"up", "stopping"}

\* Everything pushed that the process still has in memory and no insert confirmed.
InMemory == buffer \cup UNION {flight[f].batch : f \in Flushes}
Inserted == {r.d : r \in rawEvents}
MessageRows == {r \in rawEvents \ gone : Kind[r.d.ev] = "message"}

-------------------------------------------------------------------------------
(* What happens outside the worker.                                        *)

\* The bot service adds a job.
Enqueue(e) ==
    /\ jobState[e] = "unsent"
    /\ jobState' = [jobState EXCEPT ![e] = "waiting"]
    /\ UNCHANGED <<starts, voiceJoin, messageCount, counted, left, rawEvents, gone,
                   procVars, workerVars, bufferVars, historyVars>>

\* The bot service sees a message, whether or not it adds a job for it, and
\* increments the message-count key.
CountMessage ==
    /\ counted < MaxCounted
    /\ messageCount' = messageCount + 1
    /\ counted' = counted + 1
    /\ UNCHANGED <<jobState, starts, voiceJoin, left, rawEvents, gone,
                   procVars, workerVars, bufferVars, historyVars>>

\* 24 hours after a join its key expires.
ExpireJoin(u) ==
    /\ voiceJoin[u] # NoEvent
    /\ voiceJoin' = [voiceJoin EXCEPT ![u] = NoEvent]
    /\ UNCHANGED <<jobState, starts, messageCount, counted, left, rawEvents, gone,
                   procVars, workerVars, bufferVars, historyVars>>

\* A row leaves the table: its retention is over, or its author's data are deleted.  Who
\* has counted it does not learn of that.
RowLeaves(r) ==
    /\ r \in rawEvents \ gone
    /\ gone' = gone \cup {r}
    /\ LET n == IF Kind[r.d.ev] = "message" THEN 1 ELSE 0 IN
       /\ left' = left + n
       /\ flight' = [f \in Flushes |-> [flight[f] EXCEPT
                                         !.left = IF flight[f].phase = "publishing" THEN @ + n ELSE @]]
    /\ UNCHANGED <<jobState, starts, voiceJoin, messageCount, counted, rawEvents,
                   procVars, workerVars, buffer, historyVars>>

-------------------------------------------------------------------------------
(* IngestorQueueConsumer.processJob, concurrency 1.                        *)

TakeJob(e) ==
    /\ proc = "up" /\ pc = "idle"
    /\ jobState[e] = "waiting" /\ starts[e] < MaxStarts
    /\ jobState' = [jobState EXCEPT ![e] = "active"]
    /\ starts' = [starts EXCEPT ![e] = @ + 1]
    /\ pc' = "received" /\ job' = e
    /\ UNCHANGED <<voiceJoin, messageCount, counted, left, rawEvents, gone, procVars, session, bufferVars, historyVars>>

\* The job leaves the worker: BullMQ records `outcome` for it.
LeaveWorker(outcome) ==
    /\ jobState' = [jobState EXCEPT ![job] = outcome]
    /\ pc' = "idle" /\ job' = NoEvent /\ session' = NoEvent
    /\ UNCHANGED <<starts, messageCount, counted, left, rawEvents, gone, procVars, bufferVars, historyVars>>

\* processJob throws: an eventType outside INGESTOR_EVENT_TYPES fails the DTO's
\* validation; a PostgreSQL or Redis call fails.  No queue sets `attempts`, so
\* the job stays failed unless an administrator has it retried.
JobThrows ==
    /\ Running
    /\ \/ pc = "received" /\ Kind[job] # "no_channel"
       \/ pc = "enriched" /\ Kind[job] # "message"
       \/ pc = "leaving"
    /\ LeaveWorker("failed")
    /\ UNCHANGED voiceJoin

\* validatePayloadByEventType refuses the payload: the job returns, and counts as done.
DropInvalidPayload ==
    /\ Running /\ pc = "received"
    /\ Kind[job] = "no_channel"
    /\ pc' = "returned"
    /\ UNCHANGED <<redisVars, rawEvents, gone, procVars, job, session,
                   bufferVars, historyVars>>

\* The guild's settings are read from PostgreSQL.
Enrich ==
    /\ Running /\ pc = "received"
    /\ Kind[job] \notin {"unlisted", "no_channel"}
    /\ pc' = "enriched"
    /\ UNCHANGED <<redisVars, rawEvents, gone, procVars, job, session,
                   bufferVars, historyVars>>

\* VoiceSessionService.recordJoin; nothing is pushed for a join.
RecordJoin ==
    /\ Running /\ pc = "enriched" /\ Kind[job] = "voice_join"
    /\ voiceJoin' = [voiceJoin EXCEPT ![User[job]] = job]
    /\ pc' = "returned"
    /\ UNCHANGED <<jobState, starts, messageCount, counted, left, rawEvents, gone, procVars,
                   job, session, bufferVars, historyVars>>

\* VoiceSessionService.recordLeave: GET ...
ReadJoin ==
    /\ Running /\ pc = "enriched" /\ Kind[job] = "voice_leave"
    /\ session' = voiceJoin[User[job]]
    /\ pc' = "leaving"
    /\ UNCHANGED <<redisVars, rawEvents, gone, procVars, job, bufferVars, historyVars>>

\* A defect to check the properties against: the key outlives the leave.
KeepJoin ==
    /\ Running /\ pc = "leaving"
    /\ pc' = "ready"
    /\ UNCHANGED <<redisVars, rawEvents, gone, procVars,
                   job, session, bufferVars, historyVars>>

\* ... and then DEL.
DeleteJoin ==
    /\ Running /\ pc = "leaving"
    /\ voiceJoin' = [voiceJoin EXCEPT ![User[job]] = NoEvent]
    /\ pc' = "ready"
    /\ UNCHANGED <<jobState, starts, messageCount, counted, left, rawEvents, gone, procVars,
                   job, session, bufferVars, historyVars>>

-------------------------------------------------------------------------------
(* ClickHouseIngestorService: pushEvent, the timer, flush.                  *)

\* Defect: the batch is copied out of the buffer, not taken.
FlushCopies(f, batch) ==
    /\ flight[f].phase = "idle"
    /\ flight' = [flight EXCEPT ![f] = [phase |-> "inserting", batch |-> batch,
                                       attempt |-> 1, total |-> 0, left |-> 0]]
    /\ buffer' = batch

\* flush() up to its first await: it takes the whole buffer.
BeginFlush(f, batch) ==
    /\ flight[f].phase = "idle"
    /\ flight' = [flight EXCEPT ![f] = [phase |-> "inserting", batch |-> batch,
                                       attempt |-> 1, total |-> 0, left |-> 0]]
    /\ buffer' = {}

Delivered == [ev |-> job, n |-> starts[job], epoch |-> epoch,
              session |-> session]

\* pushEvent flushes a full buffer, and any buffer not flushed for
\* batchIntervalMs: time is not modelled, so that may be now.  The flush is not
\* awaited, so the job is done before its event is stored.
PushEvent ==
    /\ Running
    /\ pc = "ready" \/ (pc = "enriched" /\ Kind[job] = "message")
    /\ pushed' = pushed \cup {Delivered}
    /\ \/ \E f \in Flushes : BeginFlush(f, buffer \cup {Delivered})
       \/ /\ Cardinality(buffer \cup {Delivered}) < BatchSize
          /\ buffer' = buffer \cup {Delivered}
          /\ UNCHANGED flight
    /\ pc' = "returned"
    /\ UNCHANGED <<redisVars, rawEvents, gone, procVars, job, session, ambiguous>>

\* Defect: the timer flushes only a full buffer.
TimerWaitsForFullBatch(f) ==
    /\ proc = "up" /\ Cardinality(buffer) >= BatchSize
    /\ BeginFlush(f, buffer)
    /\ UNCHANGED <<redisVars, rawEvents, gone, procVars, workerVars, historyVars>>

OnTimer(f) ==
    /\ proc = "up" /\ buffer # {}
    /\ BeginFlush(f, buffer)
    /\ UNCHANGED <<redisVars, rawEvents, gone, procVars, workerVars, historyVars>>

RowsOf(f) == {[d |-> d, by |-> <<f, flight[f].attempt>>] : d \in flight[f].batch}
CountsMessages(f) == \E d \in flight[f].batch : Kind[d.ev] = "message"

\* The insert is confirmed.  A batch with a message goes on to count.
InsertOk(f) ==
    /\ Running /\ flight[f].phase = "inserting"
    /\ rawEvents' = rawEvents \cup RowsOf(f)
    /\ flight' = [flight EXCEPT ![f] =
                     IF CountsMessages(f) THEN [@ EXCEPT !.phase = "counting", !.batch = {}]
                                          ELSE NoFlight]
    /\ UNCHANGED <<redisVars, gone, procVars, workerVars, buffer, historyVars>>

\* The insert reports an error: ClickHouse may have applied it all the same.
InsertReportsError(f) ==
    \/ UNCHANGED <<rawEvents, ambiguous>>
    \/ /\ rawEvents' = rawEvents \cup RowsOf(f)
       /\ ambiguous' = ambiguous \cup flight[f].batch

\* Defect: one attempt too many.
RetriesOnceMore(f) ==
    /\ Running /\ flight[f].phase = "inserting"
    /\ flight[f].attempt <= MaxAttempts
    /\ InsertReportsError(f)
    /\ flight' = [flight EXCEPT ![f].phase = "backoff"]
    /\ UNCHANGED <<redisVars, gone, procVars, workerVars, buffer, pushed>>

\* Defect: the error ends the flush.
ErrorEndsFlush(f) ==
    /\ Running /\ flight[f].phase = "inserting"
    /\ flight[f].attempt < MaxAttempts
    /\ InsertReportsError(f)
    /\ flight' = [flight EXCEPT ![f] = NoFlight]
    /\ UNCHANGED <<redisVars, gone, procVars, workerVars, buffer, pushed>>

InsertFails(f) ==
    /\ Running /\ flight[f].phase = "inserting"
    /\ flight[f].attempt < MaxAttempts
    /\ InsertReportsError(f)
    /\ flight' = [flight EXCEPT ![f].phase = "backoff"]
    /\ UNCHANGED <<redisVars, gone, procVars, workerVars, buffer, pushed>>

\* The back-off delay has passed.
Retry(f) ==
    /\ Running /\ flight[f].phase = "backoff"
    /\ flight' = [flight EXCEPT ![f].phase = "inserting", ![f].attempt = @ + 1]
    /\ UNCHANGED <<redisVars, rawEvents, gone, procVars, workerVars, buffer, historyVars>>

\* The last attempt fails: the batch returns to the buffer and flush() throws.
\* Nobody awaits it and no handler is installed, so Node ends the process.
GiveUp(f) ==
    /\ Running /\ flight[f].phase = "inserting"
    /\ flight[f].attempt = MaxAttempts
    /\ InsertReportsError(f)
    /\ flight' = [flight EXCEPT ![f] = NoFlight]
    /\ buffer' = buffer \cup flight[f].batch
    /\ proc' = "dying"
    /\ UNCHANGED <<redisVars, gone, epoch, kills, workerVars, pushed>>

\* Defect: the total is advanced by the batch size instead of counted.
CountIncrements(f) ==
    /\ Running /\ flight[f].phase = "counting"
    /\ flight' = [flight EXCEPT ![f].phase = "publishing",
                                ![f].total = messageCount + BatchSize]
    /\ UNCHANGED <<redisVars, rawEvents, gone, procVars, workerVars, buffer, historyVars>>

\* getTotalMessagesCount answers with the rows of the table, or 0 if it fails.
CountRows(f) ==
    /\ Running /\ flight[f].phase = "counting"
    /\ \E total \in {Cardinality(MessageRows), 0} :
          flight' = [flight EXCEPT ![f].phase = "publishing", ![f].total = total]
    /\ UNCHANGED <<redisVars, rawEvents, gone, procVars, workerVars, buffer, historyVars>>

\* SET of the message-count key; its error is swallowed.
PublishTotal(f) ==
    /\ Running /\ flight[f].phase = "publishing"
    /\ \/ messageCount' = flight[f].total /\ counted' = 0 /\ left' = flight[f].left
       \/ UNCHANGED <<messageCount, counted, left>>
    /\ flight' = [flight EXCEPT ![f] = NoFlight]
    /\ UNCHANGED <<jobState, starts, voiceJoin, rawEvents, gone, procVars,
                   workerVars, buffer, historyVars>>

-------------------------------------------------------------------------------
(* BullMQ, and the life of the process.                                     *)

CompleteJob ==
    /\ Running /\ pc = "returned"
    /\ LeaveWorker("completed")
    /\ UNCHANGED voiceJoin

\* BullMQ cannot record the completion: the job stays active without a worker.
CompletionLost ==
    /\ Running /\ pc = "returned"
    /\ LeaveWorker("active")
    /\ UNCHANGED voiceJoin

\* The lock of an abandoned job expires: it is offered again, but fails if it had
\* stalled before (maxStalledCount is 1).
RecoverStalled(e) ==
    /\ proc = "up" /\ jobState[e] = "active" /\ job # e
    /\ \E outcome \in {"waiting"} \cup (IF starts[e] > 1 THEN {"failed"} ELSE {}) :
          jobState' = [jobState EXCEPT ![e] = outcome]
    /\ UNCHANGED <<starts, voiceJoin, messageCount, counted, left, rawEvents, gone, procVars,
                   workerVars, bufferVars, historyVars>>

\* retryFailed: an administrator has the failed jobs of the queue offered again.
RetryFailed(e) ==
    /\ jobState[e] = "failed"
    /\ jobState' = [jobState EXCEPT ![e] = "waiting"]
    /\ UNCHANGED <<starts, voiceJoin, messageCount, counted, left, rawEvents, gone, procVars,
                   workerVars, bufferVars, historyVars>>

\* SIGTERM runs the onModuleDestroy hooks: the timer stops and the buffer is
\* flushed, the worker takes no further job but finishes the one it has.
Stop ==
    /\ proc = "up"
    /\ proc' = "stopping"
    /\ \/ buffer = {} /\ UNCHANGED bufferVars
       \/ buffer # {} /\ \E f \in Flushes : BeginFlush(f, buffer)
    /\ UNCHANGED <<redisVars, rawEvents, gone, epoch, kills, workerVars,
                   historyVars>>

\* The process ends, at the latest when the orchestrator kills it.
Die ==
    /\ \/ proc \in {"stopping", "dying"} /\ UNCHANGED kills
       \/ proc = "up" /\ kills < MaxKills /\ kills' = kills + 1
    /\ proc' = "down"
    /\ pc' = "idle" /\ job' = NoEvent /\ session' = NoEvent
    /\ buffer' = {}
    /\ flight' = [f \in Flushes |-> NoFlight]
    /\ UNCHANGED <<redisVars, rawEvents, gone, epoch, historyVars>>

Restart ==
    /\ proc = "down" /\ epoch < MaxEpochs
    /\ proc' = "up" /\ epoch' = epoch + 1
    /\ UNCHANGED <<redisVars, rawEvents, gone, kills, workerVars, bufferVars,
                   historyVars>>

-------------------------------------------------------------------------------
Consume ==
    \/ \E e \in Events : TakeJob(e)
    \/ JobThrows \/ DropInvalidPayload \/ Enrich \/ RecordJoin \/ ReadJoin
    \/ DeleteJoin \/ PushEvent \/ CompleteJob \/ CompletionLost

FlushStep(f) ==
    \/ OnTimer(f) \/ InsertOk(f) \/ InsertFails(f) \/ Retry(f) \/ GiveUp(f)
    \/ CountRows(f) \/ PublishTotal(f)

Next ==
    \/ \E e \in Events : Enqueue(e) \/ RecoverStalled(e) \/ RetryFailed(e)
    \/ CountMessage
    \/ \E r \in rawEvents : RowLeaves(r)
    \/ \E u \in Users : ExpireJoin(u)
    \/ Consume
    \/ \E f \in Flushes : FlushStep(f)
    \/ Stop \/ Die \/ Restart

Spec == Init /\ [][Next]_vars

\* setInterval fires, an HTTP call to ClickHouse or Redis answers or times out,
\* sleep() ends.  Nothing else is fair: jobs need not come, nobody need restart
\* a process, and a particular answer is never promised.
Fairness == \A f \in Flushes : WF_vars(FlushStep(f))
FairSpec == Spec /\ Fairness

-------------------------------------------------------------------------------
(* Properties.                                                             *)

\* flush() hands a batch over: a delivery is in the buffer or in one flush, and
\* once stored it is in neither, unless its insert reported an error (lines
\* 70-127; pushEvent, the timer and the shutdown hook all start flushes).
SingleOwner ==
    /\ \A f \in Flushes : buffer \cap flight[f].batch = {}
    /\ \A f, g \in Flushes : f # g => flight[f].batch \cap flight[g].batch = {}
    /\ InMemory \cap Inserted \subseteq ambiguous

\* Two rows of one delivery only come from an insert that reported an error:
\* overlapping flushes and retries duplicate nothing else.
NoDuplicateRows ==
    \A r, s \in rawEvents : r.d = s.d /\ r # s => r.d \in ambiguous

\* As long as the process lives, whatever it accepted is in memory or stored,
\* through every overlap of pushes, timer, flushes, retries and shutdown.
NothingLostWhileRunning ==
    proc # "down" => \A d \in pushed : d.epoch = epoch => d \in InMemory \cup Inserted

\* The minutes of one voice join are credited no more often than BullMQ delivered
\* the join, whatever leaves are redelivered: recordLeave reads the key and then
\* deletes it (voice-session.service.ts:24-38).
VoiceSessionCreditedOnce ==
    \A e \in Events : Cardinality({d \in pushed : d.session = e}) <= starts[e]

\* The message-count key is ahead of the table by no more than the INCRs since its last
\* SET and the rows that left since the total of that SET was counted, and a total to be
\* published by no more than the rows that left meanwhile, however the counts and the SETs
\* of overlapping flushes, the bot service's INCRs and the rows' end are ordered.
CountNeverAhead ==
    /\ messageCount <= Cardinality(MessageRows) + counted + left
    /\ \A f \in Flushes : flight[f].total <= Cardinality(MessageRows) + flight[f].left

\* While it serves, the worker stores every buffered event or ends: no event
\* waits in the buffer for ever for others to fill the batch.
Drains ==
    \A e \in Events :
        (proc = "up" /\ \E d \in InMemory : d.ev = e)
            ~> (proc # "up" \/ ~ \E d \in InMemory : d.ev = e)

\* The worker is a sink that loses what it accepted only by losing its memory.
Sink == INSTANCE BufferedSink WITH
    Items <- Delivery, accepted <- pushed, held <- InMemory, stored <- Inserted
ImplementsSink == Sink!Spec

===============================================================================
