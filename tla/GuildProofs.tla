------------------------------ MODULE GuildProofs ------------------------------
(***************************************************************************)
(* Proofs about the row of a guild: what the gateway handlers and the syncs   *)
(* make of its presence (GuildPresence), for any number of handlers, moves    *)
(* and faults; and the import of its history (HistorySync), for any channels, *)
(* messages, page size, scan depth and number of jobs: the status a run       *)
(* leaves, what it inserts, and that what it is to import is stored when it   *)
(* says so.                                                                 *)
(***************************************************************************)
EXTENDS GuildPresence, HistorySync, SequenceTheorems, FiniteSetTheorems,
        WellFoundedInduction, TLAPS

USE PresenceAssumption, HistoryAssumption


-------------------------------------------------------------------------------
(* Types.                                                                  *)

LEMMA AfterTyped ==
    /\ \A update \in DOMAIN After : After[update] \in Phases /\ update \in Phases
    /\ DOMAIN After = {"create_update", "delete_update", "sync_update", "request_update"}
BY DEF After, Phases

LEMMA IdleTyped == Idle \in Task /\ Present \in Row
BY DEF Idle, Present, Task, Row, Phases

LEMMA GotoTyped ==
    ASSUME TypeOK, NEW t \in Tasks, NEW phase \in Phases, Goto(t, phase) \/ Continue(t, phase)
    PROVE  task' \in [Tasks -> Task]
<1>1. [task[t] EXCEPT !.pc = phase] \in Task
    BY DEF TypeOK, Task
<1>2. [Idle EXCEPT !.pc = phase] \in Task
    BY IdleTyped DEF Task
<1> QED
    BY <1>1, <1>2 DEF Goto, Continue, TypeOK

\* A save of a typed copy leaves a typed task.
LEMMA SaveTyped ==
    ASSUME TypeOK, NEW t \in Tasks, NEW entity \in Row, NEW update \in DOMAIN After,
           Save(t, entity, update)
    PROVE  task' \in [Tasks -> Task]
<1> DEFINE changed == {c \in DOMAIN row : entity[c] # row[c]}
<1>1. changed \subseteq {"inGuild", "status"}
    BY DEF TypeOK, Row
<1>2. [Idle EXCEPT !.pc = update, !.row = entity, !.changed = changed] \in Task
    BY <1>1, IdleTyped, AfterTyped DEF Task
<1>3. CASE changed = {}
    <2>1. Continue(t, After[update])
        BY <1>3 DEF Save
    <2> QED
        BY <2>1, AfterTyped, GotoTyped
<1>4. CASE changed # {}
    BY <1>2, <1>4 DEF Save, TypeOK
<1> QED
    BY <1>3, <1>4

\* A task that begins is typed.
LEMMA StartTyped ==
    ASSUME TypeOK, NEW t \in Tasks, NEW phase \in Phases, Start(t, phase)
    PROVE  task' \in [Tasks -> Task]
<1>1. [Idle EXCEPT !.pc = phase] \in Task
    BY IdleTyped DEF Task
<1> QED
    BY <1>1 DEF Start, TypeOK

LEMMA WithCopy ==
    ASSUME NEW x \in Task, NEW phase \in Phases, NEW entity \in Row
    PROVE  [[x EXCEPT !.pc = phase] EXCEPT !.row = entity] \in Task
BY DEF Task

\* So is one that takes a copy of the row.
LEMMA CopyTyped ==
    ASSUME TypeOK, NEW t \in Tasks, NEW phase \in Phases, NEW entity \in Row,
           \/ task' = [task EXCEPT ![t] = [Idle EXCEPT !.pc = phase, !.row = entity]]
           \/ task' = [task EXCEPT ![t].pc = phase, ![t].row = entity]
    PROVE  task' \in [Tasks -> Task]
<1>1. [Idle EXCEPT !.pc = phase, !.row = entity] \in Task
    BY IdleTyped, WithCopy
<1>2. [[task[t] EXCEPT !.pc = phase] EXCEPT !.row = entity] \in Task
    <2>1. task[t] \in Task
        BY DEF TypeOK
    <2> QED
        BY <2>1, WithCopy
<1> QED
    BY <1>1, <1>2 DEF TypeOK

\* Every step keeps the types.
LEMMA TypingStep == TypeOK /\ [Next]_vars => TypeOK'
<1> SUFFICES ASSUME TypeOK, [Next]_vars PROVE TypeOK'
    OBVIOUS
<1>1. CASE Move
    BY <1>1 DEF Move, TypeOK
<1>2. CASE Deliver
    <2>1. PICK t \in Shard : Start(t, IF Head(events) THEN "create" ELSE "delete")
        BY <1>2 DEF Deliver
    <2>2. task' \in [Tasks -> Task]
        BY <2>1, StartTyped DEF Tasks, Phases
    <2>3. events' \in Seq(BOOLEAN)
        <3>1. events \in Seq(BOOLEAN) /\ events # <<>> /\ events' = Tail(events)
            BY <1>2 DEF Deliver, TypeOK
        <3> QED
            BY <3>1, HeadTailProperties
    <2> QED
        BY <1>2, <2>2, <2>3 DEF Deliver, TypeOK
<1>3. CASE StartSync \/ StartReconcile
    <2>1. task' \in [Tasks -> Task]
        BY <1>3, StartTyped DEF StartSync, StartReconcile, Tasks, Phases
    <2> QED
        BY <1>3, <2>1 DEF StartSync, StartReconcile, Rare, discordVars, TypeOK
<1>4. CASE ClaimOwner \/ ForceLeave
    <2>1. Sync \in Tasks /\ "request_save" \in Phases
        BY DEF Tasks, Phases
    <2>2. row \in Row /\ [row EXCEPT !.inGuild = FALSE] \in Row
        BY DEF TypeOK, Row
    <2>3. task' \in [Tasks -> Task]
        BY <1>4, <2>1, <2>2, CopyTyped DEF ClaimOwner, ForceLeave
    <2> QED
        BY <1>4, <2>3 DEF ClaimOwner, ForceLeave, Rare, discordVars, TypeOK
<1>5. ASSUME NEW t \in Tasks, Step(t) PROVE TypeOK'
    <2>1. task[t].row \in Row /\ row \in Row
        BY DEF TypeOK, Task
    <2>2. CASE FindOnCreate(t) \/ ReadRow(t)
        <3>1. task' \in [Tasks -> Task]
            BY <2>1, <2>2, CopyTyped DEF FindOnCreate, ReadRow, Phases
        <3> QED
            BY <2>2, <3>1 DEF FindOnCreate, ReadRow, discordVars, TypeOK
    <2>3. CASE SaveOnCreate(t) \/ SaveOnDelete(t) \/ SaveSynced(t) \/ SaveRequest(t)
        <3>1. /\ [task[t].row EXCEPT !.inGuild = TRUE] \in Row
              /\ [inGuild |-> FALSE, status |-> "inactive"] \in Row
            BY <2>1 DEF Row
        <3>2. task' \in [Tasks -> Task]
            BY <2>1, <2>3, <3>1, SaveTyped, AfterTyped
               DEF SaveOnCreate, SaveOnDelete, SaveSynced, SaveRequest
        <3> QED
            BY <2>3, <3>2
               DEF SaveOnCreate, SaveOnDelete, SaveSynced, SaveRequest, discordVars, TypeOK
    <2>4. CASE Update(t)
        <3>1. row' \in Row
            BY <2>1, <2>4 DEF Update, Row
        <3>2. task' \in [Tasks -> Task]
            BY <2>4, AfterTyped, GotoTyped DEF Update
        <3> QED
            BY <2>4, <3>1, <3>2 DEF Update, discordVars, TypeOK
    <2>5. CASE TakeLock(t) \/ FetchGuild(t)
        <3>1. task' \in [Tasks -> Task]
            BY <2>5, GotoTyped DEF TakeLock, FetchGuild, Phases
        <3> QED
            BY <2>5, <3>1 DEF TakeLock, FetchGuild, discordVars, TypeOK
    <2>6. CASE RefuseSync(t) \/ ReleaseLock(t)
        <3>1. task' \in [Tasks -> Task]
            BY <2>6, IdleTyped DEF RefuseSync, ReleaseLock, End, TypeOK
        <3> QED
            BY <2>6, <3>1 DEF RefuseSync, ReleaseLock, discordVars, TypeOK
    <2>7. CASE t = Recon /\ (ListGuilds \/ Compare)
        <3>1. CASE ListGuilds
            <4>1. [[task[Recon] EXCEPT !.pc = "compare"] EXCEPT !.listed = member] \in Task
                BY <2>7 DEF TypeOK, Task, Phases
            <4> QED
                BY <2>7, <3>1, <4>1 DEF ListGuilds, discordVars, TypeOK
        <3>2. CASE Compare
            <4>1. task' \in [Tasks -> Task]
                BY <2>7, <3>2, GotoTyped, IdleTyped DEF Compare, End, Phases, TypeOK
            <4> QED
                BY <3>2, <4>1 DEF Compare, discordVars, TypeOK
        <3> QED
            BY <2>7, <3>1, <3>2
    <2> QED
        BY <1>5, <2>2, <2>3, <2>4, <2>5, <2>6, <2>7 DEF Step
<1>6. CASE ListRateLimited
    <2>1. Recon \in Tasks
        BY DEF Tasks
    <2>2. [[task[Recon] EXCEPT !.pc = "compare"] EXCEPT !.listed = FALSE] \in Task
        BY <2>1 DEF TypeOK, Task, Phases
    <2> QED
        BY <1>6, <2>1, <2>2 DEF ListRateLimited, Rare, discordVars, TypeOK
<1>7. CASE LoseEvent
    <2>1. events' \in Seq(BOOLEAN)
        BY <1>7, HeadTailProperties DEF LoseEvent, TypeOK
    <2> QED
        BY <1>7, <2>1 DEF LoseEvent, Rare, TypeOK
<1>8. CASE ExpireLock
    <2>1. rare' \in 0..MaxRare
        BY <1>8 DEF ExpireLock, Rare, TypeOK
    <2>2. expired' \in BOOLEAN
        BY <1>8, Zenon DEF ExpireLock, TypeOK
    <2> QED
        BY <1>8, <2>1, <2>2 DEF ExpireLock, discordVars, TypeOK
<1>9. ASSUME NEW t \in Tasks, Abort(t) PROVE TypeOK'
    BY <1>9, IdleTyped DEF Abort, End, Rare, discordVars, TypeOK
<1>10. CASE UNCHANGED vars
    BY <1>10 DEF vars, TypeOK
<1> QED
    BY <1>1, <1>2, <1>3, <1>4, <1>5, <1>6, <1>7, <1>8, <1>9, <1>10 DEF Next

LEMMA TypingInit == Init => TypeOK
<1> SUFFICES ASSUME Init PROVE TypeOK
    OBVIOUS
<1>1. row \in Row /\ task \in [Tasks -> Task]
    BY IdleTyped DEF Init
<1>2. member \in BOOLEAN /\ expired \in BOOLEAN /\ lock \in Tasks \cup {NoTask}
    BY Zenon DEF Init
<1>3. moves \in 0..MaxMoves /\ rare \in 0..MaxRare /\ events \in Seq(BOOLEAN)
    BY DEF Init
<1> QED
    BY <1>1, <1>2, <1>3 DEF TypeOK

\* Every state of the guild's presence has its type (TypeOK of GuildPresence).
THEOREM PresenceTypes == Spec => []TypeOK
BY TypingInit, TypingStep, PTL DEF Spec

-------------------------------------------------------------------------------
(* The lock.                                                               *)

\* Who works under the lock is the one who set it, as long as none expired under its
\* holder.
LockedByHolder == ~expired => \A t \in Tasks : Holding(t) => lock = t

LEMMA LockInit == Init => LockedByHolder
BY DEF Init, LockedByHolder, Holding, Idle

\* A step that lets nobody begin to hold and leaves the lock alone.
LEMMA NoNewHolder ==
    ASSUME LockedByHolder, UNCHANGED <<lock, expired>>,
           \A s \in Tasks : Holding(s)' => Holding(s)
    PROVE  LockedByHolder'
BY DEF LockedByHolder, Holding

\* A save begins to hold only if it ends what holds already.
LEMMA SaveHolds ==
    ASSUME TypeOK, NEW t \in Tasks, NEW entity, NEW update \in DOMAIN After,
           Save(t, entity, update), update = "sync_update" => Holding(t)
    PROVE  \A s \in Tasks : Holding(s)' => Holding(s)
<1>1. \A s \in Tasks \ {t} : task'[s] = task[s]
    BY DEF Save, Continue, TypeOK
<1>2. task'[t].pc \in {update, After[update]}
    <2>1. task \in [Tasks -> Task] /\ task = [s \in Tasks |-> task[s]]
        BY DEF TypeOK
    <2>2. CASE Continue(t, After[update])
        BY <2>1, <2>2 DEF Continue, Idle
    <2>3. CASE ~Continue(t, After[update])
        BY <2>1, <2>3 DEF Save, Idle
    <2> QED
        BY <2>2, <2>3
<1>3. update # "sync_update" => After[update] \in {"sync", "idle"}
    BY DEF After
<1>4. update # "sync_update" => ~Holding(t)'
    BY <1>2, <1>3, AfterTyped DEF Holding
<1> QED
    BY <1>1, <1>4 DEF Holding

\* While the lock is held as it should be, no step lets two syncs work at once.
LEMMA LockStep == TypeOK /\ LockedByHolder /\ [Next]_vars => LockedByHolder'
<1> SUFFICES ASSUME TypeOK, LockedByHolder, [Next]_vars PROVE LockedByHolder'
    OBVIOUS
<1>1. CASE Move \/ LoseEvent
    BY <1>1, NoNewHolder DEF Move, LoseEvent, Holding
<1>2. CASE Deliver
    <2>1. PICK t \in Shard : Start(t, IF Head(events) THEN "create" ELSE "delete")
        BY <1>2 DEF Deliver
    <2>2. \A s \in Tasks : Holding(s)' => Holding(s)
        BY <2>1 DEF Start, Holding, Idle, Tasks, TypeOK
    <2> QED
        BY <1>2, <2>2, NoNewHolder DEF Deliver
<1>3. CASE StartSync \/ StartReconcile \/ ClaimOwner \/ ForceLeave \/ ListRateLimited
    <2>1. \A s \in Tasks : Holding(s)' => Holding(s)
        <3>1. CASE StartSync
            BY <3>1 DEF StartSync, Start, Holding, Idle, TypeOK
        <3>2. CASE StartReconcile
            BY <3>2 DEF StartReconcile, Start, Holding, Idle, TypeOK
        <3>3. CASE ClaimOwner
            BY <3>3 DEF ClaimOwner, Holding, Idle, TypeOK
        <3>4. CASE ForceLeave
            BY <3>4 DEF ForceLeave, Holding, Idle, TypeOK
        <3>5. CASE ListRateLimited
            <4>1. Recon \in Tasks
                BY DEF Tasks
            <4>2. task'[Recon].pc = "compare"
                BY <3>5, <4>1 DEF ListRateLimited, TypeOK, Task
            <4>3. \A s \in Tasks \ {Recon} : task'[s] = task[s]
                BY <3>5, <4>1 DEF ListRateLimited, TypeOK
            <4> QED
                BY <4>2, <4>3 DEF Holding
        <3> QED
            BY <1>3, <3>1, <3>2, <3>3, <3>4, <3>5
    <2> QED
        BY <1>3, <2>1, NoNewHolder
           DEF StartSync, StartReconcile, ClaimOwner, ForceLeave, ListRateLimited
<1>4. ASSUME NEW t \in Tasks, Step(t) PROVE LockedByHolder'
    <2>1. CASE FindOnCreate(t) \/ ReadRow(t) \/ RefuseSync(t)
        <3>1. \A s \in Tasks : Holding(s)' => Holding(s)
            <4>1. task'[t].pc \in {"create_save", "sync_lock", "idle"}
                BY <2>1 DEF FindOnCreate, ReadRow, RefuseSync, End, Idle, TypeOK, Task
            <4>2. \A s \in Tasks \ {t} : task'[s] = task[s]
                BY <2>1 DEF FindOnCreate, ReadRow, RefuseSync, End, TypeOK
            <4> QED
                BY <4>1, <4>2 DEF Holding
        <3> QED
            BY <2>1, <3>1, NoNewHolder DEF FindOnCreate, ReadRow, RefuseSync
    <2>2. CASE SaveOnCreate(t) \/ SaveOnDelete(t) \/ SaveSynced(t) \/ SaveRequest(t)
        <3>1. \A s \in Tasks : Holding(s)' => Holding(s)
            <4>1. SaveSynced(t) => Holding(t)
                BY DEF SaveSynced, At, Holding
            <4>2. {"create_update", "delete_update", "sync_update", "request_update"}
                     \subseteq DOMAIN After
                BY AfterTyped
            <4>3. CASE SaveOnCreate(t)
                BY <4>2, <4>3, SaveHolds DEF SaveOnCreate
            <4>4. CASE SaveOnDelete(t)
                BY <4>2, <4>4, SaveHolds DEF SaveOnDelete
            <4>5. CASE SaveSynced(t)
                BY <4>1, <4>2, <4>5, SaveHolds DEF SaveSynced
            <4>6. CASE SaveRequest(t)
                BY <4>2, <4>6, SaveHolds DEF SaveRequest
            <4> QED
                BY <2>2, <4>3, <4>4, <4>5, <4>6
        <3> QED
            BY <2>2, <3>1, NoNewHolder DEF SaveOnCreate, SaveOnDelete, SaveSynced, SaveRequest
    <2>3. CASE Update(t)
        <3>1. \A s \in Tasks : Holding(s)' => Holding(s)
            <4>1. Holding(t)' => Holding(t)
                BY <2>3 DEF Update, Continue, After, Holding, Idle, TypeOK
            <4>2. \A s \in Tasks \ {t} : task'[s] = task[s]
                BY <2>3 DEF Update, Continue, TypeOK
            <4> QED
                BY <4>1, <4>2 DEF Holding
        <3> QED
            BY <2>3, <3>1, NoNewHolder DEF Update
    <2>4. CASE TakeLock(t)
        <3>1. ~expired => \A s \in Tasks : ~Holding(s)
            BY <2>4 DEF TakeLock, LockedByHolder
        <3>2. \A s \in Tasks \ {t} : task'[s] = task[s]
            BY <2>4 DEF TakeLock, Goto, TypeOK
        <3>3. ~expired => \A s \in Tasks \ {t} : ~Holding(s)'
            BY <3>1, <3>2 DEF Holding
        <3> QED
            BY <2>4, <3>3 DEF TakeLock, LockedByHolder
    <2>5. CASE FetchGuild(t)
        <3>1. Holding(t)
            BY <2>5 DEF FetchGuild, At, Holding
        <3>2. \A s \in Tasks \ {t} : task'[s] = task[s]
            BY <2>5 DEF FetchGuild, Goto, Continue, TypeOK
        <3>3. \A s \in Tasks : Holding(s)' => Holding(s)
            BY <3>1, <3>2 DEF Holding
        <3> QED
            BY <2>5, <3>3, NoNewHolder DEF FetchGuild
    <2>6. CASE ReleaseLock(t)
        <3>1. Holding(t) /\ ~Holding(t)'
            BY <2>6 DEF ReleaseLock, At, End, Idle, Holding, TypeOK
        <3>2. \A s \in Tasks \ {t} : task'[s] = task[s]
            BY <2>6 DEF ReleaseLock, End, TypeOK
        <3>3. ~expired => \A s \in Tasks \ {t} : ~Holding(s)
            BY <3>1 DEF LockedByHolder
        <3>4. ~expired => \A s \in Tasks : ~Holding(s)'
            BY <3>1, <3>2, <3>3 DEF Holding
        <3> QED
            BY <2>6, <3>4 DEF ReleaseLock, LockedByHolder
    <2>7. CASE t = Recon /\ (ListGuilds \/ Compare)
        <3>1. \A s \in Tasks : Holding(s)' => Holding(s)
            <4>1. task'[t].pc \in {"compare", "delete", "create", "idle"}
                BY <2>7 DEF ListGuilds, Compare, Continue, End, Idle, TypeOK, Task
            <4>2. \A s \in Tasks \ {t} : task'[s] = task[s]
                BY <2>7 DEF ListGuilds, Compare, Continue, End, TypeOK
            <4> QED
                BY <4>1, <4>2 DEF Holding
        <3> QED
            BY <2>7, <3>1, NoNewHolder DEF ListGuilds, Compare
    <2> QED
        BY <1>4, <2>1, <2>2, <2>3, <2>4, <2>5, <2>6, <2>7 DEF Step
<1>5. CASE ExpireLock
    <2>1. CASE At(lock, "idle")
        <3>1. ~expired => \A s \in Tasks : ~Holding(s)
            BY <2>1 DEF At, Holding, LockedByHolder
        <3> QED
            BY <1>5, <2>1, <3>1 DEF ExpireLock, LockedByHolder, Holding
    <2>2. CASE ~At(lock, "idle")
        BY <1>5, <2>2 DEF ExpireLock, LockedByHolder
    <2> QED
        BY <2>1, <2>2
<1>6. ASSUME NEW t \in Tasks, Abort(t) PROVE LockedByHolder'
    <2>1. ~Holding(t)'
        BY <1>6 DEF Abort, End, Idle, Holding, TypeOK
    <2>2. \A s \in Tasks \ {t} : task'[s] = task[s]
        BY <1>6 DEF Abort, End, TypeOK
    <2>3. \A s \in Tasks : Holding(s)' => Holding(s)
        BY <2>1, <2>2 DEF Holding
    <2>4. CASE UNCHANGED lock
        BY <1>6, <2>3, <2>4, NoNewHolder DEF Abort
    <2>5. CASE task[t].pc \in {"sync_fetch", "sync_save", "sync_update"}
        <3>1. Holding(t)
            BY <2>5 DEF Holding
        <3>2. ~expired => \A s \in Tasks \ {t} : ~Holding(s)
            BY <3>1 DEF LockedByHolder
        <3> QED
            BY <1>6, <2>1, <2>3, <3>2 DEF Abort, LockedByHolder
    <2> QED
        BY <1>6, <2>4, <2>5 DEF Abort
<1>7. CASE UNCHANGED vars
    BY <1>7, NoNewHolder DEF vars, Holding
<1> QED
    BY <1>1, <1>2, <1>3, <1>4, <1>5, <1>6, <1>7 DEF Next

\* The one that works under the lock is the one who set it.
THEOREM Locked == Spec => [](TypeOK /\ LockedByHolder)
<1>1. Init => TypeOK /\ LockedByHolder
    BY TypingInit, LockInit
<1>2. TypeOK /\ LockedByHolder /\ [Next]_vars => (TypeOK /\ LockedByHolder)'
    BY TypingStep, LockStep
<1> QED
    BY <1>1, <1>2, PTL DEF Spec

\* However many handlers start syncs, are refused, fail or crash, two work at once only
\* after a lock expired under its holder (SyncExclusive of GuildPresence).
THEOREM OneSync == Spec => []SyncExclusive
<1>1. LockedByHolder => SyncExclusive
    BY DEF LockedByHolder, SyncExclusive
<1> QED
    BY <1>1, Locked, PTL


-------------------------------------------------------------------------------
(* The status.                                                             *)

\* A job that has not begun, or has not begun again, finds the last run's word.
WordGiven == pc \in {"idle", "received"} /\ outcome = "processing" => abandoned

LEMMA WordGivenInit == ImportInit => WordGiven
BY DEF ImportInit, WordGiven

LEMMA WordGivenStep == WordGiven /\ [ImportNext]_importVars => WordGiven'
<1> SUFFICES ASSUME WordGiven, [ImportNext]_importVars PROVE WordGiven'
    OBVIOUS
<1> USE DEF WordGiven, EndJob, historyVars
<1>1. CASE Post \/ AddJob \/ CopyGuild \/ SaveGuild \/ TakeJob
    BY <1>1 DEF Post, AddJob, CopyGuild, SaveGuild, TakeJob
<1>2. CASE Run
    <2>1. CASE Begin \/ Complete \/ Fail
        BY <2>1 DEF Begin, Complete, Fail
    <2>2. CASE ListChannels \/ ReadExisting \/ Fetched \/ CountRows \/ PublishTotal \/ Throw
        BY <2>2 DEF ListChannels, ReadExisting, Fetched, CountRows, PublishTotal, Throw
    <2>3. ASSUME NEW c \in Channels, FetchPage(c) \/ ChannelClosed(c) PROVE WordGiven'
        BY <2>3 DEF FetchPage, ChannelClosed
    <2>4. ASSUME NEW chunk \in SUBSET todo, InsertChunk(chunk) \/ InsertFails(chunk)
          PROVE  WordGiven'
        BY <2>4 DEF InsertChunk, InsertFails
    <2> QED
        BY <1>2, <2>1, <2>2, <2>3, <2>4 DEF Run
<1>3. CASE Crash
    BY <1>3 DEF Crash
<1>4. ASSUME NEW m \in Messages, LiveEnds(m) \/ RowLeaves(m) PROVE WordGiven'
    BY <1>4 DEF LiveEnds, RowLeaves
<1>5. CASE UNCHANGED importVars
    BY <1>5 DEF importVars
<1> QED
    BY <1>1, <1>2, <1>3, <1>4, <1>5, HistoryAssumption DEF ImportNext

\* Whatever fails, a run that is over has told how it ended, unless it was cut off or
\* PostgreSQL refused the word (StatusTold of HistorySync).
THEOREM Told == ImportSpec => []StatusTold
<1>1. WordGiven => StatusTold
    BY DEF WordGiven, StatusTold
<1> QED
    BY WordGivenInit, WordGivenStep, <1>1, PTL DEF ImportSpec

-------------------------------------------------------------------------------
(* The rows.                                                               *)

\* Posted messages are messages, rows are counted, and nothing is left to insert before
\* the run has looked.
Fetchable ==
    /\ posted \in Nat /\ posted <= MaxMsg
    /\ histRows \in [Messages -> Nat]
    /\ todo \subseteq Messages
    /\ pc \in {"idle", "received", "list", "read"} => todo = {}

\* What the run found without a row still has none from an import, until the run itself
\* inserts it.
Missing(m) == m \in raced /\ histRows[m] = 0
UnknownIsMissing ==
    ~blind => /\ pc = "fetch" => \A m \in Messages \ known : Missing(m)
              /\ pc \in {"fetch", "insert"} => \A m \in todo : Missing(m)

Looked == Fetchable /\ UnknownIsMissing

LEMMA LookedInit == ImportInit => Looked
BY DEF ImportInit, Looked, Fetchable, UnknownIsMissing, Messages

\* A page is made of messages.
LEMMA PageOfMessages ==
    ASSUME Fetchable, NEW c \in Channels
    PROVE  Page(c) \subseteq Messages
<1>1. InChannel(c) \subseteq Messages
    BY DEF InChannel, Messages, Fetchable
<1> QED
    BY <1>1 DEF Page, Newest

LEMMA WrittenRows ==
    ASSUME Fetchable, NEW chunk \in SUBSET todo
    PROVE  /\ Written(chunk) \in [Messages -> Nat]
           /\ \A m \in Messages : Written(chunk)[m] = IF m \in chunk THEN histRows[m] + 1
                                                                    ELSE histRows[m]
BY DEF Written, Fetchable

LEMMA LookedStep == Looked /\ [ImportNext]_importVars => Looked'
<1> SUFFICES ASSUME Looked, [ImportNext]_importVars PROVE Looked'
    OBVIOUS
<1> USE DEF Looked, Fetchable, UnknownIsMissing, Missing
<1>1. CASE Post
    BY <1>1 DEF Post, queueVars, runVars, historyVars
<1>2. CASE AddJob \/ CopyGuild \/ SaveGuild \/ TakeJob
    BY <1>2 DEF AddJob, CopyGuild, SaveGuild, TakeJob, envVars, runVars, historyVars
<1>3. CASE Run
    <2>1. CASE Begin \/ Complete \/ Fail
        BY <2>1 DEF Begin, Complete, Fail, EndJob, envVars, runVars, historyVars
    <2>2. CASE ListChannels \/ CountRows \/ PublishTotal \/ Throw
        BY <2>2 DEF ListChannels, CountRows, PublishTotal, Throw,
                    envVars, runVars, historyVars
    <2>3. CASE ReadExisting
        BY <2>3 DEF ReadExisting, Stored, envVars
    <2>4. CASE Fetched
        BY <2>4 DEF Fetched, envVars, runVars, historyVars
    <2>5. ASSUME NEW c \in Channels, FetchPage(c) PROVE Looked'
        <3>1. Page(c) \subseteq Messages
            BY PageOfMessages
        <3>2. /\ pc = "fetch" /\ todo' = todo \cup (Page(c) \ known)
              /\ UNCHANGED <<posted, histRows, pc, known, raced, blind>>
            BY <2>5 DEF FetchPage, envVars
        <3> QED
            BY <3>1, <3>2
    <2>6. ASSUME NEW c \in Channels, ChannelClosed(c) PROVE Looked'
        BY <2>6 DEF ChannelClosed, envVars
    <2>7. ASSUME NEW chunk \in SUBSET todo, InsertChunk(chunk) PROVE Looked'
        BY <2>7, WrittenRows DEF InsertChunk, envVars, historyVars
    <2>8. ASSUME NEW chunk \in SUBSET todo, InsertFails(chunk) PROVE Looked'
        BY <2>8, WrittenRows DEF InsertFails, envVars, runVars, historyVars
    <2> QED
        BY <1>3, <2>1, <2>2, <2>3, <2>4, <2>5, <2>6, <2>7, <2>8 DEF Run
<1>4. CASE Crash
    BY <1>4, WrittenRows DEF Crash, envVars
<1>5. ASSUME NEW m \in Messages, LiveEnds(m) PROVE Looked'
    BY <1>5 DEF LiveEnds, queueVars, runVars, historyVars
<1>6. ASSUME NEW m \in Messages, RowLeaves(m) PROVE Looked'
    <2>1. /\ \A k \in Messages : histRows[k] = 0 => histRows'[k] = 0
          /\ histRows' \in [Messages -> Nat]
        BY <1>6 DEF RowLeaves
    <2>2. QED
        BY <1>6, <2>1 DEF RowLeaves, runVars
<1>7. CASE UNCHANGED importVars
    BY <1>7 DEF importVars
<1> QED
    BY <1>1, <1>2, <1>3, <1>4, <1>5, <1>6, <1>7, HistoryAssumption DEF ImportNext

\* What a step may do to the rows of the import.
OnlyMissing ==
    \A m \in Messages : histRows'[m] > histRows[m] =>
        blind \/ (m \in raced /\ histRows[m] = 0 /\ histRows'[m] = 1)

LEMMA ChunkOfMissing ==
    ASSUME Looked, pc = "insert", NEW chunk \in SUBSET todo, histRows' = Written(chunk)
    PROVE  OnlyMissing
BY WrittenRows DEF Looked, Fetchable, UnknownIsMissing, Missing, OnlyMissing

LEMMA OnlyMissingStep == Looked /\ [ImportNext]_importVars => OnlyMissing
<1> SUFFICES ASSUME Looked, [ImportNext]_importVars PROVE OnlyMissing
    OBVIOUS
<1>1. CASE UNCHANGED histRows
    BY <1>1 DEF OnlyMissing, Looked, Fetchable
<1>2. CASE Run
    <2>1. ASSUME NEW chunk \in SUBSET todo, InsertChunk(chunk) \/ InsertFails(chunk)
          PROVE  OnlyMissing
        BY <1>1, <2>1, ChunkOfMissing DEF InsertChunk, InsertFails
    <2>2. ASSUME NEW c \in Channels, FetchPage(c) \/ ChannelClosed(c)
          PROVE  UNCHANGED histRows
        BY <2>2 DEF FetchPage, ChannelClosed
    <2>3. CASE \/ Begin \/ ListChannels \/ ReadExisting \/ Fetched
               \/ CountRows \/ PublishTotal \/ Complete \/ Throw \/ Fail
        BY <1>1, <2>3 DEF Begin, ListChannels, ReadExisting, Fetched, CountRows,
                          PublishTotal, Complete, Throw, Fail, EndJob
    <2> QED
        BY <1>1, <1>2, <2>1, <2>2, <2>3 DEF Run
<1>3. CASE Crash
    BY <1>1, <1>3, ChunkOfMissing DEF Crash
<1>4. ASSUME NEW m \in Messages, LiveEnds(m) PROVE UNCHANGED histRows
    BY <1>4 DEF LiveEnds
<1>5. CASE Post \/ AddJob \/ CopyGuild \/ SaveGuild \/ TakeJob
    BY <1>1, <1>5 DEF Post, AddJob, CopyGuild, SaveGuild, TakeJob
<1>6. ASSUME NEW m \in Messages, RowLeaves(m) PROVE OnlyMissing
    BY <1>6 DEF RowLeaves, OnlyMissing, Looked, Fetchable
<1>7. CASE UNCHANGED importVars
    BY <1>1, <1>7 DEF importVars
<1> QED
    BY <1>1, <1>2, <1>3, <1>4, <1>5, <1>6, <1>7, HistoryAssumption DEF ImportNext

\* However many runs there are, and wherever they were cut off, an import inserts a
\* message once, and only if it had no row when the run looked (ImportsOnlyMissing of
\* HistorySync).
THEOREM NothingTwice == ImportSpec => ImportsOnlyMissing
<1>1. ImportSpec => []Looked
    BY LookedInit, LookedStep, PTL DEF ImportSpec
<1>2. Looked /\ [ImportNext]_importVars => [OnlyMissing]_importVars
    BY OnlyMissingStep
<1>3. OnlyMissing <=> \A m \in Messages : histRows'[m] > histRows[m] =>
                          blind \/ (m \in raced /\ histRows[m] = 0 /\ histRows'[m] = 1)
    BY DEF OnlyMissing
<1> QED
    BY <1>1, <1>2, <1>3, PTL DEF ImportSpec, ImportsOnlyMissing

-------------------------------------------------------------------------------
(* Sets of messages: their oldest and newest, and how many the n newest are.  *)

Less == {ss \in Nat \X Nat : ss[1] < ss[2]}

LEMMA LessIsWellFounded == IsWellFoundedOn(Less, Nat)
BY NatLessThanWellFounded DEF OpToRel, Less

LEMMA LessDef == \A y, x \in Nat : <<y, x>> \in Less <=> y < x
BY DEF Less

LEMMA MessagesAreNats == MaxMsg \in Nat /\ \A m \in Messages : m \in Nat /\ m <= MaxMsg
BY DEF Messages, HistoryAssumption

\* A set of messages has an oldest one ...
LEMMA Oldest ==
    ASSUME NEW S \in SUBSET Messages, S # {}
    PROVE  Min(S) \in S /\ \A m \in S : Min(S) <= m
<1>0. S \subseteq Nat
    BY DEF Messages
<1>1. PICK x \in S : \A y \in S : ~(<<y, x>> \in Less)
    <2>1. \E x \in S : \A y \in S : ~(<<y, x>> \in Less)
        BY <1>0, LessIsWellFounded, WFMin
    <2>2. QED
        BY <2>1
<1>2. ASSUME NEW y \in S PROVE x <= y
    <2>1. ~(<<y, x>> \in Less) /\ x \in Nat /\ y \in Nat
        BY <1>0, <1>1
    <2>2. ~(y < x)
        BY <2>1, LessDef
    <2>3. QED
        BY <2>1, <2>2
<1>3. QED
    BY <1>2 DEF Min

\* ... and a newest one.
LEMMA Newer ==
    ASSUME NEW S \in SUBSET Messages, S # {}
    PROVE  \E x \in S : \A y \in S : y <= x
<1> DEFINE Mirror == {MaxMsg - m : m \in S}
<1>0. \A m \in S : MaxMsg - m \in Nat
    BY MessagesAreNats
<1>1. Mirror # {} /\ Mirror \subseteq Nat
    BY <1>0
<1>2. PICK z \in Mirror : \A y \in Mirror : ~(<<y, z>> \in Less)
    BY <1>1, LessIsWellFounded, WFMin
<1>3. PICK x \in S : z = MaxMsg - x
    OBVIOUS
<1>4. ASSUME NEW y \in S PROVE y <= x
    <2>1. ~(<<MaxMsg - y, z>> \in Less)
        BY <1>2
    <2>2. QED
        BY <1>0, <1>3, <2>1, LessDef, MessagesAreNats
<1>5. QED
    BY <1>4

\* Sets of messages are finite.
LEMMA FewMessages ==
    ASSUME NEW S \in SUBSET Messages
    PROVE  IsFiniteSet(S) /\ Cardinality(S) \in Nat
<1>1. IsFiniteSet(Messages)
    BY FS_Interval DEF Messages, HistoryAssumption
<1>2. QED
    BY <1>1, FS_Subset, FS_CardinalityType

LEMMA FewerMessages ==
    ASSUME NEW S \in SUBSET Messages, NEW T \in SUBSET S
    PROVE  Cardinality(T) <= Cardinality(S)
BY FewMessages, FS_Subset

Above(m, S) == {k \in S : k > m}

\* The n newest are at most n ...
LEMMA NewestAreFew ==
    ASSUME NEW S \in SUBSET Messages, NEW n \in Nat
    PROVE  Newest(n, S) \subseteq S /\ Cardinality(Newest(n, S)) <= n
<1> DEFINE T == Newest(n, S)
<1>1. T \subseteq S /\ T \in SUBSET Messages
    BY DEF Newest
<1>2. CASE T = {}
    BY <1>1, <1>2, FS_EmptySet
<1>3. CASE T # {}
    <2>1. PICK m \in T : \A x \in T : m <= x
        BY <1>1, <1>3, Oldest
    <2>2. Cardinality(Above(m, S)) < n
        BY <2>1 DEF Newest, Above
    <2>3. T \ {m} \subseteq Above(m, S) /\ Above(m, S) \in SUBSET Messages
        BY <1>1, <2>1, MessagesAreNats DEF Above
    <2>4. Cardinality(T \ {m}) <= Cardinality(Above(m, S))
        BY <2>3, FewerMessages
    <2>5. Cardinality(T \ {m}) = Cardinality(T) - 1
        BY <1>1, <2>1, FewMessages, FS_RemoveElement
    <2>6. Cardinality(T) \in Nat /\ Cardinality(Above(m, S)) \in Nat
        BY <1>1, <2>3, FewMessages
    <2>7. QED
        BY <1>1, <2>2, <2>4, <2>5, <2>6
<1>4. QED
    BY <1>2, <1>3

\* ... and n, if there is an older one.
LEMMA NewestAreMany ==
    ASSUME NEW S \in SUBSET Messages, NEW n \in Nat, Newest(n, S) # S
    PROVE  Cardinality(Newest(n, S)) >= n
<1> DEFINE T == Newest(n, S)
<1>1. T \subseteq S /\ S \ T # {} /\ S \ T \in SUBSET Messages
    BY DEF Newest
<1>2. PICK q \in S \ T : \A x \in S \ T : x <= q
    BY <1>1, Newer
<1>3. ~(Cardinality(Above(q, S)) < n)
    BY <1>2 DEF Newest, Above
<1>4. Above(q, S) \subseteq T /\ T \in SUBSET Messages
    BY <1>1, <1>2, MessagesAreNats DEF Above
<1>5. Cardinality(Above(q, S)) <= Cardinality(T)
    BY <1>4, FewerMessages
<1>6. Cardinality(T) \in Nat /\ Cardinality(Above(q, S)) \in Nat
    BY <1>4, FewMessages
<1>7. QED
    BY <1>3, <1>5, <1>6

-------------------------------------------------------------------------------
(* The types.                                                              *)

\* A run has a job, and no more jobs wait than were added.
Typed ==
    /\ ImportTypeOK
    /\ jobs <= added
    /\ pc # "idle" => jobs > 0

Below(c) == {m \in InChannel(c) : m < before[c]}

\* A page is what it says, and leaves the channel within its depth.
LEMMA PageFits ==
    ASSUME Typed, NEW c \in Channels
    PROVE  /\ Page(c) \in SUBSET Below(c) /\ Below(c) \in SUBSET Messages
           /\ InChannel(c) \in SUBSET Messages
           /\ Cardinality(Page(c)) \in Nat
           /\ got[c] + Cardinality(Page(c)) <= ScanDepth
           /\ Page(c) # {} => Min(Page(c)) \in Page(c) /\ \A m \in Page(c) : Min(Page(c)) <= m
<1> DEFINE room == ScanDepth - got[c]
           limit == IF PageSize < room THEN PageSize ELSE room
<1>1. posted \in Nat /\ posted <= MaxMsg
    BY DEF Typed, ImportTypeOK, HistoryAssumption
<1>2. InChannel(c) \in SUBSET Messages
    BY <1>1 DEF InChannel, Messages, HistoryAssumption
<1>3. Below(c) \in SUBSET Messages
    BY <1>2 DEF Below
<1>4. got[c] \in 0..ScanDepth /\ ScanDepth \in Nat /\ PageSize \in Nat
    BY DEF Typed, ImportTypeOK, HistoryAssumption
<1>5. limit \in Nat /\ got[c] + limit <= ScanDepth
    BY <1>4
<1>6. Page(c) = Newest(limit, Below(c))
    BY DEF Page, Below
<1>7. Page(c) \in SUBSET Below(c) /\ Cardinality(Page(c)) <= limit
    <2> HIDE DEF limit
    <2>1. Newest(limit, Below(c)) \subseteq Below(c)
          /\ Cardinality(Newest(limit, Below(c))) <= limit
        BY <1>3, <1>5, NewestAreFew
    <2>2. QED
        BY <2>1, <1>6
<1>8. Cardinality(Page(c)) \in Nat
    BY <1>3, <1>7, FewMessages
<1>9. got[c] + Cardinality(Page(c)) <= ScanDepth
    <2> HIDE DEF limit
    <2>1. QED
        BY <1>4, <1>5, <1>7, <1>8
<1>10. Page(c) # {} => Min(Page(c)) \in Page(c) /\ \A m \in Page(c) : Min(Page(c)) <= m
    BY <1>3, <1>7, Oldest
<1>11. QED
    BY <1>2, <1>3, <1>7, <1>8, <1>9, <1>10

LEMMA TypedInit == ASSUME ImportInit PROVE Typed
<1>1. /\ posted \in Old..MaxMsg /\ jobs \in 0..MaxJobs /\ added \in 0..MaxJobs
      /\ starts \in 0..MaxStarts /\ jobs <= added
    BY DEF ImportInit, HistoryAssumption
<1>2. /\ before \in [Channels -> 1..(MaxMsg + 1)] /\ got \in [Channels -> 0..ScanDepth]
      /\ histRows \in [Messages -> Nat]
    BY DEF ImportInit, HistoryAssumption
<1>3. QED
    BY <1>1, <1>2 DEF ImportInit, Typed, ImportTypeOK, Statuses

LEMMA RowsWritten ==
    ASSUME Typed, NEW chunk \in SUBSET todo
    PROVE  Written(chunk) \in [Messages -> Nat]
BY DEF Written, Typed, ImportTypeOK

\* The end of a job.
LEMMA EndKeepsTypes ==
    ASSUME Typed, EndJob, pc # "idle", status' \in Statuses, outcome' \in Statuses,
           abandoned' \in BOOLEAN, UNCHANGED <<due, raced, gone, blind>>
    PROVE  Typed'
<1>1. /\ before' \in [Channels -> 1..(MaxMsg + 1)] /\ got' \in [Channels -> 0..ScanDepth]
    BY DEF EndJob, HistoryAssumption
<1>2. jobs' \in 0..MaxJobs /\ starts' \in 0..MaxStarts /\ added' \in 0..MaxJobs
      /\ jobs' <= added'
    BY DEF EndJob, Typed, ImportTypeOK, HistoryAssumption
<1>3. /\ posted' \in Old..MaxMsg
      /\ live' \subseteq Messages /\ liveRows' \subseteq Messages
      /\ histRows' \in [Messages -> Nat] /\ copy' \in Statuses \cup {"none"}
      /\ due' \subseteq Messages /\ raced' \subseteq Messages
      /\ gone' \subseteq Messages /\ blind' \in BOOLEAN
    BY DEF EndJob, Typed, ImportTypeOK, envVars
<1>4. QED
    BY <1>1, <1>2, <1>3 DEF EndJob, Typed, ImportTypeOK

LEMMA TypedStep == Typed /\ [ImportNext]_importVars => Typed'
<1> SUFFICES ASSUME Typed, [ImportNext]_importVars PROVE Typed'
    OBVIOUS
<1> USE DEF Typed
<1>1. CASE Post
    <2>1. posted' \in Old..MaxMsg /\ posted' \in Messages
        BY <1>1 DEF Post, ImportTypeOK, Messages, HistoryAssumption
    <2>2. QED
        BY <1>1, <2>1 DEF Post, ImportTypeOK, queueVars, runVars, historyVars
<1>2. CASE AddJob
    BY <1>2 DEF AddJob, ImportTypeOK, envVars, runVars, historyVars, HistoryAssumption
<1>3. CASE CopyGuild \/ SaveGuild
    BY <1>3 DEF CopyGuild, SaveGuild, ImportTypeOK, queueVars, runVars, historyVars
<1>4. CASE TakeJob
    BY <1>4 DEF TakeJob, ImportTypeOK, envVars, runVars, historyVars, HistoryAssumption
<1>5. CASE Run
    <2>1. CASE Begin
        <3>1. CASE EndJob /\ UNCHANGED <<status, historyVars>>
            BY <2>1, <3>1, EndKeepsTypes DEF Begin, ImportTypeOK, historyVars
        <3>2. CASE pc' = "list"
            BY <2>1, <3>2 DEF Begin, ImportTypeOK, envVars, queueVars, runVars, Statuses, EndJob
        <3>3. QED
            BY <2>1, <3>1, <3>2 DEF Begin
    <2>2. CASE ListChannels \/ Fetched \/ CountRows \/ PublishTotal \/ Throw
        BY <2>2 DEF ListChannels, Fetched, CountRows, PublishTotal, Throw, ImportTypeOK,
                    envVars, queueVars, runVars, historyVars
    <2>3. CASE ReadExisting
        BY <2>3 DEF ReadExisting, Stored, ImportTypeOK, envVars, queueVars
    <2>4. ASSUME NEW c \in Channels, FetchPage(c) PROVE Typed'
        <3>1. Newest(ScanDepth, InChannel(c)) \subseteq Messages
            BY PageFits DEF Newest
        <3>2. got' \in [Channels -> 0..ScanDepth]
            <4>1. got[c] + Cardinality(Page(c)) \in 0..ScanDepth
                BY PageFits DEF ImportTypeOK, HistoryAssumption
            <4>2. QED
                BY <2>4, <4>1 DEF FetchPage, ImportTypeOK
        <3>3. before' \in [Channels -> 1..(MaxMsg + 1)]
            <4>1. Page(c) # {} => Min(Page(c)) \in 1..(MaxMsg + 1)
                BY PageFits, MessagesAreNats DEF Messages
            <4>2. QED
                BY <2>4, <4>1 DEF FetchPage, ImportTypeOK
        <3>4. Page(c) \subseteq Messages
            BY PageFits
        <3>5. QED
            BY <2>4, <3>1, <3>2, <3>3, <3>4 DEF FetchPage, ImportTypeOK, envVars, queueVars
    <2>5. ASSUME NEW c \in Channels, ChannelClosed(c) PROVE Typed'
        BY <2>5 DEF ChannelClosed, ImportTypeOK, envVars, queueVars
    <2>6. ASSUME NEW chunk \in SUBSET todo, InsertChunk(chunk) PROVE Typed'
        BY <2>6, RowsWritten DEF InsertChunk, ImportTypeOK, envVars, queueVars, historyVars
    <2>7. ASSUME NEW chunk \in SUBSET todo, InsertFails(chunk) PROVE Typed'
        BY <2>7, RowsWritten DEF InsertFails, ImportTypeOK, envVars, queueVars, runVars, historyVars
    <2>8. CASE Complete \/ Fail
        BY <2>8, EndKeepsTypes DEF Complete, Fail, ImportTypeOK, Statuses
    <2>9. QED
        BY <1>5, <2>1, <2>2, <2>3, <2>4, <2>5, <2>6, <2>7, <2>8 DEF Run
<1>6. CASE Crash
    <2>1. /\ before' \in [Channels -> 1..(MaxMsg + 1)] /\ got' \in [Channels -> 0..ScanDepth]
        BY <1>6 DEF Crash, HistoryAssumption
    <2>2. jobs' \in 0..MaxJobs /\ starts' \in 0..MaxStarts /\ jobs' <= added'
        BY <1>6 DEF Crash, ImportTypeOK, HistoryAssumption
    <2>3. histRows' \in [Messages -> Nat]
        BY <1>6, RowsWritten DEF Crash, ImportTypeOK
    <2>4. QED
        BY <1>6, <2>1, <2>2, <2>3 DEF Crash, ImportTypeOK, envVars
<1>7. ASSUME NEW m \in Messages, LiveEnds(m) PROVE Typed'
    BY <1>7 DEF LiveEnds, ImportTypeOK, queueVars, runVars, historyVars
<1>8. ASSUME NEW m \in Messages, RowLeaves(m) PROVE Typed'
    <2>1. liveRows' \subseteq Messages /\ histRows' \in [Messages -> Nat]
          /\ gone' \subseteq Messages
        BY <1>8 DEF RowLeaves, ImportTypeOK
    <2>2. QED
        BY <1>8, <2>1 DEF RowLeaves, ImportTypeOK, queueVars, runVars
<1>9. CASE UNCHANGED importVars
    BY <1>9 DEF importVars, ImportTypeOK
<1> QED
    BY <1>1, <1>2, <1>3, <1>4, <1>5, <1>6, <1>7, <1>8, <1>9, HistoryAssumption DEF ImportNext

\* Every state of the import has its type, whatever the size of its pages, channels and
\* bounds (ImportTypeOK of HistorySync).
THEOREM TypeCorrect == ImportSpec => []ImportTypeOK
<1>1. Typed => ImportTypeOK
    BY DEF Typed
<1>2. QED
    BY TypedInit, TypedStep, <1>1, PTL DEF ImportSpec

-------------------------------------------------------------------------------
(* What is due is stored.                                                   *)

\* What has a row, or had one that has left since the run looked.
Had == Stored \cup gone

Room(c) == ScanDepth - got[c]

\* A message that pages are still to bring.
Coming(m) == Channel[m] \in open /\ m \in Newest(Room(Channel[m]), Below(Channel[m]))

\* Nothing is due of a channel of which nothing has come; the next page of another starts
\* at a message that was posted.
Paged(c) ==
    /\ got[c] = 0 => before[c] = MaxMsg + 1 /\ \A m \in due : Channel[m] # c
    /\ got[c] > 0 => before[c] <= posted

Fetching ==
    /\ known \subseteq Had
    /\ \A c \in Channels : Paged(c)
    /\ \A m \in due : m \in Had \cup todo \/ Coming(m)

\* What is due, by the place of the run.
Due ==
    /\ pc \in {"idle", "received", "list", "read"} =>
          todo = {} /\ \A c \in Channels : got[c] = 0 /\ before[c] = MaxMsg + 1
    /\ pc \notin {"idle", "received"} => outcome = "processing"
    /\ pc \in {"list", "read"} => due = {}
    /\ pc = "fetch" => Fetching
    /\ pc = "insert" => due \subseteq Had \cup todo
    /\ pc \in {"count", "publish", "complete"} => due \subseteq Had
    /\ outcome = "completed" => due \subseteq Had

LEMMA HadSame == ASSUME UNCHANGED <<liveRows, histRows, gone>> PROVE Had' = Had
BY DEF Had, Stored

\* A row stays.
LEMMA HadStays ==
    ASSUME Typed, Typed', liveRows \subseteq liveRows', gone \subseteq gone',
           \A m \in Messages : histRows'[m] >= histRows[m]
    PROVE  Had \subseteq Had'
BY DEF Had, Stored, Typed, ImportTypeOK

LEMMA WrittenAdds ==
    ASSUME Typed, NEW chunk \in SUBSET todo
    PROVE  \A m \in Messages : /\ Written(chunk)[m] >= histRows[m]
                               /\ m \in chunk => Written(chunk)[m] > 0
BY DEF Written, Typed, ImportTypeOK

\* A page that does not bring a message that is coming is full, is of newer ones, and
\* leaves it within the depth.
LEMMA PageBefore ==
    ASSUME Typed, NEW c \in Channels, NEW m \in Newest(Room(c), Below(c)), m \notin Page(c)
    PROVE  /\ got[c] + Cardinality(Page(c)) < ScanDepth
           /\ Cardinality(Page(c)) = PageSize
           /\ Page(c) # {} /\ m < Min(Page(c))
           /\ m \in Newest(Room(c) - Cardinality(Page(c)),
                           {k \in InChannel(c) : k < Min(Page(c))})
<1> DEFINE limit == IF PageSize < Room(c) THEN PageSize ELSE Room(c)
           B == Below(c)
           P == Page(c)
           L == {k \in InChannel(c) : k < Min(P)}
<1>1. /\ got[c] \in 0..ScanDepth /\ ScanDepth \in Nat \ {0} /\ PageSize \in Nat \ {0}
      /\ Room(c) \in Nat /\ Room(c) = ScanDepth - got[c]
    BY DEF Typed, ImportTypeOK, HistoryAssumption, Room
<1>2. limit \in Nat /\ limit <= Room(c) /\ limit <= PageSize
    BY <1>1
<1>3. P = Newest(limit, B)
    BY DEF Page, Below, Room
<1>4. /\ P \in SUBSET B /\ B \in SUBSET Messages /\ InChannel(c) \in SUBSET Messages
      /\ Cardinality(P) \in Nat
      /\ got[c] + Cardinality(P) <= ScanDepth
      /\ P # {} => Min(P) \in P /\ \A x \in P : Min(P) <= x
    BY PageFits
<1> HIDE DEF limit, B, P
<1>5. m \in B /\ Cardinality(Above(m, B)) < Room(c)
    BY DEF Newest, Above, B
<1>6. ~(Cardinality(Above(m, B)) < limit)
    BY <1>3, <1>5 DEF Newest, Above, P
<1>7. Cardinality(Above(m, B)) \in Nat
    BY <1>4, FewMessages DEF Above
<1>8. PageSize < Room(c) /\ limit = PageSize
    BY <1>1, <1>2, <1>5, <1>6, <1>7 DEF limit
<1>9. Cardinality(P) <= limit /\ Cardinality(P) >= limit
    <2>1. P # B
        BY <1>5 DEF P
    <2>2. QED
        BY <1>2, <1>3, <1>4, <2>1, NewestAreFew, NewestAreMany
<1>10. Cardinality(P) = PageSize /\ P # {}
    <2>1. Cardinality(P) = PageSize /\ PageSize # 0
        BY <1>1, <1>4, <1>8, <1>9
    <2>2. QED
        BY <2>1, FS_EmptySet, Zenon
<1>11. ASSUME NEW p \in P PROVE m < p
    <2>1. SUFFICES ASSUME ~(m < p) PROVE FALSE
        OBVIOUS
    <2>2. m \in Nat /\ p \in Nat
        BY <1>4, <1>5, MessagesAreNats
    <2>3. Above(m, B) \in SUBSET Above(p, B) /\ Above(p, B) \in SUBSET Messages
        <3>1. \A k \in B : k \in Nat /\ k \in Messages
            BY <1>4, MessagesAreNats
        <3>2. \A k \in B : k > m => k > p
            BY <2>1, <2>2, <3>1
        <3>3. QED
            BY <3>1, <3>2 DEF Above
    <2>4. Cardinality(Above(p, B)) < limit
        BY <1>3 DEF Newest, Above
    <2>5. Cardinality(Above(m, B)) <= Cardinality(Above(p, B))
        BY <2>3, FewerMessages
    <2>6. Cardinality(Above(p, B)) \in Nat
        BY <2>3, FewMessages
    <2>7. QED
        BY <1>2, <1>6, <1>7, <2>4, <2>5, <2>6
<1>12. m < Min(P) /\ m \in InChannel(c) /\ Min(P) \in P
    BY <1>4, <1>5, <1>10, <1>11 DEF Below, B
<1>13. /\ Above(m, L) \in SUBSET Messages /\ Above(m, L) \cap P = {}
       /\ Above(m, L) \cup P \in SUBSET Above(m, B) /\ Above(m, B) \in SUBSET Messages
    <2>1. \A k \in L : k \in Messages /\ k < Min(P)
        BY <1>4
    <2>2. Min(P) < before[c] /\ Min(P) \in Nat /\ before[c] \in Nat
        BY <1>4, <1>12, MessagesAreNats DEF Below, B, Typed, ImportTypeOK
    <2>3. \A k \in L : k \in B
        BY <2>1, <2>2, MessagesAreNats DEF Below, B
    <2>4. \A k \in L : k \notin P
        BY <1>4, <1>12, <2>1, MessagesAreNats
    <2>5. QED
        BY <1>4, <1>11, <2>1, <2>3, <2>4 DEF Above
<1>14. Cardinality(Above(m, L)) + Cardinality(P) <= Cardinality(Above(m, B))
    <2>1. IsFiniteSet(Above(m, L)) /\ IsFiniteSet(P)
        BY <1>4, <1>13, FewMessages
    <2>2. Cardinality(Above(m, L) \cup P) = Cardinality(Above(m, L)) + Cardinality(P)
        <3>1. Cardinality(Above(m, L) \cap P) = 0
            BY <1>13, FS_EmptySet, Zenon
        <3>2. Cardinality(Above(m, L) \cup P)
                = Cardinality(Above(m, L)) + Cardinality(P) - Cardinality(Above(m, L) \cap P)
            BY <2>1, FS_Union, Zenon
        <3>3. Cardinality(Above(m, L)) \in Nat /\ Cardinality(P) \in Nat
            BY <2>1, FS_CardinalityType, Zenon
        <3> QED
            BY <3>1, <3>2, <3>3
    <2>3. QED
        BY <1>13, <2>2, FewerMessages
<1>15. Cardinality(Above(m, L)) \in Nat
    BY <1>13, FewMessages
<1>16. Cardinality(Above(m, L)) < Room(c) - Cardinality(P)
    BY <1>1, <1>4, <1>5, <1>7, <1>14, <1>15
<1>17. m \in Newest(Room(c) - Cardinality(P), L)
    BY <1>12, <1>16 DEF Newest, Above
<1>18. got[c] + Cardinality(P) < ScanDepth
    BY <1>1, <1>8, <1>10
<1>19. QED
    BY <1>10, <1>12, <1>17, <1>18 DEF P

\* One page keeps the promise.
LEMMA PageKeeps ==
    ASSUME Typed, Due, NEW c \in Channels, FetchPage(c)
    PROVE  Due'
<1> DEFINE P == Page(c)
<1>1. /\ pc = "fetch" /\ pc' = "fetch" /\ c \in open
      /\ got' = [got EXCEPT ![c] = @ + Cardinality(P)]
      /\ before' = [before EXCEPT ![c] = IF P = {} THEN @ ELSE Min(P)]
      /\ open' = IF Exhausted(c) THEN open \ {c} ELSE open
      /\ todo' = todo \cup (P \ known)
      /\ due' = IF got[c] = 0 THEN due \cup Newest(ScanDepth, InChannel(c)) ELSE due
      /\ UNCHANGED <<posted, liveRows, histRows, gone, known, outcome>>
    BY DEF FetchPage, envVars
<1>2. Fetching /\ outcome = "processing"
    BY <1>1 DEF Due
<1>3. /\ got \in [Channels -> 0..ScanDepth] /\ before \in [Channels -> 1..(MaxMsg + 1)]
      /\ posted \in Nat /\ posted <= MaxMsg /\ ScanDepth \in Nat \ {0} /\ PageSize \in Nat \ {0}
    BY DEF Typed, ImportTypeOK, HistoryAssumption
<1>4. /\ P \in SUBSET Below(c) /\ Below(c) \in SUBSET Messages
      /\ InChannel(c) \in SUBSET Messages
      /\ Cardinality(P) \in Nat
      /\ P # {} => Min(P) \in P
    BY PageFits
<1>5. /\ got'[c] = got[c] + Cardinality(P)
      /\ before'[c] = IF P = {} THEN before[c] ELSE Min(P)
      /\ \A d \in Channels \ {c} : got'[d] = got[d] /\ before'[d] = before[d]
    BY <1>1, <1>3
<1>6. \A d \in Channels : InChannel(d)' = InChannel(d)
    BY <1>1 DEF InChannel
<1>7. \A d \in Channels :
         InChannel(d)' = InChannel(d) /\ Below(d)' = {m \in InChannel(d) : m < before'[d]}
    BY <1>6 DEF Below
<1>8. Had' = Had
    BY <1>1 DEF Had, Stored
<1>9. got[c] = 0 => Below(c) = InChannel(c)
    <2>1. \A m \in InChannel(c) : m <= MaxMsg /\ m \in Nat
        BY <1>4, MessagesAreNats
    <2>2. got[c] = 0 => before[c] = MaxMsg + 1
        BY <1>2 DEF Fetching, Paged
    <2>3. QED
        BY <2>1, <2>2, MessagesAreNats DEF Below
<1>10. \A m \in InChannel(c) : Channel[m] = c /\ m <= posted
    BY <1>3 DEF InChannel
<1> HIDE DEF P
<1>11. ASSUME NEW d \in Channels PROVE Paged(d)'
    <2>1. CASE d # c
        <3>1. Paged(d) /\ got'[d] = got[d] /\ before'[d] = before[d]
            BY <1>2, <1>5, <2>1 DEF Fetching
        <3>2. \A m \in due' : m \in due \/ Channel[m] = c
            BY <1>1, <1>10, PageFits DEF Newest
        <3>3. QED
            BY <1>1, <2>1, <3>1, <3>2 DEF Paged
    <2>2. CASE d = c /\ P = {}
        <3>1. got'[c] = got[c] /\ before'[c] = before[c]
            BY <1>3, <1>5, <2>2, FS_EmptySet
        <3>2. got[c] = 0 => InChannel(c) = {}
            <4> DEFINE room == ScanDepth - got[c]
                       limit == IF PageSize < room THEN PageSize ELSE room
            <4>1. SUFFICES ASSUME got[c] = 0, Below(c) # {} PROVE FALSE
                BY <1>9
            <4>2. P = Newest(limit, Below(c))
                BY DEF P, Page, Below
            <4>3. limit \in Nat \ {0}
                BY <1>3, <4>1
            <4> HIDE DEF limit
            <4>4. Cardinality(P) >= limit
                BY <1>4, <2>2, <4>1, <4>2, <4>3, NewestAreMany
            <4>5. QED
                BY <2>2, <4>3, <4>4, FS_EmptySet
        <3>3. got[c] = 0 => due' = due
            BY <1>1, <3>2 DEF Newest
        <3>4. Paged(c)
            BY <1>2 DEF Fetching
        <3>5. QED
            BY <1>1, <2>2, <3>1, <3>3, <3>4 DEF Paged
    <2>3. CASE d = c /\ P # {}
        <3>1. Cardinality(P) # 0 /\ got[c] \in Nat
            BY <1>3, <1>4, <2>3, FS_EmptySet, FewMessages
        <3>2. got'[c] > 0
            BY <1>4, <1>5, <3>1
        <3>3. before'[c] \in InChannel(c)
            BY <1>4, <1>5, <2>3 DEF Below
        <3>4. QED
            BY <1>1, <1>10, <2>3, <3>2, <3>3 DEF Paged
    <2>4. QED
        BY <2>1, <2>2, <2>3
<1>12. ASSUME NEW m \in due' PROVE m \in Had' \cup todo' \/ Coming(m)'
    <2>1. m \in Had \cup todo \/ Coming(m)
        <3>1. CASE m \in due
            BY <1>2, <3>1 DEF Fetching
        <3>2. CASE m \notin due
            <4>1. got[c] = 0 /\ m \in Newest(ScanDepth, InChannel(c))
                BY <1>1, <3>2
            <4>2. Channel[m] = c /\ Room(c) = ScanDepth
                BY <1>3, <1>10, <4>1 DEF Newest, Room
            <4>3. QED
                BY <1>1, <1>9, <4>1, <4>2 DEF Coming
        <3>3. QED
            BY <3>1, <3>2
    <2>2. CASE m \in Had \cup todo \/ m \in P
        BY <1>1, <1>2, <1>8, <2>2 DEF Fetching
    <2>3. CASE Coming(m) /\ Channel[m] # c
        <3>1. PICK d \in Channels : /\ d = Channel[m] /\ d # c /\ d \in open
                                     /\ m \in Newest(Room(d), Below(d))
            BY <2>3 DEF Coming, Typed, ImportTypeOK
        <3>2. d \in open' /\ Room(d)' = Room(d) /\ Below(d)' = Below(d)
            BY <1>1, <1>5, <1>7, <3>1 DEF Room, Below
        <3>3. Newest(Room(d), Below(d))' = Newest(Room(d), Below(d))
            BY <3>2 DEF Newest
        <3>4. QED
            BY <3>1, <3>2, <3>3 DEF Coming
    <2>4. CASE Coming(m) /\ Channel[m] = c /\ m \notin P
        <3>1. m \in Newest(Room(c), Below(c))
            BY <2>4 DEF Coming
        <3>2. /\ got[c] + Cardinality(P) < ScanDepth /\ Cardinality(P) = PageSize /\ P # {}
              /\ m \in Newest(Room(c) - Cardinality(P), {k \in InChannel(c) : k < Min(P)})
            BY <2>4, <3>1, PageBefore DEF P
        <3>3. ~Exhausted(c)
            BY <1>3, <1>4, <1>5, <3>2 DEF Exhausted, P
        <3>4. c \in open'
            BY <1>1, <3>3
        <3>5. Room(c)' = Room(c) - Cardinality(P)
            BY <1>3, <1>4, <1>5 DEF Room
        <3>6. Below(c)' = {k \in InChannel(c) : k < Min(P)}
            BY <1>5, <1>7, <3>2
        <3>7. m \in Newest(Room(c)', Below(c)')
            BY <3>2, <3>5, <3>6
        <3>8. QED
            BY <2>4, <3>4, <3>7 DEF Coming, Newest
    <2>5. QED
        BY <2>1, <2>2, <2>3, <2>4
<1>13. known' \subseteq Had'
    BY <1>1, <1>2, <1>8 DEF Fetching
<1>14. Fetching'
    BY <1>11, <1>12, <1>13 DEF Fetching
<1>15. QED
    BY <1>1, <1>2, <1>14 DEF Due

LEMMA FetchingStays ==
    ASSUME Fetching, UNCHANGED <<posted, known, open, before, got, todo, due>>,
           Had \subseteq Had'
    PROVE  Fetching'
<1>1. \A c \in Channels : Paged(c)'
    BY DEF Fetching, Paged
<1>2. ASSUME NEW m \in due' PROVE m \in Had' \cup todo' \/ Coming(m)'
    BY DEF Fetching, Coming, Room, Below, InChannel, Newest
<1>3. QED
    BY <1>1, <1>2 DEF Fetching

\* A step that is not the run's.
LEMMA DueStays ==
    ASSUME Typed, Typed', Due, UNCHANGED <<posted, pc, runVars, due, outcome>>,
           Had \subseteq Had'
    PROVE  Due'
<1>1. CASE pc = "fetch"
    BY <1>1, FetchingStays DEF Due, runVars
<1>2. CASE pc # "fetch"
    BY <1>2 DEF Due, runVars
<1>3. QED
    BY <1>1, <1>2

\* A new message is above every page.
LEMMA PostKeeps == ASSUME Typed, Due, Post PROVE Due'
<1>1. /\ posted' = posted + 1 /\ posted \in Nat /\ posted < MaxMsg
      /\ UNCHANGED <<liveRows, histRows, gone, pc, known, open, before, got, todo, due, outcome>>
    BY DEF Post, Typed, ImportTypeOK, runVars, historyVars, HistoryAssumption
<1>2. Had' = Had
    BY <1>1 DEF Had, Stored
<1>3. ASSUME Fetching PROVE Fetching'
    <2>1. got \in [Channels -> 0..ScanDepth] /\ before \in [Channels -> 1..(MaxMsg + 1)]
        BY DEF Typed, ImportTypeOK
    <2>2. ASSUME NEW c \in Channels PROVE Paged(c)'
        <3>1. Paged(c)
            BY <1>3 DEF Fetching
        <3>2. got[c] > 0 => before[c] <= posted'
            BY <1>1, <2>1, <3>1 DEF Paged
        <3>3. QED
            BY <1>1, <3>1, <3>2 DEF Paged
    <2>3. ASSUME NEW m \in due' PROVE m \in Had' \cup todo' \/ Coming(m)'
        <3>1. CASE m \in Had \cup todo
            BY <1>1, <1>2, <3>1
        <3>2. CASE Coming(m)
            <4>1. PICK c \in Channels : /\ c = Channel[m] /\ c \in open
                                         /\ m \in Newest(Room(c), Below(c))
                BY <3>2 DEF Coming, Typed, ImportTypeOK
            <4>2. got[c] # 0 /\ before[c] <= posted
                BY <1>1, <1>3, <2>1, <4>1 DEF Fetching, Paged
            <4>3. Below(c)' = Below(c)
                BY <1>1, <2>1, <4>2 DEF Below, InChannel
            <4>4. Room(c)' = Room(c)
                BY <1>1 DEF Room
            <4>5. m \in Newest(Room(c)', Below(c)')
                BY <4>1, <4>3, <4>4
            <4>6. QED
                BY <1>1, <4>1, <4>5 DEF Coming, Newest
        <3>3. QED
            BY <1>1, <1>3, <3>1, <3>2 DEF Fetching
    <2>4. QED
        BY <1>1, <1>2, <1>3, <2>2, <2>3 DEF Fetching
<1>4. QED
    BY <1>1, <1>2, <1>3 DEF Due

\* Of a channel that is closed, only what came is due.
LEMMA CloseKeeps ==
    ASSUME Typed, Due, NEW c \in Channels, ChannelClosed(c)
    PROVE  Due'
<1>1. /\ pc = "fetch" /\ pc' = "fetch" /\ open' = open \ {c}
      /\ due' = {m \in due : Channel[m] = c => m >= before[c]}
      /\ UNCHANGED <<posted, liveRows, histRows, gone, known, before, got, todo, outcome>>
    BY DEF ChannelClosed, envVars
<1>2. Fetching /\ outcome = "processing"
    BY <1>1 DEF Due
<1>3. Had' = Had
    BY <1>1 DEF Had, Stored
<1>4. \A d \in Channels : Paged(d)'
    BY <1>1, <1>2 DEF Fetching, Paged
<1>5. ASSUME NEW m \in due' PROVE m \in Had' \cup todo' \/ Coming(m)'
    <2>1. m \in Had \cup todo \/ Coming(m)
        BY <1>1, <1>2 DEF Fetching
    <2>2. CASE Coming(m)
        <3>1. m < before[Channel[m]] /\ m \in Nat
            BY <2>2, PageFits, MessagesAreNats DEF Coming, Newest, Below, Typed, ImportTypeOK
        <3>2. before[c] \in Nat
            BY DEF Typed, ImportTypeOK
        <3>3. Channel[m] # c
            BY <1>1, <3>1, <3>2
        <3>4. QED
            BY <1>1, <2>2, <3>3 DEF Coming, Room, Below, InChannel, Newest
    <2>3. QED
        BY <1>1, <1>3, <2>1, <2>2
<1>6. Fetching'
    BY <1>1, <1>2, <1>3, <1>4, <1>5 DEF Fetching
<1>7. QED
    BY <1>1, <1>2, <1>6 DEF Due

LEMMA DueInit == ImportInit => Due
BY DEF ImportInit, Due

\* When a run is over nothing of it is left.
LEMMA EndKeepsDue ==
    ASSUME Typed, EndJob, UNCHANGED <<due, gone>>, outcome' = "completed" => due \subseteq Had
    PROVE  Due'
<1>1. Had' = Had
    BY DEF EndJob, envVars, Had, Stored
<1>2. QED
    BY <1>1 DEF EndJob, Due

LEMMA DueStep == ASSUME Typed, Typed', Due, [ImportNext]_importVars PROVE Due'
<1>1. CASE Post
    BY <1>1, PostKeeps
<1>2. CASE AddJob \/ CopyGuild \/ SaveGuild \/ UNCHANGED importVars
    <2>1. UNCHANGED <<posted, pc, runVars, due, outcome, liveRows, histRows, gone>>
        BY <1>2 DEF AddJob, CopyGuild, SaveGuild, importVars, envVars, historyVars, runVars
    <2>2. Had' = Had
        BY <2>1 DEF Had, Stored
    <2>3. QED
        BY <2>1, <2>2, DueStays
<1>3. ASSUME NEW m \in Messages, LiveEnds(m) PROVE Due'
    <2>1. /\ UNCHANGED <<posted, pc, runVars, due, outcome, histRows, gone>>
          /\ liveRows \subseteq liveRows'
        BY <1>3 DEF LiveEnds, historyVars
    <2>2. Had \subseteq Had'
        <3>1. {k \in Messages : histRows'[k] > 0} = {k \in Messages : histRows[k] > 0}
            BY <2>1
        <3>2. Stored = liveRows \cup {k \in Messages : histRows[k] > 0}
              /\ Stored' = liveRows' \cup {k \in Messages : histRows'[k] > 0}
            BY Zenon DEF Stored
        <3>3. gone' = gone /\ liveRows \subseteq liveRows'
            BY <2>1
        <3>4. QED
            BY <3>1, <3>2, <3>3 DEF Had
    <2>3. QED
        BY <2>1, <2>2, DueStays
<1>4. CASE TakeJob
    <2>1. Had' = Had
        BY <1>4, HadSame DEF TakeJob, envVars, historyVars
    <2>2. QED
        BY <1>4, <2>1 DEF TakeJob, Due, runVars, historyVars
<1>5. CASE Run
    <2>1. CASE Begin
        <3>1. CASE EndJob /\ UNCHANGED <<status, historyVars>>
            BY <2>1, <3>1, EndKeepsDue DEF Due, historyVars
        <3>2. CASE pc' = "list"
            BY <2>1, <3>2 DEF Begin, Due, EndJob, runVars
        <3>3. QED
            BY <2>1, <3>1, <3>2 DEF Begin
    <2>2. CASE ListChannels \/ CountRows \/ PublishTotal \/ Throw
        <3>1. UNCHANGED <<due, outcome, liveRows, histRows, gone, got, before, todo>>
            BY <2>2 DEF ListChannels, CountRows, PublishTotal, Throw, envVars, runVars, historyVars
        <3>2. Had' = Had
            BY <3>1 DEF Had, Stored
        <3>3. QED
            BY <2>2, <3>1, <3>2 DEF ListChannels, CountRows, PublishTotal, Throw, Due
    <2>3. CASE ReadExisting
        <3>1. /\ pc = "read" /\ pc' = "fetch" /\ known' \subseteq Stored
              /\ UNCHANGED <<due, outcome, liveRows, histRows, got, before>>
            BY <2>3 DEF ReadExisting, envVars
        <3>2. Stored \subseteq Had'
            BY <3>1 DEF Had, Stored
        <3>3. due = {} /\ outcome = "processing"
              /\ \A c \in Channels : got[c] = 0 /\ before[c] = MaxMsg + 1
            BY <3>1 DEF Due
        <3>4. Fetching'
            BY <3>1, <3>2, <3>3 DEF Fetching, Paged
        <3>5. QED
            BY <3>1, <3>3, <3>4 DEF Due
    <2>4. CASE Fetched
        <3>1. /\ pc = "fetch" /\ open = {} /\ pc' = IF todo = {} THEN "complete" ELSE "insert"
              /\ UNCHANGED <<due, outcome, liveRows, histRows, gone, todo>>
            BY <2>4 DEF Fetched, envVars, runVars, historyVars
        <3>2. due \subseteq Had \cup todo /\ outcome = "processing"
            BY <3>1 DEF Due, Fetching, Coming
        <3>3. Had' = Had
            BY <3>1 DEF Had, Stored
        <3>4. QED
            BY <3>1, <3>2, <3>3 DEF Due
    <2>5. ASSUME NEW c \in Channels, FetchPage(c) \/ ChannelClosed(c) PROVE Due'
        BY <2>5, PageKeeps, CloseKeeps
    <2>6. ASSUME NEW chunk \in SUBSET todo, InsertChunk(chunk) PROVE Due'
        <3>1. /\ pc = "insert" /\ histRows' = Written(chunk) /\ todo' = todo \ chunk
              /\ pc' = IF todo' = {} THEN "count" ELSE "insert"
              /\ UNCHANGED <<due, outcome, liveRows, gone>>
            BY <2>6 DEF InsertChunk, envVars, historyVars
        <3>2. Had \subseteq Had' /\ chunk \subseteq Had'
            BY <3>1, WrittenAdds, HadStays DEF Had, Stored, Typed, ImportTypeOK
        <3>3. due \subseteq Had \cup todo /\ outcome = "processing"
            BY <3>1 DEF Due
        <3>4. QED
            BY <3>1, <3>2, <3>3 DEF Due
    <2>7. ASSUME NEW chunk \in SUBSET todo, InsertFails(chunk) PROVE Due'
        BY <2>7 DEF InsertFails, Due, historyVars
    <2>8. CASE Complete \/ Fail
        <3>1. EndJob /\ UNCHANGED <<due, gone>>
              /\ (outcome' = "completed" => due \subseteq Had)
            BY <2>8 DEF Complete, Fail, Due
        <3>2. QED
            BY <3>1, EndKeepsDue
    <2>9. QED
        BY <1>5, <2>1, <2>2, <2>3, <2>4, <2>5, <2>6, <2>7, <2>8 DEF Run
<1>6. CASE Crash
    <2>1. /\ pc' = "idle" /\ todo' = {} /\ UNCHANGED <<due, outcome, liveRows, gone>>
          /\ \A c \in Channels : got'[c] = 0 /\ before'[c] = MaxMsg + 1
          /\ pc # "insert" => histRows' = histRows
        BY <1>6 DEF Crash, envVars
    <2>2. outcome = "completed" => due \subseteq Had'
        <3>1. outcome = "completed" => pc # "insert" /\ due \subseteq Had
            BY DEF Due
        <3>2. outcome = "completed" => Had' = Had
            BY <2>1, <3>1, HadSame
        <3>3. QED
            BY <3>1, <3>2
    <2>3. QED
        BY <2>1, <2>2 DEF Due
<1>7. ASSUME NEW m \in Messages, RowLeaves(m) PROVE Due'
    <2>1. UNCHANGED <<posted, pc, runVars, due, outcome>>
        BY <1>7 DEF RowLeaves
    <2>2. Had \subseteq Had'
        BY <1>7 DEF RowLeaves, Had, Stored, Typed, ImportTypeOK
    <2>3. QED
        BY <2>1, <2>2, DueStays
<1>8. QED
    BY <1>1, <1>2, <1>3, <1>4, <1>5, <1>6, <1>7, HistoryAssumption DEF ImportNext

\* Whatever pages, chunks, new messages, faults and crashes did before, COMPLETED of the
\* import means that what it was to import is stored, or was until a row of it left
\* (ImportedWhenCompleted of HistorySync).
THEOREM Imported == ImportSpec => []ImportedWhenCompleted
<1>1. ImportInit => Typed /\ Due
    BY TypedInit, DueInit
<1>2. Typed /\ Due /\ [ImportNext]_importVars => (Typed /\ Due)'
    <2>1. Typed /\ [ImportNext]_importVars => Typed'
        BY TypedStep
    <2>2. QED
        BY <2>1, DueStep
<1>3. Typed /\ Due => ImportedWhenCompleted
    BY DEF Due, Had, ImportedWhenCompleted
<1>4. QED
    BY <1>1, <1>2, <1>3, PTL DEF ImportSpec

===============================================================================
