----------------------------- MODULE CountersProofs -----------------------------
(***************************************************************************)
(* Proofs about the counters, and about the numbers they show.               *)
(*                                                                         *)
(* The rate limiter: a young renaming is in the channel's list, or was pushed   *)
(* out of it by Limit newer entries, or is in the hands of a worker that has    *)
(* not done its record; or it is a stray, whose entry went with a list that     *)
(* expired before the record renewed it.  A check that succeeds finds fewer    *)
(* than Limit of the first, and leaves room for one more of each other worker; *)
(* a worker has one stray at a channel at most, since the next window begins   *)
(* after it.  What a channel shows: a counter always has a job to come, which  *)
(* waits, is to be added, or is to be found; or one in progress that has read  *)
(* what is stored; or is shown.                                              *)
(*                                                                         *)
(* The numbers (GuildCounts): a key, what no handler counted and what the      *)
(* handlers have yet to add are together Discord's number; and the last on the *)
(* wire of those that wait for a number brings the one the key has.          *)
(***************************************************************************)
EXTENDS Counters, GuildCounts, FiniteSetTheorems, TLAPS

USE CountersAssumption

-------------------------------------------------------------------------------
(* Types.                                                                  *)

LEMMA OneTask ==
    ASSUME TypeOK, NEW w \in Worker, NEW t \in Task \cup {Idle}, task' = [task EXCEPT ![w] = t]
    PROVE  /\ task' \in [Worker -> Task \cup {Idle}]
           /\ task'[w] = t
           /\ \A v \in Worker \ {w} : task'[v] = task[v]
BY DEF TypeOK

\* A worker that is at a phase has a job, a row and a number.
LEMMA AtTask ==
    ASSUME TypeOK, NEW w \in Worker, task[w].pc # "idle"
    PROVE  task[w] \in Task
BY DEF TypeOK, Idle

LEMMA GotoTyped ==
    ASSUME TypeOK, NEW w \in Worker, task[w].pc # "idle", NEW pc \in Phases, Goto(w, pc)
    PROVE  /\ task' \in [Worker -> Task \cup {Idle}]
           /\ task'[w].pc = pc /\ task'[w].job = task[w].job
           /\ \A v \in Worker \ {w} : task'[v] = task[v]
<1> DEFINE t == [task[w] EXCEPT !.pc = pc]
<1>1. t \in Task /\ t.pc = pc /\ t.job = task[w].job
    BY AtTask DEF Task
<1>2. task' = [task EXCEPT ![w] = t]
    BY DEF Goto
<1> HIDE DEF t
<1> QED BY <1>1, <1>2, OneTask

LEMMA EndTyped ==
    ASSUME TypeOK, NEW w \in Worker, End(w)
    PROVE  /\ task' \in [Worker -> Task \cup {Idle}]
           /\ task'[w] = Idle /\ task'[w].pc = "idle"
           /\ \A v \in Worker \ {w} : task'[v] = task[v]
BY OneTask DEF End, Idle

LEMMA OneRow ==
    ASSUME TypeOK, NEW c \in Counter, NEW r \in Row \cup {NoRow}, row' = [row EXCEPT ![c] = r]
    PROVE  row' \in [Counter -> Row \cup {NoRow}]
BY DEF TypeOK

LEMMA RowOf ==
    ASSUME TypeOK, NEW c \in Counter, Exists(c)
    PROVE  row[c] \in Row
BY DEF TypeOK, Exists

LEMMA TimesTyped ==
    ASSUME TypeOK
    PROVE  now \in Nat /\ seqs \in Nat /\ expiry \in [Channel -> Nat]
BY DEF TypeOK

LEMMA UseFields ==
    ASSUME TypeOK, NEW u \in uses
    PROVE  u.channel \in Channel /\ u.at \in Nat /\ u.by \in Worker /\ u.seq \in Nat
<1>1. u \in Use
    BY DEF TypeOK
<1> QED
    BY <1>1 DEF Use

LEMMA UpdateJobTyped ==
    ASSUME NEW c \in Counter, NEW r \in Row
    PROVE  UpdateJob(c, r) \in Job
BY DEF UpdateJob, Row, Job

LEMMA OrderTyped ==
    ASSUME NEW h \in Moment, NEW c \in Counter, NEW r \in Row
    PROVE  Order(h, c, r) \in [by : Moment, job : Job]
BY UpdateJobTyped DEF Order

LEMMA MomentTyped == TypeOK /\ Happens => happened' \in Moment
BY DEF TypeOK, Happens, Moment

LEMMA HappensTyped == TypeOK /\ Happens => happened' \in 0..MaxHappens /\ number \in 0..happened'
BY DEF TypeOK, Happens

LEMMA UsesTyped ==
    ASSUME TypeOK, NEW w \in Worker, NEW n \in Nat
    PROVE  /\ (uses \ Unaccounted(w)) \cup {[u EXCEPT !.seq = n] : u \in Unaccounted(w)}
                 \subseteq Use
           /\ (uses \ Unaccounted(w)) \cup {[u EXCEPT !.kept = TRUE] : u \in Unaccounted(w)}
                 \subseteq Use
<1>1. \A u \in uses : [u EXCEPT !.seq = n] \in Use /\ [u EXCEPT !.kept = TRUE] \in Use
    BY DEF TypeOK, Use
<1> QED BY <1>1 DEF Unaccounted, TypeOK

LEMMA PushTyped ==
    ASSUME TypeOK, NEW ch \in Channel, Push(ch)
    PROVE  list' \in [Channel -> SUBSET Entry] /\ seqs' \in Nat
<1> DEFINE e == [seq |-> seqs + 1, at |-> now]
<1>1. e \in Entry
    BY DEF TypeOK, Entry
<1>2. list[ch] \cup {e} \subseteq Entry
    BY <1>1 DEF TypeOK
<1> QED BY <1>2 DEF Push, TypeOK

LEMMA TrimTyped ==
    ASSUME TypeOK, NEW ch \in Channel, Trim(ch)
    PROVE  list' \in [Channel -> SUBSET Entry]
BY DEF Trim, TypeOK

LEMMA ExpireTyped ==
    ASSUME TypeOK, NEW ch \in Channel, Expire(ch)
    PROVE  expiry' \in [Channel -> Nat]
<1>1. now + Window \in Nat /\ expiry \in [Channel -> Nat]
    BY DEF TypeOK
<1> QED BY <1>1 DEF Expire

LEMMA RenameTyped ==
    ASSUME TypeOK, NEW w \in Worker, task[w].pc # "idle", Rename(w)
    PROVE  name' \in [Channel -> {<<>>} \cup (Text \X Number)]
<1>1. task[w] \in Task
    BY AtTask
<1>2. <<task[w].row.text, task[w].value>> \in Text \X Number
    BY <1>1 DEF Task, Row
<1>3. task[w].job.channel \in Channel
    BY <1>1 DEF Task, Job
<1> QED BY <1>2, <1>3 DEF Rename, TypeOK

LEMMA SavedTyped ==
    ASSUME TypeOK, NEW w \in Worker, task[w].pc # "idle", NEW st \in {"active", "error"}
    PROVE  Saved(w, st) \in Row /\ [task[w].row EXCEPT !.status = st] \in Row
<1>1. task[w] \in Task
    BY AtTask
<1> QED BY <1>1 DEF Task, Row, Saved, Text, Number

\* An order of a finite set is a sequence of its elements.
LEMMA OrdersTyped ==
    ASSUME NEW S, IsFiniteSet(S), NEW s \in Orders(S)
    PROVE  s \in Seq(S)
<1>1. Cardinality(S) \in Nat
    BY FS_CardinalityType
<1> QED BY <1>1 DEF Orders

LEMMA AddersTyped == TypeOK /\ Adders => TypeOK'
<1> SUFFICES ASSUME TypeOK, Adders PROVE TypeOK'
    OBVIOUS
<1> USE DEF limiter, user, adders
<1>1. ASSUME NEW h \in finding, FindCounters(h) PROVE TypeOK'
    <2>1. h \in Moment
        BY DEF TypeOK
    <2>2. \A c \in {x \in Counter : Exists(x)} : Order(h, c, row[c]) \in [by : Moment, job : Job]
        BY <2>1, RowOf, OrderTyped
    <2>3. todo' \subseteq [by : Moment, job : Job]
        BY <1>1, <2>2 DEF FindCounters, TypeOK
    <2> QED BY <1>1, <2>3 DEF FindCounters, TypeOK
<1>2. ASSUME NEW o \in todo, AddJob(o) PROVE TypeOK'
    <2>1. o.job \in Job
        BY DEF TypeOK
    <2>2. queue' \in Seq(Job)
        BY <1>2, <2>1 DEF AddJob, TypeOK
    <2> QED BY <1>2, <2>2 DEF AddJob, TypeOK
<1>3. CASE JobsLost
    <2>1. PICK S \in SUBSET finding, T \in SUBSET todo :
             /\ finding' = finding \ S /\ todo' = todo \ T
             /\ disturbed' = disturbed \cup {o.job.counter : o \in T}
                               \cup {c \in Counter : S # {} /\ Exists(c)}
        BY <1>3 DEF JobsLost
    <2>2. \A o \in T : o.job.counter \in Counter
        BY DEF TypeOK, Job
    <2>3. disturbed' \subseteq Counter
        BY <2>1, <2>2 DEF TypeOK
    <2> QED BY <1>3, <2>1, <2>3, HappensTyped DEF JobsLost, TypeOK
<1> QED BY <1>1, <1>2, <1>3 DEF Adders

LEMMA CrashTyped == TypeOK /\ Crash => queue' \in Seq(Job) /\ disturbed' \subseteq Counter
<1> SUFFICES ASSUME TypeOK, Crash PROVE queue' \in Seq(Job) /\ disturbed' \subseteq Counter
    OBVIOUS
<1> DEFINE S == {w \in Busy : ~task[w].job.stalled}
<1> DEFINE back(s) == [i \in DOMAIN s |-> [task[s[i]].job EXCEPT !.stalled = TRUE]]
<1>1. PICK s \in Orders(S) : queue' = back(s) \o queue
    BY DEF Crash
<1>2. S \subseteq Worker /\ IsFiniteSet(S)
    BY FS_Subset DEF Busy
<1>3. s \in Seq(S)
    BY <1>2, OrdersTyped
<1>4. \A w \in Busy : task[w] \in Task
    BY DEF Busy, TypeOK
<1>5. \A w \in S : [task[w].job EXCEPT !.stalled = TRUE] \in Job
    BY <1>4 DEF Task, Job
<1>6. \A i \in DOMAIN s : [task[s[i]].job EXCEPT !.stalled = TRUE] \in Job
    BY <1>3, <1>5
<1>7. back(s) \in Seq(Job)
    BY <1>3, <1>6
<1>8. {task[w].job.counter : w \in Busy} \subseteq Counter
    BY <1>4 DEF Task, Job
<1>9. queue \in Seq(Job) /\ disturbed \subseteq Counter
    BY DEF TypeOK
<1>10. disturbed' = disturbed \cup {task[w].job.counter : w \in Busy}
    BY DEF Crash
<1> HIDE DEF back
<1> QED BY <1>1, <1>7, <1>8, <1>9, <1>10

\* The steps of users.
LEMMA UsersTyped == TypeOK /\ Users => TypeOK'
<1> SUFFICES ASSUME TypeOK, Users PROVE TypeOK'
    OBVIOUS
<1>1. ASSUME NEW c \in Counter, NEW ch \in Channel, Create(c, ch) PROVE TypeOK'
    <2> DEFINE r == [channel |-> ch, text |-> 0, value |-> 0, status |-> "active"]
    <2>1. r \in Row
        BY DEF Row, Text, Number
    <2>2. row' = [row EXCEPT ![c] = r] /\ row'[c] = r
        BY <1>1 DEF Create, TypeOK
    <2>3. row' \in [Counter -> Row \cup {NoRow}]
        BY <2>1, <2>2, OneRow
    <2>4. todo' \subseteq [by : Moment, job : Job]
        <3>1. Order(happened', c, row'[c]) \in [by : Moment, job : Job]
            BY <1>1, <2>1, <2>2, MomentTyped, OrderTyped DEF Create
        <3> QED BY <1>1, <3>1 DEF Create, TypeOK
    <2> QED BY <1>1, <2>3, <2>4, HappensTyped DEF Create, TypeOK, limiter, user
<1>2. ASSUME NEW c \in Counter, ReadForEdit(c) PROVE TypeOK'
    BY <1>2, RowOf, HappensTyped, MomentTyped DEF ReadForEdit, TypeOK, limiter, adders
<1>3. ASSUME NEW ch \in Channel, SaveEdit(ch) PROVE TypeOK'
    <2> DEFINE r == [edit.row EXCEPT !.text = edit.by, !.channel = ch]
    <2>1. edit.counter \in Counter /\ edit.row \in Row /\ edit.by \in Moment /\ edit.by \in Text
        BY <1>3 DEF SaveEdit, TypeOK, Text, Moment
    <2>2. r \in Row
        BY <2>1 DEF Row
    <2>3. row' = [row EXCEPT ![edit.counter] = r] /\ row'[edit.counter] = r
        BY <1>3, <2>1 DEF SaveEdit, TypeOK
    <2>4. row' \in [Counter -> Row \cup {NoRow}]
        BY <2>1, <2>2, <2>3, OneRow
    <2>5. todo' \subseteq [by : Moment, job : Job]
        <3>1. Order(edit.by, edit.counter, row'[edit.counter]) \in [by : Moment, job : Job]
            BY <2>1, <2>2, <2>3, OrderTyped
        <3> QED BY <1>3, <3>1 DEF SaveEdit, TypeOK
    <2> QED BY <1>3, <2>4, <2>5 DEF SaveEdit, TypeOK, limiter
<1>4. ASSUME NEW c \in Counter, Remove(c) PROVE TypeOK'
    <2>1. row' \in [Counter -> Row \cup {NoRow}]
        BY <1>4, OneRow DEF Remove
    <2>2. [UpdateJob(c, row[c]) EXCEPT !.type = "delete"] \in Job
        BY <1>4, RowOf, UpdateJobTyped DEF Remove, Job
    <2>3. queue' \in Seq(Job)
        <3> DEFINE j == [UpdateJob(c, row[c]) EXCEPT !.type = "delete"]
        <3>1. j \in Job /\ queue \in Seq(Job) /\ (queue' = Append(queue, j) \/ queue' = queue)
            BY <1>4, <2>2 DEF Remove, TypeOK
        <3> HIDE DEF j
        <3> QED BY <3>1
    <2> QED BY <1>4, <2>1, <2>3, HappensTyped DEF Remove, TypeOK, limiter, adders
<1> QED BY <1>1, <1>2, <1>3, <1>4 DEF Users

\* The steps of a job.
LEMMA StepTyped == \A w \in Worker : TypeOK /\ Step(w) => TypeOK'
<1> SUFFICES ASSUME NEW w \in Worker, TypeOK, Step(w) PROVE TypeOK'
    OBVIOUS
<1> USE DEF At, limiter, user, adders
<1>0. task[w].pc # "idle" => task[w] \in Task /\ task[w].job \in Job /\ task[w].row \in Row
                             /\ task[w].job.counter \in Counter /\ task[w].job.channel \in Channel
    BY AtTask DEF Task, Job
<1>a. ASSUME task[w].pc # "idle", Disturb(w) PROVE disturbed' \subseteq Counter
    BY <1>a, <1>0 DEF Disturb, TypeOK
<1>1. CASE Load(w)
    <2> DEFINE j == Head(queue)
    <2> DEFINE t == [pc |-> "loaded", job |-> j, row |-> row[j.counter], value |-> 0]
    <2>1. queue # <<>> /\ Exists(j.counter) /\ task' = [task EXCEPT ![w] = t]
          /\ queue' = Tail(queue)
        BY <1>1 DEF Load
    <2>2. j \in Job /\ queue' \in Seq(Job)
        BY <2>1 DEF TypeOK
    <2>3. j.counter \in Counter
        BY <2>2 DEF Job
    <2>4. t \in Task
        BY <2>1, <2>2, <2>3, RowOf DEF Task, Phases, Number
    <2>5. task' \in [Worker -> Task \cup {Idle}]
        BY <2>1, <2>4, OneTask
    <2>6. disturbed' \subseteq Counter
        BY <1>1, <2>3 DEF Load, TypeOK
    <2> QED BY <1>1, <2>2, <2>5, <2>6 DEF Load, TypeOK
<1>2. CASE GetMetricValue(w)
    <2> DEFINE t == [task[w] EXCEPT !.pc = "valued", !.value = number]
    <2>0. number \in Number
        BY DEF TypeOK, Number
    <2>1. t \in Task
        BY <1>2, <1>0, <2>0 DEF GetMetricValue, Task, Phases
    <2>2. task' = [task EXCEPT ![w] = t]
        BY <1>2 DEF GetMetricValue
    <2>3. task' \in [Worker -> Task \cup {Idle}]
        BY <2>1, <2>2, OneTask
    <2> QED BY <1>2, <2>3 DEF GetMetricValue, TypeOK
<1>3. CASE CheckRateLimit(w)
    <2>1. task' \in [Worker -> Task \cup {Idle}] /\ disturbed' \subseteq Counter
        BY <1>3, <1>a, GotoTyped, EndTyped DEF CheckRateLimit, Phases, TypeOK
    <2> QED BY <1>3, <2>1 DEF CheckRateLimit, TypeOK
<1>4. CASE SetChannelName(w)
    <2>1. task' \in [Worker -> Task \cup {Idle}]
        BY <1>4, GotoTyped DEF SetChannelName, Phases
    <2>2. name' \in [Channel -> {<<>>} \cup (Text \X Number)]
        BY <1>4, RenameTyped DEF SetChannelName
    <2>3. [channel |-> task[w].job.channel, at |-> now, by |-> w, seq |-> Unrecorded,
           kept |-> FALSE] \in Use
        BY <1>4, <1>0 DEF SetChannelName, Use, TypeOK, Unrecorded
    <2>4. uses' \subseteq Use
        BY <1>4, <2>3 DEF SetChannelName, TypeOK
    <2>5. disturbed' \subseteq Counter
        BY <1>4 DEF SetChannelName, Sharing, TypeOK
    <2> QED BY <1>4, <2>1, <2>2, <2>4, <2>5 DEF SetChannelName, TypeOK
<1>5. CASE RenameFails(w)
    <2>1. task' \in [Worker -> Task \cup {Idle}]
        BY <1>5, GotoTyped, EndTyped DEF RenameFails, Phases
    <2>2. name' \in [Channel -> {<<>>} \cup (Text \X Number)]
        BY <1>5, RenameTyped DEF RenameFails, TypeOK
    <2>3. disturbed' \subseteq Counter
        BY <1>5, <1>0, <1>a DEF RenameFails, Sharing, TypeOK
    <2> QED BY <1>5, <2>1, <2>2, <2>3, HappensTyped DEF RenameFails, TypeOK
<1>6. CASE RecordPush(w)
    <2>1. task' \in [Worker -> Task \cup {Idle}]
        BY <1>6, GotoTyped DEF RecordPush, Phases
    <2>2. list' \in [Channel -> SUBSET Entry] /\ seqs' \in Nat
        BY <1>6, <1>0, PushTyped DEF RecordPush
    <2>3. uses' \subseteq Use
        <3>1. seqs + 1 \in Nat
            BY DEF TypeOK
        <3> QED BY <1>6, <3>1, UsesTyped DEF RecordPush
    <2> QED BY <1>6, <2>1, <2>2, <2>3 DEF RecordPush, TypeOK
<1>11. CASE RecordTrim(w)
    <2>1. task' \in [Worker -> Task \cup {Idle}]
        BY <1>11, GotoTyped DEF RecordTrim, Phases
    <2>2. list' \in [Channel -> SUBSET Entry]
        BY <1>11, <1>0, TrimTyped DEF RecordTrim
    <2> QED BY <1>11, <2>1, <2>2 DEF RecordTrim, TypeOK
<1>12. CASE RecordExpire(w)
    <2>1. task' \in [Worker -> Task \cup {Idle}]
        BY <1>12, GotoTyped DEF RecordExpire, Phases
    <2>2. expiry' \in [Channel -> Nat]
        BY <1>12, <1>0, ExpireTyped DEF RecordExpire
    <2>3. uses' \subseteq Use
        BY <1>12, UsesTyped DEF RecordExpire
    <2> QED BY <1>12, <2>1, <2>2, <2>3 DEF RecordExpire, TypeOK
<1>13. CASE ReadFails(w)
    <2>1. task' \in [Worker -> Task \cup {Idle}]
        <3>1. CASE task[w].pc \in {"loaded", "valued"} /\ End(w)
            BY <3>1, EndTyped
        <3>2. CASE At(w, "loaded") /\ \E n \in 0..number :
                      task' = [task EXCEPT ![w].pc = "valued", ![w].value = n]
            <4>1. PICK n \in 0..number : task' = [task EXCEPT ![w].pc = "valued", ![w].value = n]
                BY <3>2
            <4> DEFINE t == [task[w] EXCEPT !.pc = "valued", !.value = n]
            <4>2. n \in Number
                BY DEF TypeOK, Number
            <4>3. t \in Task
                BY <3>2, <1>0, <4>2 DEF Task, Phases
            <4>4. task' = [task EXCEPT ![w] = t]
                BY <4>1
            <4> QED BY <4>3, <4>4, OneTask
        <3> QED BY <1>13, <3>1, <3>2 DEF ReadFails
    <2>2. disturbed' \subseteq Counter
        BY <1>13, <1>a DEF ReadFails
    <2> QED BY <1>13, <2>1, <2>2, HappensTyped DEF ReadFails, TypeOK
<1>7. CASE RecordFails(w)
    <2>0. task[w].pc # "idle"
        BY <1>7 DEF RecordFails
    <2>1. task' \in [Worker -> Task \cup {Idle}]
        BY <1>7, <2>0, GotoTyped DEF RecordFails, Phases
    <2>2. list' \in [Channel -> SUBSET Entry] /\ seqs' \in Nat /\ expiry' \in [Channel -> Nat]
        BY <1>7, <1>0, <2>0, PushTyped, TrimTyped, ExpireTyped DEF RecordFails, TypeOK
    <2>3. disturbed' \subseteq Counter
        BY <1>7, <1>a, <2>0 DEF RecordFails
    <2> QED BY <1>7, <2>1, <2>2, <2>3, HappensTyped DEF RecordFails, TypeOK
<1>8. CASE SaveCounter(w)
    <2>1. task' \in [Worker -> Task \cup {Idle}]
        BY <1>8, EndTyped DEF SaveCounter
    <2>2. row' \in [Counter -> Row \cup {NoRow}]
        BY <1>8, <1>0, SavedTyped, OneRow DEF SaveCounter
    <2> QED BY <1>8, <2>1, <2>2 DEF SaveCounter, TypeOK
<1>9. CASE SaveFails(w)
    <2> DEFINE t == [task[w] EXCEPT !.pc = "failing", !.row = Saved(w, "active")]
    <2>1. Saved(w, "active") \in Row
        BY <1>9, SavedTyped DEF SaveFails
    <2>2. t \in Task
        BY <1>9, <1>0, <2>1 DEF SaveFails, Task, Phases
    <2>3. task' = [task EXCEPT ![w] = t]
        BY <1>9 DEF SaveFails
    <2>4. task' \in [Worker -> Task \cup {Idle}]
        BY <2>2, <2>3, OneTask
    <2>5. disturbed' \subseteq Counter
        BY <1>9, <1>a DEF SaveFails
    <2> QED BY <1>9, <2>4, <2>5, HappensTyped DEF SaveFails, TypeOK
<1>10. CASE SaveError(w)
    <2>1. task' \in [Worker -> Task \cup {Idle}]
        BY <1>10, EndTyped DEF SaveError
    <2>2. row' \in [Counter -> Row \cup {NoRow}]
        <3>1. CASE UNCHANGED row
            BY <3>1 DEF TypeOK
        <3>2. CASE row' = [row EXCEPT ![task[w].job.counter] = [task[w].row EXCEPT !.status = "error"]]
            BY <1>10, <3>2, <1>0, SavedTyped, OneRow DEF SaveError
        <3> QED BY <1>10, <3>1, <3>2 DEF SaveError
    <2> QED BY <1>10, <2>1, <2>2 DEF SaveError, TypeOK
<1> QED BY <1>1, <1>2, <1>3, <1>4, <1>5, <1>6, <1>7, <1>8, <1>9, <1>10, <1>11,
           <1>12, <1>13 DEF Step

LEMMA TypingStep == TypeOK /\ [Next]_vars => TypeOK'
<1> SUFFICES ASSUME TypeOK, [Next]_vars PROVE TypeOK'
    OBVIOUS
<1> USE DEF limiter, user, adders
<1>1. CASE Event
    <2>1. number' \in 0..happened' /\ happened' \in 0..MaxHappens
        BY <1>1 DEF Event, Happens, TypeOK
    <2>2. finding' \subseteq Moment
        BY <1>1, MomentTyped DEF Event, TypeOK
    <2> QED BY <1>1, <2>1, <2>2 DEF Event, TypeOK
<1>2. CASE Skip
    BY <1>2 DEF Skip, TypeOK
<1>3. CASE Crash
    BY <1>3, CrashTyped, HappensTyped DEF Crash, TypeOK
<1>4. CASE Tick
    BY <1>4 DEF Tick, Losing, TypeOK, Never
<1>5. CASE UNCHANGED vars
    BY <1>5 DEF vars, TypeOK
<1> QED BY <1>1, <1>2, <1>3, <1>4, <1>5, UsersTyped, AddersTyped, StepTyped DEF Next

LEMMA TypingInit == Init => TypeOK
BY DEF Init, TypeOK, Number, Never

\* The counters' state has its type (TypeOK of Counters).
THEOREM TypeCorrect == Spec => []TypeOK
BY TypingInit, TypingStep, PTL DEF Spec

-------------------------------------------------------------------------------
(* The inductive invariant.                                                *)

\* A renaming whose record is not done is in the hands of the worker that made it.
Held ==
    \A u \in uses : ~u.kept =>
       /\ task[u.by].job.channel = u.channel
       /\ IF u.seq = Unrecorded THEN task[u.by].pc = "renamed"
                                ELSE task[u.by].pc \in {"pushed", "trimmed"}

\* A number belongs to one renaming, a worker has one whose record is not done.
Single ==
    /\ \A u \in uses : u.kept => u.seq # Unrecorded
    /\ \A u, v \in uses : /\ u.seq = v.seq /\ u.seq # Unrecorded => u = v
                          /\ u.by = v.by /\ ~u.kept /\ ~v.kept => u = v

Clocked == \A u \in uses : u.at <= now /\ now < u.at + Window /\ u.seq <= seqs

\* The entries of a list come in the order of their numbers.
Listed ==
    \A ch \in Channel :
       /\ IsFiniteSet(list[ch])
       /\ \A e \in list[ch] :
             /\ e.seq <= seqs /\ e.at <= now
             /\ \A f \in list[ch] : (e.seq = f.seq => e = f) /\ (e.seq < f.seq => e.at <= f.at)

InList(u) == \E e \in list[u.channel] : e.seq = u.seq /\ u.at <= e.at
PushedOut(u) == /\ Limit <= Cardinality(list[u.channel])
                /\ \A e \in list[u.channel] : u.at <= e.at

\* The list accounts for every recorded renaming, and outlives it when the record is done.
Accounted ==
    \A u \in uses : u.seq # Unrecorded =>
       /\ u.kept => expiry[u.channel] = Never \/ u.at + Window <= expiry[u.channel]
       /\ InList(u) \/ PushedOut(u)

\* A stray went with its list: the next list of the channel outlives it, and so there
\* is one of each worker.
Astray ==
    /\ \A u \in strays :
          /\ u.at <= now /\ now < u.at + Window
          /\ expiry[u.channel] = Never \/ u.at + Window <= expiry[u.channel]
    /\ \A u, v \in strays : u.channel = v.channel /\ u.by = v.by => u = v

\* Workers that may rename the channel next.
Pending(ch) == {w \in Worker : task[w].pc = "checked" /\ task[w].job.channel = ch}

Room ==
    \A ch \in Channel :
       Cardinality(UsesOf(ch)) + Cardinality(Pending(ch)) <= Limit + Cardinality(Worker) - 1

Records == Held /\ Single /\ Clocked /\ Listed /\ Accounted
BudgetInv == TypeOK /\ IsFiniteSet(uses) /\ Records /\ Astray /\ Room

-------------------------------------------------------------------------------
(* Counting.                                                               *)

LEMMA Sizes ==
    ASSUME TypeOK, IsFiniteSet(uses), NEW ch
    PROVE  /\ UsesOf(ch) \subseteq uses /\ IsFiniteSet(UsesOf(ch))
           /\ Cardinality(UsesOf(ch)) \in Nat
           /\ Pending(ch) \subseteq Worker /\ IsFiniteSet(Pending(ch))
           /\ Cardinality(Pending(ch)) \in Nat
           /\ Cardinality(Worker) \in Nat /\ Cardinality(Worker) >= 1
<1>1. UsesOf(ch) \subseteq uses /\ IsFiniteSet(UsesOf(ch))
    BY FS_Subset DEF UsesOf
<1>2. Pending(ch) \subseteq Worker /\ IsFiniteSet(Pending(ch))
    BY FS_Subset DEF Pending
<1>3. Cardinality(Worker) \in Nat /\ Cardinality(Worker) # 0
    BY FS_CardinalityType, FS_EmptySet
<1> QED BY <1>1, <1>2, <1>3, FS_CardinalityType

\* The recorded renamings of a channel are no more than its recent entries, when
\* there are fewer of these than Limit.
LEMMA RecordedInList ==
    ASSUME TypeOK, IsFiniteSet(uses), Records, NEW ch \in Channel,
           Cardinality(Recent(ch)) < Limit
    PROVE  LET R == {u \in UsesOf(ch) : u.seq # Unrecorded}
           IN  IsFiniteSet(R) /\ Cardinality(R) <= Limit - 1 /\ Cardinality(R) \in Nat
<1> DEFINE R == {u \in UsesOf(ch) : u.seq # Unrecorded}
<1>1. IsFiniteSet(list[ch]) /\ list[ch] \subseteq Entry
    BY DEF Records, Listed, TypeOK
<1>2. Recent(ch) \subseteq list[ch] /\ IsFiniteSet(Recent(ch)) /\ Cardinality(Recent(ch)) \in Nat
    BY <1>1, FS_Subset, FS_CardinalityType DEF Recent
<1>3. \A u \in R : u \in Use /\ u.channel = ch /\ u.seq # Unrecorded /\ u \in uses
    BY DEF TypeOK, UsesOf
<1>4. \A u \in R : \E e \in Recent(ch) : e.seq = u.seq
    <2> SUFFICES ASSUME NEW u \in R PROVE \E e \in Recent(ch) : e.seq = u.seq
        OBVIOUS
    <2>1. InList(u) \/ PushedOut(u)
        BY <1>3 DEF Records, Accounted
    <2>2. u.at \in Nat /\ now < u.at + Window /\ now \in Nat
        BY <1>3 DEF Records, Clocked, Use, TypeOK
    <2>3. \A e \in list[ch] : u.at <= e.at => e \in Recent(ch)
        <3> TAKE e \in list[ch]
        <3>1. e.at \in Nat
            BY <1>1 DEF Entry
        <3> QED BY <3>1, <2>2 DEF Recent
    <2>4. CASE InList(u)
        BY <2>3, <2>4, <1>3 DEF InList
    <2>5. CASE PushedOut(u)
        <3>1. Recent(ch) = list[ch]
            BY <1>2, <1>3, <2>3, <2>5 DEF PushedOut
        <3>2. Limit <= Cardinality(list[ch])
            BY <1>3, <2>5 DEF PushedOut
        <3> QED BY <1>2, <3>1, <3>2
    <2> QED BY <2>1, <2>4, <2>5
<1>5. PICK g \in [R -> Recent(ch)] : \A u \in R : g[u].seq = u.seq
    <2> DEFINE h == [u \in R |-> CHOOSE e \in Recent(ch) : e.seq = u.seq]
    <2>1. \A u \in R : h[u] \in Recent(ch) /\ h[u].seq = u.seq
        BY <1>4
    <2>2. h \in [R -> Recent(ch)]
        BY <2>1
    <2> HIDE DEF h
    <2> QED BY <2>1, <2>2
<1>6. \A u, v \in R : g[u] = g[v] => u = v
    BY <1>3, <1>5 DEF Records, Single
<1>7. g \in Injection(R, Recent(ch))
    BY <1>5, <1>6 DEF Injection, IsInjective
<1>8. IsFiniteSet(R) /\ Cardinality(R) <= Cardinality(Recent(ch))
    BY <1>2, <1>7, FS_Injection
<1>9. Cardinality(R) \in Nat
    BY <1>8, FS_CardinalityType
<1> QED BY <1>2, <1>8, <1>9

\* The unrecorded renamings and the workers about to rename are the other workers.
LEMMA OthersInHand ==
    ASSUME TypeOK, IsFiniteSet(uses), Records, NEW ch \in Channel,
           NEW w \in Worker, task[w].pc = "valued"
    PROVE  LET U == {u \in UsesOf(ch) : u.seq = Unrecorded}
           IN  /\ IsFiniteSet(U) /\ Cardinality(U) \in Nat
               /\ Cardinality(U) + Cardinality(Pending(ch)) <= Cardinality(Worker) - 1
<1> DEFINE U == {u \in UsesOf(ch) : u.seq = Unrecorded}
<1> DEFINE H == {v \in Worker : task[v].pc = "renamed"}
<1>1. H \subseteq Worker /\ IsFiniteSet(H) /\ Cardinality(H) \in Nat
    BY FS_Subset, FS_CardinalityType
<1>2. \A u \in U : u \in uses /\ u.by \in H /\ u.seq = Unrecorded
    BY DEF UsesOf, Records, Held, Single, TypeOK, Use
<1>3. IsFiniteSet(U) /\ Cardinality(U) <= Cardinality(H) /\ Cardinality(U) \in Nat
    <2> DEFINE g == [u \in U |-> u.by]
    <2>1. g \in [U -> H] /\ \A u \in U : g[u] = u.by
        BY <1>2
    <2>2. \A u, v \in U : g[u] = g[v] => u = v
        BY <1>2, <2>1 DEF Records, Single
    <2>3. g \in Injection(U, H)
        BY <2>1, <2>2 DEF Injection, IsInjective
    <2>4. IsFiniteSet(U) /\ Cardinality(U) <= Cardinality(H)
        BY <1>1, <2>3, FS_Injection
    <2> QED BY <2>4, FS_CardinalityType
<1>4. Cardinality(H \cup Pending(ch)) = Cardinality(H) + Cardinality(Pending(ch))
    <2>1. H \cap Pending(ch) = {}
        BY DEF Pending
    <2>2. IsFiniteSet(Pending(ch)) /\ Cardinality(Pending(ch)) \in Nat
        BY Sizes
    <2>3. Cardinality(H \cup Pending(ch)) =
             Cardinality(H) + Cardinality(Pending(ch)) - Cardinality(H \cap Pending(ch))
        BY <1>1, <2>2, FS_Union
    <2>4. Cardinality(H \cap Pending(ch)) = 0
        BY <2>1, FS_EmptySet
    <2> HIDE DEF H
    <2> QED BY <1>1, <2>2, <2>3, <2>4
<1>5. Cardinality(H \cup Pending(ch)) <= Cardinality(Worker) - 1
    <2>1. H \cup Pending(ch) \subseteq Worker \ {w}
        BY DEF Pending
    <2>2. IsFiniteSet(Worker \ {w}) /\ Cardinality(Worker \ {w}) = Cardinality(Worker) - 1
        BY FS_RemoveElement
    <2> QED BY <2>1, <2>2, FS_Subset
<1>6. Cardinality(Pending(ch)) \in Nat /\ Cardinality(Worker) \in Nat
    BY Sizes
<1> QED BY <1>1, <1>3, <1>4, <1>5, <1>6

\* A check that succeeds leaves room for its own renaming.
LEMMA RoomAfterCheck ==
    ASSUME BudgetInv, NEW w \in Worker, task[w].pc = "valued",
           Cardinality(Recent(task[w].job.channel)) < Limit, task[w].job.channel \in Channel
    PROVE  Cardinality(UsesOf(task[w].job.channel)) + Cardinality(Pending(task[w].job.channel)) + 1
              <= Limit + Cardinality(Worker) - 1
<1> DEFINE ch == task[w].job.channel
<1> DEFINE R == {u \in UsesOf(ch) : u.seq # Unrecorded}
<1> DEFINE U == {u \in UsesOf(ch) : u.seq = Unrecorded}
<1>1. IsFiniteSet(R) /\ Cardinality(R) <= Limit - 1 /\ Cardinality(R) \in Nat
    BY RecordedInList DEF BudgetInv
<1>2. /\ IsFiniteSet(U) /\ Cardinality(U) \in Nat
      /\ Cardinality(U) + Cardinality(Pending(ch)) <= Cardinality(Worker) - 1
    BY OthersInHand DEF BudgetInv
<1>3. UsesOf(ch) = R \cup U /\ R \cap U = {}
    OBVIOUS
<1>4. Cardinality(UsesOf(ch)) = Cardinality(R) + Cardinality(U)
    <2>1. Cardinality(R \cup U) = Cardinality(R) + Cardinality(U) - Cardinality(R \cap U)
        BY <1>1, <1>2, FS_Union
    <2>2. Cardinality(R \cap U) = 0
        BY <1>3, FS_EmptySet
    <2> HIDE DEF R, U
    <2> QED BY <1>1, <1>2, <1>3, <2>1, <2>2
<1>5. Cardinality(Pending(ch)) \in Nat /\ Cardinality(Worker) \in Nat
    BY Sizes DEF BudgetInv
<1>6. Cardinality(UsesOf(ch)) + Cardinality(Pending(ch)) + 1 <= Limit + Cardinality(Worker) - 1
    <2> HIDE DEF R, U, ch
    <2> QED BY <1>1, <1>2, <1>4, <1>5
<1> QED BY <1>6

-------------------------------------------------------------------------------
(* How steps move renamings and records.                                   *)

\* A step that leaves the limiter alone and lets no worker through.
Still ==
    /\ UNCHANGED <<list, expiry, now, seqs, uses, strays>>
    /\ \A w \in Worker :
          /\ task'[w].pc = "checked" => task[w].pc = "checked" /\ task'[w].job = task[w].job
          /\ task[w].pc \in {"renamed", "pushed", "trimmed"} =>
                task'[w].pc = task[w].pc /\ task'[w].job = task[w].job

Passes(w) ==
    /\ UNCHANGED <<list, expiry, now, seqs, uses, strays>>
    /\ task[w].pc = "valued" /\ Cardinality(Recent(task[w].job.channel)) < Limit
    /\ Goto(w, "checked")

RecordsOf(w) == RecordPush(w) \/ RecordTrim(w) \/ RecordExpire(w) \/ RecordFails(w)

\* A step of one task outside the phases that count.
LEMMA StillTask ==
    ASSUME TypeOK, NEW w \in Worker, NEW t \in Task \cup {Idle}, task' = [task EXCEPT ![w] = t],
           UNCHANGED <<list, expiry, now, seqs, uses, strays>>,
           t.pc # "checked", task[w].pc \notin {"renamed", "pushed", "trimmed"}
    PROVE  Still
BY OneTask DEF Still

LEMMA StepKinds ==
    ASSUME TypeOK, [Next]_vars
    PROVE  \/ Still \/ Crash \/ Tick
           \/ \E w \in Worker : Passes(w) \/ SetChannelName(w) \/ RecordsOf(w)
<1> USE DEF limiter
<1>1. CASE Users \/ Event \/ Adders \/ Skip
    BY <1>1 DEF Users, Create, ReadForEdit, SaveEdit, Remove, Event, Skip, Adders, FindCounters,
                AddJob, JobsLost, Still
<1>2. CASE UNCHANGED vars
    BY <1>2 DEF vars, Still
<1>3. ASSUME NEW w \in Worker, Step(w)
      PROVE  Still \/ Passes(w) \/ SetChannelName(w) \/ RecordsOf(w)
    <2> USE DEF At
    <2>0. ASSUME task[w].pc # "idle"
          PROVE  /\ \A n \in Number : LET t == [task[w] EXCEPT !.pc = "valued", !.value = n]
                                     IN  t \in Task /\ t.pc = "valued"
                 /\ \A r \in Row : LET t == [task[w] EXCEPT !.pc = "failing", !.row = r]
                                  IN  t \in Task /\ t.pc = "failing"
                 /\ \A pc \in Phases : LET t == [task[w] EXCEPT !.pc = pc]
                                      IN  t \in Task /\ t.pc = pc
        BY <2>0, AtTask DEF Task, Phases
    <2>a. number \in Number
        BY DEF TypeOK, Number
    <2>b. Idle \in Task \cup {Idle} /\ Idle.pc = "idle"
        BY DEF Idle
    <2>1. CASE Load(w)
        <3>1. task[w].pc = "idle"
            BY <2>1 DEF Load, Idle
        <3> DEFINE j == Head(queue)
        <3> DEFINE t == [pc |-> "loaded", job |-> j, row |-> row[j.counter], value |-> 0]
        <3>2. task' = [task EXCEPT ![w] = t] /\ t.pc = "loaded"
              /\ UNCHANGED <<list, expiry, now, seqs, uses, strays>>
              /\ queue # <<>> /\ Exists(j.counter)
            BY <2>1 DEF Load
        <3>3. j \in Job
            BY <3>2 DEF TypeOK
        <3>4. j.counter \in Counter /\ row[j.counter] \in Row
            BY <3>2, <3>3, RowOf DEF Job
        <3> HIDE DEF j
        <3>5. t \in Task
            BY <3>3, <3>4 DEF Task, Phases, Number
        <3> HIDE DEF t
        <3> QED BY <3>1, <3>2, <3>5, StillTask
    <2>2. CASE GetMetricValue(w)
        <3>1. task' = [task EXCEPT ![w] = [task[w] EXCEPT !.pc = "valued", !.value = number]]
              /\ UNCHANGED <<list, expiry, now, seqs, uses, strays>> /\ task[w].pc = "loaded"
            BY <2>2 DEF GetMetricValue
        <3> QED BY <2>0, <2>a, <3>1, StillTask
    <2>3. CASE CheckRateLimit(w)
        <3>1. CASE End(w)
            BY <2>3, <2>b, <3>1, StillTask DEF CheckRateLimit, End
        <3>2. CASE ~End(w)
            BY <2>3, <3>2 DEF CheckRateLimit, Passes
        <3> QED BY <3>1, <3>2
    <2>4. CASE RenameFails(w)
        <3>1. CASE End(w)
            BY <2>4, <2>b, <3>1, StillTask DEF RenameFails, End
        <3>2. CASE Goto(w, "failing")
            <4>1. task' = [task EXCEPT ![w] = [task[w] EXCEPT !.pc = "failing"]]
                  /\ UNCHANGED <<list, expiry, now, seqs, uses, strays>> /\ task[w].pc = "checked"
                BY <2>4, <3>2 DEF RenameFails, Goto
            <4>2. "failing" \in Phases
                BY DEF Phases
            <4> QED BY <2>0, <4>1, <4>2, StillTask
        <3> QED BY <2>4, <3>1, <3>2 DEF RenameFails
    <2>5. CASE SaveCounter(w) \/ SaveError(w)
        BY <2>5, <2>b, StillTask DEF SaveCounter, SaveError, End
    <2>6. CASE SaveFails(w)
        <3>1. task' = [task EXCEPT ![w] = [task[w] EXCEPT !.pc = "failing", !.row = Saved(w, "active")]]
              /\ UNCHANGED <<list, expiry, now, seqs, uses, strays>> /\ task[w].pc = "recorded"
            BY <2>6 DEF SaveFails
        <3>2. Saved(w, "active") \in Row
            BY <3>1, SavedTyped
        <3> QED BY <2>0, <3>1, <3>2, StillTask
    <2>7. CASE ReadFails(w)
        <3>1. CASE task[w].pc \in {"loaded", "valued"} /\ End(w)
            BY <2>7, <2>b, <3>1, StillTask DEF ReadFails, End
        <3>2. CASE At(w, "loaded") /\ \E n \in 0..number :
                      task' = [task EXCEPT ![w].pc = "valued", ![w].value = n]
            <4>1. PICK n \in 0..number :
                     task' = [task EXCEPT ![w] = [task[w] EXCEPT !.pc = "valued", !.value = n]]
                BY <3>2
            <4>2. n \in Number
                BY DEF TypeOK, Number
            <4> QED BY <2>0, <2>7, <3>2, <4>1, <4>2, StillTask DEF ReadFails
        <3> QED BY <2>7, <3>1, <3>2 DEF ReadFails
    <2> QED BY <1>3, <2>1, <2>2, <2>3, <2>4, <2>5, <2>6, <2>7 DEF Step, RecordsOf
<1> QED BY <1>1, <1>2, <1>3 DEF Next

\* LPUSH keeps the account of every renaming recorded before, and lists its own.
LEMMA PushList ==
    ASSUME TypeOK, Records, NEW ch \in Channel, Push(ch), now' = now
    PROVE  /\ [seq |-> seqs + 1, at |-> now] \in list'[ch]
           /\ Listed'
           /\ \A x \in uses : x.seq # Unrecorded => InList(x)' \/ PushedOut(x)'
<1> USE DEF Records
<1> DEFINE new == [seq |-> seqs + 1, at |-> now]
<1>1. list[ch] \subseteq Entry /\ seqs \in Nat /\ now \in Nat /\ new \in Entry
      /\ new.seq = seqs + 1 /\ new.at = now /\ seqs' = seqs + 1
    BY DEF TypeOK, Entry, Push
<1>2. list'[ch] = list[ch] \cup {new} /\ \A c \in Channel \ {ch} : list'[c] = list[c]
    BY DEF Push, TypeOK
<1>3. \A e \in list[ch] : e.seq \in Nat /\ e.at \in Nat /\ e.seq <= seqs /\ e.at <= now
    BY <1>1 DEF Listed, Entry
<1>4. new \notin list[ch]
    BY <1>1, <1>3
<1>5. /\ IsFiniteSet(list[ch]) /\ Cardinality(list[ch]) \in Nat
      /\ IsFiniteSet(list'[ch]) /\ Cardinality(list'[ch]) = Cardinality(list[ch]) + 1
    BY <1>2, <1>4, FS_AddElement, FS_CardinalityType DEF Listed
<1>6. \A e, f \in list[ch] \cup {new} :
         /\ e.seq \in Nat /\ e.at \in Nat /\ e.seq <= seqs + 1 /\ e.at <= now
         /\ e.seq = f.seq => e = f
         /\ e.seq < f.seq => e.at <= f.at
    BY <1>1, <1>3 DEF Listed
<1> HIDE DEF new
<1>7. Listed'
    <2> SUFFICES ASSUME NEW c \in Channel
                 PROVE  /\ IsFiniteSet(list'[c])
                        /\ \A e \in list'[c] :
                              /\ e.seq <= seqs' /\ e.at <= now'
                              /\ \A f \in list'[c] : /\ e.seq = f.seq => e = f
                                                     /\ e.seq < f.seq => e.at <= f.at
        BY DEF Listed
    <2>1. CASE c = ch
        BY <1>1, <1>2, <1>5, <1>6, <2>1
    <2>2. CASE c # ch
        <3>1. list'[c] = list[c] /\ list[c] \subseteq Entry
            BY <1>2, <2>2 DEF TypeOK
        <3>2. \A e \in list[c] : e.seq <= seqs + 1
            BY <1>1, <3>1 DEF Listed, Entry
        <3> QED BY <1>1, <3>1, <3>2 DEF Listed
    <2> QED BY <2>1, <2>2
<1>8. ASSUME NEW x \in uses, x.seq # Unrecorded PROVE InList(x)' \/ PushedOut(x)'
    <2>1. x.channel \in Channel /\ x.at \in Nat /\ x.at <= now /\ (InList(x) \/ PushedOut(x))
        BY <1>8, UseFields DEF Clocked, Accounted
    <2>2. CASE x.channel # ch
        BY <1>2, <2>1, <2>2 DEF InList, PushedOut
    <2>3. CASE x.channel = ch
        <3>1. InList(x) => InList(x)'
            BY <1>2, <2>3 DEF InList
        <3>2. ASSUME PushedOut(x) PROVE PushedOut(x)'
            <4>1. Limit <= Cardinality(list[ch]) /\ \A e \in list[ch] : x.at <= e.at
                BY <2>3, <3>2 DEF PushedOut
            <4>2. \A e \in list'[ch] : x.at <= e.at
                BY <1>1, <1>2, <2>1, <4>1
            <4>3. Limit <= Cardinality(list'[ch])
                BY <1>5, <4>1
            <4> QED BY <2>3, <4>2, <4>3 DEF PushedOut
        <3> QED BY <2>1, <3>1, <3>2
    <2> QED BY <2>2, <2>3
<1> QED BY <1>2, <1>7, <1>8 DEF new

\* LTRIM does, too: what goes is older than the Limit entries that stay.
LEMMA TrimList ==
    ASSUME TypeOK, Records, NEW ch \in Channel, Trim(ch), UNCHANGED <<now, seqs>>
    PROVE  /\ Listed'
           /\ \A x \in uses : x.seq # Unrecorded => InList(x)' \/ PushedOut(x)'
<1> USE DEF Records
<1>1. PICK newest \in SUBSET list[ch] :
         /\ \A e \in newest, f \in list[ch] \ newest : f.seq < e.seq
         /\ IF Cardinality(list[ch]) <= Limit THEN newest = list[ch]
                                              ELSE Cardinality(newest) = Limit
         /\ list' = [list EXCEPT ![ch] = newest]
    BY DEF Trim
<1>2. list'[ch] = newest /\ \A c \in Channel \ {ch} : list'[c] = list[c]
    BY <1>1 DEF TypeOK
<1>3. IsFiniteSet(list[ch]) /\ IsFiniteSet(newest)
    BY <1>1, FS_Subset DEF Listed
<1>4. \A e \in list[ch] : e.at \in Nat /\ e.seq \in Nat
    BY DEF TypeOK, Entry
<1>5. Listed'
    <2> SUFFICES ASSUME NEW c \in Channel
                 PROVE  /\ IsFiniteSet(list'[c])
                        /\ \A e \in list'[c] :
                              /\ e.seq <= seqs' /\ e.at <= now'
                              /\ \A f \in list'[c] : /\ e.seq = f.seq => e = f
                                                     /\ e.seq < f.seq => e.at <= f.at
        BY DEF Listed
    <2>1. IsFiniteSet(list'[c]) /\ list'[c] \subseteq list[c]
        BY <1>2, <1>3 DEF Listed
    <2> QED BY <2>1 DEF Listed
<1>6. ASSUME NEW x \in uses, x.seq # Unrecorded PROVE InList(x)' \/ PushedOut(x)'
    <2>1. x.channel \in Channel /\ x.at \in Nat /\ (InList(x) \/ PushedOut(x))
        BY <1>6, UseFields DEF Accounted
    <2>2. CASE x.channel # ch
        BY <1>2, <2>1, <2>2 DEF InList, PushedOut
    <2>3. CASE x.channel = ch /\ newest = list[ch]
        BY <1>2, <2>1, <2>3 DEF InList, PushedOut
    <2>4. CASE x.channel = ch /\ newest # list[ch]
        <3>1. Limit <= Cardinality(newest)
            BY <1>1, <2>4
        <3>2. CASE PushedOut(x)
            BY <1>2, <2>4, <3>1, <3>2 DEF PushedOut
        <3>3. CASE InList(x)
            <4>1. PICK e \in list[ch] : e.seq = x.seq /\ x.at <= e.at
                BY <2>4, <3>3 DEF InList
            <4>2. CASE e \in newest
                BY <1>2, <2>4, <4>1, <4>2 DEF InList
            <4>3. CASE e \notin newest
                <5>1. \A f \in newest : e.at <= f.at
                    BY <1>1, <4>3 DEF Listed
                <5>2. \A f \in newest : x.at <= f.at
                    BY <1>4, <2>1, <4>1, <5>1
                <5> QED BY <1>2, <2>4, <3>1, <5>2 DEF PushedOut
            <4> QED BY <4>2, <4>3
        <3> QED BY <2>1, <3>2, <3>3
    <2> QED BY <2>2, <2>3, <2>4
<1> QED BY <1>5, <1>6

\* EXPIRE puts the end of the list after all that is young.
LEMMA ExpireLater ==
    ASSUME TypeOK, NEW ch \in Channel, Expire(ch), NEW c \in Channel, NEW at \in Nat, at <= now,
           expiry[c] = Never \/ at + Window <= expiry[c]
    PROVE  expiry'[c] = Never \/ at + Window <= expiry'[c]
<1>1. now \in Nat /\ expiry \in [Channel -> Nat]
    BY TimesTyped
<1>2. expiry'[c] \in {expiry[c], now + Window}
    BY <1>1 DEF Expire
<1> QED BY <1>1, <1>2

\* The list that a recorded renaming is in is there.
LEMMA ExpireSets ==
    ASSUME TypeOK, Records, NEW x \in uses, x.seq # Unrecorded, Expire(x.channel)
    PROVE  x.at + Window <= expiry'[x.channel]
<1>1. x.channel \in Channel /\ x.at \in Nat /\ x.at <= now /\ (InList(x) \/ PushedOut(x))
    BY UseFields DEF Records, Clocked, Accounted
<1>2. list[x.channel] # {}
    <2>1. Cardinality({}) = 0
        BY FS_EmptySet
    <2> QED BY <1>1, <2>1 DEF InList, PushedOut
<1>3. now \in Nat /\ expiry \in [Channel -> Nat]
    BY TimesTyped
<1> QED BY <1>1, <1>2, <1>3 DEF Expire

-------------------------------------------------------------------------------
(* Each kind of step keeps the records and the room.                        *)

\* What a renaming's account rests on.
LEMMA AccountedKept ==
    ASSUME Accounted, UNCHANGED <<list, expiry>>,
           \A u \in uses' : u.seq # Unrecorded => u \in uses
    PROVE  Accounted'
BY DEF Accounted, InList, PushedOut

LEMMA AstrayKept ==
    ASSUME Astray, UNCHANGED <<expiry, now, strays>>
    PROVE  Astray'
BY DEF Astray

\* A step after which fewer workers are about to rename, with no more renamings.
LEMMA RoomKept ==
    ASSUME BudgetInv, IsFiniteSet(uses'),
           \A ch \in Channel : /\ Cardinality(UsesOf(ch)') <= Cardinality(UsesOf(ch))
                               /\ Pending(ch)' \subseteq Pending(ch)
           , TypeOK'
    PROVE  Room'
<1> SUFFICES ASSUME NEW ch \in Channel
             PROVE  Cardinality(UsesOf(ch)') + Cardinality(Pending(ch)')
                       <= Limit + Cardinality(Worker) - 1
    BY DEF Room
<1>1. /\ Cardinality(UsesOf(ch)) \in Nat /\ Cardinality(Pending(ch)) \in Nat
      /\ IsFiniteSet(Pending(ch)) /\ Cardinality(Worker) \in Nat
    BY Sizes DEF BudgetInv
<1>2. IsFiniteSet(UsesOf(ch)') /\ Cardinality(UsesOf(ch)') \in Nat
    <2>1. UsesOf(ch)' \subseteq uses'
        BY DEF UsesOf
    <2> QED BY <2>1, FS_Subset, FS_CardinalityType
<1>3. Cardinality(Pending(ch)') <= Cardinality(Pending(ch)) /\ Cardinality(Pending(ch)') \in Nat
    BY <1>1, FS_Subset, FS_CardinalityType
<1>4. Cardinality(UsesOf(ch)) + Cardinality(Pending(ch)) <= Limit + Cardinality(Worker) - 1
    BY DEF BudgetInv, Room
<1> QED BY <1>1, <1>2, <1>3, <1>4

LEMMA SmallerUses ==
    ASSUME TypeOK, IsFiniteSet(uses), uses' \subseteq uses
    PROVE  /\ IsFiniteSet(uses')
           /\ \A ch \in Channel : Cardinality(UsesOf(ch)') <= Cardinality(UsesOf(ch))
<1>1. IsFiniteSet(uses')
    BY FS_Subset
<1>2. ASSUME NEW ch \in Channel PROVE Cardinality(UsesOf(ch)') <= Cardinality(UsesOf(ch))
    <2>1. UsesOf(ch)' \subseteq UsesOf(ch) /\ IsFiniteSet(UsesOf(ch))
        BY Sizes DEF UsesOf
    <2> QED BY <2>1, FS_Subset
<1> QED BY <1>1, <1>2

LEMMA StillKeeps ==
    ASSUME BudgetInv, TypeOK', Still
    PROVE  BudgetInv'
<1> USE DEF BudgetInv, Records
<1>1. Held'
    BY DEF Held, Still, TypeOK, Use
<1>2. Single' /\ Clocked' /\ Listed'
    BY DEF Single, Clocked, Listed, Still
<1>3. Accounted'
    BY AccountedKept DEF Still
<1>7. Astray'
    BY AstrayKept DEF Still
<1>4. uses' = uses /\ IsFiniteSet(uses')
    BY DEF Still
<1>5. \A ch \in Channel : Pending(ch)' \subseteq Pending(ch)
    BY DEF Still, Pending
<1>6. Room'
    BY <1>4, <1>5, SmallerUses, RoomKept
<1> QED BY <1>1, <1>2, <1>3, <1>4, <1>6, <1>7

LEMMA PassesKeeps ==
    ASSUME BudgetInv, TypeOK', NEW w \in Worker, Passes(w)
    PROVE  BudgetInv'
<1> USE DEF BudgetInv, Records
<1>0. /\ task'[w].pc = "checked" /\ task'[w].job = task[w].job
      /\ task[w].pc = "valued"
      /\ \A v \in Worker \ {w} : task'[v] = task[v]
    BY GotoTyped DEF Passes, Phases
<1>a. task[w].job.channel \in Channel
    BY <1>0, AtTask DEF Task, Job
<1>1. Held'
    BY <1>0 DEF Held, Passes, TypeOK, Use
<1>2. Single' /\ Clocked' /\ Listed'
    BY DEF Single, Clocked, Listed, Passes
<1>3. Accounted'
    BY AccountedKept DEF Passes
<1>6. Astray'
    BY AstrayKept DEF Passes
<1>4. uses' = uses /\ IsFiniteSet(uses')
    BY DEF Passes
<1>5. Room'
    <2> SUFFICES ASSUME NEW ch \in Channel
                 PROVE  Cardinality(UsesOf(ch)') + Cardinality(Pending(ch)')
                           <= Limit + Cardinality(Worker) - 1
        BY DEF Room
    <2>1. UsesOf(ch)' = UsesOf(ch)
        BY <1>4 DEF UsesOf
    <2>2. /\ Cardinality(UsesOf(ch)) \in Nat /\ Cardinality(Pending(ch)) \in Nat
          /\ IsFiniteSet(Pending(ch)) /\ Cardinality(Worker) \in Nat
        BY Sizes
    <2>3. CASE ch = task[w].job.channel
        <3>1. Pending(ch)' = Pending(ch) \cup {w}
            BY <1>0, <2>3 DEF Pending
        <3>2. Cardinality(Pending(ch)') <= Cardinality(Pending(ch)) + 1
              /\ Cardinality(Pending(ch)') \in Nat
            <4>1. IsFiniteSet(Pending(ch) \cup {w}) /\
                  Cardinality(Pending(ch) \cup {w}) =
                     IF w \in Pending(ch) THEN Cardinality(Pending(ch)) ELSE Cardinality(Pending(ch)) + 1
                BY <2>2, FS_AddElement
            <4> HIDE DEF Pending
            <4> QED BY <2>2, <3>1, <4>1
        <3>3. Cardinality(UsesOf(ch)) + Cardinality(Pending(ch)) + 1
                 <= Limit + Cardinality(Worker) - 1
            BY <1>0, <1>a, <2>3, RoomAfterCheck DEF Passes
        <3> QED BY <2>1, <2>2, <3>2, <3>3
    <2>4. CASE ch # task[w].job.channel
        <3>1. Pending(ch)' = Pending(ch)
            BY <1>0, <2>4 DEF Pending
        <3>2. Cardinality(UsesOf(ch)) + Cardinality(Pending(ch)) <= Limit + Cardinality(Worker) - 1
            BY DEF Room
        <3> QED BY <2>1, <3>1, <3>2
    <2> QED BY <2>3, <2>4
<1> QED BY <1>1, <1>2, <1>3, <1>4, <1>5, <1>6

\* A renaming: the worker is no longer about to rename, and has its use in hand.
LEMMA RenamedUses ==
    ASSUME BudgetInv, NEW w \in Worker, SetChannelName(w), NEW ch, ch = task[w].job.channel
    PROVE  LET u == [channel |-> ch, at |-> now, by |-> w, seq |-> Unrecorded,
                    kept |-> FALSE]
           IN  /\ ch \in Channel /\ w \in Pending(ch)
               /\ u \notin uses /\ uses' = uses \cup {u} /\ IsFiniteSet(uses')
               /\ UsesOf(ch)' = UsesOf(ch) \cup {u}
               /\ Cardinality(UsesOf(ch)') = Cardinality(UsesOf(ch)) + 1
               /\ \A c \in Channel \ {ch} : UsesOf(c)' = UsesOf(c)
<1> DEFINE u == [channel |-> ch, at |-> now, by |-> w, seq |-> Unrecorded,
                    kept |-> FALSE]
<1>1. task[w] \in Task /\ task[w].pc = "checked"
    BY AtTask DEF SetChannelName, At, BudgetInv
<1>2. ch \in Channel /\ w \in Pending(ch)
    BY <1>1 DEF Task, Job, Pending
<1>3. u.seq = Unrecorded /\ u.by = w /\ u.channel = ch /\ ~u.kept
    OBVIOUS
<1>4. u \notin uses
    BY <1>1, <1>3 DEF BudgetInv, Records, Held
<1>5. uses' = uses \cup {u}
    BY DEF SetChannelName
<1> HIDE DEF u
<1>6. IsFiniteSet(uses')
    BY <1>5, FS_AddElement DEF BudgetInv
<1>7. UsesOf(ch)' = UsesOf(ch) \cup {u} /\ u \notin UsesOf(ch)
    BY <1>3, <1>4, <1>5 DEF UsesOf
<1>8. IsFiniteSet(UsesOf(ch))
    BY Sizes DEF BudgetInv
<1>9. Cardinality(UsesOf(ch)') = Cardinality(UsesOf(ch)) + 1
    BY <1>7, <1>8, FS_AddElement
<1>10. \A c \in Channel \ {ch} : UsesOf(c)' = UsesOf(c)
    BY <1>3, <1>5 DEF UsesOf
<1> QED BY <1>2, <1>4, <1>5, <1>6, <1>7, <1>9, <1>10 DEF u

LEMMA RenameKeeps ==
    ASSUME BudgetInv, TypeOK', NEW w \in Worker, SetChannelName(w)
    PROVE  BudgetInv'
<1>0. PICK ch : ch = task[w].job.channel
    OBVIOUS
<1> DEFINE u == [channel |-> ch, at |-> now, by |-> w, seq |-> Unrecorded,
                    kept |-> FALSE]
<1>1. /\ task'[w].pc = "renamed" /\ task'[w].job = task[w].job
      /\ task[w].pc = "checked"
      /\ \A v \in Worker \ {w} : task'[v] = task[v]
    BY GotoTyped DEF SetChannelName, At, Phases, BudgetInv
<1>2. UNCHANGED <<list, expiry, now, seqs, strays>>
    BY DEF SetChannelName, limiter
<1>3. /\ ch \in Channel /\ w \in Pending(ch)
      /\ u \notin uses /\ uses' = uses \cup {u} /\ IsFiniteSet(uses')
      /\ Cardinality(UsesOf(ch)') = Cardinality(UsesOf(ch)) + 1
      /\ \A c \in Channel \ {ch} : UsesOf(c)' = UsesOf(c)
    BY <1>0, RenamedUses
<1>4. u.seq = Unrecorded /\ u.by = w /\ u.channel = ch /\ u.at = now /\ ~u.kept
    OBVIOUS
<1> HIDE DEF u
<1>5. \A x \in uses : x.by \in Worker /\ (~x.kept => x.by # w)
    BY <1>1 DEF BudgetInv, Records, Held, TypeOK, Use
<1>6. Held'
    BY <1>0, <1>1, <1>3, <1>4, <1>5 DEF BudgetInv, Records, Held
<1>7. Single'
    BY <1>3, <1>4, <1>5 DEF BudgetInv, Records, Single
<1>8. Clocked'
    <2>1. now \in Nat /\ seqs \in Nat
        BY DEF BudgetInv, TypeOK
    <2>2. u.at <= now /\ now < u.at + Window /\ u.seq <= seqs
        BY <1>4, <2>1 DEF Unrecorded
    <2> QED BY <1>2, <1>3, <2>2 DEF BudgetInv, Records, Clocked
<1>9. Listed'
    BY <1>2 DEF BudgetInv, Records, Listed
<1>10. Accounted'
    <2>1. \A x \in uses' : x.seq # Unrecorded => x \in uses
        BY <1>3, <1>4
    <2> QED BY <1>2, <2>1, AccountedKept DEF BudgetInv, Records
<1>12. Astray'
    BY <1>2, AstrayKept DEF BudgetInv
<1>11. Room'
    <2> SUFFICES ASSUME NEW c \in Channel
                 PROVE  Cardinality(UsesOf(c)') + Cardinality(Pending(c)')
                           <= Limit + Cardinality(Worker) - 1
        BY DEF Room
    <2>1. /\ Cardinality(UsesOf(c)) \in Nat /\ Cardinality(Pending(c)) \in Nat
          /\ IsFiniteSet(Pending(c)) /\ Cardinality(Worker) \in Nat
        BY Sizes DEF BudgetInv
    <2>2. Cardinality(UsesOf(c)) + Cardinality(Pending(c)) <= Limit + Cardinality(Worker) - 1
        BY DEF BudgetInv, Room
    <2>3. CASE c = ch
        <3>1. Pending(c)' = Pending(c) \ {w}
            BY <1>0, <1>1, <2>3 DEF Pending
        <3>2. Cardinality(Pending(c)') = Cardinality(Pending(c)) - 1
            <4>1. w \in Pending(c)
                BY <1>3, <2>3
            <4>2. Cardinality(Pending(c) \ {w}) = Cardinality(Pending(c)) - 1
                BY <4>1, <2>1, FS_RemoveElement
            <4> HIDE DEF Pending
            <4> QED BY <3>1, <4>2
        <3>3. Cardinality(UsesOf(c)') = Cardinality(UsesOf(c)) + 1
            BY <1>3, <2>3
        <3> QED BY <2>1, <2>2, <3>2, <3>3
    <2>4. CASE c # ch
        <3>1. UsesOf(c)' = UsesOf(c)
            BY <1>3, <2>4
        <3>2. Pending(c)' = Pending(c)
            BY <1>0, <1>1, <2>4 DEF Pending
        <3> QED BY <2>2, <3>1, <3>2
    <2> QED BY <2>3, <2>4
<1> QED BY <1>3, <1>6, <1>7, <1>8, <1>9, <1>10, <1>11, <1>12 DEF BudgetInv, Records

\* A worker has one renaming whose record is not done, or none.
LEMMA OneUnaccounted ==
    ASSUME BudgetInv, NEW w \in Worker
    PROVE  /\ Unaccounted(w) = {} \/ \E u \in uses : Unaccounted(w) = {u} /\ u.by = w /\ ~u.kept
           /\ \A x \in uses \ Unaccounted(w) : ~x.kept => x.by # w
BY DEF BudgetInv, Records, Single, Unaccounted

\* Exchanging a renaming for another one of the same channel.
LEMMA ExchangedUses ==
    ASSUME TypeOK, IsFiniteSet(uses), NEW u \in uses, NEW v, v.channel = u.channel,
           uses' = (uses \ {u}) \cup {v}
    PROVE  /\ IsFiniteSet(uses')
           /\ \A ch \in Channel : Cardinality(UsesOf(ch)') <= Cardinality(UsesOf(ch))
<1>1. IsFiniteSet(uses \ {u})
    BY FS_RemoveElement
<1>2. IsFiniteSet(uses')
    BY <1>1, FS_AddElement
<1>3. ASSUME NEW ch \in Channel PROVE Cardinality(UsesOf(ch)') <= Cardinality(UsesOf(ch))
    <2>1. IsFiniteSet(UsesOf(ch)) /\ Cardinality(UsesOf(ch)) \in Nat
        BY Sizes
    <2>2. CASE u.channel # ch
        <3>1. UsesOf(ch)' = UsesOf(ch)
            BY <2>2 DEF UsesOf
        <3> QED BY <2>1, <3>1
    <2>3. CASE u.channel = ch
        <3>1. UsesOf(ch)' = (UsesOf(ch) \ {u}) \cup {v} /\ u \in UsesOf(ch)
            BY <2>3 DEF UsesOf
        <3>2. /\ IsFiniteSet(UsesOf(ch) \ {u})
              /\ Cardinality(UsesOf(ch) \ {u}) = Cardinality(UsesOf(ch)) - 1
            BY <2>1, <3>1, FS_RemoveElement
        <3>3. Cardinality((UsesOf(ch) \ {u}) \cup {v}) =
                 IF v \in UsesOf(ch) \ {u} THEN Cardinality(UsesOf(ch) \ {u})
                                           ELSE Cardinality(UsesOf(ch) \ {u}) + 1
            BY <3>2, FS_AddElement
        <3> HIDE DEF UsesOf
        <3> QED BY <2>1, <3>1, <3>2, <3>3
    <2> QED BY <2>2, <2>3
<1> QED BY <1>2, <1>3

\* LPUSH gives the worker's renaming the number of its entry.
LEMMA PushKeeps ==
    ASSUME BudgetInv, TypeOK', NEW w \in Worker, RecordPush(w)
    PROVE  BudgetInv'
<1> USE DEF BudgetInv
<1>0. PICK ch : ch = task[w].job.channel
    OBVIOUS
<1>1. /\ task'[w].pc = "pushed" /\ task'[w].job = task[w].job /\ task[w].pc = "renamed"
      /\ \A v \in Worker \ {w} : task'[v] = task[v]
    BY GotoTyped DEF RecordPush, At, Phases
<1>2. /\ ch \in Channel /\ Push(ch) /\ seqs' = seqs + 1 /\ UNCHANGED <<now, expiry, strays>>
      /\ uses' = (uses \ Unaccounted(w)) \cup {[u EXCEPT !.seq = seqs + 1] : u \in Unaccounted(w)}
    BY <1>0, <1>1, AtTask DEF RecordPush, Push, Task, Job
<1>3. \A x \in uses : /\ x.seq \in Nat /\ x.seq <= seqs /\ x.by \in Worker /\ x.channel \in Channel
                      /\ x.at \in Nat /\ x.at <= now /\ now < x.at + Window
    BY UseFields DEF Records, Clocked
<1>4. now \in Nat /\ seqs \in Nat
    BY TimesTyped
\* What the renamings are afterwards.
<1>5. /\ IsFiniteSet(uses')
      /\ \A c \in Channel : Cardinality(UsesOf(c)') <= Cardinality(UsesOf(c))
      /\ \A x \in uses' :
            \/ x \in uses /\ (~x.kept => x.by # w)
            \/ /\ x.seq = seqs + 1 /\ x.channel = ch /\ ~x.kept /\ x.by = w
               /\ x.at \in Nat /\ x.at <= now /\ now < x.at + Window
      /\ \A x, y \in uses' : x.seq = seqs + 1 /\ y.seq = seqs + 1 => x = y
    <2>1. CASE Unaccounted(w) = {}
        <3>1. uses' = uses
            BY <1>2, <2>1
        <3>2. \A x \in uses : ~x.kept => x.by # w
            BY <2>1 DEF Unaccounted
        <3> QED BY <1>3, <1>4, <3>1, <3>2, SmallerUses
    <2>2. CASE \E u \in uses : Unaccounted(w) = {u} /\ u.by = w /\ ~u.kept
        <3>1. PICK u \in uses : Unaccounted(w) = {u} /\ u.by = w /\ ~u.kept
            BY <2>2
        <3> DEFINE v == [u EXCEPT !.seq = seqs + 1]
        <3>2. uses' = (uses \ {u}) \cup {v}
            BY <1>2, <3>1
        <3>3. u \in Use /\ u.channel = ch
            BY <1>0, <3>1 DEF Records, Held, TypeOK
        <3>4. /\ v.channel = u.channel /\ v.seq = seqs + 1 /\ v.at = u.at /\ v.by = w /\ ~v.kept
            BY <3>1, <3>3 DEF Use
        <3> HIDE DEF v
        <3>5. /\ IsFiniteSet(uses')
              /\ \A c \in Channel : Cardinality(UsesOf(c)') <= Cardinality(UsesOf(c))
            BY <3>2, <3>4, ExchangedUses
        <3>6. \A x \in uses \ {u} : ~x.kept => x.by # w
            BY <3>1, OneUnaccounted
        <3>7. \A x \in uses : x.seq # seqs + 1
            BY <1>3, <1>4
        <3> QED BY <1>3, <3>2, <3>3, <3>4, <3>5, <3>6, <3>7
    <2> QED BY <2>1, <2>2, OneUnaccounted
<1>6. Held'
    BY <1>0, <1>1, <1>3, <1>4, <1>5 DEF Records, Held, Unrecorded
<1>7. Single'
    BY <1>3, <1>4, <1>5 DEF Records, Single, Unrecorded
<1>8. Clocked'
    BY <1>2, <1>3, <1>4, <1>5 DEF Clocked
<1>9. Listed'
    BY <1>2, PushList
<1>10. Accounted'
    <2> SUFFICES ASSUME NEW x \in uses', x.seq # Unrecorded
                 PROVE  /\ x.kept => expiry'[x.channel] = Never \/ x.at + Window <= expiry'[x.channel]
                        /\ InList(x)' \/ PushedOut(x)'
        BY DEF Accounted
    <2>1. CASE x \in uses
        BY <1>2, <2>1, PushList DEF Records, Accounted
    <2>2. CASE x.seq = seqs + 1 /\ x.channel = ch /\ ~x.kept /\ x.at <= now
        <3> DEFINE new == [seq |-> seqs + 1, at |-> now]
        <3>1. new \in list'[ch] /\ new.seq = seqs + 1 /\ new.at = now
            BY <1>2, PushList
        <3> QED BY <2>2, <3>1 DEF InList
    <2> QED BY <1>5, <2>1, <2>2
<1>11. Room'
    <2>1. \A c \in Channel : Pending(c)' \subseteq Pending(c)
        BY <1>1 DEF Pending
    <2> QED BY <1>5, <2>1, RoomKept
<1>12. Astray'
    BY <1>2, AstrayKept
<1> QED BY <1>5, <1>6, <1>7, <1>8, <1>9, <1>10, <1>11, <1>12 DEF Records

LEMMA TrimKeeps ==
    ASSUME BudgetInv, TypeOK', NEW w \in Worker, RecordTrim(w)
    PROVE  BudgetInv'
<1> USE DEF BudgetInv
<1>0. PICK ch : ch = task[w].job.channel
    OBVIOUS
<1>1. /\ task'[w].pc = "trimmed" /\ task'[w].job = task[w].job /\ task[w].pc = "pushed"
      /\ \A v \in Worker \ {w} : task'[v] = task[v]
    BY GotoTyped DEF RecordTrim, At, Phases
<1>2. ch \in Channel /\ Trim(ch) /\ UNCHANGED <<seqs, now, expiry, uses, strays>>
    BY <1>0, <1>1, AtTask DEF RecordTrim, Task, Job
<1>3. Held'
    <2> SUFFICES ASSUME NEW u \in uses, ~u.kept
                 PROVE  /\ task'[u.by].job.channel = u.channel
                        /\ IF u.seq = Unrecorded THEN task'[u.by].pc = "renamed"
                                                 ELSE task'[u.by].pc \in {"pushed", "trimmed"}
        BY <1>2 DEF Held
    <2>1. /\ u.by \in Worker /\ task[u.by].job.channel = u.channel
          /\ IF u.seq = Unrecorded THEN task[u.by].pc = "renamed"
                                   ELSE task[u.by].pc \in {"pushed", "trimmed"}
        BY UseFields DEF Records, Held
    <2> QED BY <1>1, <2>1
<1>4. Single' /\ Clocked'
    BY <1>2 DEF Records, Single, Clocked
<1>5. Listed' /\ Accounted'
    BY <1>2, TrimList DEF Records, Accounted
<1>6. Room'
    <2>1. \A c \in Channel : Pending(c)' \subseteq Pending(c)
        BY <1>1 DEF Pending
    <2>2. uses' \subseteq uses
        BY <1>2
    <2> QED BY <2>1, <2>2, SmallerUses, RoomKept
<1>7. Astray'
    BY <1>2, AstrayKept
<1> QED BY <1>2, <1>3, <1>4, <1>5, <1>6, <1>7 DEF Records

\* EXPIRE finishes the record of the worker's renaming, whose entry is in the list.
LEMMA ExpireKeeps ==
    ASSUME BudgetInv, TypeOK', NEW w \in Worker, RecordExpire(w)
    PROVE  BudgetInv'
<1> USE DEF BudgetInv
<1>0. PICK ch : ch = task[w].job.channel
    OBVIOUS
<1>1. /\ task'[w].pc = "recorded" /\ task'[w].job = task[w].job /\ task[w].pc = "trimmed"
      /\ \A v \in Worker \ {w} : task'[v] = task[v]
    BY GotoTyped DEF RecordExpire, At, Phases
<1>2. /\ ch \in Channel /\ Expire(ch) /\ UNCHANGED <<seqs, now, list, strays>>
      /\ uses' = (uses \ Unaccounted(w)) \cup {[u EXCEPT !.kept = TRUE] : u \in Unaccounted(w)}
    BY <1>0, <1>1, AtTask DEF RecordExpire, Task, Job
<1>3. \A x \in uses : /\ x.seq \in Nat /\ x.by \in Worker /\ x.channel \in Channel
                      /\ x.at \in Nat /\ x.at <= now
    BY UseFields DEF Records, Clocked
<1>4. \A c \in Channel : Pending(c)' \subseteq Pending(c)
    BY <1>1 DEF Pending
<1>5. ASSUME NEW x \in uses, x.seq # Unrecorded, x.kept
      PROVE  expiry'[x.channel] = Never \/ x.at + Window <= expiry'[x.channel]
    BY <1>2, <1>3, <1>5, ExpireLater DEF Records, Accounted
<1>6. Listed'
    BY <1>2 DEF Records, Listed
<1>7. Astray'
    <2>1. \A u \in strays : u.at \in Nat /\ u.channel \in Channel
        BY DEF TypeOK, Use
    <2>2. ASSUME NEW u \in strays
          PROVE  expiry'[u.channel] = Never \/ u.at + Window <= expiry'[u.channel]
        BY <1>2, <2>1, ExpireLater DEF Astray
    <2> QED BY <1>2, <2>2 DEF Astray
<1>8. CASE Unaccounted(w) = {}
    <2>1. uses' = uses /\ \A x \in uses : ~x.kept => x.by # w
        BY <1>2, <1>8 DEF Unaccounted
    <2>2. Held'
        BY <1>1, <1>3, <2>1 DEF Records, Held
    <2>3. Single' /\ Clocked'
        BY <1>2, <2>1 DEF Records, Single, Clocked
    <2>4. Accounted'
        BY <1>2, <1>5, <2>1 DEF Records, Accounted, InList, PushedOut
    <2>5. Room'
        BY <1>4, <2>1, SmallerUses, RoomKept
    <2> QED BY <1>6, <1>7, <2>1, <2>2, <2>3, <2>4, <2>5 DEF Records
<1>9. CASE \E u \in uses : Unaccounted(w) = {u} /\ u.by = w /\ ~u.kept
    <2>1. PICK u \in uses : Unaccounted(w) = {u} /\ u.by = w /\ ~u.kept
        BY <1>9
    <2> DEFINE v == [u EXCEPT !.kept = TRUE]
    <2>2. uses' = (uses \ {u}) \cup {v}
        BY <1>2, <2>1
    <2>3. u \in Use /\ u.channel = ch /\ u.seq # Unrecorded
        BY <1>0, <1>1, <2>1 DEF Records, Held, TypeOK
    <2>4. v.channel = ch /\ v.seq = u.seq /\ v.at = u.at /\ v.kept
        BY <2>3 DEF Use
    <2> HIDE DEF v
    <2>5. /\ IsFiniteSet(uses')
          /\ \A c \in Channel : Cardinality(UsesOf(c)') <= Cardinality(UsesOf(c))
        BY <2>2, <2>3, <2>4, ExchangedUses
    <2>6. \A x \in uses \ {u} : ~x.kept => x.by # w
        BY <2>1, OneUnaccounted
    <2>7. Held'
        BY <1>1, <1>3, <2>2, <2>4, <2>6 DEF Records, Held
    <2>8. Single'
        BY <2>1, <2>2, <2>3, <2>4 DEF Records, Single
    <2>9. Clocked'
        BY <1>2, <2>2, <2>4 DEF Records, Clocked
    <2>10. Accounted'
        <3> SUFFICES ASSUME NEW x \in uses', x.seq # Unrecorded
                     PROVE  /\ x.kept => expiry'[x.channel] = Never \/ x.at + Window <= expiry'[x.channel]
                            /\ InList(x)' \/ PushedOut(x)'
            BY DEF Accounted
        <3>1. CASE x \in uses
            BY <1>2, <1>5, <3>1 DEF Records, Accounted, InList, PushedOut
        <3>2. CASE x = v
            <4>1. u.at + Window <= expiry'[ch]
                BY <1>2, <2>3, ExpireSets
            <4>2. InList(u) \/ PushedOut(u)
                BY <2>3 DEF Records, Accounted
            <4> QED BY <1>2, <2>3, <2>4, <3>2, <4>1, <4>2 DEF InList, PushedOut
        <3> QED BY <2>2, <3>1, <3>2
    <2>11. Room'
        BY <1>4, <2>5, RoomKept
    <2> QED BY <1>6, <1>7, <2>5, <2>7, <2>8, <2>9, <2>10, <2>11 DEF Records
<1> QED BY <1>8, <1>9, OneUnaccounted

\* A record that fails forgets the worker's renaming, whatever Redis did.
LEMMA FailsKeeps ==
    ASSUME BudgetInv, TypeOK', NEW w \in Worker, RecordFails(w)
    PROVE  BudgetInv'
<1> USE DEF BudgetInv
<1>0. PICK ch : ch = task[w].job.channel
    OBVIOUS
<1>1. /\ task'[w].pc = "failing" /\ task'[w].job = task[w].job
      /\ \A v \in Worker \ {w} : task'[v] = task[v]
    BY GotoTyped DEF RecordFails, At, Phases
<1>2. /\ ch \in Channel /\ UNCHANGED <<now, strays>>
      /\ \/ UNCHANGED <<list, seqs, expiry>>
         \/ Push(ch) /\ UNCHANGED expiry
         \/ Trim(ch) /\ UNCHANGED <<seqs, expiry>>
         \/ Expire(ch) /\ UNCHANGED <<list, seqs>>
    BY <1>0, AtTask DEF RecordFails, Task, Job
<1>3. uses' \subseteq uses /\ \A x \in uses' : ~x.kept => x.by # w
    BY OneUnaccounted DEF RecordFails
<1>4. /\ seqs \in Nat /\ (seqs' = seqs \/ seqs' = seqs + 1)
      /\ \A x \in uses : /\ x.seq \in Nat /\ x.by \in Worker /\ x.channel \in Channel
                         /\ x.at \in Nat /\ x.at <= now
    BY <1>2, TimesTyped, UseFields DEF Push, Records, Clocked
<1>5. IsFiniteSet(uses') /\ \A c \in Channel : Cardinality(UsesOf(c)') <= Cardinality(UsesOf(c))
    BY <1>3, SmallerUses
<1>6. Held'
    BY <1>1, <1>3, <1>4 DEF Records, Held
<1>7. Single'
    BY <1>3 DEF Records, Single
<1>8. Clocked'
    BY <1>2, <1>3, <1>4 DEF Records, Clocked
<1>9. Listed' /\ \A x \in uses : x.seq # Unrecorded => InList(x)' \/ PushedOut(x)'
    <2>1. CASE Push(ch) \/ Trim(ch)
        BY <1>2, <2>1, PushList, TrimList
    <2>2. CASE UNCHANGED <<list, seqs>>
        BY <1>2, <2>2 DEF Records, Listed, Accounted, InList, PushedOut
    <2> QED BY <1>2, <2>1, <2>2
<1>10. ASSUME NEW c \in Channel, NEW at \in Nat, at <= now,
              expiry[c] = Never \/ at + Window <= expiry[c]
       PROVE  expiry'[c] = Never \/ at + Window <= expiry'[c]
    BY <1>2, <1>10, ExpireLater
<1>11. Accounted'
    BY <1>3, <1>4, <1>9, <1>10 DEF Records, Accounted
<1>12. Astray'
    <2>1. \A u \in strays : u.at \in Nat /\ u.channel \in Channel
        BY DEF TypeOK, Use
    <2>2. ASSUME NEW u \in strays
          PROVE  expiry'[u.channel] = Never \/ u.at + Window <= expiry'[u.channel]
        BY <1>10, <2>1 DEF Astray
    <2> QED BY <1>2, <2>2 DEF Astray
<1>13. Room'
    <2>1. \A c \in Channel : Pending(c)' \subseteq Pending(c)
        BY <1>1 DEF Pending
    <2> QED BY <1>5, <2>1, RoomKept
<1> QED BY <1>5, <1>6, <1>7, <1>8, <1>9, <1>11, <1>12, <1>13 DEF Records

LEMMA CrashKeeps ==
    ASSUME BudgetInv, TypeOK', Crash
    PROVE  BudgetInv'
<1> USE DEF BudgetInv
<1>1. /\ UNCHANGED <<list, expiry, now, seqs, strays>> /\ uses' = {u \in uses : u.kept}
      /\ task' = [w \in Worker |-> Idle]
    BY DEF Crash, limiter
<1>2. IsFiniteSet(uses') /\ uses' \subseteq uses
      /\ \A c \in Channel : Cardinality(UsesOf(c)') <= Cardinality(UsesOf(c))
    BY <1>1, SmallerUses
<1>3. Held' /\ Single' /\ Clocked' /\ Listed'
    BY <1>1, <1>2 DEF Records, Held, Single, Clocked, Listed
<1>4. Accounted' /\ Astray'
    BY <1>1, <1>2, AccountedKept, AstrayKept DEF Records
<1>5. \A c \in Channel : Pending(c)' \subseteq Pending(c)
    BY <1>1 DEF Pending, Idle
<1>6. Room'
    BY <1>2, <1>5, RoomKept
<1> QED BY <1>2, <1>3, <1>4, <1>6 DEF Records

\* A list that expires outlived the renamings whose record is done; those that go with it
\* become strays, and the strays of an earlier list are old.
LEMMA TickKeeps ==
    ASSUME BudgetInv, TypeOK', Tick
    PROVE  BudgetInv'
<1> USE DEF BudgetInv
<1>1. /\ UNCHANGED <<task, seqs>> /\ now' = now + 1
      /\ uses' = {u \in uses \ Losing : u.at + Window > now + 1}
      /\ strays' = {u \in strays \cup Losing : u.at + Window > now + 1}
    BY DEF Tick, Young
<1>2. IsFiniteSet(uses') /\ uses' \subseteq uses
      /\ \A c \in Channel : Cardinality(UsesOf(c)') <= Cardinality(UsesOf(c))
    BY <1>1, SmallerUses
<1>3. /\ now \in Nat /\ seqs \in Nat /\ expiry \in [Channel -> Nat]
      /\ \A x \in uses : x.at \in Nat /\ x.channel \in Channel /\ x.at <= now
      /\ \A x \in strays : x.at \in Nat /\ x.channel \in Channel /\ x.at <= now
    BY TimesTyped, UseFields DEF TypeOK, Use, Records, Clocked, Astray
<1>4. Held' /\ Single'
    BY <1>1, <1>2 DEF Records, Held, Single
<1>5. Clocked'
    BY <1>1, <1>3 DEF Records, Clocked
<1>6. Listed'
    <2> SUFFICES ASSUME NEW ch \in Channel
                 PROVE  /\ IsFiniteSet(list'[ch])
                        /\ \A e \in list'[ch] :
                              /\ e.seq <= seqs' /\ e.at <= now'
                              /\ \A f \in list'[ch] : /\ e.seq = f.seq => e = f
                                                      /\ e.seq < f.seq => e.at <= f.at
        BY DEF Listed
    <2>1. list'[ch] = IF Expired(ch) THEN {} ELSE list[ch]
        BY DEF Tick
    <2>2. \A e \in list[ch] : e.at \in Nat
        BY DEF TypeOK, Entry
    <2>3. CASE Expired(ch)
        BY <2>1, <2>3, FS_EmptySet
    <2>4. CASE ~Expired(ch)
        BY <1>1, <1>3, <2>1, <2>2, <2>4 DEF Records, Listed
    <2> QED BY <2>3, <2>4
\* A list whose end is after x is young does not expire now.
<1>7. ASSUME NEW x, x.channel \in Channel, x.at \in Nat, x.at + Window > now + 1,
             expiry[x.channel] = Never \/ x.at + Window <= expiry[x.channel]
      PROVE  ~Expired(x.channel)
    BY <1>3, <1>7 DEF Expired
<1>8. \A c \in Channel : ~Expired(c) => list'[c] = list[c] /\ expiry'[c] = expiry[c]
    BY DEF Tick
<1>9. Accounted'
    <2> SUFFICES ASSUME NEW x \in uses', x.seq # Unrecorded
                 PROVE  /\ x.kept => expiry'[x.channel] = Never \/ x.at + Window <= expiry'[x.channel]
                        /\ InList(x)' \/ PushedOut(x)'
        BY DEF Accounted
    <2>1. x \in uses /\ x \notin Losing /\ x.at + Window > now + 1 /\ x.at \in Nat
          /\ x.channel \in Channel
        BY <1>1, <1>3
    <2>2. x.kept => expiry[x.channel] = Never \/ x.at + Window <= expiry[x.channel]
        BY <2>1 DEF Records, Accounted
    <2>3. ~Expired(x.channel)
        BY <1>7, <2>1, <2>2 DEF Losing
    <2>4. InList(x) \/ PushedOut(x)
        BY <2>1 DEF Records, Accounted
    <2> QED BY <1>8, <2>1, <2>2, <2>3, <2>4 DEF InList, PushedOut
<1>10. Astray'
    <2>1. \A x \in Losing : x \in uses /\ Expired(x.channel) /\ ~x.kept
        BY DEF Losing
    <2>2. ASSUME NEW x \in strays, x.at + Window > now + 1 PROVE ~Expired(x.channel)
        <3>1. expiry[x.channel] = Never \/ x.at + Window <= expiry[x.channel]
            BY DEF Astray
        <3>2. x.at \in Nat /\ expiry[x.channel] \in Nat
            BY <1>3
        <3> QED BY <1>3, <2>2, <3>1, <3>2 DEF Expired
    <2>a. \A x \in strays' : x \in strays \cup Losing /\ x.at + Window > now + 1
        BY <1>1
    <2>3. ASSUME NEW x \in strays'
          PROVE  /\ x.at <= now' /\ now' < x.at + Window
                 /\ expiry'[x.channel] = Never \/ x.at + Window <= expiry'[x.channel]
        <3>1. /\ x \in strays \/ x \in Losing
              /\ x.at + Window > now + 1 /\ x.at \in Nat /\ x.channel \in Channel /\ x.at <= now
            <4>1. x \in strays \cup Losing /\ x.at + Window > now + 1
                BY <2>a
            <4>2. x \in strays \/ x \in uses
                BY <2>1, <4>1
            <4> QED BY <1>3, <4>1, <4>2
        <3>2. CASE x \in Losing
            <4>1. expiry'[x.channel] = Never
                BY <2>1, <3>1, <3>2 DEF Tick
            <4> QED BY <1>1, <1>3, <3>1, <4>1
        <3>3. CASE x \in strays
            BY <1>1, <1>3, <1>8, <2>2, <3>1, <3>3 DEF Astray
        <3> QED BY <3>1, <3>2, <3>3
    <2>4. ASSUME NEW x \in strays', NEW y \in strays', x.channel = y.channel, x.by = y.by
          PROVE  x = y
        <3>1. CASE x \in Losing /\ y \in Losing
            BY <2>1, <2>4, <3>1 DEF Records, Single
        <3>2. CASE x \in strays /\ y \in strays
            BY <2>4, <3>2 DEF Astray
        <3> QED BY <2>a, <2>1, <2>2, <2>4, <3>1, <3>2
    <2> QED BY <2>3, <2>4 DEF Astray
<1>11. \A c \in Channel : Pending(c)' \subseteq Pending(c)
    BY <1>1 DEF Pending
<1>12. Room'
    BY <1>2, <1>11, RoomKept
<1> QED BY <1>2, <1>4, <1>5, <1>6, <1>9, <1>10, <1>12 DEF Records

LEMMA BudgetInit == Init => BudgetInv
<1> SUFFICES ASSUME Init PROVE BudgetInv
    OBVIOUS
<1>1. TypeOK /\ IsFiniteSet(uses)
    BY TypingInit, FS_EmptySet DEF Init
<1>2. Records /\ Astray
    BY FS_EmptySet DEF Init, Records, Held, Single, Clocked, Listed, Accounted, Astray
<1>3. Room
    <2> SUFFICES ASSUME NEW ch \in Channel
                 PROVE  Cardinality(UsesOf(ch)) + Cardinality(Pending(ch))
                           <= Limit + Cardinality(Worker) - 1
        BY DEF Room
    <2>1. UsesOf(ch) = {} /\ Pending(ch) = {}
        BY DEF Init, UsesOf, Pending, Idle
    <2>2. Cardinality({}) = 0
        BY FS_EmptySet
    <2>3. Cardinality(Worker) \in Nat /\ Cardinality(Worker) >= 1
        BY <1>1, Sizes
    <2> HIDE DEF UsesOf, Pending
    <2> QED BY <2>1, <2>2, <2>3
<1> QED BY <1>1, <1>2, <1>3 DEF BudgetInv

LEMMA BudgetStep == BudgetInv /\ [Next]_vars => BudgetInv'
<1> SUFFICES ASSUME BudgetInv, [Next]_vars PROVE BudgetInv'
    OBVIOUS
<1>1. TypeOK /\ TypeOK'
    BY TypingStep DEF BudgetInv
<1> QED BY <1>1, StepKinds, StillKeeps, PassesKeeps, RenameKeeps, PushKeeps,
           TrimKeeps, ExpireKeeps, FailsKeeps, CrashKeeps, TickKeeps DEF RecordsOf

\* Recorded renamings are in the list or pushed out of it, the others are in the hands of
\* workers, each channel has room for the workers about to rename it, and one stray of each
\* worker at most.
THEOREM Budget == Spec => []BudgetInv
BY BudgetInit, BudgetStep, PTL DEF Spec

\* Renamings of different workers are no more than the workers.
LEMMA OneOfEach ==
    ASSUME NEW S, \A u \in S : u.by \in Worker, \A u, v \in S : u.by = v.by => u = v
    PROVE  IsFiniteSet(S) /\ Cardinality(S) \in Nat /\ Cardinality(S) <= Cardinality(Worker)
<1> DEFINE g == [u \in S |-> u.by]
<1>1. g \in Injection(S, Worker)
    BY DEF Injection, IsInjective
<1> HIDE DEF g
<1>2. IsFiniteSet(S) /\ Cardinality(S) <= Cardinality(Worker)
    BY <1>1, FS_Injection
<1> QED BY <1>2, FS_CardinalityType

\* A channel has one stray of each worker at most.
LEMMA StraysFew ==
    ASSUME BudgetInv, NEW ch \in Channel
    PROVE  /\ IsFiniteSet(StraysOf(ch)) /\ Cardinality(StraysOf(ch)) \in Nat
           /\ Cardinality(StraysOf(ch)) <= Cardinality(Worker)
<1>1. \A u \in StraysOf(ch) : u \in strays /\ u.by \in Worker /\ u.channel = ch
    BY DEF StraysOf, BudgetInv, TypeOK, Use
<1>2. \A u, v \in StraysOf(ch) : u.by = v.by => u = v
    BY <1>1 DEF BudgetInv, Astray
<1> QED BY <1>1, <1>2, OneOfEach

LEMMA RoomBounds ==
    ASSUME BudgetInv, NEW ch \in Channel
    PROVE  /\ Cardinality(UsesOf(ch)) \in Nat
           /\ Cardinality(UsesOf(ch)) <= Limit + Cardinality(Worker) - 1
<1>1. /\ Cardinality(UsesOf(ch)) \in Nat /\ Cardinality(Pending(ch)) \in Nat
      /\ Cardinality(Worker) \in Nat
    BY Sizes DEF BudgetInv
<1>2. Cardinality(UsesOf(ch)) + Cardinality(Pending(ch)) <= Limit + Cardinality(Worker) - 1
    BY DEF BudgetInv, Room
<1> QED BY <1>1, <1>2

\* The limiter lets a channel be renamed Limit times in a window, once more for every
\* other job in progress, and once more for every job whose list expired before its record
\* was done (RenameBudget of Counters).
THEOREM Limited == Spec => []RenameBudget
<1>1. ASSUME BudgetInv, NEW ch \in Channel
      PROVE  Cardinality(UsesOf(ch)) + Cardinality(StraysOf(ch)) <= Limit + 2 * Cardinality(Worker) - 1
    <2>1. Cardinality(Worker) \in Nat
        BY FS_CardinalityType
    <2> QED BY <1>1, <2>1, RoomBounds, StraysFew
<1>2. BudgetInv => RenameBudget
    BY <1>1 DEF RenameBudget
<1> QED BY <1>2, Budget, PTL

-------------------------------------------------------------------------------
(* The worker implements the abstract limiter.                             *)

Bound == Limit + Cardinality(Worker) - 1

LEMMA AgesOnly ==
    ASSUME BudgetInv, BudgetInv',
           \A ch \in Channel :
              /\ Cardinality(UsesOf(ch)') <= Cardinality(UsesOf(ch))
              /\ Cardinality(UsesOf(ch)') + Cardinality(StraysOf(ch)')
                    <= Cardinality(UsesOf(ch)) + Cardinality(StraysOf(ch))
    PROVE  Limiter!Age
<1>1. ASSUME NEW ch \in Channel
      PROVE  Cardinality(UsesOf(ch)') \in 0..Bound
    <2>1. Cardinality(UsesOf(ch)) \in Nat /\ Cardinality(UsesOf(ch)) <= Bound
        BY RoomBounds DEF Bound
    <2>2. Cardinality(UsesOf(ch)') \in Nat
        BY FS_Subset, FS_CardinalityType DEF BudgetInv, UsesOf
    <2>3. Bound \in Nat
        BY FS_CardinalityType, FS_EmptySet DEF Bound
    <2> QED BY <2>1, <2>2, <2>3
<1>2. ASSUME NEW ch \in Channel
      PROVE  Cardinality(StraysOf(ch)') \in 0..Cardinality(Worker)
    <2>1. /\ Cardinality(StraysOf(ch)') \in Nat
          /\ Cardinality(StraysOf(ch)') <= Cardinality(Worker)
        <3>1. \A u \in StraysOf(ch)' : u \in strays' /\ u.by \in Worker /\ u.channel = ch
            BY DEF StraysOf, BudgetInv, TypeOK, Use
        <3>2. \A u, v \in StraysOf(ch)' : u.by = v.by => u = v
            BY <3>1 DEF BudgetInv, Astray
        <3> QED BY <3>1, <3>2, OneOfEach
    <2>2. Cardinality(Worker) \in Nat
        BY FS_CardinalityType
    <2> QED BY <2>1, <2>2
<1> QED BY <1>1, <1>2 DEF Limiter!Age, Bound

LEMMA RenameUses ==
    ASSUME BudgetInv, NEW w \in Worker, SetChannelName(w)
    PROVE  \E ch \in Channel : Limiter!Use(ch)
<1>1. PICK ch : ch = task[w].job.channel
    OBVIOUS
<1>2. /\ ch \in Channel /\ w \in Pending(ch)
      /\ Cardinality(UsesOf(ch)') = Cardinality(UsesOf(ch)) + 1
      /\ \A c \in Channel \ {ch} : UsesOf(c)' = UsesOf(c)
    BY <1>1, RenamedUses
<1>3. Cardinality(UsesOf(ch)) < Bound
    <2>1. /\ Cardinality(UsesOf(ch)) \in Nat /\ Cardinality(Pending(ch)) \in Nat
          /\ IsFiniteSet(Pending(ch)) /\ Cardinality(Worker) \in Nat
        BY Sizes DEF BudgetInv
    <2>2. Cardinality(Pending(ch)) # 0
        BY <1>2, <2>1, FS_EmptySet
    <2>3. Cardinality(UsesOf(ch)) + Cardinality(Pending(ch)) <= Bound
        BY <1>2 DEF BudgetInv, Room, Bound
    <2> QED BY <2>1, <2>2, <2>3 DEF Bound
<1> DEFINE young == [c \in Channel |-> Cardinality(UsesOf(c))]
<1>4. young' = [young EXCEPT ![ch] = @ + 1]
    BY <1>2
<1>5. young[ch] < Bound
    BY <1>2, <1>3
<1>6. UNCHANGED [c \in Channel |-> Cardinality(StraysOf(c))]
    BY DEF SetChannelName, limiter, StraysOf
<1> QED BY <1>2, <1>4, <1>5, <1>6 DEF Limiter!Use, Bound

\* A renaming that goes astray leaves the ones the limiter sees.
LEMMA TickAges ==
    ASSUME BudgetInv, BudgetInv', Tick
    PROVE  Limiter!Age
<1>1. /\ uses' \subseteq uses \ Losing /\ strays' \subseteq strays \cup Losing
      /\ Losing \subseteq uses
    BY DEF Tick, Losing
<1>2. ASSUME NEW ch \in Channel
      PROVE  /\ Cardinality(UsesOf(ch)') <= Cardinality(UsesOf(ch))
             /\ Cardinality(UsesOf(ch)') + Cardinality(StraysOf(ch)')
                   <= Cardinality(UsesOf(ch)) + Cardinality(StraysOf(ch))
    <2> DEFINE L == {u \in Losing : u.channel = ch}
    <2>1. /\ UsesOf(ch)' \subseteq UsesOf(ch) \ L /\ StraysOf(ch)' \subseteq StraysOf(ch) \cup L
          /\ L \subseteq UsesOf(ch)
        BY <1>1 DEF UsesOf, StraysOf
    <2> HIDE DEF L
    <2>2. /\ IsFiniteSet(UsesOf(ch)) /\ Cardinality(UsesOf(ch)) \in Nat
          /\ IsFiniteSet(StraysOf(ch)) /\ Cardinality(StraysOf(ch)) \in Nat
        BY Sizes, StraysFew DEF BudgetInv
    <2>3. /\ IsFiniteSet(L) /\ Cardinality(L) \in Nat
          /\ IsFiniteSet(UsesOf(ch) \ L) /\ Cardinality(UsesOf(ch) \ L) \in Nat
        BY <2>1, <2>2, FS_Subset, FS_CardinalityType
    <2>4. Cardinality(UsesOf(ch)) = Cardinality(UsesOf(ch) \ L) + Cardinality(L)
        <3> DEFINE R == UsesOf(ch) \ L
        <3>1. R \cup L = UsesOf(ch) /\ R \cap L = {} /\ IsFiniteSet(R)
            BY <2>1, <2>3
        <3>2. Cardinality({}) = 0
            BY FS_EmptySet
        <3> HIDE DEF R
        <3>3. Cardinality(R \cup L) = Cardinality(R) + Cardinality(L) - Cardinality(R \cap L)
            BY <2>3, <3>1, FS_Union
        <3>4. Cardinality(R) \in Nat
            BY <2>3 DEF R
        <3>5. Cardinality(R \cap L) = 0
            BY <3>1, <3>2
        <3>6. Cardinality(R \cup L) = Cardinality(R) + Cardinality(L)
            BY <2>3, <3>3, <3>4, <3>5
        <3> QED BY <3>1, <3>6 DEF R
    <2>5. Cardinality(UsesOf(ch)') <= Cardinality(UsesOf(ch) \ L) /\ Cardinality(UsesOf(ch)') \in Nat
        BY <2>1, <2>3, FS_Subset, FS_CardinalityType
    <2>6. /\ Cardinality(StraysOf(ch)') <= Cardinality(StraysOf(ch)) + Cardinality(L)
          /\ Cardinality(StraysOf(ch)') \in Nat
        <3>1. /\ IsFiniteSet(StraysOf(ch) \cup L)
              /\ Cardinality(StraysOf(ch) \cup L) =
                    Cardinality(StraysOf(ch)) + Cardinality(L) - Cardinality(StraysOf(ch) \cap L)
            BY <2>2, <2>3, FS_Union
        <3>2. Cardinality(StraysOf(ch) \cap L) \in Nat
            BY <2>3, FS_Subset, FS_CardinalityType
        <3>3. /\ Cardinality(StraysOf(ch)') <= Cardinality(StraysOf(ch) \cup L)
              /\ IsFiniteSet(StraysOf(ch)')
            BY <2>1, <3>1, FS_Subset
        <3>4. Cardinality(StraysOf(ch)') \in Nat /\ Cardinality(StraysOf(ch) \cup L) \in Nat
            BY <3>1, <3>3, FS_CardinalityType
        <3> QED BY <2>2, <2>3, <3>1, <3>2, <3>3, <3>4
    <2> QED BY <2>2, <2>3, <2>4, <2>5, <2>6
<1> QED BY <1>2, AgesOnly

LEMMA LimiterInit == Init => Limiter!Init
<1> SUFFICES ASSUME Init PROVE Limiter!Init
    OBVIOUS
<1>1. \A ch \in Channel : UsesOf(ch) = {} /\ StraysOf(ch) = {}
    BY DEF Init, UsesOf, StraysOf
<1>2. \A ch \in Channel : Cardinality(UsesOf(ch)) = 0 /\ Cardinality(StraysOf(ch)) = 0
    BY <1>1, FS_EmptySet
<1> QED BY <1>2 DEF Limiter!Init

LEMMA LimiterStep ==
    BudgetInv /\ BudgetInv' /\ [Next]_vars
       => [Limiter!Next]_<<[ch \in Channel |-> Cardinality(UsesOf(ch))],
                           [ch \in Channel |-> Cardinality(StraysOf(ch))]>>
<1> SUFFICES ASSUME BudgetInv, BudgetInv', [Next]_vars PROVE Limiter!Next
    OBVIOUS
<1> USE DEF BudgetInv
\* A step that leaves the strays and adds no renaming.
<1>0. ASSUME strays' = strays,
             \A ch \in Channel : Cardinality(UsesOf(ch)') <= Cardinality(UsesOf(ch))
      PROVE  Limiter!Next
    <2>1. ASSUME NEW ch \in Channel
          PROVE  Cardinality(UsesOf(ch)') + Cardinality(StraysOf(ch)')
                    <= Cardinality(UsesOf(ch)) + Cardinality(StraysOf(ch))
        <3>1. StraysOf(ch)' = StraysOf(ch)
            BY <1>0 DEF StraysOf
        <3>2. Cardinality(UsesOf(ch)') \in Nat /\ Cardinality(UsesOf(ch)) \in Nat
              /\ Cardinality(StraysOf(ch)) \in Nat
            BY Sizes, StraysFew, FS_Subset, FS_CardinalityType DEF UsesOf
        <3> QED BY <1>0, <3>1, <3>2
    <2> QED BY <1>0, <2>1, AgesOnly DEF Limiter!Next
<1>1. CASE Still \/ Crash \/ \E w \in Worker : Passes(w) \/ RecordFails(w) \/ RecordTrim(w)
    <2>1. uses' \subseteq uses /\ strays' = strays
        BY <1>1 DEF Still, Crash, Passes, RecordFails, RecordTrim, limiter
    <2> QED BY <1>0, <2>1, SmallerUses
<1>2. ASSUME NEW w \in Worker, RecordPush(w) \/ RecordExpire(w) PROVE Limiter!Next
    <2>1. strays' = strays
        BY <1>2 DEF RecordPush, RecordExpire
    <2>2. \A ch \in Channel : Cardinality(UsesOf(ch)') <= Cardinality(UsesOf(ch))
        <3>1. CASE Unaccounted(w) = {}
            <4>1. uses' \subseteq uses
                BY <1>2, <3>1 DEF RecordPush, RecordExpire
            <4> QED BY <4>1, SmallerUses
        <3>2. CASE \E u \in uses : Unaccounted(w) = {u}
            <4>1. PICK u \in uses : Unaccounted(w) = {u}
                BY <3>2
            <4>2. u \in Use
                BY DEF TypeOK
            <4>3. CASE RecordPush(w)
                <5> DEFINE v == [u EXCEPT !.seq = seqs + 1]
                <5>1. uses' = (uses \ {u}) \cup {v} /\ v.channel = u.channel
                    BY <4>1, <4>2, <4>3 DEF RecordPush, Use
                <5> QED BY <5>1, ExchangedUses
            <4>4. CASE RecordExpire(w)
                <5> DEFINE v == [u EXCEPT !.kept = TRUE]
                <5>1. uses' = (uses \ {u}) \cup {v} /\ v.channel = u.channel
                    BY <4>1, <4>2, <4>4 DEF RecordExpire, Use
                <5> QED BY <5>1, ExchangedUses
            <4> QED BY <1>2, <4>3, <4>4
        <3> QED BY <3>1, <3>2, OneUnaccounted
    <2> QED BY <1>0, <2>1, <2>2
<1>3. ASSUME NEW w \in Worker, SetChannelName(w) PROVE Limiter!Next
    BY <1>3, RenameUses DEF Limiter!Next
<1>4. CASE Tick
    BY <1>4, TickAges DEF Limiter!Next
<1> QED BY <1>1, <1>2, <1>3, <1>4, StepKinds DEF RecordsOf

\* Whatever the jobs in progress, the worker is a limiter of Limit + Workers - 1
\* renamings, with one stray of each worker (RateLimit).
THEOREM LimiterImplemented == Spec => ImplementsRateLimit
<1>1. Init => Limiter!Init
    BY LimiterInit
<1>2. BudgetInv /\ BudgetInv' /\ [Next]_vars
         => [Limiter!Next]_<<[ch \in Channel |-> Cardinality(UsesOf(ch))],
                             [ch \in Channel |-> Cardinality(StraysOf(ch))]>>
    BY LimiterStep
<1> QED BY <1>1, <1>2, Budget, PTL DEF Spec, ImplementsRateLimit, Limiter!Spec

-------------------------------------------------------------------------------
(* What a channel shows.                                                     *)

(* A job that will show counter c again waits, or is to be added. *)
Waiting(c) == \E i \in DOMAIN queue : queue[i].type = "update" /\ queue[i].counter = c
Promised(c) == \E o \in todo : o.job.type = "update" /\ o.job.counter = c
Coming(c) == finding # {} \/ Promised(c) \/ Waiting(c)

Works(w, c) == task[w] # Idle /\ task[w].job.counter = c

(* A worker has read what is stored, and then the number, and has named the channel. *)
Faithful(w, c) ==
    /\ task[w].pc # "failing"
    /\ row[c].channel = task[w].job.channel /\ task[w].row.channel = task[w].job.channel
    /\ task[w].row.text = row[c].text
    /\ task[w].pc # "loaded" => task[w].value = number
    /\ task[w].pc \in {"renamed", "pushed", "trimmed", "recorded"} =>
          name[task[w].job.channel] = <<task[w].row.text, task[w].value>>

Shown(c) == name[row[c].channel] = <<row[c].text, number>> /\ row[c].value = number

(* A counter that is not disturbed has a job to come, one in progress that is    *)
(* faithful, or is shown.                                                    *)
Attended(c) ==
    /\ ~Exists(c) => ~Working(c)
    /\ \A v, w \in Worker : Works(v, c) /\ Works(w, c) => v = w
    /\ Exists(c) /\ ~Coming(c) =>
          /\ \A w \in Worker : Works(w, c) => Faithful(w, c)
          /\ ~Working(c) => Shown(c)
    /\ \A w \in Worker : Works(w, c) => task[w].pc # "failing"

ShownInv == TypeOK /\ \A c \in Counter \ disturbed : Attended(c)

-------------------------------------------------------------------------------
(* Each kind of step keeps every counter attended.                            *)

\* A step that concerns counter c only by adding jobs, or taking others.
LEMMA Aside ==
    ASSUME TypeOK, NEW c \in Counter, Attended(c), row'[c] = row[c], number' = number,
           \A w \in Worker : Works(w, c) => task'[w] = task[w],
           \A w \in Worker : Works(w, c)' => Works(w, c),
           Exists(c) /\ Coming(c) => Coming(c)',
           Exists(c) => name'[row[c].channel] = name[row[c].channel]
    PROVE  Attended(c)'
<1>1. \A w \in Worker : Works(w, c)' <=> Works(w, c)
    BY DEF Works
<1>2. Working(c)' <=> Working(c)
    BY <1>1 DEF Working, Busy, Works
<1>3. Exists(c)' <=> Exists(c)
    BY DEF Exists
<1>4. ASSUME Exists(c), ~Coming(c)', NEW w \in Worker, Works(w, c)' PROVE Faithful(w, c)'
    <2>1. Works(w, c) /\ task'[w] = task[w] /\ Faithful(w, c)
        BY <1>1, <1>4 DEF Attended
    <2>2. name'[task[w].job.channel] = name[task[w].job.channel]
        BY <1>4, <2>1 DEF Faithful
    <2>3. QED
        BY <2>1, <2>2 DEF Faithful
<1>5. ASSUME Exists(c), ~Coming(c)', ~Working(c)' PROVE Shown(c)'
    BY <1>2, <1>5 DEF Attended, Shown
<1>6. QED
    BY <1>1, <1>2, <1>3, <1>4, <1>5 DEF Attended

\* A job of c is to come: nothing else has to be said.
LEMMA Waits ==
    ASSUME TypeOK, NEW c \in Counter, Attended(c), Coming(c)', Exists(c)', UNCHANGED task
    PROVE  Attended(c)'
BY DEF Attended, Works

\* Jobs are added at the end.
LEMMA AddedWaits ==
    ASSUME TypeOK, NEW c \in Counter, NEW j \in Job, queue' = Append(queue, j)
    PROVE  /\ Waiting(c) => Waiting(c)'
           /\ j.type = "update" /\ j.counter = c => Waiting(c)'
<1>1. /\ queue \in Seq(Job) /\ Len(queue) \in Nat /\ DOMAIN queue = 1..Len(queue)
      /\ DOMAIN queue' = 1..(Len(queue) + 1)
      /\ queue'[Len(queue) + 1] = j /\ \A i \in DOMAIN queue : queue'[i] = queue[i]
    BY DEF TypeOK
<1>2. \A i \in DOMAIN queue : i \in DOMAIN queue'
    BY <1>1
<1>3. Waiting(c) => Waiting(c)'
    BY <1>1, <1>2 DEF Waiting
<1>4. Len(queue) + 1 \in DOMAIN queue'
    BY <1>1
<1>5. QED
    BY <1>1, <1>3, <1>4 DEF Waiting

\* The first job is taken.
LEMMA TakenWaits ==
    ASSUME TypeOK, NEW c \in Counter, queue # <<>>, queue' = Tail(queue),
           Head(queue).type # "update" \/ Head(queue).counter # c, Waiting(c)
    PROVE  Waiting(c)'
<1>1. /\ queue \in Seq(Job) /\ Len(queue) \in Nat /\ DOMAIN queue = 1..Len(queue)
      /\ DOMAIN queue' = 1..(Len(queue) - 1) /\ Head(queue) = queue[1]
      /\ \A i \in DOMAIN queue' : queue'[i] = queue[i + 1]
    BY DEF TypeOK
<1>2. PICK i \in DOMAIN queue : queue[i].type = "update" /\ queue[i].counter = c
    BY DEF Waiting
<1>3. i # 1
    BY <1>1, <1>2
<1>4. i - 1 \in DOMAIN queue' /\ queue'[i - 1] = queue[i]
    BY <1>1, <1>3
<1>5. QED
    BY <1>2, <1>4 DEF Waiting

\* A request is left with the job to add.
LEMMA OrderComes ==
    ASSUME NEW h, NEW d, NEW r, todo' = todo \cup {Order(h, d, r)},
           UNCHANGED <<finding, queue>>, NEW c \in Counter
    PROVE  /\ Coming(c) => Coming(c)'
           /\ c = d => Coming(c)'
<1>1. Order(h, d, r).job.type = "update" /\ Order(h, d, r).job.counter = d
    BY DEF Order, UpdateJob
<1>2. c = d => Promised(c)'
    BY <1>1 DEF Promised
<1>3. (Promised(c) => Promised(c)') /\ (Waiting(c) => Waiting(c)')
    BY DEF Promised, Waiting
<1> QED BY <1>2, <1>3 DEF Coming

LEMMA UsersAttend ==
    ASSUME ShownInv, Users, NEW c \in Counter, c \notin disturbed'
    PROVE  Attended(c)'
<1>0. TypeOK
    BY DEF ShownInv
\* A row is saved, and its job is to be added.
<1>1. ASSUME NEW d \in Counter, NEW r \in Row, NEW h, row' = [row EXCEPT ![d] = r],
             todo' = todo \cup {Order(h, d, r)},
             UNCHANGED <<name, number, finding, queue, task, disturbed>>
      PROVE  Attended(c)'
    <2>1. /\ Coming(c) => Coming(c)'
          /\ c = d => Coming(c)'
          /\ Attended(c)
        BY <1>1, OrderComes DEF ShownInv
    <2>2. CASE c = d
        <3>1. Exists(c)'
            BY <1>0, <1>1, <2>2 DEF Exists, Row, NoRow, TypeOK
        <3> QED BY <1>0, <1>1, <2>1, <2>2, <3>1, Waits
    <2>3. CASE c # d
        <3>1. row'[c] = row[c]
            BY <1>0, <1>1, <2>3 DEF TypeOK
        <3> QED BY <1>0, <1>1, <2>1, <3>1, Aside DEF Works
    <2> QED BY <2>2, <2>3
<1>2. ASSUME NEW d \in Counter, NEW ch \in Channel, Create(d, ch) PROVE Attended(c)'
    <2> DEFINE r == [channel |-> ch, text |-> 0, value |-> 0, status |-> "active"]
    <2>1. r \in Row
        BY DEF Row, Text, Number
    <2>2. row' = [row EXCEPT ![d] = r] /\ row'[d] = r
        BY <1>0, <1>2 DEF Create, TypeOK
    <2> HIDE DEF r
    <2>3. todo' = todo \cup {Order(happened', d, r)}
        BY <1>2, <2>2 DEF Create
    <2> QED BY <1>1, <1>2, <2>1, <2>2, <2>3 DEF Create
<1>3. ASSUME NEW d \in Counter, ReadForEdit(d) PROVE Attended(c)'
    <2>1. UNCHANGED <<row, name, number, finding, todo, queue, task, disturbed>>
        BY <1>3 DEF ReadForEdit, adders
    <2>2. Coming(c)' <=> Coming(c)
        BY <2>1 DEF Coming, Promised, Waiting
    <2> QED BY <1>0, <2>1, <2>2, Aside DEF ShownInv, Works
<1>4. ASSUME NEW ch \in Channel, SaveEdit(ch) PROVE Attended(c)'
    <2> DEFINE d == edit.counter
               r == [edit.row EXCEPT !.text = edit.by, !.channel = ch]
    <2>1. d \in Counter /\ edit.row \in Row /\ edit.by \in Text
        BY <1>0, <1>4 DEF SaveEdit, TypeOK, Text, Moment
    <2>2. r \in Row
        BY <2>1 DEF Row
    <2>3. row' = [row EXCEPT ![d] = r] /\ row'[d] = r
        BY <1>0, <1>4, <2>1 DEF SaveEdit, TypeOK
    <2> HIDE DEF r
    <2>4. todo' = todo \cup {Order(edit.by, d, r)}
        BY <1>4, <2>3 DEF SaveEdit
    <2> HIDE DEF d
    <2> QED BY <1>1, <1>4, <2>1, <2>2, <2>3, <2>4 DEF SaveEdit
<1>5. ASSUME NEW d \in Counter, Remove(d) PROVE Attended(c)'
    <2> DEFINE j == [UpdateJob(d, row[d]) EXCEPT !.type = "delete"]
    <2>1. j \in Job
        <3>1. Exists(d)
            BY <1>5 DEF Remove
        <3>2. UpdateJob(d, row[d]) \in Job
            BY <1>0, <3>1, RowOf, UpdateJobTyped
        <3> QED BY <3>2 DEF Job
    <2>2. /\ row' = [row EXCEPT ![d] = NoRow]
          /\ queue' = Append(queue, j) \/ queue' = queue
          /\ disturbed' = disturbed \cup {d} /\ UNCHANGED <<name, number, finding, todo, task>>
        BY <1>5 DEF Remove, adders
    <2> HIDE DEF j
    <2>3. c # d /\ Attended(c) /\ row'[c] = row[c]
        BY <1>0, <2>2 DEF ShownInv, TypeOK
    <2>4. Waiting(c) => Waiting(c)'
        BY <1>0, <2>1, <2>2, AddedWaits DEF Waiting
    <2>5. Coming(c) => Coming(c)'
        BY <2>2, <2>4 DEF Coming, Promised
    <2> QED BY <1>0, <2>2, <2>3, <2>5, Aside DEF Works
<1> QED BY <1>2, <1>3, <1>4, <1>5 DEF Users

\* A handler has still to look for the counters.
LEMMA EventAttends ==
    ASSUME ShownInv, Event, NEW c \in Counter, c \notin disturbed'
    PROVE  Attended(c)'
<1>1. TypeOK /\ Attended(c) /\ UNCHANGED <<row, task>> /\ finding' # {}
    BY DEF ShownInv, Event
<1>2. CASE Exists(c)
    BY <1>1, <1>2, Waits DEF Coming, Exists
<1>3. CASE ~Exists(c)
    BY <1>1, <1>3 DEF Attended, Exists, Works, Working, Busy
<1> QED BY <1>2, <1>3

\* The counters that are found get a job; jobs are added; those of lost jobs are disturbed.
LEMMA AddersAttend ==
    ASSUME ShownInv, Adders, NEW c \in Counter, c \notin disturbed'
    PROVE  Attended(c)'
<1>1. TypeOK /\ Attended(c) /\ UNCHANGED <<row, name, number, task>>
    BY DEF ShownInv, Adders, FindCounters, AddJob, JobsLost
<1>2. ASSUME Exists(c), Coming(c) PROVE Coming(c)'
    <2>1. ASSUME NEW h \in finding, FindCounters(h) PROVE Coming(c)'
        <3>1. Order(h, c, row[c]) \in todo'
            BY <1>2, <2>1 DEF FindCounters
        <3> QED BY <3>1 DEF Coming, Promised, Order, UpdateJob
    <2>2. ASSUME NEW o \in todo, AddJob(o) PROVE Coming(c)'
        <3>1. o.job \in Job /\ queue' = Append(queue, o.job)
            BY <1>1, <2>2 DEF AddJob, TypeOK
        <3>2. /\ Waiting(c) => Waiting(c)'
              /\ o.job.type = "update" /\ o.job.counter = c => Waiting(c)'
            BY <1>1, <3>1, AddedWaits
        <3>3. Promised(c) => Promised(c)' \/ Waiting(c)'
            BY <2>2, <3>2 DEF Promised, AddJob
        <3> QED BY <1>2, <2>2, <3>2, <3>3 DEF Coming, AddJob
    <2>3. ASSUME JobsLost PROVE Coming(c)'
        <3>1. PICK S \in SUBSET finding, T \in SUBSET todo :
                 /\ finding' = finding \ S /\ todo' = todo \ T
                 /\ disturbed' = disturbed \cup {o.job.counter : o \in T}
                                   \cup {x \in Counter : S # {} /\ Exists(x)}
            BY <2>3 DEF JobsLost
        <3>2. S = {} /\ \A o \in T : o.job.counter # c
            BY <1>2, <3>1
        <3>3. finding' = finding /\ (Promised(c) => Promised(c)')
            BY <3>1, <3>2 DEF Promised
        <3> QED BY <1>2, <2>3, <3>3 DEF Coming, Waiting, JobsLost
    <2> QED BY <2>1, <2>2, <2>3 DEF Adders
<1>3. c \notin disturbed => Attended(c)
    BY <1>1
<1> QED BY <1>1, <1>2, Aside DEF Works

LEMMA CrashAttends ==
    ASSUME ShownInv, Crash, NEW c \in Counter, c \notin disturbed'
    PROVE  Attended(c)'
<1> DEFINE S == {w \in Busy : ~task[w].job.stalled}
           back(s) == [i \in DOMAIN s |-> [task[s[i]].job EXCEPT !.stalled = TRUE]]
<1>0. /\ TypeOK /\ UNCHANGED <<row, name, number, finding, todo>>
      /\ task' = [w \in Worker |-> Idle]
      /\ disturbed' = disturbed \cup {task[w].job.counter : w \in Busy}
    BY DEF ShownInv, Crash, adders
<1>1. Attended(c) /\ ~Working(c)
    BY <1>0 DEF ShownInv, Working
<1>2. PICK s \in Orders(S) : queue' = back(s) \o queue
    BY DEF Crash
<1>3. S \subseteq Worker /\ IsFiniteSet(S)
    BY FS_Subset DEF Busy
<1>4. s \in Seq(S)
    BY <1>3, OrdersTyped
<1>5. Waiting(c) => Waiting(c)'
    <2> DEFINE u == back(s)
    <2>1. ASSUME NEW i \in DOMAIN queue
          PROVE  Len(u) + i \in DOMAIN (u \o queue) /\ (u \o queue)[Len(u) + i] = queue[i]
        <3>1. /\ queue \in Seq(Job) /\ Len(queue) \in Nat /\ DOMAIN queue = 1..Len(queue)
              /\ Len(s) \in Nat /\ DOMAIN s = 1..Len(s)
            BY <1>0, <1>4 DEF TypeOK
        <3>2. Len(u) = Len(s)
            BY <3>1
        <3> HIDE DEF u
        <3>3. QED
            BY <3>1, <3>2
    <2> HIDE DEF u
    <2>2. QED
        BY <1>2, <2>1 DEF Waiting, u
<1>6. \A w \in Worker : ~Works(w, c)'
    BY <1>0 DEF Works
<1>7. ~Working(c)'
    BY <1>6 DEF Working, Busy, Works
<1>8. Coming(c) => Coming(c)'
    BY <1>0, <1>5 DEF Coming, Promised
<1>9. QED
    BY <1>0, <1>1, <1>6, <1>7, <1>8 DEF Attended, Shown, Exists

\* The one job of c in progress goes on, and stays faithful.
LEMMA GoesOn ==
    ASSUME TypeOK, NEW c \in Counter, Attended(c), NEW w \in Worker, Works(w, c),
           UNCHANGED <<row, number, finding, todo, queue>>,
           Works(w, c)', task'[w].pc # "failing", \A v \in Worker \ {w} : task'[v] = task[v],
           Faithful(w, c) => Faithful(w, c)'
    PROVE  Attended(c)'
<1>1. \A v \in Worker : Works(v, c) <=> v = w
    BY DEF Attended
<1>2. \A v \in Worker : Works(v, c)' <=> v = w
    BY <1>1 DEF Works
<1>3. Working(c) /\ Working(c)'
    BY <1>1, <1>2 DEF Working, Busy, Works
<1>4. (Exists(c)' <=> Exists(c)) /\ (Coming(c)' <=> Coming(c))
    BY DEF Exists, Coming, Promised, Waiting
<1>5. QED
    BY <1>1, <1>2, <1>3, <1>4 DEF Attended

\* A step of worker w on another counter than c, which leaves c's row and name.
LEMMA Elsewhere ==
    ASSUME TypeOK, NEW c \in Counter, Attended(c), NEW w \in Worker, ~Works(w, c), ~Works(w, c)',
           \A v \in Worker \ {w} : task'[v] = task[v],
           row'[c] = row[c], UNCHANGED <<number, finding, todo, queue>>,
           Exists(c) => name'[row[c].channel] = name[row[c].channel]
    PROVE  Attended(c)'
<1>1. \A v \in Worker : Works(v, c)' => Works(v, c) /\ task'[v] = task[v]
    BY DEF Works
<1>2. \A v \in Worker : Works(v, c) => task'[v] = task[v]
    OBVIOUS
<1>3. Coming(c)' <=> Coming(c)
    BY DEF Coming, Promised, Waiting
<1>4. QED
    BY <1>1, <1>2, <1>3, Aside

LEMMA LoadAttends ==
    ASSUME ShownInv, NEW w \in Worker, Load(w), NEW c \in Counter, c \notin disturbed'
    PROVE  Attended(c)'
<1> DEFINE j == Head(queue)
           t == [pc |-> "loaded", job |-> j, row |-> row[j.counter], value |-> 0]
<1>0. /\ TypeOK /\ queue # <<>> /\ j.type = "update" /\ Exists(j.counter)
      /\ task[w] = Idle /\ task' = [task EXCEPT ![w] = t] /\ queue' = Tail(queue)
      /\ disturbed' = IF Working(j.counter) \/ row[j.counter].channel # j.channel
                      THEN disturbed \cup {j.counter} ELSE disturbed \ {j.counter}
      /\ UNCHANGED <<row, name, number, finding, todo>>
    BY DEF ShownInv, Load, adders
<1>1. t.pc = "loaded" /\ t.job = j /\ t.row = row[j.counter] /\ t # Idle
    BY DEF Idle
<1>2. task'[w] = t /\ \A v \in Worker \ {w} : task'[v] = task[v]
    BY <1>0 DEF TypeOK
<1> HIDE DEF j, t
<1>3. CASE c = j.counter
    <2>1. ~Working(c) /\ row[c].channel = j.channel
        BY <1>0, <1>3
    <2>2. \A v \in Worker : Works(v, c)' <=> v = w
        BY <1>1, <1>2, <1>3, <2>1 DEF Works, Working, Busy
    <2>3. Faithful(w, c)'
        BY <1>0, <1>1, <1>2, <1>3, <2>1 DEF Faithful
    <2>4. Exists(c)' /\ Working(c)' /\ task'[w].pc # "failing"
        BY <1>0, <1>1, <1>2, <1>3, <2>2 DEF Exists, Working, Busy, Works
    <2>5. QED
        BY <2>2, <2>3, <2>4 DEF Attended
<1>4. CASE c # j.counter
    <2>1. Attended(c)
        BY <1>0, <1>4 DEF ShownInv
    <2>2. Coming(c) => Coming(c)'
        BY <1>0, <1>4, TakenWaits DEF j, Coming, Promised
    <2>3. ~Works(w, c) /\ ~Works(w, c)'
        BY <1>0, <1>1, <1>2, <1>4 DEF Works
    <2>4. \A v \in Worker : (Works(v, c) => task'[v] = task[v]) /\ (Works(v, c)' => Works(v, c))
        BY <1>2, <2>3 DEF Works
    <2>5. QED
        BY <1>0, <2>1, <2>2, <2>4, Aside
<1>5. QED
    BY <1>3, <1>4

\* A job that is in progress at a counter that nobody disturbs.
LEMMA StepAttends ==
    ASSUME ShownInv, NEW w \in Worker, Step(w), ~Load(w), NEW c \in Counter, c \notin disturbed'
    PROVE  Attended(c)'
<1> USE DEF At
<1>0. /\ TypeOK /\ Attended(c) /\ c \notin disturbed
      /\ UNCHANGED <<number, finding, todo, queue>>
    BY DEF ShownInv, Step, GetMetricValue, ReadFails, CheckRateLimit, SetChannelName,
       RenameFails, RecordPush, RecordTrim, RecordExpire, RecordFails, SaveCounter, SaveFails,
       SaveError, Disturb, adders
<1>1. task[w].pc # "idle" /\ task[w] # Idle /\ task[w] \in Task
    <2>1. task[w].pc # "idle"
        BY DEF Step, GetMetricValue, ReadFails, CheckRateLimit, SetChannelName, RenameFails,
           RecordPush, RecordTrim, RecordExpire, RecordFails, SaveCounter, SaveFails, SaveError
    <2>2. QED
        BY <1>0, <2>1, AtTask DEF Idle
<1> DEFINE d == task[w].job.counter
           ch == task[w].job.channel
<1>2. d \in Counter /\ ch \in Channel /\ task[w].job \in Job /\ task[w].row \in Row
    BY <1>1 DEF Task, Job
<1>3. Works(w, c) <=> c = d
    BY <1>1 DEF Works
<1>4. c = d => Exists(c) /\ task[w].pc # "failing"
    BY <1>0, <1>1, <1>3 DEF Attended, Working, Busy, Works
\* The task goes on with its job, or ends.
<1>5. /\ \A v \in Worker \ {w} : task'[v] = task[v]
      /\ task'[w] = Idle \/ (task'[w].job = task[w].job /\ task'[w] # Idle)
    <2>1. ASSUME NEW pc \in Phases, Goto(w, pc)
          PROVE  /\ task'[w].job = task[w].job /\ task'[w] # Idle
                 /\ \A v \in Worker \ {w} : task'[v] = task[v]
        BY <1>0, <1>1, <2>1, GotoTyped DEF Phases, Idle
    <2>2. ASSUME End(w) PROVE task'[w] = Idle /\ \A v \in Worker \ {w} : task'[v] = task[v]
        BY <1>0, <2>2, EndTyped
    <2>3. ASSUME NEW n, task' = [task EXCEPT ![w].pc = "valued", ![w].value = n]
          PROVE  /\ task'[w].job = task[w].job /\ task'[w] # Idle
                 /\ \A v \in Worker \ {w} : task'[v] = task[v]
        <3> DEFINE t == [task[w] EXCEPT !.pc = "valued", !.value = n]
        <3>1. t.job = task[w].job /\ t.pc = "valued"
            BY <1>1 DEF Task
        <3>2. task' = [task EXCEPT ![w] = t]
            BY <2>3
        <3> HIDE DEF t
        <3>3. QED
            BY <1>0, <3>1, <3>2 DEF TypeOK, Idle
    <2>4. CASE SaveFails(w)
        <3> DEFINE t == [task[w] EXCEPT !.pc = "failing", !.row = Saved(w, "active")]
        <3>1. t.job = task[w].job /\ t.pc = "failing"
            BY <1>1 DEF Task
        <3>2. task' = [task EXCEPT ![w] = t]
            BY <2>4 DEF SaveFails
        <3> HIDE DEF t
        <3>3. QED
            BY <1>0, <3>1, <3>2 DEF TypeOK, Idle
    <2>5. CASE ~GetMetricValue(w) /\ ~ReadFails(w) /\ ~SaveFails(w)
        <3>1. End(w) \/ \E pc \in Phases : Goto(w, pc)
            BY <2>5 DEF Step, CheckRateLimit, SetChannelName, RenameFails, RecordPush,
               RecordTrim, RecordExpire, RecordFails, SaveCounter, SaveError, Phases
        <3>2. QED
            BY <2>1, <2>2, <3>1
    <2>6. CASE GetMetricValue(w) \/ ReadFails(w)
        BY <2>2, <2>3, <2>6 DEF GetMetricValue, ReadFails
    <2>7. QED
        BY <2>4, <2>5, <2>6
\* Steps for other counters: a new name disturbs those of its channel.
<1>6. CASE c # d
    <2>1. ~Works(w, c) /\ ~Works(w, c)'
        BY <1>3, <1>5, <1>6 DEF Works
    <2>2. row'[c] = row[c]
        BY <1>0, <1>6 DEF Step, GetMetricValue, ReadFails, CheckRateLimit, SetChannelName,
           RenameFails, RecordPush, RecordTrim, RecordExpire, RecordFails, SaveCounter,
           SaveFails, SaveError, TypeOK
    <2>3. Exists(c) => name'[row[c].channel] = name[row[c].channel]
        <3>1. CASE Rename(w) /\ Sharing(w) \subseteq disturbed'
            BY <1>0, <1>6, <3>1 DEF Rename, Sharing, TypeOK
        <3>2. CASE UNCHANGED name
            BY <3>2
        <3>3. QED
            BY <3>1, <3>2 DEF Step, GetMetricValue, ReadFails, CheckRateLimit, SetChannelName,
               RenameFails, RecordPush, RecordTrim, RecordExpire, RecordFails, SaveCounter,
               SaveFails, SaveError
    <2>4. QED
        BY <1>0, <1>5, <2>1, <2>2, <2>3, Elsewhere
\* Steps for c, which do not disturb it.
<1>7. CASE c = d
    <2>0. Works(w, c) /\ Exists(c)
        BY <1>3, <1>4, <1>7
    <2>1. CASE GetMetricValue(w)
        <3> DEFINE t == [task[w] EXCEPT !.pc = "valued", !.value = number]
        <3>1. t.pc = "valued" /\ t.value = number /\ t.job = task[w].job /\ t.row = task[w].row
            BY <1>1 DEF Task
        <3>2. task' = [task EXCEPT ![w] = t] /\ UNCHANGED <<row, name>>
            BY <2>1 DEF GetMetricValue
        <3> HIDE DEF t
        <3>3. task'[w] = t
            BY <1>0, <3>2 DEF TypeOK
        <3>4. Works(w, c)' /\ task'[w].pc # "failing"
            BY <2>0, <3>1, <3>3 DEF Works, Idle
        <3>5. Faithful(w, c) => Faithful(w, c)'
            BY <1>0, <3>1, <3>2, <3>3 DEF Faithful
        <3>6. QED
            BY <1>0, <1>5, <2>0, <3>2, <3>4, <3>5, GoesOn
    <2>2. ASSUME NEW pc \in {"checked", "pushed", "trimmed", "recorded"}, Goto(w, pc),
                 UNCHANGED <<row, name>>,
                 task[w].pc \in {"valued", "renamed", "pushed", "trimmed"},
                 pc # "checked" => task[w].pc # "valued"
          PROVE  Attended(c)'
        <3> DEFINE t == [task[w] EXCEPT !.pc = pc]
        <3>1. t.pc = pc /\ t.value = task[w].value /\ t.job = task[w].job /\ t.row = task[w].row
            BY <1>1 DEF Task
        <3>2. task' = [task EXCEPT ![w] = t]
            BY <2>2 DEF Goto
        <3> HIDE DEF t
        <3>3. task'[w] = t
            BY <1>0, <3>2 DEF TypeOK
        <3>4. Works(w, c)' /\ task'[w].pc # "failing"
            BY <2>0, <2>2, <3>1, <3>3 DEF Works, Idle
        <3>5. Faithful(w, c) => Faithful(w, c)'
            BY <1>0, <2>2, <3>1, <3>3 DEF Faithful
        <3>6. QED
            BY <1>0, <1>5, <2>0, <2>2, <3>4, <3>5, GoesOn
    <2>3. CASE CheckRateLimit(w)
        <3>1. Goto(w, "checked") /\ UNCHANGED <<row, name>> /\ task[w].pc = "valued"
            BY <1>7, <2>3 DEF CheckRateLimit, Disturb
        <3>2. QED
            BY <2>2, <3>1
    <2>4. CASE RecordPush(w) \/ RecordTrim(w) \/ RecordExpire(w)
        BY <2>2, <2>4 DEF RecordPush, RecordTrim, RecordExpire
    <2>5. CASE SetChannelName(w)
        <3> DEFINE t == [task[w] EXCEPT !.pc = "renamed"]
        <3>1. /\ t.pc = "renamed" /\ t.value = task[w].value /\ t.job = task[w].job
              /\ t.row = task[w].row
            BY <1>1 DEF Task
        <3>2. /\ task' = [task EXCEPT ![w] = t] /\ UNCHANGED row /\ task[w].pc = "checked"
              /\ name' = [name EXCEPT ![ch] = <<task[w].row.text, task[w].value>>]
            BY <2>5 DEF SetChannelName, Goto, Rename
        <3> HIDE DEF t
        <3>3. task'[w] = t /\ name'[ch] = <<task[w].row.text, task[w].value>>
            BY <1>0, <1>2, <3>2 DEF TypeOK
        <3>4. Works(w, c)' /\ task'[w].pc # "failing"
            BY <2>0, <3>1, <3>3 DEF Works, Idle
        <3>5. Faithful(w, c) => Faithful(w, c)'
            BY <1>0, <3>1, <3>2, <3>3 DEF Faithful
        <3>6. QED
            BY <1>0, <1>5, <2>0, <3>2, <3>4, <3>5, GoesOn
    <2>6. CASE SaveCounter(w)
        <3> DEFINE r == Saved(w, "active")
        <3>1. /\ r \in Row /\ r.channel = task[w].row.channel /\ r.text = task[w].row.text
              /\ r.value = task[w].value
            BY <1>0, <1>1, <1>2, SavedTyped DEF Saved, Row
        <3>2. row' = [row EXCEPT ![d] = r] /\ UNCHANGED name /\ task[w].pc = "recorded"
            BY <2>6 DEF SaveCounter
        <3>3. task'[w] = Idle
            BY <1>0, <2>6, EndTyped DEF SaveCounter
        <3> HIDE DEF r
        <3>4. row'[c] = r
            BY <1>0, <1>7, <3>2 DEF TypeOK
        <3>5. \A v \in Worker : Works(v, c) => v = w
            BY <1>0, <2>0 DEF Attended
        <3>6. \A v \in Worker : ~Works(v, c)'
            BY <1>5, <3>3, <3>5 DEF Works
        <3>7. ~Working(c)' /\ (Coming(c)' <=> Coming(c))
            BY <1>0, <3>6 DEF Working, Busy, Works, Coming, Promised, Waiting
        <3>8. ~Coming(c) => Shown(c)'
            <4>1. SUFFICES ASSUME ~Coming(c) PROVE Shown(c)'
                OBVIOUS
            <4>2. Faithful(w, c)
                BY <1>0, <2>0, <4>1 DEF Attended
            <4>3. QED
                BY <1>0, <3>1, <3>2, <3>4, <4>2 DEF Faithful, Shown
        <3>9. QED
            BY <3>6, <3>7, <3>8 DEF Attended
    <2>7. CASE \/ ReadFails(w) \/ RenameFails(w) \/ RecordFails(w) \/ SaveFails(w)
               \/ SaveError(w)
        BY <1>4, <1>7, <2>7 DEF ReadFails, RenameFails, RecordFails, SaveFails, SaveError, Disturb
    <2>8. QED
        BY <2>1, <2>3, <2>4, <2>5, <2>6, <2>7 DEF Step
<1>8. QED
    BY <1>6, <1>7

LEMMA ShownInit == Init => ShownInv
<1>1. Init => \A c \in Counter : ~Exists(c) /\ ~Working(c) /\ \A w \in Worker : ~Works(w, c)
    BY DEF Init, Exists, Working, Busy, Works
<1>2. QED
    BY <1>1, TypingInit DEF ShownInv, Attended

LEMMA ShownStep == ShownInv /\ [Next]_vars => ShownInv'
<1> SUFFICES ASSUME ShownInv, [Next]_vars PROVE ShownInv'
    OBVIOUS
<1>0. TypeOK /\ TypeOK'
    BY TypingStep DEF ShownInv
<1>1. ASSUME NEW c \in Counter, c \notin disturbed' PROVE Attended(c)'
    <2>1. CASE Users
        BY <1>1, <2>1, UsersAttend
    <2>2. CASE Event
        BY <1>1, <2>2, EventAttends
    <2>3. CASE Crash \/ Adders
        BY <1>1, <2>3, CrashAttends, AddersAttend
    <2>4. CASE Skip
        <3>1. Attended(c) /\ UNCHANGED <<row, name, number, finding, todo, task>>
            BY <1>1, <2>4 DEF Skip, ShownInv, adders
        <3>2. Exists(c) /\ Waiting(c) => Waiting(c)'
            <4>1. Exists(c) => Head(queue).type # "update" \/ Head(queue).counter # c
                BY <2>4 DEF Skip
            <4>2. QED
                BY <1>0, <2>4, <4>1, TakenWaits DEF Skip
        <3>3. Exists(c) /\ Coming(c) => Coming(c)'
            BY <3>1, <3>2 DEF Coming, Promised
        <3>4. QED
            BY <1>0, <3>1, <3>3, Aside DEF Works
    <2>5. CASE Tick \/ UNCHANGED vars
        <3>1. Attended(c) /\ UNCHANGED <<row, name, number, finding, todo, task, queue>>
            BY <1>1, <2>5 DEF Tick, vars, ShownInv, adders
        <3>2. Coming(c)' <=> Coming(c)
            BY <3>1 DEF Coming, Promised, Waiting
        <3>3. QED
            BY <1>0, <3>1, <3>2, Aside DEF Works
    <2>6. ASSUME NEW w \in Worker, Step(w) PROVE Attended(c)'
        BY <1>1, <2>6, LoadAttends, StepAttends
    <2>7. QED
        BY <2>1, <2>2, <2>3, <2>4, <2>5, <2>6 DEF Next
<1>2. QED
    BY <1>0, <1>1 DEF ShownInv

\* A counter that is not disturbed has a job to come, or one job in progress that has read
\* what is stored, or its channel shows its row.
THEOREM ShownInvariant == Spec => []ShownInv
BY ShownInit, ShownStep, PTL DEF Spec

\* With nothing left to do, a counter that is not disturbed is shown.
THEOREM ShownWhenQuiet == Spec => []ShownWhenSettled
<1>1. ASSUME ShownInv, Settled, NEW c \in Counter \ disturbed, Exists(c) PROVE Shown(c)
    <2>1. ~Coming(c) /\ ~Working(c)
        BY <1>1 DEF Settled, Coming, Promised, Waiting, Working
    <2>2. QED
        BY <1>1, <2>1 DEF ShownInv, Attended
<1>2. ShownInv => ShownWhenSettled
    BY <1>1 DEF ShownWhenSettled, Shown
<1>3. QED
    BY <1>2, ShownInvariant, PTL

(* The numbers: the counters' own constants play no part.                   *)

HIDE CountersAssumption

-------------------------------------------------------------------------------
(* What the handlers of the gateway's events are made of.                  *)

MemberEvent == [kind : {"member"}, by : {-1, 1}, roles : BOOLEAN]
VoiceEvent == [kind : {"voice"}, was : BOOLEAN, is : BOOLEAN]
PresenceEvent == [kind : {"presence"}, old : Status, was : Status \cup {"none"}, is : Status]
RoleEvent == [kind : {"role"}, by : {-1, 1}]

MemberWork == [pc : {"find", "set", "update", "updated", "jobs", "role", "rest"},
               kind : {"member"}, event : MemberEvent, value : Int]
VoiceWork == [pc : {"find", "decr", "incr", "get"}, kind : {"voice"}, event : VoiceEvent,
              value : Int]
PresenceWork == [pc : {"find", "minus", "plus", "hgetall"}, kind : {"presence"},
                 event : PresenceEvent, value : Int]
LastWork == [pc : {"getlast", "setlast"}, kind : {"presence"}, event : [last : Int], value : Int]
RoleWork == [pc : {"find", "role"}, kind : {"role"}, event : RoleEvent, value : Int]
AnyWork == MemberWork \cup VoiceWork \cup PresenceWork \cup LastWork \cup RoleWork

\* A handler waits for Redis where it issued a command, and is then on the wire once.
Awaits == {"set", "role", "decr", "incr", "get", "minus", "plus", "hgetall", "getlast", "setlast"}
In(q, h) == \E i \in 1..Len(q) : q[i] = h
Once(q) == \A i, j \in 1..Len(q) : q[i] = q[j] => i = j
Before(q, a, b) == \E i, j \in 1..Len(q) : i < j /\ q[i] = a /\ q[j] = b

\* The types, sharper than CountsTypeOK: who holds the role is in the guild; a presence
\* handler subtracts the old status or none.
Typed ==
    /\ present \subseteq User /\ speaking \subseteq User /\ holder \subseteq present
    /\ status \in [User -> Status] /\ cached \subseteq User
    /\ served \in {"shard", "custom"} /\ up \in BOOLEAN /\ known \in BOOLEAN
    /\ memberRow \in Int /\ memberKey \in Int /\ voiceKey \in Int /\ lastKey \in Int
    /\ presenceKey \in [Status -> Int] /\ roleKey \in [{"once", "twice"} -> Int]
    /\ shown \in [Parameter -> Int] /\ fetch \in Int
    /\ unseen \in [voice : Int, presence : [Status -> Int]]
    /\ events \in 0..MaxEvents /\ faults \in 0..MaxFaults

Doing ==
    /\ work \in [Handler -> {Free} \cup AnyWork]
    /\ \A h \in Handler : work[h] \in PresenceWork => work[h].event.was \in {"none", work[h].event.old}
    /\ \A h \in Handler : work[h] \in VoiceWork => work[h].event.was \/ work[h].event.is

Wired ==
    /\ wire \in Seq(Handler) /\ Once(wire)
    /\ \A h \in Handler : In(wire, h) <=> work[h].pc \in Awaits

First(q, h) == q # <<>> /\ Head(q) = h

CountsTyped == Typed /\ Doing /\ Wired

-------------------------------------------------------------------------------
(* The wire.                                                               *)

\* Nobody is before the first.
LEMMA NobodyBeforeHead ==
    ASSUME NEW q \in Seq(Handler), Once(q), NEW h \in Handler, First(q, h)
    PROVE  In(q, h) /\ \A a \in Handler : ~Before(q, a, h)
<1>1. Len(q) \in Nat /\ Len(q) >= 1 /\ q[1] = h
    BY DEF First
<1>2. \A j \in 1..Len(q) : q[j] = h => j = 1
    BY <1>1 DEF Once
<1> QED BY <1>1, <1>2 DEF In, Before

\* Who has its answer leaves, and the others keep their order.
LEMMA LeavesWire ==
    ASSUME NEW q \in Seq(Handler), Once(q), NEW h \in Handler, First(q, h) \/ ~In(q, h),
           NEW r, r = IF First(q, h) THEN Tail(q) ELSE q
    PROVE  /\ r \in Seq(Handler) /\ Once(r)
           /\ \A a \in Handler : In(r, a) <=> a # h /\ In(q, a)
           /\ \A a, b \in Handler \ {h} : Before(r, a, b) <=> Before(q, a, b)
<1>1. CASE ~First(q, h)
    BY <1>1 DEF Once, In, Before
<1>2. CASE First(q, h)
    <2>1. Len(q) \in Nat /\ Len(q) >= 1 /\ q[1] = h
        BY <1>2 DEF First
    <2>2. r \in Seq(Handler) /\ Len(r) = Len(q) - 1
        BY <1>2, <2>1
    <2>3. \A i \in 1..Len(r) : r[i] = q[i + 1]
        BY <1>2, <2>1
    <2>4. \A i \in 2..Len(q) : q[i] # h /\ r[i - 1] = q[i]
        BY <2>1, <2>2, <2>3 DEF Once
    <2>5. Once(r)
        <3> SUFFICES ASSUME NEW i \in 1..Len(r), NEW j \in 1..Len(r), r[i] = r[j]
                     PROVE  i = j
            BY DEF Once
        <3>1. i + 1 \in 1..Len(q) /\ j + 1 \in 1..Len(q) /\ q[i + 1] = q[j + 1]
            BY <2>1, <2>2, <2>3
        <3> QED BY <3>1 DEF Once
    <2>6. ASSUME NEW a \in Handler
          PROVE  In(r, a) <=> a # h /\ In(q, a)
        <3>1. ASSUME In(r, a) PROVE a # h /\ In(q, a)
            <4>1. PICK i \in 1..Len(r) : r[i] = a
                BY <3>1 DEF In
            <4>2. i + 1 \in 2..Len(q) /\ q[i + 1] = a
                BY <4>1, <2>1, <2>2, <2>3
            <4> QED BY <4>2, <2>4, <2>1 DEF In
        <3>2. ASSUME a # h, In(q, a) PROVE In(r, a)
            <4>1. PICK i \in 1..Len(q) : q[i] = a
                BY <3>2 DEF In
            <4>2. i \in 2..Len(q)
                BY <4>1, <2>1, <3>2
            <4>3. i - 1 \in 1..Len(r) /\ r[i - 1] = a
                BY <4>1, <4>2, <2>1, <2>2, <2>4
            <4> QED BY <4>3 DEF In
        <3> QED BY <3>1, <3>2
    <2>7. ASSUME NEW a \in Handler \ {h}, NEW b \in Handler \ {h}
          PROVE  Before(r, a, b) <=> Before(q, a, b)
        <3>1. ASSUME Before(r, a, b) PROVE Before(q, a, b)
            <4>1. PICK i \in 1..Len(r), j \in 1..Len(r) :
                      i < j /\ r[i] = a /\ r[j] = b
                BY <3>1 DEF Before
            <4>2. i + 1 \in 1..Len(q) /\ j + 1 \in 1..Len(q) /\ i + 1 < j + 1
                    /\ q[i + 1] = a /\ q[j + 1] = b
                BY <4>1, <2>1, <2>2, <2>3
            <4> QED BY <4>2 DEF Before
        <3>2. ASSUME Before(q, a, b) PROVE Before(r, a, b)
            <4>1. PICK i \in 1..Len(q), j \in 1..Len(q) :
                      i < j /\ q[i] = a /\ q[j] = b
                BY <3>2 DEF Before
            <4>2. i \in 2..Len(q) /\ j \in 2..Len(q)
                BY <4>1, <2>1
            <4>3. i - 1 \in 1..Len(r) /\ j - 1 \in 1..Len(r) /\ i - 1 < j - 1
                    /\ r[i - 1] = a /\ r[j - 1] = b
                BY <4>1, <4>2, <2>1, <2>2, <2>4
            <4> QED BY <4>3 DEF Before
        <3> QED BY <3>1, <3>2
    <2> QED BY <2>2, <2>5, <2>6, <2>7
<1> QED BY <1>1, <1>2

\* Who issues a command is the last on the wire, and the others keep their order.
LEMMA JoinsWire ==
    ASSUME NEW q \in Seq(Handler), Once(q), NEW h \in Handler, ~In(q, h), NEW r, r = Append(q, h)
    PROVE  /\ r \in Seq(Handler) /\ Once(r)
           /\ \A a \in Handler : In(r, a) <=> a = h \/ In(q, a)
           /\ \A a, b \in Handler \ {h} : Before(r, a, b) <=> Before(q, a, b)
           /\ \A a \in Handler \ {h} : In(q, a) => Before(r, a, h)
           /\ \A a \in Handler : ~Before(r, h, a)
<1>1. /\ Len(q) \in Nat /\ r \in Seq(Handler) /\ Len(r) = Len(q) + 1
      /\ \A i \in 1..Len(q) : r[i] = q[i]
      /\ r[Len(q) + 1] = h
    OBVIOUS
<1>2. \A i \in 1..Len(q) : q[i] # h
    BY DEF In
<1>3. Once(r)
    <2> SUFFICES ASSUME NEW i \in 1..Len(r), NEW j \in 1..Len(r), r[i] = r[j]
                 PROVE  i = j
        BY DEF Once
    <2>1. CASE i = Len(q) + 1 \/ j = Len(q) + 1
        BY <1>1, <1>2, <2>1
    <2>2. CASE i # Len(q) + 1 /\ j # Len(q) + 1
        <3>1. i \in 1..Len(q) /\ j \in 1..Len(q)
            BY <1>1, <2>2
        <3> QED BY <1>1, <3>1 DEF Once
    <2> QED BY <2>1, <2>2
<1>4. \A a \in Handler : In(r, a) <=> a = h \/ In(q, a)
    BY <1>1 DEF In
<1>5. ASSUME NEW a \in Handler \ {h}, NEW b \in Handler \ {h}
      PROVE  Before(r, a, b) <=> Before(q, a, b)
    <2>1. ASSUME Before(r, a, b) PROVE Before(q, a, b)
        <3>1. PICK i \in 1..Len(r), j \in 1..Len(r) :
                  i < j /\ r[i] = a /\ r[j] = b
            BY <2>1 DEF Before
        <3>2. i \in 1..Len(q) /\ j \in 1..Len(q)
            BY <1>1, <3>1
        <3> QED BY <1>1, <3>1, <3>2 DEF Before
    <2>2. ASSUME Before(q, a, b) PROVE Before(r, a, b)
        <3>1. PICK i \in 1..Len(q), j \in 1..Len(q) :
                  i < j /\ q[i] = a /\ q[j] = b
            BY <2>2 DEF Before
        <3>2. i \in 1..Len(r) /\ j \in 1..Len(r) /\ r[i] = a /\ r[j] = b
            BY <1>1, <3>1
        <3> QED BY <3>1, <3>2 DEF Before
    <2> QED BY <2>1, <2>2
<1>6. ASSUME NEW a \in Handler \ {h}, In(q, a)
      PROVE  Before(r, a, h)
    <2>1. PICK i \in 1..Len(q) : q[i] = a
        BY <1>6 DEF In
    <2>2. i \in 1..Len(r) /\ Len(r) \in 1..Len(r) /\ i < Len(r)
            /\ r[i] = a /\ r[Len(r)] = h
        BY <1>1, <2>1
    <2> QED BY <2>2 DEF Before
<1>7. ASSUME NEW a \in Handler PROVE ~Before(r, h, a)
    <2> SUFFICES ASSUME NEW i \in 1..Len(r), NEW j \in 1..Len(r), i < j, r[i] = h
                 PROVE  FALSE
        BY DEF Before
    <2>1. i \in 1..Len(q)
        BY <1>1
    <2> QED BY <2>1, <1>1, <1>2
<1> QED BY <1>1, <1>3, <1>4, <1>5, <1>6, <1>7

-------------------------------------------------------------------------------
(* A handler's step moves this handler only, and its place on the wire.    *)

Others(h) == \A o \in Handler \ {h} : work'[o] = work[o]

LEMMA FreeIsIdle ==
    ASSUME Doing, NEW h \in Handler
    PROVE  /\ work[h] = Free <=> work[h].pc = "idle"
           /\ work[h] # Free => work[h] \in AnyWork
BY DEF Doing, Free, AnyWork, MemberWork, VoiceWork, PresenceWork, LastWork, RoleWork

\* What a handler of each kind is made of.
LEMMA WorkOfKind ==
    ASSUME Doing, NEW h \in Handler, work[h] # Free
    PROVE  /\ work[h].kind = "member" => work[h] \in MemberWork
           /\ work[h].kind = "voice" => work[h] \in VoiceWork
           /\ work[h].kind = "role" => work[h] \in RoleWork
           /\ work[h].kind = "presence" /\ work[h].pc \in {"find", "minus", "plus", "hgetall"} =>
                  work[h] \in PresenceWork
           /\ work[h].kind = "presence" /\ work[h].pc \in {"getlast", "setlast"} =>
                  work[h] \in LastWork
           /\ work[h].kind \in {"member", "voice", "role", "presence"}
BY FreeIsIdle DEF AnyWork, MemberWork, VoiceWork, PresenceWork, LastWork, RoleWork

LEMMA ContinueSets ==
    ASSUME Doing, NEW h \in Handler, work[h] # Free, NEW pc, Continue(h, pc)
    PROVE  /\ work' = [work EXCEPT ![h] = [work[h] EXCEPT !.pc = pc]]
           /\ work'[h] = [work[h] EXCEPT !.pc = pc]
           /\ work'[h].pc = pc /\ work'[h].kind = work[h].kind
           /\ work'[h].event = work[h].event /\ work'[h].value = work[h].value
           /\ Others(h)
<1>1. work' = [work EXCEPT ![h] = [work[h] EXCEPT !.pc = pc]]
    BY DEF Continue, Doing
<1>2. work'[h] = [work[h] EXCEPT !.pc = pc] /\ Others(h)
    BY <1>1 DEF Others, Doing
<1>3. work[h] \in AnyWork
    BY FreeIsIdle
<1>4. /\ work'[h].pc = pc /\ work'[h].kind = work[h].kind
      /\ work'[h].event = work[h].event /\ work'[h].value = work[h].value
    BY <1>2, <1>3 DEF AnyWork, MemberWork, VoiceWork, PresenceWork, LastWork, RoleWork
<1> QED BY <1>1, <1>2, <1>4

LEMMA FinishSets ==
    ASSUME Doing, NEW h \in Handler, Finish(h)
    PROVE  /\ work' = [work EXCEPT ![h] = Free]
           /\ work'[h] = Free /\ work'[h].pc = "idle" /\ Others(h)
BY DEF Finish, Others, Doing, Free

\* The wire follows.
Leaving(h) == wire' = IF Answered(h) THEN Tail(wire) ELSE wire
Joining(h) == wire' = Append(IF Answered(h) THEN Tail(wire) ELSE wire, h)
Allowed(h) == Answered(h) \/ work[h].pc \notin Awaits
Ordered(h) == \A a, b \in Handler \ {h} : Before(wire', a, b) <=> Before(wire, a, b)

LEMMA Leaves ==
    ASSUME Wired, NEW h \in Handler, Allowed(h), Leaving(h), Others(h), work'[h].pc \notin Awaits
    PROVE  Wired' /\ Ordered(h)
<1>1. Answered(h) <=> First(wire, h)
    BY DEF Answered, First
<1>2. First(wire, h) \/ ~In(wire, h)
    BY <1>1 DEF Wired, Allowed
<1>3. wire' = IF First(wire, h) THEN Tail(wire) ELSE wire
    BY <1>1 DEF Leaving
<1>4. /\ wire' \in Seq(Handler) /\ Once(wire')
      /\ \A a \in Handler : In(wire', a) <=> a # h /\ In(wire, a)
      /\ \A a, b \in Handler \ {h} : Before(wire', a, b) <=> Before(wire, a, b)
    BY <1>2, <1>3, LeavesWire DEF Wired
<1>5. \A a \in Handler : In(wire', a) <=> work'[a].pc \in Awaits
    BY <1>4 DEF Wired, Others
<1> QED BY <1>4, <1>5 DEF Wired, Ordered

LEMMA Joins ==
    ASSUME Wired, NEW h \in Handler, Allowed(h), Joining(h), Others(h), work'[h].pc \in Awaits
    PROVE  /\ Wired' /\ Ordered(h)
           /\ \A a \in Handler \ {h} : work[a].pc \in Awaits => Before(wire', a, h)
           /\ \A a \in Handler : ~Before(wire', h, a)
<1> DEFINE q == IF First(wire, h) THEN Tail(wire) ELSE wire
<1>1. Answered(h) <=> First(wire, h)
    BY DEF Answered, First
<1>2. First(wire, h) \/ ~In(wire, h)
    BY <1>1 DEF Wired, Allowed
<1>3. wire' = Append(q, h)
    BY <1>1 DEF Joining
<1>4. /\ q \in Seq(Handler) /\ Once(q)
      /\ \A a \in Handler : In(q, a) <=> a # h /\ In(wire, a)
      /\ \A a, b \in Handler \ {h} : Before(q, a, b) <=> Before(wire, a, b)
    <2> HIDE DEF q
    <2>1. q = IF First(wire, h) THEN Tail(wire) ELSE wire
        BY DEF q
    <2> QED BY <1>2, <2>1, LeavesWire DEF Wired
<1> HIDE DEF q
<1>5. ~In(q, h)
    BY <1>4
<1>6. /\ wire' \in Seq(Handler) /\ Once(wire')
      /\ \A a \in Handler : In(wire', a) <=> a = h \/ In(q, a)
      /\ \A a, b \in Handler \ {h} : Before(wire', a, b) <=> Before(q, a, b)
      /\ \A a \in Handler \ {h} : In(q, a) => Before(wire', a, h)
      /\ \A a \in Handler : ~Before(wire', h, a)
    <2>1. /\ Append(q, h) \in Seq(Handler) /\ Once(Append(q, h))
          /\ \A a \in Handler : In(Append(q, h), a) <=> a = h \/ In(q, a)
          /\ \A a, b \in Handler \ {h} : Before(Append(q, h), a, b) <=> Before(q, a, b)
          /\ \A a \in Handler \ {h} : In(q, a) => Before(Append(q, h), a, h)
          /\ \A a \in Handler : ~Before(Append(q, h), h, a)
        BY <1>4, <1>5, JoinsWire
    <2> QED BY <1>3, <2>1
<1>7. ASSUME NEW a \in Handler PROVE In(wire', a) <=> work'[a].pc \in Awaits
    <2>1. CASE a = h
        BY <1>6, <2>1
    <2>2. CASE a # h
        <3>1. work'[a] = work[a]
            BY <2>2 DEF Others
        <3>2. In(wire, a) <=> work[a].pc \in Awaits
            BY DEF Wired
        <3> QED BY <1>4, <1>6, <2>2, <3>1, <3>2
    <2> QED BY <2>1, <2>2
<1>8. Wired' /\ Ordered(h)
    BY <1>4, <1>6, <1>7 DEF Wired, Ordered
<1>9. \A a \in Handler \ {h} : work[a].pc \in Awaits => Before(wire', a, h)
    BY <1>4, <1>6 DEF Wired
<1> QED BY <1>6, <1>8, <1>9

LEMMA FirstOfAll ==
    ASSUME Wired, NEW h \in Handler, Answered(h)
    PROVE  \A a \in Handler : ~Before(wire, a, h)
BY NobodyBeforeHead DEF Wired, Answered, First

-------------------------------------------------------------------------------
(* Types.                                                                  *)

LEMMA FiniteSizes ==
    /\ \A S \in SUBSET User : IsFiniteSet(S) /\ Size(S) \in Nat
    /\ \A H \in SUBSET Handler : IsFiniteSet(H) /\ Size(H) \in Nat
BY GuildCountsAssumption, FS_Subset, FS_CardinalityType DEF Size

LEMMA PositiveTyped == \A n \in Int : Positive(n) \in Nat
BY DEF Positive

LEMMA OnlineTyped ==
    ASSUME presenceKey \in [Status -> Int]
    PROVE  Online \in Nat
<1> DEFINE F == [s \in Visible |-> {s} \X (1..Positive(presenceKey[s]))]
           All == {F[s] : s \in Visible}
<1>1. IsFiniteSet(Visible)
    <2>1. IsFiniteSet({"online"})
        BY FS_Singleton
    <2>2. IsFiniteSet({"online"} \cup {"idle"})
        BY <2>1, FS_AddElement
    <2>3. IsFiniteSet(({"online"} \cup {"idle"}) \cup {"dnd"})
        BY <2>2, FS_AddElement
    <2>4. ({"online"} \cup {"idle"}) \cup {"dnd"} = {"online", "idle", "dnd"}
        OBVIOUS
    <2> QED BY <2>3, <2>4, FS_Subset, GuildCountsAssumption
<1>2. IsFiniteSet(All)
    <2>1. F \in Surjection(Visible, All)
        BY DEF Surjection
    <2> QED BY <1>1, <2>1, FS_Surjection
<1>3. \A s \in Visible : IsFiniteSet(F[s])
    <2> SUFFICES ASSUME NEW s \in Visible PROVE IsFiniteSet({s} \X (1..Positive(presenceKey[s])))
        OBVIOUS
    <2>1. Positive(presenceKey[s]) \in Nat
        BY PositiveTyped DEF Status
    <2>2. IsFiniteSet(1..Positive(presenceKey[s]))
        BY <2>1, FS_Interval
    <2>3. IsFiniteSet({s})
        BY FS_Singleton
    <2> QED BY <2>2, <2>3, FS_Product
<1>4. \A S \in All : IsFiniteSet(S)
    BY <1>3
<1>5. IsFiniteSet(UNION All)
    BY <1>2, <1>4, FS_UNION
<1>6. Online = Size(UNION All)
    BY DEF Online
<1> QED BY <1>5, <1>6, FS_CardinalityType DEF Size

-------------------------------------------------------------------------------
(* The steps of a handler, by what it does last: issue a command, go on, end. *)

LEMMA DoingOne ==
    ASSUME Doing, NEW h \in Handler, NEW w \in {Free} \cup AnyWork, work' = [work EXCEPT ![h] = w],
           w \in PresenceWork => w.event.was \in {"none", w.event.old},
           w \in VoiceWork => w.event.was \/ w.event.is
    PROVE  Doing'
BY DEF Doing

Moved(h) == work'[h].kind = work[h].kind /\ work'[h] # Free
Last(h) == /\ \A a \in Handler \ {h} : work[a].pc \in Awaits => Before(wire', a, h)
           /\ \A a \in Handler : ~Before(wire', h, a)

Issued(h, pc, value) ==
    /\ Doing' /\ Wired' /\ Others(h) /\ Ordered(h) /\ Last(h) /\ Moved(h)
    /\ work'[h].pc = pc /\ work'[h].event = work[h].event /\ work'[h].value = value
Went(h, pc) ==
    /\ Doing' /\ Wired' /\ Others(h) /\ Ordered(h) /\ Moved(h)
    /\ work'[h].pc = pc /\ work'[h].event = work[h].event /\ work'[h].value = work[h].value
Ended(h) ==
    Doing' /\ Wired' /\ Others(h) /\ Ordered(h) /\ work'[h] = Free /\ work'[h].pc = "idle"

LEMMA IssueStep ==
    ASSUME Doing, Wired, NEW h \in Handler, work[h] # Free, Allowed(h), NEW pc \in Awaits,
           NEW value \in Int, Issue(h, pc, value),
           work[h].kind = "member" => pc \in {"set", "role"},
           work[h].kind = "voice" => pc \in {"decr", "incr", "get"},
           work[h].kind = "role" => pc = "role",
           work[h].kind = "presence" /\ work[h].pc \notin {"getlast", "setlast"} =>
               pc \in {"minus", "plus", "hgetall"},
           work[h].kind = "presence" /\ work[h].pc \in {"getlast", "setlast"} => pc = "setlast"
    PROVE  Issued(h, pc, value)
<1> DEFINE w == [work[h] EXCEPT !.pc = pc, !.value = value]
<1>1. /\ work' = [work EXCEPT ![h] = w] /\ work'[h] = w /\ Others(h)
      /\ work'[h].pc = pc /\ work'[h].kind = work[h].kind
      /\ work'[h].event = work[h].event /\ work'[h].value = value
    <2>1. work' = [work EXCEPT ![h] = w]
        BY DEF Issue, Doing
    <2>2. work'[h] = w /\ Others(h)
        BY <2>1 DEF Others, Doing
    <2>3. work[h] \in AnyWork
        BY FreeIsIdle
    <2>4. w.pc = pc /\ w.kind = work[h].kind /\ w.event = work[h].event /\ w.value = value
        BY <2>3 DEF AnyWork, MemberWork, VoiceWork, PresenceWork, LastWork, RoleWork
    <2> HIDE DEF w
    <2> QED BY <2>1, <2>2, <2>4
<1>2. w \in AnyWork /\ (w \in PresenceWork => work[h] \in PresenceWork)
        /\ (w \in VoiceWork => work[h] \in VoiceWork)
    <2>1. CASE work[h].kind = "member"
        <3>1. work[h] \in MemberWork
            BY <2>1, WorkOfKind
        <3>2. w \in MemberWork
            BY <2>1, <3>1 DEF MemberWork
        <3>3. w \notin PresenceWork /\ w \notin VoiceWork
            BY <3>2 DEF MemberWork, PresenceWork, VoiceWork
        <3> QED BY <3>2, <3>3 DEF AnyWork
    <2>2. CASE work[h].kind = "voice"
        <3>1. work[h] \in VoiceWork
            BY <2>2, WorkOfKind
        <3>2. w \in VoiceWork
            BY <2>2, <3>1 DEF VoiceWork
        <3>3. w \notin PresenceWork
            BY <3>2 DEF PresenceWork, VoiceWork
        <3> QED BY <3>1, <3>2, <3>3 DEF AnyWork
    <2>3. CASE work[h].kind = "role"
        <3>1. work[h] \in RoleWork
            BY <2>3, WorkOfKind
        <3>2. w \in RoleWork
            BY <2>3, <3>1 DEF RoleWork
        <3>3. w \notin PresenceWork /\ w \notin VoiceWork
            BY <3>2 DEF RoleWork, PresenceWork, VoiceWork
        <3> QED BY <3>2, <3>3 DEF AnyWork
    <2>4. CASE work[h].kind = "presence" /\ work[h].pc \in {"getlast", "setlast"}
        <3>1. work[h] \in LastWork
            BY <2>4, WorkOfKind
        <3>2. w \in LastWork
            BY <2>4, <3>1 DEF LastWork
        <3>3. w \notin PresenceWork /\ w \notin VoiceWork
            BY <2>4, <3>1, <3>2 DEF LastWork, PresenceWork, VoiceWork
        <3> QED BY <3>2, <3>3 DEF AnyWork
    <2>5. CASE work[h].kind = "presence" /\ work[h].pc \notin {"getlast", "setlast"}
        <3>1. work[h] \in PresenceWork
            BY <2>5, FreeIsIdle
               DEF AnyWork, MemberWork, VoiceWork, PresenceWork, LastWork, RoleWork
        <3>2. w \in PresenceWork
            BY <2>5, <3>1 DEF PresenceWork
        <3>3. w \notin VoiceWork
            BY <3>2 DEF PresenceWork, VoiceWork
        <3> QED BY <3>1, <3>2, <3>3 DEF AnyWork
    <2> QED BY <2>1, <2>2, <2>3, <2>4, <2>5, WorkOfKind
<1>3. w.event = work[h].event
    BY <1>1
<1> HIDE DEF w
<1>4. Doing'
    BY <1>1, <1>2, <1>3, DoingOne DEF Doing
<1>5. Moved(h)
    BY <1>1, <1>2 DEF Moved, Free, AnyWork, MemberWork, VoiceWork, PresenceWork, LastWork,
       RoleWork
<1>6. Wired' /\ Ordered(h) /\ Last(h)
    BY <1>1, Joins DEF Issue, Joining, Last
<1> QED BY <1>1, <1>4, <1>5, <1>6 DEF Issued

LEMMA ContinueStep ==
    ASSUME Doing, Wired, NEW h \in Handler, work[h] # Free, Allowed(h), work[h].kind = "member",
           NEW pc \in {"update", "updated", "jobs", "rest"}, Continue(h, pc)
    PROVE  Went(h, pc)
<1> DEFINE w == [work[h] EXCEPT !.pc = pc]
<1>1. /\ work' = [work EXCEPT ![h] = w] /\ work'[h] = w /\ Others(h)
      /\ work'[h].pc = pc /\ work'[h].kind = work[h].kind
      /\ work'[h].event = work[h].event /\ work'[h].value = work[h].value
    BY ContinueSets
<1>2. w \in MemberWork
    BY WorkOfKind DEF MemberWork
<1> HIDE DEF w
<1>3. w \in AnyWork /\ w \notin PresenceWork /\ w \notin VoiceWork /\ w # Free
    BY <1>2, <1>1 DEF MemberWork, PresenceWork, VoiceWork, AnyWork, Free
<1>4. Doing' /\ Moved(h)
    BY <1>1, <1>3, DoingOne DEF Moved
<1>5. Wired' /\ Ordered(h)
    BY <1>1, Leaves DEF Continue, Leaving, Awaits
<1> QED BY <1>1, <1>4, <1>5 DEF Went

LEMMA FinishStep ==
    ASSUME Doing, Wired, NEW h \in Handler, Allowed(h), Finish(h)
    PROVE  Ended(h)
<1>1. work' = [work EXCEPT ![h] = Free] /\ work'[h] = Free /\ work'[h].pc = "idle" /\ Others(h)
    BY FinishSets
<1>2. Free \notin PresenceWork /\ Free \notin VoiceWork
    BY DEF Free, PresenceWork, VoiceWork
<1>3. Doing'
    BY <1>1, <1>2, DoingOne
<1>4. Wired' /\ Ordered(h)
    BY <1>1, Leaves DEF Finish, Leaving, Awaits
<1> QED BY <1>1, <1>3, <1>4 DEF Ended

\* Each action, as one of the three.
LEMMA AtPc ==
    ASSUME CountsTyped, NEW h \in Handler, NEW kind, NEW pc, Is(h, kind, pc), pc # "idle"
    PROVE  work[h] # Free /\ work[h].pc = pc /\ work[h].kind = kind
BY FreeIsIdle DEF CountsTyped, Is

LEMMA UnknownMoves ==
    ASSUME CountsTyped, NEW h \in Handler, Unknown(h)
    PROVE  work[h] # Free /\ Ended(h)
<1>1. work[h] # Free
    BY FreeIsIdle DEF CountsTyped, Unknown
<1> QED BY <1>1, FinishStep DEF CountsTyped, Unknown, Allowed, Awaits

LEMMA MemberFoundMoves ==
    ASSUME CountsTyped, NEW h \in Handler, MemberFound(h)
    PROVE  Issued(h, "set", Size(present))
<1>1. work[h] # Free /\ work[h].pc = "find" /\ work[h].kind = "member"
    BY FreeIsIdle DEF CountsTyped, MemberFound, Is
<1>2. Allowed(h) /\ Issue(h, "set", Size(present))
    BY <1>1 DEF MemberFound, Allowed, Awaits
<1>3. Size(present) \in Int /\ "set" \in Awaits
    BY FiniteSizes DEF CountsTyped, Typed, Awaits
<1> QED BY <1>1, <1>2, <1>3, IssueStep DEF CountsTyped

LEMMA MemberUpdateMoves ==
    ASSUME CountsTyped, NEW h \in Handler, MemberUpdate(h)
    PROVE  Went(h, "updated")
<1>1. work[h] # Free /\ work[h].pc = "update" /\ work[h].kind = "member"
    BY FreeIsIdle DEF CountsTyped, MemberUpdate, Is
<1> QED BY <1>1, ContinueStep DEF CountsTyped, MemberUpdate, Allowed, Awaits

LEMMA MemberUpdatedMoves ==
    ASSUME CountsTyped, NEW h \in Handler, MemberUpdated(h)
    PROVE  Went(h, "jobs")
<1>1. work[h] # Free /\ work[h].pc = "updated" /\ work[h].kind = "member"
    BY FreeIsIdle DEF CountsTyped, MemberUpdated, Is
<1> QED BY <1>1, ContinueStep DEF CountsTyped, MemberUpdated, Allowed, Awaits

LEMMA MemberRestMoves ==
    ASSUME CountsTyped, NEW h \in Handler, MemberRest(h)
    PROVE  Ended(h)
<1>1. work[h].pc = "rest"
    BY DEF MemberRest, Is
<1> QED BY <1>1, FinishStep DEF CountsTyped, MemberRest, Allowed, Awaits

LEMMA MemberSetMoves ==
    ASSUME CountsTyped, NEW h \in Handler, MemberSet(h)
    PROVE  Went(h, IF served = "shard" THEN "update" ELSE "jobs")
<1>1. work[h] # Free /\ work[h].pc = "set" /\ work[h].kind = "member"
    BY FreeIsIdle DEF CountsTyped, MemberSet, Is
<1>2. Allowed(h)
    BY <1>1 DEF MemberSet, Allowed, Awaits
<1>3. (IF served = "shard" THEN "update" ELSE "jobs") \in {"update", "updated", "jobs", "rest"}
    OBVIOUS
<1> QED BY <1>1, <1>2, <1>3, ContinueStep DEF CountsTyped, MemberSet

LEMMA MemberJobsMoves ==
    ASSUME CountsTyped, NEW h \in Handler, MemberJobs(h)
    PROVE  \/ work[h].event.roles /\ Issued(h, "role", work[h].value)
           \/ ~work[h].event.roles /\ Ended(h)
<1>1. work[h] # Free /\ work[h].pc = "jobs" /\ work[h].kind = "member"
    BY FreeIsIdle DEF CountsTyped, MemberJobs, Is
<1>2. Allowed(h)
    BY <1>1 DEF MemberJobs, Allowed, Awaits
<1>3. work[h].value \in Int
    BY <1>1, WorkOfKind DEF CountsTyped, MemberWork
<1>4. CASE Issue(h, "role", work[h].value) /\ work[h].event.roles
    BY <1>1, <1>2, <1>3, <1>4, IssueStep DEF CountsTyped, Awaits
<1>5. CASE Finish(h) /\ ~work[h].event.roles
    BY <1>2, <1>5, FinishStep DEF CountsTyped
<1> QED BY <1>4, <1>5 DEF MemberJobs

LEMMA MemberRoleMoves ==
    ASSUME CountsTyped, NEW h \in Handler, MemberRole(h)
    PROVE  IF served = "custom" THEN Went(h, "rest") ELSE Ended(h)
<1>1. work[h] # Free /\ work[h].pc = "role" /\ work[h].kind = "member"
    BY FreeIsIdle DEF CountsTyped, MemberRole, Is
<1>2. Allowed(h)
    BY <1>1 DEF MemberRole, Allowed, Awaits
<1>3. CASE served = "custom"
    BY <1>1, <1>2, <1>3, ContinueStep DEF CountsTyped, MemberRole
<1>4. CASE served # "custom"
    BY <1>2, <1>4, FinishStep DEF CountsTyped, MemberRole
<1> QED BY <1>3, <1>4

LEMMA JobsFailMoves ==
    ASSUME CountsTyped, NEW h \in Handler, JobsFail(h)
    PROVE  work[h] # Free /\ work[h].kind = "member" /\ Ended(h)
<1>1. work[h] # Free /\ work[h].pc \in {"jobs", "rest"} /\ work[h].kind = "member"
    BY FreeIsIdle DEF CountsTyped, JobsFail, Is
<1> QED BY <1>1, FinishStep DEF CountsTyped, JobsFail, Allowed, Awaits

LEMMA VoiceFoundMoves ==
    ASSUME CountsTyped, NEW h \in Handler, VoiceFound(h)
    PROVE  \/ work[h].event.was /\ Issued(h, "decr", Unset)
           \/ ~work[h].event.was /\ Issued(h, "incr", Unset)
<1>1. work[h] # Free /\ work[h].pc = "find" /\ work[h].kind = "voice"
    BY FreeIsIdle DEF CountsTyped, VoiceFound, Is
<1>2. Allowed(h)
    BY <1>1 DEF VoiceFound, Allowed, Awaits
<1>3. CASE work[h].event.was /\ Issue(h, "decr", Unset)
    BY <1>1, <1>2, <1>3, IssueStep DEF CountsTyped, Awaits, Unset
<1>4. CASE ~work[h].event.was /\ Issue(h, "incr", Unset)
    BY <1>1, <1>2, <1>4, IssueStep DEF CountsTyped, Awaits, Unset
<1> QED BY <1>3, <1>4 DEF VoiceFound

LEMMA VoiceDecrMoves ==
    ASSUME CountsTyped, NEW h \in Handler, VoiceDecr(h)
    PROVE  \/ work[h].event.is /\ Issued(h, "incr", Unset)
           \/ /\ ~work[h].event.is /\ ReadVoice(h)
              /\ \E value \in {Positive(voiceKey), 0} : Issued(h, "get", value)
<1>1. work[h] # Free /\ work[h].pc = "decr" /\ work[h].kind = "voice"
    BY FreeIsIdle DEF CountsTyped, VoiceDecr, Is
<1>2. Allowed(h)
    BY <1>1 DEF VoiceDecr, Allowed, Awaits
<1>3. CASE work[h].event.is /\ Issue(h, "incr", Unset)
    BY <1>1, <1>2, <1>3, IssueStep DEF CountsTyped, Awaits, Unset
<1>4. CASE ~work[h].event.is /\ ReadVoice(h)
    <2>1. PICK value \in {Positive(voiceKey), 0} : Issue(h, "get", value)
        BY <1>4 DEF ReadVoice
    <2>2. value \in Int
        BY PositiveTyped DEF CountsTyped, Typed
    <2>3. Issued(h, "get", value)
        BY <1>1, <1>2, <2>1, <2>2, IssueStep DEF CountsTyped, Awaits
    <2> QED BY <1>4, <2>3
<1> QED BY <1>3, <1>4 DEF VoiceDecr

LEMMA VoiceIncrMoves ==
    ASSUME CountsTyped, NEW h \in Handler, VoiceIncr(h)
    PROVE  ReadVoice(h) /\ \E value \in {Positive(voiceKey), 0} : Issued(h, "get", value)
<1>1. work[h] # Free /\ work[h].pc = "incr" /\ work[h].kind = "voice"
    BY FreeIsIdle DEF CountsTyped, VoiceIncr, Is
<1>2. Allowed(h)
    BY <1>1 DEF VoiceIncr, Allowed, Awaits
<1>3. PICK value \in {Positive(voiceKey), 0} : Issue(h, "get", value)
    BY DEF ReadVoice, VoiceIncr
<1>4. value \in Int
    BY PositiveTyped DEF CountsTyped, Typed
<1>5. Issued(h, "get", value)
    BY <1>1, <1>2, <1>3, <1>4, IssueStep DEF CountsTyped, Awaits
<1> QED BY <1>5 DEF VoiceIncr

LEMMA VoiceGetMoves ==
    ASSUME CountsTyped, NEW h \in Handler, VoiceGet(h)
    PROVE  Ended(h)
<1>1. work[h] # Free /\ work[h].pc = "get" /\ work[h].kind = "voice"
    BY FreeIsIdle DEF CountsTyped, VoiceGet, Is
<1>2. Allowed(h)
    BY <1>1 DEF VoiceGet, Allowed, Awaits
<1> QED BY <1>2, FinishStep DEF CountsTyped, VoiceGet

LEMMA PresenceFoundMoves ==
    ASSUME CountsTyped, NEW h \in Handler, PresenceFound(h)
    PROVE  \/ work[h].event.was # "none" /\ Issued(h, "minus", Unset)
           \/ work[h].event.was = "none" /\ Issued(h, "plus", Unset)
<1>1. work[h] # Free /\ work[h].pc = "find" /\ work[h].kind = "presence"
    BY FreeIsIdle DEF CountsTyped, PresenceFound, Is
<1>2. Allowed(h)
    BY <1>1 DEF PresenceFound, Allowed, Awaits
<1>3. CASE work[h].event.was # "none" /\ Issue(h, "minus", Unset)
    BY <1>1, <1>2, <1>3, IssueStep DEF CountsTyped, Awaits, Unset
<1>4. CASE work[h].event.was = "none" /\ Issue(h, "plus", Unset)
    BY <1>1, <1>2, <1>4, IssueStep DEF CountsTyped, Awaits, Unset
<1> QED BY <1>3, <1>4 DEF PresenceFound

LEMMA PresenceMinusMoves ==
    ASSUME CountsTyped, NEW h \in Handler, PresenceMinus(h)
    PROVE  Issued(h, "plus", Unset)
<1>1. work[h] # Free /\ work[h].pc = "minus" /\ work[h].kind = "presence"
    BY FreeIsIdle DEF CountsTyped, PresenceMinus, Is
<1>2. Allowed(h)
    BY <1>1 DEF PresenceMinus, Allowed, Awaits
<1> QED BY <1>1, <1>2, IssueStep DEF CountsTyped, Awaits, Unset, PresenceMinus

LEMMA PresencePlusMoves ==
    ASSUME CountsTyped, NEW h \in Handler, PresencePlus(h)
    PROVE  \E value \in {Online, 0} : Issued(h, "hgetall", value)
<1>1. work[h] # Free /\ work[h].pc = "plus" /\ work[h].kind = "presence"
    BY FreeIsIdle DEF CountsTyped, PresencePlus, Is
<1>2. Allowed(h)
    BY <1>1 DEF PresencePlus, Allowed, Awaits
<1>3. PICK value \in {Online, 0} : Issue(h, "hgetall", value)
    BY DEF PresencePlus
<1>4. value \in Int
    BY OnlineTyped DEF CountsTyped, Typed
<1>5. Issued(h, "hgetall", value)
    BY <1>1, <1>2, <1>3, <1>4, IssueStep DEF CountsTyped, Awaits
<1> QED BY <1>5

LEMMA PresenceLastMoves ==
    ASSUME CountsTyped, NEW h \in Handler, PresenceLast(h)
    PROVE  \/ work[h].event.last # work[h].value /\ Issued(h, "setlast", work[h].value)
           \/ work[h].event.last = work[h].value /\ Ended(h)
<1>1. work[h] # Free /\ work[h].pc = "getlast" /\ work[h].kind = "presence"
    BY FreeIsIdle DEF CountsTyped, PresenceLast, Is
<1>2. Allowed(h)
    BY <1>1 DEF PresenceLast, Allowed, Awaits
<1>3. work[h].value \in Int
    BY <1>1, WorkOfKind DEF CountsTyped, LastWork
<1>4. CASE work[h].event.last # work[h].value /\ Issue(h, "setlast", work[h].value)
    BY <1>1, <1>2, <1>3, <1>4, IssueStep DEF CountsTyped, Awaits
<1>5. CASE work[h].event.last = work[h].value /\ Finish(h)
    BY <1>2, <1>5, FinishStep DEF CountsTyped
<1> QED BY <1>4, <1>5 DEF PresenceLast

LEMMA PresenceSetMoves ==
    ASSUME CountsTyped, NEW h \in Handler, PresenceSet(h)
    PROVE  Ended(h)
<1>1. work[h] # Free /\ work[h].pc = "setlast" /\ work[h].kind = "presence"
    BY FreeIsIdle DEF CountsTyped, PresenceSet, Is
<1>2. Allowed(h)
    BY <1>1 DEF PresenceSet, Allowed, Awaits
<1> QED BY <1>2, FinishStep DEF CountsTyped, PresenceSet

LEMMA RoleFoundMoves ==
    ASSUME CountsTyped, NEW h \in Handler, RoleFound(h)
    PROVE  Issued(h, "role", Unset)
<1>1. work[h] # Free /\ work[h].pc = "find" /\ work[h].kind = "role"
    BY FreeIsIdle DEF CountsTyped, RoleFound, Is
<1>2. Allowed(h)
    BY <1>1 DEF RoleFound, Allowed, Awaits
<1> QED BY <1>1, <1>2, IssueStep DEF CountsTyped, Awaits, Unset, RoleFound

LEMMA RoleCountedMoves ==
    ASSUME CountsTyped, NEW h \in Handler, RoleCounted(h)
    PROVE  Ended(h)
<1>1. work[h] # Free /\ work[h].pc = "role" /\ work[h].kind = "role"
    BY FreeIsIdle DEF CountsTyped, RoleCounted, Is
<1>2. Allowed(h)
    BY <1>1 DEF RoleCounted, Allowed, Awaits
<1> QED BY <1>2, FinishStep DEF CountsTyped, RoleCounted

LEMMA PresenceReadMoves ==
    ASSUME CountsTyped, NEW h \in Handler, PresenceRead(h)
    PROVE  \E last \in {lastKey, Unset} :
               /\ Doing' /\ Wired' /\ Others(h) /\ Ordered(h) /\ Last(h) /\ Moved(h)
               /\ work'[h].pc = "getlast" /\ work'[h].event = [last |-> last]
               /\ work'[h].value = work[h].value
<1>1. work[h] # Free /\ work[h].pc = "hgetall" /\ work[h].kind = "presence"
    BY FreeIsIdle DEF CountsTyped, PresenceRead, Is
<1>2. Allowed(h)
    BY <1>1 DEF PresenceRead, Allowed, Awaits
<1>3. PICK last \in {lastKey, Unset} :
          work' = [work EXCEPT ![h].pc = "getlast", ![h].event = [last |-> last]]
    BY DEF PresenceRead
<1> DEFINE w == [work[h] EXCEPT !.pc = "getlast", !.event = [last |-> last]]
<1>4. work[h] \in PresenceWork
    BY <1>1, WorkOfKind DEF CountsTyped
<1>5. last \in Int
    BY DEF CountsTyped, Typed, Unset
<1>6. w \in LastWork /\ w.pc = "getlast" /\ w.kind = "presence" /\ w.event = [last |-> last]
        /\ w.value = work[h].value
    BY <1>4, <1>5 DEF PresenceWork, LastWork
<1>7. work' = [work EXCEPT ![h] = w] /\ work'[h] = w /\ Others(h)
    BY <1>3 DEF Doing, CountsTyped, Others
<1> HIDE DEF w
<1>8. w \in AnyWork /\ w \notin PresenceWork /\ w \notin VoiceWork /\ w # Free
    BY <1>6 DEF LastWork, PresenceWork, VoiceWork, AnyWork, Free
<1>9. Doing' /\ Moved(h)
    BY <1>1, <1>6, <1>7, <1>8, DoingOne DEF CountsTyped, Moved
<1>10. Joining(h)
    BY DEF PresenceRead, Joining
<1>11. Wired' /\ Ordered(h) /\ Last(h)
    BY <1>2, <1>6, <1>7, <1>10, Joins DEF CountsTyped, Awaits, Last
<1> QED BY <1>6, <1>7, <1>9, <1>11

LEMMA HandleMoves ==
    ASSUME CountsTyped, NEW h \in Handler, Handle(h)
    PROVE  /\ work[h] # Free /\ (work'[h] = Free \/ Moved(h))
           /\ Doing' /\ Wired' /\ Others(h) /\ Ordered(h)
<1>0. work[h].pc # "idle" => work[h] # Free
    BY FreeIsIdle DEF CountsTyped
<1>1. CASE Unknown(h)
    BY <1>0, <1>1, UnknownMoves DEF Unknown, Is, Issued, Went, Ended
<1>2. CASE MemberFound(h)
    BY <1>0, <1>2, MemberFoundMoves DEF MemberFound, Is, Issued, Went, Ended
<1>3. CASE MemberSet(h)
    BY <1>0, <1>3, MemberSetMoves DEF MemberSet, Is, Issued, Went, Ended
<1>4. CASE MemberUpdate(h)
    BY <1>0, <1>4, MemberUpdateMoves DEF MemberUpdate, Is, Issued, Went, Ended
<1>5. CASE MemberUpdated(h)
    BY <1>0, <1>5, MemberUpdatedMoves DEF MemberUpdated, Is, Issued, Went, Ended
<1>6. CASE MemberJobs(h)
    BY <1>0, <1>6, MemberJobsMoves DEF MemberJobs, Is, Issued, Went, Ended
<1>7. CASE MemberRole(h)
    BY <1>0, <1>7, MemberRoleMoves DEF MemberRole, Is, Issued, Went, Ended
<1>8. CASE MemberRest(h)
    BY <1>0, <1>8, MemberRestMoves DEF MemberRest, Is, Issued, Went, Ended
<1>9. CASE JobsFail(h)
    BY <1>0, <1>9, JobsFailMoves DEF JobsFail, Is, Issued, Went, Ended
<1>10. CASE VoiceFound(h)
    BY <1>0, <1>10, VoiceFoundMoves DEF VoiceFound, Is, Issued, Went, Ended
<1>11. CASE VoiceDecr(h)
    BY <1>0, <1>11, VoiceDecrMoves DEF VoiceDecr, Is, Issued, Went, Ended
<1>12. CASE VoiceIncr(h)
    BY <1>0, <1>12, VoiceIncrMoves DEF VoiceIncr, Is, Issued, Went, Ended
<1>13. CASE VoiceGet(h)
    BY <1>0, <1>13, VoiceGetMoves DEF VoiceGet, Is, Issued, Went, Ended
<1>14. CASE PresenceFound(h)
    BY <1>0, <1>14, PresenceFoundMoves DEF PresenceFound, Is, Issued, Went, Ended
<1>15. CASE PresenceMinus(h)
    BY <1>0, <1>15, PresenceMinusMoves DEF PresenceMinus, Is, Issued, Went, Ended
<1>16. CASE PresencePlus(h)
    BY <1>0, <1>16, PresencePlusMoves DEF PresencePlus, Is, Issued, Went, Ended
<1>17. CASE PresenceRead(h)
    BY <1>0, <1>17, PresenceReadMoves DEF PresenceRead, Is, Issued, Went, Ended
<1>18. CASE PresenceLast(h)
    BY <1>0, <1>18, PresenceLastMoves DEF PresenceLast, Is, Issued, Went, Ended
<1>19. CASE PresenceSet(h)
    BY <1>0, <1>19, PresenceSetMoves DEF PresenceSet, Is, Issued, Went, Ended
<1>20. CASE RoleFound(h)
    BY <1>0, <1>20, RoleFoundMoves DEF RoleFound, Is, Issued, Went, Ended
<1>21. CASE RoleCounted(h)
    BY <1>0, <1>21, RoleCountedMoves DEF RoleCounted, Is, Issued, Went, Ended
<1> QED BY <1>1, <1>2, <1>3, <1>4, <1>5, <1>6, <1>7, <1>8, <1>9, <1>10, <1>11, <1>12, <1>13,
           <1>14, <1>15, <1>16, <1>17, <1>18, <1>19, <1>20, <1>21 DEF Handle

\* An event's handler starts where its kind says; or nobody is there to handle it.
Started(h, e) ==
    /\ Doing' /\ Wired' /\ Others(h) /\ wire' = wire /\ UNCHANGED <<unseen, lost>>
    /\ work[h] = Free /\ work'[h] # Free
    /\ work'[h].pc = "find" /\ work'[h].kind = e.kind /\ work'[h].event = e

Unheard(e) == Doing' /\ Wired' /\ UNCHANGED <<work, wire>> /\ Uncounted(e)
Comes(e) == (\E h \in Handler : Started(h, e)) \/ Unheard(e)

LEMMA StartMoves ==
    ASSUME CountsTyped, NEW e \in MemberEvent \cup VoiceEvent \cup PresenceEvent \cup RoleEvent,
           e \in VoiceEvent => e.was \/ e.is, e \in PresenceEvent => e.was \in {"none", e.old},
           Start(e)
    PROVE  Comes(e)
<1>0. CASE Uncounted(e) /\ UNCHANGED work
    <2>1. wire' = wire
        BY DEF Start
    <2>2. Doing' /\ Wired'
        BY <1>0, <2>1 DEF CountsTyped, Doing, Wired
    <2> QED BY <1>0, <2>1, <2>2 DEF Comes, Unheard
<1>a. SUFFICES ASSUME ~(Uncounted(e) /\ UNCHANGED work)
               PROVE  \E h \in Handler : Started(h, e)
    BY <1>0 DEF Comes
<1>1. PICK h \in Handler :
          /\ work[h] = Free
          /\ work' = [work EXCEPT ![h] = [pc |-> "find", kind |-> e.kind, event |-> e, value |-> Unset]]
    BY <1>a DEF Start
<1>b. UNCHANGED <<unseen, lost>>
    BY <1>a DEF Start
<1> DEFINE w == [pc |-> "find", kind |-> e.kind, event |-> e, value |-> Unset]
<1>2. w \in AnyWork
    BY DEF AnyWork, MemberWork, VoiceWork, PresenceWork, RoleWork,
           MemberEvent, VoiceEvent, PresenceEvent, RoleEvent, Unset
<1>3. (w \in PresenceWork => e \in PresenceEvent) /\ (w \in VoiceWork => e \in VoiceEvent)
    BY DEF PresenceWork, VoiceWork
<1>4. w # Free /\ w.pc = "find" /\ w.kind = e.kind /\ w.event = e
    BY DEF Free
<1> HIDE DEF w
<1>5. Doing'
    <2>1. work' = [work EXCEPT ![h] = w]
        BY <1>1 DEF w
    <2> QED BY <1>2, <1>3, <1>4, <2>1, DoingOne DEF CountsTyped
<1>6. work'[h] = w /\ Others(h)
    BY <1>1 DEF Doing, CountsTyped, Others, w
<1>7. wire' = wire
    BY DEF Start
<1>8. Wired'
    <2>1. work[h].pc = "idle"
        BY <1>1 DEF Free
    <2>2. \A a \in Handler : work'[a].pc \in Awaits <=> work[a].pc \in Awaits
        BY <1>4, <1>6, <2>1 DEF Others, Awaits
    <2> QED BY <1>7, <2>2 DEF Wired, CountsTyped
<1> QED BY <1>1, <1>b, <1>4, <1>5, <1>6, <1>7, <1>8 DEF Started

MemberEventOf(u) == [kind |-> "member", by |-> IF u \in present THEN -1 ELSE 1, roles |-> u \in holder]
VoiceEventOf(u, in) == [kind |-> "voice", was |-> u \in speaking, is |-> in]
PresenceEventOf(u, s) == [kind |-> "presence", old |-> status[u],
                          was |-> IF u \in cached THEN status[u] ELSE "none", is |-> s]
RoleEventOf(u) == [kind |-> "role", by |-> IF u \in holder THEN -1 ELSE 1]

LEMMA ChangesStart ==
    ASSUME CountsTyped, NEW u \in User
    PROVE  /\ MemberChange(u) => Comes(MemberEventOf(u))
           /\ \A in \in BOOLEAN :
                 VoiceChange(u, in) => Comes(VoiceEventOf(u, in))
           /\ \A s \in Status :
                 PresenceChange(u, s) => Comes(PresenceEventOf(u, s))
           /\ RoleChange(u) => Comes(RoleEventOf(u))
<1>1. ASSUME MemberChange(u) PROVE Comes(MemberEventOf(u))
    <2>1. MemberEventOf(u) \in MemberEvent
        BY DEF MemberEventOf, MemberEvent
    <2>2. MemberEventOf(u) \notin VoiceEvent /\ MemberEventOf(u) \notin PresenceEvent
        BY <2>1 DEF VoiceEvent, PresenceEvent, MemberEvent
    <2>3. Start(MemberEventOf(u))
        BY <1>1 DEF MemberChange, MemberEventOf
    <2> QED BY <2>1, <2>2, <2>3, StartMoves
<1>2. ASSUME NEW in \in BOOLEAN, VoiceChange(u, in)
      PROVE  Comes(VoiceEventOf(u, in))
    <2>1. VoiceEventOf(u, in) \in VoiceEvent
        BY DEF VoiceEventOf, VoiceEvent
    <2>2. VoiceEventOf(u, in) \notin PresenceEvent
        BY <2>1 DEF VoiceEvent, PresenceEvent
    <2>3. Start(VoiceEventOf(u, in)) /\ (u \in speaking \/ in)
        BY <1>2 DEF VoiceChange, VoiceEventOf
    <2>4. VoiceEventOf(u, in).was \/ VoiceEventOf(u, in).is
        BY <2>3 DEF VoiceEventOf
    <2> QED BY <2>1, <2>2, <2>3, <2>4, StartMoves
<1>3. ASSUME NEW s \in Status, PresenceChange(u, s)
      PROVE  Comes(PresenceEventOf(u, s))
    <2>1. PresenceEventOf(u, s) \in PresenceEvent
        BY DEF PresenceEventOf, PresenceEvent, CountsTyped, Typed
    <2>2. PresenceEventOf(u, s) \notin VoiceEvent
        BY <2>1 DEF VoiceEvent, PresenceEvent
    <2>3. Start(PresenceEventOf(u, s))
        BY <1>3 DEF PresenceChange, PresenceEventOf
    <2>4. PresenceEventOf(u, s).was \in {"none", PresenceEventOf(u, s).old}
        BY DEF PresenceEventOf
    <2> QED BY <2>1, <2>2, <2>3, <2>4, StartMoves
<1>4. ASSUME RoleChange(u) PROVE Comes(RoleEventOf(u))
    <2>1. RoleEventOf(u) \in RoleEvent
        BY DEF RoleEventOf, RoleEvent
    <2>2. RoleEventOf(u) \notin VoiceEvent /\ RoleEventOf(u) \notin PresenceEvent
        BY <2>1 DEF VoiceEvent, PresenceEvent, RoleEvent
    <2>3. Start(RoleEventOf(u))
        BY <1>4 DEF RoleChange, RoleEventOf
    <2> QED BY <2>1, <2>2, <2>3, StartMoves
<1> QED BY <1>1, <1>2, <1>3, <1>4

\* What an event that nobody counts adds to what is not counted.
LEMMA MissedPresence ==
    ASSUME unseen \in [voice : Int, presence : [Status -> Int]], NEW e, e.kind = "presence",
           e.old \in Status, e.is \in Status
    PROVE  /\ Missed(e) \in [voice : Int, presence : [Status -> Int]]
           /\ Missed(e).voice = unseen.voice
           /\ \A s \in Status : Missed(e).presence[s]
                                = unseen.presence[s] + One(s = e.is) - One(s = e.old)
<1> DEFINE r == [s \in Status |-> unseen.presence[s] + One(s = e.is) - One(s = e.old)]
<1>1. r \in [Status -> Int]
    BY DEF One
<1>2. Missed(e) = [unseen EXCEPT !.presence = r]
    BY DEF Missed
<1>3. Missed(e).presence = r /\ Missed(e).voice = unseen.voice
    BY <1>2
<1>4. Missed(e) \in [voice : Int, presence : [Status -> Int]]
    BY <1>1, <1>2
<1> QED BY <1>3, <1>4

LEMMA MissedTyped ==
    ASSUME unseen \in [voice : Int, presence : [Status -> Int]],
           NEW e \in MemberEvent \cup VoiceEvent \cup PresenceEvent \cup RoleEvent
    PROVE  Missed(e) \in [voice : Int, presence : [Status -> Int]]
<1>1. CASE e \in PresenceEvent
    BY <1>1, MissedPresence DEF PresenceEvent
<1>2. CASE e \notin PresenceEvent
    BY <1>2 DEF Missed, One, MemberEvent, VoiceEvent, RoleEvent
<1> QED BY <1>1, <1>2

LEMMA UnseenPresence ==
    ASSUME unseen \in [voice : Int, presence : [Status -> Int]], NEW s \in Status, NEW n \in Int,
           unseen' = [unseen EXCEPT !.presence[s] = @ + n]
    PROVE  /\ unseen' \in [voice : Int, presence : [Status -> Int]]
           /\ unseen'.voice = unseen.voice
           /\ unseen'.presence = [unseen.presence EXCEPT ![s] = @ + n]
OBVIOUS

\* What a handler does keeps the numbers numbers.
LEMMA HandleTyped ==
    ASSUME CountsTyped, NEW h \in Handler, Handle(h)
    PROVE  Typed'
<1> USE DEF Typed, env, discord, keys, history, Publish
<1>f. ASSUME faults \in 0..MaxFaults, Fault \/ Fine PROVE faults' \in 0..MaxFaults
    BY <1>f, GuildCountsAssumption DEF Fault, Fine
<1>0. /\ work[h].pc # "idle" => work[h] # Free
      /\ faults \in 0..MaxFaults /\ (Fault \/ Fine) => faults' \in 0..MaxFaults
      /\ work[h] # Free => work[h].value \in Int
      /\ work[h] # Free /\ work[h].kind = "member" =>
             work[h].event.by \in Int
      /\ work[h] # Free /\ work[h].kind = "role" => work[h].event.by \in Int
    BY <1>f, FreeIsIdle, WorkOfKind DEF CountsTyped, AnyWork, MemberWork, VoiceWork,
       PresenceWork, LastWork,
       RoleWork, MemberEvent, RoleEvent
<1>p. /\ work[h] # Free /\ work[h].kind = "presence" /\ work[h].pc \in {"find", "minus"} =>
             work[h].event.old \in Status /\ work[h].event.is \in Status
                /\ work[h].event.was \in Status \cup {"none"}
    BY WorkOfKind DEF CountsTyped, PresenceWork, PresenceEvent
<1>1. CASE Unknown(h)
    <2>1. unseen' \in [voice : Int, presence : [Status -> Int]]
        <3>1. work[h] # Free /\ work[h].pc = "find" /\ unseen' = Missed(work[h].event)
            BY <1>0, <1>1 DEF Unknown, Uncounted
        <3>2. work[h].event.kind = work[h].kind
            BY <3>1, FreeIsIdle DEF CountsTyped, AnyWork, MemberWork, VoiceWork, PresenceWork,
               LastWork,
               RoleWork, MemberEvent, VoiceEvent, PresenceEvent, RoleEvent
        <3>3. CASE work[h].kind = "presence"
            BY <3>1, <3>2, <3>3, <1>p, MissedPresence DEF CountsTyped
        <3>4. CASE work[h].kind # "presence"
            BY <3>1, <3>2, <3>4 DEF CountsTyped, Missed, One
        <3> QED BY <3>3, <3>4
    <2> QED BY <1>0, <1>1, <2>1 DEF Unknown, CountsTyped
<1>2. CASE MemberFound(h)
    BY <1>0, <1>2, FiniteSizes DEF CountsTyped, MemberFound
<1>3. CASE MemberSet(h)
    BY <1>0, <1>3 DEF CountsTyped, MemberSet
<1>4. CASE MemberUpdate(h)
    BY <1>0, <1>4 DEF CountsTyped, MemberUpdate, Is
<1>5. CASE MemberUpdated(h)
    BY <1>0, <1>5 DEF CountsTyped, MemberUpdated, PublishMembers, Is
<1>6. CASE MemberJobs(h)
    BY <1>0, <1>6 DEF CountsTyped, MemberJobs, PublishMembers, CountRole, Unset, Is
<1>7. CASE MemberRole(h)
    BY <1>0, <1>7 DEF CountsTyped, MemberRole
<1>8. CASE MemberRest(h)
    BY <1>0, <1>8 DEF CountsTyped, MemberRest, PublishMembers, Is
<1>9. CASE JobsFail(h)
    BY <1>0, <1>9 DEF CountsTyped, JobsFail
<1>10. CASE VoiceFound(h)
    BY <1>0, <1>10 DEF CountsTyped, VoiceFound, others, CountVoice
<1>11. CASE VoiceDecr(h)
    BY <1>0, <1>11 DEF CountsTyped, VoiceDecr, others, CountVoice, ReadVoice
<1>12. CASE VoiceIncr(h)
    BY <1>0, <1>12 DEF CountsTyped, VoiceIncr, others, ReadVoice
<1>13. CASE VoiceGet(h)
    BY <1>0, <1>13 DEF CountsTyped, VoiceGet, others, Is
<1>14. CASE PresenceFound(h)
    <2>1. work[h] # Free /\ work[h].kind = "presence" /\ work[h].pc = "find"
        BY <1>0, <1>14 DEF PresenceFound, Is
    <2>2. /\ presenceKey' \in [Status -> Int]
          /\ unseen' \in [voice : Int, presence : [Status -> Int]]
        <3>1. work[h].event.old \in Status /\ work[h].event.is \in Status
            BY <1>p, <2>1
        <3>2. work[h].event.kind = "presence"
            BY <2>1, WorkOfKind DEF CountsTyped, PresenceWork, PresenceEvent
        <3>3. CASE work[h].event.was # "none" /\ CountPresence(work[h].event.was, -1)
            BY <3>3 DEF CountPresence, CountsTyped
        <3>4. CASE /\ presenceKey' = [presenceKey EXCEPT ![work[h].event.is] = @ + 1]
                   /\ unseen' = [unseen EXCEPT !.presence[work[h].event.old] = @ - 1]
            <4>1. unseen' = [unseen EXCEPT !.presence[work[h].event.old] = @ + (-1)]
                BY <3>1, <3>4 DEF CountsTyped
            <4>2. unseen' \in [voice : Int, presence : [Status -> Int]]
                BY <3>1, <4>1, UnseenPresence DEF CountsTyped
            <4> QED BY <3>1, <3>4, <4>2 DEF CountsTyped
        <3>5. CASE unseen' = Missed(work[h].event) /\ UNCHANGED presenceKey
            BY <3>1, <3>2, <3>5, MissedPresence DEF CountsTyped
        <3>6. \/ work[h].event.was # "none" /\ CountPresence(work[h].event.was, -1)
              \/ /\ presenceKey' = [presenceKey EXCEPT ![work[h].event.is] = @ + 1]
                 /\ unseen' = [unseen EXCEPT !.presence[work[h].event.old] = @ - 1]
              \/ unseen' = Missed(work[h].event) /\ UNCHANGED presenceKey
            BY <1>14, Zenon DEF PresenceFound
        <3> QED BY <3>3, <3>4, <3>5, <3>6
    <2> QED BY <1>0, <1>14, <2>2 DEF CountsTyped, PresenceFound, CountPresence, rest
<1>15. CASE PresenceMinus(h)
    BY <1>0, <1>15 DEF CountsTyped, PresenceMinus, rest, CountPresence
<1>16. CASE PresencePlus(h)
    BY <1>0, <1>16 DEF CountsTyped, PresencePlus, rest
<1>17. CASE PresenceRead(h)
    BY <1>0, <1>17 DEF CountsTyped, PresenceRead, rest
<1>18. CASE PresenceLast(h)
    BY <1>0, <1>18 DEF CountsTyped, PresenceLast, rest, Is
<1>19. CASE PresenceSet(h)
    BY <1>0, <1>19 DEF CountsTyped, PresenceSet, rest, Is
<1>20. CASE RoleFound(h)
    BY <1>0, <1>20 DEF CountsTyped, RoleFound, CountRole, Unset, Is
<1>21. CASE RoleCounted(h)
    BY <1>0, <1>21 DEF CountsTyped, RoleCounted
<1> QED BY <1>1, <1>2, <1>3, <1>4, <1>5, <1>6, <1>7, <1>8, <1>9, <1>10, <1>11, <1>12, <1>13,
           <1>14, <1>15, <1>16, <1>17, <1>18, <1>19, <1>20, <1>21 DEF Handle

LEMMA ChangeTyped ==
    ASSUME CountsTyped, NEW u \in User
    PROVE  /\ MemberChange(u) => CountsTyped'
           /\ \A in \in BOOLEAN : VoiceChange(u, in) => CountsTyped'
           /\ \A s \in Status : PresenceChange(u, s) => CountsTyped'
           /\ RoleChange(u) => CountsTyped'
<1> USE DEF Typed, keys, history
<1>0. ASSUME NEW e, Start(e)
      PROVE  events' \in 0..MaxEvents
    <2>1. events < MaxEvents /\ events' = events + 1
        BY <1>0, Zenon DEF Start
    <2>2. MaxEvents \in Nat /\ events \in 0..MaxEvents
        BY GuildCountsAssumption DEF CountsTyped
    <2> QED BY <2>1, <2>2
<1>5. ASSUME NEW e \in MemberEvent \cup VoiceEvent \cup PresenceEvent \cup RoleEvent, Comes(e)
      PROVE  Doing' /\ Wired' /\ unseen' \in [voice : Int, presence : [Status -> Int]]
    BY <1>5, MissedTyped DEF Comes, Started, Unheard, Uncounted, CountsTyped
<1>1. ASSUME MemberChange(u) PROVE CountsTyped'
    <2>1. Doing' /\ Wired' /\ unseen' \in [voice : Int, presence : [Status -> Int]]
        <3>1. MemberEventOf(u) \in MemberEvent
            BY DEF MemberEventOf, MemberEvent
        <3> QED BY <1>1, <1>5, <3>1, ChangesStart
    <2>2. Start([kind |-> "member", by |-> IF u \in present THEN -1 ELSE 1, roles |-> u \in holder])
        BY <1>1 DEF MemberChange
    <2>3. events' \in 0..MaxEvents
        BY <1>0, <2>2
    <2> QED BY <1>1, <2>1, <2>2, <2>3 DEF CountsTyped, MemberChange, Start
<1>2. ASSUME NEW in \in BOOLEAN, VoiceChange(u, in) PROVE CountsTyped'
    <2>1. Doing' /\ Wired' /\ unseen' \in [voice : Int, presence : [Status -> Int]]
        <3>1. VoiceEventOf(u, in) \in VoiceEvent
            BY DEF VoiceEventOf, VoiceEvent
        <3> QED BY <1>2, <1>5, <3>1, ChangesStart
    <2>2. Start([kind |-> "voice", was |-> u \in speaking, is |-> in])
        BY <1>2 DEF VoiceChange
    <2>3. events' \in 0..MaxEvents
        BY <1>0, <2>2
    <2> QED BY <1>2, <2>1, <2>2, <2>3 DEF CountsTyped, VoiceChange, Start
<1>3. ASSUME NEW s \in Status, PresenceChange(u, s) PROVE CountsTyped'
    <2>1. Doing' /\ Wired' /\ unseen' \in [voice : Int, presence : [Status -> Int]]
        <3>1. PresenceEventOf(u, s) \in PresenceEvent
            BY DEF PresenceEventOf, PresenceEvent, CountsTyped
        <3> QED BY <1>3, <1>5, <3>1, ChangesStart
    <2>2. Start([kind |-> "presence", old |-> status[u],
                 was |-> IF u \in cached THEN status[u] ELSE "none", is |-> s])
        BY <1>3 DEF PresenceChange
    <2>3. events' \in 0..MaxEvents
        BY <1>0, <2>2
    <2> QED BY <1>3, <2>1, <2>2, <2>3 DEF CountsTyped, PresenceChange, Start
<1>4. ASSUME RoleChange(u) PROVE CountsTyped'
    <2>1. Doing' /\ Wired' /\ unseen' \in [voice : Int, presence : [Status -> Int]]
        <3>1. RoleEventOf(u) \in RoleEvent
            BY DEF RoleEventOf, RoleEvent
        <3> QED BY <1>4, <1>5, <3>1, ChangesStart
    <2>2. Start([kind |-> "role", by |-> IF u \in holder THEN -1 ELSE 1])
        BY <1>4 DEF RoleChange
    <2>3. events' \in 0..MaxEvents
        BY <1>0, <2>2
    <2> QED BY <1>4, <2>1, <2>2, <2>3 DEF CountsTyped, RoleChange, Start
<1> QED BY <1>1, <1>2, <1>3, <1>4

\* When the process ends nobody works.
LEMMA EndStops ==
    ASSUME ProcessEnds
    PROVE  Doing' /\ Wired' /\ \A h \in Handler : work'[h] = Free
<1>1. \A h \in Handler : work'[h] = Free
    BY DEF ProcessEnds
<1>2. Free \notin PresenceWork /\ Free \notin VoiceWork
    BY DEF Free, PresenceWork, VoiceWork
<1>3. work' \in [Handler -> {Free} \cup AnyWork] /\ wire' = <<>>
    BY DEF ProcessEnds
<1>4. Doing'
    BY <1>1, <1>2, <1>3 DEF Doing
<1>5. Wired'
    BY <1>1, <1>3 DEF Wired, In, Once, Awaits, Free
<1> QED BY <1>1, <1>4, <1>5

LEMMA ProcessEndTyped ==
    ASSUME CountsTyped, ProcessEnds
    PROVE  CountsTyped'
<1>1. \A due : Total(due) \in Int
    BY FiniteSizes DEF Total
<1>2. unseen' \in [voice : Int, presence : [Status -> Int]]
    BY <1>1 DEF ProcessEnds, CountsTyped, Typed
<1>3. faults' \in 0..MaxFaults
    BY GuildCountsAssumption DEF ProcessEnds, Fault, CountsTyped, Typed
<1>4. /\ UNCHANGED <<present, speaking, holder, status, served, known, events, memberRow, shown>>
      /\ UNCHANGED <<memberKey, voiceKey, presenceKey, lastKey, roleKey>>
      /\ up' = FALSE /\ cached' = {} /\ fetch' \in {fetch, Unset} /\ Unset \in Int
    BY DEF ProcessEnds, keys, Unset
<1>5. Typed'
    BY <1>2, <1>3, <1>4 DEF CountsTyped, Typed
<1> QED BY <1>5, EndStops DEF CountsTyped

\* Who does not touch the handlers leaves their forms.
LEMMA StillWorks ==
    ASSUME CountsTyped, UNCHANGED <<work, wire>>
    PROVE  Doing' /\ Wired' /\ \A h \in Handler : work'[h] = work[h]
BY DEF CountsTyped, Doing, Wired

LEMMA CountsTypedInit == CountsInit => CountsTyped
<1> SUFFICES ASSUME CountsInit PROVE CountsTyped
    OBVIOUS
<1>1. Size(User) \in Nat /\ Size(speaking) \in Nat /\ \A s \in Status : Size(With(s)) \in Nat
    BY FiniteSizes DEF CountsInit, With
<1>2. Typed
    BY <1>1, GuildCountsAssumption DEF CountsInit, Typed, Unset, Parameter
<1>3. Doing
    <2>1. \A h \in Handler : work[h] = Free
        BY DEF CountsInit
    <2>2. Free \notin PresenceWork /\ Free \notin VoiceWork
        BY DEF Free, PresenceWork, VoiceWork
    <2>3. work \in [Handler -> {Free} \cup AnyWork]
        BY DEF CountsInit
    <2> QED BY <2>1, <2>2, <2>3 DEF Doing
<1>4. Wired
    BY DEF CountsInit, Wired, In, Once, Awaits, Free
<1> QED BY <1>2, <1>3, <1>4 DEF CountsTyped

LEMMA CountsTypedStep == CountsTyped /\ [CountsNext]_countsVars => CountsTyped'
<1> SUFFICES ASSUME CountsTyped, [CountsNext]_countsVars PROVE CountsTyped'
    OBVIOUS
<1> USE DEF env, discord, keys, history
<1>1. ASSUME NEW h \in Handler, Handle(h) PROVE CountsTyped'
    BY <1>1, HandleMoves, HandleTyped DEF CountsTyped
<1>2. ASSUME DiscordChanges PROVE CountsTyped'
    BY <1>2, ChangeTyped DEF DiscordChanges
<1>3. CASE Onboard
    BY <1>3, StillWorks DEF Onboard, CountsTyped, Typed
<1>4. CASE FetchRole
    <2>1. Size(holder) \in Nat
        BY FiniteSizes DEF CountsTyped, Typed
    <2> QED BY <1>4, <2>1, StillWorks DEF FetchRole, CountsTyped, Typed
<1>5. CASE FetchedRole
    BY <1>5, StillWorks DEF FetchedRole, CountsTyped, Typed, Unset
<1>6. ASSUME NEW n \in {0, 1}, GuildSync(n) PROVE CountsTyped'
    <2>1. events' \in 0..MaxEvents
        BY <1>6, GuildCountsAssumption DEF GuildSync, CountsTyped, Typed
    <2>2. Doing' /\ Wired'
        BY <1>6, StillWorks DEF GuildSync
    <2>3. shown' \in [Parameter -> Int]
        <3>1. shown' = [shown EXCEPT !["onlineMembers"] = n] /\ n \in Int
            BY <1>6 DEF GuildSync, Publish
        <3> QED BY <3>1 DEF CountsTyped, Typed
    <2> QED BY <1>6, <2>1, <2>2, <2>3 DEF GuildSync, CountsTyped, Typed
<1>7. CASE UNCHANGED countsVars
    BY <1>7, StillWorks DEF countsVars, CountsTyped, Typed
<1>8. CASE ProcessEnds
    BY <1>8, ProcessEndTyped
<1>9. CASE ProcessStarts
    <2>1. cached' \subseteq User
        BY <1>9 DEF ProcessStarts
    <2> QED BY <1>9, <2>1, StillWorks DEF ProcessStarts, CountsTyped, Typed
<1> QED BY <1>1, <1>2, <1>3, <1>4, <1>5, <1>6, <1>7, <1>8, <1>9 DEF CountsNext

LEMMA CountsTypedGivesType == CountsTyped => CountsTypeOK
<1> SUFFICES ASSUME CountsTyped PROVE CountsTypeOK
    OBVIOUS
<1>1. \A h \in Handler : work[h] = Free \/ (work[h].pc \in Pc /\ work[h].kind \in Kind)
    BY DEF CountsTyped, Doing, AnyWork, MemberWork, VoiceWork, PresenceWork, LastWork, RoleWork,
       Pc, Kind
<1> QED BY <1>1 DEF CountsTypeOK, CountsTyped, Typed, Wired

-------------------------------------------------------------------------------
(* Members: the key is what a handler read when it was found, and no handler   *)
(* is to come; the row and the clients have it when at most one was busy.    *)

LEMMA HandlerOfKind ==
    ASSUME CountsTyped, NEW h \in Handler, Handle(h)
    PROVE  \/ work[h].kind = "member" /\ (Unknown(h) \/ MemberFound(h) \/ MemberSet(h) \/ MemberUpdate(h)
                 \/ MemberUpdated(h) \/ MemberJobs(h) \/ MemberRole(h) \/ MemberRest(h) \/ JobsFail(h))
           \/ work[h].kind = "voice" /\ (Unknown(h) \/ VoiceFound(h) \/ VoiceDecr(h) \/ VoiceIncr(h)
                 \/ VoiceGet(h))
           \/ work[h].kind = "presence" /\ (Unknown(h) \/ PresenceFound(h) \/ PresenceMinus(h)
                 \/ PresencePlus(h) \/ PresenceRead(h) \/ PresenceLast(h) \/ PresenceSet(h))
           \/ work[h].kind = "role" /\ (Unknown(h) \/ RoleFound(h) \/ RoleCounted(h))
<1>0. work[h].kind \in {"member", "voice", "role", "presence"}
    BY HandleMoves, WorkOfKind DEF CountsTyped
<1>1. CASE Unknown(h)
    BY <1>0, <1>1
<1>2. CASE MemberFound(h)
    BY <1>2 DEF MemberFound, Is
<1>3. CASE MemberSet(h)
    BY <1>3 DEF MemberSet, Is
<1>4. CASE MemberUpdate(h)
    BY <1>4 DEF MemberUpdate, Is
<1>5. CASE MemberUpdated(h)
    BY <1>5 DEF MemberUpdated, Is
<1>6. CASE MemberJobs(h)
    BY <1>6 DEF MemberJobs, Is
<1>7. CASE MemberRole(h)
    BY <1>7 DEF MemberRole, Is
<1>8. CASE MemberRest(h)
    BY <1>8 DEF MemberRest, Is
<1>9. CASE JobsFail(h)
    BY <1>9 DEF JobsFail, Is
<1>10. CASE VoiceFound(h)
    BY <1>10 DEF VoiceFound, Is
<1>11. CASE VoiceDecr(h)
    BY <1>11 DEF VoiceDecr, Is
<1>12. CASE VoiceIncr(h)
    BY <1>12 DEF VoiceIncr, Is
<1>13. CASE VoiceGet(h)
    BY <1>13 DEF VoiceGet, Is
<1>14. CASE PresenceFound(h)
    BY <1>14 DEF PresenceFound, Is
<1>15. CASE PresenceMinus(h)
    BY <1>15 DEF PresenceMinus, Is
<1>16. CASE PresencePlus(h)
    BY <1>16 DEF PresencePlus, Is
<1>17. CASE PresenceRead(h)
    BY <1>17 DEF PresenceRead, Is
<1>18. CASE PresenceLast(h)
    BY <1>18 DEF PresenceLast, Is
<1>19. CASE PresenceSet(h)
    BY <1>19 DEF PresenceSet, Is
<1>20. CASE RoleFound(h)
    BY <1>20 DEF RoleFound, Is
<1>21. CASE RoleCounted(h)
    BY <1>21 DEF RoleCounted, Is
<1> QED BY <1>1, <1>2, <1>3, <1>4, <1>5, <1>6, <1>7, <1>8, <1>9, <1>10, <1>11, <1>12, <1>13,
           <1>14, <1>15, <1>16, <1>17, <1>18, <1>19, <1>20, <1>21 DEF Handle

\* What the two failures of a handler leave undone.
LEMMA UnknownLoses ==
    ASSUME CountsTyped, NEW h \in Handler, Unknown(h)
    PROVE  /\ work[h].event.kind = work[h].kind /\ unseen' = Missed(work[h].event)
           /\ lost' = (lost \cup (IF work[h].kind = "member" THEN {"members", "row", "memberCount"} ELSE {}))
                           \cup (IF Due(h) # 0 THEN {"role"} ELSE {})
<1>1. work[h] # Free /\ work[h].pc = "find"
    BY FreeIsIdle DEF CountsTyped, Unknown
<1>2. work[h].event.kind = work[h].kind
    BY <1>1, FreeIsIdle DEF CountsTyped, AnyWork, MemberWork, VoiceWork, PresenceWork,
       LastWork, RoleWork, MemberEvent, VoiceEvent, PresenceEvent, RoleEvent
<1>3. unseen' = Missed(work[h].event) /\ lost' = lost \cup Untold(work[h].event)
    BY DEF Unknown, Uncounted
<1>4. work[h].kind \in {"member", "role"} => work[h].event.by \in {-1, 1}
    BY <1>1, WorkOfKind DEF CountsTyped, MemberWork, RoleWork, MemberEvent, RoleEvent
<1>5. Due(h) # 0 <=> work[h].kind = "role" \/ (work[h].kind = "member" /\ work[h].event.roles)
    BY <1>1, <1>4 DEF Due, Is
<1> QED BY <1>2, <1>3, <1>5 DEF Untold

LEMMA JobsFailLoses ==
    ASSUME CountsTyped, NEW h \in Handler, JobsFail(h)
    PROVE  lost' = (lost \cup (IF Due(h) # 0 THEN {"role"} ELSE {}))
                        \cup (IF served = "custom" THEN {"memberCount"} ELSE {})
<1>1. work[h].kind = "member" /\ work[h].pc \in {"jobs", "rest"}
    BY DEF JobsFail, Is
<1>2. Owes(h) = (IF Due(h) # 0 THEN {"role"} ELSE {})
                    \cup (IF served = "custom" THEN {"memberCount"} ELSE {})
    BY <1>1 DEF Owes, Within, Pc
<1> QED BY <1>2 DEF JobsFail

LEMMA NotOfMembers ==
    ASSUME CountsTyped, NEW h \in Handler, Handle(h), work[h].kind # "member"
    PROVE  /\ UNCHANGED <<memberRow, memberKey, present, served>>
           /\ shown'["memberCount"] = shown["memberCount"]
           /\ \A x \in {"members", "row", "memberCount"} : x \in lost' <=> x \in lost
           /\ "member" \in crossed' <=> "member" \in crossed
<1> USE DEF env, discord, keys, history, others, rest
<1>0. shown \in [Parameter -> Int] /\ "memberCount" \in Parameter
    BY DEF CountsTyped, Typed, Parameter
<1>1. CASE Unknown(h)
    BY <1>0, <1>1, UnknownLoses DEF Unknown
<1>2. CASE VoiceFound(h)
    BY <1>0, <1>2 DEF VoiceFound
<1>3. CASE VoiceDecr(h)
    BY <1>0, <1>3 DEF VoiceDecr, ReadVoice
<1>4. CASE VoiceIncr(h)
    BY <1>0, <1>4 DEF VoiceIncr, ReadVoice
<1>5. CASE VoiceGet(h)
    BY <1>0, <1>5 DEF VoiceGet, Publish
<1>6. CASE PresenceFound(h)
    BY <1>0, <1>6 DEF PresenceFound
<1>7. CASE PresenceMinus(h)
    BY <1>0, <1>7 DEF PresenceMinus
<1>8. CASE PresencePlus(h)
    BY <1>0, <1>8 DEF PresencePlus
<1>9. CASE PresenceRead(h)
    BY <1>0, <1>9 DEF PresenceRead
<1>10. CASE PresenceLast(h)
    BY <1>0, <1>10 DEF PresenceLast
<1>11. CASE PresenceSet(h)
    BY <1>0, <1>11 DEF PresenceSet, Publish
<1>12. CASE RoleFound(h)
    BY <1>0, <1>12 DEF RoleFound, CountRole
<1>13. CASE RoleCounted(h)
    BY <1>0, <1>13 DEF RoleCounted
<1> QED BY HandlerOfKind, <1>1, <1>2, <1>3, <1>4, <1>5, <1>6, <1>7, <1>8, <1>9, <1>10, <1>11,
           <1>12, <1>13

MembersRead ==
    \/ \E h \in Handler : Is(h, "member", "find")
    \/ "members" \in lost \/ memberKey = Unset \/ memberKey = Size(present)

\* Between its reading of the number and its publication.
MemberBusy(h) ==
    /\ work[h] # Free /\ work[h].kind = "member"
    /\ work[h].pc \in IF served = "shard" THEN {"set", "update", "updated"} ELSE Pc \ {"find"}

MembersTold ==
    /\ served = "shard" => \A h \in Handler : ~Is(h, "member", "rest")
    /\ "member" \notin crossed =>
         /\ \A g, h \in Handler : MemberBusy(g) /\ MemberBusy(h) => g = h
         /\ \A h \in Handler : MemberBusy(h) /\ "members" \notin lost => work[h].value = memberKey
         /\ served = "shard" /\ memberKey # Unset /\ lost \cap {"members", "row"} = {}
              /\ (\A h \in Handler : MemberBusy(h) => work[h].pc = "updated") => memberRow = memberKey
         /\ memberKey # Unset /\ lost \cap {"members", "memberCount"} = {}
              /\ (\A h \in Handler : ~MemberBusy(h)) => shown["memberCount"] = memberKey

LEMMA MembersReadHandle ==
    ASSUME CountsTyped, MembersRead, NEW h \in Handler, Handle(h)
    PROVE  MembersRead'
<1> USE DEF env, discord, keys, history
<1>0. Others(h) /\ work[h] # Free
    BY HandleMoves
<1>1. CASE work[h].kind # "member"
    <2>1. UNCHANGED <<memberKey, present>> /\ ("members" \in lost' <=> "members" \in lost)
        BY <1>1, NotOfMembers
    <2>2. \A o \in Handler : Is(o, "member", "find") => Is(o, "member", "find")'
        BY <1>0, <1>1 DEF Is, Others
    <2> QED BY <2>1, <2>2 DEF MembersRead, Size
<1>2. CASE Unknown(h) /\ work[h].kind = "member"
    <2>1. "members" \in lost'
        BY <1>2, UnknownLoses
    <2> QED BY <2>1 DEF MembersRead
<1>3. CASE MemberFound(h)
    <2>1. UNCHANGED present
        BY <1>3 DEF MemberFound
    <2>2. memberKey' = Size(present) \/ "members" \in lost'
        BY <1>3 DEF MemberFound
    <2> QED BY <2>1, <2>2 DEF MembersRead, Size
<1>4. CASE MemberSet(h) \/ MemberUpdate(h) \/ MemberUpdated(h) \/ MemberJobs(h) \/ MemberRole(h)
           \/ MemberRest(h) \/ JobsFail(h)
    <2>1. ~Is(h, "member", "find")
        BY <1>4 DEF MemberSet, MemberUpdate, MemberUpdated, MemberJobs, MemberRole, MemberRest,
           JobsFail, Is
    <2>2. UNCHANGED <<memberKey, present>> /\ ("members" \in lost => "members" \in lost')
        BY <1>4 DEF MemberSet, MemberUpdate, MemberUpdated, MemberJobs, MemberRole, MemberRest,
           JobsFail, PublishMembers, CountRole
    <2>3. \A o \in Handler : Is(o, "member", "find") => Is(o, "member", "find")'
        BY <1>0, <2>1 DEF Is, Others
    <2> QED BY <2>2, <2>3 DEF MembersRead, Size
<1> QED BY <1>1, <1>2, <1>3, <1>4, HandlerOfKind

LEMMA NoRest ==
    ASSUME CountsTyped, MembersTold, NEW h \in Handler, Handle(h), served = "shard"
    PROVE  \A o \in Handler : ~Is(o, "member", "rest")'
<1>1. Others(h) /\ (work'[h] = Free \/ Moved(h))
    BY HandleMoves
<1>2. \A o \in Handler \ {h} : ~Is(o, "member", "rest")'
    BY <1>1 DEF MembersTold, Is, Others
<1>3. ~Is(h, "member", "rest")'
    <2>1. CASE work'[h] = Free
        BY <2>1 DEF Is, Free
    <2>2. CASE work[h].kind # "member" /\ Moved(h)
        BY <2>2 DEF Is, Moved
    <2>3. CASE MemberFound(h)
        BY <2>3, MemberFoundMoves DEF Issued, Is
    <2>4. CASE MemberSet(h)
        BY <2>4, MemberSetMoves DEF Went, Is
    <2>5. CASE MemberUpdate(h)
        BY <2>5, MemberUpdateMoves DEF Went, Is
    <2>6. CASE MemberUpdated(h)
        BY <2>6, MemberUpdatedMoves DEF Went, Is
    <2>7. CASE MemberJobs(h)
        BY <2>7, MemberJobsMoves DEF Issued, Ended, Is
    <2>8. CASE MemberRole(h)
        BY <2>8, MemberRoleMoves DEF Ended, Is
    <2>9. CASE Unknown(h)
        BY <2>9, UnknownMoves DEF Ended, Is
    <2>10. CASE MemberRest(h)
        BY <2>10, MemberRestMoves DEF Ended, Is
    <2>11. CASE JobsFail(h)
        BY <2>11, JobsFailMoves DEF Ended, Is
    <2> QED BY <1>1, <2>1, <2>2, <2>3, <2>4, <2>5, <2>6, <2>7, <2>8, <2>9, <2>10, <2>11,
               HandlerOfKind
<1> QED BY <1>2, <1>3

LEMMA MembersToldHandle ==
    ASSUME CountsTyped, MembersTold, NEW h \in Handler, Handle(h)
    PROVE  MembersTold'
<1> USE DEF env, discord, keys, history
<1>0. /\ Others(h) /\ work[h] # Free /\ (work'[h] = Free \/ Moved(h)) /\ UNCHANGED served
      /\ served \in {"shard", "custom"} /\ "memberCount" \in Parameter
      /\ shown \in [Parameter -> Int]
    <2>1. UNCHANGED served
        BY DEF Handle, Unknown, MemberFound, MemberSet, MemberUpdate, MemberUpdated, MemberJobs,
           MemberRole,
           MemberRest, JobsFail, VoiceFound, VoiceDecr, VoiceIncr, VoiceGet, PresenceFound,
           PresenceMinus, PresencePlus, PresenceRead, PresenceLast, PresenceSet, RoleFound, RoleCounted,
           others, rest
    <2> QED BY <2>1, HandleMoves DEF CountsTyped, Typed, Parameter
<1>n. served' = "shard" => \A o \in Handler : ~Is(o, "member", "rest")'
    BY <1>0, NoRest
<1>b. \A o \in Handler \ {h} : MemberBusy(o)' <=> MemberBusy(o)
    BY <1>0 DEF MemberBusy, Others
<1>v. \A o \in Handler \ {h} : work'[o].value = work[o].value /\ work'[o].pc = work[o].pc
    BY <1>0 DEF Others
<1>1. CASE work[h].kind # "member"
    <2>1. ~MemberBusy(h) /\ ~MemberBusy(h)'
        BY <1>0, <1>1 DEF MemberBusy, Moved
    <2>2. /\ UNCHANGED <<memberRow, memberKey>> /\ shown'["memberCount"] = shown["memberCount"]
          /\ \A x \in {"members", "row", "memberCount"} : x \in lost' <=> x \in lost
          /\ "member" \in crossed' <=> "member" \in crossed
        BY <1>1, NotOfMembers
    <2>3. /\ lost' \cap {"members", "row"} = {} <=> lost \cap {"members", "row"} = {}
          /\ lost' \cap {"members", "memberCount"} = {} <=> lost \cap {"members", "memberCount"} = {}
        BY <2>2
    <2>4. \A o \in Handler : MemberBusy(o)' <=> MemberBusy(o)
        BY <1>b, <2>1
    <2>5. \A o \in Handler : MemberBusy(o) => work'[o].value = work[o].value /\ work'[o].pc = work[o].pc
        BY <1>v, <2>1
    <2> QED BY <1>0, <1>n, <2>2, <2>3, <2>4, <2>5 DEF MembersTold
<1>2. CASE Unknown(h) /\ work[h].kind = "member"
    <2>1. ~MemberBusy(h) /\ ~MemberBusy(h)'
        BY <1>2, UnknownMoves DEF MemberBusy, Ended, Unknown
    <2>2. "members" \in lost' /\ crossed' = crossed
        BY <1>2, UnknownLoses DEF Unknown
    <2> QED BY <1>0, <1>n, <1>b, <2>1, <2>2 DEF MembersTold
<1>3. CASE MemberFound(h)
    <2>1. Issued(h, "set", Size(present))
        BY <1>3, MemberFoundMoves
    <2>2. MemberBusy(h)' /\ work'[h].pc # "updated" /\ work'[h].value = Size(present)
        BY <1>0, <1>3, <2>1 DEF Issued, MemberBusy, Moved, Pc, MemberFound, Is
    <2>3. memberKey' = Size(present) \/ "members" \in lost'
        BY <1>3 DEF MemberFound
    <2>4. "member" \notin crossed' => \A o \in Handler \ {h} : ~MemberBusy(o)
        BY <1>3 DEF MemberFound, Overlaps, Running, MemberBusy
    <2> QED BY <1>0, <1>n, <1>b, <2>2, <2>3, <2>4 DEF MembersTold
<1>4. CASE MemberSet(h)
    <2>1. Went(h, IF served = "shard" THEN "update" ELSE "jobs")
        BY <1>4, MemberSetMoves
    <2>2. MemberBusy(h) /\ MemberBusy(h)' /\ work'[h].value = work[h].value /\ work[h].pc # "updated"
        BY <1>0, <1>4, <2>1 DEF Went, MemberBusy, Moved, Pc, MemberSet, Is
    <2>3. UNCHANGED <<memberRow, memberKey, shown, lost, crossed>>
        BY <1>4 DEF MemberSet
    <2>4. served = "shard" => work'[h].pc # "updated"
        BY <2>1 DEF Went
    <2> QED BY <1>0, <1>n, <1>b, <1>v, <2>2, <2>3, <2>4 DEF MembersTold
<1>5. CASE MemberUpdate(h)
    <2>1. Went(h, "updated")
        BY <1>5, MemberUpdateMoves
    <2>2. /\ MemberBusy(h) /\ MemberBusy(h)' /\ work'[h].value = work[h].value
          /\ work'[h].pc = "updated"
        BY <1>0, <1>5, <2>1 DEF Went, MemberBusy, Moved, Pc, MemberUpdate, Is
    <2>3. UNCHANGED <<memberKey, shown, crossed>>
            /\ ("members" \in lost' <=> "members" \in lost) /\ ("memberCount" \in lost' <=> "memberCount" \in lost)
            /\ (memberRow' = work[h].value \/ "row" \in lost')
        BY <1>5 DEF MemberUpdate
    <2> QED BY <1>0, <1>n, <1>b, <1>v, <2>2, <2>3 DEF MembersTold
<1>6. CASE MemberUpdated(h)
    <2>1. Went(h, "jobs")
        BY <1>6, MemberUpdatedMoves
    <2>2. /\ MemberBusy(h) /\ work[h].pc = "updated" /\ work'[h].pc = "jobs"
          /\ work'[h].value = work[h].value
        BY <1>0, <1>6, <2>1 DEF Went, MemberBusy, Pc, MemberUpdated, Is
    <2>3. /\ UNCHANGED <<memberRow, memberKey, crossed>> /\ lost' = lost \ {"memberCount"}
          /\ shown'["memberCount"] = work[h].value
        BY <1>0, <1>6 DEF MemberUpdated, PublishMembers, Publish
    <2>4. MemberBusy(h)' <=> served # "shard"
        BY <1>0, <1>6, <2>1 DEF MemberBusy, Went, Moved, Pc, MemberUpdated, Is
    <2> QED BY <1>0, <1>n, <1>b, <1>v, <2>2, <2>3, <2>4 DEF MembersTold
<1>7. CASE MemberJobs(h)
    <2>1. MemberBusy(h) <=> served # "shard"
        BY <1>0, <1>7 DEF MemberBusy, Pc, MemberJobs, Is
    <2>2. UNCHANGED <<memberRow, memberKey, crossed>>
        BY <1>7 DEF MemberJobs
    <2>3. CASE work[h].event.roles
        <3>1. Issued(h, "role", work[h].value)
            BY <1>7, <2>3, MemberJobsMoves
        <3>2. MemberBusy(h)' <=> served # "shard"
            BY <1>0, <1>7, <3>1 DEF MemberBusy, Issued, Moved, Pc, MemberJobs, Is
        <3>3. work'[h].value = work[h].value
            BY <3>1 DEF Issued
        <3>4. UNCHANGED shown /\ \A x \in {"members", "row", "memberCount"} : x \in lost' <=> x \in lost
            BY <1>7, <2>3 DEF MemberJobs, CountRole
        <3> QED BY <1>0, <1>n, <1>b, <1>v, <2>1, <2>2, <3>2, <3>3, <3>4 DEF MembersTold
    <2>4. CASE ~work[h].event.roles
        <3>1. Ended(h)
            BY <1>7, <2>4, MemberJobsMoves
        <3>2. ~MemberBusy(h)'
            BY <3>1 DEF MemberBusy, Ended
        <3>3. IF served = "custom" THEN shown'["memberCount"] = work[h].value /\ lost' = lost \ {"memberCount"}
              ELSE UNCHANGED <<shown, lost>>
            BY <1>0, <1>7, <2>4 DEF MemberJobs, PublishMembers, Publish
        <3> QED BY <1>0, <1>n, <1>b, <1>v, <2>1, <2>2, <3>2, <3>3 DEF MembersTold
    <2> QED BY <2>3, <2>4
<1>8. CASE MemberRole(h)
    <2>1. MemberBusy(h) <=> served # "shard"
        BY <1>0, <1>8 DEF MemberBusy, Pc, MemberRole, Is
    <2>2. UNCHANGED <<memberRow, memberKey, crossed, shown, lost>>
        BY <1>8 DEF MemberRole
    <2>3. CASE served = "custom"
        <3>1. Went(h, "rest")
            BY <1>8, <2>3, MemberRoleMoves
        <3>2. MemberBusy(h)' /\ work'[h].value = work[h].value
            BY <1>0, <2>3, <3>1, <1>8 DEF MemberBusy, Went, Moved, Pc, MemberRole, Is
        <3> QED BY <1>0, <1>n, <1>b, <1>v, <2>1, <2>2, <2>3, <3>2 DEF MembersTold
    <2>4. CASE served # "custom"
        <3>1. Ended(h)
            BY <1>8, <2>4, MemberRoleMoves
        <3>2. ~MemberBusy(h)'
            BY <3>1 DEF MemberBusy, Ended
        <3> QED BY <1>0, <1>n, <1>b, <1>v, <2>1, <2>2, <2>4, <3>2 DEF MembersTold
    <2> QED BY <2>3, <2>4
<1>9. CASE MemberRest(h)
    <2>1. served = "custom"
        BY <1>0, <1>9 DEF MembersTold, MemberRest
    <2>2. MemberBusy(h) /\ ~MemberBusy(h)'
        BY <1>0, <1>9, <2>1, MemberRestMoves DEF MemberBusy, Pc, MemberRest, Is, Ended
    <2>3. /\ UNCHANGED <<memberRow, memberKey, crossed>> /\ lost' = lost \ {"memberCount"}
          /\ shown'["memberCount"] = work[h].value
        BY <1>0, <1>9 DEF MemberRest, PublishMembers, Publish
    <2> QED BY <1>0, <1>n, <1>b, <1>v, <2>1, <2>2, <2>3 DEF MembersTold
<1>10. CASE JobsFail(h)
    <2>1. ~MemberBusy(h)'
        BY <1>10, JobsFailMoves DEF MemberBusy, Ended
    <2>2. /\ UNCHANGED <<memberRow, memberKey, crossed, shown>>
          /\ \A x \in {"members", "row"} : x \in lost' <=> x \in lost
          /\ "memberCount" \in lost => "memberCount" \in lost'
          /\ served = "custom" => "memberCount" \in lost'
        BY <1>10, JobsFailLoses DEF JobsFail
    <2>3. MemberBusy(h) => served = "custom"
        BY <1>0, <1>10 DEF MemberBusy, JobsFail, Is
    <2> QED BY <1>0, <1>n, <1>b, <1>v, <2>1, <2>2, <2>3 DEF MembersTold
<1> QED BY <1>1, <1>2, <1>3, <1>4, <1>5, <1>6, <1>7, <1>8, <1>9, <1>10, HandlerOfKind

\* An event starts a handler that has yet to be found.
Begun(h) ==
    /\ Doing' /\ Wired' /\ Others(h) /\ wire' = wire
    /\ work[h] = Free /\ work'[h] # Free /\ work'[h].pc = "find"

LEMMA StartedIsBegun ==
    ASSUME NEW h \in Handler, NEW e, Started(h, e)
    PROVE  Begun(h) /\ work'[h].kind = e.kind /\ work'[h].event = e
BY DEF Started, Begun

\* Begun, or missed: then the members' writes are lost if the members changed.
Missing == UNCHANGED <<work, wire>> /\ lost \subseteq lost' /\ lost' \subseteq lost \cup
               {"members", "row", "memberCount", "role"}

LEMMA ComesOrNot ==
    ASSUME NEW e, Comes(e)
    PROVE  \/ \E h \in Handler : Started(h, e) /\ Begun(h) /\ work'[h].kind = e.kind /\ UNCHANGED <<unseen, lost>>
           \/ Unheard(e) /\ Missing /\ (e.kind = "member" => "members" \in lost' /\ "row" \in lost' /\ "memberCount" \in lost')
<1>1. CASE \E h \in Handler : Started(h, e)
    BY <1>1, StartedIsBegun DEF Started
<1>2. CASE Unheard(e)
    BY <1>2 DEF Unheard, Uncounted, Untold, Missing
<1> QED BY <1>1, <1>2 DEF Comes

LEMMA MembersBegin ==
    ASSUME MembersRead, MembersTold, NEW h \in Handler, Begun(h),
           present' = present \/ work'[h].kind = "member",
           UNCHANGED <<served, memberRow, keys, shown, lost, crossed>>
    PROVE  MembersRead' /\ MembersTold'
<1> USE DEF keys
<1>3. \A o \in Handler : o # h => work'[o] = work[o]
    BY DEF Begun, Others
<1>4. work[h] = Free /\ work'[h].pc = "find"
    BY DEF Begun
<1>5. MembersRead'
    <2>1. CASE work'[h].kind = "member"
        BY <1>4, <2>1 DEF MembersRead, Is
    <2>2. CASE present' = present
        <3>1. \A o \in Handler : Is(o, "member", "find") => Is(o, "member", "find")'
            BY <1>3, <1>4 DEF Is, Free
        <3> QED BY <2>2, <3>1 DEF MembersRead, Size
    <2> QED BY <2>1, <2>2
<1>6. MembersTold'
    <2>1. \A o \in Handler : MemberBusy(o)' <=> MemberBusy(o)
        BY <1>3, <1>4 DEF MemberBusy
    <2>2. \A o \in Handler : MemberBusy(o) => work'[o] = work[o]
        BY <1>3, <1>4 DEF MemberBusy
    <2>3. \A o \in Handler : Is(o, "member", "rest")' => Is(o, "member", "rest")
        BY <1>3, <1>4 DEF Is
    <2> QED BY <2>1, <2>2, <2>3 DEF MembersTold
<1> QED BY <1>5, <1>6

LEMMA MembersMiss ==
    ASSUME MembersRead, MembersTold, Missing,
           present' = present \/ {"members", "row", "memberCount"} \subseteq lost',
           UNCHANGED <<served, memberRow, keys, shown, crossed>>
    PROVE  MembersRead' /\ MembersTold'
<1> USE DEF keys
<1>1. \A o \in Handler : MemberBusy(o)' <=> MemberBusy(o)
    BY DEF MemberBusy, Missing
<1>2. MembersRead'
    BY DEF MembersRead, Missing, Is, Size
<1>3. MembersTold'
    BY <1>1 DEF MembersTold, Missing, Is
<1> QED BY <1>2, <1>3

LEMMA MembersChange ==
    ASSUME CountsTyped, MembersRead, MembersTold, DiscordChanges
    PROVE  MembersRead' /\ MembersTold'
<1>1. PICK e : Comes(e) /\ (present' = present \/ e.kind = "member")
    <2>1. ASSUME NEW u \in User, MemberChange(u)
          PROVE  \E e : Comes(e) /\ (present' = present \/ e.kind = "member")
        <3>1. MemberEventOf(u).kind = "member"
            BY DEF MemberEventOf
        <3> QED BY <2>1, <3>1, ChangesStart
    <2>2. ASSUME NEW u \in User, NEW in \in BOOLEAN, VoiceChange(u, in)
          PROVE  \E e : Comes(e) /\ (present' = present \/ e.kind = "member")
        BY <2>2, ChangesStart DEF VoiceChange
    <2>3. ASSUME NEW u \in User, NEW s \in Status, PresenceChange(u, s)
          PROVE  \E e : Comes(e) /\ (present' = present \/ e.kind = "member")
        BY <2>3, ChangesStart DEF PresenceChange
    <2>4. ASSUME NEW u \in User, RoleChange(u)
          PROVE  \E e : Comes(e) /\ (present' = present \/ e.kind = "member")
        BY <2>4, ChangesStart DEF RoleChange
    <2> QED BY <2>1, <2>2, <2>3, <2>4 DEF DiscordChanges
<1>2. UNCHANGED <<served, memberRow, keys, shown, crossed>>
    BY DEF DiscordChanges, MemberChange, VoiceChange, PresenceChange, RoleChange, Start
<1>3. CASE \E h \in Handler : Begun(h) /\ work'[h].kind = e.kind /\ UNCHANGED lost
    BY <1>1, <1>2, <1>3, MembersBegin
<1>4. CASE Missing /\ (e.kind = "member" => "members" \in lost' /\ "row" \in lost' /\ "memberCount" \in lost')
    BY <1>1, <1>2, <1>4, MembersMiss
<1> QED BY <1>1, <1>3, <1>4, ComesOrNot

MembersInv == MembersRead /\ MembersTold

LEMMA MembersStill ==
    ASSUME MembersInv, UNCHANGED <<work, served, present, memberKey, crossed>>,
           shown'["memberCount"] = shown["memberCount"],
           \A x \in {"members", "row", "memberCount"} : x \in lost => x \in lost',
           "members" \in lost' => "members" \in lost,
           memberRow' = memberRow \/ "row" \in lost'
    PROVE  MembersInv'
<1>1. MembersRead'
    BY DEF MembersInv, MembersRead, Size, Is
<1>2. \A o \in Handler : MemberBusy(o)' <=> MemberBusy(o)
    BY DEF MemberBusy
<1>3. MembersTold'
    BY <1>2 DEF MembersInv, MembersTold, Is
<1> QED BY <1>1, <1>3 DEF MembersInv

LEMMA MembersEnd ==
    ASSUME CountsTyped, MembersInv, ProcessEnds
    PROVE  MembersInv'
<1>1. \A h \in Handler : work'[h] = Free
    BY EndStops
<1>2. \A h \in Handler : ~MemberBusy(h)' /\ ~Is(h, "member", "rest")'
    BY <1>1 DEF MemberBusy, Is, Free
<1>3. /\ UNCHANGED <<served, present, memberRow, memberKey, shown, crossed>>
      /\ lost \subseteq lost' /\ \A h \in Handler : Owes(h) \subseteq lost'
    BY DEF ProcessEnds, keys
<1>4. \A h \in Handler : Is(h, "member", "find") => "members" \in lost'
    BY <1>3 DEF Owes, Within, Is
<1>5. MembersRead'
    BY <1>3, <1>4 DEF MembersInv, MembersRead, Size
<1>6. \A h \in Handler : MemberBusy(h) => "memberCount" \in lost'
    BY <1>3 DEF Owes, Within, MemberBusy, CountsTyped, Typed
<1>7. \A h \in Handler : served = "shard" /\ MemberBusy(h) => work[h].pc = "updated" \/ "row" \in lost'
    BY <1>3 DEF Owes, Within, MemberBusy
<1>8. MembersTold'
    BY <1>2, <1>3, <1>6, <1>7 DEF MembersInv, MembersTold
<1> QED BY <1>5, <1>8 DEF MembersInv

LEMMA MembersInit == CountsInit => MembersInv
BY DEF CountsInit, MembersInv, MembersRead, MembersTold, MemberBusy, Is, Free

LEMMA MembersStep == CountsTyped /\ MembersInv /\ [CountsNext]_countsVars => MembersInv'
<1> SUFFICES ASSUME CountsTyped, MembersInv, [CountsNext]_countsVars PROVE MembersInv'
    OBVIOUS
<1> USE DEF env, discord, keys, history
<1>1. ASSUME NEW h \in Handler, Handle(h) PROVE MembersInv'
    BY <1>1, MembersReadHandle, MembersToldHandle DEF MembersInv
<1>2. CASE DiscordChanges
    BY <1>2, MembersChange DEF MembersInv
<1>3. CASE Onboard
    BY <1>3, MembersStill DEF Onboard
<1>4. CASE FetchRole
    BY <1>4, MembersStill DEF FetchRole
<1>5. CASE FetchedRole
    <2>1. \A x \in {"members", "row", "memberCount"} : x \in lost' <=> x \in lost
        BY <1>5 DEF FetchedRole
    <2> QED BY <1>5, <2>1, MembersStill DEF FetchedRole
<1>6. ASSUME NEW n \in {0, 1}, GuildSync(n) PROVE MembersInv'
    <2>1. shown'["memberCount"] = shown["memberCount"] /\ lost' = lost \cup {"row"}
        BY <1>6 DEF GuildSync, Publish, CountsTyped, Typed, Parameter
    <2>2. UNCHANGED <<work, served, present, memberKey>> /\ crossed' = crossed \cup {"sync"}
        BY <1>6 DEF GuildSync
    <2>3. MembersRead'
        BY <2>1, <2>2 DEF MembersInv, MembersRead, Size, Is
    <2>4. \A o \in Handler : MemberBusy(o)' <=> MemberBusy(o)
        BY <2>2 DEF MemberBusy
    <2>5. MembersTold'
        BY <2>1, <2>2, <2>4 DEF MembersInv, MembersTold, Is
    <2> QED BY <2>3, <2>5 DEF MembersInv
<1>7. CASE UNCHANGED countsVars
    BY <1>7, MembersStill DEF countsVars
<1>8. CASE ProcessEnds
    BY <1>8, MembersEnd
<1>9. CASE ProcessStarts
    BY <1>9, MembersStill DEF ProcessStarts
<1> QED BY <1>1, <1>2, <1>3, <1>4, <1>5, <1>6, <1>7, <1>8, <1>9 DEF CountsNext

LEMMA MembersWhenQuiet == MembersInv => MembersKept /\ MembersShown
<1> SUFFICES ASSUME MembersInv, Quiet PROVE MembersKept /\ MembersShown
    BY DEF MembersKept, MembersShown
<1>1. \A h \in Handler : ~Is(h, "member", "find") /\ ~MemberBusy(h)
    BY DEF Quiet, Is, Free, MemberBusy
<1> QED BY <1>1 DEF MembersInv, MembersRead, MembersTold, MembersKept, MembersShown

-------------------------------------------------------------------------------
(* What the handlers have yet to add: one of them changes its own part of the  *)
(* total only.                                                             *)

Owing(f, v) == {o \in Handler : f[o] = v}

LEMMA CountChanges ==
    ASSUME NEW f, NEW g, NEW h \in Handler, \A o \in Handler \ {h} : g[o] = f[o], NEW v
    PROVE  /\ Size(Owing(f, v)) \in Nat
           /\ Size(Owing(g, v)) = Size(Owing(f, v)) - One(f[h] = v) + One(g[h] = v)
<1> USE DEF Owing
<1> DEFINE F == Owing(f, v)
           G == Owing(g, v)
           K == F \ {h}
<1>1. IsFiniteSet(F) /\ IsFiniteSet(G) /\ Cardinality(F) \in Nat
    BY FiniteSizes DEF Size
<1>2. /\ IsFiniteSet(K)
      /\ Cardinality(K) = IF f[h] = v THEN Cardinality(F) - 1 ELSE Cardinality(F)
    BY <1>1, FS_RemoveElement
<1>3. CASE g[h] = v
    <2>1. G = K \cup {h} /\ h \notin K
        BY <1>3
    <2>2. Cardinality(G) = Cardinality(K) + 1
        BY <1>2, <2>1, FS_AddElement
    <2> QED BY <1>1, <1>2, <1>3, <2>2 DEF Size, One
<1>4. CASE g[h] # v
    <2>1. G = K
        BY <1>4
    <2> HIDE DEF K, F, G
    <2>2. Cardinality(G) = Cardinality(K)
        BY <2>1
    <2>3. Cardinality(G) = Cardinality(F) - One(f[h] = v) + One(g[h] = v)
        BY <1>1, <1>2, <1>4, <2>2 DEF One
    <2> QED BY <1>1, <2>3 DEF Size, F, G
<1> QED BY <1>3, <1>4

LEMMA TotalChanges ==
    ASSUME NEW f \in [Handler -> {-1, 0, 1}], NEW g \in [Handler -> {-1, 0, 1}], NEW h \in Handler,
           \A o \in Handler \ {h} : g[o] = f[o]
    PROVE  Total(f) \in Int /\ Total(g) = Total(f) - f[h] + g[h]
<1>1. /\ Size(Owing(f, 1)) \in Nat /\ Size(Owing(f, -1)) \in Nat
      /\ Size(Owing(g, 1)) = Size(Owing(f, 1)) - One(f[h] = 1) + One(g[h] = 1)
      /\ Size(Owing(g, -1)) = Size(Owing(f, -1)) - One(f[h] = -1) + One(g[h] = -1)
    BY CountChanges
<1>0. /\ Total(f) = Size(Owing(f, 1)) - Size(Owing(f, -1))
      /\ Total(g) = Size(Owing(g, 1)) - Size(Owing(g, -1))
    BY DEF Total, Owing
<1>2. f[h] \in {-1, 0, 1} /\ g[h] \in {-1, 0, 1}
    OBVIOUS
<1>3. /\ One(f[h] = 1) - One(f[h] = -1) = f[h] /\ One(f[h] = 1) \in Int /\ One(f[h] = -1) \in Int
      /\ One(g[h] = 1) - One(g[h] = -1) = g[h] /\ One(g[h] = 1) \in Int /\ One(g[h] = -1) \in Int
    BY <1>2 DEF One
<1> QED BY <1>0, <1>1, <1>3

LEMMA TotalNone ==
    ASSUME NEW f, \A h \in Handler : f[h] = 0
    PROVE  Total(f) = 0
<1>1. {h \in Handler : f[h] = 1} = {} /\ {h \in Handler : f[h] = -1} = {}
    OBVIOUS
<1> QED BY <1>1, FS_EmptySet DEF Total, Size

\* Sets of users that gain or lose one.
LEMMA SizeChanges ==
    ASSUME NEW S \in SUBSET User, NEW u \in User
    PROVE  /\ Size(S) \in Nat
           /\ Size(S \cup {u}) = Size(S) + 1 - One(u \in S)
           /\ Size(S \ {u}) = Size(S) - One(u \in S)
BY FiniteSizes, FS_AddElement, FS_RemoveElement DEF Size, One

-------------------------------------------------------------------------------
(* The last on the wire of those that wait for the same answer.            *)

Newest(h, kind, pc) ==
    Is(h, kind, pc) /\ \A o \in Handler \ {h} : Is(o, kind, pc) => Before(wire, o, h)

LEMMA NewestStays ==
    ASSUME NEW h \in Handler, Others(h), Ordered(h), NEW kind, NEW pc, ~Is(h, kind, pc)',
           NEW o \in Handler \ {h}, Newest(o, kind, pc)
    PROVE  Newest(o, kind, pc)'
BY DEF Newest, Others, Ordered, Is

LEMMA NewestComes ==
    ASSUME NEW h \in Handler, Others(h), Last(h), NEW kind, NEW pc \in Awaits, Is(h, kind, pc)'
    PROVE  Newest(h, kind, pc)'
BY DEF Newest, Others, Last, Is

LEMMA NewestGoes ==
    ASSUME Wired, NEW h \in Handler, Answered(h), NEW kind, NEW pc, Newest(h, kind, pc)
    PROVE  \A o \in Handler \ {h} : ~Is(o, kind, pc)
BY FirstOfAll DEF Newest

-------------------------------------------------------------------------------
(* Voices.                                                                 *)

LEMMA NotOfVoices ==
    ASSUME CountsTyped, NEW h \in Handler, Handle(h), work[h].kind # "voice"
    PROVE  /\ UNCHANGED <<voiceKey, speaking>> /\ unseen'.voice = unseen.voice
           /\ shown'["voiceOnline"] = shown["voiceOnline"]
           /\ "voiceOnline" \in lost' <=> "voiceOnline" \in lost
<1> USE DEF env, discord, keys, history, others, rest
<1>0. /\ shown \in [Parameter -> Int] /\ "voiceOnline" \in Parameter
      /\ unseen \in [voice : Int, presence : [Status -> Int]]
    BY DEF CountsTyped, Typed, Parameter
<1>p. work[h].kind = "presence" /\ work[h].pc = "find" =>
         work[h] \in PresenceWork /\ work[h].event.old \in Status /\ work[h].event.is \in Status
            /\ work[h].event.kind = "presence"
    BY HandleMoves, WorkOfKind DEF CountsTyped, PresenceWork, PresenceEvent
<1>e. work[h].event.kind = work[h].kind \/ work[h].pc # "find"
    BY HandleMoves, FreeIsIdle DEF CountsTyped, AnyWork, MemberWork, VoiceWork, PresenceWork,
       LastWork,
       RoleWork, MemberEvent, VoiceEvent, PresenceEvent, RoleEvent
<1>1. CASE Unknown(h)
    <2>1. unseen' = Missed(work[h].event) /\ work[h].pc = "find"
            /\ ("voiceOnline" \in lost' <=> "voiceOnline" \in lost)
        BY <1>1, UnknownLoses DEF Unknown
    <2>2. CASE work[h].kind = "presence"
        BY <1>0, <1>1, <1>p, <2>1, <2>2, MissedPresence DEF Unknown
    <2>3. CASE work[h].kind # "presence"
        BY <1>0, <1>1, <1>e, <2>1, <2>3 DEF Unknown, Missed
    <2> QED BY <2>2, <2>3
<1>2. CASE MemberFound(h)
    BY <1>0, <1>2 DEF MemberFound
<1>3. CASE MemberSet(h)
    BY <1>0, <1>3 DEF MemberSet
<1>4. CASE MemberUpdate(h)
    BY <1>0, <1>4 DEF MemberUpdate
<1>5. CASE MemberUpdated(h)
    BY <1>0, <1>5 DEF MemberUpdated, PublishMembers, Publish
<1>6. CASE MemberJobs(h)
    BY <1>0, <1>6 DEF MemberJobs, PublishMembers, Publish, CountRole
<1>7. CASE MemberRole(h)
    BY <1>0, <1>7 DEF MemberRole
<1>8. CASE MemberRest(h)
    BY <1>0, <1>8 DEF MemberRest, PublishMembers, Publish
<1>9. CASE JobsFail(h)
    BY <1>0, <1>9, JobsFailLoses DEF JobsFail
<1>10. CASE PresenceFound(h)
    <2>1. work[h].kind = "presence" /\ work[h].pc = "find"
        BY <1>10 DEF PresenceFound, Is
    <2>2. UNCHANGED <<voiceKey, speaking, shown, lost>>
        BY <1>10 DEF PresenceFound
    <2>3. \/ CountPresence(work[h].event.was, -1)
          \/ unseen' = [unseen EXCEPT !.presence[work[h].event.old] = @ - 1]
          \/ unseen' = Missed(work[h].event)
        BY <1>10, Zenon DEF PresenceFound
    <2>4. unseen'.voice = unseen.voice
        BY <1>0, <1>p, <2>1, <2>3, MissedPresence DEF CountPresence
    <2> QED BY <2>2, <2>4
<1>11. CASE PresenceMinus(h)
    BY <1>0, <1>11 DEF PresenceMinus, CountPresence
<1>12. CASE PresencePlus(h)
    BY <1>0, <1>12 DEF PresencePlus
<1>13. CASE PresenceRead(h)
    BY <1>0, <1>13 DEF PresenceRead
<1>14. CASE PresenceLast(h)
    BY <1>0, <1>14 DEF PresenceLast
<1>15. CASE PresenceSet(h)
    BY <1>0, <1>15 DEF PresenceSet, Publish
<1>16. CASE RoleFound(h)
    BY <1>0, <1>16 DEF RoleFound, CountRole
<1>17. CASE RoleCounted(h)
    BY <1>0, <1>17 DEF RoleCounted
<1> QED BY HandlerOfKind, <1>1, <1>2, <1>3, <1>4, <1>5, <1>6, <1>7, <1>8, <1>9, <1>10, <1>11,
           <1>12, <1>13, <1>14, <1>15, <1>16, <1>17

VoiceSum == voiceKey + unseen.voice + Total(VoiceDues) = Size(speaking)

LEMMA VoiceDueTyped ==
    Doing => VoiceDues \in [Handler -> {-1, 0, 1}] /\ \A h \in Handler : VoiceDues[h] = VoiceDue(h)
<1> SUFFICES ASSUME Doing, NEW h \in Handler PROVE VoiceDue(h) \in {-1, 0, 1}
    BY DEF VoiceDues
<1>1. work[h].pc \in {"find", "decr"} /\ work[h].kind = "voice" =>
         work[h].event.is \in BOOLEAN /\ work[h].event.was \in BOOLEAN
    BY FreeIsIdle, WorkOfKind DEF VoiceWork, VoiceEvent
<1> QED BY <1>1 DEF VoiceDue, Is, One

LEMMA VoiceDueTypedNext ==
    Doing' => (VoiceDues \in [Handler -> {-1, 0, 1}] /\ \A h \in Handler : VoiceDues[h] = VoiceDue(h))'
BY VoiceDueTyped, PTL

LEMMA VoiceDueChanges ==
    ASSUME Doing, Doing', NEW h \in Handler, Others(h)
    PROVE  Total(VoiceDues) \in Int /\ Total(VoiceDues)' = Total(VoiceDues) - VoiceDue(h) + VoiceDue(h)'
<1>1. VoiceDues \in [Handler -> {-1, 0, 1}] /\ \A o \in Handler : VoiceDues[o] = VoiceDue(o)
    BY VoiceDueTyped
<1>2. (VoiceDues \in [Handler -> {-1, 0, 1}] /\ \A o \in Handler : VoiceDues[o] = VoiceDue(o))'
    BY VoiceDueTypedNext
<1>3. \A o \in Handler \ {h} : VoiceDue(o)' = VoiceDue(o)
    BY DEF VoiceDue, Others, Is
<1>4. \A o \in Handler \ {h} : VoiceDues'[o] = VoiceDues[o]
    BY <1>1, <1>2, <1>3
<1>5. Total(VoiceDues) \in Int /\ Total(VoiceDues') = Total(VoiceDues) - VoiceDues[h] + VoiceDues'[h]
    BY <1>1, <1>2, <1>4, TotalChanges
<1>6. Total(VoiceDues)' = Total(VoiceDues')
    BY DEF Total
<1> QED BY <1>1, <1>2, <1>5, <1>6

\* A number and what is still due stay equal to Discord's, if the step's part does.
LEMMA Balance ==
    ASSUME NEW k \in Int, NEW m \in Int, NEW t \in Int, NEW d \in Int, NEW n \in Int,
           NEW k2 \in Int, NEW m2 \in Int, NEW t2 \in Int, NEW d2 \in Int, NEW n2 \in Int,
           k + m + t = n, t2 = t - d + d2, k2 + m2 + d2 - n2 = k + m + d - n
    PROVE  k2 + m2 + t2 = n2
OBVIOUS

LEMMA VoiceSumMoves ==
    ASSUME CountsTyped, VoiceSum, Typed', Doing', NEW h \in Handler, Others(h),
           voiceKey' + unseen'.voice + VoiceDue(h)' - Size(speaking')
               = voiceKey + unseen.voice + VoiceDue(h) - Size(speaking)
    PROVE  VoiceSum'
<1>1. Total(VoiceDues) \in Int /\ Total(VoiceDues)' = Total(VoiceDues) - VoiceDue(h) + VoiceDue(h)'
    BY VoiceDueChanges DEF CountsTyped
<1>2. VoiceDue(h) \in {-1, 0, 1}
    BY VoiceDueTyped DEF CountsTyped
<1>3. VoiceDue(h)' \in {-1, 0, 1}
    BY VoiceDueTypedNext
<1>4. Size(speaking) \in Int /\ Size(speaking') \in Int
    BY FiniteSizes DEF CountsTyped, Typed
<1>5. voiceKey \in Int /\ voiceKey' \in Int /\ unseen.voice \in Int /\ unseen'.voice \in Int
    BY DEF CountsTyped, Typed
<1>6. Size(speaking)' = Size(speaking')
    BY DEF Size
<1>7. voiceKey + unseen.voice + Total(VoiceDues) = Size(speaking)
    BY DEF VoiceSum
<1>8. voiceKey' + unseen'.voice + Total(VoiceDues)' = Size(speaking')
    <2>1. VoiceDue(h) \in Int /\ VoiceDue(h)' \in Int /\ Total(VoiceDues)' \in Int
        BY <1>1, <1>2, <1>3
    <2> QED BY <1>1, <1>4, <1>5, <1>7, <2>1, Balance
<1> QED BY <1>6, <1>8 DEF VoiceSum

LEMMA VoiceSumHandle ==
    ASSUME CountsTyped, VoiceSum, NEW h \in Handler, Handle(h)
    PROVE  VoiceSum'
<1> USE DEF env, discord, keys, history, others
<1>0. /\ Typed' /\ Doing' /\ Others(h) /\ work[h] # Free /\ (work'[h] = Free \/ Moved(h))
      /\ voiceKey \in Int /\ unseen \in [voice : Int, presence : [Status -> Int]]
      /\ Size(speaking) \in Int
    BY HandleMoves, HandleTyped, FiniteSizes DEF CountsTyped, Typed
<1>k. voiceKey' \in Int /\ unseen'.voice \in Int /\ unseen.voice \in Int
    BY <1>0 DEF Typed
<1>e. work[h].kind = "voice" =>
         /\ work[h] \in VoiceWork /\ work[h].event.kind = "voice"
         /\ work[h].event.is \in BOOLEAN /\ work[h].event.was \in BOOLEAN
         /\ work[h].event.was \/ work[h].event.is
    BY <1>0, WorkOfKind DEF CountsTyped, VoiceWork, VoiceEvent, Doing
<1>d. (~Is(h, "voice", "find")' /\ ~Is(h, "voice", "decr")') => VoiceDue(h)' = 0
    BY DEF VoiceDue
<1>1. CASE work[h].kind # "voice"
    <2>1. VoiceDue(h) = 0 /\ VoiceDue(h)' = 0
        BY <1>0, <1>1 DEF VoiceDue, Is, Moved, Free
    <2>2. UNCHANGED <<voiceKey, speaking>> /\ unseen'.voice = unseen.voice
        BY <1>1, NotOfVoices
    <2> QED BY <1>0, <2>1, <2>2, VoiceSumMoves
<1>2. CASE Unknown(h) /\ work[h].kind = "voice"
    <2>1. VoiceDue(h)' = 0
        BY <1>2, <1>d, UnknownMoves DEF Is, Ended
    <2>2. VoiceDue(h) = One(work[h].event.is) - One(work[h].event.was)
        BY <1>2 DEF VoiceDue, Is, Unknown
    <2>3. UNCHANGED <<voiceKey, speaking>>
            /\ unseen'.voice = unseen.voice + One(work[h].event.is) - One(work[h].event.was)
        BY <1>0, <1>2, <1>e, UnknownLoses DEF Unknown, Missed
    <2>4. One(work[h].event.is) \in Int /\ One(work[h].event.was) \in Int
        BY DEF One
    <2>5. voiceKey' + unseen'.voice + VoiceDue(h)' - Size(speaking')
             = voiceKey + unseen.voice + VoiceDue(h) - Size(speaking)
        BY <1>0, <1>k, <2>1, <2>2, <2>3, <2>4
    <2> QED BY <1>0, <2>5, VoiceSumMoves
<1>3. CASE VoiceFound(h)
    <2>1. Is(h, "voice", "find") /\ speaking' = speaking
        BY <1>3 DEF VoiceFound
    <2>2. VoiceDue(h) = One(work[h].event.is) - One(work[h].event.was)
        BY <2>1 DEF VoiceDue
    <2>3. CASE work[h].event.was /\ Issued(h, "decr", Unset)
        <3>1. VoiceDue(h)' = One(work[h].event.is)
            BY <2>1, <2>3 DEF VoiceDue, Issued, Moved, Is
        <3>2. voiceKey' + unseen'.voice = voiceKey + unseen.voice - 1
            BY <1>0, <1>3, <2>3 DEF VoiceFound, CountVoice
        <3> QED BY <1>0, <1>k, <2>1, <2>2, <2>3, <3>1, <3>2, VoiceSumMoves DEF One
    <2>4. CASE ~work[h].event.was /\ Issued(h, "incr", Unset)
        <3>1. VoiceDue(h)' = 0
            BY <1>d, <2>4 DEF Issued, Is
        <3>2. voiceKey' + unseen'.voice = voiceKey + unseen.voice + 1
            BY <1>0, <1>3, <2>4 DEF VoiceFound, CountVoice
        <3>3. work[h].event.is
            BY <1>e, <2>1, <2>4 DEF Is
        <3> QED BY <1>0, <1>k, <2>1, <2>2, <2>4, <3>1, <3>2, <3>3, VoiceSumMoves DEF One
    <2> QED BY <1>3, <2>3, <2>4, VoiceFoundMoves
<1>4. CASE VoiceDecr(h)
    <2>1. Is(h, "voice", "decr") /\ speaking' = speaking
        BY <1>4 DEF VoiceDecr
    <2>2. VoiceDue(h) = One(work[h].event.is)
        BY <2>1 DEF VoiceDue, Is
    <2>3. VoiceDue(h)' = 0
        BY <1>4, <1>d, VoiceDecrMoves DEF Issued, Is
    <2>4. voiceKey' + unseen'.voice = voiceKey + unseen.voice + One(work[h].event.is)
        <3>1. CASE work[h].event.is
            BY <1>0, <1>4, <3>1 DEF VoiceDecr, CountVoice, One
        <3>2. CASE ~work[h].event.is
            BY <1>0, <1>k, <1>4, <3>2 DEF VoiceDecr, One
        <3> QED BY <3>1, <3>2
    <2>5. One(work[h].event.is) \in Int
        BY DEF One
    <2> QED BY <1>0, <1>k, <2>1, <2>2, <2>3, <2>4, <2>5, VoiceSumMoves
<1>5. CASE VoiceIncr(h) \/ VoiceGet(h)
    <2>1. VoiceDue(h)' = 0
        BY <1>5, <1>d, VoiceIncrMoves, VoiceGetMoves DEF Issued, Ended, Is
    <2>2. VoiceDue(h) = 0 /\ UNCHANGED <<voiceKey, unseen, speaking>>
        BY <1>5 DEF VoiceDue, Is, VoiceIncr, VoiceGet
    <2> QED BY <1>0, <2>1, <2>2, VoiceSumMoves
<1> QED BY <1>1, <1>2, <1>3, <1>4, <1>5, HandlerOfKind

VoiceTold ==
    \/ \E h \in Handler : Is(h, "voice", "decr") \/ Is(h, "voice", "incr")
    \/ "voiceOnline" \in lost
    \/ \E h \in Handler : Newest(h, "voice", "get") /\ work[h].value = Positive(voiceKey)
    \/ /\ \A h \in Handler : ~Is(h, "voice", "get")
       /\ shown["voiceOnline"] \in {Unset, Positive(voiceKey)}

\* A handler that is, and stays, away from the commands of voices.
LEMMA VoiceToldStays ==
    ASSUME VoiceTold, NEW h \in Handler, Others(h), Ordered(h),
           \A pc \in {"decr", "incr", "get"} : ~Is(h, "voice", pc) /\ ~Is(h, "voice", pc)',
           UNCHANGED voiceKey, "voiceOnline" \in lost' <=> "voiceOnline" \in lost,
           shown'["voiceOnline"] = shown["voiceOnline"]
    PROVE  VoiceTold'
<1>0. "get" \in Awaits
    BY DEF Awaits
<1>1. \A o \in Handler \ {h} : \A pc : Is(o, "voice", pc) <=> Is(o, "voice", pc)'
    BY DEF Is, Others
<1>2. CASE \E o \in Handler : Is(o, "voice", "decr") \/ Is(o, "voice", "incr")
    BY <1>1, <1>2 DEF VoiceTold
<1>3. CASE "voiceOnline" \in lost
    BY <1>3 DEF VoiceTold
<1>4. CASE \E o \in Handler : Newest(o, "voice", "get") /\ work[o].value = Positive(voiceKey)
    <2>1. PICK o \in Handler : Newest(o, "voice", "get") /\ work[o].value = Positive(voiceKey)
        BY <1>4
    <2>2. o # h
        BY <2>1 DEF Newest
    <2>3. Newest(o, "voice", "get")'
        BY <1>0, <2>1, <2>2, NewestStays
    <2> QED BY <2>1, <2>2, <2>3 DEF VoiceTold, Others, Positive
<1>5. CASE /\ \A o \in Handler : ~Is(o, "voice", "get")
           /\ shown["voiceOnline"] \in {Unset, Positive(voiceKey)}
    BY <1>1, <1>5 DEF VoiceTold, Positive
<1> QED BY <1>2, <1>3, <1>4, <1>5 DEF VoiceTold

LEMMA VoiceToldHandle ==
    ASSUME CountsTyped, VoiceTold, NEW h \in Handler, Handle(h)
    PROVE  VoiceTold'
<1> USE DEF env, discord, keys, history, others
<1>0. /\ Others(h) /\ Ordered(h) /\ work[h] # Free /\ (work'[h] = Free \/ Moved(h))
      /\ shown \in [Parameter -> Int] /\ "voiceOnline" \in Parameter /\ "get" \in Awaits
    BY HandleMoves DEF CountsTyped, Typed, Parameter, Awaits
<1>1. CASE work[h].kind # "voice"
    <2>1. \A pc \in {"decr", "incr", "get"} : ~Is(h, "voice", pc) /\ ~Is(h, "voice", pc)'
        BY <1>0, <1>1 DEF Is, Moved, Free
    <2> QED BY <1>0, <1>1, <2>1, NotOfVoices, VoiceToldStays
<1>2. CASE Unknown(h) /\ work[h].kind = "voice"
    <2>1. \A pc \in {"decr", "incr", "get"} : ~Is(h, "voice", pc) /\ ~Is(h, "voice", pc)'
        BY <1>2, UnknownMoves DEF Is, Unknown, Ended
    <2>2. UNCHANGED <<voiceKey, shown>> /\ ("voiceOnline" \in lost' <=> "voiceOnline" \in lost)
        BY <1>2, UnknownLoses DEF Unknown
    <2> QED BY <1>0, <2>1, <2>2, VoiceToldStays
<1>3. CASE VoiceFound(h)
    <2>1. Is(h, "voice", "decr")' \/ Is(h, "voice", "incr")'
        BY <1>3, VoiceFoundMoves DEF Issued, Is, Moved, VoiceFound
    <2> QED BY <2>1 DEF VoiceTold
<1>4. ASSUME ReadVoice(h), \E value \in {Positive(voiceKey), 0} : Issued(h, "get", value),
             Is(h, "voice", "decr") \/ Is(h, "voice", "incr"), UNCHANGED voiceKey
      PROVE  VoiceTold'
    <2>1. CASE "voiceOnline" \in lost'
        BY <2>1 DEF VoiceTold
    <2>2. CASE "voiceOnline" \notin lost'
        <3>1. Issue(h, "get", Positive(voiceKey))
            BY <1>4, <2>2 DEF ReadVoice
        <3>2. work'[h].value = Positive(voiceKey)
            <4>1. work[h] \in VoiceWork
                BY <1>0, <1>4, WorkOfKind DEF CountsTyped, Is
            <4>2. work' = [work EXCEPT ![h].pc = "get", ![h].value = Positive(voiceKey)]
                BY <3>1 DEF Issue
            <4> QED BY <4>1, <4>2 DEF CountsTyped, Doing, VoiceWork
        <3>3. Is(h, "voice", "get")' /\ Last(h)
            BY <1>4 DEF Issued, Is, Moved
        <3>4. Newest(h, "voice", "get")'
            BY <1>0, <3>3, NewestComes
        <3>5. Positive(voiceKey)' = Positive(voiceKey)
            BY <1>4 DEF Positive
        <3> QED BY <3>2, <3>4, <3>5 DEF VoiceTold
    <2> QED BY <2>1, <2>2
<1>5. CASE VoiceDecr(h)
    <2>1. CASE work[h].event.is /\ Issued(h, "incr", Unset)
        <3>1. Is(h, "voice", "incr")'
            BY <1>5, <2>1 DEF Issued, Is, Moved, VoiceDecr
        <3> QED BY <3>1 DEF VoiceTold
    <2>2. CASE /\ ~work[h].event.is /\ ReadVoice(h)
               /\ \E value \in {Positive(voiceKey), 0} : Issued(h, "get", value)
        <3>1. Is(h, "voice", "decr") /\ UNCHANGED voiceKey
            BY <1>5, <2>2 DEF VoiceDecr
        <3> QED BY <1>4, <2>2, <3>1
    <2> QED BY <1>5, <2>1, <2>2, VoiceDecrMoves
<1>6. CASE VoiceIncr(h)
    <2>1. Is(h, "voice", "incr") /\ UNCHANGED voiceKey
        BY <1>6 DEF VoiceIncr
    <2> QED BY <1>4, <1>6, <2>1, VoiceIncrMoves
<1>7. CASE VoiceGet(h)
    <2>1. /\ Is(h, "voice", "get") /\ Answered(h) /\ UNCHANGED <<voiceKey, lost>>
          /\ shown'["voiceOnline"] = work[h].value
        BY <1>0, <1>7 DEF VoiceGet, Publish
    <2>2. \A pc : ~Is(h, "voice", pc)' \/ pc = "idle"
        BY <1>7, VoiceGetMoves DEF Is, Ended
    <2>3. \A o \in Handler \ {h} : \A pc : Is(o, "voice", pc) <=> Is(o, "voice", pc)'
        BY <1>0 DEF Is, Others
    <2>4. CASE \E o \in Handler : Is(o, "voice", "decr") \/ Is(o, "voice", "incr")
        <3>1. ~Is(h, "voice", "decr") /\ ~Is(h, "voice", "incr")
            BY <2>1 DEF Is
        <3> QED BY <2>3, <2>4, <3>1 DEF VoiceTold
    <2>5. CASE "voiceOnline" \in lost
        BY <2>1, <2>5 DEF VoiceTold
    <2>6. CASE \E o \in Handler : Newest(o, "voice", "get") /\ work[o].value = Positive(voiceKey)
        <3>1. PICK o \in Handler : Newest(o, "voice", "get") /\ work[o].value = Positive(voiceKey)
            BY <2>6
        <3>2. CASE o = h
            <4>1. \A p \in Handler \ {h} : ~Is(p, "voice", "get")
                BY <1>0, <2>1, <3>1, <3>2, NewestGoes DEF CountsTyped
            <4>2. \A p \in Handler : ~Is(p, "voice", "get")'
                BY <2>2, <2>3, <4>1
            <4> QED BY <2>1, <3>1, <3>2, <4>2 DEF VoiceTold, Positive
        <3>3. CASE o # h
            <4>1. Newest(o, "voice", "get")'
                BY <1>0, <2>2, <3>1, <3>3, NewestStays
            <4> QED BY <1>0, <2>1, <3>1, <3>3, <4>1 DEF VoiceTold, Others, Positive
        <3> QED BY <3>2, <3>3
    <2> QED BY <2>1, <2>4, <2>5, <2>6 DEF VoiceTold
<1> QED BY <1>1, <1>2, <1>3, <1>5, <1>6, <1>7, HandlerOfKind

VoicesInv == VoiceSum /\ VoiceTold

\* What an event changes in the number of voices.
VoiceGain(e) == IF e.kind = "voice" THEN One(e.is) - One(e.was) ELSE 0

LEMMA VoicesBegin ==
    ASSUME CountsTyped, VoicesInv, Typed', NEW h \in Handler, NEW e, Started(h, e),
           UNCHANGED <<voiceKey, shown>>, VoiceGain(e) \in Int,
           Size(speaking') = Size(speaking) + VoiceGain(e)
    PROVE  VoicesInv'
<1>1. /\ UNCHANGED <<unseen, lost>> /\ Doing' /\ Others(h) /\ Ordered(h)
      /\ work[h] = Free /\ work'[h].pc = "find" /\ work'[h].kind = e.kind /\ work'[h].event = e
    BY DEF Started, Ordered
<1>2. VoiceDue(h) = 0 /\ VoiceDue(h)' = VoiceGain(e)
    BY <1>1 DEF VoiceDue, VoiceGain, Is, Free
<1>3. voiceKey \in Int /\ unseen.voice \in Int /\ Size(speaking) \in Int
    BY FiniteSizes DEF CountsTyped, Typed
<1>4. VoiceSum'
    BY <1>1, <1>2, <1>3, VoiceSumMoves DEF VoicesInv
<1>5. \A pc \in {"decr", "incr", "get"} : ~Is(h, "voice", pc) /\ ~Is(h, "voice", pc)'
    BY <1>1 DEF Is, Free
<1>6. VoiceTold'
    BY <1>1, <1>5, VoiceToldStays DEF VoicesInv
<1> QED BY <1>4, <1>6 DEF VoicesInv

LEMMA VoicesMiss ==
    ASSUME CountsTyped, VoicesInv, NEW e, Unheard(e), UNCHANGED <<voiceKey, shown>>,
           VoiceGain(e) \in Int, unseen'.voice = unseen.voice + VoiceGain(e),
           Size(speaking') = Size(speaking) + VoiceGain(e)
    PROVE  VoicesInv'
<1>1. UNCHANGED <<work, wire>> /\ ("voiceOnline" \in lost' <=> "voiceOnline" \in lost)
    BY DEF Unheard, Uncounted, Untold
<1>2. VoiceDues' = VoiceDues
    BY <1>1 DEF VoiceDues, VoiceDue, Is
<1>3. /\ voiceKey \in Int /\ unseen.voice \in Int /\ Size(speaking) \in Int
      /\ Total(VoiceDues) \in Int
    BY FiniteSizes DEF CountsTyped, Typed, Total
<1>4. voiceKey' + unseen'.voice + Total(VoiceDues)' = Size(speaking)'
    <2>1. Total(VoiceDues)' = Total(VoiceDues) /\ Size(speaking)' = Size(speaking')
        BY <1>2 DEF Total, Size
    <2>2. voiceKey + unseen.voice + Total(VoiceDues) = Size(speaking)
        BY DEF VoicesInv, VoiceSum
    <2> QED BY <1>3, <2>1, <2>2
<1>5. VoiceTold'
    BY <1>1 DEF VoicesInv, VoiceTold, Newest, Is, Positive
<1> QED BY <1>4, <1>5 DEF VoicesInv, VoiceSum

LEMMA VoicesChange ==
    ASSUME CountsTyped, VoicesInv, DiscordChanges
    PROVE  VoicesInv'
<1> USE DEF keys, history
<1>1. Typed' /\ UNCHANGED <<voiceKey, shown>>
    <2>1. Typed'
        BY ChangeTyped DEF DiscordChanges, CountsTyped
    <2>2. UNCHANGED <<voiceKey, shown>>
        BY DEF DiscordChanges, MemberChange, VoiceChange, PresenceChange, RoleChange, Start
    <2> QED BY <2>1, <2>2
<1>2. PICK e \in MemberEvent \cup VoiceEvent \cup PresenceEvent \cup RoleEvent :
          Comes(e) /\ Size(speaking') = Size(speaking) + VoiceGain(e)
    <2>0. ASSUME NEW e, e.kind # "voice", speaking' = speaking
          PROVE  Size(speaking') = Size(speaking) + VoiceGain(e)
        <3>1. Size(speaking) \in Int
            BY FiniteSizes DEF CountsTyped, Typed
        <3> QED BY <2>0, <3>1 DEF VoiceGain
    <2>1. ASSUME NEW u \in User, MemberChange(u)
          PROVE  /\ MemberEventOf(u) \in MemberEvent /\ Comes(MemberEventOf(u))
                 /\ Size(speaking') = Size(speaking) + VoiceGain(MemberEventOf(u))
        <3>1. MemberEventOf(u) \in MemberEvent /\ MemberEventOf(u).kind # "voice"
            BY DEF MemberEventOf, MemberEvent
        <3> QED BY <2>0, <2>1, <3>1, ChangesStart DEF MemberChange
    <2>2. ASSUME NEW u \in User, NEW in \in BOOLEAN, VoiceChange(u, in)
          PROVE  /\ VoiceEventOf(u, in) \in VoiceEvent /\ Comes(VoiceEventOf(u, in))
                 /\ Size(speaking') = Size(speaking) + VoiceGain(VoiceEventOf(u, in))
        <3>1. VoiceEventOf(u, in) \in VoiceEvent
            BY DEF VoiceEventOf, VoiceEvent
        <3>2. VoiceGain(VoiceEventOf(u, in)) = One(in) - One(u \in speaking)
            BY DEF VoiceGain, VoiceEventOf
        <3>3. speaking' = IF in THEN speaking \cup {u} ELSE speaking \ {u}
            BY <2>2 DEF VoiceChange
        <3>4. /\ Size(speaking \cup {u}) = Size(speaking) + 1 - One(u \in speaking)
              /\ Size(speaking \ {u}) = Size(speaking) - One(u \in speaking)
              /\ Size(speaking) \in Nat
            BY SizeChanges DEF CountsTyped, Typed
        <3>5. One(u \in speaking) \in Int
            BY DEF One
        <3>6. Size(speaking') = Size(speaking) + VoiceGain(VoiceEventOf(u, in))
            BY <3>2, <3>3, <3>4, <3>5 DEF One
        <3> QED BY <2>2, <3>1, <3>6, ChangesStart
    <2>3. ASSUME NEW u \in User, NEW s \in Status, PresenceChange(u, s)
          PROVE  /\ PresenceEventOf(u, s) \in PresenceEvent /\ Comes(PresenceEventOf(u, s))
                 /\ Size(speaking') = Size(speaking) + VoiceGain(PresenceEventOf(u, s))
        <3>1. PresenceEventOf(u, s) \in PresenceEvent /\ PresenceEventOf(u, s).kind # "voice"
            BY DEF PresenceEventOf, PresenceEvent, CountsTyped, Typed
        <3> QED BY <2>0, <2>3, <3>1, ChangesStart DEF PresenceChange
    <2>4. ASSUME NEW u \in User, RoleChange(u)
          PROVE  /\ RoleEventOf(u) \in RoleEvent /\ Comes(RoleEventOf(u))
                 /\ Size(speaking') = Size(speaking) + VoiceGain(RoleEventOf(u))
        <3>1. RoleEventOf(u) \in RoleEvent /\ RoleEventOf(u).kind # "voice"
            BY DEF RoleEventOf, RoleEvent
        <3> QED BY <2>0, <2>4, <3>1, ChangesStart DEF RoleChange
    <2> QED BY <2>1, <2>2, <2>3, <2>4 DEF DiscordChanges
<1>3. VoiceGain(e) \in Int
    BY DEF VoiceGain, One
<1>4. CASE \E h \in Handler : Started(h, e)
    BY <1>1, <1>2, <1>3, <1>4, VoicesBegin
<1>5. CASE Unheard(e)
    <2>1. unseen \in [voice : Int, presence : [Status -> Int]] /\ unseen' = Missed(e)
        BY <1>5 DEF CountsTyped, Typed, Unheard, Uncounted
    <2>2. unseen'.voice = unseen.voice + VoiceGain(e)
        <3>1. CASE e.kind = "presence"
            <4>1. e \in PresenceEvent
                BY <1>2, <3>1 DEF MemberEvent, VoiceEvent, RoleEvent
            <4> QED BY <2>1, <3>1, <4>1, MissedPresence DEF PresenceEvent, VoiceGain
        <3>2. CASE e.kind # "presence"
            BY <2>1, <3>2 DEF Missed, VoiceGain, One
        <3> QED BY <3>1, <3>2
    <2> QED BY <1>1, <1>2, <1>3, <1>5, <2>2, VoicesMiss
<1> QED BY <1>2, <1>4, <1>5 DEF Comes

\* A process that ends takes what is due with it, and whoever was to publish.
LEMMA VoicesEnd ==
    ASSUME CountsTyped, VoicesInv, ProcessEnds
    PROVE  VoicesInv'
<1>1. \A h \in Handler : work'[h] = Free
    BY EndStops
<1>2. /\ UNCHANGED <<voiceKey, speaking, shown>> /\ unseen'.voice = unseen.voice + Total(VoiceDues)
      /\ lost \subseteq lost' /\ \A h \in Handler : Owes(h) \subseteq lost'
    BY DEF ProcessEnds, keys
<1>3. Total(VoiceDues)' = 0
    <2>1. \A h \in Handler : VoiceDues'[h] = 0
        BY <1>1 DEF VoiceDues, VoiceDue, Is, Free
    <2>2. Total(VoiceDues') = 0
        BY <2>1, TotalNone
    <2> QED BY <2>2 DEF Total
<1>4. VoiceSum'
    <2>1. voiceKey \in Int /\ unseen.voice \in Int /\ Total(VoiceDues) \in Int
        BY FiniteSizes DEF CountsTyped, Typed, Total
    <2>2. Size(speaking)' = Size(speaking)
        BY <1>2 DEF Size
    <2>3. voiceKey' + unseen'.voice + Total(VoiceDues)' = Size(speaking)
        BY <1>2, <1>3, <2>1 DEF VoicesInv, VoiceSum
    <2> QED BY <2>2, <2>3 DEF VoiceSum
<1>5. VoiceTold'
    <2>1. CASE \E h \in Handler : \E pc \in {"decr", "incr", "get"} : Is(h, "voice", pc)
        <3>1. "voiceOnline" \in lost'
            BY <1>2, <2>1 DEF Owes, Within, Is, Pc
        <3> QED BY <3>1 DEF VoiceTold
    <2>2. CASE \A h \in Handler : \A pc \in {"decr", "incr", "get"} : ~Is(h, "voice", pc)
        <3>1. \A h \in Handler : ~Is(h, "voice", "get")'
            BY <1>1 DEF Is, Free
        <3> QED BY <1>2, <2>2, <3>1 DEF VoicesInv, VoiceTold, Newest, Positive
    <2> QED BY <2>1, <2>2
<1> QED BY <1>4, <1>5 DEF VoicesInv

LEMMA VoicesStill ==
    ASSUME CountsTyped, VoicesInv, UNCHANGED <<work, wire, voiceKey, speaking>>,
           unseen'.voice = unseen.voice,
           "voiceOnline" \in lost' <=> "voiceOnline" \in lost,
           shown'["voiceOnline"] = shown["voiceOnline"]
    PROVE  VoicesInv'
<1>1. VoiceDues' = VoiceDues
    BY DEF VoiceDues, VoiceDue, Is
<1>2. VoiceSum'
    BY <1>1 DEF VoicesInv, VoiceSum, Size, Total
<1>3. VoiceTold'
    BY DEF VoicesInv, VoiceTold, Newest, Is, Positive
<1> QED BY <1>2, <1>3 DEF VoicesInv

LEMMA VoicesInit == CountsInit => VoicesInv
<1> SUFFICES ASSUME CountsInit PROVE VoicesInv
    OBVIOUS
<1>1. \A h \in Handler : work[h] = Free /\ VoiceDues[h] = 0
    BY DEF CountsInit, VoiceDues, VoiceDue, Is, Free
<1>2. Total(VoiceDues) = 0
    BY <1>1, TotalNone
<1>3. speaking \in SUBSET User /\ Size(speaking) \in Int
    BY FiniteSizes DEF CountsInit
<1>4. VoiceSum
    BY <1>2, <1>3 DEF CountsInit, VoiceSum
<1>5. VoiceTold
    BY <1>1 DEF CountsInit, VoiceTold, Is, Free, Parameter
<1> QED BY <1>4, <1>5 DEF VoicesInv

LEMMA VoicesStep == CountsTyped /\ VoicesInv /\ [CountsNext]_countsVars => VoicesInv'
<1> SUFFICES ASSUME CountsTyped, VoicesInv, [CountsNext]_countsVars PROVE VoicesInv'
    OBVIOUS
<1> USE DEF env, discord, keys, history
<1>1. ASSUME NEW h \in Handler, Handle(h) PROVE VoicesInv'
    BY <1>1, VoiceSumHandle, VoiceToldHandle DEF VoicesInv
<1>2. CASE DiscordChanges
    BY <1>2, VoicesChange
<1>3. CASE Onboard
    BY <1>3, VoicesStill DEF Onboard
<1>4. CASE FetchRole
    BY <1>4, VoicesStill DEF FetchRole
<1>5. CASE FetchedRole
    <2>1. "voiceOnline" \in lost' <=> "voiceOnline" \in lost
        BY <1>5 DEF FetchedRole
    <2> QED BY <1>5, <2>1, VoicesStill DEF FetchedRole
<1>6. ASSUME NEW n \in {0, 1}, GuildSync(n) PROVE VoicesInv'
    <2>1. shown'["voiceOnline"] = shown["voiceOnline"] /\ lost' = lost \cup {"row"}
        BY <1>6 DEF GuildSync, Publish, CountsTyped, Typed, Parameter
    <2> QED BY <1>6, <2>1, VoicesStill DEF GuildSync
<1>7. CASE UNCHANGED countsVars
    BY <1>7, VoicesStill DEF countsVars
<1>8. CASE ProcessEnds
    BY <1>8, VoicesEnd
<1>9. CASE ProcessStarts
    BY <1>9, VoicesStill DEF ProcessStarts
<1> QED BY <1>1, <1>2, <1>3, <1>4, <1>5, <1>6, <1>7, <1>8, <1>9 DEF CountsNext

LEMMA VoicesWhenQuiet == CountsTyped /\ VoicesInv => VoiceLedger /\ VoiceShown
<1> SUFFICES ASSUME CountsTyped, VoicesInv, Quiet PROVE VoiceLedger /\ VoiceShown
    BY DEF VoiceLedger, VoiceShown
<1>1. \A h \in Handler : VoiceDues[h] = 0 /\ \A pc \in {"decr", "incr", "get"} : ~Is(h, "voice", pc)
    BY DEF Quiet, Is, Free, VoiceDues, VoiceDue
<1>2. Total(VoiceDues) = 0
    BY <1>1, TotalNone
<1>3. VoiceLedger
    <2>1. Size(speaking) \in Int /\ voiceKey \in Int /\ unseen.voice \in Int
        BY FiniteSizes DEF CountsTyped, Typed
    <2> QED BY <1>2, <2>1 DEF VoicesInv, VoiceSum, VoiceLedger
<1>4. VoiceShown
    BY <1>1 DEF VoicesInv, VoiceTold, VoiceShown, Newest
<1> QED BY <1>3, <1>4

-------------------------------------------------------------------------------
(* Presences.                                                              *)

LEMMA NotOfPresences ==
    ASSUME CountsTyped, NEW h \in Handler, Handle(h), work[h].kind # "presence"
    PROVE  /\ UNCHANGED <<presenceKey, lastKey, status>> /\ unseen'.presence = unseen.presence
           /\ shown'["onlineMembers"] = shown["onlineMembers"]
           /\ \A x \in {"online", "last"} : x \in lost' <=> x \in lost
           /\ \A x \in {"online", "sync"} : x \in crossed' <=> x \in crossed
<1> USE DEF env, discord, keys, history, others
<1>0. /\ shown \in [Parameter -> Int] /\ Parameter = {"memberCount", "voiceOnline", "onlineMembers"}
      /\ unseen \in [voice : Int, presence : [Status -> Int]]
    BY DEF CountsTyped, Typed, Parameter
<1>e. work[h].event.kind = work[h].kind \/ work[h].pc # "find"
    BY HandleMoves, FreeIsIdle DEF CountsTyped, AnyWork, MemberWork, VoiceWork, PresenceWork,
       LastWork,
       RoleWork, MemberEvent, VoiceEvent, PresenceEvent, RoleEvent
<1>1. CASE Unknown(h)
    <2>1. unseen' = Missed(work[h].event) /\ work[h].pc = "find"
            /\ \A x \in {"online", "last"} : x \in lost' <=> x \in lost
        BY <1>1, UnknownLoses DEF Unknown
    <2>2. unseen'.presence = unseen.presence
        BY <1>0, <1>e, <2>1 DEF Missed
    <2>3. UNCHANGED <<presenceKey, lastKey, status, shown, crossed>>
        BY <1>1 DEF Unknown
    <2> QED BY <2>1, <2>2, <2>3
<1>2. CASE MemberFound(h)
    BY <1>0, <1>2 DEF MemberFound, Overlaps
<1>3. CASE MemberSet(h)
    BY <1>0, <1>3 DEF MemberSet
<1>4. CASE MemberUpdate(h)
    BY <1>0, <1>4 DEF MemberUpdate
<1>5. CASE MemberUpdated(h)
    BY <1>0, <1>5 DEF MemberUpdated, PublishMembers, Publish
<1>6. CASE MemberJobs(h)
    BY <1>0, <1>6 DEF MemberJobs, PublishMembers, Publish, CountRole
<1>7. CASE MemberRole(h)
    BY <1>0, <1>7 DEF MemberRole
<1>8. CASE MemberRest(h)
    BY <1>0, <1>8 DEF MemberRest, PublishMembers, Publish
<1>9. CASE JobsFail(h)
    BY <1>0, <1>9, JobsFailLoses DEF JobsFail
<1>10. CASE VoiceFound(h)
    BY <1>0, <1>10 DEF VoiceFound, CountVoice
<1>11. CASE VoiceDecr(h)
    BY <1>0, <1>11 DEF VoiceDecr, CountVoice, ReadVoice
<1>12. CASE VoiceIncr(h)
    BY <1>0, <1>12 DEF VoiceIncr, ReadVoice
<1>13. CASE VoiceGet(h)
    BY <1>0, <1>13 DEF VoiceGet, Publish
<1>14. CASE RoleFound(h)
    BY <1>0, <1>14 DEF RoleFound, CountRole
<1>15. CASE RoleCounted(h)
    BY <1>0, <1>15 DEF RoleCounted
<1> QED BY HandlerOfKind, <1>1, <1>2, <1>3, <1>4, <1>5, <1>6, <1>7, <1>8, <1>9, <1>10, <1>11,
           <1>12, <1>13, <1>14, <1>15

PresenceSum ==
    \A s \in Status : presenceKey[s] + unseen.presence[s] + Total(PresenceDues(s)) = Size(With(s))

LEMMA PresenceDueTyped ==
    \A s : /\ PresenceDues(s) \in [Handler -> {-1, 0, 1}]
           /\ \A h \in Handler : PresenceDues(s)[h] = PresenceDue(h, s)
<1> SUFFICES ASSUME NEW s, NEW h \in Handler PROVE PresenceDue(h, s) \in {-1, 0, 1}
    BY DEF PresenceDues
<1> QED BY DEF PresenceDue, One

LEMMA PresenceDueTypedNext ==
    (\A s : /\ PresenceDues(s) \in [Handler -> {-1, 0, 1}]
            /\ \A h \in Handler : PresenceDues(s)[h] = PresenceDue(h, s))'
BY PresenceDueTyped, PTL

LEMMA PresenceDueChanges ==
    ASSUME NEW h \in Handler, Others(h), NEW s
    PROVE  /\ Total(PresenceDues(s)) \in Int /\ PresenceDue(h, s) \in Int /\ PresenceDue(h, s)' \in Int
           /\ Total(PresenceDues(s))' = Total(PresenceDues(s)) - PresenceDue(h, s) + PresenceDue(h, s)'
<1>1. PresenceDues(s) \in [Handler -> {-1, 0, 1}] /\ \A o \in Handler : PresenceDues(s)[o] = PresenceDue(o, s)
    BY PresenceDueTyped
<1>2. /\ PresenceDues(s)' \in [Handler -> {-1, 0, 1}]
      /\ \A o \in Handler : PresenceDues(s)'[o] = PresenceDue(o, s)'
    BY PresenceDueTypedNext
<1>3. \A o \in Handler \ {h} : PresenceDue(o, s)' = PresenceDue(o, s)
    BY DEF PresenceDue, Others, Is
<1>4. \A o \in Handler \ {h} : PresenceDues(s)'[o] = PresenceDues(s)[o]
    BY <1>1, <1>2, <1>3
<1>5. /\ Total(PresenceDues(s)) \in Int
      /\ Total(PresenceDues(s)') = Total(PresenceDues(s)) - PresenceDues(s)[h] + PresenceDues(s)'[h]
    BY <1>1, <1>2, <1>4, TotalChanges
<1>6. Total(PresenceDues(s))' = Total(PresenceDues(s)')
    BY DEF Total
<1>7. PresenceDue(h, s) \in Int /\ PresenceDue(h, s)' \in Int
    BY <1>1, <1>2
<1> QED BY <1>1, <1>2, <1>5, <1>6, <1>7

LEMMA WithTyped ==
    \A s : With(s) \in SUBSET User /\ Size(With(s)) \in Int
<1> SUFFICES ASSUME NEW s PROVE With(s) \in SUBSET User /\ Size(With(s)) \in Int
    OBVIOUS
<1>1. With(s) \in SUBSET User
    BY DEF With
<1> QED BY <1>1, FiniteSizes

LEMMA WithTypedNext == (\A s : With(s) \in SUBSET User /\ Size(With(s)) \in Int)'
BY WithTyped, PTL

LEMMA PresenceSumMoves ==
    ASSUME Typed, Typed', PresenceSum, NEW h \in Handler, Others(h),
           \A s \in Status :
              presenceKey'[s] + unseen'.presence[s] + PresenceDue(h, s)' - Size(With(s))'
                  = presenceKey[s] + unseen.presence[s] + PresenceDue(h, s) - Size(With(s))
    PROVE  PresenceSum'
<1> SUFFICES ASSUME NEW s \in Status
             PROVE  presenceKey'[s] + unseen'.presence[s] + Total(PresenceDues(s))' = Size(With(s))'
    BY DEF PresenceSum
<1>1. /\ Total(PresenceDues(s)) \in Int /\ PresenceDue(h, s) \in Int /\ PresenceDue(h, s)' \in Int
      /\ Total(PresenceDues(s))' = Total(PresenceDues(s)) - PresenceDue(h, s) + PresenceDue(h, s)'
    BY PresenceDueChanges
<1>2. Total(PresenceDues(s))' \in Int
    BY <1>1
<1>3. Size(With(s)) \in Int /\ Size(With(s))' \in Int
    BY WithTyped, WithTypedNext
<1>4. /\ presenceKey[s] \in Int /\ unseen.presence[s] \in Int
      /\ presenceKey'[s] \in Int /\ unseen'.presence[s] \in Int
    BY DEF Typed
<1>5. presenceKey[s] + unseen.presence[s] + Total(PresenceDues(s)) = Size(With(s))
    BY DEF PresenceSum
<1>6. presenceKey'[s] + unseen'.presence[s] + PresenceDue(h, s)' - Size(With(s))'
          = presenceKey[s] + unseen.presence[s] + PresenceDue(h, s) - Size(With(s))
    OBVIOUS
<1> QED BY <1>1, <1>2, <1>3, <1>4, <1>5, <1>6, Balance

\* The counts of the hash that a handler's commands change, and what they fail to.
LEMMA CountPresenceSum ==
    ASSUME Typed, NEW p \in Status, NEW by \in {-1, 1}, CountPresence(p, by)
    PROVE  \A s \in Status : presenceKey'[s] + unseen'.presence[s]
                                = presenceKey[s] + unseen.presence[s] + (IF s = p THEN by ELSE 0)
<1>0. presenceKey \in [Status -> Int] /\ unseen \in [voice : Int, presence : [Status -> Int]]
    BY DEF Typed
<1>1. CASE presenceKey' = [presenceKey EXCEPT ![p] = @ + by] /\ UNCHANGED unseen
    BY <1>0, <1>1
<1>2. CASE UNCHANGED presenceKey /\ unseen' = [unseen EXCEPT !.presence[p] = @ + by]
    <2>1. unseen'.presence = [unseen.presence EXCEPT ![p] = @ + by]
        BY <1>0, <1>2, UnseenPresence
    <2> QED BY <1>0, <1>2, <2>1
<1> QED BY <1>1, <1>2 DEF CountPresence

LEMMA PresenceSumHandle ==
    ASSUME CountsTyped, PresenceSum, NEW h \in Handler, Handle(h)
    PROVE  PresenceSum'
<1> USE DEF env, discord, keys, history, rest
<1>0. /\ Typed /\ Typed' /\ Others(h) /\ work[h] # Free /\ (work'[h] = Free \/ Moved(h))
      /\ presenceKey \in [Status -> Int] /\ unseen \in [voice : Int, presence : [Status -> Int]]
      /\ presenceKey' \in [Status -> Int] /\ unseen' \in [voice : Int, presence : [Status -> Int]]
    BY HandleMoves, HandleTyped DEF CountsTyped, Typed
<1>s. /\ \A s : PresenceDue(h, s) \in Int /\ PresenceDue(h, s)' \in Int /\ Size(With(s)) \in Int
      /\ status' = status => \A s : Size(With(s))' = Size(With(s))
    <2>1. \A s : PresenceDue(h, s) \in Int /\ PresenceDue(h, s)' \in Int
        BY <1>0, PresenceDueChanges
    <2>2. status' = status => \A s : Size(With(s))' = Size(With(s))
        BY DEF With, Size
    <2> QED BY <2>1, <2>2, WithTyped
<1>e. work[h].kind = "presence" /\ work[h].pc \in {"find", "minus"} =>
         /\ work[h] \in PresenceWork /\ work[h].event.kind = "presence"
         /\ work[h].event.is \in Status /\ work[h].event.old \in Status
         /\ work[h].event.was \in {"none", work[h].event.old}
    BY <1>0, WorkOfKind DEF CountsTyped, PresenceWork, PresenceEvent, Doing
<1>d. (~Is(h, "presence", "find")' /\ ~Is(h, "presence", "minus")') => \A s : PresenceDue(h, s)' = 0
    BY DEF PresenceDue
<1>c. (~Is(h, "presence", "find") /\ ~Is(h, "presence", "minus")) => \A s : PresenceDue(h, s) = 0
    BY DEF PresenceDue
<1>o. \A a, b : One(a = b) \in Int
    BY DEF One
<1>1. CASE work[h].kind # "presence"
    <2>1. \A s : PresenceDue(h, s) = 0 /\ PresenceDue(h, s)' = 0
        BY <1>0, <1>1, <1>c, <1>d DEF Is, Moved, Free
    <2>2. UNCHANGED <<presenceKey, status>> /\ unseen'.presence = unseen.presence
        BY <1>1, NotOfPresences
    <2> QED BY <1>0, <1>s, <2>1, <2>2, PresenceSumMoves
<1>2. CASE Unknown(h) /\ work[h].kind = "presence"
    <2>1. \A s : PresenceDue(h, s)' = 0
        BY <1>2, <1>d, UnknownMoves DEF Is, Ended
    <2>2. \A s : PresenceDue(h, s) = One(s = work[h].event.is) - One(s = work[h].event.old)
        BY <1>2 DEF PresenceDue, Is, Unknown
    <2>3. /\ UNCHANGED <<presenceKey, status>>
          /\ \A s \in Status : unseen'.presence[s]
                = unseen.presence[s] + One(s = work[h].event.is) - One(s = work[h].event.old)
        BY <1>0, <1>2, <1>e, UnknownLoses, MissedPresence DEF Unknown
    <2> QED BY <1>0, <1>s, <1>o, <2>1, <2>2, <2>3, PresenceSumMoves
<1>3. CASE PresenceFound(h)
    <2>1. Is(h, "presence", "find") /\ status' = status
        BY <1>3 DEF PresenceFound
    <2>2. \A s : PresenceDue(h, s) = One(s = work[h].event.is) - One(s = work[h].event.old)
        BY <2>1 DEF PresenceDue
    <2>3. CASE work[h].event.was # "none" /\ Issued(h, "minus", Unset)
        <3>1. \A s : PresenceDue(h, s)' = One(s = work[h].event.is)
            BY <2>1, <2>3 DEF PresenceDue, Issued, Moved, Is
        <3>2. work[h].event.was = work[h].event.old /\ work[h].event.old \in Status
            BY <1>e, <2>1, <2>3 DEF Is
        <3>3. CountPresence(work[h].event.old, -1)
            BY <1>3, <2>3, <3>2, Zenon DEF PresenceFound
        <3>4. \A s \in Status : presenceKey'[s] + unseen'.presence[s]
                 = presenceKey[s] + unseen.presence[s] - One(s = work[h].event.old)
            <4>1. \A s \in Status : presenceKey'[s] + unseen'.presence[s]
                     = presenceKey[s] + unseen.presence[s] + (IF s = work[h].event.old THEN -1 ELSE 0)
                BY <1>0, <3>2, <3>3, CountPresenceSum
            <4> QED BY <1>0, <4>1 DEF One
        <3>5. \A s \in Status :
                 presenceKey'[s] + unseen'.presence[s] + PresenceDue(h, s)' - Size(With(s))'
                  = presenceKey[s] + unseen.presence[s] + PresenceDue(h, s) - Size(With(s))
            <4> TAKE s \in Status
            <4>1. /\ presenceKey[s] \in Int /\ unseen.presence[s] \in Int
                  /\ presenceKey'[s] \in Int /\ unseen'.presence[s] \in Int
                BY <1>0
            <4>2. /\ One(s = work[h].event.is) \in Int /\ One(s = work[h].event.old) \in Int
                  /\ Size(With(s)) \in Int /\ Size(With(s))' = Size(With(s))
                BY <1>s, <1>o, <2>1
            <4>3. presenceKey'[s] + unseen'.presence[s]
                     = presenceKey[s] + unseen.presence[s] - One(s = work[h].event.old)
                BY <3>4
            <4>4. /\ PresenceDue(h, s) = One(s = work[h].event.is) - One(s = work[h].event.old)
                  /\ PresenceDue(h, s)' = One(s = work[h].event.is)
                BY <2>2, <3>1
            <4> QED BY <4>1, <4>2, <4>3, <4>4
        <3> QED BY <1>0, <3>5, PresenceSumMoves
    <2>4. CASE work[h].event.was = "none" /\ Issued(h, "plus", Unset)
        <3>1. \A s : PresenceDue(h, s)' = 0
            BY <1>d, <2>4 DEF Issued, Is
        <3>2. \A s \in Status : presenceKey'[s] + unseen'.presence[s]
                 = presenceKey[s] + unseen.presence[s]
                      + One(s = work[h].event.is) - One(s = work[h].event.old)
            <4>1. /\ work[h].event.kind = "presence"
                  /\ work[h].event.is \in Status /\ work[h].event.old \in Status
                BY <1>e, <2>1 DEF Is
            <4>2. CASE /\ presenceKey' = [presenceKey EXCEPT ![work[h].event.is] = @ + 1]
                       /\ unseen' = [unseen EXCEPT !.presence[work[h].event.old] = @ - 1]
                <5>1. unseen' = [unseen EXCEPT !.presence[work[h].event.old] = @ + (-1)]
                    BY <1>0, <4>1, <4>2
                <5>2. unseen'.presence = [unseen.presence EXCEPT ![work[h].event.old] = @ + (-1)]
                    BY <1>0, <4>1, <5>1, UnseenPresence
                <5> QED BY <1>0, <4>1, <4>2, <5>2 DEF One
            <4>3. CASE unseen' = Missed(work[h].event) /\ UNCHANGED presenceKey
                <5> TAKE s \in Status
                <5>1. unseen'.presence[s]
                         = unseen.presence[s] + One(s = work[h].event.is) - One(s = work[h].event.old)
                    BY <1>0, <4>1, <4>3, MissedPresence
                <5>2. /\ presenceKey[s] \in Int /\ unseen.presence[s] \in Int /\ presenceKey' = presenceKey
                      /\ One(s = work[h].event.is) \in Int /\ One(s = work[h].event.old) \in Int
                    BY <1>0, <1>o, <4>3
                <5> QED BY <5>1, <5>2
            <4>4. \/ /\ presenceKey' = [presenceKey EXCEPT ![work[h].event.is] = @ + 1]
                     /\ unseen' = [unseen EXCEPT !.presence[work[h].event.old] = @ - 1]
                  \/ unseen' = Missed(work[h].event) /\ UNCHANGED presenceKey
                BY <1>3, <2>4, Zenon DEF PresenceFound
            <4> QED BY <4>2, <4>3, <4>4
        <3>3. \A s \in Status :
                 presenceKey'[s] + unseen'.presence[s] + PresenceDue(h, s)' - Size(With(s))'
                  = presenceKey[s] + unseen.presence[s] + PresenceDue(h, s) - Size(With(s))
            BY <1>0, <1>s, <1>o, <2>1, <2>2, <3>1, <3>2
        <3> QED BY <1>0, <3>3, PresenceSumMoves
    <2> QED BY <1>3, <2>3, <2>4, PresenceFoundMoves
<1>4. CASE PresenceMinus(h)
    <2>1. Is(h, "presence", "minus") /\ status' = status /\ CountPresence(work[h].event.is, 1)
        BY <1>4 DEF PresenceMinus
    <2>2. \A s : PresenceDue(h, s) = One(s = work[h].event.is)
        BY <2>1 DEF PresenceDue, Is
    <2>3. \A s : PresenceDue(h, s)' = 0
        BY <1>4, <1>d, PresenceMinusMoves DEF Issued, Is
    <2>4. \A s \in Status : presenceKey'[s] + unseen'.presence[s]
             = presenceKey[s] + unseen.presence[s] + One(s = work[h].event.is)
        <3>1. work[h].event.is \in Status
            BY <1>e, <2>1 DEF Is
        <3>2. \A s \in Status : presenceKey'[s] + unseen'.presence[s]
                 = presenceKey[s] + unseen.presence[s] + (IF s = work[h].event.is THEN 1 ELSE 0)
            BY <1>0, <2>1, <3>1, CountPresenceSum
        <3> QED BY <1>0, <3>2 DEF One
    <2> QED BY <1>0, <1>s, <1>o, <2>1, <2>2, <2>3, <2>4, PresenceSumMoves
<1>5. CASE PresencePlus(h) \/ PresenceRead(h) \/ PresenceLast(h) \/ PresenceSet(h)
    <2>1. ~Is(h, "presence", "find")' /\ ~Is(h, "presence", "minus")'
        BY <1>5, PresencePlusMoves, PresenceReadMoves, PresenceLastMoves, PresenceSetMoves
           DEF Issued, Ended, Is
    <2>2. ~Is(h, "presence", "find") /\ ~Is(h, "presence", "minus")
        BY <1>5 DEF Is, PresencePlus, PresenceRead, PresenceLast, PresenceSet
    <2>3. UNCHANGED <<presenceKey, unseen, status>>
        BY <1>5 DEF PresencePlus, PresenceRead, PresenceLast, PresenceSet
    <2> QED BY <1>0, <1>c, <1>d, <1>s, <2>1, <2>2, <2>3, PresenceSumMoves
<1> QED BY <1>1, <1>2, <1>3, <1>4, <1>5, HandlerOfKind

\* What an event changes in the number of users with status s.
PresenceGain(e, s) == IF e.kind = "presence" THEN One(s = e.is) - One(s = e.old) ELSE 0

LEMMA PresenceSumBegin ==
    ASSUME CountsTyped, PresenceSum, Typed', NEW h \in Handler, NEW e, Started(h, e),
           UNCHANGED presenceKey,
           \A s \in Status : Size(With(s))' = Size(With(s)) + PresenceGain(e, s)
    PROVE  PresenceSum'
<1>1. /\ UNCHANGED unseen /\ Others(h) /\ Typed
      /\ work[h] = Free /\ work'[h].pc = "find" /\ work'[h].kind = e.kind /\ work'[h].event = e
    BY DEF Started, CountsTyped
<1>2. \A s \in Status : PresenceDue(h, s) = 0 /\ PresenceDue(h, s)' = PresenceGain(e, s)
    BY <1>1 DEF PresenceDue, PresenceGain, Is, Free
<1>3. \A s : PresenceDue(h, s)' \in Int /\ Size(With(s)) \in Int
    BY <1>1, PresenceDueChanges, WithTyped
<1>4. \A s \in Status : presenceKey[s] \in Int /\ unseen.presence[s] \in Int
    BY <1>1 DEF Typed
<1>5. \A s \in Status :
         presenceKey'[s] + unseen'.presence[s] + PresenceDue(h, s)' - Size(With(s))'
          = presenceKey[s] + unseen.presence[s] + PresenceDue(h, s) - Size(With(s))
    BY <1>1, <1>2, <1>3, <1>4
<1> QED BY <1>1, <1>5, PresenceSumMoves

LEMMA PresenceSumMiss ==
    ASSUME CountsTyped, PresenceSum, NEW e, UNCHANGED <<work, presenceKey>>,
           \A s \in Status : /\ PresenceGain(e, s) \in Int
                             /\ unseen'.presence[s] = unseen.presence[s] + PresenceGain(e, s)
                             /\ Size(With(s))' = Size(With(s)) + PresenceGain(e, s)
    PROVE  PresenceSum'
<1>1. \A s : PresenceDues(s)' = PresenceDues(s)
    BY DEF PresenceDues, PresenceDue, Is
<1>t. \A due : Total(due) \in Int
    BY FiniteSizes DEF Total
<1>2. \A s : Total(PresenceDues(s))' = Total(PresenceDues(s)) /\ Total(PresenceDues(s)) \in Int
    <2>1. \A s : Total(PresenceDues(s))' = Total(PresenceDues(s))
        BY <1>1 DEF Total
    <2> QED BY <1>t, <2>1
<1>3. \A s \in Status : presenceKey[s] \in Int /\ unseen.presence[s] \in Int /\ Size(With(s)) \in Int
    BY WithTyped DEF CountsTyped, Typed
<1> SUFFICES ASSUME NEW s \in Status
             PROVE  presenceKey'[s] + unseen'.presence[s] + Total(PresenceDues(s))' = Size(With(s))'
    BY DEF PresenceSum
<1>4. presenceKey[s] + unseen.presence[s] + Total(PresenceDues(s)) = Size(With(s))
    BY DEF PresenceSum
<1> QED BY <1>2, <1>3, <1>4

LEMMA PresenceSumChange ==
    ASSUME CountsTyped, PresenceSum, DiscordChanges
    PROVE  PresenceSum'
<1> USE DEF keys, history
<1>1. Typed /\ Typed' /\ UNCHANGED presenceKey
    <2>1. Typed /\ Typed'
        BY ChangeTyped DEF DiscordChanges, CountsTyped
    <2>2. UNCHANGED presenceKey
        BY DEF DiscordChanges, MemberChange, VoiceChange, PresenceChange, RoleChange, Start
    <2> QED BY <2>1, <2>2
<1>2. PICK e \in MemberEvent \cup VoiceEvent \cup PresenceEvent \cup RoleEvent :
          Comes(e) /\ \A s \in Status : Size(With(s))' = Size(With(s)) + PresenceGain(e, s)
    <2>0. ASSUME NEW e, e.kind # "presence", status' = status
          PROVE  \A s \in Status : Size(With(s))' = Size(With(s)) + PresenceGain(e, s)
        <3>1. \A s : PresenceGain(e, s) = 0
            BY <2>0 DEF PresenceGain
        <3>2. \A s : Size(With(s))' = Size(With(s))
            BY <2>0 DEF Size, With
        <3> QED BY <3>1, <3>2, WithTyped
    <2>1. ASSUME NEW u \in User, MemberChange(u)
          PROVE  /\ MemberEventOf(u) \in MemberEvent /\ Comes(MemberEventOf(u))
                 /\ \A s \in Status : Size(With(s))' = Size(With(s)) + PresenceGain(MemberEventOf(u), s)
        <3>1. MemberEventOf(u) \in MemberEvent /\ MemberEventOf(u).kind # "presence"
            BY DEF MemberEventOf, MemberEvent
        <3>2. status' = status
            BY <2>1 DEF MemberChange
        <3> QED BY <2>0, <2>1, <3>1, <3>2, ChangesStart
    <2>2. ASSUME NEW u \in User, NEW in \in BOOLEAN, VoiceChange(u, in)
          PROVE  /\ VoiceEventOf(u, in) \in VoiceEvent /\ Comes(VoiceEventOf(u, in))
                 /\ \A s \in Status : Size(With(s))' = Size(With(s)) + PresenceGain(VoiceEventOf(u, in), s)
        <3>1. VoiceEventOf(u, in) \in VoiceEvent /\ VoiceEventOf(u, in).kind # "presence"
            BY DEF VoiceEventOf, VoiceEvent
        <3>2. status' = status
            BY <2>2 DEF VoiceChange
        <3> QED BY <2>0, <2>2, <3>1, <3>2, ChangesStart
    <2>3. ASSUME NEW u \in User, NEW n \in Status, PresenceChange(u, n)
          PROVE  /\ PresenceEventOf(u, n) \in PresenceEvent /\ Comes(PresenceEventOf(u, n))
                 /\ \A s \in Status : Size(With(s))' = Size(With(s)) + PresenceGain(PresenceEventOf(u, n), s)
        <3>1. PresenceEventOf(u, n) \in PresenceEvent
            BY DEF PresenceEventOf, PresenceEvent, CountsTyped, Typed
        <3>3. \A s : PresenceGain(PresenceEventOf(u, n), s) = One(s = n) - One(s = status[u])
            BY DEF PresenceGain, PresenceEventOf
        <3>4. status' = [status EXCEPT ![u] = n] /\ n # status[u] /\ status \in [User -> Status]
            BY <2>3, <1>1 DEF PresenceChange, Typed
        <3>5. ASSUME NEW s \in Status
              PROVE  Size(With(s))' = Size(With(s)) + One(s = n) - One(s = status[u])
            <4>1. /\ With(s) \in SUBSET User /\ Size(With(s)) \in Int
                  /\ Size(With(s) \cup {u}) = Size(With(s)) + 1 - One(u \in With(s))
                  /\ Size(With(s) \ {u}) = Size(With(s)) - One(u \in With(s))
                BY WithTyped, SizeChanges
            <4>2. CASE s = n
                <5>1. With(s)' = With(s) \cup {u} /\ u \notin With(s)
                    BY <3>4, <4>2 DEF With
                <5> QED BY <3>4, <4>1, <4>2, <5>1 DEF Size, One
            <4>3. CASE s = status[u]
                <5>1. With(s)' = With(s) \ {u} /\ u \in With(s)
                    BY <3>4, <4>3 DEF With
                <5> QED BY <3>4, <4>1, <4>3, <5>1 DEF Size, One
            <4>4. CASE s # n /\ s # status[u]
                <5>1. With(s)' = With(s)
                    BY <3>4, <4>4 DEF With
                <5> QED BY <4>1, <4>4, <5>1 DEF Size, One
            <4> QED BY <4>2, <4>3, <4>4
        <3>6. \A s \in Status : Size(With(s)) \in Int /\ One(s = n) \in Int /\ One(s = status[u]) \in Int
            BY WithTyped DEF One
        <3>7. \A s \in Status : Size(With(s))' = Size(With(s)) + PresenceGain(PresenceEventOf(u, n), s)
            BY <3>3, <3>5, <3>6
        <3> QED BY <2>3, <3>1, <3>7, ChangesStart
    <2>4. ASSUME NEW u \in User, RoleChange(u)
          PROVE  /\ RoleEventOf(u) \in RoleEvent /\ Comes(RoleEventOf(u))
                 /\ \A s \in Status : Size(With(s))' = Size(With(s)) + PresenceGain(RoleEventOf(u), s)
        <3>1. RoleEventOf(u) \in RoleEvent /\ RoleEventOf(u).kind # "presence"
            BY DEF RoleEventOf, RoleEvent
        <3>2. status' = status
            BY <2>4 DEF RoleChange
        <3> QED BY <2>0, <2>4, <3>1, <3>2, ChangesStart
    <2> QED BY <2>1, <2>2, <2>3, <2>4 DEF DiscordChanges
<1>3. CASE \E h \in Handler : Started(h, e)
    BY <1>1, <1>2, <1>3, PresenceSumBegin
<1>4. CASE Unheard(e)
    <2>1. /\ unseen \in [voice : Int, presence : [Status -> Int]]
          /\ unseen' = Missed(e) /\ UNCHANGED work
        BY <1>1, <1>4 DEF Typed, Unheard, Uncounted
    <2>2. \A s \in Status : /\ PresenceGain(e, s) \in Int
                           /\ unseen'.presence[s] = unseen.presence[s] + PresenceGain(e, s)
        <3>1. CASE e.kind = "presence"
            <4>1. e \in PresenceEvent
                BY <1>2, <3>1 DEF MemberEvent, VoiceEvent, RoleEvent
            <4>2. e.old \in Status /\ e.is \in Status
                BY <4>1 DEF PresenceEvent
            <4> TAKE s \in Status
            <4>3. unseen'.presence[s] = unseen.presence[s] + One(s = e.is) - One(s = e.old)
                BY <2>1, <3>1, <4>2, MissedPresence
            <4>4. One(s = e.is) \in Int /\ One(s = e.old) \in Int /\ unseen.presence[s] \in Int
                BY <2>1 DEF One
            <4>5. PresenceGain(e, s) = One(s = e.is) - One(s = e.old)
                BY <3>1 DEF PresenceGain
            <4> QED BY <4>3, <4>4, <4>5
        <3>2. CASE e.kind # "presence"
            <4>1. unseen'.presence = unseen.presence
                BY <2>1, <3>2 DEF Missed
            <4> QED BY <2>1, <3>2, <4>1 DEF PresenceGain
        <3> QED BY <3>1, <3>2
    <2> QED BY <1>1, <1>2, <2>1, <2>2, PresenceSumMiss
<1> QED BY <1>2, <1>3, <1>4 DEF Comes

LEMMA PresenceSumEnd ==
    ASSUME CountsTyped, PresenceSum, ProcessEnds
    PROVE  PresenceSum'
<1>1. \A h \in Handler : work'[h] = Free
    BY EndStops
<1>2. /\ UNCHANGED <<presenceKey, status>>
      /\ \A s \in Status : unseen'.presence[s] = unseen.presence[s] + Total(PresenceDues(s))
    BY DEF ProcessEnds, keys
<1>3. \A s : Total(PresenceDues(s))' = 0
    <2> TAKE s
    <2>1. \A h \in Handler : PresenceDues(s)'[h] = 0
        BY <1>1 DEF PresenceDues, PresenceDue, Is, Free
    <2>2. Total(PresenceDues(s)') = 0
        BY <2>1, TotalNone
    <2> QED BY <2>2 DEF Total
<1> SUFFICES ASSUME NEW s \in Status
             PROVE  presenceKey'[s] + unseen'.presence[s] + Total(PresenceDues(s))' = Size(With(s))'
    BY DEF PresenceSum
<1>4. /\ presenceKey[s] \in Int /\ unseen.presence[s] \in Int /\ Size(With(s)) \in Int
      /\ Total(PresenceDues(s)) \in Int /\ Size(With(s))' = Size(With(s))
    BY <1>2, WithTyped, FiniteSizes DEF CountsTyped, Typed, Total, With, Size
<1>5. presenceKey[s] + unseen.presence[s] + Total(PresenceDues(s)) = Size(With(s))
    BY DEF PresenceSum
<1> QED BY <1>2, <1>3, <1>4, <1>5

LEMMA PresenceSumStill ==
    ASSUME PresenceSum, UNCHANGED <<work, presenceKey, status>>, unseen'.presence = unseen.presence
    PROVE  PresenceSum'
<1>1. \A s : PresenceDues(s)' = PresenceDues(s)
    BY DEF PresenceDues, PresenceDue, Is
<1>2. \A s : Total(PresenceDues(s))' = Total(PresenceDues(s)) /\ Size(With(s))' = Size(With(s))
    BY <1>1 DEF Total, Size, With
<1> QED BY <1>2 DEF PresenceSum

LEMMA PresenceSumInit == CountsInit => PresenceSum
<1> SUFFICES ASSUME CountsInit, NEW s \in Status
             PROVE  presenceKey[s] + unseen.presence[s] + Total(PresenceDues(s)) = Size(With(s))
    BY DEF PresenceSum
<1>1. \A h \in Handler : PresenceDues(s)[h] = 0
    BY DEF CountsInit, PresenceDues, PresenceDue, Is, Free
<1>2. Total(PresenceDues(s)) = 0
    BY <1>1, TotalNone
<1>3. Size(With(s)) \in Int
    BY WithTyped
<1>4. presenceKey[s] = 0 /\ unseen.presence[s] = Size(With(s))
    BY DEF CountsInit
<1> QED BY <1>2, <1>3, <1>4

LEMMA PresenceSumStep == CountsTyped /\ PresenceSum /\ [CountsNext]_countsVars => PresenceSum'
<1> SUFFICES ASSUME CountsTyped, PresenceSum, [CountsNext]_countsVars PROVE PresenceSum'
    OBVIOUS
<1> USE DEF env, discord, keys, history
<1>1. ASSUME NEW h \in Handler, Handle(h) PROVE PresenceSum'
    BY <1>1, PresenceSumHandle
<1>2. CASE DiscordChanges
    BY <1>2, PresenceSumChange
<1>3. CASE Onboard \/ FetchRole \/ FetchedRole
    BY <1>3, PresenceSumStill DEF Onboard, FetchRole, FetchedRole
<1>4. ASSUME NEW n \in {0, 1}, GuildSync(n) PROVE PresenceSum'
    BY <1>4, PresenceSumStill DEF GuildSync
<1>5. CASE UNCHANGED countsVars
    BY <1>5, PresenceSumStill DEF countsVars
<1>6. CASE ProcessEnds
    BY <1>6, PresenceSumEnd
<1>7. CASE ProcessStarts
    BY <1>7, PresenceSumStill DEF ProcessStarts
<1> QED BY <1>1, <1>2, <1>3, <1>4, <1>5, <1>6, <1>7 DEF CountsNext

LEMMA PresenceWhenQuiet == CountsTyped /\ PresenceSum => PresenceLedger
<1> SUFFICES ASSUME CountsTyped, PresenceSum, Quiet, NEW s \in Status
             PROVE  presenceKey[s] = Size(With(s)) - unseen.presence[s]
    BY DEF PresenceLedger
<1>1. \A h \in Handler : PresenceDues(s)[h] = 0
    BY DEF Quiet, Is, Free, PresenceDues, PresenceDue
<1>2. Total(PresenceDues(s)) = 0
    BY <1>1, TotalNone
<1>3. Size(With(s)) \in Int /\ presenceKey[s] \in Int /\ unseen.presence[s] \in Int
    BY WithTyped DEF CountsTyped, Typed
<1> QED BY <1>2, <1>3 DEF PresenceSum

-------------------------------------------------------------------------------
(* The number of those online: what was compared, written and published.   *)

AtLast(h) == Is(h, "presence", "getlast") \/ Is(h, "presence", "setlast")

OneAtLast == "online" \notin crossed => \A g, h \in Handler : AtLast(g) /\ AtLast(h) => g = h
LastCompared ==
    "online" \notin crossed /\ "sync" \notin crossed =>
       \A h \in Handler : Is(h, "presence", "getlast") => work[h].event.last \in {lastKey, Unset}
LastPublished ==
    \/ "last" \in lost \/ "sync" \in crossed
    \/ \E h \in Handler : Newest(h, "presence", "setlast") /\ work[h].value = lastKey
    \/ /\ \A h \in Handler : ~Is(h, "presence", "setlast")
       /\ shown["onlineMembers"] = lastKey
LastInv == OneAtLast /\ LastCompared /\ LastPublished

OnlineSettled ==
    "online" \notin crossed =>
      /\ \A h \in Handler : AtLast(h) => work[h].value = Online
      /\ (\A h \in Handler : ~AtLast(h)) =>
            "last" \in lost \/ "sync" \in crossed \/ shown["onlineMembers"] \in {Unset, Online}
OnlineRead ==
    \/ \E h \in Handler : Is(h, "presence", "minus") \/ Is(h, "presence", "plus")
    \/ "online" \in lost
    \/ \E h \in Handler : Newest(h, "presence", "hgetall") /\ work[h].value = Online
    \/ (\A h \in Handler : ~Is(h, "presence", "hgetall")) /\ OnlineSettled

LEMMA IsStays ==
    ASSUME NEW h \in Handler, Others(h)
    PROVE  \A o \in Handler \ {h} : \A kind, pc : Is(o, kind, pc)' <=> Is(o, kind, pc)
BY DEF Is, Others

OnlineOf(k) == Size(UNION {{s} \X (1..Positive(k[s])) : s \in Visible})
LEMMA OnlineIs == Online = OnlineOf(presenceKey) /\ Online' = OnlineOf(presenceKey')
BY DEF Online, OnlineOf, Size, Positive

LEMMA OnlineSame == ASSUME UNCHANGED presenceKey PROVE Online' = Online
BY OnlineIs

\* A step of a handler that is, and stays, away from the write of the number.
LEMMA LastPublishedStays ==
    ASSUME LastPublished, NEW h \in Handler, Others(h), Ordered(h),
           ~Is(h, "presence", "setlast"), ~Is(h, "presence", "setlast")',
           UNCHANGED lastKey, "last" \in lost' <=> "last" \in lost,
           "sync" \in crossed' <=> "sync" \in crossed,
           shown'["onlineMembers"] = shown["onlineMembers"]
    PROVE  LastPublished'
<1>0. "setlast" \in Awaits
    BY DEF Awaits
<1>1. CASE \E o \in Handler : Newest(o, "presence", "setlast") /\ work[o].value = lastKey
    <2>1. PICK o \in Handler : Newest(o, "presence", "setlast") /\ work[o].value = lastKey
        BY <1>1
    <2>2. o # h
        BY <2>1 DEF Newest
    <2>3. Newest(o, "presence", "setlast")'
        BY <1>0, <2>1, <2>2, NewestStays
    <2> QED BY <2>1, <2>2, <2>3 DEF LastPublished, Others
<1>2. CASE /\ \A o \in Handler : ~Is(o, "presence", "setlast")
           /\ shown["onlineMembers"] = lastKey
    <2>1. \A o \in Handler : ~Is(o, "presence", "setlast")'
        BY <1>2, IsStays
    <2> QED BY <1>2, <2>1 DEF LastPublished
<1>3. CASE "last" \in lost \/ "sync" \in crossed
    BY <1>3 DEF LastPublished
<1> QED BY <1>1, <1>2, <1>3 DEF LastPublished

LEMMA LastStays ==
    ASSUME LastInv, NEW h \in Handler, Others(h), Ordered(h), ~AtLast(h), ~AtLast(h)',
           UNCHANGED lastKey, "last" \in lost' <=> "last" \in lost,
           \A x \in {"online", "sync"} : x \in crossed' <=> x \in crossed,
           shown'["onlineMembers"] = shown["onlineMembers"]
    PROVE  LastInv'
<1>0. /\ ~Is(h, "presence", "setlast") /\ ~Is(h, "presence", "setlast")'
      /\ ~Is(h, "presence", "getlast") /\ ~Is(h, "presence", "getlast")'
    BY DEF AtLast
<1>1. \A o \in Handler \ {h} : \A kind, pc : Is(o, kind, pc)' <=> Is(o, kind, pc)
    BY IsStays
<1>2. \A o \in Handler : AtLast(o)' <=> AtLast(o)
    BY <1>0, <1>1 DEF AtLast
<1>3. OneAtLast'
    BY <1>2 DEF LastInv, OneAtLast
<1>4. LastCompared'
    BY <1>0, <1>1 DEF LastInv, LastCompared, Others
<1>5. LastPublished'
    BY <1>0, LastPublishedStays DEF LastInv
<1> QED BY <1>3, <1>4, <1>5 DEF LastInv

LEMMA LastHandle ==
    ASSUME CountsTyped, LastInv, NEW h \in Handler, Handle(h)
    PROVE  LastInv'
<1> USE DEF env, discord, keys, history, rest
<1>0. /\ Others(h) /\ Ordered(h) /\ work[h] # Free /\ (work'[h] = Free \/ Moved(h))
      /\ shown \in [Parameter -> Int] /\ "onlineMembers" \in Parameter /\ "setlast" \in Awaits
    BY HandleMoves DEF CountsTyped, Typed, Parameter, Awaits
<1>i. \A o \in Handler \ {h} : \A kind, pc : Is(o, kind, pc)' <=> Is(o, kind, pc)
    BY <1>0, IsStays
<1>a. \A o \in Handler \ {h} : AtLast(o)' <=> AtLast(o)
    BY <1>i DEF AtLast
<1>w. \A o \in Handler \ {h} : work'[o] = work[o]
    BY <1>0 DEF Others
<1>1. CASE work[h].kind # "presence"
    <2>1. ~AtLast(h) /\ ~AtLast(h)'
        BY <1>0, <1>1 DEF AtLast, Is, Moved, Free
    <2> QED BY <1>0, <1>1, <2>1, NotOfPresences, LastStays
<1>2. CASE Unknown(h) \/ PresenceFound(h) \/ PresenceMinus(h) \/ PresencePlus(h)
    <2>1. ~AtLast(h)
        BY <1>2 DEF AtLast, Is, Unknown, PresenceFound, PresenceMinus, PresencePlus
    <2>2. ~AtLast(h)'
        BY <1>2, UnknownMoves, PresenceFoundMoves, PresenceMinusMoves, PresencePlusMoves
           DEF AtLast, Is, Ended, Issued
    <2>3. UNCHANGED <<lastKey, crossed, shown>> /\ ("last" \in lost' <=> "last" \in lost)
        BY <1>2, UnknownLoses DEF Unknown, PresenceFound, PresenceMinus, PresencePlus
    <2> QED BY <1>0, <2>1, <2>2, <2>3, LastStays
<1>3. CASE PresenceRead(h)
    <2>1. PICK last \in {lastKey, Unset} :
              Moved(h) /\ work'[h].pc = "getlast" /\ work'[h].event = [last |-> last]
        BY <1>3, PresenceReadMoves
    <2>2. /\ Is(h, "presence", "hgetall") /\ UNCHANGED <<lastKey, shown, lost>>
          /\ crossed' = IF Publishing(h) THEN crossed \cup {"online"} ELSE crossed \ {"online"}
        BY <1>3 DEF PresenceRead
    <2>3. Is(h, "presence", "getlast")' /\ ~Is(h, "presence", "setlast")' /\ ~Is(h, "presence", "setlast")
        BY <2>1, <2>2 DEF Is, Moved
    <2>4. "online" \notin crossed' => \A o \in Handler \ {h} : ~AtLast(o)'
        <3>1. \A o \in Handler : AtLast(o) => work[o] # Free
            BY DEF AtLast, Is, Free
        <3> QED BY <1>a, <2>2, <3>1 DEF Publishing, Running, AtLast, Is
    <2>5. OneAtLast'
        BY <2>4 DEF OneAtLast
    <2>6. LastCompared'
        BY <2>1, <2>2, <2>4 DEF LastCompared, AtLast
    <2>7. LastPublished'
        BY <1>0, <2>2, <2>3, LastPublishedStays DEF LastInv
    <2> QED BY <2>5, <2>6, <2>7 DEF LastInv
<1>4. CASE PresenceLast(h)
    <2>0. AtLast(h) /\ Is(h, "presence", "getlast") /\ UNCHANGED shown
        BY <1>4 DEF PresenceLast, AtLast
    <2>1. CASE work[h].event.last # work[h].value /\ Issued(h, "setlast", work[h].value)
        <3>1. /\ Is(h, "presence", "setlast")' /\ ~Is(h, "presence", "getlast")'
              /\ work'[h].value = work[h].value
            BY <2>0, <2>1 DEF Issued, Is, Moved
        <3>2. /\ crossed' = crossed \ {"sync"}
              /\ lastKey' = work[h].value \/ "last" \in lost'
            BY <1>4, <2>1 DEF PresenceLast
        <3>3. OneAtLast'
            BY <1>a, <2>0, <3>2 DEF LastInv, OneAtLast
        <3>4. LastCompared'
            <4>1. "online" \notin crossed' => \A o \in Handler \ {h} : ~AtLast(o)'
                BY <1>a, <2>0, <3>2 DEF LastInv, OneAtLast
            <4> QED BY <3>1, <4>1 DEF LastCompared, AtLast
        <3>5. Newest(h, "presence", "setlast")'
            BY <1>0, <2>1, <3>1, NewestComes DEF Issued
        <3>6. LastPublished'
            BY <3>1, <3>2, <3>5 DEF LastPublished
        <3> QED BY <3>3, <3>4, <3>6 DEF LastInv
    <2>2. CASE work[h].event.last = work[h].value /\ Ended(h)
        <3>1. ~AtLast(h)' /\ ~Is(h, "presence", "setlast")' /\ ~Is(h, "presence", "getlast")'
            BY <2>2 DEF AtLast, Is, Ended
        <3>2. UNCHANGED <<lastKey, lost, crossed>>
            BY <1>4, <2>2 DEF PresenceLast
        <3>3. OneAtLast'
            BY <1>a, <3>1, <3>2 DEF LastInv, OneAtLast
        <3>4. LastCompared'
            BY <1>i, <1>w, <3>1, <3>2 DEF LastInv, LastCompared
        <3>5. ~Is(h, "presence", "setlast")
            BY <2>0 DEF Is
        <3>6. LastPublished'
            BY <1>0, <2>0, <3>1, <3>2, <3>5, LastPublishedStays DEF LastInv
        <3> QED BY <3>3, <3>4, <3>6 DEF LastInv
    <2> QED BY <1>4, <2>1, <2>2, PresenceLastMoves
<1>5. CASE PresenceSet(h)
    <2>1. /\ Is(h, "presence", "setlast") /\ Answered(h) /\ UNCHANGED <<lastKey, lost, crossed>>
          /\ shown'["onlineMembers"] = work[h].value
        BY <1>0, <1>5 DEF PresenceSet, Publish
    <2>2. ~AtLast(h)' /\ ~Is(h, "presence", "setlast")' /\ ~Is(h, "presence", "getlast")'
        BY <1>5, PresenceSetMoves DEF AtLast, Is, Ended
    <2>3. OneAtLast'
        BY <1>a, <2>1, <2>2 DEF LastInv, OneAtLast
    <2>4. LastCompared'
        BY <1>i, <1>w, <2>1, <2>2 DEF LastInv, LastCompared
    <2>5. LastPublished'
        <3>1. CASE "last" \in lost \/ "sync" \in crossed
            BY <2>1, <3>1 DEF LastPublished
        <3>2. CASE \E o \in Handler : Newest(o, "presence", "setlast") /\ work[o].value = lastKey
            <4>1. PICK o \in Handler : Newest(o, "presence", "setlast") /\ work[o].value = lastKey
                BY <3>2
            <4>2. CASE o = h
                <5>1. \A p \in Handler \ {h} : ~Is(p, "presence", "setlast")
                    BY <1>0, <2>1, <4>1, <4>2, NewestGoes DEF CountsTyped
                <5>2. \A p \in Handler : ~Is(p, "presence", "setlast")'
                    BY <1>i, <2>2, <5>1
                <5> QED BY <2>1, <4>1, <4>2, <5>2 DEF LastPublished
            <4>3. CASE o # h
                <5>1. Newest(o, "presence", "setlast")'
                    BY <1>0, <2>2, <4>1, <4>3, NewestStays
                <5> QED BY <1>w, <2>1, <4>1, <4>3, <5>1 DEF LastPublished
            <4> QED BY <4>2, <4>3
        <3> QED BY <2>1, <3>1, <3>2 DEF LastInv, LastPublished
    <2> QED BY <2>3, <2>4, <2>5 DEF LastInv
<1> QED BY <1>1, <1>2, <1>3, <1>4, <1>5, HandlerOfKind

\* A step of a handler that is, and stays, before or after the commands of presences.
LEMMA OnlineReadStays ==
    ASSUME OnlineRead, NEW h \in Handler, Others(h), Ordered(h), ~AtLast(h), ~AtLast(h)',
           \A pc \in {"minus", "plus", "hgetall"} : ~Is(h, "presence", pc) /\ ~Is(h, "presence", pc)',
           UNCHANGED presenceKey, \A x \in {"online", "last"} : x \in lost' <=> x \in lost,
           \A x \in {"online", "sync"} : x \in crossed' <=> x \in crossed,
           shown'["onlineMembers"] = shown["onlineMembers"]
    PROVE  OnlineRead'
<1>0. "hgetall" \in Awaits
    BY DEF Awaits
<1>1. \A o \in Handler : \A pc \in {"minus", "plus", "hgetall"} :
         Is(o, "presence", pc)' <=> Is(o, "presence", pc)
    BY IsStays
<1>2. \A o \in Handler : AtLast(o)' <=> AtLast(o)
    BY IsStays DEF AtLast
<1>3. Online' = Online
    BY OnlineSame
<1>4. CASE \E o \in Handler : Newest(o, "presence", "hgetall") /\ work[o].value = Online
    <2>1. PICK o \in Handler : Newest(o, "presence", "hgetall") /\ work[o].value = Online
        BY <1>4
    <2>2. o # h
        BY <2>1 DEF Newest
    <2>3. Newest(o, "presence", "hgetall")'
        BY <1>0, <2>1, <2>2, NewestStays
    <2> QED BY <1>3, <2>1, <2>2, <2>3 DEF OnlineRead, Others
<1>5. CASE (\A o \in Handler : ~Is(o, "presence", "hgetall")) /\ OnlineSettled
    <2>1. OnlineSettled'
        BY <1>2, <1>3, <1>5 DEF OnlineSettled, Others
    <2> QED BY <1>1, <1>5, <2>1 DEF OnlineRead
<1>6. CASE \/ \E o \in Handler : Is(o, "presence", "minus") \/ Is(o, "presence", "plus")
           \/ "online" \in lost
    BY <1>1, <1>6 DEF OnlineRead
<1> QED BY <1>4, <1>5, <1>6 DEF OnlineRead

LEMMA OnlineReadHandle ==
    ASSUME CountsTyped, LastInv, OnlineRead, NEW h \in Handler, Handle(h)
    PROVE  OnlineRead'
<1> USE DEF env, discord, keys, history, rest
<1>0. /\ Others(h) /\ Ordered(h) /\ work[h] # Free /\ (work'[h] = Free \/ Moved(h))
      /\ shown \in [Parameter -> Int] /\ "onlineMembers" \in Parameter /\ "hgetall" \in Awaits
      /\ Online \in Nat
    BY HandleMoves, OnlineTyped DEF CountsTyped, Typed, Parameter, Awaits
<1>i. \A o \in Handler \ {h} : \A kind, pc : Is(o, kind, pc)' <=> Is(o, kind, pc)
    BY <1>0, IsStays
<1>a. \A o \in Handler \ {h} : AtLast(o)' <=> AtLast(o)
    BY <1>i DEF AtLast
<1>w. \A o \in Handler \ {h} : work'[o] = work[o]
    BY <1>0 DEF Others
<1>1. CASE work[h].kind # "presence"
    <2>1. ~AtLast(h) /\ ~AtLast(h)'
          /\ \A pc \in {"minus", "plus", "hgetall"} : ~Is(h, "presence", pc) /\ ~Is(h, "presence", pc)'
        BY <1>0, <1>1 DEF AtLast, Is, Moved, Free
    <2> QED BY <1>0, <1>1, <2>1, NotOfPresences, OnlineReadStays
<1>2. CASE Unknown(h) /\ work[h].kind = "presence"
    <2>1. ~AtLast(h) /\ \A pc \in {"minus", "plus", "hgetall"} : ~Is(h, "presence", pc)
        BY <1>2 DEF AtLast, Is, Unknown
    <2>2. ~AtLast(h)' /\ \A pc \in {"minus", "plus", "hgetall"} : ~Is(h, "presence", pc)'
        BY <1>2, UnknownMoves DEF AtLast, Is, Ended
    <2>3. /\ UNCHANGED <<presenceKey, crossed, shown>>
          /\ \A x \in {"online", "last"} : x \in lost' <=> x \in lost
        <3>1. lost' = lost \cup {"role"} \/ lost' = lost
            BY <1>2, UnknownLoses
        <3> QED BY <1>2, <3>1 DEF Unknown
    <2> QED BY <1>0, <2>1, <2>2, <2>3, OnlineReadStays
<1>3. CASE PresenceFound(h)
    <2>1. Is(h, "presence", "minus")' \/ Is(h, "presence", "plus")'
        BY <1>3, PresenceFoundMoves DEF Issued, Is, Moved, PresenceFound
    <2> QED BY <2>1 DEF OnlineRead
<1>4. CASE PresenceMinus(h)
    <2>1. Is(h, "presence", "plus")'
        BY <1>4, PresenceMinusMoves DEF Issued, Is, Moved, PresenceMinus
    <2> QED BY <2>1 DEF OnlineRead
<1>5. CASE PresencePlus(h)
    <2>1. CASE "online" \in lost'
        BY <2>1 DEF OnlineRead
    <2>2. CASE "online" \notin lost'
        <3>1. Issue(h, "hgetall", Online) /\ Is(h, "presence", "plus") /\ UNCHANGED presenceKey
            BY <1>5, <2>2 DEF PresencePlus
        <3>2. work'[h].value = Online
            <4>1. work[h] \in PresenceWork
                BY <1>0, <3>1, WorkOfKind DEF CountsTyped, Is
            <4>2. work' = [work EXCEPT ![h].pc = "hgetall", ![h].value = Online]
                BY <3>1 DEF Issue
            <4> QED BY <4>1, <4>2 DEF CountsTyped, Doing, PresenceWork
        <3>3. Is(h, "presence", "hgetall")' /\ Last(h)
            BY <1>5, <3>1, PresencePlusMoves DEF Issued, Is, Moved
        <3>4. Newest(h, "presence", "hgetall")'
            BY <1>0, <3>3, NewestComes
        <3>5. Online' = Online
            BY <3>1, OnlineSame
        <3> QED BY <3>2, <3>4, <3>5 DEF OnlineRead
    <2> QED BY <2>1, <2>2
<1>6. ASSUME ~Is(h, "presence", "minus"), ~Is(h, "presence", "plus"), "online" \in lost' <=> "online" \in lost,
             \E o \in Handler : Is(o, "presence", "minus") \/ Is(o, "presence", "plus") \/ "online" \in lost
      PROVE  OnlineRead'
    BY <1>6, <1>i DEF OnlineRead
<1>7. CASE PresenceRead(h)
    <2>1. Moved(h) /\ work'[h].pc = "getlast" /\ work'[h].value = work[h].value
        BY <1>7, PresenceReadMoves
    <2>2. /\ Is(h, "presence", "hgetall") /\ Answered(h) /\ UNCHANGED <<presenceKey, shown, lost>>
          /\ crossed' = IF Publishing(h) THEN crossed \cup {"online"} ELSE crossed \ {"online"}
        BY <1>7 DEF PresenceRead, Answered
    <2>3. AtLast(h)' /\ ~Is(h, "presence", "hgetall")'
            /\ ~Is(h, "presence", "minus") /\ ~Is(h, "presence", "plus")
        BY <2>1, <2>2 DEF Is, Moved, AtLast
    <2>4. "online" \notin crossed' => \A o \in Handler \ {h} : ~AtLast(o)'
        <3>1. \A o \in Handler : AtLast(o) => work[o] # Free
            BY DEF AtLast, Is, Free
        <3> QED BY <1>a, <2>2, <3>1 DEF Publishing, Running, AtLast, Is
    <2>5. Online' = Online
        BY <2>2, OnlineSame
    <2>6. CASE \E o \in Handler : Newest(o, "presence", "hgetall") /\ work[o].value = Online
        <3>1. PICK o \in Handler : Newest(o, "presence", "hgetall") /\ work[o].value = Online
            BY <2>6
        <3>2. CASE o = h
            <4>1. \A p \in Handler \ {h} : ~Is(p, "presence", "hgetall")
                BY <1>0, <2>2, <3>1, <3>2, NewestGoes DEF CountsTyped
            <4>2. \A p \in Handler : ~Is(p, "presence", "hgetall")'
                BY <1>i, <2>3, <4>1
            <4>3. OnlineSettled'
                BY <2>1, <2>3, <2>4, <2>5, <3>1, <3>2 DEF OnlineSettled
            <4> QED BY <4>2, <4>3 DEF OnlineRead
        <3>3. CASE o # h
            <4>1. Newest(o, "presence", "hgetall")'
                BY <1>0, <2>3, <3>1, <3>3, NewestStays
            <4> QED BY <1>w, <2>5, <3>1, <3>3, <4>1 DEF OnlineRead
        <3> QED BY <3>2, <3>3
    <2> QED BY <1>6, <2>2, <2>3, <2>6 DEF OnlineRead
<1>8. ASSUME AtLast(h), UNCHANGED presenceKey, "online" \in lost' <=> "online" \in lost,
             ~Is(h, "presence", "hgetall")', OnlineSettled => OnlineSettled'
      PROVE  OnlineRead'
    <2>1. Online' = Online
        BY <1>8, OnlineSame
    <2>2. ~Is(h, "presence", "minus") /\ ~Is(h, "presence", "plus") /\ ~Is(h, "presence", "hgetall")
        BY <1>8 DEF AtLast, Is
    <2>3. CASE \E o \in Handler : Newest(o, "presence", "hgetall") /\ work[o].value = Online
        <3>1. PICK o \in Handler : Newest(o, "presence", "hgetall") /\ work[o].value = Online
            BY <2>3
        <3>2. o # h
            BY <2>2, <3>1 DEF Newest
        <3>3. Newest(o, "presence", "hgetall")'
            BY <1>0, <1>8, <3>1, <3>2, NewestStays
        <3> QED BY <1>w, <2>1, <3>1, <3>2, <3>3 DEF OnlineRead
    <2>4. CASE (\A o \in Handler : ~Is(o, "presence", "hgetall")) /\ OnlineSettled
        <3>1. \A o \in Handler : ~Is(o, "presence", "hgetall")'
            BY <1>8, <1>i, <2>4
        <3> QED BY <1>8, <2>4, <3>1 DEF OnlineRead
    <2> QED BY <1>6, <1>8, <2>2, <2>3, <2>4 DEF OnlineRead
<1>9. CASE PresenceLast(h)
    <2>0. AtLast(h) /\ Is(h, "presence", "getlast") /\ UNCHANGED <<presenceKey, shown>>
        BY <1>9 DEF PresenceLast, AtLast
    <2>1. "online" \in lost' <=> "online" \in lost
        BY <1>9 DEF PresenceLast
    <2>2. Online' = Online
        BY <2>0, OnlineSame
    <2>3. CASE work[h].event.last # work[h].value /\ Issued(h, "setlast", work[h].value)
        <3>1. AtLast(h)' /\ ~Is(h, "presence", "hgetall")' /\ work'[h].value = work[h].value
            BY <2>0, <2>3 DEF Issued, Is, Moved, AtLast
        <3>2. crossed' = crossed \ {"sync"}
            BY <1>9, <2>3 DEF PresenceLast
        <3>3. OnlineSettled => OnlineSettled'
            BY <1>a, <1>w, <2>0, <2>2, <3>1, <3>2 DEF OnlineSettled
        <3> QED BY <1>8, <2>0, <2>1, <3>1, <3>3
    <2>4. CASE work[h].event.last = work[h].value /\ Ended(h)
        <3>1. ~AtLast(h)' /\ ~Is(h, "presence", "hgetall")'
            BY <2>4 DEF Ended, Is, AtLast
        <3>2. UNCHANGED <<lastKey, lost, crossed>>
            BY <1>9, <2>4 DEF PresenceLast
        <3>3. ASSUME OnlineSettled, "online" \notin crossed
              PROVE  /\ \A o \in Handler : ~AtLast(o)'
                     /\ "last" \in lost \/ "sync" \in crossed \/ shown["onlineMembers"] = Online
            <4>1. \A o \in Handler \ {h} : ~AtLast(o)
                BY <2>0, <3>3 DEF LastInv, OneAtLast
            <4>2. \A o \in Handler : ~Is(o, "presence", "setlast")
                BY <2>0, <4>1 DEF AtLast, Is
            <4>3. work[h].value = Online
                BY <2>0, <3>3 DEF OnlineSettled
            <4>4. "sync" \in crossed \/ Online = lastKey
                BY <1>0, <2>0, <2>4, <3>3, <4>3 DEF LastInv, LastCompared, Unset
            <4>5. "last" \in lost \/ "sync" \in crossed \/ shown["onlineMembers"] = lastKey
                BY <4>2 DEF LastInv, LastPublished, Newest
            <4> QED BY <1>a, <3>1, <4>1, <4>4, <4>5
        <3>4. OnlineSettled => OnlineSettled'
            BY <2>0, <2>2, <3>2, <3>3 DEF OnlineSettled
        <3> QED BY <1>8, <2>0, <2>1, <3>1, <3>4
    <2> QED BY <1>9, <2>3, <2>4, PresenceLastMoves
<1>10. CASE PresenceSet(h)
    <2>1. /\ Is(h, "presence", "setlast") /\ AtLast(h) /\ UNCHANGED <<presenceKey, lost, crossed>>
          /\ shown'["onlineMembers"] = work[h].value
        BY <1>0, <1>10 DEF PresenceSet, Publish, AtLast
    <2>2. ~AtLast(h)' /\ ~Is(h, "presence", "hgetall")'
        BY <1>10, PresenceSetMoves DEF AtLast, Is, Ended
    <2>3. Online' = Online
        BY <2>1, OnlineSame
    <2>4. OnlineSettled => OnlineSettled'
        <3> SUFFICES ASSUME OnlineSettled, "online" \notin crossed
                     PROVE  (\A o \in Handler : ~AtLast(o)') /\ shown'["onlineMembers"] = Online'
            BY <2>1 DEF OnlineSettled
        <3>1. \A o \in Handler \ {h} : ~AtLast(o)
            BY <2>1 DEF LastInv, OneAtLast
        <3>2. work[h].value = Online
            BY <2>1 DEF OnlineSettled
        <3> QED BY <1>a, <2>1, <2>2, <2>3, <3>1, <3>2
    <2> QED BY <1>8, <2>1, <2>2, <2>4
<1> QED BY <1>1, <1>2, <1>3, <1>4, <1>5, <1>7, <1>9, <1>10, HandlerOfKind

OnlineInv == LastInv /\ OnlineRead

LEMMA OnlineStill ==
    ASSUME OnlineInv, UNCHANGED <<work, wire, presenceKey>>,
           \A x \in {"online", "last"} : x \in lost' <=> x \in lost,
           "online" \in crossed' <=> "online" \in crossed,
           \/ "sync" \in crossed'
           \/ /\ UNCHANGED <<lastKey, crossed>>
              /\ shown'["onlineMembers"] = shown["onlineMembers"]
    PROVE  OnlineInv'
<1>1. Online' = Online
    BY OnlineSame
<1>2. /\ \A h : \A kind, pc : Is(h, kind, pc)' <=> Is(h, kind, pc)
      /\ \A h : \A kind, pc : Newest(h, kind, pc)' <=> Newest(h, kind, pc)
      /\ \A h : AtLast(h)' <=> AtLast(h)
    BY DEF Newest, Is, AtLast
<1>3. OneAtLast'
    BY <1>2 DEF OnlineInv, LastInv, OneAtLast
<1>4. LastCompared'
    BY <1>2 DEF OnlineInv, LastInv, LastCompared
<1>5. LastPublished'
    BY <1>2 DEF OnlineInv, LastInv, LastPublished
<1>6. OnlineSettled => OnlineSettled'
    BY <1>1, <1>2 DEF OnlineSettled
<1>7. OnlineRead'
    BY <1>1, <1>2, <1>6 DEF OnlineInv, OnlineRead
<1> QED BY <1>3, <1>4, <1>5, <1>7 DEF OnlineInv, LastInv

LEMMA OnlineChange ==
    ASSUME CountsTyped, OnlineInv, DiscordChanges
    PROVE  OnlineInv'
<1> USE DEF keys, history
<1>1. UNCHANGED <<presenceKey, lastKey, crossed, shown>>
    BY DEF DiscordChanges, MemberChange, VoiceChange, PresenceChange, RoleChange, Start
<1>2. PICK e : Comes(e)
    BY ChangesStart DEF DiscordChanges
<1>3. CASE \E h \in Handler : Begun(h) /\ UNCHANGED lost
    <2>1. PICK h \in Handler : Begun(h) /\ UNCHANGED lost
        BY <1>3
    <2>2. /\ Others(h) /\ Ordered(h) /\ ~AtLast(h) /\ ~AtLast(h)'
          /\ \A pc \in {"minus", "plus", "hgetall"} : ~Is(h, "presence", pc) /\ ~Is(h, "presence", pc)'
        BY <2>1 DEF Begun, Ordered, AtLast, Is, Free
    <2>3. LastInv'
        BY <1>1, <2>1, <2>2, LastStays DEF OnlineInv
    <2>4. OnlineRead'
        BY <1>1, <2>1, <2>2, OnlineReadStays DEF OnlineInv
    <2> QED BY <2>3, <2>4 DEF OnlineInv
<1>4. CASE Missing
    BY <1>1, <1>4, OnlineStill DEF Missing
<1> QED BY <1>2, <1>3, <1>4, ComesOrNot

LEMMA OnlineEnd ==
    ASSUME CountsTyped, OnlineInv, ProcessEnds
    PROVE  OnlineInv'
<1>1. \A h \in Handler : work'[h] = Free
    BY EndStops
<1>2. /\ UNCHANGED <<presenceKey, lastKey, shown, crossed>>
      /\ lost \subseteq lost' /\ \A h \in Handler : Owes(h) \subseteq lost'
    BY DEF ProcessEnds, keys
<1>3. \A h \in Handler : /\ \A pc \in {"minus", "plus", "hgetall", "setlast", "getlast"} :
                                ~Is(h, "presence", pc)'
                        /\ ~AtLast(h)'
    BY <1>1 DEF Is, Free, AtLast
<1>4. Online' = Online
    BY <1>2, OnlineSame
<1>5. LastPublished'
    <2>1. CASE \E h \in Handler : Is(h, "presence", "setlast")
        <3>1. "last" \in lost'
            BY <1>2, <2>1 DEF Owes, Within, Is
        <3> QED BY <3>1 DEF LastPublished
    <2>2. CASE \A h \in Handler : ~Is(h, "presence", "setlast")
        BY <1>2, <1>3, <2>2 DEF OnlineInv, LastInv, LastPublished, Newest
    <2> QED BY <2>1, <2>2
<1>6. LastInv'
    BY <1>3, <1>5 DEF LastInv, OneAtLast, LastCompared
<1>7. OnlineRead'
    <2>1. CASE \E h \in Handler : \E pc \in {"minus", "plus", "hgetall", "setlast", "getlast"} :
                  Is(h, "presence", pc)
        <3>1. "online" \in lost'
            BY <1>2, <2>1 DEF Owes, Within, Is, Pc
        <3> QED BY <3>1 DEF OnlineRead
    <2>2. CASE \A h \in Handler : \A pc \in {"minus", "plus", "hgetall", "setlast", "getlast"} :
                  ~Is(h, "presence", pc)
        <3>1. \A h \in Handler : ~AtLast(h)
            BY <2>2 DEF AtLast
        <3>2. "online" \in lost \/ OnlineSettled
            BY <2>2 DEF OnlineInv, OnlineRead, Newest
        <3>3. OnlineSettled => OnlineSettled'
            BY <1>2, <1>3, <1>4, <3>1 DEF OnlineSettled
        <3> QED BY <1>2, <1>3, <3>2, <3>3 DEF OnlineRead
    <2> QED BY <2>1, <2>2
<1> QED BY <1>6, <1>7 DEF OnlineInv

LEMMA OnlineInit == CountsInit => OnlineInv
<1> SUFFICES ASSUME CountsInit PROVE OnlineInv
    OBVIOUS
<1>1. \A h \in Handler : \A kind : \A pc \in {"minus", "plus", "hgetall", "getlast", "setlast"} :
         ~Is(h, kind, pc)
    BY DEF CountsInit, Is, Free
<1>2. \A h \in Handler : ~AtLast(h)
    BY <1>1 DEF AtLast
<1>3. shown["onlineMembers"] = Unset /\ lastKey = Unset
    BY DEF CountsInit, Parameter
<1>4. LastInv
    BY <1>1, <1>2, <1>3 DEF LastInv, OneAtLast, LastCompared, LastPublished
<1>5. OnlineRead
    BY <1>1, <1>2, <1>3 DEF OnlineRead, OnlineSettled
<1> QED BY <1>4, <1>5 DEF OnlineInv

LEMMA OnlineStep == CountsTyped /\ OnlineInv /\ [CountsNext]_countsVars => OnlineInv'
<1> SUFFICES ASSUME CountsTyped, OnlineInv, [CountsNext]_countsVars PROVE OnlineInv'
    OBVIOUS
<1> USE DEF env, discord, keys, history
<1>1. ASSUME NEW h \in Handler, Handle(h) PROVE OnlineInv'
    BY <1>1, LastHandle, OnlineReadHandle DEF OnlineInv
<1>2. CASE DiscordChanges
    BY <1>2, OnlineChange
<1>3. CASE Onboard \/ FetchRole
    BY <1>3, OnlineStill DEF Onboard, FetchRole
<1>4. CASE FetchedRole
    <2>1. \A x \in {"online", "last"} : x \in lost' <=> x \in lost
        BY <1>4 DEF FetchedRole
    <2> QED BY <1>4, <2>1, OnlineStill DEF FetchedRole
<1>5. ASSUME NEW n \in {0, 1}, GuildSync(n) PROVE OnlineInv'
    <2>1. lost' = lost \cup {"row"} /\ crossed' = crossed \cup {"sync"}
        BY <1>5 DEF GuildSync
    <2> QED BY <1>5, <2>1, OnlineStill DEF GuildSync
<1>6. CASE UNCHANGED countsVars
    BY <1>6, OnlineStill DEF countsVars
<1>7. CASE ProcessEnds
    BY <1>7, OnlineEnd
<1>8. CASE ProcessStarts
    BY <1>8, OnlineStill DEF ProcessStarts
<1> QED BY <1>1, <1>2, <1>3, <1>4, <1>5, <1>6, <1>7, <1>8 DEF CountsNext

LEMMA OnlineWhenQuiet == OnlineInv => OnlineShown
<1> SUFFICES ASSUME OnlineInv, Quiet PROVE OnlineShown
    BY DEF OnlineShown
<1>1. \A h \in Handler : ~AtLast(h) /\ \A pc \in {"minus", "plus", "hgetall"} : ~Is(h, "presence", pc)
    BY DEF Quiet, Is, Free, AtLast
<1> QED BY <1>1 DEF OnlineInv, OnlineRead, OnlineSettled, OnlineShown, Newest

-------------------------------------------------------------------------------
(* The role's field.                                                       *)

NotOfRoles ==
    UNCHANGED <<roleKey, holder, served>> /\ ("role" \in lost' <=> "role" \in lost)

LEMMA OthersNotOfRoles ==
    ASSUME CountsTyped, NEW h \in Handler, Handle(h), work[h].kind \in {"voice", "presence"}
    PROVE  NotOfRoles
<1> USE DEF env, discord, keys, history, others, rest, NotOfRoles
<1>1. CASE Unknown(h)
    <2>1. Due(h) = 0
        BY <1>1 DEF Unknown, Due, Is
    <2> QED BY <1>1, <2>1, UnknownLoses DEF Unknown
<1>2. CASE VoiceFound(h)
    BY <1>2 DEF VoiceFound
<1>3. CASE VoiceDecr(h)
    BY <1>3 DEF VoiceDecr, ReadVoice
<1>4. CASE VoiceIncr(h)
    BY <1>4 DEF VoiceIncr, ReadVoice
<1>5. CASE VoiceGet(h)
    BY <1>5 DEF VoiceGet
<1>6. CASE PresenceFound(h)
    BY <1>6 DEF PresenceFound
<1>7. CASE PresenceMinus(h)
    BY <1>7 DEF PresenceMinus
<1>8. CASE PresencePlus(h)
    BY <1>8 DEF PresencePlus
<1>9. CASE PresenceRead(h)
    BY <1>9 DEF PresenceRead
<1>10. CASE PresenceLast(h)
    BY <1>10 DEF PresenceLast
<1>11. CASE PresenceSet(h)
    BY <1>11 DEF PresenceSet
<1> QED BY HandlerOfKind, <1>1, <1>2, <1>3, <1>4, <1>5, <1>6, <1>7, <1>8, <1>9, <1>10, <1>11

Dues == [h \in Handler |-> Due(h)]

LEMMA DueTyped ==
    Doing => Dues \in [Handler -> {-1, 0, 1}] /\ \A h \in Handler : Dues[h] = Due(h)
<1> SUFFICES ASSUME Doing, NEW h \in Handler PROVE Due(h) \in {-1, 0, 1}
    BY DEF Dues
<1>1. CASE Is(h, "role", "find")
    <2>1. work[h] \in RoleWork
        BY <1>1, FreeIsIdle, WorkOfKind DEF Is
    <2> QED BY <1>1, <2>1 DEF Due, RoleWork, RoleEvent
<1>2. CASE work[h] # Free /\ work[h].kind = "member"
    <2>1. work[h] \in MemberWork
        BY <1>2, WorkOfKind
    <2>2. work[h].event.by \in {-1, 1}
        BY <2>1 DEF MemberWork, MemberEvent
    <2> QED BY <2>2 DEF Due
<1>3. CASE ~Is(h, "role", "find") /\ ~(work[h] # Free /\ work[h].kind = "member")
    BY <1>3 DEF Due
<1> QED BY <1>1, <1>2, <1>3

LEMMA DueTypedNext ==
    Doing' => (Dues \in [Handler -> {-1, 0, 1}] /\ \A h \in Handler : Dues[h] = Due(h))'
BY DueTyped, PTL

LEMMA DueChanges ==
    ASSUME Doing, Doing', NEW h \in Handler, Others(h)
    PROVE  /\ AllDue \in Int /\ Due(h) \in Int /\ Due(h)' \in Int
           /\ AllDue' = AllDue - Due(h) + Due(h)'
<1>1. Dues \in [Handler -> {-1, 0, 1}] /\ \A o \in Handler : Dues[o] = Due(o)
    BY DueTyped
<1>2. Dues' \in [Handler -> {-1, 0, 1}] /\ \A o \in Handler : Dues'[o] = Due(o)'
    BY DueTypedNext
<1>3. \A o \in Handler \ {h} : Due(o)' = Due(o)
    BY DEF Due, Others, Is
<1>4. \A o \in Handler \ {h} : Dues'[o] = Dues[o]
    BY <1>1, <1>2, <1>3
<1>5. Total(Dues) \in Int /\ Total(Dues') = Total(Dues) - Dues[h] + Dues'[h]
    BY <1>1, <1>2, <1>4, TotalChanges
<1>6. AllDue = Total(Dues) /\ AllDue' = Total(Dues')
    BY DEF AllDue, Dues, Total
<1>7. Due(h) \in Int /\ Due(h)' \in Int
    BY <1>1, <1>2
<1> QED BY <1>1, <1>2, <1>5, <1>6, <1>7

LEMMA RoleCountsMoves ==
    ASSUME Typed, Typed', Doing, Doing', RoleCounts, NEW h \in Handler, Others(h), served' = served,
           roleKey'["twice"] # Unset /\ "role" \notin lost' /\ served = "custom" =>
              /\ roleKey["twice"] # Unset /\ "role" \notin lost
              /\ roleKey'["twice"] + Due(h)' - Size(holder') = roleKey["twice"] + Due(h) - Size(holder)
    PROVE  RoleCounts'
<1> SUFFICES ASSUME served = "custom", roleKey'["twice"] # Unset, "role" \notin lost'
             PROVE  roleKey'["twice"] + AllDue' = Size(holder)'
    BY DEF RoleCounts
<1>1. /\ AllDue \in Int /\ Due(h) \in Int /\ Due(h)' \in Int
      /\ AllDue' = AllDue - Due(h) + Due(h)'
    BY DueChanges
<1>2. roleKey["twice"] \in Int /\ roleKey'["twice"] \in Int
    BY DEF Typed
<1>3. Size(holder) \in Int /\ Size(holder') \in Int
    <2>1. holder \in SUBSET User /\ holder' \in SUBSET User
        BY DEF Typed
    <2> QED BY <2>1, FiniteSizes
<1>4. roleKey["twice"] + AllDue = Size(holder)
    BY DEF RoleCounts
<1>5. roleKey'["twice"] + Due(h)' - Size(holder') = roleKey["twice"] + Due(h) - Size(holder)
    OBVIOUS
<1>6. AllDue' \in Int
    BY <1>1
<1>7. roleKey'["twice"] + AllDue' = Size(holder')
    BY <1>1, <1>2, <1>3, <1>4, <1>5, <1>6
<1>8. Size(holder)' = Size(holder')
    BY DEF Size
<1> QED BY <1>7, <1>8

LEMMA RoleCountsHandle ==
    ASSUME CountsTyped, RoleCounts, NEW h \in Handler, Handle(h)
    PROVE  RoleCounts'
<1> USE DEF env, discord, keys, history
<1>0. /\ Typed /\ Typed' /\ Doing /\ Doing' /\ Others(h)
      /\ work[h] # Free /\ (work'[h] = Free \/ Moved(h))
    BY HandleMoves, HandleTyped DEF CountsTyped
<1>n. /\ roleKey["twice"] \in Int /\ Size(holder) \in Int /\ Due(h) \in Int /\ Due(h)' \in Int
      /\ roleKey \in [{"once", "twice"} -> Int] /\ served \in {"shard", "custom"}
    <2>1. holder \in SUBSET User
        BY <1>0 DEF Typed
    <2> QED BY <1>0, <2>1, FiniteSizes, DueChanges DEF Typed
<1>f. work'[h] = Free => Due(h)' = 0
    BY DEF Due, Is, Free
<1>s. ASSUME NotOfRoles, Due(h)' = Due(h) PROVE RoleCounts'
    BY <1>0, <1>n, <1>s, RoleCountsMoves DEF NotOfRoles
<1>1. CASE work[h].kind \in {"voice", "presence"}
    <2>1. Due(h) = 0 /\ Due(h)' = 0
        BY <1>0, <1>1, <1>f DEF Due, Is, Moved
    <2> QED BY <1>1, <1>s, <2>1, OthersNotOfRoles
<1>2. CASE Unknown(h)
    <2>1. Due(h)' = 0
        BY <1>2, <1>f, UnknownMoves DEF Ended
    <2>2. UNCHANGED <<roleKey, holder, served>> /\ ("role" \notin lost' => "role" \notin lost /\ Due(h) = 0)
        BY <1>2, UnknownLoses DEF Unknown
    <2> QED BY <1>0, <1>n, <2>1, <2>2, RoleCountsMoves
<1>3. CASE MemberFound(h)
    <2>1. NotOfRoles
        BY <1>3 DEF MemberFound, NotOfRoles
    <2>2. Due(h)' = Due(h)
        BY <1>0, <1>3, MemberFoundMoves DEF Issued, Moved, Due, Is, MemberFound
    <2> QED BY <1>s, <2>1, <2>2
<1>4. CASE MemberSet(h)
    <2>1. NotOfRoles
        BY <1>4 DEF MemberSet, NotOfRoles
    <2>2. Due(h)' = Due(h)
        BY <1>0, <1>4, MemberSetMoves DEF Went, Moved, Due, Is, MemberSet
    <2> QED BY <1>s, <2>1, <2>2
<1>5. CASE MemberUpdate(h)
    <2>1. NotOfRoles
        BY <1>5 DEF MemberUpdate, NotOfRoles
    <2>2. Due(h)' = Due(h)
        BY <1>0, <1>5, MemberUpdateMoves DEF Went, Moved, Due, Is, MemberUpdate
    <2> QED BY <1>s, <2>1, <2>2
<1>6. CASE MemberUpdated(h)
    <2>1. NotOfRoles
        BY <1>6 DEF MemberUpdated, PublishMembers, NotOfRoles
    <2>2. Due(h)' = Due(h)
        BY <1>0, <1>6, MemberUpdatedMoves DEF Went, Moved, Due, Is, MemberUpdated
    <2> QED BY <1>s, <2>1, <2>2
<1>7. ASSUME CountRole(h), Due(h) = work[h].event.by, Due(h)' = 0, UNCHANGED <<holder, served>>
      PROVE  RoleCounts'
    <2>1. served = "custom" /\ roleKey'["twice"] # Unset /\ "role" \notin lost' =>
             /\ roleKey["twice"] # Unset /\ "role" \notin lost
             /\ roleKey'["twice"] = roleKey["twice"] + work[h].event.by
        <3> SUFFICES ASSUME served = "custom", "role" \notin lost'
                     PROVE  /\ roleKey["twice"] # Unset /\ "role" \notin lost
                            /\ roleKey'["twice"] = roleKey["twice"] + work[h].event.by
            OBVIOUS
        <3>1. Spelling = "twice"
            BY DEF Spelling
        <3>2. /\ roleKey' = [roleKey EXCEPT !["twice"] = (IF @ = Unset THEN 0 ELSE @) + work[h].event.by]
              /\ lost' = IF roleKey["twice"] = Unset THEN lost \cup {"role"} ELSE lost
            BY <1>7, <3>1 DEF CountRole
        <3> QED BY <1>n, <3>2
    <2> QED BY <1>0, <1>n, <1>7, <2>1, RoleCountsMoves
<1>8. CASE MemberJobs(h)
    <2>1. CASE work[h].event.roles /\ Issued(h, "role", work[h].value)
        <3>1. CountRole(h) /\ UNCHANGED <<holder, served>>
            BY <1>8, <2>1 DEF MemberJobs
        <3>2. Due(h) = work[h].event.by
            BY <1>0, <1>8, <2>1 DEF Due, Is, MemberJobs
        <3>3. Due(h)' = 0
            BY <2>1 DEF Due, Is, Issued
        <3> QED BY <1>7, <3>1, <3>2, <3>3
    <2>2. CASE ~work[h].event.roles /\ Ended(h)
        <3>1. NotOfRoles
            BY <1>8, <2>2 DEF MemberJobs, PublishMembers, NotOfRoles
        <3>2. Due(h) = 0 /\ Due(h)' = 0
            BY <1>8, <1>f, <2>2 DEF Due, Is, MemberJobs, Ended
        <3> QED BY <1>s, <3>1, <3>2
    <2> QED BY <1>8, <2>1, <2>2, MemberJobsMoves
<1>9. CASE MemberRole(h) \/ MemberRest(h) \/ RoleCounted(h)
    <2>1. NotOfRoles
        BY <1>9 DEF MemberRole, MemberRest, RoleCounted, PublishMembers, NotOfRoles
    <2>2. Due(h) = 0
        BY <1>9 DEF MemberRole, MemberRest, RoleCounted, Due, Is
    <2>3. Due(h)' = 0
        BY <1>9, <1>f, MemberRoleMoves, MemberRestMoves, RoleCountedMoves DEF Due, Is, Went, Ended
    <2> QED BY <1>s, <2>1, <2>2, <2>3
<1>10. CASE JobsFail(h)
    <2>1. Due(h)' = 0
        BY <1>10, <1>f, JobsFailMoves DEF Ended
    <2>2. UNCHANGED <<roleKey, holder, served>> /\ ("role" \notin lost' => "role" \notin lost /\ Due(h) = 0)
        BY <1>10, JobsFailLoses DEF JobsFail
    <2> QED BY <1>0, <1>n, <2>1, <2>2, RoleCountsMoves
<1>11. CASE RoleFound(h)
    <2>1. CountRole(h) /\ UNCHANGED <<holder, served>> /\ Due(h) = work[h].event.by
        BY <1>11 DEF RoleFound, Due
    <2>2. Due(h)' = 0
        BY <1>11, RoleFoundMoves DEF Due, Is, Issued, Moved, RoleFound
    <2> QED BY <1>7, <2>1, <2>2
<1> QED BY <1>1, <1>2, <1>3, <1>4, <1>5, <1>6, <1>8, <1>9, <1>10, <1>11, HandlerOfKind

\* What an event changes in the number of the role's holders.
RoleGain(e) == IF e.kind = "role" \/ (e.kind = "member" /\ e.roles) THEN e.by ELSE 0

LEMMA RoleCountsBegin ==
    ASSUME Typed, Typed', Doing, Doing', RoleCounts, NEW h \in Handler, NEW e, Started(h, e),
           UNCHANGED <<roleKey, served>>, Size(holder') = Size(holder) + RoleGain(e),
           RoleGain(e) \in Int
    PROVE  RoleCounts'
<1>1. /\ UNCHANGED lost /\ Others(h) /\ work'[h] # Free
      /\ work[h] = Free /\ work'[h].pc = "find" /\ work'[h].kind = e.kind /\ work'[h].event = e
    BY DEF Started
<1>2. Due(h) = 0 /\ Due(h)' = RoleGain(e)
    BY <1>1 DEF Due, RoleGain, Is, Free
<1>3. holder \in SUBSET User
    BY DEF Typed
<1>4. Size(holder) \in Int /\ roleKey["twice"] \in Int
    BY <1>3, FiniteSizes DEF Typed
<1>5. roleKey'["twice"] + Due(h)' - Size(holder') = roleKey["twice"] + Due(h) - Size(holder)
    BY <1>2, <1>4
<1> QED BY <1>1, <1>5, RoleCountsMoves

LEMMA RoleCountsMiss ==
    ASSUME Typed, RoleCounts, NEW e, Unheard(e), UNCHANGED <<roleKey, served>>,
           Size(holder') = Size(holder) + RoleGain(e)
    PROVE  RoleCounts'
<1>1. UNCHANGED work /\ lost' = lost \cup Untold(e)
    BY DEF Unheard, Uncounted
<1>2. CASE e.kind = "role" \/ (e.kind = "member" /\ e.roles)
    <2>1. "role" \in lost'
        BY <1>1, <1>2 DEF Untold
    <2> QED BY <2>1 DEF RoleCounts
<1>3. CASE ~(e.kind = "role" \/ (e.kind = "member" /\ e.roles))
    <2>1. RoleGain(e) = 0 /\ lost \subseteq lost'
        BY <1>1, <1>3 DEF RoleGain
    <2>2. Dues' = Dues
        BY <1>1 DEF Dues, Due, Is
    <2>3. AllDue' = AllDue
        BY <2>2 DEF AllDue, Dues, Total
    <2>4. holder \in SUBSET User
        BY DEF Typed
    <2>5. Size(holder)' = Size(holder)
        BY <2>1, <2>4, FiniteSizes DEF Size
    <2> QED BY <2>1, <2>3, <2>5 DEF RoleCounts
<1> QED BY <1>2, <1>3

LEMMA RoleCountsChange ==
    ASSUME CountsTyped, RoleCounts, DiscordChanges
    PROVE  RoleCounts'
<1> USE DEF keys, history
<1>1. Typed /\ Typed' /\ Doing /\ Doing' /\ UNCHANGED <<roleKey, served>>
    <2>1. Typed /\ Typed' /\ Doing /\ Doing'
        BY ChangeTyped DEF DiscordChanges, CountsTyped
    <2>2. UNCHANGED <<roleKey, served>>
        BY DEF DiscordChanges, MemberChange, VoiceChange, PresenceChange, RoleChange, Start
    <2> QED BY <2>1, <2>2
<1>2. /\ holder \in SUBSET User /\ Size(holder) \in Int
      /\ \A u \in User : /\ Size(holder \cup {u}) = Size(holder) + 1 - One(u \in holder)
                         /\ Size(holder \ {u}) = Size(holder) - One(u \in holder)
    <2>1. holder \in SUBSET User
        BY <1>1 DEF Typed
    <2>2. ASSUME NEW u \in User
          PROVE  /\ Size(holder \cup {u}) = Size(holder) + 1 - One(u \in holder)
                 /\ Size(holder \ {u}) = Size(holder) - One(u \in holder)
        BY <2>1, SizeChanges
    <2> QED BY <2>1, <2>2, FiniteSizes
<1>3. PICK e : Comes(e) /\ Size(holder') = Size(holder) + RoleGain(e) /\ RoleGain(e) \in {-1, 0, 1}
    <2>0. ASSUME NEW e, e.kind \in {"voice", "presence"}, holder' = holder
          PROVE  Size(holder') = Size(holder) + RoleGain(e) /\ RoleGain(e) \in {-1, 0, 1}
        BY <1>2, <2>0 DEF RoleGain
    <2>1. ASSUME NEW u \in User, MemberChange(u)
          PROVE  /\ Comes(MemberEventOf(u)) /\ RoleGain(MemberEventOf(u)) \in {-1, 0, 1}
                 /\ Size(holder') = Size(holder) + RoleGain(MemberEventOf(u))
        <3>1. RoleGain(MemberEventOf(u)) = IF u \in holder THEN (IF u \in present THEN -1 ELSE 1) ELSE 0
            BY DEF MemberEventOf, RoleGain
        <3>2. holder' = holder \ {u} /\ (u \in holder => u \in present)
            BY <1>1, <2>1 DEF MemberChange, Typed
        <3>3. Size(holder') = Size(holder) + RoleGain(MemberEventOf(u))
            <4>1. CASE u \in holder
                BY <1>2, <3>1, <3>2, <4>1 DEF One
            <4>2. CASE u \notin holder
                <5>1. holder' = holder
                    BY <3>2, <4>2
                <5> QED BY <1>2, <3>1, <4>2, <5>1
            <4> QED BY <4>1, <4>2
        <3> QED BY <2>1, <3>1, <3>3, ChangesStart
    <2>2. ASSUME NEW u \in User, NEW in \in BOOLEAN, VoiceChange(u, in)
          PROVE  \E e : Comes(e) /\ e.kind \in {"voice", "presence"} /\ holder' = holder
        <3>1. VoiceEventOf(u, in).kind = "voice" /\ holder' = holder
            BY <2>2 DEF VoiceEventOf, VoiceChange
        <3> QED BY <2>2, <3>1, ChangesStart
    <2>3. ASSUME NEW u \in User, NEW s \in Status, PresenceChange(u, s)
          PROVE  \E e : Comes(e) /\ e.kind \in {"voice", "presence"} /\ holder' = holder
        <3>1. PresenceEventOf(u, s).kind = "presence" /\ holder' = holder
            BY <2>3 DEF PresenceEventOf, PresenceChange
        <3> QED BY <2>3, <3>1, ChangesStart
    <2>4. ASSUME NEW u \in User, RoleChange(u)
          PROVE  /\ Comes(RoleEventOf(u)) /\ RoleGain(RoleEventOf(u)) \in {-1, 0, 1}
                 /\ Size(holder') = Size(holder) + RoleGain(RoleEventOf(u))
        <3>1. RoleGain(RoleEventOf(u)) = IF u \in holder THEN -1 ELSE 1
            BY DEF RoleEventOf, RoleGain
        <3>2. holder' = IF u \in holder THEN holder \ {u} ELSE holder \cup {u}
            BY <2>4 DEF RoleChange
        <3>3. Size(holder') = Size(holder) + RoleGain(RoleEventOf(u))
            BY <1>2, <3>1, <3>2 DEF One
        <3> QED BY <2>4, <3>1, <3>3, ChangesStart
    <2> QED BY <2>0, <2>1, <2>2, <2>3, <2>4 DEF DiscordChanges
<1>4. CASE \E h \in Handler : Started(h, e)
    BY <1>1, <1>3, <1>4, RoleCountsBegin
<1>5. CASE Unheard(e)
    BY <1>1, <1>3, <1>5, RoleCountsMiss
<1> QED BY <1>3, <1>4, <1>5 DEF Comes

LEMMA RoleCountsEnd ==
    ASSUME CountsTyped, RoleCounts, ProcessEnds
    PROVE  RoleCounts'
<1>1. \A h \in Handler : work'[h] = Free
    BY EndStops
<1>2. /\ UNCHANGED <<roleKey, holder, served>>
      /\ lost \subseteq lost' /\ \A h \in Handler : Owes(h) \subseteq lost'
    BY DEF ProcessEnds, keys
<1>3. CASE \E h \in Handler : Due(h) # 0
    <2>1. "role" \in lost'
        BY <1>2, <1>3 DEF Owes
    <2> QED BY <2>1 DEF RoleCounts
<1>4. CASE \A h \in Handler : Due(h) = 0
    <2>1. AllDue = 0
        BY <1>4, TotalNone DEF AllDue
    <2>2. \A h \in Handler : Dues'[h] = 0
        BY <1>1 DEF Dues, Due, Is, Free
    <2>3. Total(Dues') = 0
        BY <2>2, TotalNone
    <2>4. AllDue' = 0
        BY <2>3 DEF AllDue, Dues, Total
    <2> QED BY <1>2, <2>1, <2>4 DEF RoleCounts, Size
<1> QED BY <1>3, <1>4

LEMMA RoleCountsStill ==
    ASSUME RoleCounts, UNCHANGED <<work, roleKey, holder, served>>, "role" \in lost' <=> "role" \in lost
    PROVE  RoleCounts'
<1>1. Dues' = Dues
    BY DEF Dues, Due, Is
<1>2. AllDue' = AllDue
    BY <1>1 DEF AllDue, Dues, Total
<1> QED BY <1>2 DEF RoleCounts, Size

LEMMA RoleCountsInit == CountsInit => RoleCounts
BY DEF CountsInit, RoleCounts

LEMMA RoleCountsStep == CountsTyped /\ RoleCounts /\ [CountsNext]_countsVars => RoleCounts'
<1> SUFFICES ASSUME CountsTyped, RoleCounts, [CountsNext]_countsVars PROVE RoleCounts'
    OBVIOUS
<1> USE DEF env, discord, keys, history
<1>1. ASSUME NEW h \in Handler, Handle(h) PROVE RoleCounts'
    BY <1>1, RoleCountsHandle
<1>2. CASE DiscordChanges
    BY <1>2, RoleCountsChange
<1>3. CASE Onboard \/ FetchRole
    BY <1>3, RoleCountsStill DEF Onboard, FetchRole
<1>4. CASE FetchedRole
    <2>1. CASE fetch > 0
        <3>1. /\ UNCHANGED <<work, holder, served>> /\ roleKey' = [roleKey EXCEPT !["twice"] = fetch]
              /\ "role" \notin lost' => fetch + AllDue = Size(holder)
            BY <1>4, <2>1 DEF FetchedRole
        <3>2. Dues' = Dues
            BY <3>1 DEF Dues, Due, Is
        <3>3. AllDue' = AllDue /\ Size(holder)' = Size(holder)
            BY <3>1, <3>2 DEF AllDue, Dues, Total, Size
        <3>4. roleKey'["twice"] = fetch
            BY <3>1 DEF CountsTyped, Typed
        <3> QED BY <3>1, <3>3, <3>4 DEF RoleCounts
    <2>2. CASE ~(fetch > 0)
        BY <1>4, <2>2, RoleCountsStill DEF FetchedRole
    <2> QED BY <2>1, <2>2
<1>5. ASSUME NEW n \in {0, 1}, GuildSync(n) PROVE RoleCounts'
    <2>1. lost' = lost \cup {"row"}
        BY <1>5 DEF GuildSync
    <2> QED BY <1>5, <2>1, RoleCountsStill DEF GuildSync
<1>6. CASE UNCHANGED countsVars
    BY <1>6, RoleCountsStill DEF countsVars
<1>7. CASE ProcessEnds
    BY <1>7, RoleCountsEnd
<1>8. CASE ProcessStarts
    BY <1>8, RoleCountsStill DEF ProcessStarts
<1> QED BY <1>1, <1>2, <1>3, <1>4, <1>5, <1>6, <1>7, <1>8 DEF CountsNext

-------------------------------------------------------------------------------
(* The inductive invariant, and what it gives.                             *)

CountsInv == CountsTyped /\ MembersInv /\ VoicesInv /\ PresenceSum /\ OnlineInv /\ RoleCounts

\* The inductive invariant: no step of a handler, of Discord, of the consumer or of a
\* guild sync takes the keys, what is due and what nobody counted away from Discord's
\* numbers, nor what is on the wire from the number a key has.
THEOREM CountsInvariant == CountsSpec => []CountsInv
<1>1. CountsInit => CountsInv
    BY CountsTypedInit, MembersInit, VoicesInit, PresenceSumInit, OnlineInit, RoleCountsInit
       DEF CountsInv
<1>2. CountsInv /\ [CountsNext]_countsVars => CountsInv'
    BY CountsTypedStep, MembersStep, VoicesStep, PresenceSumStep, OnlineStep, RoleCountsStep
       DEF CountsInv
<1> QED BY <1>1, <1>2, PTL DEF CountsSpec

\* The handlers, the keys and the wire have their types in every state.
THEOREM CountsTypeCorrect == CountsSpec => []CountsTypeOK
<1>1. CountsInv => CountsTypeOK
    BY CountsTypedGivesType DEF CountsInv
<1> QED BY <1>1, CountsInvariant, PTL

\* Whenever no handler is running, each key is what Discord has less what no handler
\* counted: the voices and each status exactly, the members as the last one that
\* read them; and the role's field, at any time, is its holders less what is due.
THEOREM CountsAreKept == CountsSpec => []Kept
<1>1. CountsInv => Kept
    BY CountsTypedGivesType, MembersWhenQuiet, VoicesWhenQuiet, PresenceWhenQuiet DEF CountsInv,
       Kept
<1> QED BY <1>1, CountsInvariant, PTL

\* Whenever no handler is running, the clients show what the keys hold, for voices
\* however the handlers overlapped, and for members and presences unless they
\* overlapped where they compare and publish.
THEOREM CountsAreTold == CountsSpec => []Told
<1>1. CountsInv => Told
    BY MembersWhenQuiet, VoicesWhenQuiet, OnlineWhenQuiet DEF CountsInv, Told
<1> QED BY <1>1, CountsInvariant, PTL
===============================================================================
