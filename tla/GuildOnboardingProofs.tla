------------------------- MODULE GuildOnboardingProofs -------------------------
(***************************************************************************)
(* Proofs about GuildOnboarding and Bots for any number of requests and       *)
(* users.                                                                  *)
(***************************************************************************)
EXTENDS Bots, TLAPS

\* Only who knows of the guild's row comes to write after it.
AfterInsert ==
    /\ settings => guild
    /\ \A p \in Parties :
          pc[p] \in {"claim", "recover", "look", "check", "store", "history"} => guild

\* What is still missing, somebody is on the way to create.
SomeoneOwes ==
    guild /\ ~broken =>
        \/ settings /\ history
        \/ settings /\ \E p \in Parties : At(p, "history")
        \/ ~settings /\ \E p \in Parties : At(p, "check") \/ At(p, "store")

IInv == TypeOK /\ AfterInsert /\ SomeoneOwes

-------------------------------------------------------------------------------
\* The initial states satisfy the invariant.
LEMMA InitIInv == Init => IInv
<1> SUFFICES ASSUME Init PROVE IInv
    OBVIOUS
<1>1. TypeOK
    <2>1. jobs \in 0..MaxJobs
        BY OnboardingAssumption DEF Init
    <2>2. pc[Setup] = "idle"
        BY DEF Init, Parties
    <2> QED
        BY <2>1, <2>2 DEF Init, TypeOK
<1>2. AfterInsert /\ SomeoneOwes
    BY DEF Init, AfterInsert, SomeoneOwes
<1> QED
    BY <1>1, <1>2 DEF IInv

\* Every step of a party keeps the types: a job's end finds the job in the queue.
LEMMA NextTypeOK == TypeOK /\ [Next]_vars => TypeOK'
<1> SUFFICES ASSUME TypeOK, [Next]_vars PROVE TypeOK'
    OBVIOUS
<1>8. ASSUME NEW p \in Parties, ~At(p, "idle"), Fail(p),
             <<guild, settings, history, broken>>' \in BOOLEAN \X BOOLEAN \X BOOLEAN \X BOOLEAN
      PROVE  TypeOK'
    <2>1. jobs' \in 0..MaxJobs
        BY <1>8, OnboardingAssumption DEF Fail, TypeOK, At, Parties
    <2>2. failed' \in BOOLEAN
        BY <1>8, Zenon DEF Fail, TypeOK
    <2>3. /\ pc' \in [Parties -> {"idle", "find", "claim", "insert", "recover", "look",
                                 "check", "store", "history"}]
          /\ pc'[Setup] # "idle" => jobs' > 0
          /\ pc'[Setup] \notin {"claim", "recover", "look"}
        BY <1>8, OnboardingAssumption DEF Fail, Goto, TypeOK, At, Parties
    <2> QED
        BY <1>8, <2>1, <2>2, <2>3 DEF TypeOK
<1> USE OnboardingAssumption DEF TypeOK, Parties, At, Goto, End
<1>1. CASE FirstContact
    BY <1>1 DEF FirstContact
<1>7. CASE RetryFailed
    BY <1>7 DEF RetryFailed
<1>2. CASE TakeJob
    BY <1>2 DEF TakeJob
<1>3. ASSUME NEW c \in Calls, OnlyRequests(c) PROVE TypeOK'
    BY <1>3 DEF OnlyRequests, Request, ClaimExisting, Recover, LookForSettings
<1>4. ASSUME NEW p \in Parties, Step(p) PROVE TypeOK'
    <2>1. CASE FindGuild(p)
        BY <2>1 DEF FindGuild
    <2>2. CASE InsertGuild(p)
        BY <2>2 DEF InsertGuild
    <2>3. CASE InsertRefused(p)
        BY <2>3, <1>8 DEF InsertRefused
    <2>4. CASE CheckSettings(p)
        BY <2>4 DEF CheckSettings
    <2>5. CASE StoreSettings(p)
        BY <2>5 DEF StoreSettings
    <2>6. CASE StoreRefused(p)
        BY <2>6, <1>8 DEF StoreRefused
    <2>7. CASE AddHistory(p)
        BY <2>7 DEF AddHistory
    <2> QED
        BY <1>4, <2>1, <2>2, <2>3, <2>4, <2>5, <2>6, <2>7 DEF Step
<1>5. ASSUME NEW p \in Parties, Abort(p) PROVE TypeOK'
    BY <1>5, <1>8 DEF Abort
<1>6. CASE UNCHANGED vars
    BY <1>6 DEF vars
<1> QED
    BY <1>1, <1>2, <1>3, <1>4, <1>5, <1>6, <1>7 DEF Next

\* No row is written before the guild's.
LEMMA NextAfterInsert == TypeOK /\ AfterInsert /\ [Next]_vars => AfterInsert'
<1> SUFFICES ASSUME TypeOK, AfterInsert, [Next]_vars PROVE AfterInsert'
    OBVIOUS
<1> USE DEF TypeOK, AfterInsert, At, Goto, End, Fail
<1>1. CASE FirstContact
    BY <1>1 DEF FirstContact
<1>7. CASE RetryFailed
    BY <1>7 DEF RetryFailed
<1>2. CASE TakeJob
    BY <1>2 DEF TakeJob
<1>3. ASSUME NEW c \in Calls, OnlyRequests(c) PROVE AfterInsert'
    BY <1>3 DEF OnlyRequests, Request, ClaimExisting, Recover, LookForSettings, Parties
<1>4. ASSUME NEW p \in Parties, Step(p) PROVE AfterInsert'
    <2>1. CASE FindGuild(p)
        BY <2>1 DEF FindGuild
    <2>2. CASE InsertGuild(p)
        BY <2>2 DEF InsertGuild
    <2>3. CASE InsertRefused(p)
        BY <2>3 DEF InsertRefused
    <2>4. CASE CheckSettings(p)
        BY <2>4 DEF CheckSettings
    <2>5. CASE StoreSettings(p)
        BY <2>5 DEF StoreSettings
    <2>6. CASE StoreRefused(p)
        BY <2>6 DEF StoreRefused
    <2>7. CASE AddHistory(p)
        BY <2>7 DEF AddHistory
    <2> QED
        BY <1>4, <2>1, <2>2, <2>3, <2>4, <2>5, <2>6, <2>7 DEF Step
<1>5. ASSUME NEW p \in Parties, Abort(p) PROVE AfterInsert'
    BY <1>5 DEF Abort
<1>6. CASE UNCHANGED vars
    BY <1>6 DEF vars
<1> QED
    BY <1>1, <1>2, <1>3, <1>4, <1>5, <1>6, <1>7 DEF Next

\* Who is refused leaves its debt to the party that was faster.
LEMMA NextSomeoneOwes == IInv /\ [Next]_vars => SomeoneOwes'
<1> SUFFICES ASSUME IInv, [Next]_vars PROVE SomeoneOwes'
    OBVIOUS
<1> USE DEF IInv, TypeOK, AfterInsert, SomeoneOwes, At, Goto, End, Fail
<1>1. CASE FirstContact
    BY <1>1 DEF FirstContact
<1>7. CASE RetryFailed
    BY <1>7 DEF RetryFailed
<1>2. CASE TakeJob
    BY <1>2 DEF TakeJob, Parties
<1>3. ASSUME NEW c \in Calls, OnlyRequests(c) PROVE SomeoneOwes'
    <2>1. c \in Parties
        BY DEF Parties
    <2>2. CASE Request(c)
        BY <2>1, <2>2 DEF Request
    <2>3. CASE ClaimExisting(c)
        BY <2>1, <2>3 DEF ClaimExisting
    <2>4. CASE Recover(c)
        BY <2>1, <2>4 DEF Recover
    <2>5. CASE LookForSettings(c)
        BY <2>1, <2>5 DEF LookForSettings
    <2> QED
        BY <1>3, <2>2, <2>3, <2>4, <2>5 DEF OnlyRequests
<1>4. ASSUME NEW p \in Parties, Step(p) PROVE SomeoneOwes'
    <2>1. CASE FindGuild(p)
        BY <2>1 DEF FindGuild
    <2>2. CASE InsertGuild(p)
        BY <2>2 DEF InsertGuild
    <2>3. CASE InsertRefused(p)
        BY <2>3 DEF InsertRefused
    <2>4. CASE CheckSettings(p)
        BY <2>4 DEF CheckSettings
    <2>5. CASE StoreSettings(p)
        BY <2>5 DEF StoreSettings
    <2>6. CASE StoreRefused(p)
        BY <2>6 DEF StoreRefused
    <2>7. CASE AddHistory(p)
        BY <2>7 DEF AddHistory
    <2> QED
        BY <1>4, <2>1, <2>2, <2>3, <2>4, <2>5, <2>6, <2>7 DEF Step
<1>5. ASSUME NEW p \in Parties, Abort(p) PROVE SomeoneOwes'
    BY <1>5 DEF Abort
<1>6. CASE UNCHANGED vars
    BY <1>6 DEF vars
<1> QED
    BY <1>1, <1>2, <1>3, <1>4, <1>5, <1>6, <1>7 DEF Next

\* The inductive invariant holds in every behaviour.
THEOREM Owed == Spec => []IInv
<1>1. IInv /\ [Next]_vars => IInv'
    BY NextTypeOK, NextAfterInsert, NextSomeoneOwes DEF IInv
<1> QED
    BY InitIInv, <1>1, PTL DEF Spec

\* Every state of onboarding has its type; an active guild:setup job is in the queue.
THEOREM OnboardingTypes == Spec => []TypeOK
<1>1. IInv => TypeOK
    BY DEF IInv
<1> QED
    BY Owed, <1>1, PTL

\* However many requests and jobs race for the guild, and whoever of them fails before
\* it has a row to create, a guild nobody works on any more has its settings and its
\* history was asked for.
THEOREM Whole == Spec => []WholeWhenSettled
<1>1. IInv => WholeWhenSettled
    BY DEF IInv, TypeOK, SomeoneOwes, WholeWhenSettled, At
<1> QED
    BY Owed, <1>1, PTL

-------------------------------------------------------------------------------
(* The bots of the guild.                                                  *)

\* The bots leave the onboarding alone.
LEMMA BotsOnboard == [BotsNext]_<<vars, botVars>> => [Next]_vars
BY DEF BotsNext, BotsStep, Recorded, vars

\* A copy that a task is about to save.
Copied(t) == task[t].pc \in Saves

\* The one copy there is has the row's token, but for the copy that has the user's new one.
CopiesInv ==
    /\ row.token = given
    /\ \A t \in Tasks : Copied(t) /\ ~Is(t, "token_save") => task[t].token = row.token
    /\ ~Overlapping

\* Who is to store a token has one to store.
TokenGiven == \A t \in Tasks : Is(t, "token") => task[t].give # Keep

BotsInv == BotsTypeOK /\ TokenGiven /\ (~overlap => CopiesInv)

\* What the tasks of a guild look like.
TaskOK(x) == x \in Task /\ (x.pc = "token" => x.give # Keep)
TasksOK == task \in [Tasks -> Task] /\ TokenGiven

LEMMA NothingOK == ASSUME NEW place \in Places \ {"token"}
                   PROVE  TaskOK([Nothing EXCEPT !.pc = place])
BY DEF TaskOK, Task, Nothing, Given, Keep

LEMMA PutOK == ASSUME TasksOK, NEW t \in Tasks, NEW x, TaskOK(x), task' = [task EXCEPT ![t] = x]
               PROVE  TasksOK'
BY DEF TasksOK, TokenGiven, TaskOK, Is

\* A step that leaves the rows and the copies as they are.
LEMMA CopiesKept ==
    ASSUME CopiesInv, row'.token = row.token, given' = given, ~Overlapping',
           \A u \in Tasks : Copied(u)' => task'[u] = task[u]
    PROVE  CopiesInv'
<1>1. \A u \in Tasks : Copied(u)' => Copied(u) /\ (Is(u, "token_save")' <=> Is(u, "token_save"))
    BY DEF Copied, Is
<1> QED
    BY <1>1 DEF CopiesInv

\* What a step does to the tasks, but for findOne and save().
Elsewhere == TasksOK' /\ \A u \in Tasks : Copied(u)' => task'[u] = task[u]

LEMMA PutElsewhere ==
    ASSUME TasksOK, NEW t \in Tasks, NEW x, TaskOK(x), x.pc \notin Saves, task' = [task EXCEPT ![t] = x]
    PROVE  Elsewhere
<1>1. \A u \in Tasks : task'[u] = IF u = t THEN x ELSE task[u]
    BY DEF TasksOK
<1> QED
    BY <1>1, PutOK DEF Elsewhere, Copied

LEMMA MoveElsewhere ==
    ASSUME TasksOK, NEW t \in Tasks, NEW place \in Places \ Saves, place = "token" => task[t].give # Keep,
           Move(t, place)
    PROVE  Elsewhere
<1> DEFINE x == [task[t] EXCEPT !.pc = place]
<1>1. TaskOK(x) /\ x.pc = place
    BY DEF TasksOK, TaskOK, Task
<1>2. task' = [task EXCEPT ![t] = x]
    BY DEF Move
<1> HIDE DEF x
<1> QED
    BY <1>1, <1>2, PutElsewhere

LEMMA NothingElsewhere ==
    ASSUME TasksOK, NEW t \in Tasks, NEW place \in Places \ (Saves \cup {"token"}),
           task' = [task EXCEPT ![t] = [Nothing EXCEPT !.pc = place]]
    PROVE  Elsewhere
<1> DEFINE x == [Nothing EXCEPT !.pc = place]
<1>1. TaskOK(x) /\ x.pc = place
    BY NothingOK DEF Nothing
<1> HIDE DEF x
<1> QED
    BY <1>1, PutElsewhere DEF x

LEMMA DoneElsewhere == ASSUME TasksOK, NEW t \in Tasks, Done(t) PROVE Elsewhere
<1>1. task[t].then \in Places \ (Saves \cup {"token"})
    BY DEF TasksOK, Task, Places, Saves
<1> QED
    BY <1>1, NothingElsewhere DEF Done

LEMMA IdleElsewhere ==
    ASSUME TasksOK, NEW t \in Tasks, task' = [task EXCEPT ![t] = Nothing]
    PROVE  Elsewhere
<1>1. TaskOK(Nothing) /\ Nothing.pc \notin Saves
    BY DEF Nothing, TaskOK, Task, Places, Given, Saves
<1> QED
    BY <1>1, PutElsewhere

LEMMA SameElsewhere == ASSUME TasksOK, UNCHANGED task PROVE Elsewhere
BY DEF Elsewhere, TasksOK, TokenGiven, Is

\* The other variables of the bots.
RestOK ==
    /\ opened \in BOOLEAN
    /\ member \in [Robots -> BOOLEAN] /\ moves \in 0..MaxMoves
    /\ row \in [inGuild : BOOLEAN, token : Tokens \cup {NoToken}]
    /\ service \in {"down", "starting", "up"}
    /\ list \in Tokens \cup {NoToken} /\ client \in Tokens \cup {NoToken}
    /\ live \in BOOLEAN /\ cache \in BOOLEAN
    /\ rare \in 0..MaxRare /\ given \in Tokens \cup {NoToken}

LEMMA BotsParts == BotsTypeOK /\ TokenGiven <=> TypeOK /\ RestOK /\ TasksOK /\ overlap \in BOOLEAN
BY DEF BotsTypeOK, RestOK, TasksOK

LEMMA RareOK == RestOK /\ Rare => rare' \in 0..MaxRare
BY BotsAssumption DEF RestOK, Rare

\* Every step but findOne and save().
LEMMA OtherSteps ==
    ASSUME RestOK, TasksOK,
           \/ Open \/ \E b \in Robots : JoinOrLeave(b)
           \/ LoseSession \/ Stop \/ StartService \/ Login \/ NoLogin
    PROVE  RestOK' /\ Elsewhere /\ row'.token = row.token /\ given' = given
<1> USE DEF discordVars, clientVars
<1>1. CASE Open
    BY <1>1, SameElsewhere DEF Open, RestOK
<1>2. ASSUME NEW b \in Robots, JoinOrLeave(b) PROVE RestOK' /\ Elsewhere /\ row'.token = row.token /\ given' = given
    <2>1. b \in Tasks
        BY DEF Tasks, Service
    <2>2. member' \in [Robots -> BOOLEAN] /\ moves' \in 0..MaxMoves
        BY <1>2, BotsAssumption DEF JoinOrLeave, RestOK
    <2>3. cache' \in BOOLEAN
        BY <1>2, <2>2 DEF JoinOrLeave, RestOK
    <2>4. RestOK'
        BY <1>2, <2>2, <2>3 DEF JoinOrLeave, RestOK
    <2>5. Elsewhere
        <3>1. CASE UNCHANGED task
            BY <3>1, SameElsewhere
        <3>2. ASSUME NEW place \in {"create", "delete"}, Begin(b, place) PROVE Elsewhere
            BY <2>1, <3>2, NothingElsewhere DEF Begin, Places, Saves
        <3> QED
            BY <1>2, <3>1, <3>2 DEF JoinOrLeave
    <2> QED
        BY <1>2, <2>4, <2>5 DEF JoinOrLeave
<1>3. CASE LoseSession
    BY <1>3, RareOK, SameElsewhere DEF LoseSession, RestOK
<1>4. CASE Stop
    <2>1. \A t \in Tasks : task'[t] = IF t \in Service THEN Nothing ELSE task[t]
        BY <1>4 DEF Stop
    <2>2. TaskOK(Nothing) /\ Nothing.pc \notin Saves
        BY DEF Nothing, TaskOK, Task, Places, Given, Saves
    <2>3. task' = [t \in Tasks |-> task'[t]]
        BY <1>4 DEF Stop
    <2>4. Elsewhere
        BY <2>1, <2>2, <2>3 DEF Elsewhere, TasksOK, TokenGiven, Is, TaskOK, Copied
    <2>5. RestOK'
        BY <1>4, RareOK DEF Stop, RestOK
    <2> QED
        BY <1>4, <2>4, <2>5 DEF Stop
<1>5. CASE StartService
    BY <1>5, SameElsewhere DEF StartService, RestOK
<1>6. CASE Login
    <2>1. Own \in Tasks /\ Own \in Robots
        BY DEF Tasks, Service, Robots
    <2>2. Elsewhere
        BY <1>6, <2>1, NothingElsewhere DEF Login, Begin, Places, Saves
    <2> QED
        BY <1>6, <2>1, <2>2 DEF Login, RestOK
<1>7. CASE NoLogin
    BY <1>7, RareOK, SameElsewhere DEF NoLogin, RestOK
<1> QED
    BY <1>1, <1>2, <1>3, <1>4, <1>5, <1>6, <1>7

LEMMA TaskSteps ==
    ASSUME RestOK, TasksOK,
           \/ \E t \in Service : MarkJoined(t) \/ MarkLeft(t) \/ FetchGuild(t)
           \/ StartReconcile \/ Reconcile
           \/ \E e \in Editors : PatchSettings(e) \/ PatchToken(e)
           \/ \E t \in Tasks : GiveUp(t)
    PROVE  RestOK' /\ Elsewhere /\ row'.token = row.token /\ given' = given
<1> USE DEF discordVars, clientVars
<1>1. ASSUME NEW t \in Service, MarkJoined(t) \/ MarkLeft(t)
      PROVE  RestOK' /\ Elsewhere /\ row'.token = row.token /\ given' = given
    <2>1. row' \in [inGuild : BOOLEAN, token : Tokens \cup {NoToken}] /\ row'.token = row.token
        BY <1>1 DEF MarkJoined, MarkLeft, RestOK
    <2>2. \E place \in {"connected", "gone"} : Move(t, place)
        BY <1>1 DEF MarkJoined, MarkLeft
    <2>3. Elsewhere
        BY <2>2, MoveElsewhere DEF Places, Saves, Tasks
    <2> QED
        BY <1>1, <2>1, <2>3 DEF MarkJoined, MarkLeft, RestOK
<1>2. ASSUME NEW t \in Service, FetchGuild(t) PROVE Elsewhere
    BY <1>2, MoveElsewhere, DoneElsewhere DEF FetchGuild, Places, Saves, Tasks
<1>3. ASSUME StartReconcile \/ Reconcile PROVE Elsewhere
    <2> DEFINE here == task[Recon]
    <2>1. Recon \in Tasks /\ here \in Task
        BY DEF Tasks, Service, TasksOK
    <2>2. ASSUME NEW place \in {"create", "delete"}, Handle(place) PROVE Elsewhere
        <3> DEFINE x == [here EXCEPT !.pc = place, !.then = IF Is(Recon, "own") THEN "idle" ELSE "own"]
        <3>1. TaskOK(x) /\ x.pc = place
            BY <2>1 DEF TaskOK, Task, Places
        <3>2. task' = [task EXCEPT ![Recon] = x]
            BY <2>2 DEF Handle
        <3> HIDE DEF x
        <3> QED
            BY <2>1, <3>1, <3>2, PutElsewhere DEF Saves
    <2>3. ASSUME NEW place \in {"join", "own"}, Move(Recon, place) PROVE Elsewhere
        BY <2>1, <2>3, MoveElsewhere DEF Places, Saves
    <2>4. CASE StartReconcile
        BY <2>1, <2>4, NothingElsewhere DEF StartReconcile, Begin, Places, Saves
    <2>5. CASE ListGuilds
        <3> DEFINE x == [here EXCEPT !.pc = "leave", !.listed = member[Main]]
        <3>1. member[Main] \in BOOLEAN
            BY DEF RestOK, Robots
        <3>2. TaskOK(x) /\ x.pc = "leave"
            BY <2>1, <3>1 DEF TaskOK, Task, Places
        <3>3. task' = [task EXCEPT ![Recon] = x]
            BY <2>5 DEF ListGuilds
        <3> HIDE DEF x
        <3> QED
            BY <2>1, <3>2, <3>3, PutElsewhere DEF Saves
    <2>6. CASE CompareLeft
        BY <2>2, <2>3, <2>6 DEF CompareLeft
    <2>7. CASE CompareJoined
        BY <2>2, <2>3, <2>7 DEF CompareJoined
    <2>8. CASE CompareOwn
        BY <2>1, <2>2, <2>8, IdleElsewhere DEF CompareOwn
    <2> QED
        BY <1>3, <2>4, <2>5, <2>6, <2>7, <2>8 DEF Reconcile
<1>4. ASSUME NEW e \in Editors, NEW give \in Given, NEW place \in {"settings", "token"},
             place = "token" => give # Keep,
             task' = [task EXCEPT ![e] = [Nothing EXCEPT !.pc = place, !.give = give]]
      PROVE  Elsewhere
    <2> DEFINE x == [Nothing EXCEPT !.pc = place, !.give = give]
    <2>1. TaskOK(x) /\ x.pc = place
        BY <1>4 DEF TaskOK, Task, Nothing, Places
    <2> HIDE DEF x
    <2> QED
        BY <1>4, <2>1, PutElsewhere DEF x, Saves, Tasks
<1>5. ASSUME NEW e \in Editors, PatchSettings(e) \/ PatchToken(e) PROVE Elsewhere
    BY <1>4, <1>5 DEF PatchSettings, PatchToken
<1>6. ASSUME NEW t \in Tasks, GiveUp(t) PROVE Elsewhere /\ RestOK'
    BY <1>6, IdleElsewhere, RareOK DEF GiveUp, RestOK
<1>7. ASSUME \/ \E t \in Service : FetchGuild(t)
             \/ StartReconcile \/ Reconcile
             \/ \E e \in Editors : PatchSettings(e) \/ PatchToken(e)
      PROVE  RestOK' /\ row' = row /\ given' = given
    BY <1>7 DEF FetchGuild, StartReconcile, Reconcile, ListGuilds, CompareLeft, CompareJoined, CompareOwn,
                PatchSettings, PatchToken, RestOK
<1>8. \A t \in Tasks : GiveUp(t) => row' = row /\ given' = given
    BY DEF GiveUp
<1> QED
    BY <1>1, <1>2, <1>3, <1>5, <1>6, <1>7, <1>8

\* findOne: the copy has the row's token, or the user's.
LEMMA FindStep ==
    ASSUME RestOK, TasksOK, NEW t \in Tasks, Find(t)
    PROVE  RestOK' /\ TasksOK' /\ (~overlap /\ CopiesInv /\ ~Overlapping' => CopiesInv')
<1> DEFINE token == IF Is(t, "token") THEN task[t].give ELSE row.token
           x == [task[t] EXCEPT !.pc = SaveAfter[task[t].pc], !.token = token]
<1>1. task' = [task EXCEPT ![t] = x]
    BY DEF Find
<1>2. token \in Tokens \cup {NoToken}
    BY DEF TasksOK, TokenGiven, Task, Given, RestOK
<1>3. SaveAfter[task[t].pc] \in Saves /\ (SaveAfter[task[t].pc] = "token_save" <=> Is(t, "token"))
    BY DEF Find, SaveAfter, Saves, Is
<1> HIDE DEF token
<1>4. x \in Task /\ x.pc \in Saves /\ x.token = token /\ (x.pc = "token_save" <=> Is(t, "token"))
    BY <1>2, <1>3 DEF TasksOK, Task, Places
<1>5. TaskOK(x)
    BY <1>4 DEF TaskOK, Saves
<1> HIDE DEF x
<1>6. \A u \in Tasks : task'[u] = IF u = t THEN x ELSE task[u]
    BY <1>1 DEF TasksOK
<1>7. UNCHANGED <<row, given>> /\ RestOK'
    BY DEF Find, discordVars, clientVars, RestOK
<1>8. ASSUME CopiesInv, ~Overlapping' PROVE CopiesInv'
    BY <1>4, <1>6, <1>7, <1>8 DEF CopiesInv, Copied, Is, token
<1> QED
    BY <1>1, <1>5, <1>7, <1>8, PutOK

\* save(): nobody else has a copy, and this one has what is to be there.
LEMMA SaveStep ==
    ASSUME RestOK, TasksOK, NEW t \in Tasks, Save(t)
    PROVE  RestOK' /\ TasksOK' /\ (~overlap /\ CopiesInv /\ ~Overlapping' => CopiesInv')
<1>1. task[t].token \in Tokens \cup {NoToken}
    BY DEF TasksOK, Task
<1>2. row' \in [inGuild : BOOLEAN, token : Tokens \cup {NoToken}] /\ row'.token = task[t].token
    BY <1>1 DEF Save, RestOK
<1>3. given' \in Tokens \cup {NoToken}
    BY <1>1 DEF Save, RestOK
<1>4. RestOK'
    BY <1>2, <1>3 DEF Save, discordVars, clientVars, RestOK
<1>5. Elsewhere
    BY MoveElsewhere, DoneElsewhere DEF Save, After, Places, Saves
<1>6. ~Copied(t)'
    <2>1. CASE \E place \in {"sync", "token"} : Move(t, place)
        BY <2>1 DEF Move, Copied, Saves, TasksOK, Task
    <2>2. CASE Done(t)
        <3> DEFINE x == [Nothing EXCEPT !.pc = task[t].then]
        <3>1. x.pc \in {"idle", "own"}
            BY DEF TasksOK, Task, Nothing
        <3>2. task'[t] = x
            BY <2>2 DEF Done, TasksOK
        <3> QED
            BY <3>1, <3>2 DEF Copied, Saves
    <2> QED
        BY <2>1, <2>2 DEF Save, After
<1>7. ASSUME CopiesInv, ~overlap, ~Overlapping' PROVE CopiesInv'
    <2>1. \A u \in Tasks : ~Copied(u)'
        BY <1>5, <1>6, <1>7 DEF Elsewhere, CopiesInv, Copied, Overlapping, Save
    <2>2. row'.token = given'
        BY <1>2, <1>7 DEF Save, CopiesInv, Copied
    <2> QED
        BY <1>7, <2>1, <2>2 DEF CopiesInv
<1> QED
    BY <1>4, <1>5, <1>7 DEF Elsewhere

LEMMA BotsStepKeeps ==
    ASSUME RestOK, TasksOK, BotsStep
    PROVE  RestOK' /\ TasksOK' /\ (~overlap /\ CopiesInv /\ ~Overlapping' => CopiesInv')
<1>1. ASSUME RestOK', Elsewhere, row'.token = row.token, given' = given
      PROVE  RestOK' /\ TasksOK' /\ (CopiesInv /\ ~Overlapping' => CopiesInv')
    BY <1>1, CopiesKept DEF Elsewhere
<1>2. Service \subseteq Tasks /\ Editors \subseteq Tasks
    BY DEF Tasks
<1> QED
    BY <1>1, <1>2, OtherSteps, TaskSteps, FindStep, SaveStep DEF BotsStep, ServiceStep, Edit

LEMMA BotsInitInv == BotsInit => BotsInv
<1> SUFFICES ASSUME BotsInit PROVE BotsInv
    OBVIOUS
<1>1. TypeOK
    BY InitIInv DEF BotsInit, IInv
<1>2. RestOK
    <2>1. member \in [Robots -> BOOLEAN]
        BY DEF BotsInit
    <2>2. moves \in 0..MaxMoves /\ rare \in 0..MaxRare
        BY BotsAssumption DEF BotsInit
    <2> QED
        BY <2>1, <2>2 DEF BotsInit, RestOK
<1>3. Nothing \in Task /\ Nothing.pc = "idle"
    BY DEF Nothing, Task, Places, Given
<1>4. \A t \in Tasks : task[t] = Nothing
    BY DEF BotsInit
<1>5. TasksOK
    BY <1>3, <1>4 DEF BotsInit, TasksOK, TokenGiven, Is
<1>6. \A t \in Tasks : ~Copied(t)
    BY <1>3, <1>4 DEF Copied, Saves
<1>7. CopiesInv
    BY <1>6 DEF BotsInit, CopiesInv, Overlapping, Copied
<1>8. overlap \in BOOLEAN
    BY DEF BotsInit
<1> QED
    BY <1>1, <1>2, <1>5, <1>7, <1>8, BotsParts DEF BotsInv

LEMMA BotsNextInv == BotsInv /\ [BotsNext]_<<vars, botVars>> => BotsInv'
<1> SUFFICES ASSUME BotsInv, [BotsNext]_<<vars, botVars>> PROVE BotsInv'
    OBVIOUS
<1>1. TypeOK /\ RestOK /\ TasksOK /\ overlap \in BOOLEAN /\ (~overlap => CopiesInv)
    BY BotsParts DEF BotsInv
<1>2. TypeOK'
    BY <1>1, BotsOnboard, NextTypeOK
<1>3. RestOK' /\ TasksOK' /\ overlap' \in BOOLEAN /\ (~overlap' => CopiesInv')
    <2>1. CASE UNCHANGED botVars
        BY <1>1, <2>1 DEF botVars, RestOK, TasksOK, TokenGiven, Is, CopiesInv, Copied, Overlapping
    <2>2. CASE BotsStep
        <3>1. overlap' = (overlap \/ Overlapping')
            BY <2>2 DEF BotsStep, Recorded
        <3>2. overlap' \in BOOLEAN
            BY <1>1, <3>1
        <3> QED
            BY <1>1, <2>2, <3>1, <3>2, BotsStepKeeps
    <2> QED
        BY <2>1, <2>2 DEF BotsNext
<1> QED
    BY <1>2, <1>3 DEF BotsInv, BotsTypeOK, RestOK, TasksOK

\* Whatever the handlers of both bots, the reconciliation, restarts and users do, the rows
\* and every task's copy of them are what the code knows, and a request that is to store a
\* token has one.
THEOREM BotsTypes == BotsSpec => []BotsTypeOK
<1>1. BotsInv => BotsTypeOK
    BY DEF BotsInv
<1> QED
    BY <1>1, BotsInitInv, BotsNextInv, PTL DEF BotsSpec

\* As long as no two tasks were between findOne and save of the settings at once, the stored
\* token is the one a user last gave, although every handler saves the whole copy it read.
THEOREM BotsKeepEdits == BotsSpec => []EditsKept
<1>1. BotsInv => EditsKept
    BY DEF BotsInv, CopiesInv, EditsKept
<1> QED
    BY <1>1, BotsInitInv, BotsNextInv, PTL DEF BotsSpec

\* The bots of a guild only go through steps that its onboarding allows: what is proved of
\* the onboarding holds of a guild with bots.
THEOREM BotsRefineOnboarding == BotsSpec => Spec /\ []WholeWhenSettled
<1>1. BotsInit => Init
    BY DEF BotsInit
<1>2. BotsSpec => Spec
    BY <1>1, BotsOnboard, PTL DEF BotsSpec, Spec
<1> QED
    BY <1>2, Whole, PTL
===============================================================================
