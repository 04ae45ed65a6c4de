---------------------------- MODULE SessionsProofs ----------------------------
(***************************************************************************)
(* Proofs about Sessions for any number of requests, tokens and rows.        *)
(***************************************************************************)
EXTENDS Sessions, FiniteSetTheorems, SequenceTheorems, TLAPS

-------------------------------------------------------------------------------
(* The invariant.                                                          *)

RequestRecord ==
    [kind : Kinds, pc : Steps, id : 0..MaxIds, token : 0..MaxTokens, state : State \cup {"none"},
     found : BOOLEAN, entity : Row \cup {NoUser}, stored : Row \cup {NoUser},
     late : SUBSET (Decided \cup {"erased"})]

\* Which requests come to a step.
Placed(q) ==
    /\ q.pc \in {"state", "del", "store"} => q.kind \in Callbacks
    /\ q.pc \in {"exchange", "upsert", "reread"} => q.kind \in Callbacks \cup {"verify"}
    /\ q.pc \in {"select", "save"} =>
          q.kind \in {"login", "ban", "unban", "profile", "upgrade", "cancel"}
    /\ q.pc = "find" =>
          q.kind \in {"login", "register", "ban", "unban", "profile", "upgrade", "cancel"}
    /\ q.pc = "insert" => q.kind = "register"
    /\ q.pc = "workspace" => q.kind \in Callbacks \cup {"verify", "login", "register"}
    /\ q.pc = "session" => q.kind \in Callbacks \cup {"verify", "login", "register", "refresh"}
    /\ q.pc = "guard" => q.kind \in Own \cup {"logout"}
    /\ q.pc = "token" => q.kind \in Own \cup {"refresh", "logout"}
    /\ q.pc = "revoke" => q.kind \in {"refresh", "logout"}
    /\ q.pc \in {"user", "revokeAll"} => q.kind = "refresh"
    /\ q.pc \in {"erase", "job"} => q.kind = "delete"
    /\ q.pc = "forget" => q.kind \in {"delete", "logout"}

\* What a request holds is there: n ids and the tokens T.
Holding(q, n, T) ==
    /\ q.id <= n /\ q.token <= Len(T)
    /\ q.pc \in {"state", "del"} => q.state \in State
    /\ q.kind = "refresh" => q.token # 0
    /\ q.kind \notin {"refresh", "logout"} => q.token = 0
    /\ q.kind = "refresh" /\ q.pc \in {"user", "revoke", "session", "revokeAll"} => q.id = T[q.token].id
    /\ q.pc \in {"store", "erase", "forget", "job"} \/ q.kind \in {"logout", "ban", "unban"} \cup Own
          => q.id # 0
    /\ q.pc \in {"select", "save"} => q.id # 0 /\ q.entity # NoUser /\ q.entity.id = q.id
    /\ q.pc = "save" /\ q.stored # NoUser => q.stored.id = q.id

Proper(q, n, T) == q \in RequestRecord /\ Placed(q) /\ Holding(q, n, T)

RequestsFit(req, n, T) ==
    /\ req = [r \in Request |-> req[r]]
    /\ \A r \in Request : req[r] = Idle \/ Proper(req[r], n, T)

\* A session is of one user; what a token names is there.
TokensFit(T, n) ==
    /\ T \in Seq(Token) /\ Len(T) <= MaxTokens
    /\ \A t \in DOMAIN T : T[t].id <= n /\ T[t].session <= Len(T) /\ T[t].parent <= Len(T)
    /\ \A t, u \in DOMAIN T : T[t].session = T[u].session => T[t].id = T[u].id

Typed ==
    /\ TypeOK
    /\ RequestsFit(request, ids, tokens) /\ TokensFit(tokens, ids)
    /\ user # NoUser => user.id <= ids
    /\ ended \subseteq 1..Len(tokens)

\* A refresh that found its token good.
Refreshes(r, t) ==
    /\ request[r] # Idle /\ Is(r, {"refresh"}) /\ request[r].token = t
    /\ request[r].pc \in {"user", "revoke", "session"}

Exchanged(t) ==
    /\ \A q, r \in Request : Refreshes(q, t) /\ Refreshes(r, t) => q = r
    /\ \A r \in Request : Refreshes(r, t) /\ request[r].pc = "session" => tokens[t].revoked
    /\ \A u \in DOMAIN tokens : tokens[u].parent = t =>
          /\ tokens[t].revoked
          /\ \A r \in Request : ~Refreshes(r, t)
          /\ \A v \in DOMAIN tokens : tokens[v].parent = t => v = u

ExchangeInv == \A t \in DOMAIN tokens \ raced : Exchanged(t)

\* A callback that has read the state s and is to delete it.
Holds(r, s) == At(r, "del") /\ request[r].state = s

StateInv ==
    /\ \A r \in Request : At(r, "del") /\ request[r].found => request[r].state \in issued
    /\ \A s \in State \ issued : admitted[s] = 0
    /\ \A s \in State \ shared :
          /\ admitted[s] <= 1
          /\ \A q, r \in Request : Holds(q, s) /\ Holds(r, s) => q = r
          /\ admitted[s] = 1 => /\ s \notin states
                                /\ \A r \in Request : Holds(r, s) => ~request[r].found

\* Of an ended session there is no good token, and nobody is about to make one.
ReuseInv == \A t \in DOMAIN tokens : tokens[t].session \in ended => ~Live(t) /\ ~Refreshing(tokens[t].session)

\* What a request holds of the row is what the row says, but for what the request decides
\* and for what was decided behind its back.
UpToDate(r) ==
    (At(r, "select") \/ At(r, "save")) /\ Has(request[r].id) =>
        \A c \in Decided \ request[r].late :
           /\ c \notin Decides(r) => request[r].entity[c] = user[c]
           /\ At(r, "save") /\ request[r].stored # NoUser => request[r].stored[c] = user[c]

DecisionInv == DecisionHolds /\ \A r \in Request : UpToDate(r)

\* A deletion whose transaction is done, ...
Deleting(q) == (At(q, "forget") \/ At(q, "job")) /\ Is(q, {"delete"})
Gone(id) == id \in erased \/ \E r \in Request : Deleting(r) /\ request[r].id = id

\* ... and one that has removed the Discord token, too.
Forgotten(id) == id \in erased \/ \E r \in Request : At(r, "job") /\ request[r].id = id

\* Nothing is left of id, and callbacks that are about to write know.
Nothing(id) ==
    /\ ~Has(id)
    /\ \A t \in DOMAIN tokens : tokens[t].id = id => ~tokens[t].row
    /\ \A r \in Request : request[r] # Idle /\ Is(r, Callbacks) /\ request[r].id = id
                             => "erased" \in request[r].late

DeletedInv ==
    \A id \in 1..ids \ revived : (Gone(id) => Nothing(id)) /\ (Forgotten(id) => id \notin discord)

SessionsInv == Typed /\ ExchangeInv /\ StateInv /\ ReuseInv /\ DecisionInv /\ DeletedInv

-------------------------------------------------------------------------------
(* Types.                                                                  *)

\* What is there stays there.
Grows(n, T, m, U) ==
    /\ n <= m /\ Len(T) <= Len(U)
    /\ \A t \in DOMAIN T : t \in DOMAIN U /\ U[t].id = T[t].id

\* A request that does nothing keeps what it holds.
LEMMA HoldingKept ==
    ASSUME NEW n \in Nat, NEW m \in Nat, NEW T \in Seq(Token), NEW U \in Seq(Token), Grows(n, T, m, U),
           NEW q, Proper(q, n, T)
    PROVE  Proper(q, m, U)
<1>1. q \in RequestRecord /\ Placed(q) /\ q.id \in Nat /\ q.token \in Nat
    BY SessionsAssumption DEF Proper, RequestRecord
<1>2. Len(T) \in Nat /\ Len(U) \in Nat /\ DOMAIN T = 1..Len(T)
    OBVIOUS
<1>3. q.id <= m /\ q.token <= Len(U)
    BY <1>1, <1>2 DEF Proper, Holding, Grows
<1>4. q.kind = "refresh" /\ q.pc \in {"user", "revoke", "session", "revokeAll"} => q.id = U[q.token].id
    BY <1>1, <1>2 DEF Proper, Holding, Grows
<1> QED
    BY <1>1, <1>3, <1>4 DEF Proper, Holding

\* Nor does what happens behind its back change it.
LEMMA LateKept ==
    ASSUME NEW n, NEW T, NEW q, Proper(q, n, T), NEW what \in SUBSET (Decided \cup {"erased"})
    PROVE  Proper([q EXCEPT !.late = @ \cup what], n, T)
<1> DEFINE p == [q EXCEPT !.late = @ \cup what]
<1>1. q \in RequestRecord
    BY DEF Proper
<1>2. p \in RequestRecord
    BY <1>1 DEF RequestRecord
<1>3. /\ p.kind = q.kind /\ p.pc = q.pc /\ p.id = q.id /\ p.token = q.token /\ p.state = q.state
      /\ p.entity = q.entity /\ p.stored = q.stored
    BY <1>1 DEF RequestRecord
<1> HIDE DEF p
<1>4. Placed(p) /\ Holding(p, n, T)
    BY <1>3 DEF Proper, Placed, Holding
<1> QED
    BY <1>2, <1>4 DEF p, Proper

\* One request moves, ...
LEMMA PutFits ==
    ASSUME NEW n \in Nat, NEW m \in Nat, NEW T \in Seq(Token), NEW U \in Seq(Token), Grows(n, T, m, U),
           NEW req, RequestsFit(req, n, T), NEW r \in Request, NEW x, x = Idle \/ Proper(x, m, U)
    PROVE  RequestsFit([req EXCEPT ![r] = x], m, U)
<1>1. \A q \in Request : req[q] = Idle \/ Proper(req[q], m, U)
    BY HoldingKept DEF RequestsFit
<1> QED
    BY <1>1 DEF RequestsFit

\* ... with all others overtaken or not.
LEMMA OvertakenFits ==
    ASSUME NEW n \in Nat, NEW m \in Nat, NEW T \in Seq(Token), NEW U \in Seq(Token), Grows(n, T, m, U),
           RequestsFit(request, n, T), NEW r \in Request, NEW x, x = Idle \/ Proper(x, m, U),
           NEW what \in SUBSET (Decided \cup {"erased"}), Overtaken(r, what, x)
    PROVE  RequestsFit(request', m, U)
<1>1. \A q \in Request : request[q] = Idle \/ Proper(request[q], m, U)
    BY HoldingKept DEF RequestsFit
<1>2. request' = [q \in Request |-> request'[q]]
    BY DEF Overtaken
<1>3. ASSUME NEW q \in Request PROVE request'[q] = Idle \/ Proper(request'[q], m, U)
    BY <1>1, LateKept DEF Overtaken
<1> QED
    BY <1>2, <1>3 DEF RequestsFit

\* The part of TypeOK about requests says less.
LEMMA FitIsTyped ==
    ASSUME NEW n \in Nat, NEW T \in Seq(Token), NEW req, RequestsFit(req, n, T), NEW r \in Request
    PROVE  \/ req[r] = Idle
           \/ req[r] \in [kind : Kinds, pc : Steps, id : 0..n, token : 0..MaxTokens,
                             state : State \cup {"none"}, found : BOOLEAN,
                             entity : Row \cup {NoUser}, stored : Row \cup {NoUser},
                             late : SUBSET (Decided \cup {"erased"})]
<1>1. CASE Proper(req[r], n, T)
    <2>1. req[r] \in RequestRecord /\ req[r].id <= n
        BY <1>1 DEF Proper, Holding
    <2>2. req[r].id \in 0..n
        BY <2>1, SessionsAssumption DEF RequestRecord
    <2> QED
        BY <2>1, <2>2 DEF RequestRecord
<1> QED
    BY <1>1 DEF RequestsFit

\* A change of the step, as a record.
LEMMA WithPc ==
    ASSUME NEW q \in RequestRecord, NEW pc \in Steps, NEW x, x = [q EXCEPT !.pc = pc]
    PROVE  /\ x \in RequestRecord /\ x.pc = pc
           /\ x.kind = q.kind /\ x.id = q.id /\ x.token = q.token /\ x.state = q.state /\ x.found = q.found
           /\ x.entity = q.entity /\ x.stored = q.stored /\ x.late = q.late
BY DEF RequestRecord

\* Who is at a step has a proper record.
LEMMA AtProper ==
    ASSUME Typed, NEW r \in Request, NEW pc, At(r, pc)
    PROVE  /\ Proper(request[r], ids, tokens) /\ request[r] \in RequestRecord
           /\ Placed(request[r]) /\ Holding(request[r], ids, tokens) /\ request[r].pc = pc
BY DEF Typed, RequestsFit, At, Proper

LEMMA TypedFacts ==
    ASSUME Typed
    PROVE  /\ ids \in Nat /\ ids \in 0..MaxIds /\ tokens \in Seq(Token) /\ Len(tokens) \in Nat
           /\ DOMAIN tokens = 1..Len(tokens)
           /\ \A t \in DOMAIN tokens : tokens[t] \in Token
           /\ user # NoUser => user \in Row /\ user.id \in 1..ids
           /\ RequestsFit(request, ids, tokens) /\ Grows(ids, tokens, ids, tokens)
           /\ request = [r \in Request |-> request[r]]
<1>1. ids \in Nat /\ ids \in 0..MaxIds /\ tokens \in Seq(Token) /\ user \in Row \cup {NoUser}
    BY SessionsAssumption DEF Typed, TypeOK
<1>2. user # NoUser => user \in Row /\ user.id \in 1..ids
    BY <1>1 DEF Typed, Row
<1> QED
    BY <1>1, <1>2 DEF Typed, Grows, RequestsFit

\* A step that changes one request only.
LEMMA MoveTyped ==
    ASSUME Typed, NEW r \in Request, NEW x, x = Idle \/ Proper(x, ids, tokens),
           request' = [request EXCEPT ![r] = x],
           UNCHANGED <<account, redis, sessions, gdpr, started, faults, erased>>
    PROVE  Typed'
<1>1. UNCHANGED <<api, user, ids, told, loose, revived, discord, states, issued, admitted, shared,
                  tokens, ended, raced, gdpr, started, faults, erased>>
    BY DEF account, redis, sessions
<1>2. RequestsFit(request', ids, tokens)
    BY TypedFacts, PutFits
<1>3. RequestsFit(request', ids', tokens')
    BY <1>1, <1>2
<1>4. TypeOK'
    <2>1. \A q \in Request :
             \/ request'[q] = Idle
             \/ request'[q] \in [kind : Kinds, pc : Steps, id : 0..ids, token : 0..MaxTokens,
                                state : State \cup {"none"}, found : BOOLEAN,
                                entity : Row \cup {NoUser}, stored : Row \cup {NoUser},
                                late : SUBSET (Decided \cup {"erased"})]
        BY <1>2, TypedFacts, FitIsTyped
    <2> QED
        BY <1>1, <2>1 DEF Typed, TypeOK
<1> QED
    BY <1>1, <1>3, <1>4 DEF Typed

\* What the row offers to a request that found it.
LEMMA EditedTyped ==
    ASSUME Typed, user # NoUser, NEW k \in {"login", "ban", "unban", "profile"}
    PROVE  Edited(user)[k] \in Row /\ Edited(user)[k].id = user.id
<1> USE TypedFacts DEF Row, Edited
<1>1. user \in Row
    OBVIOUS
<1>2. CASE k = "login"
    BY <1>2
<1>3. CASE k = "ban"
    BY <1>3
<1>4. CASE k = "unban"
    BY <1>4
<1>5. CASE k = "profile"
    BY <1>5
<1> QED
    BY <1>2, <1>3, <1>4, <1>5

LEMMA BilledTyped ==
    ASSUME Typed, user # NoUser, NEW k \in {"upgrade", "cancel"}, NEW e \in Billed(user)[k]
    PROVE  e \in Row /\ e.id = user.id
<1> USE TypedFacts DEF Row, Billed
<1>1. CASE k = "upgrade"
    BY <1>1
<1>2. CASE k = "cancel"
    BY <1>2
<1> QED
    BY <1>1, <1>2

\* The steps that change their own request only.
LEMMA FindTyped ==
    ASSUME Typed, NEW r \in Request, Find(r)
    PROVE  Typed'
<1>1. Placed(request[r]) /\ request[r].kind \in {"login", "ban", "unban", "profile", "upgrade", "cancel"}
      /\ request[r] \in RequestRecord /\ Holding(request[r], ids, tokens)
    BY AtProper DEF Find, Is, Placed
<1>2. CASE ~Accepts(r)
    BY <1>2, MoveTyped DEF Find, End
<1>3. ASSUME Accepts(r),
             NEW e \in IF Is(r, {"upgrade", "cancel"}) THEN Billed(user)[request[r].kind]
                       ELSE {Edited(user)[request[r].kind]},
             request' = [request EXCEPT ![r].pc = "select", ![r].id = user.id, ![r].entity = e]
      PROVE  Typed'
    <2>1. user # NoUser
        BY <1>1, <1>3 DEF Accepts, Has, NoUser, Is
    <2>2. e \in Row /\ e.id = user.id
        BY <1>1, <1>3, <2>1, EditedTyped, BilledTyped DEF Is
    <2> DEFINE x == [request[r] EXCEPT !.pc = "select", !.id = user.id, !.entity = e]
    <2>3. user.id \in 1..ids /\ user.id \in 0..MaxIds
        BY <2>1, TypedFacts DEF Row
    <2>4. "select" \in Steps
        BY DEF Steps
    <2>5. request' = [request EXCEPT ![r] = x]
        BY <1>3
    <2>6. /\ x \in RequestRecord /\ x.pc = "select" /\ x.kind = request[r].kind /\ x.id = user.id
          /\ x.token = request[r].token /\ x.entity = e
        BY <1>1, <2>2, <2>3, <2>4 DEF RequestRecord
    <2> HIDE DEF x
    <2>7. Placed(x)
        BY <1>1, <2>6 DEF Placed
    <2>8. Holding(x, ids, tokens)
        BY <1>1, <2>2, <2>3, <2>6, TypedFacts DEF Holding, Row, NoUser
    <2> QED
        BY <2>5, <2>6, <2>7, <2>8, MoveTyped DEF Find, Proper
<1> QED
    BY <1>2, <1>3 DEF Find

\* A step that only moves on, or ends.
LEMMA GotoTyped ==
    ASSUME Typed, NEW r \in Request, NEW old, At(r, old), NEW pc \in Steps,
           \A x : /\ x.kind = request[r].kind /\ x.pc = pc /\ x.id = request[r].id
                  /\ x.token = request[r].token /\ x.state = request[r].state
                  /\ x.entity = request[r].entity /\ x.stored = request[r].stored
                  => Placed(x) /\ Holding(x, ids, tokens),
           Goto(r, pc), UNCHANGED <<account, redis, sessions, gdpr, started, faults, erased>>
    PROVE  Typed'
<1> DEFINE x == [request[r] EXCEPT !.pc = pc]
<1>1. request' = [request EXCEPT ![r] = x]
    BY DEF Goto
<1>2. Proper(x, ids, tokens)
    BY AtProper, WithPc DEF Proper
<1> HIDE DEF x
<1> QED
    BY <1>1, <1>2, MoveTyped

LEMMA EndTyped ==
    ASSUME Typed, NEW r \in Request, End(r),
           UNCHANGED <<account, redis, sessions, gdpr, started, faults, erased>>
    PROVE  Typed'
BY MoveTyped DEF End

LEMMA MovesTyped ==
    ASSUME Typed, NEW r \in Request,
           \/ Exchange(r) \/ FindForRegister(r) \/ EnsureWorkspace(r) \/ FindOwnToken(r)
           \/ FindUser(r) \/ Guard(r) \/ GuardAdmin(r)
    PROVE  Typed'
<1> USE DEF Is
<1>0. {"upsert", "insert", "session", "revoke", "forget", "token", "erase", "find"} \subseteq Steps
    BY DEF Steps
<1>1. CASE Exchange(r)
    <2>1. At(r, "exchange")
        BY <1>1 DEF Exchange
    <2>2. Placed(request[r]) /\ Holding(request[r], ids, tokens) /\ request[r].pc = "exchange"
        BY <2>1, AtProper
    <2>3. CASE Goto(r, "upsert")
        BY <1>0, <1>1, <2>1, <2>2, <2>3, GotoTyped DEF Exchange, Placed, Holding
    <2> QED
        BY <1>1, <2>3, EndTyped DEF Exchange
<1>2. CASE FindForRegister(r)
    <2>1. At(r, "find") /\ request[r].kind = "register"
        BY <1>2 DEF FindForRegister
    <2>2. Placed(request[r]) /\ Holding(request[r], ids, tokens) /\ request[r].pc = "find"
        BY <2>1, AtProper
    <2>3. CASE Goto(r, "insert")
        BY <1>0, <1>2, <2>1, <2>2, <2>3, GotoTyped DEF FindForRegister, Placed, Holding, Own
    <2> QED
        BY <1>2, <2>3, EndTyped DEF FindForRegister
<1>3. CASE EnsureWorkspace(r)
    <2>1. At(r, "workspace")
        BY <1>3 DEF EnsureWorkspace
    <2>2. Placed(request[r]) /\ Holding(request[r], ids, tokens) /\ request[r].pc = "workspace"
        BY <2>1, AtProper
    <2>3. CASE Goto(r, "session")
        BY <1>0, <1>3, <2>1, <2>2, <2>3, GotoTyped DEF EnsureWorkspace, Placed, Holding, Callbacks, Own
    <2> QED
        BY <1>3, <2>3, EndTyped DEF EnsureWorkspace
<1>4. CASE FindOwnToken(r)
    <2>1. At(r, "token") /\ request[r].kind = "logout"
        BY <1>4 DEF FindOwnToken
    <2>2. Placed(request[r]) /\ Holding(request[r], ids, tokens) /\ request[r].pc = "token"
        BY <2>1, AtProper
    <2>3. CASE Goto(r, "revoke")
        BY <1>0, <1>4, <2>1, <2>2, <2>3, GotoTyped DEF FindOwnToken, Placed, Holding, Callbacks, Own
    <2>4. CASE Goto(r, "forget")
        BY <1>0, <1>4, <2>1, <2>2, <2>4, GotoTyped DEF FindOwnToken, Placed, Holding, Callbacks, Own
    <2> QED
        BY <1>4, <2>3, <2>4, EndTyped DEF FindOwnToken, LoggedOut
<1>5. CASE FindUser(r)
    <2>1. At(r, "user")
        BY <1>5 DEF FindUser
    <2>2. Placed(request[r]) /\ Holding(request[r], ids, tokens) /\ request[r].pc = "user"
        BY <2>1, AtProper
    <2>3. CASE Goto(r, "revoke")
        BY <1>0, <1>5, <2>1, <2>2, <2>3, GotoTyped DEF FindUser, Placed, Holding, Own
    <2> QED
        BY <1>5, <2>3, EndTyped DEF FindUser
<1>6. CASE Guard(r)
    <2>1. At(r, "guard")
        BY <1>6 DEF Guard
    <2>2. Placed(request[r]) /\ Holding(request[r], ids, tokens) /\ request[r].pc = "guard"
        BY <2>1, AtProper
    <2>3. CASE request[r].kind = "logout" /\ Goto(r, "token")
        BY <1>0, <1>6, <2>1, <2>2, <2>3, GotoTyped DEF Guard, Placed, Holding, Own
    <2>4. CASE request[r].kind = "delete" /\ Goto(r, "erase")
        BY <1>0, <1>6, <2>1, <2>2, <2>4, GotoTyped DEF Guard, Placed, Holding, Own
    <2>5. CASE request[r].kind \notin {"logout", "delete"} /\ Goto(r, "find")
        BY <1>0, <1>6, <2>1, <2>2, <2>5, GotoTyped DEF Guard, Placed, Holding, Own
    <2> QED
        BY <1>6, <2>3, <2>4, <2>5, EndTyped DEF Guard
<1>7. CASE GuardAdmin(r)
    <2>1. At(r, "guard")
        BY <1>7 DEF GuardAdmin
    <2>2. Placed(request[r]) /\ Holding(request[r], ids, tokens) /\ request[r].pc = "guard"
        BY <2>1, AtProper
    <2> QED
        BY <1>0, <1>7, <2>1, <2>2, GotoTyped DEF GuardAdmin, Placed, Holding, Own
<1> QED
    BY <1>1, <1>2, <1>3, <1>4, <1>5, <1>6, <1>7

\* The parts of Typed, for the steps that change more.
AccountTyped ==
    /\ api \in {"frontend", "admin"} /\ user \in Row \cup {NoUser} /\ ids \in 0..MaxIds
    /\ user # NoUser => user.id <= ids
    /\ told \in Decision /\ loose \subseteq Decided /\ revived \subseteq 1..ids

RedisTyped ==
    /\ discord \subseteq 1..ids
    /\ states \subseteq issued /\ issued \subseteq State /\ shared \subseteq State
    /\ admitted \in [State -> Nat]

SessionsTyped ==
    /\ TokensFit(tokens, ids) /\ ended \subseteq 1..Len(tokens) /\ raced \subseteq 1..MaxTokens

RestTyped ==
    /\ started \in 0..MaxRequests /\ faults \in 0..MaxFaults /\ gdpr \subseteq 1..ids /\ erased \subseteq 1..ids

LEMMA TypedParts == Typed <=> AccountTyped /\ RedisTyped /\ SessionsTyped /\ RestTyped
                              /\ RequestsFit(request, ids, tokens)
<1>1. Typed => AccountTyped /\ RedisTyped /\ SessionsTyped /\ RestTyped
               /\ RequestsFit(request, ids, tokens)
    BY DEF Typed, TypeOK, AccountTyped, RedisTyped, SessionsTyped, RestTyped
<1>2. ASSUME AccountTyped, RedisTyped, SessionsTyped, RestTyped, RequestsFit(request, ids, tokens)
      PROVE  Typed
    <2>1. ids \in Nat /\ tokens \in Seq(Token) /\ Len(tokens) <= MaxTokens /\ Len(tokens) \in Nat
        BY <1>2, SessionsAssumption DEF AccountTyped, SessionsTyped, TokensFit
    <2>2. ended \subseteq 1..MaxTokens
        BY <1>2, <2>1, SessionsAssumption DEF SessionsTyped
    <2>3. TypeOK
        BY <1>2, <2>1, <2>2, FitIsTyped, Zenon
           DEF TypeOK, AccountTyped, RedisTyped, SessionsTyped, RestTyped, TokensFit
    <2> QED
        BY <1>2, <2>3 DEF Typed, AccountTyped, SessionsTyped
<1> QED
    BY <1>1, <1>2

\* One request changes, and what is there stays there.
LEMMA PutTyped ==
    ASSUME Typed, AccountTyped', RedisTyped', SessionsTyped', RestTyped',
           Grows(ids, tokens, ids', tokens'),
           NEW r \in Request, NEW x, x = Idle \/ Proper(x, ids', tokens'),
           request' = [request EXCEPT ![r] = x]
    PROVE  Typed'
<1>1. ids' \in Nat /\ tokens' \in Seq(Token)
    BY SessionsAssumption DEF AccountTyped, SessionsTyped, TokensFit
<1>2. RequestsFit(request', ids', tokens')
    BY <1>1, TypedFacts, PutFits
<1>3. (AccountTyped /\ RedisTyped /\ SessionsTyped /\ RestTyped /\ RequestsFit(request, ids, tokens))'
    BY <1>2
<1> QED
    BY <1>3, TypedParts, PTL

LEMMA SameRequestsTyped ==
    ASSUME Typed, AccountTyped', RedisTyped', SessionsTyped', RestTyped',
           Grows(ids, tokens, ids', tokens'), UNCHANGED request
    PROVE  Typed'
<1>1. ids' \in Nat /\ tokens' \in Seq(Token)
    BY SessionsAssumption DEF AccountTyped, SessionsTyped, TokensFit
<1>2. \A q \in Request : request[q] = Idle \/ Proper(request[q], ids', tokens')
    BY <1>1, TypedFacts, HoldingKept DEF RequestsFit
<1>3. (AccountTyped /\ RedisTyped /\ SessionsTyped /\ RestTyped /\ RequestsFit(request, ids, tokens))'
    BY <1>2, TypedFacts DEF RequestsFit
<1> QED
    BY <1>3, TypedParts, PTL

\* What a step leaves alone stays typed.
LEMMA UnchangedTyped ==
    ASSUME Typed
    PROVE  /\ UNCHANGED account => AccountTyped'
           /\ UNCHANGED <<ids, redis>> => RedisTyped'
           /\ UNCHANGED <<ids, sessions>> => SessionsTyped'
           /\ UNCHANGED <<ids, started, faults, gdpr, erased>> => RestTyped'
           /\ UNCHANGED <<ids, tokens>> => Grows(ids, tokens, ids', tokens')
<1>1. AccountTyped /\ RedisTyped /\ SessionsTyped /\ RestTyped
    BY TypedParts
<1> QED
    BY <1>1, TypedFacts DEF account, redis, sessions, AccountTyped, RedisTyped, SessionsTyped, RestTyped

\* Rows of tokens are changed in place.
LEMMA EditedTokens ==
    ASSUME NEW n \in Nat, NEW T, TokensFit(T, n), NEW U, U = [t \in DOMAIN T |-> U[t]],
           \A t \in DOMAIN T : /\ U[t] \in Token /\ U[t].id = T[t].id
                               /\ U[t].session = T[t].session /\ U[t].parent = T[t].parent
    PROVE  TokensFit(U, n) /\ Len(U) = Len(T) /\ DOMAIN U = DOMAIN T /\ Grows(n, T, n, U)
<1>1. T \in Seq(Token) /\ Len(T) \in Nat /\ DOMAIN T = 1..Len(T)
    BY DEF TokensFit
<1>2. U \in [1..Len(T) -> Token]
    BY <1>1
<1>3. U \in Seq(Token) /\ Len(U) = Len(T) /\ DOMAIN U = DOMAIN T
    BY <1>1, <1>2, SeqDef
<1>4. TokensFit(U, n)
    <2>1. Len(U) <= MaxTokens
        BY <1>3 DEF TokensFit
    <2>2. \A t \in DOMAIN U : U[t].id <= n /\ U[t].session <= Len(U) /\ U[t].parent <= Len(U)
        BY <1>3 DEF TokensFit
    <2>3. \A t, u \in DOMAIN U : U[t].session = U[u].session => U[t].id = U[u].id
        BY <1>3 DEF TokensFit
    <2> QED
        BY <1>3, <2>1, <2>2, <2>3 DEF TokensFit
<1> QED
    BY <1>1, <1>3, <1>4 DEF Grows

\* Time, and the start and the failure of requests.
LEMMA TimeTyped == Typed /\ Time => Typed'
<1> SUFFICES ASSUME Typed, Time PROVE Typed'
    OBVIOUS
<1> USE TypedParts, UnchangedTyped, SameRequestsTyped
<1>1. ASSUME NEW s \in State, LoginUrl(s) PROVE Typed'
    <2>1. RedisTyped'
        BY <1>1, TypedFacts DEF LoginUrl, RedisTyped, account, sessions
    <2> QED
        BY <1>1, <2>1 DEF LoginUrl, account, sessions
<1>2. ASSUME NEW s \in State, StateExpires(s) PROVE Typed'
    <2>1. RedisTyped'
        BY <1>2, TypedFacts DEF StateExpires, RedisTyped, account, sessions
    <2> QED
        BY <1>2, <2>1 DEF StateExpires, account, sessions
<1>3. ASSUME NEW id \in discord, DiscordTokenExpires(id) PROVE Typed'
    <2>1. RedisTyped'
        BY <1>3, TypedFacts DEF DiscordTokenExpires, RedisTyped, account, sessions
    <2> QED
        BY <1>3, <2>1 DEF DiscordTokenExpires, account, sessions
<1>4. ASSUME NEW t \in DOMAIN tokens, TokenExpires(t) PROVE Typed'
    <2>1. /\ tokens' = [u \in DOMAIN tokens |-> tokens'[u]]
          /\ \A u \in DOMAIN tokens : /\ tokens'[u] \in Token /\ tokens'[u].id = tokens[u].id
                                      /\ tokens'[u].session = tokens[u].session
                                      /\ tokens'[u].parent = tokens[u].parent
        <3>1. tokens' = [tokens EXCEPT ![t] = [tokens[t] EXCEPT !.expired = TRUE]]
            BY <1>4 DEF TokenExpires
        <3>2. tokens = [u \in DOMAIN tokens |-> tokens[u]]
            BY TypedFacts
        <3>3. [tokens[t] EXCEPT !.expired = TRUE] \in Token
            BY TypedFacts DEF Token
        <3> QED
            BY <3>1, <3>2, <3>3, TypedFacts DEF Token
    <2>2. SessionsTyped' /\ Grows(ids, tokens, ids', tokens')
        <3>1. UNCHANGED <<ids, ended, raced>>
            BY <1>4 DEF TokenExpires, account
        <3> QED
            BY <2>1, <3>1, TypedFacts, EditedTokens DEF SessionsTyped
    <2> QED
        BY <1>4, <2>2 DEF TokenExpires, account
<1> QED
    BY <1>1, <1>2, <1>3, <1>4 DEF Time

LEMMA BeginTyped ==
    ASSUME Typed, NEW r \in Request, NEW kind \in Kinds, NEW pc \in {"find", "token", "guard", "exchange", "state"},
           NEW id \in 0..ids, NEW token \in 0..Len(tokens), NEW state \in State \cup {"none"},
           Begin(r, kind, pc, id, token, state),
           pc = "state" => kind \in Callbacks /\ state \in State,
           pc = "exchange" => kind = "verify",
           pc = "find" => kind \in {"login", "register", "ban", "unban"},
           pc = "guard" => kind \in Own \cup {"logout"},
           pc = "token" => kind = "refresh",
           kind = "refresh" => token # 0,
           kind \notin {"refresh", "logout"} => token = 0,
           kind \in {"logout", "ban", "unban"} \cup Own => id # 0
    PROVE  Typed'
<1> DEFINE x == [kind |-> kind, pc |-> pc, id |-> id, token |-> token, state |-> state, found |-> FALSE,
                 entity |-> NoUser, stored |-> NoUser, late |-> {}]
<1>1. RestTyped'
    BY TypedParts, SessionsAssumption DEF Begin, RestTyped, account
<1>2. pc \in Steps /\ id \in 0..MaxIds /\ token \in 0..MaxTokens
    BY TypedFacts, SessionsAssumption DEF Steps, Typed, TokensFit
<1>3. x \in RequestRecord
    BY <1>2 DEF RequestRecord
<1>4. Placed(x) /\ Holding(x, ids, tokens)
    BY TypedFacts DEF Placed, Holding
<1>5. Proper(x, ids', tokens')
    BY <1>3, <1>4 DEF Begin, account, sessions, Proper
<1>6. request' = [request EXCEPT ![r] = x]
    BY DEF Begin
<1> HIDE DEF x
<1>7. UNCHANGED <<account, redis, sessions, ids, tokens>>
    BY DEF Begin, account, sessions
<1> QED
    BY <1>1, <1>5, <1>6, <1>7, UnchangedTyped, PutTyped

LEMMA StartsTyped ==
    ASSUME Typed, NEW r \in Request, Start(r) \/ StartOfUser(r) \/ Fails(r)
    PROVE  Typed'
<1> USE TypedFacts, BeginTyped
<1>1. /\ "login" \in Kinds /\ "refresh" \in Kinds /\ "logout" \in Kinds /\ "register" \in Kinds
      /\ "verify" \in Kinds /\ "ban" \in Kinds /\ "unban" \in Kinds
      /\ \A k \in Callbacks \cup Own : k \in Kinds
      /\ 0 \in 0..ids /\ 0 \in 0..Len(tokens) /\ \A id \in 1..ids : id \in 0..ids
    BY DEF Kinds
<1>2. CASE Start(r)
    <2>1. CASE Begin(r, "login", "find", 0, 0, "none")
        BY <1>1, <2>1 DEF Own
    <2>2. ASSUME NEW t \in DOMAIN tokens, Begin(r, "refresh", "token", 0, t, "none") PROVE Typed'
        BY <1>1, <2>2 DEF Own
    <2>3. ASSUME NEW id \in 1..ids, NEW t \in {0} \cup DOMAIN tokens, Begin(r, "logout", "guard", id, t, "none")
          PROVE  Typed'
        BY <1>1, <2>3 DEF Own
    <2> QED
        BY <1>2, <2>1, <2>2, <2>3 DEF Start
<1>3. CASE StartOfUser(r)
    <2>1. CASE Begin(r, "register", "find", 0, 0, "none")
        BY <1>1, <2>1 DEF Own
    <2>2. CASE Begin(r, "verify", "exchange", 0, 0, "none")
        BY <1>1, <2>2 DEF Own
    <2>3. ASSUME NEW k \in Callbacks, NEW s \in State, Begin(r, k, "state", 0, 0, s) PROVE Typed'
        BY <1>1, <2>3 DEF Own, Callbacks
    <2>4. ASSUME NEW id \in 1..ids, NEW k \in {"ban", "unban"}, Begin(r, k, "find", id, 0, "none") PROVE Typed'
        BY <1>1, <2>4 DEF Own
    <2>5. ASSUME NEW id \in 1..ids, NEW k \in Own, Begin(r, k, "guard", id, 0, "none") PROVE Typed'
        <3>1. k \in Kinds /\ k \notin {"register", "login", "ban", "unban", "refresh", "logout"}
            BY <1>1 DEF Own
        <3> QED
            BY <1>1, <2>5, <3>1
    <2> QED
        BY <1>3, <2>1, <2>2, <2>3, <2>4, <2>5 DEF StartOfUser
<1>4. CASE Fails(r)
    <2>1. RestTyped'
        BY <1>4, TypedParts, SessionsAssumption DEF Fails, RestTyped, account
    <2>2. UNCHANGED <<account, redis, sessions, ids, tokens>>
        BY <1>4 DEF Fails, account, sessions
    <2> QED
        BY <1>4, <2>1, <2>2, UnchangedTyped, PutTyped DEF Fails, End
<1> QED
    BY <1>2, <1>3, <1>4

\* The steps that change more than their request.
Moves(r) == \E x : (x = Idle \/ Proper(x, ids, tokens)) /\ request' = [request EXCEPT ![r] = x]

LEMMA MovesOn ==
    ASSUME Typed, AccountTyped', RedisTyped', SessionsTyped', RestTyped',
           Grows(ids, tokens, ids', tokens'), NEW r \in Request, Moves(r)
    PROVE  Typed'
<1>1. PICK x : (x = Idle \/ Proper(x, ids, tokens)) /\ request' = [request EXCEPT ![r] = x]
    BY DEF Moves
<1>2. ids' \in Nat /\ tokens' \in Seq(Token)
    BY SessionsAssumption DEF AccountTyped, SessionsTyped, TokensFit
<1>3. x = Idle \/ Proper(x, ids', tokens')
    BY <1>1, <1>2, TypedFacts, HoldingKept
<1> QED
    BY <1>1, <1>3, PutTyped

LEMMA GotoMoves ==
    ASSUME Typed, NEW r \in Request, NEW old, At(r, old), NEW pc \in Steps,
           \A x : /\ x.kind = request[r].kind /\ x.pc = pc /\ x.id = request[r].id
                  /\ x.token = request[r].token /\ x.state = request[r].state
                  /\ x.entity = request[r].entity /\ x.stored = request[r].stored
                  => Placed(x) /\ Holding(x, ids, tokens),
           Goto(r, pc)
    PROVE  Moves(r)
<1> DEFINE x == [request[r] EXCEPT !.pc = pc]
<1>1. request' = [request EXCEPT ![r] = x]
    BY DEF Goto
<1>2. Proper(x, ids, tokens)
    BY AtProper, WithPc DEF Proper
<1> HIDE DEF x
<1> QED
    BY <1>1, <1>2 DEF Moves

LEMMA EndMoves == ASSUME NEW r \in Request, End(r) PROVE Moves(r)
BY DEF End, Moves

LEMMA ReadStateTyped == ASSUME Typed, NEW r \in Request, ReadState(r) PROVE Typed'
<1> USE TypedFacts, UnchangedTyped
<1>1. /\ At(r, "state") /\ Placed(request[r]) /\ Holding(request[r], ids, tokens)
      /\ request[r].pc = "state" /\ request[r] \in RequestRecord
    BY AtProper DEF ReadState
<1>2. request[r].state \in State
    BY <1>1 DEF Holding
<1>3. RedisTyped'
    BY <1>2, TypedParts DEF ReadState, RedisTyped, account, sessions
<1>4. CASE End(r)
    BY <1>3, <1>4, EndMoves, MovesOn DEF ReadState, account, sessions
<1>5. CASE ~End(r)
    <2> DEFINE f == request[r].state \in states
               x == [request[r] EXCEPT !.pc = "del", !.found = f]
    <2>1. request' = [request EXCEPT ![r] = x]
        BY <1>5 DEF ReadState
    <2>2. f \in BOOLEAN
        OBVIOUS
    <2>3. /\ x \in RequestRecord /\ x.pc = "del" /\ x.kind = request[r].kind /\ x.id = request[r].id
          /\ x.token = request[r].token /\ x.state = request[r].state
        <3> HIDE DEF f
        <3> QED
            BY <1>1, <2>2 DEF RequestRecord, Steps
    <2> HIDE DEF x
    <2>4. Proper(x, ids, tokens)
        BY <1>1, <2>3 DEF Proper, Placed, Holding
    <2>5. Moves(r)
        BY <2>1, <2>4 DEF Moves
    <2> QED
        BY <1>3, <2>5, MovesOn DEF ReadState, account, sessions
<1> QED
    BY <1>4, <1>5

LEMMA DelStateTyped == ASSUME Typed, NEW r \in Request, DelState(r) PROVE Typed'
<1>1. /\ At(r, "del") /\ Placed(request[r]) /\ Holding(request[r], ids, tokens)
      /\ request[r].pc = "del"
    BY AtProper DEF DelState
<1>2. request[r].state \in State /\ "exchange" \in Steps
    BY <1>1 DEF Holding, Steps
<1>3. admitted \in [State -> Nat] /\ states \subseteq issued /\ RedisTyped
    BY TypedParts DEF RedisTyped
<1>4. RedisTyped'
    BY <1>2, <1>3, TypedFacts DEF DelState, RedisTyped, account, sessions
<1>5. Moves(r)
    BY <1>1, <1>2, EndMoves, GotoMoves DEF DelState, Placed, Holding, Callbacks
<1> QED
    BY <1>4, <1>5, TypedFacts, UnchangedTyped, MovesOn DEF DelState, account, sessions

LEMMA RereadTyped == ASSUME Typed, NEW r \in Request, Reread(r) PROVE Typed'
<1>1. /\ At(r, "reread") /\ Placed(request[r]) /\ Holding(request[r], ids, tokens)
      /\ request[r].pc = "reread" /\ request[r] \in RequestRecord
    BY AtProper DEF Reread
<1>2. CASE user.via = "discord"
    <2> DEFINE x == [request[r] EXCEPT !.pc = "workspace", !.id = user.id]
    <2>1. "workspace" \in Steps /\ user.id \in 0..MaxIds /\ user.id <= ids /\ user.id # 0
        BY <1>2, TypedFacts DEF Steps, NoUser, Row
    <2>2. request' = [request EXCEPT ![r] = x]
        BY <1>2 DEF Reread
    <2>3. /\ x \in RequestRecord /\ x.pc = "workspace" /\ x.kind = request[r].kind /\ x.id = user.id
          /\ x.token = request[r].token
        BY <1>1, <2>1 DEF RequestRecord
    <2> HIDE DEF x
    <2>4. Proper(x, ids, tokens)
        BY <1>1, <2>1, <2>3 DEF Proper, Placed, Holding, Callbacks, Own
    <2> QED
        BY <2>2, <2>4, MoveTyped DEF Reread
<1> QED
    BY <1>2, EndTyped DEF Reread

LEMMA SelectTyped == ASSUME Typed, NEW r \in Request, Select(r) PROVE Typed'
<1>1. /\ At(r, "select") /\ Placed(request[r]) /\ Holding(request[r], ids, tokens)
      /\ request[r].pc = "select" /\ request[r] \in RequestRecord
    BY AtProper DEF Select
<1> DEFINE o == IF Has(request[r].id) THEN user ELSE NoUser
           x == [request[r] EXCEPT !.pc = "save", !.stored = o]
<1>2. "save" \in Steps /\ o \in Row \cup {NoUser} /\ (o # NoUser => o.id = request[r].id)
    BY TypedFacts DEF Steps, Has
<1>3. request' = [request EXCEPT ![r] = x]
    BY DEF Select
<1> HIDE DEF o
<1>4. /\ x \in RequestRecord /\ x.pc = "save" /\ x.kind = request[r].kind /\ x.id = request[r].id
      /\ x.token = request[r].token /\ x.entity = request[r].entity /\ x.stored = o
    BY <1>1, <1>2 DEF RequestRecord
<1> HIDE DEF x
<1>5. Proper(x, ids, tokens)
    BY <1>1, <1>2, <1>4 DEF Proper, Placed, Holding
<1> QED
    BY <1>3, <1>5, MoveTyped DEF Select

LEMMA NewUserTyped ==
    ASSUME Typed, NEW via \in {"discord", "email"}, NewUser(via), UNCHANGED revived
    PROVE  /\ AccountTyped' /\ ids' \in Nat /\ ids' = ids + 1
           /\ UNCHANGED redis => RedisTyped'
           /\ UNCHANGED sessions => SessionsTyped'
           /\ UNCHANGED <<started, faults, gdpr, erased>> => RestTyped'
           /\ UNCHANGED tokens => Grows(ids, tokens, ids', tokens')
<1>1. ids' = ids + 1 /\ ids' \in 0..MaxIds /\ ids' \in 1..MaxIds
    BY TypedFacts, SessionsAssumption DEF NewUser
<1>2. user' \in Row /\ user'.id = ids'
    BY <1>1 DEF NewUser, Row
<1>3. \A S : S \subseteq 1..ids => S \subseteq 1..ids'
    BY <1>1, TypedFacts
<1>4. AccountTyped'
    BY <1>1, <1>2, <1>3, TypedParts DEF NewUser, AccountTyped, Fresh, Decision
<1>5. UNCHANGED sessions => SessionsTyped'
    BY <1>1, TypedFacts, TypedParts DEF sessions, SessionsTyped, TokensFit, Token
<1>6. UNCHANGED redis => RedisTyped'
    BY <1>1, <1>3, TypedParts DEF redis, RedisTyped
<1>7. UNCHANGED <<started, faults, gdpr, erased>> => RestTyped'
    BY <1>1, <1>3, TypedParts DEF RestTyped
<1>8. UNCHANGED tokens => Grows(ids, tokens, ids', tokens')
    BY <1>1, TypedFacts DEF Grows
<1> QED
    BY <1>1, <1>4, <1>5, <1>6, <1>7, <1>8, TypedFacts

LEMMA UpsertTyped == ASSUME Typed, NEW r \in Request, Upsert(r) PROVE Typed'
<1>1. /\ At(r, "upsert") /\ Placed(request[r]) /\ Holding(request[r], ids, tokens)
      /\ request[r].pc = "upsert" /\ "reread" \in Steps
    BY AtProper DEF Upsert, Steps
<1>2. Moves(r)
    BY <1>1, EndMoves, GotoMoves DEF Upsert, Placed, Holding, Callbacks, Own
<1>3. CASE NewUser("discord")
    <2>1. UNCHANGED tokens
        BY DEF Upsert, sessions
    <2> QED
        BY <1>2, <1>3, <2>1, NewUserTyped, MovesOn DEF Upsert
<1>4. CASE /\ user.via = "discord" /\ user' = Refreshed(user)
           /\ UNCHANGED <<api, ids, told, loose>>
    <2>1. user \in Row /\ user.id \in 1..ids
        BY <1>4, TypedFacts DEF NoUser
    <2>2. Refreshed(user) \in Row /\ Refreshed(user).id = user.id
        BY <2>1 DEF Refreshed, Row
    <2>3. AccountTyped'
        BY <1>4, <2>1, <2>2, TypedParts, TypedFacts DEF AccountTyped, Upsert
    <2> QED
        BY <1>2, <1>4, <2>3, UnchangedTyped, MovesOn DEF Upsert, sessions
<1>5. CASE End(r) /\ UNCHANGED <<api, user, ids, told, loose>>
    BY <1>5, EndTyped DEF Upsert, account
<1> QED
    BY <1>3, <1>4, <1>5 DEF Upsert

LEMMA InsertTyped == ASSUME Typed, NEW r \in Request, Insert(r) PROVE Typed'
<1>1. /\ At(r, "insert") /\ Placed(request[r]) /\ Holding(request[r], ids, tokens)
      /\ request[r].pc = "insert" /\ request[r] \in RequestRecord
    BY AtProper DEF Insert
<1>2. ASSUME NewUser("email"), request' = [request EXCEPT ![r].pc = "workspace", ![r].id = ids']
      PROVE  Typed'
    <2> DEFINE x == [request[r] EXCEPT !.pc = "workspace", !.id = ids']
    <2>1. ids' = ids + 1 /\ ids' \in 0..MaxIds /\ "workspace" \in Steps
        BY <1>2, TypedFacts, SessionsAssumption DEF NewUser, Steps
    <2>2. request' = [request EXCEPT ![r] = x]
        BY <1>2
    <2>3. /\ x \in RequestRecord /\ x.pc = "workspace" /\ x.kind = request[r].kind /\ x.id = ids'
          /\ x.token = request[r].token
        BY <1>1, <2>1 DEF RequestRecord
    <2> HIDE DEF x
    <2>4. Proper(x, ids', tokens)
        BY <1>1, <2>1, <2>3, TypedFacts DEF Proper, Placed, Holding, Callbacks, Own
    <2>5. UNCHANGED <<revived, redis, sessions, tokens, gdpr, started, faults, erased>>
        BY DEF Insert, sessions
    <2> QED
        BY <1>2, <2>2, <2>4, <2>5, NewUserTyped, PutTyped
<1> QED
    BY <1>2, EndTyped DEF Insert, account

\* What is saved is a row of the same id.
LEMMA MergeTyped ==
    ASSUME NEW row \in Row, NEW e \in Row, NEW old
    PROVE  Merge(row, e, old) \in Row /\ Merge(row, e, old).id = row.id
<1> DEFINE s == IF e.status # old.status THEN e.status ELSE row.status
           p == IF e.plan # old.plan THEN e.plan ELSE row.plan
           f == IF e.profile # old.profile THEN e.profile ELSE row.profile
<1>1. s \in {"active", "banned"} /\ p \in {"free", "paid"} /\ f \in 0..1
    BY DEF Row
<1>2. Merge(row, e, old) = [row EXCEPT !.status = s, !.plan = p, !.profile = f]
    BY DEF Merge, Row
<1> HIDE DEF s, p, f
<1> QED
    BY <1>1, <1>2 DEF Row

LEMMA MergeDecides ==
    ASSUME NEW row \in Row, NEW e \in Row, NEW old, NEW c \in Decided
    PROVE  Merge(row, e, old)[c] = IF e[c] # old[c] THEN e[c] ELSE row[c]
<1> DEFINE s == IF e.status # old.status THEN e.status ELSE row.status
           p == IF e.plan # old.plan THEN e.plan ELSE row.plan
           f == IF e.profile # old.profile THEN e.profile ELSE row.profile
<1>2. Merge(row, e, old) = [row EXCEPT !.status = s, !.plan = p, !.profile = f]
    BY DEF Merge, Row
<1>3. Merge(row, e, old).status = s /\ Merge(row, e, old).plan = p
    <2> HIDE DEF s, p, f
    <2> QED
        BY <1>2 DEF Row
<1> QED
    BY <1>3 DEF Decided

\* A decision is a status and a plan.
LEMMA DecisionTyped ==
    ASSUME NEW d, d = [c \in Decided |-> d[c]], d["status"] \in {"active", "banned"}, d["plan"] \in {"free", "paid"}
    PROVE  d \in Decision
BY DEF Decision, Decided

LEMMA AfterwardsMoves ==
    ASSUME Typed, NEW r \in Request, At(r, "save")
    PROVE  Afterwards(r) = Idle \/ Proper(Afterwards(r), ids, tokens)
<1>1. /\ Placed(request[r]) /\ Holding(request[r], ids, tokens) /\ request[r].pc = "save"
      /\ request[r] \in RequestRecord
    BY AtProper
<1>2. CASE Is(r, {"login"})
    <2> DEFINE pc == IF api = "admin" THEN "session" ELSE "workspace"
               x == [request[r] EXCEPT !.pc = pc]
    <2>1. Afterwards(r) = x
        BY <1>2 DEF Afterwards
    <2>2. pc \in Steps /\ pc \in {"session", "workspace"}
        BY DEF Steps
    <2> HIDE DEF pc
    <2>3. /\ x \in RequestRecord /\ x.pc = pc /\ x.kind = request[r].kind /\ x.id = request[r].id
          /\ x.token = request[r].token
        BY <1>1, <2>2, WithPc
    <2> HIDE DEF x
    <2> QED
        BY <1>1, <1>2, <2>1, <2>2, <2>3 DEF Is, Proper, Placed, Holding, Own
<1> QED
    BY <1>2 DEF Afterwards

LEMMA SaveTyped == ASSUME Typed, NEW r \in Request, Save(r) PROVE Typed'
<1> DEFINE e == request[r].entity
           old == request[r].stored
<1>1. /\ At(r, "save") /\ Placed(request[r]) /\ Holding(request[r], ids, tokens)
      /\ request[r].pc = "save" /\ request[r] \in RequestRecord
    BY AtProper DEF Save
<1>2. /\ e \in Row /\ e.id \in 1..ids /\ request[r].late \subseteq Decided \cup {"erased"}
      /\ e.status \in {"active", "banned"} /\ e.plan \in {"free", "paid"}
    BY <1>1, TypedFacts DEF Holding, RequestRecord, Row
<1>3. Decides(r) \subseteq Decided
    BY DEF Decides, Decided, Is
<1>4. Afterwards(r) = Idle \/ Proper(Afterwards(r), ids, tokens)
    BY <1>1, AfterwardsMoves
<1>5. UNCHANGED <<api, ids, redis, sessions, tokens, gdpr, started, faults, erased>>
    BY DEF Save, sessions
<1>6. ASSUME AccountTyped',
             \E what \in SUBSET (Decided \cup {"erased"}) : Overtaken(r, what, Afterwards(r))
      PROVE  Typed'
    <2>1. RequestsFit(request', ids, tokens)
        BY <1>4, <1>6, TypedFacts, OvertakenFits
    <2>2. (AccountTyped /\ RedisTyped /\ SessionsTyped /\ RestTyped /\ RequestsFit(request, ids, tokens))'
        BY <1>5, <1>6, <2>1, UnchangedTyped
    <2> QED
        BY <2>2, TypedParts, PTL
<1>7. CASE /\ old = NoUser /\ user = NoUser
           /\ user' = e /\ told' = [c \in Decided |-> e[c]] /\ loose' = {}
           /\ revived' = revived \cup {e.id}
           /\ Overtaken(r, Decided, Afterwards(r))
    <2>1. told' \in Decision
        <3>1. told' = [c \in Decided |-> told'[c]] /\ told'["status"] = e["status"] /\ told'["plan"] = e["plan"]
            BY <1>7 DEF Decided
        <3>2. e["status"] \in {"active", "banned"} /\ e["plan"] \in {"free", "paid"}
            BY <1>2
        <3> QED
            BY <3>1, <3>2, DecisionTyped
    <2>2. AccountTyped'
        BY <1>2, <1>5, <1>7, <2>1, TypedParts, TypedFacts DEF AccountTyped
    <2> QED
        BY <1>6, <1>7, <2>2
<1>8. CASE End(r) /\ UNCHANGED <<user, told, loose, revived>>
    BY <1>5, <1>8, EndTyped DEF account
<1>9. CASE /\ old # NoUser /\ Has(old.id)
           /\ user' = Merge(user, e, old)
           /\ told' = [c \in Decided |-> IF c \in Decides(r) THEN e[c] ELSE told[c]]
           /\ loose' = (loose \ Decides(r)) \cup (request[r].late \cap Decided)
           /\ Overtaken(r, Decides(r) \cup (request[r].late \cap Decided), Afterwards(r))
           /\ UNCHANGED revived
    <2>1. told' \in Decision
        <3>1. told' = [c \in Decided |-> told'[c]]
              /\ told'["status"] \in {e["status"], told["status"]} /\ told'["plan"] \in {e["plan"], told["plan"]}
            BY <1>9 DEF Decided
        <3>2. e["status"] \in {"active", "banned"} /\ e["plan"] \in {"free", "paid"}
            BY <1>2
        <3>3. told["status"] \in {"active", "banned"} /\ told["plan"] \in {"free", "paid"}
            BY TypedParts DEF AccountTyped, Decision
        <3> QED
            BY <3>1, <3>2, <3>3, DecisionTyped
    <2>2. user \in Row /\ user.id \in 1..ids
        BY <1>9, TypedFacts DEF Has, NoUser
    <2>3. user' \in Row /\ user'.id = user.id
        BY <1>2, <1>9, <2>2, MergeTyped
    <2>4. AccountTyped'
        BY <1>3, <1>5, <1>9, <2>1, <2>2, <2>3, TypedParts, TypedFacts DEF AccountTyped
    <2>5. Decides(r) \cup (request[r].late \cap Decided) \in SUBSET (Decided \cup {"erased"})
        BY <1>3
    <2> QED
        BY <1>6, <1>9, <2>4, <2>5
<1>10. CASE request' = [request EXCEPT ![r] = Afterwards(r)] /\ UNCHANGED <<user, told, loose, revived>>
    BY <1>4, <1>5, <1>10, MoveTyped DEF account
<1> QED
    BY <1>7, <1>8, <1>9, <1>10 DEF Save

LEMMA StoreTyped == ASSUME Typed, NEW r \in Request, StoreDiscordToken(r) PROVE Typed'
<1>1. request[r].id \in 1..ids
    <2>1. /\ request[r].pc = "store" /\ Holding(request[r], ids, tokens) /\ request[r] \in RequestRecord
        BY AtProper DEF StoreDiscordToken
    <2>2. request[r].id \in 0..MaxIds /\ request[r].id # 0 /\ request[r].id <= ids
        BY <2>1 DEF RequestRecord, Holding
    <2> QED
        BY <2>2, TypedFacts, SessionsAssumption
<1>2. AccountTyped' /\ RedisTyped'
    BY <1>1, TypedParts DEF StoreDiscordToken, AccountTyped, RedisTyped
<1> QED
    BY <1>2, TypedFacts, UnchangedTyped, EndMoves, MovesOn DEF StoreDiscordToken, sessions

LEMMA FindTokenTyped == ASSUME Typed, NEW r \in Request, FindToken(r) PROVE Typed'
<1> DEFINE t == request[r].token
<1>1. /\ At(r, "token") /\ Placed(request[r]) /\ Holding(request[r], ids, tokens)
      /\ request[r].pc = "token" /\ request[r] \in RequestRecord /\ request[r].kind = "refresh"
    BY AtProper DEF FindToken, Is
<1>2. t \in DOMAIN tokens /\ t \in 1..MaxTokens
    BY <1>1, TypedFacts, SessionsAssumption DEF Holding, RequestRecord, Typed, TokensFit
<1>3. tokens[t].id \in 0..MaxIds /\ tokens[t].id <= ids
    BY <1>2, TypedFacts, TypedParts DEF Token, SessionsTyped, TokensFit
<1>4. ASSUME NEW pc \in {"revokeAll", "user"},
             request' = [request EXCEPT ![r].pc = pc, ![r].id = tokens[t].id]
      PROVE  Moves(r)
    <2> DEFINE x == [request[r] EXCEPT !.pc = pc, !.id = tokens[t].id]
    <2>1. request' = [request EXCEPT ![r] = x]
        BY <1>4
    <2>2. /\ x \in RequestRecord /\ x.pc = pc /\ x.kind = request[r].kind /\ x.id = tokens[t].id
          /\ x.token = request[r].token
        BY <1>1, <1>3 DEF RequestRecord, Steps
    <2> HIDE DEF x
    <2>3. Proper(x, ids, tokens)
        BY <1>1, <1>3, <2>2 DEF Proper, Placed, Holding, Own
    <2> QED
        BY <2>1, <2>3 DEF Moves
<1>5. Moves(r)
    BY <1>4, EndMoves DEF FindToken
<1>6. SessionsTyped'
    BY <1>2, TypedParts DEF FindToken, SessionsTyped, account
<1> QED
    BY <1>5, <1>6, TypedFacts, UnchangedTyped, MovesOn DEF FindToken, account

\* A session adds a token, of the session that it continues.
LEMMA SessionAdded ==
    ASSUME Typed, NEW r \in Request, At(r, "session"), Has(request[r].id), Len(tokens) < MaxTokens,
           tokens' = Append(tokens,
                [id |-> request[r].id, parent |-> request[r].token, row |-> TRUE, revoked |-> FALSE,
                 expired |-> FALSE,
                 session |-> IF request[r].token = 0 THEN Len(tokens) + 1 ELSE tokens[request[r].token].session])
    PROVE  /\ Len(tokens') = Len(tokens) + 1 /\ DOMAIN tokens' = 1..(Len(tokens) + 1)
           /\ \A t \in DOMAIN tokens : tokens'[t] = tokens[t]
           /\ LET u == tokens'[Len(tokens) + 1] IN
              /\ u.id = request[r].id /\ u.parent = request[r].token
              /\ u.row /\ ~u.revoked /\ ~u.expired
              /\ request[r].token = 0 => u.session = Len(tokens) + 1
              /\ request[r].token # 0 => /\ request[r].token \in DOMAIN tokens
                                         /\ request[r].kind = "refresh"
                                         /\ tokens[request[r].token].id = request[r].id
                                         /\ u.session = tokens[request[r].token].session
           /\ TokensFit(tokens', ids)
<1> DEFINE p == request[r].token
           s == IF p = 0 THEN Len(tokens) + 1 ELSE tokens[p].session
           u == [id |-> request[r].id, parent |-> p, row |-> TRUE, revoked |-> FALSE, expired |-> FALSE, session |-> s]
<1>1. /\ Placed(request[r]) /\ Holding(request[r], ids, tokens) /\ request[r].pc = "session"
      /\ request[r] \in RequestRecord
    BY AtProper
<1>2. p \in 0..MaxTokens /\ p <= Len(tokens) /\ (p # 0 => p \in DOMAIN tokens) /\ Len(tokens) \in Nat
    BY <1>1, TypedFacts DEF RequestRecord, Holding
<1>3. p # 0 => request[r].kind = "refresh" /\ tokens[p].id = request[r].id
    BY <1>1 DEF Placed, Holding, Callbacks
<1>4. request[r].id \in 1..MaxIds /\ request[r].id <= ids
    BY TypedFacts DEF Has, NoUser, Row
<1>5. TokensFit(tokens, ids)
    BY TypedParts DEF SessionsTyped
<1>6. s \in 1..MaxTokens /\ s <= Len(tokens) + 1 /\ (p # 0 => s <= Len(tokens))
    BY <1>2, <1>5, TypedFacts, SessionsAssumption DEF TokensFit, Token
<1> HIDE DEF s
<1>7. u \in Token
    BY <1>2, <1>4, <1>6 DEF Token
<1>8. /\ u.id = request[r].id /\ u.parent = p /\ u.session = s /\ u.row = TRUE /\ u.revoked = FALSE
      /\ u.expired = FALSE
    OBVIOUS
<1>9. tokens' = Append(tokens, u)
    BY DEF s
<1> HIDE DEF u
<1>10. /\ tokens' \in Seq(Token) /\ Len(tokens') = Len(tokens) + 1 /\ DOMAIN tokens' = 1..(Len(tokens) + 1)
       /\ \A t \in DOMAIN tokens : tokens'[t] = tokens[t]
       /\ tokens'[Len(tokens) + 1] = u
    BY <1>7, <1>9, TypedFacts
<1>11. TokensFit(tokens', ids)
    <2>4. \A t \in DOMAIN tokens :
             /\ tokens[t].id <= ids /\ tokens[t].session <= Len(tokens) /\ tokens[t].parent <= Len(tokens)
             /\ tokens[t].session \in Nat /\ tokens[t].parent \in Nat
             /\ \A v \in DOMAIN tokens : tokens[t].session = tokens[v].session => tokens[t].id = tokens[v].id
        <3>1. \A t \in DOMAIN tokens : tokens[t].session \in Nat /\ tokens[t].parent \in Nat
            <4>1. \A t \in DOMAIN tokens : tokens[t] \in Token
                BY TypedFacts
            <4> QED
                BY <4>1, SessionsAssumption DEF Token
        <3> QED
            BY <1>5, <3>1 DEF TokensFit
    <2>5. s \in Nat /\ p \in Nat /\ Len(tokens) \in Nat
        BY <1>2, <1>6
    <2>1. \A t \in DOMAIN tokens' : tokens'[t].id <= ids /\ tokens'[t].session <= Len(tokens')
                                    /\ tokens'[t].parent <= Len(tokens')
        <3>1. ASSUME NEW t \in DOMAIN tokens
              PROVE  tokens[t].session <= Len(tokens) + 1 /\ tokens[t].parent <= Len(tokens) + 1
            BY <2>4, <2>5
        <3>2. p <= Len(tokens) + 1
            BY <1>2, <2>5
        <3>3. \A t \in DOMAIN tokens' : t \in DOMAIN tokens \/ t = Len(tokens) + 1
            BY <1>2, <1>10, TypedFacts
        <3> QED
            BY <1>4, <1>6, <1>8, <1>10, <2>4, <3>1, <3>2, <3>3
    <2>2. \A t \in DOMAIN tokens : tokens[t].session = s => tokens[t].id = request[r].id
        <3>1. p = 0 => \A t \in DOMAIN tokens : tokens[t].session # Len(tokens) + 1
            BY <1>2, <2>4
        <3> QED
            BY <1>2, <1>3, <2>4, <3>1 DEF s
    <2>3. \A t, v \in DOMAIN tokens' : tokens'[t].session = tokens'[v].session => tokens'[t].id = tokens'[v].id
        BY <1>5, <1>8, <1>10, <2>2, TypedFacts DEF TokensFit
    <2>6. tokens' \in Seq(Token) /\ Len(tokens') <= MaxTokens
        BY <1>2, <1>10, SessionsAssumption
    <2> QED
        BY <2>1, <2>3, <2>6 DEF TokensFit
<1>12. /\ p = 0 => s = Len(tokens) + 1
       /\ p # 0 => s = tokens[p].session
    BY DEF s
<1> QED
    BY <1>2, <1>3, <1>8, <1>10, <1>11, <1>12

LEMMA CreateSessionTyped == ASSUME Typed, NEW r \in Request, CreateSession(r) PROVE Typed'
<1>1. /\ Placed(request[r]) /\ Holding(request[r], ids, tokens) /\ request[r].pc = "session"
      /\ At(r, "session") /\ request[r] \in RequestRecord
    BY AtProper DEF CreateSession
<1>2. CASE Has(request[r].id) /\ Len(tokens) < MaxTokens
    <2>1. TokensFit(tokens', ids') /\ Len(tokens') = Len(tokens) + 1 /\ Grows(ids, tokens, ids', tokens')
        BY <1>1, <1>2, SessionAdded, TypedFacts DEF CreateSession, account, Grows
    <2>2. SessionsTyped'
        BY <2>1, TypedParts, TypedFacts DEF CreateSession, SessionsTyped, account
    <2>3. Moves(r)
        <3>1. CASE Is(r, Callbacks) /\ Goto(r, "store")
            BY <1>1, <1>2, <3>1, GotoMoves DEF Steps, Placed, Holding, Callbacks, Own, Has, Is
        <3> QED
            BY <1>2, <3>1, EndMoves DEF CreateSession
    <2> QED
        BY <2>1, <2>2, <2>3, UnchangedTyped, MovesOn DEF CreateSession, account
<1> QED
    BY <1>2, EndTyped DEF CreateSession, sessions

\* Tokens change in place, and one request.
LEMMA InPlaceTyped ==
    ASSUME Typed, NEW r \in Request, Moves(r), AccountTyped', ids' = ids,
           tokens' = [t \in DOMAIN tokens |-> tokens'[t]],
           \A t \in DOMAIN tokens : /\ tokens'[t] \in Token /\ tokens'[t].id = tokens[t].id
                                    /\ tokens'[t].session = tokens[t].session
                                    /\ tokens'[t].parent = tokens[t].parent,
           ended' \subseteq 1..Len(tokens), UNCHANGED <<redis, raced, gdpr, started, faults, erased>>
    PROVE  Typed'
<1>1. TokensFit(tokens', ids) /\ Len(tokens') = Len(tokens) /\ Grows(ids, tokens, ids, tokens')
    BY TypedFacts, TypedParts, EditedTokens DEF SessionsTyped
<1>2. SessionsTyped'
    BY <1>1, TypedParts DEF SessionsTyped
<1> QED
    BY <1>1, <1>2, UnchangedTyped, MovesOn

LEMMA RevokeTokens ==
    ASSUME Typed, NEW r \in Request, Revoke(r)
    PROVE  /\ tokens' = [t \in DOMAIN tokens |-> tokens'[t]]
           /\ \A t \in DOMAIN tokens :
                 /\ tokens'[t] \in Token /\ tokens'[t].id = tokens[t].id
                 /\ tokens'[t].session = tokens[t].session /\ tokens'[t].parent = tokens[t].parent
                 /\ tokens[t].revoked => tokens'[t].revoked
                 /\ tokens'[t].row => tokens[t].row \/ (tokens'[t].revoked /\ Has(tokens[t].id))
                 /\ tokens'[t].expired = tokens[t].expired
<1> DEFINE t == request[r].token
<1>1. tokens = [u \in DOMAIN tokens |-> tokens[u]] /\ \A u \in DOMAIN tokens : tokens[u] \in Token
    BY TypedFacts
<1>2. CASE tokens' = [tokens EXCEPT ![t].revoked = TRUE, ![t].row = TRUE] /\ (tokens[t].row \/ Has(tokens[t].id))
    <2> DEFINE x == [tokens[t] EXCEPT !.revoked = TRUE, !.row = TRUE]
    <2>1. tokens' = [tokens EXCEPT ![t] = x]
        BY <1>1, <1>2
    <2>2. t \in DOMAIN tokens => /\ x \in Token /\ x.id = tokens[t].id /\ x.session = tokens[t].session
                                 /\ x.parent = tokens[t].parent /\ x.revoked = TRUE
                                 /\ x.expired = tokens[t].expired
        BY <1>1 DEF Token
    <2> HIDE DEF x
    <2>3. \A u \in DOMAIN tokens : tokens'[u] = IF u = t THEN x ELSE tokens[u]
        BY <1>1, <2>1
    <2>4. tokens' = [u \in DOMAIN tokens |-> tokens'[u]]
        BY <1>1, <2>1
    <2> QED
        BY <1>1, <1>2, <2>2, <2>3, <2>4
<1> QED
    BY <1>1, <1>2 DEF Revoke

LEMMA RevokeTyped == ASSUME Typed, NEW r \in Request, Revoke(r) PROVE Typed'
<1>1. /\ At(r, "revoke") /\ Placed(request[r]) /\ Holding(request[r], ids, tokens)
      /\ request[r].pc = "revoke" /\ "session" \in Steps /\ "forget" \in Steps
    BY AtProper DEF Revoke, Steps
<1>2. ASSUME request[r].kind = "refresh", Goto(r, "session") PROVE Moves(r)
    BY <1>1, <1>2, GotoMoves DEF Placed, Holding, Callbacks, Own
<1>3. ASSUME request[r].kind = "logout", Goto(r, "forget") PROVE Moves(r)
    BY <1>1, <1>3, GotoMoves DEF Placed, Holding, Callbacks, Own
<1>4. Moves(r)
    BY <1>1, <1>2, <1>3, EndMoves DEF Revoke, Is, LoggedOut, Placed
<1>5. ended' \subseteq 1..Len(tokens)
    BY DEF Revoke, Typed
<1> QED
    BY <1>4, <1>5, RevokeTokens, InPlaceTyped, UnchangedTyped DEF Revoke, account

LEMMA RevokeAllTokens ==
    ASSUME Typed, NEW r \in Request, RevokeAll(r)
    PROVE  /\ tokens' = [t \in DOMAIN tokens |-> tokens'[t]]
           /\ \A t \in DOMAIN tokens :
                 /\ tokens'[t] \in Token /\ tokens'[t].id = tokens[t].id
                 /\ tokens'[t].session = tokens[t].session /\ tokens'[t].parent = tokens[t].parent
                 /\ tokens[t].revoked => tokens'[t].revoked
                 /\ tokens[t].row /\ tokens[t].id = request[r].id => tokens'[t].revoked
                 /\ tokens'[t].row = tokens[t].row
                 /\ tokens'[t].expired = tokens[t].expired
<1>1. \A t \in DOMAIN tokens : tokens[t] \in Token
    BY TypedFacts
<1>2. tokens' = [t \in DOMAIN tokens |->
                    IF tokens[t].row /\ tokens[t].id = request[r].id THEN [tokens[t] EXCEPT !.revoked = TRUE]
                    ELSE tokens[t]]
    BY DEF RevokeAll
<1>3. ASSUME NEW t \in DOMAIN tokens
      PROVE  LET x == [tokens[t] EXCEPT !.revoked = TRUE] IN
             /\ x \in Token /\ x.id = tokens[t].id /\ x.session = tokens[t].session
             /\ x.parent = tokens[t].parent /\ x.revoked = TRUE
             /\ x.row = tokens[t].row /\ x.expired = tokens[t].expired
    BY <1>1 DEF Token
<1> QED
    BY <1>1, <1>2, <1>3

LEMMA RevokeAllTyped == ASSUME Typed, NEW r \in Request, RevokeAll(r) PROVE Typed'
<1>1. \A t \in DOMAIN tokens : tokens[t].session \in 1..Len(tokens)
    BY TypedFacts, TypedParts DEF SessionsTyped, TokensFit, Token
<1>2. ended' \subseteq 1..Len(tokens)
    BY <1>1 DEF RevokeAll, Typed
<1> QED
    BY <1>2, RevokeAllTokens, EndMoves, InPlaceTyped, UnchangedTyped DEF RevokeAll, account

LEMMA EraseTokens ==
    ASSUME Typed, NEW r \in Request, Erase(r)
    PROVE  /\ tokens' = [t \in DOMAIN tokens |-> tokens'[t]]
           /\ \A t \in DOMAIN tokens :
                 /\ tokens'[t] \in Token /\ tokens'[t].id = tokens[t].id
                 /\ tokens'[t].session = tokens[t].session /\ tokens'[t].parent = tokens[t].parent
                 /\ tokens'[t].revoked = tokens[t].revoked /\ tokens'[t].expired = tokens[t].expired
                 /\ tokens'[t].row => tokens[t].row /\ tokens[t].id # request[r].id
<1>1. \A t \in DOMAIN tokens : tokens[t] \in Token
    BY TypedFacts
<1>2. tokens' = [t \in DOMAIN tokens |->
                    [tokens[t] EXCEPT !.row = tokens[t].row /\ tokens[t].id # request[r].id]]
    BY DEF Erase
<1>3. ASSUME NEW t \in DOMAIN tokens, NEW b \in BOOLEAN
      PROVE  LET x == [tokens[t] EXCEPT !.row = b] IN
             /\ x \in Token /\ x.id = tokens[t].id /\ x.session = tokens[t].session
             /\ x.parent = tokens[t].parent /\ x.revoked = tokens[t].revoked
             /\ x.row = b /\ x.expired = tokens[t].expired
    BY <1>1 DEF Token
<1>4. ASSUME NEW t \in DOMAIN tokens
      PROVE  /\ tokens'[t] \in Token /\ tokens'[t].id = tokens[t].id
             /\ tokens'[t].session = tokens[t].session /\ tokens'[t].parent = tokens[t].parent
             /\ tokens'[t].revoked = tokens[t].revoked /\ tokens'[t].expired = tokens[t].expired
             /\ tokens'[t].row => tokens[t].row /\ tokens[t].id # request[r].id
    <2> DEFINE b == tokens[t].row /\ tokens[t].id # request[r].id
    <2>1. b \in BOOLEAN
        BY <1>1 DEF Token
    <2>2. tokens'[t] = [tokens[t] EXCEPT !.row = b]
        BY <1>2, <1>4
    <2>3. /\ tokens'[t] \in Token /\ tokens'[t].id = tokens[t].id
          /\ tokens'[t].session = tokens[t].session /\ tokens'[t].parent = tokens[t].parent
          /\ tokens'[t].revoked = tokens[t].revoked /\ tokens'[t].expired = tokens[t].expired
          /\ tokens'[t].row = b
        <3> HIDE DEF b
        <3> QED
            BY <1>3, <2>1, <2>2
    <2> QED
        BY <2>3
<1> QED
    BY <1>2, <1>4

LEMMA EraseTyped == ASSUME Typed, NEW r \in Request, Erase(r) PROVE Typed'
<1>1. /\ At(r, "erase") /\ Placed(request[r]) /\ Holding(request[r], ids, tokens)
      /\ request[r].pc = "erase" /\ request[r] \in RequestRecord /\ user \in Row \cup {NoUser}
    BY AtProper, TypedParts DEF Erase, AccountTyped
<1> DEFINE x == [request[r] EXCEPT !.pc = "forget", !.entity = user]
<1>2. /\ x \in RequestRecord /\ x.pc = "forget" /\ x.kind = request[r].kind /\ x.id = request[r].id
      /\ x.token = request[r].token
    BY <1>1 DEF RequestRecord, Steps
<1>3. Overtaken(r, {"erased"}, x)
    BY DEF Erase
<1> HIDE DEF x
<1>4. Proper(x, ids, tokens)
    BY <1>1, <1>2 DEF Proper, Placed, Holding, Own
<1>5. TokensFit(tokens', ids) /\ Len(tokens') = Len(tokens) /\ Grows(ids, tokens, ids, tokens')
    BY TypedFacts, TypedParts, EraseTokens, EditedTokens DEF SessionsTyped
<1>6. tokens' \in Seq(Token)
    BY <1>5 DEF TokensFit
<1>7. RequestsFit(request', ids, tokens')
    BY <1>3, <1>4, <1>5, <1>6, TypedFacts, OvertakenFits, HoldingKept
<1>8. AccountTyped'
    BY TypedParts DEF Erase, AccountTyped
<1>9. SessionsTyped'
    BY <1>5, TypedParts DEF Erase, SessionsTyped
<1>10. UNCHANGED <<ids, redis, started, faults, gdpr, erased>>
    BY <1>1 DEF Erase
<1>11. (AccountTyped /\ RedisTyped /\ SessionsTyped /\ RestTyped /\ RequestsFit(request, ids, tokens))'
    <2> HIDE <1>1
    <2> QED
        BY <1>7, <1>8, <1>9, <1>10, UnchangedTyped
<1> QED
    BY <1>11, TypedParts, PTL

LEMMA ForgetTyped == ASSUME Typed, NEW r \in Request, Forget(r) PROVE Typed'
<1>1. /\ At(r, "forget") /\ Placed(request[r]) /\ Holding(request[r], ids, tokens)
      /\ request[r].pc = "forget" /\ "job" \in Steps
    BY AtProper DEF Forget, Steps
<1>2. RedisTyped'
    BY TypedParts DEF Forget, RedisTyped, account
<1>3. Moves(r)
    BY <1>1, EndMoves, GotoMoves DEF Forget, Placed, Holding, Is
<1> QED
    BY <1>2, <1>3, TypedFacts, UnchangedTyped, MovesOn DEF Forget, account, sessions

LEMMA AddGdprJobTyped == ASSUME Typed, NEW r \in Request, AddGdprJob(r) PROVE Typed'
<1>1. request[r].id \in 1..ids
    <2>1. /\ request[r].pc = "job" /\ Holding(request[r], ids, tokens) /\ request[r] \in RequestRecord
        BY AtProper DEF AddGdprJob
    <2>2. request[r].id \in 0..MaxIds /\ request[r].id # 0 /\ request[r].id <= ids
        BY <2>1 DEF RequestRecord, Holding
    <2> QED
        BY <2>2, TypedFacts, SessionsAssumption
<1>2. RestTyped'
    BY <1>1, TypedParts DEF AddGdprJob, RestTyped, account
<1> QED
    BY <1>2, TypedFacts, UnchangedTyped, EndMoves, MovesOn DEF AddGdprJob, account, sessions

LEMMA TypedStep == Typed /\ [Next]_vars => Typed'
<1> SUFFICES ASSUME Typed, [Next]_vars PROVE Typed'
    OBVIOUS
<1>1. CASE Time
    BY <1>1, TimeTyped
<1>2. ASSUME NEW r \in Request, Start(r) \/ StartOfUser(r) \/ Fails(r) PROVE Typed'
    BY <1>2, StartsTyped
<1>3. ASSUME NEW r \in Request, OAuth(r) PROVE Typed'
    BY <1>3, ReadStateTyped, DelStateTyped, MovesTyped, UpsertTyped, RereadTyped DEF OAuth
<1>4. ASSUME NEW r \in Request, Users(r) PROVE Typed'
    BY <1>4, FindTyped, MovesTyped, InsertTyped, SelectTyped, SaveTyped, CreateSessionTyped, StoreTyped DEF Users
<1>5. ASSUME NEW r \in Request, Holders(r) PROVE Typed'
    BY <1>5, FindTokenTyped, MovesTyped, RevokeTyped, RevokeAllTyped, EraseTyped, ForgetTyped, AddGdprJobTyped
       DEF Holders
<1>6. CASE UNCHANGED vars
    <2>1. UNCHANGED <<account, redis, sessions, ids, tokens, started, faults, gdpr, erased, request>>
        BY <1>6 DEF vars, account, sessions
    <2> QED
        BY <2>1, UnchangedTyped, SameRequestsTyped
<1> QED
    BY <1>1, <1>2, <1>3, <1>4, <1>5, <1>6 DEF Next

LEMMA TypedInit == Init => Typed
<1> SUFFICES ASSUME Init PROVE Typed
    OBVIOUS
<1>1. RequestsFit(request, ids, tokens)
    BY DEF Init, RequestsFit
<1>2. TokensFit(tokens, ids)
    BY SessionsAssumption DEF Init, TokensFit
<1>3. AccountTyped
    BY SessionsAssumption DEF Init, AccountTyped, Row, Decision, Fresh, NoUser
<1>4. RedisTyped /\ RestTyped /\ SessionsTyped
    BY <1>2, SessionsAssumption DEF Init, RedisTyped, RestTyped, SessionsTyped
<1> QED
    BY <1>1, <1>3, <1>4, TypedParts

\* Whatever requests, deletions and failures do in between, every row, token and request is one
\* that the code knows; a session is of one user only, and what a request is about to use (the
\* token of a refresh, the id of a deletion, the row of a save) is there and belongs together.
THEOREM SessionTypes == Spec => [](Typed /\ TypeOK)
<1>1. Typed => TypeOK
    BY DEF Typed
<1> QED
    BY <1>1, TypedInit, TypedStep, PTL DEF Spec

-------------------------------------------------------------------------------
(* What a step does to the requests.                                       *)

Kept(q, x) ==
    /\ x.kind = q.kind /\ x.id = q.id /\ x.token = q.token /\ x.state = q.state /\ x.found = q.found
    /\ x.entity = q.entity /\ x.stored = q.stored /\ q.late \subseteq x.late

PlainMoves ==
    {<<"del", "exchange">>, <<"exchange", "upsert">>, <<"upsert", "reread">>, <<"find", "insert">>,
     <<"workspace", "session">>, <<"session", "store">>, <<"user", "revoke">>, <<"revoke", "session">>,
     <<"guard", "token">>, <<"guard", "find">>, <<"guard", "erase">>, <<"token", "revoke">>,
     <<"token", "forget">>, <<"revoke", "forget">>, <<"forget", "job">>}

\* One request ends, or goes on and takes nothing with it that it did not have.
Plain(r) ==
    /\ \A q \in Request \ {r} : request'[q] = request[q]
    /\ request'[r] # Idle =>
          /\ request[r] # Idle /\ Kept(request[r], request'[r])
          /\ <<request[r].pc, request'[r].pc>> \in PlainMoves
          /\ request[r].pc = "token" \/ request'[r].pc = "forget" => request[r].kind = "logout"

LEMMA EndPlain == ASSUME Typed, NEW r \in Request, End(r) PROVE Plain(r)
BY TypedFacts DEF End, Plain

LEMMA GotoPlain ==
    ASSUME Typed, NEW r \in Request, NEW old, NEW pc \in Steps, At(r, old), Goto(r, pc),
           <<old, pc>> \in PlainMoves,
           old = "token" \/ pc = "forget" => request[r].kind = "logout"
    PROVE  Plain(r)
<1>1. request[r] \in RequestRecord /\ request[r].pc = old
    BY AtProper
<1> DEFINE x == [request[r] EXCEPT !.pc = pc]
<1>2. request' = [request EXCEPT ![r] = x]
    BY DEF Goto
<1>3. /\ x.pc = pc
      /\ x.kind = request[r].kind /\ x.id = request[r].id /\ x.token = request[r].token
      /\ x.state = request[r].state /\ x.found = request[r].found
      /\ x.entity = request[r].entity /\ x.stored = request[r].stored /\ x.late = request[r].late
    BY <1>1, WithPc
<1> HIDE DEF x
<1>4. request'[r] = x /\ \A q \in Request \ {r} : request'[q] = request[q]
    BY <1>2, TypedFacts
<1> QED
    BY <1>1, <1>3, <1>4 DEF Plain, Kept, At

LEMMA PlainSteps ==
    ASSUME Typed, NEW r \in Request,
           \/ Fails(r) \/ DelState(r) \/ Exchange(r) \/ Upsert(r) \/ FindForRegister(r) \/ EnsureWorkspace(r)
           \/ CreateSession(r) \/ StoreDiscordToken(r) \/ FindOwnToken(r) \/ FindUser(r) \/ Revoke(r)
           \/ RevokeAll(r) \/ Guard(r) \/ GuardAdmin(r) \/ Forget(r) \/ AddGdprJob(r)
    PROVE  Plain(r)
<1> USE EndPlain
<1>0. /\ {"exchange", "upsert", "reread", "insert", "session", "store", "revoke", "token", "find", "erase",
           "forget", "job"} \subseteq Steps
    BY DEF Steps
<1>1. CASE DelState(r)
    BY <1>0, <1>1, GotoPlain DEF DelState, PlainMoves
<1>2. CASE Exchange(r)
    BY <1>0, <1>2, GotoPlain DEF Exchange, PlainMoves
<1>3. CASE Upsert(r)
    BY <1>0, <1>3, GotoPlain DEF Upsert, PlainMoves
<1>4. CASE FindForRegister(r)
    BY <1>0, <1>4, GotoPlain DEF FindForRegister, PlainMoves
<1>5. CASE EnsureWorkspace(r)
    BY <1>0, <1>5, GotoPlain DEF EnsureWorkspace, PlainMoves
<1>6. CASE CreateSession(r)
    BY <1>0, <1>6, GotoPlain DEF CreateSession, PlainMoves
<1>7. CASE FindOwnToken(r)
    <2>1. At(r, "token") /\ request[r].kind = "logout"
        BY <1>7 DEF FindOwnToken, Is
    <2> QED
        BY <1>0, <1>7, <2>1, GotoPlain DEF FindOwnToken, LoggedOut, PlainMoves
<1>8. CASE FindUser(r)
    BY <1>0, <1>8, GotoPlain DEF FindUser, PlainMoves
<1>9. CASE Revoke(r)
    <2>1. At(r, "revoke") /\ request[r].kind \in {"refresh", "logout"}
        BY <1>9, AtProper DEF Revoke, Placed
    <2>2. CASE Goto(r, "session")
        BY <1>0, <2>1, <2>2, GotoPlain DEF PlainMoves
    <2>3. CASE request[r].kind # "refresh" /\ Goto(r, "forget")
        BY <1>0, <2>1, <2>3, GotoPlain DEF PlainMoves
    <2> QED
        BY <1>9, <2>2, <2>3 DEF Revoke, LoggedOut, Is
<1>10. CASE Guard(r)
    BY <1>0, <1>10, GotoPlain DEF Guard, PlainMoves
<1>11. CASE GuardAdmin(r)
    BY <1>0, <1>11, GotoPlain DEF GuardAdmin, PlainMoves
<1>12. CASE Forget(r)
    BY <1>0, <1>12, GotoPlain DEF Forget, PlainMoves
<1> QED
    BY <1>1, <1>2, <1>3, <1>4, <1>5, <1>6, <1>7, <1>8, <1>9, <1>10, <1>11, <1>12
       DEF Fails, StoreDiscordToken, RevokeAll, AddGdprJob

\* One request begins.
Begun(r) ==
    /\ \A q \in Request \ {r} : request'[q] = request[q]
    /\ request[r] = Idle /\ request'[r] # Idle
    /\ request'[r].pc \in {"find", "token", "guard", "exchange", "state"}
    /\ request'[r].late = {} /\ (request'[r].kind \in Callbacks => request'[r].id = 0)

LEMMA StartSteps ==
    ASSUME Typed, NEW r \in Request, Start(r) \/ StartOfUser(r)
    PROVE  Begun(r) /\ UNCHANGED <<account, redis, sessions, gdpr, faults, erased>>
<1>1. ASSUME NEW kind, NEW pc \in {"find", "token", "guard", "exchange", "state"}, NEW id, NEW token,
             NEW state, Begin(r, kind, pc, id, token, state), kind \in Callbacks => id = 0
      PROVE  Begun(r)
    <2> DEFINE x == [kind |-> kind, pc |-> pc, id |-> id, token |-> token, state |-> state, found |-> FALSE,
                     entity |-> NoUser, stored |-> NoUser, late |-> {}]
    <2>1. request' = [request EXCEPT ![r] = x] /\ request[r] = Idle
        BY <1>1 DEF Begin
    <2>2. x.kind = kind /\ x.pc = pc /\ x.id = id /\ x.late = {}
        OBVIOUS
    <2>3. x # Idle
        BY <2>2 DEF Idle
    <2> HIDE DEF x
    <2> QED
        BY <1>1, <2>1, <2>2, <2>3, TypedFacts DEF Begun
<1>2. Begun(r)
    <2>1. CASE Start(r)
        BY <1>1, <2>1 DEF Start, Callbacks
    <2>2. CASE StartOfUser(r)
        BY <1>1, <2>2 DEF StartOfUser, Callbacks, Own
    <2> QED
        BY <2>1, <2>2
<1> QED
    BY <1>2 DEF Start, StartOfUser, Begin

\* A step of one request that takes something with it.
Only(r) ==
    /\ \A q \in Request \ {r} : request'[q] = request[q]
    /\ request[r] # Idle
    /\ request'[r] # Idle => /\ request'[r].kind = request[r].kind /\ request'[r].token = request[r].token
                             /\ request'[r].state = request[r].state /\ request'[r].late = request[r].late

LEMMA PutOnly ==
    ASSUME Typed, NEW r \in Request, request[r] # Idle, NEW x, request' = [request EXCEPT ![r] = x],
           x = Idle \/ (/\ x.kind = request[r].kind /\ x.token = request[r].token
                        /\ x.state = request[r].state /\ x.late = request[r].late)
    PROVE  Only(r) /\ request'[r] = x
BY TypedFacts DEF Only

LEMMA EndOnly ==
    ASSUME Typed, NEW r \in Request, request[r] # Idle, End(r)
    PROVE  Only(r) /\ request'[r] = Idle
BY PutOnly DEF End

LEMMA ReadStateStep ==
    ASSUME Typed, NEW r \in Request, ReadState(r)
    PROVE  /\ Only(r)
           /\ request'[r] # Idle => /\ request'[r].pc = "del" /\ request'[r].id = request[r].id
                                    /\ request'[r].found = (request[r].state \in states)
<1>1. request[r] \in RequestRecord /\ request[r] # Idle
    BY AtProper DEF ReadState, At
<1>2. CASE End(r)
    BY <1>1, <1>2, EndOnly
<1>3. CASE ~End(r)
    <2> DEFINE f == request[r].state \in states
               x == [request[r] EXCEPT !.pc = "del", !.found = f]
    <2>1. request' = [request EXCEPT ![r] = x]
        BY <1>3 DEF ReadState
    <2>3. f \in BOOLEAN
        OBVIOUS
    <2>2. /\ x.pc = "del" /\ x.kind = request[r].kind /\ x.id = request[r].id /\ x.late = request[r].late
          /\ x.token = request[r].token /\ x.state = request[r].state /\ x.found = f
        <3> HIDE DEF f
        <3> QED
            BY <1>1, <2>3 DEF RequestRecord
    <2> HIDE DEF x
    <2> QED
        BY <1>1, <2>1, <2>2, PutOnly
<1> QED
    BY <1>2, <1>3

LEMMA RereadStep ==
    ASSUME Typed, NEW r \in Request, Reread(r)
    PROVE  /\ Only(r)
           /\ request'[r] # Idle => /\ request'[r].pc = "workspace" /\ request'[r].id = user.id
                                    /\ user.via = "discord"
<1>1. request[r] \in RequestRecord /\ request[r] # Idle
    BY AtProper DEF Reread, At
<1>2. CASE user.via = "discord"
    <2> DEFINE x == [request[r] EXCEPT !.pc = "workspace", !.id = user.id]
    <2>1. request' = [request EXCEPT ![r] = x]
        BY <1>2 DEF Reread
    <2>2. /\ x.pc = "workspace" /\ x.kind = request[r].kind /\ x.id = user.id /\ x.late = request[r].late
          /\ x.token = request[r].token /\ x.state = request[r].state
        BY <1>1 DEF RequestRecord
    <2> HIDE DEF x
    <2> QED
        BY <1>1, <1>2, <2>1, <2>2, PutOnly
<1> QED
    BY <1>1, <1>2, EndOnly DEF Reread

LEMMA FindStep ==
    ASSUME Typed, NEW r \in Request, Find(r)
    PROVE  /\ Only(r)
           /\ request'[r] # Idle =>
                 /\ request'[r].pc = "select" /\ request'[r].id = user.id /\ Accepts(r)
                 /\ request'[r].entity \in IF Is(r, {"upgrade", "cancel"})
                                           THEN Billed(user)[request[r].kind]
                                           ELSE {Edited(user)[request[r].kind]}
<1>1. request[r] \in RequestRecord /\ request[r] # Idle
    BY AtProper DEF Find, At
<1>2. ASSUME Accepts(r),
             NEW e \in IF Is(r, {"upgrade", "cancel"}) THEN Billed(user)[request[r].kind]
                       ELSE {Edited(user)[request[r].kind]},
             request' = [request EXCEPT ![r].pc = "select", ![r].id = user.id, ![r].entity = e]
      PROVE  /\ Only(r) /\ request'[r].pc = "select" /\ request'[r].id = user.id /\ request'[r].entity = e
    <2> DEFINE x == [request[r] EXCEPT !.pc = "select", !.id = user.id, !.entity = e]
    <2>1. request' = [request EXCEPT ![r] = x]
        BY <1>2
    <2>2. /\ x.pc = "select" /\ x.kind = request[r].kind /\ x.id = user.id /\ x.late = request[r].late
          /\ x.token = request[r].token /\ x.state = request[r].state /\ x.entity = e
        BY <1>1 DEF RequestRecord
    <2> HIDE DEF x
    <2> QED
        BY <1>1, <2>1, <2>2, PutOnly
<1>3. CASE ~Accepts(r)
    BY <1>1, <1>3, EndOnly DEF Find
<1> QED
    BY <1>2, <1>3 DEF Find

LEMMA InsertStep ==
    ASSUME Typed, NEW r \in Request, Insert(r)
    PROVE  /\ Only(r)
           /\ request'[r] # Idle => /\ request'[r].pc = "workspace" /\ request[r].kind = "register"
<1>1. request[r] \in RequestRecord /\ request[r] # Idle /\ request[r].kind = "register"
    BY AtProper DEF Insert, At, Placed
<1>2. CASE End(r)
    BY <1>1, <1>2, EndOnly
<1>3. CASE request' = [request EXCEPT ![r].pc = "workspace", ![r].id = ids']
    <2> DEFINE x == [request[r] EXCEPT !.pc = "workspace", !.id = ids']
    <2>1. request' = [request EXCEPT ![r] = x]
        BY <1>3
    <2>2. /\ x.pc = "workspace" /\ x.kind = request[r].kind /\ x.late = request[r].late
          /\ x.token = request[r].token /\ x.state = request[r].state
        BY <1>1 DEF RequestRecord
    <2> HIDE DEF x
    <2> QED
        BY <1>1, <2>1, <2>2, PutOnly
<1> QED
    BY <1>2, <1>3 DEF Insert

LEMMA SelectStep ==
    ASSUME Typed, NEW r \in Request, Select(r)
    PROVE  /\ Only(r) /\ request'[r].pc = "save" /\ request'[r].id = request[r].id
           /\ request'[r].entity = request[r].entity
           /\ request'[r].stored = IF Has(request[r].id) THEN user ELSE NoUser
<1>1. request[r] \in RequestRecord /\ request[r] # Idle
    BY AtProper DEF Select, At
<1> DEFINE o == IF Has(request[r].id) THEN user ELSE NoUser
           x == [request[r] EXCEPT !.pc = "save", !.stored = o]
<1>2. request' = [request EXCEPT ![r] = x]
    BY DEF Select
<1> HIDE DEF o
<1>3. /\ x.pc = "save" /\ x.kind = request[r].kind /\ x.id = request[r].id /\ x.late = request[r].late
      /\ x.token = request[r].token /\ x.state = request[r].state /\ x.entity = request[r].entity /\ x.stored = o
    BY <1>1 DEF RequestRecord
<1> HIDE DEF x
<1>4. Only(r) /\ request'[r] = x
    BY <1>1, <1>2, <1>3, PutOnly
<1> QED
    BY <1>3, <1>4 DEF o

LEMMA FindTokenStep ==
    ASSUME Typed, NEW r \in Request, FindToken(r)
    PROVE  /\ Only(r) /\ request[r].kind = "refresh" /\ request[r].token \in DOMAIN tokens
           /\ request'[r] # Idle => /\ request'[r].pc \in {"user", "revokeAll"}
                                    /\ request'[r].pc = "user" => Live(request[r].token)
<1>1. /\ request[r] \in RequestRecord /\ request[r] # Idle /\ request[r].kind = "refresh"
      /\ Holding(request[r], ids, tokens)
    BY AtProper DEF FindToken, At, Is
<1> DEFINE t == request[r].token
<1>2. t \in DOMAIN tokens
    BY <1>1, TypedFacts DEF Holding, RequestRecord
<1>3. CASE End(r)
    BY <1>1, <1>2, <1>3, EndOnly
<1>4. ASSUME NEW pc \in {"revokeAll", "user"}, pc = "user" => Live(t),
             request' = [request EXCEPT ![r].pc = pc, ![r].id = tokens[t].id]
      PROVE  Only(r) /\ request'[r].pc = pc
    <2> DEFINE x == [request[r] EXCEPT !.pc = pc, !.id = tokens[t].id]
    <2>1. request' = [request EXCEPT ![r] = x]
        BY <1>4
    <2>2. /\ x.pc = pc /\ x.kind = request[r].kind /\ x.late = request[r].late
          /\ x.token = request[r].token /\ x.state = request[r].state
        BY <1>1 DEF RequestRecord
    <2> HIDE DEF x
    <2> QED
        BY <1>1, <2>1, <2>2, PutOnly
<1>5. \/ End(r)
      \/ request' = [request EXCEPT ![r].pc = "revokeAll", ![r].id = tokens[t].id]
      \/ Live(t) /\ request' = [request EXCEPT ![r].pc = "user", ![r].id = tokens[t].id]
    BY DEF FindToken, Live
<1> QED
    BY <1>1, <1>2, <1>3, <1>4, <1>5

\* A step that others are overtaken by.
OthersLate(r, what) ==
    \A q \in Request \ {r} :
       \/ request'[q] = Idle /\ request[q] = Idle
       \/ /\ request'[q] # Idle /\ request[q] # Idle /\ Kept(request[q], request'[q])
          /\ request'[q].pc = request[q].pc /\ request'[q].late = request[q].late \cup what

LEMMA OvertakenStep ==
    ASSUME Typed, NEW r \in Request, NEW what \in SUBSET (Decided \cup {"erased"}), NEW x,
           Overtaken(r, what, x)
    PROVE  OthersLate(r, what) /\ request'[r] = x
<1>1. ASSUME NEW q \in Request \ {r}, request[q] # Idle
      PROVE  /\ request'[q] # Idle /\ Kept(request[q], request'[q])
             /\ request'[q].pc = request[q].pc /\ request'[q].late = request[q].late \cup what
    <2> DEFINE y == [request[q] EXCEPT !.late = request[q].late \cup what]
    <2>1. request'[q] = y
        BY <1>1 DEF Overtaken
    <2>2. request[q] \in RequestRecord
        BY <1>1, TypedFacts DEF RequestsFit, Proper
    <2>3. y \in RequestRecord /\ Kept(request[q], y) /\ y.pc = request[q].pc /\ y.late = request[q].late \cup what
        BY <2>2 DEF RequestRecord, Kept
    <2>4. y # Idle
        BY <2>3 DEF RequestRecord, Idle, Steps
    <2> QED
        BY <2>1, <2>3, <2>4
<1>2. \A q \in Request \ {r} : request[q] = Idle => request'[q] = Idle
    BY DEF Overtaken
<1>3. request'[r] = x
    BY DEF Overtaken
<1> QED
    BY <1>1, <1>2, <1>3 DEF OthersLate

LEMMA SaveStep ==
    ASSUME Typed, NEW r \in Request, Save(r)
    PROVE  /\ \E W \in SUBSET Decided : OthersLate(r, W)
           /\ request[r] # Idle
           /\ request'[r] # Idle => /\ request[r].kind = "login" /\ request'[r].pc \in {"workspace", "session"}
                                    /\ Kept(request[r], request'[r])
<1>1. request[r] \in RequestRecord /\ request[r] # Idle
    BY AtProper DEF Save, At
<1>2. /\ Decides(r) \cup (request[r].late \cap Decided) \in SUBSET Decided
      /\ \A W \in SUBSET Decided : W \in SUBSET (Decided \cup {"erased"})
    BY <1>1 DEF Decides, Decided, Is
<1>3. ASSUME NEW x, request' = [request EXCEPT ![r] = x]
      PROVE  OthersLate(r, {}) /\ request'[r] = x
    <2>1. ASSUME NEW q \in Request \ {r}, request[q] # Idle
          PROVE  Kept(request[q], request[q]) /\ request[q].late \cup {} = request[q].late
        BY DEF Kept
    <2> QED
        BY <1>3, <2>1, TypedFacts DEF OthersLate
<1>4. Afterwards(r) # Idle => /\ request[r].kind = "login" /\ Afterwards(r).pc \in {"workspace", "session"}
                              /\ Kept(request[r], Afterwards(r))
    <2> DEFINE pc == IF api = "admin" THEN "session" ELSE "workspace"
    <2>1. Afterwards(r) # Idle => request[r].kind = "login" /\ Afterwards(r) = [request[r] EXCEPT !.pc = pc]
        BY DEF Afterwards, Is
    <2>2. pc \in Steps /\ pc \in {"workspace", "session"}
        BY DEF Steps
    <2> HIDE DEF pc
    <2> QED
        BY <1>1, <2>1, <2>2, WithPc DEF Kept
<1>5. \E W \in SUBSET Decided, x \in {Afterwards(r), Idle} : OthersLate(r, W) /\ request'[r] = x
    BY <1>2, <1>3, OvertakenStep DEF Save, End
<1> QED
    BY <1>1, <1>4, <1>5

LEMMA EraseStep ==
    ASSUME Typed, NEW r \in Request, Erase(r)
    PROVE  /\ OthersLate(r, {"erased"}) /\ request[r] # Idle /\ request[r].kind = "delete"
           /\ request'[r] # Idle /\ request'[r].pc = "forget" /\ request'[r].kind = "delete"
           /\ request'[r].id = request[r].id
<1>1. /\ request[r] \in RequestRecord /\ request[r] # Idle /\ request[r].kind = "delete"
    BY AtProper DEF Erase, At, Placed
<1> DEFINE x == [request[r] EXCEPT !.pc = "forget", !.entity = user]
<1>2. x.pc = "forget" /\ x.kind = request[r].kind /\ x.id = request[r].id
    BY <1>1 DEF RequestRecord
<1>3. Overtaken(r, {"erased"}, x)
    BY DEF Erase
<1>4. x # Idle
    BY <1>2 DEF Idle
<1> HIDE DEF x
<1>5. OthersLate(r, {"erased"}) /\ request'[r] = x
    BY <1>3, OvertakenStep
<1> QED
    BY <1>1, <1>2, <1>4, <1>5

\* No refresh goes forward but those that are on their way to their user.
Refresher(q) ==
    request[q] # Idle /\ Is(q, {"refresh"}) /\ request[q].pc \in {"user", "revoke", "session"}

Quiet ==
    \A q \in Request : Refresher(q)' => /\ Refresher(q) /\ request'[q].token = request[q].token
                                        /\ request'[q].pc = "session" => request[q].pc = "session"

LEMMA PlainQuiet ==
    ASSUME Typed, NEW r \in Request, Plain(r), ~(At(r, "revoke") /\ request[r].kind = "refresh")
    PROVE  Quiet
<1>1. ASSUME Refresher(r)'
      PROVE  Refresher(r) /\ request'[r].token = request[r].token /\ request'[r].pc # "session"
    <2>1. /\ request'[r] # Idle /\ request[r] # Idle /\ Kept(request[r], request'[r])
          /\ <<request[r].pc, request'[r].pc>> \in PlainMoves /\ request[r].kind = "refresh"
          /\ request'[r].pc \in {"user", "revoke", "session"}
        BY <1>1 DEF Refresher, Plain, Kept, Is
    <2>2. Placed(request[r])
        BY <2>1, TypedFacts DEF RequestsFit, Proper
    <2>3. request[r].pc \in {"user", "token", "workspace"} /\ request'[r].pc \in {"revoke", "session"}
        BY <2>1 DEF PlainMoves, At
    <2>4. request[r].pc # "workspace"
        BY <2>1, <2>2 DEF Placed, Callbacks
    <2>5. request[r].pc # "token"
        BY <2>1 DEF Plain
    <2>6. request[r].pc = "user" /\ request'[r].pc = "revoke"
        BY <2>1, <2>3, <2>4, <2>5 DEF PlainMoves
    <2> QED
        BY <2>1, <2>6 DEF Refresher, Kept, Is
<1>2. \A q \in Request \ {r} : request'[q] = request[q]
    BY DEF Plain
<1> QED
    BY <1>1, <1>2 DEF Quiet, Refresher, Is

LEMMA OnlyQuiet ==
    ASSUME NEW r \in Request, Only(r), request'[r] # Idle => request'[r].pc \notin {"user", "revoke", "session"}
    PROVE  Quiet
BY DEF Only, Quiet, Refresher, Is

LEMMA LateQuiet ==
    ASSUME NEW r \in Request, NEW W, OthersLate(r, W),
           request'[r] # Idle => request'[r].kind # "refresh"
    PROVE  Quiet
BY DEF OthersLate, Kept, Quiet, Refresher, Is

LEMMA QuietSteps ==
    ASSUME Typed, [Next]_vars, \A r \in Request : ~FindToken(r), \A r \in Request : ~Revoke(r)
    PROVE  Quiet
<1>1. CASE UNCHANGED request
    BY <1>1 DEF Quiet, Refresher, Is
<1>2. CASE Time
    BY <1>1, <1>2 DEF Time, LoginUrl, StateExpires, DiscordTokenExpires, TokenExpires
<1>3. ASSUME NEW r \in Request, Start(r) \/ StartOfUser(r) PROVE Quiet
    BY <1>3, StartSteps DEF Begun, Quiet, Refresher, Is
<1>4. ASSUME NEW r \in Request,
             \/ DelState(r) \/ Exchange(r) \/ Upsert(r) \/ FindForRegister(r) \/ EnsureWorkspace(r)
             \/ CreateSession(r) \/ StoreDiscordToken(r) \/ FindOwnToken(r) \/ FindUser(r)
             \/ RevokeAll(r) \/ Guard(r) \/ GuardAdmin(r) \/ Forget(r) \/ AddGdprJob(r)
      PROVE  Quiet
    <2>1. ~At(r, "revoke")
        BY <1>4 DEF DelState, Exchange, Upsert, FindForRegister, EnsureWorkspace, CreateSession, StoreDiscordToken,
                    FindOwnToken, FindUser, RevokeAll, Guard, GuardAdmin, Forget, AddGdprJob, At
    <2> QED
        BY <1>4, <2>1, PlainSteps, PlainQuiet
<1>5. ASSUME NEW r \in Request, Fails(r) PROVE Quiet
    BY <1>5, TypedFacts DEF Fails, End, Quiet, Refresher, Is
<1>6. ASSUME NEW r \in Request, ReadState(r) \/ Reread(r) \/ Find(r) \/ Insert(r) \/ Select(r) PROVE Quiet
    BY <1>6, ReadStateStep, RereadStep, FindStep, InsertStep, SelectStep, OnlyQuiet
<1>7. ASSUME NEW r \in Request, Save(r) PROVE Quiet
    BY <1>7, SaveStep, LateQuiet DEF Kept
<1>8. ASSUME NEW r \in Request, Erase(r) PROVE Quiet
    BY <1>8, EraseStep, LateQuiet
<1> QED
    BY <1>1, <1>2, <1>3, <1>4, <1>5, <1>6, <1>7, <1>8 DEF Next, vars, OAuth, Users, Holders

\* The tokens change in place, and none becomes good again.
InPlace ==
    /\ DOMAIN tokens' = DOMAIN tokens
    /\ \A t \in DOMAIN tokens :
          /\ tokens'[t].id = tokens[t].id
          /\ tokens'[t].session = tokens[t].session /\ tokens'[t].parent = tokens[t].parent
          /\ tokens[t].revoked => tokens'[t].revoked
          /\ Live(t)' => Live(t)

LEMMA TokenSteps ==
    ASSUME Typed, [Next]_vars, \A r \in Request : ~CreateSession(r)
    PROVE  InPlace
<1>1. CASE UNCHANGED tokens
    BY <1>1 DEF InPlace, Live
<1>2. ASSUME NEW t \in DOMAIN tokens, TokenExpires(t) PROVE InPlace
    <2>1. [tokens[t] EXCEPT !.expired = TRUE] \in Token
        BY TypedFacts DEF Token
    <2> DEFINE x == [tokens[t] EXCEPT !.expired = TRUE]
    <2>2. /\ x.id = tokens[t].id /\ x.session = tokens[t].session /\ x.parent = tokens[t].parent
          /\ x.revoked = tokens[t].revoked /\ x.row = tokens[t].row /\ x.expired = TRUE
        BY TypedFacts DEF Token
    <2>3. tokens' = [tokens EXCEPT ![t] = x]
        BY <1>2 DEF TokenExpires
    <2> HIDE DEF x
    <2>4. /\ DOMAIN tokens' = DOMAIN tokens
          /\ \A u \in DOMAIN tokens : tokens'[u] = IF u = t THEN x ELSE tokens[u]
        BY <2>3, TypedFacts
    <2> QED
        BY <2>2, <2>4 DEF InPlace, Live
<1>3. CASE Time
    BY <1>1, <1>2, <1>3 DEF Time, LoginUrl, StateExpires, DiscordTokenExpires, sessions
<1>4. ASSUME NEW r \in Request, Revoke(r) PROVE InPlace
    BY <1>4, RevokeTokens DEF InPlace, Live
<1>5. ASSUME NEW r \in Request, RevokeAll(r) PROVE InPlace
    BY <1>5, RevokeAllTokens DEF InPlace, Live
<1>6. ASSUME NEW r \in Request, Erase(r) PROVE InPlace
    BY <1>6, EraseTokens DEF InPlace, Live
<1>7. ASSUME NEW r \in Request, FindToken(r) PROVE InPlace
    BY <1>1, <1>7 DEF FindToken
<1>8. ASSUME NEW r \in Request, Start(r) \/ StartOfUser(r) \/ Fails(r) PROVE InPlace
    <2>1. CASE Fails(r)
        BY <1>1, <2>1 DEF Fails, sessions
    <2> QED
        BY <1>1, <1>8, <2>1, StartSteps DEF sessions
<1>9. ASSUME NEW r \in Request, OAuth(r) PROVE InPlace
    BY <1>1, <1>9 DEF OAuth, ReadState, DelState, Exchange, Upsert, Reread, sessions
<1>10. ASSUME NEW r \in Request, Users(r), ~CreateSession(r) PROVE InPlace
    BY <1>1, <1>10 DEF Users, Find, FindForRegister, Insert, Select, Save, EnsureWorkspace, StoreDiscordToken, sessions
<1>11. ASSUME NEW r \in Request, FindOwnToken(r) \/ FindUser(r) \/ Guard(r) \/ GuardAdmin(r) \/ Forget(r) \/ AddGdprJob(r)
       PROVE  InPlace
    BY <1>1, <1>11 DEF FindOwnToken, FindUser, Guard, GuardAdmin, Forget, AddGdprJob, sessions
<1>12. CASE UNCHANGED vars
    BY <1>1, <1>12 DEF vars, sessions
<1> QED
    BY <1>3, <1>4, <1>5, <1>6, <1>7, <1>8, <1>9, <1>10, <1>11, <1>12 DEF Next, Holders

-------------------------------------------------------------------------------
(* A refresh token is exchanged once.                                      *)

LEMMA ExchangeQuiet ==
    ASSUME ExchangeInv, Quiet, InPlace, raced \subseteq raced'
    PROVE  ExchangeInv'
<1> SUFFICES ASSUME NEW t \in DOMAIN tokens' \ raced' PROVE Exchanged(t)'
    BY DEF ExchangeInv
<1>1. t \in DOMAIN tokens \ raced /\ Exchanged(t)
    BY DEF ExchangeInv, InPlace
<1>2. \A q \in Request : Refreshes(q, t)' => /\ Refreshes(q, t)
                                             /\ request'[q].pc = "session" => request[q].pc = "session"
    BY DEF Quiet, Refreshes, Refresher, Is
<1>3. /\ \A q, r \in Request : Refreshes(q, t)' /\ Refreshes(r, t)' => q = r
      /\ \A r \in Request : Refreshes(r, t)' /\ request'[r].pc = "session" => tokens'[t].revoked
    BY <1>1, <1>2 DEF Exchanged, InPlace
<1>4. \A u \in DOMAIN tokens' : tokens'[u].parent = t =>
          /\ tokens'[t].revoked
          /\ \A r \in Request : ~Refreshes(r, t)'
          /\ \A v \in DOMAIN tokens' : tokens'[v].parent = t => v = u
    BY <1>1, <1>2 DEF Exchanged, InPlace
<1> QED
    BY <1>3, <1>4 DEF Exchanged

\* A refresh goes on only with a token that nobody else has, or the token counts as raced.
LEMMA ExchangeFound ==
    ASSUME Typed, ExchangeInv, NEW r \in Request, FindToken(r)
    PROVE  ExchangeInv'
<1> DEFINE t == request[r].token
<1>1. /\ Only(r) /\ request[r].kind = "refresh" /\ t \in DOMAIN tokens /\ request[r] # Idle /\ request[r].pc = "token"
      /\ request'[r] # Idle => /\ request'[r].pc \in {"user", "revokeAll"}
                               /\ request'[r].pc = "user" => Live(t)
    BY FindTokenStep, AtProper DEF Only, FindToken, At
<1>2. UNCHANGED tokens /\ raced \subseteq raced'
    BY DEF FindToken
<1> SUFFICES ASSUME NEW k \in DOMAIN tokens \ raced' PROVE Exchanged(k)'
    BY <1>2 DEF ExchangeInv
<1>3. Exchanged(k) /\ k \notin raced
    BY <1>2 DEF ExchangeInv
<1>4. \A q \in Request \ {r} : request'[q] = request[q]
    BY <1>1 DEF Only
<1>5. CASE Refreshes(r, k)'
    <2>1. k = t /\ Live(t) /\ request'[r].pc = "user"
        BY <1>1, <1>5 DEF Refreshes, Only, Is
    <2>2. \A q \in Request \ {r} : ~(request[q] # Idle /\ Is(q, {"refresh"}) /\ request[q].token = t
                                      /\ request[q].pc \in {"user", "revoke"})
        BY <2>1 DEF FindToken
    <2>3. \A q \in Request \ {r} : ~Refreshes(q, k)
        BY <1>3, <2>1, <2>2 DEF Exchanged, Refreshes, Live
    <2>4. \A u \in DOMAIN tokens : tokens[u].parent # k
        BY <1>3, <2>1 DEF Exchanged, Live
    <2> QED
        BY <1>2, <1>4, <2>1, <2>3, <2>4 DEF Exchanged, Refreshes, Is
<1>6. CASE ~Refreshes(r, k)'
    BY <1>2, <1>3, <1>4, <1>6 DEF Exchanged, Refreshes, Is
<1> QED
    BY <1>5, <1>6

\* The token is revoked before the session is made.
LEMMA ExchangeRevoked ==
    ASSUME Typed, ExchangeInv, InPlace, NEW r \in Request, Revoke(r)
    PROVE  ExchangeInv'
<1> DEFINE t == request[r].token
<1>1. /\ Plain(r) /\ request[r] # Idle /\ request[r].pc = "revoke" /\ request[r] \in RequestRecord
      /\ request[r].kind \in {"refresh", "logout"} /\ Holding(request[r], ids, tokens)
    BY PlainSteps, AtProper DEF Revoke, Placed, At
<1>2. CASE ~(request[r].kind = "refresh")
    BY <1>1, <1>2, PlainQuiet, ExchangeQuiet DEF Revoke
<1>3. CASE request[r].kind = "refresh"
    <2>1. t \in DOMAIN tokens
        BY <1>1, <1>3, TypedFacts DEF Holding, RequestRecord
    <2>2. Refreshes(r, t)
        BY <1>1, <1>3 DEF Refreshes, Is
    <2>3. request'[r] # Idle => tokens'[t].revoked /\ request'[r].token = t /\ request'[r].pc = "session"
        <3>1. CASE Goto(r, "session")
            <4>1. request[r] \in RequestRecord /\ request' = [request EXCEPT ![r] = [request[r] EXCEPT !.pc = "session"]]
                BY <1>1, <3>1 DEF Goto
            <4>2. request'[r] = [request[r] EXCEPT !.pc = "session"]
                BY <4>1, TypedFacts
            <4>3. request'[r].pc = "session" /\ request'[r].token = t
                BY <4>1, <4>2 DEF RequestRecord
            <4>4. ~End(r) => tokens' = [tokens EXCEPT ![t].revoked = TRUE, ![t].row = TRUE]
                BY DEF Revoke
            <4>5. End(r) => request'[r] = Idle
                BY TypedFacts DEF End
            <4>6. tokens' = [tokens EXCEPT ![t].revoked = TRUE, ![t].row = TRUE] => tokens'[t].revoked
                <5> DEFINE x == [tokens[t] EXCEPT !.revoked = TRUE, !.row = TRUE]
                <5>1. x.revoked = TRUE
                    BY <2>1, TypedFacts DEF Token
                <5>2. [tokens EXCEPT ![t].revoked = TRUE, ![t].row = TRUE] = [tokens EXCEPT ![t] = x]
                    BY <2>1, TypedFacts
                <5> HIDE DEF x
                <5> QED
                    BY <2>1, <5>1, <5>2, TypedFacts
            <4> QED
                BY <4>3, <4>4, <4>5, <4>6
        <3> QED
            BY <1>3, <3>1, TypedFacts DEF Revoke, Is, End
    <2>4. \A q \in Request \ {r} : request'[q] = request[q]
        BY <1>1 DEF Plain
    <2>5. UNCHANGED raced
        BY DEF Revoke
    <2> SUFFICES ASSUME NEW k \in DOMAIN tokens \ raced PROVE Exchanged(k)'
        BY <2>5 DEF ExchangeInv, InPlace
    <2>6. Exchanged(k)
        BY DEF ExchangeInv
    <2>7. \A q \in Request : Refreshes(q, k)' => Refreshes(q, k)
        <3>1. Refreshes(r, k)' => k = t
            BY <2>3 DEF Refreshes
        <3> QED
            BY <2>2, <2>4, <3>1 DEF Refreshes, Is
    <2>8. \A q \in Request : Refreshes(q, k)' /\ request'[q].pc = "session" => tokens'[k].revoked
        <3>1. Refreshes(r, k)' => tokens'[k].revoked
            BY <2>3 DEF Refreshes
        <3> QED
            BY <2>4, <2>6, <3>1 DEF Exchanged, Refreshes, Is, InPlace
    <2> QED
        BY <2>6, <2>7, <2>8 DEF Exchanged, InPlace
<1> QED
    BY <1>2, <1>3

\* The one that makes the session of a token is the only one, and is done with it.
LEMMA ExchangeMade ==
    ASSUME Typed, ExchangeInv, Quiet, NEW r \in Request, CreateSession(r)
    PROVE  ExchangeInv'
<1>1. CASE UNCHANGED tokens
    BY <1>1, ExchangeQuiet DEF CreateSession, InPlace, Live
<1>2. CASE Has(request[r].id) /\ Len(tokens) < MaxTokens
    <2> DEFINE p == request[r].token
    <2>0. PICK n \in Nat : n = Len(tokens) + 1
        BY TypedFacts
    <2>1. /\ At(r, "session") /\ request[r].pc = "session" /\ request[r] # Idle /\ Plain(r)
          /\ request[r] \in RequestRecord
        BY AtProper, PlainSteps DEF CreateSession, At
    <2>2. /\ DOMAIN tokens' = 1..n /\ \A t \in DOMAIN tokens : tokens'[t] = tokens[t]
          /\ tokens'[n].parent = p
          /\ p # 0 => p \in DOMAIN tokens /\ request[r].kind = "refresh"
        BY <1>2, <2>0, <2>1, SessionAdded DEF CreateSession
    <2>3. \A t \in DOMAIN tokens' : t \in DOMAIN tokens \/ t = n
        BY <2>0, <2>2, TypedFacts
    <2>4. n \notin DOMAIN tokens /\ n # 0 /\ UNCHANGED raced
        BY <2>0, TypedFacts DEF CreateSession
    <2>5. \A q \in Request : ~(Refresher(q)' /\ request'[q].token = n)
        <3>1. \A q \in Request : Refresher(q) => request[q].token \in DOMAIN tokens
            BY TypedFacts DEF RequestsFit, Proper, Holding, RequestRecord, Refresher, Is
        <3> QED
            BY <2>4, <3>1 DEF Quiet
    <2>6. \A u \in DOMAIN tokens' : tokens'[u].parent # n
        <3>1. \A u \in DOMAIN tokens : tokens[u].parent \in Nat /\ tokens[u].parent <= Len(tokens)
            BY TypedParts, TypedFacts, SessionsAssumption DEF SessionsTyped, TokensFit, Token
        <3>2. p # n
            BY <2>2, <2>4
        <3>3. \A u \in DOMAIN tokens : tokens[u].parent # n
            BY <2>0, <3>1, TypedFacts
        <3> QED
            BY <2>2, <2>3, <3>2, <3>3
    <2>7. p # 0 => ~Refresher(r)'
        <3>1. p # 0 => ~Is(r, Callbacks)
            BY <2>2 DEF Is, Callbacks
        <3>2. p # 0 => End(r)
            BY <2>4, <3>1 DEF CreateSession
        <3> QED
            BY <3>2, TypedFacts DEF End, Refresher
    <2>8. ASSUME NEW t \in DOMAIN tokens \ raced PROVE Exchanged(t)'
        <3>1. Exchanged(t)
            BY <2>8 DEF ExchangeInv
        <3>2. \A q \in Request : Refreshes(q, t)' => /\ Refreshes(q, t)
                                                     /\ request'[q].pc = "session" => request[q].pc = "session"
            BY DEF Quiet, Refreshes, Refresher, Is
        <3>3. tokens'[t] = tokens[t]
            BY <2>2
        <3>4. CASE p = t
            <4>1. Refreshes(r, t) /\ p # 0
                BY <2>1, <2>2, <3>4, TypedFacts DEF Refreshes, Is
            <4>2. tokens[t].revoked /\ \A u \in DOMAIN tokens : tokens[u].parent # t
                BY <2>1, <3>1, <4>1 DEF Exchanged
            <4>3. \A q \in Request : ~Refreshes(q, t)'
                BY <2>7, <3>1, <3>2, <4>1 DEF Exchanged, Refreshes, Refresher, Is
            <4> QED
                BY <2>2, <2>3, <3>3, <4>2, <4>3 DEF Exchanged
        <3>5. CASE p # t
            BY <2>2, <2>3, <3>1, <3>2, <3>3, <3>5 DEF Exchanged
        <3> QED
            BY <3>4, <3>5
    <2>9. Exchanged(n)'
        BY <2>5, <2>6 DEF Exchanged, Refreshes, Refresher, Is
    <2> QED
        BY <2>3, <2>4, <2>8, <2>9 DEF ExchangeInv
<1> QED
    BY <1>1, <1>2 DEF CreateSession

\* What the history says of the tokens.
LEMMA HistorySteps ==
    ASSUME Typed, [Next]_vars
    PROVE  /\ raced \subseteq raced'
           /\ (\A r \in Request : ~RevokeAll(r)) => UNCHANGED ended
<1>1. CASE UNCHANGED sessions
    BY <1>1 DEF sessions
<1>2. CASE Time
    BY <1>2 DEF Time, LoginUrl, StateExpires, DiscordTokenExpires, TokenExpires, sessions
<1>3. ASSUME NEW r \in Request, Start(r) \/ StartOfUser(r) \/ Fails(r) PROVE UNCHANGED sessions
    BY <1>3, StartSteps DEF Fails
<1>4. ASSUME NEW r \in Request, OAuth(r) PROVE UNCHANGED sessions
    BY <1>4 DEF OAuth, ReadState, DelState, Exchange, Upsert, Reread
<1>5. ASSUME NEW r \in Request, Users(r) PROVE UNCHANGED <<ended, raced>>
    BY <1>5 DEF Users, Find, FindForRegister, Insert, Select, Save, EnsureWorkspace, CreateSession,
                StoreDiscordToken, sessions
<1>6. ASSUME NEW r \in Request, Holders(r)
      PROVE  /\ raced \subseteq raced'
             /\ ~RevokeAll(r) => UNCHANGED ended
    BY <1>6 DEF Holders, FindToken, FindOwnToken, FindUser, Revoke, RevokeAll, Guard, GuardAdmin, Erase, Forget,
                AddGdprJob, sessions
<1>7. CASE UNCHANGED vars
    BY <1>1, <1>7 DEF vars
<1> QED
    BY <1>1, <1>2, <1>3, <1>4, <1>5, <1>6, <1>7 DEF Next, sessions

LEMMA ExchangeStep == Typed /\ ExchangeInv /\ [Next]_vars => ExchangeInv'
<1> SUFFICES ASSUME Typed, ExchangeInv, [Next]_vars PROVE ExchangeInv'
    OBVIOUS
<1>1. ASSUME NEW r \in Request, FindToken(r) PROVE ExchangeInv'
    BY <1>1, ExchangeFound
<1>2. ASSUME NEW r \in Request, Revoke(r) PROVE ExchangeInv'
    <2>1. InPlace
        BY <1>2, RevokeTokens DEF InPlace, Live
    <2> QED
        BY <1>2, <2>1, ExchangeRevoked
<1>3. CASE \A r \in Request : ~FindToken(r) /\ ~Revoke(r)
    <2>1. Quiet
        BY <1>3, QuietSteps
    <2>2. ASSUME NEW r \in Request, CreateSession(r) PROVE ExchangeInv'
        BY <2>1, <2>2, ExchangeMade
    <2> QED
        BY <2>1, <2>2, TokenSteps, HistorySteps, ExchangeQuiet
<1> QED
    BY <1>1, <1>2, <1>3

-------------------------------------------------------------------------------
(* Nothing good is left of a session that was ended.                        *)

LEMMA ReuseQuiet ==
    ASSUME Typed, ReuseInv, Quiet, InPlace, UNCHANGED ended
    PROVE  ReuseInv'
<1> SUFFICES ASSUME NEW t \in DOMAIN tokens, tokens[t].session \in ended
             PROVE  ~Live(t)' /\ ~Refreshing(tokens[t].session)'
    BY DEF ReuseInv, InPlace, Refreshing
<1>1. ~Live(t) /\ ~Refreshing(tokens[t].session)
    BY DEF ReuseInv
<1>2. ~Live(t)'
    BY <1>1 DEF InPlace
<1>3. ASSUME NEW q \in Request, Refresher(q)' PROVE tokens'[request'[q].token].session # tokens[t].session
    <2>1. Refresher(q) /\ request'[q].token = request[q].token
        BY <1>3 DEF Quiet
    <2>2. request[q].token \in DOMAIN tokens
        BY <2>1, TypedFacts DEF RequestsFit, Proper, Holding, RequestRecord, Refresher, Is
    <2>3. tokens[request[q].token].session # tokens[t].session
        BY <1>1, <2>1 DEF Refreshing, Refresher
    <2> QED
        BY <2>1, <2>2, <2>3 DEF InPlace
<1> QED
    BY <1>2, <1>3 DEF Refreshing, Refresher, InPlace

\* Only with a good token a refresh begins.
LEMMA ReuseFound ==
    ASSUME Typed, ReuseInv, NEW r \in Request, FindToken(r)
    PROVE  ReuseInv'
<1>1. /\ Only(r) /\ request[r].kind = "refresh" /\ request[r].token \in DOMAIN tokens
      /\ request'[r] # Idle => /\ request'[r].pc \in {"user", "revokeAll"}
                               /\ request'[r].pc = "user" => Live(request[r].token)
    BY FindTokenStep
<1>2. UNCHANGED <<tokens, ended>>
    BY DEF FindToken
<1>3. ASSUME NEW t \in DOMAIN tokens, tokens[t].session \in ended
      PROVE  ~Live(t) /\ ~Refreshing(tokens[t].session)'
    <2>1. ~Live(t) /\ ~Refreshing(tokens[t].session)
        BY <1>3 DEF ReuseInv
    <2>2. Refresher(r)' => request'[r].token = request[r].token /\ tokens[request[r].token].session # tokens[t].session
        BY <1>1, <1>3 DEF Refresher, ReuseInv, Only, Is
    <2> QED
        BY <1>1, <1>2, <2>1, <2>2 DEF Refreshing, Refresher, Only, Is
<1> QED
    BY <1>2, <1>3 DEF ReuseInv, Live

LEMMA ReuseRevoked ==
    ASSUME Typed, ReuseInv, NEW r \in Request, Revoke(r)
    PROVE  ReuseInv'
<1>1. /\ Plain(r) /\ request[r] # Idle /\ request[r].pc = "revoke" /\ UNCHANGED ended /\ InPlace
      /\ request[r] \in RequestRecord /\ Holding(request[r], ids, tokens)
    BY PlainSteps, AtProper, RevokeTokens DEF Revoke, At, InPlace, Live
<1>2. \A q \in Request : Refresher(q)' => Refresher(q) /\ request'[q].token = request[q].token
    <2>1. Refresher(r)' => Refresher(r) /\ request'[r].token = request[r].token
        BY <1>1 DEF Plain, Kept, Refresher, Is
    <2> QED
        BY <1>1, <2>1 DEF Plain, Refresher, Is
<1>3. ASSUME NEW t \in DOMAIN tokens, tokens[t].session \in ended
      PROVE  ~Live(t)' /\ ~Refreshing(tokens[t].session)'
    <2>1. ~Live(t) /\ ~Refreshing(tokens[t].session)
        BY <1>3 DEF ReuseInv
    <2>2. ASSUME NEW q \in Request, Refresher(q)' PROVE tokens'[request'[q].token].session # tokens[t].session
        <3>1. Refresher(q) /\ request'[q].token = request[q].token
            BY <1>2, <2>2
        <3>2. request[q].token \in DOMAIN tokens
            BY <3>1, TypedFacts DEF RequestsFit, Proper, Holding, RequestRecord, Refresher, Is
        <3> QED
            BY <1>1, <2>1, <3>1, <3>2 DEF Refreshing, Refresher, InPlace
    <2> QED
        BY <1>1, <2>1, <2>2 DEF Refreshing, Refresher, InPlace
<1> QED
    BY <1>1, <1>3 DEF ReuseInv, InPlace

\* The sessions that are ended have no good token left: all of their tokens are of the user.
LEMMA ReuseDetected ==
    ASSUME Typed, ReuseInv, Quiet, NEW r \in Request, RevokeAll(r)
    PROVE  ReuseInv'
<1>1. InPlace
    BY RevokeAllTokens DEF InPlace, Live
<1> SUFFICES ASSUME NEW t \in DOMAIN tokens, tokens[t].session \in ended'
             PROVE  ~Live(t)' /\ ~Refreshing(tokens[t].session)'
    BY <1>1 DEF ReuseInv, InPlace
<1>2. ~Refreshing(tokens[t].session)
    BY DEF ReuseInv, RevokeAll
<1>3. ~Refreshing(tokens[t].session)'
    <2>1. ASSUME NEW q \in Request, Refresher(q)' PROVE tokens'[request'[q].token].session # tokens[t].session
        <3>1. Refresher(q) /\ request'[q].token = request[q].token
            BY <2>1 DEF Quiet
        <3>2. request[q].token \in DOMAIN tokens
            BY <3>1, TypedFacts DEF RequestsFit, Proper, Holding, RequestRecord, Refresher, Is
        <3> QED
            BY <1>1, <1>2, <3>1, <3>2 DEF Refreshing, Refresher, InPlace
    <2> QED
        BY <1>1, <2>1 DEF Refreshing, Refresher, InPlace
<1>4. CASE tokens[t].session \in ended
    BY <1>1, <1>3, <1>4 DEF ReuseInv, InPlace
<1>5. ASSUME NEW u \in DOMAIN tokens, tokens[u].id = request[r].id, tokens[u].session = tokens[t].session
      PROVE  ~Live(t)'
    <2>1. tokens[t].id = request[r].id
        BY <1>5, TypedParts DEF SessionsTyped, TokensFit
    <2> QED
        BY <2>1, RevokeAllTokens DEF Live
<1> QED
    BY <1>3, <1>4, <1>5 DEF RevokeAll

\* A new token is of a new session, or of one that is being refreshed, which is not ended.
LEMMA ReuseMade ==
    ASSUME Typed, ReuseInv, Quiet, NEW r \in Request, CreateSession(r)
    PROVE  ReuseInv'
<1>1. CASE UNCHANGED tokens
    BY <1>1, ReuseQuiet DEF CreateSession, InPlace, Live
<1>2. CASE Has(request[r].id) /\ Len(tokens) < MaxTokens
    <2> DEFINE n == Len(tokens) + 1
               p == request[r].token
    <2>1. /\ At(r, "session") /\ request[r].pc = "session" /\ request[r] # Idle /\ UNCHANGED ended
        BY DEF CreateSession, At
    <2>2. /\ DOMAIN tokens' = 1..n /\ \A t \in DOMAIN tokens : tokens'[t] = tokens[t]
          /\ p = 0 => tokens'[n].session = n
          /\ p # 0 => p \in DOMAIN tokens /\ request[r].kind = "refresh" /\ tokens'[n].session = tokens[p].session
        BY <1>2, <2>1, SessionAdded DEF CreateSession
    <2>3. \A t \in DOMAIN tokens' : t \in DOMAIN tokens \/ t = n
        BY <2>2, TypedFacts
    <2>4. tokens'[n].session \notin ended
        <3>1. CASE p = 0
            BY <2>2, <3>1, TypedFacts DEF Typed
        <3>2. CASE p # 0
            <4>1. Refreshing(tokens[p].session)
                BY <2>1, <2>2, <3>2 DEF Refreshing, Is
            <4> QED
                BY <2>2, <3>2, <4>1 DEF ReuseInv
        <3> QED
            BY <3>1, <3>2
    <2>5. ASSUME NEW t \in DOMAIN tokens, tokens[t].session \in ended
          PROVE  ~Live(t)' /\ ~Refreshing(tokens[t].session)'
        <3>1. ~Live(t) /\ ~Refreshing(tokens[t].session)
            BY <2>5 DEF ReuseInv
        <3>2. ASSUME NEW q \in Request, Refresher(q)' PROVE tokens'[request'[q].token].session # tokens[t].session
            <4>1. Refresher(q) /\ request'[q].token = request[q].token
                BY <3>2 DEF Quiet
            <4>2. request[q].token \in DOMAIN tokens
                BY <4>1, TypedFacts DEF RequestsFit, Proper, Holding, RequestRecord, Refresher, Is
            <4> QED
                BY <2>2, <3>1, <4>1, <4>2 DEF Refreshing, Refresher
        <3> QED
            BY <2>2, <3>1, <3>2 DEF Refreshing, Refresher, Live
    <2> QED
        BY <2>1, <2>2, <2>3, <2>4, <2>5 DEF ReuseInv
<1> QED
    BY <1>1, <1>2 DEF CreateSession

LEMMA ReuseStep == Typed /\ ReuseInv /\ [Next]_vars => ReuseInv'
<1> SUFFICES ASSUME Typed, ReuseInv, [Next]_vars PROVE ReuseInv'
    OBVIOUS
<1>1. ASSUME NEW r \in Request, FindToken(r) PROVE ReuseInv'
    BY <1>1, ReuseFound
<1>2. ASSUME NEW r \in Request, Revoke(r) PROVE ReuseInv'
    BY <1>2, ReuseRevoked
<1>3. CASE \A r \in Request : ~FindToken(r) /\ ~Revoke(r)
    <2>1. Quiet
        BY <1>3, QuietSteps
    <2>2. ASSUME NEW r \in Request, CreateSession(r) PROVE ReuseInv'
        BY <2>1, <2>2, ReuseMade
    <2>3. ASSUME NEW r \in Request, RevokeAll(r) PROVE ReuseInv'
        BY <2>1, <2>3, ReuseDetected
    <2> QED
        BY <2>1, <2>2, <2>3, TokenSteps, HistorySteps, ReuseQuiet
<1> QED
    BY <1>1, <1>2, <1>3

-------------------------------------------------------------------------------
(* What requests hold of OAuth states, rows and users.                       *)

StateQuiet ==
    \A q \in Request : At(q, "del")' =>
        At(q, "del") /\ request'[q].state = request[q].state /\ request'[q].found = request[q].found

RowQuiet ==
    \A q \in Request : (At(q, "select") \/ At(q, "save"))' =>
        request[q] # Idle /\ request'[q].pc = request[q].pc /\ Kept(request[q], request'[q])

CallbackQuiet ==
    \A q \in Request : request'[q] # Idle /\ request'[q].kind \in Callbacks /\ request'[q].id # 0 =>
        /\ request[q] # Idle /\ request[q].kind \in Callbacks /\ request[q].id = request'[q].id
        /\ request[q].late \subseteq request'[q].late

DeletionQuiet == \A q \in Request : Deleting(q)' => Deleting(q) /\ request'[q].id = request[q].id

JobQuiet == \A q \in Request : At(q, "job")' => At(q, "job") /\ request'[q].id = request[q].id

LEMMA PlainHolds ==
    ASSUME Typed, NEW r \in Request, Plain(r)
    PROVE  /\ StateQuiet /\ RowQuiet /\ CallbackQuiet /\ DeletionQuiet
           /\ ~At(r, "forget") => JobQuiet
<1>1. \A q \in Request \ {r} : request'[q] = request[q]
    BY DEF Plain
<1>2. \A q \in Request \ {r} : Kept(request[q], request[q])
    BY DEF Kept
<1>3. request'[r] # Idle => request'[r].pc \notin {"del", "select", "save"}
    BY DEF Plain, PlainMoves
<1>4. Deleting(r)' => Deleting(r) /\ request'[r].id = request[r].id
    BY DEF Plain, PlainMoves, Kept, Deleting, At, Is
<1>5. ~At(r, "forget") => ~At(r, "job")'
    BY DEF Plain, PlainMoves, At
<1>6. StateQuiet
    BY <1>1, <1>3 DEF StateQuiet, At
<1>7. RowQuiet
    BY <1>1, <1>2, <1>3 DEF RowQuiet, At
<1>8. CallbackQuiet
    <2>1. request'[r] # Idle => request[r] # Idle /\ Kept(request[r], request'[r])
        BY DEF Plain
    <2> QED
        BY <1>1, <2>1 DEF CallbackQuiet, Kept
<1>9. DeletionQuiet
    BY <1>1, <1>4 DEF DeletionQuiet, Deleting, At, Is
<1>10. ~At(r, "forget") => JobQuiet
    BY <1>1, <1>5 DEF JobQuiet, At
<1> QED
    BY <1>6, <1>7, <1>8, <1>9, <1>10

LEMMA OnlyHolds ==
    ASSUME Typed, NEW r \in Request, Only(r), request'[r] # Idle => request'[r].pc \notin {"forget", "job"}
    PROVE  /\ DeletionQuiet /\ JobQuiet
           /\ (request'[r] # Idle => request'[r].pc # "del") => StateQuiet
           /\ (request'[r] # Idle => request'[r].pc \notin {"select", "save"}) => RowQuiet
           /\ (request'[r] # Idle => request'[r].id = request[r].id \/ request[r].kind \notin Callbacks)
                 => CallbackQuiet
<1>1. \A q \in Request \ {r} : request'[q] = request[q]
    BY DEF Only
<1>2. \A q \in Request \ {r} : Kept(request[q], request[q])
    BY DEF Kept
<1>3. DeletionQuiet /\ JobQuiet
    BY <1>1 DEF DeletionQuiet, JobQuiet, Deleting, At, Is
<1>4. (request'[r] # Idle => request'[r].pc # "del") => StateQuiet
    BY <1>1 DEF StateQuiet, At
<1>5. (request'[r] # Idle => request'[r].pc \notin {"select", "save"}) => RowQuiet
    BY <1>1, <1>2 DEF RowQuiet, At
<1>6. (request'[r] # Idle => request'[r].id = request[r].id \/ request[r].kind \notin Callbacks)
                 => CallbackQuiet
    BY <1>1 DEF CallbackQuiet, Only
<1> QED
    BY <1>3, <1>4, <1>5, <1>6

LEMMA LateHolds ==
    ASSUME NEW r \in Request, NEW W, OthersLate(r, W),
           request'[r] # Idle => /\ request'[r].pc \notin {"del", "select", "save", "job"}
                                 /\ request'[r].kind \notin Callbacks
    PROVE  /\ StateQuiet /\ RowQuiet /\ CallbackQuiet /\ JobQuiet
           /\ (request'[r] # Idle => request'[r].pc # "forget") => DeletionQuiet
<1>1. StateQuiet
    BY DEF OthersLate, Kept, StateQuiet, At
<1>2. RowQuiet
    BY DEF OthersLate, RowQuiet, At
<1>3. CallbackQuiet
    BY DEF OthersLate, Kept, CallbackQuiet
<1>4. JobQuiet
    BY DEF OthersLate, Kept, JobQuiet, At
<1>5. (request'[r] # Idle => request'[r].pc # "forget") => DeletionQuiet
    BY DEF OthersLate, Kept, DeletionQuiet, Deleting, At, Is
<1> QED
    BY <1>1, <1>2, <1>3, <1>4, <1>5

LEMMA BegunHolds ==
    ASSUME NEW r \in Request, Begun(r)
    PROVE  StateQuiet /\ RowQuiet /\ CallbackQuiet /\ DeletionQuiet /\ JobQuiet
<1>1. \A q \in Request \ {r} : request'[q] = request[q]
    BY DEF Begun
<1>2. \A q \in Request \ {r} : Kept(request[q], request[q])
    BY DEF Kept
<1>3. StateQuiet
    BY <1>1 DEF Begun, StateQuiet, At
<1>4. RowQuiet
    BY <1>1, <1>2 DEF Begun, RowQuiet, At
<1>5. CallbackQuiet
    BY <1>1 DEF Begun, CallbackQuiet
<1>6. DeletionQuiet /\ JobQuiet
    BY <1>1 DEF Begun, DeletionQuiet, JobQuiet, Deleting, At, Is
<1> QED
    BY <1>3, <1>4, <1>5, <1>6

LEMMA HoldSteps ==
    ASSUME Typed, [Next]_vars
    PROVE  /\ (\A r \in Request : ~ReadState(r)) => StateQuiet
           /\ (\A r \in Request : ~Find(r) /\ ~Select(r)) => RowQuiet
           /\ (\A r \in Request : ~Reread(r)) => CallbackQuiet
           /\ (\A r \in Request : ~Erase(r)) => DeletionQuiet
           /\ (\A r \in Request : ~Forget(r)) => JobQuiet
<1> DEFINE Goal == /\ (\A r \in Request : ~ReadState(r)) => StateQuiet
                   /\ (\A r \in Request : ~Find(r) /\ ~Select(r)) => RowQuiet
                   /\ (\A r \in Request : ~Reread(r)) => CallbackQuiet
                   /\ (\A r \in Request : ~Erase(r)) => DeletionQuiet
                   /\ (\A r \in Request : ~Forget(r)) => JobQuiet
<1>1. CASE UNCHANGED request
    <2>1. \A q \in Request : request'[q] = request[q] /\ Kept(request[q], request[q])
        BY <1>1 DEF Kept
    <2> QED
        BY <2>1 DEF StateQuiet, RowQuiet, CallbackQuiet, DeletionQuiet, JobQuiet, Deleting, At, Is
<1>2. CASE Time
    BY <1>1, <1>2 DEF Time, LoginUrl, StateExpires, DiscordTokenExpires, TokenExpires
<1>3. ASSUME NEW r \in Request, Start(r) \/ StartOfUser(r) PROVE Goal
    BY <1>3, StartSteps, BegunHolds
<1>4. ASSUME NEW r \in Request,
             \/ Fails(r) \/ DelState(r) \/ Exchange(r) \/ Upsert(r) \/ FindForRegister(r) \/ EnsureWorkspace(r)
             \/ CreateSession(r) \/ StoreDiscordToken(r) \/ FindOwnToken(r) \/ FindUser(r) \/ Revoke(r)
             \/ RevokeAll(r) \/ Guard(r) \/ GuardAdmin(r) \/ Forget(r) \/ AddGdprJob(r)
      PROVE  Goal
    <2>1. Plain(r)
        BY <1>4, PlainSteps
    <2>2. StateQuiet /\ RowQuiet /\ CallbackQuiet /\ DeletionQuiet
        BY <2>1, PlainHolds
    <2>3. ~Forget(r) => JobQuiet
        <3>1. CASE At(r, "forget") /\ ~Fails(r)
            BY <1>4, <3>1 DEF DelState, Exchange, Upsert, FindForRegister, EnsureWorkspace, CreateSession,
                    StoreDiscordToken, FindOwnToken, FindUser, Revoke, RevokeAll, Guard, GuardAdmin, AddGdprJob, At
        <3>2. CASE Fails(r)
            BY <3>2, TypedFacts DEF Fails, End, JobQuiet, At, Idle
        <3> QED
            BY <2>1, <3>1, <3>2, PlainHolds
    <2> QED
        BY <2>2, <2>3
<1>5. ASSUME NEW r \in Request, ReadState(r) PROVE Goal
    BY <1>5, ReadStateStep, OnlyHolds
<1>6. ASSUME NEW r \in Request, Reread(r) PROVE Goal
    BY <1>6, RereadStep, OnlyHolds
<1>7. ASSUME NEW r \in Request, Find(r) PROVE Goal
    <2>1. request[r].kind \notin Callbacks
        BY <1>7, AtProper DEF Find, Placed, Callbacks
    <2> QED
        BY <1>7, <2>1, FindStep, OnlyHolds
<1>8. ASSUME NEW r \in Request, Insert(r) PROVE Goal
    <2>1. request[r].kind \notin Callbacks
        BY <1>8, AtProper DEF Insert, Placed, Callbacks
    <2> QED
        BY <1>8, <2>1, InsertStep, OnlyHolds
<1>9. ASSUME NEW r \in Request, Select(r) PROVE Goal
    BY <1>9, SelectStep, OnlyHolds
<1>10. ASSUME NEW r \in Request, FindToken(r) PROVE Goal
    BY <1>10, FindTokenStep, OnlyHolds DEF Callbacks
<1>11. ASSUME NEW r \in Request, Save(r) PROVE Goal
    BY <1>11, SaveStep, LateHolds DEF Kept, Callbacks
<1>12. ASSUME NEW r \in Request, Erase(r) PROVE Goal
    BY <1>12, EraseStep, LateHolds DEF Callbacks
<1>13. CASE UNCHANGED vars
    BY <1>1, <1>13 DEF vars
<1> QED
    BY <1>2, <1>3, <1>4, <1>5, <1>6, <1>7, <1>8, <1>9, <1>10, <1>11, <1>12, <1>13
       DEF Next, OAuth, Users, Holders

-------------------------------------------------------------------------------
(* An OAuth state admits one callback.                                       *)

\* Nothing is read, admitted or issued.
LEMMA StateKept ==
    ASSUME StateInv, StateQuiet, states' \subseteq states, UNCHANGED <<issued, admitted, shared>>
    PROVE  StateInv'
<1>1. \A q \in Request, s \in State : Holds(q, s)' => Holds(q, s) /\ request'[q].found = request[q].found
    BY DEF StateQuiet, Holds, At
<1>2. \A r \in Request : At(r, "del")' /\ request'[r].found => request'[r].state \in issued
    BY DEF StateQuiet, StateInv
<1>3. ASSUME NEW s \in State \ shared
      PROVE  /\ admitted[s] <= 1
             /\ \A q, r \in Request : Holds(q, s)' /\ Holds(r, s)' => q = r
             /\ admitted[s] = 1 => /\ s \notin states'
                                   /\ \A r \in Request : Holds(r, s)' => ~request'[r].found
    BY <1>1 DEF StateInv
<1> QED
    BY <1>2, <1>3 DEF StateInv

LEMMA LoginUrlState ==
    ASSUME Typed, StateInv, NEW s \in State, LoginUrl(s)
    PROVE  StateInv'
<1>1. UNCHANGED request
    BY DEF LoginUrl
<1>2. admitted[s] = 0
    BY DEF LoginUrl, StateInv
<1> QED
    BY <1>1, <1>2 DEF LoginUrl, StateInv, Holds, At

LEMMA ReadStateState ==
    ASSUME Typed, StateInv, NEW r \in Request, ReadState(r)
    PROVE  StateInv'
<1>1. /\ Only(r)
      /\ request'[r] # Idle => /\ request'[r].pc = "del" /\ request'[r].state = request[r].state
                               /\ request'[r].found = (request[r].state \in states)
    BY ReadStateStep DEF Only
<1>2. UNCHANGED <<states, issued, admitted>> /\ shared \subseteq shared' /\ states \subseteq issued
    BY TypedParts DEF ReadState, RedisTyped
<1>3. \A q \in Request \ {r} : request'[q] = request[q]
    BY <1>1 DEF Only
<1>4. \A q \in Request : At(q, "del")' /\ request'[q].found => request'[q].state \in issued
    BY <1>1, <1>2, <1>3 DEF StateInv, At
<1>5. ASSUME NEW s \in State \ shared'
      PROVE  /\ \A p, q \in Request : Holds(p, s)' /\ Holds(q, s)' => p = q
             /\ admitted[s] = 1 => \A q \in Request : Holds(q, s)' => ~request'[q].found
    <2>1. \A q \in Request \ {r} : Holds(q, s)' <=> Holds(q, s)
        BY <1>3 DEF Holds, At
    <2>2. s \in State \ shared
        BY <1>2
    <2>3. CASE ~Holds(r, s)'
        BY <1>3, <2>1, <2>2, <2>3 DEF StateInv
    <2>4. CASE Holds(r, s)'
        <3>1. s = request[r].state
            BY <1>1, <2>4 DEF Holds, At
        <3>2. \A q \in Request \ {r} : ~Holds(q, s)
            BY <3>1 DEF ReadState, Holds
        <3>3. admitted[s] = 1 => s \notin states
            BY <2>2 DEF StateInv
        <3>4. admitted[s] = 1 => ~request'[r].found
            BY <1>1, <2>4, <3>1, <3>3 DEF Holds, At
        <3> QED
            BY <2>1, <3>2, <3>4
    <2> QED
        BY <2>3, <2>4
<1> QED
    BY <1>2, <1>4, <1>5 DEF StateInv

LEMMA DelStateState ==
    ASSUME Typed, StateInv, NEW r \in Request, DelState(r)
    PROVE  StateInv'
<1> DEFINE s == request[r].state
<1>1. /\ Plain(r) /\ At(r, "del") /\ s \in State /\ states' = states \ {s} /\ UNCHANGED <<issued, shared>>
      /\ StateQuiet
    BY PlainSteps, PlainHolds, AtProper DEF DelState, Holding
<1>2. CASE ~request[r].found
    BY <1>1, <1>2, StateKept DEF DelState
<1>3. CASE request[r].found
    <2>1. admitted' = [admitted EXCEPT ![s] = @ + 1] /\ admitted \in [State -> Nat]
        BY <1>3, TypedParts DEF DelState, RedisTyped
    <2>2. s \in issued /\ ~At(r, "del")'
        <3>1. request'[r] # Idle => request'[r].pc # "del"
            BY <1>1 DEF Plain, PlainMoves
        <3> QED
            BY <1>1, <1>3, <3>1 DEF StateInv, At
    <2>3. \A q \in Request, u \in State : Holds(q, u)' => Holds(q, u) /\ request'[q].found = request[q].found
        BY <1>1 DEF StateQuiet, Holds, At
    <2>4. \A q \in Request : At(q, "del")' /\ request'[q].found => request'[q].state \in issued
        BY <1>1 DEF StateQuiet, StateInv
    <2>5. PICK u \in State : u = s
        BY <1>1
    <2>6. \A v \in State \ {u} : admitted'[v] = admitted[v]
        BY <2>1, <2>5
    <2>7. ASSUME u \notin shared
          PROVE  admitted'[u] = 1 /\ u \notin states' /\ \A q \in Request : ~Holds(q, u)'
        <3>1. Holds(r, u)
            BY <1>1, <2>5 DEF Holds
        <3>2. admitted[u] = 0
            <4>1. admitted[u] # 1 /\ admitted[u] <= 1 /\ admitted[u] \in Nat
                BY <1>3, <2>1, <2>7, <3>1 DEF StateInv
            <4> QED
                BY <4>1
        <3>3. \A q \in Request : Holds(q, u) => q = r
            BY <2>7, <3>1 DEF StateInv
        <3>4. \A q \in Request : ~Holds(q, u)'
            BY <2>2, <2>3, <3>3 DEF Holds
        <3> QED
            BY <1>1, <2>1, <2>5, <3>2, <3>4
    <2>8. \A v \in State \ issued : admitted'[v] = 0
        BY <2>2, <2>5, <2>6 DEF StateInv
    <2>9. ASSUME NEW v \in State \ shared
          PROVE  /\ admitted'[v] <= 1
                 /\ \A p, q \in Request : Holds(p, v)' /\ Holds(q, v)' => p = q
                 /\ admitted'[v] = 1 => /\ v \notin states'
                                        /\ \A q \in Request : Holds(q, v)' => ~request'[q].found
        <3>1. CASE v = u
            BY <2>7, <2>9, <3>1
        <3>2. CASE v # u
            BY <1>1, <2>3, <2>6, <2>9, <3>2 DEF StateInv
        <3> QED
            BY <3>1, <3>2
    <2> QED
        BY <1>1, <2>4, <2>8, <2>9 DEF StateInv
<1> QED
    BY <1>2, <1>3

LEMMA RedisSteps ==
    ASSUME [Next]_vars, \A s \in State : ~LoginUrl(s), \A r \in Request : ~ReadState(r) /\ ~DelState(r)
    PROVE  states' \subseteq states /\ UNCHANGED <<issued, admitted, shared>>
<1>1. CASE UNCHANGED redis
    BY <1>1 DEF redis
<1>2. CASE Time
    BY <1>2 DEF Time, StateExpires, DiscordTokenExpires, TokenExpires, redis
<1>3. ASSUME NEW r \in Request, Start(r) \/ StartOfUser(r) \/ Fails(r) PROVE UNCHANGED redis
    BY <1>3 DEF Start, StartOfUser, Begin, Fails
<1>4. ASSUME NEW r \in Request, OAuth(r) PROVE UNCHANGED redis
    BY <1>4 DEF OAuth, Exchange, Upsert, Reread
<1>5. ASSUME NEW r \in Request, Users(r) PROVE UNCHANGED <<states, issued, admitted, shared>>
    BY <1>5 DEF Users, Find, FindForRegister, Insert, Select, Save, EnsureWorkspace, CreateSession,
                StoreDiscordToken, redis
<1>6. ASSUME NEW r \in Request, Holders(r) PROVE UNCHANGED <<states, issued, admitted, shared>>
    BY <1>6 DEF Holders, FindToken, FindOwnToken, FindUser, Revoke, RevokeAll, Guard, GuardAdmin, Erase, Forget,
                AddGdprJob, redis
<1>7. CASE UNCHANGED vars
    BY <1>1, <1>7 DEF vars
<1> QED
    BY <1>1, <1>2, <1>3, <1>4, <1>5, <1>6, <1>7 DEF Next

LEMMA StateStep == Typed /\ StateInv /\ [Next]_vars => StateInv'
<1> SUFFICES ASSUME Typed, StateInv, [Next]_vars PROVE StateInv'
    OBVIOUS
<1>1. ASSUME NEW s \in State, LoginUrl(s) PROVE StateInv'
    BY <1>1, LoginUrlState
<1>2. ASSUME NEW r \in Request, ReadState(r) PROVE StateInv'
    BY <1>2, ReadStateState
<1>3. ASSUME NEW r \in Request, DelState(r) PROVE StateInv'
    BY <1>3, DelStateState
<1> QED
    BY <1>1, <1>2, <1>3, RedisSteps, HoldSteps, StateKept

-------------------------------------------------------------------------------
(* The decisions hold.                                                     *)

LEMMA DecidesOf ==
    ASSUME NEW r \in Request
    PROVE  /\ Decides(r) \subseteq Decided
           /\ request'[r].kind = request[r].kind => Decides(r)' = Decides(r)
BY DEF Decides, Decided, Is

\* The row changes nothing that is decided, or is new, or goes.
RowSame == \A id \in 0..ids : Has(id)' => Has(id) /\ \A c \in Decided : user'[c] = user[c]

LEMMA UpToDateKept ==
    ASSUME Typed, RowQuiet, RowSame, NEW r \in Request, UpToDate(r)
    PROVE  UpToDate(r)'
<1> SUFFICES ASSUME (At(r, "select") \/ At(r, "save"))', Has(request[r].id)', NEW c \in Decided, c \notin request'[r].late
             PROVE  /\ c \notin Decides(r)' => request'[r].entity[c] = user'[c]
                    /\ At(r, "save")' /\ request'[r].stored # NoUser => request'[r].stored[c] = user'[c]
    BY DEF UpToDate
<1>1. request[r] # Idle /\ request'[r].pc = request[r].pc /\ Kept(request[r], request'[r])
    BY DEF RowQuiet
<1>2. request[r].id \in 0..ids
    BY <1>1, TypedFacts, SessionsAssumption DEF RequestsFit, Proper, Holding, RequestRecord
<1>3. Has(request[r].id) /\ user'[c] = user[c]
    BY <1>1, <1>2 DEF RowSame, Kept, Has
<1>4. c \notin request[r].late /\ (At(r, "select") \/ At(r, "save")) /\ (At(r, "save")' => At(r, "save"))
    BY <1>1 DEF Kept, At
<1>5. /\ c \notin Decides(r) => request[r].entity[c] = user[c]
      /\ At(r, "save") /\ request[r].stored # NoUser => request[r].stored[c] = user[c]
    BY <1>3, <1>4 DEF UpToDate
<1> QED
    BY <1>1, <1>3, <1>4, <1>5, DecidesOf DEF Kept

LEMMA SameRow ==
    ASSUME UNCHANGED user
    PROVE  RowSame
BY DEF RowSame, Has

\* Who finds the row changes of its copy what the request decides.
LEMMA FindUpToDate ==
    ASSUME Typed, NEW r \in Request, Find(r)
    PROVE  UpToDate(r)'
<1>1. request[r].kind \in {"login", "ban", "unban", "profile", "upgrade", "cancel"}
    BY AtProper DEF Find, Placed, Is
<1>2. /\ Only(r)
      /\ request'[r] # Idle =>
            /\ request'[r].pc = "select" /\ request'[r].id = user.id /\ Accepts(r)
            /\ request'[r].entity \in IF Is(r, {"upgrade", "cancel"}) THEN Billed(user)[request[r].kind]
                                      ELSE {Edited(user)[request[r].kind]}
    BY FindStep
<1>3. UNCHANGED user
    BY DEF Find, account
<1> SUFFICES ASSUME request'[r] # Idle, NEW c \in Decided, Has(request[r].id)'
             PROVE  c \notin Decides(r) => request'[r].entity[c] = user[c]
    <2>1. Decides(r)' = Decides(r) \/ request'[r] = Idle
        BY <1>2, DecidesOf DEF Only
    <2> QED
        BY <1>2, <1>3, <2>1 DEF UpToDate, At
<1>4. user # NoUser
    BY <1>3 DEF Has, NoUser
<1>5. user \in Row
    BY <1>4, TypedFacts
<1>6. CASE request[r].kind \in {"login", "profile"}
    <2>1. Edited(user).login = user /\ \A d \in Decided : Edited(user).profile[d] = user[d]
        BY <1>5 DEF Edited, Row, Decided
    <2> QED
        <3>1. request'[r].entity = Edited(user)[request[r].kind]
            BY <1>2, <1>6 DEF Is
        <3>2. CASE request[r].kind = "login"
            BY <2>1, <3>1, <3>2
        <3>3. CASE request[r].kind = "profile"
            BY <2>1, <3>1, <3>3
        <3> QED
            BY <1>6, <3>2, <3>3
<1>7. CASE request[r].kind \in {"ban", "unban"}
    <2>1. Edited(user).ban["plan"] = user["plan"] /\ Edited(user).unban["plan"] = user["plan"]
        BY <1>5 DEF Edited, Row
    <2>2. "status" \in Decides(r)
        BY <1>7 DEF Decides, Is
    <2> QED
        BY <1>2, <1>7, <2>1, <2>2 DEF Is, Decided
<1>8. CASE request[r].kind \in {"upgrade", "cancel"}
    <2>1. /\ \A e \in Billed(user).upgrade : e["status"] = user["status"]
          /\ \A e \in Billed(user).cancel : e["status"] = user["status"]
        BY <1>5 DEF Billed, Row
    <2>2. "plan" \in Decides(r)
        BY <1>8 DEF Decides, Is
    <2>3. request'[r].entity \in Billed(user)[request[r].kind]
        BY <1>2, <1>8 DEF Is
    <2> QED
        BY <1>8, <2>1, <2>2, <2>3 DEF Decided
<1> QED
    BY <1>1, <1>6, <1>7, <1>8

LEMMA SelectUpToDate ==
    ASSUME Typed, NEW r \in Request, Select(r), UpToDate(r)
    PROVE  UpToDate(r)'
<1>1. /\ Only(r) /\ request'[r].pc = "save" /\ request'[r].id = request[r].id
      /\ request'[r].entity = request[r].entity
      /\ request'[r].stored = IF Has(request[r].id) THEN user ELSE NoUser
    BY SelectStep
<1>2. UNCHANGED user /\ At(r, "select")
    BY DEF Select, account
<1>3. request'[r] = Idle \/ (Decides(r)' = Decides(r) /\ request'[r].late = request[r].late)
    BY <1>1, DecidesOf DEF Only
<1> QED
    BY <1>1, <1>2, <1>3 DEF UpToDate, At, Has

\* A save writes what the request decides, and besides what the row says already; or it counts
\* as the save of an older entity, and so do the others' that are in progress.
LEMMA SaveDecision ==
    ASSUME Typed, DecisionInv, NEW r \in Request, Save(r)
    PROVE  DecisionInv'
<1> DEFINE e == request[r].entity
           old == request[r].stored
           late == request[r].late
<1>1. /\ At(r, "save") /\ Holding(request[r], ids, tokens) /\ request[r] \in RequestRecord
      /\ e \in Row /\ e.id = request[r].id /\ (old # NoUser => old.id = request[r].id)
      /\ late \subseteq Decided \cup {"erased"}
    BY AtProper DEF Save, Holding, RequestRecord
<1>2. ~(At(r, "select") \/ At(r, "save"))' /\ RowQuiet
    BY SaveStep, LateHolds DEF At, Kept, Callbacks
<1>3. CASE UNCHANGED <<user, told, loose>>
    BY <1>2, <1>3, UpToDateKept, SameRow DEF DecisionInv, DecisionHolds
<1>4. CASE /\ user' = e /\ told' = [c \in Decided |-> e[c]]
           /\ Overtaken(r, Decided, Afterwards(r))
    <2>1. OthersLate(r, Decided)
        BY <1>4, OvertakenStep
    <2>2. DecisionHolds'
        BY <1>4 DEF DecisionHolds
    <2>3. ASSUME NEW q \in Request PROVE UpToDate(q)'
        BY <1>2, <2>1 DEF UpToDate, OthersLate, At
    <2> QED
        BY <2>2, <2>3 DEF DecisionInv
<1>5. CASE /\ old # NoUser /\ Has(old.id)
           /\ user' = Merge(user, e, old)
           /\ told' = [c \in Decided |-> IF c \in Decides(r) THEN e[c] ELSE told[c]]
           /\ loose' = (loose \ Decides(r)) \cup (late \cap Decided)
           /\ Overtaken(r, Decides(r) \cup (late \cap Decided), Afterwards(r))
    <2> DEFINE W == Decides(r) \cup (late \cap Decided)
    <2>1. user \in Row /\ user # NoUser /\ Has(request[r].id)
        BY <1>1, <1>5, TypedFacts DEF Has, NoUser
    <2>2. user' \in Row /\ user'.id = user.id
          /\ \A c \in Decided : user'[c] = IF e[c] # old[c] THEN e[c] ELSE user[c]
        BY <1>1, <1>5, <2>1, MergeTyped, MergeDecides
    <2>3. \A c \in Decided \ late : /\ c \notin Decides(r) => e[c] = user[c]
                                    /\ old[c] = user[c]
        BY <1>1, <1>5, <2>1 DEF DecisionInv, UpToDate
    <2>4. \A c \in Decided \ W : user'[c] = user[c]
        BY <2>2, <2>3
    <2>5. ASSUME NEW c \in Decided \ loose' PROVE user'[c] = told'[c]
        <3>1. c \notin late
            BY <1>5, <2>5
        <3>2. CASE c \in Decides(r)
            BY <1>5, <2>2, <2>3, <3>1, <3>2
        <3>3. CASE c \notin Decides(r)
            BY <1>5, <2>1, <2>4, <2>5, <3>1, <3>3 DEF DecisionInv, DecisionHolds
        <3> QED
            BY <3>2, <3>3
    <2>6. OthersLate(r, W)
        <3>1. W \in SUBSET (Decided \cup {"erased"})
            BY DecidesOf
        <3> QED
            BY <1>5, <3>1, OvertakenStep
    <2> HIDE DEF W
    <2>7. ASSUME NEW q \in Request \ {r} PROVE UpToDate(q)'
        <3> SUFFICES ASSUME (At(q, "select") \/ At(q, "save"))', Has(request[q].id)', NEW c \in Decided,
                            c \notin request'[q].late
                     PROVE  /\ c \notin Decides(q)' => request'[q].entity[c] = user'[c]
                            /\ At(q, "save")' /\ request'[q].stored # NoUser => request'[q].stored[c] = user'[c]
            BY DEF UpToDate
        <3>1. /\ request[q] # Idle /\ Kept(request[q], request'[q])
              /\ request'[q].pc = request[q].pc /\ request'[q].late = request[q].late \cup W
            BY <2>6 DEF OthersLate, At
        <3>2. user'[c] = user[c] /\ c \notin request[q].late
            BY <2>4, <3>1
        <3>3. Has(request[q].id)
            BY <2>2, <3>1 DEF Has, Kept
        <3>4. (At(q, "select") \/ At(q, "save")) /\ (At(q, "save")' => At(q, "save"))
            BY <3>1 DEF At
        <3>5. /\ c \notin Decides(q) => request[q].entity[c] = user[c]
              /\ At(q, "save") /\ request[q].stored # NoUser => request[q].stored[c] = user[c]
            BY <3>2, <3>3, <3>4 DEF DecisionInv, UpToDate
        <3> QED
            BY <3>1, <3>2, <3>4, <3>5, DecidesOf DEF Kept
    <2>8. UpToDate(r)'
        BY <1>2 DEF UpToDate
    <2> QED
        BY <2>5, <2>7, <2>8 DEF DecisionInv, DecisionHolds
<1> QED
    BY <1>3, <1>4, <1>5 DEF Save

LEMMA NewUserRow ==
    ASSUME Typed, NEW via, NewUser(via)
    PROVE  RowSame /\ DecisionHolds'
<1>1. user' = [id |-> ids + 1, status |-> "active", plan |-> "free", via |-> via, profile |-> 0] /\ told' = Fresh
    BY DEF NewUser
<1>2. user'.id = ids + 1 /\ user'["status"] = "active" /\ user'["plan"] = "free"
    BY <1>1
<1>3. told'["status"] = "active" /\ told'["plan"] = "free"
    BY <1>1 DEF Fresh
<1>4. RowSame
    BY <1>2, TypedFacts DEF RowSame, Has
<1> QED
    BY <1>2, <1>3, <1>4 DEF DecisionHolds, Decided

LEMMA UpsertDecision ==
    ASSUME Typed, DecisionHolds, NEW r \in Request, Upsert(r)
    PROVE  RowSame /\ DecisionHolds'
<1>1. CASE user.via = "discord" /\ user' = Refreshed(user) /\ UNCHANGED <<told, loose>>
    <2>1. user \in Row /\ user # NoUser
        BY <1>1, TypedFacts DEF NoUser
    <2>2. user'.id = user.id /\ user'["status"] = user["status"] /\ user'["plan"] = user["plan"]
        BY <1>1, <2>1 DEF Refreshed, Row
    <2> QED
        BY <1>1, <2>1, <2>2 DEF RowSame, Has, DecisionHolds, Decided
<1>2. CASE UNCHANGED <<user, told, loose>>
    BY <1>2, SameRow DEF DecisionHolds
<1> QED
    BY <1>1, <1>2, NewUserRow DEF Upsert

LEMMA EraseDecision ==
    ASSUME DecisionHolds, NEW r \in Request, Erase(r)
    PROVE  RowSame /\ DecisionHolds'
<1>1. (user' = NoUser \/ UNCHANGED user) /\ UNCHANGED <<told, loose>>
    BY DEF Erase
<1> QED
    BY <1>1 DEF RowSame, Has, NoUser, DecisionHolds

\* Nothing else touches the row.
LEMMA RowSteps ==
    ASSUME [Next]_vars, \A r \in Request : ~Upsert(r) /\ ~Insert(r) /\ ~Save(r) /\ ~Erase(r)
    PROVE  UNCHANGED <<user, told, loose>>
<1> USE DEF account
<1>2. CASE Time
    BY <1>2 DEF Time, LoginUrl, StateExpires, DiscordTokenExpires, TokenExpires
<1>3. ASSUME NEW r \in Request, Start(r) \/ StartOfUser(r) \/ Fails(r) PROVE UNCHANGED account
    BY <1>3 DEF Start, StartOfUser, Begin, Fails
<1>4. ASSUME NEW r \in Request, OAuth(r) PROVE UNCHANGED account
    BY <1>4 DEF OAuth, ReadState, DelState, Exchange, Reread
<1>5. ASSUME NEW r \in Request, Users(r) PROVE UNCHANGED <<user, told, loose>>
    BY <1>5 DEF Users, Find, FindForRegister, Select, EnsureWorkspace, CreateSession, StoreDiscordToken
<1>6. ASSUME NEW r \in Request, Holders(r) PROVE UNCHANGED account
    BY <1>6 DEF Holders, FindToken, FindOwnToken, FindUser, Revoke, RevokeAll, Guard, GuardAdmin, Forget, AddGdprJob
<1>7. CASE UNCHANGED vars
    BY <1>7 DEF vars
<1> QED
    BY <1>2, <1>3, <1>4, <1>5, <1>6, <1>7 DEF Next

LEMMA DecisionStep == Typed /\ DecisionInv /\ [Next]_vars => DecisionInv'
<1> SUFFICES ASSUME Typed, DecisionInv, [Next]_vars PROVE DecisionInv'
    OBVIOUS
<1>1. ASSUME NEW r \in Request, Save(r) PROVE DecisionInv'
    BY <1>1, SaveDecision
<1>2. CASE \A r \in Request : ~Save(r)
    <2>1. RowSame /\ DecisionHolds'
        <3>1. ASSUME NEW r \in Request, Insert(r) PROVE RowSame /\ DecisionHolds'
            BY <3>1, NewUserRow, SameRow DEF Insert, DecisionInv, DecisionHolds
        <3> QED
            BY <1>2, <3>1, RowSteps, UpsertDecision, EraseDecision, SameRow DEF DecisionInv, DecisionHolds
    <2>2. ASSUME NEW r \in Request, Find(r) \/ Select(r) PROVE \A q \in Request : UpToDate(q)'
        <3>1. UpToDate(r)'
            BY <2>2, FindUpToDate, SelectUpToDate DEF DecisionInv
        <3>2. \A q \in Request \ {r} : request'[q] = request[q]
            BY <2>2, FindStep, SelectStep DEF Only
        <3>3. UNCHANGED user
            BY <2>2 DEF Find, Select, account
        <3>4. ASSUME NEW q \in Request \ {r} PROVE UpToDate(q)'
            BY <3>2, <3>3, DecidesOf DEF DecisionInv, UpToDate, At, Has
        <3> QED
            BY <3>1, <3>4
    <2>3. CASE \A r \in Request : ~Find(r) /\ ~Select(r)
        BY <2>1, <2>3, HoldSteps, UpToDateKept DEF DecisionInv
    <2> QED
        BY <2>1, <2>2, <2>3 DEF DecisionInv
<1> QED
    BY <1>1, <1>2

-------------------------------------------------------------------------------
(* A user who was deleted is gone.                                           *)

\* What is gone had an id.
LEMMA GoneIds ==
    ASSUME Typed, NEW id, Gone(id) \/ Forgotten(id)
    PROVE  id \in 1..ids /\ Gone(id)
<1>1. erased \subseteq 1..ids
    BY TypedParts DEF RestTyped
<1>2. ASSUME NEW r \in Request, At(r, "forget") \/ At(r, "job")
      PROVE  request[r].id \in 1..ids /\ (At(r, "job") => Is(r, {"delete"}))
    <2>1. Placed(request[r]) /\ Holding(request[r], ids, tokens) /\ request[r] \in RequestRecord
          /\ request[r].pc \in {"forget", "job"}
        BY <1>2, AtProper
    <2>2. request[r].id \in 0..MaxIds /\ request[r].id # 0 /\ request[r].id <= ids
        BY <2>1 DEF RequestRecord, Holding
    <2> QED
        BY <2>1, <2>2, TypedFacts, SessionsAssumption DEF Placed, Is, At
<1> QED
    BY <1>1, <1>2 DEF Gone, Forgotten, Deleting

\* What nobody may bring back but who is noted.
RowBack == \A id \in 1..ids \ revived' : Has(id)' => Has(id)

TokenBack ==
    \A t \in DOMAIN tokens' : tokens'[t].row =>
        \/ t \in DOMAIN tokens /\ tokens[t].row /\ tokens[t].id = tokens'[t].id
        \/ Has(tokens'[t].id)

CallbackBack ==
    \A q \in Request : request'[q] # Idle /\ request'[q].kind \in Callbacks /\ request'[q].id # 0 =>
        \/ /\ request[q] # Idle /\ request[q].kind \in Callbacks /\ request[q].id = request'[q].id
           /\ request[q].late \subseteq request'[q].late
        \/ Has(request'[q].id)

LEMMA NothingBack ==
    ASSUME NEW id \in 1..ids, id \notin revived', Nothing(id), RowBack, TokenBack, CallbackBack
    PROVE  Nothing(id)'
<1>1. ~Has(id)'
    BY DEF Nothing, RowBack
<1>2. \A t \in DOMAIN tokens' : tokens'[t].id = id => ~tokens'[t].row
    BY DEF Nothing, TokenBack
<1>3. ASSUME NEW r \in Request, request'[r] # Idle, request'[r].kind \in Callbacks, request'[r].id = id
      PROVE  "erased" \in request'[r].late
    <2>1. id # 0 /\ ~Has(id)
        BY TypedFacts DEF Nothing, Has
    <2> QED
        BY <1>3, <2>1 DEF Nothing, CallbackBack, Is
<1> QED
    BY <1>1, <1>2, <1>3 DEF Nothing, Is

LEMMA RowBackSteps ==
    ASSUME Typed, DecisionHolds, [Next]_vars
    PROVE  RowBack
<1>1. RowSame => RowBack
    BY DEF RowSame, RowBack
<1>2. ASSUME NEW r \in Request, Save(r) PROVE RowBack
    <2>1. CASE request[r].stored = NoUser /\ user' = request[r].entity /\ revived' = revived \cup {request[r].entity.id}
        BY <2>1 DEF RowBack, Has
    <2>2. CASE UNCHANGED user
        BY <1>1, <2>2, SameRow
    <2>3. CASE Has(request[r].stored.id) /\ user' = Merge(user, request[r].entity, request[r].stored)
        <3>1. request[r].entity \in Row /\ user \in Row
            <4>1. At(r, "save") /\ request[r].stored.id # 0 /\ user # NoUser
                BY <1>2, <2>3 DEF Save, Has, NoUser
            <4> QED
                BY <4>1, AtProper, TypedFacts DEF Holding, RequestRecord
        <3>2. user'.id = user.id
            BY <2>3, <3>1, MergeTyped
        <3> QED
            BY <3>2 DEF RowBack, Has
    <2> QED
        BY <1>2, <2>1, <2>2, <2>3 DEF Save
<1>3. ASSUME NEW r \in Request, Insert(r) PROVE RowSame
    BY <1>3, NewUserRow, SameRow DEF Insert
<1> QED
    BY <1>1, <1>2, <1>3, RowSteps, UpsertDecision, EraseDecision, SameRow

LEMMA TokenBackSteps ==
    ASSUME Typed, [Next]_vars
    PROVE  TokenBack
<1>1. CASE UNCHANGED tokens
    BY <1>1 DEF TokenBack
<1>2. ASSUME NEW r \in Request, CreateSession(r) PROVE TokenBack
    <2>1. CASE Has(request[r].id) /\ Len(tokens) < MaxTokens
        <3> DEFINE n == Len(tokens) + 1
        <3>1. /\ DOMAIN tokens' = 1..n /\ \A t \in DOMAIN tokens : tokens'[t] = tokens[t]
              /\ tokens'[n].id = request[r].id
            BY <1>2, <2>1, SessionAdded DEF CreateSession
        <3>2. \A t \in DOMAIN tokens' : t \in DOMAIN tokens \/ t = n
            BY <3>1, TypedFacts
        <3> QED
            BY <2>1, <3>1, <3>2 DEF TokenBack
    <2> QED
        BY <1>1, <1>2, <2>1 DEF CreateSession
<1>3. ASSUME NEW r \in Request, Revoke(r) PROVE TokenBack
    BY <1>3, RevokeTokens DEF TokenBack
<1>4. ASSUME NEW r \in Request, RevokeAll(r) PROVE TokenBack
    BY <1>4, RevokeAllTokens DEF TokenBack
<1>5. ASSUME NEW r \in Request, Erase(r) PROVE TokenBack
    BY <1>5, EraseTokens DEF TokenBack
<1>6. ASSUME NEW t \in DOMAIN tokens, TokenExpires(t) PROVE TokenBack
    <2> DEFINE x == [tokens[t] EXCEPT !.expired = TRUE]
    <2>1. x.id = tokens[t].id /\ x.row = tokens[t].row
        BY TypedFacts DEF Token
    <2>2. tokens' = [tokens EXCEPT ![t] = x]
        BY <1>6 DEF TokenExpires
    <2> HIDE DEF x
    <2>3. /\ DOMAIN tokens' = DOMAIN tokens
          /\ \A u \in DOMAIN tokens : tokens'[u] = IF u = t THEN x ELSE tokens[u]
        BY <2>2, TypedFacts
    <2> QED
        BY <2>1, <2>3 DEF TokenBack
<1>7. CASE Time
    BY <1>1, <1>6, <1>7 DEF Time, LoginUrl, StateExpires, DiscordTokenExpires, sessions
<1>8. ASSUME NEW r \in Request, Start(r) \/ StartOfUser(r) \/ Fails(r) PROVE TokenBack
    BY <1>1, <1>8, StartSteps DEF Fails, sessions
<1>9. ASSUME NEW r \in Request, OAuth(r) PROVE TokenBack
    BY <1>1, <1>9 DEF OAuth, ReadState, DelState, Exchange, Upsert, Reread, sessions
<1>10. ASSUME NEW r \in Request, Users(r) PROVE TokenBack
    BY <1>1, <1>2, <1>10 DEF Users, Find, FindForRegister, Insert, Select, Save, EnsureWorkspace, StoreDiscordToken,
                             sessions
<1>11. ASSUME NEW r \in Request, Holders(r) PROVE TokenBack
    BY <1>1, <1>3, <1>4, <1>5, <1>11 DEF Holders, FindToken, FindOwnToken, FindUser, Guard, GuardAdmin, Forget,
                                         AddGdprJob, sessions
<1>12. CASE UNCHANGED vars
    BY <1>1, <1>12 DEF vars, sessions
<1> QED
    BY <1>7, <1>8, <1>9, <1>10, <1>11, <1>12 DEF Next

LEMMA CallbackBackSteps ==
    ASSUME Typed, [Next]_vars
    PROVE  CallbackBack
<1>1. CallbackQuiet => CallbackBack
    BY DEF CallbackQuiet, CallbackBack
<1>2. ASSUME NEW r \in Request, Reread(r) PROVE CallbackBack
    <2>1. /\ \A q \in Request \ {r} : request'[q] = request[q]
          /\ request'[r] # Idle => request'[r].id = user.id
        BY <1>2, RereadStep DEF Only
    <2> QED
        BY <2>1 DEF CallbackBack, Has
<1> QED
    BY <1>1, <1>2, HoldSteps

LEMMA ErasureSteps ==
    ASSUME [Next]_vars
    PROVE  /\ revived \subseteq revived'
           /\ (\A r \in Request : ~AddGdprJob(r)) => UNCHANGED erased
           /\ (\A r \in Request : ~StoreDiscordToken(r)) => discord' \subseteq discord
<1> USE DEF account, redis
<1>2. CASE Time
    BY <1>2 DEF Time, LoginUrl, StateExpires, DiscordTokenExpires, TokenExpires
<1>3. ASSUME NEW r \in Request, Start(r) \/ StartOfUser(r) \/ Fails(r) PROVE UNCHANGED <<account, redis, erased>>
    BY <1>3 DEF Start, StartOfUser, Begin, Fails
<1>4. ASSUME NEW r \in Request, OAuth(r) PROVE UNCHANGED <<revived, erased, discord>>
    BY <1>4 DEF OAuth, ReadState, DelState, Exchange, Upsert, Reread
<1>5. ASSUME NEW r \in Request, Users(r)
      PROVE  revived \subseteq revived' /\ UNCHANGED erased /\ (~StoreDiscordToken(r) => UNCHANGED discord)
    BY <1>5 DEF Users, Find, FindForRegister, Insert, Select, Save, EnsureWorkspace, CreateSession, StoreDiscordToken
<1>6. ASSUME NEW r \in Request, Holders(r)
      PROVE  UNCHANGED revived /\ discord' \subseteq discord /\ (~AddGdprJob(r) => UNCHANGED erased)
    BY <1>6 DEF Holders, FindToken, FindOwnToken, FindUser, Revoke, RevokeAll, Guard, GuardAdmin, Erase, Forget,
                AddGdprJob
<1>7. CASE UNCHANGED vars
    BY <1>7 DEF vars
<1> QED
    BY <1>2, <1>3, <1>4, <1>5, <1>6, <1>7 DEF Next

\* Where the deletions come from.
LEMMA ErasedBefore ==
    ASSUME Typed, [Next]_vars, NEW id \in erased'
    PROVE  id \in erased \/ \E r \in Request : At(r, "job") /\ request[r].id = id
<1>1. ASSUME NEW r \in Request, AddGdprJob(r)
      PROVE  erased' = erased \cup {request[r].id} /\ At(r, "job")
    BY <1>1 DEF AddGdprJob
<1> QED
    BY <1>1, ErasureSteps

LEMMA GoneBefore ==
    ASSUME Typed, [Next]_vars, NEW id, Gone(id)'
    PROVE  Gone(id) \/ \E r \in Request : Erase(r) /\ request[r].id = id
<1>1. CASE id \in erased'
    <2>1. id \in erased \/ Forgotten(id)
        BY <1>1, ErasedBefore DEF Forgotten
    <2> QED
        BY <2>1, GoneIds DEF Gone
<1>2. ASSUME NEW q \in Request, Deleting(q)', request'[q].id = id
      PROVE  Gone(id) \/ \E r \in Request : Erase(r) /\ request[r].id = id
    <2>1. ASSUME NEW r \in Request, Erase(r), q # r PROVE Deleting(q) /\ request[q].id = id
        BY <1>2, <2>1, EraseStep DEF OthersLate, Kept, Deleting, At, Is
    <2>2. ASSUME NEW r \in Request, Erase(r), q = r PROVE request[r].id = id
        BY <1>2, <2>2, EraseStep
    <2>3. CASE \A r \in Request : ~Erase(r)
        BY <1>2, <2>3, HoldSteps DEF DeletionQuiet, Gone
    <2> QED
        BY <2>1, <2>2, <2>3 DEF Gone
<1> QED
    BY <1>1, <1>2 DEF Gone

LEMMA ForgottenBefore ==
    ASSUME Typed, [Next]_vars, NEW id, Forgotten(id)'
    PROVE  Forgotten(id) \/ \E r \in Request : Forget(r) /\ request[r].id = id
<1>1. CASE id \in erased'
    BY <1>1, ErasedBefore DEF Forgotten
<1>2. ASSUME NEW q \in Request, At(q, "job")', request'[q].id = id
      PROVE  Forgotten(id) \/ \E r \in Request : Forget(r) /\ request[r].id = id
    <2>1. ASSUME NEW r \in Request, Forget(r), q # r PROVE At(q, "job") /\ request[q].id = id
        BY <1>2, <2>1, PlainSteps DEF Plain, At
    <2>2. ASSUME NEW r \in Request, Forget(r), q = r PROVE request[r].id = id
        BY <1>2, <2>2, PlainSteps DEF Plain, Kept, At
    <2>3. CASE \A r \in Request : ~Forget(r)
        BY <1>2, <2>3, HoldSteps DEF JobQuiet, Forgotten
    <2> QED
        BY <2>1, <2>2, <2>3 DEF Forgotten
<1> QED
    BY <1>1, <1>2 DEF Forgotten

\* The transaction leaves nothing.
LEMMA EraseLeavesNothing ==
    ASSUME Typed, NEW r \in Request, Erase(r), NEW id, id = request[r].id
    PROVE  Nothing(id)'
<1>1. ~Has(id)'
    BY DEF Erase, Has, NoUser
<1>2. \A t \in DOMAIN tokens' : tokens'[t].id = id => ~tokens'[t].row
    BY EraseTokens
<1>3. \A q \in Request : request'[q] # Idle /\ request'[q].kind \in Callbacks => "erased" \in request'[q].late
    BY EraseStep DEF OthersLate, Callbacks
<1> QED
    BY <1>1, <1>2, <1>3 DEF Nothing, Is

\* A Discord token is stored for a user who is deleted only by a callback that
\* overlapped the deletion.
LEMMA StoredRevives ==
    ASSUME Typed, DeletedInv, [Next]_vars, NEW id \in 1..ids \ revived', Forgotten(id), id \in discord'
    PROVE  id \in discord
<1>1. id \in 1..ids \ revived /\ Nothing(id)
    BY ErasureSteps, GoneIds DEF DeletedInv
<1>2. ASSUME NEW r \in Request, StoreDiscordToken(r) PROVE id # request[r].id
    <2>1. At(r, "store") /\ request[r] # Idle /\ request[r].kind \in Callbacks
        BY <1>2, AtProper DEF StoreDiscordToken, Placed, At
    <2>2. "erased" \in request[r].late => request[r].id \in revived'
        BY <1>2 DEF StoreDiscordToken
    <2> QED
        BY <1>1, <2>1, <2>2 DEF Nothing, Is
<1>3. ASSUME NEW r \in Request, StoreDiscordToken(r) PROVE discord' = discord \cup {request[r].id}
    BY <1>3 DEF StoreDiscordToken
<1> QED
    BY <1>2, <1>3, ErasureSteps

LEMMA DeletedStep == Typed /\ DecisionInv /\ DeletedInv /\ [Next]_vars => DeletedInv'
<1> SUFFICES ASSUME Typed, DecisionInv, DeletedInv, [Next]_vars, NEW id \in 1..ids' \ revived'
             PROVE  (Gone(id)' => Nothing(id)') /\ (Forgotten(id)' => id \notin discord')
    BY DEF DeletedInv
<1>1. ASSUME Gone(id) PROVE Nothing(id)' /\ id \in 1..ids \ revived
    <2>1. id \in 1..ids \ revived
        BY <1>1, GoneIds, ErasureSteps
    <2>2. RowBack /\ TokenBack /\ CallbackBack
        BY RowBackSteps, TokenBackSteps, CallbackBackSteps DEF DecisionInv
    <2> QED
        BY <1>1, <2>1, <2>2, NothingBack DEF DeletedInv
<1>2. Gone(id)' => Nothing(id)'
    BY <1>1, GoneBefore, EraseLeavesNothing
<1>3. ASSUME Forgotten(id) PROVE id \notin discord'
    <2>1. id \in 1..ids \ revived
        BY <1>1, <1>3, GoneIds
    <2> QED
        BY <1>3, <2>1, StoredRevives DEF DeletedInv
<1>4. ASSUME NEW r \in Request, Forget(r), request[r].id = id PROVE id \notin discord'
    BY <1>4 DEF Forget
<1> QED
    BY <1>2, <1>3, <1>4, ForgottenBefore

-------------------------------------------------------------------------------
(* The theorems.                                                           *)

LEMMA HistoryInit == Init => ExchangeInv /\ StateInv /\ ReuseInv /\ DecisionInv /\ DeletedInv
<1> SUFFICES ASSUME Init PROVE ExchangeInv /\ StateInv /\ ReuseInv /\ DecisionInv /\ DeletedInv
    OBVIOUS
<1>1. \A r \in Request : request[r] = Idle
    BY DEF Init
<1>2. \A r \in Request : \A pc : ~At(r, pc)
    BY <1>1 DEF At
<1>3. DOMAIN tokens = {}
    BY DEF Init
<1>4. ExchangeInv /\ ReuseInv
    BY <1>3 DEF ExchangeInv, ReuseInv
<1>5. StateInv
    BY <1>2 DEF Init, StateInv, Holds
<1>6. DecisionInv
    <2>1. user # NoUser => user["status"] = told["status"] /\ user["plan"] = told["plan"]
        BY DEF Init, Fresh
    <2> QED
        BY <1>2, <2>1 DEF DecisionInv, DecisionHolds, UpToDate, Decided
<1>7. \A id : ~Gone(id) /\ ~Forgotten(id)
    BY <1>2 DEF Init, Gone, Deleting, Forgotten
<1> QED
    BY <1>4, <1>5, <1>6, <1>7 DEF DeletedInv

\* The inductive invariant: what requests in progress hold of tokens, states, rows and
\* deletions that they have read, so that what they write next does no harm.
THEOREM SessionsInvariant == Spec => []SessionsInv
<1>1. Init => SessionsInv
    BY TypedInit, HistoryInit DEF SessionsInv
<1>2. SessionsInv /\ [Next]_vars => SessionsInv'
    BY TypedStep, ExchangeStep, StateStep, ReuseStep, DecisionStep, DeletedStep DEF SessionsInv
<1> QED
    BY <1>1, <1>2, PTL DEF Spec

\* A refresh token is exchanged for one session at most, unless two refreshes of it had found
\* it at once, and an OAuth state admits one callback, unless two had read it at once: the
\* code reads them and removes them in two steps.
THEOREM SessionsUsedOnce == Spec => []UsedOnce
<1>1. SessionsInv => UsedOnce
    <2> SUFFICES ASSUME SessionsInv PROVE UsedOnce
        OBVIOUS
    <2>1. TypeOK /\ StateAdmitsOnce
        BY DEF SessionsInv, Typed, StateInv, StateAdmitsOnce
    <2>2. ASSUME NEW t \in DOMAIN tokens \ raced
          PROVE  Cardinality({u \in DOMAIN tokens : tokens[u].parent = t}) <= 1
        <3> DEFINE children == {u \in DOMAIN tokens : tokens[u].parent = t}
        <3>1. \A u, v \in children : u = v
            BY <2>2 DEF SessionsInv, ExchangeInv, Exchanged
        <3>2. children = {} \/ \E u : children = {u}
            BY <3>1
        <3> HIDE DEF children
        <3>3. Cardinality(children) = 0 \/ Cardinality(children) = 1
            BY <3>2, FS_EmptySet, FS_Singleton
        <3>4. Cardinality(children) <= 1
            BY <3>3
        <3> QED
            BY <3>4 DEF children
    <2> QED
        BY <2>1, <2>2 DEF UsedOnce, ExchangedOnce
<1> QED
    BY <1>1, SessionsInvariant, PTL

\* When a revoked refresh token was presented, no token of a session that the user had then is
\* good any more, and none becomes good, however saves of tokens read before land.
THEOREM SessionsReuse == Spec => []ReuseEndsSessions
<1>1. SessionsInv => ReuseEndsSessions
    BY DEF SessionsInv, ReuseInv, ReuseEndsSessions
<1> QED
    BY <1>1, SessionsInvariant, PTL

\* The status is the one an admin decided last and the plan the one the user chose last,
\* whatever saves entities read before, unless such a save overlapped the decision.
THEOREM SessionsDecisions == Spec => []DecisionHolds
<1>1. SessionsInv => DecisionHolds
    BY DEF SessionsInv, DecisionInv
<1> QED
    BY <1>1, SessionsInvariant, PTL

\* A user whose deletion was answered has no row, no refresh token and no Discord token, unless
\* a save of the row or a callback that overlapped the deletion wrote one.
THEOREM SessionsDeleted == Spec => []DeletedIsGone
<1>1. SessionsInv => DeletedIsGone
    <2> SUFFICES ASSUME SessionsInv, NEW id \in erased \ revived
                 PROVE  /\ ~Has(id) /\ id \notin discord
                        /\ \A t \in DOMAIN tokens : tokens[t].id = id => ~tokens[t].row
        BY DEF DeletedIsGone
    <2>1. Gone(id) /\ Forgotten(id)
        BY DEF Gone, Forgotten
    <2>2. id \in 1..ids \ revived
        BY <2>1, GoneIds DEF SessionsInv
    <2> QED
        BY <2>1, <2>2 DEF SessionsInv, DeletedInv, Nothing
<1> QED
    BY <1>1, SessionsInvariant, PTL
===============================================================================
