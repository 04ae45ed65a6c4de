------------------------------- MODULE Sessions -------------------------------
(***************************************************************************)
(* The account of one person: the row in users, the refresh tokens of its      *)
(* sessions, the Discord token kept in Redis, and the state of an OAuth login.  *)
(* Requests of the frontend API and of the admin API (ban, unban) run step by   *)
(* step: nothing holds a lock from the read of a row to its save.            *)
(*                                                                         *)
(* users.email and users.discord_id are unique, so that the person has one row  *)
(* at a time; a row that is made anew has a new id.                          *)
(*                                                                         *)
(* An administrator has sessions of the same kind in the admin API, in tables  *)
(* of their own; nobody makes or removes the row.  One behaviour is about one  *)
(* of the two APIs.                                                         *)
(***************************************************************************)
EXTENDS Integers, Sequences, FiniteSets

CONSTANTS
    Request,       \* requests in progress at once
    State,         \* OAuth states that are issued
    MaxRequests, MaxTokens, MaxIds,   \* bounds
    MaxFaults      \* requests cut off (a bound)

ASSUME SessionsAssumption ==
    /\ IsFiniteSet(State)
    /\ MaxRequests \in Nat /\ MaxTokens \in Nat /\ MaxFaults \in Nat
    /\ MaxIds \in Nat \ {0}      \* the administrator has one

VARIABLES
    api,         \* "frontend" or "admin"
    user,        \* the row of users (admin_users), or NoUser
    ids,         \* ids given so far
    tokens,      \* refresh_tokens, in the order of their creation
    discord,     \* Redis: ids with a Discord token
    states,      \* Redis: OAuth states
    gdpr,        \* ids whose analytics are to be deleted
    request, started, faults,
    told,        \* history: the status last decided by an admin and the plan last chosen
    loose,       \* history: columns whose decision overlapped with the save of an older entity
    ended,       \* history: sessions ended by the detection of a reuse
    raced,       \* history: tokens that two refreshes had found at once
    erased,      \* history: ids whose deletion was answered
    revived,     \* history: ids that a request overlapping the deletion wrote
    issued, admitted, shared   \* history: of OAuth states

account == <<api, user, ids, told, loose, revived>>
redis == <<discord, states, issued, admitted, shared>>
sessions == <<tokens, ended, raced>>
vars == <<account, redis, sessions, gdpr, request, started, faults, erased>>

Decided == {"status", "plan"}
Decision == [status : {"active", "banned"}, plan : {"free", "paid"}]
Fresh == [status |-> "active", plan |-> "free"]
NoUser == [id |-> 0, status |-> "none", plan |-> "none", via |-> "none", profile |-> 0]
Row == [id : 1..MaxIds, status : {"active", "banned"}, plan : {"free", "paid"},
        via : {"discord", "email"}, profile : 0..1]
Token == [id : 1..MaxIds, session : 1..MaxTokens, parent : 0..MaxTokens, row : BOOLEAN,
          revoked : BOOLEAN, expired : BOOLEAN]
Callbacks == {"callback", "callbackPost"}
Own == {"profile", "upgrade", "cancel", "delete"}
Kinds == Callbacks \cup Own \cup {"verify", "login", "register", "refresh", "logout", "ban", "unban"}
Steps == {"state", "del", "exchange", "upsert", "reread", "find", "insert", "select", "save",
          "workspace", "session", "store", "guard", "token", "user", "revoke", "revokeAll",
          "erase", "forget", "job"}
Idle == [pc |-> "idle"]
Has(id) == user.id = id /\ id # 0

TypeOK ==
    /\ api \in {"frontend", "admin"}
    /\ user \in Row \cup {NoUser} /\ ids \in 0..MaxIds
    /\ tokens \in Seq(Token) /\ Len(tokens) <= MaxTokens
    /\ discord \subseteq 1..ids /\ gdpr \subseteq 1..ids
    /\ states \subseteq issued /\ issued \subseteq State /\ shared \subseteq State
    /\ admitted \in [State -> Nat]
    /\ \A r \in Request :
          \/ request[r] = Idle
          \/ request[r] \in [kind : Kinds, pc : Steps, id : 0..ids, token : 0..MaxTokens,
                             state : State \cup {"none"}, found : BOOLEAN,
                             entity : Row \cup {NoUser}, stored : Row \cup {NoUser},
                             late : SUBSET (Decided \cup {"erased"})]
    /\ started \in 0..MaxRequests /\ faults \in 0..MaxFaults
    /\ told \in Decision /\ loose \subseteq Decided
    /\ ended \subseteq 1..MaxTokens /\ raced \subseteq 1..MaxTokens
    /\ erased \subseteq 1..ids /\ revived \subseteq 1..ids

Init ==
    /\ \/ api = "frontend" /\ user = NoUser /\ ids = 0
       \/ /\ api = "admin" /\ ids = 1
          /\ user = [id |-> 1, status |-> "active", plan |-> "free", via |-> "email", profile |-> 0]
    /\ tokens = <<>> /\ discord = {} /\ states = {} /\ gdpr = {}
    /\ request = [r \in Request |-> Idle] /\ started = 0 /\ faults = 0
    /\ told = Fresh /\ loose = {} /\ ended = {} /\ raced = {}
    /\ erased = {} /\ revived = {}
    /\ issued = {} /\ admitted = [s \in State |-> 0] /\ shared = {}

-------------------------------------------------------------------------------
At(r, pc) == request[r] # Idle /\ request[r].pc = pc
Is(r, kinds) == request[r].kind \in kinds
Goto(r, pc) == request' = [request EXCEPT ![r].pc = pc]
End(r) == request' = [request EXCEPT ![r] = Idle]

\* Every request in progress but r has this behind its back.
Overtaken(r, what, next) ==
    request' = [q \in Request |->
                  IF q = r THEN next
                  ELSE IF request[q] = Idle THEN Idle ELSE [request[q] EXCEPT !.late = @ \cup what]]

Begin(r, kind, pc, id, token, state) ==
    /\ request[r] = Idle /\ started < MaxRequests
    /\ started' = started + 1
    /\ request' = [request EXCEPT ![r] =
          [kind |-> kind, pc |-> pc, id |-> id, token |-> token, state |-> state, found |-> FALSE,
           entity |-> NoUser, stored |-> NoUser, late |-> {}]]
    /\ UNCHANGED <<account, redis, sessions, gdpr, faults, erased>>

\* The requests that both APIs serve.  Whoever has an access token names the id it was
\* made for; a refresh token is the one of a cookie; a logout has one or none.
Start(r) ==
    \/ Begin(r, "login", "find", 0, 0, "none")
    \/ \E t \in DOMAIN tokens : Begin(r, "refresh", "token", 0, t, "none")
    \/ \E id \in 1..ids, t \in {0} \cup DOMAIN tokens : Begin(r, "logout", "guard", id, t, "none")

\* The requests about the row of users.
StartOfUser(r) ==
    /\ api = "frontend"
    /\ \/ Begin(r, "register", "find", 0, 0, "none")
       \/ Begin(r, "verify", "exchange", 0, 0, "none")
       \/ \E k \in Callbacks, s \in State : Begin(r, k, "state", 0, 0, s)
       \/ \E id \in 1..ids :
             \/ \E k \in {"ban", "unban"} : Begin(r, k, "find", id, 0, "none")
             \/ \E k \in Own : Begin(r, k, "guard", id, 0, "none")

\* Whatever fails ends the request with what it has done so far.
Fails(r) ==
    /\ request[r] # Idle /\ faults < MaxFaults
    /\ faults' = faults + 1
    /\ End(r)
    /\ UNCHANGED <<account, redis, sessions, gdpr, started, erased>>

-------------------------------------------------------------------------------
(* OAuth.                                                                  *)

\* buildLoginUrl and buildBotInstallUrl store a random state for ten minutes ...
LoginUrl(s) ==
    /\ api = "frontend" /\ s \notin issued
    /\ issued' = issued \cup {s} /\ states' = states \cup {s}
    /\ UNCHANGED <<account, sessions, discord, admitted, shared, gdpr, request, started, faults, erased>>

StateExpires(s) ==
    /\ s \in states
    /\ states' = states \ {s}
    /\ UNCHANGED <<account, sessions, discord, issued, admitted, shared, gdpr, request, started, faults, erased>>

\* ... which a callback reads and then deletes: the GET always, the POST if it was there.
ReadState(r) ==
    /\ At(r, "state")
    /\ LET s == request[r].state IN
       /\ IF s \notin states /\ Is(r, {"callbackPost"}) THEN End(r)
          ELSE request' = [request EXCEPT ![r].pc = "del", ![r].found = s \in states]
       /\ IF \E q \in Request \ {r} : At(q, "del") /\ request[q].state = s
          THEN shared' = shared \cup {s} ELSE UNCHANGED shared
    /\ UNCHANGED <<account, sessions, discord, states, issued, admitted, gdpr, started, faults, erased>>

DelState(r) ==
    /\ At(r, "del")
    /\ states' = states \ {request[r].state}
    /\ IF request[r].found
       THEN /\ admitted' = [admitted EXCEPT ![request[r].state] = @ + 1]
            /\ Goto(r, "exchange")
       ELSE End(r) /\ UNCHANGED admitted
    /\ UNCHANGED <<account, sessions, discord, issued, shared, gdpr, started, faults, erased>>

\* Discord changes the code for a token and tells who the user is, or refuses.
Exchange(r) ==
    /\ At(r, "exchange")
    /\ Goto(r, "upsert") \/ End(r)
    /\ UNCHANGED <<account, redis, sessions, gdpr, started, faults, erased>>

-------------------------------------------------------------------------------
(* The row of users.                                                       *)

NewUser(via) ==
    /\ ids < MaxIds /\ user = NoUser
    /\ ids' = ids + 1
    /\ user' = [id |-> ids + 1, status |-> "active", plan |-> "free", via |-> via, profile |-> 0]
    /\ told' = Fresh /\ loose' = {}
    /\ UNCHANGED api

\* Defect: a login writes the status, too.
RefreshedWhole(row) == [row EXCEPT !.profile = 0, !.status = "active"]

\* What Discord tells of the user replaces what is there, but for status and plan.
Refreshed(row) == [row EXCEPT !.profile = 0]

\* INSERT ... ON CONFLICT (discord_id): the status of a row that is there stays.  A row
\* of the same e-mail without the Discord id is another conflict: an error.
Upsert(r) ==
    /\ At(r, "upsert")
    /\ \/ NewUser("discord") /\ Goto(r, "reread")
       \/ /\ user.via = "discord"
          /\ user' = Refreshed(user)
          /\ Goto(r, "reread")
          /\ UNCHANGED <<api, ids, told, loose>>
       \/ user.via = "email" /\ End(r) /\ UNCHANGED <<api, user, ids, told, loose>>
    /\ UNCHANGED <<redis, sessions, gdpr, started, faults, erased, revived>>

Reread(r) ==
    /\ At(r, "reread")
    /\ IF user.via = "discord"
       THEN request' = [request EXCEPT ![r].pc = "workspace", ![r].id = user.id]
       ELSE End(r)
    /\ UNCHANGED <<account, redis, sessions, gdpr, started, faults, erased>>

\* What a request makes of the row it finds (a login of an administrator notes when).
Edited(row) ==
    [login   |-> row,
     ban     |-> [row EXCEPT !.status = "banned"],
     unban   |-> [row EXCEPT !.status = "active"],
     profile |-> [row EXCEPT !.profile = 1]]

\* An upgrade may name the free plan; a cancellation always does.
Billed(row) ==
    [upgrade |-> {[row EXCEPT !.plan = "paid"], [row EXCEPT !.plan = "free"]},
     cancel  |-> {[row EXCEPT !.plan = "free"]}]

\* login, ban, unban, PATCH /me and the two requests of BillingService look for the row.
Accepts(r) ==
    CASE Is(r, {"login"}) -> user.via = "email" /\ user.status = "active"
      [] Is(r, {"ban"})   -> Has(request[r].id) /\ user.status # "banned"
      [] Is(r, {"unban"}) -> Has(request[r].id) /\ user.status = "banned"
      [] OTHER            -> Has(request[r].id)

Find(r) ==
    /\ At(r, "find") /\ ~Is(r, {"register"})
    /\ IF ~Accepts(r) THEN End(r)
       ELSE \E e \in IF Is(r, {"upgrade", "cancel"}) THEN Billed(user)[request[r].kind]
                     ELSE {Edited(user)[request[r].kind]} :
               request' = [request EXCEPT ![r].pc = "select", ![r].id = user.id, ![r].entity = e]
    /\ UNCHANGED <<account, redis, sessions, gdpr, started, faults, erased>>

FindForRegister(r) ==
    /\ At(r, "find") /\ Is(r, {"register"})
    /\ IF user = NoUser THEN Goto(r, "insert") ELSE End(r)
    /\ UNCHANGED <<account, redis, sessions, gdpr, started, faults, erased>>

Insert(r) ==
    /\ At(r, "insert")
    /\ \/ NewUser("email") /\ request' = [request EXCEPT ![r].pc = "workspace", ![r].id = ids']
       \/ user # NoUser /\ End(r) /\ UNCHANGED <<api, user, ids, told, loose>>
    /\ UNCHANGED <<redis, sessions, gdpr, started, faults, erased, revived>>

\* save() selects the row again, ...
Select(r) ==
    /\ At(r, "select")
    /\ request' = [request EXCEPT ![r].pc = "save",
                     ![r].stored = IF Has(request[r].id) THEN user ELSE NoUser]
    /\ UNCHANGED <<account, redis, sessions, gdpr, started, faults, erased>>

\* ... and inserts it if it is not there, or updates the columns that differ from what
\* it selected (which changes nothing if the row has gone meanwhile).
Merge(row, e, old) ==
    [row EXCEPT !.status = IF e.status # old.status THEN e.status ELSE @,
                !.plan = IF e.plan # old.plan THEN e.plan ELSE @,
                !.profile = IF e.profile # old.profile THEN e.profile ELSE @]

\* The columns a request is about.
Decides(r) ==
    CASE Is(r, {"ban", "unban"}) -> {"status"} [] Is(r, {"upgrade", "cancel"}) -> {"plan"}
      [] OTHER -> {}

\* After its save a login goes on.
Afterwards(r) ==
    IF Is(r, {"login"})
    THEN [request[r] EXCEPT !.pc = IF api = "admin" THEN "session" ELSE "workspace"]
    ELSE Idle

Save(r) ==
    /\ At(r, "save")
    /\ LET e == request[r].entity IN
       LET old == request[r].stored IN
       \/ /\ old = NoUser /\ user = NoUser
          /\ user' = e /\ told' = [c \in Decided |-> e[c]] /\ loose' = {}
          /\ revived' = revived \cup {e.id}
          /\ Overtaken(r, Decided, Afterwards(r))   \* an older entity stands for all decisions
       \/ /\ old = NoUser /\ user # NoUser      \* another row of the person: a conflict
          /\ End(r) /\ UNCHANGED <<user, told, loose, revived>>
       \/ /\ old # NoUser /\ Has(old.id)
          /\ user' = Merge(user, e, old)
          /\ told' = [c \in Decided |-> IF c \in Decides(r) THEN e[c] ELSE told[c]]
          /\ loose' = (loose \ Decides(r)) \cup (request[r].late \cap Decided)
          /\ Overtaken(r, Decides(r) \cup (request[r].late \cap Decided), Afterwards(r))
          /\ UNCHANGED revived
       \/ /\ old # NoUser /\ ~Has(old.id)
          /\ request' = [request EXCEPT ![r] = Afterwards(r)]
          /\ UNCHANGED <<user, told, loose, revived>>
    /\ UNCHANGED <<api, ids, redis, sessions, gdpr, started, faults, erased>>

-------------------------------------------------------------------------------
(* Sessions.                                                               *)

\* ensureDefaultWorkspace (module Workspace): a foreign key refuses the company of a
\* user who is not there.
EnsureWorkspace(r) ==
    /\ At(r, "workspace")
    /\ IF Has(request[r].id) THEN Goto(r, "session") ELSE End(r)
    /\ UNCHANGED <<account, redis, sessions, gdpr, started, faults, erased>>

\* createSession: the same for the refresh token.
CreateSession(r) ==
    /\ At(r, "session")
    /\ \/ /\ Has(request[r].id) /\ Len(tokens) < MaxTokens
          /\ LET t == request[r].token IN
             tokens' = Append(tokens,
                [id |-> request[r].id, parent |-> t, row |-> TRUE, revoked |-> FALSE, expired |-> FALSE,
                 session |-> IF t = 0 THEN Len(tokens) + 1 ELSE tokens[t].session])
          /\ IF Is(r, Callbacks) THEN Goto(r, "store") ELSE End(r)
       \/ ~Has(request[r].id) /\ End(r) /\ UNCHANGED tokens
    /\ UNCHANGED <<account, redis, ended, raced, gdpr, started, faults, erased>>

StoreDiscordToken(r) ==
    /\ At(r, "store")
    /\ discord' = discord \cup {request[r].id}
    /\ revived' = IF "erased" \in request[r].late THEN revived \cup {request[r].id} ELSE revived
    /\ End(r)
    /\ UNCHANGED <<api, user, ids, told, loose, states, issued, admitted, shared, sessions, gdpr,
                   started, faults, erased>>

DiscordTokenExpires(id) ==
    /\ id \in discord
    /\ discord' = discord \ {id}
    /\ UNCHANGED <<account, states, issued, admitted, shared, sessions, gdpr, request, started, faults, erased>>

TokenExpires(t) ==
    /\ ~tokens[t].expired
    /\ tokens' = [tokens EXCEPT ![t].expired = TRUE]
    /\ UNCHANGED <<account, redis, ended, raced, gdpr, request, started, faults, erased>>

\* The logout of a user forgets the Discord token.
LoggedOut(r) == IF api = "admin" THEN End(r) ELSE Goto(r, "forget")

\* A refresh looks for its token: a revoked one has been used before.
FindToken(r) ==
    /\ At(r, "token") /\ Is(r, {"refresh"})
    /\ LET t == request[r].token IN
       /\ IF ~tokens[t].row THEN End(r)
          ELSE IF tokens[t].revoked
          THEN request' = [request EXCEPT ![r].pc = "revokeAll", ![r].id = tokens[t].id]
          ELSE IF tokens[t].expired THEN End(r)
          ELSE request' = [request EXCEPT ![r].pc = "user", ![r].id = tokens[t].id]
       /\ IF \E q \in Request \ {r} : /\ request[q] # Idle /\ Is(q, {"refresh"})
                                      /\ request[q].token = t /\ request[q].pc \in {"user", "revoke"}
          THEN raced' = raced \cup {t} ELSE UNCHANGED raced
    /\ UNCHANGED <<account, redis, tokens, ended, gdpr, started, faults, erased>>

\* A logout looks for the token of its cookie among those of its user.
FindOwnToken(r) ==
    /\ At(r, "token") /\ Is(r, {"logout"})
    /\ LET t == request[r].token IN
       IF t # 0 /\ tokens[t].row /\ tokens[t].id = request[r].id /\ ~tokens[t].revoked
       THEN Goto(r, "revoke") ELSE LoggedOut(r)
    /\ UNCHANGED <<account, redis, sessions, gdpr, started, faults, erased>>

FindUser(r) ==
    /\ At(r, "user")
    /\ IF Has(request[r].id) /\ user.status = "active" THEN Goto(r, "revoke") ELSE End(r)
    /\ UNCHANGED <<account, redis, sessions, gdpr, started, faults, erased>>

\* Defect: a token that was used stays good.
RevokeNothing(r) ==
    /\ At(r, "revoke")
    /\ IF Is(r, {"refresh"}) THEN Goto(r, "session") ELSE LoggedOut(r)
    /\ UNCHANGED <<account, redis, sessions, gdpr, started, faults, erased>>

\* The token is saved as revoked: one whose row has gone is inserted again, if its
\* user is there.
Revoke(r) ==
    /\ At(r, "revoke")
    /\ LET t == request[r].token IN
       IF tokens[t].row \/ Has(tokens[t].id)
       THEN /\ tokens' = [tokens EXCEPT ![t].revoked = TRUE, ![t].row = TRUE]
            /\ IF Is(r, {"refresh"}) THEN Goto(r, "session") ELSE LoggedOut(r)
       ELSE End(r) /\ UNCHANGED tokens
    /\ UNCHANGED <<account, redis, ended, raced, gdpr, started, faults, erased>>

\* A revoked token was presented: the user is logged out everywhere, but for refreshes
\* that had passed this check.
Refreshing(s) ==
    \E q \in Request : /\ request[q] # Idle /\ Is(q, {"refresh"})
                       /\ request[q].pc \in {"user", "revoke", "session"}
                       /\ tokens[request[q].token].session = s

\* Defect: the reuse of a token revokes its own session only.
RevokeAllOfSession(r) ==
    /\ At(r, "revokeAll")
    /\ LET s == tokens[request[r].token].session IN
       /\ tokens' = [t \in DOMAIN tokens |->
                       IF tokens[t].session = s /\ tokens[t].parent # 0
                       THEN [tokens[t] EXCEPT !.revoked = TRUE] ELSE tokens[t]]
       /\ ended' = ended \cup {tokens[t].session : t \in {u \in DOMAIN tokens :
                                   tokens[u].id = request[r].id /\ ~Refreshing(tokens[u].session)}}
    /\ End(r)
    /\ UNCHANGED <<account, redis, raced, gdpr, started, faults, erased>>

RevokeAll(r) ==
    /\ At(r, "revokeAll")
    /\ LET Its == {t \in DOMAIN tokens : tokens[t].row /\ tokens[t].id = request[r].id} IN
       /\ tokens' = [t \in DOMAIN tokens |->
                       IF t \in Its THEN [tokens[t] EXCEPT !.revoked = TRUE] ELSE tokens[t]]
       /\ ended' = ended \cup {tokens[t].session : t \in {u \in Its : ~Refreshing(tokens[u].session)}}
    /\ End(r)
    /\ UNCHANGED <<account, redis, raced, gdpr, started, faults, erased>>

-------------------------------------------------------------------------------
(* Requests with an access token.                                          *)

\* The guard looks for the user of the token and its status.
Guard(r) ==
    /\ At(r, "guard") /\ api = "frontend"
    /\ IF Has(request[r].id) /\ user.status = "active"
       THEN Goto(r, CASE Is(r, {"logout"}) -> "token" [] Is(r, {"delete"}) -> "erase"
                      [] OTHER -> "find")
       ELSE End(r)
    /\ UNCHANGED <<account, redis, sessions, gdpr, started, faults, erased>>

\* An administrator is found in the table, or in a cache of it.
GuardAdmin(r) ==
    /\ At(r, "guard") /\ api = "admin"
    /\ Goto(r, "token")
    /\ UNCHANGED <<account, redis, sessions, gdpr, started, faults, erased>>

\* deleteAllUserData: one transaction; the refresh tokens go with their user.
Erase(r) ==
    /\ At(r, "erase")
    /\ LET id == request[r].id IN
       /\ IF Has(id) THEN user' = NoUser ELSE UNCHANGED user
       /\ tokens' = [t \in DOMAIN tokens |-> [tokens[t] EXCEPT !.row = @ /\ tokens[t].id # id]]
       /\ Overtaken(r, {"erased"}, [request[r] EXCEPT !.pc = "forget", !.entity = user])
    /\ UNCHANGED <<api, ids, told, loose, revived, redis, ended, raced, gdpr, started, faults, erased>>

\* Defect: only a logout forgets the Discord token.
ForgetOnLogout(r) ==
    /\ At(r, "forget")
    /\ discord' = IF Is(r, {"logout"}) THEN discord \ {request[r].id} ELSE discord
    /\ IF Is(r, {"delete"}) THEN Goto(r, "job") ELSE End(r)
    /\ UNCHANGED <<account, states, issued, admitted, shared, sessions, gdpr, started, faults, erased>>

\* Then, as on logout, the Discord token, ...
Forget(r) ==
    /\ At(r, "forget")
    /\ discord' = discord \ {request[r].id}
    /\ IF Is(r, {"delete"}) THEN Goto(r, "job") ELSE End(r)
    /\ UNCHANGED <<account, states, issued, admitted, shared, sessions, gdpr, started, faults, erased>>

\* ... and for a Discord user the job that deletes the analytics.
AddGdprJob(r) ==
    /\ At(r, "job")
    /\ gdpr' = IF request[r].entity.via = "discord" THEN gdpr \cup {request[r].id} ELSE gdpr
    /\ erased' = erased \cup {request[r].id}
    /\ End(r)
    /\ UNCHANGED <<account, redis, sessions, started, faults>>

-------------------------------------------------------------------------------
OAuth(r) == ReadState(r) \/ DelState(r) \/ Exchange(r) \/ Upsert(r) \/ Reread(r)

Users(r) == Find(r) \/ FindForRegister(r) \/ Insert(r) \/ Select(r) \/ Save(r) \/ EnsureWorkspace(r) \/ CreateSession(r)
               \/ StoreDiscordToken(r)

Holders(r) == FindToken(r) \/ FindOwnToken(r) \/ FindUser(r) \/ Revoke(r) \/ RevokeAll(r)
                 \/ Guard(r) \/ GuardAdmin(r) \/ Erase(r) \/ Forget(r) \/ AddGdprJob(r)

Time ==
    \/ \E s \in State : LoginUrl(s) \/ StateExpires(s)
    \/ \E id \in discord : DiscordTokenExpires(id)
    \/ \E t \in DOMAIN tokens : TokenExpires(t)

Next == Time \/ \E r \in Request : Start(r) \/ StartOfUser(r) \/ Fails(r) \/ OAuth(r) \/ Users(r) \/ Holders(r)

Spec == Init /\ [][Next]_vars

-------------------------------------------------------------------------------
(* Properties.                                                             *)

Live(t) == tokens[t].row /\ ~tokens[t].revoked /\ ~tokens[t].expired

\* A refresh token is exchanged for one session at most, also when it meets a logout, a
\* deletion or a failure, unless two refreshes of it had found it at once
\* (auth.service.ts:197-231).
ExchangedOnce ==
    \A t \in DOMAIN tokens \ raced : Cardinality({u \in DOMAIN tokens : tokens[u].parent = t}) <= 1

\* Once a reuse was detected, no token of a session the user had then is good any more,
\* however saves of tokens read before land, unless a refresh of that session had
\* passed the check (auth.service.ts:206-212, :250-256).
ReuseEndsSessions == \A t \in DOMAIN tokens : Live(t) => tokens[t].session \notin ended

\* The status is what an admin decided last and the plan what the user chose last,
\* whatever logins, profile changes, callbacks and each other save: unless one of them
\* had read the user before that decision (users.service.ts:208, :229 of the admin API;
\* auth.service.ts:108, me.service.ts:75, billing.service.ts:90, :113).
DecisionHolds == user # NoUser => \A c \in Decided \ loose : user[c] = told[c]

\* A user who was deleted has no row, no refresh token and no Discord token left, unless
\* a request that overlapped the deletion wrote them (user-data.service.ts:30-64).
DeletedIsGone ==
    \A id \in erased \ revived :
       /\ ~Has(id) /\ id \notin discord
       /\ \A t \in DOMAIN tokens : tokens[t].id = id => ~tokens[t].row

\* An OAuth state admits one callback, unless two had read it before either deleted it
\* (discord-oauth.service.ts:165-183).
StateAdmitsOnce == \A s \in State \ shared : admitted[s] <= 1

\* What can be used once is used once: refresh tokens and OAuth states, whose rows are
\* read and removed in two steps.
UsedOnce == TypeOK /\ ExchangedOnce /\ StateAdmitsOnce
===============================================================================
