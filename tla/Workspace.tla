------------------------------ MODULE Workspace -------------------------------
(***************************************************************************)
(* Companies (workspaces), their members and their invitations.  The first     *)
(* login makes a user a company of its own; its owner invites by link, others   *)
(* accept, and the owner changes roles and removes members.  Nothing here runs  *)
(* in a transaction but the deletion of a user, and no constraint keeps a user  *)
(* from being a member twice or an owner of two companies.                    *)
(*                                                                         *)
(* Rows are kept in the order of their creation; a row that is deleted stays    *)
(* with row = FALSE, as a save of an entity read before inserts it again.       *)
(***************************************************************************)
EXTENDS Integers, Sequences, FiniteSets

CONSTANTS
    User,
    Request,       \* requests in progress at once
    MaxRequests,   \* requests (a bound)
    MaxFaults      \* requests cut off (a bound)

ASSUME WorkspaceAssumption == MaxRequests \in Nat /\ MaxFaults \in Nat

VARIABLES
    users,         \* the users that exist
    companies, members, invites,     \* tables
    request, started, faults,
    twice,         \* history: users whose logins overlapped
    crowded,       \* history: users whose accepts of a company overlapped
    shared,        \* history: invitations with overlapping or unfinished accepts
    revived,       \* history: memberships removed while a change of role was in progress
    admitted,      \* history: whom each invitation admitted
    resigned,      \* history: companies whose owner changed its own role
    unfinished     \* history: companies whose creation was cut off

tables == <<users, companies, members, invites>>
history == <<twice, crowded, shared, revived, admitted, resigned, unfinished>>
vars == <<tables, request, started, faults, history>>

Role == {"Owner", "Admin", "Member"}
Company == [owner : User, row : BOOLEAN]
Member == [company : 1..Len(companies), user : User, role : Role, row : BOOLEAN]
Invite == [company : 1..Len(companies), by : User, role : Role, row : BOOLEAN, expired : BOOLEAN]
Kinds == {"login", "invite", "accept", "role", "remove", "delete"}
Steps == {"company", "create", "owner", "rights", "invite", "find", "known", "join", "done",
          "target", "select", "save", "drop", "erase"}
Idle == [pc |-> "idle"]

TypeOK ==
    /\ users \subseteq User
    /\ companies \in Seq(Company) /\ members \in Seq(Member) /\ invites \in Seq(Invite)
    /\ \A r \in Request :
          \/ request[r] = Idle
          \/ request[r] \in [kind : Kinds, pc : Steps, user : User, company : 0..Len(companies),
                             of : 0..Len(members) + Len(invites), role : Role, gone : BOOLEAN]
    /\ started \in 0..MaxRequests /\ faults \in 0..MaxFaults
    /\ twice \subseteq User
    /\ crowded \subseteq User \X (1..Len(companies))
    /\ shared \subseteq DOMAIN invites /\ revived \subseteq DOMAIN members
    /\ DOMAIN admitted = DOMAIN invites
    /\ resigned \subseteq DOMAIN companies /\ unfinished \subseteq DOMAIN companies

\* Nobody has logged in yet, or there is a team: its owner, a member, an invitation.
Init ==
    /\ users = User
    /\ \/ companies = <<>> /\ members = <<>> /\ invites = <<>> /\ admitted = <<>>
       \/ \E o, m \in User :
             /\ o # m
             /\ companies = <<[owner |-> o, row |-> TRUE]>>
             /\ members = <<[company |-> 1, user |-> o, role |-> "Owner", row |-> TRUE],
                            [company |-> 1, user |-> m, role |-> "Member", row |-> TRUE]>>
             /\ invites = <<[company |-> 1, by |-> o, role |-> "Member", row |-> TRUE, expired |-> FALSE]>>
             /\ admitted = <<{}>>
    /\ request = [r \in Request |-> Idle] /\ started = 0 /\ faults = 0
    /\ twice = {} /\ crowded = {} /\ shared = {} /\ revived = {} /\ resigned = {} /\ unfinished = {}

-------------------------------------------------------------------------------
At(r, pc) == request[r] # Idle /\ request[r].pc = pc
Goto(r, pc) == request' = [request EXCEPT ![r].pc = pc]
End(r) == request' = [request EXCEPT ![r] = Idle]
Others(r) == {q \in Request \ {r} : request[q] # Idle}

\* The guard has found the user.  The two requests about a member name its row.
Start(r) ==
    /\ request[r] = Idle /\ started < MaxRequests
    /\ started' = started + 1
    /\ \E u \in users : \E k \in Kinds : \E of \in 0..Len(members) + Len(invites), role \in Role :
          /\ k \in {"role", "remove"} => of \in DOMAIN members
          /\ k = "accept" => of \in DOMAIN invites
          /\ k \in {"login", "invite", "delete"} => of = 0
          /\ k \notin {"invite", "role"} => role = "Member"
          /\ request' = [request EXCEPT ![r] =
                [kind |-> k, user |-> u, of |-> of, role |-> role, company |-> 0, gone |-> FALSE,
                 pc |-> CASE k = "accept" -> "find" [] k = "delete" -> "erase" [] OTHER -> "company"]]
    /\ UNCHANGED <<tables, faults, history>>

\* A request is cut off: what it has done stays.
Fails(r) ==
    /\ request[r] # Idle /\ faults < MaxFaults
    /\ faults' = faults + 1
    /\ End(r)
    /\ shared' = IF At(r, "done") THEN shared \cup {request[r].of} ELSE shared
    /\ unfinished' = IF At(r, "owner") THEN unfinished \cup {request[r].company} ELSE unfinished
    /\ UNCHANGED <<tables, started, twice, crowded, revived, admitted, resigned>>

-------------------------------------------------------------------------------
(* The company of a user: the oldest it owns.                               *)

Owned(u) == {c \in DOMAIN companies : companies[c].row /\ companies[c].owner = u}
DefaultCompany(u) ==
    IF Owned(u) = {} THEN 0 ELSE CHOOSE c \in Owned(u) : \A d \in Owned(u) : c <= d

\* A login without a company makes one; the other requests end.
FindCompany(r) ==
    /\ At(r, "company")
    /\ LET u == request[r].user IN LET c == DefaultCompany(u) IN
       /\ IF request[r].kind = "login"
          THEN IF c # 0 THEN End(r) ELSE Goto(r, "create")
          ELSE IF c = 0 THEN End(r)
          ELSE request' = [request EXCEPT ![r].pc = "rights", ![r].company = c]
       /\ IF request[r].kind = "login"
             /\ \E q \in Others(r) : At(q, "create") /\ request[q].user = u
          THEN twice' = twice \cup {u} ELSE UNCHANGED twice
    /\ UNCHANGED <<tables, started, faults, crowded, shared, revived, admitted, resigned, unfinished>>

CreateCompany(r) ==
    /\ At(r, "create")
    /\ LET u == request[r].user IN
       IF u \in users
       THEN /\ companies' = Append(companies, [owner |-> u, row |-> TRUE])
            /\ request' = [request EXCEPT ![r].pc = "owner", ![r].company = Len(companies) + 1]
       ELSE End(r) /\ UNCHANGED companies
    /\ UNCHANGED <<users, members, invites, started, faults, history>>

\* A foreign key refuses a row of a company or a user that has gone.
Refused(c, u) == ~companies[c].row \/ u \notin users

CreateOwner(r) ==
    /\ At(r, "owner")
    /\ LET c == request[r].company IN LET u == request[r].user IN
       IF Refused(c, u) THEN UNCHANGED members
       ELSE members' = Append(members, [company |-> c, user |-> u, role |-> "Owner", row |-> TRUE])
    /\ End(r)
    /\ UNCHANGED <<users, companies, invites, started, faults, history>>

\* findOne: a membership of the user in the company, if there is one.
Memberships(c, u) ==
    {m \in DOMAIN members : members[m].row /\ members[m].company = c /\ members[m].user = u}

CheckRights(r) ==
    /\ At(r, "rights")
    /\ LET Mine == Memberships(request[r].company, request[r].user)
           Needed == CASE request[r].kind = "invite" -> {"Owner", "Admin"}
                       [] request[r].kind = "role" -> {"Owner"}
                       [] request[r].kind = "remove" -> {"Owner", "Admin"}
       IN \/ Mine = {} /\ End(r)
          \/ \E m \in Mine :
                IF members[m].role \notin Needed THEN End(r)
                ELSE CASE request[r].kind = "invite" -> Goto(r, "invite")
                       [] request[r].kind = "role" -> Goto(r, "target")
                       [] request[r].kind = "remove" ->
                             request' = [request EXCEPT ![r].pc = "target", ![r].role = members[m].role]
    /\ UNCHANGED <<tables, started, faults, history>>

SaveInvite(r) ==
    /\ At(r, "invite")
    /\ LET c == request[r].company IN LET u == request[r].user IN
       IF Refused(c, u) THEN UNCHANGED <<invites, admitted>>
       ELSE /\ invites' = Append(invites, [company |-> c, by |-> u, role |-> request[r].role,
                                           row |-> TRUE, expired |-> FALSE])
            /\ admitted' = Append(admitted, {})
    /\ End(r)
    /\ UNCHANGED <<users, companies, members, started, faults, twice, crowded, shared, revived,
                   resigned, unfinished>>

InviteExpires(i) ==
    /\ invites[i].row /\ ~invites[i].expired
    /\ invites' = [invites EXCEPT ![i].expired = TRUE]
    /\ UNCHANGED <<users, companies, members, request, started, faults, history>>

-------------------------------------------------------------------------------
(* Accepting an invitation.                                                *)

FindInvite(r) ==
    /\ At(r, "find")
    /\ LET i == request[r].of IN
       /\ IF invites[i].row /\ ~invites[i].expired
          THEN request' = [request EXCEPT ![r].pc = "known", ![r].company = invites[i].company]
          ELSE End(r)
       /\ shared' = IF \E q \in Others(r) : /\ request[q].kind = "accept" /\ request[q].of = i
                                            /\ ~At(q, "find")
                    THEN shared \cup {i} ELSE shared
    /\ UNCHANGED <<tables, started, faults, twice, crowded, revived, admitted, resigned, unfinished>>

\* Defect: nobody looks for an existing membership.
FindNobody(r) ==
    /\ At(r, "known")
    /\ Goto(r, "join")
    /\ UNCHANGED <<tables, started, faults, history>>

FindMember(r) ==
    /\ At(r, "known")
    /\ LET c == request[r].company IN LET u == request[r].user IN
       /\ IF Memberships(c, u) = {} THEN Goto(r, "join") ELSE End(r)
       /\ crowded' = IF \E q \in Others(r) : /\ At(q, "join") \/ At(q, "owner")
                                             /\ request[q].user = u /\ request[q].company = c
                     THEN crowded \cup {<<u, c>>} ELSE crowded
    /\ UNCHANGED <<tables, started, faults, twice, shared, revived, admitted, resigned, unfinished>>

Join(r) ==
    /\ At(r, "join")
    /\ LET c == request[r].company IN LET u == request[r].user IN LET i == request[r].of IN
       IF Refused(c, u) THEN End(r) /\ UNCHANGED <<members, admitted>>
       ELSE /\ members' = Append(members, [company |-> c, user |-> u, role |-> invites[i].role, row |-> TRUE])
            /\ admitted' = [admitted EXCEPT ![i] = @ \cup {u}]
            /\ Goto(r, "done")
    /\ UNCHANGED <<users, companies, invites, started, faults, twice, crowded, shared, revived,
                   resigned, unfinished>>

\* Defect: an accepted invitation stays.
KeepInvite(r) ==
    /\ At(r, "done")
    /\ End(r)
    /\ UNCHANGED <<tables, started, faults, history>>

RemoveInvite(r) ==
    /\ At(r, "done")
    /\ invites' = [invites EXCEPT ![request[r].of].row = FALSE]
    /\ End(r)
    /\ UNCHANGED <<users, companies, members, started, faults, history>>

-------------------------------------------------------------------------------
(* Changing a role, removing a member.                                      *)

Found(r) == LET m == request[r].of IN members[m].row /\ members[m].company = request[r].company

\* Defect: whoever manages members may remove any of them.
RemovesAnyone(r) == TRUE

\* Nobody removes itself, and only an owner removes an owner.
MayRemove(r) ==
    LET m == members[request[r].of] IN
    m.user # request[r].user /\ (request[r].role = "Owner" \/ m.role # "Owner")

FindTarget(r) ==
    /\ At(r, "target")
    /\ IF ~Found(r) THEN End(r)
       ELSE IF request[r].kind = "role" THEN Goto(r, "select")
       ELSE IF MayRemove(r) THEN Goto(r, "drop") ELSE End(r)
    /\ UNCHANGED <<tables, started, faults, history>>

\* save() selects the member again ...
SelectTarget(r) ==
    /\ At(r, "select")
    /\ request' = [request EXCEPT ![r].pc = "save", ![r].gone = ~members[request[r].of].row]
    /\ UNCHANGED <<tables, started, faults, history>>

\* ... and inserts it if it has gone, or changes its role (nothing, if it went since).
SaveTarget(r) ==
    /\ At(r, "save")
    /\ LET m == request[r].of IN LET was == members[m] IN
       /\ members' = IF ~request[r].gone THEN [members EXCEPT ![m].role = IF was.row THEN request[r].role ELSE @]
                     ELSE IF was.row \/ Refused(was.company, was.user) THEN members
                     ELSE [members EXCEPT ![m].row = TRUE, ![m].role = request[r].role]
       /\ resigned' = IF was.user = request[r].user THEN resigned \cup {was.company} ELSE resigned
    /\ End(r)
    /\ UNCHANGED <<users, companies, invites, started, faults, twice, crowded, shared, revived,
                   admitted, unfinished>>

RemoveMember(r) ==
    /\ At(r, "drop")
    /\ LET m == request[r].of IN
       /\ members' = [members EXCEPT ![m].row = FALSE]
       /\ revived' = IF \E q \in Others(r) : request[q].pc \in {"select", "save"} /\ request[q].of = m
                     THEN revived \cup {m} ELSE revived
    /\ End(r)
    /\ UNCHANGED <<users, companies, invites, started, faults, twice, crowded, shared, admitted,
                   resigned, unfinished>>

-------------------------------------------------------------------------------
\* deleteAllUserData: the invitations and the memberships of the user, and its companies
\* with theirs.
Erase(r) ==
    /\ At(r, "erase")
    /\ LET u == request[r].user IN LET Its == Owned(u) IN
       /\ users' = users \ {u}
       /\ companies' = [c \in DOMAIN companies |-> [companies[c] EXCEPT !.row = @ /\ c \notin Its]]
       /\ members' = [m \in DOMAIN members |->
             [members[m] EXCEPT !.row = @ /\ members[m].user # u /\ members[m].company \notin Its]]
       /\ invites' = [i \in DOMAIN invites |->
             [invites[i] EXCEPT !.row = @ /\ invites[i].by # u /\ invites[i].company \notin Its]]
    /\ End(r)
    /\ UNCHANGED <<started, faults, history>>

-------------------------------------------------------------------------------
Own(r) == FindCompany(r) \/ CreateCompany(r) \/ CreateOwner(r) \/ CheckRights(r) \/ SaveInvite(r)

Accept(r) == FindInvite(r) \/ FindMember(r) \/ Join(r) \/ RemoveInvite(r)

Manage(r) == FindTarget(r) \/ SelectTarget(r) \/ SaveTarget(r) \/ RemoveMember(r)

Next ==
    \/ \E i \in DOMAIN invites : InviteExpires(i)
    \/ \E r \in Request : Start(r) \/ Fails(r) \/ Own(r) \/ Accept(r) \/ Manage(r) \/ Erase(r)

Spec == Init /\ [][Next]_vars

-------------------------------------------------------------------------------
(* Properties.                                                             *)

\* Nothing but the check before an insert keeps a user from owning two companies or from
\* being a member of one twice.  However logins, accepts, failures and deletions follow
\* each other it does neither, unless two logins had found no company, two accepts no
\* membership, or a change of role inserted a row again that was removed meanwhile
\* (team.service.ts:47-61, :249-266, :312).
OneWorkspace == \A u \in User \ twice : Cardinality(Owned(u)) <= 1
MemberOnce ==
    \A u \in User, c \in DOMAIN companies :
       <<u, c>> \notin crowded => Cardinality(Memberships(c, u) \ revived) <= 1
JoinedOnce == TypeOK /\ OneWorkspace /\ MemberOnce

\* An invitation admits one user, unless a second one had found it before the first had
\* removed it, or was cut off before (team.service.ts:233, :267).
AdmitsOne == \A i \in DOMAIN invites \ shared : Cardinality(admitted[i]) <= 1

\* A company that was set up keeps its owner as a member with the role of an owner,
\* whatever roles change and members go, unless the owner changed its own role
\* (team.service.ts:296-313, :338-374).
OwnerStays ==
    \A c \in DOMAIN companies :
       \/ ~companies[c].row \/ c \in unfinished \cup resigned
       \/ \E r \in Request : At(r, "owner") /\ request[r].company = c
       \/ \E m \in Memberships(c, companies[c].owner) : members[m].role = "Owner"
===============================================================================
