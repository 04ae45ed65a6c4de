---------------------------- MODULE WorkspaceProofs ----------------------------
(***************************************************************************)
(* Proofs about Workspace, for any users and any number of requests at once:  *)
(* nobody owns two companies or is a member twice, an invitation admits one   *)
(* user, and a company keeps its owner.                                     *)
(***************************************************************************)
EXTENDS Workspace, FiniteSetTheorems, WellFoundedInduction, TLAPS

USE WorkspaceAssumption

MemberRow == [company : Nat, user : User, role : Role, row : BOOLEAN]
InviteRow == [company : Nat, by : User, role : Role, row : BOOLEAN, expired : BOOLEAN]
RequestRow == [kind : Kinds, pc : Steps, user : User, company : Nat, of : Nat, role : Role,
               gone : BOOLEAN]

(* The requests, by their steps.                                             *)
KindsAt(pc) ==
    CASE pc = "company" -> {"login", "invite", "role", "remove"}
      [] pc \in {"create", "owner"} -> {"login"}
      [] pc = "rights" -> {"invite", "role", "remove"}
      [] pc = "invite" -> {"invite"}
      [] pc = "target" -> {"role", "remove"}
      [] pc \in {"select", "save"} -> {"role"}
      [] pc = "drop" -> {"remove"}
      [] pc = "erase" -> {"delete"}
      [] OTHER -> {"accept"}

InCompany == {"owner", "rights", "invite", "target", "select", "save", "drop"}
Admitted == {"known", "join", "done"}

(* A request has found the company its user owns, a member of it, or an invitation.  *)
Placed(r) ==
    LET q == request[r] IN
    /\ q \in RequestRow /\ q.kind \in KindsAt(q.pc)
    /\ q.company <= Len(companies) /\ q.of <= Len(members) + Len(invites)
    /\ q.kind \in {"role", "remove"} => q.of \in DOMAIN members
    /\ q.kind = "accept" => q.of \in DOMAIN invites
    /\ q.pc \in InCompany => q.company \in DOMAIN companies /\ companies[q.company].owner = q.user
    /\ q.pc \in Admitted => q.company = invites[q.of].company
    /\ q.pc \in {"select", "save", "drop"} => members[q.of].company = q.company
    /\ q.pc = "drop" => members[q.of].user # q.user

TablesTyped ==
    /\ users \subseteq User
    /\ companies \in Seq(Company) /\ members \in Seq(MemberRow) /\ invites \in Seq(InviteRow)
    /\ \A m \in DOMAIN members : members[m].company \in DOMAIN companies
    /\ \A i \in DOMAIN invites : invites[i].company \in DOMAIN companies

HistoryTyped ==
    /\ started \in 0..MaxRequests /\ faults \in 0..MaxFaults
    /\ twice \subseteq User
    /\ crowded \subseteq User \X DOMAIN companies
    /\ shared \subseteq DOMAIN invites /\ revived \subseteq DOMAIN members
    /\ admitted \in Seq(SUBSET User) /\ Len(admitted) = Len(invites)
    /\ resigned \subseteq DOMAIN companies /\ unfinished \subseteq DOMAIN companies

RequestsTyped ==
    /\ request = [r \in Request |-> request[r]]
    /\ \A r \in Request : request[r] = Idle \/ Placed(r)

Typed == TablesTyped /\ HistoryTyped /\ RequestsTyped

(* A company is made once.                                                     *)
Creates(r, u) == At(r, "create") /\ request[r].user = u
CompanyInv ==
    /\ \A c \in DOMAIN companies : companies[c].row => companies[c].owner \in users
    /\ \A u \in User \ twice :
          /\ \A c, d \in Owned(u) : c = d
          /\ \A r \in Request : Creates(r, u) => Owned(u) = {}
          /\ \A q, r \in Request : Creates(q, u) /\ Creates(r, u) => q = r

(* A company whose owner is not a member yet has nobody.                          *)
Empty(c, r) ==
    /\ \A m \in DOMAIN members : members[m].company # c
    /\ \A i \in DOMAIN invites : invites[i].company # c
    /\ \A q \in Request \ {r} : request[q] # Idle /\ request[q].company = c => request[q].pc = "rights"
EmptyInv == \A r \in Request : At(r, "owner") => Empty(request[r].company, r)

(* A member that a request is to save was there, or will not come back unseen.     *)
Lost(m) == m \in revived \/ Refused(members[m].company, members[m].user)
Saves(r, m) == request[r] # Idle /\ request[r].pc \in {"select", "save"} /\ request[r].of = m
ReturnInv ==
    \A r \in Request, m \in DOMAIN members :
       Saves(r, m) /\ (~members[m].row \/ (At(r, "save") /\ request[r].gone)) => Lost(m)

(* A user becomes a member once.                                               *)
Joins(r, c, u) == At(r, "join") /\ request[r].company = c /\ request[r].user = u
JoinInv ==
    \A u \in User, c \in DOMAIN companies :
       <<u, c>> \notin crowded =>
          /\ \A m, n \in Memberships(c, u) \ revived : m = n
          /\ \A r \in Request : Joins(r, c, u) => Memberships(c, u) \ revived = {}
          /\ \A q, r \in Request : Joins(q, c, u) /\ Joins(r, c, u) => q = r

(* An invitation that has been found is on its way, and nobody else's.             *)
Accepts(r, i) == request[r] # Idle /\ request[r].kind = "accept" /\ request[r].of = i /\ ~At(r, "find")
InviteInv ==
    \A i \in DOMAIN invites \ shared :
       /\ \A q, r \in Request : Accepts(q, i) /\ Accepts(r, i) => q = r
       /\ \A r \in Request : Accepts(r, i) /\ ~At(r, "done") => admitted[i] = {}
       /\ admitted[i] # {} /\ invites[i].row => \E r \in Request : Accepts(r, i) /\ At(r, "done")
       /\ \A u, v \in admitted[i] : u = v

WorkspaceInv == Typed /\ CompanyInv /\ EmptyInv /\ ReturnInv /\ JoinInv /\ InviteInv /\ OwnerStays

-------------------------------------------------------------------------------
(* What the invariant says is what the runs check.                           *)

LEMMA OneElement ==
    ASSUME NEW S, \A x, y \in S : x = y PROVE Cardinality(S) <= 1
<1>1. CASE S = {}
    BY <1>1, FS_EmptySet
<1>2. CASE S # {}
    <2>1. PICK x \in S : TRUE
        BY <1>2
    <2>2. S = {x}
        BY <2>1
    <2>3. QED
        BY <2>2, FS_Singleton
<1>3. QED
    BY <1>1, <1>2

LEMMA TypedTypes == ASSUME Typed PROVE TypeOK
<1>1. DOMAIN companies = 1..Len(companies) /\ Len(companies) \in Nat
    BY DEF Typed, TablesTyped
<1>2. members \in Seq(Member)
    <2>1. members \in Seq(MemberRow)
        BY DEF Typed, TablesTyped
    <2>2. \A m \in 1..Len(members) :
             members[m] \in MemberRow /\ members[m].company \in 1..Len(companies)
        BY <1>1, <2>1 DEF Typed, TablesTyped
    <2>3. \A m \in 1..Len(members) : members[m] \in Member
        BY <2>2 DEF Member, MemberRow
    <2>4. QED
        BY <2>1, <2>3
<1>3. invites \in Seq(Invite)
    <2>1. invites \in Seq(InviteRow)
        BY DEF Typed, TablesTyped
    <2>2. \A i \in 1..Len(invites) :
             invites[i] \in InviteRow /\ invites[i].company \in 1..Len(companies)
        BY <1>1, <2>1 DEF Typed, TablesTyped
    <2>3. \A i \in 1..Len(invites) : invites[i] \in Invite
        BY <2>2 DEF Invite, InviteRow
    <2>4. QED
        BY <2>1, <2>3
<1>4. ASSUME NEW r \in Request, request[r] # Idle
      PROVE  request[r] \in [kind : Kinds, pc : Steps, user : User, company : 0..Len(companies),
                             of : 0..Len(members) + Len(invites), role : Role, gone : BOOLEAN]
    <2>1. /\ request[r] \in RequestRow
          /\ request[r].company <= Len(companies) /\ request[r].of <= Len(members) + Len(invites)
        BY <1>4 DEF Typed, RequestsTyped, Placed
    <2>2. Len(companies) \in Nat /\ Len(members) \in Nat /\ Len(invites) \in Nat
        BY DEF Typed, TablesTyped
    <2>3. QED
        BY <2>1, <2>2 DEF RequestRow
<1>5. DOMAIN admitted = DOMAIN invites
    BY DEF Typed, TablesTyped, HistoryTyped
<1>6. QED
    BY <1>1, <1>2, <1>3, <1>4, <1>5 DEF Typed, TablesTyped, HistoryTyped, TypeOK

LEMMA InvJoinedOnce == ASSUME WorkspaceInv PROVE JoinedOnce
<1>1. TypeOK
    BY TypedTypes DEF WorkspaceInv
<1>2. OneWorkspace
    BY OneElement DEF WorkspaceInv, CompanyInv, OneWorkspace
<1>3. MemberOnce
    BY OneElement DEF WorkspaceInv, JoinInv, MemberOnce
<1>4. QED
    BY <1>1, <1>2, <1>3 DEF JoinedOnce

LEMMA InvAdmitsOne == ASSUME WorkspaceInv PROVE AdmitsOne
BY OneElement DEF WorkspaceInv, InviteInv, AdmitsOne

-------------------------------------------------------------------------------
(* Requests: how they move.                                                  *)

LEMMA AtPlaced ==
    ASSUME Typed, NEW r \in Request, NEW pc, At(r, pc)
    PROVE  /\ request[r] # Idle /\ Placed(r) /\ request[r] \in RequestRow
           /\ request[r].pc = pc /\ request[r].kind \in KindsAt(pc)
BY DEF Typed, RequestsTyped, At, Placed

LEMMA GoesTo ==
    ASSUME Typed, NEW r \in Request, request[r] # Idle, NEW pc \in Steps, Goto(r, pc)
    PROVE  /\ request' = [s \in Request |-> request'[s]]
           /\ \A s \in Request \ {r} : request'[s] = request[s]
           /\ request'[r] # Idle /\ request'[r] \in RequestRow /\ request'[r].pc = pc
           /\ request'[r].kind = request[r].kind /\ request'[r].user = request[r].user
           /\ request'[r].company = request[r].company /\ request'[r].of = request[r].of
           /\ request'[r].role = request[r].role /\ request'[r].gone = request[r].gone
<1>1. request = [s \in Request |-> request[s]] /\ request[r] \in RequestRow
    BY DEF Typed, RequestsTyped, Placed
<1>2. request' = [request EXCEPT ![r].pc = pc]
    BY DEF Goto
<1>3. request'[r] = [request[r] EXCEPT !.pc = pc]
    BY <1>1, <1>2
<1>4. \A s \in Request \ {r} : request'[s] = request[s]
    BY <1>1, <1>2
<1>5. request' = [s \in Request |-> request'[s]]
    BY <1>1, <1>2
<1>6. request'[r] \in RequestRow /\ request'[r].pc = pc
    BY <1>1, <1>3 DEF RequestRow
<1>7. request'[r] # Idle
    BY <1>6 DEF Idle, Steps
<1>8. QED
    BY <1>1, <1>3, <1>4, <1>5, <1>6, <1>7 DEF RequestRow

LEMMA Ends ==
    ASSUME Typed, NEW r \in Request, End(r)
    PROVE  /\ request' = [s \in Request |-> request'[s]]
           /\ \A s \in Request \ {r} : request'[s] = request[s]
           /\ request'[r] = Idle
BY DEF Typed, RequestsTyped, End

-------------------------------------------------------------------------------
(* Tables: rows come at the end, keep what identifies them, and companies and  *)
(* invitations that have gone stay away.                                      *)

Grows ==
    /\ users' \subseteq users
    /\ Len(companies) <= Len(companies')
    /\ \A c \in DOMAIN companies : /\ companies'[c].owner = companies[c].owner
                                   /\ companies'[c].row => companies[c].row
    /\ Len(members) <= Len(members')
    /\ \A m \in DOMAIN members : /\ members'[m].company = members[m].company
                                 /\ members'[m].user = members[m].user
    /\ Len(invites) <= Len(invites')
    /\ \A i \in DOMAIN invites : /\ invites'[i].company = invites[i].company
                                 /\ invites'[i].row => invites[i].row

LEMMA Domains ==
    ASSUME TablesTyped
    PROVE  /\ Len(companies) \in Nat /\ DOMAIN companies = 1..Len(companies)
           /\ Len(members) \in Nat /\ DOMAIN members = 1..Len(members)
           /\ Len(invites) \in Nat /\ DOMAIN invites = 1..Len(invites)
BY DEF TablesTyped

LEMMA RowsTyped ==
    ASSUME TablesTyped
    PROVE  /\ \A c \in DOMAIN companies : companies[c] \in Company
           /\ \A m \in DOMAIN members : members[m] \in MemberRow /\ members[m].company \in DOMAIN companies
           /\ \A i \in DOMAIN invites : invites[i] \in InviteRow /\ invites[i].company \in DOMAIN companies
<1>1. companies \in Seq(Company) /\ members \in Seq(MemberRow) /\ invites \in Seq(InviteRow)
    BY DEF TablesTyped
<1>2. QED
    BY <1>1 DEF TablesTyped

LEMMA GrownDomains ==
    ASSUME TablesTyped, TablesTyped', Grows
    PROVE  /\ DOMAIN companies \subseteq DOMAIN companies'
           /\ DOMAIN members \subseteq DOMAIN members'
           /\ DOMAIN invites \subseteq DOMAIN invites'
<1>1. /\ Len(companies') \in Nat /\ DOMAIN companies' = 1..Len(companies')
      /\ Len(members') \in Nat /\ DOMAIN members' = 1..Len(members')
      /\ Len(invites') \in Nat /\ DOMAIN invites' = 1..Len(invites')
    BY DEF TablesTyped
<1>2. /\ Len(companies) <= Len(companies') /\ Len(members) <= Len(members')
      /\ Len(invites) <= Len(invites')
    BY DEF Grows
<1>3. QED
    BY <1>1, <1>2, Domains

LEMMA TablesSame ==
    ASSUME Typed, UNCHANGED tables PROVE TablesTyped' /\ Grows
<1>1. /\ users' = users /\ companies' = companies /\ members' = members /\ invites' = invites
    BY DEF tables
<1>2. TablesTyped
    BY DEF Typed
<1>3. TablesTyped'
    BY <1>1, <1>2 DEF TablesTyped
<1>4. Grows
    BY <1>1, <1>2, Domains DEF Grows
<1>5. QED
    BY <1>3, <1>4

\* A request that does nothing stays placed.
LEMMA PlacedStays ==
    ASSUME TablesTyped, TablesTyped', Grows, NEW r \in Request, Placed(r), request'[r] = request[r]
    PROVE  Placed(r)'
<1> DEFINE q == request[r]
<1>1. /\ q \in RequestRow /\ q.kind \in KindsAt(q.pc)
      /\ q.company <= Len(companies) /\ q.of <= Len(members) + Len(invites)
      /\ q.kind \in {"role", "remove"} => q.of \in DOMAIN members
      /\ q.kind = "accept" => q.of \in DOMAIN invites
      /\ q.pc \in InCompany => q.company \in DOMAIN companies /\ companies[q.company].owner = q.user
      /\ q.pc \in Admitted => q.company = invites[q.of].company
      /\ q.pc \in {"select", "save", "drop"} => members[q.of].company = q.company
      /\ q.pc = "drop" => members[q.of].user # q.user
    BY DEF Placed
<1>2. /\ q.pc \in {"select", "save", "drop"} => q.kind \in {"role", "remove"}
      /\ q.pc \in Admitted => q.kind = "accept"
    BY <1>1 DEF KindsAt, Admitted
<1>3. q.company \in Nat /\ q.of \in Nat
    BY <1>1 DEF RequestRow
<1>4. /\ Len(companies') \in Nat /\ Len(members') \in Nat /\ Len(invites') \in Nat
      /\ Len(companies) <= Len(companies') /\ Len(members) <= Len(members')
      /\ Len(invites) <= Len(invites')
    BY DEF TablesTyped, Grows
<1>5. q.company <= Len(companies') /\ q.of <= Len(members') + Len(invites')
    BY <1>1, <1>3, <1>4, Domains
<1>6. /\ q.kind \in {"role", "remove"} => q.of \in DOMAIN members'
      /\ q.kind = "accept" => q.of \in DOMAIN invites'
    BY <1>1, GrownDomains
<1>7. q.pc \in InCompany => q.company \in DOMAIN companies' /\ companies'[q.company].owner = q.user
    BY <1>1, GrownDomains DEF Grows
<1>8. q.pc \in Admitted => q.company = invites'[q.of].company
    BY <1>1, <1>2 DEF Grows
<1>9. /\ q.pc \in {"select", "save", "drop"} => members'[q.of].company = q.company
      /\ q.pc = "drop" => members'[q.of].user # q.user
    BY <1>1, <1>2 DEF Grows
<1>10. request'[r] = q
    OBVIOUS
<1> HIDE DEF q
<1>11. QED
    BY <1>1, <1>5, <1>6, <1>7, <1>8, <1>9, <1>10 DEF Placed

LEMMA TypedStep ==
    ASSUME Typed, TablesTyped', Grows, HistoryTyped', request' = [s \in Request |-> request'[s]],
           \A s \in Request : request'[s] = request[s] \/ request'[s] = Idle \/ Placed(s)'
    PROVE  Typed'
<1>1. ASSUME NEW s \in Request PROVE request'[s] = Idle \/ Placed(s)'
    <2>1. CASE request'[s] = request[s] /\ request[s] # Idle
        <3>1. Placed(s)
            BY <2>1 DEF Typed, RequestsTyped
        <3>2. QED
            BY <2>1, <3>1, PlacedStays DEF Typed
    <2>2. QED
        BY <2>1
<1>2. RequestsTyped'
    BY <1>1 DEF RequestsTyped
<1>3. QED
    BY <1>2 DEF Typed

-------------------------------------------------------------------------------
(* What does not concern a part of the invariant keeps it.                     *)

\* No request comes to one of the steps pcs.
Calm(pcs) == \A s \in Request : request'[s] = request[s] \/ request'[s] = Idle \/ request'[s].pc \notin pcs

LEMMA EndsCalm ==
    ASSUME NEW r \in Request, NEW pcs, \A s \in Request \ {r} : request'[s] = request[s],
           request'[r] = Idle \/ request'[r].pc \notin pcs
    PROVE  Calm(pcs)
BY DEF Calm

LEMMA CompanyKeeps ==
    ASSUME CompanyInv, UNCHANGED <<users, companies>>, twice \subseteq twice', Calm({"create"})
    PROVE  CompanyInv'
<1>1. ASSUME NEW q \in Request, NEW u, Creates(q, u)' PROVE Creates(q, u)
    BY <1>1 DEF Calm, Creates, At
<1>2. \A u : Owned(u)' = Owned(u)
    BY DEF Owned
<1>3. QED
    BY <1>1, <1>2 DEF CompanyInv

\* A company with a member, an invitation or a request at work in it, or none at all.
Inhabited(c) ==
    \/ c \notin DOMAIN companies
    \/ \E m \in DOMAIN members : members[m].company = c
    \/ \E i \in DOMAIN invites : invites[i].company = c
    \/ \E s \in Request : /\ request[s] # Idle /\ request[s].company = c /\ request[s].pc # "rights"
                          /\ request'[s] = Idle \/ request'[s].pc # "owner"

LEMMA EmptyKeeps ==
    ASSUME Typed, EmptyInv, Calm({"owner"}),
           \A m \in DOMAIN members' : Inhabited(members'[m].company),
           \A i \in DOMAIN invites' : Inhabited(invites'[i].company),
           \A s \in Request : \/ request'[s] = request[s] \/ request'[s] = Idle
                              \/ request'[s].pc = "rights" \/ Inhabited(request'[s].company)
    PROVE  EmptyInv'
<1> SUFFICES ASSUME NEW r \in Request, At(r, "owner")' PROVE Empty(request[r].company, r)'
    BY DEF EmptyInv
<1>1. request'[r] = request[r] /\ At(r, "owner")
    BY DEF Calm, At
<1> DEFINE c == request[r].company
<1>2. Empty(c, r)
    BY <1>1 DEF EmptyInv
<1>3. c \in DOMAIN companies
    BY <1>1, AtPlaced DEF Placed, InCompany, At
<1>4. ~Inhabited(c)
    <2>1. ASSUME NEW s \in Request, request[s] # Idle, request[s].company = c, request[s].pc # "rights",
                 request'[s] = Idle \/ request'[s].pc # "owner"
          PROVE  FALSE
        <3>1. s = r
            BY <1>2, <2>1 DEF Empty
        <3>2. QED
            BY <1>1, <2>1, <3>1 DEF At
    <2>2. QED
        BY <1>2, <1>3, <2>1 DEF Empty, Inhabited
<1>5. request'[r].company = c
    BY <1>1
<1> HIDE DEF c
<1>6. \A m \in DOMAIN members' : members'[m].company # c
    BY <1>4
<1>7. \A i \in DOMAIN invites' : invites'[i].company # c
    BY <1>4
<1>8. ASSUME NEW q \in Request \ {r}, request'[q] # Idle, request'[q].company = c
      PROVE  request'[q].pc = "rights"
    <2>1. CASE request'[q] = request[q]
        BY <1>2, <1>8, <2>1 DEF Empty
    <2>2. CASE request'[q] # request[q]
        BY <1>4, <1>8, <2>2
    <2>3. QED
        BY <2>1, <2>2
<1>9. QED
    BY <1>5, <1>6, <1>7, <1>8 DEF Empty

LEMMA LostStays ==
    ASSUME TablesTyped, Grows, revived \subseteq revived', NEW m \in DOMAIN members, Lost(m)
    PROVE  Lost(m)'
<1>1. members[m].company \in DOMAIN companies
    BY DEF TablesTyped
<1>2. QED
    BY <1>1 DEF Lost, Refused, Grows

LEMMA ReturnKeeps ==
    ASSUME Typed, ReturnInv, Grows, Len(members') = Len(members), TablesTyped',
           revived \subseteq revived', Calm({"select", "save"}),
           \A m \in DOMAIN members :
              members[m].row => members'[m].row \/ Lost(m)' \/ ~\E s \in Request : Saves(s, m)'
    PROVE  ReturnInv'
<1>1. DOMAIN members' = DOMAIN members
    BY Domains DEF TablesTyped, Typed
<1>2. ASSUME NEW r \in Request, NEW m \in DOMAIN members, Saves(r, m)',
             (~members[m].row \/ (At(r, "save") /\ request[r].gone))'
      PROVE  Lost(m)'
    <2>1. request'[r] = request[r]
        BY <1>2 DEF Calm, Saves
    <2>2. Saves(r, m) /\ (At(r, "save")' <=> At(r, "save")) /\ request'[r].gone = request[r].gone
        BY <1>2, <2>1 DEF Saves, At
    <2>3. CASE ~members[m].row \/ (At(r, "save") /\ request[r].gone)
        <3>1. Lost(m)
            BY <2>2, <2>3 DEF ReturnInv
        <3>2. QED
            BY <3>1, LostStays DEF Typed
    <2>4. CASE members[m].row /\ ~(At(r, "save") /\ request[r].gone)
        BY <1>2, <2>2, <2>4
    <2>5. QED
        BY <2>3, <2>4
<1>3. QED
    BY <1>1, <1>2 DEF ReturnInv

LEMMA JoinKeeps ==
    ASSUME Typed, JoinInv, Grows, TablesTyped', Len(companies') = Len(companies),
           Len(members') = Len(members), crowded \subseteq crowded', revived \subseteq revived',
           Calm({"join"}), \A m \in DOMAIN members : members'[m].row => members[m].row \/ m \in revived
    PROVE  JoinInv'
<1>1. DOMAIN members' = DOMAIN members /\ DOMAIN companies' = DOMAIN companies
    BY Domains DEF TablesTyped, Typed
<1>2. ASSUME NEW r \in Request, NEW c, NEW u, Joins(r, c, u)' PROVE Joins(r, c, u)
    BY <1>2 DEF Calm, Joins, At
<1>3. ASSUME NEW c, NEW u
      PROVE  Memberships(c, u)' \ revived' \subseteq Memberships(c, u) \ revived
    BY <1>1 DEF Memberships, Grows
<1>4. ASSUME NEW u \in User, NEW c \in DOMAIN companies, <<u, c>> \notin crowded'
      PROVE  /\ \A m, n \in Memberships(c, u)' \ revived' : m = n
             /\ \A r \in Request : Joins(r, c, u)' => Memberships(c, u)' \ revived' = {}
             /\ \A q, r \in Request : Joins(q, c, u)' /\ Joins(r, c, u)' => q = r
    <2>1. <<u, c>> \notin crowded
        BY <1>4
    <2>2. /\ \A m, n \in Memberships(c, u) \ revived : m = n
          /\ \A r \in Request : Joins(r, c, u) => Memberships(c, u) \ revived = {}
          /\ \A q, r \in Request : Joins(q, c, u) /\ Joins(r, c, u) => q = r
        BY <2>1 DEF JoinInv
    <2>3. QED
        BY <1>2, <1>3, <2>2
<1>5. QED
    BY <1>1, <1>4 DEF JoinInv

LEMMA InviteKeeps ==
    ASSUME Typed, InviteInv, Grows, TablesTyped', Len(invites') = Len(invites), admitted' = admitted,
           shared \subseteq shared',
           \A i \in DOMAIN invites \ shared' : \A s \in Request :
              /\ Accepts(s, i)' => Accepts(s, i) /\ (At(s, "done")' <=> At(s, "done"))
              /\ Accepts(s, i) /\ At(s, "done") => Accepts(s, i)' \/ ~invites'[i].row
    PROVE  InviteInv'
<1>1. DOMAIN invites' = DOMAIN invites
    BY Domains DEF TablesTyped, Typed
<1>2. ASSUME NEW i \in DOMAIN invites \ shared'
      PROVE  /\ \A q, r \in Request : Accepts(q, i)' /\ Accepts(r, i)' => q = r
             /\ \A r \in Request : Accepts(r, i)' /\ ~At(r, "done")' => admitted'[i] = {}
             /\ admitted'[i] # {} /\ invites'[i].row => \E r \in Request : Accepts(r, i)' /\ At(r, "done")'
             /\ \A u, v \in admitted'[i] : u = v
    <2>1. /\ \A q, r \in Request : Accepts(q, i) /\ Accepts(r, i) => q = r
          /\ \A r \in Request : Accepts(r, i) /\ ~At(r, "done") => admitted[i] = {}
          /\ admitted[i] # {} /\ invites[i].row => \E r \in Request : Accepts(r, i) /\ At(r, "done")
          /\ \A u, v \in admitted[i] : u = v
        BY DEF InviteInv
    <2>2. /\ \A s \in Request : Accepts(s, i)' => Accepts(s, i) /\ (At(s, "done")' <=> At(s, "done"))
          /\ \A s \in Request : Accepts(s, i) /\ At(s, "done") => Accepts(s, i)' \/ ~invites'[i].row
        OBVIOUS
    <2>3. admitted'[i] = admitted[i] /\ (invites'[i].row => invites[i].row)
        BY DEF Grows
    <2>4. QED
        BY <2>1, <2>2, <2>3
<1>3. QED
    BY <1>1, <1>2 DEF InviteInv

\* A request that accepts no invitation leaves the invitations it has not come for alone.
LEMMA NotAccepting ==
    ASSUME NEW r \in Request, \A s \in Request \ {r} : request'[s] = request[s],
           request[r] = Idle \/ request[r].kind # "accept",
           request'[r] = Idle \/ request'[r].kind # "accept" \/ request'[r].pc = "find",
           NEW i, NEW s \in Request
    PROVE  /\ Accepts(s, i)' => Accepts(s, i) /\ (At(s, "done")' <=> At(s, "done"))
           /\ Accepts(s, i) /\ At(s, "done") => Accepts(s, i)'
BY DEF Accepts, At

LEMMA OwnerKeeps ==
    ASSUME Typed, OwnerStays, Grows, TablesTyped', Len(companies') = Len(companies),
           resigned \subseteq resigned', unfinished \subseteq unfinished',
           \A s \in Request : request'[s] = request[s] \/ ~At(s, "owner"),
           \A m \in DOMAIN members :
              members[m].row /\ members[m].role = "Owner"
                 /\ members[m].user = companies[members[m].company].owner =>
              (members'[m].row /\ members'[m].role = "Owner") \/ members[m].company \in resigned'
    PROVE  OwnerStays'
<1>1. DOMAIN companies' = DOMAIN companies /\ DOMAIN members \subseteq DOMAIN members'
    BY Domains, GrownDomains DEF TablesTyped, Typed
<1> SUFFICES ASSUME NEW c \in DOMAIN companies, companies'[c].row, c \notin unfinished' \cup resigned',
                    ~\E r \in Request : At(r, "owner")' /\ request'[r].company = c
             PROVE  \E m \in Memberships(c, companies[c].owner)' : members'[m].role = "Owner"
    BY <1>1 DEF OwnerStays
<1>2. companies[c].row /\ companies'[c].owner = companies[c].owner
    BY DEF Grows
<1>3. ~\E r \in Request : At(r, "owner") /\ request[r].company = c
    BY DEF At
<1>4. PICK m \in Memberships(c, companies[c].owner) : members[m].role = "Owner"
    BY <1>2, <1>3 DEF OwnerStays
<1>5. m \in DOMAIN members /\ members[m].row /\ members[m].company = c /\ members[m].user = companies[c].owner
    BY <1>4 DEF Memberships
<1>6. members'[m].row /\ members'[m].role = "Owner"
    BY <1>4, <1>5
<1>7. members'[m].company = c /\ members'[m].user = companies'[c].owner
    BY <1>2, <1>5 DEF Grows
<1>8. m \in Memberships(c, companies[c].owner)'
    BY <1>1, <1>5, <1>6, <1>7 DEF Memberships
<1>9. QED
    BY <1>6, <1>8

-------------------------------------------------------------------------------
(* Steps that read the tables.                                               *)

LEMMA HistorySame ==
    ASSUME Typed, TablesTyped', Grows, Len(invites') = Len(invites), UNCHANGED <<started, faults, history>>
    PROVE  HistoryTyped'
<1>1. DOMAIN companies \subseteq DOMAIN companies' /\ DOMAIN members \subseteq DOMAIN members'
      /\ DOMAIN invites \subseteq DOMAIN invites'
    BY GrownDomains DEF Typed
<1>2. QED
    BY <1>1 DEF Typed, HistoryTyped, history

LEMMA Moves ==
    ASSUME WorkspaceInv, UNCHANGED <<tables, revived, admitted, resigned>>, HistoryTyped',
           twice \subseteq twice', crowded \subseteq crowded', shared \subseteq shared',
           unfinished \subseteq unfinished',
           NEW r \in Request, request' = [s \in Request |-> request'[s]],
           \A s \in Request \ {r} : request'[s] = request[s],
           request'[r] = Idle \/ Placed(r)'
    PROVE  /\ Typed'
           /\ request'[r] = Idle \/ request'[r].pc # "create" => CompanyInv'
           /\ request'[r] = Idle
                 \/ (request'[r].pc # "owner"
                       /\ (request'[r].pc = "rights" \/ Inhabited(request'[r].company))) => EmptyInv'
           /\ request'[r] = Idle \/ request'[r].pc \notin {"select", "save"} => ReturnInv'
           /\ request'[r] = Idle \/ request'[r].pc # "join" => JoinInv'
           /\ (request[r] = Idle \/ request[r].kind # "accept")
                 /\ (request'[r] = Idle \/ request'[r].kind # "accept" \/ request'[r].pc = "find")
                    => InviteInv'
           /\ ~At(r, "owner") => OwnerStays'
<1>1. TablesTyped' /\ Grows
    BY TablesSame DEF WorkspaceInv
<1>2. users' = users /\ companies' = companies /\ members' = members /\ invites' = invites
    BY DEF tables
<1>3. Typed'
    BY <1>1, TypedStep DEF WorkspaceInv
<1>4. request'[r] = Idle \/ request'[r].pc # "create" => CompanyInv'
    BY <1>2, EndsCalm, CompanyKeeps DEF WorkspaceInv
<1>5. ASSUME request'[r] = Idle
                 \/ (request'[r].pc # "owner"
                       /\ (request'[r].pc = "rights" \/ Inhabited(request'[r].company)))
      PROVE  EmptyInv'
    <2>1. Calm({"owner"})
        BY <1>5, EndsCalm
    <2>2. /\ \A m \in DOMAIN members' : Inhabited(members'[m].company)
          /\ \A i \in DOMAIN invites' : Inhabited(invites'[i].company)
        BY <1>2 DEF Inhabited
    <2>3. \A s \in Request : \/ request'[s] = request[s] \/ request'[s] = Idle
                             \/ request'[s].pc = "rights" \/ Inhabited(request'[s].company)
        BY <1>5
    <2>4. QED
        BY <2>1, <2>2, <2>3, EmptyKeeps DEF WorkspaceInv
<1>6. request'[r] = Idle \/ request'[r].pc \notin {"select", "save"} => ReturnInv'
    BY <1>1, <1>2, EndsCalm, ReturnKeeps DEF WorkspaceInv
<1>7. request'[r] = Idle \/ request'[r].pc # "join" => JoinInv'
    BY <1>1, <1>2, EndsCalm, JoinKeeps DEF WorkspaceInv
<1>8. ASSUME request[r] = Idle \/ request[r].kind # "accept",
             request'[r] = Idle \/ request'[r].kind # "accept" \/ request'[r].pc = "find"
      PROVE  InviteInv'
    BY <1>1, <1>2, <1>8, NotAccepting, InviteKeeps DEF WorkspaceInv
<1>9. ASSUME ~At(r, "owner") PROVE OwnerStays'
    <2>1. \A s \in Request : request'[s] = request[s] \/ ~At(s, "owner")
        BY <1>9
    <2>2. QED
        BY <1>1, <1>2, <2>1, OwnerKeeps DEF WorkspaceInv
<1>10. QED
    BY <1>3, <1>4, <1>5, <1>6, <1>7, <1>8, <1>9

LEMMA StartStep ==
    ASSUME WorkspaceInv, NEW r \in Request, Start(r) PROVE WorkspaceInv'
<1>1. PICK u \in users : TRUE
    BY DEF Start
<1>2. PICK q : /\ q \in RequestRow /\ request' = [request EXCEPT ![r] = q]
               /\ q.pc \in {"company", "find", "erase"} /\ q.kind \in KindsAt(q.pc) /\ q.company = 0
               /\ q.of <= Len(members) + Len(invites)
               /\ q.kind \in {"role", "remove"} => q.of \in DOMAIN members
               /\ q.kind = "accept" => q.of \in DOMAIN invites
    <2>1. PICK v \in users, k \in Kinds :
             \E of \in 0..Len(members) + Len(invites), role \in Role :
                /\ k \in {"role", "remove"} => of \in DOMAIN members
                /\ k = "accept" => of \in DOMAIN invites
                /\ request' = [request EXCEPT ![r] =
                      [kind |-> k, user |-> v, of |-> of, role |-> role, company |-> 0, gone |-> FALSE,
                       pc |-> CASE k = "accept" -> "find" [] k = "delete" -> "erase" [] OTHER -> "company"]]
        BY DEF Start
    <2>2. PICK of \in 0..Len(members) + Len(invites), role \in Role :
                /\ k \in {"role", "remove"} => of \in DOMAIN members
                /\ k = "accept" => of \in DOMAIN invites
                /\ request' = [request EXCEPT ![r] =
                      [kind |-> k, user |-> v, of |-> of, role |-> role, company |-> 0, gone |-> FALSE,
                       pc |-> CASE k = "accept" -> "find" [] k = "delete" -> "erase" [] OTHER -> "company"]]
        BY <2>1
    <2> DEFINE pc == CASE k = "accept" -> "find" [] k = "delete" -> "erase" [] OTHER -> "company"
               q == [kind |-> k, user |-> v, of |-> of, role |-> role, company |-> 0, gone |-> FALSE, pc |-> pc]
    <2>3. pc \in {"company", "find", "erase"} /\ pc \in Steps /\ k \in KindsAt(pc)
        BY DEF Steps, Kinds, KindsAt
    <2>4. v \in User /\ of \in Nat /\ of <= Len(members) + Len(invites)
        BY Domains DEF WorkspaceInv, Typed, TablesTyped
    <2> HIDE DEF pc
    <2>5. q \in RequestRow
        BY <2>3, <2>4 DEF RequestRow
    <2>6. request' = [request EXCEPT ![r] = q]
        BY <2>2 DEF pc
    <2>7. /\ q.pc \in {"company", "find", "erase"} /\ q.kind \in KindsAt(q.pc) /\ q.company = 0
          /\ q.of <= Len(members) + Len(invites)
          /\ q.kind \in {"role", "remove"} => q.of \in DOMAIN members
          /\ q.kind = "accept" => q.of \in DOMAIN invites
        BY <2>2, <2>3, <2>4
    <2> HIDE DEF q
    <2>8. QED
        BY <2>5, <2>6, <2>7
<1>3. request = [s \in Request |-> request[s]] /\ request[r] = Idle
    BY DEF WorkspaceInv, Typed, RequestsTyped, Start
<1>4. /\ request' = [s \in Request |-> request'[s]] /\ request'[r] = q
      /\ \A s \in Request \ {r} : request'[s] = request[s]
    BY <1>2, <1>3
<1>5. /\ UNCHANGED <<tables, history>> /\ faults' = faults /\ started' \in 0..MaxRequests
    BY DEF Start, WorkspaceInv, Typed, HistoryTyped
<1>6. TablesTyped' /\ Grows
    BY <1>5, TablesSame DEF WorkspaceInv
<1>7. HistoryTyped'
    BY <1>5 DEF HistoryTyped, history, tables, WorkspaceInv, Typed
<1>8. q.pc \notin InCompany \cup Admitted
    BY <1>2 DEF InCompany, Admitted
<1>9. Placed(r)'
    <2>1. Len(companies') \in Nat
        BY <1>6 DEF TablesTyped
    <2>2. q.company <= Len(companies')
        BY <1>2, <2>1
    <2>3. Len(members') = Len(members) /\ Len(invites') = Len(invites)
          /\ DOMAIN members' = DOMAIN members /\ DOMAIN invites' = DOMAIN invites
        BY <1>5 DEF tables
    <2>4. q.pc \notin {"select", "save", "drop"}
        BY <1>2
    <2>5. QED
        BY <1>2, <1>4, <1>8, <2>2, <2>3, <2>4 DEF Placed
<1>10. q.pc \notin {"create", "owner", "select", "save", "join"}
    BY <1>2
<1>11. q.kind # "accept" \/ q.pc = "find"
    BY <1>2 DEF KindsAt
<1>12. Inhabited(0)
    BY Domains DEF Inhabited, WorkspaceInv, Typed
<1>13. UNCHANGED <<twice, crowded, shared, unfinished, revived, admitted, resigned>>
    BY <1>5 DEF history
<1>14. ~At(r, "owner")
    BY <1>3 DEF At
<1>15. QED
    BY <1>2, <1>3, <1>4, <1>5, <1>7, <1>9, <1>10, <1>11, <1>12, <1>13, <1>14, Moves DEF WorkspaceInv

LEMMA FailsStep ==
    ASSUME WorkspaceInv, NEW r \in Request, Fails(r) PROVE WorkspaceInv'
<1>1. /\ request' = [s \in Request |-> request'[s]] /\ request'[r] = Idle
      /\ \A s \in Request \ {r} : request'[s] = request[s]
    BY Ends DEF Fails, WorkspaceInv
<1>2. /\ UNCHANGED <<tables, started, twice, crowded, revived, admitted, resigned>>
      /\ shared' = IF At(r, "done") THEN shared \cup {request[r].of} ELSE shared
      /\ unfinished' = IF At(r, "owner") THEN unfinished \cup {request[r].company} ELSE unfinished
    BY DEF Fails
<1>3. users' = users /\ companies' = companies /\ members' = members /\ invites' = invites
    BY <1>2 DEF tables
<1>4. HistoryTyped'
    <2>1. faults' \in 0..MaxFaults
        BY DEF Fails, WorkspaceInv, Typed, HistoryTyped
    <2>2. shared' \subseteq DOMAIN invites
        <3>1. CASE At(r, "done")
            <4>1. request[r].of \in DOMAIN invites
                BY <3>1, AtPlaced DEF Placed, KindsAt, WorkspaceInv
            <4>2. QED
                BY <1>2, <3>1, <4>1 DEF WorkspaceInv, Typed, HistoryTyped
        <3>2. CASE ~At(r, "done")
            BY <1>2, <3>2 DEF WorkspaceInv, Typed, HistoryTyped
        <3>3. QED
            BY <3>1, <3>2
    <2>3. unfinished' \subseteq DOMAIN companies
        <3>1. CASE At(r, "owner")
            <4>1. request[r].company \in DOMAIN companies
                BY <3>1, AtPlaced DEF Placed, InCompany, WorkspaceInv
            <4>2. QED
                BY <1>2, <3>1, <4>1 DEF WorkspaceInv, Typed, HistoryTyped
        <3>2. CASE ~At(r, "owner")
            BY <1>2, <3>2 DEF WorkspaceInv, Typed, HistoryTyped
        <3>3. QED
            BY <3>1, <3>2
    <2>4. QED
        BY <1>2, <1>3, <2>1, <2>2, <2>3 DEF WorkspaceInv, Typed, HistoryTyped
<1>5. shared \subseteq shared' /\ unfinished \subseteq unfinished' /\ twice \subseteq twice'
      /\ crowded \subseteq crowded'
    BY <1>2
<1>6. TablesTyped' /\ Grows
    BY <1>2, TablesSame DEF WorkspaceInv
<1>7. /\ Typed' /\ CompanyInv' /\ EmptyInv' /\ ReturnInv' /\ JoinInv'
      /\ ~At(r, "owner") => OwnerStays'
    BY <1>1, <1>2, <1>4, <1>5, Moves
<1>8. InviteInv'
    <2>1. ASSUME NEW i \in DOMAIN invites \ shared', NEW s \in Request
          PROVE  /\ Accepts(s, i)' => Accepts(s, i) /\ (At(s, "done")' <=> At(s, "done"))
                 /\ Accepts(s, i) /\ At(s, "done") => Accepts(s, i)'
        <3>1. CASE s = r
            BY <1>1, <1>2, <3>1 DEF Accepts
        <3>2. CASE s # r
            BY <1>1, <3>2 DEF Accepts, At
        <3>3. QED
            BY <3>1, <3>2
    <2>2. QED
        BY <1>2, <1>3, <1>5, <1>6, <2>1, InviteKeeps DEF WorkspaceInv
\* A company that loses the request that was to make its owner a member is unfinished.
<1>9. ASSUME At(r, "owner") PROVE OwnerStays'
    <2> SUFFICES ASSUME NEW c \in DOMAIN companies, companies[c].row, c \notin unfinished' \cup resigned,
                        ~\E s \in Request : At(s, "owner")' /\ request'[s].company = c
                 PROVE  \E m \in Memberships(c, companies[c].owner) : members[m].role = "Owner"
        BY <1>2, <1>3 DEF OwnerStays, Memberships
    <2>1. c # request[r].company /\ c \notin unfinished
        BY <1>2, <1>9
    <2>2. ~\E s \in Request : At(s, "owner") /\ request[s].company = c
        BY <1>1, <2>1 DEF At
    <2>3. QED
        BY <2>1, <2>2 DEF WorkspaceInv, OwnerStays
<1>10. QED
    BY <1>7, <1>8, <1>9 DEF WorkspaceInv

\* A request that goes on where the tables are as they were.
LEMMA PlacedAgain ==
    ASSUME NEW r \in Request, UNCHANGED tables, Placed(r), request'[r] \in RequestRow,
           request'[r].kind = request[r].kind /\ request'[r].user = request[r].user,
           request'[r].company <= Len(companies) /\ request'[r].of = request[r].of,
           request'[r].kind \in KindsAt(request'[r].pc),
           request'[r].pc \in InCompany =>
              /\ request'[r].company \in DOMAIN companies
              /\ companies[request'[r].company].owner = request[r].user,
           request'[r].pc \in Admitted => request'[r].company = invites[request[r].of].company,
           request'[r].pc \in {"select", "save", "drop"} =>
              members[request[r].of].company = request'[r].company,
           request'[r].pc = "drop" => members[request[r].of].user # request[r].user
    PROVE  Placed(r)'
BY DEF Placed, tables

Less == {p \in Nat \X Nat : p[1] < p[2]}

\* findOne with an order finds a company the user owns, if there is one.
LEMMA DefaultOwned ==
    ASSUME Typed, NEW u
    PROVE  IF Owned(u) = {} THEN DefaultCompany(u) = 0 ELSE DefaultCompany(u) \in Owned(u) \ {0}
<1>1. CASE Owned(u) = {}
    BY <1>1 DEF DefaultCompany
<1>2. CASE Owned(u) # {}
    <2>1. Owned(u) \subseteq Nat \ {0}
        BY Domains DEF Owned, Typed
    <2>2. IsWellFoundedOn(Less, Nat)
        BY NatLessThanWellFounded DEF OpToRel, Less
    <2>3. PICK c \in Owned(u) : \A d \in Owned(u) : ~(<<d, c>> \in Less)
        <3>1. Owned(u) \subseteq Nat
            BY <2>1
        <3>2. QED
            BY <1>2, <2>2, <3>1, WFMin
    <2>4. c \in Nat /\ \A d \in Owned(u) : d \in Nat /\ ~(d < c)
        BY <2>1, <2>3 DEF Less
    <2>5. \A d \in Owned(u) : c <= d
        BY <2>4
    <2>6. DefaultCompany(u) \in Owned(u)
        BY <1>2, <2>5 DEF DefaultCompany
    <2>7. QED
        BY <1>2, <2>1, <2>6
<1>3. QED
    BY <1>1, <1>2

LEMMA FindCompanyStep ==
    ASSUME WorkspaceInv, NEW r \in Request, FindCompany(r) PROVE WorkspaceInv'
<1> DEFINE u == request[r].user
           c == DefaultCompany(u)
<1>1. /\ At(r, "company") /\ UNCHANGED <<tables, started, faults, crowded, shared, revived, admitted,
                                         resigned, unfinished>>
      /\ twice' = IF request[r].kind = "login" /\ \E q \in Others(r) : At(q, "create") /\ request[q].user = u
                  THEN twice \cup {u} ELSE twice
    BY DEF FindCompany
<1>2. /\ request[r] # Idle /\ Placed(r) /\ request[r] \in RequestRow /\ request[r].pc = "company"
      /\ request[r].kind \in {"login", "invite", "role", "remove"} /\ u \in User
    BY <1>1, AtPlaced DEF KindsAt, RequestRow, WorkspaceInv
<1>3. users' = users /\ companies' = companies /\ members' = members /\ invites' = invites
    BY <1>1 DEF tables
<1>4. HistoryTyped'
    BY <1>1, <1>2, <1>3 DEF WorkspaceInv, Typed, HistoryTyped
<1>5. twice \subseteq twice' /\ crowded \subseteq crowded' /\ shared \subseteq shared'
      /\ unfinished \subseteq unfinished' /\ UNCHANGED <<tables, revived, admitted, resigned>>
    BY <1>1
<1>6. ~At(r, "owner") /\ request[r].kind # "accept"
    BY <1>2 DEF At
<1>7. CASE End(r)
    <2>1. /\ request' = [s \in Request |-> request'[s]] /\ request'[r] = Idle
          /\ \A s \in Request \ {r} : request'[s] = request[s]
        BY <1>7, Ends DEF WorkspaceInv
    <2>2. QED
        BY <1>4, <1>5, <1>6, <2>1, Moves DEF WorkspaceInv
\* A login that has found no company, while no other was about to make one.
<1>8. CASE request[r].kind = "login" /\ c = 0 /\ Goto(r, "create")
    <2>1. /\ request' = [s \in Request |-> request'[s]]
          /\ \A s \in Request \ {r} : request'[s] = request[s]
          /\ request'[r] # Idle /\ request'[r] \in RequestRow /\ request'[r].pc = "create"
          /\ request'[r].kind = request[r].kind /\ request'[r].user = request[r].user
          /\ request'[r].company = request[r].company /\ request'[r].of = request[r].of
        BY <1>2, <1>8, GoesTo DEF WorkspaceInv, Steps
    <2>2. Placed(r)'
        BY <1>1, <1>2, <1>8, <2>1, PlacedAgain DEF KindsAt, InCompany, Admitted, Placed
    <2>3. Inhabited(request'[r].company)
        BY <1>2, <2>1 DEF Inhabited
    <2>4. Typed' /\ EmptyInv' /\ ReturnInv' /\ JoinInv' /\ InviteInv' /\ OwnerStays'
        BY <1>2, <1>4, <1>5, <1>6, <2>1, <2>2, <2>3, Moves
    <2>5. Owned(u) = {}
        BY <1>8, DefaultOwned DEF WorkspaceInv
    <2>6. CompanyInv'
        <3>1. \A v : Owned(v)' = Owned(v)
            BY <1>3 DEF Owned
        <3>2. ASSUME NEW q \in Request, NEW v, Creates(q, v)' PROVE Creates(q, v) \/ (q = r /\ v = u)
            BY <2>1, <3>2 DEF Creates, At
        <3>3. u \notin twice' => ~\E q \in Request \ {r} : Creates(q, u)
            BY <1>1, <1>8 DEF Creates, Others, At
        <3>4. ASSUME NEW v \in User \ twice'
              PROVE  /\ \A a, b \in Owned(v)' : a = b
                     /\ \A q \in Request : Creates(q, v)' => Owned(v)' = {}
                     /\ \A p, q \in Request : Creates(p, v)' /\ Creates(q, v)' => p = q
            <4>1. /\ \A a, b \in Owned(v) : a = b
                  /\ \A q \in Request : Creates(q, v) => Owned(v) = {}
                  /\ \A p, q \in Request : Creates(p, v) /\ Creates(q, v) => p = q
                BY <1>5 DEF WorkspaceInv, CompanyInv
            <4>2. CASE v = u
                <5>1. \A q \in Request : Creates(q, v)' => q = r
                    BY <3>2, <3>3, <4>2
                <5>2. QED
                    BY <2>5, <3>1, <4>1, <4>2, <5>1
            <4>3. CASE v # u
                BY <3>1, <3>2, <4>1, <4>3
            <4>4. QED
                BY <4>2, <4>3
        <3>5. QED
            BY <1>3, <3>4 DEF WorkspaceInv, CompanyInv
    <2>7. QED
        BY <2>4, <2>6 DEF WorkspaceInv
<1>9. CASE /\ request[r].kind # "login" /\ c # 0
           /\ request' = [request EXCEPT ![r].pc = "rights", ![r].company = c]
    <2>1. c \in DOMAIN companies /\ companies[c].owner = u
        <3>1. c \in Owned(u)
            BY <1>9, DefaultOwned DEF WorkspaceInv
        <3>2. QED
            BY <3>1 DEF Owned
    <2>2. c \in Nat /\ c <= Len(companies)
        BY <2>1, Domains DEF WorkspaceInv, Typed
    <2>3. request = [s \in Request |-> request[s]]
        BY DEF WorkspaceInv, Typed, RequestsTyped
    <2>4. /\ request' = [s \in Request |-> request'[s]]
          /\ \A s \in Request \ {r} : request'[s] = request[s]
          /\ request'[r] = [request[r] EXCEPT !.pc = "rights", !.company = c]
        BY <1>9, <2>3
    <2> HIDE DEF c
    <2>5. /\ request'[r] \in RequestRow /\ request'[r].pc = "rights"
          /\ request'[r].kind = request[r].kind /\ request'[r].user = request[r].user
          /\ request'[r].company = c /\ request'[r].of = request[r].of
        BY <1>2, <2>2, <2>4 DEF RequestRow, Steps
    <2>6. Placed(r)'
        <3>1. request'[r].kind \in KindsAt(request'[r].pc)
            BY <1>2, <1>9, <2>5 DEF KindsAt
        <3>2. request'[r].pc \notin Admitted /\ request'[r].pc \notin {"select", "save", "drop"}
            BY <2>5 DEF Admitted
        <3>3. /\ request'[r].company \in DOMAIN companies /\ request'[r].company <= Len(companies)
              /\ companies[request'[r].company].owner = request[r].user
            BY <2>1, <2>2, <2>5
        <3>4. QED
            BY <1>1, <1>2, <2>5, <3>1, <3>2, <3>3, PlacedAgain
    <2>7. QED
        BY <1>4, <1>5, <1>6, <2>4, <2>5, <2>6, Moves DEF WorkspaceInv
<1>10. QED
    BY <1>7, <1>8, <1>9 DEF FindCompany

LEMMA CheckRightsStep ==
    ASSUME WorkspaceInv, NEW r \in Request, CheckRights(r) PROVE WorkspaceInv'
<1> DEFINE Mine == Memberships(request[r].company, request[r].user)
<1>1. At(r, "rights") /\ UNCHANGED <<tables, started, faults, history>>
    BY DEF CheckRights
<1>2. /\ request[r] # Idle /\ Placed(r) /\ request[r] \in RequestRow /\ request[r].pc = "rights"
      /\ request[r].kind \in {"invite", "role", "remove"}
    BY <1>1, AtPlaced DEF KindsAt, WorkspaceInv
<1>3. /\ TablesTyped' /\ Grows /\ UNCHANGED <<revived, admitted, resigned, twice, crowded, shared, unfinished>>
      /\ Len(invites') = Len(invites) /\ UNCHANGED <<started, faults, history>>
    BY <1>1, TablesSame DEF WorkspaceInv, tables, history
<1>4. HistoryTyped'
    BY <1>3, HistorySame DEF WorkspaceInv
<1>5. ~At(r, "owner") /\ request[r].kind # "accept"
    BY <1>2 DEF At
<1>6. CASE End(r)
    <2>1. /\ request' = [s \in Request |-> request'[s]] /\ request'[r] = Idle
          /\ \A s \in Request \ {r} : request'[s] = request[s]
        BY <1>6, Ends DEF WorkspaceInv
    <2>2. QED
        BY <1>1, <1>3, <1>4, <1>5, <2>1, Moves DEF WorkspaceInv
<1>7. ASSUME NEW m \in Mine, ~End(r),
             request[r].kind = "invite" => Goto(r, "invite"),
             request[r].kind = "role" => Goto(r, "target"),
             request[r].kind = "remove" =>
                request' = [request EXCEPT ![r].pc = "target", ![r].role = members[m].role]
      PROVE  WorkspaceInv'
    <2>1. m \in DOMAIN members /\ members[m].company = request[r].company /\ members[m].role \in Role
        BY <1>7, RowsTyped DEF Memberships, WorkspaceInv, Typed, MemberRow
    <2>2. /\ request' = [s \in Request |-> request'[s]]
          /\ \A s \in Request \ {r} : request'[s] = request[s]
          /\ request'[r] # Idle /\ request'[r] \in RequestRow
          /\ request'[r].pc = IF request[r].kind = "invite" THEN "invite" ELSE "target"
          /\ request'[r].kind = request[r].kind /\ request'[r].user = request[r].user
          /\ request'[r].company = request[r].company /\ request'[r].of = request[r].of
        <3>1. CASE request[r].kind \in {"invite", "role"}
            BY <1>2, <1>7, <3>1, GoesTo DEF WorkspaceInv, Steps
        <3>2. CASE request[r].kind = "remove"
            <4>1. request = [s \in Request |-> request[s]]
                BY DEF WorkspaceInv, Typed, RequestsTyped
            <4>2. /\ request' = [s \in Request |-> request'[s]]
                  /\ \A s \in Request \ {r} : request'[s] = request[s]
                  /\ request'[r] = [request[r] EXCEPT !.pc = "target", !.role = members[m].role]
                BY <1>7, <3>2, <4>1
            <4>3. /\ request'[r] \in RequestRow /\ request'[r].pc = "target"
                  /\ request'[r].kind = request[r].kind /\ request'[r].user = request[r].user
                  /\ request'[r].company = request[r].company /\ request'[r].of = request[r].of
                BY <1>2, <2>1, <4>2 DEF RequestRow, Steps
            <4>4. request'[r] # Idle
                BY <4>3 DEF Idle
            <4>5. QED
                BY <3>2, <4>2, <4>3, <4>4
        <3>3. QED
            BY <1>2, <3>1, <3>2
    <2>3. request'[r].kind \in KindsAt(request'[r].pc)
        BY <1>2, <2>2 DEF KindsAt
    <2>4. request'[r].pc \notin Admitted \cup {"select", "save", "drop", "create", "owner", "join"}
        BY <2>2 DEF Admitted
    <2>5. /\ request[r].company \in DOMAIN companies /\ request[r].company <= Len(companies)
          /\ companies[request[r].company].owner = request[r].user
        BY <1>2 DEF Placed, InCompany
    <2>6. Placed(r)'
        BY <1>1, <1>2, <2>2, <2>3, <2>4, <2>5, PlacedAgain
    <2>7. Inhabited(request'[r].company)
        BY <2>1, <2>2 DEF Inhabited
    <2>8. QED
        BY <1>1, <1>3, <1>4, <1>5, <2>2, <2>4, <2>6, <2>7, Moves DEF WorkspaceInv
<1>8. QED
    BY <1>2, <1>6, <1>7 DEF CheckRights

LEMMA FindTargetStep ==
    ASSUME WorkspaceInv, NEW r \in Request, FindTarget(r) PROVE WorkspaceInv'
<1> DEFINE m == request[r].of
<1>1. At(r, "target") /\ UNCHANGED <<tables, started, faults, history>>
    BY DEF FindTarget
<1>2. /\ request[r] # Idle /\ Placed(r) /\ request[r] \in RequestRow /\ request[r].pc = "target"
      /\ request[r].kind \in {"role", "remove"}
    BY <1>1, AtPlaced DEF KindsAt, WorkspaceInv
<1>3. /\ TablesTyped' /\ Grows /\ UNCHANGED <<revived, admitted, resigned, twice, crowded, shared, unfinished>>
      /\ Len(invites') = Len(invites) /\ UNCHANGED <<started, faults, history>>
    BY <1>1, TablesSame DEF WorkspaceInv, tables, history
<1>4. HistoryTyped'
    BY <1>3, HistorySame DEF WorkspaceInv
<1>5. ~At(r, "owner") /\ request[r].kind # "accept"
    BY <1>2 DEF At
<1>6. CASE End(r)
    <2>1. /\ request' = [s \in Request |-> request'[s]] /\ request'[r] = Idle
          /\ \A s \in Request \ {r} : request'[s] = request[s]
        BY <1>6, Ends DEF WorkspaceInv
    <2>2. QED
        BY <1>1, <1>3, <1>4, <1>5, <2>1, Moves DEF WorkspaceInv
<1>7. ASSUME NEW pc \in {"select", "drop"}, Goto(r, pc), Found(r),
             pc = "select" => request[r].kind = "role",
             pc = "drop" => request[r].kind = "remove" /\ MayRemove(r)
      PROVE  WorkspaceInv'
    <2>1. m \in DOMAIN members /\ members[m].row /\ members[m].company = request[r].company
        BY <1>2, <1>7 DEF Found, Placed
    <2>2. /\ request' = [s \in Request |-> request'[s]]
          /\ \A s \in Request \ {r} : request'[s] = request[s]
          /\ request'[r] # Idle /\ request'[r] \in RequestRow /\ request'[r].pc = pc
          /\ request'[r].kind = request[r].kind /\ request'[r].user = request[r].user
          /\ request'[r].company = request[r].company /\ request'[r].of = request[r].of
        BY <1>2, <1>7, GoesTo DEF WorkspaceInv, Steps
    <2>3. request'[r].kind \in KindsAt(request'[r].pc)
        BY <1>2, <1>7, <2>2 DEF KindsAt
    <2>4. request'[r].pc \notin Admitted \cup {"create", "owner", "join"}
        BY <2>2 DEF Admitted
    <2>5. /\ request[r].company \in DOMAIN companies /\ request[r].company <= Len(companies)
          /\ companies[request[r].company].owner = request[r].user
        BY <1>2 DEF Placed, InCompany
    <2>6. pc = "drop" => members[m].user # request[r].user
        BY <1>7 DEF MayRemove
    <2>7. Placed(r)'
        BY <1>1, <1>2, <2>1, <2>2, <2>3, <2>4, <2>5, <2>6, PlacedAgain
    <2>8. Inhabited(request'[r].company)
        BY <2>1, <2>2 DEF Inhabited
    <2>9. /\ Typed' /\ CompanyInv' /\ EmptyInv' /\ JoinInv' /\ InviteInv' /\ OwnerStays'
        BY <1>1, <1>3, <1>4, <1>5, <2>2, <2>4, <2>7, <2>8, Moves
    \* The member to be saved has just been found.
    <2>10. ReturnInv'
        <3>1. members' = members /\ companies' = companies /\ users' = users /\ revived' = revived
            BY <1>1, <1>3 DEF tables
        <3>2. ASSUME NEW s \in Request, NEW n \in DOMAIN members, Saves(s, n)',
                     ~members[n].row \/ (At(s, "save") /\ request[s].gone)'
              PROVE  Lost(n)
            <4>1. CASE s = r
                BY <2>1, <2>2, <3>2, <4>1 DEF Saves, At
            <4>2. CASE s # r
                BY <2>2, <3>2, <4>2 DEF Saves, At, WorkspaceInv, ReturnInv
            <4>3. QED
                BY <4>1, <4>2
        <3>3. QED
            BY <3>1, <3>2 DEF ReturnInv, Lost, Refused
    <2>11. QED
        BY <2>9, <2>10 DEF WorkspaceInv
<1>8. QED
    BY <1>2, <1>6, <1>7 DEF FindTarget

LEMMA SelectTargetStep ==
    ASSUME WorkspaceInv, NEW r \in Request, SelectTarget(r) PROVE WorkspaceInv'
<1> DEFINE m == request[r].of
<1>1. At(r, "select") /\ UNCHANGED <<tables, started, faults, history>>
    BY DEF SelectTarget
<1>2. /\ request[r] # Idle /\ Placed(r) /\ request[r] \in RequestRow /\ request[r].pc = "select"
      /\ request[r].kind = "role"
    BY <1>1, AtPlaced DEF KindsAt, WorkspaceInv
<1>3. /\ TablesTyped' /\ Grows /\ UNCHANGED <<revived, admitted, resigned, twice, crowded, shared, unfinished>>
      /\ Len(invites') = Len(invites) /\ UNCHANGED <<started, faults, history>>
    BY <1>1, TablesSame DEF WorkspaceInv, tables, history
<1>4. HistoryTyped'
    BY <1>3, HistorySame DEF WorkspaceInv
<1>5. ~At(r, "owner") /\ request[r].kind # "accept"
    BY <1>2 DEF At
<1>6. m \in DOMAIN members /\ members[m].row \in BOOLEAN /\ members[m].company = request[r].company
    BY <1>2, RowsTyped DEF Placed, WorkspaceInv, Typed, MemberRow
<1>7. request = [s \in Request |-> request[s]]
    BY DEF WorkspaceInv, Typed, RequestsTyped
<1>8. /\ request' = [s \in Request |-> request'[s]]
      /\ \A s \in Request \ {r} : request'[s] = request[s]
      /\ request'[r] = [request[r] EXCEPT !.pc = "save", !.gone = ~members[m].row]
    BY <1>7 DEF SelectTarget
<1>9. /\ request'[r] \in RequestRow /\ request'[r].pc = "save" /\ request'[r].gone = ~members[m].row
      /\ request'[r].kind = "role" /\ request'[r].user = request[r].user
      /\ request'[r].company = request[r].company /\ request'[r].of = m
    BY <1>2, <1>6, <1>8 DEF RequestRow, Steps
<1>10. request'[r] # Idle
    BY <1>9 DEF Idle
<1>11. request'[r].kind \in KindsAt(request'[r].pc)
    BY <1>9 DEF KindsAt
<1>12. request'[r].pc \notin Admitted \cup {"create", "owner", "join"}
    BY <1>9 DEF Admitted
<1>13. /\ request[r].company \in DOMAIN companies /\ request[r].company <= Len(companies)
       /\ companies[request[r].company].owner = request[r].user
    BY <1>2 DEF Placed, InCompany
<1>14. Placed(r)'
    BY <1>1, <1>2, <1>6, <1>9, <1>11, <1>12, <1>13, PlacedAgain
<1>15. Inhabited(request'[r].company)
    BY <1>6, <1>9 DEF Inhabited
<1>16. /\ Typed' /\ CompanyInv' /\ EmptyInv' /\ JoinInv' /\ InviteInv' /\ OwnerStays'
    BY <1>1, <1>3, <1>4, <1>5, <1>8, <1>9, <1>12, <1>14, <1>15, Moves
\* What it finds gone had gone before, so it was lost.
<1>17. ReturnInv'
    <2>1. members' = members /\ companies' = companies /\ users' = users /\ revived' = revived
        BY <1>1, <1>3 DEF tables
    <2>2. ASSUME NEW s \in Request, NEW n \in DOMAIN members, Saves(s, n)',
                 ~members[n].row \/ (At(s, "save") /\ request[s].gone)'
          PROVE  Lost(n)
        <3>1. CASE s = r
            <4>1. n = m /\ ~members[m].row /\ Saves(r, m)
                BY <1>2, <1>9, <2>2, <3>1 DEF Saves, At
            <4>2. QED
                BY <1>6, <4>1 DEF WorkspaceInv, ReturnInv
        <3>2. CASE s # r
            BY <1>8, <2>2, <3>2 DEF Saves, At, WorkspaceInv, ReturnInv
        <3>3. QED
            BY <3>1, <3>2
    <2>3. QED
        BY <2>1, <2>2 DEF ReturnInv, Lost, Refused
<1>18. QED
    BY <1>16, <1>17 DEF WorkspaceInv

LEMMA FindMemberStep ==
    ASSUME WorkspaceInv, NEW r \in Request, FindMember(r) PROVE WorkspaceInv'
<1> DEFINE c == request[r].company
           u == request[r].user
<1>1. /\ At(r, "known") /\ UNCHANGED <<tables, started, faults, twice, shared, revived, admitted, resigned,
                                       unfinished>>
      /\ IF Memberships(c, u) = {} THEN Goto(r, "join") ELSE End(r)
      /\ crowded' = IF \E q \in Others(r) : /\ At(q, "join") \/ At(q, "owner")
                                            /\ request[q].user = u /\ request[q].company = c
                    THEN crowded \cup {<<u, c>>} ELSE crowded
    BY DEF FindMember
<1>2. /\ request[r] # Idle /\ Placed(r) /\ request[r] \in RequestRow /\ request[r].pc = "known"
      /\ request[r].kind = "accept" /\ u \in User
    BY <1>1, AtPlaced DEF KindsAt, RequestRow, WorkspaceInv
<1>3. /\ request[r].of \in DOMAIN invites /\ c = invites[request[r].of].company /\ c <= Len(companies)
    BY <1>2 DEF Placed, Admitted
<1>4. c \in DOMAIN companies
    BY <1>3, RowsTyped DEF WorkspaceInv, Typed
<1>5. users' = users /\ companies' = companies /\ members' = members /\ invites' = invites
    BY <1>1 DEF tables
<1>6. HistoryTyped'
    <2>1. crowded' \subseteq User \X DOMAIN companies
        BY <1>1, <1>2, <1>4 DEF WorkspaceInv, Typed, HistoryTyped
    <2>2. QED
        BY <1>1, <1>5, <2>1 DEF WorkspaceInv, Typed, HistoryTyped
<1>7. /\ twice \subseteq twice' /\ crowded \subseteq crowded' /\ shared \subseteq shared'
      /\ unfinished \subseteq unfinished' /\ UNCHANGED <<tables, revived, admitted, resigned>>
      /\ TablesTyped' /\ Grows
    BY <1>1, TablesSame DEF WorkspaceInv
<1>8. ~At(r, "owner")
    BY <1>2 DEF At
<1>9. /\ request' = [s \in Request |-> request'[s]]
      /\ \A s \in Request \ {r} : request'[s] = request[s]
      /\ \/ request'[r] = Idle
         \/ /\ request'[r] # Idle /\ request'[r] \in RequestRow /\ request'[r].pc = "join"
            /\ request'[r].kind = request[r].kind /\ request'[r].user = request[r].user
            /\ request'[r].company = request[r].company /\ request'[r].of = request[r].of
            /\ Memberships(c, u) = {}
    <2>1. CASE Memberships(c, u) = {}
        BY <1>1, <1>2, <2>1, GoesTo DEF WorkspaceInv, Steps
    <2>2. CASE Memberships(c, u) # {}
        BY <1>1, <2>2, Ends DEF WorkspaceInv
    <2>3. QED
        BY <2>1, <2>2
<1>10. request'[r] = Idle \/ Placed(r)'
    <2>1. CASE request'[r] # Idle
        <3>1. request'[r].kind \in KindsAt(request'[r].pc)
            BY <1>2, <1>9, <2>1 DEF KindsAt
        <3>2. request'[r].pc \notin InCompany /\ request'[r].pc \notin {"select", "save", "drop"}
            BY <1>9, <2>1 DEF InCompany
        <3>3. QED
            BY <1>1, <1>2, <1>3, <1>9, <2>1, <3>1, <3>2, PlacedAgain
    <2>2. QED
        BY <2>1
<1>11. request'[r] = Idle \/ (request'[r].pc = "join" /\ Inhabited(request'[r].company))
    BY <1>3, <1>9 DEF Inhabited
<1>12. Typed' /\ CompanyInv' /\ EmptyInv' /\ ReturnInv' /\ OwnerStays'
    BY <1>6, <1>7, <1>8, <1>9, <1>10, <1>11, Moves
<1>13. InviteInv'
    <2>1. ASSUME NEW i, NEW s \in Request
          PROVE  /\ Accepts(s, i)' => Accepts(s, i) /\ (At(s, "done")' <=> At(s, "done"))
                 /\ Accepts(s, i) /\ At(s, "done") => Accepts(s, i)'
        <3>1. CASE s = r
            BY <1>2, <1>9, <3>1 DEF Accepts, At
        <3>2. CASE s # r
            BY <1>9, <3>2 DEF Accepts, At
        <3>3. QED
            BY <3>1, <3>2
    <2>2. QED
        BY <1>1, <1>5, <1>7, <2>1, InviteKeeps DEF WorkspaceInv
\* It joins where it has found no membership, and nobody else was about to.
<1>14. JoinInv'
    <2>1. ASSUME NEW v, NEW d PROVE Memberships(d, v)' = Memberships(d, v)
        BY <1>5 DEF Memberships
    <2>2. ASSUME NEW q \in Request, NEW d, NEW v, Joins(q, d, v)'
          PROVE  Joins(q, d, v) \/ (q = r /\ d = c /\ v = u /\ Memberships(c, u) = {})
        <3>1. CASE q = r
            BY <1>9, <2>2, <3>1 DEF Joins, At
        <3>2. CASE q # r
            BY <1>9, <2>2, <3>2 DEF Joins, At
        <3>3. QED
            BY <3>1, <3>2
    <2>3. <<u, c>> \notin crowded' => ~\E q \in Request \ {r} : Joins(q, c, u)
        BY <1>1 DEF Joins, Others, At
    <2>4. ASSUME NEW v \in User, NEW d \in DOMAIN companies, <<v, d>> \notin crowded'
          PROVE  /\ \A m, n \in Memberships(d, v)' \ revived' : m = n
                 /\ \A q \in Request : Joins(q, d, v)' => Memberships(d, v)' \ revived' = {}
                 /\ \A p, q \in Request : Joins(p, d, v)' /\ Joins(q, d, v)' => p = q
        <3>1. /\ \A m, n \in Memberships(d, v) \ revived : m = n
              /\ \A q \in Request : Joins(q, d, v) => Memberships(d, v) \ revived = {}
              /\ \A p, q \in Request : Joins(p, d, v) /\ Joins(q, d, v) => p = q
            BY <1>7, <2>4 DEF WorkspaceInv, JoinInv
        <3>2. CASE v = u /\ d = c
            <4>1. \A q \in Request : Joins(q, d, v)' => q = r \/ Joins(q, c, u)
                BY <2>2, <3>2
            <4>2. \A q \in Request : Joins(q, d, v)' => q = r
                BY <2>3, <2>4, <3>2, <4>1
            <4>3. \A q \in Request : Joins(q, d, v)' => Memberships(d, v) \ revived = {}
                BY <2>2, <3>1
            <4>4. QED
                BY <1>1, <2>1, <3>1, <4>2, <4>3
        <3>3. CASE v # u \/ d # c
            BY <1>1, <2>1, <2>2, <3>1, <3>3
        <3>4. QED
            BY <3>2, <3>3
    <2>5. QED
        BY <1>5, <2>4 DEF JoinInv
<1>15. QED
    BY <1>12, <1>13, <1>14 DEF WorkspaceInv

LEMMA FindInviteStep ==
    ASSUME WorkspaceInv, NEW r \in Request, FindInvite(r) PROVE WorkspaceInv'
<1> DEFINE i == request[r].of
<1>1. /\ At(r, "find") /\ UNCHANGED <<tables, started, faults, twice, crowded, revived, admitted, resigned,
                                      unfinished>>
      /\ IF invites[i].row /\ ~invites[i].expired
         THEN request' = [request EXCEPT ![r].pc = "known", ![r].company = invites[i].company]
         ELSE End(r)
      /\ shared' = IF \E q \in Others(r) : /\ request[q].kind = "accept" /\ request[q].of = i
                                           /\ ~At(q, "find")
                   THEN shared \cup {i} ELSE shared
    BY DEF FindInvite
<1>2. /\ request[r] # Idle /\ Placed(r) /\ request[r] \in RequestRow /\ request[r].pc = "find"
      /\ request[r].kind = "accept"
    BY <1>1, AtPlaced DEF KindsAt, WorkspaceInv
<1>3. i \in DOMAIN invites /\ invites[i].company \in DOMAIN companies /\ invites[i].company \in Nat
    BY <1>2, RowsTyped DEF Placed, WorkspaceInv, Typed, InviteRow
<1>4. users' = users /\ companies' = companies /\ members' = members /\ invites' = invites
    BY <1>1 DEF tables
<1>5. HistoryTyped'
    <2>1. shared' \subseteq DOMAIN invites
        BY <1>1, <1>3 DEF WorkspaceInv, Typed, HistoryTyped
    <2>2. QED
        BY <1>1, <1>4, <2>1 DEF WorkspaceInv, Typed, HistoryTyped
<1>6. /\ twice \subseteq twice' /\ crowded \subseteq crowded' /\ shared \subseteq shared'
      /\ unfinished \subseteq unfinished' /\ UNCHANGED <<tables, revived, admitted, resigned>>
      /\ TablesTyped' /\ Grows
    BY <1>1, TablesSame DEF WorkspaceInv
<1>7. ~At(r, "owner")
    BY <1>2 DEF At
<1>8. request = [s \in Request |-> request[s]]
    BY DEF WorkspaceInv, Typed, RequestsTyped
<1>9. /\ request' = [s \in Request |-> request'[s]]
      /\ \A s \in Request \ {r} : request'[s] = request[s]
      /\ \/ request'[r] = Idle
         \/ /\ request'[r] = [request[r] EXCEPT !.pc = "known", !.company = invites[i].company]
            /\ invites[i].row
    <2>1. CASE invites[i].row /\ ~invites[i].expired
        BY <1>1, <1>8, <2>1
    <2>2. CASE ~(invites[i].row /\ ~invites[i].expired)
        BY <1>1, <2>2, Ends DEF WorkspaceInv
    <2>3. QED
        BY <2>1, <2>2
<1>10. \/ request'[r] = Idle
       \/ /\ request'[r] \in RequestRow /\ request'[r].pc = "known" /\ request'[r].kind = "accept"
          /\ request'[r].user = request[r].user /\ request'[r].of = i
          /\ request'[r].company = invites[i].company /\ invites[i].row
    <2>1. CASE request'[r] = [request[r] EXCEPT !.pc = "known", !.company = invites[i].company]
               /\ invites[i].row
        <3> DEFINE c == invites[i].company
        <3>1. c \in Nat /\ request'[r] = [request[r] EXCEPT !.pc = "known", !.company = c]
            BY <1>3, <2>1
        <3> HIDE DEF c
        <3>2. /\ request'[r] \in RequestRow /\ request'[r].pc = "known" /\ request'[r].kind = "accept"
              /\ request'[r].user = request[r].user /\ request'[r].of = i
              /\ request'[r].company = c
            BY <1>2, <3>1 DEF RequestRow, Steps
        <3>3. QED
            BY <2>1, <3>2 DEF c
    <2>2. QED
        BY <1>9, <2>1
<1>11. request'[r] = Idle \/ Placed(r)'
    <2>1. CASE request'[r] # Idle
        <3>1. request'[r].kind \in KindsAt(request'[r].pc)
            BY <1>10, <2>1 DEF KindsAt
        <3>2. request'[r].pc \notin InCompany /\ request'[r].pc \notin {"select", "save", "drop"}
            BY <1>10, <2>1 DEF InCompany
        <3>3. invites[i].company <= Len(companies)
            BY <1>3, Domains DEF WorkspaceInv, Typed
        <3>4. QED
            BY <1>1, <1>2, <1>10, <2>1, <3>1, <3>2, <3>3, PlacedAgain
    <2>2. QED
        BY <2>1
<1>12. request'[r] = Idle \/ (request'[r].pc = "known" /\ Inhabited(request'[r].company))
    BY <1>3, <1>10 DEF Inhabited
<1>13. Typed' /\ CompanyInv' /\ EmptyInv' /\ ReturnInv' /\ JoinInv' /\ OwnerStays'
    BY <1>5, <1>6, <1>7, <1>9, <1>11, <1>12, Moves
\* An invitation that is still there has admitted nobody who is not about to remove it.
<1>14. InviteInv'
    <2>1. ASSUME NEW s \in Request, NEW j
          PROVE  /\ Accepts(s, j)' => Accepts(s, j) \/ (s = r /\ j = i /\ invites[i].row)
                 /\ At(s, "done")' <=> At(s, "done")
                 /\ Accepts(s, j) => Accepts(s, j)'
        <3>1. CASE s = r
            BY <1>2, <1>10, <3>1 DEF Accepts, At, Idle
        <3>2. CASE s # r
            BY <1>9, <3>2 DEF Accepts, At
        <3>3. QED
            BY <3>1, <3>2
    <2>2. i \notin shared' => ~\E q \in Request \ {r} : Accepts(q, i)
        BY <1>1 DEF Others, Accepts
    <2>3. ASSUME NEW j \in DOMAIN invites \ shared'
          PROVE  /\ \A q, s \in Request : Accepts(q, j)' /\ Accepts(s, j)' => q = s
                 /\ \A s \in Request : Accepts(s, j)' /\ ~At(s, "done")' => admitted[j] = {}
                 /\ admitted[j] # {} /\ invites[j].row => \E s \in Request : Accepts(s, j)' /\ At(s, "done")'
                 /\ \A u, v \in admitted[j] : u = v
        <3>1. /\ \A q, s \in Request : Accepts(q, j) /\ Accepts(s, j) => q = s
              /\ \A s \in Request : Accepts(s, j) /\ ~At(s, "done") => admitted[j] = {}
              /\ admitted[j] # {} /\ invites[j].row => \E s \in Request : Accepts(s, j) /\ At(s, "done")
              /\ \A u, v \in admitted[j] : u = v
            BY <1>6 DEF WorkspaceInv, InviteInv
        <3>2. CASE j # i
            BY <2>1, <3>1, <3>2
        <3>3. CASE j = i
            <4>1. \A q \in Request : Accepts(q, j)' => q = r
                BY <2>1, <2>2, <3>3
            <4>2. ~At(r, "done")
                BY <1>2 DEF At
            <4>3. ASSUME Accepts(r, j)' PROVE admitted[j] = {}
                <5>1. invites[j].row
                    BY <1>10, <3>3, <4>3 DEF Accepts
                <5>2. ~\E s \in Request : Accepts(s, j) /\ At(s, "done")
                    BY <2>2, <3>3, <4>2
                <5>3. QED
                    BY <3>1, <5>1, <5>2
            <4>4. QED
                BY <2>1, <3>1, <4>1, <4>3
        <3>4. QED
            BY <3>2, <3>3
    <2>4. QED
        BY <1>1, <1>4, <2>3 DEF InviteInv
<1>15. QED
    BY <1>13, <1>14 DEF WorkspaceInv

-------------------------------------------------------------------------------
(* Steps that write the tables.                                              *)

\* One row of a table changes.
LEMMA RowChanges ==
    ASSUME NEW S, NEW q \in Seq(S), NEW i \in DOMAIN q, NEW v \in S
    PROVE  /\ [q EXCEPT ![i] = v] \in Seq(S) /\ Len([q EXCEPT ![i] = v]) = Len(q)
           /\ DOMAIN [q EXCEPT ![i] = v] = DOMAIN q
           /\ \A j \in DOMAIN q : [q EXCEPT ![i] = v][j] = IF j = i THEN v ELSE q[j]
OBVIOUS

LEMMA MembersChange ==
    ASSUME TablesTyped, UNCHANGED <<users, companies, invites>>, NEW m \in DOMAIN members,
           NEW v \in MemberRow, v.company = members[m].company, v.user = members[m].user,
           members' = [members EXCEPT ![m] = v]
    PROVE  /\ TablesTyped' /\ Grows /\ Len(members') = Len(members) /\ DOMAIN members' = DOMAIN members
           /\ \A n \in DOMAIN members : members'[n] = IF n = m THEN v ELSE members[n]
<1>1. members \in Seq(MemberRow)
    BY DEF TablesTyped
<1>2. /\ members' \in Seq(MemberRow) /\ Len(members') = Len(members) /\ DOMAIN members' = DOMAIN members
      /\ \A n \in DOMAIN members : members'[n] = IF n = m THEN v ELSE members[n]
    BY <1>1, RowChanges
<1>3. \A n \in DOMAIN members : members'[n].company = members[n].company /\ members'[n].user = members[n].user
    BY <1>2
<1>4. TablesTyped'
    BY <1>2, <1>3 DEF TablesTyped
<1>5. Grows
    BY <1>2, <1>3, Domains DEF Grows
<1>6. QED
    BY <1>2, <1>4, <1>5

LEMMA InvitesChange ==
    ASSUME TablesTyped, UNCHANGED <<users, companies, members>>, NEW i \in DOMAIN invites,
           NEW v \in InviteRow, v.company = invites[i].company, v.row => invites[i].row,
           invites' = [invites EXCEPT ![i] = v]
    PROVE  /\ TablesTyped' /\ Grows /\ Len(invites') = Len(invites) /\ DOMAIN invites' = DOMAIN invites
           /\ \A j \in DOMAIN invites : invites'[j] = IF j = i THEN v ELSE invites[j]
<1>1. invites \in Seq(InviteRow)
    BY DEF TablesTyped
<1>2. /\ invites' \in Seq(InviteRow) /\ Len(invites') = Len(invites) /\ DOMAIN invites' = DOMAIN invites
      /\ \A j \in DOMAIN invites : invites'[j] = IF j = i THEN v ELSE invites[j]
    BY <1>1, RowChanges
<1>3. \A j \in DOMAIN invites : /\ invites'[j].company = invites[j].company
                                /\ invites'[j].row => invites[j].row
    BY <1>2
<1>4. TablesTyped'
    BY <1>2, <1>3 DEF TablesTyped
<1>5. Grows
    BY <1>2, <1>3, Domains DEF Grows
<1>6. QED
    BY <1>2, <1>4, <1>5

LEMMA InviteExpiresStep ==
    ASSUME WorkspaceInv, NEW i \in DOMAIN invites, InviteExpires(i) PROVE WorkspaceInv'
<1>1. /\ invites' = [invites EXCEPT ![i].expired = TRUE]
      /\ UNCHANGED <<users, companies, members, request, started, faults, history>>
    BY DEF InviteExpires
<1>2. TablesTyped /\ RequestsTyped /\ invites[i] \in InviteRow
    BY RowsTyped DEF WorkspaceInv, Typed
<1>3. PICK v \in InviteRow : /\ invites' = [invites EXCEPT ![i] = v]
                             /\ v.company = invites[i].company /\ v.row = invites[i].row
    <2> DEFINE v == [invites[i] EXCEPT !.expired = TRUE]
    <2>1. v \in InviteRow /\ v.company = invites[i].company /\ v.row = invites[i].row
        BY <1>2 DEF InviteRow
    <2>2. invites' = [invites EXCEPT ![i] = v]
        BY <1>1
    <2> HIDE DEF v
    <2>3. QED
        BY <2>1, <2>2
<1>4. TablesTyped' /\ Grows /\ Len(invites') = Len(invites) /\ DOMAIN invites' = DOMAIN invites
    BY <1>1, <1>2, <1>3, InvitesChange
<1>5. \A j \in DOMAIN invites : invites'[j].company = invites[j].company
    BY <1>4 DEF Grows
<1>6. HistoryTyped'
    BY <1>1, <1>4, HistorySame DEF WorkspaceInv
<1>7. \A s \in Request : request'[s] = request[s]
    BY <1>1
<1>8. request' = [s \in Request |-> request'[s]]
    BY <1>1, <1>2 DEF RequestsTyped
<1>9. Typed'
    BY <1>4, <1>6, <1>7, <1>8, TypedStep DEF WorkspaceInv
<1>10. UNCHANGED <<twice, crowded, shared, revived, admitted, resigned, unfinished>>
    BY <1>1 DEF history
<1>11. \A pcs : Calm(pcs)
    BY <1>7 DEF Calm
<1>12. CompanyInv'
    BY <1>1, <1>10, <1>11, CompanyKeeps DEF WorkspaceInv
<1>13. EmptyInv'
    <2>1. /\ \A m \in DOMAIN members' : Inhabited(members'[m].company)
          /\ \A j \in DOMAIN invites' : Inhabited(invites'[j].company)
        BY <1>1, <1>4, <1>5 DEF Inhabited
    <2>2. QED
        BY <1>7, <1>11, <2>1, EmptyKeeps DEF WorkspaceInv
<1>14. ReturnInv' /\ JoinInv' /\ OwnerStays'
    BY <1>1, <1>4, <1>7, <1>10, <1>11, ReturnKeeps, JoinKeeps, OwnerKeeps DEF WorkspaceInv
<1>15. InviteInv'
    <2>1. \A s \in Request : \A j : /\ Accepts(s, j)' <=> Accepts(s, j)
                                    /\ At(s, "done")' <=> At(s, "done")
        BY <1>7 DEF Accepts, At
    <2>2. QED
        BY <1>4, <1>10, <2>1, InviteKeeps DEF WorkspaceInv
<1>16. QED
    BY <1>9, <1>12, <1>13, <1>14, <1>15 DEF WorkspaceInv

LEMMA RemoveInviteStep ==
    ASSUME WorkspaceInv, NEW r \in Request, RemoveInvite(r) PROVE WorkspaceInv'
<1> DEFINE i == request[r].of
<1>1. /\ At(r, "done") /\ invites' = [invites EXCEPT ![i].row = FALSE] /\ End(r)
      /\ UNCHANGED <<users, companies, members, started, faults, history>>
    BY DEF RemoveInvite
<1>2. /\ request[r] # Idle /\ Placed(r) /\ request[r].pc = "done" /\ request[r].kind = "accept"
    BY <1>1, AtPlaced DEF KindsAt, WorkspaceInv
<1>3. TablesTyped /\ i \in DOMAIN invites /\ invites[i] \in InviteRow
    BY <1>2, RowsTyped DEF WorkspaceInv, Typed, Placed
<1>4. PICK v \in InviteRow : /\ invites' = [invites EXCEPT ![i] = v]
                             /\ v.company = invites[i].company /\ ~v.row
    <2> DEFINE v == [invites[i] EXCEPT !.row = FALSE]
    <2>1. v \in InviteRow /\ v.company = invites[i].company /\ ~v.row
        BY <1>3 DEF InviteRow
    <2>2. invites' = [invites EXCEPT ![i] = v]
        BY <1>1
    <2> HIDE DEF v
    <2>3. QED
        BY <2>1, <2>2
<1>5. TablesTyped' /\ Grows /\ Len(invites') = Len(invites) /\ DOMAIN invites' = DOMAIN invites
      /\ \A j \in DOMAIN invites : invites'[j] = IF j = i THEN v ELSE invites[j]
    BY <1>1, <1>3, <1>4, InvitesChange
<1>6. ~invites'[i].row /\ \A j \in DOMAIN invites : invites'[j].company = invites[j].company
    BY <1>3, <1>4, <1>5
<1>7. HistoryTyped'
    BY <1>1, <1>5, HistorySame DEF WorkspaceInv
<1>8. /\ request' = [s \in Request |-> request'[s]] /\ request'[r] = Idle
      /\ \A s \in Request \ {r} : request'[s] = request[s]
    BY <1>1, Ends DEF WorkspaceInv
<1>9. Typed'
    BY <1>5, <1>7, <1>8, TypedStep DEF WorkspaceInv
<1>10. UNCHANGED <<twice, crowded, shared, revived, admitted, resigned, unfinished>>
    BY <1>1 DEF history
<1>11. \A pcs : Calm(pcs)
    BY <1>8 DEF Calm
<1>12. CompanyInv'
    BY <1>1, <1>10, <1>11, CompanyKeeps DEF WorkspaceInv
<1>13. EmptyInv'
    <2>1. /\ \A m \in DOMAIN members' : Inhabited(members'[m].company)
          /\ \A j \in DOMAIN invites' : Inhabited(invites'[j].company)
        BY <1>1, <1>5, <1>6 DEF Inhabited
    <2>2. QED
        BY <1>8, <1>11, <2>1, EmptyKeeps DEF WorkspaceInv
<1>14. ReturnInv' /\ JoinInv'
    BY <1>1, <1>5, <1>10, <1>11, ReturnKeeps, JoinKeeps DEF WorkspaceInv
<1>15. OwnerStays'
    <2>1. \A s \in Request : request'[s] = request[s] \/ ~At(s, "owner")
        BY <1>2, <1>8 DEF At
    <2>2. QED
        BY <1>1, <1>5, <1>10, <2>1, OwnerKeeps DEF WorkspaceInv
<1>16. InviteInv'
    <2>1. ASSUME NEW j, NEW s \in Request
          PROVE  /\ Accepts(s, j)' => Accepts(s, j) /\ (At(s, "done")' <=> At(s, "done"))
                 /\ Accepts(s, j) /\ At(s, "done") => Accepts(s, j)' \/ ~invites'[j].row
        <3>1. CASE s = r
            BY <1>6, <1>8, <3>1 DEF Accepts
        <3>2. CASE s # r
            BY <1>8, <3>2 DEF Accepts, At
        <3>3. QED
            BY <3>1, <3>2
    <2>2. QED
        BY <1>5, <1>10, <2>1, InviteKeeps DEF WorkspaceInv
<1>17. QED
    BY <1>9, <1>12, <1>13, <1>14, <1>15, <1>16 DEF WorkspaceInv

\* A request other than an accept's that ends, and what it leaves of the invariant alone.
LEMMA EndsQuietly ==
    ASSUME WorkspaceInv, NEW r \in Request, TablesTyped', Grows, HistoryTyped',
           request' = [s \in Request |-> request'[s]], request'[r] = Idle,
           \A s \in Request \ {r} : request'[s] = request[s],
           request[r] # Idle, request[r].kind # "accept", shared' = shared
    PROVE  /\ Typed'
           /\ \A pcs : Calm(pcs)
           /\ admitted' = admitted /\ Len(invites') = Len(invites) => InviteInv'
<1>1. Typed'
    BY TypedStep DEF WorkspaceInv
<1>2. \A pcs : Calm(pcs)
    BY DEF Calm
<1>3. ASSUME admitted' = admitted, Len(invites') = Len(invites) PROVE InviteInv'
    BY <1>3, NotAccepting, InviteKeeps DEF WorkspaceInv
<1>4. QED
    BY <1>1, <1>2, <1>3

LEMMA SaveTargetStep ==
    ASSUME WorkspaceInv, NEW r \in Request, SaveTarget(r) PROVE WorkspaceInv'
<1> DEFINE m == request[r].of
           was == members[m]
<1>1. /\ At(r, "save") /\ End(r)
      /\ members' = IF ~request[r].gone THEN [members EXCEPT ![m].role = IF was.row THEN request[r].role ELSE @]
                    ELSE IF was.row \/ Refused(was.company, was.user) THEN members
                    ELSE [members EXCEPT ![m].row = TRUE, ![m].role = request[r].role]
      /\ resigned' = IF was.user = request[r].user THEN resigned \cup {was.company} ELSE resigned
      /\ UNCHANGED <<users, companies, invites, started, faults, twice, crowded, shared, revived, admitted,
                     unfinished>>
    BY DEF SaveTarget
<1>2. /\ request[r] # Idle /\ Placed(r) /\ request[r] \in RequestRow /\ request[r].pc = "save"
      /\ request[r].kind = "role" /\ request[r].role \in Role
    BY <1>1, AtPlaced DEF KindsAt, WorkspaceInv, RequestRow
<1>3. /\ m \in DOMAIN members /\ was.company = request[r].company
      /\ request[r].company \in DOMAIN companies /\ companies[was.company].owner = request[r].user
    BY <1>2 DEF Placed, InCompany
<1>4. TablesTyped /\ was \in MemberRow /\ members \in Seq(MemberRow)
    BY <1>3, RowsTyped DEF WorkspaceInv, Typed, TablesTyped
\* A membership that comes back had been lost.
<1>5. request[r].gone /\ ~was.row => m \in revived \/ Refused(was.company, was.user)
    <2>1. Saves(r, m)
        BY <1>2 DEF Saves
    <2>2. QED
        BY <1>1, <1>3, <2>1 DEF WorkspaceInv, ReturnInv, Lost
<1>6. PICK v \in MemberRow : /\ members' = [members EXCEPT ![m] = v]
                             /\ v.company = was.company /\ v.user = was.user /\ (was.row => v.row)
                             /\ v.row => was.row \/ m \in revived
    <2>1. members = [members EXCEPT ![m] = was]
        BY <1>4
    <2> DEFINE role == IF was.row THEN request[r].role ELSE was.role
               changed == [was EXCEPT !.role = role]
               back == [was EXCEPT !.row = TRUE, !.role = request[r].role]
    <2>2. changed \in MemberRow /\ changed.company = was.company /\ changed.user = was.user /\ changed.row = was.row
        <3>1. role \in Role
            BY <1>2, <1>4 DEF MemberRow
        <3> HIDE DEF role
        <3>2. QED
            BY <1>4, <3>1 DEF MemberRow
    <2>3. back \in MemberRow /\ back.company = was.company /\ back.user = was.user /\ back.row
        BY <1>2, <1>4 DEF MemberRow
    <2>4. CASE ~request[r].gone
        <3>1. members' = [members EXCEPT ![m] = changed]
            BY <1>1, <2>4
        <3> HIDE DEF changed
        <3>2. QED
            BY <2>2, <3>1
    <2>5. CASE request[r].gone /\ (was.row \/ Refused(was.company, was.user))
        <3>1. members' = [members EXCEPT ![m] = was]
            BY <1>1, <2>1, <2>5
        <3> HIDE DEF was
        <3>2. QED
            BY <1>4, <3>1
    <2>6. CASE request[r].gone /\ ~was.row /\ ~Refused(was.company, was.user)
        <3>1. members' = [members EXCEPT ![m] = back]
            BY <1>1, <2>6
        <3>2. m \in revived
            BY <1>5, <2>6
        <3> HIDE DEF back
        <3>3. QED
            BY <2>3, <2>6, <3>1, <3>2
    <2>7. QED
        BY <2>4, <2>5, <2>6
<1>7. TablesTyped' /\ Grows /\ Len(members') = Len(members) /\ DOMAIN members' = DOMAIN members
      /\ \A n \in DOMAIN members : members'[n] = IF n = m THEN v ELSE members[n]
    BY <1>1, <1>3, <1>4, <1>6, MembersChange
<1>8. \A n \in DOMAIN members : /\ members'[n].company = members[n].company
                                /\ members[n].row => members'[n].row
                                /\ members'[n].row => members[n].row \/ n \in revived
                                /\ n # m => members'[n] = members[n]
    BY <1>6, <1>7
<1>9. resigned \subseteq resigned' /\ resigned' \subseteq DOMAIN companies
    BY <1>1, <1>3 DEF WorkspaceInv, Typed, HistoryTyped
<1>10. HistoryTyped'
    BY <1>1, <1>7, <1>9 DEF WorkspaceInv, Typed, HistoryTyped
<1>11. /\ request' = [s \in Request |-> request'[s]] /\ request'[r] = Idle
       /\ \A s \in Request \ {r} : request'[s] = request[s]
    BY <1>1, Ends DEF WorkspaceInv
<1>12. Typed' /\ (\A pcs : Calm(pcs)) /\ InviteInv'
    BY <1>1, <1>2, <1>7, <1>10, <1>11, EndsQuietly
<1>13. CompanyInv'
    BY <1>1, <1>12, CompanyKeeps DEF WorkspaceInv
<1>14. EmptyInv'
    <2>1. /\ \A n \in DOMAIN members' : Inhabited(members'[n].company)
          /\ \A j \in DOMAIN invites' : Inhabited(invites'[j].company)
        BY <1>1, <1>7, <1>8 DEF Inhabited
    <2>2. QED
        BY <1>11, <1>12, <2>1, EmptyKeeps DEF WorkspaceInv
<1>15. ReturnInv' /\ JoinInv'
    BY <1>1, <1>7, <1>8, <1>12, ReturnKeeps, JoinKeeps DEF WorkspaceInv
\* The role that changes is another's than the owner's, or the owner has resigned.
<1>16. OwnerStays'
    <2>1. \A s \in Request : request'[s] = request[s] \/ ~At(s, "owner")
        BY <1>2, <1>11 DEF At
    <2>2. ASSUME NEW n \in DOMAIN members, members[n].row /\ members[n].role = "Owner",
                 members[n].user = companies[members[n].company].owner
          PROVE  (members'[n].row /\ members'[n].role = "Owner") \/ members[n].company \in resigned'
        <3>1. CASE n = m
            BY <1>1, <1>3, <2>2, <3>1
        <3>2. CASE n # m
            BY <1>8, <2>2, <3>2
        <3>3. QED
            BY <3>1, <3>2
    <2>3. QED
        BY <1>1, <1>7, <1>9, <2>1, <2>2, OwnerKeeps DEF WorkspaceInv
<1>17. QED
    BY <1>12, <1>13, <1>14, <1>15, <1>16 DEF WorkspaceInv

LEMMA RemoveMemberStep ==
    ASSUME WorkspaceInv, NEW r \in Request, RemoveMember(r) PROVE WorkspaceInv'
<1> DEFINE m == request[r].of
<1>1. /\ At(r, "drop") /\ End(r) /\ members' = [members EXCEPT ![m].row = FALSE]
      /\ revived' = IF \E q \in Others(r) : request[q].pc \in {"select", "save"} /\ request[q].of = m
                    THEN revived \cup {m} ELSE revived
      /\ UNCHANGED <<users, companies, invites, started, faults, twice, crowded, shared, admitted, resigned,
                     unfinished>>
    BY DEF RemoveMember
<1>2. request[r] # Idle /\ Placed(r) /\ request[r].pc = "drop" /\ request[r].kind = "remove"
    BY <1>1, AtPlaced DEF KindsAt, WorkspaceInv
<1>3. /\ m \in DOMAIN members /\ members[m].company = request[r].company
      /\ companies[members[m].company].owner = request[r].user /\ members[m].user # request[r].user
    BY <1>2 DEF Placed, InCompany
<1>4. TablesTyped /\ members[m] \in MemberRow
    BY <1>3, RowsTyped DEF WorkspaceInv, Typed
<1>5. PICK v \in MemberRow : /\ members' = [members EXCEPT ![m] = v] /\ ~v.row
                             /\ v.company = members[m].company /\ v.user = members[m].user
    <2> DEFINE v == [members[m] EXCEPT !.row = FALSE]
    <2>1. v \in MemberRow /\ ~v.row /\ v.company = members[m].company /\ v.user = members[m].user
        BY <1>4 DEF MemberRow
    <2>2. members' = [members EXCEPT ![m] = v]
        BY <1>1
    <2> HIDE DEF v
    <2>3. QED
        BY <2>1, <2>2
<1>6. TablesTyped' /\ Grows /\ Len(members') = Len(members) /\ DOMAIN members' = DOMAIN members
      /\ \A n \in DOMAIN members : members'[n] = IF n = m THEN v ELSE members[n]
    BY <1>1, <1>3, <1>4, <1>5, MembersChange
<1>7. \A n \in DOMAIN members : /\ members'[n].company = members[n].company
                                /\ members'[n].row => members[n].row
                                /\ n # m => members'[n] = members[n]
    BY <1>5, <1>6
<1>8. revived \subseteq revived' /\ revived' \subseteq DOMAIN members
    BY <1>1, <1>3 DEF WorkspaceInv, Typed, HistoryTyped
<1>9. HistoryTyped'
    BY <1>1, <1>6, <1>8 DEF WorkspaceInv, Typed, HistoryTyped
<1>10. /\ request' = [s \in Request |-> request'[s]] /\ request'[r] = Idle
       /\ \A s \in Request \ {r} : request'[s] = request[s]
    BY <1>1, Ends DEF WorkspaceInv
<1>11. Typed' /\ (\A pcs : Calm(pcs)) /\ InviteInv'
    BY <1>1, <1>2, <1>6, <1>9, <1>10, EndsQuietly
<1>12. CompanyInv'
    BY <1>1, <1>11, CompanyKeeps DEF WorkspaceInv
<1>13. EmptyInv'
    <2>1. /\ \A n \in DOMAIN members' : Inhabited(members'[n].company)
          /\ \A j \in DOMAIN invites' : Inhabited(invites'[j].company)
        BY <1>1, <1>6, <1>7 DEF Inhabited
    <2>2. QED
        BY <1>10, <1>11, <2>1, EmptyKeeps DEF WorkspaceInv
<1>14. JoinInv'
    BY <1>1, <1>6, <1>7, <1>8, <1>11, JoinKeeps DEF WorkspaceInv
\* Whoever is about to save the member will bring it back.
<1>15. ReturnInv'
    <2>1. ASSUME NEW n \in DOMAIN members, members[n].row, ~members'[n].row,
                 NEW s \in Request, Saves(s, n)'
          PROVE  Lost(n)'
        <3>1. n = m
            BY <1>7, <2>1
        <3>2. s # r
            BY <1>10, <2>1 DEF Saves
        <3>3. s \in Others(r) /\ request[s].pc \in {"select", "save"} /\ request[s].of = m
            BY <1>10, <2>1, <3>1, <3>2 DEF Saves, Others
        <3>4. m \in revived'
            BY <1>1, <3>3
        <3>5. QED
            BY <3>1, <3>4 DEF Lost
    <2>2. \A n \in DOMAIN members :
             members[n].row => members'[n].row \/ Lost(n)' \/ ~\E s \in Request : Saves(s, n)'
        BY <2>1
    <2>3. QED
        BY <1>6, <1>8, <1>11, <2>2, ReturnKeeps DEF WorkspaceInv
\* Nobody removes itself, so the member that goes is not the owner.
<1>16. OwnerStays'
    <2>1. \A s \in Request : request'[s] = request[s] \/ ~At(s, "owner")
        BY <1>2, <1>10 DEF At
    <2>2. \A n \in DOMAIN members :
             members[n].row /\ members[n].role = "Owner"
                /\ members[n].user = companies[members[n].company].owner =>
             members'[n].row /\ members'[n].role = "Owner"
        BY <1>3, <1>7
    <2>3. QED
        BY <1>1, <1>6, <2>1, <2>2, OwnerKeeps DEF WorkspaceInv
<1>17. QED
    BY <1>11, <1>12, <1>13, <1>14, <1>15, <1>16 DEF WorkspaceInv

\* A row comes at the end of a table.
LEMMA RowAdded ==
    ASSUME NEW S, NEW q \in Seq(S), NEW v \in S
    PROVE  /\ Append(q, v) \in Seq(S) /\ Len(Append(q, v)) = Len(q) + 1
           /\ DOMAIN Append(q, v) = DOMAIN q \cup {Len(q) + 1} /\ Len(q) + 1 \notin DOMAIN q
           /\ \A j \in DOMAIN q : Append(q, v)[j] = q[j]
           /\ Append(q, v)[Len(q) + 1] = v
<1>1. Len(q) \in Nat /\ DOMAIN q = 1..Len(q)
    OBVIOUS
<1>2. Append(q, v) \in Seq(S) /\ Len(Append(q, v)) = Len(q) + 1
    OBVIOUS
<1>3. DOMAIN Append(q, v) = 1..Len(q) + 1
    BY <1>1, <1>2
<1>4. QED
    BY <1>1, <1>2, <1>3

LEMMA MemberAdded ==
    ASSUME TablesTyped, UNCHANGED <<users, companies, invites>>,
           NEW v \in MemberRow, v.company \in DOMAIN companies, members' = Append(members, v)
    PROVE  /\ TablesTyped' /\ Grows /\ Len(members) + 1 \notin DOMAIN members
           /\ DOMAIN members' = DOMAIN members \cup {Len(members) + 1}
           /\ \A n \in DOMAIN members : members'[n] = members[n]
           /\ members'[Len(members) + 1] = v
<1>1. members \in Seq(MemberRow) /\ Len(members) \in Nat
    BY DEF TablesTyped
<1>2. /\ members' \in Seq(MemberRow) /\ Len(members') = Len(members) + 1
      /\ DOMAIN members' = DOMAIN members \cup {Len(members) + 1} /\ Len(members) + 1 \notin DOMAIN members
      /\ \A n \in DOMAIN members : members'[n] = members[n]
      /\ members'[Len(members) + 1] = v
    BY <1>1, RowAdded
<1>3. TablesTyped'
    BY <1>2 DEF TablesTyped
<1>4. Grows
    BY <1>1, <1>2, Domains DEF Grows
<1>5. QED
    BY <1>2, <1>3, <1>4

LEMMA CreateCompanyStep ==
    ASSUME WorkspaceInv, NEW r \in Request, CreateCompany(r) PROVE WorkspaceInv'
<1> DEFINE u == request[r].user
           new == Len(companies) + 1
<1>1. /\ At(r, "create") /\ UNCHANGED <<users, members, invites, started, faults, history>>
      /\ IF u \in users
         THEN /\ companies' = Append(companies, [owner |-> u, row |-> TRUE])
              /\ request' = [request EXCEPT ![r].pc = "owner", ![r].company = new]
         ELSE End(r) /\ companies' = companies
    BY DEF CreateCompany
<1>2. /\ request[r] # Idle /\ Placed(r) /\ request[r] \in RequestRow /\ request[r].pc = "create"
      /\ request[r].kind = "login" /\ u \in User
    BY <1>1, AtPlaced DEF KindsAt, RequestRow, WorkspaceInv
<1>3. UNCHANGED <<twice, crowded, shared, revived, admitted, resigned, unfinished>>
    BY <1>1 DEF history
<1>4. ~At(r, "owner")
    BY <1>2 DEF At
<1>5. TablesTyped
    BY DEF WorkspaceInv, Typed
<1>6. CASE u \notin users
    <2>1. UNCHANGED tables
        BY <1>1, <1>6 DEF tables
    <2>2. TablesTyped' /\ Grows
        BY <2>1, TablesSame DEF WorkspaceInv
    <2>3. HistoryTyped'
        BY <1>1, <2>2, HistorySame DEF WorkspaceInv
    <2>4. /\ request' = [s \in Request |-> request'[s]] /\ request'[r] = Idle
          /\ \A s \in Request \ {r} : request'[s] = request[s]
        BY <1>1, <1>6, Ends DEF WorkspaceInv
    <2>5. QED
        BY <1>2, <1>3, <1>4, <2>1, <2>3, <2>4, Moves DEF WorkspaceInv
<1>7. CASE u \in users
    <2> DEFINE v == [owner |-> u, row |-> TRUE]
    <2>1. companies \in Seq(Company) /\ v \in Company /\ Len(companies) \in Nat
        BY <1>2, <1>5 DEF TablesTyped, Company
    <2>2. companies' = Append(companies, v)
        BY <1>1, <1>7
    <2>3. v.owner = u /\ v.row
        OBVIOUS
    <2> HIDE DEF v
    <2>4. /\ companies' \in Seq(Company) /\ Len(companies') = new
          /\ DOMAIN companies' = DOMAIN companies \cup {new} /\ new \notin DOMAIN companies
          /\ \A c \in DOMAIN companies : companies'[c] = companies[c]
          /\ companies'[new] = v
        BY <2>1, <2>2, RowAdded
    <2>5. TablesTyped'
        BY <1>1, <1>5, <2>4 DEF TablesTyped
    <2>6. Grows
        BY <1>1, <1>5, <2>1, <2>4, Domains DEF Grows
    <2>7. HistoryTyped'
        BY <1>1, <2>5, <2>6, HistorySame DEF WorkspaceInv
    <2>8. request = [s \in Request |-> request[s]] /\ new \in Nat
        BY <2>1 DEF WorkspaceInv, Typed, RequestsTyped
    <2> HIDE DEF new
    <2>9. /\ request' = [s \in Request |-> request'[s]]
          /\ \A s \in Request \ {r} : request'[s] = request[s]
          /\ request'[r] = [request[r] EXCEPT !.pc = "owner", !.company = new]
        BY <1>1, <1>7, <2>8 DEF new
    <2>10. /\ request'[r] \in RequestRow /\ request'[r].pc = "owner" /\ request'[r].kind = "login"
           /\ request'[r].user = u /\ request'[r].company = new /\ request'[r].of = request[r].of
        BY <1>2, <2>8, <2>9 DEF RequestRow, Steps
    <2>11. request'[r] # Idle
        BY <2>10 DEF Idle
    <2>12. Placed(r)'
        <3>1. request'[r].kind \in KindsAt(request'[r].pc)
            BY <2>10 DEF KindsAt
        <3>2. request'[r].company <= Len(companies')
            BY <2>4, <2>8, <2>10
        <3>3. request'[r].of <= Len(members') + Len(invites')
            BY <1>1, <1>2, <2>10 DEF Placed
        <3>4. request'[r].company \in DOMAIN companies' /\ companies'[request'[r].company].owner = request'[r].user
            BY <2>3, <2>4, <2>10
        <3>5. request'[r].pc \notin Admitted /\ request'[r].pc \notin {"select", "save", "drop"}
            BY <2>10 DEF Admitted
        <3>6. QED
            BY <2>10, <3>1, <3>2, <3>3, <3>4, <3>5 DEF Placed
    <2>13. Typed'
        BY <2>5, <2>6, <2>7, <2>9, <2>12, TypedStep DEF WorkspaceInv
    \* Nobody else was about to make a company for the user, and it had none.
    <2>14. CompanyInv'
        <3>1. \A w : Owned(w)' = IF w = u THEN Owned(w) \cup {new} ELSE Owned(w)
            BY <2>3, <2>4 DEF Owned
        <3>2. \A q \in Request : \A w : Creates(q, w)' => q # r /\ Creates(q, w)
            BY <2>9, <2>10 DEF Creates, At
        <3>3. Creates(r, u)
            BY <1>1 DEF Creates
        <3>4. \A c \in DOMAIN companies' : companies'[c].row => companies'[c].owner \in users'
            BY <1>1, <1>7, <2>3, <2>4 DEF WorkspaceInv, CompanyInv
        <3>5. ASSUME NEW w \in User \ twice'
              PROVE  /\ \A a, b \in Owned(w)' : a = b
                     /\ \A q \in Request : Creates(q, w)' => Owned(w)' = {}
                     /\ \A p, q \in Request : Creates(p, w)' /\ Creates(q, w)' => p = q
            <4>1. /\ \A a, b \in Owned(w) : a = b
                  /\ \A q \in Request : Creates(q, w) => Owned(w) = {}
                  /\ \A p, q \in Request : Creates(p, w) /\ Creates(q, w) => p = q
                BY <1>3 DEF WorkspaceInv, CompanyInv
            <4>2. CASE w = u
                <5>1. Owned(u) = {}
                    BY <3>3, <4>1, <4>2
                <5>2. ASSUME NEW q \in Request, Creates(q, w)' PROVE FALSE
                    <6>1. q # r /\ Creates(q, w) /\ Creates(r, w)
                        BY <3>2, <3>3, <4>2, <5>2
                    <6>2. QED
                        BY <4>1, <6>1
                <5>3. \A a, b \in Owned(w)' : a = b
                    BY <3>1, <4>2, <5>1
                <5>4. QED
                    BY <5>2, <5>3
            <4>3. CASE w # u
                BY <3>1, <3>2, <4>1, <4>3
            <4>4. QED
                BY <4>2, <4>3
        <3>6. QED
            BY <3>4, <3>5 DEF CompanyInv
    \* Nothing can be in a company that was not there.
    <2>15. EmptyInv'
        <3>1. ASSUME NEW q \in Request, At(q, "owner")' PROVE Empty(request[q].company, q)'
            <4>1. CASE q = r
                <5>1. \A m \in DOMAIN members : members[m].company # new
                    BY <1>5, <2>4, RowsTyped
                <5>2. \A i \in DOMAIN invites : invites[i].company # new
                    BY <1>5, <2>4, RowsTyped
                <5>3. ASSUME NEW s \in Request \ {r}, request[s] # Idle PROVE request[s].company # new
                    <6>1. request[s] \in RequestRow /\ request[s].company <= Len(companies)
                        BY <5>3 DEF WorkspaceInv, Typed, RequestsTyped, Placed
                    <6>2. QED
                        BY <2>1, <6>1 DEF new, RequestRow
                <5>4. QED
                    BY <1>1, <2>9, <2>10, <4>1, <5>1, <5>2, <5>3 DEF Empty
            <4>2. CASE q # r
                <5>1. request'[q] = request[q] /\ At(q, "owner")
                    BY <2>9, <3>1, <4>2 DEF At
                <5>2. Empty(request[q].company, q) /\ request[q].company # new
                    <6>1. request[q].company \in DOMAIN companies
                        BY <5>1, AtPlaced DEF Placed, InCompany, WorkspaceInv
                    <6>2. QED
                        BY <2>4, <5>1, <6>1 DEF WorkspaceInv, EmptyInv
                <5> DEFINE c == request[q].company
                <5>3. ASSUME NEW s \in Request \ {q}, request'[s] # Idle, request'[s].company = c
                      PROVE  request'[s].pc = "rights"
                    <6>1. CASE s = r
                        BY <2>9, <2>10, <5>2, <5>3, <6>1
                    <6>2. CASE s # r
                        <7>1. request'[s] = request[s]
                            BY <2>9, <6>2
                        <7>2. QED
                            BY <5>2, <5>3, <7>1 DEF Empty
                    <6>3. QED
                        BY <6>1, <6>2
                <5>4. request'[q].company = c /\ Empty(c, q)
                    BY <5>1, <5>2
                <5> HIDE DEF c
                <5>5. QED
                    BY <1>1, <5>3, <5>4 DEF Empty
            <4>3. QED
                BY <4>1, <4>2
        <3>2. QED
            BY <3>1 DEF EmptyInv
    <2>16. Calm({"select", "save"})
        BY <2>9, <2>10, EndsCalm
    <2>17. ReturnInv'
        BY <1>1, <1>3, <2>5, <2>6, <2>16, ReturnKeeps DEF WorkspaceInv
    <2>18. JoinInv'
        <3>1. ASSUME NEW c, NEW w PROVE Memberships(c, w)' = Memberships(c, w)
            BY <1>1 DEF Memberships
        <3>2. ASSUME NEW q \in Request, NEW c, NEW w, Joins(q, c, w)' PROVE Joins(q, c, w)
            BY <2>9, <2>10, <3>2 DEF Joins, At
        <3>3. \A w : Memberships(new, w) = {}
            BY <1>5, <2>4, RowsTyped DEF Memberships
        <3>4. ASSUME NEW q \in Request, NEW w PROVE ~Joins(q, new, w)
            <4>1. CASE Joins(q, new, w)
                <5>1. request[q].company <= Len(companies)
                    BY <4>1 DEF Joins, At, WorkspaceInv, Typed, RequestsTyped, Placed
                <5>2. QED
                    BY <2>1, <4>1, <5>1 DEF Joins, new
            <4>2. QED
                BY <4>1
        <3>5. ASSUME NEW w \in User, NEW c \in DOMAIN companies', <<w, c>> \notin crowded'
              PROVE  /\ \A m, n \in Memberships(c, w)' \ revived' : m = n
                     /\ \A q \in Request : Joins(q, c, w)' => Memberships(c, w)' \ revived' = {}
                     /\ \A p, q \in Request : Joins(p, c, w)' /\ Joins(q, c, w)' => p = q
            <4>1. CASE c = new
                BY <3>1, <3>2, <3>3, <3>4, <4>1
            <4>2. CASE c # new
                <5>1. c \in DOMAIN companies /\ <<w, c>> \notin crowded
                    BY <1>3, <2>4, <3>5, <4>2
                <5>2. /\ \A m, n \in Memberships(c, w) \ revived : m = n
                      /\ \A q \in Request : Joins(q, c, w) => Memberships(c, w) \ revived = {}
                      /\ \A p, q \in Request : Joins(p, c, w) /\ Joins(q, c, w) => p = q
                    BY <5>1 DEF WorkspaceInv, JoinInv
                <5>3. QED
                    BY <1>3, <3>1, <3>2, <5>2
            <4>3. QED
                BY <4>1, <4>2
        <3>6. QED
            BY <3>5 DEF JoinInv
    <2>19. InviteInv'
        BY <1>1, <1>2, <1>3, <2>5, <2>6, <2>9, <2>10, NotAccepting, InviteKeeps DEF WorkspaceInv
    <2>20. OwnerStays'
        <3> SUFFICES ASSUME NEW c \in DOMAIN companies', companies'[c].row, c \notin unfinished \cup resigned,
                            ~\E s \in Request : At(s, "owner")' /\ request'[s].company = c
                     PROVE  \E m \in Memberships(c, companies'[c].owner) : members[m].role = "Owner"
            BY <1>1, <1>3 DEF OwnerStays, Memberships
        <3>1. c # new
            BY <2>10, <2>11 DEF At
        <3>2. c \in DOMAIN companies /\ companies'[c] = companies[c]
            BY <2>4, <3>1
        <3>3. ~\E s \in Request : At(s, "owner") /\ request[s].company = c
            BY <1>4, <2>9 DEF At
        <3>4. QED
            BY <3>2, <3>3 DEF WorkspaceInv, OwnerStays
    <2>21. QED
        BY <2>13, <2>14, <2>15, <2>17, <2>18, <2>19, <2>20 DEF WorkspaceInv
<1>8. QED
    BY <1>6, <1>7

LEMMA CreateOwnerStep ==
    ASSUME WorkspaceInv, NEW r \in Request, CreateOwner(r) PROVE WorkspaceInv'
<1> DEFINE c == request[r].company
           u == request[r].user
           new == Len(members) + 1
<1>1. /\ At(r, "owner") /\ End(r) /\ UNCHANGED <<users, companies, invites, started, faults, history>>
      /\ IF Refused(c, u) THEN members' = members
         ELSE members' = Append(members, [company |-> c, user |-> u, role |-> "Owner", row |-> TRUE])
    BY DEF CreateOwner
<1>2. /\ request[r] # Idle /\ Placed(r) /\ request[r] \in RequestRow /\ request[r].pc = "owner"
      /\ request[r].kind = "login" /\ u \in User
    BY <1>1, AtPlaced DEF KindsAt, RequestRow, WorkspaceInv
<1>3. c \in DOMAIN companies /\ companies[c].owner = u /\ c \in Nat
    BY <1>2 DEF Placed, InCompany, RequestRow
<1>4. UNCHANGED <<twice, crowded, shared, revived, admitted, resigned, unfinished>>
    BY <1>1 DEF history
<1>5. TablesTyped
    BY DEF WorkspaceInv, Typed
<1>6. /\ request' = [s \in Request |-> request'[s]] /\ request'[r] = Idle
      /\ \A s \in Request \ {r} : request'[s] = request[s]
    BY <1>1, Ends DEF WorkspaceInv
\* The company's owner is a user, or the company has gone.
<1>7. Refused(c, u) => ~companies[c].row
    BY <1>3 DEF Refused, WorkspaceInv, CompanyInv
<1>8. CASE Refused(c, u)
    <2>1. UNCHANGED tables
        BY <1>1, <1>8 DEF tables
    <2>2. TablesTyped' /\ Grows
        BY <2>1, TablesSame DEF WorkspaceInv
    <2>3. HistoryTyped'
        BY <1>1, <2>2, HistorySame DEF WorkspaceInv
    <2>4. Typed' /\ CompanyInv' /\ EmptyInv' /\ ReturnInv' /\ JoinInv' /\ InviteInv'
        BY <1>2, <1>4, <1>6, <2>1, <2>3, Moves
    <2>5. OwnerStays'
        <3> SUFFICES ASSUME NEW d \in DOMAIN companies, companies[d].row, d \notin unfinished \cup resigned,
                            ~\E s \in Request : At(s, "owner")' /\ request'[s].company = d
                     PROVE  \E m \in Memberships(d, companies[d].owner) : members[m].role = "Owner"
            BY <1>1, <1>4, <1>8 DEF OwnerStays, Memberships
        <3>1. d # c
            BY <1>7, <1>8
        <3>2. ~\E s \in Request : At(s, "owner") /\ request[s].company = d
            BY <1>6, <3>1 DEF At
        <3>3. QED
            BY <3>2 DEF WorkspaceInv, OwnerStays
    <2>6. QED
        BY <2>4, <2>5 DEF WorkspaceInv
<1>9. CASE ~Refused(c, u)
    <2> DEFINE v == [company |-> c, user |-> u, role |-> "Owner", row |-> TRUE]
    <2>1. /\ v \in MemberRow /\ v.company = c /\ v.user = u /\ v.role = "Owner" /\ v.row
          /\ members' = Append(members, v)
        BY <1>1, <1>2, <1>3, <1>9 DEF MemberRow, Role
    <2> HIDE DEF v
    <2>2. /\ TablesTyped' /\ Grows /\ new \notin DOMAIN members
          /\ DOMAIN members' = DOMAIN members \cup {new}
          /\ \A n \in DOMAIN members : members'[n] = members[n]
          /\ members'[new] = v
        BY <1>1, <1>3, <1>5, <2>1, MemberAdded
    <2> HIDE DEF new
    <2>3. HistoryTyped'
        BY <1>1, <2>2, HistorySame DEF WorkspaceInv
    <2>4. Typed' /\ (\A pcs : Calm(pcs)) /\ InviteInv'
        BY <1>1, <1>2, <1>4, <1>6, <2>2, <2>3, EndsQuietly
    <2>5. CompanyInv'
        BY <1>1, <1>4, <2>4, CompanyKeeps DEF WorkspaceInv
    <2>6. EmptyInv'
        <3>1. Inhabited(c)
            BY <1>2, <1>6 DEF Inhabited
        <3>2. /\ \A n \in DOMAIN members' : Inhabited(members'[n].company)
              /\ \A j \in DOMAIN invites' : Inhabited(invites'[j].company)
            BY <1>1, <2>1, <2>2, <3>1 DEF Inhabited
        <3>3. QED
            BY <1>6, <2>4, <3>2, EmptyKeeps DEF WorkspaceInv
    <2>7. ReturnInv'
        <3>1. ASSUME NEW s \in Request, NEW n \in DOMAIN members', Saves(s, n)',
                     (~members[n].row \/ (At(s, "save") /\ request[s].gone))'
              PROVE  Lost(n)'
            <4>1. s # r /\ request'[s] = request[s]
                BY <1>6, <3>1 DEF Saves
            <4>2. Saves(s, n) /\ (At(s, "save")' <=> At(s, "save"))
                BY <3>1, <4>1 DEF Saves, At
            <4>3. n \in DOMAIN members
                BY <4>2 DEF Saves, WorkspaceInv, Typed, RequestsTyped, Placed, KindsAt
            <4>4. Lost(n)
                BY <2>2, <3>1, <4>1, <4>2, <4>3 DEF WorkspaceInv, ReturnInv
            <4>5. QED
                BY <1>4, <1>5, <2>2, <4>3, <4>4, LostStays
        <3>2. QED
            BY <3>1 DEF ReturnInv
    \* Nobody else is a member of the company, or about to become one.
    <2>8. JoinInv'
        <3>1. Empty(c, r)
            BY <1>1 DEF WorkspaceInv, EmptyInv
        <3>2. ASSUME NEW q \in Request, NEW d, NEW w, Joins(q, d, w)' PROVE Joins(q, d, w) /\ d # c
            <4>1. q # r /\ request'[q] = request[q]
                BY <1>6, <3>2 DEF Joins, At
            <4>2. Joins(q, d, w)
                BY <3>2, <4>1 DEF Joins, At
            <4>3. d # c
                BY <3>1, <4>1, <4>2 DEF Joins, At, Empty
            <4>4. QED
                BY <4>2, <4>3
        <3>3. ASSUME NEW d, NEW w
              PROVE  Memberships(d, w)' = IF d = c /\ w = u THEN {new} ELSE Memberships(d, w)
            <4>1. d = c => Memberships(d, w) = {}
                BY <3>1 DEF Memberships, Empty
            <4>2. Memberships(d, w)' = Memberships(d, w) \cup (IF d = c /\ w = u THEN {new} ELSE {})
                BY <2>1, <2>2 DEF Memberships
            <4>3. QED
                BY <4>1, <4>2
        <3>4. ASSUME NEW w \in User, NEW d \in DOMAIN companies, <<w, d>> \notin crowded
              PROVE  /\ \A m, n \in Memberships(d, w)' \ revived' : m = n
                     /\ \A q \in Request : Joins(q, d, w)' => Memberships(d, w)' \ revived' = {}
                     /\ \A p, q \in Request : Joins(p, d, w)' /\ Joins(q, d, w)' => p = q
            <4>1. /\ \A m, n \in Memberships(d, w) \ revived : m = n
                  /\ \A q \in Request : Joins(q, d, w) => Memberships(d, w) \ revived = {}
                  /\ \A p, q \in Request : Joins(p, d, w) /\ Joins(q, d, w) => p = q
                BY <3>4 DEF WorkspaceInv, JoinInv
            <4>2. CASE d = c
                <5>1. \A q \in Request : ~Joins(q, d, w)'
                    BY <3>2, <4>2
                <5>2. Memberships(d, w)' \subseteq {new} \/ Memberships(d, w)' = Memberships(d, w)
                    BY <3>3
                <5>3. QED
                    BY <1>4, <4>1, <5>1, <5>2
            <4>3. CASE d # c
                BY <1>4, <3>2, <3>3, <4>1, <4>3
            <4>4. QED
                BY <4>2, <4>3
        <3>5. QED
            BY <1>1, <1>4, <3>4 DEF JoinInv
    \* The company has its owner.
    <2>9. OwnerStays'
        <3> SUFFICES ASSUME NEW d \in DOMAIN companies, companies[d].row, d \notin unfinished \cup resigned,
                            ~\E s \in Request : At(s, "owner")' /\ request'[s].company = d
                     PROVE  \E m \in Memberships(d, companies[d].owner)' : members'[m].role = "Owner"
            BY <1>1, <1>4 DEF OwnerStays
        <3>1. companies'[d].owner = companies[d].owner
            BY <1>1
        <3>2. CASE d = c
            <4>1. new \in Memberships(d, companies[d].owner)' /\ members'[new].role = "Owner"
                BY <1>3, <2>1, <2>2, <3>1, <3>2 DEF Memberships
            <4>2. QED
                BY <4>1
        <3>3. CASE d # c
            <4>1. ~\E s \in Request : At(s, "owner") /\ request[s].company = d
                BY <1>6, <3>3 DEF At
            <4>2. PICK m \in Memberships(d, companies[d].owner) : members[m].role = "Owner"
                BY <4>1 DEF WorkspaceInv, OwnerStays
            <4>3. m \in Memberships(d, companies[d].owner)' /\ members'[m].role = "Owner"
                BY <2>2, <3>1, <4>2 DEF Memberships
            <4>4. QED
                BY <4>3
        <3>4. QED
            BY <3>2, <3>3
    <2>10. QED
        BY <2>4, <2>5, <2>6, <2>7, <2>8, <2>9 DEF WorkspaceInv
<1>10. QED
    BY <1>8, <1>9

LEMMA SaveInviteStep ==
    ASSUME WorkspaceInv, NEW r \in Request, SaveInvite(r) PROVE WorkspaceInv'
<1> DEFINE c == request[r].company
           u == request[r].user
           new == Len(invites) + 1
<1>1. /\ At(r, "invite") /\ End(r)
      /\ UNCHANGED <<users, companies, members, started, faults, twice, crowded, shared, revived, resigned,
                     unfinished>>
      /\ IF Refused(c, u) THEN UNCHANGED <<invites, admitted>>
         ELSE /\ invites' = Append(invites, [company |-> c, by |-> u, role |-> request[r].role,
                                             row |-> TRUE, expired |-> FALSE])
              /\ admitted' = Append(admitted, {})
    BY DEF SaveInvite
<1>2. /\ request[r] # Idle /\ Placed(r) /\ request[r] \in RequestRow /\ request[r].pc = "invite"
      /\ request[r].kind = "invite" /\ u \in User /\ request[r].role \in Role
    BY <1>1, AtPlaced DEF KindsAt, RequestRow, WorkspaceInv
<1>3. c \in DOMAIN companies /\ c \in Nat
    BY <1>2 DEF Placed, InCompany, RequestRow
<1>4. TablesTyped
    BY DEF WorkspaceInv, Typed
<1>5. /\ request' = [s \in Request |-> request'[s]] /\ request'[r] = Idle
      /\ \A s \in Request \ {r} : request'[s] = request[s]
    BY <1>1, Ends DEF WorkspaceInv
<1>6. ~At(r, "owner")
    BY <1>2 DEF At
<1>7. CASE Refused(c, u)
    <2>1. UNCHANGED <<tables, history>>
        BY <1>1, <1>7 DEF tables, history
    <2>2. TablesTyped' /\ Grows /\ Len(invites') = Len(invites)
        BY <1>1, <1>7, <2>1, TablesSame DEF WorkspaceInv
    <2>3. HistoryTyped'
        BY <1>1, <2>1, <2>2, HistorySame DEF WorkspaceInv
    <2>4. QED
        BY <1>1, <1>2, <1>5, <1>6, <1>7, <2>1, <2>3, Moves DEF WorkspaceInv
<1>8. CASE ~Refused(c, u)
    <2> DEFINE v == [company |-> c, by |-> u, role |-> request[r].role, row |-> TRUE, expired |-> FALSE]
    <2>1. v \in InviteRow /\ v.company = c /\ invites' = Append(invites, v)
        BY <1>1, <1>2, <1>3, <1>8 DEF InviteRow
    <2> HIDE DEF v
    <2>2. invites \in Seq(InviteRow) /\ Len(invites) \in Nat
        BY <1>4 DEF TablesTyped
    <2>3. /\ invites' \in Seq(InviteRow) /\ Len(invites') = new /\ new \notin DOMAIN invites
          /\ DOMAIN invites' = DOMAIN invites \cup {new}
          /\ \A j \in DOMAIN invites : invites'[j] = invites[j]
          /\ invites'[new] = v
        BY <2>1, <2>2, RowAdded
    <2>4. TablesTyped'
        BY <1>1, <1>3, <1>4, <2>1, <2>3 DEF TablesTyped
    <2>5. Grows
        BY <1>1, <1>4, <2>2, <2>3, Domains DEF Grows
    <2>6. admitted \in Seq(SUBSET User) /\ Len(admitted) = Len(invites)
        BY DEF WorkspaceInv, Typed, HistoryTyped
    <2>7. admitted' = Append(admitted, {}) /\ {} \in SUBSET User
        BY <1>1, <1>8
    <2>8. /\ admitted' \in Seq(SUBSET User) /\ Len(admitted') = new
          /\ \A j \in DOMAIN admitted : admitted'[j] = admitted[j]
          /\ admitted'[new] = {}
        BY <2>6, <2>7, RowAdded
    <2>9. DOMAIN admitted = DOMAIN invites
        BY <2>2, <2>6
    <2> HIDE DEF new
    <2>10. HistoryTyped'
        BY <1>1, <2>3, <2>8 DEF WorkspaceInv, Typed, HistoryTyped
    <2>11. Typed' /\ (\A pcs : Calm(pcs))
        BY <1>1, <1>2, <1>5, <2>4, <2>5, <2>10, EndsQuietly
    <2>12. CompanyInv'
        BY <1>1, <2>11, CompanyKeeps DEF WorkspaceInv
    <2>13. EmptyInv'
        <3>1. Inhabited(c)
            BY <1>2, <1>5 DEF Inhabited
        <3>2. /\ \A n \in DOMAIN members' : Inhabited(members'[n].company)
              /\ \A j \in DOMAIN invites' : Inhabited(invites'[j].company)
            BY <1>1, <2>1, <2>3, <3>1 DEF Inhabited
        <3>3. QED
            BY <1>5, <2>11, <3>2, EmptyKeeps DEF WorkspaceInv
    <2>14. ReturnInv' /\ JoinInv'
        BY <1>1, <2>4, <2>5, <2>11, ReturnKeeps, JoinKeeps DEF WorkspaceInv
    <2>15. OwnerStays'
        <3>1. \A s \in Request : request'[s] = request[s] \/ ~At(s, "owner")
            BY <1>5, <1>6
        <3>2. QED
            BY <1>1, <2>4, <2>5, <3>1, OwnerKeeps DEF WorkspaceInv
    \* Nobody has found the invitation yet.
    <2>16. InviteInv'
        <3>1. ASSUME NEW s \in Request, NEW j
              PROVE  (Accepts(s, j)' <=> Accepts(s, j)) /\ (At(s, "done")' <=> At(s, "done"))
            <4>1. CASE s = r
                BY <1>2, <1>5, <4>1 DEF Accepts, At
            <4>2. CASE s # r
                BY <1>5, <4>2 DEF Accepts, At
            <4>3. QED
                BY <4>1, <4>2
        <3>2. ASSUME NEW s \in Request PROVE ~Accepts(s, new)
            BY <2>3 DEF Accepts, WorkspaceInv, Typed, RequestsTyped, Placed
        <3>3. ASSUME NEW j \in DOMAIN invites' \ shared'
              PROVE  /\ \A q, s \in Request : Accepts(q, j)' /\ Accepts(s, j)' => q = s
                     /\ \A s \in Request : Accepts(s, j)' /\ ~At(s, "done")' => admitted'[j] = {}
                     /\ admitted'[j] # {} /\ invites'[j].row => \E s \in Request : Accepts(s, j)' /\ At(s, "done")'
                     /\ \A a, b \in admitted'[j] : a = b
            <4>1. CASE j = new
                BY <2>8, <3>1, <3>2, <4>1
            <4>2. CASE j # new
                <5>1. j \in DOMAIN invites \ shared
                    BY <1>1, <2>3, <3>3, <4>2
                <5>2. /\ \A q, s \in Request : Accepts(q, j) /\ Accepts(s, j) => q = s
                      /\ \A s \in Request : Accepts(s, j) /\ ~At(s, "done") => admitted[j] = {}
                      /\ admitted[j] # {} /\ invites[j].row => \E s \in Request : Accepts(s, j) /\ At(s, "done")
                      /\ \A a, b \in admitted[j] : a = b
                    BY <5>1 DEF WorkspaceInv, InviteInv
                <5>3. admitted'[j] = admitted[j] /\ invites'[j] = invites[j]
                    BY <2>3, <2>8, <2>9, <5>1
                <5>4. QED
                    BY <3>1, <5>2, <5>3
            <4>3. QED
                BY <4>1, <4>2
        <3>4. QED
            BY <3>3 DEF InviteInv
    <2>17. QED
        BY <2>11, <2>12, <2>13, <2>14, <2>15, <2>16 DEF WorkspaceInv
<1>9. QED
    BY <1>7, <1>8

LEMMA JoinStep ==
    ASSUME WorkspaceInv, NEW r \in Request, Join(r) PROVE WorkspaceInv'
<1> DEFINE c == request[r].company
           u == request[r].user
           i == request[r].of
           new == Len(members) + 1
<1>1. /\ At(r, "join")
      /\ UNCHANGED <<users, companies, invites, started, faults, twice, crowded, shared, revived, resigned,
                     unfinished>>
      /\ IF Refused(c, u) THEN End(r) /\ UNCHANGED <<members, admitted>>
         ELSE /\ members' = Append(members, [company |-> c, user |-> u, role |-> invites[i].role, row |-> TRUE])
              /\ admitted' = [admitted EXCEPT ![i] = @ \cup {u}]
              /\ Goto(r, "done")
    BY DEF Join
<1>2. /\ request[r] # Idle /\ Placed(r) /\ request[r] \in RequestRow /\ request[r].pc = "join"
      /\ request[r].kind = "accept" /\ u \in User
    BY <1>1, AtPlaced DEF KindsAt, RequestRow, WorkspaceInv
<1>3. /\ i \in DOMAIN invites /\ c = invites[i].company /\ c \in DOMAIN companies /\ c \in Nat
      /\ invites[i].role \in Role
    BY <1>2, RowsTyped DEF Placed, Admitted, RequestRow, InviteRow, WorkspaceInv, Typed
<1>4. TablesTyped
    BY DEF WorkspaceInv, Typed
<1>5. ~At(r, "owner") /\ ~At(r, "done") /\ Accepts(r, i) /\ Joins(r, c, u)
    BY <1>2 DEF At, Accepts, Joins
<1>6. CASE Refused(c, u)
    <2>1. UNCHANGED <<tables, history>>
        BY <1>1, <1>6 DEF tables, history
    <2>2. TablesTyped' /\ Grows /\ Len(invites') = Len(invites)
        BY <1>1, <2>1, TablesSame DEF WorkspaceInv
    <2>3. HistoryTyped'
        BY <1>1, <2>1, <2>2, HistorySame DEF WorkspaceInv
    <2>4. /\ request' = [s \in Request |-> request'[s]] /\ request'[r] = Idle
          /\ \A s \in Request \ {r} : request'[s] = request[s]
        BY <1>1, <1>6, Ends DEF WorkspaceInv
    <2>5. Typed' /\ CompanyInv' /\ EmptyInv' /\ ReturnInv' /\ JoinInv' /\ OwnerStays'
        BY <1>1, <1>5, <1>6, <2>1, <2>3, <2>4, Moves
    <2>6. InviteInv'
        <3>1. ASSUME NEW j, NEW s \in Request
              PROVE  /\ Accepts(s, j)' => Accepts(s, j) /\ (At(s, "done")' <=> At(s, "done"))
                     /\ Accepts(s, j) /\ At(s, "done") => Accepts(s, j)'
            <4>1. CASE s = r
                BY <1>5, <2>4, <4>1 DEF Accepts
            <4>2. CASE s # r
                BY <2>4, <4>2 DEF Accepts, At
            <4>3. QED
                BY <4>1, <4>2
        <3>2. QED
            BY <1>1, <1>6, <2>2, <3>1, InviteKeeps DEF WorkspaceInv
    <2>7. QED
        BY <2>5, <2>6 DEF WorkspaceInv
<1>7. CASE ~Refused(c, u)
    <2> DEFINE v == [company |-> c, user |-> u, role |-> invites[i].role, row |-> TRUE]
    <2>1. /\ v \in MemberRow /\ v.company = c /\ v.user = u /\ v.row
          /\ members' = Append(members, v)
        BY <1>1, <1>2, <1>3, <1>7 DEF MemberRow
    <2> HIDE DEF v
    <2>2. /\ TablesTyped' /\ Grows /\ new \notin DOMAIN members
          /\ DOMAIN members' = DOMAIN members \cup {new}
          /\ \A n \in DOMAIN members : members'[n] = members[n]
          /\ members'[new] = v
        BY <1>1, <1>3, <1>4, <2>1, MemberAdded
    <2> HIDE DEF new
    <2>3. admitted \in Seq(SUBSET User) /\ Len(admitted) = Len(invites) /\ DOMAIN admitted = DOMAIN invites
        BY <1>4, Domains DEF WorkspaceInv, Typed, HistoryTyped
    <2>4. /\ admitted' \in Seq(SUBSET User) /\ Len(admitted') = Len(invites)
          /\ \A j \in DOMAIN invites : admitted'[j] = IF j = i THEN admitted[i] \cup {u} ELSE admitted[j]
        <3>1. admitted[i] \cup {u} \in SUBSET User
            BY <1>2, <1>3, <2>3
        <3>2. admitted' = [admitted EXCEPT ![i] = admitted[i] \cup {u}]
            BY <1>1, <1>7
        <3>3. QED
            BY <1>3, <2>3, <3>1, <3>2, RowChanges
    <2>5. HistoryTyped'
        BY <1>1, <2>2, <2>4 DEF WorkspaceInv, Typed, HistoryTyped
    <2>6. /\ request' = [s \in Request |-> request'[s]]
          /\ \A s \in Request \ {r} : request'[s] = request[s]
          /\ request'[r] # Idle /\ request'[r] \in RequestRow /\ request'[r].pc = "done"
          /\ request'[r].kind = request[r].kind /\ request'[r].user = request[r].user
          /\ request'[r].company = request[r].company /\ request'[r].of = request[r].of
        BY <1>1, <1>2, <1>7, GoesTo DEF WorkspaceInv, Steps
    <2>7. Placed(r)'
        <3>1. request'[r].kind \in KindsAt(request'[r].pc)
            BY <1>2, <2>6 DEF KindsAt
        <3>2. request'[r].company <= Len(companies')
            BY <1>1, <1>2, <2>6 DEF Placed
        <3>3. request'[r].of <= Len(members') + Len(invites')
            <4>1. Len(members') \in Nat /\ Len(members) \in Nat /\ Len(members) <= Len(members')
                  /\ Len(invites) \in Nat
                BY <1>4, <2>2, Domains DEF TablesTyped, Grows
            <4>2. request[r].of <= Len(members) + Len(invites) /\ request[r].of \in Nat
                BY <1>2 DEF Placed, RequestRow
            <4>3. QED
                BY <1>1, <2>6, <4>1, <4>2
        <3>4. request'[r].pc \notin InCompany /\ request'[r].pc \notin {"select", "save", "drop"}
            BY <2>6 DEF InCompany
        <3>5. request'[r].of \in DOMAIN invites' /\ request'[r].company = invites'[request'[r].of].company
            BY <1>1, <1>3, <2>6
        <3>6. QED
            BY <1>2, <2>6, <3>1, <3>2, <3>3, <3>4, <3>5 DEF Placed
    <2>8. Typed'
        BY <2>2, <2>5, <2>6, <2>7, TypedStep DEF WorkspaceInv
    <2>9. Calm({"create"}) /\ Calm({"owner"})
        BY <2>6, EndsCalm
    <2>10. CompanyInv'
        BY <1>1, <2>9, CompanyKeeps DEF WorkspaceInv
    <2>11. EmptyInv'
        <3>1. Inhabited(c)
            BY <1>3 DEF Inhabited
        <3>2. /\ \A n \in DOMAIN members' : Inhabited(members'[n].company)
              /\ \A j \in DOMAIN invites' : Inhabited(invites'[j].company)
            BY <1>1, <2>1, <2>2, <3>1 DEF Inhabited
        <3>3. \A s \in Request : request'[s] = request[s] \/ Inhabited(request'[s].company)
            BY <2>6, <3>1
        <3>4. QED
            BY <2>9, <3>2, <3>3, EmptyKeeps DEF WorkspaceInv
    <2>12. ReturnInv'
        <3>1. ASSUME NEW s \in Request, NEW n \in DOMAIN members', Saves(s, n)',
                     (~members[n].row \/ (At(s, "save") /\ request[s].gone))'
              PROVE  Lost(n)'
            <4>1. s # r /\ request'[s] = request[s]
                BY <2>6, <3>1 DEF Saves
            <4>2. Saves(s, n) /\ (At(s, "save")' <=> At(s, "save"))
                BY <3>1, <4>1 DEF Saves, At
            <4>3. n \in DOMAIN members
                BY <4>2 DEF Saves, WorkspaceInv, Typed, RequestsTyped, Placed, KindsAt
            <4>4. Lost(n)
                BY <2>2, <3>1, <4>1, <4>2, <4>3 DEF WorkspaceInv, ReturnInv
            <4>5. QED
                BY <1>1, <1>4, <2>2, <4>3, <4>4, LostStays
        <3>2. QED
            BY <3>1 DEF ReturnInv
    \* The user was no member, and nobody else makes it one.
    <2>13. JoinInv'
        <3>1. ASSUME NEW q \in Request, NEW d, NEW w, Joins(q, d, w)' PROVE Joins(q, d, w) /\ q # r
            BY <2>6, <3>1 DEF Joins, At
        <3>2. ASSUME NEW d, NEW w
              PROVE  Memberships(d, w)' = Memberships(d, w) \cup (IF d = c /\ w = u THEN {new} ELSE {})
            BY <2>1, <2>2 DEF Memberships
        <3>3. ASSUME NEW w \in User, NEW d \in DOMAIN companies, <<w, d>> \notin crowded
              PROVE  /\ \A m, n \in Memberships(d, w)' \ revived' : m = n
                     /\ \A q \in Request : Joins(q, d, w)' => Memberships(d, w)' \ revived' = {}
                     /\ \A p, q \in Request : Joins(p, d, w)' /\ Joins(q, d, w)' => p = q
            <4>1. /\ \A m, n \in Memberships(d, w) \ revived : m = n
                  /\ \A q \in Request : Joins(q, d, w) => Memberships(d, w) \ revived = {}
                  /\ \A p, q \in Request : Joins(p, d, w) /\ Joins(q, d, w) => p = q
                BY <3>3 DEF WorkspaceInv, JoinInv
            <4>2. CASE d = c /\ w = u
                <5>1. Joins(r, d, w)
                    BY <1>5, <4>2
                <5>2. \A q \in Request : ~Joins(q, d, w)'
                    BY <3>1, <4>1, <5>1
                <5>3. Memberships(d, w) \ revived = {}
                    BY <4>1, <5>1
                <5>4. \A m, n \in Memberships(d, w)' \ revived' : m = n
                    BY <1>1, <3>2, <5>3
                <5>5. QED
                    BY <5>2, <5>4
            <4>3. CASE ~(d = c /\ w = u)
                <5>1. Memberships(d, w)' = Memberships(d, w)
                    BY <3>2, <4>3
                <5>2. QED
                    BY <1>1, <3>1, <4>1, <5>1
            <4>4. QED
                BY <4>2, <4>3
        <3>4. QED
            BY <1>1, <3>3 DEF JoinInv
    \* The invitation had admitted nobody, and nobody else has found it.
    <2>14. InviteInv'
        <3>1. ASSUME NEW s \in Request, NEW j
              PROVE  /\ Accepts(s, j)' <=> Accepts(s, j)
                     /\ s # r => (At(s, "done")' <=> At(s, "done"))
                     /\ At(r, "done")'
            <4>1. CASE s = r
                BY <1>2, <2>6, <4>1 DEF Accepts, At
            <4>2. CASE s # r
                BY <2>6, <4>2 DEF Accepts, At
            <4>3. QED
                BY <4>1, <4>2
        <3>2. ASSUME NEW j \in DOMAIN invites \ shared
              PROVE  /\ \A q, s \in Request : Accepts(q, j)' /\ Accepts(s, j)' => q = s
                     /\ \A s \in Request : Accepts(s, j)' /\ ~At(s, "done")' => admitted'[j] = {}
                     /\ admitted'[j] # {} /\ invites[j].row => \E s \in Request : Accepts(s, j)' /\ At(s, "done")'
                     /\ \A a, b \in admitted'[j] : a = b
            <4>1. /\ \A q, s \in Request : Accepts(q, j) /\ Accepts(s, j) => q = s
                  /\ \A s \in Request : Accepts(s, j) /\ ~At(s, "done") => admitted[j] = {}
                  /\ admitted[j] # {} /\ invites[j].row => \E s \in Request : Accepts(s, j) /\ At(s, "done")
                  /\ \A a, b \in admitted[j] : a = b
                BY <3>2 DEF WorkspaceInv, InviteInv
            <4>2. CASE j = i
                <5>1. Accepts(r, j) /\ Accepts(r, j)' /\ At(r, "done")'
                    BY <1>5, <3>1, <4>2
                <5>2. admitted[j] = {}
                    BY <1>5, <4>1, <5>1
                <5>3. admitted'[j] = {u}
                    BY <2>4, <4>2, <5>2
                <5>4. \A s \in Request : Accepts(s, j)' => s = r
                    BY <3>1, <4>1, <5>1
                <5>5. QED
                    BY <5>1, <5>3, <5>4
            <4>3. CASE j # i
                <5>1. admitted'[j] = admitted[j]
                    BY <2>4, <4>3
                <5>2. ~Accepts(r, j)
                    BY <4>3 DEF Accepts
                <5>3. QED
                    BY <3>1, <4>1, <5>1, <5>2
            <4>4. QED
                BY <4>2, <4>3
        <3>3. QED
            BY <1>1, <3>2 DEF InviteInv
    <2>15. OwnerStays'
        <3>1. \A s \in Request : request'[s] = request[s] \/ ~At(s, "owner")
            BY <1>5, <2>6
        <3>2. QED
            BY <1>1, <2>2, <3>1, OwnerKeeps DEF WorkspaceInv
    <2>16. QED
        BY <2>8, <2>10, <2>11, <2>12, <2>13, <2>14, <2>15 DEF WorkspaceInv
<1>8. QED
    BY <1>6, <1>7

LEMMA EraseStep ==
    ASSUME WorkspaceInv, NEW r \in Request, Erase(r) PROVE WorkspaceInv'
<1> DEFINE u == request[r].user
           Its == Owned(u)
<1>1. /\ At(r, "erase") /\ End(r) /\ UNCHANGED <<started, faults, history>>
      /\ users' = users \ {u}
      /\ companies' = [c \in DOMAIN companies |-> [companies[c] EXCEPT !.row = @ /\ c \notin Its]]
      /\ members' = [m \in DOMAIN members |->
            [members[m] EXCEPT !.row = @ /\ members[m].user # u /\ members[m].company \notin Its]]
      /\ invites' = [i \in DOMAIN invites |->
            [invites[i] EXCEPT !.row = @ /\ invites[i].by # u /\ invites[i].company \notin Its]]
    BY DEF Erase
<1>2. request[r] # Idle /\ Placed(r) /\ request[r].pc = "erase" /\ request[r].kind = "delete"
    BY <1>1, AtPlaced DEF KindsAt, WorkspaceInv
<1>3. UNCHANGED <<twice, crowded, shared, revived, admitted, resigned, unfinished>>
    BY <1>1 DEF history
<1>4. /\ TablesTyped /\ companies \in Seq(Company) /\ members \in Seq(MemberRow) /\ invites \in Seq(InviteRow)
      /\ users \subseteq User
    BY DEF WorkspaceInv, Typed, TablesTyped
<1>5. /\ request' = [s \in Request |-> request'[s]] /\ request'[r] = Idle
      /\ \A s \in Request \ {r} : request'[s] = request[s]
    BY <1>1, Ends DEF WorkspaceInv
<1>6. /\ companies' \in Seq(Company) /\ Len(companies') = Len(companies) /\ DOMAIN companies' = DOMAIN companies
      /\ \A c \in DOMAIN companies : /\ companies'[c].owner = companies[c].owner
                                     /\ companies'[c].row <=> companies[c].row /\ c \notin Its
    <2>1. Len(companies) \in Nat /\ DOMAIN companies = 1..Len(companies)
        BY <1>4
    <2> HIDE DEF Its
    <2>2. \A c \in DOMAIN companies :
             /\ companies'[c] \in Company /\ companies'[c].owner = companies[c].owner
             /\ companies'[c].row <=> companies[c].row /\ c \notin Its
        BY <1>1, <1>4, RowsTyped DEF Company
    <2>3. companies' \in [1..Len(companies) -> Company]
        BY <1>1, <2>1, <2>2
    <2>4. companies' \in Seq(Company) /\ Len(companies') = Len(companies)
        BY <2>1, <2>3
    <2>5. QED
        BY <2>1, <2>2, <2>3, <2>4
<1>7. /\ members' \in Seq(MemberRow) /\ Len(members') = Len(members) /\ DOMAIN members' = DOMAIN members
      /\ \A m \in DOMAIN members :
            /\ members'[m].company = members[m].company /\ members'[m].user = members[m].user
            /\ members'[m].role = members[m].role
            /\ members'[m].row <=> members[m].row /\ members[m].user # u /\ members[m].company \notin Its
    <2>1. Len(members) \in Nat /\ DOMAIN members = 1..Len(members)
        BY <1>4
    <2> HIDE DEF Its, u
    <2>2. \A m \in DOMAIN members :
            /\ members'[m] \in MemberRow
            /\ members'[m].company = members[m].company /\ members'[m].user = members[m].user
            /\ members'[m].role = members[m].role
            /\ members'[m].row <=> members[m].row /\ members[m].user # u /\ members[m].company \notin Its
        BY <1>1, <1>4, RowsTyped DEF MemberRow
    <2>3. members' \in [1..Len(members) -> MemberRow]
        BY <1>1, <2>1, <2>2
    <2>4. members' \in Seq(MemberRow) /\ Len(members') = Len(members)
        BY <2>1, <2>3
    <2>5. QED
        BY <2>1, <2>2, <2>3, <2>4
<1>8. /\ invites' \in Seq(InviteRow) /\ Len(invites') = Len(invites) /\ DOMAIN invites' = DOMAIN invites
      /\ \A i \in DOMAIN invites : /\ invites'[i].company = invites[i].company
                                   /\ invites'[i].row => invites[i].row
    <2>1. Len(invites) \in Nat /\ DOMAIN invites = 1..Len(invites)
        BY <1>4
    <2> HIDE DEF Its, u
    <2>2. \A i \in DOMAIN invites : /\ invites'[i] \in InviteRow
                                    /\ invites'[i].company = invites[i].company
                                    /\ invites'[i].row => invites[i].row
        BY <1>1, <1>4, RowsTyped DEF InviteRow
    <2>3. invites' \in [1..Len(invites) -> InviteRow]
        BY <1>1, <2>1, <2>2
    <2>4. invites' \in Seq(InviteRow) /\ Len(invites') = Len(invites)
        BY <2>1, <2>3
    <2>5. QED
        BY <2>1, <2>2, <2>3, <2>4
<1>9. TablesTyped'
    BY <1>1, <1>4, <1>6, <1>7, <1>8 DEF TablesTyped
<1>10. Grows
    <2>1. users' \subseteq users
        BY <1>1
    <2>2. Len(companies) <= Len(companies') /\ Len(members) <= Len(members') /\ Len(invites) <= Len(invites')
        BY <1>4, <1>6, <1>7, <1>8, Domains
    <2>3. QED
        BY <1>6, <1>7, <1>8, <2>1, <2>2 DEF Grows
<1>11. HistoryTyped'
    BY <1>1, <1>8, <1>9, <1>10, HistorySame DEF WorkspaceInv
<1>12. Typed' /\ (\A pcs : Calm(pcs)) /\ InviteInv'
    BY <1>2, <1>3, <1>5, <1>8, <1>9, <1>10, <1>11, EndsQuietly
<1>13. ASSUME NEW c \in Its PROVE c \in DOMAIN companies /\ companies[c].owner = u
    BY <1>13 DEF Owned
<1>14. ASSUME NEW c \in DOMAIN companies, companies[c].row, c \notin Its PROVE companies[c].owner # u
    BY <1>14 DEF Owned
<1> HIDE DEF Its
<1>15. CompanyInv'
    <2>1. \A c \in DOMAIN companies' : companies'[c].row => companies'[c].owner \in users'
        BY <1>1, <1>6, <1>14 DEF WorkspaceInv, CompanyInv
    <2>2. ASSUME NEW q \in Request, NEW w, Creates(q, w)' PROVE Creates(q, w)
        BY <1>5, <2>2 DEF Creates, At
    <2>3. \A w : Owned(w)' \subseteq Owned(w)
        BY <1>6 DEF Owned
    <2>4. ASSUME NEW w \in User \ twice'
          PROVE  /\ \A a, b \in Owned(w)' : a = b
                 /\ \A q \in Request : Creates(q, w)' => Owned(w)' = {}
                 /\ \A p, q \in Request : Creates(p, w)' /\ Creates(q, w)' => p = q
        <3>1. /\ \A a, b \in Owned(w) : a = b
              /\ \A q \in Request : Creates(q, w) => Owned(w) = {}
              /\ \A p, q \in Request : Creates(p, w) /\ Creates(q, w) => p = q
            BY <1>3 DEF WorkspaceInv, CompanyInv
        <3>2. QED
            BY <2>2, <2>3, <3>1
    <2>5. QED
        BY <2>1, <2>4 DEF CompanyInv
<1>16. EmptyInv'
    <2>1. /\ \A n \in DOMAIN members' : Inhabited(members'[n].company)
          /\ \A j \in DOMAIN invites' : Inhabited(invites'[j].company)
        BY <1>7, <1>8 DEF Inhabited
    <2>2. QED
        BY <1>5, <1>12, <2>1, EmptyKeeps DEF WorkspaceInv
\* A membership that goes here will be refused if a request inserts it again.
<1>17. ReturnInv'
    <2>1. ASSUME NEW m \in DOMAIN members, members[m].row, ~members'[m].row PROVE Lost(m)'
        <3>1. members[m].user = u \/ members[m].company \in Its
            BY <1>7, <2>1
        <3>2. members'[m].user = members[m].user /\ members'[m].company = members[m].company
            BY <1>7
        <3>3. u \notin users'
            BY <1>1
        <3>4. \A c \in Its : ~companies'[c].row
            BY <1>6, <1>13
        <3>5. QED
            BY <3>1, <3>2, <3>3, <3>4 DEF Lost, Refused
    <2>2. QED
        BY <1>3, <1>7, <1>9, <1>10, <1>12, <2>1, ReturnKeeps DEF WorkspaceInv
<1>18. JoinInv'
    BY <1>3, <1>6, <1>7, <1>9, <1>10, <1>12, JoinKeeps DEF WorkspaceInv
\* An owner goes with its companies, and its companies' members with them.
<1>19. OwnerStays'
    <2> SUFFICES ASSUME NEW c \in DOMAIN companies, companies'[c].row, c \notin unfinished \cup resigned,
                        ~\E s \in Request : At(s, "owner")' /\ request'[s].company = c
                 PROVE  \E m \in Memberships(c, companies[c].owner)' : members'[m].role = "Owner"
        BY <1>3, <1>6 DEF OwnerStays
    <2>1. companies[c].row /\ c \notin Its /\ companies'[c].owner = companies[c].owner
        BY <1>6
    <2>2. companies[c].owner # u
        BY <1>14, <2>1
    <2>3. ~\E s \in Request : At(s, "owner") /\ request[s].company = c
        BY <1>2, <1>5 DEF At
    <2>4. PICK m \in Memberships(c, companies[c].owner) : members[m].role = "Owner"
        BY <2>1, <2>3 DEF WorkspaceInv, OwnerStays
    <2>5. m \in DOMAIN members /\ members[m].row /\ members[m].company = c /\ members[m].user = companies[c].owner
        BY <2>4 DEF Memberships
    <2>6. m \in DOMAIN members' /\ members'[m].row /\ members'[m].role = "Owner"
          /\ members'[m].company = c /\ members'[m].user = companies'[c].owner
        BY <1>7, <2>1, <2>2, <2>4, <2>5
    <2>7. m \in Memberships(c, companies[c].owner)'
        BY <2>6 DEF Memberships
    <2>8. QED
        BY <2>6, <2>7
<1>20. QED
    BY <1>12, <1>15, <1>16, <1>17, <1>18, <1>19 DEF WorkspaceInv

-------------------------------------------------------------------------------
(* The specification.                                                       *)

LEMMA WorkspaceInit == Init => WorkspaceInv
<1> SUFFICES ASSUME Init PROVE WorkspaceInv
    OBVIOUS
<1>1. /\ users = User /\ request = [r \in Request |-> Idle] /\ started = 0 /\ faults = 0
      /\ twice = {} /\ crowded = {} /\ shared = {} /\ revived = {} /\ resigned = {} /\ unfinished = {}
    BY DEF Init
<1>2. /\ \A r \in Request : request[r] = Idle
      /\ \A r \in Request : \A pc : ~At(r, pc)
      /\ \A r \in Request : \A u : ~Creates(r, u)
      /\ \A r \in Request : \A m : ~Saves(r, m)
      /\ \A r \in Request : \A c, u : ~Joins(r, c, u)
      /\ \A r \in Request : \A i : ~Accepts(r, i)
    BY <1>1 DEF At, Creates, Saves, Joins, Accepts
<1>3. RequestsTyped
    BY <1>1 DEF RequestsTyped
<1>4. started \in 0..MaxRequests /\ faults \in 0..MaxFaults
    BY <1>1
<1>5. EmptyInv /\ ReturnInv
    BY <1>2 DEF EmptyInv, ReturnInv
<1>6. CASE companies = <<>> /\ members = <<>> /\ invites = <<>> /\ admitted = <<>>
    <2>1. /\ companies \in Seq(Company) /\ members \in Seq(MemberRow) /\ invites \in Seq(InviteRow)
          /\ admitted \in Seq(SUBSET User) /\ Len(admitted) = Len(invites)
          /\ DOMAIN companies = {} /\ DOMAIN members = {} /\ DOMAIN invites = {}
        BY <1>6
    <2>2. Typed
        BY <1>1, <1>3, <1>4, <2>1 DEF Typed, TablesTyped, HistoryTyped
    <2>3. \A u : Owned(u) = {}
        BY <2>1 DEF Owned
    <2>4. CompanyInv
        BY <1>2, <2>1, <2>3 DEF CompanyInv
    <2>5. JoinInv /\ InviteInv /\ OwnerStays
        BY <2>1 DEF JoinInv, InviteInv, OwnerStays
    <2>6. QED
        BY <1>5, <2>2, <2>4, <2>5 DEF WorkspaceInv
<1>7. ASSUME NEW o \in User, NEW m \in User, o # m,
             companies = <<[owner |-> o, row |-> TRUE]>>,
             members = <<[company |-> 1, user |-> o, role |-> "Owner", row |-> TRUE],
                         [company |-> 1, user |-> m, role |-> "Member", row |-> TRUE]>>,
             invites = <<[company |-> 1, by |-> o, role |-> "Member", row |-> TRUE, expired |-> FALSE]>>,
             admitted = <<{}>>
      PROVE  WorkspaceInv
    <2>1. companies \in Seq(Company) /\ DOMAIN companies = {1} /\ companies[1].owner = o /\ companies[1].row
        BY <1>7 DEF Company
    <2>2. /\ members \in Seq(MemberRow) /\ DOMAIN members = {1, 2}
          /\ members[1] = [company |-> 1, user |-> o, role |-> "Owner", row |-> TRUE]
          /\ members[2] = [company |-> 1, user |-> m, role |-> "Member", row |-> TRUE]
        BY <1>7 DEF MemberRow, Role
    <2>3. /\ invites \in Seq(InviteRow) /\ DOMAIN invites = {1} /\ Len(invites) = 1
          /\ invites[1].company = 1
        BY <1>7 DEF InviteRow, Role
    <2>4. admitted \in Seq(SUBSET User) /\ Len(admitted) = 1 /\ admitted[1] = {}
        BY <1>7
    <2>5. TablesTyped
        BY <1>1, <2>1, <2>2, <2>3 DEF TablesTyped
    <2>6. Typed
        BY <1>1, <1>3, <1>4, <2>3, <2>4, <2>5 DEF Typed, HistoryTyped
    <2>7. \A u : Owned(u) \subseteq {1}
        BY <2>1 DEF Owned
    <2>8. CompanyInv
        BY <1>1, <1>2, <2>1, <2>7 DEF CompanyInv
    <2>9. \A c, u : \A k, n \in Memberships(c, u) : k = n
        BY <1>7, <2>2 DEF Memberships
    <2>10. JoinInv
        BY <1>2, <2>9 DEF JoinInv
    <2>11. InviteInv
        BY <1>2, <2>3, <2>4 DEF InviteInv
    <2>12. OwnerStays
        <3>1. 1 \in Memberships(1, o) /\ members[1].role = "Owner"
            BY <2>2 DEF Memberships
        <3>2. QED
            BY <2>1, <3>1 DEF OwnerStays
    <2>13. QED
        BY <1>5, <2>6, <2>8, <2>10, <2>11, <2>12 DEF WorkspaceInv
<1>8. QED
    BY <1>6, <1>7 DEF Init

LEMMA WorkspaceSame ==
    ASSUME WorkspaceInv, UNCHANGED vars PROVE WorkspaceInv'
<1>1. /\ UNCHANGED <<users, companies, members, invites, request, started, faults, twice, crowded, shared,
                     revived, admitted, resigned, unfinished>>
    BY DEF vars, tables, history
<1>2. Typed'
    BY <1>1 DEF WorkspaceInv, Typed, TablesTyped, HistoryTyped, RequestsTyped, Placed
<1>3. CompanyInv' /\ EmptyInv' /\ ReturnInv'
    BY <1>1 DEF WorkspaceInv, CompanyInv, Owned, Creates, At, EmptyInv, Empty, ReturnInv, Saves, Lost, Refused
<1>4. JoinInv' /\ InviteInv' /\ OwnerStays'
    BY <1>1 DEF WorkspaceInv, JoinInv, Joins, Memberships, At, InviteInv, Accepts, OwnerStays
<1>5. QED
    BY <1>2, <1>3, <1>4 DEF WorkspaceInv

LEMMA WorkspaceStep == WorkspaceInv /\ [Next]_vars => WorkspaceInv'
<1> SUFFICES ASSUME WorkspaceInv, [Next]_vars PROVE WorkspaceInv'
    OBVIOUS
<1>1. CASE UNCHANGED vars
    BY <1>1, WorkspaceSame
<1>2. ASSUME NEW i \in DOMAIN invites, InviteExpires(i) PROVE WorkspaceInv'
    BY <1>2, InviteExpiresStep
<1>3. ASSUME NEW r \in Request, Start(r) \/ Fails(r) \/ Erase(r) PROVE WorkspaceInv'
    BY <1>3, StartStep, FailsStep, EraseStep
<1>4. ASSUME NEW r \in Request, Own(r) PROVE WorkspaceInv'
    BY <1>4, FindCompanyStep, CreateCompanyStep, CreateOwnerStep, CheckRightsStep, SaveInviteStep DEF Own
<1>5. ASSUME NEW r \in Request, Accept(r) PROVE WorkspaceInv'
    BY <1>5, FindInviteStep, FindMemberStep, JoinStep, RemoveInviteStep DEF Accept
<1>6. ASSUME NEW r \in Request, Manage(r) PROVE WorkspaceInv'
    BY <1>6, FindTargetStep, SelectTargetStep, SaveTargetStep, RemoveMemberStep DEF Manage
<1>7. QED
    BY <1>1, <1>2, <1>3, <1>4, <1>5, <1>6 DEF Next

\* However the requests interleave, fail and delete users, the tables keep what the
\* requests in progress rely on.
THEOREM WorkspaceInvariant == Spec => []WorkspaceInv
BY WorkspaceInit, WorkspaceStep, PTL DEF Spec

\* Nobody owns two companies or is a member of one twice, but for requests that had both
\* found nothing and the change of role that brings a member back (JoinedOnce of Workspace).
THEOREM WorkspaceJoinedOnce == Spec => []JoinedOnce
<1>1. WorkspaceInv => JoinedOnce
    BY InvJoinedOnce
<1>2. QED
    BY <1>1, WorkspaceInvariant, PTL

\* An invitation admits one user, unless two had found it or its removal was cut off
\* (AdmitsOne of Workspace).
THEOREM WorkspaceAdmitsOne == Spec => []AdmitsOne
<1>1. WorkspaceInv => AdmitsOne
    BY InvAdmitsOne
<1>2. QED
    BY <1>1, WorkspaceInvariant, PTL

\* A company that was set up keeps its owner as a member with the role of an owner, unless
\* the owner gives it up itself (OwnerStays of Workspace).
THEOREM WorkspaceOwnerStays == Spec => []OwnerStays
<1>1. WorkspaceInv => OwnerStays
    BY DEF WorkspaceInv
<1>2. QED
    BY <1>1, WorkspaceInvariant, PTL

=============================================================================
