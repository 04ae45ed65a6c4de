----------------------------- MODULE RealtimeProofs -----------------------------
(***************************************************************************)
(* That a socket enters a guild's room, and a snapshot is read, by right, and *)
(* what sockets in the room are told, for every number of parameters, sockets,  *)
(* requests, writers and faults.                                             *)
(***************************************************************************)
EXTENDS Realtime, TLAPS

AccessType ==
    /\ owner \in BOOLEAN /\ rights \in BOOLEAN /\ listed \in {"none", "yes", "no"}
    /\ check \in [Checker -> {"none", "asked", "missed", "yes", "no", "granted"}]

(* Each yes, cached, answered or granted, rests on rights the user had while it *)
(* was around, or on the guild being its own.                                *)
Rightful ==
    /\ rights \in lately
    /\ listed = "yes" => TRUE \in lately
    /\ \A a \in Checker : check[a] = "yes" => TRUE \in lately
    /\ \A a \in Checker : check[a] = "granted" => owner \/ TRUE \in lately

AccessInv == AccessType /\ Rightful

-------------------------------------------------------------------------------
\* Whatever the checks, the list and the rights become, the new value of lately has the
\* new rights, and forgets only what no list and no check holds.
LEMMA ChecksKeep ==
    ASSUME NEW checks \in [Checker -> {"none", "asked", "missed", "yes", "no", "granted"}],
           NEW list \in {"none", "yes", "no"}, NEW may \in BOOLEAN,
           AccessInv, Checks(checks, list, may), owner' = owner,
           list = "yes" => listed = "yes" \/ \E b \in Checker : check[b] = "yes",
           \A b \in Checker : checks[b] = "yes" =>
              check[b] = "yes" \/ may = TRUE,
           \A b \in Checker : checks[b] = "granted" =>
              check[b] \in {"yes", "granted"} \/ listed = "yes" \/ owner
    PROVE  AccessInv'
<1>1. AccessType'
    BY DEF AccessInv, AccessType, Checks
<1>2. CASE list = "none" /\ \A a \in Checker : checks[a] \in {"none", "asked", "missed"}
    <2>1. lately' = {may}
        BY <1>2 DEF Checks
    <2>2. /\ rights' = may /\ listed' # "yes"
          /\ \A a \in Checker : check'[a] \notin {"yes", "granted"}
        BY <1>2 DEF Checks
    <2>3. QED
        BY <1>1, <2>1, <2>2 DEF AccessInv, Rightful
<1>3. CASE ~(list = "none" /\ \A a \in Checker : checks[a] \in {"none", "asked", "missed"})
    <2>1. lately' = lately \cup {may}
        BY <1>3 DEF Checks
    <2>2. rights' = may /\ listed' = list /\ check' = checks
        BY DEF Checks
    <2>3. QED
        BY <1>1, <2>1, <2>2 DEF AccessInv, Rightful
<1>4. QED
    BY <1>2, <1>3

\* One check gets the answer v: the shape of all steps but three.
LEMMA CheckMoves ==
    ASSUME AccessInv, owner' = owner, NEW a \in Checker,
           NEW v \in {"none", "asked", "missed", "yes", "no", "granted"},
           NEW list \in {"none", "yes", "no"},
           Checks([check EXCEPT ![a] = v], list, rights),
           list = "yes" => listed = "yes" \/ check[a] = "yes",
           v = "yes" => rights = TRUE,
           v = "granted" => owner \/ listed = "yes" \/ check[a] \in {"yes", "granted"}
    PROVE  AccessInv'
<1> DEFINE checks == [check EXCEPT ![a] = v]
<1>1. checks \in [Checker -> {"none", "asked", "missed", "yes", "no", "granted"}]
    BY DEF AccessInv, AccessType
<1>2. \A b \in Checker : checks[b] = IF b = a THEN v ELSE check[b]
    BY DEF AccessInv, AccessType
<1>3. Checks(checks, list, rights) /\ rights \in BOOLEAN
    BY DEF AccessInv, AccessType
<1> HIDE DEF checks
<1>4. /\ \A b \in Checker : checks[b] = "yes" => check[b] = "yes" \/ rights = TRUE
      /\ \A b \in Checker : checks[b] = "granted" =>
            check[b] \in {"yes", "granted"} \/ listed = "yes" \/ owner
    BY <1>2
<1>5. QED
    BY <1>1, <1>3, <1>4, ChecksKeep

\* What does not concern the user's rights leaves them alone.
LEMMA AccessUnchanged ==
    ASSUME AccessInv, UNCHANGED access PROVE AccessInv'
BY DEF AccessInv, AccessType, Rightful, access

LEMMA AccessInit == Init => AccessInv
BY DEF Init, AccessInv, AccessType, Rightful

LEMMA PublishersKeep ==
    ASSUME AccessInv, Publishers PROVE AccessInv'
BY AccessUnchanged DEF Publishers, Publish, Write, SaveFails

LEMMA ServerKeeps ==
    ASSUME AccessInv, Server PROVE AccessInv'
<1>1. CASE Restart
    <2> DEFINE none == [a \in Checker |-> "none"]
    <2>1. Checks(none, listed, rights) /\ owner' = owner
        BY <1>1 DEF Restart
    <2>2. /\ none \in [Checker -> {"none", "asked", "missed", "yes", "no", "granted"}]
          /\ \A a \in Checker : none[a] = "none"
        OBVIOUS
    <2>3. listed \in {"none", "yes", "no"} /\ rights \in BOOLEAN
        BY DEF AccessInv, AccessType
    <2> HIDE DEF none
    <2>4. QED
        BY <2>1, <2>2, <2>3, ChecksKeep
<1>2. CASE Subscribe \/ AfterInit \/ Drain \/ Listen \/ Arrive \/ Unsubscribed
    BY <1>2, AccessUnchanged DEF Subscribe, AfterInit, Drain, Listen, Arrive, Unsubscribed
<1>3. QED
    BY <1>1, <1>2 DEF Server

LEMMA RightsKeep ==
    ASSUME AccessInv, Rights PROVE AccessInv'
<1>0. /\ listed \in {"none", "yes", "no"} /\ rights \in BOOLEAN
      /\ check \in [Checker -> {"none", "asked", "missed", "yes", "no", "granted"}]
    BY DEF AccessInv, AccessType
<1>1. CASE ListExpires
    <2>1. Checks(check, "none", rights) /\ owner' = owner
        BY <1>1 DEF ListExpires
    <2>2. QED
        BY <1>0, <2>1, ChecksKeep
<1>2. CASE RightsChange
    <2>1. Checks(check, listed, ~rights) /\ owner' = owner
        BY <1>2 DEF RightsChange
    <2>2. (~rights) \in BOOLEAN
        OBVIOUS
    <2>3. QED
        BY <1>0, <2>1, <2>2, ChecksKeep
<1>3. ASSUME NEW a \in Checker, Hit(a) PROVE AccessInv'
    <2> DEFINE v == IF listed = "yes" THEN "granted" ELSE "none"
    <2>1. Checks([check EXCEPT ![a] = v], listed, rights) /\ owner' = owner
        BY <1>3 DEF Hit
    <2>2. v \in {"none", "granted"} /\ (v = "granted" => listed = "yes")
        OBVIOUS
    <2> HIDE DEF v
    <2>3. QED
        BY <1>0, <2>1, <2>2, CheckMoves
<1>4. ASSUME NEW a \in Checker, Miss(a) PROVE AccessInv'
    <2>1. Checks([check EXCEPT ![a] = "missed"], listed, rights) /\ owner' = owner
        BY <1>4 DEF Miss
    <2>2. QED
        BY <1>0, <2>1, CheckMoves
<1>5. ASSUME NEW a \in Checker, GetUserGuilds(a) PROVE AccessInv'
    <2> DEFINE v == IF rights THEN "yes" ELSE "no"
    <2>1. Checks([check EXCEPT ![a] = v], listed, rights) /\ owner' = owner
        BY <1>5 DEF GetUserGuilds
    <2>2. v \in {"yes", "no"} /\ (v = "yes" => rights = TRUE)
        BY <1>0
    <2> HIDE DEF v
    <2>3. QED
        BY <1>0, <2>1, <2>2, CheckMoves
<1>6. ASSUME NEW a \in Checker, SetList(a) PROVE AccessInv'
    <2> DEFINE v == IF check[a] = "yes" THEN "granted" ELSE "none"
    <2>1. /\ Checks([check EXCEPT ![a] = v], check[a], rights) /\ owner' = owner
          /\ check[a] \in {"yes", "no"}
        BY <1>6, <1>0 DEF SetList
    <2>2. v \in {"none", "granted"} /\ (v = "granted" => check[a] = "yes")
        OBVIOUS
    <2> HIDE DEF v
    <2>3. QED
        BY <1>0, <2>1, <2>2, CheckMoves
<1>7. ASSUME NEW a \in Checker, CheckFails(a) PROVE AccessInv'
    <2>1. Checks([check EXCEPT ![a] = "none"], listed, rights) /\ owner' = owner
        BY <1>7 DEF CheckFails
    <2>2. QED
        BY <1>0, <2>1, CheckMoves
<1>8. QED
    BY <1>1, <1>2, <1>3, <1>4, <1>5, <1>6, <1>7 DEF Rights

\* Ask and Request: the owner is let in, others are checked.
LEMMA Asked ==
    ASSUME AccessInv, NEW a \in Checker, owner' = owner,
           Checks([check EXCEPT ![a] = IF owner THEN "granted" ELSE "asked"], listed, rights)
    PROVE  AccessInv'
<1> DEFINE v == IF owner THEN "granted" ELSE "asked"
<1>1. v \in {"granted", "asked"} /\ (v = "granted" => owner)
    OBVIOUS
<1>2. Checks([check EXCEPT ![a] = v], listed, rights)
    OBVIOUS
<1> HIDE DEF v
<1>3. listed \in {"none", "yes", "no"}
    BY DEF AccessInv, AccessType
<1>4. QED
    BY <1>1, <1>2, <1>3, CheckMoves

\* Join and ReadGuild: a check is over.
LEMMA Entered ==
    ASSUME AccessInv, NEW a \in Checker, owner' = owner,
           Checks([check EXCEPT ![a] = "none"], listed, rights)
    PROVE  AccessInv'
BY CheckMoves DEF AccessInv, AccessType

LEMMA SocketsKeep ==
    ASSUME AccessInv, Sockets PROVE AccessInv'
<1>1. ASSUME NEW c \in Client, Ask(c) PROVE AccessInv'
    BY <1>1, Asked DEF Ask, Checker
<1>2. ASSUME NEW c \in Client, Join(c) PROVE AccessInv'
    BY <1>2, Entered DEF Join, Checker
<1>3. ASSUME NEW c \in Client, Connect(c) \/ Disconnect(c) PROVE AccessInv'
    BY <1>3, AccessUnchanged DEF Connect, Disconnect
<1>4. QED
    BY <1>1, <1>2, <1>3 DEF Sockets

LEMMA RequestsKeep ==
    ASSUME AccessInv, Requests PROVE AccessInv'
<1>1. ASSUME NEW s \in Snapshot, Request(s) PROVE AccessInv'
    BY <1>1, Asked DEF Request, Checker
<1>2. ASSUME NEW s \in Snapshot, ReadGuild(s) PROVE AccessInv'
    BY <1>2, Entered DEF ReadGuild, Checker
<1>3. ASSUME NEW s \in Snapshot, ReadSettings(s) \/ SnapshotFails(s) \/ EmitFullState(s)
      PROVE  AccessInv'
    BY <1>3, AccessUnchanged DEF ReadSettings, SnapshotFails, EmitFullState
<1>4. QED
    BY <1>1, <1>2, <1>3 DEF Requests

LEMMA AccessNext == AccessInv /\ [Next]_vars => AccessInv'
<1> SUFFICES ASSUME AccessInv, [Next]_vars PROVE AccessInv'
    OBVIOUS
<1>1. CASE Next
    BY <1>1, PublishersKeep, ServerKeeps, RightsKeep, SocketsKeep, RequestsKeep DEF Next
<1>2. CASE UNCHANGED vars
    BY <1>2, AccessUnchanged DEF vars
<1>3. QED
    BY <1>1, <1>2

\* The inductive invariant: a list that says yes, a check that got one and a check that
\* was granted each rest on rights the user had since the list, or the check, began, or
\* on the guild being its own.
THEOREM Righted == Spec => []AccessInv
BY AccessInit, AccessNext, PTL DEF Spec

\* The invariant forbids a granted check without a right, so none can end by entering.
THEOREM ByRight == Spec => EntersByRight
<1>1. ASSUME AccessInv, NEW a \in Checker, check[a] = "granted"
      PROVE  owner \/ TRUE \in lately
    BY <1>1 DEF AccessInv, Rightful
<1>2. AccessInv => [\A a \in Checker : check[a] = "granted" /\ check'[a] = "none" =>
                        owner \/ TRUE \in lately]_vars
    BY <1>1
<1>3. QED
    BY <1>2, Righted, PTL DEF EntersByRight

-------------------------------------------------------------------------------
(* What sockets are told.                                                   *)

Publication(n) == [pc : {"publish"}, parameter : Parameter, value : 1..n]
Message(n) == [parameter : Parameter, value : 1..n]
Reading(n) == [pc : {"guild", "settings"}, read : [Parameter -> 0..n], old : SUBSET Parameter]

(* The types of what is told; those of the rights are AccessType.              *)
Typed ==
    /\ row \in [Parameter -> 0..writes]
    /\ writer \in [Writer -> {Idle} \cup Publication(writes)]
    /\ channel \in Seq(Message(writes)) /\ queue \in Seq(Message(writes))
    /\ subscribed \in BOOLEAN /\ drained \in BOOLEAN
    /\ phase \in {"starting", "serving", "listening"}
    /\ client \in [Client -> {"off", "connected", "joined"}]
    /\ view \in [Client -> [Parameter -> {Unset} \cup 0..writes]]
    /\ snapshot \in [Snapshot -> {Idle} \cup Reading(writes)]
    /\ lately \subseteq BOOLEAN
    /\ writes \in 0..MaxWrites /\ breaks \in 0..MaxBreaks
    /\ astray \subseteq Parameter

(* Nobody is connected before the queue has been drained, and nobody in the room *)
(* asks for admission.                                                      *)
Gated ==
    /\ phase = "starting" => ~drained
    /\ phase = "listening" => drained
    /\ drained => queue = <<>>
    /\ \A c \in Client : client[c] # "off" => phase = "listening"
    /\ \A c \in Client : check[c] # "none" => client[c] # "joined"

(* What a request has read and nobody wrote since is what is stored.           *)
Current ==
    \A s \in Snapshot, p \in Parameter :
       Read(s, p) /\ p \notin snapshot[s].old => snapshot[s].read[p] = row[p]

(* The last value of a parameter that is on its way, or was told, is the stored one. *)
Publishes(w, p) == writer[w] # Idle /\ writer[w].parameter = p
IsLast(seq, i) == \A j \in DOMAIN seq : j > i => seq[j].parameter # seq[i].parameter
Latest(p) ==
    \A i \in DOMAIN channel :
       channel[i].parameter = p /\ IsLast(channel, i) => channel[i].value = row[p]
Settled(p) ==
    /\ \A w \in Writer : Publishes(w, p) => writer[w].value = row[p]
    /\ \A v, w \in Writer : Publishes(v, p) /\ Publishes(w, p) => v = w
    /\ ~Publishing(p) => Latest(p)
    /\ ~InFlight(p) => \A c \in Room : view[c][p] \in {Unset, row[p]}

ViewInv == Typed /\ Gated /\ Current /\ \A p \in Parameter \ astray : Settled(p)

-------------------------------------------------------------------------------
(* Types.                                                                   *)

LEMMA Grows ==
    ASSUME NEW n \in Nat
    PROVE  /\ 0..n \subseteq 0..(n + 1) /\ 1..n \subseteq 1..(n + 1)
           /\ Publication(n) \subseteq Publication(n + 1)
           /\ Reading(n) \subseteq Reading(n + 1)
           /\ Seq(Message(n)) \subseteq Seq(Message(n + 1))
<1>1. 0..n \subseteq 0..(n + 1) /\ 1..n \subseteq 1..(n + 1)
    OBVIOUS
<1>2. Publication(n) \subseteq Publication(n + 1) /\ Message(n) \subseteq Message(n + 1)
    BY <1>1 DEF Publication, Message
<1>3. \A f \in [Parameter -> 0..n] : f \in [Parameter -> 0..(n + 1)]
    BY <1>1
<1>4. Reading(n) \subseteq Reading(n + 1)
    BY <1>3 DEF Reading
<1>5. \A q \in Seq(Message(n)) : q \in Seq(Message(n + 1))
    BY <1>2
<1>6. QED
    BY <1>1, <1>2, <1>4, <1>5

LEMMA NumbersOfWrites == Typed => writes \in Nat /\ breaks \in Nat
BY RealtimeAssumption DEF Typed

LEMMA ParamsOf ==
    ASSUME NEW n, NEW q \in Seq(Message(n))
    PROVE  Params(q) \subseteq Parameter
<1>1. \A i \in DOMAIN q : q[i] \in Message(n)
    OBVIOUS
<1>2. QED
    BY <1>1 DEF Params, Message

\* One message told to the room.
LEMMA EmitOne ==
    ASSUME Typed, NEW h, Emit(<<h>>)
    PROVE  view' = [c \in Client |-> [p \in Parameter |->
                      IF c \in Room /\ p = h.parameter THEN h.value ELSE view[c][p]]]
<1>1. Params(<<h>>) = {h.parameter}
    BY DEF Params
<1> DEFINE I == {i \in 1..Len(<<h>>) : <<h>>[i].parameter = h.parameter}
<1>2. I = {1}
    OBVIOUS
<1>3. Max(I) = 1
    BY <1>2 DEF Max
<1>4. SelectLastInSeq(<<h>>, LAMBDA m : m.parameter = h.parameter) = 1
    BY <1>2, <1>3 DEF SelectLastInSeq
<1>5. ValueIn(<<h>>, h.parameter) = h.value
    BY <1>4 DEF ValueIn
<1>6. \A p \in Parameter : p \in Params(<<h>>) <=> p = h.parameter
    BY <1>1
<1>7. QED
    BY <1>5, <1>6 DEF Emit

\* Nobody is in the room before the queue has been drained.
LEMMA EmitNone ==
    ASSUME Typed, Gated, ~drained, NEW q, Emit(q)
    PROVE  view' = view
<1>1. Room = {}
    BY DEF Room, Gated
<1>2. view' = [c \in Client |-> [p \in Parameter |-> view[c][p]]]
    BY <1>1 DEF Emit
<1>3. QED
    BY <1>2 DEF Typed

\* Only the checks change what counts as had.
LEMMA LatelyTyped ==
    ASSUME AccessInv, lately \subseteq BOOLEAN, [Next]_vars
    PROVE  lately' \subseteq BOOLEAN
<1>1. AccessInv'
    BY AccessNext
<1>2. lately' = lately \/ lately' = {rights'} \/ lately' = lately \cup {rights'}
    BY DEF Next, vars, Publishers, Publish, Write, SaveFails, access, Server, Subscribe,
           AfterInit, Drain, Listen, Arrive, Unsubscribed, Restart, Rights, Checks, Hit, Miss,
           GetUserGuilds, SetList, CheckFails, ListExpires, RightsChange, Sockets, Connect,
           Ask, Join, Disconnect, Requests, Request, ReadGuild, ReadSettings, SnapshotFails,
           EmitFullState
<1>3. QED
    BY <1>1, <1>2 DEF AccessInv, AccessType

\* A value is made: the numbers grow.
LEMMA MakeTyped ==
    ASSUME Typed, NEW w \in Writer, NEW p \in Parameter, writes < MaxWrites,
           writes' = writes + 1,
           writer' = [writer EXCEPT ![w] = [pc |-> "publish", parameter |-> p, value |-> writes + 1]]
    PROVE  /\ writes' \in 0..MaxWrites
           /\ writer' \in [Writer -> {Idle} \cup Publication(writes')]
           /\ row \in [Parameter -> 0..writes'] /\ writes + 1 \in 0..writes'
           /\ channel \in Seq(Message(writes')) /\ queue \in Seq(Message(writes'))
           /\ view \in [Client -> [Parameter -> {Unset} \cup 0..writes']]
           /\ snapshot \in [Snapshot -> {Idle} \cup Reading(writes')]
<1>1. writes \in Nat /\ MaxWrites \in Nat
    BY NumbersOfWrites, RealtimeAssumption
<1>2. /\ 0..writes \subseteq 0..writes' /\ 1..writes \subseteq 1..writes'
      /\ Publication(writes) \subseteq Publication(writes')
      /\ Reading(writes) \subseteq Reading(writes')
      /\ Seq(Message(writes)) \subseteq Seq(Message(writes'))
    BY <1>1, Grows
<1>3. [pc |-> "publish", parameter |-> p, value |-> writes + 1] \in Publication(writes')
    BY <1>1 DEF Publication
<1>4. writer' \in [Writer -> {Idle} \cup Publication(writes')]
    BY <1>2, <1>3 DEF Typed
<1>5. view \in [Client -> [Parameter -> {Unset} \cup 0..writes']]
    <2>1. \A f \in [Parameter -> {Unset} \cup 0..writes] : f \in [Parameter -> {Unset} \cup 0..writes']
        BY <1>2
    <2>2. QED
        BY <2>1 DEF Typed
<1>6. /\ row \in [Parameter -> 0..writes']
      /\ channel \in Seq(Message(writes')) /\ queue \in Seq(Message(writes'))
      /\ snapshot \in [Snapshot -> {Idle} \cup Reading(writes')]
    BY <1>2 DEF Typed
<1>7. writes' \in 0..MaxWrites /\ writes + 1 \in 0..writes'
    BY <1>1
<1>8. QED
    BY <1>4, <1>5, <1>6, <1>7

\* Overtake marks requests.
LEMMA OvertakeTyped ==
    ASSUME NEW n, snapshot \in [Snapshot -> {Idle} \cup Reading(n)], NEW p \in Parameter,
           Overtake(p)
    PROVE  /\ snapshot' \in [Snapshot -> {Idle} \cup Reading(n)]
           /\ \A s \in Snapshot :
                 snapshot'[s] = IF Read(s, p)
                                THEN [snapshot[s] EXCEPT !.old = @ \cup {p}] ELSE snapshot[s]
<1>1. ASSUME NEW s \in Snapshot, Read(s, p)
      PROVE  [snapshot[s] EXCEPT !.old = @ \cup {p}] \in Reading(n)
    <2>1. snapshot[s] # Idle
        BY <1>1 DEF Read, Idle
    <2>2. snapshot[s] \in Reading(n)
        BY <2>1
    <2>3. QED
        BY <2>2 DEF Reading
<1>2. QED
    BY <1>1 DEF Overtake

LEMMA PublishersTyped ==
    ASSUME Typed, lately' \subseteq BOOLEAN, Publishers PROVE Typed'
<1>1. ASSUME NEW w \in Writer, NEW p \in Parameter, Write(w, p) PROVE Typed'
    <2>1. /\ writes < MaxWrites /\ writes' = writes + 1
          /\ writer' = [writer EXCEPT ![w] = [pc |-> "publish", parameter |-> p, value |-> writes + 1]]
          /\ row' = [row EXCEPT ![p] = writes + 1]
          /\ Overtake(p) /\ UNCHANGED <<channel, subscribed, process, sockets, breaks>>
          /\ astray' = IF Publishing(p) THEN astray \cup {p} ELSE astray \ {p}
        BY <1>1 DEF Write
    <2>2. /\ writes' \in 0..MaxWrites
          /\ writer' \in [Writer -> {Idle} \cup Publication(writes')]
          /\ row \in [Parameter -> 0..writes'] /\ writes + 1 \in 0..writes'
          /\ channel \in Seq(Message(writes')) /\ queue \in Seq(Message(writes'))
          /\ view \in [Client -> [Parameter -> {Unset} \cup 0..writes']]
          /\ snapshot \in [Snapshot -> {Idle} \cup Reading(writes')]
        BY <2>1, MakeTyped
    <2>3. snapshot' \in [Snapshot -> {Idle} \cup Reading(writes')]
        BY <2>1, <2>2, OvertakeTyped
    <2>4. row' \in [Parameter -> 0..writes']
        BY <2>1, <2>2
    <2>5. astray' \subseteq Parameter
        BY <2>1 DEF Typed
    <2>6. /\ UNCHANGED <<channel, queue, view, subscribed, drained, phase, client, breaks>>
        BY <2>1 DEF process, sockets
    <2>7. QED
        BY <2>2, <2>3, <2>4, <2>5, <2>6 DEF Typed
<1>2. ASSUME NEW w \in Writer, NEW p \in Parameter, SaveFails(w, p) PROVE Typed'
    <2>1. /\ writes < MaxWrites /\ writes' = writes + 1
          /\ writer' = [writer EXCEPT ![w] = [pc |-> "publish", parameter |-> p, value |-> writes + 1]]
          /\ Breaks /\ UNCHANGED <<row, channel, subscribed, process, sockets, snapshot>>
          /\ astray' = astray \cup {p}
        BY <1>2 DEF SaveFails
    <2>2. /\ writes' \in 0..MaxWrites
          /\ writer' \in [Writer -> {Idle} \cup Publication(writes')]
          /\ row \in [Parameter -> 0..writes'] /\ writes + 1 \in 0..writes'
          /\ channel \in Seq(Message(writes')) /\ queue \in Seq(Message(writes'))
          /\ view \in [Client -> [Parameter -> {Unset} \cup 0..writes']]
          /\ snapshot \in [Snapshot -> {Idle} \cup Reading(writes')]
        BY <2>1, MakeTyped
    <2>3. breaks' \in 0..MaxBreaks
        BY <2>1, RealtimeAssumption DEF Breaks, Typed
    <2>4. astray' \subseteq Parameter
        BY <2>1 DEF Typed
    <2>5. UNCHANGED <<row, channel, queue, view, subscribed, drained, phase, client, snapshot>>
        BY <2>1 DEF process, sockets
    <2>6. QED
        BY <2>2, <2>3, <2>4, <2>5 DEF Typed
<1>3. ASSUME NEW w \in Writer, Publish(w) PROVE Typed'
    <2> DEFINE m == [parameter |-> writer[w].parameter, value |-> writer[w].value]
    <2>1. /\ writer[w] # Idle /\ writer' = [writer EXCEPT ![w] = Idle]
          /\ \/ channel' = Append(channel, m) /\ UNCHANGED astray
             \/ astray' = astray \cup {m.parameter} /\ UNCHANGED channel
          /\ UNCHANGED <<row, writes, subscribed, process, sockets, snapshot, breaks>>
        BY <1>3 DEF Publish
    <2>2. writer[w] \in Publication(writes)
        BY <2>1 DEF Typed
    <2>3. m \in Message(writes) /\ m.parameter \in Parameter
        BY <2>2 DEF Publication, Message
    <2> HIDE DEF m
    <2>4. channel' \in Seq(Message(writes)) /\ astray' \subseteq Parameter
        <3>1. channel \in Seq(Message(writes)) /\ astray \subseteq Parameter
            BY DEF Typed
        <3>2. CASE channel' = Append(channel, m) /\ UNCHANGED astray
            BY <2>3, <3>1, <3>2
        <3>3. CASE astray' = astray \cup {m.parameter} /\ UNCHANGED channel
            BY <2>3, <3>1, <3>3
        <3>4. QED
            BY <2>1, <3>2, <3>3
    <2>5. writer' \in [Writer -> {Idle} \cup Publication(writes)]
        BY <2>1 DEF Typed
    <2>6. UNCHANGED <<row, writes, queue, view, subscribed, drained, phase, client, snapshot, breaks>>
        BY <2>1 DEF process, sockets
    <2>7. QED
        BY <2>4, <2>5, <2>6 DEF Typed
<1>4. QED
    BY <1>1, <1>2, <1>3 DEF Publishers

LEMMA ServerTyped ==
    ASSUME Typed, Gated, lately' \subseteq BOOLEAN, Server PROVE Typed'
<1>1. CASE Subscribe \/ AfterInit \/ Listen
    BY <1>1 DEF Subscribe, AfterInit, Listen, Typed, publishers, process, sockets
<1>2. CASE Drain
    <2>1. view' = view
        BY <1>2, EmitNone DEF Drain
    <2>2. <<>> \in Seq(Message(writes))
        OBVIOUS
    <2>3. QED
        BY <1>2, <2>1, <2>2 DEF Drain, Typed, publishers
<1>3. CASE Arrive
    <2>1. channel \in Seq(Message(writes)) /\ channel # <<>> /\ queue \in Seq(Message(writes))
        BY <1>3 DEF Arrive, Typed
    <2>2. Head(channel) \in Message(writes) /\ Tail(channel) \in Seq(Message(writes))
        BY <2>1
    <2>3. queue' \in Seq(Message(writes))
        <3>1. queue' = Append(queue, Head(channel)) \/ queue' = queue
            BY <1>3 DEF Arrive
        <3>2. QED
            BY <2>1, <2>2, <3>1
    <2>4. view' \in [Client -> [Parameter -> {Unset} \cup 0..writes]]
        <3>1. view \in [Client -> [Parameter -> {Unset} \cup 0..writes]] /\ writes \in Nat
            BY NumbersOfWrites DEF Typed
        <3>2. Head(channel).value \in {Unset} \cup 0..writes
            BY <2>2, <3>1 DEF Message
        <3>3. CASE Emit(<<Head(channel)>>)
            BY <3>1, <3>2, <3>3, EmitOne
        <3>4. QED
            BY <1>3, <3>1, <3>3 DEF Arrive
    <2>5. QED
        BY <1>3, <2>2, <2>3, <2>4 DEF Arrive, Typed, publishers
<1>4. CASE Unsubscribed
    <2>1. breaks' \in 0..MaxBreaks
        BY <1>4, RealtimeAssumption DEF Unsubscribed, Breaks, Typed
    <2>2. Params(channel) \subseteq Parameter
        BY ParamsOf DEF Typed
    <2>3. <<>> \in Seq(Message(writes))
        OBVIOUS
    <2>4. QED
        BY <1>4, <2>1, <2>2, <2>3 DEF Unsubscribed, Typed, publishers, process, sockets
<1>5. CASE Restart
    <2>1. breaks' \in 0..MaxBreaks
        BY <1>5, RealtimeAssumption DEF Restart, Breaks, Typed
    <2>2. Params(channel) \subseteq Parameter /\ Params(queue) \subseteq Parameter
        BY ParamsOf DEF Typed
    <2>3. <<>> \in Seq(Message(writes))
        OBVIOUS
    <2>4. snapshot' \in [Snapshot -> {Idle} \cup Reading(writes)]
        BY <1>5 DEF Restart
    <2>5. client' \in [Client -> {"off", "connected", "joined"}]
        BY <1>5 DEF Restart
    <2>6. QED
        BY <1>5, <2>1, <2>2, <2>3, <2>4, <2>5 DEF Restart, Typed, publishers
<1>6. QED
    BY <1>1, <1>2, <1>3, <1>4, <1>5 DEF Server

LEMMA RightsTyped ==
    ASSUME Typed, lately' \subseteq BOOLEAN, Rights PROVE Typed'
<1>1. /\ UNCHANGED <<publishers, channel, subscribed, process, sockets, snapshot, astray>>
      /\ UNCHANGED breaks \/ Breaks
    BY DEF Rights, ListExpires, RightsChange, Hit, Miss, GetUserGuilds, SetList, CheckFails
<1>2. breaks' \in 0..MaxBreaks
    BY <1>1, RealtimeAssumption DEF Breaks, Typed
<1>3. QED
    BY <1>1, <1>2 DEF Typed, publishers, process, sockets

LEMMA SocketsTyped ==
    ASSUME Typed, lately' \subseteq BOOLEAN, Sockets PROVE Typed'
<1>1. ASSUME NEW c \in Client, Connect(c) \/ Ask(c) \/ Disconnect(c) PROVE Typed'
    <2>1. client' \in [Client -> {"off", "connected", "joined"}] /\ view' = view
        BY <1>1 DEF Connect, Ask, Disconnect, Typed, sockets
    <2>2. UNCHANGED <<publishers, channel, subscribed, process, snapshot, breaks, astray>>
        BY <1>1 DEF Connect, Ask, Disconnect
    <2>3. QED
        BY <2>1, <2>2 DEF Typed, publishers, process
<1>2. ASSUME NEW c \in Client, Join(c) PROVE Typed'
    <2>1. client' \in [Client -> {"off", "connected", "joined"}]
        BY <1>2 DEF Join, Typed, sockets
    <2>2. view' \in [Client -> [Parameter -> {Unset} \cup 0..writes]]
        <3> DEFINE unset == [p \in Parameter |-> Unset]
        <3>1. unset \in [Parameter -> {Unset} \cup 0..writes]
            OBVIOUS
        <3>2. view' = view \/ view' = [view EXCEPT ![c] = unset]
            BY <1>2 DEF Join, sockets
        <3> HIDE DEF unset
        <3>3. QED
            BY <3>1, <3>2 DEF Typed
    <2>3. UNCHANGED <<publishers, channel, subscribed, process, snapshot, breaks, astray>>
        BY <1>2 DEF Join
    <2>4. QED
        BY <2>1, <2>2, <2>3 DEF Typed, publishers, process
<1>3. QED
    BY <1>1, <1>2 DEF Sockets

LEMMA RequestsTyped ==
    ASSUME Typed, lately' \subseteq BOOLEAN, Requests PROVE Typed'
<1>0. /\ row \in [Parameter -> 0..writes] /\ writes \in Nat
      /\ snapshot \in [Snapshot -> {Idle} \cup Reading(writes)]
    BY NumbersOfWrites DEF Typed
<1>1. ASSUME NEW s \in Snapshot, Request(s) PROVE Typed'
    BY <1>1 DEF Request, Typed, publishers, process, sockets
<1>2. ASSUME NEW s \in Snapshot, ReadGuild(s) PROVE Typed'
    <2>1. [pc |-> "guild", read |-> row, old |-> {}] \in Reading(writes)
        BY <1>0 DEF Reading
    <2>2. snapshot' \in [Snapshot -> {Idle} \cup Reading(writes)]
        BY <1>0, <1>2, <2>1 DEF ReadGuild
    <2>3. QED
        BY <1>2, <2>2 DEF ReadGuild, Typed, publishers, process, sockets
<1>3. ASSUME NEW s \in Snapshot, ReadSettings(s) PROVE Typed'
    <2> DEFINE merged == [p \in Parameter |-> IF p \in OfSettings THEN row[p] ELSE snapshot[s].read[p]]
               q == [snapshot[s] EXCEPT !.pc = "settings", !.read = merged]
    <2>1. snapshot[s] \in Reading(writes)
        BY <1>0, <1>3 DEF ReadSettings, Idle
    <2>2. merged \in [Parameter -> 0..writes]
        BY <1>0, <2>1 DEF Reading
    <2>3. snapshot' = [snapshot EXCEPT ![s] = q]
        BY <1>0, <1>3, <2>1 DEF ReadSettings, Reading
    <2> HIDE DEF merged
    <2>4. q \in Reading(writes)
        BY <2>1, <2>2 DEF Reading
    <2> HIDE DEF q
    <2>5. snapshot' \in [Snapshot -> {Idle} \cup Reading(writes)]
        BY <1>0, <2>3, <2>4
    <2>6. QED
        BY <1>3, <2>5 DEF ReadSettings, Typed, publishers, process, sockets
<1>4. ASSUME NEW s \in Snapshot, SnapshotFails(s) PROVE Typed'
    <2>1. breaks' \in 0..MaxBreaks
        BY <1>4, RealtimeAssumption DEF SnapshotFails, Breaks, Typed
    <2>2. QED
        BY <1>4, <2>1 DEF SnapshotFails, Typed, publishers, process, sockets
<1>5. ASSUME NEW s \in Snapshot, EmitFullState(s) PROVE Typed'
    <2>1. snapshot[s] \in Reading(writes)
        BY <1>0, <1>5 DEF EmitFullState, Idle
    <2>2. snapshot[s].read \in [Parameter -> {Unset} \cup 0..writes]
        BY <1>0, <2>1 DEF Reading
    <2>3. view' \in [Client -> [Parameter -> {Unset} \cup 0..writes]]
        BY <1>5, <2>2 DEF EmitFullState, Typed
    <2>4. snapshot' \in [Snapshot -> {Idle} \cup Reading(writes)]
        BY <1>0, <1>5 DEF EmitFullState
    <2>5. astray' \subseteq Parameter
        BY <1>5, <2>1 DEF EmitFullState, Reading, Typed
    <2>6. QED
        BY <1>5, <2>3, <2>4, <2>5 DEF EmitFullState, Typed, publishers, process
<1>6. QED
    BY <1>1, <1>2, <1>3, <1>4, <1>5 DEF Requests

-------------------------------------------------------------------------------
(* The sockets and the queue.                                               *)

LEMMA GatedNext ==
    ASSUME Typed, AccessInv, Gated, Next PROVE Gated'
<1>0. check \in [Checker -> {"none", "asked", "missed", "yes", "no", "granted"}]
    BY DEF AccessInv, AccessType
<1>1. ASSUME UNCHANGED <<process, client>>,
             \A c \in Client : check'[c] # "none" => check[c] # "none"
      PROVE  Gated'
    BY <1>1 DEF Gated, process
<1>2. CASE Publishers
    BY <1>1, <1>2 DEF Publishers, Write, SaveFails, Publish, sockets, access
<1>3. CASE Server
    <2>1. CASE Subscribe \/ Unsubscribed
        BY <1>1, <2>1 DEF Subscribe, Unsubscribed, sockets, access
    <2>2. CASE AfterInit \/ Drain \/ Listen
        BY <2>2 DEF AfterInit, Drain, Listen, Gated, sockets, access, process
    <2>3. CASE Arrive
        <3>1. phase # "starting" => queue' = queue
            BY <2>3 DEF Arrive
        <3>2. QED
            BY <2>3, <3>1 DEF Arrive, Gated, access
    <2>4. CASE Restart
        BY <2>4 DEF Restart, Checks, Gated, Checker
    <2>5. QED
        BY <1>3, <2>1, <2>2, <2>3, <2>4 DEF Server
<1>4. CASE Rights
    <2>1. CASE ListExpires \/ RightsChange
        BY <1>1, <2>1 DEF ListExpires, RightsChange, Checks, sockets
    <2>2. ASSUME NEW a \in Checker,
                 Hit(a) \/ Miss(a) \/ GetUserGuilds(a) \/ SetList(a) \/ CheckFails(a)
          PROVE  Gated'
        <3>1. /\ check[a] # "none" /\ \A b \in Checker \ {a} : check'[b] = check[b]
              /\ UNCHANGED <<process, client>>
            BY <1>0, <2>2 DEF Hit, Miss, GetUserGuilds, SetList, CheckFails, Checks, sockets
        <3>2. QED
            BY <1>1, <3>1 DEF Checker
    <2>3. QED
        BY <1>4, <2>1, <2>2 DEF Rights
<1>5. CASE Sockets
    <2>1. ASSUME NEW c \in Client, Connect(c) PROVE Gated'
        BY <2>1 DEF Connect, Gated, Typed, process, access
    <2>2. ASSUME NEW c \in Client, Ask(c) PROVE Gated'
        <3>1. client[c] = "connected" /\ UNCHANGED <<process, client>>
            BY <2>2 DEF Ask, sockets
        <3>2. \A d \in Client \ {c} : check'[d] = check[d]
            BY <1>0, <2>2 DEF Ask, Checks, Checker
        <3>3. QED
            BY <3>1, <3>2 DEF Gated, process
    <2>3. ASSUME NEW c \in Client, Join(c) PROVE Gated'
        <3>1. /\ check'[c] = "none" /\ \A d \in Client \ {c} : check'[d] = check[d]
              /\ UNCHANGED process
            BY <1>0, <2>3 DEF Join, Checks, Checker
        <3>2. \/ UNCHANGED client
              \/ client[c] # "off" /\ client' = [client EXCEPT ![c] = "joined"]
            BY <2>3 DEF Join, sockets
        <3>3. QED
            BY <3>1, <3>2 DEF Gated, Typed, process
    <2>4. ASSUME NEW c \in Client, Disconnect(c) PROVE Gated'
        BY <2>4 DEF Disconnect, Gated, Typed, process, access
    <2>5. QED
        BY <1>5, <2>1, <2>2, <2>3, <2>4 DEF Sockets
<1>6. CASE Requests
    <2>1. ASSUME NEW s \in Snapshot, Request(s) \/ ReadGuild(s) PROVE Gated'
        <3>1. UNCHANGED <<process, client>>
            BY <2>1 DEF Request, ReadGuild, sockets
        <3>2. \A c \in Client : check'[c] = check[c]
            BY <1>0, <2>1, RealtimeAssumption DEF Request, ReadGuild, Checks, Checker
        <3>3. QED
            BY <1>1, <3>1, <3>2
    <2>2. ASSUME NEW s \in Snapshot, ReadSettings(s) \/ SnapshotFails(s) \/ EmitFullState(s)
          PROVE  Gated'
        BY <1>1, <2>2 DEF ReadSettings, SnapshotFails, EmitFullState, sockets, access
    <2>3. QED
        BY <1>6, <2>1, <2>2 DEF Requests
<1>7. QED
    BY <1>2, <1>3, <1>4, <1>5, <1>6 DEF Next

-------------------------------------------------------------------------------
(* What requests have read.                                                 *)

LEMMA CurrentNext ==
    ASSUME Typed, Current, Next PROVE Current'
<1>0. snapshot \in [Snapshot -> {Idle} \cup Reading(writes)] /\ row \in [Parameter -> 0..writes]
    BY DEF Typed
<1>1. ASSUME UNCHANGED <<row, snapshot>> PROVE Current'
    BY <1>1 DEF Current, Read
<1>2. CASE Publishers
    <2>1. ASSUME NEW w \in Writer, NEW p \in Parameter, Write(w, p) PROVE Current'
        <3>1. \A s \in Snapshot :
                 snapshot'[s] = IF Read(s, p)
                                THEN [snapshot[s] EXCEPT !.old = @ \cup {p}] ELSE snapshot[s]
            BY <1>0, <2>1, OvertakeTyped DEF Write
        <3>2. \A r \in Parameter \ {p} : row'[r] = row[r]
            BY <1>0, <2>1 DEF Write
        <3>3. SUFFICES ASSUME NEW s \in Snapshot, NEW r \in Parameter, Read(s, r)',
                              r \notin snapshot'[s].old
                       PROVE  snapshot'[s].read[r] = row'[r]
            BY DEF Current
        <3>4. CASE Read(s, p)
            <4>1. snapshot[s] \in Reading(writes)
                BY <1>0, <3>4 DEF Read, Idle
            <4>2. /\ snapshot'[s].pc = snapshot[s].pc /\ snapshot'[s].read = snapshot[s].read
                  /\ snapshot'[s].old = snapshot[s].old \cup {p}
                BY <3>1, <3>4, <4>1 DEF Reading
            <4>3. r # p /\ r \notin snapshot[s].old /\ Read(s, r)
                BY <3>3, <4>2 DEF Read
            <4>4. QED
                BY <3>2, <4>2, <4>3 DEF Current
        <3>5. CASE ~Read(s, p)
            <4>1. snapshot'[s] = snapshot[s]
                BY <3>1, <3>5
            <4>2. Read(s, r)
                BY <3>3, <4>1 DEF Read
            <4>3. r # p /\ r \notin snapshot[s].old
                BY <3>3, <3>5, <4>1, <4>2
            <4>4. QED
                BY <3>2, <4>1, <4>2, <4>3 DEF Current
        <3>6. QED
            BY <3>4, <3>5
    <2>2. ASSUME NEW w \in Writer, Publish(w) \/ \E p \in Parameter : SaveFails(w, p)
          PROVE  Current'
        BY <1>1, <2>2 DEF SaveFails, Publish
    <2>3. QED
        BY <1>2, <2>1, <2>2 DEF Publishers
<1>3. CASE Server
    <2>1. CASE Restart
        <3>1. \A s \in Snapshot : snapshot'[s] = Idle
            BY <2>1 DEF Restart
        <3>2. QED
            BY <3>1 DEF Current, Read, Idle
    <2>2. CASE Subscribe \/ AfterInit \/ Drain \/ Listen \/ Arrive \/ Unsubscribed
        BY <1>1, <2>2 DEF Subscribe, AfterInit, Drain, Listen, Arrive, Unsubscribed, publishers
    <2>3. QED
        BY <1>3, <2>1, <2>2 DEF Server
<1>4. CASE Rights \/ Sockets
    BY <1>1, <1>4 DEF Rights, ListExpires, RightsChange, Hit, Miss, GetUserGuilds, SetList,
       CheckFails, Sockets, Connect, Ask, Join, Disconnect, publishers
<1>5. CASE Requests
    <2>0. ASSUME NEW s \in Snapshot, UNCHANGED row,
                 \A u \in Snapshot \ {s} : snapshot'[u] = snapshot[u],
                 \A r \in Parameter : Read(s, r)' /\ r \notin snapshot'[s].old =>
                    snapshot'[s].read[r] = row[r]
          PROVE  Current'
        <3>1. ASSUME NEW u \in Snapshot, NEW r \in Parameter, Read(u, r)',
                     r \notin snapshot'[u].old
              PROVE  snapshot'[u].read[r] = row'[r]
            <4>1. CASE u = s
                BY <2>0, <3>1, <4>1
            <4>2. CASE u # s
                BY <2>0, <3>1, <4>2 DEF Current, Read
            <4>3. QED
                BY <4>1, <4>2
        <3>2. QED
            BY <3>1 DEF Current
    <2>1. ASSUME NEW s \in Snapshot, Request(s) PROVE Current'
        BY <1>1, <2>1 DEF Request, publishers
    <2>2. ASSUME NEW s \in Snapshot, ReadGuild(s) PROVE Current'
        <3>1. snapshot'[s].read = row /\ row' = row
            BY <1>0, <2>2 DEF ReadGuild, publishers
        <3>2. \A u \in Snapshot \ {s} : snapshot'[u] = snapshot[u]
            BY <1>0, <2>2 DEF ReadGuild
        <3>3. QED
            BY <2>0, <3>1, <3>2
    <2>3. ASSUME NEW s \in Snapshot, ReadSettings(s) PROVE Current'
        <3>1. snapshot[s].pc = "guild" /\ snapshot[s] \in Reading(writes) /\ row' = row
            BY <1>0, <2>3 DEF ReadSettings, Idle, publishers
        <3>2. /\ snapshot'[s].old = snapshot[s].old
              /\ snapshot'[s].read = [p \in Parameter |->
                    IF p \in OfSettings THEN row[p] ELSE snapshot[s].read[p]]
            BY <1>0, <2>3, <3>1 DEF ReadSettings, Reading
        <3>3. \A u \in Snapshot \ {s} : snapshot'[u] = snapshot[u]
            BY <1>0, <2>3 DEF ReadSettings
        <3>4. ASSUME NEW r \in Parameter, r \notin snapshot'[s].old
              PROVE  snapshot'[s].read[r] = row[r]
            <4>1. CASE r \in OfSettings
                BY <3>2, <4>1
            <4>2. CASE r \notin OfSettings
                <5>1. Read(s, r)
                    BY <3>1, <4>2 DEF Read, Parameter
                <5>2. QED
                    BY <3>2, <3>4, <4>2, <5>1 DEF Current
            <4>3. QED
                BY <4>1, <4>2
        <3>5. QED
            BY <2>0, <3>1, <3>3, <3>4
    <2>4. ASSUME NEW s \in Snapshot, SnapshotFails(s) \/ EmitFullState(s) PROVE Current'
        <3>1. /\ snapshot'[s] = Idle /\ row' = row
              /\ \A u \in Snapshot \ {s} : snapshot'[u] = snapshot[u]
            BY <1>0, <2>4 DEF SnapshotFails, EmitFullState, publishers
        <3>2. \A r : ~Read(s, r)'
            BY <3>1 DEF Read, Idle
        <3>3. QED
            BY <2>0, <3>1, <3>2
    <2>5. QED
        BY <1>5, <2>1, <2>2, <2>3, <2>4 DEF Requests
<1>6. QED
    BY <1>2, <1>3, <1>4, <1>5 DEF Next

-------------------------------------------------------------------------------
(* What is on its way, and what was told.                                     *)

\* Nothing of p is published or told, except that sockets leave and enter the room.
LEMMA SettledSame ==
    ASSUME NEW p \in Parameter, Settled(p), row'[p] = row[p], UNCHANGED <<writer, channel, queue>>,
           \A c \in Room' : view'[c][p] = Unset \/ (c \in Room /\ view'[c][p] = view[c][p])
    PROVE  Settled(p)'
BY DEF Settled, Publishes, Publishing, InFlight, Latest, IsLast

LEMMA ServerSettled ==
    ASSUME Typed, Gated, Server, NEW p \in Parameter, p \notin astray', Settled(p)
    PROVE  Settled(p)'
<1>0. channel \in Seq(Message(writes)) /\ queue \in Seq(Message(writes))
    BY DEF Typed
<1>1. CASE Subscribe \/ AfterInit \/ Listen
    <2>1. UNCHANGED <<row, writer, channel, queue, client, view>>
        BY <1>1 DEF Subscribe, AfterInit, Listen, publishers, process, sockets
    <2>2. QED
        BY <2>1, SettledSame DEF Room
<1>2. CASE Drain
    <2>1. Room' = {}
        BY <1>2 DEF Drain, Gated, Room
    <2>2. UNCHANGED <<row, writer, channel>>
        BY <1>2 DEF Drain, publishers
    <2>3. QED
        BY <2>1, <2>2 DEF Settled, Publishes, Publishing, Latest, IsLast
<1>3. CASE Arrive
    <2> DEFINE h == Head(channel)
    <2>1. /\ channel # <<>> /\ channel' = Tail(channel) /\ UNCHANGED <<row, writer, client>>
          /\ phase = "starting" \/ (queue' = queue /\ Emit(<<h>>))
        BY <1>3 DEF Arrive, publishers
    <2>2. /\ Len(channel) \in Nat \ {0} /\ DOMAIN channel = 1..Len(channel)
          /\ Len(channel') = Len(channel) - 1 /\ DOMAIN channel' = 1..Len(channel')
          /\ \A i \in DOMAIN channel' : channel'[i] = channel[i + 1] /\ i + 1 \in DOMAIN channel
          /\ h = channel[1]
        BY <1>0, <2>1
    <2>3. Publishing(p)' <=> Publishing(p)
        BY <2>1 DEF Publishing
    <2>4. ~Publishing(p) => Latest(p)'
        <3>1. SUFFICES ASSUME ~Publishing(p), NEW i \in DOMAIN channel',
                              channel'[i].parameter = p, IsLast(channel', i)
                       PROVE  channel'[i].value = row[p]
            BY <2>1 DEF Latest
        <3>2. IsLast(channel, i + 1)
            <4>1. SUFFICES ASSUME NEW j \in DOMAIN channel, j > i + 1
                           PROVE  channel[j].parameter # channel[i + 1].parameter
                BY DEF IsLast
            <4>2. j - 1 \in DOMAIN channel' /\ j - 1 > i /\ channel'[j - 1] = channel[j]
                BY <2>2, <4>1
            <4>3. QED
                BY <2>2, <3>1, <4>2 DEF IsLast
        <3>3. QED
            BY <2>2, <3>1, <3>2 DEF Settled, Latest
    <2>5. ASSUME ~InFlight(p)', NEW c \in Room' PROVE view'[c][p] \in {Unset, row[p]}
        <3>1. c \in Room /\ c \in Client /\ phase = "listening"
            BY <2>1, <2>5 DEF Room, Gated
        <3>2. queue' = queue
              /\ view'[c][p] = IF p = h.parameter THEN h.value ELSE view[c][p]
            BY <2>1, <3>1, EmitOne
        <3>3. p \notin Params(channel') /\ ~Publishing(p) /\ p \notin Params(queue)
            BY <2>3, <2>5, <3>2 DEF InFlight
        <3>4. \A i \in DOMAIN channel : i # 1 => channel[i].parameter # p
            <4>1. ASSUME NEW i \in DOMAIN channel, i # 1 PROVE channel[i].parameter # p
                <5>1. i - 1 \in DOMAIN channel' /\ channel'[i - 1] = channel[i]
                    BY <2>2, <4>1
                <5>2. QED
                    BY <3>3, <5>1 DEF Params
            <4>2. QED
                BY <4>1
        <3>5. CASE p = h.parameter
            <4>1. 1 \in DOMAIN channel /\ channel[1].parameter = p
                BY <2>2, <3>5
            <4>2. IsLast(channel, 1)
                BY <2>2, <3>4, <4>1 DEF IsLast
            <4>3. channel[1].value = row[p]
                BY <3>3, <4>1, <4>2 DEF Settled, Latest
            <4>4. QED
                BY <2>2, <3>2, <3>5, <4>3
        <3>6. CASE p # h.parameter
            <4>1. p \notin Params(channel)
                BY <2>2, <3>4, <3>6 DEF Params
            <4>2. ~InFlight(p)
                BY <3>3, <4>1 DEF InFlight
            <4>3. QED
                BY <3>1, <3>2, <3>6, <4>2 DEF Settled
        <3>7. QED
            BY <3>5, <3>6
    <2>6. QED
        BY <2>1, <2>3, <2>4, <2>5 DEF Settled, Publishes
<1>4. CASE Unsubscribed
    <2>1. /\ channel' = <<>> /\ p \notin Params(channel)
          /\ UNCHANGED <<row, writer, queue, client, view>>
        BY <1>4 DEF Unsubscribed, publishers, process, sockets
    <2>2. Latest(p)' /\ Params(channel') = {}
        BY <2>1 DEF Latest, Params
    <2>3. InFlight(p)' <=> InFlight(p)
        BY <2>1, <2>2 DEF InFlight, Publishing
    <2>4. QED
        BY <2>1, <2>2, <2>3 DEF Settled, Publishes, Publishing, Room
<1>5. CASE Restart
    <2>1. channel' = <<>> /\ Room' = {} /\ UNCHANGED <<row, writer>>
        BY <1>5 DEF Restart, publishers, Room
    <2>2. Latest(p)'
        BY <2>1 DEF Latest
    <2>3. QED
        BY <2>1, <2>2 DEF Settled, Publishes
<1>6. QED
    BY <1>1, <1>2, <1>3, <1>4, <1>5 DEF Server

\* A value of another parameter is made.
LEMMA MakeSettled ==
    ASSUME Typed, NEW w \in Writer, NEW q \in Parameter, NEW p \in Parameter, p # q, writer[w] = Idle,
           NEW v, writer' = [writer EXCEPT ![w] = [pc |-> "publish", parameter |-> q, value |-> v]],
           row'[p] = row[p], UNCHANGED <<channel, queue, client, view>>, Settled(p)
    PROVE  Settled(p)'
<1>1. \A u \in Writer : Publishes(u, p)' <=> Publishes(u, p)
    BY DEF Publishes, Typed
<1>2. \A u \in Writer : Publishes(u, p) => writer'[u] = writer[u]
    BY DEF Publishes, Typed
<1>3. Publishing(p)' <=> Publishing(p)
    BY <1>1 DEF Publishing, Publishes
<1>4. Latest(p)' <=> Latest(p)
    BY DEF Latest, IsLast
<1>5. InFlight(p)' <=> InFlight(p)
    BY <1>3 DEF InFlight
<1>6. QED
    BY <1>1, <1>2, <1>3, <1>4, <1>5 DEF Settled, Room

LEMMA PublishersSettled ==
    ASSUME Typed, Publishers, \A p \in Parameter \ astray : Settled(p),
           NEW p \in Parameter, p \notin astray'
    PROVE  Settled(p)'
<1>1. ASSUME NEW w \in Writer, NEW q \in Parameter, Write(w, q) PROVE Settled(p)'
    <2>1. /\ writer[w] = Idle
          /\ writer' = [writer EXCEPT ![w] = [pc |-> "publish", parameter |-> q, value |-> writes + 1]]
          /\ row' = [row EXCEPT ![q] = writes + 1]
          /\ astray' = IF Publishing(q) THEN astray \cup {q} ELSE astray \ {q}
          /\ UNCHANGED <<channel, queue, client, view>>
        BY <1>1 DEF Write, process, sockets
    <2>2. CASE p = q
        <3>1. ~Publishing(p)
            BY <2>1, <2>2
        <3>2. \A u \in Writer : Publishes(u, p)' <=> u = w
            BY <2>1, <2>2, <3>1 DEF Publishing, Publishes, Typed, Idle
        <3>3. writer'[w].value = row'[p]
            BY <2>1, <2>2 DEF Typed
        <3>4. Publishing(p)'
            BY <3>2 DEF Publishing, Publishes
        <3>5. QED
            BY <3>2, <3>3, <3>4 DEF Settled, InFlight
    <2>3. CASE p # q
        <3>1. p \notin astray /\ row'[p] = row[p]
            BY <2>1, <2>3 DEF Typed
        <3>2. QED
            BY <2>1, <2>3, <3>1, MakeSettled
    <2>4. QED
        BY <2>2, <2>3
<1>2. ASSUME NEW w \in Writer, NEW q \in Parameter, SaveFails(w, q) PROVE Settled(p)'
    <2>1. /\ writer[w] = Idle
          /\ writer' = [writer EXCEPT ![w] = [pc |-> "publish", parameter |-> q, value |-> writes + 1]]
          /\ astray' = astray \cup {q} /\ UNCHANGED <<row, channel, queue, client, view>>
        BY <1>2 DEF SaveFails, process, sockets
    <2>2. p # q /\ p \notin astray
        BY <2>1
    <2>3. QED
        BY <2>1, <2>2, MakeSettled
<1>3. ASSUME NEW w \in Writer, Publish(w) PROVE Settled(p)'
    <2> DEFINE m == [parameter |-> writer[w].parameter, value |-> writer[w].value]
    <2>1. /\ writer[w] # Idle /\ writer' = [writer EXCEPT ![w] = Idle]
          /\ \/ channel' = Append(channel, m) /\ UNCHANGED astray
             \/ astray' = astray \cup {m.parameter} /\ UNCHANGED channel
          /\ UNCHANGED <<row, queue, client, view>>
        BY <1>3 DEF Publish, process, sockets
    <2>2. writer[w] \in Publication(writes) /\ channel \in Seq(Message(writes))
        BY <2>1 DEF Typed
    <2>3. m \in Message(writes) /\ m.parameter = writer[w].parameter /\ m.value = writer[w].value
        BY <2>2 DEF Publication, Message
    <2> HIDE DEF m
    <2>4. p \notin astray /\ Settled(p)
        BY <2>1
    <2>5. \A u \in Writer : Publishes(u, p)' <=> u # w /\ Publishes(u, p)
        BY <2>1 DEF Publishes, Typed
    <2>6. \A u \in Writer \ {w} : writer'[u] = writer[u]
        BY <2>1 DEF Typed
    <2>7. /\ \A u \in Writer : Publishes(u, p)' => writer'[u].value = row[p]
          /\ \A u, v \in Writer : Publishes(u, p)' /\ Publishes(v, p)' => u = v
        BY <2>4, <2>5, <2>6 DEF Settled
    <2>8. CASE p = m.parameter
        <3>1. channel' = Append(channel, m) /\ writer[w].value = row[p]
            BY <2>1, <2>3, <2>4, <2>8 DEF Settled, Publishes
        <3>2. /\ Len(channel) \in Nat /\ DOMAIN channel' = 1..(Len(channel) + 1)
              /\ channel'[Len(channel) + 1] = m
            BY <2>2, <2>3, <3>1
        <3>3. \A i \in DOMAIN channel' :
                 channel'[i].parameter = p /\ IsLast(channel', i) => i = Len(channel) + 1
            BY <2>8, <3>2 DEF IsLast
        <3>4. Latest(p)'
            BY <2>1, <2>3, <3>1, <3>2, <3>3 DEF Latest
        <3>5. p \in Params(channel')
            BY <2>8, <3>2 DEF Params
        <3>6. QED
            BY <2>1, <2>7, <3>4, <3>5 DEF Settled, InFlight
    <2>9. CASE p # m.parameter
        <3>1. ~Publishes(w, p)
            BY <2>3, <2>9 DEF Publishes
        <3>2. Publishing(p)' <=> Publishing(p)
            BY <2>5, <3>1 DEF Publishing, Publishes
        <3>3. /\ Latest(p) => Latest(p)'
              /\ p \in Params(channel') <=> p \in Params(channel)
            <4>1. CASE channel' = channel
                BY <2>1, <4>1 DEF Latest, IsLast
            <4>2. CASE channel' = Append(channel, m)
                <5>1. /\ Len(channel) \in Nat /\ DOMAIN channel = 1..Len(channel)
                      /\ DOMAIN channel' = 1..(Len(channel) + 1)
                      /\ channel'[Len(channel) + 1] = m
                      /\ \A i \in DOMAIN channel : channel'[i] = channel[i]
                    BY <2>2, <2>3, <4>2
                <5>2. \A i \in DOMAIN channel' :
                         channel'[i].parameter = p => i \in DOMAIN channel
                    BY <2>9, <5>1
                <5>3. ASSUME NEW i \in DOMAIN channel, IsLast(channel', i) PROVE IsLast(channel, i)
                    BY <5>1, <5>3 DEF IsLast
                <5>4. Latest(p) => Latest(p)'
                    BY <2>1, <5>1, <5>2, <5>3 DEF Latest
                <5>5. \A i \in DOMAIN channel : i \in DOMAIN channel'
                    BY <5>1
                <5>6. p \in Params(channel') <=> p \in Params(channel)
                    BY <5>1, <5>2, <5>5 DEF Params
                <5>7. QED
                    BY <5>4, <5>6
            <4>3. QED
                BY <2>1, <4>1, <4>2
        <3>4. InFlight(p)' <=> InFlight(p)
            BY <2>1, <3>2, <3>3 DEF InFlight
        <3>5. QED
            BY <2>1, <2>4, <2>7, <3>2, <3>3, <3>4 DEF Settled, Room
    <2>10. QED
        BY <2>8, <2>9
<1>4. QED
    BY <1>1, <1>2, <1>3 DEF Publishers

LEMMA RightsSettled ==
    ASSUME Rights, NEW p \in Parameter, Settled(p) PROVE Settled(p)'
<1>1. UNCHANGED <<row, writer, channel, queue, client, view>>
    BY DEF Rights, ListExpires, RightsChange, Hit, Miss, GetUserGuilds, SetList, CheckFails,
       publishers, process, sockets
<1>2. QED
    BY <1>1, SettledSame DEF Room

LEMMA SocketsSettled ==
    ASSUME Typed, Sockets, NEW p \in Parameter, Settled(p) PROVE Settled(p)'
<1>1. UNCHANGED <<row, writer, channel, queue>>
    BY DEF Sockets, Connect, Ask, Join, Disconnect, publishers, process
<1>2. \A d \in Room' : view'[d][p] = Unset \/ (d \in Room /\ view'[d][p] = view[d][p])
    <2>1. ASSUME NEW c \in Client, Connect(c) \/ Ask(c) \/ Disconnect(c)
          PROVE  view' = view /\ Room' \subseteq Room
        BY <2>1 DEF Connect, Ask, Disconnect, Room, Typed, sockets
    <2>2. ASSUME NEW c \in Client, Join(c), NEW d \in Room'
          PROVE  view'[d][p] = Unset \/ (d \in Room /\ view'[d][p] = view[d][p])
        <3>1. CASE UNCHANGED sockets
            BY <2>2, <3>1 DEF sockets, Room
        <3>2. CASE /\ client' = [client EXCEPT ![c] = "joined"]
                   /\ view' = [view EXCEPT ![c] = [q \in Parameter |-> Unset]]
            BY <2>2, <3>2 DEF Room, Typed
        <3>3. QED
            BY <2>2, <3>1, <3>2 DEF Join
    <2>3. QED
        BY <2>1, <2>2 DEF Sockets
<1>3. QED
    BY <1>1, <1>2, SettledSame

\* A request tells the room what it has read of parameters that have nothing on its way;
\* the others' messages are still to come.
LEMMA RequestsSettled ==
    ASSUME Typed, Current, Requests, \A p \in Parameter \ astray : Settled(p),
           NEW p \in Parameter, p \notin astray'
    PROVE  Settled(p)'
<1>1. ASSUME NEW s \in Snapshot, Request(s) \/ ReadGuild(s) \/ ReadSettings(s) \/ SnapshotFails(s)
      PROVE  Settled(p)'
    <2>1. UNCHANGED <<row, writer, channel, queue, client, view, astray>>
        BY <1>1 DEF Request, ReadGuild, ReadSettings, SnapshotFails, publishers, process, sockets
    <2>2. QED
        BY <2>1, SettledSame DEF Room
<1>2. ASSUME NEW s \in Snapshot, EmitFullState(s) PROVE Settled(p)'
    <2>1. /\ snapshot[s].pc = "settings" /\ UNCHANGED <<row, writer, channel, queue, client>>
          /\ view' = [c \in Client |-> IF c \in Room THEN snapshot[s].read ELSE view[c]]
          /\ astray' = (astray \ {r \in Parameter : ~InFlight(r)})
                         \cup {r \in snapshot[s].old : ~InFlight(r)}
        BY <1>2 DEF EmitFullState, publishers, process
    <2>2. /\ InFlight(p)' <=> InFlight(p)
          /\ Publishing(p)' <=> Publishing(p)
          /\ Latest(p)' <=> Latest(p)
        BY <2>1 DEF InFlight, Publishing, Latest, IsLast
    <2>3. CASE InFlight(p)
        <3>1. Settled(p)
            BY <2>1, <2>3
        <3>2. QED
            BY <2>1, <2>2, <2>3, <3>1 DEF Settled, Publishes
    <2>4. CASE ~InFlight(p)
        <3>1. ~Publishing(p) /\ p \notin Params(channel)
            BY <2>4 DEF InFlight
        <3>2. Latest(p)
            BY <3>1 DEF Latest, Params
        <3>3. Read(s, p) /\ p \notin snapshot[s].old
            BY <2>1, <2>4 DEF Read, Parameter
        <3>4. snapshot[s].read[p] = row[p]
            BY <3>3 DEF Current
        <3>5. \A c \in Room' : view'[c][p] = row[p]
            BY <2>1, <3>4 DEF Room
        <3>6. QED
            BY <2>1, <2>2, <3>1, <3>2, <3>5 DEF Settled, Publishing, Publishes
    <2>5. QED
        BY <2>3, <2>4
<1>3. QED
    BY <1>1, <1>2 DEF Requests

-------------------------------------------------------------------------------
(* The theorems about what sockets are told.                                  *)

LEMMA ViewInit == Init => ViewInv
<1> SUFFICES ASSUME Init PROVE ViewInv
    OBVIOUS
<1>1. Typed
    <2>1. 0 \in 0..MaxWrites /\ 0 \in 0..MaxBreaks /\ 0 \in 0..0
        BY RealtimeAssumption
    <2>2. [p \in Parameter |-> Unset] \in [Parameter -> {Unset} \cup 0..0]
        OBVIOUS
    <2>3. /\ row \in [Parameter -> 0..writes] /\ writes \in 0..MaxWrites /\ breaks \in 0..MaxBreaks
          /\ writer \in [Writer -> {Idle} \cup Publication(writes)]
          /\ snapshot \in [Snapshot -> {Idle} \cup Reading(writes)]
        BY <2>1 DEF Init
    <2>4. view \in [Client -> [Parameter -> {Unset} \cup 0..writes]]
        BY <2>2 DEF Init
    <2>5. /\ channel \in Seq(Message(writes)) /\ queue \in Seq(Message(writes))
          /\ client \in [Client -> {"off", "connected", "joined"}]
        BY DEF Init
    <2>6. QED
        BY <2>3, <2>4, <2>5 DEF Init, Typed
<1>2. Gated /\ Room = {}
    BY DEF Init, Gated, Room, Checker
<1>3. Current
    BY DEF Init, Current, Read, Idle
<1>4. \A p \in Parameter : Settled(p)
    BY <1>2 DEF Init, Settled, Publishes, Latest
<1>5. QED
    BY <1>1, <1>2, <1>3, <1>4 DEF ViewInv

LEMMA ViewNext == AccessInv /\ ViewInv /\ [Next]_vars => ViewInv'
<1> SUFFICES ASSUME AccessInv, ViewInv, [Next]_vars PROVE ViewInv'
    OBVIOUS
<1>0. Typed /\ Gated /\ Current /\ (\A p \in Parameter \ astray : Settled(p))
    BY DEF ViewInv
<1>1. CASE Next
    <2>1. lately' \subseteq BOOLEAN
        BY <1>0, LatelyTyped DEF Typed
    <2>2. Typed'
        BY <1>0, <1>1, <2>1, PublishersTyped, ServerTyped, RightsTyped, SocketsTyped, RequestsTyped
           DEF Next
    <2>3. Gated' /\ Current'
        BY <1>0, <1>1, GatedNext, CurrentNext
    <2>4. ASSUME NEW p \in Parameter, p \notin astray' PROVE Settled(p)'
        <3>1. CASE Publishers
            BY <1>0, <2>4, <3>1, PublishersSettled
        <3>2. CASE Server
            <4>1. p \notin astray
                BY <2>4, <3>2 DEF Server, Subscribe, AfterInit, Drain, Listen, Arrive,
                   Unsubscribed, Restart
            <4>2. QED
                BY <1>0, <2>4, <3>2, <4>1, ServerSettled
        <3>3. CASE Rights \/ Sockets
            <4>1. p \notin astray
                BY <2>4, <3>3 DEF Rights, ListExpires, RightsChange, Hit, Miss, GetUserGuilds,
                   SetList, CheckFails, Sockets, Connect, Ask, Join, Disconnect
            <4>2. QED
                BY <1>0, <3>3, <4>1, RightsSettled, SocketsSettled
        <3>4. CASE Requests
            BY <1>0, <2>4, <3>4, RequestsSettled
        <3>5. QED
            BY <1>1, <3>1, <3>2, <3>3, <3>4 DEF Next
    <2>5. QED
        BY <2>2, <2>3, <2>4 DEF ViewInv
<1>2. CASE UNCHANGED vars
    <2>1. Typed' /\ Gated' /\ Current'
        BY <1>0, <1>2 DEF Typed, Gated, Current, Read, vars, publishers, process, sockets, access
    <2>2. ASSUME NEW p \in Parameter, p \notin astray' PROVE Settled(p)'
        BY <1>0, <1>2, <2>2, SettledSame DEF vars, publishers, process, sockets, Room
    <2>3. QED
        BY <2>1, <2>2 DEF ViewInv
<1>3. QED
    BY <1>1, <1>2

\* The inductive invariant: nobody is in the room before the queue is drained; what a
\* request has read is stored, but for what was written since; and of a parameter that
\* is not astray the last value on its way, or told to the room, is the stored one.
THEOREM Viewed == Spec => [](AccessInv /\ ViewInv)
<1>1. Init => AccessInv /\ ViewInv
    BY AccessInit, ViewInit
<1>2. AccessInv /\ ViewInv /\ [Next]_vars => (AccessInv /\ ViewInv)'
    BY AccessNext, ViewNext
<1>3. QED
    BY <1>1, <1>2, PTL DEF Spec

\* With nothing on its way, a socket was told what is stored.
THEOREM Settles == Spec => []ViewSettles
<1>1. ASSUME AccessInv, ViewInv PROVE ViewSettles
    <2>1. TypeOK
        BY <1>1 DEF AccessInv, AccessType, ViewInv, Typed, Publication, Message, Reading, TypeOK
    <2>2. ASSUME Quiet, NEW p \in Parameter PROVE ~InFlight(p)
        BY <2>2 DEF Quiet, InFlight, Publishing, Params
    <2>3. QED
        BY <1>1, <2>1, <2>2 DEF ViewInv, Settled, ViewSettles
<1>2. QED
    BY <1>1, Viewed, PTL

\* A value that is told is older than the last one only of parameters that are astray or
\* have a newer value on its way.
THEOREM NoReturn == Spec => NeverBack
<1> DEFINE Older(c, p) == client[c] = "joined" /\ client'[c] = "joined" /\ view'[c][p] < view[c][p]
<1>1. ASSUME AccessInv, ViewInv, [Next]_vars, NEW c \in Client, NEW p \in Parameter,
             Older(c, p), p \notin astray \cup astray', ~InFlight(p)
      PROVE  FALSE
    <2>0. Typed /\ Gated /\ Current /\ Settled(p) /\ c \in Room
        BY <1>1 DEF ViewInv, Room
    <2> view'[c][p] # view[c][p]
        <3>1. view[c][p] \in Int
            BY <2>0, NumbersOfWrites DEF Typed, Unset
        <3>2. QED
            BY <1>1, <3>1
    <2>1. CASE Arrive
        <3>1. channel # <<>> /\ channel \in Seq(Message(writes))
            BY <2>0, <2>1 DEF Arrive, Typed
        <3>2. Head(channel).parameter \in Params(channel)
            BY <3>1 DEF Params
        <3>3. Emit(<<Head(channel)>>)
            BY <2>0, <2>1 DEF Arrive, Typed
        <3>4. view'[c][p] = view[c][p]
            <4>1. p # Head(channel).parameter
                BY <1>1, <3>2 DEF InFlight
            <4>2. QED
                BY <2>0, <3>3, <4>1, EmitOne
        <3>5. QED
            BY <3>4
    <2>2. CASE Drain
        BY <2>0, <2>2, EmitNone DEF Drain
    <2>3. ASSUME NEW d \in Client, Join(d) PROVE FALSE
        <3>1. check[d] # "none"
            BY <2>3 DEF Join
        <3>2. d # c
            BY <1>1, <2>0, <3>1 DEF Gated
        <3>3. view'[c] = view[c]
            BY <2>0, <2>3, <3>2 DEF Join, sockets, Typed
        <3>4. QED
            BY <2>0, <3>3
    <2>4. ASSUME NEW s \in Snapshot, EmitFullState(s) PROVE FALSE
        <3>1. /\ snapshot[s].pc = "settings" /\ view'[c] = snapshot[s].read
              /\ p \notin snapshot[s].old
            BY <1>1, <2>0, <2>4 DEF EmitFullState
        <3>2. view'[c][p] = row[p]
            BY <2>0, <3>1 DEF Current, Read, Parameter
        <3>3. view[c][p] \in {Unset, row[p]} /\ row[p] \in Nat
            BY <1>1, <2>0, NumbersOfWrites DEF Settled, Typed
        <3>4. QED
            BY <1>1, <3>2, <3>3 DEF Unset
    <2>5. CASE UNCHANGED view
        BY <2>0, <2>5
    <2>6. \/ UNCHANGED view \/ Arrive \/ Drain
          \/ \E d \in Client : Join(d)
          \/ \E s \in Snapshot : EmitFullState(s)
        BY <1>1 DEF Next, vars, sockets, Publishers, Publish, Write, SaveFails, Server, Subscribe,
           AfterInit, Listen, Unsubscribed, Restart, Rights, Hit, Miss, GetUserGuilds, SetList,
           CheckFails, ListExpires, RightsChange, Sockets, Connect, Ask, Disconnect, Requests,
           Request, ReadGuild, ReadSettings, SnapshotFails
    <2>7. QED
        BY <2>1, <2>2, <2>3, <2>4, <2>5, <2>6
<1>2. AccessInv /\ ViewInv /\ [Next]_vars =>
         [\A c \in Client, p \in Parameter :
             Older(c, p) => p \in astray \cup astray' \/ InFlight(p)]_vars
    BY <1>1
<1>3. QED
    BY <1>2, Viewed, PTL DEF NeverBack, Spec
===============================================================================
