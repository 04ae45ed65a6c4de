------------------------------ MODULE GuildCounts ------------------------------
(***************************************************************************)
(* The numbers of one guild that the gateway handlers keep: members, users   *)
(* in voice channels, visible presences and the holders of one role.  Each   *)
(* event starts a handler; handlers overlap.  A handler asks PostgreSQL for   *)
(* the guild's id, changes keys of Redis and publishes what it read.         *)
(*                                                                         *)
(* All commands of a process share one connection to Redis, which executes   *)
(* them and answers in the order they were issued: wire holds the handlers   *)
(* that wait for an answer, in that order, and a command takes effect when it *)
(* is issued.  Queries to PostgreSQL go through a pool and have no order.    *)
(*                                                                         *)
(* The guild is served by a shard or by a client with a token of its own      *)
(* ("custom").  The latter's service writes its keys with the prefix twice,   *)
(* and the counters' consumer reads them there; a shard writes it once.      *)
(***************************************************************************)
EXTENDS Integers, Sequences, FiniteSets

CONSTANTS
    User,          \* Discord users
    Visible,       \* online, idle and dnd
    Handler,       \* handlers in progress at once
    MaxEvents,     \* events (a bound)
    MaxFaults      \* commands and queries that fail, and ends of the process (a bound)

ASSUME GuildCountsAssumption ==
    /\ IsFiniteSet(User) /\ Visible \subseteq {"online", "idle", "dnd"} /\ IsFiniteSet(Handler)
    /\ MaxEvents \in Nat /\ MaxFaults \in Nat

Status == Visible \cup {"offline"}
Parameter == {"memberCount", "voiceOnline", "onlineMembers"}
Unset == -1000

VARIABLES
    present,    \* Discord: the users in the guild
    speaking,   \* Discord: those in a voice channel
    status,     \* Discord: their presence
    cached,     \* the users whose presence the client knows
    holder,     \* Discord: the holders of the role
    served,     \* who handles the guild's events
    up,         \* that process is running
    known,      \* the guild has a row
    memberRow,  \* PostgreSQL: guilds.member_count
    memberKey, voiceKey, presenceKey, lastKey,   \* Redis: the guild's own keys
    roleKey,    \* Redis: the role's field, by the spelling of the key
    shown,      \* the value last published of each parameter
    work,       \* the handlers
    wire,       \* the handlers that wait for an answer of Redis
    fetch,      \* the consumer between reading Discord's members and writing the hash
    events, faults,
    unseen,     \* history: what the keys miss, because no handler counted it
    lost,       \* history: writes that failed, or were not made, and were not repeated
    crossed     \* history: numbers whose handlers overlapped

discord == <<present, speaking, status, cached, holder>>
keys == <<memberKey, voiceKey, presenceKey, lastKey, roleKey>>
history == <<unseen, lost, crossed>>
countsVars == <<discord, served, up, known, memberRow, keys, shown, work, wire, fetch, events,
                faults, history>>

Free == [pc |-> "idle"]
Size(S) == Cardinality(S)
Positive(n) == IF n > 0 THEN n ELSE 0
\* The sum of what the hash has for the visible statuses, each at least 0.
Online == Size(UNION {{s} \X (1..Positive(presenceKey[s])) : s \in Visible})
With(s) == {u \in User : status[u] = s}

Pc == {"find", "set", "update", "updated", "jobs", "role", "rest",
       "decr", "incr", "get", "minus", "plus", "hgetall", "getlast", "setlast"}
Kind == {"member", "voice", "presence", "role"}

CountsTypeOK ==
    /\ present \subseteq User /\ speaking \subseteq User /\ holder \subseteq User
    /\ status \in [User -> Status] /\ cached \subseteq User
    /\ served \in {"shard", "custom"} /\ up \in BOOLEAN /\ known \in BOOLEAN
    /\ memberRow \in Int /\ memberKey \in Int /\ voiceKey \in Int /\ lastKey \in Int
    /\ presenceKey \in [Status -> Int] /\ roleKey \in [{"once", "twice"} -> Int]
    /\ shown \in [Parameter -> Int]
    /\ \A h \in Handler : work[h] = Free \/ (work[h].pc \in Pc /\ work[h].kind \in Kind)
    /\ wire \in Seq(Handler)
    /\ events \in 0..MaxEvents /\ faults \in 0..MaxFaults

\* A process starts with a cold cache of Redis in a guild of any size.
CountsInit ==
    /\ present = User /\ speaking \in SUBSET User /\ holder \in SUBSET User
    /\ status \in [User -> Status] /\ cached = User \ With("offline")
    /\ served \in {"shard", "custom"} /\ up = TRUE
    /\ known \in BOOLEAN
    /\ memberRow = Size(User)
    /\ memberKey = Unset /\ voiceKey = 0 /\ presenceKey = [s \in Status |-> 0]
    /\ lastKey = Unset /\ roleKey = [k \in {"once", "twice"} |-> Unset]
    /\ shown = [p \in Parameter |-> Unset]
    /\ work = [h \in Handler |-> Free] /\ wire = <<>> /\ fetch = Unset
    /\ events = 0 /\ faults = 0
    /\ unseen = [voice |-> Size(speaking), presence |-> [s \in Status |-> Size(With(s))]]
    /\ lost = {} /\ crossed = {}

-------------------------------------------------------------------------------
(* Discord changes, and an event starts a handler: it first asks PostgreSQL   *)
(* for the guild's id.                                                     *)

Is(h, kind, pc) == work[h].pc = pc /\ work[h].kind = kind
Running(kind) == {h \in Handler : work[h] # Free /\ work[h].kind = kind}

\* What is wrong from then on when no handler counts an event.
One(b) == IF b THEN 1 ELSE 0
Missed(e) ==
    CASE e.kind = "voice" ->
           [unseen EXCEPT !.voice = @ + One(e.is) - One(e.was)]
      [] e.kind = "presence" ->
           [unseen EXCEPT !.presence = [s \in Status |-> @[s] + One(s = e.is) - One(s = e.old)]]
      [] OTHER -> unseen
Untold(e) ==
    (IF e.kind = "member" THEN {"members", "row", "memberCount"} ELSE {})
        \cup (IF e.kind = "role" \/ (e.kind = "member" /\ e.roles) THEN {"role"} ELSE {})
Uncounted(e) == unseen' = Missed(e) /\ lost' = lost \cup Untold(e)

\* While the process is down nobody gets the event, then or later.
Start(e) ==
    /\ events < MaxEvents /\ events' = events + 1
    /\ \/ /\ up
          /\ \E h \in Handler :
               /\ work[h] = Free
               /\ work' = [work EXCEPT ![h] = [pc |-> "find", kind |-> e.kind, event |-> e,
                                               value |-> Unset]]
          /\ UNCHANGED <<unseen, lost>>
       \/ /\ ~up
          /\ Uncounted(e)
          /\ UNCHANGED work
    /\ UNCHANGED <<served, up, known, memberRow, keys, shown, wire, fetch, faults, crossed>>

\* GUILD_MEMBER_ADD and GUILD_MEMBER_REMOVE; roles says whether the user holds the role.
MemberChange(u) ==
    /\ Start([kind |-> "member", by |-> IF u \in present THEN -1 ELSE 1, roles |-> u \in holder])
    /\ present' = IF u \in present THEN present \ {u} ELSE present \cup {u}
    /\ holder' = holder \ {u}
    /\ UNCHANGED <<speaking, status, cached>>

\* VOICE_STATE_UPDATE: whether the user was, and is, in a channel; a move is both.
VoiceChange(u, in) ==
    /\ Start([kind |-> "voice", was |-> u \in speaking, is |-> in])
    /\ u \in speaking \/ in
    /\ speaking' = IF in THEN speaking \cup {u} ELSE speaking \ {u}
    /\ UNCHANGED <<present, status, cached, holder>>

\* PRESENCE_UPDATE, with the old presence if the client knows it.
PresenceChange(u, s) ==
    /\ s # status[u]
    /\ Start([kind |-> "presence", old |-> status[u],
              was |-> IF u \in cached THEN status[u] ELSE "none", is |-> s])
    /\ status' = [status EXCEPT ![u] = s]
    /\ cached' = IF up THEN cached \cup {u} ELSE cached
    /\ UNCHANGED <<present, speaking, holder>>

\* GUILD_MEMBER_UPDATE: the user gains or loses the role.
RoleChange(u) ==
    /\ u \in present
    /\ Start([kind |-> "role", by |-> IF u \in holder THEN -1 ELSE 1])
    /\ holder' = IF u \in holder THEN holder \ {u} ELSE holder \cup {u}
    /\ UNCHANGED <<present, speaking, status, cached>>

\* The guild gets its row.
Onboard ==
    /\ ~known
    /\ known' = TRUE
    /\ UNCHANGED <<discord, served, up, memberRow, keys, shown, work, wire, fetch, events, faults,
                   history>>

-------------------------------------------------------------------------------
(* The steps of a handler.  pc is what it waits for.                       *)

env == <<discord, served, up, known, events>>

\* h has its answer and issues a command; or it goes on to something else.
Answered(h) == wire # <<>> /\ Head(wire) = h
Issue(h, pc, value) ==
    /\ work' = [work EXCEPT ![h].pc = pc, ![h].value = value]
    /\ wire' = Append(IF Answered(h) THEN Tail(wire) ELSE wire, h)
Continue(h, pc) ==
    /\ work' = [work EXCEPT ![h].pc = pc]
    /\ wire' = IF Answered(h) THEN Tail(wire) ELSE wire
Finish(h) ==
    /\ work' = [work EXCEPT ![h] = Free]
    /\ wire' = IF Answered(h) THEN Tail(wire) ELSE wire

\* A command is executed, or fails; its failure is swallowed.
Fault == faults < MaxFaults /\ faults' = faults + 1
Fine == UNCHANGED faults
Publish(p, v) == shown' = [shown EXCEPT ![p] = v]

\* What a handler has yet to add to the role's field.
Due(h) == IF \/ Is(h, "role", "find")
             \/ /\ work[h] # Free /\ work[h].kind = "member" /\ work[h].event.roles
                /\ work[h].pc \in {"find", "set", "update", "updated", "jobs"}
          THEN work[h].event.by ELSE 0

\* What handlers have yet to add to the voices, and to the presences with status s.
VoiceDue(h) ==
    IF Is(h, "voice", "find") THEN One(work[h].event.is) - One(work[h].event.was)
    ELSE IF Is(h, "voice", "decr") THEN One(work[h].event.is) ELSE 0
VoiceDues == [h \in Handler |-> VoiceDue(h)]
PresenceDue(h, s) ==
    IF Is(h, "presence", "find") THEN One(s = work[h].event.is) - One(s = work[h].event.old)
    ELSE IF Is(h, "presence", "minus") THEN One(s = work[h].event.is) ELSE 0
PresenceDues(s) == [h \in Handler |-> PresenceDue(h, s)]

\* All of them together, each 1 or -1 or nothing.
Total(due) == Size({h \in Handler : due[h] = 1}) - Size({h \in Handler : due[h] = -1})

\* The other writes that a handler has yet to make.
Within(h, kind, pcs) == work[h].pc \in pcs /\ work[h].kind = kind
Owes(h) ==
    {w \in {"members", "row", "memberCount", "role", "voiceOnline", "online", "last"} :
       \/ w = "members" /\ Within(h, "member", {"find"})
       \/ w = "row" /\ Within(h, "member", {"find", "set", "update"})
       \/ /\ w = "memberCount"
          /\ Within(h, "member", IF served = "custom" THEN Pc ELSE {"find", "set", "update", "updated"})
       \/ w = "role" /\ Due(h) # 0
       \/ w = "voiceOnline" /\ Within(h, "voice", Pc \ {"find"})
       \/ w = "online" /\ Within(h, "presence", Pc \ {"find"})
       \/ w = "last" /\ Within(h, "presence", {"setlast"})}

\* There is no such guild, or the query fails: the handler ends, and what happened
\* is not counted.
Unknown(h) ==
    /\ work[h].pc = "find"
    /\ IF known THEN Fault ELSE Fine
    /\ Uncounted(work[h].event)
    /\ Finish(h)
    /\ UNCHANGED <<env, memberRow, keys, shown, fetch, crossed>>

-------------------------------------------------------------------------------
(* GUILD_MEMBER_ADD and GUILD_MEMBER_REMOVE.                               *)

\* Other handlers between their reading of the number and its publication.
Overlaps(h) ==
    \E o \in Running("member") \ {h} :
       work[o].pc \in IF served = "shard" THEN {"set", "update", "updated"} ELSE Pc \ {"find"}

\* The number is read, and SET issued, once the row is found.
MemberFound(h) ==
    /\ Is(h, "member", "find") /\ known
    /\ Issue(h, "set", Size(present))
    /\ \/ Fine /\ memberKey' = Size(present) /\ lost' = lost \ {"members"}
       \/ Fault /\ lost' = lost \cup {"members"} /\ UNCHANGED memberKey
    /\ crossed' = IF Overlaps(h) THEN crossed \cup {"member"} ELSE crossed \ {"member"}
    /\ UNCHANGED <<env, memberRow, voiceKey, presenceKey, lastKey, roleKey, shown, fetch, unseen>>

\* A shard updates the row too and publishes; a custom client looks for counters.
MemberSet(h) ==
    /\ Is(h, "member", "set") /\ Answered(h)
    /\ Continue(h, IF served = "shard" THEN "update" ELSE "jobs")
    /\ UNCHANGED <<env, memberRow, keys, shown, fetch, faults, history>>

MemberUpdate(h) ==
    /\ Is(h, "member", "update")
    /\ \/ Fine /\ memberRow' = work[h].value /\ lost' = lost \ {"row"}
       \/ Fault /\ lost' = lost \cup {"row"} /\ UNCHANGED memberRow
    /\ Continue(h, "updated")
    /\ UNCHANGED <<env, keys, shown, fetch, unseen, crossed>>

PublishMembers(h) == Publish("memberCount", work[h].value) /\ lost' = lost \ {"memberCount"}

MemberUpdated(h) ==
    /\ Is(h, "member", "updated")
    /\ PublishMembers(h)
    /\ Continue(h, "jobs")
    /\ UNCHANGED <<env, memberRow, keys, fetch, faults, unseen, crossed>>

\* HINCRBY of the role's field: it creates a field that is missing.
Spelling == IF served = "custom" THEN "twice" ELSE "once"
CountRole(h) ==
    \/ /\ Fine
       /\ roleKey' = [roleKey EXCEPT ![Spelling] = (IF @ = Unset THEN 0 ELSE @) + work[h].event.by]
       /\ lost' = IF roleKey[Spelling] = Unset THEN lost \cup {"role"} ELSE lost
    \/ /\ Fault
       /\ lost' = lost \cup {"role"}
       /\ UNCHANGED roleKey

\* The members' counters have their jobs; then the roles are counted, if any.
MemberJobs(h) ==
    /\ Is(h, "member", "jobs")
    /\ \/ /\ work[h].event.roles
          /\ Issue(h, "role", work[h].value) /\ CountRole(h)
          /\ UNCHANGED shown
       \/ /\ ~work[h].event.roles
          /\ Finish(h) /\ Fine
          /\ IF served = "custom" THEN PublishMembers(h) ELSE UNCHANGED <<shown, lost>>
          /\ UNCHANGED roleKey
    /\ UNCHANGED <<env, memberRow, memberKey, voiceKey, presenceKey, lastKey, fetch, unseen, crossed>>

MemberRole(h) ==
    /\ Is(h, "member", "role") /\ Answered(h)
    /\ IF served = "custom" THEN Continue(h, "rest") ELSE Finish(h)
    /\ UNCHANGED <<env, memberRow, keys, shown, fetch, faults, history>>

\* A custom client publishes after the roles' counters have their jobs.
MemberRest(h) ==
    /\ Is(h, "member", "rest")
    /\ PublishMembers(h)
    /\ Finish(h)
    /\ UNCHANGED <<env, memberRow, keys, fetch, faults, unseen, crossed>>

\* The counters cannot be read: the handler throws, and leaves the rest undone.
JobsFail(h) ==
    /\ Is(h, "member", "jobs") \/ Is(h, "member", "rest")
    /\ Fault
    /\ lost' = lost \cup Owes(h)
    /\ Finish(h)
    /\ UNCHANGED <<env, memberRow, keys, shown, fetch, unseen, crossed>>

-------------------------------------------------------------------------------
(* VOICE_STATE_UPDATE.                                                     *)

\* DECR or INCR; a command that fails is never repeated.
CountVoice(by) ==
    \/ Fine /\ voiceKey' = voiceKey + by /\ UNCHANGED unseen
    \/ Fault /\ UNCHANGED voiceKey /\ unseen' = [unseen EXCEPT !.voice = @ + by]

\* GET; a failure reads as an absent key.
ReadVoice(h) ==
    \/ Fine /\ Issue(h, "get", Positive(voiceKey)) /\ lost' = lost \ {"voiceOnline"}
    \/ Fault /\ Issue(h, "get", 0) /\ lost' = lost \cup {"voiceOnline"}

others == <<env, memberRow, memberKey, presenceKey, lastKey, roleKey, fetch, crossed>>

VoiceFound(h) ==
    /\ Is(h, "voice", "find") /\ known
    /\ \/ work[h].event.was /\ Issue(h, "decr", Unset) /\ CountVoice(-1)
       \/ ~work[h].event.was /\ Issue(h, "incr", Unset) /\ CountVoice(1)
    /\ UNCHANGED <<others, shown, lost>>

VoiceDecr(h) ==
    /\ Is(h, "voice", "decr") /\ Answered(h)
    /\ \/ work[h].event.is /\ Issue(h, "incr", Unset) /\ CountVoice(1) /\ UNCHANGED lost
       \/ ~work[h].event.is /\ ReadVoice(h) /\ UNCHANGED <<voiceKey, unseen>>
    /\ UNCHANGED <<others, shown>>

VoiceIncr(h) ==
    /\ Is(h, "voice", "incr") /\ Answered(h)
    /\ ReadVoice(h)
    /\ UNCHANGED <<others, voiceKey, shown, unseen>>

VoiceGet(h) ==
    /\ Is(h, "voice", "get") /\ Answered(h)
    /\ Publish("voiceOnline", work[h].value)
    /\ Finish(h)
    /\ UNCHANGED <<others, voiceKey, faults, unseen, lost>>

-------------------------------------------------------------------------------
(* PRESENCE_UPDATE.                                                        *)

rest == <<env, memberRow, memberKey, voiceKey, roleKey, fetch>>

\* HINCRBY.  The old status keeps one too many when the client did not know it.
CountPresence(s, by) ==
    \/ Fine /\ presenceKey' = [presenceKey EXCEPT ![s] = @ + by] /\ UNCHANGED unseen
    \/ Fault /\ UNCHANGED presenceKey /\ unseen' = [unseen EXCEPT !.presence[s] = @ + by]

PresenceFound(h) ==
    /\ Is(h, "presence", "find") /\ known
    /\ LET e == work[h].event
       IN  \/ /\ e.was # "none"
              /\ Issue(h, "minus", Unset) /\ CountPresence(e.was, -1)
           \/ /\ e.was = "none"
              /\ Issue(h, "plus", Unset)
              /\ \/ /\ Fine
                    /\ presenceKey' = [presenceKey EXCEPT ![e.is] = @ + 1]
                    /\ unseen' = [unseen EXCEPT !.presence[e.old] = @ - 1]
                 \/ Fault /\ unseen' = Missed(e) /\ UNCHANGED presenceKey
    /\ UNCHANGED <<rest, lastKey, shown, lost, crossed>>

\* Defect: the old status is subtracted, and the new one not added.
PresenceMinusOnly(h) ==
    /\ Is(h, "presence", "minus") /\ Answered(h)
    /\ Issue(h, "plus", Unset) /\ Fine
    /\ UNCHANGED <<rest, presenceKey, unseen, lastKey, shown, lost, crossed>>

PresenceMinus(h) ==
    /\ Is(h, "presence", "minus") /\ Answered(h)
    /\ Issue(h, "plus", Unset) /\ CountPresence(work[h].event.is, 1)
    /\ UNCHANGED <<rest, lastKey, shown, lost, crossed>>

\* HGETALL; a failure reads as an empty hash.
PresencePlus(h) ==
    /\ Is(h, "presence", "plus") /\ Answered(h)
    /\ \/ Fine /\ Issue(h, "hgetall", Online) /\ lost' = lost \ {"online"}
       \/ Fault /\ Issue(h, "hgetall", 0) /\ lost' = lost \cup {"online"}
    /\ UNCHANGED <<rest, presenceKey, lastKey, shown, unseen, crossed>>

\* GET of the number published last.  Another handler may have read it and not yet
\* written its own.
Publishing(h) == \E o \in Running("presence") \ {h} : work[o].pc \in {"getlast", "setlast"}

PresenceRead(h) ==
    /\ Is(h, "presence", "hgetall") /\ Answered(h)
    /\ wire' = Append(Tail(wire), h)
    /\ \E last \in {lastKey, Unset} :
         /\ IF last = lastKey THEN Fine ELSE Fault
         /\ work' = [work EXCEPT ![h].pc = "getlast", ![h].event = [last |-> last]]
    /\ crossed' = IF Publishing(h) THEN crossed \cup {"online"} ELSE crossed \ {"online"}
    /\ UNCHANGED <<rest, presenceKey, lastKey, shown, unseen, lost>>

\* Defect: a count that went down does not differ from the last one shown.
PresenceLastGrows(h) ==
    /\ Is(h, "presence", "getlast") /\ Answered(h)
    /\ \/ /\ work[h].event.last < work[h].value
          /\ Issue(h, "setlast", work[h].value)
          /\ lastKey' = work[h].value /\ lost' = lost \ {"last"} /\ crossed' = crossed \ {"sync"}
       \/ /\ work[h].event.last >= work[h].value
          /\ Finish(h)
          /\ UNCHANGED <<lastKey, lost, crossed>>
    /\ UNCHANGED <<rest, presenceKey, shown, faults, unseen>>

\* The number is written, and then published, if it is another one.
PresenceLast(h) ==
    /\ Is(h, "presence", "getlast") /\ Answered(h)
    /\ \/ /\ work[h].event.last # work[h].value
          /\ Issue(h, "setlast", work[h].value)
          /\ \/ Fine /\ lastKey' = work[h].value /\ lost' = lost \ {"last"}
             \/ Fault /\ lost' = lost \cup {"last"} /\ UNCHANGED lastKey
          /\ crossed' = crossed \ {"sync"}
       \/ /\ work[h].event.last = work[h].value
          /\ Finish(h) /\ Fine
          /\ UNCHANGED <<lastKey, lost, crossed>>
    /\ UNCHANGED <<rest, presenceKey, shown, unseen>>

PresenceSet(h) ==
    /\ Is(h, "presence", "setlast") /\ Answered(h)
    /\ Publish("onlineMembers", work[h].value)
    /\ Finish(h)
    /\ UNCHANGED <<rest, presenceKey, lastKey, faults, unseen, lost, crossed>>

-------------------------------------------------------------------------------
(* GUILD_MEMBER_UPDATE; and the consumer's count of the role.              *)

RoleFound(h) ==
    /\ Is(h, "role", "find") /\ known
    /\ Issue(h, "role", Unset) /\ CountRole(h)
    /\ UNCHANGED <<env, memberRow, memberKey, voiceKey, presenceKey, lastKey, shown, fetch,
                   unseen, crossed>>

RoleCounted(h) ==
    /\ Is(h, "role", "role") /\ Answered(h)
    /\ Finish(h)
    /\ UNCHANGED <<env, memberRow, keys, shown, fetch, faults, history>>

AllDue == Total([h \in Handler |-> Due(h)])

\* The process of the custom clients runs the consumers and answers requests, too.
Consuming == up \/ served = "shard"

\* No field, or a negative one: all members are read from Discord ...
FetchRole ==
    /\ known /\ fetch = Unset /\ Consuming
    /\ roleKey["twice"] < 0
    /\ fetch' = Size(holder)
    /\ UNCHANGED <<env, memberRow, keys, shown, work, wire, faults, history>>

\* ... and the fields of the roles that somebody holds are written.
FetchedRole ==
    /\ fetch # Unset
    /\ fetch' = Unset
    /\ IF fetch > 0
       THEN /\ roleKey' = [roleKey EXCEPT !["twice"] = fetch]
            /\ lost' = IF fetch + AllDue = Size(holder) THEN lost \ {"role"} ELSE lost \cup {"role"}
       ELSE UNCHANGED <<roleKey, lost>>
    /\ UNCHANGED <<env, memberRow, memberKey, voiceKey, presenceKey, lastKey, shown, work, wire,
                   faults, unseen, crossed>>

-------------------------------------------------------------------------------
(* A guild sync (POST /sync) saves Discord's approximate numbers, publishes    *)
(* the online one and writes it, under its own spelling, as published last.   *)

GuildSync(n) ==
    /\ known /\ Consuming /\ events < MaxEvents /\ events' = events + 1
    /\ memberRow' = n /\ lost' = lost \cup {"row"}
    /\ Publish("onlineMembers", n)
    /\ IF served = "custom" THEN lastKey' = n ELSE UNCHANGED lastKey
    /\ crossed' = crossed \cup {"sync"}
    /\ UNCHANGED <<discord, served, up, known, memberKey, voiceKey, presenceKey, roleKey,
                   work, wire, fetch, faults, unseen>>

-------------------------------------------------------------------------------
(* The process ends: its handlers, and its consumer, do no more.  Commands of  *)
(* theirs that Redis has not executed are as if they had not been issued.  The *)
(* keys stay, and nothing is counted again when the process is back: the       *)
(* client then knows the members and presences that Discord reports to it.    *)

ProcessEnds ==
    /\ up /\ up' = FALSE
    /\ Fault
    /\ work' = [h \in Handler |-> Free] /\ wire' = <<>>
    /\ fetch' = IF served = "custom" THEN Unset ELSE fetch
    /\ cached' = {}
    /\ unseen' = [voice |-> unseen.voice + Total(VoiceDues),
                  presence |-> [s \in Status |-> unseen.presence[s] + Total(PresenceDues(s))]]
    /\ lost' = lost \cup UNION {Owes(h) : h \in Handler}
    /\ UNCHANGED <<present, speaking, status, holder, served, known, memberRow, keys, shown,
                   events, crossed>>

ProcessStarts ==
    /\ ~up /\ up' = TRUE
    /\ cached' = User \ With("offline")
    /\ UNCHANGED <<present, speaking, status, holder, served, known, memberRow, keys, shown,
                   work, wire, fetch, events, faults, history>>

-------------------------------------------------------------------------------
Handle(h) ==
    \/ Unknown(h)
    \/ MemberFound(h) \/ MemberSet(h) \/ MemberUpdate(h) \/ MemberUpdated(h)
    \/ MemberJobs(h) \/ MemberRole(h) \/ MemberRest(h) \/ JobsFail(h)
    \/ VoiceFound(h) \/ VoiceDecr(h) \/ VoiceIncr(h) \/ VoiceGet(h)
    \/ PresenceFound(h) \/ PresenceMinus(h) \/ PresencePlus(h)
    \/ PresenceRead(h) \/ PresenceLast(h) \/ PresenceSet(h)
    \/ RoleFound(h) \/ RoleCounted(h)

DiscordChanges ==
    \E u \in User :
       \/ MemberChange(u) \/ RoleChange(u)
       \/ \E in \in BOOLEAN : VoiceChange(u, in)
       \/ \E s \in Status : PresenceChange(u, s)

CountsNext ==
    \/ DiscordChanges \/ Onboard \/ ProcessEnds \/ ProcessStarts
    \/ \E h \in Handler : Handle(h)
    \/ FetchRole \/ FetchedRole
    \/ \E n \in {0, 1} : GuildSync(n)

CountsSpec == CountsInit /\ [][CountsNext]_countsVars

-------------------------------------------------------------------------------
(* Properties: what the keys and the clients show when no handler is running. *)

Quiet == \A h \in Handler : work[h] = Free

\* The voice counter has counted every join and leave once, moves included
\* (:607-612): it differs from Discord's number by what happened before the guild
\* had a row or the process a key or while it was down, by commands that failed and by what
\* the end of the process kept a handler from counting, and by nothing else.
VoiceLedger == Quiet => voiceKey = Size(speaking) - unseen.voice

\* Clients are left with the counter's last value, however the handlers overlapped
\* (:613-622: GET is issued after the handler's own changes, and published in the
\* order of the answers).
VoiceShown ==
    Quiet /\ shown["voiceOnline"] # Unset /\ "voiceOnline" \notin lost =>
       shown["voiceOnline"] = Positive(voiceKey)

\* member_count in Redis is Discord's number, however the handlers overlapped: it is
\* read when SET is issued (:403-406, :344).
MembersKept ==
    Quiet /\ memberKey # Unset /\ "members" \notin lost => memberKey = Size(present)

\* The row and the clients show that number too, unless two handlers overlapped
\* between their readings and publications (:347-356).
MembersShown ==
    Quiet /\ memberKey # Unset /\ "member" \notin crossed =>
       /\ served = "shard" /\ lost \cap {"members", "row"} = {} => memberRow = memberKey
       /\ lost \cap {"members", "memberCount"} = {} => shown["memberCount"] = memberKey

\* Clients see the presences' sum, unless a handler compared it with a number that
\* another one was about to replace (:738-741).
OnlineShown ==
    Quiet /\ shown["onlineMembers"] # Unset
          /\ lost \cap {"last", "online"} = {} /\ crossed \cap {"sync", "online"} = {} =>
       shown["onlineMembers"] = Online

\* The presences' hash has counted every change once (:723-728).
PresenceLedger ==
    Quiet => \A s \in Status : presenceKey[s] = Size(With(s)) - unseen.presence[s]

\* A custom client's role field, once read from Discord, follows the role's holders:
\* the handlers that are not done with an event add it, once.  A field that HINCRBY
\* created, a failure and a reading that overlapped changes are lost.
RoleCounts ==
    served = "custom" /\ roleKey["twice"] # Unset /\ "role" \notin lost =>
       roleKey["twice"] + AllDue = Size(holder)

\* The keys hold what the handlers' events add up to, and the clients were told what the
\* keys hold, whenever no handler is running.
Kept == CountsTypeOK /\ VoiceLedger /\ MembersKept /\ PresenceLedger /\ RoleCounts
Told == VoiceShown /\ MembersShown /\ OnlineShown
===============================================================================
