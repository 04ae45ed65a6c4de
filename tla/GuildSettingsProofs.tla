-------------------------- MODULE GuildSettingsProofs --------------------------
(***************************************************************************)
(* That the cache comes to hold the table's rows, and what the last PATCH of a  *)
(* slot or a module gave is stored, for every number of slots, modules, PATCHes, *)
(* workers and faults.                                                      *)
(***************************************************************************)
EXTENDS GuildSettings, FiniteSetTheorems, TLAPS

RowOrNone == Row \cup {NoRow}

(* A function from some of the slots.                                        *)
Some(S) == UNION {[T -> S] : T \in SUBSET Slot}

(* A PATCH of rows; what it found and what it selected are of the rows it is about. *)
Patching == [pc : {"find", "select", "write", "add"}, given : Some(Given),
             found : Some(RowOrNone), stored : Some(RowOrNone), overtaken : SUBSET Slot]
Patch(q) ==
    /\ q \in Patching
    /\ q.pc \in {"select", "write"} => DOMAIN q.found = DOMAIN q.given
    /\ q.pc = "write" => DOMAIN q.stored = DOMAIN q.given

(* No request, or a PATCH of modules.                                        *)
Apart(q) == "pc" \in DOMAIN q /\ q.pc \in {"idle", "module", "enable"}

Tasks ==
    {Idle} \cup [pc : {"read"}, stalled : BOOLEAN]
           \cup [pc : {"set"}, stalled : BOOLEAN, rows : Table, behind : BOOLEAN]

Shaped ==
    /\ table \in Table
    /\ request = [p \in Request |-> request[p]]
    /\ \A p \in Request : Patch(request[p]) \/ Apart(request[p])
    /\ jobs \in Nat /\ again \in Nat /\ again <= jobs
    /\ task \in [Worker -> Tasks]
    /\ cache \in Table \cup {NoCache} /\ astray \in BOOLEAN

(* A PATCH that nobody overtook has found, and selected, what is in the table;  *)
(* and no row goes away.                                                     *)
Untouched(p) ==
    /\ request[p].pc = "write" =>
          \A s \in Slots(p) : request[p].stored[s] # NoRow => table[s] # NoRow
    /\ request[p].pc \in {"select", "write"} /\ request[p].overtaken = {} =>
          \A s \in Slots(p) : request[p].found[s] = table[s]
    /\ request[p].pc = "write" /\ request[p].overtaken = {} =>
          \A s \in Slots(p) : request[p].stored[s] = table[s]

(* Somebody is going to read the rows again.                                  *)
Announced ==
    \/ jobs > 0
    \/ \E p \in Request : request[p].pc = "add"
    \/ \E w \in Worker : task[w].pc = "read"

(* Rows that a worker is about to set are the table's, or others will be set. *)
Setting(w) ==
    task[w].pc = "set" /\ ~task[w].behind =>
       \/ task[w].rows = table
       \/ Announced
       \/ \E v \in Worker \ {w} : task[v].pc = "set"

(* The cache has the table's rows, or others will be set.                      *)
Cached ==
    cache # NoCache /\ ~astray =>
       \/ cache = table
       \/ Announced
       \/ \E w \in Worker : task[w].pc = "set"

Ahead ==
    /\ Shaped
    /\ \A p \in Request : Untouched(p)
    /\ \A w \in Worker : Setting(w)
    /\ Cached

-------------------------------------------------------------------------------
LEMMA SomeDef ==
    ASSUME NEW S, NEW f
    PROVE  f \in Some(S) <=> DOMAIN f \subseteq Slot /\ f \in [DOMAIN f -> S]
BY DEF Some

LEMMA EmptyIsSome == ASSUME NEW S PROVE <<>> \in Some(S)
<1>1. DOMAIN <<>> = {} /\ <<>> \in [{} -> S]
    OBVIOUS
<1>2. QED
    BY <1>1, SomeDef

\* What a PATCH saves is a row.
LEMMA PatchedIsRow ==
    \A row \in RowOrNone, given \in Given : Patched(row, given) \in Row
BY DEF NoRow, Row, RowOrNone, Given, Patched, Value, Kept, Column

LEMMA RowIsNotNone == NoRow \notin Row
BY DEF NoRow, Row, Value, Column

LEMMA AheadInit == ASSUME Init PROVE Ahead
<1>1. \A p \in Request : request[p] = Idle
    BY DEF Init
<1>2. Idle.pc = "idle" /\ Apart(Idle)
    BY DEF Idle, Apart
<1>3. table \in Table /\ cache \in Table \cup {NoCache}
    BY DEF Init, Table
<1>4. task \in [Worker -> Tasks] /\ \A w \in Worker : task[w].pc = "idle"
    BY <1>2 DEF Init, Tasks
<1>0. jobs \in Nat /\ again \in Nat /\ again <= jobs /\ request = [p \in Request |-> request[p]]
    BY DEF Init
<1>5. Shaped
    BY <1>0, <1>1, <1>2, <1>3, <1>4 DEF Init, Shaped
<1>6. \A p \in Request : Untouched(p)
    BY <1>1, <1>2 DEF Untouched
<1>7. Cached /\ \A w \in Worker : Setting(w)
    BY <1>4 DEF Init, Cached, Setting
<1>8. QED
    BY <1>5, <1>6, <1>7 DEF Ahead

-------------------------------------------------------------------------------
(* Steps of one request that leave the table alone.                           *)

\* Such a step keeps every request's shape.
LEMMA OneRequest ==
    ASSUME Shaped, NEW p \in Request, NEW q, Patch(q) \/ Apart(q),
           request' = [request EXCEPT ![p] = q]
    PROVE  /\ request' = [r \in Request |-> request'[r]]
           /\ request'[p] = q
           /\ \A r \in Request \ {p} : request'[r] = request[r]
           /\ \A r \in Request : Patch(request'[r]) \/ Apart(request'[r])
<1>1. /\ request' = [r \in Request |-> IF r = p THEN q ELSE request[r]]
    BY DEF Shaped
<1>2. request' = [r \in Request |-> request'[r]]
    BY <1>1
<1>3. request'[p] = q /\ \A r \in Request \ {p} : request'[r] = request[r]
    BY <1>1
<1>4. ASSUME NEW r \in Request PROVE Patch(request'[r]) \/ Apart(request'[r])
    <2>1. CASE r = p
        BY <1>3, <2>1
    <2>2. CASE r # p
        <3>1. request'[r] = request[r]
            BY <1>3, <2>2
        <3>2. QED
            BY <3>1 DEF Shaped
    <2>3. QED
        BY <2>1, <2>2
<1>5. QED
    BY <1>2, <1>3, <1>4

\* A step of a request from a place other than "add", that touches neither table nor
\* bot, and whose own copy is fresh.
LEMMA Onward ==
    ASSUME Ahead, NEW p \in Request, NEW q, Patch(q) \/ Apart(q),
           request' = [request EXCEPT ![p] = q], request[p].pc # "add",
           table' = table, UNCHANGED bot, Untouched(p)'
    PROVE  Ahead'
<1>1. Shaped /\ request[p].pc # "add"
    BY DEF Ahead
<1>2. Shaped'
    BY <1>1, OneRequest DEF Shaped, bot
<1>3. \A r \in Request \ {p} : request'[r] = request[r]
    BY <1>1, OneRequest
<1>4. ASSUME NEW r \in Request PROVE Untouched(r)'
    <2>1. CASE r = p
        BY <2>1
    <2>2. CASE r # p
        BY <1>3, <2>2 DEF Ahead, Untouched, Slots
    <2>3. QED
        BY <2>1, <2>2
<1>5. Announced => Announced'
    BY <1>1, <1>3 DEF Announced, bot
<1>6. \A w \in Worker : Setting(w)'
    BY <1>5 DEF Ahead, Setting, bot
<1>7. Cached'
    BY <1>5 DEF Ahead, Cached, bot
<1>8. QED
    BY <1>2, <1>4, <1>6, <1>7 DEF Ahead

LEMMA PatchKinds ==
    /\ \A q \in Patching : q.pc \in {"find", "select", "write", "add"} /\ q # Idle
    /\ \A q : Apart(q) => q.pc \notin {"find", "select", "write", "add"}
    /\ Apart(Idle) /\ Idle.pc = "idle"
BY DEF Patching, Idle, Apart, Patch

\* A request that is at a place of a PATCH of rows, is one.
LEMMA AtPatch ==
    ASSUME Shaped, NEW p \in Request, request[p].pc \in {"find", "select", "write", "add"}
    PROVE  Patch(request[p]) /\ request[p] \in Patching
<1>1. ~Apart(request[p])
    BY PatchKinds
<1>2. QED
    BY <1>1 DEF Shaped, Patch

LEMMA StartKeeps ==
    ASSUME Ahead, NEW p \in Request, Start(p) PROVE Ahead'
<1> PICK S \in SUBSET Slot : \E g \in [S -> Asked] :
         request' = [request EXCEPT ![p] =
            [pc |-> "find", given |-> g, found |-> <<>>, stored |-> <<>>, overtaken |-> {}]]
    BY DEF Start
<1>1. PICK g \in [S -> Asked] : request' = [request EXCEPT ![p] =
            [pc |-> "find", given |-> g, found |-> <<>>, stored |-> <<>>, overtaken |-> {}]]
    OBVIOUS
<1> DEFINE q == [pc |-> "find", given |-> g, found |-> <<>>, stored |-> <<>>, overtaken |-> {}]
<1>2. g \in Some(Given)
    <2>1. g \in [S -> Given]
        BY SettingsAssumption DEF SettingsAssumption
    <2>2. QED
        BY <2>1, SomeDef
<1>3. q \in Patching
    BY <1>2, EmptyIsSome DEF Patching
<1>4. Patch(q)
    BY <1>3 DEF Patch
<1>5. request[p].pc # "add" /\ table' = table /\ UNCHANGED bot
    BY DEF Start, At
<1>6. request'[p] = q
    BY <1>1, <1>4, OneRequest DEF Ahead
<1>7. Untouched(p)'
    BY <1>6 DEF Untouched
<1>8. QED
    BY <1>1, <1>4, <1>5, <1>7, Onward

LEMMA SlotsOf ==
    ASSUME Shaped, NEW p \in Request, request[p].pc \in {"find", "select", "write", "add"}
    PROVE  /\ Slots(p) \subseteq Slot /\ request[p].given \in [Slots(p) -> Given]
           /\ [s \in Slots(p) |-> table[s]] \in Some(RowOrNone)
<1>1. request[p].given \in Some(Given)
    BY AtPatch DEF Patching
<1>2. Slots(p) \subseteq Slot /\ request[p].given \in [Slots(p) -> Given]
    BY <1>1, SomeDef DEF Slots
<1>3. [s \in Slots(p) |-> table[s]] \in [Slots(p) -> RowOrNone]
    BY <1>2 DEF Shaped, Table, RowOrNone
<1>4. QED
    BY <1>2, <1>3, SomeDef

LEMMA FindKeeps ==
    ASSUME Ahead, NEW p \in Request, Find(p) PROVE Ahead'
<1> DEFINE rows == [s \in Slots(p) |-> table[s]]
           q == [request[p] EXCEPT !.pc = "select", !.found = rows]
<1>1. /\ request[p].pc = "find" /\ Shaped
      /\ request' = [request EXCEPT ![p] = q] /\ table' = table /\ UNCHANGED bot
    BY DEF Ahead, Find, At, bot
<1>2. Patch(request[p]) /\ request[p] \in Patching /\ rows \in Some(RowOrNone)
    BY <1>1, AtPatch, SlotsOf
<1>3. /\ q \in Patching /\ q.pc = "select" /\ q.found = rows /\ q.given = request[p].given
    BY <1>2 DEF Patching
<1>4. Patch(q)
    BY <1>3 DEF Patch, Slots
<1>5. request'[p] = q
    BY <1>1, <1>4, OneRequest
<1>6. Untouched(p)'
    BY <1>1, <1>3, <1>5 DEF Untouched, Slots
<1>7. QED
    BY <1>1, <1>4, <1>6, Onward

LEMMA SelectKeeps ==
    ASSUME Ahead, NEW p \in Request, Select(p) PROVE Ahead'
<1> DEFINE rows == [s \in Slots(p) |-> table[s]]
           q == [request[p] EXCEPT !.pc = "write", !.stored = rows]
<1>1. /\ request[p].pc = "select" /\ Shaped /\ Untouched(p)
      /\ request' = [request EXCEPT ![p] = q] /\ table' = table /\ UNCHANGED bot
    BY DEF Ahead, Select, At, bot
<1>2. Patch(request[p]) /\ request[p] \in Patching /\ rows \in Some(RowOrNone)
    BY <1>1, AtPatch, SlotsOf
<1>3. /\ q \in Patching /\ q.pc = "write" /\ q.stored = rows /\ q.given = request[p].given
      /\ q.found = request[p].found /\ q.overtaken = request[p].overtaken
    BY <1>2 DEF Patching
<1>4. Patch(q)
    BY <1>1, <1>2, <1>3 DEF Patch, Slots
<1>5. request'[p] = q
    BY <1>1, <1>4, OneRequest
<1>6. Untouched(p)'
    BY <1>1, <1>3, <1>5 DEF Untouched, Slots
<1>7. QED
    BY <1>1, <1>4, <1>6, Onward

\* A request ends that is not about to add a job.
LEMMA PatchFailsKeeps ==
    ASSUME Ahead, NEW p \in Request, PatchFails(p) PROVE Ahead'
<1>1. /\ request[p].pc # "add" /\ Shaped
      /\ request' = [request EXCEPT ![p] = Idle] /\ table' = table /\ UNCHANGED bot
    BY DEF Ahead, PatchFails, At, bot
<1>2. request'[p] = Idle
    BY <1>1, OneRequest, PatchKinds
<1>3. Untouched(p)'
    BY <1>2, PatchKinds DEF Untouched
<1>4. QED
    BY <1>1, <1>3, PatchKinds, Onward

\* The steps of a PATCH of modules.
LEMMA ModuleKeeps ==
    ASSUME Ahead, NEW p \in Request, NEW q, Apart(q), request[p].pc # "add",
           request' = [request EXCEPT ![p] = q], table' = table, UNCHANGED bot
    PROVE  Ahead'
<1>1. request'[p] = q
    BY OneRequest DEF Ahead
<1>2. Untouched(p)'
    BY <1>1, PatchKinds DEF Untouched
<1>3. QED
    BY <1>2, Onward

LEMMA StartModulesKeeps ==
    ASSUME Ahead, NEW p \in Request, StartModules(p) PROVE Ahead'
<1>1. PICK g, k : request' = [request EXCEPT ![p] =
                                [pc |-> "module", given |-> g, key |-> k, found |-> 0]]
    BY DEF StartModules
<1>2. Apart([pc |-> "module", given |-> g, key |-> k, found |-> 0])
    BY DEF Apart
<1>3. request[p].pc # "add" /\ table' = table /\ UNCHANGED bot
    BY DEF StartModules, At, bot
<1>4. QED
    BY <1>1, <1>2, <1>3, ModuleKeeps

LEMMA FindModuleKeeps ==
    ASSUME Ahead, NEW p \in Request, FindModule(p) PROVE Ahead'
<1>1. PICK i : request' = [request EXCEPT ![p].pc = "enable", ![p].found = i]
    BY DEF FindModule
<1> DEFINE q == [request[p] EXCEPT !.pc = "enable", !.found = i]
<1>2. /\ request[p].pc = "module" /\ table' = table /\ UNCHANGED bot
      /\ request' = [request EXCEPT ![p] = q]
    BY <1>1 DEF FindModule, At, bot
<1>3. Apart(request[p])
    BY <1>2, AtPatch DEF Ahead, Shaped, Patch, Patching
<1>4. Apart(q)
    BY <1>3 DEF Apart
<1>5. QED
    BY <1>2, <1>4, ModuleKeeps

LEMMA SaveModuleKeeps ==
    ASSUME Ahead, NEW p \in Request, SaveModule(p) PROVE Ahead'
<1>1. request[p].pc = "enable" /\ table' = table /\ UNCHANGED bot
    BY DEF SaveModule, At, bot
<1>2. PICK q : request' = [request EXCEPT ![p] = q] /\ Apart(q)
    <2>1. CASE request' = [request EXCEPT ![p] = Idle]
        BY <2>1, PatchKinds
    <2>2. ASSUME NEW g, NEW k,
                 request' = [request EXCEPT ![p] =
                               [pc |-> "module", given |-> g, key |-> k, found |-> 0]]
          PROVE  \E q : request' = [request EXCEPT ![p] = q] /\ Apart(q)
        <3>1. Apart([pc |-> "module", given |-> g, key |-> k, found |-> 0])
            BY DEF Apart
        <3>2. QED
            BY <2>2, <3>1
    <2>3. QED
        BY <2>1, <2>2 DEF SaveModule
<1>3. QED
    BY <1>1, <1>2, ModuleKeeps

-------------------------------------------------------------------------------
(* The write of a PATCH.                                                     *)

\* A row that is written over an untouched one, and does not differ, stays as it is.
LEMMA WriteUnchanged ==
    ASSUME Ahead, NEW p \in Request, Write(p), ~Changed(p), request[p].overtaken = {}
    PROVE  table' = table
<1>1. Shaped /\ Untouched(p) /\ request[p].pc = "write"
    BY DEF Ahead, Write, At
<1>2. Slots(p) \subseteq Slot /\ request[p].given \in [Slots(p) -> Given]
    BY <1>1, SlotsOf
<1>3. ASSUME NEW s \in Slots(p) PROVE Written(p, s) = table[s]
    <2>1. request[p].found[s] = table[s] /\ request[p].stored[s] = table[s]
        BY <1>1, <1>3 DEF Untouched
    <2>2. table[s] \in RowOrNone
        BY <1>1, <1>2 DEF Shaped, Table, RowOrNone
    <2>3. Entity(p, s) = table[s]
        BY <2>1 DEF Changed
    <2>4. Entity(p, s) \in Row
        BY <1>2, <2>1, <2>2, PatchedIsRow DEF Entity
    <2>5. table[s] # NoRow /\ table[s] = [c \in Column |-> table[s][c]]
        BY <2>3, <2>4, RowIsNotNone DEF Row
    <2>6. Written(p, s) = [c \in Column |-> table[s][c]]
        BY <2>1, <2>3, <2>5 DEF Written
    <2>7. QED
        BY <2>5, <2>6
<1>4. table' = [s \in Slot |-> IF s \in Slots(p) THEN Written(p, s) ELSE table[s]]
    BY DEF Write
<1>5. table' = [s \in Slot |-> table[s]]
    BY <1>3, <1>4
<1>6. QED
    BY <1>1, <1>5 DEF Shaped, Table

\* A row of the PATCH is the entity found with what was given, or the stored one with it.
LEMMA WriteRow ==
    ASSUME Ahead, NEW p \in Request, Write(p), NEW s \in Slots(p)
    PROVE  table'[s] \in Row
<1>1. Shaped /\ request[p].pc = "write" /\ Untouched(p)
    BY DEF Ahead, Write, At
<1>2. Slots(p) \subseteq Slot /\ request[p].given \in [Slots(p) -> Given]
    BY <1>1, SlotsOf
<1>3. /\ request[p].found \in [Slots(p) -> RowOrNone]
      /\ request[p].stored \in [Slots(p) -> RowOrNone]
    BY <1>1, AtPatch, SomeDef DEF Patch, Patching, Slots
<1>4. Entity(p, s) \in Row
    BY <1>2, <1>3, PatchedIsRow DEF Entity
<1>5. table'[s] = Written(p, s)
    BY <1>2 DEF Write
<1>6. CASE request[p].stored[s] = NoRow
    BY <1>4, <1>5, <1>6 DEF Written
<1>7. CASE request[p].stored[s] # NoRow
    <2>1. table[s] \in Row
        BY <1>1, <1>2, <1>7 DEF Untouched, Shaped, Table
    <2>2. QED
        BY <1>4, <1>5, <1>7, <2>1 DEF Written, Row
<1>8. QED
    BY <1>6, <1>7

\* Rows outside of the PATCH stay, and the table keeps its type.
LEMMA WriteTable ==
    ASSUME Ahead, NEW p \in Request, Write(p)
    PROVE  /\ table' \in Table
           /\ \A s \in Slot \ Slots(p) : table'[s] = table[s]
           /\ \A s \in Slot : table[s] # NoRow => table'[s] # NoRow
<1>1. Shaped /\ request[p].pc = "write"
    BY DEF Ahead, Write, At
<1>2. Slots(p) \subseteq Slot
    BY <1>1, SlotsOf
<1>3. table' = [s \in Slot |-> IF s \in Slots(p) THEN Written(p, s) ELSE table[s]]
    BY DEF Write
<1>4. \A s \in Slots(p) : table'[s] \in Row
    BY WriteRow
<1>5. \A s \in Slot : table[s] \in RowOrNone
    BY <1>1 DEF Shaped, Table, RowOrNone
<1>6. \A s \in Slot \ Slots(p) : table'[s] = table[s]
    BY <1>3
<1>7. table' = [s \in Slot |-> table'[s]]
    BY <1>3
<1>8. QED
    BY <1>2, <1>4, <1>5, <1>6, <1>7, RowIsNotNone DEF Table, RowOrNone

\* The request that wrote adds a job, or is over; others that were overtaken know.
LEMMA WriteRequests ==
    ASSUME Ahead, NEW p \in Request, Write(p)
    PROVE  /\ request' = [r \in Request |-> request'[r]]
           /\ \A r \in Request : Patch(request'[r]) \/ Apart(request'[r])
           /\ request'[p].pc = IF Changed(p) THEN "add" ELSE "idle"
           /\ \A r \in Request \ {p} : Untouched(r)' /\ request'[r].pc = request[r].pc
<1>1. Shaped /\ request[p].pc = "write"
    BY DEF Ahead, Write, At
<1>2. Patch(request[p]) /\ request[p] \in Patching /\ Slots(p) \subseteq Slot
    BY <1>1, AtPatch, SlotsOf
<1> DEFINE q == IF Changed(p) THEN [request[p] EXCEPT !.pc = "add"] ELSE Idle
           over(r) == [request[r] EXCEPT !.overtaken = @ \cup (Slots(p) \cap Slots(r))]
<1>3. request' = [r \in Request |->
          IF r = p THEN q
          ELSE IF request[r].pc \in {"select", "write"} THEN over(r) ELSE request[r]]
    BY DEF Write
<1>4. /\ Patch(q) \/ Apart(q)
      /\ q.pc = IF Changed(p) THEN "add" ELSE "idle"
    <2>1. CASE Changed(p)
        <3>1. q \in Patching /\ q.pc = "add"
            BY <1>2, <2>1 DEF Patching
        <3>2. QED
            BY <2>1, <3>1 DEF Patch
    <2>2. CASE ~Changed(p)
        BY <2>2, PatchKinds
    <2>3. QED
        BY <2>1, <2>2
<1>5. request'[p] = q /\ request' = [r \in Request |-> request'[r]]
    BY <1>3
<1>6. ASSUME NEW r \in Request \ {p}
      PROVE  /\ Patch(request'[r]) \/ Apart(request'[r])
             /\ Untouched(r)' /\ request'[r].pc = request[r].pc
    <2>1. CASE request[r].pc \notin {"select", "write"}
        <3>1. request'[r] = request[r]
            BY <1>3, <2>1
        <3>2. QED
            BY <1>1, <2>1, <3>1 DEF Shaped, Untouched
    <2>2. CASE request[r].pc \in {"select", "write"}
        <3>1. request'[r] = over(r)
            BY <1>3, <2>2
        <3>2. Patch(request[r]) /\ request[r] \in Patching /\ Slots(r) \subseteq Slot
            BY <1>1, <2>2, AtPatch, SlotsOf
        <3>3. /\ over(r) \in Patching
              /\ over(r).pc = request[r].pc /\ over(r).given = request[r].given
              /\ over(r).found = request[r].found /\ over(r).stored = request[r].stored
              /\ over(r).overtaken = request[r].overtaken \cup (Slots(p) \cap Slots(r))
            BY <3>2 DEF Patching
        <3>4. Patch(over(r))
            BY <3>2, <3>3 DEF Patch
        <3>5. Slots(r)' = Slots(r)
            BY <3>1, <3>3 DEF Slots
        <3>6. over(r).overtaken = {} =>
                /\ request[r].overtaken = {} /\ \A s \in Slots(r) : table'[s] = table[s]
            BY <3>2, <3>3, WriteTable
        <3>7. Untouched(r)
            BY DEF Ahead
        <3>8. \A s \in Slots(r) : table[s] # NoRow => table'[s] # NoRow
            BY <3>2, WriteTable
        <3>9. Untouched(r)'
            BY <3>1, <3>3, <3>5, <3>6, <3>7, <3>8 DEF Untouched
        <3>10. QED
            BY <3>1, <3>3, <3>4, <3>9
    <2>3. QED
        BY <2>1, <2>2
<1>7. QED
    BY <1>4, <1>5, <1>6

\* A change that is not announced puts every worker behind.
LEMMA UnannouncedTasks ==
    ASSUME Shaped, Unannounced
    PROVE  /\ task' \in [Worker -> Tasks] /\ astray' = TRUE
           /\ \A w \in Worker : /\ task'[w].pc = task[w].pc
                                /\ task[w].pc = "set" => task'[w].behind
<1>1. task' = [w \in Worker |->
                 IF task[w].pc = "set" THEN [task[w] EXCEPT !.behind = TRUE] ELSE task[w]]
    BY DEF Unannounced
<1>2. ASSUME NEW w \in Worker
      PROVE  /\ task'[w] \in Tasks /\ task'[w].pc = task[w].pc
             /\ task[w].pc = "set" => task'[w].behind
    <2>1. CASE task[w].pc = "set"
        <3>1. task[w] \in [pc : {"set"}, stalled : BOOLEAN, rows : Table, behind : BOOLEAN]
            BY <2>1 DEF Shaped, Tasks, Idle
        <3>2. task'[w] = [task[w] EXCEPT !.behind = TRUE]
            BY <1>1, <2>1
        <3>3. /\ task'[w] \in [pc : {"set"}, stalled : BOOLEAN, rows : Table, behind : BOOLEAN]
              /\ task'[w].behind = TRUE /\ task'[w].pc = "set"
            BY <3>1, <3>2
        <3>4. QED
            BY <2>1, <3>3 DEF Tasks
    <2>2. CASE task[w].pc # "set"
        BY <1>1, <2>2 DEF Shaped
    <2>3. QED
        BY <2>1, <2>2
<1>3. QED
    BY <1>1, <1>2 DEF Unannounced

LEMMA WriteKeeps ==
    ASSUME Ahead, NEW p \in Request, Write(p) PROVE Ahead'
<1>1. Shaped /\ request[p].pc = "write" /\ UNCHANGED <<jobs, again, cache>>
    BY DEF Ahead, Write, At
<1>2. CASE ~Changed(p) /\ request[p].overtaken # {}
    <2>1. Unannounced
        BY <1>2 DEF Write
    <2>2. Shaped'
        BY <1>1, <2>1, WriteTable, WriteRequests, UnannouncedTasks DEF Shaped
    <2>3. \A w \in Worker : Setting(w)'
        BY <1>1, <2>1, UnannouncedTasks DEF Setting
    <2>4. Cached'
        BY <1>1, <2>1, UnannouncedTasks DEF Cached
    <2>5. Untouched(p)'
        BY <1>2, WriteRequests DEF Untouched
    <2>6. QED
        BY <2>2, <2>3, <2>4, <2>5, WriteRequests DEF Ahead
<1>3. CASE Changed(p) \/ request[p].overtaken = {}
    <2>1. UNCHANGED <<task, astray>>
        BY <1>3 DEF Write
    <2>2. Shaped'
        BY <1>1, <2>1, WriteTable, WriteRequests DEF Shaped
    <2>3. table' = table \/ Announced'
        <3>1. CASE Changed(p)
            BY <3>1, WriteRequests DEF Announced
        <3>2. CASE ~Changed(p)
            BY <1>3, <3>2, WriteUnchanged
        <3>3. QED
            BY <3>1, <3>2
    <2>4. Announced => Announced'
        BY <1>1, <2>1, WriteRequests DEF Announced
    <2>5. \A w \in Worker : Setting(w)'
        BY <2>1, <2>3, <2>4 DEF Ahead, Setting
    <2>6. Cached'
        BY <1>1, <2>1, <2>3, <2>4 DEF Ahead, Cached
    <2>7. Untouched(p)'
        BY WriteRequests DEF Untouched
    <2>8. QED
        BY <2>2, <2>5, <2>6, <2>7, WriteRequests DEF Ahead
<1>4. QED
    BY <1>2, <1>3

-------------------------------------------------------------------------------
(* The job, and who works on it.                                             *)

\* A request ends that was about to add a job.
LEMMA AddEnds ==
    ASSUME Ahead, NEW p \in Request, request' = [request EXCEPT ![p] = Idle], table' = table
    PROVE  /\ request' = [r \in Request |-> request'[r]]
           /\ \A r \in Request : Patch(request'[r]) \/ Apart(request'[r])
           /\ \A r \in Request : Untouched(r)'
<1>1. Shaped
    BY DEF Ahead
<1>2. request'[p] = Idle /\ \A r \in Request \ {p} : request'[r] = request[r]
    BY <1>1, OneRequest, PatchKinds
<1>3. Untouched(p)'
    BY <1>2, PatchKinds DEF Untouched
<1>4. \A r \in Request \ {p} : Untouched(r)'
    BY <1>2 DEF Ahead, Untouched, Slots
<1>5. QED
    BY <1>1, <1>3, <1>4, OneRequest, PatchKinds

LEMMA AddJobKeeps ==
    ASSUME Ahead, NEW p \in Request, AddJob(p) PROVE Ahead'
<1>1. /\ Shaped /\ request' = [request EXCEPT ![p] = Idle] /\ jobs' = jobs + 1
      /\ UNCHANGED <<table, again, task, cache, astray>>
    BY DEF Ahead, AddJob
<1>2. Shaped'
    BY <1>1, AddEnds DEF Shaped
<1>3. Announced'
    BY <1>1 DEF Announced, Shaped
<1>4. QED
    BY <1>1, <1>2, <1>3, AddEnds DEF Ahead, Setting, Cached

LEMMA AddFailsKeeps ==
    ASSUME Ahead, NEW p \in Request, AddFails(p) PROVE Ahead'
<1>1. /\ Shaped /\ request' = [request EXCEPT ![p] = Idle] /\ Unannounced
      /\ UNCHANGED <<table, jobs, again, cache>>
    BY DEF Ahead, AddFails
<1>2. Shaped'
    BY <1>1, AddEnds, UnannouncedTasks DEF Shaped
<1>3. Cached' /\ \A w \in Worker : Setting(w)'
    BY <1>1, UnannouncedTasks DEF Setting, Cached
<1>4. QED
    BY <1>1, <1>2, <1>3, AddEnds DEF Ahead

\* Requests and table are as they were.
LEMMA BotOnly ==
    ASSUME Ahead, UNCHANGED users, jobs' \in Nat, again' \in Nat, again' <= jobs', task' \in [Worker -> Tasks],
           cache' \in Table \cup {NoCache}, astray' \in BOOLEAN
    PROVE  Shaped' /\ \A p \in Request : Untouched(p)'
<1>1. Shaped'
    BY DEF Ahead, Shaped, users
<1>2. QED
    BY <1>1 DEF Ahead, Untouched, Slots, users

LEMMA TakeKeeps ==
    ASSUME Ahead, NEW w \in Worker, Take(w) PROVE Ahead'
<1>1. /\ Shaped /\ jobs > 0 /\ jobs' = jobs - 1
      /\ UNCHANGED users /\ UNCHANGED <<cache, astray>>
    BY DEF Ahead, Take
<1>0. PICK stalled \in BOOLEAN :
         /\ IF stalled THEN again > 0 /\ again' = again - 1 ELSE jobs > again /\ again' = again
         /\ task' = [task EXCEPT ![w] = [pc |-> "read", stalled |-> stalled]]
    BY DEF Take
<1>2. /\ jobs' \in Nat /\ again' \in Nat /\ again' <= jobs'
      /\ task' \in [Worker -> Tasks] /\ task'[w].pc = "read"
    BY <1>0, <1>1 DEF Shaped, Tasks
<1>3. Announced'
    BY <1>2 DEF Announced
<1>4. Shaped' /\ \A p \in Request : Untouched(p)'
    BY <1>1, <1>2, BotOnly DEF Shaped
<1>5. QED
    BY <1>3, <1>4 DEF Ahead, Setting, Cached

LEMMA ReadRowsKeeps ==
    ASSUME Ahead, NEW w \in Worker, ReadRows(w) PROVE Ahead'
<1> DEFINE t == [pc |-> "set", stalled |-> task[w].stalled, rows |-> table, behind |-> FALSE]
<1>1. /\ Shaped /\ task[w].pc = "read" /\ task' = [task EXCEPT ![w] = t]
      /\ UNCHANGED users /\ UNCHANGED <<jobs, again, cache, astray>>
    BY DEF Ahead, ReadRows
<1>2. t \in Tasks
    <2>1. task[w].stalled \in BOOLEAN
        BY <1>1 DEF Shaped, Tasks, Idle
    <2> QED
        BY <1>1, <2>1 DEF Shaped, Tasks
<1>3. task' \in [Worker -> Tasks] /\ task'[w] = t /\ \A v \in Worker \ {w} : task'[v] = task[v]
    BY <1>1, <1>2 DEF Shaped
<1>4. Shaped' /\ \A p \in Request : Untouched(p)'
    BY <1>1, <1>3, BotOnly DEF Shaped
<1>5. task'[w].pc = "set" /\ task'[w].rows = table' /\ table' = table
    BY <1>1, <1>3 DEF users
<1>6. \A v \in Worker : Setting(v)'
    BY <1>5 DEF Setting
<1>7. Cached'
    BY <1>5 DEF Cached
<1>8. QED
    BY <1>4, <1>6, <1>7 DEF Ahead

\* Others who were about to set the cache are behind now.
Behind(w) ==
    task' = [v \in Worker |->
               IF v = w THEN Idle
               ELSE IF task[v].pc = "set" THEN [task[v] EXCEPT !.behind = TRUE] ELSE task[v]]

LEMMA BehindTasks ==
    ASSUME Shaped, NEW w \in Worker, Behind(w)
    PROVE  /\ task' \in [Worker -> Tasks]
           /\ task'[w].pc = "idle"
           /\ \A v \in Worker \ {w} : /\ task'[v].pc = task[v].pc
                                      /\ task'[v].pc = "set" => task'[v].behind
<1>1. task'[w] = Idle /\ Idle \in Tasks /\ Idle.pc = "idle"
    BY DEF Behind, Tasks, Idle
<1>2. ASSUME NEW v \in Worker \ {w}
      PROVE  /\ task'[v] \in Tasks /\ task'[v].pc = task[v].pc
             /\ task'[v].pc = "set" => task'[v].behind
    <2>1. CASE task[v].pc = "set"
        <3>1. task[v] \in [pc : {"set"}, stalled : BOOLEAN, rows : Table, behind : BOOLEAN]
            BY <2>1 DEF Shaped, Tasks, Idle
        <3>2. task'[v] = [task[v] EXCEPT !.behind = TRUE]
            BY <2>1 DEF Behind
        <3>3. /\ task'[v] \in [pc : {"set"}, stalled : BOOLEAN, rows : Table, behind : BOOLEAN]
              /\ task'[v].behind = TRUE /\ task'[v].pc = "set"
            BY <3>1, <3>2
        <3>4. QED
            BY <2>1, <3>3 DEF Tasks
    <2>2. CASE task[v].pc # "set"
        <3>1. task'[v] = task[v]
            BY <2>2 DEF Behind
        <3>2. QED
            BY <2>2, <3>1 DEF Shaped
    <2>3. QED
        BY <2>1, <2>2
<1>3. QED
    BY <1>1, <1>2 DEF Behind

LEMMA SetCacheKeeps ==
    ASSUME Ahead, NEW w \in Worker, SetCache(w) PROVE Ahead'
<1>1. /\ Shaped /\ Setting(w) /\ task[w].pc = "set" /\ Behind(w)
      /\ cache' = task[w].rows /\ astray' = task[w].behind
      /\ UNCHANGED users /\ UNCHANGED <<jobs, again>>
    BY DEF Ahead, SetCache, Behind
<1>2. task[w].rows \in Table /\ task[w].behind \in BOOLEAN
    BY <1>1 DEF Shaped, Tasks, Idle
<1>3. Shaped' /\ \A p \in Request : Untouched(p)'
    BY <1>1, <1>2, BehindTasks, BotOnly DEF Shaped
<1>4. \A v \in Worker : Setting(v)'
    BY <1>1, BehindTasks DEF Setting
<1>5. Announced => Announced'
    BY <1>1, BehindTasks DEF Announced, users
<1>6. ASSUME ~astray' PROVE \/ cache' = table'
                            \/ Announced'
                            \/ \E v \in Worker : task'[v].pc = "set"
    <2>1. \/ task[w].rows = table
          \/ Announced
          \/ \E v \in Worker \ {w} : task[v].pc = "set"
        BY <1>1, <1>6 DEF Setting
    <2>2. QED
        BY <1>1, <1>5, <2>1, BehindTasks DEF users
<1>7. QED
    BY <1>3, <1>4, <1>6 DEF Ahead, Cached

LEMMA JobFailsKeeps ==
    ASSUME Ahead, NEW w \in Worker, JobFails(w) PROVE Ahead'
<1>1. Shaped /\ Behind(w) /\ astray' = TRUE /\ UNCHANGED users /\ UNCHANGED <<jobs, again, cache>>
    BY DEF Ahead, JobFails, Behind
<1>2. Shaped' /\ \A p \in Request : Untouched(p)'
    BY <1>1, BehindTasks, BotOnly DEF Shaped
<1>3. Cached' /\ \A v \in Worker : Setting(v)'
    BY <1>1, BehindTasks DEF Setting, Cached
<1>4. QED
    BY <1>2, <1>3 DEF Ahead

(* Among the busy workers are those whose job had stalled before.              *)
LEMMA BusyFinite ==
    /\ IsFiniteSet(Busy) /\ Cardinality(Busy) \in Nat
    /\ IsFiniteSet(Busy \ Stalled) /\ Cardinality(Busy \ Stalled) \in Nat
    /\ Cardinality(Busy \ Stalled) <= Cardinality(Busy)
<1>1. IsFiniteSet(Busy)
    BY SettingsAssumption, FS_Subset DEF SettingsAssumption, Busy
<1>2. QED
    BY <1>1, FS_Subset, FS_CardinalityType

\* A job comes back, or the cache is known to be astray.
LEMMA CrashKeeps == ASSUME Ahead, Crash PROVE Ahead'
<1> DEFINE back == Cardinality(Busy \ Stalled)
<1>1. /\ Shaped /\ Busy # {} /\ jobs' = jobs + back /\ again' = again + back
      /\ astray' = (astray \/ Stalled # {})
      /\ task' = [w \in Worker |-> Idle]
      /\ UNCHANGED users /\ UNCHANGED cache
    BY DEF Ahead, Crash
<1>2. back \in Nat
    BY BusyFinite
<1>3. jobs' \in Nat /\ again' \in Nat /\ again' <= jobs' /\ task' \in [Worker -> Tasks]
    BY <1>1, <1>2 DEF Shaped, Tasks
<1>4. astray' \in BOOLEAN /\ cache' \in Table \cup {NoCache}
    BY <1>1 DEF Shaped
<1>5. Stalled # {} \/ Announced'
    <2>1. SUFFICES ASSUME Stalled = {} PROVE Announced'
        OBVIOUS
    <2>2. back # 0
        BY <1>1, <2>1, BusyFinite, FS_EmptySet
    <2>3. jobs' > 0
        BY <1>1, <1>2, <2>2 DEF Shaped
    <2>4. QED
        BY <2>3 DEF Announced
<1>6. Shaped' /\ \A p \in Request : Untouched(p)'
    BY <1>1, <1>3, <1>4, BotOnly
<1>7. Cached'
    BY <1>1, <1>5 DEF Cached
<1>8. \A w \in Worker : Setting(w)'
    BY <1>1 DEF Setting, Idle
<1>9. QED
    BY <1>6, <1>7, <1>8 DEF Ahead

LEMMA ExpireKeeps == ASSUME Ahead, Expire PROVE Ahead'
<1>1. Shaped /\ cache' = NoCache /\ astray' = FALSE /\ UNCHANGED users /\ UNCHANGED <<jobs, again, task>>
    BY DEF Ahead, Expire, users
<1>2. Shaped' /\ \A p \in Request : Untouched(p)'
    BY <1>1, BotOnly DEF Shaped
<1>3. Cached'
    BY <1>1 DEF Cached
<1>4. \A w \in Worker : Setting(w)'
    BY <1>1 DEF Ahead, Setting, Announced, users
<1>5. QED
    BY <1>2, <1>3, <1>4 DEF Ahead

LEMMA StutterKeeps == ASSUME Ahead, UNCHANGED vars PROVE Ahead'
<1>1. Shaped' /\ \A p \in Request : Untouched(p)'
    BY BotOnly DEF Ahead, Shaped, vars, users
<1>2. Cached' /\ \A w \in Worker : Setting(w)'
    BY DEF Ahead, Setting, Cached, Announced, vars
<1>3. QED
    BY <1>1, <1>2 DEF Ahead

LEMMA AheadNext == Ahead /\ [Next]_vars => Ahead'
<1>1. SUFFICES ASSUME Ahead, [Next]_vars PROVE Ahead'
    OBVIOUS
<1>2. ASSUME NEW p \in Request,
             \/ Start(p) \/ Find(p) \/ Select(p) \/ Write(p) \/ PatchFails(p)
             \/ AddJob(p) \/ AddFails(p)
             \/ StartModules(p) \/ FindModule(p) \/ SaveModule(p)
      PROVE  Ahead'
    BY <1>1, <1>2, StartKeeps, FindKeeps, SelectKeeps, WriteKeeps, PatchFailsKeeps,
       AddJobKeeps, AddFailsKeeps, StartModulesKeeps, FindModuleKeeps, SaveModuleKeeps
<1>3. ASSUME NEW w \in Worker, Take(w) \/ ReadRows(w) \/ SetCache(w) \/ JobFails(w)
      PROVE  Ahead'
    BY <1>1, <1>3, TakeKeeps, ReadRowsKeeps, SetCacheKeeps, JobFailsKeeps
<1>4. CASE Crash
    BY <1>1, <1>4, CrashKeeps
<1>5. CASE Expire
    BY <1>1, <1>5, ExpireKeeps
<1>6. CASE UNCHANGED vars
    BY <1>1, <1>6, StutterKeeps
<1>7. QED
    BY <1>1, <1>2, <1>3, <1>4, <1>5, <1>6 DEF Next, Users, Bot

\* The inductive invariant: whoever has read other rows than the table's, and does not
\* know, is followed by a PATCH, a job or a worker that will announce, read or set again.
THEOREM Announces == Spec => []Ahead
BY AheadInit, AheadNext, PTL DEF Spec

\* A cache that is there at rest holds the table's rows (CacheAgrees of GuildSettings).
THEOREM Agreement == Spec => []CacheAgrees
<1>1. Ahead => CacheAgrees
    <2>1. SUFFICES ASSUME Ahead, Quiet, cache # NoCache, ~astray PROVE cache = table
        BY DEF CacheAgrees
    <2>2. /\ jobs = 0
          /\ \A p \in Request : request[p].pc # "add"
          /\ \A w \in Worker : task[w].pc \notin {"read", "set"}
        BY <2>1 DEF Quiet, Idle
    <2>3. ~Announced
        BY <2>2 DEF Announced
    <2>4. QED
        BY <2>1, <2>2, <2>3 DEF Ahead, Cached
<1>2. QED
    BY <1>1, Announces, PTL

-------------------------------------------------------------------------------
(* What PATCHes keep.                                                        *)

(* A PATCH of modules: it is about one of those it was given, and the row it has  *)
(* found, if any, is that module's.                                          *)
ModulePatching == [pc : {"module", "enable"}, given : Some(Value), key : Slot, found : Nat]
ModulePatch(q, rows) ==
    /\ q \in ModulePatching /\ q.key \in DOMAIN q.given
    /\ q.found # 0 => q.found \in DOMAIN rows /\ rows[q.found].key = q.key

(* A job is added by a PATCH, and taken by a worker.                           *)
Pending == {p \in Request : request[p].pc \in {"find", "select", "write", "add"}}
Counted == IsFiniteSet(Pending) /\ jobs + Cardinality(Pending) + Cardinality(Busy) <= patches

(* A PATCH has found, and selected, what is in the table, slot by slot.          *)
UpToDate(p) ==
    \A s \in Slots(p) \ request[p].overtaken :
       /\ request[p].found[s] = table[s]
       /\ At(p, "write") => request[p].stored[s] = table[s]

RowsInv ==
    /\ \A p \in Request : request[p] = Idle \/ Patch(request[p])
    /\ ColumnsKept
    /\ \A p \in Request : At(p, "select") \/ At(p, "write") => UpToDate(p)

(* At a module whose PATCHes do not overlap there is one, and it knows the row.    *)
Enables(p, k) == At(p, "enable") /\ request[p].key = k
Alone(k) ==
    /\ \A p, q \in Request : Enables(p, k) /\ Enables(q, k) => p = q
    /\ \A p \in Request : Enables(p, k) /\ request[p].found = 0 => Rows(k) = {}
    /\ \A i, j \in Rows(k) : i = j
    /\ \A i \in Rows(k) : modules[i].enabled = wanted[k]["rest"]

ModulesInv ==
    /\ \A p \in Request : request[p] = Idle \/ ModulePatch(request[p], modules)
    /\ \A k \in Slot \ merged : Alone(k)

PatchInv ==
    /\ kind \in {"logs", "messages", "modules"}
    /\ modules \in Seq([key : Slot, enabled : Value])
    /\ patches \in 0..MaxPatches /\ faults \in 0..MaxFaults
    /\ wanted \in [Slot -> Row] /\ merged \subseteq Slot
    /\ Counted
    /\ IF kind = "modules" THEN ModulesInv ELSE RowsInv

-------------------------------------------------------------------------------
(* The number of jobs.                                                       *)

LEMMA CountedFacts ==
    ASSUME Counted, jobs \in Nat, patches \in Nat
    PROVE  /\ IsFiniteSet(Pending) /\ Cardinality(Pending) \in Nat
           /\ IsFiniteSet(Busy) /\ Cardinality(Busy) \in Nat
           /\ jobs + Cardinality(Pending) + Cardinality(Busy) <= patches
<1>1. IsFiniteSet(Worker)
    BY SettingsAssumption
<1>2. IsFiniteSet(Pending) /\ IsFiniteSet(Busy)
    BY <1>1, FS_Subset DEF Counted, Busy
<1> QED
    BY <1>2, FS_CardinalityType DEF Counted

LEMMA Smaller ==
    ASSUME NEW S, IsFiniteSet(S), NEW T, T \subseteq S
    PROVE  IsFiniteSet(T) /\ Cardinality(T) \in Nat /\ Cardinality(T) <= Cardinality(S)
BY FS_Subset, FS_CardinalityType

LEMMA OneMore ==
    ASSUME NEW S, IsFiniteSet(S), NEW x
    PROVE  /\ IsFiniteSet(S \cup {x}) /\ Cardinality(S \cup {x}) \in Nat
           /\ Cardinality(S \cup {x}) <= Cardinality(S) + 1
<1>1. Cardinality(S) \in Nat
    BY FS_CardinalityType
<1>2. Cardinality(S \cup {x}) = Cardinality(S) \/ Cardinality(S \cup {x}) = Cardinality(S) + 1
    BY FS_AddElement
<1>3. IsFiniteSet(S \cup {x})
    BY FS_AddElement
<1> QED
    BY <1>1, <1>2, <1>3

\* Nobody comes to add a job, and nobody takes one: there are not more than before.
LEMMA CountKept ==
    ASSUME Counted, jobs \in Nat, patches \in Nat, Pending' \subseteq Pending, Busy' \subseteq Busy,
           jobs' = jobs, patches' \in Nat, patches <= patches'
    PROVE  Counted'
<1>1. /\ IsFiniteSet(Pending') /\ Cardinality(Pending') \in Nat /\ Cardinality(Pending') <= Cardinality(Pending)
      /\ Cardinality(Busy') \in Nat /\ Cardinality(Busy') <= Cardinality(Busy)
    BY CountedFacts, Smaller
<1>2. jobs' + Cardinality(Pending') + Cardinality(Busy') <= patches'
    BY <1>1, CountedFacts
<1> QED
    BY <1>1, <1>2 DEF Counted

\* A PATCH begins, ...
LEMMA CountBegun ==
    ASSUME Counted, jobs \in Nat, patches \in Nat, NEW p, Pending' \subseteq Pending \cup {p},
           Busy' \subseteq Busy, jobs' = jobs, patches' = patches + 1
    PROVE  Counted'
<1>1. /\ IsFiniteSet(Pending \cup {p}) /\ Cardinality(Pending \cup {p}) \in Nat
      /\ Cardinality(Pending \cup {p}) <= Cardinality(Pending) + 1
    BY CountedFacts, OneMore
<1>2. /\ IsFiniteSet(Pending') /\ Cardinality(Pending') \in Nat
      /\ Cardinality(Pending') <= Cardinality(Pending \cup {p})
      /\ Cardinality(Busy') \in Nat /\ Cardinality(Busy') <= Cardinality(Busy)
    BY <1>1, CountedFacts, Smaller
<1>3. jobs' + Cardinality(Pending') + Cardinality(Busy') <= patches'
    BY <1>1, <1>2, CountedFacts
<1> QED
    BY <1>2, <1>3 DEF Counted

\* ... adds its job, ...
LEMMA CountAdded ==
    ASSUME Counted, jobs \in Nat, patches \in Nat, NEW p \in Pending, Pending' \subseteq Pending \ {p},
           Busy' = Busy, jobs' = jobs + 1, patches' = patches
    PROVE  Counted'
<1>1. IsFiniteSet(Pending \ {p}) /\ Cardinality(Pending \ {p}) = Cardinality(Pending) - 1
    BY CountedFacts, FS_RemoveElement
<1>2. /\ IsFiniteSet(Pending') /\ Cardinality(Pending') \in Nat
      /\ Cardinality(Pending') <= Cardinality(Pending \ {p})
    BY <1>1, Smaller
<1>3. jobs' + Cardinality(Pending') + Cardinality(Busy') <= patches'
    BY <1>1, <1>2, CountedFacts
<1> QED
    BY <1>2, <1>3 DEF Counted

\* ... which a worker takes.
LEMMA CountTaken ==
    ASSUME Counted, jobs \in Nat, patches \in Nat, NEW w, Pending' = Pending,
           Busy' \subseteq Busy \cup {w}, jobs' = jobs - 1, patches' = patches
    PROVE  Counted'
<1>1. /\ IsFiniteSet(Busy \cup {w}) /\ Cardinality(Busy \cup {w}) \in Nat
      /\ Cardinality(Busy \cup {w}) <= Cardinality(Busy) + 1
    BY CountedFacts, OneMore
<1>2. Cardinality(Busy') \in Nat /\ Cardinality(Busy') <= Cardinality(Busy \cup {w})
    BY <1>1, Smaller
<1>3. jobs' + Cardinality(Pending') + Cardinality(Busy') <= patches'
    BY <1>1, <1>2, CountedFacts
<1> QED
    BY <1>3, CountedFacts DEF Counted

\* The workers give back those of their jobs that had not stalled before.
LEMMA CountGiven ==
    ASSUME Counted, jobs \in Nat, patches \in Nat, Pending' = Pending, Busy' = {},
           jobs' = jobs + Cardinality(Busy \ Stalled), patches' = patches
    PROVE  Counted'
<1>1. Cardinality(Busy') = 0
    BY FS_EmptySet
<1>2. jobs' + Cardinality(Pending') + Cardinality(Busy') <= patches'
    BY <1>1, CountedFacts, BusyFinite
<1> QED
    BY <1>2, CountedFacts DEF Counted

\* What a request that moves does to the number of those that are to add a job.
LEMMA PendingMoved ==
    ASSUME Shaped, NEW p \in Request, NEW q, Patch(q) \/ Apart(q), request' = [request EXCEPT ![p] = q]
    PROVE  /\ Pending' \subseteq Pending \cup {p}
           /\ p \in Pending => Pending' \subseteq Pending
           /\ Apart(q) => Pending' \subseteq Pending \ {p}
<1>1. request'[p] = q /\ \A r \in Request \ {p} : request'[r] = request[r]
    BY OneRequest
<1>2. Apart(q) => q.pc \notin {"find", "select", "write", "add"}
    BY PatchKinds
<1> QED
    BY <1>1, <1>2 DEF Pending

\* A step of the workers that takes no job.
LEMMA BusyKept ==
    ASSUME Shaped, Shaped', \A w \in Worker : task'[w].pc # "idle" => task[w].pc # "idle"
    PROVE  Busy' \subseteq Busy
<1>1. \A w \in Worker : task[w] = Idle <=> task[w].pc = "idle"
    BY DEF Shaped, Tasks, Idle
<1>2. \A w \in Worker : task'[w] = Idle <=> task'[w].pc = "idle"
    BY DEF Shaped, Tasks, Idle
<1> QED
    BY <1>1, <1>2 DEF Busy

\* Only requests.
LEMMA BusySame == UNCHANGED task => Busy' = Busy
BY DEF Busy

LEMMA PendingSame == UNCHANGED request => Pending' = Pending
BY DEF Pending

LEMMA CountUsers ==
    ASSUME Ahead, Ahead', Counted, patches \in Nat, NEW p \in Request,
           \/ Start(p) \/ Find(p) \/ Select(p) \/ Write(p) \/ PatchFails(p)
           \/ AddJob(p) \/ AddFails(p)
           \/ StartModules(p) \/ FindModule(p) \/ SaveModule(p)
    PROVE  Counted'
<1>0. Shaped /\ Shaped' /\ jobs \in Nat
    BY DEF Ahead, Shaped
<1>1. CASE Start(p)
    <2>1. \A r \in Request \ {p} : request'[r] = request[r]
        BY <1>0, <1>1 DEF Start, Shaped
    <2>2. Pending' \subseteq Pending \cup {p}
        BY <2>1 DEF Pending
    <2> QED
        BY <1>0, <1>1, <2>2, BusySame, CountBegun DEF Start, bot
<1>2. CASE Find(p) \/ Select(p) \/ PatchFails(p) \/ StartModules(p) \/ FindModule(p) \/ SaveModule(p)
    <2>1. Pending' \subseteq Pending
        <3>1. \A r \in Request \ {p} : request'[r] = request[r]
            BY <1>0, <1>2 DEF Find, Select, PatchFails, StartModules, FindModule, SaveModule, Shaped
        <3>2. p \in Pending' => p \in Pending
            <4>1. CASE Find(p) \/ Select(p)
                BY <4>1 DEF Find, Select, At, Pending
            <4>2. CASE PatchFails(p)
                <5>1. request'[p] = Idle
                    BY <1>0, <4>2 DEF PatchFails, Shaped
                <5> QED
                    BY <5>1, PatchKinds DEF Pending
            <4>3. CASE StartModules(p)
                <5>1. PICK g, k : request' = [request EXCEPT ![p] =
                                    [pc |-> "module", given |-> g, key |-> k, found |-> 0]]
                    BY <4>3 DEF StartModules
                <5>2. request'[p].pc = "module"
                    BY <1>0, <5>1 DEF Shaped
                <5> QED
                    BY <5>2 DEF Pending
            <4>4. CASE FindModule(p)
                <5>1. PICK i : request' = [request EXCEPT ![p].pc = "enable", ![p].found = i]
                    BY <4>4 DEF FindModule
                <5>2. Apart(request[p])
                    BY <1>0, <4>4 DEF FindModule, At, Shaped, Patch, Patching
                <5>3. request'[p].pc = "enable"
                    BY <1>0, <5>1, <5>2 DEF Shaped, Apart
                <5> QED
                    BY <5>3 DEF Pending
            <4>5. CASE SaveModule(p)
                <5>1. CASE request' = [request EXCEPT ![p] = Idle]
                    BY <1>0, <5>1, PatchKinds DEF Pending, Shaped
                <5>2. ASSUME NEW g, NEW k,
                             request' = [request EXCEPT ![p] =
                                           [pc |-> "module", given |-> g, key |-> k, found |-> 0]]
                      PROVE  p \notin Pending'
                    BY <1>0, <5>2 DEF Shaped, Pending
                <5> QED
                    BY <4>5, <5>1, <5>2 DEF SaveModule
            <4> QED
                BY <1>2, <4>1, <4>2, <4>3, <4>4, <4>5
        <3> QED
            BY <3>1, <3>2 DEF Pending
    <2>2. UNCHANGED <<jobs, task>> /\ (patches' = patches \/ patches' = patches + 1)
        BY <1>2 DEF Find, Select, PatchFails, StartModules, FindModule, SaveModule, bot
    <2> QED
        BY <1>0, <2>1, <2>2, BusySame, CountKept
<1>3. CASE Write(p)
    <2>1. request[p].pc = "write"
        BY <1>3 DEF Write, At
    <2>2. Pending' \subseteq Pending
        BY <1>3, <2>1, WriteRequests DEF Pending
    <2>3. \A w \in Worker : task'[w].pc = task[w].pc
        BY <1>0, <1>3, UnannouncedTasks DEF Write
    <2>4. Busy' \subseteq Busy
        BY <1>0, <2>3, BusyKept
    <2> QED
        BY <1>0, <1>3, <2>2, <2>4, CountKept DEF Write
<1>4. CASE AddJob(p)
    <2>1. p \in Pending /\ request' = [request EXCEPT ![p] = Idle]
        BY <1>4 DEF AddJob, At, Pending
    <2>2. Pending' \subseteq Pending \ {p}
        BY <1>0, <2>1, PendingMoved, PatchKinds
    <2> QED
        BY <1>0, <1>4, <2>1, <2>2, BusySame, CountAdded DEF AddJob
<1>5. CASE AddFails(p)
    <2>1. Pending' \subseteq Pending
        BY <1>0, <1>5, PendingMoved, PatchKinds DEF AddFails
    <2>2. Busy' \subseteq Busy
        BY <1>0, <1>5, UnannouncedTasks, BusyKept DEF AddFails
    <2> QED
        BY <1>0, <1>5, <2>1, <2>2, CountKept DEF AddFails
<1> QED
    BY <1>1, <1>2, <1>3, <1>4, <1>5

LEMMA CountBot ==
    ASSUME Ahead, Ahead', Counted, patches \in Nat, Bot
    PROVE  Counted'
<1>0. Shaped /\ Shaped' /\ jobs \in Nat
    BY DEF Ahead, Shaped
<1>1. Pending' = Pending /\ patches' = patches
    BY PendingSame DEF Bot, Crash, Expire, Take, ReadRows, SetCache, JobFails, users
<1>2. CASE Crash
    <2>1. Busy' = {}
        BY <1>2 DEF Crash, Busy
    <2>2. jobs' = jobs + Cardinality(Busy \ Stalled)
        BY <1>2 DEF Crash
    <2> QED
        BY <1>0, <1>1, <2>1, <2>2, CountGiven
<1>3. ASSUME NEW w \in Worker, Take(w) PROVE Counted'
    <2>1. \A v \in Worker \ {w} : task'[v] = task[v]
        BY <1>0, <1>3 DEF Take, Shaped
    <2>2. Busy' \subseteq Busy \cup {w}
        BY <2>1 DEF Busy
    <2> QED
        BY <1>0, <1>1, <1>3, <2>2, CountTaken DEF Take
<1>4. ASSUME NEW w \in Worker, ReadRows(w) PROVE Counted'
    <2>1. \A v \in Worker : task'[v].pc # "idle" => task[v].pc # "idle"
        BY <1>0, <1>4 DEF ReadRows, Shaped
    <2> QED
        BY <1>0, <1>1, <1>4, <2>1, BusyKept, CountKept DEF ReadRows
<1>5. ASSUME NEW w \in Worker, SetCache(w) \/ JobFails(w) PROVE Counted'
    <2>1. Behind(w) /\ UNCHANGED jobs
        BY <1>5 DEF SetCache, JobFails, Behind
    <2>2. Busy' \subseteq Busy
        BY <1>0, <2>1, BehindTasks, BusyKept
    <2> QED
        BY <1>0, <1>1, <2>1, <2>2, CountKept
<1>6. CASE Expire
    BY <1>0, <1>1, <1>6, BusySame, CountKept DEF Expire
<1> QED
    BY <1>2, <1>3, <1>4, <1>5, <1>6 DEF Bot

-------------------------------------------------------------------------------
(* PATCHes of rows.                                                          *)

\* One request moves, and the rows stay.
LEMMA RowsMove ==
    ASSUME Shaped, RowsInv, NEW p \in Request, NEW q, q = Idle \/ Patch(q),
           request' = [request EXCEPT ![p] = q], UNCHANGED <<table, wanted, merged>>,
           q.pc \in {"select", "write"} => UpToDate(p)'
    PROVE  RowsInv'
<1>1. request'[p] = q /\ \A r \in Request \ {p} : request'[r] = request[r]
    BY DEF Shaped
<1>2. ColumnsKept'
    BY DEF RowsInv, ColumnsKept
<1>3. ASSUME NEW r \in Request \ {p}, (At(r, "select") \/ At(r, "write"))' PROVE UpToDate(r)'
    BY <1>1, <1>3 DEF RowsInv, UpToDate, At, Slots
<1>4. (At(p, "select") \/ At(p, "write"))' => UpToDate(p)'
    BY <1>1 DEF At
<1>5. \A r \in Request : request'[r] = Idle \/ Patch(request'[r])
    BY <1>1 DEF RowsInv
<1> QED
    BY <1>2, <1>3, <1>4, <1>5 DEF RowsInv

LEMMA RowsStart ==
    ASSUME Ahead, RowsInv, NEW p \in Request, Start(p) PROVE RowsInv'
<1>1. PICK S \in SUBSET Slot : \E g \in [S -> Asked] :
         request' = [request EXCEPT ![p] =
            [pc |-> "find", given |-> g, found |-> <<>>, stored |-> <<>>, overtaken |-> {}]]
    BY DEF Start
<1>2. PICK g \in [S -> Asked] : request' = [request EXCEPT ![p] =
            [pc |-> "find", given |-> g, found |-> <<>>, stored |-> <<>>, overtaken |-> {}]]
    BY <1>1
<1> DEFINE q == [pc |-> "find", given |-> g, found |-> <<>>, stored |-> <<>>, overtaken |-> {}]
<1>3. g \in Some(Given)
    BY SettingsAssumption, SomeDef
<1>4. Patch(q) /\ q.pc = "find"
    BY <1>3, EmptyIsSome DEF Patch, Patching
<1>5. Shaped /\ UNCHANGED <<table, wanted, merged>> /\ request' = [request EXCEPT ![p] = q]
    BY <1>2 DEF Ahead, Start
<1> HIDE DEF q
<1> QED
    BY <1>4, <1>5, RowsMove

LEMMA RowsFind ==
    ASSUME Ahead, RowsInv, NEW p \in Request, Find(p) PROVE RowsInv'
<1> DEFINE rows == [s \in Slots(p) |-> table[s]]
           q == [request[p] EXCEPT !.pc = "select", !.found = rows]
<1>1. /\ request[p].pc = "find" /\ Shaped
      /\ request' = [request EXCEPT ![p] = q] /\ UNCHANGED <<table, wanted, merged>>
    BY DEF Ahead, Find, At
<1>2. request[p] \in Patching /\ rows \in Some(RowOrNone)
    BY <1>1, AtPatch, SlotsOf
<1>3. q \in Patching /\ q.pc = "select" /\ q.found = rows /\ q.given = request[p].given
    BY <1>2 DEF Patching
<1>4. Patch(q)
    BY <1>3 DEF Patch, Slots
<1>5. request'[p] = q
    BY <1>1 DEF Shaped
<1>6. \A s \in DOMAIN q.given : q.found[s] = table'[s]
    BY <1>1, <1>3 DEF Slots
<1> HIDE DEF q, rows
<1>7. UpToDate(p)'
    BY <1>3, <1>5, <1>6 DEF UpToDate, At, Slots
<1> QED
    BY <1>1, <1>4, <1>7, RowsMove

LEMMA RowsSelect ==
    ASSUME Ahead, RowsInv, NEW p \in Request, Select(p) PROVE RowsInv'
<1> DEFINE rows == [s \in Slots(p) |-> table[s]]
           q == [request[p] EXCEPT !.pc = "write", !.stored = rows]
<1>1. /\ request[p].pc = "select" /\ Shaped /\ UpToDate(p)
      /\ request' = [request EXCEPT ![p] = q] /\ UNCHANGED <<table, wanted, merged>>
    BY DEF Ahead, RowsInv, Select, At
<1>2. Patch(request[p]) /\ request[p] \in Patching /\ rows \in Some(RowOrNone)
    BY <1>1, AtPatch, SlotsOf
<1>3. /\ q \in Patching /\ q.pc = "write" /\ q.stored = rows /\ q.given = request[p].given
      /\ q.found = request[p].found /\ q.overtaken = request[p].overtaken
    BY <1>2 DEF Patching
<1>4. Patch(q)
    BY <1>1, <1>2, <1>3 DEF Patch, Slots
<1>5. request'[p] = q
    BY <1>1 DEF Shaped
<1>6. \A s \in DOMAIN q.given : q.stored[s] = table'[s]
    BY <1>1, <1>3 DEF Slots
<1> HIDE DEF q, rows
<1>7. UpToDate(p)'
    BY <1>1, <1>3, <1>5, <1>6 DEF UpToDate, At, Slots
<1> QED
    BY <1>1, <1>4, <1>7, RowsMove

\* Who was overtaken knows of which rows.
LEMMA WriteMoves ==
    ASSUME Shaped, NEW p \in Request, Write(p)
    PROVE  /\ request'[p] = Idle \/ request'[p].pc = "add"
           /\ \A r \in Request \ {p} :
                 IF request[r].pc \in {"select", "write"}
                 THEN /\ request'[r].pc = request[r].pc /\ request'[r].given = request[r].given
                      /\ request'[r].found = request[r].found /\ request'[r].stored = request[r].stored
                      /\ request'[r].overtaken = request[r].overtaken \cup (Slots(p) \cap Slots(r))
                 ELSE request'[r] = request[r]
<1> DEFINE over(r) == [request[r] EXCEPT !.overtaken = request[r].overtaken \cup (Slots(p) \cap Slots(r))]
<1>1. request' = [r \in Request |->
          IF r = p THEN (IF Changed(p) THEN [request[p] EXCEPT !.pc = "add"] ELSE Idle)
          ELSE IF request[r].pc \in {"select", "write"} THEN over(r) ELSE request[r]]
    BY DEF Write
<1>2. request[p] \in Patching
    BY AtPatch DEF Write, At
<1>3. request'[p] = Idle \/ request'[p].pc = "add"
    BY <1>1, <1>2 DEF Patching
<1>4. ASSUME NEW r \in Request \ {p}, request[r].pc \in {"select", "write"}
      PROVE  /\ request'[r].pc = request[r].pc /\ request'[r].given = request[r].given
             /\ request'[r].found = request[r].found /\ request'[r].stored = request[r].stored
             /\ request'[r].overtaken = request[r].overtaken \cup (Slots(p) \cap Slots(r))
    <2>1. request'[r] = over(r)
        BY <1>1, <1>4
    <2>2. request[r] \in Patching
        BY <1>4, AtPatch
    <2> QED
        BY <2>1, <2>2 DEF Patching
<1>5. \A r \in Request \ {p} : request[r].pc \notin {"select", "write"} => request'[r] = request[r]
    BY <1>1
<1> QED
    BY <1>3, <1>4, <1>5

\* A row that nobody overtook becomes what it was, with what was given.
LEMMA WrittenFresh ==
    ASSUME Ahead, RowsInv, NEW p \in Request, Write(p), NEW s \in Slots(p) \ request[p].overtaken
    PROVE  table'[s] = Patched(table[s], request[p].given[s]) /\ table'[s] \in Row
<1>1. Shaped /\ request[p].pc = "write" /\ UpToDate(p)
    BY DEF Ahead, RowsInv, Write, At
<1>2. Slots(p) \subseteq Slot /\ request[p].given \in [Slots(p) -> Given]
    BY <1>1, SlotsOf
<1>3. request[p].found[s] = table[s] /\ request[p].stored[s] = table[s]
    BY <1>1 DEF UpToDate, At
<1>4. table[s] \in RowOrNone
    BY <1>1, <1>2 DEF Shaped, Table, RowOrNone
<1> DEFINE e == Patched(table[s], request[p].given[s])
<1>5. Entity(p, s) = e /\ e \in Row
    BY <1>2, <1>3, <1>4, PatchedIsRow DEF Entity
<1>6. table'[s] = Written(p, s)
    BY <1>2 DEF Write
<1> HIDE DEF e
<1>7. Written(p, s) = e
    <2>1. CASE table[s] = NoRow
        BY <1>3, <1>5, <2>1 DEF Written
    <2>2. CASE table[s] # NoRow
        <3>1. Written(p, s) = [c \in Column |-> e[c]]
            BY <1>3, <1>5, <2>2 DEF Written
        <3> QED
            BY <1>5, <3>1 DEF Row
    <2> QED
        BY <2>1, <2>2
<1> QED
    BY <1>5, <1>6, <1>7 DEF e

WantedTyped == wanted \in [Slot -> Row] /\ merged \subseteq Slot

LEMMA RowsWrite ==
    ASSUME Ahead, Ahead', RowsInv, WantedTyped, NEW p \in Request, Write(p)
    PROVE  RowsInv' /\ WantedTyped'
<1>1. Shaped /\ request[p].pc = "write" /\ Patch(request[p]) /\ request[p] \in Patching
    BY AtPatch DEF Ahead, Write, At
<1>2. /\ Slots(p) \subseteq Slot /\ request[p].given \in [Slots(p) -> Given]
      /\ request[p].overtaken \subseteq Slot
    BY <1>1, SlotsOf DEF Patching
<1>3. merged' = (merged \ Slots(p)) \cup request[p].overtaken
    BY DEF Write
<1>4. wanted' = [s \in Slot |->
          IF s \notin Slots(p) THEN wanted[s]
          ELSE IF s \in merged THEN table'[s]
          ELSE [c \in Column |-> IF request[p].given[s][c] = Kept THEN wanted[s][c]
                                 ELSE request[p].given[s][c]]]
    BY DEF Write
<1>5. ASSUME NEW s \in Slots(p)
      PROVE  table'[s] \in Row
             /\ [c \in Column |-> IF request[p].given[s][c] = Kept THEN wanted[s][c]
                                 ELSE request[p].given[s][c]] \in Row
    <2>1. table'[s] \in RowOrNone /\ s \in Slot
        BY <1>2, WriteTable DEF Table, RowOrNone
    <2>2. request[p].given[s] \in Given /\ wanted[s] \in Row
        BY <1>2, <2>1 DEF WantedTyped
    <2>3. [c \in Column |-> IF request[p].given[s][c] = Kept THEN wanted[s][c]
                                 ELSE request[p].given[s][c]] \in Row
        BY <2>2 DEF Given, Row
    <2>4. table'[s] \in Row
        BY <2>1, <1>5, WriteRow
    <2> QED
        BY <2>3, <2>4
<1>6. wanted' \in [Slot -> Row]
    BY <1>4, <1>5 DEF WantedTyped
<1>7. merged' \subseteq Slot
    BY <1>2, <1>3 DEF WantedTyped
<1>8. ColumnsKept'
    <2> SUFFICES ASSUME NEW s \in Slot \ merged', NEW c \in Column
                 PROVE  wanted'[s][c] = IF table'[s] = NoRow THEN 0 ELSE table'[s][c]
        BY DEF ColumnsKept
    <2>1. CASE s \notin Slots(p)
        BY <1>3, <1>4, <2>1, WriteTable DEF RowsInv, ColumnsKept
    <2>2. CASE s \in Slots(p) /\ s \in merged
        BY <1>4, <1>5, <2>2, RowIsNotNone
    <2>3. CASE s \in Slots(p) /\ s \notin merged
        <3>1. table'[s] = Patched(table[s], request[p].given[s]) /\ table'[s] # NoRow
            BY <1>3, <2>3, WrittenFresh, RowIsNotNone
        <3>2. wanted[s][c] = IF table[s] = NoRow THEN 0 ELSE table[s][c]
            BY <2>3 DEF RowsInv, ColumnsKept
        <3>3. wanted'[s][c] = IF request[p].given[s][c] = Kept THEN wanted[s][c] ELSE request[p].given[s][c]
            BY <1>4, <2>3
        <3>4. table'[s][c] = IF request[p].given[s][c] # Kept THEN request[p].given[s][c]
                             ELSE IF table[s] = NoRow THEN 0 ELSE table[s][c]
            BY <3>1 DEF Patched
        <3> QED
            BY <3>1, <3>2, <3>3, <3>4
    <2> QED
        BY <2>1, <2>2, <2>3
<1>9. ASSUME NEW r \in Request, (At(r, "select") \/ At(r, "write"))' PROVE UpToDate(r)'
    <2>1. r # p
        BY <1>9, WriteMoves, <1>1, PatchKinds DEF At
    <2>2. /\ request[r].pc \in {"select", "write"} /\ request'[r].pc = request[r].pc
          /\ request'[r].given = request[r].given
          /\ request'[r].found = request[r].found /\ request'[r].stored = request[r].stored
          /\ request'[r].overtaken = request[r].overtaken \cup (Slots(p) \cap Slots(r))
        BY <1>1, <1>9, <2>1, WriteMoves DEF At
    <2>3. UpToDate(r) /\ Slots(r) \subseteq Slot
        BY <1>1, <2>2, SlotsOf DEF RowsInv, At
    <2>4. ASSUME NEW s \in Slots(r), s \notin request'[r].overtaken
          PROVE  table'[s] = table[s] /\ s \in Slots(r) \ request[r].overtaken
        BY <2>2, <2>3, <2>4, WriteTable
    <2> QED
        BY <2>2, <2>3, <2>4 DEF UpToDate, At, Slots
<1>10. ASSUME NEW r \in Request PROVE request'[r] = Idle \/ Patch(request'[r])
    <2>1. Patch(request'[r]) \/ Apart(request'[r])
        BY WriteRequests
    <2>2. Apart(request'[r]) => request'[r] = Idle
        BY <1>1, <1>10, WriteMoves, PatchKinds DEF RowsInv, Patch
    <2> QED
        BY <2>1, <2>2
<1> QED
    BY <1>6, <1>7, <1>8, <1>9, <1>10 DEF RowsInv, WantedTyped

LEMMA RowsUsers ==
    ASSUME Ahead, Ahead', RowsInv, WantedTyped, kind # "modules", NEW p \in Request,
           \/ Start(p) \/ Find(p) \/ Select(p) \/ Write(p) \/ PatchFails(p)
           \/ AddJob(p) \/ AddFails(p)
           \/ StartModules(p) \/ FindModule(p) \/ SaveModule(p)
    PROVE  RowsInv' /\ WantedTyped'
<1>1. ~StartModules(p) /\ ~FindModule(p) /\ ~SaveModule(p)
    BY PatchKinds DEF StartModules, FindModule, SaveModule, At, RowsInv, Patch
<1>2. CASE PatchFails(p) \/ AddJob(p) \/ AddFails(p)
    <2>1. request' = [request EXCEPT ![p] = Idle] /\ UNCHANGED <<table, wanted, merged>> /\ Shaped
        BY <1>2 DEF PatchFails, AddJob, AddFails, Ahead
    <2>2. RowsInv'
        BY <2>1, RowsMove, PatchKinds
    <2> QED
        BY <2>1, <2>2 DEF WantedTyped
<1>3. CASE Start(p) \/ Find(p) \/ Select(p)
    <2>1. RowsInv'
        BY <1>3, RowsStart, RowsFind, RowsSelect
    <2> QED
        BY <1>3, <2>1 DEF Start, Find, Select, WantedTyped
<1> QED
    BY <1>1, <1>2, <1>3, RowsWrite

-------------------------------------------------------------------------------
(* PATCHes of modules.                                                       *)

ModulesTyped == modules \in Seq([key : Slot, enabled : Value])

LEMMA ModuleAt ==
    ASSUME ModulesInv, NEW p \in Request, request[p].pc \in {"module", "enable"}
    PROVE  ModulePatch(request[p], modules)
BY PatchKinds DEF ModulesInv

\* A request moves, but not to a row, and the rows stay.
LEMMA ModulesMove ==
    ASSUME Shaped, ModulesInv, NEW p \in Request, NEW q, q = Idle \/ ModulePatch(q, modules), q.pc # "enable",
           request' = [request EXCEPT ![p] = q], UNCHANGED <<modules, wanted, merged>>
    PROVE  ModulesInv'
<1>1. request'[p] = q /\ \A r \in Request \ {p} : request'[r] = request[r]
    BY DEF Shaped
<1>2. \A r \in Request, k \in Slot :
         Enables(r, k)' => Enables(r, k) /\ request'[r] = request[r]
    BY <1>1 DEF Enables, At
<1>3. \A k \in Slot : Rows(k)' = Rows(k)
    BY DEF Rows
<1>4. ASSUME NEW k \in Slot \ merged' PROVE Alone(k)'
    BY <1>2, <1>3 DEF ModulesInv, Alone
<1>5. \A r \in Request : request'[r] = Idle \/ ModulePatch(request'[r], modules')
    BY <1>1 DEF ModulesInv, ModulePatch
<1> QED
    BY <1>4, <1>5 DEF ModulesInv

LEMMA ModulesStart ==
    ASSUME Shaped, ModulesInv, NEW p \in Request, StartModules(p) PROVE ModulesInv'
<1>1. PICK S \in SUBSET Slot : \E g \in [S -> Value], k \in S :
          request' = [request EXCEPT ![p] = [pc |-> "module", given |-> g, key |-> k, found |-> 0]]
    BY DEF StartModules
<1>2. PICK g \in [S -> Value] : \E k \in S :
          request' = [request EXCEPT ![p] = [pc |-> "module", given |-> g, key |-> k, found |-> 0]]
    BY <1>1
<1>3. PICK k \in S :
          request' = [request EXCEPT ![p] = [pc |-> "module", given |-> g, key |-> k, found |-> 0]]
    BY <1>2
<1> DEFINE q == [pc |-> "module", given |-> g, key |-> k, found |-> 0]
<1>4. g \in Some(Value) /\ DOMAIN g = S /\ k \in Slot
    BY SomeDef
<1>5. ModulePatch(q, modules) /\ q.pc = "module"
    BY <1>4 DEF ModulePatch, ModulePatching
<1>6. request' = [request EXCEPT ![p] = q] /\ UNCHANGED <<modules, wanted, merged>>
    BY <1>3 DEF StartModules
<1> HIDE DEF q
<1> QED
    BY <1>5, <1>6, ModulesMove

\* What the code finds of a module is its row.
LEMMA ModulesFind ==
    ASSUME Shaped, ModulesInv, ModulesTyped, NEW p \in Request, FindModule(p) PROVE ModulesInv'
<1> DEFINE k == request[p].key
<1>1. ModulePatch(request[p], modules) /\ request[p] \in ModulePatching /\ k \in Slot
    BY ModuleAt DEF FindModule, At, ModulePatch, ModulePatching
<1>2. PICK i \in IF Rows(k) = {} THEN {0} ELSE Rows(k) :
             request' = [request EXCEPT ![p].pc = "enable", ![p].found = i]
    BY DEF FindModule
<1> DEFINE q == [request[p] EXCEPT !.pc = "enable", !.found = i]
<1>3. /\ i \in Nat /\ (i # 0 => i \in DOMAIN modules /\ modules[i].key = k)
      /\ i = 0 => Rows(k) = {}
    BY <1>2 DEF Rows, ModulesTyped
<1>4. /\ q \in ModulePatching /\ q.pc = "enable" /\ q.found = i /\ q.key = k /\ q.given = request[p].given
    BY <1>1, <1>3 DEF ModulePatching
<1>5. ModulePatch(q, modules)
    BY <1>1, <1>3, <1>4 DEF ModulePatch
<1>6. request' = [request EXCEPT ![p] = q] /\ UNCHANGED <<modules, wanted>>
    BY <1>2 DEF FindModule
<1> HIDE DEF q
<1>7. request'[p] = q /\ \A r \in Request \ {p} : request'[r] = request[r]
    BY <1>6 DEF Shaped
<1>8. \A r \in Request : request'[r] = Idle \/ ModulePatch(request'[r], modules')
    BY <1>5, <1>6, <1>7 DEF ModulesInv, ModulePatch
<1>9. \A n \in Slot : Rows(n)' = Rows(n)
    BY <1>6 DEF Rows
<1>10. /\ merged \subseteq merged'
       /\ k \notin merged' => \A r \in Request : ~Enables(r, k)
    BY DEF FindModule, Enables
<1>11. \A r \in Request \ {p}, n \in Slot : Enables(r, n)' => Enables(r, n)
    BY <1>7 DEF Enables, At
<1>12. \A n \in Slot : Enables(p, n)' => n = k
    BY <1>4, <1>7 DEF Enables
<1>13. ASSUME NEW n \in Slot \ merged' PROVE Alone(n)'
    <2>1. Alone(n)
        BY <1>10 DEF ModulesInv
    <2>2. CASE n = k
        <3>1. \A r \in Request : Enables(r, n)' => r = p
            BY <1>10, <1>11, <2>2
        <3>2. request'[p].found = 0 => Rows(n)' = {}
            BY <1>3, <1>4, <1>7, <1>9, <2>2
        <3> QED
            BY <1>6, <1>9, <2>1, <3>1, <3>2 DEF Alone
    <2>3. CASE n # k
        <3>1. \A r \in Request : Enables(r, n)' => Enables(r, n) /\ request'[r] = request[r]
            BY <1>7, <1>11, <1>12, <2>3
        <3> QED
            BY <1>6, <1>9, <2>1, <3>1 DEF Alone
    <2> QED
        BY <2>2, <2>3
<1> QED
    BY <1>8, <1>13 DEF ModulesInv

\* What a save leaves of the rows: those of other modules, and of its own one that is
\* right, if it was alone.
LEMMA SaveRows ==
    ASSUME ModulesInv, ModulesTyped, NEW p \in Request, SaveModule(p), NEW k, k = request[p].key
    PROVE  /\ ModulesTyped'
           /\ \A i \in DOMAIN modules : i \in DOMAIN modules' /\ modules'[i].key = modules[i].key
           /\ \A n \in Slot \ {k} : /\ Rows(n)' = Rows(n)
                                    /\ \A i \in Rows(n) : modules'[i] = modules[i]
           /\ k \notin merged =>
                 /\ \A i, j \in Rows(k)' : i = j
                 /\ \A i \in Rows(k)' : modules'[i].enabled = request[p].given[k]
<1> DEFINE q == request[p]
           v == q.given[k]
           m == [key |-> k, enabled |-> v]
           R == [key : Slot, enabled : Value]
           len == Len(modules)
<1>1. /\ ModulePatch(q, modules) /\ q \in ModulePatching /\ Enables(p, k)
    BY ModuleAt DEF SaveModule, At, ModulePatch, Enables
<1>2. k \in Slot /\ v \in Value /\ q.found \in Nat
    <2>1. q.given \in Some(Value) /\ k \in DOMAIN q.given /\ k \in Slot /\ q.found \in Nat
        BY <1>1 DEF ModulePatching, ModulePatch
    <2> QED
        BY <2>1, SomeDef
<1>7. modules \in Seq(R)
    BY DEF ModulesTyped
<1> HIDE DEF R
<1>3. /\ modules \in Seq(R) /\ len \in Nat /\ DOMAIN modules = 1..len
      /\ \A i \in DOMAIN modules : modules[i] \in R
    BY <1>7
<1>4. k \notin merged => /\ \A i, j \in Rows(k) : i = j
                         /\ q.found = 0 => Rows(k) = {}
    BY <1>1, <1>2 DEF ModulesInv, Alone
<1>5. CASE q.found = 0
    <2>1. modules' = Append(modules, m)
        BY <1>5 DEF SaveModule
    <2>2. m \in R /\ m.key = k /\ m.enabled = v
        BY <1>2 DEF R
    <2> HIDE DEF m, v, q
    <2>3. /\ modules' \in Seq(R) /\ DOMAIN modules' = 1..(len + 1)
          /\ \A i \in DOMAIN modules : modules'[i] = modules[i]
          /\ modules'[len + 1] = m
        BY <1>3, <2>1, <2>2
    <2>4. \A i \in DOMAIN modules' : i \in DOMAIN modules \/ i = len + 1
        BY <1>3, <2>3
    <2>5. \A i \in DOMAIN modules : i \in DOMAIN modules'
        BY <1>3, <2>3
    <2> HIDE DEF len
    <2>6. \A n \in Slot \ {k} : Rows(n)' = Rows(n) /\ \A i \in Rows(n) : modules'[i] = modules[i]
        BY <2>2, <2>3, <2>4, <2>5 DEF Rows
    <2>7. k \notin merged => \A i \in Rows(k)' : i = len + 1
        BY <1>4, <1>5, <2>3, <2>4 DEF Rows, q
    <2> QED
        BY <2>2, <2>3, <2>5, <2>6, <2>7 DEF ModulesTyped, R, q, v
<1>6. CASE q.found # 0
    <2> DEFINE f == q.found
               x == [modules[f] EXCEPT !.enabled = v]
    <2>1. f \in DOMAIN modules /\ modules[f].key = k /\ modules[f] \in R
        BY <1>1, <1>3, <1>6 DEF ModulePatch
    <2>2. x \in R /\ x.key = k /\ x.enabled = v
        BY <1>2, <2>1 DEF R
    <2>3. modules' = [modules EXCEPT ![f] = x]
        BY <1>6 DEF SaveModule
    <2> HIDE DEF x, v, f
    <2>4. /\ modules' \in Seq(R) /\ DOMAIN modules' = DOMAIN modules
          /\ \A i \in DOMAIN modules : modules'[i] = IF i = f THEN x ELSE modules[i]
        BY <1>3, <2>1, <2>2, <2>3
    <2>5. \A i \in DOMAIN modules : modules'[i].key = modules[i].key
        BY <2>1, <2>2, <2>4
    <2>6. \A n \in Slot : Rows(n)' = Rows(n)
        BY <2>4, <2>5 DEF Rows
    <2>7. \A n \in Slot \ {k} : \A i \in Rows(n) : modules'[i] = modules[i]
        BY <2>1, <2>4 DEF Rows
    <2>8. f \in Rows(k)
        BY <2>1 DEF Rows
    <2>9. k \notin merged => \A i \in Rows(k)' : i = f
        BY <1>2, <1>4, <2>6, <2>8
    <2> QED
        BY <2>2, <2>4, <2>5, <2>6, <2>7, <2>8, <2>9 DEF ModulesTyped, R, v, Rows
<1> QED
    BY <1>5, <1>6

LEMMA ModulesSave ==
    ASSUME Shaped, ModulesInv, ModulesTyped, WantedTyped, NEW p \in Request, SaveModule(p)
    PROVE  ModulesInv' /\ ModulesTyped' /\ WantedTyped'
<1> DEFINE old == request[p]
           v == old.given[old.key]
<1>0. PICK k : k = old.key
    OBVIOUS
<1>1. /\ ModulePatch(old, modules) /\ old \in ModulePatching /\ At(p, "enable")
    BY ModuleAt DEF SaveModule, At, ModulePatch
<1>2. old.given \in Some(Value) /\ k \in DOMAIN old.given /\ k \in Slot
    BY <1>0, <1>1 DEF ModulePatch, ModulePatching
<1>3. v \in Value /\ DOMAIN old.given \subseteq Slot /\ old.given \in [DOMAIN old.given -> Value]
    BY <1>0, <1>2, SomeDef
<1>4. /\ wanted' = [wanted EXCEPT ![k]["rest"] = v] /\ UNCHANGED merged
    BY <1>0 DEF SaveModule
<1>5. /\ wanted' \in [Slot -> Row] /\ wanted'[k]["rest"] = v
      /\ \A n \in Slot \ {k} : wanted'[n] = wanted[n]
    <2> DEFINE y == [wanted[k] EXCEPT !["rest"] = v]
    <2>1. y \in Row /\ y["rest"] = v
        BY <1>2, <1>3 DEF WantedTyped, Row, Column
    <2>2. wanted' = [wanted EXCEPT ![k] = y]
        BY <1>4
    <2> HIDE DEF y, v
    <2> QED
        BY <1>2, <2>1, <2>2 DEF WantedTyped
<1>6. PICK q : request' = [request EXCEPT ![p] = q] /\ q.pc # "enable" /\ (q = Idle \/ ModulePatch(q, modules))
    <2> DEFINE rest == DOMAIN old.given \ {old.key}
    <2>1. CASE request' = [request EXCEPT ![p] = Idle]
        BY <2>1, PatchKinds
    <2>2. ASSUME NEW n \in rest,
                 request' = [request EXCEPT ![p] =
                    [pc |-> "module", given |-> [s \in rest |-> old.given[s]], key |-> n, found |-> 0]]
          PROVE  \E q : request' = [request EXCEPT ![p] = q] /\ q.pc # "enable"
                        /\ (q = Idle \/ ModulePatch(q, modules))
        <3> DEFINE g == [s \in rest |-> old.given[s]]
                   q == [pc |-> "module", given |-> g, key |-> n, found |-> 0]
        <3>1. g \in [rest -> Value] /\ rest \subseteq Slot /\ DOMAIN g = rest
            BY <1>3
        <3>2. g \in Some(Value)
            BY <3>1, SomeDef
        <3>3. n \in Slot /\ n \in DOMAIN g
            BY <3>1
        <3>4. request' = [request EXCEPT ![p] = q]
            BY <2>2
        <3> HIDE DEF g
        <3>5. ModulePatch(q, modules) /\ q.pc = "module"
            BY <3>2, <3>3 DEF ModulePatch, ModulePatching
        <3> HIDE DEF q
        <3> QED
            BY <3>4, <3>5
    <2> QED
        BY <2>1, <2>2 DEF SaveModule
<1>7. request'[p] = q /\ \A r \in Request \ {p} : request'[r] = request[r]
    BY <1>6 DEF Shaped
<1>8. /\ ModulesTyped'
      /\ \A i \in DOMAIN modules : i \in DOMAIN modules' /\ modules'[i].key = modules[i].key
      /\ \A n \in Slot \ {k} : /\ Rows(n)' = Rows(n)
                               /\ \A i \in Rows(n) : modules'[i] = modules[i]
      /\ k \notin merged => /\ \A i, j \in Rows(k)' : i = j
                            /\ \A i \in Rows(k)' : modules'[i].enabled = v
    BY <1>0, SaveRows
<1>9. ASSUME NEW r \in Request PROVE request'[r] = Idle \/ ModulePatch(request'[r], modules')
    <2>1. request'[r] = Idle \/ ModulePatch(request'[r], modules)
        BY <1>6, <1>7 DEF ModulesInv
    <2> QED
        BY <1>8, <2>1 DEF ModulePatch
<1>10. ASSUME NEW r \in Request, NEW n \in Slot, Enables(r, n)'
       PROVE  r # p /\ Enables(r, n) /\ request'[r] = request[r]
    BY <1>6, <1>7, <1>10 DEF Enables, At
<1>11. ASSUME NEW n \in Slot \ merged' PROVE Alone(n)'
    <2>1. Alone(n)
        BY <1>4, <1>11 DEF ModulesInv
    <2>2. CASE n = k
        <3>1. Enables(p, n)
            BY <1>0, <1>1, <2>2 DEF Enables
        <3>2. \A r \in Request : ~Enables(r, n)'
            BY <1>10, <2>1, <3>1 DEF Alone
        <3> QED
            BY <1>4, <1>5, <1>8, <2>2, <3>2 DEF Alone
    <2>3. CASE n # k
        <3>1. /\ Rows(n)' = Rows(n) /\ wanted'[n] = wanted[n]
              /\ \A i \in Rows(n) : modules'[i] = modules[i]
            BY <1>5, <1>8, <2>3
        <3> QED
            BY <1>10, <2>1, <3>1 DEF Alone
    <2> QED
        BY <2>2, <2>3
<1> QED
    BY <1>4, <1>5, <1>8, <1>9, <1>11 DEF ModulesInv, WantedTyped

LEMMA ModulesUsers ==
    ASSUME Ahead, ModulesInv, ModulesTyped, WantedTyped, kind = "modules", NEW p \in Request,
           \/ Start(p) \/ Find(p) \/ Select(p) \/ Write(p) \/ PatchFails(p)
           \/ AddJob(p) \/ AddFails(p)
           \/ StartModules(p) \/ FindModule(p) \/ SaveModule(p)
    PROVE  ModulesInv' /\ ModulesTyped' /\ WantedTyped'
<1>0. Shaped
    BY DEF Ahead
<1>1. ~Start(p) /\ ~Find(p) /\ ~Select(p) /\ ~Write(p) /\ ~AddJob(p) /\ ~AddFails(p)
    BY PatchKinds DEF Start, Find, Select, Write, AddJob, AddFails, At, ModulesInv, ModulePatch, ModulePatching
<1>2. CASE PatchFails(p)
    <2>1. request' = [request EXCEPT ![p] = Idle] /\ UNCHANGED <<modules, wanted, merged>>
        BY <1>2 DEF PatchFails
    <2>2. ModulesInv'
        BY <1>0, <2>1, ModulesMove, PatchKinds
    <2> QED
        BY <2>1, <2>2 DEF ModulesTyped, WantedTyped
<1>3. CASE StartModules(p)
    <2>1. ModulesInv'
        BY <1>0, <1>3, ModulesStart
    <2> QED
        BY <1>3, <2>1 DEF StartModules, ModulesTyped, WantedTyped
<1>4. CASE FindModule(p)
    <2>1. ModulesInv'
        BY <1>0, <1>4, ModulesFind
    <2>2. request[p].key \in Slot
        BY <1>4, ModuleAt DEF FindModule, At, ModulePatch, ModulePatching
    <2> QED
        BY <1>4, <2>1, <2>2 DEF FindModule, ModulesTyped, WantedTyped
<1>5. CASE SaveModule(p)
    BY <1>0, <1>5, ModulesSave
<1> QED
    BY <1>1, <1>2, <1>3, <1>4, <1>5

-------------------------------------------------------------------------------
(* The theorem.                                                              *)

LEMMA PatchInit == Init => PatchInv
<1> SUFFICES ASSUME Init PROVE PatchInv
    OBVIOUS
<1>1. \A p \in Request : request[p] = Idle
    BY DEF Init
<1>2. Idle.pc = "idle"
    BY PatchKinds
<1>3. patches \in 0..MaxPatches /\ faults \in 0..MaxFaults
    BY SettingsAssumption DEF Init
<1>4. wanted \in [Slot -> Row] /\ merged \subseteq Slot
    BY DEF Init, Row, Value
<1>5. modules = <<>> /\ modules \in Seq([key : Slot, enabled : Value])
    BY DEF Init
<1>6. Counted
    <2>1. Pending = {} /\ Busy = {}
        BY <1>1, <1>2 DEF Init, Pending, Busy
    <2> QED
        BY <2>1, FS_EmptySet DEF Init, Counted
<1>7. ModulesInv
    <2>1. \A p \in Request : \A k : ~Enables(p, k)
        BY <1>1, <1>2 DEF Enables, At
    <2>2. \A k : Rows(k) = {}
        BY <1>5 DEF Rows
    <2> QED
        BY <1>1, <2>1, <2>2 DEF ModulesInv, Alone
<1>8. RowsInv
    BY <1>1, <1>2 DEF Init, RowsInv, ColumnsKept, At
<1> QED
    BY <1>3, <1>4, <1>5, <1>6, <1>7, <1>8 DEF Init, PatchInv

LEMMA PatchNext == Ahead /\ PatchInv /\ [Next]_vars => PatchInv'
<1> SUFFICES ASSUME Ahead, PatchInv, [Next]_vars PROVE PatchInv'
    OBVIOUS
<1>1. Ahead' /\ patches \in Nat
    BY AheadNext, SettingsAssumption DEF PatchInv
<1>2. ASSUME NEW p \in Request,
             \/ Start(p) \/ Find(p) \/ Select(p) \/ Write(p) \/ PatchFails(p)
             \/ AddJob(p) \/ AddFails(p)
             \/ StartModules(p) \/ FindModule(p) \/ SaveModule(p)
      PROVE  PatchInv'
    <2>1. kind' = kind
        BY <1>2 DEF Start, Find, Select, Write, PatchFails, AddJob, AddFails, StartModules, FindModule, SaveModule
    <2>2. patches' \in 0..MaxPatches
        <3>1. CASE Start(p) \/ Find(p) \/ Select(p) \/ Write(p) \/ PatchFails(p)
            BY <3>1, SettingsAssumption
               DEF PatchInv, Start, Find, Select, Write, PatchFails
        <3>2. CASE AddJob(p) \/ AddFails(p) \/ StartModules(p) \/ FindModule(p) \/ SaveModule(p)
            BY <3>2, SettingsAssumption
               DEF PatchInv, AddJob, AddFails, StartModules, FindModule, SaveModule
        <3> QED
            BY <1>2, <3>1, <3>2
    <2>3. faults' \in 0..MaxFaults
        <3>1. CASE Start(p) \/ Find(p) \/ Select(p) \/ Write(p) \/ PatchFails(p)
            BY <3>1, SettingsAssumption
               DEF PatchInv, Start, Find, Select, Write, PatchFails, Fault, bot
        <3>2. CASE AddJob(p) \/ AddFails(p) \/ StartModules(p) \/ FindModule(p) \/ SaveModule(p)
            BY <3>2, SettingsAssumption
               DEF PatchInv, AddJob, AddFails, StartModules, FindModule, SaveModule, Fault, bot
        <3> QED
            BY <1>2, <3>1, <3>2
    <2>4. Counted'
        BY <1>1, <1>2, CountUsers DEF PatchInv
    <2>5. CASE kind = "modules"
        BY <1>2, <2>1, <2>2, <2>3, <2>4, <2>5, ModulesUsers DEF PatchInv, ModulesTyped, WantedTyped
    <2>6. CASE kind # "modules"
        <3>1. RowsInv' /\ WantedTyped'
            BY <1>1, <1>2, <2>6, RowsUsers DEF PatchInv, WantedTyped
        <3>2. UNCHANGED modules
            BY <1>2, <2>6, PatchKinds
               DEF Start, Find, Select, Write, PatchFails, AddJob, AddFails, StartModules, FindModule, SaveModule,
                   At, PatchInv, RowsInv, Patch
        <3> QED
            BY <2>1, <2>2, <2>3, <2>4, <2>6, <3>1, <3>2 DEF PatchInv, WantedTyped
    <2> QED
        BY <2>5, <2>6
<1>3. ASSUME Bot PROVE PatchInv'
    <2>1. UNCHANGED users
        BY <1>3 DEF Bot, Crash, Expire, Take, ReadRows, SetCache, JobFails
    <2>2. faults' \in 0..MaxFaults
        BY <1>3, SettingsAssumption DEF PatchInv, Bot, Crash, Expire, Take, ReadRows, SetCache, JobFails, Fault
    <2>3. Counted'
        BY <1>1, <1>3, CountBot DEF PatchInv
    <2> QED
        BY <2>1, <2>2, <2>3 DEF PatchInv, users, RowsInv, ColumnsKept, UpToDate, Slots, At, ModulesInv, Alone, Enables, Rows
<1>4. CASE UNCHANGED vars
    BY <1>4 DEF vars, PatchInv, Counted, Pending, Busy, RowsInv, ColumnsKept, UpToDate, Slots, At, ModulesInv, Alone,
                Enables, Rows
<1> QED
    BY <1>2, <1>3, <1>4 DEF Next, Users

LEMMA PatchTypes ==
    ASSUME Ahead, PatchInv PROVE TypeOK
<1>1. ASSUME NEW p \in Request, Patch(request[p])
      PROVE  /\ request[p].pc \in {"find", "select", "write", "add"}
             /\ OfSome(request[p].given, Given)
             /\ OfSome(request[p].found, Row \cup {NoRow})
             /\ OfSome(request[p].stored, Row \cup {NoRow})
             /\ request[p].overtaken \subseteq Slot
    BY <1>1, SomeDef DEF Patch, Patching, OfSome, RowOrNone
<1>2. ASSUME NEW p \in Request, ModulePatch(request[p], modules), modules \in Seq([key : Slot, enabled : Value])
      PROVE  /\ request[p].pc \in {"module", "enable"}
             /\ OfSome(request[p].given, Value)
             /\ request[p].key \in Slot /\ request[p].found \in 0..Len(modules)
    BY <1>2, SomeDef DEF ModulePatch, ModulePatching, OfSome
<1>3. jobs \in 0..patches /\ again \in 0..jobs
    <2>1. jobs \in Nat /\ patches \in Nat /\ again \in Nat /\ again <= jobs
        BY SettingsAssumption DEF Ahead, Shaped, PatchInv
    <2> QED
        BY <2>1, CountedFacts DEF PatchInv
<1>4. \A w \in Worker :
         \/ task[w] = Idle
         \/ task[w] \in [pc : {"read"}, stalled : BOOLEAN]
         \/ task[w] \in [pc : {"set"}, stalled : BOOLEAN, rows : Table, behind : BOOLEAN]
    BY DEF Ahead, Shaped, Tasks
<1>5. \A p \in Request : \/ request[p] = Idle \/ Patch(request[p]) \/ ModulePatch(request[p], modules)
    BY DEF PatchInv, RowsInv, ModulesInv
<1> QED
    BY <1>1, <1>2, <1>3, <1>4, <1>5 DEF TypeOK, Ahead, Shaped, PatchInv

\* Every state has its type, there are never more jobs than PATCHes, and what users gave is
\* kept by every later PATCH, failed or not, unless PATCHes of the same row or module
\* overlapped (PatchKeeps of GuildSettings).
THEOREM Keeps == Spec => []PatchKeeps
<1>1. Ahead /\ PatchInv => PatchKeeps
    <2> SUFFICES ASSUME Ahead, PatchInv PROVE PatchKeeps
        OBVIOUS
    <2>1. ASSUME ModulesInv PROVE ModulesKept
        <3> SUFFICES ASSUME NEW k \in Slot \ merged
                     PROVE  Cardinality(Rows(k)) <= 1 /\ \A i \in Rows(k) : modules[i].enabled = wanted[k]["rest"]
            BY DEF ModulesKept
        <3>1. Alone(k)
            BY <2>1 DEF ModulesInv
        <3>2. Rows(k) = {} \/ \E i : Rows(k) = {i}
            BY <3>1 DEF Alone
        <3>3. Cardinality(Rows(k)) = 0 \/ Cardinality(Rows(k)) = 1
            BY <3>2, FS_EmptySet, FS_Singleton
        <3> QED
            BY <3>1, <3>3 DEF Alone
    <2> QED
        BY <2>1, PatchTypes DEF PatchKeeps, PatchInv, RowsInv
<1> QED
    BY <1>1, AheadInit, AheadNext, PatchInit, PatchNext, PTL DEF Spec
===============================================================================
