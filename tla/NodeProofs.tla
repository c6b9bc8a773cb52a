----------------------------- MODULE NodeProofs -----------------------------
(***************************************************************************)
(* The nodes, the regions they meet in and the registry they are listed    *)
(* in: two inductive invariants, for any number of nodes, observers,       *)
(* names, topics and rows, every process of which may die at any step.     *)
(***************************************************************************)
EXTENDS Node, SequenceTheorems, FiniteSetTheorems, TLAPS

\* What the plans of the nodes are made of.
Calls == {NoCall} \cup UNION {UNION {s.calls[p] : p \in Procs} : s \in Plans}

Wants == {RegistryStamp} \cup {c.want : c \in Calls}
         \cup UNION {{s.there[i].want : i \in DOMAIN s.there} : s \in Plans}

RoleSet == {"none", "Both"} \cup {c.role : c \in Calls}

NodePCs == {"idle", "attach", "touch", "lazy", "register", "upgrade", "both", "fallback", "leaving", "gone"}

\* A call between its region and its return; a registration to replace a row.
Touching == {"touch", "lazy", "register", "upgrade", "both", "fallback"}

Replacing == {"upgrade", "both", "fallback"}

SlotType == [row : Nat, role : RoleSet]

NodeType == [pc : NodePCs, call : Calls, disabled : BOOLEAN,
             region : [Names -> Nat], slot : [TopicNames -> SlotType]]

\* What both halves of the invariant need of the nodes and of the plan.
Planned ==
    /\ alive \in [Procs -> BOOLEAN]
    /\ node \in [Procs -> NodeType]
    /\ DOMAIN left = {"calls", "call", "unlink", "claim", "look"}
    /\ \E s \in Plans : left.calls = s.calls
    /\ \A p \in Procs : node[p].pc \in Touching \cup {"attach"} =>
           /\ p \in Nodes
           /\ node[p].call.want.topic \in Topics /\ node[p].call.want # Blank
    /\ \A p \in Observers : node[p].pc = "idle" /\ \A m \in TopicNames : node[p].slot[m] = NoSlot

-----------------------------------------------------------------------------
(***************************************************************************)
(* The registry.                                                           *)
(***************************************************************************)
Owners == Procs \cup {NoProc}

WhatType == [by : Owners, role : RoleSet]

RowType == [state : {"Free", "Claiming", "Active", "Reclaiming"}, gen : Nat, who : Owners, what : WhatType]

FreeingPCs == {"clear", "settle", "free"}

SweepPCs == {"sweep", "sweep_gen", "sweep_pid", "acquire", "reclaim"} \cup FreeingPCs

ClaimPCs == {"claim", "open", "identity", "fields", "active", "publish"}

SnapPCs == {"snap", "snap_gen", "snap_pid", "snap_fields", "snap_regen", "snap_end"}

RegPCs == {"idle", "done", "retire"} \cup SweepPCs \cup ClaimPCs \cup SnapPCs

RegType == [pc : RegPCs, call : {"none", "register", "deregister", "sweep", "snapshot"}, row : Nat,
            role : RoleSet, tries : Nat, freed : BOOLEAN, gen : Nat, who : Owners, what : WhatType,
            listed : SUBSET [who : Owners, what : WhatType]]

RegTyped ==
    /\ rows \in Seq(RowType) /\ Len(rows) > 0
    /\ reg \in [Procs -> RegType]

\* Where a call with locals r may be.
RegPlaced(r) ==
    /\ r.row \in 0..Len(rows)
    /\ r.pc \notin {"idle", "done"} \/ r.call = "deregister" => r.row # NoRow
    /\ r.call = "none" => r.pc = "idle"
    /\ r.call = "register" => r.pc \in {"done"} \cup ClaimPCs \cup SweepPCs
    /\ r.call = "deregister" => r.pc \in {"done", "retire", "open"} \cup FreeingPCs
    /\ r.call = "sweep" => r.pc \in {"done"} \cup SweepPCs
    /\ r.call = "snapshot" => r.pc \in {"done"} \cup SnapPCs

\* Which call of the registry a node n of process p is in.
Calling(p, n, r) ==
    /\ p \in Observers => r.call \in {"none", "sweep", "snapshot"}
    /\ p \in Nodes =>
           /\ n.pc = "register" => r.call = "register" /\ r.role = n.call.role
           /\ n.pc = "both" => r.call = "register" /\ r.role = "Both"
           /\ n.pc = "fallback" => r.call = "register" /\ r.role = n.slot[NameOf[n.call.want.topic]].role
           /\ n.pc = "upgrade" => r.call = "deregister"
           /\ n.pc = "leaving" => r.call \in {"deregister", "none"}
           /\ n.pc \notin Replacing \cup {"register", "leaving"} => r.call = "none"
           /\ n.pc = "register" => n.slot[NameOf[n.call.want.topic]] = NoSlot
           /\ n.pc \in Replacing => n.slot[NameOf[n.call.want.topic]] # NoSlot

\* The generation is odd while somebody writes, and what it protects is whole
\* while it is even.
RowShape(x) ==
    /\ x.state = "Free" => ~Odd(x.gen)
    /\ x.state \in {"Free", "Claiming"} /\ ~Odd(x.gen) => x.who = NoProc
    /\ ~Odd(x.gen) => x.who \in {x.what.by, NoProc}

\* What the only live writer of a row finds there.
WriterScene(p, r, x) ==
    /\ r.pc = "open" /\ r.call = "register" => x.state = "Claiming" /\ ~Odd(x.gen)
    /\ r.pc = "open" /\ r.call = "deregister" => x.state = "Reclaiming" /\ ~Odd(x.gen) /\ x.who = p
    /\ r.pc = "identity" => x.state = "Claiming" /\ Odd(x.gen)
    /\ r.pc = "fields" => x.state = "Claiming" /\ Odd(x.gen) /\ x.who = p
    /\ r.pc = "active" => x.state = "Claiming" /\ Odd(x.gen) /\ x.who = p
                          /\ x.what = [by |-> p, role |-> r.role]
    /\ r.pc = "publish" => x.state = "Active" /\ Odd(x.gen) /\ x.who = p
                           /\ x.what = [by |-> p, role |-> r.role]
    /\ r.pc = "reclaim" => x.state \in {"Active", "Reclaiming"} /\ Odd(x.gen) /\ OwnerIsDead(x.who)
    /\ r.pc = "clear" => x.state = "Reclaiming" /\ Odd(x.gen)
    /\ r.pc = "settle" => x.state = "Reclaiming" /\ Odd(x.gen) /\ x.who = NoProc
    /\ r.pc = "free" => x.state = "Reclaiming" /\ ~Odd(x.gen) /\ x.who = NoProc

WriterScenes ==
    \A p \in Procs : alive[p] /\ reg[p].pc \in Writing => WriterScene(p, reg[p], rows[reg[p].row])

\* What a reader read under an even generation is still so while it stands.
ReaderScene(r, x) ==
    /\ r.pc \in {"sweep_pid", "acquire", "snap_pid", "snap_fields", "snap_regen"} =>
           ~Odd(r.gen) /\ r.gen =< x.gen
    /\ r.pc \in {"acquire", "snap_fields", "snap_regen"} /\ r.gen = x.gen => r.who = x.who
    /\ r.pc = "snap_regen" /\ r.gen = x.gen => r.what = x.what

ReaderScenes == \A p \in Procs : reg[p].row # NoRow => ReaderScene(reg[p], rows[reg[p].row])

\* What a snapshot copied or lists is of one participant.
Coherent(v) == v.who \in {v.what.by, NoProc}

Copies ==
    \A p \in Procs :
        /\ reg[p].pc = "snap_end" => Coherent(reg[p])
        /\ \A v \in reg[p].listed : Coherent(v)

\* A row of a live owner at rest.
Owned(p, x, role) ==
    x.state = "Active" /\ ~Odd(x.gen) /\ x.who = p /\ x.what = [by |-> p, role |-> role]

\* The slots of a node that stand: the one a replacement is about does not.
Standing(n) ==
    {m \in TopicNames : n.slot[m] # NoSlot /\ (n.pc \in Replacing => m # NameOf[n.call.want.topic])}

\* A call that has the row of the node in its hands.
Handling(r) == r.pc = "retire" \/ (r.call = "register" /\ r.pc = "done" /\ r.row # NoRow)

OwnersHold ==
    \A p \in Procs : alive[p] =>
        /\ \A m \in Standing(node[p]) :
               LET s == node[p].slot[m]
               IN  s.row \in Rows /\ Owned(p, rows[s.row], s.role)
        /\ \A m, o \in Standing(node[p]) : m # o => node[p].slot[m].row # node[p].slot[o].row
        /\ Handling(reg[p]) =>
               /\ \A m \in Standing(node[p]) : node[p].slot[m].row # reg[p].row
               /\ \E role \in RoleSet : Owned(p, rows[reg[p].row], role)
               /\ reg[p].pc = "done" => Owned(p, rows[reg[p].row], reg[p].role)

SlotsInTable ==
    \A p \in Procs : \A m \in TopicNames :
        node[p].slot[m] # NoSlot => node[p].slot[m].row \in Rows

\* No row shows a live process that does not know of it.
RowsAreKnown ==
    \A i \in Rows : \A p \in Procs :
        alive[p] /\ rows[i].state = "Active" /\ rows[i].who = p =>
            \/ \E m \in Standing(node[p]) : node[p].slot[m].row = i
            \/ reg[p].row = i /\ (reg[p].pc = "publish" \/ Handling(reg[p]))

RegistryInv ==
    /\ Planned /\ RegTyped
    /\ \A p \in Procs : RegPlaced(reg[p]) /\ Calling(p, node[p], reg[p])
    /\ \A i \in Rows : RowShape(rows[i])
    /\ WritersAreAlone /\ WriterScenes /\ ReaderScenes /\ Copies
    /\ OwnersHold /\ SlotsInTable /\ RowsAreKnown

-----------------------------------------------------------------------------
(***************************************************************************)
(* The regions.                                                            *)
(***************************************************************************)
SchemaType == [state : {"Unset", "Claiming", "Set"}, blob : Procs \cup {Blank}, data : Procs \cup {Blank}]

ObjType == [sized : BOOLEAN, magic : BOOLEAN, stamp : Wants, schema : SchemaType]

MakingPCs == {"map", "stamp", "magic"}

AttPCs == {"idle", "unlink", "excl", "open", "peek", "done", "failed"} \cup MakingPCs \cup ClaimSteps

AttType == [pc : AttPCs, mode : Modes, name : Names \cup {""}, want : Wants, obj : Nat]

SetupTyped ==
    /\ faults \in Nat
    /\ objs \in Seq(ObjType)
    /\ path \in [Names -> Nat] /\ \A n \in Names : path[n] =< Len(objs)
    /\ att \in [Procs -> AttType]
    /\ \A p \in Procs : att[p].obj =< Len(objs)
    /\ unlinks \in [Names -> Nat]
    /\ \A p \in Procs : \A n \in Names : node[p].region[n] \in 0..Len(objs)

\* Where an attach with locals a of a node n may be.
AttPlaced(a, n) ==
    /\ a.pc \in MakingPCs \cup ClaimSteps \cup {"peek", "done"} => a.obj # 0
    /\ a.pc \notin ClaimSteps \cup {"idle"} => a.name \in Names /\ a.want # Blank
    /\ a.pc \in MakingPCs \cup {"unlink", "excl"} => a.mode # "open"
    /\ a.pc \in {"open", "peek"} => a.mode # "create"
    /\ n.pc = "attach" => /\ a.name = NameOf[n.call.want.topic] /\ a.want = n.call.want /\ a.mode = n.call.mode
                          /\ a.pc \notin ClaimSteps \cup {"idle"}
    /\ n.pc = "lazy" => a.name = RegistryName /\ a.pc \notin ClaimSteps \cup {"idle"}
    /\ n.pc \notin {"attach", "lazy"} => a.pc \in ClaimSteps \cup {"idle"}

\* The object a want was stamped on, as a call in this mode asks for it.
Suits(o, want, mode) ==
    /\ o.magic /\ o.stamp # Blank
    /\ o.stamp.topic = want.topic
    /\ mode # "open" => o.stamp.cfg = want.cfg

SchemaDone(s) == s.state = "Set" => s.blob = s.data /\ s.blob # Blank

\* Who makes an object is alone with it until its magic is there.
Makers ==
    \A p \in Procs : att[p].pc \in MakingPCs =>
        /\ ~objs[att[p].obj].magic
        /\ \A q \in Procs \ {p} : att[q].pc \in MakingPCs => att[q].obj # att[p].obj
        /\ \A n \in Names : path[n] = att[p].obj => n = att[p].name
        /\ \A q \in Procs : att[q].pc = "peek" /\ att[q].obj = att[p].obj => att[q].name = att[p].name
        /\ att[p].pc = "magic" =>
               /\ objs[att[p].obj].stamp = att[p].want
               /\ objs[att[p].obj].schema.state # "Claiming" /\ SchemaDone(objs[att[p].obj].schema)

Objects == \A o \in DOMAIN objs : objs[o].magic => objs[o].stamp # Blank /\ SchemaDone(objs[o].schema)

Attached ==
    /\ \A p \in Procs : att[p].pc = "done" => Suits(objs[att[p].obj], att[p].want, att[p].mode)
    /\ \A p \in Procs : \A n \in Names : node[p].region[n] # 0 => objs[node[p].region[n]].magic
    /\ \A p \in Procs : node[p].pc \in Touching =>
           /\ node[p].region[NameOf[node[p].call.want.topic]] # 0
           /\ Suits(objs[node[p].region[NameOf[node[p].call.want.topic]]], node[p].call.want, node[p].call.mode)

Claimants ==
    \A p \in Procs : alive[p] /\ att[p].pc \in ClaimSteps =>
        LET o == objs[att[p].obj]
        IN  /\ o.magic /\ o.schema.state = "Claiming"
            /\ \A q \in Procs \ {p} : alive[q] /\ att[q].pc \in ClaimSteps => att[q].obj # att[p].obj
            /\ att[p].pc # "blob" => o.schema.blob = p
            /\ att[p].pc = "set" => o.schema.data = p

\* The objects that a call may still leave with under the name n.
Offered(n) ==
    {o \in 1..Len(objs) :
        \/ path[n] = o
        \/ \E p \in Procs : alive[p] /\ att[p].name = n /\ att[p].obj = o /\ att[p].pc \in MakingPCs
        \/ /\ objs[o].magic
           /\ \/ \E p \in Procs : alive[p] /\ att[p].name = n /\ att[p].obj = o /\ att[p].pc \in {"peek", "done"}
              \/ \E p \in Procs : alive[p] /\ node[p].region[n] = o}

\* Each but the one the name leads to had its name taken away by an unlink.
OffersAreCounted ==
    \A n \in Names : Cardinality(Offered(n)) =< unlinks[n] + (IF path[n] = 0 THEN 0 ELSE 1)

SetupInv ==
    /\ SetupTyped
    /\ \A p \in Procs : AttPlaced(att[p], node[p])
    /\ Makers /\ Objects /\ Attached /\ Claimants


-----------------------------------------------------------------------------
(***************************************************************************)
(* The operators the registry is built from.                               *)
(***************************************************************************)
\* open_generation makes it odd, settle_generation even, and both move it on.
LEMMA Generations ==
    ASSUME NEW g \in Nat
    PROVE  /\ Opened(g) \in Nat /\ g < Opened(g) /\ Odd(Opened(g))
           /\ Settled(g) \in Nat /\ g < Settled(g) /\ ~Odd(Settled(g))
           /\ ~Odd(g) => Odd(g + 1)
BY DEF Opened, Settled, Odd

\* The rows are numbered from 1, and there is one.
LEMMA Table ==
    ASSUME RegTyped
    PROVE  /\ Rows = 1..Len(rows) /\ Len(rows) \in Nat /\ 1 \in Rows /\ NoRow \notin Rows
           /\ 0..Len(rows) = Rows \cup {NoRow}
           /\ \A i \in Rows : rows[i] \in RowType
<1>1. Rows = 1..Len(rows) /\ Len(rows) \in Nat
    BY DEF RegTyped, Rows
<1>2. \A i \in 1..Len(rows) : rows[i] \in RowType
    BY DEF RegTyped
<1> QED
    BY <1>1, <1>2 DEF NoRow, RegTyped

\* A store into row i.
LEMMA PutRow ==
    ASSUME RegTyped, NEW i \in Rows, NEW x \in RowType, rows' = [rows EXCEPT ![i] = x]
    PROVE  /\ rows' \in Seq(RowType) /\ Len(rows') = Len(rows) /\ Rows' = Rows
           /\ rows'[i] = x /\ \A j \in Rows \ {i} : rows'[j] = rows[j]
<1>1. rows \in Seq(RowType) /\ i \in 1..Len(rows)
    BY Table DEF RegTyped
<1>2. rows' \in Seq(RowType) /\ Len(rows') = Len(rows)
    BY <1>1, ExceptSeq
<1>3. Rows' = Rows
    BY <1>1, <1>2 DEF Rows
<1> QED
    BY <1>1, <1>2, <1>3 DEF Rows

\* Only Writing program counters have a scene with a row, and none of them is
\* that of a row at rest.
LEMMA SceneOfWriter ==
    ASSUME NEW p, NEW r, NEW x, r.pc \in Writing, r.pc = "open" => r.call \in {"register", "deregister"},
           WriterScene(p, r, x)
    PROVE  /\ x.state # "Free"
           /\ ~(x.state = "Active" /\ ~Odd(x.gen))
           /\ ~Odd(x.gen) /\ RowShape(x) => x.who \in {p, NoProc}
BY DEF WriterScene, Writing, RowShape

\* Whose program counters these are.
LEMMA PlacedOpen ==
    ASSUME NEW r, RegPlaced(r), r.call \in {"none", "register", "deregister", "sweep", "snapshot"}
    PROVE  /\ r.pc = "open" => r.call \in {"register", "deregister"}
           /\ r.pc \in Writing \cup {"retire"} => r.row # NoRow
           /\ r.pc \in {"identity", "fields", "active", "publish", "claim"} => r.call = "register"
           /\ r.pc = "retire" => r.call = "deregister"
           /\ r.pc \in SweepPCs \ FreeingPCs => r.call \in {"register", "sweep"}
           /\ r.pc \in FreeingPCs => r.call \in {"register", "sweep", "deregister"}
           /\ r.pc \in SnapPCs => r.call = "snapshot"
           /\ r.pc = "done" => r.call # "none"
BY DEF RegPlaced, Writing, ClaimPCs, SweepPCs, FreeingPCs, SnapPCs


ReaderPCs == {"sweep_pid", "acquire", "snap_pid", "snap_fields", "snap_regen"}

\* A row and reader's copy stay as they are, or the generation has moved on.
LEMMA ReaderKept ==
    ASSUME NEW r \in RegType, NEW x \in RowType, NEW y \in RowType, ReaderScene(r, x), x.gen =< y.gen,
           y.gen = x.gen /\ ~Odd(x.gen) => y.who = x.who /\ y.what = x.what
    PROVE  ReaderScene(r, y)
<1>1. r.gen \in Nat /\ x.gen \in Nat /\ y.gen \in Nat
    BY DEF RegType, RowType
<1>2. CASE r.pc \notin ReaderPCs
    BY <1>2 DEF ReaderScene, ReaderPCs
<1>3. CASE r.pc \in ReaderPCs
    <2>1. ~Odd(r.gen) /\ r.gen =< x.gen
        BY <1>3 DEF ReaderScene, ReaderPCs
    <2>2. r.gen =< y.gen
        BY <1>1, <2>1
    <2>3. r.gen = y.gen => x.gen = y.gen /\ x.who = y.who /\ x.what = y.what
        BY <1>1, <2>1
    <2> QED
        BY <2>1, <2>2, <2>3 DEF ReaderScene
<1> QED
    BY <1>2, <1>3

\* What process q, alone with row i, may store there and go on to.
RowFits(q, i, x) ==
    /\ reg' \in [Procs -> RegType] /\ \A p \in Procs \ {q} : reg'[p] = reg[p]
    /\ rows' = [rows EXCEPT ![i] = x] /\ reg[q].row = i
    /\ RowShape(x) /\ rows[i].gen =< x.gen
    /\ x.gen = rows[i].gen /\ ~Odd(rows[i].gen) => x.who = rows[i].who /\ x.what = rows[i].what
    /\ \A p \in Procs \ {q} : alive[p] /\ reg[p].pc \in Writing => reg[p].row # i
    /\ \A p \in Procs : \A m \in Standing(node[p]) : alive[p] => node[p].slot[m].row # i
    /\ \A p \in Procs \ {q} : alive[p] /\ Handling(reg[p]) => reg[p].row # i
    /\ RegPlaced(reg[q])' /\ Calling(q, node[q], reg'[q])
    /\ reg'[q].pc \in Writing => reg'[q].row = i /\ WriterScene(q, reg'[q], x)
    /\ reg'[q].pc \notin ReaderPCs \cup {"snap_end"} /\ reg'[q].listed = reg[q].listed
    /\ Handling(reg'[q]) => reg'[q].pc = "done" /\ reg'[q].row = i /\ Owned(q, x, reg'[q].role)
    /\ x.state = "Active" /\ x.who \in Procs /\ alive[x.who] =>
           x.who = q /\ reg'[q].row = i /\ (reg'[q].pc = "publish" \/ Handling(reg'[q]))

\* Process q, alone with row i, stores it.
LEMMA RowStep ==
    ASSUME RegistryInv, NEW q \in Procs, alive[q], UNCHANGED <<alive, node, left>>,
           NEW i \in Rows, NEW x \in RowType, RowFits(q, i, x)
    PROVE  RegistryInv'
<1> USE DEF RowFits
<1>0. /\ Planned /\ RegTyped /\ WritersAreAlone /\ WriterScenes /\ ReaderScenes /\ Copies
      /\ OwnersHold /\ SlotsInTable /\ RowsAreKnown
      /\ \A p \in Procs : RegPlaced(reg[p]) /\ Calling(p, node[p], reg[p])
      /\ \A j \in Rows : RowShape(rows[j])
    BY DEF RegistryInv
<1>1. /\ rows' \in Seq(RowType) /\ Len(rows') = Len(rows) /\ Rows' = Rows
      /\ rows'[i] = x /\ \A j \in Rows \ {i} : rows'[j] = rows[j]
    BY <1>0, PutRow
<1>2. Planned' /\ RegTyped'
    BY <1>0, <1>1 DEF Planned, RegTyped
<1>3. ASSUME NEW p \in Procs PROVE RegPlaced(reg[p])' /\ Calling(p, node[p], reg[p])'
    <2>1. Calling(p, node'[p], reg'[p])
        BY <1>0
    <2>2. RegPlaced(reg[p])'
        BY <1>0, <1>1 DEF RegPlaced
    <2> QED
        BY <2>1, <2>2
<1>4. \A j \in Rows' : RowShape(rows'[j])
    BY <1>0, <1>1
<1>t. ASSUME NEW p \in Procs PROVE reg[p] \in RegType /\ reg[p].row \in Rows \cup {NoRow}
                                   /\ (reg[p].pc \in Writing => reg[p].row \in Rows)
    <2>1. reg[p] \in RegType /\ reg[p].call \in {"none", "register", "deregister", "sweep", "snapshot"}
        BY <1>0 DEF RegTyped, RegType
    <2> QED
        BY <1>0, <2>1, Table, PlacedOpen DEF RegPlaced
<1>5. WritersAreAlone'
    <2> SUFFICES ASSUME NEW p \in Procs, NEW o \in Procs, p # o, alive[p], alive[o],
                        reg'[p].pc \in Writing, reg'[o].pc \in Writing
                 PROVE  reg'[p].row # reg'[o].row
        BY DEF WritersAreAlone
    <2> QED
        BY <1>0 DEF WritersAreAlone
<1>6. WriterScenes'
    <2> SUFFICES ASSUME NEW p \in Procs, alive[p], reg'[p].pc \in Writing
                 PROVE  WriterScene(p, reg[p], rows[reg[p].row])'
        BY DEF WriterScenes
    <2>1. WriterScene(p, reg'[p], rows'[reg'[p].row])
        <3>1. CASE p = q
            BY <1>1, <3>1
        <3>2. CASE p # q
            BY <1>0, <1>1, <1>t, <3>2 DEF WriterScenes
        <3> QED
            BY <3>1, <3>2
    <2> QED
        BY <2>1 DEF WriterScene, OwnerIsDead
<1>7. ReaderScenes'
    <2> SUFFICES ASSUME NEW p \in Procs, reg'[p].row # NoRow
                 PROVE  ReaderScene(reg'[p], rows'[reg'[p].row])
        BY DEF ReaderScenes
    <2>1. CASE p = q
        BY <2>1 DEF ReaderScene, ReaderPCs
    <2>2. CASE p # q
        <3>1. reg'[p] = reg[p] /\ reg[p].row \in Rows /\ ReaderScene(reg[p], rows[reg[p].row])
            BY <1>0, <1>t, <2>2 DEF ReaderScenes
        <3>2. CASE reg[p].row = i
            <4>1. rows[i] \in RowType /\ reg[p] \in RegType
                BY <1>0, <1>t, Table
            <4>2. ReaderScene(reg[p], x)
                BY <3>1, <3>2, <4>1, ReaderKept
            <4> QED
                BY <1>1, <3>1, <3>2, <4>2
        <3>3. CASE reg[p].row # i
            BY <1>1, <3>1, <3>3
        <3> QED
            BY <3>2, <3>3
    <2> QED
        BY <2>1, <2>2
<1>8. Copies'
    BY <1>0 DEF Copies
<1>9. OwnersHold'
    <2> SUFFICES ASSUME NEW p \in Procs, alive[p]
                 PROVE  /\ \A m \in Standing(node[p]) :
                               /\ node[p].slot[m].row \in Rows'
                               /\ Owned(p, rows'[node[p].slot[m].row], node[p].slot[m].role)
                        /\ \A m, o \in Standing(node[p]) : m # o => node[p].slot[m].row # node[p].slot[o].row
                        /\ Handling(reg'[p]) =>
                               /\ \A m \in Standing(node[p]) : node[p].slot[m].row # reg'[p].row
                               /\ \E role \in RoleSet : Owned(p, rows'[reg'[p].row], role)
                               /\ reg'[p].pc = "done" => Owned(p, rows'[reg'[p].row], reg'[p].role)
        BY DEF OwnersHold
    <2>1. \A m \in Standing(node[p]) :
              /\ node[p].slot[m].row \in Rows' /\ Owned(p, rows'[node[p].slot[m].row], node[p].slot[m].role)
        BY <1>0, <1>1 DEF OwnersHold
    <2>2. \A m, o \in Standing(node[p]) : m # o => node[p].slot[m].row # node[p].slot[o].row
        BY <1>0 DEF OwnersHold
    <2>3. ASSUME Handling(reg'[p])
          PROVE  /\ \A m \in Standing(node[p]) : node[p].slot[m].row # reg'[p].row
                 /\ \E role \in RoleSet : Owned(p, rows'[reg'[p].row], role)
                 /\ reg'[p].pc = "done" => Owned(p, rows'[reg'[p].row], reg'[p].role)
        <3>1. CASE p = q
            <4>1. reg'[q].role \in RoleSet
                BY DEF RegType
            <4> QED
                BY <1>1, <2>3, <3>1, <4>1
        <3>2. CASE p # q
            <4>1. reg'[p] = reg[p] /\ reg[p].row # i /\ Handling(reg[p])
                BY <2>3, <3>2
            <4>2. reg[p].row \in Rows
                BY <1>0, <1>t, <4>1, PlacedOpen DEF Handling, RegTyped, RegType
            <4> QED
                BY <1>0, <1>1, <4>1, <4>2 DEF OwnersHold
        <3> QED
            BY <3>1, <3>2
    <2> QED
        BY <2>1, <2>2, <2>3
<1>10. SlotsInTable'
    BY <1>0, <1>1 DEF SlotsInTable
<1>11. RowsAreKnown'
    <2> SUFFICES ASSUME NEW j \in Rows, NEW p \in Procs, alive[p], rows'[j].state = "Active", rows'[j].who = p
                 PROVE  \/ \E m \in Standing(node[p]) : node[p].slot[m].row = j
                        \/ reg'[p].row = j /\ (reg'[p].pc = "publish" \/ Handling(reg'[p]))
        BY <1>1 DEF RowsAreKnown, Standing, Handling
    <2>1. CASE j = i
        BY <1>1, <2>1
    <2>2. CASE j # i
        BY <1>0, <1>1, <2>2 DEF RowsAreKnown
    <2> QED
        BY <2>1, <2>2
<1> QED
    BY <1>2, <1>3, <1>4, <1>5, <1>6, <1>7, <1>8, <1>9, <1>10, <1>11 DEF RegistryInv


\* Process q moves its own locals and has no row in its hands.
LEMMA RegStep ==
    ASSUME RegistryInv, NEW q \in Procs, UNCHANGED <<alive, node, left, rows>>,
           reg' \in [Procs -> RegType], \A p \in Procs \ {q} : reg'[p] = reg[p],
           reg[q].pc \notin Writing, ~Handling(reg[q]),
           RegPlaced(reg[q])', Calling(q, node[q], reg'[q]),
           reg'[q].pc \notin Writing, ~Handling(reg'[q]),
           reg'[q].row # NoRow => ReaderScene(reg'[q], rows[reg'[q].row]),
           reg'[q].pc = "snap_end" => Coherent(reg'[q]),
           \A v \in reg'[q].listed : Coherent(v)
    PROVE  RegistryInv'
<1>0. /\ Planned /\ RegTyped /\ WritersAreAlone /\ WriterScenes /\ ReaderScenes /\ Copies
      /\ OwnersHold /\ SlotsInTable /\ RowsAreKnown
      /\ \A p \in Procs : RegPlaced(reg[p]) /\ Calling(p, node[p], reg[p])
      /\ \A j \in Rows : RowShape(rows[j])
    BY DEF RegistryInv
<1>1. Rows' = Rows
    BY DEF Rows
<1>2. Planned' /\ RegTyped'
    BY <1>0 DEF Planned, RegTyped
<1>3. ASSUME NEW p \in Procs PROVE RegPlaced(reg[p])' /\ Calling(p, node[p], reg[p])'
    <2>1. Calling(p, node'[p], reg'[p])
        BY <1>0
    <2>2. RegPlaced(reg[p])'
        BY <1>0 DEF RegPlaced
    <2> QED
        BY <2>1, <2>2
<1>4. \A j \in Rows' : RowShape(rows'[j])
    BY <1>0, <1>1
<1>5. WritersAreAlone'
    BY <1>0 DEF WritersAreAlone
<1>6. WriterScenes'
    <2> SUFFICES ASSUME NEW p \in Procs, alive[p], reg'[p].pc \in Writing
                 PROVE  WriterScene(p, reg[p], rows[reg[p].row])'
        BY DEF WriterScenes
    <2>1. WriterScene(p, reg'[p], rows[reg'[p].row])
        BY <1>0 DEF WriterScenes
    <2> QED
        BY <2>1 DEF WriterScene, OwnerIsDead
<1>7. ReaderScenes'
    BY <1>0 DEF ReaderScenes
<1>8. Copies'
    BY <1>0 DEF Copies
<1>9. OwnersHold'
    BY <1>0, <1>1 DEF OwnersHold
<1>10. SlotsInTable'
    BY <1>0, <1>1 DEF SlotsInTable
<1>11. RowsAreKnown'
    <2> SUFFICES ASSUME NEW j \in Rows, NEW p \in Procs, alive[p], rows[j].state = "Active", rows[j].who = p
                 PROVE  \/ \E m \in Standing(node[p]) : node[p].slot[m].row = j
                        \/ reg'[p].row = j /\ (reg'[p].pc = "publish" \/ Handling(reg'[p]))
        BY <1>1 DEF RowsAreKnown
    <2> QED
        BY <1>0 DEF RowsAreKnown, Writing
<1> QED
    BY <1>2, <1>3, <1>4, <1>5, <1>6, <1>7, <1>8, <1>9, <1>10, <1>11 DEF RegistryInv

\* Who has a row in its hands is alone with it, and nobody counts it as its own.
LEMMA WriterAlone ==
    ASSUME RegistryInv, NEW q \in Procs, alive[q], reg[q].pc \in Writing, NEW i, i = reg[q].row
    PROVE  /\ i \in Rows /\ rows[i] \in RowType /\ RowShape(rows[i]) /\ WriterScene(q, reg[q], rows[i])
           /\ reg[q] \in RegType /\ RegPlaced(reg[q]) /\ Calling(q, node[q], reg[q])
           /\ \A p \in Procs \ {q} : alive[p] /\ reg[p].pc \in Writing => reg[p].row # i
           /\ \A p \in Procs : \A m \in Standing(node[p]) : alive[p] => node[p].slot[m].row # i
           /\ \A p \in Procs \ {q} : alive[p] /\ Handling(reg[p]) => reg[p].row # i
<1>0. /\ RegTyped /\ WritersAreAlone /\ WriterScenes /\ OwnersHold
      /\ \A p \in Procs : RegPlaced(reg[p]) /\ Calling(p, node[p], reg[p])
      /\ \A j \in Rows : RowShape(rows[j])
    BY DEF RegistryInv
<1>1. reg[q] \in RegType /\ reg[q].call \in {"none", "register", "deregister", "sweep", "snapshot"}
    BY <1>0 DEF RegTyped, RegType
<1>2. i \in Rows /\ rows[i] \in RowType /\ RowShape(rows[i])
    BY <1>0, <1>1, Table, PlacedOpen DEF RegPlaced
<1>3. WriterScene(q, reg[q], rows[i])
    BY <1>0 DEF WriterScenes
<1>4. ~(rows[i].state = "Active" /\ ~Odd(rows[i].gen))
    BY <1>0, <1>1, <1>3, PlacedOpen, SceneOfWriter
<1>5. \A p \in Procs \ {q} : alive[p] /\ reg[p].pc \in Writing => reg[p].row # i
    BY <1>0 DEF WritersAreAlone
<1>a. \A p, role : ~Owned(p, rows[i], role)
    BY <1>4 DEF Owned
<1>6. \A p \in Procs : \A m \in Standing(node[p]) : alive[p] => node[p].slot[m].row # i
    BY <1>0, <1>a DEF OwnersHold
<1>7. \A p \in Procs \ {q} : alive[p] /\ Handling(reg[p]) => reg[p].row # i
    BY <1>0, <1>a DEF OwnersHold
<1> QED
    BY <1>0, <1>1, <1>2, <1>3, <1>5, <1>6, <1>7

\* A store by the row's writer after which it goes on writing.
LEMMA WriterGoesOn ==
    ASSUME RegistryInv, NEW q \in Procs, alive[q], reg[q].pc \in Writing, UNCHANGED <<alive, node, left>>,
           NEW x \in RowType, rows' = [rows EXCEPT ![reg[q].row] = x],
           NEW pc \in Writing, RegGoto(q, pc), RowShape(x), rows[reg[q].row].gen =< x.gen,
           x.gen = rows[reg[q].row].gen /\ ~Odd(rows[reg[q].row].gen) =>
               x.who = rows[reg[q].row].who /\ x.what = rows[reg[q].row].what,
           \A r \in RegType : r.pc = pc /\ r.call = reg[q].call /\ r.role = reg[q].role => WriterScene(q, r, x),
           x.state = "Active" /\ x.who \in Procs /\ alive[x.who] => x.who = q /\ pc = "publish",
           reg[q].call = "register" => pc \in ClaimPCs \cup SweepPCs,
           reg[q].call = "deregister" => pc \in FreeingPCs,
           reg[q].call = "sweep" => pc \in SweepPCs
    PROVE  RegistryInv'
<1> DEFINE i == reg[q].row
<1>1. /\ i \in Rows /\ rows[i] \in RowType /\ reg[q] \in RegType /\ RegPlaced(reg[q])
      /\ Calling(q, node[q], reg[q])
      /\ \A p \in Procs \ {q} : alive[p] /\ reg[p].pc \in Writing => reg[p].row # i
      /\ \A p \in Procs : \A m \in Standing(node[p]) : alive[p] => node[p].slot[m].row # i
      /\ \A p \in Procs \ {q} : alive[p] /\ Handling(reg[p]) => reg[p].row # i
    BY WriterAlone
<1>2. reg \in [Procs -> RegType] /\ RegTyped
    BY DEF RegistryInv, RegTyped
<1>3. Len(rows') = Len(rows)
    BY <1>1, <1>2, PutRow
<1>4. /\ reg' = [reg EXCEPT ![q] = [reg[q] EXCEPT !.pc = pc]]
      /\ pc \in RegPCs /\ pc \notin {"idle", "done", "retire", "claim", "snap_end"} \cup ReaderPCs
    BY <1>2 DEF RegGoto, Writing, RegPCs, ClaimPCs, SweepPCs, FreeingPCs, ReaderPCs
<1>5. [reg[q] EXCEPT !.pc = pc] \in RegType
    BY <1>1, <1>4 DEF RegType
<1>6. /\ reg' \in [Procs -> RegType] /\ \A p \in Procs \ {q} : reg'[p] = reg[p]
      /\ reg'[q] \in RegType /\ reg'[q].pc = pc /\ reg'[q].call = reg[q].call /\ reg'[q].role = reg[q].role
      /\ reg'[q].row = i /\ reg'[q].listed = reg[q].listed
    BY <1>1, <1>2, <1>4, <1>5 DEF RegType
<1>7. ~Handling(reg'[q])
    BY <1>4, <1>6 DEF Handling
<1>8. RegPlaced(reg[q])'
    <2>1. reg[q].call # "snapshot" /\ reg[q].call # "none" /\ i # NoRow /\ i \in 0..Len(rows)
        <3>1. reg[q].call \in {"none", "register", "deregister", "sweep", "snapshot"}
            BY <1>1, SMTT(30) DEF RegType
        <3> QED
            BY <1>1, <3>1 DEF RegPlaced, Writing, SnapPCs
    <2> HIDE DEF i
    <2> QED
        BY <1>3, <1>4, <1>6, <2>1 DEF RegPlaced
<1>9. Calling(q, node[q], reg'[q])
    BY <1>1, <1>6 DEF Calling
<1>10. WriterScene(q, reg'[q], x) /\ reg'[q].pc \notin ReaderPCs \cup {"snap_end"}
    BY <1>4, <1>6
<1> HIDE DEF i
<1>11. x.state = "Active" /\ x.who \in Procs /\ alive[x.who] => x.who = q /\ reg'[q].row = i /\ reg'[q].pc = "publish"
    BY <1>6
<1>12. /\ rows' = [rows EXCEPT ![i] = x] /\ rows[i].gen =< x.gen /\ i = reg[q].row
       /\ x.gen = rows[i].gen /\ ~Odd(rows[i].gen) => x.who = rows[i].who /\ x.what = rows[i].what
    BY DEF i
<1>13. RowFits(q, i, x)
    BY <1>1, <1>6, <1>7, <1>8, <1>9, <1>10, <1>11, <1>12 DEF RowFits
<1> QED
    BY <1>1, <1>13, RowStep

\* The stores of a writer that are not its last.
LEMMA WriterStores ==
    ASSUME RegistryInv, NEW q \in Procs, OnlyRegistry,
           \/ OpenGeneration(q) \/ StoreIdentity(q) \/ StoreFields(q) \/ StoreActive(q)
           \/ ClearIdentity(q) \/ SettleCleared(q)
    PROVE  RegistryInv'
<1> DEFINE i == reg[q].row
<1>a. UNCHANGED <<alive, node, left>> /\ alive[q]
    BY DEF OnlyRegistry, OpenGeneration, StoreIdentity, StoreFields, StoreActive, ClearIdentity, SettleCleared, RegAt
<1>b. reg[q].pc \in {"open", "identity", "fields", "active", "clear", "settle"} /\ reg[q].pc \in Writing
    BY DEF OpenGeneration, StoreIdentity, StoreFields, StoreActive, ClearIdentity, SettleCleared, RegAt, Writing
<1>c. /\ i \in Rows /\ rows[i] \in RowType /\ RowShape(rows[i]) /\ WriterScene(q, reg[q], rows[i])
      /\ reg[q] \in RegType /\ RegPlaced(reg[q])
    BY <1>a, <1>b, WriterAlone
<1>d. /\ rows[i].gen \in Nat /\ rows[i].who \in Owners /\ rows[i].what \in WhatType
      /\ rows[i].state \in {"Free", "Claiming", "Active", "Reclaiming"}
      /\ q \in Owners /\ NoProc \in Owners
    BY <1>c DEF RowType, Owners
<1>e. reg[q].call \in {"none", "register", "deregister", "sweep", "snapshot"} /\ reg[q].role \in RoleSet
    BY <1>c DEF RegType
<1>f. /\ reg[q].pc = "open" => reg[q].call \in {"register", "deregister"}
      /\ reg[q].pc \in {"identity", "fields", "active"} => reg[q].call = "register"
      /\ reg[q].pc \in {"clear", "settle"} => reg[q].call \in {"register", "sweep", "deregister"}
    BY <1>c, <1>e, PlacedOpen DEF FreeingPCs
<1>g. q # NoProc
    BY ProcessAssumption
<1>p. {"identity", "fields", "active", "publish", "clear", "settle", "free"} \subseteq Writing
    BY DEF Writing
<1>s. /\ {"identity", "fields", "active", "publish"} \subseteq ClaimPCs
      /\ {"clear", "settle", "free"} \subseteq SweepPCs /\ {"clear", "settle", "free"} \subseteq FreeingPCs
    BY DEF ClaimPCs, SweepPCs, FreeingPCs
<1>h. ASSUME NEW x \in RowType, NEW pc \in Writing, rows' = [rows EXCEPT ![i] = x], RegGoto(q, pc),
             RowShape(x), rows[i].gen =< x.gen,
             x.gen = rows[i].gen => Odd(rows[i].gen),
             \A r \in RegType : r.pc = pc /\ r.call = reg[q].call /\ r.role = reg[q].role => WriterScene(q, r, x),
             x.state = "Active" => x.who = q /\ pc = "publish",
             reg[q].call = "register" => pc \in ClaimPCs \cup SweepPCs,
             reg[q].call = "deregister" => pc \in FreeingPCs,
             reg[q].call = "sweep" => pc \in SweepPCs
      PROVE  RegistryInv'
    BY <1>a, <1>b, <1>h, WriterGoesOn
<1>1. CASE OpenGeneration(q)
    <2> DEFINE x == [rows[i] EXCEPT !.gen = Opened(@)]
               pc == IF reg[q].call = "register" THEN "identity" ELSE "clear"
    <2>1. reg[q].pc = "open" /\ rows' = [rows EXCEPT ![i] = x] /\ RegGoto(q, pc)
        BY <1>1 DEF OpenGeneration, RegAt, SetRow, Row
    <2>2. /\ x \in RowType /\ x.state = rows[i].state /\ x.gen = Opened(rows[i].gen)
          /\ x.who = rows[i].who /\ x.what = rows[i].what
        BY <1>c, <1>d, Generations DEF RowType
    <2>3. Odd(x.gen) /\ rows[i].gen < x.gen /\ x.gen \in Nat
        BY <1>d, <2>2, Generations
    <2> HIDE DEF x
    <2>4. /\ reg[q].call = "register" => x.state = "Claiming"
          /\ reg[q].call = "deregister" => x.state = "Reclaiming"
        BY <1>c, <2>1, <2>2 DEF WriterScene
    <2>5. RowShape(x)
        BY <1>f, <2>1, <2>3, <2>4 DEF RowShape
    <2>6. \A r \in RegType : r.pc = pc /\ r.call = reg[q].call => WriterScene(q, r, x)
        BY <1>f, <2>1, <2>3, <2>4 DEF WriterScene
    <2>7. rows[i].gen =< x.gen /\ x.gen # rows[i].gen
        BY <1>d, <2>3
    <2>8. pc \in Writing /\ x.state # "Active"
        BY <1>f, <1>p, <2>1, <2>4
    <2>9. /\ reg[q].call = "register" => pc \in ClaimPCs
          /\ reg[q].call = "deregister" => pc \in FreeingPCs
          /\ reg[q].call # "sweep"
        BY <1>f, <1>s, <2>1
    <2> HIDE DEF pc, i
    <2> QED
        BY <1>h, <2>1, <2>2, <2>5, <2>6, <2>7, <2>8, <2>9
<1>2. CASE StoreIdentity(q)
    <2> DEFINE x == [rows[i] EXCEPT !.who = q]
    <2>1. reg[q].pc = "identity" /\ rows' = [rows EXCEPT ![i] = x] /\ RegGoto(q, "fields")
        BY <1>2 DEF StoreIdentity, RegAt, SetRow, Row
    <2>2. x \in RowType /\ x.state = rows[i].state /\ x.gen = rows[i].gen /\ x.who = q
        BY <1>c, <1>d DEF RowType
    <2> HIDE DEF x
    <2>3. x.state = "Claiming" /\ Odd(x.gen)
        BY <1>c, <2>1, <2>2 DEF WriterScene
    <2>4. RowShape(x) /\ \A r \in RegType : r.pc = "fields" => WriterScene(q, r, x)
        BY <2>2, <2>3 DEF RowShape, WriterScene
    <2>5. rows[i].gen =< x.gen /\ Odd(rows[i].gen)
        BY <1>d, <2>2, <2>3
    <2>6. "fields" \in Writing /\ x.state # "Active" /\ reg[q].call = "register" /\ "fields" \in ClaimPCs
        BY <1>f, <1>p, <1>s, <2>1, <2>3
    <2> HIDE DEF i
    <2> QED
        BY <1>h, <2>1, <2>2, <2>4, <2>5, <2>6
<1>3. CASE StoreFields(q)
    <2> DEFINE x == [rows[i] EXCEPT !.what = [by |-> q, role |-> reg[q].role]]
    <2>1. reg[q].pc = "fields" /\ rows' = [rows EXCEPT ![i] = x] /\ RegGoto(q, "active")
        BY <1>3 DEF StoreFields, RegAt, SetRow, Row
    <2>2. /\ x \in RowType /\ x.state = rows[i].state /\ x.gen = rows[i].gen /\ x.who = rows[i].who
          /\ x.what = [by |-> q, role |-> reg[q].role]
        BY <1>c, <1>d, <1>e DEF RowType, WhatType
    <2> HIDE DEF x
    <2>3. x.state = "Claiming" /\ Odd(x.gen) /\ x.who = q
        BY <1>c, <2>1, <2>2 DEF WriterScene
    <2>4. RowShape(x) /\ \A r \in RegType : r.pc = "active" /\ r.role = reg[q].role => WriterScene(q, r, x)
        BY <2>2, <2>3 DEF RowShape, WriterScene
    <2>5. rows[i].gen =< x.gen /\ Odd(rows[i].gen)
        BY <1>d, <2>2, <2>3
    <2>6. "active" \in Writing /\ x.state # "Active" /\ reg[q].call = "register" /\ "active" \in ClaimPCs
        BY <1>f, <1>p, <1>s, <2>1, <2>3
    <2> HIDE DEF i
    <2> QED
        BY <1>h, <2>1, <2>2, <2>4, <2>5, <2>6
<1>4. CASE StoreActive(q)
    <2> DEFINE x == [rows[i] EXCEPT !.state = "Active"]
    <2>1. reg[q].pc = "active" /\ rows' = [rows EXCEPT ![i] = x] /\ RegGoto(q, "publish")
        BY <1>4 DEF StoreActive, RegAt, SetRow, Row
    <2>2. /\ x \in RowType /\ x.state = "Active" /\ x.gen = rows[i].gen /\ x.who = rows[i].who
          /\ x.what = rows[i].what
        BY <1>c, <1>d DEF RowType
    <2> HIDE DEF x
    <2>3. Odd(x.gen) /\ x.who = q /\ x.what = [by |-> q, role |-> reg[q].role]
        BY <1>c, <2>1, <2>2 DEF WriterScene
    <2>4. RowShape(x) /\ \A r \in RegType : r.pc = "publish" /\ r.role = reg[q].role => WriterScene(q, r, x)
        BY <2>2, <2>3 DEF RowShape, WriterScene
    <2>5. rows[i].gen =< x.gen /\ Odd(rows[i].gen)
        BY <1>d, <2>2, <2>3
    <2>6. "publish" \in Writing /\ reg[q].call = "register" /\ "publish" \in ClaimPCs
        BY <1>f, <1>p, <1>s, <2>1
    <2> HIDE DEF i
    <2> QED
        BY <1>h, <2>1, <2>2, <2>3, <2>4, <2>5, <2>6
<1>5. CASE ClearIdentity(q)
    <2> DEFINE x == [rows[i] EXCEPT !.who = NoProc]
    <2>1. reg[q].pc = "clear" /\ rows' = [rows EXCEPT ![i] = x] /\ RegGoto(q, "settle")
        BY <1>5 DEF ClearIdentity, RegAt, SetRow, Row
    <2>2. x \in RowType /\ x.state = rows[i].state /\ x.gen = rows[i].gen /\ x.who = NoProc
        BY <1>c, <1>d DEF RowType
    <2> HIDE DEF x
    <2>3. x.state = "Reclaiming" /\ Odd(x.gen)
        BY <1>c, <2>1, <2>2 DEF WriterScene
    <2>4. RowShape(x) /\ \A r \in RegType : r.pc = "settle" => WriterScene(q, r, x)
        BY <2>2, <2>3 DEF RowShape, WriterScene
    <2>5. rows[i].gen =< x.gen /\ Odd(rows[i].gen)
        BY <1>d, <2>2, <2>3
    <2>6. "settle" \in Writing /\ x.state # "Active" /\ "settle" \in SweepPCs /\ "settle" \in FreeingPCs
        BY <1>p, <1>s, <2>3
    <2> HIDE DEF i
    <2> QED
        BY <1>h, <2>1, <2>2, <2>4, <2>5, <2>6
<1>6. CASE SettleCleared(q)
    <2> DEFINE x == [rows[i] EXCEPT !.gen = Settled(@)]
    <2>1. reg[q].pc = "settle" /\ rows' = [rows EXCEPT ![i] = x] /\ RegGoto(q, "free")
        BY <1>6 DEF SettleCleared, RegAt, SetRow, Row
    <2>2. x \in RowType /\ x.state = rows[i].state /\ x.gen = Settled(rows[i].gen) /\ x.who = rows[i].who
        BY <1>c, <1>d, Generations DEF RowType
    <2>3. ~Odd(x.gen) /\ rows[i].gen < x.gen /\ x.gen \in Nat
        BY <1>d, <2>2, Generations
    <2> HIDE DEF x
    <2>4. x.state = "Reclaiming" /\ x.who = NoProc
        BY <1>c, <2>1, <2>2 DEF WriterScene
    <2>5. RowShape(x) /\ \A r \in RegType : r.pc = "free" => WriterScene(q, r, x)
        BY <2>3, <2>4 DEF RowShape, WriterScene
    <2>6. rows[i].gen =< x.gen /\ x.gen # rows[i].gen
        BY <1>d, <2>3
    <2>7. "free" \in Writing /\ x.state # "Active" /\ "free" \in SweepPCs /\ "free" \in FreeingPCs
        BY <1>p, <1>s, <2>4
    <2> HIDE DEF i
    <2> QED
        BY <1>h, <2>1, <2>2, <2>5, <2>6, <2>7
<1> QED
    BY <1>1, <1>2, <1>3, <1>4, <1>5, <1>6

\* Returned keeps the call, its row, its role and what it lists.
LEMMA ReturnedCall ==
    ASSUME NEW r \in RegType
    PROVE  /\ Returned(r) \in RegType /\ Returned(r).pc = "done" /\ Returned(r).call = r.call
           /\ Returned(r).row = r.row /\ Returned(r).role = r.role /\ Returned(r).listed = r.listed
<1>1. "done" \in RegPCs /\ NoProc \in Owners /\ Nobody \in WhatType /\ 0 \in Nat
    BY DEF RegPCs, Owners, Nobody, WhatType, RoleSet
<1> QED
    BY <1>1 DEF Returned, RegType

\* The walk of a sweep stays in the table, and ends without a row.
LEMMA SweptRow ==
    ASSUME RegTyped, NEW r \in RegType, r.row \in Rows, NEW s, s = AfterSweptRow(r)
    PROVE  /\ s \in RegType /\ s.call = r.call /\ s.role = r.role /\ s.listed = r.listed
           /\ s.row \in 0..Len(rows) /\ s.pc \in {"sweep", "claim", "done"}
           /\ s.pc = "claim" => r.call = "register"
           /\ s.pc = "done" <=> s.row = NoRow
<1>1. Rows = 1..Len(rows) /\ Len(rows) \in Nat /\ Len(rows) > 0
    BY Table DEF RegTyped
<1>2. "sweep" \in RegPCs /\ "claim" \in RegPCs
    BY DEF RegPCs, SweepPCs, ClaimPCs
<1>3. CASE r.row < Len(rows)
    <2>1. s = [r EXCEPT !.row = r.row + 1, !.pc = "sweep"] /\ r.row + 1 \in Nat
        BY <1>1, <1>3 DEF AfterSweptRow
    <2>2. /\ s \in RegType /\ s.call = r.call /\ s.role = r.role /\ s.listed = r.listed
          /\ s.row = r.row + 1 /\ s.pc = "sweep"
        BY <1>2, <2>1 DEF RegType
    <2> QED
        BY <1>1, <1>3, <2>2 DEF NoRow
<1>4. CASE ~(r.row < Len(rows)) /\ r.call = "register" /\ r.freed
    <2>1. s = [r EXCEPT !.row = 1, !.pc = "claim"]
        BY <1>4 DEF AfterSweptRow
    <2>2. /\ s \in RegType /\ s.call = r.call /\ s.role = r.role /\ s.listed = r.listed
          /\ s.row = 1 /\ s.pc = "claim"
        <3>1. 1 \in Nat
            OBVIOUS
        <3> QED
            BY <1>2, <2>1, <3>1 DEF RegType
    <2> QED
        BY <1>1, <1>4, <2>2 DEF NoRow
<1>5. CASE ~(r.row < Len(rows)) /\ ~(r.call = "register" /\ r.freed)
    <2> DEFINE t == [r EXCEPT !.row = NoRow]
    <2>1. s = Returned(t)
        BY <1>5 DEF AfterSweptRow
    <2>2. t \in RegType /\ t.call = r.call /\ t.role = r.role /\ t.listed = r.listed /\ t.row = NoRow
        BY DEF RegType, NoRow
    <2> HIDE DEF t
    <2>3. /\ s \in RegType /\ s.call = r.call /\ s.role = r.role /\ s.listed = r.listed
          /\ s.row = NoRow /\ s.pc = "done"
        BY <2>1, <2>2, ReturnedCall
    <2> QED
        BY <1>1, <2>3 DEF NoRow
<1> QED
    BY <1>3, <1>4, <1>5

\* The last store of a writer: it returns, or walks on without the row.
LEMMA WriterLetsGo ==
    ASSUME RegistryInv, NEW q \in Procs, OnlyRegistry, PublishRow(q) \/ PublishFree(q) \/ StoreReclaiming(q)
    PROVE  RegistryInv'
<1> DEFINE i == reg[q].row
<1>a. UNCHANGED <<alive, node, left>> /\ alive[q] /\ reg[q].pc \in Writing
    BY DEF OnlyRegistry, PublishRow, PublishFree, StoreReclaiming, RegAt, Writing
<1>b. /\ i \in Rows /\ rows[i] \in RowType /\ RowShape(rows[i]) /\ WriterScene(q, reg[q], rows[i])
      /\ reg[q] \in RegType /\ RegPlaced(reg[q]) /\ Calling(q, node[q], reg[q])
      /\ \A p \in Procs \ {q} : alive[p] /\ reg[p].pc \in Writing => reg[p].row # i
      /\ \A p \in Procs : \A m \in Standing(node[p]) : alive[p] => node[p].slot[m].row # i
      /\ \A p \in Procs \ {q} : alive[p] /\ Handling(reg[p]) => reg[p].row # i
    BY <1>a, WriterAlone
<1>c. RegTyped /\ reg \in [Procs -> RegType]
    BY DEF RegistryInv, RegTyped
<1>d. /\ rows[i].gen \in Nat /\ rows[i].who \in Owners /\ rows[i].what \in WhatType
      /\ rows[i].state \in {"Free", "Claiming", "Active", "Reclaiming"}
    BY <1>b DEF RowType
<1>e. /\ reg[q].call \in {"none", "register", "deregister", "sweep", "snapshot"}
      /\ reg[q].row \in 0..Len(rows) /\ i # NoRow
    <2>1. reg[q].call \in {"none", "register", "deregister", "sweep", "snapshot"}
        BY <1>b DEF RegType
    <2>2. reg[q].row \in 0..Len(rows)
        BY <1>b DEF RegPlaced
    <2> QED
        BY <1>a, <1>b, <2>1, <2>2, PlacedOpen
<1>f. /\ reg[q].pc = "publish" => reg[q].call = "register"
      /\ reg[q].pc = "free" => reg[q].call \in {"register", "sweep", "deregister"}
      /\ reg[q].pc = "reclaim" => reg[q].call \in {"register", "sweep"}
    <2>1. "free" \in FreeingPCs /\ "reclaim" \in SweepPCs \ FreeingPCs
        BY DEF FreeingPCs, SweepPCs
    <2> QED
        BY <1>b, <1>e, <2>1, PlacedOpen
<1>h. ASSUME NEW x \in RowType, NEW s \in RegType, rows' = [rows EXCEPT ![i] = x], reg' = [reg EXCEPT ![q] = s],
             RowShape(x), rows[i].gen =< x.gen, x.gen = rows[i].gen => x.who = rows[i].who /\ x.what = rows[i].what,
             s.call = reg[q].call, s.role = reg[q].role, s.listed = reg[q].listed,
             s.row \in 0..Len(rows), s.pc # "done" \/ s.call = "deregister" => s.row # NoRow,
             s.pc \in {"done", "clear", "sweep", "claim"}, s.pc = "claim" => s.call = "register",
             s.pc = "clear" => s.row = i /\ WriterScene(q, s, x),
             s.call = "deregister" => s.pc = "done",
             s.call \in {"register", "sweep", "deregister"},
             s.call = "register" /\ s.pc = "done" /\ s.row # NoRow => s.row = i /\ Owned(q, x, s.role),
             x.state = "Active" => x.who = q /\ s.call = "register" /\ s.pc = "done" /\ s.row = i
      PROVE  RegistryInv'
    <2> HIDE DEF i
    <2>1. /\ reg' \in [Procs -> RegType] /\ reg'[q] = s /\ \A p \in Procs \ {q} : reg'[p] = reg[p]
        BY <1>c, <1>h
    <2>2. Len(rows') = Len(rows)
        BY <1>b, <1>c, <1>h, PutRow
    <2>3. RegPlaced(reg[q])'
        BY <1>h, <2>1, <2>2, SMTT(30) DEF RegPlaced, ClaimPCs, SweepPCs, FreeingPCs
    <2>4. Calling(q, node[q], reg'[q])
        BY <1>b, <1>h, <2>1 DEF Calling
    <2>5. s.pc \notin ReaderPCs \cup {"snap_end"} /\ (s.pc \in Writing => s.pc = "clear")
        BY <1>h DEF ReaderPCs, Writing
    <2>6. Handling(s) => s.pc = "done" /\ s.call = "register" /\ s.row # NoRow
        BY <1>h DEF Handling
    <2>7. x.state = "Active" => x.who = q /\ s.row = i /\ Handling(s)
        BY <1>e, <1>h DEF Handling
    <2>8. /\ reg[q].row = i
          /\ x.gen = rows[i].gen /\ ~Odd(rows[i].gen) => x.who = rows[i].who /\ x.what = rows[i].what
        BY <1>h DEF i
    <2>9. reg'[q].pc \in Writing => reg'[q].row = i /\ WriterScene(q, reg'[q], x)
        BY <1>h, <2>1, <2>5
    <2>10. /\ reg'[q].pc \notin ReaderPCs \cup {"snap_end"} /\ reg'[q].listed = reg[q].listed
           /\ Handling(reg'[q]) => reg'[q].pc = "done" /\ reg'[q].row = i /\ Owned(q, x, reg'[q].role)
        BY <1>h, <2>1, <2>5, <2>6
    <2>11. x.state = "Active" /\ x.who \in Procs /\ alive[x.who] =>
               x.who = q /\ reg'[q].row = i /\ (reg'[q].pc = "publish" \/ Handling(reg'[q]))
        BY <2>1, <2>7
    <2>12. /\ x \in RowType /\ rows' = [rows EXCEPT ![i] = x] /\ RowShape(x) /\ rows[i].gen =< x.gen
           /\ i \in Rows /\ RegistryInv /\ q \in Procs /\ alive[q] /\ UNCHANGED <<alive, node, left>>
        BY <1>a, <1>b, <1>h
    <2>13. /\ \A p \in Procs \ {q} : alive[p] /\ reg[p].pc \in Writing => reg[p].row # i
           /\ \A p \in Procs : \A m \in Standing(node[p]) : alive[p] => node[p].slot[m].row # i
           /\ \A p \in Procs \ {q} : alive[p] /\ Handling(reg[p]) => reg[p].row # i
        BY <1>b
    <2>14. reg' \in [Procs -> RegType] /\ \A p \in Procs \ {q} : reg'[p] = reg[p]
        BY <2>1
    <2>15. RowFits(q, i, x)
        BY <2>3, <2>4, <2>8, <2>9, <2>10, <2>11, <2>12, <2>13, <2>14, Zenon DEF RowFits
    <2> QED
        BY <2>12, <2>15, RowStep
<1>1. CASE PublishRow(q)
    <2> DEFINE x == [rows[i] EXCEPT !.gen = Settled(@)]
               s == Returned(reg[q])
    <2>1. reg[q].pc = "publish" /\ rows' = [rows EXCEPT ![i] = x] /\ reg' = [reg EXCEPT ![q] = s]
        BY <1>1, <1>c DEF PublishRow, RegAt, SetRow, Row
    <2>2. /\ x \in RowType /\ x.state = rows[i].state /\ x.gen = Settled(rows[i].gen) /\ x.who = rows[i].who
          /\ x.what = rows[i].what
        BY <1>b, <1>d, Generations DEF RowType
    <2>3. ~Odd(x.gen) /\ rows[i].gen < x.gen /\ x.gen \in Nat
        BY <1>d, <2>2, Generations
    <2>4. /\ s \in RegType /\ s.pc = "done" /\ s.call = "register" /\ s.call = reg[q].call /\ s.row = i
          /\ s.role = reg[q].role /\ s.listed = reg[q].listed
        BY <1>b, <1>f, <2>1, ReturnedCall
    <2> HIDE DEF x, s
    <2>5. x.state = "Active" /\ x.who = q /\ x.what = [by |-> q, role |-> s.role]
        BY <1>b, <2>1, <2>2, <2>4 DEF WriterScene
    <2>6. RowShape(x) /\ Owned(q, x, s.role)
        BY <2>3, <2>5 DEF RowShape, Owned
    <2>7. rows[i].gen =< x.gen /\ x.gen # rows[i].gen
        BY <1>d, <2>3
    <2> HIDE DEF i
    <2>8. s.row \in 0..Len(rows) /\ i # NoRow
        BY <1>e, <2>4 DEF i
    <2> QED
        BY <1>h, <2>1, <2>2, <2>4, <2>5, <2>6, <2>7, <2>8
<1>2. CASE PublishFree(q)
    <2> DEFINE x == [rows[i] EXCEPT !.state = "Free"]
               t == [reg[q] EXCEPT !.freed = TRUE]
               s == IF reg[q].call = "deregister" THEN Returned(reg[q]) ELSE AfterSweptRow(t)
    <2>0. reg[q].pc = "free"
        BY <1>2 DEF PublishFree, RegAt
    <2>1. rows[i].state = "Reclaiming" /\ ~Odd(rows[i].gen) /\ rows[i].who = NoProc
        BY <1>b, <2>0 DEF WriterScene
    <2>2. rows' = [rows EXCEPT ![i] = x] /\ reg' = [reg EXCEPT ![q] = s]
        BY <1>2, <1>c, <2>1 DEF PublishFree, SetRow, Row
    <2>3. /\ x \in RowType /\ x.state = "Free" /\ x.gen = rows[i].gen /\ x.who = rows[i].who /\ x.what = rows[i].what
        BY <1>b DEF RowType
    <2>4. /\ t \in RegType /\ t.call = reg[q].call /\ t.row = i /\ t.role = reg[q].role /\ t.listed = reg[q].listed
        BY <1>b DEF RegType
    <2> HIDE DEF x, t
    <2>5. RowShape(x) /\ rows[i].gen =< x.gen
        BY <1>d, <2>1, <2>3 DEF RowShape
    <2>6. CASE reg[q].call = "deregister"
        <3>1. /\ s \in RegType /\ s.pc = "done" /\ s.call = "deregister" /\ s.call = reg[q].call /\ s.row = i
              /\ s.role = reg[q].role /\ s.listed = reg[q].listed
            BY <1>b, <2>6, ReturnedCall
        <3> HIDE DEF s, i
        <3>2. s.row \in 0..Len(rows) /\ i # NoRow
            BY <1>e, <3>1 DEF i
        <3> QED
            BY <1>h, <2>2, <2>3, <2>5, <3>1, <3>2
    <2>7. CASE reg[q].call # "deregister"
        <3>1. /\ s \in RegType /\ s.call = reg[q].call /\ s.role = reg[q].role /\ s.listed = reg[q].listed
              /\ s.row \in 0..Len(rows) /\ s.pc \in {"sweep", "claim", "done"}
              /\ s.pc = "claim" => s.call = "register"
              /\ s.pc = "done" <=> s.row = NoRow
            BY <1>b, <1>c, <2>4, <2>7, SweptRow
        <3>2. s.call \in {"register", "sweep"}
            BY <1>f, <2>0, <2>7, <3>1
        <3> HIDE DEF s, i
        <3> QED
            BY <1>h, <2>2, <2>3, <2>5, <3>1, <3>2
    <2> QED
        BY <2>6, <2>7
<1>3. CASE StoreReclaiming(q)
    <2> DEFINE x == [rows[i] EXCEPT !.state = "Reclaiming"]
               s == [reg[q] EXCEPT !.pc = "clear", !.gen = 0, !.who = NoProc]
    <2>1. reg[q].pc = "reclaim" /\ rows' = [rows EXCEPT ![i] = x] /\ reg' = [reg EXCEPT ![q] = s]
        BY <1>3, <1>c DEF StoreReclaiming, RegAt, SetRow, Row
    <2>2. /\ x \in RowType /\ x.state = "Reclaiming" /\ x.gen = rows[i].gen /\ x.who = rows[i].who
          /\ x.what = rows[i].what
        BY <1>b DEF RowType
    <2>3. "clear" \in RegPCs /\ NoProc \in Owners
        BY DEF RegPCs, SweepPCs, FreeingPCs, Owners
    <2>4. /\ s \in RegType /\ s.pc = "clear" /\ s.call = reg[q].call /\ s.row = i
          /\ s.role = reg[q].role /\ s.listed = reg[q].listed
        BY <1>b, <2>3 DEF RegType
    <2> HIDE DEF x, s
    <2>5. Odd(rows[i].gen) /\ reg[q].call \in {"register", "sweep"}
        BY <1>b, <1>f, <2>1 DEF WriterScene
    <2>6. RowShape(x) /\ WriterScene(q, s, x)
        BY <2>2, <2>4, <2>5 DEF RowShape, WriterScene
    <2>7. rows[i].gen =< x.gen
        BY <1>d, <2>2
    <2> HIDE DEF i
    <2>8. s.row \in 0..Len(rows) /\ i # NoRow
        BY <1>e, <2>4 DEF i
    <2> QED
        BY <1>h, <2>1, <2>2, <2>4, <2>5, <2>6, <2>7, <2>8
<1> QED
    BY <1>1, <1>2, <1>3

\* A row nobody writes and nobody counts as its own comes into q's hands.
LEMMA TakesRow ==
    ASSUME RegistryInv, NEW q \in Procs, alive[q], UNCHANGED <<alive, node, left>>,
           NEW i \in Rows, i = reg[q].row, NEW x \in RowType, rows' = [rows EXCEPT ![i] = x],
           NEW pc \in {"open", "reclaim"}, RegGoto(q, pc), RowShape(x), rows[i].gen =< x.gen,
           x.gen = rows[i].gen => x.who = rows[i].who /\ x.what = rows[i].what,
           \A p \in Procs \ {q} : alive[p] /\ reg[p].pc \in Writing => reg[p].row # i,
           \A p \in Procs : \A m \in Standing(node[p]) : alive[p] => node[p].slot[m].row # i,
           \A p \in Procs \ {q} : alive[p] /\ Handling(reg[p]) => reg[p].row # i,
           \A r \in RegType : r.pc = pc /\ r.call = reg[q].call => WriterScene(q, r, x),
           ~(x.state = "Active" /\ x.who \in Procs /\ alive[x.who]),
           pc = "open" => reg[q].call \in {"register", "deregister"},
           pc = "reclaim" => reg[q].call \in {"register", "sweep"}
    PROVE  RegistryInv'
<1>1. RegTyped /\ reg \in [Procs -> RegType] /\ Calling(q, node[q], reg[q]) /\ RegPlaced(reg[q])
    BY DEF RegistryInv, RegTyped
<1>2. Len(rows') = Len(rows)
    BY <1>1, PutRow
<1>3. /\ reg' = [reg EXCEPT ![q] = [reg[q] EXCEPT !.pc = pc]] /\ reg[q] \in RegType /\ pc \in RegPCs
      /\ pc \in Writing /\ pc \notin {"idle", "done", "retire", "snap_end"} \cup ReaderPCs
    BY <1>1 DEF RegGoto, Writing, RegPCs, ClaimPCs, SweepPCs, ReaderPCs
<1>4. [reg[q] EXCEPT !.pc = pc] \in RegType
    BY <1>3 DEF RegType
<1>5. /\ reg' \in [Procs -> RegType] /\ \A p \in Procs \ {q} : reg'[p] = reg[p]
      /\ reg'[q] \in RegType /\ reg'[q].pc = pc /\ reg'[q].call = reg[q].call /\ reg'[q].role = reg[q].role
      /\ reg'[q].row = i /\ reg'[q].listed = reg[q].listed
    BY <1>1, <1>3, <1>4 DEF RegType
<1>6. ~Handling(reg'[q]) /\ reg'[q].pc \notin ReaderPCs \cup {"snap_end"}
    BY <1>3, <1>5 DEF Handling
<1>7. RegPlaced(reg[q])'
    <2>1. i # NoRow /\ i \in 0..Len(rows)
        BY <1>1, Table, SMTT(30)
    <2> QED
        BY <1>2, <1>5, <2>1 DEF RegPlaced, ClaimPCs, SweepPCs
<1>8. Calling(q, node[q], reg'[q])
    BY <1>1, <1>5 DEF Calling
<1>9. reg'[q].pc \in Writing => reg'[q].row = i /\ WriterScene(q, reg'[q], x)
    BY <1>5
<1>10. x.gen = rows[i].gen /\ ~Odd(rows[i].gen) => x.who = rows[i].who /\ x.what = rows[i].what
    OBVIOUS
<1>11. RowFits(q, i, x)
    BY <1>5, <1>6, <1>7, <1>8, <1>9, <1>10, Zenon DEF RowFits
<1> QED
    BY <1>11, RowStep

\* The CAS that takes a free row, one's own row or that of a dead owner.
LEMMA RowIsTaken ==
    ASSUME RegistryInv, NEW q \in Procs, OnlyRegistry,
           \/ ClaimRow(q)
           \/ RetireRow(q)
           \/ AcquireTenancy(q) /\ OwnerIsDead(reg[q].who) /\ Acquirable(q)
    PROVE  RegistryInv'
<1> DEFINE i == reg[q].row
<1>0. /\ RegTyped /\ WritersAreAlone /\ WriterScenes /\ ReaderScenes /\ OwnersHold
      /\ \A p \in Procs : RegPlaced(reg[p]) /\ Calling(p, node[p], reg[p])
      /\ \A j \in Rows : RowShape(rows[j])
    BY DEF RegistryInv
<1>a. UNCHANGED <<alive, node, left>> /\ alive[q] /\ reg[q].pc \in {"claim", "retire", "acquire"}
    BY DEF OnlyRegistry, ClaimRow, RetireRow, AcquireTenancy, RegAt
<1>b. \A p \in Procs : reg[p] \in RegType /\ reg[p].call \in {"none", "register", "deregister", "sweep", "snapshot"}
    BY <1>0, Zenon DEF RegTyped, RegType
<1>c. i \in Rows /\ rows[i] \in RowType /\ RowShape(rows[i])
    <2>1. i # NoRow /\ i \in 0..Len(rows)
        BY <1>0, <1>a DEF RegPlaced
    <2> QED
        BY <1>0, <2>1, Table
<1>d. /\ rows[i].gen \in Nat /\ rows[i].who \in Owners /\ rows[i].what \in WhatType
      /\ rows[i].state \in {"Free", "Claiming", "Active", "Reclaiming"}
    BY <1>c DEF RowType
<1>e. /\ reg[q].pc = "claim" => reg[q].call = "register"
      /\ reg[q].pc = "retire" => reg[q].call = "deregister"
      /\ reg[q].pc = "acquire" => reg[q].call \in {"register", "sweep"}
    <2>1. "acquire" \in SweepPCs \ FreeingPCs
        BY DEF FreeingPCs, SweepPCs
    <2> QED
        BY <1>0, <1>b, <2>1, PlacedOpen
<1>f. \A p \in Procs : alive[p] /\ reg[p].pc \in Writing /\ reg[p].row = i =>
          /\ rows[i].state # "Free"
          /\ ~(rows[i].state = "Active" /\ ~Odd(rows[i].gen))
          /\ ~Odd(rows[i].gen) => rows[i].who \in {p, NoProc}
    <2> SUFFICES ASSUME NEW p \in Procs, alive[p], reg[p].pc \in Writing, reg[p].row = i
                 PROVE  /\ rows[i].state # "Free"
                        /\ ~(rows[i].state = "Active" /\ ~Odd(rows[i].gen))
                        /\ ~Odd(rows[i].gen) => rows[i].who \in {p, NoProc}
        OBVIOUS
    <2>1. WriterScene(p, reg[p], rows[i])
        BY <1>0 DEF WriterScenes
    <2>2. reg[p].pc = "open" => reg[p].call \in {"register", "deregister"}
        BY <1>0, <1>b, PlacedOpen
    <2> QED
        BY <1>c, <2>1, <2>2, SceneOfWriter
<1>g. ASSUME NEW p \in Procs, alive[p],
             \/ \E m \in Standing(node[p]) : node[p].slot[m].row = i
             \/ Handling(reg[p]) /\ reg[p].row = i
      PROVE  rows[i].state = "Active" /\ ~Odd(rows[i].gen) /\ rows[i].who = p
    <2>1. \E role : Owned(p, rows[i], role)
        BY <1>0, <1>g DEF OwnersHold
    <2> QED
        BY <2>1 DEF Owned
<1>1. CASE ClaimRow(q)
    <2> DEFINE x == [rows[i] EXCEPT !.state = "Claiming"]
    <2>1. /\ reg[q].pc = "claim" /\ rows' = [rows EXCEPT ![i] = x] /\ RegGoto(q, "open")
          /\ rows[i].state = "Free"
        BY <1>1 DEF ClaimRow, RegAt, SetRow, Row
    <2>2. /\ x \in RowType /\ x.state = "Claiming" /\ x.gen = rows[i].gen /\ x.who = rows[i].who
          /\ x.what = rows[i].what
        BY <1>c DEF RowType
    <2> HIDE DEF x
    <2>3. ~Odd(x.gen) /\ RowShape(x)
        BY <1>c, <2>1, <2>2 DEF RowShape
    <2>4. \A r \in RegType : r.pc = "open" /\ r.call = reg[q].call => WriterScene(q, r, x)
        BY <1>e, <2>1, <2>2, <2>3 DEF WriterScene
    <2>5. /\ \A p \in Procs \ {q} : alive[p] /\ reg[p].pc \in Writing => reg[p].row # i
          /\ \A p \in Procs : \A m \in Standing(node[p]) : alive[p] => node[p].slot[m].row # i
          /\ \A p \in Procs \ {q} : alive[p] /\ Handling(reg[p]) => reg[p].row # i
        BY <1>f, <1>g, <2>1
    <2>6. /\ rows[i].gen =< x.gen /\ x.state # "Active"
          /\ "open" \in {"open", "reclaim"} /\ reg[q].call \in {"register", "deregister"}
          /\ ~("open" = "reclaim")
        BY <1>d, <1>e, <2>1, <2>2
    <2>7. i = reg[q].row
        OBVIOUS
    <2> HIDE DEF i
    <2> QED
        BY <1>a, <1>c, <2>1, <2>2, <2>3, <2>4, <2>5, <2>6, <2>7, TakesRow, Zenon
<1>2. CASE RetireRow(q)
    <2> DEFINE x == [rows[i] EXCEPT !.state = "Reclaiming"]
    <2>0. reg[q].pc = "retire" /\ Handling(reg[q])
        BY <1>2 DEF RetireRow, RegAt, Handling
    <2>1. rows[i].state = "Active" /\ ~Odd(rows[i].gen) /\ rows[i].who = q
        BY <1>a, <1>g, <2>0
    <2>2. rows' = [rows EXCEPT ![i] = x] /\ RegGoto(q, "open")
        BY <1>2, <2>1 DEF RetireRow, SetRow, Row
    <2>3. /\ x \in RowType /\ x.state = "Reclaiming" /\ x.gen = rows[i].gen /\ x.who = rows[i].who
          /\ x.what = rows[i].what
        BY <1>c DEF RowType
    <2> HIDE DEF x
    <2>4. ~Odd(x.gen) /\ RowShape(x) /\ x.who = q
        BY <1>c, <2>1, <2>3 DEF RowShape
    <2>5. \A r \in RegType : r.pc = "open" /\ r.call = reg[q].call => WriterScene(q, r, x)
        BY <1>e, <2>0, <2>3, <2>4 DEF WriterScene
    <2>6. /\ \A p \in Procs \ {q} : alive[p] /\ reg[p].pc \in Writing => reg[p].row # i
          /\ \A p \in Procs \ {q} : alive[p] /\ Handling(reg[p]) => reg[p].row # i
        BY <1>f, <1>g, <2>1
    <2>7. \A p \in Procs : \A m \in Standing(node[p]) : alive[p] => node[p].slot[m].row # i
        <3>1. \A m \in Standing(node[q]) : node[q].slot[m].row # i
            BY <1>0, <1>a, <2>0 DEF OwnersHold
        <3>2. \A p \in Procs \ {q} : \A m \in Standing(node[p]) : alive[p] => node[p].slot[m].row # i
            BY <1>g, <2>1
        <3> QED
            BY <3>1, <3>2
    <2>8. /\ rows[i].gen =< x.gen /\ x.state # "Active"
          /\ "open" \in {"open", "reclaim"} /\ reg[q].call \in {"register", "deregister"}
          /\ ~("open" = "reclaim")
        BY <1>d, <1>e, <2>0, <2>3
    <2>9. i = reg[q].row
        OBVIOUS
    <2> HIDE DEF i
    <2> QED
        BY <1>a, <1>c, <2>2, <2>3, <2>4, <2>5, <2>6, <2>7, <2>8, <2>9, TakesRow, ZenonT(40)
<1>3. CASE AcquireTenancy(q) /\ OwnerIsDead(reg[q].who) /\ Acquirable(q)
    <2> DEFINE x == [rows[i] EXCEPT !.gen = reg[q].gen + 1]
    <2>0. /\ reg[q].pc = "acquire" /\ rows[i].gen = reg[q].gen
          /\ rows' = [rows EXCEPT ![i] = x] /\ RegGoto(q, "reclaim")
        BY <1>3 DEF AcquireTenancy, RegAt, Acquirable, SetRow, Row
    <2>1. ~Odd(rows[i].gen) /\ rows[i].who = reg[q].who
        <3>1. i # NoRow
            BY <1>0, <1>c, Table
        <3> QED
            BY <1>0, <2>0, <3>1 DEF ReaderScenes, ReaderScene
    <2>2. rows[i].who # NoProc /\ ~alive[rows[i].who]
        BY <1>3, <2>1 DEF OwnerIsDead
    <2>3. /\ x \in RowType /\ x.state = rows[i].state /\ x.gen = rows[i].gen + 1 /\ x.who = rows[i].who
        <3>1. rows[i].gen + 1 \in Nat
            BY <1>d
        <3> QED
            BY <1>c, <2>0, <3>1 DEF RowType
    <2> HIDE DEF x
    <2>4. rows[i].gen =< x.gen /\ x.gen # rows[i].gen
        BY <1>d, <2>3
    <2>5. Odd(x.gen)
        BY <1>d, <2>1, <2>3, Generations
    <2>6. RowShape(x) /\ x.state \in {"Active", "Reclaiming"}
        BY <1>c, <1>d, <2>1, <2>2, <2>3, <2>5 DEF RowShape
    <2>7. \A r \in RegType : r.pc = "reclaim" => WriterScene(q, r, x)
        BY <2>2, <2>3, <2>5, <2>6 DEF WriterScene, OwnerIsDead
    <2>8. /\ \A p \in Procs \ {q} : alive[p] /\ reg[p].pc \in Writing => reg[p].row # i
          /\ \A p \in Procs : \A m \in Standing(node[p]) : alive[p] => node[p].slot[m].row # i
          /\ \A p \in Procs \ {q} : alive[p] /\ Handling(reg[p]) => reg[p].row # i
        BY <1>f, <1>g, <2>1, <2>2
    <2>9. /\ ~(x.state = "Active" /\ x.who \in Procs /\ alive[x.who]) /\ i = reg[q].row
          /\ "reclaim" \in {"open", "reclaim"} /\ reg[q].call \in {"register", "sweep"}
          /\ ~("reclaim" = "open")
        BY <1>e, <2>0, <2>2, <2>3
    <2> HIDE DEF i
    <2> QED
        BY <1>a, <1>c, <2>0, <2>3, <2>4, <2>6, <2>7, <2>8, <2>9, TakesRow, Zenon
<1> QED
    BY <1>1, <1>2, <1>3

\* The walk of a snapshot stays in the table.
LEMMA SnappedRow ==
    ASSUME RegTyped, NEW r \in RegType, r.row \in Rows, NEW s, s = NextRow(r)
    PROVE  /\ s \in RegType /\ s.call = r.call /\ s.role = r.role /\ s.listed = r.listed
           /\ s.row \in Rows /\ s.pc \in {"snap", "done"}
<1> DEFINE q == [r EXCEPT !.gen = 0, !.who = NoProc, !.what = Nobody]
<1>1. Rows = 1..Len(rows) /\ Len(rows) \in Nat
    BY Table
<1>2. "snap" \in RegPCs /\ NoProc \in Owners /\ Nobody \in WhatType /\ 0 \in Nat
    BY DEF RegPCs, SnapPCs, Owners, Nobody, WhatType, RoleSet
<1>3. q \in RegType /\ q.call = r.call /\ q.role = r.role /\ q.listed = r.listed /\ q.row = r.row
    BY <1>2 DEF RegType
<1>4. s = IF r.row < Len(rows) THEN [q EXCEPT !.row = q.row + 1, !.pc = "snap"] ELSE Returned(q)
    BY <1>3 DEF NextRow
<1> HIDE DEF q
<1>5. CASE r.row < Len(rows)
    <2>1. s = [q EXCEPT !.row = q.row + 1, !.pc = "snap"] /\ q.row + 1 \in Nat /\ q.row + 1 \in Rows
        BY <1>1, <1>3, <1>4, <1>5
    <2>2. /\ s \in RegType /\ s.call = q.call /\ s.role = q.role /\ s.listed = q.listed
          /\ s.row = q.row + 1 /\ s.pc = "snap"
        BY <1>2, <1>3, <2>1 DEF RegType
    <2> QED
        BY <1>3, <2>1, <2>2
<1>6. CASE ~(r.row < Len(rows))
    BY <1>3, <1>4, <1>6, ReturnedCall
<1> QED
    BY <1>5, <1>6

\* The steps of the walks through the table, which store nothing there.
LEMMA WalkGoesOn ==
    ASSUME RegistryInv, NEW q \in Procs, OnlyRegistry,
           \/ SkipRow(q) \/ SweepState(q) \/ SweepGeneration(q) \/ SweepIdentity(q)
           \/ AcquireTenancy(q) /\ ~(OwnerIsDead(reg[q].who) /\ Acquirable(q))
           \/ SnapState(q) \/ SnapGeneration(q) \/ SnapIdentity(q) \/ SnapFields(q)
           \/ SnapRecheck(q) \/ SnapEnd(q)
    PROVE  RegistryInv'
<1> DEFINE i == reg[q].row
<1>0. /\ RegTyped /\ ReaderScenes /\ Copies
      /\ \A p \in Procs : RegPlaced(reg[p]) /\ Calling(p, node[p], reg[p])
      /\ \A j \in Rows : RowShape(rows[j])
    BY DEF RegistryInv
<1>a. reg[q].pc \in {"claim", "sweep", "sweep_gen", "sweep_pid", "acquire"} \cup SnapPCs
    BY DEF SkipRow, SweepState, SweepGeneration, SweepIdentity, AcquireTenancy, SnapState, SnapGeneration,
           SnapIdentity, SnapFields, SnapRecheck, SnapEnd, RegAt, SnapPCs
<1>b. UNCHANGED <<alive, node, left, rows>>
    BY DEF OnlyRegistry, SkipRow, SweepState, SweepGeneration, SweepIdentity, AcquireTenancy, SnapState,
           SnapGeneration, SnapIdentity, SnapFields, SnapRecheck, SnapEnd
<1>c. reg[q] \in RegType /\ reg \in [Procs -> RegType]
    BY <1>0 DEF RegTyped
<1>d. /\ reg[q].call \in {"none", "register", "deregister", "sweep", "snapshot"}
      /\ reg[q].pc \in SnapPCs => reg[q].call = "snapshot"
      /\ reg[q].pc = "claim" => reg[q].call = "register"
      /\ reg[q].pc \in {"sweep", "sweep_gen", "sweep_pid", "acquire"} => reg[q].call \in {"register", "sweep"}
    <2>1. {"sweep", "sweep_gen", "sweep_pid", "acquire"} \subseteq SweepPCs \ FreeingPCs
        BY DEF FreeingPCs, SweepPCs
    <2>2. reg[q].call \in {"none", "register", "deregister", "sweep", "snapshot"}
        BY <1>c DEF RegType
    <2> QED
        BY <1>0, <2>1, <2>2, PlacedOpen
<1>e. i \in Rows /\ rows[i] \in RowType /\ RowShape(rows[i]) /\ i # NoRow
    <2>1. i # NoRow /\ i \in 0..Len(rows)
        BY <1>0, <1>a DEF RegPlaced, SnapPCs
    <2> QED
        BY <1>0, <2>1, Table
<1>f. rows[i].gen \in Nat /\ rows[i].who \in Owners /\ rows[i].what \in WhatType
    BY <1>e DEF RowType
<1>g. ReaderScene(reg[q], rows[i]) /\ \A v \in reg[q].listed : Coherent(v)
    BY <1>0, <1>e DEF ReaderScenes, Copies
<1>t. /\ Rows = 1..Len(rows) /\ Len(rows) \in Nat /\ 1 \in Rows /\ 0..Len(rows) = Rows \cup {NoRow}
    BY <1>0, Table
<1>h. ASSUME NEW s \in RegType, reg' = [reg EXCEPT ![q] = s], s.call = reg[q].call, s.role = reg[q].role,
             s.row \in 0..Len(rows), s.pc # "done" => s.row # NoRow,
             s.pc \in {"claim", "sweep", "sweep_gen", "sweep_pid", "acquire", "done"} \cup SnapPCs,
             s.pc \in SnapPCs => s.call = "snapshot",
             s.pc = "claim" => s.call = "register",
             s.pc \in {"sweep", "sweep_gen", "sweep_pid", "acquire"} => s.call \in {"register", "sweep"},
             s.call = "register" /\ s.pc = "done" => s.row = NoRow,
             s.row # NoRow => ReaderScene(s, rows[s.row]),
             s.pc = "snap_end" => Coherent(s), \A v \in s.listed : Coherent(v)
      PROVE  RegistryInv'
    <2> HIDE DEF i
    <2>1. reg' \in [Procs -> RegType] /\ reg'[q] = s /\ \A p \in Procs \ {q} : reg'[p] = reg[p]
        BY <1>c, <1>h
    <2>2. s.pc # "retire" /\ s.pc \notin Writing /\ reg[q].pc \notin Writing /\ reg[q].pc \notin {"done", "retire"}
        BY <1>a, <1>h DEF Writing, SnapPCs
    <2>3. ~Handling(s) /\ ~Handling(reg[q])
        BY <1>h, <2>2 DEF Handling
    <2>4. s.call \notin {"none", "deregister"}
        BY <1>a, <1>d, <1>h DEF SnapPCs
    <2>5. RegPlaced(reg[q])'
        BY <1>b, <1>h, <2>1, <2>4, SMTT(30) DEF RegPlaced, ClaimPCs, SweepPCs, SnapPCs
    <2>6. Calling(q, node[q], reg'[q])
        BY <1>0, <1>h, <2>1 DEF Calling
    <2>7. /\ reg'[q].pc \notin Writing /\ ~Handling(reg'[q])
          /\ reg'[q].row # NoRow => ReaderScene(reg'[q], rows[reg'[q].row])
          /\ reg'[q].pc = "snap_end" => Coherent(reg'[q])
          /\ \A v \in reg'[q].listed : Coherent(v)
        BY <1>h, <2>1, <2>2, <2>3
    <2> QED
        BY <1>b, <2>1, <2>2, <2>3, <2>5, <2>6, <2>7, RegStep, Zenon
<1>k. ASSUME NEW s \in RegType, s.pc \notin ReaderPCs PROVE \A x : ReaderScene(s, x)
    BY <1>k DEF ReaderScene, ReaderPCs
<1>u. {"claim", "sweep", "sweep_gen", "done", "snap", "snap_gen", "snap_end"} \cap ReaderPCs = {}
    BY DEF ReaderPCs
<1>w. {"claim", "sweep", "sweep_gen", "sweep_pid", "acquire", "done", "snap", "snap_gen", "snap_pid",
       "snap_fields", "snap_regen", "snap_end"} \subseteq RegPCs
    BY DEF RegPCs, ClaimPCs, SweepPCs, SnapPCs
<1>1. CASE SkipRow(q)
    <2> DEFINE s == IF i < Len(rows) THEN [reg[q] EXCEPT !.row = i + 1]
                    ELSE IF reg[q].tries < Sweeps
                    THEN [reg[q] EXCEPT !.row = 1, !.pc = "sweep", !.tries = reg[q].tries + 1, !.freed = FALSE]
                    ELSE Returned([reg[q] EXCEPT !.row = NoRow])
    <2>1. reg[q].pc = "claim" /\ reg' = [reg EXCEPT ![q] = s]
        BY <1>1 DEF SkipRow, RegAt
    <2>2. /\ s \in RegType /\ s.call = reg[q].call /\ s.role = reg[q].role /\ s.listed = reg[q].listed
          /\ s.row \in 0..Len(rows) /\ s.pc \in {"claim", "sweep", "done"}
          /\ s.pc = "done" <=> s.row = NoRow
        <3>1. CASE i < Len(rows)
            <4>1. s = [reg[q] EXCEPT !.row = i + 1] /\ i + 1 \in Nat /\ i + 1 # NoRow /\ i + 1 \in 0..Len(rows)
                BY <1>e, <1>t, <3>1 DEF NoRow
            <4> HIDE DEF s, i
            <4> QED
                BY <1>c, <2>1, <4>1 DEF RegType
        <3>2. CASE ~(i < Len(rows)) /\ reg[q].tries < Sweeps
            <4>1. s = [reg[q] EXCEPT !.row = 1, !.pc = "sweep", !.tries = reg[q].tries + 1, !.freed = FALSE]
                BY <3>2
            <4>2. 1 \in Nat /\ 1 # NoRow /\ 1 \in 0..Len(rows)
                BY <1>t DEF NoRow
            <4>3. reg[q].tries + 1 \in Nat
                BY <1>c DEF RegType
            <4> HIDE DEF s, i
            <4> QED
                BY <1>c, <1>w, <4>1, <4>2, <4>3 DEF RegType
        <3>3. CASE ~(i < Len(rows)) /\ ~(reg[q].tries < Sweeps)
            <4> DEFINE t == [reg[q] EXCEPT !.row = NoRow]
            <4>1. s = Returned(t)
                BY <3>3
            <4>2. /\ t \in RegType /\ t.call = reg[q].call /\ t.role = reg[q].role /\ t.listed = reg[q].listed
                  /\ t.row = NoRow
                BY <1>c DEF RegType, NoRow
            <4> HIDE DEF s, t
            <4> QED
                BY <1>t, <4>1, <4>2, ReturnedCall
        <3> QED
            BY <3>1, <3>2, <3>3
    <2> HIDE DEF s
    <2>3. \A x : ReaderScene(s, x)
        BY <1>k, <1>u, <2>2
    <2>4. s.pc \notin SnapPCs /\ reg[q].call = "register"
        BY <1>d, <2>1, <2>2 DEF SnapPCs
    <2> HIDE DEF i
    <2> QED
        BY <1>g, <1>h, <2>1, <2>2, <2>3, <2>4
<1>s. ASSUME NEW t \in RegType, t.row = i, t.call = reg[q].call, t.role = reg[q].role, t.listed = reg[q].listed,
             reg[q].pc \in {"sweep", "sweep_gen", "sweep_pid", "acquire"},
             reg' = [reg EXCEPT ![q] = AfterSweptRow(t)]
      PROVE  RegistryInv'
    <2> DEFINE s == AfterSweptRow(t)
    <2>1. /\ s \in RegType /\ s.call = t.call /\ s.role = t.role /\ s.listed = t.listed
          /\ s.row \in 0..Len(rows) /\ s.pc \in {"sweep", "claim", "done"}
          /\ s.pc = "claim" => t.call = "register"
          /\ s.pc = "done" <=> s.row = NoRow
        BY <1>0, <1>e, <1>s, SweptRow
    <2> HIDE DEF s
    <2>2. \A x : ReaderScene(s, x)
        BY <1>k, <1>u, <2>1
    <2>3. s.pc \notin SnapPCs
        BY <2>1 DEF SnapPCs
    <2>4. reg' = [reg EXCEPT ![q] = s]
        BY <1>s DEF s
    <2> HIDE DEF i
    <2> QED
        BY <1>d, <1>g, <1>h, <1>s, <2>1, <2>2, <2>3, <2>4
<1>r. ASSUME reg[q].pc \in {"sweep", "sweep_gen", "sweep_pid", "acquire"}, Skip(q)
      PROVE  RegistryInv'
    <2> DEFINE t == [reg[q] EXCEPT !.gen = 0, !.who = NoProc]
    <2>1. reg' = [reg EXCEPT ![q] = AfterSweptRow(t)]
        BY <1>c, <1>r DEF Skip
    <2>2. /\ t \in RegType /\ t.row = i /\ t.call = reg[q].call /\ t.role = reg[q].role
          /\ t.listed = reg[q].listed
        BY <1>c DEF RegType, Owners
    <2> HIDE DEF t
    <2> QED
        BY <1>r, <1>s, <2>1, <2>2
<1>v. ASSUME NEW s \in RegType, reg' = [reg EXCEPT ![q] = s], s.row = i, s.call = reg[q].call,
             s.role = reg[q].role, s.listed = reg[q].listed, ReaderScene(s, rows[i]),
             \/ /\ s.pc \in {"sweep_gen", "sweep_pid", "acquire"}
                /\ reg[q].pc \in {"sweep", "sweep_gen", "sweep_pid", "acquire"}
             \/ s.pc \in SnapPCs /\ reg[q].pc \in SnapPCs,
             s.pc = "snap_end" => Coherent(s)
      PROVE  RegistryInv'
    <2>1. s.pc \in {"sweep_gen", "sweep_pid", "acquire"} => s.pc \notin SnapPCs /\ s.pc \notin {"done", "claim"}
        BY DEF SnapPCs
    <2>2. s.pc \in SnapPCs => s.pc \notin {"done", "claim", "sweep", "sweep_gen", "sweep_pid", "acquire"}
        BY DEF SnapPCs
    <2>3. s.row \in 0..Len(rows) /\ s.row # NoRow
        BY <1>e, <1>t, <1>v
    <2>4. s.pc \in {"claim", "sweep", "sweep_gen", "sweep_pid", "acquire", "done"} \cup SnapPCs
        BY <1>v
    <2> QED
        BY <1>d, <1>g, <1>h, <1>v, <2>1, <2>2, <2>3, <2>4
<1>2. CASE SweepState(q)
    <2>1. reg[q].pc = "sweep"
        BY <1>2 DEF SweepState, RegAt
    <2>2. CASE Skip(q)
        BY <1>r, <2>1, <2>2
    <2>3. CASE RegGoto(q, "sweep_gen")
        <3> DEFINE s == [reg[q] EXCEPT !.pc = "sweep_gen"]
        <3>1. reg' = [reg EXCEPT ![q] = s]
            BY <1>c, <2>3 DEF RegGoto
        <3>2. /\ s \in RegType /\ s.row = i /\ s.call = reg[q].call /\ s.role = reg[q].role
              /\ s.listed = reg[q].listed /\ s.pc = "sweep_gen"
            BY <1>c, <1>w DEF RegType
        <3> HIDE DEF s
        <3>3. ReaderScene(s, rows[i])
            BY <1>k, <1>u, <3>2
        <3> QED
            BY <1>v, <2>1, <3>1, <3>2, <3>3
    <2> QED
        BY <1>2, <2>2, <2>3 DEF SweepState
<1>3. CASE SweepGeneration(q)
    <2>1. reg[q].pc = "sweep_gen"
        BY <1>3 DEF SweepGeneration, RegAt
    <2>2. CASE Skip(q)
        BY <1>r, <2>1, <2>2
    <2>3. CASE ~Odd(Row(q).gen) /\ reg' = [reg EXCEPT ![q].pc = "sweep_pid", ![q].gen = Row(q).gen]
        <3> DEFINE s == [reg[q] EXCEPT !.pc = "sweep_pid", !.gen = rows[i].gen]
        <3>1. reg' = [reg EXCEPT ![q] = s] /\ ~Odd(rows[i].gen)
            BY <1>c, <2>3 DEF Row
        <3>2. /\ s \in RegType /\ s.row = i /\ s.call = reg[q].call /\ s.role = reg[q].role
              /\ s.listed = reg[q].listed /\ s.pc = "sweep_pid" /\ s.gen = rows[i].gen
            BY <1>c, <1>f, <1>w DEF RegType
        <3> HIDE DEF s
        <3>3. s.gen =< rows[i].gen
            BY <1>f, <3>2
        <3>4. ReaderScene(s, rows[i])
            BY <3>1, <3>2, <3>3 DEF ReaderScene
        <3> QED
            BY <1>v, <2>1, <3>1, <3>2, <3>4
    <2> QED
        BY <1>3, <2>2, <2>3 DEF SweepGeneration
<1>4. CASE SweepIdentity(q)
    <2> DEFINE s == [reg[q] EXCEPT !.pc = "acquire", !.who = rows[i].who]
    <2>1. reg[q].pc = "sweep_pid" /\ reg' = [reg EXCEPT ![q] = s]
        BY <1>4, <1>c DEF SweepIdentity, RegAt, Row
    <2>2. /\ s \in RegType /\ s.row = i /\ s.call = reg[q].call /\ s.role = reg[q].role
          /\ s.listed = reg[q].listed /\ s.pc = "acquire" /\ s.gen = reg[q].gen /\ s.who = rows[i].who
        BY <1>c, <1>f, <1>w DEF RegType
    <2> HIDE DEF s
    <2>3. ReaderScene(s, rows[i])
        BY <1>g, <2>1, <2>2 DEF ReaderScene
    <2> QED
        BY <1>v, <2>1, <2>2, <2>3
<1>5. CASE AcquireTenancy(q) /\ ~(OwnerIsDead(reg[q].who) /\ Acquirable(q))
    BY <1>5, <1>r DEF AcquireTenancy, RegAt
<1>n. ASSUME NEW t \in RegType, t.row = i, t.call = reg[q].call, t.role = reg[q].role,
             \A v \in t.listed : Coherent(v), reg[q].pc \in SnapPCs, reg' = [reg EXCEPT ![q] = NextRow(t)]
      PROVE  RegistryInv'
    <2> DEFINE s == NextRow(t)
    <2>1. /\ s \in RegType /\ s.call = t.call /\ s.role = t.role /\ s.listed = t.listed
          /\ s.row \in Rows /\ s.pc \in {"snap", "done"}
        BY <1>0, <1>e, <1>n, SnappedRow
    <2> HIDE DEF s
    <2>2. \A x : ReaderScene(s, x)
        BY <1>k, <1>u, <2>1
    <2>3. reg' = [reg EXCEPT ![q] = s]
        BY <1>n DEF s
    <2>4. s.row \in 0..Len(rows) /\ s.row # NoRow /\ s.call = "snapshot" /\ s.pc \in {"done"} \cup SnapPCs
        BY <1>0, <1>d, <1>n, <1>t, <2>1, Table DEF SnapPCs
    <2>5. s.pc \notin {"claim", "sweep", "sweep_gen", "sweep_pid", "acquire", "snap_end"} /\ s.call # "register"
        BY <2>1, <2>4
    <2> HIDE DEF i
    <2> QED
        BY <1>h, <1>n, <2>1, <2>2, <2>3, <2>4, <2>5
<1>m. ASSUME reg[q].pc \in SnapPCs, reg' = [reg EXCEPT ![q] = NextRow(reg[q])]
      PROVE  RegistryInv'
    BY <1>c, <1>g, <1>m, <1>n
<1>6. CASE SnapState(q)
    <2> DEFINE s == [reg[q] EXCEPT !.pc = "snap_gen"]
    <2>1. reg[q].pc = "snap" /\ reg[q].pc \in SnapPCs /\ "snap_gen" \in SnapPCs
        BY <1>6 DEF SnapState, RegAt, SnapPCs
    <2>2. reg' = [reg EXCEPT ![q] = NextRow(reg[q])] \/ reg' = [reg EXCEPT ![q] = s]
        BY <1>6, <1>c DEF SnapState
    <2>3. /\ s \in RegType /\ s.row = i /\ s.call = reg[q].call /\ s.role = reg[q].role
          /\ s.listed = reg[q].listed /\ s.pc = "snap_gen"
        BY <1>c, <1>w DEF RegType
    <2> HIDE DEF s
    <2>4. ReaderScene(s, rows[i])
        BY <1>k, <1>u, <2>3
    <2> QED
        BY <1>m, <1>v, <2>1, <2>2, <2>3, <2>4
<1>7. CASE SnapGeneration(q)
    <2> DEFINE s == [reg[q] EXCEPT !.pc = "snap_pid", !.gen = rows[i].gen]
    <2>1. reg[q].pc = "snap_gen" /\ reg[q].pc \in SnapPCs /\ "snap_pid" \in SnapPCs
        BY <1>7 DEF SnapGeneration, RegAt, SnapPCs
    <2>2. \/ reg' = [reg EXCEPT ![q] = NextRow(reg[q])]
          \/ ~Odd(rows[i].gen) /\ reg' = [reg EXCEPT ![q] = s]
        BY <1>7, <1>c DEF SnapGeneration, Row
    <2>3. /\ s \in RegType /\ s.row = i /\ s.call = reg[q].call /\ s.role = reg[q].role
          /\ s.listed = reg[q].listed /\ s.pc = "snap_pid" /\ s.gen = rows[i].gen
        BY <1>c, <1>f, <1>w DEF RegType
    <2> HIDE DEF s
    <2>4. s.gen =< rows[i].gen
        BY <1>f, <2>3
    <2>5. ~Odd(rows[i].gen) => ReaderScene(s, rows[i])
        BY <2>3, <2>4 DEF ReaderScene
    <2> QED
        BY <1>m, <1>v, <2>1, <2>2, <2>3, <2>5
<1>8. CASE SnapIdentity(q)
    <2> DEFINE s == [reg[q] EXCEPT !.pc = "snap_fields", !.who = rows[i].who]
    <2>1. /\ reg[q].pc = "snap_pid" /\ reg[q].pc \in SnapPCs /\ "snap_fields" \in SnapPCs
          /\ reg' = [reg EXCEPT ![q] = s]
        BY <1>8, <1>c DEF SnapIdentity, RegAt, Row, SnapPCs
    <2>2. /\ s \in RegType /\ s.row = i /\ s.call = reg[q].call /\ s.role = reg[q].role
          /\ s.listed = reg[q].listed /\ s.pc = "snap_fields" /\ s.gen = reg[q].gen /\ s.who = rows[i].who
        BY <1>c, <1>f, <1>w DEF RegType
    <2> HIDE DEF s
    <2>3. ReaderScene(s, rows[i])
        BY <1>g, <2>1, <2>2 DEF ReaderScene
    <2> QED
        BY <1>v, <2>1, <2>2, <2>3
<1>9. CASE SnapFields(q)
    <2> DEFINE s == [reg[q] EXCEPT !.pc = "snap_regen", !.what = rows[i].what]
    <2>1. /\ reg[q].pc = "snap_fields" /\ reg[q].pc \in SnapPCs /\ "snap_regen" \in SnapPCs
          /\ reg' = [reg EXCEPT ![q] = s]
        BY <1>9, <1>c DEF SnapFields, RegAt, Row, SnapPCs
    <2>2. /\ s \in RegType /\ s.row = i /\ s.call = reg[q].call /\ s.role = reg[q].role
          /\ s.listed = reg[q].listed /\ s.pc = "snap_regen" /\ s.gen = reg[q].gen /\ s.who = reg[q].who
          /\ s.what = rows[i].what
        BY <1>c, <1>f, <1>w DEF RegType
    <2> HIDE DEF s
    <2>3. ReaderScene(s, rows[i])
        BY <1>g, <2>1, <2>2 DEF ReaderScene
    <2> QED
        BY <1>v, <2>1, <2>2, <2>3
<1>10. CASE SnapRecheck(q)
    <2> DEFINE s == [reg[q] EXCEPT !.pc = "snap_end"]
    <2>1. reg[q].pc = "snap_regen" /\ reg[q].pc \in SnapPCs /\ "snap_end" \in SnapPCs
        BY <1>10 DEF SnapRecheck, RegAt, SnapPCs
    <2>2. \/ reg' = [reg EXCEPT ![q] = NextRow(reg[q])]
          \/ rows[i].gen = reg[q].gen /\ reg' = [reg EXCEPT ![q] = s]
        BY <1>10, <1>c DEF SnapRecheck, Unmoved, Row
    <2>3. /\ s \in RegType /\ s.row = i /\ s.call = reg[q].call /\ s.role = reg[q].role
          /\ s.listed = reg[q].listed /\ s.pc = "snap_end" /\ s.who = reg[q].who /\ s.what = reg[q].what
        BY <1>c, <1>w DEF RegType
    <2> HIDE DEF s
    <2>4. ReaderScene(s, rows[i])
        BY <1>k, <1>u, <2>3
    <2>5. rows[i].gen = reg[q].gen => Coherent(s)
        BY <1>e, <1>g, <2>1, <2>3 DEF ReaderScene, RowShape, Coherent
    <2> QED
        BY <1>m, <1>v, <2>1, <2>2, <2>3, <2>4, <2>5
<1>11. CASE SnapEnd(q)
    <2> DEFINE u == [who |-> reg[q].who, what |-> reg[q].what]
               t == IF rows[i].state = "Active" THEN [reg[q] EXCEPT !.listed = reg[q].listed \cup {u}] ELSE reg[q]
    <2>1. reg[q].pc = "snap_end" /\ reg[q].pc \in SnapPCs /\ reg' = [reg EXCEPT ![q] = NextRow(t)]
        <3>1. reg[q].pc = "snap_end" /\ reg[q].pc \in SnapPCs
            BY <1>11 DEF SnapEnd, RegAt, SnapPCs
        <3>2. reg' = [reg EXCEPT ![q] = NextRow(t)]
            BY <1>11 DEF SnapEnd, Row, Listed
        <3> QED
            BY <3>1, <3>2
    <2>2. Coherent(u) /\ u \in [who : Owners, what : WhatType]
        BY <1>0, <1>c, <2>1 DEF Copies, Coherent, RegType
    <2> HIDE DEF u
    <2>3. /\ t \in RegType /\ t.row = i /\ t.call = reg[q].call /\ t.role = reg[q].role
          /\ t.listed \in {reg[q].listed, reg[q].listed \cup {u}}
        BY <1>c, <2>2 DEF RegType
    <2> HIDE DEF t
    <2>4. \A v \in t.listed : Coherent(v)
        BY <1>g, <2>2, <2>3
    <2> QED
        BY <1>n, <2>1, <2>3, <2>4
<1> QED
    BY <1>1, <1>2, <1>3, <1>4, <1>5, <1>6, <1>7, <1>8, <1>9, <1>10, <1>11

-----------------------------------------------------------------------------
(***************************************************************************)
(* The node between its calls of the registry.                             *)
(***************************************************************************)
\* Where node q may be between two calls of the registry, n and r being its
\* state and the locals of its call ...
NodeFits(q, n, r) ==
    /\ n \in NodeType /\ r \in RegType
    /\ n.pc \in Touching \cup {"attach"} => q \in Nodes /\ n.call.want.topic \in Topics /\ n.call.want # Blank
    /\ q \in Observers => n.pc = "idle" /\ \A m \in TopicNames : n.slot[m] = NoSlot
    /\ RegPlaced(r) /\ Calling(q, n, r)
    /\ r.pc \notin Writing \cup ReaderPCs \cup {"snap_end"}
    /\ \A v \in r.listed : Coherent(v)

\* ... and the rows that it then has to hold.
RowsHeld(q, n, r) ==
    /\ \A m \in Standing(n) : n.slot[m].row \in Rows /\ Owned(q, rows[n.slot[m].row], n.slot[m].role)
    /\ \A m, o \in Standing(n) : m # o => n.slot[m].row # n.slot[o].row
    /\ Handling(r) => /\ \A m \in Standing(n) : n.slot[m].row # r.row
                      /\ \E role \in RoleSet : Owned(q, rows[r.row], role)
                      /\ r.pc = "done" => Owned(q, rows[r.row], r.role)
    /\ \A m \in TopicNames : n.slot[m] # NoSlot => n.slot[m].row \in Rows
    /\ \A i \in Rows : alive[q] /\ rows[i].state = "Active" /\ rows[i].who = q =>
           (\E m \in Standing(n) : n.slot[m].row = i) \/ (r.row = i /\ Handling(r))

\* Node q moves between two calls of the registry: n and r are its state and
\* the locals of its call afterwards.
LEMMA NodeStep ==
    ASSUME RegistryInv, NEW q \in Procs, UNCHANGED <<alive, rows>>,
           NEW n, node' = [node EXCEPT ![q] = n],
           NEW r, reg' = [reg EXCEPT ![q] = r],
           DOMAIN left' = DOMAIN left, left'.calls = left.calls,
           NodeFits(q, n, r), RowsHeld(q, n, r)
    PROVE  RegistryInv'
<1>0. /\ Planned /\ RegTyped /\ WritersAreAlone /\ WriterScenes /\ ReaderScenes /\ Copies
      /\ OwnersHold /\ SlotsInTable /\ RowsAreKnown
      /\ \A p \in Procs : RegPlaced(reg[p]) /\ Calling(p, node[p], reg[p])
      /\ \A j \in Rows : RowShape(rows[j])
    BY DEF RegistryInv
<1>1. Rows' = Rows
    BY DEF Rows
<1>f. n \in NodeType /\ r \in RegType /\ r.pc \notin Writing
    BY DEF NodeFits
<1>2. /\ node' \in [Procs -> NodeType] /\ node'[q] = n /\ \A p \in Procs \ {q} : node'[p] = node[p]
      /\ reg' \in [Procs -> RegType] /\ reg'[q] = r /\ \A p \in Procs \ {q} : reg'[p] = reg[p]
    BY <1>0, <1>f DEF Planned, RegTyped
<1>3. Planned' /\ RegTyped'
    <2>1. Planned'
        BY <1>0, <1>2 DEF Planned, NodeFits
    <2> QED
        BY <1>0, <1>2, <2>1 DEF RegTyped
<1>4. ASSUME NEW p \in Procs PROVE RegPlaced(reg[p])' /\ Calling(p, node[p], reg[p])'
    <2>1. Calling(p, node'[p], reg'[p])
        BY <1>0, <1>2 DEF NodeFits
    <2>2. RegPlaced(reg'[p])
        BY <1>0, <1>2 DEF NodeFits
    <2>3. RegPlaced(reg[p])'
        BY <2>2 DEF RegPlaced
    <2> QED
        BY <2>1, <2>3
<1>5. \A j \in Rows' : RowShape(rows'[j])
    BY <1>0, <1>1
<1>6. WritersAreAlone'
    BY <1>0, <1>2, <1>f DEF WritersAreAlone
<1>7. WriterScenes'
    <2> SUFFICES ASSUME NEW p \in Procs, alive[p], reg'[p].pc \in Writing
                 PROVE  WriterScene(p, reg[p], rows[reg[p].row])'
        BY DEF WriterScenes
    <2>1. WriterScene(p, reg'[p], rows[reg'[p].row])
        BY <1>0, <1>2, <1>f DEF WriterScenes
    <2> QED
        BY <2>1 DEF WriterScene, OwnerIsDead
<1>8. ReaderScenes'
    <2>1. \A x : ReaderScene(r, x)
        BY DEF ReaderScene, ReaderPCs, NodeFits
    <2> QED
        BY <1>0, <1>2, <2>1 DEF ReaderScenes
<1>9. Copies'
    BY <1>0, <1>2 DEF Copies, NodeFits
<1>10. OwnersHold'
    <2> SUFFICES ASSUME NEW p \in Procs, alive[p]
                 PROVE  /\ \A m \in Standing(node'[p]) :
                               /\ node'[p].slot[m].row \in Rows
                               /\ Owned(p, rows[node'[p].slot[m].row], node'[p].slot[m].role)
                        /\ \A m, o \in Standing(node'[p]) : m # o => node'[p].slot[m].row # node'[p].slot[o].row
                        /\ Handling(reg'[p]) =>
                               /\ \A m \in Standing(node'[p]) : node'[p].slot[m].row # reg'[p].row
                               /\ \E role \in RoleSet : Owned(p, rows[reg'[p].row], role)
                               /\ reg'[p].pc = "done" => Owned(p, rows[reg'[p].row], reg'[p].role)
        BY <1>1 DEF OwnersHold
    <2>1. CASE p = q
        BY <1>2, <2>1 DEF RowsHeld
    <2>2. CASE p # q
        BY <1>0, <1>2, <2>2 DEF OwnersHold
    <2> QED
        BY <2>1, <2>2
<1>11. SlotsInTable'
    BY <1>0, <1>1, <1>2 DEF SlotsInTable, RowsHeld
<1>12. RowsAreKnown'
    <2> SUFFICES ASSUME NEW j \in Rows, NEW p \in Procs, alive[p], rows[j].state = "Active", rows[j].who = p
                 PROVE  \/ \E m \in Standing(node'[p]) : node'[p].slot[m].row = j
                        \/ reg'[p].row = j /\ (reg'[p].pc = "publish" \/ Handling(reg'[p]))
        BY <1>1 DEF RowsAreKnown
    <2>1. CASE p = q
        BY <1>2, <2>1 DEF RowsHeld
    <2>2. CASE p # q
        BY <1>0, <1>2, <2>2 DEF RowsAreKnown
    <2> QED
        BY <2>1, <2>2
<1> QED
    BY <1>3, <1>4, <1>5, <1>6, <1>7, <1>8, <1>9, <1>10, <1>11, <1>12 DEF RegistryInv

\* The same, with no row changing hands between the node and its call.
LEMMA SlotsStay ==
    ASSUME RegistryInv, NEW q \in Procs, alive[q], UNCHANGED <<alive, rows>>,
           NEW n, node' = [node EXCEPT ![q] = n], NEW r, reg' = [reg EXCEPT ![q] = r],
           DOMAIN left' = DOMAIN left, left'.calls = left.calls, NodeFits(q, n, r),
           reg[q].pc # "publish", ~Handling(reg[q]), ~Handling(r),
           \A m \in TopicNames : m \in Standing(n) <=> m \in Standing(node[q]),
           \A m \in TopicNames : n.slot[m] # NoSlot => n.slot[m] = node[q].slot[m]
    PROVE  RegistryInv'
<1>1. OwnersHold /\ SlotsInTable /\ RowsAreKnown
    BY DEF RegistryInv
<1>2. \A m \in Standing(n) : n.slot[m] = node[q].slot[m] /\ m \in Standing(node[q])
    BY DEF Standing
<1>3. /\ \A m \in Standing(n) : n.slot[m].row \in Rows /\ Owned(q, rows[n.slot[m].row], n.slot[m].role)
      /\ \A m, o \in Standing(n) : m # o => n.slot[m].row # n.slot[o].row
    BY <1>1, <1>2 DEF OwnersHold
<1>4. \A m \in TopicNames : n.slot[m] # NoSlot => n.slot[m].row \in Rows
    BY <1>1 DEF SlotsInTable
<1>5. \A m \in Standing(node[q]) : m \in Standing(n)
    BY DEF Standing
<1>6. \A i \in Rows : rows[i].state = "Active" /\ rows[i].who = q => \E m \in Standing(n) : n.slot[m].row = i
    BY <1>1, <1>2, <1>5 DEF RowsAreKnown
<1>7. RowsHeld(q, n, r)
    BY <1>3, <1>4, <1>6 DEF RowsHeld
<1> QED
    BY <1>7, NodeStep

\* What it holds once the row of slot k went to its call, which gives it up.
LEMMA SlotGivenUp ==
    ASSUME RegistryInv, NEW q \in Procs, alive[q], NEW n, NEW r, reg[q].pc # "publish", ~Handling(reg[q]),
           NEW k \in Standing(node[q]), r.pc = "retire", r.row = node[q].slot[k].row,
           \A m \in TopicNames : m \in Standing(n) <=> m \in Standing(node[q]) /\ m # k,
           \A m \in TopicNames : n.slot[m] # NoSlot => n.slot[m] = node[q].slot[m]
    PROVE  RowsHeld(q, n, r)
<1>1. OwnersHold /\ SlotsInTable /\ RowsAreKnown /\ Planned
    BY DEF RegistryInv
<1>2. \A m \in Standing(n) : n.slot[m] = node[q].slot[m] /\ m \in Standing(node[q]) /\ m # k
    BY DEF Standing
<1>3. /\ \A m \in Standing(n) : n.slot[m].row \in Rows /\ Owned(q, rows[n.slot[m].row], n.slot[m].role)
      /\ \A m, o \in Standing(n) : m # o => n.slot[m].row # n.slot[o].row
      /\ \A m \in Standing(n) : n.slot[m].row # r.row
    BY <1>1, <1>2 DEF OwnersHold
<1>4. \A m \in TopicNames : n.slot[m] # NoSlot => n.slot[m].row \in Rows
    BY <1>1 DEF SlotsInTable
<1>5. \A m \in Standing(node[q]) : m = k \/ m \in Standing(n)
    BY DEF Standing
<1>6. \A i \in Rows : rows[i].state = "Active" /\ rows[i].who = q =>
          (\E m \in Standing(n) : n.slot[m].row = i) \/ r.row = i
    BY <1>1, <1>2, <1>5 DEF RowsAreKnown
<1>7. Owned(q, rows[r.row], node[q].slot[k].role) /\ node[q].slot[k].role \in RoleSet
    <2>1. node[q].slot[k] \in SlotType
        BY <1>1 DEF Planned, NodeType, Standing
    <2> QED
        BY <1>1, <2>1 DEF OwnersHold, SlotType
<1>8. Handling(r) /\ r.pc # "done"
    BY DEF Handling
<1> QED
    BY <1>3, <1>4, <1>6, <1>7, <1>8 DEF RowsHeld

\* The same, the row that a registration returned becoming that of slot k.
LEMMA SlotRecorded ==
    ASSUME RegistryInv, NEW q \in Procs, alive[q], UNCHANGED <<alive, rows>>,
           NEW n, node' = [node EXCEPT ![q] = n], NEW r, reg' = [reg EXCEPT ![q] = r],
           DOMAIN left' = DOMAIN left, left'.calls = left.calls, NodeFits(q, n, r),
           reg[q].pc = "done", Handling(reg[q]), ~Handling(r),
           NEW k \in TopicNames, k \notin Standing(node[q]),
           n.slot[k] = [row |-> reg[q].row, role |-> reg[q].role],
           \A m \in TopicNames : m \in Standing(n) <=> m \in Standing(node[q]) \/ m = k,
           \A m \in TopicNames \ {k} : n.slot[m] # NoSlot => n.slot[m] = node[q].slot[m]
    PROVE  RegistryInv'
<1>1. /\ OwnersHold /\ SlotsInTable /\ RowsAreKnown /\ Planned /\ RegTyped /\ RegPlaced(reg[q])
    BY DEF RegistryInv
<1>2. n.slot[k].row = reg[q].row /\ n.slot[k].role = reg[q].role
    OBVIOUS
<1>3. \A m \in Standing(n) : m = k \/ (n.slot[m] = node[q].slot[m] /\ m \in Standing(node[q]) /\ m # k)
    BY DEF Standing
<1>4. reg[q].row \in Rows /\ Owned(q, rows[reg[q].row], reg[q].role)
    <2>1. reg[q].row # NoRow /\ reg[q].row \in 0..Len(rows)
        BY <1>1 DEF Handling, RegPlaced
    <2> QED
        BY <1>1, <2>1, Table DEF OwnersHold
<1>5. \A m \in Standing(n) : n.slot[m].row \in Rows /\ Owned(q, rows[n.slot[m].row], n.slot[m].role)
    BY <1>1, <1>2, <1>3, <1>4 DEF OwnersHold
<1>6. \A m, o \in Standing(n) : m # o => n.slot[m].row # n.slot[o].row
    <2>1. \A m \in Standing(node[q]) : node[q].slot[m].row # reg[q].row
        BY <1>1 DEF OwnersHold
    <2>2. \A m, o \in Standing(node[q]) : m # o => node[q].slot[m].row # node[q].slot[o].row
        BY <1>1 DEF OwnersHold
    <2> QED
        BY <1>2, <1>3, <2>1, <2>2
<1>7. \A m \in TopicNames : n.slot[m] # NoSlot => n.slot[m].row \in Rows
    BY <1>1, <1>2, <1>4 DEF SlotsInTable
<1>8. \A m \in Standing(node[q]) : m \in Standing(n) /\ n.slot[m] = node[q].slot[m]
    BY DEF Standing
<1>9. k \in Standing(n)
    OBVIOUS
<1>10. \A i \in Rows : rows[i].state = "Active" /\ rows[i].who = q => \E m \in Standing(n) : n.slot[m].row = i
    BY <1>1, <1>2, <1>8, <1>9 DEF RowsAreKnown
<1>11. RowsHeld(q, n, r)
    BY <1>5, <1>6, <1>7, <1>10 DEF RowsHeld
<1> QED
    BY <1>11, NodeStep

\* The locals that a call of the registry starts with.
LEMMA NewCalls ==
    ASSUME NEW role \in RoleSet, NEW i \in Nat
    PROVE  /\ AtRest \in RegType /\ AtRest.pc = "idle" /\ AtRest.call = "none" /\ AtRest.row = NoRow
           /\ AtRest.role = "none" /\ AtRest.listed = {}
           /\ RegisterCall(role) \in RegType /\ RegisterCall(role).pc = "claim" /\ RegisterCall(role).row = 1
           /\ RegisterCall(role).call = "register" /\ RegisterCall(role).role = role
           /\ RegisterCall(role).listed = {}
           /\ DeregisterCall(i) \in RegType /\ DeregisterCall(i).pc = "retire" /\ DeregisterCall(i).row = i
           /\ DeregisterCall(i).call = "deregister" /\ DeregisterCall(i).listed = {}
           /\ SweepCall \in RegType /\ SweepCall.pc = "sweep" /\ SweepCall.row = 1 /\ SweepCall.call = "sweep"
           /\ SweepCall.listed = {}
           /\ SnapshotCall \in RegType /\ SnapshotCall.pc = "snap" /\ SnapshotCall.row = 1
           /\ SnapshotCall.call = "snapshot" /\ SnapshotCall.listed = {}
<1>1. {"idle", "claim", "retire", "sweep", "snap"} \subseteq RegPCs
    BY DEF RegPCs, ClaimPCs, SweepPCs, SnapPCs
<1>2. 0 \in Nat /\ 1 \in Nat /\ NoProc \in Owners /\ "none" \in RoleSet /\ Nobody \in WhatType
    BY DEF Owners, RoleSet, Nobody, WhatType
<1>3. /\ AtRest \in RegType /\ AtRest.pc = "idle" /\ AtRest.call = "none" /\ AtRest.row = NoRow
      /\ AtRest.role = "none" /\ AtRest.listed = {}
    BY <1>1, <1>2 DEF AtRest, RegType, NoRow
<1>4. /\ RegisterCall(role) \in RegType /\ RegisterCall(role).pc = "claim" /\ RegisterCall(role).row = 1
      /\ RegisterCall(role).call = "register" /\ RegisterCall(role).role = role
      /\ RegisterCall(role).listed = {}
    BY <1>1, <1>2, <1>3 DEF RegisterCall, RegType
<1>5. /\ DeregisterCall(i) \in RegType /\ DeregisterCall(i).pc = "retire" /\ DeregisterCall(i).row = i
      /\ DeregisterCall(i).call = "deregister" /\ DeregisterCall(i).listed = {}
    BY <1>1, <1>2, <1>3 DEF DeregisterCall, RegType
<1>6. /\ SweepCall \in RegType /\ SweepCall.pc = "sweep" /\ SweepCall.row = 1 /\ SweepCall.call = "sweep"
      /\ SweepCall.listed = {}
    BY <1>1, <1>2, <1>3 DEF SweepCall, RegType
<1>7. /\ SnapshotCall \in RegType /\ SnapshotCall.pc = "snap" /\ SnapshotCall.row = 1
      /\ SnapshotCall.call = "snapshot" /\ SnapshotCall.listed = {}
    BY <1>1, <1>2, <1>3 DEF SnapshotCall, RegType
<1> QED
    BY <1>3, <1>4, <1>5, <1>6, <1>7

\* A call that the plan gives a process.
LEMMA PlannedCall ==
    ASSUME Planned, NEW p \in Procs, NEW c \in left.calls[p]
    PROVE  p \in Nodes /\ c \in Calls /\ c.want.topic \in Topics /\ c.want # Blank /\ c.mode \in Modes
           /\ NameOf[c.want.topic] \in TopicNames
<1>1. PICK s \in Plans : left.calls = s.calls
    BY DEF Planned
<1>2. p \in Nodes
    BY <1>1, NodeAssumption
<1>3. c \in Calls
    BY <1>1 DEF Calls
<1> QED
    BY <1>1, <1>2, <1>3, NodeAssumption

\* A call that ends, or goes on, leaves the node's slots alone.
LEMMA NodeFields ==
    ASSUME NEW n \in NodeType
    PROVE  /\ Ended(n) \in NodeType /\ Ended(n).pc = "idle" /\ Ended(n).call = NoCall /\ Ended(n).slot = n.slot
           /\ Ended(n).region = n.region
           /\ \A pc \in NodePCs : /\ [n EXCEPT !.pc = pc] \in NodeType /\ [n EXCEPT !.pc = pc].pc = pc
                                  /\ [n EXCEPT !.pc = pc].region = n.region
                                  /\ [n EXCEPT !.pc = pc].call = n.call /\ [n EXCEPT !.pc = pc].slot = n.slot
<1>1. "idle" \in NodePCs /\ NoCall \in Calls
    BY DEF NodePCs, Calls
<1> QED
    BY <1>1 DEF Ended, NodeType

\* The steps of a node that is in no call of the registry.
LEMMA NodeMoves ==
    ASSUME RegistryInv, NEW q \in Procs, att[q].obj \in Nat,
           \/ \E c \in left.calls[q] : CallCached(q, c) \/ CallAttach(q, c)
           \/ AttachEnds(q) \/ TouchDisabled(q) \/ TouchLazily(q) \/ LazyEnds(q) \/ TouchCovered(q)
    PROVE  RegistryInv'
<1>0. /\ Planned /\ RegTyped /\ Copies /\ node[q] \in NodeType /\ reg[q] \in RegType
      /\ RegPlaced(reg[q]) /\ Calling(q, node[q], reg[q])
      /\ node \in [Procs -> NodeType] /\ reg \in [Procs -> RegType]
    BY DEF RegistryInv, Planned, RegTyped
<1>a. alive[q] /\ node[q].pc \in {"idle", "attach", "touch", "lazy"} /\ UNCHANGED <<alive, rows, reg>>
    BY Zenon DEF CallCached, CallAttach, AttachEnds, TouchDisabled, TouchLazily, LazyEnds, TouchCovered, CanTouch,
           NodeAt, registryVars
<1>b. DOMAIN left' = DOMAIN left /\ left'.calls = left.calls
    BY <1>0, Zenon DEF Planned, CallCached, CallAttach, AttachEnds, TouchDisabled, TouchLazily, LazyEnds, TouchCovered
<1>c. q \in Nodes
    <2>1. (\E c \in left.calls[q] : TRUE) \/ node[q].pc \in Touching \cup {"attach"}
        BY DEF AttachEnds, TouchDisabled, TouchLazily, LazyEnds, TouchCovered, CanTouch, NodeAt, Touching
    <2> QED
        BY <1>0, <2>1, PlannedCall DEF Planned
<1>d. /\ reg[q].call = "none" /\ reg[q].pc = "idle" /\ reg' = [reg EXCEPT ![q] = reg[q]]
      /\ \A v \in reg[q].listed : Coherent(v)
    BY <1>0, <1>a, <1>c DEF Calling, RegPlaced, Replacing, Copies
<1>e. ~Handling(reg[q]) /\ reg[q].pc \notin Writing \cup ReaderPCs \cup {"snap_end", "publish"}
    BY <1>d DEF Handling, Writing, ReaderPCs
<1>f. q \notin Observers
    BY <1>c, NodeAssumption
<1>h. ASSUME NEW n \in NodeType, node' = [node EXCEPT ![q] = n], n.slot = node[q].slot,
             n.pc \in {"idle", "attach", "touch", "lazy"},
             n.pc # "idle" => n.call.want.topic \in Topics /\ n.call.want # Blank
      PROVE  RegistryInv'
    <2>1. Calling(q, n, reg[q])
        BY <1>d, <1>f, <1>h DEF Calling, Replacing
    <2>2. NodeFits(q, n, reg[q])
        BY <1>0, <1>c, <1>d, <1>e, <1>f, <1>h, <2>1 DEF NodeFits, Touching
    <2>3. /\ \A m \in TopicNames : m \in Standing(n) <=> m \in Standing(node[q])
          /\ \A m \in TopicNames : n.slot[m] # NoSlot => n.slot[m] = node[q].slot[m]
        BY <1>a, <1>h DEF Standing, Replacing
    <2> QED
        BY <1>a, <1>b, <1>d, <1>e, <1>h, <2>2, <2>3, SlotsStay
<1>i. ASSUME node' = node PROVE RegistryInv'
    <2>1. node' = [node EXCEPT ![q] = node[q]]
        BY <1>0, <1>i
    <2>2. node[q].pc # "idle" => node[q].call.want.topic \in Topics /\ node[q].call.want # Blank
        BY <1>0, <1>a DEF Planned, Touching
    <2> QED
        BY <1>0, <1>a, <1>h, <2>1, <2>2
<1>j. ASSUME node' = [node EXCEPT ![q] = Ended(node[q])] PROVE RegistryInv'
    BY <1>0, <1>h, <1>j, NodeFields
<1>p. {"attach", "touch", "lazy", "idle"} \subseteq NodePCs
    BY DEF NodePCs
<1>t. node[q].pc # "idle" => /\ node[q].call.want.topic \in Topics /\ node[q].call.want # Blank
                             /\ Topic(q) \in TopicNames /\ Topic(q) \in Names
    BY <1>0, <1>a, NodeAssumption DEF Planned, Touching, Topic, TopicNames
<1>1. ASSUME NEW c \in left.calls[q], CallCached(q, c) PROVE RegistryInv'
    <2> DEFINE n == [node[q] EXCEPT !.pc = "touch", !.call = c]
    <2>1. node' = [node EXCEPT ![q] = n] \/ node' = [node EXCEPT ![q] = node[q]]
        BY <1>1, Zenon DEF CallCached
    <2>2. CASE node' = [node EXCEPT ![q] = n]
        <3>1. c \in Calls /\ c.want.topic \in Topics /\ c.want # Blank
            BY <1>0, PlannedCall
        <3>2. n \in NodeType /\ n.slot = node[q].slot /\ n.pc = "touch" /\ n.call = c
            BY <1>0, <1>p, <3>1 DEF NodeType
        <3> HIDE DEF n
        <3> QED
            BY <1>h, <2>2, <3>1, <3>2
    <2>3. CASE node' = [node EXCEPT ![q] = node[q]]
        BY <1>0, <1>i, <2>3
    <2> QED
        BY <2>1, <2>2, <2>3
<1>2. ASSUME NEW c \in left.calls[q], CallAttach(q, c) PROVE RegistryInv'
    <2> DEFINE n == [node[q] EXCEPT !.pc = "attach", !.call = c]
    <2>1. node' = [node EXCEPT ![q] = n]
        BY <1>0, <1>2, Zenon DEF CallAttach
    <2>2. c \in Calls /\ c.want.topic \in Topics /\ c.want # Blank
        BY <1>0, PlannedCall
    <2>3. n \in NodeType /\ n.slot = node[q].slot /\ n.pc = "attach" /\ n.call = c
        BY <1>0, <1>p, <2>2 DEF NodeType
    <2> HIDE DEF n
    <2> QED
        BY <1>h, <2>1, <2>2, <2>3
<1>k. ASSUME NEW x \in Names, node' = [node EXCEPT ![q].pc = "touch", ![q].region[x] = att[q].obj], node[q].pc # "idle"
      PROVE  RegistryInv'
    <2> DEFINE g == [node[q].region EXCEPT ![x] = att[q].obj]
               n == [node[q] EXCEPT !.pc = "touch", !.region = g]
    <2>1. node' = [node EXCEPT ![q] = n]
        BY <1>0, <1>k
    <2>2. g \in [Names -> Nat]
        BY <1>0 DEF NodeType
    <2> HIDE DEF g
    <2>3. n \in NodeType /\ n.slot = node[q].slot /\ n.pc = "touch" /\ n.call = node[q].call
        BY <1>0, <1>p, <2>2 DEF NodeType
    <2> HIDE DEF n
    <2> QED
        BY <1>h, <1>k, <1>t, <2>1, <2>3
<1>3. CASE AttachEnds(q)
    <2>1. node[q].pc # "idle"
        BY <1>3 DEF AttachEnds, NodeAt
    <2>2. CASE node' = [node EXCEPT ![q].pc = "touch", ![q].region[Topic(q)] = att[q].obj]
        BY <1>k, <1>t, <2>1, <2>2
    <2>3. CASE node' = [node EXCEPT ![q] = Ended(node[q])]
        BY <1>j, <2>3
    <2> QED
        BY <1>3, <2>2, <2>3 DEF AttachEnds
<1>4. CASE TouchDisabled(q)
    BY <1>4, <1>j DEF TouchDisabled
<1>5. CASE TouchLazily(q)
    <2> DEFINE n == [node[q] EXCEPT !.pc = "lazy"]
    <2>1. node' = [node EXCEPT ![q] = n] /\ node[q].pc = "touch"
        BY <1>0, <1>5 DEF TouchLazily, NodeGoto, NodeAt
    <2>2. n \in NodeType /\ n.slot = node[q].slot /\ n.pc = "lazy" /\ n.call = node[q].call
        BY <1>0, <1>p, NodeFields
    <2> HIDE DEF n
    <2> QED
        BY <1>h, <1>t, <2>1, <2>2
<1>6. CASE LazyEnds(q)
    <2>1. node[q].pc # "idle" /\ RegistryName \in Names
        BY <1>6, NodeAssumption DEF LazyEnds, NodeAt
    <2>2. CASE node' = [node EXCEPT ![q].pc = "touch", ![q].region[RegistryName] = att[q].obj]
        BY <1>k, <2>1, <2>2
    <2>3. CASE node' = [node EXCEPT ![q] = [Ended(node[q]) EXCEPT !.disabled = TRUE]]
        <3> DEFINE n == [Ended(node[q]) EXCEPT !.disabled = TRUE]
        <3>1. /\ Ended(node[q]) \in NodeType /\ Ended(node[q]).pc = "idle" /\ Ended(node[q]).slot = node[q].slot
            BY <1>0, NodeFields
        <3>2. n \in NodeType /\ n.slot = node[q].slot /\ n.pc = "idle"
            BY <3>1 DEF NodeType
        <3> HIDE DEF n
        <3>3. node' = [node EXCEPT ![q] = n]
            BY <2>3 DEF n
        <3> QED
            BY <1>h, <3>2, <3>3
    <2> QED
        BY <1>6, <2>2, <2>3 DEF LazyEnds
<1>7. CASE TouchCovered(q)
    BY <1>7, <1>j DEF TouchCovered
<1> QED
    BY <1>1, <1>2, <1>3, <1>4, <1>5, <1>6, <1>7

\* A registration starts: it has no row yet.
LEMMA RegistrationStarts ==
    ASSUME RegistryInv, NEW q \in Procs, TouchNew(q) \/ UpgradeRegisters(q) \/ BothFails(q)
    PROVE  RegistryInv'
<1>0. /\ Planned /\ RegTyped /\ node[q] \in NodeType /\ reg[q] \in RegType
      /\ RegPlaced(reg[q]) /\ Calling(q, node[q], reg[q])
      /\ node \in [Procs -> NodeType] /\ reg \in [Procs -> RegType]
    BY DEF RegistryInv, Planned, RegTyped
<1>a. alive[q] /\ node[q].pc \in {"touch", "upgrade", "both"} /\ UNCHANGED <<alive, rows, left>>
    BY DEF TouchNew, UpgradeRegisters, BothFails, CanTouch, NodeAt
<1>b. /\ q \in Nodes /\ q \notin Observers /\ node[q].call.want.topic \in Topics /\ node[q].call.want # Blank
      /\ Topic(q) \in TopicNames
    BY <1>0, <1>a, NodeAssumption DEF Planned, Touching, Topic
<1>c. /\ node[q].call.role \in RoleSet /\ "Both" \in RoleSet /\ node[q].slot[Topic(q)].role \in RoleSet
    <2>1. node[q].call \in Calls /\ node[q].slot[Topic(q)] \in SlotType
        BY <1>0, <1>b DEF NodeType
    <2> QED
        BY <2>1 DEF RoleSet, SlotType
<1>h. ASSUME NEW pc \in {"register", "both", "fallback"}, NodeGoto(q, pc),
             NEW role \in RoleSet, reg' = [reg EXCEPT ![q] = RegisterCall(role)],
             pc = "register" => node[q].pc = "touch" /\ role = node[q].call.role /\ Slot(q) = NoSlot,
             pc = "both" => node[q].pc \in Replacing /\ role = "Both" /\ Slot(q) # NoSlot,
             pc = "fallback" => node[q].pc \in Replacing /\ role = Slot(q).role /\ Slot(q) # NoSlot,
             reg[q].pc # "publish", ~Handling(reg[q])
      PROVE  RegistryInv'
    <2> DEFINE n == [node[q] EXCEPT !.pc = pc]
               r == RegisterCall(role)
    <2>1. /\ node' = [node EXCEPT ![q] = n] /\ reg' = [reg EXCEPT ![q] = r]
        BY <1>0, <1>h DEF NodeGoto
    <2>2. n \in NodeType /\ n.slot = node[q].slot /\ n.pc = pc /\ n.call = node[q].call
        <3>1. pc \in NodePCs
            BY DEF NodePCs
        <3> QED
            BY <1>0, <3>1, NodeFields
    <2>3. r \in RegType /\ r.pc = "claim" /\ r.row = 1 /\ r.call = "register" /\ r.role = role /\ r.listed = {}
        <3>1. 0 \in Nat
            OBVIOUS
        <3> QED
            BY <3>1, NewCalls
    <2> HIDE DEF n, r
    <2>4. Calling(q, n, r)
        BY <1>b, <1>h, <2>2, <2>3 DEF Calling, Replacing, Slot, Topic
    <2>5. RegPlaced(r)
        <3>1. 1 \in 0..Len(rows) /\ 1 # NoRow
            BY <1>0, Table
        <3> QED
            BY <2>3, <3>1 DEF RegPlaced, ClaimPCs
    <2>6. r.pc \notin Writing \cup ReaderPCs \cup {"snap_end"} /\ ~Handling(r)
        BY <2>3 DEF Writing, ReaderPCs, Handling
    <2>7. NodeFits(q, n, r)
        BY <1>b, <2>2, <2>3, <2>4, <2>5, <2>6 DEF NodeFits
    <2>8. /\ \A m \in TopicNames : m \in Standing(n) <=> m \in Standing(node[q])
          /\ \A m \in TopicNames : n.slot[m] # NoSlot => n.slot[m] = node[q].slot[m]
        BY <1>h, <2>2 DEF Standing, Replacing
    <2>9. left' = left
        BY <1>a
    <2> QED
        BY <1>a, <1>h, <2>1, <2>6, <2>7, <2>8, <2>9, SlotsStay
<1>1. CASE TouchNew(q)
    <2>1. /\ node[q].pc = "touch" /\ Slot(q) = NoSlot /\ NodeGoto(q, "register")
          /\ reg' = [reg EXCEPT ![q] = RegisterCall(node[q].call.role)]
        BY <1>1 DEF TouchNew, CanTouch, NodeAt
    <2>2. reg[q].pc = "idle"
        BY <1>0, <1>b, <2>1 DEF Calling, RegPlaced, Replacing
    <2>3. reg[q].pc # "publish" /\ ~Handling(reg[q])
        BY <2>2 DEF Handling
    <2> QED
        BY <1>c, <1>h, <2>1, <2>3
<1>2. CASE UpgradeRegisters(q)
    <2>1. /\ node[q].pc = "upgrade" /\ reg[q].pc = "done" /\ NodeGoto(q, "both")
          /\ reg' = [reg EXCEPT ![q] = RegisterCall("Both")]
        BY <1>2 DEF UpgradeRegisters, NodeAt
    <2>2. reg[q].call = "deregister" /\ Slot(q) # NoSlot /\ node[q].pc \in Replacing
        BY <1>0, <1>b, <2>1 DEF Calling, Replacing, Slot, Topic
    <2>3. reg[q].pc # "publish" /\ ~Handling(reg[q])
        BY <2>1, <2>2 DEF Handling
    <2> QED
        BY <1>c, <1>h, <2>1, <2>2, <2>3
<1>3. CASE BothFails(q)
    <2>1. /\ node[q].pc = "both" /\ reg[q].pc = "done" /\ reg[q].row = NoRow /\ NodeGoto(q, "fallback")
          /\ reg' = [reg EXCEPT ![q] = RegisterCall(Slot(q).role)]
        BY <1>3 DEF BothFails, NodeAt
    <2>2. Slot(q) # NoSlot /\ node[q].pc \in Replacing /\ Slot(q).role \in RoleSet
        BY <1>0, <1>b, <1>c, <2>1, Zenon DEF Calling, Replacing, Slot, Topic
    <2>3. reg[q].pc # "publish" /\ ~Handling(reg[q])
        BY <2>1 DEF Handling
    <2> QED
        BY <1>h, <2>1, <2>2, <2>3, Zenon
<1> QED
    BY <1>1, <1>2, <1>3

\* A registration ends: its row becomes the slot's, or the slot is empty.
LEMMA RegistrationEnds ==
    ASSUME RegistryInv, NEW q \in Procs, RegisterEnds(q) \/ BothEnds(q) \/ FallbackEnds(q)
    PROVE  RegistryInv'
<1>0. /\ Planned /\ RegTyped /\ node[q] \in NodeType /\ reg[q] \in RegType
      /\ RegPlaced(reg[q]) /\ Calling(q, node[q], reg[q])
      /\ node \in [Procs -> NodeType] /\ reg \in [Procs -> RegType]
    BY DEF RegistryInv, Planned, RegTyped
<1>a. /\ alive[q] /\ node[q].pc \in {"register", "both", "fallback"} /\ UNCHANGED <<alive, rows, left>>
      /\ reg[q].pc = "done"
    BY DEF RegisterEnds, BothEnds, FallbackEnds, NodeAt
<1>b. q \in Nodes /\ q \notin Observers /\ Topic(q) \in TopicNames
    BY <1>0, <1>a, NodeAssumption DEF Planned, Touching, Topic
<1>c. reg[q].call = "register" /\ (node[q].pc = "register" => Slot(q) = NoSlot)
    BY <1>0, <1>a, <1>b DEF Calling, Slot, Topic
<1> DEFINE k == Topic(q)
           s == IF reg[q].row = NoRow THEN NoSlot ELSE [row |-> reg[q].row, role |-> reg[q].role]
<1>d. Record(q, s)
    <2>1. CASE RegisterEnds(q)
        <3>1. reg[q].role = node[q].call.role
            BY <1>0, <1>b, <2>1 DEF RegisterEnds, NodeAt, Calling
        <3> QED
            BY <2>1, <3>1 DEF RegisterEnds, Recorded
    <2>2. CASE BothEnds(q)
        <3>1. reg[q].role = "Both"
            BY <1>0, <1>b, <2>2 DEF BothEnds, NodeAt, Calling
        <3> QED
            BY <2>2, <3>1 DEF BothEnds, Recorded
    <2>3. CASE FallbackEnds(q)
        <3>1. reg[q].role = Slot(q).role
            BY <1>0, <1>b, <2>3, Zenon DEF FallbackEnds, NodeAt, Calling, Slot, Topic
        <3> QED
            BY <2>3, <3>1 DEF FallbackEnds, Recorded
    <2> QED
        BY <2>1, <2>2, <2>3
<1>e. s \in SlotType
    <2>1. reg[q].row \in Nat /\ reg[q].role \in RoleSet /\ NoRow \in Nat /\ "none" \in RoleSet
        BY <1>0 DEF RegType, NoRow, RoleSet
    <2> QED
        BY <2>1 DEF SlotType, NoSlot
<1> DEFINE g == [node[q].slot EXCEPT ![k] = s]
           u == [node[q] EXCEPT !.slot = g]
           n == Ended(u)
           r == AtRest
<1>f. g \in [TopicNames -> SlotType] /\ g[k] = s /\ \A m \in TopicNames \ {k} : g[m] = node[q].slot[m]
    <2>1. node[q].slot \in [TopicNames -> SlotType]
        BY <1>0 DEF NodeType
    <2> HIDE DEF s, k
    <2>2. k \in TopicNames
        BY <1>b DEF k
    <2> QED
        BY <1>e, <2>1, <2>2
<1>g. node' = [node EXCEPT ![q] = n] /\ reg' = [reg EXCEPT ![q] = r]
    <2> HIDE DEF s
    <2> QED
        BY <1>d DEF Record
<1> HIDE DEF s, g
<1>i. u \in NodeType /\ u.slot = g
    BY <1>0, <1>f DEF NodeType
<1> HIDE DEF u
<1>j. n \in NodeType /\ n.pc = "idle" /\ n.slot = g
    BY <1>i, NodeFields
<1>k. r \in RegType /\ r.pc = "idle" /\ r.call = "none" /\ r.row = NoRow /\ r.listed = {}
    <2>1. 0 \in Nat /\ "none" \in RoleSet
        BY DEF RoleSet
    <2> QED
        BY <2>1, NewCalls
<1> HIDE DEF n, r
<1>l. NodeFits(q, n, r)
    <2>1. Calling(q, n, r)
        BY <1>b, <1>j, <1>k DEF Calling, Replacing
    <2>2. RegPlaced(r)
        <3>1. NoRow \in 0..Len(rows)
            BY <1>0, Table
        <3> QED
            BY <1>k, <3>1 DEF RegPlaced
    <2>3. n.pc \notin Touching \cup {"attach"} /\ r.pc \notin Writing \cup ReaderPCs \cup {"snap_end"}
        BY <1>j, <1>k DEF Touching, Writing, ReaderPCs
    <2> QED
        BY <1>b, <1>j, <1>k, <2>1, <2>2, <2>3 DEF NodeFits
<1>m. ~Handling(r) /\ left' = left
    BY <1>a, <1>k DEF Handling
<1>n. k \in TopicNames /\ k \notin Standing(node[q])
    BY <1>a, <1>b, <1>c DEF Standing, Replacing, Slot, Topic
<1>o. \A m \in TopicNames \ {k} : m \in Standing(n) <=> m \in Standing(node[q])
    BY <1>a, <1>c, <1>f, <1>j DEF Standing, Replacing, Topic
<1>p. n.slot[k] = s /\ \A m \in TopicNames \ {k} : n.slot[m] = node[q].slot[m]
    BY <1>f, <1>j
<1>q. k \in Standing(n) <=> s # NoSlot
    BY <1>j, <1>n, <1>p DEF Standing, Replacing
<1> HIDE DEF k
<1>1. CASE reg[q].row = NoRow
    <2>1. s = NoSlot /\ ~Handling(reg[q]) /\ reg[q].pc # "publish"
        BY <1>1, <1>a DEF s, Handling
    <2>2. \A m \in TopicNames : m \in Standing(n) <=> m \in Standing(node[q])
        BY <1>n, <1>o, <1>q, <2>1
    <2>3. \A m \in TopicNames : n.slot[m] # NoSlot => n.slot[m] = node[q].slot[m]
        BY <1>p, <2>1
    <2> QED
        BY <1>a, <1>g, <1>l, <1>m, <2>1, <2>2, <2>3, SlotsStay
<1>2. CASE reg[q].row # NoRow
    <2>1. s = [row |-> reg[q].row, role |-> reg[q].role] /\ Handling(reg[q])
        BY <1>2, <1>a, <1>c DEF s, Handling
    <2>2. s # NoSlot
        <3>1. s.row # NoSlot.row
            BY <1>2, <2>1 DEF NoSlot
        <3> QED
            BY <3>1
    <2>3. \A m \in TopicNames : m \in Standing(n) <=> m \in Standing(node[q]) \/ m = k
        BY <1>n, <1>o, <1>q, <2>2
    <2>4. \A m \in TopicNames \ {k} : n.slot[m] # NoSlot => n.slot[m] = node[q].slot[m]
        BY <1>p
    <2>5. n.slot[k] = [row |-> reg[q].row, role |-> reg[q].role]
        BY <1>p, <2>1
    <2> QED
        BY <1>a, <1>g, <1>l, <1>m, <1>n, <2>1, <2>3, <2>4, <2>5, SlotRecorded, ZenonT(40)
<1> QED
    BY <1>1, <1>2

\* The row of a slot is given up, to be replaced or because the node ends.
LEMMA RowIsGivenUp ==
    ASSUME RegistryInv, NEW q \in Procs, TouchUpgrade(q) \/ Leave(q)
    PROVE  RegistryInv'
<1>0. /\ Planned /\ RegTyped /\ node[q] \in NodeType /\ reg[q] \in RegType /\ SlotsInTable
      /\ RegPlaced(reg[q]) /\ Calling(q, node[q], reg[q])
      /\ node \in [Procs -> NodeType] /\ reg \in [Procs -> RegType]
    BY DEF RegistryInv, Planned, RegTyped
<1>a. alive[q] /\ node[q].pc \in {"touch", "idle", "leaving"} /\ UNCHANGED <<alive, rows, left>> /\ left' = left
    BY DEF TouchUpgrade, Leave, CanTouch, NodeAt
<1>h. ASSUME NEW k \in Standing(node[q]), q \notin Observers,
             NEW n \in NodeType, node' = [node EXCEPT ![q] = n],
             reg' = [reg EXCEPT ![q] = DeregisterCall(node[q].slot[k].row)],
             n.pc \in {"upgrade", "leaving"},
             n.pc = "upgrade" => /\ q \in Nodes /\ n.call.want.topic \in Topics /\ n.call.want # Blank
                                 /\ k = NameOf[n.call.want.topic] /\ n.slot[k] # NoSlot,
             n.pc = "leaving" => n.slot[k] = NoSlot,
             \A m \in TopicNames : n.slot[m] # NoSlot => n.slot[m] = node[q].slot[m],
             \A m \in TopicNames \ {k} : n.slot[m] = node[q].slot[m],
             reg[q].pc = "idle"
      PROVE  RegistryInv'
    <2> DEFINE i == node[q].slot[k].row
               r == DeregisterCall(i)
    <2>1. k \in TopicNames /\ i \in Rows /\ i \in Nat
        <3>1. k \in TopicNames /\ i \in Rows
            BY <1>0, <1>h DEF Standing, SlotsInTable
        <3> QED
            BY <1>0, <3>1, Table
    <2>2. r \in RegType /\ r.pc = "retire" /\ r.row = i /\ r.call = "deregister" /\ r.listed = {}
        <3>1. "none" \in RoleSet
            BY DEF RoleSet
        <3> HIDE DEF i
        <3> QED
            BY <2>1, <3>1, NewCalls
    <2> HIDE DEF r
    <2>3. RegPlaced(r)
        <3>1. i # NoRow /\ i \in 0..Len(rows)
            BY <1>0, <2>1, Table
        <3> HIDE DEF i
        <3> QED
            BY <2>2, <3>1 DEF RegPlaced
    <2>4. Calling(q, n, r)
        BY <1>h, <2>2 DEF Calling, Replacing
    <2>5. /\ r.pc \notin Writing \cup ReaderPCs \cup {"snap_end"} /\ reg[q].pc # "publish" /\ ~Handling(reg[q])
          /\ n.pc \in Touching \cup {"attach"} => n.pc = "upgrade"
        BY <1>h, <2>2 DEF Writing, ReaderPCs, Handling, Touching
    <2>6. NodeFits(q, n, r)
        BY <1>h, <2>2, <2>3, <2>4, <2>5 DEF NodeFits
    <2>7. \A m \in TopicNames : m \in Standing(n) <=> m \in Standing(node[q]) /\ m # k
        BY <1>a, <1>h DEF Standing, Replacing
    <2>8. reg' = [reg EXCEPT ![q] = r] /\ r.row = node[q].slot[k].row
        BY <1>h, <2>2 DEF r
    <2>9. /\ alive[q] /\ UNCHANGED <<alive, rows>> /\ DOMAIN left' = DOMAIN left /\ left'.calls = left.calls
          /\ node' = [node EXCEPT ![q] = n] /\ k \in Standing(node[q]) /\ r.pc = "retire"
          /\ reg[q].pc # "publish" /\ ~Handling(reg[q])
          /\ \A m \in TopicNames : n.slot[m] # NoSlot => n.slot[m] = node[q].slot[m]
        BY <1>a, <1>h, <2>2, <2>5
    <2> HIDE DEF i
    <2>10. RowsHeld(q, n, r)
        BY <2>7, <2>8, <2>9, SlotGivenUp, SMTT(30)
    <2> QED
        BY <2>6, <2>8, <2>9, <2>10, NodeStep
<1>1. CASE TouchUpgrade(q)
    <2> DEFINE n == [node[q] EXCEPT !.pc = "upgrade"]
               k == Topic(q)
    <2>1. /\ node[q].pc = "touch" /\ node[q].slot[k] # NoSlot
          /\ node' = [node EXCEPT ![q] = n] /\ reg' = [reg EXCEPT ![q] = DeregisterCall(node[q].slot[k].row)]
        BY <1>0, <1>1 DEF TouchUpgrade, CanTouch, NodeAt, NodeGoto, Slot
    <2>2. /\ q \in Nodes /\ q \notin Observers /\ node[q].call.want.topic \in Topics /\ node[q].call.want # Blank
          /\ k \in TopicNames /\ k = NameOf[node[q].call.want.topic]
        BY <1>0, <2>1, NodeAssumption DEF Planned, Touching, Topic
    <2>3. n \in NodeType /\ n.slot = node[q].slot /\ n.pc = "upgrade" /\ n.call = node[q].call
        <3>1. "upgrade" \in NodePCs
            BY DEF NodePCs
        <3> QED
            BY <1>0, <3>1, NodeFields
    <2>4. k \in Standing(node[q])
        BY <2>1, <2>2, SMTT(30) DEF Standing, Replacing
    <2>5. reg[q].pc = "idle"
        BY <1>0, <2>1, <2>2 DEF Calling, RegPlaced, Replacing
    <2> HIDE DEF n, k
    <2> QED
        BY <1>h, <2>1, <2>2, <2>3, <2>4, <2>5
<1>2. CASE Leave(q)
    <2>1. PICK k \in TopicNames :
              /\ node[q].slot[k] # NoSlot
              /\ reg' = [reg EXCEPT ![q] = DeregisterCall(node[q].slot[k].row)]
              /\ node' = [node EXCEPT ![q].pc = "leaving", ![q].slot[k] = NoSlot]
        BY <1>2 DEF Leave
    <2> DEFINE g == [node[q].slot EXCEPT ![k] = NoSlot]
               n == [node[q] EXCEPT !.pc = "leaving", !.slot = g]
    <2>2. node' = [node EXCEPT ![q] = n]
        BY <1>0, <2>1
    <2>3. g \in [TopicNames -> SlotType] /\ g[k] = NoSlot /\ \A m \in TopicNames \ {k} : g[m] = node[q].slot[m]
        <3>1. NoSlot \in SlotType /\ node[q].slot \in [TopicNames -> SlotType]
            BY <1>0 DEF NodeType, NoSlot, SlotType, NoRow, RoleSet
        <3> QED
            BY <3>1
    <2> HIDE DEF g
    <2>4. n \in NodeType /\ n.slot = g /\ n.pc = "leaving"
        BY <1>0, <2>3 DEF NodeType, NodePCs
    <2> HIDE DEF n
    <2>5. node[q].pc \in {"idle", "leaving"} /\ reg[q].pc = "idle"
        BY <1>2 DEF Leave, NodeAt
    <2>6. k \in Standing(node[q])
        BY <2>1, <2>5 DEF Standing, Replacing
    <2>7. q \notin Observers
        BY <1>0, <2>1 DEF Planned
    <2>8. \A m \in TopicNames : n.slot[m] # NoSlot => n.slot[m] = node[q].slot[m]
        BY <2>3, <2>4
    <2> QED
        BY <1>h, <2>1, <2>2, <2>3, <2>4, <2>5, <2>6, <2>7, <2>8, ZenonT(40)
<1> QED
    BY <1>1, <1>2

\* A call of the registry that held no row ends, or an observer starts one.
LEMMA OtherCalls ==
    ASSUME RegistryInv, NEW q \in Procs, Left(q) \/ Observe(q) \/ ObserveEnds(q)
    PROVE  RegistryInv'
<1>0. /\ Planned /\ RegTyped /\ node[q] \in NodeType /\ reg[q] \in RegType
      /\ RegPlaced(reg[q]) /\ Calling(q, node[q], reg[q])
      /\ node \in [Procs -> NodeType] /\ reg \in [Procs -> RegType]
    BY DEF RegistryInv, Planned, RegTyped
<1>a. alive[q] /\ UNCHANGED <<alive, rows>> /\ DOMAIN left' = DOMAIN left /\ left'.calls = left.calls
    BY <1>0 DEF Planned, Left, Observe, ObserveEnds, NodeAt, RegAt
<1>b. /\ AtRest \in RegType /\ AtRest.pc = "idle" /\ AtRest.call = "none" /\ AtRest.row = NoRow /\ AtRest.listed = {}
      /\ SweepCall \in RegType /\ SweepCall.pc = "sweep" /\ SweepCall.row = 1 /\ SweepCall.call = "sweep"
      /\ SweepCall.listed = {}
      /\ SnapshotCall \in RegType /\ SnapshotCall.pc = "snap" /\ SnapshotCall.row = 1
      /\ SnapshotCall.call = "snapshot" /\ SnapshotCall.listed = {}
    <2>1. 0 \in Nat /\ "none" \in RoleSet
        BY DEF RoleSet
    <2> QED
        BY <2>1, NewCalls
<1>h. ASSUME NEW n \in NodeType, node' = [node EXCEPT ![q] = n], n.slot = node[q].slot,
             NEW r \in {AtRest, SweepCall, SnapshotCall}, reg' = [reg EXCEPT ![q] = r],
             \/ q \in Observers /\ n = node[q]
             \/ r = AtRest /\ q \notin Observers /\ n.pc \in {"leaving", "gone"} /\ node[q].pc = "leaving",
             reg[q].pc # "publish", ~Handling(reg[q])
      PROVE  RegistryInv'
    <2>1. RegPlaced(r)
        <3>1. 1 \in 0..Len(rows) /\ 1 # NoRow /\ NoRow \in 0..Len(rows)
            BY <1>0, Table
        <3> QED
            BY <1>b, <3>1 DEF RegPlaced, SweepPCs, SnapPCs
    <2>2. q \in Observers => q \notin Nodes /\ n.pc = "idle" /\ \A m \in TopicNames : n.slot[m] = NoSlot
        BY <1>0, <1>h, NodeAssumption DEF Planned
    <2>3. Calling(q, n, r)
        BY <1>b, <1>h, <2>2 DEF Calling, Replacing
    <2>4. /\ r \in RegType /\ r.pc \notin Writing \cup ReaderPCs \cup {"snap_end"} /\ ~Handling(r) /\ r.listed = {}
          /\ n.pc \notin Touching \cup {"attach"}
        BY <1>b, <1>h, <2>2 DEF Writing, ReaderPCs, Handling, Touching
    <2>5. NodeFits(q, n, r)
        BY <1>h, <2>1, <2>2, <2>3, <2>4 DEF NodeFits
    <2>6. /\ \A m \in TopicNames : m \in Standing(n) <=> m \in Standing(node[q])
          /\ \A m \in TopicNames : n.slot[m] # NoSlot => n.slot[m] = node[q].slot[m]
        BY <1>h, <2>2 DEF Standing, Replacing
    <2> QED
        BY <1>a, <1>h, <2>4, <2>5, <2>6, SlotsStay
<1>o. ASSUME q \in Observers, UNCHANGED node PROVE node' = [node EXCEPT ![q] = node[q]]
    BY <1>0, <1>o
<1>1. CASE Left(q)
    <2>0. NodeGoto(q, "leaving") \/ NodeGoto(q, "gone")
        BY <1>1 DEF Left
    <2>1. PICK pc \in {"leaving", "gone"} : node' = [node EXCEPT ![q] = [node[q] EXCEPT !.pc = pc]]
        BY <1>0, <2>0 DEF NodeGoto
    <2>2. /\ [node[q] EXCEPT !.pc = pc] \in NodeType /\ [node[q] EXCEPT !.pc = pc].slot = node[q].slot
          /\ [node[q] EXCEPT !.pc = pc].pc = pc
        <3>1. pc \in NodePCs
            BY DEF NodePCs
        <3> QED
            BY <1>0, <3>1, NodeFields
    <2>3. node[q].pc = "leaving" /\ reg[q].pc = "done" /\ reg' = [reg EXCEPT ![q] = AtRest]
        BY <1>1 DEF Left, NodeAt
    <2>4. q \notin Observers /\ q \in Nodes
        BY <1>0, <2>3, NodeAssumption DEF Planned
    <2>5. reg[q].pc # "publish" /\ ~Handling(reg[q])
        BY <1>0, <2>3, <2>4 DEF Calling, Handling
    <2> QED
        BY <1>h, <2>1, <2>2, <2>3, <2>4, <2>5
<1>2. CASE Observe(q)
    <2>1. PICK r \in {SweepCall, SnapshotCall} : reg' = [reg EXCEPT ![q] = r]
        BY <1>2 DEF Observe
    <2>2. q \in Observers /\ UNCHANGED node /\ reg[q].pc # "publish" /\ ~Handling(reg[q])
        BY <1>2 DEF Observe, Handling
    <2> QED
        BY <1>0, <1>h, <1>o, <2>1, <2>2
<1>3. CASE ObserveEnds(q)
    <2>1. q \in Observers /\ UNCHANGED node /\ reg[q].pc = "done" /\ reg' = [reg EXCEPT ![q] = AtRest]
        BY <1>3 DEF ObserveEnds, RegAt
    <2>2. reg[q].pc # "publish" /\ ~Handling(reg[q])
        BY <1>0, <2>1 DEF Calling, Handling
    <2> QED
        BY <1>0, <1>h, <1>o, <2>1, <2>2
<1> QED
    BY <1>1, <1>2, <1>3

\* A death leaves everything as it is to those that live on.
LEMMA DeathIsBorne ==
    ASSUME RegistryInv, NEW q \in Procs, Crash(q)
    PROVE  RegistryInv'
<1>0. /\ Planned /\ RegTyped /\ WritersAreAlone /\ WriterScenes /\ ReaderScenes /\ Copies
      /\ OwnersHold /\ SlotsInTable /\ RowsAreKnown
      /\ \A p \in Procs : RegPlaced(reg[p]) /\ Calling(p, node[p], reg[p])
      /\ \A j \in Rows : RowShape(rows[j])
    BY DEF RegistryInv
<1>1. /\ UNCHANGED <<rows, reg, node, left>>
      /\ alive' \in [Procs -> BOOLEAN] /\ \A p \in Procs : alive'[p] => alive[p]
    BY <1>0 DEF Crash, Die, registryVars, Planned
<1>2. Rows' = Rows
    BY <1>1 DEF Rows
<1>3. Planned' /\ RegTyped'
    BY <1>0, <1>1 DEF Planned, RegTyped
<1>4. ASSUME NEW p \in Procs PROVE RegPlaced(reg[p])' /\ Calling(p, node[p], reg[p])'
    <2>1. Calling(p, node'[p], reg'[p])
        BY <1>0, <1>1
    <2>2. RegPlaced(reg[p])'
        BY <1>0, <1>1 DEF RegPlaced
    <2> QED
        BY <2>1, <2>2
<1>5. \A j \in Rows' : RowShape(rows'[j])
    BY <1>0, <1>1, <1>2
<1>6. WritersAreAlone'
    BY <1>0, <1>1 DEF WritersAreAlone
<1>7. WriterScenes'
    <2> SUFFICES ASSUME NEW p \in Procs, alive'[p], reg[p].pc \in Writing
                 PROVE  WriterScene(p, reg[p], rows[reg[p].row])'
        BY <1>1 DEF WriterScenes
    <2>1. WriterScene(p, reg[p], rows[reg[p].row])
        BY <1>0, <1>1 DEF WriterScenes
    <2>2. reg[p].pc = "reclaim" => rows[reg[p].row].who \in Procs
        <3>1. reg[p].row \in Rows
            BY <1>0, Table, PlacedOpen DEF RegTyped, RegType, RegPlaced
        <3>2. rows[reg[p].row].who \in Procs \cup {NoProc}
            BY <1>0, <3>1, Table DEF RowType, Owners
        <3> QED
            BY <2>1, <3>2 DEF WriterScene, OwnerIsDead
    <2> QED
        BY <1>1, <2>1, <2>2 DEF WriterScene, OwnerIsDead
<1>8. ReaderScenes'
    BY <1>0, <1>1 DEF ReaderScenes
<1>9. Copies'
    BY <1>0, <1>1 DEF Copies
<1>10. OwnersHold'
    BY <1>0, <1>1, <1>2 DEF OwnersHold
<1>11. SlotsInTable'
    BY <1>0, <1>1, <1>2 DEF SlotsInTable
<1>12. RowsAreKnown'
    BY <1>0, <1>1, <1>2 DEF RowsAreKnown
<1> QED
    BY <1>3, <1>4, <1>5, <1>6, <1>7, <1>8, <1>9, <1>10, <1>11, <1>12 DEF RegistryInv

\* Nothing here depends on the regions.
LEMMA RegistryFrame ==
    ASSUME RegistryInv, UNCHANGED <<alive, rows, reg, node>>, DOMAIN left' = DOMAIN left, left'.calls = left.calls
    PROVE  RegistryInv'
<1>0. /\ Planned /\ RegTyped /\ WritersAreAlone /\ WriterScenes /\ ReaderScenes /\ Copies
      /\ OwnersHold /\ SlotsInTable /\ RowsAreKnown
      /\ \A p \in Procs : RegPlaced(reg[p]) /\ Calling(p, node[p], reg[p])
      /\ \A j \in Rows : RowShape(rows[j])
    BY DEF RegistryInv
<1>1. Rows' = Rows
    BY DEF Rows
<1>2. Planned' /\ RegTyped'
    BY <1>0 DEF Planned, RegTyped
<1>3. ASSUME NEW p \in Procs PROVE RegPlaced(reg[p])' /\ Calling(p, node[p], reg[p])'
    <2>1. Calling(p, node'[p], reg'[p])
        BY <1>0
    <2>2. RegPlaced(reg[p])'
        BY <1>0 DEF RegPlaced
    <2> QED
        BY <2>1, <2>2
<1>4. \A j \in Rows' : RowShape(rows'[j])
    BY <1>0, <1>1
<1>5. WritersAreAlone' /\ ReaderScenes' /\ Copies'
    BY <1>0 DEF WritersAreAlone, ReaderScenes, Copies
<1>6. WriterScenes'
    <2> SUFFICES ASSUME NEW p \in Procs, alive[p], reg[p].pc \in Writing
                 PROVE  WriterScene(p, reg[p], rows[reg[p].row])'
        BY DEF WriterScenes
    <2>1. WriterScene(p, reg[p], rows[reg[p].row])
        BY <1>0 DEF WriterScenes
    <2> QED
        BY <2>1 DEF WriterScene, OwnerIsDead
<1>7. OwnersHold' /\ SlotsInTable' /\ RowsAreKnown'
    BY <1>0, <1>1 DEF OwnersHold, SlotsInTable, RowsAreKnown
<1> QED
    BY <1>2, <1>3, <1>4, <1>5, <1>6, <1>7 DEF RegistryInv

\* The table starts empty, and the nodes without a slot.
LEMMA RegistryStarts ==
    ASSUME Init
    PROVE  RegistryInv
<1>1. PICK s \in Plans :
          /\ alive = [p \in Procs |-> TRUE]
          /\ rows = [i \in 1..s.capacity |-> FreeRow] /\ reg = [p \in Procs |-> AtRest]
          /\ node = [p \in Procs |-> FreshNode]
          /\ left = [calls |-> s.calls, call |-> s.call, unlink |-> s.unlink, claim |-> s.claim, look |-> s.look]
    BY DEF Init, RegistryInit
<1>2. s.capacity \in Nat /\ s.capacity > 0
    BY NodeAssumption
<1>3. FreeRow \in RowType /\ RowShape(FreeRow) /\ FreeRow.state = "Free"
    <2>1. 0 \in Nat /\ NoProc \in Owners /\ Nobody \in WhatType /\ ~Odd(0)
        BY DEF Owners, Nobody, WhatType, RoleSet, Odd
    <2> QED
        BY <2>1 DEF FreeRow, RowType, RowShape
<1>4. rows \in Seq(RowType) /\ Len(rows) = s.capacity /\ \A i \in Rows : rows[i] = FreeRow
    <2> DEFINE c == s.capacity
    <2>1. rows = [i \in 1..c |-> FreeRow] /\ c \in Nat
        BY <1>1, <1>2
    <2> HIDE DEF c
    <2>2. rows \in [1..c -> RowType] /\ Rows = 1..c /\ \A i \in Rows : rows[i] = FreeRow
        BY <1>3, <2>1 DEF Rows
    <2>3. rows \in Seq(RowType) /\ Len(rows) = c
        BY <2>1, <2>2
    <2> QED
        BY <2>2, <2>3 DEF c
<1>5. /\ AtRest \in RegType /\ AtRest.pc = "idle" /\ AtRest.call = "none" /\ AtRest.row = NoRow
      /\ AtRest.listed = {}
    <2>1. 0 \in Nat /\ "none" \in RoleSet
        BY DEF RoleSet
    <2> QED
        BY <2>1, NewCalls
<1>6. RegTyped
    BY <1>1, <1>2, <1>4, <1>5 DEF RegTyped
<1>7. FreshNode \in NodeType /\ FreshNode.pc = "idle" /\ \A m \in TopicNames : FreshNode.slot[m] = NoSlot
    <2>1. /\ "idle" \in NodePCs /\ NoCall \in Calls /\ NoSlot \in SlotType /\ 0 \in Nat
        BY DEF NodePCs, Calls, NoSlot, SlotType, NoRow, RoleSet
    <2>2. [n \in Names |-> 0] \in [Names -> Nat] /\ [n \in TopicNames |-> NoSlot] \in [TopicNames -> SlotType]
        BY <2>1
    <2> QED
        BY <2>1, <2>2 DEF FreshNode, NodeType
<1>8. \A p \in Procs : node[p] = FreshNode /\ reg[p] = AtRest
    BY <1>1, Zenon
<1>9. Planned
    <2>1. \A p \in Procs : node[p].pc \notin Touching \cup {"attach"}
        BY <1>7, <1>8, Zenon DEF Touching
    <2>2. Observers \subseteq Procs
        BY NodeAssumption
    <2>3. alive \in [Procs -> BOOLEAN] /\ node \in [Procs -> NodeType]
        BY <1>1, <1>7
    <2>4. left.calls = s.calls /\ DOMAIN left = {"calls", "call", "unlink", "claim", "look"}
        BY <1>1
    <2> QED
        BY <1>7, <1>8, <2>1, <2>2, <2>3, <2>4 DEF Planned
<1>10. ASSUME NEW p \in Procs PROVE RegPlaced(reg[p]) /\ Calling(p, node[p], reg[p])
    <2>1. NoRow \in 0..Len(rows)
        BY <1>6, Table
    <2>2. RegPlaced(reg[p])
        BY <1>5, <1>8, <2>1 DEF RegPlaced
    <2>3. Calling(p, node[p], reg[p])
        BY <1>5, <1>7, <1>8 DEF Calling, Replacing
    <2> QED
        BY <2>2, <2>3
<1>11. \A p \in Procs : reg[p].pc \notin Writing /\ ~Handling(reg[p]) /\ Standing(node[p]) = {}
    BY <1>5, <1>7, <1>8, Zenon DEF Writing, Handling, Standing
<1>12. WritersAreAlone /\ WriterScenes /\ ReaderScenes /\ Copies
    <2>1. WritersAreAlone /\ WriterScenes
        BY <1>11 DEF WritersAreAlone, WriterScenes
    <2> QED
        BY <1>5, <1>8, <2>1 DEF ReaderScenes, Copies
<1>13. OwnersHold /\ SlotsInTable /\ RowsAreKnown
    BY <1>3, <1>4, <1>7, <1>8, <1>11 DEF OwnersHold, SlotsInTable, RowsAreKnown
<1> QED
    BY <1>3, <1>4, <1>6, <1>9, <1>10, <1>12, <1>13 DEF RegistryInv

\* Every step keeps the registry's half of the invariant; of the regions it
\* needs that an attach knows its object by number.
LEMMA RegistryKept ==
    ASSUME RegistryInv, \A p \in Procs : att[p].obj \in Nat, [Next]_vars
    PROVE  RegistryInv'
<1>0. DOMAIN left = {"calls", "call", "unlink", "claim", "look"}
    BY DEF RegistryInv, Planned
<1>1. CASE UNCHANGED vars
    BY <1>1, RegistryFrame DEF vars
<1>2. CASE Next
    <2> SUFFICES ASSUME NEW q \in Procs,
                        \/ OnlySetup
                        \/ ClaimRow(q) /\ OnlyRegistry
                        \/ SkipRow(q) /\ OnlyRegistry
                        \/ OpenGeneration(q) /\ OnlyRegistry
                        \/ StoreIdentity(q) /\ OnlyRegistry
                        \/ StoreFields(q) /\ OnlyRegistry
                        \/ StoreActive(q) /\ OnlyRegistry
                        \/ PublishRow(q) /\ OnlyRegistry
                        \/ RetireRow(q) /\ OnlyRegistry
                        \/ ClearIdentity(q) /\ OnlyRegistry
                        \/ SettleCleared(q) /\ OnlyRegistry
                        \/ PublishFree(q) /\ OnlyRegistry
                        \/ SweepState(q) /\ OnlyRegistry
                        \/ SweepGeneration(q) /\ OnlyRegistry
                        \/ SweepIdentity(q) /\ OnlyRegistry
                        \/ AcquireTenancy(q) /\ OnlyRegistry
                        \/ StoreReclaiming(q) /\ OnlyRegistry
                        \/ SnapState(q) /\ OnlyRegistry
                        \/ SnapGeneration(q) /\ OnlyRegistry
                        \/ SnapIdentity(q) /\ OnlyRegistry
                        \/ SnapFields(q) /\ OnlyRegistry
                        \/ SnapRecheck(q) /\ OnlyRegistry
                        \/ SnapEnd(q) /\ OnlyRegistry
                        \/ \E c \in left.calls[q] : CallCached(q, c) \/ CallAttach(q, c)
                        \/ AttachEnds(q) \/ TouchDisabled(q) \/ TouchLazily(q) \/ LazyEnds(q)
                        \/ TouchNew(q) \/ TouchCovered(q) \/ TouchUpgrade(q) \/ UpgradeRegisters(q)
                        \/ RegisterEnds(q) \/ BothEnds(q) \/ BothFails(q) \/ FallbackEnds(q)
                        \/ Leave(q) \/ Left(q)
                        \/ \E n \in TopicNames :
                               UnlinkTopic(q, n) \/ TryClaimTopicSchema(q, n) \/ ResetTopicSchema(q, n)
                        \/ Observe(q) \/ ObserveEnds(q) \/ Crash(q)
                 PROVE  RegistryInv'
        BY <1>2 DEF Next
    <2>1. CASE OnlySetup
        BY <2>1, RegistryFrame DEF OnlySetup, registryVars
    <2>2. CASE ClaimRow(q) /\ OnlyRegistry
        BY <2>2, RowIsTaken
    <2>3. CASE RetireRow(q) /\ OnlyRegistry
        BY <2>3, RowIsTaken
    <2>4. CASE AcquireTenancy(q) /\ OnlyRegistry
        BY <2>4, RowIsTaken, WalkGoesOn
    <2>5. CASE /\ OnlyRegistry
               /\ \/ OpenGeneration(q) \/ StoreIdentity(q) \/ StoreFields(q) \/ StoreActive(q)
                  \/ ClearIdentity(q) \/ SettleCleared(q)
        BY <2>5, WriterStores
    <2>6. CASE OnlyRegistry /\ (PublishRow(q) \/ PublishFree(q) \/ StoreReclaiming(q))
        BY <2>6, WriterLetsGo
    <2>7. CASE /\ OnlyRegistry
               /\ \/ SkipRow(q) \/ SweepState(q) \/ SweepGeneration(q) \/ SweepIdentity(q)
                  \/ SnapState(q) \/ SnapGeneration(q) \/ SnapIdentity(q) \/ SnapFields(q)
                  \/ SnapRecheck(q) \/ SnapEnd(q)
        BY <2>7, WalkGoesOn
    <2>8. CASE \/ \E c \in left.calls[q] : CallCached(q, c) \/ CallAttach(q, c)
               \/ AttachEnds(q) \/ TouchDisabled(q) \/ TouchLazily(q) \/ LazyEnds(q) \/ TouchCovered(q)
        BY <2>8, NodeMoves
    <2>9. CASE TouchNew(q) \/ UpgradeRegisters(q) \/ BothFails(q)
        BY <2>9, RegistrationStarts
    <2>10. CASE RegisterEnds(q) \/ BothEnds(q) \/ FallbackEnds(q)
        BY <2>10, RegistrationEnds
    <2>11. CASE TouchUpgrade(q) \/ Leave(q)
        BY <2>11, RowIsGivenUp
    <2>12. CASE Left(q) \/ Observe(q) \/ ObserveEnds(q)
        BY <2>12, OtherCalls
    <2>13. CASE \E n \in TopicNames : UnlinkTopic(q, n) \/ TryClaimTopicSchema(q, n) \/ ResetTopicSchema(q, n)
        <3>1. UNCHANGED <<alive, rows, reg, node>>
            BY <2>13 DEF UnlinkTopic, TryClaimTopicSchema, ResetTopicSchema, registryVars
        <3>2. DOMAIN left' = DOMAIN left /\ left'.calls = left.calls
            BY <1>0, <2>13 DEF UnlinkTopic, TryClaimTopicSchema, ResetTopicSchema
        <3> QED
            BY <3>1, <3>2, RegistryFrame
    <2>14. CASE Crash(q)
        BY <2>14, DeathIsBorne
    <2> QED
        BY <2>1, <2>2, <2>3, <2>4, <2>5, <2>6, <2>7, <2>8, <2>9, <2>10, <2>11, <2>12, <2>13, <2>14
<1> QED
    BY <1>1, <1>2

-----------------------------------------------------------------------------
(***************************************************************************)
(* The regions: how many objects a name may lead to.                       *)
(***************************************************************************)
\* The number of objects that may still be met under a name is finite.
LEMMA OfferedIsFinite ==
    ASSUME SetupTyped, NEW n \in Names
    PROVE  IsFiniteSet(Offered(n)) /\ Cardinality(Offered(n)) \in Nat
<1>1. Len(objs) \in Nat
    BY DEF SetupTyped
<1>2. IsFiniteSet(1..Len(objs))
    BY <1>1, FS_Interval
<1>3. Offered(n) \subseteq 1..Len(objs)
    BY DEF Offered
<1> QED
    BY <1>2, <1>3, FS_Subset, FS_CardinalityType

\* Nothing new is offered, and no unlink is taken back.
LEMMA OffersShrink ==
    ASSUME SetupTyped, SetupTyped', OffersAreCounted, \A n \in Names : Offered(n)' \subseteq Offered(n),
           \A n \in Names :
               unlinks'[n] + (IF path'[n] = 0 THEN 0 ELSE 1) >= unlinks[n] + (IF path[n] = 0 THEN 0 ELSE 1)
    PROVE  OffersAreCounted'
<1> SUFFICES ASSUME NEW n \in Names
             PROVE  Cardinality(Offered(n)') =< unlinks'[n] + (IF path'[n] = 0 THEN 0 ELSE 1)
    BY DEF OffersAreCounted
<1>1. IsFiniteSet(Offered(n)) /\ Cardinality(Offered(n)) \in Nat
    BY OfferedIsFinite
<1>2. Cardinality(Offered(n)') \in Nat /\ Cardinality(Offered(n)') =< Cardinality(Offered(n))
    BY <1>1, FS_Subset, FS_CardinalityType
<1>3. Cardinality(Offered(n)) =< unlinks[n] + (IF path[n] = 0 THEN 0 ELSE 1)
    BY DEF OffersAreCounted
<1>4. unlinks[n] \in Nat /\ unlinks'[n] \in Nat
    BY DEF SetupTyped
<1> QED
    BY <1>1, <1>2, <1>3, <1>4

\* The numbers of the objects, and what an attach finds under its own.
LEMMA ObjectTable ==
    ASSUME SetupTyped
    PROVE  /\ Len(objs) \in Nat /\ DOMAIN objs = 1..Len(objs) /\ \A o \in 1..Len(objs) : objs[o] \in ObjType
           /\ \A p \in Procs : att[p] \in AttType /\ att[p].obj \in Nat
           /\ \A p \in Procs : att[p].obj # 0 => att[p].obj \in 1..Len(objs)
<1>1. Len(objs) \in Nat /\ DOMAIN objs = 1..Len(objs) /\ \A o \in 1..Len(objs) : objs[o] \in ObjType
    BY DEF SetupTyped
<1>2. \A p \in Procs : att[p] \in AttType /\ att[p].obj =< Len(objs)
    BY Zenon DEF SetupTyped
<1>3. \A p \in Procs : att[p].obj \in Nat
    BY <1>2, Zenon DEF AttType
<1> QED
    BY <1>1, <1>2, <1>3

\* What process q may store, x into object o and a into its own locals.
StoreFits(q, o, x, a) ==
    /\ o \in 1..Len(objs) /\ x \in ObjType /\ a \in AttType /\ a.obj =< Len(objs) /\ AttPlaced(a, node[q])
    /\ objs[o].magic => x.magic /\ x.stamp = objs[o].stamp
    /\ x.magic => x.stamp # Blank /\ SchemaDone(x.schema)
    /\ \A p \in Procs \ {q} : att[p].pc \in MakingPCs => att[p].obj # o
    /\ \A p \in Procs \ {q} : alive[p] /\ att[p].pc \in ClaimSteps => att[p].obj # o
    /\ \/ a.pc \in MakingPCs \cup {"done"} \/ (x.magic /\ ~objs[o].magic)
       => att[q].pc \in MakingPCs /\ att[q].obj = o /\ a.obj = o /\ a.name = att[q].name
    /\ a.pc \in MakingPCs => ~x.magic
    /\ a.pc = "magic" => x.stamp = a.want /\ x.schema.state # "Claiming" /\ SchemaDone(x.schema)
    /\ a.pc = "done" => Suits(x, a.want, a.mode)
    /\ a.pc \in ClaimSteps => /\ a.obj = o /\ x.magic /\ x.schema.state = "Claiming"
                              /\ a.pc # "blob" => x.schema.blob = q
                              /\ a.pc = "set" => x.schema.data = q
    /\ a.pc # "peek"

\* Process q stores into an object, and perhaps takes a name away.
LEMMA StoreStep ==
    ASSUME Planned, SetupInv, NEW q \in Procs, alive[q], UNCHANGED <<alive, node, unlinks>>, faults' \in Nat,
           path' \in [Names -> Nat], \A n \in Names : path'[n] \in {path[n], 0},
           NEW o, NEW x, objs' = [objs EXCEPT ![o] = x], NEW a, att' = [att EXCEPT ![q] = a],
           StoreFits(q, o, x, a)
    PROVE  SetupInv' /\ \A n \in Names : Offered(n)' \subseteq Offered(n)
<1>0. /\ SetupTyped /\ Makers /\ Objects /\ Attached /\ Claimants
      /\ \A p \in Procs : AttPlaced(att[p], node[p])
    BY DEF SetupInv
<1>1. /\ o \in 1..Len(objs) /\ x \in ObjType /\ a \in AttType /\ a.obj =< Len(objs) /\ AttPlaced(a, node[q])
    BY DEF StoreFits
<1>2. /\ objs' \in Seq(ObjType) /\ Len(objs') = Len(objs) /\ DOMAIN objs' = DOMAIN objs
      /\ objs'[o] = x /\ \A i \in 1..Len(objs) : i # o => objs'[i] = objs[i]
    <2>1. objs \in Seq(ObjType)
        BY <1>0 DEF SetupTyped
    <2>2. objs' \in Seq(ObjType) /\ Len(objs') = Len(objs)
        BY <1>1, <2>1, ExceptSeq
    <2> QED
        BY <1>1, <2>1, <2>2
<1>3. /\ att' \in [Procs -> AttType] /\ att'[q] = a /\ \A p \in Procs \ {q} : att'[p] = att[p]
    BY <1>0, <1>1 DEF SetupTyped
<1>t. /\ DOMAIN objs = 1..Len(objs) /\ \A p \in Procs : att[p].obj # 0 => att[p].obj \in 1..Len(objs)
      /\ Len(objs) \in Nat
    BY <1>0, ObjectTable
<1>4. SetupTyped'
    <2>1. \A n \in Names : path'[n] =< Len(objs)
        BY <1>0, <1>t DEF SetupTyped
    <2>2. \A p \in Procs : att'[p].obj =< Len(objs)
        BY <1>0, <1>1, <1>3 DEF SetupTyped
    <2>3. unlinks' \in [Names -> Nat] /\ \A p \in Procs : \A n \in Names : node'[p].region[n] \in 0..Len(objs)
        BY <1>0 DEF SetupTyped
    <2> QED
        BY <1>2, <1>3, <2>1, <2>2, <2>3 DEF SetupTyped
<1>5. \A p \in Procs : AttPlaced(att'[p], node'[p])
    BY <1>0, <1>1, <1>3
<1>m. \A p \in Procs : att[p].pc \in MakingPCs \cup {"done"} \cup ClaimSteps => att[p].obj \in 1..Len(objs)
    BY <1>0, <1>t DEF AttPlaced
<1>6. Makers'
    <2> SUFFICES ASSUME NEW p \in Procs, att'[p].pc \in MakingPCs
                 PROVE  /\ ~objs'[att'[p].obj].magic
                        /\ \A r \in Procs \ {p} : att'[r].pc \in MakingPCs => att'[r].obj # att'[p].obj
                        /\ \A n \in Names : path'[n] = att'[p].obj => n = att'[p].name
                        /\ \A r \in Procs : att'[r].pc = "peek" /\ att'[r].obj = att'[p].obj
                                              => att'[r].name = att'[p].name
                        /\ att'[p].pc = "magic" =>
                               /\ objs'[att'[p].obj].stamp = att'[p].want
                               /\ objs'[att'[p].obj].schema.state # "Claiming"
                               /\ SchemaDone(objs'[att'[p].obj].schema)
        BY DEF Makers
    <2>0. att[p].pc \in MakingPCs /\ att'[p].obj = att[p].obj /\ att'[p].name = att[p].name /\ att[p].obj # 0
        <3>1. att[p].pc \in MakingPCs /\ att'[p].obj = att[p].obj /\ att'[p].name = att[p].name
            BY <1>3 DEF StoreFits
        <3> QED
            BY <1>m, <1>t, <3>1
    <2>1. \A r \in Procs \ {p} : att'[r].pc \in MakingPCs => att'[r].obj # att'[p].obj
        <3> SUFFICES ASSUME NEW r \in Procs \ {p}, att'[r].pc \in MakingPCs PROVE att'[r].obj # att'[p].obj
            OBVIOUS
        <3>1. att[r].pc \in MakingPCs /\ att'[r].obj = att[r].obj
            BY <1>3 DEF StoreFits
        <3> QED
            BY <1>0, <2>0, <3>1 DEF Makers
    <2>2. \A n \in Names : path'[n] = att'[p].obj => n = att'[p].name
        BY <1>0, <2>0 DEF Makers
    <2>3. \A r \in Procs : att'[r].pc = "peek" /\ att'[r].obj = att'[p].obj => att'[r].name = att'[p].name
        <3>1. \A r \in Procs : att'[r].pc = "peek" => att'[r] = att[r]
            BY <1>3 DEF StoreFits
        <3> QED
            BY <1>0, <2>0, <3>1 DEF Makers
    <2>4. CASE p = q
        <3>1. att'[p].obj = o /\ ~x.magic
            BY <1>3, <2>4 DEF StoreFits
        <3> QED
            BY <1>2, <1>3, <2>1, <2>2, <2>3, <2>4, <3>1 DEF StoreFits
    <2>5. CASE p # q
        <3>1. att'[p] = att[p] /\ att[p].obj # o /\ att[p].obj \in 1..Len(objs)
            BY <1>3, <1>m, <2>0, <2>5 DEF StoreFits
        <3>2. objs'[att'[p].obj] = objs[att[p].obj]
            BY <1>2, <3>1
        <3> QED
            BY <1>0, <2>0, <2>1, <2>2, <2>3, <3>1, <3>2 DEF Makers
    <2> QED
        BY <2>4, <2>5
<1>7. Objects'
    <2> SUFFICES ASSUME NEW i \in 1..Len(objs), objs'[i].magic
                 PROVE  objs'[i].stamp # Blank /\ SchemaDone(objs'[i].schema)
        BY <1>2, <1>t DEF Objects
    <2>1. CASE i = o
        BY <1>2, <2>1 DEF StoreFits
    <2>2. CASE i # o
        BY <1>0, <1>2, <1>t, <2>2 DEF Objects
    <2> QED
        BY <2>1, <2>2
<1>8. \A i \in 1..Len(objs) : objs[i].magic => objs'[i].magic /\ objs'[i].stamp = objs[i].stamp
    BY <1>2 DEF StoreFits
<1>s. ASSUME NEW i \in 1..Len(objs), NEW want, NEW mode, Suits(objs[i], want, mode)
      PROVE  Suits(objs'[i], want, mode)
    BY <1>8, <1>s DEF Suits
<1>9. Attached'
    <2>1. \A p \in Procs : att'[p].pc = "done" => Suits(objs'[att'[p].obj], att'[p].want, att'[p].mode)
        <3> SUFFICES ASSUME NEW p \in Procs, att'[p].pc = "done"
                     PROVE  Suits(objs'[att'[p].obj], att'[p].want, att'[p].mode)
            OBVIOUS
        <3>1. CASE p = q
            BY <1>2, <1>3, <3>1 DEF StoreFits
        <3>2. CASE p # q
            <4>1. att'[p] = att[p] /\ Suits(objs[att[p].obj], att[p].want, att[p].mode) /\ att[p].obj \in 1..Len(objs)
                BY <1>0, <1>3, <1>m, <3>2, Zenon DEF Attached
            <4> QED
                BY <1>s, <4>1
        <3> QED
            BY <3>1, <3>2
    <2>2. \A p \in Procs : \A n \in Names : node[p].region[n] # 0 => node[p].region[n] \in 1..Len(objs)
        BY <1>0, <1>t DEF SetupTyped
    <2>3. \A p \in Procs : \A n \in Names : node[p].region[n] # 0 => objs'[node[p].region[n]].magic
        BY <1>0, <1>8, <2>2, Zenon DEF Attached
    <2>4. ASSUME NEW p \in Procs, node[p].pc \in Touching
          PROVE  LET i == node[p].region[NameOf[node[p].call.want.topic]]
                 IN  i # 0 /\ Suits(objs'[i], node[p].call.want, node[p].call.mode)
        <3> DEFINE i == node[p].region[NameOf[node[p].call.want.topic]]
        <3>1. i # 0 /\ Suits(objs[i], node[p].call.want, node[p].call.mode)
            BY <1>0, <2>4, Zenon DEF Attached
        <3>2. NameOf[node[p].call.want.topic] \in Names
            BY <2>4, NodeAssumption DEF Planned, TopicNames
        <3>3. i \in 1..Len(objs)
            BY <2>2, <3>1, <3>2, Zenon
        <3> HIDE DEF i
        <3>4. i # 0 /\ Suits(objs'[i], node[p].call.want, node[p].call.mode)
            BY <1>s, <3>1, <3>3
        <3> QED
            BY <3>4, Zenon DEF i
    <2> QED
        BY <2>1, <2>3, <2>4, Zenon DEF Attached
<1>10. Claimants'
    <2> SUFFICES ASSUME NEW p \in Procs, alive[p], att'[p].pc \in ClaimSteps
                 PROVE  LET y == objs'[att'[p].obj]
                        IN  /\ y.magic /\ y.schema.state = "Claiming"
                            /\ \A r \in Procs \ {p} : alive[r] /\ att'[r].pc \in ClaimSteps => att'[r].obj # att'[p].obj
                            /\ att'[p].pc # "blob" => y.schema.blob = p
                            /\ att'[p].pc = "set" => y.schema.data = p
        BY DEF Claimants
    <2>1. CASE p = q
        <3>1. att'[p] = a /\ a.obj = o /\ objs'[o] = x
            BY <1>2, <1>3, <2>1 DEF StoreFits
        <3>2. \A r \in Procs \ {q} : alive[r] /\ att'[r].pc \in ClaimSteps => att'[r].obj # o
            BY <1>3 DEF StoreFits
        <3> QED
            BY <2>1, <3>1, <3>2 DEF StoreFits
    <2>2. CASE p # q
        <3>1. att'[p] = att[p] /\ att[p].obj # o /\ att[p].obj \in 1..Len(objs)
            BY <1>3, <1>m, <2>2 DEF StoreFits
        <3>2. objs'[att'[p].obj] = objs[att[p].obj]
            BY <1>2, <3>1
        <3>3. att'[q].pc \in ClaimSteps => att'[q].obj = o
            BY <1>3 DEF StoreFits
        <3> QED
            BY <1>0, <1>3, <3>1, <3>2, <3>3 DEF Claimants
    <2> QED
        BY <2>1, <2>2
<1>11. SetupInv'
    BY <1>4, <1>5, <1>6, <1>7, <1>9, <1>10 DEF SetupInv
<1>12. ASSUME NEW n \in Names, NEW i \in Offered(n)' PROVE i \in Offered(n)
    <2>0. i \in 1..Len(objs) /\ i # 0
        BY <1>2, <1>t DEF Offered
    <2>1. CASE path'[n] = i
        BY <2>0, <2>1 DEF Offered
    <2>2. ASSUME NEW p \in Procs, alive[p], att'[p].name = n, att'[p].obj = i, att'[p].pc \in MakingPCs
          PROVE  i \in Offered(n)
        <3>1. att[p].name = n /\ att[p].obj = i /\ att[p].pc \in MakingPCs
            BY <1>3, <2>2 DEF StoreFits
        <3> QED
            BY <2>0, <2>2, <3>1 DEF Offered
    <2>3. ASSUME NEW p \in Procs, alive[p], att'[p].name = n, att'[p].obj = i,
                 att'[p].pc \in {"peek", "done"}, objs'[i].magic
          PROVE  i \in Offered(n)
        <3>1. CASE p = q
            <4>1. att[q].name = n /\ att[q].obj = i /\ att[q].pc \in MakingPCs
                BY <1>3, <2>3, <3>1 DEF StoreFits
            <4> QED
                BY <2>0, <4>1 DEF Offered
        <3>2. CASE p # q /\ objs[i].magic
            BY <1>3, <2>0, <2>3, <3>2 DEF Offered
        <3>3. CASE p # q /\ ~objs[i].magic
            <4>1. i = o /\ x.magic /\ att'[p] = att[p]
                BY <1>2, <1>3, <2>0, <2>3, <3>3
            <4>2. att[q].pc \in MakingPCs /\ att[q].obj = i
                BY <3>3, <4>1 DEF StoreFits
            <4>3. att[p].pc = "peek"
                BY <1>0, <2>3, <3>3, <4>1, ZenonT(40) DEF Attached, Suits
            <4>4. att[q].name = n
                BY <1>0, <2>3, <4>1, <4>2, <4>3 DEF Makers
            <4> QED
                BY <2>0, <4>2, <4>4 DEF Offered
        <3> QED
            BY <3>1, <3>2, <3>3
    <2>4. ASSUME NEW p \in Procs, alive[p], node[p].region[n] = i
          PROVE  i \in Offered(n)
        <3>1. objs[i].magic
            BY <1>0, <2>0, <2>4, Zenon DEF Attached
        <3> QED
            BY <2>0, <2>4, <3>1 DEF Offered
    <2>5. \/ path'[n] = i
          \/ \E p \in Procs : alive[p] /\ att'[p].name = n /\ att'[p].obj = i /\ att'[p].pc \in MakingPCs
          \/ \E p \in Procs : /\ alive[p] /\ att'[p].name = n /\ att'[p].obj = i
                              /\ att'[p].pc \in {"peek", "done"} /\ objs'[i].magic
          \/ \E p \in Procs : alive[p] /\ node[p].region[n] = i
        BY DEF Offered
    <2> QED
        BY <2>1, <2>2, <2>3, <2>4, <2>5
<1> QED
    BY <1>11, <1>12


\* A step that only moves an attach on.
LEMMA AttMoved ==
    ASSUME SetupTyped, NEW q \in Procs, NEW pc \in AttPCs, AttGoto(q, pc)
    PROVE  \E a \in AttType :
               /\ att' = [att EXCEPT ![q] = a] /\ a.pc = pc
               /\ a.mode = att[q].mode /\ a.name = att[q].name /\ a.want = att[q].want /\ a.obj = att[q].obj
<1> DEFINE a == [att[q] EXCEPT !.pc = pc]
<1>1. att[q] \in AttType
    BY DEF SetupTyped
<1>2. /\ a \in AttType /\ a.pc = pc
      /\ a.mode = att[q].mode /\ a.name = att[q].name /\ a.want = att[q].want /\ a.obj = att[q].obj
    BY <1>1, Zenon DEF AttType
<1>3. att' = [att EXCEPT ![q] = a]
    BY DEF AttGoto
<1> HIDE DEF a
<1> QED
    BY <1>2, <1>3

\* Who makes an object, or writes its schema, is alone with it.
LEMMA AloneWithObject ==
    ASSUME SetupInv, NEW q \in Procs, alive[q], att[q].pc \in MakingPCs \cup ClaimSteps
    PROVE  /\ att[q].obj \in 1..Len(objs) /\ objs[att[q].obj] \in ObjType
           /\ \A p \in Procs \ {q} : att[p].pc \in MakingPCs => att[p].obj # att[q].obj
           /\ \A p \in Procs \ {q} : alive[p] /\ att[p].pc \in ClaimSteps => att[p].obj # att[q].obj
           /\ objs[att[q].obj].magic <=> att[q].pc \in ClaimSteps
<1>0. SetupTyped /\ Makers /\ Claimants /\ AttPlaced(att[q], node[q])
    BY DEF SetupInv
<1>1. att[q].obj \in 1..Len(objs) /\ objs[att[q].obj] \in ObjType
    BY <1>0, ObjectTable DEF AttPlaced
<1>2. CASE att[q].pc \in MakingPCs
    <2>1. ~objs[att[q].obj].magic /\ att[q].pc \notin ClaimSteps
        BY <1>0, <1>2 DEF Makers, MakingPCs, ClaimSteps
    <2>2. \A p \in Procs \ {q} : att[p].pc \in MakingPCs => att[p].obj # att[q].obj
        BY <1>0, <1>2 DEF Makers
    <2>3. \A p \in Procs \ {q} : alive[p] /\ att[p].pc \in ClaimSteps => att[p].obj # att[q].obj
        BY <1>0, <2>1 DEF Claimants
    <2> QED
        BY <1>1, <2>1, <2>2, <2>3
<1>3. CASE att[q].pc \in ClaimSteps
    <2>1. objs[att[q].obj].magic
        BY <1>0, <1>3 DEF Claimants
    <2>2. \A p \in Procs \ {q} : att[p].pc \in MakingPCs => att[p].obj # att[q].obj
        BY <1>0, <2>1 DEF Makers
    <2>3. \A p \in Procs \ {q} : alive[p] /\ att[p].pc \in ClaimSteps => att[p].obj # att[q].obj
        BY <1>0, <1>3 DEF Claimants
    <2> QED
        BY <1>1, <1>3, <2>1, <2>2, <2>3
<1> QED
    BY <1>2, <1>3

\* An attach that moves on among the steps of a maker keeps its place.
LEMMA MakerPlaced ==
    ASSUME NEW a, NEW b, NEW n, AttPlaced(a, n), a.pc \in MakingPCs, b.pc \in MakingPCs \cup {"done", "failed"},
           b.mode = a.mode, b.name = a.name, b.want = a.want, b.obj = a.obj
    PROVE  AttPlaced(b, n) /\ b.mode # "open" /\ b.want # Blank /\ b.obj # 0
<1>1. /\ a.obj # 0 /\ a.name \in Names /\ a.want # Blank /\ a.mode # "open"
      /\ n.pc = "attach" => a.name = NameOf[n.call.want.topic] /\ a.want = n.call.want /\ a.mode = n.call.mode
      /\ n.pc = "lazy" => a.name = RegistryName
      /\ n.pc \in {"attach", "lazy"}
    BY DEF AttPlaced, MakingPCs, ClaimSteps
<1>2. b.pc \notin ClaimSteps \cup {"idle"} /\ b.pc \notin {"open", "peek"}
    BY DEF MakingPCs, ClaimSteps
<1> QED
    BY <1>1, <1>2 DEF AttPlaced

\* The steps of a creator: size, stamp and magic, or a failure after the
\* object was made.
LEMMA RegionIsMade ==
    ASSUME Planned, SetupInv, NEW q \in Procs, OnlySetup,
           \/ (Map(q) \/ Stamp(q) \/ StampMagic(q)) /\ UNCHANGED faults
           \/ MapFails(q)
    PROVE  SetupInv' /\ \A n \in Names : Offered(n)' \subseteq Offered(n)
<1> DEFINE o == att[q].obj
<1>0. /\ SetupTyped /\ Makers /\ Objects /\ Attached /\ Claimants
      /\ AttPlaced(att[q], node[q])
    BY DEF SetupInv
<1>1. alive[q] /\ att[q].pc \in MakingPCs
    BY DEF Map, Stamp, StampMagic, MapFails, AttAt, MakingPCs
<1>2. /\ o \in 1..Len(objs) /\ objs[o] \in ObjType
      /\ \A p \in Procs \ {q} : att[p].pc \in MakingPCs => att[p].obj # o
      /\ \A p \in Procs \ {q} : alive[p] /\ att[p].pc \in ClaimSteps => att[p].obj # o
      /\ ~objs[o].magic
    BY <1>1, AloneWithObject DEF MakingPCs, ClaimSteps
<1>3. o =< Len(objs) /\ UNCHANGED <<alive, node>>
    BY <1>0 DEF SetupTyped, OnlySetup
<1>4. /\ UNCHANGED unlinks /\ faults' \in Nat /\ path' \in [Names -> Nat]
      /\ \A n \in Names : path'[n] \in {path[n], 0}
    <2>1. faults \in Nat /\ path \in [Names -> Nat]
        BY <1>0 DEF SetupTyped
    <2>2. UNCHANGED unlinks
        BY DEF Map, Stamp, StampMagic, MapFails
    <2>3. faults' \in Nat
        BY <2>1 DEF MapFails, Fault
    <2>4. path' = path \/ path' = [path EXCEPT ![att[q].name] = 0]
        BY DEF Map, Stamp, StampMagic, MapFails
    <2> QED
        BY <2>1, <2>2, <2>3, <2>4
<1>5. ASSUME NEW x \in ObjType, objs' = [objs EXCEPT ![o] = x],
             NEW a \in AttType, att' = [att EXCEPT ![q] = a], a.pc \in MakingPCs \cup {"done", "failed"},
             a.mode = att[q].mode, a.name = att[q].name, a.want = att[q].want, a.obj = o,
             x.magic <=> a.pc = "done", SchemaDone(x.schema) \/ (a.pc # "magic" /\ ~x.magic),
             a.pc \in {"magic", "done"} => x.stamp = a.want /\ x.schema.state # "Claiming"
      PROVE  SetupInv' /\ \A n \in Names : Offered(n)' \subseteq Offered(n)
    <2>1. AttPlaced(a, node[q]) /\ a.mode # "open" /\ a.want # Blank
        BY <1>0, <1>1, <1>5, MakerPlaced
    <2>2. a.pc \notin ClaimSteps /\ a.pc # "peek" /\ (a.pc \in MakingPCs => a.pc # "done") /\ a.pc # "idle"
        BY <1>5 DEF MakingPCs, ClaimSteps
    <2>3. a.pc = "done" => Suits(x, a.want, a.mode)
        BY <1>5, <2>1 DEF Suits
    <2>4. StoreFits(q, o, x, a)
        BY <1>1, <1>2, <1>3, <1>5, <2>1, <2>2, <2>3 DEF StoreFits
    <2> QED
        BY <1>1, <1>3, <1>4, <1>5, <2>4, StoreStep, Zenon
<1>6. CASE Map(q)
    <2>1. PICK a \in AttType :
               /\ att' = [att EXCEPT ![q] = a] /\ a.pc = "stamp"
               /\ a.mode = att[q].mode /\ a.name = att[q].name /\ a.want = att[q].want /\ a.obj = att[q].obj
        BY <1>0, <1>6, AttMoved DEF Map, AttPCs, MakingPCs
    <2> DEFINE x == [objs[o] EXCEPT !.sized = TRUE]
    <2>2. x \in ObjType /\ x.magic = objs[o].magic
        BY <1>2 DEF ObjType
    <2>3. objs' = [objs EXCEPT ![o] = x]
        BY <1>6 DEF Map
    <2> HIDE DEF x
    <2> QED
        BY <1>2, <1>5, <2>1, <2>2, <2>3 DEF MakingPCs
<1>7. CASE MapFails(q)
    <2>1. PICK a \in AttType :
               /\ att' = [att EXCEPT ![q] = a] /\ a.pc = "failed"
               /\ a.mode = att[q].mode /\ a.name = att[q].name /\ a.want = att[q].want /\ a.obj = att[q].obj
        BY <1>0, <1>7, AttMoved DEF MapFails, AttPCs
    <2>2. PICK sized \in BOOLEAN : objs' = [objs EXCEPT ![o].sized = sized]
        BY <1>7 DEF MapFails
    <2> DEFINE x == [objs[o] EXCEPT !.sized = sized]
    <2>3. x \in ObjType /\ x.magic = objs[o].magic
        BY <1>2 DEF ObjType
    <2>4. objs' = [objs EXCEPT ![o] = x]
        BY <2>2
    <2> HIDE DEF x
    <2> QED
        BY <1>2, <1>5, <2>1, <2>3, <2>4
<1>8. CASE Stamp(q)
    <2>1. PICK a \in AttType :
               /\ att' = [att EXCEPT ![q] = a] /\ a.pc = "magic"
               /\ a.mode = att[q].mode /\ a.name = att[q].name /\ a.want = att[q].want /\ a.obj = att[q].obj
        BY <1>0, <1>8, AttMoved DEF Stamp, AttPCs, MakingPCs
    <2> DEFINE s == IF att[q].want.schema THEN [state |-> "Set", blob |-> q, data |-> q] ELSE NoSchema
               x == [objs[o] EXCEPT !.stamp = att[q].want, !.schema = s]
    <2>2. s \in SchemaType /\ s.state # "Claiming" /\ SchemaDone(s)
        BY NodeAssumption DEF SchemaType, NoSchema, SchemaDone
    <2>3. objs' = [objs EXCEPT ![o] = x]
        BY <1>8 DEF Stamp
    <2> HIDE DEF s
    <2>4. att[q].want \in Wants
        BY <1>0, Zenon DEF SetupTyped, AttType
    <2>5. x \in ObjType /\ x.magic = objs[o].magic /\ x.stamp = att[q].want /\ x.schema = s
        BY <1>2, <2>2, <2>4 DEF ObjType
    <2> HIDE DEF x
    <2> QED
        BY <1>2, <1>5, <2>1, <2>2, <2>3, <2>5 DEF MakingPCs
<1>9. CASE StampMagic(q)
    <2>1. PICK a \in AttType :
               /\ att' = [att EXCEPT ![q] = a] /\ a.pc = "done"
               /\ a.mode = att[q].mode /\ a.name = att[q].name /\ a.want = att[q].want /\ a.obj = att[q].obj
        BY <1>0, <1>9, AttMoved DEF StampMagic, AttPCs
    <2> DEFINE x == [objs[o] EXCEPT !.magic = TRUE]
    <2>2. x \in ObjType /\ x.magic /\ x.stamp = objs[o].stamp /\ x.schema = objs[o].schema
        BY <1>2 DEF ObjType
    <2>3. objs' = [objs EXCEPT ![o] = x]
        BY <1>9 DEF StampMagic
    <2>4. objs[o].stamp = att[q].want /\ objs[o].schema.state # "Claiming" /\ SchemaDone(objs[o].schema)
        BY <1>0, <1>1, <1>9 DEF Makers, StampMagic, AttAt
    <2> HIDE DEF x
    <2> QED
        BY <1>2, <1>5, <2>1, <2>2, <2>3, <2>4
<1> QED
    BY <1>6, <1>7, <1>8, <1>9


\* The locals of a schema claim keep their place.
LEMMA ClaimantPlaced ==
    ASSUME NEW a, NEW b, NEW n, AttPlaced(a, n), a.pc \in ClaimSteps \cup {"idle"}, b.pc \in ClaimSteps \cup {"idle"},
           n.pc \notin {"attach", "lazy"} \/ a.pc \in ClaimSteps, b.pc = "idle" \/ b.obj # 0
    PROVE  AttPlaced(b, n)
<1>1. n.pc \notin {"attach", "lazy"}
    BY DEF AttPlaced
<1>2. b.pc \notin MakingPCs \cup {"unlink", "excl"} /\ b.pc \notin {"open", "peek"} /\ b.pc # "done"
    BY DEF MakingPCs, ClaimSteps
<1> QED
    BY <1>1, <1>2 DEF AttPlaced, ClaimSteps

\* try_claim_schema after its CAS and reset_schema_claim: the claim in a
\* region's header changes, and nothing a maker or an opener looks at.
LEMMA SchemaIsClaimed ==
    ASSUME Planned, SetupInv, NEW q \in Procs,
           \/ OnlySetup /\ (SchemaBlob(q) \/ SchemaData(q) \/ SchemaSet(q)) /\ UNCHANGED faults
           \/ \E n \in TopicNames : TryClaimTopicSchema(q, n) \/ ResetTopicSchema(q, n)
    PROVE  /\ SetupInv' /\ \A n \in Names : Offered(n)' \subseteq Offered(n)
           /\ UNCHANGED <<path, unlinks>>
<1>0. /\ SetupTyped /\ Makers /\ Objects /\ Attached /\ Claimants
      /\ AttPlaced(att[q], node[q])
    BY DEF SetupInv
<1>1. alive[q] /\ UNCHANGED <<alive, node, path, unlinks, faults>>
    BY Zenon DEF OnlySetup, SchemaBlob, SchemaData, SchemaSet, TryClaimTopicSchema, ResetTopicSchema, ClaimSchema,
           ResetSchemaClaim, AttAt, NodeAt
<1>2. faults' \in Nat /\ path' \in [Names -> Nat] /\ \A n \in Names : path'[n] \in {path[n], 0}
    BY <1>0, <1>1 DEF SetupTyped
<1>3. ASSUME NEW o \in 1..Len(objs), objs[o].magic,
             NEW s \in SchemaType, objs' = [objs EXCEPT ![o] = [objs[o] EXCEPT !.schema = s]],
             NEW a \in AttType, att' = [att EXCEPT ![q] = a], a.pc \in ClaimSteps \cup {"idle"}, a.obj =< Len(objs),
             AttPlaced(a, node[q]), SchemaDone(s),
             \A p \in Procs \ {q} : alive[p] /\ att[p].pc \in ClaimSteps => att[p].obj # o,
             a.pc \in ClaimSteps => a.obj = o /\ s.state = "Claiming",
             a.pc \in {"data", "set"} => s.blob = q, a.pc = "set" => s.data = q
      PROVE  SetupInv' /\ \A n \in Names : Offered(n)' \subseteq Offered(n)
    <2> DEFINE x == [objs[o] EXCEPT !.schema = s]
    <2>1. objs[o] \in ObjType
        BY <1>0, ObjectTable
    <2>2. x \in ObjType /\ x.magic = objs[o].magic /\ x.stamp = objs[o].stamp /\ x.schema = s
        BY <2>1 DEF ObjType
    <2>3. objs' = [objs EXCEPT ![o] = x]
        BY <1>3
    <2> HIDE DEF x
    <2>4. objs[o].stamp # Blank /\ \A p \in Procs : att[p].pc \in MakingPCs => att[p].obj # o
        BY <1>0, <1>3, ObjectTable DEF Objects, Makers
    <2>5. a.pc \notin MakingPCs \cup {"done"} /\ a.pc # "peek" /\ a.pc # "magic"
        BY <1>3 DEF MakingPCs, ClaimSteps
    <2>6. a.pc \in ClaimSteps /\ a.pc # "blob" => a.pc \in {"data", "set"}
        BY DEF ClaimSteps
    <2>7. StoreFits(q, o, x, a)
        BY <1>3, <2>2, <2>4, <2>5, <2>6 DEF StoreFits
    <2> QED
        BY <1>1, <1>2, <1>3, <2>3, <2>7, StoreStep, Zenon
<1>4. ASSUME OnlySetup, att[q].pc \in ClaimSteps
      PROVE  /\ att[q].obj \in 1..Len(objs) /\ objs[att[q].obj].magic
             /\ objs[att[q].obj].schema \in SchemaType /\ objs[att[q].obj].schema.state = "Claiming"
             /\ \A p \in Procs \ {q} : alive[p] /\ att[p].pc \in ClaimSteps => att[p].obj # att[q].obj
             /\ att[q].pc # "blob" => objs[att[q].obj].schema.blob = q
             /\ att[q].pc = "set" => objs[att[q].obj].schema.data = q
             /\ att[q].obj # 0 /\ att[q].obj =< Len(objs)
    <2>1. att[q].obj \in 1..Len(objs) /\ objs[att[q].obj] \in ObjType
        BY <1>1, <1>4, AloneWithObject
    <2>2. objs[att[q].obj].schema \in SchemaType
        BY <2>1 DEF ObjType
    <2>3. att[q].obj # 0 /\ att[q].obj =< Len(objs)
        BY <1>0, <1>4 DEF AttPlaced, SetupTyped
    <2> QED
        BY <1>0, <1>1, <1>4, <2>1, <2>2, <2>3 DEF Claimants
<1>5. CASE SchemaBlob(q) /\ OnlySetup
    <2>0. att[q].pc = "blob" /\ att[q].pc \in ClaimSteps
        BY <1>5 DEF SchemaBlob, AttAt, ClaimSteps
    <2>1. PICK a \in AttType :
               /\ att' = [att EXCEPT ![q] = a] /\ a.pc = "data"
               /\ a.mode = att[q].mode /\ a.name = att[q].name /\ a.want = att[q].want /\ a.obj = att[q].obj
        BY <1>0, <1>5, AttMoved DEF SchemaBlob, AttPCs, ClaimSteps
    <2> DEFINE o == att[q].obj
               s == [objs[o].schema EXCEPT !.blob = q]
    <2>2. s \in SchemaType /\ s.state = "Claiming" /\ s.blob = q
        BY <1>4, <1>5, <2>0 DEF SchemaType
    <2>3. objs' = [objs EXCEPT ![o] = [objs[o] EXCEPT !.schema = s]]
        BY <1>5 DEF SchemaBlob
    <2> HIDE DEF s
    <2>4. AttPlaced(a, node[q])
        BY <1>0, <1>4, <1>5, <2>0, <2>1, ClaimantPlaced DEF ClaimSteps
    <2>5. SchemaDone(s) /\ a.pc \in ClaimSteps \cup {"idle"}
        BY <2>1, <2>2 DEF SchemaDone, ClaimSteps
    <2> QED
        BY <1>1, <1>3, <1>4, <1>5, <2>0, <2>1, <2>2, <2>3, <2>4, <2>5
<1>6. CASE SchemaData(q) /\ OnlySetup
    <2>0. att[q].pc = "data" /\ att[q].pc \in ClaimSteps
        BY <1>6 DEF SchemaData, AttAt, ClaimSteps
    <2>1. PICK a \in AttType :
               /\ att' = [att EXCEPT ![q] = a] /\ a.pc = "set"
               /\ a.mode = att[q].mode /\ a.name = att[q].name /\ a.want = att[q].want /\ a.obj = att[q].obj
        BY <1>0, <1>6, AttMoved DEF SchemaData, AttPCs, ClaimSteps
    <2> DEFINE o == att[q].obj
               s == [objs[o].schema EXCEPT !.data = q]
    <2>2. s \in SchemaType /\ s.state = "Claiming" /\ s.blob = q /\ s.data = q
        BY <1>4, <1>6, <2>0 DEF SchemaType
    <2>3. objs' = [objs EXCEPT ![o] = [objs[o] EXCEPT !.schema = s]]
        BY <1>6 DEF SchemaData
    <2> HIDE DEF s
    <2>4. AttPlaced(a, node[q])
        BY <1>0, <1>4, <1>6, <2>0, <2>1, ClaimantPlaced DEF ClaimSteps
    <2>5. SchemaDone(s) /\ a.pc \in ClaimSteps \cup {"idle"}
        BY <2>1, <2>2 DEF SchemaDone, ClaimSteps
    <2> QED
        BY <1>1, <1>3, <1>4, <1>6, <2>0, <2>1, <2>2, <2>3, <2>4, <2>5
<1>7. CASE SchemaSet(q) /\ OnlySetup
    <2>0. att[q].pc = "set" /\ att[q].pc \in ClaimSteps
        BY <1>7 DEF SchemaSet, AttAt, ClaimSteps
    <2>1. PICK a \in AttType :
               /\ att' = [att EXCEPT ![q] = a] /\ a.pc = "idle"
               /\ a.mode = att[q].mode /\ a.name = att[q].name /\ a.want = att[q].want /\ a.obj = att[q].obj
        BY <1>0, <1>7, AttMoved DEF SchemaSet, AttPCs
    <2> DEFINE o == att[q].obj
               s == [objs[o].schema EXCEPT !.state = "Set"]
    <2>2. s \in SchemaType /\ s.blob = q /\ s.data = q
        BY <1>4, <1>7, <2>0 DEF SchemaType
    <2>3. objs' = [objs EXCEPT ![o] = [objs[o] EXCEPT !.schema = s]]
        BY <1>7 DEF SchemaSet
    <2> HIDE DEF s
    <2>4. AttPlaced(a, node[q])
        BY <1>0, <1>4, <1>7, <2>0, <2>1, ClaimantPlaced
    <2>5. SchemaDone(s) /\ a.pc \notin ClaimSteps
        BY <2>1, <2>2, NodeAssumption DEF SchemaDone, ClaimSteps
    <2> QED
        BY <1>1, <1>3, <1>4, <1>7, <2>0, <2>1, <2>2, <2>3, <2>4, <2>5
<1>8. ASSUME NEW n \in TopicNames, node[q].region[n] # 0
      PROVE  /\ node[q].region[n] \in 1..Len(objs) /\ node[q].region[n] =< Len(objs)
             /\ objs[node[q].region[n]].magic /\ objs[node[q].region[n]].schema \in SchemaType
    <2>1. n \in Names
        BY DEF TopicNames
    <2>2. Len(objs) \in Nat /\ node[q].region[n] \in 0..Len(objs)
        BY <1>0, <2>1 DEF SetupTyped
    <2>3. node[q].region[n] \in 1..Len(objs) /\ node[q].region[n] =< Len(objs)
        BY <1>8, <2>2
    <2>4. objs[node[q].region[n]] \in ObjType
        BY <1>0, <2>3, ObjectTable
    <2> QED
        BY <1>0, <1>8, <2>1, <2>3, <2>4, Zenon DEF Attached, ObjType
<1>9. ASSUME NEW n \in TopicNames, TryClaimTopicSchema(q, n)
      PROVE  SetupInv' /\ \A m \in Names : Offered(m)' \subseteq Offered(m)
    <2> DEFINE o == node[q].region[n]
               s == [objs[o].schema EXCEPT !.state = "Claiming"]
               a == [att[q] EXCEPT !.pc = "blob", !.obj = o]
    <2>1. /\ o # 0 /\ o \in 1..Len(objs) /\ o =< Len(objs) /\ objs[o].magic /\ objs[o].schema \in SchemaType
          /\ objs[o].schema.state = "Unset" /\ att[q].pc = "idle" /\ node[q].pc = "idle"
        BY <1>8, <1>9, Zenon DEF TryClaimTopicSchema, ClaimSchema, SchemaIsOpen, NodeAt
    <2>2. s \in SchemaType /\ s.state = "Claiming" /\ SchemaDone(s)
        BY <2>1 DEF SchemaType, SchemaDone
    <2>3. objs' = [objs EXCEPT ![o] = [objs[o] EXCEPT !.schema = s]]
        BY <1>9, Zenon DEF TryClaimTopicSchema, ClaimSchema
    <2>4. att' = [att EXCEPT ![q] = a]
        BY <1>9, Zenon DEF TryClaimTopicSchema, ClaimSchema
    <2>5. att[q] \in AttType /\ o \in Nat
        BY <1>0, <2>1 DEF SetupTyped
    <2>6. a \in AttType /\ a.pc = "blob" /\ a.obj = o
        BY <2>5, Zenon DEF AttType, AttPCs, ClaimSteps
    <2>7. \A p \in Procs : alive[p] /\ att[p].pc \in ClaimSteps => att[p].obj # o
        BY <1>0, <2>1 DEF Claimants
    <2> HIDE DEF o, s, a
    <2>8. AttPlaced(a, node[q])
        BY <1>0, <2>1, <2>6, ClaimantPlaced DEF ClaimSteps
    <2>9. a.pc \in ClaimSteps
        BY <2>6 DEF ClaimSteps
    <2> QED
        BY <1>3, <2>1, <2>2, <2>3, <2>4, <2>6, <2>7, <2>8, <2>9, Zenon
<1>10. ASSUME NEW n \in TopicNames, ResetTopicSchema(q, n)
       PROVE  SetupInv' /\ \A m \in Names : Offered(m)' \subseteq Offered(m)
    <2> DEFINE o == node[q].region[n]
               s == [objs[o].schema EXCEPT !.state = "Unset"]
               a == att[q]
    <2>1. /\ o \in 1..Len(objs) /\ objs[o].magic /\ objs[o].schema \in SchemaType
          /\ a.pc = "idle"
          /\ \A p \in Procs : alive[p] /\ att[p].pc \in ClaimSteps => att[p].obj # o
        BY <1>8, <1>10, Zenon DEF ResetTopicSchema, ResetSchemaClaim
    <2>2. s \in SchemaType /\ SchemaDone(s)
        BY <2>1 DEF SchemaType, SchemaDone
    <2>3. objs' = [objs EXCEPT ![o] = [objs[o] EXCEPT !.schema = s]]
        BY <1>10, Zenon DEF ResetTopicSchema, ResetSchemaClaim
    <2>4. att' = [att EXCEPT ![q] = a] /\ a \in AttType /\ a.obj =< Len(objs)
        BY <1>0, <1>10, Zenon DEF ResetTopicSchema, ResetSchemaClaim, SetupTyped
    <2>5. AttPlaced(a, node[q]) /\ a.pc \notin ClaimSteps
        BY <1>0, <2>1 DEF ClaimSteps
    <2> HIDE DEF o, s, a
    <2> QED
        BY <1>3, <2>1, <2>2, <2>3, <2>4, <2>5, Zenon
<1>11. SetupInv' /\ \A n \in Names : Offered(n)' \subseteq Offered(n)
    BY <1>5, <1>6, <1>7, <1>9, <1>10
<1> QED
    BY <1>1, <1>11


\* What process q may move on to, a its locals and n its node, while the
\* objects stay as they are.
MoveFits(q, a, n) ==
    /\ a \in AttType /\ a.obj =< Len(objs) /\ AttPlaced(a, n)
    /\ a.pc \in MakingPCs \cup ClaimSteps => a = att[q]
    /\ a.pc = "peek" => a = att[q] \/ path[a.name] = a.obj
    /\ a.pc = "done" => /\ Suits(objs[a.obj], a.want, a.mode)
                        /\ a = att[q] \/ (a.name = att[q].name /\ a.obj = att[q].obj /\ att[q].pc = "peek")
    /\ \A m \in Names : n.region[m] # node[q].region[m] =>
                            att[q].pc = "done" /\ n.region[m] = att[q].obj /\ m = att[q].name
    /\ n.pc \in Touching => /\ n.region[NameOf[n.call.want.topic]] # 0
                            /\ Suits(objs[n.region[NameOf[n.call.want.topic]]], n.call.want, n.call.mode)

\* Process q moves on and perhaps takes a name away.
LEMMA MoveStep ==
    ASSUME Planned, SetupInv, NEW q \in Procs, alive[q], UNCHANGED <<alive, objs>>, faults' \in Nat,
           path' \in [Names -> Nat], \A m \in Names : path'[m] \in {path[m], 0}, unlinks' \in [Names -> Nat],
           NEW a, att' = [att EXCEPT ![q] = a], NEW n, node' = [node EXCEPT ![q] = n], MoveFits(q, a, n)
    PROVE  SetupInv' /\ \A m \in Names : Offered(m)' \subseteq Offered(m)
<1>0. /\ SetupTyped /\ Makers /\ Objects /\ Attached /\ Claimants
      /\ \A p \in Procs : AttPlaced(att[p], node[p])
    BY DEF SetupInv
<1>1. a \in AttType /\ a.obj =< Len(objs) /\ AttPlaced(a, n)
    BY Zenon DEF MoveFits
<1>2. att' \in [Procs -> AttType] /\ att'[q] = a /\ \A p \in Procs \ {q} : att'[p] = att[p]
    BY <1>0, <1>1 DEF SetupTyped
<1>3. node'[q] = n /\ \A p \in Procs \ {q} : node'[p] = node[p]
    BY DEF Planned
<1>4. Len(objs) \in Nat /\ \A p \in Procs : att[p].obj # 0 => att[p].obj \in 1..Len(objs)
    BY <1>0, ObjectTable
<1>5. \A m \in Names : n.region[m] \in 0..Len(objs) /\ (n.region[m] # 0 => objs[n.region[m]].magic)
    <2> SUFFICES ASSUME NEW m \in Names
                 PROVE  n.region[m] \in 0..Len(objs) /\ (n.region[m] # 0 => objs[n.region[m]].magic)
        OBVIOUS
    <2>1. CASE n.region[m] = node[q].region[m]
        BY <1>0, <2>1, Zenon DEF SetupTyped, Attached
    <2>2. CASE n.region[m] # node[q].region[m]
        <3>1. att[q].pc = "done" /\ n.region[m] = att[q].obj
            BY <2>2, Zenon DEF MoveFits
        <3>2. att[q].obj # 0 /\ Suits(objs[att[q].obj], att[q].want, att[q].mode)
            BY <1>0, <3>1, Zenon DEF AttPlaced, Attached
        <3>3. att[q].obj \in 0..Len(objs)
            BY <1>4, <3>2
        <3> QED
            BY <3>1, <3>2, <3>3 DEF Suits
    <2> QED
        BY <2>1, <2>2
<1>6. SetupTyped'
    <2>1. \A m \in Names : path'[m] =< Len(objs)
        <3>1. \A m \in Names : path[m] =< Len(objs) /\ 0 =< Len(objs)
            BY <1>0, <1>4 DEF SetupTyped
        <3> QED
            BY <3>1
    <2>2. \A p \in Procs : att'[p].obj =< Len(objs)
        BY <1>0, <1>1, <1>2 DEF SetupTyped
    <2>3. \A p \in Procs : \A m \in Names : node'[p].region[m] \in 0..Len(objs)
        BY <1>0, <1>3, <1>5 DEF SetupTyped
    <2>4. objs' \in Seq(ObjType)
        BY <1>0 DEF SetupTyped
    <2> QED
        BY <1>2, <2>1, <2>2, <2>3, <2>4 DEF SetupTyped
<1>7. \A p \in Procs : AttPlaced(att'[p], node'[p])
    BY <1>0, <1>1, <1>2, <1>3
<1>8. \A p \in Procs : att'[p].pc \in MakingPCs \cup ClaimSteps => att'[p] = att[p]
    BY <1>2, Zenon DEF MoveFits
<1>9. Makers'
    <2> SUFFICES ASSUME NEW p \in Procs, att'[p].pc \in MakingPCs
                 PROVE  /\ ~objs[att'[p].obj].magic
                        /\ \A r \in Procs \ {p} : att'[r].pc \in MakingPCs => att'[r].obj # att'[p].obj
                        /\ \A m \in Names : path'[m] = att'[p].obj => m = att'[p].name
                        /\ \A r \in Procs : att'[r].pc = "peek" /\ att'[r].obj = att'[p].obj
                                              => att'[r].name = att'[p].name
                        /\ att'[p].pc = "magic" =>
                               /\ objs[att'[p].obj].stamp = att'[p].want
                               /\ objs[att'[p].obj].schema.state # "Claiming"
                               /\ SchemaDone(objs[att'[p].obj].schema)
        BY DEF Makers
    <2>1. att'[p] = att[p] /\ att[p].pc \in MakingPCs /\ att[p].obj # 0
        BY <1>0, <1>8 DEF AttPlaced
    <2>2. \A r \in Procs \ {p} : att'[r].pc \in MakingPCs => att'[r].obj # att'[p].obj
        BY <1>0, <1>8, <2>1 DEF Makers
    <2>3. \A m \in Names : path'[m] = att'[p].obj => m = att'[p].name
        BY <1>0, <2>1 DEF Makers
    <2>4. ASSUME NEW r \in Procs, att'[r].pc = "peek", att'[r].obj = att'[p].obj
          PROVE  att'[r].name = att'[p].name
        <3>1. CASE att'[r] = att[r]
            BY <1>0, <2>1, <2>4, <3>1 DEF Makers
        <3>2. CASE att'[r] # att[r]
            <4>1. r = q /\ path[a.name] = a.obj /\ a.pc = "peek"
                BY <1>2, <2>4, <3>2, Zenon DEF MoveFits
            <4>2. a.name \in Names
                BY <1>1, <4>1 DEF AttPlaced, ClaimSteps
            <4> QED
                BY <1>0, <1>2, <2>1, <2>4, <4>1, <4>2 DEF Makers
        <3> QED
            BY <3>1, <3>2
    <2> QED
        BY <1>0, <2>1, <2>2, <2>3, <2>4 DEF Makers
<1>10. Objects'
    BY <1>0 DEF Objects
<1>11. Attached'
    <2>1. \A p \in Procs : att'[p].pc = "done" => Suits(objs[att'[p].obj], att'[p].want, att'[p].mode)
        BY <1>0, <1>2, Zenon DEF Attached, MoveFits
    <2>2. \A p \in Procs : \A m \in Names : node'[p].region[m] # 0 => objs[node'[p].region[m]].magic
        <3> SUFFICES ASSUME NEW p \in Procs, NEW m \in Names, node'[p].region[m] # 0
                     PROVE  objs[node'[p].region[m]].magic
            OBVIOUS
        <3>1. CASE p = q
            BY <1>3, <1>5, <3>1
        <3>2. CASE p # q
            <4>1. node'[p] = node[p]
                BY <1>3, <3>2
            <4> QED
                BY <1>0, <4>1, Zenon DEF Attached
        <3> QED
            BY <3>1, <3>2
    <2>3. \A p \in Procs : node'[p].pc \in Touching =>
              /\ node'[p].region[NameOf[node'[p].call.want.topic]] # 0
              /\ Suits(objs[node'[p].region[NameOf[node'[p].call.want.topic]]], node'[p].call.want, node'[p].call.mode)
        <3> SUFFICES ASSUME NEW p \in Procs, node'[p].pc \in Touching
                     PROVE  /\ node'[p].region[NameOf[node'[p].call.want.topic]] # 0
                            /\ Suits(objs[node'[p].region[NameOf[node'[p].call.want.topic]]],
                                     node'[p].call.want, node'[p].call.mode)
            OBVIOUS
        <3>1. CASE p = q
            BY <1>3, <3>1, Zenon DEF MoveFits
        <3>2. CASE p # q
            <4>1. node'[p] = node[p]
                BY <1>3, <3>2
            <4> QED
                BY <1>0, <4>1, Zenon DEF Attached
        <3> QED
            BY <3>1, <3>2, ZenonT(40)
    <2> QED
        BY <2>1, <2>2, <2>3, Zenon DEF Attached
<1>12. Claimants'
    BY <1>0, <1>8 DEF Claimants
<1>13. SetupInv'
    BY <1>6, <1>7, <1>9, <1>10, <1>11, <1>12 DEF SetupInv
<1>14. ASSUME NEW m \in Names, NEW i \in Offered(m)' PROVE i \in Offered(m)
    <2>0. i \in 1..Len(objs) /\ i # 0
        BY <1>4 DEF Offered
    <2>1. CASE path'[m] = i
        BY <2>0, <2>1 DEF Offered
    <2>2. ASSUME NEW p \in Procs, alive[p], att'[p].name = m, att'[p].obj = i, att'[p].pc \in MakingPCs
          PROVE  i \in Offered(m)
        BY <1>8, <2>0, <2>2 DEF Offered
    <2>3. ASSUME NEW p \in Procs, alive[p], att'[p].name = m, att'[p].obj = i,
                 att'[p].pc \in {"peek", "done"}, objs[i].magic
          PROVE  i \in Offered(m)
        <3>1. CASE att'[p] = att[p]
            BY <2>0, <2>3, <3>1 DEF Offered
        <3>2. CASE att'[p] # att[p]
            <4>1. p = q
                BY <1>2, <3>2
            <4>2. path[m] = i \/ (att[q].name = m /\ att[q].obj = i /\ att[q].pc = "peek")
                BY <1>2, <2>3, <3>2, <4>1, Zenon DEF MoveFits
            <4> QED
                BY <2>0, <2>3, <4>2 DEF Offered
        <3> QED
            BY <3>1, <3>2
    <2>4. ASSUME NEW p \in Procs, alive[p], node'[p].region[m] = i, objs[i].magic
          PROVE  i \in Offered(m)
        <3>1. CASE node'[p].region[m] = node[p].region[m]
            BY <2>0, <2>4, <3>1 DEF Offered
        <3>2. CASE node'[p].region[m] # node[p].region[m]
            <4>1. p = q
                BY <1>3, <3>2
            <4>a. n.region[m] = i /\ n.region[m] # node[q].region[m]
                BY <1>3, <2>4, <3>2, <4>1
            <4>2. att[q].pc = "done" /\ i = att[q].obj /\ m = att[q].name
                BY <4>a, Zenon DEF MoveFits
            <4> QED
                BY <2>0, <2>4, <4>2 DEF Offered
        <3> QED
            BY <3>1, <3>2
    <2>5. \/ path'[m] = i
          \/ \E p \in Procs : alive[p] /\ att'[p].name = m /\ att'[p].obj = i /\ att'[p].pc \in MakingPCs
          \/ \E p \in Procs : /\ alive[p] /\ att'[p].name = m /\ att'[p].obj = i
                              /\ att'[p].pc \in {"peek", "done"} /\ objs[i].magic
          \/ \E p \in Procs : alive[p] /\ node'[p].region[m] = i /\ objs[i].magic
        BY DEF Offered
    <2> QED
        BY <2>1, <2>2, <2>3, <2>4, <2>5
<1> QED
    BY <1>13, <1>14


\* What an unlink does to the names, and to the count of the unlinks.
LEMMA NameIsUnlinked ==
    ASSUME SetupTyped, NEW n \in Names, UnlinkName(n)
    PROVE  /\ path' \in [Names -> Nat] /\ \A m \in Names : path'[m] \in {path[m], 0}
           /\ unlinks' \in [Names -> Nat]
           /\ \A m \in Names :
                  unlinks'[m] + (IF path'[m] = 0 THEN 0 ELSE 1) >= unlinks[m] + (IF path[m] = 0 THEN 0 ELSE 1)
<1>1. path \in [Names -> Nat] /\ unlinks \in [Names -> Nat]
    BY DEF SetupTyped
<1>2. path' = [path EXCEPT ![n] = 0] /\ unlinks' = [unlinks EXCEPT ![n] = unlinks[n] + 1]
    BY DEF UnlinkName
<1>3. /\ path'[n] = 0 /\ unlinks'[n] = unlinks[n] + 1 /\ unlinks[n] \in Nat
      /\ \A m \in Names \ {n} : path'[m] = path[m] /\ unlinks'[m] = unlinks[m] /\ unlinks[m] \in Nat
    BY <1>1, <1>2
<1>4. path' \in [Names -> Nat] /\ unlinks' \in [Names -> Nat]
    BY <1>1, <1>2
<1>5. \A m \in Names : path'[m] \in {path[m], 0}
    BY <1>3
<1>6. ASSUME NEW m \in Names
      PROVE  unlinks'[m] + (IF path'[m] = 0 THEN 0 ELSE 1) >= unlinks[m] + (IF path[m] = 0 THEN 0 ELSE 1)
    <2>1. CASE m = n
        BY <1>3, <2>1
    <2>2. CASE m # n
        BY <1>3, <2>2
    <2> QED
        BY <2>1, <2>2
<1> QED
    BY <1>4, <1>5, <1>6

\* The steps of an attach that make nothing: the first unlink, a name that
\* is taken, the open loop and the checks of a header.
LEMMA AttachGoesOn ==
    ASSUME Planned, SetupInv, OffersAreCounted, NEW q \in Procs, OnlySetup,
           \/ (UnlinkFirst(q) \/ ExclExists(q)) /\ UNCHANGED faults
           \/ TryOpen(q) \/ OpenFails(q) \/ Peek(q)
    PROVE  SetupInv' /\ OffersAreCounted'
<1>0. /\ SetupTyped /\ Objects /\ AttPlaced(att[q], node[q])
      /\ node \in [Procs -> NodeType] /\ node[q] \in NodeType /\ att[q] \in AttType
    BY DEF SetupInv, Planned, SetupTyped
<1>1. /\ alive[q] /\ att[q].pc \in {"unlink", "excl", "open", "peek"} /\ UNCHANGED <<alive, objs>>
      /\ node' = [node EXCEPT ![q] = node[q]]
    BY <1>0 DEF OnlySetup, UnlinkFirst, ExclExists, TryOpen, OpenFails, Peek, AttAt
<1>2. /\ att[q].name \in Names /\ att[q].want # Blank /\ att[q].mode \in Modes /\ node[q].pc \in {"attach", "lazy"}
      /\ att[q].pc \in {"unlink", "excl"} => att[q].mode # "open"
      /\ att[q].pc \in {"open", "peek"} => att[q].mode # "create"
      /\ node[q].pc \notin Touching \/ node[q].pc = "lazy"
    <2>1. att[q].pc \notin ClaimSteps \cup {"idle"}
        BY <1>1 DEF ClaimSteps
    <2>2. att[q].name \in Names /\ att[q].want # Blank /\ node[q].pc \in {"attach", "lazy"}
        BY <1>0, <2>1 DEF AttPlaced
    <2> QED
        BY <1>0, <2>2, Zenon DEF AttPlaced, AttType, Touching
<1>3. faults' \in Nat
    <2>1. faults \in Nat
        BY <1>0 DEF SetupTyped
    <2>2. UNCHANGED faults \/ Fault
        BY DEF TryOpen, OpenFails, Peek, NotReady, TooSlow
    <2> QED
        BY <2>1, <2>2 DEF Fault
<1>4. /\ path' \in [Names -> Nat] /\ \A m \in Names : path'[m] \in {path[m], 0}
      /\ unlinks' \in [Names -> Nat]
      /\ \A m \in Names :
             unlinks'[m] + (IF path'[m] = 0 THEN 0 ELSE 1) >= unlinks[m] + (IF path[m] = 0 THEN 0 ELSE 1)
    <2>1. CASE UnlinkName(att[q].name)
        BY <1>0, <1>2, <2>1, NameIsUnlinked
    <2>2. CASE UNCHANGED <<path, unlinks>>
        <3>1. path \in [Names -> Nat] /\ unlinks \in [Names -> Nat]
            BY <1>0 DEF SetupTyped
        <3> QED
            BY <2>2, <3>1
    <2> QED
        BY <2>1, <2>2 DEF UnlinkFirst, ExclExists, TryOpen, OpenFails, Peek
<1>h. ASSUME NEW a \in AttType, att' = [att EXCEPT ![q] = a],
             a.pc \in {"excl", "open", "peek", "done", "failed"}, a.obj =< Len(objs),
             a.mode = att[q].mode, a.name = att[q].name, a.want = att[q].want,
             a.pc = "excl" => a.mode # "open", a.pc \in {"open", "peek"} => a.mode # "create",
             a.pc \in {"peek", "done"} => a.obj # 0, a.pc = "peek" => path[a.name] = a.obj,
             a.pc = "done" => Suits(objs[a.obj], a.want, a.mode) /\ a.obj = att[q].obj /\ att[q].pc = "peek"
      PROVE  SetupInv' /\ OffersAreCounted'
    <2>1. a.pc \notin ClaimSteps \cup {"idle"} /\ a.pc \notin MakingPCs /\ a.pc # "unlink"
        BY <1>h DEF ClaimSteps, MakingPCs
    <2>2. /\ node[q].pc = "attach" => /\ a.name = NameOf[node[q].call.want.topic]
                                      /\ a.want = node[q].call.want /\ a.mode = node[q].call.mode
          /\ node[q].pc = "lazy" => a.name = RegistryName
        BY <1>0, <1>h DEF AttPlaced
    <2>3. AttPlaced(a, node[q])
        BY <1>2, <1>h, <2>1, <2>2 DEF AttPlaced
    <2>4. node[q].pc \in Touching =>
              /\ node[q].region[NameOf[node[q].call.want.topic]] # 0
              /\ Suits(objs[node[q].region[NameOf[node[q].call.want.topic]]], node[q].call.want, node[q].call.mode)
        BY Zenon DEF SetupInv, Attached
    <2>5. MoveFits(q, a, node[q])
        BY <1>0, <1>h, <2>1, <2>3, <2>4, Zenon DEF MoveFits
    <2>6. SetupInv' /\ \A m \in Names : Offered(m)' \subseteq Offered(m)
        BY <1>1, <1>3, <1>4, <1>h, <2>5, MoveStep, Zenon
    <2> QED
        BY <1>0, <1>4, <2>6, OffersShrink DEF SetupInv
<1>g. ASSUME NEW pc \in {"excl", "open", "done", "failed"}, AttGoto(q, pc),
             pc = "excl" => att[q].mode # "open", pc = "open" => att[q].mode # "create",
             pc = "done" => Suits(objs[att[q].obj], att[q].want, att[q].mode) /\ att[q].pc = "peek"
      PROVE  SetupInv' /\ OffersAreCounted'
    <2>1. pc \in AttPCs
        BY DEF AttPCs
    <2>2. PICK a \in AttType :
              /\ att' = [att EXCEPT ![q] = a] /\ a.pc = pc
              /\ a.mode = att[q].mode /\ a.name = att[q].name /\ a.want = att[q].want /\ a.obj = att[q].obj
        BY <1>0, <1>g, <2>1, AttMoved
    <2>3. att[q].obj =< Len(objs) /\ (pc = "done" => att[q].obj # 0)
        BY <1>0, <1>g DEF SetupTyped, AttPlaced
    <2> QED
        BY <1>g, <1>h, <2>2, <2>3
<1>n. ASSUME NotReady(q), att[q].pc \in {"open", "peek"} PROVE SetupInv' /\ OffersAreCounted'
    BY <1>2, <1>g, <1>n DEF NotReady
<1>5. CASE UnlinkFirst(q)
    BY <1>2, <1>5, <1>g DEF UnlinkFirst, AttAt
<1>6. CASE ExclExists(q)
    <2>1. AttGoto(q, "failed") \/ (AttGoto(q, "open") /\ att[q].mode # "create")
        BY <1>6 DEF ExclExists
    <2> QED
        BY <1>g, <2>1
<1>7. CASE OpenFails(q)
    BY <1>7, <1>g DEF OpenFails
<1>8. CASE TryOpen(q)
    <2> DEFINE o == path[att[q].name]
               a == [att[q] EXCEPT !.pc = "peek", !.obj = o]
    <2>0. att[q].pc = "open"
        BY <1>8 DEF TryOpen, AttAt
    <2>1. NotReady(q) \/ (o # 0 /\ att' = [att EXCEPT ![q] = a])
        BY <1>8 DEF TryOpen
    <2>2. o \in Nat /\ o =< Len(objs)
        BY <1>0, <1>2 DEF SetupTyped
    <2>3. /\ a \in AttType /\ a.pc = "peek" /\ a.obj = o /\ a.mode = att[q].mode /\ a.name = att[q].name
          /\ a.want = att[q].want
        BY <1>0, <2>2, Zenon DEF AttType, AttPCs
    <2> HIDE DEF a
    <2>4. CASE o # 0 /\ att' = [att EXCEPT ![q] = a]
        BY <1>2, <1>h, <2>0, <2>2, <2>3, <2>4
    <2> QED
        BY <1>n, <2>0, <2>1, <2>4
<1>9. CASE Peek(q)
    <2>0. att[q].pc = "peek" /\ att[q].obj # 0
        BY <1>0, <1>9 DEF Peek, AttAt, AttPlaced
    <2>1. \/ NotReady(q) \/ AttGoto(q, "failed")
          \/ objs[att[q].obj].magic /\ Fits(objs[att[q].obj].stamp, q) /\ AttGoto(q, "done")
        BY <1>9 DEF Peek, Ready, Object
    <2>2. CASE objs[att[q].obj].magic /\ Fits(objs[att[q].obj].stamp, q) /\ AttGoto(q, "done")
        <3>1. objs[att[q].obj].stamp # Blank
            BY <1>0, <2>0, <2>2, ObjectTable DEF Objects
        <3>2. att[q].mode = "open" \/ att[q].mode = "join"
            BY <1>2, <2>0 DEF Modes
        <3>3. Suits(objs[att[q].obj], att[q].want, att[q].mode)
            BY <2>2, <3>1, <3>2 DEF Suits, Fits, IdentityFits, ConfigFits
        <3> QED
            BY <1>g, <2>0, <2>2, <3>3
    <2> QED
        BY <1>g, <1>n, <2>0, <2>1, <2>2
<1> QED
    BY <1>5, <1>6, <1>7, <1>8, <1>9


\* A turn of node q that leaves its regions and its attach alone.
Turns(q, n) ==
    /\ node' = [node EXCEPT ![q] = n] /\ n.region = node[q].region
    /\ n.pc \notin {"attach", "lazy"} /\ node[q].pc \notin {"attach", "lazy"}
    /\ n.pc \in Touching => /\ n.region[NameOf[n.call.want.topic]] # 0
                            /\ Suits(objs[n.region[NameOf[n.call.want.topic]]], n.call.want, n.call.mode)

\* A turn of a node keeps what is said of the regions.
LEMMA NodeTurns ==
    ASSUME Planned, SetupInv, OffersAreCounted, NEW q \in Procs, alive[q],
           UNCHANGED <<alive, faults, path, objs, att, unlinks>>, NEW n, Turns(q, n)
    PROVE  SetupInv' /\ OffersAreCounted'
<1>0. /\ SetupTyped /\ Attached /\ AttPlaced(att[q], node[q])
      /\ att \in [Procs -> AttType] /\ att[q] \in AttType /\ att[q].obj =< Len(objs)
    BY DEF SetupInv, SetupTyped
<1>1. att' = [att EXCEPT ![q] = att[q]] /\ node' = [node EXCEPT ![q] = n]
    BY <1>0, Zenon DEF Turns
<1>2. att[q].pc \in ClaimSteps \cup {"idle"}
    BY <1>0, Zenon DEF AttPlaced, Turns
<1>3. AttPlaced(att[q], n)
    <2>1. att[q].pc \notin MakingPCs /\ att[q].pc \notin {"peek", "done", "unlink", "excl", "open"}
        BY <1>2 DEF ClaimSteps, MakingPCs
    <2>2. att[q].pc \in ClaimSteps => att[q].obj # 0
        BY <1>0 DEF AttPlaced
    <2> QED
        BY <1>2, <2>1, <2>2, Zenon DEF AttPlaced, Turns
<1>4. MoveFits(q, att[q], n)
    BY <1>0, <1>3, Zenon DEF MoveFits, Attached, Turns
<1>5. /\ UNCHANGED <<alive, objs>> /\ faults' \in Nat /\ path' \in [Names -> Nat] /\ unlinks' \in [Names -> Nat]
      /\ \A m \in Names : path'[m] \in {path[m], 0} /\ path'[m] = path[m] /\ unlinks'[m] = unlinks[m]
      /\ \A m \in Names : unlinks[m] \in Nat
    BY <1>0 DEF SetupTyped
<1>6. SetupInv' /\ \A m \in Names : Offered(m)' \subseteq Offered(m)
    BY <1>1, <1>4, <1>5, MoveStep, Zenon
<1>7. \A m \in Names :
          unlinks'[m] + (IF path'[m] = 0 THEN 0 ELSE 1) >= unlinks[m] + (IF path[m] = 0 THEN 0 ELSE 1)
    BY <1>5
<1> QED
    BY <1>0, <1>6, <1>7, OffersShrink DEF SetupInv

\* touch_registry, ~Node and a cached region: the node turns.
LEMMA NodeWorksOn ==
    ASSUME Planned, SetupInv, OffersAreCounted, NEW q \in Procs,
           \/ \E c \in left.calls[q] : CallCached(q, c)
           \/ TouchDisabled(q) \/ TouchNew(q) \/ TouchCovered(q) \/ TouchUpgrade(q) \/ UpgradeRegisters(q)
           \/ RegisterEnds(q) \/ BothEnds(q) \/ BothFails(q) \/ FallbackEnds(q) \/ Leave(q) \/ Left(q)
    PROVE  SetupInv' /\ OffersAreCounted'
<1>0. SetupTyped /\ Objects /\ Attached /\ node \in [Procs -> NodeType] /\ node[q] \in NodeType
    BY DEF SetupInv, Planned
<1>1. alive[q] /\ UNCHANGED <<alive, faults, path, objs, att, unlinks>>
    BY Zenon DEF CallCached, TouchDisabled, TouchNew, TouchCovered, TouchUpgrade, UpgradeRegisters, RegisterEnds,
           BothEnds, BothFails, FallbackEnds, Leave, Left, CanTouch, NodeAt, setupVars
<1> SUFFICES \E n : Turns(q, n)
    BY <1>1, NodeTurns
<1>2. ASSUME NEW n, node' = [node EXCEPT ![q] = n], n.region = node[q].region,
             n.pc \in {"idle", "leaving", "gone"}, node[q].pc \notin {"attach", "lazy"}
      PROVE  Turns(q, n)
    BY <1>2, Zenon DEF Turns, Touching
<1>3. ASSUME NodeGoto(q, "leaving") \/ NodeGoto(q, "gone"), node[q].pc = "leaving" PROVE \E n : Turns(q, n)
    <2>1. {"leaving", "gone"} \subseteq NodePCs
        BY DEF NodePCs
    <2>2. PICK pc \in {"leaving", "gone"} : NodeGoto(q, pc)
        BY <1>3
    <2> DEFINE n == [node[q] EXCEPT !.pc = pc]
    <2>3. node' = [node EXCEPT ![q] = n]
        BY <2>2 DEF NodeGoto
    <2>4. n.region = node[q].region /\ n.pc = pc
        BY <1>0, <2>1, NodeFields
    <2> HIDE DEF n
    <2> QED
        BY <1>2, <1>3, <2>2, <2>3, <2>4
<1>4. ASSUME node' = [node EXCEPT ![q] = Ended(node[q])], node[q].pc = "touch" PROVE \E n : Turns(q, n)
    BY <1>0, <1>2, <1>4, NodeFields
<1>5. ASSUME NEW pc \in {"register", "upgrade", "both", "fallback"}, NodeGoto(q, pc),
             node[q].pc \in {"touch", "upgrade", "both"}
      PROVE  \E n : Turns(q, n)
    <2> DEFINE n == [node[q] EXCEPT !.pc = pc]
    <2>1. pc \in NodePCs /\ node[q].pc \in Touching
        BY <1>5 DEF NodePCs, Touching
    <2>2. node' = [node EXCEPT ![q] = n]
        BY <1>5 DEF NodeGoto
    <2>3. n.region = node[q].region /\ n.call = node[q].call /\ n.pc = pc
        BY <1>0, <2>1, NodeFields
    <2> HIDE DEF n
    <2>4. /\ n.region[NameOf[n.call.want.topic]] # 0
          /\ Suits(objs[n.region[NameOf[n.call.want.topic]]], n.call.want, n.call.mode)
        BY <1>0, <2>1, <2>3, Zenon DEF Attached
    <2>5. Turns(q, n)
        BY <1>5, <2>2, <2>3, <2>4, Zenon DEF Turns
    <2> QED
        BY <2>5
<1>6. CASE RegisterEnds(q) \/ BothEnds(q) \/ FallbackEnds(q)
    <2>1. node[q].pc \in {"register", "both", "fallback"} /\ \E s : Record(q, s)
        BY <1>6 DEF RegisterEnds, BothEnds, FallbackEnds, NodeAt
    <2>2. PICK s : Record(q, s)
        BY <2>1
    <2> DEFINE u == [node[q] EXCEPT !.slot[Topic(q)] = s]
    <2>3. node' = [node EXCEPT ![q] = Ended(u)]
        BY <2>2 DEF Record
    <2>4. Ended(u).region = node[q].region /\ Ended(u).pc = "idle"
        BY <1>0 DEF Ended, NodeType
    <2> HIDE DEF u
    <2> QED
        BY <1>2, <2>1, <2>3, <2>4
<1>7. CASE Leave(q)
    <2>1. node[q].pc \in {"idle", "leaving"}
        BY <1>7 DEF Leave, NodeAt
    <2>2. PICK m \in TopicNames : node' = [node EXCEPT ![q].pc = "leaving", ![q].slot[m] = NoSlot]
        BY <1>7 DEF Leave
    <2> DEFINE n == [node[q] EXCEPT !.pc = "leaving", !.slot[m] = NoSlot]
    <2>3. node' = [node EXCEPT ![q] = n]
        BY <2>2
    <2>4. n.region = node[q].region /\ n.pc = "leaving"
        BY <1>0 DEF NodeType
    <2> HIDE DEF n
    <2> QED
        BY <1>2, <2>1, <2>3, <2>4
<1>8. ASSUME NEW c \in left.calls[q], CallCached(q, c) PROVE \E n : Turns(q, n)
    <2> DEFINE k == NameOf[c.want.topic]
               o == node[q].region[k]
               n == [node[q] EXCEPT !.pc = "touch", !.call = c]
    <2>1. o # 0 /\ node[q].pc = "idle"
        BY <1>8, Zenon DEF CallCached, NodeAt
    <2>2. \/ CacheFits(objs[o].stamp, c) /\ node' = [node EXCEPT ![q] = n]
          \/ node' = [node EXCEPT ![q] = node[q]]
        BY <1>8, Zenon DEF CallCached
    <2>3. CASE CacheFits(objs[o].stamp, c) /\ node' = [node EXCEPT ![q] = n]
        <3>1. n.region = node[q].region /\ n.pc = "touch" /\ n.call = c
            BY <1>0 DEF NodeType
        <3>2. k \in Names
            BY PlannedCall DEF TopicNames
        <3>3. objs[o].magic /\ o \in 1..Len(objs)
            <4>1. Len(objs) \in Nat /\ o \in 0..Len(objs)
                BY <1>0, <3>2 DEF SetupTyped
            <4>2. objs[o].magic
                BY <1>0, <2>1, <3>2, Zenon DEF Attached
            <4> HIDE DEF o
            <4> QED
                BY <2>1, <4>1, <4>2
        <3>4. objs[o].stamp # Blank
            BY <1>0, <3>3, ObjectTable DEF Objects
        <3>5. Suits(objs[o], c.want, c.mode)
            BY <2>3, <3>3, <3>4, Zenon DEF Suits, CacheFits
        <3> HIDE DEF n
        <3>6. Turns(q, n)
            BY <2>1, <2>3, <3>1, <3>5, Zenon DEF Turns
        <3> QED
            BY <3>6
    <2>4. CASE node' = [node EXCEPT ![q] = node[q]]
        BY <1>2, <2>1, <2>4
    <2> QED
        BY <2>2, <2>3, <2>4
<1>9. CASE TouchDisabled(q) \/ TouchCovered(q)
    BY <1>4, <1>9 DEF TouchDisabled, TouchCovered, CanTouch, NodeAt
<1>10. CASE TouchNew(q) \/ TouchUpgrade(q) \/ UpgradeRegisters(q) \/ BothFails(q)
    BY <1>5, <1>10 DEF TouchNew, TouchUpgrade, UpgradeRegisters, BothFails, CanTouch, NodeAt
<1>11. CASE Left(q)
    <2>1. node[q].pc = "leaving" /\ (NodeGoto(q, "leaving") \/ NodeGoto(q, "gone"))
        BY <1>11 DEF Left, NodeAt
    <2> QED
        BY <1>3, <2>1
<1> QED
    BY <1>6, <1>7, <1>8, <1>9, <1>10, <1>11


\* An attach begins where its mode says.
LEMMA AttachStarts ==
    ASSUME NEW mode \in Modes, NEW name \in Names, NEW want \in Wants, want # Blank, NEW n,
           n.pc = "attach" => /\ name = NameOf[n.call.want.topic] /\ want = n.call.want /\ mode = n.call.mode,
           n.pc = "lazy" => name = RegistryName, n.pc \in {"attach", "lazy"}
    PROVE  /\ Attaching(mode, name, want) \in AttType /\ AttPlaced(Attaching(mode, name, want), n)
           /\ Attaching(mode, name, want).obj = 0
           /\ Attaching(mode, name, want).pc \in {"unlink", "excl", "open"}
<1> DEFINE a == Attaching(mode, name, want)
<1>1. /\ FirstStep(mode) \in {"unlink", "excl", "open"} /\ FirstStep(mode) \in AttPCs
      /\ FirstStep(mode) \in {"unlink", "excl"} => mode # "open"
      /\ FirstStep(mode) = "open" => mode # "create"
    BY DEF FirstStep, Modes, AttPCs
<1>2. 0 \in Nat
    OBVIOUS
<1>3. /\ a \in AttType /\ a.obj = 0 /\ a.pc = FirstStep(mode) /\ a.mode = mode /\ a.name = name /\ a.want = want
    BY <1>1, <1>2, Zenon DEF Attaching, AttType
<1> HIDE DEF a
<1>4. /\ a.pc \notin MakingPCs \cup ClaimSteps \cup {"peek", "done"} /\ a.pc \notin ClaimSteps \cup {"idle"}
      /\ a.pc \in MakingPCs \cup {"unlink", "excl"} => a.pc \in {"unlink", "excl"}
    BY <1>1, <1>3 DEF MakingPCs, ClaimSteps
<1>5. AttPlaced(a, n)
    BY <1>1, <1>3, <1>4 DEF AttPlaced
<1> QED
    BY <1>1, <1>3, <1>5 DEF a

\* The calls that attach to a region, theirs or the registry's, and their
\* ends; and unlink_topic.
LEMMA AttachIsCalled ==
    ASSUME Planned, SetupInv, OffersAreCounted, NEW q \in Procs,
           \/ \E c \in left.calls[q] : CallAttach(q, c)
           \/ AttachEnds(q) \/ TouchLazily(q) \/ LazyEnds(q)
           \/ \E n \in TopicNames : UnlinkTopic(q, n)
    PROVE  SetupInv' /\ OffersAreCounted'
<1>0. /\ SetupTyped /\ Attached /\ AttPlaced(att[q], node[q])
      /\ node \in [Procs -> NodeType] /\ node[q] \in NodeType
      /\ att \in [Procs -> AttType] /\ att[q] \in AttType /\ att[q].obj =< Len(objs)
      /\ path \in [Names -> Nat] /\ unlinks \in [Names -> Nat] /\ faults \in Nat /\ Len(objs) \in Nat
    BY DEF SetupInv, SetupTyped, Planned
<1>1. alive[q] /\ UNCHANGED <<alive, objs, faults>>
    BY DEF CallAttach, AttachEnds, TouchLazily, LazyEnds, UnlinkTopic, NodeAt
<1>2. /\ path' \in [Names -> Nat] /\ \A m \in Names : path'[m] \in {path[m], 0}
      /\ unlinks' \in [Names -> Nat]
      /\ \A m \in Names :
             unlinks'[m] + (IF path'[m] = 0 THEN 0 ELSE 1) >= unlinks[m] + (IF path[m] = 0 THEN 0 ELSE 1)
    <2>1. ASSUME NEW n \in TopicNames, UnlinkName(n)
          PROVE  <1>2
        <3>1. n \in Names
            BY DEF TopicNames
        <3> QED
            BY <1>0, <2>1, <3>1, NameIsUnlinked
    <2>2. CASE UNCHANGED <<path, unlinks>>
        BY <1>0, <2>2
    <2> QED
        BY <2>1, <2>2 DEF CallAttach, AttachEnds, TouchLazily, LazyEnds, UnlinkTopic
<1>h. ASSUME NEW a, att' = [att EXCEPT ![q] = a], NEW n, node' = [node EXCEPT ![q] = n], MoveFits(q, a, n)
      PROVE  SetupInv' /\ OffersAreCounted'
    <2>1. UNCHANGED <<alive, objs>> /\ faults' \in Nat
        BY <1>0, <1>1
    <2>2. SetupInv' /\ \A m \in Names : Offered(m)' \subseteq Offered(m)
        BY <1>1, <1>2, <1>h, <2>1, MoveStep, Zenon
    <2> QED
        BY <1>0, <1>2, <2>2, OffersShrink DEF SetupInv
<1>d. /\ Detached \in AttType /\ Detached.obj =< Len(objs) /\ Detached.pc = "idle"
      /\ \A n : n.pc \notin {"attach", "lazy"} => AttPlaced(Detached, n)
    <2>1. Blank \in Wants
        <3>1. NoCall \in Calls /\ NoCall.want = Blank
            BY DEF Calls, NoCall
        <3> QED
            BY <3>1 DEF Wants
    <2>2. "idle" \in AttPCs /\ "open" \in Modes /\ "" \in Names \cup {""} /\ 0 \in Nat
        BY DEF AttPCs, Modes
    <2>3. Detached \in AttType /\ Detached.obj = 0 /\ Detached.pc = "idle"
        BY <2>1, <2>2 DEF Detached, AttType
    <2>4. "idle" \notin MakingPCs \cup ClaimSteps \cup {"peek", "done", "unlink", "excl", "open"}
        BY DEF MakingPCs, ClaimSteps
    <2> QED
        BY <1>0, <2>3, <2>4 DEF AttPlaced
<1>t. node[q].pc \in Touching \cup {"attach"} =>
          Topic(q) \in TopicNames /\ Topic(q) \in Names /\ Topic(q) # RegistryName
    BY NodeAssumption DEF Planned, Topic, TopicNames
<1>3. ASSUME NEW c \in left.calls[q], CallAttach(q, c) PROVE SetupInv' /\ OffersAreCounted'
    <2> DEFINE k == NameOf[c.want.topic]
               a == Attaching(c.mode, k, c.want)
               n == [node[q] EXCEPT !.pc = "attach", !.call = c]
    <2>1. c \in Calls /\ c.want # Blank /\ c.mode \in Modes /\ k \in Names
        BY PlannedCall DEF TopicNames
    <2>2. c.want \in Wants
        BY <2>1 DEF Wants
    <2>3. node' = [node EXCEPT ![q] = n] /\ att' = [att EXCEPT ![q] = a]
        BY <1>3 DEF CallAttach
    <2>4. n.pc = "attach" /\ n.call = c /\ n.region = node[q].region
        BY <1>0 DEF NodeType
    <2> HIDE DEF n
    <2>5. a \in AttType /\ AttPlaced(a, n) /\ a.obj = 0 /\ a.pc \in {"unlink", "excl", "open"}
        BY <2>1, <2>2, <2>4, AttachStarts
    <2> HIDE DEF a
    <2>6. a.pc \notin MakingPCs \cup ClaimSteps /\ n.pc \notin Touching /\ a.obj =< Len(objs)
        BY <1>0, <2>4, <2>5 DEF MakingPCs, ClaimSteps, Touching
    <2>7. MoveFits(q, a, n)
        BY <2>4, <2>5, <2>6 DEF MoveFits
    <2> QED
        BY <1>h, <2>3, <2>7
<1>4. ASSUME att' = [att EXCEPT ![q] = Detached], NEW n, node' = [node EXCEPT ![q] = n],
             n.pc \notin {"attach", "lazy"},
             n.pc \in Touching => /\ n.region[NameOf[n.call.want.topic]] # 0
                                  /\ Suits(objs[n.region[NameOf[n.call.want.topic]]], n.call.want, n.call.mode),
             \A m \in Names : n.region[m] # node[q].region[m] =>
                                  att[q].pc = "done" /\ n.region[m] = att[q].obj /\ m = att[q].name
      PROVE  SetupInv' /\ OffersAreCounted'
    <2>1. "idle" \notin MakingPCs \cup ClaimSteps /\ AttPlaced(Detached, n)
        BY <1>4, <1>d, Zenon DEF MakingPCs, ClaimSteps
    <2>2. MoveFits(q, Detached, n)
        BY <1>4, <1>d, <2>1, Zenon DEF MoveFits
    <2> QED
        BY <1>4, <1>h, <2>2, Zenon
<1>5. CASE AttachEnds(q)
    <2>0. node[q].pc = "attach" /\ att' = [att EXCEPT ![q] = Detached]
        BY <1>5 DEF AttachEnds, NodeAt
    <2>1. CASE att[q].pc = "done" /\ node' = [node EXCEPT ![q].pc = "touch", ![q].region[Topic(q)] = att[q].obj]
        <3> DEFINE k == Topic(q)
                   g == [node[q].region EXCEPT ![k] = att[q].obj]
                   n == [node[q] EXCEPT !.pc = "touch", !.region = g]
        <3>1. node' = [node EXCEPT ![q] = n]
            BY <1>0, <2>1
        <3>2. n.pc = "touch" /\ n.call = node[q].call /\ n.region = g
            BY <1>0 DEF NodeType
        <3>3. /\ k \in Names /\ k = NameOf[node[q].call.want.topic] /\ node[q].region \in [Names -> Nat]
            BY <1>0, <1>t, <2>0 DEF Topic, NodeType
        <3>4. /\ att[q].name = k /\ att[q].want = node[q].call.want /\ att[q].mode = node[q].call.mode
              /\ att[q].obj # 0
            BY <1>0, <2>0, <2>1, <3>3 DEF AttPlaced
        <3>5. Suits(objs[att[q].obj], att[q].want, att[q].mode)
            BY <1>0, <2>1, Zenon DEF Attached
        <3> HIDE DEF k
        <3>6. g[k] = att[q].obj /\ \A m \in Names \ {k} : g[m] = node[q].region[m]
            BY <3>3
        <3> HIDE DEF g, n
        <3>7. /\ n.region[NameOf[n.call.want.topic]] # 0
              /\ Suits(objs[n.region[NameOf[n.call.want.topic]]], n.call.want, n.call.mode)
            BY <3>2, <3>3, <3>4, <3>5, <3>6
        <3>8. \A m \in Names : n.region[m] # node[q].region[m] =>
                                   att[q].pc = "done" /\ n.region[m] = att[q].obj /\ m = att[q].name
            BY <2>1, <3>2, <3>4, <3>6
        <3>9. n.pc \notin {"attach", "lazy"}
            BY <3>2
        <3> QED
            BY <1>4, <2>0, <3>1, <3>7, <3>8, <3>9, Zenon
    <2>2. CASE node' = [node EXCEPT ![q] = Ended(node[q])]
        <3>1. Ended(node[q]).pc = "idle" /\ Ended(node[q]).region = node[q].region
            BY <1>0, NodeFields
        <3> QED
            BY <1>4, <2>0, <2>2, <3>1, Zenon DEF Touching
    <2> QED
        BY <1>5, <2>1, <2>2 DEF AttachEnds
<1>6. CASE TouchLazily(q)
    <2> DEFINE a == Attaching("join", RegistryName, RegistryStamp)
               n == [node[q] EXCEPT !.pc = "lazy"]
    <2>0. node[q].pc \in Touching /\ "lazy" \in NodePCs
        BY <1>6 DEF TouchLazily, NodeAt, Touching, NodePCs
    <2>1. node' = [node EXCEPT ![q] = n] /\ att' = [att EXCEPT ![q] = a]
        BY <1>6 DEF TouchLazily, NodeGoto
    <2>2. n.pc = "lazy" /\ n.call = node[q].call /\ n.region = node[q].region
        BY <1>0, <2>0, NodeFields
    <2> HIDE DEF n
    <2>3. "join" \in Modes /\ RegistryStamp \in Wants /\ RegistryStamp # Blank /\ RegistryName \in Names
        BY NodeAssumption DEF Modes, Wants
    <2>4. a \in AttType /\ AttPlaced(a, n) /\ a.obj = 0 /\ a.pc \in {"unlink", "excl", "open"}
        BY <2>2, <2>3, AttachStarts
    <2> HIDE DEF a
    <2>5. a.pc \notin MakingPCs \cup ClaimSteps /\ a.obj =< Len(objs)
        BY <1>0, <2>4 DEF MakingPCs, ClaimSteps
    <2>6. /\ n.region[NameOf[n.call.want.topic]] # 0
          /\ Suits(objs[n.region[NameOf[n.call.want.topic]]], n.call.want, n.call.mode)
        BY <1>0, <2>0, <2>2, Zenon DEF Attached
    <2>7. MoveFits(q, a, n)
        BY <2>2, <2>4, <2>5, <2>6, Zenon DEF MoveFits
    <2> QED
        BY <1>h, <2>1, <2>7
<1>7. CASE LazyEnds(q)
    <2>0. node[q].pc = "lazy" /\ node[q].pc \in Touching /\ att' = [att EXCEPT ![q] = Detached]
        BY <1>7 DEF LazyEnds, NodeAt, Touching
    <2>1. CASE att[q].pc = "done" /\ node' = [node EXCEPT ![q].pc = "touch", ![q].region[RegistryName] = att[q].obj]
        <3> DEFINE k == RegistryName
                   g == [node[q].region EXCEPT ![k] = att[q].obj]
                   n == [node[q] EXCEPT !.pc = "touch", !.region = g]
        <3>1. node' = [node EXCEPT ![q] = n]
            BY <1>0, <2>1
        <3>2. n.pc = "touch" /\ n.call = node[q].call /\ n.region = g
            BY <1>0 DEF NodeType
        <3>3. k \in Names /\ node[q].region \in [Names -> Nat] /\ att[q].name = k
            BY <1>0, <2>0, NodeAssumption DEF AttPlaced, NodeType
        <3>4. g[k] = att[q].obj /\ \A m \in Names \ {k} : g[m] = node[q].region[m]
            BY <3>3
        <3>5. /\ Topic(q) \in Names \ {k} /\ Topic(q) = NameOf[node[q].call.want.topic]
              /\ node[q].region[Topic(q)] # 0
              /\ Suits(objs[node[q].region[Topic(q)]], node[q].call.want, node[q].call.mode)
            BY <1>0, <1>t, <2>0, Zenon DEF Topic, Attached
        <3> HIDE DEF g, n, k
        <3>6. /\ n.region[NameOf[n.call.want.topic]] # 0
              /\ Suits(objs[n.region[NameOf[n.call.want.topic]]], n.call.want, n.call.mode)
            BY <3>2, <3>4, <3>5, Zenon
        <3>7. \A m \in Names : n.region[m] # node[q].region[m] =>
                                   att[q].pc = "done" /\ n.region[m] = att[q].obj /\ m = att[q].name
            BY <2>1, <3>2, <3>3, <3>4
        <3>8. n.pc \notin {"attach", "lazy"}
            BY <3>2
        <3> QED
            BY <1>4, <2>0, <3>1, <3>6, <3>7, <3>8, Zenon
    <2>2. CASE node' = [node EXCEPT ![q] = [Ended(node[q]) EXCEPT !.disabled = TRUE]]
        <3> DEFINE u == Ended(node[q])
                   n == [u EXCEPT !.disabled = TRUE]
        <3>1. u \in NodeType /\ u.pc = "idle" /\ u.region = node[q].region
            BY <1>0, NodeFields
        <3>2. node' = [node EXCEPT ![q] = n]
            BY <2>2
        <3> HIDE DEF u
        <3>3. n.pc = "idle" /\ n.region = node[q].region
            BY <3>1 DEF NodeType
        <3> HIDE DEF n
        <3> QED
            BY <1>4, <2>0, <3>2, <3>3, Zenon DEF Touching
    <2> QED
        BY <1>7, <2>1, <2>2 DEF LazyEnds
<1>8. ASSUME NEW m \in TopicNames, UnlinkTopic(q, m) PROVE SetupInv' /\ OffersAreCounted'
    <2>1. att' = [att EXCEPT ![q] = att[q]] /\ node' = [node EXCEPT ![q] = node[q]]
        BY <1>0, <1>8 DEF UnlinkTopic
    <2>2. att[q].pc = "idle" /\ node[q].pc = "idle"
        BY <1>8 DEF UnlinkTopic, NodeAt
    <2>3. "idle" \notin MakingPCs \cup ClaimSteps /\ "idle" \notin Touching
        BY DEF MakingPCs, ClaimSteps, Touching
    <2>4. MoveFits(q, att[q], node[q])
        BY <1>0, <2>2, <2>3, Zenon DEF MoveFits
    <2> QED
        BY <1>h, <2>1, <2>4
<1> QED
    BY <1>3, <1>5, <1>6, <1>7, <1>8


\* O_EXCL: a new object under a name that led nowhere.
LEMMA RegionIsBorn ==
    ASSUME Planned, SetupInv, OffersAreCounted, NEW q \in Procs, OnlySetup, ExclCreate(q), UNCHANGED faults
    PROVE  SetupInv' /\ OffersAreCounted'
<1> DEFINE k == att[q].name
           new == Len(objs) + 1
           a == [att[q] EXCEPT !.pc = "map", !.obj = new]
<1>0. /\ SetupTyped /\ Makers /\ Objects /\ Attached /\ Claimants
      /\ \A p \in Procs : AttPlaced(att[p], node[p])
    BY DEF SetupInv
<1>1. /\ objs \in Seq(ObjType) /\ Len(objs) \in Nat /\ DOMAIN objs = 1..Len(objs) /\ new \in Nat
      /\ att \in [Procs -> AttType] /\ att[q] \in AttType /\ path \in [Names -> Nat] /\ unlinks \in [Names -> Nat]
      /\ \A p \in Procs : att[p].obj \in Nat /\ att[p].obj =< Len(objs)
      /\ \A m \in Names : path[m] =< Len(objs)
    BY <1>0, ObjectTable DEF SetupTyped
<1>2. alive[q] /\ att[q].pc = "excl" /\ path[k] = 0 /\ UNCHANGED <<alive, node, unlinks, faults>>
    BY DEF ExclCreate, AttAt, NameIsFree, OnlySetup
<1>3. /\ k \in Names /\ att[q].want # Blank /\ att[q].mode # "open" /\ att[q].pc \notin MakingPCs
    BY <1>0, <1>2 DEF AttPlaced, MakingPCs, ClaimSteps
<1>4. /\ objs' = Append(objs, NewObject) /\ NewObject \in ObjType /\ ~NewObject.magic
    <2>1. Blank \in Wants
        <3>1. NoCall \in Calls /\ NoCall.want = Blank
            BY DEF Calls, NoCall
        <3> QED
            BY <3>1 DEF Wants
    <2>2. NoSchema \in SchemaType
        BY DEF NoSchema, SchemaType
    <2> QED
        BY <2>1, <2>2 DEF ExclCreate, NewObject, ObjType
<1>5. /\ objs' \in Seq(ObjType) /\ Len(objs') = new /\ objs'[new] = NewObject
      /\ \A i \in 1..Len(objs) : objs'[i] = objs[i]
    BY <1>1, <1>4
<1>6. path' = [path EXCEPT ![k] = new] /\ att' = [att EXCEPT ![q] = a]
    BY <1>5 DEF ExclCreate
<1>7. /\ a \in AttType /\ a.pc = "map" /\ a.obj = new /\ a.mode = att[q].mode /\ a.name = k /\ a.want = att[q].want
    BY <1>1, Zenon DEF AttType, AttPCs, MakingPCs
<1> HIDE DEF a
<1>8. /\ att' \in [Procs -> AttType] /\ att'[q] = a /\ \A p \in Procs \ {q} : att'[p] = att[p]
      /\ path' \in [Names -> Nat] /\ path'[k] = new /\ \A m \in Names \ {k} : path'[m] = path[m]
    BY <1>1, <1>3, <1>6, <1>7
<1>9. SetupTyped'
    <2>0. \A i \in Nat : i =< Len(objs) => i =< new
        BY <1>1
    <2>1. \A m \in Names : path'[m] =< new
        <3> SUFFICES ASSUME NEW m \in Names PROVE path'[m] =< new
            OBVIOUS
        <3>1. CASE m = k
            BY <1>1, <1>8, <3>1
        <3>2. CASE m # k
            <4>1. path'[m] = path[m] /\ path[m] \in Nat /\ path[m] =< Len(objs)
                BY <1>1, <1>8, <3>2
            <4> QED
                BY <2>0, <4>1
        <3> QED
            BY <3>1, <3>2
    <2>2. \A p \in Procs : att'[p].obj =< new
        <3> SUFFICES ASSUME NEW p \in Procs PROVE att'[p].obj =< new
            OBVIOUS
        <3>1. CASE p = q
            BY <1>1, <1>7, <1>8, <3>1
        <3>2. CASE p # q
            <4>1. att'[p].obj = att[p].obj /\ att[p].obj \in Nat /\ att[p].obj =< Len(objs)
                BY <1>1, <1>8, <3>2
            <4> QED
                BY <2>0, <4>1
        <3> QED
            BY <3>1, <3>2
    <2>3. \A p \in Procs : \A m \in Names : node[p].region[m] \in 0..new
        <3>1. \A p \in Procs : \A m \in Names : node[p].region[m] \in 0..Len(objs)
            BY <1>0 DEF SetupTyped
        <3> QED
            BY <1>1, <3>1
    <2>4. faults' \in Nat /\ unlinks' \in [Names -> Nat]
        BY <1>0, <1>2 DEF SetupTyped
    <2> QED
        BY <1>2, <1>5, <1>8, <2>1, <2>2, <2>3, <2>4 DEF SetupTyped
<1>10. \A p \in Procs : AttPlaced(att'[p], node'[p])
    <2>1. AttPlaced(a, node[q])
        <3>1. /\ node[q].pc = "attach" => /\ k = NameOf[node[q].call.want.topic]
                                          /\ att[q].want = node[q].call.want /\ att[q].mode = node[q].call.mode
              /\ node[q].pc = "lazy" => k = RegistryName
              /\ node[q].pc \in {"attach", "lazy"}
            BY <1>0, <1>2 DEF AttPlaced, ClaimSteps
        <3>2. "map" \notin ClaimSteps \cup {"idle"} /\ new # 0
            BY <1>1 DEF ClaimSteps
        <3> QED
            BY <1>3, <1>7, <3>1, <3>2 DEF AttPlaced
    <2> QED
        BY <1>0, <1>2, <1>8, <2>1
<1>11. \A p \in Procs : att[p].pc \in MakingPCs \cup ClaimSteps \cup {"done"} => att[p].obj \in 1..Len(objs)
    BY <1>0, ObjectTable DEF AttPlaced
<1>12. Makers'
    <2> SUFFICES ASSUME NEW p \in Procs, att'[p].pc \in MakingPCs
                 PROVE  /\ ~objs'[att'[p].obj].magic
                        /\ \A r \in Procs \ {p} : att'[r].pc \in MakingPCs => att'[r].obj # att'[p].obj
                        /\ \A m \in Names : path'[m] = att'[p].obj => m = att'[p].name
                        /\ \A r \in Procs : att'[r].pc = "peek" /\ att'[r].obj = att'[p].obj
                                              => att'[r].name = att'[p].name
                        /\ att'[p].pc = "magic" =>
                               /\ objs'[att'[p].obj].stamp = att'[p].want
                               /\ objs'[att'[p].obj].schema.state # "Claiming"
                               /\ SchemaDone(objs'[att'[p].obj].schema)
        BY DEF Makers
    <2>1. CASE p = q
        <3>1. \A r \in Procs \ {q} : att'[r].obj # new
            BY <1>1, <1>8
        <3>2. \A m \in Names : path'[m] = new => m = k
            BY <1>1, <1>8
        <3> QED
            BY <1>4, <1>5, <1>7, <1>8, <2>1, <3>1, <3>2
    <2>2. CASE p # q
        <3>1. att'[p] = att[p] /\ att[p].pc \in MakingPCs
            BY <1>8, <2>2
        <3>2. att[p].obj \in 1..Len(objs) /\ att[p].obj # new
            BY <1>1, <1>11, <3>1
        <3>3. objs'[att[p].obj] = objs[att[p].obj]
            BY <1>5, <3>2
        <3>4. \A r \in Procs \ {p} : att'[r].pc \in MakingPCs => att'[r].obj # att'[p].obj
            BY <1>0, <1>7, <1>8, <3>1, <3>2 DEF Makers
        <3>5. \A m \in Names : path'[m] = att'[p].obj => m = att'[p].name
            BY <1>0, <1>8, <3>1, <3>2 DEF Makers
        <3>6. \A r \in Procs : att'[r].pc = "peek" /\ att'[r].obj = att'[p].obj => att'[r].name = att'[p].name
            BY <1>0, <1>7, <1>8, <3>1 DEF Makers
        <3> QED
            BY <1>0, <3>1, <3>3, <3>4, <3>5, <3>6 DEF Makers
    <2> QED
        BY <2>1, <2>2
<1>13. Objects'
    <2> SUFFICES ASSUME NEW i \in 1..new, objs'[i].magic
                 PROVE  objs'[i].stamp # Blank /\ SchemaDone(objs'[i].schema)
        BY <1>5 DEF Objects
    <2>1. i \in 1..Len(objs)
        BY <1>1, <1>4, <1>5
    <2> QED
        BY <1>0, <1>1, <1>5, <2>1 DEF Objects
<1>14. \A p \in Procs : \A m \in Names : node[p].region[m] # 0 => node[p].region[m] \in 1..Len(objs)
    <2>1. \A p \in Procs : \A m \in Names : node[p].region[m] \in 0..Len(objs)
        BY <1>0 DEF SetupTyped
    <2> QED
        BY <1>1, <2>1
<1>15. Attached'
    <2>1. \A p \in Procs : att'[p].pc = "done" => Suits(objs'[att'[p].obj], att'[p].want, att'[p].mode)
        <3> SUFFICES ASSUME NEW p \in Procs, att'[p].pc = "done"
                     PROVE  Suits(objs'[att'[p].obj], att'[p].want, att'[p].mode)
            OBVIOUS
        <3>1. p # q
            BY <1>7, <1>8
        <3>2. att'[p] = att[p]
            BY <1>8, <3>1
        <3>3. objs'[att[p].obj] = objs[att[p].obj]
            BY <1>5, <1>11, <3>2
        <3> QED
            BY <1>0, <3>2, <3>3, Zenon DEF Attached
    <2>2. \A p \in Procs : \A m \in Names : node[p].region[m] # 0 => objs'[node[p].region[m]].magic
        BY <1>0, <1>5, <1>14, Zenon DEF Attached
    <2>3. ASSUME NEW p \in Procs, node[p].pc \in Touching
          PROVE  LET i == node[p].region[NameOf[node[p].call.want.topic]]
                 IN  i # 0 /\ Suits(objs'[i], node[p].call.want, node[p].call.mode)
        <3> DEFINE i == node[p].region[NameOf[node[p].call.want.topic]]
        <3>1. i # 0 /\ Suits(objs[i], node[p].call.want, node[p].call.mode)
            BY <1>0, <2>3, Zenon DEF Attached
        <3>2. NameOf[node[p].call.want.topic] \in Names
            BY <2>3, NodeAssumption DEF Planned, TopicNames
        <3>3. i \in 1..Len(objs)
            BY <1>14, <3>1, <3>2, Zenon
        <3> HIDE DEF i
        <3>4. i # 0 /\ Suits(objs'[i], node[p].call.want, node[p].call.mode)
            BY <1>5, <3>1, <3>3
        <3> QED
            BY <3>4, Zenon DEF i
    <2> QED
        BY <1>2, <2>1, <2>2, <2>3, Zenon DEF Attached
<1>16. Claimants'
    <2>1. \A p \in Procs : att'[p].pc \in ClaimSteps =>
              att'[p] = att[p] /\ att[p].pc \in ClaimSteps /\ objs'[att'[p].obj] = objs[att[p].obj]
        <3>1. "map" \notin ClaimSteps
            BY DEF ClaimSteps
        <3> QED
            BY <1>5, <1>7, <1>8, <1>11, <3>1
    <2> QED
        BY <1>0, <1>2, <2>1 DEF Claimants
<1>17. SetupInv'
    BY <1>9, <1>10, <1>12, <1>13, <1>15, <1>16 DEF SetupInv
<1>18. ASSUME NEW m \in Names, NEW i \in Offered(m)', i # new PROVE i \in Offered(m)
    <2>0. i \in 1..Len(objs) /\ objs'[i] = objs[i]
        <3>1. i \in 1..new
            BY <1>5 DEF Offered
        <3>2. i \in 1..Len(objs)
            BY <1>1, <1>18, <3>1
        <3> QED
            BY <1>5, <3>2
    <2>1. path'[m] = i => path[m] = i
        BY <1>8, <1>18
    <2>2. \A p \in Procs : att'[p].obj = i => att'[p] = att[p]
        BY <1>7, <1>8, <1>18
    <2>3. \/ path'[m] = i
          \/ \E p \in Procs : alive[p] /\ att'[p].name = m /\ att'[p].obj = i /\ att'[p].pc \in MakingPCs
          \/ /\ objs'[i].magic
             /\ \/ \E p \in Procs : alive[p] /\ att'[p].name = m /\ att'[p].obj = i /\ att'[p].pc \in {"peek", "done"}
                \/ \E p \in Procs : alive[p] /\ node[p].region[m] = i
        BY <1>2 DEF Offered
    <2>4. \/ path[m] = i
          \/ \E p \in Procs : alive[p] /\ att[p].name = m /\ att[p].obj = i /\ att[p].pc \in MakingPCs
          \/ /\ objs[i].magic
             /\ \/ \E p \in Procs : alive[p] /\ att[p].name = m /\ att[p].obj = i /\ att[p].pc \in {"peek", "done"}
                \/ \E p \in Procs : alive[p] /\ node[p].region[m] = i
        BY <2>0, <2>1, <2>2, <2>3
    <2> QED
        BY <2>0, <2>4 DEF Offered
<1>19. ASSUME NEW m \in Names, new \in Offered(m)' PROVE m = k
    <2>1. path'[m] = new => m = k
        BY <1>1, <1>8
    <2>2. \A p \in Procs : att'[p].obj = new => p = q
        BY <1>1, <1>8
    <2>3. ~objs'[new].magic
        BY <1>4, <1>5
    <2>4. \/ path'[m] = new
          \/ \E p \in Procs : att'[p].name = m /\ att'[p].obj = new
        BY <1>19, <2>3 DEF Offered
    <2> QED
        BY <1>7, <1>8, <2>1, <2>2, <2>4
<1>20. ASSUME NEW m \in Names
       PROVE  Cardinality(Offered(m)') =< unlinks'[m] + (IF path'[m] = 0 THEN 0 ELSE 1)
    <2>1. IsFiniteSet(Offered(m)) /\ Cardinality(Offered(m)) \in Nat /\ unlinks[m] \in Nat /\ unlinks'[m] = unlinks[m]
        BY <1>0, <1>1, <1>2, OfferedIsFinite
    <2>2. Cardinality(Offered(m)) =< unlinks[m] + (IF path[m] = 0 THEN 0 ELSE 1)
        BY DEF OffersAreCounted
    <2>3. CASE m = k
        <3>1. Offered(m)' \subseteq Offered(m) \cup {new}
            BY <1>18
        <3>2. new \notin Offered(m)
            BY <1>1 DEF Offered
        <3>3. /\ IsFiniteSet(Offered(m) \cup {new})
              /\ Cardinality(Offered(m) \cup {new}) = Cardinality(Offered(m)) + 1
            BY <2>1, <3>2, FS_AddElement
        <3>4. Cardinality(Offered(m)') \in Nat /\ Cardinality(Offered(m)') =< Cardinality(Offered(m) \cup {new})
            BY <3>1, <3>3, FS_Subset, FS_CardinalityType
        <3>5. path[m] = 0 /\ path'[m] # 0
            BY <1>1, <1>2, <1>8, <2>3
        <3> QED
            BY <2>1, <2>2, <3>3, <3>4, <3>5
    <2>4. CASE m # k
        <3>1. Offered(m)' \subseteq Offered(m)
            BY <1>18, <1>19, <2>4
        <3>2. Cardinality(Offered(m)') \in Nat /\ Cardinality(Offered(m)') =< Cardinality(Offered(m))
            BY <2>1, <3>1, FS_Subset, FS_CardinalityType
        <3>3. path'[m] = path[m]
            BY <1>8, <2>4
        <3> QED
            BY <2>1, <2>2, <3>2, <3>3
    <2> QED
        BY <2>3, <2>4
<1> QED
    BY <1>17, <1>20 DEF OffersAreCounted


\* A creator whose object could not be mapped takes a name away without an
\* unlink, but its own object goes with it.
LEMMA FailureIsCounted ==
    ASSUME SetupInv, SetupInv', OffersAreCounted, NEW q \in Procs, MapFails(q), UNCHANGED alive,
           \A n \in Names : Offered(n)' \subseteq Offered(n)
    PROVE  OffersAreCounted'
<1> DEFINE k == att[q].name
           o == att[q].obj
<1>0. SetupTyped /\ SetupTyped' /\ Makers
    BY DEF SetupInv
<1>1. /\ alive[q] /\ att[q].pc = "map" /\ att[q].pc \in MakingPCs /\ unlinks' = unlinks
      /\ path \in [Names -> Nat] /\ unlinks \in [Names -> Nat] /\ att \in [Procs -> AttType] /\ att[q] \in AttType
    BY <1>0 DEF MapFails, AttAt, MakingPCs, SetupTyped
<1>2. CASE path' = path
    <2>1. \A n \in Names :
              unlinks'[n] + (IF path'[n] = 0 THEN 0 ELSE 1) >= unlinks[n] + (IF path[n] = 0 THEN 0 ELSE 1)
        BY <1>1, <1>2
    <2> QED
        BY <1>0, <2>1, OffersShrink
<1>3. CASE path' = [path EXCEPT ![k] = 0]
    <2>1. k \in Names /\ o \in 1..Len(objs) /\ o # 0 /\ ~objs[o].magic /\ objs[o] \in ObjType
        <3>1. AttPlaced(att[q], node[q])
            BY DEF SetupInv
        <3>2. k \in Names /\ o # 0
            BY <1>1, <3>1 DEF AttPlaced, ClaimSteps
        <3> QED
            BY <1>0, <1>1, <3>2, ObjectTable DEF Makers
    <2>2. path'[k] = 0 /\ \A n \in Names \ {k} : path'[n] = path[n]
        BY <1>1, <1>3, <2>1
    <2>3. o \in Offered(k)
        BY <1>1, <2>1 DEF Offered
    <2>4. ASSUME NEW n \in Names, n = k PROVE o \notin Offered(n)'
        <3>1. ~objs'[o].magic
            <4>1. PICK sized \in BOOLEAN : objs' = [objs EXCEPT ![o].sized = sized]
                BY DEF MapFails
            <4>2. objs'[o] = [objs[o] EXCEPT !.sized = sized]
                BY <1>0, <2>1, <4>1, ObjectTable
            <4> HIDE DEF o
            <4> QED
                BY <2>1, <4>2 DEF ObjType
        <3>2. att'[q].pc = "failed" /\ \A p \in Procs \ {q} : att'[p] = att[p]
            BY <1>1, Zenon DEF MapFails, AttGoto, AttType
        <3>3. \A p \in Procs : att'[p].obj = o => att'[p].pc \notin MakingPCs
            BY <1>0, <1>1, <3>2 DEF Makers, MakingPCs
        <3> QED
            BY <2>1, <2>2, <2>4, <3>1, <3>3 DEF Offered
    <2>5. ASSUME NEW n \in Names
          PROVE  Cardinality(Offered(n)') =< unlinks'[n] + (IF path'[n] = 0 THEN 0 ELSE 1)
        <3>1. IsFiniteSet(Offered(n)) /\ Cardinality(Offered(n)) \in Nat /\ unlinks[n] \in Nat
            BY <1>0, <1>1, OfferedIsFinite
        <3>2. Cardinality(Offered(n)) =< unlinks[n] + (IF path[n] = 0 THEN 0 ELSE 1)
            BY DEF OffersAreCounted
        <3>3. CASE n = k
            <4>1. Offered(n)' \subseteq Offered(n) \ {o} /\ o \in Offered(n)
                BY <2>3, <2>4, <3>3
            <4>2. IsFiniteSet(Offered(n) \ {o}) /\ Cardinality(Offered(n) \ {o}) = Cardinality(Offered(n)) - 1
                BY <3>1, <4>1, FS_RemoveElement
            <4>3. Cardinality(Offered(n)') \in Nat /\ Cardinality(Offered(n)') =< Cardinality(Offered(n) \ {o})
                BY <4>1, <4>2, FS_Subset, FS_CardinalityType
            <4> QED
                BY <1>1, <3>1, <3>2, <4>2, <4>3
        <3>4. CASE n # k
            <4>1. Cardinality(Offered(n)') \in Nat /\ Cardinality(Offered(n)') =< Cardinality(Offered(n))
                BY <3>1, FS_Subset, FS_CardinalityType
            <4>2. path'[n] = path[n]
                BY <2>2, <3>4
            <4> QED
                BY <1>1, <3>1, <3>2, <4>1, <4>2
        <3> QED
            BY <3>3, <3>4
    <2> QED
        BY <2>5 DEF OffersAreCounted
<1> QED
    BY <1>2, <1>3 DEF MapFails

\* The stores of makers and claimants.
LEMMA ObjectIsStored ==
    ASSUME Planned, SetupInv, OffersAreCounted, NEW q \in Procs,
           \/ OnlySetup /\ (Map(q) \/ Stamp(q) \/ StampMagic(q)) /\ UNCHANGED faults
           \/ OnlySetup /\ MapFails(q)
           \/ OnlySetup /\ (SchemaBlob(q) \/ SchemaData(q) \/ SchemaSet(q)) /\ UNCHANGED faults
           \/ \E n \in TopicNames : TryClaimTopicSchema(q, n) \/ ResetTopicSchema(q, n)
    PROVE  SetupInv' /\ OffersAreCounted'
<1>0. SetupTyped /\ unlinks \in [Names -> Nat]
    BY DEF SetupInv, SetupTyped
<1>1. SetupInv' /\ \A n \in Names : Offered(n)' \subseteq Offered(n)
    BY RegionIsMade, SchemaIsClaimed
<1>2. CASE UNCHANGED <<path, unlinks>>
    <2>1. \A n \in Names :
              unlinks'[n] + (IF path'[n] = 0 THEN 0 ELSE 1) >= unlinks[n] + (IF path[n] = 0 THEN 0 ELSE 1)
        BY <1>0, <1>2
    <2> QED
        BY <1>0, <1>1, <2>1, OffersShrink DEF SetupInv
<1>3. CASE OnlySetup /\ MapFails(q)
    BY <1>1, <1>3, FailureIsCounted DEF OnlySetup
<1>4. (OnlySetup /\ MapFails(q)) \/ UNCHANGED <<path, unlinks>>
    BY Zenon DEF Map, Stamp, StampMagic, SchemaBlob, SchemaData, SchemaSet, TryClaimTopicSchema, ResetTopicSchema,
           ClaimSchema, ResetSchemaClaim
<1> QED
    BY <1>1, <1>2, <1>3, <1>4

\* A step that leaves the regions alone; some process may die in it.
LEMMA SetupFrame ==
    ASSUME Planned, SetupInv, OffersAreCounted, UNCHANGED <<path, objs, att, unlinks, node>>, faults' \in Nat,
           \A p \in Procs : alive'[p] => alive[p]
    PROVE  SetupInv' /\ OffersAreCounted'
<1>0. /\ SetupTyped /\ Makers /\ Objects /\ Attached /\ Claimants
      /\ \A p \in Procs : AttPlaced(att[p], node[p])
    BY DEF SetupInv
<1>1. SetupTyped'
    BY <1>0 DEF SetupTyped
<1>2. Makers' /\ Objects' /\ Attached'
    BY <1>0, ZenonT(40) DEF Makers, Objects, Attached
<1>3. Claimants'
    BY <1>0 DEF Claimants
<1>4. SetupInv'
    BY <1>0, <1>1, <1>2, <1>3 DEF SetupInv
<1>5. \A n \in Names : Offered(n)' \subseteq Offered(n)
    BY DEF Offered
<1>6. \A n \in Names :
          unlinks'[n] + (IF path'[n] = 0 THEN 0 ELSE 1) >= unlinks[n] + (IF path[n] = 0 THEN 0 ELSE 1)
    BY <1>0 DEF SetupTyped
<1> QED
    BY <1>0, <1>1, <1>4, <1>5, <1>6, OffersShrink

\* The names lead nowhere, or to regions stamped long ago.
LEMMA SetupStarts ==
    ASSUME Init
    PROVE  SetupInv /\ OffersAreCounted
<1>1. PICK s \in Plans :
          /\ faults = s.faults /\ SetupInit(s.there) /\ node = [p \in Procs |-> FreshNode]
    BY DEF Init
<1>2. /\ s.faults \in Nat /\ Len(s.there) \in Nat /\ DOMAIN s.there = 1..Len(s.there)
      /\ \A i \in DOMAIN s.there : s.there[i].want # Blank
    BY NodeAssumption
<1> DEFINE top == Len(s.there)
<1>3. /\ objs = [i \in 1..top |-> Stamped(s.there[i].want)]
      /\ att = [p \in Procs |-> Detached] /\ unlinks = [n \in Names |-> 0]
      /\ path = [n \in Names |-> IF \E i \in 1..top : s.there[i].name = n
                                 THEN CHOOSE i \in 1..top : s.there[i].name = n ELSE 0]
    BY <1>1, <1>2 DEF SetupInit
<1>4. \A i \in 1..top : /\ Stamped(s.there[i].want) \in ObjType
                        /\ Stamped(s.there[i].want).stamp # Blank
                        /\ SchemaDone(Stamped(s.there[i].want).schema)
    <2> SUFFICES ASSUME NEW i \in 1..top
                 PROVE  /\ Stamped(s.there[i].want) \in ObjType
                        /\ Stamped(s.there[i].want).stamp # Blank
                        /\ SchemaDone(Stamped(s.there[i].want).schema)
        OBVIOUS
    <2>1. s.there[i].want \in Wants /\ s.there[i].want # Blank
        BY <1>2 DEF Wants
    <2>2. NoSchema \in SchemaType /\ SchemaDone(NoSchema)
        BY DEF NoSchema, SchemaType, SchemaDone
    <2> QED
        BY <2>1, <2>2 DEF Stamped, ObjType
<1> HIDE DEF top
<1>5. top \in Nat
    BY <1>2 DEF top
<1>6. objs \in Seq(ObjType) /\ Len(objs) = top
    BY <1>3, <1>4, <1>5
<1>7. path \in [Names -> Nat] /\ \A n \in Names : path[n] =< top
    BY <1>3, <1>5
<1>8. \A p \in Procs : att[p] = Detached /\ Detached.pc = "idle" /\ Detached.obj = 0
    BY <1>3, Zenon DEF Detached
<1>9. \A p \in Procs : node[p].pc = "idle" /\ \A n \in Names : node[p].region[n] = 0
    BY <1>1, Zenon DEF FreshNode
<1>10. Detached \in AttType
    <2>1. NoCall \in Calls /\ NoCall.want = Blank
        BY DEF Calls, NoCall
    <2>2. Blank \in Wants
        BY <2>1 DEF Wants
    <2>3. "idle" \in AttPCs /\ "open" \in Modes /\ "" \in Names \cup {""} /\ 0 \in Nat
        BY DEF AttPCs, Modes
    <2> QED
        BY <2>2, <2>3 DEF Detached, AttType
<1>11. "idle" \notin MakingPCs \cup ClaimSteps \cup Touching \cup {"peek", "done", "unlink", "excl", "open"}
    BY DEF MakingPCs, ClaimSteps, Touching
<1>12. SetupTyped
    <2>1. att \in [Procs -> AttType] /\ unlinks \in [Names -> Nat] /\ faults \in Nat
        BY <1>1, <1>2, <1>3, <1>10
    <2>2. \A p \in Procs : att[p].obj =< top
        <3>1. 0 =< top /\ \A p \in Procs : att[p].obj = 0
            BY <1>5, <1>8
        <3> QED
            BY <3>1, Zenon
    <2>3. \A p \in Procs : \A n \in Names : node[p].region[n] \in 0..top
        BY <1>5, <1>9
    <2> QED
        BY <1>6, <1>7, <2>1, <2>2, <2>3 DEF SetupTyped
<1>13. \A p \in Procs : AttPlaced(att[p], node[p])
    BY <1>8, <1>9, <1>11, Zenon DEF AttPlaced
<1>14. Makers /\ Claimants
    BY <1>8, <1>11 DEF Makers, Claimants
<1>15. Objects
    BY <1>3, <1>4 DEF Objects
<1>16. Attached
    BY <1>8, <1>9, <1>11, Zenon DEF Attached
<1>17. SetupInv
    BY <1>12, <1>13, <1>14, <1>15, <1>16 DEF SetupInv
<1>18. ASSUME NEW n \in Names
       PROVE  Cardinality(Offered(n)) =< unlinks[n] + (IF path[n] = 0 THEN 0 ELSE 1)
    <2>1. Offered(n) \subseteq {path[n]} \ {0}
        <3> SUFFICES ASSUME NEW o \in Offered(n) PROVE o = path[n] /\ o # 0
            OBVIOUS
        <3>1. o \in 1..top
            BY <1>6 DEF Offered
        <3>2. o # 0
            BY <1>5, <3>1
        <3> QED
            BY <1>8, <1>9, <1>11, <3>2 DEF Offered
    <2>2. unlinks[n] = 0
        BY <1>3
    <2>3. CASE path[n] = 0
        <3>1. Offered(n) = {}
            BY <2>1, <2>3
        <3> QED
            BY <2>2, <2>3, <3>1, FS_EmptySet
    <2>4. CASE path[n] # 0
        <3>1. IsFiniteSet({path[n]}) /\ Cardinality({path[n]}) = 1
            BY FS_Singleton
        <3>2. Cardinality(Offered(n)) \in Nat /\ Cardinality(Offered(n)) =< 1
            BY <2>1, <3>1, FS_Subset, FS_CardinalityType
        <3> QED
            BY <2>2, <2>4, <3>2
    <2> QED
        BY <2>3, <2>4
<1> QED
    BY <1>17, <1>18 DEF OffersAreCounted


\* Every step keeps what is said of the regions.
LEMMA SetupKept ==
    ASSUME Planned, SetupInv, OffersAreCounted, [Next]_vars
    PROVE  SetupInv' /\ OffersAreCounted'
<1>0. faults \in Nat
    BY DEF SetupInv, SetupTyped
<1>f. ASSUME UNCHANGED <<alive, faults, path, objs, att, unlinks, node>> PROVE SetupInv' /\ OffersAreCounted'
    BY <1>0, <1>f, SetupFrame
<1>1. CASE UNCHANGED vars
    BY <1>1, <1>f DEF vars
<1>2. ASSUME NEW q \in Procs, OnlyRegistry PROVE SetupInv' /\ OffersAreCounted'
    BY <1>2, <1>f DEF OnlyRegistry, setupVars
<1>3. CASE Next
    <2> SUFFICES ASSUME NEW q \in Procs,
                        \/ UnlinkFirst(q) /\ OnlySetup /\ UNCHANGED faults
                        \/ ExclCreate(q) /\ OnlySetup /\ UNCHANGED faults
                        \/ ExclExists(q) /\ OnlySetup /\ UNCHANGED faults
                        \/ OnlySetup /\ (Map(q) \/ Stamp(q) \/ StampMagic(q)) /\ UNCHANGED faults
                        \/ OnlySetup /\ MapFails(q)
                        \/ OnlySetup /\ (TryOpen(q) \/ OpenFails(q) \/ Peek(q))
                        \/ OnlySetup /\ (SchemaBlob(q) \/ SchemaData(q) \/ SchemaSet(q)) /\ UNCHANGED faults
                        \/ OnlyRegistry
                        \/ \E c \in left.calls[q] : CallCached(q, c) \/ CallAttach(q, c)
                        \/ AttachEnds(q) \/ TouchDisabled(q) \/ TouchLazily(q) \/ LazyEnds(q)
                        \/ TouchNew(q) \/ TouchCovered(q) \/ TouchUpgrade(q) \/ UpgradeRegisters(q)
                        \/ RegisterEnds(q) \/ BothEnds(q) \/ BothFails(q) \/ FallbackEnds(q) \/ Leave(q) \/ Left(q)
                        \/ \E n \in TopicNames : UnlinkTopic(q, n)
                        \/ \E n \in TopicNames : TryClaimTopicSchema(q, n) \/ ResetTopicSchema(q, n)
                        \/ Observe(q) \/ ObserveEnds(q) \/ Crash(q)
                 PROVE  SetupInv' /\ OffersAreCounted'
        BY <1>3 DEF Next
    <2>1. CASE \/ OnlySetup /\ (UnlinkFirst(q) \/ ExclExists(q)) /\ UNCHANGED faults
               \/ OnlySetup /\ (TryOpen(q) \/ OpenFails(q) \/ Peek(q))
        BY <2>1, AttachGoesOn
    <2>2. CASE ExclCreate(q) /\ OnlySetup /\ UNCHANGED faults
        BY <2>2, RegionIsBorn
    <2>3. CASE \/ OnlySetup /\ (Map(q) \/ Stamp(q) \/ StampMagic(q)) /\ UNCHANGED faults
               \/ OnlySetup /\ MapFails(q)
               \/ OnlySetup /\ (SchemaBlob(q) \/ SchemaData(q) \/ SchemaSet(q)) /\ UNCHANGED faults
               \/ \E n \in TopicNames : TryClaimTopicSchema(q, n) \/ ResetTopicSchema(q, n)
        BY <2>3, ObjectIsStored
    <2>4. CASE \/ \E c \in left.calls[q] : CallCached(q, c)
               \/ TouchDisabled(q) \/ TouchNew(q) \/ TouchCovered(q) \/ TouchUpgrade(q) \/ UpgradeRegisters(q)
               \/ RegisterEnds(q) \/ BothEnds(q) \/ BothFails(q) \/ FallbackEnds(q) \/ Leave(q) \/ Left(q)
        BY <2>4, NodeWorksOn
    <2>5. CASE \/ \E c \in left.calls[q] : CallAttach(q, c)
               \/ AttachEnds(q) \/ TouchLazily(q) \/ LazyEnds(q)
               \/ \E n \in TopicNames : UnlinkTopic(q, n)
        BY <2>5, AttachIsCalled
    <2>6. CASE Observe(q) \/ ObserveEnds(q)
        BY <1>f, <2>6 DEF Observe, ObserveEnds, setupVars
    <2>7. CASE Crash(q)
        <3>1. UNCHANGED <<path, objs, att, unlinks, node>> /\ alive' = [alive EXCEPT ![q] = FALSE] /\ faults' \in Nat
            BY <1>0, <2>7 DEF Crash, Die, Fault, setupVars
        <3>2. \A p \in Procs : alive'[p] => alive[p]
            BY <3>1 DEF Planned
        <3> QED
            BY <3>1, <3>2, SetupFrame
    <2> QED
        BY <1>2, <2>1, <2>2, <2>3, <2>4, <2>5, <2>6, <2>7
<1> QED
    BY <1>1, <1>3

-----------------------------------------------------------------------------
(***************************************************************************)
(* The whole invariant, and what follows from it.                          *)
(***************************************************************************)
NodeInv == RegistryInv /\ SetupInv /\ OffersAreCounted

\* The invariant holds in every state of the nodes, the regions and the
\* registry, whoever dies at whatever step (Node, SharedRegion, Registry).
THEOREM NodeInvariant == Spec => []NodeInv
<1>1. Init => NodeInv
    BY RegistryStarts, SetupStarts DEF NodeInv
<1>2. NodeInv /\ [Next]_vars => NodeInv'
    <2> SUFFICES ASSUME NodeInv, [Next]_vars PROVE NodeInv'
        OBVIOUS
    <2>1. RegistryInv /\ SetupInv /\ OffersAreCounted /\ Planned
        BY DEF NodeInv, RegistryInv
    <2>2. \A p \in Procs : att[p].obj \in Nat
        BY <2>1, ObjectTable DEF SetupInv
    <2>3. RegistryInv'
        BY <2>1, <2>2, RegistryKept
    <2>4. SetupInv' /\ OffersAreCounted'
        BY <2>1, SetupKept
    <2> QED
        BY <2>3, <2>4 DEF NodeInv
<1> QED
    BY <1>1, <1>2, PTL DEF Spec

\* Every variable of the nodes, the regions and the registry keeps its type:
\* names lead to objects that exist, slots and calls to rows of the table.
THEOREM NodeTypes == Spec => []TypeOK
<1>1. NodeInv => TypeOK
    <2> SUFFICES ASSUME NodeInv PROVE TypeOK
        OBVIOUS
    <2>0. /\ Planned /\ RegTyped /\ SetupTyped /\ SlotsInTable
          /\ \A p \in Procs : RegPlaced(reg[p])
        BY DEF NodeInv, RegistryInv, SetupInv
    <2>1. alive \in [Procs -> BOOLEAN] /\ faults \in Nat
        BY <2>0 DEF Planned, SetupTyped
    <2>2. Len(objs) \in Nat /\ path \in [Names -> Nat] /\ \A n \in Names : path[n] =< Len(objs)
        BY <2>0 DEF SetupTyped
    <2>3. path \in [Names -> 0..Len(objs)]
        BY <2>2
    <2>4. ASSUME NEW o \in DOMAIN objs
          PROVE  /\ objs[o].sized \in BOOLEAN /\ objs[o].magic \in BOOLEAN
                 /\ objs[o].schema.state \in {"Unset", "Claiming", "Set"}
                 /\ {objs[o].schema.blob, objs[o].schema.data} \subseteq Procs \cup {Blank}
        <3>1. objs[o] \in ObjType
            BY <2>0, <2>4, ObjectTable
        <3>2. objs[o].schema \in SchemaType /\ objs[o].sized \in BOOLEAN /\ objs[o].magic \in BOOLEAN
            BY <3>1 DEF ObjType
        <3> QED
            BY <3>2 DEF SchemaType
    <2>5. ASSUME NEW i \in Rows
          PROVE  /\ rows[i].state \in {"Free", "Claiming", "Active", "Reclaiming"}
                 /\ rows[i].gen \in Nat
                 /\ {rows[i].who, rows[i].what.by} \subseteq Procs \cup {NoProc}
        <3>1. rows[i] \in RowType
            BY <2>0, <2>5, Table
        <3>2. rows[i].what \in WhatType /\ rows[i].who \in Owners
            BY <3>1 DEF RowType
        <3> QED
            BY <3>1, <3>2 DEF RowType, WhatType, Owners
    <2>6. ASSUME NEW p \in Procs
          PROVE  /\ att[p].obj \in 0..Len(objs)
                 /\ reg[p].row \in Rows \cup {NoRow}
                 /\ reg[p].pc \notin {"idle", "done"} => reg[p].row # NoRow
                 /\ \A n \in Names : node[p].region[n] \in 0..Len(objs)
                 /\ \A n \in TopicNames : node[p].slot[n].row \in Rows \cup {NoRow}
        <3>1. att[p].obj \in 0..Len(objs)
            BY <2>0, <2>2, ObjectTable
        <3>2. reg[p].row \in Rows \cup {NoRow} /\ (reg[p].pc \notin {"idle", "done"} => reg[p].row # NoRow)
            <4>1. reg[p].row \in 0..Len(rows) /\ (reg[p].pc \notin {"idle", "done"} => reg[p].row # NoRow)
                BY <2>0 DEF RegPlaced
            <4>2. Rows = 1..Len(rows) /\ Len(rows) \in Nat
                BY <2>0, Table
            <4> QED
                BY <4>1, <4>2 DEF NoRow
        <3>3. \A n \in Names : node[p].region[n] \in 0..Len(objs)
            BY <2>0 DEF SetupTyped
        <3>4. \A n \in TopicNames : node[p].slot[n].row \in Rows \cup {NoRow}
            BY <2>0 DEF SlotsInTable, NoSlot
        <3> QED
            BY <3>1, <3>2, <3>3, <3>4
    <2> QED
        BY <2>1, <2>3, <2>4, <2>5, <2>6 DEF TypeOK
<1> QED
    BY <1>1, NodeInvariant, PTL

\* A call that got its region got the one it asked for, whole and stamped for
\* its topic, whatever creators, failures, deaths, unlinks and names that
\* collide did between its steps (create_or_open, validate_opened,
\* check_cached_identity).
THEOREM CallIsServed == Spec => []CallGetsItsRegion
<1>1. NodeInv => CallGetsItsRegion
    <2> SUFFICES ASSUME NodeInv, NEW p \in Nodes, node[p].pc \in Touching
                 PROVE  /\ objs[Region(p)].magic /\ objs[Region(p)].stamp # Blank
                        /\ objs[Region(p)].stamp.topic = node[p].call.want.topic
                        /\ node[p].call.mode # "open" => objs[Region(p)].stamp.cfg = node[p].call.want.cfg
        BY DEF CallGetsItsRegion, Touching
    <2>1. Attached /\ p \in Procs
        BY NodeAssumption DEF NodeInv, SetupInv
    <2> QED
        BY <2>1, Zenon DEF Attached, Suits, Region, Topic
<1> QED
    BY <1>1, NodeInvariant, PTL

\* The live nodes that have a region of one name have no more different ones
\* than the name's unlinks allow: O_EXCL makes joiners meet, and the clean-up
\* of a creator that failed takes no more than its own object (try_create).
THEOREM JoinersShareARegion == Spec => []JoinersMeet
<1>1. NodeInv => JoinersMeet
    <2> SUFFICES ASSUME NodeInv, NEW n \in Names PROVE Cardinality(Mapped(n)) =< 1 + unlinks[n]
        BY DEF JoinersMeet
    <2>0. SetupTyped /\ Attached /\ OffersAreCounted
        BY DEF NodeInv, SetupInv
    <2>1. IsFiniteSet(Offered(n)) /\ Cardinality(Offered(n)) \in Nat /\ unlinks[n] \in Nat
        BY <2>0, OfferedIsFinite DEF SetupTyped
    <2>2. Cardinality(Offered(n)) =< unlinks[n] + (IF path[n] = 0 THEN 0 ELSE 1)
        BY <2>0 DEF OffersAreCounted
    <2>3. Mapped(n) \subseteq Offered(n)
        <3> SUFFICES ASSUME NEW p \in Nodes, alive[p], node[p].region[n] # 0 PROVE node[p].region[n] \in Offered(n)
            BY DEF Mapped
        <3>1. p \in Procs
            BY NodeAssumption
        <3>2. node[p].region[n] \in 0..Len(objs) /\ Len(objs) \in Nat
            BY <2>0, <3>1 DEF SetupTyped
        <3>3. node[p].region[n] \in 1..Len(objs)
            BY <3>2
        <3>4. objs[node[p].region[n]].magic
            BY <2>0, <3>1, Zenon DEF Attached
        <3> QED
            BY <3>1, <3>3, <3>4 DEF Offered
    <2>4. Cardinality(Mapped(n)) \in Nat /\ Cardinality(Mapped(n)) =< Cardinality(Offered(n))
        BY <2>1, <2>3, FS_Subset, FS_CardinalityType
    <2> QED
        BY <2>1, <2>2, <2>4
<1> QED
    BY <1>1, NodeInvariant, PTL

\* A schema that says Set is of one claimant and nobody writes it any more,
\* even if claimants died half way and their claims were reset
\* (try_claim_schema, reset_schema_claim).
THEOREM SchemaIsFinal == Spec => []SchemaIsWhole
<1>1. NodeInv => SchemaIsWhole
    <2> SUFFICES ASSUME NodeInv, NEW o \in 1..Len(objs), objs[o].magic, objs[o].schema.state = "Set"
                 PROVE  /\ objs[o].schema.blob = objs[o].schema.data
                        /\ objs[o].schema.blob # Blank
                        /\ \A p \in Procs : alive[p] /\ att[p].pc \in ClaimSteps => att[p].obj # o
        BY DEF SchemaIsWhole
    <2>1. SetupTyped /\ Objects /\ Claimants
        BY DEF NodeInv, SetupInv
    <2>2. SchemaDone(objs[o].schema)
        BY <2>1, ObjectTable DEF Objects
    <2>3. \A p \in Procs : alive[p] /\ att[p].pc \in ClaimSteps => objs[att[p].obj].schema.state = "Claiming"
        BY <2>1 DEF Claimants
    <2> QED
        BY <2>2, <2>3 DEF SchemaDone
<1> QED
    BY <1>1, NodeInvariant, PTL

\* No two live processes write one row of the registry: claimants, owners
\* that leave and sweepers pass rows on by their generation alone
\* (Registry::register_participant, deregister, sweep_stale).
THEOREM RowHasOneWriter == Spec => []WritersAreAlone
<1>1. NodeInv => WritersAreAlone
    BY DEF NodeInv, RegistryInv
<1> QED
    BY <1>1, NodeInvariant, PTL

\* What a snapshot lists is the identity and the description of one
\* participant, read under one even generation (Registry::snapshot).
THEOREM SnapshotShowsOne == Spec => []SnapshotIsCoherent
<1>1. NodeInv => SnapshotIsCoherent
    BY NodeAssumption DEF NodeInv, RegistryInv, Copies, Coherent, SnapshotIsCoherent
<1> QED
    BY <1>1, NodeInvariant, PTL

\* The row a live node recorded is its own, settled and shows the role it
\* recorded, and no row shows a live node that does not know of it
\* (Node::touch_registry, ~Node).
THEOREM NodeKeepsItsRow == Spec => []SlotIsMine
<1>1. NodeInv => SlotIsMine
    <2> SUFFICES ASSUME NodeInv, NEW p \in Nodes, alive[p]
                 PROVE  /\ \A n \in TopicNames :
                               LET s == node[p].slot[n]
                               IN  s # NoSlot /\ (node[p].pc \in {"upgrade", "both", "fallback"} => Topic(p) # n)
                                   => /\ rows[s.row].state = "Active" /\ ~Odd(rows[s.row].gen)
                                      /\ rows[s.row].who = p
                                      /\ rows[s.row].what = [by |-> p, role |-> s.role]
                        /\ \A i \in Rows :
                               rows[i].state = "Active" /\ rows[i].who = p =>
                                   \/ reg[p].row = i
                                   \/ \E n \in TopicNames : node[p].slot[n].row = i
        BY DEF SlotIsMine
    <2>1. OwnersHold /\ RowsAreKnown /\ p \in Procs
        BY NodeAssumption DEF NodeInv, RegistryInv
    <2>2. ASSUME NEW n \in TopicNames, node[p].slot[n] # NoSlot,
                 node[p].pc \in {"upgrade", "both", "fallback"} => Topic(p) # n
          PROVE  Owned(p, rows[node[p].slot[n].row], node[p].slot[n].role)
        <3>1. n \in Standing(node[p])
            BY <2>2 DEF Standing, Replacing, Topic
        <3> QED
            BY <2>1, <3>1 DEF OwnersHold
    <2>3. ASSUME NEW i \in Rows, rows[i].state = "Active", rows[i].who = p
          PROVE  reg[p].row = i \/ \E n \in TopicNames : node[p].slot[n].row = i
        BY <2>1, <2>3 DEF RowsAreKnown, Standing
    <2> QED
        BY <2>2, <2>3 DEF Owned
<1> QED
    BY <1>1, NodeInvariant, PTL
=============================================================================
