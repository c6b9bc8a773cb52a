-------------------------------- MODULE Node --------------------------------
(***************************************************************************)
(* The Node of a process, composed with the regions it attaches to and the *)
(* registry it announces itself in.  A call attaches to the region of its  *)
(* topic unless the node has it already, then touches the registry: the    *)
(* first touch opens or creates it, a second role turns the row into Both. *)
(* Observers are the tools that list and sweep the registry.               *)
(***************************************************************************)
EXTENDS Setup, Registry, FiniteSets

CONSTANTS
    Nodes, Observers,
    RegistryName,          \* the registry's name among Names
    NameOf,                \* per topic: its sanitised name
    Plans                  \* the bounds, by scenario: what is there at the
                           \* start, and how much of each operation follows

Topics == DOMAIN NameOf
TopicNames == Names \ {RegistryName}

\* What the registry's opener compares: nothing.
RegistryStamp == [topic |-> RegistryName, cfg |-> 0, schema |-> FALSE]

ASSUME NodeAssumption ==
    /\ Procs = Nodes \cup Observers /\ Nodes \cap Observers = {}
    /\ RegistryName \in Names
    /\ \A t \in Topics : NameOf[t] \in TopicNames
    /\ Blank \notin Procs /\ Blank # RegistryStamp
    /\ \A s \in Plans :
           /\ s.capacity \in Nat \ {0} /\ s.faults \in Nat
           /\ Len(s.there) \in Nat /\ DOMAIN s.there = 1..Len(s.there)
           /\ \A i \in DOMAIN s.there : s.there[i].want # Blank
           /\ \A p \in Nodes : \A c \in s.calls[p] :
                  c.mode \in Modes /\ c.want # Blank /\ c.want.topic \in Topics
           /\ \A p \in Observers : s.calls[p] = {}

VARIABLES
    node,   \* per node: its regions, registry_slots_, flags and the call under way
    left    \* bound: the calls the nodes choose from, and how much is left of each

vars == <<alive, faults, path, objs, att, unlinks, rows, reg, node, left>>

NoSlot == [row |-> NoRow, role |-> "none"]

NoCall == [mode |-> "open", role |-> "none", want |-> Blank]

FreshNode == [pc |-> "idle", call |-> NoCall, disabled |-> FALSE,
              region |-> [n \in Names |-> 0], slot |-> [n \in TopicNames |-> NoSlot]]

Init ==
    \E s \in Plans :
        /\ alive = [p \in Procs |-> TRUE]
        /\ faults = s.faults
        /\ SetupInit(s.there)
        /\ RegistryInit(s.capacity)
        /\ node = [p \in Procs |-> FreshNode]
        /\ left = [calls |-> s.calls, call |-> s.call, unlink |-> s.unlink,
                   claim |-> s.claim, look |-> s.look]

NodeAt(p, pc) == alive[p] /\ node[p].pc = pc

NodeGoto(p, pc) == node' = [node EXCEPT ![p].pc = pc]

Topic(p) == NameOf[node[p].call.want.topic]

Region(p) == node[p].region[Topic(p)]

Slot(p) == node[p].slot[Topic(p)]

\* The call returns; what it was about is forgotten.
Ended(n) == [n EXCEPT !.pc = "idle", !.call = NoCall]

-----------------------------------------------------------------------------
(***************************************************************************)
(* The calls that hand out publishers, subscribers and boards: the way to  *)
(* the region.                                                             *)
(***************************************************************************)
\* One record per entry point: how it reaches its region, and in which role.
Advertise(w) == [mode |-> "create", role |-> "Publisher", want |-> w]
Subscribe(w) == [mode |-> "open", role |-> "Subscriber", want |-> w]
AdvertiseOrJoin(w) == [mode |-> "join", role |-> "Publisher", want |-> w]
SubscribeOrCreate(w) == [mode |-> "join", role |-> "Subscriber", want |-> w]
JoinBroadcast(w) == [mode |-> "join", role |-> "Both", want |-> w]
CreateMailbox(w) == [mode |-> "create", role |-> "Subscriber", want |-> w]
OpenMailbox(w) == [mode |-> "open", role |-> "Publisher", want |-> w]
CreateOrOpenMailbox(w) == [mode |-> "join", role |-> "Subscriber", want |-> w]
OpenOrCreateMailbox(w) == [mode |-> "join", role |-> "Publisher", want |-> w]
OpenBlackboard(w) == [mode |-> "join", role |-> "Both", want |-> w]

\* check_cached_identity, and check_cached_config unless the call only opens.
CacheFits(stamp, c) ==
    stamp.topic = c.want.topic /\ (c.mode # "open" => stamp.cfg = c.want.cfg)

\* A region the node has is used again, or the call throws.
CallCached(p, c) ==
    LET o == node[p].region[NameOf[c.want.topic]]
    IN  /\ NodeAt(p, "idle") /\ left.call[p] > 0
        /\ att[p].pc = "idle"
        /\ o # 0
        /\ node' = [node EXCEPT ![p] = IF CacheFits(objs[o].stamp, c)
                                       THEN [@ EXCEPT !.pc = "touch", !.call = c] ELSE @]
        /\ left' = [left EXCEPT !.call[p] = @ - 1]
        /\ UNCHANGED <<alive, faults, setupVars, registryVars>>

CallAttach(p, c) ==
    LET n == NameOf[c.want.topic]
    IN  /\ NodeAt(p, "idle") /\ left.call[p] > 0
        /\ att[p].pc = "idle"
        /\ node[p].region[n] = 0
        /\ node' = [node EXCEPT ![p].pc = "attach", ![p].call = c]
        /\ att' = [att EXCEPT ![p] = Attaching(c.mode, n, c.want)]
        /\ left' = [left EXCEPT !.call[p] = @ - 1]
        /\ UNCHANGED <<alive, faults, path, objs, unlinks, registryVars>>

\* The region is kept in regions_, or the exception ends the call.
AttachEnds(p) ==
    /\ NodeAt(p, "attach")
    /\ \/ /\ att[p].pc = "done"
          /\ node' = [node EXCEPT ![p].pc = "touch", ![p].region[Topic(p)] = att[p].obj]
       \/ /\ att[p].pc = "failed"
          /\ node' = [node EXCEPT ![p] = Ended(@)]
    /\ att' = [att EXCEPT ![p] = Detached]
    /\ UNCHANGED <<alive, faults, path, objs, unlinks, registryVars, left>>

-----------------------------------------------------------------------------
(***************************************************************************)
(* touch_registry                                                          *)
(***************************************************************************)
TouchDisabled(p) ==
    /\ NodeAt(p, "touch") /\ node[p].disabled
    /\ node' = [node EXCEPT ![p] = Ended(@)]
    /\ UNCHANGED <<alive, faults, setupVars, registryVars, left>>

\* lazy_registry: the first touch opens or creates the registry.
TouchLazily(p) ==
    /\ NodeAt(p, "touch") /\ ~node[p].disabled /\ node[p].region[RegistryName] = 0
    /\ NodeGoto(p, "lazy")
    /\ att' = [att EXCEPT ![p] = Attaching("join", RegistryName, RegistryStamp)]
    /\ UNCHANGED <<alive, faults, path, objs, unlinks, registryVars, left>>

\* Without a registry the node works on, and does not try again.
LazyEnds(p) ==
    /\ NodeAt(p, "lazy")
    /\ \/ /\ att[p].pc = "done"
          /\ node' = [node EXCEPT ![p].pc = "touch", ![p].region[RegistryName] = att[p].obj]
       \/ /\ att[p].pc = "failed"
          /\ node' = [node EXCEPT ![p] = [Ended(@) EXCEPT !.disabled = TRUE]]
    /\ att' = [att EXCEPT ![p] = Detached]
    /\ UNCHANGED <<alive, faults, path, objs, unlinks, registryVars, left>>

CanTouch(p) == NodeAt(p, "touch") /\ ~node[p].disabled /\ node[p].region[RegistryName] # 0

\* The topic has no row of this node: register under the call's role.
TouchNew(p) ==
    /\ CanTouch(p) /\ Slot(p) = NoSlot
    /\ reg' = [reg EXCEPT ![p] = RegisterCall(node[p].call.role)]
    /\ NodeGoto(p, "register")
    /\ UNCHANGED <<alive, faults, setupVars, rows, left>>

Covers(p) == Slot(p).role \in {node[p].call.role, "Both"}

TouchCovered(p) ==
    /\ CanTouch(p) /\ Slot(p) # NoSlot /\ Covers(p)
    /\ node' = [node EXCEPT ![p] = Ended(@)]
    /\ UNCHANGED <<alive, faults, setupVars, registryVars, left>>

\* Another role than the one recorded: give the row up and register as Both.
TouchUpgrade(p) ==
    /\ CanTouch(p) /\ Slot(p) # NoSlot /\ ~Covers(p)
    /\ reg' = [reg EXCEPT ![p] = DeregisterCall(Slot(p).row)]
    /\ NodeGoto(p, "upgrade")
    /\ UNCHANGED <<alive, faults, setupVars, rows, left>>

UpgradeRegisters(p) ==
    /\ NodeAt(p, "upgrade") /\ reg[p].pc = "done"
    /\ reg' = [reg EXCEPT ![p] = RegisterCall("Both")]
    /\ NodeGoto(p, "both")
    /\ UNCHANGED <<alive, faults, setupVars, rows, left>>

\* The row and role of a registration that succeeded; a failed one is erased.
Recorded(p, role) == IF reg[p].row = NoRow THEN NoSlot ELSE [row |-> reg[p].row, role |-> role]

Record(p, s) ==
    /\ node' = [node EXCEPT ![p] = Ended([@ EXCEPT !.slot[Topic(p)] = s])]
    /\ reg' = [reg EXCEPT ![p] = AtRest]

RegisterEnds(p) ==
    /\ NodeAt(p, "register") /\ reg[p].pc = "done"
    /\ Record(p, Recorded(p, node[p].call.role))
    /\ UNCHANGED <<alive, faults, setupVars, rows, left>>

BothEnds(p) ==
    /\ NodeAt(p, "both") /\ reg[p].pc = "done" /\ reg[p].row # NoRow
    /\ Record(p, Recorded(p, "Both"))
    /\ UNCHANGED <<alive, faults, setupVars, rows, left>>

\* The registry filled up meanwhile: try to come back under the former role.
BothFails(p) ==
    /\ NodeAt(p, "both") /\ reg[p].pc = "done" /\ reg[p].row = NoRow
    /\ reg' = [reg EXCEPT ![p] = RegisterCall(Slot(p).role)]
    /\ NodeGoto(p, "fallback")
    /\ UNCHANGED <<alive, faults, setupVars, rows, left>>

\* Mutant of FallbackEnds: the index of the row given up stays recorded.
FallbackKeepsIndex(p) ==
    /\ NodeAt(p, "fallback") /\ reg[p].pc = "done"
    /\ Record(p, Slot(p))
    /\ UNCHANGED <<alive, faults, setupVars, rows, left>>

FallbackEnds(p) ==
    /\ NodeAt(p, "fallback") /\ reg[p].pc = "done"
    /\ Record(p, Recorded(p, Slot(p).role))
    /\ UNCHANGED <<alive, faults, setupVars, rows, left>>

-----------------------------------------------------------------------------
(***************************************************************************)
(* The rest of a node's life, and the observers.                           *)
(***************************************************************************)
\* ~Node deregisters its rows one after the other.
Leave(p) ==
    /\ NodeAt(p, "idle") \/ NodeAt(p, "leaving")
    /\ att[p].pc = "idle" /\ reg[p].pc = "idle"
    /\ \E n \in TopicNames :
          /\ node[p].slot[n] # NoSlot
          /\ reg' = [reg EXCEPT ![p] = DeregisterCall(node[p].slot[n].row)]
          /\ node' = [node EXCEPT ![p].pc = "leaving", ![p].slot[n] = NoSlot]
    /\ UNCHANGED <<alive, faults, setupVars, rows, left>>

Left(p) ==
    /\ NodeAt(p, "leaving") /\ reg[p].pc = "done"
    /\ reg' = [reg EXCEPT ![p] = AtRest]
    /\ NodeGoto(p, IF \A n \in TopicNames : node[p].slot[n] = NoSlot THEN "gone" ELSE "leaving")
    /\ UNCHANGED <<alive, faults, setupVars, rows, left>>

\* unlink_topic and its siblings.
UnlinkTopic(p, n) ==
    /\ p \in Nodes /\ NodeAt(p, "idle") /\ att[p].pc = "idle" /\ left.unlink > 0
    /\ UnlinkName(n)
    /\ left' = [left EXCEPT !.unlink = @ - 1]
    /\ UNCHANGED <<alive, faults, objs, att, registryVars, node>>

\* try_claim_topic_schema on a region the node has.
TryClaimTopicSchema(p, n) ==
    /\ NodeAt(p, "idle") /\ att[p].pc = "idle" /\ left.claim > 0
    /\ node[p].region[n] # 0
    /\ ClaimSchema(p, node[p].region[n])
    /\ left' = [left EXCEPT !.claim = @ - 1]
    /\ UNCHANGED <<alive, faults, registryVars, node>>

ResetTopicSchema(p, n) ==
    /\ NodeAt(p, "idle") /\ att[p].pc = "idle"
    /\ node[p].region[n] # 0
    /\ ResetSchemaClaim(node[p].region[n])
    /\ UNCHANGED <<alive, faults, registryVars, node, left>>

\* An observer that found the registry ready lists or sweeps it.
Observe(p) ==
    /\ p \in Observers /\ alive[p] /\ left.look > 0
    /\ reg[p].pc = "idle"
    /\ path[RegistryName] # 0 /\ Ready(path[RegistryName])
    /\ \E c \in {SweepCall, SnapshotCall} : reg' = [reg EXCEPT ![p] = c]
    /\ left' = [left EXCEPT !.look = @ - 1]
    /\ UNCHANGED <<alive, faults, setupVars, rows, node>>

ObserveEnds(p) ==
    /\ p \in Observers /\ RegAt(p, "done")
    /\ reg' = [reg EXCEPT ![p] = AtRest]
    /\ UNCHANGED <<alive, faults, setupVars, rows, node, left>>

Crash(p) == Die(p) /\ UNCHANGED <<setupVars, registryVars, node, left>>

\* A step of the attach or of the registry's call leaves the rest alone.
OnlySetup == UNCHANGED <<alive, registryVars, node, left>>
OnlyRegistry == UNCHANGED <<alive, faults, setupVars, node, left>>

Next ==
    \E p \in Procs :
        \/ UnlinkFirst(p) /\ OnlySetup /\ UNCHANGED faults
        \/ ExclCreate(p) /\ OnlySetup /\ UNCHANGED faults
        \/ ExclExists(p) /\ OnlySetup /\ UNCHANGED faults
        \/ Map(p) /\ OnlySetup /\ UNCHANGED faults
        \/ MapFails(p) /\ OnlySetup
        \/ Stamp(p) /\ OnlySetup /\ UNCHANGED faults
        \/ StampMagic(p) /\ OnlySetup /\ UNCHANGED faults
        \/ TryOpen(p) /\ OnlySetup
        \/ OpenFails(p) /\ OnlySetup
        \/ Peek(p) /\ OnlySetup
        \/ SchemaBlob(p) /\ OnlySetup /\ UNCHANGED faults
        \/ SchemaData(p) /\ OnlySetup /\ UNCHANGED faults
        \/ SchemaSet(p) /\ OnlySetup /\ UNCHANGED faults
        \/ ClaimRow(p) /\ OnlyRegistry
        \/ SkipRow(p) /\ OnlyRegistry
        \/ OpenGeneration(p) /\ OnlyRegistry
        \/ StoreIdentity(p) /\ OnlyRegistry
        \/ StoreFields(p) /\ OnlyRegistry
        \/ StoreActive(p) /\ OnlyRegistry
        \/ PublishRow(p) /\ OnlyRegistry
        \/ RetireRow(p) /\ OnlyRegistry
        \/ ClearIdentity(p) /\ OnlyRegistry
        \/ SettleCleared(p) /\ OnlyRegistry
        \/ PublishFree(p) /\ OnlyRegistry
        \/ SweepState(p) /\ OnlyRegistry
        \/ SweepGeneration(p) /\ OnlyRegistry
        \/ SweepIdentity(p) /\ OnlyRegistry
        \/ AcquireTenancy(p) /\ OnlyRegistry
        \/ StoreReclaiming(p) /\ OnlyRegistry
        \/ SnapState(p) /\ OnlyRegistry
        \/ SnapGeneration(p) /\ OnlyRegistry
        \/ SnapIdentity(p) /\ OnlyRegistry
        \/ SnapFields(p) /\ OnlyRegistry
        \/ SnapRecheck(p) /\ OnlyRegistry
        \/ SnapEnd(p) /\ OnlyRegistry
        \/ \E c \in left.calls[p] : CallCached(p, c)
        \/ \E c \in left.calls[p] : CallAttach(p, c)
        \/ AttachEnds(p)
        \/ TouchDisabled(p)
        \/ TouchLazily(p)
        \/ LazyEnds(p)
        \/ TouchNew(p)
        \/ TouchCovered(p)
        \/ TouchUpgrade(p)
        \/ UpgradeRegisters(p)
        \/ RegisterEnds(p)
        \/ BothEnds(p)
        \/ BothFails(p)
        \/ FallbackEnds(p)
        \/ Leave(p)
        \/ Left(p)
        \/ \E n \in TopicNames : UnlinkTopic(p, n)
        \/ \E n \in TopicNames : TryClaimTopicSchema(p, n)
        \/ \E n \in TopicNames : ResetTopicSchema(p, n)
        \/ Observe(p)
        \/ ObserveEnds(p)
        \/ Crash(p)

Spec == Init /\ [][Next]_vars

-----------------------------------------------------------------------------
\* Every variable holds a value of its type.
TypeOK ==
    /\ alive \in [Procs -> BOOLEAN]
    /\ faults \in Nat
    /\ path \in [Names -> 0..Len(objs)]
    /\ \A o \in DOMAIN objs :
           /\ objs[o].sized \in BOOLEAN /\ objs[o].magic \in BOOLEAN
           /\ objs[o].schema.state \in {"Unset", "Claiming", "Set"}
           /\ {objs[o].schema.blob, objs[o].schema.data} \subseteq Procs \cup {Blank}
    /\ \A i \in Rows :
           /\ rows[i].state \in {"Free", "Claiming", "Active", "Reclaiming"}
           /\ rows[i].gen \in Nat
           /\ {rows[i].who, rows[i].what.by} \subseteq Procs \cup {NoProc}
    /\ \A p \in Procs :
           /\ att[p].obj \in 0..Len(objs)
           /\ reg[p].row \in Rows \cup {NoRow}
           /\ reg[p].pc \notin {"idle", "done"} => reg[p].row # NoRow
           /\ \A n \in Names : node[p].region[n] \in 0..Len(objs)
           /\ \A n \in TopicNames : node[p].slot[n].row \in Rows \cup {NoRow}

\* A call that got its region got the one it asked for, whole: published by
\* its magic, stamped for the call's topic and, unless it only opens, with its
\* configuration.  The stamping of a creator, its death or failure, an unlink
\* and a topic that collides on the name may all fall between the call's steps
\* (create_or_open's loop, validate_opened, check_cached_identity).
CallGetsItsRegion ==
    \A p \in Nodes :
        node[p].pc \in {"touch", "lazy", "register", "upgrade", "both", "fallback"} =>
            LET r == objs[Region(p)]
                c == node[p].call
            IN  /\ r.magic /\ r.stamp # Blank
                /\ r.stamp.topic = c.want.topic
                /\ c.mode # "open" => r.stamp.cfg = c.want.cfg

\* Processes that join a name meet: the regions of one name that live nodes
\* have are no more than its unlinks allow; the registry, which nobody
\* unlinks, is one.  Exclusive creation is what keeps concurrent creators, and
\* the clean-up of one that failed, from splitting a topic (try_create).
Mapped(n) == {node[p].region[n] : p \in {q \in Nodes : alive[q]}} \ {0}

JoinersMeet == \A n \in Names : Cardinality(Mapped(n)) <= 1 + unlinks[n]

\* A schema readers may copy is whole and final: descriptor and blob come from
\* one claimant, and nobody is writing either.  A claimant may have died half
\* way and its claim been reset (try_claim_schema, reset_schema_claim).
SchemaIsWhole ==
    \A o \in 1..Len(objs) :
        objs[o].magic /\ objs[o].schema.state = "Set" =>
            /\ objs[o].schema.blob = objs[o].schema.data
            /\ objs[o].schema.blob # Blank
            /\ \A p \in Procs : alive[p] /\ att[p].pc \in ClaimSteps => att[p].obj # o

\* At most one live process writes a row: claimants, owners that leave and
\* sweepers exclude each other, although rows change hands without a lock.
Writing == {"open", "identity", "fields", "active", "publish", "reclaim", "clear", "settle", "free"}

WritersAreAlone ==
    \A p, q \in Procs :
        alive[p] /\ alive[q] /\ p # q /\ reg[p].pc \in Writing /\ reg[q].pc \in Writing
        => reg[p].row # reg[q].row

\* A snapshot never pairs the identity of one participant with the
\* description of another (Registry::snapshot's seqlock).  It may list a row
\* whose identity was cleared.
SnapshotIsCoherent ==
    \A p \in Observers : \A v \in reg[p].listed : v.who \in {v.what.by, NoProc}

\* The registry and a live node agree: the row a node recorded is its own,
\* settled and shows the role recorded; and a live node is shown by no row but
\* those it recorded or is working on.  Sweeps, other registrations and a role
\* upgrade that finds the table full all pass between (touch_registry).
SlotIsMine ==
    \A p \in Nodes : alive[p] =>
        /\ \A n \in TopicNames :
               LET s == node[p].slot[n]
               IN  s # NoSlot /\ (node[p].pc \in {"upgrade", "both", "fallback"} => Topic(p) # n)
                   => /\ rows[s.row].state = "Active" /\ ~Odd(rows[s.row].gen)
                      /\ rows[s.row].who = p
                      /\ rows[s.row].what = [by |-> p, role |-> s.role]
        /\ \A i \in Rows :
               rows[i].state = "Active" /\ rows[i].who = p =>
                   \/ reg[p].row = i
                   \/ \E n \in TopicNames : node[p].slot[n].row = i
=============================================================================
