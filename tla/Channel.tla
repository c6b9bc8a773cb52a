------------------------------- MODULE Channel -------------------------------
(***************************************************************************)
(* A kickmsg channel: publishers, subscribers and recovery on one shared   *)
(* region, and the properties that make the channel correct.               *)
(***************************************************************************)
EXTENDS Publisher, Subscriber, Recovery

\* SharedRegion::create stamps zeroed rings and pushes every slot on the stack.
Init ==
    /\ state = [r \in Rings |-> "Free"]
    /\ flight = [r \in Rings |-> 0]
    /\ owner = [r \in Rings |-> NoOwner]
    /\ writePos = [r \in Rings |-> 0]
    /\ seq = [r \in Rings |-> [i \in Index |-> SeqZero]]
    /\ meta = [r \in Rings |-> [i \in Index |-> MetaZero]]
    /\ refcount = [s \in Slots |-> 0]
    /\ free = Slots
    /\ payload = [s \in Slots |-> NoMsg]
    /\ pub = [p \in Pubs |-> PubIdle(0)]
    /\ sub = [u \in Subs |-> SubOut(0)]
    /\ views = [u \in Subs |-> {}]
    /\ pushing = [u \in Subs |-> {}]
    /\ gc = GcIdle(0)
    /\ alive = Pubs \cup Subs
    /\ sent = [r \in Rings |-> <<>>]
    /\ since = [u \in Subs |-> 0]
    /\ stranded = {}
    /\ settled = {}
    /\ unadmitted = {}

Next ==
    \/ \E p \in Pubs : PubNext(p) \/ CrashPub(p)
    \/ \E u \in Subs : SubNext(u) \/ CrashSub(u)
    \/ RepairStart \/ GcStep \/ CrashRepairer
    \/ \E r \in Rings : ResetRetiredRing(r) \/ ReclaimDeadRing(r)
    \/ ReclaimOrphanedSlots

Spec == Init /\ [][Next]_vars

\* A process that has not crashed keeps running; it is free not to start the
\* next send, subscription or repair.
Fairness ==
    /\ \A p \in Pubs : WF_vars(PubStep(p))
    /\ \A u \in Subs : WF_vars(SubStep(u))
    /\ WF_vars(GcStep)

FairSpec == Spec /\ Fairness

-----------------------------------------------------------------------------
\* Every variable holds a value of its type.
TypeOK ==
    /\ state \in [Rings -> RingStates]
    /\ flight \in [Rings -> Int]
    /\ owner \in [Rings -> Subs \cup {NoOwner}]
    /\ writePos \in [Rings -> Nat]
    /\ seq \in [Rings -> [Index -> SeqWord]]
    /\ meta \in [Rings -> [Index -> MetaWord]]
    /\ refcount \in [Slots -> Int]
    /\ free \in SUBSET Slots
    /\ payload \in [Slots -> Msg \cup {NoMsg}]
    /\ pub \in [Pubs -> PubType]
    /\ sub \in [Subs -> SubType]
    /\ views \in [Subs -> SUBSET View]
    /\ pushing \in [Subs -> SUBSET Slots]
    /\ gc \in GcType
    /\ alive \in SUBSET (Pubs \cup Subs)
    /\ sent \in [Rings -> Seq(Msg)]
    /\ since \in [Subs -> Nat]
    /\ stranded \in SUBSET Rings
    /\ settled \in SUBSET (Pubs \cup Subs)
    /\ unadmitted \in SUBSET Pubs

-----------------------------------------------------------------------------
(***************************************************************************)
(* Who holds a reference on a slot.  A crashed process keeps its share     *)
(* until reclaim_orphaned_slots settles it.                                *)
(***************************************************************************)
Offering == {"ring", "claim", "first", "wait", "lock", "heal", "steal", "skip", "check",
             "take", "release", "push", "commit", "leave", "finish"}

\* The current ring's reference is still with the publisher, not yet in excess.
Undecided == {"ring", "claim", "first", "wait", "lock", "check", "take"}

\* The references publisher p still owes to its own slot: those set aside, those
\* of rings it has not reached, and that of the current ring.
Owed(p) ==
    IF pub[p].pc \notin Offering THEN 0
    ELSE pub[p].excess + (IF pub[p].pc = "finish" THEN 0 ELSE MaxSubs - pub[p].ring)
                       + (IF pub[p].pc \in Undecided THEN 1 ELSE 0)

PubHolds(s) ==
    {x \in (Pubs \ settled) \X (1..MaxSubs) : pub[x[1]].slot = s /\ x[2] <= Owed(x[1])}
EvictHolds(s) == {p \in Pubs \ settled : pub[p].pc = "release" /\ pub[p].prev = s}
SubHolds(s) ==
    {u \in Subs \ settled : sub[u].pc \in {"check", "unpin", "unref"} /\ sub[u].slot = s}
ViewHolds(s) == {x \in UNION {{u} \X views[u] : u \in Subs \ settled} : x[2].slot = s}

\* A slot with no reference that one process has in hand: reserved, or brought
\* to zero and not yet pushed.
Carriers(s) ==
    {p \in Pubs \ settled : \/ pub[p].pc \in {"reserved", "recycle"} /\ pub[p].slot = s
                            \/ pub[p].pc = "push" /\ pub[p].prev = s}
    \cup {u \in Subs \ settled : s \in pushing[u]}

\* A slot's refcount is the number of ring entries that claim it, plus the pins
\* on it, plus the references publishers and drainers are about to pass on or
\* drop: no path takes one reference twice or forgets one (preset, excess,
\* take-over, drain, steal, crash and GC included).
RefcountExact ==
    \A s \in Slots :
        refcount[s] = Cardinality(Claims(s)) + Cardinality(PubHolds(s)) + Cardinality(EvictHolds(s))
                      + Cardinality(SubHolds(s)) + Cardinality(ViewHolds(s))

\* Every slot is on the free stack, or referenced, or in the hands of exactly
\* one process: never freed twice, never handed out while referenced, never lost.
SlotHasOneHome ==
    \A s \in Slots :
        (IF s \in free THEN 1 ELSE 0) + (IF refcount[s] > 0 THEN 1 ELSE 0)
            + Cardinality(Carriers(s)) = 1

\* The bytes a subscriber reads through a sample view are those of the message
\* published at that position of that ring, for as long as it holds the view.
ViewShowsItsMessage ==
    \A u \in Subs \ settled : \A v \in views[u] : payload[v.slot] = sent[v.ring][v.pos + 1]

\* The claim of a ring entry names the slot with the message of the position it
\* was made for, until it is replaced or drained: whoever still finds the claim,
\* a late reader, an evicting publisher or the drain, never finds another's bytes.
ClaimShowsItsMessage ==
    \A r \in Rings, i \in Index :
        meta[r][i].slot # NoSlot => payload[meta[r][i].slot] = sent[r][meta[r][i].tag]

\* in_flight counts exactly the publishers between admission and leave, so its
\* decrement never borrows from the state bits.
InFlightExact ==
    \A r \in Rings : flight[r] = Cardinality(Admitted(r) \ unadmitted)

\* While a subscriber drains, no publisher is admitted to its ring: write_pos
\* and every claim are final.
DrainIsAlone ==
    \A u \in Subs : sub[u].pc \in {"window", "drain", "unclaim", "unref"}
                        => Admitted(sub[u].ring) \subseteq unadmitted

\* A drained ring holds no claim, whatever was consumed, skipped or stolen in it:
\* the drain window covers the whole tenancy.
DrainedRingIsEmpty ==
    \A r \in Rings \ stranded : state[r] = "Free" => \A i \in Index : meta[r][i].slot = NoSlot

\* A subscriber never sees anything published before it attached.
NoReplay ==
    \A u \in Subs : sub[u].pc \in {"ready", "seq", "meta", "pin", "check"} => sub[u].read >= since[u]

\* A delayed publisher never takes a committed entry over for an older position:
\* the claim of an entry is as new as its commit, or newer.
NewerEntryKept ==
    \A r \in Rings, i \in Index :
        seq[r][i].tag = "commit" => meta[r][i].tag >= seq[r][i].val

\* No step changes the bytes under a sample view that somebody holds: its slot is
\* not handed out again before the view is dropped, or settled after a crash.
ViewIsStable ==
    [][\A u \in Subs \ settled : \A v \in views[u] \cap views'[u] :
          payload'[v.slot] = payload[v.slot]]_vars

\* No publisher takes a committed entry over: an entry whose lock is stolen between
\* its last look and its CAS on the claim is not committed again for an older
\* position.  Two publishers cannot do that to each other, since whatever the
\* thief commits after the theft is newer; three can, and then a view may show
\* another message (MCTheft).
NoLateTakeOver ==
    \A p \in Pubs \cap alive :
        pub[p].pc = "take" /\ PubMeta(p).tag <= pub[p].pos => PubSeq(p).tag # "commit"

-----------------------------------------------------------------------------
\* A publisher that does not crash always finishes its publish(), whatever locks
\* dead or slow peers left in its way.
PublishTerminates ==
    \A p \in Pubs : pub[p].pc \notin {"idle", "reserved"} ~> (pub[p].pc = "idle" \/ p \notin alive)
=============================================================================
