---------------------------- MODULE ChannelState ----------------------------
(***************************************************************************)
(* The shared memory of one kickmsg channel: MaxSubs subscriber rings of   *)
(* Capacity entries each and a pool of payload slots, with the words that  *)
(* publishers, subscribers and the recovery primitives exchange.           *)
(*                                                                         *)
(* Publisher, Subscriber and Recovery extend this module with the actions  *)
(* of their component; Channel composes them.  Every access to a shared    *)
(* word is a step of its own, in program order (sequential consistency).   *)
(***************************************************************************)
EXTENDS Integers, Sequences, FiniteSets

CONSTANTS
    Pubs,          \* publishers, each a process of its own
    Subs,          \* subscribers, each a process of its own
    Slots,         \* the slots of the pool (pool_size of them)
    MaxSubs,       \* number of subscriber rings
    Capacity,      \* entries per ring
    NoSlot,        \* INVALID_SLOT, and the zero slot field of a meta word
    NoOwner,       \* owner_pid = 0
    SlowRepair,    \* may a live repairer stall past commit_timeout mid-steal?
    MaxMsgs,       \* bound: sends per publisher
    MaxJoins,      \* bound: subscriptions per subscriber
    MaxViews,      \* bound: sample views a subscriber holds at once
    MaxRepairs,    \* bound: calls of repair_locked_entries
    MaxCrashes     \* bound: process crashes

ASSUME SizesAssumption ==
    /\ MaxSubs \in Nat \ {0}
    /\ Capacity \in Nat \ {0}
    /\ SlowRepair \in BOOLEAN
    /\ {MaxMsgs, MaxJoins, MaxViews, MaxRepairs, MaxCrashes} \subseteq Nat

ASSUME NamesAssumption ==
    /\ IsFiniteSet(Pubs) /\ IsFiniteSet(Subs) /\ IsFiniteSet(Slots)
    /\ Pubs \cap Subs = {}
    /\ NoSlot \notin Slots
    /\ NoOwner \notin Pubs \cup Subs

Rings == 1..MaxSubs
Index == 0..(Capacity - 1)

(***************************************************************************)
(* Entry::sequence.  `val` is what seq_pos() returns: pos + 1 for a commit *)
(* or a skip marker, pos for the two kinds of lock.                        *)
(***************************************************************************)
SeqTags == {"commit", "skip", "lock", "repair"}
SeqWord == [tag : SeqTags, val : Nat]

SeqZero        == [tag |-> "commit", val |-> 0]
SeqCommit(pos) == [tag |-> "commit", val |-> pos + 1]
SeqSkip(pos)   == [tag |-> "skip", val |-> pos + 1]
SeqLock(pos)   == [tag |-> "lock", val |-> pos]
SeqRepair(pos) == [tag |-> "repair", val |-> pos]

IsLocked(w) == w.tag \in {"lock", "repair"}

(***************************************************************************)
(* Entry::meta: the tag pos + 1 of the claiming position and the slot the  *)
(* entry holds a reference on.  The 40-bit tag is unbounded here.          *)
(***************************************************************************)
MetaWord == [tag : Nat, slot : Slots \cup {NoSlot}]

MetaZero             == [tag |-> 0, slot |-> NoSlot]
MetaClaim(pos, s)    == [tag |-> pos + 1, slot |-> s]
MetaCleared(m)       == [m EXCEPT !.slot = NoSlot]

\* Mutant of MetaPrecedes: take the entry over whatever it holds.
MetaIgnored(m, pos) == TRUE

MetaPrecedes(m, pos) == m.tag < pos + 1

RingStates == {"Free", "Live", "Draining"}

(***************************************************************************)
(* The payload a publisher writes is told apart by its sender and number.  *)
(***************************************************************************)
Msg   == [from : Pubs, num : Nat]
NoMsg == [from |-> NoOwner, num |-> 0]

VARIABLES
    \* SubRingHeader, per ring
    state,      \* state_flight: the state bits
    flight,     \* state_flight: the in_flight count
    owner,      \* owner_pid with owner_starttime
    writePos,   \* write_pos
    \* Entry, per ring and index
    seq,
    meta,
    \* SlotHeader and payload, per slot
    refcount,
    free,       \* the slots on the Treiber stack at Header::free_top
    payload,
    \* process-local state
    pub,        \* per publisher: the locals of Publisher::publish
    sub,        \* per subscriber: the members and locals of Subscriber
    views,      \* per subscriber: the SampleViews it handed out
    pushing,    \* per subscriber: the slot it is about to treiber_push
    gc,         \* the locals of SharedRegion::repair_locked_entries
    alive,      \* the processes that have not crashed
    \* history
    sent,       \* per ring: the message of every claimed position
    since,      \* per subscriber: write_pos when its ring became Live
    stranded,   \* rings that were ever released without a drain
    settled,    \* dead processes whose references the GC has recovered
    unadmitted  \* dead publishers whose admission an operator has reset

ringVars == <<state, flight, owner, writePos>>
entryVars == <<seq, meta>>
slotVars == <<refcount, free, payload>>
subVars == <<sub, views, pushing>>
ghostVars == <<sent, since, stranded, settled, unadmitted>>
vars == <<ringVars, entryVars, slotVars, pub, subVars, gc, alive, ghostVars>>

At(f, r, pos) == f[r][pos % Capacity]
Put(f, r, pos, w) == [f EXCEPT ![r][pos % Capacity] = w]

(***************************************************************************)
(* fetch_sub on a slot's refcount.                                         *)
(***************************************************************************)
Drop(s, n) == refcount' = [refcount EXCEPT ![s] = @ - n]

(***************************************************************************)
(* A live process stands between the steal CAS and the skip store of       *)
(* entry_steal_and_skip on the entry of ring r that pos maps to.  Only the *)
(* timing assumption ~SlowRepair looks at it.                              *)
(***************************************************************************)
StealUnderWay(r, pos) ==
    \/ \E p \in Pubs \cap alive :
          /\ pub[p].pc = "skip" /\ pub[p].ring = r
          /\ pub[p].pos % Capacity = pos % Capacity
    \/ /\ gc.pc \in {"skip", "graceSkip"} /\ gc.ring = r
       /\ gc.pos % Capacity = pos % Capacity
=============================================================================
