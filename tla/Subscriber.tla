----------------------------- MODULE Subscriber -----------------------------
(***************************************************************************)
(* kickmsg::Subscriber: claim a Free ring, consume it under a pin, and     *)
(* tear the ring down again.  A subscriber is one thread; the sample views *)
(* it handed out outlive it.                                               *)
(***************************************************************************)
EXTENDS ChannelState

SubPCs == {"out", "join", "cas", "own", "seek", "ready", "seq", "meta", "pin", "check",
           "unpin", "quiesce", "clear", "window", "drain", "unclaim", "unref", "retire"}

View == [slot : Slots, ring : Rings, pos : Nat]

SubType == [pc : SubPCs, joins : Nat, ring : Rings, start : Nat, read : Nat, lost : Nat,
            slot : Slots \cup {NoSlot}, quiet : BOOLEAN, pos : Nat, wp : Nat, claim : MetaWord]

SubOut(n) == [pc |-> "out", joins |-> n, ring |-> 1, start |-> 0, read |-> 0, lost |-> 0,
              slot |-> NoSlot, quiet |-> FALSE, pos |-> 0, wp |-> 0, claim |-> MetaZero]

\* The subscriber is alive, at this point of its program, and not inside a
\* treiber_push.
SubAt(u, pc) == u \in alive /\ sub[u].pc = pc /\ pushing[u] = {}

GotoSub(u, pc) == sub' = [sub EXCEPT ![u].pc = pc]

HeadSeq(u) == At(seq, sub[u].ring, sub[u].read)

-----------------------------------------------------------------------------
(***************************************************************************)
(* The constructor: try every ring in turn.                                *)
(***************************************************************************)
\* Read the drain floor before the ring can become Live.
Floor(u) == sub' = [sub EXCEPT ![u].pc = "cas", ![u].start = writePos[sub[u].ring]]

Join(u) ==
    /\ SubAt(u, "out") /\ sub[u].joins < MaxJoins
    /\ Floor(u)
    /\ UNCHANGED <<ringVars, entryVars, slotVars, pub, views, pushing, gc, alive, ghostVars>>

JoinFloor(u) ==
    /\ SubAt(u, "join")
    /\ Floor(u)
    /\ UNCHANGED <<ringVars, entryVars, slotVars, pub, views, pushing, gc, alive, ghostVars>>

\* Claim a ring that is exactly Free with in_flight = 0.
JoinClaim(u) ==
    LET r == sub[u].ring
    IN  /\ SubAt(u, "cas") /\ state[r] = "Free" /\ flight[r] = 0
        /\ state' = [state EXCEPT ![r] = "Live"]
        /\ since' = [since EXCEPT ![u] = writePos[r]]
        /\ GotoSub(u, "own")
        /\ UNCHANGED <<flight, owner, writePos, entryVars, slotVars, pub, views, pushing, gc, alive,
                       sent, stranded, settled, unadmitted>>

LastRing(r) == r = MaxSubs

\* Taken: try the next ring, or throw "No free subscriber slots".
JoinNext(u) ==
    LET r == sub[u].ring
    IN  /\ SubAt(u, "cas") /\ ~(state[r] = "Free" /\ flight[r] = 0)
        /\ sub' = [sub EXCEPT ![u] = IF LastRing(r)
                                     THEN SubOut(@.joins + 1)
                                     ELSE [@ EXCEPT !.pc = "join", !.ring = r + 1]]
        /\ UNCHANGED <<ringVars, entryVars, slotVars, pub, views, pushing, gc, alive, ghostVars>>

JoinOwn(u) ==
    /\ SubAt(u, "own")
    /\ owner' = [owner EXCEPT ![sub[u].ring] = u]
    /\ GotoSub(u, "seek")
    /\ UNCHANGED <<state, flight, writePos, entryVars, slotVars, pub, views, pushing, gc, alive, ghostVars>>

\* Mutant of SeekTo: trust the floor read before the claim.
SeekFloor(start, wp) == start

\* Consume from the latest position: the floor may be an earlier tenant's.
SeekTo(start, wp) == IF wp > start THEN wp ELSE start

JoinSeek(u) ==
    LET wp == writePos[sub[u].ring]
    IN  /\ SubAt(u, "seek")
        /\ sub' = [sub EXCEPT ![u].pc = "ready", ![u].read = SeekTo(sub[u].start, wp)]
        /\ UNCHANGED <<ringVars, entryVars, slotVars, pub, views, pushing, gc, alive, ghostVars>>

-----------------------------------------------------------------------------
(***************************************************************************)
(* try_receive_view(): one iteration of its loop.  An iteration that does  *)
(* not deliver goes back to "ready", as `continue` and the next call do.   *)
(***************************************************************************)
\* Something is claimed past read_pos_; jump over what the ring overwrote.
Poll(u) ==
    LET wp == writePos[sub[u].ring]
        behind == wp - sub[u].read
    IN  /\ SubAt(u, "ready") /\ Cardinality(views[u]) < MaxViews
        /\ behind > 0
        /\ sub' = [sub EXCEPT ![u].pc = "seq",
                              ![u].read = IF behind > Capacity THEN wp - Capacity ELSE @,
                              ![u].lost = IF behind > Capacity THEN @ + behind - Capacity ELSE @]
        /\ UNCHANGED <<ringVars, entryVars, slotVars, pub, views, pushing, gc, alive, ghostVars>>

\* ++lost_; ++read_pos_; continue
Lose(u) == sub' = [sub EXCEPT ![u].pc = "ready", ![u].read = @ + 1, ![u].lost = @ + 1,
                              ![u].slot = NoSlot]

LookSeq(u) ==
    LET w == HeadSeq(u)
    IN  /\ SubAt(u, "seq")
        /\ CASE w = SeqCommit(sub[u].read) -> GotoSub(u, "meta")
             [] IsLocked(w) \/ w.val < sub[u].read + 1 -> GotoSub(u, "ready")
             [] OTHER -> Lose(u)
        /\ UNCHANGED <<ringVars, entryVars, slotVars, pub, views, pushing, gc, alive, ghostVars>>

LookMeta(u) ==
    LET m == At(meta, sub[u].ring, sub[u].read)
    IN  /\ SubAt(u, "meta")
        /\ IF m.tag = sub[u].read + 1 /\ m.slot # NoSlot
           THEN sub' = [sub EXCEPT ![u].pc = "pin", ![u].slot = m.slot]
           ELSE Lose(u)
        /\ UNCHANGED <<ringVars, entryVars, slotVars, pub, views, pushing, gc, alive, ghostVars>>

\* Mutant of Pinnable: pin without looking at the count.
PinBlind(s) == TRUE

Pinnable(s) == refcount[s] > 0

\* CAS refcount up from any positive value.
Pin(u) ==
    LET s == sub[u].slot
    IN  /\ SubAt(u, "pin")
        /\ IF Pinnable(s)
           THEN refcount' = [refcount EXCEPT ![s] = @ + 1] /\ GotoSub(u, "check")
           ELSE UNCHANGED refcount /\ Lose(u)
        /\ UNCHANGED <<ringVars, entryVars, free, payload, pub, views, pushing, gc, alive, ghostVars>>

\* Mutant of StillCommitted: no second look at the sequence.
PinIsEnough(u) == TRUE

\* seq2 = seq1: nothing happened to the entry while we pinned.
StillCommitted(u) == HeadSeq(u) = SeqCommit(sub[u].read)

\* The seqlock check after pinning: the view is handed out.
Deliver(u) ==
    /\ SubAt(u, "check") /\ StillCommitted(u)
    /\ views' = [views EXCEPT ![u] = @ \cup {[slot |-> sub[u].slot, ring |-> sub[u].ring,
                                              pos |-> sub[u].read]}]
    /\ sub' = [sub EXCEPT ![u].pc = "ready", ![u].read = @ + 1, ![u].slot = NoSlot]
    /\ UNCHANGED <<ringVars, entryVars, slotVars, pub, pushing, gc, alive, ghostVars>>

Overtaken(u) ==
    /\ SubAt(u, "check") /\ ~StillCommitted(u)
    /\ GotoSub(u, "unpin")
    /\ UNCHANGED <<ringVars, entryVars, slotVars, pub, views, pushing, gc, alive, ghostVars>>

\* The subscriber's fetch_sub; the last reference must be pushed next.
SubDrop(u, s) ==
    /\ Drop(s, 1)
    /\ pushing' = [pushing EXCEPT ![u] = IF refcount[s] = 1 THEN {s} ELSE {}]

Unpin(u) ==
    /\ SubAt(u, "unpin")
    /\ SubDrop(u, sub[u].slot)
    /\ Lose(u)
    /\ UNCHANGED <<ringVars, entryVars, free, payload, pub, views, gc, alive, ghostVars>>

\* ~SampleView(), also after the subscriber that handed it out is gone.
DropView(u, v) ==
    /\ SubAt(u, "ready") \/ SubAt(u, "out")
    /\ views' = [views EXCEPT ![u] = @ \ {v}]
    /\ SubDrop(u, v.slot)
    /\ UNCHANGED <<ringVars, entryVars, free, payload, pub, sub, gc, alive, ghostVars>>

PushSlot(u) ==
    /\ u \in alive /\ pushing[u] # {}
    /\ free' = free \cup pushing[u]
    /\ pushing' = [pushing EXCEPT ![u] = {}]
    /\ UNCHANGED <<ringVars, entryVars, refcount, payload, pub, sub, views, gc, alive, ghostVars>>

-----------------------------------------------------------------------------
(***************************************************************************)
(* release_ring(), the destructor.                                         *)
(***************************************************************************)
Leave(u) ==
    /\ SubAt(u, "ready")
    /\ state' = [state EXCEPT ![sub[u].ring] = "Draining"]
    /\ GotoSub(u, "quiesce")
    /\ UNCHANGED <<flight, owner, writePos, entryVars, slotVars, pub, views, pushing, gc, alive, ghostVars>>

\* Mutant of Quiet: a publisher between its admission and its leave is missed.
QuietEnough(r) == flight[r] <= 1

Quiet(r) == flight[r] = 0

Quiesced(u) ==
    /\ SubAt(u, "quiesce") /\ Quiet(sub[u].ring)
    /\ sub' = [sub EXCEPT ![u].pc = "clear", ![u].quiet = TRUE]
    /\ UNCHANGED <<ringVars, entryVars, slotVars, pub, views, pushing, gc, alive, ghostVars>>

QuiesceTimeout(u) ==
    /\ SubAt(u, "quiesce") /\ ~Quiet(sub[u].ring)
    /\ sub' = [sub EXCEPT ![u].pc = "clear", ![u].quiet = FALSE]
    /\ UNCHANGED <<ringVars, entryVars, slotVars, pub, views, pushing, gc, alive, ghostVars>>

ClearOwner(u) ==
    /\ SubAt(u, "clear")
    /\ owner' = [owner EXCEPT ![sub[u].ring] = NoOwner]
    /\ GotoSub(u, IF sub[u].quiet THEN "window" ELSE "retire")
    /\ UNCHANGED <<state, flight, writePos, entryVars, slotVars, pub, views, pushing, gc, alive, ghostVars>>

\* Mutant of DrainFloor: start at what was not consumed yet.
DrainUnread(u, wp) == sub[u].read

\* Mutant of DrainFloor: no clamp for a ring that has not wrapped yet.
DrainUnclamped(u, wp) == wp - Capacity

\* The oldest position of this tenancy that is still in the ring.
DrainFloor(u, wp) ==
    LET oldest == IF wp > Capacity THEN wp - Capacity ELSE 0
    IN  IF oldest < sub[u].start THEN sub[u].start ELSE oldest

\* drain_unconsumed(): the window to drain, from the final write_pos.
DrainWindow(u) ==
    LET wp == writePos[sub[u].ring]
    IN  /\ SubAt(u, "window")
        /\ sub' = [sub EXCEPT ![u].pc = "drain", ![u].wp = wp, ![u].pos = DrainFloor(u, wp)]
        /\ UNCHANGED <<ringVars, entryVars, slotVars, pub, views, pushing, gc, alive, ghostVars>>

DrainLook(u) ==
    LET m == At(meta, sub[u].ring, sub[u].pos)
    IN  /\ SubAt(u, "drain") /\ sub[u].pos < sub[u].wp
        /\ sub' = IF m.slot = NoSlot
                  THEN [sub EXCEPT ![u].pos = @ + 1]
                  ELSE [sub EXCEPT ![u].pc = "unclaim", ![u].claim = m]
        /\ UNCHANGED <<ringVars, entryVars, slotVars, pub, views, pushing, gc, alive, ghostVars>>

\* Clear the claim first, so that its reference is released once.
DrainClear(u) ==
    LET m == sub[u].claim
        next == [sub[u] EXCEPT !.claim = MetaZero]
    IN  /\ SubAt(u, "unclaim")
        /\ IF At(meta, sub[u].ring, sub[u].pos) = m
           THEN /\ meta' = Put(meta, sub[u].ring, sub[u].pos, MetaCleared(m))
                /\ sub' = [sub EXCEPT ![u] = [next EXCEPT !.pc = "unref", !.slot = m.slot]]
           ELSE /\ UNCHANGED meta
                /\ sub' = [sub EXCEPT ![u] = [next EXCEPT !.pc = "drain", !.pos = @ + 1]]
        /\ UNCHANGED <<ringVars, seq, slotVars, pub, views, pushing, gc, alive, ghostVars>>

DrainDrop(u) ==
    /\ SubAt(u, "unref")
    /\ SubDrop(u, sub[u].slot)
    /\ sub' = [sub EXCEPT ![u].pc = "drain", ![u].pos = @ + 1, ![u].slot = NoSlot]
    /\ UNCHANGED <<ringVars, entryVars, free, payload, pub, views, gc, alive, ghostVars>>

\* The hand-over: store Free with in_flight = 0.
FreeRing(u) ==
    /\ SubAt(u, "drain") /\ sub[u].pos >= sub[u].wp
    /\ state' = [state EXCEPT ![sub[u].ring] = "Free"]
    /\ flight' = [flight EXCEPT ![sub[u].ring] = 0]
    /\ sub' = [sub EXCEPT ![u] = SubOut(@.joins + 1)]
    /\ UNCHANGED <<owner, writePos, entryVars, slotVars, pub, views, pushing, gc, alive, ghostVars>>

\* Mutant of RetireRing: store Free with in_flight = 0, as after a drain.
RetireZeroed(u) ==
    /\ SubAt(u, "retire")
    /\ state' = [state EXCEPT ![sub[u].ring] = "Free"]
    /\ flight' = [flight EXCEPT ![sub[u].ring] = 0]
    /\ stranded' = stranded \cup {sub[u].ring}
    /\ sub' = [sub EXCEPT ![u] = SubOut(@.joins + 1)]
    /\ UNCHANGED <<owner, writePos, entryVars, slotVars, pub, views, pushing, gc, alive,
                   sent, since, settled, unadmitted>>

\* The drain timed out: only the state bits change, nothing is drained.
RetireRing(u) ==
    /\ SubAt(u, "retire")
    /\ state' = [state EXCEPT ![sub[u].ring] = "Free"]
    /\ stranded' = stranded \cup {sub[u].ring}
    /\ sub' = [sub EXCEPT ![u] = SubOut(@.joins + 1)]
    /\ UNCHANGED <<flight, owner, writePos, entryVars, slotVars, pub, views, pushing, gc, alive,
                   sent, since, settled, unadmitted>>

SubStep(u) ==
    \/ JoinFloor(u) \/ JoinClaim(u) \/ JoinNext(u) \/ JoinOwn(u) \/ JoinSeek(u)
    \/ Poll(u) \/ LookSeq(u) \/ LookMeta(u) \/ Pin(u) \/ Deliver(u) \/ Overtaken(u)
    \/ Unpin(u) \/ PushSlot(u)
    \/ Quiesced(u) \/ QuiesceTimeout(u) \/ ClearOwner(u)
    \/ DrainWindow(u) \/ DrainLook(u) \/ DrainClear(u) \/ DrainDrop(u)
    \/ FreeRing(u) \/ RetireRing(u)

SubNext(u) ==
    \/ SubStep(u) \/ Join(u) \/ Leave(u)
    \/ \E v \in views[u] : DropView(u, v)
=============================================================================
