------------------------------ MODULE Publisher ------------------------------
(***************************************************************************)
(* kickmsg::Publisher: reserve a slot, write it and offer it to every Live *)
(* ring.  One action per access to shared memory; the locals of publish()  *)
(* are the fields of pub[p].                                               *)
(***************************************************************************)
EXTENDS ChannelState

PubPCs == {"idle", "reserved", "ring", "claim", "first", "wait", "lock", "heal",
           "steal", "skip", "check", "take", "release", "push", "commit",
           "leave", "finish", "recycle"}

PubType == [pc : PubPCs, num : Nat, slot : Slots \cup {NoSlot}, ring : Rings,
            excess : Nat, pos : Nat, first : SeqWord, obs : SeqWord,
            last : SeqWord, stable : BOOLEAN, prev : Slots \cup {NoSlot}]

PubIdle(n) == [pc |-> "idle", num |-> n, slot |-> NoSlot, ring |-> 1, excess |-> 0,
               pos |-> 0, first |-> SeqZero, obs |-> SeqZero, last |-> SeqZero,
               stable |-> FALSE, prev |-> NoSlot]

\* The publisher is alive and at this point of its program.
PubAt(p, pc) == p \in alive /\ pub[p].pc = pc

PubSeq(p)  == At(seq, pub[p].ring, pub[p].pos)
PubMeta(p) == At(meta, pub[p].ring, pub[p].pos)

Goto(p, pc) == pub' = [pub EXCEPT ![p].pc = pc]

\* The next iteration of the ring loop, or what follows it.
NextRing(rec) ==
    LET next == [PubIdle(rec.num) EXCEPT !.slot = rec.slot, !.excess = rec.excess]
    IN  IF rec.ring < MaxSubs THEN [next EXCEPT !.pc = "ring", !.ring = rec.ring + 1]
        ELSE IF rec.excess > 0 THEN [next EXCEPT !.pc = "finish"]
        ELSE PubIdle(rec.num + 1)

\* Mutant of Keep: the abandoned reference is forgotten.
KeepForgets(p, pc) == Goto(p, pc)

\* ++excess: the reference meant for this ring stays with the publisher.
Keep(p, pc) == pub' = [pub EXCEPT ![p].pc = pc, ![p].excess = @ + 1]

-----------------------------------------------------------------------------
(***************************************************************************)
(* allocate() pops a slot; the caller fills it through AllocatedSlot.      *)
(***************************************************************************)
Allocate(p) ==
    /\ PubAt(p, "idle") /\ pub[p].num < MaxMsgs
    /\ \E s \in free :
          /\ free' = free \ {s}
          /\ payload' = [payload EXCEPT ![s] = [from |-> p, num |-> pub[p].num]]
          /\ pub' = [pub EXCEPT ![p].pc = "reserved", ![p].slot = s]
    /\ UNCHANGED <<ringVars, entryVars, refcount, subVars, gc, alive, ghostVars>>

\* The pool is empty: send() returns -EAGAIN.
AllocateFails(p) ==
    /\ PubAt(p, "idle") /\ pub[p].num < MaxMsgs
    /\ free = {}
    /\ pub' = [pub EXCEPT ![p].num = @ + 1]
    /\ UNCHANGED <<ringVars, entryVars, slotVars, subVars, gc, alive, ghostVars>>

\* A reservation given up: the handle dies, a later allocate() supersedes it,
\* or publish() is called with an oversized length.
ReleasePending(p) ==
    /\ PubAt(p, "reserved")
    /\ free' = free \cup {pub[p].slot}
    /\ pub' = [pub EXCEPT ![p] = PubIdle(pub[p].num + 1)]
    /\ UNCHANGED <<ringVars, entryVars, refcount, payload, subVars, gc, alive, ghostVars>>

\* Mutant of Preset: a reference for the first ring only.
PresetOne(p) ==
    /\ PubAt(p, "reserved")
    /\ refcount' = [refcount EXCEPT ![pub[p].slot] = 1]
    /\ Goto(p, "ring")
    /\ UNCHANGED <<ringVars, entryVars, free, payload, subVars, gc, alive, ghostVars>>

\* publish(): one reference per ring, set before any ring can see the slot.
Preset(p) ==
    /\ PubAt(p, "reserved")
    /\ refcount' = [refcount EXCEPT ![pub[p].slot] = MaxSubs]
    /\ Goto(p, "ring")
    /\ UNCHANGED <<ringVars, entryVars, free, payload, subVars, gc, alive, ghostVars>>

-----------------------------------------------------------------------------
\* The admission CAS: state is Live and in_flight goes up, in one step.
Admit(p) ==
    /\ PubAt(p, "ring") /\ state[pub[p].ring] = "Live"
    /\ flight' = [flight EXCEPT ![pub[p].ring] = @ + 1]
    /\ Goto(p, "claim")
    /\ UNCHANGED <<state, owner, writePos, entryVars, slotVars, subVars, gc, alive, ghostVars>>

PassRing(p) ==
    /\ PubAt(p, "ring") /\ state[pub[p].ring] # "Live"
    /\ pub' = [pub EXCEPT ![p] = NextRing([pub[p] EXCEPT !.excess = @ + 1])]
    /\ UNCHANGED <<ringVars, entryVars, slotVars, subVars, gc, alive, ghostVars>>

ClaimPos(p) ==
    LET r == pub[p].ring
        pos == writePos[r]
    IN  /\ PubAt(p, "claim")
        /\ writePos' = [writePos EXCEPT ![r] = pos + 1]
        /\ sent' = [sent EXCEPT ![r] = Append(@, [from |-> p, num |-> pub[p].num])]
        /\ pub' = [pub EXCEPT ![p].pos = pos,
                              ![p].pc = IF pos >= Capacity THEN "first" ELSE "lock"]
        /\ UNCHANGED <<state, flight, owner, entryVars, slotVars, subVars, gc, alive,
                       since, stranded, settled, unadmitted>>

-----------------------------------------------------------------------------
\* What the entry must hold when the previous wrap is done with it.
PrevSeq(pos) == IF pos >= Capacity THEN pos - Capacity + 1 ELSE 0

WaitedFor(w, pos) == ~IsLocked(w) /\ w.val >= PrevSeq(pos)

WaitEnds(p, w, stable) ==
    pub' = [pub EXCEPT ![p].pc = "lock", ![p].first = SeqZero, ![p].obs = w,
                       ![p].last = w, ![p].stable = stable]

\* wait_for_commit(): the first look at the entry.
WaitFirst(p) ==
    /\ PubAt(p, "first")
    /\ IF WaitedFor(PubSeq(p), pub[p].pos)
       THEN WaitEnds(p, PubSeq(p), FALSE)
       ELSE pub' = [pub EXCEPT ![p].pc = "wait", ![p].first = PubSeq(p)]
    /\ UNCHANGED <<ringVars, entryVars, slotVars, subVars, gc, alive, ghostVars>>

WaitDone(p) ==
    /\ PubAt(p, "wait") /\ WaitedFor(PubSeq(p), pub[p].pos)
    /\ WaitEnds(p, PubSeq(p), FALSE)
    /\ UNCHANGED <<ringVars, entryVars, slotVars, subVars, gc, alive, ghostVars>>

\* Mutant of WaitTimeout: a locked entry is waited for without limit.
WaitForever(p) ==
    /\ PubAt(p, "wait") /\ ~WaitedFor(PubSeq(p), pub[p].pos) /\ ~IsLocked(PubSeq(p))
    /\ WaitEnds(p, PubSeq(p), FALSE)
    /\ UNCHANGED <<ringVars, entryVars, slotVars, subVars, gc, alive, ghostVars>>

\* commit_timeout expires.  One lock value at both ends of the wait proves that
\* its single holder exceeded the commit budget.
WaitTimeout(p) ==
    /\ PubAt(p, "wait") /\ ~WaitedFor(PubSeq(p), pub[p].pos)
    /\ SlowRepair \/ ~StealUnderWay(pub[p].ring, pub[p].pos)
    /\ WaitEnds(p, PubSeq(p), IsLocked(pub[p].first) /\ PubSeq(p) = pub[p].first)
    /\ UNCHANGED <<ringVars, entryVars, slotVars, subVars, gc, alive, ghostVars>>

-----------------------------------------------------------------------------
Lockable(w, pos) == ~IsLocked(w) /\ w.val = PrevSeq(pos)

\* One attempt of the two-phase commit's lock CAS, from the observed value.
LockEntry(p) ==
    /\ PubAt(p, "lock") /\ Lockable(pub[p].obs, pub[p].pos)
    /\ IF PubSeq(p) = pub[p].obs
       THEN seq' = Put(seq, pub[p].ring, pub[p].pos, SeqLock(pub[p].pos)) /\ Goto(p, "check")
       ELSE UNCHANGED seq /\ pub' = [pub EXCEPT ![p].obs = PubSeq(p)]
    /\ UNCHANGED <<ringVars, meta, slotVars, subVars, gc, alive, ghostVars>>

\* A lock was observed: look again.
LockRetry(p) ==
    /\ PubAt(p, "lock") /\ IsLocked(pub[p].obs) /\ PubSeq(p) # pub[p].obs
    /\ pub' = [pub EXCEPT ![p].obs = PubSeq(p)]
    /\ UNCHANGED <<ringVars, entryVars, slotVars, subVars, gc, alive, ghostVars>>

\* Committed elsewhere, or still locked after the last of the 64 attempts.
LockGiveUp(p) ==
    /\ PubAt(p, "lock") /\ ~Lockable(pub[p].obs, pub[p].pos)
    /\ Keep(p, "heal")
    /\ UNCHANGED <<ringVars, entryVars, slotVars, subVars, gc, alive, ghostVars>>

\* self_repair(): is the entry provably stale?
Stealable(p, w) ==
    IF IsLocked(w) THEN pub[p].stable /\ w = pub[p].last
                   ELSE w.val + Capacity < pub[p].pos + 1

HealLook(p) ==
    /\ PubAt(p, "heal")
    /\ pub' = [pub EXCEPT ![p].obs = PubSeq(p),
                          ![p].pc = IF Stealable(p, PubSeq(p)) THEN "steal" ELSE "leave"]
    /\ UNCHANGED <<ringVars, entryVars, slotVars, subVars, gc, alive, ghostVars>>

\* entry_steal_and_skip(): take the sequence from the observed value ...
HealSteal(p) ==
    /\ PubAt(p, "steal")
    /\ IF PubSeq(p) = pub[p].obs
       THEN seq' = Put(seq, pub[p].ring, pub[p].pos, SeqRepair(pub[p].pos)) /\ Goto(p, "skip")
       ELSE UNCHANGED seq /\ Goto(p, "leave")
    /\ UNCHANGED <<ringVars, meta, slotVars, subVars, gc, alive, ghostVars>>

\* ... and commit it empty, with a plain store.
HealSkip(p) ==
    /\ PubAt(p, "skip")
    /\ seq' = Put(seq, pub[p].ring, pub[p].pos, SeqSkip(pub[p].pos))
    /\ Goto(p, "leave")
    /\ UNCHANGED <<ringVars, meta, slotVars, subVars, gc, alive, ghostVars>>

-----------------------------------------------------------------------------
CheckLock(p) ==
    /\ PubAt(p, "check")
    /\ IF PubSeq(p) = SeqLock(pub[p].pos) THEN Goto(p, "take") ELSE Keep(p, "leave")
    /\ UNCHANGED <<ringVars, entryVars, slotVars, subVars, gc, alive, ghostVars>>

\* Replace an older position's claim; the entry then owns our reference and we
\* own the one it held.
TakeClaim(p) ==
    LET old == PubMeta(p)
    IN  /\ PubAt(p, "take")
        /\ IF MetaPrecedes(old, pub[p].pos)
           THEN /\ meta' = Put(meta, pub[p].ring, pub[p].pos, MetaClaim(pub[p].pos, pub[p].slot))
                /\ pub' = [pub EXCEPT ![p].prev = old.slot,
                                      ![p].pc = IF old.slot = NoSlot THEN "commit" ELSE "release"]
           ELSE UNCHANGED meta /\ Keep(p, "leave")
        /\ UNCHANGED <<ringVars, seq, slotVars, subVars, gc, alive, ghostVars>>

\* Mutant of ReleasePrev: the slot is recycled whoever else refers to it.
ReleaseUnchecked(p) ==
    /\ PubAt(p, "release")
    /\ Drop(pub[p].prev, 1)
    /\ Goto(p, "push")
    /\ UNCHANGED <<ringVars, entryVars, free, payload, subVars, gc, alive, ghostVars>>

\* release_slot(): drop the evicted claim's reference, the last one recycles.
ReleasePrev(p) ==
    LET s == pub[p].prev
    IN  /\ PubAt(p, "release")
        /\ Drop(s, 1)
        /\ pub' = IF refcount[s] = 1
                  THEN [pub EXCEPT ![p].pc = "push"]
                  ELSE [pub EXCEPT ![p].pc = "commit", ![p].prev = NoSlot]
        /\ UNCHANGED <<ringVars, entryVars, free, payload, subVars, gc, alive, ghostVars>>

PushPrev(p) ==
    /\ PubAt(p, "push")
    /\ free' = free \cup {pub[p].prev}
    /\ pub' = [pub EXCEPT ![p].pc = "commit", ![p].prev = NoSlot]
    /\ UNCHANGED <<ringVars, entryVars, refcount, payload, subVars, gc, alive, ghostVars>>

\* The commit CAS.  If the lock was stolen the entry keeps our reference.
Commit(p) ==
    /\ PubAt(p, "commit")
    /\ seq' = IF PubSeq(p) = SeqLock(pub[p].pos)
              THEN Put(seq, pub[p].ring, pub[p].pos, SeqCommit(pub[p].pos))
              ELSE seq
    /\ Goto(p, "leave")
    /\ UNCHANGED <<ringVars, meta, slotVars, subVars, gc, alive, ghostVars>>

\* Release the admission, after a commit or in abandon_delivery().
LeaveRing(p) ==
    /\ PubAt(p, "leave")
    /\ flight' = [flight EXCEPT ![pub[p].ring] = @ - 1]
    /\ pub' = [pub EXCEPT ![p] = NextRing(@)]
    /\ UNCHANGED <<state, owner, writePos, entryVars, slotVars, subVars, gc, alive, ghostVars>>

\* Mutant of Finish: recycle only when a single reference was left.
FinishOne(p) ==
    LET s == pub[p].slot
    IN  /\ PubAt(p, "finish")
        /\ Drop(s, pub[p].excess)
        /\ IF refcount[s] = 1
           THEN Goto(p, "recycle")
           ELSE pub' = [pub EXCEPT ![p] = PubIdle(pub[p].num + 1)]
        /\ UNCHANGED <<ringVars, entryVars, free, payload, subVars, gc, alive, ghostVars>>

\* Drop the references no entry took; the last one recycles the slot.
Finish(p) ==
    LET s == pub[p].slot
        n == pub[p].excess
    IN  /\ PubAt(p, "finish")
        /\ Drop(s, n)
        /\ IF refcount[s] = n
           THEN Goto(p, "recycle")
           ELSE pub' = [pub EXCEPT ![p] = PubIdle(pub[p].num + 1)]
        /\ UNCHANGED <<ringVars, entryVars, free, payload, subVars, gc, alive, ghostVars>>

Recycle(p) ==
    /\ PubAt(p, "recycle")
    /\ free' = free \cup {pub[p].slot}
    /\ pub' = [pub EXCEPT ![p] = PubIdle(pub[p].num + 1)]
    /\ UNCHANGED <<ringVars, entryVars, refcount, payload, subVars, gc, alive, ghostVars>>

PubStep(p) ==
    \/ Preset(p) \/ Admit(p) \/ PassRing(p) \/ ClaimPos(p)
    \/ WaitFirst(p) \/ WaitDone(p) \/ WaitTimeout(p)
    \/ LockEntry(p) \/ LockRetry(p) \/ LockGiveUp(p)
    \/ HealLook(p) \/ HealSteal(p) \/ HealSkip(p)
    \/ CheckLock(p) \/ TakeClaim(p) \/ ReleasePrev(p) \/ PushPrev(p)
    \/ Commit(p) \/ LeaveRing(p) \/ Finish(p) \/ Recycle(p)

PubNext(p) == PubStep(p) \/ Allocate(p) \/ AllocateFails(p) \/ ReleasePending(p)
=============================================================================
