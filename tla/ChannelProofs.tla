---------------------------- MODULE ChannelProofs ----------------------------
(***************************************************************************)
(* Proofs about Channel, for any number of publishers, subscribers, slots, *)
(* rings and entries, and without the bounds that TLC needs.               *)
(***************************************************************************)
EXTENDS Channel, FiniteSetTheorems, TLAPS

\* What a process has in hand at each point of its program.
Shape ==
    /\ \A p \in Pubs : /\ pub[p].pc # "idle" => pub[p].slot \in Slots
                       /\ pub[p].pc \in {"release", "push"} => pub[p].prev \in Slots
    /\ \A u \in Subs : /\ sub[u].pc \in {"pin", "check", "unpin", "unref"} => sub[u].slot \in Slots
                       /\ sub[u].pc = "unclaim" => sub[u].claim.slot \in Slots
    /\ gc.pc \in {"grace", "graceSkip"} => gc.locked # <<>>

TypeInv == TypeOK /\ Shape

-----------------------------------------------------------------------------
\* An index computed by masking a position lies inside the ring.
LEMMA IndexInRange ==
    ASSUME NEW pos \in Nat
    PROVE  pos % Capacity \in Index
BY SizesAssumption DEF Index

\* Storing a word in one entry keeps the type of the array.
LEMMA PutType ==
    ASSUME NEW W, NEW f \in [Rings -> [Index -> W]], NEW r \in Rings, NEW pos \in Nat, NEW w \in W
    PROVE  Put(f, r, pos, w) \in [Rings -> [Index -> W]]
BY IndexInRange DEF Put

\* An entry of the array has the array's word type.
LEMMA AtType ==
    ASSUME NEW W, NEW f \in [Rings -> [Index -> W]], NEW r \in Rings, NEW pos \in Nat
    PROVE  At(f, r, pos) \in W
BY IndexInRange DEF At

\* The constructors of sequence and claim words build words of their types.
LEMMA WordTypes ==
    ASSUME NEW pos \in Nat
    PROVE  /\ SeqZero \in SeqWord /\ SeqCommit(pos) \in SeqWord /\ SeqSkip(pos) \in SeqWord
           /\ SeqLock(pos) \in SeqWord /\ SeqRepair(pos) \in SeqWord
           /\ MetaZero \in MetaWord
           /\ \A s \in Slots : MetaClaim(pos, s) \in MetaWord
           /\ \A m \in MetaWord : MetaCleared(m) \in MetaWord
BY DEF SeqZero, SeqCommit, SeqSkip, SeqLock, SeqRepair, SeqWord, SeqTags, MetaZero, MetaClaim,
    MetaCleared, MetaWord

\* The initial locals of publish() are well typed.
LEMMA PubIdleType ==
    ASSUME NEW n \in Nat
    PROVE  PubIdle(n) \in PubType
BY SizesAssumption, WordTypes DEF PubIdle, PubType, PubPCs, Rings

\* Moving on to the next ring keeps the locals of publish() well typed.
LEMMA NextRingType ==
    ASSUME NEW rec \in PubType, rec.slot \in Slots
    PROVE  /\ NextRing(rec) \in PubType
           /\ NextRing(rec).pc \in {"ring", "finish", "idle"}
           /\ NextRing(rec).pc # "idle" => NextRing(rec).slot \in Slots
<1>1. PubIdle(rec.num) \in PubType /\ PubIdle(rec.num + 1) \in PubType
    <2>1. rec.num \in Nat
        BY DEF PubType
    <2> QED
        BY <2>1, PubIdleType
<1> DEFINE next == [PubIdle(rec.num) EXCEPT !.slot = rec.slot, !.excess = rec.excess]
<1>2. next \in PubType /\ next.slot \in Slots
    <2>1. rec.excess \in Nat
        BY DEF PubType
    <2>2. ASSUME NEW idle \in PubType
          PROVE  /\ [idle EXCEPT !.slot = rec.slot, !.excess = rec.excess] \in PubType
                 /\ [idle EXCEPT !.slot = rec.slot, !.excess = rec.excess].slot = rec.slot
        BY <2>1 DEF PubType
    <2> QED
        BY <1>1, <2>2
<1>3. CASE rec.ring < MaxSubs
    <2>1. NextRing(rec) = [next EXCEPT !.pc = "ring", !.ring = rec.ring + 1]
        BY <1>3 DEF NextRing
    <2> HIDE DEF next
    <2>2. rec.ring + 1 \in Rings
        BY <1>3, SizesAssumption DEF PubType, Rings
    <2> QED
        BY <1>2, <2>1, <2>2 DEF PubType, PubPCs
<1>4. CASE ~(rec.ring < MaxSubs) /\ rec.excess > 0
    <2>1. NextRing(rec) = [next EXCEPT !.pc = "finish"]
        BY <1>4 DEF NextRing
    <2> HIDE DEF next
    <2> QED
        BY <1>2, <2>1 DEF PubType, PubPCs
<1>5. CASE ~(rec.ring < MaxSubs) /\ ~(rec.excess > 0)
    <2>1. NextRing(rec) = PubIdle(rec.num + 1)
        BY <1>5 DEF NextRing
    <2> QED
        BY <1>1, <2>1 DEF PubIdle
<1> QED
    BY <1>3, <1>4, <1>5

\* A subscriber without a ring is well typed.
LEMMA SubOutType ==
    ASSUME NEW n \in Nat
    PROVE  SubOut(n) \in SubType
BY SizesAssumption, WordTypes DEF SubOut, SubType, SubPCs, Rings

\* A freshly stamped region is well typed.
LEMMA InitTypes == Init => TypeInv
<1> SUFFICES ASSUME Init PROVE TypeInv
    OBVIOUS
<1>1. 0 \in Nat /\ SeqZero \in SeqWord /\ MetaZero \in MetaWord
    BY WordTypes
<1>2. PubIdle(0) \in PubType /\ SubOut(0) \in SubType
    BY PubIdleType, SubOutType
<1>3. GcIdle(0) \in GcType
    BY <1>1, SizesAssumption DEF GcIdle, GcType, GcPCs, Rings
<1>4. TypeOK
    BY <1>1, <1>2, <1>3 DEF Init, TypeOK, RingStates
<1>5. Shape
    BY DEF Init, Shape, PubIdle, SubOut, GcIdle
<1> QED
    BY <1>4, <1>5 DEF TypeInv

-----------------------------------------------------------------------------
\* A publisher's own record stays well formed.
PubMoves(p) ==
    /\ pub' = [pub EXCEPT ![p] = pub'[p]]
    /\ pub'[p] \in PubType
    /\ pub'[p].pc # "idle" => pub'[p].slot \in Slots
    /\ pub'[p].pc \in {"release", "push"} => pub'[p].prev \in Slots

\* Every publisher action stays within PubMoves: its own locals and words of the right type.
LEMMA PubStepMoves ==
    ASSUME TypeInv, NEW p \in Pubs, PubNext(p)
    PROVE  PubMoves(p)
<1> USE DEF PubAt, Goto, Keep
<1>1. /\ pub \in [Pubs -> PubType] /\ pub[p] \in PubType
      /\ pub[p].pc # "idle" => pub[p].slot \in Slots
      /\ pub[p].pc \in {"release", "push"} => pub[p].prev \in Slots
      /\ pub[p].pos \in Nat /\ pub[p].ring \in Rings /\ pub[p].num \in Nat
    BY DEF TypeInv, TypeOK, Shape, PubType
<1>2. PubSeq(p) \in SeqWord /\ PubMeta(p) \in MetaWord /\ SeqZero \in SeqWord
    BY <1>1, AtType, WordTypes DEF TypeInv, TypeOK, PubSeq, PubMeta
<1>3. PubIdle(pub[p].num + 1) \in PubType /\ PubIdle(pub[p].num + 1).pc = "idle"
    BY <1>1, PubIdleType DEF PubIdle
<1>4. CASE Allocate(p)
    <2>1. PICK s \in free : pub' = [pub EXCEPT ![p].pc = "reserved", ![p].slot = s]
        BY <1>4 DEF Allocate
    <2>2. s \in Slots
        BY DEF TypeInv, TypeOK
    <2> QED
        BY <1>1, <2>1, <2>2 DEF PubMoves, PubType, PubPCs
<1>5. CASE AllocateFails(p)
    BY <1>1, <1>5 DEF AllocateFails, PubMoves, PubType, PubPCs
<1>6. CASE ReleasePending(p) \/ Recycle(p)
    <2>1. pub' = [pub EXCEPT ![p] = PubIdle(pub[p].num + 1)]
        BY <1>6 DEF ReleasePending, Recycle
    <2>2. pub'[p] = PubIdle(pub[p].num + 1)
        BY <1>1, <2>1
    <2> QED
        BY <1>3, <2>1, <2>2 DEF PubMoves
<1>7. CASE Preset(p) \/ Admit(p)
    BY <1>1, <1>7 DEF Preset, Admit, PubMoves, PubType, PubPCs
<1>8. CASE PassRing(p)
    <2> DEFINE rec == [pub[p] EXCEPT !.excess = @ + 1]
    <2>1. rec \in PubType /\ rec.slot \in Slots
        BY <1>1, <1>8 DEF PassRing, PubType
    <2>2. pub' = [pub EXCEPT ![p] = NextRing(rec)]
        BY <1>1, <1>8 DEF PassRing
    <2> HIDE DEF rec
    <2> QED
        <3>1. pub'[p] = NextRing(rec)
            BY <1>1, <2>2
        <3> QED
            BY <2>1, <2>2, <3>1, NextRingType DEF PubMoves
<1>9. CASE LeaveRing(p)
    <2>1. pub' = [pub EXCEPT ![p] = NextRing(pub[p])] /\ pub[p].slot \in Slots
        BY <1>1, <1>9 DEF LeaveRing
    <2> QED
        <3>1. pub'[p] = NextRing(pub[p])
            BY <1>1, <2>1
        <3> QED
            BY <1>1, <2>1, <3>1, NextRingType DEF PubMoves
<1>10. CASE ClaimPos(p)
    BY <1>1, <1>10 DEF ClaimPos, PubMoves, PubType, PubPCs, TypeInv, TypeOK
<1>11. CASE WaitFirst(p) \/ WaitDone(p) \/ WaitTimeout(p)
    BY <1>1, <1>2, <1>11 DEF WaitFirst, WaitDone, WaitTimeout, WaitEnds, PubMoves, PubType, PubPCs
<1>12. CASE LockEntry(p) \/ LockRetry(p) \/ LockGiveUp(p)
    BY <1>1, <1>2, <1>12 DEF LockEntry, LockRetry, LockGiveUp, PubMoves, PubType, PubPCs
<1>13. CASE HealLook(p) \/ HealSteal(p) \/ HealSkip(p)
    BY <1>1, <1>2, <1>13 DEF HealLook, HealSteal, HealSkip, PubMoves, PubType, PubPCs
<1>14. CASE CheckLock(p) \/ Commit(p)
    BY <1>1, <1>14 DEF CheckLock, Commit, PubMoves, PubType, PubPCs
<1>15. CASE TakeClaim(p)
    BY <1>1, <1>2, <1>15 DEF TakeClaim, PubMoves, PubType, PubPCs, MetaWord
<1>16. CASE ReleasePrev(p) \/ PushPrev(p)
    BY <1>1, <1>16 DEF ReleasePrev, PushPrev, PubMoves, PubType, PubPCs
<1>17. CASE Finish(p)
    BY <1>1, <1>3, <1>17 DEF Finish, PubMoves, PubType, PubPCs
<1> QED
    BY <1>4, <1>5, <1>6, <1>7, <1>8, <1>9, <1>10, <1>11, <1>12, <1>13, <1>14, <1>15, <1>16, <1>17
    DEF PubNext, PubStep

\* What a publisher's step leaves alone, and the words it may write.
LEMMA PubTypes ==
    ASSUME TypeInv, NEW p \in Pubs, PubNext(p)
    PROVE  TypeInv'
<1> USE DEF PubAt
<1>1. PubMoves(p)
    BY PubStepMoves
<1>2. UNCHANGED <<state, owner, sub, views, pushing, gc, alive, since, stranded, settled, unadmitted>>
    BY DEF PubNext, PubStep, ringVars, entryVars, slotVars, subVars, ghostVars, Allocate,
        AllocateFails, ReleasePending, Preset, Admit, PassRing, ClaimPos, WaitFirst, WaitDone,
        WaitTimeout, LockEntry, LockRetry, LockGiveUp, HealLook, HealSteal, HealSkip, CheckLock,
        TakeClaim, ReleasePrev, PushPrev, Commit, LeaveRing, Finish, Recycle
<1>3. /\ pub[p].pos \in Nat /\ pub[p].ring \in Rings /\ pub[p].num \in Nat /\ pub[p].excess \in Nat
      /\ pub[p].pc # "idle" => pub[p].slot \in Slots
      /\ pub[p].pc \in {"release", "push"} => pub[p].prev \in Slots
    BY DEF TypeInv, TypeOK, Shape, PubType
<1>4. SeqCommit(pub[p].pos) \in SeqWord /\ SeqSkip(pub[p].pos) \in SeqWord
      /\ SeqLock(pub[p].pos) \in SeqWord /\ SeqRepair(pub[p].pos) \in SeqWord
      /\ \A s \in Slots : MetaClaim(pub[p].pos, s) \in MetaWord
    BY <1>3, WordTypes
<1>5. seq' \in [Rings -> [Index -> SeqWord]]
    <2>1. seq \in [Rings -> [Index -> SeqWord]]
        BY DEF TypeInv, TypeOK
    <2>2. \A w \in SeqWord : Put(seq, pub[p].ring, pub[p].pos, w) \in [Rings -> [Index -> SeqWord]]
        BY <1>3, <2>1, PutType
    <2> QED
        BY <1>4, <2>1, <2>2 DEF PubNext, PubStep, ringVars, entryVars, slotVars, subVars, ghostVars, Allocate,
            AllocateFails, ReleasePending, Preset, Admit, PassRing, ClaimPos, WaitFirst, WaitDone,
            WaitTimeout, LockEntry, LockRetry, LockGiveUp, HealLook, HealSteal, HealSkip, CheckLock,
            TakeClaim, ReleasePrev, PushPrev, Commit, LeaveRing, Finish, Recycle
<1>6. meta' \in [Rings -> [Index -> MetaWord]]
    <2>1. meta \in [Rings -> [Index -> MetaWord]]
        BY DEF TypeInv, TypeOK
    <2>2. \A w \in MetaWord : Put(meta, pub[p].ring, pub[p].pos, w) \in [Rings -> [Index -> MetaWord]]
        BY <1>3, <2>1, PutType
    <2> QED
        BY <1>3, <1>4, <2>1, <2>2 DEF PubNext, PubStep, ringVars, entryVars, slotVars, subVars, ghostVars, Allocate,
            AllocateFails, ReleasePending, Preset, Admit, PassRing, ClaimPos, WaitFirst, WaitDone,
            WaitTimeout, LockEntry, LockRetry, LockGiveUp, HealLook, HealSteal, HealSkip, CheckLock,
            TakeClaim, ReleasePrev, PushPrev, Commit, LeaveRing, Finish, Recycle
<1>7. /\ flight' \in [Rings -> Int] /\ writePos' \in [Rings -> Nat] /\ refcount' \in [Slots -> Int]
      /\ free' \in SUBSET Slots /\ payload' \in [Slots -> Msg \cup {NoMsg}] /\ sent' \in [Rings -> Seq(Msg)]
    <2>1. /\ flight \in [Rings -> Int] /\ writePos \in [Rings -> Nat] /\ refcount \in [Slots -> Int]
          /\ free \in SUBSET Slots /\ payload \in [Slots -> Msg \cup {NoMsg}] /\ sent \in [Rings -> Seq(Msg)]
          /\ MaxSubs \in Nat /\ [from |-> p, num |-> pub[p].num] \in Msg
        BY <1>3, SizesAssumption DEF TypeInv, TypeOK, Msg
    <2>2. CASE Allocate(p)
        BY <2>1, <2>2 DEF Allocate, ringVars, ghostVars
    <2>3. CASE ClaimPos(p)
        <3>1. ASSUME NEW m \in Msg PROVE Append(sent[pub[p].ring], m) \in Seq(Msg)
            BY <1>3, <2>1
        <3>2. sent' \in [Rings -> Seq(Msg)]
            <4>1. sent' = [sent EXCEPT ![pub[p].ring] =
                                Append(sent[pub[p].ring], [from |-> p, num |-> pub[p].num])]
                BY <2>3 DEF ClaimPos
            <4> QED
                BY <1>3, <2>1, <3>1, <4>1
        <3>3. UNCHANGED <<flight, refcount, free, payload>>
            BY <2>3 DEF ClaimPos, slotVars
        <3>4. writePos' \in [Rings -> Nat]
            <4>1. writePos' = [writePos EXCEPT ![pub[p].ring] = writePos[pub[p].ring] + 1]
                BY <2>3 DEF ClaimPos
            <4>2. writePos[pub[p].ring] + 1 \in Nat
                BY <1>3, <2>1
            <4> QED
                BY <2>1, <4>1, <4>2
        <3> QED
            BY <2>1, <3>2, <3>3, <3>4
    <2>4. CASE Preset(p) \/ Finish(p) \/ ReleasePrev(p)
        BY <1>3, <2>1, <2>4, SMTT(30) DEF Preset, Finish, ReleasePrev, Drop, ringVars, ghostVars
    <2>5. CASE ReleasePending(p) \/ PushPrev(p) \/ Recycle(p)
        BY <1>3, <2>1, <2>5 DEF ReleasePending, PushPrev, Recycle, ringVars, ghostVars
    <2>6. CASE Admit(p) \/ LeaveRing(p)
        BY <1>3, <2>1, <2>6 DEF Admit, LeaveRing, slotVars, ghostVars
    <2>7. CASE \/ AllocateFails(p) \/ PassRing(p) \/ WaitFirst(p) \/ WaitDone(p) \/ WaitTimeout(p)
               \/ LockEntry(p) \/ LockRetry(p) \/ LockGiveUp(p) \/ HealLook(p) \/ HealSteal(p)
               \/ HealSkip(p) \/ CheckLock(p) \/ TakeClaim(p) \/ Commit(p)
        BY <2>1, <2>7 DEF AllocateFails, PassRing, WaitFirst, WaitDone, WaitTimeout, LockEntry,
            LockRetry, LockGiveUp, HealLook, HealSteal, HealSkip, CheckLock, TakeClaim, Commit,
            ringVars, slotVars, ghostVars
    <2> QED
        BY <2>2, <2>3, <2>4, <2>5, <2>6, <2>7 DEF PubNext, PubStep
<1>8. TypeOK'
    BY <1>1, <1>2, <1>5, <1>6, <1>7 DEF TypeInv, TypeOK, PubMoves
<1>9. Shape'
    BY <1>1, <1>2 DEF TypeInv, TypeOK, Shape, PubMoves
<1> QED
    BY <1>8, <1>9 DEF TypeInv

-----------------------------------------------------------------------------
\* A subscriber's own record stays well formed.
SubMoves(u) ==
    /\ sub' = [sub EXCEPT ![u] = sub'[u]]
    /\ sub'[u] \in SubType
    /\ sub'[u].pc \in {"pin", "check", "unpin", "unref"} => sub'[u].slot \in Slots
    /\ sub'[u].pc = "unclaim" => sub'[u].claim.slot \in Slots

\* Every subscriber action stays within SubMoves: its own locals and words of the right type.
LEMMA SubStepMoves ==
    ASSUME TypeInv, NEW u \in Subs, SubNext(u)
    PROVE  SubMoves(u)
<1> USE DEF SubAt, GotoSub
<1>1. /\ sub \in [Subs -> SubType] /\ sub[u] \in SubType
      /\ sub[u].pc \in {"pin", "check", "unpin", "unref"} => sub[u].slot \in Slots
      /\ sub[u].pc = "unclaim" => sub[u].claim.slot \in Slots
      /\ sub[u].ring \in Rings /\ sub[u].pos \in Nat /\ sub[u].read \in Nat /\ sub[u].joins \in Nat
      /\ sub[u].start \in Nat /\ sub[u].wp \in Nat
      /\ writePos[sub[u].ring] \in Nat
      /\ Capacity \in Nat
    BY SizesAssumption DEF TypeInv, TypeOK, Shape, SubType
<1>2. At(meta, sub[u].ring, sub[u].read) \in MetaWord /\ At(meta, sub[u].ring, sub[u].pos) \in MetaWord
      /\ MetaZero \in MetaWord
    BY <1>1, AtType, WordTypes DEF TypeInv, TypeOK
<1>3. SubOut(sub[u].joins + 1) \in SubType /\ SubOut(sub[u].joins + 1).pc = "out"
    BY <1>1, SubOutType DEF SubOut
<1>4. CASE Join(u) \/ JoinFloor(u) \/ JoinClaim(u) \/ JoinOwn(u)
    BY <1>1, <1>4 DEF Join, JoinFloor, Floor, JoinClaim, JoinOwn, SubMoves, SubType, SubPCs
<1>5. CASE JoinNext(u)
    <2>1. CASE LastRing(sub[u].ring)
        <3>1. sub' = [sub EXCEPT ![u] = SubOut(sub[u].joins + 1)]
            BY <1>5, <2>1 DEF JoinNext
        <3>2. sub'[u] = SubOut(sub[u].joins + 1)
            BY <1>1, <3>1
        <3> QED
            BY <1>3, <3>1, <3>2 DEF SubMoves
    <2>2. CASE ~LastRing(sub[u].ring)
        <3>1. sub' = [sub EXCEPT ![u] = [sub[u] EXCEPT !.pc = "join", !.ring = sub[u].ring + 1]]
            BY <1>5, <2>2 DEF JoinNext
        <3>2. sub[u].ring + 1 \in Rings
            BY <1>1, <2>2, SizesAssumption DEF LastRing, Rings
        <3> QED
            BY <1>1, <3>1, <3>2 DEF SubMoves, SubType, SubPCs
    <2> QED
        BY <2>1, <2>2
<1>6. CASE JoinSeek(u)
    <2>1. SeekTo(sub[u].start, writePos[sub[u].ring]) \in Nat
        BY <1>1 DEF SeekTo
    <2> QED
        BY <1>1, <1>6, <2>1 DEF JoinSeek, SubMoves, SubType, SubPCs
<1>7. CASE Poll(u)
    <2> DEFINE wp == writePos[sub[u].ring]
    <2>1. PICK r \in Nat, l \in Nat :
              sub' = [sub EXCEPT ![u] = [sub[u] EXCEPT !.pc = "seq", !.read = r, !.lost = l]]
        <3>1. CASE wp - sub[u].read > Capacity
            <4>1. wp - Capacity \in Nat /\ sub[u].lost + (wp - sub[u].read) - Capacity \in Nat
                BY <1>1, <3>1 DEF SubType
            <4>2. sub' = [sub EXCEPT ![u] = [sub[u] EXCEPT !.pc = "seq", !.read = wp - Capacity,
                                            !.lost = sub[u].lost + (wp - sub[u].read) - Capacity]]
                BY <1>1, <1>7, <3>1 DEF Poll
            <4> QED
                BY <4>1, <4>2
        <3>2. CASE ~(wp - sub[u].read > Capacity)
            <4>1. sub' = [sub EXCEPT ![u] = [sub[u] EXCEPT !.pc = "seq", !.read = sub[u].read,
                                            !.lost = sub[u].lost]]
                BY <1>1, <1>7, <3>2 DEF Poll
            <4> QED
                BY <1>1, <4>1 DEF SubType
        <3> QED
            BY <3>1, <3>2
    <2> QED
        BY <1>1, <2>1 DEF SubMoves, SubType, SubPCs
<1>8. CASE LookSeq(u)
    <2>1. GotoSub(u, "meta") \/ GotoSub(u, "ready") \/ Lose(u)
        BY <1>8 DEF LookSeq
    <2> QED
        BY <1>1, <2>1 DEF Lose, SubMoves, SubType, SubPCs
<1>9. CASE LookMeta(u)
    BY <1>1, <1>2, <1>9 DEF LookMeta, Lose, SubMoves, SubType, SubPCs, MetaWord
<1>10. CASE Pin(u) \/ Unpin(u)
    BY <1>1, <1>10 DEF Pin, Unpin, Lose, SubMoves, SubType, SubPCs
<1>11. CASE Deliver(u) \/ Overtaken(u)
    BY <1>1, <1>11 DEF Deliver, Overtaken, SubMoves, SubType, SubPCs
<1>12. CASE PushSlot(u) \/ \E v \in views[u] : DropView(u, v)
    BY <1>1, <1>12 DEF PushSlot, DropView, SubMoves
<1>13. CASE Leave(u) \/ Quiesced(u) \/ QuiesceTimeout(u) \/ ClearOwner(u)
    BY <1>1, <1>13 DEF Leave, Quiesced, QuiesceTimeout, ClearOwner, SubMoves, SubType, SubPCs
<1>14. CASE DrainWindow(u)
    <2>1. DrainFloor(u, writePos[sub[u].ring]) \in Nat
        BY <1>1 DEF DrainFloor
    <2> QED
        BY <1>1, <1>14, <2>1 DEF DrainWindow, SubMoves, SubType, SubPCs
<1>15. CASE DrainLook(u)
    <2> DEFINE m == At(meta, sub[u].ring, sub[u].pos)
    <2>1. CASE m.slot = NoSlot
        BY <1>1, <1>15, <2>1 DEF DrainLook, SubMoves, SubType, SubPCs
    <2>2. CASE m.slot # NoSlot
        <3>1. sub' = [sub EXCEPT ![u] = [sub[u] EXCEPT !.pc = "unclaim", !.claim = m]]
            BY <1>1, <1>15, <2>2 DEF DrainLook
        <3>2. m.slot \in Slots
            BY <1>2, <2>2 DEF MetaWord
        <3> HIDE DEF m
        <3> QED
            BY <1>1, <1>2, <3>1, <3>2 DEF SubMoves, SubType, SubPCs, m
    <2> QED
        BY <2>1, <2>2
<1>16. CASE DrainClear(u)
    <2> DEFINE next == [sub[u] EXCEPT !.claim = MetaZero]
    <2>1. next \in SubType
        BY <1>1, <1>2 DEF SubType
    <2>2. \/ sub' = [sub EXCEPT ![u] = [next EXCEPT !.pc = "unref", !.slot = sub[u].claim.slot]]
          \/ sub' = [sub EXCEPT ![u] = [next EXCEPT !.pc = "drain", !.pos = @ + 1]]
        BY <1>16 DEF DrainClear
    <2>3. sub[u].claim.slot \in Slots
        BY <1>1, <1>16 DEF DrainClear
    <2> HIDE DEF next
    <2>4. CASE sub' = [sub EXCEPT ![u] = [next EXCEPT !.pc = "unref", !.slot = sub[u].claim.slot]]
        <3>1. [next EXCEPT !.pc = "unref", !.slot = sub[u].claim.slot] \in SubType
            BY <2>1, <2>3 DEF SubType, SubPCs
        <3>2. sub'[u] = [next EXCEPT !.pc = "unref", !.slot = sub[u].claim.slot]
            BY <1>1, <2>4
        <3>3. sub'[u].pc = "unref" /\ sub'[u].slot = sub[u].claim.slot
            BY <2>1, <3>2 DEF SubType
        <3> QED
            BY <2>3, <2>4, <3>1, <3>2, <3>3 DEF SubMoves
    <2>5. CASE sub' = [sub EXCEPT ![u] = [next EXCEPT !.pc = "drain", !.pos = @ + 1]]
        <3>1. next.pos + 1 \in Nat
            BY <2>1 DEF SubType
        <3>2. [next EXCEPT !.pc = "drain", !.pos = next.pos + 1] \in SubType
            BY <2>1, <3>1 DEF SubType, SubPCs
        <3>3. sub'[u] = [next EXCEPT !.pc = "drain", !.pos = next.pos + 1]
            BY <1>1, <2>5
        <3>4. sub'[u].pc = "drain"
            BY <2>1, <3>3 DEF SubType
        <3> QED
            BY <2>5, <3>2, <3>3, <3>4 DEF SubMoves
    <2> QED
        BY <2>2, <2>4, <2>5
<1>17. CASE DrainDrop(u)
    BY <1>1, <1>17 DEF DrainDrop, SubMoves, SubType, SubPCs
<1>18. CASE FreeRing(u) \/ RetireRing(u)
    <2>1. sub' = [sub EXCEPT ![u] = SubOut(sub[u].joins + 1)]
        BY <1>18, SMTT(30) DEF FreeRing, RetireRing
    <2>2. sub'[u] = SubOut(sub[u].joins + 1)
        BY <1>1, <2>1
    <2> QED
        BY <1>3, <2>1, <2>2 DEF SubMoves
<1> QED
    BY <1>4, <1>5, <1>6, <1>7, <1>8, <1>9, <1>10, <1>11, <1>12, <1>13, <1>14, <1>15, <1>16, <1>17, <1>18
    DEF SubNext, SubStep

\* What a subscriber's step leaves alone, and the words it may write.
LEMMA SubTypes ==
    ASSUME TypeInv, NEW u \in Subs, SubNext(u)
    PROVE  TypeInv'
<1> USE DEF SubAt
<1>1. SubMoves(u)
    BY SubStepMoves
<1>2. UNCHANGED <<writePos, seq, payload, pub, gc, alive, sent, settled, unadmitted>>
    BY DEF SubNext, SubStep, ringVars, entryVars, slotVars, ghostVars, Join, JoinFloor, JoinClaim,
        JoinNext, JoinOwn, JoinSeek, Poll, LookSeq, LookMeta, Pin, Deliver, Overtaken, Unpin,
        PushSlot, DropView, Leave, Quiesced, QuiesceTimeout, ClearOwner, DrainWindow, DrainLook,
        DrainClear, DrainDrop, FreeRing, RetireRing
<1>3. /\ sub[u].pos \in Nat /\ sub[u].read \in Nat /\ sub[u].ring \in Rings
      /\ sub[u].pc \in {"pin", "check", "unpin", "unref"} => sub[u].slot \in Slots
      /\ sub[u].claim \in MetaWord
      /\ \A v \in views[u] : v \in View /\ v.slot \in Slots
      /\ pushing[u] \in SUBSET Slots
    BY SMTT(30) DEF TypeInv, TypeOK, Shape, SubType, View
<1>4. meta' \in [Rings -> [Index -> MetaWord]]
    <2>1. meta \in [Rings -> [Index -> MetaWord]]
        BY DEF TypeInv, TypeOK
    <2>2. Put(meta, sub[u].ring, sub[u].pos, MetaCleared(sub[u].claim)) \in [Rings -> [Index -> MetaWord]]
        BY <1>3, <2>1, PutType, WordTypes
    <2> QED
        BY <2>1, <2>2 DEF SubNext, SubStep, ringVars, entryVars, slotVars, ghostVars, Join, JoinFloor,
            JoinClaim, JoinNext, JoinOwn, JoinSeek, Poll, LookSeq, LookMeta, Pin, Deliver, Overtaken,
            Unpin, PushSlot, DropView, Leave, Quiesced, QuiesceTimeout, ClearOwner, DrainWindow,
            DrainLook, DrainClear, DrainDrop, FreeRing, RetireRing
<1>5. /\ state' \in [Rings -> RingStates] /\ flight' \in [Rings -> Int]
      /\ owner' \in [Rings -> Subs \cup {NoOwner}] /\ refcount' \in [Slots -> Int]
      /\ free' \in SUBSET Slots /\ views' \in [Subs -> SUBSET View] /\ pushing' \in [Subs -> SUBSET Slots]
      /\ since' \in [Subs -> Nat] /\ stranded' \in SUBSET Rings
    <2>1. /\ state \in [Rings -> RingStates] /\ flight \in [Rings -> Int]
          /\ owner \in [Rings -> Subs \cup {NoOwner}] /\ refcount \in [Slots -> Int]
          /\ free \in SUBSET Slots /\ views \in [Subs -> SUBSET View] /\ pushing \in [Subs -> SUBSET Slots]
          /\ since \in [Subs -> Nat] /\ stranded \in SUBSET Rings /\ writePos[sub[u].ring] \in Nat
        BY <1>3 DEF TypeInv, TypeOK
    <2>2. CASE JoinClaim(u) \/ JoinOwn(u) \/ Leave(u) \/ ClearOwner(u)
        BY <1>3, <2>1, <2>2 DEF JoinClaim, JoinOwn, Leave, ClearOwner, RingStates, slotVars, ghostVars
    <2>3. CASE FreeRing(u) \/ RetireRing(u)
        BY <1>3, <2>1, <2>3 DEF FreeRing, RetireRing, RingStates, slotVars, ghostVars
    <2>4. CASE Pin(u) \/ Unpin(u) \/ DrainDrop(u)
        BY <1>3, <2>1, <2>4 DEF Pin, Unpin, DrainDrop, SubDrop, Drop, ringVars, ghostVars
    <2>5. CASE \E v \in views[u] : DropView(u, v)
        <3>1. PICK v \in views[u] : DropView(u, v)
            BY <2>5
        <3> QED
            BY <1>3, <2>1, <3>1 DEF DropView, SubDrop, Drop, ringVars, ghostVars
    <2>6. CASE PushSlot(u)
        BY <1>3, <2>1, <2>6 DEF PushSlot, ringVars, ghostVars
    <2>7. CASE Deliver(u)
        <3>1. [slot |-> sub[u].slot, ring |-> sub[u].ring, pos |-> sub[u].read] \in View
            BY <1>3, <2>7 DEF Deliver, View
        <3> QED
            BY <2>1, <2>7, <3>1 DEF Deliver, ringVars, slotVars, ghostVars
    <2>8. CASE \/ Join(u) \/ JoinFloor(u) \/ JoinNext(u) \/ JoinSeek(u) \/ Poll(u) \/ LookSeq(u)
               \/ LookMeta(u) \/ Overtaken(u) \/ Quiesced(u) \/ QuiesceTimeout(u) \/ DrainWindow(u)
               \/ DrainLook(u) \/ DrainClear(u)
        BY <2>1, <2>8 DEF Join, JoinFloor, JoinNext, JoinSeek, Poll, LookSeq, LookMeta, Overtaken,
            Quiesced, QuiesceTimeout, DrainWindow, DrainLook, DrainClear, ringVars, slotVars, ghostVars
    <2> QED
        BY <2>2, <2>3, <2>4, <2>5, <2>6, <2>7, <2>8 DEF SubNext, SubStep
<1>6. TypeOK'
    BY <1>1, <1>2, <1>4, <1>5 DEF TypeInv, TypeOK, SubMoves
<1>7. Shape'
    BY <1>1, <1>2 DEF TypeInv, TypeOK, Shape, SubMoves
<1> QED
    BY <1>6, <1>7 DEF TypeInv

-----------------------------------------------------------------------------
\* The idle repair pass is well typed.
LEMMA GcIdleType ==
    ASSUME NEW n \in Nat
    PROVE  GcIdle(n) \in GcType
BY SizesAssumption, WordTypes DEF GcIdle, GcType, GcPCs, Rings

\* The candidates of a grace pass: at least one while it runs.
LEMMA GraceType ==
    ASSUME NEW n \in Nat, NEW locked \in Seq(Candidate), locked # <<>>
    PROVE  /\ [GcIdle(n) EXCEPT !.pc = "grace", !.locked = locked] \in GcType
           /\ [GcIdle(n) EXCEPT !.pc = "grace", !.locked = locked].locked = locked
BY GcIdleType DEF GcIdle, GcType, GcPCs

\* Moving the scan of a repair pass keeps its locals well typed.
LEMMA ScanFromType ==
    ASSUME NEW rec \in GcType
    PROVE  /\ ScanFrom(rec) \in GcType
           /\ ScanFrom(rec).pc \in {"grace", "graceSkip"} => ScanFrom(rec).locked # <<>>
<1>1. rec.passes \in Nat /\ rec.ring \in Rings /\ rec.locked \in Seq(Candidate)
    BY DEF GcType
<1>2. GcIdle(rec.passes) \in GcType /\ GcIdle(rec.passes).pc = "idle"
    BY <1>1, GcIdleType DEF GcIdle
<1>3. CASE rec.pos < rec.wp
    <2>1. ScanFrom(rec) = [rec EXCEPT !.pc = "entry", !.obs = SeqZero]
        BY <1>3 DEF ScanFrom
    <2>2. SeqZero \in SeqWord
        BY WordTypes
    <2> QED
        BY <2>1, <2>2 DEF GcType, GcPCs
<1>4. CASE ~(rec.pos < rec.wp) /\ rec.ring < MaxSubs
    <2>1. ScanFrom(rec) = [GcIdle(rec.passes) EXCEPT !.pc = "ring", !.ring = rec.ring + 1,
                                                     !.locked = rec.locked]
        BY <1>4 DEF ScanFrom
    <2>2. rec.ring + 1 \in Rings
        BY <1>1, <1>4, SizesAssumption DEF Rings
    <2>3. ASSUME NEW idle \in GcType
          PROVE  /\ [idle EXCEPT !.pc = "ring", !.ring = rec.ring + 1, !.locked = rec.locked] \in GcType
                 /\ [idle EXCEPT !.pc = "ring", !.ring = rec.ring + 1, !.locked = rec.locked].pc = "ring"
        BY <1>1, <2>2 DEF GcType, GcPCs
    <2> QED
        BY <1>2, <2>1, <2>3
<1>5. CASE ~(rec.pos < rec.wp) /\ ~(rec.ring < MaxSubs) /\ rec.locked = <<>>
    <2>1. ScanFrom(rec) = GcIdle(rec.passes)
        BY <1>5 DEF ScanFrom
    <2> QED
        BY <1>2, <2>1
<1>6. CASE ~(rec.pos < rec.wp) /\ ~(rec.ring < MaxSubs) /\ rec.locked # <<>>
    <2>1. ScanFrom(rec) = [GcIdle(rec.passes) EXCEPT !.pc = "grace", !.locked = rec.locked]
        BY <1>6 DEF ScanFrom
    <2> QED
        BY <1>1, <1>6, <2>1, GraceType
<1> QED
    BY <1>3, <1>4, <1>5, <1>6

\* Loading the window of a ring keeps the locals of a repair pass well typed.
LEMMA WindowType ==
    ASSUME TypeInv, NEW rec \in GcType
    PROVE  /\ Window(rec) \in GcType
           /\ Window(rec).pc \in {"grace", "graceSkip"} => Window(rec).locked # <<>>
<1> DEFINE wp == writePos[rec.ring]
           full == [rec EXCEPT !.wp = wp, !.pos = IF wp > Capacity THEN wp - Capacity ELSE 0]
<1>1. wp \in Nat /\ Capacity \in Nat
    BY SizesAssumption DEF TypeInv, TypeOK, GcType
<1>2. full \in GcType
    <2>1. (IF wp > Capacity THEN wp - Capacity ELSE 0) \in Nat
        BY <1>1
    <2> HIDE DEF wp
    <2> QED
        BY <1>1, <2>1 DEF GcType
<1>3. Window(rec) = ScanFrom(full)
    BY DEF Window
<1> HIDE DEF full
<1> QED
    BY <1>2, <1>3, ScanFromType

\* Moving the grace pass on keeps its locals well typed.
LEMMA GraceFromType ==
    ASSUME TypeInv, gc.locked # <<>>
    PROVE  /\ GraceFrom(Tail(gc.locked)) \in GcType
           /\ GraceFrom(Tail(gc.locked)).pc \in {"grace", "graceSkip"}
                  => GraceFrom(Tail(gc.locked)).locked # <<>>
<1>1. gc.passes \in Nat /\ Tail(gc.locked) \in Seq(Candidate)
    BY DEF TypeInv, TypeOK, GcType
<1>2. GcIdle(gc.passes) \in GcType /\ GcIdle(gc.passes).pc = "idle"
    BY <1>1, GcIdleType DEF GcIdle
<1>3. CASE Tail(gc.locked) = <<>>
    BY <1>2, <1>3 DEF GraceFrom
<1>4. CASE Tail(gc.locked) # <<>>
    <2>1. GraceFrom(Tail(gc.locked)) = [GcIdle(gc.passes) EXCEPT !.pc = "grace", !.locked = Tail(gc.locked)]
        BY <1>4 DEF GraceFrom
    <2> QED
        BY <1>1, <1>4, <2>1, GraceType
<1> QED
    BY <1>3, <1>4

\* Every step of a repair pass keeps the types.
LEMMA GcTypes ==
    ASSUME TypeInv, RepairStart \/ GcStep \/ CrashRepairer
    PROVE  TypeInv'
<1>1. UNCHANGED <<ringVars, meta, slotVars, pub, subVars, alive, ghostVars>>
    BY DEF RepairStart, GcStep, CrashRepairer, RepairRing, RepairLook, RepairSteal, RepairSkip,
        RepairGrace, RepairGraceSkip, entryVars
<1>2. /\ gc \in GcType /\ gc.ring \in Rings /\ gc.pos \in Nat /\ gc.passes \in Nat
      /\ gc.locked \in Seq(Candidate)
      /\ gc.pc \in {"grace", "graceSkip"} => gc.locked # <<>>
      /\ seq \in [Rings -> [Index -> SeqWord]]
    BY DEF TypeInv, TypeOK, Shape, GcType
<1>3. GcSeq \in SeqWord /\ [gc EXCEPT !.pos = @ + 1] \in GcType
    BY <1>2, AtType DEF GcSeq, GcType
<1>4. \A r \in Rings, pos \in Nat :
          /\ Put(seq, r, pos, SeqRepair(pos)) \in [Rings -> [Index -> SeqWord]]
          /\ Put(seq, r, pos, SeqSkip(pos)) \in [Rings -> [Index -> SeqWord]]
    BY <1>2, PutType, WordTypes
<1> DEFINE Good(rec) == rec \in GcType /\ (rec.pc \in {"grace", "graceSkip"} => rec.locked # <<>>)
<1>5. seq' \in [Rings -> [Index -> SeqWord]] /\ Good(gc')
    <2>1. CASE RepairStart
        <3>1. GcIdle(gc.passes + 1) \in GcType
            BY <1>2, GcIdleType
        <3> QED
            BY <1>2, <2>1, <3>1, WindowType DEF RepairStart, entryVars
    <2>2. CASE RepairRing
        BY <1>2, <2>2, WindowType DEF RepairRing, entryVars
    <2>3. CASE RepairLook
        <3> DEFINE next == [gc EXCEPT !.pos = @ + 1]
                   more == [next EXCEPT !.locked = Append(@, [ring |-> gc.ring, pos |-> gc.pos, seq |-> GcSeq])]
        <3>1. more \in GcType
            <4>1. [ring |-> gc.ring, pos |-> gc.pos, seq |-> GcSeq] \in Candidate
                BY <1>2, <1>3 DEF Candidate
            <4>2. next \in GcType /\ next.locked \in Seq(Candidate)
                BY <1>3 DEF GcType
            <4>3. Append(next.locked, [ring |-> gc.ring, pos |-> gc.pos, seq |-> GcSeq]) \in Seq(Candidate)
                BY <4>1, <4>2
            <4> HIDE DEF next
            <4> QED
                BY <4>2, <4>3 DEF GcType
        <3>2. [gc EXCEPT !.pc = "steal", !.obs = GcSeq] \in GcType
              /\ [gc EXCEPT !.pc = "steal", !.obs = GcSeq].pc = "steal"
            BY <1>2, <1>3 DEF GcType, GcPCs
        <3>3. \/ gc' = ScanFrom(more) \/ gc' = ScanFrom(next)
              \/ gc' = [gc EXCEPT !.pc = "steal", !.obs = GcSeq]
            BY <2>3 DEF RepairLook
        <3> HIDE DEF next, more
        <3>4. next \in GcType
            BY <1>3 DEF next
        <3>5. Good(gc')
            BY <3>1, <3>2, <3>3, <3>4, ScanFromType
        <3> QED
            BY <1>2, <2>3, <3>5 DEF RepairLook, entryVars
    <2>4. CASE RepairSteal \/ RepairSkip
        <3>1. Good([gc EXCEPT !.pc = "skip"])
            BY <1>2 DEF GcType, GcPCs
        <3>2. Good(ScanFrom([gc EXCEPT !.pos = @ + 1]))
            BY <1>3, ScanFromType
        <3>3. seq' \in [Rings -> [Index -> SeqWord]]
            BY <1>2, <1>4, <2>4 DEF RepairSteal, RepairSkip
        <3>4. gc' = [gc EXCEPT !.pc = "skip"] \/ gc' = ScanFrom([gc EXCEPT !.pos = @ + 1])
            BY <2>4 DEF RepairSteal, RepairSkip
        <3> HIDE DEF Good
        <3> QED
            BY <3>1, <3>2, <3>3, <3>4
    <2>5. CASE RepairGrace
        <3> DEFINE c == Head(gc.locked)
        <3>1. c \in Candidate /\ c.ring \in Rings /\ c.pos \in Nat
            <4>1. gc.locked # <<>>
                BY <1>2, <2>5 DEF RepairGrace
            <4>2. Head(gc.locked) \in Candidate
                BY <1>2, <4>1
            <4> QED
                BY <4>2 DEF Candidate
        <3>2. seq' \in [Rings -> [Index -> SeqWord]]
            <4>1. seq' = Put(seq, c.ring, c.pos, SeqRepair(c.pos)) \/ seq' = seq
                BY <2>5 DEF RepairGrace
            <4> HIDE DEF c
            <4> QED
                BY <1>2, <1>4, <3>1, <4>1
        <3>3. Good([gc EXCEPT !.pc = "graceSkip", !.ring = c.ring, !.pos = c.pos])
            <4> HIDE DEF c
            <4> QED
                BY <1>2, <2>5, <3>1 DEF RepairGrace, GcType, GcPCs
        <3>4. Good(GraceFrom(Tail(gc.locked)))
            BY <1>2, <2>5, GraceFromType DEF RepairGrace
        <3>5. \/ gc' = [gc EXCEPT !.pc = "graceSkip", !.ring = c.ring, !.pos = c.pos]
              \/ gc' = GraceFrom(Tail(gc.locked))
            BY <2>5 DEF RepairGrace
        <3> HIDE DEF Good
        <3> QED
            BY <3>2, <3>3, <3>4, <3>5
    <2>6. CASE RepairGraceSkip
        BY <1>2, <1>4, <2>6, GraceFromType DEF RepairGraceSkip
    <2>7. CASE CrashRepairer
        <3>1. GcIdle(gc.passes) \in GcType /\ GcIdle(gc.passes).pc = "idle"
            BY <1>2, GcIdleType DEF GcIdle
        <3> QED
            BY <1>2, <2>7, <3>1 DEF CrashRepairer, entryVars
    <2> QED
        BY <2>1, <2>2, <2>3, <2>4, <2>5, <2>6, <2>7 DEF GcStep
<1>6. TypeOK'
    BY <1>1, <1>5 DEF TypeInv, TypeOK, ringVars, slotVars, subVars, ghostVars
<1>7. Shape'
    BY <1>1, <1>5 DEF TypeInv, Shape, subVars
<1> QED
    BY <1>6, <1>7 DEF TypeInv

\* Finitely many entries claim a slot.
LEMMA ClaimsFinite ==
    ASSUME NEW s \in Slots
    PROVE  IsFiniteSet(Claims(s)) /\ Cardinality(Claims(s)) \in Nat
<1>1. IsFiniteSet(Rings) /\ IsFiniteSet(Index)
    <2>1. 1 \in Int /\ MaxSubs \in Int /\ 0 \in Int /\ Capacity - 1 \in Int
        BY SizesAssumption
    <2>2. IsFiniteSet(1..MaxSubs) /\ IsFiniteSet(0..(Capacity - 1))
        BY <2>1, FS_Interval
    <2> QED
        BY <2>2 DEF Rings, Index
<1>2. IsFiniteSet(Rings \X Index)
    BY <1>1, FS_Product
<1>3. Claims(s) \subseteq Rings \X Index
    BY DEF Claims
<1> QED
    BY <1>2, <1>3, FS_Subset, FS_CardinalityType

\* The operator's recovery calls and the crashes.
Operator ==
    \/ \E r \in Rings : ResetRetiredRing(r) \/ ReclaimDeadRing(r)
    \/ ReclaimOrphanedSlots
    \/ \E p \in Pubs : CrashPub(p)
    \/ \E u \in Subs : CrashSub(u)

\* The operator's recovery calls keep the types.
LEMMA OperatorTypes ==
    ASSUME TypeInv, Operator
    PROVE  TypeInv'
<1>1. UNCHANGED <<writePos, entryVars, payload, pub, subVars, gc, sent, since>>
    BY DEF Operator, ResetRetiredRing, ReclaimDeadRing, ReclaimOrphanedSlots, CrashPub, CrashSub,
        ringVars, slotVars, ghostVars
<1>2. refcount' \in [Slots -> Int] /\ free' \in SUBSET Slots
    <2>1. refcount \in [Slots -> Int] /\ free \in SUBSET Slots
        BY DEF TypeInv, TypeOK
    <2>2. CASE ReclaimOrphanedSlots
        <3>1. \A s \in Slots : TrueCount(s) \in Int
            BY <2>1, ClaimsFinite DEF TrueCount
        <3> QED
            BY <2>1, <2>2, <3>1 DEF ReclaimOrphanedSlots, Orphans
    <2>3. CASE ~ReclaimOrphanedSlots
        BY <2>1, <2>3 DEF Operator, ResetRetiredRing, ReclaimDeadRing, CrashPub, CrashSub, slotVars
    <2> QED
        BY <2>2, <2>3
<1>3. /\ state' \in [Rings -> RingStates] /\ flight' \in [Rings -> Int]
      /\ owner' \in [Rings -> Subs \cup {NoOwner}] /\ alive' \in SUBSET (Pubs \cup Subs)
      /\ stranded' \in SUBSET Rings /\ settled' \in SUBSET (Pubs \cup Subs)
      /\ unadmitted' \in SUBSET Pubs
    <2>1. /\ state \in [Rings -> RingStates] /\ flight \in [Rings -> Int]
          /\ owner \in [Rings -> Subs \cup {NoOwner}] /\ alive \in SUBSET (Pubs \cup Subs)
          /\ stranded \in SUBSET Rings /\ settled \in SUBSET (Pubs \cup Subs)
          /\ unadmitted \in SUBSET Pubs
        BY DEF TypeInv, TypeOK
    <2>2. CASE \E r \in Rings : ResetRetiredRing(r)
        BY <2>1, <2>2 DEF ResetRetiredRing, Admitted
    <2>3. CASE \E r \in Rings : ReclaimDeadRing(r)
        BY <2>1, <2>3 DEF ReclaimDeadRing, FreedFlight, RingStates
    <2>4. CASE ReclaimOrphanedSlots
        BY <2>1, <2>4 DEF ReclaimOrphanedSlots, Dead, ringVars
    <2>5. CASE (\E p \in Pubs : CrashPub(p)) \/ (\E u \in Subs : CrashSub(u))
        BY <2>1, <2>5 DEF CrashPub, CrashSub, ringVars, ghostVars
    <2> QED
        BY <2>2, <2>3, <2>4, <2>5 DEF Operator
<1>4. TypeOK'
    BY <1>1, <1>2, <1>3 DEF TypeInv, TypeOK, entryVars, subVars
<1>5. Shape'
    BY <1>1 DEF TypeInv, Shape, subVars
<1> QED
    BY <1>4, <1>5 DEF TypeInv

\* Next is one of the groups of actions the lemmas above treat.
LEMMA NextSplits ==
    Next <=> \/ \E p \in Pubs : PubNext(p)
             \/ \E u \in Subs : SubNext(u)
             \/ RepairStart \/ GcStep \/ CrashRepairer
             \/ Operator
BY DEF Next, Operator

\* Every step keeps the types.
LEMMA StepTypes ==
    ASSUME TypeInv, [Next]_vars
    PROVE  TypeInv'
<1>1. CASE UNCHANGED vars
    BY <1>1 DEF TypeInv, TypeOK, Shape, vars, ringVars, entryVars, slotVars, subVars, ghostVars
<1> QED
    BY <1>1, NextSplits, PubTypes, SubTypes, GcTypes, OperatorTypes

\* Every word, record and history variable keeps its type, for any number of
\* processes, rings, entries and slots: in particular no index leaves its array
\* and no publisher or reader dereferences INVALID_SLOT.
THEOREM ChannelTypes == Spec => []TypeOK
<1>1. TypeInv => TypeOK
    BY DEF TypeInv
<1> QED
    BY <1>1, InitTypes, StepTypes, PTL DEF Spec

-----------------------------------------------------------------------------
(***************************************************************************)
(* Reference counts.  A slot's account is the number of references that    *)
(* somebody holds on it; CountInv says that the count and the account      *)
(* agree and where the slot is, and what that rests on: how much a         *)
(* publisher may owe, and that no view is handed out twice.                *)
(***************************************************************************)
Bit(b) == IF b THEN 1 ELSE 0

Account(s) ==
    Cardinality(Claims(s)) + Cardinality(PubHolds(s)) + Cardinality(EvictHolds(s))
        + Cardinality(SubHolds(s)) + Cardinality(ViewHolds(s))

Exact(s) == refcount[s] = Account(s)
OneHome(s) == Bit(s \in free) + Bit(refcount[s] > 0) + Cardinality(Carriers(s)) = 1

\* One publisher's part in it, by its locals.
OwedBy(rec) ==
    IF rec.pc \notin Offering THEN 0
    ELSE rec.excess + (IF rec.pc = "finish" THEN 0 ELSE MaxSubs - rec.ring)
                    + (IF rec.pc \in Undecided THEN 1 ELSE 0)
Share(rec, s)   == IF rec.slot = s THEN OwedBy(rec) ELSE 0
Evicts(rec, s)  == rec.pc = "release" /\ rec.prev = s
Carries(rec, s) == \/ rec.pc \in {"reserved", "recycle"} /\ rec.slot = s
                   \/ rec.pc = "push" /\ rec.prev = s

\* One subscriber's part in it.
Pins(rec, s) == rec.pc \in {"check", "unpin", "unref"} /\ rec.slot = s

\* A publisher sets aside at most one reference for each ring it has been to.
Fits(rec) ==
    /\ rec.pc \in {"idle", "reserved"} => rec.excess = 0 /\ rec.ring = 1
    /\ rec.pc \in Undecided => rec.excess < rec.ring
    /\ rec.pc \in Offering \ {"finish"} => rec.excess <= rec.ring
    /\ rec.pc = "finish" => rec.excess > 0 /\ rec.excess <= MaxSubs

ExcessFits == \A p \in Pubs : Fits(pub[p])

\* A view shows a position that was claimed, and that its holder has read past.
Looking == {"ready", "seq", "meta", "pin", "check", "unpin"}

ViewsArePast ==
    /\ \A u \in Subs : sub[u].pc \in {"seq", "meta", "pin", "check", "unpin"}
                           => sub[u].read < writePos[sub[u].ring]
    /\ \A u \in Subs : \A v \in views[u] :
           /\ v.pos < writePos[v.ring]
           /\ sub[u].pc \in Looking /\ sub[u].ring = v.ring => v.pos < sub[u].read

ViewsAreFew == \A s \in Slots : IsFiniteSet(ViewHolds(s))

SettledAreDead == settled \cap alive = {}

CountInv ==
    /\ RefcountExact /\ SlotHasOneHome
    /\ ExcessFits /\ ViewsArePast /\ ViewsAreFew /\ SettledAreDead

-----------------------------------------------------------------------------
\* Two sets that differ in at most one element.
LEMMA OneApart ==
    ASSUME NEW X, NEW Y, NEW e, IsFiniteSet(X), \A x : x # e => (x \in X <=> x \in Y)
    PROVE  /\ IsFiniteSet(Y)
           /\ Cardinality(Y) = Cardinality(X) + Bit(e \in Y) - Bit(e \in X)
<1>1. Cardinality(X) \in Nat
    BY FS_CardinalityType
<1>2. CASE e \in X /\ e \in Y
    <2>1. X = Y
        BY <1>2
    <2> QED
        BY <1>1, <1>2, <2>1 DEF Bit
<1>3. CASE e \notin X /\ e \notin Y
    <2>1. X = Y
        BY <1>3
    <2> QED
        BY <1>1, <1>3, <2>1 DEF Bit
<1>4. CASE e \in X /\ e \notin Y
    <2>1. Y = X \ {e}
        BY <1>4
    <2>2. IsFiniteSet(Y) /\ Cardinality(Y) = Cardinality(X) - 1
        BY <1>4, <2>1, FS_RemoveElement
    <2> QED
        BY <1>1, <1>4, <2>2 DEF Bit
<1>5. CASE e \notin X /\ e \in Y
    <2>1. Y = X \cup {e}
        BY <1>5
    <2>2. IsFiniteSet(Y) /\ Cardinality(Y) = Cardinality(X) + 1
        BY <1>5, <2>1, FS_AddElement
    <2> QED
        BY <1>1, <1>5, <2>2 DEF Bit
<1> QED
    BY <1>2, <1>3, <1>4, <1>5

\* As many pairs as one process has references.
LEMMA RowCount ==
    ASSUME NEW p, NEW n \in Nat
    PROVE  IsFiniteSet({p} \X (1..n)) /\ Cardinality({p} \X (1..n)) = n
<1>1. IsFiniteSet(1..n) /\ Cardinality(1..n) = n
    <2>1. 1 \in Int /\ n \in Int
        OBVIOUS
    <2>2. IsFiniteSet(1..n) /\ Cardinality(1..n) = IF 1 > n THEN 0 ELSE n - 1 + 1
        BY <2>1, FS_Interval
    <2> QED
        BY <2>2
<1>2. IsFiniteSet({p}) /\ Cardinality({p}) = 1
    BY FS_Singleton
<1>3. Cardinality({p} \X (1..n)) = Cardinality({p}) * Cardinality(1..n) /\ IsFiniteSet({p} \X (1..n))
    BY <1>1, <1>2, FS_Product
<1> QED
    BY <1>1, <1>2, <1>3

\* Everybody's holdings are finite, before and after a step.
LEMMA HoldersFinite ==
    ASSUME NEW s \in Slots
    PROVE  /\ IsFiniteSet(PubHolds(s)) /\ IsFiniteSet(EvictHolds(s)) /\ IsFiniteSet(SubHolds(s))
           /\ IsFiniteSet(Carriers(s)) /\ IsFiniteSet(Claims(s))
           /\ IsFiniteSet(PubHolds(s)') /\ IsFiniteSet(EvictHolds(s)') /\ IsFiniteSet(SubHolds(s)')
           /\ IsFiniteSet(Carriers(s)') /\ IsFiniteSet(Claims(s)')
<1>1. IsFiniteSet(Pubs \X (1..MaxSubs)) /\ IsFiniteSet(Rings \X Index)
    <2>1. IsFiniteSet(1..MaxSubs) /\ IsFiniteSet(0..(Capacity - 1))
        <3>1. 1 \in Int /\ MaxSubs \in Int /\ 0 \in Int /\ Capacity - 1 \in Int
            BY SizesAssumption
        <3> QED
            BY <3>1, FS_Interval
    <2> QED
        BY <2>1, NamesAssumption, FS_Product DEF Rings, Index
<1>2. IsFiniteSet(Pubs \cup Subs)
    BY NamesAssumption, FS_Union
<1>3. /\ PubHolds(s) \subseteq Pubs \X (1..MaxSubs) /\ EvictHolds(s) \subseteq Pubs /\ SubHolds(s) \subseteq Subs
      /\ Carriers(s) \subseteq Pubs \cup Subs /\ Claims(s) \subseteq Rings \X Index
    BY DEF PubHolds, EvictHolds, SubHolds, Carriers, Claims
<1>4. /\ PubHolds(s)' \subseteq Pubs \X (1..MaxSubs) /\ EvictHolds(s)' \subseteq Pubs /\ SubHolds(s)' \subseteq Subs
      /\ Carriers(s)' \subseteq Pubs \cup Subs /\ Claims(s)' \subseteq Rings \X Index
    BY DEF PubHolds, EvictHolds, SubHolds, Carriers, Claims
<1> QED
    BY <1>1, <1>2, <1>3, <1>4, NamesAssumption, FS_Subset

-----------------------------------------------------------------------------
(***************************************************************************)
(* What a step may do to one slot's count, account and home.               *)
(***************************************************************************)
CountStays(s)   == refcount'[s] = refcount[s] /\ Account(s)' = Account(s)
Carried(s)  == Cardinality(Carriers(s))

Rests(s)    == CountStays(s) /\ (s \in free' <=> s \in free) /\ Carried(s)' = Carried(s)
TakenOff(s) == CountStays(s) /\ s \in free /\ s \notin free' /\ Carried(s)' = Carried(s) + 1
PutBack(s)  == CountStays(s) /\ s \in free' /\ Carried(s)' = Carried(s) - 1
Opened(s)   == /\ refcount'[s] = MaxSubs /\ Account(s)' = Account(s) + MaxSubs
               /\ (s \in free' <=> s \in free) /\ Carried(s)' = Carried(s) - 1
Pinned(s)   == /\ refcount[s] > 0 /\ refcount'[s] = refcount[s] + 1 /\ Account(s)' = Account(s) + 1
               /\ (s \in free' <=> s \in free) /\ Carried(s)' = Carried(s)
Dropped(s, n) ==
    /\ refcount'[s] = refcount[s] - n /\ Account(s)' = Account(s) - n
    /\ (s \in free' <=> s \in free) /\ Carried(s)' = Carried(s) + Bit(refcount[s] = n)

Balanced(s) ==
    \/ Rests(s) \/ TakenOff(s) \/ PutBack(s) \/ Opened(s) \/ Pinned(s)
    \/ \E n \in Nat \ {0} : Dropped(s, n)

\* Each keeps the books.
LEMMA BooksKept ==
    ASSUME NEW s \in Slots, Exact(s), OneHome(s), Balanced(s),
           IsFiniteSet(ViewHolds(s)), IsFiniteSet(ViewHolds(s)')
    PROVE  Exact(s)' /\ OneHome(s)'
<1>1. Account(s) \in Nat /\ Carried(s) \in Nat
    BY HoldersFinite, FS_CardinalityType, SMTT(30) DEF Account, Carried
<1>2. Account(s)' \in Nat /\ Carried(s)' \in Nat
    BY HoldersFinite, FS_CardinalityType, SMTT(30) DEF Account, Carried
<1>3. /\ refcount[s] = Account(s) /\ MaxSubs \in Nat \ {0}
      /\ Bit(s \in free) + Bit(refcount[s] > 0) + Carried(s) = 1
    BY SizesAssumption DEF Exact, OneHome, Carried
<1> SUFFICES /\ refcount'[s] = Account(s)'
             /\ Bit(s \in free') + Bit(refcount'[s] > 0) + Carried(s)' = 1
    BY DEF Exact, OneHome, Carried
<1>4. CASE Rests(s) \/ TakenOff(s) \/ PutBack(s) \/ Opened(s) \/ Pinned(s)
    BY <1>1, <1>2, <1>3, <1>4 DEF Rests, TakenOff, PutBack, Opened, Pinned, CountStays, Bit
<1>5. ASSUME NEW n \in Nat \ {0}, Dropped(s, n)
      PROVE  /\ refcount'[s] = Account(s)'
             /\ Bit(s \in free') + Bit(refcount'[s] > 0) + Carried(s)' = 1
    BY <1>1, <1>2, <1>3, <1>5 DEF Dropped, Bit
<1> QED
    BY <1>4, <1>5 DEF Balanced

\* A store to one entry's claim word moves at most one claim from one slot to another.
LEMMA ClaimMoves ==
    ASSUME TypeInv, NEW r \in Rings, NEW pos \in Nat, NEW w \in MetaWord,
           meta' = Put(meta, r, pos, w), NEW s \in Slots
    PROVE  Cardinality(Claims(s)') = Cardinality(Claims(s)) + Bit(w.slot = s) - Bit(At(meta, r, pos).slot = s)
<1> DEFINE i == pos % Capacity
           e == <<r, i>>
<1>1. i \in Index /\ meta \in [Rings -> [Index -> MetaWord]]
    BY IndexInRange DEF TypeInv, TypeOK
<1>2. meta' = [meta EXCEPT ![r][i] = w]
    BY DEF Put
<1> HIDE DEF i
<1>3. \A x \in Rings \X Index : x # e => meta'[x[1]][x[2]] = meta[x[1]][x[2]]
    <2> SUFFICES ASSUME NEW q \in Rings, NEW j \in Index, <<q, j>> # e
                 PROVE  meta'[q][j] = meta[q][j]
        OBVIOUS
    <2> QED
        BY <1>1, <1>2
<1>4. \A x : x # e => (x \in Claims(s) <=> x \in Claims(s)')
    BY <1>3 DEF Claims
<1>5. (e \in Claims(s) <=> At(meta, r, pos).slot = s) /\ (e \in Claims(s)' <=> w.slot = s)
    BY <1>1, <1>2 DEF Claims, At, i
<1>6. Cardinality(Claims(s)') = Cardinality(Claims(s)) + Bit(e \in Claims(s)') - Bit(e \in Claims(s))
    <2> HIDE DEF e
    <2> QED
        BY <1>4, HoldersFinite, OneApart
<1> QED
    BY <1>5, <1>6 DEF Bit

-----------------------------------------------------------------------------
(***************************************************************************)
(* Publishers.                                                             *)
(***************************************************************************)
\* A publisher never owes more than one reference per ring.
LEMMA OwedFits ==
    ASSUME NEW rec \in PubType, Fits(rec), NEW s
    PROVE  OwedBy(rec) \in 0..MaxSubs /\ Share(rec, s) \in 0..MaxSubs
<1>1. rec.ring \in 1..MaxSubs /\ rec.excess \in Nat /\ MaxSubs \in Nat
    BY SizesAssumption DEF PubType, Rings
<1>2. OwedBy(rec) \in 0..MaxSubs
    BY <1>1 DEF OwedBy, Fits, Undecided, Offering
<1> QED
    BY <1>1, <1>2 DEF Share

\* A publisher's step that leaves the others alone.
PubAlone(p) ==
    /\ p \in Pubs \ settled /\ settled' = settled
    /\ \A q \in Pubs : q # p => pub'[q] = pub[q]
    /\ UNCHANGED <<sub, views, pushing>>

\* It changes an account by what changes in its own part and in the claims.
LEMMA PubAccount ==
    ASSUME NEW p, PubAlone(p), pub[p] \in PubType, pub'[p] \in PubType, Fits(pub[p]), Fits(pub'[p]),
           NEW s \in Slots, IsFiniteSet(ViewHolds(s))
    PROVE  /\ IsFiniteSet(ViewHolds(s)')
           /\ Carried(s)' = Carried(s) + Bit(Carries(pub'[p], s)) - Bit(Carries(pub[p], s))
           /\ Account(s)' = Account(s) + (Cardinality(Claims(s)') - Cardinality(Claims(s)))
                             + (Share(pub'[p], s) - Share(pub[p], s))
                             + (Bit(Evicts(pub'[p], s)) - Bit(Evicts(pub[p], s)))
<1>1. ViewHolds(s)' = ViewHolds(s) /\ SubHolds(s)' = SubHolds(s)
    BY DEF PubAlone, ViewHolds, SubHolds
<1>2. Cardinality(EvictHolds(s)') = Cardinality(EvictHolds(s))
            + Bit(Evicts(pub'[p], s)) - Bit(Evicts(pub[p], s))
    <2>1. \A x : x # p => (x \in EvictHolds(s) <=> x \in EvictHolds(s)')
        BY DEF EvictHolds, PubAlone
    <2>2. /\ p \in EvictHolds(s) <=> Evicts(pub[p], s)
          /\ p \in EvictHolds(s)' <=> Evicts(pub'[p], s)
        BY DEF EvictHolds, PubAlone, Evicts
    <2>3. Cardinality(EvictHolds(s)') = Cardinality(EvictHolds(s))
                + Bit(p \in EvictHolds(s)') - Bit(p \in EvictHolds(s))
        BY <2>1, HoldersFinite, OneApart
    <2> QED
        BY <2>2, <2>3 DEF Bit
<1>3. Cardinality(Carriers(s)') = Cardinality(Carriers(s))
            + Bit(Carries(pub'[p], s)) - Bit(Carries(pub[p], s))
    <2>0. p \notin Subs
        BY NamesAssumption DEF PubAlone
    <2>1. \A x : x # p => (x \in Carriers(s) <=> x \in Carriers(s)')
        BY DEF Carriers, PubAlone
    <2>2. /\ p \in Carriers(s) <=> Carries(pub[p], s)
          /\ p \in Carriers(s)' <=> Carries(pub'[p], s)
        BY <2>0 DEF Carriers, PubAlone, Carries
    <2>3. Cardinality(Carriers(s)') = Cardinality(Carriers(s))
                + Bit(p \in Carriers(s)') - Bit(p \in Carriers(s))
        BY <2>1, HoldersFinite, OneApart
    <2> QED
        BY <2>2, <2>3 DEF Bit
<1>4. Cardinality(PubHolds(s)') = Cardinality(PubHolds(s)) + Share(pub'[p], s) - Share(pub[p], s)
    <2> DEFINE a == Share(pub[p], s)
               b == Share(pub'[p], s)
               Rest == {x \in PubHolds(s) : x[1] # p}
    <2>1. a \in 0..MaxSubs /\ b \in 0..MaxSubs /\ MaxSubs \in Nat
        BY OwedFits, SizesAssumption
    <2>2. PubHolds(s) = Rest \cup ({p} \X (1..a)) /\ Rest \cap ({p} \X (1..a)) = {}
        <3>1. \A n \in 1..MaxSubs : n <= a <=> pub[p].slot = s /\ n <= Owed(p)
            <4>1. a = IF pub[p].slot = s THEN Owed(p) ELSE 0
                BY DEF Share, OwedBy, Owed
            <4> QED
                BY <2>1, <4>1
        <3> HIDE DEF a, b
        <3>2. 1..a \subseteq 1..MaxSubs /\ \A n \in 1..MaxSubs : n <= a <=> n \in 1..a
            BY <2>1
        <3>3. \A x \in Pubs \X (1..MaxSubs) :
                 x \in PubHolds(s) /\ x[1] = p <=> x \in {p} \X (1..a)
            BY <3>1, <3>2 DEF PubHolds, PubAlone
        <3>4. PubHolds(s) \subseteq Pubs \X (1..MaxSubs) /\ {p} \X (1..a) \subseteq Pubs \X (1..MaxSubs)
            BY <3>2 DEF PubHolds, PubAlone
        <3>5. \A x \in {p} \X (1..a) : x[1] = p
            OBVIOUS
        <3> QED
            BY <3>3, <3>4, <3>5
    <2>3. PubHolds(s)' = Rest \cup ({p} \X (1..b)) /\ Rest \cap ({p} \X (1..b)) = {}
        <3>1. \A n \in 1..MaxSubs : n <= b <=> pub'[p].slot = s /\ n <= Owed(p)'
            <4>1. b = IF pub'[p].slot = s THEN Owed(p)' ELSE 0
                BY DEF Share, OwedBy, Owed
            <4> QED
                BY <2>1, <4>1
        <3>6. \A x \in Pubs \X (1..MaxSubs) : x[1] # p => (x \in PubHolds(s)' <=> x \in PubHolds(s))
            BY DEF PubHolds, PubAlone, Owed
        <3> HIDE DEF a, b
        <3>2. 1..b \subseteq 1..MaxSubs /\ \A n \in 1..MaxSubs : n <= b <=> n \in 1..b
            BY <2>1
        <3>3. \A x \in Pubs \X (1..MaxSubs) :
                 x \in PubHolds(s)' /\ x[1] = p <=> x \in {p} \X (1..b)
            BY <3>1, <3>2 DEF PubHolds, PubAlone
        <3>4. /\ PubHolds(s)' \subseteq Pubs \X (1..MaxSubs) /\ PubHolds(s) \subseteq Pubs \X (1..MaxSubs)
              /\ {p} \X (1..b) \subseteq Pubs \X (1..MaxSubs)
            BY <3>2 DEF PubHolds, PubAlone
        <3>5. \A x \in {p} \X (1..b) : x[1] = p
            OBVIOUS
        <3> QED
            BY <3>3, <3>4, <3>5, <3>6
    <2>4. IsFiniteSet(Rest)
        BY HoldersFinite, FS_Subset
    <2>5. /\ IsFiniteSet({p} \X (1..a)) /\ Cardinality({p} \X (1..a)) = a
          /\ IsFiniteSet({p} \X (1..b)) /\ Cardinality({p} \X (1..b)) = b
        <3>1. a \in Nat /\ b \in Nat
            BY <2>1
        <3> HIDE DEF a, b
        <3> QED
            BY <3>1, RowCount
    <2> HIDE DEF a, b, Rest
    <2>6. Cardinality(PubHolds(s)) = Cardinality(Rest) + a /\ Cardinality(PubHolds(s)') = Cardinality(Rest) + b
        <3>1. Cardinality({}) = 0 /\ Cardinality(Rest) \in Nat
            BY <2>4, FS_EmptySet, FS_CardinalityType
        <3>2. /\ Cardinality(Rest \cup ({p} \X (1..a))) = Cardinality(Rest) + a - Cardinality({})
              /\ Cardinality(Rest \cup ({p} \X (1..b))) = Cardinality(Rest) + b - Cardinality({})
            BY <2>2, <2>3, <2>4, <2>5, FS_Union
        <3> QED
            BY <2>1, <2>2, <2>3, <3>1, <3>2
    <2>7. Cardinality(Rest) \in Nat
        BY <2>4, FS_CardinalityType
    <2> QED
        BY <2>1, <2>6, <2>7 DEF a, b
<1>5. /\ Cardinality(Claims(s)) \in Nat /\ Cardinality(Claims(s)') \in Nat
      /\ Cardinality(EvictHolds(s)) \in Nat /\ Cardinality(PubHolds(s)) \in Nat
      /\ Cardinality(SubHolds(s)) \in Nat /\ Cardinality(ViewHolds(s)) \in Nat
    BY HoldersFinite, FS_CardinalityType
<1>6. Share(pub'[p], s) \in Int /\ Share(pub[p], s) \in Int
    BY OwedFits, SizesAssumption
<1>7. Bit(Evicts(pub'[p], s)) \in Int /\ Bit(Evicts(pub[p], s)) \in Int
    BY DEF Bit
<1> QED
    BY <1>1, <1>2, <1>3, <1>4, <1>5, <1>6, <1>7 DEF Account, Carried

\* Moving on to the next ring keeps what is owed.
LEMMA NextRingOwes ==
    ASSUME NEW rec \in PubType, rec.excess <= rec.ring, rec.slot \in Slots
    PROVE  /\ Fits(NextRing(rec)) /\ NextRing(rec).pc \in {"ring", "finish", "idle"}
           /\ OwedBy(NextRing(rec)) = rec.excess + MaxSubs - rec.ring
           /\ NextRing(rec).slot = rec.slot \/ OwedBy(NextRing(rec)) = 0
<1> DEFINE next == [PubIdle(rec.num) EXCEPT !.slot = rec.slot, !.excess = rec.excess]
<1>1. rec.ring \in 1..MaxSubs /\ rec.excess \in Nat /\ MaxSubs \in Nat \ {0} /\ rec.num \in Nat
    BY SizesAssumption DEF PubType, Rings
<1>2. next \in PubType /\ next.slot = rec.slot /\ next.excess = rec.excess /\ next.ring = 1
    BY <1>1, PubIdleType DEF PubIdle, PubType
<1>3. CASE rec.ring < MaxSubs
    <2> DEFINE on == [next EXCEPT !.pc = "ring", !.ring = rec.ring + 1]
    <2>1. NextRing(rec) = on
        BY <1>3 DEF NextRing
    <2> HIDE DEF next
    <2>2. on.pc = "ring" /\ on.ring = rec.ring + 1 /\ on.excess = rec.excess /\ on.slot = rec.slot
        BY <1>2 DEF PubType
    <2> HIDE DEF on
    <2> QED
        BY <1>1, <1>3, <2>1, <2>2 DEF Fits, OwedBy, Undecided, Offering
<1>4. CASE ~(rec.ring < MaxSubs) /\ rec.excess > 0
    <2> DEFINE on == [next EXCEPT !.pc = "finish"]
    <2>1. NextRing(rec) = on
        BY <1>4 DEF NextRing
    <2> HIDE DEF next
    <2>2. on.pc = "finish" /\ on.ring = 1 /\ on.excess = rec.excess /\ on.slot = rec.slot
        BY <1>2 DEF PubType
    <2> HIDE DEF on
    <2> QED
        BY <1>1, <1>4, <2>1, <2>2 DEF Fits, OwedBy, Undecided, Offering
<1>5. CASE ~(rec.ring < MaxSubs) /\ ~(rec.excess > 0)
    <2>1. NextRing(rec) = PubIdle(rec.num + 1)
        BY <1>5 DEF NextRing
    <2>2. NextRing(rec).pc = "idle" /\ NextRing(rec).excess = 0 /\ NextRing(rec).ring = 1
        BY <2>1 DEF PubIdle
    <2> QED
        BY <1>1, <1>5, <2>2 DEF Fits, OwedBy, Undecided, Offering
<1> QED
    BY <1>3, <1>4, <1>5

\* Points of the program where a publisher has nothing in hand but its own slot's references.
EmptyHands == PubPCs \ {"reserved", "recycle", "release", "push"}

\* A step that moves no reference.
KeepsRefs(p) ==
    /\ UNCHANGED <<refcount, free, meta>>
    /\ pub[p].pc \in EmptyHands /\ pub'[p].pc \in EmptyHands
    /\ OwedBy(pub'[p]) = OwedBy(pub[p])
    /\ pub'[p].slot = pub[p].slot \/ OwedBy(pub[p]) = 0

MovesNoRef(p) ==
    \/ AllocateFails(p) \/ Admit(p) \/ PassRing(p) \/ ClaimPos(p)
    \/ WaitFirst(p) \/ WaitDone(p) \/ WaitTimeout(p) \/ LockEntry(p) \/ LockRetry(p) \/ LockGiveUp(p)
    \/ HealLook(p) \/ HealSteal(p) \/ HealSkip(p) \/ CheckLock(p) \/ Commit(p) \/ LeaveRing(p)
    \/ (TakeClaim(p) /\ ~MetaPrecedes(PubMeta(p), pub[p].pos))

\* Most actions are such steps.
LEMMA PubKeepsRefs ==
    ASSUME TypeInv, NEW p \in Pubs, Fits(pub[p]), MovesNoRef(p)
    PROVE  Fits(pub'[p]) /\ KeepsRefs(p)
<1> USE DEF PubAt, Goto, Keep, EmptyHands
<1> DEFINE old == pub[p]
           new == pub'[p]
           Plain == /\ new.slot = old.slot /\ new.ring = old.ring /\ new.pc \in PubPCs
                    /\ UNCHANGED <<refcount, free, meta>>
<1>1. /\ pub \in [Pubs -> PubType] /\ old \in PubType /\ (old.pc # "idle" => old.slot \in Slots)
      /\ old.pc \in PubPCs /\ old.ring \in Nat /\ old.excess \in Nat /\ MaxSubs \in Nat \ {0}
    <2>1. pub \in [Pubs -> PubType] /\ old \in PubType /\ (old.pc # "idle" => old.slot \in Slots)
        BY DEF TypeInv, TypeOK, Shape
    <2> QED
        BY <2>1, SizesAssumption DEF PubType, Rings
<1>2. CASE /\ Plain /\ new.excess = old.excess
           /\ \/ old.pc = "idle" /\ new.pc = "idle"
              \/ old.pc \in Undecided /\ new.pc \in Undecided
              \/ /\ old.pc \in {"heal", "steal", "skip", "commit"} /\ new.pc \in {"steal", "skip", "leave"}
    BY <1>1, <1>2 DEF Fits, KeepsRefs, OwedBy, Undecided, Offering, PubPCs
<1>3. CASE /\ Plain /\ new.excess = old.excess + 1
           /\ old.pc \in Undecided /\ new.pc \in {"heal", "leave"}
    BY <1>1, <1>3 DEF Fits, KeepsRefs, OwedBy, Undecided, Offering, PubPCs
<1> USE DEF Undecided, PubPCs
<1>4. CASE AllocateFails(p)
    BY <1>1, <1>2, <1>4 DEF AllocateFails, slotVars, entryVars, PubType
<1>5. CASE Admit(p) \/ ClaimPos(p)
    BY <1>1, <1>2, <1>5 DEF Admit, ClaimPos, slotVars, entryVars, PubType
<1>6. CASE WaitFirst(p) \/ WaitDone(p) \/ WaitTimeout(p)
    BY <1>1, <1>2, <1>6 DEF WaitFirst, WaitDone, WaitTimeout, WaitEnds, slotVars, entryVars, PubType
<1>7. CASE LockEntry(p) \/ LockRetry(p)
    BY <1>1, <1>2, <1>7 DEF LockEntry, LockRetry, slotVars, entryVars, PubType
<1>8. CASE HealLook(p) \/ HealSteal(p) \/ HealSkip(p) \/ Commit(p)
    BY <1>1, <1>2, <1>8 DEF HealLook, HealSteal, HealSkip, Commit, slotVars, entryVars, PubType
<1>9. CASE LockGiveUp(p) \/ CheckLock(p) \/ (TakeClaim(p) /\ ~MetaPrecedes(PubMeta(p), pub[p].pos))
    BY <1>1, <1>2, <1>3, <1>9 DEF LockGiveUp, CheckLock, TakeClaim, slotVars, entryVars, PubType
<1>10. CASE PassRing(p)
    <2> DEFINE rec == [pub[p] EXCEPT !.excess = @ + 1]
    <2>1. new = NextRing(rec) /\ old.pc = "ring" /\ UNCHANGED <<refcount, free, meta>>
        BY <1>1, <1>10 DEF PassRing, slotVars, entryVars
    <2>2. /\ rec \in PubType /\ rec.slot = old.slot /\ old.slot \in Slots /\ rec.excess = old.excess + 1
          /\ rec.ring = old.ring
        BY <1>1, <2>1 DEF PubType
    <2> HIDE DEF rec
    <2>3. rec.excess <= rec.ring /\ OwedBy(old) = rec.excess + MaxSubs - rec.ring
        BY <1>1, <2>1, <2>2 DEF Fits, OwedBy, Offering
    <2> QED
        BY <2>1, <2>2, <2>3, NextRingOwes DEF KeepsRefs
<1>11. CASE LeaveRing(p)
    <2>1. new = NextRing(old) /\ old.pc = "leave" /\ UNCHANGED <<refcount, free, meta>>
        BY <1>1, <1>11 DEF LeaveRing, slotVars, entryVars
    <2>2. old.excess <= old.ring /\ OwedBy(old) = old.excess + MaxSubs - old.ring /\ old.slot \in Slots
        BY <1>1, <2>1 DEF Fits, OwedBy, Offering
    <2> QED
        BY <1>1, <2>1, <2>2, NextRingOwes DEF KeepsRefs
<1> HIDE DEF PubAt, Goto, Keep, EmptyHands, Undecided, PubPCs
<1> QED
    BY <1>4, <1>5, <1>6, <1>7, <1>8, <1>9, <1>10, <1>11 DEF MovesNoRef

\* Publisher steps balance every slot's account.
LEMMA PubBooks ==
    ASSUME TypeInv, CountInv, NEW p \in Pubs, PubNext(p), NEW s \in Slots
    PROVE  Fits(pub'[p]) /\ IsFiniteSet(ViewHolds(s)') /\ Balanced(s)
<1> USE DEF PubAt, Goto
<1> DEFINE old == pub[p]
           new == pub'[p]
<1>1. /\ pub \in [Pubs -> PubType] /\ old \in PubType /\ (old.pc # "idle" => old.slot \in Slots)
      /\ old.pc \in {"release", "push"} => old.prev \in Slots
      /\ refcount \in [Slots -> Int] /\ meta \in [Rings -> [Index -> MetaWord]]
      /\ Fits(old) /\ IsFiniteSet(ViewHolds(s)) /\ Exact(s) /\ OneHome(s)
    BY DEF TypeInv, TypeOK, Shape, CountInv, ExcessFits, ViewsAreFew, RefcountExact, SlotHasOneHome, Exact,
        OneHome, Account, Bit
<1>2. /\ old.ring \in 1..MaxSubs /\ old.excess \in Nat /\ MaxSubs \in Nat \ {0} /\ old.pos \in Nat
      /\ old.ring \in Rings /\ old.pc \in PubPCs /\ old.num \in Nat
    BY <1>1, SizesAssumption DEF PubType, Rings
<1>3. new \in PubType /\ \A q \in Pubs : q # p => pub'[q] = pub[q]
    BY PubStepMoves, <1>1 DEF PubMoves
<1>4. PubAlone(p)
    <2>1. p \in alive /\ UNCHANGED <<sub, views, pushing, settled>>
        BY DEF PubNext, PubStep, ringVars, entryVars, slotVars, subVars, ghostVars, Allocate,
            AllocateFails, ReleasePending, Preset, Admit, PassRing, ClaimPos, WaitFirst, WaitDone,
            WaitTimeout, LockEntry, LockRetry, LockGiveUp, HealLook, HealSteal, HealSkip, CheckLock,
            TakeClaim, ReleasePrev, PushPrev, Commit, LeaveRing, Finish, Recycle
    <2> QED
        BY <1>3, <2>1 DEF PubAlone, CountInv, SettledAreDead
<1>5. Fits(new) =>
          /\ IsFiniteSet(ViewHolds(s)')
          /\ Carried(s)' = Carried(s) + Bit(Carries(new, s)) - Bit(Carries(old, s))
          /\ Account(s)' = Account(s) + (Cardinality(Claims(s)') - Cardinality(Claims(s)))
                           + (Share(new, s) - Share(old, s)) + (Bit(Evicts(new, s)) - Bit(Evicts(old, s)))
    BY <1>1, <1>3, <1>4, PubAccount
<1>6. Cardinality(Claims(s)) \in Nat /\ Account(s) \in Nat /\ Carried(s) \in Nat
    BY <1>1, HoldersFinite, FS_CardinalityType, SMTT(30) DEF Account, Carried
<1>7. meta' = meta => Cardinality(Claims(s)') = Cardinality(Claims(s))
    BY DEF Claims
<1>8. Fits(new) => Share(old, s) \in 0..MaxSubs /\ Share(new, s) \in 0..MaxSubs
    BY <1>1, <1>3, OwedFits
<1>9. CASE MovesNoRef(p)
    <2>1. Fits(new) /\ KeepsRefs(p)
        BY <1>1, <1>9, PubKeepsRefs
    <2>2. /\ Share(new, s) = Share(old, s)
          /\ Carries(new, s) = Carries(old, s) /\ Evicts(new, s) = Evicts(old, s)
        BY <2>1 DEF KeepsRefs, Share, Carries, Evicts, EmptyHands
    <2>3. Rests(s)
        BY <1>5, <1>6, <1>7, <1>8, <2>1, <2>2 DEF KeepsRefs, Rests, CountStays, Bit
    <2> QED
        BY <1>5, <2>1, <2>3 DEF Balanced
<1>10. CASE Allocate(p)
    <2>1. PICK x \in free : /\ free' = free \ {x} /\ refcount' = refcount /\ meta' = meta
                            /\ new.pc = "reserved" /\ new.slot = x /\ new.excess = old.excess
                            /\ new.ring = old.ring /\ old.pc = "idle"
        BY <1>1, <1>10 DEF Allocate, entryVars, PubType
    <2>2. Fits(new)
        BY <1>1, <2>1 DEF Fits, Undecided, Offering
    <2>3. /\ Share(new, s) = 0 /\ Share(old, s) = 0 /\ ~Evicts(new, s) /\ ~Evicts(old, s)
          /\ ~Carries(old, s) /\ (Carries(new, s) <=> s = x)
        BY <2>1 DEF Share, OwedBy, Evicts, Carries, Offering
    <2>4. IF s = x THEN TakenOff(s) ELSE Rests(s)
        BY <1>5, <1>6, <1>7, <2>1, <2>2, <2>3 DEF TakenOff, Rests, CountStays, Bit
    <2> QED
        BY <1>5, <2>2, <2>4 DEF Balanced
<1>11. CASE ReleasePending(p) \/ Recycle(p)
    <2>1. /\ free' = free \cup {old.slot} /\ refcount' = refcount /\ meta' = meta
          /\ new = PubIdle(old.num + 1) /\ old.pc \in {"reserved", "recycle"}
        BY <1>1, <1>11 DEF ReleasePending, Recycle, entryVars
    <2>2. new.pc = "idle" /\ new.excess = 0 /\ new.ring = 1
        BY <2>1 DEF PubIdle
    <2>3. Fits(new)
        BY <2>2 DEF Fits, Undecided, Offering
    <2>4. /\ Share(new, s) = 0 /\ Share(old, s) = 0 /\ ~Evicts(new, s) /\ ~Evicts(old, s)
          /\ ~Carries(new, s) /\ (Carries(old, s) <=> s = old.slot)
        BY <2>1, <2>2 DEF Share, OwedBy, Evicts, Carries, Offering
    <2>5. IF s = old.slot THEN PutBack(s) ELSE Rests(s)
        BY <1>5, <1>6, <1>7, <2>1, <2>3, <2>4 DEF PutBack, Rests, CountStays, Bit
    <2> QED
        BY <1>5, <2>3, <2>5 DEF Balanced
<1>12. CASE Preset(p)
    <2>1. /\ free' = free /\ refcount' = [refcount EXCEPT ![old.slot] = MaxSubs] /\ meta' = meta
          /\ old.pc = "reserved" /\ new.pc = "ring" /\ new.slot = old.slot /\ new.excess = old.excess
          /\ new.ring = old.ring
        BY <1>1, <1>12 DEF Preset, entryVars, PubType
    <2>2. old.excess = 0 /\ old.ring = 1 /\ Fits(new)
        BY <1>1, <1>2, <2>1 DEF Fits, Undecided, Offering
    <2>3. /\ Share(old, s) = 0 /\ Share(new, s) = (IF s = old.slot THEN MaxSubs ELSE 0)
          /\ ~Evicts(new, s) /\ ~Evicts(old, s)
          /\ ~Carries(new, s) /\ (Carries(old, s) <=> s = old.slot)
        BY <1>2, <2>1, <2>2 DEF Share, OwedBy, Evicts, Carries, Offering, Undecided
    <2>4. CASE s = old.slot
        <3>1. Opened(s)
            BY <1>1, <1>2, <1>5, <1>6, <1>7, <2>1, <2>2, <2>3, <2>4 DEF Opened, Bit
        <3> QED
            BY <1>5, <2>2, <3>1 DEF Balanced
    <2>5. CASE s # old.slot
        <3>1. Rests(s)
            BY <1>1, <1>2, <1>5, <1>6, <1>7, <2>1, <2>2, <2>3, <2>5 DEF Rests, CountStays, Bit
        <3> QED
            BY <1>5, <2>2, <3>1 DEF Balanced
    <2> QED
        BY <2>4, <2>5
<1>13. CASE ReleasePrev(p)
    <2>1. /\ free' = free /\ refcount' = [refcount EXCEPT ![old.prev] = @ - 1] /\ meta' = meta
          /\ old.pc = "release" /\ new.slot = old.slot /\ new.excess = old.excess /\ new.ring = old.ring
          /\ IF refcount[old.prev] = 1 THEN new.pc = "push" /\ new.prev = old.prev
                                       ELSE new.pc = "commit"
        BY <1>1, <1>13 DEF ReleasePrev, Drop, entryVars, PubType
    <2>2. Fits(new) /\ Share(new, s) = Share(old, s)
        BY <1>1, <2>1 DEF Fits, Share, OwedBy, Undecided, Offering
    <2>3. /\ ~Evicts(new, s) /\ (Evicts(old, s) <=> s = old.prev) /\ ~Carries(old, s)
          /\ (Carries(new, s) <=> s = old.prev /\ refcount[s] = 1)
        BY <2>1 DEF Evicts, Carries
    <2>4. CASE s = old.prev
        <3>1. Dropped(s, 1)
            BY <1>1, <1>5, <1>6, <1>7, <1>8, <2>1, <2>2, <2>3, <2>4 DEF Dropped, Bit
        <3> QED
            BY <1>5, <2>2, <3>1 DEF Balanced
    <2>5. CASE s # old.prev
        <3>1. Rests(s)
            BY <1>1, <1>5, <1>6, <1>7, <1>8, <2>1, <2>2, <2>3, <2>5 DEF Rests, CountStays, Bit
        <3> QED
            BY <1>5, <2>2, <3>1 DEF Balanced
    <2> QED
        BY <2>4, <2>5
<1>14. CASE PushPrev(p)
    <2>1. /\ free' = free \cup {old.prev} /\ refcount' = refcount /\ meta' = meta
          /\ old.pc = "push" /\ new.pc = "commit" /\ new.slot = old.slot /\ new.excess = old.excess
          /\ new.ring = old.ring
        BY <1>1, <1>14 DEF PushPrev, entryVars, PubType
    <2>2. Fits(new) /\ Share(new, s) = Share(old, s)
        BY <1>1, <2>1 DEF Fits, Share, OwedBy, Undecided, Offering
    <2>3. /\ ~Evicts(new, s) /\ ~Evicts(old, s) /\ ~Carries(new, s) /\ (Carries(old, s) <=> s = old.prev)
        BY <2>1 DEF Evicts, Carries
    <2>4. IF s = old.prev THEN PutBack(s) ELSE Rests(s)
        BY <1>5, <1>6, <1>7, <1>8, <2>1, <2>2, <2>3 DEF PutBack, Rests, CountStays, Bit
    <2> QED
        BY <1>5, <2>2, <2>4 DEF Balanced
<1>15. CASE Finish(p)
    <2>1. /\ free' = free /\ refcount' = [refcount EXCEPT ![old.slot] = @ - old.excess] /\ meta' = meta
          /\ old.pc = "finish"
          /\ IF refcount[old.slot] = old.excess THEN new = [old EXCEPT !.pc = "recycle"]
                                                ELSE new = PubIdle(old.num + 1)
        BY <1>1, <1>15 DEF Finish, Drop, entryVars, PubType
    <2>2. IF refcount[old.slot] = old.excess THEN new.pc = "recycle" /\ new.slot = old.slot
          ELSE new.pc = "idle" /\ new.excess = 0 /\ new.ring = 1
        BY <1>1, <2>1 DEF PubIdle, PubType
    <2>3. Fits(new) /\ Share(new, s) = 0 /\ Share(old, s) = (IF s = old.slot THEN old.excess ELSE 0)
        BY <1>2, <2>1, <2>2 DEF Fits, Share, OwedBy, Undecided, Offering
    <2>4. /\ ~Evicts(new, s) /\ ~Evicts(old, s) /\ ~Carries(old, s)
          /\ (Carries(new, s) <=> s = old.slot /\ refcount[s] = old.excess)
        BY <2>1, <2>2 DEF Evicts, Carries
    <2>5. CASE s = old.slot /\ old.excess > 0
        <3>1. Dropped(s, old.excess)
            BY <1>1, <1>2, <1>5, <1>6, <1>7, <2>1, <2>3, <2>4, <2>5 DEF Dropped, Bit
        <3> QED
            BY <1>2, <1>5, <2>3, <2>5, <3>1 DEF Balanced
    <2>6. CASE s # old.slot
        <3>1. Rests(s)
            BY <1>1, <1>2, <1>5, <1>6, <1>7, <2>1, <2>3, <2>4, <2>6 DEF Rests, CountStays, Bit
        <3> QED
            BY <1>5, <2>3, <3>1 DEF Balanced
    <2>7. old.excess > 0
        BY <1>1, <1>2, <2>1 DEF Fits
    <2> QED
        BY <2>5, <2>6, <2>7
<1>16. CASE TakeClaim(p) /\ MetaPrecedes(PubMeta(p), old.pos)
    <2> DEFINE m == PubMeta(p)
               w == MetaClaim(old.pos, old.slot)
    <2>1. /\ free' = free /\ refcount' = refcount /\ meta' = Put(meta, old.ring, old.pos, w)
          /\ old.pc = "take" /\ new.slot = old.slot /\ new.excess = old.excess /\ new.ring = old.ring
          /\ new.prev = m.slot /\ new.pc = IF m.slot = NoSlot THEN "commit" ELSE "release"
        BY <1>1, <1>16 DEF TakeClaim, slotVars, PubType
    <2>2. w \in MetaWord /\ w.slot = old.slot /\ s # NoSlot
        BY <1>1, <1>2, <2>1, WordTypes, NamesAssumption DEF MetaClaim
    <2> HIDE DEF m, w
    <2>3. Cardinality(Claims(s)') = Cardinality(Claims(s)) + Bit(old.slot = s) - Bit(m.slot = s)
        BY <1>2, <2>1, <2>2, ClaimMoves DEF PubMeta, m
    <2>4. Fits(new) /\ Share(old, s) = Share(new, s) + Bit(old.slot = s)
        BY <1>1, <1>2, <2>1 DEF Fits, Share, OwedBy, Undecided, Offering, Bit
    <2>5. ~Evicts(old, s) /\ (Evicts(new, s) <=> m.slot = s) /\ ~Carries(old, s) /\ ~Carries(new, s)
        BY <2>1, <2>2 DEF Evicts, Carries
    <2>6. Rests(s)
        BY <1>5, <1>6, <1>8, <2>1, <2>3, <2>4, <2>5 DEF Rests, CountStays, Bit
    <2> QED
        BY <1>5, <2>4, <2>6 DEF Balanced
<1> HIDE DEF PubAt, Goto
<1> QED
    BY <1>9, <1>10, <1>11, <1>12, <1>13, <1>14, <1>15, <1>16 DEF PubNext, PubStep, MovesNoRef

-----------------------------------------------------------------------------
(***************************************************************************)
(* Subscribers.                                                            *)
(***************************************************************************)
\* A subscriber's step that leaves the others alone and touches at most view v.
SubAlone(u, v) ==
    /\ u \in Subs \ settled /\ settled' = settled /\ pub' = pub
    /\ \A q \in Subs : q # u => sub'[q] = sub[q] /\ views'[q] = views[q] /\ pushing'[q] = pushing[q]
    /\ \A x : x # v => (x \in views[u] <=> x \in views'[u])

\* It changes an account by what changes in its pin, that view and the claims.
LEMMA SubAccount ==
    ASSUME NEW u, NEW v, SubAlone(u, v), NEW s \in Slots, IsFiniteSet(ViewHolds(s))
    PROVE  /\ IsFiniteSet(ViewHolds(s)')
           /\ Carried(s)' = Carried(s) + Bit(s \in pushing'[u]) - Bit(s \in pushing[u])
           /\ Account(s)' = Account(s) + (Cardinality(Claims(s)') - Cardinality(Claims(s)))
                             + (Bit(Pins(sub'[u], s)) - Bit(Pins(sub[u], s)))
                             + (Bit(v \in views'[u] /\ v.slot = s) - Bit(v \in views[u] /\ v.slot = s))
<1>1. PubHolds(s)' = PubHolds(s) /\ EvictHolds(s)' = EvictHolds(s)
    BY DEF SubAlone, PubHolds, EvictHolds, Owed
<1>2. Cardinality(SubHolds(s)') = Cardinality(SubHolds(s)) + Bit(Pins(sub'[u], s)) - Bit(Pins(sub[u], s))
    <2>1. \A x : x # u => (x \in SubHolds(s) <=> x \in SubHolds(s)')
        BY DEF SubHolds, SubAlone
    <2>2. (u \in SubHolds(s) <=> Pins(sub[u], s)) /\ (u \in SubHolds(s)' <=> Pins(sub'[u], s))
        BY DEF SubHolds, SubAlone, Pins
    <2>3. Cardinality(SubHolds(s)') = Cardinality(SubHolds(s)) + Bit(u \in SubHolds(s)') - Bit(u \in SubHolds(s))
        BY <2>1, HoldersFinite, OneApart
    <2> QED
        BY <2>2, <2>3 DEF Bit
<1>3. Cardinality(Carriers(s)') = Cardinality(Carriers(s)) + Bit(s \in pushing'[u]) - Bit(s \in pushing[u])
    <2>0. u \notin Pubs
        BY NamesAssumption DEF SubAlone
    <2>1. \A x : x # u => (x \in Carriers(s) <=> x \in Carriers(s)')
        BY DEF Carriers, SubAlone
    <2>2. (u \in Carriers(s) <=> s \in pushing[u]) /\ (u \in Carriers(s)' <=> s \in pushing'[u])
        BY <2>0 DEF Carriers, SubAlone
    <2>3. Cardinality(Carriers(s)') = Cardinality(Carriers(s)) + Bit(u \in Carriers(s)') - Bit(u \in Carriers(s))
        BY <2>1, HoldersFinite, OneApart
    <2> QED
        BY <2>2, <2>3 DEF Bit
<1>4. /\ IsFiniteSet(ViewHolds(s)')
      /\ Cardinality(ViewHolds(s)') = Cardinality(ViewHolds(s))
             + Bit(v \in views'[u] /\ v.slot = s) - Bit(v \in views[u] /\ v.slot = s)
    <2> DEFINE e == <<u, v>>
    <2>1. \A x : x \in ViewHolds(s) <=> \E q \in Subs \ settled : \E y \in views[q] : x = <<q, y>> /\ y.slot = s
        BY DEF ViewHolds
    <2>2. \A x : x \in ViewHolds(s)' <=> \E q \in Subs \ settled : \E y \in views'[q] : x = <<q, y>> /\ y.slot = s
        BY DEF ViewHolds, SubAlone
    <2>3. \A q \in Subs \ settled : \A y : <<q, y>> # e => (y \in views[q] <=> y \in views'[q])
        BY DEF SubAlone
    <2>4. \A x : x # e => (x \in ViewHolds(s) <=> x \in ViewHolds(s)')
        BY <2>1, <2>2, <2>3
    <2>5. /\ e \in ViewHolds(s) <=> v \in views[u] /\ v.slot = s
          /\ e \in ViewHolds(s)' <=> v \in views'[u] /\ v.slot = s
        BY <2>1, <2>2 DEF SubAlone
    <2>6. /\ IsFiniteSet(ViewHolds(s)')
          /\ Cardinality(ViewHolds(s)') = Cardinality(ViewHolds(s)) + Bit(e \in ViewHolds(s)') - Bit(e \in ViewHolds(s))
        <3> HIDE DEF e
        <3> QED
            BY <2>4, OneApart
    <2> QED
        BY <2>5, <2>6 DEF Bit
<1>5. /\ Cardinality(Claims(s)) \in Nat /\ Cardinality(Claims(s)') \in Nat
      /\ Cardinality(EvictHolds(s)) \in Nat /\ Cardinality(PubHolds(s)) \in Nat
      /\ Cardinality(SubHolds(s)) \in Nat /\ Cardinality(ViewHolds(s)) \in Nat
    BY HoldersFinite, FS_CardinalityType
<1>6. \A b : Bit(b) \in Int
    BY DEF Bit
<1> QED
    BY <1>1, <1>2, <1>3, <1>4, <1>5, <1>6 DEF Account, Carried

\* The steps of a subscriber that move no reference.
SubMovesNoRef(u) ==
    \/ Join(u) \/ JoinFloor(u) \/ JoinClaim(u) \/ JoinNext(u) \/ JoinOwn(u) \/ JoinSeek(u)
    \/ Poll(u) \/ LookSeq(u) \/ LookMeta(u) \/ Overtaken(u) \/ (Pin(u) /\ ~Pinnable(sub[u].slot))
    \/ Leave(u) \/ Quiesced(u) \/ QuiesceTimeout(u) \/ ClearOwner(u) \/ DrainWindow(u) \/ DrainLook(u)
    \/ (DrainClear(u) /\ At(meta, sub[u].ring, sub[u].pos) # sub[u].claim)
    \/ FreeRing(u) \/ RetireRing(u)

\* They leave counts, claims, views and pins as they are.
LEMMA SubKeepsRefs ==
    ASSUME TypeInv, NEW u \in Subs, SubMovesNoRef(u), NEW s
    PROVE  /\ UNCHANGED <<refcount, free, meta, views, pushing>>
           /\ Pins(sub'[u], s) <=> Pins(sub[u], s)
<1> USE DEF SubAt, GotoSub
<1> DEFINE old == sub[u]
           new == sub'[u]
           Apart == {"check", "unpin", "unref"}
<1>1. sub \in [Subs -> SubType] /\ old \in SubType
    BY SMTT(30) DEF TypeInv, TypeOK
<1>2. UNCHANGED <<refcount, free, meta, views, pushing>>
    BY DEF SubMovesNoRef, Join, JoinFloor, JoinClaim, JoinNext, JoinOwn, JoinSeek, Poll, LookSeq,
        LookMeta, Overtaken, Pin, Leave, Quiesced, QuiesceTimeout, ClearOwner, DrainWindow, DrainLook,
        DrainClear, FreeRing, RetireRing, entryVars, slotVars
<1>3. \/ old.pc \notin Apart /\ new.pc \notin Apart
      \/ old.pc = "check" /\ new.pc = "unpin" /\ new.slot = old.slot
    <2>1. CASE Join(u) \/ JoinFloor(u) \/ JoinClaim(u) \/ JoinOwn(u) \/ JoinSeek(u) \/ Poll(u)
        BY <1>1, <2>1 DEF Join, JoinFloor, Floor, JoinClaim, JoinOwn, JoinSeek, Poll, SubType
    <2>2. CASE JoinNext(u) \/ FreeRing(u) \/ RetireRing(u)
        <3>1. /\ old.pc \in {"cas", "drain", "retire"}
              /\ \/ new = SubOut(old.joins + 1) \/ new = [old EXCEPT !.pc = "join", !.ring = old.ring + 1]
            BY <1>1, <2>2 DEF JoinNext, FreeRing, RetireRing
        <3>2. SubOut(old.joins + 1).pc = "out" /\ [old EXCEPT !.pc = "join", !.ring = old.ring + 1].pc = "join"
            BY <1>1 DEF SubOut, SubType
        <3> QED
            BY <3>1, <3>2
    <2>3. CASE LookSeq(u)
        <3>1. GotoSub(u, "meta") \/ GotoSub(u, "ready") \/ Lose(u)
            BY <2>3 DEF LookSeq
        <3> QED
            BY <1>1, <2>3, <3>1 DEF LookSeq, Lose, SubType
    <2>4. CASE LookMeta(u) \/ Overtaken(u) \/ (Pin(u) /\ ~Pinnable(sub[u].slot))
        BY <1>1, <2>4 DEF LookMeta, Overtaken, Pin, Lose, SubType
    <2>5. CASE Leave(u) \/ Quiesced(u) \/ QuiesceTimeout(u) \/ ClearOwner(u) \/ DrainWindow(u)
        BY <1>1, <2>5 DEF Leave, Quiesced, QuiesceTimeout, ClearOwner, DrainWindow, SubType
    <2>6. CASE DrainLook(u)
        BY <1>1, <2>6 DEF DrainLook, SubType
    <2>7. CASE DrainClear(u) /\ At(meta, sub[u].ring, sub[u].pos) # sub[u].claim
        <3>1. old.pc = "unclaim"
            BY <2>7 DEF DrainClear
        <3>2. sub' = [sub EXCEPT ![u] = [[old EXCEPT !.claim = MetaZero] EXCEPT !.pc = "drain", !.pos = @ + 1]]
            BY <2>7 DEF DrainClear
        <3>3. new.pc = "drain"
            BY <1>1, <3>2 DEF SubType
        <3> QED
            BY <3>1, <3>3
    <2> QED
        BY <2>1, <2>2, <2>3, <2>4, <2>5, <2>6, <2>7 DEF SubMovesNoRef
<1> QED
    BY <1>2, <1>3 DEF Pins

\* Subscriber steps balance every slot's account.
LEMMA SubBooks ==
    ASSUME TypeInv, CountInv, NEW u \in Subs, SubNext(u), NEW s \in Slots
    PROVE  IsFiniteSet(ViewHolds(s)') /\ Balanced(s)
<1> USE DEF SubAt, GotoSub
<1> DEFINE old == sub[u]
           new == sub'[u]
           Goal == IsFiniteSet(ViewHolds(s)') /\ Balanced(s)
           shown == [slot |-> old.slot, ring |-> old.ring, pos |-> old.read]
<1>1. /\ sub \in [Subs -> SubType] /\ old \in SubType /\ views \in [Subs -> SUBSET View]
      /\ pushing \in [Subs -> SUBSET Slots]
      /\ old.pc \in {"pin", "check", "unpin", "unref"} => old.slot \in Slots
      /\ old.pc = "unclaim" => old.claim.slot \in Slots
      /\ refcount \in [Slots -> Int] /\ IsFiniteSet(ViewHolds(s)) /\ Exact(s) /\ OneHome(s)
    BY DEF TypeInv, TypeOK, Shape, CountInv, ViewsAreFew, RefcountExact, SlotHasOneHome, Exact,
        OneHome, Account, Bit
<1>2. /\ old.ring \in Rings /\ old.pos \in Nat /\ old.read \in Nat /\ old.claim \in MetaWord
      /\ MetaZero \in MetaWord
    BY <1>1, WordTypes, SMTT(30) DEF SubType
<1>3. /\ u \in alive /\ u \notin settled /\ settled' = settled /\ pub' = pub
      /\ \A q \in Subs : q # u => sub'[q] = sub[q] /\ views'[q] = views[q] /\ pushing'[q] = pushing[q]
    <2>1. u \in alive /\ UNCHANGED <<settled, pub>>
        BY DEF SubNext, SubStep, ringVars, entryVars, slotVars, ghostVars, Join, JoinFloor, JoinClaim,
            JoinNext, JoinOwn, JoinSeek, Poll, LookSeq, LookMeta, Pin, Deliver, Overtaken, Unpin,
            PushSlot, DropView, Leave, Quiesced, QuiesceTimeout, ClearOwner, DrainWindow, DrainLook,
            DrainClear, DrainDrop, FreeRing, RetireRing
    <2>2. \A q \in Subs : q # u => sub'[q] = sub[q]
        BY <1>1, SubStepMoves DEF SubMoves
    <2>3. \A q \in Subs : q # u => views'[q] = views[q] /\ pushing'[q] = pushing[q]
        <3>1. CASE Deliver(u) \/ Unpin(u) \/ DrainDrop(u) \/ PushSlot(u)
            BY <1>1, <3>1 DEF Deliver, Unpin, DrainDrop, PushSlot, SubDrop
        <3>2. CASE \E v \in views[u] : DropView(u, v)
            BY <1>1, <3>2 DEF DropView, SubDrop
        <3>3. CASE \/ Join(u) \/ JoinFloor(u) \/ JoinClaim(u) \/ JoinNext(u) \/ JoinOwn(u) \/ JoinSeek(u)
                   \/ Poll(u) \/ LookSeq(u) \/ LookMeta(u) \/ Overtaken(u) \/ Pin(u) \/ Leave(u)
                   \/ Quiesced(u) \/ QuiesceTimeout(u) \/ ClearOwner(u) \/ DrainWindow(u) \/ DrainLook(u)
                   \/ DrainClear(u) \/ FreeRing(u) \/ RetireRing(u)
            BY <3>3 DEF Join, JoinFloor, JoinClaim, JoinNext, JoinOwn, JoinSeek, Poll, LookSeq, LookMeta,
                Overtaken, Pin, Leave, Quiesced, QuiesceTimeout, ClearOwner, DrainWindow, DrainLook,
                DrainClear, FreeRing, RetireRing
        <3> QED
            BY <3>1, <3>2, <3>3 DEF SubNext, SubStep
    <2> QED
        BY <2>1, <2>2, <2>3 DEF CountInv, SettledAreDead
<1>4. ASSUME NEW v, \A x : x # v => (x \in views[u] <=> x \in views'[u])
      PROVE  /\ IsFiniteSet(ViewHolds(s)')
             /\ Carried(s)' = Carried(s) + Bit(s \in pushing'[u]) - Bit(s \in pushing[u])
             /\ Account(s)' = Account(s) + (Cardinality(Claims(s)') - Cardinality(Claims(s)))
                               + (Bit(Pins(new, s)) - Bit(Pins(old, s)))
                               + (Bit(v \in views'[u] /\ v.slot = s) - Bit(v \in views[u] /\ v.slot = s))
    <2>1. SubAlone(u, v)
        BY <1>3, <1>4 DEF SubAlone
    <2> QED
        BY <1>1, <2>1, SubAccount
<1>5. Cardinality(Claims(s)) \in Nat /\ Account(s) \in Nat /\ Carried(s) \in Nat
    BY <1>1, HoldersFinite, FS_CardinalityType, SMTT(30) DEF Account, Carried
<1>6. meta' = meta => Cardinality(Claims(s)') = Cardinality(Claims(s))
    BY DEF Claims
<1>7. views' = views =>
          /\ IsFiniteSet(ViewHolds(s)')
          /\ Carried(s)' = Carried(s) + Bit(s \in pushing'[u]) - Bit(s \in pushing[u])
          /\ Account(s)' = Account(s) + (Cardinality(Claims(s)') - Cardinality(Claims(s)))
                            + (Bit(Pins(new, s)) - Bit(Pins(old, s)))
    <2> SUFFICES ASSUME views' = views
                 PROVE  /\ IsFiniteSet(ViewHolds(s)')
                        /\ Carried(s)' = Carried(s) + Bit(s \in pushing'[u]) - Bit(s \in pushing[u])
                        /\ Account(s)' = Account(s) + (Cardinality(Claims(s)') - Cardinality(Claims(s)))
                                          + (Bit(Pins(new, s)) - Bit(Pins(old, s)))
        OBVIOUS
    <2>1. /\ IsFiniteSet(ViewHolds(s)')
          /\ Carried(s)' = Carried(s) + Bit(s \in pushing'[u]) - Bit(s \in pushing[u])
          /\ Account(s)' = Account(s) + (Cardinality(Claims(s)') - Cardinality(Claims(s)))
                            + (Bit(Pins(new, s)) - Bit(Pins(old, s)))
                            + (Bit(s \in views'[u] /\ s.slot = s) - Bit(s \in views[u] /\ s.slot = s))
        BY <1>4
    <2>2. Bit(s \in views'[u] /\ s.slot = s) - Bit(s \in views[u] /\ s.slot = s) = 0
        BY DEF Bit
    <2>3. Cardinality(Claims(s)) \in Nat /\ Cardinality(Claims(s)') \in Nat /\ Account(s) \in Nat
          /\ Bit(Pins(new, s)) \in Int /\ Bit(Pins(old, s)) \in Int
        BY <1>5, HoldersFinite, FS_CardinalityType DEF Bit
    <2> QED
        BY <2>1, <2>2, <2>3
<1>8. CASE SubMovesNoRef(u)
    <2>1. UNCHANGED <<refcount, free, meta, views, pushing>> /\ (Pins(new, s) <=> Pins(old, s))
        BY <1>8, SubKeepsRefs
    <2>2. Rests(s)
        BY <1>5, <1>6, <1>7, <2>1 DEF Rests, CountStays, Bit
    <2> QED
        BY <1>7, <2>1, <2>2 DEF Balanced
<1>9. CASE Pin(u) /\ Pinnable(old.slot)
    <2>1. /\ UNCHANGED <<free, meta, views, pushing>> /\ refcount[old.slot] > 0
          /\ refcount' = [refcount EXCEPT ![old.slot] = @ + 1]
          /\ old.pc = "pin" /\ new.pc = "check" /\ new.slot = old.slot
        BY <1>1, <1>9 DEF Pin, Pinnable, entryVars, SubType
    <2>2. ~Pins(old, s) /\ (Pins(new, s) <=> s = old.slot)
        BY <2>1 DEF Pins
    <2>3. IF s = old.slot THEN Pinned(s) ELSE Rests(s)
        BY <1>1, <1>5, <1>6, <1>7, <2>1, <2>2 DEF Pinned, Rests, CountStays, Bit
    <2> QED
        BY <1>7, <2>1, <2>3 DEF Balanced
<1>10. CASE Deliver(u)
    <2>1. /\ UNCHANGED <<refcount, free, meta, pushing>> /\ views'[u] = views[u] \cup {shown}
          /\ old.pc = "check" /\ new.pc = "ready"
        BY <1>1, <1>10 DEF Deliver, entryVars, slotVars, SubType
    <2>2. shown \notin views[u] /\ shown.slot = old.slot
        <3>1. \A v \in views[u] : v.ring = old.ring => v.pos < old.read
            BY <2>1 DEF CountInv, ViewsArePast, Looking
        <3>2. shown.ring = old.ring /\ shown.pos = old.read
            OBVIOUS
        <3> QED
            BY <1>2, <3>1, <3>2
    <2> HIDE DEF shown
    <2>3. ~Pins(new, s) /\ (Pins(old, s) <=> s = old.slot)
        BY <2>1 DEF Pins
    <2>4. \A x : x # shown => (x \in views[u] <=> x \in views'[u])
        BY <2>1
    <2>5. /\ IsFiniteSet(ViewHolds(s)')
          /\ Carried(s)' = Carried(s) + Bit(s \in pushing'[u]) - Bit(s \in pushing[u])
          /\ Account(s)' = Account(s) + (Cardinality(Claims(s)') - Cardinality(Claims(s)))
                            + (Bit(Pins(new, s)) - Bit(Pins(old, s)))
                            + (Bit(shown \in views'[u] /\ shown.slot = s) - Bit(shown \in views[u] /\ shown.slot = s))
        BY <1>4, <2>4
    <2>6. Rests(s)
        BY <1>5, <1>6, <2>1, <2>2, <2>3, <2>5 DEF Rests, CountStays, Bit
    <2> QED
        BY <2>5, <2>6 DEF Balanced
<1>11. CASE Unpin(u) \/ DrainDrop(u)
    <2>1. /\ UNCHANGED <<free, meta, views>> /\ refcount' = [refcount EXCEPT ![old.slot] = @ - 1]
          /\ pushing[u] = {} /\ pushing'[u] = IF refcount[old.slot] = 1 THEN {old.slot} ELSE {}
          /\ old.pc \in {"unpin", "unref"} /\ new.pc \in {"ready", "drain"}
        BY <1>1, <1>11 DEF Unpin, DrainDrop, SubDrop, Drop, Lose, entryVars, SubType
    <2>2. ~Pins(new, s) /\ (Pins(old, s) <=> s = old.slot)
        BY <2>1 DEF Pins
    <2>3. CASE s = old.slot
        <3>1. Dropped(s, 1)
            BY <1>1, <1>5, <1>6, <1>7, <2>1, <2>2, <2>3 DEF Dropped, Bit
        <3> QED
            BY <1>7, <2>1, <3>1 DEF Balanced
    <2>4. CASE s # old.slot
        <3>1. Rests(s)
            BY <1>1, <1>5, <1>6, <1>7, <2>1, <2>2, <2>4 DEF Rests, CountStays, Bit
        <3> QED
            BY <1>7, <2>1, <3>1 DEF Balanced
    <2> QED
        BY <2>3, <2>4
<1>12. ASSUME NEW v \in views[u], DropView(u, v)
       PROVE  Goal
    <2>1. /\ UNCHANGED <<free, meta, sub>> /\ refcount' = [refcount EXCEPT ![v.slot] = @ - 1]
          /\ pushing[u] = {} /\ pushing'[u] = IF refcount[v.slot] = 1 THEN {v.slot} ELSE {}
          /\ views'[u] = views[u] \ {v} /\ v.slot \in Slots
        BY <1>1, <1>12 DEF DropView, SubDrop, Drop, entryVars, View
    <2>2. \A x : x # v => (x \in views[u] <=> x \in views'[u])
        BY <2>1
    <2>3. /\ IsFiniteSet(ViewHolds(s)')
          /\ Carried(s)' = Carried(s) + Bit(s \in pushing'[u]) - Bit(s \in pushing[u])
          /\ Account(s)' = Account(s) + (Cardinality(Claims(s)') - Cardinality(Claims(s)))
                            + (Bit(Pins(new, s)) - Bit(Pins(old, s)))
                            + (Bit(v \in views'[u] /\ v.slot = s) - Bit(v \in views[u] /\ v.slot = s))
        BY <1>4, <2>2
    <2>4. CASE s = v.slot
        <3>1. Dropped(s, 1)
            BY <1>1, <1>5, <1>6, <2>1, <2>3, <2>4 DEF Dropped, Bit
        <3> QED
            BY <2>3, <3>1 DEF Balanced
    <2>5. CASE s # v.slot
        <3>1. Rests(s)
            BY <1>1, <1>5, <1>6, <2>1, <2>3, <2>5 DEF Rests, CountStays, Bit
        <3> QED
            BY <2>3, <3>1 DEF Balanced
    <2> QED
        BY <2>4, <2>5
<1>13. CASE PushSlot(u)
    <2>1. /\ UNCHANGED <<refcount, meta, views, sub>> /\ free' = free \cup pushing[u] /\ pushing'[u] = {}
        BY <1>1, <1>13 DEF PushSlot, entryVars
    <2>2. IF s \in pushing[u] THEN PutBack(s) ELSE Rests(s)
        BY <1>5, <1>6, <1>7, <2>1 DEF PutBack, Rests, CountStays, Bit
    <2> QED
        BY <1>7, <2>1, <2>2 DEF Balanced
<1>14. CASE DrainClear(u) /\ At(meta, old.ring, old.pos) = old.claim
    <2> DEFINE w == MetaCleared(old.claim)
               next == [old EXCEPT !.claim = MetaZero]
    <2>1. /\ UNCHANGED <<refcount, free, views, pushing>> /\ meta' = Put(meta, old.ring, old.pos, w)
          /\ old.pc = "unclaim" /\ new = [next EXCEPT !.pc = "unref", !.slot = old.claim.slot]
        BY <1>1, <1>14 DEF DrainClear, slotVars
    <2>2. next \in SubType
        BY <1>1, <1>2 DEF SubType
    <2>3. w \in MetaWord /\ w.slot = NoSlot /\ s # NoSlot
        BY <1>2, WordTypes, NamesAssumption DEF MetaCleared, MetaWord
    <2> HIDE DEF w, next
    <2>4. new.pc = "unref" /\ new.slot = old.claim.slot
        BY <2>1, <2>2 DEF SubType
    <2>5. Cardinality(Claims(s)') = Cardinality(Claims(s)) + Bit(w.slot = s) - Bit(old.claim.slot = s)
        BY <1>2, <1>14, <2>1, <2>3, ClaimMoves
    <2>6. ~Pins(old, s) /\ (Pins(new, s) <=> old.claim.slot = s)
        BY <2>1, <2>4 DEF Pins
    <2>7. Rests(s)
        BY <1>5, <1>7, <2>1, <2>3, <2>5, <2>6 DEF Rests, CountStays, Bit
    <2> QED
        BY <1>7, <2>1, <2>7 DEF Balanced
<1> HIDE DEF SubAt, GotoSub
<1> QED
    BY <1>8, <1>9, <1>10, <1>11, <1>12, <1>13, <1>14 DEF SubNext, SubStep, SubMovesNoRef

\* A publisher only moves write_pos forward.
LEMMA PubPast ==
    ASSUME TypeInv, ViewsArePast, NEW p \in Pubs, PubNext(p)
    PROVE  ViewsArePast'
<1>1. /\ sub \in [Subs -> SubType] /\ views \in [Subs -> SUBSET View] /\ writePos \in [Rings -> Nat]
      /\ pub[p].ring \in Rings
    BY DEF TypeInv, TypeOK, PubType
<1>2. UNCHANGED <<sub, views>>
    BY DEF PubNext, PubStep, subVars, Allocate,
        AllocateFails, ReleasePending, Preset, Admit, PassRing, ClaimPos, WaitFirst, WaitDone,
        WaitTimeout, LockEntry, LockRetry, LockGiveUp, HealLook, HealSteal, HealSkip, CheckLock,
        TakeClaim, ReleasePrev, PushPrev, Commit, LeaveRing, Finish, Recycle
<1>3. \A r \in Rings : writePos'[r] \in Nat /\ writePos'[r] >= writePos[r]
    <2>1. CASE ClaimPos(p)
        BY <1>1, <2>1 DEF ClaimPos
    <2>2. CASE ~ClaimPos(p)
        <3>1. writePos' = writePos
            BY <2>2 DEF PubNext, PubStep, ringVars, Allocate,
                AllocateFails, ReleasePending, Preset, Admit, PassRing, WaitFirst, WaitDone,
                WaitTimeout, LockEntry, LockRetry, LockGiveUp, HealLook, HealSteal, HealSkip, CheckLock,
                TakeClaim, ReleasePrev, PushPrev, Commit, LeaveRing, Finish, Recycle
        <3> QED
            BY <1>1, <3>1
    <2> QED
        BY <2>1, <2>2
<1>4. \A u \in Subs : sub[u].ring \in Rings /\ sub[u].read \in Nat
    BY <1>1 DEF SubType
<1>5. \A u \in Subs : \A v \in views[u] : v.ring \in Rings /\ v.pos \in Nat
    BY <1>1 DEF View
<1> QED
    BY <1>1, <1>2, <1>3, <1>4, <1>5 DEF ViewsArePast

\* A subscriber polls below write_pos, and reads forward past what it delivers.
LEMMA SubPast ==
    ASSUME TypeInv, ViewsArePast, NEW u \in Subs, SubNext(u)
    PROVE  ViewsArePast'
<1> USE DEF SubAt, GotoSub
<1> DEFINE old == sub[u]
           new == sub'[u]
           wp  == writePos[old.ring]
           shown == [slot |-> old.slot, ring |-> old.ring, pos |-> old.read]
           Held == {"seq", "meta", "pin", "check", "unpin"}
           Past(rec, vs) ==
               /\ rec.pc \in Held => rec.read < writePos[rec.ring]
               /\ \A v \in vs : /\ v.pos < writePos[v.ring]
                                /\ rec.pc \in Looking /\ rec.ring = v.ring => v.pos < rec.read
<1>1. /\ sub \in [Subs -> SubType] /\ views \in [Subs -> SUBSET View] /\ writePos \in [Rings -> Nat]
      /\ old \in SubType
    BY DEF TypeInv, TypeOK
<1>2. /\ old.ring \in Rings /\ old.read \in Nat /\ wp \in Nat /\ Capacity \in Nat \ {0} /\ old.start \in Nat
      /\ \A v \in views[u] : v.ring \in Rings /\ v.pos \in Nat /\ writePos[v.ring] \in Nat
    BY <1>1, SizesAssumption DEF SubType, View
<1>3. Past(old, views[u])
    BY SMTT(30) DEF ViewsArePast
<1>4. writePos' = writePos
    BY DEF SubNext, SubStep, ringVars, Join, JoinFloor, JoinClaim,
        JoinNext, JoinOwn, JoinSeek, Poll, LookSeq, LookMeta, Pin, Deliver, Overtaken, Unpin,
        PushSlot, DropView, Leave, Quiesced, QuiesceTimeout, ClearOwner, DrainWindow, DrainLook,
        DrainClear, DrainDrop, FreeRing, RetireRing
<1>5. \A q \in Subs : q # u => sub'[q] = sub[q]
    BY <1>1, SubStepMoves DEF SubMoves
<1> USE DEF Looking
<1>6. CASE Deliver(u)
    <2>1. /\ views' = [views EXCEPT ![u] = @ \cup {shown}] /\ old.pc = "check" /\ new.pc = "ready"
          /\ new.read = old.read + 1 /\ new.ring = old.ring
        BY <1>1, <1>6 DEF Deliver, SubType
    <2>2. shown.pos = old.read /\ shown.ring = old.ring
        OBVIOUS
    <2> HIDE DEF shown
    <2>3. Past(new, views'[u])
        BY <1>1, <1>2, <1>3, <2>1, <2>2
    <2> QED
        BY <1>1, <1>4, <1>5, <2>1, <2>3 DEF ViewsArePast
<1>7. CASE \E v \in views[u] : DropView(u, v)
    <2>1. sub' = sub /\ \A q \in Subs : views'[q] \subseteq views[q]
        BY <1>1, <1>7 DEF DropView
    <2> QED
        BY <1>4, <2>1 DEF ViewsArePast
<1>8. CASE ~Deliver(u) /\ ~(\E v \in views[u] : DropView(u, v))
    <2>1. views' = views
        BY <1>8 DEF SubNext, SubStep, Join, JoinFloor, JoinClaim,
            JoinNext, JoinOwn, JoinSeek, Poll, LookSeq, LookMeta, Pin, Overtaken, Unpin,
            PushSlot, Leave, Quiesced, QuiesceTimeout, ClearOwner, DrainWindow, DrainLook,
            DrainClear, DrainDrop, FreeRing, RetireRing
    <2>2. Past(new, views[u])
        <3>1. CASE /\ new.ring = old.ring /\ old.pc \in Looking
                   /\ \/ new.pc \in Held /\ old.pc \in Held /\ new.read = old.read
                      \/ new.pc = "ready" /\ (new.read = old.read \/ new.read = old.read + 1)
            BY <1>2, <1>3, <3>1
        <3>2. CASE new.pc \notin Looking
            BY <1>3, <3>2
        <3>3. CASE LookSeq(u)
            <4>1. GotoSub(u, "meta") \/ GotoSub(u, "ready") \/ Lose(u)
                BY <3>3 DEF LookSeq
            <4> QED
                BY <1>1, <3>1, <3>3, <4>1 DEF LookSeq, Lose, SubType
        <3>4. CASE LookMeta(u) \/ Overtaken(u) \/ Pin(u) \/ Unpin(u)
            BY <1>1, <3>1, <3>4 DEF LookMeta, Overtaken, Pin, Unpin, Lose, SubType
        <3>5. CASE PushSlot(u)
            BY <1>3, <3>5 DEF PushSlot
        <3>6. CASE Poll(u)
            <4>1. /\ new.pc = "seq" /\ new.ring = old.ring /\ old.pc = "ready" /\ wp - old.read > 0
                  /\ new.read = IF wp - old.read > Capacity THEN wp - Capacity ELSE old.read
                BY <1>1, <3>6 DEF Poll, SubType
            <4>2. new.read >= old.read /\ new.read < wp /\ new.read \in Nat
                BY <1>2, <4>1
            <4> QED
                BY <1>2, <1>3, <4>1, <4>2
        <3>7. CASE JoinSeek(u)
            <4>1. new.pc = "ready" /\ new.ring = old.ring /\ new.read = SeekTo(old.start, wp)
                BY <1>1, <3>7 DEF JoinSeek, SubType
            <4>2. new.read >= wp /\ new.read \in Nat
                BY <1>2, <4>1 DEF SeekTo
            <4> QED
                BY <1>2, <1>3, <4>1, <4>2
        <3>8. CASE \/ Join(u) \/ JoinFloor(u) \/ JoinClaim(u) \/ JoinOwn(u) \/ Leave(u) \/ Quiesced(u)
                   \/ QuiesceTimeout(u) \/ ClearOwner(u) \/ DrainWindow(u) \/ DrainDrop(u)
            BY <1>1, <3>2, <3>8 DEF Join, JoinFloor, Floor, JoinClaim, JoinOwn, Leave, Quiesced,
                QuiesceTimeout, ClearOwner, DrainWindow, DrainDrop, SubType
        <3>9. CASE DrainLook(u)
            BY <1>1, <3>2, <3>9 DEF DrainLook, SubType
        <3>10. CASE JoinNext(u) \/ FreeRing(u) \/ RetireRing(u)
            <4>1. new = SubOut(old.joins + 1) \/ new = [old EXCEPT !.pc = "join", !.ring = old.ring + 1]
                BY <1>1, <3>10 DEF JoinNext, FreeRing, RetireRing
            <4>2. SubOut(old.joins + 1).pc = "out" /\ [old EXCEPT !.pc = "join", !.ring = old.ring + 1].pc = "join"
                BY <1>1 DEF SubOut, SubType
            <4> QED
                BY <3>2, <4>1, <4>2
        <3>11. CASE DrainClear(u)
            <4> DEFINE next == [old EXCEPT !.claim = MetaZero]
            <4>1. next \in SubType
                BY <1>1, WordTypes DEF SubType
            <4>2. \/ new = [next EXCEPT !.pc = "unref", !.slot = old.claim.slot]
                  \/ new = [next EXCEPT !.pc = "drain", !.pos = @ + 1]
                BY <1>1, <3>11 DEF DrainClear
            <4> HIDE DEF next
            <4>3. new.pc \in {"unref", "drain"}
                BY <4>1, <4>2 DEF SubType
            <4> QED
                BY <3>2, <4>3
        <3> HIDE DEF SubAt, GotoSub, Past
        <3> QED
            BY <1>8, <3>3, <3>4, <3>5, <3>6, <3>7, <3>8, <3>9, <3>10, <3>11 DEF SubNext, SubStep
    <2> QED
        BY <1>4, <1>5, <2>1, <2>2, SMTT(30) DEF ViewsArePast
<1> QED
    BY <1>6, <1>7, <1>8

-----------------------------------------------------------------------------
(***************************************************************************)
(* Recovery.                                                               *)
(***************************************************************************)
\* Under its contract of full quiescence, reclaim_orphaned_slots leaves nothing
\* but claims, and every slot without one on the stack.
LEMMA ReclaimBooks ==
    ASSUME TypeInv, CountInv, ReclaimOrphanedSlots, NEW s \in Slots
    PROVE  Exact(s)' /\ OneHome(s)' /\ IsFiniteSet(ViewHolds(s)')
<1> DEFINE n == Cardinality(Claims(s))
<1>1. /\ Exact(s) /\ OneHome(s) /\ IsFiniteSet(ViewHolds(s)) /\ refcount[s] \in Int
      /\ alive \subseteq Pubs \cup Subs
    BY DEF TypeInv, TypeOK, CountInv, ViewsAreFew, RefcountExact, SlotHasOneHome, Exact,
        OneHome, Account, Bit
<1>2. /\ meta' = meta /\ pub' = pub /\ sub' = sub /\ views' = views /\ pushing' = pushing
      /\ settled' = (Pubs \cup Subs) \ alive
      /\ refcount'[s] = IF s \in free THEN refcount[s] ELSE n
      /\ s \in free' <=> s \in free \/ Claims(s) = {}
      /\ \A p \in Pubs \ settled' : pub[p].pc = "idle"
      /\ \A u \in Subs \ settled' : sub[u].pc \in {"out", "ready"} /\ views[u] = {} /\ pushing[u] = {}
    BY DEF ReclaimOrphanedSlots, Dead, TrueCount, Orphans, entryVars, subVars
<1>3. \A p \in Pubs \ settled' : Owed(p)' = 0
    BY <1>2 DEF Owed, Offering
<1>4. PubHolds(s)' = {} /\ EvictHolds(s)' = {} /\ SubHolds(s)' = {} /\ ViewHolds(s)' = {} /\ Carriers(s)' = {}
    <2>1. PubHolds(s)' = {}
        BY <1>3 DEF PubHolds
    <2>2. EvictHolds(s)' = {} /\ SubHolds(s)' = {} /\ Carriers(s)' = {}
        BY <1>2 DEF EvictHolds, SubHolds, Carriers
    <2>3. ViewHolds(s)' = {}
        BY <1>2 DEF ViewHolds
    <2> QED
        BY <2>1, <2>2, <2>3
<1>5. IsFiniteSet({}) /\ Cardinality({}) = 0 /\ Claims(s)' = Claims(s)
    BY <1>2, FS_EmptySet DEF Claims
<1>6. n \in Nat /\ (n = 0 <=> Claims(s) = {})
    BY HoldersFinite, FS_CardinalityType, FS_EmptySet
<1>7. Account(s)' = n
    BY <1>4, <1>5, <1>6 DEF Account
<1>8. s \in free => refcount[s] = 0 /\ n = 0
    <2>1. /\ Cardinality(PubHolds(s)) \in Nat /\ Cardinality(EvictHolds(s)) \in Nat
          /\ Cardinality(SubHolds(s)) \in Nat /\ Cardinality(ViewHolds(s)) \in Nat
          /\ Cardinality(Carriers(s)) \in Nat
        BY <1>1, HoldersFinite, FS_CardinalityType
    <2> QED
        BY <1>1, <1>6, <2>1 DEF Exact, OneHome, Account, Bit
<1> HIDE DEF n
<1> QED
    BY <1>2, <1>4, <1>5, <1>6, <1>7, <1>8 DEF Exact, OneHome, Bit

\* A fresh region's slots are all on the stack and unreferenced.
LEMMA InitBooks == Init => CountInv
<1> SUFFICES ASSUME Init PROVE CountInv
    OBVIOUS
<1>1. IsFiniteSet({}) /\ Cardinality({}) = 0
    BY FS_EmptySet
<1>2. /\ \A p \in Pubs : pub[p] = PubIdle(0)
      /\ \A u \in Subs : sub[u] = SubOut(0) /\ views[u] = {} /\ pushing[u] = {}
      /\ \A r \in Rings : \A i \in Index : meta[r][i] = MetaZero
      /\ \A s \in Slots : refcount[s] = 0 /\ s \in free /\ s # NoSlot
    BY NamesAssumption DEF Init
<1>3. /\ \A p \in Pubs : pub[p].pc = "idle" /\ pub[p].excess = 0 /\ pub[p].ring = 1
      /\ \A u \in Subs : sub[u].pc = "out"
      /\ \A r \in Rings : \A i \in Index : meta[r][i].slot = NoSlot
    BY <1>2 DEF PubIdle, SubOut, MetaZero
<1>4. ASSUME NEW s \in Slots
      PROVE  /\ Claims(s) = {} /\ PubHolds(s) = {} /\ EvictHolds(s) = {} /\ SubHolds(s) = {}
             /\ ViewHolds(s) = {} /\ Carriers(s) = {}
    <2>1. Claims(s) = {}
        BY <1>2, <1>3 DEF Claims
    <2>2. PubHolds(s) = {}
        <3>1. \A p \in Pubs : Owed(p) = 0
            BY <1>3 DEF Owed, Offering
        <3> QED
            BY <3>1 DEF PubHolds
    <2>3. EvictHolds(s) = {} /\ SubHolds(s) = {} /\ Carriers(s) = {}
        BY <1>2, <1>3 DEF EvictHolds, SubHolds, Carriers
    <2>4. ViewHolds(s) = {}
        BY <1>2 DEF ViewHolds
    <2> QED
        BY <2>1, <2>2, <2>3, <2>4
<1>5. RefcountExact /\ SlotHasOneHome /\ ViewsAreFew
    <2>1. ASSUME NEW s \in Slots
          PROVE  /\ Exact(s) /\ OneHome(s) /\ IsFiniteSet(ViewHolds(s))
        BY <1>1, <1>2, <1>4 DEF Exact, OneHome, Account, Bit
    <2> QED
        BY <2>1 DEF RefcountExact, SlotHasOneHome, ViewsAreFew, Exact, OneHome, Account, Bit
<1>6. ExcessFits
    BY <1>3 DEF ExcessFits, Fits, Undecided, Offering
<1>7. ViewsArePast
    BY <1>2, <1>3 DEF ViewsArePast, Looking
<1>8. SettledAreDead
    BY DEF Init, SettledAreDead
<1> QED
    BY <1>5, <1>6, <1>7, <1>8 DEF CountInv

\* The books in terms of each slot.
LEMMA BooksBySlot ==
    /\ CountInv <=> /\ \A s \in Slots : Exact(s) /\ OneHome(s) /\ IsFiniteSet(ViewHolds(s))
                    /\ ExcessFits /\ ViewsArePast /\ SettledAreDead
    /\ CountInv' <=> /\ \A s \in Slots : Exact(s)' /\ OneHome(s)' /\ IsFiniteSet(ViewHolds(s)')
                     /\ ExcessFits' /\ ViewsArePast' /\ SettledAreDead'
BY DEF CountInv, RefcountExact, SlotHasOneHome, ViewsAreFew, Exact, OneHome, Account, Bit

\* Every step keeps the books.
LEMMA StepBooks ==
    ASSUME TypeInv, CountInv, [Next]_vars
    PROVE  CountInv'
<1>1. /\ \A s \in Slots : Exact(s) /\ OneHome(s) /\ IsFiniteSet(ViewHolds(s))
      /\ ExcessFits /\ ViewsArePast /\ SettledAreDead
    BY BooksBySlot
<1>2. ASSUME NEW p \in Pubs, PubNext(p)
      PROVE  CountInv'
    <2>1. \A s \in Slots : Exact(s)' /\ OneHome(s)' /\ IsFiniteSet(ViewHolds(s)')
        BY <1>1, <1>2, PubBooks, BooksKept
    <2>2. ExcessFits'
        <3>1. Fits(pub'[p])
            <4>1. CASE Slots # {}
                BY <1>2, <4>1, PubBooks
            <4>2. CASE Slots = {}
                <5>1. pub[p].pc = "idle" /\ free = {}
                    BY <4>2 DEF TypeInv, TypeOK, Shape
                <5>2. AllocateFails(p)
                    BY <1>2, <5>1 DEF PubNext, PubStep, PubAt, Allocate, ReleasePending, Preset, Admit,
                        PassRing, ClaimPos, WaitFirst, WaitDone, WaitTimeout, LockEntry, LockRetry,
                        LockGiveUp, HealLook, HealSteal, HealSkip, CheckLock, TakeClaim, ReleasePrev,
                        PushPrev, Commit, LeaveRing, Finish, Recycle
                <5> QED
                    BY <1>1, <5>2, PubKeepsRefs DEF ExcessFits, MovesNoRef
            <4> QED
                BY <4>1, <4>2
        <3>2. \A q \in Pubs : q # p => pub'[q] = pub[q]
            BY <1>2, PubStepMoves DEF PubMoves, TypeInv, TypeOK
        <3> QED
            BY <1>1, <3>1, <3>2 DEF ExcessFits
    <2>3. ViewsArePast'
        BY <1>1, <1>2, PubPast
    <2>4. SettledAreDead'
        <3>1. UNCHANGED <<settled, alive>>
            BY <1>2 DEF PubNext, PubStep, ghostVars, Allocate,
                AllocateFails, ReleasePending, Preset, Admit, PassRing, ClaimPos, WaitFirst, WaitDone,
                WaitTimeout, LockEntry, LockRetry, LockGiveUp, HealLook, HealSteal, HealSkip, CheckLock,
                TakeClaim, ReleasePrev, PushPrev, Commit, LeaveRing, Finish, Recycle
        <3> QED
            BY <1>1, <3>1 DEF SettledAreDead
    <2> QED
        BY <2>1, <2>2, <2>3, <2>4, BooksBySlot
<1>3. ASSUME NEW u \in Subs, SubNext(u)
      PROVE  CountInv'
    <2>1. \A s \in Slots : Exact(s)' /\ OneHome(s)' /\ IsFiniteSet(ViewHolds(s)')
        BY <1>1, <1>3, SubBooks, BooksKept
    <2>2. UNCHANGED <<settled, alive, pub>>
        BY <1>3 DEF SubNext, SubStep, ghostVars, Join, JoinFloor, JoinClaim,
            JoinNext, JoinOwn, JoinSeek, Poll, LookSeq, LookMeta, Pin, Deliver, Overtaken, Unpin,
            PushSlot, DropView, Leave, Quiesced, QuiesceTimeout, ClearOwner, DrainWindow, DrainLook,
            DrainClear, DrainDrop, FreeRing, RetireRing
    <2>3. ViewsArePast'
        BY <1>1, <1>3, SubPast
    <2> QED
        BY <1>1, <2>1, <2>2, <2>3, BooksBySlot DEF ExcessFits, SettledAreDead
<1>4. CASE ReclaimOrphanedSlots
    <2>1. \A s \in Slots : Exact(s)' /\ OneHome(s)' /\ IsFiniteSet(ViewHolds(s)')
        BY <1>4, ReclaimBooks
    <2>2. UNCHANGED <<alive, pub, sub, views, writePos>> /\ settled' = Dead
        BY <1>4 DEF ReclaimOrphanedSlots, subVars, ringVars
    <2> QED
        BY <1>1, <2>1, <2>2, BooksBySlot DEF ExcessFits, ViewsArePast, SettledAreDead, Dead
<1>5. CASE \/ UNCHANGED vars \/ RepairStart \/ GcStep \/ CrashRepairer
           \/ (\E r \in Rings : ResetRetiredRing(r) \/ ReclaimDeadRing(r))
           \/ (\E p \in Pubs : CrashPub(p)) \/ (\E u \in Subs : CrashSub(u))
    <2>1. UNCHANGED <<meta, refcount, free, pub, sub, views, pushing, settled, writePos>> /\ alive' \subseteq alive
        BY <1>5 DEF vars, RepairStart, GcStep, CrashRepairer, RepairRing, RepairLook, RepairSteal, RepairSkip,
            RepairGrace, RepairGraceSkip, ResetRetiredRing, ReclaimDeadRing, CrashPub, CrashSub,
            ringVars, entryVars, slotVars, subVars, ghostVars
    <2>2. \A s \in Slots : Exact(s)' /\ OneHome(s)' /\ IsFiniteSet(ViewHolds(s)')
        <3>1. \A p \in Pubs : Owed(p)' = Owed(p)
            BY <2>1 DEF Owed
        <3>2. \A s \in Slots : /\ Claims(s)' = Claims(s) /\ PubHolds(s)' = PubHolds(s)
                               /\ EvictHolds(s)' = EvictHolds(s) /\ SubHolds(s)' = SubHolds(s)
                               /\ ViewHolds(s)' = ViewHolds(s) /\ Carriers(s)' = Carriers(s)
            BY <2>1, <3>1 DEF Claims, PubHolds, EvictHolds, SubHolds, ViewHolds, Carriers
        <3> QED
            BY <1>1, <2>1, <3>2 DEF Exact, OneHome, Account
    <2> QED
        BY <1>1, <2>1, <2>2, BooksBySlot DEF ExcessFits, ViewsArePast, SettledAreDead
<1> QED
    BY <1>2, <1>3, <1>4, <1>5, NextSplits DEF Operator

\* A slot's reference count is the number of references somebody holds on it,
\* for any number of processes, rings, entries and slots: no path of publish,
\* take-over, pin, view, drain, crash or GC takes a reference twice or forgets one.
THEOREM ChannelRefcountExact == Spec => []RefcountExact
<1>1. CountInv => RefcountExact
    BY DEF CountInv
<1> QED
    BY <1>1, InitTypes, StepTypes, InitBooks, StepBooks, PTL DEF Spec

\* A slot is on the free stack, or referenced, or in the hands of exactly one
\* process: it is never freed twice, never handed out while somebody may still
\* read it, and never lost.
THEOREM ChannelSlotHasOneHome == Spec => []SlotHasOneHome
<1>1. CountInv => SlotHasOneHome
    BY DEF CountInv
<1> QED
    BY <1>1, InitTypes, StepTypes, InitBooks, StepBooks, PTL DEF Spec
-----------------------------------------------------------------------------
(***************************************************************************)
(* Claims.  The sequence of an entry may move back (self_repair steals any *)
(* stable lock), the tag of its claim never does: that is what protects a  *)
(* committed entry from an older position.                                 *)
(***************************************************************************)
\* A publisher that took an entry over finds its own claim there, or a newer one.
ClaimStands ==
    \A p \in Pubs : pub[p].pc \in {"release", "push", "commit"} => PubMeta(p).tag >= pub[p].pos + 1

ClaimInv == NewerEntryKept /\ ClaimStands

\* The claim tag of an entry never decreases: TakeClaim replaces older claims only,
\* and the drain keeps the tag of the claim it clears.
LEMMA TagsGrow ==
    ASSUME TypeInv, [Next]_vars
    PROVE  \A r \in Rings, i \in Index : meta'[r][i].tag >= meta[r][i].tag
<1>1. meta \in [Rings -> [Index -> MetaWord]] /\ \A r \in Rings, i \in Index : meta[r][i].tag \in Nat
    BY DEF TypeInv, TypeOK, MetaWord
<1>2. CASE UNCHANGED meta
    BY <1>1, <1>2
<1>3. ASSUME NEW p \in Pubs, TakeClaim(p)
      PROVE  \A r \in Rings, i \in Index : meta'[r][i].tag >= meta[r][i].tag
    <2>1. CASE MetaPrecedes(PubMeta(p), pub[p].pos)
        <3>1. pub[p].ring \in Rings /\ pub[p].pos \in Nat /\ pub[p].pos % Capacity \in Index
            BY IndexInRange DEF TypeInv, TypeOK, PubType
        <3>2. meta' = [meta EXCEPT ![pub[p].ring][pub[p].pos % Capacity] = MetaClaim(pub[p].pos, pub[p].slot)]
            BY <1>3, <2>1 DEF TakeClaim, Put
        <3>3. meta[pub[p].ring][pub[p].pos % Capacity].tag < pub[p].pos + 1
            BY <2>1 DEF MetaPrecedes, PubMeta, At
        <3>4. MetaClaim(pub[p].pos, pub[p].slot).tag = pub[p].pos + 1
            BY DEF MetaClaim
        <3> QED
            BY <1>1, <3>1, <3>2, <3>3, <3>4
    <2>2. CASE ~MetaPrecedes(PubMeta(p), pub[p].pos)
        BY <1>2, <1>3, <2>2 DEF TakeClaim
    <2> QED
        BY <2>1, <2>2
<1>4. ASSUME NEW u \in Subs, DrainClear(u)
      PROVE  \A r \in Rings, i \in Index : meta'[r][i].tag >= meta[r][i].tag
    <2>1. CASE At(meta, sub[u].ring, sub[u].pos) = sub[u].claim
        <3>1. sub[u].ring \in Rings /\ sub[u].pos % Capacity \in Index
            BY IndexInRange DEF TypeInv, TypeOK, SubType
        <3>2. meta' = [meta EXCEPT ![sub[u].ring][sub[u].pos % Capacity] = MetaCleared(sub[u].claim)]
            BY <1>4, <2>1 DEF DrainClear, Put
        <3>3. /\ meta[sub[u].ring][sub[u].pos % Capacity] = sub[u].claim
              /\ sub[u].claim \in MetaWord
            BY <2>1 DEF At, TypeInv, TypeOK, SubType
        <3>4. MetaCleared(sub[u].claim).tag = sub[u].claim.tag
            BY <3>3 DEF MetaCleared, MetaWord
        <3> QED
            BY <1>1, <3>1, <3>2, <3>3, <3>4
    <2>2. CASE At(meta, sub[u].ring, sub[u].pos) # sub[u].claim
        BY <1>2, <1>4, <2>2 DEF DrainClear
    <2> QED
        BY <2>1, <2>2
<1>5. ASSUME NEW p \in Pubs, PubNext(p), ~TakeClaim(p)
      PROVE  UNCHANGED meta
    BY <1>5 DEF PubNext, PubStep, entryVars, Allocate, AllocateFails, ReleasePending, Preset, Admit,
        PassRing, ClaimPos, WaitFirst, WaitDone, WaitTimeout, LockEntry, LockRetry, LockGiveUp, HealLook,
        HealSteal, HealSkip, CheckLock, ReleasePrev, PushPrev, Commit, LeaveRing, Finish, Recycle
<1>6. ASSUME NEW u \in Subs, SubNext(u), ~DrainClear(u)
      PROVE  UNCHANGED meta
    BY <1>6 DEF SubNext, SubStep, entryVars, Join, JoinFloor, JoinClaim, JoinNext, JoinOwn, JoinSeek, Poll,
        LookSeq, LookMeta, Pin, Deliver, Overtaken, Unpin, PushSlot, DropView, Leave, Quiesced,
        QuiesceTimeout, ClearOwner, DrainWindow, DrainLook, DrainDrop, FreeRing, RetireRing
<1>7. CASE UNCHANGED vars \/ RepairStart \/ GcStep \/ CrashRepairer \/ Operator
    <2>1. UNCHANGED meta
        BY <1>7, SMTT(30) DEF vars, entryVars, RepairStart, GcStep, CrashRepairer, RepairRing, RepairLook, RepairSteal,
            RepairSkip, RepairGrace, RepairGraceSkip, Operator, ResetRetiredRing, ReclaimDeadRing,
            ReclaimOrphanedSlots, CrashPub, CrashSub
    <2> QED
        BY <1>2, <2>1
<1> QED
    BY <1>2, <1>3, <1>4, <1>5, <1>6, <1>7, NextSplits

\* A subscriber writes no sequence and no payload, and nothing of a publisher's.
LEMMA SubLeavesAlone ==
    ASSUME NEW u \in Subs, SubNext(u)
    PROVE  UNCHANGED <<seq, payload, pub>>
BY DEF SubNext, SubStep, entryVars, slotVars, Join, JoinFloor, JoinClaim, JoinNext, JoinOwn, JoinSeek, Poll,
    LookSeq, LookMeta, Pin, Deliver, Overtaken, Unpin, PushSlot, DropView, Leave, Quiesced,
    QuiesceTimeout, ClearOwner, DrainWindow, DrainLook, DrainClear, DrainDrop, FreeRing, RetireRing

\* Neither do the operator's calls and the crashes.
LEMMA OperatorLeavesAlone ==
    ASSUME Operator
    PROVE  UNCHANGED <<seq, payload, pub>>
BY DEF Operator, entryVars, slotVars, ResetRetiredRing, ReclaimDeadRing, ReclaimOrphanedSlots, CrashPub, CrashSub

\* Only the commit CAS stores a committed sequence; a repair stores a lock or a skip.
LEMMA CommitsOnly ==
    ASSUME TypeInv, [Next]_vars, NEW r \in Rings, NEW i \in Index, seq'[r][i].tag = "commit"
    PROVE  \/ seq'[r][i] = seq[r][i]
           \/ \E p \in Pubs : /\ Commit(p) /\ r = pub[p].ring /\ i = pub[p].pos % Capacity
                              /\ seq'[r][i].val = pub[p].pos + 1
<1>1. seq \in [Rings -> [Index -> SeqWord]]
    BY DEF TypeInv, TypeOK
<1>2. ASSUME NEW a \in Rings, NEW n \in Nat, NEW w, seq' = Put(seq, a, n, w)
      PROVE  \/ seq'[r][i] = seq[r][i]
             \/ seq'[r][i] = w /\ a = r /\ n % Capacity = i
    <2>1. n % Capacity \in Index
        BY IndexInRange
    <2> QED
        BY <1>1, <1>2, <2>1 DEF Put
<1>3. ASSUME NEW n \in Nat
      PROVE  SeqLock(n).tag # "commit" /\ SeqRepair(n).tag # "commit" /\ SeqSkip(n).tag # "commit"
    BY DEF SeqLock, SeqRepair, SeqSkip
<1>4. ASSUME NEW p \in Pubs, PubNext(p)
      PROVE  \/ seq'[r][i] = seq[r][i]
             \/ /\ Commit(p) /\ r = pub[p].ring /\ i = pub[p].pos % Capacity
                /\ seq'[r][i].val = pub[p].pos + 1
    <2>1. pub[p].ring \in Rings /\ pub[p].pos \in Nat
        BY DEF TypeInv, TypeOK, PubType
    <2>2. CASE LockEntry(p) \/ HealSteal(p) \/ HealSkip(p)
        <3>1. \/ UNCHANGED seq
              \/ \E w \in {SeqLock(pub[p].pos), SeqRepair(pub[p].pos), SeqSkip(pub[p].pos)} :
                     seq' = Put(seq, pub[p].ring, pub[p].pos, w)
            BY <2>2 DEF LockEntry, HealSteal, HealSkip
        <3> QED
            BY <1>2, <1>3, <2>1, <3>1
    <2>3. CASE Commit(p)
        <3>1. UNCHANGED seq \/ seq' = Put(seq, pub[p].ring, pub[p].pos, SeqCommit(pub[p].pos))
            BY <2>3 DEF Commit
        <3>2. SeqCommit(pub[p].pos).val = pub[p].pos + 1
            BY DEF SeqCommit
        <3> QED
            BY <1>2, <2>1, <2>3, <3>1, <3>2
    <2>4. CASE ~(LockEntry(p) \/ HealSteal(p) \/ HealSkip(p) \/ Commit(p))
        <3>1. UNCHANGED seq
            BY <1>4, <2>4 DEF PubNext, PubStep, entryVars, Allocate, AllocateFails, ReleasePending, Preset, Admit,
                PassRing, ClaimPos, WaitFirst, WaitDone, WaitTimeout, LockRetry, LockGiveUp, HealLook,
                CheckLock, TakeClaim, ReleasePrev, PushPrev, LeaveRing, Finish, Recycle
        <3> QED
            BY <3>1
    <2> QED
        BY <2>2, <2>3, <2>4
<1>5. CASE RepairStart \/ GcStep \/ CrashRepairer
    <2>1. gc.ring \in Rings /\ gc.pos \in Nat
        BY DEF TypeInv, TypeOK, GcType
    <2>2. CASE RepairSteal \/ RepairSkip \/ RepairGraceSkip
        <3>1. \/ UNCHANGED seq
              \/ \E w \in {SeqRepair(gc.pos), SeqSkip(gc.pos)} : seq' = Put(seq, gc.ring, gc.pos, w)
            BY <2>2 DEF RepairSteal, RepairSkip, RepairGraceSkip
        <3> QED
            BY <1>2, <1>3, <2>1, <3>1
    <2>3. CASE RepairGrace
        <3>1. Head(gc.locked).ring \in Rings /\ Head(gc.locked).pos \in Nat
            <4>1. gc.locked \in Seq(Candidate) /\ gc.locked # <<>>
                BY <2>3 DEF TypeInv, TypeOK, Shape, GcType, RepairGrace
            <4>2. Head(gc.locked) \in Candidate
                BY <4>1
            <4> QED
                BY <4>2 DEF Candidate
        <3>2. \/ UNCHANGED seq
              \/ seq' = Put(seq, Head(gc.locked).ring, Head(gc.locked).pos, SeqRepair(Head(gc.locked).pos))
            BY <2>3 DEF RepairGrace
        <3> QED
            BY <1>2, <1>3, <3>1, <3>2
    <2>4. CASE RepairStart \/ RepairRing \/ RepairLook \/ CrashRepairer
        BY <2>4 DEF RepairStart, RepairRing, RepairLook, CrashRepairer, entryVars
    <2> QED
        BY <1>5, <2>2, <2>3, <2>4 DEF GcStep
<1>6. CASE UNCHANGED vars \/ Operator \/ (\E u \in Subs : SubNext(u))
    <2>1. UNCHANGED seq
        BY <1>6, SubLeavesAlone, OperatorLeavesAlone DEF vars, entryVars
    <2> QED
        BY <2>1
<1> QED
    BY <1>4, <1>5, <1>6, NextSplits

\* A publisher gets to the points behind the take-over from there only, with its
\* position and ring unchanged, and its claim in place.
LEMMA ClaimsTaken ==
    ASSUME TypeInv, [Next]_vars, NEW p \in Pubs, pub'[p].pc \in {"release", "push", "commit"}
    PROVE  /\ pub'[p].ring = pub[p].ring /\ pub'[p].pos = pub[p].pos
           /\ \/ pub[p].pc \in {"release", "push", "commit"}
              \/ PubMeta(p)'.tag = pub[p].pos + 1
<1>1. CASE UNCHANGED pub
    BY <1>1
<1>2. CASE PubNext(p)
    <2>1. pub \in [Pubs -> PubType] /\ pub[p] \in PubType
        BY DEF TypeInv, TypeOK
    <2>2. CASE TakeClaim(p)
        <3>1. CASE MetaPrecedes(PubMeta(p), pub[p].pos)
            <4>1. pub'[p].ring = pub[p].ring /\ pub'[p].pos = pub[p].pos
                BY <2>1, <2>2, <3>1 DEF TakeClaim, PubType
            <4>2. pub[p].ring \in Rings /\ pub[p].pos % Capacity \in Index
                BY IndexInRange, <2>1 DEF PubType
            <4>3. meta' = [meta EXCEPT ![pub[p].ring][pub[p].pos % Capacity] = MetaClaim(pub[p].pos, pub[p].slot)]
                BY <2>2, <3>1 DEF TakeClaim, Put
            <4>4. meta'[pub[p].ring][pub[p].pos % Capacity].tag = pub[p].pos + 1
                BY <4>2, <4>3 DEF MetaClaim, TypeInv, TypeOK
            <4> QED
                BY <4>1, <4>4 DEF PubMeta, At
        <3>2. CASE ~MetaPrecedes(PubMeta(p), pub[p].pos)
            BY <2>1, <2>2, <3>2 DEF TakeClaim, Keep, PubType
        <3> QED
            BY <3>1, <3>2
    <2>3. CASE ReleasePrev(p) \/ PushPrev(p)
        BY <2>1, <2>3 DEF ReleasePrev, PushPrev, PubAt, PubType
    <2>4. CASE Allocate(p) \/ AllocateFails(p) \/ Preset(p) \/ Admit(p) \/ ClaimPos(p) \/ WaitFirst(p)
               \/ WaitDone(p) \/ WaitTimeout(p) \/ LockEntry(p) \/ LockRetry(p) \/ LockGiveUp(p) \/ HealLook(p)
               \/ HealSteal(p) \/ HealSkip(p) \/ CheckLock(p) \/ Commit(p)
        <3>1. pub'[p].pc \notin {"release", "push", "commit"}
            BY <2>1, <2>4 DEF Allocate, AllocateFails, Preset, Admit, ClaimPos, WaitFirst, WaitEnds, WaitDone,
                WaitTimeout, LockEntry, LockRetry, LockGiveUp, HealLook, HealSteal, HealSkip, CheckLock, Commit,
                Goto, Keep, PubAt, PubType
        <3> QED
            BY <3>1
    <2>5. CASE ReleasePending(p) \/ PassRing(p) \/ LeaveRing(p) \/ Finish(p) \/ Recycle(p)
        <3>1. \A n : PubIdle(n).pc = "idle"
            BY DEF PubIdle
        <3>2. ASSUME NEW rec \in PubType
              PROVE  NextRing(rec).pc \in {"idle", "ring", "finish"}
            BY DEF NextRing, PubIdle
        <3>3. [pub[p] EXCEPT !.excess = @ + 1] \in PubType
            BY <2>1 DEF PubType
        <3>4. CASE PassRing(p) \/ LeaveRing(p)
            BY <2>1, <3>2, <3>3, <3>4 DEF PassRing, LeaveRing
        <3>5. CASE ReleasePending(p) \/ Finish(p) \/ Recycle(p)
            BY <2>1, <3>1, <3>5 DEF ReleasePending, Finish, Recycle, Goto, PubType
        <3> QED
            BY <2>5, <3>4, <3>5
    <2> QED
        BY <1>2, <2>2, <2>3, <2>4, <2>5 DEF PubNext, PubStep
<1>3. ASSUME NEW q \in Pubs, q # p, PubNext(q)
      PROVE  pub'[p] = pub[p]
    BY <1>3, PubStepMoves DEF PubMoves, TypeInv, TypeOK
<1>4. CASE UNCHANGED vars \/ RepairStart \/ GcStep \/ CrashRepairer \/ Operator \/ (\E u \in Subs : SubNext(u))
    <2>1. UNCHANGED pub
        BY <1>4, SubLeavesAlone, OperatorLeavesAlone DEF vars, RepairStart, GcStep, CrashRepairer, RepairRing,
            RepairLook, RepairSteal, RepairSkip, RepairGrace, RepairGraceSkip
    <2> QED
        BY <1>1, <2>1
<1> QED
    BY <1>2, <1>3, <1>4, NextSplits

\* Every step keeps the claims.
LEMMA StepClaims ==
    ASSUME TypeInv, TypeInv', ClaimInv, [Next]_vars
    PROVE  ClaimInv'
<1>1. \A r \in Rings, i \in Index : /\ meta'[r][i].tag >= meta[r][i].tag
                                    /\ meta[r][i].tag \in Nat /\ meta'[r][i].tag \in Nat
    BY TagsGrow DEF TypeInv, TypeOK, MetaWord
<1>2. ASSUME NEW p \in Pubs
      PROVE  pub[p].ring \in Rings /\ pub[p].pos \in Nat /\ pub[p].pos % Capacity \in Index
    BY IndexInRange DEF TypeInv, TypeOK, PubType
<1>3. ASSUME NEW r \in Rings, NEW i \in Index, seq'[r][i].tag = "commit"
      PROVE  meta'[r][i].tag >= seq'[r][i].val
    <2>1. CASE seq'[r][i] = seq[r][i]
        <3>1. meta[r][i].tag >= seq[r][i].val /\ seq[r][i].val \in Nat
            BY <1>3, <2>1 DEF ClaimInv, NewerEntryKept, TypeInv, TypeOK, SeqWord
        <3> QED
            BY <1>1, <2>1, <3>1
    <2>2. ASSUME NEW p \in Pubs, Commit(p), r = pub[p].ring, i = pub[p].pos % Capacity,
                 seq'[r][i].val = pub[p].pos + 1
          PROVE  meta'[r][i].tag >= seq'[r][i].val
        <3>1. meta[r][i].tag >= pub[p].pos + 1
            BY <2>2 DEF Commit, PubAt, ClaimInv, ClaimStands, PubMeta, At
        <3> QED
            BY <1>1, <1>2, <2>2, <3>1
    <2> QED
        BY <1>3, <2>1, <2>2, CommitsOnly
<1>4. ASSUME NEW p \in Pubs, pub'[p].pc \in {"release", "push", "commit"}
      PROVE  PubMeta(p)'.tag >= pub'[p].pos + 1
    <2>1. /\ pub'[p].ring = pub[p].ring /\ pub'[p].pos = pub[p].pos
          /\ \/ pub[p].pc \in {"release", "push", "commit"}
             \/ PubMeta(p)'.tag = pub[p].pos + 1
        BY <1>4, ClaimsTaken
    <2>2. CASE PubMeta(p)'.tag = pub[p].pos + 1
        BY <1>2, <2>1, <2>2
    <2>3. CASE pub[p].pc \in {"release", "push", "commit"}
        <3>1. meta[pub[p].ring][pub[p].pos % Capacity].tag >= pub[p].pos + 1
            BY <2>3 DEF ClaimInv, ClaimStands, PubMeta, At
        <3>2. meta'[pub[p].ring][pub[p].pos % Capacity].tag >= pub[p].pos + 1
            BY <1>1, <1>2, <3>1
        <3> QED
            BY <2>1, <3>2 DEF PubMeta, At
    <2> QED
        BY <2>1, <2>2, <2>3
<1>5. NewerEntryKept'
    BY <1>3 DEF NewerEntryKept
<1>6. ClaimStands'
    BY <1>4 DEF ClaimStands
<1> QED
    BY <1>5, <1>6 DEF ClaimInv

\* However late a publisher resumes and whatever self_repair or the recovery
\* calls did meanwhile, the claim word of a committed entry is never taken over
\* for an older position than the committed one.
THEOREM ChannelNewerEntryKept == Spec => []NewerEntryKept
<1>1. Init => ClaimInv
    BY DEF Init, ClaimInv, NewerEntryKept, ClaimStands, SeqZero, MetaZero, PubIdle
<1>2. ClaimInv => NewerEntryKept
    BY DEF ClaimInv
<1> QED
    BY <1>1, <1>2, InitTypes, StepTypes, StepClaims, PTL DEF Spec

-----------------------------------------------------------------------------
\* The bytes of a slot are written by the publisher that pops it off the stack only.
LEMMA PayloadWrites ==
    ASSUME TypeInv, [Next]_vars, NEW s \in Slots, payload'[s] # payload[s]
    PROVE  s \in free
<1>1. ASSUME NEW p \in Pubs, Allocate(p)
      PROVE  s \in free
    BY <1>1 DEF Allocate, TypeInv, TypeOK
<1>2. ASSUME NEW p \in Pubs, PubNext(p), ~Allocate(p)
      PROVE  UNCHANGED payload
    BY <1>2 DEF PubNext, PubStep, slotVars, AllocateFails, ReleasePending, Preset, Admit,
        PassRing, ClaimPos, WaitFirst, WaitDone, WaitTimeout, LockEntry, LockRetry, LockGiveUp, HealLook,
        HealSteal, HealSkip, CheckLock, TakeClaim, ReleasePrev, PushPrev, Commit, LeaveRing, Finish, Recycle
<1>3. CASE UNCHANGED vars \/ RepairStart \/ GcStep \/ CrashRepairer \/ Operator \/ (\E u \in Subs : SubNext(u))
    <2>1. UNCHANGED payload
        BY <1>3, SubLeavesAlone, OperatorLeavesAlone DEF vars, slotVars, RepairStart, GcStep, CrashRepairer,
            RepairRing, RepairLook, RepairSteal, RepairSkip, RepairGrace, RepairGraceSkip
    <2> QED
        BY <2>1
<1> QED
    BY <1>1, <1>2, <1>3, NextSplits

\* A slot that somebody views is referenced, hence off the stack.
LEMMA ViewedIsNotFree ==
    ASSUME TypeInv, CountInv, NEW u \in Subs \ settled, NEW v \in views[u]
    PROVE  v.slot \in Slots /\ v.slot \notin free
<1>1. v.slot \in Slots
    BY DEF TypeInv, TypeOK, View
<1>2. Exact(v.slot) /\ OneHome(v.slot) /\ IsFiniteSet(ViewHolds(v.slot))
    BY <1>1, BooksBySlot
<1>3. <<u, v>> \in ViewHolds(v.slot)
    BY DEF ViewHolds
<1>4. Cardinality(ViewHolds(v.slot)) \in Nat \ {0}
    BY <1>2, <1>3, FS_CardinalityType, FS_EmptySet
<1>5. refcount[v.slot] > 0
    <2>1. /\ Cardinality(Claims(v.slot)) \in Nat /\ Cardinality(PubHolds(v.slot)) \in Nat
          /\ Cardinality(EvictHolds(v.slot)) \in Nat /\ Cardinality(SubHolds(v.slot)) \in Nat
        BY <1>1, HoldersFinite, FS_CardinalityType
    <2> QED
        BY <1>2, <1>4, <2>1 DEF Exact, Account
<1>6. Cardinality(Carriers(v.slot)) \in Nat
    BY <1>1, HoldersFinite, FS_CardinalityType
<1> QED
    BY <1>1, <1>2, <1>5, <1>6 DEF OneHome, Bit

\* No step changes the bytes under a view that a subscriber holds, for any number
\* of publishers: whatever a late take-over releases, the pin keeps the slot.
THEOREM ChannelViewIsStable == Spec => ViewIsStable
<1> DEFINE Stable == \A u \in Subs \ settled : \A v \in views[u] \cap views'[u] :
                         payload'[v.slot] = payload[v.slot]
<1>1. ASSUME TypeInv, CountInv, [Next]_vars
      PROVE  Stable
    <2> SUFFICES ASSUME NEW u \in Subs \ settled, NEW v \in views[u]
                 PROVE  payload'[v.slot] = payload[v.slot]
        OBVIOUS
    <2>1. v.slot \in Slots /\ v.slot \notin free
        BY <1>1, ViewedIsNotFree
    <2> QED
        BY <1>1, <2>1, PayloadWrites
<1>2. TypeInv /\ CountInv /\ [Next]_vars => [Stable]_vars
    BY <1>1
<1> QED
    BY <1>2, InitTypes, StepTypes, InitBooks, StepBooks, PTL DEF Spec, ViewIsStable
=============================================================================
