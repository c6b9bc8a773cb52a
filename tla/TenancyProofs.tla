---------------------------- MODULE TenancyProofs ----------------------------
(***************************************************************************)
(* in_flight is exact, a subscriber drains its ring alone and leaves it    *)
(* empty, nothing old is replayed, and claims and views show the message   *)
(* of their position: proved for every instance of Channel.                *)
(*                                                                         *)
(* None is inductive.  Storing in_flight = 0 when a drained ring is        *)
(* handed over is right only because nobody can be admitted between the    *)
(* quiescence check and the store, which holds only because the ring stays *)
(* Draining, which in turn holds only because one process holds a ring.    *)
(***************************************************************************)
EXTENDS ChannelProofs

\* Between claiming a ring and clearing or after clearing its owner fields, a
\* subscriber holds the ring whether it is alive or not: nobody reclaims it.
Unnamed == {"own", "window", "drain", "unclaim", "unref", "retire"}
\* In between, it holds the ring as long as it is the recorded owner.
Named == {"seek", "ready", "seq", "meta", "pin", "check", "unpin", "quiesce", "clear"}
Serving == {"own", "seek", "ready", "seq", "meta", "pin", "check", "unpin"}
Quieted == {"window", "drain", "unclaim", "unref"}

Holds(u, r) ==
    /\ sub[u].ring = r
    /\ sub[u].pc \in Unnamed \/ (sub[u].pc \in Named /\ owner[r] = u)

OneHolder == \A r \in Rings : \A u, v \in Subs : Holds(u, r) /\ Holds(v, r) => u = v

\* The ring's state follows its holder; a Free ring has none.
HolderState ==
    \A r \in Rings, u \in Subs :
        Holds(u, r) => state[r] = IF sub[u].pc \in Serving THEN "Live" ELSE "Draining"

\* Only the dead lose a ring they are named on.
LiveIsNamed == \A u \in Subs \cap alive : sub[u].pc \in Named => owner[sub[u].ring] = u

OwnerHolds ==
    \A r \in Rings, u \in Subs : owner[r] = u => sub[u].ring = r /\ sub[u].pc \in Named

QuietHolds ==
    \A r \in Rings, u \in Subs :
        Holds(u, r) /\ (sub[u].pc \in Quieted \/ (sub[u].pc = "clear" /\ sub[u].quiet))
            => flight[r] = 0

DeadAreReset == unadmitted \cap alive = {}

TenancyInv ==
    /\ OneHolder /\ HolderState /\ LiveIsNamed /\ OwnerHolds /\ QuietHolds
    /\ DeadAreReset /\ InFlightExact

-----------------------------------------------------------------------------
\* A publisher outside of a ring.
Outside == {"idle", "reserved", "ring", "finish", "recycle"}

\* in_flight is zero when nobody is admitted; one admission more or less changes the count by one.
LEMMA AdmittedCounts ==
    ASSUME TypeInv, InFlightExact, NEW r \in Rings
    PROVE  /\ IsFiniteSet(Admitted(r) \ unadmitted)
           /\ flight[r] \in Nat
           /\ flight[r] = 0 <=> Admitted(r) \subseteq unadmitted
           /\ \A p \in Pubs \ (Admitted(r) \ unadmitted) :
                  Cardinality((Admitted(r) \ unadmitted) \cup {p}) = flight[r] + 1
           /\ \A p \in Admitted(r) \ unadmitted :
                  Cardinality((Admitted(r) \ unadmitted) \ {p}) = flight[r] - 1
<1> DEFINE A == Admitted(r) \ unadmitted
<1>1. A \subseteq Pubs
    BY DEF Admitted
<1>2. IsFiniteSet(A)
    BY <1>1, NamesAssumption, FS_Subset
<1>3. flight[r] = Cardinality(A)
    BY DEF InFlightExact
<1>4. A = {} <=> Admitted(r) \subseteq unadmitted
    OBVIOUS
<1> HIDE DEF A
<1>5. Cardinality(A) \in Nat /\ (Cardinality(A) = 0 <=> A = {})
    BY <1>2, FS_CardinalityType, FS_EmptySet
<1>6. /\ \A p \in Pubs \ A : Cardinality(A \cup {p}) = flight[r] + 1
      /\ \A p \in A : Cardinality(A \ {p}) = flight[r] - 1
    BY <1>2, <1>3, FS_AddElement, FS_RemoveElement
<1> QED
    BY <1>2, <1>3, <1>4, <1>5, <1>6 DEF A

\* The three things a publisher's step can do to a ring's admissions.
Enters(p) == /\ pub[p].pc = "ring" /\ state[pub[p].ring] = "Live"
             /\ pub'[p].pc = "claim" /\ pub'[p].ring = pub[p].ring
             /\ flight' = [flight EXCEPT ![pub[p].ring] = @ + 1]
Exits(p) == /\ pub[p].pc = "leave" /\ pub'[p].pc \in Outside
            /\ flight' = [flight EXCEPT ![pub[p].ring] = @ - 1]
Stays(p) == /\ flight' = flight
            /\ \/ pub[p].pc \in Outside /\ pub'[p].pc \in Outside
               \/ /\ pub[p].pc \notin Outside /\ pub'[p].pc \notin Outside
                  /\ pub'[p].ring = pub[p].ring

\* A publisher action enters a ring, leaves it, or keeps the admission as it is.
LEMMA PubAdmission ==
    ASSUME TypeInv, NEW p \in Pubs, PubNext(p)
    PROVE  /\ p \in alive
           /\ UNCHANGED <<state, owner, sub, alive, unadmitted>>
           /\ Enters(p) \/ Exits(p) \/ Stays(p)
<1> USE DEF PubAt, Goto, Keep, Outside
<1>1. pub \in [Pubs -> PubType] /\ pub[p] \in PubType /\ p \in alive
    BY DEF TypeInv, TypeOK, PubNext, PubStep, Allocate, AllocateFails, ReleasePending, Preset, Admit,
        PassRing, ClaimPos, WaitFirst, WaitDone, WaitTimeout, LockEntry, LockRetry, LockGiveUp,
        HealLook, HealSteal, HealSkip, CheckLock, TakeClaim, ReleasePrev, PushPrev, Commit,
        LeaveRing, Finish, Recycle
<1>2. UNCHANGED <<state, owner, sub, alive, unadmitted>>
    BY DEF PubNext, PubStep, ringVars, entryVars, slotVars, subVars, ghostVars, Allocate,
        AllocateFails, ReleasePending, Preset, Admit, PassRing, ClaimPos, WaitFirst, WaitDone,
        WaitTimeout, LockEntry, LockRetry, LockGiveUp, HealLook, HealSteal, HealSkip, CheckLock,
        TakeClaim, ReleasePrev, PushPrev, Commit, LeaveRing, Finish, Recycle
<1> SUFFICES Enters(p) \/ Exits(p) \/ Stays(p)
    BY <1>1, <1>2
<1>3. CASE Admit(p)
    BY <1>1, <1>3 DEF Admit, Enters, PubType
<1>4. CASE LeaveRing(p)
    <2>1. pub'[p] = NextRing(pub[p]) /\ pub[p].slot \in Slots
        BY <1>1, <1>4 DEF LeaveRing, TypeInv, Shape
    <2>2. pub'[p].pc \in Outside
        BY <1>1, <2>1, NextRingType
    <2> QED
        BY <1>4, <2>2 DEF LeaveRing, Exits
<1>5. CASE PassRing(p)
    <2> DEFINE rec == [pub[p] EXCEPT !.excess = @ + 1]
    <2>1. rec \in PubType /\ rec.slot \in Slots
        <3>1. pub[p].slot \in Slots
            BY <1>5 DEF PassRing, TypeInv, Shape
        <3> QED
            BY <1>1, <3>1 DEF PubType
    <2>2. pub'[p] = NextRing(rec)
        BY <1>1, <1>5 DEF PassRing
    <2> HIDE DEF rec
    <2>3. pub'[p].pc \in Outside
        BY <2>1, <2>2, NextRingType
    <2> QED
        BY <1>5, <2>3 DEF PassRing, Stays, ringVars
<1>6. CASE Allocate(p) \/ AllocateFails(p) \/ Preset(p)
    BY <1>1, <1>6 DEF Allocate, AllocateFails, Preset, Stays, ringVars, PubType
<1>7. CASE ReleasePending(p) \/ Recycle(p) \/ Finish(p)
    <2>1. pub[p].pc \in Outside /\ pub'[p].pc \in Outside
        BY <1>1, <1>7 DEF ReleasePending, Recycle, Finish, PubIdle, PubType
    <2> QED
        BY <1>7, <2>1 DEF ReleasePending, Recycle, Finish, Stays, ringVars
<1>8. CASE ClaimPos(p)
    BY <1>1, <1>8 DEF ClaimPos, Stays, PubType
<1>9. CASE WaitFirst(p) \/ WaitDone(p) \/ WaitTimeout(p)
    BY <1>1, <1>9 DEF WaitFirst, WaitDone, WaitTimeout, WaitEnds, Stays, ringVars, PubType
<1>10. CASE LockEntry(p) \/ LockRetry(p) \/ LockGiveUp(p)
    BY <1>1, <1>10 DEF LockEntry, LockRetry, LockGiveUp, Stays, ringVars, PubType
<1>11. CASE HealLook(p) \/ HealSteal(p) \/ HealSkip(p) \/ CheckLock(p) \/ Commit(p)
    BY <1>1, <1>11 DEF HealLook, HealSteal, HealSkip, CheckLock, Commit, Stays, ringVars, PubType
<1>12. CASE TakeClaim(p) \/ ReleasePrev(p) \/ PushPrev(p)
    BY <1>1, <1>12 DEF TakeClaim, ReleasePrev, PushPrev, Stays, ringVars, PubType
<1> QED
    BY <1>3, <1>4, <1>5, <1>6, <1>7, <1>8, <1>9, <1>10, <1>11, <1>12 DEF PubNext, PubStep

\* Publisher steps keep in_flight exact.
LEMMA PubTenancy ==
    ASSUME TypeInv, TenancyInv, NEW p \in Pubs, PubNext(p)
    PROVE  TenancyInv'
<1>1. /\ p \in alive /\ p \notin unadmitted
      /\ UNCHANGED <<state, owner, sub, alive, unadmitted>>
      /\ Enters(p) \/ Exits(p) \/ Stays(p)
      /\ \A q \in Pubs : q # p => pub'[q] = pub[q]
      /\ pub[p].ring \in Rings /\ flight \in [Rings -> Int]
    BY PubAdmission, PubStepMoves DEF TenancyInv, DeadAreReset, PubMoves, TypeInv, TypeOK, PubType
<1>2. ASSUME NEW r \in Rings
      PROVE  flight'[r] = Cardinality(Admitted(r)' \ unadmitted')
    <2> DEFINE A == Admitted(r) \ unadmitted
    <2>1. /\ flight[r] = Cardinality(A)
          /\ \A q \in Pubs \ A : Cardinality(A \cup {q}) = flight[r] + 1
          /\ \A q \in A : Cardinality(A \ {q}) = flight[r] - 1
        BY AdmittedCounts DEF TenancyInv, InFlightExact
    <2>2. CASE Enters(p) /\ pub[p].ring = r
        <3>1. Admitted(r)' \ unadmitted' = A \cup {p} /\ p \notin A
            BY <1>1, <2>2 DEF Enters, Admitted
        <3> QED
            BY <1>1, <2>1, <2>2, <3>1 DEF Enters
    <2>3. CASE Exits(p) /\ pub[p].ring = r
        <3>1. Admitted(r)' \ unadmitted' = A \ {p} /\ p \in A
            BY <1>1, <2>3 DEF Exits, Admitted, Outside
        <3> QED
            BY <1>1, <2>1, <2>3, <3>1 DEF Exits
    <2>4. CASE Stays(p) \/ pub[p].ring # r
        <3>1. Admitted(r)' \ unadmitted' = A
            BY <1>1, <2>4 DEF Enters, Exits, Stays, Admitted, Outside
        <3>2. flight'[r] = flight[r]
            BY <1>1, <2>4 DEF Enters, Exits, Stays
        <3> QED
            BY <2>1, <3>1, <3>2
    <2> QED
        BY <1>1, <2>2, <2>3, <2>4
<1>3. OneHolder' /\ HolderState' /\ LiveIsNamed' /\ OwnerHolds' /\ DeadAreReset'
    BY <1>1 DEF TenancyInv, OneHolder, HolderState, LiveIsNamed, OwnerHolds, DeadAreReset, Holds
<1>4. QuietHolds'
    <2> SUFFICES ASSUME NEW r \in Rings, NEW u \in Subs, Holds(u, r),
                        sub[u].pc \in Quieted \/ (sub[u].pc = "clear" /\ sub[u].quiet)
                 PROVE  flight'[r] = 0
        BY <1>1 DEF QuietHolds, Holds
    <2>1. flight[r] = 0 /\ state[r] = "Draining"
        BY DEF TenancyInv, QuietHolds, HolderState, Quieted, Serving
    <2>2. Admitted(r) \subseteq unadmitted
        BY <2>1, AdmittedCounts DEF TenancyInv
    <2>3. ~(Exits(p) /\ pub[p].ring = r)
        BY <1>1, <2>2 DEF Exits, Admitted
    <2> QED
        BY <1>1, <2>1, <2>3 DEF Enters, Exits, Stays
<1> QED
    BY <1>2, <1>3, <1>4 DEF TenancyInv, InFlightExact

-----------------------------------------------------------------------------
\* A step of the receive loop, of the drain loop or of the search for a ring.
Reading  == {"seek", "ready", "seq", "meta", "pin", "check", "unpin"}
Apart    == {"out", "join", "cas"}

Continues(u) ==
    /\ UNCHANGED <<state, flight, owner>>
    /\ \/ sub' = sub
       \/ sub[u].pc \in Apart /\ sub'[u].pc \in Apart
       \/ /\ sub'[u].ring = sub[u].ring
          /\ \/ sub[u].pc \in Reading /\ sub'[u].pc \in Reading
             \/ sub[u].pc \in Quieted /\ sub'[u].pc \in Quieted

\* A subscriber action is a step of the tenancy protocol or leaves tenancy alone.
LEMMA SubTenure ==
    ASSUME TypeInv, NEW u \in Subs, SubNext(u)
    PROVE  /\ u \in alive
           /\ UNCHANGED <<pub, alive, unadmitted>>
           /\ \/ JoinClaim(u) \/ JoinOwn(u) \/ Leave(u) \/ Quiesced(u) \/ QuiesceTimeout(u)
              \/ ClearOwner(u) \/ FreeRing(u) \/ RetireRing(u) \/ Continues(u)
<1> USE DEF SubAt, GotoSub, Apart, Reading, Quieted
<1>1. /\ sub \in [Subs -> SubType] /\ sub[u] \in SubType
      /\ \A n \in Nat : SubOut(n).pc = "out"
    BY SMTT(30) DEF TypeInv, TypeOK, SubOut
<1>2. u \in alive /\ UNCHANGED <<pub, alive, unadmitted>>
    BY DEF SubNext, SubStep, ghostVars, Join, JoinFloor, JoinClaim, JoinNext, JoinOwn, JoinSeek,
        Poll, LookSeq, LookMeta, Pin, Deliver, Overtaken, Unpin, PushSlot, DropView, Leave, Quiesced,
        QuiesceTimeout, ClearOwner, DrainWindow, DrainLook, DrainClear, DrainDrop, FreeRing, RetireRing
<1> SUFFICES \/ JoinClaim(u) \/ JoinOwn(u) \/ Leave(u) \/ Quiesced(u) \/ QuiesceTimeout(u)
              \/ ClearOwner(u) \/ FreeRing(u) \/ RetireRing(u) \/ Continues(u)
    BY <1>2
<1>3. CASE Join(u) \/ JoinFloor(u)
    BY <1>1, <1>3 DEF Join, JoinFloor, Floor, Continues, ringVars, SubType
<1>4. CASE JoinNext(u)
    <2>1. sub'[u].pc \in {"out", "join"}
        <3>1. CASE LastRing(sub[u].ring)
            BY <1>1, <1>4, <3>1 DEF JoinNext, SubType
        <3>2. CASE ~LastRing(sub[u].ring)
            BY <1>1, <1>4, <3>2 DEF JoinNext, SubType
        <3> QED
            BY <3>1, <3>2
    <2> QED
        BY <1>4, <2>1 DEF JoinNext, Continues, ringVars
<1>5. CASE JoinSeek(u) \/ Poll(u)
    BY <1>1, <1>5 DEF JoinSeek, Poll, Continues, ringVars, SubType
<1>6. CASE LookSeq(u)
    <2>1. GotoSub(u, "meta") \/ GotoSub(u, "ready") \/ Lose(u)
        BY <1>6 DEF LookSeq
    <2> QED
        BY <1>1, <1>6, <2>1 DEF LookSeq, Lose, Continues, ringVars, SubType
<1>7. CASE LookMeta(u) \/ Pin(u) \/ Unpin(u)
    BY <1>1, <1>7 DEF LookMeta, Pin, Unpin, Lose, Continues, ringVars, SubType
<1>8. CASE Deliver(u) \/ Overtaken(u) \/ PushSlot(u) \/ \E v \in views[u] : DropView(u, v)
    BY <1>1, <1>8 DEF Deliver, Overtaken, PushSlot, DropView, Continues, ringVars, SubType
<1>9. CASE DrainWindow(u) \/ DrainLook(u) \/ DrainDrop(u)
    BY <1>1, <1>9 DEF DrainWindow, DrainLook, DrainDrop, Continues, ringVars, SubType
<1>10. CASE DrainClear(u)
    <2>1. sub'[u].pc \in {"unref", "drain"} /\ sub'[u].ring = sub[u].ring
        <3> DEFINE next == [sub[u] EXCEPT !.claim = MetaZero]
                   gone == [next EXCEPT !.pc = "unref", !.slot = sub[u].claim.slot]
                   left == [next EXCEPT !.pc = "drain", !.pos = @ + 1]
        <3>1. sub' = [sub EXCEPT ![u] = gone] \/ sub' = [sub EXCEPT ![u] = left]
            BY <1>10 DEF DrainClear
        <3>2. /\ gone.pc = "unref" /\ gone.ring = sub[u].ring
              /\ left.pc = "drain" /\ left.ring = sub[u].ring
            BY <1>1 DEF SubType
        <3> HIDE DEF gone, left
        <3> QED
            BY <1>1, <3>1, <3>2
    <2> QED
        BY <1>10, <2>1 DEF DrainClear, Continues, ringVars
<1> QED
    BY <1>3, <1>4, <1>5, <1>6, <1>7, <1>8, <1>9, <1>10 DEF SubNext, SubStep

\* Subscriber steps keep the tenancy invariant.
LEMMA SubTenancy ==
    ASSUME TypeInv, TenancyInv, NEW u \in Subs, SubNext(u)
    PROVE  TenancyInv'
<1> USE DEF SubAt, GotoSub
<1> DEFINE r0 == sub[u].ring
           Elsewhere == \A v \in Subs, r \in Rings : v # u => (Holds(v, r)' <=> Holds(v, r))
           Tenure == OneHolder /\ HolderState /\ LiveIsNamed /\ OwnerHolds /\ QuietHolds
<1>1. /\ sub \in [Subs -> SubType] /\ sub[u] \in SubType /\ r0 \in Rings
      /\ state \in [Rings -> RingStates] /\ flight \in [Rings -> Int]
      /\ owner \in [Rings -> Subs \cup {NoOwner}] /\ NoOwner \notin Subs
    BY NamesAssumption DEF TypeInv, TypeOK, SubType
<1>2. u \in alive /\ UNCHANGED <<pub, alive, unadmitted>>
    BY SubTenure
<1>3. \A v \in Subs : v # u => sub'[v] = sub[v]
    BY <1>1, SubStepMoves DEF SubMoves
<1>4. Tenure
    BY DEF TenancyInv
<1>5. DeadAreReset' /\ \A r \in Rings : Admitted(r)' = Admitted(r)
    BY <1>2 DEF TenancyInv, DeadAreReset, Admitted
<1>6. (\A r \in Rings : flight'[r] = flight[r]) => InFlightExact'
    BY <1>2, <1>5 DEF TenancyInv, InFlightExact
<1> USE DEF OneHolder, HolderState, LiveIsNamed, OwnerHolds, QuietHolds, Unnamed, Named,
        Serving, Quieted
<1>7. CASE Continues(u)
    <2>1. InFlightExact'
        BY <1>6, <1>7 DEF Continues
    <2>2. Elsewhere /\ \A r \in Rings : Holds(u, r)' <=> Holds(u, r)
        BY <1>1, <1>3, <1>7 DEF Continues, Apart, Reading, Holds
    <2>3. OneHolder' /\ HolderState'
        BY <1>3, <1>4, <1>7, <2>2 DEF Continues, Apart, Reading, Holds
    <2>4. LiveIsNamed' /\ OwnerHolds' /\ QuietHolds'
        BY <1>2, <1>3, <1>4, <1>7, <2>2 DEF Continues, Apart, Reading, Holds
    <2> QED
        BY <1>5, <2>1, <2>3, <2>4 DEF TenancyInv
<1>8. CASE JoinClaim(u)
    <2>1. /\ state' = [state EXCEPT ![r0] = "Live"] /\ UNCHANGED <<flight, owner>>
          /\ state[r0] = "Free" /\ flight[r0] = 0
          /\ sub[u].pc = "cas" /\ sub'[u].pc = "own" /\ sub'[u].ring = r0
        BY <1>1, <1>8 DEF JoinClaim, SubType
    <2>2. Elsewhere /\ \A r \in Rings : Holds(u, r)' <=> r = r0
        BY <1>3, <2>1 DEF Holds
    <2>3. \A v \in Subs : ~Holds(v, r0)
        BY <1>1, <1>4, <2>1
    <2>4. OneHolder' /\ HolderState'
        BY <1>1, <1>3, <1>4, <2>1, <2>2, <2>3
    <2>5. LiveIsNamed' /\ QuietHolds'
        BY <1>1, <1>2, <1>3, <1>4, <2>1, <2>2, <2>3
    <2>6. OwnerHolds'
        BY <1>1, <1>3, <1>4, <2>1, <2>2, <2>3 DEF Holds
    <2> QED
        BY <1>5, <1>6, <2>1, <2>4, <2>5, <2>6 DEF TenancyInv
<1>9. ASSUME Holds(u, r0) PROVE \A v \in Subs : Holds(v, r0) \/ owner[r0] = v => v = u
    BY <1>1, <1>4, <1>9 DEF Holds
<1>10. CASE JoinOwn(u)
    <2>1. /\ owner' = [owner EXCEPT ![r0] = u] /\ UNCHANGED <<flight, state>>
          /\ sub[u].pc = "own" /\ sub'[u].pc = "seek" /\ sub'[u].ring = r0
        BY <1>1, <1>10 DEF JoinOwn, SubType
    <2>2. Holds(u, r0)
        BY <2>1 DEF Holds
    <2>3. Elsewhere /\ \A r \in Rings : Holds(u, r)' <=> r = r0
        BY <1>1, <1>3, <1>9, <2>1, <2>2 DEF Holds
    <2>4. OneHolder' /\ HolderState'
        BY <1>1, <1>3, <1>4, <1>9, <2>1, <2>2, <2>3
    <2>5. LiveIsNamed' /\ OwnerHolds' /\ QuietHolds'
        BY <1>1, <1>2, <1>3, <1>4, <1>9, <2>1, <2>2, <2>3 DEF Holds
    <2> QED
        BY <1>5, <1>6, <2>1, <2>4, <2>5 DEF TenancyInv
<1>11. CASE Leave(u)
    <2>1. /\ state' = [state EXCEPT ![r0] = "Draining"] /\ UNCHANGED <<flight, owner>>
          /\ sub[u].pc = "ready" /\ sub'[u].pc = "quiesce" /\ sub'[u].ring = r0
        BY <1>1, <1>11 DEF Leave, SubType
    <2>2. Holds(u, r0)
        BY <1>2, <1>4, <2>1 DEF Holds
    <2>3. Elsewhere /\ \A r \in Rings : Holds(u, r)' <=> r = r0
        BY <1>1, <1>2, <1>3, <1>4, <2>1 DEF Holds
    <2>4. OneHolder' /\ HolderState'
        BY <1>1, <1>3, <1>4, <1>9, <2>1, <2>2, <2>3
    <2>5. LiveIsNamed' /\ QuietHolds'
        BY <1>1, <1>2, <1>3, <1>4, <1>9, <2>1, <2>2, <2>3
    <2>6. OwnerHolds'
        BY <1>1, <1>3, <1>4, <2>1, <2>2, <2>3 DEF Holds
    <2> QED
        BY <1>5, <1>6, <2>1, <2>4, <2>5, <2>6 DEF TenancyInv
<1>12. CASE Quiesced(u) \/ QuiesceTimeout(u)
    <2>1. /\ UNCHANGED <<state, flight, owner>>
          /\ sub[u].pc = "quiesce" /\ sub'[u].pc = "clear" /\ sub'[u].ring = r0
          /\ sub'[u].quiet => flight[r0] = 0
        BY <1>1, <1>12 DEF Quiesced, QuiesceTimeout, Quiet, SubType, ringVars
    <2>2. Holds(u, r0)
        BY <1>2, <1>4, <2>1 DEF Holds
    <2>3. Elsewhere /\ \A r \in Rings : Holds(u, r)' <=> r = r0
        BY <1>1, <1>2, <1>3, <1>4, <2>1 DEF Holds
    <2>4. OneHolder' /\ HolderState'
        BY <1>1, <1>3, <1>4, <1>9, <2>1, <2>2, <2>3
    <2>5. LiveIsNamed' /\ QuietHolds'
        BY <1>1, <1>2, <1>3, <1>4, <1>9, <2>1, <2>2, <2>3
    <2>6. OwnerHolds'
        BY <1>1, <1>3, <1>4, <2>1, <2>2, <2>3 DEF Holds
    <2> QED
        BY <1>5, <1>6, <2>1, <2>4, <2>5, <2>6 DEF TenancyInv
<1>13. CASE ClearOwner(u)
    <2>1. /\ owner' = [owner EXCEPT ![r0] = NoOwner] /\ UNCHANGED <<state, flight>>
          /\ sub[u].pc = "clear" /\ sub'[u].ring = r0
          /\ sub'[u].pc = IF sub[u].quiet THEN "window" ELSE "retire"
        BY <1>1, <1>13 DEF ClearOwner, SubType
    <2>2. Holds(u, r0) /\ owner[r0] = u
        BY <1>2, <1>4, <2>1 DEF Holds
    <2>3. Elsewhere /\ \A r \in Rings : Holds(u, r)' <=> r = r0
        BY <1>1, <1>3, <1>9, <2>1, <2>2 DEF Holds
    <2>4. OneHolder' /\ HolderState'
        BY <1>1, <1>3, <1>4, <1>9, <2>1, <2>2, <2>3
    <2>5. LiveIsNamed'
        BY <1>1, <1>2, <1>3, <1>4, <2>1, <2>2
    <2>6. OwnerHolds'
        BY <1>1, <1>3, <1>4, <1>9, <2>1, <2>2, <2>3 DEF Holds
    <2>7. QuietHolds'
        BY <1>1, <1>3, <1>4, <1>9, <2>1, <2>2, <2>3
    <2> QED
        BY <1>5, <1>6, <2>1, <2>4, <2>5, <2>6, <2>7 DEF TenancyInv
<1>14. CASE FreeRing(u) \/ RetireRing(u)
    <2>1. sub'[u] = SubOut(sub[u].joins + 1)
        BY <1>1, <1>14 DEF FreeRing, RetireRing
    <2>2. /\ state' = [state EXCEPT ![r0] = "Free"] /\ owner' = owner
          /\ sub[u].pc \in {"drain", "retire"} /\ sub'[u].pc = "out"
          /\ flight' = flight \/ (sub[u].pc = "drain" /\ flight' = [flight EXCEPT ![r0] = 0])
        BY <1>14, <2>1 DEF FreeRing, RetireRing, SubOut
    <2>3. Holds(u, r0)
        BY <2>2 DEF Holds
    <2>4. owner[r0] = NoOwner
        BY <1>1, <1>4, <1>9, <2>2, <2>3 DEF Holds
    <2>5. \A r \in Rings : flight'[r] = flight[r]
        BY <1>1, <1>4, <2>2, <2>3
    <2>6. Elsewhere /\ \A r \in Rings : ~Holds(u, r)'
        BY <1>3, <2>2 DEF Holds
    <2>7. OneHolder' /\ HolderState'
        BY <1>1, <1>3, <1>4, <1>9, <2>2, <2>3, <2>6
    <2>8. LiveIsNamed' /\ OwnerHolds'
        BY <1>1, <1>2, <1>3, <1>4, <2>2, <2>4, <2>6 DEF Holds
    <2>9. QuietHolds'
        BY <1>1, <1>3, <1>4, <2>5, <2>6
    <2> QED
        BY <1>5, <1>6, <2>5, <2>7, <2>8, <2>9 DEF TenancyInv
<1> QED
    BY SubTenure, <1>7, <1>8, <1>10, <1>11, <1>12, <1>13, <1>14

-----------------------------------------------------------------------------
\* The operator's recovery calls keep the tenancy invariant.
LEMMA OperatorTenancy ==
    ASSUME TypeInv, TenancyInv, Operator
    PROVE  TenancyInv'
<1>1. /\ UNCHANGED <<pub, sub>>
      /\ state \in [Rings -> RingStates] /\ flight \in [Rings -> Int]
      /\ owner \in [Rings -> Subs \cup {NoOwner}] /\ NoOwner \notin Subs
    BY NamesAssumption DEF Operator, ResetRetiredRing, ReclaimDeadRing, ReclaimOrphanedSlots, CrashPub,
        CrashSub, subVars, TypeInv, TypeOK
<1>2. \A r \in Rings : Admitted(r)' = Admitted(r)
    BY <1>1 DEF Admitted
<1>3. /\ OneHolder /\ HolderState /\ LiveIsNamed /\ OwnerHolds /\ QuietHolds
      /\ DeadAreReset /\ InFlightExact
    BY DEF TenancyInv
<1> USE DEF OneHolder, HolderState, LiveIsNamed, OwnerHolds, QuietHolds, Unnamed, Named,
        Serving, Quieted
<1>4. ASSUME NEW r0 \in Rings, ResetRetiredRing(r0)
      PROVE  TenancyInv'
    <2>1. /\ UNCHANGED <<state, alive>> /\ state[r0] = "Free"
          /\ flight' = [flight EXCEPT ![r0] = 0] /\ owner' = [owner EXCEPT ![r0] = NoOwner]
          /\ unadmitted' = unadmitted \cup Admitted(r0) /\ Admitted(r0) \cap alive = {}
        BY <1>4 DEF ResetRetiredRing
    <2>2. \A u \in Subs : ~Holds(u, r0)
        BY <1>3, <2>1
    <2>3. owner[r0] = NoOwner
        BY <1>1, <1>3, <2>2 DEF Holds
    <2>4. owner' = owner /\ \A r \in Rings, u \in Subs : Holds(u, r)' <=> Holds(u, r)
        BY <1>1, <2>1, <2>3 DEF Holds
    <2>5. OneHolder' /\ HolderState' /\ LiveIsNamed' /\ OwnerHolds' /\ QuietHolds'
        BY <1>1, <1>3, <2>1, <2>2, <2>4
    <2>6. DeadAreReset'
        BY <1>3, <2>1 DEF DeadAreReset
    <2>7. InFlightExact'
        <3> SUFFICES ASSUME NEW r \in Rings
                     PROVE  flight'[r] = Cardinality(Admitted(r) \ unadmitted')
            BY <1>2 DEF InFlightExact
        <3>1. CASE r = r0
            <4>1. Admitted(r) \ unadmitted' = {}
                BY <2>1, <3>1
            <4> QED
                BY <1>1, <2>1, <3>1, <4>1, FS_EmptySet
        <3>2. CASE r # r0
            <4>1. Admitted(r) \ unadmitted' = Admitted(r) \ unadmitted
                <5>1. Admitted(r) \cap Admitted(r0) = {}
                    BY <3>2 DEF Admitted
                <5> QED
                    BY <2>1, <5>1
            <4> QED
                BY <1>1, <1>3, <2>1, <3>2, <4>1 DEF InFlightExact
        <3> QED
            BY <3>1, <3>2
    <2> QED
        BY <2>5, <2>6, <2>7 DEF TenancyInv
<1>5. ASSUME NEW r0 \in Rings, ReclaimDeadRing(r0)
      PROVE  TenancyInv'
    <2>1. /\ UNCHANGED <<flight, alive, unadmitted>>
          /\ state' = [state EXCEPT ![r0] = "Free"] /\ owner' = [owner EXCEPT ![r0] = NoOwner]
          /\ owner[r0] \in Subs \ alive
        BY <1>1, <1>5, NamesAssumption DEF ReclaimDeadRing, FreedFlight, Dead, TypeInv, TypeOK
    <2>2. Holds(owner[r0], r0)
        BY <1>3, <2>1 DEF Holds
    <2>3. \A u \in Subs : ~Holds(u, r0)'
        BY <1>1, <1>3, <2>1, <2>2 DEF Holds
    <2>4. \A r \in Rings, u \in Subs : r # r0 => (Holds(u, r)' <=> Holds(u, r))
        BY <1>1, <2>1 DEF Holds
    <2>5. OneHolder' /\ HolderState' /\ QuietHolds'
        BY <1>1, <1>3, <2>1, <2>3, <2>4
    <2>6. LiveIsNamed'
        BY <1>1, <1>3, <2>1
    <2>7. OwnerHolds'
        BY <1>1, <1>3, <2>1
    <2>8. DeadAreReset' /\ InFlightExact'
        BY <1>2, <1>3, <2>1 DEF DeadAreReset, InFlightExact
    <2> QED
        BY <2>5, <2>6, <2>7, <2>8 DEF TenancyInv
<1>6. CASE ReclaimOrphanedSlots \/ (\E p \in Pubs : CrashPub(p)) \/ (\E u \in Subs : CrashSub(u))
    <2>1. UNCHANGED <<state, flight, owner, unadmitted>> /\ alive' \subseteq alive
        BY <1>6 DEF ReclaimOrphanedSlots, CrashPub, CrashSub, ringVars, ghostVars
    <2>2. \A r \in Rings, u \in Subs : Holds(u, r)' <=> Holds(u, r)
        BY <1>1, <2>1 DEF Holds
    <2>3. OneHolder' /\ HolderState' /\ LiveIsNamed' /\ OwnerHolds' /\ QuietHolds'
        BY <1>1, <1>3, <2>1, <2>2
    <2>4. DeadAreReset' /\ InFlightExact'
        BY <1>2, <1>3, <2>1 DEF DeadAreReset, InFlightExact
    <2> QED
        BY <2>3, <2>4 DEF TenancyInv
<1> QED
    BY <1>4, <1>5, <1>6 DEF Operator

\* A step that touches neither state_flight nor an admission keeps the invariant.
LEMMA QuietTenancy ==
    ASSUME TenancyInv, UNCHANGED <<state, flight, owner, pub, sub, alive, unadmitted>>
    PROVE  TenancyInv'
<1>1. \A r \in Rings : Admitted(r)' = Admitted(r)
    BY DEF Admitted
<1> QED
    BY <1>1 DEF TenancyInv, OneHolder, HolderState, LiveIsNamed, OwnerHolds, QuietHolds, Holds,
        DeadAreReset, InFlightExact

\* Every step keeps the tenancy invariant.
LEMMA StepTenancy ==
    ASSUME TypeInv, TenancyInv, [Next]_vars
    PROVE  TenancyInv'
<1>1. CASE UNCHANGED vars
    BY <1>1, QuietTenancy DEF vars, ringVars, subVars, ghostVars
<1>2. CASE RepairStart \/ GcStep \/ CrashRepairer
    BY <1>2, QuietTenancy DEF RepairStart, GcStep, CrashRepairer, RepairRing, RepairLook,
        RepairSteal, RepairSkip, RepairGrace, RepairGraceSkip, ringVars, subVars, ghostVars
<1> QED
    BY <1>1, <1>2, NextSplits, PubTenancy, SubTenancy, OperatorTenancy

\* A freshly stamped region satisfies the tenancy invariant.
LEMMA InitTenancy == Init => TenancyInv
<1> SUFFICES ASSUME Init PROVE TenancyInv
    OBVIOUS
<1>1. \A r \in Rings : Admitted(r) \ unadmitted = {}
    BY DEF Init, Admitted, PubIdle
<1>2. InFlightExact
    BY <1>1, FS_EmptySet DEF Init, InFlightExact
<1>3. \A u \in Subs : sub[u].pc = "out"
    BY DEF Init, SubOut
<1> QED
    BY <1>2, <1>3, NamesAssumption DEF Init, TenancyInv, OneHolder, HolderState, LiveIsNamed,
        OwnerHolds, QuietHolds, Holds, Unnamed, Named, Quieted, DeadAreReset

\* The tenancy invariant and the types hold throughout.
LEMMA ChannelTenancy == Spec => [](TypeInv /\ TenancyInv)
<1>1. Init => TypeInv /\ TenancyInv
    BY InitTypes, InitTenancy
<1>2. TypeInv /\ TenancyInv /\ [Next]_vars => (TypeInv /\ TenancyInv)'
    BY StepTypes, StepTenancy
<1> QED
    BY <1>1, <1>2, PTL DEF Spec

\* in_flight is the number of publishers between their admission to the ring and
\* their decrement, through hand-over, retirement, reclaim and reset: the packed
\* decrement never borrows from the state bits.
THEOREM ChannelInFlightExact == Spec => []InFlightExact
<1>1. TypeInv /\ TenancyInv => InFlightExact
    BY DEF TenancyInv
<1> QED
    BY <1>1, ChannelTenancy, PTL

\* A subscriber that drains is alone with its ring: no admitted publisher can
\* still claim a position or take an entry over.
THEOREM ChannelDrainIsAlone == Spec => []DrainIsAlone
<1>1. TypeInv /\ TenancyInv => DrainIsAlone
    <2> SUFFICES ASSUME TypeInv, TenancyInv, NEW u \in Subs, sub[u].pc \in Quieted
                 PROVE  Admitted(sub[u].ring) \subseteq unadmitted
        BY DEF DrainIsAlone, Quieted
    <2>1. sub[u].ring \in Rings
        BY DEF TypeInv, TypeOK, SubType
    <2>2. flight[sub[u].ring] = 0
        BY <2>1 DEF TenancyInv, QuietHolds, Holds, Unnamed, Quieted
    <2> QED
        BY <2>1, <2>2, AdmittedCounts DEF TenancyInv
<1> QED
    BY <1>1, ChannelTenancy, PTL

-----------------------------------------------------------------------------
(***************************************************************************)
(* The drain.  A ring that was always handed over by a drain is empty when *)
(* it is Free: DrainInv follows its claims from the tenancy that made them *)
(* into the window of drain_unconsumed() and out of it.                    *)
(***************************************************************************)
\* Before it drains, and while it drains.
Undrained == Serving \cup {"quiesce", "clear", "window", "retire"}
Drains    == {"drain", "unclaim", "unref"}

\* A claim left in an entry was made for a position of that entry.
ClaimsFit ==
    \A r \in Rings, i \in Index : meta[r][i].slot # NoSlot =>
        meta[r][i].tag \in 1..writePos[r] /\ (meta[r][i].tag - 1) % Capacity = i

\* A publisher past its claim works on a position that was claimed.
PositionsFit ==
    \A p \in Pubs : pub[p].pc \notin Outside \cup {"claim"} => pub[p].pos < writePos[pub[p].ring]

\* write_pos is never behind a floor that was read from it ...
FloorsAreOld ==
    \A u \in Subs : sub[u].pc \in {"cas"} \cup Undrained => sub[u].start <= writePos[sub[u].ring]

\* ... nor behind the attach, and neither is what the subscriber reads.
ReadsForward ==
    \A u \in Subs : /\ sub[u].pc \in Serving => since[u] <= writePos[sub[u].ring]
                    /\ sub[u].pc \in Serving \ {"own", "seek"} => since[u] <= sub[u].read

\* In a ring that was always drained, whatever is claimed or will be claimed by a
\* publisher inside belongs to the present tenancy.
TenancyIsWhole ==
    \A r \in Rings \ stranded, u \in Subs : Holds(u, r) =>
        /\ \A p \in Admitted(r) \ unadmitted : pub[p].pc # "claim" => sub[u].start <= pub[p].pos
        /\ sub[u].pc \in Undrained =>
               \A i \in Index : meta[r][i].slot # NoSlot => sub[u].start < meta[r][i].tag

\* What is still claimed lies in what is left of the drain window.
Remains(u, i) == \E q \in sub[u].pos..(sub[u].wp - 1) : q % Capacity = i

\* The drain leaves nothing behind that it has passed; it works on the claim it saw.
DrainIsComplete ==
    \A u \in Subs : sub[u].pc \in Drains /\ sub[u].ring \notin stranded =>
        /\ \A i \in Index : meta[sub[u].ring][i].slot # NoSlot => Remains(u, i)
        /\ sub[u].pc = "unclaim" => At(meta, sub[u].ring, sub[u].pos) = sub[u].claim
        /\ sub[u].pc = "unref" => At(meta, sub[u].ring, sub[u].pos).slot = NoSlot

\* A ring that was always drained is Free with no claim and nobody inside.
FreeIsEmpty ==
    \A r \in Rings \ stranded : state[r] = "Free" =>
        flight[r] = 0 /\ \A i \in Index : meta[r][i].slot = NoSlot

DrainInv ==
    /\ ClaimsFit /\ PositionsFit /\ FloorsAreOld /\ ReadsForward
    /\ TenancyIsWhole /\ DrainIsComplete /\ FreeIsEmpty

-----------------------------------------------------------------------------
\* Division with remainder.
LEMMA Remainder ==
    ASSUME NEW c \in Nat \ {0}, NEW k \in Int, NEW i \in 0..(c - 1)
    PROVE  (c * k + i) % c = i
OBVIOUS

\* A window as long as the ring meets every entry.
LEMMA WindowMeetsAll ==
    ASSUME NEW w \in Nat, NEW i \in Index
    PROVE  \E q \in (w - Capacity)..(w - 1) : q % Capacity = i
<1> DEFINE a == w \div Capacity
           b == w % Capacity
<1>1. Capacity \in Nat \ {0} /\ i \in 0..(Capacity - 1)
    BY SizesAssumption DEF Index
<1>2. a \in Int /\ b \in 0..(Capacity - 1) /\ w = Capacity * a + b
    BY <1>1
<1> HIDE DEF a, b
<1>3. CASE i < b
    <2>1. (Capacity * a + i) % Capacity = i
        BY <1>1, <1>2, Remainder
    <2>2. Capacity * a + i \in (w - Capacity)..(w - 1)
        BY <1>1, <1>2, <1>3
    <2> QED
        BY <2>1, <2>2
<1>4. CASE ~(i < b)
    <2>1. (Capacity * (a - 1) + i) % Capacity = i /\ Capacity * (a - 1) = Capacity * a - Capacity
        BY <1>1, <1>2, Remainder
    <2>2. Capacity * (a - 1) + i \in (w - Capacity)..(w - 1)
        BY <1>1, <1>2, <1>4, <2>1
    <2> QED
        BY <2>1, <2>2
<1> QED
    BY <1>3, <1>4

-----------------------------------------------------------------------------
\* What a publisher's step does to the positions and claims of its ring.
ClaimsPos(p) ==
    /\ pub[p].pc = "claim" /\ pub'[p].pc \notin Outside \cup {"claim"}
    /\ pub'[p].ring = pub[p].ring /\ pub'[p].pos = writePos[pub[p].ring]
    /\ writePos' = [writePos EXCEPT ![pub[p].ring] = @ + 1] /\ meta' = meta

Takes(p) ==
    /\ pub[p].pc = "take" /\ pub'[p].pc \notin Outside \cup {"claim"}
    /\ pub'[p].ring = pub[p].ring /\ pub'[p].pos = pub[p].pos
    /\ meta' = Put(meta, pub[p].ring, pub[p].pos, MetaClaim(pub[p].pos, pub[p].slot))
    /\ writePos' = writePos

KeepsPos(p) ==
    /\ meta' = meta /\ writePos' = writePos
    /\ \/ pub'[p].pc \in Outside \cup {"claim"}
       \/ /\ pub[p].pc \notin Outside \cup {"claim"}
          /\ pub'[p].ring = pub[p].ring /\ pub'[p].pos = pub[p].pos

\* A publisher's action claims a position, takes an entry over, or does neither.
LEMMA PubClaims ==
    ASSUME TypeInv, NEW p \in Pubs, PubNext(p)
    PROVE  ClaimsPos(p) \/ Takes(p) \/ KeepsPos(p)
<1> USE DEF PubAt, Goto, Keep, Outside
<1>1. pub \in [Pubs -> PubType] /\ pub[p] \in PubType
    BY DEF TypeInv, TypeOK
<1>2. CASE ClaimPos(p)
    BY <1>1, <1>2 DEF ClaimPos, ClaimsPos, PubType, entryVars
<1>3. CASE TakeClaim(p)
    BY <1>1, <1>3 DEF TakeClaim, Takes, KeepsPos, PubType, ringVars
<1>4. CASE LeaveRing(p) \/ PassRing(p)
    <2>1. pub'[p].pc \in Outside \cup {"claim"}
        <3>1. CASE LeaveRing(p)
            <4>1. pub'[p] = NextRing(pub[p]) /\ pub[p].slot \in Slots
                BY <1>1, <3>1 DEF LeaveRing, TypeInv, Shape
            <4> QED
                BY <1>1, <4>1, NextRingType
        <3>2. CASE PassRing(p)
            <4>1. Enters(p) \/ Exits(p) \/ Stays(p)
                BY PubAdmission
            <4> QED
                BY <3>2, <4>1 DEF PassRing, Enters, Exits, Stays
        <3> QED
            BY <1>4, <3>1, <3>2
    <2> QED
        BY <1>4, <2>1 DEF LeaveRing, PassRing, KeepsPos, ringVars, entryVars
<1>5. CASE Allocate(p) \/ AllocateFails(p) \/ Preset(p) \/ Admit(p)
    BY <1>1, <1>5 DEF Allocate, AllocateFails, Preset, Admit, KeepsPos, ringVars, entryVars, PubType
<1>6. CASE ReleasePending(p) \/ Recycle(p) \/ Finish(p)
    <2>1. pub'[p].pc \in Outside
        BY <1>1, <1>6 DEF ReleasePending, Recycle, Finish, PubIdle, PubType
    <2> QED
        BY <1>6, <2>1 DEF ReleasePending, Recycle, Finish, KeepsPos, ringVars, entryVars
<1>7. CASE WaitFirst(p) \/ WaitDone(p) \/ WaitTimeout(p)
    BY <1>1, <1>7 DEF WaitFirst, WaitDone, WaitTimeout, WaitEnds, KeepsPos, ringVars, entryVars, PubType
<1>8. CASE LockEntry(p) \/ LockRetry(p) \/ LockGiveUp(p)
    BY <1>1, <1>8 DEF LockEntry, LockRetry, LockGiveUp, KeepsPos, ringVars, entryVars, PubType
<1>9. CASE HealLook(p) \/ HealSteal(p) \/ HealSkip(p) \/ CheckLock(p) \/ Commit(p)
    BY <1>1, <1>9 DEF HealLook, HealSteal, HealSkip, CheckLock, Commit, KeepsPos, ringVars, entryVars, PubType
<1>10. CASE ReleasePrev(p) \/ PushPrev(p)
    BY <1>1, <1>10 DEF ReleasePrev, PushPrev, KeepsPos, ringVars, entryVars, PubType
<1> QED
    BY <1>2, <1>3, <1>4, <1>5, <1>6, <1>7, <1>8, <1>9, <1>10 DEF PubNext, PubStep

\* Publisher steps keep the drain invariant.
LEMMA PubDrain ==
    ASSUME TypeInv, TenancyInv, DrainInv, NEW p \in Pubs, PubNext(p)
    PROVE  DrainInv'
<1> DEFINE r0 == pub[p].ring
<1>1. /\ p \in alive /\ p \notin unadmitted /\ UNCHANGED <<state, owner, sub, alive, unadmitted>>
      /\ Enters(p) \/ Exits(p) \/ Stays(p)
      /\ ClaimsPos(p) \/ Takes(p) \/ KeepsPos(p)
      /\ \A q \in Pubs : q # p => pub'[q] = pub[q]
    BY PubAdmission, PubClaims, PubStepMoves DEF TenancyInv, DeadAreReset, PubMoves, TypeInv, TypeOK
<1>2. UNCHANGED <<since, stranded>>
    BY DEF PubNext, PubStep, ringVars, entryVars, slotVars, subVars, ghostVars, Allocate,
        AllocateFails, ReleasePending, Preset, Admit, PassRing, ClaimPos, WaitFirst, WaitDone,
        WaitTimeout, LockEntry, LockRetry, LockGiveUp, HealLook, HealSteal, HealSkip, CheckLock,
        TakeClaim, ReleasePrev, PushPrev, Commit, LeaveRing, Finish, Recycle
<1>3. /\ r0 \in Rings /\ pub[p].pos \in Nat /\ writePos \in [Rings -> Nat]
      /\ meta \in [Rings -> [Index -> MetaWord]] /\ flight \in [Rings -> Int]
      /\ \A q \in Pubs : pub[q].pos \in Nat /\ pub[q].ring \in Rings
      /\ \A u \in Subs : /\ sub[u].ring \in Rings /\ sub[u].pos \in Nat /\ sub[u].wp \in Nat
                         /\ sub[u].start \in Nat /\ sub[u].read \in Nat /\ since[u] \in Nat
    BY DEF TypeInv, TypeOK, PubType, SubType
<1>4. \A r \in Rings : writePos'[r] \in Nat /\ writePos[r] <= writePos'[r]
    BY <1>1, <1>3 DEF ClaimsPos, Takes, KeepsPos
<1>5. \A r \in Rings : pub[p].pc \notin Outside /\ r0 = r => flight[r] # 0
    <2>1. \A r \in Rings : flight[r] = 0 => Admitted(r) \subseteq unadmitted
        BY AdmittedCounts DEF TenancyInv
    <2> QED
        BY <1>1, <2>1 DEF Admitted, Outside
\* Only an admitted publisher takes an entry over, and only for its own position.
<1>6. \A r \in Rings, i \in Index :
          \/ meta'[r][i] = meta[r][i]
          \/ /\ Takes(p) /\ r = r0 /\ i = pub[p].pos % Capacity
             /\ meta'[r][i].tag = pub[p].pos + 1 /\ meta'[r][i].slot = pub[p].slot
    <2>1. CASE Takes(p)
        <3> DEFINE w == MetaClaim(pub[p].pos, pub[p].slot)
        <3>1. meta' = Put(meta, r0, pub[p].pos, w) /\ w.tag = pub[p].pos + 1 /\ w.slot = pub[p].slot
            BY <2>1 DEF Takes, MetaClaim
        <3> HIDE DEF w
        <3>2. /\ meta'[r0][pub[p].pos % Capacity] = w
              /\ \A s \in Rings, i \in Index :
                     s # r0 \/ i # pub[p].pos % Capacity => meta'[s][i] = meta[s][i]
            <4> DEFINE k == pub[p].pos % Capacity
            <4>1. k \in Index /\ meta' = [meta EXCEPT ![r0][k] = w]
                BY <1>3, <3>1, IndexInRange DEF Put
            <4> HIDE DEF k
            <4>2. meta'[r0][k] = w /\ \A s \in Rings, i \in Index : s # r0 \/ i # k => meta'[s][i] = meta[s][i]
                BY <1>3, <4>1
            <4> QED
                BY <4>2 DEF k
        <3> DEFINE k == pub[p].pos % Capacity
        <3>3. \A s \in Rings, i \in Index : meta'[s][i] = meta[s][i] \/ (s = r0 /\ i = k /\ meta'[s][i] = w)
            BY <3>2, Zenon
        <3> HIDE DEF k
        <3>4. \A s \in Rings, i \in Index :
                  \/ meta'[s][i] = meta[s][i]
                  \/ /\ Takes(p) /\ s = r0 /\ i = k
                     /\ meta'[s][i].tag = pub[p].pos + 1 /\ meta'[s][i].slot = pub[p].slot
            BY <2>1, <3>1, <3>3
        <3> QED
            BY <3>4 DEF k
    <2> QED
        BY <1>1, <2>1 DEF ClaimsPos, KeepsPos
<1>7. \A r \in Rings, i \in Index : flight[r] = 0 => meta'[r][i] = meta[r][i]
    BY <1>5, <1>6 DEF Takes, Outside
<1>8. ClaimsFit /\ PositionsFit /\ FloorsAreOld /\ ReadsForward /\ TenancyIsWhole /\ DrainIsComplete
      /\ FreeIsEmpty
    BY DEF DrainInv
<1>9. PositionsFit'
    BY <1>1, <1>3, <1>4, <1>8 DEF PositionsFit, ClaimsPos, Takes, KeepsPos, Outside
<1>10. ClaimsFit'
    <2> SUFFICES ASSUME NEW r \in Rings, NEW i \in Index, meta'[r][i].slot # NoSlot
                 PROVE  meta'[r][i].tag \in 1..writePos'[r] /\ (meta'[r][i].tag - 1) % Capacity = i
        BY DEF ClaimsFit
    <2>1. CASE meta'[r][i] = meta[r][i]
        <3>1. meta[r][i].tag \in 1..writePos[r] /\ (meta[r][i].tag - 1) % Capacity = i
            BY <2>1 DEF DrainInv, ClaimsFit
        <3> QED
            BY <1>3, <1>4, <2>1, <3>1
    <2>2. CASE Takes(p) /\ r = r0 /\ i = pub[p].pos % Capacity /\ meta'[r][i].tag = pub[p].pos + 1
        <3>1. pub[p].pos < writePos[r] /\ writePos' = writePos
            BY <1>8, <2>2 DEF PositionsFit, Takes, Outside
        <3>2. pub[p].pos + 1 \in 1..writePos[r] /\ (pub[p].pos + 1) - 1 = pub[p].pos
            <4>1. writePos[r] \in Nat /\ pub[p].pos \in Nat
                BY <1>3
            <4> QED
                BY <3>1, <4>1
        <3> QED
            BY <2>2, <3>1, <3>2, Zenon
    <2> QED
        BY <1>6, <2>1, <2>2
<1>11. FloorsAreOld' /\ ReadsForward'
    BY <1>1, <1>2, <1>3, <1>4, <1>8 DEF FloorsAreOld, ReadsForward
<1>12. TenancyIsWhole'
    <2> SUFFICES ASSUME NEW r \in Rings \ stranded, NEW u \in Subs, Holds(u, r)
                 PROVE  /\ \A q \in Admitted(r)' \ unadmitted : pub'[q].pc # "claim" => sub[u].start <= pub'[q].pos
                        /\ sub[u].pc \in Undrained =>
                              \A i \in Index : meta'[r][i].slot # NoSlot => sub[u].start < meta'[r][i].tag
        BY <1>1, <1>2 DEF TenancyIsWhole, Holds
    <2>1. /\ \A q \in Admitted(r) \ unadmitted : pub[q].pc # "claim" => sub[u].start <= pub[q].pos
          /\ sub[u].pc \in Undrained =>
                 \A i \in Index : meta[r][i].slot # NoSlot => sub[u].start < meta[r][i].tag
        BY <1>8 DEF TenancyIsWhole
    <2>2. sub[u].ring = r
        BY DEF Holds
    <2>3. ASSUME NEW q \in Admitted(r)' \ unadmitted, pub'[q].pc # "claim"
          PROVE  sub[u].start <= pub'[q].pos
        <3>1. CASE q # p
            BY <1>1, <2>1, <2>3, <3>1 DEF Admitted
        <3>2. CASE q = p /\ ClaimsPos(p)
            <4>1. sub[u].pc \in Undrained
                <5>1. r0 = r
                    BY <2>3, <3>2 DEF Admitted, ClaimsPos
                <5>2. flight[r] # 0
                    BY <1>5, <3>2, <5>1 DEF ClaimsPos, Outside
                <5>3. sub[u].pc \notin Drains
                    BY <5>2 DEF TenancyInv, QuietHolds, Drains, Quieted
                <5> QED
                    BY <5>3 DEF Holds, Undrained, Serving, Drains, Unnamed, Named
            <4>2. sub[u].start <= writePos[r]
                BY <1>8, <2>2, <4>1 DEF FloorsAreOld
            <4> QED
                BY <2>3, <3>2, <4>2 DEF ClaimsPos, Admitted
        <3>3. CASE q = p /\ ~ClaimsPos(p)
            <4>1. pub'[p].pc \notin Outside \cup {"claim"} /\ pub'[p].ring = r
                BY <2>3, <3>3 DEF Admitted, Outside
            <4>2. /\ pub[p].pc \notin Outside \cup {"claim"} /\ pub'[p].pos = pub[p].pos
                  /\ pub[p].ring = r
                BY <1>1, <3>3, <4>1 DEF Takes, KeepsPos, Outside
            <4>3. p \in Admitted(r) \ unadmitted
                BY <1>1, <4>2 DEF Admitted, Outside
            <4> QED
                BY <2>1, <3>3, <4>2, <4>3
        <3> QED
            BY <3>1, <3>2, <3>3
    <2>4. ASSUME NEW i \in Index, sub[u].pc \in Undrained, meta'[r][i].slot # NoSlot
          PROVE  sub[u].start < meta'[r][i].tag
        <3>1. CASE meta'[r][i] = meta[r][i]
            BY <2>1, <2>4, <3>1
        <3>2. CASE Takes(p) /\ r = r0 /\ meta'[r][i].tag = pub[p].pos + 1
            <4>1. p \in Admitted(r) \ unadmitted /\ pub[p].pc # "claim"
                BY <1>1, <3>2 DEF Admitted, Takes
            <4>2. sub[u].start <= pub[p].pos
                BY <2>1, <4>1
            <4> QED
                BY <1>3, <3>2, <4>2
        <3> QED
            BY <1>6, <3>1, <3>2
    <2> QED
        BY <2>3, <2>4
<1>13. DrainIsComplete'
    <2> SUFFICES ASSUME NEW u \in Subs, sub[u].pc \in Drains, sub[u].ring \notin stranded
                 PROVE  /\ \A i \in Index : meta'[sub[u].ring][i].slot # NoSlot => Remains(u, i)
                        /\ sub[u].pc = "unclaim" => At(meta', sub[u].ring, sub[u].pos) = sub[u].claim
                        /\ sub[u].pc = "unref" => At(meta', sub[u].ring, sub[u].pos).slot = NoSlot
        BY <1>1, <1>2 DEF DrainIsComplete, Remains, At
    <2>1. flight[sub[u].ring] = 0
        BY <1>3 DEF TenancyInv, QuietHolds, Holds, Unnamed, Quieted, Drains
    <2>2. \A i \in Index : meta'[sub[u].ring][i] = meta[sub[u].ring][i]
        BY <1>3, <1>7, <2>1
    <2>3. At(meta', sub[u].ring, sub[u].pos) = At(meta, sub[u].ring, sub[u].pos)
        BY <1>3, <2>2, IndexInRange DEF At
    <2> QED
        BY <1>8, <2>2, <2>3 DEF DrainIsComplete
<1>14. FreeIsEmpty'
    <2> SUFFICES ASSUME NEW r \in Rings \ stranded, state[r] = "Free"
                 PROVE  flight'[r] = 0 /\ \A i \in Index : meta'[r][i].slot = NoSlot
        BY <1>1, <1>2 DEF FreeIsEmpty
    <2>1. flight[r] = 0 /\ \A i \in Index : meta[r][i].slot = NoSlot
        BY <1>8 DEF FreeIsEmpty
    <2>2. flight'[r] = flight[r]
        BY <1>1, <1>3, <1>5, <2>1 DEF Enters, Exits, Stays, Outside
    <2> QED
        BY <1>7, <2>1, <2>2
<1> QED
    BY <1>9, <1>10, <1>11, <1>12, <1>13, <1>14 DEF DrainInv

-----------------------------------------------------------------------------
\* A subscriber's step outside of the drain, by what it does to its floor and its
\* read position.
Seeks(u) ==
    /\ sub'[u].pc \in Apart /\ sub'[u].ring \in Rings
    /\ sub'[u].pc = "cas" => sub'[u].start = writePos[sub'[u].ring]
    /\ UNCHANGED <<state, flight, since, stranded>>

Attaches(u) ==
    LET r == sub[u].ring
    IN  /\ sub[u].pc = "cas" /\ state[r] = "Free" /\ flight[r] = 0
        /\ state' = [state EXCEPT ![r] = "Live"] /\ since' = [since EXCEPT ![u] = writePos[r]]
        /\ sub'[u].pc = "own" /\ sub'[u].ring = r /\ sub'[u].start = sub[u].start
        /\ UNCHANGED <<flight, stranded>>

Follows(u) ==
    /\ sub[u].pc \in Undrained /\ sub'[u].pc \in Undrained
    /\ sub'[u].ring = sub[u].ring /\ sub'[u].start = sub[u].start
    /\ sub'[u].pc \in Serving => sub[u].pc \in Serving
    /\ \/ sub'[u].pc \notin Serving \ {"own", "seek"}
       \/ sub[u].pc = "seek" /\ sub'[u].read >= writePos[sub[u].ring]
       \/ sub[u].pc \in Serving \ {"own", "seek"} /\ sub'[u].read >= sub[u].read
    /\ UNCHANGED <<flight, since, stranded>>
    /\ \A r \in Rings : state'[r] = "Free" => state[r] = "Free"

\* Every subscriber action is one of these, or a step of the drain, or leaves it all alone.
LEMMA SubMarks ==
    ASSUME TypeInv, NEW u \in Subs, SubNext(u)
    PROVE  /\ UNCHANGED <<pub, writePos, unadmitted>>
           /\ \/ (Seeks(u) \/ Attaches(u) \/ Follows(u)) /\ meta' = meta
              \/ DrainWindow(u) \/ DrainLook(u) \/ DrainClear(u) \/ DrainDrop(u)
              \/ FreeRing(u) \/ RetireRing(u)
              \/ UNCHANGED <<sub, meta, state, flight, since, stranded>>
<1> USE DEF SubAt, GotoSub
<1>1. /\ sub \in [Subs -> SubType] /\ sub[u] \in SubType /\ sub[u].ring \in Rings
      /\ state \in [Rings -> RingStates] /\ writePos \in [Rings -> Nat]
      /\ sub[u].read \in Nat /\ sub[u].start \in Nat /\ sub[u].joins \in Nat
    BY DEF TypeInv, TypeOK, SubType
<1>2. UNCHANGED <<pub, writePos, unadmitted>>
    BY DEF SubNext, SubStep, ghostVars, ringVars, Join, JoinFloor, JoinClaim, JoinNext, JoinOwn, JoinSeek,
        Poll, LookSeq, LookMeta, Pin, Deliver, Overtaken, Unpin, PushSlot, DropView, Leave, Quiesced,
        QuiesceTimeout, ClearOwner, DrainWindow, DrainLook, DrainClear, DrainDrop, FreeRing, RetireRing
<1> USE DEF Serving, Undrained, Apart, ringVars, entryVars, ghostVars
<1>3. CASE Join(u) \/ JoinFloor(u)
    BY <1>1, <1>2, <1>3 DEF Join, JoinFloor, Floor, Seeks, SubType
<1>4. CASE JoinNext(u)
    <2>1. sub'[u].pc \in {"out", "join"} /\ sub'[u].ring \in Rings
        <3>1. CASE LastRing(sub[u].ring)
            <4>1. sub'[u] = SubOut(sub[u].joins + 1)
                BY <1>1, <1>4, <3>1 DEF JoinNext
            <4> QED
                BY <4>1, SizesAssumption DEF SubOut, Rings
        <3>2. CASE ~LastRing(sub[u].ring)
            <4>1. sub[u].ring + 1 \in Rings
                BY <1>1, <3>2, SizesAssumption, SMTT(30) DEF LastRing, Rings
            <4> QED
                BY <1>1, <1>4, <3>2, <4>1 DEF JoinNext, SubType
        <3> QED
            BY <3>1, <3>2
    <2> QED
        BY <1>2, <1>4, <2>1 DEF JoinNext, Seeks
<1>5. CASE JoinClaim(u)
    BY <1>1, <1>2, <1>5 DEF JoinClaim, Attaches, SubType
<1>6. CASE JoinOwn(u) \/ Quiesced(u) \/ QuiesceTimeout(u) \/ ClearOwner(u)
    BY <1>1, <1>2, <1>6 DEF JoinOwn, Quiesced, QuiesceTimeout, ClearOwner, Follows, SubType
<1>7. CASE JoinSeek(u)
    <2>1. SeekTo(sub[u].start, writePos[sub[u].ring]) >= writePos[sub[u].ring]
        BY <1>1 DEF SeekTo
    <2> QED
        BY <1>1, <1>2, <1>7, <2>1 DEF JoinSeek, Follows, SubType
<1>8. CASE Poll(u)
    <2>1. /\ sub'[u].pc = "seq" /\ sub[u].pc = "ready" /\ sub'[u].ring = sub[u].ring
          /\ sub'[u].start = sub[u].start
          /\ sub'[u].read = IF writePos[sub[u].ring] - sub[u].read > Capacity
                            THEN writePos[sub[u].ring] - Capacity ELSE sub[u].read
        BY <1>1, <1>8 DEF Poll, SubType
    <2>2. sub'[u].read >= sub[u].read
        <3>1. writePos[sub[u].ring] \in Nat
            BY <1>1
        <3> QED
            BY <1>1, <2>1, <3>1, SizesAssumption
    <2> QED
        BY <1>1, <1>2, <1>8, <2>1, <2>2 DEF Poll, Follows
<1>9. CASE LookSeq(u)
    <2>1. GotoSub(u, "meta") \/ GotoSub(u, "ready") \/ Lose(u)
        BY <1>9 DEF LookSeq
    <2>2. /\ sub[u].pc = "seq" /\ sub'[u].pc \in {"meta", "ready"} /\ sub'[u].ring = sub[u].ring
          /\ sub'[u].start = sub[u].start /\ sub'[u].read >= sub[u].read
        BY <1>1, <1>9, <2>1 DEF LookSeq, Lose, SubType
    <2> QED
        BY <1>1, <1>2, <1>9, <2>2 DEF LookSeq, Follows
<1>10. CASE LookMeta(u) \/ Pin(u) \/ Deliver(u) \/ Overtaken(u) \/ Unpin(u)
    <2>1. /\ sub[u].pc \in {"meta", "pin", "check", "unpin"} /\ sub'[u].ring = sub[u].ring
          /\ sub'[u].pc \in {"pin", "check", "unpin", "ready"}
          /\ sub'[u].start = sub[u].start /\ sub'[u].read >= sub[u].read
        BY <1>1, <1>10 DEF LookMeta, Pin, Deliver, Overtaken, Unpin, Lose, SubType
    <2> QED
        BY <1>1, <1>2, <1>10, <2>1 DEF LookMeta, Pin, Deliver, Overtaken, Unpin, Follows
<1>11. CASE Leave(u)
    BY <1>1, <1>2, <1>11 DEF Leave, Follows, SubType
<1>12. CASE PushSlot(u) \/ \E v \in views[u] : DropView(u, v)
    BY <1>2, <1>12 DEF PushSlot, DropView
<1> QED
    BY <1>2, <1>3, <1>4, <1>5, <1>6, <1>7, <1>8, <1>9, <1>10, <1>11, <1>12 DEF SubNext, SubStep

\* The steps of the drain, by what they do to the claim at the drained position.
Skips(u)  == /\ meta' = meta /\ At(meta, sub[u].ring, sub[u].pos).slot = NoSlot
             /\ sub[u].pc \in {"drain", "unref"} /\ sub'[u].pc = "drain" /\ sub'[u].pos = sub[u].pos + 1
Finds(u)  == /\ meta' = meta /\ sub[u].pc = "drain" /\ sub'[u].pc = "unclaim" /\ sub'[u].pos = sub[u].pos
             /\ sub'[u].claim = At(meta, sub[u].ring, sub[u].pos)
Clears(u) == /\ meta' = Put(meta, sub[u].ring, sub[u].pos, MetaCleared(sub[u].claim))
             /\ sub[u].pc = "unclaim" /\ sub'[u].pc = "unref" /\ sub'[u].pos = sub[u].pos

\* The drain loop skips empty entries and clears the others.
LEMMA DrainMoves ==
    ASSUME TypeInv, TenancyInv, DrainInv, NEW u \in Subs, sub[u].ring \notin stranded,
           DrainLook(u) \/ DrainClear(u) \/ DrainDrop(u)
    PROVE  /\ sub'[u].ring = sub[u].ring /\ sub'[u].wp = sub[u].wp
           /\ Skips(u) \/ Finds(u) \/ Clears(u)
<1> USE DEF SubAt, GotoSub
<1>1. sub \in [Subs -> SubType] /\ sub[u] \in SubType
    BY DEF TypeInv, TypeOK
<1>2. CASE DrainLook(u)
    BY <1>1, <1>2 DEF DrainLook, Skips, Finds, SubType, entryVars
<1>3. CASE DrainDrop(u)
    <2>1. At(meta, sub[u].ring, sub[u].pos).slot = NoSlot
        BY <1>3 DEF DrainDrop, DrainInv, DrainIsComplete, Drains
    <2> QED
        BY <1>1, <1>3, <2>1 DEF DrainDrop, Skips, SubType, entryVars
<1>4. CASE DrainClear(u)
    <2> DEFINE next == [sub[u] EXCEPT !.claim = MetaZero]
               gone == [next EXCEPT !.pc = "unref", !.slot = sub[u].claim.slot]
    <2>1. At(meta, sub[u].ring, sub[u].pos) = sub[u].claim
        BY <1>4 DEF DrainClear, DrainInv, DrainIsComplete, Drains
    <2>2. /\ meta' = Put(meta, sub[u].ring, sub[u].pos, MetaCleared(sub[u].claim))
          /\ sub' = [sub EXCEPT ![u] = gone] /\ sub[u].pc = "unclaim"
        BY <1>4, <2>1 DEF DrainClear
    <2>3. gone.pc = "unref" /\ gone.pos = sub[u].pos /\ gone.ring = sub[u].ring /\ gone.wp = sub[u].wp
        BY <1>1 DEF SubType
    <2> HIDE DEF gone
    <2> QED
        BY <1>1, <2>2, <2>3 DEF Clears
<1> QED
    BY <1>2, <1>3, <1>4

\* Subscriber steps keep the drain invariant.
LEMMA SubDrain ==
    ASSUME TypeInv, TenancyInv, DrainInv, NEW u \in Subs, SubNext(u)
    PROVE  DrainInv'
<1> USE DEF SubAt, GotoSub
<1> DEFINE r0 == sub[u].ring
           k  == sub[u].pos % Capacity
<1>1. /\ sub \in [Subs -> SubType] /\ sub[u] \in SubType /\ r0 \in Rings
      /\ state \in [Rings -> RingStates] /\ flight \in [Rings -> Int] /\ writePos \in [Rings -> Nat]
      /\ meta \in [Rings -> [Index -> MetaWord]] /\ since \in [Subs -> Nat]
      /\ owner \in [Rings -> Subs \cup {NoOwner}] /\ NoOwner \notin Subs
      /\ \A v \in Subs : /\ sub[v].ring \in Rings /\ sub[v].pos \in Nat /\ sub[v].wp \in Nat
                         /\ sub[v].start \in Nat /\ sub[v].read \in Nat
    BY NamesAssumption DEF TypeInv, TypeOK, SubType
<1>2. u \in alive /\ UNCHANGED <<pub, alive, unadmitted, writePos>>
    BY SubTenure, SubMarks
<1>3. sub' = [sub EXCEPT ![u] = sub'[u]] /\ sub'[u] \in SubType /\ \A v \in Subs : v # u => sub'[v] = sub[v]
    BY <1>1, SubStepMoves DEF SubMoves
<1>4. /\ ClaimsFit /\ PositionsFit /\ FloorsAreOld /\ ReadsForward /\ TenancyIsWhole /\ DrainIsComplete
      /\ FreeIsEmpty
    BY DEF DrainInv
<1>5. \/ (Seeks(u) \/ Attaches(u) \/ Follows(u)) /\ meta' = meta
      \/ DrainWindow(u) \/ DrainLook(u) \/ DrainClear(u) \/ DrainDrop(u) \/ FreeRing(u) \/ RetireRing(u)
      \/ UNCHANGED <<sub, meta, state, flight, since, stranded>>
    BY SubMarks
<1>6. sub[u].pc \in Unnamed \cup Named => Holds(u, r0)
    BY <1>1, <1>2 DEF TenancyInv, LiveIsNamed, Holds
<1>7. \A v \in Subs, r \in Rings : v # u /\ Holds(v, r)' => Holds(v, r)
    <2>1. \A r \in Rings : owner'[r] = owner[r] \/ owner'[r] \in {u, NoOwner}
        BY <1>1 DEF SubNext, SubStep, ringVars, Join, JoinFloor, JoinClaim, JoinNext, JoinOwn, JoinSeek,
            Poll, LookSeq, LookMeta, Pin, Deliver, Overtaken, Unpin, PushSlot, DropView, Leave, Quiesced,
            QuiesceTimeout, ClearOwner, DrainWindow, DrainLook, DrainClear, DrainDrop, FreeRing, RetireRing
    <2> QED
        BY <1>1, <1>3, <2>1, SMTT(30) DEF Holds
<1>8. \A r \in Rings : Admitted(r)' = Admitted(r)
    BY <1>2 DEF Admitted
\* Claims are only ever cleared here, in the ring the subscriber drains.
<1>9. /\ \A r \in Rings, i \in Index : meta'[r][i] = meta[r][i] \/ meta'[r][i].slot = NoSlot
      /\ \A r \in Rings : r # r0 \/ sub[u].pc # "unclaim" => meta'[r] = meta[r]
    <2>1. CASE DrainClear(u) /\ meta' # meta
        <3> DEFINE w == MetaCleared(sub[u].claim)
        <3>1. meta' = [meta EXCEPT ![r0][k] = w] /\ sub[u].pc = "unclaim" /\ k \in Index
            BY <1>1, <2>1, IndexInRange DEF DrainClear, Put
        <3>2. w.slot = NoSlot
            BY <1>1 DEF MetaCleared, SubType, MetaWord
        <3> HIDE DEF w, k
        <3> QED
            BY <1>1, <3>1, <3>2
    <2>2. CASE DrainWindow(u) \/ DrainLook(u) \/ DrainDrop(u) \/ FreeRing(u) \/ RetireRing(u)
        BY <2>2 DEF DrainWindow, DrainLook, DrainDrop, FreeRing, RetireRing, entryVars
    <2> QED
        BY <1>5, <2>1, <2>2
<1>10. stranded \subseteq stranded'
    BY <1>5 DEF Seeks, Attaches, Follows, DrainWindow, DrainLook, DrainClear, DrainDrop, FreeRing, RetireRing,
        ghostVars
<1>11. ClaimsFit' /\ PositionsFit'
    <2>1. ClaimsFit'
        <3> SUFFICES ASSUME NEW r \in Rings, NEW i \in Index, meta'[r][i].slot # NoSlot
                     PROVE  meta'[r][i].tag \in 1..writePos'[r] /\ (meta'[r][i].tag - 1) % Capacity = i
            BY DEF ClaimsFit
        <3>1. meta'[r][i] = meta[r][i]
            BY <1>9
        <3>2. meta[r][i].tag \in 1..writePos[r] /\ (meta[r][i].tag - 1) % Capacity = i
            BY <1>4, <3>1 DEF ClaimsFit
        <3> QED
            BY <1>2, <3>1, <3>2, Zenon
    <2> QED
        BY <1>2, <1>4, <2>1 DEF PositionsFit
<1>12. sub[u].pc \in Drains /\ r0 \notin stranded /\ (DrainLook(u) \/ DrainClear(u) \/ DrainDrop(u))
       => /\ sub'[u].ring = r0 /\ sub'[u].wp = sub[u].wp
          /\ Skips(u) \/ Finds(u) \/ Clears(u)
    BY DrainMoves
\* Where a step of the drain itself leaves the subscriber.
<1>13. DrainWindow(u) \/ DrainLook(u) \/ DrainClear(u) \/ DrainDrop(u)
       => /\ sub[u].pc \in Quieted /\ sub'[u].pc \in Drains
          /\ sub'[u].ring = r0 /\ sub'[u].start = sub[u].start
          /\ UNCHANGED <<state, flight, since, stranded>>
    <2>1. CASE DrainWindow(u) \/ DrainLook(u) \/ DrainDrop(u)
        BY <1>1, <2>1 DEF DrainWindow, DrainLook, DrainDrop, Quieted, Drains, SubType, ringVars, ghostVars
    <2>2. CASE DrainClear(u)
        <3> DEFINE next == [sub[u] EXCEPT !.claim = MetaZero]
                   gone == [next EXCEPT !.pc = "unref", !.slot = sub[u].claim.slot]
                   left == [next EXCEPT !.pc = "drain", !.pos = @ + 1]
        <3>1. /\ sub' = [sub EXCEPT ![u] = gone] \/ sub' = [sub EXCEPT ![u] = left]
              /\ sub[u].pc = "unclaim" /\ UNCHANGED <<state, flight, since, stranded>>
            BY <2>2 DEF DrainClear, ringVars, ghostVars
        <3>2. /\ gone.pc = "unref" /\ gone.ring = r0 /\ gone.start = sub[u].start
              /\ left.pc = "drain" /\ left.ring = r0 /\ left.start = sub[u].start
            BY <1>1 DEF SubType
        <3> HIDE DEF gone, left
        <3> QED
            BY <1>1, <3>1, <3>2 DEF Quieted, Drains
    <2> QED
        BY <2>1, <2>2
<1>14. FreeRing(u) \/ RetireRing(u) => sub'[u].pc = "out" /\ UNCHANGED since
    BY <1>1 DEF FreeRing, RetireRing, SubOut, ghostVars
<1>15. FloorsAreOld'
    <2> SUFFICES ASSUME sub'[u].pc \in {"cas"} \cup Undrained
                 PROVE  sub'[u].start <= writePos[sub'[u].ring]
        BY <1>2, <1>3, <1>4 DEF FloorsAreOld
    <2> QED
        BY <1>1, <1>4, <1>5, <1>13, <1>14 DEF FloorsAreOld, Seeks, Attaches, Follows, Drains, Undrained, Apart,
            Serving
<1>16. ReadsForward'
    <2>1. \A v \in Subs : v # u => since'[v] = since[v]
        BY <1>1, <1>5, <1>13, <1>14 DEF Seeks, Attaches, Follows
    <2> SUFFICES /\ sub'[u].pc \in Serving => since'[u] <= writePos[sub'[u].ring]
                 /\ sub'[u].pc \in Serving \ {"own", "seek"} => since'[u] <= sub'[u].read
        BY <1>2, <1>3, <1>4, <2>1 DEF ReadsForward
    <2>2. CASE Follows(u)
        <3>1. sub'[u].read \in Nat /\ writePos[r0] \in Nat /\ since[u] \in Nat
            BY <1>1, <1>3 DEF SubType
        <3> QED
            BY <1>1, <1>4, <2>2, <3>1 DEF ReadsForward, Follows
    <2>3. CASE Attaches(u)
        BY <1>1, <2>3 DEF Attaches
    <2>4. CASE UNCHANGED <<sub, since>>
        BY <1>4, <2>4 DEF ReadsForward
    <2> QED
        BY <1>5, <1>13, <1>14, <2>2, <2>3, <2>4 DEF Seeks, Apart, Drains, Serving
<1>17. TenancyIsWhole'
    <2> SUFFICES ASSUME NEW r \in Rings, r \notin stranded', NEW v \in Subs, Holds(v, r)'
                 PROVE  /\ \A q \in Admitted(r) \ unadmitted : pub[q].pc # "claim" => sub'[v].start <= pub[q].pos
                        /\ sub'[v].pc \in Undrained =>
                              \A i \in Index : meta'[r][i].slot # NoSlot => sub'[v].start < meta'[r][i].tag
        BY <1>2, <1>8 DEF TenancyIsWhole
    <2>1. r \notin stranded
        BY <1>10
    <2>2. Holds(v, r) => /\ \A q \in Admitted(r) \ unadmitted : pub[q].pc # "claim" => sub[v].start <= pub[q].pos
                         /\ sub[v].pc \in Undrained =>
                              \A i \in Index : meta[r][i].slot # NoSlot => sub[v].start < meta[r][i].tag
        BY <1>4, <2>1 DEF TenancyIsWhole
    <2>3. CASE v # u
        BY <1>3, <1>7, <1>9, <2>2, <2>3
    <2>4. CASE v = u /\ (Seeks(u) \/ FreeRing(u) \/ RetireRing(u))
        BY <1>14, <2>4 DEF Seeks, Holds, Apart, Unnamed, Named
    <2>5. CASE v = u /\ Attaches(u)
        <3>1. r = r0 /\ flight[r] = 0 /\ state[r] = "Free"
            BY <2>5 DEF Attaches, Holds
        <3>2. \A i \in Index : meta[r][i].slot = NoSlot
            BY <1>4, <2>1, <3>1 DEF FreeIsEmpty
        <3>3. Admitted(r) \subseteq unadmitted
            BY <3>1, AdmittedCounts DEF TenancyInv
        <3> QED
            BY <1>9, <3>2, <3>3
    <2>6. CASE v = u /\ Follows(u)
        <3>1. r = r0 /\ sub'[u].start = sub[u].start /\ sub[u].pc \in Undrained
            BY <2>6 DEF Follows, Holds
        <3>2. Holds(u, r)
            BY <1>6, <3>1 DEF Undrained, Serving, Unnamed, Named
        <3> QED
            BY <1>9, <2>2, <2>6, <3>1, <3>2
    <2>7. CASE v = u /\ (DrainWindow(u) \/ DrainLook(u) \/ DrainClear(u) \/ DrainDrop(u))
        <3>1. r = r0 /\ sub'[u].start = sub[u].start /\ sub[u].pc \in Quieted /\ sub'[u].pc \in Drains
            BY <1>13, <2>7 DEF Holds
        <3>2. Holds(u, r)
            BY <1>6, <3>1 DEF Quieted, Unnamed
        <3> QED
            BY <2>2, <2>7, <3>1, <3>2 DEF Drains, Undrained, Serving
    <2>8. CASE v = u /\ UNCHANGED <<sub, meta>>
        <3>1. sub[u].pc \in Unnamed \cup Named /\ r = r0
            BY <2>8 DEF Holds
        <3>2. Holds(u, r)
            BY <1>6, <3>1
        <3> QED
            BY <2>2, <2>8, <3>2
    <2> QED
        BY <1>5, <2>3, <2>4, <2>5, <2>6, <2>7, <2>8
<1>18. DrainIsComplete'
    <2> SUFFICES ASSUME NEW v \in Subs, sub'[v].pc \in Drains, sub'[v].ring \notin stranded'
                 PROVE  /\ \A i \in Index : meta'[sub'[v].ring][i].slot # NoSlot => Remains(v, i)'
                        /\ sub'[v].pc = "unclaim" => At(meta', sub'[v].ring, sub'[v].pos) = sub'[v].claim
                        /\ sub'[v].pc = "unref" => At(meta', sub'[v].ring, sub'[v].pos).slot = NoSlot
        BY DEF DrainIsComplete, At
    <2>1. sub'[v].ring \notin stranded
        BY <1>10
    <2>2. CASE v # u
        <3>1. sub'[v] = sub[v] /\ sub[v].pc \in Drains /\ sub[v].ring \notin stranded
            BY <1>3, <2>1, <2>2
        <3>2. meta'[sub[v].ring] = meta[sub[v].ring]
            <4>1. Holds(v, sub[v].ring)
                BY <3>1 DEF Holds, Drains, Unnamed
            <4>2. ~(sub[u].pc = "unclaim" /\ r0 = sub[v].ring)
                BY <1>1, <1>6, <2>2, <4>1 DEF TenancyInv, OneHolder, Unnamed
            <4> QED
                BY <1>1, <1>9, <4>2
        <3>3. \A i \in Index : Remains(v, i)' <=> Remains(v, i)
            BY <3>1 DEF Remains
        <3> QED
            BY <1>4, <3>1, <3>2, <3>3 DEF DrainIsComplete, At
    <2>3. CASE v = u /\ DrainWindow(u)
        <3> DEFINE wp == writePos[r0]
                   q0 == DrainFloor(u, wp)
        <3>1. /\ sub[u].pc = "window" /\ sub'[u].pc = "drain" /\ sub'[u].ring = r0 /\ meta' = meta
              /\ sub'[u].wp = wp /\ sub'[u].pos = q0
            BY <1>1, <2>3 DEF DrainWindow, SubType, entryVars
        <3>2. Holds(u, r0)
            BY <1>6, <3>1 DEF Unnamed
        <3>3. ASSUME NEW i \in Index, meta[r0][i].slot # NoSlot
              PROVE  \E q \in q0..(wp - 1) : q % Capacity = i
            <4> DEFINE c == meta[r0][i].tag - 1
            <4>1. meta[r0][i].tag \in 1..wp /\ c % Capacity = i
                BY <1>1, <1>4, <3>3 DEF ClaimsFit
            <4>2. sub[u].start < meta[r0][i].tag
                BY <1>1, <1>4, <2>1, <2>3, <3>1, <3>2, <3>3 DEF TenancyIsWhole, Undrained
            <4>3. c \in Nat /\ c < wp /\ sub[u].start <= c /\ wp \in Nat /\ Capacity \in Nat \ {0}
                <5>1. wp \in Nat /\ sub[u].start \in Nat
                    BY <1>1
                <5> HIDE DEF wp
                <5>2. meta[r0][i].tag \in 1..wp
                    BY <4>1
                <5> QED
                    BY <4>2, <5>1, <5>2, SizesAssumption
            <4> HIDE DEF c, wp
            <4>4. CASE c >= q0
                <5>1. q0 \in Int
                    BY <1>1, <4>3 DEF DrainFloor
                <5>2. c \in q0..(wp - 1)
                    BY <4>3, <4>4, <5>1
                <5> QED
                    BY <4>1, <5>2, Zenon
            <4>5. CASE ~(c >= q0)
                <5>1. q0 = wp - Capacity
                    BY <1>1, <4>3, <4>5 DEF DrainFloor
                <5> QED
                    BY <4>3, <5>1, WindowMeetsAll
            <4> QED
                BY <4>4, <4>5
        <3> HIDE DEF wp, q0
        <3> QED
            BY <2>3, <3>1, <3>3 DEF Remains
    <2>4. CASE v = u /\ (DrainLook(u) \/ DrainClear(u) \/ DrainDrop(u))
        <3>1. /\ sub'[u].ring = r0 /\ sub'[u].wp = sub[u].wp /\ r0 \notin stranded /\ sub[u].pc \in Drains
              /\ Skips(u) \/ Finds(u) \/ Clears(u)
            <4>1. sub'[u].ring = r0 /\ sub[u].pc \in Drains
                BY <1>13, <2>4 DEF DrainLook, DrainClear, DrainDrop, Drains
            <4> QED
                BY <1>12, <2>1, <2>4, <4>1
        <3>2. \A i \in Index : meta[r0][i].slot # NoSlot => Remains(u, i)
            BY <1>4, <3>1 DEF DrainIsComplete
        <3>3. k \in Index /\ At(meta, r0, sub[u].pos) = meta[r0][k] /\ At(meta', r0, sub[u].pos) = meta'[r0][k]
            BY <1>1, IndexInRange DEF At
        \* What is left of the window, but for the position at hand.
        <3>4. \A i \in Index : Remains(u, i) /\ i # k
                 => \E q \in (sub[u].pos + 1)..(sub[u].wp - 1) : q % Capacity = i
            <4> SUFFICES ASSUME NEW i \in Index, i # k, NEW q \in sub[u].pos..(sub[u].wp - 1), q % Capacity = i
                         PROVE  q \in (sub[u].pos + 1)..(sub[u].wp - 1)
                BY DEF Remains
            <4>1. q # sub[u].pos
                OBVIOUS
            <4>2. sub[u].pos \in Nat /\ sub[u].wp \in Nat
                BY <1>1
            <4>3. q \in Int /\ sub[u].pos <= q /\ q <= sub[u].wp - 1
                BY <4>2
            <4> QED
                BY <4>1, <4>2, <4>3
        <3>5. CASE Skips(u)
            <4>1. meta[r0][k].slot = NoSlot
                BY <3>3, <3>5 DEF Skips
            <4>2. ASSUME NEW i \in Index, meta[r0][i].slot # NoSlot
                  PROVE  Remains(u, i)'
                <5>1. \E q \in (sub[u].pos + 1)..(sub[u].wp - 1) : q % Capacity = i
                    BY <3>2, <3>4, <4>1, <4>2
                <5> QED
                    BY <3>1, <3>5, <5>1 DEF Remains, Skips
            <4> QED
                BY <2>4, <3>1, <3>5, <4>2 DEF Skips
        <3>6. CASE Finds(u)
            <4>1. \A i \in Index : Remains(u, i)' <=> Remains(u, i)
                BY <3>1, <3>6 DEF Remains, Finds
            <4> QED
                BY <2>4, <3>1, <3>2, <3>6, <4>1 DEF Finds
        <3>7. CASE Clears(u)
            <4>1. \A i \in Index : Remains(u, i)' <=> Remains(u, i)
                BY <3>1, <3>7 DEF Remains, Clears
            <4> DEFINE w == MetaCleared(sub[u].claim)
            <4>2. meta'[r0][k] = w /\ w.slot = NoSlot
                <5>1. meta' = [meta EXCEPT ![r0][k] = w]
                    BY <3>7 DEF Clears, Put
                <5>2. w.slot = NoSlot
                    BY <1>1 DEF MetaCleared, SubType, MetaWord
                <5> HIDE DEF w, k
                <5> QED
                    BY <1>1, <3>3, <5>1, <5>2
            <4>3. \A i \in Index : meta'[r0][i].slot # NoSlot => Remains(u, i)'
                BY <1>1, <1>9, <3>2, <4>1
            <4> HIDE DEF w, k
            <4> QED
                BY <2>4, <3>1, <3>3, <3>7, <4>2, <4>3 DEF Clears
        <3> QED
            BY <3>1, <3>5, <3>6, <3>7
    <2>5. CASE v = u /\ (((Seeks(u) \/ Attaches(u) \/ Follows(u)) /\ meta' = meta) \/ FreeRing(u) \/ RetireRing(u))
        BY <1>14, <2>5 DEF Seeks, Attaches, Follows, Apart, Drains, Undrained, Serving
    <2>6. CASE UNCHANGED <<sub, meta, stranded>>
        BY <1>4, <2>6 DEF DrainIsComplete, Remains, At
    <2> QED
        BY <1>5, <2>2, <2>3, <2>4, <2>5, <2>6
<1>19. FreeIsEmpty'
    <2> SUFFICES ASSUME NEW r \in Rings, r \notin stranded', state'[r] = "Free"
                 PROVE  flight'[r] = 0 /\ \A i \in Index : meta'[r][i].slot = NoSlot
        BY DEF FreeIsEmpty
    <2>1. r \notin stranded
        BY <1>10
    <2>2. CASE FreeRing(u) /\ r = r0
        <3>1. sub[u].pc = "drain" /\ sub[u].pos >= sub[u].wp /\ flight' = [flight EXCEPT ![r0] = 0] /\ meta' = meta
            BY <2>2 DEF FreeRing, entryVars
        <3>2. \A i \in Index : ~Remains(u, i)
            <4> SUFFICES sub[u].pos..(sub[u].wp - 1) = {}
                BY DEF Remains
            <4> QED
                BY <1>1, <3>1
        <3>3. \A i \in Index : meta[r0][i].slot = NoSlot
            BY <1>4, <2>1, <2>2, <3>1, <3>2 DEF DrainIsComplete, Drains
        <3> QED
            BY <1>1, <2>2, <3>1, <3>3
    <2>3. CASE ~(FreeRing(u) /\ r = r0)
        <3>1. state[r] = "Free" /\ flight'[r] = flight[r]
            BY <1>1, <1>5, <1>13, <2>3 DEF Seeks, Attaches, Follows, FreeRing, RetireRing, RingStates
        <3>2. flight[r] = 0 /\ \A i \in Index : meta[r][i].slot = NoSlot
            BY <1>4, <2>1, <3>1 DEF FreeIsEmpty
        <3> QED
            BY <1>9, <3>1, <3>2
    <2> QED
        BY <2>2, <2>3
<1> QED
    BY <1>11, <1>15, <1>16, <1>17, <1>18, <1>19 DEF DrainInv

-----------------------------------------------------------------------------
\* The operator's recovery calls keep the drain invariant: what they free undrained is stranded.
LEMMA OperatorDrain ==
    ASSUME TypeInv, TenancyInv, DrainInv, Operator
    PROVE  DrainInv'
<1>1. /\ UNCHANGED <<pub, sub, meta, writePos, since>>
      /\ state \in [Rings -> RingStates] /\ flight \in [Rings -> Int]
      /\ owner \in [Rings -> Subs \cup {NoOwner}] /\ NoOwner \notin Subs
    BY NamesAssumption DEF Operator, ResetRetiredRing, ReclaimDeadRing, ReclaimOrphanedSlots, CrashPub,
        CrashSub, subVars, ringVars, entryVars, ghostVars, TypeInv, TypeOK
<1>2. /\ ClaimsFit /\ PositionsFit /\ FloorsAreOld /\ ReadsForward /\ TenancyIsWhole /\ DrainIsComplete
      /\ FreeIsEmpty
    BY DEF DrainInv
<1>3. /\ stranded \subseteq stranded' /\ unadmitted \subseteq unadmitted'
      /\ \A r \in Rings : owner'[r] = owner[r] \/ owner'[r] = NoOwner
      /\ \A r \in Rings : flight'[r] = flight[r] \/ flight'[r] = 0
      /\ \A r \in Rings \ stranded' : state'[r] = "Free" => state[r] = "Free"
    BY <1>1 DEF Operator, ResetRetiredRing, ReclaimDeadRing, FreedFlight, ReclaimOrphanedSlots, CrashPub,
        CrashSub, ringVars, ghostVars
<1>4. \A r \in Rings, u \in Subs : Holds(u, r)' => Holds(u, r)
    BY <1>1, <1>3 DEF Holds
<1>5. \A r \in Rings : Admitted(r)' = Admitted(r)
    BY <1>1 DEF Admitted
<1>6. ClaimsFit' /\ PositionsFit' /\ FloorsAreOld' /\ ReadsForward'
    BY <1>1, <1>2 DEF ClaimsFit, PositionsFit, FloorsAreOld, ReadsForward
<1>7. TenancyIsWhole'
    BY <1>1, <1>2, <1>3, <1>4, <1>5 DEF TenancyIsWhole
<1>8. DrainIsComplete'
    BY <1>1, <1>2, <1>3 DEF DrainIsComplete, Remains, At
<1>9. FreeIsEmpty'
    BY <1>1, <1>2, <1>3 DEF FreeIsEmpty
<1> QED
    BY <1>6, <1>7, <1>8, <1>9 DEF DrainInv

\* Every step keeps the drain invariant.
LEMMA StepDrain ==
    ASSUME TypeInv, TenancyInv, DrainInv, [Next]_vars
    PROVE  DrainInv'
<1>1. ASSUME UNCHANGED <<state, flight, owner, writePos, meta, pub, sub, since, stranded, unadmitted>>
      PROVE  DrainInv'
    <2>1. \A r \in Rings : Admitted(r)' = Admitted(r)
        BY <1>1 DEF Admitted
    <2> QED
        BY <1>1, <2>1 DEF DrainInv, ClaimsFit, PositionsFit, FloorsAreOld, ReadsForward, TenancyIsWhole, Holds,
            DrainIsComplete, Remains, At, FreeIsEmpty
<1>2. CASE UNCHANGED vars
    BY <1>1, <1>2 DEF vars, ringVars, entryVars, subVars, ghostVars
<1>3. CASE RepairStart \/ GcStep \/ CrashRepairer
    BY <1>1, <1>3 DEF RepairStart, GcStep, CrashRepairer, RepairRing, RepairLook, RepairSteal, RepairSkip,
        RepairGrace, RepairGraceSkip, ringVars, entryVars, subVars, ghostVars
<1> QED
    BY <1>2, <1>3, NextSplits, PubDrain, SubDrain, OperatorDrain

\* A freshly stamped region satisfies the drain invariant.
LEMMA InitDrain == Init => DrainInv
<1> SUFFICES ASSUME Init PROVE DrainInv
    OBVIOUS
<1>1. /\ \A r \in Rings, i \in Index : meta[r][i].slot = NoSlot
      /\ \A p \in Pubs : pub[p].pc = "idle"
      /\ \A u \in Subs : sub[u].pc = "out"
      /\ \A r \in Rings : flight[r] = 0
    BY DEF Init, MetaZero, PubIdle, SubOut
<1> QED
    BY <1>1 DEF DrainInv, ClaimsFit, PositionsFit, FloorsAreOld, ReadsForward, TenancyIsWhole, Holds,
        DrainIsComplete, FreeIsEmpty, Outside, Undrained, Serving, Unnamed, Named, Drains

\* The drain invariant holds throughout.
LEMMA ChannelDrain == Spec => []DrainInv
<1>1. TypeInv /\ TenancyInv /\ DrainInv /\ [Next]_vars => DrainInv'
    BY StepDrain
<1> QED
    BY <1>1, InitDrain, ChannelTenancy, PTL DEF Spec

\* A ring handed over by its drain holds no claim: the window of
\* drain_unconsumed(), from the floor read before the CAS of the constructor to
\* the final write_pos, meets every entry that a publisher claimed during the
\* tenancy, consumed, skipped, stolen or evicted as it may be.
THEOREM ChannelDrainedRingIsEmpty == Spec => []DrainedRingIsEmpty
<1>1. DrainInv => DrainedRingIsEmpty
    BY DEF DrainInv, FreeIsEmpty, DrainedRingIsEmpty
<1> QED
    BY <1>1, ChannelDrain, PTL

\* A subscriber reads from where write_pos stood when its ring became Live, or
\* later: an earlier tenant's traffic is never replayed, however stale the floor
\* that its constructor read.
THEOREM ChannelNoReplay == Spec => []NoReplay
<1>1. DrainInv => NoReplay
    <2> SUFFICES ASSUME DrainInv, NEW u \in Subs, sub[u].pc \in {"ready", "seq", "meta", "pin", "check"}
                 PROVE  sub[u].read >= since[u]
        BY DEF NoReplay
    <2> QED
        BY DEF DrainInv, ReadsForward, Serving
<1> QED
    BY <1>1, ChannelDrain, PTL

-----------------------------------------------------------------------------
(***************************************************************************)
(* What a view shows.  The claim of an entry always names the slot with    *)
(* the message of its own position.  A reader that pinned such a slot has  *)
(* only the sequence word to tell whether the claim stood meanwhile: it    *)
(* did, unless somebody took the entry over without touching the word.     *)
(***************************************************************************)
\* A publisher that may still commit its position.
Pending == {"first", "wait", "lock", "check", "take", "release", "push", "commit"}

\* The message a publisher is about.
Message(p) == [from |-> p, num |-> pub[p].num]

\* `sent` has the message of every position claimed, so that no two publishers
\* work on one position.
SentFits ==
    /\ \A r \in Rings : Len(sent[r]) = writePos[r]
    /\ \A p \in Pubs : pub[p].pc \notin Outside \cup {"claim"} =>
           sent[pub[p].ring][pub[p].pos + 1] = Message(p)

\* A publisher that reserved its slot or still owes a reference on it finds its
\* own message there.
OwnPayload ==
    \A p \in Pubs \ settled :
        pub[p].pc = "reserved" \/ OwedBy(pub[p]) > 0 => payload[pub[p].slot] = Message(p)

\* Nobody will commit position pos of ring r any more, ...
Passed(r, pos) == \A p \in Pubs : pub[p].pc \in Pending /\ pub[p].ring = r => pub[p].pos # pos

\* ... which holds once it is committed.
CommitsPassed ==
    \A r \in Rings, i \in Index : seq[r][i].tag = "commit" =>
        seq[r][i].val <= writePos[r] /\ Passed(r, seq[r][i].val - 1)

\* A reader that finds the sequence as it left it finds the claim it read too.
ReadersShow ==
    \A u \in Subs \cap alive :
        /\ sub[u].pc \in {"meta", "pin", "check"} => Passed(sub[u].ring, sub[u].read)
        /\ sub[u].pc \in {"pin", "check"} /\ HeadSeq(u) = SeqCommit(sub[u].read) =>
               At(meta, sub[u].ring, sub[u].read) = MetaClaim(sub[u].read, sub[u].slot)

ClaimsAreTrue == SentFits /\ OwnPayload /\ ClaimShowsItsMessage /\ CommitsPassed

ViewsAreTrue == ReadersShow /\ ViewShowsItsMessage

-----------------------------------------------------------------------------
\* A slot that an entry claims, or that a publisher reserved or owes to, is off
\* the stack.
LEMMA UsedIsNotFree ==
    ASSUME TypeInv, CountInv, NEW s \in Slots
    PROVE  /\ Claims(s) # {} => s \notin free
           /\ \A p \in Pubs \ settled :
                  pub[p].slot = s /\ (pub[p].pc = "reserved" \/ OwedBy(pub[p]) > 0) => s \notin free
<1>1. Exact(s) /\ OneHome(s) /\ IsFiniteSet(ViewHolds(s))
    BY BooksBySlot
<1>2. /\ Cardinality(Claims(s)) \in Nat /\ Cardinality(PubHolds(s)) \in Nat
      /\ Cardinality(EvictHolds(s)) \in Nat /\ Cardinality(SubHolds(s)) \in Nat
      /\ Cardinality(ViewHolds(s)) \in Nat /\ Cardinality(Carriers(s)) \in Nat
    BY <1>1, HoldersFinite, FS_CardinalityType
<1>3. ASSUME Claims(s) # {} \/ PubHolds(s) # {} \/ Carriers(s) # {}
      PROVE  s \notin free
    <2>1. Cardinality(Claims(s)) > 0 \/ Cardinality(PubHolds(s)) > 0 \/ Cardinality(Carriers(s)) > 0
        <3>1. /\ IsFiniteSet(Claims(s)) /\ IsFiniteSet(PubHolds(s)) /\ IsFiniteSet(Carriers(s))
            BY HoldersFinite
        <3>2. /\ Claims(s) # {} => Cardinality(Claims(s)) # 0
              /\ PubHolds(s) # {} => Cardinality(PubHolds(s)) # 0
              /\ Carriers(s) # {} => Cardinality(Carriers(s)) # 0
            BY <3>1, FS_EmptySet
        <3> QED
            BY <1>2, <1>3, <3>2
    <2>2. CASE Cardinality(Carriers(s)) > 0
        BY <1>1, <1>2, <2>2 DEF OneHome, Bit
    <2>3. CASE Cardinality(Claims(s)) > 0 \/ Cardinality(PubHolds(s)) > 0
        <3>1. refcount[s] > 0
            BY <1>1, <1>2, <2>3 DEF Exact, Account
        <3> QED
            BY <1>1, <1>2, <3>1 DEF OneHome, Bit
    <2> QED
        BY <2>1, <2>2, <2>3
<1>4. ASSUME NEW p \in Pubs \ settled, pub[p].slot = s, pub[p].pc = "reserved"
      PROVE  p \in Carriers(s)
    BY <1>4 DEF Carriers
<1>5. ASSUME NEW p \in Pubs \ settled, pub[p].slot = s, OwedBy(pub[p]) > 0
      PROVE  <<p, 1>> \in PubHolds(s)
    <2>1. Owed(p) = OwedBy(pub[p]) /\ 1 \in 1..MaxSubs /\ OwedBy(pub[p]) \in Int
        <3>1. pub[p] \in PubType
            BY DEF TypeInv, TypeOK
        <3>2. pub[p].excess \in Nat /\ pub[p].ring \in Int /\ MaxSubs \in Nat \ {0}
            BY <3>1, SizesAssumption DEF PubType, Rings
        <3> QED
            BY <3>2 DEF Owed, OwedBy
    <2> QED
        BY <1>5, <2>1 DEF PubHolds
<1> QED
    BY <1>3, <1>4, <1>5

-----------------------------------------------------------------------------
\* What a publisher's step does to messages: it writes one into the slot it pops,
\* numbers it in its ring, or moves on with it.
Reserves(p) ==
    /\ \E s \in free : payload' = [payload EXCEPT ![s] = Message(p)] /\ pub'[p].slot = s
    /\ pub'[p].pc = "reserved" /\ pub'[p].num = pub[p].num
    /\ UNCHANGED <<sent, writePos, meta, seq>>

Numbers(p) ==
    /\ pub[p].pc = "claim" /\ OwedBy(pub[p]) > 0
    /\ pub'[p].pc \in {"first", "lock"} /\ pub'[p].pos = writePos[pub[p].ring]
    /\ pub'[p].ring = pub[p].ring /\ pub'[p].num = pub[p].num /\ pub'[p].slot = pub[p].slot
    /\ sent' = [sent EXCEPT ![pub[p].ring] = Append(@, Message(p))]
    /\ writePos' = [writePos EXCEPT ![pub[p].ring] = @ + 1]
    /\ UNCHANGED <<payload, meta, seq>>

Goes(old, new) ==
    /\ new.pc \notin Outside \cup {"claim"} =>
           /\ old.pc \notin Outside \cup {"claim"}
           /\ new.ring = old.ring /\ new.pos = old.pos /\ new.num = old.num
           /\ new.pc \in Pending => old.pc \in Pending
    /\ new.pc = "reserved" \/ OwedBy(new) > 0 =>
           /\ old.pc = "reserved" \/ OwedBy(old) > 0
           /\ new.slot = old.slot /\ new.num = old.num

Proceeds(p) ==
    /\ Goes(pub[p], pub'[p])
    /\ UNCHANGED <<payload, sent, writePos>>
    /\ \/ meta' = meta
       \/ /\ pub[p].pc = "take" /\ MetaPrecedes(PubMeta(p), pub[p].pos) /\ OwedBy(pub[p]) > 0 /\ seq' = seq
          /\ meta' = Put(meta, pub[p].ring, pub[p].pos, MetaClaim(pub[p].pos, pub[p].slot))

\* A step that does not move a reference.
LEMMA RefsKeptGo ==
    ASSUME TypeInv, NEW p \in Pubs, Fits(pub[p]), MovesNoRef(p), ~ClaimPos(p)
    PROVE  Goes(pub[p], pub'[p])
<1> USE DEF PubAt, Goto, Keep
<1> DEFINE old == pub[p]
           new == pub'[p]
<1>1. pub \in [Pubs -> PubType] /\ old \in PubType /\ old.ring \in Rings /\ (old.pc # "idle" => old.slot \in Slots)
    BY DEF TypeInv, TypeOK, Shape, PubType
<1>2. /\ OwedBy(new) = OwedBy(old) /\ (new.slot = old.slot \/ OwedBy(old) = 0)
      /\ old.pc # "reserved" /\ new.pc # "reserved"
    BY PubKeepsRefs DEF KeepsRefs, EmptyHands
<1>3. CASE \/ Admit(p) \/ WaitFirst(p) \/ WaitDone(p) \/ WaitTimeout(p) \/ LockEntry(p) \/ LockRetry(p)
           \/ LockGiveUp(p) \/ HealLook(p) \/ HealSteal(p) \/ HealSkip(p) \/ CheckLock(p) \/ Commit(p)
           \/ (TakeClaim(p) /\ ~MetaPrecedes(PubMeta(p), pub[p].pos))
    <2>1. /\ new.ring = old.ring /\ new.pos = old.pos /\ new.num = old.num
          /\ \/ new.pc = "claim"
             \/ old.pc \in Pending /\ new.pc \in Pending \cup {"heal", "leave"}
             \/ old.pc \in {"heal", "steal", "skip"} /\ new.pc \in {"steal", "skip", "leave"}
        <3>1. CASE Admit(p) \/ LockEntry(p) \/ LockRetry(p) \/ LockGiveUp(p)
            BY <1>1, <3>1 DEF Admit, LockEntry, LockRetry, LockGiveUp, PubType, Pending
        <3>2. CASE WaitFirst(p) \/ WaitDone(p) \/ WaitTimeout(p)
            BY <1>1, <3>2 DEF WaitFirst, WaitDone, WaitTimeout, WaitEnds, PubType, Pending
        <3>3. CASE HealLook(p) \/ HealSteal(p) \/ HealSkip(p)
            BY <1>1, <3>3 DEF HealLook, HealSteal, HealSkip, PubType, Pending
        <3>4. CASE CheckLock(p) \/ Commit(p) \/ (TakeClaim(p) /\ ~MetaPrecedes(PubMeta(p), pub[p].pos))
            BY <1>1, <3>4 DEF CheckLock, Commit, TakeClaim, PubType, Pending
        <3> QED
            BY <1>3, <3>1, <3>2, <3>3, <3>4
    <2>2. ~(OwedBy(new) > 0) \/ new.slot = old.slot
        BY <1>2
    <2> QED
        BY <1>2, <2>1, <2>2 DEF Goes, Outside, Pending
<1>4. CASE AllocateFails(p)
    <2>1. new.pc = "idle"
        BY <1>1, <1>4 DEF AllocateFails, PubType
    <2> QED
        BY <2>1 DEF Goes, Outside, OwedBy, Offering
<1>5. CASE PassRing(p) \/ LeaveRing(p)
    <2>1. PICK rec \in PubType : new = NextRing(rec) /\ rec.num = old.num /\ rec.slot = old.slot
        <3>1. /\ [old EXCEPT !.excess = @ + 1] \in PubType /\ [old EXCEPT !.excess = @ + 1].num = old.num
              /\ [old EXCEPT !.excess = @ + 1].slot = old.slot
            BY <1>1 DEF PubType
        <3> QED
            BY <1>1, <1>5, <3>1 DEF PassRing, LeaveRing
    <2>2. /\ new.pc \in {"ring", "finish"} /\ new.num = rec.num
          \/ new.pc = "idle"
        BY <2>1 DEF NextRing, PubIdle
    <2> QED
        BY <1>2, <2>1, <2>2 DEF Goes, Outside, OwedBy, Offering
<1> QED
    BY <1>3, <1>4, <1>5 DEF MovesNoRef

\* Every publisher action is one of the three.
LEMMA PubMessages ==
    ASSUME TypeInv, CountInv, NEW p \in Pubs, PubNext(p)
    PROVE  Reserves(p) \/ Numbers(p) \/ Proceeds(p)
<1> USE DEF PubAt, Goto, Keep
<1> DEFINE old == pub[p]
           new == pub'[p]
<1>1. /\ pub \in [Pubs -> PubType] /\ old \in PubType /\ Fits(old) /\ free \subseteq Slots
      /\ old.ring \in Rings /\ old.excess \in Nat /\ MaxSubs \in Nat \ {0} /\ old.ring <= MaxSubs /\ old.ring \in Nat
    <2>1. pub \in [Pubs -> PubType] /\ free \subseteq Slots /\ Fits(pub[p])
        BY BooksBySlot DEF TypeInv, TypeOK, ExcessFits
    <2>2. old \in PubType
        BY <2>1
    <2>3. old.ring \in Rings /\ old.excess \in Nat
        BY <2>2 DEF PubType
    <2> QED
        BY <2>1, <2>2, <2>3, SizesAssumption DEF Rings
<1>2. CASE Allocate(p)
    <2>1. PICK s \in free : /\ payload' = [payload EXCEPT ![s] = Message(p)]
                            /\ pub' = [pub EXCEPT ![p].pc = "reserved", ![p].slot = s]
        BY <1>2 DEF Allocate, Message
    <2>2. new.pc = "reserved" /\ new.slot = s /\ new.num = old.num
        BY <1>1, <2>1 DEF PubType
    <2>3. UNCHANGED <<sent, writePos, meta, seq>>
        BY <1>2 DEF Allocate, ringVars, entryVars, ghostVars
    <2> QED
        BY <2>1, <2>2, <2>3 DEF Reserves
<1>3. CASE ClaimPos(p)
    <2>1. old.pc = "claim"
        BY <1>3 DEF ClaimPos
    <2>2. OwedBy(old) > 0
        BY <1>1, <2>1 DEF OwedBy, Offering, Undecided
    <2> QED
        BY <1>1, <1>3, <2>2 DEF ClaimPos, Numbers, Message, PubType, entryVars, slotVars
<1>4. CASE ~Allocate(p) /\ ~ClaimPos(p)
    <2>1. UNCHANGED <<payload, sent, writePos>>
        BY <1>4 DEF PubNext, PubStep, ringVars, slotVars, ghostVars, AllocateFails, ReleasePending, Preset, Admit,
            PassRing, WaitFirst, WaitDone, WaitTimeout, LockEntry, LockRetry, LockGiveUp, HealLook,
            HealSteal, HealSkip, CheckLock, TakeClaim, ReleasePrev, PushPrev, Commit, LeaveRing, Finish, Recycle
    <2>2. CASE MovesNoRef(p)
        BY <1>1, <1>4, <2>1, <2>2, RefsKeptGo, PubKeepsRefs DEF Proceeds, KeepsRefs
    <2>3. CASE Preset(p)
        <3>1. new.pc = "ring" /\ new.slot = old.slot /\ new.num = old.num /\ old.pc = "reserved" /\ meta' = meta
            BY <1>1, <2>3 DEF Preset, PubType, entryVars
        <3> QED
            BY <2>1, <3>1 DEF Proceeds, Goes, Outside
    <2>4. CASE TakeClaim(p) /\ MetaPrecedes(PubMeta(p), pub[p].pos)
        <3>1. /\ new.pc \in {"commit", "release"} /\ old.pc = "take" /\ new.slot = old.slot /\ new.num = old.num
              /\ new.ring = old.ring /\ new.pos = old.pos /\ seq' = seq
              /\ meta' = Put(meta, pub[p].ring, pub[p].pos, MetaClaim(pub[p].pos, pub[p].slot))
            BY <1>1, <2>4 DEF TakeClaim, PubType
        <3>2. OwedBy(old) > 0
            BY <1>1, <3>1 DEF OwedBy, Offering, Undecided
        <3> QED
            BY <2>1, <2>4, <3>1, <3>2 DEF Proceeds, Goes, Outside, Pending
    <2>5. CASE ReleasePrev(p) \/ PushPrev(p)
        <3>1. /\ old.pc \in {"release", "push"} /\ new.pc \in {"push", "commit"} /\ new.slot = old.slot
              /\ new.num = old.num /\ new.ring = old.ring /\ new.pos = old.pos /\ new.excess = old.excess
              /\ meta' = meta
            BY <1>1, <2>5 DEF ReleasePrev, PushPrev, PubType, entryVars
        <3>2. OwedBy(new) = OwedBy(old)
            BY <3>1 DEF OwedBy, Offering, Undecided
        <3> QED
            BY <2>1, <3>1, <3>2 DEF Proceeds, Goes, Outside, Pending
    <2>6. CASE Finish(p) \/ Recycle(p) \/ ReleasePending(p)
        <3>1. new.pc \in {"idle", "recycle"} /\ meta' = meta
            BY <1>1, <2>6 DEF Finish, Recycle, ReleasePending, PubIdle, PubType, entryVars
        <3> QED
            BY <2>1, <3>1 DEF Proceeds, Goes, Outside, OwedBy, Offering
    <2> QED
        BY <1>4, <2>2, <2>3, <2>4, <2>5, <2>6 DEF PubNext, PubStep, MovesNoRef
<1> QED
    BY <1>2, <1>3, <1>4

\* A publisher leaves the locals of the others, the subscribers and the dead alone.
LEMMA PubIsAlone ==
    ASSUME TypeInv, CountInv, NEW p \in Pubs, PubNext(p)
    PROVE  /\ \A q \in Pubs \ {p} : pub'[q] = pub[q]
           /\ UNCHANGED <<sub, views, alive, settled>> /\ p \in alive /\ p \notin settled
<1>1. \A q \in Pubs \ {p} : pub'[q] = pub[q]
    BY PubStepMoves DEF PubMoves, TypeInv, TypeOK
<1>2. UNCHANGED <<sub, views, alive, settled>>
    BY DEF PubNext, PubStep, subVars, ghostVars, Allocate,
        AllocateFails, ReleasePending, Preset, Admit, PassRing, ClaimPos, WaitFirst, WaitDone,
        WaitTimeout, LockEntry, LockRetry, LockGiveUp, HealLook, HealSteal, HealSkip, CheckLock,
        TakeClaim, ReleasePrev, PushPrev, Commit, LeaveRing, Finish, Recycle
<1>3. p \in alive
    BY PubAdmission
<1>4. p \notin settled
    BY <1>3, BooksBySlot DEF SettledAreDead
<1> QED
    BY <1>1, <1>2, <1>3, <1>4

\* Everybody else leaves the publishers and the messages alone.
LEMMA OthersAreMute ==
    ASSUME [Next]_vars, \A p \in Pubs : ~PubNext(p)
    PROVE  UNCHANGED <<pub, payload, sent, writePos>>
<1>1. CASE UNCHANGED vars
    BY <1>1 DEF vars, ringVars, slotVars, ghostVars
<1>2. CASE RepairStart \/ GcStep \/ CrashRepairer
    BY <1>2 DEF RepairStart, GcStep, CrashRepairer, RepairRing, RepairLook, RepairSteal, RepairSkip,
        RepairGrace, RepairGraceSkip, ringVars, slotVars, ghostVars
<1>3. CASE Operator
    BY <1>3, SMTT(30) DEF Operator, ringVars, slotVars, ghostVars, ResetRetiredRing, ReclaimDeadRing, ReclaimOrphanedSlots,
        CrashPub, CrashSub
<1>4. ASSUME NEW u \in Subs, SubNext(u)
      PROVE  UNCHANGED <<pub, payload, sent, writePos>>
    BY <1>4 DEF SubNext, SubStep, ringVars, slotVars, ghostVars, Join, JoinFloor, JoinClaim, JoinNext, JoinOwn,
        JoinSeek, Poll, LookSeq, LookMeta, Pin, Deliver, Overtaken, Unpin, PushSlot, DropView, Leave, Quiesced,
        QuiesceTimeout, ClearOwner, DrainWindow, DrainLook, DrainClear, DrainDrop, FreeRing, RetireRing
<1> QED
    BY <1>1, <1>2, <1>3, <1>4, NextSplits

\* What was sent at a position stays, and the position stays passed.
LEMMA SentStays ==
    ASSUME TypeInv, CountInv, SentFits, [Next]_vars, NEW r \in Rings, NEW n \in Nat, n < writePos[r]
    PROVE  /\ sent'[r][n + 1] = sent[r][n + 1] /\ n < writePos'[r]
           /\ Passed(r, n) => Passed(r, n)'
<1>1. /\ writePos \in [Rings -> Nat] /\ sent \in [Rings -> Seq(Msg)] /\ sent[r] \in Seq(Msg)
      /\ Len(sent[r]) = writePos[r] /\ writePos[r] \in Nat
    BY DEF TypeInv, TypeOK, SentFits
<1>2. CASE \A p \in Pubs : ~PubNext(p)
    BY <1>2, OthersAreMute DEF Passed
<1>3. ASSUME NEW p \in Pubs, PubNext(p)
      PROVE  /\ sent'[r][n + 1] = sent[r][n + 1] /\ n < writePos'[r]
             /\ Passed(r, n) => Passed(r, n)'
    <2>1. \A q \in Pubs \ {p} : pub'[q] = pub[q]
        BY <1>3, PubIsAlone
    <2>2. CASE Reserves(p) \/ Proceeds(p)
        <3>1. UNCHANGED <<sent, writePos>>
            BY <2>2 DEF Reserves, Proceeds
        <3>2. pub'[p].pc \in Pending => pub[p].pc \in Pending /\ pub'[p].ring = pub[p].ring /\ pub'[p].pos = pub[p].pos
            BY <2>2 DEF Reserves, Proceeds, Goes, Pending, Outside
        <3> QED
            BY <2>1, <3>1, <3>2 DEF Passed
    <2>3. CASE Numbers(p)
        <3> DEFINE a == pub[p].ring
        <3>1. a \in Rings /\ Message(p) \in Msg
            BY DEF TypeInv, TypeOK, PubType, Message, Msg
        <3>2. sent' = [sent EXCEPT ![a] = Append(@, Message(p))] /\ writePos' = [writePos EXCEPT ![a] = @ + 1]
            BY <2>3 DEF Numbers
        <3>3. sent'[r] = IF r = a THEN Append(sent[r], Message(p)) ELSE sent[r]
            BY <1>1, <3>1, <3>2
        <3>4. sent'[r][n + 1] = sent[r][n + 1]
            <4>1. n + 1 \in 1..Len(sent[r])
                BY <1>1
            <4> QED
                BY <1>1, <3>1, <3>3, <4>1
        <3>5. n < writePos'[r]
            BY <1>1, <3>1, <3>2
        <3>6. pub'[p].ring = a /\ pub'[p].pos = writePos[a]
            BY <2>3 DEF Numbers
        <3>7. ASSUME Passed(r, n)
              PROVE  Passed(r, n)'
            <4> SUFFICES ASSUME NEW q \in Pubs, pub'[q].pc \in Pending, pub'[q].ring = r
                         PROVE  pub'[q].pos # n
                BY DEF Passed
            <4>1. CASE q = p
                BY <1>1, <3>6, <4>1
            <4>2. CASE q # p
                BY <2>1, <3>7, <4>2 DEF Passed
            <4> QED
                BY <4>1, <4>2
        <3> QED
            BY <3>4, <3>5, <3>7
    <2> QED
        BY <1>3, <2>2, <2>3, PubMessages
<1> QED
    BY <1>2, <1>3

\* No two publishers work on one position.
LEMMA PositionIsOnes ==
    ASSUME SentFits, NEW p \in Pubs, NEW q \in Pubs, pub[p].pc \in Pending, pub[q].pc \in Pending,
           pub[p].ring = pub[q].ring, pub[p].pos = pub[q].pos
    PROVE  p = q
<1>1. Message(p) = Message(q)
    BY DEF SentFits, Pending, Outside
<1> QED
    BY <1>1 DEF Message

\* A commit is the last that its position sees.
LEMMA CommitPasses ==
    ASSUME TypeInv, CountInv, DrainInv, SentFits, CommitsPassed, [Next]_vars
    PROVE  CommitsPassed'
<1> SUFFICES ASSUME NEW r \in Rings, NEW i \in Index, seq'[r][i].tag = "commit"
             PROVE  /\ seq'[r][i].val <= writePos'[r]
                    /\ \A q \in Pubs : pub'[q].pc \in Pending /\ pub'[q].ring = r => pub'[q].pos # seq'[r][i].val - 1
    BY DEF CommitsPassed, Passed
<1>0. /\ seq[r][i].val \in Nat /\ writePos[r] \in Nat /\ writePos'[r] \in Nat
      /\ \A q \in Pubs : pub[q].pos \in Nat /\ pub[q].ring \in Rings /\ pub'[q].pos \in Nat
    <2>1. TypeInv'
        BY StepTypes
    <2>2. writePos'[r] \in Nat /\ pub' \in [Pubs -> PubType]
        BY <2>1 DEF TypeInv, TypeOK
    <2>3. \A q \in Pubs : pub'[q].pos \in Nat
        BY <2>2 DEF PubType
    <2>4. /\ seq[r][i].val \in Nat /\ writePos[r] \in Nat
          /\ \A q \in Pubs : pub[q].pos \in Nat /\ pub[q].ring \in Rings
        BY DEF TypeInv, TypeOK, SeqWord, PubType
    <2> QED
        BY <2>2, <2>3, <2>4
<1>1. CASE seq'[r][i] = seq[r][i]
    <2>1. seq[r][i].val <= writePos[r] /\ Passed(r, seq[r][i].val - 1)
        BY <1>1 DEF CommitsPassed
    <2>2. CASE seq[r][i].val = 0
        BY <1>0, <1>1, <2>2
    <2>3. CASE seq[r][i].val # 0
        <3>1. PICK n \in Nat : n = seq[r][i].val - 1
            BY <1>0, <2>3
        <3>2. n < writePos[r] /\ Passed(r, n)
            BY <1>0, <2>1, <3>1
        <3>3. n < writePos'[r] /\ Passed(r, n)'
            BY <3>2, SentStays
        <3>4. \A q \in Pubs : pub'[q].pc \in Pending /\ pub'[q].ring = r => pub'[q].pos # n
            BY <3>3 DEF Passed
        <3> QED
            BY <1>0, <1>1, <3>1, <3>3, <3>4
    <2> QED
        BY <2>2, <2>3
<1>2. ASSUME NEW p \in Pubs, Commit(p), r = pub[p].ring, i = pub[p].pos % Capacity, seq'[r][i].val = pub[p].pos + 1
      PROVE  /\ seq'[r][i].val <= writePos'[r]
             /\ \A q \in Pubs : pub'[q].pc \in Pending /\ pub'[q].ring = r => pub'[q].pos # seq'[r][i].val - 1
    <2>1. pub[p].pc = "commit" /\ pub'[p].pc = "leave" /\ PubNext(p)
        BY <1>2 DEF Commit, PubAt, Goto, PubNext, PubStep, TypeInv, TypeOK, PubType
    <2>2. pub[p].pos < writePos[r] /\ writePos' = writePos
        BY <1>2, <2>1 DEF Commit, ringVars, DrainInv, PositionsFit, Outside
    <2>3. \A q \in Pubs \ {p} : pub'[q] = pub[q]
        BY <2>1, PubIsAlone
    <2>4. \A q \in Pubs : pub'[q].pc \in Pending /\ pub'[q].ring = r => pub'[q].pos # pub[p].pos
        <3> SUFFICES ASSUME NEW q \in Pubs, pub'[q].pc \in Pending, pub'[q].ring = r, pub'[q].pos = pub[p].pos
                     PROVE  FALSE
            OBVIOUS
        <3>1. q # p /\ pub'[q] = pub[q]
            BY <2>1, <2>3 DEF Pending
        <3>2. pub[p].pc \in Pending
            BY <2>1 DEF Pending
        <3> QED
            BY <1>2, <3>1, <3>2, PositionIsOnes
    <2>5. seq'[r][i].val <= writePos'[r] /\ seq'[r][i].val - 1 = pub[p].pos
        BY <1>0, <1>2, <2>2
    <2> QED
        BY <2>4, <2>5
<1> QED
    BY <1>1, <1>2, CommitsOnly

\* The settled stay settled.
LEMMA SettledGrows ==
    ASSUME TypeInv, CountInv, [Next]_vars
    PROVE  settled \subseteq settled'
<1>1. CASE UNCHANGED vars \/ RepairStart \/ GcStep \/ CrashRepairer
    BY <1>1 DEF vars, ghostVars, RepairStart, GcStep, CrashRepairer, RepairRing, RepairLook, RepairSteal,
        RepairSkip, RepairGrace, RepairGraceSkip
<1>2. CASE Operator
    <2>1. settled \subseteq Dead
        BY SMTT(30) DEF CountInv, SettledAreDead, Dead, TypeInv, TypeOK
    <2> QED
        BY <1>2, <2>1 DEF Operator, ghostVars, ResetRetiredRing, ReclaimDeadRing, ReclaimOrphanedSlots,
            CrashPub, CrashSub
<1>3. ASSUME NEW u \in Subs, SubNext(u)
      PROVE  settled' = settled
    BY <1>3 DEF SubNext, SubStep, ghostVars, Join, JoinFloor, JoinClaim, JoinNext, JoinOwn,
        JoinSeek, Poll, LookSeq, LookMeta, Pin, Deliver, Overtaken, Unpin, PushSlot, DropView, Leave, Quiesced,
        QuiesceTimeout, ClearOwner, DrainWindow, DrainLook, DrainClear, DrainDrop, FreeRing, RetireRing
<1> QED
    BY <1>1, <1>2, <1>3, NextSplits, PubIsAlone

\* Who does not publish writes a claim only to clear it, and only while it drains.
LEMMA OthersClear ==
    ASSUME TypeInv, [Next]_vars, \A p \in Pubs : ~PubNext(p), NEW r \in Rings, NEW i \in Index,
           meta'[r][i] # meta[r][i]
    PROVE  /\ meta'[r][i].slot = NoSlot
           /\ \E u \in Subs : sub[u].pc = "unclaim" /\ sub[u].ring = r /\ SubNext(u)
<1>1. ASSUME NEW u \in Subs, DrainClear(u)
      PROVE  meta'[r][i].slot = NoSlot /\ sub[u].pc = "unclaim" /\ sub[u].ring = r
    <2>1. At(meta, sub[u].ring, sub[u].pos) = sub[u].claim
        BY <1>1 DEF DrainClear
    <2>2. sub[u].ring \in Rings /\ sub[u].pos % Capacity \in Index /\ sub[u].claim \in MetaWord
        BY IndexInRange DEF TypeInv, TypeOK, SubType
    <2>3. /\ meta' = [meta EXCEPT ![sub[u].ring][sub[u].pos % Capacity] = MetaCleared(sub[u].claim)]
          /\ sub[u].pc = "unclaim"
        BY <1>1, <2>1 DEF DrainClear, Put, SubAt
    <2>4. MetaCleared(sub[u].claim).slot = NoSlot
        BY <2>2 DEF MetaCleared, MetaWord
    <2>5. meta \in [Rings -> [Index -> MetaWord]]
        BY DEF TypeInv, TypeOK
    <2> QED
        BY <2>2, <2>3, <2>4, <2>5
<1>2. ASSUME NEW u \in Subs, SubNext(u), ~DrainClear(u)
      PROVE  UNCHANGED meta
    BY <1>2 DEF SubNext, SubStep, entryVars, Join, JoinFloor, JoinClaim, JoinNext, JoinOwn, JoinSeek, Poll,
        LookSeq, LookMeta, Pin, Deliver, Overtaken, Unpin, PushSlot, DropView, Leave, Quiesced,
        QuiesceTimeout, ClearOwner, DrainWindow, DrainLook, DrainDrop, FreeRing, RetireRing
<1>3. CASE UNCHANGED vars \/ RepairStart \/ GcStep \/ CrashRepairer \/ Operator
    BY <1>3, SMTT(30) DEF vars, entryVars, RepairStart, GcStep, CrashRepairer, RepairRing, RepairLook, RepairSteal,
        RepairSkip, RepairGrace, RepairGraceSkip, Operator, ResetRetiredRing, ReclaimDeadRing,
        ReclaimOrphanedSlots, CrashPub, CrashSub
<1> QED
    BY <1>1, <1>2, <1>3, NextSplits

\* The steps that reserve a slot, ...
LEMMA ReserveTrue ==
    ASSUME TypeInv, CountInv, ClaimsAreTrue, NEW p \in Pubs, PubNext(p), Reserves(p)
    PROVE  SentFits' /\ OwnPayload' /\ ClaimShowsItsMessage'
<1>1. PICK s \in free : payload' = [payload EXCEPT ![s] = Message(p)] /\ pub'[p].slot = s
    BY DEF Reserves
<1>2. /\ pub'[p].pc = "reserved" /\ pub'[p].num = pub[p].num /\ UNCHANGED <<sent, writePos, meta, settled>>
      /\ \A q \in Pubs \ {p} : pub'[q] = pub[q]
    BY PubIsAlone DEF Reserves
<1>3. /\ payload \in [Slots -> Msg \cup {NoMsg}] /\ s \in Slots
      /\ \A t \in Slots \ {s} : payload'[t] = payload[t]
      /\ payload'[s] = Message(p)
    BY <1>1 DEF TypeInv, TypeOK
<1>4. SentFits'
    BY <1>2 DEF ClaimsAreTrue, SentFits, Message, Outside
<1>5. OwnPayload'
    <2> SUFFICES ASSUME NEW q \in Pubs \ settled, pub'[q].pc = "reserved" \/ OwedBy(pub'[q]) > 0
                 PROVE  payload'[pub'[q].slot] = [from |-> q, num |-> pub'[q].num]
        BY <1>2 DEF OwnPayload, Message
    <2>1. CASE q = p
        BY <1>1, <1>2, <1>3, <2>1 DEF Message
    <2>2. CASE q # p
        <3>1. /\ pub'[q] = pub[q] /\ payload[pub[q].slot] = Message(q)
              /\ pub[q].pc = "reserved" \/ OwedBy(pub[q]) > 0
            BY <1>2, <2>2 DEF ClaimsAreTrue, OwnPayload
        <3>2. pub[q].slot \in Slots
            BY <3>1 DEF TypeInv, Shape, OwedBy, Offering
        <3>3. pub[q].slot \notin free
            BY <3>1, <3>2, UsedIsNotFree
        <3> QED
            BY <1>3, <3>1, <3>2, <3>3 DEF Message
    <2> QED
        BY <2>1, <2>2
<1>6. ClaimShowsItsMessage'
    <2> SUFFICES ASSUME NEW r \in Rings, NEW i \in Index, meta[r][i].slot # NoSlot
                 PROVE  payload'[meta[r][i].slot] = sent[r][meta[r][i].tag]
        BY <1>2 DEF ClaimShowsItsMessage
    <2>1. meta[r][i].slot \in Slots /\ payload[meta[r][i].slot] = sent[r][meta[r][i].tag]
        BY DEF TypeInv, TypeOK, MetaWord, ClaimsAreTrue, ClaimShowsItsMessage
    <2>2. <<r, i>> \in Claims(meta[r][i].slot)
        BY DEF Claims
    <2>3. meta[r][i].slot \notin free
        BY <2>1, <2>2, UsedIsNotFree
    <2> QED
        BY <1>3, <2>1, <2>3
<1> QED
    BY <1>4, <1>5, <1>6

\* ... those that claim a position, ...
LEMMA NumberTrue ==
    ASSUME TypeInv, CountInv, DrainInv, ClaimsAreTrue, NEW p \in Pubs, PubNext(p), Numbers(p)
    PROVE  SentFits' /\ OwnPayload' /\ ClaimShowsItsMessage'
<1> DEFINE a == pub[p].ring
<1>1. /\ \A q \in Pubs \ {p} : pub'[q] = pub[q]
      /\ UNCHANGED <<payload, meta, settled>>
    BY PubIsAlone DEF Numbers
<1>2. /\ pub'[p].pos = writePos[a] /\ pub'[p].ring = a /\ pub'[p].num = pub[p].num /\ pub'[p].slot = pub[p].slot
      /\ OwedBy(pub[p]) > 0 /\ pub'[p].pc \in {"first", "lock"}
      /\ sent' = [sent EXCEPT ![a] = Append(@, Message(p))] /\ writePos' = [writePos EXCEPT ![a] = @ + 1]
    BY DEF Numbers
<1>3. /\ a \in Rings /\ Message(p) \in Msg /\ writePos \in [Rings -> Nat] /\ sent \in [Rings -> Seq(Msg)]
      /\ \A r \in Rings : Len(sent[r]) = writePos[r]
    BY DEF TypeInv, TypeOK, PubType, Message, Msg, ClaimsAreTrue, SentFits
<1>4. ASSUME NEW r \in Rings, NEW n \in Nat, n < writePos[r]
      PROVE  sent'[r][n + 1] = sent[r][n + 1]
    <2>1. [Next]_vars
        BY DEF Next
    <2> QED
        BY <1>4, <2>1, SentStays DEF ClaimsAreTrue
<1>5. sent'[a] = Append(sent[a], Message(p)) /\ sent[a] \in Seq(Msg) /\ Len(sent[a]) = writePos[a]
    BY <1>2, <1>3
<1>6. sent'[a][writePos[a] + 1] = Message(p) /\ Len(sent'[a]) = writePos[a] + 1
    BY <1>3, <1>5
<1>7. SentFits'
    <2>1. ASSUME NEW r \in Rings
          PROVE  Len(sent'[r]) = writePos'[r]
        <3>1. CASE r = a
            BY <1>2, <1>3, <1>6, <3>1
        <3>2. CASE r # a
            BY <1>2, <1>3, <3>2
        <3> QED
            BY <3>1, <3>2
    <2>2. ASSUME NEW q \in Pubs, pub'[q].pc \notin Outside \cup {"claim"}
          PROVE  sent'[pub'[q].ring][pub'[q].pos + 1] = [from |-> q, num |-> pub'[q].num]
        <3>1. CASE q = p
            BY <1>2, <1>6, <3>1 DEF Message
        <3>2. CASE q # p
            <4>1. /\ pub'[q] = pub[q] /\ pub[q].pos < writePos[pub[q].ring]
                  /\ sent[pub[q].ring][pub[q].pos + 1] = Message(q)
                BY <1>1, <2>2, <3>2 DEF DrainInv, PositionsFit, ClaimsAreTrue, SentFits
            <4>2. pub[q].ring \in Rings /\ pub[q].pos \in Nat
                BY DEF TypeInv, TypeOK, PubType
            <4> QED
                BY <1>4, <4>1, <4>2 DEF Message
        <3> QED
            BY <3>1, <3>2
    <2> QED
        BY <2>1, <2>2 DEF SentFits, Message
<1>8. OwnPayload'
    <2> SUFFICES ASSUME NEW q \in Pubs \ settled, pub'[q].pc = "reserved" \/ OwedBy(pub'[q]) > 0
                 PROVE  payload[pub'[q].slot] = [from |-> q, num |-> pub'[q].num]
        BY <1>1 DEF OwnPayload, Message
    <2>1. CASE q = p
        BY <1>2, <2>1 DEF ClaimsAreTrue, OwnPayload, Message
    <2>2. CASE q # p
        BY <1>1, <2>2 DEF ClaimsAreTrue, OwnPayload, Message
    <2> QED
        BY <2>1, <2>2
<1>9. ClaimShowsItsMessage'
    <2> SUFFICES ASSUME NEW r \in Rings, NEW i \in Index, meta[r][i].slot # NoSlot
                 PROVE  payload[meta[r][i].slot] = sent'[r][meta[r][i].tag]
        BY <1>1 DEF ClaimShowsItsMessage
    <2>1. meta[r][i].tag \in 1..writePos[r] /\ payload[meta[r][i].slot] = sent[r][meta[r][i].tag]
        BY DEF DrainInv, ClaimsFit, ClaimsAreTrue, ClaimShowsItsMessage
    <2>2. PICK n \in Nat : n + 1 = meta[r][i].tag /\ n < writePos[r]
        <3>1. writePos[r] \in Nat
            BY <1>3
        <3>2. ASSUME NEW w \in Nat, NEW t \in 1..w
              PROVE  t - 1 \in Nat /\ (t - 1) + 1 = t /\ t - 1 < w
            OBVIOUS
        <3> QED
            BY <2>1, <3>1, <3>2
    <2> QED
        BY <1>4, <2>1, <2>2
<1> QED
    BY <1>7, <1>8, <1>9

\* ... and the others, keep what messages and claims say.
LEMMA ProceedTrue ==
    ASSUME TypeInv, CountInv, ClaimsAreTrue, NEW p \in Pubs, PubNext(p), Proceeds(p)
    PROVE  SentFits' /\ OwnPayload' /\ ClaimShowsItsMessage'
<1>1. /\ \A q \in Pubs \ {p} : pub'[q] = pub[q]
      /\ UNCHANGED <<payload, sent, writePos, settled>> /\ Goes(pub[p], pub'[p]) /\ p \notin settled
    BY PubIsAlone DEF Proceeds
<1>2. SentFits'
    <2> SUFFICES ASSUME NEW q \in Pubs, pub'[q].pc \notin Outside \cup {"claim"}
                 PROVE  sent[pub'[q].ring][pub'[q].pos + 1] = [from |-> q, num |-> pub'[q].num]
        BY <1>1 DEF ClaimsAreTrue, SentFits, Message
    <2>1. CASE q = p
        BY <1>1, <2>1 DEF Goes, ClaimsAreTrue, SentFits, Message
    <2>2. CASE q # p
        BY <1>1, <2>2 DEF ClaimsAreTrue, SentFits, Message
    <2> QED
        BY <2>1, <2>2
<1>3. OwnPayload'
    <2> SUFFICES ASSUME NEW q \in Pubs \ settled, pub'[q].pc = "reserved" \/ OwedBy(pub'[q]) > 0
                 PROVE  payload[pub'[q].slot] = [from |-> q, num |-> pub'[q].num]
        BY <1>1 DEF OwnPayload, Message
    <2>1. CASE q = p
        BY <1>1, <2>1 DEF Goes, ClaimsAreTrue, OwnPayload, Message
    <2>2. CASE q # p
        BY <1>1, <2>2 DEF ClaimsAreTrue, OwnPayload, Message
    <2> QED
        BY <2>1, <2>2
<1>4. ClaimShowsItsMessage'
    <2>1. CASE meta' = meta
        BY <1>1, <2>1 DEF ClaimShowsItsMessage, ClaimsAreTrue
    <2>2. CASE /\ pub[p].pc = "take" /\ OwedBy(pub[p]) > 0
               /\ meta' = Put(meta, pub[p].ring, pub[p].pos, MetaClaim(pub[p].pos, pub[p].slot))
        <3> DEFINE claim == MetaClaim(pub[p].pos, pub[p].slot)
        <3>1. pub[p].ring \in Rings /\ pub[p].pos % Capacity \in Index
            BY IndexInRange DEF TypeInv, TypeOK, PubType
        <3>2. claim.slot = pub[p].slot /\ claim.tag = pub[p].pos + 1
            BY DEF MetaClaim
        <3>3. payload[claim.slot] = sent[pub[p].ring][claim.tag]
            BY <1>1, <2>2, <3>2 DEF ClaimsAreTrue, OwnPayload, SentFits, Outside
        <3>4. meta' = [meta EXCEPT ![pub[p].ring][pub[p].pos % Capacity] = claim]
            BY <2>2 DEF Put
        <3> HIDE DEF claim
        <3>5. ASSUME NEW r \in Rings, NEW i \in Index
              PROVE  meta'[r][i] = meta[r][i] \/ (meta'[r][i] = claim /\ r = pub[p].ring)
            BY <3>1, <3>4 DEF TypeInv, TypeOK
        <3> QED
            BY <1>1, <3>3, <3>5 DEF ClaimShowsItsMessage, ClaimsAreTrue
    <2> QED
        BY <2>1, <2>2 DEF Proceeds
<1> QED
    BY <1>2, <1>3, <1>4

\* Every step keeps what messages, claims and commits say.
LEMMA StepMessages ==
    ASSUME TypeInv, CountInv, DrainInv, ClaimsAreTrue, [Next]_vars
    PROVE  ClaimsAreTrue'
<1>1. CommitsPassed'
    BY CommitPasses DEF ClaimsAreTrue
<1>2. CASE \A p \in Pubs : ~PubNext(p)
    <2>1. UNCHANGED <<pub, payload, sent, writePos>> /\ settled \subseteq settled'
        BY <1>2, OthersAreMute, SettledGrows
    <2>2. \A r \in Rings, i \in Index : meta'[r][i] = meta[r][i] \/ meta'[r][i].slot = NoSlot
        BY <1>2, OthersClear
    <2>3. SentFits'
        BY <2>1 DEF ClaimsAreTrue, SentFits, Message
    <2>4. OwnPayload'
        BY <2>1 DEF ClaimsAreTrue, OwnPayload, Message
    <2>5. ClaimShowsItsMessage'
        BY <2>1, <2>2 DEF ClaimsAreTrue, ClaimShowsItsMessage
    <2> QED
        BY <1>1, <2>3, <2>4, <2>5 DEF ClaimsAreTrue
<1>3. ASSUME NEW p \in Pubs, PubNext(p)
      PROVE  ClaimsAreTrue'
    <2>1. SentFits' /\ OwnPayload' /\ ClaimShowsItsMessage'
        BY <1>3, PubMessages, ReserveTrue, NumberTrue, ProceedTrue
    <2> QED
        BY <1>1, <2>1 DEF ClaimsAreTrue
<1> QED
    BY <1>2, <1>3

\* A freshly stamped region has no message.
LEMMA InitMessages == Init => ClaimsAreTrue
<1> SUFFICES ASSUME Init PROVE ClaimsAreTrue
    OBVIOUS
<1>1. /\ \A r \in Rings, i \in Index : meta[r][i].slot = NoSlot /\ seq[r][i].val = 0
      /\ \A r \in Rings : sent[r] = << >> /\ writePos[r] = 0
      /\ \A p \in Pubs : pub[p].pc = "idle" /\ OwedBy(pub[p]) = 0
    BY DEF Init, MetaZero, SeqZero, PubIdle, OwedBy, Offering
<1>2. SentFits /\ OwnPayload /\ ClaimShowsItsMessage
    BY <1>1 DEF SentFits, OwnPayload, ClaimShowsItsMessage, Outside
<1>3. CommitsPassed
    BY <1>1 DEF CommitsPassed, Passed, Pending
<1> QED
    BY <1>2, <1>3 DEF ClaimsAreTrue

-----------------------------------------------------------------------------
\* Nobody comes back to life, and a subscriber is moved by itself only.
LEMMA OthersLeaveSubs ==
    ASSUME TypeInv, CountInv, [Next]_vars, NEW u \in Subs
    PROVE  /\ alive' \subseteq alive
           /\ SubNext(u) \/ (sub'[u] = sub[u] /\ views'[u] = views[u])
<1>1. CASE UNCHANGED vars \/ RepairStart \/ GcStep \/ CrashRepairer
    BY <1>1 DEF vars, subVars, RepairStart, GcStep, CrashRepairer, RepairRing, RepairLook, RepairSteal,
        RepairSkip, RepairGrace, RepairGraceSkip
<1>2. CASE Operator
    BY <1>2 DEF Operator, subVars, ResetRetiredRing, ReclaimDeadRing, ReclaimOrphanedSlots, CrashPub, CrashSub
<1>3. ASSUME NEW w \in Subs, SubNext(w)
      PROVE  alive' = alive /\ (w # u => sub'[u] = sub[u] /\ views'[u] = views[u])
    <2>1. sub'[u] = sub[u] \/ w = u
        BY <1>3, SubStepMoves DEF SubMoves, TypeInv, TypeOK
    <2>2. alive' = alive /\ (views'[u] = views[u] \/ w = u)
        BY <1>3 DEF SubNext, SubStep, subVars, Join, JoinFloor, JoinClaim, JoinNext, JoinOwn,
            JoinSeek, Poll, LookSeq, LookMeta, Pin, Deliver, Overtaken, Unpin, PushSlot, DropView, Leave, Quiesced,
            QuiesceTimeout, ClearOwner, DrainWindow, DrainLook, DrainClear, DrainDrop, FreeRing, RetireRing,
            TypeInv, TypeOK
    <2> QED
        BY <2>1, <2>2
<1>4. ASSUME NEW p \in Pubs, PubNext(p)
      PROVE  alive' = alive /\ sub'[u] = sub[u] /\ views'[u] = views[u]
    BY <1>4, PubIsAlone
<1> QED
    BY <1>1, <1>2, <1>3, <1>4, NextSplits

Pinning == {"meta", "pin", "check"}

\* How a reader gets to its pin and to the second look.
LEMMA ReaderMoves ==
    ASSUME TypeInv, NEW u \in Subs, SubNext(u), sub'[u].pc \in Pinning
    PROVE  /\ meta' = meta /\ sub'[u].ring = sub[u].ring /\ sub'[u].read = sub[u].read
           /\ \/ sub[u].pc = "seq" /\ sub'[u].pc = "meta" /\ HeadSeq(u) = SeqCommit(sub[u].read)
              \/ /\ sub[u].pc = "meta" /\ sub'[u].pc = "pin"
                 /\ At(meta, sub[u].ring, sub[u].read) = MetaClaim(sub[u].read, sub'[u].slot)
              \/ sub[u].pc = "pin" /\ sub'[u].pc = "check" /\ sub'[u].slot = sub[u].slot
              \/ sub'[u] = sub[u]
<1> USE DEF SubAt, GotoSub
<1>1. sub \in [Subs -> SubType] /\ sub[u] \in SubType
    BY DEF TypeInv, TypeOK
<1>2. CASE LookSeq(u)
    BY <1>1, <1>2 DEF LookSeq, Lose, SubType, entryVars, Pinning
<1>3. CASE LookMeta(u)
    <2> DEFINE m == At(meta, sub[u].ring, sub[u].read)
    <2>1. sub[u].ring \in Rings /\ sub[u].read % Capacity \in Index
        BY <1>1, IndexInRange DEF SubType
    <2>2. m \in MetaWord
        BY <2>1 DEF At, TypeInv, TypeOK
    <2>3. m.tag = sub[u].read + 1 => m = MetaClaim(sub[u].read, m.slot)
        BY <2>2 DEF MetaWord, MetaClaim
    <2> HIDE DEF m
    <2>4. /\ sub[u].pc = "meta" /\ meta' = meta
          /\ \/ /\ m.tag = sub[u].read + 1 /\ m.slot # NoSlot
                /\ sub' = [sub EXCEPT ![u].pc = "pin", ![u].slot = m.slot]
             \/ Lose(u)
        BY <1>3 DEF LookMeta, entryVars, m
    <2>5. ~Lose(u)
        BY <1>1 DEF Lose, SubType, Pinning
    <2>6. /\ sub'[u].pc = "pin" /\ sub'[u].slot = m.slot /\ sub'[u].ring = sub[u].ring
          /\ sub'[u].read = sub[u].read
        BY <1>1, <2>4, <2>5 DEF SubType
    <2> QED
        BY <2>3, <2>4, <2>5, <2>6 DEF m
<1>4. CASE Pin(u)
    BY <1>1, <1>4 DEF Pin, Lose, SubType, entryVars, Pinning
<1>5. CASE PushSlot(u) \/ (\E v \in views[u] : DropView(u, v))
    BY <1>5 DEF PushSlot, DropView, entryVars
<1>6. CASE \/ Join(u) \/ JoinFloor(u) \/ JoinClaim(u) \/ JoinNext(u) \/ JoinOwn(u) \/ JoinSeek(u) \/ Poll(u)
    <2>1. CASE Join(u) \/ JoinFloor(u)
        BY <1>1, <2>1 DEF Join, JoinFloor, Floor, SubType, Pinning
    <2>2. CASE JoinClaim(u) \/ JoinOwn(u) \/ JoinSeek(u)
        BY <1>1, <2>2 DEF JoinClaim, JoinOwn, JoinSeek, SubType, Pinning
    <2>3. CASE Poll(u)
        BY <1>1, <2>3 DEF Poll, SubType, Pinning
    <2>4. CASE JoinNext(u)
        <3> DEFINE next == [sub[u] EXCEPT !.pc = "join", !.ring = sub[u].ring + 1]
        <3>1. next.pc = "join" /\ \A k : SubOut(k).pc = "out"
            BY <1>1 DEF SubType, SubOut
        <3>2. sub'[u] = next \/ sub'[u] = SubOut(sub[u].joins + 1)
            BY <1>1, <2>4 DEF JoinNext
        <3> HIDE DEF next
        <3> QED
            BY <3>1, <3>2 DEF Pinning
    <2> QED
        BY <1>6, <2>1, <2>2, <2>3, <2>4
<1>7. CASE Deliver(u) \/ Overtaken(u) \/ Unpin(u)
    BY <1>1, <1>7 DEF Deliver, Overtaken, Unpin, Lose, SubType, Pinning
<1>8. CASE Leave(u) \/ Quiesced(u) \/ QuiesceTimeout(u) \/ ClearOwner(u) \/ DrainWindow(u)
    BY <1>1, <1>8 DEF Leave, Quiesced, QuiesceTimeout, ClearOwner, DrainWindow, SubType, Pinning
<1>9. CASE DrainLook(u) \/ DrainClear(u) \/ DrainDrop(u) \/ FreeRing(u) \/ RetireRing(u)
    <2>1. CASE DrainLook(u) \/ DrainDrop(u)
        BY <1>1, <2>1 DEF DrainLook, DrainDrop, SubType, Pinning
    <2>2. CASE DrainClear(u)
        <3> DEFINE next == [sub[u] EXCEPT !.claim = MetaZero]
                   gone == [next EXCEPT !.pc = "unref", !.slot = sub[u].claim.slot]
                   kept == [next EXCEPT !.pc = "drain", !.pos = @ + 1]
        <3>1. gone.pc = "unref" /\ kept.pc = "drain"
            BY <1>1 DEF SubType
        <3>2. sub'[u] = gone \/ sub'[u] = kept
            BY <1>1, <2>2 DEF DrainClear
        <3> HIDE DEF gone, kept
        <3> QED
            BY <3>1, <3>2 DEF Pinning
    <2>3. CASE FreeRing(u) \/ RetireRing(u)
        <3>1. \A n : SubOut(n).pc = "out"
            BY DEF SubOut
        <3> QED
            BY <1>1, <2>3, <3>1 DEF FreeRing, RetireRing, Pinning
    <2> QED
        BY <1>9, <2>1, <2>2, <2>3
<1> QED
    BY <1>2, <1>3, <1>4, <1>5, <1>6, <1>7, <1>8, <1>9 DEF SubNext, SubStep

\* The claim under a live reader changes only with the sequence of its entry.
LEMMA ClaimIsKept ==
    ASSUME TypeInv, CountInv, TenancyInv, NoLateTakeOver, [Next]_vars,
           NEW u \in Subs \cap alive, sub[u].pc \in Pinning, NEW i \in Index, seq[sub[u].ring][i].tag = "commit"
    PROVE  meta'[sub[u].ring][i] = meta[sub[u].ring][i]
<1> DEFINE r == sub[u].ring
<1>1. r \in Rings
    BY DEF TypeInv, TypeOK, SubType
<1>2. CASE \A p \in Pubs : ~PubNext(p)
    <2> SUFFICES ASSUME meta'[r][i] # meta[r][i]
                 PROVE  FALSE
        OBVIOUS
    <2>1. PICK w \in Subs : sub[w].pc = "unclaim" /\ sub[w].ring = r /\ SubNext(w)
        BY <1>1, <1>2, OthersClear
    <2>2. Holds(w, r)
        BY <2>1 DEF Holds, Unnamed
    <2>3. Holds(u, r)
        BY DEF Holds, TenancyInv, LiveIsNamed, Named, Pinning
    <2>4. w = u
        BY <1>1, <2>2, <2>3 DEF TenancyInv, OneHolder
    <2> QED
        BY <2>1, <2>4 DEF Pinning
<1>3. ASSUME NEW p \in Pubs, PubNext(p)
      PROVE  meta'[r][i] = meta[r][i]
    <2>1. CASE meta' = meta
        BY <2>1
    <2>2. CASE /\ pub[p].pc = "take" /\ MetaPrecedes(PubMeta(p), pub[p].pos)
               /\ meta' = Put(meta, pub[p].ring, pub[p].pos, MetaClaim(pub[p].pos, pub[p].slot))
        <3>1. p \in alive
            BY <1>3, PubIsAlone
        <3>2. pub[p].ring \in Rings /\ pub[p].pos \in Nat /\ pub[p].pos % Capacity \in Index
            BY IndexInRange DEF TypeInv, TypeOK, PubType
        <3>3. PubMeta(p).tag \in Nat
            BY <3>2 DEF PubMeta, At, TypeInv, TypeOK, MetaWord
        <3>4. PubMeta(p).tag <= pub[p].pos
            BY <2>2, <3>2, <3>3 DEF MetaPrecedes
        <3>5. seq[pub[p].ring][pub[p].pos % Capacity].tag # "commit"
            BY <2>2, <3>1, <3>4 DEF NoLateTakeOver, PubSeq, At
        <3>6. ~(pub[p].ring = r /\ pub[p].pos % Capacity = i)
            BY <3>5
        <3> QED
            BY <1>1, <2>2, <3>2, <3>6 DEF Put, TypeInv, TypeOK
    <2> QED
        BY <1>3, <2>1, <2>2, PubMessages DEF Reserves, Numbers, Proceeds
<1> QED
    BY <1>2, <1>3

\* What a reader knows of its entry stays true, ...
LEMMA StepReaders ==
    ASSUME TypeInv, CountInv, TenancyInv, DrainInv, ClaimsAreTrue, ReadersShow, NoLateTakeOver, [Next]_vars
    PROVE  ReadersShow'
<1> SUFFICES ASSUME NEW u \in Subs \cap alive', sub'[u].pc \in Pinning
             PROVE  /\ Passed(sub[u].ring, sub[u].read)'
                    /\ sub'[u].pc \in {"pin", "check"} /\ HeadSeq(u)' = SeqCommit(sub'[u].read) =>
                           At(meta, sub[u].ring, sub[u].read)' = MetaClaim(sub'[u].read, sub'[u].slot)
    BY DEF ReadersShow, Pinning
<1> DEFINE r == sub[u].ring
           n == sub[u].read
           i == n % Capacity
<1>1. /\ u \in Subs \cap alive /\ sub[u] \in SubType /\ r \in Rings /\ n \in Nat /\ i \in Index
      /\ seq \in [Rings -> [Index -> SeqWord]]
    <2>1. u \in Subs \cap alive /\ sub[u] \in SubType /\ seq \in [Rings -> [Index -> SeqWord]]
        BY OthersLeaveSubs DEF TypeInv, TypeOK
    <2> QED
        BY <2>1, IndexInRange DEF SubType
<1>2. \/ sub'[u] = sub[u]
      \/ /\ meta' = meta /\ sub'[u].ring = r /\ sub'[u].read = n
         /\ \/ sub[u].pc = "seq" /\ sub'[u].pc = "meta" /\ HeadSeq(u) = SeqCommit(n)
            \/ /\ sub[u].pc = "meta" /\ sub'[u].pc = "pin"
               /\ At(meta, r, n) = MetaClaim(n, sub'[u].slot)
            \/ sub[u].pc = "pin" /\ sub'[u].pc = "check" /\ sub'[u].slot = sub[u].slot
    BY OthersLeaveSubs, ReaderMoves
<1>3. sub'[u].ring = r /\ sub'[u].read = n /\ sub[u].pc \in Pinning \cup {"seq"}
    BY <1>2 DEF Pinning
<1>4. n < writePos[r] /\ Passed(r, n)
    <2>1. n < writePos[r]
        BY <1>1, <1>3 DEF CountInv, ViewsArePast, Pinning
    <2>2. CASE sub[u].pc \in Pinning
        BY <1>1, <2>1, <2>2 DEF ReadersShow, Pinning
    <2>3. CASE HeadSeq(u) = SeqCommit(n)
        <3>1. seq[r][i].tag = "commit" /\ seq[r][i].val = n + 1
            BY <2>3 DEF HeadSeq, At, SeqCommit
        <3>2. Passed(r, seq[r][i].val - 1)
            BY <1>1, <3>1 DEF ClaimsAreTrue, CommitsPassed
        <3>3. seq[r][i].val - 1 = n
            BY <1>1, <3>1
        <3> QED
            BY <2>1, <3>2, <3>3
    <2> QED
        BY <1>2, <2>1, <2>2, <2>3 DEF Pinning
<1>5. \A q \in Pubs : pub'[q].pc \in Pending /\ pub'[q].ring = r => pub'[q].pos # n
    <2>1. Passed(r, n) => \A q \in Pubs : pub'[q].pc \in Pending /\ pub'[q].ring = r => pub'[q].pos # n
        BY <1>1, <1>4, SentStays DEF Passed, ClaimsAreTrue
    <2> QED
        BY <1>4, <2>1
<1>6. Passed(sub[u].ring, sub[u].read)'
    BY <1>3, <1>5 DEF Passed
<1>7. ASSUME sub'[u].pc \in {"pin", "check"}, HeadSeq(u)' = SeqCommit(n)
      PROVE  meta'[r][i] = MetaClaim(n, sub'[u].slot)
    <2>1. seq'[r][i].tag = "commit" /\ seq'[r][i].val = n + 1 /\ seq'[r][i] = SeqCommit(n)
        BY <1>3, <1>7 DEF HeadSeq, At, SeqCommit
    <2>2. seq'[r][i] = seq[r][i]
        <3> SUFFICES ASSUME NEW p \in Pubs, Commit(p), r = pub[p].ring, seq'[r][i].val = pub[p].pos + 1
                     PROVE  FALSE
            BY <1>1, <2>1, CommitsOnly
        <3>1. pub[p].pc \in Pending /\ pub[p].pos \in Nat
            BY DEF Commit, PubAt, Pending, TypeInv, TypeOK, PubType
        <3>2. pub[p].pos = n
            BY <1>1, <2>1, <3>1
        <3> QED
            BY <1>4, <3>1, <3>2 DEF Passed
    <2>3. HeadSeq(u) = SeqCommit(n)
        BY <2>1, <2>2 DEF HeadSeq, At
    <2>4. sub[u].pc \in Pinning
        BY <1>2, <1>7, SMTT(30) DEF Pinning
    <2>5. meta'[r][i] = meta[r][i]
        BY <1>1, <2>1, <2>2, <2>4, ClaimIsKept
    <2>6. meta[r][i] = MetaClaim(n, sub'[u].slot)
        <3>1. CASE sub[u].pc \in {"pin", "check"} /\ sub'[u].slot = sub[u].slot
            BY <1>1, <2>3, <3>1 DEF ReadersShow, At
        <3>2. CASE At(meta, r, n) = MetaClaim(n, sub'[u].slot)
            BY <3>2 DEF At
        <3> QED
            BY <1>2, <1>7, <3>1, <3>2
    <2> QED
        BY <2>5, <2>6
<1> QED
    BY <1>3, <1>6, <1>7 DEF At

\* ... which is all that a delivery needs.
LEMMA StepViews ==
    ASSUME TypeInv, CountInv, ClaimsAreTrue, ReadersShow, ViewShowsItsMessage, [Next]_vars
    PROVE  ViewShowsItsMessage'
<1> SUFFICES ASSUME NEW u \in Subs \ settled', NEW v \in views'[u]
             PROVE  payload'[v.slot] = sent'[v.ring][v.pos + 1]
    BY DEF ViewShowsItsMessage
<1>1. u \in Subs \ settled
    BY SettledGrows
<1>2. CASE v \in views[u]
    <2>1. payload[v.slot] = sent[v.ring][v.pos + 1]
        BY <1>1, <1>2 DEF ViewShowsItsMessage
    <2>2. payload'[v.slot] = payload[v.slot]
        BY <1>1, <1>2, ViewedIsNotFree, PayloadWrites
    <2>3. v.ring \in Rings /\ v.pos \in Nat /\ v.pos < writePos[v.ring]
        BY <1>2 DEF TypeInv, TypeOK, View, CountInv, ViewsArePast
    <2>4. sent'[v.ring][v.pos + 1] = sent[v.ring][v.pos + 1]
        BY <2>3, SentStays DEF ClaimsAreTrue
    <2> QED
        BY <2>1, <2>2, <2>4
<1>3. CASE v \notin views[u]
    <2>1. SubNext(u)
        BY <1>3, OthersLeaveSubs
    <2>2. Deliver(u)
        BY <1>3, <2>1 DEF SubNext, SubStep, subVars, Join, JoinFloor, JoinClaim, JoinNext, JoinOwn,
            JoinSeek, Poll, LookSeq, LookMeta, Pin, Overtaken, Unpin, PushSlot, DropView, Leave, Quiesced,
            QuiesceTimeout, ClearOwner, DrainWindow, DrainLook, DrainClear, DrainDrop, FreeRing, RetireRing,
            TypeInv, TypeOK
    <2>3. v = [slot |-> sub[u].slot, ring |-> sub[u].ring, pos |-> sub[u].read]
        BY <1>3, <2>2 DEF Deliver, TypeInv, TypeOK
    <2>4. At(meta, sub[u].ring, sub[u].read) = MetaClaim(sub[u].read, sub[u].slot)
        BY <2>2 DEF Deliver, SubAt, StillCommitted, ReadersShow
    <2>5. /\ sub[u].ring \in Rings /\ sub[u].read % Capacity \in Index
          /\ sub[u].slot # NoSlot
        <3>1. sub[u] \in SubType /\ sub[u].slot \in Slots
            BY <2>2 DEF Deliver, SubAt, TypeInv, TypeOK, Shape
        <3> QED
            BY <3>1, IndexInRange, NamesAssumption DEF SubType
    <2>6. payload[sub[u].slot] = sent[sub[u].ring][sub[u].read + 1]
        BY <2>4, <2>5 DEF At, MetaClaim, ClaimsAreTrue, ClaimShowsItsMessage
    <2>7. UNCHANGED <<payload, sent>>
        BY <2>2 DEF Deliver, slotVars, ghostVars
    <2> QED
        BY <2>3, <2>6, <2>7
<1> QED
    BY <1>2, <1>3

-----------------------------------------------------------------------------
\* What every behaviour satisfies, late take-overs or not.
ShowInv == TypeInv /\ CountInv /\ TenancyInv /\ DrainInv /\ ClaimsAreTrue

\* A freshly stamped region has no reader and no view.
LEMMA InitShows == Init => ShowInv /\ ViewsAreTrue
<1>1. Init => ReadersShow /\ ViewShowsItsMessage
    BY DEF Init, SubOut, ReadersShow, ViewShowsItsMessage
<1> QED
    BY <1>1, InitTypes, InitBooks, InitTenancy, InitDrain, InitMessages DEF ShowInv, ViewsAreTrue

\* Every step keeps it; a step without a late take-over keeps the views true as well.
LEMMA StepShows ==
    ASSUME ShowInv, [Next]_vars
    PROVE  ShowInv' /\ (ViewsAreTrue /\ NoLateTakeOver => ViewsAreTrue')
<1> USE DEF ShowInv
<1>1. TypeInv' /\ CountInv'
    BY StepTypes, StepBooks
<1>2. TenancyInv' /\ DrainInv'
    BY <1>1, StepTenancy, StepDrain
<1>3. ClaimsAreTrue'
    BY StepMessages
<1>4. ViewsAreTrue /\ NoLateTakeOver => ViewsAreTrue'
    BY StepReaders, StepViews DEF ViewsAreTrue
<1> QED
    BY <1>1, <1>2, <1>3, <1>4

\* The claim word of an entry names the slot that holds the message of the
\* claiming position, as long as it stands: TakeClaim puts a publisher's own slot
\* there under its own position, and the entry's reference keeps the slot off the
\* free stack, through steals, evictions, drains, crashes and the GC.
THEOREM ChannelClaimShowsItsMessage == Spec => []ClaimShowsItsMessage
<1>1. ShowInv => ClaimShowsItsMessage
    BY DEF ShowInv, ClaimsAreTrue
<1>2. ShowInv /\ [Next]_vars => ShowInv'
    BY StepShows
<1>3. Init => ShowInv
    BY InitShows
<1> QED
    BY <1>1, <1>2, <1>3, PTL DEF Spec

\* A sample view shows the message of its position, on every behaviour on which
\* no publisher takes over a committed entry.  The second look of
\* try_receive_view() is at the sequence word alone: it vouches for the claim
\* read before because a position is committed once, a commit stores another
\* word for every position, and the claim does not change under a commit.
THEOREM ChannelViewShowsItsMessage == Spec /\ []NoLateTakeOver => []ViewShowsItsMessage
<1>1. Init => ShowInv /\ ViewsAreTrue
    BY InitShows
<1>2. ShowInv /\ ViewsAreTrue /\ NoLateTakeOver /\ [Next]_vars => ShowInv' /\ ViewsAreTrue'
    BY StepShows
<1>3. ViewsAreTrue => ViewShowsItsMessage
    BY DEF ViewsAreTrue
<1> QED
    BY <1>1, <1>2, <1>3, PTL DEF Spec
=============================================================================
