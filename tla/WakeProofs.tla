----------------------------- MODULE WakeProofs -----------------------------
(***************************************************************************)
(* No wake is lost, for any number of publishers, threads and rings.       *)
(***************************************************************************)
EXTENDS Wake, TLAPS

\* p claimed a position of ring r that its subscriber has not consumed, and has
\* not looked at has_waiter since (or has, and is about to wake the futex).
Owes(p, r) ==
    /\ pub[p].ring = r /\ pub[p].pos >= read[r]
    /\ pub[p].pc \in {"look", "early", "lock", "heal", "commit", "wake"}

OwesFutex(p, r) ==
    /\ pub[p].ring = r /\ pub[p].pos >= read[r]
    /\ pub[p].pc \in {"look", "early", "lock", "heal", "commit", "wake", "futex"}

Pending(r) == writePos[r] > read[r]

OneRing == {"try", "none", "mode", "sleep", "parked", "clear",
            "head", "seq", "carry", "recheck", "unarm"}

\* A thread works on its own rings.
OwnRings(t) ==
    /\ thr[t].pc \in OneRing => thr[t].ring \in RingsOf[t]
    /\ thr[t].todo \subseteq RingsOf[t]

\* The futex: has_waiter was stored before the word was compared, and any claim
\* since then is that of a publisher that has yet to look.
FutexSide(t) ==
    /\ thr[t].pc \in {"mode", "sleep", "parked"} => thr[t].cur = read[thr[t].ring]
    /\ thr[t].pc \in {"sleep", "parked"} => waiter[thr[t].ring] = "futex"
    /\ thr[t].pc = "parked" /\ Pending(thr[t].ring) => \E p \in Pubs : OwesFutex(p, thr[t].ring)

\* arm_wait() on one ring: the sample is what was read, so a moved write_pos is
\* a claim past it.
ArmSide(t) ==
    /\ thr[t].pc = "arm" => ~thr[t].again
    /\ thr[t].pc = "head" /\ ~thr[t].again => thr[t].cur >= read[thr[t].ring] /\ thr[t].cur <= writePos[thr[t].ring]
    /\ thr[t].pc = "head" /\ thr[t].again => Pending(thr[t].ring)
    /\ thr[t].pc \in {"carry", "recheck", "unarm"} => thr[t].cur = read[thr[t].ring]
    /\ thr[t].pc = "recheck" => waiter[thr[t].ring] = "carrier"
    /\ thr[t].pc = "unarm" => Pending(thr[t].ring)

\* The rings the current arming pass is done with.
Passed(t) ==
    IF thr[t].pc \in {"arm", "poll"} THEN RingsOf[t] \ thr[t].todo
    ELSE IF thr[t].pc \in {"head", "seq", "carry", "recheck", "unarm"}
         THEN (RingsOf[t] \ thr[t].todo) \ {thr[t].ring}
    ELSE {}

\* Somebody still has to act on what happened in ring r for thread t.
Due(t, r) == (\E p \in Pubs : Owes(p, r) \/ pub[p].carrier) \/ t \in readable

\* A ring that arm_wait() answered Armed for.
ArmedRings(t) ==
    ~thr[t].ready /\ ~thr[t].capped =>
        \A r \in Passed(t) \cap Attached : waiter[r] = "carrier" /\ (Pending(r) => Due(t, r))

PollSide(t) ==
    thr[t].pc = "poll" => ~thr[t].ready /\ ~thr[t].capped /\ thr[t].todo = {} /\ Covered(t)

ThreadInv(t) == OwnRings(t) /\ FutexSide(t) /\ ArmSide(t) /\ ArmedRings(t) /\ PollSide(t)

Consistent == \A r \in Rings : read[r] <= writePos[r]

WakeInv == TypeOK /\ Consistent /\ \A t \in Threads : ThreadInv(t)

\* The futex word has not gone all the way round between a thread's load of it
\* and the kernel's comparison.
NoWrap ==
    \A t \in Threads : thr[t].pc = "sleep" => writePos[thr[t].ring] - thr[t].cur < FutexSpan

-----------------------------------------------------------------------------
ThrType == [pc : ThrPCs, ring : Rings, todo : SUBSET Rings, cur : Nat, again : BOOLEAN,
            ready : BOOLEAN, capped : BOOLEAN, last : BOOLEAN]

\* The initial locals of a blocking call and of publish() are well typed.
LEMMA IdleTypes ==
    /\ ThrIdle \in ThrType
    /\ \A n \in Nat : PubIdle(n) \in [pc : PubPCs, num : Nat, ring : Rings, pos : Nat, carrier : BOOLEAN]
BY WakeAssumption DEF ThrIdle, PubIdle, ThrPCs, PubPCs, Rings, ThrType

\* An empty channel satisfies the invariant.
LEMMA WakeInit == Init => WakeInv
<1> SUFFICES ASSUME Init PROVE WakeInv
    OBVIOUS
<1>1. TypeOK
    <2>1. [tag |-> "commit", val |-> 0] \in Word
        BY DEF Word
    <2> QED
        BY <2>1, IdleTypes DEF Init, TypeOK, ThrType
<1>2. Consistent
    BY DEF Init, Consistent
<1>3. ASSUME NEW t \in Threads PROVE ThreadInv(t)
    <2>1. thr[t].pc = "idle" /\ thr[t].todo = {}
        BY DEF Init, ThrIdle
    <2> QED
        BY <2>1 DEF ThreadInv, OwnRings, FutexSide, ArmSide, ArmedRings, PollSide, Passed, OneRing
<1> QED
    BY <1>1, <1>2, <1>3 DEF WakeInv

\* A step that leaves a thread and its rings alone, and no publisher's debt to
\* it unpaid, keeps what is known of the thread.
LEMMA ThreadKept ==
    ASSUME NEW t \in Threads, ThreadInv(t), thr'[t] = thr[t], t \in readable => t \in readable',
           \A r \in RingsOf[t] : waiter'[r] = waiter[r] /\ read'[r] = read[r],
           UNCHANGED writePos,
           \A r \in RingsOf[t] : \A p \in Pubs :
               /\ waiter[r] = "futex" /\ OwesFutex(p, r) => OwesFutex(p, r)'
               /\ waiter[r] = "carrier" /\ Owes(p, r) => Due(t, r)'
               /\ pub[p].carrier => pub'[p].carrier \/ t \in readable'
    PROVE  ThreadInv(t)'
<1>1. OwnRings(t)' /\ PollSide(t)'
    BY DEF ThreadInv, OwnRings, PollSide, Covered
<1>2. FutexSide(t)'
    <2>1. thr[t].pc \in {"mode", "sleep", "parked"} => thr[t].ring \in RingsOf[t]
        BY DEF ThreadInv, OwnRings, OneRing
    <2> QED
        BY <2>1 DEF ThreadInv, FutexSide, Pending
<1>3. ArmSide(t)'
    <2>1. thr[t].pc \in {"head", "carry", "recheck", "unarm"} => thr[t].ring \in RingsOf[t]
        BY DEF ThreadInv, OwnRings, OneRing
    <2> QED
        BY <2>1 DEF ThreadInv, ArmSide, Pending
<1>4. ArmedRings(t)'
    <2>1. Passed(t)' = Passed(t) /\ Passed(t) \subseteq RingsOf[t]
        BY DEF Passed
    <2>2. ASSUME NEW r \in Passed(t) \cap Attached, ~thr[t].ready, ~thr[t].capped
          PROVE  waiter'[r] = "carrier" /\ (Pending(r)' => Due(t, r)')
        <3>1. r \in RingsOf[t] /\ waiter[r] = "carrier" /\ (Pending(r) => Due(t, r))
            BY <2>1, <2>2 DEF ThreadInv, ArmedRings
        <3>2. Due(t, r) => Due(t, r)'
            BY <3>1 DEF Due
        <3> QED
            BY <3>1, <3>2 DEF Pending
    <2> QED
        BY <2>1, <2>2 DEF ArmedRings
<1> QED
    BY <1>1, <1>2, <1>3, <1>4 DEF ThreadInv

\* Storing a word in an entry keeps the type of the array.
LEMMA SeqType ==
    ASSUME TypeOK, NEW p \in Pubs, NEW w \in Word, PutSeq(p, w)
    PROVE  seq' \in [Rings -> [Index -> Word]]
<1>1. pub[p].ring \in Rings /\ pub[p].pos \in Nat
    BY DEF TypeOK
<1>2. pub[p].pos % Capacity \in Index
    BY <1>1, WakeAssumption DEF Index
<1> QED
    BY <1>1, <1>2 DEF TypeOK, PutSeq

\* A publisher's step that touches neither a counter nor a thread: only its own
\* debts can change.
LEMMA PubQuiet ==
    ASSUME WakeInv, NEW p \in Pubs, TypeOK',
           UNCHANGED <<writePos, waiter, readable, read, thr>>,
           \A q \in Pubs \ {p} : pub'[q] = pub[q],
           \A r \in Rings : /\ waiter[r] = "futex" /\ OwesFutex(p, r) => OwesFutex(p, r)'
                            /\ waiter[r] = "carrier" /\ Owes(p, r) => Owes(p, r)' \/ pub'[p].carrier,
           pub[p].carrier => pub'[p].carrier
    PROVE  WakeInv'
<1>1. Consistent'
    BY DEF WakeInv, Consistent
<1>2. ASSUME NEW t \in Threads PROVE ThreadInv(t)'
    <2>1. ThreadInv(t) /\ RingsOf[t] \subseteq Rings
        BY WakeAssumption DEF WakeInv
    <2>2. \A r \in RingsOf[t] : \A q \in Pubs :
              /\ waiter[r] = "futex" /\ OwesFutex(q, r) => OwesFutex(q, r)'
              /\ waiter[r] = "carrier" /\ Owes(q, r) => Due(t, r)'
              /\ pub[q].carrier => pub'[q].carrier \/ t \in readable'
        <3> SUFFICES ASSUME NEW r \in RingsOf[t], NEW q \in Pubs
                     PROVE  /\ waiter[r] = "futex" /\ OwesFutex(q, r) => OwesFutex(q, r)'
                            /\ waiter[r] = "carrier" /\ Owes(q, r) => Due(t, r)'
                            /\ pub[q].carrier => pub'[q].carrier \/ t \in readable'
            OBVIOUS
        <3>1. CASE q = p
            BY <3>1, <2>1 DEF Due
        <3>2. CASE q # p
            <4>1. OwesFutex(q, r)' <=> OwesFutex(q, r)
                BY <3>2 DEF OwesFutex
            <4>2. Owes(q, r)' <=> Owes(q, r)
                BY <3>2 DEF Owes
            <4> QED
                BY <3>2, <4>1, <4>2 DEF Due
        <3> QED
            BY <3>1, <3>2
    <2> QED
        BY <2>1, <2>2, ThreadKept
<1> QED
    BY <1>1, <1>2 DEF WakeInv

\* What NextRing leaves in the publisher's record.
LEMMA NextRingType ==
    ASSUME TypeOK, NEW p \in Pubs, NEW carrier \in BOOLEAN, NextRing(p, carrier)
    PROVE  /\ pub' \in [Pubs -> [pc : PubPCs, num : Nat, ring : Rings, pos : Nat, carrier : BOOLEAN]]
           /\ carrier => pub'[p].carrier
           /\ \A q \in Pubs \ {p} : pub'[q] = pub[q]
<1> DEFINE T == [pc : PubPCs, num : Nat, ring : Rings, pos : Nat, carrier : BOOLEAN]
<1>1. pub[p] \in T /\ pub[p].num + 1 \in Nat
    BY DEF TypeOK
<1>2. CASE pub[p].ring < MaxSubs
    <2>1. pub' = [pub EXCEPT ![p] = [pub[p] EXCEPT !.pc = "claim", !.ring = @ + 1, !.carrier = carrier]]
        BY <1>2 DEF NextRing
    <2>2. pub[p].ring + 1 \in Rings
        BY <1>1, <1>2, WakeAssumption DEF Rings
    <2>3. [pub[p] EXCEPT !.pc = "claim", !.ring = @ + 1, !.carrier = carrier] \in T
        BY <1>1, <2>2 DEF PubPCs
    <2> QED
        BY <2>1, <2>3 DEF TypeOK
<1>3. CASE ~(pub[p].ring < MaxSubs) /\ carrier
    <2>1. pub' = [pub EXCEPT ![p] = [pub[p] EXCEPT !.pc = "signal", !.carrier = TRUE]]
        BY <1>3 DEF NextRing
    <2>2. [pub[p] EXCEPT !.pc = "signal", !.carrier = TRUE] \in T
        BY <1>1 DEF PubPCs
    <2> QED
        BY <2>1, <2>2 DEF TypeOK
<1>4. CASE ~(pub[p].ring < MaxSubs) /\ ~carrier
    <2>1. pub' = [pub EXCEPT ![p] = PubIdle(pub[p].num + 1)]
        BY <1>4 DEF NextRing
    <2> QED
        BY <2>1, <1>1, <1>4, IdleTypes DEF TypeOK
<1> QED
    BY <1>2, <1>3, <1>4

\* Every step of a publisher keeps the invariant.
LEMMA PubPreserves ==
    ASSUME WakeInv, NEW p \in Pubs, Publish(p) \/ PubStep(p)
    PROVE  WakeInv'
<1> DEFINE T == [pc : PubPCs, num : Nat, ring : Rings, pos : Nat, carrier : BOOLEAN]
<1>0. TypeOK /\ pub \in [Pubs -> T] /\ pub[p] \in T
    BY DEF WakeInv, TypeOK
<1>a. ASSUME NEW pc \in PubPCs, pub' = [pub EXCEPT ![p].pc = pc],
             seq' \in [Rings -> [Index -> Word]],
             UNCHANGED <<writePos, waiter, readable, read, thr>>,
             pub[p].pc # "idle" => pc \in {"early", "lock", "heal", "commit", "wake"},
             pub[p].pc \in {"idle", "look", "lock", "heal", "commit"}
      PROVE  WakeInv'
    <2>1. /\ pub'[p].pc = pc /\ pub'[p].ring = pub[p].ring /\ pub'[p].pos = pub[p].pos
          /\ pub'[p].carrier = pub[p].carrier
          /\ \A q \in Pubs \ {p} : pub'[q] = pub[q]
        BY <1>a, <1>0
    <2>2. TypeOK'
        <3>1. pub' \in [Pubs -> T]
            BY <1>a, <1>0
        <3> QED
            BY <1>a, <1>0, <3>1 DEF TypeOK
    <2>3. \A r \in Rings : /\ OwesFutex(p, r) => OwesFutex(p, r)'
                           /\ Owes(p, r) => Owes(p, r)'
        BY <1>a, <2>1 DEF OwesFutex, Owes
    <2> QED
        BY <1>a, <2>1, <2>2, <2>3, PubQuiet
<1>1. CASE Publish(p)
    BY <1>1, <1>a, <1>0 DEF Publish, PubAt, PubPCs, TypeOK
<1>2. CASE ClaimPos(p)
    <2> DEFINE r == pub[p].ring
               after == IF writePos[r] >= Capacity THEN "look" ELSE "lock"
    <2>a. after \in {"look", "lock"}
        OBVIOUS
    <2>1. /\ writePos' = [writePos EXCEPT ![r] = @ + 1]
          /\ pub' = [pub EXCEPT ![p].pc = after, ![p].pos = writePos[r]]
          /\ pub[p].pc = "claim"
          /\ UNCHANGED <<seq, waiter, readable, read, thr>>
        BY <1>2 DEF ClaimPos, PubAt
    <2> HIDE DEF after
    <2>2. r \in Rings /\ writePos[r] \in Nat /\ read[r] <= writePos[r]
        BY <1>0 DEF WakeInv, TypeOK, Consistent
    <2>3. /\ pub'[p].pc \in {"look", "lock"} /\ pub'[p].ring = r /\ pub'[p].pos = writePos[r]
          /\ pub'[p].carrier = pub[p].carrier
          /\ \A q \in Pubs \ {p} : pub'[q] = pub[q]
        BY <2>a, <2>1, <1>0
    <2>4. TypeOK'
        <3>1. pub' \in [Pubs -> T]
            BY <2>a, <2>1, <2>2, <1>0 DEF PubPCs
        <3>2. writePos' \in [Rings -> Nat]
            BY <2>1, <2>2, <1>0 DEF TypeOK
        <3> QED
            BY <2>1, <1>0, <3>1, <3>2 DEF TypeOK
    <2>5. \A x \in Rings : writePos'[x] >= writePos[x] /\ (x # r => writePos'[x] = writePos[x])
                           /\ writePos[x] \in Nat /\ writePos'[x] \in Nat /\ read[x] \in Nat
        BY <2>1, <2>2, <1>0 DEF TypeOK
    <2>6. Consistent'
        BY <2>1, <2>5 DEF WakeInv, Consistent
    <2>7. Owes(p, r)' /\ OwesFutex(p, r)'
        BY <2>1, <2>2, <2>3, <2>5 DEF Owes, OwesFutex
    <2>8. \A q \in Pubs, x \in Rings :
             /\ Owes(q, x) => Owes(q, x)'
             /\ OwesFutex(q, x) => OwesFutex(q, x)'
             /\ pub[q].carrier => pub'[q].carrier
        BY <2>1, <2>3 DEF Owes, OwesFutex
    <2>9. ASSUME NEW t \in Threads PROVE ThreadInv(t)'
        <3>0. RingsOf[t] \subseteq Rings /\ ThreadInv(t)
            BY WakeAssumption DEF WakeInv
        <3>1. OwnRings(t)' /\ PollSide(t)'
            BY <2>1, <3>0 DEF ThreadInv, OwnRings, PollSide, Covered
        <3>2. FutexSide(t)'
            <4>1. thr[t].ring \in Rings
                BY <1>0 DEF TypeOK
            <4>a. (thr[t].ring)' = thr[t].ring
                BY <2>1
            <4>2. thr[t].ring = r => \E q \in Pubs : OwesFutex(q, thr[t].ring)'
                <5>1. thr[t].ring = r => OwesFutex(p, thr[t].ring)'
                    BY <2>1, <2>2, <2>3, <2>5, <4>a DEF OwesFutex
                <5> QED
                    BY <5>1
            <4>3. (\E q \in Pubs : OwesFutex(q, thr[t].ring)) => \E q \in Pubs : OwesFutex(q, thr[t].ring)'
                <5>1. \A q \in Pubs : OwesFutex(q, thr[t].ring) => OwesFutex(q, thr[t].ring)'
                    BY <4>1, <4>a, <2>1, <2>3 DEF OwesFutex
                <5> QED
                    BY <5>1
            <4>4. thr[t].ring # r => (Pending(thr[t].ring)' <=> Pending(thr[t].ring))
                BY <4>1, <2>1, <2>5 DEF Pending
            <4>5. thr[t].pc = "parked" /\ Pending(thr[t].ring)' => \E q \in Pubs : OwesFutex(q, thr[t].ring)'
                BY <3>0, <4>2, <4>3, <4>4 DEF ThreadInv, FutexSide
            <4> QED
                BY <2>1, <3>0, <4>5 DEF ThreadInv, FutexSide
        <3>3. ArmSide(t)'
            <4>1. thr[t].ring \in Rings /\ thr[t].cur \in Nat
                BY <1>0 DEF TypeOK
            <4> QED
                BY <2>1, <2>5, <3>0, <4>1 DEF ThreadInv, ArmSide, Pending
        <3>4. ArmedRings(t)'
            <4>1. Passed(t)' = Passed(t) /\ Passed(t) \subseteq RingsOf[t]
                BY <2>1 DEF Passed
            <4>2. ASSUME NEW x \in Passed(t) \cap Attached, ~thr[t].ready, ~thr[t].capped
                  PROVE  waiter'[x] = "carrier" /\ (Pending(x)' => Due(t, x)')
                <5>1. x \in Rings /\ waiter[x] = "carrier" /\ (Pending(x) => Due(t, x))
                    BY <4>1, <4>2, <3>0 DEF ThreadInv, ArmedRings
                <5>2. Due(t, x) => Due(t, x)'
                    <6>1. \A q \in Pubs : Owes(q, x) \/ pub[q].carrier => Owes(q, x)' \/ pub'[q].carrier
                        BY <5>1, <2>8
                    <6> QED
                        BY <6>1, <2>1 DEF Due
                <5>3. x = r => Due(t, x)'
                    <6>1. x = r => Owes(p, x)'
                        BY <2>1, <2>2, <2>3, <2>5 DEF Owes
                    <6> QED
                        BY <6>1 DEF Due
                <5>4. x # r => (Pending(x)' => Pending(x))
                    BY <5>1, <2>1, <2>5 DEF Pending
                <5> QED
                    BY <5>1, <5>2, <5>3, <5>4, <2>1
            <4> QED
                BY <2>1, <4>1, <4>2 DEF ArmedRings
        <3> QED
            BY <3>1, <3>2, <3>3, <3>4 DEF ThreadInv
    <2> QED
        BY <2>4, <2>6, <2>9 DEF WakeInv
<1>3. CASE LockEntry(p)
    <2>1. [tag |-> "lock", val |-> pub[p].pos] \in Word
        BY <1>0 DEF Word
    <2> QED
        BY <1>3, <2>1, <1>a, <1>0, SeqType DEF LockEntry, PubAt, PubPCs
<1>4. CASE EarlyLook(p) \/ GiveUp(p) \/ HealLeave(p)
    BY <1>4, <1>a, <1>0 DEF EarlyLook, GiveUp, HealLeave, PubAt, PubPCs, TypeOK
<1>5. CASE HealSkip(p)
    <2>1. [tag |-> "skip", val |-> pub[p].pos + 1] \in Word
        BY <1>0 DEF Word
    <2> QED
        BY <1>5, <2>1, <1>a, <1>0, SeqType DEF HealSkip, PubAt, PubPCs
<1>6. CASE Commit(p)
    <2>1. [tag |-> "commit", val |-> pub[p].pos + 1] \in Word
        BY <1>0 DEF Word
    <2>2. seq' \in [Rings -> [Index -> Word]]
        BY <1>6, <2>1, <1>0, SeqType DEF Commit, TypeOK
    <2> QED
        BY <1>6, <2>2, <1>a, <1>0 DEF Commit, PubAt, PubPCs
<1>7. CASE WakeRing(p)
    <2> DEFINE r == pub[p].ring
    <2>0. pub[p].pc = "wake" /\ r \in Rings /\ UNCHANGED <<writePos, seq, waiter, readable, read, thr>>
        BY <1>7, <1>0 DEF WakeRing, PubAt
    <2>1. CASE waiter[r] = "futex"
        <3>1. pub' = [pub EXCEPT ![p].pc = "futex"]
            BY <1>7, <2>1 DEF WakeRing
        <3>2. /\ pub'[p].pc = "futex" /\ pub'[p].ring = r /\ pub'[p].pos = pub[p].pos
              /\ pub'[p].carrier = pub[p].carrier
              /\ \A q \in Pubs \ {p} : pub'[q] = pub[q]
            BY <3>1, <1>0
        <3>3. TypeOK'
            <4>1. pub' \in [Pubs -> T]
                BY <3>1, <1>0 DEF PubPCs
            <4> QED
                BY <2>0, <1>0, <4>1 DEF TypeOK
        <3>4. \A x \in Rings : /\ OwesFutex(p, x) => OwesFutex(p, x)'
                               /\ waiter[x] = "carrier" => ~Owes(p, x)
            BY <2>0, <2>1, <3>2 DEF OwesFutex, Owes
        <3> QED
            BY <2>0, <3>2, <3>3, <3>4, PubQuiet
    <2>2. CASE waiter[r] # "futex"
        <3> DEFINE c == pub[p].carrier \/ waiter[r] = "carrier"
        <3>1. NextRing(p, c) /\ c \in BOOLEAN
            BY <1>7, <2>2 DEF WakeRing
        <3>2. /\ pub' \in [Pubs -> T]
              /\ c => pub'[p].carrier
              /\ \A q \in Pubs \ {p} : pub'[q] = pub[q]
            BY <3>1, <1>0, NextRingType
        <3>3. TypeOK'
            BY <2>0, <1>0, <3>2 DEF TypeOK
        <3>4. \A x \in Rings : /\ waiter[x] = "futex" => ~OwesFutex(p, x)
                               /\ waiter[x] = "carrier" /\ Owes(p, x) => pub'[p].carrier
            BY <2>2, <3>2 DEF OwesFutex, Owes
        <3> QED
            BY <2>0, <3>2, <3>3, <3>4, PubQuiet
    <2> QED
        BY <2>1, <2>2
<1>8. CASE FutexWake(p)
    <2> DEFINE r == pub[p].ring
    <2>0. /\ pub[p].pc = "futex" /\ r \in Rings /\ UNCHANGED <<writePos, seq, waiter, readable, read>>
          /\ NextRing(p, pub[p].carrier)
          /\ thr' = [t \in Threads |-> IF thr[t].pc = "parked" /\ thr[t].ring = r
                                       THEN [thr[t] EXCEPT !.pc = "clear"] ELSE thr[t]]
        BY <1>8, <1>0 DEF FutexWake, PubAt
    <2>1. /\ pub' \in [Pubs -> T]
          /\ pub[p].carrier => pub'[p].carrier
          /\ \A q \in Pubs \ {p} : pub'[q] = pub[q]
        BY <2>0, <1>0, NextRingType
    <2>2. TypeOK'
        <3>1. ASSUME NEW t \in Threads PROVE [thr[t] EXCEPT !.pc = "clear"] \in ThrType /\ thr[t] \in ThrType
            <4>1. thr[t] \in ThrType
                BY <1>0 DEF TypeOK, ThrType
            <4> QED
                BY <4>1 DEF ThrType, ThrPCs
        <3>2. thr' \in [Threads -> ThrType]
            BY <2>0, <3>1
        <3> QED
            BY <2>0, <2>1, <1>0, <3>2 DEF TypeOK, ThrType
    <2>3. Consistent'
        BY <2>0 DEF WakeInv, Consistent
    <2>4. ASSUME NEW t \in Threads PROVE ThreadInv(t)'
        <3>0. RingsOf[t] \subseteq Rings /\ ThreadInv(t)
            BY WakeAssumption DEF WakeInv
        <3>1. CASE thr[t].pc = "parked" /\ thr[t].ring = r
            <4>1. /\ thr'[t].pc = "clear" /\ thr'[t].ring = thr[t].ring /\ thr'[t].todo = thr[t].todo
                BY <3>1, <2>0, <1>0 DEF TypeOK
            <4> QED
                BY <3>0, <3>1, <4>1 DEF ThreadInv, OwnRings, FutexSide, ArmSide, ArmedRings, Passed, PollSide, OneRing
        <3>2. CASE ~(thr[t].pc = "parked" /\ thr[t].ring = r)
            <4>1. thr'[t] = thr[t]
                BY <3>2, <2>0
            <4>2. ~Owes(p, r) /\ \A x \in Rings : OwesFutex(p, x) => x = r
                BY <2>0 DEF Owes, OwesFutex
            <4>3. \A q \in Pubs, x \in Rings :
                     /\ Owes(q, x) => Owes(q, x)'
                     /\ OwesFutex(q, x) => OwesFutex(q, x)' \/ x = r
                     /\ pub[q].carrier => pub'[q].carrier
                BY <2>0, <2>1, <4>2 DEF Owes, OwesFutex
            <4>4. OwnRings(t)' /\ PollSide(t)'
                BY <4>1, <3>0 DEF ThreadInv, OwnRings, PollSide, Covered
            <4>5. FutexSide(t)'
                <5>1. thr[t].ring \in Rings
                    BY <1>0 DEF TypeOK
                <5>2. thr[t].pc = "parked" /\ Pending(thr[t].ring)' => \E q \in Pubs : OwesFutex(q, thr[t].ring)'
                    <6>1. thr[t].pc = "parked" /\ Pending(thr[t].ring) => \E q \in Pubs : OwesFutex(q, thr[t].ring)
                        BY <3>0 DEF ThreadInv, FutexSide
                    <6> QED
                        BY <6>1, <5>1, <3>2, <2>0, <4>3 DEF Pending
                <5> QED
                    BY <2>0, <4>1, <3>0, <5>2 DEF ThreadInv, FutexSide
            <4>6. ArmSide(t)'
                BY <2>0, <4>1, <3>0 DEF ThreadInv, ArmSide, Pending
            <4>7. ArmedRings(t)'
                <5>1. Passed(t)' = Passed(t) /\ Passed(t) \subseteq RingsOf[t]
                    BY <4>1 DEF Passed
                <5>2. \A x \in Rings : Due(t, x) => Due(t, x)'
                    <6>1. \A x \in Rings : \A q \in Pubs : Owes(q, x) \/ pub[q].carrier => Owes(q, x)' \/ pub'[q].carrier
                        BY <4>3
                    <6> QED
                        BY <6>1, <2>0 DEF Due
                <5> QED
                    BY <5>1, <5>2, <3>0, <2>0, <4>1 DEF ThreadInv, ArmedRings, Pending
            <4> QED
                BY <4>4, <4>5, <4>6, <4>7 DEF ThreadInv
        <3> QED
            BY <3>1, <3>2
    <2> QED
        BY <2>2, <2>3, <2>4 DEF WakeInv
<1>9. CASE Signal(p)
    <2>0. /\ pub[p].pc = "signal" /\ readable' = Threads
          /\ pub' = [pub EXCEPT ![p] = PubIdle(pub[p].num + 1)]
          /\ UNCHANGED <<writePos, seq, waiter, read, thr>>
        BY <1>9 DEF Signal, PubAt
    <2>1. TypeOK'
        <3>1. pub' \in [Pubs -> T]
            BY <2>0, <1>0, IdleTypes
        <3> QED
            BY <2>0, <3>1, <1>0 DEF TypeOK
    <2>2. Consistent'
        BY <2>0 DEF WakeInv, Consistent
    <2>3. ASSUME NEW t \in Threads PROVE ThreadInv(t)'
        <3>1. ThreadInv(t) /\ thr'[t] = thr[t] /\ t \in readable'
            BY <2>0 DEF WakeInv
        <3>2. \A x \in RingsOf[t], q \in Pubs :
                  /\ OwesFutex(q, x) => OwesFutex(q, x)'
                  /\ Due(t, x)'
            BY <2>0, <3>1, <1>0 DEF OwesFutex, Due
        <3> QED
            BY <2>0, <3>1, <3>2, ThreadKept
    <2> QED
        BY <2>1, <2>2, <2>3 DEF WakeInv
<1>10. CASE EarlySignal(p)
    <2>0. /\ pub[p].pc = "early" /\ readable' = Threads
          /\ pub' = [pub EXCEPT ![p].pc = "lock", ![p].carrier = FALSE]
          /\ UNCHANGED <<writePos, seq, waiter, read, thr>>
        BY <1>10 DEF EarlySignal, PubAt
    <2>1. TypeOK'
        <3>1. pub' \in [Pubs -> T]
            BY <2>0, <1>0 DEF PubPCs
        <3> QED
            BY <2>0, <3>1, <1>0 DEF TypeOK
    <2>2. Consistent'
        BY <2>0 DEF WakeInv, Consistent
    <2>3. ASSUME NEW t \in Threads PROVE ThreadInv(t)'
        <3>1. ThreadInv(t) /\ thr'[t] = thr[t] /\ t \in readable'
            BY <2>0 DEF WakeInv
        <3>2. \A x \in RingsOf[t], q \in Pubs :
                  /\ OwesFutex(q, x) => OwesFutex(q, x)'
                  /\ Due(t, x)'
            BY <2>0, <3>1, <1>0 DEF OwesFutex, Due
        <3> QED
            BY <2>0, <3>1, <3>2, ThreadKept
    <2> QED
        BY <2>1, <2>2, <2>3 DEF WakeInv
<1> QED
    BY <1>1, <1>2, <1>3, <1>4, <1>5, <1>6, <1>7, <1>8, <1>9, <1>10 DEF PubStep

-----------------------------------------------------------------------------
\* A thread's step leaves the other threads' rings alone, so what is left to
\* show is about the thread itself.
LEMMA OnlyThread ==
    ASSUME WakeInv, NEW t \in Threads, TypeOK', Consistent', ThreadInv(t)',
           UNCHANGED <<writePos, pub>>,
           \A u \in Threads \ {t} : thr'[u] = thr[u] /\ (u \in readable => u \in readable'),
           \A r \in Rings \ RingsOf[t] : waiter'[r] = waiter[r] /\ read'[r] = read[r]
    PROVE  WakeInv'
<1>1. ASSUME NEW u \in Threads \ {t} PROVE ThreadInv(u)'
    <2>1. ThreadInv(u) /\ \A r \in RingsOf[u] : waiter'[r] = waiter[r] /\ read'[r] = read[r]
        BY WakeAssumption DEF WakeInv
    <2>2. \A r \in RingsOf[u] : \A p \in Pubs :
              /\ waiter[r] = "futex" /\ OwesFutex(p, r) => OwesFutex(p, r)'
              /\ waiter[r] = "carrier" /\ Owes(p, r) => Due(u, r)'
              /\ pub[p].carrier => pub'[p].carrier \/ u \in readable'
        <3> SUFFICES ASSUME NEW r \in RingsOf[u], NEW p \in Pubs
                     PROVE  /\ waiter[r] = "futex" /\ OwesFutex(p, r) => OwesFutex(p, r)'
                            /\ waiter[r] = "carrier" /\ Owes(p, r) => Due(u, r)'
                            /\ pub[p].carrier => pub'[p].carrier \/ u \in readable'
            OBVIOUS
        <3>1. OwesFutex(p, r) => OwesFutex(p, r)'
            BY <2>1 DEF OwesFutex
        <3>2. Owes(p, r) => Owes(p, r)'
            BY <2>1 DEF Owes
        <3> QED
            BY <3>1, <3>2 DEF Due
    <2> QED
        BY <2>1, <2>2, ThreadKept
<1> QED
    BY <1>1 DEF WakeInv

\* Where nothing is known of a thread but which rings are its own.
Quiet == {"idle", "try", "none", "clear", "nap", "disarm"}

\* In these places the invariant asks for nothing but the thread's own rings.
LEMMA QuietThread ==
    ASSUME NEW t \in Threads, thr'[t].pc \in Quiet, thr'[t].todo \subseteq RingsOf[t],
           thr'[t].pc \in {"try", "none", "clear"} => thr'[t].ring \in RingsOf[t]
    PROVE  ThreadInv(t)'
BY DEF Quiet, ThreadInv, OwnRings, FutexSide, ArmSide, ArmedRings, Passed, PollSide, OneRing

\* The start of an arming pass: no ring is armed yet.
LEMMA FreshPass ==
    ASSUME NEW t \in Threads, thr'[t].pc = "arm", thr'[t].todo = RingsOf[t], ~thr'[t].again
    PROVE  ThreadInv(t)'
BY DEF ThreadInv, OwnRings, FutexSide, ArmSide, ArmedRings, Passed, PollSide, OneRing

\* The locals of the thread after a step that only sets its pc.
LEMMA GoFields ==
    ASSUME TypeOK, NEW t \in Threads, NEW pc \in ThrPCs, Go(t, pc)
    PROVE  /\ thr' \in [Threads -> ThrType]
           /\ thr'[t].pc = pc /\ thr'[t].ring = thr[t].ring /\ thr'[t].todo = thr[t].todo
           /\ thr'[t].cur = thr[t].cur /\ thr'[t].again = thr[t].again
           /\ thr'[t].ready = thr[t].ready /\ thr'[t].capped = thr[t].capped
           /\ \A u \in Threads \ {t} : thr'[u] = thr[u]
<1>1. thr \in [Threads -> ThrType] /\ thr[t] \in ThrType
    BY DEF TypeOK, ThrType
<1>2. [thr[t] EXCEPT !.pc = pc] \in ThrType
    BY <1>1 DEF ThrType
<1>3. thr' = [thr EXCEPT ![t] = [thr[t] EXCEPT !.pc = pc]]
    BY <1>1 DEF Go
<1> QED
    BY <1>1, <1>2, <1>3 DEF ThrType

\* The same for a step that gives the thread new locals.
LEMMA SetFields ==
    ASSUME TypeOK, NEW t \in Threads, NEW x \in ThrType, thr' = [thr EXCEPT ![t] = x]
    PROVE  /\ thr' \in [Threads -> ThrType] /\ thr'[t] = x
           /\ \A u \in Threads \ {t} : thr'[u] = thr[u]
BY DEF TypeOK, ThrType

\* A step that leaves shared memory alone.
LEMMA LocalStep ==
    ASSUME WakeInv, NEW t \in Threads, thr' \in [Threads -> ThrType], ThreadInv(t)',
           UNCHANGED <<writePos, seq, waiter, readable, read, pub>>,
           \A u \in Threads \ {t} : thr'[u] = thr[u]
    PROVE  WakeInv'
<1>1. TypeOK'
    BY DEF WakeInv, TypeOK, ThrType
<1>2. Consistent'
    BY DEF WakeInv, Consistent
<1> QED
    BY <1>1, <1>2, OnlyThread

\* receive() and receive_view().
LEMMA ReceiveSteps ==
    ASSUME WakeInv, NoWrap, NEW t \in Threads,
           \/ \E r \in Rings : Receive(t, r)
           \/ TryReceive(t) \/ ReceiveTimeout(t) \/ LoadCur(t) \/ StoreFutex(t)
           \/ FutexWait(t) \/ FutexTimeout(t) \/ ClearFutex(t)
    PROVE  WakeInv'
<1>0. /\ TypeOK /\ Consistent /\ ThreadInv(t) /\ OwnRings(t) /\ FutexSide(t)
      /\ thr[t] \in ThrType /\ thr \in [Threads -> ThrType] /\ RingsOf[t] \subseteq Rings
    BY WakeAssumption DEF WakeInv, ThreadInv, TypeOK, ThrType
<1>a. ThrIdle \in ThrType /\ ThrIdle.pc = "idle" /\ ThrIdle.todo = {}
    BY IdleTypes DEF ThrIdle
<1>r. /\ thr[t].ring \in Rings /\ thr[t].cur \in Nat /\ thr[t].todo \subseteq RingsOf[t]
      /\ writePos[thr[t].ring] \in Nat /\ read[thr[t].ring] \in Nat
      /\ read[thr[t].ring] <= writePos[thr[t].ring]
      /\ thr[t].pc \in OneRing => thr[t].ring \in RingsOf[t]
    BY <1>0 DEF ThrType, TypeOK, Consistent, OwnRings
<1>1. ASSUME NEW r \in Rings, Receive(t, r) PROVE WakeInv'
    <2> DEFINE x == [ThrIdle EXCEPT !.pc = "try", !.ring = r]
    <2>1. x \in ThrType /\ x.pc = "try" /\ x.ring = r /\ x.todo = {}
        BY <1>a DEF ThrType, ThrPCs, ThrIdle
    <2>2. thr' = [thr EXCEPT ![t] = x] /\ r \in RingsOf[t]
        BY <1>1 DEF Receive
    <2> HIDE DEF x
    <2>3. thr' \in [Threads -> ThrType] /\ thr'[t] = x /\ \A u \in Threads \ {t} : thr'[u] = thr[u]
        BY <2>1, <2>2, <1>0, SetFields
    <2>4. ThreadInv(t)'
        BY <2>1, <2>2, <2>3, QuietThread DEF Quiet
    <2> QED
        BY <1>1, <2>3, <2>4, LocalStep DEF Receive
<1>2. CASE ReceiveTimeout(t)
    <2>1. thr' \in [Threads -> ThrType] /\ thr'[t] = ThrIdle /\ \A u \in Threads \ {t} : thr'[u] = thr[u]
        BY <1>2, <1>a, <1>0, SetFields DEF ReceiveTimeout
    <2>2. ThreadInv(t)'
        BY <2>1, <1>a, QuietThread DEF Quiet
    <2> QED
        BY <1>2, <2>1, <2>2, LocalStep DEF ReceiveTimeout
<1>3. CASE LoadCur(t)
    <2> DEFINE wp == writePos[thr[t].ring]
    <2>0. thr[t].pc = "none" /\ UNCHANGED <<writePos, seq, waiter, readable, read, pub>>
        BY <1>3 DEF LoadCur, ThrAt
    <2>1. CASE wp <= read[thr[t].ring]
        <3> DEFINE x == [thr[t] EXCEPT !.pc = "mode", !.cur = wp]
        <3>1. /\ x \in ThrType /\ x.pc = "mode" /\ x.cur = wp /\ x.ring = thr[t].ring
              /\ x.todo = thr[t].todo
            BY <1>0, <1>r DEF ThrType, ThrPCs
        <3>2. thr' = [thr EXCEPT ![t] = x]
            BY <1>3, <1>0, <2>1 DEF LoadCur
        <3>3. x.cur = read[thr[t].ring]
            BY <3>1, <2>1, <1>r
        <3> HIDE DEF x
        <3>4. thr' \in [Threads -> ThrType] /\ thr'[t] = x /\ \A u \in Threads \ {t} : thr'[u] = thr[u]
            BY <3>1, <3>2, <1>0, SetFields
        <3>5. ThreadInv(t)'
            BY <2>0, <3>1, <3>3, <3>4, <1>r
               DEF ThreadInv, OwnRings, FutexSide, ArmSide, ArmedRings, Passed, PollSide, OneRing
        <3> QED
            BY <2>0, <3>4, <3>5, LocalStep
    <2>2. CASE ~(wp <= read[thr[t].ring])
        <3>1. Go(t, "try")
            BY <1>3, <2>2 DEF LoadCur
        <3>2. ThreadInv(t)'
            BY <3>1, <2>0, <1>0, <1>r, GoFields, QuietThread DEF Quiet, OneRing, ThrPCs
        <3> QED
            BY <3>1, <3>2, <2>0, <1>0, GoFields, LocalStep DEF ThrPCs
    <2> QED
        BY <2>1, <2>2
<1>4. CASE FutexWait(t)
    <2>0. thr[t].pc = "sleep" /\ UNCHANGED <<writePos, seq, waiter, readable, read, pub>>
        BY <1>4 DEF FutexWait, ThrAt
    <2>1. CASE SameWord(writePos[thr[t].ring], thr[t].cur)
        <3>1. Go(t, "parked")
            BY <1>4, <2>1 DEF FutexWait
        <3>2. writePos[thr[t].ring] = read[thr[t].ring]
            <4>1. thr[t].cur = read[thr[t].ring] /\ writePos[thr[t].ring] - thr[t].cur < FutexSpan
                BY <2>0, <1>0 DEF FutexSide, NoWrap
            <4>2. \A k \in Nat : k < FutexSpan /\ k % FutexSpan = 0 => k = 0
                BY SpanAssumption
            <4>3. writePos[thr[t].ring] - thr[t].cur \in Nat
                BY <4>1, <1>r
            <4> QED
                BY <4>1, <4>2, <4>3, <2>1, <1>r DEF SameWord
        <3>3. thr' \in [Threads -> ThrType]
              /\ thr'[t].pc = "parked" /\ thr'[t].ring = thr[t].ring /\ thr'[t].todo = thr[t].todo
              /\ thr'[t].cur = thr[t].cur
              /\ \A u \in Threads \ {t} : thr'[u] = thr[u]
            BY <3>1, <1>0, GoFields DEF ThrPCs
        <3>4. OwnRings(t)' /\ ArmSide(t)' /\ ArmedRings(t)' /\ PollSide(t)'
            BY <2>0, <3>3, <1>r DEF OwnRings, ArmSide, ArmedRings, Passed, PollSide, OneRing
        <3>5. FutexSide(t)'
            BY <2>0, <3>2, <3>3, <1>0, <1>r DEF FutexSide, Pending
        <3> QED
            BY <2>0, <3>3, <3>4, <3>5, LocalStep DEF ThreadInv
    <2>2. CASE ~SameWord(writePos[thr[t].ring], thr[t].cur)
        <3>1. Go(t, "clear")
            BY <1>4, <2>2 DEF FutexWait
        <3>2. ThreadInv(t)'
            BY <3>1, <2>0, <1>0, <1>r, GoFields, QuietThread DEF Quiet, OneRing, ThrPCs
        <3> QED
            BY <3>1, <3>2, <2>0, <1>0, GoFields, LocalStep DEF ThrPCs
    <2> QED
        BY <2>1, <2>2
<1>5. CASE FutexTimeout(t)
    <2>1. thr[t].pc = "parked" /\ Go(t, "clear") /\ UNCHANGED <<writePos, seq, waiter, readable, read, pub>>
        BY <1>5 DEF FutexTimeout, ThrAt
    <2>2. ThreadInv(t)'
        BY <2>1, <1>0, <1>r, GoFields, QuietThread DEF Quiet, OneRing, ThrPCs
    <2> QED
        BY <2>1, <2>2, <1>0, GoFields, LocalStep DEF ThrPCs
<1>6. CASE StoreFutex(t)
    <2>0. /\ thr[t].pc = "mode" /\ Go(t, "sleep") /\ UNCHANGED <<writePos, seq, readable, read, pub>>
          /\ waiter' = [waiter EXCEPT ![thr[t].ring] = "futex"]
        BY <1>6 DEF StoreFutex, ThrAt, SetWaiter
    <2>1. thr' \in [Threads -> ThrType]
          /\ thr'[t].pc = "sleep" /\ thr'[t].ring = thr[t].ring /\ thr'[t].todo = thr[t].todo
          /\ thr'[t].cur = thr[t].cur
          /\ \A u \in Threads \ {t} : thr'[u] = thr[u]
        BY <2>0, <1>0, GoFields DEF ThrPCs
    <2>2. /\ waiter' \in [Rings -> {"none", "futex", "carrier"}]
          /\ waiter'[thr[t].ring] = "futex"
          /\ \A r \in Rings \ RingsOf[t] : waiter'[r] = waiter[r]
        BY <2>0, <1>0, <1>r DEF TypeOK, OneRing
    <2>3. TypeOK' /\ Consistent'
        BY <2>0, <2>1, <2>2, <1>0 DEF TypeOK, Consistent, ThrType
    <2>4. OwnRings(t)' /\ ArmSide(t)' /\ ArmedRings(t)' /\ PollSide(t)'
        BY <2>0, <2>1, <1>r DEF OwnRings, ArmSide, ArmedRings, Passed, PollSide, OneRing
    <2>5. FutexSide(t)'
        BY <2>0, <2>1, <2>2, <1>0 DEF FutexSide
    <2> QED
        BY <2>0, <2>1, <2>2, <2>3, <2>4, <2>5, OnlyThread DEF ThreadInv
<1>7. CASE ClearFutex(t)
    <2> DEFINE x == [thr[t] EXCEPT !.pc = "try", !.cur = 0]
    <2>0. /\ thr[t].pc = "clear" /\ UNCHANGED <<writePos, seq, readable, read, pub>>
          /\ waiter' = [waiter EXCEPT ![thr[t].ring] = "none"]
          /\ thr' = [thr EXCEPT ![t] = x]
        BY <1>7, <1>0 DEF ClearFutex, ThrAt, SetWaiter
    <2>1. x \in ThrType /\ x.pc = "try" /\ x.ring = thr[t].ring /\ x.todo = thr[t].todo
        BY <1>0 DEF ThrType, ThrPCs
    <2> HIDE DEF x
    <2>2. thr' \in [Threads -> ThrType] /\ thr'[t] = x /\ \A u \in Threads \ {t} : thr'[u] = thr[u]
        BY <2>0, <2>1, <1>0, SetFields
    <2>3. /\ waiter' \in [Rings -> {"none", "futex", "carrier"}]
          /\ \A r \in Rings \ RingsOf[t] : waiter'[r] = waiter[r]
        BY <2>0, <1>0, <1>r DEF TypeOK, OneRing
    <2>4. TypeOK' /\ Consistent'
        BY <2>0, <2>2, <2>3, <1>0 DEF TypeOK, Consistent, ThrType
    <2>5. ThreadInv(t)'
        BY <2>0, <2>1, <2>2, <1>r, QuietThread DEF Quiet, OneRing
    <2> QED
        BY <2>0, <2>2, <2>3, <2>4, <2>5, OnlyThread
<1>8. CASE TryReceive(t)
    <2> DEFINE r == thr[t].ring
               pos == Resync(r)
    <2>0. /\ thr[t].pc = "try" /\ UNCHANGED <<writePos, seq, waiter, readable, pub>>
          /\ r \in RingsOf[t] /\ r \in Rings
        BY <1>8, <1>r DEF TryReceive, ThrAt, OneRing
    <2>1. writePos[r] > read[r] => pos \in Nat /\ pos + 1 \in Nat /\ pos <= writePos[r] /\ pos + 1 <= writePos[r]
        BY <1>r, WakeAssumption DEF Resync
    <2>2. \/ UNCHANGED read
          \/ \E k \in Nat : k <= writePos[r] /\ read' = [read EXCEPT ![r] = k]
        <3>1. \/ UNCHANGED read
              \/ writePos[r] > read[r] /\ read' = [read EXCEPT ![r] = pos]
              \/ writePos[r] > read[r] /\ read' = [read EXCEPT ![r] = pos + 1]
            BY <1>8 DEF TryReceive
        <3> HIDE DEF pos, r
        <3> QED
            BY <3>1, <2>1
    <2>3. \/ Go(t, "none") \/ UNCHANGED thr \/ thr' = [thr EXCEPT ![t] = ThrIdle]
        BY <1>8 DEF TryReceive
    <2>4. /\ read' \in [Rings -> Nat] /\ \A s \in Rings : s # r => read'[s] = read[s]
          /\ read'[r] <= writePos[r]
        BY <2>0, <2>2, <1>0, <1>r DEF TypeOK
    <2>5. /\ thr' \in [Threads -> ThrType] /\ thr'[t].pc \in {"try", "none", "idle"}
          /\ thr'[t].todo \subseteq RingsOf[t]
          /\ thr'[t].pc # "idle" => thr'[t].ring = r
          /\ \A u \in Threads \ {t} : thr'[u] = thr[u]
        <3>1. CASE Go(t, "none")
            BY <3>1, <1>0, <1>r, GoFields DEF ThrPCs
        <3>2. CASE UNCHANGED thr
            BY <3>2, <2>0, <1>0, <1>r
        <3>3. CASE thr' = [thr EXCEPT ![t] = ThrIdle]
            BY <3>3, <1>0, <1>a, SetFields
        <3> QED
            BY <2>3, <3>1, <3>2, <3>3
    <2>6. TypeOK'
        BY <2>0, <2>4, <2>5, <1>0 DEF TypeOK, ThrType
    <2>7. Consistent'
        BY <2>0, <2>4, <1>0 DEF Consistent
    <2>8. ThreadInv(t)'
        BY <2>0, <2>5, QuietThread DEF Quiet
    <2> QED
        BY <2>0, <2>4, <2>5, <2>6, <2>7, <2>8, OnlyThread
<1> QED
    BY <1>1, <1>2, <1>3, <1>4, <1>5, <1>6, <1>7, <1>8

\* What arm_wait() leaves when it is done with a ring.
LEMMA AnswerFields ==
    ASSUME TypeOK, NEW t \in Threads, NEW ready \in BOOLEAN, NEW capped \in BOOLEAN, Answer(t, ready, capped)
    PROVE  /\ thr' \in [Threads -> ThrType]
           /\ thr'[t].pc = "arm" /\ thr'[t].todo = thr[t].todo /\ ~thr'[t].again
           /\ thr'[t].ready = (thr[t].ready \/ ready) /\ thr'[t].capped = (thr[t].capped \/ capped)
           /\ \A u \in Threads \ {t} : thr'[u] = thr[u]
<1> DEFINE x == [ThrIdle EXCEPT !.pc = "arm", !.todo = thr[t].todo, !.ready = thr[t].ready \/ ready,
                                !.capped = thr[t].capped \/ capped]
<1>1. thr[t] \in ThrType
    BY DEF TypeOK, ThrType
<1>2. /\ x \in ThrType /\ x.pc = "arm" /\ x.todo = thr[t].todo /\ ~x.again
      /\ x.ready = (thr[t].ready \/ ready) /\ x.capped = (thr[t].capped \/ capped)
    BY <1>1, IdleTypes, ZenonT(40) DEF ThrType, ThrPCs, ThrIdle
<1>3. thr' = [thr EXCEPT ![t] = x]
    BY DEF Answer
<1> HIDE DEF x
<1> QED
    BY <1>2, <1>3, SetFields

\* The ring the thread was at joins the ones the pass is done with.
LEMMA AnswerKeeps ==
    ASSUME WakeInv, NEW t \in Threads, NEW ready \in BOOLEAN, NEW capped \in BOOLEAN, Answer(t, ready, capped),
           thr[t].pc \in {"head", "seq", "recheck"},
           UNCHANGED <<writePos, seq, waiter, readable, read, pub>>,
           ready \/ capped \/ (thr[t].ring \in Attached =>
                waiter[thr[t].ring] = "carrier" /\ ~Pending(thr[t].ring))
    PROVE  WakeInv'
<1>0. TypeOK /\ OwnRings(t) /\ ArmedRings(t) /\ thr[t] \in ThrType
    BY DEF WakeInv, ThreadInv, TypeOK, ThrType
<1>1. /\ thr' \in [Threads -> ThrType]
      /\ thr'[t].pc = "arm" /\ thr'[t].todo = thr[t].todo /\ ~thr'[t].again
      /\ thr'[t].ready = (thr[t].ready \/ ready) /\ thr'[t].capped = (thr[t].capped \/ capped)
      /\ \A u \in Threads \ {t} : thr'[u] = thr[u]
    BY <1>0, AnswerFields
<1>2. OwnRings(t)' /\ FutexSide(t)' /\ ArmSide(t)' /\ PollSide(t)'
    BY <1>0, <1>1 DEF OwnRings, FutexSide, ArmSide, PollSide, OneRing
<1>3. ArmedRings(t)'
    <2>1. Passed(t)' \subseteq Passed(t) \cup {thr[t].ring}
        BY <1>1 DEF Passed
    <2>2. ASSUME NEW r \in Passed(t)' \cap Attached, ~thr'[t].ready, ~thr'[t].capped
          PROVE  waiter'[r] = "carrier" /\ (Pending(r)' => Due(t, r)')
        <3>0. ~thr[t].ready /\ ~thr[t].capped /\ ~ready /\ ~capped
            BY <2>2, <1>0, <1>1 DEF ThrType
        <3>1. CASE r \in Passed(t)
            <4>1. waiter[r] = "carrier" /\ (Pending(r) => Due(t, r))
                BY <3>0, <3>1, <2>2, <1>0 DEF ArmedRings
            <4>2. Due(t, r) => Due(t, r)'
                BY DEF Due, Owes
            <4> QED
                BY <4>1, <4>2 DEF Pending
        <3>2. CASE r = thr[t].ring
            BY <3>0, <3>2, <2>2 DEF Pending
        <3> QED
            BY <2>1, <2>2, <3>1, <3>2
    <2> QED
        BY <2>2 DEF ArmedRings
<1> QED
    BY <1>1, <1>2, <1>3, LocalStep DEF ThreadInv

\* The rings passed so far stay armed while the thread moves on to the next one
\* or inside arm_wait().
LEMMA PassKept ==
    ASSUME NEW t \in Threads, ArmedRings(t), Passed(t)' \subseteq Passed(t),
           ~thr'[t].ready /\ ~thr'[t].capped => ~thr[t].ready /\ ~thr[t].capped,
           \A r \in Passed(t) : waiter'[r] = waiter[r],
           UNCHANGED <<writePos, readable, read, pub>>
    PROVE  ArmedRings(t)'
<1>1. ASSUME NEW r \in Passed(t)' \cap Attached, ~thr'[t].ready, ~thr'[t].capped
      PROVE  waiter'[r] = "carrier" /\ (Pending(r)' => Due(t, r)')
    <2>1. r \in Passed(t) /\ waiter[r] = "carrier" /\ (Pending(r) => Due(t, r))
        BY <1>1 DEF ArmedRings
    <2>2. Due(t, r) => Due(t, r)'
        BY DEF Due, Owes
    <2> QED
        BY <2>1, <2>2 DEF Pending
<1> QED
    BY <1>1 DEF ArmedRings

\* arm_wait() on one ring after another.
LEMMA ArmSteps ==
    ASSUME WakeInv, NEW t \in Threads,
           \/ \E r \in Rings : ArmCur(t, r)
           \/ HeadPos(t) \/ HeadEntry(t) \/ StoreCarrier(t) \/ Recheck(t) \/ Unarm(t)
    PROVE  WakeInv'
<1>0. /\ TypeOK /\ Consistent /\ OwnRings(t) /\ FutexSide(t) /\ ArmSide(t) /\ ArmedRings(t)
      /\ thr[t] \in ThrType /\ thr \in [Threads -> ThrType] /\ RingsOf[t] \subseteq Rings
    BY WakeAssumption DEF WakeInv, ThreadInv, TypeOK, ThrType
<1>r. /\ thr[t].ring \in Rings /\ thr[t].cur \in Nat /\ thr[t].todo \subseteq RingsOf[t]
      /\ writePos[thr[t].ring] \in Nat /\ read[thr[t].ring] \in Nat
      /\ read[thr[t].ring] <= writePos[thr[t].ring]
      /\ thr[t].pc \in OneRing => thr[t].ring \in RingsOf[t]
    BY <1>0 DEF ThrType, TypeOK, Consistent, OwnRings
<1>1. ASSUME NEW r \in Rings, ArmCur(t, r) PROVE WakeInv'
    <2> DEFINE x == [thr[t] EXCEPT !.pc = "head", !.ring = r, !.todo = @ \ {r}, !.cur = writePos[r]]
    <2>0. /\ thr[t].pc = "arm" /\ r \in thr[t].todo /\ r \in RingsOf[t]
          /\ UNCHANGED <<writePos, seq, waiter, readable, read, pub>>
          /\ writePos[r] \in Nat /\ read[r] \in Nat /\ read[r] <= writePos[r]
        BY <1>1, <1>0, <1>r DEF ArmCur, ThrAt, TypeOK, Consistent
    <2>1. /\ x \in ThrType /\ x.pc = "head" /\ x.ring = r /\ x.todo = thr[t].todo \ {r} /\ x.cur = writePos[r]
          /\ x.again = thr[t].again /\ x.ready = thr[t].ready /\ x.capped = thr[t].capped
        BY <1>0, <2>0 DEF ThrType, ThrPCs
    <2>2. thr' = [thr EXCEPT ![t] = x]
        BY <1>1, <1>0 DEF ArmCur
    <2> HIDE DEF x
    <2>3. thr' \in [Threads -> ThrType] /\ thr'[t] = x /\ \A u \in Threads \ {t} : thr'[u] = thr[u]
        BY <2>1, <2>2, <1>0, SetFields
    <2>4. OwnRings(t)' /\ FutexSide(t)' /\ PollSide(t)'
        BY <2>0, <2>1, <2>3, <1>r DEF OwnRings, FutexSide, PollSide, OneRing
    <2>5. ArmSide(t)'
        BY <2>0, <2>1, <2>3, <1>0 DEF ArmSide
    <2>6. ArmedRings(t)'
        <3>1. Passed(t)' \subseteq Passed(t)
            BY <2>0, <2>1, <2>3 DEF Passed
        <3> QED
            BY <3>1, <2>0, <2>1, <2>3, <1>0, PassKept
    <2> QED
        BY <2>0, <2>3, <2>4, <2>5, <2>6, LocalStep DEF ThreadInv
<1>2. CASE HeadPos(t)
    <2> DEFINE r == thr[t].ring
    <2>0. thr[t].pc = "head" /\ UNCHANGED <<writePos, seq, waiter, readable, read, pub>>
        BY <1>2 DEF HeadPos, ThrAt
    <2>a. \/ writePos[r] <= read[r] /\ (thr[t].again \/ r \notin Attached) /\ Answer(t, FALSE, FALSE)
          \/ writePos[r] <= read[r] /\ ~thr[t].again /\ Go(t, "carry")
          \/ Answer(t, TRUE, FALSE)
          \/ Go(t, "seq")
        BY <1>2 DEF HeadPos, Armed, Ready
    <2>1. CASE writePos[r] <= read[r] /\ (thr[t].again \/ r \notin Attached) /\ Answer(t, FALSE, FALSE)
        <3>1. ~thr[t].again
            BY <2>0, <2>1, <1>0, <1>r DEF ArmSide, Pending
        <3> QED
            BY <2>0, <2>1, <3>1, AnswerKeeps
    <2>2. CASE writePos[r] <= read[r] /\ ~thr[t].again /\ Go(t, "carry")
        <3>1. thr' \in [Threads -> ThrType]
              /\ thr'[t].pc = "carry" /\ thr'[t].ring = r /\ thr'[t].todo = thr[t].todo
              /\ thr'[t].cur = thr[t].cur
              /\ thr'[t].ready = thr[t].ready /\ thr'[t].capped = thr[t].capped
              /\ \A u \in Threads \ {t} : thr'[u] = thr[u]
            BY <2>2, <1>0, GoFields DEF ThrPCs
        <3>2. OwnRings(t)' /\ FutexSide(t)' /\ PollSide(t)'
            BY <2>0, <3>1, <1>r DEF OwnRings, FutexSide, PollSide, OneRing
        <3>3. thr[t].cur = read[r]
            BY <2>0, <2>2, <1>0, <1>r DEF ArmSide
        <3>4. ArmSide(t)'
            BY <2>0, <3>1, <3>3 DEF ArmSide
        <3>5. ArmedRings(t)'
            <4>1. Passed(t)' \subseteq Passed(t)
                BY <2>0, <3>1 DEF Passed
            <4> QED
                BY <4>1, <2>0, <3>1, <1>0, PassKept
        <3> QED
            BY <2>0, <3>1, <3>2, <3>4, <3>5, LocalStep DEF ThreadInv
    <2>3. CASE Answer(t, TRUE, FALSE)
        BY <2>0, <2>3, AnswerKeeps
    <2>4. CASE Go(t, "seq")
        <3>1. thr' \in [Threads -> ThrType]
              /\ thr'[t].pc = "seq" /\ thr'[t].ring = r /\ thr'[t].todo = thr[t].todo
              /\ thr'[t].ready = thr[t].ready /\ thr'[t].capped = thr[t].capped
              /\ \A u \in Threads \ {t} : thr'[u] = thr[u]
            BY <2>4, <1>0, GoFields DEF ThrPCs
        <3>2. OwnRings(t)' /\ FutexSide(t)' /\ ArmSide(t)' /\ PollSide(t)'
            BY <2>0, <3>1, <1>r DEF OwnRings, FutexSide, ArmSide, PollSide, OneRing
        <3>3. ArmedRings(t)'
            <4>1. Passed(t)' \subseteq Passed(t)
                BY <2>0, <3>1 DEF Passed
            <4> QED
                BY <4>1, <2>0, <3>1, <1>0, PassKept
        <3> QED
            BY <2>0, <3>1, <3>2, <3>3, LocalStep DEF ThreadInv
    <2> QED
        BY <2>a, <2>1, <2>2, <2>3, <2>4
<1>3. CASE HeadEntry(t)
    <2>1. thr[t].pc = "seq" /\ UNCHANGED <<writePos, seq, waiter, readable, read, pub>>
        BY <1>3 DEF HeadEntry, ThrAt
    <2>2. Answer(t, FALSE, TRUE) \/ Answer(t, TRUE, FALSE)
        BY <1>3 DEF HeadEntry, Capped, Ready
    <2> QED
        BY <2>1, <2>2, AnswerKeeps
<1>4. CASE StoreCarrier(t)
    <2>0. /\ thr[t].pc = "carry" /\ Go(t, "recheck") /\ UNCHANGED <<writePos, seq, readable, read, pub>>
          /\ waiter' = [waiter EXCEPT ![thr[t].ring] = "carrier"]
        BY <1>4 DEF StoreCarrier, ThrAt, SetWaiter
    <2>1. thr' \in [Threads -> ThrType]
          /\ thr'[t].pc = "recheck" /\ thr'[t].ring = thr[t].ring /\ thr'[t].todo = thr[t].todo
          /\ thr'[t].cur = thr[t].cur
          /\ thr'[t].ready = thr[t].ready /\ thr'[t].capped = thr[t].capped
          /\ \A u \in Threads \ {t} : thr'[u] = thr[u]
        BY <2>0, <1>0, GoFields DEF ThrPCs
    <2>2. /\ waiter' \in [Rings -> {"none", "futex", "carrier"}]
          /\ waiter'[thr[t].ring] = "carrier"
          /\ \A r \in Rings : r # thr[t].ring => waiter'[r] = waiter[r]
          /\ thr[t].ring \in RingsOf[t]
        BY <2>0, <1>0, <1>r DEF TypeOK, OneRing
    <2>3. TypeOK' /\ Consistent'
        BY <2>0, <2>1, <2>2, <1>0 DEF TypeOK, Consistent, ThrType
    <2>4. OwnRings(t)' /\ FutexSide(t)' /\ PollSide(t)'
        BY <2>0, <2>1, <2>2, <1>r DEF OwnRings, FutexSide, PollSide, OneRing
    <2>5. ArmSide(t)'
        BY <2>0, <2>1, <2>2, <1>0 DEF ArmSide
    <2>6. ArmedRings(t)'
        <3>1. Passed(t)' \subseteq Passed(t) /\ Passed(t) \subseteq Rings \ {thr[t].ring}
            BY <2>0, <2>1, <1>0 DEF Passed
        <3> QED
            BY <3>1, <2>0, <2>1, <2>2, <1>0, PassKept
    <2> QED
        BY <2>0, <2>1, <2>2, <2>3, <2>4, <2>5, <2>6, OnlyThread DEF ThreadInv
<1>5. CASE Recheck(t)
    <2>0. thr[t].pc = "recheck" /\ UNCHANGED <<writePos, seq, waiter, readable, read, pub>>
        BY <1>5 DEF Recheck, ThrAt
    <2>a. thr[t].cur = read[thr[t].ring] /\ waiter[thr[t].ring] = "carrier"
        BY <2>0, <1>0 DEF ArmSide
    <2>1. CASE writePos[thr[t].ring] = thr[t].cur
        <3>1. Answer(t, FALSE, FALSE)
            BY <1>5, <2>1 DEF Recheck, Armed
        <3>2. ~Pending(thr[t].ring)
            BY <2>a, <2>1, <1>r DEF Pending
        <3> QED
            BY <2>0, <2>a, <3>1, <3>2, AnswerKeeps
    <2>2. CASE writePos[thr[t].ring] # thr[t].cur
        <3>0. Go(t, "unarm")
            BY <1>5, <2>2 DEF Recheck
        <3>1. thr' \in [Threads -> ThrType]
              /\ thr'[t].pc = "unarm" /\ thr'[t].ring = thr[t].ring /\ thr'[t].todo = thr[t].todo
              /\ thr'[t].cur = thr[t].cur
              /\ thr'[t].ready = thr[t].ready /\ thr'[t].capped = thr[t].capped
              /\ \A u \in Threads \ {t} : thr'[u] = thr[u]
            BY <3>0, <1>0, GoFields DEF ThrPCs
        <3>2. OwnRings(t)' /\ FutexSide(t)' /\ PollSide(t)'
            BY <2>0, <3>1, <1>r DEF OwnRings, FutexSide, PollSide, OneRing
        <3>3. writePos[thr[t].ring] > read[thr[t].ring]
            BY <2>a, <2>2, <1>r
        <3>4. ArmSide(t)'
            BY <2>0, <2>a, <3>1, <3>3 DEF ArmSide, Pending
        <3>5. ArmedRings(t)'
            <4>1. Passed(t)' \subseteq Passed(t)
                BY <2>0, <3>1 DEF Passed
            <4> QED
                BY <4>1, <2>0, <3>1, <1>0, PassKept
        <3> QED
            BY <2>0, <3>1, <3>2, <3>4, <3>5, LocalStep DEF ThreadInv
    <2> QED
        BY <2>1, <2>2
<1>6. CASE Unarm(t)
    <2> DEFINE x == [thr[t] EXCEPT !.pc = "head", !.again = TRUE]
    <2>0. /\ thr[t].pc = "unarm" /\ UNCHANGED <<writePos, seq, readable, read, pub>>
          /\ waiter' = [waiter EXCEPT ![thr[t].ring] = "none"]
          /\ thr' = [thr EXCEPT ![t] = x]
        BY <1>6, <1>0 DEF Unarm, ThrAt, SetWaiter
    <2>1. /\ x \in ThrType /\ x.pc = "head" /\ x.ring = thr[t].ring /\ x.todo = thr[t].todo /\ x.again
          /\ x.ready = thr[t].ready /\ x.capped = thr[t].capped
        BY <1>0 DEF ThrType, ThrPCs
    <2> HIDE DEF x
    <2>2. thr' \in [Threads -> ThrType] /\ thr'[t] = x /\ \A u \in Threads \ {t} : thr'[u] = thr[u]
        BY <2>0, <2>1, <1>0, SetFields
    <2>3. /\ waiter' \in [Rings -> {"none", "futex", "carrier"}]
          /\ \A r \in Rings : r # thr[t].ring => waiter'[r] = waiter[r]
          /\ thr[t].ring \in RingsOf[t]
        BY <2>0, <1>0, <1>r DEF TypeOK, OneRing
    <2>4. TypeOK' /\ Consistent'
        BY <2>0, <2>2, <2>3, <1>0 DEF TypeOK, Consistent, ThrType
    <2>5. OwnRings(t)' /\ FutexSide(t)' /\ PollSide(t)'
        BY <2>0, <2>1, <2>2, <2>3, <1>r DEF OwnRings, FutexSide, PollSide, OneRing
    <2>6. ArmSide(t)'
        BY <2>0, <2>1, <2>2, <1>0 DEF ArmSide, Pending
    <2>7. ArmedRings(t)'
        <3>1. Passed(t)' \subseteq Passed(t) /\ Passed(t) \subseteq Rings \ {thr[t].ring}
            BY <2>0, <2>1, <2>2, <1>0 DEF Passed
        <3> QED
            BY <3>1, <2>0, <2>1, <2>2, <2>3, <1>0, PassKept
    <2> QED
        BY <2>0, <2>2, <2>3, <2>4, <2>5, <2>6, <2>7, OnlyThread DEF ThreadInv
<1> QED
    BY <1>1, <1>2, <1>3, <1>4, <1>5, <1>6

\* wait_any() around its passes: blocking, and the clean-up.
LEMMA WaitSteps ==
    ASSUME WakeInv, NEW t \in Threads,
           \/ WaitAny(t) \/ Stop(t) \/ Block(t) \/ NapEnds(t) \/ PollEnds(t) \/ PollTimeout(t)
           \/ (\E r \in Rings : Disarm(t, r)) \/ Drain(t)
    PROVE  WakeInv'
<1>0. /\ TypeOK /\ Consistent /\ OwnRings(t) /\ ArmedRings(t)
      /\ thr[t] \in ThrType /\ thr \in [Threads -> ThrType] /\ RingsOf[t] \subseteq Rings
    BY WakeAssumption DEF WakeInv, ThreadInv, TypeOK, ThrType
<1>a. thr[t].todo \subseteq RingsOf[t]
    BY <1>0 DEF OwnRings
<1> DEFINE a == [ThrIdle EXCEPT !.pc = "arm", !.todo = RingsOf[t]]
           d == [ThrIdle EXCEPT !.pc = "disarm", !.todo = RingsOf[t]]
           e == [ThrIdle EXCEPT !.pc = "disarm", !.todo = RingsOf[t], !.last = TRUE]
<1>b. /\ a \in ThrType /\ a.pc = "arm" /\ a.todo = RingsOf[t] /\ ~a.again
      /\ d \in ThrType /\ d.pc = "disarm" /\ d.todo = RingsOf[t]
      /\ e \in ThrType /\ e.pc = "disarm" /\ e.todo = RingsOf[t]
      /\ ThrIdle \in ThrType /\ ThrIdle.pc = "idle" /\ ThrIdle.todo = {}
    BY <1>0, IdleTypes DEF ThrType, ThrPCs, ThrIdle
<1>1. CASE WaitAny(t)
    <2>1. thr' = [thr EXCEPT ![t] = a] /\ UNCHANGED <<writePos, seq, waiter, readable, read, pub>>
        BY <1>1 DEF WaitAny
    <2> HIDE DEF a
    <2>2. thr' \in [Threads -> ThrType] /\ thr'[t] = a /\ \A u \in Threads \ {t} : thr'[u] = thr[u]
        BY <2>1, <1>b, <1>0, SetFields
    <2>3. ThreadInv(t)'
        BY <2>2, <1>b, FreshPass
    <2> QED
        BY <2>1, <2>2, <2>3, LocalStep
<1>2. CASE Stop(t) \/ NapEnds(t) \/ PollEnds(t) \/ PollTimeout(t)
    <2>1. /\ thr' = [thr EXCEPT ![t] = d] \/ thr' = [thr EXCEPT ![t] = e]
          /\ UNCHANGED <<writePos, seq, waiter, readable, read, pub>>
        BY <1>2 DEF Stop, NapEnds, PollEnds, PollTimeout, Unblock
    <2> HIDE DEF d, e
    <2>2. /\ thr' \in [Threads -> ThrType] /\ (thr'[t] = d \/ thr'[t] = e)
          /\ \A u \in Threads \ {t} : thr'[u] = thr[u]
        BY <2>1, <1>b, <1>0, SetFields
    <2>3. ThreadInv(t)'
        BY <2>2, <1>b, QuietThread DEF Quiet
    <2> QED
        BY <2>1, <2>2, <2>3, LocalStep
<1>3. CASE Block(t)
    <2>0. /\ thr[t].pc = "arm" /\ thr[t].todo = {} /\ ~thr[t].ready
          /\ UNCHANGED <<writePos, seq, waiter, readable, read, pub>>
        BY <1>3 DEF Block, ThrAt
    <2>1. CASE Naps(t)
        <3>1. Go(t, "nap")
            BY <1>3, <2>1 DEF Block
        <3>2. ThreadInv(t)'
            BY <3>1, <1>0, <1>a, GoFields, QuietThread DEF Quiet, ThrPCs
        <3> QED
            BY <3>1, <3>2, <2>0, <1>0, GoFields, LocalStep DEF ThrPCs
    <2>2. CASE ~Naps(t)
        <3>0. Go(t, "poll") /\ ~thr[t].capped /\ Covered(t)
            BY <1>3, <2>2 DEF Block, Naps
        <3>1. thr' \in [Threads -> ThrType]
              /\ thr'[t].pc = "poll" /\ thr'[t].todo = thr[t].todo
              /\ thr'[t].ready = thr[t].ready /\ thr'[t].capped = thr[t].capped
              /\ \A u \in Threads \ {t} : thr'[u] = thr[u]
            BY <3>0, <1>0, GoFields DEF ThrPCs
        <3>2. OwnRings(t)' /\ FutexSide(t)' /\ ArmSide(t)' /\ PollSide(t)'
            BY <2>0, <3>0, <3>1 DEF OwnRings, FutexSide, ArmSide, PollSide, OneRing, Covered
        <3>3. ArmedRings(t)'
            <4>1. Passed(t)' \subseteq Passed(t)
                BY <2>0, <3>1 DEF Passed
            <4> QED
                BY <4>1, <2>0, <3>1, <1>0, PassKept
        <3> QED
            BY <2>0, <3>1, <3>2, <3>3, LocalStep DEF ThreadInv
    <2> QED
        BY <2>1, <2>2
<1>4. ASSUME NEW r \in Rings, Disarm(t, r) PROVE WakeInv'
    <2> DEFINE x == [thr[t] EXCEPT !.todo = @ \ {r}]
    <2>0. /\ thr[t].pc = "disarm" /\ r \in RingsOf[t] /\ UNCHANGED <<writePos, seq, readable, read, pub>>
          /\ waiter' = [waiter EXCEPT ![r] = "none"]
          /\ thr' = [thr EXCEPT ![t] = x]
        BY <1>4, <1>0, <1>a DEF Disarm, ThrAt
    <2>1. x \in ThrType /\ x.pc = "disarm" /\ x.todo = thr[t].todo \ {r}
        BY <2>0, <1>0 DEF ThrType
    <2> HIDE DEF x
    <2>2. thr' \in [Threads -> ThrType] /\ thr'[t] = x /\ \A u \in Threads \ {t} : thr'[u] = thr[u]
        BY <2>0, <2>1, <1>0, SetFields
    <2>3. /\ waiter' \in [Rings -> {"none", "futex", "carrier"}]
          /\ \A s \in Rings \ RingsOf[t] : waiter'[s] = waiter[s]
        BY <2>0, <1>0 DEF TypeOK
    <2>4. TypeOK' /\ Consistent'
        BY <2>0, <2>2, <2>3, <1>0 DEF TypeOK, Consistent, ThrType
    <2>5. ThreadInv(t)'
        BY <2>1, <2>2, <1>a, QuietThread DEF Quiet
    <2> QED
        BY <2>0, <2>2, <2>3, <2>4, <2>5, OnlyThread
<1>5. CASE Drain(t)
    <2>0. /\ UNCHANGED <<writePos, seq, waiter, read, pub>> /\ readable' = readable \ {t}
          /\ thr' = [thr EXCEPT ![t] = ThrIdle] \/ thr' = [thr EXCEPT ![t] = a]
        BY <1>5, <1>0 DEF Drain
    <2> HIDE DEF a
    <2>1. /\ thr' \in [Threads -> ThrType] /\ (thr'[t] = ThrIdle \/ thr'[t] = a)
          /\ \A u \in Threads \ {t} : thr'[u] = thr[u]
        BY <2>0, <1>b, <1>0, SetFields
    <2>2. ThreadInv(t)'
        BY <2>1, <1>b, QuietThread, FreshPass DEF Quiet
    <2>3. TypeOK' /\ Consistent'
        BY <2>0, <2>1, <1>0 DEF TypeOK, Consistent, ThrType
    <2> QED
        BY <2>0, <2>1, <2>2, <2>3, OnlyThread
<1> QED
    BY <1>1, <1>2, <1>3, <1>4, <1>5

-----------------------------------------------------------------------------
\* Every step keeps the invariant as long as the futex word does not wrap.
LEMMA WakeInvKept == WakeInv /\ NoWrap /\ [Next]_vars => WakeInv'
<1> SUFFICES ASSUME WakeInv, NoWrap, [Next]_vars PROVE WakeInv'
    OBVIOUS
<1>1. ASSUME NEW p \in Pubs, Publish(p) \/ PubStep(p) PROVE WakeInv'
    BY <1>1, PubPreserves
<1>2. ASSUME NEW t \in Threads, ThrNext(t) PROVE WakeInv'
    BY <1>2, ReceiveSteps, ArmSteps, WaitSteps DEF ThrNext, ThrStep
<1>3. CASE UNCHANGED vars
    <2>1. TypeOK' /\ Consistent'
        BY <1>3 DEF vars, WakeInv, TypeOK, Consistent
    <2>2. ASSUME NEW t \in Threads PROVE ThreadInv(t)'
        <3>1. ThreadInv(t)
            BY DEF WakeInv
        <3> QED
            BY <3>1, <1>3 DEF vars, ThreadInv, OwnRings, FutexSide, ArmSide, ArmedRings, PollSide,
                              Passed, Pending, Due, Owes, OwesFutex, Covered
    <2> QED
        BY <2>1, <2>2 DEF WakeInv
<1> QED
    BY <1>1, <1>2, <1>3 DEF Next

\* The invariant says that a sleeper is owed its wake.
LEMMA OwedByInv == WakeInv => SleeperIsOwed
<1> SUFFICES ASSUME WakeInv, NEW t \in Threads, NEW r \in Rings,
                    SleepsOn(t, r), writePos[r] > read[r]
             PROVE  \/ Delivering(r) # {}
                    \/ thr[t].pc = "poll" /\ (Signalling # {} \/ t \in readable)
    BY DEF SleeperIsOwed
<1>0. r \in RingsOf[t] /\ FutexSide(t) /\ ArmedRings(t) /\ PollSide(t)
    BY DEF WakeInv, ThreadInv, SleepsOn
<1>1. CASE thr[t].pc = "parked" /\ thr[t].ring = r
    <2>1. PICK p \in Pubs : OwesFutex(p, r)
        BY <1>0, <1>1 DEF FutexSide, Pending
    <2>2. p \in Delivering(r)
        BY <2>1 DEF OwesFutex, Delivering, DeliverPCs
    <2> QED
        BY <2>2
<1>2. CASE thr[t].pc = "poll"
    <2>1. r \in Passed(t) \cap Attached /\ ~thr[t].ready /\ ~thr[t].capped
        BY <1>0, <1>2 DEF PollSide, Passed, Covered
    <2>2. Due(t, r)
        BY <2>1, <1>0 DEF ArmedRings, Pending
    <2>3. ASSUME NEW p \in Pubs, Owes(p, r) PROVE p \in Delivering(r)
        BY <2>3 DEF Owes, Delivering, DeliverPCs
    <2>4. ASSUME NEW p \in Pubs, pub[p].carrier PROVE p \in Signalling
        BY <2>4 DEF Signalling
    <2> QED
        BY <1>2, <2>2, <2>3, <2>4 DEF Due
<1> QED
    BY <1>1, <1>2 DEF SleepsOn

\* No lost wake, for any number of publishers, threads and rings, any capacity
\* and any mix of Wakers: publish() and the two ways to sleep never leave a
\* thread asleep on a claimed position that no publisher will look after.  The
\* futex compares only the low half of write_pos, so the claim holds as long as
\* that half does not go all the way round between the load and the sleep.
THEOREM NoLostWake == Spec /\ []NoWrap => []SleeperIsOwed
<1>1. Init => WakeInv
    BY WakeInit
<1>2. WakeInv /\ NoWrap /\ [Next]_vars => WakeInv'
    BY WakeInvKept
<1>3. WakeInv => SleeperIsOwed
    BY OwedByInv
<1> QED
    BY <1>1, <1>2, <1>3, PTL DEF Spec

-----------------------------------------------------------------------------
\* The types alone are kept by every step of publish(), whatever the futex word
\* does.
LEMMA PubTypes ==
    ASSUME TypeOK, NEW p \in Pubs, Publish(p) \/ PubStep(p)
    PROVE  TypeOK'
<1> DEFINE T == [pc : PubPCs, num : Nat, ring : Rings, pos : Nat, carrier : BOOLEAN]
<1>0. /\ pub \in [Pubs -> T] /\ pub[p] \in T
      /\ pub[p].ring \in Rings /\ pub[p].pos \in Nat /\ writePos[pub[p].ring] \in Nat
      /\ pub[p].carrier \in BOOLEAN /\ pub[p].num + 1 \in Nat
    BY DEF TypeOK
<1>1. ASSUME NEW pc \in PubPCs, pub' = [pub EXCEPT ![p].pc = pc] PROVE pub' \in [Pubs -> T]
    BY <1>0, <1>1
<1>2. PubPCs = {"idle", "claim", "look", "early", "lock", "heal", "commit", "wake", "futex", "signal"}
    BY DEF PubPCs
<1>3. CASE Publish(p) \/ EarlyLook(p) \/ GiveUp(p) \/ HealLeave(p)
    <2>1. pub' \in [Pubs -> T] /\ UNCHANGED <<writePos, seq, waiter, readable, read, thr>>
        BY <1>1, <1>2, <1>3 DEF Publish, EarlyLook, GiveUp, HealLeave
    <2> QED
        BY <2>1 DEF TypeOK
<1>4. CASE ClaimPos(p)
    <2>1. pub' = [pub EXCEPT ![p].pc = IF writePos[pub[p].ring] >= Capacity THEN "look" ELSE "lock",
                             ![p].pos = writePos[pub[p].ring]]
        BY <1>4 DEF ClaimPos
    <2>2. pub' \in [Pubs -> T]
        BY <1>0, <1>2, <2>1
    <2>3. /\ writePos' \in [Rings -> Nat]
          /\ UNCHANGED <<seq, waiter, readable, read, thr>>
        BY <1>0, <1>4 DEF ClaimPos, TypeOK
    <2> QED
        BY <2>2, <2>3 DEF TypeOK
<1>5. CASE LockEntry(p) \/ HealSkip(p) \/ Commit(p)
    <2>1. /\ [tag |-> "lock", val |-> pub[p].pos] \in Word
          /\ [tag |-> "skip", val |-> pub[p].pos + 1] \in Word
          /\ [tag |-> "commit", val |-> pub[p].pos + 1] \in Word
        BY <1>0 DEF Word
    <2>2. seq' \in [Rings -> [Index -> Word]]
        <3>1. CASE UNCHANGED seq
            BY <3>1 DEF TypeOK
        <3>2. ASSUME NEW w \in Word, PutSeq(p, w) PROVE seq' \in [Rings -> [Index -> Word]]
            BY <3>2, SeqType
        <3> QED
            BY <1>5, <2>1, <3>1, <3>2 DEF LockEntry, HealSkip, Commit
    <2>3. pub' \in [Pubs -> T] /\ UNCHANGED <<writePos, waiter, readable, read, thr>>
        BY <1>1, <1>2, <1>5 DEF LockEntry, HealSkip, Commit
    <2> QED
        BY <2>2, <2>3 DEF TypeOK
<1>6. CASE WakeRing(p)
    <2>1. UNCHANGED <<writePos, seq, waiter, readable, read, thr>>
        BY <1>6 DEF WakeRing
    <2>2. (pub[p].carrier \/ waiter[pub[p].ring] = "carrier") \in BOOLEAN
        BY <1>0
    <2>3. \/ pub' = [pub EXCEPT ![p].pc = "futex"]
          \/ NextRing(p, pub[p].carrier \/ waiter[pub[p].ring] = "carrier")
        BY <1>6 DEF WakeRing
    <2>4. pub' \in [Pubs -> T]
        <3>1. CASE pub' = [pub EXCEPT ![p].pc = "futex"]
            BY <1>1, <1>2, <3>1
        <3>2. CASE NextRing(p, pub[p].carrier \/ waiter[pub[p].ring] = "carrier")
            BY <2>2, <3>2, NextRingType
        <3> QED
            BY <2>3, <3>1, <3>2
    <2> QED
        BY <2>1, <2>4 DEF TypeOK
<1>7. CASE FutexWake(p)
    <2>1. UNCHANGED <<writePos, seq, waiter, readable, read>> /\ NextRing(p, pub[p].carrier)
        BY <1>7 DEF FutexWake
    <2>2. pub' \in [Pubs -> T]
        BY <1>0, <2>1, NextRingType
    <2>3. ASSUME NEW t \in Threads
          PROVE  /\ thr[t] \in ThrType /\ [thr[t] EXCEPT !.pc = "clear"] \in ThrType
        BY ZenonT(40) DEF TypeOK, ThrType, ThrPCs
    <2>4. thr' \in [Threads -> ThrType]
        BY <1>7, <2>3 DEF FutexWake
    <2> QED
        BY <2>1, <2>2, <2>4 DEF TypeOK, ThrType
<1>8. CASE Signal(p)
    <2>1. /\ readable' = Threads /\ pub' = [pub EXCEPT ![p] = PubIdle(pub[p].num + 1)]
          /\ UNCHANGED <<writePos, seq, waiter, read, thr>>
        BY <1>8 DEF Signal
    <2>2. pub' \in [Pubs -> T]
        BY <1>0, <2>1, IdleTypes
    <2> QED
        BY <2>1, <2>2 DEF TypeOK
<1>9. CASE EarlySignal(p)
    <2>1. /\ readable' = Threads /\ pub' = [pub EXCEPT ![p].pc = "lock", ![p].carrier = FALSE]
          /\ UNCHANGED <<writePos, seq, waiter, read, thr>>
        BY <1>9 DEF EarlySignal
    <2>2. pub' \in [Pubs -> T]
        BY <1>0, <1>2, <2>1
    <2> QED
        BY <2>1, <2>2 DEF TypeOK
<1> QED
    BY <1>3, <1>4, <1>5, <1>6, <1>7, <1>8, <1>9 DEF PubStep

\* The same for the blocking calls.
LEMMA ThrTypes ==
    ASSUME TypeOK, NEW t \in Threads, ThrNext(t)
    PROVE  TypeOK'
<1>0. /\ thr \in [Threads -> ThrType] /\ thr[t] \in ThrType /\ RingsOf[t] \subseteq Rings
      /\ thr[t].ring \in Rings /\ thr[t].todo \in SUBSET Rings
      /\ thr[t].ready \in BOOLEAN /\ thr[t].capped \in BOOLEAN
      /\ writePos[thr[t].ring] \in Nat /\ read[thr[t].ring] \in Nat
    BY WakeAssumption DEF TypeOK, ThrType
<1>a. ThrIdle \in ThrType
    BY IdleTypes
<1>b. [ThrIdle EXCEPT !.pc = "arm", !.todo = RingsOf[t]] \in ThrType
    BY <1>0, <1>a DEF ThrType, ThrPCs
<1>c. ASSUME NEW ready \in BOOLEAN, NEW capped \in BOOLEAN, Answer(t, ready, capped)
      PROVE  thr' \in [Threads -> ThrType]
    <2> DEFINE x == [ThrIdle EXCEPT !.pc = "arm", !.todo = thr[t].todo,
                                    !.ready = thr[t].ready \/ ready, !.capped = thr[t].capped \/ capped]
    <2>1. (thr[t].ready \/ ready) \in BOOLEAN /\ (thr[t].capped \/ capped) \in BOOLEAN
        OBVIOUS
    <2>2. x \in ThrType
        BY <1>0, <1>a, <2>1, ZenonT(40) DEF ThrType, ThrPCs
    <2>3. thr' = [thr EXCEPT ![t] = x]
        BY <1>c DEF Answer
    <2> HIDE DEF x
    <2> QED
        BY <1>0, <2>2, <2>3
<1>d. ASSUME NEW pc \in ThrPCs, Go(t, pc) PROVE thr' \in [Threads -> ThrType]
    BY <1>d, GoFields
<1>p. ThrPCs = {"idle", "try", "none", "mode", "sleep", "parked", "clear", "arm", "head", "seq",
                "carry", "recheck", "unarm", "nap", "poll", "disarm"}
    BY DEF ThrPCs
\* The steps that leave shared memory alone.
<1>1. ASSUME thr' \in [Threads -> ThrType], UNCHANGED <<writePos, seq, waiter, readable, read, pub>>
      PROVE  TypeOK'
    BY <1>1 DEF TypeOK, ThrType
<1>2. CASE \/ \E r \in Rings : Receive(t, r)
           \/ \E r \in Rings : ArmCur(t, r)
           \/ WaitAny(t) \/ ReceiveTimeout(t) \/ LoadCur(t)
    <2>1. UNCHANGED <<writePos, seq, waiter, readable, read, pub>>
        BY <1>2 DEF Receive, ArmCur, WaitAny, ReceiveTimeout, LoadCur
    <2>2. ASSUME NEW r \in Rings PROVE [ThrIdle EXCEPT !.pc = "try", !.ring = r] \in ThrType
        BY <1>a DEF ThrType, ThrPCs
    <2>3. ASSUME NEW r \in Rings, ArmCur(t, r) PROVE thr' \in [Threads -> ThrType]
        <3>1. writePos[r] \in Nat /\ thr[t].todo \ {r} \in SUBSET Rings
            BY <1>0 DEF TypeOK
        <3>2. thr' = [thr EXCEPT ![t] = [thr[t] EXCEPT !.pc = "head", !.ring = r, !.todo = thr[t].todo \ {r},
                                                       !.cur = writePos[r]]]
            BY <1>0, <2>3 DEF ArmCur
        <3>3. [thr[t] EXCEPT !.pc = "head", !.ring = r, !.todo = thr[t].todo \ {r},
                             !.cur = writePos[r]] \in ThrType
            BY <1>0, <3>1 DEF ThrType, ThrPCs
        <3> QED
            BY <1>0, <3>2, <3>3
    <2>4. ASSUME LoadCur(t) PROVE thr' \in [Threads -> ThrType]
        <3>1. [thr[t] EXCEPT !.pc = "mode", !.cur = writePos[thr[t].ring]] \in ThrType
            BY <1>0 DEF ThrType, ThrPCs
        <3>2. \/ thr' = [thr EXCEPT ![t] = [thr[t] EXCEPT !.pc = "mode", !.cur = writePos[thr[t].ring]]]
              \/ Go(t, "try")
            BY <1>0, <2>4 DEF LoadCur
        <3> QED
            BY <1>0, <1>d, <1>p, <3>1, <3>2
    <2>5. thr' \in [Threads -> ThrType]
        BY <1>0, <1>a, <1>b, <1>2, <2>2, <2>3, <2>4 DEF Receive, WaitAny, ReceiveTimeout
    <2> QED
        BY <1>1, <2>1, <2>5
<1>3. CASE FutexWait(t) \/ FutexTimeout(t) \/ Block(t)
    <2>1. UNCHANGED <<writePos, seq, waiter, readable, read, pub>>
        BY <1>3 DEF FutexWait, FutexTimeout, Block
    <2>2. Go(t, "parked") \/ Go(t, "clear") \/ Go(t, "nap") \/ Go(t, "poll")
        BY <1>3 DEF FutexWait, FutexTimeout, Block
    <2> QED
        BY <1>1, <1>d, <1>p, <2>1, <2>2
<1>4. CASE HeadPos(t) \/ HeadEntry(t) \/ Recheck(t)
    <2>1. UNCHANGED <<writePos, seq, waiter, readable, read, pub>>
        BY <1>4 DEF HeadPos, HeadEntry, Recheck
    <2>2. \/ Answer(t, FALSE, FALSE) \/ Answer(t, TRUE, FALSE) \/ Answer(t, FALSE, TRUE)
          \/ Go(t, "carry") \/ Go(t, "seq") \/ Go(t, "unarm")
        BY <1>4 DEF HeadPos, HeadEntry, Recheck, Armed, Ready, Capped
    <2> QED
        BY <1>1, <1>c, <1>d, <1>p, <2>1, <2>2
<1>5. CASE Stop(t) \/ NapEnds(t) \/ PollEnds(t) \/ PollTimeout(t)
    <2>1. UNCHANGED <<writePos, seq, waiter, readable, read, pub>>
        BY <1>5 DEF Stop, NapEnds, PollEnds, PollTimeout
    <2>2. /\ [ThrIdle EXCEPT !.pc = "disarm", !.todo = RingsOf[t], !.last = TRUE] \in ThrType
          /\ [ThrIdle EXCEPT !.pc = "disarm", !.todo = RingsOf[t]] \in ThrType
        BY <1>0, <1>a DEF ThrType, ThrPCs
    <2>3. thr' \in [Threads -> ThrType]
        BY <1>0, <1>5, <2>2 DEF Stop, NapEnds, PollEnds, PollTimeout, Unblock
    <2> QED
        BY <1>1, <2>1, <2>3
<1>6. CASE TryReceive(t)
    <2>1. Resync(thr[t].ring) \in Nat
        BY <1>0, WakeAssumption DEF Resync
    <2>2. /\ \/ UNCHANGED read
             \/ read' = [read EXCEPT ![thr[t].ring] = Resync(thr[t].ring)]
             \/ read' = [read EXCEPT ![thr[t].ring] = Resync(thr[t].ring) + 1]
          /\ UNCHANGED <<writePos, seq, waiter, readable, pub>>
          /\ Go(t, "none") \/ thr' = [thr EXCEPT ![t] = ThrIdle] \/ UNCHANGED thr
        BY <1>6 DEF TryReceive
    <2>3. read' \in [Rings -> Nat]
        BY <1>0, <2>1, <2>2 DEF TypeOK
    <2>4. thr' \in [Threads -> ThrType]
        BY <1>0, <1>a, <1>d, <1>p, <2>2
    <2> QED
        BY <2>2, <2>3, <2>4 DEF TypeOK, ThrType
<1>7. CASE StoreFutex(t) \/ StoreCarrier(t) \/ ClearFutex(t) \/ Unarm(t)
    <2>1. /\ SetWaiter(t, "futex") \/ SetWaiter(t, "carrier") \/ SetWaiter(t, "none")
          /\ UNCHANGED <<writePos, seq, readable, read, pub>>
        BY <1>7 DEF StoreFutex, StoreCarrier, ClearFutex, Unarm
    <2>2. waiter' \in [Rings -> {"none", "futex", "carrier"}]
        BY <1>0, <2>1 DEF SetWaiter, TypeOK
    <2>3. /\ [thr[t] EXCEPT !.pc = "try", !.cur = 0] \in ThrType
          /\ [thr[t] EXCEPT !.pc = "head", !.again = TRUE] \in ThrType
        BY <1>0 DEF ThrType, ThrPCs
    <2>4. \/ thr' = [thr EXCEPT ![t] = [thr[t] EXCEPT !.pc = "try", !.cur = 0]]
          \/ thr' = [thr EXCEPT ![t] = [thr[t] EXCEPT !.pc = "head", !.again = TRUE]]
          \/ Go(t, "sleep") \/ Go(t, "recheck")
        BY <1>0, <1>7 DEF StoreFutex, StoreCarrier, ClearFutex, Unarm
    <2>5. thr' \in [Threads -> ThrType]
        BY <1>0, <1>d, <1>p, <2>3, <2>4
    <2> QED
        BY <2>1, <2>2, <2>5 DEF TypeOK, ThrType
<1>8. CASE (\E r \in Rings : Disarm(t, r)) \/ Drain(t)
    <2>1. /\ UNCHANGED <<writePos, seq, read, pub>>
          /\ readable' \in SUBSET Threads
          /\ waiter' \in [Rings -> {"none", "futex", "carrier"}]
        BY <1>8 DEF Disarm, Drain, TypeOK
    <2>2. ASSUME NEW r \in Rings, Disarm(t, r) PROVE thr' \in [Threads -> ThrType]
        <3>1. thr' = [thr EXCEPT ![t] = [thr[t] EXCEPT !.todo = thr[t].todo \ {r}]]
            BY <1>0, <2>2 DEF Disarm
        <3>2. [thr[t] EXCEPT !.todo = thr[t].todo \ {r}] \in ThrType
            BY <1>0 DEF ThrType
        <3> QED
            BY <1>0, <3>1, <3>2
    <2>3. ASSUME Drain(t) PROVE thr' \in [Threads -> ThrType]
        BY <1>0, <1>a, <1>b, <2>3 DEF Drain
    <2>4. thr' \in [Threads -> ThrType]
        BY <1>8, <2>2, <2>3
    <2> QED
        BY <2>1, <2>4 DEF TypeOK, ThrType
<1> QED
    BY <1>2, <1>3, <1>4, <1>5, <1>6, <1>7, <1>8 DEF ThrNext, ThrStep

\* Every word, local and flag of the sleeping protocol stays in its range, for
\* any number of publishers, threads and rings, and wraps of the futex word
\* included (publish, receive, wait_any).
THEOREM WakeTypes == Spec => []TypeOK
<1>1. Init => TypeOK
    BY WakeInit DEF WakeInv
<1>2. TypeOK /\ [Next]_vars => TypeOK'
    <2> SUFFICES ASSUME TypeOK, [Next]_vars PROVE TypeOK'
        OBVIOUS
    <2>1. CASE UNCHANGED vars
        BY <2>1 DEF vars, TypeOK
    <2> QED
        BY <2>1, PubTypes, ThrTypes DEF Next
<1> QED
    BY <1>1, <1>2, PTL DEF Spec
=============================================================================
