-------------------------------- MODULE Wake --------------------------------
(***************************************************************************)
(* Sleeping and waking: how a subscriber that finds its ring empty parks   *)
(* on the futex of write_pos (receive, receive_view) or on a descriptor    *)
(* (arm_wait, wait_any), and how a publisher finds out that it has to wake *)
(* somebody.  Each access to shared memory is one step, in program order:  *)
(* the two seq_cst fences make that true of has_waiter and write_pos.      *)
(*                                                                         *)
(* The rings stay Live here and a payload is nothing but its position; the *)
(* module Channel has tenancy, claims and reference counts.                *)
(***************************************************************************)
EXTENDS Integers, FiniteSets

CONSTANTS
    Pubs,       \* publishers, each with a wake backend
    Threads,    \* subscriber threads
    MaxSubs,    \* rings; publish() visits 1 .. MaxSubs
    RingsOf,    \* per thread: the rings of its Subscribers
    Attached,   \* rings whose Subscriber has a Waker; a thread has one Waker
    Capacity,   \* entries per ring
    FutexSpan,  \* the futex compares write_pos modulo this (2^32)
    MaxMsgs     \* bound: messages per publisher

Rings == 1..MaxSubs
Index == 0..(Capacity - 1)

ASSUME WakeAssumption ==
    /\ IsFiniteSet(Pubs) /\ IsFiniteSet(Threads)
    /\ MaxSubs \in Nat \ {0} /\ Capacity \in Nat \ {0} /\ MaxMsgs \in Nat
    /\ RingsOf \in [Threads -> SUBSET Rings]
    /\ \A t, u \in Threads : t # u => RingsOf[t] \cap RingsOf[u] = {}
    /\ Attached \subseteq Rings

ASSUME SpanAssumption == FutexSpan \in Nat \ {0}

\* Entry::sequence: pos + 1 once committed or skipped, pos while locked.
Word == [tag : {"commit", "skip", "lock"}, val : Nat]

Locked(w) == w.tag = "lock"

VARIABLES
    writePos,  \* per ring
    seq,       \* per ring and index
    waiter,    \* has_waiter, per ring
    readable,  \* threads whose Waker's descriptor is readable
    read,      \* read_pos_, per ring
    pub,       \* per publisher: the locals of publish()
    thr        \* per thread: the locals of its blocking call

vars == <<writePos, seq, waiter, readable, read, pub, thr>>

HeadSeq(r) == seq[r][read[r] % Capacity]

-----------------------------------------------------------------------------
(***************************************************************************)
(* The publisher.                                                          *)
(***************************************************************************)
PubIdle(n) == [pc |-> "idle", num |-> n, ring |-> 1, pos |-> 0, carrier |-> FALSE]

PubAt(p, pc) == pub[p].pc = pc

PubSeq(p) == seq[pub[p].ring][pub[p].pos % Capacity]

PutSeq(p, w) == seq' = [seq EXCEPT ![pub[p].ring][pub[p].pos % Capacity] = w]

\* Mutant of NextRing: one ring too many.
NextRingPast(p, carrier) ==
    LET q == pub[p]
    IN  pub' = [pub EXCEPT ![p] =
                   IF q.ring <= MaxSubs THEN [q EXCEPT !.pc = "claim", !.ring = @ + 1, !.carrier = carrier]
                   ELSE IF carrier THEN [q EXCEPT !.pc = "signal", !.carrier = TRUE]
                   ELSE PubIdle(q.num + 1)]

\* The next ring; after the last one, the signal if some ring asked for it.
NextRing(p, carrier) ==
    LET q == pub[p]
    IN  pub' = [pub EXCEPT ![p] =
                   IF q.ring < MaxSubs THEN [q EXCEPT !.pc = "claim", !.ring = @ + 1, !.carrier = carrier]
                   ELSE IF carrier THEN [q EXCEPT !.pc = "signal", !.carrier = TRUE]
                   ELSE PubIdle(q.num + 1)]

Publish(p) ==
    /\ PubAt(p, "idle") /\ pub[p].num < MaxMsgs
    /\ pub' = [pub EXCEPT ![p].pc = "claim"]
    /\ UNCHANGED <<writePos, seq, waiter, readable, read, thr>>

ClaimPos(p) ==
    LET r == pub[p].ring
    IN  /\ PubAt(p, "claim")
        /\ writePos' = [writePos EXCEPT ![r] = @ + 1]
        /\ pub' = [pub EXCEPT ![p].pc = IF writePos[r] >= Capacity THEN "look" ELSE "lock",
                              ![p].pos = writePos[r]]
        /\ UNCHANGED <<seq, waiter, readable, read, thr>>

\* What the entry must hold when the previous wrap is done with it.
PrevSeq(pos) == IF pos >= Capacity THEN pos - Capacity + 1 ELSE 0

\* The previous wrap is not done with the entry: wait_for_commit() will wait.
Blocks(p) == Locked(PubSeq(p)) \/ PubSeq(p).val < PrevSeq(pub[p].pos)

\* An earlier ring's wake must not wait out this ring's commit timeout.
EarlyLook(p) ==
    /\ PubAt(p, "look")
    /\ pub' = [pub EXCEPT ![p].pc = IF Blocks(p) /\ pub[p].carrier THEN "early" ELSE "lock"]
    /\ UNCHANGED <<writePos, seq, waiter, readable, read, thr>>

\* Mutant of EarlySignal: the carrier is forgotten and nothing is sent.
EarlyForgets(p) ==
    /\ PubAt(p, "early")
    /\ pub' = [pub EXCEPT ![p].pc = "lock", ![p].carrier = FALSE]
    /\ UNCHANGED <<writePos, seq, waiter, readable, read, thr>>

\* The datagram goes out now, and the rings so far ask for no other.
EarlySignal(p) ==
    /\ PubAt(p, "early")
    /\ readable' = Threads
    /\ pub' = [pub EXCEPT ![p].pc = "lock", ![p].carrier = FALSE]
    /\ UNCHANGED <<writePos, seq, waiter, read, thr>>

LockEntry(p) ==
    /\ PubAt(p, "lock") /\ ~Locked(PubSeq(p)) /\ PubSeq(p).val = PrevSeq(pub[p].pos)
    /\ PutSeq(p, [tag |-> "lock", val |-> pub[p].pos])
    /\ pub' = [pub EXCEPT ![p].pc = "commit"]
    /\ UNCHANGED <<writePos, waiter, readable, read, thr>>

\* The entry is not ours to lock: self_repair(), then abandon_delivery().
GiveUp(p) ==
    /\ PubAt(p, "lock") /\ ~(~Locked(PubSeq(p)) /\ PubSeq(p).val = PrevSeq(pub[p].pos))
    /\ pub' = [pub EXCEPT ![p].pc = "heal"]
    /\ UNCHANGED <<writePos, seq, waiter, readable, read, thr>>

\* A lock that outlived commit_timeout or an entry more than a wrap behind is
\* committed empty ...
HealSkip(p) ==
    /\ PubAt(p, "heal") /\ (Locked(PubSeq(p)) \/ PubSeq(p).val < PrevSeq(pub[p].pos))
    /\ PutSeq(p, [tag |-> "skip", val |-> pub[p].pos + 1])
    /\ pub' = [pub EXCEPT ![p].pc = "wake"]
    /\ UNCHANGED <<writePos, waiter, readable, read, thr>>

\* ... anything else, a lock of unknown age included, is left alone.
HealLeave(p) ==
    /\ PubAt(p, "heal") /\ (Locked(PubSeq(p)) \/ PubSeq(p).val >= PrevSeq(pub[p].pos))
    /\ pub' = [pub EXCEPT ![p].pc = "wake"]
    /\ UNCHANGED <<writePos, seq, waiter, readable, read, thr>>

\* The commit CAS; it fails when the lock was stolen.
Commit(p) ==
    /\ PubAt(p, "commit")
    /\ IF PubSeq(p) = [tag |-> "lock", val |-> pub[p].pos]
       THEN PutSeq(p, [tag |-> "commit", val |-> pub[p].pos + 1])
       ELSE UNCHANGED seq
    /\ pub' = [pub EXCEPT ![p].pc = "wake"]
    /\ UNCHANGED <<writePos, waiter, readable, read, thr>>

\* wake_ring(): look who is parked.
WakeRing(p) ==
    LET r == pub[p].ring
    IN  /\ PubAt(p, "wake")
        /\ IF waiter[r] = "futex"
           THEN pub' = [pub EXCEPT ![p].pc = "futex"]
           ELSE NextRing(p, pub[p].carrier \/ waiter[r] = "carrier")
        /\ UNCHANGED <<writePos, seq, waiter, readable, read, thr>>

\* futex_wake_all(write_pos)
FutexWake(p) ==
    /\ PubAt(p, "futex")
    /\ thr' = [t \in Threads |-> IF thr[t].pc = "parked" /\ thr[t].ring = pub[p].ring
                                 THEN [thr[t] EXCEPT !.pc = "clear"] ELSE thr[t]]
    /\ NextRing(p, pub[p].carrier)
    /\ UNCHANGED <<writePos, seq, waiter, readable, read>>

\* WakeBackend::signal(): one datagram for every descriptor of the channel.
Signal(p) ==
    /\ PubAt(p, "signal")
    /\ readable' = Threads
    /\ pub' = [pub EXCEPT ![p] = PubIdle(pub[p].num + 1)]
    /\ UNCHANGED <<writePos, seq, waiter, read, thr>>

PubStep(p) ==
    \/ ClaimPos(p) \/ EarlyLook(p) \/ EarlySignal(p) \/ LockEntry(p) \/ GiveUp(p)
    \/ HealSkip(p) \/ HealLeave(p) \/ Commit(p) \/ WakeRing(p) \/ FutexWake(p) \/ Signal(p)

-----------------------------------------------------------------------------
(***************************************************************************)
(* A thread in receive() or receive_view() on one ring.                    *)
(***************************************************************************)
ThrIdle == [pc |-> "idle", ring |-> 1, todo |-> {}, cur |-> 0, again |-> FALSE,
            ready |-> FALSE, capped |-> FALSE, last |-> FALSE]

ThrAt(t, pc) == thr[t].pc = pc

Go(t, pc) == thr' = [thr EXCEPT ![t].pc = pc]

SetWaiter(t, mode) == waiter' = [waiter EXCEPT ![thr[t].ring] = mode]

Receive(t, r) ==
    /\ ThrAt(t, "idle") /\ r \in RingsOf[t]
    /\ thr' = [thr EXCEPT ![t] = [ThrIdle EXCEPT !.pc = "try", !.ring = r]]
    /\ UNCHANGED <<writePos, seq, waiter, readable, read, pub>>

\* Where try_receive() looks: past what the ring has overwritten.
Resync(r) ==
    IF writePos[r] - read[r] > Capacity THEN writePos[r] - Capacity ELSE read[r]

\* An iteration of try_receive()'s loop: a sample, nothing yet, or a position
\* that was lost.
TryReceive(t) ==
    LET r == thr[t].ring
        pos == Resync(r)
        w == seq[r][pos % Capacity]
    IN  /\ ThrAt(t, "try")
        /\ \/ /\ writePos[r] <= read[r]
              /\ Go(t, "none") /\ UNCHANGED read
           \/ /\ writePos[r] > read[r] /\ (Locked(w) \/ w.val < pos + 1)
              /\ Go(t, "none") /\ read' = [read EXCEPT ![r] = pos]
           \/ /\ writePos[r] > read[r] /\ w = [tag |-> "commit", val |-> pos + 1]
              /\ thr' = [thr EXCEPT ![t] = ThrIdle] /\ read' = [read EXCEPT ![r] = pos + 1]
           \/ /\ writePos[r] > read[r] /\ ~Locked(w) /\ w.val >= pos + 1
              /\ w # [tag |-> "commit", val |-> pos + 1]
              /\ read' = [read EXCEPT ![r] = pos + 1] /\ UNCHANGED thr
        /\ UNCHANGED <<writePos, seq, waiter, readable, pub>>

\* The caller's timeout has run out.
ReceiveTimeout(t) ==
    /\ ThrAt(t, "none")
    /\ thr' = [thr EXCEPT ![t] = ThrIdle]
    /\ UNCHANGED <<writePos, seq, waiter, readable, read, pub>>

\* Nothing claimed: park.  A head that is claimed and uncommitted is polled.
LoadCur(t) ==
    LET wp == writePos[thr[t].ring]
    IN  /\ ThrAt(t, "none")
        /\ IF wp <= read[thr[t].ring] THEN thr' = [thr EXCEPT ![t].pc = "mode", ![t].cur = wp]
                                       ELSE Go(t, "try")
        /\ UNCHANGED <<writePos, seq, waiter, readable, read, pub>>

StoreFutex(t) ==
    /\ ThrAt(t, "mode")
    /\ SetWaiter(t, "futex")
    /\ Go(t, "sleep")
    /\ UNCHANGED <<writePos, seq, readable, read, pub>>

\* The low half of the counter is what the kernel compares.
SameWord(wp, cur) == (wp - cur) % FutexSpan = 0

\* futex_wait(): the kernel compares and parks in one step.
FutexWait(t) ==
    /\ ThrAt(t, "sleep")
    /\ Go(t, IF SameWord(writePos[thr[t].ring], thr[t].cur) THEN "parked" ELSE "clear")
    /\ UNCHANGED <<writePos, seq, waiter, readable, read, pub>>

FutexTimeout(t) ==
    /\ ThrAt(t, "parked")
    /\ Go(t, "clear")
    /\ UNCHANGED <<writePos, seq, waiter, readable, read, pub>>

ClearFutex(t) ==
    /\ ThrAt(t, "clear")
    /\ SetWaiter(t, "none")
    /\ thr' = [thr EXCEPT ![t].pc = "try", ![t].cur = 0]
    /\ UNCHANGED <<writePos, seq, readable, read, pub>>

-----------------------------------------------------------------------------
(***************************************************************************)
(* A thread in wait_any() over all its rings.                              *)
(***************************************************************************)
WaitAny(t) ==
    /\ ThrAt(t, "idle") /\ RingsOf[t] # {}
    /\ thr' = [thr EXCEPT ![t] = [ThrIdle EXCEPT !.pc = "arm", !.todo = RingsOf[t]]]
    /\ UNCHANGED <<writePos, seq, waiter, readable, read, pub>>

\* The arming pass is over one ring, with what arm_wait() answered.
Answer(t, ready, capped) ==
    thr' = [thr EXCEPT ![t] = [ThrIdle EXCEPT !.pc = "arm", !.todo = thr[t].todo,
                                              !.ready = thr[t].ready \/ ready,
                                              !.capped = thr[t].capped \/ capped]]
Armed(t)  == Answer(t, FALSE, FALSE)
Ready(t)  == Answer(t, TRUE, FALSE)
Capped(t) == Answer(t, FALSE, TRUE)

\* arm_wait(): sample write_pos before the head is looked at.
ArmCur(t, r) ==
    /\ ThrAt(t, "arm") /\ r \in thr[t].todo
    /\ thr' = [thr EXCEPT ![t].pc = "head", ![t].ring = r, ![t].todo = @ \ {r}, ![t].cur = writePos[r]]
    /\ UNCHANGED <<writePos, seq, waiter, readable, read, pub>>

\* head_state(), its load of write_pos; `again` marks the call after a disarm.
HeadPos(t) ==
    LET r == thr[t].ring
    IN  /\ ThrAt(t, "head")
        /\ \/ /\ writePos[r] <= read[r]
              /\ IF thr[t].again \/ r \notin Attached THEN Armed(t) ELSE Go(t, "carry")
           \/ writePos[r] - read[r] > Capacity /\ Ready(t)
           \/ writePos[r] - read[r] \in 1..Capacity /\ Go(t, "seq")
        /\ UNCHANGED <<writePos, seq, waiter, readable, read, pub>>

\* Its load of the head's sequence: Poll for what try_receive() cannot resolve.
HeadEntry(t) ==
    LET w == HeadSeq(thr[t].ring)
    IN  /\ ThrAt(t, "seq")
        /\ IF Locked(w) \/ w.val < read[thr[t].ring] + 1 THEN Capped(t) ELSE Ready(t)
        /\ UNCHANGED <<writePos, seq, waiter, readable, read, pub>>

StoreCarrier(t) ==
    /\ ThrAt(t, "carry")
    /\ SetWaiter(t, "carrier")
    /\ Go(t, "recheck")
    /\ UNCHANGED <<writePos, seq, readable, read, pub>>

\* Mutant of Recheck: armed once the mode is stored.
RecheckSkipped(t) ==
    /\ ThrAt(t, "recheck")
    /\ Armed(t)
    /\ UNCHANGED <<writePos, seq, waiter, readable, read, pub>>

\* A publish during the setup shows as a moved write_pos.
Recheck(t) ==
    /\ ThrAt(t, "recheck")
    /\ IF writePos[thr[t].ring] = thr[t].cur THEN Armed(t) ELSE Go(t, "unarm")
    /\ UNCHANGED <<writePos, seq, waiter, readable, read, pub>>

Unarm(t) ==
    /\ ThrAt(t, "unarm")
    /\ SetWaiter(t, "none")
    /\ thr' = [thr EXCEPT ![t].pc = "head", ![t].again = TRUE]
    /\ UNCHANGED <<writePos, seq, readable, read, pub>>

\* The pass is complete.  A ready ring, or the caller's deadline, ends the call
\* after the clean-up.
Stop(t) ==
    /\ ThrAt(t, "arm") /\ thr[t].todo = {}
    /\ thr' = [thr EXCEPT ![t] = [ThrIdle EXCEPT !.pc = "disarm", !.todo = RingsOf[t], !.last = TRUE]]
    /\ UNCHANGED <<writePos, seq, waiter, readable, read, pub>>

Covered(t) == RingsOf[t] \subseteq Attached

\* Some ring may get its message without any wake: wait poll_cap at most.
Naps(t) == thr[t].capped \/ ~Covered(t)

Block(t) ==
    /\ ThrAt(t, "arm") /\ thr[t].todo = {} /\ ~thr[t].ready
    /\ Go(t, IF Naps(t) THEN "nap" ELSE "poll")
    /\ UNCHANGED <<writePos, seq, waiter, readable, read, pub>>

Unblock(t) == thr' = [thr EXCEPT ![t] = [ThrIdle EXCEPT !.pc = "disarm", !.todo = RingsOf[t]]]

\* The descriptor is readable, or poll_cap is over.
NapEnds(t) ==
    /\ ThrAt(t, "nap")
    /\ Unblock(t)
    /\ UNCHANGED <<writePos, seq, waiter, readable, read, pub>>

\* Mutant of PollEnds: the Waker's descriptor never made it into the set.
PollUnwatched(t) ==
    /\ ThrAt(t, "poll") /\ t \in readable /\ RingsOf[t] \cap Attached = {}
    /\ Unblock(t)
    /\ UNCHANGED <<writePos, seq, waiter, readable, read, pub>>

PollEnds(t) ==
    /\ ThrAt(t, "poll") /\ t \in readable
    /\ Unblock(t)
    /\ UNCHANGED <<writePos, seq, waiter, readable, read, pub>>

PollTimeout(t) ==
    /\ ThrAt(t, "poll")
    /\ Unblock(t)
    /\ UNCHANGED <<writePos, seq, waiter, readable, read, pub>>

Disarm(t, r) ==
    /\ ThrAt(t, "disarm") /\ r \in thr[t].todo
    /\ waiter' = [waiter EXCEPT ![r] = "none"]
    /\ thr' = [thr EXCEPT ![t].todo = @ \ {r}]
    /\ UNCHANGED <<writePos, seq, readable, read, pub>>

\* Consume the pending wakes, then return or start over.
Drain(t) ==
    /\ ThrAt(t, "disarm") /\ thr[t].todo = {}
    /\ readable' = readable \ {t}
    /\ thr' = [thr EXCEPT ![t] = IF @.last THEN ThrIdle
                                 ELSE [ThrIdle EXCEPT !.pc = "arm", !.todo = RingsOf[t]]]
    /\ UNCHANGED <<writePos, seq, waiter, read, pub>>

\* What a thread does without being made to wait by anybody.
ThrStep(t) ==
    \/ TryReceive(t) \/ LoadCur(t) \/ StoreFutex(t) \/ FutexWait(t) \/ ClearFutex(t)
    \/ (\E r \in Rings : ArmCur(t, r) \/ Disarm(t, r))
    \/ HeadPos(t) \/ HeadEntry(t) \/ StoreCarrier(t) \/ Recheck(t) \/ Unarm(t)
    \/ (thr[t].ready /\ Stop(t)) \/ Block(t) \/ NapEnds(t) \/ PollEnds(t) \/ Drain(t)

ThrNext(t) ==
    \/ (\E r \in Rings : Receive(t, r)) \/ WaitAny(t)
    \/ ThrStep(t) \/ ReceiveTimeout(t) \/ FutexTimeout(t) \/ PollTimeout(t) \/ Stop(t)

-----------------------------------------------------------------------------
Init ==
    /\ writePos = [r \in Rings |-> 0]
    /\ seq = [r \in Rings |-> [i \in Index |-> [tag |-> "commit", val |-> 0]]]
    /\ waiter = [r \in Rings |-> "none"]
    /\ readable = {}
    /\ read = [r \in Rings |-> 0]
    /\ pub = [p \in Pubs |-> PubIdle(0)]
    /\ thr = [t \in Threads |-> ThrIdle]

Next ==
    \/ \E p \in Pubs : Publish(p) \/ PubStep(p)
    \/ \E t \in Threads : ThrNext(t)

Spec == Init /\ [][Next]_vars

\* Publishers inside publish() and threads that are not asleep keep running, and
\* a nap ends; no timeout of a caller is relied on.
Fairness ==
    /\ \A p \in Pubs : WF_vars(PubStep(p))
    /\ \A t \in Threads : WF_vars(ThrStep(t))

FairSpec == Spec /\ Fairness

-----------------------------------------------------------------------------
PubPCs == {"idle", "claim", "look", "early", "lock", "heal", "commit", "wake", "futex", "signal"}
ThrPCs == {"idle", "try", "none", "mode", "sleep", "parked", "clear", "arm", "head", "seq",
           "carry", "recheck", "unarm", "nap", "poll", "disarm"}

\* Every variable holds a value of its type.
TypeOK ==
    /\ writePos \in [Rings -> Nat]
    /\ seq \in [Rings -> [Index -> Word]]
    /\ waiter \in [Rings -> {"none", "futex", "carrier"}]
    /\ readable \in SUBSET Threads
    /\ read \in [Rings -> Nat]
    /\ pub \in [Pubs -> [pc : PubPCs, num : Nat, ring : Rings, pos : Nat, carrier : BOOLEAN]]
    /\ thr \in [Threads -> [pc : ThrPCs, ring : Rings, todo : SUBSET Rings, cur : Nat, again : BOOLEAN,
                            ready : BOOLEAN, capped : BOOLEAN, last : BOOLEAN]]

\* Thread t is asleep until somebody wakes it for ring r.
SleepsOn(t, r) ==
    /\ r \in RingsOf[t]
    /\ \/ thr[t].pc = "parked" /\ thr[t].ring = r
       \/ thr[t].pc = "poll"

\* A publisher between its claim on ring r and its look at has_waiter, or its
\* wake.
DeliverPCs == {"look", "early", "lock", "heal", "commit", "wake", "futex"}
Delivering(r) == {p \in Pubs : pub[p].ring = r /\ pub[p].pc \in DeliverPCs}

\* A publisher that has yet to send the datagram.
Signalling == {p \in Pubs : pub[p].carrier}

\* No lost wake: a thread sleeps on a ring in which a position is claimed past
\* its own only as long as its wake is under way, in the hands of a publisher
\* or already at its descriptor.
SleeperIsOwed ==
    \A t \in Threads : \A r \in Rings :
        SleepsOn(t, r) /\ writePos[r] > read[r] =>
            \/ Delivering(r) # {}
            \/ thr[t].pc = "poll" /\ (Signalling # {} \/ t \in readable)

\* A thread asleep on a ring that gets a message is woken, timeout or not.
SleeperWakes ==
    \A t \in Threads : \A r \in Rings :
        SleepsOn(t, r) /\ writePos[r] > read[r] ~> ~SleepsOn(t, r)
=============================================================================
