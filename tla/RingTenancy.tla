---------------------------- MODULE RingTenancy ----------------------------
(***************************************************************************)
(* Who owns one subscriber ring: the packed state_flight word and the      *)
(* owner fields, under subscribers that join and leave, publishers that    *)
(* are admitted, and reclaim_dead_rings() run by several reclaimers, any   *)
(* of which may crash.  Every access to a shared word is one step, except  *)
(* that clear_owner() is one.                                              *)
(***************************************************************************)
EXTENDS Integers, FiniteSets

CONSTANTS
    Subs,        \* subscriber processes
    Pubs,        \* publisher processes
    Reclaimers,  \* processes that call reclaim_dead_rings
    NoOwner,     \* owner_pid = 0
    Casts,       \* the sets of processes that may take part together
    MaxJoins,    \* bound: subscriptions per subscriber
    MaxGone      \* bound: processes that crashed or do not take part

Procs == Subs \cup Pubs \cup Reclaimers

ASSUME TenancyAssumption ==
    /\ IsFiniteSet(Procs)
    /\ Subs \cap Pubs = {} /\ Subs \cap Reclaimers = {} /\ Pubs \cap Reclaimers = {}
    /\ NoOwner \notin Procs
    /\ Casts \subseteq SUBSET Procs
    /\ {MaxJoins, MaxGone} \subseteq Nat

VARIABLES
    state,     \* state_flight: the state bits
    flight,    \* state_flight: in_flight
    owner,     \* owner_pid: a process, never reused
    start,     \* owner_starttime: the process it belongs to
    sub,       \* per subscriber: where it is in its constructor or destructor
    joins,     \* per subscriber: subscriptions so far
    admitted,  \* publishers between the admission CAS and the decrement
    rec,       \* per reclaimer: the locals of its current call
    alive      \* the processes that take part and have not crashed

vars == <<state, flight, owner, start, sub, joins, admitted, rec, alive>>

States == {"Free", "Live", "Draining", "Reclaiming"}

RecIdle == [pc |-> "idle", seen |-> "Free", pid |-> NoOwner, count |-> 0]

Init ==
    /\ state = "Free" /\ flight = 0 /\ owner = NoOwner /\ start = NoOwner
    /\ sub = [u \in Subs |-> "out"]
    /\ joins = [u \in Subs |-> 0]
    /\ admitted = {}
    /\ rec = [q \in Reclaimers |-> RecIdle]
    /\ alive \in Casts

-----------------------------------------------------------------------------
(***************************************************************************)
(* Subscriber: constructor and release_ring().                             *)
(***************************************************************************)
SubAt(u, pc) == u \in alive /\ sub[u] = pc

Goto(u, pc) == sub' = [sub EXCEPT ![u] = pc]

Claim(u) ==
    /\ SubAt(u, "out") /\ joins[u] < MaxJoins
    /\ state = "Free" /\ flight = 0
    /\ state' = "Live"
    /\ Goto(u, "own")
    /\ joins' = [joins EXCEPT ![u] = @ + 1]
    /\ UNCHANGED <<flight, owner, start, admitted, rec, alive>>

\* owner_starttime is stored first, then owner_pid.
Stamp(u) ==
    /\ SubAt(u, "own")
    /\ start' = u
    /\ Goto(u, "name")
    /\ UNCHANGED <<state, flight, owner, joins, admitted, rec, alive>>

Own(u) ==
    /\ SubAt(u, "name")
    /\ owner' = u
    /\ Goto(u, "live")
    /\ UNCHANGED <<state, flight, start, joins, admitted, rec, alive>>

\* CAS to Draining from whatever state the word is in.
Leave(u) ==
    /\ SubAt(u, "live")
    /\ state' = "Draining"
    /\ Goto(u, "quiesce")
    /\ UNCHANGED <<flight, owner, start, joins, admitted, rec, alive>>

\* in_flight reached zero, or commit_timeout ran out first.
Quiesce(u) ==
    /\ SubAt(u, "quiesce")
    /\ Goto(u, IF flight = 0 THEN "clearQuiet" ELSE "clearBusy")
    /\ UNCHANGED <<state, flight, owner, start, joins, admitted, rec, alive>>

ClearOwner(u) ==
    /\ SubAt(u, "clearQuiet") \/ SubAt(u, "clearBusy")
    /\ owner' = NoOwner /\ start' = NoOwner
    /\ Goto(u, IF sub[u] = "clearQuiet" THEN "free" ELSE "retire")
    /\ UNCHANGED <<state, flight, joins, admitted, rec, alive>>

\* The drained ring is handed over: one store of Free with in_flight = 0.
FreeRing(u) ==
    /\ SubAt(u, "free")
    /\ state' = "Free" /\ flight' = 0
    /\ Goto(u, "out")
    /\ UNCHANGED <<owner, start, joins, admitted, rec, alive>>

\* Timed out: the state bits only.
Retire(u) ==
    /\ SubAt(u, "retire")
    /\ state' = "Free"
    /\ Goto(u, "out")
    /\ UNCHANGED <<flight, owner, start, joins, admitted, rec, alive>>

-----------------------------------------------------------------------------
Admit(p) ==
    /\ p \in alive \ admitted /\ state = "Live"
    /\ flight' = flight + 1
    /\ admitted' = admitted \cup {p}
    /\ UNCHANGED <<state, owner, start, sub, joins, rec, alive>>

Depart(p) ==
    /\ p \in admitted \cap alive
    /\ flight' = flight - 1
    /\ admitted' = admitted \ {p}
    /\ UNCHANGED <<state, owner, start, sub, joins, rec, alive>>

\* reset_retired_rings(): the admitted publishers are known to be dead.
ResetRetired ==
    /\ state = "Free" /\ flight > 0
    /\ admitted \cap alive = {}
    /\ owner' = NoOwner /\ start' = NoOwner /\ flight' = 0
    /\ admitted' = {}
    /\ UNCHANGED <<state, sub, joins, rec, alive>>

-----------------------------------------------------------------------------
(***************************************************************************)
(* reclaim_dead_rings() on this ring.                                      *)
(***************************************************************************)
\* Mutant of LooksDead: whoever is named is taken for dead.
LooksNamed(pid) == pid # NoOwner

\* ring_owner_dead(): the pid was loaded first.  By now its process is gone, or
\* the start time it is compared with is somebody else's.
LooksDead(pid) == pid # NoOwner /\ (pid \notin alive \/ start \notin {pid, NoOwner})

RecAt(q, pc) == q \in alive /\ rec[q].pc = pc

Step(q, pc) == rec' = [rec EXCEPT ![q].pc = pc]
Done(q) == rec' = [rec EXCEPT ![q] = RecIdle]

\* Mutant of Look: a ring left in Reclaiming is passed over.
LookHeld(q) ==
    /\ RecAt(q, "idle")
    /\ state \in {"Live", "Draining"}
    /\ rec' = [rec EXCEPT ![q] = [@ EXCEPT !.pc = "pid", !.seen = state]]
    /\ UNCHANGED <<state, flight, owner, start, sub, joins, admitted, alive>>

\* Load the word: only a ring someone holds can have a dead owner.
Look(q) ==
    /\ RecAt(q, "idle")
    /\ state # "Free"
    /\ rec' = [rec EXCEPT ![q] = [@ EXCEPT !.pc = "pid", !.seen = state]]
    /\ UNCHANGED <<state, flight, owner, start, sub, joins, admitted, alive>>

\* Load owner_pid, for the first look and for the one under Reclaiming.
LoadPid(q) ==
    /\ RecAt(q, "pid") \/ RecAt(q, "repid")
    /\ rec' = [rec EXCEPT ![q] = [@ EXCEPT !.pid = owner, !.pc = IF RecAt(q, "pid") THEN "dead?" ELSE "verify"]]
    /\ UNCHANGED <<state, flight, owner, start, sub, joins, admitted, alive>>

AskDead(q) ==
    /\ RecAt(q, "dead?")
    /\ IF LooksDead(rec[q].pid) THEN Step(q, "fresh") ELSE Done(q)
    /\ UNCHANGED <<state, flight, owner, start, sub, joins, admitted, alive>>

\* Load the word again; the state must not have moved.
Fresh(q) ==
    /\ RecAt(q, "fresh")
    /\ IF state = rec[q].seen
       THEN rec' = [rec EXCEPT ![q] = [@ EXCEPT !.pc = "claim", !.count = flight]]
       ELSE Done(q)
    /\ UNCHANGED <<state, flight, owner, start, sub, joins, admitted, alive>>

\* One CAS attempt from that word.
ClaimDead(q) ==
    /\ RecAt(q, "claim")
    /\ IF state = rec[q].seen /\ flight = rec[q].count
       THEN state' = "Reclaiming" /\ Step(q, "repid")
       ELSE UNCHANGED state /\ Done(q)
    /\ UNCHANGED <<flight, owner, start, sub, joins, admitted, alive>>

\* Is the owner still a dead one?
Verify(q) ==
    /\ RecAt(q, "verify")
    /\ Step(q, IF LooksDead(rec[q].pid) THEN "retract" ELSE "restore")
    /\ UNCHANGED <<state, flight, owner, start, sub, joins, admitted, alive>>

Retract(q) ==
    /\ RecAt(q, "retract")
    /\ owner' = NoOwner /\ start' = NoOwner
    /\ Step(q, "release")
    /\ UNCHANGED <<state, flight, sub, joins, admitted, alive>>

\* Mutant of Release: start the ring from zero admissions.
ReleaseZeroed(q) ==
    /\ RecAt(q, "release")
    /\ state' = IF state = "Reclaiming" THEN "Free" ELSE state
    /\ flight' = 0
    /\ Done(q)
    /\ UNCHANGED <<owner, start, sub, joins, admitted, alive>>

\* CAS to Free while the word still says Reclaiming, preserving in_flight.
Release(q) ==
    /\ RecAt(q, "release")
    /\ state' = IF state = "Reclaiming" THEN "Free" ELSE state
    /\ Done(q)
    /\ UNCHANGED <<flight, owner, start, sub, joins, admitted, alive>>

\* A live owner was displaced: give its state back, while still Reclaiming.
Restore(q) ==
    /\ RecAt(q, "restore")
    /\ state' = IF state = "Reclaiming" THEN rec[q].seen ELSE state
    /\ Done(q)
    /\ UNCHANGED <<flight, owner, start, sub, joins, admitted, alive>>

Crash(x) ==
    /\ x \in alive /\ Cardinality(Procs \ alive) < MaxGone
    /\ \/ x \in Subs
       \/ x \in admitted
       \/ x \in Reclaimers /\ rec[x].pc # "idle"
    /\ alive' = alive \ {x}
    /\ UNCHANGED <<state, flight, owner, start, sub, joins, admitted, rec>>

SubNext(u) == Claim(u) \/ Stamp(u) \/ Own(u) \/ Leave(u) \/ Quiesce(u) \/ ClearOwner(u) \/ FreeRing(u) \/ Retire(u)
RecStep(q) == LoadPid(q) \/ AskDead(q) \/ Fresh(q) \/ ClaimDead(q) \/ Verify(q) \/ Retract(q) \/ Release(q) \/ Restore(q)

Next ==
    \/ \E u \in Subs : SubNext(u)
    \/ \E p \in Pubs : Admit(p) \/ Depart(p)
    \/ \E q \in Reclaimers : Look(q) \/ RecStep(q)
    \/ \E x \in Procs : Crash(x)
    \/ ResetRetired

\* Publishers finish what they were admitted for, and reclaim_dead_rings is
\* called again and again (it "can run on a timer").
Fairness ==
    /\ \A u \in Subs : WF_vars(Stamp(u) \/ Own(u) \/ Quiesce(u) \/ ClearOwner(u) \/ FreeRing(u) \/ Retire(u))
    /\ \A p \in Pubs : WF_vars(Depart(p))
    /\ \A q \in Reclaimers : WF_vars(Look(q)) /\ WF_vars(RecStep(q))

Spec == Init /\ [][Next]_vars
FairSpec == Spec /\ Fairness
-----------------------------------------------------------------------------
SubPCs == {"out", "own", "name", "live", "quiesce", "clearQuiet", "clearBusy", "free", "retire"}
RecPCs == {"idle", "pid", "repid", "dead?", "fresh", "claim", "verify", "retract", "release", "restore"}

\* Every variable holds a value of its type.
TypeOK ==
    /\ state \in States /\ flight \in Nat /\ {owner, start} \subseteq Subs \cup {NoOwner}
    /\ sub \in [Subs -> SubPCs] /\ joins \in [Subs -> Nat]
    /\ admitted \in SUBSET Pubs
    /\ rec \in [Reclaimers -> [pc : RecPCs, seen : States, pid : Subs \cup {NoOwner}, count : Nat]]
    /\ alive \in SUBSET Procs

Tenants == {u \in Subs \cap alive : sub[u] # "out"}

\* Two live subscribers never hold the ring at once, whatever is reclaimed,
\* restored or retired in between.
SoleTenant == Cardinality(Tenants) <= 1

\* in_flight is exact, so no decrement borrows from the state bits.
FlightExact == flight = Cardinality(admitted)

\* Nobody is left to call reclaim_dead_rings().
NoCaller == Reclaimers \cap alive = {}

\* The owner's name was erased and the ring is still held, with nobody about to
\* free it: no later call will take it for a dead owner's.
Lost ==
    /\ state # "Free" /\ owner = NoOwner
    /\ \A q \in Reclaimers \cap alive : rec[q].pc # "release"

\* A ring whose owner died while no reclaim was under way becomes Free again,
\* through whatever passes of reclaim_dead_rings() start, overtake each other and
\* die from then on, unless one of them erased the owner's name and then did not
\* free the ring, or publishers enter the ring for ever: each admission fails the
\* one CAS of a pass.  (A pass already under way may hold a verdict about an
\* earlier owner.)
DeadRingIsReleased ==
    \/ \A u \in Subs :
           owner = u /\ u \notin alive /\ (\A q \in Reclaimers : rec[q].pc = "idle")
               ~> state = "Free" \/ Lost \/ NoCaller
    \/ []<><<\E p \in Pubs : Admit(p)>>_vars
=============================================================================
