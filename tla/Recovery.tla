------------------------------ MODULE Recovery ------------------------------
(***************************************************************************)
(* The recovery primitives of kickmsg::SharedRegion that run beside a      *)
(* channel's traffic, and the crashes they recover from.                   *)
(***************************************************************************)
EXTENDS ChannelState

Candidate == [ring : Rings, pos : Nat, seq : SeqWord]

GcPCs == {"idle", "ring", "entry", "steal", "skip", "grace", "graceSkip"}

GcType == [pc : GcPCs, passes : Nat, ring : Rings, wp : Nat, pos : Nat, obs : SeqWord,
           locked : Seq(Candidate)]

GcIdle(n) == [pc |-> "idle", passes |-> n, ring |-> 1, wp |-> 0, pos |-> 0, obs |-> SeqZero,
              locked |-> <<>>]

GcSeq == At(seq, gc.ring, gc.pos)

\* Stand at the next entry of the scan, the next ring, or the grace pass.
ScanFrom(rec) ==
    IF rec.pos < rec.wp THEN [rec EXCEPT !.pc = "entry", !.obs = SeqZero]
    ELSE IF rec.ring < MaxSubs
         THEN [GcIdle(rec.passes) EXCEPT !.pc = "ring", !.ring = rec.ring + 1, !.locked = rec.locked]
    ELSE IF rec.locked = <<>> THEN GcIdle(rec.passes)
         ELSE [GcIdle(rec.passes) EXCEPT !.pc = "grace", !.locked = rec.locked]

GraceFrom(rest) ==
    IF rest = <<>> THEN GcIdle(gc.passes)
    ELSE [GcIdle(gc.passes) EXCEPT !.pc = "grace", !.locked = rest]

-----------------------------------------------------------------------------
(***************************************************************************)
(* repair_locked_entries()                                                 *)
(***************************************************************************)
\* The window of live positions of a ring, from one load of write_pos.
Window(rec) ==
    LET wp == writePos[rec.ring]
    IN  ScanFrom([rec EXCEPT !.wp = wp, !.pos = IF wp > Capacity THEN wp - Capacity ELSE 0])

RepairStart ==
    /\ gc.pc = "idle" /\ gc.passes < MaxRepairs
    /\ gc' = Window(GcIdle(gc.passes + 1))
    /\ UNCHANGED <<ringVars, entryVars, slotVars, pub, subVars, alive, ghostVars>>

RepairRing ==
    /\ gc.pc = "ring"
    /\ gc' = Window(gc)
    /\ UNCHANGED <<ringVars, entryVars, slotVars, pub, subVars, alive, ghostVars>>

\* A locked entry waits for the grace pass; one committed more than a wrap
\* behind is stolen at once.
RepairLook ==
    LET w == GcSeq
        next == [gc EXCEPT !.pos = @ + 1]
    IN  /\ gc.pc = "entry"
        /\ gc' = CASE IsLocked(w) ->
                        ScanFrom([next EXCEPT !.locked =
                                     Append(@, [ring |-> gc.ring, pos |-> gc.pos, seq |-> w])])
                   [] ~IsLocked(w) /\ w.val + Capacity < gc.pos + 1 ->
                        [gc EXCEPT !.pc = "steal", !.obs = w]
                   [] OTHER -> ScanFrom(next)
        /\ UNCHANGED <<ringVars, entryVars, slotVars, pub, subVars, alive, ghostVars>>

RepairSteal ==
    /\ gc.pc = "steal"
    /\ IF GcSeq = gc.obs
       THEN /\ seq' = Put(seq, gc.ring, gc.pos, SeqRepair(gc.pos))
            /\ gc' = [gc EXCEPT !.pc = "skip"]
       ELSE /\ UNCHANGED seq
            /\ gc' = ScanFrom([gc EXCEPT !.pos = @ + 1])
    /\ UNCHANGED <<ringVars, meta, slotVars, pub, subVars, alive, ghostVars>>

RepairSkip ==
    /\ gc.pc = "skip"
    /\ seq' = Put(seq, gc.ring, gc.pos, SeqSkip(gc.pos))
    /\ gc' = ScanFrom([gc EXCEPT !.pos = @ + 1])
    /\ UNCHANGED <<ringVars, meta, slotVars, pub, subVars, alive, ghostVars>>

\* After the commit_timeout sleep: the same lock value proves a stale holder.
RepairGrace ==
    LET c == Head(gc.locked)
    IN  /\ gc.pc = "grace"
        /\ SlowRepair \/ ~StealUnderWay(c.ring, c.pos)
        /\ IF At(seq, c.ring, c.pos) = c.seq
           THEN /\ seq' = Put(seq, c.ring, c.pos, SeqRepair(c.pos))
                /\ gc' = [gc EXCEPT !.pc = "graceSkip", !.ring = c.ring, !.pos = c.pos]
           ELSE /\ UNCHANGED seq
                /\ gc' = GraceFrom(Tail(gc.locked))
        /\ UNCHANGED <<ringVars, meta, slotVars, pub, subVars, alive, ghostVars>>

RepairGraceSkip ==
    /\ gc.pc = "graceSkip"
    /\ seq' = Put(seq, gc.ring, gc.pos, SeqSkip(gc.pos))
    /\ gc' = GraceFrom(Tail(gc.locked))
    /\ UNCHANGED <<ringVars, meta, slotVars, pub, subVars, alive, ghostVars>>

GcStep == RepairRing \/ RepairLook \/ RepairSteal \/ RepairSkip \/ RepairGrace \/ RepairGraceSkip

-----------------------------------------------------------------------------
Dead == (Pubs \cup Subs) \ alive

\* Between its admission CAS and its in_flight decrement.
Admitted(r) ==
    {p \in Pubs : /\ pub[p].ring = r
                  /\ pub[p].pc \notin {"idle", "reserved", "ring", "finish", "recycle"}}

(***************************************************************************)
(* reset_retired_rings(), one ring.  Its contract: the publishers counted  *)
(* in in_flight are confirmed dead.                                        *)
(***************************************************************************)
ResetRetiredRing(r) ==
    /\ state[r] = "Free" /\ flight[r] > 0
    /\ Admitted(r) \cap alive = {}
    /\ flight' = [flight EXCEPT ![r] = 0]
    /\ owner' = [owner EXCEPT ![r] = NoOwner]
    /\ unadmitted' = unadmitted \cup Admitted(r)
    /\ UNCHANGED <<state, writePos, entryVars, slotVars, pub, subVars, gc, alive,
                   sent, since, stranded, settled>>

\* Mutant of FreedFlight: a reclaimed ring starts from zero admissions.
FlightZeroed(r) == [flight EXCEPT ![r] = 0]

\* The admissions of a reclaimed ring are preserved.
FreedFlight(r) == flight

(***************************************************************************)
(* reclaim_dead_rings() on one ring, run by a single reclaimer and without *)
(* interruption; RingTenancy has its steps.                                *)
(***************************************************************************)
ReclaimDeadRing(r) ==
    /\ state[r] \in {"Live", "Draining"}
    /\ owner[r] \in Dead
    /\ state' = [state EXCEPT ![r] = "Free"]
    /\ owner' = [owner EXCEPT ![r] = NoOwner]
    /\ flight' = FreedFlight(r)
    /\ stranded' = stranded \cup {r}
    /\ UNCHANGED <<writePos, entryVars, slotVars, pub, subVars, gc, alive,
                   sent, since, settled, unadmitted>>

\* The entries that hold a reference on slot s.
Claims(s) == {x \in Rings \X Index : meta[x[1]][x[2]].slot = s}

\* Mutant of Orphans: only slots whose count leaked are recovered.
LeakedCounts == {s \in Slots : Claims(s) = {} /\ refcount[s] > 0}

\* Off the stack or already on it, a slot no entry claims belongs on it.
Orphans == {s \in Slots : Claims(s) = {}}

\* Mutant of TrueCount: a claimed slot keeps the count it has.
CountKept(s) == refcount[s]

TrueCount(s) == IF s \in free THEN refcount[s] ELSE Cardinality(Claims(s))

(***************************************************************************)
(* reclaim_orphaned_slots().  Its contract is full quiescence: publishers  *)
(* paused, no sample view outstanding, no subscriber inside a call.        *)
(***************************************************************************)
ReclaimOrphanedSlots ==
    /\ Dead \ settled # {}
    /\ \A p \in Pubs \cap alive : pub[p].pc = "idle"
    /\ \A u \in Subs \cap alive :
          sub[u].pc \in {"out", "ready"} /\ views[u] = {} /\ pushing[u] = {}
    /\ refcount' = [s \in Slots |-> TrueCount(s)]
    /\ free' = free \cup Orphans
    /\ settled' = Dead
    /\ UNCHANGED <<ringVars, entryVars, payload, pub, subVars, gc, alive,
                   sent, since, stranded, unadmitted>>

-----------------------------------------------------------------------------
Crashes == Cardinality(Dead)

CrashPub(p) ==
    /\ p \in alive /\ pub[p].pc # "idle" /\ Crashes < MaxCrashes
    /\ alive' = alive \ {p}
    /\ UNCHANGED <<ringVars, entryVars, slotVars, pub, subVars, gc, ghostVars>>

CrashSub(u) ==
    /\ u \in alive /\ (sub[u].pc # "out" \/ views[u] # {}) /\ Crashes < MaxCrashes
    /\ alive' = alive \ {u}
    /\ UNCHANGED <<ringVars, entryVars, slotVars, pub, subVars, gc, ghostVars>>

\* A repairer that dies leaves at most its repair lock behind.
CrashRepairer ==
    /\ gc.pc # "idle" /\ MaxCrashes > 0
    /\ gc' = GcIdle(gc.passes)
    /\ UNCHANGED <<ringVars, entryVars, slotVars, pub, subVars, alive, ghostVars>>
=============================================================================
