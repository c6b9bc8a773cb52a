------------------------- MODULE RingTenancyProofs -------------------------
(***************************************************************************)
(* With one process calling reclaim_dead_rings() a ring never has two live *)
(* tenants, whoever crashes, however many subscribers and publishers there *)
(* are and however torn the reclaimer's look at the owner is.  (With two   *)
(* reclaimers it may: see the run tenancy_two_reclaimers.)                 *)
(***************************************************************************)
EXTENDS RingTenancy, FiniteSetTheorems, TLAPS

\* At most one process is there to call reclaim_dead_rings().
OneReclaimer == \A q1, q2 \in Reclaimers \cap alive : q1 = q2

\* The tenancy of a live subscriber: which state its ring is in.
Serving    == {"own", "name", "live"}
Tearing    == {"quiesce", "clearQuiet", "clearBusy", "free", "retire"}
Attributed == {"live", "quiesce", "clearQuiet", "clearBusy"}

StateFollowsTenant ==
    \A u \in Tenants : /\ sub[u] \in Serving => state \in {"Live", "Reclaiming"}
                       /\ sub[u] \in Tearing => state \in {"Draining", "Reclaiming"}

TenantsAgree == \A u, v \in Tenants : u = v

\* The start time next to a name being written is the tenant's, or was erased.
StampIsOwn == \A u \in Tenants : sub[u] = "name" => start \in {u, NoOwner}

\* Whoever is recorded as the owner is the tenant, or was when it died.
OwnerHolds ==
    owner # NoOwner => /\ state # "Free"
                       /\ start \in {owner, NoOwner}
                       /\ Tenants \subseteq {owner}
                       /\ sub[owner] \in Attributed

\* A subscriber that saw the ring quiet is alone with it.
QuietIsEmpty == \A u \in Tenants : sub[u] \in {"clearQuiet", "free"} => admitted = {}

\* The state a reclaimer will restore is one the tenant may have.
SeenFits(q) ==
    \A u \in Tenants : /\ sub[u] \in Serving => rec[q].seen \in {"Live", "Reclaiming"}
                       /\ sub[u] \in Tearing => rec[q].seen \in {"Draining", "Reclaiming"}

\* While the ring is Reclaiming nobody new can come: what a live reclaimer reads
\* of the owner is coherent, and a verdict of death means an empty ring.
ReclaimerIsRight ==
    \A q \in Reclaimers \cap alive :
        /\ rec[q].pc # "idle" => rec[q].seen # "Free"
        /\ state = "Reclaiming" =>
            /\ rec[q].pc \in {"repid", "verify", "restore"} => SeenFits(q)
            /\ rec[q].pc = "verify" => \/ rec[q].pid = NoOwner
                                       \/ Tenants \subseteq {rec[q].pid} /\ start \in {rec[q].pid, NoOwner}
            /\ rec[q].pc \in {"retract", "release"} => Tenants = {}
            /\ rec[q].pc = "release" => owner = NoOwner

TenancyInv ==
    /\ TypeOK /\ FlightExact
    /\ StateFollowsTenant /\ TenantsAgree /\ StampIsOwn /\ OwnerHolds /\ QuietIsEmpty
    /\ ReclaimerIsRight

-----------------------------------------------------------------------------
\* The counter's changes match those of the set it counts.
LEMMA AdmittedCount ==
    ASSUME TypeOK, FlightExact
    PROVE  /\ IsFiniteSet(admitted)
           /\ flight \in Nat
           /\ \A p \in Pubs \ admitted : Cardinality(admitted \cup {p}) = flight + 1
           /\ \A p \in admitted : Cardinality(admitted \ {p}) = flight - 1
           /\ flight = 0 => admitted = {}
           /\ admitted = {} => flight = 0
<1>1. IsFiniteSet(admitted)
    BY TenancyAssumption, FS_Subset DEF TypeOK, Procs
<1> QED
    BY <1>1, FS_AddElement, FS_RemoveElement, FS_EmptySet, FS_CardinalityType DEF TypeOK, FlightExact

\* A free ring satisfies the invariant.
LEMMA InitTenancy == Init => TenancyInv
<1> SUFFICES ASSUME Init PROVE TenancyInv
    OBVIOUS
<1>1. TypeOK
    BY TenancyAssumption DEF Init, TypeOK, SubPCs, RecPCs, States, RecIdle, Procs
<1>2. FlightExact
    BY FS_EmptySet DEF Init, FlightExact
<1>3. Tenants = {}
    BY DEF Init, Tenants
<1>4. OwnerHolds /\ ReclaimerIsRight
    BY DEF Init, OwnerHolds, ReclaimerIsRight, RecIdle
<1> QED
    BY <1>1, <1>2, <1>3, <1>4 DEF TenancyInv, StateFollowsTenant, TenantsAgree, StampIsOwn, QuietIsEmpty

\* A subscriber's step, given what it does to the counted set.
LEMMA SubPreserves ==
    ASSUME TenancyInv, NEW u \in Subs, SubNext(u)
    PROVE  TenancyInv'
<1> USE DEF TenancyInv, SubAt, Goto
<1>0. /\ flight \in Nat
      /\ flight = 0 <=> admitted = {}
    BY AdmittedCount
<1>t. TypeOK'
    BY TenancyAssumption DEF TypeOK, SubPCs, States, SubNext, Claim, Stamp, Own, Leave, Quiesce,
        ClearOwner, FreeRing, Retire
<1>f. FlightExact'
    BY <1>0, FS_EmptySet DEF FlightExact, SubNext, Claim, Stamp, Own, Leave, Quiesce,
        ClearOwner, FreeRing, Retire, QuietIsEmpty, Tenants
<1>n. u # NoOwner
    BY TenancyAssumption DEF Procs
<1> USE DEF TypeOK, SubPCs, Tenants, Serving, Tearing, Attributed
<1>1. CASE Claim(u)
    <2>1. Tenants' = {u} /\ Tenants = {}
        BY <1>1 DEF Claim, StateFollowsTenant
    <2>2. StateFollowsTenant' /\ TenantsAgree' /\ StampIsOwn' /\ QuietIsEmpty'
        BY <1>1, <2>1 DEF Claim, StateFollowsTenant, TenantsAgree, StampIsOwn, QuietIsEmpty
    <2>3. OwnerHolds' /\ ReclaimerIsRight'
        BY <1>1, <2>1 DEF Claim, OwnerHolds, ReclaimerIsRight, SeenFits
    <2> QED
        BY <1>t, <1>f, <2>2, <2>3
<1>2. CASE Stamp(u) \/ Own(u)
    <2>1. Tenants' = {u} /\ Tenants = {u}
        BY <1>2 DEF Stamp, Own, TenantsAgree
    <2>2. /\ state # "Free" /\ state' = state /\ owner = NoOwner
          /\ sub[u] \in Serving /\ sub'[u] \in Serving
          /\ \A v \in Subs \ {u} : sub'[v] = sub[v]
        BY <1>2, <2>1 DEF Stamp, Own, StateFollowsTenant, OwnerHolds
    <2>3. StateFollowsTenant' /\ TenantsAgree' /\ QuietIsEmpty'
        BY <2>1, <2>2 DEF StateFollowsTenant, TenantsAgree, QuietIsEmpty
    <2>4. StampIsOwn' /\ OwnerHolds'
        BY <1>2, <1>n, <2>1, <2>2 DEF Stamp, Own, StampIsOwn, OwnerHolds
    <2>5. ReclaimerIsRight'
        BY <1>2, <2>1, <2>2 DEF Stamp, Own, ReclaimerIsRight, SeenFits
    <2> QED
        BY <1>t, <1>f, <2>3, <2>4, <2>5
<1>3. CASE Leave(u)
    <2>1. Tenants' = {u} /\ Tenants = {u} /\ owner \in {u, NoOwner}
        BY <1>3 DEF Leave, TenantsAgree, OwnerHolds
    <2>2. StateFollowsTenant' /\ TenantsAgree' /\ StampIsOwn' /\ QuietIsEmpty'
        BY <1>3, <2>1 DEF Leave, StateFollowsTenant, TenantsAgree, StampIsOwn, QuietIsEmpty
    <2>3. OwnerHolds' /\ ReclaimerIsRight'
        BY <1>3, <2>1 DEF Leave, OwnerHolds, ReclaimerIsRight, SeenFits
    <2> QED
        BY <1>t, <1>f, <2>2, <2>3
<1>4. CASE Quiesce(u)
    <2>1. Tenants' = {u} /\ Tenants = {u} /\ owner \in {u, NoOwner}
        BY <1>4 DEF Quiesce, TenantsAgree, OwnerHolds
    <2>2. StateFollowsTenant' /\ TenantsAgree' /\ StampIsOwn' /\ QuietIsEmpty'
        BY <1>0, <1>4, <2>1 DEF Quiesce, StateFollowsTenant, TenantsAgree, StampIsOwn, QuietIsEmpty
    <2>3. OwnerHolds' /\ ReclaimerIsRight'
        BY <1>4, <2>1 DEF Quiesce, OwnerHolds, ReclaimerIsRight, SeenFits
    <2> QED
        BY <1>t, <1>f, <2>2, <2>3
<1>5. CASE ClearOwner(u)
    <2>1. Tenants' = {u} /\ Tenants = {u}
        BY <1>5 DEF ClearOwner, TenantsAgree
    <2>2. StateFollowsTenant' /\ TenantsAgree' /\ StampIsOwn' /\ QuietIsEmpty'
        BY <1>5, <2>1 DEF ClearOwner, StateFollowsTenant, TenantsAgree, StampIsOwn, QuietIsEmpty
    <2>3. OwnerHolds' /\ ReclaimerIsRight'
        BY <1>5, <2>1 DEF ClearOwner, OwnerHolds, ReclaimerIsRight, SeenFits
    <2> QED
        BY <1>t, <1>f, <2>2, <2>3
<1>6. CASE FreeRing(u) \/ Retire(u)
    <2>1. Tenants' = {} /\ Tenants = {u}
        BY <1>6 DEF FreeRing, Retire, TenantsAgree
    <2>2. StateFollowsTenant' /\ TenantsAgree' /\ StampIsOwn' /\ QuietIsEmpty'
        BY <2>1 DEF StateFollowsTenant, TenantsAgree, StampIsOwn, QuietIsEmpty
    <2>3. owner = NoOwner /\ owner' = NoOwner /\ state' = "Free" /\ rec' = rec /\ alive' = alive
        BY <1>6, <2>1 DEF FreeRing, Retire, OwnerHolds
    <2>4. OwnerHolds' /\ ReclaimerIsRight'
        BY <2>1, <2>3 DEF OwnerHolds, ReclaimerIsRight
    <2> QED
        BY <1>t, <1>f, <2>2, <2>4
<1> QED
    BY <1>1, <1>2, <1>3, <1>4, <1>5, <1>6 DEF SubNext

-----------------------------------------------------------------------------
\* Publishers and the operator's reset move the count and its set together.
LEMMA PubPreserves ==
    ASSUME TenancyInv,
           ResetRetired \/ \E p \in Pubs : Admit(p) \/ Depart(p)
    PROVE  TenancyInv'
<1> USE DEF TenancyInv
<1>0. /\ flight \in Nat
      /\ \A p \in Pubs \ admitted : Cardinality(admitted \cup {p}) = flight + 1
      /\ \A p \in admitted : Cardinality(admitted \ {p}) = flight - 1
      /\ flight = 0 <=> admitted = {}
    BY AdmittedCount
<1>1. TypeOK'
    BY <1>0 DEF TypeOK, ResetRetired, Admit, Depart
<1>2. FlightExact'
    BY <1>0, FS_EmptySet DEF FlightExact, TypeOK, ResetRetired, Admit, Depart
<1>3. /\ Tenants' = Tenants
      /\ owner' = owner /\ state' = state /\ sub' = sub /\ rec' = rec /\ alive' = alive
      /\ start' \in {start, NoOwner}
      /\ start' # start => state = "Free"
    BY DEF ResetRetired, Admit, Depart, OwnerHolds, Tenants
<1>4. QuietIsEmpty'
    BY DEF ResetRetired, Admit, Depart, QuietIsEmpty, Tenants, StateFollowsTenant, Serving, Tearing
<1>5. StateFollowsTenant' /\ TenantsAgree' /\ StampIsOwn' /\ OwnerHolds'
    BY <1>3 DEF StateFollowsTenant, TenantsAgree, StampIsOwn, OwnerHolds
<1>6. ReclaimerIsRight'
    BY <1>3 DEF ReclaimerIsRight, SeenFits
<1> QED
    BY <1>1, <1>2, <1>4, <1>5, <1>6

\* A crash, which takes the process's claims with it, keeps the invariant.
LEMMA CrashPreserves ==
    ASSUME TenancyInv, NEW x \in Procs, Crash(x)
    PROVE  TenancyInv'
<1> USE DEF TenancyInv, Crash
<1>1. TypeOK' /\ FlightExact'
    BY DEF TypeOK, FlightExact
<1>2. Tenants' \subseteq Tenants
    BY DEF Tenants
<1>3. StateFollowsTenant' /\ TenantsAgree' /\ StampIsOwn' /\ OwnerHolds' /\ QuietIsEmpty'
    BY <1>2 DEF Tenants, StateFollowsTenant, TenantsAgree, StampIsOwn, OwnerHolds, QuietIsEmpty
<1>4. ReclaimerIsRight'
    BY <1>2 DEF ReclaimerIsRight, SeenFits
<1> QED
    BY <1>1, <1>3, <1>4

-----------------------------------------------------------------------------
RecType == [pc : RecPCs, seen : States, pid : Subs \cup {NoOwner}, count : Nat]

\* A verdict of death passed under Reclaiming means that nobody holds the ring.
LEMMA VerdictIsRight ==
    ASSUME TenancyInv, NEW q \in Reclaimers \cap alive,
           rec[q].pc = "verify", state = "Reclaiming", LooksDead(rec[q].pid)
    PROVE  Tenants = {}
BY DEF TenancyInv, ReclaimerIsRight, LooksDead, Tenants

\* The step of the only reclaimer.
LEMMA ReclaimPreserves ==
    ASSUME OneReclaimer, TenancyInv, NEW q \in Reclaimers, Look(q) \/ RecStep(q)
    PROVE  TenancyInv'
<1> USE DEF TenancyInv, RecAt, Step, Done
<1>1. FlightExact' /\ UNCHANGED <<flight, admitted, sub, alive, joins>>
    BY DEF FlightExact, Look, RecStep, LoadPid, AskDead, Fresh, ClaimDead, Verify, Retract, Release, Restore
<1>2. /\ Tenants' = Tenants
      /\ \A r \in Reclaimers \cap alive : r = q
      /\ rec \in [Reclaimers -> RecType]
      /\ rec[q] \in RecType /\ q \in alive
      /\ RecIdle \in RecType
    BY <1>1 DEF Tenants, OneReclaimer, TypeOK, RecIdle, RecPCs, States, RecType,
        Look, RecStep, LoadPid, AskDead, Fresh, ClaimDead, Verify, Retract, Release, Restore
<1>3. ASSUME UNCHANGED <<state, owner, start>>,
             rec' = [rec EXCEPT ![q] = rec'[q]], rec'[q] \in RecType,
             rec'[q].pc # "idle" => rec'[q].seen # "Free",
             state = "Reclaiming" =>
                /\ rec'[q].pc \in {"verify", "restore"} => SeenFits(q)'
                /\ rec'[q].pc = "verify" => rec'[q].pid = owner
                /\ rec'[q].pc = "retract" => Tenants = {},
             rec'[q].pc \notin {"repid", "release"}
      PROVE  TenancyInv'
    <2>1. TypeOK'
        BY <1>1, <1>2, <1>3 DEF TypeOK, RecType
    <2>2. ReclaimerIsRight'
        BY <1>1, <1>2, <1>3 DEF ReclaimerIsRight, OwnerHolds
    <2>3. StateFollowsTenant' /\ TenantsAgree' /\ StampIsOwn' /\ OwnerHolds' /\ QuietIsEmpty'
        BY <1>1, <1>2, <1>3 DEF StateFollowsTenant, TenantsAgree, StampIsOwn, OwnerHolds, QuietIsEmpty
    <2> QED
        BY <1>1, <2>1, <2>2, <2>3
<1>4. CASE Look(q)
    <2>1. rec' = [rec EXCEPT ![q] = [rec[q] EXCEPT !.pc = "pid", !.seen = state]]
        BY <1>4 DEF Look
    <2>2. rec'[q] = [rec[q] EXCEPT !.pc = "pid", !.seen = state] /\ state # "Free" /\ state \in States
        BY <1>2, <1>4, <2>1 DEF Look, TypeOK
    <2>3. rec'[q] \in RecType /\ rec'[q].pc = "pid" /\ rec'[q].seen # "Free"
        BY <1>2, <2>2 DEF RecType, RecPCs
    <2> QED
        BY <1>3, <1>4, <2>1, <2>2, <2>3 DEF Look
<1>5. CASE LoadPid(q)
    <2> DEFINE next == IF RecAt(q, "pid") THEN "dead?" ELSE "verify"
    <2>1. rec' = [rec EXCEPT ![q] = [rec[q] EXCEPT !.pid = owner, !.pc = next]]
        BY <1>5 DEF LoadPid
    <2>2. rec'[q] = [rec[q] EXCEPT !.pid = owner, !.pc = next]
        BY <1>2, <2>1
    <2>3. /\ rec[q].pc \in {"pid", "repid"}
          /\ rec[q].seen # "Free"
          /\ state = "Reclaiming" /\ rec[q].pc = "repid" => SeenFits(q)
        BY <1>2, <1>5 DEF LoadPid, ReclaimerIsRight
    <2>4. owner \in Subs \cup {NoOwner} /\ next \in RecPCs
        BY DEF TypeOK, RecPCs
    <2>5. /\ rec'[q] \in RecType
          /\ rec'[q].pc = next /\ rec'[q].pid = owner /\ rec'[q].seen = rec[q].seen
        BY <1>2, <2>2, <2>4 DEF RecType
    <2>6. state = "Reclaiming" /\ rec'[q].pc = "verify" => SeenFits(q)'
        BY <1>1, <1>2, <2>3, <2>5 DEF SeenFits
    <2> QED
        BY <1>3, <1>5, <2>1, <2>2, <2>3, <2>5, <2>6 DEF LoadPid
<1>6. CASE AskDead(q)
    <2>1. /\ rec' = [rec EXCEPT ![q] = rec'[q]]
          /\ rec'[q] \in RecType
          /\ rec'[q].pc = "idle" \/ (rec'[q].pc = "fresh" /\ rec'[q].seen = rec[q].seen)
        <3>1. CASE LooksDead(rec[q].pid)
            <4>1. rec' = [rec EXCEPT ![q].pc = "fresh"]
                BY <1>6, <3>1 DEF AskDead
            <4>2. rec'[q] = [rec[q] EXCEPT !.pc = "fresh"]
                BY <1>2, <4>1
            <4>3. rec'[q] \in RecType /\ rec'[q].pc = "fresh" /\ rec'[q].seen = rec[q].seen
                BY <1>2, <4>2 DEF RecType, RecPCs
            <4> QED
                BY <4>1, <4>2, <4>3
        <3>2. CASE ~LooksDead(rec[q].pid)
            <4>1. rec' = [rec EXCEPT ![q] = RecIdle]
                BY <1>6, <3>2 DEF AskDead
            <4>2. rec'[q] = RecIdle
                BY <1>2, <4>1
            <4>3. rec'[q].pc = "idle"
                BY <4>2 DEF RecIdle
            <4> QED
                BY <1>2, <4>1, <4>2, <4>3
        <3> QED
            BY <3>1, <3>2
    <2>2. rec[q].seen # "Free"
        BY <1>2, <1>6 DEF AskDead, ReclaimerIsRight
    <2> QED
        BY <1>3, <1>6, <2>1, <2>2 DEF AskDead
<1>7. CASE Fresh(q)
    <2>0. flight \in Nat /\ rec[q].seen # "Free"
        BY <1>2, <1>7 DEF Fresh, ReclaimerIsRight, TypeOK
    <2>1. CASE state = rec[q].seen
        <3>1. rec' = [rec EXCEPT ![q] = [rec[q] EXCEPT !.pc = "claim", !.count = flight]]
            BY <1>7, <2>1 DEF Fresh
        <3>2. rec'[q] = [rec[q] EXCEPT !.pc = "claim", !.count = flight]
            BY <1>2, <3>1
        <3>3. rec'[q] \in RecType /\ rec'[q].pc = "claim" /\ rec'[q].seen = rec[q].seen
            BY <1>2, <2>0, <3>2 DEF RecPCs, RecType
        <3> QED
            BY <1>3, <1>7, <2>0, <3>1, <3>2, <3>3 DEF Fresh
    <2>2. CASE state # rec[q].seen
        <3>1. rec' = [rec EXCEPT ![q] = rec'[q]] /\ rec'[q] \in RecType /\ rec'[q].pc = "idle"
            BY <1>2, <1>7, <2>2 DEF Fresh, RecIdle
        <3> QED
            BY <1>3, <1>7, <3>1 DEF Fresh
    <2> QED
        BY <2>1, <2>2
<1>8. CASE ClaimDead(q)
    <2>0. rec[q].pc = "claim" /\ rec[q].seen # "Free" /\ UNCHANGED <<owner, start>>
        BY <1>2, <1>8 DEF ClaimDead, ReclaimerIsRight
    <2>1. CASE state = rec[q].seen /\ flight = rec[q].count
        <3>1. rec' = [rec EXCEPT ![q].pc = "repid"] /\ state' = "Reclaiming"
            BY <1>8, <2>1 DEF ClaimDead
        <3>2. rec'[q] = [rec[q] EXCEPT !.pc = "repid"]
            BY <1>2, <3>1
        <3>3. rec'[q] \in RecType /\ rec'[q].pc = "repid" /\ rec'[q].seen = rec[q].seen
            BY <1>2, <3>2 DEF RecType, RecPCs
        <3>4. TypeOK'
            BY <1>1, <1>2, <2>0, <3>1, <3>2, <3>3 DEF TypeOK, RecType, States
        <3>5. SeenFits(q)'
            BY <1>1, <1>2, <2>1, <3>3 DEF SeenFits, StateFollowsTenant
        <3>6. ReclaimerIsRight'
            BY <1>1, <1>2, <2>0, <3>1, <3>3, <3>5 DEF ReclaimerIsRight
        <3>7. StateFollowsTenant' /\ TenantsAgree' /\ StampIsOwn' /\ OwnerHolds' /\ QuietIsEmpty'
            BY <1>1, <1>2, <2>0, <3>1 DEF StateFollowsTenant, TenantsAgree, StampIsOwn, OwnerHolds, QuietIsEmpty
        <3> QED
            BY <1>1, <3>4, <3>6, <3>7
    <2>2. CASE ~(state = rec[q].seen /\ flight = rec[q].count)
        <3>1. rec' = [rec EXCEPT ![q] = RecIdle] /\ state' = state
            BY <1>8, <2>2 DEF ClaimDead
        <3>2. rec'[q] = RecIdle /\ rec' = [rec EXCEPT ![q] = rec'[q]]
            BY <1>2, <3>1
        <3> QED
            BY <1>2, <1>3, <2>0, <3>1, <3>2 DEF RecIdle
    <2> QED
        BY <2>1, <2>2
<1>9. CASE Verify(q)
    <2> DEFINE next == IF LooksDead(rec[q].pid) THEN "retract" ELSE "restore"
    <2>1. rec' = [rec EXCEPT ![q].pc = next]
        BY <1>9 DEF Verify
    <2>2. rec'[q] = [rec[q] EXCEPT !.pc = next]
        BY <1>2, <2>1
    <2>3. /\ rec'[q] \in RecType
          /\ rec'[q].pc = next /\ rec'[q].seen = rec[q].seen
        BY <1>2, <2>2 DEF RecType, RecPCs
    <2>4. /\ rec[q].seen # "Free"
          /\ state = "Reclaiming" => SeenFits(q)
        BY <1>2, <1>9 DEF Verify, ReclaimerIsRight
    <2>5. state = "Reclaiming" => SeenFits(q)'
        BY <1>1, <1>2, <2>3, <2>4 DEF SeenFits
    <2>6. state = "Reclaiming" /\ rec'[q].pc = "retract" => Tenants = {}
        BY <1>2, <1>9, <2>3, VerdictIsRight DEF Verify
    <2> QED
        BY <1>3, <1>9, <2>1, <2>2, <2>3, <2>4, <2>5, <2>6 DEF Verify
<1>10. CASE Retract(q)
    <2>1. /\ rec' = [rec EXCEPT ![q].pc = "release"]
          /\ owner' = NoOwner /\ start' = NoOwner /\ state' = state
        BY <1>10 DEF Retract
    <2>2. rec'[q] = [rec[q] EXCEPT !.pc = "release"]
        BY <1>2, <2>1
    <2>3. rec'[q] \in RecType /\ rec'[q].pc = "release" /\ rec'[q].seen = rec[q].seen
        BY <1>2, <2>2 DEF RecType, RecPCs
    <2>4. rec[q].seen # "Free" /\ (state = "Reclaiming" => Tenants = {})
        BY <1>2, <1>10 DEF Retract, ReclaimerIsRight
    <2>5. TypeOK'
        BY <1>1, <1>2, <2>1, <2>2, <2>3 DEF TypeOK, RecType
    <2>6. ReclaimerIsRight'
        BY <1>1, <1>2, <2>1, <2>3, <2>4 DEF ReclaimerIsRight
    <2>7. StateFollowsTenant' /\ TenantsAgree' /\ StampIsOwn' /\ OwnerHolds' /\ QuietIsEmpty'
        BY <1>1, <1>2, <2>1 DEF StateFollowsTenant, TenantsAgree, StampIsOwn, OwnerHolds, QuietIsEmpty
    <2> QED
        BY <1>1, <2>5, <2>6, <2>7
<1>11. CASE Release(q) \/ Restore(q)
    <2>1. /\ rec' = [rec EXCEPT ![q] = RecIdle]
          /\ UNCHANGED <<owner, start>>
          /\ state # "Reclaiming" => state' = state
          /\ state = "Reclaiming" /\ rec[q].pc = "release" => state' = "Free"
          /\ state = "Reclaiming" /\ rec[q].pc = "restore" => state' = rec[q].seen
          /\ rec[q].pc \in {"release", "restore"}
        BY <1>11 DEF Release, Restore
    <2>2. rec'[q] = RecIdle
        BY <1>2, <2>1
    <2>3. /\ rec[q].seen # "Free" /\ rec[q].seen \in States
          /\ state = "Reclaiming" /\ rec[q].pc = "release" => Tenants = {} /\ owner = NoOwner
          /\ state = "Reclaiming" /\ rec[q].pc = "restore" => SeenFits(q)
        BY <1>2, <2>1 DEF ReclaimerIsRight, RecType
    <2>4. TypeOK'
        BY <1>1, <1>2, <2>1, <2>2, <2>3 DEF TypeOK, RecType, States
    <2>5. ReclaimerIsRight'
        BY <1>1, <1>2, <2>2 DEF ReclaimerIsRight, RecIdle
    <2>6. StateFollowsTenant'
        BY <1>1, <1>2, <2>1, <2>3 DEF StateFollowsTenant, SeenFits
    <2>7. TenantsAgree' /\ StampIsOwn' /\ OwnerHolds' /\ QuietIsEmpty'
        BY <1>1, <1>2, <2>1, <2>3 DEF TenantsAgree, StampIsOwn, OwnerHolds, QuietIsEmpty
    <2> QED
        BY <1>1, <2>4, <2>5, <2>6, <2>7
<1> QED
    BY <1>4, <1>5, <1>6, <1>7, <1>8, <1>9, <1>10, <1>11 DEF RecStep

-----------------------------------------------------------------------------
\* Every step of every process keeps the invariant.
LEMMA StepPreserves ==
    ASSUME OneReclaimer, TenancyInv, [Next]_vars
    PROVE  OneReclaimer' /\ TenancyInv'
<1>0. OneReclaimer'
    <2>1. alive' \subseteq alive
        BY DEF Next, vars, SubNext, Claim, Stamp, Own, Leave, Quiesce, ClearOwner, FreeRing, Retire, Admit, Depart,
            Crash, ResetRetired, Look, RecStep, LoadPid, AskDead, Fresh, ClaimDead, Verify, Retract, Release, Restore,
            Step, Done
    <2> QED
        BY <2>1 DEF OneReclaimer
<1>1. ASSUME UNCHANGED vars PROVE TenancyInv'
    BY <1>1 DEF vars, TenancyInv, TypeOK, FlightExact, StateFollowsTenant, Tenants,
        TenantsAgree, StampIsOwn, OwnerHolds, QuietIsEmpty, ReclaimerIsRight, SeenFits
<1> QED
    BY <1>0, <1>1, SubPreserves, PubPreserves, CrashPreserves, ReclaimPreserves DEF Next

\* If one process is there to call reclaim_dead_rings(), the claim CAS, the teardown,
\* the reclaim and the restore never give a ring to two live subscribers.
THEOREM RingHasOneTenant == Spec /\ OneReclaimer => []SoleTenant
<1>1. TenancyInv => SoleTenant
    <2> SUFFICES ASSUME TenancyInv PROVE Cardinality(Tenants) <= 1
        BY DEF SoleTenant
    <2>1. CASE Tenants = {}
        BY <2>1, FS_EmptySet
    <2>2. ASSUME NEW u \in Tenants PROVE Tenants = {u}
        BY DEF TenancyInv, TenantsAgree
    <2>3. ASSUME NEW u \in Tenants PROVE Cardinality(Tenants) = 1
        BY <2>2, FS_Singleton
    <2> QED
        BY <2>1, <2>3
<1> QED
    BY <1>1, InitTenancy, StepPreserves, PTL DEF Spec

\* Under the same condition in_flight counts the admitted publishers, through
\* hand-overs, retirements, reclaims and crashes: no decrement can underflow it.
THEOREM FlightIsExact == Spec /\ OneReclaimer => []FlightExact
<1>1. TenancyInv => FlightExact
    BY DEF TenancyInv
<1> QED
    BY <1>1, InitTenancy, StepPreserves, PTL DEF Spec

\* Under the same condition every word and local stays in its range: in_flight
\* never borrows from the state bits, and owner_pid names a subscriber or none.
THEOREM TenancyTypes == Spec /\ OneReclaimer => []TypeOK
<1>1. TenancyInv => TypeOK
    BY DEF TenancyInv
<1> QED
    BY <1>1, InitTenancy, StepPreserves, PTL DEF Spec
=============================================================================
