------------------------------ MODULE Registry ------------------------------
(***************************************************************************)
(* The participant registry of a namespace: a table of rows in shared      *)
(* memory, without a lock.  A row is claimed by a CAS on its state, read   *)
(* through a seqlock (its generation is odd while somebody writes), and    *)
(* taken from a dead owner by a CAS on the even generation under which the *)
(* death was established.                                                  *)
(***************************************************************************)
EXTENDS Process, Sequences

CONSTANT Sweeps      \* how often a full table is swept: 3 in the code

ASSUME RegistryAssumption == Sweeps \in Nat

NoRow == 0            \* INVALID_SLOT

VARIABLES
    rows,   \* the table: state, generation, pid and the descriptive fields
    reg     \* per process: the locals of its call

Rows == DOMAIN rows

registryVars == <<rows, reg>>

Nobody == [by |-> NoProc, role |-> "none"]

FreeRow == [state |-> "Free", gen |-> 0, who |-> NoProc, what |-> Nobody]

AtRest == [pc |-> "idle", call |-> "none", row |-> NoRow, role |-> "none", tries |-> 0,
           freed |-> FALSE, gen |-> 0, who |-> NoProc, what |-> Nobody, listed |-> {}]

\* init_as_creator zeroes the table; its capacity is the creator's choice.
RegistryInit(capacity) ==
    /\ rows = [i \in 1..capacity |-> FreeRow]
    /\ reg = [p \in Procs |-> AtRest]

RegAt(p, pc) == alive[p] /\ reg[p].pc = pc

RegGoto(p, pc) == reg' = [reg EXCEPT ![p].pc = pc]

Row(p) == rows[reg[p].row]

SetRow(p, r) == rows' = [rows EXCEPT ![reg[p].row] = r]

Odd(g) == g % 2 = 1

\* (g + 1) | 1 and (g + 2) & ~1
Opened(g) == IF Odd(g) THEN g + 2 ELSE g + 1
Settled(g) == IF Odd(g) THEN g + 1 ELSE g + 2

\* A call to the registry: what it does first, at the first row or at the row given.
RegisterCall(role) == [AtRest EXCEPT !.pc = "claim", !.call = "register", !.row = 1, !.role = role]
DeregisterCall(i) == [AtRest EXCEPT !.pc = "retire", !.call = "deregister", !.row = i]
SweepCall == [AtRest EXCEPT !.pc = "sweep", !.call = "sweep", !.row = 1]
SnapshotCall == [AtRest EXCEPT !.pc = "snap", !.call = "snapshot", !.row = 1]

\* The call returns at "done"; a registration with its row, or NoRow when full.
Returned(r) == [r EXCEPT !.pc = "done", !.gen = 0, !.who = NoProc, !.what = Nobody,
                         !.freed = FALSE, !.tries = 0]

-----------------------------------------------------------------------------
(***************************************************************************)
(* register_participant                                                    *)
(***************************************************************************)
\* Mutant of AfterSweptRow: the walk goes one row too far.
AfterSweptRowPast(r) ==
    IF r.row <= Len(rows) THEN [r EXCEPT !.row = @ + 1, !.pc = "sweep"]
    ELSE IF r.call = "register" /\ r.freed THEN [r EXCEPT !.row = 1, !.pc = "claim"]
    ELSE Returned([r EXCEPT !.row = NoRow])

\* The walk of a sweep goes on, or the sweep is over: a registration tries
\* again if something was freed.
AfterSweptRow(r) ==
    IF r.row < Len(rows) THEN [r EXCEPT !.row = @ + 1, !.pc = "sweep"]
    ELSE IF r.call = "register" /\ r.freed THEN [r EXCEPT !.row = 1, !.pc = "claim"]
    ELSE Returned([r EXCEPT !.row = NoRow])

\* The first free row is taken by a CAS.
ClaimRow(p) ==
    /\ RegAt(p, "claim")
    /\ Row(p).state = "Free"
    /\ SetRow(p, [Row(p) EXCEPT !.state = "Claiming"])
    /\ RegGoto(p, "open")

\* Past the last row the table is full: sweep it, a bounded number of times.
SkipRow(p) ==
    LET r == reg[p]
    IN  /\ RegAt(p, "claim")
        /\ Row(p).state # "Free"
        /\ reg' = [reg EXCEPT ![p] =
               IF r.row < Len(rows) THEN [r EXCEPT !.row = @ + 1]
               ELSE IF r.tries < Sweeps
               THEN [r EXCEPT !.row = 1, !.pc = "sweep", !.tries = @ + 1, !.freed = FALSE]
               ELSE Returned([r EXCEPT !.row = NoRow])]
        /\ UNCHANGED rows

OpenGeneration(p) ==
    /\ RegAt(p, "open")
    /\ SetRow(p, [Row(p) EXCEPT !.gen = Opened(@)])
    /\ RegGoto(p, IF reg[p].call = "register" THEN "identity" ELSE "clear")

StoreIdentity(p) ==
    /\ RegAt(p, "identity")
    /\ SetRow(p, [Row(p) EXCEPT !.who = p])
    /\ RegGoto(p, "fields")

StoreFields(p) ==
    /\ RegAt(p, "fields")
    /\ SetRow(p, [Row(p) EXCEPT !.what = [by |-> p, role |-> reg[p].role]])
    /\ RegGoto(p, "active")

StoreActive(p) ==
    /\ RegAt(p, "active")
    /\ SetRow(p, [Row(p) EXCEPT !.state = "Active"])
    /\ RegGoto(p, "publish")

\* settle_generation, and the row is returned.
PublishRow(p) ==
    /\ RegAt(p, "publish")
    /\ SetRow(p, [Row(p) EXCEPT !.gen = Settled(@)])
    /\ reg' = [reg EXCEPT ![p] = Returned(@)]

-----------------------------------------------------------------------------
(***************************************************************************)
(* deregister, and the tail it shares with a sweep                         *)
(***************************************************************************)
\* CAS Active -> Reclaiming; a row in another state is left alone.
RetireRow(p) ==
    /\ RegAt(p, "retire")
    /\ IF Row(p).state = "Active"
       THEN SetRow(p, [Row(p) EXCEPT !.state = "Reclaiming"]) /\ RegGoto(p, "open")
       ELSE UNCHANGED rows /\ reg' = [reg EXCEPT ![p] = Returned(@)]

ClearIdentity(p) ==
    /\ RegAt(p, "clear")
    /\ SetRow(p, [Row(p) EXCEPT !.who = NoProc])
    /\ RegGoto(p, "settle")

SettleCleared(p) ==
    /\ RegAt(p, "settle")
    /\ SetRow(p, [Row(p) EXCEPT !.gen = Settled(@)])
    /\ RegGoto(p, "free")

\* CAS Reclaiming -> Free; a sweep counts the row whatever the CAS says.
PublishFree(p) ==
    /\ RegAt(p, "free")
    /\ SetRow(p, IF Row(p).state = "Reclaiming" THEN [Row(p) EXCEPT !.state = "Free"] ELSE Row(p))
    /\ reg' = [reg EXCEPT ![p] = IF @.call = "deregister" THEN Returned(@)
                                 ELSE AfterSweptRow([@ EXCEPT !.freed = TRUE])]

-----------------------------------------------------------------------------
(***************************************************************************)
(* sweep_stale                                                             *)
(***************************************************************************)
Skip(p) == reg' = [reg EXCEPT ![p] = AfterSweptRow([@ EXCEPT !.gen = 0, !.who = NoProc])]

SweepState(p) ==
    /\ RegAt(p, "sweep")
    /\ IF Row(p).state \in {"Active", "Claiming"} THEN RegGoto(p, "sweep_gen") ELSE Skip(p)
    /\ UNCHANGED rows

SweepGeneration(p) ==
    /\ RegAt(p, "sweep_gen")
    /\ IF Odd(Row(p).gen) THEN Skip(p)
       ELSE reg' = [reg EXCEPT ![p].pc = "sweep_pid", ![p].gen = Row(p).gen]
    /\ UNCHANGED rows

SweepIdentity(p) ==
    /\ RegAt(p, "sweep_pid")
    /\ reg' = [reg EXCEPT ![p].pc = "acquire", ![p].who = Row(p).who]
    /\ UNCHANGED rows

\* Mutant of Acquirable: the row is taken without the CAS on its generation.
AcquireBlind(p) == TRUE

\* The recheck of the generation and acquire_tenancy's CAS: both ask for the
\* generation the identity was read under, and generations never come back.
Acquirable(p) == Row(p).gen = reg[p].gen

\* Deaths are final, so the test of owner_is_dead can wait for the CAS.
AcquireTenancy(p) ==
    /\ RegAt(p, "acquire")
    /\ IF OwnerIsDead(reg[p].who) /\ Acquirable(p)
       THEN SetRow(p, [Row(p) EXCEPT !.gen = reg[p].gen + 1]) /\ RegGoto(p, "reclaim")
       ELSE UNCHANGED rows /\ Skip(p)

StoreReclaiming(p) ==
    /\ RegAt(p, "reclaim")
    /\ SetRow(p, [Row(p) EXCEPT !.state = "Reclaiming"])
    /\ reg' = [reg EXCEPT ![p].pc = "clear", ![p].gen = 0, ![p].who = NoProc]

-----------------------------------------------------------------------------
(***************************************************************************)
(* snapshot                                                                *)
(***************************************************************************)
NextRow(r) ==
    LET q == [r EXCEPT !.gen = 0, !.who = NoProc, !.what = Nobody]
    IN  IF r.row < Len(rows) THEN [q EXCEPT !.row = @ + 1, !.pc = "snap"] ELSE Returned(q)

SnapState(p) ==
    /\ RegAt(p, "snap")
    /\ reg' = [reg EXCEPT ![p] = IF Row(p).state = "Active" THEN [@ EXCEPT !.pc = "snap_gen"]
                                 ELSE NextRow(@)]
    /\ UNCHANGED rows

SnapGeneration(p) ==
    /\ RegAt(p, "snap_gen")
    /\ reg' = [reg EXCEPT ![p] = IF Odd(Row(p).gen) THEN NextRow(@)
                                 ELSE [@ EXCEPT !.pc = "snap_pid", !.gen = Row(p).gen]]
    /\ UNCHANGED rows

SnapIdentity(p) ==
    /\ RegAt(p, "snap_pid")
    /\ reg' = [reg EXCEPT ![p].pc = "snap_fields", ![p].who = Row(p).who]
    /\ UNCHANGED rows

SnapFields(p) ==
    /\ RegAt(p, "snap_fields")
    /\ reg' = [reg EXCEPT ![p].pc = "snap_regen", ![p].what = Row(p).what]
    /\ UNCHANGED rows

\* Mutant of Unmoved: the copy is kept whatever happened meanwhile.
UnmovedAnyway(p) == TRUE

Unmoved(p) == Row(p).gen = reg[p].gen

SnapRecheck(p) ==
    /\ RegAt(p, "snap_regen")
    /\ reg' = [reg EXCEPT ![p] = IF Unmoved(p) THEN [@ EXCEPT !.pc = "snap_end"] ELSE NextRow(@)]
    /\ UNCHANGED rows

\* The row is still Active: its copy goes into the result.
Listed(r) == [r EXCEPT !.listed = @ \cup {[who |-> r.who, what |-> r.what]}]

SnapEnd(p) ==
    /\ RegAt(p, "snap_end")
    /\ reg' = [reg EXCEPT ![p] = NextRow(IF Row(p).state = "Active" THEN Listed(@) ELSE @)]
    /\ UNCHANGED rows
=============================================================================
