----------------------------- MODULE Blackboard -----------------------------
(***************************************************************************)
(* The blackboard: a shared table of keys.  Declaring, releasing, sweeping *)
(* and listing serialise on the board lock, which outlives its holder and  *)
(* is taken over from a dead one; write() and read() take no lock and meet *)
(* in a seqlock of two cells per key.  Each access to shared memory is one *)
(* step; accesses that only the lock's holder can tell apart are merged.   *)
(***************************************************************************)
EXTENDS Integers, FiniteSets, FiniteSetsExt

CONSTANTS
    Procs, NoProc,   \* processes; a restarted one is another process
    Keys, NoKey,     \* NoKey is the key_hash 0
    Capacity,        \* entries of the board
    Jobs,            \* per process: the operations it calls
    KeysOf,          \* per process: the keys it declares or reads
    RetryBudget,     \* READ_RETRY_BUDGET
    FutexSpan,       \* the futex compares change_seq modulo this (2^32)
    MaxDeclares, MaxWrites, MaxSweeps, MaxCalls, MaxCrashes,  \* bounds
    Mortal,          \* bound: the processes that may die
    CallsAfter       \* bound: reads and waits begin after that many writes

Entries == 0..(Capacity - 1)
NoEntry == Capacity
Ops == {"declare", "write", "release", "sweep", "read", "list", "snapshot", "wait"}

ASSUME BoardAssumption ==
    /\ IsFiniteSet(Procs) /\ NoProc \notin Procs
    /\ Keys # {} /\ NoKey \notin Keys
    /\ Capacity \in Nat \ {0} /\ RetryBudget \in Nat \ {0} /\ MaxWrites \in Nat
    /\ Jobs \in [Procs -> SUBSET Ops] /\ KeysOf \in [Procs -> SUBSET Keys]

ASSUME BoardSpanAssumption == FutexSpan \in Nat \ {0}

VARIABLES
    entry,    \* per entry: state, publish, tenancy, owner, key_hash, key
    cell,     \* per entry and parity: payload and value_len, named by their write
    board,    \* lock_token, change_seq and waiters of the header
    proc,     \* per process: the locals of its call
    writer,   \* per process: its Writer
    cache,    \* per process and key: entry and tenancy its Reader resolved last
    alive,
    seen,     \* history: what the keys of a read were since its call began
    used      \* history: calls made, for the bounds

vars == <<entry, cell, board, proc, writer, cache, alive, seen, used>>

FreeEntry == [state |-> "Free", publish |-> 0, tenancy |-> 0,
              owner |-> NoProc, hash |-> NoKey, key |-> NoKey]

EmptyCell == [data |-> 0, len |-> 0]

NoWriter == [idx |-> NoEntry, tenancy |-> 0, writes |-> 0, key |-> NoKey]

Unresolved == [idx |-> NoEntry, tenancy |-> 0]

Rest == [pc |-> "idle", op |-> "none", key |-> NoKey, i |-> 0, n |-> 0,
         tenancy |-> 0, publish |-> 0, len |-> 0, data |-> 0, fresh |-> FALSE, kind |-> "none"]

Init ==
    /\ entry = [i \in Entries |-> FreeEntry]
    /\ cell = [i \in Entries |-> [c \in 0..1 |-> EmptyCell]]
    /\ board = [lock |-> NoProc, change |-> 0, waiters |-> 0]
    /\ proc = [p \in Procs |-> Rest]
    /\ writer = [p \in Procs |-> NoWriter]
    /\ cache = [p \in Procs |-> [k \in Keys |-> Unresolved]]
    /\ alive = [p \in Procs |-> TRUE]
    /\ seen = [p \in Procs |-> {}]
    /\ used = [declare |-> 0, write |-> 0, sweep |-> 0, call |-> 0, crash |-> 0]

-----------------------------------------------------------------------------
At(p, pc) == alive[p] /\ proc[p].pc = pc

Goto(p, pc) == proc' = [proc EXCEPT ![p].pc = pc]

GotoWith(p, pc, i, n) ==
    proc' = [proc EXCEPT ![p].pc = pc, ![p].i = i, ![p].n = n]

Put(i, e) == entry' = [entry EXCEPT ![i] = e]

Mine(p) == entry[proc[p].i]

Dead(q) == q # NoProc /\ ~alive[q]

\* entry_takeable: nobody owns the entry, or its owner is gone.
Takeable(e) == e.owner = NoProc \/ Dead(e.owner)

Unowned(e) == [e EXCEPT !.hash = NoKey, !.owner = NoProc]

\* What a holder that died, or nobody else, leaves behind.
Residue(e) ==
    \/ e.state = "Claiming"
    \/ e.state = "Active" /\ e.hash = NoKey
    \/ e.state = "Free" /\ (e.hash # NoKey \/ e.owner # NoProc)

\* Mutant of Normalized: a claim cut short is promoted instead of undone.
NormalizedPromoted(e) ==
    IF e.state = "Claiming" THEN [e EXCEPT !.state = "Active"]
    ELSE IF Residue(e) THEN [Unowned(e) EXCEPT !.state = "Free"] ELSE e

Normalized(e) == IF Residue(e) THEN [Unowned(e) EXCEPT !.state = "Free"] ELSE e

Holders(k) == {i \in Entries : entry[i].state = "Active" /\ entry[i].hash = k /\ entry[i].key = k}

FreeEntries == {i \in Entries : entry[i].state = "Free"}

-----------------------------------------------------------------------------
(***************************************************************************)
(* History: what a reader may have met since its call began.               *)
(***************************************************************************)
\* What the board shows of a key: the count of completed writes and the cell
\* they lead to.  An entry without its hash is met by listings alone.
Held(k) ==
    LET I == {i \in Entries : entry[i].state = "Active" /\ entry[i].key = k}
        e == entry[Min(I)]
        n == e.publish \div 2
        c == cell[Min(I)][n % 2]
    IN  IF I = {} THEN [count |-> 0, value |-> 0, there |-> "no"]
        ELSE [count |-> n, there |-> IF e.hash = k THEN "yes" ELSE "leaving",
              value |-> IF n = 0 THEN 0 ELSE IF c.data = c.len THEN c.data ELSE -1]

\* The keys a call under way is about.
Scope(p) ==
    LET q == proc[p]
    IN  IF ~alive[p] THEN {}
        ELSE IF q.op = "read" THEN {q.key}
        ELSE IF q.op \in {"list", "snapshot"} /\ q.pc \notin {"lock", "unlock"} THEN Keys
        ELSE {}

Watch == seen' = [p \in Procs |-> IF Scope(p)' = {} THEN {}
                                  ELSE seen[p] \cup {<<k, Held(k)'>> : k \in Scope(p)'}]

-----------------------------------------------------------------------------
(***************************************************************************)
(* The board lock.                                                         *)
(***************************************************************************)
\* Where an operation goes on once it has the lock.
Body(op) == CASE op = "declare" -> "find"
              [] op = "release" -> "disown"
              [] op = "sweep" -> "sweep"
              [] op = "snapshot" -> "entry_state"

LockFree(p) ==
    /\ At(p, "lock")
    /\ board.lock = NoProc
    /\ board' = [board EXCEPT !.lock = p]
    /\ Goto(p, Body(proc[p].op))
    /\ UNCHANGED <<entry, cell, writer, cache, alive, used>>
    /\ Watch

\* Mutant of LockSteal: the lock is taken from whoever holds it.
LockStealLive(p) ==
    /\ At(p, "lock")
    /\ board.lock # NoProc
    /\ board' = [board EXCEPT !.lock = p]
    /\ GotoWith(p, "repair", 0, proc[p].i)
    /\ UNCHANGED <<entry, cell, writer, cache, alive, used>>
    /\ Watch

\* The token of a dead holder goes straight to the thief, who repairs first.
LockSteal(p) ==
    /\ At(p, "lock")
    /\ Dead(board.lock)
    /\ board' = [board EXCEPT !.lock = p]
    /\ GotoWith(p, "repair", 0, proc[p].i)
    /\ UNCHANGED <<entry, cell, writer, cache, alive, used>>
    /\ Watch

Repair(p) ==
    LET q == proc[p]
    IN  /\ At(p, "repair")
        /\ Put(q.i, Normalized(entry[q.i]))
        /\ IF q.i + 1 < Capacity THEN GotoWith(p, "repair", q.i + 1, q.n)
                                 ELSE GotoWith(p, Body(q.op), q.n, 0)
        /\ UNCHANGED <<cell, board, writer, cache, alive, used>>
        /\ Watch

\* The wait runs out: a live process holds the lock.  release() lets go of
\* its Writer all the same, and the entry keeps its owner.
LockBusy(p) ==
    /\ At(p, "lock")
    /\ board.lock # NoProc /\ ~Dead(board.lock)
    /\ proc' = [proc EXCEPT ![p] = Rest]
    /\ writer' = IF proc[p].op = "release" THEN [writer EXCEPT ![p] = NoWriter] ELSE writer
    /\ UNCHANGED <<entry, cell, board, cache, alive, used>>
    /\ Watch

Unlock(p) ==
    /\ At(p, "unlock")
    /\ board' = [board EXCEPT !.lock = NoProc]
    /\ proc' = [proc EXCEPT ![p] = Rest]
    /\ UNCHANGED <<entry, cell, writer, cache, alive, used>>
    /\ Watch

-----------------------------------------------------------------------------
(***************************************************************************)
(* notify_change: bump change_seq, then wake whoever registered.           *)
(***************************************************************************)
Bump(p) ==
    /\ At(p, "bump")
    /\ board' = [board EXCEPT !.change = @ + 1]
    /\ Goto(p, "wake")
    /\ UNCHANGED <<entry, cell, writer, cache, alive, used>>
    /\ Watch

Wake(p) ==
    /\ At(p, "wake")
    /\ proc' = [q \in Procs |->
                   IF q = p THEN (IF proc[p].op = "write" THEN Rest ELSE [proc[p] EXCEPT !.pc = "unlock"])
                   ELSE IF board.waiters # 0 /\ proc[q].pc = "asleep"
                        THEN [proc[q] EXCEPT !.pc = "leave"]
                        ELSE proc[q]]
    /\ UNCHANGED <<entry, cell, board, writer, cache, alive, used>>
    /\ Watch

-----------------------------------------------------------------------------
(***************************************************************************)
(* declare().  The scan reads fields that only the lock's holder writes,   *)
(* so its outcome is decided in one step.                                  *)
(***************************************************************************)
\* A value is named by the number of its write, which no other write has.
Start(p, op, k, i, pc) ==
    /\ alive[p]
    /\ proc[p].pc = "idle"
    /\ op \in Jobs[p]
    /\ proc' = [proc EXCEPT ![p] = [Rest EXCEPT !.pc = pc, !.op = op, !.key = k, !.i = i,
                                                !.data = IF op = "write" THEN used.write + 1 ELSE 0]]

\* A process keeps one Writer at a time.
StartDeclare(p, k) ==
    /\ writer[p] = NoWriter
    /\ used.declare < MaxDeclares
    /\ Start(p, "declare", k, 0, "lock")
    /\ used' = [used EXCEPT !.declare = @ + 1]
    /\ UNCHANGED <<entry, cell, board, writer, cache, alive>>
    /\ Watch

\* Pass 1: an entry holds the key.  It is taken over, or its owner lives and
\* declare() throws.
FindHeld(p) ==
    LET k == proc[p].key
        i == Min(Holders(k))
    IN  /\ At(p, "find")
        /\ Holders(k) # {}
        /\ IF Takeable(entry[i]) THEN GotoWith(p, "own", i, 0) ELSE Goto(p, "unlock")
        /\ UNCHANGED <<entry, cell, board, writer, cache, alive, used>>
        /\ Watch

\* Mutant of FindFree: a free entry is claimed whether or not one holds the key.
FindFreeFirst(p) ==
    /\ At(p, "find")
    /\ IF FreeEntries # {} THEN GotoWith(p, "claim", Min(FreeEntries), 0)
                           ELSE GotoWith(p, "sweep", 0, 0)
    /\ UNCHANGED <<entry, cell, board, writer, cache, alive, used>>
    /\ Watch

\* Pass 2: a free entry is claimed; without one the board is swept first.
FindFree(p) ==
    /\ At(p, "find")
    /\ Holders(proc[p].key) = {}
    /\ IF FreeEntries # {} THEN GotoWith(p, "claim", Min(FreeEntries), 0)
                           ELSE GotoWith(p, "sweep", 0, 0)
    /\ UNCHANGED <<entry, cell, board, writer, cache, alive, used>>
    /\ Watch

TakeOwner(p) ==
    /\ At(p, "own")
    /\ Put(proc[p].i, [Mine(p) EXCEPT !.owner = p])
    /\ Goto(p, "take")
    /\ UNCHANGED <<cell, board, writer, cache, alive, used>>
    /\ Watch

\* Mutant of TakeTenancy: the new Writer counts its writes from zero.
TakeTenancyAfresh(p) ==
    LET e == Mine(p)
    IN  /\ At(p, "take")
        /\ Put(proc[p].i, [e EXCEPT !.tenancy = @ + 1])
        /\ writer' = [writer EXCEPT ![p] = [idx |-> proc[p].i, tenancy |-> e.tenancy + 1,
                                            writes |-> 0, key |-> proc[p].key]]
        /\ Goto(p, "bump")
        /\ UNCHANGED <<cell, board, cache, alive, used>>
        /\ Watch

\* The predecessor's value and its count of writes go on.
TakeTenancy(p) ==
    LET e == Mine(p)
    IN  /\ At(p, "take")
        /\ Put(proc[p].i, [e EXCEPT !.tenancy = @ + 1])
        /\ writer' = [writer EXCEPT ![p] = [idx |-> proc[p].i, tenancy |-> e.tenancy + 1,
                                            writes |-> e.publish \div 2, key |-> proc[p].key]]
        /\ Goto(p, "bump")
        /\ UNCHANGED <<cell, board, cache, alive, used>>
        /\ Watch

\* The stores of a claim, each a step of its own for the readers.
ClaimStore(p, pc, e, next) ==
    /\ At(p, pc)
    /\ Put(proc[p].i, e)
    /\ Goto(p, next)
    /\ UNCHANGED <<cell, board, writer, cache, alive, used>>
    /\ Watch

Claim(p) == ClaimStore(p, "claim", [Mine(p) EXCEPT !.state = "Claiming"], "reset")

ResetPublish(p) == ClaimStore(p, "reset", [Mine(p) EXCEPT !.publish = 0], "name")

StoreKey(p) == ClaimStore(p, "name", [Mine(p) EXCEPT !.key = proc[p].key], "identify")

StoreIdentity(p) ==
    ClaimStore(p, "identify", [Mine(p) EXCEPT !.owner = p, !.hash = proc[p].key], "tenant")

BumpTenancy(p) == ClaimStore(p, "tenant", [Mine(p) EXCEPT !.tenancy = @ + 1], "activate")

Activate(p) ==
    /\ At(p, "activate")
    /\ Put(proc[p].i, [Mine(p) EXCEPT !.state = "Active"])
    /\ writer' = [writer EXCEPT ![p] = [idx |-> proc[p].i, tenancy |-> Mine(p).tenancy,
                                        writes |-> 0, key |-> proc[p].key]]
    /\ Goto(p, "bump")
    /\ UNCHANGED <<cell, board, cache, alive, used>>
    /\ Watch

-----------------------------------------------------------------------------
(***************************************************************************)
(* sweep_stale() and the sweep of a declare() that found the board full.   *)
(***************************************************************************)
StartSweep(p) ==
    /\ used.sweep < MaxSweeps
    /\ Start(p, "sweep", NoKey, 0, "lock")
    /\ used' = [used EXCEPT !.sweep = @ + 1]
    /\ UNCHANGED <<entry, cell, board, writer, cache, alive>>
    /\ Watch

\* Residue is normalised; the entry of a dead owner is reclaimed, tenancy first.
SweepEntry(p) ==
    LET q == proc[p]
        e == entry[q.i]
        stale == ~Residue(e) /\ Dead(e.owner)
    IN  /\ At(p, "sweep") /\ q.i < Capacity
        /\ Put(q.i, IF stale THEN [e EXCEPT !.tenancy = @ + 1] ELSE Normalized(e))
        /\ IF stale THEN GotoWith(p, "clear", q.i, q.n)
           ELSE GotoWith(p, "sweep", q.i + 1, IF Residue(e) THEN q.n + 1 ELSE q.n)
        /\ UNCHANGED <<cell, board, writer, cache, alive, used>>
        /\ Watch

\* publish_free: the identity goes before the state says Free.
ClearIdentity(p) == ClaimStore(p, "clear", Unowned(Mine(p)), "free")

PublishFree(p) ==
    /\ At(p, "free")
    /\ Put(proc[p].i, [Mine(p) EXCEPT !.state = "Free"])
    /\ GotoWith(p, "sweep", proc[p].i + 1, proc[p].n + 1)
    /\ UNCHANGED <<cell, board, writer, cache, alive, used>>
    /\ Watch

\* sweep_stale tells the waiters, declare() claims what came free or throws.
SweepDone(p) ==
    LET q == proc[p]
    IN  /\ At(p, "sweep") /\ q.i = Capacity
        /\ IF q.n = 0 THEN Goto(p, "unlock")
           ELSE IF q.op = "sweep" THEN Goto(p, "bump")
           ELSE GotoWith(p, "claim", Min(FreeEntries), 0)
        /\ UNCHANGED <<entry, cell, board, writer, cache, alive, used>>
        /\ Watch

-----------------------------------------------------------------------------
(***************************************************************************)
(* Writer::write and Writer::release.                                      *)
(***************************************************************************)
Holds(p, e) == e.state = "Active" /\ e.tenancy = writer[p].tenancy

StartWrite(p) ==
    /\ writer[p] # NoWriter
    /\ used.write < MaxWrites
    /\ Start(p, "write", writer[p].key, writer[p].idx, "check")
    /\ used' = [used EXCEPT !.write = @ + 1]
    /\ UNCHANGED <<entry, cell, board, writer, cache, alive>>
    /\ Watch

WriteCheck(p) ==
    /\ At(p, "check")
    /\ IF Holds(p, Mine(p)) THEN Goto(p, "mark") ELSE proc' = [proc EXCEPT ![p] = Rest]
    /\ UNCHANGED <<entry, cell, board, writer, cache, alive, used>>
    /\ Watch

Target(p) == (writer[p].writes + 1) % 2

WriteMark(p) == ClaimStore(p, "mark", [Mine(p) EXCEPT !.publish = 2 * writer[p].writes + 1], "put_data")

WriteData(p) ==
    /\ At(p, "put_data")
    /\ cell' = [cell EXCEPT ![proc[p].i][Target(p)].data = proc[p].data]
    /\ Goto(p, "put_len")
    /\ UNCHANGED <<entry, board, writer, cache, alive, used>>
    /\ Watch

WriteLen(p) ==
    /\ At(p, "put_len")
    /\ cell' = [cell EXCEPT ![proc[p].i][Target(p)].len = proc[p].data]
    /\ Goto(p, "done")
    /\ UNCHANGED <<entry, board, writer, cache, alive, used>>
    /\ Watch

WriteDone(p) ==
    /\ At(p, "done")
    /\ Put(proc[p].i, [Mine(p) EXCEPT !.publish = 2 * (writer[p].writes + 1)])
    /\ writer' = [writer EXCEPT ![p].writes = @ + 1]
    /\ Goto(p, "bump")
    /\ UNCHANGED <<cell, board, cache, alive, used>>
    /\ Watch

StartRelease(p) ==
    /\ writer[p] # NoWriter
    /\ Start(p, "release", writer[p].key, writer[p].idx, "lock")
    /\ UNCHANGED <<entry, cell, board, writer, cache, alive, used>>
    /\ Watch

\* The entry stays Active with its value and without an owner.
Disown(p) ==
    /\ At(p, "disown")
    /\ Put(proc[p].i, IF Holds(p, Mine(p)) THEN [Mine(p) EXCEPT !.owner = NoProc] ELSE Mine(p))
    /\ Goto(p, IF Holds(p, Mine(p)) THEN "leave_tenancy" ELSE "unlock")
    /\ writer' = [writer EXCEPT ![p] = NoWriter]
    /\ UNCHANGED <<cell, board, cache, alive, used>>
    /\ Watch

LeaveTenancy(p) ==
    ClaimStore(p, "leave_tenancy", [Mine(p) EXCEPT !.tenancy = @ + 1], "bump")

-----------------------------------------------------------------------------
(***************************************************************************)
(* Reader::read of one key, and read_entry of one entry: keys(), read_all()*)
(* and, under the lock, snapshot() call it for each entry in turn.         *)
(***************************************************************************)
Asking == used.write >= CallsAfter /\ used.call < MaxCalls /\ used' = [used EXCEPT !.call = @ + 1]

StartRead(p, k) ==
    /\ Start(p, "read", k, 0, "resolve")
    /\ Asking
    /\ UNCHANGED <<entry, cell, board, writer, cache, alive>>
    /\ Watch

StartList(p, i) ==
    /\ Start(p, "list", NoKey, i, "entry_state")
    /\ Asking
    /\ UNCHANGED <<entry, cell, board, writer, cache, alive>>
    /\ Watch

StartSnapshot(p, i) ==
    /\ Start(p, "snapshot", NoKey, i, "lock")
    /\ Asking
    /\ UNCHANGED <<entry, cell, board, writer, cache, alive>>
    /\ Watch

\* A load moves the reader alone.
Load(p, pc, q) ==
    /\ At(p, pc)
    /\ proc' = [proc EXCEPT ![p] = q]
    /\ UNCHANGED <<entry, cell, board, writer, cache, alive, used>>
    /\ Watch

Reply(q, kind) == [q EXCEPT !.pc = "reply", !.kind = kind]

Retry(q) ==
    IF q.n + 1 < RetryBudget
    THEN [Rest EXCEPT !.op = q.op, !.n = q.n + 1,
                      !.pc = IF q.op = "read" THEN "resolve" ELSE "entry_state",
                      !.key = IF q.op = "read" THEN q.key ELSE NoKey,
                      !.i = IF q.op = "read" THEN 0 ELSE q.i]
    ELSE Reply(q, "again")

NextEntry(q) == [q EXCEPT !.pc = "scan", !.i = @ + 1]

\* The entry found by an earlier read serves while its tenancy stands.
Resolve(p) ==
    LET c == cache[p][proc[p].key]
    IN  Load(p, "resolve",
             IF c.idx # NoEntry /\ entry[c.idx].state = "Active" /\ entry[c.idx].tenancy = c.tenancy
             THEN [proc[p] EXCEPT !.pc = "before", !.i = c.idx]
             ELSE [proc[p] EXCEPT !.pc = "scan"])

ScanState(p) ==
    /\ proc[p].i < Capacity
    /\ Load(p, "scan", IF Mine(p).state = "Active" THEN [proc[p] EXCEPT !.pc = "scan_hash"]
                                                   ELSE NextEntry(proc[p]))

ScanHash(p) ==
    Load(p, "scan_hash", IF Mine(p).hash = proc[p].key THEN [proc[p] EXCEPT !.pc = "scan_tenancy"]
                                                       ELSE NextEntry(proc[p]))

ScanTenancy(p) ==
    Load(p, "scan_tenancy", [proc[p] EXCEPT !.pc = "scan_key", !.tenancy = Mine(p).tenancy])

ScanKey(p) ==
    LET q == proc[p]
        same == Mine(p).key = q.key
    IN  /\ At(p, "scan_key")
        /\ proc' = [proc EXCEPT ![p] = IF same THEN [q EXCEPT !.pc = "before"] ELSE NextEntry(q)]
        /\ cache' = IF same THEN [cache EXCEPT ![p][q.key] = [idx |-> q.i, tenancy |-> q.tenancy]]
                            ELSE cache
        /\ UNCHANGED <<entry, cell, board, writer, alive, used>>
        /\ Watch

ScanEnd(p) ==
    /\ At(p, "scan") /\ proc[p].i = Capacity
    /\ proc' = [proc EXCEPT ![p] = Reply(proc[p], "noent")]
    /\ cache' = [cache EXCEPT ![p][proc[p].key] = Unresolved]
    /\ UNCHANGED <<entry, cell, board, writer, alive, used>>
    /\ Watch

TenancyBefore(p) ==
    LET t == Mine(p).tenancy
    IN  Load(p, "before", IF t = cache[p][proc[p].key].tenancy
                          THEN [proc[p] EXCEPT !.pc = "publish", !.tenancy = t]
                          ELSE Retry(proc[p]))

\* Without a write read() answers ENOMSG at once; read_entry re-checks first.
PublishBefore(p) ==
    LET q == [proc[p] EXCEPT !.publish = Mine(p).publish]
    IN  Load(p, "publish",
             IF q.publish \div 2 > 0 THEN [q EXCEPT !.pc = "len"]
             ELSE IF q.op = "read" THEN Reply(q, "nomsg") ELSE [q EXCEPT !.pc = "after"])

\* The cell readers are on: the one of the last completed write.
Shown(p) == cell[proc[p].i][(proc[p].publish \div 2) % 2]

LoadLen(p) == Load(p, "len", [proc[p] EXCEPT !.pc = "data", !.len = Shown(p).len])

LoadData(p) == Load(p, "data", [proc[p] EXCEPT !.pc = "after", !.data = Shown(p).data])

\* Mutant of Intact: one write too many is let through.
IntactLate(before, after) ==
    after - 2 * (before \div 2) \in 0..3

\* The cell is clobbered once the second write after the one read starts; the
\* unsigned difference is large when publish went back.
Intact(before, after) ==
    after - 2 * (before \div 2) \in 0..2

PublishAfter(p) ==
    LET q == proc[p]
    IN  Load(p, "after", [q EXCEPT !.pc = "verify",
                                   !.fresh = q.publish \div 2 = 0 \/ Intact(q.publish, Mine(p).publish)])

TenancyAfter(p) ==
    LET q == proc[p]
    IN  Load(p, "verify", IF Mine(p).tenancy # q.tenancy \/ ~q.fresh THEN Retry(q)
                          ELSE IF q.op = "read" THEN Reply(q, "value")
                          ELSE [q EXCEPT !.pc = "entry_after"])

EntryState(p) ==
    Load(p, "entry_state",
         IF Mine(p).state = "Active" THEN [proc[p] EXCEPT !.pc = "entry_tenancy"]
         ELSE IF proc[p].op = "snapshot" THEN [proc[p] EXCEPT !.pc = "unlock"] ELSE Rest)

EntryTenancy(p) ==
    Load(p, "entry_tenancy", [proc[p] EXCEPT !.pc = "entry_key", !.tenancy = Mine(p).tenancy])

EntryKey(p) ==
    Load(p, "entry_key", [proc[p] EXCEPT !.pc = "publish", !.key = Mine(p).key])

EntryStateAfter(p) ==
    LET q == proc[p]
    IN  Load(p, "entry_after",
             IF Mine(p).state # "Active" THEN Retry(q)
             ELSE Reply(q, IF q.publish \div 2 > 0 THEN "value"
                           ELSE IF q.op = "snapshot" THEN "unwritten" ELSE "listed"))

Return(p) ==
    Load(p, "reply", IF proc[p].op = "snapshot" THEN [proc[p] EXCEPT !.pc = "unlock"] ELSE Rest)

-----------------------------------------------------------------------------
(***************************************************************************)
(* wait(): publish holds the change_seq the caller saw last.               *)
(***************************************************************************)
StartWait(p) ==
    /\ alive[p] /\ proc[p].pc = "idle" /\ "wait" \in Jobs[p]
    /\ Asking
    /\ proc' = [proc EXCEPT ![p] = [Rest EXCEPT !.pc = "look", !.op = "wait", !.publish = board.change]]
    /\ UNCHANGED <<entry, cell, board, writer, cache, alive>>
    /\ Watch

Changed(p) == board.change # proc[p].publish

\* fresh: the timeout has passed.
Look(p) == Load(p, "look", IF Changed(p) \/ proc[p].fresh THEN Rest ELSE [proc[p] EXCEPT !.pc = "enlist"])

Enlist(p) ==
    /\ At(p, "enlist")
    /\ board' = [board EXCEPT !.waiters = @ + 1]
    /\ Goto(p, "relook")
    /\ UNCHANGED <<entry, cell, writer, cache, alive, used>>
    /\ Watch

\* Mutant of Relook: the change of a writer that saw no waiter is slept over.
RelookNot(p) == Load(p, "relook", [proc[p] EXCEPT !.pc = "asleep"])

Relook(p) == Load(p, "relook", [proc[p] EXCEPT !.pc = IF Changed(p) THEN "leave" ELSE "sleep"])

\* The low half of the counter is what the kernel compares.
SameWord(p) == (board.change - proc[p].publish) % FutexSpan = 0

\* futex_wait(): the kernel compares and parks in one step.
FutexWait(p) == Load(p, "sleep", [proc[p] EXCEPT !.pc = IF SameWord(p) THEN "asleep" ELSE "leave"])

TimeOut(p) == Load(p, "asleep", [proc[p] EXCEPT !.pc = "leave", !.fresh = TRUE])

\* Mutant of Leave: the waiter is taken off the count twice.
LeaveTwice(p) ==
    /\ At(p, "leave")
    /\ board' = [board EXCEPT !.waiters = @ - 2]
    /\ Goto(p, "look")
    /\ UNCHANGED <<entry, cell, writer, cache, alive, used>>
    /\ Watch

Leave(p) ==
    /\ At(p, "leave")
    /\ board' = [board EXCEPT !.waiters = @ - 1]
    /\ Goto(p, "look")
    /\ UNCHANGED <<entry, cell, writer, cache, alive, used>>
    /\ Watch

-----------------------------------------------------------------------------
Crash(p) ==
    /\ p \in Mortal /\ alive[p]
    /\ used.crash < MaxCrashes
    /\ alive' = [alive EXCEPT ![p] = FALSE]
    /\ used' = [used EXCEPT !.crash = @ + 1]
    /\ UNCHANGED <<entry, cell, board, proc, writer, cache>>
    /\ Watch

LockStep(p) == LockFree(p) \/ LockSteal(p) \/ Repair(p) \/ LockBusy(p) \/ Unlock(p)

DeclareStep(p) ==
    \/ \E k \in KeysOf[p] : StartDeclare(p, k)
    \/ FindHeld(p) \/ FindFree(p) \/ TakeOwner(p) \/ TakeTenancy(p)
    \/ Claim(p) \/ ResetPublish(p) \/ StoreKey(p) \/ StoreIdentity(p) \/ BumpTenancy(p) \/ Activate(p)

SweepStep(p) ==
    \/ StartSweep(p) \/ SweepEntry(p) \/ ClearIdentity(p) \/ PublishFree(p) \/ SweepDone(p)

WriterStep(p) ==
    \/ StartWrite(p) \/ WriteCheck(p) \/ WriteMark(p) \/ WriteData(p) \/ WriteLen(p) \/ WriteDone(p)
    \/ StartRelease(p) \/ Disown(p) \/ LeaveTenancy(p)
    \/ Bump(p) \/ Wake(p)

ReadStep(p) ==
    \/ \E k \in KeysOf[p] : StartRead(p, k)
    \/ \E i \in Entries : StartList(p, i) \/ StartSnapshot(p, i)
    \/ Resolve(p) \/ ScanState(p) \/ ScanHash(p) \/ ScanTenancy(p) \/ ScanKey(p) \/ ScanEnd(p)
    \/ TenancyBefore(p) \/ PublishBefore(p) \/ LoadLen(p) \/ LoadData(p) \/ PublishAfter(p)
    \/ TenancyAfter(p) \/ EntryState(p) \/ EntryTenancy(p) \/ EntryKey(p) \/ EntryStateAfter(p)
    \/ Return(p)

WaitStep(p) ==
    \/ StartWait(p) \/ Look(p) \/ Enlist(p) \/ Relook(p) \/ FutexWait(p) \/ TimeOut(p) \/ Leave(p)

Next == \E p \in Procs :
    \/ LockStep(p) \/ DeclareStep(p) \/ SweepStep(p)
    \/ WriterStep(p) \/ ReadStep(p) \/ WaitStep(p) \/ Crash(p)

Spec == Init /\ [][Next]_vars

-----------------------------------------------------------------------------
(***************************************************************************)
(* Properties.                                                             *)
(***************************************************************************)
PCs == {"idle", "lock", "repair", "unlock", "find", "own", "take", "claim", "reset", "name",
        "identify", "tenant", "activate", "sweep", "clear", "free", "bump", "wake",
        "check", "mark", "put_data", "put_len", "done", "disown", "leave_tenancy",
        "resolve", "scan", "scan_hash", "scan_tenancy", "scan_key", "before", "publish", "len",
        "data", "after", "verify", "entry_state", "entry_tenancy", "entry_key", "entry_after",
        "reply", "look", "enlist", "relook", "sleep", "asleep", "leave"}

\* The fields stay in their ranges; an index in use is an entry of the board.
TypeOK ==
    /\ entry \in [Entries -> [state : {"Free", "Claiming", "Active"}, publish : Nat, tenancy : Nat,
                              owner : Procs \cup {NoProc}, hash : Keys \cup {NoKey},
                              key : Keys \cup {NoKey}]]
    /\ cell \in [Entries -> [0..1 -> [data : Nat, len : Nat]]]
    /\ board \in [lock : Procs \cup {NoProc}, change : Nat, waiters : Nat]
    /\ proc \in [Procs -> [pc : PCs, op : Ops \cup {"none"}, key : Keys \cup {NoKey},
                           i : 0..Capacity, n : Nat, tenancy : Nat, publish : Nat, len : Nat,
                           data : Nat, fresh : BOOLEAN,
                           kind : {"none", "value", "noent", "nomsg", "unwritten", "listed", "again"}]]
    /\ writer \in [Procs -> [idx : 0..Capacity, tenancy : Nat, writes : Nat, key : Keys \cup {NoKey}]]
    /\ cache \in [Procs -> [Keys -> [idx : 0..Capacity, tenancy : Nat]]]
    /\ alive \in [Procs -> BOOLEAN]
    /\ \A p \in Procs : proc[p].i = NoEntry => proc[p].pc \in {"scan", "sweep", "unlock", "bump", "wake", "reply"}

\* Program counters between taking the lock and letting go of it.
Inside(p) ==
    LET q == proc[p]
    IN  \/ q.pc \in {"repair", "find", "own", "take", "claim", "reset", "name", "identify", "tenant",
                     "activate", "sweep", "clear", "free", "disown", "leave_tenancy", "unlock"}
        \/ q.op # "write" /\ q.pc \in {"bump", "wake"}
        \/ q.op = "snapshot" /\ q.pc # "lock"

\* A live process inside a locked operation holds the board lock, whichever
\* dead holders it was taken from (board_lock).
HolderIsAlone == \A p \in Procs : alive[p] /\ Inside(p) => board.lock = p

\* No two entries that readers can resolve carry one key, although claims,
\* take-overs and sweeps may be cut short anywhere (declare).
KeyIsUnique == \A i, j \in Entries : i # j /\ entry[i].state = "Active" /\ entry[j].state = "Active"
                   => entry[i].hash = NoKey \/ entry[i].hash # entry[j].hash

\* A live Writer's entry stays its own: no take-over, sweep or repair moves
\* the tenancy under it or loses count of its writes (declare, sweep_locked).
WriterKeepsEntry ==
    \A p \in Procs : alive[p] /\ writer[p] # NoWriter /\ proc[p].pc # "leave_tenancy" =>
        LET e == entry[writer[p].idx]
        IN  /\ e.state = "Active" /\ e.owner = p /\ e.hash = writer[p].key /\ e.key = writer[p].key
            /\ e.tenancy = writer[p].tenancy
            /\ e.publish \div 2 = writer[p].writes

\* While nobody holds the lock no entry is half claimed or half freed: every
\* unlock leaves a normal board behind, repairs included (repair_board).
UnlockedIsClean == board.lock = NoProc => \A i \in Entries : ~Residue(entry[i])

\* A waiter that sleeps although the board changed has its wake under way, or
\* lost with a process that died between the bump and the wake
\* (notify_change, wait).
SleeperIsOwed ==
    \A p \in Procs : At(p, "asleep") /\ Changed(p) => \E q \in Procs : proc[q].pc = "wake"

\* The board is a key store for its readers: what they are told was true of
\* the key at some moment of the call (Reader::read, read_entry, snapshot).
StoreReply == [p \in Procs |->
    LET q == proc[p]
    IN  IF q.pc = "reply" /\ alive[p]
        THEN [kind |-> q.kind, key |-> q.key, count |-> q.publish \div 2, len |-> q.len, data |-> q.data]
        ELSE [kind |-> "none", key |-> 0, count |-> 0, len |-> 0, data |-> 0]]

Store == INSTANCE KeyStore WITH
    Readers <- Procs, Values <- 1..MaxWrites, NoValue <- 0,
    held <- [k \in Keys |-> Held(k)], reply <- StoreReply

\* Each step of the board is a step of the key store or none.
ReadsAreTrue == Store!StoreSpec
=============================================================================
