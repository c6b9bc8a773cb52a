-------------------------- MODULE BlackboardProofs --------------------------
(***************************************************************************)
(* The board lock and what it protects: one inductive invariant for any    *)
(* number of processes, keys and entries, in which every process may die   *)
(* at any step.  Above it a second one, for the readers that take no lock: *)
(* from the two together the board implements KeyStore.                    *)
(***************************************************************************)
EXTENDS Blackboard, FiniteSetTheorems, WellFoundedInduction, TLAPS

EntryType == [state : {"Free", "Claiming", "Active"}, publish : Nat, tenancy : Nat,
              owner : Procs \cup {NoProc}, hash : Keys \cup {NoKey}, key : Keys \cup {NoKey}]

ProcType == [pc : PCs, op : Ops \cup {"none"}, key : Keys \cup {NoKey},
             i : 0..Capacity, n : Nat, tenancy : Nat, publish : Nat, len : Nat,
             data : Nat, fresh : BOOLEAN,
             kind : {"none", "value", "noent", "nomsg", "unwritten", "listed", "again"}]

WriterType == [idx : 0..Capacity, tenancy : Nat, writes : Nat, key : Keys \cup {NoKey}]

UsedType == [declare : Nat, write : Nat, sweep : Nat, call : Nat, crash : Nat]

\* The program counters of each operation.
ClaimPCs == {"reset", "name", "identify", "tenant", "activate"}

ViewPCs == {"publish", "len", "data", "after", "verify", "reply"}

EntryPCs == ViewPCs \cup {"entry_state", "entry_tenancy", "entry_key", "entry_after"}

WaitPCs == {"relook", "sleep", "asleep", "leave"}

Placed(q) ==
    /\ q.op = "none" => q.pc = "idle"
    /\ q.op = "declare" => q.pc \in {"lock", "repair", "find", "own", "take", "claim", "sweep", "clear",
                                     "free", "bump", "wake", "unlock"} \cup ClaimPCs
    /\ q.op = "sweep" => q.pc \in {"lock", "repair", "sweep", "clear", "free", "bump", "wake", "unlock"}
    /\ q.op = "write" => q.pc \in {"check", "mark", "put_data", "put_len", "done", "bump", "wake"}
    /\ q.op = "release" => q.pc \in {"lock", "repair", "disown", "leave_tenancy", "bump", "wake", "unlock"}
    /\ q.op = "read" => q.pc \in {"resolve", "scan", "scan_hash", "scan_tenancy", "scan_key",
                                  "before"} \cup ViewPCs
    /\ q.op = "list" => q.pc \in EntryPCs
    /\ q.op = "snapshot" => q.pc \in {"lock", "repair", "unlock"} \cup EntryPCs
    /\ q.op = "wait" => q.pc \in {"look", "enlist"} \cup WaitPCs

\* A process with locals q and Writer w: where it may be, and that it works on
\* its Writer's entry.
LocalOK(q, w) ==
    /\ Placed(q)
    /\ q.i = NoEntry => q.pc \in {"scan", "sweep", "unlock", "bump", "wake", "reply"}
    /\ q.pc = "repair" => q.n \in Entries
    /\ q.op \in {"declare", "read"} => q.key \in Keys
    /\ w # NoWriter => w.idx \in Entries /\ w.key \in Keys
    /\ q.op = "write" => w # NoWriter /\ q.i = w.idx
    /\ q.op = "release" /\ q.pc \in {"lock", "disown"} => w # NoWriter /\ q.i = w.idx
    /\ q.op = "release" /\ q.pc = "repair" => w # NoWriter /\ q.n = w.idx
    /\ q.op = "declare" /\ q.pc \notin {"bump", "wake", "unlock"} => w = NoWriter

\* TypeOK with the histories the locals are taken from.
Typed ==
    /\ entry \in [Entries -> EntryType]
    /\ cell \in [Entries -> [0..1 -> [data : Nat, len : Nat]]]
    /\ board \in [lock : Procs \cup {NoProc}, change : Nat, waiters : Nat]
    /\ proc \in [Procs -> ProcType]
    /\ writer \in [Procs -> WriterType]
    /\ cache \in [Procs -> [Keys -> [idx : 0..Capacity, tenancy : Nat]]]
    /\ alive \in [Procs -> BOOLEAN]
    /\ used \in UsedType

Locals == \A p \in Procs : LocalOK(proc[p], writer[p])

Clean(j) == ~Residue(entry[j])

CleanBut(i) == \A j \in Entries \ {i} : Clean(j)

\* What the live holder of the lock, with locals q, may rely on.
Scene(p, q) ==
    LET e == entry[q.i]
    IN  /\ q.pc = "repair" => \A j \in Entries : j < q.i => Clean(j)
        /\ q.pc \notin ClaimPCs \cup {"repair", "free"} => \A j \in Entries : Clean(j)
        /\ q.pc \in ClaimPCs \cup {"free"} => CleanBut(q.i)
        /\ q.pc = "claim" => e.state = "Free"
        /\ q.pc \in ClaimPCs => e.state = "Claiming"
        /\ q.pc \in ClaimPCs \ {"reset"} => e.publish = 0
        /\ q.pc \in {"identify", "tenant", "activate"} => e.key = q.key
        /\ q.pc \in {"tenant", "activate"} => e.owner = p /\ e.hash = q.key
        /\ q.pc \in {"own", "take"} => e.state = "Active" /\ e.hash = q.key /\ e.key = q.key
        /\ q.pc = "own" => Takeable(e)
        /\ q.pc = "take" => e.owner = p
        /\ q.pc = "clear" => e.state = "Active" /\ Dead(e.owner)
        /\ q.pc = "free" => e.state = "Active" /\ e.hash = NoKey /\ e.owner = NoProc
        /\ q.pc = "leave_tenancy" => e.state = "Active" /\ e.owner = NoProc
        /\ q.op = "declare" /\ q.pc \in ClaimPCs \cup {"claim", "sweep", "clear", "free"} =>
               \A j \in Entries : entry[j].state = "Active" => entry[j].hash # q.key
        /\ q.op = "declare" /\ q.pc \in {"sweep", "clear", "free"} /\ q.n > 0 => FreeEntries # {}

Scenes == \A p \in Procs : alive[p] /\ Inside(p) => Scene(p, proc[p])

\* A reader that finds the hash finds the key.
Keyed == \A i \in Entries : entry[i].state = "Active" /\ entry[i].hash # NoKey => entry[i].key = entry[i].hash

Keeps(p, w) ==
    LET e == entry[w.idx]
    IN  /\ e.state = "Active" /\ e.owner = p /\ e.hash = w.key /\ e.key = w.key
        /\ e.tenancy = w.tenancy
        /\ e.publish \div 2 = w.writes

Writers == \A p \in Procs : alive[p] /\ writer[p] # NoWriter => Keeps(p, writer[p])

\* Who is on the waiters count; the dead stay on it.
Waiting == {p \in Procs : proc[p].pc \in WaitPCs}

WaitersExact == board.waiters = Cardinality(Waiting)

\* What the lock is for ...
LockInv ==
    /\ Typed /\ Locals
    /\ HolderIsAlone /\ Scenes /\ UnlockedIsClean
    /\ Keyed /\ KeyIsUnique /\ Writers

\* ... and the count of waiters that a notifier looks at.
BoardInv == LockInv /\ WaitersExact

\* A waiter compares with a change_seq of the past.
SawBefore ==
    \A p \in Procs : proc[p].pc \in {"look", "enlist"} \cup WaitPCs => proc[p].publish <= board.change

\* What the wake of a change is for.
WaitInv == SawBefore /\ SleeperIsOwed

\* The futex word has not gone all the way round between the caller's load of
\* change_seq and the kernel's comparison.
NoWrap ==
    \A p \in Procs : At(p, "sleep") => board.change - proc[p].publish < FutexSpan

\* What every step keeps: the board whatever the word does, and the debt to the
\* sleepers as long as it does not wrap.
WaitKept == NoWrap /\ WaitInv => WaitInv'

BoardKept == BoardInv' /\ WaitKept

-----------------------------------------------------------------------------
(***************************************************************************)
(* The operators the model is built from.                                  *)
(***************************************************************************)
\* The least number of a set is one of the set.
LEMMA MinIn ==
    ASSUME NEW S \in SUBSET Nat, S # {}
    PROVE  Min(S) \in S
<1> DEFINE R == OpToRel(<, Nat)
<1>1. IsWellFoundedOn(R, Nat)
    BY NatLessThanWellFounded
<1>2. \A a, b \in Nat : a < b => <<a, b>> \in R
    BY DEF OpToRel
<1> HIDE DEF R
<1>3. PICK x \in S : \A y \in S : ~ (<<y, x>> \in R)
    BY <1>1, WFMin
<1>4. ASSUME NEW y \in S PROVE x =< y
    <2>1. x \in Nat /\ y \in Nat
        OBVIOUS
    <2>2. ~(y < x)
        BY <1>2, <1>3, <2>1
    <2> QED
        BY <2>1, <2>2
<1> QED
    BY <1>4 DEF Min

\* The fields of one entry.
LEMMA EntryFields ==
    ASSUME NEW e \in EntryType
    PROVE  /\ e.state \in {"Free", "Claiming", "Active"} /\ e.publish \in Nat /\ e.tenancy \in Nat
           /\ e.owner \in Procs \cup {NoProc} /\ e.hash \in Keys \cup {NoKey} /\ e.key \in Keys \cup {NoKey}
BY DEF EntryType

\* Normalising an entry leaves no residue, and leaves any other entry alone.
LEMMA NormalizedIsClean ==
    ASSUME NEW e \in EntryType
    PROVE  /\ Normalized(e) \in EntryType
           /\ ~Residue(Normalized(e))
           /\ ~Residue(e) => Normalized(e) = e
           /\ Normalized(e).state = "Active" => Normalized(e) = e
<1>1. Unowned(e) \in EntryType /\ [Unowned(e) EXCEPT !.state = "Free"] \in EntryType
    BY DEF EntryType, Unowned
<1>2. /\ [Unowned(e) EXCEPT !.state = "Free"].state = "Free"
      /\ [Unowned(e) EXCEPT !.state = "Free"].hash = NoKey
      /\ [Unowned(e) EXCEPT !.state = "Free"].owner = NoProc
    BY DEF EntryType, Unowned
<1>3. CASE Residue(e)
    <2>1. Normalized(e) = [Unowned(e) EXCEPT !.state = "Free"]
        BY <1>3 DEF Normalized
    <2>2. /\ Normalized(e).state = "Free" /\ Normalized(e).hash = NoKey /\ Normalized(e).owner = NoProc
          /\ Normalized(e) \in EntryType
        BY <1>1, <1>2, <2>1
    <2> QED
        BY <1>3, <2>2 DEF Residue
<1>4. CASE ~Residue(e)
    <2>1. Normalized(e) = e
        BY <1>4 DEF Normalized
    <2> QED
        BY <1>4, <2>1
<1> QED
    BY <1>3, <1>4

\* The locals at rest are well typed and ask for nothing.
LEMMA RestIsIdle ==
    /\ Rest \in ProcType /\ Rest.pc = "idle" /\ Rest.op = "none" /\ Rest.i = 0 /\ Rest.n = 0
    /\ Rest.publish = 0 /\ Rest.key = NoKey
BY BoardAssumption DEF Rest, ProcType, PCs

\* A step that only moves p's program counter.
LEMMA GotoFields ==
    ASSUME Typed, NEW p \in Procs, NEW pc \in PCs, Goto(p, pc)
    PROVE  /\ proc' \in [Procs -> ProcType] /\ \A q \in Procs \ {p} : proc'[q] = proc[q]
           /\ proc'[p].pc = pc /\ proc'[p].op = proc[p].op /\ proc'[p].key = proc[p].key
           /\ proc'[p].i = proc[p].i /\ proc'[p].n = proc[p].n /\ proc'[p].publish = proc[p].publish
<1>1. proc \in [Procs -> ProcType] /\ proc[p] \in ProcType
    BY DEF Typed
<1>2. proc' = [proc EXCEPT ![p] = [proc[p] EXCEPT !.pc = pc]]
    BY <1>1 DEF Goto
<1>3. [proc[p] EXCEPT !.pc = pc] \in ProcType
    BY <1>1 DEF ProcType
<1> QED
    BY <1>1, <1>2, <1>3 DEF ProcType

\* A step that also moves its loop index and counter.
LEMMA GotoWithFields ==
    ASSUME Typed, NEW p \in Procs, NEW pc \in PCs, NEW i \in 0..Capacity, NEW n \in Nat,
           GotoWith(p, pc, i, n)
    PROVE  /\ proc' \in [Procs -> ProcType] /\ \A q \in Procs \ {p} : proc'[q] = proc[q]
           /\ proc'[p].pc = pc /\ proc'[p].op = proc[p].op /\ proc'[p].key = proc[p].key
           /\ proc'[p].i = i /\ proc'[p].n = n /\ proc'[p].publish = proc[p].publish
<1>1. proc \in [Procs -> ProcType] /\ proc[p] \in ProcType
    BY DEF Typed
<1>2. proc' = [proc EXCEPT ![p] = [proc[p] EXCEPT !.pc = pc, !.i = i, !.n = n]]
    BY <1>1 DEF GotoWith
<1>3. [proc[p] EXCEPT !.pc = pc, !.i = i, !.n = n] \in ProcType
    BY <1>1 DEF ProcType
<1> QED
    BY <1>1, <1>2, <1>3 DEF ProcType

\* A step that gives p new locals.
LEMMA SetProc ==
    ASSUME Typed, NEW p \in Procs, NEW x \in ProcType, proc' = [proc EXCEPT ![p] = x]
    PROVE  /\ proc' \in [Procs -> ProcType] /\ \A q \in Procs \ {p} : proc'[q] = proc[q]
           /\ proc'[p] = x
BY DEF Typed

\* A step that stores entry i.
LEMMA PutFields ==
    ASSUME Typed, NEW i \in Entries, NEW e \in EntryType, Put(i, e)
    PROVE  /\ entry' \in [Entries -> EntryType] /\ \A j \in Entries \ {i} : entry'[j] = entry[j]
           /\ entry'[i] = e
BY DEF Typed, Put

-----------------------------------------------------------------------------
(***************************************************************************)
(* What a step must show to keep the invariant, by what it touches.        *)
(***************************************************************************)
BoardType == [lock : Procs \cup {NoProc}, change : Nat, waiters : Nat]

CellType == [Entries -> [0..1 -> [data : Nat, len : Nat]]]

CacheType == [Procs -> [Keys -> [idx : 0..Capacity, tenancy : Nat]]]

\* Away from the ends of the loops the index is one of an entry.
LEMMA IndexInUse ==
    ASSUME Typed, Locals, NEW p \in Procs,
           proc[p].pc \notin {"scan", "sweep", "unlock", "bump", "wake", "reply"}
    PROVE  proc[p].i \in Entries
<1>1. proc[p].i \in 0..Capacity /\ proc[p].i # Capacity
    BY DEF Typed, ProcType, Locals, LocalOK, NoEntry
<1> QED
    BY <1>1, BoardAssumption DEF Entries

\* What a process relies on stands while no entry changes and nobody dies.
LEMMA SceneSame ==
    ASSUME NEW p, NEW q, UNCHANGED <<entry, alive>>
    PROVE  Scene(p, q)' <=> Scene(p, q)
BY DEF Scene, Clean, CleanBut, Takeable, Dead, FreeEntries, Residue

\* A step that touches no entry: p's locals, its Writer, or a word next to the
\* lock.
LEMMA LocalStep ==
    ASSUME LockInv, NEW p \in Procs, UNCHANGED <<entry, alive>>,
           board' \in BoardType, board'.lock = board.lock,
           cell' \in CellType, cache' \in CacheType, used' \in UsedType,
           proc' \in [Procs -> ProcType], writer' \in [Procs -> WriterType],
           \A q \in Procs \ {p} : proc'[q] = proc[q] /\ writer'[q] = writer[q],
           LocalOK(proc'[p], writer'[p]),
           writer'[p] = writer[p] \/ writer'[p] = NoWriter,
           alive[p] /\ Inside(p)' => Inside(p) /\ Scene(p, proc'[p])
    PROVE  LockInv'
<1>1. Typed'
    BY DEF LockInv, Typed, BoardType, CellType, CacheType
<1>2. Locals'
    BY DEF LockInv, Locals
<1>3. ASSUME NEW q \in Procs \ {p} PROVE Inside(q)' <=> Inside(q)
    BY DEF Inside
<1>4. HolderIsAlone'
    BY <1>3 DEF LockInv, HolderIsAlone
<1>5. Scenes'
    <2> SUFFICES ASSUME NEW q \in Procs, alive'[q], Inside(q)' PROVE Scene(q, proc[q])'
        BY DEF Scenes
    <2>1. Scene(q, proc'[q])
        BY <1>3 DEF LockInv, Scenes
    <2>2. \A x : Scene(q, x)' <=> Scene(q, x)
        BY SceneSame
    <2> QED
        BY <2>1, <2>2
<1>6. UnlockedIsClean' /\ Keyed' /\ KeyIsUnique'
    BY DEF LockInv, UnlockedIsClean, Keyed, KeyIsUnique, Residue
<1>7. Writers'
    BY DEF LockInv, Writers, Keeps
<1> QED
    BY <1>1, <1>2, <1>4, <1>5, <1>6, <1>7 DEF LockInv

\* The holder of the lock stores entry i, which no other live Writer owns.
LEMMA LockedStep ==
    ASSUME LockInv, NEW p \in Procs, alive[p], Inside(p),
           UNCHANGED <<cell, cache, alive, board, used>>,
           NEW i \in Entries, entry' \in [Entries -> EntryType],
           \A j \in Entries \ {i} : entry'[j] = entry[j],
           proc' \in [Procs -> ProcType], writer' \in [Procs -> WriterType],
           \A q \in Procs \ {p} : proc'[q] = proc[q] /\ writer'[q] = writer[q],
           LocalOK(proc'[p], writer'[p]),
           Inside(p)', Scene(p, proc[p])',
           \/ entry'[i] = entry[i] \/ entry[i].state # "Active" \/ entry[i].hash = NoKey
           \/ Takeable(entry[i]) \/ entry[i].owner = p,
           writer'[p] # NoWriter => Keeps(p, writer[p])',
           entry'[i].state = "Active" /\ entry'[i].hash # NoKey =>
               /\ entry'[i].key = entry'[i].hash
               /\ \A j \in Entries \ {i} : entry[j].state = "Active" => entry[j].hash # entry'[i].hash
    PROVE  LockInv'
<1>1. Typed'
    BY DEF LockInv, Typed
<1>2. Locals'
    BY DEF LockInv, Locals
<1>3. board.lock = p /\ p # NoProc
    BY BoardAssumption DEF LockInv, HolderIsAlone
<1>4. ASSUME NEW q \in Procs \ {p}, alive[q] PROVE ~Inside(q) /\ ~Inside(q)'
    <2>1. ~Inside(q)
        BY <1>3, <1>4 DEF LockInv, HolderIsAlone
    <2> QED
        BY <2>1 DEF Inside
<1>5. HolderIsAlone' /\ Scenes'
    BY <1>3, <1>4 DEF HolderIsAlone, Scenes
<1>6. UnlockedIsClean'
    BY <1>3 DEF UnlockedIsClean
<1>7. Keyed'
    BY DEF LockInv, Keyed
<1>8. KeyIsUnique'
    <2> SUFFICES ASSUME NEW a \in Entries, NEW b \in Entries, a # b,
                        entry'[a].state = "Active", entry'[b].state = "Active",
                        entry'[a].hash # NoKey, entry'[a].hash = entry'[b].hash
                 PROVE  FALSE
        BY DEF KeyIsUnique
    <2>1. CASE a # i /\ b # i
        BY <2>1 DEF LockInv, KeyIsUnique
    <2>2. CASE a = i
        BY <2>2
    <2>3. CASE b = i
        BY <2>3
    <2> QED
        BY <2>1, <2>2, <2>3
<1>9. Writers'
    <2> SUFFICES ASSUME NEW q \in Procs, alive[q], writer'[q] # NoWriter PROVE Keeps(q, writer[q])'
        BY DEF Writers
    <2>1. CASE q = p
        BY <2>1
    <2>2. CASE q # p
        <3>1. /\ writer'[q] = writer[q] /\ writer[q] # NoWriter /\ Keeps(q, writer[q])
              /\ writer[q].idx \in Entries /\ writer[q].key # NoKey /\ q # NoProc
            BY <2>2, BoardAssumption DEF LockInv, Writers, Locals, LocalOK
        <3>2. entry'[writer[q].idx] = entry[writer[q].idx]
            BY <2>2, <3>1 DEF Keeps, Takeable, Dead
        <3> QED
            BY <3>1, <3>2 DEF Keeps
    <2> QED
        BY <2>1, <2>2
<1> QED
    BY <1>1, <1>2, <1>5, <1>6, <1>7, <1>8, <1>9 DEF LockInv

\* A live Writer stores the publish word of its own entry, lock or no lock.
LEMMA PublishStep ==
    ASSUME LockInv, NEW p \in Procs, alive[p], proc[p].op = "write", proc'[p].op = "write",
           UNCHANGED <<cell, cache, alive, board, used>>,
           entry' \in [Entries -> EntryType],
           \A j \in Entries \ {proc[p].i} : entry'[j] = entry[j],
           LET e == entry[proc[p].i]
               f == entry'[proc[p].i]
           IN  /\ f.state = e.state /\ f.owner = e.owner /\ f.hash = e.hash /\ f.key = e.key
               /\ f.tenancy = e.tenancy,
           proc' \in [Procs -> ProcType], writer' \in [Procs -> WriterType],
           \A q \in Procs \ {p} : proc'[q] = proc[q] /\ writer'[q] = writer[q],
           LocalOK(proc'[p], writer'[p]),
           Keeps(p, writer[p])'
    PROVE  LockInv'
<1> DEFINE i == proc[p].i
<1>0. /\ i \in Entries /\ writer[p] # NoWriter /\ i = writer[p].idx /\ Placed(proc[p])
      /\ entry[i].state = "Active" /\ entry[i].owner = p /\ p # NoProc /\ entry[i].hash \in Keys
      /\ Placed(proc'[p])
    BY BoardAssumption DEF LockInv, Locals, LocalOK, Writers, Keeps
<1> HIDE DEF i
<1>a. \A j \in Entries \ {i} : entry'[j] = entry[j]
    BY DEF i
<1>b. /\ entry'[i].state = entry[i].state /\ entry'[i].owner = entry[i].owner
      /\ entry'[i].hash = entry[i].hash /\ entry'[i].key = entry[i].key
      /\ entry'[i].tenancy = entry[i].tenancy
    BY DEF i
<1>c. \A j \in Entries : /\ entry'[j].state = entry[j].state /\ entry'[j].owner = entry[j].owner
                         /\ entry'[j].hash = entry[j].hash /\ entry'[j].key = entry[j].key
                         /\ entry'[j].tenancy = entry[j].tenancy
    BY <1>a, <1>b
<1>1. Typed'
    BY DEF LockInv, Typed
<1>2. Locals'
    BY DEF LockInv, Locals
<1>3. ~Inside(p) /\ ~Inside(p)' /\ \A q \in Procs \ {p} : Inside(q)' <=> Inside(q)
    BY <1>0 DEF Inside, Placed
<1>4. HolderIsAlone'
    BY <1>3 DEF LockInv, HolderIsAlone
<1>5. Scenes'
    <2> SUFFICES ASSUME NEW q \in Procs, alive[q], Inside(q)' PROVE Scene(q, proc[q])'
        BY DEF Scenes
    <2>1. q # p /\ Inside(q) /\ Scene(q, proc[q]) /\ proc'[q] = proc[q] /\ LocalOK(proc[q], writer[q])
        BY <1>3 DEF LockInv, Scenes, Locals
    <2> DEFINE x == proc[q]
    <2>3. /\ \A j \in Entries : Clean(j)' <=> Clean(j)
          /\ FreeEntries' = FreeEntries
        BY <1>c DEF Clean, Residue, FreeEntries
    <2>4. x.pc \notin {"scan", "sweep", "unlock", "bump", "wake", "reply"} => x.i \in Entries
        BY IndexInUse DEF LockInv
    <2>2. ASSUME x.pc \in ClaimPCs PROVE x.i \in Entries /\ x.i # i
        BY <1>0, <2>1, <2>2, <2>4 DEF Scene, ClaimPCs
    <2>5. x.i \in Entries => (Takeable(entry[x.i])' <=> Takeable(entry[x.i]))
        BY <1>c, <2>1 DEF Takeable, Dead
    <2>6. x.i \in Entries => (Dead(entry[x.i].owner)' <=> Dead(entry[x.i].owner))
        BY <1>c, <2>1 DEF Dead
    <2>7. Scene(q, x)
        BY <2>1
    <2>8. proc'[q] = x
        BY <2>1
    <2> QED
        BY <1>a, <1>c, <2>1, <2>2, <2>3, <2>4, <2>5, <2>6 DEF Scene, CleanBut, ClaimPCs
<1>6. UnlockedIsClean' /\ Keyed' /\ KeyIsUnique'
    BY <1>c DEF LockInv, UnlockedIsClean, Keyed, KeyIsUnique, Residue
<1>7. Writers'
    <2> SUFFICES ASSUME NEW q \in Procs, alive[q], writer'[q] # NoWriter PROVE Keeps(q, writer[q])'
        BY DEF Writers
    <2>1. CASE q = p
        BY <2>1
    <2>2. CASE q # p
        <3>1. /\ writer'[q] = writer[q] /\ writer[q] # NoWriter /\ Keeps(q, writer[q])
              /\ writer[q].idx \in Entries
            BY <2>2 DEF LockInv, Writers, Locals, LocalOK
        <3>2. entry'[writer[q].idx] = entry[writer[q].idx]
            BY <1>0, <1>a, <2>2, <3>1 DEF Keeps
        <3> QED
            BY <3>1, <3>2 DEF Keeps
    <2> QED
        BY <2>1, <2>2
<1> QED
    BY <1>1, <1>2, <1>4, <1>5, <1>6, <1>7 DEF LockInv

\* A step of p that no waiter notices.
LEMMA NobodyWaits ==
    ASSUME WaitersExact, NEW p \in Procs,
           \A q \in Procs : alive'[q] => alive[q],
           board'.waiters = board.waiters, board'.change = board.change,
           \A q \in Procs \ {p} : proc'[q] = proc[q],
           proc[p].pc \notin WaitPCs \cup {"wake"}, proc'[p].pc \notin WaitPCs,
           proc'[p].pc \in {"look", "enlist"} => proc'[p].publish <= board.change
    PROVE  WaitersExact' /\ WaitKept
<1>1. Waiting' = Waiting
    BY DEF Waiting
<1>2. WaitersExact'
    BY <1>1 DEF WaitersExact
<1>3. WaitKept
    <2> SUFFICES ASSUME WaitInv PROVE WaitInv'
        BY DEF WaitKept
    <2>1. SawBefore'
        BY DEF WaitInv, SawBefore
    <2>2. ASSUME NEW q \in Procs, At(q, "asleep")', Changed(q)'
          PROVE  \E u \in Procs : proc'[u].pc = "wake"
        <3>1. q # p /\ At(q, "asleep") /\ Changed(q)
            BY <2>2 DEF At, Changed, WaitPCs
        <3>2. PICK u \in Procs : proc[u].pc = "wake"
            BY <3>1 DEF WaitInv, SleeperIsOwed
        <3>3. u # p
            BY <3>2
        <3> QED
            BY <3>2, <3>3
    <2> QED
        BY <2>1, <2>2 DEF WaitInv, SleeperIsOwed
<1> QED
    BY <1>2, <1>3

\* The Writer of a process whose entry a step leaves alone.
LEMMA WriterKept ==
    ASSUME LockInv, NEW p \in Procs, alive[p], UNCHANGED writer,
           \A j \in Entries \ {proc[p].i} : entry'[j] = entry[j],
           \/ entry'[proc[p].i] = entry[proc[p].i] \/ entry[proc[p].i].state # "Active"
           \/ entry[proc[p].i].hash = NoKey \/ entry[proc[p].i].owner # p
    PROVE  writer'[p] # NoWriter => Keeps(p, writer[p])'
<1> SUFFICES ASSUME writer'[p] # NoWriter PROVE Keeps(p, writer[p])'
    OBVIOUS
<1>1. /\ writer[p] # NoWriter /\ Keeps(p, writer[p]) /\ writer[p].idx \in Entries
      /\ writer[p].key # NoKey
    BY BoardAssumption DEF LockInv, Writers, Locals, LocalOK
<1>2. entry'[writer[p].idx] = entry[writer[p].idx]
    BY <1>1 DEF Keeps
<1> QED
    BY <1>1, <1>2 DEF Keeps

-----------------------------------------------------------------------------
(***************************************************************************)
(* declare().                                                              *)
(***************************************************************************)
\* The stores of a claim, up to the one that makes the entry Active.
LEMMA ClaimSteps ==
    ASSUME BoardInv, NEW p \in Procs,
           Claim(p) \/ ResetPublish(p) \/ StoreKey(p) \/ StoreIdentity(p) \/ BumpTenancy(p)
    PROVE  BoardKept
<1> DEFINE i == proc[p].i
           k == proc[p].key
<1>0. /\ LockInv /\ WaitersExact /\ Typed /\ Locals
      /\ alive[p] /\ proc[p].pc \in (ClaimPCs \cup {"claim"}) \ {"activate"}
      /\ UNCHANGED <<cell, board, writer, cache, alive, used>>
    BY DEF BoardInv, LockInv, Claim, ResetPublish, StoreKey, StoreIdentity, BumpTenancy, ClaimStore, At,
           ClaimPCs
<1>1. /\ proc[p].op = "declare" /\ writer[p] = NoWriter /\ k \in Keys
      /\ writer \in [Procs -> WriterType] /\ proc[p] \in ProcType
    BY <1>0 DEF Locals, LocalOK, Placed, ClaimPCs, Typed, ProcType, Ops, EntryPCs, ViewPCs, WaitPCs
<1>2. /\ i \in Entries /\ entry[i] \in EntryType
    BY <1>0, IndexInUse DEF ClaimPCs, Typed
<1>3. Inside(p) /\ Scene(p, proc[p])
    BY <1>0 DEF LockInv, Scenes, Inside, ClaimPCs
<1>4. /\ entry[i].state # "Active" /\ CleanBut(i)
      /\ \A j \in Entries : entry[j].state = "Active" => entry[j].hash # k
    BY <1>0, <1>1, <1>3 DEF Scene, ClaimPCs, CleanBut
<1> HIDE DEF i, k
\* Any of them, by what it leaves in the entry.
<1>5. ASSUME NEW e \in EntryType, NEW next \in ClaimPCs, Put(i, e), Goto(p, next),
             e.state = "Claiming", next # "reset" => e.publish = 0,
             next \in {"identify", "tenant", "activate"} => e.key = k,
             next \in {"tenant", "activate"} => e.owner = p /\ e.hash = k
      PROVE  BoardKept
    <2>1. /\ entry' \in [Entries -> EntryType] /\ \A j \in Entries \ {i} : entry'[j] = entry[j]
          /\ entry'[i] = e
        BY <1>0, <1>2, <1>5, PutFields
    <2>2. /\ proc' \in [Procs -> ProcType] /\ \A q \in Procs \ {p} : proc'[q] = proc[q]
          /\ proc'[p].pc = next /\ proc'[p].op = "declare" /\ proc'[p].key = k /\ proc'[p].i = i
        BY <1>0, <1>1, <1>5, GotoFields DEF PCs, ClaimPCs, i, k
    <2>3. LocalOK(proc'[p], writer'[p])
        BY <1>0, <1>1, <1>2, <2>2, BoardAssumption DEF LocalOK, Placed, ClaimPCs, Entries, NoEntry
    <2>4. Inside(p)'
        BY <2>2 DEF Inside, ClaimPCs
    <2>5. \A j \in Entries \ {i} : Clean(j)'
        BY <1>4, <2>1 DEF CleanBut, Clean, Residue
    <2>6. \A j \in Entries : entry'[j].state = "Active" => entry'[j].hash # k
        BY <1>4, <1>5, <2>1
    <2>7. CleanBut(proc[p].i)'
        BY <2>2, <2>5 DEF CleanBut
    <2>8. Scene(p, proc[p])'
        BY <1>5, <2>1, <2>2, <2>6, <2>7 DEF Scene, ClaimPCs
    <2>9. LockInv'
        BY <1>0, <1>1, <1>2, <1>3, <1>4, <1>5, <2>1, <2>2, <2>3, <2>4, <2>8, LockedStep
    <2>10. WaitersExact' /\ WaitKept
        BY <1>0, <2>2, NobodyWaits DEF ClaimPCs, WaitPCs
    <2> QED
        BY <2>9, <2>10 DEF BoardInv, BoardKept
<1>e. entry[i] \in [state : {"Free", "Claiming", "Active"}, publish : Nat, tenancy : Nat,
                    owner : Procs \cup {NoProc}, hash : Keys \cup {NoKey}, key : Keys \cup {NoKey}]
    BY <1>2 DEF EntryType
<1>s. /\ proc[p].pc \in ClaimPCs => entry[i].state = "Claiming"
      /\ proc[p].pc \in {"name", "identify", "tenant"} => entry[i].publish = 0
      /\ proc[p].pc \in {"identify", "tenant"} => entry[i].key = k
      /\ proc[p].pc = "tenant" => entry[i].owner = p /\ entry[i].hash = k
    BY <1>3 DEF Scene, ClaimPCs, i, k
<1>6. CASE Claim(p)
    <2>1. Put(i, [entry[i] EXCEPT !.state = "Claiming"]) /\ Goto(p, "reset")
        BY <1>6 DEF Claim, ClaimStore, Mine, i
    <2>2. /\ [entry[i] EXCEPT !.state = "Claiming"] \in EntryType
          /\ [entry[i] EXCEPT !.state = "Claiming"].state = "Claiming"
        BY <1>e DEF EntryType
    <2> QED
        BY <1>5, <2>1, <2>2 DEF ClaimPCs
<1>7. CASE ResetPublish(p)
    <2>1. Put(i, [entry[i] EXCEPT !.publish = 0]) /\ Goto(p, "name") /\ proc[p].pc = "reset"
        BY <1>7 DEF ResetPublish, ClaimStore, Mine, i, At
    <2>2. /\ [entry[i] EXCEPT !.publish = 0] \in EntryType
          /\ [entry[i] EXCEPT !.publish = 0].state = "Claiming" /\ [entry[i] EXCEPT !.publish = 0].publish = 0
        BY <1>e, <1>s, <2>1 DEF EntryType, ClaimPCs
    <2> QED
        BY <1>5, <2>1, <2>2 DEF ClaimPCs
<1>8. CASE StoreKey(p)
    <2> DEFINE e == [entry[i] EXCEPT !.key = k]
    <2>1. Put(i, e) /\ Goto(p, "identify") /\ proc[p].pc = "name"
        BY <1>8 DEF StoreKey, ClaimStore, Mine, i, k, At
    <2>2. e \in EntryType /\ e.state = "Claiming" /\ e.publish = 0 /\ e.key = k
        BY <1>1, <1>e, <1>s, <2>1 DEF EntryType, ClaimPCs
    <2> HIDE DEF e
    <2> QED
        BY <1>5, <2>1, <2>2 DEF ClaimPCs
<1>9. CASE StoreIdentity(p)
    <2> DEFINE e == [entry[i] EXCEPT !.owner = p, !.hash = k]
    <2>1. Put(i, e) /\ Goto(p, "tenant") /\ proc[p].pc = "identify"
        BY <1>9 DEF StoreIdentity, ClaimStore, Mine, i, k, At
    <2>2. e \in EntryType /\ e.state = "Claiming" /\ e.publish = 0 /\ e.key = k /\ e.owner = p /\ e.hash = k
        BY <1>1, <1>e, <1>s, <2>1 DEF EntryType, ClaimPCs
    <2> HIDE DEF e
    <2> QED
        BY <1>5, <2>1, <2>2 DEF ClaimPCs
<1>10. CASE BumpTenancy(p)
    <2> DEFINE e == [entry[i] EXCEPT !.tenancy = entry[i].tenancy + 1]
    <2>1. Put(i, e) /\ Goto(p, "activate") /\ proc[p].pc = "tenant"
        BY <1>10 DEF BumpTenancy, ClaimStore, Mine, i, At
    <2>2. e \in EntryType /\ e.state = "Claiming" /\ e.publish = 0 /\ e.key = k /\ e.owner = p /\ e.hash = k
        BY <1>1, <1>e, <1>s, <2>1 DEF EntryType, ClaimPCs
    <2> HIDE DEF e
    <2> QED
        BY <1>5, <2>1, <2>2 DEF ClaimPCs
<1> QED
    BY <1>6, <1>7, <1>8, <1>9, <1>10

\* The store that makes a claimed entry Active: the scan found no other entry
\* with the key, and none got it since.
LEMMA ActivateStep ==
    ASSUME BoardInv, NEW p \in Procs, Activate(p)
    PROVE  BoardKept
<1> DEFINE i == proc[p].i
           k == proc[p].key
           e == [entry[i] EXCEPT !.state = "Active"]
           w == [idx |-> i, tenancy |-> entry[i].tenancy, writes |-> 0, key |-> k]
<1>0. /\ LockInv /\ WaitersExact /\ Typed /\ Locals
      /\ alive[p] /\ proc[p].pc = "activate"
      /\ UNCHANGED <<cell, board, cache, alive, used>>
      /\ Put(i, e) /\ Goto(p, "bump") /\ writer' = [writer EXCEPT ![p] = w]
    BY DEF BoardInv, LockInv, Activate, At, Mine
<1>1. /\ proc[p].op = "declare" /\ k \in Keys /\ proc[p] \in ProcType
    BY <1>0 DEF Locals, LocalOK, Placed, ClaimPCs, Typed, ProcType, Ops, EntryPCs, ViewPCs, WaitPCs
<1>2. /\ i \in Entries /\ entry[i] \in EntryType
    BY <1>0, IndexInUse DEF Typed
<1>3. Inside(p) /\ Scene(p, proc[p])
    BY <1>0 DEF LockInv, Scenes, Inside
<1>4. /\ entry[i].state = "Claiming" /\ CleanBut(i) /\ entry[i].publish = 0 /\ entry[i].key = k
      /\ entry[i].owner = p /\ entry[i].hash = k
      /\ \A j \in Entries : entry[j].state = "Active" => entry[j].hash # k
    BY <1>0, <1>1, <1>3 DEF Scene, ClaimPCs, CleanBut
<1>5. /\ e \in EntryType /\ e.state = "Active" /\ e.hash = k /\ e.key = k /\ e.owner = p
      /\ e.publish = 0 /\ e.tenancy = entry[i].tenancy
    BY <1>2, <1>4 DEF EntryType
<1>6. /\ w \in WriterType /\ w # NoWriter /\ w.idx = i /\ w.tenancy = entry[i].tenancy
      /\ w.writes = 0 /\ w.key = k
    BY <1>1, <1>2, <1>5, BoardAssumption DEF WriterType, NoWriter, Entries, NoEntry, EntryType
<1> HIDE DEF i, k, e, w
<1>7. /\ writer' \in [Procs -> WriterType] /\ writer'[p] = w /\ \A q \in Procs \ {p} : writer'[q] = writer[q]
    BY <1>0, <1>6 DEF Typed
<1>8. /\ entry' \in [Entries -> EntryType] /\ \A j \in Entries \ {i} : entry'[j] = entry[j]
      /\ entry'[i] = e
    BY <1>0, <1>2, <1>5, PutFields
<1>9. /\ proc' \in [Procs -> ProcType] /\ \A q \in Procs \ {p} : proc'[q] = proc[q]
      /\ proc'[p].pc = "bump" /\ proc'[p].op = "declare" /\ proc'[p].key = k /\ proc'[p].i = i
    BY <1>0, <1>1, GotoFields DEF PCs, i, k
<1>10. LocalOK(proc'[p], writer'[p])
    BY <1>1, <1>2, <1>6, <1>7, <1>9, BoardAssumption DEF LocalOK, Placed, ClaimPCs, Entries, NoEntry
<1>11. Inside(p)'
    BY <1>9 DEF Inside
<1>12. \A j \in Entries : Clean(j)'
    BY <1>1, <1>4, <1>5, <1>8, BoardAssumption DEF CleanBut, Clean, Residue
<1>13. Scene(p, proc[p])'
    BY <1>9, <1>12 DEF Scene, ClaimPCs
<1>14. Keeps(p, writer[p])'
    BY <1>5, <1>6, <1>7, <1>8 DEF Keeps
<1>15. LockInv'
    BY <1>0, <1>2, <1>3, <1>4, <1>5, <1>7, <1>8, <1>9, <1>10, <1>11, <1>13, <1>14, LockedStep
<1>16. WaitersExact' /\ WaitKept
    BY <1>0, <1>9, NobodyWaits DEF WaitPCs
<1> QED
    BY <1>15, <1>16 DEF BoardInv, BoardKept

\* Taking over a released or orphaned entry: the owner first ...
LEMMA TakeOwnerStep ==
    ASSUME BoardInv, NEW p \in Procs, TakeOwner(p)
    PROVE  BoardKept
<1> DEFINE i == proc[p].i
           k == proc[p].key
           e == [entry[i] EXCEPT !.owner = p]
<1>0. /\ LockInv /\ WaitersExact /\ Typed /\ Locals
      /\ alive[p] /\ proc[p].pc = "own"
      /\ UNCHANGED <<cell, board, cache, alive, used, writer>>
      /\ Put(i, e) /\ Goto(p, "take")
    BY DEF BoardInv, LockInv, TakeOwner, At, Mine
<1>1. /\ proc[p].op = "declare" /\ k \in Keys /\ proc[p] \in ProcType /\ writer[p] = NoWriter
      /\ writer \in [Procs -> WriterType]
    BY <1>0 DEF Locals, LocalOK, Placed, ClaimPCs, Typed, ProcType, Ops, EntryPCs, ViewPCs, WaitPCs
<1>2. /\ i \in Entries /\ entry[i] \in EntryType
    BY <1>0, IndexInUse DEF Typed
<1>3. Inside(p) /\ Scene(p, proc[p])
    BY <1>0 DEF LockInv, Scenes, Inside
<1>4. /\ entry[i].state = "Active" /\ entry[i].key = k /\ entry[i].hash = k /\ Takeable(entry[i])
      /\ \A j \in Entries : Clean(j)
    BY <1>0, <1>1, <1>3 DEF Scene, ClaimPCs
<1>5. e \in EntryType /\ e.state = "Active" /\ e.hash = k /\ e.key = k /\ e.owner = p
    BY <1>2, <1>4 DEF EntryType
<1> HIDE DEF i, k, e
<1>8. /\ entry' \in [Entries -> EntryType] /\ \A j \in Entries \ {i} : entry'[j] = entry[j]
      /\ entry'[i] = e
    BY <1>0, <1>2, <1>5, PutFields
<1>9. /\ proc' \in [Procs -> ProcType] /\ \A q \in Procs \ {p} : proc'[q] = proc[q]
      /\ proc'[p].pc = "take" /\ proc'[p].op = "declare" /\ proc'[p].key = k /\ proc'[p].i = i
    BY <1>0, <1>1, GotoFields DEF PCs, i, k
<1>10. LocalOK(proc'[p], writer'[p])
    BY <1>0, <1>1, <1>2, <1>9, BoardAssumption DEF LocalOK, Placed, ClaimPCs, Entries, NoEntry
<1>11. Inside(p)'
    BY <1>9 DEF Inside
<1>12. \A j \in Entries : Clean(j)'
    BY <1>1, <1>4, <1>5, <1>8, BoardAssumption DEF Clean, Residue
<1>13. Scene(p, proc[p])'
    BY <1>5, <1>8, <1>9, <1>12 DEF Scene, ClaimPCs
<1>14. \A j \in Entries \ {i} : entry[j].state = "Active" => entry[j].hash # k
    BY <1>0, <1>1, <1>2, <1>4, BoardAssumption DEF LockInv, KeyIsUnique
<1>15. LockInv'
    BY <1>0, <1>1, <1>2, <1>3, <1>4, <1>5, <1>8, <1>9, <1>10, <1>11, <1>13, <1>14, LockedStep
<1>16. WaitersExact' /\ WaitKept
    BY <1>0, <1>9, NobodyWaits DEF WaitPCs
<1> QED
    BY <1>15, <1>16 DEF BoardInv, BoardKept

\* ... then the tenancy, with the count of writes the predecessor left.
LEMMA TakeTenancyStep ==
    ASSUME BoardInv, NEW p \in Procs, TakeTenancy(p)
    PROVE  BoardKept
<1> DEFINE i == proc[p].i
           k == proc[p].key
           e == [entry[i] EXCEPT !.tenancy = entry[i].tenancy + 1]
           w == [idx |-> i, tenancy |-> entry[i].tenancy + 1, writes |-> entry[i].publish \div 2, key |-> k]
<1>0. /\ LockInv /\ WaitersExact /\ Typed /\ Locals
      /\ alive[p] /\ proc[p].pc = "take"
      /\ UNCHANGED <<cell, board, cache, alive, used>>
      /\ Put(i, e) /\ Goto(p, "bump") /\ writer' = [writer EXCEPT ![p] = w]
    BY DEF BoardInv, LockInv, TakeTenancy, At, Mine
<1>1. /\ proc[p].op = "declare" /\ k \in Keys /\ proc[p] \in ProcType
    BY <1>0 DEF Locals, LocalOK, Placed, ClaimPCs, Typed, ProcType, Ops, EntryPCs, ViewPCs, WaitPCs
<1>2. /\ i \in Entries /\ entry[i] \in EntryType
    BY <1>0, IndexInUse DEF Typed
<1>3. Inside(p) /\ Scene(p, proc[p])
    BY <1>0 DEF LockInv, Scenes, Inside
<1>4. /\ entry[i].state = "Active" /\ entry[i].key = k /\ entry[i].hash = k /\ entry[i].owner = p
      /\ \A j \in Entries : Clean(j)
    BY <1>0, <1>1, <1>3 DEF Scene, ClaimPCs
<1>5. /\ e \in EntryType /\ e.state = "Active" /\ e.hash = k /\ e.key = k /\ e.owner = p
      /\ e.publish = entry[i].publish /\ e.tenancy = entry[i].tenancy + 1
      /\ entry[i].publish \in Nat
    BY <1>2, <1>4 DEF EntryType
<1>6. /\ w \in WriterType /\ w # NoWriter /\ w.idx = i /\ w.tenancy = entry[i].tenancy + 1
      /\ w.writes = entry[i].publish \div 2 /\ w.key = k
    <2>1. entry[i].publish \div 2 \in Nat /\ entry[i].tenancy + 1 \in Nat
        BY <1>2 DEF EntryType
    <2>2. i \in 0..Capacity /\ i # NoEntry
        BY <1>2, BoardAssumption DEF Entries, NoEntry
    <2> QED
        BY <1>1, <2>1, <2>2 DEF WriterType, NoWriter
<1> HIDE DEF i, k, e, w
<1>7. /\ writer' \in [Procs -> WriterType] /\ writer'[p] = w /\ \A q \in Procs \ {p} : writer'[q] = writer[q]
    BY <1>0, <1>6 DEF Typed
<1>8. /\ entry' \in [Entries -> EntryType] /\ \A j \in Entries \ {i} : entry'[j] = entry[j]
      /\ entry'[i] = e
    BY <1>0, <1>2, <1>5, PutFields
<1>9. /\ proc' \in [Procs -> ProcType] /\ \A q \in Procs \ {p} : proc'[q] = proc[q]
      /\ proc'[p].pc = "bump" /\ proc'[p].op = "declare" /\ proc'[p].key = k /\ proc'[p].i = i
    BY <1>0, <1>1, GotoFields DEF PCs, i, k
<1>10. LocalOK(proc'[p], writer'[p])
    BY <1>1, <1>2, <1>6, <1>7, <1>9, BoardAssumption DEF LocalOK, Placed, ClaimPCs, Entries, NoEntry
<1>11. Inside(p)'
    BY <1>9 DEF Inside
<1>12. \A j \in Entries : Clean(j)'
    BY <1>1, <1>4, <1>5, <1>8, BoardAssumption DEF Clean, Residue
<1>13. Scene(p, proc[p])'
    BY <1>9, <1>12 DEF Scene, ClaimPCs
<1>14. Keeps(p, writer[p])'
    BY <1>5, <1>6, <1>7, <1>8 DEF Keeps
<1>u. \A j \in Entries \ {i} : entry[j].state = "Active" => entry[j].hash # k
    BY <1>0, <1>1, <1>2, <1>4, BoardAssumption DEF LockInv, KeyIsUnique
<1>15. LockInv'
    BY <1>0, <1>2, <1>3, <1>4, <1>5, <1>7, <1>8, <1>9, <1>10, <1>11, <1>13, <1>14, <1>u, LockedStep
<1>16. WaitersExact' /\ WaitKept
    BY <1>0, <1>9, NobodyWaits DEF WaitPCs
<1> QED
    BY <1>15, <1>16 DEF BoardInv, BoardKept

\* The outcome of declare()'s scan: the entry found has the key, or no entry has.
LEMMA FindSteps ==
    ASSUME BoardInv, NEW p \in Procs, FindHeld(p) \/ FindFree(p)
    PROVE  BoardKept
<1> DEFINE k == proc[p].key
<1>0. /\ LockInv /\ WaitersExact /\ Typed /\ Locals
      /\ alive[p] /\ proc[p].pc = "find"
      /\ UNCHANGED <<entry, cell, board, writer, cache, alive, used>>
    BY DEF BoardInv, LockInv, FindHeld, FindFree, At
<1>1. /\ proc[p].op = "declare" /\ k \in Keys /\ proc[p] \in ProcType /\ writer[p] = NoWriter
    BY <1>0 DEF Locals, LocalOK, Placed, ClaimPCs, Typed, ProcType, Ops, EntryPCs, ViewPCs, WaitPCs
<1>2. /\ Inside(p) /\ \A j \in Entries : Clean(j)
    BY <1>0 DEF LockInv, Scenes, Inside, Scene, ClaimPCs
<1>3. 0 \in Entries /\ Entries \subseteq Nat /\ Entries \subseteq 0..Capacity /\ NoEntry \notin Entries
    BY BoardAssumption DEF Entries, NoEntry
<1>4. \/ GotoWith(p, "own", Min(Holders(k)), 0) /\ Holders(k) # {} /\ Takeable(entry[Min(Holders(k))])
      \/ Goto(p, "unlock")
      \/ GotoWith(p, "claim", Min(FreeEntries), 0) /\ FreeEntries # {} /\ Holders(k) = {}
      \/ GotoWith(p, "sweep", 0, 0) /\ Holders(k) = {}
    BY DEF FindHeld, FindFree
<1>5. ASSUME NEW pc \in {"own", "claim", "sweep", "unlock"},
             proc' \in [Procs -> ProcType], \A q \in Procs \ {p} : proc'[q] = proc[q],
             proc'[p].pc = pc, proc'[p].op = "declare", proc'[p].key = k,
             pc # "unlock" => proc'[p].i \in Entries,
             Scene(p, proc'[p])
      PROVE  BoardKept
    <2>1. LocalOK(proc'[p], writer'[p])
        BY <1>0, <1>1, <1>3, <1>5 DEF LocalOK, Placed
    <2>2. /\ board' \in BoardType /\ cell' \in CellType /\ cache' \in CacheType /\ used' \in UsedType
          /\ writer' \in [Procs -> WriterType]
        BY <1>0 DEF Typed, BoardType, CellType, CacheType
    <2>3. LockInv'
        BY <1>0, <1>2, <1>5, <2>1, <2>2, LocalStep
    <2>4. WaitersExact' /\ WaitKept
        BY <1>0, <1>5, NobodyWaits DEF WaitPCs
    <2> QED
        BY <2>3, <2>4 DEF BoardInv, BoardKept
<1>6. \A j \in Entries : Holders(k) = {} /\ entry[j].state = "Active" => entry[j].hash # k
    BY <1>0, <1>1, BoardAssumption DEF LockInv, Keyed, Holders
<1> HIDE DEF k
<1>7. CASE Goto(p, "unlock")
    <2>1. /\ proc' \in [Procs -> ProcType] /\ \A q \in Procs \ {p} : proc'[q] = proc[q]
          /\ proc'[p].pc = "unlock" /\ proc'[p].op = "declare" /\ proc'[p].key = k
        BY <1>0, <1>1, <1>7, GotoFields DEF PCs, k
    <2>2. Scene(p, proc'[p])
        BY <1>2, <2>1 DEF Scene, ClaimPCs
    <2> QED
        BY <1>5, <2>1, <2>2
<1>8. CASE GotoWith(p, "own", Min(Holders(k)), 0) /\ Holders(k) # {} /\ Takeable(entry[Min(Holders(k))])
    <2>1. Min(Holders(k)) \in Holders(k) /\ Holders(k) \subseteq Entries
        BY <1>3, <1>8, MinIn DEF Holders
    <2>2. /\ proc' \in [Procs -> ProcType] /\ \A q \in Procs \ {p} : proc'[q] = proc[q]
          /\ proc'[p].pc = "own" /\ proc'[p].op = "declare" /\ proc'[p].key = k
          /\ proc'[p].i = Min(Holders(k))
        <3>1. Min(Holders(k)) \in 0..Capacity /\ "own" \in PCs
            BY <1>3, <2>1 DEF PCs
        <3>2. proc[p].op = "declare" /\ proc[p].key = k
            BY <1>1 DEF k
        <3> QED
            BY <1>0, <1>8, <3>1, <3>2, GotoWithFields
    <2>3. /\ entry[Min(Holders(k))].state = "Active" /\ entry[Min(Holders(k))].hash = k
          /\ entry[Min(Holders(k))].key = k
        BY <2>1 DEF Holders
    <2>4. Scene(p, proc'[p])
        BY <1>2, <1>8, <2>2, <2>3 DEF Scene, ClaimPCs
    <2> QED
        BY <1>5, <2>1, <2>2, <2>4
<1>9. CASE GotoWith(p, "claim", Min(FreeEntries), 0) /\ FreeEntries # {} /\ Holders(k) = {}
    <2>1. Min(FreeEntries) \in FreeEntries /\ FreeEntries \subseteq Entries
        BY <1>3, <1>9, MinIn DEF FreeEntries
    <2>2. /\ proc' \in [Procs -> ProcType] /\ \A q \in Procs \ {p} : proc'[q] = proc[q]
          /\ proc'[p].pc = "claim" /\ proc'[p].op = "declare" /\ proc'[p].key = k
          /\ proc'[p].i = Min(FreeEntries)
        <3>1. Min(FreeEntries) \in 0..Capacity /\ "claim" \in PCs
            BY <1>3, <2>1 DEF PCs
        <3>2. proc[p].op = "declare" /\ proc[p].key = k
            BY <1>1 DEF k
        <3> QED
            BY <1>0, <1>9, <3>1, <3>2, GotoWithFields
    <2>3. entry[Min(FreeEntries)].state = "Free"
        BY <2>1 DEF FreeEntries
    <2>4. Scene(p, proc'[p])
        BY <1>2, <1>6, <1>9, <2>2, <2>3 DEF Scene, ClaimPCs
    <2> QED
        BY <1>5, <2>1, <2>2, <2>4
<1>10. CASE GotoWith(p, "sweep", 0, 0) /\ Holders(k) = {}
    <2>1. /\ proc' \in [Procs -> ProcType] /\ \A q \in Procs \ {p} : proc'[q] = proc[q]
          /\ proc'[p].pc = "sweep" /\ proc'[p].op = "declare" /\ proc'[p].key = k
          /\ proc'[p].i = 0 /\ proc'[p].n = 0
        BY <1>0, <1>1, <1>3, <1>10, GotoWithFields DEF PCs, k
    <2>2. Scene(p, proc'[p])
        BY <1>2, <1>6, <1>10, <2>1 DEF Scene, ClaimPCs
    <2> QED
        BY <1>3, <1>5, <2>1, <2>2
<1>11. \/ GotoWith(p, "own", Min(Holders(k)), 0) /\ Holders(k) # {} /\ Takeable(entry[Min(Holders(k))])
       \/ Goto(p, "unlock")
       \/ GotoWith(p, "claim", Min(FreeEntries), 0) /\ FreeEntries # {} /\ Holders(k) = {}
       \/ GotoWith(p, "sweep", 0, 0) /\ Holders(k) = {}
    BY <1>4
<1> QED
    BY <1>7, <1>8, <1>9, <1>10, <1>11

-----------------------------------------------------------------------------
(***************************************************************************)
(* sweep_stale() and the sweep of declare().                               *)
(***************************************************************************)
\* The end of the sweep: what was counted as freed is there to be claimed.
LEMMA SweepDoneStep ==
    ASSUME BoardInv, NEW p \in Procs, SweepDone(p)
    PROVE  BoardKept
<1> DEFINE k == proc[p].key
<1>0. /\ LockInv /\ WaitersExact /\ Typed /\ Locals
      /\ alive[p] /\ proc[p].pc = "sweep"
      /\ UNCHANGED <<entry, cell, board, writer, cache, alive, used>>
    BY DEF BoardInv, LockInv, SweepDone, At
<1>1. /\ proc[p].op \in {"declare", "sweep"} /\ proc[p] \in ProcType /\ proc[p].n \in Nat
      /\ LocalOK(proc[p], writer[p]) /\ proc[p].i \in 0..Capacity /\ proc[p].key \in Keys \cup {NoKey}
      /\ proc[p].op = "declare" => writer[p] = NoWriter /\ proc[p].key \in Keys
    BY <1>0 DEF Locals, LocalOK, Placed, ClaimPCs, Typed, ProcType, Ops, EntryPCs, ViewPCs, WaitPCs
<1>2. /\ Inside(p) /\ Scene(p, proc[p]) /\ \A j \in Entries : Clean(j)
    BY <1>0 DEF LockInv, Scenes, Inside, Scene, ClaimPCs
<1>3. Entries \subseteq Nat /\ Entries \subseteq 0..Capacity /\ NoEntry \notin Entries
    BY BoardAssumption DEF Entries, NoEntry
<1>4. ASSUME NEW pc \in {"claim", "bump", "unlock"},
             proc' \in [Procs -> ProcType], \A q \in Procs \ {p} : proc'[q] = proc[q],
             proc'[p].pc = pc, proc'[p].op = proc[p].op, proc'[p].key = proc[p].key,
             pc = "claim" => proc'[p].i \in Entries /\ proc[p].op = "declare",
             Scene(p, proc'[p])
      PROVE  BoardKept
    <2>1. LocalOK(proc'[p], writer'[p])
        BY <1>0, <1>1, <1>3, <1>4 DEF LocalOK, Placed
    <2>2. /\ board' \in BoardType /\ cell' \in CellType /\ cache' \in CacheType /\ used' \in UsedType
          /\ writer' \in [Procs -> WriterType]
        BY <1>0 DEF Typed, BoardType, CellType, CacheType
    <2>3. LockInv'
        BY <1>0, <1>2, <1>4, <2>1, <2>2, LocalStep
    <2>4. WaitersExact' /\ WaitKept
        BY <1>0, <1>4, NobodyWaits DEF WaitPCs
    <2> QED
        BY <2>3, <2>4 DEF BoardInv, BoardKept
<1>5. \/ Goto(p, "unlock") \/ Goto(p, "bump")
      \/ GotoWith(p, "claim", Min(FreeEntries), 0) /\ proc[p].op = "declare" /\ proc[p].n > 0
    BY <1>1 DEF SweepDone
<1>6. ASSUME NEW pc \in {"unlock", "bump"}, Goto(p, pc) PROVE BoardKept
    <2>1. /\ proc' \in [Procs -> ProcType] /\ \A q \in Procs \ {p} : proc'[q] = proc[q]
          /\ proc'[p].pc = pc /\ proc'[p].op = proc[p].op /\ proc'[p].key = proc[p].key
        BY <1>0, <1>6, GotoFields DEF PCs
    <2>2. Scene(p, proc'[p])
        BY <1>2, <1>6, <2>1 DEF Scene, ClaimPCs
    <2> QED
        BY <1>4, <2>1, <2>2
<1>7. CASE GotoWith(p, "claim", Min(FreeEntries), 0) /\ proc[p].op = "declare" /\ proc[p].n > 0
    <2>1. /\ FreeEntries # {}
          /\ \A j \in Entries : entry[j].state = "Active" => entry[j].hash # k
        BY <1>0, <1>2, <1>7 DEF Scene
    <2>2. Min(FreeEntries) \in FreeEntries /\ FreeEntries \subseteq Entries
        BY <1>3, <2>1, MinIn DEF FreeEntries
    <2>3. /\ proc' \in [Procs -> ProcType] /\ \A q \in Procs \ {p} : proc'[q] = proc[q]
          /\ proc'[p].pc = "claim" /\ proc'[p].op = "declare" /\ proc'[p].key = k
          /\ proc'[p].i = Min(FreeEntries)
        <3>1. Min(FreeEntries) \in 0..Capacity /\ "claim" \in PCs
            BY <1>3, <2>2 DEF PCs
        <3> QED
            BY <1>0, <1>7, <3>1, GotoWithFields
    <2>4. entry[Min(FreeEntries)].state = "Free"
        BY <2>2 DEF FreeEntries
    <2>5. Scene(p, proc'[p])
        BY <1>2, <2>1, <2>3, <2>4 DEF Scene, ClaimPCs
    <2> QED
        BY <1>4, <1>7, <2>2, <2>3, <2>5
<1> QED
    BY <1>5, <1>6, <1>7

\* An entry under the sweep: a dead owner's is reclaimed, and there is no residue
\* to normalise, since whoever took the lock found the board clean or repaired it.
LEMMA SweepEntryStep ==
    ASSUME BoardInv, NEW p \in Procs, SweepEntry(p)
    PROVE  BoardKept
<1> DEFINE i == proc[p].i
           stale == ~Residue(entry[i]) /\ Dead(entry[i].owner)
           e == [entry[i] EXCEPT !.tenancy = entry[i].tenancy + 1]
<1>0. /\ LockInv /\ WaitersExact /\ Typed /\ Locals
      /\ alive[p] /\ proc[p].pc = "sweep" /\ i < Capacity
      /\ UNCHANGED <<cell, board, writer, cache, alive, used>>
    BY DEF BoardInv, LockInv, SweepEntry, At
<1>1. /\ proc[p].op \in {"declare", "sweep"} /\ proc[p] \in ProcType /\ proc[p].n \in Nat
      /\ LocalOK(proc[p], writer[p]) /\ writer \in [Procs -> WriterType]
      /\ proc[p].op = "declare" => writer[p] = NoWriter /\ proc[p].key \in Keys
    BY <1>0 DEF Locals, LocalOK, Placed, ClaimPCs, Typed, ProcType, Ops, EntryPCs, ViewPCs, WaitPCs
<1>2. /\ Inside(p) /\ Scene(p, proc[p]) /\ \A j \in Entries : Clean(j)
    BY <1>0 DEF LockInv, Scenes, Inside, Scene, ClaimPCs
<1>3. i \in Entries /\ entry[i] \in EntryType /\ i + 1 \in 0..Capacity
    <2>1. i \in 0..Capacity /\ Capacity \in Nat
        BY <1>1, BoardAssumption DEF ProcType
    <2>2. i \in Entries /\ i + 1 \in 0..Capacity
        BY <1>0, <2>1 DEF Entries
    <2> QED
        BY <1>0, <2>2 DEF Typed
<1>4. ~Residue(entry[i])
    BY <1>2, <1>3 DEF Clean
<1>5. /\ proc[p].op = "declare" =>
             /\ \A j \in Entries : entry[j].state = "Active" => entry[j].hash # proc[p].key
             /\ proc[p].n > 0 => FreeEntries # {}
    BY <1>0, <1>2 DEF Scene
<1>6. CASE stale
    <2>1. Put(i, e) /\ GotoWith(p, "clear", i, proc[p].n)
        BY <1>6 DEF SweepEntry
    <2>2. entry[i].state = "Active" /\ Dead(entry[i].owner) /\ entry[i].owner # p
        BY <1>0, <1>3, <1>4, <1>6 DEF Residue, Dead, EntryType
    <2>3. /\ e \in EntryType /\ e.state = "Active" /\ e.hash = entry[i].hash /\ e.key = entry[i].key
          /\ e.owner = entry[i].owner
        BY <1>3, <2>2 DEF EntryType
    <2> HIDE DEF e, i
    <2>4. /\ entry' \in [Entries -> EntryType] /\ \A j \in Entries \ {i} : entry'[j] = entry[j]
          /\ entry'[i] = e
        BY <1>0, <1>3, <2>1, <2>3, PutFields
    <2>5. /\ proc' \in [Procs -> ProcType] /\ \A q \in Procs \ {p} : proc'[q] = proc[q]
          /\ proc'[p].pc = "clear" /\ proc'[p].op = proc[p].op /\ proc'[p].key = proc[p].key
          /\ proc'[p].i = i /\ proc'[p].n = proc[p].n
        <3>1. i \in 0..Capacity /\ "clear" \in PCs
            BY <1>3, BoardAssumption DEF Entries, PCs
        <3> QED
            BY <1>0, <1>1, <2>1, <3>1, GotoWithFields
    <2>6. LocalOK(proc'[p], writer'[p])
        BY <1>0, <1>1, <1>3, <2>5, BoardAssumption DEF LocalOK, Placed, Entries, NoEntry
    <2>7. Inside(p)'
        BY <2>5 DEF Inside
    <2>8. /\ \A j \in Entries : Clean(j)'
          /\ \A j \in Entries : entry'[j].state = entry[j].state /\ entry'[j].hash = entry[j].hash
        BY <1>2, <1>3, <2>2, <2>3, <2>4 DEF Clean, Residue
    <2>9. FreeEntries' = FreeEntries
        BY <2>8 DEF FreeEntries
    <2>10. Dead(entry[proc[p].i].owner)'
        BY <1>0, <2>2, <2>3, <2>4, <2>5 DEF Dead
    <2>11. Scene(p, proc[p])'
        BY <1>1, <1>5, <2>2, <2>3, <2>4, <2>5, <2>8, <2>9, <2>10 DEF Scene, ClaimPCs
    <2>12. writer'[p] # NoWriter => Keeps(p, writer[p])'
        BY <1>0, <2>2, <2>4, WriterKept DEF i
    <2>13. entry'[i].hash # NoKey =>
               /\ entry'[i].key = entry'[i].hash
               /\ \A j \in Entries \ {i} : entry[j].state = "Active" => entry[j].hash # entry'[i].hash
        BY <1>0, <1>3, <2>2, <2>3, <2>4 DEF LockInv, Keyed, KeyIsUnique
    <2>14. Takeable(entry[i])
        BY <2>2 DEF Takeable
    <2>15. LockInv'
        BY <1>0, <1>1, <1>2, <1>3, <2>4, <2>5, <2>6, <2>7, <2>11, <2>12, <2>13, <2>14, LockedStep
    <2>16. WaitersExact' /\ WaitKept
        BY <1>0, <2>5, NobodyWaits DEF WaitPCs
    <2> QED
        BY <2>15, <2>16 DEF BoardInv, BoardKept
<1>7. CASE ~stale
    <2>1. Put(i, entry[i]) /\ GotoWith(p, "sweep", i + 1, proc[p].n)
        BY <1>3, <1>4, <1>7, NormalizedIsClean DEF SweepEntry
    <2>2. UNCHANGED entry
        BY <1>0, <1>3, <2>1 DEF Put, Typed
    <2>3. /\ proc' \in [Procs -> ProcType] /\ \A q \in Procs \ {p} : proc'[q] = proc[q]
          /\ proc'[p].pc = "sweep" /\ proc'[p].op = proc[p].op /\ proc'[p].key = proc[p].key
          /\ proc'[p].n = proc[p].n
        BY <1>0, <1>1, <1>3, <2>1, GotoWithFields DEF PCs
    <2>4. LocalOK(proc'[p], writer'[p])
        BY <1>0, <1>1, <2>3 DEF LocalOK, Placed
    <2>5. Scene(p, proc'[p])
        BY <1>2, <1>5, <2>3 DEF Scene, ClaimPCs
    <2>6. /\ board' \in BoardType /\ cell' \in CellType /\ cache' \in CacheType /\ used' \in UsedType
          /\ writer' \in [Procs -> WriterType]
        BY <1>0 DEF Typed, BoardType, CellType, CacheType
    <2>7. LockInv'
        BY <1>0, <1>2, <2>2, <2>3, <2>4, <2>5, <2>6, LocalStep
    <2>8. WaitersExact' /\ WaitKept
        BY <1>0, <2>3, NobodyWaits DEF WaitPCs
    <2> QED
        BY <2>7, <2>8 DEF BoardInv, BoardKept
<1> QED
    BY <1>6, <1>7

\* The two stores of publish_free.
LEMMA FreeSteps ==
    ASSUME BoardInv, NEW p \in Procs, ClearIdentity(p) \/ PublishFree(p)
    PROVE  BoardKept
<1> DEFINE i == proc[p].i
<1>0. /\ LockInv /\ WaitersExact /\ Typed /\ Locals
      /\ alive[p] /\ proc[p].pc \in {"clear", "free"}
      /\ UNCHANGED <<cell, board, writer, cache, alive, used>>
    BY DEF BoardInv, LockInv, ClearIdentity, PublishFree, ClaimStore, At
<1>1. /\ proc[p].op \in {"declare", "sweep"} /\ proc[p] \in ProcType /\ proc[p].n \in Nat
      /\ LocalOK(proc[p], writer[p]) /\ writer \in [Procs -> WriterType]
      /\ proc[p].op = "declare" => writer[p] = NoWriter /\ proc[p].key \in Keys
    BY <1>0 DEF Locals, LocalOK, Placed, ClaimPCs, Typed, ProcType, Ops, EntryPCs, ViewPCs, WaitPCs
<1>2. /\ Inside(p) /\ Scene(p, proc[p])
    BY <1>0 DEF LockInv, Scenes, Inside
<1>3. i \in Entries /\ entry[i] \in EntryType /\ i \in 0..Capacity /\ i + 1 \in 0..Capacity
    <2>1. i \in Entries /\ Capacity \in Nat
        BY <1>0, IndexInUse, BoardAssumption
    <2>2. i \in 0..Capacity /\ i + 1 \in 0..Capacity
        BY <2>1 DEF Entries
    <2> QED
        BY <1>0, <2>1, <2>2 DEF Typed
<1>4. /\ entry[i].state = "Active" /\ entry[i].owner # p /\ Takeable(entry[i])
      /\ \A j \in Entries \ {i} : ~Residue(entry[j])
      /\ proc[p].op = "declare" =>
             /\ \A j \in Entries : entry[j].state = "Active" => entry[j].hash # proc[p].key
             /\ proc[p].n > 0 => FreeEntries # {}
      /\ proc[p].pc = "free" => entry[i].hash = NoKey /\ entry[i].owner = NoProc
    BY <1>0, <1>2, BoardAssumption DEF Scene, CleanBut, Clean, Takeable, Dead, ClaimPCs
<1> HIDE DEF i
<1>5. ASSUME NEW e \in EntryType, e.hash = NoKey, e.owner = NoProc, Put(i, e),
             proc' \in [Procs -> ProcType], \A q \in Procs \ {p} : proc'[q] = proc[q],
             proc'[p].op = proc[p].op, proc'[p].key = proc[p].key,
             \/ e.state = "Active" /\ proc'[p].pc = "free" /\ proc'[p].i = i /\ proc'[p].n = proc[p].n
             \/ e.state = "Free" /\ proc'[p].pc = "sweep" /\ proc'[p].i = i + 1
      PROVE  BoardKept
    <2>1. /\ entry' \in [Entries -> EntryType] /\ \A j \in Entries \ {i} : entry'[j] = entry[j]
          /\ entry'[i] = e
        BY <1>0, <1>3, <1>5, PutFields
    <2>2. LocalOK(proc'[p], writer'[p])
        BY <1>0, <1>1, <1>3, <1>5, BoardAssumption DEF LocalOK, Placed, Entries, NoEntry
    <2>3. Inside(p)'
        BY <1>5 DEF Inside
    <2>4. /\ \A j \in Entries \ {i} : Clean(j)'
          /\ e.state = "Free" => \A j \in Entries : Clean(j)'
        BY <1>4, <1>5, <2>1 DEF Clean, Residue
    <2>5. proc[p].op = "declare" => \A j \in Entries : entry'[j].state = "Active" => entry'[j].hash # proc[p].key
        BY <1>1, <1>4, <1>5, <2>1, BoardAssumption
    <2>6. /\ FreeEntries \subseteq FreeEntries'
          /\ e.state = "Free" => FreeEntries' # {}
        BY <1>3, <1>4, <2>1 DEF FreeEntries
    <2>7. Scene(p, proc[p])'
        <3>1. CASE e.state = "Active" /\ proc'[p].pc = "free" /\ proc'[p].i = i /\ proc'[p].n = proc[p].n
            <4>1. CleanBut(proc[p].i)'
                BY <2>4, <3>1 DEF CleanBut
            <4> QED
                BY <1>4, <1>5, <2>1, <2>5, <2>6, <3>1, <4>1 DEF Scene, ClaimPCs
        <3>2. CASE e.state = "Free" /\ proc'[p].pc = "sweep" /\ proc'[p].i = i + 1
            BY <1>5, <2>4, <2>5, <2>6, <3>2 DEF Scene, ClaimPCs
        <3> QED
            BY <1>5, <3>1, <3>2
    <2>8. writer'[p] # NoWriter => Keeps(p, writer[p])'
        BY <1>0, <1>4, <2>1, WriterKept DEF i
    <2>9. LockInv'
        BY <1>0, <1>1, <1>2, <1>3, <1>4, <1>5, <2>1, <2>2, <2>3, <2>7, <2>8, LockedStep
    <2>10. WaitersExact' /\ WaitKept
        BY <1>0, <1>5, NobodyWaits DEF WaitPCs
    <2> QED
        BY <2>9, <2>10 DEF BoardInv, BoardKept
<1>6. CASE ClearIdentity(p)
    <2> DEFINE e == Unowned(entry[i])
    <2>1. Put(i, e) /\ Goto(p, "free")
        BY <1>6 DEF ClearIdentity, ClaimStore, Mine, i
    <2>2. e \in EntryType /\ e.hash = NoKey /\ e.owner = NoProc /\ e.state = "Active"
        BY <1>3, <1>4 DEF Unowned, EntryType
    <2> HIDE DEF e
    <2>3. /\ proc' \in [Procs -> ProcType] /\ \A q \in Procs \ {p} : proc'[q] = proc[q]
          /\ proc'[p].pc = "free" /\ proc'[p].op = proc[p].op /\ proc'[p].key = proc[p].key
          /\ proc'[p].i = i /\ proc'[p].n = proc[p].n
        BY <1>0, <2>1, GotoFields DEF PCs, i
    <2> QED
        BY <1>5, <2>1, <2>2, <2>3
<1>7. CASE PublishFree(p)
    <2> DEFINE e == [entry[i] EXCEPT !.state = "Free"]
    <2>1. Put(i, e) /\ GotoWith(p, "sweep", i + 1, proc[p].n + 1) /\ proc[p].pc = "free"
        BY <1>7 DEF PublishFree, At, Mine, i
    <2>2. e \in EntryType /\ e.hash = NoKey /\ e.owner = NoProc /\ e.state = "Free"
        BY <1>3, <1>4, <2>1 DEF EntryType
    <2> HIDE DEF e
    <2>3. /\ proc' \in [Procs -> ProcType] /\ \A q \in Procs \ {p} : proc'[q] = proc[q]
          /\ proc'[p].pc = "sweep" /\ proc'[p].op = proc[p].op /\ proc'[p].key = proc[p].key
          /\ proc'[p].i = i + 1
        <3>1. "sweep" \in PCs /\ proc[p].n + 1 \in Nat
            BY <1>1 DEF PCs
        <3> QED
            BY <1>0, <1>3, <2>1, <3>1, GotoWithFields
    <2> QED
        BY <1>5, <2>1, <2>2, <2>3
<1> QED
    BY <1>6, <1>7

-----------------------------------------------------------------------------
(***************************************************************************)
(* The board lock.                                                         *)
(***************************************************************************)
\* Where the operations go on under the lock.
LEMMA BodyPlaces ==
    /\ Body("declare") = "find" /\ Body("release") = "disown"
    /\ Body("sweep") = "sweep" /\ Body("snapshot") = "entry_state"
BY DEF Body

\* A store to the lock word by p, while no other live process is inside.
LEMMA LockWordStep ==
    ASSUME LockInv, NEW p \in Procs, UNCHANGED <<entry, cell, cache, alive, used, writer>>,
           board' \in BoardType,
           \A q \in Procs \ {p} : alive[q] => ~Inside(q),
           proc' \in [Procs -> ProcType], \A q \in Procs \ {p} : proc'[q] = proc[q],
           LocalOK(proc'[p], writer'[p]),
           alive[p] /\ Inside(p)' => board'.lock = p /\ Scene(p, proc'[p]),
           board'.lock = NoProc => \A j \in Entries : Clean(j)
    PROVE  LockInv'
<1>1. Typed'
    BY DEF LockInv, Typed, BoardType
<1>2. Locals'
    BY DEF LockInv, Locals
<1>3. ASSUME NEW q \in Procs \ {p}, alive[q] PROVE ~Inside(q)'
    BY <1>3 DEF Inside
<1>4. HolderIsAlone'
    BY <1>3 DEF HolderIsAlone
<1>5. Scenes'
    <2> SUFFICES ASSUME NEW q \in Procs, alive'[q], Inside(q)' PROVE Scene(q, proc[q])'
        BY DEF Scenes
    <2>1. Scene(q, proc'[q])
        BY <1>3
    <2>2. \A x : Scene(q, x)' <=> Scene(q, x)
        BY SceneSame
    <2> QED
        BY <2>1, <2>2
<1>6. UnlockedIsClean' /\ Keyed' /\ KeyIsUnique'
    BY DEF LockInv, UnlockedIsClean, Keyed, KeyIsUnique, Clean, Residue
<1>7. Writers'
    BY DEF LockInv, Writers, Keeps
<1> QED
    BY <1>1, <1>2, <1>4, <1>5, <1>6, <1>7 DEF LockInv

\* Taking the lock, from nobody or from a dead holder.
LEMMA TakeLockSteps ==
    ASSUME BoardInv, NEW p \in Procs, LockFree(p) \/ LockSteal(p)
    PROVE  BoardKept
<1>0. /\ LockInv /\ WaitersExact /\ Typed /\ Locals
      /\ alive[p] /\ proc[p].pc = "lock"
      /\ UNCHANGED <<entry, cell, writer, cache, alive, used>>
      /\ board' = [board EXCEPT !.lock = p]
      /\ board.lock = NoProc \/ Dead(board.lock)
    BY DEF BoardInv, LockInv, LockFree, LockSteal, At
<1>1. /\ proc[p].op \in {"declare", "release", "sweep", "snapshot"} /\ proc[p] \in ProcType
      /\ LocalOK(proc[p], writer[p])
    BY <1>0 DEF Locals, LocalOK, Placed, ClaimPCs, Typed, ProcType, Ops, EntryPCs, ViewPCs, WaitPCs
<1>2. proc[p].i \in Entries /\ proc[p].i \in Nat /\ 0 \in 0..Capacity /\ 0 \in Entries /\ NoEntry \notin Entries
    <2>1. proc[p].i \in Entries
        BY <1>0, IndexInUse
    <2> QED
        BY <2>1, BoardAssumption DEF Entries, NoEntry
<1>3. /\ board' \in BoardType /\ board'.lock = p /\ board'.waiters = board.waiters
      /\ board'.change = board.change /\ p # NoProc
    BY <1>0, BoardAssumption DEF Typed, BoardType
<1>4. \A q \in Procs \ {p} : alive[q] => ~Inside(q)
    BY <1>0, BoardAssumption DEF LockInv, HolderIsAlone, Dead
<1>5. ASSUME proc' \in [Procs -> ProcType], \A q \in Procs \ {p} : proc'[q] = proc[q],
             LocalOK(proc'[p], writer'[p]), Scene(p, proc'[p]),
             proc'[p].pc \notin WaitPCs \cup {"look", "enlist"}
      PROVE  BoardKept
    <2>1. LockInv'
        BY <1>0, <1>3, <1>4, <1>5, LockWordStep
    <2>2. WaitersExact' /\ WaitKept
        BY <1>0, <1>3, <1>5, NobodyWaits DEF WaitPCs
    <2> QED
        BY <2>1, <2>2 DEF BoardInv, BoardKept
<1>6. CASE LockFree(p)
    <2>1. /\ board.lock = NoProc /\ Goto(p, Body(proc[p].op))
        BY <1>6 DEF LockFree
    <2>2. \A j \in Entries : Clean(j)
        BY <1>0, <2>1 DEF LockInv, UnlockedIsClean, Clean
    <2>3. Body(proc[p].op) \in {"find", "disown", "sweep", "entry_state"} /\ Body(proc[p].op) \in PCs
        BY <1>1, BodyPlaces DEF PCs
    <2>4. /\ proc' \in [Procs -> ProcType] /\ \A q \in Procs \ {p} : proc'[q] = proc[q]
          /\ proc'[p].pc = Body(proc[p].op) /\ proc'[p].op = proc[p].op /\ proc'[p].key = proc[p].key
          /\ proc'[p].i = proc[p].i
        BY <1>0, <2>1, <2>3, GotoFields
    <2>5. LocalOK(proc'[p], writer'[p])
        BY <1>0, <1>1, <1>2, <2>4, BodyPlaces DEF LocalOK, Placed, EntryPCs
    <2>6. Scene(p, proc'[p])
        <3>1. proc'[p].pc \notin ClaimPCs /\ (proc'[p].pc = "sweep" => proc'[p].op # "declare")
            BY <1>1, <2>4, BodyPlaces DEF ClaimPCs
        <3> QED
            BY <2>2, <2>3, <2>4, <3>1 DEF Scene
    <2> QED
        BY <1>5, <2>3, <2>4, <2>5, <2>6 DEF WaitPCs
<1>7. CASE LockSteal(p)
    <2>1. GotoWith(p, "repair", 0, proc[p].i)
        BY <1>7 DEF LockSteal
    <2>2. /\ proc' \in [Procs -> ProcType] /\ \A q \in Procs \ {p} : proc'[q] = proc[q]
          /\ proc'[p].pc = "repair" /\ proc'[p].op = proc[p].op /\ proc'[p].key = proc[p].key
          /\ proc'[p].i = 0 /\ proc'[p].n = proc[p].i
        BY <1>0, <1>2, <2>1, GotoWithFields DEF PCs
    <2>3. LocalOK(proc'[p], writer'[p])
        BY <1>0, <1>1, <1>2, <2>2 DEF LocalOK, Placed
    <2>4. \A j \in Entries : ~(j < 0)
        BY DEF Entries
    <2>5. Scene(p, proc'[p])
        BY <2>2, <2>4 DEF Scene, ClaimPCs
    <2> QED
        BY <1>5, <2>2, <2>3, <2>5 DEF WaitPCs
<1> QED
    BY <1>6, <1>7

\* The repair of one entry; after the last one the operation goes on where it
\* would have without the theft.
LEMMA RepairStep ==
    ASSUME BoardInv, NEW p \in Procs, Repair(p)
    PROVE  BoardKept
<1> DEFINE i == proc[p].i
           n == proc[p].n
           e == Normalized(entry[i])
<1>0. /\ LockInv /\ WaitersExact /\ Typed /\ Locals
      /\ alive[p] /\ proc[p].pc = "repair"
      /\ UNCHANGED <<cell, board, writer, cache, alive, used>>
      /\ Put(i, e)
    BY DEF BoardInv, LockInv, Repair, At
<1>1. /\ proc[p].op \in {"declare", "release", "sweep", "snapshot"} /\ proc[p] \in ProcType
      /\ LocalOK(proc[p], writer[p]) /\ n \in Entries /\ writer \in [Procs -> WriterType]
    BY <1>0 DEF Locals, LocalOK, Placed, ClaimPCs, Typed, ProcType, Ops, EntryPCs, ViewPCs, WaitPCs
<1>2. Inside(p) /\ Scene(p, proc[p])
    BY <1>0 DEF LockInv, Scenes, Inside
<1>3. /\ i \in Entries /\ entry[i] \in EntryType
    BY <1>0, IndexInUse DEF Typed
<1>4. \A j \in Entries : j < i => Clean(j)
    BY <1>0, <1>2 DEF Scene
<1>5. e \in EntryType /\ ~Residue(e) /\ (~Residue(entry[i]) => e = entry[i])
      /\ (e.state = "Active" => e = entry[i])
    BY <1>3, NormalizedIsClean
<1>a. /\ Capacity \in Nat /\ i \in Nat /\ n \in Nat /\ n \in 0..Capacity /\ NoEntry \notin Entries
    BY <1>1, <1>3, BoardAssumption DEF Entries, NoEntry
<1>b. \/ i + 1 < Capacity /\ GotoWith(p, "repair", i + 1, n)
      \/ ~(i + 1 < Capacity) /\ GotoWith(p, Body(proc[p].op), n, 0)
    BY DEF Repair
<1> HIDE DEF i, n, e
<1>6. /\ entry' \in [Entries -> EntryType] /\ \A j \in Entries \ {i} : entry'[j] = entry[j]
      /\ entry'[i] = e
    BY <1>0, <1>3, <1>5, PutFields
<1>7. \A j \in Entries : j < i + 1 => Clean(j)'
    <2> SUFFICES ASSUME NEW j \in Entries, j < i + 1 PROVE ~Residue(entry'[j])
        BY DEF Clean, Residue
    <2>1. CASE j = i
        BY <1>5, <1>6, <2>1
    <2>2. CASE j # i
        <3>1. j < i
            BY <1>a, <2>2 DEF Entries
        <3> QED
            BY <1>4, <1>6, <2>2, <3>1 DEF Clean
    <2> QED
        BY <2>1, <2>2
<1>8. \/ entry'[i] = entry[i] \/ entry[i].state # "Active" \/ entry[i].hash = NoKey
    BY <1>5, <1>6 DEF Residue
<1>9. entry'[i].state = "Active" /\ entry'[i].hash # NoKey =>
          /\ entry'[i].key = entry'[i].hash
          /\ \A j \in Entries \ {i} : entry[j].state = "Active" => entry[j].hash # entry'[i].hash
    BY <1>0, <1>3, <1>5, <1>6 DEF LockInv, Keyed, KeyIsUnique
<1>10. writer'[p] # NoWriter => Keeps(p, writer[p])'
    BY <1>0, <1>6, <1>8, WriterKept DEF i
<1>11. ASSUME proc' \in [Procs -> ProcType], \A q \in Procs \ {p} : proc'[q] = proc[q],
              LocalOK(proc'[p], writer'[p]), Inside(p)', Scene(p, proc[p])',
              proc'[p].pc \notin WaitPCs \cup {"look", "enlist"}
       PROVE  BoardKept
    <2>1. LockInv'
        BY <1>0, <1>1, <1>2, <1>3, <1>6, <1>8, <1>9, <1>10, <1>11, LockedStep
    <2>2. WaitersExact' /\ WaitKept
        BY <1>0, <1>11, NobodyWaits DEF WaitPCs
    <2> QED
        BY <2>1, <2>2 DEF BoardInv, BoardKept
<1>12. CASE i + 1 < Capacity /\ GotoWith(p, "repair", i + 1, n)
    <2>1. i + 1 \in 0..Capacity /\ i + 1 # NoEntry /\ "repair" \in PCs
        BY <1>a, <1>12 DEF NoEntry, PCs
    <2>2. /\ proc' \in [Procs -> ProcType] /\ \A q \in Procs \ {p} : proc'[q] = proc[q]
          /\ proc'[p].pc = "repair" /\ proc'[p].op = proc[p].op /\ proc'[p].key = proc[p].key
          /\ proc'[p].i = i + 1 /\ proc'[p].n = n
        BY <1>0, <1>a, <1>12, <2>1, GotoWithFields
    <2>3. LocalOK(proc'[p], writer'[p])
        BY <1>0, <1>1, <2>1, <2>2 DEF LocalOK, Placed, n
    <2>4. Inside(p)'
        BY <2>2 DEF Inside
    <2>5. Scene(p, proc[p])'
        BY <1>7, <2>2 DEF Scene, ClaimPCs
    <2> QED
        BY <1>11, <2>2, <2>3, <2>4, <2>5 DEF WaitPCs
<1>13. CASE ~(i + 1 < Capacity) /\ GotoWith(p, Body(proc[p].op), n, 0)
    <2>1. Body(proc[p].op) \in {"find", "disown", "sweep", "entry_state"} /\ Body(proc[p].op) \in PCs
        BY <1>1, BodyPlaces DEF PCs
    <2>2. /\ proc' \in [Procs -> ProcType] /\ \A q \in Procs \ {p} : proc'[q] = proc[q]
          /\ proc'[p].pc = Body(proc[p].op) /\ proc'[p].op = proc[p].op /\ proc'[p].key = proc[p].key
          /\ proc'[p].i = n
        BY <1>0, <1>a, <1>13, <2>1, GotoWithFields
    <2>3. LocalOK(proc'[p], writer'[p])
        BY <1>0, <1>1, <1>a, <2>2, BodyPlaces DEF LocalOK, Placed, EntryPCs, n
    <2>4. Inside(p)'
        BY <1>1, <2>2, BodyPlaces DEF Inside
    <2>5. \A j \in Entries : Clean(j)'
        <3> SUFFICES ASSUME NEW j \in Entries PROVE j < i + 1
            BY <1>7
        <3> QED
            BY <1>a, <1>13 DEF Entries
    <2>6. Scene(p, proc[p])'
        <3>1. proc'[p].pc \notin ClaimPCs /\ (proc'[p].pc = "sweep" => proc'[p].op # "declare")
            BY <1>1, <2>2, BodyPlaces DEF ClaimPCs
        <3> QED
            BY <2>1, <2>2, <2>5, <3>1 DEF Scene
    <2> QED
        BY <1>11, <2>1, <2>2, <2>3, <2>4, <2>6 DEF WaitPCs
<1>14. \/ i + 1 < Capacity /\ GotoWith(p, "repair", i + 1, n)
       \/ ~(i + 1 < Capacity) /\ GotoWith(p, Body(proc[p].op), n, 0)
    BY <1>b
<1> QED
    BY <1>12, <1>13, <1>14

\* Giving up on the lock, and giving it back.
LEMMA LeaveLockSteps ==
    ASSUME BoardInv, NEW p \in Procs, LockBusy(p) \/ Unlock(p)
    PROVE  BoardKept
<1>0. /\ LockInv /\ WaitersExact /\ Typed /\ Locals
      /\ alive[p] /\ proc[p].pc \in {"lock", "unlock"}
      /\ UNCHANGED <<entry, cell, cache, alive, used>>
      /\ proc' = [proc EXCEPT ![p] = Rest]
    BY DEF BoardInv, LockInv, LockBusy, Unlock, At
<1>1. /\ proc' \in [Procs -> ProcType] /\ \A q \in Procs \ {p} : proc'[q] = proc[q]
      /\ proc'[p] = Rest
    BY <1>0, RestIsIdle, SetProc
<1>2. ~Inside(p)'
    BY <1>1, RestIsIdle DEF Inside
<1>3. ASSUME NEW w, w = writer[p] \/ w = NoWriter PROVE LocalOK(Rest, w)
    <2>1. 0 # NoEntry
        BY BoardAssumption DEF NoEntry
    <2>2. w # NoWriter => w.idx \in Entries /\ w.key \in Keys
        BY <1>0, <1>3 DEF Locals, LocalOK
    <2> QED
        BY <2>1, <2>2, RestIsIdle DEF LocalOK, Placed
<1>4. /\ cell' \in CellType /\ cache' \in CacheType /\ used' \in UsedType /\ board \in BoardType
      /\ writer \in [Procs -> WriterType]
    BY <1>0 DEF Typed, BoardType, CellType, CacheType
<1>5. CASE LockBusy(p)
    <2>1. /\ UNCHANGED board
          /\ writer' = [writer EXCEPT ![p] = NoWriter] \/ writer' = writer
        BY <1>5 DEF LockBusy
    <2>2. NoWriter \in WriterType
        BY BoardAssumption DEF NoWriter, WriterType, NoEntry
    <2>3. /\ writer' \in [Procs -> WriterType] /\ \A q \in Procs \ {p} : writer'[q] = writer[q]
          /\ writer'[p] = writer[p] \/ writer'[p] = NoWriter
        BY <1>4, <2>1, <2>2
    <2>4. LocalOK(proc'[p], writer'[p])
        BY <1>1, <1>3, <2>3
    <2>5. LockInv'
        BY <1>0, <1>1, <1>2, <1>4, <2>1, <2>3, <2>4, LocalStep
    <2>6. WaitersExact' /\ WaitKept
        BY <1>0, <1>1, <2>1, RestIsIdle, NobodyWaits DEF WaitPCs
    <2> QED
        BY <2>5, <2>6 DEF BoardInv, BoardKept
<1>6. CASE Unlock(p)
    <2>1. /\ board' = [board EXCEPT !.lock = NoProc] /\ UNCHANGED writer /\ proc[p].pc = "unlock"
        BY <1>6 DEF Unlock, At
    <2>2. board' \in BoardType /\ board'.waiters = board.waiters /\ board'.change = board.change
        BY <1>4, <2>1 DEF BoardType
    <2>3. Inside(p) /\ \A j \in Entries : Clean(j)
        BY <1>0, <2>1 DEF LockInv, Scenes, Inside, Scene, ClaimPCs
    <2>4. \A q \in Procs \ {p} : alive[q] => ~Inside(q)
        BY <1>0, <2>3 DEF LockInv, HolderIsAlone
    <2>5. LocalOK(proc'[p], writer'[p])
        BY <1>1, <1>3, <2>1
    <2>6. LockInv'
        BY <1>0, <1>1, <1>2, <2>1, <2>2, <2>3, <2>4, <2>5, LockWordStep
    <2>7. WaitersExact' /\ WaitKept
        BY <1>0, <1>1, <2>1, <2>2, RestIsIdle, NobodyWaits DEF WaitPCs
    <2> QED
        BY <2>6, <2>7 DEF BoardInv, BoardKept
<1> QED
    BY <1>5, <1>6

-----------------------------------------------------------------------------
(***************************************************************************)
(* The calls begin.                                                        *)
(***************************************************************************)
\* What is typed of the shared words a local step leaves alone.
LEMMA SharedTypes ==
    ASSUME Typed
    PROVE  /\ board \in BoardType /\ cell \in CellType /\ cache \in CacheType /\ used \in UsedType
           /\ writer \in [Procs -> WriterType] /\ proc \in [Procs -> ProcType]
BY DEF Typed, BoardType, CellType, CacheType

\* An idle process enters a call; none of them begins inside the lock.
LEMMA StartKeeps ==
    ASSUME BoardInv, NEW p \in Procs, NEW x \in ProcType,
           UNCHANGED <<entry, cell, board, writer, cache, alive>>, used' \in UsedType,
           proc[p].pc = "idle", proc' = [proc EXCEPT ![p] = x],
           Placed(x), x.i # NoEntry, x.pc \in {"lock", "check", "resolve", "entry_state", "look"},
           x.op = "snapshot" => x.pc = "lock",
           x.op \in {"declare", "read"} => x.key \in Keys,
           x.op \in {"write", "release"} => writer[p] # NoWriter /\ x.i = writer[p].idx,
           x.op = "declare" => writer[p] = NoWriter,
           x.pc = "look" => x.publish = board.change
    PROVE  BoardKept
<1>0. LockInv /\ WaitersExact /\ Typed /\ Locals
    BY DEF BoardInv, LockInv
<1>1. /\ proc' \in [Procs -> ProcType] /\ \A q \in Procs \ {p} : proc'[q] = proc[q]
      /\ proc'[p] = x
    BY <1>0, SetProc
<1>2. LocalOK(proc'[p], writer'[p])
    <2>1. writer[p] # NoWriter => writer[p].idx \in Entries /\ writer[p].key \in Keys
        BY <1>0 DEF Locals, LocalOK
    <2> QED
        BY <1>1, <2>1 DEF LocalOK
<1>3. ~Inside(p)'
    BY <1>1 DEF Inside
<1>4. LockInv'
    BY <1>0, <1>1, <1>2, <1>3, SharedTypes, LocalStep
<1>5. x.pc = "look" => x.publish <= board.change
    BY <1>0 DEF Typed
<1>6. WaitersExact' /\ WaitKept
    BY <1>0, <1>1, <1>5, NobodyWaits DEF WaitPCs
<1> QED
    BY <1>4, <1>6 DEF BoardInv, BoardKept

\* The locals a call begins with.
LEMMA StartFields ==
    ASSUME Typed, NEW p \in Procs, NEW op \in Ops, NEW k \in Keys \cup {NoKey}, NEW i \in Entries,
           NEW pc \in PCs, Start(p, op, k, i, pc)
    PROVE  \E x \in ProcType : /\ proc' = [proc EXCEPT ![p] = x]
                               /\ x.pc = pc /\ x.op = op /\ x.key = k /\ x.i = i /\ x.i # NoEntry
                               /\ proc[p].pc = "idle"
<1> DEFINE x == [Rest EXCEPT !.pc = pc, !.op = op, !.key = k, !.i = i,
                             !.data = IF op = "write" THEN used.write + 1 ELSE 0]
<1>1. (IF op = "write" THEN used.write + 1 ELSE 0) \in Nat
    BY DEF Typed, UsedType
<1>2. i \in 0..Capacity /\ i # NoEntry
    BY BoardAssumption DEF Entries, NoEntry
<1>3. x \in ProcType /\ x.pc = pc /\ x.op = op /\ x.key = k /\ x.i = i
    BY <1>1, <1>2, RestIsIdle DEF ProcType
<1>4. proc' = [proc EXCEPT ![p] = x] /\ proc[p].pc = "idle"
    BY DEF Start
<1> HIDE DEF x
<1> QED
    BY <1>2, <1>3, <1>4

\* Every call's first step.
LEMMA StartSteps ==
    ASSUME BoardInv, NEW p \in Procs,
           \/ \E k \in KeysOf[p] : StartDeclare(p, k) \/ StartRead(p, k)
           \/ \E i \in Entries : StartList(p, i) \/ StartSnapshot(p, i)
           \/ StartSweep(p) \/ StartWrite(p) \/ StartRelease(p) \/ StartWait(p)
    PROVE  BoardKept
<1>0. Typed /\ Locals /\ 0 \in Entries /\ KeysOf[p] \subseteq Keys /\ 0 # NoEntry
    BY BoardAssumption DEF BoardInv, LockInv, Entries, NoEntry
<1>1. UNCHANGED <<entry, cell, board, writer, cache, alive>>
    BY DEF StartDeclare, StartRead, StartList, StartSnapshot, StartSweep, StartWrite, StartRelease, StartWait
<1>2. used' \in UsedType
    <2>1. \/ used' = [used EXCEPT !.declare = used.declare + 1] \/ used' = [used EXCEPT !.write = used.write + 1]
          \/ used' = [used EXCEPT !.sweep = used.sweep + 1] \/ used' = [used EXCEPT !.call = used.call + 1]
          \/ used' = used
        BY DEF StartDeclare, StartRead, StartList, StartSnapshot, StartSweep, StartWrite, StartRelease,
               StartWait, Asking
    <2>2. used \in [declare : Nat, write : Nat, sweep : Nat, call : Nat, crash : Nat]
        BY <1>0 DEF Typed, UsedType
    <2>3. /\ [used EXCEPT !.declare = used.declare + 1] \in UsedType
          /\ [used EXCEPT !.write = used.write + 1] \in UsedType
        BY <2>2 DEF UsedType
    <2>4. /\ [used EXCEPT !.sweep = used.sweep + 1] \in UsedType
          /\ [used EXCEPT !.call = used.call + 1] \in UsedType
        BY <2>2 DEF UsedType
    <2>5. used \in UsedType
        BY <1>0 DEF Typed
    <2> QED
        BY <2>1, <2>3, <2>4, <2>5
<1>3. writer[p] # NoWriter => writer[p].idx \in Entries /\ writer[p].key \in Keys
    BY <1>0 DEF Locals, LocalOK
<1>4. CASE \E k \in KeysOf[p] : StartDeclare(p, k)
    <2>1. PICK k \in KeysOf[p] : Start(p, "declare", k, 0, "lock") /\ writer[p] = NoWriter
        BY <1>4 DEF StartDeclare
    <2>2. "declare" \in Ops /\ "lock" \in PCs /\ k \in Keys
        BY <1>0 DEF Ops, PCs
    <2>3. PICK x \in ProcType : /\ proc' = [proc EXCEPT ![p] = x] /\ proc[p].pc = "idle"
                                /\ x.pc = "lock" /\ x.op = "declare" /\ x.key = k /\ x.i # NoEntry
        BY <1>0, <2>1, <2>2, StartFields
    <2> QED
        BY <1>1, <1>2, <2>1, <2>2, <2>3, StartKeeps DEF Placed
<1>5. CASE \E k \in KeysOf[p] : StartRead(p, k)
    <2>1. PICK k \in KeysOf[p] : Start(p, "read", k, 0, "resolve")
        BY <1>5 DEF StartRead
    <2>2. "read" \in Ops /\ "resolve" \in PCs /\ k \in Keys
        BY <1>0 DEF Ops, PCs
    <2>3. PICK x \in ProcType : /\ proc' = [proc EXCEPT ![p] = x] /\ proc[p].pc = "idle"
                                /\ x.pc = "resolve" /\ x.op = "read" /\ x.key = k /\ x.i # NoEntry
        BY <1>0, <2>1, <2>2, StartFields
    <2> QED
        BY <1>1, <1>2, <2>2, <2>3, StartKeeps DEF Placed
<1>6. CASE \E i \in Entries : StartList(p, i) \/ StartSnapshot(p, i)
    <2>1. PICK i \in Entries : \/ Start(p, "list", NoKey, i, "entry_state")
                               \/ Start(p, "snapshot", NoKey, i, "lock")
        BY <1>6 DEF StartList, StartSnapshot
    <2>2. {"list", "snapshot"} \subseteq Ops /\ {"lock", "entry_state"} \subseteq PCs
        BY DEF Ops, PCs
    <2>3. PICK x \in ProcType : /\ proc' = [proc EXCEPT ![p] = x] /\ proc[p].pc = "idle" /\ x.i # NoEntry
                                /\ \/ x.pc = "entry_state" /\ x.op = "list"
                                   \/ x.pc = "lock" /\ x.op = "snapshot"
        BY <1>0, <2>1, <2>2, StartFields
    <2> QED
        BY <1>1, <1>2, <2>3, StartKeeps DEF Placed, EntryPCs
<1>7. CASE StartSweep(p)
    <2>1. Start(p, "sweep", NoKey, 0, "lock") /\ "sweep" \in Ops /\ "lock" \in PCs
        BY <1>7 DEF StartSweep, Ops, PCs
    <2>2. PICK x \in ProcType : /\ proc' = [proc EXCEPT ![p] = x] /\ proc[p].pc = "idle"
                                /\ x.pc = "lock" /\ x.op = "sweep" /\ x.i # NoEntry
        BY <1>0, <2>1, StartFields
    <2> QED
        BY <1>1, <1>2, <2>2, StartKeeps DEF Placed
<1>8. CASE StartWrite(p) \/ StartRelease(p)
    <2>1. /\ writer[p] # NoWriter /\ writer[p].idx \in Entries /\ writer[p].key \in Keys
          /\ \/ Start(p, "write", writer[p].key, writer[p].idx, "check")
             \/ Start(p, "release", writer[p].key, writer[p].idx, "lock")
        BY <1>3, <1>8 DEF StartWrite, StartRelease
    <2>2. {"write", "release"} \subseteq Ops /\ {"lock", "check"} \subseteq PCs
        BY DEF Ops, PCs
    <2>3. PICK x \in ProcType : /\ proc' = [proc EXCEPT ![p] = x] /\ proc[p].pc = "idle"
                                /\ x.i = writer[p].idx /\ x.i # NoEntry
                                /\ \/ x.pc = "check" /\ x.op = "write"
                                   \/ x.pc = "lock" /\ x.op = "release"
        BY <1>0, <2>1, <2>2, StartFields
    <2> QED
        BY <1>1, <1>2, <2>1, <2>3, StartKeeps DEF Placed
<1>9. CASE StartWait(p)
    <2> DEFINE x == [Rest EXCEPT !.pc = "look", !.op = "wait", !.publish = board.change]
    <2>1. proc' = [proc EXCEPT ![p] = x] /\ proc[p].pc = "idle"
        BY <1>9 DEF StartWait
    <2>2. board.change \in Nat
        BY <1>0 DEF Typed
    <2>3. x \in ProcType /\ x.pc = "look" /\ x.op = "wait" /\ x.i = 0 /\ x.publish = board.change
        BY <2>2, RestIsIdle, ZenonT(40) DEF ProcType, PCs, Ops
    <2> HIDE DEF x
    <2> QED
        BY <1>0, <1>1, <1>2, <2>1, <2>3, StartKeeps DEF Placed
<1> QED
    BY <1>4, <1>5, <1>6, <1>7, <1>8, <1>9

-----------------------------------------------------------------------------
(***************************************************************************)
(* Reader::read, read_entry and snapshot(): they move nothing but their    *)
(* own locals, and a snapshot finds the board as clean as it locked it.    *)
(***************************************************************************)
LEMMA ReadKeeps ==
    ASSUME BoardInv, NEW p \in Procs, NEW x \in ProcType,
           UNCHANGED <<entry, cell, board, writer, alive, used>>, cache' \in CacheType,
           proc[p].op \in {"read", "list", "snapshot"}, proc[p].pc \notin {"lock", "repair", "unlock"},
           proc' = [proc EXCEPT ![p] = x],
           \/ x = Rest
           \/ /\ x.op = proc[p].op /\ Placed(x) /\ x.pc \notin {"lock", "repair"}
              /\ x.op = "read" => x.key \in Keys
              /\ x.i = NoEntry => x.pc \in {"scan", "reply", "unlock"}
    PROVE  BoardKept
<1>0. LockInv /\ WaitersExact /\ Typed /\ Locals
    BY DEF BoardInv, LockInv
<1>1. /\ proc' \in [Procs -> ProcType] /\ \A q \in Procs \ {p} : proc'[q] = proc[q]
      /\ proc'[p] = x
    BY <1>0, SetProc
<1>2. 0 # NoEntry /\ Placed(proc[p])
    BY <1>0, BoardAssumption DEF NoEntry, Locals, LocalOK
<1>3. LocalOK(proc'[p], writer'[p])
    <2>1. writer[p] # NoWriter => writer[p].idx \in Entries /\ writer[p].key \in Keys
        BY <1>0 DEF Locals, LocalOK
    <2> QED
        BY <1>1, <1>2, <2>1, RestIsIdle DEF LocalOK, Placed
<1>4. x.pc \notin WaitPCs \cup {"look", "enlist"} /\ proc[p].pc \notin WaitPCs \cup {"wake"}
    BY <1>2, RestIsIdle DEF Placed, WaitPCs, EntryPCs, ViewPCs
<1>5. ASSUME alive[p], Inside(p)' PROVE Inside(p) /\ Scene(p, proc'[p])
    <2>1. /\ x.op = "snapshot" /\ proc[p].op = "snapshot" /\ x.pc \in {"unlock"} \cup EntryPCs
        BY <1>1, <1>5, RestIsIdle DEF Inside, Placed, EntryPCs, ViewPCs
    <2>2. Inside(p)
        BY <2>1 DEF Inside
    <2>3. \A j \in Entries : Clean(j)
        BY <1>0, <1>2, <1>5, <2>1, <2>2 DEF LockInv, Scenes, Scene, ClaimPCs, Placed, EntryPCs, ViewPCs
    <2>4. Scene(p, proc'[p])
        BY <1>1, <2>1, <2>3 DEF Scene, ClaimPCs, EntryPCs, ViewPCs
    <2> QED
        BY <2>2, <2>4
<1>6. LockInv'
    BY <1>0, <1>1, <1>3, <1>5, SharedTypes, LocalStep
<1>7. WaitersExact' /\ WaitKept
    BY <1>0, <1>1, <1>4, NobodyWaits
<1> QED
    BY <1>6, <1>7 DEF BoardInv, BoardKept

\* The locals of a read that starts over or answers EAGAIN.
LEMMA RetryFields ==
    ASSUME NEW q \in ProcType, q.op \in {"read", "list", "snapshot"}, q.i # NoEntry,
           q.op = "read" => q.key \in Keys
    PROVE  /\ Retry(q) \in ProcType /\ Retry(q).op = q.op /\ Retry(q).i # NoEntry
           /\ q.op = "read" => Retry(q).pc \in {"resolve", "reply"} /\ Retry(q).key \in Keys
           /\ q.op # "read" => Retry(q).pc \in {"entry_state", "reply"}
<1>0. 0 \in 0..Capacity /\ 0 # NoEntry /\ q.n + 1 \in Nat /\ q.i \in 0..Capacity
    BY BoardAssumption DEF NoEntry, ProcType
<1>1. CASE q.n + 1 < RetryBudget
    <2> DEFINE pc == IF q.op = "read" THEN "resolve" ELSE "entry_state"
               key == IF q.op = "read" THEN q.key ELSE NoKey
               i == IF q.op = "read" THEN 0 ELSE q.i
    <2>1. pc \in PCs /\ key \in Keys \cup {NoKey} /\ i \in 0..Capacity /\ i # NoEntry
        BY <1>0 DEF PCs
    <2>2. Retry(q) = [Rest EXCEPT !.op = q.op, !.n = q.n + 1, !.pc = pc, !.key = key, !.i = i]
        BY <1>1 DEF Retry
    <2> HIDE DEF pc, key, i
    <2>3. /\ Retry(q) \in ProcType /\ Retry(q).op = q.op /\ Retry(q).i = i /\ Retry(q).pc = pc
          /\ Retry(q).key = key
        BY <1>0, <2>1, <2>2, RestIsIdle, ZenonT(40) DEF ProcType
    <2> QED
        BY <2>1, <2>3 DEF pc, key
<1>2. CASE ~(q.n + 1 < RetryBudget)
    <2>1. Retry(q) = [q EXCEPT !.pc = "reply", !.kind = "again"]
        BY <1>2 DEF Retry, Reply
    <2>2. "reply" \in PCs
        BY DEF PCs
    <2>3. [q EXCEPT !.pc = "reply", !.kind = "again"] \in ProcType
        BY <2>2 DEF ProcType
    <2>4. /\ Retry(q).pc = "reply" /\ Retry(q).op = q.op /\ Retry(q).i = q.i /\ Retry(q).key = q.key
        BY <2>1 DEF ProcType
    <2> QED
        BY <2>1, <2>3, <2>4
<1> QED
    BY <1>1, <1>2


ScanPCs == {"resolve", "scan", "scan_hash", "scan_tenancy", "scan_key", "before"}

\* Whose program counters these are.
LEMMA ReaderAt ==
    ASSUME Typed, Locals, NEW p \in Procs, proc[p].pc \in ScanPCs \cup EntryPCs
    PROVE  /\ proc[p] \in ProcType /\ proc[p].op \in {"read", "list", "snapshot"}
           /\ proc[p].pc \notin {"lock", "repair", "unlock"}
           /\ proc[p].pc \in ScanPCs => proc[p].op = "read"
           /\ proc[p].pc \in EntryPCs \ ViewPCs => proc[p].op # "read"
           /\ proc[p].op = "read" => proc[p].key \in Keys
           /\ proc[p].pc \notin {"scan", "reply"} => proc[p].i \in Entries /\ proc[p].i # NoEntry
<1>1. proc[p] \in ProcType /\ LocalOK(proc[p], writer[p]) /\ proc[p].op \in Ops \cup {"none"}
    BY DEF Typed, Locals, ProcType
<1>2. /\ proc[p].op \in {"read", "list", "snapshot"} /\ proc[p].pc \notin {"lock", "repair", "unlock"}
      /\ proc[p].pc \in ScanPCs => proc[p].op = "read"
      /\ proc[p].pc \in EntryPCs \ ViewPCs => proc[p].op # "read"
    BY <1>1 DEF LocalOK, Placed, Ops, ScanPCs, EntryPCs, ViewPCs, ClaimPCs, WaitPCs
<1>3. proc[p].pc \notin {"scan", "reply"} => proc[p].i \in Entries
    BY IndexInUse DEF ScanPCs, EntryPCs, ViewPCs
<1>4. \A i \in Entries : i # NoEntry
    BY BoardAssumption DEF Entries, NoEntry
<1> QED
    BY <1>1, <1>2, <1>3, <1>4 DEF LocalOK

\* A load of a reader, by the locals it leaves.
LEMMA LoadKeeps ==
    ASSUME BoardInv, NEW p \in Procs, NEW x \in ProcType, proc[p].pc \in ScanPCs \cup EntryPCs,
           UNCHANGED <<entry, cell, board, writer, alive, used>>, cache' \in CacheType,
           proc' = [proc EXCEPT ![p] = x],
           \/ x = Rest
           \/ /\ x.op = proc[p].op
              /\ x.op = "read" => x.key \in Keys /\ x.pc \in ScanPCs \cup ViewPCs
              /\ x.op # "read" => x.pc \in EntryPCs \/ (x.op = "snapshot" /\ x.pc = "unlock")
              /\ x.i = NoEntry => x.pc \in {"scan", "reply", "unlock"}
    PROVE  BoardKept
<1>1. Typed /\ Locals
    BY DEF BoardInv, LockInv
<1>2. proc[p].op \in {"read", "list", "snapshot"} /\ proc[p].pc \notin {"lock", "repair", "unlock"}
    BY <1>1, ReaderAt
<1>3. x = Rest \/ (Placed(x) /\ x.pc \notin {"lock", "repair"})
    BY <1>2 DEF Placed, ScanPCs, EntryPCs, ViewPCs
<1> QED
    BY <1>2, <1>3, ReadKeeps

\* The scan for the entry of a key.
LEMMA ScanSteps ==
    ASSUME BoardInv, NEW p \in Procs,
           \/ Resolve(p) \/ ScanState(p) \/ ScanHash(p) \/ ScanTenancy(p) \/ ScanKey(p) \/ ScanEnd(p)
           \/ TenancyBefore(p)
    PROVE  BoardKept
<1> DEFINE q == proc[p]
<1>1. /\ Typed /\ Locals /\ cache \in CacheType
    BY DEF BoardInv, LockInv, Typed, CacheType
<1>2. /\ q.pc \in ScanPCs /\ UNCHANGED <<entry, cell, board, writer, alive, used>>
    BY DEF Resolve, ScanState, ScanHash, ScanTenancy, ScanKey, ScanEnd, TenancyBefore, Load, At, ScanPCs
<1>3. /\ q \in ProcType /\ q.op = "read" /\ q.key \in Keys
      /\ q.pc # "scan" => q.i \in Entries
    BY <1>1, <1>2, ReaderAt DEF ScanPCs
<1>4. /\ q.i \in 0..Capacity
      /\ q.i \in Entries => q.i + 1 \in 0..Capacity /\ q.i # NoEntry
      /\ 0..Capacity \ {Capacity} = Entries
    BY <1>3, BoardAssumption DEF ProcType, Entries, NoEntry
<1>p. q \in [pc : PCs, op : Ops \cup {"none"}, key : Keys \cup {NoKey},
             i : 0..Capacity, n : Nat, tenancy : Nat, publish : Nat, len : Nat,
             data : Nat, fresh : BOOLEAN,
             kind : {"none", "value", "noent", "nomsg", "unwritten", "listed", "again"}]
    BY <1>3 DEF ProcType
<1>5. ASSUME NEW x \in ProcType, proc' = [proc EXCEPT ![p] = x], cache' \in CacheType, x.op = "read",
             x.key \in Keys, x.pc \in ScanPCs \cup ViewPCs, x.i = NoEntry => x.pc \in {"scan", "reply"}
      PROVE  BoardKept
    BY <1>2, <1>3, <1>5, LoadKeeps
<1> HIDE DEF q
\* A step that only moves on to the next program counter, or the next entry.
<1>6. ASSUME NEW pc \in ScanPCs, pc \in PCs, q.i \in Entries
      PROVE  /\ [q EXCEPT !.pc = pc] \in ProcType /\ [q EXCEPT !.pc = pc].op = "read"
             /\ [q EXCEPT !.pc = pc].key = q.key /\ [q EXCEPT !.pc = pc].pc = pc
             /\ [q EXCEPT !.pc = pc].i = q.i
    BY <1>3, <1>6, <1>p DEF ProcType
<1>7. ASSUME q.i \in Entries
      PROVE  /\ NextEntry(q) \in ProcType /\ NextEntry(q).op = "read"
             /\ NextEntry(q).key = q.key /\ NextEntry(q).pc = "scan"
    <2>1. NextEntry(q) = [q EXCEPT !.pc = "scan", !.i = q.i + 1] /\ q.i + 1 \in 0..Capacity
        BY <1>4, <1>7, <1>p DEF NextEntry
    <2>2. "scan" \in PCs
        BY DEF PCs
    <2> QED
        BY <1>3, <1>p, <2>1, <2>2 DEF ProcType
<1>8. {"scan", "scan_hash", "scan_tenancy", "scan_key", "before", "publish", "reply"} \subseteq PCs
    BY DEF PCs
<1>9. CASE Resolve(p)
    <2> DEFINE c == cache[p][q.key]
    <2>0. c.idx \in 0..Capacity /\ q.pc # "scan" /\ q.i \in Entries /\ cache' = cache
        BY <1>1, <1>3, <1>9, SMTT(30) DEF CacheType, Resolve, Load, At, q
    <2>1. \/ proc' = [proc EXCEPT ![p] = [q EXCEPT !.pc = "before", !.i = c.idx]] /\ c.idx # NoEntry
          \/ proc' = [proc EXCEPT ![p] = [q EXCEPT !.pc = "scan"]]
        BY <1>9 DEF Resolve, Load, q
    <2>2. CASE proc' = [proc EXCEPT ![p] = [q EXCEPT !.pc = "scan"]]
        BY <1>1, <1>3, <1>5, <1>6, <1>8, <2>0, <2>2 DEF ScanPCs
    <2>3. CASE proc' = [proc EXCEPT ![p] = [q EXCEPT !.pc = "before", !.i = c.idx]] /\ c.idx # NoEntry
        <3> DEFINE x == [q EXCEPT !.pc = "before", !.i = c.idx]
        <3> HIDE DEF c
        <3>1. x \in ProcType
            BY <1>8, <1>p, <2>0 DEF ProcType
        <3>2. x.op = "read" /\ x.key \in Keys /\ x.pc = "before" /\ x.i # NoEntry
            BY <1>3, <1>p, <2>3
        <3>3. proc' = [proc EXCEPT ![p] = x]
            BY <2>3
        <3> HIDE DEF x
        <3> QED
            BY <1>1, <1>5, <2>0, <3>1, <3>2, <3>3 DEF ScanPCs
    <2> QED
        BY <2>1, <2>2, <2>3
<1>10. CASE ScanState(p) \/ ScanHash(p)
    <2>1. q.i \in Entries /\ cache' = cache
        BY <1>3, <1>4, <1>10 DEF ScanState, ScanHash, Load, At, q
    <2>2. \/ proc' = [proc EXCEPT ![p] = [q EXCEPT !.pc = "scan_hash"]]
          \/ proc' = [proc EXCEPT ![p] = [q EXCEPT !.pc = "scan_tenancy"]]
          \/ proc' = [proc EXCEPT ![p] = NextEntry(q)]
        BY <1>10 DEF ScanState, ScanHash, Load, q
    <2> QED
        BY <1>1, <1>3, <1>4, <1>5, <1>6, <1>7, <1>8, <2>1, <2>2 DEF ScanPCs
<1>11. CASE ScanTenancy(p)
    <2> DEFINE x == [q EXCEPT !.pc = "scan_key", !.tenancy = entry[q.i].tenancy]
    <2>1. q.i \in Entries /\ cache' = cache /\ proc' = [proc EXCEPT ![p] = x]
        BY <1>3, <1>11 DEF ScanTenancy, Load, At, Mine, q
    <2>2. entry[q.i].tenancy \in Nat
        BY <1>1, <2>1, EntryFields DEF Typed
    <2>3. x \in ProcType
        BY <1>8, <1>p, <2>2 DEF ProcType
    <2>4. x.op = "read" /\ x.key \in Keys /\ x.pc = "scan_key" /\ x.i # NoEntry
        BY <1>3, <1>4, <1>p, <2>1
    <2> HIDE DEF x
    <2> QED
        BY <1>1, <1>5, <2>1, <2>3, <2>4 DEF ScanPCs
<1>12. CASE ScanKey(p)
    <2> DEFINE c == [idx |-> q.i, tenancy |-> q.tenancy]
    <2>1. /\ q.i \in Entries
          /\ \/ proc' = [proc EXCEPT ![p] = [q EXCEPT !.pc = "before"]]
             \/ proc' = [proc EXCEPT ![p] = NextEntry(q)]
          /\ \/ cache' = cache
             \/ cache' = [cache EXCEPT ![p] = [cache[p] EXCEPT ![q.key] = c]]
        BY <1>1, <1>3, <1>12 DEF ScanKey, At, CacheType, q
    <2>2. c \in [idx : 0..Capacity, tenancy : Nat]
        BY <1>p
    <2> HIDE DEF c
    <2>4. [cache EXCEPT ![p] = [cache[p] EXCEPT ![q.key] = c]] \in CacheType
        BY <1>1, <1>3, <2>2 DEF CacheType
    <2>3. cache' \in CacheType
        BY <1>1, <2>1, <2>4
    <2> QED
        BY <1>3, <1>4, <1>5, <1>6, <1>7, <1>8, <2>1, <2>3 DEF ScanPCs
<1>13. CASE ScanEnd(p)
    <2> DEFINE x == [q EXCEPT !.pc = "reply", !.kind = "noent"]
    <2>1. /\ proc' = [proc EXCEPT ![p] = x]
          /\ cache' = [cache EXCEPT ![p] = [cache[p] EXCEPT ![q.key] = Unresolved]]
        BY <1>1, <1>13 DEF ScanEnd, Reply, CacheType, q
    <2>2. Unresolved \in [idx : 0..Capacity, tenancy : Nat]
        BY BoardAssumption DEF Unresolved, NoEntry
    <2>3. cache' \in CacheType
        BY <1>1, <1>3, <2>1, <2>2 DEF CacheType
    <2>4. x \in ProcType
        BY <1>8, <1>p DEF ProcType
    <2>5. x.op = "read" /\ x.key \in Keys /\ x.pc = "reply"
        BY <1>3, <1>p
    <2> HIDE DEF x
    <2> QED
        BY <1>5, <2>1, <2>3, <2>4, <2>5 DEF ViewPCs
<1>14. CASE TenancyBefore(p)
    <2> DEFINE x == [q EXCEPT !.pc = "publish", !.tenancy = entry[q.i].tenancy]
    <2>1. q.i \in Entries /\ cache' = cache /\ (proc' = [proc EXCEPT ![p] = x] \/ proc' = [proc EXCEPT ![p] = Retry(q)])
        BY <1>3, <1>14 DEF TenancyBefore, Load, At, Mine, q
    <2>2. entry[q.i].tenancy \in Nat
        BY <1>1, <2>1, EntryFields DEF Typed
    <2>3. x \in ProcType
        BY <1>8, <1>p, <2>2 DEF ProcType
    <2>4. x.op = "read" /\ x.key \in Keys /\ x.pc = "publish" /\ x.i # NoEntry
        BY <1>3, <1>4, <1>p, <2>1
    <2>5. /\ Retry(q) \in ProcType /\ Retry(q).op = "read" /\ Retry(q).i # NoEntry
          /\ Retry(q).pc \in {"resolve", "reply"} /\ Retry(q).key \in Keys
        BY <1>3, <1>4, <2>1, RetryFields
    <2> HIDE DEF x
    <2> QED
        BY <1>1, <1>5, <2>1, <2>3, <2>4, <2>5 DEF ScanPCs, ViewPCs
<1> QED
    BY <1>9, <1>10, <1>11, <1>12, <1>13, <1>14


\* One value under the seqlock, and the entry around it.
LEMMA ViewSteps ==
    ASSUME BoardInv, NEW p \in Procs,
           \/ PublishBefore(p) \/ LoadLen(p) \/ LoadData(p) \/ PublishAfter(p) \/ TenancyAfter(p)
           \/ EntryState(p) \/ EntryTenancy(p) \/ EntryKey(p) \/ EntryStateAfter(p) \/ Return(p)
    PROVE  BoardKept
<1> DEFINE q == proc[p]
           e == entry[q.i]
           c == cell[q.i][(q.publish \div 2) % 2]
<1>1. /\ Typed /\ Locals /\ cache' \in CacheType
      /\ q.pc \in EntryPCs /\ UNCHANGED <<entry, cell, board, writer, alive, used>>
    BY DEF PublishBefore, LoadLen, LoadData, PublishAfter, TenancyAfter, EntryState, EntryTenancy,
           EntryKey, EntryStateAfter, Return, Load, At, EntryPCs, ViewPCs, BoardInv, LockInv, Typed, CacheType
<1>2. /\ q \in ProcType /\ q.op \in {"read", "list", "snapshot"}
      /\ q.op = "read" => q.key \in Keys
      /\ q.pc # "reply" => q.i \in Entries /\ q.i # NoEntry
      /\ q.pc \in EntryPCs \ ViewPCs => q.op # "read"
    BY <1>1, ReaderAt DEF EntryPCs, ViewPCs
<1>p. q \in [pc : PCs, op : Ops \cup {"none"}, key : Keys \cup {NoKey},
             i : 0..Capacity, n : Nat, tenancy : Nat, publish : Nat, len : Nat,
             data : Nat, fresh : BOOLEAN,
             kind : {"none", "value", "noent", "nomsg", "unwritten", "listed", "again"}]
    BY <1>2 DEF ProcType
<1>3. q.i \in Entries => e \in EntryType /\ e.tenancy \in Nat /\ e.publish \in Nat /\ e.key \in Keys \cup {NoKey}
    BY <1>1, EntryFields DEF Typed
<1>4. q.i \in Entries => c.len \in Nat /\ c.data \in Nat
    <2>1. (q.publish \div 2) \in Nat
        BY <1>p
    <2>2. (q.publish \div 2) % 2 \in 0..1
        BY <2>1
    <2> QED
        BY <1>1, <2>2 DEF Typed
<1>5. {"len", "data", "after", "verify", "reply", "unlock", "entry_state", "entry_tenancy", "entry_key",
       "entry_after", "publish"} \subseteq PCs
    BY DEF PCs
<1>6. ASSUME NEW x \in ProcType, proc' = [proc EXCEPT ![p] = x],
             \/ x = Rest
             \/ /\ x.op = q.op
                /\ x.op = "read" => x.key \in Keys /\ x.pc \in ScanPCs \cup ViewPCs
                /\ x.op # "read" => x.pc \in EntryPCs \/ (x.op = "snapshot" /\ x.pc = "unlock")
                /\ x.i = NoEntry => x.pc \in {"reply", "unlock"}
      PROVE  BoardKept
    BY <1>1, <1>6, LoadKeeps
<1>7. Rest \in ProcType
    BY RestIsIdle
<1> HIDE DEF q, e, c
\* The answers, a new attempt, and the way out of a snapshot.
<1>8. ASSUME NEW y \in ProcType, y.op = q.op, y.key = q.key,
             NEW kind \in {"value", "nomsg", "unwritten", "listed"},
             proc' = [proc EXCEPT ![p] = Reply(y, kind)]
      PROVE  BoardKept
    <2>1. Reply(y, kind) \in ProcType
        BY <1>5 DEF Reply, ProcType
    <2>2. Reply(y, kind).op = q.op /\ Reply(y, kind).key = q.key /\ Reply(y, kind).pc = "reply"
        BY <1>8 DEF Reply, ProcType
    <2> QED
        BY <1>2, <1>6, <1>8, <2>1, <2>2 DEF ViewPCs, EntryPCs
<1>9. ASSUME q.i \in Entries, q.i # NoEntry, proc' = [proc EXCEPT ![p] = Retry(q)] PROVE BoardKept
    <2>1. /\ Retry(q) \in ProcType /\ Retry(q).op = q.op /\ Retry(q).i # NoEntry
          /\ q.op = "read" => Retry(q).pc \in {"resolve", "reply"} /\ Retry(q).key \in Keys
          /\ q.op # "read" => Retry(q).pc \in {"entry_state", "reply"}
        BY <1>2, <1>9, RetryFields
    <2> QED
        BY <1>6, <1>9, <2>1 DEF ViewPCs, EntryPCs, ScanPCs
<1>10. ASSUME NEW y \in ProcType, y.op = q.op, y.i = q.i, NEW pc \in PCs, q.i # NoEntry,
              q.op = "read" => y.key = q.key /\ pc \in ViewPCs,
              q.op # "read" => pc \in EntryPCs \/ (q.op = "snapshot" /\ pc = "unlock"),
              proc' = [proc EXCEPT ![p] = [y EXCEPT !.pc = pc]]
       PROVE  BoardKept
    <2> DEFINE x == [y EXCEPT !.pc = pc]
    <2>1. x \in ProcType /\ x.op = y.op /\ x.i = y.i /\ x.key = y.key /\ x.pc = pc
        BY DEF ProcType
    <2>2. proc' = [proc EXCEPT ![p] = x]
        BY <1>10
    <2> HIDE DEF x
    <2> QED
        BY <1>2, <1>6, <1>10, <2>1, <2>2
<1>11. CASE PublishBefore(p)
    <2> DEFINE y == [q EXCEPT !.publish = e.publish]
    <2>0. q.i \in Entries /\ q.i # NoEntry
        BY <1>2, <1>11 DEF PublishBefore, Load, At, q
    <2>1. y \in ProcType /\ y.op = q.op /\ y.i = q.i /\ y.key = q.key
        BY <1>3, <1>p, <2>0 DEF ProcType
    <2>2. \/ proc' = [proc EXCEPT ![p] = [y EXCEPT !.pc = "len"]]
          \/ proc' = [proc EXCEPT ![p] = Reply(y, "nomsg")]
          \/ proc' = [proc EXCEPT ![p] = [y EXCEPT !.pc = "after"]]
        BY <1>11 DEF PublishBefore, Load, Mine, q, e
    <2> HIDE DEF y
    <2> QED
        BY <1>5, <1>8, <1>10, <2>0, <2>1, <2>2 DEF ViewPCs, EntryPCs
<1>12. CASE LoadLen(p)
    <2> DEFINE x == [q EXCEPT !.pc = "data", !.len = c.len]
    <2>0. q.i \in Entries /\ q.i # NoEntry /\ proc' = [proc EXCEPT ![p] = x]
        BY <1>2, <1>12 DEF LoadLen, Load, At, Shown, q, c
    <2>1. x \in ProcType
        BY <1>4, <1>5, <1>p, <2>0 DEF ProcType
    <2>2. x.op = q.op /\ x.i = q.i /\ x.key = q.key /\ x.pc = "data"
        BY <1>p
    <2> HIDE DEF x
    <2> QED
        BY <1>2, <1>6, <2>0, <2>1, <2>2 DEF ViewPCs, EntryPCs
<1>13. CASE LoadData(p)
    <2> DEFINE x == [q EXCEPT !.pc = "after", !.data = c.data]
    <2>0. q.i \in Entries /\ q.i # NoEntry /\ proc' = [proc EXCEPT ![p] = x]
        BY <1>2, <1>13 DEF LoadData, Load, At, Shown, q, c
    <2>1. x \in ProcType
        BY <1>4, <1>5, <1>p, <2>0 DEF ProcType
    <2>2. x.op = q.op /\ x.i = q.i /\ x.key = q.key /\ x.pc = "after"
        BY <1>p
    <2> HIDE DEF x
    <2> QED
        BY <1>2, <1>6, <2>0, <2>1, <2>2 DEF ViewPCs, EntryPCs
<1>14. CASE PublishAfter(p)
    <2> DEFINE b == q.publish \div 2 = 0 \/ Intact(q.publish, e.publish)
               x == [q EXCEPT !.pc = "verify", !.fresh = b]
    <2>0. q.i \in Entries /\ q.i # NoEntry /\ proc' = [proc EXCEPT ![p] = x] /\ b \in BOOLEAN
        BY <1>2, <1>14 DEF PublishAfter, Load, At, Mine, q, e
    <2> HIDE DEF b
    <2>1. x \in ProcType
        BY <1>5, <1>p, <2>0 DEF ProcType
    <2>2. x.op = q.op /\ x.i = q.i /\ x.key = q.key /\ x.pc = "verify"
        BY <1>p
    <2> HIDE DEF x
    <2> QED
        BY <1>2, <1>6, <2>0, <2>1, <2>2 DEF ViewPCs, EntryPCs
<1>15. CASE TenancyAfter(p)
    <2>0. q.i \in Entries /\ q.i # NoEntry
        BY <1>2, <1>15 DEF TenancyAfter, Load, At, q
    <2>1. \/ proc' = [proc EXCEPT ![p] = Retry(q)]
          \/ proc' = [proc EXCEPT ![p] = Reply(q, "value")]
          \/ q.op # "read" /\ proc' = [proc EXCEPT ![p] = [q EXCEPT !.pc = "entry_after"]]
        BY <1>15 DEF TenancyAfter, Load, q
    <2> QED
        BY <1>2, <1>5, <1>8, <1>9, <1>10, <2>0, <2>1 DEF EntryPCs
<1>16. CASE EntryState(p)
    <2>0. q.i \in Entries /\ q.i # NoEntry /\ q.op # "read"
        BY <1>2, <1>16 DEF EntryState, Load, At, EntryPCs, ViewPCs, q
    <2>1. \/ proc' = [proc EXCEPT ![p] = [q EXCEPT !.pc = "entry_tenancy"]]
          \/ q.op = "snapshot" /\ proc' = [proc EXCEPT ![p] = [q EXCEPT !.pc = "unlock"]]
          \/ proc' = [proc EXCEPT ![p] = Rest]
        BY <1>16 DEF EntryState, Load, q
    <2> QED
        BY <1>2, <1>5, <1>6, <1>7, <1>10, <2>0, <2>1 DEF EntryPCs
<1>17. CASE EntryTenancy(p) \/ EntryKey(p)
    <2> DEFINE y == [q EXCEPT !.tenancy = e.tenancy]
               z == [q EXCEPT !.key = e.key]
    <2>0. q.i \in Entries /\ q.i # NoEntry /\ q.op # "read"
        BY <1>2, <1>17 DEF EntryTenancy, EntryKey, Load, At, EntryPCs, ViewPCs, q
    <2>1. \/ proc' = [proc EXCEPT ![p] = [q EXCEPT !.pc = "entry_key", !.tenancy = e.tenancy]]
          \/ proc' = [proc EXCEPT ![p] = [q EXCEPT !.pc = "publish", !.key = e.key]]
        BY <1>17 DEF EntryTenancy, EntryKey, Load, Mine, q, e
    <2>2. /\ y \in ProcType /\ y.op = q.op /\ y.i = q.i
          /\ z \in ProcType /\ z.op = q.op /\ z.i = q.i
        BY <1>3, <1>p, <2>0 DEF ProcType
    <2>3. /\ [q EXCEPT !.pc = "entry_key", !.tenancy = e.tenancy] = [y EXCEPT !.pc = "entry_key"]
          /\ [q EXCEPT !.pc = "publish", !.key = e.key] = [z EXCEPT !.pc = "publish"]
        BY <1>p
    <2>4. \/ proc' = [proc EXCEPT ![p] = [y EXCEPT !.pc = "entry_key"]]
          \/ proc' = [proc EXCEPT ![p] = [z EXCEPT !.pc = "publish"]]
        BY <2>1, <2>3
    <2> HIDE DEF y, z
    <2> QED
        BY <1>5, <1>10, <2>0, <2>2, <2>4 DEF EntryPCs, ViewPCs
<1>18. CASE EntryStateAfter(p)
    <2>0. q.i \in Entries /\ q.i # NoEntry
        BY <1>2, <1>18 DEF EntryStateAfter, Load, At, q, EntryPCs, ViewPCs
    <2>1. \/ proc' = [proc EXCEPT ![p] = Retry(q)]
          \/ \E kind \in {"value", "unwritten", "listed"} : proc' = [proc EXCEPT ![p] = Reply(q, kind)]
        BY <1>18 DEF EntryStateAfter, Load, q
    <2> QED
        BY <1>2, <1>8, <1>9, <2>0, <2>1
<1>19. CASE Return(p)
    <2> DEFINE x == [q EXCEPT !.pc = "unlock"]
    <2>1. \/ q.op = "snapshot" /\ proc' = [proc EXCEPT ![p] = x]
          \/ proc' = [proc EXCEPT ![p] = Rest]
        BY <1>19 DEF Return, Load, q
    <2>2. x \in ProcType
        BY <1>5, <1>p DEF ProcType
    <2>3. x.op = q.op /\ x.pc = "unlock"
        BY <1>p
    <2> HIDE DEF x
    <2> QED
        BY <1>6, <1>7, <2>1, <2>2, <2>3
<1> QED
    BY <1>11, <1>12, <1>13, <1>14, <1>15, <1>16, <1>17, <1>18, <1>19


-----------------------------------------------------------------------------
(***************************************************************************)
(* Writer::write and Writer::release.                                      *)
(***************************************************************************)
\* A live Writer in a call works on the entry that is its own.
LEMMA WriterAt ==
    ASSUME LockInv, NEW p \in Procs, alive[p],
           proc[p].pc \in {"check", "mark", "put_data", "put_len", "done", "disown"}
    PROVE  /\ proc[p] \in ProcType /\ writer[p] \in WriterType /\ writer[p] # NoWriter
           /\ proc[p].i = writer[p].idx /\ proc[p].i \in Entries /\ writer[p].key \in Keys
           /\ Keeps(p, writer[p]) /\ entry[proc[p].i] \in EntryType /\ writer[p].writes \in Nat
           /\ proc[p].op = IF proc[p].pc = "disown" THEN "release" ELSE "write"
<1>1. proc[p] \in ProcType /\ LocalOK(proc[p], writer[p]) /\ proc[p].op \in Ops \cup {"none"}
    BY DEF LockInv, Typed, Locals, ProcType
<1>2. proc[p].op = IF proc[p].pc = "disown" THEN "release" ELSE "write"
    BY <1>1 DEF LocalOK, Placed, Ops, EntryPCs, ViewPCs, ClaimPCs, WaitPCs
<1>3. /\ writer[p] # NoWriter /\ proc[p].i = writer[p].idx /\ writer[p].idx \in Entries /\ writer[p].key \in Keys
    BY <1>1, <1>2 DEF LocalOK
<1>4. Keeps(p, writer[p]) /\ entry \in [Entries -> EntryType] /\ writer[p] \in WriterType
    BY <1>3 DEF LockInv, Writers, Typed
<1>5. writer[p].writes \in Nat
    BY <1>4 DEF WriterType
<1> QED
    BY <1>1, <1>2, <1>3, <1>4, <1>5

\* The steps of write() that leave the entry alone: the check of the tenancy
\* and the stores into the cell no reader is on.
LEMMA WriteSteps ==
    ASSUME BoardInv, NEW p \in Procs, WriteCheck(p) \/ WriteData(p) \/ WriteLen(p)
    PROVE  BoardKept
<1> DEFINE i == proc[p].i
           t == Target(p)
           d == proc[p].data
<1>0. /\ LockInv /\ WaitersExact /\ Typed /\ Locals
      /\ alive[p] /\ proc[p].pc \in {"check", "put_data", "put_len"}
      /\ UNCHANGED <<entry, board, writer, cache, alive, used>>
    BY DEF BoardInv, LockInv, WriteCheck, WriteData, WriteLen, At
<1>1. /\ proc[p] \in ProcType /\ writer[p] \in WriterType /\ writer[p] # NoWriter
      /\ i = writer[p].idx /\ i \in Entries /\ writer[p].key \in Keys /\ proc[p].op = "write"
      /\ writer[p].writes \in Nat
    BY <1>0, WriterAt
<1>2. t \in 0..1 /\ d \in Nat
    BY <1>1 DEF Target, ProcType
<1>3. cell' \in CellType
    <2>1. \/ cell' = cell
          \/ cell' = [cell EXCEPT ![i] = [cell[i] EXCEPT ![t] = [cell[i][t] EXCEPT !.data = d]]]
          \/ cell' = [cell EXCEPT ![i] = [cell[i] EXCEPT ![t] = [cell[i][t] EXCEPT !.len = d]]]
        BY <1>0, <1>1, <1>2 DEF WriteCheck, WriteData, WriteLen, Typed
    <2> HIDE DEF i, t, d
    <2>2. cell \in CellType /\ cell[i][t] \in [data : Nat, len : Nat]
        BY <1>0, <1>1, <1>2 DEF Typed, CellType
    <2>3. /\ [cell[i][t] EXCEPT !.data = d] \in [data : Nat, len : Nat]
          /\ [cell[i][t] EXCEPT !.len = d] \in [data : Nat, len : Nat]
        BY <1>2, <2>2
    <2>4. ASSUME NEW c \in [data : Nat, len : Nat]
          PROVE  [cell EXCEPT ![i] = [cell[i] EXCEPT ![t] = c]] \in CellType
        BY <1>1, <1>2, <2>2 DEF CellType
    <2> QED
        BY <2>1, <2>2, <2>3, <2>4
<1>4. /\ proc' \in [Procs -> ProcType] /\ \A q \in Procs \ {p} : proc'[q] = proc[q]
      /\ \/ proc'[p] = Rest
         \/ proc'[p].op = "write" /\ proc'[p].i = i /\ proc'[p].pc \in {"mark", "put_len", "done"}
    <2>1. \/ Goto(p, "mark") \/ Goto(p, "put_len") \/ Goto(p, "done") \/ proc' = [proc EXCEPT ![p] = Rest]
        BY DEF WriteCheck, WriteData, WriteLen
    <2>2. {"mark", "put_len", "done"} \subseteq PCs
        BY DEF PCs
    <2>3. ASSUME NEW pc \in {"mark", "put_len", "done"}, Goto(p, pc)
          PROVE  /\ proc' \in [Procs -> ProcType] /\ \A q \in Procs \ {p} : proc'[q] = proc[q]
                 /\ proc'[p].op = "write" /\ proc'[p].i = i /\ proc'[p].pc = pc
        BY <1>0, <1>1, <2>2, <2>3, GotoFields
    <2>4. CASE proc' = [proc EXCEPT ![p] = Rest]
        BY <1>0, <2>4, SetProc, RestIsIdle
    <2> QED
        BY <2>1, <2>3, <2>4
<1>5. LocalOK(proc'[p], writer'[p])
    <2>1. i # NoEntry /\ Rest.i # NoEntry
        BY <1>1, RestIsIdle, BoardAssumption DEF Entries, NoEntry
    <2> HIDE DEF i
    <2> QED
        BY <1>0, <1>1, <1>4, <2>1, RestIsIdle DEF LocalOK, Placed
<1>6. ~Inside(p)'
    BY <1>4, RestIsIdle DEF Inside
<1>7. LockInv'
    BY <1>0, <1>3, <1>4, <1>5, <1>6, LocalStep DEF Typed, BoardType, CacheType
<1>8. WaitersExact' /\ WaitKept
    BY <1>0, <1>4, RestIsIdle, NobodyWaits DEF WaitPCs
<1> QED
    BY <1>7, <1>8 DEF BoardInv, BoardKept

\* The stores of the publish word on either side of them.
LEMMA PublishSteps ==
    ASSUME BoardInv, NEW p \in Procs, WriteMark(p) \/ WriteDone(p)
    PROVE  BoardKept
<1> DEFINE i == proc[p].i
           w == writer[p].writes
<1>0. /\ LockInv /\ WaitersExact /\ Typed /\ Locals
      /\ alive[p] /\ proc[p].pc \in {"mark", "done"}
      /\ UNCHANGED <<cell, board, cache, alive, used>>
    BY DEF BoardInv, LockInv, WriteMark, WriteDone, ClaimStore, At
<1>1. /\ proc[p] \in ProcType /\ writer[p] \in WriterType /\ writer[p] # NoWriter
      /\ i = writer[p].idx /\ i \in Entries /\ writer[p].key \in Keys /\ proc[p].op = "write"
      /\ w \in Nat /\ Keeps(p, writer[p]) /\ entry[i] \in EntryType
    BY <1>0, WriterAt
<1>2. i # NoEntry /\ writer \in [Procs -> WriterType]
    <2>1. i # NoEntry
        BY <1>1, BoardAssumption DEF Entries, NoEntry
    <2> QED
        BY <1>0, <2>1 DEF Typed
<1> HIDE DEF i, w
\* Either of them, by the count it leaves in the Writer.
<1>3. ASSUME NEW n \in Nat, NEW v \in WriterType, NEW pc \in {"put_data", "bump"},
             Put(i, [entry[i] EXCEPT !.publish = n]), Goto(p, pc),
             writer' = [writer EXCEPT ![p] = v], v.idx = i, v.key = writer[p].key,
             v.tenancy = writer[p].tenancy, v.writes = n \div 2
      PROVE  BoardKept
    <2> DEFINE e == [entry[i] EXCEPT !.publish = n]
    <2>1. e \in EntryType
        BY <1>1 DEF EntryType
    <2>2. /\ e.state = entry[i].state /\ e.owner = entry[i].owner /\ e.hash = entry[i].hash
          /\ e.key = entry[i].key /\ e.tenancy = entry[i].tenancy /\ e.publish = n
        BY <1>1 DEF EntryType
    <2>3. Put(i, e)
        BY <1>3
    <2> HIDE DEF e
    <2>4. /\ entry' \in [Entries -> EntryType] /\ \A j \in Entries \ {i} : entry'[j] = entry[j]
          /\ entry'[i] = e
        BY <1>0, <1>1, <2>1, <2>3, PutFields
    <2>5. pc \in PCs
        BY DEF PCs
    <2>6. /\ proc' \in [Procs -> ProcType] /\ \A q \in Procs \ {p} : proc'[q] = proc[q]
          /\ proc'[p].pc = pc /\ proc'[p].op = "write" /\ proc'[p].i = i
        BY <1>0, <1>1, <1>3, <2>5, GotoFields DEF i
    <2>7. /\ writer' \in [Procs -> WriterType] /\ writer'[p] = v
          /\ \A q \in Procs \ {p} : writer'[q] = writer[q]
        BY <1>2, <1>3
    <2>8. v # NoWriter
        BY <1>2, <1>3 DEF NoWriter
    <2>9. LocalOK(proc'[p], writer'[p])
        BY <1>1, <1>2, <1>3, <2>6, <2>7, <2>8 DEF LocalOK, Placed
    <2>10. Keeps(p, writer[p])'
        BY <1>1, <1>3, <2>2, <2>4, <2>7 DEF Keeps
    <2>11. LockInv'
        BY <1>0, <1>1, <2>2, <2>4, <2>6, <2>7, <2>9, <2>10, PublishStep DEF i
    <2>12. WaitersExact' /\ WaitKept
        BY <1>0, <2>6, NobodyWaits DEF WaitPCs
    <2> QED
        BY <2>11, <2>12 DEF BoardInv, BoardKept
<1>4. CASE WriteMark(p)
    <2>1. /\ Put(i, [entry[i] EXCEPT !.publish = 2 * w + 1]) /\ Goto(p, "put_data") /\ writer' = writer
        BY <1>4 DEF WriteMark, ClaimStore, Mine, i, w
    <2>2. 2 * w + 1 \in Nat /\ (2 * w + 1) \div 2 = w
        BY <1>1
    <2>3. writer' = [writer EXCEPT ![p] = writer[p]]
        BY <1>2, <2>1
    <2> QED
        BY <1>1, <1>3, <2>1, <2>2, <2>3 DEF w
<1>5. CASE WriteDone(p)
    <2> DEFINE v == [writer[p] EXCEPT !.writes = w + 1]
    <2>1. /\ Put(i, [entry[i] EXCEPT !.publish = 2 * (w + 1)]) /\ Goto(p, "bump")
          /\ writer' = [writer EXCEPT ![p] = v]
        BY <1>2, <1>5 DEF WriteDone, Mine, i, w
    <2>2. 2 * (w + 1) \in Nat /\ (2 * (w + 1)) \div 2 = w + 1
        BY <1>1
    <2>3. v \in WriterType
        BY <1>1 DEF WriterType
    <2>4. v.idx = i /\ v.key = writer[p].key /\ v.tenancy = writer[p].tenancy /\ v.writes = w + 1
        BY <1>1 DEF WriterType
    <2> HIDE DEF v
    <2> QED
        BY <1>3, <2>1, <2>2, <2>3, <2>4
<1> QED
    BY <1>4, <1>5


\* release(): the entry is given up, then its tenancy moves on.
LEMMA ReleaseSteps ==
    ASSUME BoardInv, NEW p \in Procs, Disown(p) \/ LeaveTenancy(p)
    PROVE  BoardKept
<1> DEFINE i == proc[p].i
<1>0. /\ LockInv /\ WaitersExact /\ Typed /\ Locals
      /\ alive[p] /\ proc[p].pc \in {"disown", "leave_tenancy"}
      /\ UNCHANGED <<cell, board, cache, alive, used>>
    BY DEF BoardInv, LockInv, Disown, LeaveTenancy, ClaimStore, At
<1>1. /\ proc[p] \in ProcType /\ LocalOK(proc[p], writer[p]) /\ proc[p].op = "release"
      /\ i \in Entries /\ entry[i] \in EntryType /\ writer \in [Procs -> WriterType]
    <2>1. proc[p] \in ProcType /\ LocalOK(proc[p], writer[p]) /\ proc[p].op \in Ops \cup {"none"}
        BY <1>0 DEF Typed, Locals, ProcType
    <2>2. proc[p].op = "release"
        BY <1>0, <2>1 DEF LocalOK, Placed, Ops, EntryPCs, ViewPCs, ClaimPCs, WaitPCs
    <2>3. i \in Entries
        BY <1>0, IndexInUse
    <2> QED
        BY <1>0, <2>1, <2>2, <2>3 DEF Typed
<1>2. i # NoEntry /\ p # NoProc
    BY <1>1, BoardAssumption DEF Entries, NoEntry
<1>3. Inside(p) /\ Scene(p, proc[p])
    BY <1>0 DEF LockInv, Scenes, Inside
<1>4. \A j \in Entries : Clean(j)
    BY <1>0, <1>3 DEF Scene, ClaimPCs
<1> HIDE DEF i
\* Either of them, by what it leaves in the entry and in the Writer.
<1>5. ASSUME NEW e \in EntryType, e.state = "Active", entry[i].state = "Active", e.hash = entry[i].hash,
             e.key = entry[i].key, e.owner = NoProc, Put(i, e),
             NEW pc \in {"leave_tenancy", "bump"}, Goto(p, pc),
             entry[i].owner \in {p, NoProc}, writer' \in [Procs -> WriterType],
             \A q \in Procs \ {p} : writer'[q] = writer[q],
             writer'[p] # NoWriter => writer'[p] = writer[p] /\ entry[i].owner # p
      PROVE  BoardKept
    <2>1. /\ entry' \in [Entries -> EntryType] /\ \A j \in Entries \ {i} : entry'[j] = entry[j]
          /\ entry'[i] = e
        BY <1>0, <1>1, <1>5, PutFields
    <2>2. pc \in PCs
        BY DEF PCs
    <2>3. /\ proc' \in [Procs -> ProcType] /\ \A q \in Procs \ {p} : proc'[q] = proc[q]
          /\ proc'[p].pc = pc /\ proc'[p].op = "release" /\ proc'[p].i = i
        BY <1>0, <1>1, <1>5, <2>2, GotoFields DEF i
    <2>4. LocalOK(proc'[p], writer'[p])
        BY <1>1, <1>2, <1>5, <2>3 DEF LocalOK, Placed
    <2>5. Inside(p)'
        BY <2>3 DEF Inside
    <2>6. \A j \in Entries : Clean(j)'
        BY <1>4, <1>5, <2>1 DEF Clean, Residue
    <2>7. Scene(p, proc[p])'
        BY <1>5, <2>1, <2>3, <2>6 DEF Scene, ClaimPCs
    <2>8. Takeable(entry[i]) \/ entry[i].owner = p
        BY <1>5 DEF Takeable
    <2>9. writer'[p] # NoWriter => Keeps(p, writer[p])'
        <3> SUFFICES ASSUME writer'[p] # NoWriter PROVE Keeps(p, writer[p])'
            OBVIOUS
        <3>1. writer'[p] = writer[p] /\ Keeps(p, writer[p]) /\ writer[p].idx \in Entries /\ writer[p].idx # i
            BY <1>0, <1>1, <1>5 DEF LockInv, Writers, Keeps, LocalOK
        <3> QED
            BY <2>1, <3>1 DEF Keeps
    <2>10. e.hash # NoKey =>
               /\ e.key = e.hash
               /\ \A j \in Entries \ {i} : entry[j].state = "Active" => entry[j].hash # e.hash
        BY <1>0, <1>1, <1>5 DEF LockInv, Keyed, KeyIsUnique
    <2>11. LockInv'
        BY <1>0, <1>1, <1>3, <1>5, <2>1, <2>3, <2>4, <2>5, <2>7, <2>8, <2>9, <2>10, LockedStep
    <2>12. WaitersExact' /\ WaitKept
        BY <1>0, <2>3, NobodyWaits DEF WaitPCs
    <2> QED
        BY <2>11, <2>12 DEF BoardInv, BoardKept
<1>6. CASE Disown(p)
    <2> DEFINE e == [entry[i] EXCEPT !.owner = NoProc]
    <2>1. writer[p] # NoWriter /\ i = writer[p].idx /\ Keeps(p, writer[p])
        BY <1>0, <1>6, WriterAt DEF Disown, At, i
    <2>2. entry[i].state = "Active" /\ entry[i].owner = p /\ Holds(p, entry[i])
        BY <2>1 DEF Keeps, Holds
    <2>3. Put(i, e) /\ Goto(p, "leave_tenancy") /\ writer' = [writer EXCEPT ![p] = NoWriter]
        BY <1>6, <2>2 DEF Disown, Mine, i
    <2>4. e \in EntryType
        BY <1>1 DEF EntryType
    <2>5. e.state = "Active" /\ e.hash = entry[i].hash /\ e.key = entry[i].key /\ e.owner = NoProc
        BY <1>1, <2>2 DEF EntryType
    <2>6. NoWriter \in WriterType
        BY BoardAssumption DEF NoWriter, WriterType, NoEntry
    <2>7. /\ writer' \in [Procs -> WriterType] /\ writer'[p] = NoWriter
          /\ \A q \in Procs \ {p} : writer'[q] = writer[q]
        BY <1>1, <2>3, <2>6
    <2> HIDE DEF e
    <2> QED
        BY <1>5, <2>2, <2>3, <2>4, <2>5, <2>7
<1>7. CASE LeaveTenancy(p)
    <2> DEFINE e == [entry[i] EXCEPT !.tenancy = entry[i].tenancy + 1]
    <2>1. proc[p].pc = "leave_tenancy" /\ Put(i, e) /\ Goto(p, "bump") /\ writer' = writer
        BY <1>1, <1>7 DEF LeaveTenancy, ClaimStore, At, Mine, i
    <2>2. entry[i].state = "Active" /\ entry[i].owner = NoProc
        BY <1>3, <2>1 DEF Scene, i
    <2>3. e \in EntryType
        BY <1>1 DEF EntryType
    <2>4. e.state = "Active" /\ e.hash = entry[i].hash /\ e.key = entry[i].key /\ e.owner = NoProc
        BY <1>1, <2>2 DEF EntryType
    <2> HIDE DEF e
    <2> QED
        BY <1>1, <1>2, <1>5, <2>1, <2>2, <2>3, <2>4
<1> QED
    BY <1>6, <1>7

-----------------------------------------------------------------------------
(***************************************************************************)
(* notify_change and wait().                                               *)
(***************************************************************************)
\* The bump of change_seq: from here on p owes a wake.
LEMMA BumpStep ==
    ASSUME BoardInv, NEW p \in Procs, Bump(p)
    PROVE  BoardKept
<1>0. /\ LockInv /\ WaitersExact /\ Typed /\ Locals
      /\ alive[p] /\ proc[p].pc = "bump" /\ Goto(p, "wake")
      /\ UNCHANGED <<entry, cell, writer, cache, alive, used>>
    BY DEF BoardInv, LockInv, Bump, At
<1>1. "wake" \in PCs
    BY DEF PCs
<1>2. /\ proc' \in [Procs -> ProcType] /\ \A q \in Procs \ {p} : proc'[q] = proc[q]
      /\ proc'[p].pc = "wake" /\ proc'[p].op = proc[p].op /\ proc'[p].key = proc[p].key
      /\ proc'[p].i = proc[p].i
    BY <1>0, <1>1, GotoFields
<1>3. /\ board' \in BoardType /\ board'.lock = board.lock /\ board'.waiters = board.waiters
      /\ board'.change = board.change + 1
    <2>1. board \in [lock : Procs \cup {NoProc}, change : Nat, waiters : Nat]
        BY <1>0 DEF Typed
    <2>2. board' = [board EXCEPT !.change = board.change + 1]
        BY <2>1 DEF Bump
    <2> QED
        BY <2>1, <2>2 DEF BoardType
<1>4. LocalOK(proc'[p], writer'[p])
    <2>1. LocalOK(proc[p], writer[p])
        BY <1>0 DEF Locals
    <2>2. LocalOK(proc'[p], writer[p])
        BY <1>0, <1>2, <2>1 DEF LocalOK, Placed, WaitPCs, EntryPCs, ViewPCs
    <2> QED
        BY <1>0, <2>2
<1>5. ASSUME Inside(p)' PROVE Inside(p) /\ Scene(p, proc'[p])
    <2>1. Inside(p)
        BY <1>0, <1>2, <1>5 DEF Inside
    <2>2. Scene(p, proc[p])
        BY <1>0, <2>1 DEF LockInv, Scenes
    <2>3. Scene(p, proc'[p])
        BY <1>0, <1>2, <2>2 DEF Scene, ClaimPCs
    <2> QED
        BY <2>1, <2>3
<1>6. LockInv'
    BY <1>0, <1>2, <1>3, <1>4, <1>5, LocalStep, SharedTypes
<1>7. WaitersExact'
    <2>1. Waiting' = Waiting
        BY <1>0, <1>2 DEF Waiting, WaitPCs
    <2> QED
        BY <1>0, <1>3, <2>1 DEF WaitersExact
<1>8. WaitKept
    <2>1. SleeperIsOwed'
        BY <1>2 DEF SleeperIsOwed
    <2>2. SawBefore => SawBefore'
        BY <1>0, <1>2, <1>3 DEF SawBefore, WaitPCs, Typed, ProcType
    <2> QED
        BY <2>1, <2>2 DEF WaitKept, WaitInv
<1> QED
    BY <1>6, <1>7, <1>8 DEF BoardInv, BoardKept


\* The wake: whoever sleeps is on the count, so a count of 0 wakes nobody
\* because nobody sleeps.
LEMMA WakeStep ==
    ASSUME BoardInv, NEW p \in Procs, Wake(p)
    PROVE  BoardKept
<1>0. /\ LockInv /\ WaitersExact /\ Typed /\ Locals
      /\ alive[p] /\ proc[p].pc = "wake" /\ proc \in [Procs -> ProcType]
      /\ UNCHANGED <<entry, cell, board, writer, cache, alive, used>>
    BY DEF BoardInv, LockInv, Wake, At, Typed
<1>1. ASSUME NEW q \in Procs
      PROVE  /\ proc[q] \in ProcType /\ LocalOK(proc[q], writer[q])
             /\ proc[q].op \in Ops \cup {"none"}
    BY <1>0 DEF Locals, ProcType
<1>2. {"unlock", "leave"} \subseteq PCs
    BY DEF PCs
<1>3. ASSUME NEW x \in ProcType, NEW pc \in {"unlock", "leave"}
      PROVE  /\ [x EXCEPT !.pc = pc] \in ProcType /\ [x EXCEPT !.pc = pc].pc = pc
             /\ [x EXCEPT !.pc = pc].op = x.op /\ [x EXCEPT !.pc = pc].key = x.key
             /\ [x EXCEPT !.pc = pc].i = x.i /\ [x EXCEPT !.pc = pc].publish = x.publish
    BY <1>2 DEF ProcType
\* What becomes of p ...
<1>4. /\ proc'[p] \in ProcType
      /\ \/ proc'[p] = Rest
         \/ /\ proc[p].op # "write" /\ proc'[p].pc = "unlock" /\ proc'[p].op = proc[p].op
            /\ proc'[p].key = proc[p].key /\ proc'[p].i = proc[p].i
    <2>1. \/ proc'[p] = Rest
          \/ proc[p].op # "write" /\ proc'[p] = [proc[p] EXCEPT !.pc = "unlock"]
        BY <1>0 DEF Wake
    <2>2. proc[p] \in ProcType
        BY <1>0
    <2>3. /\ [proc[p] EXCEPT !.pc = "unlock"] \in ProcType /\ [proc[p] EXCEPT !.pc = "unlock"].pc = "unlock"
          /\ [proc[p] EXCEPT !.pc = "unlock"].op = proc[p].op
          /\ [proc[p] EXCEPT !.pc = "unlock"].key = proc[p].key
          /\ [proc[p] EXCEPT !.pc = "unlock"].i = proc[p].i
        BY <1>3, <2>2
    <2> QED
        BY <2>1, <2>3, RestIsIdle
\* ... and of the others.
<1>5. ASSUME NEW q \in Procs \ {p}
      PROVE  /\ proc'[q] \in ProcType
             /\ \/ proc'[q] = proc[q] /\ (board.waiters = 0 \/ proc[q].pc # "asleep")
                \/ /\ proc[q].pc = "asleep" /\ proc'[q].pc = "leave" /\ proc'[q].op = proc[q].op
                   /\ proc'[q].key = proc[q].key /\ proc'[q].i = proc[q].i /\ proc'[q].publish = proc[q].publish
    <2>1. \/ proc'[q] = proc[q] /\ (board.waiters = 0 \/ proc[q].pc # "asleep")
          \/ proc[q].pc = "asleep" /\ proc'[q] = [proc[q] EXCEPT !.pc = "leave"]
        BY <1>0 DEF Wake
    <2>2. proc[q] \in ProcType
        BY <1>0
    <2>3. /\ [proc[q] EXCEPT !.pc = "leave"] \in ProcType /\ [proc[q] EXCEPT !.pc = "leave"].pc = "leave"
          /\ [proc[q] EXCEPT !.pc = "leave"].op = proc[q].op
          /\ [proc[q] EXCEPT !.pc = "leave"].key = proc[q].key
          /\ [proc[q] EXCEPT !.pc = "leave"].i = proc[q].i
          /\ [proc[q] EXCEPT !.pc = "leave"].publish = proc[q].publish
        BY <1>3, <2>2
    <2> QED
        BY <2>1, <2>2, <2>3
<1>6. proc' \in [Procs -> ProcType]
    <2>1. \A q \in Procs : proc'[q] \in ProcType
        BY <1>4, <1>5
    <2>2. DOMAIN proc' = Procs /\ proc' = [q \in DOMAIN proc' |-> proc'[q]]
        BY DEF Wake
    <2> QED
        BY <2>1, <2>2
<1>7. ASSUME NEW q \in Procs
      PROVE  /\ LocalOK(proc'[q], writer[q])
             /\ Inside(q)' => Inside(q)
             /\ Inside(q)' /\ Scene(q, proc[q]) => Scene(q, proc'[q])
    <2>0. LocalOK(proc[q], writer[q]) /\ proc[q].op \in Ops \cup {"none"}
        BY <1>1
    <2>1. CASE proc'[q] = proc[q]
        BY <2>0, <2>1 DEF Inside
    <2>2. CASE proc'[q] = Rest
        <3>1. 0 # NoEntry
            BY BoardAssumption DEF NoEntry
        <3> QED
            BY <2>0, <2>2, <3>1, RestIsIdle DEF LocalOK, Placed, Inside
    <2>3. CASE /\ q = p /\ proc[p].op # "write" /\ proc'[p].pc = "unlock" /\ proc'[p].op = proc[p].op
               /\ proc'[p].key = proc[p].key /\ proc'[p].i = proc[p].i
        <3>1. LocalOK(proc'[p], writer[p])
            BY <1>0, <2>0, <2>3 DEF LocalOK, Placed, Ops, WaitPCs, EntryPCs, ViewPCs
        <3>2. Inside(p)
            BY <1>0, <2>3 DEF Inside
        <3>3. Scene(p, proc[p]) => Scene(p, proc'[p])
            BY <1>0, <2>3 DEF Scene, ClaimPCs
        <3> QED
            BY <2>3, <3>1, <3>2, <3>3
    <2>4. CASE /\ proc[q].pc = "asleep" /\ proc'[q].pc = "leave" /\ proc'[q].op = proc[q].op
               /\ proc'[q].key = proc[q].key /\ proc'[q].i = proc[q].i
        <3>1. proc[q].op = "wait"
            BY <2>0, <2>4 DEF LocalOK, Placed, Ops, ClaimPCs, EntryPCs, ViewPCs
        <3> QED
            BY <2>0, <2>4, <3>1 DEF LocalOK, Placed, Inside, WaitPCs
    <2> QED
        BY <1>4, <1>5, <2>1, <2>2, <2>3, <2>4
<1>8. LockInv'
    <2>1. Typed'
        BY <1>0, <1>6 DEF Typed
    <2>2. Locals'
        BY <1>0, <1>7 DEF Locals
    <2>3. HolderIsAlone'
        BY <1>0, <1>7 DEF LockInv, HolderIsAlone
    <2>4. Scenes'
        <3> SUFFICES ASSUME NEW q \in Procs, alive'[q], Inside(q)' PROVE Scene(q, proc[q])'
            BY DEF Scenes
        <3>1. Scene(q, proc'[q])
            BY <1>0, <1>7 DEF LockInv, Scenes
        <3>2. \A x : Scene(q, x)' <=> Scene(q, x)
            BY <1>0, SceneSame
        <3> QED
            BY <3>1, <3>2
    <2>5. UnlockedIsClean' /\ Keyed' /\ KeyIsUnique'
        BY <1>0 DEF LockInv, UnlockedIsClean, Keyed, KeyIsUnique, Residue
    <2>6. Writers'
        BY <1>0 DEF LockInv, Writers, Keeps
    <2> QED
        BY <2>1, <2>2, <2>3, <2>4, <2>5, <2>6 DEF LockInv
<1>9. WaitersExact'
    <2>1. ASSUME NEW q \in Procs PROVE proc'[q].pc \in WaitPCs <=> proc[q].pc \in WaitPCs
        BY <1>0, <1>4, <1>5, RestIsIdle DEF WaitPCs
    <2>2. Waiting' = Waiting
        BY <2>1 DEF Waiting
    <2> QED
        BY <1>0, <2>2 DEF WaitersExact
<1>10. ASSUME NEW q \in Procs, At(q, "asleep")' PROVE FALSE
    <2>1. q # p
        BY <1>4, <1>10, RestIsIdle DEF At
    <2>2. proc[q].pc = "asleep" /\ board.waiters = 0
        BY <1>5, <1>10, <2>1 DEF At
    <2>3. q \in Waiting /\ Waiting \subseteq Procs
        BY <2>2 DEF Waiting, WaitPCs
    <2>4. IsFiniteSet(Waiting)
        BY <2>3, FS_Subset, BoardAssumption
    <2>5. Cardinality(Waiting) = 0
        BY <1>0, <2>2 DEF WaitersExact
    <2> QED
        BY <2>3, <2>4, <2>5, FS_EmptySet
<1>11. SawBefore => SawBefore'
    BY <1>0, <1>4, <1>5, RestIsIdle DEF SawBefore, WaitPCs
<1>12. WaitKept
    BY <1>10, <1>11 DEF WaitKept, WaitInv, SleeperIsOwed
<1> QED
    BY <1>8, <1>9, <1>12 DEF BoardInv, BoardKept

\* A step of wait() moves its caller, who is outside the lock, and the count.
LEMMA WaitKeeps ==
    ASSUME LockInv, NEW p \in Procs, proc[p].pc \in {"look", "enlist"} \cup WaitPCs,
           UNCHANGED <<entry, cell, writer, cache, alive, used>>,
           board' \in BoardType, board'.lock = board.lock,
           proc' \in [Procs -> ProcType], \A q \in Procs \ {p} : proc'[q] = proc[q],
           \/ proc'[p] = Rest
           \/ /\ proc'[p].op = proc[p].op /\ proc'[p].i = proc[p].i
              /\ proc'[p].pc \in {"look", "enlist"} \cup WaitPCs
    PROVE  LockInv'
<1>1. LocalOK(proc[p], writer[p]) /\ proc[p].op \in Ops \cup {"none"} /\ Typed
    BY DEF LockInv, Locals, Typed, ProcType
<1>2. proc[p].op = "wait"
    BY <1>1 DEF LocalOK, Placed, Ops, ClaimPCs, EntryPCs, ViewPCs, WaitPCs
<1>3. 0 # NoEntry /\ proc[p].i # NoEntry
    BY <1>1, BoardAssumption DEF NoEntry, LocalOK, WaitPCs
<1>4. LocalOK(proc'[p], writer'[p])
    <2>1. LocalOK(proc'[p], writer[p])
        BY <1>1, <1>2, <1>3, RestIsIdle DEF LocalOK, Placed, WaitPCs
    <2> QED
        BY <2>1
<1>5. ~Inside(p)'
    BY <1>2, RestIsIdle DEF Inside, WaitPCs
<1> QED
    BY <1>1, <1>4, <1>5, LocalStep, SharedTypes


\* Looking, sleeping and running out of time: the count stays, and p falls
\* asleep only over the change it saw last.
LEMMA SleepSteps ==
    ASSUME BoardInv, NEW p \in Procs, Look(p) \/ Relook(p) \/ FutexWait(p) \/ TimeOut(p)
    PROVE  BoardKept
<1> DEFINE q == proc[p]
<1>0. /\ LockInv /\ WaitersExact /\ Typed
      /\ q.pc \in {"look", "relook", "sleep", "asleep"} /\ q \in ProcType
      /\ UNCHANGED <<entry, cell, board, writer, cache, alive, used>>
    BY DEF BoardInv, LockInv, Look, Relook, FutexWait, TimeOut, Load, At, Typed
<1>1. PICK x \in ProcType :
          /\ proc' = [proc EXCEPT ![p] = x]
          /\ \/ q.pc = "look" /\ x = Rest
             \/ q.pc = "look" /\ x.pc = "enlist" /\ x.op = q.op /\ x.i = q.i /\ x.publish = q.publish
             \/ /\ q.pc \in {"relook", "sleep", "asleep"} /\ x.pc \in WaitPCs
                /\ x.op = q.op /\ x.i = q.i /\ x.publish = q.publish
                /\ x.pc = "asleep" => q.pc = "sleep" /\ SameWord(p)
    <2>1. q \in [pc : PCs, op : Ops \cup {"none"}, key : Keys \cup {NoKey},
                 i : 0..Capacity, n : Nat, tenancy : Nat, publish : Nat, len : Nat,
                 data : Nat, fresh : BOOLEAN,
                 kind : {"none", "value", "noent", "nomsg", "unwritten", "listed", "again"}]
        BY <1>0 DEF ProcType
    <2>2. \/ q.pc = "look" /\ proc' = [proc EXCEPT ![p] = Rest]
          \/ q.pc = "look" /\ proc' = [proc EXCEPT ![p] = [q EXCEPT !.pc = "enlist"]]
          \/ q.pc \in {"relook", "sleep"} /\ proc' = [proc EXCEPT ![p] = [q EXCEPT !.pc = "leave"]]
          \/ q.pc \in {"relook", "sleep"} /\ proc' = [proc EXCEPT ![p] = [q EXCEPT !.pc = "sleep"]]
          \/ SameWord(p) /\ q.pc = "sleep" /\ proc' = [proc EXCEPT ![p] = [q EXCEPT !.pc = "asleep"]]
          \/ q.pc = "asleep" /\ proc' = [proc EXCEPT ![p] = [q EXCEPT !.pc = "leave", !.fresh = TRUE]]
        BY DEF Look, Relook, FutexWait, TimeOut, Load, At
    <2> HIDE DEF q
    <2>3. ASSUME NEW pc \in {"enlist", "leave", "sleep", "asleep"}
          PROVE  /\ [q EXCEPT !.pc = pc] \in ProcType /\ [q EXCEPT !.pc = pc].pc = pc
                 /\ [q EXCEPT !.pc = pc].op = q.op /\ [q EXCEPT !.pc = pc].i = q.i
                 /\ [q EXCEPT !.pc = pc].publish = q.publish
        <3>1. pc \in PCs
            BY DEF PCs
        <3> QED
            BY <2>1, <3>1 DEF ProcType
    <2>4. LET y == [q EXCEPT !.pc = "leave", !.fresh = TRUE]
          IN  y \in ProcType /\ y.pc = "leave" /\ y.op = q.op /\ y.i = q.i /\ y.publish = q.publish
        <3>1. "leave" \in PCs
            BY DEF PCs
        <3> QED
            BY <2>1, <3>1 DEF ProcType
    <2>5. Rest \in ProcType
        BY RestIsIdle
    <2>6. CASE q.pc = "look"
        BY <2>2, <2>3, <2>5, <2>6
    <2>7. CASE q.pc \in {"relook", "sleep"}
        BY <2>2, <2>3, <2>7 DEF WaitPCs
    <2>8. CASE q.pc = "asleep"
        BY <2>2, <2>4, <2>8 DEF WaitPCs
    <2> QED
        BY <1>0, <2>6, <2>7, <2>8
<1>2. /\ proc' \in [Procs -> ProcType] /\ \A u \in Procs \ {p} : proc'[u] = proc[u]
      /\ proc'[p] = x
    BY <1>0, <1>1, SetProc
<1>3. LockInv'
    <2>1. board \in BoardType /\ q.pc \in {"look", "enlist"} \cup WaitPCs
        BY <1>0, SharedTypes DEF WaitPCs
    <2>2. \/ proc'[p] = Rest
          \/ /\ proc'[p].op = q.op /\ proc'[p].i = q.i
             /\ proc'[p].pc \in {"look", "enlist"} \cup WaitPCs
        BY <1>1, <1>2
    <2> QED
        BY <1>0, <1>2, <2>1, <2>2, WaitKeeps
<1>4. WaitersExact'
    <2>1. x.pc \in WaitPCs <=> q.pc \in WaitPCs
        BY <1>1, RestIsIdle DEF WaitPCs
    <2>2. Waiting' = Waiting
        BY <1>2, <2>1 DEF Waiting
    <2> QED
        BY <1>0, <2>2 DEF WaitersExact
<1>5. WaitKept
    <2> SUFFICES ASSUME NoWrap, WaitInv PROVE WaitInv'
        BY DEF WaitKept
    <2>1. SawBefore'
        BY <1>0, <1>1, <1>2, RestIsIdle DEF WaitInv, SawBefore, WaitPCs
    <2>2. ASSUME NEW u \in Procs, At(u, "asleep")', Changed(u)'
          PROVE  \E v \in Procs : proc'[v].pc = "wake"
        <3>1. CASE u = p
            <4>1. x.pc = "asleep" /\ q.pc = "sleep" /\ SameWord(p) /\ At(p, "sleep")
                BY <1>0, <1>1, <1>2, <2>2, <3>1, RestIsIdle DEF At
            <4>2. q.publish <= board.change /\ board.change - q.publish < FutexSpan
                BY <4>1 DEF WaitInv, SawBefore, NoWrap, WaitPCs
            <4>3. q.publish \in Nat /\ board.change \in Nat
                BY <1>0 DEF Typed, ProcType
            <4>4. (board.change - q.publish) % FutexSpan = 0
                BY <4>1 DEF SameWord
            <4>5. board.change = q.publish
                <5> DEFINE d == board.change - q.publish
                <5>1. d \in Nat /\ d < FutexSpan /\ d % FutexSpan = 0
                    BY <4>2, <4>3, <4>4
                <5> HIDE DEF d
                <5>2. d = 0
                    BY <5>1, BoardSpanAssumption
                <5> QED
                    BY <4>3, <5>2 DEF d
            <4>6. x.publish = q.publish
                BY <1>1, <4>1, RestIsIdle
            <4> QED
                BY <1>0, <1>2, <2>2, <3>1, <4>5, <4>6 DEF Changed
        <3>2. CASE u # p
            <4>1. At(u, "asleep") /\ Changed(u)
                BY <1>0, <1>2, <2>2, <3>2 DEF At, Changed
            <4>2. PICK v \in Procs : proc[v].pc = "wake"
                BY <4>1 DEF WaitInv, SleeperIsOwed
            <4>3. v # p
                BY <1>0, <4>2
            <4> QED
                BY <1>2, <4>2, <4>3
        <3> QED
            BY <3>1, <3>2
    <2> QED
        BY <2>1, <2>2 DEF WaitInv, SleeperIsOwed
<1> QED
    BY <1>3, <1>4, <1>5 DEF BoardInv, BoardKept

\* On the count before the word is looked at again, and off it after.
LEMMA CountSteps ==
    ASSUME BoardInv, NEW p \in Procs, Enlist(p) \/ Leave(p)
    PROVE  BoardKept
<1>0. /\ LockInv /\ WaitersExact /\ Typed
      /\ proc[p].pc \in {"enlist", "leave"} /\ proc[p] \in ProcType
      /\ UNCHANGED <<entry, cell, writer, cache, alive, used>>
    BY DEF BoardInv, LockInv, Enlist, Leave, At, Typed
<1>1. board \in [lock : Procs \cup {NoProc}, change : Nat, waiters : Nat]
    BY <1>0 DEF Typed
<1>2. IsFiniteSet(Waiting)
    <2>1. Waiting \subseteq Procs
        BY DEF Waiting
    <2> QED
        BY <2>1, FS_Subset, BoardAssumption
<1>3. {"relook", "look"} \subseteq PCs
    BY DEF PCs
<1>4. CASE Enlist(p)
    <2>1. proc[p].pc = "enlist" /\ Goto(p, "relook") /\ board' = [board EXCEPT !.waiters = board.waiters + 1]
        BY <1>1, <1>4 DEF Enlist, At
    <2>2. /\ proc' \in [Procs -> ProcType] /\ \A q \in Procs \ {p} : proc'[q] = proc[q]
          /\ proc'[p].pc = "relook" /\ proc'[p].op = proc[p].op /\ proc'[p].i = proc[p].i
          /\ proc'[p].publish = proc[p].publish
        BY <1>0, <1>3, <2>1, GotoFields
    <2>3. /\ board' \in BoardType /\ board'.lock = board.lock /\ board'.change = board.change
          /\ board'.waiters = board.waiters + 1
        BY <1>1, <2>1 DEF BoardType
    <2>4. LockInv'
        BY <1>0, <2>1, <2>2, <2>3, WaitKeeps DEF WaitPCs
    <2>5. Waiting' = Waiting \cup {p} /\ p \notin Waiting
        BY <2>1, <2>2 DEF Waiting, WaitPCs
    <2>6. WaitersExact'
        <3>1. Cardinality(Waiting \cup {p}) = Cardinality(Waiting) + 1
            BY <1>2, <2>5, FS_AddElement
        <3>2. Cardinality(Waiting') = board'.waiters
            BY <1>0, <2>3, <2>5, <3>1 DEF WaitersExact
        <3> QED
            BY <3>2 DEF WaitersExact
    <2>7. WaitKept
        <3>1. ASSUME NEW u \in Procs, At(u, "asleep")', Changed(u)' PROVE At(u, "asleep") /\ Changed(u)
            BY <1>0, <2>2, <2>3, <3>1 DEF At, Changed
        <3>2. ASSUME NEW v \in Procs, proc[v].pc = "wake" PROVE proc'[v].pc = "wake"
            BY <2>1, <2>2, <3>2
        <3>3. SawBefore => SawBefore'
            BY <2>1, <2>2, <2>3 DEF SawBefore, WaitPCs
        <3> QED
            BY <3>1, <3>2, <3>3 DEF WaitKept, WaitInv, SleeperIsOwed
    <2> QED
        BY <2>4, <2>6, <2>7 DEF BoardInv, BoardKept
<1>5. CASE Leave(p)
    <2>1. proc[p].pc = "leave" /\ Goto(p, "look") /\ board' = [board EXCEPT !.waiters = board.waiters - 1]
        BY <1>1, <1>5 DEF Leave, At
    <2>2. /\ proc' \in [Procs -> ProcType] /\ \A q \in Procs \ {p} : proc'[q] = proc[q]
          /\ proc'[p].pc = "look" /\ proc'[p].op = proc[p].op /\ proc'[p].i = proc[p].i
          /\ proc'[p].publish = proc[p].publish
        BY <1>0, <1>3, <2>1, GotoFields
    <2>3. Waiting' = Waiting \ {p} /\ p \in Waiting
        BY <2>1, <2>2 DEF Waiting, WaitPCs
    <2>4. board.waiters - 1 = Cardinality(Waiting') /\ Cardinality(Waiting') \in Nat
        <3>1. Cardinality(Waiting \ {p}) = Cardinality(Waiting) - 1 /\ IsFiniteSet(Waiting \ {p})
            BY <1>2, <2>3, FS_RemoveElement
        <3>2. Cardinality(Waiting \ {p}) \in Nat
            BY <3>1, FS_CardinalityType
        <3> QED
            BY <1>0, <2>3, <3>1, <3>2 DEF WaitersExact
    <2>5. /\ board' \in BoardType /\ board'.lock = board.lock /\ board'.change = board.change
          /\ board'.waiters = board.waiters - 1
        <3>1. board.waiters - 1 \in Nat
            BY <2>4
        <3> QED
            BY <1>1, <2>1, <3>1 DEF BoardType
    <2>6. LockInv'
        BY <1>0, <2>1, <2>2, <2>5, WaitKeeps DEF WaitPCs
    <2>7. WaitersExact'
        BY <2>4, <2>5 DEF WaitersExact
    <2>8. WaitKept
        <3>1. ASSUME NEW u \in Procs, At(u, "asleep")', Changed(u)' PROVE At(u, "asleep") /\ Changed(u)
            BY <1>0, <2>2, <2>5, <3>1 DEF At, Changed
        <3>2. ASSUME NEW v \in Procs, proc[v].pc = "wake" PROVE proc'[v].pc = "wake"
            BY <2>1, <2>2, <3>2
        <3>3. SawBefore => SawBefore'
            BY <2>1, <2>2, <2>5 DEF SawBefore, WaitPCs
        <3> QED
            BY <3>1, <3>2, <3>3 DEF WaitKept, WaitInv, SleeperIsOwed
    <2> QED
        BY <2>6, <2>7, <2>8 DEF BoardInv, BoardKept
<1> QED
    BY <1>4, <1>5


-----------------------------------------------------------------------------
(***************************************************************************)
(* The invariant and what it proves.                                       *)
(***************************************************************************)
\* A process dies: what the living rely on can only come true of more owners.
LEMMA CrashStep ==
    ASSUME BoardInv, NEW p \in Procs, Crash(p)
    PROVE  BoardKept
<1>0. /\ LockInv /\ WaitersExact /\ Typed /\ Locals
      /\ UNCHANGED <<entry, cell, board, proc, writer, cache>>
    BY DEF BoardInv, LockInv, Crash
<1>1. alive' \in [Procs -> BOOLEAN] /\ \A q \in Procs : alive'[q] => alive[q]
    BY <1>0 DEF Typed, Crash
<1>2. used' \in UsedType
    <2>1. used \in [declare : Nat, write : Nat, sweep : Nat, call : Nat, crash : Nat]
        BY <1>0 DEF Typed, UsedType
    <2>2. used' = [used EXCEPT !.crash = used.crash + 1]
        BY <2>1 DEF Crash
    <2> QED
        BY <2>1, <2>2 DEF UsedType
<1>3. Typed' /\ Locals'
    BY <1>0, <1>1, <1>2 DEF Typed, Locals
<1>4. HolderIsAlone'
    BY <1>0, <1>1 DEF LockInv, HolderIsAlone, Inside
<1>5. Scenes'
    <2> SUFFICES ASSUME NEW q \in Procs, alive'[q], Inside(q)' PROVE Scene(q, proc[q])'
        BY DEF Scenes
    <2>1. Scene(q, proc[q])
        BY <1>0, <1>1 DEF LockInv, Scenes, Inside
    <2>2. proc[q].pc \notin {"scan", "sweep", "unlock", "bump", "wake", "reply"} =>
              entry[proc[q].i].owner \in Procs \cup {NoProc}
        BY <1>0, IndexInUse, EntryFields DEF Typed
    <2>3. \A u \in Procs \cup {NoProc} : Dead(u) => Dead(u)'
        BY <1>1 DEF Dead
    <2>4. /\ proc[q].pc = "own" => Takeable(entry[proc[q].i])'
          /\ proc[q].pc = "clear" => Dead(entry[proc[q].i].owner)'
        BY <1>0, <2>1, <2>2, <2>3 DEF Scene, Takeable
    <2>5. (\A j \in Entries : Clean(j)' <=> Clean(j)) /\ FreeEntries' = FreeEntries
        BY <1>0 DEF Clean, Residue, FreeEntries
    <2> QED
        BY <1>0, <2>1, <2>4, <2>5 DEF Scene, CleanBut, ClaimPCs
<1>6. UnlockedIsClean' /\ Keyed' /\ KeyIsUnique'
    BY <1>0 DEF LockInv, UnlockedIsClean, Keyed, KeyIsUnique, Residue
<1>7. Writers'
    BY <1>0, <1>1 DEF LockInv, Writers, Keeps
<1>8. WaitersExact' /\ WaitKept
    BY <1>0, <1>1 DEF WaitersExact, Waiting, WaitKept, WaitInv, SawBefore, SleeperIsOwed, At, Changed
<1> QED
    BY <1>3, <1>4, <1>5, <1>6, <1>7, <1>8 DEF BoardInv, BoardKept, LockInv

\* The board as init_header leaves it.
LEMMA InitHolds == Init => BoardInv /\ WaitInv
<1> SUFFICES ASSUME Init PROVE BoardInv /\ WaitInv
    OBVIOUS
<1>0. 0 \in 0..Capacity /\ Capacity \in 0..Capacity /\ 0 # NoEntry /\ 0 \in Nat
    BY BoardAssumption DEF NoEntry
<1>1. Typed
    <2>1. /\ FreeEntry \in EntryType /\ EmptyCell \in [data : Nat, len : Nat]
          /\ NoWriter \in WriterType /\ Unresolved \in [idx : 0..Capacity, tenancy : Nat]
          /\ Rest \in ProcType
        BY <1>0, RestIsIdle DEF FreeEntry, EntryType, EmptyCell, NoWriter, WriterType, Unresolved, NoEntry
    <2>2. /\ entry \in [Entries -> EntryType] /\ cell \in [Entries -> [0..1 -> [data : Nat, len : Nat]]]
          /\ proc \in [Procs -> ProcType] /\ writer \in [Procs -> WriterType]
          /\ cache \in [Procs -> [Keys -> [idx : 0..Capacity, tenancy : Nat]]]
          /\ alive \in [Procs -> BOOLEAN]
        BY <2>1 DEF Init
    <2>3. board \in [lock : Procs \cup {NoProc}, change : Nat, waiters : Nat] /\ used \in UsedType
        BY <1>0 DEF Init, UsedType
    <2> QED
        BY <2>2, <2>3 DEF Typed
<1>2. \A p \in Procs : proc[p] = Rest /\ writer[p] = NoWriter
    BY DEF Init
<1>3. \A i \in Entries : entry[i].state = "Free" /\ entry[i].hash = NoKey /\ entry[i].owner = NoProc
    BY DEF Init, FreeEntry
<1>4. Locals
    BY <1>0, <1>2, RestIsIdle DEF Locals, LocalOK, Placed
<1>5. \A p \in Procs : ~Inside(p)
    BY <1>2, RestIsIdle DEF Inside
<1>6. HolderIsAlone /\ Scenes /\ Writers
    BY <1>2, <1>5 DEF HolderIsAlone, Scenes, Writers
<1>7. UnlockedIsClean /\ Keyed /\ KeyIsUnique
    BY <1>3 DEF UnlockedIsClean, Keyed, KeyIsUnique, Residue
<1>8. Waiting = {} /\ board.waiters = 0
    BY <1>2, RestIsIdle DEF Waiting, WaitPCs, Init
<1>9. WaitersExact
    BY <1>8, FS_EmptySet DEF WaitersExact
<1>10. WaitInv
    BY <1>2, RestIsIdle DEF WaitInv, SawBefore, SleeperIsOwed, At, WaitPCs
<1> QED
    BY <1>1, <1>4, <1>6, <1>7, <1>9, <1>10 DEF BoardInv, LockInv

\* Every step of every process keeps the invariant, its death included.
LEMMA EveryStepKeeps == BoardInv /\ [Next]_vars => BoardKept
<1> SUFFICES ASSUME BoardInv, [Next]_vars PROVE BoardKept
    OBVIOUS
<1>1. CASE UNCHANGED vars
    <2>1. UNCHANGED <<entry, cell, board, proc, writer, cache, alive, used>>
        BY <1>1 DEF vars
    <2>2. Typed' /\ Locals' /\ Keyed' /\ Writers' /\ WaitersExact'
        BY <2>1 DEF BoardInv, LockInv, Typed, Locals, Keyed, Writers, Keeps, WaitersExact, Waiting
    <2>3. HolderIsAlone' /\ UnlockedIsClean' /\ KeyIsUnique' /\ WaitKept
        BY <2>1 DEF BoardInv, LockInv, HolderIsAlone, Inside, UnlockedIsClean, Residue, KeyIsUnique,
                    WaitKept, WaitInv, SawBefore, SleeperIsOwed, At, Changed
    <2>4. Scenes'
        <3> SUFFICES ASSUME NEW q \in Procs, alive'[q], Inside(q)' PROVE Scene(q, proc[q])'
            BY DEF Scenes
        <3>1. Scene(q, proc'[q])
            BY <2>1 DEF BoardInv, LockInv, Scenes, Inside
        <3>2. \A x : Scene(q, x)' <=> Scene(q, x)
            BY <2>1, SceneSame
        <3> QED
            BY <3>1, <3>2
    <2> QED
        BY <2>2, <2>3, <2>4 DEF BoardInv, BoardKept, LockInv
<1>2. CASE Next
    <2>1. PICK p \in Procs : \/ LockStep(p) \/ DeclareStep(p) \/ SweepStep(p)
                             \/ WriterStep(p) \/ ReadStep(p) \/ WaitStep(p) \/ Crash(p)
        BY <1>2 DEF Next
    <2>2. CASE LockStep(p)
        BY <2>2, TakeLockSteps, RepairStep, LeaveLockSteps DEF LockStep
    <2>3. CASE DeclareStep(p)
        BY <2>3, StartSteps, FindSteps, TakeOwnerStep, TakeTenancyStep, ClaimSteps, ActivateStep DEF DeclareStep
    <2>4. CASE SweepStep(p)
        BY <2>4, StartSteps, SweepEntryStep, FreeSteps, SweepDoneStep DEF SweepStep
    <2>5. CASE WriterStep(p)
        BY <2>5, StartSteps, WriteSteps, PublishSteps, ReleaseSteps, BumpStep, WakeStep DEF WriterStep
    <2>6. CASE ReadStep(p)
        BY <2>6, StartSteps, ScanSteps, ViewSteps DEF ReadStep
    <2>7. CASE WaitStep(p)
        BY <2>7, StartSteps, SleepSteps, CountSteps DEF WaitStep
    <2> QED
        BY <2>1, <2>2, <2>3, <2>4, <2>5, <2>6, <2>7, CrashStep
<1> QED
    BY <1>1, <1>2

\* The part of it that does not depend on the futex word.
LEMMA BoardInvKept == BoardInv /\ [Next]_vars => BoardInv'
BY EveryStepKeeps DEF BoardKept

\* The invariant holds in every state of the board.
THEOREM BoardInvariant == Spec => []BoardInv
<1> QED
    BY InitHolds, BoardInvKept, PTL DEF Spec

\* The fields of the header, the entries and the locals stay in their ranges,
\* and an index in use is one of an entry: no scan, sweep, repair or retry
\* runs past the table, and the waiters count never goes below zero.
THEOREM BoardTypes == Spec => []TypeOK
<1>1. BoardInv => TypeOK
    BY DEF BoardInv, LockInv, Typed, Locals, LocalOK, TypeOK, EntryType, ProcType, WriterType
<1> QED
    BY <1>1, BoardInvariant, PTL

\* The board lock excludes: a live process between board_lock and
\* board_unlock holds the token, however many holders died before it and
\* however many thieves raced for the token of a dead one.
THEOREM BoardLockExcludes == Spec => []HolderIsAlone
<1>1. BoardInv => HolderIsAlone
    BY DEF BoardInv, LockInv
<1> QED
    BY <1>1, BoardInvariant, PTL

\* Every unlock leaves a normal board behind: whatever residue dead holders
\* left, repair_board has undone it before the lock is free again.
THEOREM UnlockedBoardIsClean == Spec => []UnlockedIsClean
<1>1. BoardInv => UnlockedIsClean
    BY DEF BoardInv, LockInv
<1> QED
    BY <1>1, BoardInvariant, PTL

\* declare() never makes a second entry for a key, although its scan and its
\* claim are many steps, any of which may be a dead process's last.
THEOREM BoardKeyIsUnique == Spec => []KeyIsUnique
<1>1. BoardInv => KeyIsUnique
    BY DEF BoardInv, LockInv
<1> QED
    BY <1>1, BoardInvariant, PTL

\* Nobody takes, sweeps or repairs the entry of a live Writer: it stays
\* Active under its owner, key and tenancy, and publish counts its writes.
THEOREM WriterIsSafe == Spec => []WriterKeepsEntry
<1>1. BoardInv => WriterKeepsEntry
    BY DEF BoardInv, LockInv, Writers, Keeps, WriterKeepsEntry
<1> QED
    BY <1>1, BoardInvariant, PTL

\* notify_change loses no wake: a waiter of wait() that sleeps over a change
\* has the wake of some process still to come (or lost with its death).  The
\* futex compares only the low half of change_seq, so the claim holds as long as
\* that half does not go all the way round while a caller is about to sleep.
THEOREM SleeperIsOwedAWake == Spec /\ []NoWrap => []SleeperIsOwed
<1>1. Init => BoardInv /\ WaitInv
    BY InitHolds
<1>2. BoardInv /\ WaitInv /\ NoWrap /\ [Next]_vars => (BoardInv /\ WaitInv)'
    BY EveryStepKeeps DEF BoardKept, WaitKept
<1>3. BoardInv /\ WaitInv => SleeperIsOwed
    BY DEF WaitInv
<1> QED
    BY <1>1, <1>2, <1>3, PTL DEF Spec

-----------------------------------------------------------------------------
(***************************************************************************)
(* The readers.  What the board shows of a key is one entry's doing, and   *)
(* what a call has loaded is judged by what the call has met.              *)
(***************************************************************************)
\* What an entry shows of its key.
Shows(i) ==
    LET e == entry[i]
        n == e.publish \div 2
        c == cell[i][n % 2]
    IN  [count |-> n, there |-> IF e.hash = e.key THEN "yes" ELSE "leaving",
         value |-> IF n = 0 THEN 0 ELSE IF c.data = c.len THEN c.data ELSE -1]

\* No entry carries another's key while readers can meet both, and what a claim
\* or a sweep leaves behind when it is cut short has no hash of another entry.
Identified ==
    /\ \A i, j \in Entries : i # j =>
           /\ entry[i].hash # NoKey => entry[i].hash # entry[j].hash
           /\ entry[i].state = "Active" /\ entry[j].state = "Active" => entry[i].key # entry[j].key
    /\ \A i \in Entries :
           /\ entry[i].state = "Free" => entry[i].hash = NoKey
           /\ entry[i].state = "Claiming" /\ entry[i].hash # NoKey =>
                  entry[i].publish = 0 /\ entry[i].key = entry[i].hash
           /\ entry[i].state = "Active" => entry[i].key \in Keys
    /\ \A p \in Procs : alive[p] /\ proc[p].pc \in {"reset", "name", "identify"} =>
           entry[proc[p].i].hash = NoKey

\* A completed write is whole.
CellsWhole ==
    \A i \in Entries : LET n == entry[i].publish \div 2
                       IN  n > 0 => cell[i][n % 2].data = cell[i][n % 2].len

\* A write under way is marked, and the cell it fills is as far as it got.
Writing ==
    \A p \in Procs : alive[p] =>
        LET q == proc[p]
            c == cell[q.i][Target(p)]
        IN  /\ q.op = "write" => q.data \in 1..MaxWrites
            /\ q.pc \in {"put_data", "put_len", "done"} => entry[q.i].publish = 2 * writer[p].writes + 1
            /\ q.pc \in {"put_len", "done"} => c.data = q.data
            /\ q.pc = "done" => c.len = q.data

\* The entry is not about to show anything under its present tenancy.
Resting(i) ==
    /\ entry[i].state # "Active"
    /\ \A q \in Procs : alive[q] /\ proc[q].pc = "activate" => proc[q].i # i

\* What a tenancy t of entry i, once loaded, says of key k.
Fits(i, t, k) ==
    LET e == entry[i]
    IN  /\ e.tenancy >= t
        /\ e.tenancy = t => e.key = k \/ (e.publish = 0 /\ Resting(i))

\* Every tenancy a process has in its cache fits the key it is kept under.
CachesFit ==
    \A p \in Procs, k \in Keys :
        cache[p][k].idx # NoEntry => Fits(cache[p][k].idx, cache[p][k].tenancy, k)

\* The call of p has met key k as the n-th write left it, with value v.
HasMet(p, k, n, v) ==
    \E h \in Store!Met(p, k) : h.there # "no" /\ h.count = n /\ h.value = v

\* The call of p has met what entry i shows or would show of its key.
Recorded(p, i) ==
    LET n == entry[i].publish \div 2
    IN  n > 0 => HasMet(p, entry[i].key, n, cell[i][n % 2].data)

\* The call of p has met key k gone, or going.
Missed(p, k) == \E h \in Store!Met(p, k) : h.there # "yes"

\* Readers find key k in entry i.
Bears(i, k) == entry[i].state = "Active" /\ entry[i].hash = k /\ entry[i].key = k

\* The loads of a call, between its first look at publish and its answer: as
\* long as the tenancy stands they come from one write that the call has met.
Sound(p, q) ==
    LET e == entry[q.i]
        n == q.publish \div 2
        c == cell[q.i][n % 2]
    IN  /\ e.tenancy >= q.tenancy
        /\ e.tenancy = q.tenancy =>
            /\ e.publish < 2 * n => Resting(q.i)
            /\ \E v \in Nat :
                  /\ HasMet(p, q.key, n, v)
                  /\ q.pc # "verify" /\ e.publish \in (2 * n)..(2 * n + 2) =>
                        /\ c.data = v /\ c.len = v
                        /\ q.pc \in {"data", "after"} => q.len = v
                        /\ q.pc = "after" => q.data = v
                  /\ q.pc = "verify" /\ q.fresh => q.len = v /\ q.data = v

\* Where a call is between its first and its last load of an entry.
LoadPCs == {"len", "data", "after", "verify"}

\* What a reader relies on, by where it is.
ReaderSees(p, q) ==
    LET i == q.i
        n == q.publish \div 2
    IN  /\ q.pc = "resolve" => i = 0
        /\ q.pc \in {"scan", "scan_hash"} =>
               Missed(p, q.key) \/ \E j \in Entries : j >= i /\ Bears(j, q.key)
        /\ q.op = "read" /\ q.pc \in {"scan_tenancy", "scan_key", "before", "publish"} =>
               /\ Missed(p, q.key) \/ Bears(i, q.key)
               /\ entry[i].key = q.key => Recorded(p, i)
        /\ q.pc \in {"scan_key", "entry_key"} => entry[i].tenancy >= q.tenancy
        /\ q.pc = "publish" => Fits(i, q.tenancy, q.key)
        /\ q.op # "read" /\ q.pc \in {"entry_tenancy", "entry_key", "publish"} => Recorded(p, i)
        /\ q.pc \in {"len", "data"} => n > 0
        /\ q.pc \in LoadPCs /\ n > 0 => Sound(p, q)
        /\ q.op = "read" /\ q.pc \in LoadPCs => n > 0
        /\ q.pc = "entry_after" /\ n > 0 => q.len = q.data /\ HasMet(p, q.key, n, q.data)

\* The entry a call resolved is the one its cache names.
ReaderOK(p, q) == ReaderSees(p, q) /\ (q.pc = "before" => cache[p][q.key].idx = q.i)

\* Under the lock an entry that was Active stays so.
SnapshotOK(p, q) ==
    LET n == q.publish \div 2
    IN  q.op = "snapshot" =>
        /\ q.pc \in {"entry_tenancy", "entry_key", "publish", "entry_after"} \cup LoadPCs =>
               entry[q.i].state = "Active"
        /\ q.pc \in {"publish", "entry_after"} \cup LoadPCs => entry[q.i].key = q.key
        /\ q.pc \in {"after", "verify", "entry_after"} /\ n = 0 =>
               \E h \in Store!Met(p, q.key) : h.there = "yes" /\ h.count = 0

\* What every live call relies on.
ReadersOK == \A p \in Procs : alive[p] => ReaderOK(p, proc[p]) /\ SnapshotOK(p, proc[p])

\* A call under way has noted what the keys it is about are now.
Noted ==
    /\ seen = [p \in Procs |-> seen[p]]
    /\ \A p \in Procs : /\ Store!Asked(p) = Scope(p)
                        /\ \A k \in Scope(p) : <<k, Held(k)>> \in seen[p]

\* The invariant of the readers, above that of the lock.
ReadInv == BoardInv /\ Identified /\ CellsWhole /\ Writing /\ CachesFit /\ ReadersOK /\ Noted

-----------------------------------------------------------------------------
(***************************************************************************)
(* What the board shows, and what the calls under way note of it.          *)
(***************************************************************************)
\* A key is shown by the one Active entry that carries it, or is absent.
LEMMA HeldShown ==
    Identified => \A k \in Keys :
        /\ \A i \in Entries : entry[i].state = "Active" /\ entry[i].key = k => Held(k) = Shows(i)
        /\ (\A i \in Entries : ~(entry[i].state = "Active" /\ entry[i].key = k)) => Held(k) = Store!Absent
<1> SUFFICES ASSUME Identified, NEW k \in Keys
             PROVE  /\ \A i \in Entries : entry[i].state = "Active" /\ entry[i].key = k => Held(k) = Shows(i)
                    /\ (\A i \in Entries : ~(entry[i].state = "Active" /\ entry[i].key = k)) =>
                           Held(k) = Store!Absent
    OBVIOUS
<1> DEFINE I == {i \in Entries : entry[i].state = "Active" /\ entry[i].key = k}
<1>1. ASSUME NEW i \in Entries, entry[i].state = "Active", entry[i].key = k
      PROVE  Held(k) = Shows(i)
    <2>1. I \in SUBSET Nat /\ I # {}
        BY <1>1, BoardAssumption DEF Entries
    <2>2. Min(I) \in I
        BY <2>1, MinIn
    <2>3. Min(I) = i
        BY <1>1, <2>2, SMTT(30) DEF Identified
    <2> HIDE DEF I
    <2>4. Held(k) = LET e == entry[Min(I)]
                        n == e.publish \div 2
                        c == cell[Min(I)][n % 2]
                    IN  [count |-> n, there |-> IF e.hash = k THEN "yes" ELSE "leaving",
                         value |-> IF n = 0 THEN 0 ELSE IF c.data = c.len THEN c.data ELSE -1]
        BY <2>1, ZenonT(40) DEF Held, I
    <2> QED
        BY <1>1, <2>3, <2>4 DEF Shows
<1>2. ASSUME \A i \in Entries : ~(entry[i].state = "Active" /\ entry[i].key = k)
      PROVE  Held(k) = Store!Absent
    <2>1. I = {}
        BY <1>2
    <2> QED
        BY <2>1, Zenon DEF Held, Store!Absent
<1> QED
    BY <1>1, <1>2

\* The same after a step.
LEMMA HeldShownNext ==
    Identified' => \A k \in Keys :
        /\ \A i \in Entries : entry'[i].state = "Active" /\ entry'[i].key = k => Held(k)' = Shows(i)'
        /\ (\A i \in Entries : ~(entry'[i].state = "Active" /\ entry'[i].key = k)) => Held(k)' = Store!Absent
<1> DEFINE P == Identified => \A k \in Keys :
        /\ \A i \in Entries : entry[i].state = "Active" /\ entry[i].key = k => Held(k) = Shows(i)
        /\ (\A i \in Entries : ~(entry[i].state = "Active" /\ entry[i].key = k)) => Held(k) = Store!Absent
<1>1. P
    BY HeldShown
<1> HIDE DEF P
<1>2. P'
    BY <1>1, PTL
<1>3. Store!Absent' = Store!Absent
    BY DEF Store!Absent
<1> QED
    BY <1>2, <1>3 DEF P

\* A key is there for reads by name only with an entry that bears it.
LEMMA ThereIsBorne ==
    ASSUME Identified, NEW k \in Keys, Held(k).there = "yes"
    PROVE  \E i \in Entries : Bears(i, k)
<1>1. PICK i \in Entries : entry[i].state = "Active" /\ entry[i].key = k
    <2>1. Store!Absent.there = "no"
        BY DEF Store!Absent
    <2> QED
        BY <2>1, HeldShown
<1>2. Held(k) = Shows(i)
    BY <1>1, HeldShown
<1>3. entry[i].hash = k
    BY <1>1, <1>2 DEF Shows
<1> QED
    BY <1>1, <1>3 DEF Bears

\* The same of the next state.
LEMMA ThereIsBorneNext ==
    Identified' => \A k \in Keys : Held(k)'.there = "yes" => \E i \in Entries : Bears(i, k)'
<1> DEFINE P == Identified => \A k \in Keys : Held(k).there = "yes" => \E i \in Entries : Bears(i, k)
<1>1. P
    BY ThereIsBorne
<1> HIDE DEF P
<1>2. P'
    BY <1>1, PTL
<1> QED
    BY <1>2 DEF P

\* A call is about keys.
LEMMA ScopeIsKeys ==
    ASSUME Locals, NEW p \in Procs
    PROVE  Scope(p) \subseteq Keys
BY DEF Locals, LocalOK, Scope

\* What a key is now is among what a call about it has met.
LEMMA MetNow ==
    ASSUME Noted, NEW p \in Procs, NEW k \in Scope(p)
    PROVE  Held(k) \in Store!Met(p, k)
<1>1. <<k, Held(k)>> \in {t \in seen[p] : t[1] = k}
    BY DEF Noted
<1> QED
    BY <1>1 DEF Store!Met

\* A call that goes on forgets nothing and notes what its keys have become.
LEMMA MetGrows ==
    ASSUME Watch, NEW p \in Procs, Scope(p)' # {}, NEW k
    PROVE  /\ \A h \in Store!Met(p, k) : h \in Store!Met(p, k)'
           /\ k \in Scope(p)' => Held(k)' \in Store!Met(p, k)'
<1> DEFINE S == {<<j, Held(j)'>> : j \in Scope(p)'}
<1>1. seen'[p] = seen[p] \cup S
    BY DEF Watch
<1>2. ASSUME NEW h \in Store!Met(p, k) PROVE h \in Store!Met(p, k)'
    <2>1. PICK s \in seen[p] : s[1] = k /\ s[2] = h
        BY DEF Store!Met
    <2>2. s \in seen'[p]
        BY <1>1, <2>1
    <2> QED
        BY <2>1, <2>2 DEF Store!Met
<1>3. ASSUME k \in Scope(p)' PROVE Held(k)' \in Store!Met(p, k)'
    <2>1. <<k, Held(k)'>> \in seen'[p]
        BY <1>1, <1>3
    <2> QED
        BY <2>1 DEF Store!Met
<1> QED
    BY <1>2, <1>3

\* The notes are kept by every step that begins calls, ends calls or lets them
\* go on.
LEMMA NotedKept ==
    ASSUME Noted, Watch,
           \A p \in Procs : Scope(p)' = Scope(p) \/ Scope(p) = {} \/ Scope(p)' = {}
    PROVE  Noted'
<1>1. seen' = [p \in Procs |-> seen'[p]]
    BY DEF Watch
<1>2. ASSUME NEW p \in Procs
      PROVE  /\ Store!Asked(p)' = Scope(p)'
             /\ \A k \in Scope(p)' : <<k, Held(k)'>> \in seen'[p]
    <2> DEFINE S == {<<j, Held(j)'>> : j \in Scope(p)'}
    <2>1. Store!Asked(p) = Scope(p)
        BY DEF Noted
    <2>2. CASE Scope(p)' = {}
        <3>1. seen'[p] = {}
            BY <2>2 DEF Watch
        <3> QED
            BY <2>2, <3>1 DEF Store!Asked
    <2>3. CASE Scope(p)' # {}
        <3>1. seen'[p] = seen[p] \cup S
            BY <2>3 DEF Watch
        <3>2. \A s \in seen[p] : s[1] \in Scope(p)'
            BY <2>1, <2>3 DEF Store!Asked
        <3>3. \A s \in S : s[1] \in Scope(p)'
            OBVIOUS
        <3>4. \A k \in Scope(p)' : <<k, Held(k)'>> \in seen'[p]
            BY <3>1
        <3>5. \A k \in Scope(p)' : \E s \in seen'[p] : s[1] = k
            BY <3>4
        <3> HIDE DEF S
        <3>6. \A s \in seen'[p] : s[1] \in Scope(p)'
            BY <3>1, <3>2, <3>3
        <3> QED
            BY <3>4, <3>5, <3>6 DEF Store!Asked
    <2> QED
        BY <2>2, <2>3
<1> QED
    BY <1>1, <1>2 DEF Noted

-----------------------------------------------------------------------------
(***************************************************************************)
(* The steps of the key store, by what they ask of a step of the board.    *)
(***************************************************************************)
\* A process whose call goes on as it was.
GoesOn(p) == Scope(p)' = Scope(p) /\ StoreReply'[p] = StoreReply[p]


\* A call that goes on while its keys stand still learns nothing.
LEMMA SeenStays ==
    ASSUME Noted, Watch, NEW p \in Procs, Scope(p)' = Scope(p), \A k \in Scope(p) : Held(k)' = Held(k)
    PROVE  seen'[p] = seen[p]
<1>1. CASE Scope(p) = {}
    <2>1. seen'[p] = {}
        BY <1>1 DEF Watch
    <2>2. seen[p] = {}
        BY <1>1 DEF Noted, Store!Asked
    <2> QED
        BY <2>1, <2>2
<1>2. CASE Scope(p) # {}
    <2>1. seen'[p] = seen[p] \cup {<<k, Held(k)'>> : k \in Scope(p)'}
        BY <1>2 DEF Watch
    <2>2. \A k \in Scope(p)' : <<k, Held(k)'>> \in seen[p]
        BY DEF Noted
    <2> QED
        BY <2>1, <2>2
<1> QED
    BY <1>1, <1>2

\* Nothing a reader could be told has changed.
LEMMA StoreStill ==
    ASSUME Noted, Watch, Locals, \A k \in Keys : Held(k)' = Held(k), \A p \in Procs : GoesOn(p)
    PROVE  UNCHANGED Store!storeVars
<1>1. StoreReply' = StoreReply
    BY DEF GoesOn, StoreReply
<1>2. [k \in Keys |-> Held(k)]' = [k \in Keys |-> Held(k)]
    OBVIOUS
<1>3. seen' = seen
    <2>1. \A p \in Procs : seen'[p] = seen[p]
        BY SeenStays, ScopeIsKeys DEF GoesOn
    <2>2. seen = [p \in Procs |-> seen[p]] /\ seen' = [p \in Procs |-> seen'[p]]
        BY DEF Watch, Noted
    <2> QED
        BY <2>1, <2>2
<1> QED
    BY <1>1, <1>2, <1>3 DEF Store!storeVars

\* One key changes, and every call about it notices.
LEMMA StoreChange ==
    ASSUME Noted, Watch, Locals, \A p \in Procs : GoesOn(p),
           NEW k \in Keys, Held(k)' \in Store!Successors(Held(k)),
           \A j \in Keys \ {k} : Held(j)' = Held(j)
    PROVE  Store!Change(k)
<1> DEFINE held == [j \in Keys |-> Held(j)]
<1>1. StoreReply' = StoreReply
    BY DEF GoesOn, StoreReply
<1>2. held[k] = Held(k) /\ held'[k] = Held(k)'
    OBVIOUS
<1>3. held' = [held EXCEPT ![k] = held'[k]]
    OBVIOUS
<1>4. ASSUME NEW p \in Procs
      PROVE  seen'[p] = IF k \in Store!Asked(p) THEN seen[p] \cup {<<k, Held(k)'>>} ELSE seen[p]
    <2>1. Store!Asked(p) = Scope(p) /\ Scope(p)' = Scope(p) /\ Scope(p) \subseteq Keys
        BY ScopeIsKeys DEF Noted, GoesOn
    <2>2. CASE k \notin Scope(p)
        <3>1. \A j \in Scope(p) : Held(j)' = Held(j)
            BY <2>1, <2>2
        <3> QED
            BY <2>1, <2>2, <3>1, SeenStays
    <2>3. CASE k \in Scope(p)
        <3>1. seen'[p] = seen[p] \cup {<<j, Held(j)'>> : j \in Scope(p)}
            BY <2>1, <2>3 DEF Watch
        <3>2. \A j \in Scope(p) \ {k} : <<j, Held(j)'>> \in seen[p]
            BY <2>1 DEF Noted
        <3> QED
            BY <2>1, <2>3, <3>1, <3>2
    <2> QED
        BY <2>1, <2>2, <2>3
<1>5. seen' = [p \in Procs |-> IF k \in Store!Asked(p) THEN seen[p] \cup {<<k, held'[k]>>} ELSE seen[p]]
    <2>1. seen' = [p \in Procs |-> seen'[p]]
        BY DEF Watch
    <2> HIDE DEF held
    <2> QED
        BY <1>2, <1>4, <2>1
<1> QED
    BY <1>1, <1>2, <1>3, <1>5 DEF Store!Change

\* What changes for one process alone.
OthersGoOn(p) == \A q \in Procs \ {p} : GoesOn(q)

\* When no key changes, only the process that moves may change what it has seen ...
LEMMA SeenOfOne ==
    ASSUME Noted, Watch, Locals, NEW p \in Procs, OthersGoOn(p), \A k \in Keys : Held(k)' = Held(k)
    PROVE  seen' = [seen EXCEPT ![p] = seen'[p]]
<1>1. \A q \in Procs \ {p} : seen'[q] = seen[q]
    BY SeenStays, ScopeIsKeys DEF GoesOn, OthersGoOn
<1>2. seen = [q \in Procs |-> seen[q]] /\ seen' = [q \in Procs |-> seen'[q]]
    BY DEF Watch, Noted
<1> QED
    BY <1>1, <1>2

\* ... and what it answers.
LEMMA ReplyOfOne ==
    ASSUME NEW p \in Procs, OthersGoOn(p)
    PROVE  StoreReply' = [StoreReply EXCEPT ![p] = StoreReply'[p]]
<1>1. \A q \in Procs \ {p} : StoreReply'[q] = StoreReply[q]
    BY DEF GoesOn, OthersGoOn
<1>2. /\ StoreReply = [q \in Procs |-> StoreReply[q]] /\ StoreReply' = [q \in Procs |-> StoreReply'[q]]
    BY DEF StoreReply
<1> QED
    BY <1>1, <1>2

\* A call begins.
LEMMA StoreAsk ==
    ASSUME Noted, Watch, Locals, Locals', NEW p \in Procs, OthersGoOn(p), \A k \in Keys : Held(k)' = Held(k),
           StoreReply'[p] = StoreReply[p], Scope(p) = {}, Scope(p)' # {}
    PROVE  Store!Ask(p)
<1>1. seen[p] = {}
    BY DEF Noted, Store!Asked
<1>2. seen'[p] = {<<k, Held(k)'>> : k \in Scope(p)'}
    BY <1>1 DEF Watch
<1>3. Scope(p)' \subseteq Keys
    BY DEF Locals, LocalOK, Scope
<1>4. seen'[p] # {} /\ seen'[p] \subseteq {<<k, [j \in Keys |-> Held(j)][k]>> : k \in Keys}
    BY <1>2, <1>3
<1>5. StoreReply' = StoreReply
    BY DEF GoesOn, OthersGoOn, StoreReply
<1>6. [k \in Keys |-> Held(k)]' = [k \in Keys |-> Held(k)]
    OBVIOUS
<1>7. seen' = [seen EXCEPT ![p] = seen'[p]]
    BY SeenOfOne
<1> QED
    BY <1>1, <1>4, <1>5, <1>6, <1>7 DEF Store!Ask

\* A call ends, by its return or by its caller's death.
LEMMA StoreReturn ==
    ASSUME Noted, Watch, Locals, NEW p \in Procs, OthersGoOn(p), \A k \in Keys : Held(k)' = Held(k),
           Scope(p) # {}, Scope(p)' = {}, StoreReply'[p] = Store!NoReply
    PROVE  Store!Return(p)
<1>1. seen'[p] = {} /\ seen[p] # {}
    BY DEF Watch, Noted, Store!Asked
<1>2. seen' = [seen EXCEPT ![p] = {}]
    BY <1>1, SeenOfOne
<1>3. StoreReply' = [StoreReply EXCEPT ![p] = Store!NoReply]
    BY ReplyOfOne
<1>4. [k \in Keys |-> Held(k)]' = [k \in Keys |-> Held(k)]
    OBVIOUS
<1> QED
    BY <1>1, <1>2, <1>3, <1>4 DEF Store!Return

\* A call answers.
LEMMA StoreAnswer ==
    ASSUME Noted, Watch, Locals, NEW p \in Procs, OthersGoOn(p), \A k \in Keys : Held(k)' = Held(k),
           Scope(p) # {}, Scope(p)' = Scope(p), StoreReply[p] = Store!NoReply,
           StoreReply'[p] # Store!NoReply, Store!Allowed(p, StoreReply'[p])
    PROVE  Store!Answer(p)
<1>1. seen[p] # {} /\ seen'[p] = seen[p]
    BY SeenStays, ScopeIsKeys DEF Noted, Store!Asked
<1>2. seen' = seen
    <2>1. seen' = [seen EXCEPT ![p] = seen'[p]]
        BY SeenOfOne
    <2>2. seen = [q \in Procs |-> seen[q]]
        BY DEF Noted
    <2> QED
        BY <1>1, <2>1, <2>2
<1>3. StoreReply' = [StoreReply EXCEPT ![p] = StoreReply'[p]]
    BY ReplyOfOne
<1>4. [k \in Keys |-> Held(k)]' = [k \in Keys |-> Held(k)]
    OBVIOUS
<1> QED
    BY <1>1, <1>2, <1>3, <1>4 DEF Store!Answer

-----------------------------------------------------------------------------
(***************************************************************************)
(* What a step of the board may do to an entry, for the key store ...      *)
(***************************************************************************)
\* A step leaves entry i and its cells alone ...
Untouched(i) == entry'[i] = entry[i] /\ cell'[i] = cell[i]

\* ... or all the others.
Alone(i) == \A j \in Entries \ {i} : Untouched(j)

\* The entry shows what it showed, ...
ShowsSame(i) ==
    /\ entry'[i].state = "Active" <=> entry[i].state = "Active"
    /\ entry[i].state = "Active" => entry'[i].key = entry[i].key /\ Shows(i)' = Shows(i)

\* ... its key has moved on by one step of the store, ...
ShowsMore(i) ==
    /\ entry[i].state = "Active" /\ entry'[i].state = "Active" /\ entry'[i].key = entry[i].key
    /\ Shows(i)' \in Store!Successors(Shows(i))

\* ... a key appears, ...
Appears(i) == entry[i].state # "Active" /\ entry'[i].state = "Active" /\ Shows(i)' = Store!Unwritten

\* ... or one that was leaving is gone.
Vanishes(i) == entry[i].state = "Active" /\ entry'[i].state # "Active" /\ Shows(i).there = "leaving"

\* Other keys than those of the entry stored stand still.
LEMMA HeldElsewhere ==
    ASSUME Identified, Identified', NEW i \in Entries, Alone(i), NEW k \in Keys,
           ~(entry[i].state = "Active" /\ entry[i].key = k),
           ~(entry'[i].state = "Active" /\ entry'[i].key = k)
    PROVE  Held(k)' = Held(k)
<1>1. CASE \E j \in Entries : entry[j].state = "Active" /\ entry[j].key = k
    <2>1. PICK j \in Entries : entry[j].state = "Active" /\ entry[j].key = k
        BY <1>1
    <2>2. entry'[j] = entry[j] /\ cell'[j] = cell[j]
        BY <2>1 DEF Alone, Untouched
    <2>3. Held(k) = Shows(j) /\ Held(k)' = Shows(j)'
        BY <2>1, <2>2, HeldShown, HeldShownNext
    <2>4. Shows(j)' = Shows(j)
        BY <2>2 DEF Shows
    <2> QED
        BY <2>3, <2>4
<1>2. CASE \A j \in Entries : ~(entry[j].state = "Active" /\ entry[j].key = k)
    <2>1. \A j \in Entries : ~(entry'[j].state = "Active" /\ entry'[j].key = k)
        BY <1>2 DEF Alone, Untouched
    <2>2. Held(k) = Store!Absent /\ Held(k)' = Store!Absent
        BY <1>2, <2>1, HeldShown, HeldShownNext
    <2> QED
        BY <2>2
<1> QED
    BY <1>1, <1>2

\* So at most one key changes, and as the key store lets it.
LEMMA KeyChange ==
    ASSUME Identified, Identified', NEW i \in Entries, Alone(i),
           ShowsSame(i) \/ ShowsMore(i) \/ Appears(i) \/ Vanishes(i)
    PROVE  \/ \A k \in Keys : Held(k)' = Held(k)
           \/ \E k \in Keys : /\ Held(k)' \in Store!Successors(Held(k))
                              /\ \A j \in Keys \ {k} : Held(j)' = Held(j)
<1>0. /\ entry[i].state = "Active" => entry[i].key \in Keys
      /\ entry'[i].state = "Active" => entry'[i].key \in Keys
    BY DEF Identified
<1>1. CASE ShowsSame(i)
    <2>1. ASSUME NEW k \in Keys PROVE Held(k)' = Held(k)
        <3>1. CASE entry[i].state = "Active" /\ entry[i].key = k
            BY <1>1, <3>1, HeldShown, HeldShownNext DEF ShowsSame
        <3>2. CASE ~(entry[i].state = "Active" /\ entry[i].key = k)
            BY <1>1, <3>2, HeldElsewhere DEF ShowsSame
        <3> QED
            BY <3>1, <3>2
    <2> QED
        BY <2>1
<1>2. CASE ShowsMore(i)
    <2>0. PICK k \in Keys : k = entry[i].key
        BY <1>0, <1>2 DEF ShowsMore
    <2>1. Held(k) = Shows(i) /\ Held(k)' = Shows(i)'
        BY <1>2, <2>0, HeldShown, HeldShownNext DEF ShowsMore
    <2>2. \A j \in Keys \ {k} : Held(j)' = Held(j)
        BY <1>2, <2>0, HeldElsewhere DEF ShowsMore
    <2> QED
        BY <1>2, <2>1, <2>2 DEF ShowsMore
<1>3. CASE Appears(i)
    <2>0. PICK k \in Keys : k = entry'[i].key
        BY <1>0, <1>3 DEF Appears
    <2>1. \A j \in Entries : ~(entry[j].state = "Active" /\ entry[j].key = k)
        <3>1. \A j \in Entries \ {i} : ~(entry'[j].state = "Active" /\ entry'[j].key = k)
            BY <1>3, <2>0 DEF Appears, Identified
        <3> QED
            BY <1>3, <3>1 DEF Alone, Untouched, Appears
    <2>2. Held(k) = Store!Absent /\ Held(k)' = Shows(i)'
        BY <1>3, <2>0, <2>1, HeldShown, HeldShownNext DEF Appears
    <2>3. \A j \in Keys \ {k} : Held(j)' = Held(j)
        BY <1>3, <2>0, HeldElsewhere DEF Appears
    <2>4. Store!Unwritten \in Store!Successors(Store!Absent)
        BY DEF Store!Successors, Store!Absent
    <2> QED
        BY <1>3, <2>2, <2>3, <2>4 DEF Appears
<1>4. CASE Vanishes(i)
    <2>0. PICK k \in Keys : k = entry[i].key
        BY <1>0, <1>4 DEF Vanishes
    <2>1. \A j \in Entries : ~(entry'[j].state = "Active" /\ entry'[j].key = k)
        <3>1. \A j \in Entries \ {i} : ~(entry[j].state = "Active" /\ entry[j].key = k)
            BY <1>4, <2>0 DEF Vanishes, Identified
        <3> QED
            BY <1>4, <3>1 DEF Alone, Untouched, Vanishes
    <2>2. Held(k)' = Store!Absent /\ Held(k) = Shows(i)
        BY <1>4, <2>0, <2>1, HeldShown, HeldShownNext DEF Vanishes
    <2>3. \A j \in Keys \ {k} : Held(j)' = Held(j)
        BY <1>4, <2>0, HeldElsewhere DEF Vanishes
    <2>4. Store!Absent \in Store!Successors(Shows(i))
        BY <1>4 DEF Store!Successors, Vanishes
    <2> QED
        BY <2>2, <2>3, <2>4
<1> QED
    BY <1>1, <1>2, <1>3, <1>4

\* ... and for the readers on it: within one tenancy publish only counts up,
\* until a claim sets it back; then nothing is shown before the tenancy moves.
Lawful(i) ==
    LET e == entry[i]
        f == entry'[i]
    IN  /\ f.tenancy >= e.tenancy
        /\ f.tenancy = e.tenancy /\ Resting(i) => Resting(i)'
        /\ f.key # e.key => e.publish = 0 /\ f.publish = 0 /\ Resting(i)'
        /\ f.publish # e.publish =>
               \/ f.publish = 0 /\ Resting(i)'
               \/ f.publish = e.publish + 1 /\ e.state = "Active" /\ f.state = "Active" /\ f.key = e.key
        /\ \A c \in 0..1 : cell'[i][c] # cell[i][c] =>
               e.publish % 2 = 1 /\ c = (e.publish \div 2 + 1) % 2 /\ f.publish = e.publish

\* What a tenancy says of a key it keeps saying.
LEMMA FitsKept ==
    ASSUME Typed, Typed', NEW i \in Entries, Lawful(i), NEW t \in Nat, NEW k, Fits(i, t, k)
    PROVE  Fits(i, t, k)'
<1>1. /\ entry[i].tenancy \in Nat /\ entry'[i].tenancy \in Nat
      /\ entry[i].publish \in Nat /\ entry'[i].publish \in Nat
    BY EntryFields DEF Typed
<1>2. entry'[i].tenancy >= t
    BY <1>1 DEF Lawful, Fits
<1>3. ASSUME entry'[i].tenancy = t PROVE entry'[i].key = k \/ (entry'[i].publish = 0 /\ Resting(i)')
    <2>1. entry[i].tenancy = t
        BY <1>1, <1>3 DEF Lawful, Fits
    <2>2. CASE entry[i].key = k
        BY <2>2 DEF Lawful
    <2>3. CASE entry[i].publish = 0 /\ Resting(i)
        BY <1>1, <1>3, <2>1, <2>3 DEF Lawful, Resting
    <2> QED
        BY <2>1, <2>2, <2>3 DEF Fits
<1> QED
    BY <1>2, <1>3 DEF Fits

\* So does every tenancy in a cache.
LEMMA CachesKept ==
    ASSUME Typed, Typed', CachesFit, cache' = cache, \A i \in Entries : Lawful(i)
    PROVE  CachesFit'
<1> SUFFICES ASSUME NEW p \in Procs, NEW k \in Keys, cache[p][k].idx # NoEntry
             PROVE  Fits(cache[p][k].idx, cache[p][k].tenancy, k)'
    BY DEF CachesFit
<1>1. cache[p][k] \in [idx : 0..Capacity, tenancy : Nat]
    BY DEF Typed
<1>2. cache[p][k].idx \in Entries /\ cache[p][k].tenancy \in Nat
    BY <1>1, BoardAssumption DEF Entries, NoEntry
<1>3. Fits(cache[p][k].idx, cache[p][k].tenancy, k)
    BY DEF CachesFit
<1> QED
    BY <1>2, <1>3, FitsKept

\* What a call has met it has met for good.
LEMMA MissedKept ==
    ASSUME Watch, NEW p \in Procs, Scope(p)' # {}, NEW k, Missed(p, k)
    PROVE  Missed(p, k)'
BY MetGrows DEF Missed

\* A write it has met too.
LEMMA HasMetKept ==
    ASSUME Watch, NEW p \in Procs, Scope(p)' # {}, NEW k, NEW n, NEW v, HasMet(p, k, n, v)
    PROVE  HasMet(p, k, n, v)'
BY MetGrows DEF HasMet

\* An entry that bears a key bears it on, or the call meets the key going.
LEMMA BornOrMissed ==
    ASSUME Identified, Identified', Watch, NEW p \in Procs, Scope(p)' = Scope(p), NEW k \in Scope(p),
           k \in Keys, NEW i \in Entries, Alone(i), NEW j \in Entries, Bears(j, k)
    PROVE  Bears(j, k)' \/ Missed(p, k)'
<1> SUFFICES ASSUME ~Bears(j, k)' PROVE Missed(p, k)'
    OBVIOUS
<1>2. j = i
    BY DEF Alone, Untouched, Bears
<1>3. Held(k)'.there # "yes"
    <2> SUFFICES ASSUME Held(k)'.there = "yes" PROVE FALSE
        OBVIOUS
    <2>1. PICK m \in Entries : Bears(m, k)'
        BY ThereIsBorneNext
    <2>2. m # j /\ Bears(m, k)
        BY <1>2, <2>1 DEF Alone, Untouched, Bears
    <2> QED
        BY <2>2 DEF Identified, Bears
<1>4. Held(k)' \in Store!Met(p, k)'
    BY MetGrows
<1> QED
    BY <1>3, <1>4 DEF Missed

\* A call has met what an Active entry of one of its keys shows.
LEMMA ShownIsRecorded ==
    Identified /\ CellsWhole /\ Noted =>
        \A p \in Procs, i \in Entries :
            entry[i].state = "Active" /\ entry[i].key \in Scope(p) /\ entry[i].key \in Keys => Recorded(p, i)
<1> SUFFICES ASSUME Identified, CellsWhole, Noted, NEW p \in Procs, NEW i \in Entries,
                    entry[i].state = "Active", entry[i].key \in Scope(p), entry[i].key \in Keys
             PROVE  Recorded(p, i)
    OBVIOUS
<1> DEFINE k == entry[i].key
           n == entry[i].publish \div 2
<1> SUFFICES ASSUME n > 0 PROVE HasMet(p, k, n, cell[i][n % 2].data)
    BY DEF Recorded
<1>1. Held(k) = Shows(i)
    BY HeldShown
<1>2. Held(k) \in Store!Met(p, k)
    BY MetNow
<1>3. cell[i][n % 2].data = cell[i][n % 2].len /\ n # 0
    BY DEF CellsWhole
<1>4. Shows(i).count = n /\ Shows(i).there # "no" /\ Shows(i).value = cell[i][n % 2].data
    BY <1>3 DEF Shows
<1> QED
    BY <1>1, <1>2, <1>4 DEF HasMet

\* The same of the next state.
LEMMA ShownIsRecordedNext ==
    Identified' /\ CellsWhole' /\ Noted' =>
        \A p \in Procs, i \in Entries :
            entry'[i].state = "Active" /\ entry'[i].key \in Scope(p)' /\ entry'[i].key \in Keys => Recorded(p, i)'
<1> DEFINE P == Identified /\ CellsWhole /\ Noted =>
        \A p \in Procs, i \in Entries :
            entry[i].state = "Active" /\ entry[i].key \in Scope(p) /\ entry[i].key \in Keys => Recorded(p, i)
<1>1. P
    BY ShownIsRecorded
<1> HIDE DEF P
<1>2. P'
    BY <1>1, PTL
<1> QED
    BY <1>2 DEF P

\* The parity of a write.
LEMMA Parity ==
    ASSUME NEW n \in Nat
    PROVE  /\ n \div 2 \in Nat /\ (n \div 2) % 2 \in 0..1 /\ (n \div 2 + 1) % 2 \in 0..1
           /\ (n \div 2 + 1) % 2 # (n \div 2) % 2
           /\ n % 2 = 1 => n = 2 * (n \div 2) + 1
           /\ n % 2 = 0 => n = 2 * (n \div 2)
           /\ n % 2 \in 0..1
OBVIOUS

\* What a call has met of an entry stays what the entry shows.
LEMMA RecordedKept ==
    ASSUME Typed, Typed', Identified', CellsWhole', Noted', Watch, NEW p \in Procs, Scope(p)' = Scope(p),
           Scope(p) # {}, NEW i \in Entries, Lawful(i),
           entry'[i].state = "Active" => entry'[i].key \in Scope(p) /\ entry'[i].key \in Keys,
           entry'[i].key = entry[i].key => Recorded(p, i)
    PROVE  Recorded(p, i)'
<1>1. entry[i].publish \in Nat /\ entry'[i].publish \in Nat
    BY EntryFields DEF Typed
<1>2. CASE entry'[i].publish = entry[i].publish /\ entry'[i].key = entry[i].key
    <2> DEFINE n == entry[i].publish \div 2
    <2>1. n \in Nat /\ n % 2 \in 0..1 /\ (n + 1) % 2 # n % 2
        BY <1>1, Parity
    <2>2. cell'[i][n % 2] = cell[i][n % 2]
        BY <2>1 DEF Lawful
    <2>3. PICK k, v : k = entry[i].key /\ v = cell[i][n % 2].data
        OBVIOUS
    <2>4. n > 0 => HasMet(p, k, n, v)
        BY <1>2, <2>3 DEF Recorded
    <2>5. PICK m : m = n
        OBVIOUS
    <2>6. m > 0 => HasMet(p, k, m, v)'
        BY <2>4, <2>5, HasMetKept
    <2> QED
        BY <1>2, <2>2, <2>3, <2>5, <2>6 DEF Recorded
<1>3. CASE entry'[i].publish \div 2 = 0
    BY <1>1, <1>3 DEF Recorded
<1>4. CASE entry'[i].publish # entry[i].publish /\ entry'[i].publish \div 2 # 0
    <2>1. entry'[i].state = "Active"
        BY <1>1, <1>4 DEF Lawful
    <2> QED
        BY <2>1, ShownIsRecordedNext
<1>5. CASE entry'[i].key # entry[i].key
    BY <1>3, <1>5 DEF Lawful
<1> QED
    BY <1>2, <1>3, <1>4, <1>5

\* The loads of a call stay sound whatever the other processes do.
LEMMA SoundKept ==
    ASSUME Typed, Typed', Watch, NEW p \in Procs, Scope(p)' # {}, NEW q \in ProcType, q.i \in Entries,
           Lawful(q.i), q.publish \div 2 > 0, Sound(p, q)
    PROVE  Sound(p, q)'
<1> DEFINE i == q.i
           n == q.publish \div 2
           P == entry[i].publish
           Q == entry'[i].publish
<1>1. /\ P \in Nat /\ Q \in Nat /\ entry[i].tenancy \in Nat /\ entry'[i].tenancy \in Nat
      /\ q.tenancy \in Nat /\ n \in Nat /\ n # 0
    <2>1. q.publish \in Nat /\ q.tenancy \in Nat
        BY DEF ProcType
    <2>2. n \in Nat /\ n # 0
        BY <2>1, Parity
    <2> QED
        BY <2>1, <2>2, EntryFields DEF Typed
<1>2. entry'[i].tenancy >= q.tenancy
    BY <1>1 DEF Lawful, Sound
<1> SUFFICES ASSUME entry'[i].tenancy = q.tenancy
             PROVE  /\ Q < 2 * n => Resting(i)'
                    /\ \E v \in Nat :
                          /\ HasMet(p, q.key, n, v)'
                          /\ q.pc # "verify" /\ Q \in (2 * n)..(2 * n + 2) =>
                                /\ cell'[i][n % 2].data = v /\ cell'[i][n % 2].len = v
                                /\ q.pc \in {"data", "after"} => q.len = v
                                /\ q.pc = "after" => q.data = v
                          /\ q.pc = "verify" /\ q.fresh => q.len = v /\ q.data = v
    BY <1>2 DEF Sound
<1>3. entry[i].tenancy = q.tenancy /\ (Resting(i) => Resting(i)')
    BY <1>1 DEF Lawful, Sound
<1>4. P < 2 * n => Resting(i)
    BY <1>3 DEF Sound
<1>5. Q < 2 * n => Resting(i)'
    BY <1>1, <1>3, <1>4 DEF Lawful, Resting
<1>6. Q \in (2 * n)..(2 * n + 2) => P \in (2 * n)..(2 * n + 2)
    BY <1>1, <1>4 DEF Lawful, Resting
<1>7. Q \in (2 * n)..(2 * n + 2) => cell'[i][n % 2] = cell[i][n % 2]
    <2>1. n % 2 \in 0..1 /\ (n + 1) % 2 # n % 2
        BY <1>1
    <2>2. P % 2 = 1 /\ P \in (2 * n)..(2 * n + 2) => P \div 2 = n
        BY <1>1
    <2>3. cell'[i][n % 2] # cell[i][n % 2] => P % 2 = 1 /\ n % 2 = (P \div 2 + 1) % 2 /\ Q = P
        BY <2>1 DEF Lawful
    <2> QED
        BY <1>6, <2>1, <2>2, <2>3
<1>8. PICK v \in Nat :
          /\ HasMet(p, q.key, n, v)
          /\ q.pc # "verify" /\ P \in (2 * n)..(2 * n + 2) =>
                /\ cell[i][n % 2].data = v /\ cell[i][n % 2].len = v
                /\ q.pc \in {"data", "after"} => q.len = v
                /\ q.pc = "after" => q.data = v
          /\ q.pc = "verify" /\ q.fresh => q.len = v /\ q.data = v
    BY <1>3 DEF Sound
<1>9. HasMet(p, q.key, n, v)'
    BY <1>8, HasMetKept
<1> QED
    BY <1>5, <1>6, <1>7, <1>8, <1>9

\* The keys of a reader that is under way.
LEMMA InScope ==
    ASSUME Typed, Locals, NEW p \in Procs, alive[p], proc[p].pc \in ScanPCs \cup EntryPCs
    PROVE  /\ Scope(p) = IF proc[p].op = "read" THEN {proc[p].key} ELSE Keys
           /\ Scope(p) # {} /\ Scope(p) \subseteq Keys
BY ReaderAt, BoardAssumption DEF Scope

\* Where a reader has something to lose.
BusyPCs == ScanPCs \cup LoadPCs \cup {"publish", "entry_tenancy", "entry_key", "entry_after"}

\* A reader that stands still keeps what it relies on.
LEMMA ReaderKept ==
    ASSUME Typed, Typed', Locals, Identified, Identified', CellsWhole', Noted', Watch,
           NEW p \in Procs, alive[p], alive'[p], NEW q \in ProcType, proc[p] = q, proc'[p] = q,
           q.pc \in BusyPCs, cache'[p] = cache[p],
           NEW m \in Entries, Alone(m), \A i \in Entries : Lawful(i), ReaderOK(p, q)
    PROVE  ReaderOK(p, q)'
<1> DEFINE i == q.i
           n == q.publish \div 2
<1>1. /\ q.pc \in ScanPCs \cup EntryPCs /\ q.pc # "reply" /\ q.tenancy \in Nat /\ q.publish \in Nat
      /\ n \in Nat
    <2>1. q.pc \in ScanPCs \cup EntryPCs /\ q.pc # "reply" /\ q.tenancy \in Nat /\ q.publish \in Nat
        BY DEF BusyPCs, ScanPCs, EntryPCs, ViewPCs, LoadPCs, ProcType
    <2> QED
        BY <2>1, Parity
<1>2. /\ Scope(p) = IF q.op = "read" THEN {q.key} ELSE Keys
      /\ Scope(p) # {} /\ Scope(p) \subseteq Keys
    BY <1>1, InScope
<1>3. Scope(p)' = Scope(p)
    BY DEF Scope
<1>4. /\ q.pc # "scan" => i \in Entries
      /\ q.pc \in ScanPCs => q.op = "read"
      /\ q.op = "read" => q.key \in Keys /\ q.key \in Scope(p)
    BY <1>1, <1>2, ReaderAt
<1>5. ASSUME NEW k \in Scope(p), Missed(p, k) PROVE Missed(p, k)'
    BY <1>2, <1>3, <1>5, MissedKept
<1>6. ASSUME NEW k \in Scope(p), NEW j \in Entries, Bears(j, k) PROVE Bears(j, k)' \/ Missed(p, k)'
    BY <1>2, <1>3, <1>6, BornOrMissed
<1>7. ASSUME q.pc \in {"scan", "scan_hash"}
      PROVE  Missed(p, q.key)' \/ \E j \in Entries : j >= i /\ Bears(j, q.key)'
    <2>1. q.key \in Scope(p)
        BY <1>4, <1>7 DEF ScanPCs
    <2>2. Missed(p, q.key) \/ \E j \in Entries : j >= i /\ Bears(j, q.key)
        BY <1>7 DEF ReaderOK, ReaderSees
    <2> QED
        BY <1>5, <1>6, <2>1, <2>2
<1>8. ASSUME q.op = "read", q.pc \in {"scan_tenancy", "scan_key", "before", "publish"}
      PROVE  /\ Missed(p, q.key)' \/ Bears(i, q.key)'
             /\ entry'[i].key = q.key => Recorded(p, i)'
    <2>1. q.key \in Scope(p) /\ i \in Entries /\ q.key \in Keys
        BY <1>4, <1>8
    <2>2. Missed(p, q.key) \/ Bears(i, q.key)
        BY <1>8 DEF ReaderOK, ReaderSees
    <2>3. entry[i].key = q.key => Recorded(p, i)
        BY <1>8 DEF ReaderOK, ReaderSees
    <2>4. ASSUME entry'[i].key = q.key PROVE Recorded(p, i)'
        BY <1>2, <1>3, <2>1, <2>3, <2>4, RecordedKept
    <2> QED
        BY <1>5, <1>6, <2>1, <2>2, <2>4
<1>9. ASSUME q.pc \in {"scan_key", "entry_key"} PROVE entry'[i].tenancy >= q.tenancy
    <2>1. i \in Entries /\ entry[i].tenancy >= q.tenancy
        BY <1>4, <1>9 DEF ReaderOK, ReaderSees
    <2>2. entry[i].tenancy \in Nat /\ entry'[i].tenancy \in Nat
        BY <2>1, EntryFields DEF Typed
    <2> QED
        BY <1>1, <2>1, <2>2 DEF Lawful
<1>10. q.pc = "publish" => Fits(i, q.tenancy, q.key)'
    BY <1>1, <1>4, FitsKept DEF ReaderOK, ReaderSees
<1>11. ASSUME q.op # "read", q.pc \in {"entry_tenancy", "entry_key", "publish"}
       PROVE  Recorded(p, i)'
    <2>1. i \in Entries /\ Recorded(p, i) /\ Scope(p) = Keys
        BY <1>2, <1>4, <1>11 DEF ReaderOK, ReaderSees
    <2>2. entry'[i].state = "Active" => entry'[i].key \in Keys
        BY <2>1 DEF Identified
    <2> QED
        BY <1>2, <1>3, <2>1, <2>2, RecordedKept
<1>12. ASSUME q.pc \in LoadPCs, n > 0 PROVE Sound(p, q)'
    <2>1. i \in Entries /\ Sound(p, q)
        BY <1>4, <1>12 DEF ReaderOK, ReaderSees, LoadPCs
    <2> QED
        BY <1>2, <1>3, <1>12, <2>1, SoundKept
<1>13. ASSUME q.pc = "entry_after", n > 0 PROVE q.len = q.data /\ HasMet(p, q.key, n, q.data)'
    <2>1. q.len = q.data /\ HasMet(p, q.key, n, q.data)
        BY <1>13 DEF ReaderOK, ReaderSees
    <2> QED
        BY <1>2, <1>3, <2>1, HasMetKept
<1>14. /\ q.pc = "resolve" => i = 0
       /\ q.pc = "before" => cache[p][q.key].idx = i
       /\ q.pc \in {"len", "data"} => n > 0
       /\ q.op = "read" /\ q.pc \in LoadPCs => n > 0
    BY DEF ReaderOK, ReaderSees
<1> HIDE DEF n, i
<1>15. i = q.i /\ n = q.publish \div 2
    BY DEF n, i
<1> QED
    BY <1>7, <1>8, <1>9, <1>10, <1>11, <1>12, <1>13, <1>14, <1>15 DEF ReaderOK, ReaderSees

\* A snapshot finds the board as it locked it.
LEMMA SnapshotKept ==
    ASSUME Watch, NEW p \in Procs, Scope(p)' # {}, NEW q, SnapshotOK(p, q),
           q.op = "snapshot" => entry'[q.i].state = entry[q.i].state /\ entry'[q.i].key = entry[q.i].key
    PROVE  SnapshotOK(p, q)'
BY MetGrows DEF SnapshotOK

\* The readers, after a step of a process that is none.
LEMMA ReadersKept ==
    ASSUME Typed, Typed', Locals, Identified, Identified', CellsWhole', Noted', Watch, ReadersOK,
           NEW m \in Entries, Alone(m), \A i \in Entries : Lawful(i), cache' = cache,
           \A p \in Procs : alive'[p] =>
               /\ alive[p]
               /\ proc'[p] = proc[p] \/ proc'[p].pc \notin BusyPCs \/ (proc'[p].pc = "resolve" /\ proc'[p].i = 0),
           \A p \in Procs : alive[p] /\ proc[p].op = "snapshot" /\ proc[p].pc \in BusyPCs =>
               \A i \in Entries : entry'[i].state = entry[i].state /\ entry'[i].key = entry[i].key
    PROVE  ReadersOK'
<1> SUFFICES ASSUME NEW p \in Procs, alive'[p] PROVE ReaderOK(p, proc[p])' /\ SnapshotOK(p, proc[p])'
    BY DEF ReadersOK
<1>1. CASE proc'[p].pc \notin BusyPCs \/ (proc'[p].pc = "resolve" /\ proc'[p].i = 0)
    BY <1>1 DEF ReaderOK, ReaderSees, SnapshotOK, BusyPCs, ScanPCs, LoadPCs
<1>2. CASE proc'[p] = proc[p] /\ proc[p].pc \in BusyPCs
    <2> DEFINE q == proc[p]
    <2>1. q \in ProcType /\ alive[p] /\ ReaderOK(p, q) /\ SnapshotOK(p, q)
        BY DEF Typed, ReadersOK
    <2>2. PICK x \in ProcType : x = q
        BY <2>1
    <2>3. ReaderOK(p, x)'
        BY <1>2, <2>1, <2>2, ReaderKept
    <2>4. x.pc \in ScanPCs \cup EntryPCs /\ x.pc \notin {"scan", "reply"} => x.i \in Entries
        BY <2>2, ReaderAt
    <2>5. Scope(p)' # {}
        <3>1. x.pc \in ScanPCs \cup EntryPCs
            BY <1>2, <2>2 DEF BusyPCs, ScanPCs, EntryPCs, ViewPCs, LoadPCs
        <3>2. Scope(p) # {}
            BY <2>1, <2>2, <3>1, InScope
        <3> QED
            BY <1>2, <2>1, <3>2 DEF Scope
    <2>6. SnapshotOK(p, x)'
        <3>1. CASE x.op = "snapshot"
            <4>1. x.pc \in EntryPCs /\ x.pc # "reply"
                BY <1>2, <2>2, <3>1, ReaderAt DEF BusyPCs, ScanPCs, EntryPCs, ViewPCs, LoadPCs
            <4>2. x.i \in Entries
                BY <2>4, <4>1 DEF EntryPCs, ViewPCs
            <4> QED
                BY <1>2, <2>1, <2>2, <2>5, <4>2, SnapshotKept
        <3>2. CASE x.op # "snapshot"
            BY <3>2 DEF SnapshotOK
        <3> QED
            BY <3>1, <3>2
    <2> QED
        BY <1>2, <2>2, <2>3, <2>6
<1> QED
    BY <1>1, <1>2

-----------------------------------------------------------------------------
(***************************************************************************)
(* What a step of the board must show to be one of the key store.          *)
(***************************************************************************)
IsStoreStep == ReadInv' /\ [Store!StoreNext]_(Store!storeVars)

\* A process that does not move goes on, and so does one that reads nothing.
LEMMA SameGoesOn ==
    ASSUME NEW p \in Procs, proc'[p] = proc[p], alive'[p] = alive[p]
    PROVE  GoesOn(p)
BY DEF GoesOn, Scope, StoreReply

\* A process that reads neither before nor after a step has no part in the store.
LEMMA QuietGoesOn ==
    ASSUME BoardInv, BoardInv', NEW p \in Procs, alive'[p] = alive[p],
           proc[p].op \notin {"read", "list", "snapshot"}, proc'[p].op \notin {"read", "list", "snapshot"}
    PROVE  GoesOn(p)
<1>1. /\ proc[p] \in ProcType /\ proc'[p] \in ProcType /\ Placed(proc[p]) /\ Placed(proc'[p])
    BY DEF BoardInv, LockInv, Typed, Locals, LocalOK
<1>2. proc[p].pc # "reply" /\ proc'[p].pc # "reply"
    BY <1>1 DEF Placed, ProcType, Ops, ClaimPCs, WaitPCs
<1> QED
    BY <1>2 DEF GoesOn, Scope, StoreReply

\* A step of a process that is not reading, which changes at most one entry.
LEMMA EntryStep ==
    ASSUME ReadInv, BoardInv', Watch, cache' = cache, NEW m \in Entries, Alone(m), \A i \in Entries : Lawful(i),
           ShowsSame(m) \/ ShowsMore(m) \/ Appears(m) \/ Vanishes(m),
           Identified', CellsWhole', Writing', \A p \in Procs : GoesOn(p),
           \A p \in Procs : alive'[p] =>
               /\ alive[p]
               /\ proc'[p] = proc[p] \/ proc'[p].pc \notin BusyPCs,
           \A p \in Procs : alive[p] /\ proc[p].op = "snapshot" /\ proc[p].pc \in BusyPCs =>
               \A i \in Entries : entry'[i].state = entry[i].state /\ entry'[i].key = entry[i].key
    PROVE  IsStoreStep
<1>1. /\ Typed /\ Typed' /\ Locals /\ Identified /\ CellsWhole /\ CachesFit /\ ReadersOK /\ Noted
    BY DEF ReadInv, BoardInv, LockInv
<1>2. Noted'
    BY <1>1, NotedKept DEF GoesOn
<1>3. CachesFit'
    BY <1>1, CachesKept
<1>4. ReadersOK'
    BY <1>1, <1>2, ReadersKept
<1>5. ReadInv'
    BY <1>2, <1>3, <1>4 DEF ReadInv
<1>6. [Store!StoreNext]_(Store!storeVars)
    <2>1. CASE \A k \in Keys : Held(k)' = Held(k)
        BY <1>1, <2>1, StoreStill
    <2>2. CASE \E k \in Keys : /\ Held(k)' \in Store!Successors(Held(k))
                               /\ \A j \in Keys \ {k} : Held(j)' = Held(j)
        <3>1. PICK k \in Keys : /\ Held(k)' \in Store!Successors(Held(k))
                                /\ \A j \in Keys \ {k} : Held(j)' = Held(j)
            BY <2>2
        <3>2. Store!Change(k)
            BY <1>1, <3>1, StoreChange
        <3> QED
            BY <3>2 DEF Store!StoreNext
    <2> QED
        BY <1>1, <2>1, <2>2, KeyChange
<1> QED
    BY <1>5, <1>6 DEF IsStoreStep

\* Nobody but the holder of the lock is inside it, so nobody else is about to
\* make an entry Active.
LEMMA OthersOutside ==
    ASSUME BoardInv, NEW p \in Procs, alive[p], Inside(p), NEW q \in Procs \ {p}, alive[q]
    PROVE  /\ ~Inside(q) /\ proc[q].pc \notin ClaimPCs
           /\ ~(proc[q].op = "snapshot" /\ proc[q].pc \in BusyPCs)
<1>1. ~Inside(q)
    BY DEF BoardInv, LockInv, HolderIsAlone
<1> QED
    BY <1>1 DEF Inside, ClaimPCs, BusyPCs, ScanPCs, LoadPCs

\* The holder of the lock stores entry i: what the store must respect ...
StoreKeepsOrder(p, i) ==
    LET e == entry[i]
        f == entry'[i]
        idle == f.state # "Active" /\ proc'[p].pc # "activate"
    IN  /\ f.tenancy >= e.tenancy
        /\ f.tenancy = e.tenancy /\ e.state # "Active" /\ proc[p].pc # "activate" => idle
        /\ f.key # e.key => e.publish = 0 /\ f.publish = 0 /\ idle
        /\ f.publish # e.publish => f.publish = 0 /\ e.state # "Active" /\ idle
        /\ proc[p].pc = "activate" => proc[p].i = i
        /\ proc'[p].pc = "activate" => proc'[p].i = i

\* ... and what it must leave in the entry.
StoreKeepsKeys(p, i) ==
    LET f == entry'[i]
    IN  /\ f.hash # NoKey => \A j \in Entries \ {i} : entry[j].hash # f.hash
        /\ f.state = "Active" =>
               f.key \in Keys /\ \A j \in Entries \ {i} : entry[j].state = "Active" => entry[j].key # f.key
        /\ f.state = "Free" => f.hash = NoKey
        /\ f.state = "Claiming" /\ f.hash # NoKey => f.publish = 0 /\ f.key = f.hash
        /\ proc'[p].pc \in {"reset", "name", "identify"} => proc'[p].i = i /\ f.hash = NoKey

\* A lock holder's store to one entry is a step of the key store.
LEMMA HolderStep ==
    ASSUME ReadInv, BoardInv', Watch, NEW p \in Procs, alive[p], Inside(p), UNCHANGED <<cell, cache, alive>>,
           NEW i \in Entries, \A j \in Entries \ {i} : entry'[j] = entry[j],
           \A q \in Procs \ {p} : proc'[q] = proc[q] /\ writer'[q] = writer[q],
           proc[p].pc \notin BusyPCs, proc'[p].pc \notin BusyPCs, proc'[p].op = proc[p].op, GoesOn(p),
           StoreKeepsOrder(p, i), StoreKeepsKeys(p, i),
           ShowsSame(i) \/ ShowsMore(i) \/ Appears(i) \/ Vanishes(i)
    PROVE  IsStoreStep
<1>1. /\ BoardInv /\ Typed /\ Typed' /\ Locals /\ Locals' /\ Writers /\ Identified /\ CellsWhole /\ Writing
    BY DEF ReadInv, BoardInv, LockInv
<1>2. ASSUME NEW q \in Procs \ {p}, alive[q]
      PROVE  /\ ~Inside(q) /\ proc[q].pc \notin ClaimPCs
             /\ ~(proc[q].op = "snapshot" /\ proc[q].pc \in BusyPCs)
    BY <1>1, <1>2, OthersOutside
<1>3. Alone(i)
    BY DEF Alone, Untouched
<1>4. \A j \in Entries : /\ Resting(j) <=> entry[j].state # "Active" /\ (proc[p].pc = "activate" => j # i)
                         /\ Resting(j)' <=> entry'[j].state # "Active" /\ (proc'[p].pc = "activate" => j # i)
    BY <1>2 DEF Resting, ClaimPCs, StoreKeepsOrder
<1>5. ASSUME NEW j \in Entries PROVE Lawful(j)
    <2>1. CASE j = i
        BY <1>4, <2>1 DEF Lawful, StoreKeepsOrder
    <2>2. CASE j # i
        <3>1. entry'[j] = entry[j] /\ entry[j].tenancy \in Nat
            BY <1>1, <2>2, EntryFields DEF Typed
        <3>2. Resting(j) => Resting(j)'
            BY <1>4, <2>2, <3>1
        <3> QED
            BY <3>1, <3>2 DEF Lawful
    <2> QED
        BY <2>1, <2>2
<1>6. Identified'
    <2>1. ASSUME NEW j \in Entries, NEW h \in Entries, j # h
          PROVE  /\ entry'[j].hash # NoKey => entry'[j].hash # entry'[h].hash
                 /\ entry'[j].state = "Active" /\ entry'[h].state = "Active" => entry'[j].key # entry'[h].key
        <3>1. CASE j # i /\ h # i
            BY <1>1, <2>1, <3>1 DEF Identified
        <3>2. CASE j = i
            BY <2>1, <3>2 DEF StoreKeepsKeys
        <3>3. CASE h = i
            BY <2>1, <3>3 DEF StoreKeepsKeys
        <3> QED
            BY <3>1, <3>2, <3>3
    <2>2. ASSUME NEW j \in Entries
          PROVE  /\ entry'[j].state = "Free" => entry'[j].hash = NoKey
                 /\ entry'[j].state = "Claiming" /\ entry'[j].hash # NoKey =>
                        entry'[j].publish = 0 /\ entry'[j].key = entry'[j].hash
                 /\ entry'[j].state = "Active" => entry'[j].key \in Keys
        <3>1. CASE j = i
            BY <3>1 DEF StoreKeepsKeys
        <3>2. CASE j # i
            BY <1>1, <3>2 DEF Identified
        <3> QED
            BY <3>1, <3>2
    <2>3. \A q \in Procs : alive'[q] /\ proc'[q].pc \in {"reset", "name", "identify"} =>
              entry'[proc'[q].i].hash = NoKey
        BY <1>2 DEF StoreKeepsKeys, ClaimPCs
    <2> QED
        BY <2>1, <2>2, <2>3 DEF Identified
<1>7. CellsWhole'
    <2> SUFFICES ASSUME NEW j \in Entries, entry'[j].publish \div 2 > 0
                 PROVE  cell[j][(entry'[j].publish \div 2) % 2].data = cell[j][(entry'[j].publish \div 2) % 2].len
        BY DEF CellsWhole
    <2>1. entry'[j].publish = entry[j].publish
        <3>1. entry'[j].publish # 0
            OBVIOUS
        <3> QED
            BY <3>1 DEF StoreKeepsOrder
    <2> QED
        BY <1>1, <2>1 DEF CellsWhole
<1>8. Writing'
    <2>1. proc[p].op # "write"
        <3>1. Placed(proc[p])
            BY <1>1 DEF Locals, LocalOK
        <3> QED
            BY <3>1 DEF Placed, Inside
    <2>2. proc'[p].pc \notin {"put_data", "put_len", "done"}
        <3>1. Placed(proc'[p]) /\ proc'[p] \in ProcType
            BY <1>1 DEF Locals, LocalOK, Typed
        <3> QED
            BY <2>1, <3>1 DEF Placed, ProcType, Ops, ClaimPCs, WaitPCs, EntryPCs, ViewPCs
    <2>3. ASSUME NEW q \in Procs \ {p}, alive[q], proc[q].pc \in {"put_data", "put_len", "done"}
          PROVE  entry'[proc[q].i].publish = entry[proc[q].i].publish
        <3>1. proc[q].i \in Entries /\ entry[proc[q].i].state = "Active"
            BY <1>1, <2>3, WriterAt DEF Keeps, BoardInv
        <3> QED
            BY <3>1 DEF StoreKeepsOrder
    <2>4. \A q \in Procs \ {p} : Target(q)' = Target(q)
        BY DEF Target
    <2> QED
        BY <1>1, <2>1, <2>2, <2>3, <2>4 DEF Writing
<1>9. \A q \in Procs : GoesOn(q)
    BY SameGoesOn
<1> QED
    BY <1>1, <1>2, <1>3, <1>5, <1>6, <1>7, <1>8, <1>9, EntryStep

-----------------------------------------------------------------------------
(***************************************************************************)
(* The stores under the lock.                                              *)
(***************************************************************************)
\* A store of the owner or the tenancy alone: no reader is told of it.
LEMMA SameStore ==
    ASSUME ReadInv, BoardInv', Watch, NEW p \in Procs, alive[p], Inside(p), UNCHANGED <<cell, cache, alive>>,
           NEW i \in Entries, \A j \in Entries \ {i} : entry'[j] = entry[j],
           \A q \in Procs \ {p} : proc'[q] = proc[q] /\ writer'[q] = writer[q],
           proc[p].pc \notin BusyPCs, proc'[p].pc \notin BusyPCs, proc'[p].op = proc[p].op, GoesOn(p),
           entry'[i].state = entry[i].state, entry'[i].publish = entry[i].publish,
           entry'[i].hash = entry[i].hash, entry'[i].key = entry[i].key, entry'[i].tenancy >= entry[i].tenancy,
           proc[p].pc # "activate", proc'[p].pc \notin {"reset", "name", "identify"},
           proc'[p].pc = "activate" => proc'[p].i = i /\ entry'[i].tenancy # entry[i].tenancy
    PROVE  IsStoreStep
<1>1. Identified
    BY DEF ReadInv
<1>2. StoreKeepsOrder(p, i)
    BY DEF StoreKeepsOrder
<1>3. StoreKeepsKeys(p, i)
    BY <1>1 DEF StoreKeepsKeys, Identified
<1>4. ShowsSame(i)
    BY DEF ShowsSame, Shows
<1> QED
    BY <1>2, <1>3, <1>4, HolderStep

\* Taking an entry over or giving it up, store by store.
LEMMA TenancyStores ==
    ASSUME ReadInv, BoardInv', NEW p \in Procs,
           TakeOwner(p) \/ TakeTenancy(p) \/ BumpTenancy(p) \/ Disown(p) \/ LeaveTenancy(p)
    PROVE  IsStoreStep
<1> DEFINE i == proc[p].i
<1>0. /\ BoardInv /\ Typed /\ Locals /\ Watch
      /\ alive[p] /\ proc[p].pc \in {"own", "take", "tenant", "disown", "leave_tenancy"}
      /\ UNCHANGED <<cell, cache, alive>>
    BY DEF ReadInv, BoardInv, LockInv, TakeOwner, TakeTenancy, BumpTenancy, Disown, LeaveTenancy, ClaimStore, At
<1>1. proc[p].op \in {"declare", "release"} /\ Inside(p) /\ proc[p].pc \notin BusyPCs
    <2>1. Placed(proc[p]) /\ proc[p] \in ProcType
        BY <1>0 DEF Locals, LocalOK, Typed
    <2> QED
        BY <1>0, <2>1 DEF Placed, ClaimPCs, ProcType, Ops, EntryPCs, ViewPCs, WaitPCs, Inside, BusyPCs,
                          ScanPCs, LoadPCs
<1>2. i \in Entries /\ entry[i] \in EntryType
    BY <1>0, IndexInUse DEF Typed
<1>3. entry[i] \in [state : {"Free", "Claiming", "Active"}, publish : Nat, tenancy : Nat,
                    owner : Procs \cup {NoProc}, hash : Keys \cup {NoKey}, key : Keys \cup {NoKey}]
    BY <1>2 DEF EntryType
<1>4. \A q \in Procs \ {p} : writer'[q] = writer[q]
    <2>1. writer' = writer \/ \E w : writer' = [writer EXCEPT ![p] = w]
        BY DEF TakeOwner, TakeTenancy, BumpTenancy, Disown, LeaveTenancy, ClaimStore
    <2> QED
        BY <1>0, <2>1 DEF Typed
<1> HIDE DEF i
\* Any of them, by what it leaves in the entry.
<1>5. ASSUME NEW e \in EntryType, NEW next \in {"take", "bump", "activate", "leave_tenancy", "unlock"},
             Put(i, e), Goto(p, next),
             e.state = entry[i].state, e.publish = entry[i].publish, e.hash = entry[i].hash,
             e.key = entry[i].key, e.tenancy >= entry[i].tenancy,
             next = "activate" => e.tenancy # entry[i].tenancy
      PROVE  IsStoreStep
    <2>1. \A j \in Entries \ {i} : entry'[j] = entry[j]
        BY <1>0, <1>2, <1>5, PutFields
    <2>2. entry'[i] = e
        BY <1>0, <1>2, <1>5, PutFields, SMTT(30)
    <2>3. /\ \A q \in Procs \ {p} : proc'[q] = proc[q]
          /\ proc'[p].pc = next /\ proc'[p].op = proc[p].op /\ proc'[p].i = i
        BY <1>0, <1>5, GotoFields DEF PCs, i
    <2>4. GoesOn(p)
        BY <1>0, <1>1, <2>3, QuietGoesOn
    <2>5. proc'[p].pc \notin BusyPCs
        BY <2>3 DEF BusyPCs, ScanPCs, LoadPCs
    <2> QED
        BY <1>0, <1>1, <1>2, <1>4, <1>5, <2>1, <2>2, <2>3, <2>4, <2>5, SameStore
<1>6. ASSUME NEW o \in Procs \cup {NoProc}
      PROVE  LET e == [entry[i] EXCEPT !.owner = o]
             IN  /\ e \in EntryType /\ e.state = entry[i].state /\ e.publish = entry[i].publish
                 /\ e.hash = entry[i].hash /\ e.key = entry[i].key /\ e.tenancy >= entry[i].tenancy
    BY <1>3 DEF EntryType
<1>7. LET e == [entry[i] EXCEPT !.tenancy = @ + 1]
      IN  /\ e \in EntryType /\ e.state = entry[i].state /\ e.publish = entry[i].publish
          /\ e.hash = entry[i].hash /\ e.key = entry[i].key /\ e.tenancy > entry[i].tenancy
    BY <1>3 DEF EntryType
<1>8. CASE TakeOwner(p)
    <2>1. Put(i, [entry[i] EXCEPT !.owner = p]) /\ Goto(p, "take")
        BY <1>8 DEF TakeOwner, Mine, i
    <2> QED
        BY <1>5, <1>6, <2>1
<1>9. CASE TakeTenancy(p) \/ LeaveTenancy(p)
    <2>1. Put(i, [entry[i] EXCEPT !.tenancy = @ + 1]) /\ Goto(p, "bump")
        BY <1>9 DEF TakeTenancy, LeaveTenancy, ClaimStore, Mine, i
    <2> QED
        BY <1>3, <1>5, <1>7, <2>1
<1>10. CASE BumpTenancy(p)
    <2>1. Put(i, [entry[i] EXCEPT !.tenancy = @ + 1]) /\ Goto(p, "activate")
        BY <1>10 DEF BumpTenancy, ClaimStore, Mine, i
    <2> QED
        BY <1>3, <1>5, <1>7, <2>1
<1>11. CASE Disown(p)
    <2>1. \/ Put(i, [entry[i] EXCEPT !.owner = NoProc]) /\ Goto(p, "leave_tenancy")
          \/ Put(i, entry[i]) /\ Goto(p, "unlock")
        BY <1>11 DEF Disown, Mine, i
    <2>2. entry[i].tenancy >= entry[i].tenancy
        BY <1>3
    <2> QED
        BY <1>2, <1>5, <1>6, <2>1, <2>2
<1> QED
    BY <1>8, <1>9, <1>10, <1>11

\* The sweep: residue there is none, and a stale entry is re-tenanted first.
LEMMA SweepStore ==
    ASSUME ReadInv, BoardInv', NEW p \in Procs, SweepEntry(p)
    PROVE  IsStoreStep
<1> DEFINE i == proc[p].i
           n == proc[p].n
<1>0. /\ BoardInv /\ LockInv /\ Typed /\ Locals /\ Watch
      /\ alive[p] /\ proc[p].pc = "sweep" /\ i < Capacity
      /\ UNCHANGED <<cell, cache, alive, writer>>
    BY DEF ReadInv, BoardInv, LockInv, SweepEntry, At
<1>1. /\ proc[p].op \in {"declare", "sweep"} /\ Inside(p) /\ proc[p].pc \notin BusyPCs
      /\ n \in Nat /\ i \in 0..Capacity
    <2>1. Placed(proc[p]) /\ proc[p] \in ProcType
        BY <1>0 DEF Locals, LocalOK, Typed
    <2> QED
        BY <1>0, <2>1 DEF Placed, ClaimPCs, ProcType, Ops, EntryPCs, ViewPCs, WaitPCs, Inside, BusyPCs,
                          ScanPCs, LoadPCs
<1>2. i \in Entries /\ i + 1 \in 0..Capacity
    BY <1>0, <1>1, BoardAssumption DEF Entries
<1>3. entry[i] \in EntryType /\ ~Residue(entry[i])
    BY <1>0, <1>1, <1>2 DEF Typed, LockInv, Scenes, Scene, ClaimPCs, Clean
<1>4. LET e == [entry[i] EXCEPT !.tenancy = @ + 1]
      IN  /\ e \in EntryType /\ e.state = entry[i].state /\ e.publish = entry[i].publish
          /\ e.hash = entry[i].hash /\ e.key = entry[i].key /\ e.tenancy >= entry[i].tenancy
    BY <1>3 DEF EntryType
<1>5. \/ Put(i, [entry[i] EXCEPT !.tenancy = @ + 1]) /\ GotoWith(p, "clear", i, n)
      \/ Put(i, entry[i]) /\ GotoWith(p, "sweep", i + 1, n)
    BY <1>3, NormalizedIsClean DEF SweepEntry
<1> HIDE DEF i, n
<1>6. PICK e \in EntryType, next \in {"clear", "sweep"}, j \in 0..Capacity :
          /\ Put(i, e) /\ GotoWith(p, next, j, n)
          /\ e.state = entry[i].state /\ e.publish = entry[i].publish /\ e.hash = entry[i].hash
          /\ e.key = entry[i].key /\ e.tenancy >= entry[i].tenancy
    <2>1. i \in 0..Capacity /\ entry[i].tenancy >= entry[i].tenancy
        BY <1>1, <1>3, EntryFields
    <2> QED
        BY <1>2, <1>3, <1>4, <1>5, <2>1
<1>7. \A j1 \in Entries \ {i} : entry'[j1] = entry[j1]
    BY <1>0, <1>2, <1>6, PutFields
<1>8. entry'[i] = e
    BY <1>0, <1>2, <1>6, PutFields
<1>9. /\ \A q \in Procs \ {p} : proc'[q] = proc[q]
      /\ proc'[p].pc = next /\ proc'[p].op = proc[p].op
    BY <1>0, <1>1, <1>6, GotoWithFields DEF PCs
<1>10. GoesOn(p)
    BY <1>0, <1>1, <1>9, QuietGoesOn
<1>11. proc'[p].pc \notin BusyPCs
    BY <1>9 DEF BusyPCs, ScanPCs, LoadPCs
<1> QED
    BY <1>0, <1>1, <1>2, <1>6, <1>7, <1>8, <1>9, <1>10, <1>11, SameStore

\* The stores of a claim before it is announced: the entry shows nothing yet.
LEMMA ClaimStores ==
    ASSUME ReadInv, BoardInv', NEW p \in Procs, Claim(p) \/ ResetPublish(p) \/ StoreKey(p) \/ StoreIdentity(p)
    PROVE  IsStoreStep
<1> DEFINE k == proc[p].key
<1>0. /\ BoardInv /\ LockInv /\ Typed /\ Locals /\ Watch /\ Identified
      /\ alive[p] /\ proc[p].pc \in {"claim", "reset", "name", "identify"}
      /\ UNCHANGED <<cell, cache, alive, writer>>
    BY DEF ReadInv, BoardInv, LockInv, Claim, ResetPublish, StoreKey, StoreIdentity, ClaimStore, At
<1>1. /\ proc[p].op = "declare" /\ Inside(p) /\ Scene(p, proc[p]) /\ proc[p].pc \notin BusyPCs
      /\ k \in Keys /\ k # NoKey
    <2>1. LocalOK(proc[p], writer[p]) /\ proc[p] \in ProcType
        BY <1>0 DEF Locals, Typed
    <2>2. /\ proc[p].op = "declare" /\ Inside(p) /\ proc[p].pc \notin BusyPCs
        BY <1>0, <2>1 DEF LocalOK, Placed, ClaimPCs, ProcType, Ops, EntryPCs, ViewPCs, WaitPCs, Inside, BusyPCs,
                          ScanPCs, LoadPCs
    <2> QED
        BY <1>0, <2>1, <2>2, BoardAssumption DEF LocalOK, LockInv, Scenes
<1>i. PICK i \in Entries : i = proc[p].i
    BY <1>0, IndexInUse
<1>2. i \in Entries /\ entry[i] \in EntryType
    BY <1>0 DEF Typed
<1>3. entry[i] \in [state : {"Free", "Claiming", "Active"}, publish : Nat, tenancy : Nat,
                    owner : Procs \cup {NoProc}, hash : Keys \cup {NoKey}, key : Keys \cup {NoKey}]
    BY <1>2 DEF EntryType
<1>4. /\ entry[i].state = IF proc[p].pc = "claim" THEN "Free" ELSE "Claiming"
      /\ proc[p].pc \in {"name", "identify"} => entry[i].publish = 0
      /\ proc[p].pc = "identify" => entry[i].key = k
    BY <1>0, <1>1, <1>i DEF Scene, ClaimPCs
<1>5. entry[i].hash = NoKey
    BY <1>0, <1>i, <1>2, <1>4 DEF Identified
<1>6. \A j \in Entries \ {i} : entry[j].hash # k
    <2> SUFFICES ASSUME NEW j \in Entries \ {i} PROVE entry[j].hash # k
        OBVIOUS
    <2>1. ~Residue(entry[j]) /\ (entry[j].state = "Active" => entry[j].hash # k)
        BY <1>0, <1>1, <1>i DEF Scene, CleanBut, Clean, ClaimPCs
    <2>2. entry[j].state \in {"Free", "Claiming", "Active"}
        BY <1>0, EntryFields DEF Typed
    <2> QED
        BY <1>1, <2>1, <2>2 DEF Residue
<1> HIDE DEF k
\* Any of them, by what it leaves in the entry.
<1>7. ASSUME NEW e \in EntryType, NEW next \in {"reset", "name", "identify", "tenant"}, Put(i, e), Goto(p, next),
             e.state = "Claiming", e.tenancy = entry[i].tenancy,
             e.key # entry[i].key => entry[i].publish = 0,
             e.publish = entry[i].publish \/ e.publish = 0,
             \/ e.hash = NoKey
             \/ e.hash = k /\ e.publish = 0 /\ e.key = k /\ next = "tenant"
      PROVE  IsStoreStep
    <2>1. \A j \in Entries \ {i} : entry'[j] = entry[j]
        BY <1>0, <1>2, <1>7, PutFields
    <2>2. entry'[i] = e
        BY <1>0, <1>2, <1>7, PutFields
    <2>3. /\ \A q \in Procs \ {p} : proc'[q] = proc[q]
          /\ proc'[p].pc = next /\ proc'[p].op = proc[p].op /\ proc'[p].i = i
        BY <1>0, <1>i, <1>7, GotoFields DEF PCs
    <2>4. GoesOn(p)
        BY <1>0, <1>1, <2>3, QuietGoesOn
    <2>5. proc'[p].pc \notin BusyPCs
        BY <2>3 DEF BusyPCs, ScanPCs, LoadPCs
    <2>6. entry[i].state # "Active" /\ entry[i].tenancy \in Nat
        BY <1>3, <1>4
    <2>7. StoreKeepsOrder(p, i)
        BY <1>0, <1>7, <2>2, <2>3, <2>6 DEF StoreKeepsOrder
    <2>8. StoreKeepsKeys(p, i)
        BY <1>1, <1>6, <1>7, <2>2, <2>3 DEF StoreKeepsKeys
    <2>9. ShowsSame(i)
        BY <1>7, <2>2, <2>6 DEF ShowsSame
    <2> QED
        BY <1>0, <1>1, <1>2, <2>1, <2>3, <2>4, <2>5, <2>7, <2>8, <2>9, HolderStep
<1>8. CASE Claim(p)
    <2> DEFINE e == [entry[i] EXCEPT !.state = "Claiming"]
    <2>1. Put(i, e) /\ Goto(p, "reset")
        BY <1>i, <1>8 DEF Claim, ClaimStore, Mine
    <2>2. /\ e \in EntryType /\ e.state = "Claiming" /\ e.tenancy = entry[i].tenancy /\ e.key = entry[i].key
          /\ e.publish = entry[i].publish /\ e.hash = NoKey
        BY <1>3, <1>5 DEF EntryType
    <2> HIDE DEF e
    <2> QED
        BY <1>7, <2>1, <2>2
<1>9. CASE ResetPublish(p)
    <2> DEFINE e == [entry[i] EXCEPT !.publish = 0]
    <2>1. Put(i, e) /\ Goto(p, "name") /\ proc[p].pc = "reset"
        BY <1>i, <1>9 DEF ResetPublish, ClaimStore, Mine, At
    <2>2. /\ e \in EntryType /\ e.state = "Claiming" /\ e.tenancy = entry[i].tenancy /\ e.key = entry[i].key
          /\ e.publish = 0 /\ e.hash = NoKey
        BY <1>3, <1>4, <1>5, <2>1 DEF EntryType
    <2> HIDE DEF e
    <2> QED
        BY <1>7, <2>1, <2>2
<1>10. CASE StoreKey(p)
    <2> DEFINE e == [entry[i] EXCEPT !.key = k]
    <2>1. Put(i, e) /\ Goto(p, "identify") /\ proc[p].pc = "name"
        BY <1>i, <1>10 DEF StoreKey, ClaimStore, Mine, k, At
    <2>2. /\ e \in EntryType /\ e.state = "Claiming" /\ e.tenancy = entry[i].tenancy
          /\ e.publish = entry[i].publish /\ entry[i].publish = 0 /\ e.hash = NoKey
        BY <1>1, <1>3, <1>4, <1>5, <2>1 DEF EntryType
    <2> HIDE DEF e
    <2> QED
        BY <1>7, <2>1, <2>2
<1>11. CASE StoreIdentity(p)
    <2> DEFINE e == [entry[i] EXCEPT !.owner = p, !.hash = k]
    <2>1. Put(i, e) /\ Goto(p, "tenant") /\ proc[p].pc = "identify"
        BY <1>i, <1>11 DEF StoreIdentity, ClaimStore, Mine, k, At
    <2>2. /\ e \in EntryType /\ e.state = "Claiming" /\ e.tenancy = entry[i].tenancy
          /\ e.publish = 0 /\ entry[i].publish = 0 /\ e.hash = k /\ e.key = k /\ e.key = entry[i].key
        BY <1>1, <1>3, <1>4, <1>5, <2>1 DEF EntryType
    <2> HIDE DEF e
    <2> QED
        BY <1>7, <2>1, <2>2
<1> QED
    BY <1>8, <1>9, <1>10, <1>11

\* The store that announces it: the key is declared and not written.
LEMMA ActivateStore ==
    ASSUME ReadInv, BoardInv', NEW p \in Procs, Activate(p)
    PROVE  IsStoreStep
<1> DEFINE k == proc[p].key
<1>0. /\ BoardInv /\ LockInv /\ Typed /\ Locals /\ Watch /\ Identified
      /\ alive[p] /\ proc[p].pc = "activate"
      /\ UNCHANGED <<cell, cache, alive>>
      /\ Goto(p, "bump")
      /\ \E w : writer' = [writer EXCEPT ![p] = w]
    BY DEF ReadInv, BoardInv, LockInv, Activate, At
<1>1. /\ proc[p].op = "declare" /\ Inside(p) /\ Scene(p, proc[p]) /\ proc[p].pc \notin BusyPCs
      /\ k \in Keys /\ k # NoKey
    <2>1. LocalOK(proc[p], writer[p]) /\ proc[p] \in ProcType
        BY <1>0 DEF Locals, Typed
    <2>2. /\ proc[p].op = "declare" /\ Inside(p) /\ proc[p].pc \notin BusyPCs
        BY <1>0, <2>1 DEF LocalOK, Placed, ClaimPCs, ProcType, Ops, EntryPCs, ViewPCs, WaitPCs, Inside, BusyPCs,
                          ScanPCs, LoadPCs
    <2> QED
        BY <1>0, <2>1, <2>2, BoardAssumption DEF LocalOK, LockInv, Scenes
<1>i. PICK i \in Entries : i = proc[p].i
    BY <1>0, IndexInUse
<1> DEFINE e == [entry[i] EXCEPT !.state = "Active"]
<1>2. entry[i] \in EntryType /\ Put(i, e)
    BY <1>0, <1>i DEF Typed, Activate, Mine
<1>3. entry[i].state = "Claiming" /\ entry[i].publish = 0 /\ entry[i].key = k /\ entry[i].hash = k
    BY <1>0, <1>1, <1>i DEF Scene, ClaimPCs
<1>4. /\ e \in EntryType /\ e.state = "Active" /\ e.publish = 0 /\ e.key = k /\ e.hash = k
      /\ e.tenancy = entry[i].tenancy /\ entry[i].tenancy \in Nat
    BY <1>2, <1>3 DEF EntryType
<1>5. \A j \in Entries \ {i} : /\ entry[j].hash # k
                               /\ entry[j].state = "Active" => entry[j].key # k
    <2> SUFFICES ASSUME NEW j \in Entries \ {i}
                 PROVE  entry[j].hash # k /\ (entry[j].state = "Active" => entry[j].key # k)
        OBVIOUS
    <2>1. ~Residue(entry[j]) /\ (entry[j].state = "Active" => entry[j].hash # k)
        BY <1>0, <1>1, <1>i DEF Scene, CleanBut, Clean, ClaimPCs
    <2>2. entry[j].hash # k
        BY <1>0, <1>2, <1>3, <1>1 DEF Identified
    <2>3. entry[j].state = "Active" => entry[j].hash # NoKey /\ entry[j].key = entry[j].hash
        BY <1>0, <2>1 DEF Residue, LockInv, Keyed
    <2> QED
        BY <2>2, <2>3
<1> HIDE DEF k, e
<1>6. \A j \in Entries \ {i} : entry'[j] = entry[j]
    BY <1>0, <1>2, <1>4, PutFields
<1>7. entry'[i] = e
    BY <1>0, <1>2, <1>4, PutFields
<1>8. /\ \A q \in Procs \ {p} : proc'[q] = proc[q]
      /\ proc'[p].pc = "bump" /\ proc'[p].op = proc[p].op
    BY <1>0, GotoFields DEF PCs
<1>9. \A q \in Procs \ {p} : writer'[q] = writer[q]
    BY <1>0 DEF Typed
<1>10. GoesOn(p) /\ proc'[p].pc \notin BusyPCs
    <2>1. GoesOn(p)
        BY <1>0, <1>1, <1>8, QuietGoesOn
    <2> QED
        BY <1>8, <2>1 DEF BusyPCs, ScanPCs, LoadPCs
<1>11. StoreKeepsOrder(p, i)
    BY <1>0, <1>i, <1>3, <1>4, <1>7, <1>8 DEF StoreKeepsOrder
<1>12. StoreKeepsKeys(p, i)
    BY <1>1, <1>4, <1>5, <1>7, <1>8 DEF StoreKeepsKeys
<1>13. Appears(i)
    <2>0. entry'[i].publish \div 2 = 0 /\ entry'[i].hash = entry'[i].key
        BY <1>4, <1>7
    <2>1. Shows(i)' = Store!Unwritten
        BY <2>0 DEF Shows, Store!Unwritten
    <2> QED
        BY <1>3, <1>4, <1>7, <2>1 DEF Appears
<1> QED
    BY <1>0, <1>1, <1>2, <1>6, <1>8, <1>9, <1>10, <1>11, <1>12, <1>13, HolderStep

\* An entry that lost its hash is on its way out.
LEMMA LeavingShown ==
    ASSUME Identified, NEW i \in Entries, entry[i].state = "Active", entry[i].hash = NoKey
    PROVE  Shows(i).there = "leaving"
<1>1. entry[i].key \in Keys
    BY DEF Identified
<1> QED
    BY <1>1, BoardAssumption DEF Shows

\* An entry goes: a claim undone, an entry freed, by the sweep or the repair.
LEMMA FreeStore ==
    ASSUME ReadInv, BoardInv', Watch, NEW p \in Procs, alive[p], Inside(p), UNCHANGED <<cell, cache, alive>>,
           NEW i \in Entries, \A j \in Entries \ {i} : entry'[j] = entry[j],
           \A q \in Procs \ {p} : proc'[q] = proc[q] /\ writer'[q] = writer[q],
           proc[p].pc \notin BusyPCs, proc'[p].pc \notin BusyPCs, proc'[p].op = proc[p].op, GoesOn(p),
           entry'[i].state = "Free", entry'[i].hash = NoKey, entry'[i].publish = entry[i].publish,
           entry'[i].key = entry[i].key, entry'[i].tenancy = entry[i].tenancy,
           entry[i].state = "Active" => entry[i].hash = NoKey,
           proc[p].pc # "activate", proc'[p].pc \notin ClaimPCs
    PROVE  IsStoreStep
<1>1. Identified /\ entry[i].tenancy \in Nat
    BY EntryFields DEF ReadInv, BoardInv, LockInv, Typed
<1>2. StoreKeepsOrder(p, i)
    BY <1>1 DEF StoreKeepsOrder, ClaimPCs
<1>3. StoreKeepsKeys(p, i)
    BY DEF StoreKeepsKeys, ClaimPCs
<1>4. CASE entry[i].state = "Active"
    <2>1. Vanishes(i)
        BY <1>1, <1>4, LeavingShown DEF Vanishes
    <2> QED
        BY <1>2, <1>3, <2>1, HolderStep
<1>5. CASE entry[i].state # "Active"
    <2>1. ShowsSame(i)
        BY <1>5 DEF ShowsSame
    <2> QED
        BY <1>2, <1>3, <2>1, HolderStep
<1> QED
    BY <1>4, <1>5

\* The two stores of publish_free.
LEMMA FreeStores ==
    ASSUME ReadInv, BoardInv', NEW p \in Procs, ClearIdentity(p) \/ PublishFree(p)
    PROVE  IsStoreStep
<1>0. /\ BoardInv /\ LockInv /\ Typed /\ Locals /\ Watch /\ Identified
      /\ alive[p] /\ proc[p].pc \in {"clear", "free"}
      /\ UNCHANGED <<cell, cache, alive, writer>>
    BY DEF ReadInv, BoardInv, LockInv, ClearIdentity, PublishFree, ClaimStore, At
<1>1. /\ proc[p].op \in {"declare", "sweep"} /\ Inside(p) /\ Scene(p, proc[p]) /\ proc[p].pc \notin BusyPCs
      /\ proc[p].n \in Nat
    <2>1. LocalOK(proc[p], writer[p]) /\ proc[p] \in ProcType
        BY <1>0 DEF Locals, Typed
    <2>2. /\ proc[p].op \in {"declare", "sweep"} /\ Inside(p) /\ proc[p].pc \notin BusyPCs
        BY <1>0, <2>1 DEF LocalOK, Placed, ClaimPCs, ProcType, Ops, EntryPCs, ViewPCs, WaitPCs, Inside, BusyPCs,
                          ScanPCs, LoadPCs
    <2> QED
        BY <1>0, <2>1, <2>2 DEF LockInv, Scenes, ProcType
<1>i. PICK i \in Entries : i = proc[p].i
    BY <1>0, IndexInUse
<1>2. i \in Entries /\ entry[i] \in EntryType /\ i + 1 \in 0..Capacity
    <2>1. i \in Entries /\ Capacity \in Nat
        BY BoardAssumption
    <2>2. i + 1 \in 0..Capacity
        BY <2>1 DEF Entries
    <2> QED
        BY <1>0, <2>1, <2>2 DEF Typed
<1>3. /\ entry[i].state = "Active"
      /\ proc[p].pc = "clear" => entry[i].hash = entry[i].key /\ entry[i].hash # NoKey
      /\ proc[p].pc = "free" => entry[i].hash = NoKey
    <2>1. /\ entry[i].state = "Active"
          /\ proc[p].pc = "free" => entry[i].hash = NoKey
          /\ proc[p].pc = "clear" => Clean(i)
        BY <1>0, <1>1, <1>i, <1>2 DEF Scene, ClaimPCs
    <2> QED
        BY <1>0, <1>2, <2>1 DEF Clean, Residue, LockInv, Keyed
<1>4. CASE ClearIdentity(p)
    <2> DEFINE e == Unowned(entry[i])
    <2>1. Put(i, e) /\ Goto(p, "free") /\ proc[p].pc = "clear"
        BY <1>i, <1>4 DEF ClearIdentity, ClaimStore, Mine, At
    <2>2. /\ e \in EntryType /\ e.hash = NoKey /\ e.state = "Active" /\ e.publish = entry[i].publish
          /\ e.key = entry[i].key /\ e.tenancy = entry[i].tenancy /\ entry[i].tenancy \in Nat
          /\ entry[i].publish \in Nat
        BY <1>2, <1>3 DEF Unowned, EntryType
    <2> HIDE DEF e
    <2>3. \A j \in Entries \ {i} : entry'[j] = entry[j]
        BY <1>0, <1>2, <2>1, <2>2, PutFields
    <2>4. entry'[i] = e
        BY <1>0, <1>2, <2>1, <2>2, PutFields
    <2>5. /\ \A q \in Procs \ {p} : proc'[q] = proc[q]
          /\ proc'[p].pc = "free" /\ proc'[p].op = proc[p].op
        BY <1>0, <2>1, GotoFields DEF PCs
    <2>6. GoesOn(p)
        BY <1>0, <1>1, <2>5, QuietGoesOn
    <2>7. proc'[p].pc \notin BusyPCs
        BY <2>5 DEF BusyPCs, ScanPCs, LoadPCs
    <2>8. StoreKeepsOrder(p, i)
        BY <1>3, <2>1, <2>2, <2>4, <2>5 DEF StoreKeepsOrder
    <2>9. StoreKeepsKeys(p, i)
        BY <1>0, <1>2, <1>3, <2>2, <2>4, <2>5 DEF StoreKeepsKeys, Identified
    <2>10. ShowsMore(i)
        <3> DEFINE n == entry[i].publish \div 2
                   v == IF n = 0 THEN 0 ELSE IF cell[i][n % 2].data = cell[i][n % 2].len
                                             THEN cell[i][n % 2].data ELSE -1
        <3>1. Shows(i) = [count |-> n, there |-> "yes", value |-> v]
            BY <1>3, <2>1 DEF Shows
        <3>a. /\ entry'[i].publish = entry[i].publish /\ entry'[i].hash # entry'[i].key
              /\ cell' = cell
            BY <1>0, <1>3, <2>1, <2>2, <2>4
        <3>2. Shows(i)' = [count |-> n, there |-> "leaving", value |-> v]
            BY <3>a DEF Shows
        <3> HIDE DEF n, v
        <3>3. Shows(i)' = [Shows(i) EXCEPT !.there = "leaving"]
            BY <3>1, <3>2
        <3>4. Shows(i)' \in Store!Successors(Shows(i))
            BY <3>1, <3>3 DEF Store!Successors
        <3> QED
            BY <1>3, <2>2, <2>4, <3>4 DEF ShowsMore
    <2> QED
        BY <1>0, <1>1, <1>2, <2>3, <2>5, <2>6, <2>7, <2>8, <2>9, <2>10, HolderStep
<1>5. CASE PublishFree(p)
    <2> DEFINE e == [entry[i] EXCEPT !.state = "Free"]
    <2>1. Put(i, e) /\ GotoWith(p, "sweep", i + 1, proc[p].n + 1) /\ proc[p].pc = "free"
        BY <1>i, <1>5 DEF PublishFree, At, Mine
    <2>2. /\ e \in EntryType /\ e.hash = NoKey /\ e.state = "Free" /\ e.publish = entry[i].publish
          /\ e.key = entry[i].key /\ e.tenancy = entry[i].tenancy
        BY <1>2, <1>3, <2>1 DEF EntryType
    <2> HIDE DEF e
    <2>3. \A j \in Entries \ {i} : entry'[j] = entry[j]
        BY <1>0, <1>2, <2>1, <2>2, PutFields
    <2>4. entry'[i] = e
        BY <1>0, <1>2, <2>1, <2>2, PutFields
    <2>5. /\ \A q \in Procs \ {p} : proc'[q] = proc[q]
          /\ proc'[p].pc = "sweep" /\ proc'[p].op = proc[p].op
        <3>1. "sweep" \in PCs /\ proc[p].n + 1 \in Nat
            BY <1>1 DEF PCs
        <3> QED
            BY <1>0, <1>2, <2>1, <3>1, GotoWithFields
    <2>6. GoesOn(p)
        BY <1>0, <1>1, <2>5, QuietGoesOn
    <2>7. proc'[p].pc \notin BusyPCs \cup ClaimPCs
        BY <2>5 DEF BusyPCs, ScanPCs, LoadPCs, ClaimPCs
    <2> QED
        BY <1>0, <1>1, <1>2, <1>3, <2>1, <2>2, <2>3, <2>4, <2>5, <2>6, <2>7, FreeStore
<1> QED
    BY <1>4, <1>5

\* repair_board, entry by entry.
LEMMA RepairStore ==
    ASSUME ReadInv, BoardInv', NEW p \in Procs, Repair(p)
    PROVE  IsStoreStep
<1> DEFINE i == proc[p].i
           n == proc[p].n
           e == Normalized(entry[i])
<1>0. /\ BoardInv /\ LockInv /\ Typed /\ Locals /\ Watch
      /\ alive[p] /\ proc[p].pc = "repair"
      /\ UNCHANGED <<cell, writer, cache, alive>>
      /\ Put(i, e)
    BY DEF ReadInv, BoardInv, LockInv, Repair, At
<1>1. /\ proc[p].op \in {"declare", "release", "sweep", "snapshot"} /\ Inside(p) /\ proc[p].pc \notin BusyPCs
      /\ n \in Entries
    <2>1. LocalOK(proc[p], writer[p]) /\ proc[p] \in ProcType
        BY <1>0 DEF Locals, Typed
    <2> QED
        BY <1>0, <2>1 DEF LocalOK, Placed, ClaimPCs, ProcType, Ops, EntryPCs, ViewPCs, WaitPCs, Inside, BusyPCs,
                          ScanPCs, LoadPCs
<1>2. i \in Entries /\ entry[i] \in EntryType /\ n \in 0..Capacity /\ n \in Nat /\ i + 1 \in 0..Capacity
    <2>1. i \in Entries /\ Capacity \in Nat
        BY <1>0, IndexInUse, BoardAssumption
    <2>2. n \in 0..Capacity /\ n \in Nat /\ i + 1 \in 0..Capacity
        BY <1>1, <2>1 DEF Entries
    <2> QED
        BY <1>0, <2>1, <2>2 DEF Typed
<1>3. e \in EntryType
    BY <1>2, NormalizedIsClean
<1>4. \/ GotoWith(p, "repair", i + 1, n)
      \/ GotoWith(p, Body(proc[p].op), n, 0)
    BY DEF Repair
<1> HIDE DEF i, n, e
<1>5. /\ \A q \in Procs \ {p} : proc'[q] = proc[q]
      /\ proc'[p].op = proc[p].op
      /\ proc'[p].pc \in {"repair", "find", "disown", "sweep", "entry_state"}
    <2>1. {"repair", "find", "disown", "sweep", "entry_state"} \subseteq PCs /\ 0 \in Nat
        BY DEF PCs
    <2>2. Body(proc[p].op) \in {"find", "disown", "sweep", "entry_state"}
        BY <1>1, BodyPlaces
    <2> QED
        BY <1>0, <1>2, <1>4, <2>1, <2>2, GotoWithFields
<1>6. \A j \in Entries \ {i} : entry'[j] = entry[j]
    BY <1>0, <1>2, <1>3, PutFields
<1>7. entry'[i] = e
    BY <1>0, <1>2, <1>3, PutFields
<1>8. proc'[p].pc \notin BusyPCs \cup ClaimPCs
    BY <1>5 DEF BusyPCs, ScanPCs, LoadPCs, ClaimPCs
<1>9. GoesOn(p)
    BY <1>0, <1>1, <1>5 DEF GoesOn, Scope, StoreReply
<1>10. CASE Residue(entry[i])
    <2>1. e = [Unowned(entry[i]) EXCEPT !.state = "Free"]
        BY <1>10 DEF Normalized, e
    <2>2. /\ e.state = "Free" /\ e.hash = NoKey /\ e.publish = entry[i].publish
          /\ e.key = entry[i].key /\ e.tenancy = entry[i].tenancy
        BY <1>2, <2>1 DEF Unowned, EntryType
    <2>3. entry[i].state = "Active" => entry[i].hash = NoKey
        BY <1>10 DEF Residue
    <2> QED
        BY <1>0, <1>1, <1>2, <1>5, <1>6, <1>7, <1>8, <1>9, <2>2, <2>3, FreeStore
<1>11. CASE ~Residue(entry[i])
    <2>1. e = entry[i] /\ entry[i].tenancy >= entry[i].tenancy
        BY <1>2, <1>11, EntryFields DEF Normalized, e
    <2> QED
        BY <1>0, <1>1, <1>2, <1>5, <1>6, <1>7, <1>8, <1>9, <2>1, SameStore DEF ClaimPCs
<1> QED
    BY <1>10, <1>11

-----------------------------------------------------------------------------
(***************************************************************************)
(* The stores of a write, next to the readers of the other cell.           *)
(***************************************************************************)
\* A store of p's write into its own entry i.
LEMMA WriterStore ==
    ASSUME ReadInv, BoardInv', Watch, NEW p \in Procs, alive[p], NEW i \in Entries, i = proc[p].i,
           proc[p].pc \in {"mark", "put_data", "put_len", "done"},
           proc'[p].pc \in {"put_data", "put_len", "done", "bump"}, proc'[p].op = "write", proc'[p].i = i,
           proc'[p].data = proc[p].data, UNCHANGED <<cache, alive>>,
           \A q \in Procs \ {p} : proc'[q] = proc[q] /\ writer'[q] = writer[q],
           \A j \in Entries \ {i} : entry'[j] = entry[j] /\ cell'[j] = cell[j],
           entry'[i].state = entry[i].state, entry'[i].tenancy = entry[i].tenancy,
           entry'[i].hash = entry[i].hash, entry'[i].key = entry[i].key,
           entry'[i].publish = entry[i].publish \/ (entry'[i].publish = entry[i].publish + 1 /\ cell' = cell),
           \A c \in 0..1 : cell'[i][c] # cell[i][c] =>
               entry[i].publish % 2 = 1 /\ c = (entry[i].publish \div 2 + 1) % 2,
           entry'[i].publish \div 2 > 0 => cell'[i][(entry'[i].publish \div 2) % 2].data
                                               = cell'[i][(entry'[i].publish \div 2) % 2].len,
           proc'[p].pc \in {"put_data", "put_len", "done"} => entry'[i].publish = 2 * writer'[p].writes + 1,
           proc'[p].pc \in {"put_len", "done"} => cell'[i][(writer'[p].writes + 1) % 2].data = proc[p].data,
           proc'[p].pc = "done" => cell'[i][(writer'[p].writes + 1) % 2].len = proc[p].data,
           ShowsSame(i) \/ ShowsMore(i)
    PROVE  IsStoreStep
<1>1. /\ BoardInv /\ LockInv /\ Typed /\ Typed' /\ Locals /\ Writers /\ Identified /\ CellsWhole /\ Writing
    BY DEF ReadInv, BoardInv, LockInv
<1>2. /\ proc[p].op = "write" /\ entry[i].state = "Active" /\ entry[i].owner = p
      /\ entry[i].publish \in Nat /\ entry[i].tenancy \in Nat
    <2>1. /\ Keeps(p, writer[p]) /\ proc[p].i = writer[p].idx /\ entry[i] \in EntryType
          /\ proc[p].op = "write"
        BY <1>1, WriterAt
    <2> QED
        BY <2>1, EntryFields DEF Keeps
<1>3. Alone(i)
    BY DEF Alone, Untouched
<1>4. \A j \in Entries : Resting(j)' <=> Resting(j)
    BY DEF Resting
<1>5. ASSUME NEW j \in Entries PROVE Lawful(j)
    <2>1. CASE j = i
        BY <1>2, <1>4, <2>1 DEF Lawful
    <2>2. CASE j # i
        <3>1. entry'[j] = entry[j] /\ cell'[j] = cell[j] /\ entry[j].tenancy \in Nat
            BY <1>1, <2>2, EntryFields DEF Typed
        <3> QED
            BY <1>4, <3>1 DEF Lawful
    <2> QED
        BY <2>1, <2>2
<1>6. \A j \in Entries : /\ entry'[j].state = entry[j].state /\ entry'[j].key = entry[j].key
                         /\ entry'[j].hash = entry[j].hash
    BY SMTT(30)
<1>7. Identified'
    <2>1. \A j \in Entries : entry[j].state = "Claiming" => entry'[j].publish = entry[j].publish
        BY <1>2
    <2>2. \A q \in Procs : alive'[q] /\ proc'[q].pc \in {"reset", "name", "identify"} =>
              entry'[proc'[q].i].hash = NoKey
        <3> SUFFICES ASSUME NEW q \in Procs, alive[q], proc'[q].pc \in {"reset", "name", "identify"}
                     PROVE  entry'[proc'[q].i].hash = NoKey
            OBVIOUS
        <3>1. q # p /\ proc'[q] = proc[q]
            BY SMTT(30)
        <3>2. proc[q].i \in Entries /\ entry[proc[q].i].hash = NoKey
            BY <1>1, <3>1, IndexInUse DEF Identified
        <3> QED
            BY <1>6, <3>1, <3>2
    <2> QED
        BY <1>1, <1>6, <2>1, <2>2 DEF Identified
<1>8. CellsWhole'
    <2> SUFFICES ASSUME NEW j \in Entries, entry'[j].publish \div 2 > 0
                 PROVE  cell'[j][(entry'[j].publish \div 2) % 2].data = cell'[j][(entry'[j].publish \div 2) % 2].len
        BY SMTT(30) DEF CellsWhole
    <2>1. CASE j = i
        BY <2>1, SMTT(30)
    <2>2. CASE j # i
        BY <1>1, <2>2, SMTT(30) DEF CellsWhole
    <2> QED
        BY <2>1, <2>2, SMTT(30)
<1>9. Writing'
    <2> SUFFICES ASSUME NEW q \in Procs, alive[q]
                 PROVE  /\ proc'[q].op = "write" => proc'[q].data \in 1..MaxWrites
                        /\ proc'[q].pc \in {"put_data", "put_len", "done"} =>
                               entry'[proc'[q].i].publish = 2 * writer'[q].writes + 1
                        /\ proc'[q].pc \in {"put_len", "done"} =>
                               cell'[proc'[q].i][(writer'[q].writes + 1) % 2].data = proc'[q].data
                        /\ proc'[q].pc = "done" =>
                               cell'[proc'[q].i][(writer'[q].writes + 1) % 2].len = proc'[q].data
        BY ZenonT(40) DEF Writing, Target
    <2>1. CASE q = p
        BY <1>1, <1>2, <2>1, SMTT(30) DEF Writing
    <2>2. CASE q # p
        <3>1. proc[q].pc \in {"put_data", "put_len", "done"} => proc[q].i \in Entries /\ proc[q].i # i
            BY <1>1, <1>2, <2>2, WriterAt, SMTT(30) DEF Keeps
        <3>2. /\ proc[q].op = "write" => proc[q].data \in 1..MaxWrites
              /\ proc[q].pc \in {"put_data", "put_len", "done"} =>
                     entry[proc[q].i].publish = 2 * writer[q].writes + 1
              /\ proc[q].pc \in {"put_len", "done"} =>
                     cell[proc[q].i][(writer[q].writes + 1) % 2].data = proc[q].data
              /\ proc[q].pc = "done" => cell[proc[q].i][(writer[q].writes + 1) % 2].len = proc[q].data
            BY <1>1, Zenon DEF Writing, Target
        <3>3. /\ proc'[q] = proc[q] /\ writer'[q] = writer[q]
              /\ proc[q].pc \in {"put_data", "put_len", "done"} =>
                     entry'[proc[q].i] = entry[proc[q].i] /\ cell'[proc[q].i] = cell[proc[q].i]
            BY <2>2, <3>1
        <3> QED
            BY <3>2, <3>3, SMTT(30)
    <2> QED
        BY <2>1, <2>2, SMTT(30)
<1>10. \A q \in Procs : GoesOn(q)
    <2>1. GoesOn(p)
        BY <1>1, <1>2, QuietGoesOn
    <2> QED
        BY <2>1, SameGoesOn
<1>11. \A q \in Procs : alive'[q] =>
          alive[q] /\ (proc'[q] = proc[q] \/ proc'[q].pc \notin BusyPCs)
    BY DEF BusyPCs, ScanPCs, LoadPCs
<1> QED
    BY <1>1, <1>3, <1>5, <1>6, <1>7, <1>8, <1>9, <1>10, <1>11, EntryStep

\* Arithmetic of the publish word: odd while the w+1st write is under way.
LEMMA PublishWord ==
    ASSUME NEW w \in Nat
    PROVE  /\ (2 * w + 1) \div 2 = w /\ (2 * w + 1) % 2 = 1 /\ (2 * (w + 1)) \div 2 = w + 1
           /\ w % 2 \in 0..1 /\ (w + 1) % 2 \in 0..1 /\ (w + 1) % 2 # w % 2
           /\ \A n \in Nat : n \div 2 = w => n = 2 * w \/ n = 2 * w + 1
OBVIOUS

\* A completed write is a successor of what the key was.
LEMMA WrittenNext ==
    ASSUME NEW n \in Nat, NEW u, NEW v \in 1..MaxWrites
    PROVE  [count |-> n + 1, there |-> "yes", value |-> v]
               \in Store!Successors([count |-> n, there |-> "yes", value |-> u])
<1>1. PICK h : h = [count |-> n, there |-> "yes", value |-> u]
    OBVIOUS
<1>2. PICK g : g = [h EXCEPT !.count = n + 1, !.value = v]
    OBVIOUS
<1>3. h.there = "yes" /\ h.count = n
    BY <1>1
<1>4. g = [count |-> n + 1, there |-> "yes", value |-> v]
    BY <1>1, <1>2
<1>5. g \in {[h EXCEPT !.count = @ + 1, !.value = x] : x \in 1..MaxWrites}
    BY <1>2, <1>3
<1>6. g \in Store!Successors(h)
    BY <1>3, <1>5 DEF Store!Successors
<1> QED
    BY <1>1, <1>4, <1>6

\* Writer::write, store by store: only the last one shows.
LEMMA WriterStores ==
    ASSUME ReadInv, BoardInv', NEW p \in Procs, WriteMark(p) \/ WriteData(p) \/ WriteLen(p) \/ WriteDone(p)
    PROVE  IsStoreStep
<1> DEFINE d == proc[p].data
<1>0. /\ BoardInv /\ LockInv /\ Typed /\ Locals /\ Watch /\ CellsWhole /\ Writing
      /\ alive[p] /\ proc[p].pc \in {"mark", "put_data", "put_len", "done"}
      /\ UNCHANGED <<cache, alive>>
    BY DEF ReadInv, BoardInv, LockInv, WriteMark, WriteData, WriteLen, WriteDone, ClaimStore, At
<1>i. PICK i \in Entries, w \in Nat : i = proc[p].i /\ w = writer[p].writes
    BY <1>0, WriterAt
<1>1. /\ proc[p].op = "write" /\ entry[i] \in EntryType /\ d \in 1..MaxWrites /\ d \in Nat
      /\ entry[i].state = "Active" /\ entry[i].hash = entry[i].key
      /\ entry[i].publish \div 2 = w /\ entry[i].publish \in Nat
    <2>1. d \in 1..MaxWrites /\ MaxWrites \in Nat
        BY <1>0, WriterAt, BoardAssumption DEF Writing
    <2>2. d \in Nat
        BY <2>1
    <2> HIDE DEF d
    <2> QED
        BY <1>0, <1>i, <2>1, <2>2, WriterAt, EntryFields DEF Keeps
<1>2. /\ proc[p].pc \in {"put_data", "put_len", "done"} => entry[i].publish = 2 * w + 1
      /\ proc[p].pc \in {"put_len", "done"} => cell[i][(w + 1) % 2].data = d
      /\ proc[p].pc = "done" => cell[i][(w + 1) % 2].len = d
    BY <1>0, <1>i DEF Writing, Target
<1>3. w > 0 => cell[i][w % 2].data = cell[i][w % 2].len
    BY <1>0, <1>1 DEF CellsWhole
<1>4. ASSUME NEW next \in {"put_data", "put_len", "done", "bump"}, Goto(p, next)
      PROVE  /\ \A q \in Procs \ {p} : proc'[q] = proc[q]
             /\ proc'[p].pc = next /\ proc'[p].op = "write" /\ proc'[p].i = i /\ proc'[p].data = d
    <2>1. /\ \A q \in Procs \ {p} : proc'[q] = proc[q]
          /\ proc'[p].pc = next /\ proc'[p].op = "write" /\ proc'[p].i = i
        BY <1>0, <1>i, <1>1, <1>4, GotoFields DEF PCs
    <2>2. proc'[p].data = d
        BY <1>0, <1>4 DEF Goto, Typed, ProcType
    <2> QED
        BY <2>1, <2>2, SMTT(30)
<1> HIDE DEF d
<1>5. CASE WriteMark(p)
    <2> DEFINE e == [entry[i] EXCEPT !.publish = 2 * w + 1]
    <2>1. /\ Put(i, e) /\ Goto(p, "put_data") /\ writer' = writer /\ cell' = cell /\ proc[p].pc = "mark"
        BY <1>i, <1>5 DEF WriteMark, ClaimStore, Mine, At
    <2>2. /\ e \in EntryType /\ e.state = entry[i].state /\ e.hash = entry[i].hash /\ e.key = entry[i].key
          /\ e.tenancy = entry[i].tenancy /\ e.publish = 2 * w + 1
        BY <1>1 DEF EntryType
    <2> HIDE DEF e
    <2>3. \A j \in Entries \ {i} : entry'[j] = entry[j]
        BY <1>0, <2>1, <2>2, PutFields
    <2>4. entry'[i] = e
        BY <1>0, <2>1, <2>2, PutFields
    <2>5. /\ entry'[i].publish \div 2 = w
          /\ entry'[i].publish = entry[i].publish \/ entry'[i].publish = entry[i].publish + 1
        BY <1>1, <2>2, <2>4, PublishWord
    <2>6. ShowsSame(i)
        BY <1>1, <2>1, <2>2, <2>4, <2>5 DEF ShowsSame, Shows
    <2>7. /\ \A q \in Procs \ {p} : proc'[q] = proc[q] /\ writer'[q] = writer[q]
          /\ proc'[p].pc = "put_data" /\ proc'[p].op = "write" /\ proc'[p].i = i
          /\ proc'[p].data = proc[p].data
        BY <1>4, <2>1 DEF d
    <2>8. /\ entry'[i].publish \div 2 > 0 => cell'[i][(entry'[i].publish \div 2) % 2].data
                                                 = cell'[i][(entry'[i].publish \div 2) % 2].len
          /\ entry'[i].publish = 2 * writer'[p].writes + 1
        BY <1>i, <1>3, <2>1, <2>2, <2>4, <2>5, SMTT(30)
    <2> QED
        BY <1>0, <1>i, <2>1, <2>2, <2>3, <2>4, <2>5, <2>6, <2>7, <2>8, WriterStore
<1>6. CASE WriteData(p) \/ WriteLen(p)
    <2> DEFINE t == (w + 1) % 2
    <2>0. t \in 0..1 /\ w % 2 \in 0..1 /\ t # w % 2 /\ (2 * w + 1) \div 2 = w /\ (2 * w + 1) % 2 = 1
        BY PublishWord
    <2>1. /\ entry' = entry /\ writer' = writer /\ entry[i].publish = 2 * w + 1
          /\ \/ /\ cell' = [cell EXCEPT ![i][t].data = d] /\ Goto(p, "put_len")
             \/ /\ cell' = [cell EXCEPT ![i][t].len = d] /\ Goto(p, "done") /\ cell[i][t].data = d
        BY <1>i, <1>2, <1>6, Zenon DEF WriteData, WriteLen, At, Target, d
    <2> HIDE DEF t
    <2>c. cell[i] \in [0..1 -> [data : Nat, len : Nat]] /\ cell[i][t] \in [data : Nat, len : Nat]
        BY <1>0, <2>0 DEF Typed
    <2>2. /\ \A j \in Entries \ {i} : cell'[j] = cell[j]
          /\ \A c \in 0..1 : c # t => cell'[i][c] = cell[i][c]
        BY <1>0, <2>0, <2>1, <2>c DEF Typed
    <2>3. /\ cell'[i][t].data = d
          /\ Goto(p, "done") => cell'[i][t].len = d
          /\ Goto(p, "put_len") \/ Goto(p, "done")
        <3>1. CASE cell' = [cell EXCEPT ![i][t].data = d] /\ Goto(p, "put_len")
            <4>1. cell'[i][t].data = d
                BY <1>0, <2>0, <2>c, <3>1 DEF Typed
            <4>2. ~Goto(p, "done")
                <5>1. proc'[p].pc = "put_len"
                    BY <1>4, <3>1
                <5> QED
                    BY <1>4, <5>1
            <4> QED
                BY <3>1, <4>1, <4>2
        <3>2. CASE cell' = [cell EXCEPT ![i][t].len = d] /\ Goto(p, "done") /\ cell[i][t].data = d
            BY <1>0, <2>0, <2>c, <3>2 DEF Typed
        <3> QED
            BY <2>1, <3>1, <3>2
    <2>4. cell'[i][w % 2] = cell[i][w % 2]
        BY <2>0, <2>2
    <2>5. ShowsSame(i)
        BY <2>0, <2>1, <2>4, ZenonT(40) DEF ShowsSame, Shows
    <2>6. \A c \in 0..1 : cell'[i][c] # cell[i][c] =>
               entry[i].publish % 2 = 1 /\ c = (entry[i].publish \div 2 + 1) % 2
        BY <2>0, <2>1, <2>2 DEF t
    <2>7. entry'[i].publish \div 2 > 0 => cell'[i][(entry'[i].publish \div 2) % 2].data
                                              = cell'[i][(entry'[i].publish \div 2) % 2].len
        BY <1>3, <2>0, <2>1, <2>4
    <2>8. PICK next \in {"put_len", "done"} : Goto(p, next)
        BY <2>3
    <2>9. /\ \A q \in Procs \ {p} : proc'[q] = proc[q]
          /\ proc'[p].pc = next /\ proc'[p].op = "write" /\ proc'[p].i = i /\ proc'[p].data = d
        BY <1>4, <2>8, SMTT(30)
    <2>10. /\ cell'[i][(writer'[p].writes + 1) % 2].data = proc[p].data
           /\ proc'[p].pc = "done" => cell'[i][(writer'[p].writes + 1) % 2].len = proc[p].data
        BY <1>i, <2>1, <2>3, <2>8, <2>9, ZenonT(40) DEF t, d
    <2> QED
        BY <1>0, <1>i, <2>1, <2>2, <2>5, <2>6, <2>7, <2>9, <2>10, WriterStore, ZenonT(40) DEF d
<1>7. CASE WriteDone(p)
    <2> DEFINE e == [entry[i] EXCEPT !.publish = 2 * (w + 1)]
    <2>1. /\ Put(i, e) /\ Goto(p, "bump") /\ cell' = cell /\ proc[p].pc = "done"
          /\ writer' = [writer EXCEPT ![p].writes = @ + 1]
        BY <1>i, <1>7 DEF WriteDone, Mine, At
    <2>2. /\ e \in EntryType /\ e.state = entry[i].state /\ e.hash = entry[i].hash /\ e.key = entry[i].key
          /\ e.tenancy = entry[i].tenancy /\ e.publish = 2 * (w + 1)
        BY <1>1 DEF EntryType
    <2> HIDE DEF e
    <2>3. \A j \in Entries \ {i} : entry'[j] = entry[j]
        BY <1>0, <2>1, <2>2, PutFields
    <2>4. entry'[i] = e
        BY <1>0, <2>1, <2>2, PutFields
    <2>5. /\ entry'[i].publish \div 2 = w + 1 /\ entry'[i].publish = entry[i].publish + 1
        BY <1>2, <2>1, <2>2, <2>4, PublishWord
    <2>6. \A q \in Procs \ {p} : writer'[q] = writer[q]
        BY <1>0, <2>1 DEF Typed
    <2>7. cell[i][(w + 1) % 2].data = d /\ cell[i][(w + 1) % 2].len = d
        BY <1>2, <2>1
    <2>8. ShowsMore(i)
        <3>1. PICK u : Shows(i) = [count |-> w, there |-> "yes", value |-> u]
            BY <1>1 DEF Shows
        <3>2. Shows(i)' = [count |-> w + 1, there |-> "yes", value |-> d]
            BY <1>1, <2>1, <2>2, <2>4, <2>5, <2>7 DEF Shows
        <3>5. Shows(i)' \in Store!Successors(Shows(i))
            BY <1>1, <3>1, <3>2, WrittenNext
        <3> QED
            BY <1>1, <2>2, <2>4, <3>5 DEF ShowsMore
    <2>9. /\ \A q \in Procs \ {p} : proc'[q] = proc[q] /\ writer'[q] = writer[q]
          /\ proc'[p].pc = "bump" /\ proc'[p].op = "write" /\ proc'[p].i = i
          /\ proc'[p].data = proc[p].data
        BY <1>4, <2>1, <2>6 DEF d
    <2>10. entry'[i].publish \div 2 > 0 => cell'[i][(entry'[i].publish \div 2) % 2].data
                                               = cell'[i][(entry'[i].publish \div 2) % 2].len
        BY <2>1, <2>5, <2>7
    <2> QED
        BY <1>0, <1>i, <2>1, <2>2, <2>3, <2>4, <2>5, <2>8, <2>9, <2>10, WriterStore
<1> QED
    BY <1>5, <1>6, <1>7

-----------------------------------------------------------------------------
(***************************************************************************)
(* The steps that touch no entry and are not a reader's.                   *)
(***************************************************************************)
\* Where a process may go without a store.
Moves(q) ==
    \/ proc'[q] = proc[q] /\ writer'[q] = writer[q]
    \/ /\ proc'[q].pc \notin ClaimPCs \cup {"put_data", "put_len", "done"}
       /\ proc'[q].pc \notin BusyPCs \/ (proc'[q].pc = "resolve" /\ proc'[q].i = 0)
       /\ proc'[q].op = "write" => proc'[q].data \in 1..MaxWrites

\* A step that stores nothing in the board keeps the invariant and every key.
LEMMA StillBoard ==
    ASSUME ReadInv, BoardInv', Watch, UNCHANGED <<entry, cell, cache>>,
           \A q \in Procs : alive'[q] => alive[q] /\ Moves(q),
           \A q \in Procs : Scope(q)' = Scope(q) \/ Scope(q) = {} \/ Scope(q)' = {}
    PROVE  ReadInv' /\ \A k \in Keys : Held(k)' = Held(k)
<1>1. /\ Typed /\ Typed' /\ Locals /\ Identified /\ CellsWhole /\ Writing /\ CachesFit /\ ReadersOK /\ Noted
    BY DEF ReadInv, BoardInv, LockInv
<1>2. PICK m \in Entries : m = 0
    BY BoardAssumption DEF Entries
<1>3. Alone(m)
    BY DEF Alone, Untouched
<1>4. ASSUME NEW j \in Entries PROVE Lawful(j)
    <2>1. entry'[j] = entry[j] /\ cell'[j] = cell[j] /\ entry[j].tenancy \in Nat
        BY <1>1, EntryFields DEF Typed
    <2>2. Resting(j) => Resting(j)'
        BY DEF Resting, Moves, ClaimPCs
    <2> QED
        BY <2>1, <2>2 DEF Lawful
<1>5. Identified'
    <2>1. \A q \in Procs : alive'[q] /\ proc'[q].pc \in {"reset", "name", "identify"} =>
              entry'[proc'[q].i].hash = NoKey
        BY <1>1 DEF Identified, Moves, ClaimPCs
    <2> QED
        BY <1>1, <2>1 DEF Identified
<1>6. CellsWhole'
    BY <1>1 DEF CellsWhole
<1>7. Writing'
    <2> SUFFICES ASSUME NEW q \in Procs, alive'[q]
                 PROVE  /\ proc'[q].op = "write" => proc'[q].data \in 1..MaxWrites
                        /\ proc'[q].pc \in {"put_data", "put_len", "done"} =>
                               entry'[proc'[q].i].publish = 2 * writer'[q].writes + 1
                        /\ proc'[q].pc \in {"put_len", "done"} =>
                               cell'[proc'[q].i][(writer'[q].writes + 1) % 2].data = proc'[q].data
                        /\ proc'[q].pc = "done" =>
                               cell'[proc'[q].i][(writer'[q].writes + 1) % 2].len = proc'[q].data
        BY DEF Writing, Target
    <2>1. CASE proc'[q] = proc[q] /\ writer'[q] = writer[q]
        BY <1>1, <2>1 DEF Writing, Target
    <2>2. CASE ~(proc'[q] = proc[q] /\ writer'[q] = writer[q])
        BY <2>2 DEF Moves
    <2> QED
        BY <2>1, <2>2
<1>8. Noted'
    BY <1>1, NotedKept
<1>9. CachesFit'
    BY <1>1, <1>4, CachesKept
<1>10. ReadersOK'
    BY <1>1, <1>3, <1>4, <1>5, <1>6, <1>8, ReadersKept DEF Moves
<1>11. \A k \in Keys : Held(k)' = Held(k)
    BY DEF Held
<1> QED
    BY <1>5, <1>6, <1>7, <1>8, <1>9, <1>10, <1>11 DEF ReadInv

\* If no call begins or ends in it, the key store stutters.
LEMMA StillStep ==
    ASSUME ReadInv, BoardInv', Watch, UNCHANGED <<entry, cell, cache>>,
           \A q \in Procs : alive'[q] => alive[q] /\ Moves(q), \A q \in Procs : GoesOn(q)
    PROVE  IsStoreStep
<1>1. ReadInv' /\ \A k \in Keys : Held(k)' = Held(k)
    BY StillBoard DEF GoesOn
<1>2. Noted /\ Locals
    BY DEF ReadInv, BoardInv, LockInv
<1>3. UNCHANGED Store!storeVars
    BY <1>1, <1>2, StoreStill
<1> QED
    BY <1>1, <1>3 DEF IsStoreStep

\* If a call begins in it, the key store is asked.
LEMMA AskStep ==
    ASSUME ReadInv, BoardInv', Watch, UNCHANGED <<entry, cell, cache, alive>>, NEW p \in Procs, alive[p],
           \A q \in Procs \ {p} : proc'[q] = proc[q] /\ writer'[q] = writer[q], Moves(p),
           proc[p].pc # "reply", proc'[p].pc # "reply", Scope(p) = {}, Scope(p)' # {}
    PROVE  IsStoreStep
<1>1. OthersGoOn(p) /\ \A q \in Procs \ {p} : Moves(q)
    BY SameGoesOn DEF OthersGoOn, Moves
<1>2. ReadInv' /\ \A k \in Keys : Held(k)' = Held(k)
    BY <1>1, StillBoard DEF GoesOn, OthersGoOn
<1>3. Noted /\ Locals /\ Locals'
    BY DEF ReadInv, BoardInv, LockInv
<1>4. StoreReply'[p] = StoreReply[p]
    BY DEF StoreReply
<1>5. Store!Ask(p)
    BY <1>1, <1>2, <1>3, <1>4, StoreAsk
<1> QED
    BY <1>2, <1>5 DEF IsStoreStep, Store!StoreNext

\* A step of a process outside its readings.
LEMMA QuietStep ==
    ASSUME ReadInv, BoardInv', Watch, UNCHANGED <<entry, cell, cache, alive>>, NEW p \in Procs,
           \A q \in Procs \ {p} : proc'[q] = proc[q] /\ writer'[q] = writer[q],
           \/ proc[p].op \notin {"read", "list", "snapshot"}
           \/ proc[p].op = "snapshot" /\ proc[p].pc \in {"lock", "unlock"},
           \/ proc'[p].op \notin {"read", "list", "snapshot"}
           \/ proc'[p].op = "snapshot" /\ proc'[p].pc \in {"lock", "unlock"},
           proc'[p].pc \notin ClaimPCs \cup {"put_data", "put_len", "done"},
           proc'[p].op = "write" => proc'[p].data \in 1..MaxWrites
    PROVE  IsStoreStep
<1>1. /\ proc[p] \in ProcType /\ proc'[p] \in ProcType /\ Placed(proc[p]) /\ Placed(proc'[p])
    BY DEF ReadInv, BoardInv, LockInv, Typed, Locals, LocalOK
<1>2. proc[p].pc # "reply" /\ proc'[p].pc # "reply"
    BY <1>1 DEF Placed, ProcType, Ops, ClaimPCs, WaitPCs
<1>3. proc'[p].pc \notin BusyPCs
    BY <1>1 DEF Placed, ProcType, Ops, ClaimPCs, WaitPCs, BusyPCs, ScanPCs, LoadPCs
<1>4. GoesOn(p)
    BY <1>2 DEF GoesOn, Scope, StoreReply
<1>5. Moves(p)
    BY <1>3 DEF Moves
<1>6. \A q \in Procs : Moves(q) /\ GoesOn(q)
    BY <1>4, <1>5, SameGoesOn DEF Moves
<1> QED
    BY <1>6, StillStep

\* What a move leaves of the locals.
LEMMA MoveFields ==
    ASSUME Typed, NEW p \in Procs, NEW pc, NEW i, NEW n, Goto(p, pc) \/ GotoWith(p, pc, i, n)
    PROVE  /\ \A q \in Procs \ {p} : proc'[q] = proc[q]
           /\ proc'[p].pc = pc /\ proc'[p].op = proc[p].op /\ proc'[p].data = proc[p].data
           /\ proc'[p].i = i \/ proc'[p].i = proc[p].i
<1>1. proc \in [Procs -> ProcType] /\ proc[p] \in ProcType
    BY DEF Typed
<1>2. \/ proc' = [proc EXCEPT ![p] = [proc[p] EXCEPT !.pc = pc]]
      \/ proc' = [proc EXCEPT ![p] = [proc[p] EXCEPT !.pc = pc, !.i = i, !.n = n]]
    BY <1>1 DEF Goto, GotoWith
<1> QED
    BY <1>1, <1>2, ZenonT(40) DEF ProcType

\* An idle process is between its calls.
LEMMA IdleIsNone ==
    ASSUME Typed, Locals, NEW p \in Procs, proc[p].pc = "idle"
    PROVE  proc[p].op = "none"
<1>1. proc[p] \in ProcType /\ Placed(proc[p])
    BY DEF Typed, Locals, LocalOK
<1> QED
    BY <1>1 DEF Placed, ProcType, Ops, ClaimPCs, WaitPCs, EntryPCs, ViewPCs

\* The locals a call begins with.
LEMMA StartLocals ==
    ASSUME Typed, NEW p \in Procs, NEW op, NEW k, NEW i, NEW pc, Start(p, op, k, i, pc)
    PROVE  /\ \A q \in Procs \ {p} : proc'[q] = proc[q]
           /\ proc'[p].pc = pc /\ proc'[p].op = op /\ proc'[p].key = k /\ proc'[p].i = i
           /\ op = "write" => proc'[p].data = used.write + 1
           /\ proc[p].pc = "idle" /\ alive[p]
<1> DEFINE x == [Rest EXCEPT !.pc = pc, !.op = op, !.key = k, !.i = i,
                             !.data = IF op = "write" THEN used.write + 1 ELSE 0]
<1>1. x.pc = pc /\ x.op = op /\ x.key = k /\ x.i = i /\ (op = "write" => x.data = used.write + 1)
    BY DEF Rest
<1>2. proc' = [proc EXCEPT ![p] = x] /\ proc[p].pc = "idle" /\ alive[p]
    BY DEF Start
<1> HIDE DEF x
<1> QED
    BY <1>1, <1>2 DEF Typed

-----------------------------------------------------------------------------
(***************************************************************************)
(* Calls begin, the lock changes hands, the waiters sleep and wake.        *)
(***************************************************************************)
\* The calls that begin without reading anything.
LEMMA StartStores ==
    ASSUME ReadInv, BoardInv', NEW p \in Procs,
           \/ \E k \in KeysOf[p] : StartDeclare(p, k)
           \/ StartSweep(p) \/ StartWrite(p) \/ StartRelease(p) \/ StartWait(p)
           \/ \E i \in Entries : StartSnapshot(p, i)
    PROVE  IsStoreStep
<1>1. Typed /\ Locals
    BY DEF ReadInv, BoardInv, LockInv
<1>2. Watch /\ UNCHANGED <<entry, cell, cache, alive, writer>> /\ proc[p].pc = "idle"
    BY DEF StartDeclare, StartSweep, StartWrite, StartRelease, StartWait, StartSnapshot, Start
<1>3. proc[p].op = "none"
    BY <1>1, <1>2, IdleIsNone
<1>4. /\ \A q \in Procs \ {p} : proc'[q] = proc[q]
      /\ \/ proc'[p].op \in {"declare", "sweep", "release", "snapshot"} /\ proc'[p].pc = "lock"
         \/ proc'[p].op = "write" /\ proc'[p].pc = "check" /\ proc'[p].data \in 1..MaxWrites
         \/ proc'[p].op = "wait" /\ proc'[p].pc = "look"
    <2>1. CASE \E k \in KeysOf[p] : StartDeclare(p, k)
        BY <1>1, <2>1, StartLocals DEF StartDeclare
    <2>2. CASE StartSweep(p)
        BY <1>1, <2>2, StartLocals DEF StartSweep
    <2>3. CASE StartWrite(p)
        <3>1. used.write + 1 \in 1..MaxWrites
            BY <1>1, <2>3, BoardAssumption DEF StartWrite, Typed, UsedType
        <3> QED
            BY <1>1, <2>3, <3>1, StartLocals DEF StartWrite
    <2>4. CASE StartRelease(p)
        BY <1>1, <2>4, StartLocals DEF StartRelease
    <2>5. CASE StartWait(p)
        <3> DEFINE x == [Rest EXCEPT !.pc = "look", !.op = "wait", !.publish = board.change]
        <3>1. x.pc = "look" /\ x.op = "wait"
            BY DEF Rest
        <3>2. proc' = [proc EXCEPT ![p] = x]
            BY <2>5 DEF StartWait
        <3> HIDE DEF x
        <3> QED
            BY <1>1, <3>1, <3>2 DEF Typed
    <2>6. CASE \E i \in Entries : StartSnapshot(p, i)
        BY <1>1, <2>6, StartLocals DEF StartSnapshot
    <2> QED
        BY <2>1, <2>2, <2>3, <2>4, <2>5, <2>6
<1> QED
    BY <1>2, <1>3, <1>4, QuietStep DEF ClaimPCs

\* The calls that read from the start.
LEMMA AskStores ==
    ASSUME ReadInv, BoardInv', NEW p \in Procs,
           \/ \E k \in KeysOf[p] : StartRead(p, k)
           \/ \E i \in Entries : StartList(p, i)
    PROVE  IsStoreStep
<1>1. Typed /\ Locals
    BY DEF ReadInv, BoardInv, LockInv
<1>2. /\ Watch /\ UNCHANGED <<entry, cell, cache, alive, writer>> /\ proc[p].pc = "idle" /\ alive[p]
    BY DEF StartRead, StartList, Start
<1>3. proc[p].op = "none"
    BY <1>1, <1>2, IdleIsNone
<1>4. /\ \A q \in Procs \ {p} : proc'[q] = proc[q]
      /\ \/ proc'[p].op = "read" /\ proc'[p].pc = "resolve" /\ proc'[p].i = 0
         \/ proc'[p].op = "list" /\ proc'[p].pc = "entry_state"
    <2>1. CASE \E k \in KeysOf[p] : StartRead(p, k)
        BY <1>1, <2>1, StartLocals DEF StartRead
    <2>2. CASE \E i \in Entries : StartList(p, i)
        BY <1>1, <2>2, StartLocals DEF StartList
    <2> QED
        BY <2>1, <2>2
<1>5. Moves(p)
    BY <1>4 DEF Moves, ClaimPCs, BusyPCs, ScanPCs, LoadPCs
<1>6. Scope(p) = {} /\ Scope(p)' # {}
    BY <1>2, <1>3, <1>4, BoardAssumption DEF Scope
<1> QED
    BY <1>2, <1>4, <1>5, <1>6, AskStep

\* The lock is taken: a snapshot begins to read the board.
LEMMA LockStores ==
    ASSUME ReadInv, BoardInv', NEW p \in Procs, LockFree(p) \/ LockSteal(p)
    PROVE  IsStoreStep
<1>1. Typed /\ Locals
    BY DEF ReadInv, BoardInv, LockInv
<1>2. /\ Watch /\ UNCHANGED <<entry, cell, cache, alive, writer>> /\ proc[p].pc = "lock" /\ alive[p]
    BY DEF LockFree, LockSteal, At
<1>3. /\ proc[p].op \in {"declare", "release", "sweep", "snapshot"}
    BY <1>1, <1>2 DEF Typed, Locals, LocalOK, Placed, ProcType, Ops, EntryPCs, ViewPCs, ClaimPCs, WaitPCs
<1>4. /\ \A q \in Procs \ {p} : proc'[q] = proc[q]
      /\ proc'[p].op = proc[p].op /\ (proc'[p].pc = Body(proc[p].op) \/ proc'[p].pc = "repair")
    BY <1>1, MoveFields DEF LockFree, LockSteal
<1>5. /\ proc[p].op # "snapshot" => Body(proc[p].op) \in {"find", "disown", "sweep"}
      /\ proc[p].op = "snapshot" => Body(proc[p].op) = "entry_state"
    BY <1>3 DEF Body
<1>6. CASE proc[p].op # "snapshot"
    BY <1>2, <1>3, <1>4, <1>5, <1>6, QuietStep DEF ClaimPCs
<1>7. CASE proc[p].op = "snapshot"
    <2>1. proc'[p].pc \in {"entry_state", "repair"}
        BY <1>4, <1>5, <1>7
    <2>2. Moves(p)
        BY <1>4, <1>7, <2>1 DEF Moves, ClaimPCs, BusyPCs, ScanPCs, LoadPCs
    <2>3. Scope(p) = {} /\ Scope(p)' # {}
        BY <1>2, <1>4, <1>7, <2>1, BoardAssumption DEF Scope
    <2> QED
        BY <1>2, <1>4, <2>1, <2>2, <2>3, AskStep
<1> QED
    BY <1>6, <1>7

\* The lock is given up, or not had.
LEMMA UnlockStores ==
    ASSUME ReadInv, BoardInv', NEW p \in Procs, LockBusy(p) \/ Unlock(p)
    PROVE  IsStoreStep
<1>1. Typed /\ Locals
    BY DEF ReadInv, BoardInv, LockInv
<1>2. /\ Watch /\ UNCHANGED <<entry, cell, cache, alive>> /\ proc[p].pc \in {"lock", "unlock"}
      /\ proc' = [proc EXCEPT ![p] = Rest]
    BY DEF LockBusy, Unlock, At
<1>3. \A q \in Procs \ {p} : writer'[q] = writer[q]
    BY <1>1 DEF LockBusy, Unlock, Typed
<1>4. /\ \A q \in Procs \ {p} : proc'[q] = proc[q]
      /\ proc'[p].op = "none" /\ proc'[p].pc = "idle"
    BY <1>1, <1>2, RestIsIdle, SetProc
<1>5. \/ proc[p].op \notin {"read", "list", "snapshot"}
      \/ proc[p].op = "snapshot" /\ proc[p].pc \in {"lock", "unlock"}
    BY <1>1, <1>2 DEF Typed, Locals, LocalOK, Placed, EntryPCs, ViewPCs
<1> QED
    BY <1>2, <1>3, <1>4, <1>5, QuietStep DEF ClaimPCs

\* The steps of the lock's holder and of a writer between their stores.
LEMMA PlainStores ==
    ASSUME ReadInv, BoardInv', NEW p \in Procs,
           FindHeld(p) \/ FindFree(p) \/ SweepDone(p) \/ Bump(p) \/ WriteCheck(p)
    PROVE  IsStoreStep
<1>1. Typed /\ Locals /\ Writing
    BY DEF ReadInv, BoardInv, LockInv
<1>2. /\ Watch /\ UNCHANGED <<entry, cell, cache, alive, writer>> /\ alive[p]
      /\ proc[p].pc \in {"find", "sweep", "bump", "check"}
    BY DEF FindHeld, FindFree, SweepDone, Bump, WriteCheck, At
<1>3. proc[p].op \notin {"read", "list", "snapshot"}
    BY <1>1, <1>2 DEF Typed, Locals, LocalOK, Placed, EntryPCs, ViewPCs
<1>4. \/ /\ proc'[p].op = proc[p].op /\ proc'[p].data = proc[p].data
         /\ proc'[p].pc \in {"own", "unlock", "claim", "sweep", "bump", "wake", "mark"}
         /\ \A q \in Procs \ {p} : proc'[q] = proc[q]
      \/ proc' = [proc EXCEPT ![p] = Rest]
    BY <1>1, MoveFields DEF FindHeld, FindFree, SweepDone, Bump, WriteCheck
<1>5. /\ \A q \in Procs \ {p} : proc'[q] = proc[q]
      /\ proc'[p].op \notin {"read", "list", "snapshot"}
      /\ proc'[p].pc \notin ClaimPCs \cup {"put_data", "put_len", "done"}
      /\ proc'[p].op = "write" => proc'[p].data = proc[p].data /\ proc[p].op = "write"
    BY <1>1, <1>3, <1>4, RestIsIdle, SetProc DEF ClaimPCs
<1>6. proc[p].op = "write" => proc[p].data \in 1..MaxWrites
    BY <1>1, <1>2 DEF Writing
<1> QED
    BY <1>2, <1>3, <1>5, <1>6, QuietStep

\* wait() looks at the change count alone.
LEMMA WaitStores ==
    ASSUME ReadInv, BoardInv', NEW p \in Procs,
           Look(p) \/ Enlist(p) \/ Relook(p) \/ FutexWait(p) \/ TimeOut(p) \/ Leave(p)
    PROVE  IsStoreStep
<1>1. Typed /\ Locals
    BY DEF ReadInv, BoardInv, LockInv
<1>2. /\ Watch /\ UNCHANGED <<entry, cell, cache, alive, writer>>
      /\ proc[p].pc \in {"look", "enlist"} \cup WaitPCs
    BY DEF Look, Enlist, Relook, FutexWait, TimeOut, Leave, Load, At, WaitPCs
<1>3. proc[p].op = "wait" /\ proc[p] \in ProcType
    BY <1>1, <1>2 DEF Typed, Locals, LocalOK, Placed, ProcType, Ops, EntryPCs, ViewPCs, ClaimPCs, WaitPCs
<1>4. PICK q \in ProcType : q = proc[p]
    BY <1>3
<1>5. \/ proc' = [proc EXCEPT ![p] = Rest]
      \/ \E pc \in {"look", "enlist"} \cup WaitPCs :
             \/ proc' = [proc EXCEPT ![p] = [q EXCEPT !.pc = pc]]
             \/ proc' = [proc EXCEPT ![p] = [q EXCEPT !.pc = pc, !.fresh = TRUE]]
    BY <1>1, <1>4 DEF Look, Enlist, Relook, FutexWait, TimeOut, Leave, Load, Goto, Typed, WaitPCs
<1>6. ASSUME NEW pc
      PROVE  /\ [q EXCEPT !.pc = pc].pc = pc /\ [q EXCEPT !.pc = pc].op = "wait"
             /\ [q EXCEPT !.pc = pc, !.fresh = TRUE].pc = pc /\ [q EXCEPT !.pc = pc, !.fresh = TRUE].op = "wait"
    BY <1>3, <1>4 DEF ProcType
<1>7. /\ \A r \in Procs \ {p} : proc'[r] = proc[r]
      /\ \/ proc'[p].op = "none" /\ proc'[p].pc = "idle"
         \/ proc'[p].op = "wait" /\ proc'[p].pc \in {"look", "enlist"} \cup WaitPCs
    <2>1. CASE proc' = [proc EXCEPT ![p] = Rest]
        BY <1>1, <2>1, RestIsIdle, SetProc
    <2>2. CASE proc' # [proc EXCEPT ![p] = Rest]
        <3>1. PICK pc \in {"look", "enlist"} \cup WaitPCs :
                  \/ proc' = [proc EXCEPT ![p] = [q EXCEPT !.pc = pc]]
                  \/ proc' = [proc EXCEPT ![p] = [q EXCEPT !.pc = pc, !.fresh = TRUE]]
            BY <1>5, <2>2
        <3>2. PICK x : /\ proc' = [proc EXCEPT ![p] = x]
                       /\ x = [q EXCEPT !.pc = pc] \/ x = [q EXCEPT !.pc = pc, !.fresh = TRUE]
            BY <3>1
        <3>3. x.pc = pc /\ x.op = "wait"
            BY <1>6, <3>2
        <3> QED
            BY <1>1, <3>2, <3>3 DEF Typed
    <2> QED
        BY <2>1, <2>2
<1> QED
    BY <1>2, <1>3, <1>7, QuietStep DEF ClaimPCs, WaitPCs

\* The wake of a change moves the sleepers too.
LEMMA WakeStore ==
    ASSUME ReadInv, BoardInv', NEW p \in Procs, Wake(p)
    PROVE  IsStoreStep
<1>1. Typed /\ Locals /\ BoardInv
    BY DEF ReadInv, BoardInv, LockInv
<1>2. /\ Watch /\ UNCHANGED <<entry, cell, cache, alive, writer>> /\ proc[p].pc = "wake"
    BY DEF Wake, At
<1>3. ASSUME NEW q \in Procs PROVE Moves(q) /\ GoesOn(q)
    <2>1. PICK x \in ProcType : x = proc[q]
        BY <1>1 DEF Typed
    <2>2. Placed(x)
        BY <1>1, <2>1 DEF Locals, LocalOK
    <2>3. CASE proc'[q] = proc[q]
        BY <1>2, <2>3, SameGoesOn DEF Moves
    <2>4. CASE proc'[q] # proc[q]
        <3>1. \/ proc'[q] = Rest /\ x.pc = "wake"
              \/ proc'[q] = [x EXCEPT !.pc = "unlock"] /\ x.pc = "wake" /\ x.op # "write"
              \/ proc'[q] = [x EXCEPT !.pc = "leave"] /\ x.pc = "asleep"
            <4>1. proc'[q] = IF q = p THEN (IF x.op = "write" THEN Rest ELSE [x EXCEPT !.pc = "unlock"])
                             ELSE IF board.waiters # 0 /\ x.pc = "asleep" THEN [x EXCEPT !.pc = "leave"]
                             ELSE x
                BY <2>1 DEF Wake
            <4> QED
                BY <1>2, <2>1, <2>4, <4>1
        <3>2. /\ [x EXCEPT !.pc = "unlock"].pc = "unlock" /\ [x EXCEPT !.pc = "unlock"].op = x.op
              /\ [x EXCEPT !.pc = "leave"].pc = "leave" /\ [x EXCEPT !.pc = "leave"].op = x.op
            BY DEF ProcType
        <3>3. x.op \notin {"read", "list", "snapshot"} /\ (x.pc = "asleep" => x.op = "wait")
            BY <2>2, <3>1 DEF Placed, EntryPCs, ViewPCs, ClaimPCs, ProcType, Ops
        <3>4. /\ proc'[q].pc \in {"idle", "unlock", "leave"}
              /\ proc'[q].op \notin {"read", "list", "snapshot", "write"}
            <4>1. CASE proc'[q] = Rest
                BY <4>1, RestIsIdle
            <4>2. CASE proc'[q] # Rest
                <5>1. PICK y : proc'[q] = y
                    OBVIOUS
                <5>2. y.pc \in {"unlock", "leave"} /\ y.op = x.op /\ x.op # "write"
                    BY <3>1, <3>2, <3>3, <4>2, <5>1
                <5> QED
                    BY <3>3, <5>1, <5>2
            <4> QED
                BY <4>1, <4>2
        <3>5. Moves(q)
            BY <3>4 DEF Moves, ClaimPCs, BusyPCs, ScanPCs, LoadPCs
        <3> QED
            BY <1>1, <1>2, <2>1, <3>3, <3>4, <3>5, QuietGoesOn
    <2> QED
        BY <2>3, <2>4
<1> QED
    BY <1>2, <1>3, StillStep

\* A process dies: its call ends, whatever it was about to answer.
LEMMA CrashStore ==
    ASSUME ReadInv, BoardInv', NEW p \in Procs, Crash(p)
    PROVE  IsStoreStep
<1>1. Typed /\ Locals /\ Noted
    BY DEF ReadInv, BoardInv, LockInv
<1>2. /\ Watch /\ UNCHANGED <<entry, cell, cache, proc, writer>> /\ alive[p]
      /\ ~alive'[p] /\ \A q \in Procs \ {p} : alive'[q] = alive[q]
    BY <1>1 DEF Crash, Typed
<1>3. OthersGoOn(p) /\ \A q \in Procs : Moves(q)
    BY <1>2, SameGoesOn DEF OthersGoOn, Moves
<1>4. Scope(p)' = {} /\ StoreReply'[p] = Store!NoReply
    BY <1>2 DEF Scope, StoreReply, Store!NoReply
<1>5. ReadInv' /\ \A k \in Keys : Held(k)' = Held(k)
    <2>1. \A q \in Procs : Scope(q)' = Scope(q) \/ Scope(q) = {} \/ Scope(q)' = {}
        BY <1>3, <1>4 DEF OthersGoOn, GoesOn
    <2>2. \A q \in Procs : alive'[q] => alive[q] /\ Moves(q)
        BY <1>2, <1>3
    <2> QED
        BY <1>2, <2>1, <2>2, StillBoard
<1>6. CASE Scope(p) # {}
    <2>1. Store!Return(p)
        BY <1>1, <1>2, <1>3, <1>4, <1>5, <1>6, StoreReturn
    <2> QED
        BY <1>5, <2>1 DEF IsStoreStep, Store!StoreNext
<1>7. CASE Scope(p) = {}
    <2>1. proc[p].pc # "reply"
        <3>1. proc[p].pc = "reply" => proc[p].pc \in ScanPCs \cup EntryPCs
            BY DEF EntryPCs, ViewPCs
        <3> QED
            BY <1>1, <1>2, <1>7, <3>1, InScope
    <2>2. GoesOn(p)
        BY <1>4, <1>7, <2>1 DEF GoesOn, StoreReply, Store!NoReply
    <2>3. UNCHANGED Store!storeVars
        BY <1>1, <1>2, <1>3, <1>5, <2>2, StoreStill DEF OthersGoOn
    <2> QED
        BY <1>5, <2>3 DEF IsStoreStep
<1> QED
    BY <1>6, <1>7

\* Nothing happens.
LEMMA StutterStore ==
    ASSUME ReadInv, BoardInv', UNCHANGED vars
    PROVE  IsStoreStep
<1>1. Noted /\ UNCHANGED <<entry, cell, proc, writer, cache, alive, seen>>
    BY DEF ReadInv, vars
<1>2. \A p \in Procs : Scope(p)' = Scope(p)
    BY <1>1 DEF Scope
<1>3. \A k : Held(k)' = Held(k)
    BY <1>1 DEF Held
<1>4. Watch
    <2>1. ASSUME NEW p \in Procs
          PROVE  seen[p] = IF Scope(p)' = {} THEN {} ELSE seen[p] \cup {<<k, Held(k)'>> : k \in Scope(p)'}
        <3>1. CASE Scope(p) = {}
            BY <1>1, <1>2, <3>1 DEF Noted, Store!Asked
        <3>2. CASE Scope(p) # {}
            <4>1. \A k \in Scope(p)' : <<k, Held(k)'>> \in seen[p]
                BY <1>1, <1>2, <1>3 DEF Noted
            <4> QED
                BY <1>2, <3>2, <4>1
        <3> QED
            BY <3>1, <3>2
    <2>2. seen' = [p \in Procs |-> seen[p]]
        BY <1>1 DEF Noted
    <2> QED
        BY <2>1, <2>2 DEF Watch
<1>5. \A p \in Procs : alive'[p] => alive[p] /\ Moves(p)
    BY <1>1 DEF Moves
<1>6. \A p \in Procs : GoesOn(p)
    BY <1>1, SameGoesOn
<1> QED
    BY <1>1, <1>4, <1>5, <1>6, StillStep

-----------------------------------------------------------------------------
(***************************************************************************)
(* The loads of the readers themselves.                                    *)
(***************************************************************************)
\* A reader moves, and nothing else but its own cache, which it may trust.
Loads(p, x) ==
    /\ alive[p] /\ proc[p].pc \in ScanPCs \cup EntryPCs
    /\ proc' = [proc EXCEPT ![p] = x]
    /\ \A r \in Procs \ {p} : cache'[r] = cache[r]
    /\ \A k \in Keys : cache'[p][k].idx # NoEntry => Fits(cache'[p][k].idx, cache'[p][k].tenancy, k)
    /\ UNCHANGED <<entry, cell, writer, alive>>
    /\ Watch

\* What a reader relies on is no matter of time.
LEMMA SeesSame ==
    ASSUME UNCHANGED <<entry, cell>>, NEW p \in Procs, seen'[p] = seen[p],
           \A i \in Entries : Resting(i)' <=> Resting(i),
           NEW y \in ProcType, y.pc # "scan" => y.i \in Entries, ReaderSees(p, y), SnapshotOK(p, y)
    PROVE  ReaderSees(p, y)' /\ SnapshotOK(p, y)'
<1>1. \A k : Store!Met(p, k)' = Store!Met(p, k)
    BY DEF Store!Met
<1>2. \A k : Missed(p, k)' <=> Missed(p, k)
    BY <1>1 DEF Missed
<1>3. \A k, n, v : HasMet(p, k, n, v)' <=> HasMet(p, k, n, v)
    BY <1>1 DEF HasMet
<1>4. \A i : Recorded(p, i)' <=> Recorded(p, i)
    BY <1>3 DEF Recorded
<1>5. \A i, k : Bears(i, k)' <=> Bears(i, k)
    BY DEF Bears
<1>6. \A i \in Entries : \A t, k : Fits(i, t, k)' <=> Fits(i, t, k)
    BY DEF Fits
<1>7. y.i \in Entries => (Sound(p, y)' <=> Sound(p, y))
    BY <1>3 DEF Sound
<1>8. SnapshotOK(p, y)'
    BY <1>1 DEF SnapshotOK
<1>9. ReaderSees(p, y)'
    BY <1>2, <1>3, <1>4, <1>5, <1>6, <1>7 DEF ReaderSees, LoadPCs
<1> QED
    BY <1>8, <1>9

\* A reader that knows where it stands leaves the invariant in place.
LEMMA LoadBoard ==
    ASSUME ReadInv, BoardInv', NEW p \in Procs, NEW x \in ProcType, Loads(p, x),
           x.pc \notin ClaimPCs \cup {"put_data", "put_len", "done"}, x.op # "write",
           Scope(p)' = Scope(p) \/ (Scope(p)' = {} /\ x.pc \notin BusyPCs),
           x.pc \in BusyPCs => ReaderSees(p, x) /\ SnapshotOK(p, x),
           x.pc = "before" => cache'[p][x.key].idx = x.i
    PROVE  /\ ReadInv' /\ OthersGoOn(p) /\ Noted /\ Watch /\ Locals
           /\ \A k \in Keys : Held(k)' = Held(k)
<1>1. /\ Typed /\ Typed' /\ Locals /\ Locals' /\ Identified /\ CellsWhole /\ Writing /\ ReadersOK /\ Noted
    BY DEF ReadInv, BoardInv, LockInv
<1>2. /\ \A r \in Procs \ {p} : proc'[r] = proc[r] /\ cache'[r] = cache[r]
      /\ proc'[p] = x /\ alive[p] /\ UNCHANGED <<entry, cell, writer, alive>> /\ Watch
      /\ proc[p].pc \notin ClaimPCs
    BY <1>1, SetProc DEF Loads, ScanPCs, EntryPCs, ViewPCs, ClaimPCs
<1>3. \A k \in Keys : Held(k)' = Held(k)
    BY <1>2 DEF Held
<1>4. OthersGoOn(p)
    BY <1>2, SameGoesOn DEF OthersGoOn
<1>5. Noted'
    BY <1>1, <1>2, <1>4, NotedKept DEF OthersGoOn, GoesOn
<1>6. \A i \in Entries : Resting(i)' <=> Resting(i)
    BY <1>2 DEF Resting, ClaimPCs
<1>7. Identified'
    <2>1. \A r \in Procs : alive'[r] /\ proc'[r].pc \in {"reset", "name", "identify"} =>
              entry'[proc'[r].i].hash = NoKey
        BY <1>1, <1>2 DEF Identified, ClaimPCs
    <2> QED
        BY <1>1, <1>2, <2>1 DEF Identified
<1>8. CellsWhole'
    BY <1>1, <1>2 DEF CellsWhole
<1>9. Writing'
    <2>1. \A r \in Procs \ {p} : Target(r)' = Target(r)
        BY <1>2 DEF Target
    <2> QED
        BY <1>1, <1>2, <2>1 DEF Writing
<1>10. ReadersOK'
    <2> SUFFICES ASSUME NEW r \in Procs, alive'[r] PROVE ReaderOK(r, proc[r])' /\ SnapshotOK(r, proc[r])'
        BY DEF ReadersOK
    <2>1. PICK y \in ProcType : y = proc'[r]
        BY <1>1 DEF Typed
    <2>2. y.pc \in BusyPCs => ReaderSees(r, y) /\ SnapshotOK(r, y) /\ Scope(r)' = Scope(r)
        BY <1>1, <1>2, <1>4, <2>1 DEF ReadersOK, ReaderOK, OthersGoOn, GoesOn
    <2>3. y.pc = "before" => cache'[r][y.key].idx = y.i
        BY <1>1, <1>2, <2>1 DEF ReadersOK, ReaderOK
    <2>4. CASE y.pc \notin BusyPCs
        BY <2>1, <2>4 DEF ReaderOK, ReaderSees, SnapshotOK, BusyPCs, ScanPCs, LoadPCs
    <2>5. CASE y.pc \in BusyPCs
        <3>1. y.pc # "scan" => y.i \in Entries
            <4>1. LocalOK(y, writer'[r])
                BY <1>1, <2>1 DEF Locals
            <4> QED
                BY <2>5, <4>1, BoardAssumption
                   DEF LocalOK, BusyPCs, ScanPCs, LoadPCs, ProcType, Entries, NoEntry
        <3>2. seen'[r] = seen[r]
            BY <1>1, <1>2, <1>3, <2>2, <2>5, SeenStays, ScopeIsKeys
        <3>3. ReaderSees(r, y)' /\ SnapshotOK(r, y)'
            BY <1>2, <1>6, <2>2, <2>5, <3>1, <3>2, SeesSame
        <3> QED
            BY <2>1, <2>3, <3>3 DEF ReaderOK
    <2> QED
        BY <2>4, <2>5
<1>11. CachesFit'
    <2> SUFFICES ASSUME NEW r \in Procs, NEW k \in Keys, cache'[r][k].idx # NoEntry
                 PROVE  Fits(cache[r][k].idx, cache[r][k].tenancy, k)'
        BY DEF CachesFit
    <2>1. PICK i, t : i = cache'[r][k].idx /\ t = cache'[r][k].tenancy
        OBVIOUS
    <2>2. i \in Entries
        <3>1. cache'[r][k] \in [idx : 0..Capacity, tenancy : Nat]
            BY <1>1 DEF Typed
        <3>2. i \in 0..Capacity /\ i # NoEntry
            BY <2>1, <3>1
        <3> QED
            BY <3>2, BoardAssumption DEF Entries, NoEntry
    <2>3. Fits(i, t, k)
        BY <1>2, <2>1 DEF Loads, ReadInv, CachesFit
    <2>4. Fits(i, t, k)'
        BY <1>2, <1>6, <2>2, <2>3 DEF Fits
    <2> QED
        BY <2>1, <2>4
<1>12. ReadInv'
    BY <1>5, <1>7, <1>8, <1>9, <1>10, <1>11 DEF ReadInv
<1> QED
    BY <1>1, <1>2, <1>3, <1>4, <1>12

\* The call goes on.
LEMMA LoadOn ==
    ASSUME ReadInv, BoardInv', NEW p \in Procs, NEW x \in ProcType, Loads(p, x),
           proc[p].pc # "reply", x.pc \in (ScanPCs \cup EntryPCs) \ {"reply"},
           x.op = proc[p].op, x.op = "read" => x.key = proc[p].key,
           x.pc \in BusyPCs => ReaderSees(p, x) /\ SnapshotOK(p, x),
           x.pc = "before" => cache'[p][x.key].idx = x.i
    PROVE  IsStoreStep
<1>1. Typed /\ Locals
    BY DEF ReadInv, BoardInv, LockInv
<1>2. proc'[p] = x /\ alive'[p] = alive[p]
    BY <1>1, SetProc DEF Loads
<1>3. /\ x.pc \notin ClaimPCs \cup {"put_data", "put_len", "done", "lock", "unlock"}
      /\ proc[p].pc \notin {"lock", "unlock"}
    BY DEF Loads, ScanPCs, EntryPCs, ViewPCs, ClaimPCs
<1>4. x.op # "write"
    BY <1>1, ReaderAt DEF Loads
<1>5. Scope(p)' = Scope(p) /\ StoreReply'[p] = StoreReply[p]
    BY <1>2, <1>3 DEF Scope, StoreReply
<1>6. /\ ReadInv' /\ OthersGoOn(p) /\ Noted /\ Watch
      /\ \A k \in Keys : Held(k)' = Held(k)
    BY <1>3, <1>4, <1>5, LoadBoard
<1>7. UNCHANGED Store!storeVars
    BY <1>1, <1>5, <1>6, StoreStill DEF OthersGoOn, GoesOn
<1> QED
    BY <1>6, <1>7 DEF IsStoreStep

\* The call answers.
LEMMA LoadAnswer ==
    ASSUME ReadInv, BoardInv', NEW p \in Procs, NEW x \in ProcType, Loads(p, x),
           proc[p].pc # "reply", x.pc = "reply", x.kind # "none",
           x.op = proc[p].op, x.op = "read" => x.key = proc[p].key,
           Store!Allowed(p, [kind |-> x.kind, key |-> x.key, count |-> x.publish \div 2,
                             len |-> x.len, data |-> x.data])
    PROVE  IsStoreStep
<1> DEFINE a == [kind |-> x.kind, key |-> x.key, count |-> x.publish \div 2, len |-> x.len, data |-> x.data]
<1>1. Typed /\ Locals /\ alive[p] /\ proc[p].pc \in ScanPCs \cup EntryPCs
    BY DEF ReadInv, BoardInv, LockInv, Loads
<1>2. proc'[p] = x /\ alive'[p]
    BY <1>1, SetProc DEF Loads
<1>3. /\ x.pc \notin ClaimPCs \cup {"put_data", "put_len", "done", "lock", "unlock"} \cup BusyPCs \cup {"before"}
      /\ proc[p].pc \notin {"lock", "unlock"}
    BY <1>1 DEF ScanPCs, EntryPCs, ViewPCs, ClaimPCs, BusyPCs, LoadPCs
<1>4. x.op # "write"
    BY <1>1, ReaderAt
<1>5. Scope(p)' = Scope(p) /\ Scope(p) # {}
    BY <1>1, <1>2, <1>3, InScope DEF Scope
<1>6. StoreReply[p] = Store!NoReply /\ StoreReply'[p] = a
    BY <1>2 DEF StoreReply, Store!NoReply
<1>7. a # Store!NoReply
    BY DEF Store!NoReply
<1>8. /\ ReadInv' /\ OthersGoOn(p) /\ Noted /\ Watch
      /\ \A k \in Keys : Held(k)' = Held(k)
    BY <1>3, <1>4, <1>5, LoadBoard
<1>9. Store!Answer(p)
    BY <1>1, <1>5, <1>6, <1>7, <1>8, StoreAnswer
<1> QED
    BY <1>8, <1>9 DEF IsStoreStep, Store!StoreNext

\* The call returns; a snapshot still has to let go of the lock.
LEMMA LoadReturn ==
    ASSUME ReadInv, BoardInv', NEW p \in Procs, NEW x \in ProcType, Loads(p, x),
           x = Rest \/ (x.op = "snapshot" /\ x.pc = "unlock")
    PROVE  IsStoreStep
<1>1. Typed /\ Locals /\ alive[p] /\ proc[p].pc \in ScanPCs \cup EntryPCs
    BY DEF ReadInv, BoardInv, LockInv, Loads
<1>2. proc'[p] = x /\ alive'[p]
    BY <1>1, SetProc DEF Loads
<1>3. (x.pc = "idle" /\ x.op = "none") \/ (x.op = "snapshot" /\ x.pc = "unlock")
    BY RestIsIdle
<1>4. /\ x.pc \notin ClaimPCs \cup {"put_data", "put_len", "done"} \cup BusyPCs \cup {"before", "reply"}
      /\ x.op # "write"
    BY <1>3 DEF ScanPCs, ClaimPCs, BusyPCs, LoadPCs
<1>5. Scope(p)' = {} /\ Scope(p) # {}
    <2>1. Scope(p) # {}
        BY <1>1, InScope
    <2> QED
        BY <1>2, <1>3, <2>1 DEF Scope
<1>6. StoreReply'[p] = Store!NoReply
    BY <1>2, <1>4 DEF StoreReply, Store!NoReply
<1>7. /\ ReadInv' /\ OthersGoOn(p) /\ Noted /\ Watch
      /\ \A k \in Keys : Held(k)' = Held(k)
    BY <1>4, <1>5, LoadBoard
<1>8. Store!Return(p)
    BY <1>1, <1>5, <1>6, <1>7, StoreReturn
<1> QED
    BY <1>7, <1>8 DEF IsStoreStep, Store!StoreNext

\* The call starts over, or gives up.
LEMMA LoadRetry ==
    ASSUME ReadInv, BoardInv', NEW p \in Procs, NEW q \in ProcType, q = proc[p], q.pc \notin {"scan", "reply"},
           Loads(p, Retry(q))
    PROVE  IsStoreStep
<1>1. Typed /\ Locals /\ q.pc \in ScanPCs \cup EntryPCs
    BY DEF ReadInv, BoardInv, LockInv, Loads
<1>2. /\ q.op \in {"read", "list", "snapshot"} /\ q.i # NoEntry /\ (q.op = "read" => q.key \in Keys)
    BY <1>1, ReaderAt
<1>3. PICK x \in ProcType : x = Retry(q)
    BY <1>2, RetryFields
<1>4. x.op = q.op
    BY <1>2, <1>3, RetryFields
<1>5. CASE q.n + 1 < RetryBudget
    <2>1. PICK pc, key, i, n : /\ pc = IF q.op = "read" THEN "resolve" ELSE "entry_state"
                               /\ key = IF q.op = "read" THEN q.key ELSE NoKey
                               /\ i = IF q.op = "read" THEN 0 ELSE q.i
                               /\ n = q.n + 1
        OBVIOUS
    <2>2. x = [Rest EXCEPT !.op = q.op, !.n = n, !.pc = pc, !.key = key, !.i = i]
        BY <1>3, <1>5, <2>1 DEF Retry
    <2>3. x.pc = pc /\ x.key = key /\ x.i = i
        BY <2>2 DEF Rest
    <2>4. ReaderSees(p, x) /\ SnapshotOK(p, x) /\ x.pc # "before"
        BY <2>1, <2>3 DEF ReaderSees, SnapshotOK, LoadPCs
    <2>5. x.pc \in (ScanPCs \cup EntryPCs) \ {"reply"}
        BY <2>1, <2>3 DEF ScanPCs, EntryPCs
    <2>6. x.op = "read" => x.key = q.key
        BY <1>4, <2>1, <2>3
    <2> QED
        BY <1>3, <1>4, <2>4, <2>5, <2>6, LoadOn
<1>6. CASE ~(q.n + 1 < RetryBudget)
    <2>1. x = [q EXCEPT !.pc = "reply", !.kind = "again"]
        BY <1>3, <1>6 DEF Retry, Reply
    <2>2. x.pc = "reply" /\ x.kind = "again" /\ x.key = q.key
        BY <2>1 DEF ProcType
    <2>3. Store!Allowed(p, [kind |-> x.kind, key |-> x.key, count |-> x.publish \div 2,
                            len |-> x.len, data |-> x.data])
        BY <2>2 DEF Store!Allowed
    <2> QED
        BY <1>3, <1>4, <2>2, <2>3, LoadAnswer
<1> QED
    BY <1>5, <1>6

\* What a key shows, a call about it has met: an entry bears the key, or the
\* key is going or gone.
LEMMA BorneOrMissed ==
    ASSUME Identified, Noted, NEW p \in Procs, NEW k \in Keys, k \in Scope(p)
    PROVE  Missed(p, k) \/ \E j \in Entries : Bears(j, k)
<1>1. Held(k) \in Store!Met(p, k)
    BY MetNow
<1>2. CASE Held(k).there = "yes"
    BY <1>2, ThereIsBorne
<1>3. CASE Held(k).there # "yes"
    BY <1>1, <1>3 DEF Missed
<1> QED
    BY <1>2, <1>3

\* An Active entry of the key bears it, or the call meets it going.
LEMMA ActiveBearsOrMissed ==
    ASSUME Identified, Noted, NEW p \in Procs, NEW k \in Keys, k \in Scope(p), NEW i \in Entries,
           entry[i].state = "Active", entry[i].key = k
    PROVE  Missed(p, k) \/ Bears(i, k)
<1>1. Held(k) \in Store!Met(p, k) /\ Held(k) = Shows(i)
    BY MetNow, HeldShown
<1>2. entry[i].hash # k => Held(k).there # "yes"
    BY <1>1 DEF Shows
<1> QED
    BY <1>1, <1>2 DEF Missed, Bears

\* A reader at work, and what it relies on.
LEMMA Reading ==
    ASSUME ReadInv, NEW p \in Procs, alive[p], proc[p].pc \in ScanPCs \cup EntryPCs
    PROVE  /\ Typed /\ Locals /\ Identified /\ CellsWhole /\ CachesFit /\ Noted
           /\ ReaderSees(p, proc[p]) /\ SnapshotOK(p, proc[p])
           /\ proc[p].pc = "before" => cache[p][proc[p].key].idx = proc[p].i
           /\ Scope(p) = IF proc[p].op = "read" THEN {proc[p].key} ELSE Keys
<1>1. Typed /\ Locals /\ Identified /\ CellsWhole /\ CachesFit /\ Noted /\ ReadersOK
    BY DEF ReadInv, BoardInv, LockInv
<1>2. ReaderOK(p, proc[p]) /\ SnapshotOK(p, proc[p])
    BY <1>1 DEF ReadersOK
<1> QED
    BY <1>1, <1>2, InScope DEF ReaderOK

\* A load of the reader alone.
LEMMA LoadIsLoads ==
    ASSUME ReadInv, NEW p \in Procs, NEW pc \in ScanPCs \cup EntryPCs, NEW x, Load(p, pc, x)
    PROVE  Loads(p, x) /\ cache' = cache /\ alive[p] /\ proc[p].pc = pc
<1>1. CachesFit /\ cache' = cache
    BY DEF ReadInv, Load
<1> QED
    BY <1>1 DEF Load, Loads, At, CachesFit

\* The locals of a reader that goes on to another program counter ...
LEMMA PcLocals ==
    ASSUME NEW q \in ProcType, NEW pc, pc \in PCs
    PROVE  \E x \in ProcType : /\ x = [q EXCEPT !.pc = pc]
                               /\ x.pc = pc /\ x.op = q.op /\ x.key = q.key /\ x.i = q.i
                               /\ x.tenancy = q.tenancy /\ x.publish = q.publish
                               /\ x.len = q.len /\ x.data = q.data
<1>1. PICK x : x = [q EXCEPT !.pc = pc]
    OBVIOUS
<1>2. /\ x \in ProcType
      /\ x.pc = pc /\ x.op = q.op /\ x.key = q.key /\ x.i = q.i
      /\ x.tenancy = q.tenancy /\ x.publish = q.publish /\ x.len = q.len /\ x.data = q.data
    BY <1>1 DEF ProcType
<1> QED
    BY <1>1, <1>2

\* ... or to the next entry of its scan.
LEMMA NextLocals ==
    ASSUME NEW q \in ProcType, q.i \in Entries
    PROVE  \E y \in ProcType :
               y = NextEntry(q) /\ y.pc = "scan" /\ y.op = q.op /\ y.key = q.key /\ y.i = q.i + 1
<1>1. q.i + 1 \in 0..Capacity /\ "scan" \in PCs
    BY BoardAssumption DEF Entries, PCs
<1>2. PICK y, j : j = q.i + 1 /\ y = [q EXCEPT !.pc = "scan", !.i = j]
    OBVIOUS
<1>3. y = NextEntry(q)
    BY <1>2 DEF NextEntry, ProcType
<1>4. y \in ProcType /\ y.pc = "scan" /\ y.op = q.op /\ y.key = q.key /\ y.i = j
    BY <1>1, <1>2 DEF ProcType
<1> QED
    BY <1>2, <1>3, <1>4

\* The scan goes on: what it has not met lies ahead.
LEMMA ScanOn ==
    ASSUME ReadInv, BoardInv', NEW p \in Procs, NEW x \in ProcType, Loads(p, x), proc[p].pc \in ScanPCs,
           x.pc \in {"scan", "scan_hash"}, x.op = "read", x.key = proc[p].key,
           Missed(p, x.key) \/ \E j \in Entries : j >= x.i /\ Bears(j, x.key)
    PROVE  IsStoreStep
<1>1. proc[p].op = "read" /\ proc[p].pc # "reply"
    BY ReaderAt DEF ReadInv, BoardInv, LockInv, Loads, ScanPCs
<1>2. ReaderSees(p, x) /\ SnapshotOK(p, x)
    BY DEF ReaderSees, SnapshotOK, LoadPCs
<1> QED
    BY <1>1, <1>2, LoadOn DEF ScanPCs

\* The scan has found the key's entry.
LEMMA ScanFound ==
    ASSUME ReadInv, BoardInv', NEW p \in Procs, NEW x \in ProcType, Loads(p, x), proc[p].pc \in ScanPCs,
           x.pc \in {"scan_tenancy", "scan_key", "before", "publish"}, x.op = "read", x.key = proc[p].key,
           Missed(p, x.key) \/ Bears(x.i, x.key),
           entry[x.i].key = x.key => Recorded(p, x.i),
           x.pc = "scan_key" => entry[x.i].tenancy >= x.tenancy,
           x.pc = "publish" => Fits(x.i, x.tenancy, x.key),
           x.pc = "before" => cache'[p][x.key].idx = x.i
    PROVE  IsStoreStep
<1>1. proc[p].op = "read" /\ proc[p].pc # "reply"
    BY ReaderAt DEF ReadInv, BoardInv, LockInv, Loads, ScanPCs
<1>2. ReaderSees(p, x) /\ SnapshotOK(p, x)
    BY DEF ReaderSees, SnapshotOK, LoadPCs
<1> QED
    BY <1>1, <1>2, LoadOn DEF ScanPCs, EntryPCs, ViewPCs

\* The scan of the table by key hash, and the cached entry that saves it.
LEMMA ResolveStore ==
    ASSUME ReadInv, BoardInv', NEW p \in Procs, Resolve(p)
    PROVE  IsStoreStep
<1>1. alive[p] /\ proc[p].pc = "resolve" /\ proc[p].pc \in ScanPCs
    BY DEF Resolve, Load, At, ScanPCs
<1>2. /\ Typed /\ Locals /\ Identified /\ CellsWhole /\ CachesFit /\ Noted
      /\ Scope(p) = IF proc[p].op = "read" THEN {proc[p].key} ELSE Keys
      /\ ReaderSees(p, proc[p])
    BY <1>1, Reading
<1>3. /\ proc[p].op = "read" /\ proc[p] \in ProcType /\ proc[p].key \in Keys /\ proc[p].i = 0
      /\ \A k \in Keys : cache[p][k].idx \in 0..Capacity
    <2>1. \A k \in Keys : cache[p][k].idx \in 0..Capacity
        BY <1>2 DEF Typed
    <2> QED
        BY <1>1, <1>2, <2>1, ReaderAt DEF ReaderSees
<1>4. PICK q \in ProcType : q = proc[p]
    BY <1>3
<1>5. PICK k \in Keys : k = q.key /\ k \in Scope(p)
    BY <1>2, <1>3, <1>4
<1>6. PICK y \in ProcType : y = [q EXCEPT !.pc = "scan"] /\ y.pc = "scan" /\ y.op = q.op /\ y.key = q.key /\ y.i = q.i
    <2>1. PICK pc \in PCs : pc = "scan"
        BY DEF PCs
    <2> QED
        BY <2>1, PcLocals
<1>7. PICK c : c = cache[p][k] /\ c.idx \in 0..Capacity
    BY <1>3
<1>8. Load(p, "resolve",
           IF c.idx # NoEntry /\ entry[c.idx].state = "Active" /\ entry[c.idx].tenancy = c.tenancy
           THEN [q EXCEPT !.pc = "before", !.i = c.idx] ELSE [q EXCEPT !.pc = "scan"])
    BY <1>4, <1>5, <1>7, ZenonT(20) DEF Resolve
<1>9. CASE c.idx # NoEntry /\ entry[c.idx].state = "Active" /\ entry[c.idx].tenancy = c.tenancy
    <2>1. PICK x, i : i = c.idx /\ x = [q EXCEPT !.pc = "before", !.i = i]
        OBVIOUS
    <2>2. i \in Entries /\ i \in 0..Capacity
        BY <1>7, <1>9, <2>1, BoardAssumption DEF Entries, NoEntry
    <2>3. Load(p, "resolve", x)
        BY <1>9, <1>8, <2>1
    <2>4. Loads(p, x) /\ cache' = cache
        BY <1>1, <2>3, LoadIsLoads
    <2>5. x \in ProcType /\ x.pc = "before" /\ x.op = "read" /\ x.key = k /\ x.i = i
        <3>1. "before" \in PCs
            BY DEF PCs
        <3> QED
            BY <1>3, <1>4, <1>5, <2>1, <2>2, <3>1 DEF ProcType
    <2>6. Fits(i, c.tenancy, k)
        BY <1>2, <1>7, <1>9, <2>1 DEF CachesFit
    <2>7. entry[i].key = k
        BY <1>9, <2>1, <2>6 DEF Fits, Resting
    <2>8. Missed(p, k) \/ Bears(i, k)
        BY <1>2, <1>5, <1>9, <2>1, <2>2, <2>7, ActiveBearsOrMissed
    <2>9. Recorded(p, i)
        BY <1>2, <1>5, <1>9, <2>1, <2>2, <2>7, ShownIsRecorded
    <2> QED
        BY <1>1, <1>4, <1>5, <1>7, <2>1, <2>4, <2>5, <2>8, <2>9, ScanFound
<1>10. CASE ~(c.idx # NoEntry /\ entry[c.idx].state = "Active" /\ entry[c.idx].tenancy = c.tenancy)
    <2>1. Load(p, "resolve", y)
        BY <1>10, <1>8, <1>6
    <2>2. Loads(p, y)
        BY <1>1, <2>1, LoadIsLoads
    <2>3. Missed(p, k) \/ \E j \in Entries : Bears(j, k)
        BY <1>2, <1>5, BorneOrMissed
    <2>4. \A j \in Entries : j >= y.i
        BY <1>3, <1>4, <1>6 DEF Entries
    <2> QED
        BY <1>1, <1>3, <1>4, <1>5, <1>6, <2>2, <2>3, <2>4, ScanOn
<1> QED
    BY <1>9, <1>10

\* resolve: the scan of the entries for a hash.
LEMMA ScanStores ==
    ASSUME ReadInv, BoardInv', NEW p \in Procs, ScanState(p) \/ ScanHash(p) \/ ScanTenancy(p)
    PROVE  IsStoreStep
<1>1. alive[p] /\ proc[p].pc \in {"scan", "scan_hash", "scan_tenancy"} /\ proc[p].pc \in ScanPCs
    BY DEF ScanState, ScanHash, ScanTenancy, Load, At, ScanPCs
<1>2. /\ Typed /\ Locals /\ Identified /\ CellsWhole /\ Noted
      /\ Scope(p) = IF proc[p].op = "read" THEN {proc[p].key} ELSE Keys
      /\ ReaderSees(p, proc[p])
    BY <1>1, Reading
<1>3. proc[p].op = "read" /\ proc[p] \in ProcType /\ proc[p].key \in Keys
    BY <1>1, <1>2, ReaderAt
<1>4. PICK q \in ProcType : q = proc[p]
    BY <1>3
<1>5. PICK k \in Keys : k = q.key /\ k \in Scope(p)
    BY <1>2, <1>3, <1>4
<1>6. PICK i \in Entries : i = q.i
    <2>1. proc[p].pc # "scan" => proc[p].i \in Entries
        BY <1>1, <1>2, ReaderAt DEF ScanPCs
    <2>2. proc[p].pc = "scan" => proc[p].i \in 0..Capacity /\ proc[p].i < Capacity
        BY <1>3 DEF ScanState, ScanHash, ScanTenancy, Load, At, ProcType
    <2> QED
        BY <1>4, <2>1, <2>2, BoardAssumption DEF Entries
<1>7. {"scan", "scan_hash", "scan_tenancy", "scan_key"} \subseteq PCs /\ NoKey \notin Keys
    BY BoardAssumption DEF PCs
<1>8. PICK y \in ProcType : y = NextEntry(q) /\ y.pc = "scan" /\ y.op = q.op /\ y.key = q.key /\ y.i = q.i + 1
    BY <1>6, NextLocals
<1>9. ASSUME NEW j \in Entries, j >= i, j # i PROVE j >= y.i
    BY <1>6, <1>8, <1>9 DEF Entries
<1>10. q.pc \in {"scan", "scan_hash"} => Missed(p, k) \/ \E j \in Entries : j >= i /\ Bears(j, k)
    BY <1>2, <1>4, <1>5, <1>6 DEF ReaderSees
<1>11. CASE ScanState(p)
    <2>0. PICK pc \in PCs : pc = "scan_hash"
        BY <1>7
    <2>1. PICK x \in ProcType : x = [q EXCEPT !.pc = pc] /\ x.pc = pc /\ x.op = q.op /\ x.key = q.key /\ x.i = q.i
        BY PcLocals
    <2>2. q.pc = "scan" /\ Load(p, "scan", IF entry[i].state = "Active" THEN x ELSE y)
        BY <1>4, <1>6, <1>8, <1>11, <2>0, <2>1 DEF ScanState, Load, At, Mine
    <2>3. CASE entry[i].state = "Active"
        <3>1. Loads(p, x)
            BY <2>2, <2>3, LoadIsLoads DEF ScanPCs
        <3> QED
            BY <1>1, <1>3, <1>4, <1>5, <1>6, <1>10, <2>0, <2>1, <2>2, <3>1, ScanOn
    <2>4. CASE entry[i].state # "Active"
        <3>1. Loads(p, y)
            BY <2>2, <2>4, LoadIsLoads DEF ScanPCs
        <3>2. ~Bears(i, k)
            BY <2>4 DEF Bears
        <3>3. Missed(p, k) \/ \E j \in Entries : j >= y.i /\ Bears(j, k)
            BY <1>9, <1>10, <2>2, <3>2
        <3> QED
            BY <1>1, <1>3, <1>4, <1>5, <1>8, <3>1, <3>3, ScanOn
    <2> QED
        BY <2>3, <2>4
<1>12. CASE ScanHash(p)
    <2>0. PICK pc \in PCs : pc = "scan_tenancy"
        BY <1>7
    <2>1. PICK x \in ProcType : x = [q EXCEPT !.pc = pc] /\ x.pc = pc /\ x.op = q.op /\ x.key = q.key /\ x.i = q.i
        BY PcLocals
    <2>2. q.pc = "scan_hash" /\ Load(p, "scan_hash", IF entry[i].hash = k THEN x ELSE y)
        BY <1>4, <1>5, <1>6, <1>8, <1>12, <2>0, <2>1 DEF ScanHash, Load, At, Mine
    <2>3. CASE entry[i].hash = k
        <3>1. Loads(p, x)
            BY <2>2, <2>3, LoadIsLoads DEF ScanPCs
        <3>2. /\ entry[i].state \in {"Free", "Claiming", "Active"} /\ entry[i].publish \in Nat
            BY <1>2, EntryFields DEF Typed, EntryType
        <3>3. entry[i].state = "Active" => entry[i].key = k
            BY <1>7, <2>3 DEF ReadInv, BoardInv, LockInv, Keyed
        <3>4. entry[i].state # "Active" => entry[i].publish = 0
            BY <1>2, <1>7, <2>3, <3>2 DEF Identified
        <3>5. Missed(p, k) \/ Bears(i, k)
            <4>1. ASSUME NEW j \in Entries, j # i, Bears(j, k) PROVE FALSE
                BY <1>2, <1>7, <2>3, <4>1 DEF Bears, Identified
            <4> QED
                BY <1>10, <2>2, <4>1
        <3>6. Recorded(p, i)
            <4>1. CASE entry[i].state = "Active"
                BY <1>2, <1>5, <3>3, <4>1, ShownIsRecorded
            <4>2. CASE entry[i].state # "Active"
                <5>1. ~(entry[i].publish \div 2 > 0)
                    BY <3>4, <4>2
                <5> QED
                    BY <5>1 DEF Recorded
            <4> QED
                BY <4>1, <4>2
        <3> QED
            BY <1>1, <1>3, <1>4, <1>5, <1>6, <2>0, <2>1, <3>1, <3>5, <3>6, ScanFound
    <2>4. CASE entry[i].hash # k
        <3>1. Loads(p, y)
            BY <2>2, <2>4, LoadIsLoads DEF ScanPCs
        <3>2. ~Bears(i, k)
            BY <2>4 DEF Bears
        <3>3. Missed(p, k) \/ \E j \in Entries : j >= y.i /\ Bears(j, k)
            BY <1>9, <1>10, <2>2, <3>2
        <3> QED
            BY <1>1, <1>3, <1>4, <1>5, <1>8, <3>1, <3>3, ScanOn
    <2> QED
        BY <2>3, <2>4
<1>13. CASE ScanTenancy(p)
    <2>1. PICK t \in Nat : t = entry[i].tenancy
        BY <1>2, EntryFields DEF Typed
    <2>2. PICK x : x = [q EXCEPT !.pc = "scan_key", !.tenancy = t]
        OBVIOUS
    <2>3. x \in ProcType /\ x.pc = "scan_key" /\ x.op = q.op /\ x.key = q.key /\ x.i = q.i /\ x.tenancy = t
        BY <1>7, <2>1, <2>2 DEF ProcType
    <2>4. q.pc = "scan_tenancy" /\ Load(p, "scan_tenancy", x)
        BY <1>4, <1>6, <1>13, <2>1, <2>2 DEF ScanTenancy, Load, At, Mine
    <2>5. Loads(p, x)
        BY <2>4, LoadIsLoads DEF ScanPCs
    <2>6. /\ Missed(p, k) \/ Bears(i, k)
          /\ entry[i].key = k => Recorded(p, i)
        BY <1>2, <1>3, <1>4, <1>5, <1>6, <2>4 DEF ReaderSees
    <2> QED
        BY <1>1, <1>3, <1>4, <1>5, <1>6, <2>1, <2>3, <2>5, <2>6, ScanFound
<1> QED
    BY <1>11, <1>12, <1>13

\* The scan compares the key, and caches what it found.
LEMMA ScanKeyStore ==
    ASSUME ReadInv, BoardInv', NEW p \in Procs, ScanKey(p)
    PROVE  IsStoreStep
<1>1. alive[p] /\ proc[p].pc = "scan_key" /\ proc[p].pc \in ScanPCs
    BY DEF ScanKey, At, ScanPCs
<1>2. /\ Typed /\ Locals /\ CachesFit /\ ReaderSees(p, proc[p])
    BY <1>1, Reading
<1>3. proc[p].op = "read" /\ proc[p] \in ProcType /\ proc[p].key \in Keys /\ proc[p].i \in Entries
    BY <1>1, <1>2, ReaderAt DEF ScanPCs
<1>4. PICK q \in ProcType : q = proc[p]
    BY <1>3
<1>5. PICK k \in Keys, i \in Entries : k = q.key /\ i = q.i
    BY <1>3, <1>4
<1>6. /\ Missed(p, k) \/ Bears(i, k)
      /\ entry[i].key = k => Recorded(p, i)
      /\ entry[i].tenancy >= q.tenancy
    BY <1>1, <1>2, <1>3, <1>4, <1>5 DEF ReaderSees
<1>7. CASE entry[i].key = k
    <2>0. PICK pc \in PCs : pc = "before"
        BY DEF PCs
    <2>1. PICK x \in ProcType : /\ x = [q EXCEPT !.pc = pc] /\ x.pc = pc /\ x.op = q.op /\ x.key = q.key
                                /\ x.i = q.i /\ x.tenancy = q.tenancy
        BY PcLocals
    <2>2. PICK c : c = [idx |-> i, tenancy |-> q.tenancy]
        OBVIOUS
    <2>3. /\ proc' = [proc EXCEPT ![p] = x]
          /\ cache' = [cache EXCEPT ![p][k] = c]
          /\ UNCHANGED <<entry, cell, writer, alive>> /\ Watch
        BY <1>4, <1>5, <1>7, <2>0, <2>1, <2>2 DEF ScanKey, Mine
    <2>4. /\ \A r \in Procs \ {p} : cache'[r] = cache[r]
          /\ cache'[p][k] = c /\ \A j \in Keys \ {k} : cache'[p][j] = cache[p][j]
        BY <1>2, <2>3 DEF Typed
    <2>5. Fits(i, q.tenancy, k)
        BY <1>6, <1>7 DEF Fits
    <2>6. \A j \in Keys : cache'[p][j].idx # NoEntry => Fits(cache'[p][j].idx, cache'[p][j].tenancy, j)
        BY <1>2, <2>2, <2>4, <2>5 DEF CachesFit
    <2>7. Loads(p, x)
        BY <1>1, <2>3, <2>4, <2>6 DEF Loads
    <2>8. cache'[p][k].idx = i
        BY <2>2, <2>4
    <2>9. x.pc = "before" /\ x.op = "read" /\ x.key = k /\ x.i = i /\ proc[p].key = k
        BY <1>3, <1>4, <1>5, <2>0, <2>1
    <2> QED
        BY <1>1, <1>6, <2>7, <2>8, <2>9, ScanFound
<1>8. CASE entry[i].key # k
    <2>1. PICK y \in ProcType : y = NextEntry(q) /\ y.pc = "scan" /\ y.op = q.op /\ y.key = q.key /\ y.i = q.i + 1
        BY <1>5, NextLocals
    <2>2. /\ proc' = [proc EXCEPT ![p] = y] /\ cache' = cache
          /\ UNCHANGED <<entry, cell, writer, alive>> /\ Watch
        BY <1>4, <1>5, <1>8, <2>1 DEF ScanKey, Mine
    <2>3. Loads(p, y)
        BY <1>1, <1>2, <2>2 DEF Loads, CachesFit
    <2>4. Missed(p, k)
        BY <1>6, <1>8 DEF Bears
    <2> QED
        BY <1>1, <1>3, <1>4, <1>5, <2>1, <2>3, <2>4, ScanOn
<1> QED
    BY <1>7, <1>8

\* The scan ends without an entry: ENOENT.
LEMMA ScanEndStore ==
    ASSUME ReadInv, BoardInv', NEW p \in Procs, ScanEnd(p)
    PROVE  IsStoreStep
<1>1. alive[p] /\ proc[p].pc = "scan" /\ proc[p].pc \in ScanPCs /\ proc[p].i = Capacity
    BY DEF ScanEnd, At, ScanPCs
<1>2. /\ Typed /\ Locals /\ CachesFit /\ ReaderSees(p, proc[p])
    BY <1>1, Reading
<1>3. proc[p].op = "read" /\ proc[p] \in ProcType /\ proc[p].key \in Keys
    BY <1>1, <1>2, ReaderAt DEF ScanPCs
<1>4. PICK q \in ProcType : q = proc[p]
    BY <1>3
<1>5. PICK k \in Keys : k = q.key
    BY <1>3, <1>4
<1>6. Missed(p, k)
    <2>1. Missed(p, k) \/ \E j \in Entries : j >= Capacity /\ Bears(j, k)
        BY <1>1, <1>2, <1>4, <1>5 DEF ReaderSees
    <2>2. \A j \in Entries : ~(j >= Capacity)
        BY BoardAssumption DEF Entries
    <2> QED
        BY <2>1, <2>2
<1>7. PICK x : x = [q EXCEPT !.pc = "reply", !.kind = "noent"]
    OBVIOUS
<1>8. x \in ProcType /\ x.pc = "reply" /\ x.kind = "noent" /\ x.op = q.op /\ x.key = k
    <2>1. "reply" \in PCs
        BY DEF PCs
    <2> QED
        BY <1>5, <1>7, <2>1 DEF ProcType
<1>9. /\ proc' = [proc EXCEPT ![p] = x]
      /\ cache' = [cache EXCEPT ![p][k] = Unresolved]
      /\ UNCHANGED <<entry, cell, writer, alive>> /\ Watch
    BY <1>4, <1>5, <1>7 DEF ScanEnd, Reply
<1>10. /\ \A r \in Procs \ {p} : cache'[r] = cache[r]
       /\ cache'[p][k] = Unresolved /\ \A j \in Keys \ {k} : cache'[p][j] = cache[p][j]
    BY <1>2, <1>9 DEF Typed
<1>11. \A j \in Keys : cache'[p][j].idx # NoEntry => Fits(cache'[p][j].idx, cache'[p][j].tenancy, j)
    BY <1>2, <1>10 DEF CachesFit, Unresolved
<1>12. Loads(p, x)
    BY <1>1, <1>9, <1>10, <1>11 DEF Loads
<1>13. Store!Allowed(p, [kind |-> x.kind, key |-> x.key, count |-> x.publish \div 2,
                         len |-> x.len, data |-> x.data])
    BY <1>6, <1>8 DEF Store!Allowed, Missed
<1> QED
    BY <1>1, <1>3, <1>4, <1>5, <1>8, <1>12, <1>13, LoadAnswer

\* The tenancy is loaded before the value.
LEMMA TenancyBeforeStore ==
    ASSUME ReadInv, BoardInv', NEW p \in Procs, TenancyBefore(p)
    PROVE  IsStoreStep
<1>1. alive[p] /\ proc[p].pc = "before" /\ proc[p].pc \in ScanPCs
    BY DEF TenancyBefore, Load, At, ScanPCs
<1>2. /\ Typed /\ Locals /\ CachesFit /\ ReaderSees(p, proc[p]) /\ cache[p][proc[p].key].idx = proc[p].i
    BY <1>1, Reading
<1>3. /\ proc[p].op = "read" /\ proc[p] \in ProcType
      /\ proc[p].key \in Keys /\ proc[p].i \in Entries /\ proc[p].i # NoEntry
    BY <1>1, <1>2, ReaderAt DEF ScanPCs
<1>4. PICK q \in ProcType : q = proc[p]
    BY <1>3
<1>5. PICK k \in Keys, i \in Entries : k = q.key /\ i = q.i
    BY <1>3, <1>4
<1>6. PICK t \in Nat : t = entry[i].tenancy
    BY <1>2, EntryFields DEF Typed
<1>7. CASE t = cache[p][k].tenancy
    <2>1. PICK x : x = [q EXCEPT !.pc = "publish", !.tenancy = t]
        OBVIOUS
    <2>2. x \in ProcType /\ x.pc = "publish" /\ x.op = q.op /\ x.key = k /\ x.i = i /\ x.tenancy = t
        <3>1. "publish" \in PCs
            BY DEF PCs
        <3> QED
            BY <1>5, <2>1, <3>1 DEF ProcType
    <2>3. Load(p, "before", x)
        BY <1>4, <1>5, <1>6, <1>7, <2>1 DEF TenancyBefore, Mine
    <2>4. Loads(p, x)
        BY <1>1, <2>3, LoadIsLoads
    <2>5. /\ Missed(p, k) \/ Bears(i, k)
          /\ entry[i].key = k => Recorded(p, i)
        BY <1>1, <1>2, <1>3, <1>4, <1>5 DEF ReaderSees
    <2>6. Fits(i, t, k)
        BY <1>2, <1>3, <1>4, <1>5, <1>7 DEF CachesFit
    <2> QED
        BY <1>1, <1>3, <1>4, <1>5, <2>2, <2>4, <2>5, <2>6, ScanFound
<1>8. CASE t # cache[p][k].tenancy
    <2>1. Load(p, "before", Retry(q))
        BY <1>4, <1>5, <1>6, <1>8 DEF TenancyBefore, Mine
    <2>2. Loads(p, Retry(q))
        BY <1>1, <2>1, LoadIsLoads
    <2> QED
        BY <1>1, <1>4, <2>2, LoadRetry
<1> QED
    BY <1>7, <1>8

\* A load of one value under the seqlock.
LEMMA ViewOn ==
    ASSUME ReadInv, BoardInv', NEW p \in Procs, NEW q \in ProcType, q = proc[p],
           NEW x \in ProcType, Loads(p, x), q.pc \in ViewPCs \ {"reply"}, x.pc \in LoadPCs,
           x.op = q.op, x.key = q.key, x.i = q.i, x.publish \div 2 > 0 \/ q.op # "read",
           x.publish \div 2 > 0 => Sound(p, x),
           x.pc \in {"len", "data"} => x.publish \div 2 > 0,
           x.op = "snapshot" /\ x.pc \in {"after", "verify"} /\ x.publish \div 2 = 0 =>
               \E h \in Store!Met(p, x.key) : h.there = "yes" /\ h.count = 0
    PROVE  IsStoreStep
<1>1. q.pc \in EntryPCs /\ proc[p].pc \in ScanPCs \cup EntryPCs /\ alive[p]
    BY DEF EntryPCs, Loads
<1>2. SnapshotOK(p, q)
    BY <1>1, Reading
<1>3. x.op = "snapshot" => entry[x.i].state = "Active" /\ entry[x.i].key = x.key
    BY <1>2 DEF SnapshotOK, ViewPCs, LoadPCs
<1>4. SnapshotOK(p, x)
    BY <1>3 DEF SnapshotOK, LoadPCs
<1>5. ReaderSees(p, x)
    BY DEF ReaderSees, LoadPCs
<1>6. x.pc \in (ScanPCs \cup EntryPCs) \ {"reply"} /\ x.pc # "before"
    BY SMTT(30) DEF LoadPCs, EntryPCs, ViewPCs
<1> QED
    BY <1>4, <1>5, <1>6, LoadOn

\* What a snapshot reads under the lock is there, with its hash.
LEMMA SnapshotThere ==
    ASSUME ReadInv, NEW p \in Procs, alive[p], proc[p].op = "snapshot", proc[p].pc = "publish",
           NEW i \in Entries, i = proc[p].i, NEW k, k = proc[p].key
    PROVE  /\ k \in Keys /\ Shows(i) \in Store!Met(p, k) /\ Shows(i).there = "yes"
<1>1. proc[p].pc \in ScanPCs \cup EntryPCs
    BY DEF EntryPCs, ViewPCs
<1>2. /\ Typed /\ Locals /\ Identified /\ Noted /\ SnapshotOK(p, proc[p]) /\ Scope(p) = Keys
    BY <1>1, Reading
<1>3. entry[i].state = "Active" /\ entry[i].key = k
    BY <1>2 DEF SnapshotOK
<1>4. k \in Keys
    BY <1>2, <1>3 DEF Identified
<1>5. Inside(p) /\ Scene(p, proc[p])
    BY DEF ReadInv, BoardInv, LockInv, Scenes, Inside
<1>6. Clean(i)
    BY <1>5 DEF Scene, ClaimPCs
<1>7. entry[i].hash = entry[i].key
    BY <1>3, <1>6 DEF Clean, Residue, ReadInv, BoardInv, LockInv, Keyed
<1>8. Held(k) = Shows(i) /\ Held(k) \in Store!Met(p, k)
    BY <1>2, <1>3, <1>4, HeldShown, MetNow
<1> QED
    BY <1>4, <1>7, <1>8, SMTT(30) DEF Shows

\* The first look at publish picks the cell, or finds none written.
LEMMA PublishBeforeStore ==
    ASSUME ReadInv, BoardInv', NEW p \in Procs, PublishBefore(p)
    PROVE  IsStoreStep
<1>1. alive[p] /\ proc[p].pc = "publish" /\ proc[p].pc \in ScanPCs \cup EntryPCs
    BY DEF PublishBefore, Load, At, EntryPCs, ViewPCs
<1>2. /\ Typed /\ Locals /\ Identified /\ CellsWhole /\ Noted /\ ReaderSees(p, proc[p])
      /\ Scope(p) = IF proc[p].op = "read" THEN {proc[p].key} ELSE Keys
    BY <1>1, Reading
<1>3. /\ proc[p] \in ProcType /\ proc[p].i \in Entries /\ proc[p].op \in {"read", "list", "snapshot"}
      /\ proc[p].op = "read" => proc[p].key \in Keys
    BY <1>1, <1>2, ReaderAt
<1>4. PICK q \in ProcType, i \in Entries : q = proc[p] /\ i = q.i
    BY <1>3
<1>5. PICK e \in Nat : e = entry[i].publish
    BY <1>2, EntryFields DEF Typed
<1>6. PICK k : k = q.key
    OBVIOUS
<1>7. PICK n \in Nat : n = e \div 2
    BY <1>5, Parity
<1>8. PICK g : g = [q EXCEPT !.publish = e]
    OBVIOUS
<1>9. /\ g \in ProcType /\ g.publish = e /\ g.op = q.op /\ g.key = k /\ g.i = i /\ g.tenancy = q.tenancy
      /\ g.pc = "publish"
    BY <1>1, <1>4, <1>6, <1>8 DEF ProcType
<1>10. Load(p, "publish", IF n > 0 THEN [g EXCEPT !.pc = "len"]
                          ELSE IF q.op = "read" THEN Reply(g, "nomsg") ELSE [g EXCEPT !.pc = "after"])
    BY <1>4, <1>5, <1>7, <1>8, <1>9 DEF PublishBefore, Mine
<1>11. /\ q.op = "read" => Missed(p, k) \/ Bears(i, k)
       /\ entry[i].key = k \/ q.op # "read" => Recorded(p, i)
       /\ Fits(i, q.tenancy, k)
    BY <1>1, <1>2, <1>4, <1>6 DEF ReaderSees
<1>12. {"len", "after", "reply"} \subseteq PCs
    BY DEF PCs
<1>13. CASE n > 0
    <2>1. PICK pc \in PCs : pc = "len"
        BY <1>12
    <2>2. PICK x \in ProcType : /\ x = [g EXCEPT !.pc = pc] /\ x.pc = pc /\ x.op = g.op /\ x.key = g.key
                                /\ x.i = g.i /\ x.tenancy = g.tenancy /\ x.publish = g.publish
        BY <1>9, PcLocals
    <2>3. Loads(p, x)
        BY <1>1, <1>10, <1>13, <2>1, <2>2, LoadIsLoads
    <2>4. Sound(p, x)
        <3>1. PICK v \in Nat : v = cell[i][n % 2].data
            <4>1. n % 2 \in 0..1
                OBVIOUS
            <4> QED
                BY <1>2, <4>1 DEF Typed
        <3>2. cell[i][n % 2].len = v
            BY <1>2, <1>5, <1>7, <1>13, <3>1 DEF CellsWhole
        <3>3. entry[i].tenancy >= q.tenancy
            BY <1>11 DEF Fits
        <3>4. ASSUME entry[i].tenancy = q.tenancy PROVE HasMet(p, k, n, v)
            <4>1. entry[i].key = k
                BY <1>5, <1>7, <1>11, <1>13, <3>4 DEF Fits
            <4> QED
                BY <1>5, <1>7, <1>11, <1>13, <3>1, <4>1 DEF Recorded
        <3>5. ~(e < 2 * n)
            BY <1>7
        <3>6. x.i = i /\ x.tenancy = q.tenancy /\ x.publish \div 2 = n /\ x.key = k /\ x.pc = "len"
            BY <1>7, <1>9, <2>1, <2>2
        <3> QED
            BY <1>5, <3>1, <3>2, <3>3, <3>4, <3>5, <3>6 DEF Sound
    <2>5. x.publish \div 2 = n /\ x.pc = "len" /\ x.op = q.op /\ x.key = q.key /\ x.i = q.i
        BY <1>4, <1>6, <1>7, <1>9, <2>1, <2>2
    <2> QED
        BY <1>1, <1>4, <1>13, <2>3, <2>4, <2>5, ViewOn DEF ViewPCs, LoadPCs
<1>14. CASE n = 0 /\ q.op = "read"
    <2>1. PICK x : x = [g EXCEPT !.pc = "reply", !.kind = "nomsg"]
        OBVIOUS
    <2>2. x \in ProcType /\ x.pc = "reply" /\ x.kind = "nomsg" /\ x.op = q.op /\ x.key = k
        BY <1>9, <1>12, <2>1 DEF ProcType
    <2>3. Loads(p, x)
        BY <1>1, <1>10, <1>14, <2>1, LoadIsLoads DEF Reply
    <2>4. \E h \in Store!Met(p, k) : h.there # "yes" \/ h.count = 0
        <3>1. CASE Missed(p, k)
            BY <3>1 DEF Missed
        <3>2. CASE Bears(i, k)
            <4>1. k \in Keys /\ k \in Scope(p)
                BY <1>2, <1>3, <1>4, <1>6, <1>14
            <4>2. Held(k) = Shows(i) /\ Held(k) \in Store!Met(p, k)
                BY <1>2, <3>2, <4>1, HeldShown, MetNow DEF Bears
            <4>3. Shows(i).count = 0
                BY <1>5, <1>7, <1>14 DEF Shows
            <4> QED
                BY <4>2, <4>3
        <3> QED
            BY <1>11, <1>14, <3>1, <3>2
    <2>5. Store!Allowed(p, [kind |-> x.kind, key |-> x.key, count |-> x.publish \div 2,
                            len |-> x.len, data |-> x.data])
        BY <2>2, <2>4 DEF Store!Allowed
    <2> QED
        BY <1>1, <1>4, <1>6, <2>2, <2>3, <2>5, LoadAnswer
<1>15. CASE n = 0 /\ q.op # "read"
    <2>1. PICK pc \in PCs : pc = "after"
        BY <1>12
    <2>2. PICK x \in ProcType : /\ x = [g EXCEPT !.pc = pc] /\ x.pc = pc /\ x.op = g.op /\ x.key = g.key
                                /\ x.i = g.i /\ x.tenancy = g.tenancy /\ x.publish = g.publish
        BY <1>9, PcLocals
    <2>3. Loads(p, x)
        BY <1>1, <1>10, <1>15, <2>1, <2>2, LoadIsLoads
    <2>4. x.op = "snapshot" => \E h \in Store!Met(p, x.key) : h.there = "yes" /\ h.count = 0
        <3>1. Shows(i).count = 0
            BY <1>5, <1>7, <1>15 DEF Shows
        <3> QED
            BY <1>1, <1>4, <1>6, <1>9, <2>2, <3>1, SnapshotThere
    <2>5. x.publish \div 2 = 0 /\ x.pc = "after" /\ x.op = q.op /\ x.key = q.key /\ x.i = q.i
        BY <1>4, <1>6, <1>7, <1>9, <1>15, <2>1, <2>2
    <2> QED
        BY <1>1, <1>4, <1>15, <2>3, <2>4, <2>5, ViewOn DEF ViewPCs, LoadPCs
<1> QED
    BY <1>13, <1>14, <1>15

\* What a reader has loaded of value v, while the cell is not written again.
Loaded(q, i, n, v) ==
    entry[i].publish \in (2 * n)..(2 * n + 2) =>
        /\ cell[i][n % 2].data = v /\ cell[i][n % 2].len = v
        /\ q.pc \in {"data", "after"} => q.len = v
        /\ q.pc = "after" => q.data = v

\* A load leaves the loads sound if it goes with the value met.
LEMMA SoundOn ==
    ASSUME NEW p \in Procs, NEW q, NEW x, NEW i, NEW n, q.i = i, q.publish \div 2 = n,
           q.pc # "verify", Sound(p, q),
           x.i = i, x.tenancy = q.tenancy, x.publish = q.publish, x.key = q.key, x.pc # "verify" \/ ~x.fresh,
           \A v \in Nat : Loaded(q, i, n, v) => Loaded(x, i, n, v)
    PROVE  Sound(p, x)
<1>1. entry[i].tenancy >= q.tenancy
    BY DEF Sound
<1>2. CASE entry[i].tenancy # q.tenancy
    BY <1>1, <1>2 DEF Sound
<1>3. CASE entry[i].tenancy = q.tenancy
    <2>1. /\ entry[i].publish < 2 * n => Resting(i)
          /\ \E v \in Nat : HasMet(p, q.key, n, v) /\ Loaded(q, i, n, v)
        BY <1>3 DEF Sound, Loaded
    <2>2. PICK v \in Nat : HasMet(p, q.key, n, v) /\ Loaded(x, i, n, v)
        BY <2>1
    <2> QED
        BY <1>1, <2>1, <2>2 DEF Sound, Loaded
<1> QED
    BY <1>2, <1>3

\* A value read while the cell was not written again is the value met.
LEMMA SoundChecked ==
    ASSUME NEW p \in Procs, NEW q, NEW x, NEW i, NEW n, q.i = i, q.publish \div 2 = n,
           q.pc = "after", Sound(p, q),
           x.i = i, x.tenancy = q.tenancy, x.publish = q.publish, x.key = q.key, x.pc = "verify",
           x.len = q.len, x.data = q.data, entry[i].publish \in (2 * n)..(2 * n + 2)
    PROVE  Sound(p, x)
<1>1. entry[i].tenancy >= q.tenancy
    BY DEF Sound
<1>2. CASE entry[i].tenancy # q.tenancy
    BY <1>1, <1>2 DEF Sound
<1>3. CASE entry[i].tenancy = q.tenancy
    <2>1. /\ entry[i].publish < 2 * n => Resting(i)
          /\ \E v \in Nat : HasMet(p, q.key, n, v) /\ Loaded(q, i, n, v)
        BY <1>3 DEF Sound, Loaded
    <2>2. PICK v \in Nat : HasMet(p, q.key, n, v) /\ Loaded(q, i, n, v)
        BY <2>1
    <2>3. q.len = v /\ q.data = v
        BY <2>2 DEF Loaded
    <2> QED
        BY <1>1, <2>1, <2>2, <2>3 DEF Sound
<1> QED
    BY <1>2, <1>3

\* The loads of the cell, and the second look at publish.
LEMMA CellStores ==
    ASSUME ReadInv, BoardInv', NEW p \in Procs, LoadLen(p) \/ LoadData(p) \/ PublishAfter(p)
    PROVE  IsStoreStep
<1>1. alive[p] /\ proc[p].pc \in {"len", "data", "after"} /\ proc[p].pc \in ScanPCs \cup EntryPCs
    BY DEF LoadLen, LoadData, PublishAfter, Load, At, EntryPCs, ViewPCs
<1>2. /\ Typed /\ Locals /\ ReaderSees(p, proc[p]) /\ SnapshotOK(p, proc[p])
    BY <1>1, Reading
<1>3. /\ proc[p] \in ProcType /\ proc[p].i \in Entries
    BY <1>1, <1>2, ReaderAt
<1>4. PICK q \in ProcType, i \in Entries : q = proc[p] /\ i = q.i
    BY <1>3
<1>5. PICK n \in Nat : n = q.publish \div 2
    <2>1. q.publish \in Nat
        BY DEF ProcType
    <2> QED
        BY <2>1, Parity
<1>6. /\ n > 0 => Sound(p, q)
      /\ q.pc \in {"len", "data"} \/ q.op = "read" => n > 0
    BY <1>1, <1>2, <1>4, <1>5 DEF ReaderSees, LoadPCs
<1>7. q.op = "snapshot" /\ q.pc = "after" /\ n = 0 =>
          \E h \in Store!Met(p, q.key) : h.there = "yes" /\ h.count = 0
    BY <1>2, <1>4, <1>5 DEF SnapshotOK
<1>8. {"data", "after", "verify"} \subseteq PCs
    BY DEF PCs
<1>9. ASSUME NEW x \in ProcType, Load(p, q.pc, x), x.pc \in {"data", "after", "verify"}, x.op = q.op,
             x.key = q.key, x.i = q.i, x.publish = q.publish, q.pc # "after" => x.pc # "verify", n > 0 => Sound(p, x),
             x.pc = "data" => q.pc = "len", x.pc = "after" => q.pc = "data"
      PROVE  IsStoreStep
    <2>1. Loads(p, x)
        BY <1>1, <1>4, <1>9, LoadIsLoads
    <2>2. x.publish \div 2 = n
        BY <1>5, <1>9
    <2>3. n > 0 \/ q.op # "read"
        BY <1>6
    <2>4. x.pc \in {"len", "data"} => n > 0
        BY <1>6, <1>9
    <2>5. x.op = "snapshot" /\ x.pc \in {"after", "verify"} /\ n = 0 =>
              \E h \in Store!Met(p, x.key) : h.there = "yes" /\ h.count = 0
        <3>1. x.pc = "after" => n > 0
            BY <1>6, <1>9
        <3> QED
            BY <1>1, <1>4, <1>7, <1>9, <3>1
    <2> QED
        BY <1>1, <1>4, <1>9, <2>1, <2>2, <2>3, <2>4, <2>5, ViewOn DEF ViewPCs, LoadPCs
<1>10. PICK c : c = cell[i][n % 2] /\ c.len \in Nat /\ c.data \in Nat
    <2>1. n % 2 \in 0..1
        OBVIOUS
    <2> QED
        BY <1>2, <2>1 DEF Typed
<1>11. CASE LoadLen(p)
    <2>1. PICK l, x : l \in Nat /\ l = c.len /\ x = [q EXCEPT !.pc = "data", !.len = l]
        BY <1>10
    <2>2. /\ x \in ProcType /\ x.pc = "data" /\ x.op = q.op /\ x.key = q.key /\ x.i = q.i
          /\ x.tenancy = q.tenancy /\ x.publish = q.publish /\ x.len = l
        BY <1>8, <2>1, Zenon DEF ProcType
    <2>3. Load(p, q.pc, x) /\ q.pc = "len"
        BY <1>4, <1>5, <1>10, <1>11, <2>1, Zenon DEF LoadLen, Load, At, Shown
    <2>4. n > 0
        BY <1>6, <2>3
    <2>5. Sound(p, x)
        <3>1. \A v : Loaded(q, i, n, v) => Loaded(x, i, n, v)
            BY <1>10, <2>1, <2>2 DEF Loaded
        <3> QED
            BY <1>4, <1>5, <1>6, <2>2, <2>3, <2>4, <3>1, SoundOn
    <2> QED
        BY <1>9, <2>2, <2>3, <2>5
<1>12. CASE LoadData(p)
    <2>1. PICK d, x : d \in Nat /\ d = c.data /\ x = [q EXCEPT !.pc = "after", !.data = d]
        BY <1>10
    <2>2. /\ x \in ProcType /\ x.pc = "after" /\ x.op = q.op /\ x.key = q.key /\ x.i = q.i
          /\ x.tenancy = q.tenancy /\ x.publish = q.publish /\ x.len = q.len /\ x.data = d
        BY <1>8, <2>1, Zenon DEF ProcType
    <2>3. Load(p, q.pc, x) /\ q.pc = "data"
        BY <1>4, <1>5, <1>10, <1>12, <2>1, Zenon DEF LoadData, Load, At, Shown
    <2>4. n > 0
        BY <1>6, <2>3
    <2>5. Sound(p, x)
        <3>1. \A v : Loaded(q, i, n, v) => Loaded(x, i, n, v)
            BY <1>10, <2>1, <2>2, <2>3 DEF Loaded
        <3> QED
            BY <1>4, <1>5, <1>6, <2>2, <2>3, <2>4, <3>1, SoundOn
    <2> QED
        BY <1>9, <2>2, <2>3, <2>5
<1>13. CASE PublishAfter(p)
    <2>0. PICK e \in Nat : e = entry[i].publish
        BY <1>2, EntryFields DEF Typed
    <2>1. PICK b, x : /\ b \in BOOLEAN /\ b = (n = 0 \/ Intact(q.publish, e))
                      /\ x = [q EXCEPT !.pc = "verify", !.fresh = b]
        OBVIOUS
    <2>2. /\ x \in ProcType /\ x.pc = "verify" /\ x.op = q.op /\ x.key = q.key /\ x.i = q.i
          /\ x.tenancy = q.tenancy /\ x.publish = q.publish /\ x.len = q.len /\ x.data = q.data /\ x.fresh = b
        BY <1>8, <2>1 DEF ProcType
    <2>3. Load(p, q.pc, x) /\ q.pc = "after"
        BY <1>4, <1>5, <1>13, <2>0, <2>1 DEF PublishAfter, Load, At, Mine
    <2>4. ASSUME n > 0 PROVE Sound(p, x)
        <3>1. CASE Intact(q.publish, e)
            <4>1. e \in (2 * n)..(2 * n + 2)
                BY <1>5, <3>1 DEF Intact
            <4> QED
                BY <1>4, <1>5, <1>6, <2>0, <2>2, <2>3, <2>4, <4>1, SoundChecked
        <3>2. CASE ~Intact(q.publish, e)
            <4>0. ~(n = 0)
                BY <2>4
            <4>1. ~x.fresh
                BY <2>1, <2>2, <3>2, <4>0
            <4>2. \A v : Loaded(q, i, n, v) => Loaded(x, i, n, v)
                BY <2>2 DEF Loaded
            <4> QED
                BY <1>4, <1>5, <1>6, <2>2, <2>3, <2>4, <4>1, <4>2, SoundOn
        <3> QED
            BY <3>1, <3>2
    <2> QED
        BY <1>9, <2>2, <2>3, <2>4
<1> QED
    BY <1>11, <1>12, <1>13

\* The tenancy is loaded once more: the value stands, or the call starts over.
LEMMA TenancyAfterStore ==
    ASSUME ReadInv, BoardInv', NEW p \in Procs, TenancyAfter(p)
    PROVE  IsStoreStep
<1>1. alive[p] /\ proc[p].pc = "verify" /\ proc[p].pc \in ScanPCs \cup EntryPCs
    BY DEF TenancyAfter, Load, At, EntryPCs, ViewPCs
<1>2. /\ Typed /\ Locals /\ ReaderSees(p, proc[p]) /\ SnapshotOK(p, proc[p])
    BY <1>1, Reading
<1>3. /\ proc[p] \in ProcType /\ proc[p].i \in Entries /\ proc[p].op \in {"read", "list", "snapshot"}
    BY <1>1, <1>2, ReaderAt
<1>4. PICK q \in ProcType, i \in Entries : q = proc[p] /\ i = q.i
    BY <1>3
<1>5. PICK n \in Nat : n = q.publish \div 2
    <2>1. q.publish \in Nat
        BY DEF ProcType
    <2> QED
        BY <2>1, Parity
<1>6. /\ n > 0 => Sound(p, q)
      /\ q.op = "read" => n > 0
    BY <1>1, <1>2, <1>4, <1>5 DEF ReaderSees, LoadPCs
<1>7. CASE entry[i].tenancy # q.tenancy \/ ~q.fresh
    <2>1. Load(p, "verify", Retry(q))
        BY <1>4, <1>7 DEF TenancyAfter, Mine
    <2>2. Loads(p, Retry(q))
        BY <1>1, <2>1, LoadIsLoads
    <2> QED
        BY <1>1, <1>4, <2>2, LoadRetry
<1>8. CASE entry[i].tenancy = q.tenancy /\ q.fresh
    <2>1. n > 0 => q.len = q.data /\ HasMet(p, q.key, n, q.data)
        <3> SUFFICES ASSUME n > 0 PROVE q.len = q.data /\ HasMet(p, q.key, n, q.data)
            OBVIOUS
        <3>1. PICK v \in Nat : HasMet(p, q.key, n, v) /\ q.len = v /\ q.data = v
            BY <1>1, <1>4, <1>5, <1>6, <1>8 DEF Sound
        <3> QED
            BY <3>1
    <2>2. CASE q.op = "read"
        <3>1. PICK x : x = [q EXCEPT !.pc = "reply", !.kind = "value"]
            OBVIOUS
        <3>2. /\ x \in ProcType /\ x.pc = "reply" /\ x.kind = "value" /\ x.op = q.op /\ x.key = q.key
              /\ x.publish = q.publish /\ x.len = q.len /\ x.data = q.data
            <4>1. "reply" \in PCs
                BY DEF PCs
            <4> QED
                BY <3>1, <4>1 DEF ProcType
        <3>3. Load(p, "verify", x)
            BY <1>4, <1>8, <2>2, <3>1 DEF TenancyAfter, Mine, Reply
        <3>4. Loads(p, x)
            BY <1>1, <3>3, LoadIsLoads
        <3>5. Store!Allowed(p, [kind |-> x.kind, key |-> x.key, count |-> x.publish \div 2,
                                len |-> x.len, data |-> x.data])
            BY <1>5, <1>6, <2>1, <2>2, <3>2 DEF Store!Allowed, HasMet
        <3> QED
            BY <1>1, <1>4, <3>2, <3>4, <3>5, LoadAnswer
    <2>3. CASE q.op # "read"
        <3>1. PICK pc \in PCs : pc = "entry_after"
            BY DEF PCs
        <3>2. PICK x \in ProcType : /\ x = [q EXCEPT !.pc = pc]
                                    /\ x.pc = pc /\ x.op = q.op /\ x.key = q.key /\ x.i = q.i
                                    /\ x.tenancy = q.tenancy /\ x.publish = q.publish
                                    /\ x.len = q.len /\ x.data = q.data
            BY PcLocals
        <3>3. Load(p, "verify", x)
            BY <1>4, <1>8, <2>3, <3>1, <3>2 DEF TenancyAfter, Mine
        <3>4. Loads(p, x)
            BY <1>1, <3>3, LoadIsLoads
        <3>5. ReaderSees(p, x)
            BY <1>5, <2>1, <2>3, <3>1, <3>2 DEF ReaderSees, LoadPCs
        <3>6. SnapshotOK(p, x)
            BY <1>1, <1>2, <1>4, <3>1, <3>2 DEF SnapshotOK, LoadPCs
        <3> QED
            BY <1>1, <1>4, <2>3, <3>1, <3>2, <3>4, <3>5, <3>6, LoadOn DEF EntryPCs
    <2> QED
        BY <2>2, <2>3
<1> QED
    BY <1>7, <1>8

\* read_entry: the state, the tenancy and the key of the entry.
LEMMA EntryStores ==
    ASSUME ReadInv, BoardInv', NEW p \in Procs, EntryState(p) \/ EntryTenancy(p) \/ EntryKey(p)
    PROVE  IsStoreStep
<1>1. /\ alive[p] /\ proc[p].pc \in {"entry_state", "entry_tenancy", "entry_key"}
      /\ proc[p].pc \in ScanPCs \cup EntryPCs /\ proc[p].pc \in EntryPCs \ ViewPCs
    BY DEF EntryState, EntryTenancy, EntryKey, Load, At, EntryPCs, ViewPCs
<1>2. /\ Typed /\ Locals /\ Identified /\ CellsWhole /\ Noted /\ ReaderSees(p, proc[p]) /\ SnapshotOK(p, proc[p])
      /\ Scope(p) = IF proc[p].op = "read" THEN {proc[p].key} ELSE Keys
    BY <1>1, Reading
<1>3. /\ proc[p] \in ProcType /\ proc[p].i \in Entries /\ proc[p].op \in {"list", "snapshot"}
    BY <1>1, <1>2, ReaderAt
<1>4. PICK q \in ProcType, i \in Entries : q = proc[p] /\ i = q.i
    BY <1>3
<1>5. {"entry_tenancy", "unlock", "entry_key", "publish"} \subseteq PCs
    BY DEF PCs
<1>6. CASE EntryState(p)
    <2>1. q.pc = "entry_state"
        BY <1>4, <1>6 DEF EntryState, Load, At
    <2>2. CASE entry[i].state = "Active"
        <3>1. PICK pc \in PCs : pc = "entry_tenancy"
            BY <1>5
        <3>2. PICK x \in ProcType : x = [q EXCEPT !.pc = pc] /\ x.pc = pc /\ x.op = q.op /\ x.key = q.key /\ x.i = q.i
            BY PcLocals
        <3>3. Load(p, "entry_state", x)
            BY <1>4, <1>6, <2>2, <3>1, <3>2 DEF EntryState, Mine
        <3>4. Loads(p, x)
            BY <1>1, <1>4, <2>1, <3>3, LoadIsLoads
        <3>5. Recorded(p, i)
            <4>1. entry[i].key \in Keys /\ Scope(p) = Keys
                BY <1>2, <1>3, <2>2 DEF Identified
            <4> QED
                BY <1>2, <2>2, <4>1, ShownIsRecorded
        <3>6. ReaderSees(p, x)
            BY <1>3, <1>4, <3>1, <3>2, <3>5 DEF ReaderSees, LoadPCs
        <3>7. SnapshotOK(p, x)
            BY <1>4, <2>2, <3>1, <3>2 DEF SnapshotOK, LoadPCs
        <3> QED
            BY <1>1, <1>3, <1>4, <2>1, <3>1, <3>2, <3>4, <3>6, <3>7, LoadOn DEF EntryPCs
    <2>3. CASE entry[i].state # "Active" /\ q.op = "snapshot"
        <3>1. PICK pc \in PCs : pc = "unlock"
            BY <1>5
        <3>2. PICK x \in ProcType : x = [q EXCEPT !.pc = pc] /\ x.pc = pc /\ x.op = q.op
            BY PcLocals
        <3>3. Load(p, "entry_state", x)
            BY <1>4, <1>6, <2>3, <3>1, <3>2 DEF EntryState, Mine
        <3>4. Loads(p, x)
            BY <1>1, <1>4, <2>1, <3>3, LoadIsLoads
        <3> QED
            BY <2>3, <3>1, <3>2, <3>4, LoadReturn
    <2>4. CASE entry[i].state # "Active" /\ q.op # "snapshot"
        <3>1. Load(p, "entry_state", Rest)
            BY <1>4, <1>6, <2>4 DEF EntryState, Mine
        <3>2. Loads(p, Rest)
            BY <1>1, <1>4, <2>1, <3>1, LoadIsLoads
        <3> QED
            BY <3>2, RestIsIdle, LoadReturn
    <2> QED
        BY <2>2, <2>3, <2>4
<1>7. CASE EntryTenancy(p)
    <2>1. PICK t \in Nat : t = entry[i].tenancy
        BY <1>2, EntryFields DEF Typed
    <2>2. PICK x : x = [q EXCEPT !.pc = "entry_key", !.tenancy = t]
        OBVIOUS
    <2>3. x \in ProcType /\ x.pc = "entry_key" /\ x.op = q.op /\ x.key = q.key /\ x.i = q.i /\ x.tenancy = t
        BY <1>5, <2>1, <2>2 DEF ProcType
    <2>4. q.pc = "entry_tenancy" /\ Load(p, "entry_tenancy", x)
        BY <1>4, <1>7, <2>1, <2>2 DEF EntryTenancy, Load, At, Mine
    <2>5. Loads(p, x)
        BY <1>1, <1>4, <2>4, LoadIsLoads
    <2>6. Recorded(p, i)
        BY <1>2, <1>3, <1>4, <2>4 DEF ReaderSees
    <2>7. ReaderSees(p, x)
        BY <1>3, <1>4, <2>1, <2>3, <2>6 DEF ReaderSees, LoadPCs
    <2>8. SnapshotOK(p, x)
        BY <1>2, <1>4, <2>3, <2>4 DEF SnapshotOK, LoadPCs
    <2> QED
        BY <1>1, <1>3, <1>4, <2>3, <2>4, <2>5, <2>7, <2>8, LoadOn DEF EntryPCs
<1>8. CASE EntryKey(p)
    <2>1. PICK k \in Keys \cup {NoKey} : k = entry[i].key
        BY <1>2, EntryFields DEF Typed
    <2>2. PICK x : x = [q EXCEPT !.pc = "publish", !.key = k]
        OBVIOUS
    <2>3. x \in ProcType /\ x.pc = "publish" /\ x.op = q.op /\ x.key = k /\ x.i = q.i /\ x.tenancy = q.tenancy
        BY <1>5, <2>1, <2>2 DEF ProcType
    <2>4. q.pc = "entry_key" /\ Load(p, "entry_key", x)
        BY <1>4, <1>8, <2>1, <2>2 DEF EntryKey, Load, At, Mine
    <2>5. Loads(p, x)
        BY <1>1, <1>4, <2>4, LoadIsLoads
    <2>6. Recorded(p, i) /\ entry[i].tenancy >= q.tenancy
        BY <1>2, <1>3, <1>4, <2>4 DEF ReaderSees
    <2>7. Fits(i, q.tenancy, k)
        BY <2>1, <2>6 DEF Fits
    <2>8. ReaderSees(p, x)
        BY <1>3, <1>4, <2>3, <2>6, <2>7 DEF ReaderSees, LoadPCs
    <2>9. SnapshotOK(p, x)
        BY <1>2, <1>4, <2>1, <2>3, <2>4 DEF SnapshotOK, LoadPCs
    <2> QED
        BY <1>1, <1>3, <1>4, <2>3, <2>4, <2>5, <2>8, <2>9, LoadOn DEF EntryPCs, ViewPCs
<1> QED
    BY <1>6, <1>7, <1>8

\* read_entry looks at the state again, then answers.
LEMMA EntryAfterStore ==
    ASSUME ReadInv, BoardInv', NEW p \in Procs, EntryStateAfter(p)
    PROVE  IsStoreStep
<1>1. alive[p] /\ proc[p].pc = "entry_after" /\ proc[p].pc \in ScanPCs \cup EntryPCs
    BY DEF EntryStateAfter, Load, At, EntryPCs, ViewPCs
<1>2. /\ Typed /\ Locals /\ ReaderSees(p, proc[p]) /\ SnapshotOK(p, proc[p])
    BY <1>1, Reading
<1>3. /\ proc[p] \in ProcType /\ proc[p].i \in Entries
    BY <1>1, <1>2, ReaderAt
<1>4. PICK q \in ProcType, i \in Entries : q = proc[p] /\ i = q.i
    BY <1>3
<1>5. PICK n \in Nat : n = q.publish \div 2
    <2>1. q.publish \in Nat
        BY DEF ProcType
    <2> QED
        BY <2>1, Parity
<1>6. CASE entry[i].state # "Active"
    <2>1. Load(p, "entry_after", Retry(q))
        BY <1>4, <1>6 DEF EntryStateAfter, Mine
    <2>2. Loads(p, Retry(q))
        BY <1>1, <2>1, LoadIsLoads
    <2> QED
        BY <1>1, <1>4, <2>2, LoadRetry
<1>7. CASE entry[i].state = "Active"
    <2>1. PICK kind \in {"value", "unwritten", "listed"} :
              kind = IF n > 0 THEN "value" ELSE IF q.op = "snapshot" THEN "unwritten" ELSE "listed"
        OBVIOUS
    <2>2. PICK x : x = [q EXCEPT !.pc = "reply", !.kind = kind]
        OBVIOUS
    <2>3. /\ x \in ProcType /\ x.pc = "reply" /\ x.kind = kind /\ x.op = q.op /\ x.key = q.key
          /\ x.publish = q.publish /\ x.len = q.len /\ x.data = q.data
        <3>1. "reply" \in PCs
            BY DEF PCs
        <3> QED
            BY <2>2, <3>1 DEF ProcType
    <2>4. Load(p, "entry_after", x)
        BY <1>4, <1>5, <1>7, <2>1, <2>2 DEF EntryStateAfter, Mine, Reply
    <2>5. Loads(p, x)
        BY <1>1, <2>4, LoadIsLoads
    <2>6. n > 0 => q.len = q.data /\ HasMet(p, q.key, n, q.data)
        BY <1>1, <1>2, <1>4, <1>5 DEF ReaderSees
    <2>7. q.op = "snapshot" /\ n = 0 => \E h \in Store!Met(p, q.key) : h.there = "yes" /\ h.count = 0
        BY <1>1, <1>2, <1>4, <1>5 DEF SnapshotOK
    <2>8. Store!Allowed(p, [kind |-> x.kind, key |-> x.key, count |-> x.publish \div 2,
                            len |-> x.len, data |-> x.data])
        <3>1. CASE n > 0
            BY <1>5, <2>1, <2>3, <2>6, <3>1 DEF Store!Allowed, HasMet
        <3>2. CASE n = 0 /\ q.op = "snapshot"
            BY <2>1, <2>3, <2>7, <3>2 DEF Store!Allowed
        <3>3. CASE n = 0 /\ q.op # "snapshot"
            BY <2>1, <2>3, <3>3 DEF Store!Allowed
        <3> QED
            BY <3>1, <3>2, <3>3
    <2> QED
        BY <1>1, <1>4, <2>1, <2>3, <2>5, <2>8, LoadAnswer
<1> QED
    BY <1>6, <1>7

\* The call returns what it answers.
LEMMA ReturnStore ==
    ASSUME ReadInv, BoardInv', NEW p \in Procs, Return(p)
    PROVE  IsStoreStep
<1>1. alive[p] /\ proc[p].pc = "reply" /\ proc[p].pc \in ScanPCs \cup EntryPCs
    BY DEF Return, Load, At, EntryPCs, ViewPCs
<1>2. PICK q \in ProcType : q = proc[p]
    BY DEF ReadInv, BoardInv, LockInv, Typed
<1>3. CASE q.op = "snapshot"
    <2>1. PICK pc \in PCs : pc = "unlock"
        BY DEF PCs
    <2>2. PICK x \in ProcType : x = [q EXCEPT !.pc = pc] /\ x.pc = pc /\ x.op = q.op
        BY PcLocals
    <2>3. Load(p, "reply", x)
        BY <1>2, <1>3, <2>1, <2>2 DEF Return
    <2>4. Loads(p, x)
        BY <1>1, <2>3, LoadIsLoads
    <2> QED
        BY <1>3, <2>1, <2>2, <2>4, LoadReturn
<1>4. CASE q.op # "snapshot"
    <2>1. Load(p, "reply", Rest)
        BY <1>2, <1>4 DEF Return
    <2>2. Loads(p, Rest)
        BY <1>1, <2>1, LoadIsLoads
    <2> QED
        BY <2>2, RestIsIdle, LoadReturn
<1> QED
    BY <1>3, <1>4

-----------------------------------------------------------------------------
(***************************************************************************)
(* The board is a key store.                                               *)
(***************************************************************************)
\* An empty board has nothing to show and nobody reading.
LEMMA ReadsBegin == Init => ReadInv /\ Store!StoreInit
<1> SUFFICES ASSUME Init PROVE ReadInv /\ Store!StoreInit
    OBVIOUS
<1>1. BoardInv
    BY InitHolds
<1>2. \A p \in Procs : proc[p] = Rest /\ seen[p] = {}
    BY DEF Init
<1>3. \A i \in Entries : entry[i].state = "Free" /\ entry[i].hash = NoKey /\ entry[i].publish = 0
    BY DEF Init, FreeEntry
<1>4. \A p \in Procs : Scope(p) = {}
    BY <1>2, RestIsIdle DEF Scope
<1>5. Identified
    BY <1>2, <1>3, RestIsIdle DEF Identified
<1>6. CellsWhole
    <2>1. ~(0 \div 2 > 0)
        OBVIOUS
    <2> QED
        BY <1>3, <2>1 DEF CellsWhole
<1>7. Writing
    BY <1>2, RestIsIdle DEF Writing
<1>8. CachesFit
    BY DEF Init, Unresolved, CachesFit
<1>9. ReadersOK
    BY <1>2, RestIsIdle DEF ReadersOK, ReaderOK, ReaderSees, SnapshotOK, LoadPCs
<1>10. Noted
    <2>1. seen = [p \in Procs |-> seen[p]]
        BY DEF Init
    <2> QED
        BY <1>2, <1>4, <2>1 DEF Noted, Store!Asked
<1>11. Store!StoreInit
    <2>1. \A k \in Keys : Held(k) = Store!Absent
        BY <1>3, <1>5, HeldShown
    <2>2. StoreReply = [p \in Procs |-> Store!NoReply]
        BY <1>2, RestIsIdle DEF StoreReply, Store!NoReply
    <2>3. seen = [p \in Procs |-> {}]
        BY DEF Init
    <2> QED
        BY <2>1, <2>2, <2>3 DEF Store!StoreInit
<1> QED
    BY <1>1, <1>5, <1>6, <1>7, <1>8, <1>9, <1>10, <1>11 DEF ReadInv

\* Every step of every process is a step of the key store or none.
LEMMA ReadsGoOn == ReadInv /\ [Next]_vars => IsStoreStep
<1> SUFFICES ASSUME ReadInv, [Next]_vars PROVE IsStoreStep
    OBVIOUS
<1>0. BoardInv'
    BY BoardInvKept DEF ReadInv
<1>1. CASE UNCHANGED vars
    BY <1>0, <1>1, StutterStore
<1>2. CASE Next
    <2>1. PICK p \in Procs : \/ LockStep(p) \/ DeclareStep(p) \/ SweepStep(p)
                             \/ WriterStep(p) \/ ReadStep(p) \/ WaitStep(p) \/ Crash(p)
        BY <1>2 DEF Next
    <2>2. CASE LockStep(p)
        BY <1>0, <2>2, LockStores, RepairStore, UnlockStores DEF LockStep
    <2>3. CASE DeclareStep(p)
        BY <1>0, <2>3, StartStores, PlainStores, TenancyStores, ClaimStores, ActivateStore DEF DeclareStep
    <2>4. CASE SweepStep(p)
        BY <1>0, <2>4, StartStores, SweepStore, FreeStores, PlainStores DEF SweepStep
    <2>5. CASE WriterStep(p)
        BY <1>0, <2>5, StartStores, PlainStores, WriterStores, TenancyStores, WakeStore DEF WriterStep
    <2>6. CASE ReadStep(p)
        <3>1. CASE \/ \E k \in KeysOf[p] : StartRead(p, k)
                   \/ \E i \in Entries : StartList(p, i) \/ StartSnapshot(p, i)
            BY <1>0, <3>1, AskStores, StartStores
        <3>2. CASE \/ Resolve(p) \/ ScanState(p) \/ ScanHash(p) \/ ScanTenancy(p) \/ ScanKey(p) \/ ScanEnd(p)
                   \/ TenancyBefore(p)
            BY <1>0, <3>2, ResolveStore, ScanStores, ScanKeyStore, ScanEndStore, TenancyBeforeStore
        <3>3. CASE \/ PublishBefore(p) \/ LoadLen(p) \/ LoadData(p) \/ PublishAfter(p) \/ TenancyAfter(p)
                   \/ EntryState(p) \/ EntryTenancy(p) \/ EntryKey(p) \/ EntryStateAfter(p) \/ Return(p)
            BY <1>0, <3>3, PublishBeforeStore, CellStores, TenancyAfterStore, EntryStores, EntryAfterStore, ReturnStore
        <3> QED
            BY <2>6, <3>1, <3>2, <3>3 DEF ReadStep
    <2>7. CASE WaitStep(p)
        BY <1>0, <2>7, StartStores, WaitStores DEF WaitStep
    <2>8. CASE Crash(p)
        BY <1>0, <2>8, CrashStore
    <2> QED
        BY <2>1, <2>2, <2>3, <2>4, <2>5, <2>6, <2>7, <2>8
<1> QED
    BY <1>1, <1>2

\* The readers' invariant holds in every state of the board.
THEOREM ReadsInvariant == Spec => []ReadInv
<1>1. ReadInv /\ [Next]_vars => ReadInv'
    BY ReadsGoOn DEF IsStoreStep
<1> QED
    BY <1>1, ReadsBegin, PTL DEF Spec

\* What Reader::read, read_all() and snapshot() answer is true: a value is one
\* the key held at some moment of the call, whole and with its own count; ENOENT
\* is answered only of a key that was gone or going then, ENOMSG of one gone,
\* going or not yet written, and a snapshot shows a key without a value only if it
\* was there unwritten (what keys() names is left open), however many writes,
\* take-overs, releases, sweeps, repairs and deaths fall into the call.  The board
\* itself changes one key at a time: from absent to unwritten, by one more whole
\* write, and in two steps back to absent.
THEOREM BoardIsAKeyStore == Spec => ReadsAreTrue
<1>1. Init => ReadInv /\ Store!StoreInit
    BY ReadsBegin
<1>2. ReadInv /\ [Next]_vars => ReadInv' /\ [Store!StoreNext]_(Store!storeVars)
    BY ReadsGoOn DEF IsStoreStep
<1> QED
    BY <1>1, <1>2, PTL DEF Spec, ReadsAreTrue, Store!StoreSpec
=============================================================================
