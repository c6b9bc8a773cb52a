# A TLA+ model of kickmsg

kickmsg is a publish/subscribe, mailbox and blackboard library over shared
memory. Its processes share one mapped *region* per channel or board and one
*registry* per namespace, and coordinate with atomic words only: there is no lock
on the data path and any process may die at any instruction. This directory
models the protocols on those words, model-checks them with TLC on small
instances and proves the most important invariants with TLAPS for every number
of processes, rings, entries and slots.

File names below are those of the repository's `src/` and `include/kickmsg/`
directories.

## 1. Inventory

| Component | State it keeps | Operations | What makes it hard |
|---|---|---|---|
| Publisher (`Publisher.cc`) | reserved slot; locals of `publish()` | `allocate`, `publish`, `send`, `release_pending` | several publishers on one ring entry, commit timeouts, a thief that resumes, preset references |
| Subscriber (`Subscriber.cc`) | `read_pos_`, drain window, sample views | constructor, `try_receive(_view)`, `receive(_view)`, `arm_wait`, `release_ring` | pin racing eviction, hand-over of a ring while publishers are inside it, missed wakes |
| Ring and slot words (`types.h`, `types.cc`) | `sequence`, `meta`, `state_flight`, `free_top` | `entry_steal_and_skip`, `treiber_push`, `treiber_pop` | packed words, ABA, plain stores after a CAS |
| Region recovery (`Region.cc`) | none of its own | `repair_locked_entries`, `reset_retired_rings`, `reclaim_dead_rings`, `reclaim_orphaned_slots` | runs under live traffic, positions and liveness verdicts go stale |
| Waiting (`WaitAny.cc`, `Waker.cc`, `os/linux/Futex.cc`) | `has_waiter`, descriptors | `wait_any`, `drain`, `futex_wait`, `signal` | lost wake-ups |
| Region creation and schema (`Region.cc`, `os/posix/SharedMemory.cc`) | names, objects, header, magic, schema claim | `create`, `open`, `create_or_open`, `unlink`, `try_claim_schema`, `reset_schema_claim` | racing creators, a creator or claimant that dies half way, failing system calls, sizes that wrap |
| Registry (`Registry.cc`) | one row per participant | `register_participant`, `deregister`, `snapshot`, `sweep_stale` | rows change hands without a lock, sweep against re-registration, seqlock reads |
| Blackboard (`Blackboard.cc`) | board lock, entries, two value cells per entry, `change_seq` | `declare`, `write`, `release`, `sweep_stale`, `read`, `keys`, `snapshot`, `wait` | dead lock holder, torn reads, entry re-use, lost wakes |
| Node (`Node.cc`) | cached regions, registry slots and roles | `advertise`, `subscribe`, mailboxes, broadcast, `blackboard`, `unlink_*`, schema calls, `~Node` | composition: region and registry fail, die and fill up independently |
| OS layer (`os/`) | | process liveness, shared memory, futex, multicast | each call may fail |
| Hash, naming, Python bindings and tools | | pure functions, wrappers, display | not protocol code |

How they interact. A **node** serves each call by attaching to the region of the
topic (creating, opening, or whichever comes first) and then announces itself in
the **registry**, which it opens or creates on first use. On a channel, a
**publisher** takes a slot off the free stack, writes the payload, sets the slot's
reference count to the number of rings and then, ring by ring, is admitted through
`state_flight`, claims a position of `write_pos`, waits for the entry's previous
wrap, locks the entry through its `sequence` word, moves the entry's claim
(`meta`) from the old slot to its own, drops the reference of the evicted slot and
commits. A **subscriber** that follows `write_pos` pins a slot by raising its
reference count, re-checks the sequence word and hands out a view. Leaving, it
makes the ring Draining, waits until no publisher is admitted, drops the
references of the claims left in the window of its tenancy and frees the ring.
**Recovery** works on the same words from another process, at any time. **Waiting**
adds `has_waiter`, which couples a sleeping subscriber with the end of `publish()`.
A **blackboard** serialises `declare`, `release` and sweeps on a lock that is taken
over from a dead holder; its reads and writes take no lock and meet in a seqlock.

What has to hold, and where it can go wrong, is the list of hazards in
`PROJECT.json`; each names the properties below that would notice.

## 2. Modules

| Module | Models | Extends |
|---|---|---|
| `ChannelState` | words, variables and frames of one channel region | |
| `Publisher` | `Publisher.cc`, one action per access to shared memory | `ChannelState` |
| `Subscriber` | constructor, `try_receive_view`, views, `release_ring`, `drain_unconsumed` | `ChannelState` |
| `Recovery` | the four recovery calls of `Region.cc` and crashes | `ChannelState` |
| `Channel` | the composition: `Init`, `Next`, fairness, properties | the three above |
| `RingTenancy` | one ring's owner fields and packed word, with *every step* of `reclaim_dead_rings` | |
| `FreeStack` | `treiber_push`/`treiber_pop` with tagged top, stale tops and links, weak CAS, crashes | instantiates `SlotPool` |
| `SlotPool` | abstract pool: take a free slot, give one back | |
| `Wake` | `wake_ring`, the signal, `receive`, `arm_wait`, `wait_any` | |
| `Process` | liveness by pid and start time, the budget of faults | |
| `Setup` | `SharedMemory`, `SharedRegion::create`/`open`/`create_or_open`, the schema claim | `Process` |
| `Registry` | the participant table | `Process` |
| `Node` | the calls of a node over `Setup` and `Registry`, the observers | `Setup`, `Registry` |
| `Layout` | `validate_config`, `compute_layout`, the stamped header, `validate_snapshot`, as operators on words that wrap | |
| `Blackboard` | the board: lock, entries, writers, readers, waiters | instantiates `KeyStore` |
| `KeyStore` | abstract store: what a reader may be told of a key | |
| `MCChannel`, `MCWake`, `MCBlackboard`, `MCNode` | symmetry sets, constant functions and scenarios for TLC | |
| `MCTheft` | one schedule of three publishers, for the finding of section 4 | |
| `ChannelProofs`, `TenancyProofs`, `RingTenancyProofs`, `FreeStackProofs`, `WakeProofs`, `LayoutProofs`, `BlackboardProofs`, `NodeProofs` | theorems and proofs | the module proved about |

### State and actions against the code

A step is one atomic access to shared memory with the local computation up to the
next one, unless said otherwise. Program counters and the locals the code keeps
across steps, stale values included, are records per process (`pub[p]`, `sub[u]`,
`gc`, `rec[q]`, `thr[t]`, `att[p]`, `reg[p]`, `node[p]`, `proc[p]`).

*Channel.*
* Compare-and-swap loops whose failure only reloads the word (admission, the
  `meta` take-over, the pin of `try_receive_view`) are their successful step; a
  loop whose retries re-decide something (the lock of an entry, `treiber_push` and
  `pop`) has its retry as an action. `LockGiveUp` abstracts the 64 attempts of the
  lock loop to any number. The relaxed pre-check of the ring state before
  admission is left out: admission re-reads the word it swaps.
* A `sequence` word is a record of tag and position (`commit` and `skip` carry
  `pos + 1`, `lock` and `repair` carry `pos`), `meta` a record of position tag and
  slot, `state_flight` the pair `state`, `flight`. Positions are naturals: the 40
  bits of the claim's tag and the 64 of `write_pos` do not wrap in the model.
  `Channel` keeps the free stack as a set; `FreeStack` justifies that.
* A payload is the pair of its publisher and its number. Writing it is merged with
  `Allocate`: the slot belongs to that publisher alone until the first delivery.
* Timeouts are nondeterministic: `WaitTimeout` and `QuiesceTimeout` may happen
  whenever the condition waited for is not met, so a slow process and a dead one
  look alike to its peers, as in the code. `SlowRepair = FALSE` is the one timing
  assumption: a *live* repairer does not stall past `commit_timeout` between the
  CAS and the plain store of `entry_steal_and_skip`. Crashes there are allowed
  either way. Only `channel_wrap` needs it; `channel_theft` makes it too, so that
  its violation does not come from there.
* `Crash*` removes a process for good, with its local state. References, pins and
  admissions of dead processes stay counted until `ReclaimOrphanedSlots` and
  `ResetRetiredRing` account for them (`settled`, `unadmitted`). Both calls are
  guarded by what their documentation demands of the operator: no live process
  inside an operation, and no live publisher among those counted.
* In `Channel` a dead ring is reclaimed in one step. `RingTenancy` has the load of
  the word, the loads of pid and start time, the second load, the CAS, the
  re-verification with its two loads, the erasing of the owner and the final CAS
  one by one; a subscriber stores its start time before its pid. `LooksDead` is
  the verdict from a pid loaded earlier and the start time there is now.

*Wake.* The rings stay Live, a payload is its position and the steal of
`self_repair` is one step. The datagram may go out early: on an entry that blocks,
`publish()` signals for the rings so far and forgets that it owes a signal
(`EarlyLook`, `EarlySignal`), so that the final one may never follow. Every
publisher has a wake backend and a thread has one `Waker`. A datagram reaches every open descriptor; the sockets and the futex are
the operating system's and are taken at what their callers rely on.

*Setup, Registry, Node.*
* `path` leads from a name to an object, `objs` are the objects in the order of
  their creation; unlinking removes a name and leaves the object to those that
  mapped it. An object is unsized, sized, stamped and published by its magic
  number, in that order; each system call may fail. What a header says of its
  region (`stamp`) is its topic, its configuration (two of them suffice to differ)
  and its schema.
* Each wait of `create_or_open` may run out. A timeout is free once somebody died,
  else it costs one of the `faults`, as do deaths and failed calls.
* A row of the registry has a state, a generation (odd while somebody writes), a
  pid and its description, which names who wrote it. The rows are one table
  because `JoinersMeet` shows that there is one registry. A full table is swept
  `Sweeps` times (3 in the code, 1 in the instance).
* A node's calls are records of how they reach their region and in which role; a
  call on a region the node has checks the cached handle instead.

*Layout.* Unsigned words wrap at `WordMax`; the sizes of the structures and the
limits of the code are constants.

*Blackboard.*
* Stores that only the lock's holder can tell apart are merged (the scan of
  `declare`); each store a lock-free reader can see is a step: state, `publish`,
  key, identity, tenancy, the two halves of a value and its length.
* A value is named by the number of its write; its bytes and its length are two
  stores, so a torn value is one whose two names differ. `Held` is what the board
  shows of a key, `seen` what a call has met of it since it began; a snapshot
  begins with taking the lock over, before the repair.
* The kernel compares the low 32 bits of `change_seq` with the value waited on:
  `SameWord` compares modulo `FutexSpan`.
* A process restarted after a crash is another process: the lock token and the
  owner fields carry the start time.

Memory is sequentially consistent. For the `has_waiter` handshake the two
`seq_cst` fences justify it; elsewhere the code relies on acquire/release pairs
per word, which a model of interleaved accesses cannot refute.

`sent`, `since`, `stranded`, `settled`, `unadmitted` (Channel), `stack`, `out`
(FreeStack), `unlinks` (Setup), `seen` and `used` (Blackboard) are history
variables or bounds: no guard of modelled code reads them, except that a process
pushes only slots in use.

## 3. Properties and runs

| Run | Instance | Checks |
|---|---|---|
| `channel_wrap` | 2 publishers x 2 messages, 1 reader, 1 ring of 1 entry, 2 slots, a crash anywhere | `RefcountExact`, `SlotHasOneHome`, `ViewShowsItsMessage`, `NewerEntryKept`, `ClaimShowsItsMessage`, `ViewIsStable` |
| `channel_tenants` | 1 publisher x 3 messages, 2 subscribers, 2 rings of 2 entries, 3 slots, no views | `TypeOK`, `RefcountExact`, `SlotHasOneHome`, `InFlightExact`, `DrainIsAlone`, `DrainedRingIsEmpty`, `NoReplay` |
| `channel_crash` | 2 publishers, 1 subscriber, 2 rings of 1 entry, a crash anywhere (the repairer included), all recovery calls | `RefcountExact`, `SlotHasOneHome`, `InFlightExact` |
| `channel_progress` | as `channel_crash` on one ring, without repair passes and with fairness | `PublishTerminates` |
| `tenancy` | 2 publishers, 2 crashes, 2 joins per subscriber, with 2 subscribers and 1 reclaimer or 1 subscriber and 2 reclaimers; fairness | `TypeOK`, `SoleTenant`, `FlightExact`, `DeadRingIsReleased` |
| `free_stack` | 3 processes, 3 slots, 8 generations, crashes | `ListIsStack`, `PoolIsKept` |
| `wake` | 2 publishers, 1 thread with 2 rings, fairness | `TypeOK`, `SleeperIsOwed`, `SleeperWakes` |
| `node` | 2 nodes and an observer on 1 name, six scenarios | `TypeOK`, `CallGetsItsRegion`, `JoinersMeet`, `SchemaIsWhole`, `WritersAreAlone`, `SnapshotIsCoherent`, `SlotIsMine` |
| `board_owners` | 3 processes, 2 keys, 2 entries, 3 declares, 1 write, 1 sweep, 2 crashes | `HolderIsAlone`, `KeyIsUnique`, `WriterKeepsEntry`, `UnlockedIsClean` |
| `board_reads` | 2 writers, 1 reader, 2 keys, 1 entry, 3 writes, 2 attempts per read, a crash | `TypeOK`, `SleeperIsOwed`, `ReadsAreTrue` |
| `channel_theft` | violation | `ViewShowsItsMessage` |
| `tenancy_two_reclaimers` | violation | `SoleTenant` |

* `RefcountExact`: a slot's count is the number of ring entries that claim it plus
  the pins and the references in the hands of publishers and drainers.
* `SlotHasOneHome`: every slot is free, referenced, or in one process's hands.
* `ViewShowsItsMessage`: what a view shows is the message published there, for as
  long as the view is held. It holds with two publishers, two messages each, and
  fails with three (section 4).
* `ClaimShowsItsMessage`: the slot that an entry's claim names holds the message of
  the position the claim was made for, for as long as the claim stands.
* `ViewIsStable`: no step changes the bytes under a view that is held. This half of
  the former needs no bound: it is proved.
* `NewerEntryKept`: the claim of a committed entry is never taken over for an older
  position than the committed one.
* `InFlightExact`, `FlightExact`: the count of admissions is exact, so no
  decrement borrows from the state bits of the packed word.
* `DrainIsAlone`, `DrainedRingIsEmpty`, `NoReplay`: a tenancy ends with nobody
  else inside, leaves no claim behind and shows its successor nothing old.
* `PublishTerminates`: `publish()` returns although a peer died with a lock.
* `SoleTenant`: two live subscribers never share a ring. `DeadRingIsReleased`: the
  ring of an owner that died while no reclaim was under way becomes Free again as
  long as somebody calls `reclaim_dead_rings`, with two excuses. A pass may erase
  the owner's name and not free the ring (`Lost`), which the documentation does not
  foresee (section 4). And publishers may enter the ring for ever, each time failing
  the one CAS of a pass. Either excuse is needed: without it the run fails.
* `ListIsStack`: the list from `free_top` is exactly the sequence of pushes not yet
  popped. `PoolIsKept`: the stack implements `SlotPool` (a refinement checked as a
  temporal property and proved).
* `SleeperIsOwed`, `SleeperWakes` (Wake): while a thread sleeps on a ring with a
  claimed position, its wake is under way; and it arrives without anybody's
  timeout.
* `CallGetsItsRegion`: a call that got a region got a published one, of its own
  topic and, unless it only opens, of its own configuration. `JoinersMeet`: those
  who join a name map one object, but for unlinks. `SchemaIsWhole`: a schema that
  is Set has its descriptor and its blob from one claimant, and nobody writes it.
* `WritersAreAlone`: claimants, leaving owners and sweepers of a row exclude each
  other. `SnapshotIsCoherent`: no snapshot pairs one participant's identity with
  another's description. `SlotIsMine`: the row a live node recorded is its own,
  settled and in the role recorded, and the node is in no other row.
* `HolderIsAlone`: a live process inside a locked board operation holds the lock.
  `UnlockedIsClean`: no entry is half claimed or half freed while nobody holds it.
  `KeyIsUnique`: no two entries readers can resolve carry one key.
  `WriterKeepsEntry`: nobody moves the tenancy, owner, key or count of writes
  under a live Writer.
* `SleeperIsOwed` (Blackboard): a waiter that sleeps over a change has a wake under
  way, or lost with a process that died between the bump and the wake.
* `ReadsAreTrue`: the board implements `KeyStore` for its readers. A value a call
  returns is one the key held, whole and with its own count, at some moment of the
  call; ENOENT is answered only for a key that was gone, or being removed, at some
  moment. The names in `keys()` are not constrained.

Every property has a mutant: a plausible bug in the modelled code, kept next to
the definition it replaces, under which the run fails.

**Bounds.** `MaxMsgs`, `MaxJoins`, `MaxViews`, `MaxRepairs`, `MaxCrashes`,
`MaxGone` and `MaxGen` cap counters. A ring of one entry makes every message
wrap, so two publishers with two messages reach evictions, take-overs of older
claims, steals from a slow publisher and its late return. Two slots for that ring
make the pool run dry. Two rings with a capacity of two give a fan-out with excess
references and a drain window that is smaller than, equal to and larger than the
ring (the third slot is what lets the window outgrow it; the views that would
multiply that run's states are held in `channel_wrap` and `channel_crash`). The
publishers of `tenancy` enter and leave without a bound; two of them let a count of
two survive a retirement, a reclaim and a crash. `Casts` says who may take part
together: two subscribers need the ring to themselves with one reclaimer, since
`SoleTenant` fails with two (section 4), while two reclaimers need one subscriber.
Two deaths, the owner's and one more, let a pass of one reclaimer meet the residue
of the other. `MaxGone` counts the dead and, of the six processes, the one absent.
One message per publisher in `wake` suffices, since a lost wake needs one message and a second publisher to interfere. A bug
that needs two crashes in one channel is outside the runs.

`Plans` gives `node` its scenarios, each with its calls and its budget of faults:
`Setting` (nothing there yet: racing creators and joiners with equal, other and
colliding configurations, an unlink, schema claims, two faults), `Mail` and
`Boards` (the other entry points, one fault), `Roles` (region and registry are
there, one row for two nodes that change roles, an observer, one fault), `Rooms`
and `Meetings` (rows for both, calls that do not fit the cached region). One
process of the two races is enough for each role since names are independent.

In `board_owners` two entries and two keys make the board full, so that `declare`
sweeps; two crashes let a repairer die in the repair of another's residue. In
`board_reads` one entry is re-used for another key and three writes go round its
two cells; `CallsAfter` lets calls begin once there is something to read, `Mortal`
names who may die and `RetryBudget` stands for the 64 attempts of a read.
`FutexSpan = 8` is more than the changes there can be, so that the runs meet no wrap.

`CHECK_DEADLOCK FALSE` is set where the bounds make the system stop: publishers
out of messages, subscribers out of joins, nodes out of calls. `free_stack` has no
such line: its processes may always retry or crash.

`MCNode` also evaluates the assertions about `Layout` on words of one byte, over
configurations and headers around the limits (`CreatorsAreAccepted`,
`SnapshotsAreSafe`), and that some of them pass.

**Fairness.** Weak fairness of the steps a running process takes inside a call it
has entered (`PubStep`, `SubStep`, `GcStep`, `ThrStep`, `RecStep`), never of
starting a call. Each of these loops is a thread the operating system schedules.
In `RingTenancy` fairness also says that `reclaim_dead_rings` is called again and
again, which the documentation asks of its users. Nothing says that the single CAS
of a pass meets a moment without publisher traffic: `DeadRingIsReleased` itself
excuses a ring that publishers enter for ever. In `wake` no
timeout of a caller is counted on; only the nap of `poll_cap`, which the code
itself sets, ends by time.

## 4. Findings

* **A lock stolen for an older position** (`channel_theft`). `self_repair` steals
  any lock that was stable over its wait and does not compare its position with
  its own. A publisher that resumes with an old position thus takes the lock from
  a newer one and marks the entry skipped *for the old position*: the sequence
  moves back, and a third publisher, whose position follows the old one, locks and
  commits. The victim, past its early check, has the newest position of the three:
  the ordering of claims, which ARCHITECTURE.md:1150 and 1330 count on to refuse
  it, lets it replace the committed entry's claim and release its slot. The slot is
  re-used while the sequence still says what the reader read, so the seqlock check
  passes and the position is delivered with another message's bytes. Nobody dies
  and no recovery call runs. The counts are right all the while
  (`ChannelRefcountExact`), and the bytes do not change once delivered
  (`ChannelViewIsStable`). The schedule needs five claims by three publishers on a
  ring of one entry, beyond an exhaustive search: `MCTheft` fixes who claims in
  which order and who is preempted, and leaves every step itself to `Next`. It was
  met when the claim that a committed entry's `meta` names its own payload
  (ARCHITECTURE.md:558) turned out not to be inductive. It is also the only way
  to a wrong view: without a take-over of a committed entry there is none
  (`ChannelViewShowsItsMessage`), and the claim itself never lies about its own
  position (`ChannelClaimShowsItsMessage`).
* **A live owner looks dead** (`tenancy_two_reclaimers`). `ring_owner_dead` loads
  the pid and then the start time. If the tenant leaves and the next one stores
  its start time in between, the live pid of the one meets the start time of the
  other. One reclaimer that falls for it does no harm to the ring (proved), but it
  may erase the owner fields of the new tenant, whose ring then leaks should it
  die. Two reclaimers can hand a live subscriber's ring to another, with nobody
  dead: one displaces the new tenant to Reclaiming on its torn first look, and the
  other, past its torn re-check, sets the ring Free.

Noticed and not backed by a run of its own:

* ARCHITECTURE.md:1492-1494 says of a reclaimer that crashes mid-pass that the
  "residue is recovered by a later call (owner dead)". The owner's name is erased
  before the CAS to Free (Region.cc:782, 788): a reclaimer that dies in between
  leaves the ring Reclaiming without an owner, and an absent owner is not dead to
  `ring_owner_dead`, so no later pass touches it. With a subscriber, two reclaimers
  and two deaths, TLC refutes that a ring without a tenant always leaves Reclaiming.
* Two reclaimers, neither of which dies, may lose the ring of a dead subscriber in
  the same way. Reclaiming is itself a state that a pass reclaims, so the CAS to
  Reclaiming excludes nobody (ARCHITECTURE.md:1485-1488 speaks of "that
  exclusivity"): one erases the owner, the re-check of the other takes the erased
  owner for a live one and restores the ring to Live or Draining, and the final CAS
  of the first fails. `Lost` in `DeadRingIsReleased` is these two cases.
* Registry.h:43 says that a snapshot includes "only Active rows with a stable even
  generation". State and generation are loaded one after the other at both ends of
  the copy (Registry.cc:318, 323, 342, 343): a row that is given up after the first
  state and registered again before the second passes both checks, and the former
  description is listed under pid 0. That is why `SnapshotIsCoherent` allows a row
  without an identity (TLC refutes the stricter formula with nobody dying); two
  participants are never mixed (proved).
* A repairer that stalls past `commit_timeout` between the CAS and the plain store
  of `entry_steal_and_skip` overwrites whatever the entry holds by then, so that
  an older publisher can commit under a newer one's claim (`SlowRepair = TRUE`, two
  publishers of two messages and one repair pass; ARCHITECTURE.md:558). A repair
  pass under traffic may also move a `sequence` word back by a wrap
  (ARCHITECTURE.md:441 calls it monotonic).
* A reclaimer that dies between displacing a live tenant and restoring it leaves
  that subscriber deaf until it leaves by itself.
* `Reader::read` answers ENOMSG from a `publish` word of 0 without looking at the
  tenancy again. A claim for another key resets that word before it replaces key
  and tenancy, so the answer may be about a key that was written and then removed,
  where Blackboard.h:54 says "declared, never written". `KeyStore` therefore allows
  ENOMSG for an absent key.
* `read_entry` loads the tenancy before the state, so `keys()` may list a key just
  removed; Blackboard.h:125-128 calls `publish`
  monotonic, but a claim sets it back to 0.
* On Linux a failed mapping in `SharedMemory::create` leaves an object of size 0
  behind its name.
* `head_state` answers Ready for an overrun ring, with the comment that
  `try_receive` then returns a sample, which it does not when the entry it
  resynchronises to is still locked; and ARCHITECTURE.md says that `disarm_wait()`
  drains a privately owned Waker, where the code only stores `WaiterNone` and
  `wait_any` drains.

## 5. Proofs

All theorems hold for every value of the constants allowed by the named
assumptions of the modules: finite sets of processes, positive sizes, markers
outside the sets they mark, and plans of calls that make sense (`NodeAssumption`:
a call has a mode and a real topic; observers make none). The bounds that TLC
needs are ordinary constants in them, so that every bound is covered.

Each safety proof has the same shape: an inductive invariant, one lemma per group
of actions that says what the step does to the words the invariant speaks of, one
lemma per group that the invariant survives, and the theorem by
`Init => Inv`, `Inv /\ [Next]_vars => Inv'`, `Inv => Property`. TLC checked every
invariant below on the runs' instances before it was proved.

* `ChannelTypes`: `Spec => []TypeOK`. The invariant is `TypeInv`, the types with
  `Shape`: which locals name a slot at which program counter. Without it a slot
  index read from a local could be the "none" marker.
* `ChannelRefcountExact`, `ChannelSlotHasOneHome` (`ChannelProofs`): by `CountInv`.
  A slot's `Account` is what its claims, the publishers that offer it or evicted
  it, the pins and the views add up to. The steps are sorted by what they do to
  one slot (`Balanced`: rest, take off, put back, open, pin, drop), and each of
  these keeps count, account and home together (`BooksKept`). Two facts make the
  sums right: a publisher sets aside at most one reference per ring it has been to
  (`ExcessFits`), and a view is of a position its reader has passed
  (`ViewsArePast`), so that no delivery adds a view that is already there. Neither
  timing nor the number of publishers matters: `SlowRepair` is any value.
* `ChannelViewIsStable`: a held view is a reference, so its slot is not on the
  stack, and only the publisher that pops a slot writes it. An action property, by
  `CountInv`.
* `ChannelNewerEntryKept`: by `ClaimInv`. A publisher past its take-over finds its
  own claim or a newer one in the entry, since the tag of a claim never decreases
  (`TagsGrow`), and only the commit CAS stores a committed word (`CommitsOnly`).
  The sequence, in contrast, does move back.
* `ChannelInFlightExact`, `ChannelDrainIsAlone` (`TenancyProofs`): by
  `TenancyInv`. A ring has one holder; the ring's state follows the holder's
  program counter; a Live ring's holder is named unless it is about to store its
  name; an owner that is named holds the ring, dead or alive; and a holder that
  has seen `in_flight = 0` in Draining is alone, since nobody is admitted to a
  ring that is not Live.
* `ChannelDrainedRingIsEmpty`, `ChannelNoReplay` (`TenancyProofs`): by `DrainInv`
  on top of it. A claim was made for a position that maps to its entry; in a ring
  that was always drained, whatever is claimed, or will be claimed by a publisher
  inside, is not older than the floor of the present tenant; what is still claimed
  during the drain lies in what is left of its window. That the window suffices is
  arithmetic: it reaches back to the floor, or it is as long as the ring and then
  meets every entry (`WindowMeetsAll`).
* `ChannelClaimShowsItsMessage` (`TenancyProofs`): by `ClaimsAreTrue`. `sent` has
  exactly the messages of the positions claimed; a publisher finds its own message
  in its slot as long as it has reserved it or owes it a reference; a claim is made
  with that slot under that position, and from then on the claim is the reference
  that keeps the slot off the stack (`UsedIsNotFree`, from `CountInv`).
* `ChannelViewShowsItsMessage` (`TenancyProofs`) is
  `Spec /\ []NoLateTakeOver => []ViewShowsItsMessage`: no bound on publishers,
  messages, crashes or repairs, and any `SlowRepair`. A position is one
  publisher's (`PositionIsOnes`), so once committed nobody commits it again
  (`CommitsPassed`), and the sequence word a reader saw cannot come back after it
  went (`ReadersShow`). While the word stands the claim stands: a drainer would
  need the ring that the reader holds (`TenancyInv`), and a publisher is what
  `NoLateTakeOver` excludes. The hypothesis is a timing assumption on one window,
  from the look at the lock (Publisher.cc:261) to the CAS on the claim (275), whose
  holder would have to sleep there through a steal, which takes `commit_timeout`,
  and a commit for an older position. The code does not enforce it (section 4), so
  it is a hypothesis of the theorem and not an assumption of the model. Two
  publishers always meet it, since what the thief of a lock commits afterwards is
  newer than the victim's position, which is then refused: TLC finds it invariant
  on the instance of `channel_wrap`. A third publisher with a position in between
  breaks it.
* `RingHasOneTenant`, `FlightIsExact`, `TenancyTypes` (`RingTenancyProofs`): the same for one ring
  with the steps of `reclaim_dead_rings`, in behaviours with
  one reclaimer (`Spec /\ OneReclaimer => []...`); section 4 says why. A reclaimer's
  verdict may be torn, so that a live tenant can be displaced,
  restored and robbed of its name. What saves the ring is in `ReclaimerIsRight`:
  while the word says Reclaiming nobody new can come, so the pid re-read then is
  the tenant's or nobody's, and a verdict of death under Reclaiming means an empty
  ring; a torn one can only come after the word has moved on, and then the final
  CAS fails. `SeenFits` says that the state given back to a displaced tenant is
  one it may have.
* `StackIsList`, `StackImplementsPool` (`FreeStackProofs`): by `StackInv`. The
  heart is `Observed`: a process whose observed top has the current generation
  has observed the current top, and the link it wrote or read is still right.
  This is what the generation is for. The proof assumes that the generation does
  not wrap, which `MaxGen` stands for: 2^32 pushes and pops during one iteration
  of somebody's loop.
* `WakeTypes` and `NoLostWake` (`WakeProofs`): `Spec /\ []NoWrap => []SleeperIsOwed`, by `WakeInv`:
  what a thread has sampled equals what it has read up to the point where it
  stores `has_waiter`; a position claimed later than that belongs to a publisher
  that has not looked at `has_waiter` yet, so that an early signal of that
  publisher, which is for the rings before, takes nothing away; and a ring for
  which `arm_wait` has answered Armed keeps both facts while the pass goes on over the other rings.
  `NoWrap` says that the low half of `write_pos`, which is what the futex
  compares, does not go all the way round between the load and the sleep.
* `SnapshotLeadsInside`, `CreatorsHeaderIsAccepted` (`LayoutProofs`): a header that
  passes `validate_snapshot` keeps every ring, entry, slot and payload in place and
  inside the mapping, whoever wrote it; and a configuration the creator lets
  through is stamped, without a word wrapping, as a header that passes. The second
  follows the order of `compute_layout`: each check bounds the next product.

* `BoardTypes`, `BoardLockExcludes`, `UnlockedBoardIsClean`, `BoardKeyIsUnique`,
  `WriterIsSafe`, `SleeperIsOwedAWake` (`BlackboardProofs`): by `BoardInv`. Its core,
  `LockInv`, says what the board looks like at each program counter of the lock's
  live holder (`Scene`): which entry is half claimed or half freed, which one the
  repair has reached, and that all others are clean. A dead holder leaves its
  scene behind; who takes the token over finds it and `repair_board` undoes it
  before the board is used or unlocked. `Writers` adds what a live `Writer` relies
  on, and `WaitersExact` that the waiter count is the number of those between their
  increment and their decrement, dead ones included. `SleeperIsOwedAWake` is
  `Spec /\ []NoWrap => []SleeperIsOwed`: what a waiter compares is never ahead of
  `change_seq` (`SawBefore`), and `NoWrap` says, as in `Wake`, that the low half of
  `change_seq` does not go all the way round between the look and the sleep.
  Blackboard.h:433-435 names the same limit.
* `BoardIsAKeyStore` (`BlackboardProofs`): `Spec => ReadsAreTrue`, the refinement of
  `KeyStore`, by `ReadInv` on top of `BoardInv`. Readers take no lock, so the
  invariant says what a load is still worth after any number of foreign steps.
  * Of the board: no two entries that readers can meet carry one key or one hash
    (`Identified`), so that what the board shows of a key is one entry's doing; the
    cell that `publish` points to is whole (`CellsWhole`), and a write under way is
    marked and fills the other one (`Writing`).
  * Of a tenancy once loaded: as long as the word still says so, the entry has the
    key it was found under, or is unwritten and not about to appear (`Fits`). That
    is what makes the cached index of `resolve` safe to use.
  * Of the loads between the two looks at `publish` (`Sound`): while the tenancy
    stands they come from one write that the call has met, until `publish` has moved
    on by more than two, which the second look notices.
  * Of a scan: the call has met its key gone or going, or the entry that bears it
    lies ahead (`Missed`, `Bears`). This is what ENOENT rests on.
  * A call has noted what the keys it is about are now (`Noted`).

  Each store of a holder or a writer is sorted by what it shows: the same, one more
  write or a key that starts to leave, a key that appears, a key that is gone
  (`ShowsSame`, `ShowsMore`, `Appears`, `Vanishes`), and is a step of the store or a
  stutter accordingly (`HolderStep`, `WriterStore`). The attempt first failed for a
  reason no run had met: the last repair of a snapshot's own take-over changed a
  key in the same step in which the call was said to begin, two steps of the store
  at once. The call now begins before the repair, which is when the caller has
  called.
* `NodeTypes`, `CallIsServed`, `JoinersShareARegion`, `SchemaIsFinal`,
  `RowHasOneWriter`, `SnapshotShowsOne`, `NodeKeepsItsRow` (`NodeProofs`): by
  `NodeInv`, which has three parts.
  * `RegistryInv`: who writes a row is known by its odd generation or its state
    Reclaiming; the only live writer finds, at each program counter, the row as it
    left it (`WriterScenes`); what a snapshot has read under an even generation
    still stands as long as the generation does (`ReaderScenes`); and each row that
    shows a live participant is the row that it recorded or is about to record.
  * `SetupInv`: who makes an object is alone with it until it stores the magic
    number, from when its header is final; who claims a schema is alone with it
    until it says Set.
  * `OffersAreCounted`, for `JoinersMeet`: not only the regions in use count but
    all objects that a call may still leave with. They number at most one, if the
    name leads somewhere, plus the unlinks; a creator that fails takes its own
    unpublished object away with the name.

Only model-checked:

* `PublishTerminates`, `DeadRingIsReleased`, `SleeperWakes`: liveness under fairness
  is outside this prover's reach.
* `ViewShowsItsMessage` without a hypothesis, on two publishers of two messages
  each: in general it is false (section 4). What remains true of it is proved as
  `ViewIsStable`, as `ClaimShowsItsMessage` and, given `NoLateTakeOver`, as a whole.

## 6. Not modelled

Not modelled: opening and closing sockets and descriptors (`WakeBackends`), the
Windows and macOS variants of the OS layer, hashing and naming (pure functions on
bytes), `schema::diff`, the Python bindings and tools, the calls that only read and
report (`diagnose`, `stats`, `info`, `list_topics`, `owner_alive`), weak-memory
reorderings, processes with several threads on one handle.
