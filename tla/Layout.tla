------------------------------- MODULE Layout -------------------------------
(***************************************************************************)
(* Where things lie in a region.  The creator computes the layout from its *)
(* configuration, in words that wrap; an opener has only the header and    *)
(* must not follow it unless everything it leads to lies in the mapping.   *)
(***************************************************************************)
EXTENDS Integers

CONSTANTS
    WordMax,                                          \* SIZE_MAX
    CacheLine,
    HeaderSize, RingSize, EntrySize, SlotSize,        \* sizeof Header, SubRingHeader, Entry, SlotHeader
    MaxSubscribers, MaxPool, MaxPayload, MaxBlob, MaxName

\* Sizes fill cache lines where the code asserts it, and the header with the
\* longest name is far from the end of the address space.
ASSUME LayoutAssumption ==
    /\ WordMax \in Nat
    /\ CacheLine \in Nat \ {0} /\ EntrySize \in Nat \ {0}
    /\ HeaderSize \in Nat /\ HeaderSize % CacheLine = 0
    /\ RingSize \in Nat /\ SlotSize \in Nat \ {0} /\ SlotSize <= HeaderSize
    /\ MaxSubscribers \in Nat /\ MaxPool \in Nat /\ MaxPayload \in Nat /\ MaxBlob \in Nat
    /\ MaxName \in Nat
    /\ HeaderSize + MaxName + 2 * CacheLine <= WordMax
    /\ RingSize + CacheLine <= WordMax /\ SlotSize + CacheLine <= WordMax

Word == 0..WordMax

\* Unsigned arithmetic.
Wrap(n) == n % (WordMax + 1)

\* (val + alignment - 1) & ~(alignment - 1)
AlignUp(n) == LET m == Wrap(n + CacheLine - 1) IN m - (m % CacheLine)

\* Without an odd divisor other than 1.
IsPowerOfTwo(n) == n > 0 /\ \A d \in 2..n : n % d = 0 => d % 2 = 0

-----------------------------------------------------------------------------
(***************************************************************************)
(* The creator.                                                            *)
(***************************************************************************)
Configs == [subs : Word, capacity : Word, pool : Word, payload : Word, schema : Word, name : Word]

ValidConfig(cfg) ==
    /\ IsPowerOfTwo(cfg.capacity)
    /\ cfg.pool \in 1..MaxPool
    /\ cfg.subs \in 1..MaxSubscribers
    /\ cfg.payload \in 1..MaxPayload
    /\ cfg.schema <= MaxBlob

\* compute_layout; the schema's blob follows the header and the creator's name.
BlobOffset(cfg) == AlignUp(Wrap(HeaderSize + cfg.name))

RingStride(cfg) == AlignUp(Wrap(RingSize + Wrap(cfg.capacity * EntrySize)))

SlotStride(cfg) == AlignUp(Wrap(SlotSize + cfg.payload))

RingsOffset(cfg) == AlignUp(Wrap(BlobOffset(cfg) + cfg.schema))

PoolOffset(cfg) == Wrap(RingsOffset(cfg) + Wrap(cfg.subs * RingStride(cfg)))

TotalSize(cfg) == Wrap(PoolOffset(cfg) + Wrap(cfg.pool * SlotStride(cfg)))

\* What compute_layout refuses, before it multiplies.
TooLarge(cfg) ==
    \/ cfg.name > MaxName
    \/ cfg.capacity > (WordMax - RingSize - CacheLine) \div EntrySize
    \/ cfg.payload > WordMax - SlotSize - CacheLine
    \/ cfg.schema > WordMax - BlobOffset(cfg) - CacheLine
    \/ cfg.subs > (WordMax - RingsOffset(cfg)) \div RingStride(cfg)
    \/ cfg.pool > (WordMax - PoolOffset(cfg)) \div SlotStride(cfg)

\* What stamp_new_region stores of it.
StampedHeader(cfg) ==
    [total |-> TotalSize(cfg), rings |-> RingsOffset(cfg), slots |-> PoolOffset(cfg),
     subs |-> cfg.subs, capacity |-> cfg.capacity, mask |-> cfg.capacity - 1,
     pool |-> cfg.pool, data |-> cfg.payload,
     slot_stride |-> SlotStride(cfg), ring_stride |-> RingStride(cfg),
     blob |-> BlobOffset(cfg), blob_capacity |-> cfg.schema, name |-> cfg.name]

-----------------------------------------------------------------------------
(***************************************************************************)
(* The opener.                                                             *)
(***************************************************************************)
Headers == [total : Word, rings : Word, slots : Word, subs : Word, capacity : Word, mask : Word,
            pool : Word, data : Word, slot_stride : Word, ring_stride : Word,
            blob : Word, blob_capacity : Word, name : Word]

\* Counts that the code's fixed-width fields can hold, and no zero divisor.
CountsAreValid(h) ==
    /\ h.subs \in 1..MaxSubscribers
    /\ h.pool \in 1..MaxPool
    /\ h.data \in 1..MaxPayload
    /\ h.slot_stride # 0 /\ h.ring_stride # 0
    /\ IsPowerOfTwo(h.capacity)
    /\ h.mask = Wrap(h.capacity - 1)

\* Header, name, blob, rings and pool follow each other, on cache lines.
AreasAreValid(h) ==
    /\ HeaderSize <= h.rings /\ h.rings < h.slots /\ h.slots < h.total
    /\ HeaderSize <= h.blob /\ h.blob <= h.rings
    /\ h.blob_capacity <= MaxBlob
    /\ h.blob_capacity <= h.rings - h.blob
    /\ h.name <= h.blob - HeaderSize
    /\ \A n \in {h.blob, h.rings, h.slots, h.ring_stride, h.slot_stride} : n % CacheLine = 0

\* Each ring and slot fits its stride, and their arrays their areas.
StridesAreValid(h) ==
    /\ h.capacity <= h.total \div EntrySize
    /\ Wrap(RingSize + Wrap(h.capacity * EntrySize)) <= h.ring_stride
    /\ h.data <= Wrap(h.total - SlotSize)
    /\ Wrap(SlotSize + h.data) <= h.slot_stride
    /\ h.subs <= (h.slots - h.rings) \div h.ring_stride
    /\ h.pool <= (h.total - h.slots) \div h.slot_stride

ValidSnapshot(h, size) ==
    /\ h.total <= size
    /\ HeaderSize <= h.total
    /\ CountsAreValid(h) /\ AreasAreValid(h) /\ StridesAreValid(h)

-----------------------------------------------------------------------------
(***************************************************************************)
(* Properties.                                                             *)
(***************************************************************************)
\* sub_ring_at with ring_entries, and slot_at with slot_data.
RingAt(h, i) == h.rings + i * h.ring_stride

EntryAt(h, i, n) == RingAt(h, i) + RingSize + n * EntrySize

SlotAt(h, i) == h.slots + i * h.slot_stride

\* Every entry of every ring lies in its ring, before the next ring and before
\* the pool; every payload lies in its slot, before the next slot and before
\* the end of the mapping: what the pointer arithmetic of types.cc relies on.
InPlace(h, size) ==
    /\ \A i \in 0..(h.subs - 1) :
           /\ \A n \in 0..(h.capacity - 1) : EntryAt(h, i, n) + EntrySize <= RingAt(h, i + 1)
           /\ RingAt(h, i + 1) <= h.slots
    /\ \A i \in 0..(h.pool - 1) :
           /\ SlotAt(h, i) + SlotSize + h.data <= SlotAt(h, i + 1)
           /\ SlotAt(h, i + 1) <= size

\* A header that passes validate_snapshot leads nowhere outside the mapping,
\* whoever wrote it.
SnapshotIsSafe(h, size) == ValidSnapshot(h, size) => InPlace(h, size)

\* A configuration that validate_config and compute_layout let through is
\* stamped as a header that every opener accepts, and nothing wrapped.
CreatorIsAccepted(cfg) ==
    ValidConfig(cfg) /\ ~TooLarge(cfg) => ValidSnapshot(StampedHeader(cfg), TotalSize(cfg))
=============================================================================
