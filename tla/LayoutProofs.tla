---------------------------- MODULE LayoutProofs ----------------------------
(***************************************************************************)
(* The layout a creator computes is one that every opener accepts, and a   *)
(* header that an opener accepts leads nowhere outside its mapping.        *)
(***************************************************************************)
EXTENDS Layout, TLAPS

-----------------------------------------------------------------------------
(***************************************************************************)
(* Arithmetic.                                                             *)
(***************************************************************************)
\* Products are monotone.
LEMMA Monotone ==
    ASSUME NEW a \in Nat, NEW b \in Nat, NEW c \in Nat, a <= b
    PROVE  a * c <= b * c
<1>1. PICK d \in Nat : b = a + d
    BY SMT
<1>2. b * c = a * c + d * c
    BY <1>1, SMT
<1>3. d * c >= 0 /\ a * c \in Nat /\ d * c \in Nat
    BY <1>1, SMT
<1> QED
    BY <1>2, <1>3, SMT

\* A count below the quotient leaves room for the product.
LEMMA BelowQuotient ==
    ASSUME NEW a \in Nat, NEW m \in Nat, NEW b \in Nat \ {0}, a <= m \div b
    PROVE  a * b <= m
<1>1. m \div b \in Nat /\ (m \div b) * b <= m
    BY SMT
<1>2. a * b <= (m \div b) * b
    BY <1>1, Monotone
<1>3. a * b \in Nat /\ (m \div b) * b \in Nat
    BY <1>1, SMT
<1> QED
    BY <1>1, <1>2, <1>3, SMT

\* And the converse.
LEMMA AboveProduct ==
    ASSUME NEW a \in Nat, NEW m \in Nat, NEW b \in Nat \ {0}, a * b <= m
    PROVE  a <= m \div b
<1>1. m \div b \in Nat /\ m < (m \div b + 1) * b
    BY SMT
<1>2. SUFFICES ASSUME m \div b + 1 <= a PROVE FALSE
    BY <1>1, SMT
<1>3. (m \div b + 1) * b <= a * b
    BY <1>1, <1>2, Monotone
<1>4. a * b \in Nat /\ (m \div b + 1) * b \in Nat
    BY <1>1, SMT
<1> QED
    BY <1>1, <1>3, <1>4, SMT

\* Quotient and remainder.
LEMMA DivMod ==
    ASSUME NEW n \in Nat, NEW c \in Nat \ {0}
    PROVE  /\ n % c \in 0..(c - 1) /\ n \div c \in Nat
           /\ n = (n \div c) * c + (n % c)
<1>1. n % c \in 0..(c - 1)
    BY SMT
<1>2. n \div c \in Nat
    BY SMT
<1>3. n = c * (n \div c) + (n % c)
    BY SMT
<1>4. c * (n \div c) = (n \div c) * c
    BY <1>2, SMT
<1> QED
    BY <1>1, <1>2, <1>3, <1>4

\* Multiples of the cache line.
LEMMA MultipleMod ==
    ASSUME NEW k \in Nat, NEW c \in Nat \ {0}
    PROVE  (k * c) % c = 0
    BY SMT

LEMMA ModMultiple ==
    ASSUME NEW n \in Nat, NEW c \in Nat \ {0}, n % c = 0
    PROVE  n = (n \div c) * c /\ n \div c \in Nat
    BY SMT

LEMMA SumMod ==
    ASSUME NEW m \in Nat, NEW n \in Nat, NEW k \in Nat, NEW c \in Nat \ {0}, m % c = 0, n % c = 0
    PROVE  (m + k * n) % c = 0
<1>1. m = (m \div c) * c /\ m \div c \in Nat
    BY ModMultiple
<1>2. n = (n \div c) * c /\ n \div c \in Nat
    BY ModMultiple
<1>3. k * n = (k * (n \div c)) * c
    BY <1>2, SMT
<1>4. (m \div c) + k * (n \div c) \in Nat /\ m + k * n = ((m \div c) + k * (n \div c)) * c
    BY <1>1, <1>2, <1>3, SMT
<1> QED
    BY <1>4, MultipleMod

\* A sum that fits a word does not wrap.
LEMMA NoWrap ==
    ASSUME NEW n \in Nat, n <= WordMax
    PROVE  Wrap(n) = n
    BY LayoutAssumption, SMT DEF Wrap

\* Rounding up to a cache line, away from the end of the words.
LEMMA Aligned ==
    ASSUME NEW n \in Nat, n + CacheLine <= WordMax + 1
    PROVE  /\ AlignUp(n) \in Nat /\ n <= AlignUp(n) /\ AlignUp(n) <= n + CacheLine - 1
           /\ AlignUp(n) % CacheLine = 0
<1> DEFINE m == n + CacheLine - 1
<1>1. m \in Nat /\ m <= WordMax /\ CacheLine \in Nat \ {0} /\ m = n + CacheLine - 1
    BY LayoutAssumption, SMT
<1>2. Wrap(m) = m
    BY <1>1, NoWrap
<1>3. AlignUp(n) = m - (m % CacheLine)
    BY <1>2 DEF AlignUp
<1> HIDE DEF m
<1>4. m % CacheLine \in 0..(CacheLine - 1) /\ m \div CacheLine \in Nat
      /\ m = (m \div CacheLine) * CacheLine + (m % CacheLine)
    BY <1>1, DivMod
<1>5. AlignUp(n) = (m \div CacheLine) * CacheLine
  <2> DEFINE r == m % CacheLine
             d == (m \div CacheLine) * CacheLine
  <2>1. m = d + r /\ r \in Int /\ d \in Int /\ AlignUp(n) = m - r
    BY <1>1, <1>3, <1>4, SMT
  <2> HIDE DEF r, d
  <2>2. AlignUp(n) = d
    BY <1>1, <2>1, SMT
  <2> QED
    BY <2>2 DEF d
<1>6. AlignUp(n) % CacheLine = 0
    BY <1>1, <1>4, <1>5, MultipleMod
<1>7. AlignUp(n) \in Int /\ n <= AlignUp(n) /\ AlignUp(n) <= n + CacheLine - 1
  <2> DEFINE r == m % CacheLine
  <2>1. r \in 0..(CacheLine - 1) /\ AlignUp(n) = m - r
    BY <1>3, <1>4
  <2> HIDE DEF r
  <2> QED
    BY <1>1, <2>1, SMT
<1> QED
    BY <1>6, <1>7, SMT

-----------------------------------------------------------------------------
(***************************************************************************)
(* The opener.                                                             *)
(***************************************************************************)
\* The steps of an array of counted strides stay in their area.
LEMMA StridesFit ==
    ASSUME NEW count \in Nat, NEW stride \in Nat \ {0}, NEW room \in Nat, count <= room \div stride,
           NEW i \in 0..(count - 1)
    PROVE  i * stride \in Nat /\ (i + 1) * stride = i * stride + stride /\ (i + 1) * stride <= room
<1>1. count * stride <= room
    BY BelowQuotient
<1>2. i \in Nat /\ i + 1 \in Nat /\ i + 1 <= count
    BY SMT
<1>3. (i + 1) * stride <= count * stride
    BY <1>2, Monotone
<1>4. i * stride \in Nat /\ (i + 1) * stride = i * stride + stride /\ count * stride \in Nat
    BY <1>2, SMT
<1> QED
    BY <1>1, <1>3, <1>4, SMT

\* validate_snapshot: a header that passes it, whoever wrote it, leads to
\* rings and slots that lie apart from each other and inside the mapping.  The
\* mapping is assumed to end a ring header's length before the address space.
THEOREM SnapshotLeadsInside ==
    ASSUME NEW h \in Headers, NEW size \in Nat, size + RingSize <= WordMax
    PROVE  SnapshotIsSafe(h, size)
<1> SUFFICES ASSUME ValidSnapshot(h, size)
             PROVE  InPlace(h, size)
    BY DEF SnapshotIsSafe
<1>h. /\ h.total \in Nat /\ h.rings \in Nat /\ h.slots \in Nat /\ h.subs \in Nat /\ h.capacity \in Nat
      /\ h.pool \in Nat /\ h.data \in Nat /\ h.slot_stride \in Nat /\ h.ring_stride \in Nat
      /\ EntrySize \in Nat \ {0} /\ RingSize \in Nat /\ SlotSize \in Nat /\ WordMax \in Nat
    BY LayoutAssumption, SMT DEF Headers, Word
<1>v. /\ h.total <= size /\ HeaderSize <= h.total
      /\ h.slot_stride # 0 /\ h.ring_stride # 0
      /\ h.rings < h.slots /\ h.slots < h.total
      /\ h.capacity <= h.total \div EntrySize
      /\ Wrap(RingSize + Wrap(h.capacity * EntrySize)) <= h.ring_stride
      /\ h.data <= Wrap(h.total - SlotSize)
      /\ Wrap(SlotSize + h.data) <= h.slot_stride
      /\ h.subs <= (h.slots - h.rings) \div h.ring_stride
      /\ h.pool <= (h.total - h.slots) \div h.slot_stride
    BY DEF ValidSnapshot, CountsAreValid, AreasAreValid, StridesAreValid
<1>r. h.capacity * EntrySize \in Nat /\ RingSize + h.capacity * EntrySize <= h.ring_stride
  <2>0. h.capacity * EntrySize <= h.total
    BY <1>h, <1>v, BelowQuotient
  <2>1. h.capacity * EntrySize <= h.total /\ h.capacity * EntrySize \in Nat
    BY <2>0, <1>h, SMT
  <2> DEFINE c == h.capacity * EntrySize
  <2> HIDE DEF c
  <2>2. c \in Nat /\ c <= WordMax /\ RingSize + c \in Nat /\ RingSize + c <= WordMax
    BY <2>1, <1>h, <1>v, SMT DEF c
  <2>3. Wrap(c) = c /\ Wrap(RingSize + c) = RingSize + c
    BY <2>2, NoWrap
  <2>4. Wrap(RingSize + Wrap(c)) <= h.ring_stride
    BY <1>v DEF c
  <2> QED
    BY <2>2, <2>3, <2>4 DEF c
<1>s. SlotSize + h.data <= h.slot_stride
  <2>1. h.total - SlotSize \in Nat /\ h.total - SlotSize <= WordMax
    BY <1>h, <1>v, LayoutAssumption, SMT
  <2>2. h.data <= h.total - SlotSize
    BY <2>1, <1>v, NoWrap
  <2>3. SlotSize + h.data \in Nat /\ SlotSize + h.data <= WordMax
    BY <2>1, <2>2, <1>h, <1>v, SMT
  <2> QED
    BY <2>3, <1>v, NoWrap
<1>1. ASSUME NEW i \in 0..(h.subs - 1), NEW n \in 0..(h.capacity - 1)
      PROVE  EntryAt(h, i, n) + EntrySize <= RingAt(h, i + 1)
  <2>1. h.slots - h.rings \in Nat /\ h.ring_stride \in Nat \ {0}
    BY <1>h, <1>v, SMT
  <2>2. i * h.ring_stride \in Nat /\ (i + 1) * h.ring_stride = i * h.ring_stride + h.ring_stride
    BY <2>1, <1>h, <1>v, StridesFit
  <2>3. n \in Nat /\ n + 1 \in Nat /\ n + 1 <= h.capacity
    BY <1>h, SMT
  <2>4. (n + 1) * EntrySize <= h.capacity * EntrySize
    BY <2>3, <1>h, Monotone
  <2>5. n * EntrySize \in Nat /\ (n + 1) * EntrySize = n * EntrySize + EntrySize
    BY <2>3, <1>h, SMT
  <2> DEFINE c == h.capacity * EntrySize
             e == n * EntrySize
             a == i * h.ring_stride
  <2>6. c \in Nat /\ e \in Nat /\ a \in Nat /\ e + EntrySize <= c /\ RingSize + c <= h.ring_stride
    BY <2>2, <2>4, <2>5, <1>r
  <2>7. EntryAt(h, i, n) = h.rings + a + RingSize + e /\ RingAt(h, i + 1) = h.rings + (a + h.ring_stride)
    BY <2>2 DEF EntryAt, RingAt
  <2> HIDE DEF c, e, a
  <2> QED
    BY <2>6, <2>7, <1>h, SMT
<1>2. ASSUME NEW i \in 0..(h.subs - 1)
      PROVE  RingAt(h, i + 1) <= h.slots
  <2>1. h.slots - h.rings \in Nat /\ h.ring_stride \in Nat \ {0}
    BY <1>h, <1>v, SMT
  <2> DEFINE a == (i + 1) * h.ring_stride
  <2>2. i * h.ring_stride \in Nat /\ a = i * h.ring_stride + h.ring_stride /\ a <= h.slots - h.rings
    BY <2>1, <1>h, <1>v, StridesFit
  <2>3. RingAt(h, i + 1) = h.rings + a
    BY DEF RingAt
  <2> HIDE DEF a
  <2> QED
    BY <2>2, <2>3, <1>h, SMT
<1>3. ASSUME NEW i \in 0..(h.pool - 1)
      PROVE  /\ SlotAt(h, i) + SlotSize + h.data <= SlotAt(h, i + 1)
             /\ SlotAt(h, i + 1) <= size
  <2>1. h.total - h.slots \in Nat /\ h.slot_stride \in Nat \ {0}
    BY <1>h, <1>v, SMT
  <2> DEFINE a == i * h.slot_stride
             b == (i + 1) * h.slot_stride
  <2>2. a \in Nat /\ b = a + h.slot_stride /\ b <= h.total - h.slots
    BY <2>1, <1>h, <1>v, StridesFit
  <2>3. SlotAt(h, i) = h.slots + a /\ SlotAt(h, i + 1) = h.slots + b
    BY DEF SlotAt
  <2> HIDE DEF a, b
  <2> QED
    BY <2>2, <2>3, <1>s, <1>h, <1>v, SMT
<1> QED
    BY <1>1, <1>2, <1>3 DEF InPlace

-----------------------------------------------------------------------------
(***************************************************************************)
(* The creator.                                                            *)
(***************************************************************************)
\* An area of counted strides that compute_layout lets through: it starts
\* aligned, ends aligned, and neither product nor sum wraps.
LEMMA AreaFits ==
    ASSUME NEW start \in Nat, NEW count \in Nat \ {0}, NEW stride \in Nat \ {0},
           start <= WordMax, start % CacheLine = 0, stride % CacheLine = 0,
           count <= (WordMax - start) \div stride
    PROVE  /\ count * stride \in Nat /\ count * stride <= WordMax - start
           /\ stride <= count * stride
           /\ Wrap(start + Wrap(count * stride)) = start + count * stride
           /\ (start + count * stride) % CacheLine = 0
<1>1. WordMax - start \in Nat /\ WordMax \in Nat /\ CacheLine \in Nat \ {0}
    BY LayoutAssumption, SMT
<1>2. count * stride <= WordMax - start
    BY <1>1, BelowQuotient
<1>3. count * stride \in Nat
    BY SMT
<1>4. 1 * stride <= count * stride
    BY Monotone, 1 \in Nat, 1 <= count
<1>5. (start + count * stride) % CacheLine = 0
    BY <1>1, SumMod, ZenonT(40)
<1> DEFINE a == count * stride
<1> HIDE DEF a
<1>6. a \in Nat /\ a <= WordMax /\ start + a \in Nat /\ start + a <= WordMax
    BY <1>1, <1>2, <1>3, SMT DEF a
<1>7. Wrap(a) = a /\ Wrap(start + a) = start + a
    BY <1>6, NoWrap
<1> QED
    BY <1>2, <1>3, <1>4, <1>5, <1>7, SMT DEF a

\* compute_layout: what it lets through, stamp_new_region stores as a header
\* that validate_snapshot accepts from every opener.
THEOREM CreatorsHeaderIsAccepted ==
    ASSUME NEW cfg \in Configs
    PROVE  CreatorIsAccepted(cfg)
<1> SUFFICES ASSUME ValidConfig(cfg), ~TooLarge(cfg)
             PROVE  ValidSnapshot(StampedHeader(cfg), TotalSize(cfg))
    BY DEF CreatorIsAccepted
<1> DEFINE blob == BlobOffset(cfg)
           ring == RingStride(cfg)
           slot == SlotStride(cfg)
           rings == RingsOffset(cfg)
           slots == PoolOffset(cfg)
           total == TotalSize(cfg)
<1>c. /\ cfg.subs \in Nat \ {0} /\ cfg.capacity \in Nat \ {0} /\ cfg.pool \in Nat \ {0}
      /\ cfg.payload \in Nat \ {0} /\ cfg.schema \in Nat /\ cfg.name \in Nat
      /\ cfg.capacity <= WordMax
      /\ cfg.subs <= MaxSubscribers /\ cfg.pool <= MaxPool /\ cfg.payload <= MaxPayload
      /\ cfg.schema <= MaxBlob /\ IsPowerOfTwo(cfg.capacity)
    BY LayoutAssumption, SMT DEF ValidConfig, Configs, Word, IsPowerOfTwo
<1>t. /\ cfg.name <= MaxName
      /\ ~(cfg.capacity > (WordMax - RingSize - CacheLine) \div EntrySize)
      /\ ~(cfg.payload > WordMax - SlotSize - CacheLine)
      /\ ~(cfg.schema > WordMax - blob - CacheLine)
      /\ ~(cfg.subs > (WordMax - rings) \div ring)
      /\ ~(cfg.pool > (WordMax - slots) \div slot)
    BY <1>c, LayoutAssumption, SMT DEF TooLarge
<1>k. /\ WordMax \in Nat /\ CacheLine \in Nat \ {0} /\ EntrySize \in Nat \ {0} /\ HeaderSize \in Nat
      /\ RingSize \in Nat /\ SlotSize \in Nat \ {0} /\ SlotSize <= HeaderSize
      /\ HeaderSize + MaxName + 2 * CacheLine <= WordMax
      /\ RingSize + CacheLine <= WordMax /\ SlotSize + CacheLine <= WordMax /\ MaxName \in Nat
    BY LayoutAssumption
<1>1. /\ blob \in Nat /\ HeaderSize + cfg.name <= blob /\ blob + CacheLine <= WordMax
      /\ blob % CacheLine = 0
  <2>1. HeaderSize + cfg.name \in Nat /\ HeaderSize + cfg.name <= WordMax
        /\ HeaderSize + cfg.name + CacheLine <= WordMax + 1
    BY <1>c, <1>k, <1>t, SMT
  <2>2. blob = AlignUp(HeaderSize + cfg.name)
    BY <2>1, NoWrap DEF BlobOffset
  <2>3. /\ blob \in Nat /\ HeaderSize + cfg.name <= blob
        /\ blob <= HeaderSize + cfg.name + CacheLine - 1 /\ blob % CacheLine = 0
    BY <2>1, <2>2, Aligned
  <2> HIDE DEF blob
  <2> QED
    BY <2>1, <2>3, <1>c, <1>k, <1>t, SMT
<1>2. /\ cfg.capacity * EntrySize \in Nat
      /\ Wrap(RingSize + Wrap(cfg.capacity * EntrySize)) = RingSize + cfg.capacity * EntrySize
      /\ ring \in Nat /\ RingSize + cfg.capacity * EntrySize <= ring /\ ring % CacheLine = 0
  <2> DEFINE c == cfg.capacity * EntrySize
             m == WordMax - RingSize - CacheLine
  <2>1. m \in Nat /\ cfg.capacity <= m \div EntrySize
    BY <1>c, <1>k, <1>t, SMT
  <2>2. c <= m
    BY <2>1, <1>c, <1>k, BelowQuotient
  <2>3. c \in Nat
    BY <1>c, <1>k, SMT
  <2> HIDE DEF c
  <2>4. c <= WordMax /\ RingSize + c \in Nat /\ RingSize + c <= WordMax
        /\ RingSize + c + CacheLine <= WordMax + 1
    BY <2>2, <2>3, <1>k, SMT
  <2>5. Wrap(c) = c /\ Wrap(RingSize + c) = RingSize + c
    BY <2>3, <2>4, NoWrap
  <2>6. ring = AlignUp(RingSize + c)
    BY <2>5 DEF RingStride, c
  <2>7. ring \in Nat /\ RingSize + c <= ring /\ ring % CacheLine = 0
    BY <2>4, <2>6, Aligned
  <2> QED
    BY <2>3, <2>5, <2>7 DEF c
<1>3. /\ Wrap(SlotSize + cfg.payload) = SlotSize + cfg.payload
      /\ slot \in Nat /\ SlotSize + cfg.payload <= slot /\ slot % CacheLine = 0
  <2>1. SlotSize + cfg.payload \in Nat /\ SlotSize + cfg.payload <= WordMax
        /\ SlotSize + cfg.payload + CacheLine <= WordMax + 1
    BY <1>c, <1>k, <1>t, SMT
  <2>2. Wrap(SlotSize + cfg.payload) = SlotSize + cfg.payload
    BY <2>1, NoWrap
  <2>3. slot = AlignUp(SlotSize + cfg.payload)
    BY <2>2 DEF SlotStride
  <2> QED
    BY <2>1, <2>2, <2>3, Aligned
<1>4. rings \in Nat /\ blob + cfg.schema <= rings /\ rings <= WordMax /\ rings % CacheLine = 0
  <2> HIDE DEF blob
  <2>1. blob + cfg.schema \in Nat /\ blob + cfg.schema <= WordMax
        /\ blob + cfg.schema + CacheLine <= WordMax + 1
    BY <1>1, <1>c, <1>k, <1>t, SMT
  <2>2. rings = AlignUp(blob + cfg.schema)
    BY <2>1, NoWrap DEF RingsOffset, blob
  <2>3. /\ rings \in Nat /\ blob + cfg.schema <= rings
        /\ rings <= blob + cfg.schema + CacheLine - 1 /\ rings % CacheLine = 0
    BY <2>1, <2>2, Aligned
  <2> HIDE DEF rings
  <2> QED
    BY <2>1, <2>3, <1>k, SMT
<1>p. ring \in Nat \ {0} /\ slot \in Nat \ {0}
  <2>1. cfg.capacity * EntrySize # 0
    BY <1>c, <1>k, SMT
  <2> HIDE DEF ring, slot
  <2> QED
    BY <2>1, <1>2, <1>3, <1>c, <1>k, SMT
<1>5. /\ cfg.subs * ring \in Nat /\ cfg.subs * ring <= WordMax - rings /\ ring <= cfg.subs * ring
      /\ slots = rings + cfg.subs * ring /\ slots % CacheLine = 0
  <2>1. cfg.subs <= (WordMax - rings) \div ring
    <3>1. WordMax - rings \in Nat
        BY <1>4, <1>k, SMT
    <3>2. (WordMax - rings) \div ring \in Nat
        BY <3>1, <1>p, DivMod
    <3> HIDE DEF rings, ring
    <3> QED
        BY <3>2, <1>c, <1>t, SMT
  <2>2. slots = Wrap(rings + Wrap(cfg.subs * ring))
    BY DEF PoolOffset
  <2>3. /\ rings \in Nat /\ rings <= WordMax /\ rings % CacheLine = 0
        /\ ring \in Nat \ {0} /\ ring % CacheLine = 0 /\ cfg.subs \in Nat \ {0}
    BY <1>2, <1>4, <1>p, <1>c
  <2> HIDE DEF rings, ring, slots
  <2>4. /\ cfg.subs * ring \in Nat /\ cfg.subs * ring <= WordMax - rings
        /\ ring <= cfg.subs * ring
        /\ Wrap(rings + Wrap(cfg.subs * ring)) = rings + cfg.subs * ring
        /\ (rings + cfg.subs * ring) % CacheLine = 0
    BY <2>1, <2>3, AreaFits
  <2> QED
    BY <2>2, <2>4
<1>6. slots \in Nat /\ slots <= WordMax /\ rings < slots
  <2> HIDE DEF rings, ring, slots
  <2> QED
    BY <1>5, <1>4, <1>p, <1>k, SMT
<1>7. /\ cfg.pool * slot \in Nat /\ cfg.pool * slot <= WordMax - slots /\ slot <= cfg.pool * slot
      /\ total = slots + cfg.pool * slot
  <2>1. cfg.pool <= (WordMax - slots) \div slot
    <3>1. WordMax - slots \in Nat
        BY <1>6, <1>k, SMT
    <3>2. (WordMax - slots) \div slot \in Nat
        BY <3>1, <1>p, DivMod
    <3> HIDE DEF slots, slot
    <3> QED
        BY <3>2, <1>c, <1>t, SMT
  <2>2. total = Wrap(slots + Wrap(cfg.pool * slot))
    BY DEF TotalSize
  <2>3. /\ slots \in Nat /\ slots <= WordMax /\ slots % CacheLine = 0
        /\ slot \in Nat \ {0} /\ slot % CacheLine = 0 /\ cfg.pool \in Nat \ {0}
    BY <1>3, <1>5, <1>6, <1>p, <1>c
  <2> HIDE DEF slots, slot, total
  <2>4. /\ cfg.pool * slot \in Nat /\ cfg.pool * slot <= WordMax - slots
        /\ slot <= cfg.pool * slot
        /\ Wrap(slots + Wrap(cfg.pool * slot)) = slots + cfg.pool * slot
    BY <2>1, <2>3, AreaFits
  <2> QED
    BY <2>2, <2>4
<1>8. total \in Nat /\ slots < total /\ total <= WordMax /\ HeaderSize <= total
  <2> HIDE DEF blob, rings, ring, slots, slot, total
  <2> QED
    BY <1>1, <1>4, <1>6, <1>7, <1>p, <1>c, <1>k, SMT
<1> HIDE DEF blob, ring, slot, rings, slots, total
<1>9. StampedHeader(cfg) =
        [total |-> total, rings |-> rings, slots |-> slots,
         subs |-> cfg.subs, capacity |-> cfg.capacity, mask |-> cfg.capacity - 1,
         pool |-> cfg.pool, data |-> cfg.payload,
         slot_stride |-> slot, ring_stride |-> ring,
         blob |-> blob, blob_capacity |-> cfg.schema, name |-> cfg.name]
    BY DEF StampedHeader, blob, ring, slot, rings, slots, total
<1> DEFINE h == StampedHeader(cfg)
<1>f. /\ h.total = total /\ h.rings = rings /\ h.slots = slots /\ h.subs = cfg.subs
      /\ h.capacity = cfg.capacity /\ h.mask = cfg.capacity - 1 /\ h.pool = cfg.pool
      /\ h.data = cfg.payload /\ h.slot_stride = slot /\ h.ring_stride = ring /\ h.blob = blob
      /\ h.blob_capacity = cfg.schema /\ h.name = cfg.name
    BY <1>9
<1> HIDE DEF h
<1>10. CountsAreValid(h)
  <2>1. cfg.capacity - 1 \in Nat /\ cfg.capacity - 1 <= WordMax
    BY <1>c, <1>k, SMT
  <2>2. Wrap(cfg.capacity - 1) = cfg.capacity - 1
    BY <2>1, NoWrap
  <2>3. cfg.subs \in 1..MaxSubscribers /\ cfg.pool \in 1..MaxPool /\ cfg.payload \in 1..MaxPayload
    BY DEF ValidConfig
  <2> QED
    BY <2>2, <2>3, <1>c, <1>p, <1>f DEF CountsAreValid
<1>11. AreasAreValid(h)
  <2>1. /\ HeaderSize <= rings /\ rings < slots /\ slots < total
        /\ HeaderSize <= blob /\ blob <= rings
        /\ cfg.schema <= rings - blob /\ cfg.name <= blob - HeaderSize
    BY <1>1, <1>4, <1>6, <1>8, <1>c, <1>k, SMT
  <2>2. \A n \in {blob, rings, slots, ring, slot} : n % CacheLine = 0
    BY <1>1, <1>2, <1>3, <1>4, <1>5
  <2> QED
    BY <2>1, <2>2, <1>c, <1>f DEF AreasAreValid
<1>12. StridesAreValid(h)
  <2> DEFINE c == cfg.capacity * EntrySize
  <2>1. c <= total
    <3>1. c \in Nat /\ RingSize + c <= ring
        BY <1>2
    <3> HIDE DEF c
    <3> QED
        BY <3>1, <1>5, <1>6, <1>8, <1>4, <1>p, <1>k, SMT
  <2>2. cfg.capacity <= total \div EntrySize
    BY <2>1, <1>8, <1>c, <1>k, AboveProduct
  <2>3. total - SlotSize \in Nat /\ total - SlotSize <= WordMax /\ cfg.payload <= total - SlotSize
    BY <1>3, <1>6, <1>7, <1>8, <1>c, <1>k, <1>p, SMT
  <2>4. Wrap(total - SlotSize) = total - SlotSize
    BY <2>3, NoWrap
  <2>5. cfg.subs <= (slots - rings) \div ring
    <3>1. slots - rings \in Nat /\ cfg.subs * ring <= slots - rings
        BY <1>4, <1>5, <1>6, SMT
    <3> QED
        BY <3>1, <1>c, <1>p, AboveProduct
  <2>6. cfg.pool <= (total - slots) \div slot
    <3>1. total - slots \in Nat /\ cfg.pool * slot <= total - slots
        BY <1>6, <1>7, <1>8, SMT
    <3> QED
        BY <3>1, <1>c, <1>p, AboveProduct
  <2>7. Wrap(RingSize + Wrap(cfg.capacity * EntrySize)) <= ring
    BY <1>2
  <2>8. Wrap(SlotSize + cfg.payload) <= slot
    BY <1>3
  <2> QED
    BY <2>2, <2>3, <2>4, <2>5, <2>6, <2>7, <2>8, <1>f DEF StridesAreValid
<1>13. h.total <= total /\ HeaderSize <= h.total
    BY <1>8, <1>f, SMT
<1> QED
    BY <1>10, <1>11, <1>12, <1>13 DEF ValidSnapshot, h, total
=============================================================================
