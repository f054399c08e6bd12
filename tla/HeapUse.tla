-------------------------------- MODULE HeapUse --------------------------------
(***************************************************************************)
(* The heap the index uses, seen twice: by the counting allocator of the   *)
(* comparison program, as the difference of two snapshots of its           *)
(* process-wide counters, and by memory_usage_bytes, from the capacities   *)
(* of the vectors.                                                         *)
(*                                                                         *)
(* Every call of Bwspi is joined by what it asks of the allocator.  The    *)
(* growth of a vector is that of the standard library.  One index is built *)
(* after the first snapshot, as in run_comparison, and then used freely.   *)
(***************************************************************************)
EXTENDS Bwspi

CONSTANTS MIN_NON_ZERO_CAP, \* the least capacity a vector grows to
          Earlier,          \* bytes the process may have used before
          MaxAllocs         \* bound on the number of allocations

ASSUME HeapAssumption ==
    /\ MIN_NON_ZERO_CAP \in Nat \ {0}
    /\ Earlier \subseteq Nat
    /\ MaxAllocs \in Nat

VARIABLES heap,     \* the counters of the allocator
          capacity, \* the capacities of the vectors, of each bucket in `inner`
          snap      \* the snapshot taken before the index was created

heap_vars == <<heap, capacity, snap>>
all_vars == <<vars, heap_vars>>

\* Bytes of an element: u64 and usize, and the header of a bucket.
SIZE == [data |-> 8, bucket_positions |-> 8, buckets |-> 24, inner |-> 8]

\* What a call changes, as one value.
memory == [heap |-> heap, capacity |-> capacity]

Uses(m) == /\ heap' = m.heap
           /\ capacity' = m.capacity
           /\ m.heap.alloc_count <= MaxAllocs
           /\ UNCHANGED snap

\* The elements some of the buckets have room for: the sum of their capacities.
Room(inner, slots) == Cardinality(UNION {{w} \X (1 .. inner[w]) : w \in slots})

-------------------------------------------------------------------------------
(* The allocator.                                                          *)

Alloc(h, bytes) ==
    [h EXCEPT !.alloc_bytes = @ + bytes, !.alloc_count = @ + 1]

Dealloc(h, bytes) == [h EXCEPT !.dealloc_bytes = @ + bytes]

\* Mutant: realloc counts the new block and forgets the old one.
ReallocUnfreed(h, old, new) == IF old = new THEN h ELSE Alloc(h, new)

\* A vector's block of `old` bytes becomes one of `new` bytes; realloc is not
\* overridden, so that its default allocates, copies and frees.  A vector of no
\* capacity has no block.
Realloc(h, old, new) ==
    IF old = new THEN h ELSE Dealloc(Alloc(h, new), old)

SaturatingSub(a, b) == IF a < b THEN 0 ELSE a - b

\* HeapSnap::live_bytes_since.
LiveBytesSince(before, after) ==
    SaturatingSub(SaturatingSub(after.alloc_bytes, before.alloc_bytes),
                  SaturatingSub(after.dealloc_bytes, before.dealloc_bytes))

-------------------------------------------------------------------------------
(* The vectors.                                                            *)

\* Amortised growth of a vector of capacity `cap` that needs `needed` places.
Grown(cap, needed) ==
    IF needed <= cap THEN cap ELSE Max({2 * cap, needed, MIN_NON_ZERO_CAP})

Reserved(m, vec, needed) ==
    LET new == Grown(m.capacity[vec], needed)
    IN  [heap |-> Realloc(m.heap, SIZE[vec] * m.capacity[vec], SIZE[vec] * new),
         capacity |-> [m.capacity EXCEPT ![vec] = new]]

BucketReserved(m, width, needed) ==
    LET old == m.capacity.inner[width + 1]
        new == Grown(old, needed)
    IN  [heap |-> Realloc(m.heap, SIZE.inner * old, SIZE.inner * new),
         capacity |-> [m.capacity EXCEPT !.inner[width + 1] = new]]

\* ensure_bucket and the push of link_existing, on the buckets bs.
LinkReserved(m, bs, width) ==
    LET slots == Len(EnsureBucket(bs, width))
        outer == Reserved(m, "buckets", slots)
        widened == [outer EXCEPT !.capacity.inner =
                       @ \o [i \in 1 .. slots - Len(bs) |-> 0]]
    IN  BucketReserved(widened, width, Len(GetBucket(bs, width)) + 1)

InsertReserved(m, s, value) ==
    LET places == Len(s.data) + 1
    IN  LinkReserved(Reserved(Reserved(m, "data", places), "bucket_positions", places),
                     s.buckets, BitWidth(value))

\* insert_bulk: one reservation for the slice, then insert by insert.
BulkReserved(m, s, values) ==
    LET places == Len(s.data) + Len(values)
        after[n \in 0 .. Len(values)] ==
            IF n = 0
            THEN Reserved(Reserved(m, "data", places), "bucket_positions", places)
            ELSE InsertReserved(after[n - 1], InsertedAll(s, SubSeq(values, 1, n - 1)),
                                values[n])
    IN  after[Len(values)]

\* Mutant: the vector of buckets is shrunk to fit as well.
PoppedFreedToFit(m, slots) ==
    LET inner == m.capacity.inner
        freed == SIZE.inner * Room(inner, slots + 1 .. Len(inner))
    IN  [heap |-> Realloc(Dealloc(m.heap, freed), SIZE.buckets * m.capacity.buckets,
                          SIZE.buckets * slots),
         capacity |-> [m.capacity EXCEPT !.inner = SubSeq(@, 1, slots), !.buckets = slots]]

\* The empty buckets shrink_trailing pops are dropped with their blocks; the
\* vector of buckets keeps its own.
PoppedFreed(m, slots) ==
    LET inner == m.capacity.inner
    IN  [heap |-> Dealloc(m.heap, SIZE.inner * Room(inner, slots + 1 .. Len(inner))),
         capacity |-> [m.capacity EXCEPT !.inner = SubSeq(@, 1, slots)]]

\* update_at: nothing, unless it moves a live entry to another bucket.
UpdateReserved(m, s, id, new) ==
    IF IsLive(id) /\ BitWidth(s.data[id]) # BitWidth(new)
    THEN PoppedFreed(LinkReserved(m, UnlinkExisting(s, id, BitWidth(s.data[id])).buckets,
                                  BitWidth(new)),
                     Len(UpdatedAt(s, id, new).buckets))
    ELSE m

-------------------------------------------------------------------------------
\* The snapshot, then Bwspi::with_capacity(n).
HeapInit ==
    /\ Init
    /\ \E used, freed \in Earlier :
          /\ freed <= used
          /\ snap = [alloc_bytes |-> used, alloc_count |-> 0, dealloc_bytes |-> freed]
    /\ \E n \in 0 .. Capacity :
          /\ capacity = [data |-> n, bucket_positions |-> n, buckets |-> 0, inner |-> <<>>]
          /\ heap = Realloc(Realloc(snap, 0, SIZE.data * n), 0, SIZE.bucket_positions * n)

\* The calls that may only give memory back.
FreeingCall ==
    \/ \E id \in Ids : RemoveAt(id)
    \/ \E value \in Values : Remove(value)
    \/ SarkarSort

HeapNext ==
    \/ \E value \in Values : Insert(value) /\ Uses(InsertReserved(memory, self, value))
    \/ \E values \in Bulks : InsertBulk(values) /\ Uses(BulkReserved(memory, self, values))
    \/ \E new \in Values :
          \/ \E id \in Ids : UpdateAt(id, new) /\ Uses(UpdateReserved(memory, self, id, new))
          \/ \E old \in Values :
                Update(old, new) /\ Uses(UpdateReserved(memory, self, Find(old), new))
    \/ FreeingCall /\ Uses(PoppedFreed(memory, Len(buckets')))

HeapSpec == HeapInit /\ [][HeapNext]_all_vars

-------------------------------------------------------------------------------
(* Correctness.                                                            *)

\* memory_usage_bytes.
MemoryUsageBytes ==
    SIZE.data * capacity.data + SIZE.bucket_positions * capacity.bucket_positions
        + SIZE.buckets * capacity.buckets
        + SIZE.inner * Room(capacity.inner, DOMAIN capacity.inner)

\* What the allocator has counted for the index since the first snapshot is what
\* the index reports of itself, whatever was reallocated, dropped with an empty
\* bucket, or used and freed by the process before: the two columns of the
\* HEAP MEMORY table agree, and no saturating_sub ever hides a byte.
SelfReportExact == LiveBytesSince(snap, heap) = MemoryUsageBytes

\* Memory is given back only with a bucket dropped from the end, and a removal,
\* a refused call, an update within a width or a sort asks for none.
GrowsOnlyToLink ==
    [][/\ heap'.alloc_count > heap.alloc_count =>
             \E w \in DOMAIN buckets' :
                 Len(GetBucket(buckets', w - 1)) > Len(GetBucket(buckets, w - 1))
       /\ MemoryUsageBytes' < MemoryUsageBytes => Len(buckets') < Len(buckets)]_all_vars
================================================================================
