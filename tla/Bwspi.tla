--------------------------------- MODULE Bwspi ---------------------------------
(***************************************************************************)
(* The bit-width routed index: one append-only vector of values, a vector  *)
(* of buckets holding storage IDs by the binary width of their value, and  *)
(* a position map from each live ID to its place in its bucket.            *)
(*                                                                         *)
(* Vectors are sequences, so a storage ID or an offset k of the code is    *)
(* k + 1 here and the bucket of width w is buckets[w + 1].  The helpers of *)
(* the code that take &mut self are operators from the old index to the    *)
(* new one; every public method that changes the index is an action.       *)
(***************************************************************************)
EXTENDS BitRouting, Ordering, Sequences, TLC, Functions, FiniteSetsExt

CONSTANTS Values,           \* the values a client uses
          Bulks,            \* the slices a client passes to insert_bulk
          Capacity,         \* bound on the number of storage entries
          REMOVED_POSITION  \* usize::MAX, the position of a removed entry

ASSUME ClientAssumption ==
    /\ Values \subseteq U64
    /\ Bulks \subseteq Seq(Values)
    /\ Capacity \in Nat

\* No vector is long enough for usize::MAX to be an offset in it.
ASSUME RemovedAssumption ==
    /\ REMOVED_POSITION \in Nat
    /\ REMOVED_POSITION > Capacity

VARIABLES data,             \* every value ever inserted, by storage ID
          buckets,          \* live storage IDs, by width of their value
          bucket_positions, \* storage ID -> offset in its bucket
          live_len,         \* number of live values
          reply             \* the last call: operation, arguments, result

store == <<data, buckets, bucket_positions, live_len>>
vars == <<data, buckets, bucket_positions, live_len, reply>>

\* The index as one value, for the helpers; and the step that replaces it.
self == [data |-> data, buckets |-> buckets,
         bucket_positions |-> bucket_positions, live_len |-> live_len]

Become(s) == /\ data' = s.data
             /\ buckets' = s.buckets
             /\ bucket_positions' = s.bucket_positions
             /\ live_len' = s.live_len

\* The storage IDs a client may pass, one of them past the end of storage.
Ids == 1 .. Capacity + 1

\* None, for an Option of a storage ID.
NoId == 0

Reply(op, args, id, ok) == [op |-> op, args |-> args, id |-> id, ok |-> ok]

-------------------------------------------------------------------------------
(* Helpers.                                                                *)

\* Mutant: one bucket more than the width needs.
EnsureBucketOver(bs, width) ==
    IF width >= Len(bs)
    THEN bs \o [i \in 1 .. width + 2 - Len(bs) |-> <<>>]
    ELSE bs

EnsureBucket(bs, width) ==
    IF width >= Len(bs)
    THEN bs \o [i \in 1 .. width + 1 - Len(bs) |-> <<>>]
    ELSE bs

\* The last non-empty bucket's place, 0 when there is none.
LastUsed(bs) == Max({0} \cup {w \in 1 .. Len(bs) : bs[w] # <<>>})

\* Mutant: pops at most one bucket (`if` for `while`).
ShrinkOnce(bs) ==
    IF bs # <<>> /\ bs[Len(bs)] = <<>> THEN SubSeq(bs, 1, Len(bs) - 1) ELSE bs

ShrinkTrailing(bs) == SubSeq(bs, 1, LastUsed(bs))

GetBucket(bs, width) == IF width < Len(bs) THEN bs[width + 1] ELSE <<>>

LinkExisting(s, id, width) ==
    LET bs == EnsureBucket(s.buckets, width)
    IN  [s EXCEPT !.buckets = [bs EXCEPT ![width + 1] = Append(@, id)],
                  !.bucket_positions[id] = Len(bs[width + 1]) + 1]

\* Vec::swap_remove: the last element takes the removed one's place.
SwapRemove(seq, i) == SubSeq([seq EXCEPT ![i] = seq[Len(seq)]], 1, Len(seq) - 1)

\* Mutant: the moved ID keeps the position it had at the end of the bucket.
UnlinkExistingNoRepair(s, id, width) ==
    [s EXCEPT !.buckets[width + 1] = SwapRemove(@, s.bucket_positions[id]),
              !.bucket_positions[id] = REMOVED_POSITION]

\* The moved ID is given the position first: when it is the unlinked ID
\* itself, REMOVED_POSITION is what stays.
UnlinkExisting(s, id, width) ==
    LET position == s.bucket_positions[id]
        bucket == s.buckets[width + 1]
    IN  [s EXCEPT !.buckets[width + 1] = SwapRemove(bucket, position),
                  !.bucket_positions = [@ EXCEPT ![bucket[Len(bucket)]] = position,
                                                 ![id] = REMOVED_POSITION]]

-------------------------------------------------------------------------------
(* What each operation makes of an index.                                  *)

Inserted(s, value) ==
    LET grown == [s EXCEPT !.data = Append(@, value),
                           !.bucket_positions = Append(@, REMOVED_POSITION)]
    IN  [LinkExisting(grown, Len(grown.data), BitWidth(value)) EXCEPT !.live_len = @ + 1]

InsertedAll(s, values) ==
    LET after[n \in 0 .. Len(values)] ==
            IF n = 0 THEN s ELSE Inserted(after[n - 1], values[n])
    IN  after[Len(values)]

\* Mutant: the live counter is left alone.
RemovedAtUncounted(s, id) ==
    [UnlinkExisting(s, id, BitWidth(s.data[id])) EXCEPT !.buckets = ShrinkTrailing(@)]

RemovedAt(s, id) ==
    LET unlinked == UnlinkExisting(s, id, BitWidth(s.data[id]))
    IN  [unlinked EXCEPT !.live_len = @ - 1, !.buckets = ShrinkTrailing(@)]

\* Mutant: a single store for every value.
UpdatedAtInPlace(s, id, new) == [s EXCEPT !.data[id] = new]

\* A value of the same width is a single store.
UpdatedAt(s, id, new) ==
    LET old_width == BitWidth(s.data[id])
        new_width == BitWidth(new)
        stored == [UnlinkExisting(s, id, old_width) EXCEPT !.data[id] = new]
        linked == LinkExisting(stored, id, new_width)
    IN  IF old_width = new_width
        THEN [s EXCEPT !.data[id] = new]
        ELSE [linked EXCEPT !.buckets = ShrinkTrailing(@)]

-------------------------------------------------------------------------------
(* Sarkar Sort, as one step.  An order says which old entry each place of  *)
(* the sorted storage receives.                                            *)

\* The number of IDs in the buckets of width less than w: where the region of
\* storage filled from the bucket of width w begins.
Start(bs, w) == Cardinality(UNION {{v} \X DOMAIN bs[v] : v \in 1 .. w})

Region(bs, w) == Start(bs, w - 1) + 1 .. Start(bs, w)

\* The bucket that fills a place.
WidthAt(bs, p) == CHOOSE w \in DOMAIN bs : p \in Region(bs, w)

\* The buckets one after another.
Concatenated(bs) ==
    LET joined[w \in 0 .. Len(bs)] == IF w = 0 THEN <<>> ELSE joined[w - 1] \o bs[w]
    IN  joined[Len(bs)]

RemovedIds(s) == {id \in DOMAIN s.data : s.bucket_positions[id] = REMOVED_POSITION}

\* Mutant: Phase A leaves the bucket as it is.
FillsUnsorted(s, order, w) ==
    \A k \in DOMAIN s.buckets[w] : order[Start(s.buckets, w - 1) + k] = s.buckets[w][k]

\* A region receives the IDs of its bucket by ascending value (Phase A and the
\* first half of Phase B).
Fills(s, order, w) ==
    LET region == Region(s.buckets, w)
    IN  /\ {order[p] : p \in region} = Range(s.buckets[w])
        /\ \A p, q \in region : p < q => s.data[order[p]] <= s.data[order[q]]

\* Mutant: the removed entries are given places from the end.
KeepsOrderFromEnd(order, places) ==
    \A p, q \in places : p < q => order[p] > order[q]

KeepsOrder(order, places) == \A p, q \in places : p < q => order[p] < order[q]

\* The rest of storage receives the other entries in the order they had (the
\* second half of Phase B).
IsSortOrder(s, order) ==
    LET behind == Start(s.buckets, Len(s.buckets)) + 1 .. Len(s.data)
    IN  /\ \A w \in DOMAIN s.buckets : Fills(s, order, w)
        /\ {order[p] : p \in behind} = RemovedIds(s)
        /\ KeepsOrder(order, behind)

\* Mutant: Phase C does not mark the entries behind the live ones removed.
ReboundPositionAll(bs, p) ==
    LET widths == {w \in DOMAIN bs : p \in Region(bs, w)}
    IN  IF widths = {} THEN p ELSE p - Start(bs, Min(widths) - 1)

\* The position Phase C gives to the entry now at p.
ReboundPosition(bs, p) ==
    IF p > Start(bs, Len(bs)) THEN REMOVED_POSITION
    ELSE p - Start(bs, WidthAt(bs, p) - 1)

\* The cycles of Phase B move the values, Phase C rebinds buckets and positions
\* to the places they now occupy.
Sorted(s, order) ==
    LET bs == s.buckets
    IN  [data |-> [p \in DOMAIN s.data |-> s.data[order[p]]],
         buckets |-> ShrinkTrailing(
            [w \in DOMAIN bs |-> [k \in DOMAIN bs[w] |-> Start(bs, w - 1) + k]]),
         bucket_positions |-> [p \in DOMAIN s.data |-> ReboundPosition(bs, p)],
         live_len |-> s.live_len]

-------------------------------------------------------------------------------
(* Queries.                                                                *)

\* The test get, remove_at and update_at open with.
IsLive(id) == id \in DOMAIN bucket_positions /\ bucket_positions[id] # REMOVED_POSITION

Contains(target) ==
    \E id \in Range(GetBucket(buckets, BitWidth(target))) : data[id] = target

\* The matches, in the order of the bucket.
FindAll(target) ==
    LET bucket == GetBucket(buckets, BitWidth(target))
        found[k \in 0 .. Len(bucket)] ==
            IF k = 0 THEN <<>>
            ELSE IF data[bucket[k]] = target THEN Append(found[k - 1], bucket[k])
            ELSE found[k - 1]
    IN  found[Len(bucket)]

\* The first match in the order of the bucket.
Find(target) ==
    LET bucket == GetBucket(buckets, BitWidth(target))
        matches == {k \in DOMAIN bucket : data[bucket[k]] = target}
    IN  IF matches = {} THEN NoId ELSE bucket[Min(matches)]

\* None, for an Option of a value.
NoValue == -1

Get(id) == IF IsLive(id) THEN data[id] ELSE NoValue

\* The pairs of ID and value iter yields.
Iter == {<<id, data[id]>> : id \in {i \in DOMAIN data : bucket_positions[i] # REMOVED_POSITION}}

\* The buckets in order, each one's values sorted on their own.
SortedSnapshot ==
    Concatenated([w \in DOMAIN buckets |->
        Ascending([k \in DOMAIN buckets[w] |-> data[buckets[w][k]]])])

-------------------------------------------------------------------------------
(* Operations.                                                             *)

Init == /\ data = <<>>
        /\ buckets = <<>>
        /\ bucket_positions = <<>>
        /\ live_len = 0
        /\ reply = Reply("new", <<>>, NoId, TRUE)

Insert(value) ==
    /\ Len(data) < Capacity
    /\ Become(Inserted(self, value))
    /\ reply' = Reply("insert", <<value>>, Len(data) + 1, TRUE)

InsertBulk(values) ==
    /\ Len(data) + Len(values) <= Capacity
    /\ Become(InsertedAll(self, values))
    /\ reply' = Reply("insert_bulk", values, NoId, TRUE)

\* remove_at, for a call of the operation op with the arguments args.
RemoveEntry(id, op, args) ==
    \/ /\ IsLive(id)
       /\ Become(RemovedAt(self, id))
       /\ reply' = Reply(op, args, NoId, TRUE)
    \/ /\ ~ IsLive(id)
       /\ reply' = Reply(op, args, NoId, FALSE)
       /\ UNCHANGED store

\* update_at, likewise.
UpdateEntry(id, new, op, args) ==
    \/ /\ IsLive(id)
       /\ Become(UpdatedAt(self, id, new))
       /\ reply' = Reply(op, args, NoId, TRUE)
    \/ /\ ~ IsLive(id)
       /\ reply' = Reply(op, args, NoId, FALSE)
       /\ UNCHANGED store

RemoveAt(id) == RemoveEntry(id, "remove_at", <<id>>)

\* NoId is never live, so that a target nobody holds is refused as well.
Remove(target) == RemoveEntry(Find(target), "remove", <<target>>)

UpdateAt(id, new) == UpdateEntry(id, new, "update_at", <<id, new>>)

Update(old, new) == UpdateEntry(Find(old), new, "update", <<old, new>>)

SarkarSort ==
    /\ \E order \in Bijection(DOMAIN data, DOMAIN data) :
          IsSortOrder(self, order) /\ Become(Sorted(self, order))
    /\ reply' = Reply("sarkar_sort", <<>>, NoId, TRUE)

\* The calls that work on a single bucket or two.
StreamCall ==
    \/ \E value \in Values : Insert(value) \/ Remove(value)
    \/ \E values \in Bulks : InsertBulk(values)
    \/ \E id \in Ids : RemoveAt(id) \/ (\E new \in Values : UpdateAt(id, new))
    \/ \E old, new \in Values : Update(old, new)

Next == StreamCall \/ SarkarSort

Spec == Init /\ [][Next]_vars

-------------------------------------------------------------------------------
(* Correctness.                                                            *)

LiveIds == {id \in DOMAIN data : IsLive(id)}

\* Every vector holds what its Rust type and the bound on storage allow.
TypeOK ==
    /\ data \in Seq(Values) /\ Len(data) <= Capacity
    /\ bucket_positions \in Seq(1 .. Capacity \cup {REMOVED_POSITION})
    /\ Len(bucket_positions) = Len(data)
    /\ buckets \in Seq(Seq(1 .. Len(data))) /\ Len(buckets) <= BITS + 1
    /\ live_len \in 0 .. Len(data)
    /\ reply.id \in 0 .. Capacity /\ reply.ok \in BOOLEAN

\* The position map and the buckets are inverse to each other: a live ID is at
\* its recorded place in the bucket of its value's width, and every bucket slot
\* holds a live ID of that width whose recorded place it is.  This is what the
\* debug_asserts of unlink_existing rely on, after any history of swap_remove
\* repairs, rebucketing and sorts.
Consistent ==
    /\ \A id \in LiveIds :
          LET bucket == GetBucket(buckets, BitWidth(data[id]))
          IN  /\ bucket_positions[id] \in DOMAIN bucket
              /\ bucket[bucket_positions[id]] = id
    /\ \A w \in DOMAIN buckets : \A k \in DOMAIN buckets[w] :
          LET id == buckets[w][k]
          IN  /\ bucket_positions[id] = k
              /\ BitWidth(data[id]) + 1 = w

\* The live counter, the position map and the buckets agree on how many values
\* are live: the debug_asserts on `destination` and `start` in sort_in_place.
LiveCount ==
    /\ live_len = Cardinality(LiveIds)
    /\ live_len = Start(buckets, Len(buckets))

\* No empty bucket is left at the end, so that the number of slots is that of
\* the widest live value, whatever was removed, updated or sorted before.
TrailingTrimmed ==
    Len(buckets) = Max({0} \cup {BitWidth(data[id]) + 1 : id \in LiveIds})

\* The lookups, which go through the buckets, and get and iter, which go through
\* the position map, expose the same entries for every value; find_all lists
\* each ID once, and find returns one of them.
LookupsAgree ==
    \A target \in Values :
        LET holding == {id \in Ids : Get(id) = target}
        IN  /\ holding = {id \in DOMAIN data : <<id, target>> \in Iter}
            /\ Contains(target) <=> holding # {}
            /\ Range(FindAll(target)) = holding
            /\ Len(FindAll(target)) = Cardinality(holding)
            /\ IF holding = {} THEN Find(target) = NoId ELSE Find(target) \in holding

\* The promise of the public API, with what every call returns.
Abstract == INSTANCE LiveIndex WITH
                live <- [id \in LiveIds |-> data[id]],
                storage_len <- Len(data)

RefinesLiveIndex == Abstract!Spec

\* A removed entry's place among the removed ones.
RemovedRank(id) == Cardinality({r \in DOMAIN data \ LiveIds : r <= id})

\* Soft deletion keeps history: until a sort a removed entry stays removed and
\* keeps its value, and a sort moves the removed values behind the live ones
\* without losing, changing or reordering one.
HistoryKept ==
    [][IF reply'.op = "sarkar_sort"
       THEN /\ Len(data') = Len(data)
            /\ \A id \in DOMAIN data \ LiveIds :
                  data'[live_len' + RemovedRank(id)] = data[id]
       ELSE \A id \in DOMAIN data \ LiveIds :
                id \notin LiveIds' /\ data'[id] = data[id]]_vars

\* The two sorts agree: sarkar_sort leaves at the front of storage exactly what
\* sorted_snapshot would have returned, and that is ascending although each
\* bucket was sorted on its own.
SortMatchesSnapshot ==
    [][reply'.op = "sarkar_sort" =>
         /\ SubSeq(data', 1, live_len') = SortedSnapshot
         /\ SortedSnapshot' = SortedSnapshot
         /\ \A i, j \in 1 .. live_len' : i < j => data'[i] <= data'[j]]_vars

\* Sorting what was just sorted changes neither storage nor index.
SortIdempotent ==
    [][reply.op = "sarkar_sort" /\ reply'.op = "sarkar_sort" => UNCHANGED store]_vars

-------------------------------------------------------------------------------
(* What the documentation says and the code does not do.                   *)

\* The comment of find, "the first live storage ID containing target".
FindsFirstId ==
    \A target \in Values : \A id \in LiveIds :
        data[id] = target => Find(target) <= id
================================================================================
