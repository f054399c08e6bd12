---------------------------- MODULE HeapUseProofs ----------------------------
(***************************************************************************)
(* For every word size, set of client values, growth of the vectors and    *)
(* past of the process: what the allocator has counted is what             *)
(* memory_usage_bytes reports, and only a call that links an ID asks for   *)
(* more.                                                                   *)
(***************************************************************************)
EXTENDS HeapUse, BwspiProofs

-------------------------------------------------------------------------------
(* The room of a vector of buckets.                                        *)

IsVec(inner) == inner \in Seq(Nat)

Rooms(inner, slots) == UNION {{w} \X (1 .. inner[w]) : w \in slots}

IsRoom(inner, slots, x) == \E w \in slots : \E k \in 1 .. inner[w] : x = <<w, k>>

LEMMA RoomsMember ==
    ASSUME NEW inner, NEW slots, NEW x
    PROVE  x \in Rooms(inner, slots) <=> IsRoom(inner, slots, x)
  BY DEF Rooms, IsRoom

LEMMA RoomType ==
    ASSUME NEW inner, IsVec(inner), NEW slots \in SUBSET (1 .. Len(inner))
    PROVE  /\ IsFiniteSet(Rooms(inner, slots))
           /\ Room(inner, slots) = Cardinality(Rooms(inner, slots))
           /\ Room(inner, slots) \in Nat
<1>1. Len(inner) \in Nat /\ \A w \in 1 .. Len(inner) : inner[w] \in Nat
  BY DEF IsVec
<1>2. IsFiniteSet(slots)
  <2>1. PICK all : all = 1 .. Len(inner)
    OBVIOUS
  <2>2. IsFiniteSet(all)
    BY <1>1, <2>1, FS_Interval
  <2>3. QED
    BY <2>1, <2>2, FS_Subset
<1>3. PICK parts : parts = {{w} \X (1 .. inner[w]) : w \in slots}
  OBVIOUS
<1>4. IsFiniteSet(parts)
  <2>1. PICK part : part = [w \in slots |-> {w} \X (1 .. inner[w])]
    OBVIOUS
  <2>2. part \in Surjection(slots, parts)
    BY <1>3, <2>1 DEF Surjection
  <2>3. QED
    BY <1>2, <2>2, FS_Surjection
<1>5. \A T \in parts : IsFiniteSet(T)
  <2>1. SUFFICES ASSUME NEW w \in slots PROVE IsFiniteSet({w} \X (1 .. inner[w]))
    BY <1>3
  <2>2. IsFiniteSet(1 .. inner[w]) /\ IsFiniteSet({w})
    <3>1. inner[w] \in Nat
      BY <1>1
    <3>2. IsFiniteSet(1 .. inner[w])
      BY <3>1, FS_Interval
    <3>3. IsFiniteSet({w})
      BY FS_Singleton
    <3>4. QED
      BY <3>2, <3>3
  <2>3. PICK A, B : A = {w} /\ B = 1 .. inner[w]
    OBVIOUS
  <2>4. IsFiniteSet(A \X B)
    BY <2>2, <2>3, FS_Product
  <2>5. QED
    BY <2>3, <2>4
<1>6. IsFiniteSet(Rooms(inner, slots))
  BY <1>3, <1>4, <1>5, FS_UNION DEF Rooms
<1>7. Room(inner, slots) = Cardinality(Rooms(inner, slots))
  BY DEF Room, Rooms
<1>8. QED
  BY <1>6, <1>7, FS_CardinalityType

\* The rooms of different buckets are different.
LEMMA RoomSplits ==
    ASSUME NEW inner, IsVec(inner), NEW these \in SUBSET (1 .. Len(inner)),
           NEW those \in SUBSET (1 .. Len(inner)), these \cap those = {}
    PROVE  Room(inner, these \cup those) = Room(inner, these) + Room(inner, those)
<1>1. PICK A, B, C : /\ A = Rooms(inner, these) /\ B = Rooms(inner, those)
                     /\ C = Rooms(inner, these \cup those)
  OBVIOUS
<1>2. /\ IsFiniteSet(A) /\ Room(inner, these) = Cardinality(A)
      /\ IsFiniteSet(B) /\ Room(inner, those) = Cardinality(B)
      /\ Room(inner, these \cup those) = Cardinality(C)
  BY <1>1, RoomType
<1>3. C = A \cup B /\ A \cap B = {}
  <2>1. ASSUME NEW x
        PROVE  x \in A <=> IsRoom(inner, these, x)
    BY <1>1, RoomsMember
  <2>2. ASSUME NEW x
        PROVE  x \in B <=> IsRoom(inner, those, x)
    BY <1>1, RoomsMember
  <2>3. ASSUME NEW x
        PROVE  x \in C <=> IsRoom(inner, these \cup those, x)
    BY <1>1, RoomsMember
  <2>4. C = A \cup B
    BY <2>1, <2>2, <2>3 DEF IsRoom
  <2>5. A \cap B = {}
    BY <2>1, <2>2 DEF IsRoom
  <2>6. QED
    BY <2>4, <2>5
<1>4. Cardinality(A \cup B) = Cardinality(A) + Cardinality(B) - Cardinality(A \cap B)
  BY <1>2, FS_Union
<1>5. Cardinality(A \cap B) = 0 /\ Cardinality(A) \in Nat /\ Cardinality(B) \in Nat
  BY <1>2, <1>3, FS_EmptySet, FS_CardinalityType
<1>6. QED
  BY <1>2, <1>3, <1>4, <1>5

LEMMA RoomOfOne ==
    ASSUME NEW inner, IsVec(inner), NEW w \in 1 .. Len(inner)
    PROVE  Room(inner, {w}) = inner[w]
<1>1. inner[w] \in Nat
  BY DEF IsVec
<1>2. IsFiniteSet(1 .. inner[w]) /\ Cardinality(1 .. inner[w]) = inner[w]
  BY <1>1, UpToCardinality
<1>3. PICK R, places : R = Rooms(inner, {w}) /\ places = 1 .. inner[w]
  OBVIOUS
<1>4. IsFiniteSet(R) /\ Room(inner, {w}) = Cardinality(R)
  BY <1>3, RoomType
<1>5. \A x : x \in R <=> \E k \in places : x = <<w, k>>
  BY <1>3, RoomsMember DEF IsRoom
<1>6. Cardinality(places) <= Cardinality(R)
  <2>1. PICK f : f = [k \in places |-> <<w, k>>]
    OBVIOUS
  <2>2. \A k \in places : f[k] \in R
    BY <1>5, <2>1
  <2>3. \A k, l \in places : f[k] = f[l] => k = l
    BY <2>1
  <2>4. QED
    BY <1>4, <2>2, <2>3, CountedInto
<1>7. Cardinality(R) <= Cardinality(places)
  <2>1. PICK f : f = [x \in R |-> x[2]]
    OBVIOUS
  <2>2. \A x \in R : f[x] \in places /\ x = <<w, f[x]>>
    BY <1>5, <2>1
  <2>3. \A x, y \in R : f[x] = f[y] => x = y
    BY <2>2
  <2>4. QED
    BY <1>2, <1>3, <2>2, <2>3, CountedInto
<1>8. Cardinality(R) \in Nat /\ Cardinality(places) = inner[w]
  BY <1>2, <1>3, <1>4, FS_CardinalityType
<1>9. QED
  BY <1>1, <1>4, <1>6, <1>7, <1>8

\* Only the capacities of the buckets looked at count.
Alike(inner, other, slots) == \A w \in slots : inner[w] = other[w]

LEMMA RoomDepends ==
    ASSUME NEW inner, NEW other, NEW slots, Alike(inner, other, slots)
    PROVE  Room(inner, slots) = Room(other, slots)
<1>1. ASSUME NEW x
      PROVE  x \in Rooms(inner, slots) <=> x \in Rooms(other, slots)
  BY RoomsMember DEF Alike, IsRoom
<1>2. Rooms(inner, slots) = Rooms(other, slots)
  BY <1>1
<1>3. QED
  BY <1>2 DEF Room, Rooms

\* The room of all buckets.
AllRoom(inner) == Room(inner, 1 .. Len(inner))

\* One bucket gets another capacity.
LEMMA RoomAssigned ==
    ASSUME NEW inner, IsVec(inner), NEW w \in 1 .. Len(inner), NEW cap \in Nat,
           NEW other, other = [inner EXCEPT ![w] = cap]
    PROVE  /\ IsVec(other) /\ Len(other) = Len(inner)
           /\ AllRoom(other) = AllRoom(inner) - inner[w] + cap
           /\ AllRoom(inner) \in Nat /\ AllRoom(other) \in Nat
<1>1. /\ IsVec(other) /\ Len(other) = Len(inner) /\ other[w] = cap
      /\ \A v \in 1 .. Len(inner) : v # w => other[v] = inner[v]
  BY DEF IsVec
<1>2. PICK all, rest : all = 1 .. Len(inner) /\ rest = all \ {w}
  OBVIOUS
<1>3. rest \cup {w} = all /\ rest \cap {w} = {} /\ rest \in SUBSET all /\ {w} \in SUBSET all
  BY <1>2
<1>4. Room(inner, all) = Room(inner, rest) + Room(inner, {w})
  BY <1>2, <1>3, RoomSplits
<1>5. Room(other, all) = Room(other, rest) + Room(other, {w})
  BY <1>1, <1>2, <1>3, RoomSplits
<1>6. Room(inner, rest) = Room(other, rest)
  <2>1. Alike(inner, other, rest)
    BY <1>1, <1>2 DEF Alike
  <2>2. QED
    BY <2>1, RoomDepends
<1>7. Room(inner, {w}) = inner[w] /\ Room(other, {w}) = cap
  BY <1>1, RoomOfOne
<1>8. /\ Room(inner, rest) \in Nat /\ Room(inner, all) \in Nat /\ Room(other, all) \in Nat
      /\ inner[w] \in Nat
  <2>1. Room(inner, rest) \in Nat
    BY <1>2, <1>3, RoomType
  <2>2. Room(inner, all) \in Nat
    BY <1>2, RoomType
  <2>3. Room(other, all) \in Nat
    BY <1>1, <1>2, RoomType
  <2>4. QED
    BY <2>1, <2>2, <2>3 DEF IsVec
<1>9. QED
  BY <1>1, <1>2, <1>4, <1>5, <1>6, <1>7, <1>8 DEF AllRoom

LEMMA PlaceInRoom ==
    ASSUME NEW n, NEW k \in 1 .. n
    PROVE  n # 0
  OBVIOUS

\* New buckets have no room yet.
LEMMA RoomWidened ==
    ASSUME NEW inner, IsVec(inner), NEW more \in Nat,
           NEW other, other = inner \o [i \in 1 .. more |-> 0]
    PROVE  /\ IsVec(other) /\ Len(other) = Len(inner) + more
           /\ \A w \in 1 .. Len(inner) : other[w] = inner[w]
           /\ \A w \in Len(inner) + 1 .. Len(other) : other[w] = 0
           /\ AllRoom(other) = AllRoom(inner)
<1>1. /\ IsVec(other) /\ Len(other) = Len(inner) + more /\ Len(inner) \in Nat
      /\ \A w \in 1 .. Len(inner) : other[w] = inner[w]
      /\ \A w \in Len(inner) + 1 .. Len(other) : other[w] = 0
  <2>1. PICK zeros : zeros = [i \in 1 .. more |-> 0]
    OBVIOUS
  <2>2. zeros \in Seq(Nat) /\ Len(zeros) = more /\ \A i \in 1 .. more : zeros[i] = 0
    BY <2>1
  <2>3. inner \in Seq(Nat) /\ other = inner \o zeros
    BY <2>1 DEF IsVec
  <2>4. other \in Seq(Nat) /\ Len(other) = Len(inner) + more
    BY <2>2, <2>3
  <2>5. ASSUME NEW w \in 1 .. Len(other)
        PROVE  other[w] = IF w <= Len(inner) THEN inner[w] ELSE zeros[w - Len(inner)]
    BY <2>2, <2>3, <2>4
  <2>6. Len(inner) \in Nat
    BY <2>3
  <2>7. QED
    BY <2>2, <2>4, <2>5, <2>6 DEF IsVec
<1>2. PICK all, fewer : all = 1 .. Len(other) /\ fewer = 1 .. Len(inner)
  OBVIOUS
<1>3. ASSUME NEW x
      PROVE  IsRoom(other, all, x) <=> IsRoom(inner, fewer, x)
  <2>1. ASSUME NEW w \in all, NEW k \in 1 .. other[w]
        PROVE  w \in fewer /\ k \in 1 .. inner[w]
    <3>1. w \notin fewer => other[w] = 0
      BY <1>1, <1>2
    <3>2. PICK bound : bound = other[w]
      OBVIOUS
    <3>3. bound # 0
      BY <3>2, PlaceInRoom
    <3>4. w \in fewer
      BY <3>1, <3>2, <3>3
    <3>5. QED
      BY <1>1, <1>2, <3>4
  <2>2. ASSUME NEW w \in fewer, NEW k \in 1 .. inner[w]
        PROVE  w \in all /\ k \in 1 .. other[w]
    <3>1. w \in all
      BY <1>1, <1>2
    <3>2. QED
      BY <1>1, <1>2, <3>1
  <2>3. QED
    BY <2>1, <2>2 DEF IsRoom
<1>4. ASSUME NEW x
      PROVE  x \in Rooms(other, all) <=> x \in Rooms(inner, fewer)
  BY <1>3, RoomsMember
<1>5. Rooms(other, all) = Rooms(inner, fewer)
  BY <1>4
<1>6. AllRoom(other) = AllRoom(inner)
  BY <1>2, <1>5 DEF AllRoom, Room, Rooms
<1>7. QED
  BY <1>1, <1>6

\* The first buckets are kept, the others go.
LEMMA RoomCut ==
    ASSUME NEW inner, IsVec(inner), NEW slots \in 0 .. Len(inner),
           NEW other, other = SubSeq(inner, 1, slots)
    PROVE  /\ IsVec(other) /\ Len(other) = slots
           /\ \A w \in 1 .. slots : other[w] = inner[w]
           /\ AllRoom(inner) = AllRoom(other) + Room(inner, slots + 1 .. Len(inner))
           /\ AllRoom(other) \in Nat /\ Room(inner, slots + 1 .. Len(inner)) \in Nat
<1>1. Len(inner) \in Nat /\ slots \in Nat /\ slots <= Len(inner)
  BY DEF IsVec
<1>2. /\ IsVec(other) /\ Len(other) = slots
      /\ \A w \in 1 .. slots : other[w] = inner[w]
  BY <1>1 DEF IsVec
<1>3. PICK front, back : front = 1 .. slots /\ back = slots + 1 .. Len(inner)
  OBVIOUS
<1>4. /\ front \in SUBSET (1 .. Len(inner)) /\ back \in SUBSET (1 .. Len(inner))
      /\ front \cap back = {} /\ front \cup back = 1 .. Len(inner)
  BY <1>1, <1>3
<1>5. Room(inner, front \cup back) = Room(inner, front) + Room(inner, back)
  BY <1>4, RoomSplits
<1>6. Room(inner, front) = Room(other, front)
  <2>1. Alike(inner, other, front)
    BY <1>2, <1>3 DEF Alike
  <2>2. QED
    BY <2>1, RoomDepends
<1>7. Room(inner, front) \in Nat /\ Room(inner, back) \in Nat
  BY <1>4, RoomType
<1>8. QED
  BY <1>2, <1>3, <1>4, <1>5, <1>6, <1>7 DEF AllRoom

-------------------------------------------------------------------------------
(* The growth of a vector, and what it costs.                              *)

LEMMA GrownSuffices ==
    ASSUME NEW cap \in Nat, NEW needed \in Nat
    PROVE  /\ Grown(cap, needed) \in Nat
           /\ Grown(cap, needed) >= cap /\ Grown(cap, needed) >= needed
           /\ needed <= cap => Grown(cap, needed) = cap
<1>1. CASE needed <= cap
  BY <1>1 DEF Grown
<1>2. CASE ~ (needed <= cap)
  <2>1. MIN_NON_ZERO_CAP \in Nat
    BY HeapAssumption
  <2>2. PICK sizes, bound : /\ sizes = {2 * cap, needed, MIN_NON_ZERO_CAP}
                            /\ bound = 2 * cap + needed + MIN_NON_ZERO_CAP
    OBVIOUS
  <2>3. bound \in Nat /\ sizes \in SUBSET (0 .. bound) /\ needed \in sizes
    BY <2>1, <2>2
  <2>4. Max(sizes) \in sizes /\ \A x \in sizes : x <= Max(sizes)
    BY <2>3, MaxOfBounded
  <2>5. PICK top : top = Max(sizes)
    OBVIOUS
  <2>6. Grown(cap, needed) = top
    BY <1>2, <2>2, <2>5 DEF Grown
  <2>7. top \in sizes /\ needed <= top
    BY <2>3, <2>4, <2>5
  <2>8. top \in Nat
    BY <2>3, <2>7
  <2>9. QED
    BY <1>2, <2>6, <2>7, <2>8
<1>3. QED
  BY <1>1, <1>2

Counters == [alloc_bytes : Nat, alloc_count : Nat, dealloc_bytes : Nat]

LEMMA DeallocCounts ==
    ASSUME NEW h \in Counters, NEW bytes \in Nat, NEW after, after = Dealloc(h, bytes)
    PROVE  /\ after \in Counters /\ after.alloc_count = h.alloc_count
           /\ after.alloc_bytes = h.alloc_bytes
           /\ after.dealloc_bytes = h.dealloc_bytes + bytes
  BY DEF Dealloc, Counters

LEMMA AllocCounts ==
    ASSUME NEW h \in Counters, NEW bytes \in Nat, NEW after, after = Alloc(h, bytes)
    PROVE  /\ after \in Counters /\ after.alloc_bytes = h.alloc_bytes + bytes
           /\ after.dealloc_bytes = h.dealloc_bytes
<1>1. h.alloc_bytes \in Nat /\ h.alloc_count \in Nat
  BY DEF Counters
<1>2. PICK a, c : a = h.alloc_bytes + bytes /\ c = h.alloc_count + 1
  OBVIOUS
<1>3. after = [h EXCEPT !.alloc_bytes = a, !.alloc_count = c]
  BY <1>2 DEF Alloc, Counters
<1>4. a \in Nat /\ c \in Nat
  BY <1>1, <1>2
<1>5. after \in Counters /\ after.alloc_bytes = a /\ after.dealloc_bytes = h.dealloc_bytes
  BY <1>3, <1>4 DEF Counters
<1>6. QED
  BY <1>2, <1>5

\* Between two readings the allocator counted `new` bytes for `old` ones.
Counted(h, after, old, new) ==
    /\ after.alloc_bytes >= h.alloc_bytes /\ after.dealloc_bytes >= h.dealloc_bytes
    /\ after.alloc_bytes + h.dealloc_bytes + old = h.alloc_bytes + after.dealloc_bytes + new

\* A block of `old` bytes becomes one of `new` bytes.
LEMMA ReallocCounts ==
    ASSUME NEW h \in Counters, NEW old \in Nat, NEW new \in Nat,
           NEW after, after = Realloc(h, old, new)
    PROVE  /\ after \in Counters
           /\ Counted(h, after, old, new)
           /\ old = new => after = h
<1>1. CASE old = new
  BY <1>1 DEF Realloc, Counters, Counted
<1>2. CASE old # new
  <2>1. PICK block : block = Alloc(h, new)
    OBVIOUS
  <2>2. /\ block \in Counters
        /\ block.alloc_bytes = h.alloc_bytes + new /\ block.dealloc_bytes = h.dealloc_bytes
    BY <2>1, AllocCounts
  <2>3. after = Dealloc(block, old)
    BY <1>2, <2>1 DEF Realloc
  <2>4. /\ after \in Counters /\ after.alloc_bytes = block.alloc_bytes
        /\ after.dealloc_bytes = block.dealloc_bytes + old
    BY <2>2, <2>3, DeallocCounts
  <2>5. h.alloc_bytes \in Nat /\ h.dealloc_bytes \in Nat
    BY DEF Counters
  <2>6. QED
    BY <1>2, <2>2, <2>4, <2>5 DEF Counted
<1>3. QED
  BY <1>1, <1>2

-------------------------------------------------------------------------------
(* The memory of an index.                                                 *)

Capacities == [data : Nat, bucket_positions : Nat, buckets : Nat, inner : Seq(Nat)]

Memories == [heap : Counters, capacity : Capacities]

\* What memory_usage_bytes says of some capacities.
Usage(c) == 8 * c.data + 8 * c.bucket_positions + 24 * c.buckets + 8 * AllRoom(c.inner)

LEMMA UsageType ==
    ASSUME NEW c \in Capacities
    PROVE  /\ c.data \in Nat /\ c.bucket_positions \in Nat /\ c.buckets \in Nat
           /\ IsVec(c.inner) /\ AllRoom(c.inner) \in Nat /\ Usage(c) \in Nat
<1>1. /\ c.data \in Nat /\ c.bucket_positions \in Nat /\ c.buckets \in Nat
      /\ IsVec(c.inner)
  BY DEF Capacities, IsVec
<1>2. AllRoom(c.inner) \in Nat
  <2>1. PICK inner : inner = c.inner
    OBVIOUS
  <2>2. Room(inner, 1 .. Len(inner)) \in Nat
    BY <1>1, <2>1, RoomType
  <2>3. QED
    BY <2>1, <2>2 DEF AllRoom
<1>3. Usage(c) \in Nat
  BY <1>1, <1>2 DEF Usage
<1>4. QED
  BY <1>1, <1>2, <1>3

\* Capacities that differ in the room of the buckets.
LEMMA RoomUsage ==
    ASSUME NEW c \in Capacities, NEW d \in Capacities, NEW less \in Nat, NEW more \in Nat,
           c.data = d.data, c.bucket_positions = d.bucket_positions, c.buckets = d.buckets,
           AllRoom(c.inner) + less = AllRoom(d.inner) + more
    PROVE  Usage(c) + 8 * less = Usage(d) + 8 * more
<1>1. /\ c.data \in Nat /\ c.bucket_positions \in Nat /\ c.buckets \in Nat
      /\ AllRoom(c.inner) \in Nat /\ AllRoom(d.inner) \in Nat
  BY UsageType
<1>2. PICK flat, a, b : /\ flat = 8 * d.data + 8 * d.bucket_positions + 24 * d.buckets
                        /\ a = AllRoom(c.inner) /\ b = AllRoom(d.inner)
  OBVIOUS
<1>3. a \in Nat /\ b \in Nat /\ a + less = b + more
  BY <1>1, <1>2
<1>4. flat \in Nat
  BY <1>1, <1>2
<1>5. Usage(c) = flat + 8 * a /\ Usage(d) = flat + 8 * b
  BY <1>2 DEF Usage
<1>6. (flat + 8 * a) + 8 * less = (flat + 8 * b) + 8 * more
  BY <1>3, <1>4
<1>7. QED
  BY <1>5, <1>6

\* What the allocator has counted since the snapshot `since` is what is in use.
Balanced(since, m) ==
    /\ m.heap.alloc_bytes >= since.alloc_bytes
    /\ m.heap.dealloc_bytes >= since.dealloc_bytes
    /\ m.heap.alloc_bytes + since.dealloc_bytes
          = since.alloc_bytes + m.heap.dealloc_bytes + Usage(m.capacity)

\* From m to n the allocator counts what the index comes to use.
SameBalance(m, n) ==
    /\ n.heap.alloc_bytes >= m.heap.alloc_bytes
    /\ n.heap.dealloc_bytes >= m.heap.dealloc_bytes
    /\ n.heap.alloc_bytes + m.heap.dealloc_bytes + Usage(m.capacity)
          = m.heap.alloc_bytes + n.heap.dealloc_bytes + Usage(n.capacity)

\* Memory that only grew.
Grew(m, n) ==
    /\ n \in Memories
    /\ SameBalance(m, n)
    /\ Usage(n.capacity) >= Usage(m.capacity)

LEMMA MemoryType ==
    ASSUME NEW m \in Memories
    PROVE  /\ m.heap \in Counters /\ m.capacity \in Capacities
           /\ m.heap.alloc_bytes \in Nat /\ m.heap.dealloc_bytes \in Nat
           /\ m.heap.alloc_count \in Nat /\ Usage(m.capacity) \in Nat
<1>1. m.heap \in Counters /\ m.capacity \in Capacities
  BY DEF Memories
<1>2. Usage(m.capacity) \in Nat
  BY <1>1, UsageType
<1>3. QED
  BY <1>1, <1>2 DEF Counters

LEMMA BalanceKept ==
    ASSUME NEW since \in Counters, NEW m \in Memories, NEW n \in Memories,
           Balanced(since, m), SameBalance(m, n)
    PROVE  Balanced(since, n)
<1>1. /\ m.heap.alloc_bytes \in Nat /\ m.heap.dealloc_bytes \in Nat
      /\ n.heap.alloc_bytes \in Nat /\ n.heap.dealloc_bytes \in Nat
      /\ Usage(m.capacity) \in Nat /\ Usage(n.capacity) \in Nat
  BY MemoryType
<1>2. since.alloc_bytes \in Nat /\ since.dealloc_bytes \in Nat
  BY DEF Counters
<1>3. QED
  BY <1>1, <1>2 DEF Balanced, SameBalance

LEMMA BalanceJoins ==
    ASSUME NEW k \in Memories, NEW m \in Memories, NEW n \in Memories,
           SameBalance(k, m), SameBalance(m, n)
    PROVE  SameBalance(k, n)
<1>1. /\ k.heap.alloc_bytes \in Nat /\ k.heap.dealloc_bytes \in Nat
      /\ m.heap.alloc_bytes \in Nat /\ m.heap.dealloc_bytes \in Nat
      /\ n.heap.alloc_bytes \in Nat /\ n.heap.dealloc_bytes \in Nat
      /\ Usage(k.capacity) \in Nat /\ Usage(m.capacity) \in Nat /\ Usage(n.capacity) \in Nat
  BY MemoryType
<1>2. QED
  BY <1>1 DEF SameBalance

LEMMA GrewJoins ==
    ASSUME NEW k \in Memories, NEW m, NEW n, Grew(k, m), Grew(m, n)
    PROVE  Grew(k, n)
<1>1. m \in Memories /\ n \in Memories
  BY DEF Grew
<1>2. SameBalance(k, n)
  BY <1>1, BalanceJoins DEF Grew
<1>3. Usage(k.capacity) \in Nat /\ Usage(m.capacity) \in Nat /\ Usage(n.capacity) \in Nat
  BY <1>1, MemoryType
<1>4. QED
  BY <1>1, <1>2, <1>3 DEF Grew

\* A reservation for one of the three flat vectors.
LEMMA ReservedGrew ==
    ASSUME NEW m \in Memories, NEW vec \in {"data", "bucket_positions", "buckets"},
           NEW needed \in Nat, NEW n, n = Reserved(m, vec, needed)
    PROVE  /\ Grew(m, n)
           /\ n.capacity[vec] >= needed
           /\ \A other \in {"data", "bucket_positions", "buckets"} :
                 n.capacity[other] >= m.capacity[other]
           /\ n.capacity.inner = m.capacity.inner
           /\ needed <= m.capacity[vec] => n = m
<1> DEFINE cap == m.capacity[vec]
           new == Grown(cap, needed)
           size == SIZE[vec]
<1>1. /\ m.heap \in Counters /\ m.capacity \in Capacities
      /\ m = [heap |-> m.heap, capacity |-> m.capacity]
  BY DEF Memories
<1>2. /\ m.capacity.data \in Nat /\ m.capacity.bucket_positions \in Nat
      /\ m.capacity.buckets \in Nat /\ AllRoom(m.capacity.inner) \in Nat
  BY <1>1, UsageType
<1>3. cap \in Nat /\ size \in Nat /\ size = IF vec = "buckets" THEN 24 ELSE 8
  BY <1>2 DEF SIZE
<1>4. /\ new \in Nat /\ new >= cap /\ new >= needed
      /\ needed <= cap => new = cap
  <2> HIDE DEF cap
  <2>1. QED
    BY <1>3, GrownSuffices
<1>5. PICK h, c : /\ h = Realloc(m.heap, size * cap, size * new)
                  /\ c = [m.capacity EXCEPT ![vec] = new]
  OBVIOUS
<1>6. n = [heap |-> h, capacity |-> c]
  BY <1>5 DEF Reserved
<1>7. n.heap = h /\ n.capacity = c
  BY <1>6
<1> HIDE DEF cap, new, size
<1>8. /\ c \in Capacities /\ c[vec] = new /\ c.inner = m.capacity.inner
      /\ \A other \in {"data", "bucket_positions", "buckets"} :
            other # vec => c[other] = m.capacity[other]
  BY <1>1, <1>4, <1>5 DEF Capacities
<1>9. Usage(c) + size * cap = Usage(m.capacity) + size * new
  <2>1. CASE vec = "data"
    BY <1>2, <1>3, <1>4, <1>8, <2>1 DEF Usage, cap
  <2>2. CASE vec = "bucket_positions"
    BY <1>2, <1>3, <1>4, <1>8, <2>2 DEF Usage, cap
  <2>3. CASE vec = "buckets"
    BY <1>2, <1>3, <1>4, <1>8, <2>3 DEF Usage, cap
  <2>4. QED
    BY <2>1, <2>2, <2>3
<1>10. PICK old_bytes, new_bytes : old_bytes = size * cap /\ new_bytes = size * new
  OBVIOUS
<1>11. old_bytes \in Nat /\ new_bytes \in Nat /\ old_bytes <= new_bytes
  <2>1. CASE vec = "buckets"
    BY <1>3, <1>4, <1>10, <2>1
  <2>2. CASE vec # "buckets"
    BY <1>3, <1>4, <1>10, <2>2
  <2>3. QED
    BY <2>1, <2>2
<1>12. h = Realloc(m.heap, old_bytes, new_bytes)
  BY <1>5, <1>10
<1>13. /\ h \in Counters
       /\ Counted(m.heap, h, old_bytes, new_bytes)
       /\ old_bytes = new_bytes => h = m.heap
  <2>1. h \in Counters
    BY <1>1, <1>11, <1>12, ReallocCounts
  <2>2. Counted(m.heap, h, old_bytes, new_bytes)
    BY <1>1, <1>11, <1>12, ReallocCounts
  <2>3. old_bytes = new_bytes => h = m.heap
    BY <1>1, <1>11, <1>12, ReallocCounts
  <2>4. QED
    BY <2>1, <2>2, <2>3
<1>14. n \in Memories
  BY <1>6, <1>8, <1>13 DEF Memories
<1>15. Usage(c) + old_bytes = Usage(m.capacity) + new_bytes
  BY <1>9, <1>10
<1>16. SameBalance(m, n) /\ Usage(n.capacity) >= Usage(m.capacity)
  <2>1. /\ m.heap.alloc_bytes \in Nat /\ m.heap.dealloc_bytes \in Nat
        /\ Usage(m.capacity) \in Nat
    BY MemoryType
  <2>2. /\ n.heap.alloc_bytes \in Nat /\ n.heap.dealloc_bytes \in Nat
        /\ Usage(n.capacity) \in Nat
    BY <1>14, MemoryType
  <2>3. h.alloc_bytes \in Nat /\ h.dealloc_bytes \in Nat /\ Usage(c) \in Nat
    BY <1>7, <2>2
  <2>4. QED
    BY <1>7, <1>11, <1>13, <1>15, <2>1, <2>3 DEF SameBalance, Counted
<1>17. needed <= cap => n = m
  <2>1. SUFFICES ASSUME needed <= cap PROVE n = m
    OBVIOUS
  <2>2. new = cap
    BY <1>4, <2>1
  <2>3. c = m.capacity
    BY <1>1, <1>5, <2>2 DEF cap, Capacities
  <2>4. h = m.heap
    BY <1>10, <1>13, <2>2
  <2>5. QED
    BY <1>1, <1>6, <2>3, <2>4
<1>18. \A other \in {"data", "bucket_positions", "buckets"} : c[other] >= m.capacity[other]
  BY <1>2, <1>4, <1>8 DEF cap
<1>19. Grew(m, n)
  BY <1>14, <1>16 DEF Grew
<1>20. QED
  BY <1>4, <1>7, <1>8, <1>17, <1>18, <1>19 DEF cap

\* A reservation for one bucket.
HasBucket(m, width) == width + 1 \in 1 .. Len(m.capacity.inner)

LEMMA BucketReservedGrew ==
    ASSUME NEW m \in Memories, NEW width \in Nat, HasBucket(m, width),
           NEW needed \in Nat, NEW n, n = BucketReserved(m, width, needed)
    PROVE  /\ Grew(m, n)
           /\ n.capacity.data = m.capacity.data
           /\ n.capacity.bucket_positions = m.capacity.bucket_positions
           /\ n.capacity.buckets = m.capacity.buckets
           /\ Len(n.capacity.inner) = Len(m.capacity.inner)
           /\ n.capacity.inner[width + 1] >= needed
           /\ \A w \in 1 .. Len(m.capacity.inner) :
                 w # width + 1 => n.capacity.inner[w] = m.capacity.inner[w]
<1>1. /\ m.heap \in Counters /\ m.capacity \in Capacities
      /\ m = [heap |-> m.heap, capacity |-> m.capacity]
  BY DEF Memories
<1>2. /\ m.capacity.data \in Nat /\ m.capacity.bucket_positions \in Nat
      /\ m.capacity.buckets \in Nat
  BY <1>1, UsageType
<1>3. PICK inner, at : inner = m.capacity.inner /\ at = width + 1
  OBVIOUS
<1>4. IsVec(inner) /\ at \in 1 .. Len(inner)
  BY <1>1, <1>3, UsageType DEF HasBucket
<1>5. PICK old : old = inner[at]
  OBVIOUS
<1>6. old \in Nat
  BY <1>4, <1>5 DEF IsVec
<1>7. PICK new : new = Grown(old, needed)
  OBVIOUS
<1>8. new \in Nat /\ new >= old /\ new >= needed
  BY <1>6, <1>7, GrownSuffices
<1>9. PICK wider : wider = [inner EXCEPT ![at] = new]
  OBVIOUS
<1>10. IsVec(wider) /\ Len(wider) = Len(inner)
  BY <1>4, <1>8, <1>9, RoomAssigned
<1>11. /\ AllRoom(wider) = AllRoom(inner) - old + new
       /\ AllRoom(inner) \in Nat /\ AllRoom(wider) \in Nat
  BY <1>4, <1>5, <1>8, <1>9, RoomAssigned
<1>12. /\ wider[at] = new
       /\ \A w \in 1 .. Len(inner) : w # at => wider[w] = inner[w]
  BY <1>4, <1>9 DEF IsVec
<1>13. PICK h, c : /\ h = Realloc(m.heap, 8 * old, 8 * new)
                   /\ c = [m.capacity EXCEPT !.inner = wider]
  OBVIOUS
<1>14. n = [heap |-> h, capacity |-> c]
  <2>1. [m.capacity EXCEPT !.inner[width + 1] = new] = c
    BY <1>1, <1>3, <1>9, <1>13 DEF Capacities
  <2>2. SIZE.inner = 8
    BY DEF SIZE
  <2>3. QED
    BY <1>3, <1>5, <1>7, <1>13, <2>1, <2>2 DEF BucketReserved
<1>15. n.heap = h /\ n.capacity = c
  BY <1>14
<1>16. /\ c \in Capacities /\ c.inner = wider /\ c.data = m.capacity.data
       /\ c.bucket_positions = m.capacity.bucket_positions
       /\ c.buckets = m.capacity.buckets
  BY <1>1, <1>10, <1>13 DEF Capacities, IsVec
<1>17. Usage(c) + 8 * old = Usage(m.capacity) + 8 * new
  <2>1. AllRoom(c.inner) + old = AllRoom(m.capacity.inner) + new
    BY <1>3, <1>6, <1>8, <1>11, <1>16
  <2>2. QED
    BY <1>1, <1>6, <1>8, <1>16, <2>1, RoomUsage
<1>18. PICK old_bytes, new_bytes : old_bytes = 8 * old /\ new_bytes = 8 * new
  OBVIOUS
<1>19. old_bytes \in Nat /\ new_bytes \in Nat /\ old_bytes <= new_bytes
  BY <1>6, <1>8, <1>18
<1>20. h = Realloc(m.heap, old_bytes, new_bytes)
  BY <1>13, <1>18
<1>21. h \in Counters
  BY <1>1, <1>19, <1>20, ReallocCounts
<1>22. Counted(m.heap, h, old_bytes, new_bytes)
  BY <1>1, <1>19, <1>20, ReallocCounts
<1>23. n \in Memories
  BY <1>14, <1>16, <1>21 DEF Memories
<1>24. SameBalance(m, n) /\ Usage(n.capacity) >= Usage(m.capacity)
  <2>1. /\ m.heap.alloc_bytes \in Nat /\ m.heap.dealloc_bytes \in Nat
        /\ Usage(m.capacity) \in Nat
    BY MemoryType
  <2>2. h.alloc_bytes \in Nat /\ h.dealloc_bytes \in Nat /\ Usage(c) \in Nat
    BY <1>15, <1>23, MemoryType
  <2>3. Usage(c) + old_bytes = Usage(m.capacity) + new_bytes
    BY <1>17, <1>18
  <2>4. Usage(c) >= Usage(m.capacity)
    BY <1>19, <2>1, <2>2, <2>3
  <2>5. h.alloc_bytes + m.heap.dealloc_bytes + Usage(m.capacity)
          = m.heap.alloc_bytes + h.dealloc_bytes + Usage(c)
    BY <1>19, <1>22, <2>1, <2>2, <2>3 DEF Counted
  <2>6. QED
    BY <1>15, <1>22, <2>4, <2>5 DEF SameBalance, Counted
<1>25. Grew(m, n)
  BY <1>23, <1>24 DEF Grew
<1>26. QED
  BY <1>3, <1>8, <1>10, <1>12, <1>15, <1>16, <1>25

-------------------------------------------------------------------------------
(* Room enough for storage of some places and for the buckets bs.          *)

Fits(c, places, bs) ==
    /\ c.data >= places /\ c.bucket_positions >= places
    /\ c.buckets >= Len(bs) /\ Len(c.inner) = Len(bs)
    /\ \A w \in 1 .. Len(bs) : c.inner[w] >= Len(bs[w])

\* Memory m with room for storage of `old` places becomes n with room for `places`.
Stored(m, old, n, places, bs) ==
    /\ Grew(m, n)
    /\ Fits(n.capacity, places, bs)
    /\ places <= old => n = m

\* The reservations of insert and insert_bulk for storage.
LEMMA PlacesReserved ==
    ASSUME NEW m \in Memories, NEW old \in Nat, NEW bs, Fits(m.capacity, old, bs),
           NEW places \in Nat,
           NEW n, n = Reserved(Reserved(m, "data", places), "bucket_positions", places)
    PROVE  Stored(m, old, n, places, bs)
<1>1. PICK first : first = Reserved(m, "data", places)
  OBVIOUS
<1>2. n = Reserved(first, "bucket_positions", places)
  BY <1>1
<1>3. /\ Grew(m, first) /\ first.capacity["data"] >= places
      /\ first.capacity.inner = m.capacity.inner
  BY <1>1, ReservedGrew
<1>4. first.capacity["buckets"] >= m.capacity["buckets"]
  BY <1>1, ReservedGrew
<1>5. first \in Memories
  BY <1>3 DEF Grew
<1>6. /\ Grew(first, n) /\ n.capacity["bucket_positions"] >= places
      /\ n.capacity.inner = first.capacity.inner
  BY <1>2, <1>5, ReservedGrew
<1>7. /\ n.capacity["buckets"] >= first.capacity["buckets"]
      /\ n.capacity["data"] >= first.capacity["data"]
  BY <1>2, <1>5, ReservedGrew
<1>8. Grew(m, n)
  BY <1>3, <1>6, GrewJoins
<1>9. /\ m.capacity \in Capacities /\ first.capacity \in Capacities
      /\ n.capacity \in Capacities
  BY <1>5, <1>8, MemoryType DEF Grew
<1>10. Fits(n.capacity, places, bs)
  <2>1. /\ m.capacity.buckets \in Nat /\ first.capacity.buckets \in Nat
        /\ n.capacity.buckets \in Nat /\ first.capacity.data \in Nat /\ n.capacity.data \in Nat
        /\ n.capacity.bucket_positions \in Nat
    BY <1>9, UsageType
  <2>2. m.capacity.buckets >= Len(bs) /\ Len(m.capacity.inner) = Len(bs)
    BY DEF Fits
  <2>3. /\ n.capacity.data >= places /\ n.capacity.bucket_positions >= places
        /\ n.capacity.buckets >= m.capacity.buckets
    BY <1>3, <1>4, <1>6, <1>7, <2>1
  <2>4. n.capacity.buckets >= Len(bs)
    <3>1. IsVec(m.capacity.inner)
      BY <1>9, UsageType
    <3>2. Len(bs) \in Nat
      BY <2>2, <3>1 DEF IsVec
    <3>3. QED
      BY <2>1, <2>2, <2>3, <3>2
  <2>5. QED
    BY <1>3, <1>6, <2>3, <2>4 DEF Fits
<1>11. places <= old => n = m
  <2>1. SUFFICES ASSUME places <= old PROVE n = m
    OBVIOUS
  <2>2. m.capacity.data \in Nat /\ m.capacity.bucket_positions \in Nat
    BY <1>9, UsageType
  <2>3. places <= m.capacity["data"] /\ places <= m.capacity["bucket_positions"]
    BY <2>1, <2>2 DEF Fits
  <2>4. first = m
    BY <1>1, <2>3, ReservedGrew
  <2>5. QED
    BY <1>2, <2>3, <2>4, ReservedGrew
<1>12. QED
  BY <1>8, <1>10, <1>11 DEF Stored

\* The vector of buckets is reserved and widened with buckets that have no room.
Widened(outer, more) == [outer EXCEPT !.capacity.inner = @ \o [i \in 1 .. more |-> 0]]

Appended(inner, wide, more) ==
    /\ Len(wide) = Len(inner) + more
    /\ \A w \in 1 .. Len(inner) : wide[w] = inner[w]
    /\ \A w \in Len(inner) + 1 .. Len(wide) : wide[w] = 0

LEMMA WidenedGrew ==
    ASSUME NEW m \in Memories, NEW more \in Nat, NEW slots \in Nat,
           NEW outer, outer = Reserved(m, "buckets", slots),
           NEW n, n = Widened(outer, more)
    PROVE  /\ Grew(m, n)
           /\ n.capacity.buckets >= slots /\ n.capacity.buckets >= m.capacity.buckets
           /\ n.capacity.data >= m.capacity.data
           /\ n.capacity.bucket_positions >= m.capacity.bucket_positions
           /\ Appended(m.capacity.inner, n.capacity.inner, more)
<1>1. /\ Grew(m, outer) /\ outer.capacity["buckets"] >= slots
      /\ outer.capacity.inner = m.capacity.inner
  BY ReservedGrew
<1>2. \A other \in {"data", "bucket_positions", "buckets"} :
         outer.capacity[other] >= m.capacity[other]
  BY ReservedGrew
<1>3. /\ outer.capacity.data >= m.capacity.data
      /\ outer.capacity.bucket_positions >= m.capacity.bucket_positions
      /\ outer.capacity.buckets >= m.capacity.buckets
      /\ outer.capacity.buckets >= slots
  BY <1>1, <1>2
<1>4. outer \in Memories /\ outer.heap \in Counters /\ outer.capacity \in Capacities
  BY <1>1, MemoryType DEF Grew
<1>5. PICK inner, wide : /\ inner = m.capacity.inner
                         /\ wide = inner \o [i \in 1 .. more |-> 0]
  OBVIOUS
<1>6. IsVec(inner)
  BY <1>1, <1>4, <1>5, UsageType
<1>7. /\ IsVec(wide) /\ Len(wide) = Len(inner) + more
      /\ AllRoom(wide) = AllRoom(inner)
  BY <1>5, <1>6, RoomWidened
<1>8. /\ \A w \in 1 .. Len(inner) : wide[w] = inner[w]
      /\ \A w \in Len(inner) + 1 .. Len(wide) : wide[w] = 0
  BY <1>5, <1>6, RoomWidened
<1>9. PICK c : c = [outer.capacity EXCEPT !.inner = wide]
  OBVIOUS
<1>10. n = [heap |-> outer.heap, capacity |-> c]
  <2>1. n = [outer EXCEPT !.capacity = c]
    BY <1>1, <1>4, <1>5, <1>9 DEF Memories, Capacities, Widened
  <2>2. QED
    BY <1>4, <2>1 DEF Memories
<1>11. /\ c \in Capacities /\ c.inner = wide /\ c.data = outer.capacity.data
       /\ c.bucket_positions = outer.capacity.bucket_positions
       /\ c.buckets = outer.capacity.buckets
  BY <1>4, <1>7, <1>9 DEF Capacities, IsVec
<1>12. n.heap = outer.heap /\ n.capacity = c
  BY <1>10
<1>13. n \in Memories
  BY <1>4, <1>10, <1>11 DEF Memories
<1>14. Usage(c) = Usage(outer.capacity)
  BY <1>1, <1>5, <1>7, <1>11 DEF Usage
<1>15. Grew(outer, n)
  <2>1. /\ outer.heap.alloc_bytes \in Nat /\ outer.heap.dealloc_bytes \in Nat
        /\ Usage(outer.capacity) \in Nat
    BY <1>4, MemoryType
  <2>2. SameBalance(outer, n)
    BY <1>12, <1>14, <2>1 DEF SameBalance
  <2>3. Usage(n.capacity) >= Usage(outer.capacity)
    BY <1>12, <1>14, <2>1
  <2>4. QED
    BY <1>13, <2>2, <2>3 DEF Grew
<1>16. Grew(m, n)
  BY <1>1, <1>15, GrewJoins
<1>17. QED
  BY <1>3, <1>5, <1>7, <1>8, <1>11, <1>12, <1>16 DEF Appended

\* From the buckets bs to the buckets linked, the bucket of a width got one ID
\* more and no other any.
Lengthened(bs, linked, width) ==
    /\ Len(bs) \in Nat /\ Len(linked) \in Nat /\ Len(bs) <= Len(linked)
    /\ width + 1 \in 1 .. Len(linked)
    /\ Len(GetBucket(bs, width)) \in Nat
    /\ Len(linked[width + 1]) = Len(GetBucket(bs, width)) + 1
    /\ \A w \in 1 .. Len(bs) : w # width + 1 => Len(linked[w]) = Len(bs[w])
    /\ \A w \in Len(bs) + 1 .. Len(linked) : w # width + 1 => Len(linked[w]) = 0

LEMMA LinkLengthens ==
    ASSUME NEW S, NEW bs \in Seq(Seq(S)), NEW width \in Nat, NEW id \in S
    PROVE  /\ Lengthened(bs, LinkB(bs, id, width), width)
           /\ Len(LinkB(bs, id, width)) = Len(EnsureBucket(bs, width))
<1>1. PICK grown, linked : /\ grown = EnsureBucket(bs, width)
                           /\ linked = LinkB(bs, id, width)
  OBVIOUS
<1>2. /\ grown \in Seq(Seq(S))
      /\ Len(grown) = IF width >= Len(bs) THEN width + 1 ELSE Len(bs)
      /\ \A w \in 1 .. Len(grown) : grown[w] = IF w <= Len(bs) THEN bs[w] ELSE <<>>
  BY <1>1, EnsureBucketFacts
<1>3. PICK at : at = width + 1
  OBVIOUS
<1>4. linked = [grown EXCEPT ![at] = Append(grown[at], id)]
  BY <1>1, <1>3 DEF LinkB
<1>5. /\ Len(bs) \in Nat /\ Len(grown) \in Nat /\ Len(bs) <= Len(grown)
      /\ at \in 1 .. Len(grown)
  BY <1>2, <1>3
<1>6. grown[at] \in Seq(S)
  BY <1>2, <1>5
<1>7. Append(grown[at], id) \in Seq(S) /\ Len(Append(grown[at], id)) = Len(grown[at]) + 1
      /\ Len(grown[at]) \in Nat
  BY <1>6
<1>8. /\ Len(linked) = Len(grown) /\ linked[at] = Append(grown[at], id)
      /\ \A w \in 1 .. Len(grown) : w # at => linked[w] = grown[w]
  <2>1. PICK longer : longer = Append(grown[at], id)
    OBVIOUS
  <2>2. linked = [grown EXCEPT ![at] = longer]
    BY <1>4, <2>1
  <2>3. QED
    BY <1>2, <1>5, <2>1, <2>2
<1>9. grown[at] = GetBucket(bs, width)
  BY <1>2, <1>3, <1>5 DEF GetBucket
<1>10. \A w \in 1 .. Len(bs) : w # at => Len(linked[w]) = Len(bs[w])
  <2>1. SUFFICES ASSUME NEW w \in 1 .. Len(bs), w # at
                 PROVE  Len(linked[w]) = Len(bs[w])
    OBVIOUS
  <2>2. w \in 1 .. Len(grown) /\ w <= Len(bs)
    BY <1>5
  <2>3. linked[w] = bs[w]
    BY <1>2, <1>8, <2>1, <2>2
  <2>4. QED
    BY <2>3
<1>11. \A w \in Len(bs) + 1 .. Len(linked) : w # at => Len(linked[w]) = 0
  <2>1. SUFFICES ASSUME NEW w \in Len(bs) + 1 .. Len(grown), w # at
                 PROVE  Len(linked[w]) = 0
    BY <1>8
  <2>2. w \in 1 .. Len(grown) /\ ~ (w <= Len(bs))
    BY <1>5
  <2>3. linked[w] = <<>>
    BY <1>2, <1>8, <2>1, <2>2
  <2>4. QED
    BY <2>3
<1>12. QED
  BY <1>1, <1>3, <1>5, <1>7, <1>8, <1>9, <1>10, <1>11 DEF Lengthened

\* The capacities before and after a link, bucket by bucket.
LEMMA LinkFits ==
    ASSUME NEW c \in Capacities, NEW places, NEW bs, Fits(c, places, bs),
           NEW linked, NEW width \in Nat, Lengthened(bs, linked, width),
           NEW d \in Capacities, d.data >= places, d.bucket_positions >= places,
           d.buckets >= Len(linked), NEW inner, Len(inner) = Len(linked),
           Alike(c.inner, inner, 1 .. Len(bs)),
           \A w \in Len(bs) + 1 .. Len(linked) : inner[w] = 0,
           Len(d.inner) = Len(linked), d.inner[width + 1] >= Len(linked[width + 1]),
           Alike(inner, d.inner, (1 .. Len(linked)) \ {width + 1})
    PROVE  Fits(d, places, linked)
<1>1. SUFFICES ASSUME NEW w \in 1 .. Len(linked)
               PROVE  d.inner[w] >= Len(linked[w])
  BY DEF Fits
<1>2. CASE w = width + 1
  BY <1>2
<1>3. CASE w # width + 1 /\ w \in 1 .. Len(bs)
  <2>1. d.inner[w] = c.inner[w]
    BY <1>3 DEF Alike
  <2>2. c.inner[w] >= Len(bs[w])
    BY <1>3 DEF Fits
  <2>3. Len(linked[w]) = Len(bs[w])
    BY <1>3 DEF Lengthened
  <2>4. QED
    BY <2>1, <2>2, <2>3
<1>4. CASE w # width + 1 /\ w \notin 1 .. Len(bs)
  <2>1. w \in Len(bs) + 1 .. Len(linked)
    BY <1>4 DEF Lengthened
  <2>2. d.inner[w] = 0
    BY <1>4, <2>1 DEF Alike
  <2>3. Len(linked[w]) = 0
    BY <1>4, <2>1 DEF Lengthened
  <2>4. QED
    BY <2>2, <2>3
<1>5. QED
  BY <1>2, <1>3, <1>4

\* ensure_bucket and the push of link_existing.
LEMMA LinkReservedGrew ==
    ASSUME NEW m \in Memories, NEW places \in Nat, NEW bs, Fits(m.capacity, places, bs),
           NEW linked, NEW width \in Nat, Lengthened(bs, linked, width),
           Len(EnsureBucket(bs, width)) = Len(linked),
           NEW n, n = LinkReserved(m, bs, width)
    PROVE  Grew(m, n) /\ Fits(n.capacity, places, linked)
<1>1. PICK slots, more, needed : /\ slots = Len(linked) /\ more = slots - Len(bs)
                                 /\ needed = Len(GetBucket(bs, width)) + 1
  OBVIOUS
<1>2. /\ slots \in Nat /\ more \in Nat /\ needed \in Nat /\ Len(bs) \in Nat
      /\ slots = Len(bs) + more
  BY <1>1 DEF Lengthened
<1>3. PICK outer, wide : /\ outer = Reserved(m, "buckets", slots)
                         /\ wide = Widened(outer, more)
  OBVIOUS
<1>4. n = BucketReserved(wide, width, needed)
  BY <1>1, <1>3 DEF LinkReserved, Widened
<1>5. /\ Grew(m, wide)
      /\ wide.capacity.buckets >= slots
      /\ wide.capacity.data >= m.capacity.data
      /\ wide.capacity.bucket_positions >= m.capacity.bucket_positions
      /\ Appended(m.capacity.inner, wide.capacity.inner, more)
  <2>1. Grew(m, wide)
    BY <1>2, <1>3, WidenedGrew
  <2>2. wide.capacity.buckets >= slots
    BY <1>2, <1>3, WidenedGrew
  <2>3. wide.capacity.data >= m.capacity.data
    BY <1>2, <1>3, WidenedGrew
  <2>4. wide.capacity.bucket_positions >= m.capacity.bucket_positions
    BY <1>2, <1>3, WidenedGrew
  <2>5. Appended(m.capacity.inner, wide.capacity.inner, more)
    BY <1>2, <1>3, WidenedGrew
  <2>6. QED
    BY <2>1, <2>2, <2>3, <2>4, <2>5
<1>6. /\ \A w \in 1 .. Len(m.capacity.inner) : wide.capacity.inner[w] = m.capacity.inner[w]
      /\ \A w \in Len(m.capacity.inner) + 1 .. Len(wide.capacity.inner) :
            wide.capacity.inner[w] = 0
  BY <1>5 DEF Appended
<1>7. Len(m.capacity.inner) = Len(bs)
  BY DEF Fits
<1>8. Len(wide.capacity.inner) = slots
  BY <1>2, <1>5, <1>7 DEF Appended
<1>9. wide \in Memories
  BY <1>5 DEF Grew
<1>10. HasBucket(wide, width)
  BY <1>1, <1>8 DEF HasBucket, Lengthened
<1>11. /\ Grew(wide, n)
       /\ n.capacity.data = wide.capacity.data
       /\ n.capacity.bucket_positions = wide.capacity.bucket_positions
       /\ n.capacity.buckets = wide.capacity.buckets
       /\ Len(n.capacity.inner) = Len(wide.capacity.inner)
       /\ n.capacity.inner[width + 1] >= needed
  BY <1>2, <1>4, <1>9, <1>10, BucketReservedGrew
<1>12. \A w \in 1 .. Len(wide.capacity.inner) :
          w # width + 1 => n.capacity.inner[w] = wide.capacity.inner[w]
  BY <1>2, <1>4, <1>9, <1>10, BucketReservedGrew
<1>13. Grew(m, n)
  BY <1>5, <1>11, GrewJoins
<1>14. m.capacity \in Capacities /\ wide.capacity \in Capacities /\ n.capacity \in Capacities
  BY <1>9, <1>13, MemoryType DEF Grew
<1>15. n.capacity.data >= places /\ n.capacity.bucket_positions >= places
  <2>1. /\ m.capacity.data \in Nat /\ m.capacity.bucket_positions \in Nat
        /\ wide.capacity.data \in Nat /\ wide.capacity.bucket_positions \in Nat
    BY <1>14, UsageType
  <2>2. m.capacity.data >= places /\ m.capacity.bucket_positions >= places
    BY DEF Fits
  <2>3. wide.capacity.data >= places /\ wide.capacity.bucket_positions >= places
    BY <1>5, <2>1, <2>2
  <2>4. QED
    BY <1>11, <2>3
<1>16. PICK inner, d : inner = wide.capacity.inner /\ d = n.capacity
  OBVIOUS
<1>17. Alike(m.capacity.inner, inner, 1 .. Len(bs))
  BY <1>6, <1>7, <1>16 DEF Alike
<1>18. \A w \in Len(bs) + 1 .. Len(linked) : inner[w] = 0
  BY <1>1, <1>6, <1>7, <1>8, <1>16
<1>19. Alike(inner, d.inner, (1 .. Len(linked)) \ {width + 1})
  BY <1>1, <1>8, <1>12, <1>16 DEF Alike
<1>20. d.inner[width + 1] >= Len(linked[width + 1])
  BY <1>1, <1>11, <1>16 DEF Lengthened
<1>21. /\ d \in Capacities /\ d.data >= places /\ d.bucket_positions >= places
       /\ d.buckets >= Len(linked) /\ Len(d.inner) = Len(linked) /\ Len(inner) = Len(linked)
  BY <1>1, <1>5, <1>8, <1>11, <1>14, <1>15, <1>16
<1>22. Fits(d, places, linked)
  BY <1>14, <1>17, <1>18, <1>19, <1>20, <1>21, LinkFits
<1>23. QED
  BY <1>13, <1>16, <1>22

\* The buckets that stay got no longer.
Narrowed(bs, fewer) ==
    /\ Len(fewer) \in 0 .. Len(bs)
    /\ \A w \in 1 .. Len(fewer) : Len(fewer[w]) <= Len(bs[w])

Lengths(bs) == Len(bs) \in Nat /\ \A w \in 1 .. Len(bs) : Len(bs[w]) \in Nat

\* Memory m with room for the buckets bs becomes n with room for the buckets left.
Dropped(m, bs, n, fewer, places) ==
    /\ n \in Memories /\ SameBalance(m, n) /\ Fits(n.capacity, places, fewer)
    /\ n.heap.alloc_count = m.heap.alloc_count
    /\ Len(fewer) = Len(bs) => Usage(n.capacity) = Usage(m.capacity)

\* Buckets dropped from the end take their blocks with them.
LEMMA PoppedFits ==
    ASSUME NEW m \in Memories, NEW places, NEW bs, Fits(m.capacity, places, bs),
           NEW fewer, Narrowed(bs, fewer), Lengths(bs), Lengths(fewer),
           NEW n, n = PoppedFreed(m, Len(fewer))
    PROVE  Dropped(m, bs, n, fewer, places)
<1>1. /\ m.heap \in Counters /\ m.capacity \in Capacities
      /\ m = [heap |-> m.heap, capacity |-> m.capacity]
  BY DEF Memories
<1>2. PICK inner, slots : inner = m.capacity.inner /\ slots = Len(fewer)
  OBVIOUS
<1>3. IsVec(inner) /\ Len(inner) = Len(bs) /\ slots \in 0 .. Len(inner)
  BY <1>1, <1>2, UsageType DEF Fits, Narrowed, Lengths
<1>4. PICK cut, freed : /\ cut = SubSeq(inner, 1, slots)
                        /\ freed = Room(inner, slots + 1 .. Len(inner))
  OBVIOUS
<1>5. IsVec(cut) /\ Len(cut) = slots /\ \A w \in 1 .. slots : cut[w] = inner[w]
  BY <1>3, <1>4, RoomCut
<1>6. /\ AllRoom(inner) = AllRoom(cut) + freed
      /\ AllRoom(cut) \in Nat /\ freed \in Nat
  BY <1>3, <1>4, RoomCut
<1>7. PICK h, c : /\ h = Dealloc(m.heap, 8 * freed)
                  /\ c = [m.capacity EXCEPT !.inner = cut]
  OBVIOUS
<1>8. n = [heap |-> h, capacity |-> c]
  <2>1. [m.capacity EXCEPT !.inner = SubSeq(@, 1, slots)] = c
    BY <1>1, <1>2, <1>4, <1>7 DEF Capacities
  <2>2. SIZE.inner = 8
    BY DEF SIZE
  <2>3. QED
    BY <1>2, <1>4, <1>7, <2>1, <2>2 DEF PoppedFreed
<1>9. n.heap = h /\ n.capacity = c
  BY <1>8
<1>10. /\ c \in Capacities /\ c.inner = cut /\ c.data = m.capacity.data
       /\ c.bucket_positions = m.capacity.bucket_positions
       /\ c.buckets = m.capacity.buckets
  BY <1>1, <1>5, <1>7 DEF Capacities, IsVec
<1>11. 8 * freed \in Nat
  BY <1>6
<1>12. /\ h \in Counters /\ h.alloc_count = m.heap.alloc_count
       /\ h.alloc_bytes = m.heap.alloc_bytes
       /\ h.dealloc_bytes = m.heap.dealloc_bytes + 8 * freed
  BY <1>1, <1>7, <1>11, DeallocCounts
<1>13. n \in Memories
  BY <1>8, <1>10, <1>12 DEF Memories
<1>14. Usage(c) + 8 * freed = Usage(m.capacity)
  <2>1. AllRoom(c.inner) + freed = AllRoom(m.capacity.inner) + 0
    BY <1>2, <1>6, <1>10
  <2>2. Usage(c) + 8 * freed = Usage(m.capacity) + 8 * 0
    BY <1>1, <1>6, <1>10, <2>1, RoomUsage
  <2>3. Usage(m.capacity) \in Nat
    BY MemoryType
  <2>4. QED
    BY <2>2, <2>3
<1>15. SameBalance(m, n)
  <2>1. /\ m.heap.alloc_bytes \in Nat /\ m.heap.dealloc_bytes \in Nat
        /\ Usage(m.capacity) \in Nat
    BY MemoryType
  <2>2. Usage(c) \in Nat
    BY <1>10, UsageType
  <2>3. /\ h.alloc_bytes + m.heap.dealloc_bytes + Usage(m.capacity)
              = m.heap.alloc_bytes + h.dealloc_bytes + Usage(c)
        /\ h.alloc_bytes >= m.heap.alloc_bytes /\ h.dealloc_bytes >= m.heap.dealloc_bytes
    BY <1>11, <1>12, <1>14, <2>1, <2>2
  <2>4. QED
    BY <1>9, <2>3 DEF SameBalance
<1>16. Fits(c, places, fewer)
  <2>1. c.data >= places /\ c.bucket_positions >= places /\ c.buckets >= Len(fewer)
    <3>1. m.capacity.buckets >= Len(bs) /\ m.capacity.buckets \in Nat
      BY <1>1, UsageType DEF Fits
    <3>2. Len(fewer) \in Nat /\ Len(fewer) <= Len(bs)
      BY DEF Narrowed, Lengths
    <3>3. c.buckets >= Len(fewer)
      BY <1>10, <3>1, <3>2
    <3>4. QED
      BY <1>10, <3>3 DEF Fits
  <2>2. ASSUME NEW w \in 1 .. Len(fewer)
        PROVE  c.inner[w] >= Len(fewer[w])
    <3>1. w \in 1 .. Len(bs) /\ w \in 1 .. slots
      BY <1>2, <1>3
    <3>2. inner[w] >= Len(bs[w]) /\ c.inner[w] = inner[w]
      BY <1>2, <1>5, <1>10, <3>1 DEF Fits
    <3>3. Len(fewer[w]) <= Len(bs[w])
      BY DEF Narrowed
    <3>4. Len(fewer[w]) \in Nat /\ Len(bs[w]) \in Nat /\ inner[w] \in Nat
      <4>1. inner[w] \in Nat
        BY <1>3, <3>1 DEF IsVec
      <4>2. QED
        BY <3>1, <4>1 DEF Lengths
    <3>5. QED
      BY <3>2, <3>3, <3>4
  <2>3. QED
    BY <1>2, <1>5, <1>10, <2>1, <2>2 DEF Fits
<1>17. Len(fewer) = Len(bs) => Usage(c) = Usage(m.capacity)
  <2>1. SUFFICES ASSUME Len(fewer) = Len(bs) PROVE Usage(c) = Usage(m.capacity)
    OBVIOUS
  <2>2. slots + 1 .. Len(inner) = {}
    BY <1>2, <1>3, <2>1
  <2>3. freed = Cardinality({})
    BY <1>4, <2>2 DEF Room
  <2>4. freed = 0
    BY <2>3, FS_EmptySet
  <2>5. Usage(c) \in Nat
    BY <1>10, UsageType
  <2>6. QED
    BY <1>14, <2>4, <2>5
<1>18. QED
  BY <1>9, <1>12, <1>13, <1>15, <1>16, <1>17 DEF Dropped

-------------------------------------------------------------------------------
(* What the operations do to the lengths of the buckets.                   *)

LEMMA LengthsOf ==
    ASSUME NEW S, NEW bs \in Seq(Seq(S))
    PROVE  Lengths(bs)
<1>1. Len(bs) \in Nat
  OBVIOUS
<1>2. ASSUME NEW w \in 1 .. Len(bs)
      PROVE  Len(bs[w]) \in Nat
  <2>1. bs[w] \in Seq(S)
    OBVIOUS
  <2>2. QED
    BY <2>1
<1>3. QED
  BY <1>1, <1>2 DEF Lengths

LEMMA ValidLengths ==
    ASSUME NEW s, Valid(s)
    PROVE  /\ s.buckets \in Seq(Seq(1 .. Len(s.data))) /\ Lengths(s.buckets)
           /\ Len(s.data) \in Nat /\ s.data \in Seq(Values)
<1>1. /\ s.buckets \in Seq(Seq(1 .. Len(s.data))) /\ Len(s.data) \in Nat
      /\ s.data \in Seq(Values)
  BY DEF Valid, Coherent, Shaped
<1>2. QED
  BY <1>1, LengthsOf

LEMMA NarrowedJoins ==
    ASSUME NEW bs, NEW fewer, NEW least, Lengths(bs), Lengths(fewer), Lengths(least),
           Narrowed(bs, fewer), Narrowed(fewer, least)
    PROVE  Narrowed(bs, least)
<1>1. /\ Len(bs) \in Nat /\ Len(fewer) \in Nat /\ Len(least) \in Nat
      /\ Len(fewer) <= Len(bs) /\ Len(least) <= Len(fewer)
  BY DEF Narrowed, Lengths
<1>2. ASSUME NEW w \in 1 .. Len(least)
      PROVE  Len(least[w]) <= Len(bs[w])
  <2>1. w \in 1 .. Len(fewer) /\ w \in 1 .. Len(bs)
    BY <1>1
  <2>2. Len(least[w]) <= Len(fewer[w]) /\ Len(fewer[w]) <= Len(bs[w])
    BY <2>1 DEF Narrowed
  <2>3. Len(least[w]) \in Nat /\ Len(fewer[w]) \in Nat /\ Len(bs[w]) \in Nat
    BY <2>1 DEF Lengths
  <2>4. QED
    BY <2>2, <2>3
<1>3. QED
  BY <1>1, <1>2 DEF Narrowed

LEMMA ShrinkNarrows ==
    ASSUME NEW S, NEW bs \in Seq(Seq(S)), NEW shrunk, shrunk = ShrinkTrailing(bs)
    PROVE  Narrowed(bs, shrunk) /\ Lengths(shrunk)
<1>1. /\ shrunk \in Seq(Seq(S)) /\ Len(shrunk) <= Len(bs)
      /\ \A w \in 1 .. Len(shrunk) : shrunk[w] = bs[w]
  BY ShrinkTrailingFacts
<1>2. Lengths(bs) /\ Lengths(shrunk)
  BY <1>1, LengthsOf
<1>3. Len(shrunk) \in 0 .. Len(bs)
  BY <1>1
<1>4. ASSUME NEW w \in 1 .. Len(shrunk)
      PROVE  Len(shrunk[w]) <= Len(bs[w])
  <2>1. shrunk[w] = bs[w]
    BY <1>1
  <2>2. Len(shrunk[w]) \in Nat
    BY <1>2 DEF Lengths
  <2>3. QED
    BY <2>1, <2>2
<1>5. QED
  BY <1>2, <1>3, <1>4 DEF Narrowed

\* unlink_existing, of a live entry.
LEMMA UnlinkNarrows ==
    ASSUME NEW d, NEW b, NEW p, Coherent(d, b, p), NEW id \in LiveIn(d, p),
           NEW width, width = BitWidth(d[id]),
           NEW fewer, fewer = UnlinkB(b, p, id, width)
    PROVE  /\ Narrowed(b, fewer) /\ Len(fewer) = Len(b) /\ Lengths(fewer)
           /\ fewer \in Seq(Seq(1 .. Len(d)))
<1>1. b \in Seq(Seq(1 .. Len(d))) /\ Lengths(b)
  BY LengthsOf DEF Coherent, Shaped
<1>2. PICK at : at = width + 1
  OBVIOUS
<1>3. at \in 1 .. Len(b) /\ p[id] \in 1 .. Len(b[at])
  BY <1>2 DEF Coherent, Linked, LiveIn
<1>4. b[at] \in Seq(1 .. Len(d))
  BY <1>1, <1>3
<1>5. PICK shorter : shorter = SwapRemove(b[at], p[id])
  OBVIOUS
<1>6. shorter \in Seq(1 .. Len(d)) /\ Len(shorter) = Len(b[at]) - 1
  <2>1. PICK seq, i : seq = b[at] /\ i = p[id]
    OBVIOUS
  <2>2. seq \in Seq(1 .. Len(d)) /\ i \in 1 .. Len(seq) /\ shorter = SwapRemove(seq, i)
    BY <1>3, <1>4, <1>5, <2>1
  <2>3. shorter \in Seq(1 .. Len(d))
    BY <2>2, SwapRemoveFacts
  <2>4. Len(shorter) = Len(seq) - 1
    BY <2>2, SwapRemoveFacts
  <2>5. QED
    BY <2>1, <2>3, <2>4
<1>7. fewer = [b EXCEPT ![at] = shorter]
  BY <1>2, <1>5 DEF UnlinkB
<1>8. /\ fewer \in Seq(Seq(1 .. Len(d))) /\ Len(fewer) = Len(b) /\ fewer[at] = shorter
      /\ \A w \in 1 .. Len(b) : w # at => fewer[w] = b[w]
  BY <1>1, <1>3, <1>6, <1>7
<1>9. ASSUME NEW w \in 1 .. Len(fewer)
      PROVE  Len(fewer[w]) <= Len(b[w])
  <2>1. Len(b[w]) \in Nat
    BY <1>1, <1>8 DEF Lengths
  <2>2. CASE w = at
    BY <1>6, <1>8, <2>1, <2>2
  <2>3. CASE w # at
    BY <1>8, <2>1, <2>3
  <2>4. QED
    BY <2>2, <2>3
<1>10. Lengths(fewer)
  BY <1>8, LengthsOf
<1>11. Len(fewer) \in 0 .. Len(b)
  BY <1>1, <1>8 DEF Lengths
<1>12. QED
  BY <1>8, <1>9, <1>10, <1>11 DEF Narrowed

LEMMA SortNarrows ==
    ASSUME NEW s, Valid(s), NEW order, IsSortOrder(s, order)
    PROVE  Narrowed(s.buckets, Sorted(s, order).buckets) /\ Lengths(Sorted(s, order).buckets)
<1>1. PICK b, d, rebound, sorted : /\ b = s.buckets /\ d = s.data /\ rebound = SortedB(b)
                                   /\ sorted = Sorted(s, order)
  OBVIOUS
<1>2. Lengths(b) /\ b \in Seq(Seq(1 .. Len(d)))
  BY <1>1, ValidLengths
<1>3. sorted.buckets = ShrinkTrailing(rebound)
  <2>1. sorted = Record(SortedD(s.data, order), ShrinkTrailing(SortedB(s.buckets)),
                        SortedP(s.data, s.buckets), s.live_len)
    BY <1>1, SortedValid
  <2>2. QED
    BY <1>1, <2>1, RecordFields
<1>4. /\ DOMAIN b = 1 .. Len(b) /\ Len(b) \in Nat
      /\ \A w \in 1 .. Len(b) : b[w] \in Seq(1 .. Len(d))
  BY <1>2
<1>5. \A w \in 1 .. Len(b) : rebound[w] = [k \in 1 .. Len(b[w]) |-> Start(b, w - 1) + k]
  <2>1. SUFFICES ASSUME NEW w \in 1 .. Len(b)
                 PROVE  rebound[w] = [k \in 1 .. Len(b[w]) |-> Start(b, w - 1) + k]
    OBVIOUS
  <2>2. b[w] \in Seq(1 .. Len(d))
    BY <1>4
  <2>3. DOMAIN b[w] = 1 .. Len(b[w])
    BY <2>2
  <2>4. QED
    BY <1>1, <1>4, <2>3 DEF SortedB
<1>6. /\ rebound \in Seq(Seq(1 .. Len(d))) /\ Len(rebound) = Len(b)
  <2>1. Coherent(s.data, s.buckets, s.bucket_positions)
    BY DEF Valid
  <2>2. PICK same : same = [q \in 1 .. Len(d) |-> q]
    OBVIOUS
  <2>3. \A q \in 1 .. Len(d) : same[q] \in 1 .. Len(d)
    BY <2>2
  <2>4. QED
    BY <1>1, <2>1, <2>3, SortedShaped
<1>7. \A w \in 1 .. Len(b) : Len(rebound[w]) = Len(b[w])
  <2>1. SUFFICES ASSUME NEW w \in 1 .. Len(b)
                 PROVE  Len(rebound[w]) = Len(b[w])
    OBVIOUS
  <2>2. DOMAIN rebound[w] = 1 .. Len(b[w])
    BY <1>5
  <2>3. rebound[w] \in Seq(1 .. Len(d)) /\ Len(b[w]) \in Nat
    BY <1>2, <1>6 DEF Lengths
  <2>4. QED
    BY <2>2, <2>3
<1>8. Narrowed(b, rebound) /\ Lengths(rebound)
  <2>1. Lengths(rebound)
    BY <1>6, LengthsOf
  <2>2. ASSUME NEW w \in 1 .. Len(rebound)
        PROVE  Len(rebound[w]) <= Len(b[w])
    <3>1. Len(rebound[w]) = Len(b[w])
      BY <1>6, <1>7
    <3>2. Len(rebound[w]) \in Nat
      BY <2>1 DEF Lengths
    <3>3. QED
      BY <3>1, <3>2
  <2>3. Len(rebound) \in 0 .. Len(b)
    BY <1>4, <1>6
  <2>4. QED
    BY <2>1, <2>2, <2>3 DEF Narrowed
<1>9. PICK shrunk : shrunk = ShrinkTrailing(rebound)
  OBVIOUS
<1>10. Narrowed(rebound, shrunk) /\ Lengths(shrunk)
  BY <1>6, <1>9, ShrinkNarrows
<1>11. Narrowed(b, shrunk)
  BY <1>2, <1>8, <1>10, NarrowedJoins
<1>12. QED
  BY <1>1, <1>3, <1>9, <1>10, <1>11

-------------------------------------------------------------------------------
(* The memory the operations ask for.                                      *)

LEMMA WidthNat ==
    ASSUME NEW value
    PROVE  BitWidth(value) \in Nat
<1>1. BITS \in Nat
  BY BITSAssumption
<1>2. QED
  BY <1>1, BitWidthType

\* The buckets insert leaves.
LEMMA InsertedBuckets ==
    ASSUME NEW s, Valid(s), NEW value \in Values
    PROVE  Lengthened(s.buckets, Inserted(s, value).buckets, BitWidth(value))
           /\ Len(Inserted(s, value).buckets) = Len(EnsureBucket(s.buckets, BitWidth(value)))
<1>1. PICK d, b, p, n : s = Record(d, b, p, n) /\ d = s.data /\ b = s.buckets
  BY DEF Valid
<1>2. d \in Seq(Values) /\ b \in Seq(Seq(1 .. Len(d))) /\ Len(d) \in Nat
  BY <1>1, ValidLengths
<1>3. PICK d2, p2, width, id : /\ d2 = Append(d, value) /\ p2 = Append(p, REMOVED_POSITION)
                               /\ width = BitWidth(value) /\ id = Len(d) + 1
  OBVIOUS
<1>4. Len(d2) = id /\ id \in Nat
  BY <1>2, <1>3
<1>5. PICK grown : grown = Record(d2, b, p2, n)
  OBVIOUS
<1>6. [s EXCEPT !.data = Append(@, value), !.bucket_positions = Append(@, REMOVED_POSITION)]
        = grown
  <2>1. s.bucket_positions = p /\ s.data = d
    BY <1>1, RecordFields
  <2>2. [s EXCEPT !.data = Append(@, value), !.bucket_positions = Append(@, REMOVED_POSITION)]
          = [[s EXCEPT !.data = d2] EXCEPT !.bucket_positions = p2]
    BY <1>1, <1>3, <2>1 DEF Record
  <2>3. s = Record(d, b, p, n)
    BY <1>1
  <2>4. [s EXCEPT !.data = d2] = Record(d2, b, p, n)
    BY <2>3, SetData
  <2>5. PICK pushed : pushed = [s EXCEPT !.data = d2]
    OBVIOUS
  <2>6. pushed = Record(d2, b, p, n)
    BY <2>4, <2>5
  <2>7. [pushed EXCEPT !.bucket_positions = p2] = Record(d2, b, p2, n)
    BY <2>6, SetPositions
  <2>8. QED
    BY <1>5, <2>2, <2>5, <2>7
<1>7. grown.data = d2
  BY <1>5, RecordFields
<1>8. Inserted(s, value) = [LinkExisting(grown, id, width) EXCEPT !.live_len = @ + 1]
  <2>1. Inserted(s, value)
          = [LinkExisting(grown, Len(grown.data), BitWidth(value)) EXCEPT !.live_len = @ + 1]
    BY <1>6 DEF Inserted
  <2>2. QED
    BY <1>3, <1>4, <1>7, <2>1
<1>9. PICK linked, positions : /\ linked = LinkB(b, id, width)
                               /\ positions = LinkP(b, p2, id, width)
  OBVIOUS
<1>10. LinkExisting(grown, id, width) = Record(d2, linked, positions, n)
  BY <1>5, <1>9, LinkRecord
<1>11. Inserted(s, value).buckets = linked
  BY <1>8, <1>10 DEF Record
<1>12. b \in Seq(Seq(Nat))
  <2>1. ASSUME NEW w \in 1 .. Len(b)
        PROVE  b[w] \in Seq(Nat)
    <3>1. b[w] \in Seq(1 .. Len(d))
      BY <1>2
    <3>2. QED
      BY <1>2, <3>1
  <2>2. QED
    BY <1>2, <2>1
<1>13. width \in Nat
  BY <1>3, WidthNat
<1>14. Lengthened(b, linked, width) /\ Len(linked) = Len(EnsureBucket(b, width))
  BY <1>4, <1>9, <1>12, <1>13, LinkLengthens
<1>15. QED
  BY <1>1, <1>3, <1>11, <1>14

\* insert.
LEMMA InsertReservedGrew ==
    ASSUME NEW m \in Memories, NEW s, Valid(s), NEW value \in Values, NEW old \in Nat,
           Fits(m.capacity, old, s.buckets), NEW n, n = InsertReserved(m, s, value)
    PROVE  Grew(m, n) /\ Fits(n.capacity, Len(s.data) + 1, Inserted(s, value).buckets)
<1>1. PICK places, stored, bs, width, linked :
         /\ places = Len(s.data) + 1 /\ bs = s.buckets /\ width = BitWidth(value)
         /\ stored = Reserved(Reserved(m, "data", places), "bucket_positions", places)
         /\ linked = Inserted(s, value).buckets
  OBVIOUS
<1>2. places \in Nat /\ width \in Nat
  BY <1>1, ValidLengths, WidthNat
<1>3. Fits(m.capacity, old, bs)
  BY <1>1
<1>4. Grew(m, stored) /\ Fits(stored.capacity, places, bs)
  BY <1>1, <1>2, <1>3, PlacesReserved DEF Stored
<1>5. n = LinkReserved(stored, bs, width)
  BY <1>1 DEF InsertReserved
<1>6. Lengthened(bs, linked, width) /\ Len(EnsureBucket(bs, width)) = Len(linked)
  BY <1>1, InsertedBuckets
<1>7. stored \in Memories
  BY <1>4 DEF Grew
<1>8. Grew(stored, n) /\ Fits(n.capacity, places, linked)
  BY <1>2, <1>4, <1>5, <1>6, <1>7, LinkReservedGrew
<1>9. Grew(m, n)
  BY <1>4, <1>8, GrewJoins
<1>10. QED
  BY <1>1, <1>8, <1>9

-------------------------------------------------------------------------------
(* insert_bulk: its memory is a recursive function, as the index it makes. *)

AfterMemory(first, s, values, m, f) ==
    f = [n \in 0 .. m |->
            IF n = 0 THEN first
            ELSE InsertReserved(f[n - 1], InsertedAll(s, SubSeq(values, 1, n - 1)), values[n])]

LEMMA AfterMemoryExtended ==
    ASSUME NEW first, NEW s, NEW values, NEW m \in Nat, m # 0, NEW f,
           AfterMemory(first, s, values, m - 1, f)
    PROVE  \E g : AfterMemory(first, s, values, m, g)
<1> DEFINE step(before, n) ==
               InsertReserved(before, InsertedAll(s, SubSeq(values, 1, n - 1)), values[n])
           g == [n \in 0 .. m |-> IF n = m THEN step(f[m - 1], m) ELSE f[n]]
<1>1. AfterMemory(first, s, values, m - 1, f)
        <=> f = [n \in 0 .. m - 1 |-> IF n = 0 THEN first ELSE step(f[n - 1], n)]
  BY DEF AfterMemory
<1>2. ASSUME NEW h
      PROVE  AfterMemory(first, s, values, m, h)
               <=> h = [n \in 0 .. m |-> IF n = 0 THEN first ELSE step(h[n - 1], n)]
  BY DEF AfterMemory
<1> HIDE DEF step
<1>3. \A n \in 0 .. m : g[n] = IF n = 0 THEN first ELSE step(g[n - 1], n)
  <2> SUFFICES ASSUME NEW n \in 0 .. m
               PROVE  g[n] = IF n = 0 THEN first ELSE step(g[n - 1], n)
    OBVIOUS
  <2>1. CASE n = m
    <3>1. m - 1 \in 0 .. m /\ m - 1 # m
      OBVIOUS
    <3>2. g[m - 1] = f[m - 1] /\ g[m] = step(f[m - 1], m)
      BY <3>1
    <3> HIDE DEF g
    <3>3. QED
      BY <2>1, <3>2
  <2>2. CASE n # m
    <3>1. n \in 0 .. m - 1
      BY <2>2
    <3>2. f[n] = IF n = 0 THEN first ELSE step(f[n - 1], n)
      BY <1>1, <3>1
    <3>3. n # 0 => n - 1 \in 0 .. m /\ n - 1 # m
      OBVIOUS
    <3>4. g[n] = f[n] /\ (n # 0 => g[n - 1] = f[n - 1])
      BY <2>2, <3>3
    <3> HIDE DEF g
    <3>5. QED
      BY <3>2, <3>4
  <2>3. QED
    BY <2>1, <2>2
<1>4. g = [n \in 0 .. m |-> g[n]]
  OBVIOUS
<1> HIDE DEF g
<1>5. g = [n \in 0 .. m |-> IF n = 0 THEN first ELSE step(g[n - 1], n)]
  BY <1>3, <1>4
<1>6. AfterMemory(first, s, values, m, g)
  BY <1>2, <1>5
<1>7. QED
  BY <1>6

LEMMA AfterMemoryExists ==
    ASSUME NEW first, NEW s, NEW values, NEW m \in Nat
    PROVE  \E f : AfterMemory(first, s, values, m, f)
<1> DEFINE missing == {n \in Nat : ~ \E f : AfterMemory(first, s, values, n, f)}
<1> SUFFICES ASSUME missing # {}
             PROVE  FALSE
  OBVIOUS
<1>1. missing \in SUBSET Nat
  OBVIOUS
<1>2. PICK n \in missing : \A k \in missing : n <= k
  <2> HIDE DEF missing
  <2>1. QED
    BY <1>1, LeastNat
<1>3. CASE n = 0
  <2>1. PICK f : f = [k \in 0 .. 0 |-> first]
    OBVIOUS
  <2>2. AfterMemory(first, s, values, 0, f)
    BY <2>1 DEF AfterMemory
  <2>3. QED
    BY <1>3, <2>2
<1>4. CASE n # 0
  <2>1. n \in Nat /\ n - 1 \in Nat /\ ~ (n <= n - 1)
    BY <1>4
  <2>2. n - 1 \notin missing
    BY <1>2, <2>1
  <2>3. PICK f : AfterMemory(first, s, values, n - 1, f)
    BY <2>1, <2>2
  <2>4. \E g : AfterMemory(first, s, values, n, g)
    BY <1>4, <2>1, <2>3, AfterMemoryExtended
  <2>5. QED
    BY <2>4
<1>5. QED
  BY <1>3, <1>4

\* What insert_bulk makes of the index is one insert after another: the prefix
\* of a slice does what the slice does up to there.
LEMMA AfterAgrees ==
    ASSUME NEW s, NEW values, NEW m \in Nat, NEW f, After(s, values, m, f),
           NEW others, NEW k \in Nat, NEW g, After(s, others, k, g), k <= m,
           \A i \in 1 .. k : others[i] = values[i]
    PROVE  \A n \in 0 .. k : g[n] = f[n]
<1> DEFINE bad == {n \in 0 .. k : g[n] # f[n]}
<1> SUFFICES ASSUME bad # {}
             PROVE  FALSE
  OBVIOUS
<1>1. bad \in SUBSET Nat
  OBVIOUS
<1>2. PICK n \in bad : \A j \in bad : n <= j
  <2> HIDE DEF bad
  <2>1. QED
    BY <1>1, LeastNat
<1>3. n \in 0 .. k /\ n \in 0 .. m /\ g[n] # f[n]
  BY <1>2
<1>4. g[n] = IF n = 0 THEN s ELSE Inserted(g[n - 1], others[n])
  BY <1>3 DEF After
<1>5. f[n] = IF n = 0 THEN s ELSE Inserted(f[n - 1], values[n])
  BY <1>3 DEF After
<1>6. n # 0
  BY <1>3, <1>4, <1>5
<1>7. n - 1 \in 0 .. k /\ ~ (n <= n - 1) /\ n \in 1 .. k
  BY <1>3, <1>6
<1>8. g[n - 1] = f[n - 1]
  BY <1>2, <1>7
<1>9. QED
  BY <1>3, <1>4, <1>5, <1>6, <1>7, <1>8

\* The index after the first n inserts of insert_bulk is one insert_bulk of them.
LEMMA PrefixInserted ==
    ASSUME NEW s, NEW values \in Seq(Values), NEW f, After(s, values, Len(values), f),
           NEW n \in 0 .. Len(values)
    PROVE  InsertedAll(s, SubSeq(values, 1, n)) = f[n]
<1>1. PICK prefix : prefix = SubSeq(values, 1, n)
  OBVIOUS
<1>2. /\ prefix \in Seq(Values) /\ Len(prefix) = n
      /\ \A i \in 1 .. n : prefix[i] = values[i]
  BY <1>1
<1>3. n \in Nat /\ n <= Len(values) /\ Len(values) \in Nat
  OBVIOUS
<1>4. PICK g : g = CHOOSE h : After(s, prefix, Len(prefix), h)
  OBVIOUS
<1>5. InsertedAll(s, prefix) = g[Len(prefix)]
  BY Zenon, <1>4 DEF InsertedAll, After
<1>6. After(s, prefix, n, g)
  <2>1. \E h : After(s, prefix, n, h)
    BY <1>3, AfterExists
  <2>2. g = CHOOSE h : After(s, prefix, n, h)
    BY <1>2, <1>4
  <2>3. QED
    BY <2>1, <2>2
<1>7. \A k \in 0 .. n : g[k] = f[k]
  BY <1>2, <1>3, <1>6, AfterAgrees
<1>8. n \in 0 .. n
  BY <1>3
<1>9. QED
  BY <1>1, <1>2, <1>5, <1>7, <1>8

\* insert_bulk, insert by insert.
LEMMA AfterMemoryGrew ==
    ASSUME NEW first \in Memories, NEW s, Valid(s), NEW values \in Seq(Values),
           Len(s.data) + Len(values) <= Capacity,
           Fits(first.capacity, Len(s.data) + Len(values), s.buckets),
           NEW f, After(s, values, Len(values), f),
           NEW g, AfterMemory(first, s, values, Len(values), g),
           NEW n \in 0 .. Len(values)
    PROVE  /\ Grew(first, g[n])
           /\ \E places \in Nat : /\ places >= Len(s.data) + n
                                  /\ Fits(g[n].capacity, places, f[n].buckets)
<1> DEFINE fit(k) == \E places \in Nat : /\ places >= Len(s.data) + k
                                         /\ Fits(g[k].capacity, places, f[k].buckets)
           bad == {k \in 0 .. Len(values) : ~ (Grew(first, g[k]) /\ fit(k))}
<1>1. Len(s.data) \in Nat /\ Len(values) \in Nat
  BY ValidLengths
<1> SUFFICES ASSUME bad # {}
             PROVE  FALSE
  OBVIOUS
<1>2. bad \in SUBSET Nat
  OBVIOUS
<1>3. PICK k \in bad : \A j \in bad : k <= j
  <2> HIDE DEF bad
  <2>1. QED
    BY <1>2, LeastNat
<1>4. k \in 0 .. Len(values) /\ ~ (Grew(first, g[k]) /\ fit(k))
  BY <1>3
<1> HIDE DEF fit
<1>5. CASE k = 0
  <2>1. g[k] = first /\ f[k] = s
    BY <1>4, <1>5 DEF After, AfterMemory
  <2>2. Grew(first, first)
    BY MemoryType DEF Grew, SameBalance
  <2>3. PICK places : places = Len(s.data) + Len(values)
    OBVIOUS
  <2>4. places \in Nat /\ places >= Len(s.data) + k
    BY <1>1, <1>5, <2>3
  <2>5. Fits(g[k].capacity, places, f[k].buckets)
    BY <2>1, <2>3
  <2>6. QED
    BY <1>4, <2>1, <2>2, <2>4, <2>5 DEF fit
<1>6. CASE k # 0
  <2>1. PICK j : j = k - 1
    OBVIOUS
  <2>2. j \in 0 .. Len(values) /\ k \in 1 .. Len(values) /\ ~ (k <= j) /\ j \in Nat /\ k = j + 1
    BY <1>1, <1>4, <1>6, <2>1
  <2>3. Grew(first, g[j]) /\ fit(j)
    BY <1>3, <2>2
  <2>4. PICK before, state : before = g[j] /\ state = f[j]
    OBVIOUS
  <2>5. Valid(state) /\ Len(state.data) = Len(s.data) + j
    BY <2>2, <2>4, AfterValid
  <2>6. f[k] = Inserted(state, values[k])
    BY <1>4, <1>6, <2>1, <2>4 DEF After
  <2>7. g[k] = InsertReserved(before, state, values[k])
    <3>1. g[k] = InsertReserved(g[k - 1], InsertedAll(s, SubSeq(values, 1, k - 1)), values[k])
      BY <1>4, <1>6 DEF AfterMemory
    <3>2. InsertedAll(s, SubSeq(values, 1, j)) = f[j]
      BY <2>2, PrefixInserted
    <3>3. QED
      BY <2>1, <2>4, <3>1, <3>2
  <2>8. before \in Memories
    BY <2>3, <2>4 DEF Grew
  <2>9. PICK places \in Nat : Fits(before.capacity, places, state.buckets)
    BY <2>3, <2>4 DEF fit
  <2>10. values[k] \in Values
    BY <2>2
  <2>11. PICK after, value : after = g[k] /\ value = values[k]
    OBVIOUS
  <2>12. Grew(before, after) /\ Fits(after.capacity, Len(state.data) + 1,
                                     Inserted(state, value).buckets)
    BY <2>5, <2>7, <2>8, <2>9, <2>10, <2>11, InsertReservedGrew
  <2>13. Grew(first, after)
    BY <2>3, <2>4, <2>12, GrewJoins
  <2>14. PICK stored : stored = Len(state.data) + 1
    OBVIOUS
  <2>15. stored \in Nat /\ stored >= Len(s.data) + k
    <3>1. PICK here : here = Len(s.data)
      OBVIOUS
    <3>2. here \in Nat /\ stored = (here + j) + 1
      BY <1>1, <2>5, <2>14, <3>1
    <3>3. stored \in Nat /\ stored >= here + k
      BY <2>2, <3>2
    <3>4. QED
      BY <3>1, <3>3
  <2>16. Fits(g[k].capacity, stored, f[k].buckets)
    BY <2>6, <2>11, <2>12, <2>14
  <2>17. fit(k)
    BY <2>15, <2>16 DEF fit
  <2>18. QED
    BY <1>4, <2>11, <2>13, <2>17
<1>7. QED
  BY <1>5, <1>6

LEMMA FitsLess ==
    ASSUME NEW c \in Capacities, NEW places \in Nat, NEW bs, Fits(c, places, bs),
           NEW fewer \in Nat, fewer <= places
    PROVE  Fits(c, fewer, bs)
<1>1. c.data \in Nat /\ c.bucket_positions \in Nat
  BY UsageType
<1>2. c.data >= places /\ c.bucket_positions >= places
  BY DEF Fits
<1>3. c.data >= fewer /\ c.bucket_positions >= fewer
  BY <1>1, <1>2
<1>4. QED
  BY <1>3 DEF Fits

LEMMA BulkReservedGrew ==
    ASSUME NEW m \in Memories, NEW s, Valid(s), NEW values \in Seq(Values),
           Len(s.data) + Len(values) <= Capacity,
           Fits(m.capacity, Len(s.data), s.buckets), NEW n, n = BulkReserved(m, s, values)
    PROVE  /\ Grew(m, n)
           /\ Fits(n.capacity, Len(s.data) + Len(values), InsertedAll(s, values).buckets)
           /\ Len(values) = 0 => n = m
<1>1. Len(s.data) \in Nat /\ Len(values) \in Nat /\ Len(values) \in 0 .. Len(values)
  BY ValidLengths
<1>2. PICK here, places, first :
         /\ here = Len(s.data) /\ places = Len(s.data) + Len(values)
         /\ first = Reserved(Reserved(m, "data", places), "bucket_positions", places)
  OBVIOUS
<1>3. here \in Nat /\ places \in Nat
  BY <1>1, <1>2
<1>4. PICK bs : bs = s.buckets
  OBVIOUS
<1>5. Fits(m.capacity, here, bs)
  BY <1>2, <1>4
<1>6. /\ Grew(m, first) /\ Fits(first.capacity, places, bs)
      /\ places <= here => first = m
  <2>1. first = Reserved(Reserved(m, "data", places), "bucket_positions", places)
    BY <1>2
  <2>2. Stored(m, here, first, places, bs)
    BY <1>3, <1>5, <2>1, PlacesReserved
  <2>3. QED
    BY <2>2 DEF Stored
<1>7. PICK g : g = CHOOSE h : AfterMemory(first, s, values, Len(values), h)
  OBVIOUS
<1>8. AfterMemory(first, s, values, Len(values), g)
  BY <1>1, <1>7, AfterMemoryExists
<1>9. n = g[Len(values)]
  BY Zenon, <1>2, <1>7 DEF BulkReserved, AfterMemory
<1>10. PICK f : After(s, values, Len(values), f)
  BY <1>1, AfterExists
<1>11. InsertedAll(s, values) = f[Len(values)]
  <2>1. PICK e : e = CHOOSE h : After(s, values, Len(values), h)
    OBVIOUS
  <2>2. InsertedAll(s, values) = e[Len(values)]
    BY Zenon, <2>1 DEF InsertedAll, After
  <2>3. After(s, values, Len(values), e)
    BY <1>10, <2>1
  <2>4. \A k \in 0 .. Len(values) : e[k] = f[k]
    <3>1. Len(values) <= Len(values)
      BY <1>1
    <3>2. \A i \in 1 .. Len(values) : values[i] = values[i]
      OBVIOUS
    <3>3. QED
      BY <1>1, <1>10, <2>3, <3>1, <3>2, AfterAgrees
  <2>5. QED
    BY <1>1, <2>2, <2>4
<1>12. first \in Memories
  BY <1>6 DEF Grew
<1>13. PICK all : all = Len(values)
  OBVIOUS
<1>14. Fits(first.capacity, Len(s.data) + Len(values), s.buckets)
  BY <1>2, <1>4, <1>6
<1>15. Grew(first, g[all])
  BY <1>1, <1>8, <1>10, <1>12, <1>13, <1>14, AfterMemoryGrew
<1>16. \E k \in Nat : k >= Len(s.data) + all /\ Fits(g[all].capacity, k, f[all].buckets)
  BY <1>1, <1>8, <1>10, <1>12, <1>13, <1>14, AfterMemoryGrew
<1>17. PICK k \in Nat : k >= places /\ Fits(n.capacity, k, InsertedAll(s, values).buckets)
  BY <1>2, <1>9, <1>11, <1>13, <1>16
<1>18. Grew(first, n)
  BY <1>9, <1>13, <1>15
<1>19. Grew(m, n)
  BY <1>6, <1>18, GrewJoins
<1>20. n.capacity \in Capacities
  BY <1>19, MemoryType DEF Grew
<1>21. Fits(n.capacity, places, InsertedAll(s, values).buckets)
  <2>1. PICK bs2 : bs2 = InsertedAll(s, values).buckets
    OBVIOUS
  <2>2. Fits(n.capacity, k, bs2) /\ places <= k
    BY <1>3, <1>17, <2>1
  <2>3. Fits(n.capacity, places, bs2)
    BY <1>3, <1>20, <2>2, FitsLess
  <2>4. QED
    BY <2>1, <2>3
<1>22. Len(values) = 0 => n = m
  <2>1. SUFFICES ASSUME Len(values) = 0 PROVE n = m
    OBVIOUS
  <2>2. places <= here
    BY <1>2, <1>3, <2>1
  <2>3. first = m
    BY <1>6, <2>2
  <2>4. 0 \in 0 .. Len(values)
    BY <1>1
  <2>5. g[0] = first
    BY <1>8, <2>4 DEF AfterMemory
  <2>6. QED
    BY <1>9, <2>1, <2>3, <2>5
<1>23. QED
  BY <1>2, <1>19, <1>21, <1>22

\* update_at of a live entry to a value of another width.
LEMMA UpdateReservedFits ==
    ASSUME NEW m \in Memories, NEW s, Valid(s), NEW places \in Nat,
           Fits(m.capacity, places, s.buckets),
           NEW id \in LiveIn(s.data, s.bucket_positions), NEW new \in Values,
           NEW width, width = BitWidth(s.data[id]), width # BitWidth(new),
           NEW moved, moved = UpdatedAt(s, id, new).buckets,
           NEW n, n = PoppedFreed(LinkReserved(m, UnlinkExisting(s, id, width).buckets,
                                               BitWidth(new)),
                                  Len(moved))
    PROVE  /\ n \in Memories /\ SameBalance(m, n) /\ Fits(n.capacity, places, moved)
           /\ Usage(n.capacity) < Usage(m.capacity) => Len(moved) < Len(s.buckets)
           /\ Len(GetBucket(moved, BitWidth(new))) > Len(GetBucket(s.buckets, BitWidth(new)))
           /\ BitWidth(new) + 1 \in 1 .. Len(moved)
<1>1. PICK d, b, p, count : s = Record(d, b, p, count)
  BY DEF Valid
<1>2. s.data = d /\ s.buckets = b /\ s.bucket_positions = p
  BY <1>1, RecordFields
<1>3. /\ Coherent(d, b, p) /\ Lengths(b) /\ id \in LiveIn(d, p)
      /\ width = BitWidth(d[id]) /\ Len(d) \in Nat
  BY <1>2, ValidLengths DEF Valid
<1>4. PICK fewer, at, linked : /\ fewer = UnlinkB(b, p, id, width) /\ at = BitWidth(new)
                               /\ linked = LinkB(fewer, id, at)
  OBVIOUS
<1>5. UnlinkExisting(s, id, width).buckets = fewer
  BY <1>1, <1>4, UnlinkRecord, RecordFields
<1>6. /\ Narrowed(b, fewer) /\ Len(fewer) = Len(b) /\ Lengths(fewer)
      /\ fewer \in Seq(Seq(1 .. Len(d)))
  BY <1>3, <1>4, UnlinkNarrows
<1>7. at \in Nat
  BY <1>4, WidthNat
<1>8. id \in 1 .. Len(d)
  BY <1>3 DEF LiveIn
<1>9. Lengthened(fewer, linked, at) /\ Len(EnsureBucket(fewer, at)) = Len(linked)
  BY <1>4, <1>6, <1>7, <1>8, LinkLengthens
<1>10. linked \in Seq(Seq(1 .. Len(d)))
  <2>1. PICK grown : grown = EnsureBucket(fewer, at)
    OBVIOUS
  <2>2. grown \in Seq(Seq(1 .. Len(d)))
    BY <1>6, <1>7, <2>1, EnsureBucketFacts
  <2>3. at + 1 \in 1 .. Len(grown)
    BY <1>9, <2>1 DEF Lengthened
  <2>4. grown[at + 1] \in Seq(1 .. Len(d))
    BY <2>2, <2>3
  <2>5. PICK longer : longer = Append(grown[at + 1], id)
    OBVIOUS
  <2>6. longer \in Seq(1 .. Len(d))
    BY <1>8, <2>4, <2>5
  <2>7. linked = [grown EXCEPT ![at + 1] = longer]
    BY <1>4, <2>1, <2>5 DEF LinkB
  <2>8. QED
    BY <2>2, <2>3, <2>6, <2>7
<1>11. moved = ShrinkTrailing(linked)
  <2>1. PICK d2, p2, p3 : /\ d2 = [d EXCEPT ![id] = new] /\ p2 = UnlinkP(b, p, id, width)
                          /\ p3 = LinkP(fewer, p2, id, at)
    OBVIOUS
  <2>2. UnlinkExisting(s, id, width) = Record(d, fewer, p2, count)
    BY <1>1, <1>4, <2>1, UnlinkRecord
  <2>3. [UnlinkExisting(s, id, width) EXCEPT !.data[id] = new] = Record(d2, fewer, p2, count)
    BY <2>1, <2>2 DEF Record
  <2>4. LinkExisting(Record(d2, fewer, p2, count), id, at) = Record(d2, linked, p3, count)
    BY <1>4, <2>1, LinkRecord
  <2>5. UpdatedAt(s, id, new)
          = [Record(d2, linked, p3, count) EXCEPT !.buckets = ShrinkTrailing(@)]
    BY <1>4, <2>3, <2>4 DEF UpdatedAt
  <2>6. QED
    BY <2>5 DEF Record
<1>12. Narrowed(linked, moved) /\ Lengths(moved) /\ Lengths(linked)
  BY <1>10, <1>11, ShrinkNarrows, LengthsOf
<1>13. Fits(m.capacity, places, fewer)
  <2>1. Fits(m.capacity, places, b)
    BY <1>2
  <2>2. ASSUME NEW w \in 1 .. Len(fewer)
        PROVE  m.capacity.inner[w] >= Len(fewer[w])
    <3>1. w \in 1 .. Len(b)
      BY <1>6
    <3>2. m.capacity.inner[w] >= Len(b[w]) /\ Len(m.capacity.inner) = Len(b)
      BY <2>1, <3>1 DEF Fits
    <3>3. Len(fewer[w]) <= Len(b[w])
      BY <1>6 DEF Narrowed
    <3>4. Len(fewer[w]) \in Nat /\ Len(b[w]) \in Nat
      BY <1>3, <1>6, <3>1 DEF Lengths
    <3>5. m.capacity.inner[w] \in Nat
      <4>1. IsVec(m.capacity.inner)
        BY MemoryType, UsageType
      <4>2. QED
        BY <3>1, <3>2, <4>1 DEF IsVec
    <3>6. QED
      BY <3>2, <3>3, <3>4, <3>5
  <2>3. QED
    BY <1>6, <2>1, <2>2 DEF Fits
<1>14. PICK wide : wide = LinkReserved(m, fewer, at)
  OBVIOUS
<1>15. Grew(m, wide) /\ Fits(wide.capacity, places, linked)
  BY <1>7, <1>9, <1>13, <1>14, LinkReservedGrew
<1>16. wide \in Memories
  BY <1>15 DEF Grew
<1>17. n = PoppedFreed(wide, Len(moved))
  BY <1>4, <1>5, <1>14
<1>18. /\ n \in Memories /\ SameBalance(wide, n) /\ Fits(n.capacity, places, moved)
       /\ Len(moved) = Len(linked) => Usage(n.capacity) = Usage(wide.capacity)
  <2>1. Fits(wide.capacity, places, linked)
    BY <1>15
  <2>2. Dropped(wide, linked, n, moved, places)
    BY <1>12, <1>16, <1>17, <2>1, PoppedFits
  <2>3. QED
    BY <2>2 DEF Dropped
<1>19. SameBalance(m, n)
  BY <1>15, <1>16, <1>18, BalanceJoins DEF Grew
<1>20. at + 1 \in 1 .. Len(moved)
  <2>1. at + 1 \in 1 .. Len(linked) /\ Len(linked[at + 1]) = Len(GetBucket(fewer, at)) + 1
        /\ Len(GetBucket(fewer, at)) \in Nat
    BY <1>9 DEF Lengthened
  <2>2. linked[at + 1] # <<>>
    BY <2>1
  <2>3. \A w \in 1 .. Len(linked) : linked[w] # <<>> => w <= Len(moved)
    BY <1>10, <1>11, ShrinkTrailingFacts
  <2>4. Len(moved) \in Nat
    BY <1>12 DEF Lengths
  <2>5. QED
    BY <1>7, <2>1, <2>2, <2>3, <2>4
<1>21. moved[at + 1] = linked[at + 1]
  BY <1>10, <1>11, <1>20, ShrinkTrailingFacts
<1>22. Len(GetBucket(moved, at)) > Len(GetBucket(b, at))
  <2>1. GetBucket(moved, at) = moved[at + 1]
    BY <1>7, <1>20 DEF GetBucket
  <2>2. Len(GetBucket(fewer, at)) \in Nat
        /\ Len(linked[at + 1]) = Len(GetBucket(fewer, at)) + 1
    BY <1>9 DEF Lengthened
  <2>3. GetBucket(fewer, at) = GetBucket(b, at)
    <3>1. width # at
      BY <1>4
    <3>2. at < Len(b) => fewer[at + 1] = b[at + 1]
      <4>1. PICK shorter : shorter = SwapRemove(b[width + 1], p[id])
        OBVIOUS
      <4>2. fewer = [b EXCEPT ![width + 1] = shorter]
        BY <1>4, <4>1 DEF UnlinkB
      <4>3. width \in Nat
        BY <1>3, WidthNat
      <4>4. b \in Seq(Seq(1 .. Len(d)))
        BY <1>3 DEF Coherent, Shaped
      <4>5. at + 1 # width + 1
        BY <1>7, <3>1, <4>3
      <4>6. QED
        BY <1>7, <4>2, <4>4, <4>5
    <3>3. QED
      BY <1>6, <3>2 DEF GetBucket
  <2>4. QED
    BY <1>21, <2>1, <2>2, <2>3
<1>23. Usage(n.capacity) < Usage(m.capacity) => Len(moved) < Len(b)
  <2>1. SUFFICES ASSUME ~ (Len(moved) < Len(b))
                 PROVE  Usage(n.capacity) >= Usage(m.capacity)
    <3>1. Usage(n.capacity) \in Nat /\ Usage(m.capacity) \in Nat
      BY <1>18, MemoryType
    <3>2. QED
      BY <3>1
  <2>2. Len(moved) = Len(linked)
    <3>1. /\ Len(moved) \in Nat /\ Len(linked) \in Nat /\ Len(b) \in Nat
          /\ Len(moved) <= Len(linked) /\ Len(moved) >= Len(b) /\ at + 1 <= Len(moved)
      BY <1>3, <1>7, <1>12, <1>20, <2>1 DEF Lengths, Narrowed
    <3>2. Len(linked) = IF at >= Len(b) THEN at + 1 ELSE Len(b)
      BY <1>6, <1>7, <1>9, EnsureBucketFacts
    <3>3. QED
      BY <1>7, <3>1, <3>2
  <2>3. Usage(n.capacity) = Usage(wide.capacity)
    BY <1>18, <2>2
  <2>4. QED
    BY <1>15, <2>3 DEF Grew
<1>24. QED
  BY <1>2, <1>4, <1>18, <1>19, <1>20, <1>22, <1>23

\* One insert after another, no bucket gets shorter and that of the first value
\* gets longer.
LEMMA AfterLengthens ==
    ASSUME NEW s, Valid(s), NEW values \in Seq(Values),
           Len(s.data) + Len(values) <= Capacity,
           NEW f, After(s, values, Len(values), f), NEW n \in 1 .. Len(values),
           NEW width, width = BitWidth(values[1])
    PROVE  /\ width + 1 \in 1 .. Len(f[n].buckets)
           /\ Len(GetBucket(f[n].buckets, width)) > Len(GetBucket(s.buckets, width))
<1> DEFINE longer(k) ==
               /\ width + 1 \in 1 .. Len(f[k].buckets)
               /\ Len(GetBucket(f[k].buckets, width)) \in Nat
               /\ Len(GetBucket(f[k].buckets, width)) > Len(GetBucket(s.buckets, width))
           bad == {k \in 1 .. Len(values) : ~ longer(k)}
<1> SUFFICES ASSUME bad # {}
             PROVE  FALSE
  OBVIOUS
<1>1. bad \in SUBSET Nat
  OBVIOUS
<1>2. PICK k \in bad : \A j \in bad : k <= j
  <2> HIDE DEF bad
  <2>1. QED
    BY <1>1, LeastNat
<1>3. k \in 1 .. Len(values) /\ ~ longer(k) /\ Len(values) \in Nat
  BY <1>2
<1> HIDE DEF longer
<1>4. PICK j, before, value, v : /\ j = k - 1 /\ before = f[j] /\ value = values[k]
                                 /\ v = BitWidth(value)
  OBVIOUS
<1>5. /\ j \in 0 .. Len(values) /\ k \in 0 .. Len(values) /\ k # 0 /\ value \in Values
      /\ ~ (k <= j)
  BY <1>3, <1>4
<1>6. Valid(before)
  BY <1>4, <1>5, AfterValid
<1>7. f[k] = Inserted(before, value)
  BY <1>4, <1>5 DEF After
<1>8. PICK bs, linked : bs = before.buckets /\ linked = f[k].buckets
  OBVIOUS
<1>9. Lengthened(bs, linked, v)
  BY <1>4, <1>5, <1>6, <1>7, <1>8, InsertedBuckets
<1>10. width \in Nat /\ v \in Nat
  BY <1>4, WidthNat
<1>11. Lengths(bs) /\ Lengths(linked)
  <2>1. Valid(f[k])
    BY <1>5, AfterValid
  <2>2. QED
    BY <1>6, <1>8, <2>1, ValidLengths
<1>12. Len(GetBucket(linked, v)) = Len(GetBucket(bs, v)) + 1 /\ v + 1 \in 1 .. Len(linked)
       /\ Len(GetBucket(bs, v)) \in Nat
  BY <1>9, <1>10 DEF Lengthened, GetBucket
<1>13. CASE k = 1
  <2>1. before = s
    BY <1>4, <1>5, <1>13 DEF After
  <2>2. v = width
    BY <1>4, <1>13
  <2>3. longer(k)
    BY <1>8, <1>12, <2>1, <2>2 DEF longer
  <2>4. QED
    BY <1>3, <2>3
<1>14. CASE k # 1
  <2>1. j \in 1 .. Len(values)
    BY <1>3, <1>4, <1>14
  <2>2. longer(j)
    BY <1>2, <1>5, <2>1
  <2>3. /\ width + 1 \in 1 .. Len(bs) /\ Len(GetBucket(bs, width)) \in Nat
        /\ Len(GetBucket(bs, width)) > Len(GetBucket(s.buckets, width))
    BY <1>4, <1>8, <2>2 DEF longer
  <2>4. Len(bs) \in Nat /\ Len(linked) \in Nat /\ Len(bs) <= Len(linked)
    BY <1>9 DEF Lengthened
  <2>5. width + 1 \in 1 .. Len(linked)
    BY <1>10, <2>3, <2>4
  <2>6. /\ Len(GetBucket(linked, width)) \in Nat
        /\ Len(GetBucket(linked, width)) >= Len(GetBucket(bs, width))
    <3>1. CASE width = v
      BY <1>12, <3>1
    <3>2. CASE width # v
      <4>1. width + 1 # v + 1
        BY <1>10, <3>2
      <4>2. GetBucket(linked, width) = linked[width + 1] /\ GetBucket(bs, width) = bs[width + 1]
        BY <1>10, <2>3, <2>4, <2>5 DEF GetBucket
      <4>3. Len(linked[width + 1]) = Len(bs[width + 1])
        BY <1>9, <2>3, <4>1 DEF Lengthened
      <4>4. QED
        BY <2>3, <4>2, <4>3
    <3>3. QED
      BY <3>1, <3>2
  <2>7. Len(GetBucket(s.buckets, width)) \in Nat
    <3>1. Lengths(s.buckets)
      BY ValidLengths
    <3>2. CASE width < Len(s.buckets)
      BY <1>10, <3>1, <3>2 DEF GetBucket, Lengths
    <3>3. CASE ~ (width < Len(s.buckets))
      BY <3>3 DEF GetBucket
    <3>4. QED
      BY <3>2, <3>3
  <2>8. longer(k)
    BY <1>8, <2>3, <2>5, <2>6, <2>7 DEF longer
  <2>9. QED
    BY <1>3, <2>8
<1>15. QED
  BY <1>13, <1>14

-------------------------------------------------------------------------------
(* The inductive invariant: the index is valid, its vectors have room for  *)
(* it, and the allocator counted what is in use since the snapshot.        *)

HInv ==
    /\ IInv
    /\ memory \in Memories /\ snap \in Counters
    /\ Fits(capacity, Len(data), buckets)
    /\ Balanced(snap, memory)

LEMMA MemoryFields == memory.heap = heap /\ memory.capacity = capacity
  BY DEF memory

LEMMA EmptyRoom == AllRoom(<<>>) = 0
<1>1. 1 .. Len(<<>>) = {}
  OBVIOUS
<1>2. AllRoom(<<>>) = Cardinality({})
  BY <1>1 DEF AllRoom, Room
<1>3. QED
  BY <1>2, FS_EmptySet

LEMMA HeapInitHolds == HeapInit => HInv
<1> SUFFICES ASSUME HeapInit
             PROVE  HInv
  OBVIOUS
<1>1. IInv /\ data = <<>> /\ buckets = <<>>
  BY InitHolds DEF HeapInit, Init
<1>2. snap \in Counters
  <2>1. PICK used, freed \in Earlier :
           snap = [alloc_bytes |-> used, alloc_count |-> 0, dealloc_bytes |-> freed]
    BY DEF HeapInit
  <2>2. used \in Nat /\ freed \in Nat
    BY HeapAssumption
  <2>3. QED
    BY <2>1, <2>2 DEF Counters
<1>3. PICK n \in 0 .. Capacity :
         /\ capacity = [data |-> n, bucket_positions |-> n, buckets |-> 0, inner |-> <<>>]
         /\ heap = Realloc(Realloc(snap, 0, SIZE.data * n), 0, SIZE.bucket_positions * n)
  BY DEF HeapInit
<1>4. n \in Nat
  BY ClientAssumption
<1>5. PICK bytes, first : bytes = 8 * n /\ first = Realloc(snap, 0, bytes)
  OBVIOUS
<1>6. heap = Realloc(first, 0, bytes)
  BY <1>3, <1>5 DEF SIZE
<1>7. bytes \in Nat
  BY <1>4, <1>5
<1>8. first \in Counters /\ Counted(snap, first, 0, bytes)
  BY <1>2, <1>5, <1>7, ReallocCounts
<1>9. heap \in Counters /\ Counted(first, heap, 0, bytes)
  BY <1>6, <1>7, <1>8, ReallocCounts
<1>10. capacity \in Capacities
  BY <1>3, <1>4 DEF Capacities
<1>11. memory \in Memories
  BY <1>9, <1>10 DEF memory, Memories
<1>12. Fits(capacity, Len(data), buckets)
  BY <1>1, <1>3, <1>4 DEF Fits
<1>13. Usage(capacity) = bytes + bytes
  BY <1>3, <1>4, <1>5, EmptyRoom DEF Usage
<1>14. Balanced(snap, memory)
  <2>1. /\ snap.alloc_bytes \in Nat /\ snap.dealloc_bytes \in Nat
        /\ first.alloc_bytes \in Nat /\ first.dealloc_bytes \in Nat
        /\ heap.alloc_bytes \in Nat /\ heap.dealloc_bytes \in Nat
    BY <1>2, <1>8, <1>9 DEF Counters
  <2>2. /\ heap.alloc_bytes >= snap.alloc_bytes /\ heap.dealloc_bytes >= snap.dealloc_bytes
        /\ heap.alloc_bytes + snap.dealloc_bytes
              = snap.alloc_bytes + heap.dealloc_bytes + (bytes + bytes)
    BY <1>7, <1>8, <1>9, <2>1 DEF Counted
  <2>3. QED
    BY <1>13, <2>2, MemoryFields DEF Balanced
<1>15. QED
  BY <1>1, <1>2, <1>11, <1>12, <1>14 DEF HInv

\* What a call says of the memory m it leaves: from the buckets bs to the buckets
\* after, it allocates only to link and gives memory back only with a bucket.
OnlyToLink(m, n, bs, after) ==
    /\ n.heap.alloc_count > m.heap.alloc_count =>
          \E w \in 1 .. Len(after) : Len(GetBucket(after, w - 1)) > Len(GetBucket(bs, w - 1))
    /\ Usage(n.capacity) < Usage(m.capacity) => Len(after) < Len(bs)

Good(n, places, after) ==
    /\ n \in Memories /\ SameBalance(memory, n) /\ Fits(n.capacity, places, after)
    /\ OnlyToLink(memory, n, buckets, after)

\* A call that only grew the memory, and linked an ID if it allocated.
LEMMA GrewLinking ==
    ASSUME HInv, NEW n, Grew(memory, n), NEW bs, NEW after,
           NEW width \in Nat, width + 1 \in 1 .. Len(after),
           Len(GetBucket(after, width)) > Len(GetBucket(bs, width))
    PROVE  n \in Memories /\ SameBalance(memory, n) /\ OnlyToLink(memory, n, bs, after)
<1>1. n \in Memories /\ SameBalance(memory, n) /\ Usage(n.capacity) >= Usage(memory.capacity)
  BY DEF Grew
<1>2. Usage(n.capacity) \in Nat /\ Usage(memory.capacity) \in Nat
  BY <1>1, MemoryType DEF HInv
<1>3. \E w \in 1 .. Len(after) : Len(GetBucket(after, w - 1)) > Len(GetBucket(bs, w - 1))
  <2>1. PICK w : w = width + 1
    OBVIOUS
  <2>2. w \in 1 .. Len(after) /\ w - 1 = width
    BY <2>1
  <2>3. QED
    BY <2>2
<1>4. QED
  BY <1>1, <1>2, <1>3 DEF OnlyToLink

\* A call that leaves the memory as it is.
LEMMA SameMemory ==
    ASSUME HInv, NEW places, NEW after, Fits(capacity, places, after)
    PROVE  Good(memory, places, after)
<1>1. memory \in Memories
  BY DEF HInv
<1>2. /\ memory.heap.alloc_bytes \in Nat /\ memory.heap.dealloc_bytes \in Nat
      /\ memory.heap.alloc_count \in Nat /\ Usage(memory.capacity) \in Nat
  BY <1>1, MemoryType
<1>3. SameBalance(memory, memory)
  BY <1>2 DEF SameBalance
<1>4. OnlyToLink(memory, memory, buckets, after)
  BY <1>2 DEF OnlyToLink
<1>5. QED
  BY <1>1, <1>3, <1>4, MemoryFields DEF Good

LEMMA SelfNow ==
    ASSUME HInv
    PROVE  /\ Valid(self) /\ self.data = data /\ self.buckets = buckets
           /\ self.bucket_positions = bucket_positions
           /\ memory \in Memories /\ Fits(memory.capacity, Len(self.data), self.buckets)
           /\ Len(data) \in Nat
<1>1. /\ Valid(self) /\ memory \in Memories /\ Fits(capacity, Len(data), buckets)
  BY DEF HInv, IInv
<1>2. self.data = data /\ self.buckets = buckets /\ self.bucket_positions = bucket_positions
  BY SelfFields
<1>3. memory.capacity = capacity
  BY MemoryFields
<1>4. Len(data) \in Nat
  BY <1>1, <1>2, ValidLengths
<1>5. QED
  BY <1>1, <1>2, <1>3, <1>4

\* The memory of each call, for the index it leaves.
LEMMA InsertGood ==
    ASSUME HInv, NEW value \in Values, Insert(value)
    PROVE  Good(InsertReserved(memory, self, value), Len(data'), buckets')
<1>1. Len(data) < Capacity /\ Become(Inserted(self, value))
  BY DEF Insert
<1>2. PICK s, n, inserted, width : /\ s = self /\ n = InsertReserved(memory, s, value)
                                   /\ inserted = Inserted(s, value) /\ width = BitWidth(value)
  OBVIOUS
<1>3. /\ Valid(s) /\ s.data = data /\ s.buckets = buckets /\ memory \in Memories
      /\ Fits(memory.capacity, Len(s.data), s.buckets) /\ Len(s.data) \in Nat
  BY <1>2, SelfNow
<1>4. Grew(memory, n) /\ Fits(n.capacity, Len(s.data) + 1, inserted.buckets)
  BY <1>2, <1>3, InsertReservedGrew
<1>5. data' = inserted.data /\ buckets' = inserted.buckets
  BY <1>1, <1>2 DEF Become
<1>6. Valid(inserted) /\ Len(inserted.data) = Len(s.data) + 1
  BY <1>1, <1>2, <1>3, InsertedValid
<1>7. PICK bs, linked : bs = buckets /\ linked = inserted.buckets
  OBVIOUS
<1>8. Lengthened(bs, linked, width)
  BY <1>2, <1>3, <1>7, InsertedBuckets
<1>9. width \in Nat
  BY <1>2, WidthNat
<1>10. /\ width + 1 \in 1 .. Len(linked)
       /\ Len(GetBucket(linked, width)) > Len(GetBucket(bs, width))
  BY <1>8, <1>9 DEF Lengthened, GetBucket
<1>11. n \in Memories /\ SameBalance(memory, n) /\ OnlyToLink(memory, n, bs, linked)
  BY <1>4, <1>9, <1>10, GrewLinking
<1>12. QED
  BY <1>2, <1>4, <1>5, <1>6, <1>7, <1>11 DEF Good

LEMMA InsertBulkGood ==
    ASSUME HInv, NEW values \in Seq(Values), InsertBulk(values)
    PROVE  Good(BulkReserved(memory, self, values), Len(data'), buckets')
<1>1. Len(data) + Len(values) <= Capacity /\ Become(InsertedAll(self, values))
  BY DEF InsertBulk
<1>2. PICK s, n, inserted : /\ s = self /\ n = BulkReserved(memory, s, values)
                            /\ inserted = InsertedAll(s, values)
  OBVIOUS
<1>3. /\ Valid(s) /\ s.data = data /\ s.buckets = buckets /\ memory \in Memories
      /\ Fits(memory.capacity, Len(s.data), s.buckets) /\ Len(s.data) \in Nat
      /\ Len(s.data) + Len(values) <= Capacity /\ Len(values) \in Nat
  BY <1>1, <1>2, SelfNow
<1>4. /\ Grew(memory, n) /\ Fits(n.capacity, Len(s.data) + Len(values), inserted.buckets)
      /\ Len(values) = 0 => n = memory
  BY <1>2, <1>3, BulkReservedGrew
<1>5. data' = inserted.data /\ buckets' = inserted.buckets
  BY <1>1, <1>2 DEF Become
<1>6. Len(inserted.data) = Len(s.data) + Len(values)
  BY <1>2, <1>3, InsertedAllValid
<1>7. PICK places, linked : places = Len(data') /\ linked = inserted.buckets
  OBVIOUS
<1>8. Fits(n.capacity, places, linked)
  BY <1>4, <1>5, <1>6, <1>7
<1>9. CASE Len(values) = 0
  <2>1. n = memory
    BY <1>4, <1>9
  <2>2. Fits(capacity, places, linked)
    BY <1>8, <2>1, MemoryFields
  <2>3. Good(memory, places, linked)
    BY <2>2, SameMemory
  <2>4. QED
    BY <1>2, <1>5, <1>7, <2>1, <2>3
<1>10. CASE Len(values) # 0
  <2>1. PICK f : f = CHOOSE g : After(s, values, Len(values), g)
    OBVIOUS
  <2>2. After(s, values, Len(values), f)
    BY <1>3, <2>1, AfterExists
  <2>3. inserted = f[Len(values)]
    BY Zenon, <1>2, <2>1 DEF InsertedAll, After
  <2>4. PICK all, width : all = Len(values) /\ width = BitWidth(values[1])
    OBVIOUS
  <2>5. all \in 1 .. Len(values)
    BY <1>3, <1>10, <2>4
  <2>6. width + 1 \in 1 .. Len(f[all].buckets)
    BY <1>3, <2>2, <2>4, <2>5, AfterLengthens
  <2>7. Len(GetBucket(f[all].buckets, width)) > Len(GetBucket(s.buckets, width))
    BY <1>3, <2>2, <2>4, <2>5, AfterLengthens
  <2>8. width \in Nat
    BY <2>4, WidthNat
  <2>9. f[all].buckets = linked
    BY <1>7, <2>3, <2>4
  <2>10. PICK bs : bs = buckets
    OBVIOUS
  <2>11. /\ width + 1 \in 1 .. Len(linked)
         /\ Len(GetBucket(linked, width)) > Len(GetBucket(bs, width))
    BY <1>3, <2>6, <2>7, <2>9, <2>10
  <2>12. n \in Memories /\ SameBalance(memory, n) /\ OnlyToLink(memory, n, bs, linked)
    BY <1>4, <2>8, <2>11, GrewLinking
  <2>13. Good(n, places, linked)
    BY <1>8, <2>10, <2>12 DEF Good
  <2>14. QED
    BY <1>2, <1>5, <1>7, <2>13
<1>11. QED
  BY <1>9, <1>10

LEMMA UpdateGood ==
    ASSUME HInv, NEW id, NEW new \in Values, NEW op, NEW args, UpdateEntry(id, new, op, args)
    PROVE  Good(UpdateReserved(memory, self, id, new), Len(data'), buckets')
<1>1. PICK s, places : s = self /\ places = Len(data)
  OBVIOUS
<1>2. /\ Valid(s) /\ s.data = data /\ s.buckets = buckets
      /\ s.bucket_positions = bucket_positions /\ memory \in Memories
      /\ Fits(memory.capacity, places, s.buckets) /\ places \in Nat
  BY <1>1, SelfNow
<1>3. CASE ~ IsLive(id)
  <2>1. UpdateReserved(memory, self, id, new) = memory
    BY <1>3 DEF UpdateReserved
  <2>2. data' = data /\ buckets' = buckets
    BY <1>3 DEF UpdateEntry, store
  <2>3. Fits(capacity, places, buckets)
    BY <1>1 DEF HInv
  <2>4. Good(memory, places, buckets)
    BY <2>3, SameMemory
  <2>5. QED
    BY <1>1, <2>1, <2>2, <2>4
<1>4. CASE IsLive(id)
  <2>1. PICK moved : moved = UpdatedAt(s, id, new)
    OBVIOUS
  <2>2. data' = moved.data /\ buckets' = moved.buckets
    BY <1>1, <1>4, <2>1 DEF UpdateEntry, Become
  <2>3. id \in LiveIn(s.data, s.bucket_positions)
    BY <1>1, <1>4, LiveMembers DEF HInv
  <2>4. moved.data = [s.data EXCEPT ![id] = new]
    BY <1>2, <2>1, <2>3, UpdatedAtValid
  <2>5. Len(data') = places
    <3>1. s.data \in Seq(Values) /\ id \in 1 .. Len(s.data)
      BY <1>2, <2>3, ValidLengths DEF LiveIn
    <3>2. Len([s.data EXCEPT ![id] = new]) = Len(s.data)
      BY <3>1
    <3>3. QED
      BY <1>1, <1>2, <2>2, <2>4, <3>2
  <2>6. PICK width, n : /\ width = BitWidth(s.data[id])
                        /\ n = UpdateReserved(memory, s, id, new)
    OBVIOUS
  <2>7. CASE width = BitWidth(new)
    <3>1. n = memory
      BY <2>6, <2>7 DEF UpdateReserved
    <3>2. moved.buckets = s.buckets
      <4>1. moved = [s EXCEPT !.data[id] = new]
        BY <2>1, <2>6, <2>7 DEF UpdatedAt
      <4>2. s = Record(s.data, s.buckets, s.bucket_positions, s.live_len)
        BY <1>2 DEF Valid
      <4>3. PICK d, b, p, count : s = Record(d, b, p, count)
        BY <4>2
      <4>4. moved.buckets = b
        BY <4>1, <4>3 DEF Record
      <4>5. QED
        BY <4>3, <4>4, RecordFields
    <3>3. Fits(capacity, places, buckets)
      BY <1>1 DEF HInv
    <3>4. Good(memory, places, buckets)
      BY <3>3, SameMemory
    <3>5. QED
      BY <1>1, <1>2, <2>2, <2>5, <2>6, <3>1, <3>2, <3>4
  <2>8. CASE width # BitWidth(new)
    <3>1. PICK bs, at : bs = moved.buckets /\ at = BitWidth(new)
      OBVIOUS
    <3>2. n = PoppedFreed(LinkReserved(memory, UnlinkExisting(s, id, width).buckets,
                                       BitWidth(new)),
                          Len(bs))
      BY <1>4, <2>1, <2>6, <2>8, <3>1 DEF UpdateReserved
    <3>3. bs = UpdatedAt(s, id, new).buckets
      BY <2>1, <3>1
    <3>4. /\ n \in Memories /\ SameBalance(memory, n) /\ Fits(n.capacity, places, bs)
          /\ Usage(n.capacity) < Usage(memory.capacity) => Len(bs) < Len(s.buckets)
      BY <1>2, <2>3, <2>6, <2>8, <3>2, <3>3, UpdateReservedFits
    <3>5. /\ Len(GetBucket(bs, BitWidth(new))) > Len(GetBucket(s.buckets, BitWidth(new)))
          /\ BitWidth(new) + 1 \in 1 .. Len(bs)
      BY <1>2, <2>3, <2>6, <2>8, <3>2, <3>3, UpdateReservedFits
    <3>6. at \in Nat
      BY <3>1, WidthNat
    <3>7. \E w \in 1 .. Len(bs) : Len(GetBucket(bs, w - 1)) > Len(GetBucket(s.buckets, w - 1))
      <4>1. PICK w : w = at + 1
        OBVIOUS
      <4>2. w \in 1 .. Len(bs) /\ w - 1 = at
        BY <3>1, <3>5, <3>6, <4>1
      <4>3. QED
        BY <3>1, <3>5, <4>2
    <3>8. OnlyToLink(memory, n, s.buckets, bs)
      BY <3>4, <3>7 DEF OnlyToLink
    <3>9. Good(n, places, bs)
      BY <1>2, <3>4, <3>8 DEF Good
    <3>10. QED
      BY <1>1, <2>2, <2>5, <2>6, <3>1, <3>9
  <2>9. QED
    BY <2>7, <2>8
<1>5. QED
  BY <1>3, <1>4

\* The calls that may only give memory back.
LEMMA NarrowedGood ==
    ASSUME HInv, NEW places, places = Len(data), NEW fewer, Narrowed(buckets, fewer),
           Lengths(fewer)
    PROVE  Good(PoppedFreed(memory, Len(fewer)), places, fewer)
<1>1. PICK n, bs : n = PoppedFreed(memory, Len(fewer)) /\ bs = buckets
  OBVIOUS
<1>2. memory \in Memories /\ Fits(memory.capacity, places, bs) /\ Lengths(bs)
  BY <1>1, SelfNow, ValidLengths
<1>3. Dropped(memory, bs, n, fewer, places)
  BY <1>1, <1>2, PoppedFits
<1>4. /\ n \in Memories /\ SameBalance(memory, n) /\ Fits(n.capacity, places, fewer)
      /\ n.heap.alloc_count = memory.heap.alloc_count
      /\ Len(fewer) = Len(bs) => Usage(n.capacity) = Usage(memory.capacity)
  BY <1>3 DEF Dropped
<1>5. /\ memory.heap.alloc_count \in Nat /\ Usage(memory.capacity) \in Nat
      /\ Usage(n.capacity) \in Nat
  BY <1>2, <1>4, MemoryType
<1>6. Len(fewer) \in Nat /\ Len(bs) \in Nat /\ Len(fewer) <= Len(bs)
  BY <1>1, <1>2 DEF Lengths, Narrowed
<1>7. OnlyToLink(memory, n, bs, fewer)
  BY <1>4, <1>5, <1>6 DEF OnlyToLink
<1>8. QED
  BY <1>1, <1>4, <1>7 DEF Good

LEMMA SameNarrowed ==
    ASSUME HInv
    PROVE  Narrowed(buckets, buckets) /\ Lengths(buckets)
<1>1. Lengths(buckets)
  BY SelfNow, ValidLengths
<1>2. ASSUME NEW w \in 1 .. Len(buckets)
      PROVE  Len(buckets[w]) <= Len(buckets[w])
  BY <1>1 DEF Lengths
<1>3. Len(buckets) \in 0 .. Len(buckets)
  BY <1>1 DEF Lengths
<1>4. QED
  BY <1>1, <1>2, <1>3 DEF Narrowed

LEMMA RemovedNarrows ==
    ASSUME NEW s, Valid(s), NEW id \in LiveIn(s.data, s.bucket_positions)
    PROVE  Narrowed(s.buckets, RemovedAt(s, id).buckets) /\ Lengths(RemovedAt(s, id).buckets)
<1>1. PICK d, b, p, count : s = Record(d, b, p, count)
  BY DEF Valid
<1>2. s.data = d /\ s.buckets = b /\ s.bucket_positions = p
  BY <1>1, RecordFields
<1>3. Coherent(d, b, p) /\ id \in LiveIn(d, p) /\ Lengths(b)
  BY <1>2, ValidLengths DEF Valid
<1>4. PICK width, fewer, shrunk : /\ width = BitWidth(d[id]) /\ fewer = UnlinkB(b, p, id, width)
                                  /\ shrunk = ShrinkTrailing(fewer)
  OBVIOUS
<1>5. Narrowed(b, fewer) /\ Lengths(fewer) /\ fewer \in Seq(Seq(1 .. Len(d)))
  BY <1>3, <1>4, UnlinkNarrows
<1>6. Narrowed(fewer, shrunk) /\ Lengths(shrunk)
  BY <1>4, <1>5, ShrinkNarrows
<1>7. Narrowed(b, shrunk)
  BY <1>3, <1>5, <1>6, NarrowedJoins
<1>8. RemovedAt(s, id).buckets = shrunk
  <2>1. PICK unlinked, p2 : /\ unlinked = UnlinkExisting(s, id, width)
                            /\ p2 = UnlinkP(b, p, id, width)
    OBVIOUS
  <2>2. unlinked = Record(d, fewer, p2, count)
    BY <1>1, <1>4, <2>1, UnlinkRecord
  <2>3. RemovedAt(s, id) = [unlinked EXCEPT !.live_len = @ - 1, !.buckets = ShrinkTrailing(@)]
    BY <1>2, <1>4, <2>1 DEF RemovedAt
  <2>4. QED
    BY <1>4, <2>2, <2>3 DEF Record
<1>9. QED
  BY <1>2, <1>6, <1>7, <1>8

LEMMA RemoveGood ==
    ASSUME HInv, NEW id, NEW op, NEW args, RemoveEntry(id, op, args)
    PROVE  Narrowed(buckets, buckets') /\ Lengths(buckets') /\ Len(data') = Len(data)
<1>1. CASE ~ IsLive(id)
  <2>1. data' = data /\ buckets' = buckets
    BY <1>1 DEF RemoveEntry, store
  <2>2. Narrowed(buckets, buckets) /\ Lengths(buckets)
    BY SameNarrowed
  <2>3. QED
    BY <2>1, <2>2
<1>2. CASE IsLive(id)
  <2>1. PICK s, removed : s = self /\ removed = RemovedAt(s, id)
    OBVIOUS
  <2>2. data' = removed.data /\ buckets' = removed.buckets
    BY <1>2, <2>1 DEF RemoveEntry, Become
  <2>3. Valid(s) /\ s.data = data /\ s.buckets = buckets
    BY <2>1, SelfNow
  <2>4. id \in LiveIn(s.data, s.bucket_positions)
    BY <1>2, <2>1, LiveMembers DEF HInv
  <2>5. Narrowed(s.buckets, removed.buckets) /\ Lengths(removed.buckets)
    BY <2>1, <2>3, <2>4, RemovedNarrows
  <2>6. removed.data = s.data
    BY <2>1, <2>3, <2>4, RemovedAtValid
  <2>7. QED
    BY <2>2, <2>3, <2>5, <2>6
<1>3. QED
  BY <1>1, <1>2

LEMMA FreeingGood ==
    ASSUME HInv, FreeingCall
    PROVE  Good(PoppedFreed(memory, Len(buckets')), Len(data'), buckets')
<1>1. Narrowed(buckets, buckets') /\ Lengths(buckets') /\ Len(data') = Len(data)
  <2>1. ASSUME NEW id \in Ids, RemoveAt(id)
        PROVE  Narrowed(buckets, buckets') /\ Lengths(buckets') /\ Len(data') = Len(data)
    BY <2>1, RemoveGood DEF RemoveAt
  <2>2. ASSUME NEW value \in Values, Remove(value)
        PROVE  Narrowed(buckets, buckets') /\ Lengths(buckets') /\ Len(data') = Len(data)
    BY <2>2, RemoveGood DEF Remove
  <2>3. CASE SarkarSort
    <3>1. PICK order : IsSortOrder(self, order) /\ Become(Sorted(self, order))
      BY <2>3 DEF SarkarSort
    <3>2. PICK s, sorted : s = self /\ sorted = Sorted(s, order)
      OBVIOUS
    <3>3. data' = sorted.data /\ buckets' = sorted.buckets
      BY <3>1, <3>2 DEF Become
    <3>4. Valid(s) /\ s.data = data /\ s.buckets = buckets
      BY <3>2, SelfNow
    <3>5. Narrowed(s.buckets, sorted.buckets) /\ Lengths(sorted.buckets)
      BY <3>1, <3>2, <3>4, SortNarrows
    <3>6. Len(sorted.data) = Len(s.data)
      BY <3>1, <3>2, <3>4, SortedValid
    <3>7. QED
      BY <3>3, <3>4, <3>5, <3>6
  <2>4. QED
    BY <2>1, <2>2, <2>3 DEF FreeingCall
<1>2. PICK fewer, places : fewer = buckets' /\ places = Len(data)
  OBVIOUS
<1>3. Good(PoppedFreed(memory, Len(fewer)), places, fewer)
  BY <1>1, <1>2, NarrowedGood
<1>4. QED
  BY <1>1, <1>2, <1>3

-------------------------------------------------------------------------------
(* The steps and the theorems.                                             *)

\* What every call does, to the memory and to the index.
LEMMA HeapStepGood ==
    ASSUME HInv, HeapNext
    PROVE  \E n : Uses(n) /\ Good(n, Len(data'), buckets')
<1>1. ASSUME NEW value \in Values, Insert(value), Uses(InsertReserved(memory, self, value))
      PROVE  \E n : Uses(n) /\ Good(n, Len(data'), buckets')
  <2>1. PICK n : n = InsertReserved(memory, self, value)
    OBVIOUS
  <2>2. Uses(n) /\ Good(n, Len(data'), buckets')
    BY <1>1, <2>1, InsertGood
  <2>3. QED
    BY <2>2
<1>2. ASSUME NEW values \in Bulks, InsertBulk(values), Uses(BulkReserved(memory, self, values))
      PROVE  \E n : Uses(n) /\ Good(n, Len(data'), buckets')
  <2>1. PICK n : n = BulkReserved(memory, self, values)
    OBVIOUS
  <2>2. values \in Seq(Values)
    BY ClientAssumption
  <2>3. Uses(n) /\ Good(n, Len(data'), buckets')
    BY <1>2, <2>1, <2>2, InsertBulkGood
  <2>4. QED
    BY <2>3
<1>3. ASSUME NEW new \in Values, NEW id, NEW op, NEW args, UpdateEntry(id, new, op, args),
             Uses(UpdateReserved(memory, self, id, new))
      PROVE  \E n : Uses(n) /\ Good(n, Len(data'), buckets')
  <2>1. PICK n : n = UpdateReserved(memory, self, id, new)
    OBVIOUS
  <2>2. Uses(n) /\ Good(n, Len(data'), buckets')
    BY <1>3, <2>1, UpdateGood
  <2>3. QED
    BY <2>2
<1>4. CASE FreeingCall /\ Uses(PoppedFreed(memory, Len(buckets')))
  <2>1. Good(PoppedFreed(memory, Len(buckets')), Len(data'), buckets')
    BY <1>4, FreeingGood
  <2>2. QED
    BY <1>4, <2>1
<1>5. QED
  BY <1>1, <1>2, <1>3, <1>4 DEF HeapNext, UpdateAt, Update

LEMMA HeapNextIsNext == HeapNext => Next
  BY DEF HeapNext, FreeingCall, Next, StreamCall

LEMMA MemoryAfter ==
    ASSUME NEW n \in Memories, Uses(n)
    PROVE  memory' = n /\ snap' = snap
<1>1. n = [heap |-> n.heap, capacity |-> n.capacity]
  BY DEF Memories
<1>2. memory' = [heap |-> n.heap, capacity |-> n.capacity] /\ snap' = snap
  BY DEF Uses, memory
<1>3. QED
  BY <1>1, <1>2

LEMMA HeapNextHolds == HInv /\ [HeapNext]_all_vars => HInv'
<1> SUFFICES ASSUME HInv, [HeapNext]_all_vars
             PROVE  HInv'
  OBVIOUS
<1>1. CASE HeapNext
  <2>1. IInv'
    BY <1>1, HeapNextIsNext, NextHolds DEF HInv
  <2>2. PICK n : Uses(n) /\ Good(n, Len(data'), buckets')
    BY <1>1, HeapStepGood
  <2>3. n \in Memories /\ SameBalance(memory, n) /\ Fits(n.capacity, Len(data'), buckets')
    BY <2>2 DEF Good
  <2>4. memory' = n /\ snap' = snap
    BY <2>2, <2>3, MemoryAfter
  <2>5. capacity' = n.capacity
    BY <2>2 DEF Uses
  <2>6. Balanced(snap, n)
    BY <2>3, BalanceKept DEF HInv
  <2>7. snap \in Counters
    BY DEF HInv
  <2>8. (memory \in Memories)' /\ (snap \in Counters)'
    BY <2>3, <2>4, <2>7
  <2>9. Fits(capacity, Len(data), buckets)'
    BY <2>3, <2>5 DEF Fits
  <2>10. Balanced(snap, memory)'
    BY <2>4, <2>6 DEF Balanced
  <2>11. QED
    BY <2>1, <2>8, <2>9, <2>10 DEF HInv
<1>2. CASE UNCHANGED all_vars
  <2>1. UNCHANGED vars /\ UNCHANGED heap_vars
    BY <1>2 DEF all_vars
  <2>2. IInv'
    BY <2>1, NextHolds DEF HInv
  <2>3. heap' = heap /\ capacity' = capacity /\ snap' = snap /\ data' = data /\ buckets' = buckets
    BY <2>1 DEF vars, heap_vars
  <2>4. memory' = memory
    BY <2>3 DEF memory
  <2>5. QED
    BY <2>2, <2>3, <2>4 DEF HInv, Fits, Balanced
<1>3. QED
  BY <1>1, <1>2

\* In every reachable state the vectors have room and the books balance.
THEOREM HeapValid == HeapSpec => []HInv
<1>1. HeapInit => HInv
  BY HeapInitHolds
<1>2. HInv /\ [HeapNext]_all_vars => HInv'
  BY HeapNextHolds
<1>3. QED
  BY <1>1, <1>2, PTL DEF HeapSpec

LEMMA UsageIsReported ==
    ASSUME NEW c \in Capacities
    PROVE  Usage(c) = SIZE.data * c.data + SIZE.bucket_positions * c.bucket_positions
                         + SIZE.buckets * c.buckets + SIZE.inner * Room(c.inner, DOMAIN c.inner)
<1>1. c.inner \in Seq(Nat)
  BY DEF Capacities
<1>2. DOMAIN c.inner = 1 .. Len(c.inner)
  BY <1>1
<1>3. AllRoom(c.inner) = Room(c.inner, DOMAIN c.inner)
  BY <1>2 DEF AllRoom
<1>4. SIZE.data = 8 /\ SIZE.bucket_positions = 8 /\ SIZE.buckets = 24 /\ SIZE.inner = 8
  BY DEF SIZE
<1>5. QED
  BY <1>3, <1>4 DEF Usage

\* The allocator's two snapshots and the index's own report name the same number
\* of bytes after any history of calls, and nothing saturates.
THEOREM ReportIsExact == HeapSpec => []SelfReportExact
<1>1. HInv => SelfReportExact
  <2>1. SUFFICES ASSUME HInv
                 PROVE  SelfReportExact
    OBVIOUS
  <2>2. memory \in Memories /\ snap \in Counters /\ Balanced(snap, memory)
    BY <2>1 DEF HInv
  <2>3. /\ heap.alloc_bytes \in Nat /\ heap.dealloc_bytes \in Nat
        /\ Usage(capacity) \in Nat /\ capacity \in Capacities
    BY <2>2, MemoryType, MemoryFields
  <2>4. snap.alloc_bytes \in Nat /\ snap.dealloc_bytes \in Nat
    BY <2>2 DEF Counters
  <2>5. /\ heap.alloc_bytes >= snap.alloc_bytes /\ heap.dealloc_bytes >= snap.dealloc_bytes
        /\ heap.alloc_bytes + snap.dealloc_bytes
              = snap.alloc_bytes + heap.dealloc_bytes + Usage(capacity)
    BY <2>2, MemoryFields DEF Balanced
  <2>6. PICK allocated, freed : /\ allocated = heap.alloc_bytes - snap.alloc_bytes
                                /\ freed = heap.dealloc_bytes - snap.dealloc_bytes
    OBVIOUS
  <2>7. allocated \in Nat /\ freed \in Nat /\ allocated = freed + Usage(capacity)
    BY <2>3, <2>4, <2>5, <2>6
  <2>8. /\ SaturatingSub(heap.alloc_bytes, snap.alloc_bytes) = allocated
        /\ SaturatingSub(heap.dealloc_bytes, snap.dealloc_bytes) = freed
    BY <2>3, <2>4, <2>5, <2>6 DEF SaturatingSub
  <2>9. SaturatingSub(allocated, freed) = Usage(capacity)
    BY <2>3, <2>7 DEF SaturatingSub
  <2>10. LiveBytesSince(snap, heap) = Usage(capacity)
    BY <2>8, <2>9 DEF LiveBytesSince
  <2>11. Usage(capacity) = MemoryUsageBytes
    BY <2>3, UsageIsReported DEF MemoryUsageBytes
  <2>12. QED
    BY <2>10, <2>11 DEF SelfReportExact
<1>2. QED
  BY <1>1, HeapValid, PTL

\* A call asks the allocator for memory only when it links an ID into a bucket,
\* and the index reports less only when buckets were popped from the end.
THEOREM AllocatesToLink == HeapSpec => GrowsOnlyToLink
<1> DEFINE Step == /\ heap'.alloc_count > heap.alloc_count =>
                         \E w \in DOMAIN buckets' :
                             Len(GetBucket(buckets', w - 1)) > Len(GetBucket(buckets, w - 1))
                   /\ MemoryUsageBytes' < MemoryUsageBytes => Len(buckets') < Len(buckets)
<1>1. HInv /\ HInv' /\ [HeapNext]_all_vars => [Step]_all_vars
  <2> SUFFICES ASSUME HInv, HInv', HeapNext
               PROVE  Step
    BY DEF all_vars
  <2>1. PICK n : Uses(n) /\ Good(n, Len(data'), buckets')
    BY HeapStepGood
  <2>2. n \in Memories /\ OnlyToLink(memory, n, buckets, buckets')
    BY <2>1 DEF Good
  <2>3. heap' = n.heap /\ capacity' = n.capacity
    BY <2>1 DEF Uses
  <2>4. memory.heap = heap /\ memory.capacity = capacity /\ memory \in Memories
    BY MemoryFields DEF HInv
  <2>5. capacity \in Capacities /\ n.capacity \in Capacities
    BY <2>2, <2>4, MemoryType
  <2>6. MemoryUsageBytes = Usage(capacity)
    BY <2>5, UsageIsReported DEF MemoryUsageBytes
  <2>7. MemoryUsageBytes' = Usage(n.capacity)
    BY <2>3, <2>5, UsageIsReported DEF MemoryUsageBytes
  <2>8. DOMAIN buckets' = 1 .. Len(buckets')
    <3>1. Valid(self)'
      BY DEF HInv, IInv
    <3>2. buckets' \in Seq(Seq(1 .. Len(data')))
      BY <3>1, SelfFields DEF Valid, Coherent, Shaped, self
    <3>3. QED
      BY <3>2
  <2>9. heap'.alloc_count > heap.alloc_count =>
            \E w \in DOMAIN buckets' :
                Len(GetBucket(buckets', w - 1)) > Len(GetBucket(buckets, w - 1))
    BY <2>2, <2>3, <2>4, <2>8 DEF OnlyToLink
  <2>10. MemoryUsageBytes' < MemoryUsageBytes => Len(buckets') < Len(buckets)
    BY <2>2, <2>4, <2>6, <2>7 DEF OnlyToLink
  <2>11. QED
    BY <2>9, <2>10
<1>2. HeapSpec => [][Step]_all_vars
  BY <1>1, HeapValid, PTL DEF HeapSpec
<1>3. QED
  BY <1>2 DEF GrowsOnlyToLink
================================================================================
