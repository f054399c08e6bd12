------------------------------ MODULE BwspiProofs ------------------------------
(***************************************************************************)
(* For every word size, set of client values and bound on storage: the     *)
(* index is well typed, its buckets and its position map stay inverse to   *)
(* each other, and its counter stays exact, through every operation; and   *)
(* what a client sees: the lookups agree, every call does what the         *)
(* abstract index LiveIndex says, removed entries keep their values, and   *)
(* the distribution the index reports is that of its live values.          *)
(***************************************************************************)
EXTENDS SimdSearch, Observability, BitRoutingProofs

-------------------------------------------------------------------------------
(* The helpers on vectors of buckets.                                      *)

LEMMA UpToCardinality ==
    ASSUME NEW n \in Nat
    PROVE  IsFiniteSet(1 .. n) /\ Cardinality(1 .. n) = n
BY FS_Interval

\* A non-empty set of naturals with an upper bound has a greatest element.
LEMMA MaxOfBounded ==
    ASSUME NEW n \in Nat, NEW S \in SUBSET (0 .. n), S # {}
    PROVE  Max(S) \in S /\ \A x \in S : x <= Max(S)
<1> DEFINE gaps == {n - x : x \in S}
<1>1. gaps \in SUBSET Nat /\ gaps # {}
  <2>1. \A x \in S : n - x \in Nat
    OBVIOUS
  <2>2. PICK x \in S : TRUE
    OBVIOUS
  <2>3. n - x \in gaps
    OBVIOUS
  <2>4. QED
    BY <2>1, <2>3
<1>2. PICK gap \in gaps : \A g \in gaps : gap <= g
  <2> HIDE DEF gaps
  <2>1. QED
    BY <1>1, LeastNat
<1>3. PICK x \in S : gap = n - x
  BY <1>2
<1>4. \A y \in S : x >= y
  <2> SUFFICES ASSUME NEW y \in S
               PROVE  x >= y
    OBVIOUS
  <2>1. gap <= n - y
    BY <1>2
  <2>2. QED
    BY <1>3, <2>1
<1>5. Max(S) \in S /\ \A y \in S : Max(S) >= y
  BY <1>4 DEF Max
<1>6. QED
  BY <1>5

LEMMA EnsureBucketFacts ==
    ASSUME NEW S, NEW bs \in Seq(Seq(S)), NEW width \in Nat
    PROVE  LET grown == EnsureBucket(bs, width)
           IN  /\ grown \in Seq(Seq(S))
               /\ Len(grown) = IF width >= Len(bs) THEN width + 1 ELSE Len(bs)
               /\ \A w \in 1 .. Len(grown) :
                     grown[w] = IF w <= Len(bs) THEN bs[w] ELSE <<>>
<1>1. CASE width >= Len(bs)
  <2> DEFINE tail == [i \in 1 .. width + 1 - Len(bs) |-> <<>>]
  <2>1. tail \in Seq(Seq(S)) /\ Len(tail) = width + 1 - Len(bs)
    BY <1>1
  <2>2. \A i \in 1 .. Len(tail) : tail[i] = <<>>
    BY <2>1
  <2>3. EnsureBucket(bs, width) = bs \o tail
    BY <1>1 DEF EnsureBucket
  <2> HIDE DEF tail
  <2>4. QED
    BY <1>1, <2>1, <2>2, <2>3
<1>2. CASE ~ (width >= Len(bs))
  BY <1>2 DEF EnsureBucket
<1>3. QED
  BY <1>1, <1>2

LEMMA ShrinkTrailingFacts ==
    ASSUME NEW S, NEW bs \in Seq(Seq(S))
    PROVE  LET shrunk == ShrinkTrailing(bs)
           IN  /\ shrunk \in Seq(Seq(S))
               /\ Len(shrunk) <= Len(bs)
               /\ \A w \in 1 .. Len(shrunk) : shrunk[w] = bs[w]
               /\ \A w \in 1 .. Len(bs) : bs[w] # <<>> => w <= Len(shrunk)
               /\ shrunk # <<>> => shrunk[Len(shrunk)] # <<>>
<1> DEFINE used == {0} \cup {w \in 1 .. Len(bs) : bs[w] # <<>>}
<1>1. used \in SUBSET (0 .. Len(bs)) /\ used # {}
  OBVIOUS
<1>2. Max(used) \in used /\ \A x \in used : x <= Max(used)
  <2> HIDE DEF used
  <2>1. Len(bs) \in Nat
    OBVIOUS
  <2>2. QED
    BY <1>1, <2>1, MaxOfBounded
<1>3. LastUsed(bs) = Max(used)
  BY DEF LastUsed
<1>4. /\ LastUsed(bs) \in 0 .. Len(bs)
      /\ LastUsed(bs) # 0 => bs[LastUsed(bs)] # <<>>
      /\ \A w \in 1 .. Len(bs) : bs[w] # <<>> => w <= LastUsed(bs)
  BY <1>2, <1>3
<1>5. QED
  BY <1>4 DEF ShrinkTrailing

LEMMA SwapRemoveFacts ==
    ASSUME NEW S, NEW seq \in Seq(S), NEW i \in 1 .. Len(seq)
    PROVE  /\ SwapRemove(seq, i) \in Seq(S)
           /\ Len(SwapRemove(seq, i)) = Len(seq) - 1
           /\ \A k \in 1 .. Len(seq) - 1 :
                 SwapRemove(seq, i)[k] = IF k = i THEN seq[Len(seq)] ELSE seq[k]
<1> DEFINE moved == [seq EXCEPT ![i] = seq[Len(seq)]]
<1>1. /\ moved \in Seq(S) /\ Len(moved) = Len(seq)
      /\ \A k \in 1 .. Len(seq) : moved[k] = IF k = i THEN seq[Len(seq)] ELSE seq[k]
  OBVIOUS
<1>2. SwapRemove(seq, i) = SubSeq(moved, 1, Len(moved) - 1)
  BY <1>1 DEF SwapRemove
<1>3. Len(moved) - 1 \in 0 .. Len(moved)
  BY <1>1
<1> HIDE DEF moved
<1>4. QED
  BY <1>1, <1>2, <1>3

LEMMA SwapRemovePlace ==
    ASSUME NEW S, NEW seq \in Seq(S), NEW i \in 1 .. Len(seq),
           NEW k \in 1 .. Len(seq) - 1
    PROVE  SwapRemove(seq, i)[k] = IF k = i THEN seq[Len(seq)] ELSE seq[k]
  BY SwapRemoveFacts

-------------------------------------------------------------------------------
(* Coherence of storage d, buckets b and position map p.  It leaves out    *)
(* the live counter, so that it also holds between the unlinking and the   *)
(* relinking of an entry in the middle of an operation.                    *)

Offsets == 1 .. Capacity \cup {REMOVED_POSITION}

Shaped(d, b, p) ==
    /\ d \in Seq(Values) /\ Len(d) <= Capacity
    /\ p \in Seq(Offsets) /\ Len(p) = Len(d)
    /\ b \in Seq(Seq(1 .. Len(d))) /\ Len(b) <= BITS + 1

Linked(d, b, p) ==
    \A id \in 1 .. Len(d) : p[id] # REMOVED_POSITION =>
        /\ BitWidth(d[id]) + 1 \in 1 .. Len(b)
        /\ p[id] \in 1 .. Len(b[BitWidth(d[id]) + 1])
        /\ b[BitWidth(d[id]) + 1][p[id]] = id

Routed(d, b, p) ==
    \A w \in 1 .. Len(b) : \A k \in 1 .. Len(b[w]) :
        /\ p[b[w][k]] = k
        /\ BitWidth(d[b[w][k]]) + 1 = w

Coherent(d, b, p) == Shaped(d, b, p) /\ Linked(d, b, p) /\ Routed(d, b, p)

LiveIn(d, p) == {id \in 1 .. Len(d) : p[id] # REMOVED_POSITION}

\* What link_existing and unlink_existing make of buckets and positions.
LinkB(b, id, width) ==
    [EnsureBucket(b, width) EXCEPT ![width + 1] = Append(@, id)]

LinkP(b, p, id, width) ==
    [p EXCEPT ![id] = Len(EnsureBucket(b, width)[width + 1]) + 1]

UnlinkB(b, p, id, width) ==
    [b EXCEPT ![width + 1] = SwapRemove(b[width + 1], p[id])]

UnlinkP(b, p, id, width) ==
    [p EXCEPT ![b[width + 1][Len(b[width + 1])]] = p[id], ![id] = REMOVED_POSITION]

\* No bucket is left empty at the end.
Trimmed(b) == b # <<>> => b[Len(b)] # <<>>

\* Two assignments to places of a sequence, the second one winning.
LEMMA AssignTwiceFacts ==
    ASSUME NEW S, NEW seq \in Seq(S), NEW i \in 1 .. Len(seq), NEW j \in 1 .. Len(seq),
           NEW x \in S, NEW y \in S,
           NEW result, result = [seq EXCEPT ![i] = x, ![j] = y]
    PROVE  /\ result \in Seq(S) /\ Len(result) = Len(seq) /\ result[j] = y
           /\ i # j => result[i] = x
OBVIOUS

LEMMA AssignTwiceElsewhere ==
    ASSUME NEW S, NEW seq \in Seq(S), NEW i, NEW j, NEW x, NEW y,
           NEW k \in 1 .. Len(seq), k # i, k # j
    PROVE  [seq EXCEPT ![i] = x, ![j] = y][k] = seq[k]
OBVIOUS

\* The buckets list every ID once, so none is longer than storage, and shorter
\* when some entry is not listed.
LEMMA BucketBound ==
    ASSUME NEW d, NEW b, NEW p, Coherent(d, b, p), NEW w \in 1 .. Len(b)
    PROVE  /\ Len(b[w]) <= Len(d)
           /\ \A id \in 1 .. Len(d) :
                 (\A k \in 1 .. Len(b[w]) : b[w][k] # id) => Len(b[w]) < Len(d)
<1>1. b[w] \in Seq(1 .. Len(d)) /\ Len(d) \in Nat /\ Len(b[w]) \in Nat
  BY DEF Coherent, Shaped
<1>2. \A j, k \in 1 .. Len(b[w]) : b[w][j] = b[w][k] => j = k
  BY DEF Coherent, Routed
<1>3. b[w] \in [1 .. Len(b[w]) -> 1 .. Len(d)]
  BY <1>1
<1>4. b[w] \in Injection(1 .. Len(b[w]), 1 .. Len(d))
  BY <1>2, <1>3 DEF Injection, IsInjective
<1>5. /\ IsFiniteSet(1 .. Len(d)) /\ Cardinality(1 .. Len(d)) = Len(d)
      /\ Cardinality(1 .. Len(b[w])) = Len(b[w])
  BY <1>1, UpToCardinality
<1>6. /\ Len(b[w]) <= Len(d)
      /\ Len(b[w]) = Len(d) => b[w] \in Surjection(1 .. Len(b[w]), 1 .. Len(d))
  BY <1>4, <1>5, FS_Injection
<1>7. \A id \in 1 .. Len(d) :
         (\A k \in 1 .. Len(b[w]) : b[w][k] # id) => Len(b[w]) # Len(d)
  BY <1>6 DEF Surjection
<1>8. QED
  BY <1>1, <1>6, <1>7

\* Every slot holds a live ID, whose position is in the range of offsets.
LEMMA SlotIsLive ==
    ASSUME NEW d, NEW b, NEW p, Coherent(d, b, p),
           NEW w \in 1 .. Len(b), NEW k \in 1 .. Len(b[w])
    PROVE  /\ b[w][k] \in 1 .. Len(d)
           /\ k \in 1 .. Capacity
           /\ p[b[w][k]] # REMOVED_POSITION
<1>1. /\ b \in Seq(Seq(1 .. Len(d))) /\ Len(d) \in Nat /\ Len(d) <= Capacity
      /\ p[b[w][k]] = k
  BY DEF Coherent, Shaped, Routed
<1>2. b[w] \in Seq(1 .. Len(d))
  BY <1>1
<1>3. Len(b[w]) <= Len(d)
  BY BucketBound
<1>4. QED
  BY <1>1, <1>2, <1>3, ClientAssumption, RemovedAssumption

\* link_existing, of an entry that is in no bucket: it becomes live and no
\* other entry changes.
LEMMA LinkCoherent ==
    ASSUME NEW d, NEW b, NEW p, Coherent(d, b, p),
           NEW id \in 1 .. Len(d), p[id] = REMOVED_POSITION
    PROVE  /\ Coherent(d, LinkB(b, id, BitWidth(d[id])), LinkP(b, p, id, BitWidth(d[id])))
           /\ LiveIn(d, LinkP(b, p, id, BitWidth(d[id]))) = LiveIn(d, p) \cup {id}
           /\ Trimmed(b) => Trimmed(LinkB(b, id, BitWidth(d[id])))
<1> SUFFICES ASSUME NEW width, width = BitWidth(d[id]),
                    NEW grown, grown = EnsureBucket(b, width),
                    NEW b2, b2 = [grown EXCEPT ![width + 1] = Append(@, id)],
                    NEW p2, p2 = [p EXCEPT ![id] = Len(grown[width + 1]) + 1]
             PROVE  /\ Coherent(d, b2, p2)
                    /\ LiveIn(d, p2) = LiveIn(d, p) \cup {id}
                    /\ Trimmed(b) => Trimmed(b2)
  BY Zenon DEF LinkB, LinkP
<1>1. /\ d \in Seq(Values) /\ Len(d) \in Nat /\ Len(d) <= Capacity /\ d[id] \in Values
      /\ p \in Seq(Offsets) /\ Len(p) = Len(d)
      /\ b \in Seq(Seq(1 .. Len(d))) /\ Len(b) \in Nat /\ Len(b) <= BITS + 1
  BY DEF Coherent, Shaped
<1>2. width \in 0 .. BITS /\ width \in Nat /\ BITS \in Nat
  BY BitWidthType, BITSAssumption
<1>3. /\ grown \in Seq(Seq(1 .. Len(d)))
      /\ Len(grown) = IF width >= Len(b) THEN width + 1 ELSE Len(b)
      /\ \A w \in 1 .. Len(grown) : grown[w] = IF w <= Len(b) THEN b[w] ELSE <<>>
  BY <1>1, <1>2, EnsureBucketFacts
<1>4. /\ Len(grown) \in Nat /\ width + 1 \in 1 .. Len(grown)
      /\ Len(grown) <= BITS + 1 /\ Len(grown) >= Len(b)
      /\ \A w \in 1 .. Len(grown) : w > Len(b) => Len(grown[w]) = 0
  <2>1. Len(grown) \in Nat /\ (width >= Len(b) => Len(grown) = width + 1)
        /\ (~ (width >= Len(b)) => Len(grown) = Len(b))
    BY <1>1, <1>2, <1>3
  <2>2. width + 1 \in 1 .. Len(grown) /\ Len(grown) <= BITS + 1 /\ Len(grown) >= Len(b)
    BY <2>1, <1>1, <1>2
  <2>3. \A w \in 1 .. Len(grown) : w > Len(b) => grown[w] = <<>>
    BY <1>1, <1>3, <2>1
  <2>4. QED
    BY <2>1, <2>2, <2>3
<1>5. Coherent(d, grown, p)
  <2>1. Shaped(d, grown, p)
    BY <1>1, <1>3, <1>4 DEF Shaped
  <2>2. Linked(d, grown, p)
    <3>1. Linked(d, b, p)
      BY DEF Coherent
    <3>2. \A w \in 1 .. Len(b) : w \in 1 .. Len(grown) /\ grown[w] = b[w]
      BY <1>1, <1>3, <1>4
    <3>3. QED
      BY <3>1, <3>2 DEF Linked
  <2>3. Routed(d, grown, p)
    <3>1. Routed(d, b, p)
      BY DEF Coherent
    <3>2. \A w \in 1 .. Len(grown) : \A k \in 1 .. Len(grown[w]) :
             w \in 1 .. Len(b) /\ grown[w] = b[w]
      BY <1>1, <1>3, <1>4
    <3>3. QED
      BY <3>1, <3>2 DEF Routed
  <2>4. QED
    BY <2>1, <2>2, <2>3 DEF Coherent
<1>6. \A w \in 1 .. Len(grown) : \A k \in 1 .. Len(grown[w]) : grown[w][k] # id
  BY <1>5, SlotIsLive
<1>7. grown[width + 1] \in Seq(1 .. Len(d)) /\ Len(grown[width + 1]) < Len(d)
  <2>1. grown[width + 1] \in Seq(1 .. Len(d))
    BY <1>3, <1>4
  <2>2. Len(grown[width + 1]) < Len(d)
    BY <1>4, <1>5, <1>6, BucketBound
  <2>3. QED
    BY <2>1, <2>2
<1>8. p2[id] \in 1 .. Capacity /\ p2[id] = Len(grown[width + 1]) + 1
  BY <1>1, <1>7, ClientAssumption
<1>9. p2 \in Seq(Offsets) /\ Len(p2) = Len(d) /\ \A j \in 1 .. Len(d) : j # id => p2[j] = p[j]
  BY <1>1, <1>8 DEF Offsets
<1>10. /\ b2 \in Seq(Seq(1 .. Len(d))) /\ Len(b2) = Len(grown)
       /\ b2[width + 1] = Append(grown[width + 1], id)
       /\ \A w \in 1 .. Len(grown) : w # width + 1 => b2[w] = grown[w]
  BY <1>3, <1>4, <1>7
<1>11. /\ Len(b2[width + 1]) = Len(grown[width + 1]) + 1
       /\ b2[width + 1][Len(grown[width + 1]) + 1] = id
       /\ \A k \in 1 .. Len(grown[width + 1]) : b2[width + 1][k] = grown[width + 1][k]
  BY <1>7, <1>10
<1>12. Shaped(d, b2, p2)
  BY <1>1, <1>4, <1>9, <1>10 DEF Shaped
<1>13. Linked(d, b2, p2)
  <2> SUFFICES ASSUME NEW j \in 1 .. Len(d), p2[j] # REMOVED_POSITION
               PROVE  /\ BitWidth(d[j]) + 1 \in 1 .. Len(b2)
                      /\ p2[j] \in 1 .. Len(b2[BitWidth(d[j]) + 1])
                      /\ b2[BitWidth(d[j]) + 1][p2[j]] = j
    BY DEF Linked
  <2>1. CASE j = id
    BY <2>1, <1>4, <1>7, <1>8, <1>10, <1>11
  <2>2. CASE j # id
    <3>1. /\ BitWidth(d[j]) + 1 \in 1 .. Len(grown)
          /\ p[j] \in 1 .. Len(grown[BitWidth(d[j]) + 1])
          /\ grown[BitWidth(d[j]) + 1][p[j]] = j
      BY <2>2, <1>5, <1>9 DEF Coherent, Linked
    <3>2. QED
      BY SMTT(30), <2>2, <3>1, <1>7, <1>9, <1>10, <1>11
  <2>3. QED
    BY <2>1, <2>2
<1>14. Routed(d, b2, p2)
  <2> SUFFICES ASSUME NEW w \in 1 .. Len(b2), NEW k \in 1 .. Len(b2[w])
               PROVE  p2[b2[w][k]] = k /\ BitWidth(d[b2[w][k]]) + 1 = w
    BY DEF Routed
  <2>1. CASE w = width + 1 /\ k = Len(grown[width + 1]) + 1
    BY <2>1, <1>8, <1>11
  <2>2. CASE ~ (w = width + 1 /\ k = Len(grown[width + 1]) + 1)
    <3>1. w \in 1 .. Len(grown) /\ k \in 1 .. Len(grown[w]) /\ b2[w][k] = grown[w][k]
      BY SMTT(30), <2>2, <1>4, <1>7, <1>10, <1>11
    <3>2. /\ p[grown[w][k]] = k /\ BitWidth(d[grown[w][k]]) + 1 = w
          /\ grown[w][k] # id /\ grown[w][k] \in 1 .. Len(d)
      <4>1. p[grown[w][k]] = k /\ BitWidth(d[grown[w][k]]) + 1 = w
        BY <3>1, <1>5 DEF Coherent, Routed
      <4>2. grown[w][k] \in 1 .. Len(d)
        BY <3>1, <1>5, SlotIsLive
      <4>3. QED
        BY <4>1, <4>2, <3>1, <1>6
    <3>3. QED
      BY <3>1, <3>2, <1>9
  <2>3. QED
    BY <2>1, <2>2
<1>15. Trimmed(b) => Trimmed(b2)
  <2>1. b2[width + 1] # <<>>
    BY <1>7, <1>11
  <2>2. ASSUME Len(b2) # width + 1
        PROVE  Len(b2) = Len(b) /\ b2[Len(b2)] = b[Len(b)] /\ b # <<>>
    <3>1. Len(grown) = Len(b) /\ Len(b) >= 1
      BY <2>2, <1>1, <1>2, <1>3, <1>4, <1>10
    <3>2. Len(b) \in 1 .. Len(grown)
      BY <3>1, <1>1
    <3>3. grown[Len(b)] = b[Len(b)]
      BY <3>2, <1>1, <1>3
    <3>4. QED
      BY <2>2, <3>1, <3>2, <3>3, <1>1, <1>10
  <2>3. QED
    BY <2>1, <2>2 DEF Trimmed
<1>16. p2[id] # REMOVED_POSITION
  BY <1>8, RemovedAssumption, ClientAssumption
<1>17. LiveIn(d, p2) = LiveIn(d, p) \cup {id}
  BY <1>9, <1>16 DEF LiveIn
<1>18. QED
  BY <1>12, <1>13, <1>14, <1>15, <1>17 DEF Coherent

\* unlink_existing, of a live entry: it leaves its bucket, the entry moved into
\* its place is found there, and no other entry changes.
LEMMA UnlinkCoherent ==
    ASSUME NEW d, NEW b, NEW p, Coherent(d, b, p),
           NEW id \in 1 .. Len(d), p[id] # REMOVED_POSITION
    PROVE  /\ Coherent(d, UnlinkB(b, p, id, BitWidth(d[id])), UnlinkP(b, p, id, BitWidth(d[id])))
           /\ LiveIn(d, UnlinkP(b, p, id, BitWidth(d[id]))) = LiveIn(d, p) \ {id}
<1> SUFFICES ASSUME NEW width, width = BitWidth(d[id]),
                    NEW bucket, bucket = b[width + 1],
                    NEW moved, moved = bucket[Len(bucket)],
                    NEW b2, b2 = [b EXCEPT ![width + 1] = SwapRemove(bucket, p[id])],
                    NEW p2, p2 = [p EXCEPT ![moved] = p[id], ![id] = REMOVED_POSITION]
             PROVE  Coherent(d, b2, p2) /\ LiveIn(d, p2) = LiveIn(d, p) \ {id}
  BY Zenon DEF UnlinkB, UnlinkP
<1>1. /\ d \in Seq(Values) /\ Len(d) \in Nat /\ Len(d) <= Capacity
      /\ p \in Seq(Offsets) /\ Len(p) = Len(d)
      /\ b \in Seq(Seq(1 .. Len(d))) /\ Len(b) \in Nat /\ Len(b) <= BITS + 1
  BY DEF Coherent, Shaped
<1>2. width + 1 \in 1 .. Len(b) /\ p[id] \in 1 .. Len(bucket) /\ bucket[p[id]] = id
  BY DEF Coherent, Linked
<1>3. bucket \in Seq(1 .. Len(d)) /\ Len(bucket) \in Nat /\ Len(bucket) \in 1 .. Len(bucket)
  <2>1. bucket \in Seq(1 .. Len(d))
    BY <1>1, <1>2
  <2>2. Len(bucket) \in Nat
    BY <2>1
  <2>3. QED
    BY <2>1, <2>2, <1>2
<1>4. \A k \in 1 .. Len(bucket) :
         /\ bucket[k] \in 1 .. Len(d) /\ p[bucket[k]] = k /\ k \in 1 .. Capacity
         /\ p[bucket[k]] # REMOVED_POSITION /\ BitWidth(d[bucket[k]]) + 1 = width + 1
  BY <1>2, SlotIsLive DEF Coherent, Routed
<1>5. moved \in 1 .. Len(d) /\ p[moved] = Len(bucket) /\ BitWidth(d[moved]) = width
      /\ p[moved] # REMOVED_POSITION
  <2>1. /\ moved \in 1 .. Len(d) /\ p[moved] = Len(bucket)
        /\ p[moved] # REMOVED_POSITION /\ BitWidth(d[moved]) + 1 = width + 1
    BY <1>3, <1>4
  <2>2. BitWidth(d[moved]) \in Nat /\ width \in Nat
    BY BitWidthType, BITSAssumption
  <2>3. BitWidth(d[moved]) = width
    BY <2>1, <2>2
  <2>4. QED
    BY <2>1, <2>3
<1> DEFINE rest == SwapRemove(bucket, p[id])
<1>6. /\ rest \in Seq(1 .. Len(d)) /\ Len(rest) = Len(bucket) - 1
      /\ \A k \in 1 .. Len(bucket) - 1 :
            rest[k] = IF k = p[id] THEN moved ELSE bucket[k]
  <2>1. bucket \in Seq(1 .. Len(d)) /\ p[id] \in 1 .. Len(bucket)
    BY <1>2, <1>3
  <2> DEFINE ids == 1 .. Len(d)
             place == p[id]
  <2>0. bucket \in Seq(ids) /\ place \in 1 .. Len(bucket)
    BY <2>1
  <2> HIDE DEF ids, place
  <2>2. SwapRemove(bucket, place) \in Seq(ids)
    BY <2>0, SwapRemoveFacts
  <2>3. Len(SwapRemove(bucket, place)) = Len(bucket) - 1
    BY <2>0, SwapRemoveFacts
  <2>4. ASSUME NEW k \in 1 .. Len(bucket) - 1
        PROVE  SwapRemove(bucket, place)[k] = IF k = place THEN moved ELSE bucket[k]
    BY <2>0, SwapRemovePlace
  <2>5. QED
    BY <2>2, <2>3, <2>4 DEF ids, place
<1> HIDE DEF rest
<1>7. /\ b2 \in Seq(Seq(1 .. Len(d))) /\ Len(b2) = Len(b) /\ b2[width + 1] = rest
      /\ \A w \in 1 .. Len(b) : w # width + 1 => b2[w] = b[w]
  BY <1>1, <1>2, <1>6 DEF rest
<1>8. p[id] \in 1 .. Capacity
  BY <1>2, <1>4
<1>9. /\ p2 \in Seq(Offsets) /\ Len(p2) = Len(d) /\ p2[id] = REMOVED_POSITION
      /\ moved # id => p2[moved] = p[id]
      /\ \A j \in 1 .. Len(d) : j # id /\ j # moved => p2[j] = p[j]
  <2>1. p[id] \in Offsets /\ REMOVED_POSITION \in Offsets
    BY <1>8 DEF Offsets
  <2>2. moved \in 1 .. Len(p) /\ id \in 1 .. Len(p)
    BY <1>1, <1>5
  <2>3. p2 \in Seq(Offsets) /\ Len(p2) = Len(p)
    BY <2>1, <2>2, <1>1, AssignTwiceFacts
  <2>4. p2[id] = REMOVED_POSITION
    BY <2>1, <2>2, <1>1, AssignTwiceFacts
  <2>5. moved # id => p2[moved] = p[id]
    BY <2>1, <2>2, <1>1, AssignTwiceFacts
  <2>6. ASSUME NEW j \in 1 .. Len(p), j # id, j # moved
        PROVE  p2[j] = p[j]
    BY <2>6, <1>1, AssignTwiceElsewhere
  <2>7. QED
    BY <2>3, <2>4, <2>5, <2>6, <1>1
<1>10. Shaped(d, b2, p2)
  BY <1>1, <1>7, <1>9 DEF Shaped
<1>11. \A j \in 1 .. Len(d) : j # id =>
          (p2[j] = REMOVED_POSITION <=> p[j] = REMOVED_POSITION)
  BY <1>5, <1>9
<1>12. Linked(d, b2, p2)
  <2> SUFFICES ASSUME NEW j \in 1 .. Len(d), p2[j] # REMOVED_POSITION
               PROVE  /\ BitWidth(d[j]) + 1 \in 1 .. Len(b2)
                      /\ p2[j] \in 1 .. Len(b2[BitWidth(d[j]) + 1])
                      /\ b2[BitWidth(d[j]) + 1][p2[j]] = j
    BY DEF Linked
  <2>1. j # id /\ p[j] # REMOVED_POSITION
    BY <1>9, <1>11
  <2>2. /\ BitWidth(d[j]) + 1 \in 1 .. Len(b)
        /\ p[j] \in 1 .. Len(b[BitWidth(d[j]) + 1])
        /\ b[BitWidth(d[j]) + 1][p[j]] = j
    BY <2>1 DEF Coherent, Linked
  <2>3. CASE j = moved
    <3>1. p2[j] = p[id] /\ p[id] # Len(bucket) /\ BitWidth(d[j]) = width
      BY <2>1, <2>3, <1>2, <1>5, <1>9
    <3>2. p[id] \in 1 .. Len(bucket) - 1
      BY <3>1, <1>2, <1>3
    <3>3. QED
      BY <3>1, <3>2, <2>2, <2>3, <1>6, <1>7
  <2>4. CASE j # moved /\ BitWidth(d[j]) + 1 = width + 1
    <3>1. p2[j] = p[j] /\ p[j] \in 1 .. Len(bucket) /\ bucket[p[j]] = j
      BY <2>1, <2>2, <2>4, <1>9
    <3>2. p[j] # Len(bucket) /\ p[j] # p[id]
      BY <3>1, <2>1, <2>4, <1>2
    <3>3. p[j] \in 1 .. Len(bucket) - 1
      BY <3>1, <3>2, <1>3
    <3>4. QED
      BY <3>1, <3>2, <3>3, <2>2, <2>4, <1>6, <1>7
  <2>5. CASE j # moved /\ BitWidth(d[j]) + 1 # width + 1
    BY <2>1, <2>2, <2>5, <1>7, <1>9
  <2>6. QED
    BY <2>3, <2>4, <2>5
<1>13. Routed(d, b2, p2)
  <2> SUFFICES ASSUME NEW w \in 1 .. Len(b2), NEW k \in 1 .. Len(b2[w])
               PROVE  p2[b2[w][k]] = k /\ BitWidth(d[b2[w][k]]) + 1 = w
    BY DEF Routed
  <2>1. CASE w # width + 1
    <3>1. w \in 1 .. Len(b) /\ b2[w] = b[w] /\ k \in 1 .. Len(b[w])
      BY <2>1, <1>7
    <3>2. p[b[w][k]] = k /\ BitWidth(d[b[w][k]]) + 1 = w
      BY <3>1 DEF Coherent, Routed
    <3>3. b[w][k] \in 1 .. Len(d)
      BY <3>1, SlotIsLive
    <3>4. b[w][k] # id /\ b[w][k] # moved
      BY <3>2, <2>1, <1>5
    <3>5. QED
      BY <3>1, <3>2, <3>3, <3>4, <1>9
  <2>2. CASE w = width + 1 /\ k = p[id]
    <3>1. k \in 1 .. Len(bucket) - 1 /\ b2[w][k] = moved
      BY <2>2, <1>6, <1>7
    <3>2. moved # id
      BY <3>1, <2>2, <1>3, <1>5
    <3>3. QED
      BY <3>1, <3>2, <2>2, <1>5, <1>9
  <2>3. CASE w = width + 1 /\ k # p[id]
    <3>1. k \in 1 .. Len(bucket) - 1 /\ b2[w][k] = bucket[k]
      BY <2>3, <1>6, <1>7
    <3>2. k \in 1 .. Len(bucket) /\ k # Len(bucket)
      BY <3>1, <1>3
    <3>3. bucket[k] # id /\ bucket[k] # moved
      BY <3>2, <2>3, <1>4, <1>5
    <3>4. QED
      BY SMTT(30), <3>1, <3>2, <3>3, <2>3, <1>4, <1>9
  <2>4. QED
    BY <2>1, <2>2, <2>3
<1>14. LiveIn(d, p2) = LiveIn(d, p) \ {id}
  BY <1>9, <1>11 DEF LiveIn
<1>15. QED
  BY <1>10, <1>12, <1>13, <1>14 DEF Coherent

\* shrink_trailing: only empty buckets go.
LEMMA ShrinkCoherent ==
    ASSUME NEW d, NEW b, NEW p, Coherent(d, b, p)
    PROVE  Coherent(d, ShrinkTrailing(b), p) /\ Trimmed(ShrinkTrailing(b))
<1> DEFINE shrunk == ShrinkTrailing(b)
<1>1. b \in Seq(Seq(1 .. Len(d))) /\ Len(b) \in Nat /\ Len(b) <= BITS + 1
  BY DEF Coherent, Shaped
<1>2. /\ shrunk \in Seq(Seq(1 .. Len(d))) /\ Len(shrunk) \in Nat /\ Len(shrunk) <= Len(b)
      /\ \A w \in 1 .. Len(shrunk) : shrunk[w] = b[w]
      /\ \A w \in 1 .. Len(b) : b[w] # <<>> => w <= Len(shrunk)
      /\ shrunk # <<>> => shrunk[Len(shrunk)] # <<>>
  BY <1>1, ShrinkTrailingFacts
<1> HIDE DEF shrunk
<1>3. Shaped(d, shrunk, p)
  BY <1>1, <1>2, BITSAssumption DEF Coherent, Shaped
<1>4. Linked(d, shrunk, p)
  <2> SUFFICES ASSUME NEW id \in 1 .. Len(d), p[id] # REMOVED_POSITION
               PROVE  /\ BitWidth(d[id]) + 1 \in 1 .. Len(shrunk)
                      /\ p[id] \in 1 .. Len(shrunk[BitWidth(d[id]) + 1])
                      /\ shrunk[BitWidth(d[id]) + 1][p[id]] = id
    BY DEF Linked
  <2>1. /\ BitWidth(d[id]) + 1 \in 1 .. Len(b)
        /\ p[id] \in 1 .. Len(b[BitWidth(d[id]) + 1])
        /\ b[BitWidth(d[id]) + 1][p[id]] = id
    BY DEF Coherent, Linked
  <2>2. b[BitWidth(d[id]) + 1] # <<>>
    BY <2>1
  <2>3. BitWidth(d[id]) + 1 \in 1 .. Len(shrunk)
    BY <2>1, <2>2, <1>1, <1>2
  <2>4. QED
    BY <2>1, <2>3, <1>2
<1>5. Routed(d, shrunk, p)
  <2>1. \A w \in 1 .. Len(shrunk) : w \in 1 .. Len(b) /\ shrunk[w] = b[w]
    BY <1>1, <1>2
  <2>2. QED
    BY <2>1 DEF Coherent, Routed
<1>6. QED
  BY <1>2, <1>3, <1>4, <1>5 DEF Coherent, Trimmed, shrunk

\* A store into an entry that is removed, or of a value of the same width,
\* leaves every entry where it is.
LEMMA StoreCoherent ==
    ASSUME NEW d, NEW b, NEW p, Coherent(d, b, p),
           NEW id \in 1 .. Len(d), NEW new \in Values,
           p[id] = REMOVED_POSITION \/ BitWidth(new) = BitWidth(d[id])
    PROVE  /\ Coherent([d EXCEPT ![id] = new], b, p)
           /\ LiveIn([d EXCEPT ![id] = new], p) = LiveIn(d, p)
<1> SUFFICES ASSUME NEW d2, d2 = [d EXCEPT ![id] = new]
             PROVE  Coherent(d2, b, p) /\ LiveIn(d2, p) = LiveIn(d, p)
  OBVIOUS
<1>1. d \in Seq(Values)
  BY DEF Coherent, Shaped
<1>2. d2 \in Seq(Values) /\ Len(d2) = Len(d) /\ d2[id] = new
      /\ \A j \in 1 .. Len(d) : j # id => d2[j] = d[j]
  BY <1>1
<1>3. \A j \in 1 .. Len(d) : p[j] # REMOVED_POSITION => BitWidth(d2[j]) = BitWidth(d[j])
  BY <1>2
<1>4. Shaped(d2, b, p)
  BY <1>2 DEF Coherent, Shaped
<1>5. Linked(d2, b, p)
  BY <1>2, <1>3 DEF Coherent, Linked
<1>6. Routed(d2, b, p)
  <2> SUFFICES ASSUME NEW w \in 1 .. Len(b), NEW k \in 1 .. Len(b[w])
               PROVE  p[b[w][k]] = k /\ BitWidth(d2[b[w][k]]) + 1 = w
    BY DEF Routed
  <2>1. b[w][k] \in 1 .. Len(d) /\ p[b[w][k]] # REMOVED_POSITION
    BY SlotIsLive
  <2>2. QED
    BY <2>1, <1>3 DEF Coherent, Routed
<1>7. LiveIn(d2, p) = LiveIn(d, p)
  BY <1>2 DEF LiveIn
<1>8. QED
  BY <1>4, <1>5, <1>6, <1>7 DEF Coherent

\* The two pushes an insert begins with add an entry that counts as removed.
LEMMA GrowCoherent ==
    ASSUME NEW d, NEW b, NEW p, Coherent(d, b, p), Len(d) < Capacity,
           NEW value \in Values
    PROVE  /\ Coherent(Append(d, value), b, Append(p, REMOVED_POSITION))
           /\ LiveIn(Append(d, value), Append(p, REMOVED_POSITION)) = LiveIn(d, p)
           /\ Append(p, REMOVED_POSITION)[Len(d) + 1] = REMOVED_POSITION
<1> SUFFICES ASSUME NEW d2, d2 = Append(d, value),
                    NEW p2, p2 = Append(p, REMOVED_POSITION)
             PROVE  /\ Coherent(d2, b, p2) /\ LiveIn(d2, p2) = LiveIn(d, p)
                    /\ p2[Len(d) + 1] = REMOVED_POSITION
  BY Zenon
<1>1. /\ d \in Seq(Values) /\ Len(d) \in Nat /\ Len(d) <= Capacity
      /\ p \in Seq(Offsets) /\ Len(p) = Len(d)
      /\ b \in Seq(Seq(1 .. Len(d))) /\ Len(b) \in Nat /\ Len(b) <= BITS + 1
  BY DEF Coherent, Shaped
<1>2. /\ d2 \in Seq(Values) /\ Len(d2) = Len(d) + 1 /\ d2[Len(d2)] = value
      /\ \A j \in 1 .. Len(d) : d2[j] = d[j]
  BY <1>1
<1>3. /\ p2 \in Seq(Offsets) /\ Len(p2) = Len(d) + 1 /\ p2[Len(d2)] = REMOVED_POSITION
      /\ \A j \in 1 .. Len(d) : p2[j] = p[j]
  BY <1>1, <1>2 DEF Offsets
<1>4. b \in Seq(Seq(1 .. Len(d2)))
  <2>1. 1 .. Len(d) \subseteq 1 .. Len(d2)
    BY <1>1, <1>2
  <2>2. \A w \in 1 .. Len(b) : b[w] \in Seq(1 .. Len(d2))
    <3> SUFFICES ASSUME NEW w \in 1 .. Len(b)
                 PROVE  b[w] \in Seq(1 .. Len(d2))
      OBVIOUS
    <3>1. b[w] \in Seq(1 .. Len(d))
      BY <1>1
    <3>2. QED
      BY <3>1, <2>1
  <2>3. QED
    BY <2>2, <1>1
<1>5. Shaped(d2, b, p2)
  BY <1>1, <1>2, <1>3, <1>4, ClientAssumption DEF Shaped
<1>6. Linked(d2, b, p2)
  <2> SUFFICES ASSUME NEW id \in 1 .. Len(d2), p2[id] # REMOVED_POSITION
               PROVE  /\ BitWidth(d2[id]) + 1 \in 1 .. Len(b)
                      /\ p2[id] \in 1 .. Len(b[BitWidth(d2[id]) + 1])
                      /\ b[BitWidth(d2[id]) + 1][p2[id]] = id
    BY DEF Linked
  <2>1. id \in 1 .. Len(d)
    BY <1>1, <1>2, <1>3
  <2>2. QED
    BY <2>1, <1>2, <1>3 DEF Coherent, Linked
<1>7. Routed(d2, b, p2)
  <2> SUFFICES ASSUME NEW w \in 1 .. Len(b), NEW k \in 1 .. Len(b[w])
               PROVE  p2[b[w][k]] = k /\ BitWidth(d2[b[w][k]]) + 1 = w
    BY DEF Routed
  <2>1. b[w][k] \in 1 .. Len(d)
    BY SlotIsLive
  <2>2. QED
    BY <2>1, <1>2, <1>3 DEF Coherent, Routed
<1>8. LiveIn(d2, p2) = LiveIn(d, p)
  BY <1>1, <1>2, <1>3 DEF LiveIn
<1>9. QED
  BY <1>2, <1>3, <1>5, <1>6, <1>7, <1>8 DEF Coherent

-------------------------------------------------------------------------------
(* The whole index: coherent, trimmed, and counted.                        *)

Record(d, b, p, n) ==
    [data |-> d, buckets |-> b, bucket_positions |-> p, live_len |-> n]

Valid(s) ==
    /\ s = Record(s.data, s.buckets, s.bucket_positions, s.live_len)
    /\ Coherent(s.data, s.buckets, s.bucket_positions)
    /\ Trimmed(s.buckets)
    /\ s.live_len = Cardinality(LiveIn(s.data, s.bucket_positions))

LEMMA ValidRecord ==
    ASSUME NEW d, NEW b, NEW p, NEW n
    PROVE  Valid(Record(d, b, p, n)) <=>
              /\ Coherent(d, b, p) /\ Trimmed(b)
              /\ n = Cardinality(LiveIn(d, p))
BY DEF Valid, Record

LEMMA LiveInFinite ==
    ASSUME NEW d, NEW b, NEW p, Coherent(d, b, p)
    PROVE  /\ IsFiniteSet(LiveIn(d, p))
           /\ Cardinality(LiveIn(d, p)) \in Nat
           /\ Cardinality(LiveIn(d, p)) <= Len(d)
<1>1. Len(d) \in Nat
  BY DEF Coherent, Shaped
<1>2. IsFiniteSet(1 .. Len(d)) /\ Cardinality(1 .. Len(d)) = Len(d)
  BY <1>1, UpToCardinality
<1>3. LiveIn(d, p) \in SUBSET (1 .. Len(d))
  BY DEF LiveIn
<1>4. QED
  BY <1>2, <1>3, FS_Subset, FS_CardinalityType

\* Updates of the index, one field or two.
LEMMA RecordFields ==
    ASSUME NEW d, NEW b, NEW p, NEW n
    PROVE  /\ Record(d, b, p, n).data = d
           /\ Record(d, b, p, n).buckets = b
           /\ Record(d, b, p, n).bucket_positions = p
           /\ Record(d, b, p, n).live_len = n
BY DEF Record

LEMMA SetBuckets ==
    ASSUME NEW d, NEW b, NEW p, NEW n, NEW r, r = Record(d, b, p, n), NEW b2
    PROVE  [r EXCEPT !.buckets = b2] = Record(d, b2, p, n)
BY DEF Record

LEMMA SetPositions ==
    ASSUME NEW d, NEW b, NEW p, NEW n, NEW r, r = Record(d, b, p, n), NEW p2
    PROVE  [r EXCEPT !.bucket_positions = p2] = Record(d, b, p2, n)
BY DEF Record

LEMMA SetData ==
    ASSUME NEW d, NEW b, NEW p, NEW n, NEW r, r = Record(d, b, p, n), NEW d2
    PROVE  [r EXCEPT !.data = d2] = Record(d2, b, p, n)
BY DEF Record

LEMMA SetLiveLen ==
    ASSUME NEW d, NEW b, NEW p, NEW n, NEW r, r = Record(d, b, p, n), NEW n2
    PROVE  [r EXCEPT !.live_len = n2] = Record(d, b, p, n2)
BY DEF Record

\* link_existing and unlink_existing, in terms of the vectors.
LEMMA LinkRecord ==
    ASSUME NEW d, NEW b, NEW p, NEW n, NEW id, NEW width,
           NEW r, r = Record(d, b, p, n)
    PROVE  LinkExisting(r, id, width)
              = Record(d, LinkB(b, id, width), LinkP(b, p, id, width), n)
<1> DEFINE b2 == LinkB(b, id, width)
           v == Len(EnsureBucket(b, width)[width + 1]) + 1
<1>1. r.buckets = b /\ r.bucket_positions = p
  BY RecordFields
<1>2. LinkExisting(r, id, width) = [r EXCEPT !.buckets = b2, !.bucket_positions[id] = v]
  BY <1>1 DEF LinkExisting, LinkB
<1> HIDE DEF b2, v
<1>3. [r EXCEPT !.buckets = b2, !.bucket_positions[id] = v]
        = [[r EXCEPT !.buckets = b2] EXCEPT !.bucket_positions = [p EXCEPT ![id] = v]]
  BY DEF Record
<1>4. [r EXCEPT !.buckets = b2] = Record(d, b2, p, n)
  BY SetBuckets
<1>5. [[r EXCEPT !.buckets = b2] EXCEPT !.bucket_positions = [p EXCEPT ![id] = v]]
        = Record(d, b2, [p EXCEPT ![id] = v], n)
  <2>1. PICK rb, p2 : rb = [r EXCEPT !.buckets = b2] /\ p2 = [p EXCEPT ![id] = v]
    OBVIOUS
  <2>2. rb = Record(d, b2, p, n)
    BY <2>1, <1>4
  <2>3. [rb EXCEPT !.bucket_positions = p2] = Record(d, b2, p2, n)
    BY <2>2, SetPositions
  <2>4. QED
    BY <2>1, <2>3
<1>6. LinkP(b, p, id, width) = [p EXCEPT ![id] = v]
  BY DEF LinkP, v
<1>7. QED
  BY <1>2, <1>3, <1>5, <1>6 DEF b2

LEMMA UnlinkRecord ==
    ASSUME NEW d, NEW b, NEW p, NEW n, NEW id, NEW width,
           NEW r, r = Record(d, b, p, n)
    PROVE  UnlinkExisting(r, id, width)
              = Record(d, UnlinkB(b, p, id, width), UnlinkP(b, p, id, width), n)
<1> DEFINE b2 == UnlinkB(b, p, id, width)
           p2 == UnlinkP(b, p, id, width)
<1>1. r.buckets = b /\ r.bucket_positions = p
  BY RecordFields
<1>2. UnlinkExisting(r, id, width)
        = [[r EXCEPT !.buckets = b2] EXCEPT !.bucket_positions = p2]
  BY <1>1 DEF UnlinkExisting, UnlinkB, UnlinkP, Record
<1> HIDE DEF b2, p2
<1>3. [r EXCEPT !.buckets = b2] = Record(d, b2, p, n)
  BY SetBuckets
<1>4. [[r EXCEPT !.buckets = b2] EXCEPT !.bucket_positions = p2] = Record(d, b2, p2, n)
  <2>1. PICK rb : rb = [r EXCEPT !.buckets = b2]
    OBVIOUS
  <2>2. rb = Record(d, b2, p, n)
    BY <2>1, <1>3
  <2>3. [rb EXCEPT !.bucket_positions = p2] = Record(d, b2, p2, n)
    BY <2>2, SetPositions
  <2>4. QED
    BY <2>1, <2>3
<1>5. QED
  BY <1>2, <1>4 DEF b2, p2

\* insert.
LEMMA InsertedValid ==
    ASSUME NEW s, Valid(s), Len(s.data) < Capacity, NEW value \in Values
    PROVE  LET inserted == Inserted(s, value)
           IN  /\ Valid(inserted)
               /\ inserted.data = Append(s.data, value)
               /\ Len(inserted.data) = Len(s.data) + 1
               /\ LiveIn(inserted.data, inserted.bucket_positions)
                     = LiveIn(s.data, s.bucket_positions) \cup {Len(s.data) + 1}
<1>1. PICK d, b, p, n : s = Record(d, b, p, n) /\ d = s.data /\ p = s.bucket_positions
  BY DEF Valid
<1>2. Coherent(d, b, p) /\ Trimmed(b) /\ n = Cardinality(LiveIn(d, p))
  BY <1>1, ValidRecord
<1>3. d \in Seq(Values) /\ Len(d) \in Nat /\ Len(d) < Capacity
      /\ p \in Seq(Offsets) /\ Len(p) = Len(d)
  <2>1. Len(d) < Capacity
    BY <1>1
  <2>2. QED
    BY <1>2, <2>1 DEF Coherent, Shaped
<1> DEFINE d2 == Append(d, value)
           p2 == Append(p, REMOVED_POSITION)
           id == Len(d) + 1
           width == BitWidth(d2[id])
<1>4. Len(d2) = id /\ d2[id] = value /\ id \in 1 .. Len(d2)
  BY <1>3
<1>5. /\ Coherent(d2, b, p2)
      /\ LiveIn(d2, p2) = LiveIn(d, p)
      /\ p2[id] = REMOVED_POSITION
  BY <1>2, <1>3, GrowCoherent
<1>6. Inserted(s, value)
        = [LinkExisting(Record(d2, b, p2, n), id, width) EXCEPT !.live_len = @ + 1]
  <2> DEFINE grown == [s EXCEPT !.data = d2, !.bucket_positions = p2]
  <2>1. s.bucket_positions = p /\ s.data = d
    BY <1>1, RecordFields
  <2>2. grown = [[s EXCEPT !.data = d2] EXCEPT !.bucket_positions = p2]
    BY <1>1 DEF Record
  <2>3. [s EXCEPT !.data = d2] = Record(d2, b, p, n)
    <3> HIDE DEF d2
    <3>1. QED
      BY <1>1, SetData
  <2>4. grown = Record(d2, b, p2, n)
    <3> HIDE DEF d2, p2, grown
    <3>1. PICK pushed : pushed = [s EXCEPT !.data = d2]
      OBVIOUS
    <3>2. pushed = Record(d2, b, p, n)
      BY <2>3, <3>1
    <3>3. [pushed EXCEPT !.bucket_positions = p2] = Record(d2, b, p2, n)
      BY <3>2, SetPositions
    <3>4. QED
      BY <2>2, <3>1, <3>3
  <2>5. Len(grown.data) = id /\ width = BitWidth(value)
    BY <2>4, <1>4, RecordFields
  <2>6. Inserted(s, value)
          = [LinkExisting(grown, Len(grown.data), BitWidth(value)) EXCEPT !.live_len = @ + 1]
    BY <2>1 DEF Inserted
  <2> HIDE DEF d2, p2, grown, id, width
  <2>7. QED
    BY <2>4, <2>5, <2>6
<1> HIDE DEF d2, p2, id, width
<1>7. Inserted(s, value) = Record(d2, LinkB(b, id, width), LinkP(b, p2, id, width), n + 1)
  <2>1. LinkExisting(Record(d2, b, p2, n), id, width)
          = Record(d2, LinkB(b, id, width), LinkP(b, p2, id, width), n)
    BY LinkRecord
  <2>2. Inserted(s, value)
          = [LinkExisting(Record(d2, b, p2, n), id, width) EXCEPT !.live_len = n + 1]
    BY <1>6, <2>1, RecordFields
  <2>3. QED
    BY <2>1, <2>2, SetLiveLen
<1>8. /\ Coherent(d2, LinkB(b, id, width), LinkP(b, p2, id, width))
      /\ LiveIn(d2, LinkP(b, p2, id, width)) = LiveIn(d2, p2) \cup {id}
      /\ Trimmed(LinkB(b, id, width))
  BY <1>2, <1>4, <1>5, LinkCoherent DEF width
<1>9. Cardinality(LiveIn(d, p) \cup {id}) = n + 1
  <2>1. id \notin LiveIn(d, p)
    BY <1>3 DEF id, LiveIn
  <2>2. IsFiniteSet(LiveIn(d, p))
    BY <1>2, LiveInFinite
  <2>3. QED
    BY <2>1, <2>2, <1>2, FS_AddElement
<1>10. Valid(Inserted(s, value))
  <2>1. n + 1 = Cardinality(LiveIn(d2, LinkP(b, p2, id, width)))
    BY <1>5, <1>8, <1>9
  <2>2. Valid(Record(d2, LinkB(b, id, width), LinkP(b, p2, id, width), n + 1))
    BY <1>8, <2>1, ValidRecord
  <2>3. QED
    BY <2>2, <1>7
<1>11. /\ Inserted(s, value).data = d2
       /\ Inserted(s, value).bucket_positions = LinkP(b, p2, id, width)
  BY <1>7, RecordFields
<1>12. /\ Inserted(s, value).data = Append(s.data, value)
       /\ Len(Inserted(s, value).data) = Len(s.data) + 1
  BY <1>1, <1>4, <1>11 DEF id, d2
<1>13. LiveIn(Inserted(s, value).data, Inserted(s, value).bucket_positions)
         = LiveIn(s.data, s.bucket_positions) \cup {Len(s.data) + 1}
  BY <1>1, <1>5, <1>8, <1>11 DEF id
<1>14. QED
  BY <1>10, <1>12, <1>13

\* remove_at of a live entry.
LEMMA RemovedAtValid ==
    ASSUME NEW s, Valid(s), NEW id \in LiveIn(s.data, s.bucket_positions)
    PROVE  /\ Valid(RemovedAt(s, id)) /\ RemovedAt(s, id).data = s.data
           /\ LiveIn(s.data, RemovedAt(s, id).bucket_positions)
                 = LiveIn(s.data, s.bucket_positions) \ {id}
<1>1. PICK d, b, p, n : /\ s = Record(d, b, p, n)
                        /\ d = s.data /\ p = s.bucket_positions
  BY DEF Valid
<1>2. Coherent(d, b, p) /\ Trimmed(b) /\ n = Cardinality(LiveIn(d, p))
  BY <1>1, ValidRecord
<1>3. id \in 1 .. Len(d) /\ p[id] # REMOVED_POSITION /\ id \in LiveIn(d, p)
  BY <1>1 DEF LiveIn
<1> DEFINE width == BitWidth(d[id])
           b2 == UnlinkB(b, p, id, width)
           p2 == UnlinkP(b, p, id, width)
<1>4. Coherent(d, b2, p2) /\ LiveIn(d, p2) = LiveIn(d, p) \ {id}
  BY <1>2, <1>3, UnlinkCoherent
<1>5. RemovedAt(s, id) = Record(d, ShrinkTrailing(b2), p2, n - 1)
  <2> DEFINE unlinked == UnlinkExisting(s, id, width)
  <2>1. unlinked = Record(d, b2, p2, n)
    BY <1>1, UnlinkRecord
  <2>2. s.data = d
    BY <1>1
  <2>3. RemovedAt(s, id)
          = [unlinked EXCEPT !.live_len = @ - 1, !.buckets = ShrinkTrailing(@)]
    BY <2>2 DEF RemovedAt
  <2> HIDE DEF b2, p2, unlinked
  <2>4. unlinked.live_len = n /\ unlinked.buckets = b2
    BY <2>1, RecordFields
  <2>5. RemovedAt(s, id)
          = [[unlinked EXCEPT !.live_len = n - 1] EXCEPT !.buckets = ShrinkTrailing(b2)]
    BY <2>1, <2>3, <2>4 DEF Record
  <2>6. [unlinked EXCEPT !.live_len = n - 1] = Record(d, b2, p2, n - 1)
    BY <2>1, SetLiveLen
  <2>7. PICK counted, trimmed : /\ counted = [unlinked EXCEPT !.live_len = n - 1]
                                /\ trimmed = ShrinkTrailing(b2)
    OBVIOUS
  <2>8. counted = Record(d, b2, p2, n - 1)
    BY <2>6, <2>7
  <2>9. [counted EXCEPT !.buckets = trimmed] = Record(d, trimmed, p2, n - 1)
    <3>1. PICK m : m = n - 1
      OBVIOUS
    <3>2. QED
      BY <2>8, <3>1, SetBuckets
  <2>10. QED
    BY <2>5, <2>7, <2>9
<1> HIDE DEF width, b2, p2
<1>6. Coherent(d, ShrinkTrailing(b2), p2) /\ Trimmed(ShrinkTrailing(b2))
  BY <1>4, ShrinkCoherent
<1>7. Cardinality(LiveIn(d, p2)) = n - 1
  <2>1. IsFiniteSet(LiveIn(d, p))
    BY <1>2, LiveInFinite
  <2>2. QED
    BY <2>1, <1>2, <1>3, <1>4, FS_RemoveElement
<1>8. RemovedAt(s, id).data = d /\ RemovedAt(s, id).bucket_positions = p2
  BY <1>5, RecordFields
<1>9. Valid(RemovedAt(s, id))
  BY <1>5, <1>6, <1>7, ValidRecord
<1>10. QED
  BY <1>1, <1>4, <1>8, <1>9

\* update_at of a live entry.
LEMMA UpdatedAtValid ==
    ASSUME NEW s, Valid(s), NEW id \in LiveIn(s.data, s.bucket_positions),
           NEW new \in Values
    PROVE  /\ Valid(UpdatedAt(s, id, new))
           /\ UpdatedAt(s, id, new).data = [s.data EXCEPT ![id] = new]
           /\ LiveIn(UpdatedAt(s, id, new).data, UpdatedAt(s, id, new).bucket_positions)
                 = LiveIn(s.data, s.bucket_positions)
<1>1. PICK d, b, p, n : /\ s = Record(d, b, p, n)
                        /\ d = s.data /\ p = s.bucket_positions
  BY DEF Valid
<1>2. Coherent(d, b, p) /\ Trimmed(b) /\ n = Cardinality(LiveIn(d, p))
  BY SMTT(30), <1>1, ValidRecord
<1>3. /\ id \in 1 .. Len(d) /\ p[id] # REMOVED_POSITION /\ id \in LiveIn(d, p)
      /\ d \in Seq(Values)
  BY Zenon, <1>1, <1>2 DEF LiveIn, Coherent, Shaped
<1> DEFINE old_width == BitWidth(d[id])
           d2 == [d EXCEPT ![id] = new]
           new_width == BitWidth(new)
           b2 == UnlinkB(b, p, id, old_width)
           p2 == UnlinkP(b, p, id, old_width)
           b3 == LinkB(b2, id, new_width)
           p3 == LinkP(b2, p2, id, new_width)
<1>4. CASE old_width = new_width
  <2>1. UpdatedAt(s, id, new) = Record(d2, b, p, n)
    BY <1>1, <1>4 DEF UpdatedAt, Record
  <2>2. Coherent(d2, b, p) /\ LiveIn(d2, p) = LiveIn(d, p)
    BY <1>2, <1>3, <1>4, StoreCoherent
  <2>3. Valid(Record(d2, b, p, n))
    BY <1>2, <2>2, ValidRecord
  <2>4. Record(d2, b, p, n).data = d2 /\ Record(d2, b, p, n).bucket_positions = p
    BY RecordFields
  <2>5. QED
    BY <1>1, <2>1, <2>2, <2>3, <2>4
<1>5. CASE old_width # new_width
  <2>1. Coherent(d, b2, p2) /\ LiveIn(d, p2) = LiveIn(d, p) \ {id}
    BY <1>2, <1>3, UnlinkCoherent
  <2>2. p2[id] = REMOVED_POSITION
    BY <1>3, <2>1 DEF LiveIn
  <2>3. UnlinkExisting(s, id, old_width) = Record(d, b2, p2, n)
    BY <1>1, UnlinkRecord
  <2> HIDE DEF b2, p2
  <2>4. Coherent(d2, b2, p2) /\ LiveIn(d2, p2) = LiveIn(d, p2)
    <3>1. QED
      <4>1. Coherent([d EXCEPT ![id] = new], b2, p2)
        BY <1>3, <2>1, <2>2, StoreCoherent
      <4>2. LiveIn([d EXCEPT ![id] = new], p2) = LiveIn(d, p2)
        <5>1. Len([d EXCEPT ![id] = new]) = Len(d)
          BY <1>3
        <5>2. QED
          BY <5>1 DEF LiveIn
      <4>3. QED
        BY <4>1, <4>2 DEF d2
  <2>5. new_width = BitWidth(d2[id]) /\ id \in 1 .. Len(d2)
    BY <1>3
  <2>6. /\ Coherent(d2, b3, p3)
        /\ LiveIn(d2, p3) = LiveIn(d2, p2) \cup {id}
    <3> HIDE DEF d2, new_width
    <3>1. QED
      BY <2>2, <2>4, <2>5, LinkCoherent
  <2>7. UpdatedAt(s, id, new) = Record(d2, ShrinkTrailing(b3), p3, n)
    <3>1. [UnlinkExisting(s, id, old_width) EXCEPT !.data[id] = new] = Record(d2, b2, p2, n)
      BY <2>3 DEF Record
    <3>2. LinkExisting(Record(d2, b2, p2, n), id, new_width) = Record(d2, b3, p3, n)
      BY LinkRecord
    <3> HIDE DEF b3, p3
    <3>3. QED
      BY <1>1, <1>5, <3>1, <3>2 DEF UpdatedAt, Record
  <2> HIDE DEF d2, b3, p3
  <2>8. Coherent(d2, ShrinkTrailing(b3), p3) /\ Trimmed(ShrinkTrailing(b3))
    BY <2>6, ShrinkCoherent
  <2>9. LiveIn(d2, p3) = LiveIn(d, p)
    BY <1>3, <2>1, <2>4, <2>6
  <2>10. Valid(Record(d2, ShrinkTrailing(b3), p3, n))
    BY <1>2, <2>8, <2>9, ValidRecord
  <2>11. /\ Record(d2, ShrinkTrailing(b3), p3, n).data = d2
         /\ Record(d2, ShrinkTrailing(b3), p3, n).bucket_positions = p3
    BY RecordFields
  <2>12. QED
    BY <1>1, <2>7, <2>9, <2>10, <2>11 DEF d2
<1>6. QED
  BY <1>4, <1>5

-------------------------------------------------------------------------------
(* The regions of storage a sort fills from the buckets.                   *)

Slots(b, w) == UNION {{v} \X DOMAIN b[v] : v \in 1 .. w}

LEMMA SlotsMember ==
    ASSUME NEW d, NEW b, NEW p, Coherent(d, b, p), NEW w \in 0 .. Len(b), NEW x
    PROVE  x \in Slots(b, w) <=> \E v \in 1 .. w : \E k \in 1 .. Len(b[v]) : x = <<v, k>>
<1>1. \A v \in 1 .. w : DOMAIN b[v] = 1 .. Len(b[v])
  <2> SUFFICES ASSUME NEW v \in 1 .. w
               PROVE  DOMAIN b[v] = 1 .. Len(b[v])
    OBVIOUS
  <2>1. b \in Seq(Seq(1 .. Len(d))) /\ Len(b) \in Nat
    BY DEF Coherent, Shaped
  <2>2. v \in 1 .. Len(b)
    BY <2>1
  <2>3. b[v] \in Seq(1 .. Len(d))
    BY <2>1, <2>2
  <2>4. QED
    BY <2>3
<1>2. x \in Slots(b, w) <=> \E v \in 1 .. w : x \in {v} \X DOMAIN b[v]
  BY DEF Slots
<1>3. QED
  BY <1>1, <1>2

\* As many slots as live entries.
LEMMA SlotsCount ==
    ASSUME NEW d, NEW b, NEW p, Coherent(d, b, p)
    PROVE  /\ IsFiniteSet(Slots(b, Len(b)))
           /\ Start(b, Len(b)) = Cardinality(LiveIn(d, p))
<1> DEFINE slot == [id \in LiveIn(d, p) |-> <<BitWidth(d[id]) + 1, p[id]>>]
           all == Slots(b, Len(b))
<1>1. Len(b) \in Nat
  BY DEF Coherent, Shaped
<1>2. \A id \in LiveIn(d, p) : slot[id] \in all
  <2> SUFFICES ASSUME NEW id \in LiveIn(d, p)
               PROVE  <<BitWidth(d[id]) + 1, p[id]>> \in all
    OBVIOUS
  <2>1. BitWidth(d[id]) + 1 \in 1 .. Len(b) /\ p[id] \in 1 .. Len(b[BitWidth(d[id]) + 1])
    BY DEF LiveIn, Coherent, Linked
  <2>2. QED
    BY <2>1, <1>1, SlotsMember
<1>3. \A i, j \in LiveIn(d, p) : slot[i] = slot[j] => i = j
  <2> SUFFICES ASSUME NEW i \in LiveIn(d, p), NEW j \in LiveIn(d, p), slot[i] = slot[j]
               PROVE  i = j
    OBVIOUS
  <2>1. BitWidth(d[i]) + 1 = BitWidth(d[j]) + 1 /\ p[i] = p[j]
    OBVIOUS
  <2>2. b[BitWidth(d[i]) + 1][p[i]] = i /\ b[BitWidth(d[j]) + 1][p[j]] = j
    BY DEF LiveIn, Coherent, Linked
  <2>3. QED
    BY <2>1, <2>2
<1>4. \A x \in all : \E id \in LiveIn(d, p) : slot[id] = x
  <2> SUFFICES ASSUME NEW x \in all
               PROVE  \E id \in LiveIn(d, p) : slot[id] = x
    OBVIOUS
  <2>1. PICK v \in 1 .. Len(b) : \E k \in 1 .. Len(b[v]) : x = <<v, k>>
    BY <1>1, SlotsMember
  <2>2. PICK k \in 1 .. Len(b[v]) : x = <<v, k>>
    BY <2>1
  <2>3. p[b[v][k]] = k /\ BitWidth(d[b[v][k]]) + 1 = v
    BY DEF Coherent, Routed
  <2>4. b[v][k] \in LiveIn(d, p)
    BY SlotIsLive DEF LiveIn
  <2>5. QED
    BY <2>2, <2>3, <2>4
<1> HIDE DEF all
<1>5. slot \in Bijection(LiveIn(d, p), all)
  BY <1>2, <1>3, <1>4 DEF Bijection, Injection, Surjection, IsInjective
<1>6. ExistsBijection(LiveIn(d, p), all)
  BY <1>5 DEF ExistsBijection
<1>7. IsFiniteSet(all) /\ Cardinality(all) = Cardinality(LiveIn(d, p))
  BY <1>6, LiveInFinite, FS_Bijection
<1>8. QED
  BY <1>7 DEF all, Start, Slots

LEMMA StartType ==
    ASSUME NEW d, NEW b, NEW p, Coherent(d, b, p), NEW w \in 0 .. Len(b)
    PROVE  /\ IsFiniteSet(Slots(b, w))
           /\ Start(b, w) = Cardinality(Slots(b, w))
           /\ Start(b, w) \in Nat
<1>1. Len(b) \in Nat
  BY DEF Coherent, Shaped
<1>2. Slots(b, w) \in SUBSET Slots(b, Len(b))
  <2>1. 1 .. w \subseteq 1 .. Len(b)
    BY <1>1
  <2>2. QED
    BY <2>1 DEF Slots
<1>3. IsFiniteSet(Slots(b, w))
  BY <1>2, SlotsCount, FS_Subset
<1>4. Start(b, w) = Cardinality(Slots(b, w))
  BY DEF Start, Slots
<1>5. QED
  BY <1>3, <1>4, FS_CardinalityType

LEMMA StartMonotone ==
    ASSUME NEW d, NEW b, NEW p, Coherent(d, b, p),
           NEW w \in 0 .. Len(b), NEW v \in 0 .. w
    PROVE  Start(b, v) <= Start(b, w)
<1>1. Len(b) \in Nat /\ v \in 0 .. Len(b)
  BY DEF Coherent, Shaped
<1>2. Slots(b, v) \in SUBSET Slots(b, w)
  <2>1. 1 .. v \subseteq 1 .. w
    BY <1>1
  <2>2. QED
    BY <2>1 DEF Slots
<1>3. Cardinality(Slots(b, v)) <= Cardinality(Slots(b, w))
  BY <1>2, StartType, FS_Subset
<1>4. QED
  BY <1>1, <1>3, StartType

LEMMA StartZero ==
    ASSUME NEW b
    PROVE  Start(b, 0) = 0
<1>1. Slots(b, 0) = {}
  BY DEF Slots
<1>2. QED
  BY <1>1, FS_EmptySet DEF Start, Slots

\* Each region is as long as its bucket.
LEMMA StartStep ==
    ASSUME NEW d, NEW b, NEW p, Coherent(d, b, p), NEW w \in 1 .. Len(b)
    PROVE  Start(b, w) = Start(b, w - 1) + Len(b[w])
<1> DEFINE before == Slots(b, w - 1)
           own == {w} \X (1 .. Len(b[w]))
           place == [k \in 1 .. Len(b[w]) |-> <<w, k>>]
<1>1. /\ Len(b) \in Nat /\ w - 1 \in 0 .. Len(b) /\ w \in 0 .. Len(b)
      /\ b[w] \in Seq(1 .. Len(d)) /\ Len(b[w]) \in Nat
  BY DEF Coherent, Shaped
<1>2. Slots(b, w) = before \cup own
  <2>1. \A x : x \in Slots(b, w) <=> \E v \in 1 .. w : \E k \in 1 .. Len(b[v]) : x = <<v, k>>
    BY <1>1, SlotsMember
  <2>2. \A x : x \in before <=> \E v \in 1 .. w - 1 : \E k \in 1 .. Len(b[v]) : x = <<v, k>>
    <3>1. PICK u : u = w - 1
      OBVIOUS
    <3>2. u \in 0 .. Len(b)
      BY <1>1, <3>1
    <3>3. \A x : x \in Slots(b, u) <=> \E v \in 1 .. u : \E k \in 1 .. Len(b[v]) : x = <<v, k>>
      BY <1>1, <3>2, SlotsMember
    <3>4. QED
      BY <3>1, <3>3 DEF before
  <2>3. 1 .. w = 1 .. (w - 1) \cup {w}
    BY <1>1
  <2> HIDE DEF before
  <2>4. QED
    BY <2>1, <2>2, <2>3
<1>3. before \cap own = {}
  <2>1. \A x \in before : \E v \in 1 .. w - 1 : \E k \in 1 .. Len(b[v]) : x = <<v, k>>
    BY <1>1, SlotsMember
  <2>2. w \notin 1 .. w - 1
    BY <1>1
  <2> HIDE DEF before
  <2>3. QED
    BY <2>1, <2>2
<1>4. IsFiniteSet(own) /\ Cardinality(own) = Len(b[w])
  <2>1. place \in Bijection(1 .. Len(b[w]), own)
    <3>1. place \in [1 .. Len(b[w]) -> own]
      OBVIOUS
    <3>2. \A i, j \in 1 .. Len(b[w]) : place[i] = place[j] => i = j
      OBVIOUS
    <3>3. \A x \in own : \E k \in 1 .. Len(b[w]) : place[k] = x
      OBVIOUS
    <3> HIDE DEF place, own
    <3>4. QED
      BY <3>1, <3>2, <3>3 DEF Bijection, Injection, Surjection, IsInjective
  <2>2. ExistsBijection(1 .. Len(b[w]), own)
    BY <2>1 DEF ExistsBijection
  <2> HIDE DEF own
  <2>3. QED
    BY <1>1, <2>2, UpToCardinality, FS_Bijection
<1>5. /\ IsFiniteSet(before) /\ Start(b, w - 1) = Cardinality(before)
      /\ Start(b, w - 1) \in Nat
      /\ Start(b, w) = Cardinality(Slots(b, w))
  BY <1>1, StartType
<1> HIDE DEF before, own
<1>6. Cardinality(before \cup own)
        = Cardinality(before) + Cardinality(own) - Cardinality(before \cap own)
  BY <1>4, <1>5, FS_Union
<1>7. Cardinality(before \cap own) = 0
  BY <1>3, FS_EmptySet
<1>8. QED
  BY <1>1, <1>2, <1>4, <1>5, <1>6, <1>7

\* Every place of the live part of storage is in one region.
LEMMA RegionOf ==
    ASSUME NEW d, NEW b, NEW p, Coherent(d, b, p), NEW q \in 1 .. Start(b, Len(b))
    PROVE  \E w \in DOMAIN b : q \in Region(b, w)
<1> DEFINE reaching == {w \in 0 .. Len(b) : q <= Start(b, w)}
<1>1. Len(b) \in Nat /\ DOMAIN b = 1 .. Len(b)
  BY DEF Coherent, Shaped
<1>2. \A w \in 0 .. Len(b) : Start(b, w) \in Nat
  BY StartType
<1>3. reaching \in SUBSET Nat /\ reaching # {}
  <2>1. Len(b) \in reaching
    BY <1>1, <1>2
  <2>2. QED
    BY <2>1, <1>1
<1>4. PICK w \in reaching : \A v \in reaching : w <= v
  <2> HIDE DEF reaching
  <2>1. QED
    BY <1>3, LeastNat
<1>5. w # 0
  BY <1>1, <1>2, StartZero
<1>6. w - 1 \in 0 .. Len(b) /\ w - 1 \notin reaching /\ w \in DOMAIN b
  BY <1>1, <1>4, <1>5
<1>7. Start(b, w - 1) < q /\ q <= Start(b, w)
  BY <1>2, <1>4, <1>6
<1>8. q \in Region(b, w)
  BY <1>1, <1>2, <1>4, <1>6, <1>7 DEF Region
<1>9. QED
  BY <1>6, <1>8

LEMMA RegionUnique ==
    ASSUME NEW d, NEW b, NEW p, Coherent(d, b, p),
           NEW v \in 1 .. Len(b), NEW w \in 1 .. Len(b), NEW q,
           q \in Region(b, v), q \in Region(b, w)
    PROVE  v = w
<1>1. Len(b) \in Nat
  BY DEF Coherent, Shaped
<1>2. ASSUME NEW i \in 1 .. Len(b), NEW j \in 1 .. Len(b), i < j,
             q \in Region(b, i), q \in Region(b, j)
      PROVE  FALSE
  <2>1. /\ j - 1 \in 0 .. Len(b) /\ i \in 0 .. j - 1
        /\ i - 1 \in 0 .. Len(b) /\ j \in 0 .. Len(b) /\ i \in 0 .. Len(b)
    BY <1>1, <1>2
  <2>2. Start(b, i) <= Start(b, j - 1)
    BY <2>1, StartMonotone
  <2>3. /\ Start(b, i) \in Nat /\ Start(b, j - 1) \in Nat
        /\ Start(b, i - 1) \in Nat /\ Start(b, j) \in Nat
    BY <2>1, StartType
  <2>4. q \in Nat /\ q <= Start(b, i) /\ Start(b, j - 1) < q
    BY SMTT(30), <1>2, <2>3 DEF Region
  <2>5. QED
    BY <2>2, <2>3, <2>4
<1>3. QED
  BY <1>1, <1>2

\* The places of a region are those of the live part of storage, one for each
\* offset of its bucket.
LEMMA RegionPlaces ==
    ASSUME NEW d, NEW b, NEW p, Coherent(d, b, p), NEW w \in 1 .. Len(b)
    PROVE  /\ Start(b, w - 1) \in Nat
           /\ Region(b, w) = Start(b, w - 1) + 1 .. Start(b, w - 1) + Len(b[w])
           /\ Region(b, w) \in SUBSET (1 .. Start(b, Len(b)))
           /\ Start(b, Len(b)) \in Nat /\ Start(b, Len(b)) <= Len(d)
           /\ Len(b[w]) \in Nat
<1>1. /\ Len(b) \in Nat /\ w - 1 \in 0 .. Len(b) /\ w \in 0 .. Len(b) /\ Len(b) \in 0 .. Len(b)
      /\ b[w] \in Seq(1 .. Len(d)) /\ Len(b[w]) \in Nat
  BY DEF Coherent, Shaped
<1>2. Start(b, w - 1) \in Nat
  BY <1>1, StartType
<1>3. Start(b, w) = Start(b, w - 1) + Len(b[w])
  BY StartStep
<1>4. Start(b, w) <= Start(b, Len(b)) /\ Start(b, Len(b)) \in Nat
  BY <1>1, StartMonotone, StartType
<1>5. Start(b, Len(b)) <= Len(d)
  BY SlotsCount, LiveInFinite
<1>6. Region(b, w) = Start(b, w - 1) + 1 .. Start(b, w - 1) + Len(b[w])
  BY <1>3 DEF Region
<1>7. QED
  BY <1>1, <1>2, <1>3, <1>4, <1>5, <1>6

-------------------------------------------------------------------------------
(* Sarkar Sort.                                                            *)

SortedD(d, order) == [q \in DOMAIN d |-> d[order[q]]]

SortedB(b) == [w \in DOMAIN b |-> [k \in DOMAIN b[w] |-> Start(b, w - 1) + k]]

SortedP(d, b) ==
    [q \in DOMAIN d |-> IF q > Start(b, Len(b)) THEN REMOVED_POSITION
                        ELSE q - Start(b, WidthAt(b, q) - 1)]

LEMMA WidthAtRegion ==
    ASSUME NEW d, NEW b, NEW p, Coherent(d, b, p),
           NEW w \in 1 .. Len(b), NEW q \in Region(b, w)
    PROVE  WidthAt(b, q) = w
<1>1. DOMAIN b = 1 .. Len(b)
  BY DEF Coherent, Shaped
<1>2. \E v \in 1 .. Len(b) : q \in Region(b, v)
  OBVIOUS
<1>3. WidthAt(b, q) \in 1 .. Len(b) /\ q \in Region(b, WidthAt(b, q))
  BY <1>1, <1>2 DEF WidthAt
<1>4. QED
  BY <1>3, RegionUnique

\* Where the position map of the sorted index leads: the place of offset k in
\* the region of width w is given the position k.
LEMMA SortedPlace ==
    ASSUME NEW d, NEW b, NEW p, Coherent(d, b, p),
           NEW w \in 1 .. Len(b), NEW k \in 1 .. Len(b[w])
    PROVE  /\ Start(b, w - 1) + k \in 1 .. Start(b, Len(b))
           /\ Start(b, w - 1) + k \in 1 .. Len(d)
           /\ Start(b, w - 1) + k \in Region(b, w)
           /\ SortedP(d, b)[Start(b, w - 1) + k] = k
<1> SUFFICES ASSUME NEW q, q = Start(b, w - 1) + k
             PROVE  /\ q \in 1 .. Start(b, Len(b)) /\ q \in 1 .. Len(d)
                    /\ q \in Region(b, w) /\ SortedP(d, b)[q] = k
  BY Zenon
<1>1. PICK first : first = Start(b, w - 1)
  OBVIOUS
<1>2. /\ first \in Nat /\ Region(b, w) = first + 1 .. first + Len(b[w])
      /\ Region(b, w) \in SUBSET (1 .. Start(b, Len(b)))
      /\ Start(b, Len(b)) \in Nat /\ Start(b, Len(b)) <= Len(d)
      /\ Len(b[w]) \in Nat
  BY <1>1, RegionPlaces
<1>3. Len(d) \in Nat /\ DOMAIN d = 1 .. Len(d)
  BY DEF Coherent, Shaped
<1>4. q = first + k /\ q - first = k /\ q \in Region(b, w)
  BY SMTT(30), <1>1, <1>2
<1>5. q \in 1 .. Start(b, Len(b))
  BY <1>2, <1>4
<1>6. q \in 1 .. Len(d) /\ ~ (q > Start(b, Len(b)))
  BY <1>2, <1>3, <1>5
<1>7. WidthAt(b, q) = w
  BY <1>4, WidthAtRegion
<1>8. SortedP(d, b)[q] = q - Start(b, WidthAt(b, q) - 1)
  BY <1>3, <1>6 DEF SortedP
<1>9. QED
  BY Zenon, <1>1, <1>4, <1>5, <1>6, <1>7, <1>8

\* Conversely, every live place of storage is one of those.
LEMMA PlaceOffset ==
    ASSUME NEW d, NEW b, NEW p, Coherent(d, b, p), NEW q \in 1 .. Start(b, Len(b))
    PROVE  \E w \in 1 .. Len(b) : \E k \in 1 .. Len(b[w]) :
              q = Start(b, w - 1) + k /\ q \in Region(b, w)
<1>1. PICK w \in DOMAIN b : q \in Region(b, w)
  BY RegionOf
<1>2. w \in 1 .. Len(b)
  BY DEF Coherent, Shaped
<1>3. PICK first : first = Start(b, w - 1)
  OBVIOUS
<1>4. first \in Nat /\ Region(b, w) = first + 1 .. first + Len(b[w]) /\ Len(b[w]) \in Nat
  BY <1>2, <1>3, RegionPlaces
<1>5. PICK k : k = q - first
  OBVIOUS
<1>6. k \in 1 .. Len(b[w]) /\ q = first + k
  BY <1>1, <1>4, <1>5
<1>7. QED
  BY <1>1, <1>2, <1>3, <1>6

\* The rebuilt vectors have the shapes they should.
LEMMA SortedShaped ==
    ASSUME NEW d, NEW b, NEW p, Coherent(d, b, p),
           NEW order, \A q \in 1 .. Len(d) : order[q] \in 1 .. Len(d)
    PROVE  /\ SortedD(d, order) \in Seq(Values) /\ Len(SortedD(d, order)) = Len(d)
           /\ SortedB(b) \in Seq(Seq(1 .. Len(d))) /\ Len(SortedB(b)) = Len(b)
           /\ SortedP(d, b) \in Seq(Offsets) /\ Len(SortedP(d, b)) = Len(d)
<1>1. /\ d \in Seq(Values) /\ Len(d) \in Nat /\ Len(d) <= Capacity
      /\ b \in Seq(Seq(1 .. Len(d))) /\ Len(b) \in Nat
      /\ DOMAIN d = 1 .. Len(d) /\ DOMAIN b = 1 .. Len(b)
  BY DEF Coherent, Shaped
<1>2. SortedD(d, order) \in Seq(Values) /\ Len(SortedD(d, order)) = Len(d)
  BY <1>1 DEF SortedD
<1>3. SortedB(b) \in Seq(Seq(1 .. Len(d))) /\ Len(SortedB(b)) = Len(b)
  <2>1. \A w \in 1 .. Len(b) : SortedB(b)[w] \in Seq(1 .. Len(d))
    <3> SUFFICES ASSUME NEW w \in 1 .. Len(b)
                 PROVE  SortedB(b)[w] \in Seq(1 .. Len(d))
      OBVIOUS
    <3>1. b[w] \in Seq(1 .. Len(d)) /\ Len(b[w]) \in Nat /\ DOMAIN b[w] = 1 .. Len(b[w])
      BY <1>1
    <3>2. \A k \in 1 .. Len(b[w]) : Start(b, w - 1) + k \in 1 .. Len(d)
      BY SortedPlace
    <3>3. SortedB(b)[w] = [k \in 1 .. Len(b[w]) |-> Start(b, w - 1) + k]
      BY <1>1, <3>1 DEF SortedB
    <3>4. QED
      BY <3>1, <3>2, <3>3
  <2>2. SortedB(b) = [w \in 1 .. Len(b) |-> SortedB(b)[w]]
    BY <1>1 DEF SortedB
  <2>3. QED
    BY <2>1, <2>2, <1>1
<1>4. SortedP(d, b) \in Seq(Offsets) /\ Len(SortedP(d, b)) = Len(d)
  <2>1. \A q \in 1 .. Len(d) : SortedP(d, b)[q] \in Offsets
    <3> SUFFICES ASSUME NEW q \in 1 .. Len(d)
                 PROVE  SortedP(d, b)[q] \in Offsets
      OBVIOUS
    <3>1. CASE q > Start(b, Len(b))
      BY <3>1, <1>1 DEF SortedP, Offsets
    <3>2. CASE ~ (q > Start(b, Len(b)))
      <4>1. Start(b, Len(b)) \in Nat
        BY <1>1, StartType
      <4>2. PICK w \in 1 .. Len(b) : \E k \in 1 .. Len(b[w]) : q = Start(b, w - 1) + k
        <5>1. q \in 1 .. Start(b, Len(b))
          BY <3>2, <4>1
        <5>2. QED
          BY <5>1, PlaceOffset
      <4>3. PICK k \in 1 .. Len(b[w]) : q = Start(b, w - 1) + k
        BY <4>2
      <4>4. SortedP(d, b)[q] = k
        BY <4>3, SortedPlace
      <4>5. k \in 1 .. Capacity
        BY SlotIsLive
      <4>6. QED
        BY <4>4, <4>5 DEF Offsets
    <3>3. QED
      BY <3>1, <3>2
  <2>2. SortedP(d, b) = [q \in 1 .. Len(d) |-> SortedP(d, b)[q]]
    BY <1>1 DEF SortedP
  <2>3. QED
    BY <2>1, <2>2, <1>1
<1>5. QED
  BY <1>2, <1>3, <1>4

\* Phases B and C, whatever order within its region each bucket's IDs are
\* moved in: the rebuilt index is coherent and the live entries are the first.
LEMMA SortCoherent ==
    ASSUME NEW d, NEW b, NEW p, Coherent(d, b, p),
           NEW order, \A q \in 1 .. Len(d) : order[q] \in 1 .. Len(d),
           \A w \in 1 .. Len(b) : \A q \in Region(b, w) :
               \E k \in 1 .. Len(b[w]) : order[q] = b[w][k]
    PROVE  /\ Coherent(SortedD(d, order), SortedB(b), SortedP(d, b))
           /\ LiveIn(SortedD(d, order), SortedP(d, b)) = 1 .. Start(b, Len(b))
<1> SUFFICES ASSUME NEW d2, d2 = SortedD(d, order),
                    NEW b2, b2 = SortedB(b),
                    NEW p2, p2 = SortedP(d, b)
             PROVE  Coherent(d2, b2, p2) /\ LiveIn(d2, p2) = 1 .. Start(b, Len(b))
  BY Zenon
<1>1. /\ d \in Seq(Values) /\ Len(d) \in Nat /\ Len(d) <= Capacity
      /\ b \in Seq(Seq(1 .. Len(d))) /\ Len(b) \in Nat /\ Len(b) <= BITS + 1
      /\ DOMAIN d = 1 .. Len(d) /\ DOMAIN b = 1 .. Len(b)
  BY DEF Coherent, Shaped
<1>2. /\ d2 \in Seq(Values) /\ Len(d2) = Len(d)
      /\ b2 \in Seq(Seq(1 .. Len(d))) /\ Len(b2) = Len(b)
      /\ p2 \in Seq(Offsets) /\ Len(p2) = Len(d)
  BY SortedShaped
<1>3. Shaped(d2, b2, p2)
  BY <1>1, <1>2 DEF Shaped
<1>4. \A w \in 1 .. Len(b) : Len(b2[w]) = Len(b[w]) /\
         \A k \in 1 .. Len(b[w]) : b2[w][k] = Start(b, w - 1) + k
  <2> SUFFICES ASSUME NEW w \in 1 .. Len(b)
               PROVE  Len(b2[w]) = Len(b[w]) /\
                        \A k \in 1 .. Len(b[w]) : b2[w][k] = Start(b, w - 1) + k
    OBVIOUS
  <2>1. Len(b[w]) \in Nat /\ DOMAIN b[w] = 1 .. Len(b[w])
    BY <1>1
  <2>2. b2[w] = [k \in 1 .. Len(b[w]) |-> Start(b, w - 1) + k]
    BY <1>1, <2>1 DEF SortedB
  <2>3. QED
    BY <2>1, <2>2
<1>5. ASSUME NEW w \in 1 .. Len(b), NEW k \in 1 .. Len(b[w])
      PROVE  /\ Start(b, w - 1) + k \in 1 .. Len(d)
             /\ p2[Start(b, w - 1) + k] = k
             /\ BitWidth(d2[Start(b, w - 1) + k]) + 1 = w
  <2>1. PICK q : q = Start(b, w - 1) + k
    OBVIOUS
  <2>2. q \in Region(b, w) /\ q \in 1 .. Len(d) /\ p2[q] = k
    <3>1. /\ Start(b, w - 1) + k \in 1 .. Len(d)
          /\ Start(b, w - 1) + k \in Region(b, w)
          /\ SortedP(d, b)[Start(b, w - 1) + k] = k
      BY SortedPlace
    <3>2. QED
      BY Zenon, <2>1, <3>1
  <2>3. d2[q] = d[order[q]]
    BY <1>1, <2>2 DEF SortedD
  <2>4. PICK j \in 1 .. Len(b[w]) : order[q] = b[w][j]
    BY <2>2
  <2>5. BitWidth(d[b[w][j]]) + 1 = w
    BY DEF Coherent, Routed
  <2>6. QED
    BY Zenon, <2>1, <2>2, <2>3, <2>4, <2>5
<1>6. Start(b, Len(b)) \in Nat /\ Start(b, Len(b)) <= Len(d)
  BY <1>1, StartType, SlotsCount, LiveInFinite
<1>7. ASSUME NEW q \in 1 .. Len(d), ~ (q <= Start(b, Len(b)))
      PROVE  p2[q] = REMOVED_POSITION
  <2>1. q > Start(b, Len(b))
    BY <1>6, <1>7
  <2>2. QED
    BY <2>1, <1>1 DEF SortedP
<1>8. ASSUME NEW q \in 1 .. Len(d), p2[q] # REMOVED_POSITION
      PROVE  q \in 1 .. Start(b, Len(b))
  BY <1>6, <1>7, <1>8
<1>9. Linked(d2, b2, p2)
  <2> SUFFICES ASSUME NEW q \in 1 .. Len(d), p2[q] # REMOVED_POSITION
               PROVE  /\ BitWidth(d2[q]) + 1 \in 1 .. Len(b2)
                      /\ p2[q] \in 1 .. Len(b2[BitWidth(d2[q]) + 1])
                      /\ b2[BitWidth(d2[q]) + 1][p2[q]] = q
    BY <1>2 DEF Linked
  <2>1. PICK w \in 1 .. Len(b) : \E k \in 1 .. Len(b[w]) : q = Start(b, w - 1) + k
    BY <1>8, PlaceOffset
  <2>2. PICK k \in 1 .. Len(b[w]) : q = Start(b, w - 1) + k
    BY <2>1
  <2>3. p2[q] = k /\ BitWidth(d2[q]) + 1 = w
    BY <1>5, <2>2
  <2>4. QED
    BY Zenon, <1>2, <1>4, <2>2, <2>3
<1>10. Routed(d2, b2, p2)
  <2> SUFFICES ASSUME NEW w \in 1 .. Len(b), NEW k \in 1 .. Len(b[w])
               PROVE  p2[b2[w][k]] = k /\ BitWidth(d2[b2[w][k]]) + 1 = w
    BY <1>2, <1>4 DEF Routed
  <2>1. b2[w][k] = Start(b, w - 1) + k
    BY <1>4
  <2>2. /\ p2[Start(b, w - 1) + k] = k
        /\ BitWidth(d2[Start(b, w - 1) + k]) + 1 = w
    BY <1>5
  <2>3. QED
    BY Zenon, <2>1, <2>2
<1>11. ASSUME NEW q \in 1 .. Start(b, Len(b))
       PROVE  q \in 1 .. Len(d) /\ p2[q] # REMOVED_POSITION
  <2>1. PICK w \in 1 .. Len(b) : \E k \in 1 .. Len(b[w]) : q = Start(b, w - 1) + k
    BY PlaceOffset
  <2>2. PICK k \in 1 .. Len(b[w]) : q = Start(b, w - 1) + k
    BY <2>1
  <2>3. p2[q] = k /\ q \in 1 .. Len(d)
    BY <1>5, <2>2
  <2>4. k \in 1 .. Capacity
    BY SlotIsLive
  <2>5. QED
    BY <2>3, <2>4, ClientAssumption, RemovedAssumption
<1>12. LiveIn(d2, p2) = 1 .. Start(b, Len(b))
  <2>1. LiveIn(d2, p2) = {q \in 1 .. Len(d) : p2[q] # REMOVED_POSITION}
    BY <1>2 DEF LiveIn
  <2>2. QED
    BY <2>1, <1>8, <1>11
<1>13. QED
  BY <1>3, <1>9, <1>10, <1>12 DEF Coherent

\* sarkar_sort, in any order it may bring storage into.
LEMMA SortedValid ==
    ASSUME NEW s, Valid(s), NEW order, IsSortOrder(s, order)
    PROVE  LET sorted == Sorted(s, order)
           IN  /\ Valid(sorted) /\ Len(sorted.data) = Len(s.data)
               /\ sorted = Record(SortedD(s.data, order), ShrinkTrailing(SortedB(s.buckets)),
                                  SortedP(s.data, s.buckets), s.live_len)
               /\ LiveIn(sorted.data, sorted.bucket_positions) = 1 .. Start(s.buckets, Len(s.buckets))
<1>1. PICK d, b, p, n : /\ s = Record(d, b, p, n)
                        /\ d = s.data /\ b = s.buckets
  BY DEF Valid
<1>2. Coherent(d, b, p) /\ Trimmed(b) /\ n = Cardinality(LiveIn(d, p))
  BY <1>1, ValidRecord
<1>3. /\ Len(d) \in Nat /\ DOMAIN d = 1 .. Len(d) /\ DOMAIN b = 1 .. Len(b)
      /\ b \in Seq(Seq(1 .. Len(d)))
  BY <1>2 DEF Coherent, Shaped
<1>4. \A w \in 1 .. Len(b) : \A q \in Region(b, w) :
         \E k \in 1 .. Len(b[w]) : order[q] = b[w][k]
  <2> SUFFICES ASSUME NEW w \in 1 .. Len(b), NEW q \in Region(b, w)
               PROVE  \E k \in 1 .. Len(b[w]) : order[q] = b[w][k]
    OBVIOUS
  <2>1. {order[r] : r \in Region(b, w)} = Range(b[w])
    BY <1>1, <1>3 DEF IsSortOrder, Fills
  <2>2. order[q] \in Range(b[w])
    BY <2>1
  <2>3. DOMAIN b[w] = 1 .. Len(b[w])
    BY <1>3
  <2>4. QED
    BY <2>2, <2>3 DEF Range
<1>5. \A q \in 1 .. Len(d) : order[q] \in 1 .. Len(d)
  <2> SUFFICES ASSUME NEW q \in 1 .. Len(d)
               PROVE  order[q] \in 1 .. Len(d)
    OBVIOUS
  <2>1. Start(b, Len(b)) \in Nat
    BY <1>2, SlotsCount, LiveInFinite
  <2>2. CASE q \in 1 .. Start(b, Len(b))
    <3>1. PICK w \in DOMAIN b : q \in Region(b, w)
      BY <1>2, <2>2, RegionOf
    <3>2. PICK k \in 1 .. Len(b[w]) : order[q] = b[w][k]
      BY <1>3, <1>4, <3>1
    <3>3. b[w] \in Seq(1 .. Len(d))
      BY <1>3
    <3>4. QED
      BY <3>2, <3>3
  <2>3. CASE q \in Start(b, Len(b)) + 1 .. Len(d)
    <3>1. order[q] \in RemovedIds(s)
      BY <1>1, <2>3 DEF IsSortOrder
    <3>2. QED
      BY <1>1, <1>3, <3>1 DEF RemovedIds
  <2>4. QED
    BY <1>3, <2>1, <2>2, <2>3
<1>6. /\ Coherent(SortedD(d, order), SortedB(b), SortedP(d, b))
      /\ LiveIn(SortedD(d, order), SortedP(d, b)) = 1 .. Start(b, Len(b))
  BY <1>2, <1>4, <1>5, SortCoherent
<1>7. Sorted(s, order)
        = Record(SortedD(d, order), ShrinkTrailing(SortedB(b)), SortedP(d, b), n)
  <2>1. s.live_len = n
    BY <1>1, RecordFields
  <2>2. Sorted(s, order)
          = Record(SortedD(s.data, order), ShrinkTrailing(SortedB(s.buckets)),
                   SortedP(s.data, s.buckets), s.live_len)
    BY Zenon DEF Sorted, ReboundPosition, Record, SortedD, SortedB, SortedP, WidthAt
  <2>3. QED
    BY Zenon, <1>1, <2>1, <2>2
<1>8. /\ Coherent(SortedD(d, order), ShrinkTrailing(SortedB(b)), SortedP(d, b))
      /\ Trimmed(ShrinkTrailing(SortedB(b)))
  BY <1>6, ShrinkCoherent
<1>9. Cardinality(1 .. Start(b, Len(b))) = n
  <2>1. Start(b, Len(b)) = n /\ n \in Nat
    BY <1>2, SlotsCount, LiveInFinite
  <2>2. QED
    BY <2>1, UpToCardinality
<1>10. Valid(Sorted(s, order))
  BY <1>6, <1>7, <1>8, <1>9, ValidRecord
<1>11. /\ Sorted(s, order).data = SortedD(d, order)
       /\ Sorted(s, order).bucket_positions = SortedP(d, b)
       /\ s.live_len = n
  BY <1>1, <1>7, RecordFields
<1>12. Len(SortedD(d, order)) = Len(d)
  BY <1>2, <1>5, SortedShaped
<1>13. QED
  BY <1>1, <1>6, <1>7, <1>10, <1>11, <1>12

-------------------------------------------------------------------------------
(* insert_bulk: what it makes of the index is a recursive function, which  *)
(* exists because each of its values follows from the one before.          *)

After(s, values, m, f) ==
    f = [n \in 0 .. m |-> IF n = 0 THEN s ELSE Inserted(f[n - 1], values[n])]

LEMMA AfterExtended ==
    ASSUME NEW s, NEW values, NEW m \in Nat, m # 0, NEW f, After(s, values, m - 1, f)
    PROVE  \E g : After(s, values, m, g)
<1> DEFINE g == [n \in 0 .. m |-> IF n = m THEN Inserted(f[m - 1], values[m]) ELSE f[n]]
<1>1. \A n \in 0 .. m : g[n] = IF n = 0 THEN s ELSE Inserted(g[n - 1], values[n])
  <2> SUFFICES ASSUME NEW n \in 0 .. m
               PROVE  g[n] = IF n = 0 THEN s ELSE Inserted(g[n - 1], values[n])
    OBVIOUS
  <2>1. CASE n = m
    <3>1. m - 1 \in 0 .. m /\ m - 1 # m
      OBVIOUS
    <3>2. g[m - 1] = f[m - 1] /\ g[m] = Inserted(f[m - 1], values[m])
      BY <3>1
    <3> HIDE DEF g
    <3>3. QED
      BY <2>1, <3>2
  <2>2. CASE n # m
    <3>1. n \in 0 .. m - 1
      BY <2>2
    <3>2. f[n] = IF n = 0 THEN s ELSE Inserted(f[n - 1], values[n])
      BY <3>1 DEF After
    <3>3. n # 0 => n - 1 \in 0 .. m /\ n - 1 # m
      OBVIOUS
    <3>4. g[n] = f[n] /\ (n # 0 => g[n - 1] = f[n - 1])
      BY <2>2, <3>3
    <3> HIDE DEF g
    <3>5. QED
      BY <3>2, <3>4
  <2>3. QED
    BY <2>1, <2>2
<1>2. g = [n \in 0 .. m |-> g[n]]
  OBVIOUS
<1> HIDE DEF g
<1>3. After(s, values, m, g)
  BY <1>1, <1>2 DEF After
<1>4. QED
  BY <1>3

LEMMA AfterExists ==
    ASSUME NEW s, NEW values, NEW m \in Nat
    PROVE  \E f : After(s, values, m, f)
<1> DEFINE missing == {n \in Nat : ~ \E f : After(s, values, n, f)}
<1> SUFFICES ASSUME missing # {}
             PROVE  FALSE
  OBVIOUS
<1>1. missing \in SUBSET Nat
  OBVIOUS
<1>2. PICK n \in missing : \A k \in missing : n <= k
  <2> HIDE DEF missing
  <2>1. QED
    BY <1>1, LeastNat
<1>3. CASE n = 0
  <2>1. PICK f : f = [k \in 0 .. 0 |-> s]
    OBVIOUS
  <2>2. After(s, values, 0, f)
    BY <2>1 DEF After
  <2>3. QED
    BY <1>3, <2>2
<1>4. CASE n # 0
  <2>1. n \in Nat /\ n - 1 \in Nat /\ ~ (n <= n - 1)
    BY <1>4
  <2>2. n - 1 \notin missing
    BY <1>2, <2>1
  <2>3. PICK f : After(s, values, n - 1, f)
    BY <2>1, <2>2
  <2>4. \E g : After(s, values, n, g)
    BY <1>4, <2>1, <2>3, AfterExtended
  <2>5. QED
    BY <2>4
<1>5. QED
  BY <1>3, <1>4

\* The live IDs once m more entries have been appended.
Extended(s, m) ==
    LiveIn(s.data, s.bucket_positions) \cup (Len(s.data) + 1 .. Len(s.data) + m)

LEMMA AfterValid ==
    ASSUME NEW s, Valid(s), NEW values \in Seq(Values),
           Len(s.data) + Len(values) <= Capacity,
           NEW f, After(s, values, Len(values), f), NEW m \in 0 .. Len(values)
    PROVE  /\ Valid(f[m]) /\ Len(f[m].data) = Len(s.data) + m
           /\ \A i \in 1 .. Len(s.data) : f[m].data[i] = s.data[i]
           /\ \A i \in 1 .. m : f[m].data[Len(s.data) + i] = values[i]
           /\ LiveIn(f[m].data, f[m].bucket_positions) = Extended(s, m)
<1> DEFINE same(n) == \A i \in 1 .. Len(s.data) : f[n].data[i] = s.data[i]
           added(n) == \A i \in 1 .. n : f[n].data[Len(s.data) + i] = values[i]
           live(n) == LiveIn(f[n].data, f[n].bucket_positions) = Extended(s, n)
           good(n) == /\ Valid(f[n]) /\ Len(f[n].data) = Len(s.data) + n
                      /\ same(n) /\ added(n) /\ live(n)
           bad == {n \in 0 .. Len(values) : ~ good(n)}
<1>1. Len(s.data) \in Nat /\ Len(values) \in Nat /\ Capacity \in Nat
  BY ClientAssumption DEF Valid, Coherent, Shaped
<1> SUFFICES ASSUME bad # {}
             PROVE  FALSE
  OBVIOUS
<1>2. bad \in SUBSET Nat
  BY <1>1
<1>3. PICK n \in bad : \A k \in bad : n <= k
  <2> HIDE DEF bad
  <2>1. QED
    BY <1>2, LeastNat
<1>4. n \in 0 .. Len(values) /\ ~ good(n)
  BY <1>3
<1>5. f[n] = IF n = 0 THEN s ELSE Inserted(f[n - 1], values[n])
  <2> HIDE DEF good, bad
  <2>1. QED
    BY <1>4 DEF After
<1>6. CASE n = 0
  <2>1. f[n] = s
    BY <1>5, <1>6
  <2>2. same(n) /\ added(n)
    BY <1>6, <2>1
  <2>3. live(n)
    <3>1. Len(s.data) + 1 .. Len(s.data) + n = {}
      BY <1>1, <1>6
    <3>2. QED
      BY <1>6, <2>1, <3>1 DEF Extended
  <2>4. Len(f[n].data) = Len(s.data) + n
    BY <1>1, <1>6, <2>1
  <2>5. QED
    BY <1>4, <2>1, <2>2, <2>3, <2>4
<1>7. CASE n # 0
  <2>1. n - 1 \in 0 .. Len(values) /\ ~ (n <= n - 1) /\ values[n] \in Values
    BY <1>1, <1>4, <1>7
  <2>2. good(n - 1)
    BY <1>3, <2>1
  <2>3. Len(f[n - 1].data) < Capacity /\ Len(f[n - 1].data) = Len(s.data) + (n - 1)
    BY <1>1, <1>4, <1>7, <2>2
  <2>4. PICK previous, next : /\ previous = f[n - 1] /\ next = Inserted(previous, values[n])
    OBVIOUS
  <2>5. /\ Valid(next) /\ Len(next.data) = Len(previous.data) + 1
        /\ next.data = Append(previous.data, values[n])
        /\ LiveIn(next.data, next.bucket_positions)
              = LiveIn(previous.data, previous.bucket_positions) \cup {Len(previous.data) + 1}
    BY <2>1, <2>2, <2>3, <2>4, InsertedValid
  <2>6. f[n] = next
    BY <1>5, <1>7, <2>4
  <2>7. previous.data \in Seq(Values) /\ Len(previous.data) = Len(s.data) + (n - 1)
    BY <2>2, <2>3, <2>4 DEF Valid, Coherent, Shaped
  <2>8. Len(f[n].data) = Len(s.data) + n
    BY <1>1, <1>4, <2>5, <2>6, <2>7
  <2>9. /\ \A i \in 1 .. Len(s.data) + (n - 1) : next.data[i] = previous.data[i]
        /\ next.data[Len(s.data) + n] = values[n]
    <3>1. \A i \in 1 .. Len(previous.data) : Append(previous.data, values[n])[i] = previous.data[i]
      BY <2>7
    <3>2. Append(previous.data, values[n])[Len(previous.data) + 1] = values[n]
      BY <2>7
    <3>3. Len(previous.data) + 1 = Len(s.data) + n
      BY <1>1, <1>4, <2>7
    <3>4. QED
      BY <2>5, <2>7, <3>1, <3>2, <3>3
  <2>10. same(n)
    <3>1. same(n - 1)
      BY <2>2
    <3>2. \A i \in 1 .. Len(s.data) : i \in 1 .. Len(s.data) + (n - 1)
      BY <1>1, <1>4, <1>7
    <3>3. QED
      BY <2>4, <2>6, <2>9, <3>1, <3>2
  <2>11. added(n)
    <3>1. SUFFICES ASSUME NEW i \in 1 .. n
                   PROVE  next.data[Len(s.data) + i] = values[i]
      BY <2>6
    <3>2. CASE i = n
      BY <2>9, <3>2
    <3>3. CASE i # n
      <4>1. i \in 1 .. n - 1 /\ Len(s.data) + i \in 1 .. Len(s.data) + (n - 1)
        BY <1>1, <1>4, <3>3
      <4>2. added(n - 1)
        BY <2>2
      <4>3. QED
        BY <2>4, <2>9, <4>1, <4>2
    <3>4. QED
      BY <3>2, <3>3
  <2>12. live(n)
    <3>1. live(n - 1)
      BY <2>2
    <3>2. (Len(s.data) + 1 .. Len(s.data) + (n - 1)) \cup {Len(s.data) + (n - 1) + 1}
            = Len(s.data) + 1 .. Len(s.data) + n
      <4>1. PICK length : length = Len(s.data)
        OBVIOUS
      <4>2. length \in Nat /\ n \in Nat /\ n >= 1
        BY <1>1, <1>4, <1>7, <4>1
      <4>3. (length + 1 .. length + (n - 1)) \cup {length + (n - 1) + 1} = length + 1 .. length + n
        BY <4>2
      <4>4. QED
        BY <4>1, <4>3
    <3>3. LiveIn(f[n].data, f[n].bucket_positions)
            = LiveIn(previous.data, previous.bucket_positions) \cup {Len(s.data) + (n - 1) + 1}
      BY <2>5, <2>6, <2>7
    <3>4. QED
      BY <2>4, <3>1, <3>2, <3>3 DEF Extended
  <2>13. good(n)
    BY <2>5, <2>6, <2>8, <2>10, <2>11, <2>12
  <2>14. QED
    BY <1>4, <2>13
<1>8. QED
  BY <1>6, <1>7

LEMMA InsertedAllValid ==
    ASSUME NEW s, Valid(s), NEW values \in Seq(Values),
           Len(s.data) + Len(values) <= Capacity
    PROVE  LET inserted == InsertedAll(s, values)
           IN  /\ Valid(inserted)
               /\ Len(inserted.data) = Len(s.data) + Len(values)
               /\ \A i \in 1 .. Len(s.data) : inserted.data[i] = s.data[i]
               /\ \A i \in 1 .. Len(values) : inserted.data[Len(s.data) + i] = values[i]
               /\ LiveIn(inserted.data, inserted.bucket_positions)
                     = Extended(s, Len(values))
<1>1. Len(values) \in Nat /\ Len(values) \in 0 .. Len(values)
  OBVIOUS
<1>2. PICK f : f = CHOOSE g : After(s, values, Len(values), g)
  OBVIOUS
<1>3. After(s, values, Len(values), f)
  BY <1>1, <1>2, AfterExists
<1>4. InsertedAll(s, values) = f[Len(values)]
  BY Zenon, <1>2 DEF InsertedAll, After
<1>5. PICK inserted, m : inserted = f[m] /\ m = Len(values)
  OBVIOUS
<1>6. /\ Valid(inserted) /\ Len(inserted.data) = Len(s.data) + m
      /\ \A i \in 1 .. Len(s.data) : inserted.data[i] = s.data[i]
      /\ \A i \in 1 .. m : inserted.data[Len(s.data) + i] = values[i]
      /\ LiveIn(inserted.data, inserted.bucket_positions) = Extended(s, m)
  <2>1. m \in 0 .. Len(values)
    BY <1>1, <1>5
  <2>2. /\ Valid(f[m]) /\ Len(f[m].data) = Len(s.data) + m
        /\ LiveIn(f[m].data, f[m].bucket_positions) = Extended(s, m)
    BY <1>3, <2>1, AfterValid
  <2>3. \A i \in 1 .. Len(s.data) : f[m].data[i] = s.data[i]
    BY <1>3, <2>1, AfterValid
  <2>4. \A i \in 1 .. m : f[m].data[Len(s.data) + i] = values[i]
    BY <1>3, <2>1, AfterValid
  <2>5. QED
    BY Zenon, <1>5, <2>2, <2>3, <2>4
<1>7. InsertedAll(s, values) = inserted
  BY <1>4, <1>5
<1>8. QED
  BY <1>5, <1>6, <1>7

-------------------------------------------------------------------------------
(* The inductive invariant: the index is valid between any two calls.      *)

IInv ==
    /\ Valid(self)
    /\ reply.id \in 0 .. Capacity
    /\ reply.ok \in BOOLEAN

LEMMA SelfFields ==
    /\ self.data = data /\ self.buckets = buckets
    /\ self.bucket_positions = bucket_positions /\ self.live_len = live_len
BY DEF self

\* A call that replaces the index by a valid one leaves it valid.
LEMMA BecomeValid ==
    ASSUME NEW s, Valid(s), Become(s)
    PROVE  Valid(self)'
<1>1. s = Record(s.data, s.buckets, s.bucket_positions, s.live_len)
  BY DEF Valid
<1>2. self' = Record(s.data, s.buckets, s.bucket_positions, s.live_len)
  BY DEF Become, self, Record
<1>3. self' = s
  BY Zenon, <1>1, <1>2
<1>4. QED
  BY <1>3 DEF Valid

LEMMA ReplyFields ==
    ASSUME NEW op, NEW args, NEW id, NEW ok
    PROVE  Reply(op, args, id, ok).id = id /\ Reply(op, args, id, ok).ok = ok
BY DEF Reply

LEMMA SameStore ==
    ASSUME Valid(self), UNCHANGED store
    PROVE  Valid(self)'
<1>1. self' = self
  BY DEF self, store
<1>2. QED
  BY <1>1 DEF Valid

\* What makes IInv hold after a call.
LEMMA Preserved ==
    ASSUME Valid(self)', NEW op, NEW args, NEW id \in 0 .. Capacity, NEW ok \in BOOLEAN,
           reply' = Reply(op, args, id, ok)
    PROVE  IInv'
BY ReplyFields DEF IInv

LEMMA LiveMembers ==
    ASSUME IInv, NEW id
    PROVE  /\ IsLive(id) => id \in LiveIn(self.data, self.bucket_positions)
           /\ LiveIds = LiveIn(data, bucket_positions)
<1>1. /\ data \in Seq(Values) /\ bucket_positions \in Seq(Offsets)
      /\ Len(bucket_positions) = Len(data) /\ Len(data) \in Nat
  BY SelfFields DEF IInv, Valid, Coherent, Shaped
<1>2. DOMAIN data = 1 .. Len(data) /\ DOMAIN bucket_positions = 1 .. Len(data)
  BY <1>1
<1>3. QED
  BY <1>2, SelfFields DEF IsLive, LiveIds, LiveIn

LEMMA InitHolds == Init => IInv
<1> SUFFICES ASSUME Init
             PROVE  IInv
  OBVIOUS
<1>1. /\ data = <<>> /\ buckets = <<>> /\ bucket_positions = <<>> /\ live_len = 0
      /\ reply = Reply("new", <<>>, NoId, TRUE)
  BY DEF Init
<1>2. Capacity \in Nat /\ BITS \in Nat
  BY ClientAssumption, BITSAssumption
<1>3. Coherent(<<>>, <<>>, <<>>)
  BY <1>2 DEF Coherent, Shaped, Linked, Routed
<1>4. Cardinality(LiveIn(<<>>, <<>>)) = 0
  <2>1. LiveIn(<<>>, <<>>) = {}
    BY DEF LiveIn
  <2>2. QED
    BY <2>1, FS_EmptySet
<1>5. Valid(Record(<<>>, <<>>, <<>>, 0))
  <2>1. Trimmed(<<>>)
    BY DEF Trimmed
  <2>2. QED
    BY <1>3, <1>4, <2>1, ValidRecord
<1>6. self = Record(<<>>, <<>>, <<>>, 0)
  BY <1>1 DEF self, Record
<1>7. reply.id = NoId /\ reply.ok = TRUE
  BY <1>1 DEF Reply
<1>8. Valid(self)
  BY Zenon, <1>5, <1>6
<1>9. NoId \in 0 .. Capacity
  BY <1>2 DEF NoId
<1>10. QED
  BY <1>7, <1>8, <1>9 DEF IInv

LEMMA RemoveEntryHolds ==
    ASSUME IInv, NEW id, NEW op, NEW args, RemoveEntry(id, op, args)
    PROVE  IInv'
<1>1. NoId \in 0 .. Capacity
  BY ClientAssumption DEF NoId
<1>2. CASE /\ IsLive(id)
           /\ Become(RemovedAt(self, id))
           /\ reply' = Reply(op, args, NoId, TRUE)
  <2>1. Valid(RemovedAt(self, id))
    BY <1>2, LiveMembers, RemovedAtValid DEF IInv
  <2>2. QED
    BY <1>1, <1>2, <2>1, BecomeValid, Preserved
<1>3. CASE /\ ~ IsLive(id)
           /\ reply' = Reply(op, args, NoId, FALSE)
           /\ UNCHANGED store
  <2>1. Valid(self)'
    BY <1>3, SameStore DEF IInv
  <2>2. QED
    BY <1>1, <1>3, <2>1, Preserved
<1>4. QED
  BY <1>2, <1>3 DEF RemoveEntry

LEMMA UpdateEntryHolds ==
    ASSUME IInv, NEW id, NEW new \in Values, NEW op, NEW args, UpdateEntry(id, new, op, args)
    PROVE  IInv'
<1>1. NoId \in 0 .. Capacity
  BY ClientAssumption DEF NoId
<1>2. CASE /\ IsLive(id)
           /\ Become(UpdatedAt(self, id, new))
           /\ reply' = Reply(op, args, NoId, TRUE)
  <2>1. Valid(UpdatedAt(self, id, new))
    BY <1>2, LiveMembers, UpdatedAtValid DEF IInv
  <2>2. QED
    BY <1>1, <1>2, <2>1, BecomeValid, Preserved
<1>3. CASE /\ ~ IsLive(id)
           /\ reply' = Reply(op, args, NoId, FALSE)
           /\ UNCHANGED store
  <2>1. Valid(self)'
    BY <1>3, SameStore DEF IInv
  <2>2. QED
    BY <1>1, <1>3, <2>1, Preserved
<1>4. QED
  BY <1>2, <1>3 DEF UpdateEntry

LEMMA NextHolds == IInv /\ [Next]_vars => IInv'
<1> SUFFICES ASSUME IInv, [Next]_vars
             PROVE  IInv'
  OBVIOUS
<1>1. /\ NoId \in 0 .. Capacity /\ Capacity \in Nat
      /\ Len(data) \in Nat /\ Valid(self) /\ self.data = data
  BY ClientAssumption, SelfFields DEF NoId, IInv, Valid, Coherent, Shaped
<1>2. ASSUME NEW value \in Values, Insert(value)
      PROVE  IInv'
  <2>1. /\ Len(data) < Capacity /\ Become(Inserted(self, value))
        /\ reply' = Reply("insert", <<value>>, Len(data) + 1, TRUE)
    BY <1>2 DEF Insert
  <2>2. Valid(Inserted(self, value))
    BY <1>1, <2>1, InsertedValid
  <2>3. Len(data) + 1 \in 0 .. Capacity
    BY <1>1, <2>1
  <2>4. QED
    BY <2>1, <2>2, <2>3, BecomeValid, Preserved
<1>3. ASSUME NEW values \in Bulks, InsertBulk(values)
      PROVE  IInv'
  <2>1. /\ Len(data) + Len(values) <= Capacity /\ Become(InsertedAll(self, values))
        /\ reply' = Reply("insert_bulk", values, NoId, TRUE)
    BY <1>3 DEF InsertBulk
  <2>2. values \in Seq(Values)
    BY ClientAssumption
  <2>3. Valid(InsertedAll(self, values))
    BY <1>1, <2>1, <2>2, InsertedAllValid
  <2>4. QED
    BY <1>1, <2>1, <2>3, BecomeValid, Preserved
<1>4. ASSUME NEW value \in Values, Remove(value)
      PROVE  IInv'
  BY <1>4, RemoveEntryHolds DEF Remove
<1>5. ASSUME NEW id \in Ids, RemoveAt(id)
      PROVE  IInv'
  BY <1>5, RemoveEntryHolds DEF RemoveAt
<1>6. ASSUME NEW id \in Ids, NEW new \in Values, UpdateAt(id, new)
      PROVE  IInv'
  BY <1>6, UpdateEntryHolds DEF UpdateAt
<1>7. ASSUME NEW old \in Values, NEW new \in Values, Update(old, new)
      PROVE  IInv'
  BY <1>7, UpdateEntryHolds DEF Update
<1>8. CASE SarkarSort
  <2>1. PICK order : IsSortOrder(self, order) /\ Become(Sorted(self, order))
    BY <1>8 DEF SarkarSort
  <2>2. Valid(Sorted(self, order))
    BY <1>1, <2>1, SortedValid
  <2>3. reply' = Reply("sarkar_sort", <<>>, NoId, TRUE)
    BY <1>8 DEF SarkarSort
  <2>4. QED
    BY <1>1, <2>1, <2>2, <2>3, BecomeValid, Preserved
<1>9. CASE UNCHANGED vars
  <2>1. Valid(self)'
    BY <1>1, <1>9, SameStore DEF vars, store
  <2>2. QED
    BY <1>9, <2>1 DEF vars, IInv
<1>10. QED
  BY <1>2, <1>3, <1>4, <1>5, <1>6, <1>7, <1>8, <1>9 DEF Next, StreamCall

\* Every reachable index is valid.
THEOREM IndexValid == Spec => []IInv
<1>1. Init => IInv
  BY InitHolds
<1>2. IInv /\ [Next]_vars => IInv'
  BY NextHolds
<1>3. QED
  BY <1>1, <1>2, PTL DEF Spec

-------------------------------------------------------------------------------
(* What the invariant means for the properties of the specification.       *)

LEMMA CoherentNow ==
    ASSUME IInv
    PROVE  /\ Coherent(data, buckets, bucket_positions) /\ Trimmed(buckets)
           /\ live_len = Cardinality(LiveIn(data, bucket_positions))
           /\ LiveIds = LiveIn(data, bucket_positions)
           /\ Len(data) \in Nat /\ Len(buckets) \in Nat /\ DOMAIN buckets = 1 .. Len(buckets)
           /\ reply.id \in 0 .. Capacity /\ reply.ok \in BOOLEAN
<1>1. /\ Coherent(data, buckets, bucket_positions) /\ Trimmed(buckets)
      /\ live_len = Cardinality(LiveIn(data, bucket_positions))
  BY SelfFields DEF IInv, Valid
<1>2. Len(data) \in Nat /\ Len(buckets) \in Nat /\ DOMAIN buckets = 1 .. Len(buckets)
  BY <1>1 DEF Coherent, Shaped
<1>3. QED
  BY <1>1, <1>2, LiveMembers DEF IInv

\* Every vector and the counter keep the ranges their types and the bound on
\* storage give them: no position is out of range of the map, no bucket lists
\* an ID past the end of storage, and one bucket per width is enough.
THEOREM TypeCorrect == Spec => []TypeOK
<1>1. IInv => TypeOK
  <2> SUFFICES ASSUME IInv
               PROVE  TypeOK
    OBVIOUS
  <2>1. /\ data \in Seq(Values) /\ Len(data) <= Capacity
        /\ bucket_positions \in Seq(1 .. Capacity \cup {REMOVED_POSITION})
        /\ Len(bucket_positions) = Len(data)
        /\ buckets \in Seq(Seq(1 .. Len(data))) /\ Len(buckets) <= BITS + 1
    BY CoherentNow DEF Coherent, Shaped, Offsets
  <2>2. live_len \in 0 .. Len(data)
    BY CoherentNow, LiveInFinite
  <2>3. QED
    BY <2>1, <2>2, CoherentNow DEF TypeOK
<1>2. QED
  BY <1>1, IndexValid, PTL

\* The position map and the buckets stay inverse to each other through every
\* history of inserts, swap_remove repairs, rebucketing updates and sorts.
THEOREM IndexConsistent == Spec => []Consistent
<1>1. IInv => Consistent
  <2> SUFFICES ASSUME IInv
               PROVE  Consistent
    OBVIOUS
  <2>1. \A w \in 1 .. Len(buckets) : DOMAIN buckets[w] = 1 .. Len(buckets[w])
    <3>1. buckets \in Seq(Seq(1 .. Len(data))) /\ Len(buckets) \in Nat
      BY CoherentNow DEF Coherent, Shaped
    <3>2. QED
      BY <3>1
  <2>2. ASSUME NEW id \in LiveIds
        PROVE  LET bucket == GetBucket(buckets, BitWidth(data[id]))
               IN  /\ bucket_positions[id] \in DOMAIN bucket
                   /\ bucket[bucket_positions[id]] = id
    <3>1. PICK width : width = BitWidth(data[id])
      OBVIOUS
    <3>2. /\ width + 1 \in 1 .. Len(buckets)
          /\ bucket_positions[id] \in 1 .. Len(buckets[width + 1])
          /\ buckets[width + 1][bucket_positions[id]] = id
      BY <3>1, CoherentNow DEF Coherent, Linked, LiveIn
    <3>3. width \in 0 .. BITS
      <4>1. data[id] \in U64
        BY CoherentNow, ClientAssumption DEF Coherent, Shaped, LiveIn
      <4>2. QED
        BY <3>1, <4>1, BitWidthType
    <3>4. width < Len(buckets)
      BY <3>2, <3>3, CoherentNow, BITSAssumption
    <3>5. GetBucket(buckets, width) = buckets[width + 1]
      BY <3>4 DEF GetBucket
    <3>6. QED
      BY <2>1, <3>1, <3>2, <3>5
  <2>3. ASSUME NEW w \in DOMAIN buckets, NEW k \in DOMAIN buckets[w]
        PROVE  LET id == buckets[w][k]
               IN  bucket_positions[id] = k /\ BitWidth(data[id]) + 1 = w
    BY <2>1, CoherentNow DEF Coherent, Routed
  <2>4. QED
    BY <2>2, <2>3 DEF Consistent
<1>2. QED
  BY <1>1, IndexValid, PTL

\* live_len is exact, and so are the counts sort_in_place asserts: the sum of
\* the bucket lengths is the number of live entries.
THEOREM CountsAgree == Spec => []LiveCount
<1>1. IInv => LiveCount
  BY CoherentNow, SlotsCount DEF LiveCount
<1>2. QED
  BY <1>1, IndexValid, PTL

\* The bucket vector never ends in an empty bucket: bucket_slots is that of
\* the widest live value, or 0.
THEOREM SlotsTrimmed == Spec => []TrailingTrimmed
<1>1. IInv => TrailingTrimmed
  <2> SUFFICES ASSUME IInv
               PROVE  TrailingTrimmed
    OBVIOUS
  <2> DEFINE widths == {0} \cup {BitWidth(data[id]) + 1 : id \in LiveIds}
  <2>1. Len(buckets) \in Nat
    BY CoherentNow
  <2>2. \A id \in LiveIds : BitWidth(data[id]) + 1 \in 1 .. Len(buckets)
    BY CoherentNow DEF Coherent, Linked, LiveIn
  <2>3. widths \in SUBSET (0 .. Len(buckets)) /\ widths # {}
    BY <2>1, <2>2
  <2>4. Len(buckets) \in widths
    <3>1. CASE Len(buckets) = 0
      BY <3>1
    <3>2. CASE Len(buckets) # 0
      <4>1. Len(buckets) \in 1 .. Len(buckets) /\ buckets # <<>>
        BY <2>1, <3>2
      <4>2. buckets[Len(buckets)] # <<>>
        BY <4>1, CoherentNow DEF Trimmed
      <4>3. buckets[Len(buckets)] \in Seq(1 .. Len(data))
        BY <4>1, CoherentNow DEF Coherent, Shaped
      <4>4. 1 \in 1 .. Len(buckets[Len(buckets)])
        BY <4>2, <4>3
      <4>5. PICK id : id = buckets[Len(buckets)][1]
        OBVIOUS
      <4>6. id \in LiveIds
        BY <4>1, <4>4, <4>5, CoherentNow, SlotIsLive DEF LiveIn
      <4>7. BitWidth(data[id]) + 1 = Len(buckets)
        BY <4>1, <4>4, <4>5, CoherentNow DEF Coherent, Routed
      <4>8. QED
        BY <4>6, <4>7
    <3>3. QED
      BY <3>1, <3>2
  <2>5. Max(widths) \in widths /\ Len(buckets) <= Max(widths)
    <3> HIDE DEF widths
    <3>1. QED
      BY <2>1, <2>3, <2>4, MaxOfBounded
  <2>6. Len(buckets) = Max(widths)
    <3> HIDE DEF widths
    <3>1. PICK greatest : greatest = Max(widths)
      OBVIOUS
    <3>2. greatest \in 0 .. Len(buckets) /\ Len(buckets) <= greatest
      BY <2>3, <2>5, <3>1
    <3>3. QED
      BY <2>1, <3>1, <3>2
  <2>7. QED
    BY <2>6 DEF TrailingTrimmed
<1>2. QED
  BY <1>1, IndexValid, PTL

-------------------------------------------------------------------------------
(* What sarkar_sort makes of storage.                                      *)

\* The places in front receive each live entry once.
LEMMA SortOrderLive ==
    ASSUME NEW s, Valid(s), NEW order, IsSortOrder(s, order),
           NEW live, live = LiveIn(s.data, s.bucket_positions),
           NEW n, n = Start(s.buckets, Len(s.buckets))
    PROVE  /\ n \in Nat /\ n <= Len(s.data) /\ n = Cardinality(live)
           /\ \A q \in 1 .. n : order[q] \in live
           /\ \A id \in live : \E q \in 1 .. n : order[q] = id
           /\ \A q, r \in 1 .. n : order[q] = order[r] => q = r
<1>1. PICK d, b, p : d = s.data /\ b = s.buckets /\ p = s.bucket_positions
  OBVIOUS
<1>2. Coherent(d, b, p) /\ live = LiveIn(d, p) /\ n = Start(b, Len(b))
  BY <1>1 DEF Valid
<1>3. /\ DOMAIN d = 1 .. Len(d) /\ DOMAIN b = 1 .. Len(b)
      /\ \A w \in 1 .. Len(b) : DOMAIN b[w] = 1 .. Len(b[w])
  <2>1. d \in Seq(Values) /\ b \in Seq(Seq(1 .. Len(d)))
    BY <1>2 DEF Coherent, Shaped
  <2>2. QED
    BY <2>1
<1>4. ASSUME NEW w \in 1 .. Len(b)
      PROVE  {order[q] : q \in Region(b, w)} = {b[w][k] : k \in 1 .. Len(b[w])}
  <2>1. {order[q] : q \in Region(b, w)} = Range(b[w])
    BY <1>1, <1>3 DEF IsSortOrder, Fills
  <2>2. QED
    BY <2>1, <1>3 DEF Range
<1>5. /\ n \in Nat /\ n <= Len(d) /\ n = Cardinality(live) /\ IsFiniteSet(live)
  BY <1>2, SlotsCount, LiveInFinite
<1>6. ASSUME NEW q \in 1 .. n
      PROVE  order[q] \in live
  <2>1. PICK w \in 1 .. Len(b) : q \in Region(b, w)
    BY <1>2, <1>3, RegionOf
  <2>2. PICK k \in 1 .. Len(b[w]) : order[q] = b[w][k]
    BY <1>4, <2>1
  <2>3. QED
    BY <1>2, <2>2, SlotIsLive DEF LiveIn
<1>7. ASSUME NEW id \in live
      PROVE  \E q \in 1 .. n : order[q] = id
  <2>1. PICK w \in 1 .. Len(b) : \E k \in 1 .. Len(b[w]) : b[w][k] = id
    BY <1>2 DEF LiveIn, Coherent, Linked
  <2>2. PICK q \in Region(b, w) : order[q] = id
    BY <1>4, <2>1
  <2>3. Region(b, w) \in SUBSET (1 .. n)
    BY <1>2, RegionPlaces
  <2>4. QED
    BY <2>2, <2>3
<1>8. ASSUME NEW q \in 1 .. n, NEW r \in 1 .. n, order[q] = order[r]
      PROVE  q = r
  <2> DEFINE front == [i \in 1 .. n |-> order[i]]
  <2>1. front \in Surjection(1 .. n, live)
    BY <1>6, <1>7 DEF Surjection
  <2>2. IsFiniteSet(1 .. n) /\ Cardinality(1 .. n) = n
    BY <1>5, UpToCardinality
  <2>3. front \in Injection(1 .. n, live)
    <3> HIDE DEF front
    <3>1. QED
      BY <1>5, <2>1, <2>2, FS_SurjSameCardinalityImpliesInj
  <2>4. \A i, j \in 1 .. n : front[i] = front[j] => i = j
    <3> HIDE DEF front
    <3>1. front \in [1 .. n -> live] /\ IsInjective(front)
      BY <2>3 DEF Injection
    <3>2. QED
      BY <3>1 DEF IsInjective
  <2>5. QED
    BY <1>8, <2>4
<1>9. QED
  BY <1>1, <1>5, <1>6, <1>7, <1>8

\* Their values ascend: within a region because Phase A has sorted its bucket,
\* from one region to the next because wider values are greater.
LEMMA SortOrderAscends ==
    ASSUME NEW s, Valid(s), NEW order, IsSortOrder(s, order),
           NEW i \in 1 .. Start(s.buckets, Len(s.buckets)),
           NEW j \in 1 .. Start(s.buckets, Len(s.buckets)), i < j
    PROVE  s.data[order[i]] <= s.data[order[j]]
<1>1. PICK d, b, p : d = s.data /\ b = s.buckets /\ p = s.bucket_positions
  OBVIOUS
<1>2. Coherent(d, b, p)
  BY <1>1 DEF Valid
<1>3. /\ DOMAIN d = 1 .. Len(d) /\ DOMAIN b = 1 .. Len(b) /\ Len(b) \in Nat
      /\ \A w \in 1 .. Len(b) : DOMAIN b[w] = 1 .. Len(b[w])
      /\ \A id \in 1 .. Len(d) : d[id] \in U64
  <2>1. d \in Seq(Values) /\ b \in Seq(Seq(1 .. Len(d)))
    BY <1>2 DEF Coherent, Shaped
  <2>2. QED
    BY <2>1, ClientAssumption
<1>4. ASSUME NEW w \in 1 .. Len(b), NEW q \in Region(b, w)
      PROVE  order[q] \in 1 .. Len(d) /\ BitWidth(d[order[q]]) + 1 = w
  <2>1. {order[r] : r \in Region(b, w)} = Range(b[w])
    BY <1>1, <1>3 DEF IsSortOrder, Fills
  <2>2. PICK k \in 1 .. Len(b[w]) : order[q] = b[w][k]
    BY <1>3, <2>1 DEF Range
  <2>3. QED
    BY <1>2, <2>2, SlotIsLive DEF Coherent, Routed
<1>5. PICK v \in 1 .. Len(b) : i \in Region(b, v)
  BY <1>1, <1>2, <1>3, RegionOf
<1>6. PICK w \in 1 .. Len(b) : j \in Region(b, w)
  BY <1>1, <1>2, <1>3, RegionOf
<1>7. CASE v = w
  <2>1. \A q, r \in Region(b, w) : q < r => d[order[q]] <= d[order[r]]
    BY <1>1, <1>3 DEF IsSortOrder, Fills
  <2>2. QED
    BY <1>1, <1>5, <1>6, <1>7, <2>1
<1>8. CASE v < w
  <2>1. BitWidth(d[order[i]]) < BitWidth(d[order[j]])
    <3>1. BitWidth(d[order[i]]) + 1 = v /\ BitWidth(d[order[j]]) + 1 = w
      BY <1>4, <1>5, <1>6
    <3>2. BitWidth(d[order[i]]) \in Nat /\ BitWidth(d[order[j]]) \in Nat
      BY BitWidthType, BITSAssumption
    <3>3. QED
      BY <1>8, <3>1, <3>2
  <2>2. d[order[i]] \in U64 /\ d[order[j]] \in U64
    BY <1>3, <1>4, <1>5, <1>6
  <2>3. d[order[i]] < d[order[j]]
    BY <2>1, <2>2, WiderIsGreater
  <2>4. QED
    BY <1>1, <2>2, <2>3 DEF U64
<1>9. CASE w < v
  <2>1. /\ Start(b, v - 1) + 1 <= i /\ j <= Start(b, w)
        /\ Start(b, v - 1) \in Nat /\ Start(b, w) \in Nat
    BY <1>2, <1>3, <1>5, <1>6, StartType DEF Region
  <2>2. Start(b, w) <= Start(b, v - 1)
    <3>1. v - 1 \in 0 .. Len(b) /\ w \in 0 .. v - 1
      BY <1>9
    <3>2. QED
      BY <1>2, <3>1, StartMonotone
  <2>3. QED
    BY <2>1, <2>2
<1>10. QED
  BY <1>7, <1>8, <1>9

-------------------------------------------------------------------------------
(* What the lookups find.                                                  *)

\* The bucket of a value's width: its slots are live entries, each recorded at
\* its place, and every live entry with the value has one of them.
LEMMA BucketHolds ==
    ASSUME IInv, NEW target \in Values,
           NEW bucket, bucket = GetBucket(buckets, BitWidth(target))
    PROVE  /\ bucket \in Seq(1 .. Len(data)) /\ Len(bucket) \in Nat
           /\ \A k \in 1 .. Len(bucket) :
                 bucket[k] \in LiveIds /\ bucket_positions[bucket[k]] = k
           /\ \A id \in LiveIds : data[id] = target =>
                 /\ bucket_positions[id] \in 1 .. Len(bucket)
                 /\ bucket[bucket_positions[id]] = id
<1>1. PICK width : width = BitWidth(target)
  OBVIOUS
<1>2. /\ width \in Nat /\ Len(buckets) \in Nat
      /\ bucket = IF width < Len(buckets) THEN buckets[width + 1] ELSE <<>>
  BY <1>1, BitWidthType, BITSAssumption, CoherentNow DEF GetBucket
<1>3. ASSUME NEW id \in LiveIds, data[id] = target
      PROVE  /\ width + 1 \in 1 .. Len(buckets)
             /\ bucket_positions[id] \in 1 .. Len(buckets[width + 1])
             /\ buckets[width + 1][bucket_positions[id]] = id
  BY <1>1, <1>3, CoherentNow DEF Coherent, Linked, LiveIn
<1>4. CASE width < Len(buckets)
  <2>1. width + 1 \in 1 .. Len(buckets) /\ bucket = buckets[width + 1]
    BY <1>2, <1>4
  <2>2. bucket \in Seq(1 .. Len(data))
    BY <2>1, CoherentNow DEF Coherent, Shaped
  <2>3. ASSUME NEW k \in 1 .. Len(bucket)
        PROVE  bucket[k] \in LiveIds /\ bucket_positions[bucket[k]] = k
    <3>1. bucket_positions[bucket[k]] = k
      BY <2>1, CoherentNow DEF Coherent, Routed
    <3>2. bucket[k] \in LiveIds
      BY <2>1, CoherentNow, SlotIsLive DEF LiveIn
    <3>3. QED
      BY <3>1, <3>2
  <2>4. QED
    BY <1>3, <2>1, <2>2, <2>3
<1>5. CASE ~ (width < Len(buckets))
  <2>1. bucket = <<>> /\ \A id \in LiveIds : data[id] # target
    BY <1>2, <1>3, <1>5
  <2>2. QED
    BY <2>1
<1>6. QED
  BY <1>4, <1>5

\* find returns a live entry with the value whenever there is one.
LEMMA FindEntry ==
    ASSUME IInv, NEW target \in Values
    PROVE  IF \E id \in LiveIds : data[id] = target
           THEN Find(target) \in LiveIds /\ data[Find(target)] = target
           ELSE Find(target) = NoId
<1>1. PICK bucket : bucket = GetBucket(buckets, BitWidth(target))
  OBVIOUS
<1>2. /\ bucket \in Seq(1 .. Len(data)) /\ Len(bucket) \in Nat
      /\ \A k \in 1 .. Len(bucket) : bucket[k] \in LiveIds
      /\ \A id \in LiveIds : data[id] = target =>
            /\ bucket_positions[id] \in 1 .. Len(bucket)
            /\ bucket[bucket_positions[id]] = id
  BY <1>1, BucketHolds
<1> DEFINE matches == {k \in 1 .. Len(bucket) : data[bucket[k]] = target}
<1>3. Find(target) = IF matches = {} THEN NoId ELSE bucket[Min(matches)]
  <2>1. DOMAIN bucket = 1 .. Len(bucket)
    BY <1>2
  <2>2. QED
    BY <1>1, <2>1 DEF Find
<1>4. CASE \E id \in LiveIds : data[id] = target
  <2>1. matches # {} /\ matches \in SUBSET Nat
    BY <1>2, <1>4
  <2>2. Min(matches) \in matches
    <3> HIDE DEF matches
    <3>1. \E k \in matches : \A j \in matches : k <= j
      BY <2>1, LeastNat
    <3>2. QED
      BY <3>1 DEF Min
  <2>3. PICK k \in 1 .. Len(bucket) : Find(target) = bucket[k] /\ data[bucket[k]] = target
    BY <1>3, <2>1, <2>2
  <2>4. QED
    BY <1>2, <1>4, <2>3
<1>5. CASE ~ \E id \in LiveIds : data[id] = target
  <2>1. matches = {}
    BY <1>2, <1>5
  <2>2. QED
    BY <1>3, <1>5, <2>1
<1>6. QED
  BY <1>4, <1>5

-------------------------------------------------------------------------------
(* The index as what its API promises.                                     *)

LEMMA LiveIdsAre == IInv => LiveIds = LiveIn(data, bucket_positions)
BY LiveMembers

LEMMA LiveIdsWillBe == IInv' => LiveIds' = LiveIn(data', bucket_positions')
<1>1. (IInv => LiveIds = LiveIn(data, bucket_positions))'
  BY LiveIdsAre, PTL
<1>2. QED
  BY <1>1 DEF LiveIn

\* A call that replaces the index.
LEMMA LiveAfter ==
    ASSUME IInv', NEW s, Become(s)
    PROVE  /\ data' = s.data
           /\ LiveIds' = LiveIn(s.data, s.bucket_positions)
BY LiveIdsWillBe DEF Become

\* A new index has no live entry.
LEMMA InitRefined == Init => Abstract!Init
<1> SUFFICES ASSUME Init
             PROVE  Abstract!Init
  OBVIOUS
<1>1. LiveIds = {} /\ Len(data) = 0
  BY DEF Init, LiveIds
<1>2. [id \in LiveIds |-> data[id]] = <<>>
  BY <1>1
<1>3. reply = Abstract!Reply("new", <<>>, 0, TRUE)
  BY DEF Init, Reply, NoId, Abstract!Reply
<1>4. QED
  BY <1>1, <1>2, <1>3 DEF Abstract!Init

\* What insert and insert_bulk do to storage and to the live IDs.
LEMMA InsertedEntry ==
    ASSUME IInv, IInv', NEW value \in Values, Insert(value)
    PROVE  data' = Append(data, value) /\ LiveIds' = LiveIds \cup {Len(data) + 1}
<1>1. Len(data) < Capacity /\ Become(Inserted(self, value))
  BY DEF Insert
<1>2. /\ Inserted(self, value).data = Append(data, value)
      /\ LiveIn(Inserted(self, value).data, Inserted(self, value).bucket_positions)
           = LiveIn(data, bucket_positions) \cup {Len(data) + 1}
  <2>1. Valid(self) /\ Len(self.data) < Capacity
    BY <1>1, SelfFields DEF IInv
  <2>2. QED
    BY <2>1, InsertedValid, SelfFields
<1>3. QED
  BY <1>1, <1>2, LiveAfter, LiveIdsAre

LEMMA InsertedEntries ==
    ASSUME IInv, IInv', NEW values \in Bulks, InsertBulk(values)
    PROVE  /\ values \in Seq(Values) /\ Len(data') = Len(data) + Len(values)
           /\ \A i \in 1 .. Len(data) : data'[i] = data[i]
           /\ \A i \in 1 .. Len(values) : data'[Len(data) + i] = values[i]
           /\ LiveIds' = LiveIds \cup (Len(data) + 1 .. Len(data) + Len(values))
<1>1. Len(data) + Len(values) <= Capacity /\ Become(InsertedAll(self, values))
  BY DEF InsertBulk
<1>2. values \in Seq(Values) /\ Len(data) \in Nat /\ Capacity \in Nat
  BY CoherentNow, ClientAssumption
<1>3. PICK inserted : inserted = InsertedAll(self, values)
  OBVIOUS
<1>4. /\ Len(inserted.data) = Len(data) + Len(values)
      /\ \A i \in 1 .. Len(data) : inserted.data[i] = data[i]
      /\ \A i \in 1 .. Len(values) : inserted.data[Len(data) + i] = values[i]
      /\ LiveIn(inserted.data, inserted.bucket_positions)
            = LiveIn(data, bucket_positions) \cup (Len(data) + 1 .. Len(data) + Len(values))
  <2>1. Valid(self) /\ self.data = data /\ self.bucket_positions = bucket_positions
    BY SelfFields DEF IInv
  <2>2. Len(self.data) + Len(values) <= Capacity
    BY <1>1, <2>1
  <2>3. /\ Len(inserted.data) = Len(data) + Len(values)
        /\ \A i \in 1 .. Len(data) : inserted.data[i] = data[i]
        /\ \A i \in 1 .. Len(values) : inserted.data[Len(data) + i] = values[i]
        /\ LiveIn(inserted.data, inserted.bucket_positions) = Extended(self, Len(values))
    BY <1>2, <1>3, <2>1, <2>2, InsertedAllValid
  <2>4. QED
    BY <2>1, <2>3 DEF Extended
<1>5. QED
  BY <1>1, <1>2, <1>3, <1>4, LiveAfter, LiveIdsAre

LEMMA InsertRefined ==
    ASSUME IInv, IInv', NEW value \in Values, Insert(value)
    PROVE  Abstract!Insert(value)
<1>1. Len(data) < Capacity /\ reply' = Reply("insert", <<value>>, Len(data) + 1, TRUE)
  BY DEF Insert
<1>2. data \in Seq(Values) /\ Len(data) \in Nat /\ Capacity \in Nat
  BY CoherentNow, ClientAssumption DEF Coherent, Shaped
<1>3. data' = Append(data, value) /\ LiveIds' = LiveIds \cup {Len(data) + 1}
  BY InsertedEntry
<1>4. LiveIds \in SUBSET (1 .. Len(data))
  BY LiveIdsAre DEF LiveIn
<1>5. /\ Len(data') = Len(data) + 1
      /\ \A i \in 1 .. Len(data) : data'[i] = data[i]
      /\ data'[Len(data) + 1] = value
  BY <1>2, <1>3
<1>6. [id \in LiveIds' |-> data'[id]]
        = [i \in LiveIds \cup (Len(data) + 1 .. Len(data) + 1) |->
             IF i <= Len(data) THEN [id \in LiveIds |-> data[id]][i]
             ELSE <<value>>[i - Len(data)]]
  <2>1. LiveIds' = LiveIds \cup (Len(data) + 1 .. Len(data) + 1)
    BY <1>2, <1>3
  <2>2. ASSUME NEW i \in LiveIds'
        PROVE  data'[i] = IF i <= Len(data) THEN [id \in LiveIds |-> data[id]][i]
                          ELSE <<value>>[i - Len(data)]
    <3>1. CASE i \in LiveIds
      BY <1>2, <1>4, <1>5, <3>1
    <3>2. CASE i = Len(data) + 1
      BY <1>2, <1>5, <3>2
    <3>3. QED
      BY <1>3, <3>1, <3>2
  <2>3. QED
    BY <2>1, <2>2
<1>7. Abstract!Extend(<<value>>)
  <2>1. Len(<<value>>) = 1
    OBVIOUS
  <2>2. Len(data) + Len(<<value>>) <= Capacity /\ Len(data') = Len(data) + Len(<<value>>)
    BY <1>1, <1>2, <1>5, <2>1
  <2>3. DOMAIN [id \in LiveIds |-> data[id]] = LiveIds
    OBVIOUS
  <2>4. QED
    BY <1>6, <2>1, <2>2, <2>3 DEF Abstract!Extend
<1>8. reply' = Abstract!Reply("insert", <<value>>, Len(data'), TRUE)
  BY <1>1, <1>5 DEF Reply, Abstract!Reply
<1>9. QED
  BY <1>7, <1>8 DEF Abstract!Insert

LEMMA InsertBulkRefined ==
    ASSUME IInv, IInv', NEW values \in Bulks, InsertBulk(values)
    PROVE  Abstract!InsertBulk(values)
<1>1. /\ Len(data) + Len(values) <= Capacity
      /\ reply' = Reply("insert_bulk", values, NoId, TRUE)
  BY DEF InsertBulk
<1>2. /\ values \in Seq(Values) /\ Len(values) \in Nat
      /\ data \in Seq(Values) /\ Len(data) \in Nat
  BY InsertedEntries, CoherentNow DEF Coherent, Shaped
<1>3. /\ Len(data') = Len(data) + Len(values)
      /\ \A i \in 1 .. Len(data) : data'[i] = data[i]
      /\ \A i \in 1 .. Len(values) : data'[Len(data) + i] = values[i]
  BY InsertedEntries
<1>4. LiveIds' = LiveIds \cup (Len(data) + 1 .. Len(data) + Len(values))
  BY InsertedEntries
<1>5. LiveIds \in SUBSET (1 .. Len(data))
  BY LiveIdsAre DEF LiveIn
<1>6. [id \in LiveIds' |-> data'[id]]
        = [i \in LiveIds \cup (Len(data) + 1 .. Len(data) + Len(values)) |->
             IF i <= Len(data) THEN [id \in LiveIds |-> data[id]][i] ELSE values[i - Len(data)]]
  <2>1. ASSUME NEW i \in LiveIds'
        PROVE  data'[i] = IF i <= Len(data) THEN [id \in LiveIds |-> data[id]][i]
                          ELSE values[i - Len(data)]
    <3>1. CASE i \in LiveIds
      <4>1. i \in 1 .. Len(data)
        BY <1>5, <3>1
      <4>2. data'[i] = data[i] /\ i <= Len(data)
        BY <1>2, <1>3, <1>4, <4>1
      <4>3. QED
        BY <3>1, <4>2
    <3>2. CASE i \in Len(data) + 1 .. Len(data) + Len(values)
      <4>1. PICK k : k = i - Len(data)
        OBVIOUS
      <4>2. k \in 1 .. Len(values) /\ i = Len(data) + k /\ ~ (i <= Len(data))
        BY <1>2, <3>2, <4>1
      <4>3. data'[i] = values[k]
        BY <1>3, <1>4, <4>2
      <4>4. QED
        BY <4>1, <4>2, <4>3
    <3>3. QED
      BY <1>4, <3>1, <3>2
  <2>2. QED
    BY <1>4, <2>1
<1>7. Abstract!Extend(values)
  <2>1. Len(data') = Len(data) + Len(values)
    BY <1>3, <1>4
  <2>2. DOMAIN [id \in LiveIds |-> data[id]] = LiveIds
    OBVIOUS
  <2>3. QED
    BY <1>1, <1>6, <2>1, <2>2 DEF Abstract!Extend
<1>8. reply' = Abstract!Reply("insert_bulk", values, 0, TRUE)
  BY <1>1 DEF Reply, NoId, Abstract!Reply
<1>9. QED
  BY <1>7, <1>8 DEF Abstract!InsertBulk

\* A live entry is removed: it is gone from the map, and nothing else changes.
LEMMA RemovedEntry ==
    ASSUME IInv, IInv', NEW id \in LiveIds, Become(RemovedAt(self, id))
    PROVE  /\ [i \in LiveIds' |-> data'[i]] = Abstract!Without(id)
           /\ data' = data /\ LiveIds' = LiveIds \ {id}
<1>1. id \in LiveIn(self.data, self.bucket_positions) /\ Valid(self)
  BY LiveIdsAre, SelfFields DEF IInv
<1>2. /\ RemovedAt(self, id).data = data
      /\ LiveIn(data, RemovedAt(self, id).bucket_positions) = LiveIds \ {id}
  BY <1>1, RemovedAtValid, SelfFields, LiveIdsAre
<1>3. data' = data /\ LiveIds' = LiveIds \ {id}
  BY <1>2, LiveAfter
<1>4. QED
  BY <1>3 DEF Abstract!Without

\* A live entry is given another value.
LEMMA UpdatedEntry ==
    ASSUME IInv, IInv', NEW id \in LiveIds, NEW new \in Values,
           Become(UpdatedAt(self, id, new))
    PROVE  /\ [i \in LiveIds' |-> data'[i]] = Abstract!With(id, new)
           /\ data' = [data EXCEPT ![id] = new] /\ LiveIds' = LiveIds
<1>1. id \in LiveIn(self.data, self.bucket_positions) /\ Valid(self)
  BY LiveIdsAre, SelfFields DEF IInv
<1>2. /\ UpdatedAt(self, id, new).data = [data EXCEPT ![id] = new]
      /\ LiveIn(UpdatedAt(self, id, new).data, UpdatedAt(self, id, new).bucket_positions)
           = LiveIds
  BY <1>1, UpdatedAtValid, SelfFields, LiveIdsAre
<1>3. data' = [data EXCEPT ![id] = new] /\ LiveIds' = LiveIds
  BY <1>2, LiveAfter
<1>4. LiveIds \in SUBSET (DOMAIN data)
  BY DEF LiveIds
<1>5. QED
  BY <1>3, <1>4 DEF Abstract!With

\* A call that is refused.
LEMMA RefusedEntry ==
    ASSUME NEW op, NEW args, reply' = Reply(op, args, NoId, FALSE), UNCHANGED store
    PROVE  Abstract!Refuse(op, args)
<1>1. data' = data /\ LiveIds' = LiveIds
  BY DEF store, LiveIds, IsLive
<1>2. [i \in LiveIds' |-> data'[i]] = [i \in LiveIds |-> data[i]]
  BY <1>1
<1>3. QED
  BY <1>1, <1>2 DEF Abstract!Refuse, Abstract!Reply, Reply, NoId

\* The live entries that hold a value, as the abstract index sees them.
LEMMA HoldingIs ==
    ASSUME NEW value
    PROVE  Abstract!Holding(value) = {id \in LiveIds : data[id] = value}
BY DEF Abstract!Holding

\* The ID find returns is that of a live entry, or no entry holds the value.
LEMMA FindHolding ==
    ASSUME IInv, NEW target \in Values
    PROVE  /\ IsLive(Find(target)) => Find(target) \in LiveIds /\ Find(target) \in Abstract!Holding(target)
           /\ ~ IsLive(Find(target)) => Abstract!Holding(target) = {}
<1>1. \A id : IsLive(id) => id \in LiveIds
  BY LiveMembers, LiveIdsAre, SelfFields
<1>2. \A id \in LiveIds : IsLive(id) /\ id \in 1 .. Len(data)
  BY LiveIdsAre DEF LiveIds, LiveIn
<1>3. NoId \notin LiveIds
  BY <1>2 DEF NoId
<1>4. QED
  BY <1>1, <1>2, <1>3, FindEntry, HoldingIs

LEMMA RemoveRefined ==
    ASSUME IInv, IInv', NEW target \in Values, Remove(target)
    PROVE  Abstract!Remove(target)
<1>1. PICK id : id = Find(target)
  OBVIOUS
<1>2. RemoveEntry(id, "remove", <<target>>)
  BY <1>1 DEF Remove
<1>3. CASE IsLive(id)
  <2>1. Become(RemovedAt(self, id)) /\ reply' = Reply("remove", <<target>>, NoId, TRUE)
    BY <1>2, <1>3 DEF RemoveEntry
  <2>2. id \in LiveIds /\ id \in Abstract!Holding(target)
    BY <1>1, <1>3, FindHolding
  <2>3. [i \in LiveIds' |-> data'[i]] = Abstract!Without(id) /\ data' = data
    BY <2>1, <2>2, RemovedEntry
  <2>4. QED
    BY <2>1, <2>2, <2>3 DEF Abstract!Remove, Abstract!Reply, Reply, NoId
<1>4. CASE ~ IsLive(id)
  <2>1. reply' = Reply("remove", <<target>>, NoId, FALSE) /\ UNCHANGED store
    BY <1>2, <1>4 DEF RemoveEntry
  <2>2. Abstract!Refuse("remove", <<target>>)
    BY <2>1, RefusedEntry
  <2>3. Abstract!Holding(target) = {}
    BY <1>1, <1>4, FindHolding
  <2>4. QED
    BY <2>2, <2>3 DEF Abstract!Remove
<1>5. QED
  BY <1>3, <1>4

LEMMA RemoveAtRefined ==
    ASSUME IInv, IInv', NEW id \in Ids, RemoveAt(id)
    PROVE  Abstract!RemoveAt(id)
<1>1. RemoveEntry(id, "remove_at", <<id>>)
  BY DEF RemoveAt
<1>2. IsLive(id) <=> id \in LiveIds
  BY LiveMembers, LiveIdsAre, SelfFields DEF LiveIds
<1>3. DOMAIN [i \in LiveIds |-> data[i]] = LiveIds
  OBVIOUS
<1>4. CASE IsLive(id)
  <2>1. Become(RemovedAt(self, id)) /\ reply' = Reply("remove_at", <<id>>, NoId, TRUE)
    BY <1>1, <1>4 DEF RemoveEntry
  <2>2. [i \in LiveIds' |-> data'[i]] = Abstract!Without(id) /\ data' = data
    BY <1>2, <1>4, <2>1, RemovedEntry
  <2>3. QED
    BY <1>2, <1>3, <1>4, <2>1, <2>2 DEF Abstract!RemoveAt, Abstract!Reply, Reply, NoId
<1>5. CASE ~ IsLive(id)
  <2>1. reply' = Reply("remove_at", <<id>>, NoId, FALSE) /\ UNCHANGED store
    BY <1>1, <1>5 DEF RemoveEntry
  <2>2. Abstract!Refuse("remove_at", <<id>>)
    BY <2>1, RefusedEntry
  <2>3. QED
    BY <1>2, <1>3, <1>5, <2>2 DEF Abstract!RemoveAt
<1>6. QED
  BY <1>4, <1>5

LEMMA UpdateRefined ==
    ASSUME IInv, IInv', NEW old \in Values, NEW new \in Values, Update(old, new)
    PROVE  Abstract!Update(old, new)
<1>1. PICK id : id = Find(old)
  OBVIOUS
<1>2. UpdateEntry(id, new, "update", <<old, new>>)
  BY <1>1 DEF Update
<1>3. CASE IsLive(id)
  <2>1. Become(UpdatedAt(self, id, new)) /\ reply' = Reply("update", <<old, new>>, NoId, TRUE)
    BY <1>2, <1>3 DEF UpdateEntry
  <2>2. id \in LiveIds /\ id \in Abstract!Holding(old)
    BY <1>1, <1>3, FindHolding
  <2>3. [i \in LiveIds' |-> data'[i]] = Abstract!With(id, new)
    BY <2>1, <2>2, UpdatedEntry
  <2>4. Len(data') = Len(data)
    <3>1. data \in Seq(Values) /\ data' = [data EXCEPT ![id] = new]
      BY <2>1, <2>2, UpdatedEntry, CoherentNow DEF Coherent, Shaped
    <3>2. QED
      BY <3>1
  <2>5. QED
    BY <2>1, <2>2, <2>3, <2>4 DEF Abstract!Update, Abstract!Reply, Reply, NoId
<1>4. CASE ~ IsLive(id)
  <2>1. reply' = Reply("update", <<old, new>>, NoId, FALSE) /\ UNCHANGED store
    BY <1>2, <1>4 DEF UpdateEntry
  <2>2. Abstract!Refuse("update", <<old, new>>)
    BY <2>1, RefusedEntry
  <2>3. Abstract!Holding(old) = {}
    BY <1>1, <1>4, FindHolding
  <2>4. QED
    BY <2>2, <2>3 DEF Abstract!Update
<1>5. QED
  BY <1>3, <1>4

LEMMA UpdateAtRefined ==
    ASSUME IInv, IInv', NEW id \in Ids, NEW new \in Values, UpdateAt(id, new)
    PROVE  Abstract!UpdateAt(id, new)
<1>1. UpdateEntry(id, new, "update_at", <<id, new>>)
  BY DEF UpdateAt
<1>2. IsLive(id) <=> id \in LiveIds
  BY LiveMembers, LiveIdsAre, SelfFields DEF LiveIds
<1>3. DOMAIN [i \in LiveIds |-> data[i]] = LiveIds
  OBVIOUS
<1>4. CASE IsLive(id)
  <2>1. Become(UpdatedAt(self, id, new)) /\ reply' = Reply("update_at", <<id, new>>, NoId, TRUE)
    BY <1>1, <1>4 DEF UpdateEntry
  <2>2. [i \in LiveIds' |-> data'[i]] = Abstract!With(id, new)
    BY <1>2, <1>4, <2>1, UpdatedEntry
  <2>3. Len(data') = Len(data)
    <3>1. data \in Seq(Values) /\ data' = [data EXCEPT ![id] = new]
      BY <1>2, <1>4, <2>1, UpdatedEntry, CoherentNow DEF Coherent, Shaped
    <3>2. QED
      BY <3>1
  <2>4. QED
    BY <1>2, <1>3, <1>4, <2>1, <2>2, <2>3 DEF Abstract!UpdateAt, Abstract!Reply, Reply, NoId
<1>5. CASE ~ IsLive(id)
  <2>1. reply' = Reply("update_at", <<id, new>>, NoId, FALSE) /\ UNCHANGED store
    BY <1>1, <1>5 DEF UpdateEntry
  <2>2. Abstract!Refuse("update_at", <<id, new>>)
    BY <2>1, RefusedEntry
  <2>3. QED
    BY <1>2, <1>3, <1>5, <2>2 DEF Abstract!UpdateAt
<1>6. QED
  BY <1>4, <1>5

\* The storage a sort leaves: each place in front has a live value, ascending.
LEMMA SortedStorage ==
    ASSUME IInv, IInv', NEW order, IsSortOrder(self, order), Become(Sorted(self, order)),
           NEW n, n = Start(buckets, Len(buckets))
    PROVE  /\ n \in Nat /\ n <= Len(data) /\ n = live_len /\ live_len' = live_len
           /\ Len(data') = Len(data) /\ LiveIds' = 1 .. n
           /\ \A q \in 1 .. Len(data) : data'[q] = data[order[q]]
<1>1. PICK sorted : sorted = Sorted(self, order)
  OBVIOUS
<1>2. /\ Valid(self) /\ self.data = data /\ self.buckets = buckets
      /\ self.bucket_positions = bucket_positions /\ self.live_len = live_len
  BY SelfFields DEF IInv
<1>3. /\ Valid(sorted) /\ Len(sorted.data) = Len(data)
      /\ sorted = Record(SortedD(data, order), ShrinkTrailing(SortedB(buckets)),
                         SortedP(data, buckets), live_len)
      /\ LiveIn(sorted.data, sorted.bucket_positions) = 1 .. n
  <2>1. /\ Valid(sorted) /\ Len(sorted.data) = Len(self.data)
        /\ sorted = Record(SortedD(self.data, order), ShrinkTrailing(SortedB(self.buckets)),
                           SortedP(self.data, self.buckets), self.live_len)
        /\ LiveIn(sorted.data, sorted.bucket_positions)
              = 1 .. Start(self.buckets, Len(self.buckets))
    BY <1>1, <1>2, SortedValid
  <2>2. QED
    BY <1>2, <2>1
<1>4. data' = sorted.data /\ LiveIds' = 1 .. n /\ live_len' = sorted.live_len
  BY <1>1, <1>3, LiveAfter DEF Become
<1>5. data' = SortedD(data, order) /\ live_len' = live_len
  BY <1>3, <1>4, RecordFields
<1>6. DOMAIN data = 1 .. Len(data)
  BY CoherentNow DEF Coherent, Shaped
<1>7. \A q \in 1 .. Len(data) : data'[q] = data[order[q]]
  BY <1>5, <1>6 DEF SortedD
<1>8. n \in Nat /\ n <= Len(data) /\ n = live_len
  BY CoherentNow, SlotsCount, LiveInFinite
<1>9. QED
  BY <1>3, <1>4, <1>5, <1>7, <1>8

LEMMA SortRefined ==
    ASSUME IInv, IInv', SarkarSort
    PROVE  Abstract!Sort
<1>1. PICK order : IsSortOrder(self, order) /\ Become(Sorted(self, order))
  BY DEF SarkarSort
<1>2. PICK n : n = Start(buckets, Len(buckets))
  OBVIOUS
<1>3. /\ n \in Nat /\ n <= Len(data) /\ Len(data') = Len(data) /\ LiveIds' = 1 .. n
      /\ \A q \in 1 .. Len(data) : data'[q] = data[order[q]]
  BY <1>1, <1>2, SortedStorage
<1>4. Valid(self) /\ self.data = data /\ self.buckets = buckets
      /\ self.bucket_positions = bucket_positions
  BY SelfFields DEF IInv
<1>5. /\ \A q \in 1 .. n : order[q] \in LiveIds
      /\ \A id \in LiveIds : \E q \in 1 .. n : order[q] = id
      /\ \A q, r \in 1 .. n : order[q] = order[r] => q = r
  BY <1>1, <1>2, <1>4, LiveIdsAre, SortOrderLive
<1> DEFINE from == [q \in 1 .. n |-> order[q]]
<1>6. from \in Abstract!Bijection(1 .. n, LiveIds)
  <2>1. from \in [1 .. n -> LiveIds]
    BY <1>5
  <2>2. \A q, r \in 1 .. n : from[q] = from[r] => q = r
    BY <1>5
  <2>3. \A id \in LiveIds : \E q \in 1 .. n : from[q] = id
    BY <1>5
  <2> HIDE DEF from
  <2>4. from \in Abstract!Injection(1 .. n, LiveIds)
    BY <2>1, <2>2 DEF Abstract!Injection, Abstract!IsInjective
  <2>5. from \in Abstract!Surjection(1 .. n, LiveIds)
    BY <2>1, <2>3 DEF Abstract!Surjection
  <2>6. QED
    BY <2>4, <2>5 DEF Abstract!Bijection
<1>7. [id \in LiveIds' |-> data'[id]]
        = [q \in 1 .. n |-> [id \in LiveIds |-> data[id]][from[q]]]
  <2>1. \A q \in 1 .. n : data'[q] = [id \in LiveIds |-> data[id]][from[q]]
    BY <1>3, <1>5
  <2>2. QED
    BY <1>3, <2>1
<1>8. \A i, j \in 1 .. n : i < j => data'[i] <= data'[j]
  <2> SUFFICES ASSUME NEW i \in 1 .. n, NEW j \in 1 .. n, i < j
               PROVE  data'[i] <= data'[j]
    OBVIOUS
  <2>1. data[order[i]] <= data[order[j]]
    BY <1>1, <1>2, <1>4, SortOrderAscends
  <2>2. QED
    BY <1>3, <2>1
<1>9. Abstract!IsAscending([id \in LiveIds' |-> data'[id]])
  BY <1>3, <1>8 DEF Abstract!IsAscending
<1>10. reply' = Abstract!Reply("sarkar_sort", <<>>, 0, TRUE)
  BY DEF SarkarSort, Reply, NoId, Abstract!Reply
<1>11. DOMAIN [id \in LiveIds |-> data[id]] = LiveIds /\ n \in 0 .. Len(data)
  BY <1>3
<1> HIDE DEF from
<1>12. \E m \in 0 .. Len(data) : \E f \in Abstract!Bijection(1 .. m, DOMAIN [id \in LiveIds |-> data[id]]) :
          [id \in LiveIds' |-> data'[id]] = [q \in 1 .. m |-> [id \in LiveIds |-> data[id]][f[q]]]
  <2>1. from \in Abstract!Bijection(1 .. n, DOMAIN [id \in LiveIds |-> data[id]])
    BY <1>6, <1>11
  <2>2. QED
    BY Zenon, <1>7, <1>11, <2>1
<1>13. (Len(data))' = Len(data)
  BY <1>3
<1>14. QED
  BY <1>9, <1>10, <1>12, <1>13 DEF Abstract!Sort

\* Every step of the index is a step of what its API promises.
LEMMA NextRefined == IInv /\ IInv' /\ [Next]_vars => [Abstract!Next]_(Abstract!vars)
<1> SUFFICES ASSUME IInv, IInv', [Next]_vars
             PROVE  [Abstract!Next]_(Abstract!vars)
  OBVIOUS
<1>1. ASSUME NEW value \in Values, Insert(value)
      PROVE  Abstract!Next
  BY <1>1, InsertRefined DEF Abstract!Next
<1>2. ASSUME NEW value \in Values, Remove(value)
      PROVE  Abstract!Next
  BY <1>2, RemoveRefined DEF Abstract!Next
<1>3. ASSUME NEW values \in Bulks, InsertBulk(values)
      PROVE  Abstract!Next
  BY <1>3, InsertBulkRefined DEF Abstract!Next
<1>4. Ids = Abstract!Ids
  BY DEF Ids, Abstract!Ids
<1>5. ASSUME NEW id \in Ids, RemoveAt(id)
      PROVE  Abstract!Next
  BY <1>4, <1>5, RemoveAtRefined DEF Abstract!Next
<1>6. ASSUME NEW id \in Ids, NEW new \in Values, UpdateAt(id, new)
      PROVE  Abstract!Next
  BY <1>4, <1>6, UpdateAtRefined DEF Abstract!Next
<1>7. ASSUME NEW old \in Values, NEW new \in Values, Update(old, new)
      PROVE  Abstract!Next
  BY <1>7, UpdateRefined DEF Abstract!Next
<1>8. CASE SarkarSort
  BY <1>8, SortRefined DEF Abstract!Next
<1>9. CASE UNCHANGED vars
  <2>1. data' = data /\ LiveIds' = LiveIds /\ reply' = reply
    BY <1>9 DEF vars, LiveIds, IsLive
  <2>2. [id \in LiveIds' |-> data'[id]] = [id \in LiveIds |-> data[id]]
    BY <2>1
  <2>3. QED
    BY <2>1, <2>2 DEF Abstract!vars
<1>10. QED
  BY <1>1, <1>2, <1>3, <1>5, <1>6, <1>7, <1>8, <1>9 DEF Next, StreamCall

\* The index is what its API promises: seen as a partial map from IDs to values
\* it starts empty, and each call does to the map, and returns, what LiveIndex
\* says, whatever the buckets and the position map have been through.
THEOREM IndexRefined == Spec => RefinesLiveIndex
<1>1. Init => Abstract!Init
  BY InitRefined
<1>2. IInv /\ IInv' /\ [Next]_vars => [Abstract!Next]_(Abstract!vars)
  BY NextRefined
<1>3. QED
  BY <1>1, <1>2, IndexValid, PTL DEF Spec, RefinesLiveIndex, Abstract!Spec

-------------------------------------------------------------------------------
(* find_all: the list of matches is a recursive function too.              *)

FoundAlong(d, bucket, target, m, f) ==
    f = [k \in 0 .. m |->
            IF k = 0 THEN <<>>
            ELSE IF d[bucket[k]] = target THEN Append(f[k - 1], bucket[k])
            ELSE f[k - 1]]

LEMMA FoundExtended ==
    ASSUME NEW d, NEW bucket, NEW target, NEW m \in Nat, m # 0,
           NEW f, FoundAlong(d, bucket, target, m - 1, f)
    PROVE  \E g : FoundAlong(d, bucket, target, m, g)
<1> DEFINE last == IF d[bucket[m]] = target THEN Append(f[m - 1], bucket[m]) ELSE f[m - 1]
           g == [k \in 0 .. m |-> IF k = m THEN last ELSE f[k]]
<1>1. \A k \in 0 .. m :
         g[k] = IF k = 0 THEN <<>>
                ELSE IF d[bucket[k]] = target THEN Append(g[k - 1], bucket[k])
                ELSE g[k - 1]
  <2> SUFFICES ASSUME NEW k \in 0 .. m
               PROVE  g[k] = IF k = 0 THEN <<>>
                             ELSE IF d[bucket[k]] = target THEN Append(g[k - 1], bucket[k])
                             ELSE g[k - 1]
    OBVIOUS
  <2>1. CASE k = m
    <3>1. m - 1 \in 0 .. m /\ m - 1 # m
      OBVIOUS
    <3>2. g[m - 1] = f[m - 1] /\ g[m] = last
      BY <3>1
    <3> HIDE DEF g
    <3>3. QED
      BY <2>1, <3>2
  <2>2. CASE k # m
    <3>1. k \in 0 .. m - 1
      BY <2>2
    <3>2. f[k] = IF k = 0 THEN <<>>
                 ELSE IF d[bucket[k]] = target THEN Append(f[k - 1], bucket[k])
                 ELSE f[k - 1]
      BY <3>1 DEF FoundAlong
    <3>3. k # 0 => k - 1 \in 0 .. m /\ k - 1 # m
      OBVIOUS
    <3>4. g[k] = f[k] /\ (k # 0 => g[k - 1] = f[k - 1])
      BY <2>2, <3>3
    <3> HIDE DEF g
    <3>5. QED
      BY <3>2, <3>4
  <2>3. QED
    BY <2>1, <2>2
<1>2. g = [k \in 0 .. m |-> g[k]]
  OBVIOUS
<1> HIDE DEF g
<1>3. FoundAlong(d, bucket, target, m, g)
  BY <1>1, <1>2 DEF FoundAlong
<1>4. QED
  BY <1>3

LEMMA FoundExists ==
    ASSUME NEW d, NEW bucket, NEW target, NEW m \in Nat
    PROVE  \E f : FoundAlong(d, bucket, target, m, f)
<1> DEFINE missing == {n \in Nat : ~ \E f : FoundAlong(d, bucket, target, n, f)}
<1> SUFFICES ASSUME missing # {}
             PROVE  FALSE
  OBVIOUS
<1>1. missing \in SUBSET Nat
  OBVIOUS
<1>2. PICK n \in missing : \A k \in missing : n <= k
  <2> HIDE DEF missing
  <2>1. QED
    BY <1>1, LeastNat
<1>3. CASE n = 0
  <2>1. PICK f : f = [k \in 0 .. 0 |-> <<>>]
    OBVIOUS
  <2>2. FoundAlong(d, bucket, target, 0, f)
    BY <2>1 DEF FoundAlong
  <2>3. QED
    BY <1>3, <2>2
<1>4. CASE n # 0
  <2>1. n \in Nat /\ n - 1 \in Nat /\ ~ (n <= n - 1)
    BY <1>4
  <2>2. n - 1 \notin missing
    BY <1>2, <2>1
  <2>3. PICK f : FoundAlong(d, bucket, target, n - 1, f)
    BY <2>1, <2>2
  <2>4. \E g : FoundAlong(d, bucket, target, n, g)
    BY <1>4, <2>1, <2>3, FoundExtended
  <2>5. QED
    BY <2>4
<1>5. QED
  BY <1>3, <1>4

\* The matches among the first slots of a bucket.
Matching(d, bucket, target, m) == {k \in 1 .. m : d[bucket[k]] = target}

\* The list names each match once, and nothing else.
Lists(list, d, bucket, target, m) ==
    /\ list \in Seq(Nat)
    /\ \A i \in 1 .. Len(list) : \E k \in Matching(d, bucket, target, m) : list[i] = bucket[k]
    /\ \A k \in Matching(d, bucket, target, m) : \E i \in 1 .. Len(list) : list[i] = bucket[k]
    /\ \A i, j \in 1 .. Len(list) : list[i] = list[j] => i = j

LEMMA FoundLists ==
    ASSUME NEW d, NEW bucket \in Seq(Nat), NEW target,
           \A j, k \in 1 .. Len(bucket) : bucket[j] = bucket[k] => j = k,
           NEW f, FoundAlong(d, bucket, target, Len(bucket), f),
           NEW m \in 0 .. Len(bucket)
    PROVE  Lists(f[m], d, bucket, target, m)
<1> DEFINE bad == {n \in 0 .. Len(bucket) : ~ Lists(f[n], d, bucket, target, n)}
<1>1. Len(bucket) \in Nat
  OBVIOUS
<1> SUFFICES ASSUME bad # {}
             PROVE  FALSE
  OBVIOUS
<1>2. bad \in SUBSET Nat
  BY <1>1
<1>3. PICK n \in bad : \A k \in bad : n <= k
  <2> HIDE DEF bad
  <2>1. QED
    BY <1>2, LeastNat
<1>4. n \in 0 .. Len(bucket) /\ ~ Lists(f[n], d, bucket, target, n)
  BY <1>3
<1>5. f[n] = IF n = 0 THEN <<>>
             ELSE IF d[bucket[n]] = target THEN Append(f[n - 1], bucket[n])
             ELSE f[n - 1]
  BY <1>4 DEF FoundAlong
<1>6. CASE n = 0
  <2>1. f[n] = <<>> /\ Matching(d, bucket, target, n) = {}
    BY <1>5, <1>6 DEF Matching
  <2>2. Lists(<<>>, d, bucket, target, n)
    BY <2>1 DEF Lists
  <2>3. QED
    BY <1>4, <2>1, <2>2
<1>7. CASE n # 0
  <2>1. n - 1 \in 0 .. Len(bucket) /\ ~ (n <= n - 1) /\ n \in 1 .. Len(bucket)
    BY <1>1, <1>4, <1>7
  <2>2. PICK shorter : shorter = f[n - 1]
    OBVIOUS
  <2>3. Lists(shorter, d, bucket, target, n - 1)
    BY <1>3, <2>1, <2>2
  <2>4. CASE d[bucket[n]] = target
    <3>1. PICK list : list = Append(shorter, bucket[n])
      OBVIOUS
    <3>2. f[n] = list
      BY <1>5, <1>7, <2>2, <2>4, <3>1
    <3>3. Matching(d, bucket, target, n) = Matching(d, bucket, target, n - 1) \cup {n}
      BY <1>1, <2>1, <2>4 DEF Matching
    <3>4. /\ shorter \in Seq(Nat) /\ Len(shorter) \in Nat /\ bucket[n] \in Nat
          /\ list \in Seq(Nat) /\ Len(list) = Len(shorter) + 1
          /\ \A i \in 1 .. Len(shorter) : list[i] = shorter[i]
          /\ list[Len(shorter) + 1] = bucket[n]
      BY <2>1, <2>3, <3>1 DEF Lists
    <3>5. \A i \in 1 .. Len(shorter) : shorter[i] # bucket[n]
      <4>1. SUFFICES ASSUME NEW i \in 1 .. Len(shorter)
                     PROVE  shorter[i] # bucket[n]
        OBVIOUS
      <4>2. PICK k \in Matching(d, bucket, target, n - 1) : shorter[i] = bucket[k]
        BY <2>3 DEF Lists
      <4>3. k \in 1 .. Len(bucket) /\ k # n
        BY <1>1, <2>1, <4>2 DEF Matching
      <4>4. QED
        BY <2>1, <4>2, <4>3
    <3>6. \A i \in 1 .. Len(list) : i \in 1 .. Len(shorter) \/ i = Len(shorter) + 1
      BY <3>4
    <3>7. \A i \in 1 .. Len(list) :
             \E k \in Matching(d, bucket, target, n) : list[i] = bucket[k]
      <4>1. SUFFICES ASSUME NEW i \in 1 .. Len(list)
                     PROVE  \E k \in Matching(d, bucket, target, n) : list[i] = bucket[k]
        OBVIOUS
      <4>2. CASE i \in 1 .. Len(shorter)
        <5>1. PICK k \in Matching(d, bucket, target, n - 1) : shorter[i] = bucket[k]
          BY <2>3, <4>2 DEF Lists
        <5>2. k \in Matching(d, bucket, target, n) /\ list[i] = bucket[k]
          BY <3>3, <3>4, <4>2, <5>1
        <5>3. QED
          BY <5>2
      <4>3. CASE i = Len(shorter) + 1
        <5>1. n \in Matching(d, bucket, target, n) /\ list[i] = bucket[n]
          BY <3>3, <3>4, <4>3
        <5>2. QED
          BY <5>1
      <4>4. QED
        BY <3>6, <4>2, <4>3
    <3>8. \A k \in Matching(d, bucket, target, n) :
             \E i \in 1 .. Len(list) : list[i] = bucket[k]
      <4>1. SUFFICES ASSUME NEW k \in Matching(d, bucket, target, n)
                     PROVE  \E i \in 1 .. Len(list) : list[i] = bucket[k]
        OBVIOUS
      <4>2. CASE k = n
        <5>1. Len(shorter) + 1 \in 1 .. Len(list)
          BY <3>4
        <5>2. list[Len(shorter) + 1] = bucket[k]
          BY <3>4, <4>2
        <5>3. QED
          BY <5>1, <5>2
      <4>3. CASE k \in Matching(d, bucket, target, n - 1)
        <5>1. PICK i \in 1 .. Len(shorter) : shorter[i] = bucket[k]
          BY <2>3, <4>3 DEF Lists
        <5>2. QED
          BY <3>4, <5>1
      <4>4. QED
        BY <3>3, <4>2, <4>3
    <3>9. \A i, j \in 1 .. Len(list) : list[i] = list[j] => i = j
      <4>1. \A i, j \in 1 .. Len(shorter) : shorter[i] = shorter[j] => i = j
        BY <2>3 DEF Lists
      <4>2. QED
        BY <3>4, <3>5, <3>6, <4>1
    <3>10. Lists(list, d, bucket, target, n)
      BY <3>4, <3>7, <3>8, <3>9 DEF Lists
    <3>11. QED
      BY <1>4, <3>2, <3>10
  <2>5. CASE d[bucket[n]] # target
    <3>1. f[n] = shorter
      BY <1>5, <1>7, <2>2, <2>5
    <3>2. Matching(d, bucket, target, n) = Matching(d, bucket, target, n - 1)
      BY <1>1, <2>1, <2>5 DEF Matching
    <3>3. Lists(shorter, d, bucket, target, n)
      BY <2>3, <3>2 DEF Lists
    <3>4. QED
      BY <1>4, <3>1, <3>3
  <2>6. QED
    BY <2>4, <2>5
<1>8. QED
  BY <1>6, <1>7

\* find_all lists the live entries with the value, each of them once.
LEMMA FindAllLists ==
    ASSUME IInv, NEW target \in Values,
           NEW holding, holding = {id \in LiveIds : data[id] = target}
    PROVE  Range(FindAll(target)) = holding /\ Len(FindAll(target)) = Cardinality(holding)
<1>1. PICK bucket : bucket = GetBucket(buckets, BitWidth(target))
  OBVIOUS
<1>2. /\ bucket \in Seq(1 .. Len(data)) /\ Len(bucket) \in Nat
      /\ \A k \in 1 .. Len(bucket) :
            bucket[k] \in LiveIds /\ bucket_positions[bucket[k]] = k
      /\ \A id \in LiveIds : data[id] = target =>
            /\ bucket_positions[id] \in 1 .. Len(bucket)
            /\ bucket[bucket_positions[id]] = id
  BY <1>1, BucketHolds
<1>3. PICK f : f = CHOOSE g : FoundAlong(data, bucket, target, Len(bucket), g)
  OBVIOUS
<1>4. FoundAlong(data, bucket, target, Len(bucket), f)
  BY <1>2, <1>3, FoundExists
<1>5. FindAll(target) = f[Len(bucket)]
  BY Zenon, <1>1, <1>3 DEF FindAll, FoundAlong
<1>6. PICK list : list = FindAll(target)
  OBVIOUS
<1>7. Lists(list, data, bucket, target, Len(bucket))
  <2>1. bucket \in Seq(Nat)
    BY <1>2
  <2>2. \A j, k \in 1 .. Len(bucket) : bucket[j] = bucket[k] => j = k
    BY <1>2
  <2>3. Len(bucket) \in 0 .. Len(bucket)
    BY <1>2
  <2>4. Lists(f[Len(bucket)], data, bucket, target, Len(bucket))
    BY <1>4, <2>1, <2>2, <2>3, FoundLists
  <2>5. QED
    BY <1>5, <1>6, <2>4
<1>8. /\ list \in Seq(Nat) /\ DOMAIN list = 1 .. Len(list) /\ Len(list) \in Nat
      /\ \A i, j \in 1 .. Len(list) : list[i] = list[j] => i = j
  BY <1>7 DEF Lists
<1>9. \A i \in 1 .. Len(list) : list[i] \in holding
  <2> SUFFICES ASSUME NEW i \in 1 .. Len(list)
               PROVE  list[i] \in holding
    OBVIOUS
  <2>1. PICK k \in Matching(data, bucket, target, Len(bucket)) : list[i] = bucket[k]
    BY <1>7 DEF Lists
  <2>2. QED
    BY <1>2, <2>1 DEF Matching
<1>10. \A id \in holding : \E i \in 1 .. Len(list) : list[i] = id
  <2> SUFFICES ASSUME NEW id \in holding
               PROVE  \E i \in 1 .. Len(list) : list[i] = id
    OBVIOUS
  <2>1. PICK k : k = bucket_positions[id]
    OBVIOUS
  <2>2. k \in Matching(data, bucket, target, Len(bucket)) /\ bucket[k] = id
    BY <1>2, <2>1 DEF Matching
  <2>3. QED
    BY <1>7, <2>2 DEF Lists
<1>11. Range(list) = holding
  BY <1>8, <1>9, <1>10 DEF Range
<1>12. Cardinality(holding) = Len(list)
  <2>1. list \in [1 .. Len(list) -> holding]
    BY <1>8, <1>9
  <2>2. list \in Bijection(1 .. Len(list), holding)
    BY <1>8, <1>10, <2>1 DEF Bijection, Injection, Surjection, IsInjective
  <2>3. ExistsBijection(1 .. Len(list), holding)
    BY <2>2 DEF ExistsBijection
  <2>4. QED
    BY <1>8, <2>3, FS_CountingElements
<1>13. QED
  BY <1>6, <1>11, <1>12

\* find, find_all, contains, get and iter agree on which entries hold a value,
\* although some go through the buckets and others through the position map.
THEOREM QueriesAgree == Spec => []LookupsAgree
<1>1. IInv => LookupsAgree
  <2> SUFFICES ASSUME IInv, NEW target \in Values
               PROVE  LET holding == {id \in Ids : Get(id) = target}
                      IN  /\ holding = {id \in DOMAIN data : <<id, target>> \in Iter}
                          /\ Contains(target) <=> holding # {}
                          /\ Range(FindAll(target)) = holding
                          /\ Len(FindAll(target)) = Cardinality(holding)
                          /\ IF holding = {} THEN Find(target) = NoId ELSE Find(target) \in holding
    BY DEF LookupsAgree
  <2> DEFINE holding == {id \in LiveIds : data[id] = target}
  <2>1. target \in Nat /\ Len(data) \in Nat /\ Len(data) <= Capacity /\ Capacity \in Nat
    BY ClientAssumption, CoherentNow DEF U64, Coherent, Shaped
  <2>2. DOMAIN data = 1 .. Len(data) /\ DOMAIN bucket_positions = 1 .. Len(data)
    BY CoherentNow DEF Coherent, Shaped
  <2>3. \A id : IsLive(id) <=> id \in LiveIds
    BY <2>2 DEF LiveIds, IsLive
  <2>4. {id \in Ids : Get(id) = target} = holding
    <3>1. \A id \in LiveIds : id \in Ids
      BY <2>1, <2>2 DEF LiveIds, Ids
    <3>2. NoValue # target
      BY <2>1 DEF NoValue
    <3>3. QED
      BY <2>3, <3>1, <3>2 DEF Get
  <2>5. {id \in DOMAIN data : <<id, target>> \in Iter} = holding
    <3>1. \A id : id \in LiveIds <=> id \in DOMAIN data /\ bucket_positions[id] # REMOVED_POSITION
      BY <2>2 DEF LiveIds, IsLive
    <3>2. \A id : <<id, target>> \in Iter <=>
             id \in DOMAIN data /\ bucket_positions[id] # REMOVED_POSITION /\ data[id] = target
      BY DEF Iter
    <3>3. QED
      BY <3>1, <3>2
  <2>6. Contains(target) <=> holding # {}
    <3>1. PICK bucket : bucket = GetBucket(buckets, BitWidth(target))
      OBVIOUS
    <3>2. /\ bucket \in Seq(1 .. Len(data)) /\ DOMAIN bucket = 1 .. Len(bucket)
          /\ \A k \in 1 .. Len(bucket) : bucket[k] \in LiveIds
          /\ \A id \in LiveIds : data[id] = target =>
                /\ bucket_positions[id] \in 1 .. Len(bucket)
                /\ bucket[bucket_positions[id]] = id
      BY <3>1, BucketHolds
    <3>3. Contains(target) <=> \E k \in 1 .. Len(bucket) : data[bucket[k]] = target
      BY <3>1, <3>2 DEF Contains, Range
    <3>4. QED
      BY <3>2, <3>3
  <2>7. Range(FindAll(target)) = holding /\ Len(FindAll(target)) = Cardinality(holding)
    BY FindAllLists
  <2>8. IF holding = {} THEN Find(target) = NoId ELSE Find(target) \in holding
    BY FindEntry
  <2> HIDE DEF holding
  <2>9. QED
    BY <2>4, <2>5, <2>6, <2>7, <2>8
<1>2. QED
  BY <1>1, IndexValid, PTL

-------------------------------------------------------------------------------
(* Removed entries.                                                        *)

\* The places behind the live ones receive each removed entry once, in order.
LEMMA SortOrderRemoved ==
    ASSUME IInv, NEW order, IsSortOrder(self, order),
           NEW n, n = Start(buckets, Len(buckets))
    PROVE  /\ \A q \in n + 1 .. Len(data) : order[q] \in DOMAIN data \ LiveIds
           /\ \A id \in DOMAIN data \ LiveIds : \E q \in n + 1 .. Len(data) : order[q] = id
           /\ \A q, r \in n + 1 .. Len(data) : q < r => order[q] < order[r]
<1>1. PICK removed : removed = DOMAIN data \ LiveIds
  OBVIOUS
<1>2. DOMAIN data = 1 .. Len(data) /\ LiveIds = LiveIn(data, bucket_positions)
  BY CoherentNow DEF Coherent, Shaped
<1>3. removed = {id \in 1 .. Len(data) : bucket_positions[id] = REMOVED_POSITION}
  BY <1>1, <1>2 DEF LiveIn
<1>4. RemovedIds(self) = removed
  BY <1>2, <1>3, SelfFields DEF RemovedIds
<1>5. /\ {order[q] : q \in n + 1 .. Len(data)} = removed
      /\ KeepsOrder(order, n + 1 .. Len(data))
  BY <1>4, SelfFields DEF IsSortOrder
<1>6. QED
  BY <1>1, <1>3, <1>5 DEF KeepsOrder

\* A removed entry goes to the place of its rank behind the live ones.
LEMMA RemovedPlaceIs ==
    ASSUME IInv, NEW order, IsSortOrder(self, order),
           NEW n, n = Start(buckets, Len(buckets)),
           NEW id \in DOMAIN data \ LiveIds
    PROVE  /\ n + RemovedRank(id) \in n + 1 .. Len(data)
           /\ order[n + RemovedRank(id)] = id
<1>1. PICK removed : removed = DOMAIN data \ LiveIds
  OBVIOUS
<1>2. /\ \A r \in removed : r \in Nat
      /\ \A q \in n + 1 .. Len(data) : order[q] \in removed
      /\ \A q, r \in n + 1 .. Len(data) : q < r => order[q] < order[r]
      /\ \A r \in removed : \E q \in n + 1 .. Len(data) : order[q] = r
  <2>1. /\ \A q \in n + 1 .. Len(data) : order[q] \in removed
        /\ \A q, r \in n + 1 .. Len(data) : q < r => order[q] < order[r]
        /\ \A r \in removed : \E q \in n + 1 .. Len(data) : order[q] = r
    BY <1>1, SortOrderRemoved
  <2>2. \A r \in removed : r \in 1 .. Len(data)
    BY <1>1, CoherentNow DEF Coherent, Shaped
  <2>3. QED
    BY <2>1, <2>2
<1>3. Len(data) \in Nat /\ n \in Nat
  BY CoherentNow, SlotsCount, LiveInFinite
<1>4. PICK place \in n + 1 .. Len(data) : order[place] = id
  BY <1>1, <1>2
<1> DEFINE upto == {r \in removed : r <= id}
           from == [k \in 1 .. place - n |-> order[n + k]]
<1>5. place - n \in Nat /\ \A k \in 1 .. place - n : n + k \in n + 1 .. Len(data)
  BY <1>3
<1>6. \A k \in 1 .. place - n : from[k] \in upto
  <2>1. SUFFICES ASSUME NEW k \in 1 .. place - n
                 PROVE  order[n + k] \in upto
    OBVIOUS
  <2>2. n + k \in n + 1 .. Len(data) /\ (n + k < place \/ n + k = place)
    BY <1>3
  <2>3. order[n + k] \in removed /\ order[n + k] \in Nat /\ id \in Nat
    BY <1>1, <1>2, <2>2
  <2>4. order[n + k] <= id
    BY <1>2, <1>4, <2>2, <2>3
  <2>5. QED
    BY <2>3, <2>4
<1>7. \A j, k \in 1 .. place - n : from[j] = from[k] => j = k
  <2>1. SUFFICES ASSUME NEW j \in 1 .. place - n, NEW k \in 1 .. place - n,
                        order[n + j] = order[n + k]
                 PROVE  j = k
    OBVIOUS
  <2>2. n + j \in n + 1 .. Len(data) /\ n + k \in n + 1 .. Len(data)
    BY <1>5
  <2>3. order[n + j] \in Nat
    BY <1>2, <2>2
  <2>4. ~ (n + j < n + k) /\ ~ (n + k < n + j)
    BY <1>2, <2>1, <2>2, <2>3
  <2>5. QED
    BY <1>3, <2>4
<1>8. \A r \in upto : \E k \in 1 .. place - n : from[k] = r
  <2>1. SUFFICES ASSUME NEW r \in upto
                 PROVE  \E k \in 1 .. place - n : from[k] = r
    OBVIOUS
  <2>2. PICK q \in n + 1 .. Len(data) : order[q] = r
    BY <1>2
  <2>3. r \in Nat /\ id \in Nat /\ r <= id
    BY <1>1, <1>2
  <2>4. ~ (place < q)
    BY <1>2, <1>4, <2>2, <2>3
  <2>5. PICK k : k = q - n
    OBVIOUS
  <2>6. k \in 1 .. place - n /\ n + k = q
    BY <1>3, <2>4, <2>5
  <2>7. QED
    BY <2>2, <2>6
<1> HIDE DEF from
<1>9. from \in [1 .. place - n -> upto]
  BY <1>6 DEF from
<1> HIDE DEF upto
<1>10. from \in Bijection(1 .. place - n, upto)
  BY <1>7, <1>8, <1>9 DEF Bijection, Injection, Surjection, IsInjective
<1>11. Cardinality(upto) = place - n
  BY <1>5, <1>10, FS_CountingElements DEF ExistsBijection
<1>12. RemovedRank(id) = place - n
  BY <1>1, <1>11 DEF RemovedRank, upto
<1>13. n + RemovedRank(id) = place
  BY <1>3, <1>12
<1>14. QED
  BY <1>4, <1>13

\* No call but a sort touches a removed entry.
LEMMA RemovedEntryUntouched ==
    ASSUME IInv, IInv', [Next]_vars, ~ SarkarSort, NEW id \in DOMAIN data \ LiveIds
    PROVE  id \notin LiveIds' /\ data'[id] = data[id]
<1>1. /\ data \in Seq(Values) /\ Len(data) \in Nat /\ DOMAIN data = 1 .. Len(data)
      /\ id \in 1 .. Len(data)
  BY CoherentNow DEF Coherent, Shaped
<1>2. ASSUME NEW value \in Values, Insert(value)
      PROVE  id \notin LiveIds' /\ data'[id] = data[id]
  BY <1>1, <1>2, InsertedEntry
<1>3. ASSUME NEW values \in Bulks, InsertBulk(values)
      PROVE  id \notin LiveIds' /\ data'[id] = data[id]
  BY <1>1, <1>3, InsertedEntries
<1>4. ASSUME NEW i, NEW op, NEW args, RemoveEntry(i, op, args)
      PROVE  id \notin LiveIds' /\ data'[id] = data[id]
  <2>1. CASE IsLive(i) /\ Become(RemovedAt(self, i))
    BY <1>1, <2>1, LiveMembers, LiveIdsAre, SelfFields, RemovedEntry
  <2>2. CASE UNCHANGED store
    BY <2>2 DEF store, LiveIds, IsLive
  <2>3. QED
    BY <1>4, <2>1, <2>2 DEF RemoveEntry
<1>5. ASSUME NEW i, NEW new \in Values, NEW op, NEW args, UpdateEntry(i, new, op, args)
      PROVE  id \notin LiveIds' /\ data'[id] = data[id]
  <2>1. CASE IsLive(i) /\ Become(UpdatedAt(self, i, new))
    <3>1. i \in LiveIds
      BY <2>1, LiveMembers, LiveIdsAre, SelfFields
    <3>2. data' = [data EXCEPT ![i] = new] /\ LiveIds' = LiveIds
      BY <2>1, <3>1, UpdatedEntry
    <3>3. QED
      BY <1>1, <3>1, <3>2
  <2>2. CASE UNCHANGED store
    BY <2>2 DEF store, LiveIds, IsLive
  <2>3. QED
    BY <1>5, <2>1, <2>2 DEF UpdateEntry
<1>6. CASE UNCHANGED vars
  BY <1>6 DEF vars, LiveIds, IsLive
<1>7. QED
  BY <1>2, <1>3, <1>4, <1>5, <1>6
     DEF Next, StreamCall, Remove, RemoveAt, Update, UpdateAt

\* A reply names the operation.
LEMMA SortReplies ==
    ASSUME Next
    PROVE  reply'.op = "sarkar_sort" <=> SarkarSort
<1>1. ASSUME NEW op, NEW args, NEW id, NEW ok, reply' = Reply(op, args, id, ok)
      PROVE  reply'.op = op
  <2>1. PICK r : r = reply'
    OBVIOUS
  <2>2. r.op = op
    BY <1>1, <2>1 DEF Reply
  <2>3. QED
    BY <2>1, <2>2
<1>2. SarkarSort => reply'.op = "sarkar_sort"
  BY <1>1 DEF SarkarSort
<1>3. ASSUME NEW i, NEW op, NEW args, RemoveEntry(i, op, args)
      PROVE  reply'.op = op
  BY <1>1, <1>3 DEF RemoveEntry
<1>4. ASSUME NEW i, NEW new, NEW op, NEW args, UpdateEntry(i, new, op, args)
      PROVE  reply'.op = op
  BY <1>1, <1>4 DEF UpdateEntry
<1>5. ASSUME StreamCall
      PROVE  reply'.op # "sarkar_sort"
  <2>1. ASSUME NEW value \in Values, Insert(value)
        PROVE  reply'.op # "sarkar_sort"
    BY <1>1, <2>1 DEF Insert
  <2>2. ASSUME NEW values \in Bulks, InsertBulk(values)
        PROVE  reply'.op # "sarkar_sort"
    BY <1>1, <2>2 DEF InsertBulk
  <2>3. ASSUME NEW value \in Values, Remove(value)
        PROVE  reply'.op # "sarkar_sort"
    BY <1>3, <2>3 DEF Remove
  <2>4. ASSUME NEW id \in Ids, RemoveAt(id)
        PROVE  reply'.op # "sarkar_sort"
    BY <1>3, <2>4 DEF RemoveAt
  <2>5. ASSUME NEW id \in Ids, NEW new \in Values, UpdateAt(id, new)
        PROVE  reply'.op # "sarkar_sort"
    BY <1>4, <2>5 DEF UpdateAt
  <2>6. ASSUME NEW old \in Values, NEW new \in Values, Update(old, new)
        PROVE  reply'.op # "sarkar_sort"
    BY <1>4, <2>6 DEF Update
  <2>7. QED
    BY <1>5, <2>1, <2>2, <2>3, <2>4, <2>5, <2>6 DEF StreamCall
<1>6. QED
  BY <1>2, <1>5 DEF Next

\* Soft deletion keeps history: a removed entry stays removed and keeps its
\* value, until a sort moves it behind the live ones, to the place its ID has
\* among the removed ones.
THEOREM HistoryIsKept == Spec => HistoryKept
<1> DEFINE Kept == IF reply'.op = "sarkar_sort"
                   THEN /\ Len(data') = Len(data)
                        /\ \A id \in DOMAIN data \ LiveIds :
                              data'[live_len' + RemovedRank(id)] = data[id]
                   ELSE \A id \in DOMAIN data \ LiveIds :
                            id \notin LiveIds' /\ data'[id] = data[id]
<1>1. ASSUME IInv, IInv', SarkarSort
      PROVE  Kept
  <2>1. PICK order : IsSortOrder(self, order) /\ Become(Sorted(self, order))
    BY <1>1 DEF SarkarSort
  <2>2. PICK n : n = Start(buckets, Len(buckets))
    OBVIOUS
  <2>3. /\ n \in Nat /\ n = live_len /\ live_len' = live_len /\ Len(data') = Len(data)
        /\ \A q \in 1 .. Len(data) : data'[q] = data[order[q]]
    BY <1>1, <2>1, <2>2, SortedStorage
  <2>4. \A id \in DOMAIN data \ LiveIds : data'[live_len' + RemovedRank(id)] = data[id]
    <3>1. SUFFICES ASSUME NEW id \in DOMAIN data \ LiveIds
                   PROVE  data'[live_len' + RemovedRank(id)] = data[id]
      OBVIOUS
    <3>2. PICK q : q = n + RemovedRank(id)
      OBVIOUS
    <3>3. q \in n + 1 .. Len(data) /\ order[q] = id
      BY <1>1, <2>1, <2>2, <3>2, RemovedPlaceIs
    <3>4. q \in 1 .. Len(data)
      BY <2>3, <3>3
    <3>5. QED
      BY <2>3, <3>2, <3>3, <3>4
  <2>5. reply'.op = "sarkar_sort"
    BY <1>1, SortReplies DEF Next
  <2>6. QED
    BY <2>3, <2>4, <2>5
<1>2. ASSUME IInv, IInv', Next, ~ SarkarSort
      PROVE  Kept
  BY <1>2, SortReplies, RemovedEntryUntouched
<1>3. IInv /\ IInv' /\ [Next]_vars => [Kept]_vars
  BY <1>1, <1>2
<1>4. QED
  BY <1>3, IndexValid, PTL DEF Spec, HistoryKept

-------------------------------------------------------------------------------
(* The vectorised lookup.                                                  *)

\* Every place of a vector is in one of its whole chunks or in the remainder.
LEMMA ChunkOf ==
    ASSUME NEW n \in Nat, NEW k \in 1 .. n
    PROVE  \/ \E chunk \in 0 .. (n \div Lanes) - 1 : \E lane \in 1 .. Lanes :
                 k = Lanes * chunk + lane
           \/ k \in Lanes * (n \div Lanes) + 1 .. n
<1>1. CASE k > 4 * (n \div 4)
  BY <1>1 DEF Lanes
<1>2. CASE ~ (k > 4 * (n \div 4))
  <2>1. PICK chunk : chunk = (k - 1) \div 4
    OBVIOUS
  <2>2. PICK lane : lane = k - 4 * chunk
    OBVIOUS
  <2>3. chunk \in Nat /\ lane \in 1 .. 4 /\ k = 4 * chunk + lane
    BY <2>1, <2>2
  <2>4. chunk <= (n \div 4) - 1
    BY <1>2, <2>3
  <2>5. QED
    BY <2>3, <2>4 DEF Lanes
<1>3. QED
  BY <1>1, <1>2

\* Conversely, chunks and remainder stay inside the vector.
LEMMA InsideChunks ==
    ASSUME NEW n \in Nat
    PROVE  /\ \A chunk \in 0 .. (n \div Lanes) - 1 : \A lane \in 1 .. Lanes :
                 Lanes * chunk + lane \in 1 .. n
           /\ \A k \in Lanes * (n \div Lanes) + 1 .. n : k \in 1 .. n
BY DEF Lanes

\* simd_contains and contains agree on every value after any history of calls,
\* with and without AVX2.
THEOREM SimdCorrect == Spec => []SimdAgrees
<1>1. IInv => SimdAgrees
  <2> SUFFICES ASSUME IInv, NEW target \in Values
               PROVE  SimdContains(target) <=> Contains(target)
    BY DEF SimdAgrees
  <2> DEFINE bucket == GetBucket(buckets, BitWidth(target))
             holds(k) == data[bucket[k]] = target
  <2>1. Len(bucket) \in Nat /\ DOMAIN bucket = 1 .. Len(bucket)
    <3>1. buckets \in Seq(Seq(1 .. Len(data))) /\ Len(buckets) \in Nat
      BY CoherentNow DEF Coherent, Shaped
    <3>2. BitWidth(target) \in Nat
      BY BitWidthType, BITSAssumption, ClientAssumption
    <3>3. PICK width : width = BitWidth(target)
      OBVIOUS
    <3>4. bucket \in Seq(1 .. Len(data))
      <4>1. CASE width < Len(buckets)
        <5>1. width + 1 \in 1 .. Len(buckets)
          BY <3>1, <3>2, <3>3, <4>1
        <5>2. bucket = buckets[width + 1]
          BY <3>3, <4>1 DEF GetBucket
        <5>3. QED
          BY <3>1, <5>1, <5>2
      <4>2. CASE ~ (width < Len(buckets))
        <5>1. bucket = <<>>
          BY <3>3, <4>2 DEF GetBucket
        <5>2. QED
          BY <5>1
      <4>3. QED
        BY <4>1, <4>2
    <3> HIDE DEF bucket
    <3>5. QED
      BY <3>4
  <2>2. Contains(target) <=> \E k \in 1 .. Len(bucket) : holds(k)
    <3>1. Contains(target) <=> \E id \in Range(bucket) : data[id] = target
      BY DEF Contains
    <3> HIDE DEF bucket
    <3>2. QED
      BY <2>1, <3>1 DEF Range
  <2>3. ASSUME NEW k \in 1 .. Len(bucket), holds(k)
        PROVE  SimdContains(target)
    <3>1. bucket # <<>>
      <4> HIDE DEF bucket
      <4>1. QED
        BY <2>1, <2>3
    <3>2. ScalarScan(bucket, 1, Len(bucket), target)
      BY <2>3 DEF ScalarScan
    <3>3. Avx2Scan(bucket, target)
      <4> HIDE DEF bucket
      <4>1. QED
        BY <2>1, <2>3, ChunkOf DEF Avx2Scan, ScalarScan, Chunks
    <3>4. QED
      BY <3>1, <3>2, <3>3 DEF SimdContains
  <2>4. ASSUME SimdContains(target)
        PROVE  \E k \in 1 .. Len(bucket) : holds(k)
    <3>1. CASE ScalarScan(bucket, 1, Len(bucket), target)
      BY <3>1 DEF ScalarScan
    <3>2. CASE Avx2Scan(bucket, target)
      <4> HIDE DEF bucket
      <4>1. QED
        BY <2>1, <3>2, InsideChunks DEF Avx2Scan, ScalarScan, Chunks
    <3>3. QED
      BY <2>4, <3>1, <3>2 DEF SimdContains
  <2>5. QED
    BY <2>2, <2>3, <2>4
<1>2. QED
  BY <1>1, IndexValid, PTL

-------------------------------------------------------------------------------
(* The distribution the index reports.                                     *)

\* The members of a set of numbers up to one of them.
UpTo(S, w) == {v \in S : v <= w}

\* Every number up to the size of the set is the rank of a member, of one only.
LEMMA NthMember ==
    ASSUME NEW n \in Nat, NEW S \in SUBSET (1 .. n)
    PROVE  /\ IsFiniteSet(S) /\ Cardinality(S) \in Nat
           /\ \A k \in 1 .. Cardinality(S) :
                 Nth(S, k) \in S /\ Cardinality(UpTo(S, Nth(S, k))) = k
           /\ \A w \in S : /\ Cardinality(UpTo(S, w)) \in 1 .. Cardinality(S)
                           /\ Nth(S, Cardinality(UpTo(S, w))) = w
           /\ \A v, w \in S : v < w => Cardinality(UpTo(S, v)) < Cardinality(UpTo(S, w))
<1>1. IsFiniteSet(1 .. n)
  BY FS_Interval
<1>2. IsFiniteSet(S) /\ Cardinality(S) \in Nat
  BY <1>1, FS_Subset, FS_CardinalityType
<1>3. PICK rank : rank = [w \in S |-> Cardinality(UpTo(S, w))]
  OBVIOUS
<1>4. ASSUME NEW w \in S
      PROVE  /\ IsFiniteSet(UpTo(S, w)) /\ w \in UpTo(S, w)
             /\ rank[w] \in 1 .. Cardinality(S)
  <2>1. UpTo(S, w) \in SUBSET S /\ w \in UpTo(S, w)
    BY DEF UpTo
  <2>2. IsFiniteSet(UpTo(S, w)) /\ Cardinality(UpTo(S, w)) <= Cardinality(S)
    BY <1>2, <2>1, FS_Subset
  <2>3. Cardinality(UpTo(S, w)) \in Nat /\ Cardinality(UpTo(S, w)) # 0
    BY <2>1, <2>2, FS_CardinalityType, FS_EmptySet
  <2> QED BY <1>2, <1>3, <2>1, <2>2, <2>3
<1>5. ASSUME NEW v \in S, NEW w \in S, v < w
      PROVE  rank[v] < rank[w]
  <2>1. UpTo(S, v) \in SUBSET UpTo(S, w) /\ w \notin UpTo(S, v)
    <3>1. v \in Int /\ w \in Int /\ \A x \in S : x \in Int
      OBVIOUS
    <3>2. \A x \in S : x <= v => x <= w
      BY <1>5, <3>1
    <3>3. ~ (w <= v)
      BY <1>5, <3>1
    <3> QED BY <3>2, <3>3 DEF UpTo
  <2>2. IsFiniteSet(UpTo(S, w)) /\ w \in UpTo(S, w)
    BY <1>4
  <2>3. /\ Cardinality(UpTo(S, v)) <= Cardinality(UpTo(S, w))
        /\ Cardinality(UpTo(S, w)) = Cardinality(UpTo(S, v)) => UpTo(S, w) = UpTo(S, v)
    BY <2>1, <2>2, FS_Subset
  <2>4. rank[v] <= rank[w] /\ rank[v] # rank[w]
    BY <1>3, <2>1, <2>2, <2>3
  <2>5. rank[v] \in Nat /\ rank[w] \in Nat
    BY <1>2, <1>4
  <2> QED BY <2>4, <2>5
<1>6. \A v, w \in S : rank[v] = rank[w] => v = w
  <2> SUFFICES ASSUME NEW v \in S, NEW w \in S, rank[v] = rank[w]
               PROVE  v = w
    OBVIOUS
  <2>1. rank[v] \in Nat /\ v \in Nat /\ w \in Nat
    BY <1>2, <1>4
  <2> QED BY <1>5, <2>1
<1>7. PICK places : places = 1 .. Cardinality(S)
  OBVIOUS
<1>8. IsFiniteSet(places) /\ Cardinality(places) = Cardinality(S)
  BY <1>2, <1>7, UpToCardinality
<1>9. rank \in Injection(S, places)
  <2>1. rank \in [S -> places]
    BY <1>3, <1>4, <1>7
  <2> QED BY <1>6, <2>1, Fun_IsInj
<1>10. rank \in Surjection(S, places)
  BY <1>8, <1>9, FS_Injection
<1>11. \A k \in places : \E w \in S : rank[w] = k
  BY <1>10 DEF Surjection
<1>12. ASSUME NEW k \in places
       PROVE  Nth(S, k) \in S /\ rank[Nth(S, k)] = k
  <2>1. \E w \in S : Cardinality(UpTo(S, w)) = k
    BY <1>3, <1>11
  <2>2. Nth(S, k) \in S /\ Cardinality(UpTo(S, Nth(S, k))) = k
    BY <2>1 DEF Nth, UpTo
  <2> QED BY <1>3, <2>2
<1>13. ASSUME NEW w \in S
       PROVE  Nth(S, rank[w]) = w
  <2>1. rank[w] \in places
    BY <1>4, <1>7
  <2> QED BY <1>6, <1>12, <2>1
<1>14. \A k \in 1 .. Cardinality(S) : Nth(S, k) \in S /\ Cardinality(UpTo(S, Nth(S, k))) = k
  BY <1>3, <1>7, <1>12
<1>15. \A w \in S : /\ Cardinality(UpTo(S, w)) \in 1 .. Cardinality(S)
                    /\ Nth(S, Cardinality(UpTo(S, w))) = w
  BY <1>3, <1>4, <1>13
<1>16. \A v, w \in S : v < w => Cardinality(UpTo(S, v)) < Cardinality(UpTo(S, w))
  BY <1>3, <1>5
<1> QED BY <1>2, <1>14, <1>15, <1>16

\* The rows are the buckets that are not empty, one for each, in order.
LEMMA RowsAre ==
    ASSUME IInv, NEW stats, stats = DistributionStats
    PROVE  /\ Active \in SUBSET (1 .. Len(buckets))
           /\ DOMAIN stats = 1 .. Cardinality(Active) /\ Cardinality(Active) \in Nat
           /\ Len(stats) = Cardinality(Active)
           /\ \A k \in DOMAIN stats :
                 /\ stats[k].bit_width + 1 \in Active
                 /\ stats[k].bit_width \in Int
                 /\ stats[k].count = Len(buckets[stats[k].bit_width + 1])
           /\ \A w \in Active : \E k \in DOMAIN stats : stats[k].bit_width + 1 = w
           /\ \A j, k \in DOMAIN stats : j < k => stats[j].bit_width < stats[k].bit_width
<1>1. Len(buckets) \in Nat /\ DOMAIN buckets = 1 .. Len(buckets)
  BY CoherentNow
<1>2. Active \in SUBSET (1 .. Len(buckets))
  BY <1>1 DEF Active
<1>3. PICK A, m : A = Active /\ m = Cardinality(A)
  OBVIOUS
<1>4. A \in SUBSET (1 .. Len(buckets)) /\ m \in Nat
  BY <1>1, <1>2, <1>3, NthMember
<1>5. \A k \in 1 .. m : Nth(A, k) \in A /\ Cardinality(UpTo(A, Nth(A, k))) = k
  BY <1>1, <1>3, <1>4, NthMember
<1>6. \A w \in A : Cardinality(UpTo(A, w)) \in 1 .. m /\ Nth(A, Cardinality(UpTo(A, w))) = w
  BY <1>1, <1>3, <1>4, NthMember
<1>7. \A v, w \in A : v < w => Cardinality(UpTo(A, v)) < Cardinality(UpTo(A, w))
  BY <1>1, <1>4, NthMember
<1>8. /\ stats = [k \in 1 .. m |-> [bit_width |-> Nth(A, k) - 1, count |-> Len(buckets[Nth(A, k)])]]
      /\ DOMAIN stats = 1 .. m
  BY <1>3 DEF DistributionStats
<1>9. Len(stats) = m
  <2>1. PICK rows : rows = {stats[k] : k \in 1 .. m}
    OBVIOUS
  <2>2. stats = [k \in 1 .. m |-> stats[k]]
    BY <1>8
  <2>3. stats \in [1 .. m -> rows]
    BY <2>1, <2>2
  <2> QED BY <1>4, <2>3
<1>10. ASSUME NEW k \in 1 .. m
       PROVE  /\ stats[k].bit_width \in Int /\ stats[k].bit_width + 1 = Nth(A, k)
              /\ stats[k].count = Len(buckets[Nth(A, k)])
  <2>1. PICK w : w = Nth(A, k)
    OBVIOUS
  <2>2. w \in Nat
    <3>1. w \in A
      BY <1>5, <2>1
    <3>2. w \in 1 .. Len(buckets)
      BY <1>4, <3>1, Zenon
    <3> QED BY <1>1, <3>2
  <2>3. stats[k] = [bit_width |-> w - 1, count |-> Len(buckets[w])]
    BY <1>8, <2>1
  <2> QED BY <2>1, <2>2, <2>3
<1>11. \A k \in DOMAIN stats :
          /\ stats[k].bit_width + 1 \in Active /\ stats[k].bit_width \in Int
          /\ stats[k].count = Len(buckets[stats[k].bit_width + 1])
  BY <1>3, <1>5, <1>8, <1>10
<1>12. \A w \in Active : \E k \in DOMAIN stats : stats[k].bit_width + 1 = w
  BY <1>3, <1>6, <1>8, <1>10
<1>13. ASSUME NEW j \in 1 .. m, NEW k \in 1 .. m, j < k
       PROVE  stats[j].bit_width < stats[k].bit_width
  <2>1. PICK v, w : v = Nth(A, j) /\ w = Nth(A, k)
    OBVIOUS
  <2>2. v \in A /\ w \in A /\ Cardinality(UpTo(A, v)) = j /\ Cardinality(UpTo(A, w)) = k
    BY <1>5, <2>1
  <2>3. v \in Nat /\ w \in Nat
    BY <1>1, <1>4, <2>2
  <2>4. ~ (w < v) /\ v # w
    BY <1>4, <1>7, <1>13, <2>2
  <2>5. v < w
    BY <2>3, <2>4
  <2>6. /\ stats[j].bit_width \in Int /\ stats[j].bit_width + 1 = v
        /\ stats[k].bit_width \in Int /\ stats[k].bit_width + 1 = w
    BY <1>10, <2>1
  <2> QED BY <2>3, <2>5, <2>6
<1> QED BY <1>2, <1>3, <1>4, <1>8, <1>9, <1>11, <1>12, <1>13

\* A bucket holds the live values of its width, each once.
LEMMA BucketCount ==
    ASSUME IInv, NEW w \in 1 .. Len(buckets)
    PROVE  /\ Len(buckets[w]) \in Nat
           /\ Cardinality({id \in LiveIds : BitWidth(data[id]) = w - 1}) = Len(buckets[w])
           /\ buckets[w] # <<>> => \E id \in LiveIds : BitWidth(data[id]) = w - 1
<1>1. PICK b, d, p, same : /\ b = buckets /\ d = data /\ p = bucket_positions
                           /\ same = {id \in LiveIds : BitWidth(d[id]) = w - 1}
  OBVIOUS
<1>2. Coherent(d, b, p) /\ LiveIds = LiveIn(d, p) /\ w \in 1 .. Len(b)
  BY <1>1, CoherentNow
<1>3. b[w] \in Seq(1 .. Len(d)) /\ Len(b[w]) \in Nat /\ w \in Nat
  BY <1>2 DEF Coherent, Shaped
<1>4. \A id \in LiveIds : BitWidth(d[id]) \in Nat
  <2>1. \A id \in 1 .. Len(d) : d[id] \in Values
    BY <1>2 DEF Coherent, Shaped
  <2>2. \A v \in Values : BitWidth(v) \in Nat
    BY BitWidthType, BITSAssumption, ClientAssumption
  <2> QED BY <1>2, <2>1, <2>2 DEF LiveIn
<1>5. ASSUME NEW k \in 1 .. Len(b[w])
      PROVE  b[w][k] \in same /\ p[b[w][k]] = k
  <2>1. /\ b[w][k] \in 1 .. Len(d) /\ p[b[w][k]] # REMOVED_POSITION
        /\ BitWidth(d[b[w][k]]) + 1 = w /\ p[b[w][k]] = k
    BY <1>2, SlotIsLive DEF Coherent, Routed
  <2>2. b[w][k] \in LiveIds
    BY <1>2, <2>1 DEF LiveIn
  <2>3. BitWidth(d[b[w][k]]) \in Nat
    BY <1>4, <2>2
  <2>4. BitWidth(d[b[w][k]]) = w - 1
    BY <2>1, <2>3
  <2> QED BY <1>1, <2>1, <2>2, <2>4
<1>6. ASSUME NEW id \in same
      PROVE  \E k \in 1 .. Len(b[w]) : b[w][k] = id
  <2>1. id \in 1 .. Len(d) /\ p[id] # REMOVED_POSITION /\ BitWidth(d[id]) = w - 1
    BY <1>1, <1>2 DEF LiveIn
  <2>2. BitWidth(d[id]) + 1 = w
    BY <1>3, <2>1
  <2>3. p[id] \in 1 .. Len(b[w]) /\ b[w][p[id]] = id
    BY <1>2, <2>1, <2>2 DEF Coherent, Linked
  <2> QED BY <2>3
<1>7. PICK holds : holds = [k \in 1 .. Len(b[w]) |-> b[w][k]]
  OBVIOUS
<1>8. holds \in Bijection(1 .. Len(b[w]), same)
  <2>1. holds \in [1 .. Len(b[w]) -> same]
    BY <1>5, <1>7
  <2>2. \A j, k \in 1 .. Len(b[w]) : holds[j] = holds[k] => j = k
    BY <1>5, <1>7
  <2>3. \A id \in same : \E k \in 1 .. Len(b[w]) : holds[k] = id
    BY <1>6, <1>7
  <2> QED BY <2>1, <2>2, <2>3, Fun_IsBij
<1>9. IsFiniteSet(1 .. Len(b[w])) /\ Cardinality(1 .. Len(b[w])) = Len(b[w])
  BY <1>3, UpToCardinality
<1>10. Cardinality(same) = Len(b[w])
  BY <1>8, <1>9, FS_Bijection DEF ExistsBijection
<1>11. ASSUME b[w] # <<>>
       PROVE  \E id \in LiveIds : BitWidth(d[id]) = w - 1
  <2>1. 1 \in 1 .. Len(b[w])
    BY <1>3, <1>11
  <2>2. b[w][1] \in same
    BY <1>5, <2>1
  <2> QED BY <1>1, <2>2
<1> QED BY <1>1, <1>3, <1>10, <1>11

LEMMA MaxIs ==
    ASSUME NEW S \in SUBSET Int, NEW m \in S, \A x \in S : x <= m
    PROVE  Max(S) = m
<1>1. m \in S /\ \A x \in S : m >= x
  BY DEF Max
<1>2. \A n \in S : (\A x \in S : n >= x) => n = m
  <2> SUFFICES ASSUME NEW n \in S, \A x \in S : n >= x
               PROVE  n = m
    OBVIOUS
  <2>1. n \in Int /\ m \in Int /\ n >= m /\ n <= m
    OBVIOUS
  <2> QED BY <2>1
<1> QED BY <1>1, <1>2 DEF Max

\* What the comparison program prints of the distribution is exact after any
\* history of calls: one row for each width of a live value, in order, with the
\* number of those values; and the totals that go with the rows.
THEOREM DistributionReported == Spec => []DistributionExact
<1>1. IInv => DistributionExact
  <2>1. SUFFICES ASSUME IInv
                 PROVE  DistributionExact
    OBVIOUS
  <2>2. PICK stats, n, A : stats = DistributionStats /\ n = Len(buckets) /\ A = Active
    OBVIOUS
  <2>3. /\ n \in Nat /\ DOMAIN buckets = 1 .. n /\ Trimmed(buckets)
        /\ buckets \in Seq(Seq(1 .. Len(data)))
    BY <2>1, <2>2, CoherentNow DEF Coherent, Shaped
  <2>4. /\ A \in SUBSET (1 .. n) /\ DOMAIN stats = 1 .. Cardinality(A)
        /\ Cardinality(A) \in Nat /\ Len(stats) = Cardinality(A)
    BY <2>1, <2>2, RowsAre
  <2>5. \A k \in DOMAIN stats :
           /\ stats[k].bit_width + 1 \in A /\ stats[k].bit_width \in Int
           /\ stats[k].count = Len(buckets[stats[k].bit_width + 1])
    BY <2>1, <2>2, RowsAre
  <2>6. \A w \in A : \E k \in DOMAIN stats : stats[k].bit_width + 1 = w
    BY <2>1, <2>2, RowsAre
  <2>7. \A j, k \in DOMAIN stats : j < k => stats[j].bit_width < stats[k].bit_width
    BY <2>1, <2>2, RowsAre
  <2>8. \A w \in 1 .. n : w \in A <=> buckets[w] # <<>>
    BY <2>2, <2>3 DEF Active
  <2>9. \A w \in 1 .. n : Len(buckets[w]) \in Nat /\ DOMAIN buckets[w] = 1 .. Len(buckets[w])
    BY <2>3
  <2>10. {stats[k].bit_width : k \in DOMAIN stats} = {BitWidth(data[id]) : id \in LiveIds}
    <3>1. ASSUME NEW k \in DOMAIN stats
          PROVE  \E id \in LiveIds : BitWidth(data[id]) = stats[k].bit_width
      <4>1. PICK w : w = stats[k].bit_width + 1
        OBVIOUS
      <4>2. w \in A /\ stats[k].bit_width = w - 1
        BY <2>5, <4>1
      <4>3. w \in 1 .. Len(buckets) /\ buckets[w] # <<>>
        BY <2>2, <2>4, <2>8, <4>2
      <4> QED BY <2>1, <4>2, <4>3, BucketCount
    <3>2. ASSUME NEW id \in LiveIds
          PROVE  \E k \in DOMAIN stats : stats[k].bit_width = BitWidth(data[id])
      <4>1. PICK width : width = BitWidth(data[id])
        OBVIOUS
      <4>2. /\ width + 1 \in 1 .. n /\ bucket_positions[id] \in 1 .. Len(buckets[width + 1])
        BY <2>1, <2>2, <4>1, CoherentNow DEF Coherent, Linked, LiveIn
      <4>3. width \in Int
        <5>1. data[id] \in Values
          BY <2>1, CoherentNow DEF Coherent, Shaped, LiveIn
        <5> QED BY <4>1, <5>1, BitWidthType, BITSAssumption, ClientAssumption
      <4>4. buckets[width + 1] # <<>>
        <5>1. Len(buckets[width + 1]) # 0
          BY <2>9, <4>2
        <5> QED BY <5>1
      <4>5. width + 1 \in A
        BY <2>8, <4>2, <4>4
      <4>6. PICK k \in DOMAIN stats : stats[k].bit_width + 1 = width + 1
        BY <2>6, <4>5
      <4>7. stats[k].bit_width = width
        BY <2>5, <4>3, <4>6
      <4> QED BY <4>1, <4>7
    <3> QED BY <3>1, <3>2
  <2>11. ASSUME NEW k \in DOMAIN stats
         PROVE  stats[k].count = Cardinality({id \in LiveIds : BitWidth(data[id]) = stats[k].bit_width})
    <3>1. PICK w : w = stats[k].bit_width + 1
      OBVIOUS
    <3>2. w \in A /\ stats[k].bit_width = w - 1 /\ stats[k].count = Len(buckets[w])
      BY <2>5, <3>1
    <3>3. w \in 1 .. Len(buckets)
      BY <2>2, <2>4, <3>2
    <3>4. Cardinality({id \in LiveIds : BitWidth(data[id]) = w - 1}) = Len(buckets[w])
      BY <2>1, <3>3, BucketCount
    <3> QED BY <3>2, <3>4
  <2>12. MaxBucketSize = Max({0} \cup {stats[k].count : k \in DOMAIN stats})
    <3>1. ASSUME NEW w \in 1 .. n
          PROVE  Len(buckets[w]) \in {0} \cup {stats[k].count : k \in DOMAIN stats}
      <4>1. CASE w \in A
        <5>1. PICK k \in DOMAIN stats : stats[k].bit_width + 1 = w
          BY <2>6, <4>1
        <5> QED BY <2>5, <5>1
      <4>2. CASE w \notin A
        <5>1. buckets[w] = <<>>
          BY <2>8, <4>2
        <5> QED BY <5>1
      <4> QED BY <4>1, <4>2
    <3>2. ASSUME NEW k \in DOMAIN stats
          PROVE  stats[k].count \in {Len(buckets[w]) : w \in DOMAIN buckets}
      BY <2>3, <2>4, <2>5
    <3>3. {0} \cup {Len(buckets[w]) : w \in DOMAIN buckets}
             = {0} \cup {stats[k].count : k \in DOMAIN stats}
      BY <2>3, <3>1, <3>2
    <3> QED BY <3>3 DEF MaxBucketSize
  <2>13. BucketSlots = Max({0} \cup {stats[k].bit_width + 1 : k \in DOMAIN stats})
    <3>1. PICK S : S = {0} \cup {stats[k].bit_width + 1 : k \in DOMAIN stats}
      OBVIOUS
    <3>2. S = {0} \cup A
      BY <2>5, <2>6, <3>1
    <3>3. n \in S
      <4>1. CASE n = 0
        BY <3>1, <4>1
      <4>2. CASE n # 0
        <5>1. buckets # <<>> /\ n \in 1 .. n
          BY <2>2, <2>3, <4>2
        <5>2. buckets[n] # <<>>
          BY <2>2, <2>3, <5>1 DEF Trimmed
        <5> QED BY <2>8, <3>2, <5>1, <5>2
      <4> QED BY <4>1, <4>2
    <3>4. S \in SUBSET Int /\ \A x \in S : x <= n
      BY <2>3, <2>4, <3>2
    <3>5. Max(S) = n
      BY <3>3, <3>4, MaxIs
    <3> QED BY <2>2, <3>1, <3>5 DEF BucketSlots
  <2>14. Cardinality(UNION {{k} \X (1 .. stats[k].count) : k \in DOMAIN stats}) = live_len
    <3>1. PICK rows, slots : /\ rows = UNION {{k} \X (1 .. stats[k].count) : k \in DOMAIN stats}
                             /\ slots = Slots(buckets, n)
      OBVIOUS
    <3>2. \A k \in DOMAIN stats : \A j \in 1 .. stats[k].count : <<k, j>> \in rows
      BY <3>1
    <3>3. \A x \in rows : \E k \in DOMAIN stats : \E j \in 1 .. stats[k].count : x = <<k, j>>
      BY <3>1
    <3>4. \A w \in 1 .. n : \A j \in 1 .. Len(buckets[w]) : <<w, j>> \in slots
      BY <2>9, <3>1 DEF Slots
    <3>5. \A x \in slots : \E w \in 1 .. n : \E j \in 1 .. Len(buckets[w]) : x = <<w, j>>
      BY <2>9, <3>1 DEF Slots
    <3>6. PICK slot : slot = [x \in rows |-> <<stats[x[1]].bit_width + 1, x[2]>>]
      OBVIOUS
    <3>7. \A k \in DOMAIN stats : \A j \in 1 .. stats[k].count :
             slot[<<k, j>>] = <<stats[k].bit_width + 1, j>>
      BY <3>2, <3>6
    <3>8. \A j, k \in DOMAIN stats : stats[j].bit_width = stats[k].bit_width => j = k
      <4> SUFFICES ASSUME NEW j \in DOMAIN stats, NEW k \in DOMAIN stats,
                          stats[j].bit_width = stats[k].bit_width
                   PROVE  j = k
        OBVIOUS
      <4>1. j \in Nat /\ k \in Nat /\ stats[j].bit_width \in Int
        BY <2>4, <2>5
      <4>2. ~ (j < k) /\ ~ (k < j)
        BY <2>7, <4>1
      <4> QED BY <4>1, <4>2
    <3>9. slot \in Bijection(rows, slots)
      <4>1. ASSUME NEW x \in rows
            PROVE  slot[x] \in slots
        <5>1. PICK k \in DOMAIN stats : \E j \in 1 .. stats[k].count : x = <<k, j>>
          BY <3>3
        <5>5. PICK j \in 1 .. stats[k].count : x = <<k, j>>
          BY <5>1
        <5>2. PICK w : w = stats[k].bit_width + 1
          OBVIOUS
        <5>3. w \in 1 .. n /\ stats[k].count = Len(buckets[w])
          BY <2>4, <2>5, <5>2
        <5>4. slot[x] = <<w, j>>
          BY <3>7, <5>5, <5>2
        <5> QED BY <3>4, <5>5, <5>3, <5>4
      <4>2. ASSUME NEW x \in rows, NEW y \in rows, slot[x] = slot[y]
            PROVE  x = y
        <5>8. PICK k \in DOMAIN stats : \E j \in 1 .. stats[k].count : x = <<k, j>>
          BY <3>3
        <5>1. PICK j \in 1 .. stats[k].count : x = <<k, j>>
          BY <5>8
        <5>9. PICK l \in DOMAIN stats : \E i \in 1 .. stats[l].count : y = <<l, i>>
          BY <3>3
        <5>2. PICK i \in 1 .. stats[l].count : y = <<l, i>>
          BY <5>9
        <5>3. PICK v, w : v = stats[k].bit_width /\ w = stats[l].bit_width
          OBVIOUS
        <5>4. <<v + 1, j>> = <<w + 1, i>>
          BY <3>7, <4>2, <5>1, <5>2, <5>3
        <5>5. v \in Int /\ w \in Int
          BY <2>5, <5>3
        <5>6. v = w /\ j = i
          BY <5>4, <5>5
        <5>7. k = l
          BY <3>8, <5>3, <5>6
        <5> QED BY <5>1, <5>2, <5>6, <5>7
      <4>3. ASSUME NEW y \in slots
            PROVE  \E x \in rows : slot[x] = y
        <5>6. PICK w \in 1 .. n : \E j \in 1 .. Len(buckets[w]) : y = <<w, j>>
          BY <3>5
        <5>1. PICK j \in 1 .. Len(buckets[w]) : y = <<w, j>>
          BY <5>6
        <5>2. w \in A
          <6>1. Len(buckets[w]) # 0
            BY <2>9, <5>1
          <6>2. buckets[w] # <<>>
            BY <6>1
          <6> QED BY <2>8, <6>2
        <5>3. PICK k \in DOMAIN stats : stats[k].bit_width + 1 = w
          BY <2>6, <5>2
        <5>4. j \in 1 .. stats[k].count
          BY <2>5, <5>1, <5>3
        <5>5. <<k, j>> \in rows /\ slot[<<k, j>>] = y
          BY <3>2, <3>7, <5>1, <5>3, <5>4
        <5> QED BY <5>5
      <4>4. slot \in [rows -> slots]
        BY <3>6, <4>1
      <4> QED BY <4>2, <4>3, <4>4, Fun_IsBij
    <3>10. IsFiniteSet(slots) /\ Cardinality(slots) = live_len
      <4>1. /\ IsFiniteSet(Slots(buckets, Len(buckets)))
            /\ Start(buckets, Len(buckets)) = Cardinality(LiveIn(data, bucket_positions))
        BY <2>1, CoherentNow, SlotsCount
      <4>2. live_len = Cardinality(LiveIn(data, bucket_positions))
        BY <2>1, CoherentNow
      <4> QED BY <2>2, <3>1, <4>1, <4>2 DEF Start, Slots
    <3>11. ExistsBijection(slots, rows)
      BY <3>9, Fun_ExistsBijSymmetric, Fun_ExistsBij
    <3>12. Cardinality(rows) = Cardinality(slots)
      BY <3>10, <3>11, FS_Bijection
    <3> QED BY <3>1, <3>10, <3>12
  <2>15. ActiveBucketCount = Len(stats)
    BY <2>2, <2>4 DEF ActiveBucketCount
  <2> QED BY <2>2, <2>7, <2>10, <2>11, <2>12, <2>13, <2>14, <2>15 DEF DistributionExact
<1>2. QED
  BY <1>1, IndexValid, PTL
===============================================================================
