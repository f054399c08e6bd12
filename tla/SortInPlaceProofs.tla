--------------------------- MODULE SortInPlaceProofs ---------------------------
(***************************************************************************)
(* For every word size, set of client values and bound on storage: what a  *)
(* sort leaves is in order, is what sorted_snapshot returns, and is left   *)
(* alone by the next sort; and the loops of sort_in_place, with the cycles *)
(* that permute storage in place, are together the step SarkarSort.        *)
(***************************************************************************)
EXTENDS SortInPlace, BwspiProofs

-------------------------------------------------------------------------------
(* sort_unstable, by its result.                                           *)

\* Numbers that ascend, rearranged so that they still ascend.
Resorts(order, f, lo, hi) ==
    /\ \A q \in lo .. hi : f[q] \in Nat
    /\ \A q, r \in lo .. hi : q < r => f[q] <= f[r]
    /\ \A q \in lo .. hi : order[q] \in lo .. hi
    /\ \A q, r \in lo .. hi : order[q] = order[r] => q = r
    /\ \A q, r \in lo .. hi : q < r => f[order[q]] <= f[order[r]]

\* They are the same at every place.
LEMMA Unmoved ==
    ASSUME NEW lo \in Nat, NEW hi \in Nat, NEW f, NEW order, Resorts(order, f, lo, hi),
           NEW q \in lo .. hi
    PROVE  f[order[q]] = f[q]
<1> USE DEF Resorts
<1>1. f[q] \in Nat /\ f[order[q]] \in Nat
  OBVIOUS
\* A smaller value at q: all up to q have to come from the places before it.
<1>2. ASSUME f[order[q]] < f[q]
      PROVE  FALSE
  <2>1. \A r \in lo .. q : order[r] \in lo .. q - 1
    <3>1. SUFFICES ASSUME NEW r \in lo .. q
                   PROVE  order[r] \in lo .. q - 1
      OBVIOUS
    <3>2. r \in lo .. hi /\ order[r] \in lo .. hi /\ order[q] \in lo .. hi
      OBVIOUS
    <3>3. f[order[r]] \in Nat /\ f[order[r]] <= f[order[q]]
      BY <1>1, <3>2
    <3>4. ~ (f[q] <= f[order[r]])
      BY <1>1, <1>2, <3>3
    <3>5. ~ (q < order[r]) /\ order[r] # q
      BY <1>1, <3>2, <3>3, <3>4
    <3>6. QED
      BY <3>2, <3>5
  <2>2. /\ IsFiniteSet(lo .. q - 1) /\ Cardinality(lo .. q) = q - lo + 1
        /\ Cardinality(lo .. q - 1) = q - lo
    <3>1. q \in Int /\ q - 1 \in Int /\ lo \in Int /\ lo <= q
      OBVIOUS
    <3>2. /\ IsFiniteSet(lo .. q - 1) /\ Cardinality(lo .. q) = q + 1 - lo
          /\ Cardinality(lo .. q - 1) = (q - 1) + 1 - lo
      BY <3>1, PlacesCount
    <3>3. QED
      BY <3>1, <3>2
  <2>3. Cardinality(lo .. q) <= Cardinality(lo .. q - 1)
    <3>1. \A r, t \in lo .. q : order[r] = order[t] => r = t
      OBVIOUS
    <3>2. QED
      BY <2>1, <2>2, <3>1, CountedInto
  <2>4. QED
    BY <2>2, <2>3
\* A greater one: all from q on have to come from the places behind it.
<1>3. ASSUME f[q] < f[order[q]]
      PROVE  FALSE
  <2>1. \A r \in q .. hi : order[r] \in q + 1 .. hi
    <3>1. SUFFICES ASSUME NEW r \in q .. hi
                   PROVE  order[r] \in q + 1 .. hi
      OBVIOUS
    <3>2. r \in lo .. hi /\ order[r] \in lo .. hi /\ order[q] \in lo .. hi
      OBVIOUS
    <3>3. f[order[r]] \in Nat /\ f[order[q]] <= f[order[r]]
      BY <1>1, <3>2
    <3>4. ~ (f[order[r]] <= f[q])
      BY <1>1, <1>3, <3>3
    <3>5. ~ (order[r] < q) /\ order[r] # q
      BY <1>1, <3>2, <3>3, <3>4
    <3>6. QED
      BY <3>2, <3>5
  <2>2. /\ IsFiniteSet(q + 1 .. hi) /\ Cardinality(q .. hi) = hi - q + 1
        /\ Cardinality(q + 1 .. hi) = hi - q
    <3>1. q \in Int /\ q + 1 \in Int /\ hi \in Int /\ q <= hi
      OBVIOUS
    <3>2. /\ IsFiniteSet(q + 1 .. hi) /\ Cardinality(q .. hi) = hi + 1 - q
          /\ Cardinality(q + 1 .. hi) = hi + 1 - (q + 1)
      BY <3>1, PlacesCount
    <3>3. QED
      BY <3>1, <3>2
  <2>3. Cardinality(q .. hi) <= Cardinality(q + 1 .. hi)
    <3>1. \A r, t \in q .. hi : order[r] = order[t] => r = t
      OBVIOUS
    <3>2. QED
      BY <2>1, <2>2, <3>1, CountedInto
  <2>4. QED
    BY <2>2, <2>3
<1>4. QED
  BY <1>1, <1>2, <1>3

\* An arrangement of the elements of a sequence that ascends.
Arranges(order, s, n) ==
    /\ DOMAIN s = 1 .. n /\ \A k \in 1 .. n : s[k] \in Nat
    /\ \A k \in 1 .. n : order[k] \in 1 .. n
    /\ \A j, k \in 1 .. n : order[j] = order[k] => j = k
    /\ \A j, k \in 1 .. n : j < k => s[order[j]] <= s[order[k]]

\* It is the one sorting gives.
LEMMA AscendingIs ==
    ASSUME NEW n \in Nat, NEW s, NEW order, Arranges(order, s, n)
    PROVE  Ascending(s) = [k \in 1 .. n |-> s[order[k]]]
<1> USE DEF Arranges
<1>1. IsFiniteSet(1 .. n) /\ Cardinality(1 .. n) = n
  BY FS_Interval
\* Every place of the sequence is the source of one.
<1>2. ASSUME NEW j \in 1 .. n
      PROVE  \E k \in 1 .. n : order[k] = j
  <2> DEFINE g == [k \in 1 .. n |-> order[k]]
  <2>1. g \in [1 .. n -> 1 .. n] /\ \A a, c \in 1 .. n : g[a] = g[c] => a = c
    OBVIOUS
  <2>2. g \in Injection(1 .. n, 1 .. n)
    <3> HIDE DEF g
    <3>1. QED
      BY <2>1 DEF Injection, IsInjective
  <2>3. g \in Surjection(1 .. n, 1 .. n)
    <3> HIDE DEF g
    <3>1. QED
      BY <1>1, <2>2, FS_Injection
  <2>4. \E k \in 1 .. n : g[k] = j
    <3> HIDE DEF g
    <3>1. QED
      BY <2>3 DEF Surjection
  <2>5. QED
    BY <2>4
<1>3. ASSUME NEW k \in 1 .. n
      PROVE  Min({v \in Range(s) : k <= Cardinality(AtMost(s, v))}) = s[order[k]]
  <2> DEFINE reaching == {v \in Range(s) : k <= Cardinality(AtMost(s, v))}
  <2>1. \A v : AtMost(s, v) \in SUBSET (1 .. n)
    BY DEF AtMost
  <2>2. \A v : IsFiniteSet(AtMost(s, v)) /\ Cardinality(AtMost(s, v)) \in Nat
    BY <1>1, <2>1, FS_Subset, FS_CardinalityType
  <2>3. \A v \in Range(s) : v \in Nat
    BY DEF Range
  <2>4. s[order[k]] \in reaching
    <3>1. \A j \in 1 .. k : order[j] \in AtMost(s, s[order[k]])
      BY DEF AtMost
    <3>2. \A i, j \in 1 .. k : order[i] = order[j] => i = j
      OBVIOUS
    <3>3. Cardinality(1 .. k) <= Cardinality(AtMost(s, s[order[k]]))
      BY <2>2, <3>1, <3>2, CountedInto
    <3>4. Cardinality(1 .. k) = k
      BY FS_Interval
    <3>5. s[order[k]] \in Range(s)
      BY DEF Range
    <3>6. QED
      BY <3>3, <3>4, <3>5
  <2>5. ASSUME NEW v \in reaching
        PROVE  s[order[k]] <= v
    <3>1. SUFFICES ASSUME v < s[order[k]]
                   PROVE  FALSE
      BY <2>3
    <3>2. PICK place : place = [j \in 1 .. n |-> CHOOSE i \in 1 .. n : order[i] = j]
      OBVIOUS
    <3>3. \A j \in 1 .. n : place[j] \in 1 .. n /\ order[place[j]] = j
      BY <1>2, <3>2
    <3>4. \A j \in AtMost(s, v) : place[j] \in 1 .. k - 1
      <4>1. SUFFICES ASSUME NEW j \in AtMost(s, v)
                     PROVE  place[j] \in 1 .. k - 1
        OBVIOUS
      <4>2. j \in 1 .. n /\ s[j] <= v
        BY DEF AtMost
      <4>3. place[j] \in 1 .. n /\ s[order[place[j]]] <= v
        BY <3>3, <4>2
      <4>4. ~ (s[order[k]] <= s[order[place[j]]])
        BY SMTT(30), <2>3, <3>1, <4>3
      <4>5. place[j] # k /\ ~ (k < place[j])
        BY SMTT(30), <4>3, <4>4
      <4>6. QED
        BY <4>3, <4>5
    <3>5. \A i, j \in AtMost(s, v) : place[i] = place[j] => i = j
      BY <2>1, <3>3
    <3>6. IsFiniteSet(1 .. k - 1) /\ Cardinality(1 .. k - 1) = k - 1
      <4>1. k \in Int /\ k - 1 \in Int /\ 1 <= (k - 1) + 1
        OBVIOUS
      <4>2. IsFiniteSet(1 .. k - 1) /\ Cardinality(1 .. k - 1) = (k - 1) + 1 - 1
        BY <4>1, PlacesCount
      <4>3. QED
        BY <4>1, <4>2
    <3>7. Cardinality(AtMost(s, v)) <= k - 1
      <4>1. PICK A, B : A = AtMost(s, v) /\ B = 1 .. k - 1
        OBVIOUS
      <4>2. Cardinality(A) <= Cardinality(B)
        BY <3>4, <3>5, <3>6, <4>1, CountedInto
      <4>3. QED
        BY <3>6, <4>1, <4>2
    <3>8. QED
      BY <2>2, <3>7
  <2>6. \A v \in reaching : v \in Nat
    BY <2>3
  <2> HIDE DEF reaching
  <2>7. Min(reaching) \in reaching /\ \A v \in reaching : Min(reaching) <= v
    BY <2>4, <2>5 DEF Min
  <2>8. Min(reaching) = s[order[k]]
    BY <2>4, <2>5, <2>6, <2>7
  <2>9. QED
    BY <2>8 DEF reaching
<1>4. QED
  BY <1>3 DEF Ascending

-------------------------------------------------------------------------------
(* The index a sort leaves.                                                *)

\* Buckets of the same lengths fill the same regions.
LEMMA StartSame ==
    ASSUME NEW b, NEW c, NEW m \in Nat,
           \A v \in 1 .. m : DOMAIN c[v] = DOMAIN b[v],
           NEW w \in 0 .. m
    PROVE  Start(c, w) = Start(b, w)
<1>1. {{v} \X DOMAIN c[v] : v \in 1 .. w} = {{v} \X DOMAIN b[v] : v \in 1 .. w}
  OBVIOUS
<1>2. QED
  BY <1>1 DEF Start

\* Rebinding leaves no empty bucket at the end, as it found none.
LEMMA SortedBuckets ==
    ASSUME NEW d, NEW b, NEW p, Coherent(d, b, p), Trimmed(b)
    PROVE  /\ ShrinkTrailing(SortedB(b)) = SortedB(b)
           /\ Len(SortedB(b)) = Len(b)
           /\ \A w \in 1 .. Len(b) : Len(SortedB(b)[w]) = Len(b[w])
           /\ \A w \in 1 .. Len(b) : DOMAIN SortedB(b)[w] = DOMAIN b[w]
           /\ \A w \in 1 .. Len(b) : \A k \in 1 .. Len(b[w]) :
                 SortedB(b)[w][k] = Start(b, w - 1) + k
<1> DEFINE rebound == SortedB(b)
<1>1. /\ b \in Seq(Seq(1 .. Len(d))) /\ Len(b) \in Nat /\ DOMAIN b = 1 .. Len(b)
      /\ \A w \in 1 .. Len(b) : DOMAIN b[w] = 1 .. Len(b[w]) /\ Len(b[w]) \in Nat
  BY DEF Coherent, Shaped
<1>2. rebound = [w \in 1 .. Len(b) |-> [k \in 1 .. Len(b[w]) |-> Start(b, w - 1) + k]]
  BY <1>1 DEF SortedB
<1>3. rebound \in Seq(Seq(1 .. Len(d))) /\ Len(rebound) = Len(b)
  <2> HIDE DEF rebound
  <2>1. \A w \in 1 .. Len(b) : rebound[w] = [k \in 1 .. Len(b[w]) |-> Start(b, w - 1) + k]
    BY <1>2
  <2>2. \A w \in 1 .. Len(b) : \A k \in 1 .. Len(b[w]) : Start(b, w - 1) + k \in 1 .. Len(d)
    BY SortedPlace
  <2>3. \A w \in 1 .. Len(b) : rebound[w] \in Seq(1 .. Len(d))
    <3>1. SUFFICES ASSUME NEW w \in 1 .. Len(b)
                   PROVE  rebound[w] \in Seq(1 .. Len(d))
      OBVIOUS
    <3>2. rebound[w] \in [1 .. Len(b[w]) -> 1 .. Len(d)] /\ Len(b[w]) \in Nat
      BY <1>1, <2>1, <2>2
    <3>3. QED
      BY <3>2
  <2>4. rebound = [w \in 1 .. Len(b) |-> rebound[w]]
    BY <1>2
  <2>5. QED
    BY <1>1, <2>3, <2>4
<1> HIDE DEF rebound
<1>4. \A w \in 1 .. Len(b) :
         /\ rebound[w] = [k \in 1 .. Len(b[w]) |-> Start(b, w - 1) + k]
         /\ DOMAIN rebound[w] = DOMAIN b[w] /\ Len(rebound[w]) = Len(b[w])
  BY <1>1, <1>2
<1>5. ShrinkTrailing(rebound) = rebound
  <2>1. PICK shrunk : shrunk = ShrinkTrailing(rebound)
    OBVIOUS
  <2>2. /\ shrunk \in Seq(Seq(1 .. Len(d))) /\ Len(shrunk) <= Len(b)
        /\ \A w \in 1 .. Len(shrunk) : shrunk[w] = rebound[w]
        /\ \A w \in 1 .. Len(b) : rebound[w] # <<>> => w <= Len(shrunk)
    BY <1>3, <2>1, ShrinkTrailingFacts
  <2>3. Len(shrunk) = Len(b)
    <3>1. CASE b = <<>>
      BY <1>1, <2>2, <3>1
    <3>2. CASE b # <<>>
      <4>1. Len(b) \in 1 .. Len(b) /\ b[Len(b)] # <<>>
        BY <1>1, <3>2 DEF Trimmed
      <4>2. Len(b[Len(b)]) # 0
        BY <1>1, <4>1
      <4>3. rebound[Len(b)] # <<>>
        BY <1>4, <4>1, <4>2
      <4>4. QED
        <5>1. Len(shrunk) \in Nat
          BY <2>2
        <5>2. Len(b) <= Len(shrunk)
          BY <2>2, <4>1, <4>3
        <5>3. Len(shrunk) <= Len(b)
          BY <2>2
        <5>4. QED
          BY <1>1, <5>1, <5>2, <5>3
    <3>3. QED
      BY <3>1, <3>2
  <2>4. QED
    <3>1. DOMAIN shrunk = 1 .. Len(b) /\ DOMAIN rebound = 1 .. Len(b)
      BY <1>3, <2>2, <2>3
    <3>2. shrunk = [w \in 1 .. Len(b) |-> shrunk[w]] /\ rebound = [w \in 1 .. Len(b) |-> rebound[w]]
      BY <1>3, <2>2, <3>1
    <3>3. QED
      BY <2>1, <2>2, <2>3, <3>2
<1>6. QED
  BY <1>3, <1>4, <1>5 DEF rebound

\* What the fields of the index become.
LEMMA SortedFields ==
    ASSUME IInv, NEW order, IsSortOrder(self, order), Become(Sorted(self, order))
    PROVE  /\ data' = SortedD(data, order) /\ buckets' = SortedB(buckets)
           /\ bucket_positions' = SortedP(data, buckets) /\ live_len' = live_len
<1>1. PICK sorted : sorted = Sorted(self, order)
  OBVIOUS
<1>2. /\ Valid(self) /\ self.data = data /\ self.buckets = buckets
      /\ self.live_len = live_len
  BY SelfFields DEF IInv
<1>3. sorted = Record(SortedD(data, order), ShrinkTrailing(SortedB(buckets)),
                      SortedP(data, buckets), live_len)
  <2>1. sorted = Record(SortedD(self.data, order), ShrinkTrailing(SortedB(self.buckets)),
                        SortedP(self.data, self.buckets), self.live_len)
    BY <1>1, <1>2, SortedValid
  <2>2. QED
    BY <1>2, <2>1
<1>4. ShrinkTrailing(SortedB(buckets)) = SortedB(buckets)
  BY CoherentNow, SortedBuckets
<1>5. /\ data' = sorted.data /\ buckets' = sorted.buckets
      /\ bucket_positions' = sorted.bucket_positions /\ live_len' = sorted.live_len
  BY <1>1 DEF Become
<1>6. QED
  BY <1>3, <1>4, <1>5, RecordFields

\* Storage and buckets as a sort leaves them: the live values ascend, and the
\* slots name the places from the first one on.
InOrder ==
    /\ \A w \in 1 .. Len(buckets) : \A k \in 1 .. Len(buckets[w]) :
          buckets[w][k] = Start(buckets, w - 1) + k
    /\ \A q, r \in 1 .. live_len : q < r => data[q] <= data[r]

LEMMA SortedInOrder ==
    ASSUME IInv, IInv', SarkarSort
    PROVE  InOrder'
<1>1. PICK order : IsSortOrder(self, order) /\ Become(Sorted(self, order))
  BY DEF SarkarSort
<1>2. PICK n, c : n = Start(buckets, Len(buckets)) /\ c = buckets'
  OBVIOUS
<1>3. c = SortedB(buckets)
  BY <1>1, <1>2, SortedFields
<1>4. /\ Len(c) = Len(buckets) /\ Len(buckets) \in Nat
      /\ \A w \in 1 .. Len(buckets) :
            Len(c[w]) = Len(buckets[w]) /\ DOMAIN c[w] = DOMAIN buckets[w]
      /\ \A w \in 1 .. Len(buckets) : \A k \in 1 .. Len(buckets[w]) :
            c[w][k] = Start(buckets, w - 1) + k
  BY <1>3, CoherentNow, SortedBuckets
<1>5. \A w \in 1 .. Len(buckets) : Start(c, w - 1) = Start(buckets, w - 1)
  <2>1. SUFFICES ASSUME NEW w \in 1 .. Len(buckets)
                 PROVE  Start(c, w - 1) = Start(buckets, w - 1)
    OBVIOUS
  <2>2. w - 1 \in 0 .. Len(buckets)
    BY <1>4
  <2>3. QED
    BY <1>4, <2>2, StartSame
<1>6. \A w \in 1 .. Len(c) : \A k \in 1 .. Len(c[w]) : c[w][k] = Start(c, w - 1) + k
  BY <1>4, <1>5
<1>7. \A q, r \in 1 .. live_len' : q < r => data'[q] <= data'[r]
  <2>1. /\ n \in Nat /\ n <= Len(data) /\ n = live_len /\ live_len' = live_len
        /\ \A q \in 1 .. Len(data) : data'[q] = data[order[q]]
    BY <1>1, <1>2, SortedStorage
  <2>2. SUFFICES ASSUME NEW q \in 1 .. n, NEW r \in 1 .. n, q < r
                 PROVE  data'[q] <= data'[r]
    BY <2>1
  <2>3. data[order[q]] <= data[order[r]]
    <3>1. Valid(self) /\ self.data = data /\ self.buckets = buckets
      BY SelfFields DEF IInv
    <3>2. QED
      BY <1>1, <1>2, <2>2, <3>1, SortOrderAscends
  <2>4. q \in 1 .. Len(data) /\ r \in 1 .. Len(data) /\ Len(data) \in Nat
    BY <2>1, CoherentNow
  <2>5. QED
    BY <2>1, <2>3, <2>4
<1>8. QED
  BY <1>2, <1>6, <1>7 DEF InOrder, Start

\* Between a sort and the next call nothing changes.
SortedInv == reply.op = "sarkar_sort" => InOrder

LEMMA SortedInvHolds == IInv /\ IInv' /\ SortedInv /\ [Next]_vars => SortedInv'
<1> SUFFICES ASSUME IInv, IInv', SortedInv, [Next]_vars, (reply.op)' = "sarkar_sort"
             PROVE  InOrder'
  BY DEF SortedInv
<1>1. CASE SarkarSort
  BY <1>1, SortedInOrder
<1>2. CASE UNCHANGED vars
  BY <1>2 DEF SortedInv, InOrder, vars, Start
<1>3. QED
  BY <1>1, <1>2, SortReplies

LEMMA SortedStays == Spec => []SortedInv
<1>1. Init => SortedInv
  <2> SUFFICES ASSUME Init
               PROVE  reply.op # "sarkar_sort"
    BY DEF SortedInv
  <2>1. PICK r : r = reply
    OBVIOUS
  <2>2. r.op = "new"
    BY <2>1 DEF Init, Reply
  <2>3. QED
    BY <2>1, <2>2
<1>2. QED
  BY <1>1, SortedInvHolds, IndexValid, PTL DEF Spec

\* In an index as a sort leaves it the live entries are those in front.
LEMMA InOrderLive ==
    ASSUME IInv, InOrder, NEW n, n = Start(buckets, Len(buckets))
    PROVE  /\ LiveIds = 1 .. n
           /\ n \in Nat /\ n <= Len(data) /\ n = live_len
           /\ \A w \in 1 .. Len(buckets) : Range(buckets[w]) = Region(buckets, w)
<1>1. PICK d, b, p : d = data /\ b = buckets /\ p = bucket_positions
  OBVIOUS
<1>2. Coherent(d, b, p) /\ LiveIds = LiveIn(d, p) /\ n = Start(b, Len(b))
  BY <1>1, CoherentNow
<1>3. \A w \in 1 .. Len(b) : \A k \in 1 .. Len(b[w]) : b[w][k] = Start(b, w - 1) + k
  BY <1>1 DEF InOrder
<1>4. n \in Nat /\ n <= Len(d) /\ n = live_len /\ Len(d) \in Nat
  BY <1>1, CoherentNow, SlotsCount, LiveInFinite
<1>5. \A id \in LiveIn(d, p) : id \in 1 .. n
  <2>1. SUFFICES ASSUME NEW id \in LiveIn(d, p)
                 PROVE  id \in 1 .. n
    OBVIOUS
  <2>2. PICK w \in 1 .. Len(b) : \E k \in 1 .. Len(b[w]) : b[w][k] = id
    BY <1>2 DEF LiveIn, Coherent, Linked
  <2>3. PICK k \in 1 .. Len(b[w]) : b[w][k] = id
    BY <2>2
  <2>4. QED
    BY <1>2, <1>3, <2>3, SortedPlace
<1>6. \A q \in 1 .. n : q \in LiveIn(d, p)
  <2>1. SUFFICES ASSUME NEW q \in 1 .. n
                 PROVE  q \in LiveIn(d, p)
    OBVIOUS
  <2>2. PICK w \in 1 .. Len(b) : \E k \in 1 .. Len(b[w]) : q = Start(b, w - 1) + k
    BY <1>2, PlaceOffset
  <2>3. PICK k \in 1 .. Len(b[w]) : q = Start(b, w - 1) + k
    BY <2>2
  <2>4. q = b[w][k]
    BY <1>3, <2>3
  <2>5. QED
    BY <1>2, <2>4, SlotIsLive DEF LiveIn
<1>7. ASSUME NEW w \in 1 .. Len(b)
      PROVE  Range(b[w]) = Region(b, w)
  <2>1. PICK first : first = Start(b, w - 1)
    OBVIOUS
  <2>2. first \in Nat /\ Region(b, w) = first + 1 .. first + Len(b[w]) /\ Len(b[w]) \in Nat
    BY <1>2, <2>1, RegionPlaces
  <2>3. DOMAIN b[w] = 1 .. Len(b[w]) /\ \A k \in 1 .. Len(b[w]) : b[w][k] = first + k
    BY <1>2, <1>3, <2>1 DEF Coherent, Shaped
  <2>4. \A q \in Region(b, w) : \E k \in 1 .. Len(b[w]) : q = first + k
    <3>1. SUFFICES ASSUME NEW q \in first + 1 .. first + Len(b[w])
                   PROVE  \E k \in 1 .. Len(b[w]) : q = first + k
      BY <2>2
    <3>2. q - first \in 1 .. Len(b[w]) /\ q = first + (q - first)
      BY <2>2
    <3>3. QED
      BY <3>2
  <2>5. \A k \in 1 .. Len(b[w]) : first + k \in Region(b, w)
    BY <2>2
  <2>6. QED
    BY <2>3, <2>4, <2>5 DEF Range
<1>8. QED
  BY <1>1, <1>2, <1>4, <1>5, <1>6, <1>7

\* Whatever order Phase A gives to equal values, a sort of sorted storage puts
\* the value that is there at every place.
LEMMA InOrderUnmoved ==
    ASSUME IInv, InOrder, NEW order, IsSortOrder(self, order), NEW q \in 1 .. Len(data)
    PROVE  data[order[q]] = data[q]
<1>1. PICK d, b, n : d = data /\ b = buckets /\ n = Start(b, Len(b))
  OBVIOUS
<1>2. /\ LiveIds = 1 .. n /\ n \in Nat /\ n <= Len(d) /\ n = live_len
      /\ \A w \in 1 .. Len(b) : Range(b[w]) = Region(b, w)
  BY <1>1, InOrderLive
<1>3. /\ Coherent(d, b, bucket_positions) /\ Len(d) \in Nat /\ DOMAIN b = 1 .. Len(b)
      /\ DOMAIN d = 1 .. Len(d) /\ Len(b) \in Nat /\ \A r \in 1 .. Len(d) : d[r] \in Nat
  <2>1. Coherent(d, b, bucket_positions) /\ Len(d) \in Nat /\ DOMAIN b = 1 .. Len(b)
    BY <1>1, CoherentNow
  <2>2. d \in Seq(Values) /\ \A v \in Values : v \in Nat
    BY <2>1, ClientAssumption DEF Coherent, Shaped, U64
  <2>3. QED
    BY <2>1, <2>2 DEF Coherent, Shaped
<1>4. CASE q \in 1 .. n
  <2>1. PICK w \in 1 .. Len(b) : q \in Region(b, w)
    BY <1>1, <1>3, <1>4, RegionOf
  <2>2. PICK lo, hi : lo = Start(b, w - 1) + 1 /\ hi = Start(b, w)
    OBVIOUS
  <2>3. /\ lo \in Nat /\ hi \in Nat /\ Region(b, w) = lo .. hi
        /\ \A r \in lo .. hi : r \in 1 .. n
    <3>1. w - 1 \in 0 .. Len(b) /\ w \in 0 .. Len(b)
      BY <1>3
    <3>2. lo \in Nat /\ hi \in Nat
      BY <1>3, <2>2, <3>1, StartType
    <3>3. Region(b, w) = lo .. hi
      BY <2>2 DEF Region
    <3>4. Region(b, w) \in SUBSET (1 .. n)
      BY <1>1, <1>3, RegionPlaces
    <3>5. QED
      BY <3>2, <3>3, <3>4
  <2>4. /\ {order[r] : r \in Region(b, w)} = Range(b[w])
        /\ \A r, t \in Region(b, w) : r < t => d[order[r]] <= d[order[t]]
    BY <1>1, <1>3, SelfFields DEF IsSortOrder, Fills
  <2>5. \A r \in lo .. hi : order[r] \in lo .. hi
    BY <1>2, <2>3, <2>4
  <2>6. \A r, t \in 1 .. n : order[r] = order[t] => r = t
    <3>1. PICK live : live = LiveIn(self.data, self.bucket_positions)
      OBVIOUS
    <3>2. Valid(self) /\ n = Start(self.buckets, Len(self.buckets))
      BY <1>1, SelfFields DEF IInv
    <3>3. QED
      BY <3>1, <3>2, SortOrderLive
  <2>7. \A r, t \in lo .. hi : order[r] = order[t] => r = t
    BY <2>3, <2>6
  <2>8. \A r, t \in 1 .. n : r < t => d[r] <= d[t]
    BY <1>1, <1>2 DEF InOrder
  <2>9. \A r, t \in lo .. hi : r < t => d[r] <= d[t]
    BY <2>3, <2>8
  <2>10. \A r \in lo .. hi : d[r] \in Nat
    <3>1. SUFFICES ASSUME NEW r \in lo .. hi
                   PROVE  d[r] \in Nat
      OBVIOUS
    <3>2. r \in 1 .. n
      BY <2>3
    <3>3. r \in 1 .. Len(d)
      BY <1>2, <1>3, <3>2
    <3>4. QED
      BY <1>3, <3>3
  <2>11. \A r, t \in lo .. hi : r < t => d[order[r]] <= d[order[t]]
    BY <2>3, <2>4
  <2>12. q \in lo .. hi
    BY <2>1, <2>3
  <2>13. d[order[q]] = d[q]
    <3>1. Resorts(order, d, lo, hi)
      BY <2>5, <2>7, <2>9, <2>10, <2>11 DEF Resorts
    <3>2. QED
      BY <2>3, <2>12, <3>1, Unmoved
  <2>14. QED
    BY <1>1, <2>13
<1>5. CASE q \in n + 1 .. Len(d)
  <2> DEFINE itself == [r \in n + 1 .. Len(d) |-> r]
  <2>1. \A id \in DOMAIN data \ LiveIds : id \in n + 1 .. Len(d)
    BY <1>1, <1>2, <1>3
  <2>2. /\ \A r \in n + 1 .. Len(d) : order[r] \in DOMAIN data \ LiveIds
        /\ \A r, t \in n + 1 .. Len(d) : r < t => order[r] < order[t]
    BY <1>1, SortOrderRemoved
  <2>3. \A r \in n + 1 .. Len(d) : order[r] \in n + 1 .. Len(d)
    BY <2>1, <2>2
  <2>4. \A r, t \in n + 1 .. Len(d) : order[r] = order[t] => r = t
    <3>1. SUFFICES ASSUME NEW r \in n + 1 .. Len(d), NEW t \in n + 1 .. Len(d),
                          order[r] = order[t]
                   PROVE  r = t
      OBVIOUS
    <3>2. order[r] \in Nat /\ r \in Nat /\ t \in Nat
      BY <1>2, <1>3, <2>3
    <3>3. ~ (r < t) /\ ~ (t < r)
      BY <2>2, <3>1, <3>2
    <3>4. QED
      BY <3>2, <3>3
  <2>5. \A r, t \in n + 1 .. Len(d) : r < t => itself[order[r]] <= itself[order[t]]
    <3>1. SUFFICES ASSUME NEW r \in n + 1 .. Len(d), NEW t \in n + 1 .. Len(d), r < t
                   PROVE  itself[order[r]] <= itself[order[t]]
      OBVIOUS
    <3>2. order[r] < order[t] /\ order[r] \in n + 1 .. Len(d) /\ order[t] \in n + 1 .. Len(d)
      BY <2>2, <2>3, <3>1
    <3>3. order[r] <= order[t]
      BY <1>2, <1>3, <3>2
    <3>4. QED
      BY <3>2, <3>3
  <2>6. /\ \A r \in n + 1 .. Len(d) : itself[r] \in Nat
        /\ \A r, t \in n + 1 .. Len(d) : r < t => itself[r] <= itself[t]
        /\ n + 1 \in Nat
    BY <1>2, <1>3
  <2> HIDE DEF itself
  <2>7. itself[order[q]] = itself[q]
    <3>1. Resorts(order, itself, n + 1, Len(d))
      BY <2>3, <2>4, <2>5, <2>6 DEF Resorts
    <3>2. QED
      BY <1>3, <1>5, <2>6, <3>1, Unmoved
  <2>8. order[q] = q
    BY <1>5, <2>3, <2>7 DEF itself
  <2>9. QED
    BY <2>8
<1>6. QED
  BY <1>1, <1>2, <1>3, <1>4, <1>5

\* Sorting what was just sorted changes neither storage nor index, although
\* equal values and the cycles of Phase B could trade places.
THEOREM SortsOnce == Spec => SortIdempotent
<1>1. ASSUME IInv, InOrder, SarkarSort
      PROVE  UNCHANGED store
  <2>1. PICK order : IsSortOrder(self, order) /\ Become(Sorted(self, order))
    BY <1>1 DEF SarkarSort
  <2>2. PICK d, b, p : d = data /\ b = buckets /\ p = bucket_positions
    OBVIOUS
  <2>3. /\ Coherent(d, b, p) /\ d \in Seq(Values) /\ Len(d) \in Nat
        /\ p \in Seq(Offsets) /\ Len(p) = Len(d) /\ b \in Seq(Seq(1 .. Len(d)))
    BY <1>1, <2>2, CoherentNow DEF Coherent, Shaped
  <2>4. /\ DOMAIN d = 1 .. Len(d) /\ DOMAIN p = 1 .. Len(d) /\ DOMAIN b = 1 .. Len(b)
        /\ d = [q \in 1 .. Len(d) |-> d[q]]
        /\ p = [q \in 1 .. Len(d) |-> p[q]]
        /\ b = [w \in 1 .. Len(b) |-> b[w]]
        /\ \A w \in 1 .. Len(b) : b[w] = [k \in DOMAIN b[w] |-> b[w][k]]
        /\ \A w \in 1 .. Len(b) : DOMAIN b[w] = 1 .. Len(b[w])
    BY <2>3
  <2>5. SortedD(d, order) = d
    <3>1. \A q \in 1 .. Len(d) : d[order[q]] = d[q]
      BY <1>1, <2>1, <2>2, InOrderUnmoved
    <3>2. QED
      BY <2>4, <3>1 DEF SortedD
  <2>6. \A w \in 1 .. Len(b) : \A k \in 1 .. Len(b[w]) : b[w][k] = Start(b, w - 1) + k
    BY <1>1, <2>2 DEF InOrder
  <2>7. SortedB(b) = b
    <3>1. \A w \in 1 .. Len(b) : [k \in DOMAIN b[w] |-> Start(b, w - 1) + k] = b[w]
      BY <2>4, <2>6
    <3>2. QED
      BY <2>4, <3>1 DEF SortedB
  <2>8. SortedP(d, b) = p
    <3>1. PICK n : n = Start(b, Len(b))
      OBVIOUS
    <3>2. LiveIn(d, p) = 1 .. n /\ n \in Nat
      BY <1>1, <2>2, <3>1, InOrderLive, LiveIdsAre
    <3>3. ASSUME NEW q \in 1 .. Len(d)
          PROVE  SortedP(d, b)[q] = p[q]
      <4>1. CASE q \in 1 .. n
        <5>1. PICK w \in 1 .. Len(b) : \E k \in 1 .. Len(b[w]) : q = Start(b, w - 1) + k
          BY <2>3, <3>1, <4>1, PlaceOffset
        <5>2. PICK k \in 1 .. Len(b[w]) : q = Start(b, w - 1) + k
          BY <5>1
        <5>3. SortedP(d, b)[q] = k
          BY <2>3, <5>2, SortedPlace
        <5>4. p[b[w][k]] = k /\ b[w][k] = q
          BY <2>3, <2>6, <5>2 DEF Coherent, Routed
        <5>5. QED
          BY <5>3, <5>4
      <4>2. CASE q > n
        <5>1. SortedP(d, b)[q] = REMOVED_POSITION
          BY <2>4, <3>1, <4>2 DEF SortedP
        <5>2. q \notin LiveIn(d, p)
          BY <3>2, <4>2
        <5>3. QED
          BY <5>1, <5>2 DEF LiveIn
      <4>3. QED
        BY <3>2, <4>1, <4>2
    <3>4. SortedP(d, b) = [q \in 1 .. Len(d) |-> SortedP(d, b)[q]]
      BY <2>4 DEF SortedP
    <3>5. QED
      BY <2>4, <3>3, <3>4
  <2>9. /\ data' = SortedD(data, order) /\ buckets' = SortedB(buckets)
        /\ bucket_positions' = SortedP(data, buckets) /\ live_len' = live_len
    BY <1>1, <2>1, SortedFields
  <2>10. QED
    BY <2>2, <2>5, <2>7, <2>8, <2>9 DEF store
<1>2. IInv /\ SortedInv /\ [Next]_vars =>
         [reply.op = "sarkar_sort" /\ reply'.op = "sarkar_sort" => UNCHANGED store]_vars
  BY <1>1, SortReplies DEF SortedInv
<1>3. QED
  BY <1>2, IndexValid, SortedStays, PTL DEF Spec, SortIdempotent

-------------------------------------------------------------------------------
(* The snapshot: the concatenation of the sorted buckets is a recursive    *)
(* function again.                                                         *)

JoinedAlong(bs, m, f) ==
    f = [w \in 0 .. m |-> IF w = 0 THEN <<>> ELSE f[w - 1] \o bs[w]]

LEMMA JoinedExtended ==
    ASSUME NEW bs, NEW m \in Nat, m # 0, NEW f, JoinedAlong(bs, m - 1, f)
    PROVE  \E g : JoinedAlong(bs, m, g)
<1> DEFINE last == f[m - 1] \o bs[m]
           g == [w \in 0 .. m |-> IF w = m THEN last ELSE f[w]]
<1>1. \A w \in 0 .. m : g[w] = IF w = 0 THEN <<>> ELSE g[w - 1] \o bs[w]
  <2> SUFFICES ASSUME NEW w \in 0 .. m
               PROVE  g[w] = IF w = 0 THEN <<>> ELSE g[w - 1] \o bs[w]
    OBVIOUS
  <2>1. CASE w = m
    <3>1. m - 1 \in 0 .. m /\ m - 1 # m
      OBVIOUS
    <3>2. g[m - 1] = f[m - 1] /\ g[m] = last
      <4> HIDE DEF last
      <4>1. QED
        BY <3>1
    <3> HIDE DEF g
    <3>3. QED
      BY <2>1, <3>2
  <2>2. CASE w # m
    <3>1. w \in 0 .. m - 1
      BY <2>2
    <3>2. f[w] = IF w = 0 THEN <<>> ELSE f[w - 1] \o bs[w]
      BY <3>1 DEF JoinedAlong
    <3>3. w # 0 => w - 1 \in 0 .. m /\ w - 1 # m
      OBVIOUS
    <3>4. g[w] = f[w] /\ (w # 0 => g[w - 1] = f[w - 1])
      BY <2>2, <3>3
    <3> HIDE DEF g
    <3>5. QED
      BY <3>2, <3>4
  <2>3. QED
    BY <2>1, <2>2
<1>2. g = [w \in 0 .. m |-> g[w]]
  OBVIOUS
<1> HIDE DEF g
<1>3. JoinedAlong(bs, m, g)
  BY <1>1, <1>2 DEF JoinedAlong
<1>4. QED
  BY <1>3

LEMMA JoinedExists ==
    ASSUME NEW bs, NEW m \in Nat
    PROVE  \E f : JoinedAlong(bs, m, f)
<1> DEFINE missing == {n \in Nat : ~ \E f : JoinedAlong(bs, n, f)}
<1> SUFFICES ASSUME missing # {}
             PROVE  FALSE
  OBVIOUS
<1>1. missing \in SUBSET Nat
  OBVIOUS
<1>2. PICK n \in missing : \A k \in missing : n <= k
  <2> HIDE DEF missing
  <2>1. QED
    BY <1>1, LeastNat
<1>3. CASE n = 0
  <2>1. PICK f : f = [w \in 0 .. 0 |-> <<>>]
    OBVIOUS
  <2>2. JoinedAlong(bs, 0, f)
    BY <2>1 DEF JoinedAlong
  <2>3. QED
    BY <1>3, <2>2
<1>4. CASE n # 0
  <2>1. n \in Nat /\ n - 1 \in Nat /\ ~ (n <= n - 1)
    BY <1>4
  <2>2. n - 1 \notin missing
    BY <1>2, <2>1
  <2>3. PICK f : JoinedAlong(bs, n - 1, f)
    BY <2>1, <2>2
  <2>4. \E g : JoinedAlong(bs, n, g)
    BY <1>4, <2>1, <2>3, JoinedExtended
  <2>5. QED
    BY <2>4
<1>5. QED
  BY <1>3, <1>4

\* Where a vector begins in the concatenation, for each of the first m of them.
Begins(first, bs, m) ==
    /\ \A w \in 0 .. m : first[w] \in Nat
    /\ first[0] = 0
    /\ \A w \in 1 .. m : first[w] = first[w - 1] + Len(bs[w])
    /\ \A w \in 0 .. m : \A v \in 0 .. w : first[v] <= first[w]

\* The first m vectors, one after another.
Joins(list, S, first, bs, m) ==
    /\ list \in Seq(S) /\ Len(list) = first[m]
    /\ \A w \in 1 .. m : \A k \in 1 .. Len(bs[w]) : list[first[w - 1] + k] = bs[w][k]

LEMMA ConcatFacts ==
    ASSUME NEW S, NEW a \in Seq(S), NEW b \in Seq(S), NEW c, c = a \o b
    PROVE  /\ c \in Seq(S) /\ Len(c) = Len(a) + Len(b)
           /\ Len(a) \in Nat /\ Len(b) \in Nat
           /\ \A i \in 1 .. Len(a) : c[i] = a[i]
           /\ \A k \in 1 .. Len(b) : c[Len(a) + k] = b[k]
OBVIOUS

LEMMA JoinsAll ==
    ASSUME NEW S, NEW bs \in Seq(Seq(S)), NEW first, Begins(first, bs, Len(bs)),
           NEW f, JoinedAlong(bs, Len(bs), f), NEW m \in 0 .. Len(bs)
    PROVE  Joins(f[m], S, first, bs, m)
<1> DEFINE bad == {n \in 0 .. Len(bs) : ~ Joins(f[n], S, first, bs, n)}
<1>1. Len(bs) \in Nat
  OBVIOUS
<1> SUFFICES ASSUME bad # {}
             PROVE  FALSE
  OBVIOUS
<1>2. bad \in SUBSET Nat
  BY <1>1
<1>3. PICK n \in bad : \A k \in bad : n <= k
  <2> HIDE DEF bad
  <2>1. QED
    BY <1>2, LeastNat
<1>4. n \in 0 .. Len(bs) /\ ~ Joins(f[n], S, first, bs, n)
  BY <1>3
<1>5. f[n] = IF n = 0 THEN <<>> ELSE f[n - 1] \o bs[n]
  BY <1>4 DEF JoinedAlong
<1>6. CASE n = 0
  <2>1. Joins(<<>>, S, first, bs, 0)
    BY <1>1 DEF Joins, Begins
  <2>2. QED
    BY <1>4, <1>5, <1>6, <2>1
<1>7. CASE n # 0
  <2>1. n - 1 \in 0 .. Len(bs) /\ ~ (n <= n - 1) /\ n \in 1 .. Len(bs)
    BY <1>1, <1>4, <1>7
  <2>2. PICK shorter, last, list : shorter = f[n - 1] /\ last = bs[n] /\ list = shorter \o last
    OBVIOUS
  <2>3. Joins(shorter, S, first, bs, n - 1)
    BY <1>3, <2>1, <2>2
  <2>4. f[n] = list
    BY <1>5, <1>7, <2>2
  <2>5. shorter \in Seq(S) /\ last \in Seq(S) /\ Len(shorter) = first[n - 1]
    BY <2>1, <2>2, <2>3 DEF Joins
  <2>6. /\ list \in Seq(S) /\ Len(list) = Len(shorter) + Len(last)
        /\ Len(shorter) \in Nat /\ Len(last) \in Nat
        /\ \A i \in 1 .. Len(shorter) : list[i] = shorter[i]
        /\ \A k \in 1 .. Len(last) : list[Len(shorter) + k] = last[k]
    <3>1. list = shorter \o last
      BY <2>2
    <3>2. shorter \in Seq(S) /\ last \in Seq(S)
      BY <2>5
    <3>3. list \in Seq(S)
      BY <3>1, <3>2, ConcatFacts
    <3>4. Len(list) = Len(shorter) + Len(last)
      BY <3>1, <3>2, ConcatFacts
    <3>5. Len(shorter) \in Nat /\ Len(last) \in Nat
      BY <3>1, <3>2, ConcatFacts
    <3>6. \A i \in 1 .. Len(shorter) : list[i] = shorter[i]
      BY <3>1, <3>2, ConcatFacts
    <3>7. \A k \in 1 .. Len(last) : list[Len(shorter) + k] = last[k]
      BY <3>1, <3>2, ConcatFacts
    <3>8. QED
      BY <3>3, <3>4, <3>5, <3>6, <3>7
  <2>7. first[n] = Len(list)
    BY <2>1, <2>2, <2>5, <2>6 DEF Begins
  <2>8. ASSUME NEW w \in 1 .. n, NEW k \in 1 .. Len(bs[w])
        PROVE  list[first[w - 1] + k] = bs[w][k]
    <3>1. CASE w = n
      BY <2>2, <2>5, <2>6, <3>1
    <3>2. CASE w # n
      <4>1. w \in 1 .. n - 1 /\ n - 1 \in Nat
        BY <2>1, <3>2
      <4>2. shorter[first[w - 1] + k] = bs[w][k]
        BY <2>3, <4>1 DEF Joins
      <4>3. bs[w] \in Seq(S) /\ Len(bs[w]) \in Nat
        BY <1>1, <2>1, <4>1
      <4>4. first[w - 1] + k \in 1 .. Len(shorter)
        <5>1. /\ w \in 1 .. Len(bs) /\ w - 1 \in 0 .. Len(bs) /\ w \in 0 .. Len(bs)
              /\ w \in 0 .. n - 1 /\ n - 1 \in 0 .. Len(bs)
          BY <1>1, <2>1, <4>1
        <5>2. first[w - 1] \in Nat /\ first[w] = first[w - 1] + Len(bs[w])
          BY <5>1 DEF Begins
        <5>3. first[w] <= first[n - 1] /\ first[n - 1] \in Nat
          BY <5>1 DEF Begins
        <5>4. PICK a, b, c, l : /\ a = first[w - 1] /\ b = first[w] /\ c = first[n - 1]
                                /\ l = Len(bs[w])
          OBVIOUS
        <5>5. a \in Nat /\ l \in Nat /\ b = a + l /\ b <= c /\ c \in Nat /\ k \in 1 .. l
          BY <4>3, <5>2, <5>3, <5>4
        <5>6. a + k \in 1 .. c
          BY <5>5
        <5>7. QED
          BY <2>5, <5>4, <5>6
      <4>5. QED
        BY <2>6, <4>2, <4>4
    <3>3. QED
      BY <3>1, <3>2
  <2>9. Joins(list, S, first, bs, n)
    BY <2>6, <2>7, <2>8 DEF Joins
  <2>10. QED
    BY <1>4, <2>4, <2>9
<1>8. QED
  BY <1>6, <1>7

LEMMA ConcatenatedJoins ==
    ASSUME NEW S, NEW bs \in Seq(Seq(S)), NEW first, Begins(first, bs, Len(bs))
    PROVE  Joins(Concatenated(bs), S, first, bs, Len(bs))
<1>1. Len(bs) \in Nat /\ Len(bs) \in 0 .. Len(bs)
  OBVIOUS
<1>2. PICK f : f = CHOOSE g : JoinedAlong(bs, Len(bs), g)
  OBVIOUS
<1>3. JoinedAlong(bs, Len(bs), f)
  BY <1>1, <1>2, JoinedExists
<1>4. Concatenated(bs) = f[Len(bs)]
  BY Zenon, <1>2 DEF Concatenated, JoinedAlong
<1>5. QED
  BY <1>1, <1>3, <1>4, JoinsAll

\* The snapshot of storage d and buckets b.
ValuesOf(d, bucket) == [k \in DOMAIN bucket |-> d[bucket[k]]]

Snapshot(d, b) == Concatenated([w \in DOMAIN b |-> Ascending(ValuesOf(d, b[w]))])

\* The first n places of t hold numbers, in the region of each bucket the sorted
\* values of that bucket.
Receives(t, d, b, n) ==
    /\ \A q \in 1 .. n : t[q] \in Nat
    /\ \A w \in 1 .. Len(b) :
          Ascending(ValuesOf(d, b[w])) = [k \in 1 .. Len(b[w]) |-> t[Start(b, w - 1) + k]]

\* The snapshot is what such places hold.
LEMMA SnapshotIs ==
    ASSUME NEW d, NEW b, NEW p, Coherent(d, b, p), NEW n, n = Start(b, Len(b)),
           NEW t, Receives(t, d, b, n)
    PROVE  Snapshot(d, b) = [q \in 1 .. n |-> t[q]]
<1> DEFINE parts == [w \in DOMAIN b |-> Ascending(ValuesOf(d, b[w]))]
           first == [w \in 0 .. Len(b) |-> Start(b, w)]
<1>1. DOMAIN b = 1 .. Len(b) /\ Len(b) \in Nat
  BY DEF Coherent, Shaped
<1> USE DEF Receives
<1>2. \A w \in 1 .. Len(b) : \A k \in 1 .. Len(b[w]) : Start(b, w - 1) + k \in 1 .. n
  BY SortedPlace
<1>3. \A w \in 1 .. Len(b) : Len(b[w]) \in Nat
  BY RegionPlaces
<1>4. parts \in Seq(Seq(Nat)) /\ Len(parts) = Len(b)
      /\ \A w \in 1 .. Len(b) : Len(parts[w]) = Len(b[w])
  <2>1. \A w \in 1 .. Len(b) : parts[w] = [k \in 1 .. Len(b[w]) |-> t[Start(b, w - 1) + k]]
    BY <1>1
  <2>2. parts = [w \in 1 .. Len(b) |-> parts[w]]
    BY <1>1
  <2> HIDE DEF parts
  <2>3. ASSUME NEW w \in 1 .. Len(b)
        PROVE  parts[w] \in Seq(Nat) /\ Len(parts[w]) = Len(b[w])
    <3>1. Len(b[w]) \in Nat /\ \A k \in 1 .. Len(b[w]) : t[Start(b, w - 1) + k] \in Nat
      BY <1>2, <1>3
    <3>2. parts[w] \in [1 .. Len(b[w]) -> Nat]
      BY <2>1, <3>1
    <3>3. PICK part, m : part = parts[w] /\ m = Len(b[w])
      OBVIOUS
    <3>4. part \in [1 .. m -> Nat] /\ m \in Nat
      BY <3>1, <3>2, <3>3
    <3>5. part \in Seq(Nat) /\ Len(part) = m
      BY <3>4
    <3>6. QED
      BY <3>3, <3>5
  <2>4. QED
    BY <1>1, <2>2, <2>3
<1>5. \A w \in 1 .. Len(b) : \A k \in 1 .. Len(b[w]) : parts[w][k] = t[Start(b, w - 1) + k]
  BY <1>1
<1>6. Begins(first, parts, Len(parts))
  <2>1. \A w \in 0 .. Len(b) : first[w] \in Nat
    BY StartType
  <2>2. first[0] = 0
    BY <1>1, StartZero
  <2>3. ASSUME NEW w \in 1 .. Len(b)
        PROVE  first[w] = first[w - 1] + Len(b[w])
    <3>1. w \in 0 .. Len(b) /\ w - 1 \in 0 .. Len(b)
      BY <1>1
    <3>2. QED
      BY <3>1, StartStep
  <2>4. ASSUME NEW w \in 0 .. Len(b), NEW v \in 0 .. w
        PROVE  first[v] <= first[w]
    <3>1. v \in 0 .. Len(b)
      BY <1>1
    <3>2. QED
      BY <3>1, StartMonotone
  <2> HIDE DEF first, parts
  <2>5. QED
    BY <1>4, <2>1, <2>2, <2>3, <2>4 DEF Begins
<1>7. \A w \in 1 .. Len(b) : first[w - 1] = Start(b, w - 1)
  BY <1>1
<1>8. first[Len(b)] = n /\ n \in Nat
  BY <1>1, StartType
<1>9. Snapshot(d, b) = Concatenated(parts)
  BY DEF Snapshot
<1> HIDE DEF first, parts
<1>10. Joins(Concatenated(parts), Nat, first, parts, Len(parts))
  BY <1>4, <1>6, ConcatenatedJoins
<1>11. PICK list : list = Concatenated(parts)
  OBVIOUS
<1>12. /\ list \in Seq(Nat) /\ Len(list) = n
       /\ \A w \in 1 .. Len(b) : \A k \in 1 .. Len(b[w]) :
             list[Start(b, w - 1) + k] = t[Start(b, w - 1) + k]
  <2>1. Joins(list, Nat, first, parts, Len(b))
    BY <1>4, <1>10, <1>11
  <2>2. list \in Seq(Nat) /\ Len(list) = n
    BY <1>8, <2>1 DEF Joins
  <2>3. \A w \in 1 .. Len(b) : \A k \in 1 .. Len(b[w]) :
           list[Start(b, w - 1) + k] = t[Start(b, w - 1) + k]
    <3>1. SUFFICES ASSUME NEW w \in 1 .. Len(b), NEW k \in 1 .. Len(b[w])
                   PROVE  list[Start(b, w - 1) + k] = t[Start(b, w - 1) + k]
      OBVIOUS
    <3>2. k \in 1 .. Len(parts[w])
      BY <1>4
    <3>3. list[first[w - 1] + k] = parts[w][k]
      BY <2>1, <3>2 DEF Joins
    <3>4. QED
      BY <1>5, <1>7, <3>3
  <2>4. QED
    BY <2>2, <2>3
<1>13. ASSUME NEW q \in 1 .. n
       PROVE  list[q] = t[q]
  <2>1. PICK w \in 1 .. Len(b) : \E k \in 1 .. Len(b[w]) : q = Start(b, w - 1) + k
    BY PlaceOffset
  <2>2. QED
    BY <1>12, <2>1
<1>14. list = [q \in 1 .. n |-> list[q]]
  BY <1>12
<1>15. QED
  BY <1>9, <1>11, <1>13, <1>14

\* The region of a bucket receives its values in ascending order.
LEMMA RegionAscends ==
    ASSUME IInv, NEW order, IsSortOrder(self, order), NEW w \in 1 .. Len(buckets),
           NEW first, first = Start(buckets, w - 1)
    PROVE  Ascending(ValuesOf(data, buckets[w]))
              = [k \in 1 .. Len(buckets[w]) |-> data[order[first + k]]]
<1>1. PICK d, b, p, n : /\ d = data /\ b = buckets /\ p = bucket_positions
                        /\ n = Start(b, Len(b))
  OBVIOUS
<1>2. PICK bucket, m : bucket = b[w] /\ m = Len(bucket)
  OBVIOUS
<1>3. Coherent(d, b, p) /\ DOMAIN b = 1 .. Len(b) /\ w \in 1 .. Len(b)
  BY <1>1, CoherentNow
<1>4. /\ first \in Nat /\ m \in Nat /\ Region(b, w) = first + 1 .. first + m
      /\ \A q \in Region(b, w) : q \in 1 .. n
  BY <1>1, <1>2, <1>3, RegionPlaces
<1>5. DOMAIN bucket = 1 .. m /\ \A k \in 1 .. m : bucket[k] \in 1 .. Len(d) /\ p[bucket[k]] = k
  <2>1. b \in Seq(Seq(1 .. Len(d)))
    BY <1>3 DEF Coherent, Shaped
  <2>2. bucket \in Seq(1 .. Len(d))
    BY <1>2, <1>3, <2>1
  <2>3. \A k \in 1 .. m : p[bucket[k]] = k
    BY <1>2, <1>3 DEF Coherent, Routed
  <2>4. QED
    BY <1>2, <2>2, <2>3
<1>6. /\ {order[q] : q \in Region(b, w)} = Range(bucket)
      /\ \A q, r \in Region(b, w) : q < r => d[order[q]] <= d[order[r]]
  BY <1>1, <1>2, <1>3, SelfFields DEF IsSortOrder, Fills
<1>7. \A k \in 1 .. m : first + k \in Region(b, w)
  BY <1>4
<1> DEFINE from == [k \in 1 .. m |-> p[order[first + k]]]
           values == ValuesOf(d, bucket)
<1>8. ASSUME NEW k \in 1 .. m
      PROVE  from[k] \in 1 .. m /\ bucket[from[k]] = order[first + k]
  <2>1. order[first + k] \in Range(bucket)
    BY <1>6, <1>7
  <2>2. PICK j \in 1 .. m : bucket[j] = order[first + k]
    BY <1>5, <2>1 DEF Range
  <2>3. from[k] = j
    BY <1>5, <2>2
  <2>4. QED
    BY <2>2, <2>3
<1>9. \A j, k \in 1 .. m : from[j] = from[k] => j = k
  <2>1. SUFFICES ASSUME NEW j \in 1 .. m, NEW k \in 1 .. m, from[j] = from[k]
                 PROVE  j = k
    OBVIOUS
  <2>2. order[first + j] = order[first + k]
    <3> HIDE DEF from
    <3>1. QED
      BY <1>8, <2>1
  <2>3. first + j \in 1 .. n /\ first + k \in 1 .. n
    BY <1>4, <1>7
  <2>4. \A q, r \in 1 .. n : order[q] = order[r] => q = r
    <3>1. PICK live : live = LiveIn(self.data, self.bucket_positions)
      OBVIOUS
    <3>2. Valid(self) /\ n = Start(self.buckets, Len(self.buckets))
      BY <1>1, SelfFields DEF IInv
    <3>3. QED
      BY <3>1, <3>2, SortOrderLive
  <2>5. first + j = first + k
    BY <2>2, <2>3, <2>4
  <2>6. QED
    BY <1>4, <2>5
<1>10. /\ DOMAIN values = 1 .. m
       /\ \A k \in 1 .. m : values[k] = d[bucket[k]]
  BY <1>5 DEF ValuesOf
<1> HIDE DEF from, values
<1>11. \A k \in 1 .. m : values[k] \in Nat
  <2>1. d \in Seq(Values) /\ \A v \in Values : v \in Nat
    BY <1>3, ClientAssumption DEF Coherent, Shaped, U64
  <2>2. QED
    BY <1>5, <1>10, <2>1
<1>12. \A k \in 1 .. m : values[from[k]] = d[order[first + k]]
  BY <1>8, <1>10
<1>13. \A j, k \in 1 .. m : j < k => values[from[j]] <= values[from[k]]
  <2>1. SUFFICES ASSUME NEW j \in 1 .. m, NEW k \in 1 .. m, j < k
                 PROVE  d[order[first + j]] <= d[order[first + k]]
    BY <1>12
  <2>2. first + j < first + k
    BY <1>4, <2>1
  <2>3. QED
    BY <1>6, <1>7, <2>2
<1>14. \A k \in 1 .. m : from[k] \in 1 .. m
  BY <1>8
<1>15. Arranges(from, values, m)
  BY <1>9, <1>10, <1>11, <1>13, <1>14 DEF Arranges
<1>16. Ascending(values) = [k \in 1 .. m |-> values[from[k]]]
  BY <1>4, <1>15, AscendingIs
<1>17. Ascending(values) = [k \in 1 .. m |-> d[order[first + k]]]
  BY <1>12, <1>16
<1>18. QED
  BY <1>1, <1>2, <1>17 DEF values

\* The snapshot of sorted storage is its live part.
LEMMA SnapshotInOrder ==
    ASSUME NEW d, NEW b, NEW p, Coherent(d, b, p), NEW n, n = Start(b, Len(b)),
           \A w \in 1 .. Len(b) : \A k \in 1 .. Len(b[w]) : b[w][k] = Start(b, w - 1) + k,
           \A q, r \in 1 .. n : q < r => d[q] <= d[r]
    PROVE  Snapshot(d, b) = [q \in 1 .. n |-> d[q]]
<1>1. /\ \A q \in 1 .. n : d[q] \in Nat
      /\ DOMAIN b = 1 .. Len(b) /\ \A w \in 1 .. Len(b) : DOMAIN b[w] = 1 .. Len(b[w])
  <2>1. d \in Seq(Values) /\ Len(d) \in Nat /\ b \in Seq(Seq(1 .. Len(d)))
    BY DEF Coherent, Shaped
  <2>2. n \in Nat /\ n <= Len(d)
    BY SlotsCount, LiveInFinite
  <2>3. \A v \in Values : v \in Nat
    BY ClientAssumption DEF U64
  <2>4. \A q \in 1 .. n : q \in 1 .. Len(d)
    BY <2>1, <2>2
  <2>5. QED
    BY <2>1, <2>3, <2>4
<1>2. ASSUME NEW w \in 1 .. Len(b)
      PROVE  Ascending(ValuesOf(d, b[w])) = [k \in 1 .. Len(b[w]) |-> d[Start(b, w - 1) + k]]
  <2>1. PICK first, m, values : /\ first = Start(b, w - 1) /\ m = Len(b[w])
                                /\ values = ValuesOf(d, b[w])
    OBVIOUS
  <2>2. /\ first \in Nat /\ m \in Nat
        /\ \A k \in 1 .. m : first + k \in 1 .. n
    <3>1. /\ Region(b, w) = first + 1 .. first + m /\ first \in Nat /\ m \in Nat
          /\ \A q \in Region(b, w) : q \in 1 .. n
      BY <2>1, RegionPlaces
    <3>2. QED
      BY <3>1
  <2>3. values = [k \in 1 .. m |-> d[first + k]]
    BY <1>1, <2>1 DEF ValuesOf
  <2>4. PICK itself : itself = [k \in 1 .. m |-> k]
    OBVIOUS
  <2>5. Arranges(itself, values, m)
    <3>1. \A k \in 1 .. m : values[k] \in Nat /\ itself[k] = k
      BY <1>1, <2>2, <2>3, <2>4
    <3>2. \A j, k \in 1 .. m : j < k => values[itself[j]] <= values[itself[k]]
      <4>1. SUFFICES ASSUME NEW j \in 1 .. m, NEW k \in 1 .. m, j < k
                     PROVE  d[first + j] <= d[first + k]
        BY <2>3, <2>4
      <4>2. first + j < first + k
        BY <2>2, <4>1
      <4>3. QED
        BY <2>2, <4>2
    <3>3. DOMAIN values = 1 .. m
      BY <2>3
    <3>4. QED
      BY <3>1, <3>2, <3>3 DEF Arranges
  <2>6. Ascending(values) = [k \in 1 .. m |-> values[itself[k]]]
    BY <2>2, <2>5, AscendingIs
  <2>7. Ascending(values) = [k \in 1 .. m |-> d[first + k]]
    BY <2>3, <2>4, <2>6
  <2>8. QED
    BY <2>1, <2>7
<1>3. Receives(d, d, b, n)
  BY <1>1, <1>2 DEF Receives
<1>4. QED
  BY <1>3, SnapshotIs

\* The two sorts agree: sarkar_sort leaves at the front of storage exactly what
\* sorted_snapshot would have returned, which ascends although every bucket was
\* sorted on its own, and the snapshot is the same afterwards.
THEOREM SortsAgree == Spec => SortMatchesSnapshot
<1> DEFINE Agree == reply'.op = "sarkar_sort" =>
                      /\ SubSeq(data', 1, live_len') = SortedSnapshot
                      /\ SortedSnapshot' = SortedSnapshot
                      /\ \A i, j \in 1 .. live_len' : i < j => data'[i] <= data'[j]
<1>1. ASSUME IInv, IInv', SarkarSort
      PROVE  Agree
  <2>1. PICK order : IsSortOrder(self, order) /\ Become(Sorted(self, order))
    BY <1>1 DEF SarkarSort
  <2>2. PICK n, d, b : n = Start(buckets, Len(buckets)) /\ d = data' /\ b = buckets'
    OBVIOUS
  <2>3. /\ n \in Nat /\ n <= Len(data) /\ n = live_len /\ live_len' = live_len
        /\ Len(d) = Len(data) /\ \A q \in 1 .. Len(data) : d[q] = data[order[q]]
    BY <1>1, <2>1, <2>2, SortedStorage
  <2>4. \A q \in 1 .. n : d[q] = data[order[q]]
    <3>1. \A q \in 1 .. n : q \in 1 .. Len(data)
      BY <2>3, CoherentNow, <1>1
    <3>2. QED
      BY <2>3, <3>1
  <2>5. PICK p : p = bucket_positions'
    OBVIOUS
  <2>6. Coherent(d, b, p)
    <3>1. Valid(Sorted(self, order))
      BY <1>1, <2>1, SelfFields, SortedValid DEF IInv
    <3>2. /\ Sorted(self, order).data = d /\ Sorted(self, order).buckets = b
          /\ Sorted(self, order).bucket_positions = p
      BY <2>1, <2>2, <2>5 DEF Become
    <3>3. QED
      BY <3>1, <3>2 DEF Valid
  <2>7. d \in Seq(Values) /\ \A q \in 1 .. n : d[q] \in Nat
    <3>1. d \in Seq(Values) /\ \A v \in Values : v \in Nat
      BY <2>6, ClientAssumption DEF Coherent, Shaped, U64
    <3>2. \A q \in 1 .. n : q \in 1 .. Len(d)
      BY <1>1, <2>3, CoherentNow
    <3>3. QED
      BY <3>1, <3>2
  <2>8. SortedSnapshot = [q \in 1 .. n |-> d[q]]
    <3>1. \A w \in 1 .. Len(buckets) :
             Ascending(ValuesOf(data, buckets[w]))
               = [k \in 1 .. Len(buckets[w]) |-> d[Start(buckets, w - 1) + k]]
      <4>1. SUFFICES ASSUME NEW w \in 1 .. Len(buckets)
                     PROVE  Ascending(ValuesOf(data, buckets[w]))
                              = [k \in 1 .. Len(buckets[w]) |-> d[Start(buckets, w - 1) + k]]
        OBVIOUS
      <4>2. \A k \in 1 .. Len(buckets[w]) : Start(buckets, w - 1) + k \in 1 .. n
        BY <1>1, <2>2, CoherentNow, SortedPlace
      <4>3. Ascending(ValuesOf(data, buckets[w]))
              = [k \in 1 .. Len(buckets[w]) |-> data[order[Start(buckets, w - 1) + k]]]
        BY <1>1, <2>1, RegionAscends
      <4>4. QED
        BY <2>4, <4>2, <4>3
    <3>2. Snapshot(data, buckets) = [q \in 1 .. n |-> d[q]]
      <4>1. Receives(d, data, buckets, n)
        BY <2>7, <3>1 DEF Receives
      <4>2. PICK d0, b0, p0 : d0 = data /\ b0 = buckets /\ p0 = bucket_positions
        OBVIOUS
      <4>3. Coherent(d0, b0, p0) /\ n = Start(b0, Len(b0)) /\ Receives(d, d0, b0, n)
        BY <1>1, <2>2, <4>1, <4>2, CoherentNow
      <4>4. Snapshot(d0, b0) = [q \in 1 .. n |-> d[q]]
        BY <4>3, SnapshotIs
      <4>5. QED
        BY <4>2, <4>4
    <3>3. SortedSnapshot = Snapshot(data, buckets)
      BY DEF SortedSnapshot, Snapshot, ValuesOf
    <3>4. QED
      BY <3>2, <3>3
  <2>9. InOrder'
    BY <1>1, SortedInOrder
  <2>10. Start(b, Len(b)) = n
    <3>1. b = SortedB(buckets)
      BY <1>1, <2>1, <2>2, SortedFields
    <3>2. Len(b) = Len(buckets) /\ Len(buckets) \in 0 .. Len(buckets) /\ Len(buckets) \in Nat
          /\ \A w \in 1 .. Len(buckets) : DOMAIN b[w] = DOMAIN buckets[w]
      BY <1>1, <3>1, CoherentNow, SortedBuckets
    <3>3. Start(b, Len(buckets)) = Start(buckets, Len(buckets))
      BY <3>2, StartSame
    <3>4. QED
      BY <2>2, <3>2, <3>3
  <2>11. \A i, j \in 1 .. n : i < j => d[i] <= d[j]
    BY <2>2, <2>3, <2>9 DEF InOrder
  <2>12. SortedSnapshot' = [q \in 1 .. n |-> d[q]]
    <3>1. \A w \in 1 .. Len(b) : \A k \in 1 .. Len(b[w]) : b[w][k] = Start(b, w - 1) + k
      <4>1. b = SortedB(buckets)
        BY <1>1, <2>1, <2>2, SortedFields
      <4>2. /\ Len(b) = Len(buckets) /\ Len(buckets) \in Nat
            /\ \A w \in 1 .. Len(buckets) : DOMAIN b[w] = DOMAIN buckets[w]
            /\ \A w \in 1 .. Len(buckets) : Len(b[w]) = Len(buckets[w])
            /\ \A w \in 1 .. Len(buckets) : \A k \in 1 .. Len(buckets[w]) :
                  b[w][k] = Start(buckets, w - 1) + k
        BY <1>1, <4>1, CoherentNow, SortedBuckets
      <4>3. ASSUME NEW w \in 1 .. Len(buckets)
            PROVE  Start(b, w - 1) = Start(buckets, w - 1)
        <5>1. w - 1 \in 0 .. Len(buckets)
          BY <4>2
        <5>2. QED
          BY <4>2, <5>1, StartSame
      <4>4. QED
        BY <4>2, <4>3
    <3>2. Snapshot(d, b) = [q \in 1 .. n |-> d[q]]
      BY <2>6, <2>10, <2>11, <3>1, SnapshotInOrder
    <3>3. SortedSnapshot' = Snapshot(d, b)
      BY <2>2 DEF SortedSnapshot, Snapshot, ValuesOf, Concatenated, Ascending, AtMost
    <3>4. QED
      BY <3>2, <3>3
  <2>13. SubSeq(data', 1, live_len') = [q \in 1 .. n |-> d[q]]
    <3>1. n \in 0 .. Len(d) /\ d \in Seq(Values)
      BY <2>3, <2>7
    <3>2. SubSeq(d, 1, n) = [q \in 1 .. n |-> d[q]]
      BY <3>1
    <3>3. QED
      BY <2>2, <2>3, <3>2
  <2>14. QED
    BY <2>2, <2>3, <2>8, <2>11, <2>12, <2>13
<1>2. IInv /\ IInv' /\ [Next]_vars => [Agree]_vars
  BY <1>1, SortReplies
<1>3. QED
  BY <1>2, IndexValid, PTL DEF Spec, SortMatchesSnapshot

-------------------------------------------------------------------------------
(* The order a running sort gives storage: Phase A rearranges the buckets,  *)
(* Phase B reads the order off them and off the removed entries.            *)

\* Buckets c hold the IDs of buckets b, those of width less than lim - 1 by
\* ascending value.
Rearranged(d, b, c, lim) ==
    /\ c \in Seq(Seq(1 .. Len(d))) /\ Len(c) = Len(b)
    /\ \A w \in 1 .. Len(b) :
          DOMAIN c[w] = DOMAIN b[w] /\ Len(c[w]) = Len(b[w]) /\ Range(c[w]) = Range(b[w])
    /\ \A w \in 1 .. Len(b) : w < lim =>
          \A i, j \in 1 .. Len(b[w]) : i < j => d[c[w][i]] <= d[c[w][j]]

\* One after another they list every live ID at its place.
LEMMA SourcesAre ==
    ASSUME NEW d, NEW b, NEW p, Coherent(d, b, p), NEW c, NEW lim, Rearranged(d, b, c, lim),
           NEW list, list = Concatenated(c)
    PROVE  /\ list \in Seq(1 .. Len(d)) /\ Len(list) = Start(b, Len(b))
           /\ \A w \in 1 .. Len(b) : \A k \in 1 .. Len(b[w]) :
                 list[Start(b, w - 1) + k] = c[w][k]
<1> DEFINE first == [w \in 0 .. Len(b) |-> Start(b, w)]
<1>1. Len(b) \in Nat
  BY DEF Coherent, Shaped
<1>2. c \in Seq(Seq(1 .. Len(d))) /\ Len(c) = Len(b)
      /\ \A w \in 1 .. Len(b) : Len(c[w]) = Len(b[w])
  BY DEF Rearranged
<1>3. Begins(first, c, Len(c))
  <2>1. \A w \in 0 .. Len(b) : first[w] \in Nat
    BY StartType
  <2>2. first[0] = 0
    BY <1>1, StartZero
  <2>3. ASSUME NEW w \in 1 .. Len(b)
        PROVE  first[w] = first[w - 1] + Len(c[w])
    <3>1. w \in 0 .. Len(b) /\ w - 1 \in 0 .. Len(b)
      BY <1>1
    <3>2. QED
      BY <1>2, <3>1, StartStep
  <2>4. ASSUME NEW w \in 0 .. Len(b), NEW v \in 0 .. w
        PROVE  first[v] <= first[w]
    <3>1. v \in 0 .. Len(b)
      BY <1>1
    <3>2. QED
      BY <3>1, StartMonotone
  <2> HIDE DEF first
  <2>5. QED
    BY <1>2, <2>1, <2>2, <2>3, <2>4 DEF Begins
<1>4. first[Len(b)] = Start(b, Len(b)) /\ \A w \in 1 .. Len(b) : first[w - 1] = Start(b, w - 1)
  BY <1>1
<1> HIDE DEF first
<1>5. Joins(list, 1 .. Len(d), first, c, Len(c))
  BY <1>2, <1>3, ConcatenatedJoins
<1>6. Joins(list, 1 .. Len(d), first, c, Len(b))
  BY <1>2, <1>5
<1>7. list \in Seq(1 .. Len(d)) /\ Len(list) = Start(b, Len(b))
  BY <1>4, <1>6 DEF Joins
<1>8. ASSUME NEW w \in 1 .. Len(b), NEW k \in 1 .. Len(b[w])
      PROVE  list[Start(b, w - 1) + k] = c[w][k]
  <2>1. k \in 1 .. Len(c[w])
    BY <1>2
  <2>2. list[first[w - 1] + k] = c[w][k]
    BY <1>6, <2>1 DEF Joins
  <2>3. QED
    BY <1>4, <2>2
<1>9. QED
  BY <1>7, <1>8

\* The place of an ID among the IDs of R.
Rank(R, id) == Cardinality({r \in R : r <= id})

\* The number of the IDs of R before an ID.
Earlier(R, id) == Cardinality({r \in R : r < id})

LEMMA RankType ==
    ASSUME NEW N \in Nat, NEW R \in SUBSET (1 .. N), NEW id
    PROVE  /\ IsFiniteSet(R) /\ Cardinality(R) \in Nat
           /\ IsFiniteSet({r \in R : r <= id}) /\ Rank(R, id) \in Nat
           /\ Rank(R, id) <= Cardinality(R)
<1>1. IsFiniteSet(R)
  <2>1. IsFiniteSet(1 .. N)
    BY FS_Interval
  <2>2. QED
    BY <2>1, FS_Subset
<1>2. {r \in R : r <= id} \in SUBSET R
  OBVIOUS
<1>3. QED
  BY <1>1, <1>2, FS_Subset, FS_CardinalityType DEF Rank

LEMMA EarlierType ==
    ASSUME NEW N \in Nat, NEW R \in SUBSET (1 .. N), NEW id
    PROVE  Earlier(R, id) \in Nat
<1>1. {r \in R : r < id} \in SUBSET R
  OBVIOUS
<1>2. IsFiniteSet(R)
  BY RankType
<1>3. QED
  BY <1>1, <1>2, FS_Subset, FS_CardinalityType DEF Earlier

\* One more of them, one more the rank.
LEMMA RankStep ==
    ASSUME NEW N \in Nat, NEW R \in SUBSET (1 .. N), NEW id \in R
    PROVE  Rank(R, id) = Earlier(R, id) + 1 /\ Earlier(R, id) \in Nat
<1> DEFINE below == {r \in R : r < id}
<1>1. IsFiniteSet(R)
  BY RankType
<1>2. IsFiniteSet(below)
  <2>1. below \in SUBSET R
    OBVIOUS
  <2>2. QED
    BY <1>1, <2>1, FS_Subset
<1>3. {r \in R : r <= id} = below \cup {id}
  <2>1. R \subseteq Nat /\ id \in Nat
    OBVIOUS
  <2>2. \A r \in Nat : r <= id <=> r < id \/ r = id
    BY <2>1
  <2>3. QED
    BY <2>1, <2>2
<1>4. id \notin below
  OBVIOUS
<1> HIDE DEF below
<1>5. Cardinality(below \cup {id}) = Cardinality(below) + 1
  BY <1>2, <1>4, FS_AddElement
<1>6. Cardinality(below) \in Nat
  BY <1>2, FS_CardinalityType
<1>7. QED
  BY <1>3, <1>5, <1>6 DEF Rank, Earlier, below

LEMMA RankIncreases ==
    ASSUME NEW N \in Nat, NEW R \in SUBSET (1 .. N), NEW x \in R, NEW y \in R, x < y
    PROVE  Rank(R, x) < Rank(R, y)
<1>1. {r \in R : r <= x} \in SUBSET {r \in R : r < y}
  <2>1. \A r \in R : r \in Nat
    OBVIOUS
  <2>2. \A r \in Nat : r <= x => r < y
    BY <2>1
  <2>3. QED
    BY <2>1, <2>2
<1>2. IsFiniteSet({r \in R : r < y})
  <2>1. {r \in R : r < y} \in SUBSET R
    OBVIOUS
  <2>2. QED
    BY <2>1, RankType, FS_Subset
<1>3. Rank(R, x) <= Earlier(R, y) /\ Earlier(R, y) \in Nat
  BY <1>1, <1>2, FS_Subset, FS_CardinalityType DEF Rank, Earlier
<1>4. Rank(R, y) = Earlier(R, y) + 1 /\ Rank(R, x) \in Nat
  BY RankStep, RankType
<1>5. QED
  BY <1>3, <1>4

\* Every rank is taken.
LEMMA RankExists ==
    ASSUME NEW N \in Nat, NEW R \in SUBSET (1 .. N), NEW k \in 1 .. Cardinality(R)
    PROVE  \E id \in R : Rank(R, id) = k
<1> DEFINE late == {id \in R : k <= Rank(R, id)}
<1>1. IsFiniteSet(R) /\ Cardinality(R) \in Nat /\ k \in Nat /\ 1 <= k /\ k <= Cardinality(R)
  <2>1. IsFiniteSet(R) /\ Cardinality(R) \in Nat
    BY RankType
  <2>2. QED
    BY <2>1
<1>0. \A r \in R : r \in Nat
  OBVIOUS
<1>2. R # {}
  BY <1>1, FS_EmptySet
<1>3. PICK top \in R : \A r \in R : r <= top
  <2>0. R \in SUBSET (0 .. N)
    OBVIOUS
  <2>1. Max(R) \in R /\ \A r \in R : r <= Max(R)
    BY <1>2, <2>0, MaxOfBounded
  <2>2. QED
    BY <2>1
<1>4. Rank(R, top) = Cardinality(R)
  <2>1. {r \in R : r <= top} = R
    BY <1>3
  <2>2. QED
    BY <2>1 DEF Rank
<1>5. top \in late
  BY <1>1, <1>4
<1>6. PICK id \in late : \A r \in late : id <= r
  <2>1. late \in SUBSET Nat /\ late # {}
    BY <1>0, <1>5
  <2> HIDE DEF late
  <2>2. QED
    BY <2>1, LeastNat
<1>7. id \in R /\ k <= Rank(R, id) /\ Rank(R, id) \in Nat
  BY <1>6, RankType
<1>8. Rank(R, id) <= k
  <2> DEFINE below == {r \in R : r < id}
  <2>1. Rank(R, id) = Cardinality(below) + 1
    BY <1>7, RankStep DEF Earlier
  <2>2. below \in SUBSET R
    OBVIOUS
  <2>3. CASE below = {}
    <3>1. Cardinality(below) = 0
      BY <2>3, FS_EmptySet
    <3>2. QED
      BY <1>1, <2>1, <3>1
  <2>4. CASE below # {}
    <3>1. below \in SUBSET (0 .. N)
      <4>1. \A r \in R : r \in 0 .. N
        OBVIOUS
      <4>2. QED
        BY <2>2, <4>1
    <3> HIDE DEF below
    <3>2. Max(below) \in below /\ \A r \in below : r <= Max(below)
      BY <2>4, <3>1, MaxOfBounded
    <3>3. PICK pred : pred = Max(below)
      OBVIOUS
    <3>4. pred \in R /\ pred < id /\ \A r \in R : r < id => r <= pred
      BY <3>2, <3>3 DEF below
    <3>5. below = {r \in R : r <= pred}
      <4>1. \A r \in R : r <= pred => r < id
        BY <1>0, <1>7, <3>4
      <4>2. QED
        BY <3>4, <4>1 DEF below
    <3>6. Rank(R, pred) = Cardinality(below)
      BY <3>5 DEF Rank
    <3>7. pred \notin late
      BY <1>6, <1>7, <3>4
    <3>8. ~ (k <= Rank(R, pred)) /\ Rank(R, pred) \in Nat
      BY <3>4, <3>7, RankType
    <3>9. QED
      BY <1>1, <2>1, <3>6, <3>8
  <2>5. QED
    BY <2>3, <2>4
<1>9. QED
  BY <1>1, <1>7, <1>8

\* The old place of what goes to each of N places: the listed IDs first, the
\* IDs of R behind them.
Placed(N, list, R) ==
    [place \in 1 .. N |->
        IF place <= Len(list) THEN list[place]
        ELSE CHOOSE id \in R : Len(list) + Rank(R, id) = place]

LEMMA PlacedFacts ==
    ASSUME NEW N \in Nat, NEW R \in SUBSET (1 .. N),
           NEW list \in Seq(1 .. N), Len(list) + Cardinality(R) = N
    PROVE  /\ Len(list) \in 0 .. N
           /\ \A q \in 1 .. Len(list) : Placed(N, list, R)[q] = list[q]
           /\ \A q \in Len(list) + 1 .. N :
                 /\ Placed(N, list, R)[q] \in R
                 /\ Len(list) + Rank(R, Placed(N, list, R)[q]) = q
           /\ \A id \in R : /\ Len(list) + Rank(R, id) \in Len(list) + 1 .. N
                            /\ Placed(N, list, R)[Len(list) + Rank(R, id)] = id
<1>1. PICK n : n = Len(list)
  OBVIOUS
<1>2. n \in Nat /\ Cardinality(R) \in Nat /\ n + Cardinality(R) = N
  <2>1. n \in Nat
    BY <1>1
  <2>2. Cardinality(R) \in Nat
    BY RankType
  <2>3. QED
    BY <1>1, <2>1, <2>2
<1>3. \A x, y \in R : Rank(R, x) = Rank(R, y) => x = y
  <2>1. SUFFICES ASSUME NEW x \in R, NEW y \in R, Rank(R, x) = Rank(R, y)
                 PROVE  x = y
    OBVIOUS
  <2>2. ~ (x < y) /\ ~ (y < x)
    <3>1. Rank(R, x) \in Nat /\ Rank(R, y) \in Nat
      BY RankType
    <3>2. x < y => Rank(R, x) < Rank(R, y)
      BY RankIncreases
    <3>3. y < x => Rank(R, y) < Rank(R, x)
      BY RankIncreases
    <3>4. QED
      BY <2>1, <3>1, <3>2, <3>3
  <2>3. x \in Nat /\ y \in Nat
    OBVIOUS
  <2>4. QED
    BY <2>2, <2>3
<1>4. ASSUME NEW q \in n + 1 .. N
      PROVE  /\ Placed(N, list, R)[q] \in R
             /\ n + Rank(R, Placed(N, list, R)[q]) = q
  <2>1. q \in 1 .. N /\ ~ (q <= n) /\ q - n \in 1 .. Cardinality(R)
    BY <1>2
  <2>2. PICK id \in R : Rank(R, id) = q - n
    BY <2>1, RankExists
  <2>3. n + Rank(R, id) = q
    BY <1>2, <2>1, <2>2
  <2>4. Placed(N, list, R)[q] = CHOOSE i \in R : n + Rank(R, i) = q
    BY <1>1, <2>1 DEF Placed
  <2>5. QED
    BY <2>3, <2>4
<1>5. ASSUME NEW id \in R
      PROVE  n + Rank(R, id) \in n + 1 .. N /\ Placed(N, list, R)[n + Rank(R, id)] = id
  <2>1. Rank(R, id) \in Nat /\ Rank(R, id) <= Cardinality(R)
    BY RankType
  <2>2. 1 <= Rank(R, id)
    <3>1. Rank(R, id) = Earlier(R, id) + 1 /\ Earlier(R, id) \in Nat
      BY RankStep
    <3>2. QED
      BY <3>1
  <2>3. PICK q : q = n + Rank(R, id)
    OBVIOUS
  <2>4. q \in n + 1 .. N
    BY <1>2, <2>1, <2>2, <2>3
  <2>5. Placed(N, list, R)[q] \in R /\ n + Rank(R, Placed(N, list, R)[q]) = q
    BY <1>4, <2>4
  <2>6. Rank(R, Placed(N, list, R)[q]) = Rank(R, id)
    <3>1. Rank(R, Placed(N, list, R)[q]) \in Nat
      BY RankType
    <3>2. QED
      BY <1>2, <2>1, <2>3, <2>5, <3>1
  <2>7. QED
    BY <1>3, <2>3, <2>4, <2>5, <2>6
<1>6. \A q \in 1 .. n : Placed(N, list, R)[q] = list[q]
  BY <1>1, <1>2 DEF Placed
<1>7. QED
  BY <1>1, <1>2, <1>4, <1>5, <1>6

\* N places receive N entries, those of R behind the n others.
Orders(order, N, n, R) ==
    /\ N \in Nat /\ n \in Nat /\ n <= N
    /\ \A q \in 1 .. N : order[q] \in 1 .. N
    /\ \A q \in 1 .. N : n < q <=> order[q] \in R
    /\ \A q, r \in 1 .. N : order[q] = order[r] => q = r
    /\ \A id \in 1 .. N : \E q \in 1 .. N : order[q] = id

\* Every order a sort may use does that.
LEMMA OrderFacts ==
    ASSUME NEW s, Valid(s), NEW order, IsSortOrder(s, order)
    PROVE  Orders(order, Len(s.data), Start(s.buckets, Len(s.buckets)), RemovedIds(s))
<1>1. PICK N, n, R, live : /\ N = Len(s.data) /\ n = Start(s.buckets, Len(s.buckets))
                           /\ R = RemovedIds(s) /\ live = LiveIn(s.data, s.bucket_positions)
  OBVIOUS
<1>2. DOMAIN s.data = 1 .. N /\ N \in Nat
  <2>1. s.data \in Seq(Values)
    BY DEF Valid, Coherent, Shaped
  <2>2. QED
    BY <1>1, <2>1
<1>3. /\ R \in SUBSET (1 .. N) /\ \A id \in 1 .. N : id \in live <=> ~ (id \in R)
      /\ live \in SUBSET (1 .. N)
  BY <1>1, <1>2 DEF RemovedIds, LiveIn
<1>4. /\ n \in Nat /\ n <= N
      /\ \A q \in 1 .. n : order[q] \in live
      /\ \A id \in live : \E q \in 1 .. n : order[q] = id
      /\ \A q, r \in 1 .. n : order[q] = order[r] => q = r
  <2>1. n \in Nat /\ n <= N
    BY <1>1, SortOrderLive
  <2>2. \A q \in 1 .. n : order[q] \in live
    BY <1>1, SortOrderLive
  <2>3. \A id \in live : \E q \in 1 .. n : order[q] = id
    BY <1>1, SortOrderLive
  <2>4. \A q, r \in 1 .. n : order[q] = order[r] => q = r
    BY <1>1, SortOrderLive
  <2>5. QED
    BY <2>1, <2>2, <2>3, <2>4
<1>5. /\ {order[q] : q \in n + 1 .. N} = R
      /\ \A q, r \in n + 1 .. N : q < r => order[q] < order[r]
  BY <1>1 DEF IsSortOrder, KeepsOrder
<1>6. ASSUME NEW q \in 1 .. N
      PROVE  /\ q \in 1 .. n \/ q \in n + 1 .. N
             /\ n < q <=> ~ (q \in 1 .. n)
  BY <1>2, <1>4
<1>7. \A q \in 1 .. N : order[q] \in 1 .. N /\ (n < q <=> order[q] \in R)
  BY <1>3, <1>4, <1>5, <1>6
<1>8. ASSUME NEW q \in 1 .. N, NEW r \in 1 .. N, order[q] = order[r]
      PROVE  q = r
  <2>1. CASE q \in 1 .. n
    <3>1. r \in 1 .. n
      BY <1>6, <1>7, <1>8, <2>1
    <3>2. QED
      BY <1>4, <1>8, <2>1, <3>1
  <2>2. CASE ~ (q \in 1 .. n)
    <3>1. q \in n + 1 .. N /\ r \in n + 1 .. N
      BY <1>6, <1>7, <1>8, <2>2
    <3>2. order[q] \in Nat
      BY <1>7
    <3>3. ~ (q < r) /\ ~ (r < q)
      BY <1>5, <1>8, <3>1, <3>2
    <3>4. QED
      BY <1>4, <3>3
  <2>3. QED
    BY <2>1, <2>2
<1>9. ASSUME NEW id \in 1 .. N
      PROVE  \E q \in 1 .. N : order[q] = id
  <2>1. \A q \in 1 .. n : q \in 1 .. N
    BY <1>2, <1>4
  <2>2. \A q \in n + 1 .. N : q \in 1 .. N
    BY <1>2, <1>4
  <2>3. QED
    BY <1>3, <1>4, <1>5, <2>1, <2>2
<1>10. Orders(order, N, n, R)
  BY <1>2, <1>4, <1>7, <1>8, <1>9 DEF Orders
<1>11. QED
  BY <1>1, <1>10

\* As many removed entries as places behind the live ones.
LEMMA RemovedCount ==
    ASSUME NEW s, Valid(s)
    PROVE  /\ RemovedIds(s) \in SUBSET (1 .. Len(s.data))
           /\ Len(s.data) \in Nat /\ Len(s.data) <= Capacity
           /\ Start(s.buckets, Len(s.buckets)) + Cardinality(RemovedIds(s)) = Len(s.data)
           /\ Start(s.buckets, Len(s.buckets)) \in Nat
           /\ Start(s.buckets, Len(s.buckets)) = s.live_len
<1>1. PICK N, n, R, live : /\ N = Len(s.data) /\ n = Start(s.buckets, Len(s.buckets))
                           /\ R = RemovedIds(s) /\ live = LiveIn(s.data, s.bucket_positions)
  OBVIOUS
<1>2. DOMAIN s.data = 1 .. N /\ N \in Nat /\ N <= Capacity
  <2>1. s.data \in Seq(Values) /\ Len(s.data) <= Capacity
    BY DEF Valid, Coherent, Shaped
  <2>2. QED
    BY <1>1, <2>1
<1>3. R \in SUBSET (1 .. N) /\ live \in SUBSET (1 .. N) /\ R = (1 .. N) \ live
  BY <1>1, <1>2 DEF RemovedIds, LiveIn
<1>4. n \in Nat /\ n = Cardinality(live) /\ n = s.live_len
  <2>1. PICK d, b, p : d = s.data /\ b = s.buckets /\ p = s.bucket_positions
    OBVIOUS
  <2>2. Coherent(d, b, p) /\ live = LiveIn(d, p) /\ n = Start(b, Len(b))
        /\ s.live_len = Cardinality(live)
    BY <1>1, <2>1 DEF Valid
  <2>3. QED
    BY <2>2, SlotsCount, LiveInFinite
<1>5. IsFiniteSet(1 .. N) /\ Cardinality(1 .. N) = N
  BY <1>2, UpToCardinality
<1>6. (1 .. N) \cap live = live
  BY <1>3
<1>7. Cardinality(R) = N - n /\ IsFiniteSet(R)
  <2>1. Cardinality((1 .. N) \ live) = Cardinality(1 .. N) - Cardinality((1 .. N) \cap live)
    BY <1>5, FS_Difference
  <2>2. QED
    BY <1>2, <1>3, <1>4, <1>5, <1>6, <2>1, FS_Subset
<1>8. QED
  BY <1>1, <1>2, <1>3, <1>4, <1>7

\* What the live IDs of sorted buckets and the removed ones behind them give is
\* an order a sort may use.
LEMMA PlacedIsOrder ==
    ASSUME NEW s, Valid(s), NEW c, Rearranged(s.data, s.buckets, c, Len(s.buckets) + 1),
           NEW order, order = Placed(Len(s.data), Concatenated(c), RemovedIds(s))
    PROVE  IsSortOrder(s, order)
<1>1. PICK d, b, p, N, n, R, list : /\ d = s.data /\ b = s.buckets /\ p = s.bucket_positions
                                    /\ N = Len(d) /\ n = Start(b, Len(b)) /\ R = RemovedIds(s)
                                    /\ list = Concatenated(c)
  OBVIOUS
<1>2. Coherent(d, b, p) /\ Rearranged(d, b, c, Len(b) + 1)
  BY <1>1 DEF Valid
<1>3. /\ list \in Seq(1 .. N) /\ Len(list) = n
      /\ \A w \in 1 .. Len(b) : \A k \in 1 .. Len(b[w]) :
            list[Start(b, w - 1) + k] = c[w][k]
  BY <1>1, <1>2, SourcesAre
<1>4. R \in SUBSET (1 .. N) /\ N \in Nat /\ n + Cardinality(R) = N /\ n \in Nat
  BY <1>1, RemovedCount
<1>5. order = Placed(N, list, R)
  BY <1>1
<1>6. /\ \A q \in 1 .. n : order[q] = list[q]
      /\ \A q \in n + 1 .. N : order[q] \in R /\ n + Rank(R, order[q]) = q
      /\ \A id \in R : n + Rank(R, id) \in n + 1 .. N /\ order[n + Rank(R, id)] = id
  BY <1>3, <1>4, <1>5, PlacedFacts
<1>7. /\ DOMAIN b = 1 .. Len(b) /\ Len(b) \in Nat /\ DOMAIN d = 1 .. N
      /\ \A w \in 1 .. Len(b) : DOMAIN b[w] = 1 .. Len(b[w])
  BY <1>1, <1>2 DEF Coherent, Shaped
<1>8. ASSUME NEW w \in 1 .. Len(b)
      PROVE  Fills(s, order, w)
  <2>1. PICK first, m : first = Start(b, w - 1) /\ m = Len(b[w])
    OBVIOUS
  <2>2. /\ first \in Nat /\ m \in Nat /\ Region(b, w) = first + 1 .. first + m
        /\ \A q \in Region(b, w) : q \in 1 .. n
    BY <1>1, <1>2, <2>1, RegionPlaces
  <2>3. /\ DOMAIN c[w] = 1 .. m /\ Range(c[w]) = Range(b[w])
        /\ \A i, j \in 1 .. m : i < j => d[c[w][i]] <= d[c[w][j]]
    <3>1. DOMAIN c[w] = DOMAIN b[w] /\ Range(c[w]) = Range(b[w])
      BY <1>2 DEF Rearranged
    <3>2. w < Len(b) + 1
      BY <1>7
    <3>3. \A i, j \in 1 .. Len(b[w]) : i < j => d[c[w][i]] <= d[c[w][j]]
      BY <1>2, <3>2 DEF Rearranged
    <3>4. QED
      BY <1>7, <2>1, <3>1, <3>3
  <2>4. ASSUME NEW q \in Region(b, w)
        PROVE  q - first \in 1 .. m /\ order[q] = c[w][q - first]
    <3>1. PICK k : k = q - first
      OBVIOUS
    <3>2. k \in 1 .. m /\ first + k = q
      BY <2>2, <3>1
    <3>3. order[q] = list[q] /\ list[q] = c[w][k]
      BY <1>3, <1>6, <2>1, <2>2, <3>2
    <3>4. QED
      BY <3>1, <3>2, <3>3
  <2>5. {order[q] : q \in Region(b, w)} = Range(b[w])
    <3>1. ASSUME NEW q \in Region(b, w)
          PROVE  order[q] \in Range(c[w])
      BY <2>3, <2>4 DEF Range
    <3>2. ASSUME NEW id \in Range(c[w])
          PROVE  \E q \in Region(b, w) : order[q] = id
      <4>1. PICK k \in 1 .. m : c[w][k] = id
        BY <2>3 DEF Range
      <4>2. PICK q : q = first + k
        OBVIOUS
      <4>3. q \in Region(b, w) /\ q - first = k
        BY <2>2, <4>2
      <4>4. QED
        BY <2>4, <4>1, <4>3
    <3>3. QED
      BY <2>3, <3>1, <3>2
  <2>6. ASSUME NEW q \in Region(b, w), NEW r \in Region(b, w), q < r
        PROVE  d[order[q]] <= d[order[r]]
    <3>1. q - first < r - first
      BY <2>2, <2>6
    <3>2. QED
      BY <2>3, <2>4, <3>1
  <2>7. QED
    BY <1>1, <2>5, <2>6 DEF Fills
<1>9. {order[q] : q \in n + 1 .. N} = R
  BY <1>6
<1>10. KeepsOrder(order, n + 1 .. N)
  <2>1. SUFFICES ASSUME NEW q \in n + 1 .. N, NEW r \in n + 1 .. N, q < r
                 PROVE  order[q] < order[r]
    BY DEF KeepsOrder
  <2>2. order[q] \in R /\ order[r] \in R /\ n + Rank(R, order[q]) = q /\ n + Rank(R, order[r]) = r
    BY <1>6
  <2>3. PICK x, y : x = order[q] /\ y = order[r]
    OBVIOUS
  <2>4. x \in R /\ y \in R /\ n + Rank(R, x) = q /\ n + Rank(R, y) = r
        /\ Rank(R, x) \in Nat /\ Rank(R, y) \in Nat /\ x \in Nat /\ y \in Nat
    <3>1. x \in R /\ y \in R /\ n + Rank(R, x) = q /\ n + Rank(R, y) = r
      BY <2>2, <2>3
    <3>2. Rank(R, x) \in Nat /\ Rank(R, y) \in Nat
      BY <1>4, RankType
    <3>3. QED
      BY <1>4, <3>1, <3>2
  <2>5. Rank(R, x) < Rank(R, y)
    BY <1>4, <2>1, <2>4
  <2>6. x # y
    BY <2>4, <2>5
  <2>7. ~ (y < x)
    <3>1. y < x => Rank(R, y) < Rank(R, x)
      BY <1>4, <2>4, RankIncreases
    <3>2. QED
      BY <2>4, <2>5, <3>1
  <2>8. QED
    BY <2>3, <2>4, <2>6, <2>7
<1>11. QED
  BY <1>1, <1>7, <1>8, <1>9, <1>10 DEF IsSortOrder

-------------------------------------------------------------------------------
(* The phases of a sort of the index s, with what storage, buckets and      *)
(* position map hold: d, b and p.                                           *)

Live(s) == Start(s.buckets, Len(s.buckets))

OrderOf(s, b) == Placed(Len(s.data), Concatenated(b), RemovedIds(s))

\* Phase A is done.
Ordered(s, b) == Rearranged(s.data, s.buckets, b, Len(s.buckets) + 1)

\* Phase B: the destinations less than the next one are given out.
Destined(s, b, p, next) ==
    /\ p \in Seq(Offsets) /\ Len(p) = Len(s.data)
    /\ \A q \in 1 .. Len(s.data) :
          p[OrderOf(s, b)[q]] = IF q < next THEN q ELSE s.bucket_positions[OrderOf(s, b)[q]]

PlacingLive(s, b, p, cur, next) ==
    /\ Ordered(s, b) /\ Destined(s, b, p, next)
    /\ cur \in 1 .. Live(s) + 1 /\ next = cur

PlacingRemoved(s, b, p, cur, next) ==
    /\ Ordered(s, b) /\ Destined(s, b, p, next)
    /\ cur \in 1 .. Len(s.data) + 1
    /\ next = Live(s) + 1 + Earlier(RemovedIds(s), cur)

\* Phase B, the cycles: storage and destinations are permuted together.
Cycling(s, d, b, p, cur, count) ==
    /\ Ordered(s, b)
    /\ d \in Seq(Values) /\ Len(d) = Len(s.data)
    /\ p \in Seq(1 .. Len(s.data)) /\ Len(p) = Len(s.data)
    /\ \A q, r \in 1 .. Len(s.data) : p[q] = p[r] => q = r
    /\ \A x \in 1 .. Len(s.data) : \E q \in 1 .. Len(s.data) : p[q] = x
    /\ \A q \in 1 .. Len(s.data) : d[q] = s.data[OrderOf(s, b)[p[q]]]
    /\ cur \in 1 .. Len(s.data) + 1 /\ \A q \in 1 .. cur - 1 : p[q] = q
    /\ count \in Nat /\ count <= Cardinality({q \in 1 .. Len(s.data) : p[q] = q})

\* Phase C: the buckets before the cursor are rebound.
Rebinding(s, d, b, p, cur, next) ==
    /\ \E order \in [1 .. Len(s.data) -> 1 .. Len(s.data)] :
          IsSortOrder(s, order) /\ d = SortedD(s.data, order)
    /\ cur \in 1 .. Len(s.buckets) + 1 /\ next = Start(s.buckets, cur - 1) + 1
    /\ b \in Seq(Seq(1 .. Len(s.data))) /\ Len(b) = Len(s.buckets)
    /\ \A w \in 1 .. Len(s.buckets) :
          DOMAIN b[w] = DOMAIN s.buckets[w] /\ Len(b[w]) = Len(s.buckets[w])
    /\ \A w \in 1 .. Len(s.buckets) : w < cur => b[w] = SortedB(s.buckets)[w]
    /\ p \in Seq(Offsets) /\ Len(p) = Len(s.data)
    /\ \A q \in 1 .. Len(s.data) :
          p[q] = IF q < next THEN SortedP(s.data, s.buckets)[q] ELSE q

\* What is known of the index a sort has begun with.
LEMMA BeganFacts ==
    ASSUME NEW s, Valid(s)
    PROVE  /\ Coherent(s.data, s.buckets, s.bucket_positions)
           /\ Len(s.data) \in Nat /\ Len(s.data) <= Capacity /\ DOMAIN s.data = 1 .. Len(s.data)
           /\ Len(s.buckets) \in Nat /\ DOMAIN s.buckets = 1 .. Len(s.buckets)
           /\ \A w \in 1 .. Len(s.buckets) :
                 DOMAIN s.buckets[w] = 1 .. Len(s.buckets[w]) /\ Len(s.buckets[w]) \in Nat
           /\ s.bucket_positions \in Seq(Offsets)
           /\ Len(s.bucket_positions) = Len(s.data)
           /\ Live(s) \in Nat /\ Live(s) <= Len(s.data) /\ Live(s) = s.live_len
           /\ RemovedIds(s) \in SUBSET (1 .. Len(s.data))
           /\ Live(s) + Cardinality(RemovedIds(s)) = Len(s.data)
<1>1. PICK d, b, p : d = s.data /\ b = s.buckets /\ p = s.bucket_positions
  OBVIOUS
<1>2. Coherent(d, b, p)
  BY <1>1 DEF Valid
<1>3. /\ d \in Seq(Values) /\ Len(d) <= Capacity /\ p \in Seq(Offsets) /\ Len(p) = Len(d)
      /\ b \in Seq(Seq(1 .. Len(d)))
  BY <1>2 DEF Coherent, Shaped
<1>4. /\ Len(d) \in Nat /\ DOMAIN d = 1 .. Len(d)
      /\ Len(b) \in Nat /\ DOMAIN b = 1 .. Len(b)
      /\ \A w \in 1 .. Len(b) : DOMAIN b[w] = 1 .. Len(b[w]) /\ Len(b[w]) \in Nat
  BY <1>3
<1>5. /\ Live(s) \in Nat /\ Live(s) = s.live_len /\ RemovedIds(s) \in SUBSET (1 .. Len(s.data))
      /\ Live(s) + Cardinality(RemovedIds(s)) = Len(s.data)
  BY RemovedCount DEF Live
<1>6. Live(s) <= Len(s.data)
  <2>1. Cardinality(RemovedIds(s)) \in Nat
    BY <1>1, <1>4, <1>5, RankType
  <2>2. QED
    BY <1>1, <1>4, <1>5, <2>1
<1>7. QED
  BY <1>1, <1>2, <1>3, <1>4, <1>5, <1>6

\* What is known of the order once Phase A is done.
LEMMA OrderOfFacts ==
    ASSUME NEW s, Valid(s), NEW b, Ordered(s, b), NEW order, order = OrderOf(s, b)
    PROVE  /\ IsSortOrder(s, order)
           /\ Orders(order, Len(s.data), Live(s), RemovedIds(s))
           /\ Len(Concatenated(b)) = Live(s)
           /\ \A q \in 1 .. Live(s) : order[q] = Concatenated(b)[q]
           /\ \A q \in Live(s) + 1 .. Len(s.data) :
                 order[q] \in RemovedIds(s) /\ Live(s) + Rank(RemovedIds(s), order[q]) = q
           /\ \A id \in RemovedIds(s) :
                 /\ Live(s) + Rank(RemovedIds(s), id) \in Live(s) + 1 .. Len(s.data)
                 /\ order[Live(s) + Rank(RemovedIds(s), id)] = id
<1>1. IsSortOrder(s, order)
  BY PlacedIsOrder DEF Ordered, OrderOf
<1>2. Orders(order, Len(s.data), Live(s), RemovedIds(s))
  BY <1>1, OrderFacts DEF Live
<1>3. PICK N, n, R, list : /\ N = Len(s.data) /\ n = Live(s) /\ R = RemovedIds(s)
                           /\ list = Concatenated(b)
  OBVIOUS
<1>4. list \in Seq(1 .. N) /\ Len(list) = n
  <2>1. PICK d, bs, p : d = s.data /\ bs = s.buckets /\ p = s.bucket_positions
    OBVIOUS
  <2>2. Coherent(d, bs, p) /\ Rearranged(d, bs, b, Len(bs) + 1)
    BY <2>1 DEF Valid, Ordered
  <2>3. list \in Seq(1 .. Len(d)) /\ Len(list) = Start(bs, Len(bs))
    BY <1>3, <2>2, SourcesAre
  <2>4. QED
    BY <1>3, <2>1, <2>3 DEF Live
<1>5. R \in SUBSET (1 .. N) /\ N \in Nat /\ Len(list) + Cardinality(R) = N
  <2>1. RemovedIds(s) \in SUBSET (1 .. Len(s.data)) /\ Len(s.data) \in Nat
        /\ Live(s) + Cardinality(RemovedIds(s)) = Len(s.data)
    BY BeganFacts
  <2>2. QED
    BY <1>3, <1>4, <2>1
<1>6. order = Placed(N, list, R)
  BY <1>3 DEF OrderOf
<1>7. \A q \in 1 .. n : order[q] = list[q]
  BY <1>4, <1>5, <1>6, PlacedFacts
<1>8. \A q \in n + 1 .. N : order[q] \in R /\ n + Rank(R, order[q]) = q
  BY <1>4, <1>5, <1>6, PlacedFacts
<1>9. \A id \in R : n + Rank(R, id) \in n + 1 .. N /\ order[n + Rank(R, id)] = id
  BY <1>4, <1>5, <1>6, PlacedFacts
<1>10. QED
  BY <1>1, <1>2, <1>3, <1>4, <1>7, <1>8, <1>9

\* An assignment to a place of a sequence.
LEMMA AssignFacts ==
    ASSUME NEW S, NEW seq \in Seq(S), NEW i \in 1 .. Len(seq), NEW x \in S
    PROVE  [seq EXCEPT ![i] = x] \in Seq(S) /\ Len([seq EXCEPT ![i] = x]) = Len(seq)
OBVIOUS

LEMMA AssignThere ==
    ASSUME NEW S, NEW seq \in Seq(S), NEW i \in 1 .. Len(seq), NEW x
    PROVE  [seq EXCEPT ![i] = x][i] = x
OBVIOUS

LEMMA AssignElsewhere ==
    ASSUME NEW S, NEW seq \in Seq(S), NEW i, NEW x, NEW k \in 1 .. Len(seq), k # i
    PROVE  [seq EXCEPT ![i] = x][k] = seq[k]
OBVIOUS

\* Phase A begins with the buckets as they are
LEMMA Unsorted ==
    ASSUME NEW d, NEW b, NEW p, Coherent(d, b, p)
    PROVE  Rearranged(d, b, b, 1)
<1>1. b \in Seq(Seq(1 .. Len(d))) /\ Len(b) \in Nat
  BY DEF Coherent, Shaped
<1>2. \A w \in 1 .. Len(b) : ~ (w < 1)
  BY <1>1
<1>3. QED
  BY <1>1, <1>2 DEF Rearranged

\* and sorts one after the other.
LEMMA BucketSorted ==
    ASSUME NEW d, NEW b, NEW p, Coherent(d, b, p),
           NEW c, NEW cur \in 1 .. Len(b), Rearranged(d, b, c, cur),
           NEW order \in Bijection(DOMAIN c[cur], DOMAIN c[cur]),
           NEW bucket, bucket = [k \in DOMAIN c[cur] |-> c[cur][order[k]]],
           \A i, j \in DOMAIN bucket : i < j => d[bucket[i]] <= d[bucket[j]],
           NEW e, e = [c EXCEPT ![cur] = bucket]
    PROVE  Rearranged(d, b, e, cur + 1)
<1>1. PICK m : m = Len(b[cur])
  OBVIOUS
<1>2. /\ c \in Seq(Seq(1 .. Len(d))) /\ Len(c) = Len(b)
      /\ \A w \in 1 .. Len(b) :
            DOMAIN c[w] = DOMAIN b[w] /\ Len(c[w]) = Len(b[w]) /\ Range(c[w]) = Range(b[w])
  BY DEF Rearranged
<1>3. Len(b) \in Nat /\ m \in Nat /\ DOMAIN b[cur] = 1 .. m
  <2>1. b \in Seq(Seq(1 .. Len(d)))
    BY DEF Coherent, Shaped
  <2>2. b[cur] \in Seq(1 .. Len(d))
    BY <2>1
  <2>3. QED
    BY <1>1, <2>1, <2>2
<1>4. DOMAIN c[cur] = 1 .. m /\ c[cur] \in Seq(1 .. Len(d))
  <2>1. DOMAIN c[cur] = 1 .. m
    BY <1>2, <1>3
  <2>2. cur \in 1 .. Len(c)
    BY <1>2
  <2>3. c[cur] \in Seq(1 .. Len(d))
    BY <1>2, <2>2
  <2>4. QED
    BY <2>1, <2>3
<1>5. /\ \A k \in 1 .. m : order[k] \in 1 .. m
      /\ \A k \in 1 .. m : \E j \in 1 .. m : order[j] = k
  BY <1>4 DEF Bijection, Surjection
<1>6. PICK old : old = c[cur]
  OBVIOUS
<1>7. /\ DOMAIN bucket = 1 .. m /\ DOMAIN old = 1 .. m
      /\ \A k \in 1 .. m : old[k] \in 1 .. Len(d)
      /\ \A k \in 1 .. m : bucket[k] = old[order[k]]
  <2>1. old \in Seq(1 .. Len(d)) /\ DOMAIN old = 1 .. m
    BY <1>4, <1>6
  <2>2. \A k \in 1 .. m : old[k] \in 1 .. Len(d)
    <3>1. PICK S : S = 1 .. Len(d)
      OBVIOUS
    <3>2. old \in Seq(S) /\ Len(old) = m
      BY <1>1, <1>2, <1>6, <2>1, <3>1
    <3>3. \A k \in 1 .. Len(old) : old[k] \in S
      BY <3>2
    <3>4. QED
      BY <3>1, <3>2, <3>3
  <2>3. QED
    BY <1>4, <1>6, <2>1, <2>2
<1>7a. bucket \in Seq(1 .. Len(d)) /\ Len(bucket) = m
  <2>1. \A k \in 1 .. m : bucket[k] \in 1 .. Len(d)
    BY <1>5, <1>7
  <2>2. bucket = [k \in 1 .. m |-> bucket[k]]
    BY <1>4
  <2>3. PICK S : S = 1 .. Len(d)
    OBVIOUS
  <2>4. bucket \in [1 .. m -> S] /\ m \in Nat
    <3>1. \A k \in 1 .. m : bucket[k] \in S
      BY <2>1, <2>3
    <3>2. bucket \in [1 .. m -> S]
      BY <2>2, <3>1
    <3>3. QED
      BY <1>3, <3>2
  <2>5. bucket \in Seq(S) /\ Len(bucket) = m
    <3>1. bucket \in Seq(S)
      BY SMTT(30), <2>4
    <3>2. QED
      BY <1>7, <2>4, <3>1
  <2>6. QED
    BY <2>3, <2>5
<1>8. Range(bucket) = Range(old)
  <2>1. \A k \in 1 .. m : \E j \in 1 .. m : bucket[k] = old[j]
    BY <1>5, <1>7
  <2>2. ASSUME NEW k \in 1 .. m
        PROVE  \E j \in 1 .. m : old[k] = bucket[j]
    <3>1. PICK j \in 1 .. m : order[j] = k
      BY <1>5
    <3>2. QED
      BY <1>7, <3>1
  <2>3. Range(bucket) = {bucket[k] : k \in 1 .. m} /\ Range(old) = {old[k] : k \in 1 .. m}
    BY <1>7 DEF Range
  <2>4. Range(bucket) \subseteq Range(old)
    BY <2>1, <2>3
  <2>5. Range(old) \subseteq Range(bucket)
    BY <2>2, <2>3
  <2>6. QED
    BY <2>4, <2>5
<1>9. /\ e \in Seq(Seq(1 .. Len(d))) /\ Len(e) = Len(b)
      /\ e[cur] = bucket /\ \A w \in 1 .. Len(b) : w # cur => e[w] = c[w]
  <2>1. cur \in 1 .. Len(c)
    BY <1>2
  <2>2. e \in Seq(Seq(1 .. Len(d))) /\ Len(e) = Len(c) /\ e[cur] = bucket
    <3>1. PICK S : S = Seq(1 .. Len(d))
      OBVIOUS
    <3>2. c \in Seq(S) /\ bucket \in S
      BY <1>2, <1>7a, <3>1
    <3>3. e \in Seq(S) /\ Len(e) = Len(c) /\ e[cur] = bucket
      BY <2>1, <3>2, AssignFacts, AssignThere
    <3>4. QED
      BY <3>1, <3>3
  <2>3. \A w \in 1 .. Len(c) : w # cur => e[w] = c[w]
    BY <1>2, AssignElsewhere
  <2>4. QED
    BY <1>2, <2>2, <2>3
<1>10. \A w \in 1 .. Len(b) :
          DOMAIN e[w] = DOMAIN b[w] /\ Len(e[w]) = Len(b[w]) /\ Range(e[w]) = Range(b[w])
  <2>1. DOMAIN bucket = DOMAIN b[cur] /\ Len(bucket) = Len(b[cur]) /\ Range(bucket) = Range(b[cur])
    BY <1>1, <1>2, <1>3, <1>6, <1>7, <1>8, <1>7a
  <2>2. QED
    BY <1>2, <1>9, <2>1
<1>11. ASSUME NEW w \in 1 .. Len(b), w < cur + 1,
              NEW i \in 1 .. Len(b[w]), NEW j \in 1 .. Len(b[w]), i < j
       PROVE  d[e[w][i]] <= d[e[w][j]]
  <2>1. CASE w = cur
    <3>1. e[w] = bucket /\ i \in DOMAIN bucket /\ j \in DOMAIN bucket
      BY <1>2, <1>7, <1>9, <1>11, <2>1, <1>6, <1>1, <1>3
    <3>2. QED
      BY <1>11, <3>1
  <2>2. CASE w # cur
    <3>1. w < cur
      BY <1>3, <1>11, <2>2
    <3>2. d[c[w][i]] <= d[c[w][j]]
      BY <1>11, <3>1 DEF Rearranged
    <3>3. QED
      BY <1>9, <2>2, <3>2
  <2>3. QED
    BY <2>1, <2>2
<1>12. QED
  BY <1>9, <1>10, <1>11 DEF Rearranged

\* A place less than the bound on storage is no mark of a removed entry.
LEMMA NoMark ==
    ASSUME NEW s, Valid(s), NEW q \in 1 .. Len(s.data)
    PROVE  q # REMOVED_POSITION /\ q \in Offsets
<1>1. Len(s.data) \in Nat /\ Len(s.data) <= Capacity
  BY BeganFacts
<1>2. q \in Nat /\ q <= Capacity /\ 1 <= q
  BY <1>1, ClientAssumption
<1>3. QED
  BY <1>2, ClientAssumption, RemovedAssumption DEF Offsets

\* Phase B begins with no destination given out.
LEMMA LiveBegun ==
    ASSUME NEW s, Valid(s), NEW b, Ordered(s, b)
    PROVE  PlacingLive(s, b, s.bucket_positions, 1, 1)
<1>1. s.bucket_positions \in Seq(Offsets) /\ Len(s.bucket_positions) = Len(s.data)
      /\ Live(s) \in Nat /\ Len(s.data) \in Nat
  BY BeganFacts
<1>2. \A q \in 1 .. Len(s.data) : ~ (q < 1)
  BY <1>1
<1>3. 1 \in 1 .. Live(s) + 1
  BY <1>1
<1>4. QED
  BY <1>1, <1>2, <1>3 DEF PlacingLive, Destined

\* The next destination goes to the entry whose place it is.
LEMMA DestinationGiven ==
    ASSUME NEW s, Valid(s), NEW b, Ordered(s, b), NEW p, NEW next \in 1 .. Len(s.data),
           Destined(s, b, p, next),
           NEW after, after = [p EXCEPT ![OrderOf(s, b)[next]] = next]
    PROVE  Destined(s, b, after, next + 1)
<1>1. PICK order : order = OrderOf(s, b)
  OBVIOUS
<1>2. Orders(order, Len(s.data), Live(s), RemovedIds(s))
  BY <1>1, OrderOfFacts
<1>3. PICK N : N = Len(s.data)
  OBVIOUS
<1>4. /\ N \in Nat /\ \A q \in 1 .. N : order[q] \in 1 .. N
      /\ \A q, r \in 1 .. N : order[q] = order[r] => q = r
  BY <1>2, <1>3 DEF Orders
<1>5. /\ p \in Seq(Offsets) /\ Len(p) = N
      /\ \A q \in 1 .. N :
            p[order[q]] = IF q < next THEN q ELSE s.bucket_positions[order[q]]
  BY <1>1, <1>3 DEF Destined
<1>6. PICK id : id = order[next]
  OBVIOUS
<1>7. id \in 1 .. N /\ next \in 1 .. N
  BY <1>3, <1>4, <1>6
<1>8. after = [p EXCEPT ![id] = next] /\ next \in Offsets
  BY <1>1, <1>3, <1>6, NoMark
<1>9. /\ after \in Seq(Offsets) /\ Len(after) = N
      /\ \A i \in 1 .. N : after[i] = IF i = id THEN next ELSE p[i]
  <2>1. id \in 1 .. Len(p)
    BY <1>5, <1>7
  <2>2. after \in Seq(Offsets) /\ Len(after) = Len(p) /\ after[id] = next
    <3>1. PICK S, new : S = Offsets /\ new = next
      OBVIOUS
    <3>2. p \in Seq(S) /\ new \in S /\ after = [p EXCEPT ![id] = new]
      BY <1>5, <1>8, <3>1
    <3>3. /\ [p EXCEPT ![id] = new] \in Seq(S) /\ Len([p EXCEPT ![id] = new]) = Len(p)
          /\ [p EXCEPT ![id] = new][id] = new
      BY <2>1, <3>2, AssignFacts, AssignThere
    <3>4. QED
      BY <3>1, <3>2, <3>3
  <2>3. \A i \in 1 .. Len(p) : i # id => after[i] = p[i]
    BY <1>5, <1>8, AssignElsewhere
  <2>4. QED
    BY <1>5, <2>2, <2>3
<1>10. ASSUME NEW q \in 1 .. N
       PROVE  after[order[q]] = IF q < next + 1 THEN q ELSE s.bucket_positions[order[q]]
  <2>1. CASE q = next
    BY <1>4, <1>6, <1>7, <1>9, <2>1
  <2>2. CASE q # next
    <3>1. order[q] # id /\ order[q] \in 1 .. N
      BY <1>4, <1>6, <1>7, <2>2
    <3>2. after[order[q]] = p[order[q]]
      BY <1>9, <3>1
    <3>3. q < next + 1 <=> q < next
      BY <1>7, <2>2
    <3>4. QED
      BY <1>5, <3>2, <3>3
  <2>3. QED
    BY <2>1, <2>2
<1>11. QED
  BY <1>1, <1>3, <1>9, <1>10 DEF Destined

LEMMA LivePlacedOne ==
    ASSUME NEW s, Valid(s), NEW b, NEW p, NEW cur, NEW next, PlacingLive(s, b, p, cur, next),
           cur <= Len(Concatenated(b)),
           NEW after, after = [p EXCEPT ![Concatenated(b)[cur]] = next]
    PROVE  PlacingLive(s, b, after, cur + 1, next + 1)
<1>1. PICK order : order = OrderOf(s, b)
  OBVIOUS
<1>2. Ordered(s, b) /\ Destined(s, b, p, next) /\ cur \in 1 .. Live(s) + 1 /\ next = cur
  BY DEF PlacingLive
<1>3. Len(Concatenated(b)) = Live(s) /\ \A q \in 1 .. Live(s) : order[q] = Concatenated(b)[q]
  BY <1>1, <1>2, OrderOfFacts
<1>4. Live(s) \in Nat /\ Live(s) <= Len(s.data) /\ Len(s.data) \in Nat
  BY BeganFacts
<1>5. cur \in 1 .. Live(s) /\ next \in 1 .. Len(s.data) /\ cur + 1 \in 1 .. Live(s) + 1
  BY <1>2, <1>3, <1>4
<1>6. after = [p EXCEPT ![OrderOf(s, b)[next]] = next]
  BY <1>1, <1>2, <1>3, <1>5
<1>7. Destined(s, b, after, next + 1)
  BY <1>2, <1>5, <1>6, DestinationGiven
<1>8. QED
  BY <1>2, <1>5, <1>7 DEF PlacingLive

\* Every live entry has one: as many as there are live values.
LEMMA LiveAllPlaced ==
    ASSUME NEW s, Valid(s), NEW b, NEW p, NEW cur, NEW next, PlacingLive(s, b, p, cur, next),
           cur > Len(Concatenated(b))
    PROVE  PlacingRemoved(s, b, p, 1, next)
<1>2. Ordered(s, b) /\ Destined(s, b, p, next) /\ cur \in 1 .. Live(s) + 1 /\ next = cur
  BY DEF PlacingLive
<1>3. Len(Concatenated(b)) = Live(s)
  BY <1>2, OrderOfFacts
<1>4. /\ Live(s) \in Nat /\ Len(s.data) \in Nat
      /\ \A r \in RemovedIds(s) : ~ (r < 1)
  BY BeganFacts
<1>5. next = Live(s) + 1
  BY <1>2, <1>3, <1>4
<1>6. Earlier(RemovedIds(s), 1) = 0
  <2>1. {r \in RemovedIds(s) : r < 1} = {}
    BY <1>4
  <2>2. QED
    BY <2>1, FS_EmptySet DEF Earlier
<1>7. next = Live(s) + 1 + Earlier(RemovedIds(s), 1)
  BY <1>4, <1>5, <1>6
<1>8. QED
  BY <1>2, <1>4, <1>7 DEF PlacingRemoved

\* The entry at place q of the order is id.
Takes(s, b, q, id) == q \in 1 .. Len(s.data) /\ OrderOf(s, b)[q] = id

\* An entry is still marked removed if and only if it is a removed one whose
\* turn has not come.
LEMMA StillMarked ==
    ASSUME NEW s, Valid(s), NEW b, NEW p, NEW cur \in 1 .. Len(s.data), NEW next,
           PlacingRemoved(s, b, p, cur, next)
    PROVE  /\ p[cur] = REMOVED_POSITION <=> cur \in RemovedIds(s)
           /\ cur \in RemovedIds(s) => Takes(s, b, next, cur)
<1>1. PICK order, N, n, R : /\ order = OrderOf(s, b) /\ N = Len(s.data)
                            /\ n = Live(s) /\ R = RemovedIds(s)
  OBVIOUS
<1>2. /\ Ordered(s, b) /\ cur \in 1 .. N
      /\ next = n + 1 + Earlier(R, cur)
      /\ \A q \in 1 .. N :
            p[order[q]] = IF q < next THEN q ELSE s.bucket_positions[order[q]]
  BY <1>1 DEF PlacingRemoved, Destined
<1>3. Orders(order, N, n, R)
  BY <1>1, <1>2, OrderOfFacts
<1>4. /\ N \in Nat /\ n \in Nat /\ n <= N /\ R \in SUBSET (1 .. N)
      /\ \A q \in 1 .. N : order[q] \in 1 .. N /\ (n < q <=> order[q] \in R)
      /\ \A q, r \in 1 .. N : order[q] = order[r] => q = r
      /\ \A id \in 1 .. N : \E q \in 1 .. N : order[q] = id
  <2>1. R \in SUBSET (1 .. N)
    BY <1>1, BeganFacts
  <2>2. QED
    BY <1>3, <2>1 DEF Orders
<1>5. Earlier(R, cur) \in Nat /\ n < next /\ next \in Nat
  <2>1. Earlier(R, cur) \in Nat
    BY <1>4, EarlierType
  <2>2. QED
    BY <1>2, <1>4, <2>1
<1>6. cur \in R => next = n + Rank(R, cur) /\ next \in n + 1 .. N /\ order[next] = cur
  <2>1. SUFFICES ASSUME cur \in R
                 PROVE  next = n + Rank(R, cur) /\ next \in n + 1 .. N /\ order[next] = cur
    OBVIOUS
  <2>2. Rank(R, cur) = Earlier(R, cur) + 1
    BY <1>4, <2>1, RankStep
  <2>3. next = n + Rank(R, cur)
    BY <1>2, <1>4, <1>5, <2>2
  <2>4. n + Rank(R, cur) \in n + 1 .. N /\ order[n + Rank(R, cur)] = cur
    BY <1>1, <1>2, <2>1, OrderOfFacts
  <2>5. QED
    BY <2>3, <2>4
<1>7. /\ cur \in R => s.bucket_positions[cur] = REMOVED_POSITION
      /\ cur \notin R => s.bucket_positions[cur] # REMOVED_POSITION
  BY <1>1, <1>2, BeganFacts DEF RemovedIds
<1>8. PICK q \in 1 .. N : order[q] = cur
  BY <1>2, <1>4
<1>9. q # REMOVED_POSITION
  BY <1>1, NoMark
<1>10. CASE cur \in R
  <2>1. next \in 1 .. N /\ order[next] = cur
    BY <1>4, <1>6, <1>10
  <2>2. p[cur] = s.bucket_positions[cur]
    BY <1>2, <1>5, <2>1
  <2>3. QED
    BY <1>1, <1>7, <1>10, <2>1, <2>2 DEF Takes
<1>11. CASE cur \notin R
  <2>1. ~ (n < q)
    BY <1>4, <1>8, <1>11
  <2>2. q < next
    BY <1>4, <1>5, <2>1
  <2>3. p[cur] = q
    BY <1>2, <1>8, <2>2
  <2>4. QED
    BY <1>1, <1>9, <1>11, <2>3
<1>12. QED
  BY <1>10, <1>11

\* Its turn: it goes behind the removed entries before it.
LEMMA RemovedPlacedOne ==
    ASSUME NEW s, Valid(s), NEW b, NEW p, NEW cur \in 1 .. Len(s.data), NEW next,
           PlacingRemoved(s, b, p, cur, next), p[cur] = REMOVED_POSITION,
           NEW after, after = [p EXCEPT ![cur] = next]
    PROVE  PlacingRemoved(s, b, after, cur + 1, next + 1)
<1>1. cur \in RemovedIds(s) /\ next \in 1 .. Len(s.data) /\ OrderOf(s, b)[next] = cur
  <2>1. cur \in RemovedIds(s)
    BY StillMarked
  <2>2. Takes(s, b, next, cur)
    BY <2>1, StillMarked
  <2>3. QED
    BY <2>1, <2>2 DEF Takes
<1>2. /\ Ordered(s, b) /\ Destined(s, b, p, next)
      /\ next = Live(s) + 1 + Earlier(RemovedIds(s), cur)
  BY DEF PlacingRemoved
<1>3. after = [p EXCEPT ![OrderOf(s, b)[next]] = next]
  BY <1>1
<1>4. Destined(s, b, after, next + 1)
  BY <1>1, <1>2, <1>3, DestinationGiven
<1>5. PICK R, N : R = RemovedIds(s) /\ N = Len(s.data)
  OBVIOUS
<1>6. R \in SUBSET (1 .. N) /\ N \in Nat /\ cur \in R /\ Live(s) \in Nat
  BY <1>1, <1>5, BeganFacts
<1>7. {r \in R : r < cur + 1} = {r \in R : r <= cur}
  <2>1. \A r \in R : r \in Nat
    BY <1>6
  <2>2. \A r \in R : r < cur + 1 <=> r <= cur
    BY <1>6, <2>1
  <2>3. QED
    BY <2>2
<1>8. Rank(R, cur) = Earlier(R, cur) + 1 /\ Rank(R, cur) \in Nat
  BY <1>6, RankStep, RankType
<1>9. Earlier(R, cur + 1) = Earlier(R, cur) + 1
  BY <1>7, <1>8 DEF Rank, Earlier
<1>10. Earlier(R, cur) \in Nat
  BY <1>6, RankStep
<1>11. next + 1 = Live(s) + 1 + Earlier(R, cur + 1)
  BY <1>2, <1>5, <1>6, <1>9, <1>10
<1>12. cur + 1 \in 1 .. Len(s.data) + 1
  BY <1>5, <1>6
<1>13. QED
  BY <1>2, <1>4, <1>5, <1>11, <1>12 DEF PlacingRemoved

\* A live entry has its destination.
LEMMA LiveSkipped ==
    ASSUME NEW s, Valid(s), NEW b, NEW p, NEW cur \in 1 .. Len(s.data), NEW next,
           PlacingRemoved(s, b, p, cur, next), p[cur] # REMOVED_POSITION
    PROVE  PlacingRemoved(s, b, p, cur + 1, next)
<1>1. cur \notin RemovedIds(s)
  BY StillMarked
<1>2. /\ Ordered(s, b) /\ Destined(s, b, p, next)
      /\ next = Live(s) + 1 + Earlier(RemovedIds(s), cur)
  BY DEF PlacingRemoved
<1>3. Len(s.data) \in Nat /\ RemovedIds(s) \in SUBSET (1 .. Len(s.data))
  BY BeganFacts
<1>4. Earlier(RemovedIds(s), cur + 1) = Earlier(RemovedIds(s), cur)
  <2>1. \A r \in RemovedIds(s) : r \in Nat /\ r # cur
    BY <1>1, <1>3
  <2>2. cur \in Nat
    OBVIOUS
  <2>3. \A r \in RemovedIds(s) : r < cur + 1 <=> r < cur
    BY <2>1, <2>2
  <2>4. {r \in RemovedIds(s) : r < cur + 1} = {r \in RemovedIds(s) : r < cur}
    BY <2>3
  <2>5. QED
    BY <2>4 DEF Earlier
<1>5. cur + 1 \in 1 .. Len(s.data) + 1
  BY <1>3
<1>6. QED
  BY <1>2, <1>4, <1>5 DEF PlacingRemoved

\* Every entry has a destination of its own: the cycles may begin.
LEMMA CyclesBegun ==
    ASSUME NEW s, Valid(s), NEW b, NEW p, NEW cur, NEW next,
           PlacingRemoved(s, b, p, cur, next), cur > Len(s.data)
    PROVE  Cycling(s, s.data, b, p, 1, 0)
<1>1. PICK order, N, n, R : /\ order = OrderOf(s, b) /\ N = Len(s.data)
                            /\ n = Live(s) /\ R = RemovedIds(s)
  OBVIOUS
<1>2. /\ Ordered(s, b) /\ cur \in 1 .. N + 1
      /\ next = n + 1 + Earlier(R, cur)
      /\ \A q \in 1 .. N :
            p[order[q]] = IF q < next THEN q ELSE s.bucket_positions[order[q]]
      /\ p \in Seq(Offsets) /\ Len(p) = N
  BY <1>1 DEF PlacingRemoved, Destined
<1>3. Orders(order, N, n, R)
  BY <1>1, <1>2, OrderOfFacts
<1>4. /\ N \in Nat /\ n \in Nat /\ n <= N /\ R \in SUBSET (1 .. N)
      /\ n + Cardinality(R) = N
      /\ \A q \in 1 .. N : order[q] \in 1 .. N
      /\ \A q, r \in 1 .. N : order[q] = order[r] => q = r
      /\ \A id \in 1 .. N : \E q \in 1 .. N : order[q] = id
  <2>1. R \in SUBSET (1 .. N) /\ n + Cardinality(R) = N
    BY <1>1, BeganFacts
  <2>2. QED
    BY <1>3, <2>1 DEF Orders
<1>5. next = N + 1
  <2>1. cur \in 1 .. N + 1 /\ N \in Nat /\ cur > N
    BY <1>1, <1>2, <1>4
  <2>2. \A r \in R : r < cur
    BY <1>4, <2>1
  <2>3. {r \in R : r < cur} = R
    BY <2>2
  <2>4. Cardinality(R) \in Nat /\ Earlier(R, cur) = Cardinality(R)
    <3>1. Cardinality(R) \in Nat
      BY <1>4, RankType
    <3>2. QED
      BY <2>3, <3>1 DEF Earlier
  <2>5. next = n + 1 + Cardinality(R) /\ n + Cardinality(R) = N /\ n \in Nat /\ N \in Nat
    BY <1>2, <1>4, <2>4
  <2>6. QED
    BY <2>4, <2>5
<1>6. \A q \in 1 .. N : p[order[q]] = q
  BY <1>2, <1>4, <1>5
<1>7. ASSUME NEW id \in 1 .. N
      PROVE  p[id] \in 1 .. N /\ order[p[id]] = id
  <2>1. PICK q \in 1 .. N : order[q] = id
    BY <1>4
  <2>2. QED
    BY <1>6, <2>1
<1>8. p \in Seq(1 .. N)
  BY <1>2, <1>7
<1>9. \A q, r \in 1 .. N : p[q] = p[r] => q = r
  BY <1>7
<1>10. \A x \in 1 .. N : \E q \in 1 .. N : p[q] = x
  BY <1>4, <1>6
<1>11. s.data \in Seq(Values) /\ \A q \in 1 .. N : s.data[q] = s.data[order[p[q]]]
  <2>1. s.data \in Seq(Values)
    BY DEF Valid, Coherent, Shaped
  <2>2. QED
    BY <1>7, <2>1
<1>12. 0 <= Cardinality({q \in 1 .. N : p[q] = q})
  <2>1. {q \in 1 .. N : p[q] = q} \in SUBSET (1 .. N)
    OBVIOUS
  <2>2. IsFiniteSet({q \in 1 .. N : p[q] = q})
    BY <1>4, <2>1, UpToCardinality, FS_Subset
  <2>3. Cardinality({q \in 1 .. N : p[q] = q}) \in Nat
    BY <2>2, FS_CardinalityType
  <2>4. QED
    BY <2>3
<1>13. 1 \in 1 .. N + 1 /\ \A q \in 1 .. 1 - 1 : p[q] = q
  BY <1>4
<1>14. QED
  BY <1>1, <1>2, <1>8, <1>9, <1>10, <1>11, <1>12, <1>13 DEF Cycling

\* The place a place has exchanged its content with.
Exchanged(i, j, q) == IF q = j THEN i ELSE IF q = i THEN j ELSE q

LEMMA SwappedType ==
    ASSUME NEW S, NEW seq \in Seq(S), NEW i \in 1 .. Len(seq), NEW j \in 1 .. Len(seq)
    PROVE  Swapped(seq, i, j) \in Seq(S) /\ Len(Swapped(seq, i, j)) = Len(seq)
  BY DEF Swapped

LEMMA SwappedAt ==
    ASSUME NEW S, NEW seq \in Seq(S), NEW i \in 1 .. Len(seq), NEW j \in 1 .. Len(seq),
           NEW q \in 1 .. Len(seq)
    PROVE  Swapped(seq, i, j)[q] = seq[Exchanged(i, j, q)]
  BY DEF Swapped, Exchanged

\* The places whose entry is where it belongs.
SettledIn(p, N) == {q \in 1 .. N : p[q] = q}

\* Each of N places has a destination of its own.
Destinations(p, N) ==
    /\ \A q \in 1 .. N : p[q] \in 1 .. N
    /\ \A q, r \in 1 .. N : p[q] = p[r] => q = r

\* What a swap with the destination of place cur makes of a sequence.
Exchanges(after, seq, cur, other, N) ==
    \A q \in 1 .. N : after[q] = seq[Exchanged(cur, other, q)]

\* A swap settles one more, or two: at least two were not.
LEMMA SwapSettles ==
    ASSUME NEW N \in Nat, NEW p, Destinations(p, N), NEW cur \in 1 .. N, p[cur] # cur,
           NEW after, Exchanges(after, p, cur, p[cur], N)
    PROVE  /\ SettledIn(p, N) \subseteq SettledIn(after, N)
           /\ p[cur] \in SettledIn(after, N) /\ p[cur] \notin SettledIn(p, N)
           /\ Cardinality(SettledIn(p, N)) \in Nat /\ Cardinality(SettledIn(after, N)) \in Nat
           /\ Cardinality(SettledIn(p, N)) + 1 <= Cardinality(SettledIn(after, N))
           /\ Cardinality(SettledIn(p, N)) + 1 < N
<1> USE DEF Destinations, Exchanges
<1>1. PICK other : other = p[cur]
  OBVIOUS
<1>2. other \in 1 .. N /\ other # cur /\ p[other] # other
  BY <1>1
<1>3. PICK old, new : old = SettledIn(p, N) /\ new = SettledIn(after, N)
  OBVIOUS
<1>4. ASSUME NEW q \in old
      PROVE  q \in new
  <2>1. q \in 1 .. N /\ p[q] = q
    BY <1>3 DEF SettledIn
  <2>2. q # cur /\ q # other
    BY <1>1, <1>2, <2>1
  <2>3. after[q] = p[q]
    BY <1>1, <2>1, <2>2 DEF Exchanged
  <2>4. QED
    BY <1>3, <2>1, <2>3 DEF SettledIn
<1>5. other \in new /\ other \notin old /\ cur \notin old
  <2>1. after[other] = p[cur]
    BY <1>1, <1>2 DEF Exchanged
  <2>2. QED
    BY <1>1, <1>2, <1>3, <2>1 DEF SettledIn
<1>6. IsFiniteSet(1 .. N) /\ Cardinality(1 .. N) = N
  BY UpToCardinality
<1>7. IsFiniteSet(old) /\ IsFiniteSet(new)
  <2>1. old \in SUBSET (1 .. N) /\ new \in SUBSET (1 .. N)
    BY <1>3 DEF SettledIn
  <2>2. QED
    BY <1>6, <2>1, FS_Subset
<1>8. Cardinality(old) \in Nat /\ Cardinality(new) \in Nat
  BY <1>7, FS_CardinalityType
<1>9. IsFiniteSet(old \cup {other}) /\ Cardinality(old \cup {other}) = Cardinality(old) + 1
  BY <1>5, <1>7, FS_AddElement
<1>10. Cardinality(old \cup {other}) <= Cardinality(new)
  <2>1. old \cup {other} \in SUBSET new
    BY <1>4, <1>5
  <2>2. QED
    BY <1>7, <2>1, FS_Subset
<1>11. Cardinality((old \cup {other}) \cup {cur}) = Cardinality(old) + 2
  <2>1. cur \notin old \cup {other}
    BY <1>2, <1>5
  <2>2. Cardinality((old \cup {other}) \cup {cur}) = Cardinality(old \cup {other}) + 1
    BY <1>9, <2>1, FS_AddElement
  <2>3. QED
    BY <1>8, <1>9, <2>2
<1>12. Cardinality((old \cup {other}) \cup {cur}) <= N
  <2>1. (old \cup {other}) \cup {cur} \in SUBSET (1 .. N)
    BY <1>2, <1>3 DEF SettledIn
  <2>2. QED
    BY <1>6, <2>1, FS_Subset
<1>13. Cardinality(old) + 1 <= Cardinality(new) /\ Cardinality(old) + 1 < N
  BY <1>8, <1>9, <1>10, <1>11, <1>12
<1>14. QED
  BY <1>1, <1>3, <1>4, <1>5, <1>8, <1>13

\* The entry at the cursor goes to its destination, what was there comes to the
\* cursor.
LEMMA CycleSwapped ==
    ASSUME NEW s, Valid(s), NEW d, NEW b, NEW p, NEW cur, NEW count,
           Cycling(s, d, b, p, cur, count), cur <= Len(s.data), p[cur] # cur,
           NEW e, e = Swapped(d, cur, p[cur]), NEW after, after = Swapped(p, cur, p[cur])
    PROVE  /\ Cycling(s, e, b, after, cur, count + 1)
           /\ SettledIn(p, Len(s.data)) \subseteq SettledIn(after, Len(s.data))
           /\ p[cur] \in SettledIn(after, Len(s.data)) /\ p[cur] \notin SettledIn(p, Len(s.data))
           /\ count + 1 < Len(s.data)
<1>1. PICK N, order, other : N = Len(s.data) /\ order = OrderOf(s, b) /\ other = p[cur]
  OBVIOUS
<1>2. /\ Ordered(s, b) /\ N \in Nat
      /\ d \in Seq(Values) /\ Len(d) = N /\ p \in Seq(1 .. N) /\ Len(p) = N
      /\ \A q, r \in 1 .. N : p[q] = p[r] => q = r
      /\ \A x \in 1 .. N : \E q \in 1 .. N : p[q] = x
      /\ \A q \in 1 .. N : d[q] = s.data[order[p[q]]]
      /\ cur \in 1 .. N + 1 /\ \A q \in 1 .. cur - 1 : p[q] = q
      /\ count \in Nat /\ count <= Cardinality(SettledIn(p, N))
  BY <1>1, BeganFacts DEF Cycling, SettledIn
<1>3. cur \in 1 .. N /\ other \in 1 .. N /\ other # cur /\ \A q \in 1 .. N : p[q] \in 1 .. N
  <2>1. cur \in 1 .. N
    BY <1>1, <1>2
  <2>2. \A q \in 1 .. N : p[q] \in 1 .. N
    <3>1. PICK S : S = 1 .. N
      OBVIOUS
    <3>2. p \in Seq(S) /\ Len(p) = N
      BY <1>2, <3>1
    <3>3. \A q \in 1 .. Len(p) : p[q] \in S
      BY <3>2
    <3>4. QED
      BY <3>1, <3>2, <3>3
  <2>3. other \in 1 .. N /\ other # cur
    BY <1>1, <2>1, <2>2
  <2>4. QED
    BY <2>1, <2>2, <2>3
<1>4. e \in Seq(Values) /\ Len(e) = N /\ after \in Seq(1 .. N) /\ Len(after) = N
  <2>1. PICK S : S = 1 .. N
    OBVIOUS
  <2>2. /\ d \in Seq(Values) /\ Len(d) = N /\ p \in Seq(S) /\ Len(p) = N
        /\ cur \in 1 .. N /\ other \in 1 .. N
    BY <1>2, <1>3, <2>1
  <2>3. e = Swapped(d, cur, other) /\ after = Swapped(p, cur, other)
    BY <1>1
  <2>4. e \in Seq(Values) /\ Len(e) = N
    BY <2>2, <2>3, SwappedType
  <2>5. after \in Seq(S) /\ Len(after) = N
    BY <2>2, <2>3, SwappedType
  <2>6. QED
    BY <2>1, <2>4, <2>5
<1>5. \A q \in 1 .. N : Exchanged(cur, other, q) \in 1 .. N
  BY <1>3 DEF Exchanged
<1>6. \A q, r \in 1 .. N : Exchanged(cur, other, q) = Exchanged(cur, other, r) => q = r
  BY <1>3 DEF Exchanged
<1>7. \A q \in 1 .. N : Exchanged(cur, other, Exchanged(cur, other, q)) = q
  BY <1>3 DEF Exchanged
<1>8. \A q \in 1 .. N : after[q] = p[Exchanged(cur, other, q)]
  <2>1. SUFFICES ASSUME NEW q \in 1 .. N
                 PROVE  after[q] = p[Exchanged(cur, other, q)]
    OBVIOUS
  <2>2. /\ p \in Seq(1 .. N) /\ cur \in 1 .. Len(p) /\ other \in 1 .. Len(p) /\ q \in 1 .. Len(p)
        /\ after = Swapped(p, cur, other)
    BY <1>1, <1>2, <1>3
  <2>3. Swapped(p, cur, other)[q] = p[Exchanged(cur, other, q)]
    BY <2>2, SwappedAt
  <2>4. QED
    BY <2>2, <2>3
<1>9. \A q \in 1 .. N : e[q] = d[Exchanged(cur, other, q)]
  <2>1. SUFFICES ASSUME NEW q \in 1 .. N
                 PROVE  e[q] = d[Exchanged(cur, other, q)]
    OBVIOUS
  <2>2. /\ d \in Seq(Values) /\ cur \in 1 .. Len(d) /\ other \in 1 .. Len(d) /\ q \in 1 .. Len(d)
        /\ e = Swapped(d, cur, other)
    BY <1>1, <1>2, <1>3
  <2>3. Swapped(d, cur, other)[q] = d[Exchanged(cur, other, q)]
    BY <2>2, SwappedAt
  <2>4. QED
    BY <2>2, <2>3
<1>10. ASSUME NEW q \in 1 .. N, NEW r \in 1 .. N, after[q] = after[r]
       PROVE  q = r
  <2>1. PICK x, y : x = Exchanged(cur, other, q) /\ y = Exchanged(cur, other, r)
    OBVIOUS
  <2>2. x \in 1 .. N /\ y \in 1 .. N /\ after[q] = p[x] /\ after[r] = p[y]
    BY <1>5, <1>8, <2>1
  <2>3. x = y
    <3>1. p[x] = p[y]
      BY <1>10, <2>2
    <3>2. \A i, j \in 1 .. N : p[i] = p[j] => i = j
      BY <1>2
    <3>3. QED
      BY <2>2, <3>1, <3>2
  <2>4. QED
    BY <1>6, <2>1, <2>3
<1>11. ASSUME NEW x \in 1 .. N
       PROVE  \E q \in 1 .. N : after[q] = x
  <2>1. PICK q \in 1 .. N : p[q] = x
    BY <1>2
  <2>2. PICK r : r = Exchanged(cur, other, q)
    OBVIOUS
  <2>3. r \in 1 .. N /\ after[r] = x
    BY <1>5, <1>7, <1>8, <2>1, <2>2
  <2>4. QED
    BY <2>3
<1>12. \A q \in 1 .. N : e[q] = s.data[order[after[q]]]
  <2>1. SUFFICES ASSUME NEW q \in 1 .. N
                 PROVE  e[q] = s.data[order[after[q]]]
    OBVIOUS
  <2>2. PICK r : r = Exchanged(cur, other, q)
    OBVIOUS
  <2>3. r \in 1 .. N /\ e[q] = d[r] /\ after[q] = p[r]
    BY <1>5, <1>8, <1>9, <2>2
  <2>4. QED
    BY <1>2, <2>3
<1>13. ASSUME NEW q \in 1 .. cur - 1
       PROVE  after[q] = q
  <2>1. p[q] = q /\ q \in 1 .. N /\ q # cur
    <3>1. p[q] = q
      BY <1>2
    <3>2. N \in Nat /\ cur \in 1 .. N
      BY <1>2, <1>3
    <3>3. QED
      BY <3>1, <3>2
  <2>2. q # other
    <3>1. SUFFICES ASSUME q = other
                   PROVE  FALSE
      OBVIOUS
    <3>2. p[q] = p[cur]
      BY <1>1, <2>1, <3>1
    <3>3. QED
      BY <1>2, <1>3, <2>1, <3>2
  <2>3. Exchanged(cur, other, q) = q
    BY <2>1, <2>2 DEF Exchanged
  <2>4. QED
    BY <1>8, <2>1, <2>3
<1>14. /\ SettledIn(p, N) \subseteq SettledIn(after, N)
       /\ other \in SettledIn(after, N) /\ other \notin SettledIn(p, N)
       /\ Cardinality(SettledIn(p, N)) \in Nat /\ Cardinality(SettledIn(after, N)) \in Nat
       /\ Cardinality(SettledIn(p, N)) + 1 <= Cardinality(SettledIn(after, N))
       /\ Cardinality(SettledIn(p, N)) + 1 < N
  <2>1. Destinations(p, N) /\ Exchanges(after, p, cur, p[cur], N)
    BY <1>1, <1>2, <1>3, <1>8 DEF Destinations, Exchanges
  <2>2. cur \in 1 .. N /\ p[cur] # cur /\ N \in Nat /\ other = p[cur]
    BY <1>1, <1>2, <1>3
  <2>3. SettledIn(p, N) \subseteq SettledIn(after, N)
    BY <2>1, <2>2, SwapSettles
  <2>4. other \in SettledIn(after, N) /\ other \notin SettledIn(p, N)
    BY <2>1, <2>2, SwapSettles
  <2>5. /\ Cardinality(SettledIn(p, N)) \in Nat /\ Cardinality(SettledIn(after, N)) \in Nat
        /\ Cardinality(SettledIn(p, N)) + 1 <= Cardinality(SettledIn(after, N))
        /\ Cardinality(SettledIn(p, N)) + 1 < N
    BY <2>1, <2>2, SwapSettles
  <2>6. QED
    BY <2>3, <2>4, <2>5
<1>15. count + 1 \in Nat /\ count + 1 <= Cardinality(SettledIn(after, N)) /\ count + 1 < N
  <2>1. PICK x, y : x = Cardinality(SettledIn(p, N)) /\ y = Cardinality(SettledIn(after, N))
    OBVIOUS
  <2>2. x \in Nat /\ y \in Nat /\ x + 1 <= y /\ x + 1 < N
    BY <1>14, <2>1
  <2>3. count \in Nat /\ count <= x /\ N \in Nat
    BY <1>2, <2>1
  <2>4. count + 1 \in Nat /\ count + 1 <= y /\ count + 1 < N
    BY <2>2, <2>3
  <2>5. QED
    BY <2>1, <2>4
<1>16. Cycling(s, e, b, after, cur, count + 1)
  BY <1>1, <1>2, <1>4, <1>10, <1>11, <1>12, <1>13, <1>15 DEF Cycling, SettledIn
<1>17. QED
  BY <1>1, <1>14, <1>15, <1>16

\* A closed cycle is left as it is.
LEMMA CycleLeft ==
    ASSUME NEW s, Valid(s), NEW d, NEW b, NEW p, NEW cur, NEW count,
           Cycling(s, d, b, p, cur, count), cur <= Len(s.data), p[cur] = cur
    PROVE  Cycling(s, d, b, p, cur + 1, count)
<1>1. Len(s.data) \in Nat
  BY BeganFacts
<1>2. cur \in 1 .. Len(s.data) + 1 /\ \A q \in 1 .. cur - 1 : p[q] = q
  BY DEF Cycling
<1>3. cur + 1 \in 1 .. Len(s.data) + 1
  BY <1>1, <1>2
<1>4. \A q \in 1 .. (cur + 1) - 1 : p[q] = q
  <2>1. \A q \in 1 .. (cur + 1) - 1 : q = cur \/ q \in 1 .. cur - 1
    BY <1>2
  <2>2. QED
    BY <1>2, <2>1
<1>5. QED
  BY <1>3, <1>4 DEF Cycling

\* All closed, the values are where the order puts them.
LEMMA RebindBegun ==
    ASSUME NEW s, Valid(s), NEW d, NEW b, NEW p, NEW cur, NEW count,
           Cycling(s, d, b, p, cur, count), cur > Len(s.data)
    PROVE  Rebinding(s, d, b, p, 1, 1)
<1>1. PICK N, order : N = Len(s.data) /\ order = OrderOf(s, b)
  OBVIOUS
<1>2. /\ Ordered(s, b) /\ N \in Nat /\ DOMAIN s.data = 1 .. N /\ Len(s.buckets) \in Nat
      /\ d \in Seq(Values) /\ Len(d) = N /\ p \in Seq(1 .. N) /\ Len(p) = N
      /\ \A q \in 1 .. N : d[q] = s.data[order[p[q]]]
      /\ cur \in 1 .. N + 1 /\ \A q \in 1 .. cur - 1 : p[q] = q
  BY <1>1, BeganFacts DEF Cycling
<1>3. \A q \in 1 .. N : p[q] = q
  BY <1>1, <1>2
<1>4. IsSortOrder(s, order)
  BY <1>1, <1>2, OrderOfFacts
<1>5. d = SortedD(s.data, order)
  <2>1. DOMAIN d = 1 .. N /\ d = [q \in 1 .. N |-> d[q]]
    BY <1>2
  <2>2. QED
    BY <1>2, <1>3, <2>1 DEF SortedD
<1>6. /\ b \in Seq(Seq(1 .. Len(s.data))) /\ Len(b) = Len(s.buckets)
      /\ \A w \in 1 .. Len(s.buckets) :
            DOMAIN b[w] = DOMAIN s.buckets[w] /\ Len(b[w]) = Len(s.buckets[w])
  BY <1>2 DEF Ordered, Rearranged
<1>7. p \in Seq(Offsets)
  <2>1. 1 .. N \subseteq Offsets
    BY <1>1, NoMark
  <2>2. QED
    BY <1>2, <2>1
<1>8. 1 = Start(s.buckets, 1 - 1) + 1
  BY StartZero
<1>9. 1 \in 1 .. Len(s.buckets) + 1 /\ \A w \in 1 .. Len(s.buckets) : ~ (w < 1)
  BY <1>2
<1>10. \A q \in 1 .. N : p[q] = IF q < 1 THEN SortedP(s.data, s.buckets)[q] ELSE q
  BY <1>2, <1>3
<1>11. order \in [1 .. N -> 1 .. N]
  <2>1. Orders(order, N, Live(s), RemovedIds(s))
    BY <1>1, <1>2, OrderOfFacts
  <2>2. order = [q \in 1 .. N |-> order[q]]
    BY <1>1 DEF OrderOf, Placed
  <2>3. QED
    BY <2>1, <2>2 DEF Orders
<1>12. QED
  BY <1>1, <1>2, <1>4, <1>5, <1>6, <1>7, <1>8, <1>9, <1>10, <1>11 DEF Rebinding

\* Phase C binds the next bucket to the places behind the last one.
LEMMA BucketRebound ==
    ASSUME NEW s, Valid(s), NEW d, NEW b, NEW p, NEW cur, NEW next,
           Rebinding(s, d, b, p, cur, next), cur <= Len(b),
           NEW c, c = [b EXCEPT ![cur] = [k \in DOMAIN b[cur] |-> next - 1 + k]],
           NEW after, after = [q \in DOMAIN p |->
                                  IF q > next - 1 /\ q - (next - 1) \in DOMAIN b[cur]
                                  THEN q - (next - 1) ELSE p[q]]
    PROVE  Rebinding(s, d, c, after, cur + 1, next + Len(b[cur]))
<1>1. PICK D, B, P, N, first, m : /\ D = s.data /\ B = s.buckets /\ P = s.bucket_positions
                                  /\ N = Len(D) /\ first = Start(B, cur - 1) /\ m = Len(B[cur])
  OBVIOUS
<1>2. /\ Coherent(D, B, P) /\ N \in Nat /\ Len(B) \in Nat /\ N <= Capacity
      /\ \A w \in 1 .. Len(B) : DOMAIN B[w] = 1 .. Len(B[w]) /\ Len(B[w]) \in Nat
  BY <1>1, BeganFacts
<1>3. /\ cur \in 1 .. Len(B) + 1 /\ next = first + 1
      /\ b \in Seq(Seq(1 .. N)) /\ Len(b) = Len(B)
      /\ \A w \in 1 .. Len(B) : DOMAIN b[w] = DOMAIN B[w] /\ Len(b[w]) = Len(B[w])
      /\ \A w \in 1 .. Len(B) : w < cur => b[w] = SortedB(B)[w]
      /\ p \in Seq(Offsets) /\ Len(p) = N
      /\ \A q \in 1 .. N : p[q] = IF q < next THEN SortedP(D, B)[q] ELSE q
  BY <1>1 DEF Rebinding
<1>4. cur \in 1 .. Len(B)
  BY <1>2, <1>3
<1>5. /\ first \in Nat /\ next - 1 = first /\ m \in Nat
      /\ DOMAIN b[cur] = 1 .. m /\ Len(b[cur]) = m /\ Start(B, cur) = first + m
  <2>1. first \in Nat /\ Start(B, cur) = first + m
    BY <1>1, <1>2, <1>4, RegionPlaces, StartStep
  <2>2. next - 1 = first
    BY <1>3, <2>1
  <2>3. m \in Nat /\ DOMAIN B[cur] = 1 .. m
    BY <1>1, <1>2, <1>4
  <2>4. DOMAIN b[cur] = 1 .. m /\ Len(b[cur]) = m
    BY <1>1, <1>3, <1>4, <2>3
  <2>5. QED
    BY <2>1, <2>2, <2>3, <2>4
<1>6. ASSUME NEW k \in 1 .. m
      PROVE  first + k \in 1 .. N /\ SortedP(D, B)[first + k] = k
  BY <1>1, <1>2, <1>4, <1>6, SortedPlace
<1>7. PICK bucket : bucket = [k \in 1 .. m |-> first + k]
  OBVIOUS
<1>8. bucket \in Seq(1 .. N) /\ Len(bucket) = m /\ DOMAIN bucket = 1 .. m
  <2>1. bucket \in [1 .. m -> 1 .. N]
    BY <1>6, <1>7
  <2>2. m \in Nat
    BY <1>5
  <2>3. bucket \in Seq(1 .. N)
    <3>1. PICK T : T = 1 .. N
      OBVIOUS
    <3>2. bucket \in [1 .. m -> T]
      BY <2>1, <3>1
    <3>3. bucket \in Seq(T)
      BY <2>2, <3>2
    <3>4. QED
      BY <3>1, <3>3
  <2>4. DOMAIN bucket = 1 .. m
    BY <2>1
  <2>5. QED
    BY <2>2, <2>3, <2>4
<1>9. c = [b EXCEPT ![cur] = bucket]
  BY <1>5, <1>7
<1>10. c \in Seq(Seq(1 .. N)) /\ Len(c) = Len(B) /\ c[cur] = bucket
  <2>1. PICK S : S = Seq(1 .. N)
    OBVIOUS
  <2>2. b \in Seq(S) /\ bucket \in S /\ cur \in 1 .. Len(b)
    BY <1>3, <1>4, <1>8, <2>1
  <2>3. c \in Seq(S) /\ Len(c) = Len(b)
    BY <1>9, <2>2, AssignFacts
  <2>4. c[cur] = bucket
    BY <1>9, <2>2, AssignThere
  <2>5. QED
    BY <1>3, <2>1, <2>3, <2>4
<1>11. ASSUME NEW w \in 1 .. Len(B), w # cur
       PROVE  c[w] = b[w]
  <2>1. w \in 1 .. Len(b)
    BY <1>3
  <2>2. QED
    BY <1>3, <1>9, <1>11, <2>1, AssignElsewhere
<1>12. ASSUME NEW w \in 1 .. Len(B)
       PROVE  DOMAIN c[w] = DOMAIN B[w] /\ Len(c[w]) = Len(B[w])
  <2>1. CASE w = cur
    <3>1. c[w] = bucket /\ DOMAIN B[w] = 1 .. m /\ Len(B[w]) = m
      BY <1>1, <1>2, <1>10, <2>1
    <3>2. QED
      BY <1>8, <3>1
  <2>2. CASE w # cur
    BY <1>3, <1>11, <2>2
  <2>3. QED
    BY <2>1, <2>2
<1>13. ASSUME NEW w \in 1 .. Len(B), w < cur + 1
       PROVE  c[w] = SortedB(B)[w]
  <2>1. CASE w = cur
    <3>1. SortedB(B)[cur] = [k \in 1 .. m |-> first + k]
      <4>1. B \in Seq(Seq(1 .. N)) /\ DOMAIN B[cur] = 1 .. m
        BY <1>1, <1>2, <1>4 DEF Coherent, Shaped
      <4>2. DOMAIN B = 1 .. Len(B)
        BY <4>1
      <4>3. QED
        BY <1>1, <1>4, <4>1, <4>2 DEF SortedB
    <3>2. QED
      BY <1>7, <1>10, <2>1, <3>1
  <2>2. CASE w # cur
    <3>1. w < cur
      BY <1>2, <1>4, <1>13, <2>2
    <3>2. QED
      BY <1>3, <1>11, <2>2, <3>1
  <2>3. QED
    BY <2>1, <2>2
<1>14. /\ DOMAIN p = 1 .. N /\ DOMAIN after = 1 .. N
       /\ \A q \in 1 .. N : after[q] = IF q > first /\ q - first \in 1 .. m
                                       THEN q - first ELSE p[q]
  <2>1. DOMAIN p = 1 .. N
    BY <1>2, <1>3
  <2>2. after = [q \in 1 .. N |-> IF q > first /\ q - first \in 1 .. m
                                  THEN q - first ELSE p[q]]
    BY <1>5, <2>1
  <2>3. QED
    BY <2>1, <2>2
<1>15. ASSUME NEW q \in 1 .. N
       PROVE  after[q] = IF q < next + m THEN SortedP(D, B)[q] ELSE q
  <2>1. q \in Nat /\ next = first + 1
    BY <1>3
  <2>2. CASE q <= first
    <3>1. after[q] = p[q]
      BY <1>5, <1>14, <2>1, <2>2
    <3>2. q < next /\ q < next + m
      BY <1>5, <2>1, <2>2
    <3>3. QED
      BY <1>3, <3>1, <3>2
  <2>3. CASE q > first /\ q <= first + m
    <3>1. PICK k : k = q - first
      OBVIOUS
    <3>2. k \in 1 .. m /\ first + k = q /\ q < next + m
      BY <1>5, <2>1, <2>3, <3>1
    <3>3. after[q] = k
      BY <1>14, <2>3, <3>1, <3>2
    <3>4. QED
      BY <1>6, <3>2, <3>3
  <2>4. CASE q > first + m
    <3>1. ~ (q - first \in 1 .. m) /\ ~ (q < next) /\ ~ (q < next + m)
      BY <1>5, <2>1, <2>4
    <3>2. QED
      BY <1>3, <1>14, <3>1
  <2>5. QED
    BY <1>5, <2>1, <2>2, <2>3, <2>4
<1>16. after \in Seq(Offsets) /\ Len(after) = N
  <2>1. ASSUME NEW q \in 1 .. N
        PROVE  after[q] \in Offsets
    <3>1. CASE q > first /\ q - first \in 1 .. m
      <4>1. q - first \in 1 .. Capacity
        BY <1>2, <1>5, <3>1, ClientAssumption
      <4>2. QED
        BY <1>14, <3>1, <4>1 DEF Offsets
    <3>2. CASE ~ (q > first /\ q - first \in 1 .. m)
      <4>1. after[q] = p[q]
        BY <1>14, <3>2
      <4>2. p[q] \in Offsets
        BY <1>3
      <4>3. QED
        BY <4>1, <4>2
    <3>3. QED
      BY <3>1, <3>2
  <2>2. after = [q \in 1 .. N |-> after[q]]
    BY <1>5, <1>14
  <2>3. QED
    BY <1>2, <2>1, <2>2
<1>17. cur + 1 \in 1 .. Len(B) + 1 /\ next + m = Start(B, (cur + 1) - 1) + 1
  <2>1. (cur + 1) - 1 = cur
    BY <1>4
  <2>2. cur + 1 \in 1 .. Len(B) + 1
    <3>1. Len(B) \in Nat
      BY <1>2
    <3>2. QED
      BY <1>4, <3>1
  <2>3. next + m = (first + m) + 1
    <3>1. first \in Nat /\ m \in Nat
      BY <1>5
    <3>2. next = first + 1
      BY <1>3
    <3>3. QED
      BY <3>1, <3>2
  <2>4. QED
    BY <1>5, <2>1, <2>2, <2>3
<1>18. \E order \in [1 .. Len(s.data) -> 1 .. Len(s.data)] :
          IsSortOrder(s, order) /\ d = SortedD(s.data, order)
  BY DEF Rebinding
<1>19. QED
  BY <1>1, <1>5, <1>10, <1>12, <1>13, <1>15, <1>16, <1>17, <1>18 DEF Rebinding

\* An index the step SarkarSort may leave of s.
SortedInto(s, sorted) ==
    \E order \in [1 .. Len(s.data) -> 1 .. Len(s.data)] :
        IsSortOrder(s, order) /\ sorted = Sorted(s, order)

\* All bound, the index is the one SarkarSort describes.
LEMMA SortFinished ==
    ASSUME NEW s, Valid(s), NEW d, NEW b, NEW p, NEW cur, NEW next,
           Rebinding(s, d, b, p, cur, next), cur > Len(b),
           NEW after, after = [q \in DOMAIN p |-> IF q >= next THEN REMOVED_POSITION ELSE p[q]]
    PROVE  SortedInto(s, Record(d, ShrinkTrailing(b), after, s.live_len))
<1>1. PICK order \in [1 .. Len(s.data) -> 1 .. Len(s.data)] :
          IsSortOrder(s, order) /\ d = SortedD(s.data, order)
  BY DEF Rebinding
<1>2. PICK D, B, N, n : D = s.data /\ B = s.buckets /\ N = Len(D) /\ n = Live(s)
  OBVIOUS
<1>3. /\ N \in Nat /\ Len(B) \in Nat /\ DOMAIN D = 1 .. N /\ n \in Nat
      /\ DOMAIN B = 1 .. Len(B)
  BY <1>2, BeganFacts
<1>4. /\ cur \in 1 .. Len(B) + 1 /\ next = Start(B, cur - 1) + 1
      /\ b \in Seq(Seq(1 .. N)) /\ Len(b) = Len(B)
      /\ \A w \in 1 .. Len(B) : w < cur => b[w] = SortedB(B)[w]
      /\ p \in Seq(Offsets) /\ Len(p) = N
      /\ \A q \in 1 .. N : p[q] = IF q < next THEN SortedP(D, B)[q] ELSE q
  BY <1>2 DEF Rebinding
<1>5. cur = Len(B) + 1 /\ next = n + 1
  <2>1. cur = Len(B) + 1
    <3>1. cur \in 1 .. Len(B) + 1 /\ cur > Len(B) /\ Len(B) \in Nat
      BY <1>3, <1>4
    <3>2. QED
      BY <3>1
  <2>2. cur - 1 = Len(B)
    BY <1>3, <2>1
  <2>3. QED
    BY <1>2, <1>4, <2>1, <2>2 DEF Live
<1>6. b = SortedB(B)
  <2>1. \A w \in 1 .. Len(B) : b[w] = SortedB(B)[w]
    BY <1>3, <1>4, <1>5
  <2>2. DOMAIN b = 1 .. Len(B) /\ b = [w \in 1 .. Len(B) |-> b[w]]
    BY <1>3, <1>4
  <2>3. DOMAIN SortedB(B) = 1 .. Len(B) /\ SortedB(B) = [w \in 1 .. Len(B) |-> SortedB(B)[w]]
    BY <1>3 DEF SortedB
  <2>4. QED
    BY <2>1, <2>2, <2>3
<1>7. after = SortedP(D, B)
  <2>1. DOMAIN p = 1 .. N
    BY <1>3, <1>4
  <2>2. \A q \in 1 .. N : q > n => SortedP(D, B)[q] = REMOVED_POSITION
    BY <1>2, <1>3 DEF SortedP, Live
  <2>3. \A q \in 1 .. N : after[q] = SortedP(D, B)[q]
    BY <1>3, <1>4, <1>5, <2>1, <2>2
  <2>4. after = [q \in 1 .. N |-> after[q]]
    BY <2>1
  <2>5. SortedP(D, B) = [q \in 1 .. N |-> SortedP(D, B)[q]]
    BY <1>3 DEF SortedP
  <2>6. QED
    BY <2>3, <2>4, <2>5
<1>8. Sorted(s, order) = Record(SortedD(D, order), ShrinkTrailing(SortedB(B)),
                                SortedP(D, B), s.live_len)
  BY <1>1, <1>2, SortedValid
<1>9. Record(d, ShrinkTrailing(b), after, s.live_len) = Sorted(s, order)
  BY <1>1, <1>2, <1>6, <1>7, <1>8
<1>10. QED
  BY <1>1, <1>9 DEF SortedInto

\* Each place the next bucket is bound to holds a value of its width.
LEMMA ReboundWidth ==
    ASSUME NEW s, Valid(s), NEW d, NEW b, NEW p, NEW cur, NEW next,
           Rebinding(s, d, b, p, cur, next), cur <= Len(b), NEW k \in DOMAIN b[cur]
    PROVE  BitWidth(d[next - 1 + k]) + 1 = cur
<1>1. PICK D, B, P, N, first, m : /\ D = s.data /\ B = s.buckets /\ P = s.bucket_positions
                                  /\ N = Len(D) /\ first = Start(B, cur - 1) /\ m = Len(B[cur])
  OBVIOUS
<1>2. /\ Coherent(D, B, P) /\ N \in Nat /\ Len(B) \in Nat /\ DOMAIN D = 1 .. N
      /\ DOMAIN B = 1 .. Len(B)
      /\ \A w \in 1 .. Len(B) : DOMAIN B[w] = 1 .. Len(B[w]) /\ Len(B[w]) \in Nat
  BY <1>1, BeganFacts
<1>3. /\ cur \in 1 .. Len(B) + 1 /\ next = first + 1 /\ Len(b) = Len(B)
      /\ \A w \in 1 .. Len(B) : DOMAIN b[w] = DOMAIN B[w]
  BY <1>1 DEF Rebinding
<1>4. cur \in 1 .. Len(B)
  BY <1>2, <1>3
<1>5. first \in Nat /\ k \in 1 .. m /\ next - 1 = first
  <2>1. first \in Nat
    BY <1>1, <1>2, <1>4, RegionPlaces
  <2>2. k \in DOMAIN B[cur]
    BY <1>3, <1>4
  <2>3. DOMAIN B[cur] = 1 .. m
    BY <1>1, <1>2, <1>4
  <2>4. next - 1 = first
    BY <1>3, <2>1
  <2>5. QED
    BY <2>1, <2>2, <2>3, <2>4
<1>6. PICK q : q = first + k
  OBVIOUS
<1>7. q \in 1 .. N /\ q \in Region(B, cur)
  <2>1. Coherent(D, B, P) /\ k \in 1 .. Len(B[cur]) /\ q = Start(B, cur - 1) + k
    BY <1>1, <1>2, <1>5, <1>6
  <2>2. QED
    BY <1>1, <1>4, <2>1, SortedPlace
<1>8. PICK order : IsSortOrder(s, order) /\ d = SortedD(s.data, order)
  BY Zenon DEF Rebinding
<1>9. order[q] \in Range(B[cur])
  <2>1. {order[r] : r \in Region(B, cur)} = Range(B[cur])
    BY <1>1, <1>2, <1>4, <1>8 DEF IsSortOrder, Fills
  <2>2. QED
    BY <1>7, <2>1
<1>10. PICK j \in 1 .. m : order[q] = B[cur][j]
  BY <1>1, <1>2, <1>4, <1>9 DEF Range
<1>11. BitWidth(D[B[cur][j]]) + 1 = cur
  BY <1>1, <1>2, <1>4 DEF Coherent, Routed
<1>12. d[q] = D[order[q]]
  BY <1>1, <1>2, <1>7, <1>8 DEF SortedD
<1>13. QED
  BY <1>5, <1>6, <1>10, <1>11, <1>12

\* It is bound behind the live ones when there is no bucket left.
LEMMA ReboundAll ==
    ASSUME NEW s, Valid(s), NEW d, NEW b, NEW p, NEW cur, NEW next,
           Rebinding(s, d, b, p, cur, next), cur > Len(b)
    PROVE  next = s.live_len + 1
<1>1. Len(s.buckets) \in Nat /\ Live(s) = s.live_len /\ Live(s) \in Nat
  BY BeganFacts
<1>2. cur \in 1 .. Len(s.buckets) + 1 /\ next = Start(s.buckets, cur - 1) + 1
      /\ Len(b) = Len(s.buckets)
  BY DEF Rebinding
<1>3. cur - 1 = Len(s.buckets)
  BY <1>1, <1>2
<1>4. QED
  BY <1>1, <1>2, <1>3 DEF Live

-------------------------------------------------------------------------------
(* The invariant of the phases.                                            *)

\* The loop that runs, in a sort of the index s.
Sorting(s) ==
    \/ /\ phase = "sort_buckets" /\ data = s.data /\ bucket_positions = s.bucket_positions
       /\ destination = 1 /\ swaps = 0
       /\ cursor \in 1 .. Len(s.buckets) + 1
       /\ Rearranged(s.data, s.buckets, buckets, cursor)
    \/ /\ phase = "place_live" /\ data = s.data /\ swaps = 0
       /\ PlacingLive(s, buckets, bucket_positions, cursor, destination)
    \/ /\ phase = "place_removed" /\ data = s.data /\ swaps = 0
       /\ PlacingRemoved(s, buckets, bucket_positions, cursor, destination)
    \/ /\ phase = "cycles"
       /\ Cycling(s, data, buckets, bucket_positions, cursor, swaps)
    \/ /\ phase = "rebind"
       /\ Rebinding(s, data, buckets, bucket_positions, cursor, destination)

Running == /\ Valid(before) /\ live_len = before.live_len
           /\ Sorting(before)

SInv == /\ reply.id \in 0 .. Capacity /\ reply.ok \in BOOLEAN
        /\ swaps \in Nat
        /\ \/ Idle /\ Valid(self)
           \/ Running

LEMMA PhaseKnown ==
    ASSUME Running
    PROVE  phase \in {"sort_buckets", "place_live", "place_removed", "cycles", "rebind"}
BY DEF Running, Sorting

\* What a step of a running sort leaves alone.
LEMMA StillRunning ==
    ASSUME SInv, Running, Sorting(before)', UNCHANGED <<before, live_len, reply>>,
           swaps' = swaps \/ swaps' = swaps + 1
    PROVE  SInv'
<1>1. Valid(before)' /\ (live_len = before.live_len)'
  BY DEF Running
<1>2. QED
  BY <1>1 DEF SInv, Running

LEMMA SortBucketHolds ==
    ASSUME SInv, Running, SortBucket
    PROVE  SInv'
<1>1. PICK s : s = before
  OBVIOUS
<1>2. /\ phase = "sort_buckets" /\ data = s.data /\ bucket_positions = s.bucket_positions
      /\ destination = 1 /\ swaps = 0 /\ cursor \in 1 .. Len(s.buckets) + 1
      /\ Rearranged(s.data, s.buckets, buckets, cursor) /\ Valid(s)
  BY <1>1 DEF SortBucket, Running, Sorting
<1>3. PICK order \in Bijection(DOMAIN buckets[cursor], DOMAIN buckets[cursor]) :
          LET bucket == [k \in DOMAIN buckets[cursor] |-> buckets[cursor][order[k]]]
          IN  /\ \A i, j \in DOMAIN bucket : i < j => data[bucket[i]] <= data[bucket[j]]
              /\ buckets' = [buckets EXCEPT ![cursor] = bucket]
  BY DEF SortBucket
<1>4. Coherent(s.data, s.buckets, s.bucket_positions) /\ Len(s.buckets) \in Nat
  BY <1>2, BeganFacts
<1>5. Len(buckets) = Len(s.buckets)
  BY <1>2 DEF Rearranged
<1>6. cursor \in 1 .. Len(s.buckets)
  BY <1>2, <1>4, <1>5 DEF SortBucket
<1>7. PICK bucket : bucket = [k \in DOMAIN buckets[cursor] |-> buckets[cursor][order[k]]]
  OBVIOUS
<1>8. /\ \A i, j \in DOMAIN bucket : i < j => s.data[bucket[i]] <= s.data[bucket[j]]
      /\ buckets' = [buckets EXCEPT ![cursor] = bucket]
  BY <1>2, <1>3, <1>7
<1>9. Rearranged(s.data, s.buckets, buckets', cursor + 1)
  BY <1>2, <1>4, <1>6, <1>7, <1>8, BucketSorted
<1>10. cursor + 1 \in 1 .. Len(s.buckets) + 1
  BY <1>4, <1>6
<1>11. Sorting(before)'
  BY <1>1, <1>2, <1>9, <1>10 DEF SortBucket, Sorting
<1>12. QED
  BY <1>11, StillRunning DEF SortBucket

LEMMA BucketsSortedHolds ==
    ASSUME SInv, Running, BucketsSorted
    PROVE  SInv'
<1>1. PICK s : s = before
  OBVIOUS
<1>2. /\ data = s.data /\ bucket_positions = s.bucket_positions
      /\ destination = 1 /\ swaps = 0 /\ cursor \in 1 .. Len(s.buckets) + 1
      /\ Rearranged(s.data, s.buckets, buckets, cursor) /\ Valid(s)
  BY <1>1 DEF BucketsSorted, Running, Sorting
<1>3. Len(s.buckets) \in Nat
  BY <1>2, BeganFacts
<1>4. Len(buckets) = Len(s.buckets)
  BY <1>2 DEF Rearranged
<1>5. cursor = Len(s.buckets) + 1
  BY <1>2, <1>3, <1>4 DEF BucketsSorted
<1>6. PlacingLive(s, buckets, s.bucket_positions, 1, 1)
  BY <1>2, <1>5, LiveBegun DEF Ordered
<1>7. Sorting(before)'
  BY <1>1, <1>2, <1>6 DEF BucketsSorted, Enter, Sorting, vars
<1>8. QED
  BY <1>7, StillRunning DEF BucketsSorted, vars

LEMMA PlaceLiveHolds ==
    ASSUME SInv, Running, PlaceLive
    PROVE  SInv'
<1>1. PICK s : s = before
  OBVIOUS
<1>2. /\ data = s.data /\ swaps = 0 /\ Valid(s)
      /\ PlacingLive(s, buckets, bucket_positions, cursor, destination)
  BY <1>1 DEF PlaceLive, Running, Sorting
<1>3. PlacingLive(s, buckets, bucket_positions', cursor + 1, destination + 1)
  BY <1>2, LivePlacedOne DEF PlaceLive, GiveDestination, Sources
<1>4. Sorting(before)'
  BY <1>1, <1>2, <1>3 DEF PlaceLive, GiveDestination, Sorting
<1>5. QED
  BY <1>4, StillRunning DEF PlaceLive

LEMMA LivePlacedHolds ==
    ASSUME SInv, Running, LivePlaced
    PROVE  SInv'
<1>1. PICK s : s = before
  OBVIOUS
<1>2. /\ data = s.data /\ swaps = 0 /\ Valid(s)
      /\ PlacingLive(s, buckets, bucket_positions, cursor, destination)
  BY <1>1 DEF LivePlaced, Running, Sorting
<1>3. PlacingRemoved(s, buckets, bucket_positions, 1, destination)
  BY <1>2, LiveAllPlaced DEF LivePlaced, Sources
<1>4. Sorting(before)'
  BY <1>1, <1>2, <1>3 DEF LivePlaced, Enter, Sorting, vars
<1>5. QED
  BY <1>4, StillRunning DEF LivePlaced, vars

LEMMA PlaceRemovedHolds ==
    ASSUME SInv, Running, PlaceRemoved
    PROVE  SInv'
<1>1. PICK s : s = before
  OBVIOUS
<1>2. /\ data = s.data /\ swaps = 0 /\ Valid(s)
      /\ PlacingRemoved(s, buckets, bucket_positions, cursor, destination)
  BY <1>1 DEF PlaceRemoved, Running, Sorting
<1>3. cursor \in 1 .. Len(s.data)
  <2>1. cursor \in 1 .. Len(s.data) + 1 /\ Len(s.data) \in Nat /\ cursor <= Len(s.data)
    BY <1>2, BeganFacts DEF PlacingRemoved, PlaceRemoved
  <2>2. QED
    BY <2>1
<1>4. PlacingRemoved(s, buckets, bucket_positions', cursor + 1, destination')
  <2>1. CASE bucket_positions[cursor] = REMOVED_POSITION
    <3>1. /\ bucket_positions' = [bucket_positions EXCEPT ![cursor] = destination]
          /\ destination' = destination + 1
      BY <2>1 DEF PlaceRemoved, GiveDestination
    <3>2. QED
      BY <1>2, <1>3, <2>1, <3>1, RemovedPlacedOne
  <2>2. CASE bucket_positions[cursor] # REMOVED_POSITION
    <3>1. bucket_positions' = bucket_positions /\ destination' = destination
      BY <2>2 DEF PlaceRemoved
    <3>2. QED
      BY <1>2, <1>3, <2>2, <3>1, LiveSkipped
  <2>3. QED
    BY <2>1, <2>2
<1>5. Sorting(before)'
  BY <1>1, <1>2, <1>4 DEF PlaceRemoved, Sorting
<1>6. QED
  <2>1. UNCHANGED <<before, live_len, reply>> /\ swaps' = swaps
    BY DEF PlaceRemoved
  <2>2. QED
    BY <1>5, <2>1, StillRunning

LEMMA RemovedPlacedHolds ==
    ASSUME SInv, Running, RemovedPlaced
    PROVE  SInv'
<1>1. PICK s : s = before
  OBVIOUS
<1>2. /\ data = s.data /\ swaps = 0 /\ Valid(s)
      /\ PlacingRemoved(s, buckets, bucket_positions, cursor, destination)
  BY <1>1 DEF RemovedPlaced, Running, Sorting
<1>3. Cycling(s, s.data, buckets, bucket_positions, 1, 0)
  BY <1>2, CyclesBegun DEF RemovedPlaced
<1>4. Sorting(before)'
  BY <1>1, <1>2, <1>3 DEF RemovedPlaced, Enter, Sorting, vars
<1>5. QED
  BY <1>4, StillRunning DEF RemovedPlaced, vars

LEMMA SwapToDestinationHolds ==
    ASSUME SInv, Running, SwapToDestination
    PROVE  SInv'
<1>1. PICK s : s = before
  OBVIOUS
<1>2. Valid(s) /\ Cycling(s, data, buckets, bucket_positions, cursor, swaps)
  BY <1>1 DEF SwapToDestination, Running, Sorting
<1>3. cursor <= Len(s.data)
  BY <1>2 DEF Cycling, SwapToDestination
<1>4. Cycling(s, data', buckets, bucket_positions', cursor, swaps + 1)
  BY <1>2, <1>3, CycleSwapped DEF SwapToDestination, SwapEntries
<1>5. Sorting(before)'
  BY <1>1, <1>4 DEF SwapToDestination, SwapEntries, Sorting
<1>6. QED
  BY <1>5, StillRunning DEF SwapToDestination, SwapEntries

LEMMA CycleClosedHolds ==
    ASSUME SInv, Running, CycleClosed
    PROVE  SInv'
<1>1. PICK s : s = before
  OBVIOUS
<1>2. Valid(s) /\ Cycling(s, data, buckets, bucket_positions, cursor, swaps)
  BY <1>1 DEF CycleClosed, Running, Sorting
<1>3. cursor <= Len(s.data)
  BY <1>2 DEF Cycling, CycleClosed
<1>4. Cycling(s, data, buckets, bucket_positions, cursor + 1, swaps)
  BY <1>2, <1>3, CycleLeft DEF CycleClosed
<1>5. Sorting(before)'
  BY <1>1, <1>4 DEF CycleClosed, Sorting, vars
<1>6. QED
  BY <1>5, StillRunning DEF CycleClosed, vars

LEMMA CyclesAppliedHolds ==
    ASSUME SInv, Running, CyclesApplied
    PROVE  SInv'
<1>1. PICK s : s = before
  OBVIOUS
<1>2. Valid(s) /\ Cycling(s, data, buckets, bucket_positions, cursor, swaps)
  BY <1>1 DEF CyclesApplied, Running, Sorting
<1>3. cursor > Len(s.data)
  BY <1>2 DEF Cycling, CyclesApplied
<1>4. Rebinding(s, data, buckets, bucket_positions, 1, 1)
  BY <1>2, <1>3, RebindBegun
<1>5. Sorting(before)'
  BY <1>1, <1>4 DEF CyclesApplied, Enter, Sorting, vars
<1>6. QED
  BY <1>5, StillRunning DEF CyclesApplied, vars

LEMMA RebindBucketHolds ==
    ASSUME SInv, Running, RebindBucket
    PROVE  SInv'
<1>1. PICK s : s = before
  OBVIOUS
<1>2. Valid(s) /\ Rebinding(s, data, buckets, bucket_positions, cursor, destination)
  BY <1>1 DEF RebindBucket, Running, Sorting
<1>3. Rebinding(s, data, buckets', bucket_positions', cursor + 1,
                destination + Len(buckets[cursor]))
  BY <1>2, BucketRebound DEF RebindBucket
<1>4. Sorting(before)'
  BY <1>1, <1>3 DEF RebindBucket, Sorting
<1>5. QED
  BY <1>4, StillRunning DEF RebindBucket

\* The index a sort leaves is one the step SarkarSort may leave.
LEMMA FinishSorts ==
    ASSUME SInv, Running, Finish
    PROVE  \E order \in [1 .. Len(before.data) -> 1 .. Len(before.data)] :
              IsSortOrder(before, order) /\ Become(Sorted(before, order))
<1>1. PICK s : s = before
  OBVIOUS
<1>2. /\ Valid(s) /\ live_len = s.live_len
      /\ Rebinding(s, data, buckets, bucket_positions, cursor, destination)
  BY <1>1 DEF Finish, Running, Sorting
<1>3. SortedInto(s, Record(data, ShrinkTrailing(buckets), Remarked, s.live_len))
  BY <1>2, SortFinished DEF Finish, Remarked
<1>4. Become(Record(data, ShrinkTrailing(buckets), Remarked, s.live_len))
  BY <1>2 DEF Finish, Become, Record
<1>5. QED
  BY <1>1, <1>3, <1>4 DEF SortedInto

LEMMA FinishHolds ==
    ASSUME SInv, Running, Finish
    PROVE  SInv'
<1>1. PICK order : IsSortOrder(before, order) /\ Become(Sorted(before, order))
  BY FinishSorts
<1>2. Valid(Sorted(before, order))
  BY <1>1, SortedValid DEF Running
<1>3. Valid(self)'
  BY <1>1, <1>2, BecomeValid
<1>4. Idle'
  BY DEF Finish, Idle
<1>5. NoId \in 0 .. Capacity
  BY ClientAssumption DEF NoId
<1>6. IInv'
  BY <1>3, <1>5, Preserved DEF Finish
<1>7. QED
  BY <1>4, <1>6 DEF SInv, IInv, Idle

LEMMA SortStepHolds ==
    ASSUME SInv, Running, SortStep
    PROVE  SInv'
BY SortBucketHolds, BucketsSortedHolds, PlaceLiveHolds, LivePlacedHolds, PlaceRemovedHolds,
   RemovedPlacedHolds, SwapToDestinationHolds, CycleClosedHolds, CyclesAppliedHolds,
   RebindBucketHolds, FinishHolds DEF SortStep

LEMMA SortNextHolds == SInv /\ [SortNext]_all_vars => SInv'
<1> SUFFICES ASSUME SInv, [SortNext]_all_vars
             PROVE  SInv'
  OBVIOUS
<1>1. CASE phase = "idle" /\ StreamCall /\ UNCHANGED sort_vars
  <2>1. Idle /\ Valid(self)
    BY <1>1, PhaseKnown DEF SInv
  <2>2. IInv'
    BY <1>1, <2>1, NextHolds DEF SInv, IInv, Next
  <2>3. Idle'
    BY <1>1, <2>1 DEF Idle, sort_vars
  <2>4. QED
    BY <2>2, <2>3 DEF SInv, IInv, Idle
<1>2. CASE BeginSort
  <2>1. Idle /\ Valid(self)
    BY <1>2, PhaseKnown DEF SInv, BeginSort
  <2>2. PICK s : s = self
    OBVIOUS
  <2>3. s.data = data /\ s.buckets = buckets /\ s.bucket_positions = bucket_positions
        /\ s.live_len = live_len /\ Valid(s)
    BY <2>1, <2>2, SelfFields
  <2>4. before' = s /\ UNCHANGED vars /\ phase' = "sort_buckets" /\ cursor' = 1
        /\ destination' = 1 /\ swaps' = 0
    BY <1>2, <2>1, <2>2 DEF BeginSort, Enter, Idle
  <2>5. Rearranged(s.data, s.buckets, s.buckets, 1) /\ Len(s.buckets) \in Nat
    <3>1. Coherent(s.data, s.buckets, s.bucket_positions) /\ Len(s.buckets) \in Nat
      BY <2>3, BeganFacts
    <3>2. QED
      BY <3>1, Unsorted
  <2>6. Sorting(before)'
    <3>1. 1 \in 1 .. Len(s.buckets) + 1
      BY <2>5
    <3>2. QED
      BY <2>3, <2>4, <2>5, <3>1 DEF Sorting, vars
  <2>7. Running'
    BY <2>3, <2>4, <2>6 DEF Running, vars
  <2>8. QED
    BY <2>4, <2>7 DEF SInv, vars
<1>3. CASE SortStep
  <2>1. phase # "idle"
    BY <1>3 DEF SortStep, SortBucket, BucketsSorted, PlaceLive, LivePlaced, PlaceRemoved,
       RemovedPlaced, SwapToDestination, CycleClosed, CyclesApplied, RebindBucket, Finish
  <2>2. Running
    BY <2>1 DEF SInv, Idle
  <2>3. QED
    BY <1>3, <2>2, SortStepHolds
<1>4. CASE UNCHANGED all_vars
  BY <1>4 DEF all_vars, vars, sort_vars, SInv, Running, Sorting, Idle, self
<1>5. QED
  BY <1>1, <1>2, <1>3, <1>4 DEF SortNext

LEMMA SortInitHolds == SortInit => SInv
BY InitHolds DEF SortInit, IInv, SInv, Idle

\* Whatever the index a sort begins with, each of its loops is where SInv says.
THEOREM SortPhases == SortSpec => []SInv
BY SortInitHolds, SortNextHolds, PTL DEF SortSpec

-------------------------------------------------------------------------------
(* What the phases mean for the properties.                                *)

LEMMA FromIsOrder ==
    ASSUME NEW s, s = before, NEW N, N = Len(s.data), DOMAIN data = 1 .. N
    PROVE  From = OrderOf(s, buckets)
BY DEF From, OrderOf, Placed, Sources, Rank

LEMMA Attached ==
    ASSUME SInv
    PROVE  DestinationsAttached
<1> SUFFICES ASSUME phase = "cycles"
             PROVE  /\ {bucket_positions[q] : q \in DOMAIN data} = DOMAIN data
                    /\ \A q \in DOMAIN data : data[q] = before.data[From[bucket_positions[q]]]
                    /\ \A q \in 1 .. cursor - 1 : bucket_positions[q] = q
  BY DEF DestinationsAttached
<1>1. PICK s, N : s = before /\ N = Len(s.data)
  OBVIOUS
<1>2. Cycling(s, data, buckets, bucket_positions, cursor, swaps)
  BY <1>1 DEF SInv, Idle, Running, Sorting
<1>3. /\ Len(data) = N /\ DOMAIN data = 1 .. N
      /\ bucket_positions \in Seq(1 .. N) /\ Len(bucket_positions) = N
      /\ \A x \in 1 .. N : \E q \in 1 .. N : bucket_positions[q] = x
      /\ \A q \in 1 .. N : data[q] = s.data[OrderOf(s, buckets)[bucket_positions[q]]]
      /\ \A q \in 1 .. cursor - 1 : bucket_positions[q] = q
  BY <1>1, <1>2 DEF Cycling
<1>4. {bucket_positions[q] : q \in 1 .. N} = 1 .. N
  <2>1. \A q \in 1 .. N : bucket_positions[q] \in 1 .. N
    <3>1. PICK p, S : p = bucket_positions /\ S = 1 .. N
      OBVIOUS
    <3>2. p \in Seq(S) /\ Len(p) = N
      BY <1>3, <3>1
    <3>3. \A q \in 1 .. Len(p) : p[q] \in S
      BY <3>2
    <3>4. QED
      BY <3>1, <3>2, <3>3
  <2>2. QED
    BY <1>3, <2>1
<1>5. From = OrderOf(s, buckets)
  BY <1>1, <1>3, FromIsOrder
<1>6. QED
  BY <1>1, <1>3, <1>4, <1>5

\* "Swapping map entries keeps the current element's destination attached to
\* it" (sort_in_place), all through the cycles.
THEOREM EntriesAttached == SortSpec => []DestinationsAttached
BY SortPhases, Attached, PTL

\* The debug_asserts of sort_in_place never fire.
THEOREM SortAsserts == SortSpec => []AssertsHold
<1>1. ASSUME SInv PROVE AssertsHold
  <2>1. ASSUME phase = "place_removed", cursor = 1
        PROVE  destination - 1 = live_len
    <3>1. PICK s : s = before
      OBVIOUS
    <3>2. Valid(s) /\ live_len = s.live_len
          /\ PlacingRemoved(s, buckets, bucket_positions, 1, destination)
      BY <1>1, <2>1, <3>1 DEF SInv, Idle, Running, Sorting
    <3>3. /\ Live(s) \in Nat /\ Live(s) = s.live_len
          /\ RemovedIds(s) \in SUBSET (1 .. Len(s.data)) /\ Len(s.data) \in Nat
      BY <3>2, BeganFacts
    <3>4. Earlier(RemovedIds(s), 1) = 0
      <4>1. \A r \in RemovedIds(s) : ~ (r < 1)
        BY <3>3
      <4>2. {r \in RemovedIds(s) : r < 1} = {}
        BY <4>1
      <4>3. QED
        BY <4>2, FS_EmptySet DEF Earlier
    <3>5. destination = Live(s) + 1 + 0
      BY <3>2, <3>4 DEF PlacingRemoved
    <3>6. QED
      BY <3>2, <3>3, <3>5
  <2>2. ASSUME phase = "rebind"
        PROVE  /\ cursor <= Len(buckets) =>
                     \A k \in DOMAIN buckets[cursor] :
                         BitWidth(data[destination - 1 + k]) + 1 = cursor
               /\ cursor > Len(buckets) => destination - 1 = live_len
    <3>1. PICK s : s = before
      OBVIOUS
    <3>2. Valid(s) /\ live_len = s.live_len
          /\ Rebinding(s, data, buckets, bucket_positions, cursor, destination)
      BY <1>1, <2>2, <3>1 DEF SInv, Idle, Running, Sorting
    <3>3. ASSUME cursor <= Len(buckets), NEW k \in DOMAIN buckets[cursor]
          PROVE  BitWidth(data[destination - 1 + k]) + 1 = cursor
      BY <3>2, <3>3, ReboundWidth
    <3>4. ASSUME cursor > Len(buckets)
          PROVE  destination - 1 = live_len
      <4>1. destination = s.live_len + 1
        BY <3>2, <3>4, ReboundAll
      <4>2. s.live_len \in Nat
        BY <3>2, BeganFacts
      <4>3. QED
        BY <3>2, <4>1, <4>2
    <3>5. QED
      BY <3>3, <3>4
  <2>3. QED
    BY <2>1, <2>2 DEF AssertsHold
<1>2. QED
  BY <1>1, SortPhases, PTL

\* "Every element settles in-place" (sort_in_place): what the cycle loop has
\* for a counter.
THEOREM SwapsSettle == SortSpec => EverySwapSettles
<1>1. ASSUME SInv, [SortNext]_all_vars
      PROVE  [swaps' > swaps => /\ Settled \subseteq Settled' /\ Settled # Settled'
                                /\ swaps' < Len(data)]_all_vars
  <2>1. CASE UNCHANGED all_vars
    BY <2>1
  <2>2. CASE SwapToDestination
    <3>1. PICK s, N : s = before /\ N = Len(s.data)
      OBVIOUS
    <3>2. Valid(s) /\ Cycling(s, data, buckets, bucket_positions, cursor, swaps)
      BY <1>1, <2>2, <3>1 DEF SwapToDestination, SInv, Idle, Running, Sorting
    <3>3. /\ Len(data) = N /\ DOMAIN data = 1 .. N
          /\ cursor <= N /\ bucket_positions[cursor] # cursor
      BY <3>1, <3>2, <2>2 DEF Cycling, SwapToDestination
    <3>4. /\ data' = Swapped(data, cursor, bucket_positions[cursor])
          /\ bucket_positions' = Swapped(bucket_positions, cursor, bucket_positions[cursor])
          /\ swaps' = swaps + 1 /\ before' = before
      BY <2>2 DEF SwapToDestination, SwapEntries
    <3>5. /\ SettledIn(bucket_positions, N) \subseteq SettledIn(bucket_positions', N)
          /\ bucket_positions[cursor] \in SettledIn(bucket_positions', N)
          /\ bucket_positions[cursor] \notin SettledIn(bucket_positions, N)
          /\ swaps + 1 < N
      BY <3>1, <3>2, <3>3, <3>4, CycleSwapped
    <3>6. Cycling(s, data', buckets, bucket_positions', cursor, swaps + 1)
      BY <3>1, <3>2, <3>3, <3>4, CycleSwapped
    <3>7. DOMAIN data' = 1 .. N
      BY <3>1, <3>6 DEF Cycling
    <3>8. Settled = SettledIn(bucket_positions, N)
      BY <3>3 DEF Settled, SettledIn
    <3>9. Settled' = SettledIn(bucket_positions', N)
      BY <3>7 DEF Settled, SettledIn
    <3>10. QED
      BY <3>3, <3>4, <3>5, <3>8, <3>9
  <2>3. ASSUME ~ SwapToDestination, ~ UNCHANGED all_vars
        PROVE  swaps' = swaps \/ swaps' = 0
    BY <1>1, <2>3 DEF SortNext, SortStep, sort_vars, BeginSort, SortBucket, BucketsSorted,
       PlaceLive, LivePlaced, PlaceRemoved, RemovedPlaced, CycleClosed, CyclesApplied,
       RebindBucket, Finish
  <2>4. CASE ~ SwapToDestination /\ ~ UNCHANGED all_vars
    <3>1. ~ (swaps' > swaps)
      BY <1>1, <2>3, <2>4 DEF SInv
    <3>2. QED
      BY <3>1
  <2>5. QED
    BY <2>1, <2>2, <2>4
<1>2. QED
  BY <1>1, SortPhases, PTL DEF SortSpec, EverySwapSettles

-------------------------------------------------------------------------------
(* The step SarkarSort.  Atomic's helpers are those of Bwspi, and between   *)
(* sorts its state is the index.                                           *)

LEMMA SameCardinality == \A S : Atomic!Cardinality(S) = Cardinality(S)
BY DEF Atomic!Cardinality, Cardinality

LEMMA SameExtremes == \A S : Atomic!Max(S) = Max(S) /\ Atomic!Min(S) = Min(S)
BY DEF Atomic!Max, Max, Atomic!Min, Min

LEMMA SameRange == \A f : Atomic!Range(f) = Range(f)
BY DEF Atomic!Range, Range

LEMMA SameBijections == \A S, T : Atomic!Bijection(S, T) = Bijection(S, T)
BY DEF Atomic!Bijection, Bijection, Atomic!Injection, Injection, Atomic!Surjection, Surjection,
 Atomic!IsInjective, IsInjective

LEMMA SamePowers == \A k : Atomic!PowerOfTwo(k) = PowerOfTwo(k)
BY DEF Atomic!PowerOfTwo, PowerOfTwo

LEMMA SameZeros == \A a : Atomic!LeadingZeros(a) = LeadingZeros(a)
BY SameCardinality, SamePowers DEF Atomic!LeadingZeros, LeadingZeros

LEMMA SameWidth == \A a : Atomic!BitWidth(a) = BitWidth(a)
BY SameZeros DEF Atomic!BitWidth, BitWidth

LEMMA SameEnsure == \A bs, w : Atomic!EnsureBucket(bs, w) = EnsureBucket(bs, w)
BY DEF Atomic!EnsureBucket, EnsureBucket

LEMMA SameLink == \A s, id, w : Atomic!LinkExisting(s, id, w) = LinkExisting(s, id, w)
BY SameEnsure DEF Atomic!LinkExisting, LinkExisting

LEMMA SameInserted == \A s, v : Atomic!Inserted(s, v) = Inserted(s, v)
BY SameLink, SameWidth DEF Atomic!Inserted, Inserted

LEMMA SameInsertedAll == \A s, v : Atomic!InsertedAll(s, v) = InsertedAll(s, v)
BY SameInserted DEF Atomic!InsertedAll, InsertedAll

LEMMA SameLastUsed == \A bs : Atomic!LastUsed(bs) = LastUsed(bs)
BY SameExtremes DEF Atomic!LastUsed, LastUsed

LEMMA SameShrink == \A bs : Atomic!ShrinkTrailing(bs) = ShrinkTrailing(bs)
BY SameLastUsed DEF Atomic!ShrinkTrailing, ShrinkTrailing

LEMMA SameSwapRemove == \A seq, i : Atomic!SwapRemove(seq, i) = SwapRemove(seq, i)
BY DEF Atomic!SwapRemove, SwapRemove

LEMMA SameUnlink == \A s, id, w : Atomic!UnlinkExisting(s, id, w) = UnlinkExisting(s, id, w)
BY SameSwapRemove DEF Atomic!UnlinkExisting, UnlinkExisting

LEMMA SameRemoved == \A s, id : Atomic!RemovedAt(s, id) = RemovedAt(s, id)
BY SameWidth, SameShrink, SameUnlink DEF Atomic!RemovedAt, RemovedAt

LEMMA SameUpdated == \A s, id, new : Atomic!UpdatedAt(s, id, new) = UpdatedAt(s, id, new)
BY SameWidth, SameLink, SameShrink, SameUnlink DEF Atomic!UpdatedAt, UpdatedAt

LEMMA SameStart == \A bs, w : Atomic!Start(bs, w) = Start(bs, w)
BY SameCardinality DEF Atomic!Start, Start

LEMMA SameRegion == \A bs, w : Atomic!Region(bs, w) = Region(bs, w)
BY SameStart DEF Atomic!Region, Region

LEMMA SameWidthAt == \A bs, p : Atomic!WidthAt(bs, p) = WidthAt(bs, p)
BY SameRegion DEF Atomic!WidthAt, WidthAt

LEMMA SameRemovedIds == \A s : Atomic!RemovedIds(s) = RemovedIds(s)
BY DEF Atomic!RemovedIds, RemovedIds

LEMMA SameFills == \A s, o, w : Atomic!Fills(s, o, w) = Fills(s, o, w)
BY SameRegion, SameRange DEF Atomic!Fills, Fills

LEMMA SameKeepsOrder == \A o, w : Atomic!KeepsOrder(o, w) = KeepsOrder(o, w)
BY DEF Atomic!KeepsOrder, KeepsOrder

LEMMA SameSortOrder == \A s, o : Atomic!IsSortOrder(s, o) = IsSortOrder(s, o)
BY SameStart, SameRemovedIds, SameFills, SameKeepsOrder DEF Atomic!IsSortOrder, IsSortOrder

LEMMA SameRebound == \A bs, p : Atomic!ReboundPosition(bs, p) = ReboundPosition(bs, p)
BY SameStart, SameWidthAt DEF Atomic!ReboundPosition, ReboundPosition

LEMMA SameSorted == \A s, o : Atomic!Sorted(s, o) = Sorted(s, o)
BY SameShrink, SameStart, SameRebound DEF Atomic!Sorted, Sorted

LEMMA SameGetBucket == \A bs, w : Atomic!GetBucket(bs, w) = GetBucket(bs, w)
BY DEF Atomic!GetBucket, GetBucket

LEMMA SameReply == \A a, b, c, d : Atomic!Reply(a, b, c, d) = Reply(a, b, c, d)
BY DEF Atomic!Reply, Reply


\* Atomic's state is the index.
Shown == /\ Seen.data = data /\ Seen.buckets = buckets
         /\ Seen.bucket_positions = bucket_positions /\ Seen.live_len = live_len

LEMMA IdleShown ==
    ASSUME phase = "idle"
    PROVE  Shown
BY SelfFields DEF Shown, Seen

LEMMA SameSelf ==
    ASSUME Shown
    PROVE  Atomic!self = self
BY DEF Shown, Atomic!self, self

LEMMA SameBecome ==
    ASSUME Shown', NEW s, Become(s)
    PROVE  Atomic!Become(s)
BY DEF Shown, Atomic!Become, Become

LEMMA SameIsLive ==
    ASSUME Shown, NEW id
    PROVE  Atomic!IsLive(id) <=> IsLive(id)
BY DEF Shown, Atomic!IsLive, IsLive

LEMMA SameFind ==
    ASSUME Shown, NEW target
    PROVE  Atomic!Find(target) = Find(target)
BY SameGetBucket, SameWidth, SameExtremes DEF Shown, Atomic!Find, Find, Atomic!NoId, NoId

LEMMA StoreShown ==
    ASSUME Shown, Shown', UNCHANGED store
    PROVE  UNCHANGED Atomic!store
BY DEF Shown, Atomic!store, store

LEMMA SameRemoveEntry ==
    ASSUME Shown, Shown', NEW id, NEW op, NEW args, RemoveEntry(id, op, args)
    PROVE  Atomic!RemoveEntry(id, op, args)
BY SameIsLive, SameSelf, SameRemoved, SameBecome, SameReply, StoreShown
   DEF Atomic!RemoveEntry, RemoveEntry, Atomic!NoId, NoId

LEMMA SameUpdateEntry ==
    ASSUME Shown, Shown', NEW id, NEW new, NEW op, NEW args, UpdateEntry(id, new, op, args)
    PROVE  Atomic!UpdateEntry(id, new, op, args)
BY SameIsLive, SameSelf, SameUpdated, SameBecome, SameReply, StoreShown
   DEF Atomic!UpdateEntry, UpdateEntry, Atomic!NoId, NoId

LEMMA SameStreamCall ==
    ASSUME Shown, Shown', StreamCall
    PROVE  Atomic!StreamCall
<1>1. ASSUME NEW value \in Values, Insert(value)
      PROVE  Atomic!Insert(value)
  BY <1>1, SameSelf, SameInserted, SameBecome, SameReply
     DEF Atomic!Insert, Insert, Shown
<1>2. ASSUME NEW value \in Values, Remove(value)
      PROVE  Atomic!Remove(value)
  BY <1>2, SameFind, SameRemoveEntry DEF Atomic!Remove, Remove
<1>3. ASSUME NEW values \in Bulks, InsertBulk(values)
      PROVE  Atomic!InsertBulk(values)
  BY <1>3, SameSelf, SameInsertedAll, SameBecome, SameReply
     DEF Atomic!InsertBulk, InsertBulk, Shown, Atomic!NoId, NoId
<1>4. ASSUME NEW id \in Ids, RemoveAt(id)
      PROVE  Atomic!RemoveAt(id)
  BY <1>4, SameRemoveEntry DEF Atomic!RemoveAt, RemoveAt
<1>5. ASSUME NEW id \in Ids, NEW new \in Values, UpdateAt(id, new)
      PROVE  Atomic!UpdateAt(id, new)
  BY <1>5, SameUpdateEntry DEF Atomic!UpdateAt, UpdateAt
<1>6. ASSUME NEW old \in Values, NEW new \in Values, Update(old, new)
      PROVE  Atomic!Update(old, new)
  BY <1>6, SameFind, SameUpdateEntry DEF Atomic!Update, Update
<1>7. Atomic!Ids = Ids
  BY DEF Atomic!Ids, Ids
<1>8. QED
  BY <1>1, <1>2, <1>3, <1>4, <1>5, <1>6, <1>7 DEF StreamCall, Atomic!StreamCall

\* What Atomic's SarkarSort is given is what the sort has been given,
LEMMA SortOfBefore ==
    ASSUME SInv, Running, Finish
    PROVE  Atomic!SarkarSort
<1>1. PICK s : s = before
  OBVIOUS
<1>2. phase # "idle" /\ Valid(s)
  BY <1>1 DEF Finish, Running
<1>3. Seen = s
  BY <1>1, <1>2 DEF Seen
<1>4. Atomic!self = s
  BY <1>2, <1>3 DEF Atomic!self, Valid, Record
<1>5. PICK N : N = Len(s.data) /\ DOMAIN s.data = 1 .. N /\ N \in Nat
  BY <1>2, BeganFacts
<1>6. PICK order \in [1 .. N -> 1 .. N] : IsSortOrder(s, order) /\ Become(Sorted(s, order))
  BY <1>1, <1>5, FinishSorts
<1>7. Orders(order, N, Live(s), RemovedIds(s))
  BY <1>2, <1>5, <1>6, OrderFacts DEF Live
<1>8. order \in Bijection(1 .. N, 1 .. N)
  <2>1. IsInjective(order)
    BY <1>7 DEF Orders, IsInjective
  <2>2. \A x \in 1 .. N : \E q \in 1 .. N : order[q] = x
    BY <1>7 DEF Orders
  <2>3. QED
    BY <1>6, <2>1, <2>2 DEF Bijection, Injection, Surjection
<1>9. Shown'
  BY IdleShown DEF Finish, Shown, Seen, self
<1>10. Atomic!Become(Atomic!Sorted(s, order))
  BY <1>6, <1>9, SameBecome, SameSorted
<1>11. reply' = Atomic!Reply("sarkar_sort", <<>>, Atomic!NoId, TRUE)
  BY SameReply DEF Finish, Atomic!NoId, NoId
<1>12. order \in Atomic!Bijection(DOMAIN Seen.data, DOMAIN Seen.data)
  BY <1>3, <1>5, <1>8, SameBijections
<1>13. Atomic!IsSortOrder(s, order)
  BY <1>6, SameSortOrder
<1>14. QED
  BY <1>4, <1>10, <1>11, <1>12, <1>13 DEF Atomic!SarkarSort

\* The loops together are the one step: whatever order Phase A gives to equal
\* values, the call ends as SarkarSort describes, and until then no part of
\* what it does is seen.
THEOREM SortIsOneStep == SortSpec => ImplementsBwspi
<1>1. ASSUME SortInit
      PROVE  Atomic!Init
  <2>1. Shown
    BY <1>1, IdleShown DEF SortInit, Idle
  <2>2. QED
    BY <1>1, <2>1 DEF SortInit, Init, Atomic!Init, Shown, Reply, Atomic!Reply, NoId, Atomic!NoId
<1>2. ASSUME SInv, [SortNext]_all_vars
      PROVE  [Atomic!Next]_Atomic!vars
  <2>1. CASE phase = "idle" /\ StreamCall /\ UNCHANGED sort_vars
    <3>1. Shown
      BY <2>1, IdleShown
    <3>2. Shown'
      BY <2>1, SelfFields DEF sort_vars, Shown, Seen, self
    <3>3. QED
      BY <2>1, <3>1, <3>2, SameStreamCall DEF Atomic!Next
  <2>2. CASE BeginSort
    <3>1. Seen = self /\ before' = self /\ phase' # "idle" /\ UNCHANGED reply
      BY <2>2 DEF BeginSort, Enter, Seen, vars
    <3>2. Seen' = Seen
      BY <3>1 DEF Seen
    <3>3. QED
      BY <3>1, <3>2 DEF Atomic!vars
  <2>3. CASE SortStep /\ ~ Finish
    <3>1. phase # "idle" /\ phase' # "idle" /\ UNCHANGED <<before, reply>>
      BY <2>3 DEF SortStep, SortBucket, BucketsSorted, PlaceLive, LivePlaced, PlaceRemoved,
         RemovedPlaced, SwapToDestination, CycleClosed, CyclesApplied, RebindBucket, Enter, vars
    <3>2. Seen' = Seen
      BY <3>1 DEF Seen
    <3>3. QED
      BY <3>1, <3>2 DEF Atomic!vars
  <2>4. CASE Finish
    <3>1. Running
      BY <1>2, <2>4 DEF SInv, Idle, Finish
    <3>2. QED
      BY <1>2, <2>4, <3>1, SortOfBefore DEF Atomic!Next
  <2>5. CASE UNCHANGED all_vars
    BY <2>5 DEF all_vars, vars, sort_vars, Seen, self, Atomic!vars
  <2>6. QED
    BY <1>2, <2>1, <2>2, <2>3, <2>4, <2>5 DEF SortNext
<1>3. QED
  BY <1>1, <1>2, SortPhases, PTL DEF SortSpec, ImplementsBwspi, Atomic!Spec
===============================================================================
