---------------------------- MODULE WorkloadsProofs ----------------------------
(***************************************************************************)
(* For every word size, all data and any numbers of runs, lookups and      *)
(* updates: each run of a workload finds the index as the data makes it,   *)
(* none of its calls is refused, its snapshot and its sort are those of    *)
(* all the data; and the baselines do the same work.                       *)
(***************************************************************************)
EXTENDS Workloads, SortInPlaceProofs

-------------------------------------------------------------------------------
(* What sorting by rank gives.                                             *)

LEMMA MinIs ==
    ASSUME NEW S \in SUBSET Nat, NEW m \in S, \A x \in S : m <= x
    PROVE  Min(S) = m
<1>1. \A n \in S : (\A x \in S : n <= x) => n = m
  <2> SUFFICES ASSUME NEW n \in S, \A x \in S : n <= x
               PROVE  n = m
    OBVIOUS
  <2>1. n \in Nat /\ m \in Nat /\ n <= m /\ m <= n
    OBVIOUS
  <2> QED BY <2>1
<1> QED BY <1>1 DEF Min

\* A sequence of n numbers.
Numbers(s, n) == DOMAIN s = 1 .. n /\ \A j \in 1 .. n : s[j] \in Nat

\* The least element of a sequence that k of its elements do not exceed.
IsKth(s, k, m) ==
    /\ m \in Range(s) /\ k <= Cardinality(AtMost(s, m))
    /\ \A v \in Range(s) : k <= Cardinality(AtMost(s, v)) => m <= v

LEMMA RangeOfNumbers ==
    ASSUME NEW n \in Nat, NEW s, Numbers(s, n)
    PROVE  /\ Range(s) \in SUBSET Nat /\ \A v \in Range(s) : \E j \in 1 .. n : s[j] = v
           /\ \A j \in 1 .. n : s[j] \in Range(s)
BY DEF Numbers, Range

\* More elements are at most a greater one.
LEMMA CountsGrow ==
    ASSUME NEW n \in Nat, NEW s, Numbers(s, n)
    PROVE  /\ \A v \in Range(s) : Cardinality(AtMost(s, v)) \in 0 .. n
           /\ \A u, v \in Range(s) :
                 u < v => Cardinality(AtMost(s, u)) < Cardinality(AtMost(s, v))
<1>1. IsFiniteSet(1 .. n) /\ Cardinality(1 .. n) = n
  BY UpToCardinality
<1>2. ASSUME NEW v
      PROVE  /\ AtMost(s, v) \in SUBSET (1 .. n) /\ IsFiniteSet(AtMost(s, v))
             /\ Cardinality(AtMost(s, v)) \in 0 .. n
  <2>1. AtMost(s, v) \in SUBSET (1 .. n)
    BY DEF AtMost, Numbers
  <2>2. IsFiniteSet(AtMost(s, v)) /\ Cardinality(AtMost(s, v)) <= n
    BY <1>1, <2>1, FS_Subset
  <2>3. Cardinality(AtMost(s, v)) \in Nat
    BY <2>2, FS_CardinalityType
  <2> QED BY <2>1, <2>2, <2>3
<1>3. ASSUME NEW u \in Range(s), NEW v \in Range(s), u < v
      PROVE  Cardinality(AtMost(s, u)) < Cardinality(AtMost(s, v))
  <2>1. u \in Nat /\ v \in Nat
    BY RangeOfNumbers
  <2>2. AtMost(s, u) \in SUBSET AtMost(s, v)
    <3>1. \A j \in 1 .. n : s[j] <= u => s[j] <= v
      BY <1>3, <2>1 DEF Numbers
    <3> QED BY <3>1 DEF AtMost, Numbers
  <2>3. PICK j \in 1 .. n : s[j] = v
    BY RangeOfNumbers
  <2>4. j \in AtMost(s, v) /\ j \notin AtMost(s, u)
    BY <1>3, <2>1, <2>3 DEF AtMost, Numbers
  <2>5. /\ Cardinality(AtMost(s, u)) <= Cardinality(AtMost(s, v))
        /\ Cardinality(AtMost(s, v)) = Cardinality(AtMost(s, u)) => AtMost(s, v) = AtMost(s, u)
    BY <1>2, <2>2, FS_Subset
  <2>6. Cardinality(AtMost(s, u)) # Cardinality(AtMost(s, v))
    BY <2>4, <2>5
  <2>7. Cardinality(AtMost(s, u)) \in Nat /\ Cardinality(AtMost(s, v)) \in Nat
    BY <1>2
  <2> QED BY <2>5, <2>6, <2>7
<1> QED BY <1>2, <1>3

\* The k-th element of the sorted sequence is a k-th element.
LEMMA AscendingKth ==
    ASSUME NEW n \in Nat, NEW s, Numbers(s, n)
    PROVE  /\ DOMAIN Ascending(s) = 1 .. n
           /\ \A k \in 1 .. n : IsKth(s, k, Ascending(s)[k])
<1>1. DOMAIN s = 1 .. n
  BY DEF Numbers
<1>2. DOMAIN Ascending(s) = 1 .. n
  BY <1>1 DEF Ascending
<1>3. ASSUME NEW k \in 1 .. n
      PROVE  IsKth(s, k, Ascending(s)[k])
  <2>1. PICK S : S = {v \in Range(s) : k <= Cardinality(AtMost(s, v))}
    OBVIOUS
  <2>2. Ascending(s)[k] = Min(S)
    BY <1>1, <2>1 DEF Ascending
  <2>3. S # {}
    <3>1. PICK counts : counts = {Cardinality(AtMost(s, v)) : v \in Range(s)}
      OBVIOUS
    <3>2. counts \in SUBSET (0 .. n) /\ counts # {}
      <4>1. s[k] \in Range(s)
        BY RangeOfNumbers
      <4> QED BY <3>1, <4>1, CountsGrow
    <3>3. Max(counts) \in counts /\ \A c \in counts : c <= Max(counts)
      BY <3>2, MaxOfBounded
    <3>4. PICK v \in Range(s) : \A u \in Range(s) :
             Cardinality(AtMost(s, u)) <= Cardinality(AtMost(s, v))
      BY <3>1, <3>3
    <3>5. \A j \in 1 .. n : s[j] <= v
      <4> SUFFICES ASSUME NEW j \in 1 .. n, ~ (s[j] <= v)
                   PROVE  FALSE
        OBVIOUS
      <4>1. s[j] \in Range(s) /\ s[j] \in Nat /\ v \in Nat
        BY RangeOfNumbers
      <4>2. v < s[j]
        BY <4>1
      <4>3. Cardinality(AtMost(s, v)) < Cardinality(AtMost(s, s[j]))
        BY <4>1, <4>2, CountsGrow
      <4>4. Cardinality(AtMost(s, s[j])) <= Cardinality(AtMost(s, v))
        BY <3>4, <4>1
      <4>5. Cardinality(AtMost(s, v)) \in Nat /\ Cardinality(AtMost(s, s[j])) \in Nat
        BY <4>1, CountsGrow
      <4> QED BY <4>3, <4>4, <4>5
    <3>6. AtMost(s, v) = 1 .. n
      BY <1>1, <3>5 DEF AtMost
    <3>7. k <= Cardinality(AtMost(s, v))
      BY <3>6, UpToCardinality
    <3> QED BY <2>1, <3>7
  <2>4. S \in SUBSET Nat
    BY <2>1, RangeOfNumbers
  <2>5. PICK m \in S : \A x \in S : m <= x
    BY <2>3, <2>4, LeastNat
  <2>6. Ascending(s)[k] = m
    BY <2>2, <2>4, <2>5, MinIs
  <2> QED BY <2>1, <2>5, <2>6 DEF IsKth
<1> QED BY <1>2, <1>3

LEMMA KthOnly ==
    ASSUME NEW n \in Nat, NEW s, Numbers(s, n), NEW k, NEW l, IsKth(s, k, l),
           NEW m, IsKth(s, k, m)
    PROVE  l = m
<1>1. l <= m /\ m <= l
  BY DEF IsKth
<1>2. l \in Nat /\ m \in Nat
  BY RangeOfNumbers DEF IsKth
<1> QED BY <1>1, <1>2

\* Sorting keeps the values, in ascending order.
LEMMA AscendingSorts ==
    ASSUME NEW n \in Nat, NEW s, Numbers(s, n)
    PROVE  Range(Ascending(s)) = Range(s) /\ IsSorted(Ascending(s))
<1>1. PICK t : t = Ascending(s)
  OBVIOUS
<1>2. DOMAIN t = 1 .. n /\ \A k \in 1 .. n : IsKth(s, k, t[k])
  BY <1>1, AscendingKth
<1>3. \A k \in 1 .. n : t[k] \in Range(s)
  BY <1>2 DEF IsKth
<1>4. ASSUME NEW v \in Range(s)
      PROVE  \E k \in 1 .. n : t[k] = v
  <2>1. PICK k : k = Cardinality(AtMost(s, v))
    OBVIOUS
  <2>2. k \in 0 .. n
    BY <2>1, CountsGrow
  <2>3. k # 0
    <3>1. PICK j \in 1 .. n : s[j] = v
      BY RangeOfNumbers
    <3>2. j \in AtMost(s, v)
      BY <3>1 DEF AtMost, Numbers
    <3>3. IsFiniteSet(AtMost(s, v))
      <4>1. AtMost(s, v) \in SUBSET (1 .. n)
        BY DEF AtMost, Numbers
      <4> QED BY <4>1, UpToCardinality, FS_Subset
    <3> QED BY <2>1, <3>2, <3>3, FS_EmptySet
  <2>4. IsKth(s, k, v)
    <3>1. k <= Cardinality(AtMost(s, v))
      BY <2>1, <2>2
    <3>2. ASSUME NEW u \in Range(s), k <= Cardinality(AtMost(s, u))
          PROVE  v <= u
      <4>1. u \in Nat /\ v \in Nat
        BY RangeOfNumbers
      <4>2. u < v => Cardinality(AtMost(s, u)) < k
        BY <2>1, CountsGrow
      <4>3. Cardinality(AtMost(s, u)) \in 0 .. n
        BY CountsGrow
      <4> QED BY <2>2, <3>2, <4>1, <4>2, <4>3
    <3> QED BY <3>1, <3>2 DEF IsKth
  <2>5. k \in 1 .. n
    BY <2>2, <2>3
  <2>6. t[k] = v
    BY <1>2, <2>4, <2>5, KthOnly
  <2> QED BY <2>5, <2>6
<1>5. Range(t) = Range(s)
  BY <1>2, <1>3, <1>4 DEF Range
<1>6. ASSUME NEW i \in 1 .. n, NEW j \in 1 .. n, i < j
      PROVE  t[i] <= t[j]
  <2>1. IsKth(s, i, t[i]) /\ IsKth(s, j, t[j])
    BY <1>2
  <2>2. t[j] \in Range(s) /\ j <= Cardinality(AtMost(s, t[j]))
    BY <2>1 DEF IsKth
  <2>3. Cardinality(AtMost(s, t[j])) \in 0 .. n
    BY <2>2, CountsGrow
  <2>4. i <= Cardinality(AtMost(s, t[j]))
    BY <1>6, <2>2, <2>3
  <2> QED BY <2>1, <2>2, <2>4 DEF IsKth
<1>7. IsSorted(t)
  BY <1>2, <1>6 DEF IsSorted
<1> QED BY <1>1, <1>5, <1>7

-------------------------------------------------------------------------------
(* The sorted snapshot of an index without removed entries.                *)

\* The live entries in the buckets of width less than w.
Narrower(d, p, w) == {id \in LiveIn(d, p) : BitWidth(d[id]) + 1 <= w}

\* A region begins where the values of lesser width end.
LEMMA StartCounts ==
    ASSUME NEW d, NEW b, NEW p, Coherent(d, b, p), NEW w \in 0 .. Len(b)
    PROVE  Start(b, w) = Cardinality(Narrower(d, p, w)) /\ IsFiniteSet(Narrower(d, p, w))
<1>1. PICK low, slots : low = Narrower(d, p, w) /\ slots = Slots(b, w)
  OBVIOUS
<1>2. PICK slot : slot = [id \in low |-> <<BitWidth(d[id]) + 1, p[id]>>]
  OBVIOUS
<1>3. \A id \in low : id \in 1 .. Len(d) /\ p[id] # REMOVED_POSITION
                      /\ BitWidth(d[id]) + 1 <= w
  BY <1>1 DEF Narrower, LiveIn
<1>4. Len(b) \in Nat /\ \A v \in 1 .. w : v \in 1 .. Len(b)
  BY DEF Coherent, Shaped
<1>5. ASSUME NEW id \in low
      PROVE  slot[id] \in slots /\ b[slot[id][1]][slot[id][2]] = id
  <2>1. PICK v, k : v = BitWidth(d[id]) + 1 /\ k = p[id]
    OBVIOUS
  <2>2. v \in 1 .. Len(b) /\ k \in 1 .. Len(b[v]) /\ b[v][k] = id /\ v <= w
    BY <1>3, <2>1 DEF Coherent, Linked
  <2>3. v \in 1 .. w
    BY <1>4, <2>2
  <2>4. <<v, k>> \in slots
    BY <1>1, <2>2, <2>3, SlotsMember
  <2>5. slot[id] = <<v, k>>
    BY <1>2, <2>1
  <2> QED BY <2>2, <2>4, <2>5
<1>6. \A i, j \in low : slot[i] = slot[j] => i = j
  BY <1>5
<1>7. ASSUME NEW x \in slots
      PROVE  \E id \in low : slot[id] = x
  <2>1. PICK v \in 1 .. w : \E k \in 1 .. Len(b[v]) : x = <<v, k>>
    BY <1>1, SlotsMember
  <2>2. PICK k \in 1 .. Len(b[v]) : x = <<v, k>>
    BY <2>1
  <2>3. v \in 1 .. Len(b) /\ v <= w
    BY <1>4
  <2>4. PICK id : id = b[v][k]
    OBVIOUS
  <2>5. p[id] = k /\ BitWidth(d[id]) + 1 = v
    BY <2>3, <2>4 DEF Coherent, Routed
  <2>6. id \in LiveIn(d, p)
    BY <2>3, <2>4, SlotIsLive DEF LiveIn
  <2>7. id \in low
    BY <1>1, <2>3, <2>5, <2>6 DEF Narrower
  <2> QED BY <1>2, <2>2, <2>5, <2>7
<1>8. slot \in Bijection(low, slots)
  <2>1. slot \in [low -> slots]
    BY <1>2, <1>5
  <2> QED BY <1>6, <1>7, <2>1, Fun_IsBij
<1>9. IsFiniteSet(low)
  <2>1. low \in SUBSET LiveIn(d, p)
    BY <1>1 DEF Narrower
  <2> QED BY <2>1, LiveInFinite, FS_Subset
<1>10. Cardinality(slots) = Cardinality(low)
  BY <1>8, <1>9, FS_Bijection DEF ExistsBijection
<1>11. Start(b, w) = Cardinality(slots)
  BY <1>1, StartType
<1> QED BY <1>1, <1>9, <1>10, <1>11

\* Those at most a value: the narrower ones, and of its width those in its bucket.
LEMMA CountSplits ==
    ASSUME NEW d, NEW b, NEW p, Coherent(d, b, p), LiveIn(d, p) = 1 .. Len(d),
           NEW w \in 1 .. Len(b), NEW v \in U64, BitWidth(v) + 1 = w
    PROVE  Cardinality(AtMost(d, v))
              = Start(b, w - 1) + Cardinality(AtMost(ValuesOf(d, b[w]), v))
<1>1. PICK low, same, k : /\ low = Narrower(d, p, w - 1)
                          /\ same = {id \in 1 .. Len(d) : BitWidth(d[id]) + 1 = w /\ d[id] <= v}
                          /\ k = AtMost(ValuesOf(d, b[w]), v)
  OBVIOUS
<1>2. /\ Len(b) \in Nat /\ Len(d) \in Nat /\ w \in Nat /\ w - 1 \in 0 .. Len(b)
      /\ DOMAIN d = 1 .. Len(d) /\ \A id \in 1 .. Len(d) : d[id] \in U64
      /\ b[w] \in Seq(1 .. Len(d)) /\ DOMAIN b[w] = 1 .. Len(b[w])
  <2>1. d \in Seq(Values) /\ b \in Seq(Seq(1 .. Len(d)))
    BY DEF Coherent, Shaped
  <2> QED BY <2>1, ClientAssumption
<1>3. \A u \in U64 : BitWidth(u) \in Nat /\ u \in Nat
  BY BitWidthType, BITSAssumption DEF U64
<1>4. low = {id \in 1 .. Len(d) : BitWidth(d[id]) + 1 <= w - 1}
  BY <1>1 DEF Narrower
<1>5. AtMost(d, v) = low \cup same
  <2>1. ASSUME NEW id \in 1 .. Len(d)
        PROVE  d[id] <= v <=> id \in low \cup same
    <3>1. PICK u : u = d[id]
      OBVIOUS
    <3>2. u \in U64 /\ BitWidth(u) \in Nat /\ BitWidth(v) \in Nat /\ u \in Nat /\ v \in Nat
      BY <1>2, <1>3, <3>1
    <3>3. CASE BitWidth(u) < BitWidth(v)
      <4>1. u < v
        BY <3>2, <3>3, WiderIsGreater
      <4>2. BitWidth(u) + 1 <= w - 1
        BY <3>2, <3>3
      <4> QED BY <1>4, <3>1, <3>2, <4>1, <4>2
    <3>4. CASE BitWidth(u) = BitWidth(v)
      <4>1. BitWidth(u) + 1 = w /\ ~ (BitWidth(u) + 1 <= w - 1)
        BY <1>2, <3>2, <3>4
      <4> QED BY <1>1, <1>4, <3>1, <4>1
    <3>5. CASE BitWidth(v) < BitWidth(u)
      <4>1. v < u
        BY <3>2, <3>5, WiderIsGreater
      <4>2. BitWidth(u) + 1 # w /\ ~ (BitWidth(u) + 1 <= w - 1) /\ ~ (u <= v)
        BY <1>2, <3>2, <3>5, <4>1
      <4> QED BY <1>1, <1>4, <3>1, <4>2
    <3> QED BY <3>2, <3>3, <3>4, <3>5
  <2>2. \A id \in low \cup same : id \in 1 .. Len(d)
    BY <1>1, <1>4
  <2> QED BY <1>2, <2>1, <2>2 DEF AtMost
<1>6. low \cap same = {}
  <2> SUFFICES ASSUME NEW id \in low, id \in same
               PROVE  FALSE
    OBVIOUS
  <2>1. BitWidth(d[id]) + 1 <= w - 1 /\ BitWidth(d[id]) + 1 = w
    BY <1>1, <1>4
  <2> QED BY <1>2, <2>1
<1>7. IsFiniteSet(low) /\ Start(b, w - 1) = Cardinality(low)
  BY <1>1, <1>2, StartCounts
<1>8. IsFiniteSet(same)
  <2>1. same \in SUBSET (1 .. Len(d))
    BY <1>1
  <2> QED BY <1>2, <2>1, UpToCardinality, FS_Subset
<1>9. k = {i \in 1 .. Len(b[w]) : d[b[w][i]] <= v}
  BY <1>1, <1>2 DEF AtMost, ValuesOf
<1>10. Cardinality(k) = Cardinality(same)
  <2>1. PICK place : place = [id \in same |-> p[id]]
    OBVIOUS
  <2>2. ASSUME NEW id \in same
        PROVE  place[id] \in k /\ b[w][place[id]] = id
    <3>1. id \in 1 .. Len(d) /\ BitWidth(d[id]) + 1 = w /\ d[id] <= v /\ p[id] # REMOVED_POSITION
      BY <1>1 DEF LiveIn
    <3>2. p[id] \in 1 .. Len(b[w]) /\ b[w][p[id]] = id
      BY <3>1 DEF Coherent, Linked
    <3> QED BY <1>9, <2>1, <3>1, <3>2
  <2>3. ASSUME NEW i \in k
        PROVE  \E id \in same : place[id] = i
    <3>1. i \in 1 .. Len(b[w]) /\ d[b[w][i]] <= v
      BY <1>9
    <3>2. p[b[w][i]] = i /\ BitWidth(d[b[w][i]]) + 1 = w /\ b[w][i] \in 1 .. Len(d)
      BY <3>1, SlotIsLive DEF Coherent, Routed
    <3>3. b[w][i] \in same
      BY <1>1, <3>1, <3>2
    <3> QED BY <2>1, <3>2, <3>3
  <2>4. place \in Bijection(same, k)
    <3>1. place \in [same -> k]
      BY <2>1, <2>2
    <3>2. \A i, j \in same : place[i] = place[j] => i = j
      BY <2>2
    <3> QED BY <2>3, <3>1, <3>2, Fun_IsBij
  <2> QED BY <1>8, <2>4, FS_Bijection DEF ExistsBijection
<1>11. Cardinality(low \cup same) = Cardinality(low) + Cardinality(same)
  <2>1. /\ Cardinality(low \cup same)
             = Cardinality(low) + Cardinality(same) - Cardinality(low \cap same)
        /\ Cardinality(low \cap same) = 0
    BY <1>6, <1>7, <1>8, FS_Union, FS_EmptySet
  <2>2. Cardinality(low) \in Nat /\ Cardinality(same) \in Nat
    BY <1>7, <1>8, FS_CardinalityType
  <2> QED BY <2>1, <2>2
<1> QED BY <1>1, <1>5, <1>7, <1>10, <1>11

\* A bucket's values sorted on their own are in their places among all values.
LEMMA BucketInPlace ==
    ASSUME NEW d, NEW b, NEW p, Coherent(d, b, p), LiveIn(d, p) = 1 .. Len(d),
           NEW w \in 1 .. Len(b), NEW k \in 1 .. Len(b[w])
    PROVE  Ascending(ValuesOf(d, b[w]))[k] = Ascending(d)[Start(b, w - 1) + k]
<1>1. PICK s, n, first, m : /\ s = ValuesOf(d, b[w]) /\ n = Len(b[w])
                            /\ first = Start(b, w - 1) /\ m = Ascending(s)[k]
  OBVIOUS
<1>2. /\ Len(b) \in Nat /\ Len(d) \in Nat /\ w \in Nat /\ w - 1 \in 0 .. Len(b)
      /\ DOMAIN d = 1 .. Len(d) /\ \A id \in 1 .. Len(d) : d[id] \in U64
      /\ b[w] \in Seq(1 .. Len(d)) /\ DOMAIN b[w] = 1 .. n /\ n \in Nat
      /\ \A i \in 1 .. n : b[w][i] \in 1 .. Len(d)
  <2>1. d \in Seq(Values) /\ b \in Seq(Seq(1 .. Len(d)))
    BY DEF Coherent, Shaped
  <2>2. Len(b) \in Nat /\ Len(d) \in Nat /\ w \in Nat /\ w - 1 \in 0 .. Len(b)
    BY <2>1
  <2>3. DOMAIN d = 1 .. Len(d) /\ \A id \in 1 .. Len(d) : d[id] \in U64
    BY <2>1, ClientAssumption
  <2>4. b[w] \in Seq(1 .. Len(d))
    BY <2>1
  <2>5. PICK bucket : bucket = b[w]
    OBVIOUS
  <2>6. /\ bucket \in Seq(1 .. Len(d)) /\ DOMAIN bucket = 1 .. n /\ n \in Nat
        /\ \A i \in 1 .. n : bucket[i] \in 1 .. Len(d)
    BY <1>1, <2>4, <2>5
  <2> QED BY <2>2, <2>3, <2>5, <2>6
<1>3. \A u \in U64 : BitWidth(u) \in Nat /\ u \in Nat
  BY BitWidthType, BITSAssumption DEF U64
<1>4. Numbers(d, Len(d)) /\ Numbers(s, n)
  <2>1. DOMAIN s = 1 .. n /\ \A i \in 1 .. n : s[i] = d[b[w][i]]
    BY <1>1, <1>2 DEF ValuesOf
  <2> QED BY <1>2, <1>3, <2>1 DEF Numbers
<1>14. /\ \A v \in Range(s) : \E i \in 1 .. n : s[i] = v
       /\ \A i \in 1 .. n : s[i] \in Range(s)
  <2>1. Numbers(s, n) /\ n \in Nat
    BY <1>2, <1>4
  <2> QED BY <2>1, RangeOfNumbers
<1>15. /\ \A v \in Range(d) : \E id \in 1 .. Len(d) : d[id] = v
       /\ \A id \in 1 .. Len(d) : d[id] \in Range(d)
  <2>1. Numbers(d, Len(d)) /\ Len(d) \in Nat
    BY <1>2, <1>4
  <2> QED BY <2>1, RangeOfNumbers
\* The values of the bucket are those of its width.
<1>5. ASSUME NEW v \in Range(s)
      PROVE  v \in Range(d) /\ v \in U64 /\ BitWidth(v) + 1 = w
  <2>1. PICK i \in 1 .. n : s[i] = v
    BY <1>14
  <2>2. s[i] = d[b[w][i]]
    BY <1>1, <1>2, <2>1 DEF ValuesOf
  <2>3. BitWidth(d[b[w][i]]) + 1 = w
    BY <1>1, <2>1 DEF Coherent, Routed
  <2>4. b[w][i] \in 1 .. Len(d)
    BY <1>2, <2>1
  <2> QED BY <1>2, <1>15, <2>1, <2>2, <2>3, <2>4
<1>6. ASSUME NEW v \in Range(d), BitWidth(v) + 1 = w
      PROVE  v \in Range(s)
  <2>1. PICK id \in 1 .. Len(d) : d[id] = v
    BY <1>15
  <2>2. p[id] # REMOVED_POSITION
    BY <2>1 DEF LiveIn
  <2>3. p[id] \in 1 .. n /\ b[w][p[id]] = id
    BY <1>1, <1>6, <2>1, <2>2 DEF Coherent, Linked
  <2>4. s[p[id]] = v
    BY <1>1, <1>2, <2>1, <2>3 DEF ValuesOf
  <2> QED BY <1>14, <2>3, <2>4
<1>7. k \in 1 .. n /\ IsKth(s, k, m)
  BY <1>1, <1>2, <1>4, AscendingKth
<1>8. first \in Nat /\ IsFiniteSet(Narrower(d, p, w - 1))
      /\ first = Cardinality(Narrower(d, p, w - 1))
  BY <1>1, <1>2, StartCounts, StartType
<1>9. \A v \in Range(s) : /\ Cardinality(AtMost(d, v)) = first + Cardinality(AtMost(s, v))
                          /\ Cardinality(AtMost(s, v)) \in Nat
  BY <1>1, <1>2, <1>4, <1>5, CountSplits, CountsGrow
<1>10. IsKth(d, first + k, m)
  <2>1. m \in Range(s) /\ k <= Cardinality(AtMost(s, m))
    BY <1>7 DEF IsKth
  <2>2. m \in Range(d) /\ m \in U64 /\ BitWidth(m) + 1 = w
    BY <1>5, <2>1
  <2>3. first + k <= Cardinality(AtMost(d, m))
    BY <1>8, <1>9, <2>1
  <2>4. ASSUME NEW v \in Range(d), first + k <= Cardinality(AtMost(d, v))
        PROVE  m <= v
    <3>1. v \in U64 /\ v \in Nat /\ m \in Nat /\ BitWidth(v) \in Nat /\ BitWidth(m) \in Nat
      <4>1. v \in U64
        BY <1>2, <1>15
      <4> QED BY <1>3, <2>2, <4>1
    <3>2. CASE BitWidth(v) < BitWidth(m)
      <4>1. AtMost(d, v) \in SUBSET Narrower(d, p, w - 1)
        <5>1. ASSUME NEW id \in 1 .. Len(d), d[id] <= v
              PROVE  BitWidth(d[id]) + 1 <= w - 1
          <6>1. d[id] \in U64 /\ d[id] \in Nat /\ BitWidth(d[id]) \in Nat
            BY <1>2, <1>3
          <6>2. ~ (BitWidth(v) < BitWidth(d[id]))
            BY <3>1, <5>1, <6>1, WiderIsGreater
          <6> QED BY <1>2, <2>2, <3>1, <3>2, <6>1, <6>2
        <5> QED BY <1>2, <5>1 DEF AtMost, Narrower
      <4>2. Cardinality(AtMost(d, v)) <= first
        BY <1>8, <4>1, FS_Subset
      <4>3. Cardinality(AtMost(d, v)) \in Nat
        BY <1>2, <1>4, CountsGrow
      <4> QED BY <1>7, <1>8, <2>4, <4>2, <4>3
    <3>3. CASE BitWidth(v) = BitWidth(m)
      <4>1. v \in Range(s)
        BY <1>6, <2>2, <3>3
      <4>2. k <= Cardinality(AtMost(s, v))
        BY <1>7, <1>8, <1>9, <2>4, <4>1
      <4> QED BY <1>7, <4>1, <4>2 DEF IsKth
    <3>4. CASE BitWidth(m) < BitWidth(v)
      <4>1. m < v
        BY <2>2, <3>1, <3>4, WiderIsGreater
      <4> QED BY <3>1, <4>1
    <3> QED BY <3>1, <3>2, <3>3, <3>4
  <2> QED BY <2>2, <2>3, <2>4 DEF IsKth
<1>11. first + k \in 1 .. Len(d)
  <2>1. m \in Range(d) /\ first + k <= Cardinality(AtMost(d, m))
    BY <1>10 DEF IsKth
  <2>2. Cardinality(AtMost(d, m)) \in 0 .. Len(d)
    BY <1>2, <1>4, <2>1, CountsGrow
  <2> QED BY <1>2, <1>7, <1>8, <2>1, <2>2
<1>12. IsKth(d, first + k, Ascending(d)[first + k])
  BY <1>2, <1>4, <1>11, AscendingKth
<1>13. m = Ascending(d)[first + k]
  BY <1>2, <1>4, <1>10, <1>12, KthOnly
<1> QED BY <1>1, <1>13

\* With nothing removed, the snapshot is all of storage, sorted.
LEMMA SnapshotOfAll ==
    ASSUME IInv, LiveIds = DOMAIN data
    PROVE  SortedSnapshot = Ascending(data) /\ live_len = Len(data)
<1>1. PICK d, b, p, n : d = data /\ b = buckets /\ p = bucket_positions /\ n = Len(d)
  OBVIOUS
<1>2. /\ Coherent(d, b, p) /\ n \in Nat /\ DOMAIN d = 1 .. n /\ d \in Seq(Values)
      /\ live_len = Cardinality(LiveIn(d, p)) /\ LiveIn(d, p) = 1 .. n
      /\ DOMAIN b = 1 .. Len(b) /\ Len(b) \in Nat /\ b \in Seq(Seq(1 .. n))
  <2>1. /\ Coherent(d, b, p) /\ n \in Nat /\ live_len = Cardinality(LiveIn(d, p))
        /\ LiveIn(d, p) = DOMAIN d /\ DOMAIN b = 1 .. Len(b) /\ Len(b) \in Nat
    BY <1>1, CoherentNow
  <2>2. d \in Seq(Values) /\ b \in Seq(Seq(1 .. n))
    BY <1>1, <2>1 DEF Coherent, Shaped
  <2> QED BY <1>1, <2>1, <2>2
<1>3. Start(b, Len(b)) = n /\ live_len = n
  BY <1>2, SlotsCount, UpToCardinality
<1>4. Numbers(d, n)
  <2>1. \A v \in Values : v \in Nat
    BY ClientAssumption DEF U64
  <2> QED BY <1>1, <1>2, <2>1 DEF Numbers
<1>5. PICK t : t = Ascending(d)
  OBVIOUS
<1>6. DOMAIN t = 1 .. n /\ \A q \in 1 .. n : t[q] \in Nat
  <2>1. \A q \in 1 .. n : IsKth(d, q, t[q])
    BY <1>2, <1>4, <1>5, AscendingKth
  <2>2. \A q \in 1 .. n : t[q] \in Range(d)
    BY <2>1 DEF IsKth
  <2> QED BY <1>2, <1>4, <1>5, <2>2, AscendingKth, RangeOfNumbers
<1>7. ASSUME NEW w \in 1 .. Len(b)
      PROVE  Ascending(ValuesOf(d, b[w])) = [k \in 1 .. Len(b[w]) |-> t[Start(b, w - 1) + k]]
  <2>1. PICK s : s = Ascending(ValuesOf(d, b[w]))
    OBVIOUS
  <2>2. DOMAIN b[w] = 1 .. Len(b[w])
    <3>1. b[w] \in Seq(1 .. n)
      BY <1>2
    <3> QED BY <3>1
  <2>3. DOMAIN ValuesOf(d, b[w]) = 1 .. Len(b[w])
    BY <2>2 DEF ValuesOf
  <2>4. s = [k \in 1 .. Len(b[w]) |-> s[k]]
    BY <2>1, <2>3 DEF Ascending
  <2>5. \A k \in 1 .. Len(b[w]) : s[k] = t[Start(b, w - 1) + k]
    <3>1. Coherent(d, b, p) /\ LiveIn(d, p) = 1 .. Len(d)
      BY <1>1, <1>2
    <3> QED BY <1>5, <2>1, <3>1, BucketInPlace
  <2> QED BY <2>1, <2>4, <2>5
<1>8. Receives(t, d, b, n)
  BY <1>6, <1>7 DEF Receives
<1>9. Snapshot(d, b) = [q \in 1 .. n |-> t[q]]
  BY <1>2, <1>3, <1>8, SnapshotIs
<1>10. Ascending(d) = [q \in 1 .. n |-> Ascending(d)[q]]
  BY <1>2 DEF Ascending
<1>11. SortedSnapshot = Snapshot(data, buckets)
  BY DEF SortedSnapshot, Snapshot, ValuesOf
<1> QED BY <1>1, <1>3, <1>5, <1>9, <1>10, <1>11

-------------------------------------------------------------------------------
(* The data of a row and the places its calls use.                         *)

LEMMA SliceFacts ==
    ASSUME NEW s \in Slices
    PROVE  /\ s \in Seq(Values) /\ Len(s) \in Nat /\ DOMAIN s = 1 .. Len(s)
           /\ Len(s) <= Capacity /\ Capacity \in Nat
           /\ Numbers(s, Len(s))
<1>1. s \in Seq(Values) /\ Len(s) \in LOOKUPS .. Capacity
  BY WorkloadAssumption
<1>2. Len(s) \in Nat /\ DOMAIN s = 1 .. Len(s) /\ \A j \in 1 .. Len(s) : s[j] \in Values
  BY <1>1
<1>3. Capacity \in Nat /\ LOOKUPS \in Nat /\ \A v \in Values : v \in Nat
  BY ClientAssumption, WorkloadAssumption DEF U64
<1> QED BY <1>1, <1>2, <1>3 DEF Numbers

LEMMA EmptyValid == Valid(Empty)
<1>1. Capacity \in Nat /\ BITS \in Nat
  BY ClientAssumption, BITSAssumption
<1>2. Coherent(<<>>, <<>>, <<>>)
  BY <1>1 DEF Coherent, Shaped, Linked, Routed
<1>3. Cardinality(LiveIn(<<>>, <<>>)) = 0
  <2>1. LiveIn(<<>>, <<>>) = {}
    BY DEF LiveIn
  <2> QED BY <2>1, FS_EmptySet
<1>4. Trimmed(<<>>)
  BY DEF Trimmed
<1>5. Valid(Record(<<>>, <<>>, <<>>, 0))
  BY <1>2, <1>3, <1>4, ValidRecord
<1> QED BY <1>5 DEF Empty, Record

\* insert_bulk makes of an empty index that of the data, with nothing removed.
LEMMA BuiltIs ==
    ASSUME slice \in Slices
    PROVE  /\ Valid(Built) /\ Built.data = slice
           /\ LiveIn(Built.data, Built.bucket_positions) = DOMAIN slice
<1>1. PICK s, index : s = slice /\ index = InsertedAll(Empty, s)
  OBVIOUS
<1>2. s \in Seq(Values) /\ Len(s) \in Nat /\ DOMAIN s = 1 .. Len(s) /\ Len(s) <= Capacity
  BY <1>1, SliceFacts
<1>3. Empty.data = <<>> /\ Empty.bucket_positions = <<>> /\ Len(Empty.data) = 0
  BY DEF Empty
<1>4. Len(Empty.data) + Len(s) = Len(s)
  BY <1>2, <1>3
<1>5. /\ Valid(index) /\ Len(index.data) = Len(Empty.data) + Len(s)
      /\ \A i \in 1 .. Len(s) : index.data[Len(Empty.data) + i] = s[i]
      /\ LiveIn(index.data, index.bucket_positions) = Extended(Empty, Len(s))
  <2>1. Len(Empty.data) + Len(s) <= Capacity
    BY <1>2, <1>4
  <2> QED BY <1>1, <1>2, <2>1, EmptyValid, InsertedAllValid
<1>6. index.data = s
  <2>1. PICK d : d = index.data
    OBVIOUS
  <2>2. d \in Seq(Values) /\ Len(d) = Len(s)
    BY <1>4, <1>5, <2>1 DEF Valid, Coherent, Shaped
  <2>3. \A i \in 1 .. Len(s) : d[i] = s[i]
    <3> SUFFICES ASSUME NEW i \in 1 .. Len(s)
                 PROVE  d[i] = s[i]
      OBVIOUS
    <3>1. Len(Empty.data) + i = i
      BY <1>3
    <3> QED BY <1>5, <2>1, <3>1
  <2>4. d = s
    BY <1>2, <2>2, <2>3
  <2> QED BY <2>1, <2>4
<1>7. Extended(Empty, Len(s)) = 1 .. Len(s)
  <2>1. LiveIn(<<>>, <<>>) = {}
    BY DEF LiveIn
  <2>2. Len(Empty.data) + 1 .. Len(Empty.data) + Len(s) = 1 .. Len(s)
    BY <1>3, <1>4
  <2> QED BY <1>3, <2>1, <2>2 DEF Extended
<1> QED BY <1>1, <1>2, <1>5, <1>6, <1>7 DEF Built

\* The places step_by yields are places of the sequence, each once.
LEMMA StridesFit ==
    ASSUME NEW n \in Nat, NEW d \in Nat \ {0}, NEW m, m = (n + d - 1) \div d
    PROVE  /\ m \in Nat
           /\ \A k \in 1 .. m : (k - 1) * d + 1 \in 1 .. n
           /\ \A j, k \in 1 .. m : (j - 1) * d + 1 = (k - 1) * d + 1 => j = k
<1>1. n + d - 1 \in Nat
  OBVIOUS
<1>2. m \in Nat /\ d * m <= n + d - 1
  BY <1>1, Z3
<1>3. ASSUME NEW k \in 1 .. m
      PROVE  (k - 1) * d + 1 \in 1 .. n
  <2>1. PICK i, z : i = m - k /\ z = i * d
    OBVIOUS
  <2>2. i \in Nat /\ k \in Nat /\ m = k + i
    BY <1>2, <2>1
  <2>3. z \in Nat /\ (k - 1) * d \in Nat
    BY <2>1, <2>2, Z3
  <2>4. d * m = (k - 1) * d + d + z
    BY <2>1, <2>2, Z3
  <2>5. PICK x, y : x = (k - 1) * d /\ y = d * m
    OBVIOUS
  <2>6. x \in Nat /\ y = x + d + z /\ y <= n + d - 1
    BY <1>2, <2>3, <2>4, <2>5
  <2>7. x + 1 \in 1 .. n
    BY <2>3, <2>6
  <2> QED BY <2>5, <2>7
<1>4. ASSUME NEW j \in 1 .. m, NEW k \in 1 .. m, (j - 1) * d + 1 = (k - 1) * d + 1
      PROVE  j = k
  <2>1. PICK a, c : a = j - 1 /\ c = k - 1
    OBVIOUS
  <2>2. a \in Nat /\ c \in Nat
    BY <1>2, <2>1
  <2>3. a * d = c * d
    <3>1. PICK x, y : x = a * d /\ y = c * d
      OBVIOUS
    <3>2. x \in Nat /\ y \in Nat
      BY <2>2, <3>1, Z3
    <3>3. x + 1 = y + 1
      BY <1>4, <2>1, <3>1
    <3> QED BY <3>1, <3>2, <3>3
  <2>4. a = c
    BY <2>2, <2>3, Z3
  <2> QED BY <1>2, <2>1, <2>4
<1> QED BY <1>2, <1>3, <1>4

LEMMA PlacesFit ==
    ASSUME slice \in Slices
    PROVE  /\ Len(TargetPlaces) \in Nat /\ Len(Updates) \in Nat
           /\ \A k \in 1 .. Len(TargetPlaces) : TargetPlaces[k] \in DOMAIN slice
           /\ \A k \in 1 .. Len(Updates) : Updates[k] \in DOMAIN slice
           /\ \A j, k \in 1 .. Len(Updates) : Updates[j] = Updates[k] => j = k
<1>1. PICK n : n = Len(slice)
  OBVIOUS
<1>2. n \in Nat /\ DOMAIN slice = 1 .. n
  BY <1>1, SliceFacts
<1>3. LOOKUPS \in Nat \ {0} /\ UPDATE_STEP \in Nat \ {0}
  BY WorkloadAssumption
<1>4. /\ Len(TargetPlaces) \in Nat
      /\ \A k \in 1 .. Len(TargetPlaces) : TargetPlaces[k] \in 1 .. n
  <2>1. PICK d, m, c : /\ d = Step(n, LOOKUPS) /\ m = (n + d - 1) \div d
                       /\ c = TargetCount(n, LOOKUPS)
    OBVIOUS
  <2>2. d \in Nat \ {0}
    <3>1. CASE n < LOOKUPS
      BY <2>1, <3>1 DEF Step
    <3>2. CASE ~ (n < LOOKUPS)
      <4>1. n \div LOOKUPS \in Nat \ {0}
        BY <1>2, <1>3, <3>2, Z3
      <4> QED BY <2>1, <3>2, <4>1 DEF Step
    <3> QED BY <3>1, <3>2
  <2>3. /\ m \in Nat
        /\ \A k \in 1 .. m : (k - 1) * d + 1 \in 1 .. n
        /\ \A j, k \in 1 .. m : (j - 1) * d + 1 = (k - 1) * d + 1 => j = k
    <3>1. m = (n + d - 1) \div d
      BY <2>1
    <3> QED BY <1>2, <2>2, <3>1, StridesFit
  <2>4. c \in Nat /\ c <= m
    BY <1>3, <2>1, <2>3 DEF TargetCount
  <2>5. TargetPlaces = [k \in 1 .. c |-> (k - 1) * d + 1]
    BY <1>1, <2>1 DEF TargetPlaces, Targets
  <2>6. \A k \in 1 .. c : (k - 1) * d + 1 \in 1 .. n
    BY <2>3, <2>4
  <2>7. Len(TargetPlaces) = c
    <3>1. TargetPlaces \in [1 .. c -> 1 .. n]
      BY <2>5, <2>6
    <3> QED BY <2>4, <3>1
  <2> QED BY <2>4, <2>5, <2>6, <2>7
<1>5. PICK m : m = (n + UPDATE_STEP - 1) \div UPDATE_STEP
  OBVIOUS
<1>6. /\ m \in Nat
      /\ \A k \in 1 .. m : (k - 1) * UPDATE_STEP + 1 \in 1 .. n
      /\ \A j, k \in 1 .. m :
            (j - 1) * UPDATE_STEP + 1 = (k - 1) * UPDATE_STEP + 1 => j = k
  BY <1>2, <1>3, <1>5, StridesFit
<1>7. Updates = [k \in 1 .. m |-> (k - 1) * UPDATE_STEP + 1]
  BY <1>1, <1>5 DEF Updates
<1>8. Len(Updates) = m
  <2>1. Updates \in [1 .. m -> 1 .. n]
    BY <1>6, <1>7
  <2> QED BY <1>6, <2>1
<1>9. /\ \A k \in 1 .. m : Updates[k] \in 1 .. n
      /\ \A j, k \in 1 .. m : Updates[j] = Updates[k] => j = k
  BY <1>6, <1>7
<1> QED BY <1>2, <1>4, <1>6, <1>8, <1>9

-------------------------------------------------------------------------------
(* The inductive invariant.                                                *)

\* What an operation finds in the index and leaves there.
IndexFound ==
    /\ workload \in Prebuilt \cap OnIndex => data = slice /\ LiveIds = DOMAIN slice
    /\ step > 0 /\ workload \in OnIndex \ {"sarkar_sort"} =>
          /\ data = IF workload = "update_at" THEN Updated ELSE slice
          /\ LiveIds = DOMAIN slice \ (IF workload = "remove_at" THEN Done ELSE {})
          /\ reply.ok
    /\ workload = "sarkar_sort" /\ step = 1 => data = slice /\ LiveIds = DOMAIN slice
    /\ workload = "sarkar_sort" /\ step = 2 =>
          live_len = Len(slice) /\ data = Ascending(slice)

\* The containers of the baselines that are as they were built.
BaselineFound ==
    /\ workload \in Prebuilt \ OnIndex => baseline = Container[workload]
    /\ workload = "vec_sort" /\ step = 1 => baseline = slice
    /\ workload \in {"vec_update", "vec_tombstone"} /\ step > 0 =>
          DOMAIN baseline = DOMAIN slice

WorkInv ==
    /\ IInv /\ slice \in Slices /\ workload \in OnIndex \cup DOMAIN Container
    /\ step \in 0 .. Calls + 1
    /\ IndexFound /\ BaselineFound /\ SameWork

LEMMA ContainersAre ==
    /\ Container["vec_contains"] = slice /\ Container["binary_search"] = SortedCopy
    /\ Container["set_contains"] = Range(slice)
    /\ Container["vec_update"] = slice /\ Container["vec_tombstone"] = slice
    /\ Container["vec_sort"] = slice
    /\ DOMAIN Container = {"vec_contains", "binary_search", "set_contains", "set_insert",
                           "vec_push", "vec_sort", "vec_update", "vec_tombstone"}
BY DEF Container

LEMMA CallsAre ==
    /\ workload \in Searches => Calls = Len(TargetPlaces)
    /\ workload \in {"update_at", "remove_at", "vec_update", "vec_tombstone"} =>
          Calls = Len(Updates)
    /\ workload \in {"sarkar_sort", "vec_sort"} => Calls = 1
BY DEF Calls, Searches

\* Nothing is done when a run begins, and each call does one more.
LEMMA DoneAre ==
    /\ step = 1 => Done = {}
    /\ step \in Nat => \A k \in Nat : k >= 1 /\ k < step => Updates[k] \in Done
    /\ \A id \in Done : \E k \in 1 .. step - 1 : Updates[k] = id
<1>1. step = 1 => 1 .. step - 1 = {}
  OBVIOUS
<1>2. step \in Nat => \A k \in Nat : k >= 1 /\ k < step => k \in 1 .. step - 1
  OBVIOUS
<1> QED BY <1>1, <1>2 DEF Done

LEMMA DoneNext ==
    ASSUME step \in Nat \ {0}, step' = step + 1, slice' = slice
    PROVE  Done' = Done \cup {Updates[step]}
<1>1. Updates' = Updates
  BY DEF Updates
<1>2. Done' = {Updates[k] : k \in 1 .. step}
  BY <1>1 DEF Done
<1>3. 1 .. step = (1 .. step - 1) \cup {step}
  OBVIOUS
<1> QED BY <1>2, <1>3 DEF Done

\* No call repeats the ID of an earlier one.
LEMMA IdIsNew ==
    ASSUME slice \in Slices, step \in 1 .. Len(Updates)
    PROVE  Updates[step] \in DOMAIN slice /\ Updates[step] \notin Done
<1>1. /\ Len(Updates) \in Nat
      /\ \A k \in 1 .. Len(Updates) : Updates[k] \in DOMAIN slice
      /\ \A j, k \in 1 .. Len(Updates) : Updates[j] = Updates[k] => j = k
  BY PlacesFit
<1>2. ASSUME Updates[step] \in Done
      PROVE  FALSE
  <2>1. PICK k \in 1 .. step - 1 : Updates[k] = Updates[step]
    BY <1>2, DoneAre
  <2>2. k \in 1 .. Len(Updates) /\ k # step
    BY <1>1, <2>1
  <2> QED BY <1>1, <2>1, <2>2
<1> QED BY <1>1, <1>2

LEMMA FlippedType ==
    ASSUME slice \in Slices, NEW id \in DOMAIN slice
    PROVE  slice[id] \in Values /\ Flipped(slice[id]) \in Values
<1>1. slice[id] \in Values
  BY SliceFacts
<1> QED BY <1>1, WorkloadAssumption

\* A step that leaves the index alone.
LEMMA IndexKept ==
    ASSUME IInv, UNCHANGED vars
    PROVE  IInv' /\ data' = data /\ LiveIds' = LiveIds /\ live_len' = live_len /\ reply' = reply
<1>1. IInv'
  BY NextHolds
<1>2. data' = data /\ live_len' = live_len /\ reply' = reply
  BY DEF vars
<1>3. LiveIds' = LiveIds
  BY DEF vars, LiveIds, IsLive
<1> QED BY <1>1, <1>2, <1>3

-------------------------------------------------------------------------------
(* Every step keeps it.                                                    *)

LEMMA ReplyOk ==
    ASSUME NEW op, NEW args
    PROVE  /\ Reply(op, args, NoId, TRUE).id = NoId /\ Reply(op, args, NoId, TRUE).ok = TRUE
           /\ NoId \in 0 .. Capacity
<1>1. Reply(op, args, NoId, TRUE).id = NoId /\ Reply(op, args, NoId, TRUE).ok = TRUE
  BY DEF Reply
<1>2. NoId \in 0 .. Capacity
  BY ClientAssumption DEF NoId
<1> QED BY <1>1, <1>2

\* An index that is replaced by that of the data.
LEMMA BecomesBuilt ==
    ASSUME slice \in Slices, Become(Built), NEW op, NEW args,
           reply' = Reply(op, args, NoId, TRUE)
    PROVE  IInv' /\ data' = slice /\ LiveIds' = DOMAIN slice /\ reply'.ok
<1>1. PICK index : index = Built
  OBVIOUS
<1>2. /\ Valid(index) /\ index.data = slice
      /\ LiveIn(index.data, index.bucket_positions) = DOMAIN slice
  BY <1>1, BuiltIs
<1>3. Become(index)
  BY <1>1
<1>4. Valid(self)'
  BY <1>2, <1>3, BecomeValid
<1>5. IInv'
  BY <1>4, ReplyOk, Preserved
<1>6. data' = slice /\ LiveIds' = DOMAIN slice
  BY <1>2, <1>3, <1>5, LiveAfter
<1> QED BY <1>5, <1>6, ReplyOk

LEMMA WorkInvStarts == WorkloadInit => WorkInv
<1> SUFFICES ASSUME WorkloadInit
             PROVE  WorkInv
  OBVIOUS
<1>1. /\ slice \in Slices /\ workload \in OnIndex \cup DOMAIN Container /\ step = 0
      /\ workload \in Prebuilt \ OnIndex => baseline = Container[workload]
  BY DEF WorkloadInit
<1>2. PICK index : /\ index = IF workload \in Prebuilt \cap OnIndex THEN Built ELSE Empty
                   /\ data = index.data /\ buckets = index.buckets
                   /\ bucket_positions = index.bucket_positions /\ live_len = index.live_len
  BY DEF WorkloadInit
<1>3. Valid(index)
  BY <1>1, <1>2, BuiltIs, EmptyValid
<1>4. self = index
  <2>1. index = Record(index.data, index.buckets, index.bucket_positions, index.live_len)
    BY <1>3 DEF Valid
  <2>2. self = Record(index.data, index.buckets, index.bucket_positions, index.live_len)
    BY <1>2 DEF self, Record
  <2> QED BY <2>1, <2>2, Zenon
<1>5. IInv
  <2>1. reply = Reply("new", <<>>, NoId, TRUE)
    BY DEF WorkloadInit
  <2>2. reply.id \in 0 .. Capacity /\ reply.ok \in BOOLEAN
    BY <2>1, ReplyOk
  <2> QED BY <1>3, <1>4, <2>2 DEF IInv
<1>6. workload \in Prebuilt \cap OnIndex => data = slice /\ LiveIds = DOMAIN slice
  <2> SUFFICES ASSUME workload \in Prebuilt \cap OnIndex
               PROVE  data = slice /\ LiveIds = DOMAIN slice
    OBVIOUS
  <2>1. index = Built
    BY <1>2
  <2>2. /\ index.data = slice
        /\ LiveIn(index.data, index.bucket_positions) = DOMAIN slice
    BY <1>1, <2>1, BuiltIs
  <2> QED BY <1>2, <1>5, <2>2, LiveIdsAre
<1>7. IndexFound /\ BaselineFound /\ SameWork
  BY <1>1, <1>6 DEF IndexFound, BaselineFound, SameWork
<1>8. step \in 0 .. Calls + 1
  <2>1. Calls \in Nat
    BY <1>1, PlacesFit DEF Calls
  <2> QED BY <1>1, <2>1
<1> QED BY <1>1, <1>5, <1>7, <1>8 DEF WorkInv

LEMMA BeginRunHolds ==
    ASSUME WorkInv, BeginRun
    PROVE  WorkInv'
<1>1. /\ IInv /\ slice \in Slices /\ workload \in OnIndex \cup DOMAIN Container
      /\ IndexFound /\ BaselineFound
  BY DEF WorkInv
<1>2. /\ step' = 1 /\ found' = 0 /\ slice' = slice /\ workload' = workload
      /\ reply' = Reply("insert_bulk", slice, NoId, TRUE)
  BY DEF BeginRun
<1>3. Done' = {} /\ Updated' = slice
  <2>1. Done' = {}
    <3>1. 1 .. 1 - 1 = {}
      OBVIOUS
    <3> QED BY <1>2, <3>1 DEF Done
  <2>2. DOMAIN slice = 1 .. Len(slice) /\ slice \in Seq(Values)
    BY <1>1, SliceFacts
  <2>3. slice = [id \in DOMAIN slice |-> slice[id]]
    BY <2>2
  <2> QED BY <1>2, <2>1, <2>3 DEF Updated
<1>4. Container' = Container
  BY <1>2 DEF Container, SortedCopy
<1>5. IInv' /\ reply'.ok /\ (workload \in OnIndex => data' = slice /\ LiveIds' = DOMAIN slice)
  <2>1. CASE workload \in OnIndex \ Prebuilt
    <3>1. Become(Built)
      BY <2>1 DEF BeginRun, Build
    <3> QED BY <1>1, <1>2, <3>1, BecomesBuilt
  <2>2. CASE ~ (workload \in OnIndex \ Prebuilt)
    <3>1. UNCHANGED store
      BY <2>2 DEF BeginRun, Build
    <3>2. IInv'
      <4>1. Valid(self)'
        BY <1>1, <3>1, SameStore DEF IInv
      <4> QED BY <1>2, <4>1, ReplyOk, Preserved
    <3>3. data' = data /\ LiveIds' = LiveIds
      BY <3>1 DEF store, LiveIds, IsLive
    <3>4. workload \in OnIndex => data = slice /\ LiveIds = DOMAIN slice
      BY <1>1, <2>2 DEF IndexFound
    <3> QED BY <1>2, <3>2, <3>3, <3>4, ReplyOk
  <2> QED BY <2>1, <2>2
<1>6. workload \notin OnIndex => baseline' = Container[workload]
  BY <1>1 DEF BeginRun, BaselineFound
<1>7. IndexFound'
  <2>1. DOMAIN slice \ {} = DOMAIN slice /\ "sarkar_sort" \in OnIndex
    BY DEF OnIndex
  <2>2. workload \in OnIndex => /\ data' = IF workload = "update_at" THEN Updated' ELSE slice
                                /\ LiveIds' = DOMAIN slice \ (IF workload = "remove_at"
                                                               THEN Done' ELSE {})
    BY <1>3, <1>5, <2>1
  <2>3. workload \in Prebuilt \cap OnIndex => data' = slice /\ LiveIds' = DOMAIN slice
    BY <1>5
  <2>4. workload = "sarkar_sort" => data' = slice /\ LiveIds' = DOMAIN slice
    BY <1>5, <2>1
  <2>5. step' # 2
    BY <1>2
  <2>6. (step > 0 /\ workload \in OnIndex \ {"sarkar_sort"} =>
           /\ data = IF workload = "update_at" THEN Updated ELSE slice
           /\ LiveIds = DOMAIN slice \ (IF workload = "remove_at" THEN Done ELSE {})
           /\ reply.ok)'
    BY <1>2, <1>5, <2>2
  <2> QED BY <1>2, <2>3, <2>4, <2>5, <2>6 DEF IndexFound
<1>8. BaselineFound' /\ SameWork'
  <2>1. workload \in {"vec_sort", "vec_update", "vec_tombstone"} => baseline' = slice
    BY <1>6, ContainersAre DEF OnIndex
  <2>2. BaselineFound'
    BY <1>2, <1>4, <1>6, <2>1 DEF BaselineFound
  <2>3. SameWork'
    BY <1>2, <1>3, <2>1 DEF SameWork
  <2> QED BY <2>2, <2>3
<1>9. step' \in 0 .. Calls' + 1
  <2>1. Calls' = Calls
    BY <1>2 DEF Calls, TargetPlaces, Updates
  <2>2. Calls \in Nat
    BY <1>1, PlacesFit DEF Calls
  <2> QED BY <1>2, <2>1, <2>2
<1>10. workload' \in OnIndex \cup DOMAIN Container'
  BY <1>1, <1>2, <1>4
<1> QED BY <1>1, <1>2, <1>5, <1>7, <1>8, <1>9, <1>10 DEF WorkInv

\* What every call leaves alone.
LEMMA CallFrame ==
    ASSUME WorkInv, NEW w, Calling(w), slice' = slice, workload' = workload
    PROVE  /\ workload = w /\ step \in 1 .. Calls /\ step \in Nat \ {0} /\ step' = step + 1
           /\ slice \in Slices /\ slice' \in Slices
           /\ Container' = Container /\ workload' \in OnIndex \cup DOMAIN Container'
           /\ step' \in 0 .. Calls' + 1
<1>1. workload = w /\ step \in 1 .. Calls /\ step' = step + 1 /\ slice \in Slices
  BY DEF Calling, WorkInv
<1>2. Calls \in Nat
  BY <1>1, PlacesFit DEF Calls
<1>3. Calls' = Calls
  BY DEF Calls, TargetPlaces, Updates
<1>4. Container' = Container
  BY DEF Container, SortedCopy
<1>5. step' \in 0 .. Calls' + 1 /\ step \in Nat \ {0}
  BY <1>1, <1>2, <1>3
<1> QED BY <1>1, <1>4, <1>5 DEF WorkInv

\* Whatever it looks in, a lookup finds its target.
LEMMA TargetFound ==
    ASSUME WorkInv, workload \in Searches, step \in 1 .. Len(TargetPlaces)
    PROVE  \A answer \in Answers(slice[TargetPlaces[step]]) : answer = TRUE
<1>1. /\ IInv /\ slice \in Slices /\ IndexFound /\ BaselineFound
  BY DEF WorkInv
<1>2. PICK target : target = slice[TargetPlaces[step]]
  OBVIOUS
<1>3. TargetPlaces[step] \in DOMAIN slice
  BY <1>1, PlacesFit
<1>4. target \in Range(slice)
  BY <1>2, <1>3 DEF Range
<1>5. CASE workload = "contains"
  <2>1. data = slice /\ LiveIds = DOMAIN slice
    BY <1>1, <1>5 DEF IndexFound, Prebuilt, OnIndex, Searches
  <2>2. PICK id : id = TargetPlaces[step]
    OBVIOUS
  <2>3. id \in LiveIds /\ data[id] = target /\ target \in Values
    BY <1>1, <1>2, <1>3, <2>1, <2>2, FlippedType
  <2>4. PICK bucket : bucket = GetBucket(buckets, BitWidth(target))
    OBVIOUS
  <2>5. /\ bucket \in Seq(1 .. Len(data)) /\ Len(bucket) \in Nat
        /\ bucket_positions[id] \in 1 .. Len(bucket) /\ bucket[bucket_positions[id]] = id
    BY <1>1, <2>3, <2>4, BucketHolds
  <2>6. id \in Range(bucket)
    BY <2>5 DEF Range
  <2>7. Contains(target) = TRUE
    BY <2>3, <2>4, <2>6 DEF Contains
  <2> QED BY <1>2, <1>5, <2>7 DEF Answers
<1>6. CASE workload = "vec_contains"
  <2>1. baseline = slice
    BY <1>1, <1>6, ContainersAre DEF BaselineFound, Prebuilt, OnIndex, Searches
  <2> QED BY <1>2, <1>4, <1>6, <2>1 DEF Answers
<1>7. CASE workload = "set_contains"
  <2>1. baseline = Range(slice)
    BY <1>1, <1>7, ContainersAre DEF BaselineFound, Prebuilt, OnIndex, Searches
  <2> QED BY <1>2, <1>4, <1>7, <2>1 DEF Answers
<1>8. CASE workload = "binary_search"
  <2>1. baseline = Ascending(slice)
    BY <1>1, <1>8, ContainersAre DEF BaselineFound, Prebuilt, OnIndex, Searches, SortedCopy
  <2>2. Range(baseline) = Range(slice) /\ IsSorted(baseline)
    BY <1>1, <2>1, SliceFacts, AscendingSorts
  <2>3. target \in Range(baseline)
    BY <1>4, <2>2
  <2> QED BY <1>2, <1>8, <2>2, <2>3 DEF Answers
<1> QED BY <1>5, <1>6, <1>7, <1>8 DEF Searches

LEMMA SearchHolds ==
    ASSUME WorkInv, Search
    PROVE  WorkInv'
<1>1. /\ workload \in Searches /\ Calling(workload) /\ UNCHANGED vars
      /\ slice' = slice /\ workload' = workload /\ baseline' = baseline
  BY DEF Search
<1>2. /\ step \in 1 .. Calls /\ step \in Nat \ {0} /\ step' = step + 1 /\ slice \in Slices
      /\ slice' \in Slices /\ Container' = Container
      /\ workload' \in OnIndex \cup DOMAIN Container' /\ step' \in 0 .. Calls' + 1
  BY <1>1, CallFrame
<1>3. IInv /\ IndexFound /\ BaselineFound /\ SameWork
  BY DEF WorkInv
<1>4. IInv' /\ data' = data /\ LiveIds' = LiveIds /\ reply' = reply
  BY <1>1, <1>3, IndexKept
<1>5. workload \notin {"sarkar_sort", "update_at", "remove_at", "vec_sort", "vec_update",
                       "vec_tombstone"}
  BY <1>1 DEF Searches
<1>6. step > 0
  BY <1>2
<1>7. IndexFound'
  BY <1>1, <1>3, <1>4, <1>5, <1>6 DEF IndexFound
<1>8. BaselineFound'
  BY <1>1, <1>2, <1>3, <1>5 DEF BaselineFound
<1>9. found' = step
  <2>1. step \in 1 .. Len(TargetPlaces)
    BY <1>1, <1>2, CallsAre
  <2>2. found' = found + 1
    <3>1. PICK answer \in Answers(slice[TargetPlaces[step]]) :
             found' = IF answer THEN found + 1 ELSE found
      BY DEF Search
    <3>2. answer = TRUE
      BY <1>1, <2>1, <3>1, TargetFound
    <3> QED BY <3>1, <3>2
  <2>3. found = step - 1
    BY <1>1, <1>3, <1>6 DEF SameWork
  <2> QED BY <1>2, <2>2, <2>3
<1>10. SameWork'
  <2>1. step' - 1 = step
    BY <1>2
  <2> QED BY <1>1, <1>5, <1>9, <2>1 DEF SameWork
<1> QED BY <1>2, <1>4, <1>7, <1>8, <1>10 DEF WorkInv

\* An update or a removal is not refused.
LEMMA EntryIsLive ==
    ASSUME WorkInv, workload \in {"update_at", "remove_at"}, step \in 1 .. Calls
    PROVE  /\ Updates[step] \in LiveIds /\ IsLive(Updates[step]) /\ Updates[step] \in DOMAIN slice
<1>1. IInv /\ slice \in Slices /\ IndexFound
  BY DEF WorkInv
<1>2. step \in 1 .. Len(Updates)
  BY CallsAre
<1>3. Updates[step] \in DOMAIN slice /\ Updates[step] \notin Done
  BY <1>1, <1>2, IdIsNew
<1>4. step > 0
  <2>1. Len(Updates) \in Nat
    BY <1>1, PlacesFit
  <2> QED BY <1>2, <2>1
<1>5. LiveIds = DOMAIN slice \ (IF workload = "remove_at" THEN Done ELSE {})
  BY <1>1, <1>4 DEF IndexFound, OnIndex
<1>6. Updates[step] \in LiveIds
  BY <1>3, <1>5
<1> QED BY <1>3, <1>6 DEF LiveIds

LEMMA UpdateNextHolds ==
    ASSUME WorkInv, UpdateNext
    PROVE  WorkInv'
<1>1. /\ Calling("update_at") /\ UpdateAt(Updates[step], Flipped(slice[Updates[step]]))
      /\ slice' = slice /\ workload' = workload /\ baseline' = baseline
  BY DEF UpdateNext
<1>2. /\ workload = "update_at" /\ step \in 1 .. Calls /\ step \in Nat \ {0}
      /\ step' = step + 1 /\ slice \in Slices /\ slice' \in Slices /\ Container' = Container
      /\ workload' \in OnIndex \cup DOMAIN Container' /\ step' \in 0 .. Calls' + 1
  BY <1>1, CallFrame
<1>3. IInv /\ IndexFound /\ BaselineFound
  BY DEF WorkInv
<1>4. PICK id, new : id = Updates[step] /\ new = Flipped(slice[id])
  OBVIOUS
<1>5. id \in LiveIds /\ IsLive(id) /\ id \in DOMAIN slice /\ new \in Values
  BY <1>2, <1>4, EntryIsLive, FlippedType
<1>6. UpdateEntry(id, new, "update_at", <<id, new>>)
  BY <1>1, <1>4 DEF UpdateAt
<1>7. /\ Become(UpdatedAt(self, id, new))
      /\ reply' = Reply("update_at", <<id, new>>, NoId, TRUE)
  BY <1>5, <1>6 DEF UpdateEntry
<1>8. IInv'
  BY <1>3, <1>5, <1>6, UpdateEntryHolds
<1>9. data' = [data EXCEPT ![id] = new] /\ LiveIds' = LiveIds
  BY <1>3, <1>5, <1>7, <1>8, UpdatedEntry
<1>10. reply'.ok = TRUE
  BY <1>7, ReplyOk
<1>11. step > 0 /\ "update_at" \in OnIndex \ {"sarkar_sort"}
       /\ "update_at" \notin Prebuilt /\ "update_at" \notin Searches
  BY <1>2 DEF OnIndex, Prebuilt, Searches
<1>12. data = Updated /\ LiveIds = DOMAIN slice
  <2>1. DOMAIN slice \ {} = DOMAIN slice
    OBVIOUS
  <2> QED BY <1>2, <1>3, <1>11, <2>1 DEF IndexFound
<1>13. Updated' = [Updated EXCEPT ![id] = new]
  <2>1. Done' = Done \cup {id}
    BY <1>1, <1>2, <1>4, DoneNext
  <2> QED BY <1>1, <1>4, <1>5, <2>1 DEF Updated
<1>14. IndexFound'
  <2>1. step' > 0 /\ step' # 1
    BY <1>2
  <2>2. data' = Updated' /\ LiveIds' = DOMAIN slice'
    BY <1>1, <1>9, <1>12, <1>13
  <2>3. DOMAIN slice' \ {} = DOMAIN slice'
    OBVIOUS
  <2> QED BY <1>1, <1>2, <1>10, <1>11, <2>1, <2>2, <2>3 DEF IndexFound
<1>15. BaselineFound' /\ SameWork'
  BY <1>1, <1>2, <1>11 DEF BaselineFound, SameWork
<1> QED BY <1>2, <1>8, <1>14, <1>15 DEF WorkInv

LEMMA RemoveNextHolds ==
    ASSUME WorkInv, RemoveNext
    PROVE  WorkInv'
<1>1. /\ Calling("remove_at") /\ RemoveAt(Updates[step])
      /\ slice' = slice /\ workload' = workload /\ baseline' = baseline
  BY DEF RemoveNext
<1>2. /\ workload = "remove_at" /\ step \in 1 .. Calls /\ step \in Nat \ {0}
      /\ step' = step + 1 /\ slice \in Slices /\ slice' \in Slices /\ Container' = Container
      /\ workload' \in OnIndex \cup DOMAIN Container' /\ step' \in 0 .. Calls' + 1
  BY <1>1, CallFrame
<1>3. IInv /\ IndexFound /\ BaselineFound
  BY DEF WorkInv
<1>4. PICK id : id = Updates[step]
  OBVIOUS
<1>5. id \in LiveIds /\ IsLive(id) /\ id \in DOMAIN slice
  BY <1>2, <1>4, EntryIsLive
<1>6. RemoveEntry(id, "remove_at", <<id>>)
  BY <1>1, <1>4 DEF RemoveAt
<1>7. Become(RemovedAt(self, id)) /\ reply' = Reply("remove_at", <<id>>, NoId, TRUE)
  BY <1>5, <1>6 DEF RemoveEntry
<1>8. IInv'
  BY <1>3, <1>6, RemoveEntryHolds
<1>9. data' = data /\ LiveIds' = LiveIds \ {id}
  BY <1>3, <1>5, <1>7, <1>8, RemovedEntry
<1>10. reply'.ok = TRUE
  BY <1>7, ReplyOk
<1>11. step > 0 /\ "remove_at" \in OnIndex \ {"sarkar_sort"}
       /\ "remove_at" \notin Prebuilt /\ "remove_at" \notin Searches
  BY <1>2 DEF OnIndex, Prebuilt, Searches
<1>12. data = slice /\ LiveIds = DOMAIN slice \ Done
  BY <1>2, <1>3, <1>11 DEF IndexFound
<1>13. Done' = Done \cup {id}
  BY <1>1, <1>2, <1>4, DoneNext
<1>14. IndexFound'
  <2>1. step' > 0 /\ step' # 1
    BY <1>2
  <2>2. data' = slice' /\ LiveIds' = DOMAIN slice' \ Done'
    BY <1>1, <1>9, <1>12, <1>13
  <2> QED BY <1>1, <1>2, <1>10, <1>11, <2>1, <2>2 DEF IndexFound
<1>15. BaselineFound' /\ SameWork'
  BY <1>1, <1>2, <1>11 DEF BaselineFound, SameWork
<1> QED BY <1>2, <1>8, <1>14, <1>15 DEF WorkInv

LEMMA SortAllHolds ==
    ASSUME WorkInv, SortAll
    PROVE  WorkInv'
<1>1. /\ Calling("sarkar_sort") /\ SarkarSort
      /\ slice' = slice /\ workload' = workload /\ baseline' = baseline
  BY DEF SortAll
<1>2. /\ workload = "sarkar_sort" /\ step \in 1 .. Calls /\ step \in Nat \ {0}
      /\ step' = step + 1 /\ slice \in Slices /\ slice' \in Slices /\ Container' = Container
      /\ workload' \in OnIndex \cup DOMAIN Container' /\ step' \in 0 .. Calls' + 1
  BY <1>1, CallFrame
<1>3. IInv /\ IndexFound /\ BaselineFound
  BY DEF WorkInv
<1>4. step = 1
  BY <1>2, CallsAre
<1>5. data = slice /\ LiveIds = DOMAIN slice
  BY <1>2, <1>3, <1>4 DEF IndexFound
<1>6. live_len = Len(data)
  BY <1>3, <1>5, SnapshotOfAll
<1>7. PICK order \in Bijection(DOMAIN data, DOMAIN data) :
         IsSortOrder(self, order) /\ Become(Sorted(self, order))
  BY <1>1 DEF SarkarSort
<1>8. IInv'
  BY <1>1, <1>3, NextHolds DEF Next
<1>9. PICK n : n = Start(buckets, Len(buckets))
  OBVIOUS
<1>10. /\ n = live_len /\ live_len' = live_len /\ Len(data') = Len(data)
       /\ \A q \in 1 .. Len(data) : data'[q] = data[order[q]]
  BY <1>3, <1>7, <1>8, <1>9, SortedStorage
<1>11. /\ n \in Nat /\ DOMAIN slice = 1 .. n /\ Numbers(slice, n) /\ n = Len(slice)
  BY <1>2, <1>5, <1>6, <1>10, SliceFacts
<1>12. Arranges(order, slice, n)
  <2>1. /\ \A k \in 1 .. n : order[k] \in 1 .. n
        /\ \A j, k \in 1 .. n : order[j] = order[k] => j = k
    <3>1. order \in Bijection(1 .. n, 1 .. n)
      BY <1>5, <1>7, <1>11
    <3> QED BY <3>1, Fun_IsBij, Zenon DEF Bijection, Injection, IsInjective, Surjection
  <2>2. ASSUME NEW j \in 1 .. n, NEW k \in 1 .. n, j < k
        PROVE  slice[order[j]] <= slice[order[k]]
    <3>1. PICK s : s = self
      OBVIOUS
    <3>2. /\ Valid(s) /\ IsSortOrder(s, order) /\ n = Start(s.buckets, Len(s.buckets))
          /\ s.data = slice
      BY <1>3, <1>5, <1>7, <1>9, <3>1, SelfFields DEF IInv
    <3>3. s.data[order[j]] <= s.data[order[k]]
      BY <2>2, <3>2, SortOrderAscends
    <3> QED BY <3>2, <3>3
  <2> QED BY <1>11, <2>1, <2>2 DEF Arranges, Numbers
<1>13. Ascending(slice) = [k \in 1 .. n |-> slice[order[k]]]
  BY <1>11, <1>12, AscendingIs
<1>14. data' = Ascending(slice)
  <2>1. PICK d : d = data'
    OBVIOUS
  <2>2. Coherent(d, buckets', bucket_positions')
    <3>1. (IInv => Coherent(data, buckets, bucket_positions))'
      BY CoherentNow, PTL
    <3>2. Coherent(data, buckets, bucket_positions)'
      BY <1>8, <3>1
    <3> QED BY <2>1, <3>2 DEF Coherent, Shaped, Linked, Routed
  <2>3. d \in Seq(Values) /\ Len(d) = n
    BY <1>5, <1>10, <1>11, <2>1, <2>2 DEF Coherent, Shaped
  <2>4. d = [q \in 1 .. n |-> d[q]]
    BY <2>3
  <2>5. \A q \in 1 .. n : d[q] = slice[order[q]]
    BY <1>5, <1>10, <1>11, <2>1
  <2> QED BY <1>13, <2>1, <2>4, <2>5
<1>15. live_len' = Len(slice)
  BY <1>10, <1>11
<1>16. IndexFound'
  <2>1. step' = 2 /\ "sarkar_sort" \notin Prebuilt
    BY <1>2, <1>4 DEF Prebuilt, Searches
  <2>2. Ascending(slice') = Ascending(slice) /\ Ascending(slice)' = Ascending(slice)
    BY <1>1 DEF Ascending, AtMost
  <2> QED BY <1>1, <1>2, <1>14, <1>15, <2>1, <2>2 DEF IndexFound
<1>17. BaselineFound' /\ SameWork'
  <2>1. "sarkar_sort" \notin Prebuilt /\ "sarkar_sort" \notin Searches
    BY DEF Prebuilt, Searches
  <2> QED BY <1>1, <1>2, <2>1 DEF BaselineFound, SameWork
<1> QED BY <1>2, <1>8, <1>16, <1>17 DEF WorkInv

\* The Vec baselines: each does what the index does in the same place.
LEMMA VecNextHolds ==
    ASSUME WorkInv, VecNext
    PROVE  WorkInv'
<1>1. /\ UNCHANGED vars /\ slice' = slice /\ workload' = workload
      /\ \E w \in {"vec_update", "vec_tombstone", "vec_sort"} : Calling(w)
  BY DEF VecNext
<1>2. PICK w \in {"vec_update", "vec_tombstone", "vec_sort"} : Calling(w)
  BY <1>1
<1>3. /\ workload = w /\ step \in 1 .. Calls /\ step \in Nat \ {0}
      /\ step' = step + 1 /\ slice \in Slices /\ slice' \in Slices /\ Container' = Container
      /\ workload' \in OnIndex \cup DOMAIN Container' /\ step' \in 0 .. Calls' + 1
  BY <1>1, <1>2, CallFrame
<1>4. IInv /\ IndexFound /\ BaselineFound /\ SameWork
  BY DEF WorkInv
<1>5. IInv' /\ data' = data /\ LiveIds' = LiveIds
  BY <1>1, <1>4, IndexKept
<1>6. workload \notin OnIndex /\ workload \notin Prebuilt /\ workload \notin Searches
  BY <1>2, <1>3 DEF OnIndex, Prebuilt, Searches
<1>7. "sarkar_sort" \in OnIndex
  BY DEF OnIndex
<1>8. IndexFound'
  BY <1>1, <1>6, <1>7 DEF IndexFound
<1>9. step > 0 /\ step' > 0 /\ step' # 1
  BY <1>3
<1>10. CASE workload = "vec_sort"
  <2>1. step = 1 /\ step' = 2
    BY <1>3, <1>10, CallsAre
  <2>2. baseline = slice
    BY <1>4, <1>10, <2>1 DEF BaselineFound
  <2>3. baseline' = Ascending(baseline)
    BY <1>10 DEF VecNext, Calling
  <2>4. Ascending(slice)' = Ascending(slice)
    BY <1>1 DEF Ascending, AtMost
  <2>5. BaselineFound' /\ SameWork'
    BY <1>1, <1>6, <1>9, <1>10, <2>2, <2>3, <2>4 DEF BaselineFound, SameWork
  <2> QED BY <1>3, <1>5, <1>8, <2>5 DEF WorkInv
<1>11. CASE workload \in {"vec_update", "vec_tombstone"}
  <2>1. PICK id : id = Updates[step]
    OBVIOUS
  <2>2. id \in DOMAIN slice /\ id \notin Done
    <3>1. step \in 1 .. Len(Updates)
      BY <1>3, <1>11, CallsAre
    <3> QED BY <1>3, <2>1, <3>1, IdIsNew
  <2>3. DOMAIN baseline = DOMAIN slice
    BY <1>4, <1>9, <1>11 DEF BaselineFound
  <2>4. Done' = Done \cup {id}
    BY <1>1, <1>3, <2>1, DoneNext
  <2>5. CASE workload = "vec_update"
    <3>1. baseline' = [baseline EXCEPT ![id] = Flipped(baseline[id])]
      BY <2>1, <2>5 DEF VecNext, Calling
    <3>2. baseline = Updated
      BY <1>4, <1>9, <2>5 DEF SameWork
    <3>3. baseline[id] = slice[id]
      BY <2>2, <3>2 DEF Updated
    <3>4. baseline' = [Updated EXCEPT ![id] = Flipped(slice[id])]
      BY <3>1, <3>2, <3>3
    <3>5. Updated' = [Updated EXCEPT ![id] = Flipped(slice[id])]
      BY <1>1, <2>2, <2>4 DEF Updated
    <3>6. DOMAIN baseline' = DOMAIN slice'
      BY <1>1, <2>3, <3>1
    <3>7. BaselineFound' /\ SameWork'
      BY <1>1, <1>6, <1>9, <2>5, <3>4, <3>5, <3>6 DEF BaselineFound, SameWork
    <3> QED BY <1>3, <1>5, <1>8, <3>7 DEF WorkInv
  <2>6. CASE workload = "vec_tombstone"
    <3>1. baseline' = [baseline EXCEPT ![id] = 0]
      BY <2>1, <2>6 DEF VecNext, Calling
    <3>2. \A i \in DOMAIN slice : baseline[i] = IF i \in Done THEN 0 ELSE slice[i]
      BY <1>4, <1>9, <2>6 DEF SameWork
    <3>3. \A i \in DOMAIN slice' : baseline'[i] = IF i \in Done' THEN 0 ELSE slice'[i]
      BY <1>1, <2>2, <2>3, <2>4, <3>1, <3>2
    <3>4. DOMAIN baseline' = DOMAIN slice'
      BY <1>1, <2>3, <3>1
    <3>5. BaselineFound' /\ SameWork'
      BY <1>1, <1>6, <1>9, <2>6, <3>3, <3>4 DEF BaselineFound, SameWork
    <3> QED BY <1>3, <1>5, <1>8, <3>5 DEF WorkInv
  <2> QED BY <1>11, <2>5, <2>6
<1> QED BY <1>2, <1>3, <1>10, <1>11

\* What was built before the runs stays as it is between them.
LEMMA EndRunHolds ==
    ASSUME WorkInv, EndRun
    PROVE  WorkInv'
<1>1. /\ step' = 0 /\ UNCHANGED vars
      /\ slice' = slice /\ workload' = workload /\ baseline' = baseline
  BY DEF EndRun
<1>2. /\ IInv /\ IndexFound /\ BaselineFound /\ slice \in Slices
      /\ workload \in OnIndex \cup DOMAIN Container
  BY DEF WorkInv
<1>3. IInv' /\ data' = data /\ LiveIds' = LiveIds
  BY <1>1, <1>2, IndexKept
<1>4. Container' = Container
  BY <1>1 DEF Container, SortedCopy
<1>5. IndexFound' /\ BaselineFound' /\ SameWork'
  BY <1>1, <1>2, <1>3, <1>4 DEF IndexFound, BaselineFound, SameWork
<1>6. step' \in 0 .. Calls' + 1
  <2>1. Calls' = Calls
    BY <1>1 DEF Calls, TargetPlaces, Updates
  <2>2. Calls \in Nat
    BY <1>2, PlacesFit DEF Calls
  <2> QED BY <1>1, <2>1, <2>2
<1> QED BY <1>1, <1>2, <1>3, <1>4, <1>5, <1>6 DEF WorkInv

LEMMA WorkInvStutters ==
    ASSUME WorkInv, UNCHANGED workload_vars
    PROVE  WorkInv'
<1>1. /\ UNCHANGED vars /\ slice' = slice /\ workload' = workload /\ step' = step
      /\ found' = found /\ baseline' = baseline
  BY DEF workload_vars, bench_vars
<1>2. /\ IInv /\ IndexFound /\ BaselineFound /\ SameWork
  BY DEF WorkInv
<1>3. /\ IInv' /\ data' = data /\ LiveIds' = LiveIds /\ reply' = reply /\ live_len' = live_len
  BY <1>1, <1>2, IndexKept
<1>4. /\ Container' = Container /\ Updated' = Updated /\ Done' = Done /\ Calls' = Calls
      /\ Ascending(slice)' = Ascending(slice)
  BY <1>1 DEF Container, SortedCopy, Updated, Done, Updates, Calls, TargetPlaces, Ascending,
             AtMost
<1>5. IndexFound'
  BY <1>1, <1>2, <1>3, <1>4 DEF IndexFound
<1>6. BaselineFound' /\ SameWork'
  BY <1>1, <1>2, <1>4 DEF BaselineFound, SameWork
<1> QED BY <1>1, <1>3, <1>4, <1>5, <1>6 DEF WorkInv

LEMMA WorkInvKept == WorkInv /\ [WorkloadNext]_workload_vars => WorkInv'
<1> SUFFICES ASSUME WorkInv, [WorkloadNext]_workload_vars
             PROVE  WorkInv'
  OBVIOUS
<1>1. BeginRun \/ Search \/ UpdateNext \/ RemoveNext \/ SortAll \/ VecNext \/ EndRun
      \/ UNCHANGED workload_vars
  BY DEF WorkloadNext
<1> QED BY <1>1, BeginRunHolds, SearchHolds, UpdateNextHolds, RemoveNextHolds, SortAllHolds,
           VecNextHolds, EndRunHolds, WorkInvStutters

-------------------------------------------------------------------------------
(* What it means for the rows of the tables.                               *)

\* Every run measures the work its row names: it finds the index as the data
\* makes it, with none of the updates, removals or sorts of an earlier run;
\* update_at and remove_at refuse none of its calls; and sarkar_sort and
\* sorted_snapshot sort all of the data.
THEOREM RunsAlone == WorkloadSpec => []EachRunAlone
<1>1. WorkInv => EachRunAlone
  <2> SUFFICES ASSUME WorkInv
               PROVE  EachRunAlone
    OBVIOUS
  <2>1. IInv /\ IndexFound
    BY DEF WorkInv
  <2>2. ASSUME (workload = "build_snapshot" /\ step > 0) \/ workload = "sorted_snapshot"
        PROVE  SortedSnapshot = Ascending(slice)
    <3>1. data = slice /\ LiveIds = DOMAIN slice
      <4>1. "build_snapshot" \in OnIndex \ {"sarkar_sort"}
            /\ "sorted_snapshot" \in Prebuilt \cap OnIndex /\ DOMAIN slice \ {} = DOMAIN slice
        BY DEF OnIndex, Prebuilt
      <4> QED BY <2>1, <2>2, <4>1 DEF IndexFound
    <3> QED BY <2>1, <3>1, SnapshotOfAll
  <2> QED BY <2>1, <2>2 DEF IndexFound, EachRunAlone
<1>2. QED
  BY <1>1, WorkInvStarts, WorkInvKept, PTL DEF WorkloadSpec

\* The rows of a table compare the same work: every lookup of a run succeeds
\* whatever it looks in, and the Vec of a baseline ends a run as the index does.
THEOREM RowsComparable == WorkloadSpec => []SameWork
<1>1. WorkInv => SameWork
  BY DEF WorkInv
<1>2. QED
  BY <1>1, WorkInvStarts, WorkInvKept, PTL DEF WorkloadSpec
=============================================================================
