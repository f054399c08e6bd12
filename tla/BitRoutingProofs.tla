--------------------------- MODULE BitRoutingProofs ---------------------------
(***************************************************************************)
(* For words of every size: the width of a value is a bucket number, the   *)
(* buckets are exactly the documented ranges, and they are ordered.        *)
(***************************************************************************)
EXTENDS BitRouting, FiniteSetTheorems, FunctionTheorems, TLAPS

(***************************************************************************)
(* Powers of two, counted as the subsets of an interval: they are naturals *)
(* and strictly increasing.                                                *)
(***************************************************************************)
LEMMA PowerCounts ==
    ASSUME NEW k \in Nat
    PROVE  /\ IsFiniteSet(SUBSET (1 .. k))
           /\ Cardinality(SUBSET (1 .. k)) = PowerOfTwo(k)
           /\ PowerOfTwo(k) \in Nat
<1>1. IsFiniteSet(1 .. k) /\ Cardinality(1 .. k) = k
  BY FS_Interval
<1>2. IsFiniteSet(SUBSET (1 .. k)) /\ Cardinality(SUBSET (1 .. k)) = PowerOfTwo(k)
  BY <1>1, FS_SUBSET DEF PowerOfTwo
<1>3. QED
  BY <1>2, FS_CardinalityType

LEMMA PowerType == \A k \in Nat : PowerOfTwo(k) \in Nat
BY PowerCounts

LEMMA PowerIncreases ==
    \A j, k \in Nat : j < k => PowerOfTwo(j) < PowerOfTwo(k)
<1> SUFFICES ASSUME NEW j \in Nat, NEW k \in Nat, j < k
             PROVE  PowerOfTwo(j) < PowerOfTwo(k)
  OBVIOUS
<1> DEFINE fewer == SUBSET (1 .. j)
           more  == SUBSET (1 .. k)
<1>1. fewer \in SUBSET more
  OBVIOUS
<1>2. fewer # more
  <2>1. 1 .. k \in more
    OBVIOUS
  <2>2. k \in 1 .. k /\ k \notin 1 .. j
    OBVIOUS
  <2>3. 1 .. k \notin fewer
    BY <2>2
  <2>4. QED
    BY <2>1, <2>3
<1>3. IsFiniteSet(more) /\ Cardinality(more) = PowerOfTwo(k)
  BY PowerCounts
<1>4. Cardinality(fewer) = PowerOfTwo(j)
  BY PowerCounts
<1> HIDE DEF fewer, more
<1>5. Cardinality(fewer) <= Cardinality(more) /\ Cardinality(more) # Cardinality(fewer)
  BY <1>1, <1>2, <1>3, FS_Subset
<1>6. QED
  BY <1>3, <1>4, <1>5, PowerType

\* Twice as many subsets with one more element, twice the power of two.
LEMMA PowerDoubles ==
    ASSUME NEW k \in Nat
    PROVE  PowerOfTwo(k + 1) = PowerOfTwo(k) + PowerOfTwo(k)
<1> DEFINE without == SUBSET (1 .. k)
           all == SUBSET (1 .. k + 1)
           with == all \ without
           added == [s \in without |-> s \cup {k + 1}]
<1>1. added \in Bijection(without, with)
  <2>1. k + 1 \notin 1 .. k /\ 1 .. k + 1 = (1 .. k) \cup {k + 1}
    OBVIOUS
  <2>2. \A s \in without : s \cup {k + 1} \in with
    BY <2>1
  <2>3. added \in [without -> with]
    BY <2>2
  <2>4. \A s, t \in without : added[s] = added[t] => s = t
    BY <2>1
  <2>5. ASSUME NEW t \in with
        PROVE  \E s \in without : added[s] = t
    <3>1. k + 1 \in t /\ t \ {k + 1} \in without
      BY <2>1
    <3>2. added[t \ {k + 1}] = t
      BY <3>1
    <3> QED BY <3>1, <3>2
  <2> QED BY <2>3, <2>4, <2>5, Fun_IsBij
<1>2. /\ IsFiniteSet(without) /\ Cardinality(without) = PowerOfTwo(k)
      /\ IsFiniteSet(all) /\ Cardinality(all) = PowerOfTwo(k + 1)
      /\ PowerOfTwo(k) \in Nat
  BY PowerCounts
<1>3. without \subseteq all
  OBVIOUS
<1> HIDE DEF without, all, added
<1>4. IsFiniteSet(with) /\ Cardinality(with) = Cardinality(without)
  <2>1. ExistsBijection(without, with)
    BY <1>1, Fun_ExistsBij
  <2> QED BY <2>1, <1>2, FS_Bijection
<1>5. without \cup with = all /\ without \cap with = {}
  BY <1>3
<1>6. Cardinality(all) = Cardinality(without) + Cardinality(with) - Cardinality({})
  BY <1>2, <1>4, <1>5, FS_Union
<1> QED
  BY <1>2, <1>4, <1>6, FS_EmptySet

\* A non-empty set of naturals has a least element.
LEMMA LeastNat ==
    ASSUME NEW S \in SUBSET Nat, S # {}
    PROVE  \E n \in S : \A m \in S : n <= m
<1>1. \E x \in S : \A y \in S : ~ (<<y, x>> \in OpToRel(<, Nat))
  BY NatLessThanWellFounded, WFMin, Zenon
<1>2. ASSUME NEW x \in S, NEW y \in S, ~ (<<y, x>> \in OpToRel(<, Nat))
      PROVE  x <= y
  BY <1>2 DEF OpToRel
<1>3. QED
  BY <1>1, <1>2

\* A set another one can be counted into is no larger.
LEMMA CountedInto ==
    ASSUME NEW A, NEW B, IsFiniteSet(B), NEW f, \A a \in A : f[a] \in B,
           \A a, c \in A : f[a] = f[c] => a = c
    PROVE  IsFiniteSet(A) /\ Cardinality(A) <= Cardinality(B)
<1> DEFINE g == [a \in A |-> f[a]]
<1>1. g \in [A -> B] /\ \A a, c \in A : g[a] = g[c] => a = c
  OBVIOUS
<1> HIDE DEF g
<1>2. g \in Injection(A, B)
  BY <1>1 DEF Injection, IsInjective
<1>3. QED
  BY <1>2, FS_Injection

LEMMA PlacesCount ==
    ASSUME NEW a \in Int, NEW b \in Int, a <= b + 1
    PROVE  IsFiniteSet(a .. b) /\ Cardinality(a .. b) = b + 1 - a
<1>1. IsFiniteSet(a .. b) /\ Cardinality(a .. b) = IF a > b THEN 0 ELSE b - a + 1
  BY FS_Interval
<1>2. QED
  BY <1>1

\* The width of a natural number, whether or not it fits the word, is one of
\* the BITS + 1 bucket numbers.
LEMMA BitWidthType ==
    ASSUME NEW value
    PROVE  BitWidth(value) \in 0 .. BITS
<1> DEFINE above == {k \in 0 .. BITS - 1 : value < PowerOfTwo(k)}
<1>1. IsFiniteSet(0 .. BITS - 1) /\ Cardinality(0 .. BITS - 1) = BITS
  BY FS_Interval, BITSAssumption
<1>2. above \in SUBSET (0 .. BITS - 1)
  OBVIOUS
<1>3. Cardinality(above) \in Nat /\ Cardinality(above) <= BITS
  BY <1>1, <1>2, FS_Subset, FS_CardinalityType
<1>4. QED
  BY <1>3, BITSAssumption DEF BitWidth, LeadingZeros

(***************************************************************************)
(* The width of a value is the least exponent of the powers of two that    *)
(* exceed it: the powers that do form an interval up to the top of the     *)
(* word, which LeadingZeros measures.                                      *)
(***************************************************************************)
LEMMA BitWidthLeast ==
    ASSUME NEW value \in U64
    PROVE  /\ BitWidth(value) \in 0 .. BITS
           /\ value < PowerOfTwo(BitWidth(value))
           /\ \A k \in 0 .. BITS : k < BitWidth(value) => PowerOfTwo(k) <= value
<1> DEFINE exceeding == {k \in 0 .. BITS : value < PowerOfTwo(k)}
<1>1. value \in Nat /\ BITS \in exceeding
  BY BITSAssumption, PowerType DEF U64
<1>2. PICK least \in exceeding : \A k \in exceeding : least <= k
  <2>1. exceeding \in SUBSET Nat /\ exceeding # {}
    BY <1>1
  <2> HIDE DEF exceeding
  <2>2. QED
    BY <2>1, LeastNat
<1>3. \A k \in 0 .. BITS : value < PowerOfTwo(k) <=> least <= k
  <2> SUFFICES ASSUME NEW k \in 0 .. BITS
               PROVE  value < PowerOfTwo(k) <=> least <= k
    OBVIOUS
  <2>1. value < PowerOfTwo(k) => least <= k
    BY <1>2
  <2>2. least = k => value < PowerOfTwo(k)
    BY <1>2
  <2>3. least < k => value < PowerOfTwo(k)
    <3>1. HAVE least < k
    <3>2. least \in Nat /\ k \in Nat
      BY <1>2
    <3>3. PowerOfTwo(least) < PowerOfTwo(k) /\ PowerOfTwo(least) \in Nat /\ PowerOfTwo(k) \in Nat
      BY <3>1, <3>2, PowerIncreases, PowerType
    <3>4. value < PowerOfTwo(least)
      BY <1>2
    <3>5. QED
      BY <3>3, <3>4, <1>1
  <2>4. QED
    BY <2>1, <2>2, <2>3, <1>2
<1>4. {k \in 0 .. BITS - 1 : value < PowerOfTwo(k)} = least .. BITS - 1
  BY <1>2, <1>3, BITSAssumption
<1>5. Cardinality(least .. BITS - 1) = BITS - least
  BY <1>2, FS_Interval, BITSAssumption
<1>6. BitWidth(value) = least
  <2>1. LeadingZeros(value) = BITS - least
    BY <1>4, <1>5 DEF LeadingZeros
  <2>2. least \in 0 .. BITS
    BY <1>2
  <2>3. QED
    BY <2>1, <2>2, BITSAssumption DEF BitWidth
<1>7. \A k \in 0 .. BITS : k < least => PowerOfTwo(k) <= value
  <2> SUFFICES ASSUME NEW k \in 0 .. BITS, k < least
               PROVE  PowerOfTwo(k) <= value
    OBVIOUS
  <2>1. ~ (value < PowerOfTwo(k))
    BY <1>2, <1>3
  <2>2. PowerOfTwo(k) \in Nat
    BY PowerType
  <2>3. QED
    BY <2>1, <2>2, <1>1
<1>8. QED
  BY <1>2, <1>6, <1>7

(***************************************************************************)
(* bit_width, docs/how-it-works.md: bucket 0 holds exactly the value zero  *)
(* and bucket w > 0 exactly the values from 2^(w-1) to 2^w - 1.            *)
(***************************************************************************)
THEOREM RangeOfBucket ==
    ASSUME NEW value \in U64, NEW width \in 0 .. BITS
    PROVE  value \in BucketRange(width) <=> BitWidth(value) = width
<1>1. value \in Nat
  BY DEF U64
<1>2. /\ BitWidth(value) \in 0 .. BITS
      /\ value < PowerOfTwo(BitWidth(value))
      /\ \A k \in 0 .. BITS : k < BitWidth(value) => PowerOfTwo(k) <= value
  BY BitWidthLeast
<1>3. PowerOfTwo(0) = 1
  <2>1. SUBSET (1 .. 0) = {{}}
    OBVIOUS
  <2>2. Cardinality({{}}) = 1
    BY FS_Singleton
  <2>3. QED
    BY <2>1, <2>2, PowerCounts
<1>4. CASE width = 0
  <2>1. BitWidth(value) = 0 => value = 0
    BY <1>1, <1>2, <1>3
  <2>2. value = 0 => BitWidth(value) = 0
    <3>1. 0 < BitWidth(value) => PowerOfTwo(0) <= value
      BY <1>2, BITSAssumption
    <3>2. QED
      BY <3>1, <1>2, <1>3
  <2>3. QED
    BY <1>4, <2>1, <2>2 DEF BucketRange
<1>5. CASE width # 0
  <2>1. width - 1 \in Nat /\ width \in Nat
    BY <1>5
  <2>2. PowerOfTwo(width - 1) \in Nat /\ PowerOfTwo(width) \in Nat
    BY <2>1, PowerType
  <2>3. BucketRange(width) = PowerOfTwo(width - 1) .. PowerOfTwo(width) - 1
    BY <1>5 DEF BucketRange
  <2>4. BitWidth(value) = width => value \in BucketRange(width)
    <3>1. HAVE BitWidth(value) = width
    <3>2. value < PowerOfTwo(width)
      BY <3>1, <1>2
    <3>3. PowerOfTwo(width - 1) <= value
      <4>1. width - 1 \in 0 .. BITS /\ width - 1 < BitWidth(value)
        BY <3>1, <2>1, BITSAssumption
      <4>2. QED
        BY <4>1, <1>2
    <3>4. QED
      BY <3>2, <3>3, <2>2, <2>3, <1>1
  <2>5. value \in BucketRange(width) => BitWidth(value) = width
    <3>1. HAVE value \in BucketRange(width)
    <3>2. PowerOfTwo(width - 1) <= value /\ value < PowerOfTwo(width)
      BY <3>1, <2>2, <2>3, <1>1
    <3>3. ~ (width < BitWidth(value))
      <4>1. width < BitWidth(value) => PowerOfTwo(width) <= value
        BY <1>2
      <4>2. QED
        BY <4>1, <3>2, <2>2, <1>1
    <3>4. ~ (BitWidth(value) < width)
      <4>1. SUFFICES ASSUME BitWidth(value) < width
                     PROVE  FALSE
        OBVIOUS
      <4>2. BitWidth(value) \in Nat
        BY <1>2
      <4>3. PowerOfTwo(BitWidth(value)) <= PowerOfTwo(width - 1)
        <5>1. CASE BitWidth(value) = width - 1
          BY <5>1, <2>2
        <5>2. CASE BitWidth(value) < width - 1
          BY <5>2, <4>2, <2>1, <2>2, PowerIncreases, PowerType
        <5>3. QED
          BY <5>1, <5>2, <4>1, <4>2, <2>1
      <4>4. PowerOfTwo(BitWidth(value)) \in Nat
        BY <4>2, PowerType
      <4>5. QED
        BY <4>3, <4>4, <3>2, <1>1, <1>2, <2>2
    <3>5. QED
      BY <3>3, <3>4, <1>2
  <2>6. QED
    BY <2>4, <2>5
<1>6. QED
  BY <1>4, <1>5

(***************************************************************************)
(* snapshot_sort.rs: every value in a bucket is smaller than every value   *)
(* in a wider one, so buckets can be sorted one by one.                    *)
(***************************************************************************)
THEOREM WiderIsGreater ==
    ASSUME NEW low \in U64, NEW high \in U64, BitWidth(low) < BitWidth(high)
    PROVE  low < high
<1>1. BitWidth(low) \in 0 .. BITS /\ low < PowerOfTwo(BitWidth(low))
  BY BitWidthLeast
<1>2. PowerOfTwo(BitWidth(low)) <= high
  BY <1>1, BitWidthLeast
<1>3. PowerOfTwo(BitWidth(low)) \in Nat
  BY <1>1, PowerType
<1>4. QED
  BY <1>1, <1>2, <1>3 DEF U64
===============================================================================
