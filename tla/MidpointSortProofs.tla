-------------------------- MODULE MidpointSortProofs --------------------------
(***************************************************************************)
(* For every word size, bucket, cutoff and budget: what is out of order is *)
(* pending in an activation, a partition halves the range of values, the   *)
(* recursion goes on with the smaller side, the radix sort takes over only *)
(* in wide buckets, and the work counted has a bound.                      *)
(***************************************************************************)
EXTENDS MidpointSort, BitRoutingProofs

\* A non-empty, bounded set of naturals has a least and a greatest element.
LEMMA MinMaxOf ==
    ASSUME NEW n \in Nat, NEW S \in SUBSET (0 .. n), S # {}
    PROVE  /\ Min(S) \in S /\ \A x \in S : Min(S) <= x
           /\ Max(S) \in S /\ \A x \in S : x <= Max(S)
<1>1. \E x \in S : \A y \in S : x <= y
  <2>1. S \in SUBSET Nat
    OBVIOUS
  <2>2. QED
    BY <2>1, LeastNat
<1>2. \E x \in S : \A y \in S : x >= y
  <2> DEFINE gaps == {n - x : x \in S}
  <2>1. gaps \in SUBSET Nat /\ gaps # {}
    <3>1. \A x \in S : n - x \in Nat
      OBVIOUS
    <3>2. PICK x \in S : TRUE
      OBVIOUS
    <3>3. n - x \in gaps
      OBVIOUS
    <3>4. QED
      BY <3>1, <3>3
  <2>2. PICK gap \in gaps : \A g \in gaps : gap <= g
    <3> HIDE DEF gaps
    <3>1. QED
      BY <2>1, LeastNat
  <2>3. PICK x \in S : gap = n - x
    BY <2>2
  <2>4. \A y \in S : n - x <= n - y
    BY <2>2, <2>3
  <2>5. \A y \in S : x >= y
    BY <2>4
  <2>6. QED
    BY <2>5
<1>3. Min(S) \in S /\ \A x \in S : Min(S) <= x
  BY <1>1 DEF Min
<1>4. Max(S) \in S /\ \A x \in S : Max(S) >= x
  BY <1>2 DEF Max
<1>5. QED
  BY <1>3, <1>4

\* closest_value: there is one, and it is what the loop over the candidates
\* ends with.
LEMMA ClosestExists ==
    ASSUME NEW S \in SUBSET Nat, S # {}, NEW midpoint \in Nat
    PROVE  /\ Closest(S, midpoint) \in S
           /\ \A u \in S : \/ AbsDiff(Closest(S, midpoint), midpoint) < AbsDiff(u, midpoint)
                           \/ /\ AbsDiff(Closest(S, midpoint), midpoint) = AbsDiff(u, midpoint)
                              /\ Closest(S, midpoint) <= u
<1> DEFINE distances == {AbsDiff(u, midpoint) : u \in S}
<1>1. \A u \in S : AbsDiff(u, midpoint) \in Nat
  BY DEF AbsDiff
<1>2. distances \in SUBSET Nat /\ distances # {}
  BY <1>1
<1>3. PICK least \in distances : \A e \in distances : least <= e
  <2> HIDE DEF distances
  <2>1. QED
    BY <1>2, LeastNat
<1> DEFINE nearest == {u \in S : AbsDiff(u, midpoint) = least}
<1>4. nearest \in SUBSET Nat /\ nearest # {}
  BY <1>3
<1>5. PICK v \in nearest : \A u \in nearest : v <= u
  <2> HIDE DEF nearest
  <2>1. QED
    BY <1>4, LeastNat
<1>6. v \in S /\ AbsDiff(v, midpoint) = least /\ least \in Nat
  BY <1>1, <1>3, <1>5
<1>7. \A u \in S : \/ AbsDiff(v, midpoint) < AbsDiff(u, midpoint)
                   \/ AbsDiff(v, midpoint) = AbsDiff(u, midpoint) /\ v <= u
  <2> SUFFICES ASSUME NEW u \in S
               PROVE  \/ AbsDiff(v, midpoint) < AbsDiff(u, midpoint)
                      \/ AbsDiff(v, midpoint) = AbsDiff(u, midpoint) /\ v <= u
    OBVIOUS
  <2>1. AbsDiff(u, midpoint) \in Nat /\ least <= AbsDiff(u, midpoint)
    BY <1>1, <1>3
  <2>2. CASE AbsDiff(u, midpoint) = least
    BY <2>2, <1>5, <1>6
  <2>3. CASE AbsDiff(u, midpoint) # least
    BY <2>1, <2>3, <1>6
  <2>4. QED
    BY <2>2, <2>3
<1>8. QED
  BY <1>6, <1>7 DEF Closest

\* midpoint_sort: the pivot is a value of the region, so that every partition
\* takes at least one element out, and the values left on either side of it
\* span at most half the range.
THEOREM PivotHalvesRange ==
    ASSUME NEW n \in Nat, NEW S \in SUBSET (0 .. n), S # {}
    PROVE  /\ Pivot(S) \in S
           /\ \A u \in S : u < Pivot(S) => 2 * (u - Min(S)) <= Max(S) - Min(S)
           /\ \A u \in S : u > Pivot(S) => 2 * (Max(S) - u) <= Max(S) - Min(S)
<1>1. PICK lowest, highest, middle, chosen :
         /\ lowest = Min(S) /\ highest = Max(S)
         /\ middle = Midpoint(lowest, highest) /\ chosen = Closest(S, middle)
  OBVIOUS
<1>2. /\ lowest \in Nat /\ highest \in Nat /\ lowest <= highest
      /\ \A x \in S : x \in Nat /\ lowest <= x /\ x <= highest
  <2>1. /\ lowest \in S /\ \A x \in S : lowest <= x
        /\ highest \in S /\ \A x \in S : x <= highest
    <3>1. /\ Min(S) \in S /\ \A x \in S : Min(S) <= x
          /\ Max(S) \in S /\ \A x \in S : x <= Max(S)
      BY MinMaxOf
    <3>2. QED
      BY <1>1, <3>1
  <2>2. QED
    BY <2>1
<1>3. middle \in Nat /\ middle = lowest + (highest - lowest) \div 2
  BY <1>1, <1>2 DEF Midpoint
<1>4. /\ chosen \in S
      /\ \A u \in S : \/ AbsDiff(chosen, middle) < AbsDiff(u, middle)
                      \/ AbsDiff(chosen, middle) = AbsDiff(u, middle) /\ chosen <= u
  BY <1>1, <1>2, <1>3, ClosestExists
<1>5. ASSUME NEW u \in S, u < chosen
      PROVE  2 * (u - lowest) <= highest - lowest
  <2>1. u <= middle
    BY <1>2, <1>3, <1>4, <1>5 DEF AbsDiff
  <2>2. QED
    BY <1>2, <1>3, <2>1
<1>6. ASSUME NEW u \in S, u > chosen
      PROVE  2 * (highest - u) <= highest - lowest
  <2>1. u > middle
    BY <1>2, <1>3, <1>4, <1>6 DEF AbsDiff
  <2>2. QED
    BY <1>2, <1>3, <2>1
<1>7. Pivot(S) = chosen
  BY <1>1 DEF Pivot
<1>8. QED
  BY <1>1, <1>4, <1>5, <1>6, <1>7

-------------------------------------------------------------------------------
(* The invariant.                                                          *)

Places == 1 .. Len(values)
Offsets(call) == call.first .. call.last

Activation == [kind : {"midpoint", "radix"}, first : Nat \ {0}, last : Nat, left : Nat]

\* A region of the bucket, which may be empty.
Placed(call) ==
    call \in Activation /\ call.first <= call.last + 1 /\ call.last <= Len(values)

TypeInv ==
    /\ values \in Seq(U64)
    /\ indices \in [Places -> Places]
    /\ \A id \in Places : \E k \in Places : indices[k] = id
    /\ calls \in Seq(Activation)
    /\ \A c \in DOMAIN calls : Placed(calls[c])
    /\ pc \in {"loop", "partition", "insertion", "radix"}
    /\ pc # "loop" =>
          calls # <<>> /\ Top.kind = IF pc = "radix" THEN "radix" ELSE "midpoint"
    /\ pc = "radix" => Top.left > 0
    /\ pivot \in Int /\ lower \in Int /\ scan \in Int /\ upper \in Int

\* No two activations have an offset in common.
Apart == \A c, d \in DOMAIN calls : c # d => Offsets(calls[c]) \cap Offsets(calls[d]) = {}

\* Whatever is out of order is within the region of one activation.
Pending ==
    \A i, j \in Places : i < j /\ Value(i) > Value(j) =>
        \E c \in DOMAIN calls : i \in Offsets(calls[c]) /\ j \in Offsets(calls[c])

\* The values of a radix activation differ in the bits it has still to look at
\* only.
Agrees(call) ==
    call.kind = "radix" =>
        \A i, j \in Offsets(call) :
            Value(i) \div PowerOfTwo(call.left) = Value(j) \div PowerOfTwo(call.left)

AgreeInv == \A c \in DOMAIN calls : Agrees(calls[c])

WholeRange == Max(Range(values)) - Min(Range(values))

SameSide(i, j, p) == (Value(i) < p /\ Value(j) < p) \/ (Value(i) > p /\ Value(j) > p)

\* The range of a region, while it is being partitioned that of either side, has
\* been halved by each partition made.
Halved(call, split, p) ==
    call.kind = "midpoint" =>
        /\ call.left <= MIDPOINT_PARTITION_BUDGET
        /\ \A i, j \in Offsets(call) : (split => SameSide(i, j, p)) =>
              (Value(i) - Value(j)) * PowerOfTwo(MIDPOINT_PARTITION_BUDGET - call.left)
                <= WholeRange

HalvedInv ==
    \A c \in DOMAIN calls : Halved(calls[c], pc = "partition" /\ c = Len(calls), pivot)

\* partition_three_way: less, equal, not looked at yet, greater.
PartitionLoop ==
    /\ Top.first <= lower /\ lower <= scan /\ scan <= upper /\ upper <= Top.last + 1
    /\ \A k \in Top.first .. lower - 1 : Value(k) < pivot
    /\ \A k \in lower .. scan - 1 : Value(k) = pivot
    /\ \A k \in upper .. Top.last : Value(k) > pivot

\* insertion_sort: what is before `scan` ascends.
InsertionLoop ==
    /\ Top.first < scan
    /\ \A i, j \in Top.first .. scan - 1 : i < j => Value(i) <= Value(j)

\* msd_radix_sort: zero bits, not looked at yet, others.
RadixLoop ==
    /\ Top.first <= lower /\ lower <= upper /\ upper <= Top.last + 1
    /\ \A k \in Top.first .. lower - 1 : BitAt(k) = 0
    /\ \A k \in upper .. Top.last : BitAt(k) # 0

LoopInv ==
    /\ pc = "partition" => PartitionLoop
    /\ pc = "insertion" => InsertionLoop
    /\ pc = "radix" => RadixLoop

MidpointInv ==
    TypeInv /\ Apart /\ Pending /\ AgreeInv /\ HalvedInv /\ LoopInv

-------------------------------------------------------------------------------
(* Steps within the region of the innermost activation.                    *)

LEMMA ValueType ==
    ASSUME TypeInv, NEW k \in Places
    PROVE  Value(k) \in U64 /\ Value(k) \in Nat
<1>1. indices[k] \in 1 .. Len(values)
  BY DEF TypeInv, Places
<1>2. values[indices[k]] \in U64
  BY <1>1 DEF TypeInv
<1>3. U64 \subseteq Nat
  BY PowerType DEF U64
<1>4. QED
  BY <1>2, <1>3 DEF Value

LEMMA TopType ==
    ASSUME TypeInv, calls # <<>>
    PROVE  /\ Len(calls) \in Nat \ {0} /\ Len(calls) \in DOMAIN calls
           /\ DOMAIN calls = 1 .. Len(calls)
           /\ Top \in Activation /\ Placed(Top)
           /\ Offsets(Top) \subseteq Places
<1>1. calls \in Seq(Activation) /\ Len(calls) \in Nat \ {0}
  BY DEF TypeInv
<1>2. DOMAIN calls = 1 .. Len(calls) /\ Len(calls) \in DOMAIN calls
  BY <1>1
<1>3. Placed(Top)
  BY <1>2 DEF TypeInv, Top
<1>4. Offsets(Top) \subseteq Places
  <2>1. Len(values) \in Nat
    BY DEF TypeInv
  <2>2. QED
    BY <1>3, <2>1 DEF Placed, Activation, Offsets, Places
<1>5. QED
  BY <1>1, <1>2, <1>3, <1>4 DEF Placed

\* The innermost activation rearranges its region.
Rearranges ==
    /\ calls # <<>> /\ UNCHANGED <<values, calls, pc, pivot>>
    /\ indices' \in [Places -> Places]
    /\ \A id \in Places : \E k \in Places : indices'[k] = id
    /\ \A k \in Places : k \notin Offsets(Top) => indices'[k] = indices[k]
    /\ \A k \in Offsets(Top) : \E q \in Offsets(Top) : indices'[k] = indices[q]
    /\ lower' \in Int /\ scan' \in Int /\ upper' \in Int

\* What this leaves the values of the other regions, and of its own.
LEMMA RearrangedValues ==
    ASSUME TypeInv, Rearranges
    PROVE  /\ \A k \in Places : k \notin Offsets(Top) => Value(k)' = Value(k)
           /\ \A k \in Offsets(Top) : \E q \in Offsets(Top) : Value(k)' = Value(q)
  BY DEF Rearranges, Value

LEMMA RearrangedType ==
    ASSUME TypeInv, Rearranges
    PROVE  TypeInv' /\ Places' = Places
<1>1. Places' = Places
  BY DEF Rearranges, Places
<1>2. \A c \in DOMAIN calls : Placed(calls[c])' <=> Placed(calls[c])
  BY DEF Rearranges, Placed
<1>3. QED
  BY <1>1, <1>2 DEF TypeInv, Rearranges, Top

\* What is out of order afterwards was so before, within the same region.
LEMMA RearrangedPending ==
    ASSUME TypeInv, Apart, Pending, Rearranges
    PROVE  Apart' /\ Pending'
<1>1. Apart'
  BY DEF Apart, Rearranges, Offsets
<1>2. Pending'
  <2>1. Places' = Places /\ calls' = calls
    BY RearrangedType DEF Rearranges
  <2>2. SUFFICES ASSUME NEW i \in Places, NEW j \in Places, i < j, Value(i)' > Value(j)'
                 PROVE  \E c \in DOMAIN calls : i \in Offsets(calls[c]) /\ j \in Offsets(calls[c])
    BY <2>1 DEF Pending, Offsets
  <2>3. /\ Len(calls) \in DOMAIN calls /\ Offsets(Top) \subseteq Places
        /\ Top.first \in Int /\ Top.last \in Int
    BY TopType DEF Rearranges, Activation
  <2>4. Value(i) \in Nat /\ Value(j) \in Nat /\ i \in Int /\ j \in Int
    BY ValueType DEF Places
  <2>5. CASE i \in Offsets(Top) /\ j \in Offsets(Top)
    BY <2>3, <2>5 DEF Top
  <2>6. CASE i \notin Offsets(Top) /\ j \notin Offsets(Top)
    <3>1. Value(i) > Value(j)
      BY <2>2, <2>6, RearrangedValues
    <3>2. QED
      BY <2>2, <3>1 DEF Pending
  <2>7. CASE i \in Offsets(Top) /\ j \notin Offsets(Top)
    <3>1. PICK q \in Offsets(Top) : Value(i)' = Value(q)
      BY <2>7, RearrangedValues
    <3>2. Value(j)' = Value(j)
      BY <2>7, RearrangedValues
    <3>3. q < j /\ q \in Places /\ Value(q) > Value(j)
      BY <2>2, <2>3, <2>4, <2>7, <3>1, <3>2 DEF Offsets
    <3>4. PICK c \in DOMAIN calls : q \in Offsets(calls[c]) /\ j \in Offsets(calls[c])
      BY <3>3 DEF Pending
    <3>5. c = Len(calls)
      BY <2>3, <3>4 DEF Apart, Top
    <3>6. QED
      BY <2>7, <3>4, <3>5 DEF Top
  <2>8. CASE i \notin Offsets(Top) /\ j \in Offsets(Top)
    <3>1. PICK q \in Offsets(Top) : Value(j)' = Value(q)
      BY <2>8, RearrangedValues
    <3>2. Value(i)' = Value(i)
      BY <2>8, RearrangedValues
    <3>3. i < q /\ q \in Places /\ Value(i) > Value(q)
      BY <2>2, <2>3, <2>4, <2>8, <3>1, <3>2 DEF Offsets
    <3>4. PICK c \in DOMAIN calls : i \in Offsets(calls[c]) /\ q \in Offsets(calls[c])
      BY <3>3 DEF Pending
    <3>5. c = Len(calls)
      BY <2>3, <3>4 DEF Apart, Top
    <3>6. QED
      BY <2>8, <3>4, <3>5 DEF Top
  <2>9. QED
    BY <2>5, <2>6, <2>7, <2>8
<1>3. QED
  BY <1>1, <1>2

\* Every region has the values it had.
LEMMA RearrangedRegions ==
    ASSUME TypeInv, Apart, Rearranges, NEW c \in DOMAIN calls, NEW k \in Offsets(calls[c])
    PROVE  \E q \in Offsets(calls[c]) : Value(k)' = Value(q)
<1>1. CASE c = Len(calls)
  BY <1>1, RearrangedValues DEF Top
<1>2. CASE c # Len(calls)
  <2>1. Len(calls) \in DOMAIN calls
    BY TopType DEF Rearranges
  <2>2. k \notin Offsets(Top)
    BY <1>2, <2>1 DEF Apart, Top
  <2>3. k \in Places
    <3>1. Placed(calls[c]) /\ Len(values) \in Nat
      BY DEF TypeInv
    <3>2. QED
      BY <3>1 DEF Placed, Activation, Offsets, Places
  <2>4. QED
    BY <2>2, <2>3, RearrangedValues
<1>3. QED
  BY <1>1, <1>2

LEMMA RearrangedBounds ==
    ASSUME TypeInv, Apart, AgreeInv, HalvedInv, Rearranges
    PROVE  AgreeInv' /\ HalvedInv'
<1>1. calls' = calls /\ values' = values /\ pc' = pc /\ pivot' = pivot
  BY DEF Rearranges
<1>2. AgreeInv'
  <2>1. SUFFICES ASSUME NEW c \in DOMAIN calls, calls[c].kind = "radix",
                        NEW i \in Offsets(calls[c]), NEW j \in Offsets(calls[c])
                 PROVE  Value(i)' \div PowerOfTwo(calls[c].left)
                          = Value(j)' \div PowerOfTwo(calls[c].left)
    BY <1>1 DEF AgreeInv, Agrees, Offsets
  <2>2. PICK q \in Offsets(calls[c]) : Value(i)' = Value(q)
    BY RearrangedRegions
  <2>3. PICK r \in Offsets(calls[c]) : Value(j)' = Value(r)
    BY RearrangedRegions
  <2>4. QED
    BY <2>1, <2>2, <2>3 DEF AgreeInv, Agrees
<1>3. HalvedInv'
  <2>1. WholeRange' = WholeRange
    BY <1>1 DEF WholeRange
  <2>2. SUFFICES ASSUME NEW c \in DOMAIN calls
                 PROVE  Halved(calls[c], pc = "partition" /\ c = Len(calls), pivot)'
    BY <1>1 DEF HalvedInv
  <2>3. SUFFICES ASSUME calls[c].kind = "midpoint",
                        NEW i \in Offsets(calls[c]), NEW j \in Offsets(calls[c]),
                        pc = "partition" /\ c = Len(calls) => SameSide(i, j, pivot)'
                 PROVE  (Value(i)' - Value(j)')
                            * PowerOfTwo(MIDPOINT_PARTITION_BUDGET - calls[c].left)
                          <= WholeRange
    BY <1>1, <2>1 DEF HalvedInv, Halved, Offsets
  <2>4. PICK q \in Offsets(calls[c]) : Value(i)' = Value(q)
    BY RearrangedRegions
  <2>5. PICK r \in Offsets(calls[c]) : Value(j)' = Value(r)
    BY RearrangedRegions
  <2>6. pc = "partition" /\ c = Len(calls) => SameSide(q, r, pivot)
    BY <1>1, <2>3, <2>4, <2>5 DEF SameSide
  <2>7. Halved(calls[c], pc = "partition" /\ c = Len(calls), pivot)
    BY DEF HalvedInv
  <2>8. (Value(q) - Value(r)) * PowerOfTwo(MIDPOINT_PARTITION_BUDGET - calls[c].left)
          <= WholeRange
    BY <2>3, <2>6, <2>7, Zenon DEF Halved
  <2>9. QED
    BY <2>4, <2>5, <2>8
<1>4. QED
  BY <1>2, <1>3

-------------------------------------------------------------------------------
(* Steps that replace the innermost activation.                            *)

LEMMA ReturnShape ==
    ASSUME TypeInv, calls # <<>>, Return
    PROVE  /\ calls' \in Seq(Activation) /\ Len(calls') = Len(calls) - 1
           /\ \A c \in 1 .. Len(calls) - 1 : calls'[c] = calls[c]
<1>1. calls \in Seq(Activation) /\ Len(calls) - 1 \in Nat
  BY DEF TypeInv
<1>2. PICK n : n = Len(calls) - 1
  OBVIOUS
<1>3. calls' = [c \in 1 .. n |-> calls[c]]
  BY <1>1, <1>2 DEF Return
<1>4. \A c \in 1 .. n : calls[c] \in Activation
  BY <1>1, <1>2
<1>5. calls' \in [1 .. n -> Activation]
  BY <1>3, <1>4
<1>6. QED
  BY <1>1, <1>2, <1>3, <1>5

LEMMA GoOnShape ==
    ASSUME TypeInv, calls # <<>>, NEW call \in Activation, GoOnAs(call)
    PROVE  /\ calls' \in Seq(Activation) /\ Len(calls') = Len(calls)
           /\ \A c \in 1 .. Len(calls) - 1 : calls'[c] = calls[c]
           /\ calls'[Len(calls)] = call
  BY DEF TypeInv, GoOnAs

LEMMA CallThenShape ==
    ASSUME TypeInv, calls # <<>>, NEW callee \in Activation, NEW rest \in Activation,
           CallThen(callee, rest)
    PROVE  /\ calls' \in Seq(Activation) /\ Len(calls') = Len(calls) + 1
           /\ \A c \in 1 .. Len(calls) - 1 : calls'[c] = calls[c]
           /\ calls'[Len(calls)] = rest /\ calls'[Len(calls) + 1] = callee
<1>1. PICK front : front = [calls EXCEPT ![Len(calls)] = rest]
  OBVIOUS
<1>2. front \in Seq(Activation) /\ Len(front) = Len(calls) /\ Len(calls) \in Nat \ {0}
  BY <1>1 DEF TypeInv
<1>3. calls' = Append(front, callee)
  BY <1>1 DEF CallThen
<1>4. front[Len(calls)] = rest /\ \A c \in 1 .. Len(calls) - 1 : front[c] = calls[c]
  BY <1>1 DEF TypeInv
<1>5. QED
  BY <1>2, <1>3, <1>4

\* The innermost activation gives way to others, which have what is out of order
\* in its region.
Splits ==
    /\ calls # <<>> /\ UNCHANGED <<values, indices>>
    /\ calls' \in Seq(Activation) /\ Len(calls') >= Len(calls) - 1
    /\ pc' = "partition" => Len(calls') >= Len(calls)
    /\ \A c \in 1 .. Len(calls) - 1 : calls'[c] = calls[c]
    /\ \A c \in Len(calls) .. Len(calls') :
          /\ Placed(calls'[c]) /\ Offsets(calls'[c]) \subseteq Offsets(Top)
          /\ Agrees(calls'[c])
          /\ Halved(calls'[c], pc' = "partition" /\ c = Len(calls'), pivot')
    /\ \A c, d \in Len(calls) .. Len(calls') :
          c # d => Offsets(calls'[c]) \cap Offsets(calls'[d]) = {}
    /\ \A i, j \in Offsets(Top) : i < j /\ Value(i) > Value(j) =>
          \E c \in Len(calls) .. Len(calls') :
             i \in Offsets(calls'[c]) /\ j \in Offsets(calls'[c])

\* At most one more of them, by an activation of midpoint_sort for no more than
\* it goes on with.
Shallow ==
    \/ Len(calls') <= Len(calls)
    \/ /\ Len(calls') = Len(calls) + 1
       /\ calls'[Len(calls)].kind = "midpoint" =>
             Size(calls'[Len(calls) + 1]) <= Size(calls'[Len(calls)])

\* The activations afterwards: those below, and the new ones.
LEMMA SplitStack ==
    ASSUME TypeInv, Splits
    PROVE  /\ DOMAIN calls' = 1 .. Len(calls') /\ Len(calls') \in Nat
           /\ Len(calls) \in Nat \ {0} /\ DOMAIN calls = 1 .. Len(calls)
           /\ \A c \in DOMAIN calls' :
                 \/ c \in Len(calls) .. Len(calls')
                 \/ /\ c \in DOMAIN calls /\ c # Len(calls) /\ c < Len(calls)
                    /\ calls'[c] = calls[c]
<1>1. Len(calls) \in Nat \ {0} /\ DOMAIN calls = 1 .. Len(calls)
  BY TopType DEF Splits
<1>2. DOMAIN calls' = 1 .. Len(calls') /\ Len(calls') \in Nat
  BY DEF Splits
<1>3. \A c \in 1 .. Len(calls') :
         c \in Len(calls) .. Len(calls') \/ (c \in 1 .. Len(calls) - 1 /\ c < Len(calls))
  BY <1>1, <1>2
<1>4. \A c \in 1 .. Len(calls) - 1 : calls'[c] = calls[c] /\ c \in 1 .. Len(calls)
  BY <1>1 DEF Splits
<1>5. QED
  BY <1>1, <1>2, <1>3, <1>4

LEMMA SplitApart ==
    ASSUME TypeInv, Apart, Splits
    PROVE  Apart' /\ (\A c \in DOMAIN calls : Placed(calls[c]))'
<1>1. (\A c \in DOMAIN calls : Placed(calls[c]))'
  <2>1. SUFFICES ASSUME NEW c \in DOMAIN calls'
                 PROVE  Placed(calls'[c])
    BY DEF Placed, Splits
  <2>2. CASE c \in Len(calls) .. Len(calls')
    BY <2>2 DEF Splits
  <2>3. CASE c \in DOMAIN calls /\ calls'[c] = calls[c]
    BY <2>3 DEF TypeInv
  <2>4. QED
    BY <2>2, <2>3, SplitStack
<1>2. Apart'
  <2>1. SUFFICES ASSUME NEW c \in DOMAIN calls', NEW d \in DOMAIN calls', c # d
                 PROVE  Offsets(calls'[c]) \cap Offsets(calls'[d]) = {}
    BY DEF Apart, Offsets
  <2>2. \A e \in DOMAIN calls :
           e # Len(calls) => Offsets(calls[e]) \cap Offsets(Top) = {}
    <3>1. Len(calls) \in DOMAIN calls
      BY SplitStack
    <3>2. QED
      BY <3>1 DEF Apart, Top
  <2>3. CASE c \in Len(calls) .. Len(calls') /\ d \in Len(calls) .. Len(calls')
    BY <2>1, <2>3 DEF Splits
  <2>4. CASE c \in Len(calls) .. Len(calls')
             /\ d \in DOMAIN calls /\ d # Len(calls) /\ calls'[d] = calls[d]
    <3>1. Offsets(calls'[c]) \subseteq Offsets(Top)
      BY <2>4 DEF Splits
    <3>2. QED
      BY <2>2, <2>4, <3>1
  <2>5. CASE d \in Len(calls) .. Len(calls')
             /\ c \in DOMAIN calls /\ c # Len(calls) /\ calls'[c] = calls[c]
    <3>1. Offsets(calls'[d]) \subseteq Offsets(Top)
      BY <2>5 DEF Splits
    <3>2. QED
      BY <2>2, <2>5, <3>1
  <2>6. CASE /\ c \in DOMAIN calls /\ calls'[c] = calls[c]
             /\ d \in DOMAIN calls /\ calls'[d] = calls[d]
    BY <2>1, <2>6 DEF Apart
  <2>7. QED
    BY <2>3, <2>4, <2>5, <2>6, SplitStack
<1>3. QED
  BY <1>1, <1>2

LEMMA SplitPending ==
    ASSUME TypeInv, Pending, Splits
    PROVE  Pending'
<1>1. Places' = Places
  BY DEF Splits, Places
<1>2. \A k : Value(k)' = Value(k)
  BY DEF Splits, Value
<1>3. SUFFICES ASSUME NEW i \in Places, NEW j \in Places, i < j, Value(i) > Value(j)
               PROVE  \E c \in DOMAIN calls' :
                         i \in Offsets(calls'[c]) /\ j \in Offsets(calls'[c])
  BY <1>1, <1>2 DEF Pending, Offsets
<1>4. PICK c \in DOMAIN calls : i \in Offsets(calls[c]) /\ j \in Offsets(calls[c])
  BY <1>3 DEF Pending
<1>5. /\ DOMAIN calls' = 1 .. Len(calls') /\ Len(calls') \in Nat
      /\ Len(calls) \in Nat \ {0} /\ DOMAIN calls = 1 .. Len(calls)
  BY SplitStack
<1>6. CASE c = Len(calls)
  <2>1. i \in Offsets(Top) /\ j \in Offsets(Top)
    BY <1>4, <1>6 DEF Top
  <2>2. PICK d \in Len(calls) .. Len(calls') :
           i \in Offsets(calls'[d]) /\ j \in Offsets(calls'[d])
    BY <1>3, <2>1 DEF Splits
  <2>3. d \in DOMAIN calls'
    BY <1>5
  <2>4. QED
    BY <2>2, <2>3
<1>7. CASE c # Len(calls)
  <2>1. c \in 1 .. Len(calls) - 1
    BY <1>4, <1>5, <1>7
  <2>2. calls'[c] = calls[c] /\ Len(calls') >= Len(calls) - 1
    BY <2>1 DEF Splits
  <2>3. c \in DOMAIN calls'
    BY <1>5, <2>1, <2>2
  <2>4. QED
    BY <1>4, <2>2, <2>3
<1>8. QED
  BY <1>6, <1>7

LEMMA SplitBounds ==
    ASSUME TypeInv, AgreeInv, HalvedInv, Splits
    PROVE  AgreeInv' /\ HalvedInv'
<1>1. \A k : Value(k)' = Value(k)
  BY DEF Splits, Value
<1>2. WholeRange' = WholeRange
  BY DEF Splits, WholeRange
<1>3. ASSUME NEW c \in DOMAIN calls'
      PROVE  Agrees(calls'[c]) /\ Halved(calls'[c], pc' = "partition" /\ c = Len(calls'), pivot')
  <2>1. CASE c \in Len(calls) .. Len(calls')
    BY <2>1 DEF Splits
  <2>2. CASE c \in DOMAIN calls /\ c < Len(calls) /\ c # Len(calls) /\ calls'[c] = calls[c]
    <3>1. Agrees(calls[c]) /\ Halved(calls[c], pc = "partition" /\ c = Len(calls), pivot)
      BY <2>2 DEF AgreeInv, HalvedInv
    <3>2. Halved(calls[c], FALSE, pivot')
      BY <2>2, <3>1 DEF Halved
    <3>3. ~ (pc' = "partition" /\ c = Len(calls'))
      <4>1. Len(calls) \in Nat /\ Len(calls') \in Nat /\ c \in Nat
        BY <2>2, SplitStack
      <4>2. pc' = "partition" => Len(calls') >= Len(calls)
        BY DEF Splits
      <4>3. QED
        BY <2>2, <4>1, <4>2
    <3>4. QED
      BY <2>2, <3>1, <3>2, <3>3
  <2>3. QED
    BY <2>1, <2>2, SplitStack
<1>4. AgreeInv'
  BY <1>1, <1>3 DEF AgreeInv, Agrees, Offsets
<1>5. HalvedInv'
  <2>1. SUFFICES ASSUME NEW c \in DOMAIN calls'
                 PROVE  Halved(calls[c], pc = "partition" /\ c = Len(calls), pivot)'
    BY DEF HalvedInv
  <2>2. Halved(calls'[c], pc' = "partition" /\ c = Len(calls'), pivot')
    BY <1>3
  <2>3. QED
    BY <1>1, <1>2, <2>2 DEF Halved, SameSide, Offsets
<1>6. QED
  BY <1>4, <1>5

-------------------------------------------------------------------------------
(* The loops.                                                              *)

LEMMA RearrangedInv ==
    ASSUME MidpointInv, Rearranges, LoopInv'
    PROVE  MidpointInv'
  BY RearrangedType, RearrangedPending, RearrangedBounds DEF MidpointInv

\* Two pointers are swapped.
LEMMA SwappedValues ==
    ASSUME TypeInv, NEW x \in Places, NEW y \in Places, values' = values,
           indices' = Swapped(indices, x, y)
    PROVE  /\ Value(x)' = Value(y) /\ Value(y)' = Value(x)
           /\ \A k \in Places : k # x /\ k # y => Value(k)' = Value(k)
  BY DEF TypeInv, Swapped, Value

LEMMA SwapRearranges ==
    ASSUME TypeInv, calls # <<>>, NEW x \in Offsets(Top), NEW y \in Offsets(Top),
           indices' = Swapped(indices, x, y), UNCHANGED <<values, calls, pc, pivot>>,
           lower' \in Int, scan' \in Int, upper' \in Int
    PROVE  Rearranges
<1>1. Offsets(Top) \subseteq Places
  BY TopType
<1>2. x \in Places /\ y \in Places /\ indices \in [Places -> Places]
  BY <1>1 DEF TypeInv
<1>3. indices' = [[indices EXCEPT ![x] = indices[y]] EXCEPT ![y] = indices[x]]
  BY DEF Swapped
<1>4. /\ indices' \in [Places -> Places]
      /\ indices'[x] = indices[y] /\ indices'[y] = indices[x]
      /\ \A k \in Places : k # x /\ k # y => indices'[k] = indices[k]
  BY <1>2, <1>3
<1>5. ASSUME NEW id \in Places
      PROVE  \E k \in Places : indices'[k] = id
  <2>1. PICK k \in Places : indices[k] = id
    BY DEF TypeInv
  <2>2. CASE k = x
    BY <1>2, <1>4, <2>1, <2>2
  <2>3. CASE k = y
    BY <1>2, <1>4, <2>1, <2>3
  <2>4. CASE k # x /\ k # y
    BY <1>4, <2>1, <2>4
  <2>5. QED
    BY <2>2, <2>3, <2>4
<1>6. \A k \in Places : k \notin Offsets(Top) => indices'[k] = indices[k]
  BY <1>4
<1>7. \A k \in Offsets(Top) : \E q \in Offsets(Top) : indices'[k] = indices[q]
  BY <1>1, <1>4
<1>8. QED
  BY <1>4, <1>5, <1>6, <1>7 DEF Rearranges

\* partition_three_way.
LEMMA PartitionKeeps ==
    ASSUME MidpointInv, PartitionNext
    PROVE  MidpointInv' /\ Rearranges
<1>1. /\ TypeInv /\ pc = "partition" /\ calls # <<>> /\ scan < upper /\ PartitionLoop
      /\ UNCHANGED <<values, calls, pc, pivot>>
  BY DEF MidpointInv, PartitionNext, LoopInv, TypeInv
<1>2. /\ Offsets(Top) \subseteq Places /\ Top.first \in Int /\ Top.last \in Int
      /\ lower \in Int /\ scan \in Int /\ upper \in Int
  BY <1>1, TopType DEF TypeInv, Activation
<1>3. /\ Top.first <= lower /\ lower <= scan /\ scan < upper /\ upper <= Top.last + 1
      /\ lower \in Offsets(Top) /\ scan \in Offsets(Top) /\ upper - 1 \in Offsets(Top)
  BY <1>1, <1>2 DEF PartitionLoop, Offsets
<1>4. Top' = Top
  BY <1>1 DEF Top
<1>5. /\ \A k \in Top.first .. lower - 1 : Value(k) < pivot
      /\ \A k \in lower .. scan - 1 : Value(k) = pivot
      /\ \A k \in upper .. Top.last : Value(k) > pivot
  BY <1>1 DEF PartitionLoop
<1>6. \A k \in Top.first .. Top.last : k \in Places
  BY <1>2 DEF Offsets
<1>7. CASE PlaceLess
  <2>0. PICK x, y : x = lower /\ y = scan
    OBVIOUS
  <2>1. /\ Value(scan) < pivot /\ indices' = Swapped(indices, lower, scan)
        /\ lower' = lower + 1 /\ scan' = scan + 1 /\ upper' = upper
    BY <1>7 DEF PlaceLess
  <2>2. Rearranges
    BY <1>1, <1>2, <1>3, <2>1, SwapRearranges
  <2>3. /\ Value(x)' = Value(y) /\ Value(y)' = Value(x)
        /\ \A k \in Places : k # x /\ k # y => Value(k)' = Value(k)
    <3>1. x \in Places /\ y \in Places /\ indices' = Swapped(indices, x, y)
      BY <1>2, <1>3, <2>0, <2>1
    <3>2. QED
      BY <1>1, <3>1, SwappedValues
  <2>4. ASSUME NEW k \in Top.first .. lower
        PROVE  Value(k)' < pivot
    <3>1. CASE k = lower
      BY <2>0, <2>1, <2>3, <3>1
    <3>2. CASE k # lower
      <4>1. k \in Top.first .. lower - 1 /\ k # scan /\ k \in Top.first .. Top.last
        BY <1>2, <1>3, <3>2
      <4>2. QED
        BY <1>5, <1>6, <2>0, <2>3, <3>2, <4>1
    <3>3. QED
      BY <3>1, <3>2
  <2>5. ASSUME NEW k \in lower + 1 .. scan
        PROVE  Value(k)' = pivot
    <3>1. CASE k = scan
      <4>1. lower \in lower .. scan - 1
        BY <1>2, <3>1
      <4>2. QED
        BY <1>5, <2>0, <2>3, <3>1, <4>1
    <3>2. CASE k # scan
      <4>1. k \in lower .. scan - 1 /\ k # lower /\ k \in Top.first .. Top.last
        BY <1>2, <1>3, <3>2
      <4>2. QED
        BY <1>5, <1>6, <2>0, <2>3, <3>2, <4>1
    <3>3. QED
      BY <3>1, <3>2
  <2>6. ASSUME NEW k \in upper .. Top.last
        PROVE  Value(k)' > pivot
    <3>1. k # lower /\ k # scan /\ k \in Top.first .. Top.last
      BY <1>2, <1>3
    <3>2. QED
      BY <1>5, <1>6, <2>0, <2>3, <3>1
  <2>7. PartitionLoop'
    <3>1. (lower + 1) - 1 = lower /\ (scan + 1) - 1 = scan
      BY <1>2
    <3>2. /\ \A k \in Top.first .. lower' - 1 : Value(k)' < pivot
          /\ \A k \in lower' .. scan' - 1 : Value(k)' = pivot
          /\ \A k \in upper' .. Top.last : Value(k)' > pivot
      BY <2>1, <2>4, <2>5, <2>6, <3>1
    <3>3. /\ Top.first <= lower' /\ lower' <= scan' /\ scan' <= upper'
          /\ upper' <= Top.last + 1
      BY <1>2, <1>3, <2>1
    <3>4. QED
      BY <1>1, <1>4, <3>2, <3>3 DEF PartitionLoop
  <2>8. QED
    BY <1>1, <2>2, <2>7, RearrangedInv DEF LoopInv
<1>8. CASE PlaceEqual
  <2>1. /\ Value(scan) = pivot /\ indices' = indices /\ lower' = lower
        /\ scan' = scan + 1 /\ upper' = upper
    BY <1>8 DEF PlaceEqual
  <2>2. \A k : Value(k)' = Value(k)
    BY <1>1, <2>1 DEF Value
  <2>3. Rearranges
    BY <1>1, <1>2, <2>1 DEF Rearranges, TypeInv
  <2>4. PartitionLoop'
    <3>1. \A k \in lower .. scan : Value(k) = pivot
      <4>1. \A k \in lower .. scan : k \in lower .. scan - 1 \/ k = scan
        BY <1>2
      <4>2. QED
        BY <1>5, <2>1, <4>1
    <3>2. scan' - 1 = scan
      BY <1>2, <2>1
    <3>3. QED
      BY <1>1, <1>2, <1>3, <1>4, <1>5, <2>1, <2>2, <3>1, <3>2 DEF PartitionLoop
  <2>5. QED
    BY <1>1, <2>3, <2>4, RearrangedInv DEF LoopInv
<1>9. CASE PlaceGreater
  <2>0. PICK x, y : x = scan /\ y = upper - 1
    OBVIOUS
  <2>1. /\ Value(scan) > pivot /\ indices' = Swapped(indices, scan, upper - 1)
        /\ lower' = lower /\ scan' = scan /\ upper' = upper - 1
    BY <1>9 DEF PlaceGreater
  <2>2. Rearranges
    BY <1>1, <1>2, <1>3, <2>1, SwapRearranges
  <2>3. /\ Value(x)' = Value(y) /\ Value(y)' = Value(x)
        /\ \A k \in Places : k # x /\ k # y => Value(k)' = Value(k)
    <3>1. x \in Places /\ y \in Places /\ indices' = Swapped(indices, x, y)
      BY <1>2, <1>3, <2>0, <2>1
    <3>2. QED
      BY <1>1, <3>1, SwappedValues
  <2>4. ASSUME NEW k \in Top.first .. scan - 1
        PROVE  Value(k)' = Value(k)
    <3>1. k # scan /\ k # upper - 1 /\ k \in Top.first .. Top.last
      BY <1>2, <1>3
    <3>2. QED
      BY <1>6, <2>0, <2>3, <3>1
  <2>5. ASSUME NEW k \in upper - 1 .. Top.last
        PROVE  Value(k)' > pivot
    <3>1. CASE k = upper - 1
      BY <2>0, <2>1, <2>3, <3>1
    <3>2. CASE k # upper - 1
      <4>1. k \in upper .. Top.last /\ k # scan /\ k \in Top.first .. Top.last
        BY <1>2, <1>3, <3>2
      <4>2. QED
        BY <1>5, <1>6, <2>0, <2>3, <3>2, <4>1
    <3>3. QED
      BY <3>1, <3>2
  <2>6. PartitionLoop'
    <3>1. \A k \in Top.first .. lower - 1 : Value(k)' < pivot
      <4>1. \A k \in Top.first .. lower - 1 : k \in Top.first .. scan - 1
        BY <1>2, <1>3
      <4>2. QED
        BY <1>5, <2>4, <4>1
    <3>2. \A k \in lower .. scan - 1 : Value(k)' = pivot
      <4>1. \A k \in lower .. scan - 1 : k \in Top.first .. scan - 1
        BY <1>2, <1>3
      <4>2. QED
        BY <1>5, <2>4, <4>1
    <3>3. /\ Top.first <= lower' /\ lower' <= scan' /\ scan' <= upper'
          /\ upper' <= Top.last + 1
      BY <1>2, <1>3, <2>1
    <3>4. QED
      BY <1>1, <1>4, <2>1, <2>5, <3>1, <3>2, <3>3 DEF PartitionLoop
  <2>7. QED
    BY <1>1, <2>2, <2>6, RearrangedInv DEF LoopInv
<1>10. QED
  BY <1>7, <1>8, <1>9 DEF PartitionNext

Ascends(f, a, b) ==
    /\ \A k \in a .. b : f[k] \in Int
    /\ \A i, j \in a .. b : i < j => f[i] <= f[j]

UpTo(f, a, b, x) == {k \in a .. b : f[k] <= x}

\* Where an element belongs in what ascends: after as many as do not exceed it.
LEMMA PlaceFound ==
    ASSUME NEW a \in Int, NEW b \in Int, NEW x \in Int, NEW f, Ascends(f, a, b)
    PROVE  /\ Cardinality(UpTo(f, a, b, x)) \in Nat
           /\ a <= b + 1 => Cardinality(UpTo(f, a, b, x)) <= b + 1 - a
           /\ \A k \in a .. b : f[k] <= x <=> k < a + Cardinality(UpTo(f, a, b, x))
<1> USE DEF Ascends
<1>0. PICK count : count = Cardinality(UpTo(f, a, b, x))
  OBVIOUS
<1>1. PICK T : T = {k \in a .. b : f[k] <= x}
  OBVIOUS
<1>2. IsFiniteSet(a .. b) /\ T \in SUBSET (a .. b)
  BY <1>1, FS_Interval
<1>3. IsFiniteSet(T) /\ Cardinality(T) \in Nat /\ Cardinality(T) <= Cardinality(a .. b)
  <2>1. IsFiniteSet(T)
    BY <1>2, FS_Subset
  <2>2. Cardinality(T) \in Nat
    BY <2>1, FS_CardinalityType
  <2>3. Cardinality(T) <= Cardinality(a .. b)
    BY <1>2, FS_Subset
  <2>4. QED
    BY <2>1, <2>2, <2>3
<1>4. count \in Nat /\ count = Cardinality(T)
  BY <1>0, <1>1, <1>3 DEF UpTo
<1>5. a <= b + 1 => count <= b + 1 - a
  BY <1>3, <1>4, PlacesCount
<1>6. ASSUME NEW k \in a .. b, f[k] <= x
      PROVE  k < a + count
  <2>1. PICK A : A = a .. k
    OBVIOUS
  <2>2. A \in SUBSET T
    <3>1. \A i \in a .. k : i \in a .. b /\ f[i] <= x
      <4>1. SUFFICES ASSUME NEW i \in a .. k
                     PROVE  i \in a .. b /\ f[i] <= x
        OBVIOUS
      <4>2. i \in a .. b /\ (i = k \/ i < k)
        OBVIOUS
      <4>3. f[i] \in Int /\ f[k] \in Int /\ f[i] <= f[k]
        BY <4>2
      <4>4. QED
        BY <1>6, <4>2, <4>3
    <3>2. QED
      BY <1>1, <2>1, <3>1
  <2>3. Cardinality(A) <= Cardinality(T)
    BY <1>3, <2>2, FS_Subset
  <2>4. Cardinality(A) = k + 1 - a
    <3>1. k \in Int /\ a <= k + 1
      OBVIOUS
    <3>2. QED
      BY <2>1, <3>1, PlacesCount
  <2>5. QED
    BY <1>4, <2>3, <2>4
<1>7. ASSUME NEW k \in a .. b, ~ (f[k] <= x)
      PROVE  ~ (k < a + count)
  <2>1. PICK A : A = a .. k - 1
    OBVIOUS
  <2>2. T \in SUBSET A
    <3>1. ASSUME NEW i \in a .. b, f[i] <= x
          PROVE  i \in a .. k - 1
      <4>1. f[i] \in Int /\ f[k] \in Int /\ i # k
        BY <1>7, <3>1
      <4>2. ~ (k < i)
        <5>1. SUFFICES ASSUME k < i PROVE FALSE
          OBVIOUS
        <5>2. f[k] <= f[i]
          BY <5>1
        <5>3. QED
          BY <1>7, <3>1, <4>1, <5>2
      <4>3. QED
        BY <4>1, <4>2
    <3>2. QED
      BY <1>1, <2>1, <3>1
  <2>3. k - 1 \in Int /\ a <= (k - 1) + 1
    OBVIOUS
  <2>4. IsFiniteSet(A) /\ Cardinality(A) = (k - 1) + 1 - a
    BY <2>1, <2>3, PlacesCount
  <2>5. Cardinality(T) <= Cardinality(A)
    BY <2>2, <2>4, FS_Subset
  <2>6. QED
    BY <1>4, <2>4, <2>5
<1>8. QED
  BY <1>0, <1>4, <1>5, <1>6, <1>7

\* insertion_sort.
LEMMA InsertionKeeps ==
    ASSUME MidpointInv, InsertNext
    PROVE  MidpointInv' /\ Rearranges
<1>1. /\ TypeInv /\ pc = "insertion" /\ calls # <<>> /\ scan <= Top.last /\ InsertionLoop
      /\ UNCHANGED <<values, calls, pc, pivot, lower, upper>> /\ scan' = scan + 1
  BY DEF MidpointInv, InsertNext, LoopInv, TypeInv
<1>2. /\ Offsets(Top) \subseteq Places /\ Top.first \in Int /\ Top.last \in Int
      /\ lower \in Int /\ scan \in Int /\ upper \in Int
  BY <1>1, TopType DEF TypeInv, Activation
<1>3. PICK a, s : a = Top.first /\ s = scan
  OBVIOUS
<1>4. a \in Int /\ s \in Int /\ a < s /\ \A k \in a .. s : k \in Offsets(Top) /\ k \in Places
  <2>1. a \in Int /\ s \in Int /\ a < s /\ s <= Top.last
    BY <1>1, <1>2, <1>3 DEF InsertionLoop
  <2>2. \A k \in a .. s : k \in Offsets(Top)
    BY <1>2, <1>3, <2>1 DEF Offsets
  <2>3. QED
    BY <1>2, <2>1, <2>2
<1>5. \A k \in a .. s : Value(k) \in Nat
  BY <1>1, <1>4, ValueType
<1>6. \A i, j \in a .. s - 1 : i < j => Value(i) <= Value(j)
  BY <1>1, <1>3 DEF InsertionLoop
<1>7. PICK x, count : x = Value(s) /\ count = Cardinality({k \in a .. s - 1 : Value(k) <= x})
  OBVIOUS
<1>8. /\ count \in Nat /\ count <= s - a
      /\ \A k \in a .. s - 1 : Value(k) <= x <=> k < a + count
  <2>1. PICK f : f = [k \in a .. s - 1 |-> Value(k)]
    OBVIOUS
  <2>2. s - 1 \in Int /\ x \in Int /\ a <= (s - 1) + 1 /\ (s - 1) + 1 - a = s - a
    BY <1>4, <1>5, <1>7
  <2>3. \A k \in a .. s - 1 : f[k] = Value(k) /\ k \in a .. s
    BY <1>4, <2>1
  <2>4. /\ \A k \in a .. s - 1 : f[k] \in Int
        /\ \A i, j \in a .. s - 1 : i < j => f[i] <= f[j]
    BY <1>5, <1>6, <2>3
  <2>5. {k \in a .. s - 1 : f[k] <= x} = {k \in a .. s - 1 : Value(k) <= x}
    BY <2>3
  <2>6. PICK b : b = s - 1
    OBVIOUS
  <2>7. /\ count \in Nat /\ count <= b + 1 - a
        /\ \A k \in a .. b : f[k] <= x <=> k < a + count
    <3>1. a \in Int /\ b \in Int /\ x \in Int /\ a <= b + 1
      BY <1>4, <2>2, <2>6
    <3>2. Ascends(f, a, b)
      BY <2>4, <2>6 DEF Ascends
    <3>3. count = Cardinality(UpTo(f, a, b, x))
      BY <1>7, <2>5, <2>6 DEF UpTo
    <3>4. Cardinality(UpTo(f, a, b, x)) \in Nat
      BY <3>1, <3>2, PlaceFound
    <3>5. Cardinality(UpTo(f, a, b, x)) <= b + 1 - a
      BY <3>1, <3>2, PlaceFound
    <3>6. \A k \in a .. b : f[k] <= x <=> k < a + Cardinality(UpTo(f, a, b, x))
      BY <3>1, <3>2, PlaceFound
    <3>7. QED
      BY <3>3, <3>4, <3>5, <3>6
  <2>8. QED
    BY <2>2, <2>3, <2>6, <2>7
<1>9. PICK p : p = a + count
  OBVIOUS
<1>10. /\ p \in a .. s
       /\ \A k \in a .. p - 1 : Value(k) <= x
       /\ \A k \in p .. s - 1 : Value(k) > x
  <2>1. p \in Int /\ a <= p /\ p <= s
    BY <1>4, <1>8, <1>9
  <2>2. ASSUME NEW k \in a .. p - 1
        PROVE  Value(k) <= x
    BY <1>4, <1>8, <1>9, <2>1
  <2>3. ASSUME NEW k \in p .. s - 1
        PROVE  Value(k) > x
    <3>1. k \in a .. s - 1 /\ k \in a .. s /\ ~ (k < a + count)
      BY <1>4, <1>9, <2>1
    <3>2. Value(k) \in Nat /\ x \in Nat /\ ~ (Value(k) <= x)
      BY <1>4, <1>5, <1>7, <1>8, <3>1
    <3>3. QED
      BY <3>2
  <2>4. QED
    BY <2>1, <2>2, <2>3
<1>11. indices' = [k \in DOMAIN indices |->
                     CASE k = p -> indices[s]
                       [] k \in p + 1 .. s -> indices[k - 1]
                       [] OTHER -> indices[k]]
  BY <1>3, <1>7, <1>9 DEF InsertNext
<1>12. /\ DOMAIN indices = Places /\ indices \in [Places -> Places]
       /\ \A k \in Places : k \in Int
  BY <1>1 DEF TypeInv, Places
<1>13. /\ indices'[p] = indices[s]
       /\ \A k \in Places : k \in p + 1 .. s => indices'[k] = indices[k - 1]
       /\ \A k \in Places : k # p /\ k \notin p + 1 .. s => indices'[k] = indices[k]
  <2>1. p \in Places
    BY <1>4, <1>10
  <2>2. \A k \in Places : k \in p + 1 .. s => k # p
    BY <1>10
  <2>3. QED
    BY <1>11, <1>12, <2>1, <2>2
<1>14. /\ Value(p)' = Value(s)
       /\ \A k \in Places : k \in p + 1 .. s => Value(k)' = Value(k - 1)
       /\ \A k \in Places : k # p /\ k \notin p + 1 .. s => Value(k)' = Value(k)
  BY <1>1, <1>13 DEF Value
<1>15. Rearranges
  <2>1. indices' \in [Places -> Places]
    <3>1. \A k \in Places : indices'[k] \in Places
      <4>1. SUFFICES ASSUME NEW k \in Places PROVE indices'[k] \in Places
        OBVIOUS
      <4>2. CASE k = p
        <5>1. s \in Places
          BY <1>4
        <5>2. QED
          BY <1>12, <1>13, <4>2, <5>1
      <4>3. CASE k \in p + 1 .. s
        <5>1. k - 1 \in a .. s
          BY <1>4, <1>10, <4>3
        <5>2. QED
          BY <1>4, <1>12, <1>13, <4>3, <5>1
      <4>4. CASE k # p /\ k \notin p + 1 .. s
        BY <1>12, <1>13, <4>4
      <4>5. QED
        BY <4>2, <4>3, <4>4
    <3>2. DOMAIN indices' = Places /\ indices' = [k \in Places |-> indices'[k]]
      BY <1>11, <1>12
    <3>3. QED
      BY <3>1, <3>2
  <2>2. ASSUME NEW id \in Places
        PROVE  \E k \in Places : indices'[k] = id
    <3>1. PICK q \in Places : indices[q] = id
      BY <1>1 DEF TypeInv
    <3>2. CASE q = s
      BY <1>4, <1>10, <1>13, <3>1, <3>2
    <3>3. CASE q \in p .. s - 1
      <4>1. q + 1 \in p + 1 .. s /\ q + 1 \in a .. s /\ (q + 1) - 1 = q
        BY <1>4, <1>10, <3>3
      <4>2. QED
        BY <1>4, <1>13, <3>1, <4>1
    <3>4. CASE q # s /\ q \notin p .. s - 1
      <4>1. q # p /\ q \notin p + 1 .. s
        BY <1>4, <1>10, <1>12, <3>4
      <4>2. QED
        BY <1>13, <3>1, <4>1
    <3>5. QED
      BY <3>2, <3>3, <3>4
  <2>3. ASSUME NEW k \in Places, k \notin Offsets(Top)
        PROVE  indices'[k] = indices[k]
    <3>1. k # p /\ k \notin p + 1 .. s
      <4>1. \A i \in p + 1 .. s : i \in a .. s
        BY <1>4, <1>10
      <4>2. QED
        BY <1>4, <1>10, <2>3, <4>1
    <3>2. QED
      BY <1>13, <3>1
  <2>4. ASSUME NEW k \in Offsets(Top)
        PROVE  \E q \in Offsets(Top) : indices'[k] = indices[q]
    <3>1. k \in Places
      BY <1>2
    <3>2. CASE k = p
      BY <1>4, <1>13, <3>2
    <3>3. CASE k \in p + 1 .. s
      <4>1. k - 1 \in a .. s
        BY <1>4, <1>10, <3>3
      <4>2. QED
        BY <1>4, <1>13, <3>1, <3>3, <4>1
    <3>4. CASE k # p /\ k \notin p + 1 .. s
      BY <1>13, <3>1, <3>4
    <3>5. QED
      BY <3>2, <3>3, <3>4
  <2>5. QED
    BY <1>1, <1>2, <2>1, <2>2, <2>3, <2>4 DEF Rearranges
<1>16. InsertionLoop'
  <2>1. ASSUME NEW i \in a .. s, NEW j \in a .. s, i < j
        PROVE  Value(i)' <= Value(j)'
    <3>1. i \in Places /\ j \in Places /\ i \in Int /\ j \in Int /\ x \in Nat
      BY <1>4, <1>5, <1>7
    <3>2. CASE j \in a .. p - 1
      <4>1. i \in a .. s - 1 /\ j \in a .. s - 1
        BY <1>4, <1>10, <2>1, <3>2
      <4>2. i # p /\ i \notin p + 1 .. s /\ j # p /\ j \notin p + 1 .. s
        BY <1>4, <1>10, <2>1, <3>2
      <4>3. Value(i)' = Value(i) /\ Value(j)' = Value(j)
        BY <1>14, <3>1, <4>2
      <4>4. QED
        BY <1>6, <2>1, <4>1, <4>3
    <3>3. CASE j = p
      <4>1. i \in a .. p - 1 /\ i # p /\ i \notin p + 1 .. s
        BY <1>4, <1>10, <2>1, <3>3
      <4>2. Value(i)' = Value(i) /\ Value(j)' = x
        BY <1>7, <1>14, <3>1, <3>3, <4>1
      <4>3. QED
        BY <1>10, <4>1, <4>2
    <3>4. CASE j \in p + 1 .. s
      <4>1. Value(j)' = Value(j - 1) /\ j - 1 \in p .. s - 1 /\ j - 1 \in a .. s - 1
            /\ j - 1 \in a .. s
        BY <1>4, <1>10, <1>14, <3>1, <3>4
      <4>2. Value(j - 1) > x /\ Value(j - 1) \in Nat
        BY <1>5, <1>10, <4>1
      <4>3. CASE i \in a .. p - 1
        <5>1. i # p /\ i \notin p + 1 .. s
          BY <1>4, <1>10, <4>3
        <5>2. Value(i)' = Value(i) /\ Value(i) <= x /\ Value(i) \in Nat
          BY <1>5, <1>10, <1>14, <3>1, <4>3, <5>1
        <5>3. QED
          BY <3>1, <4>1, <4>2, <5>2
      <4>4. CASE i = p
        <5>1. Value(i)' = x
          BY <1>7, <1>14, <4>4
        <5>2. QED
          BY <3>1, <4>1, <4>2, <5>1
      <4>5. CASE i \in p + 1 .. s
        <5>1. Value(i)' = Value(i - 1) /\ i - 1 \in a .. s - 1 /\ i - 1 < j - 1
          BY <1>4, <1>10, <1>14, <2>1, <3>1, <4>5
        <5>2. QED
          BY <1>6, <4>1, <5>1
      <4>6. QED
        BY <1>4, <1>10, <3>1, <4>3, <4>4, <4>5
    <3>5. QED
      BY <1>4, <1>10, <3>1, <3>2, <3>3, <3>4
  <2>2. Top' = Top /\ scan' - 1 = s /\ a < scan'
    BY <1>1, <1>3, <1>4 DEF Top
  <2>3. QED
    BY <1>3, <2>1, <2>2 DEF InsertionLoop
<1>17. QED
  BY <1>1, <1>15, <1>16, RearrangedInv DEF LoopInv

\* msd_radix_sort.
LEMMA RadixKeeps ==
    ASSUME MidpointInv, RadixNext
    PROVE  MidpointInv' /\ Rearranges
<1>1. /\ TypeInv /\ pc = "radix" /\ calls # <<>> /\ lower < upper /\ RadixLoop
      /\ UNCHANGED <<values, calls, pc, pivot, scan>>
  BY DEF MidpointInv, RadixNext, LoopInv, TypeInv
<1>2. /\ Offsets(Top) \subseteq Places /\ Top.first \in Int /\ Top.last \in Int
      /\ lower \in Int /\ scan \in Int /\ upper \in Int
  BY <1>1, TopType DEF TypeInv, Activation
<1>3. /\ Top.first <= lower /\ lower < upper /\ upper <= Top.last + 1
      /\ \A k \in Top.first .. lower - 1 : BitAt(k) = 0
      /\ \A k \in upper .. Top.last : BitAt(k) # 0
  BY <1>1 DEF RadixLoop
<1>4. Top' = Top
  BY <1>1 DEF Top
<1>5. \A k, q : Value(k)' = Value(q) => BitAt(k)' = BitAt(q)
  BY <1>4 DEF BitAt
<1>6. CASE BitAt(lower) = 0 /\ lower' = lower + 1 /\ UNCHANGED <<indices, upper, stats>>
  <2>1. \A k : BitAt(k)' = BitAt(k)
    BY <1>1, <1>5, <1>6 DEF Value
  <2>2. \A k \in Top.first .. lower : BitAt(k) = 0
    <3>1. \A k \in Top.first .. lower : k \in Top.first .. lower - 1 \/ k = lower
      BY <1>2
    <3>2. QED
      BY <1>3, <1>6, <3>1
  <2>3. lower' - 1 = lower /\ upper' = upper
    BY <1>2, <1>6
  <2>4. RadixLoop'
    BY <1>2, <1>3, <1>4, <1>6, <2>1, <2>2, <2>3 DEF RadixLoop
  <2>5. Rearranges
    BY <1>1, <1>2, <1>6 DEF Rearranges, TypeInv
  <2>6. QED
    BY <1>1, <2>4, <2>5, RearrangedInv DEF LoopInv
<1>7. CASE BitAt(upper - 1) # 0 /\ upper' = upper - 1 /\ UNCHANGED <<indices, lower, stats>>
  <2>1. \A k : BitAt(k)' = BitAt(k)
    BY <1>1, <1>5, <1>7 DEF Value
  <2>2. \A k \in upper - 1 .. Top.last : BitAt(k) # 0
    <3>1. \A k \in upper - 1 .. Top.last : k \in upper .. Top.last \/ k = upper - 1
      BY <1>2
    <3>2. QED
      BY <1>3, <1>7, <3>1
  <2>3. RadixLoop'
    BY <1>2, <1>3, <1>4, <1>7, <2>1, <2>2 DEF RadixLoop
  <2>4. Rearranges
    BY <1>1, <1>2, <1>7 DEF Rearranges, TypeInv
  <2>5. QED
    BY <1>1, <2>3, <2>4, RearrangedInv DEF LoopInv
<1>8. CASE /\ BitAt(lower) # 0 /\ BitAt(upper - 1) = 0
           /\ indices' = Swapped(indices, lower, upper - 1)
           /\ lower' = lower + 1 /\ upper' = upper - 1
  <2>1. PICK x, y : x = lower /\ y = upper - 1
    OBVIOUS
  <2>2. x \in Int /\ y \in Int /\ BitAt(x) # 0 /\ BitAt(y) = 0 /\ x # y
    BY <1>2, <1>8, <2>1
  <2>3. x < y /\ x \in Offsets(Top) /\ y \in Offsets(Top) /\ x \in Places /\ y \in Places
    BY <1>2, <1>3, <2>1, <2>2 DEF Offsets
  <2>4. indices' = Swapped(indices, x, y) /\ lower' = x + 1 /\ upper' = y
    BY <1>8, <2>1
  <2>5. Rearranges
    BY <1>1, <1>2, <2>2, <2>3, <2>4, SwapRearranges
  <2>6. /\ Value(x)' = Value(y) /\ Value(y)' = Value(x)
        /\ \A k \in Places : k # x /\ k # y => Value(k)' = Value(k)
    BY <1>1, <2>3, <2>4, SwappedValues
  <2>7. ASSUME NEW k \in Top.first .. x
        PROVE  BitAt(k)' = 0
    <3>1. CASE k = x
      BY <1>5, <2>2, <2>6, <3>1
    <3>2. CASE k # x
      <4>1. k \in Top.first .. lower - 1 /\ k # y /\ k \in Offsets(Top)
        BY <1>2, <1>3, <2>1, <2>3, <3>2 DEF Offsets
      <4>2. Value(k)' = Value(k)
        BY <1>2, <2>6, <3>2, <4>1
      <4>3. QED
        BY <1>3, <1>5, <4>1, <4>2
    <3>3. QED
      BY <3>1, <3>2
  <2>8. ASSUME NEW k \in y .. Top.last
        PROVE  BitAt(k)' # 0
    <3>1. CASE k = y
      BY <1>5, <2>2, <2>6, <3>1
    <3>2. CASE k # y
      <4>1. k \in upper .. Top.last /\ k # x /\ k \in Offsets(Top)
        BY <1>2, <1>3, <2>1, <2>3, <3>2 DEF Offsets
      <4>2. Value(k)' = Value(k)
        BY <1>2, <2>6, <3>2, <4>1
      <4>3. QED
        BY <1>3, <1>5, <4>1, <4>2
    <3>3. QED
      BY <3>1, <3>2
  <2>9. RadixLoop'
    <3>1. (x + 1) - 1 = x
      BY <2>2
    <3>2. /\ \A k \in Top.first .. lower' - 1 : BitAt(k)' = 0
          /\ \A k \in upper' .. Top.last : BitAt(k)' # 0
      BY <2>4, <2>7, <2>8, <3>1
    <3>3. Top.first <= lower' /\ lower' <= upper' /\ upper' <= Top.last + 1
      BY <1>2, <1>3, <2>1, <2>3, <2>4
    <3>4. QED
      BY <1>4, <3>2, <3>3 DEF RadixLoop
  <2>10. QED
    BY <1>1, <2>5, <2>9, RearrangedInv DEF LoopInv
<1>9. QED
  BY <1>6, <1>7, <1>8 DEF RadixNext

-------------------------------------------------------------------------------
(* Activations that end, go on, or call others.                            *)

LEMMA SplitInv ==
    ASSUME MidpointInv, Splits, pc' = "loop", UNCHANGED locals
    PROVE  MidpointInv'
<1>1. TypeInv /\ Apart /\ Pending /\ AgreeInv /\ HalvedInv
  BY DEF MidpointInv
<1>2. Apart' /\ (\A c \in DOMAIN calls : Placed(calls[c]))'
  BY <1>1, SplitApart
<1>3. Pending'
  BY <1>1, SplitPending
<1>4. AgreeInv' /\ HalvedInv'
  BY <1>1, SplitBounds
<1>5. TypeInv'
  <2>1. /\ values' = values /\ indices' = indices /\ calls' \in Seq(Activation)
        /\ Places' = Places
    BY DEF Splits, Places
  <2>2. QED
    BY <1>1, <1>2, <2>1 DEF TypeInv, locals
<1>6. LoopInv'
  BY DEF LoopInv
<1>7. QED
  BY <1>2, <1>3, <1>4, <1>5, <1>6 DEF MidpointInv

LEMMA ReturnSplits ==
    ASSUME TypeInv, calls # <<>>, Return, UNCHANGED <<values, indices>>, pc' = "loop",
           \A i, j \in Offsets(Top) : i < j => ~ (Value(i) > Value(j))
    PROVE  Splits /\ Shallow
<1>1. /\ calls' \in Seq(Activation) /\ Len(calls') = Len(calls) - 1
      /\ \A c \in 1 .. Len(calls) - 1 : calls'[c] = calls[c]
  BY ReturnShape
<1>2. Len(calls) \in Nat /\ Len(calls) .. Len(calls') = {}
  BY <1>1 DEF TypeInv
<1>3. Splits
  BY <1>1, <1>2 DEF Splits
<1>4. QED
  BY <1>1, <1>2, <1>3 DEF Shallow

LEMMA GoOnSplits ==
    ASSUME TypeInv, calls # <<>>, NEW call, GoOnAs(call), UNCHANGED <<values, indices>>,
           Placed(call), Offsets(call) = Offsets(Top), Agrees(call),
           Halved(call, pc' = "partition", pivot')
    PROVE  Splits /\ Shallow /\ calls' # <<>> /\ Top' = call
<1>1. call \in Activation
  BY DEF Placed
<1>2. /\ calls' \in Seq(Activation) /\ Len(calls') = Len(calls)
      /\ \A c \in 1 .. Len(calls) - 1 : calls'[c] = calls[c]
      /\ calls'[Len(calls)] = call
  BY <1>1, GoOnShape
<1>3. Len(calls) \in Nat \ {0} /\ Len(calls) .. Len(calls') = {Len(calls)}
  BY <1>2 DEF TypeInv
<1>4. /\ \A c \in Len(calls) .. Len(calls') : calls'[c] = call /\ c = Len(calls')
      /\ Len(calls) \in Len(calls) .. Len(calls')
  BY <1>2, <1>3
<1>5. \A c \in Len(calls) .. Len(calls') :
         /\ Placed(calls'[c]) /\ Offsets(calls'[c]) \subseteq Offsets(Top)
         /\ Agrees(calls'[c])
         /\ Halved(calls'[c], pc' = "partition" /\ c = Len(calls'), pivot')
  BY <1>4
<1>6. Splits
  BY <1>2, <1>3, <1>4, <1>5 DEF Splits
<1>7. calls' # <<>> /\ Top' = call
  BY <1>2, <1>3 DEF Top
<1>8. Shallow
  BY <1>2, <1>3 DEF Shallow
<1>9. QED
  BY <1>6, <1>7, <1>8

\* An activation the innermost one may go on as, or call.
Fits(call) ==
    /\ Placed(call) /\ Offsets(call) \subseteq Offsets(Top)
    /\ Agrees(call) /\ Halved(call, FALSE, pivot)

LEMMA CallThenSplits ==
    ASSUME TypeInv, calls # <<>>, NEW callee, NEW rest, CallThen(callee, rest),
           UNCHANGED <<values, indices>>, pc' = "loop", Fits(callee), Fits(rest),
           Offsets(callee) \cap Offsets(rest) = {},
           \A i, j \in Offsets(Top) : i < j /\ Value(i) > Value(j) =>
              \/ i \in Offsets(callee) /\ j \in Offsets(callee)
              \/ i \in Offsets(rest) /\ j \in Offsets(rest)
    PROVE  Splits
<1>1. callee \in Activation /\ rest \in Activation
  BY DEF Fits, Placed
<1>2. /\ calls' \in Seq(Activation) /\ Len(calls') = Len(calls) + 1
      /\ \A c \in 1 .. Len(calls) - 1 : calls'[c] = calls[c]
      /\ calls'[Len(calls)] = rest /\ calls'[Len(calls) + 1] = callee
  BY <1>1, CallThenShape
<1>3. PICK m : m = Len(calls)
  OBVIOUS
<1>4. m \in Nat \ {0} /\ Len(calls') = m + 1 /\ \A c \in m .. m + 1 : c = m \/ c = m + 1
  BY <1>2, <1>3 DEF TypeInv
<1>5. calls'[m] = rest /\ calls'[m + 1] = callee /\ m \in m .. m + 1 /\ m + 1 \in m .. m + 1
  BY <1>2, <1>3, <1>4
<1>6. \A c \in m .. m + 1 : calls'[c] = rest \/ calls'[c] = callee
  BY <1>4, <1>5
<1>7. \A call : Halved(call, FALSE, pivot) => Halved(call, FALSE, pivot')
  BY DEF Halved
<1>8. ASSUME NEW c \in m .. m + 1
      PROVE  /\ Placed(calls'[c]) /\ Offsets(calls'[c]) \subseteq Offsets(Top)
             /\ Agrees(calls'[c])
             /\ Halved(calls'[c], pc' = "partition" /\ c = Len(calls'), pivot')
  <2>1. ~ (pc' = "partition" /\ c = Len(calls'))
    OBVIOUS
  <2>2. Halved(calls'[c], FALSE, pivot')
    BY <1>6, <1>7 DEF Fits
  <2>3. QED
    BY <1>6, <2>1, <2>2 DEF Fits
<1>9. \A c, d \in m .. m + 1 : c # d => Offsets(calls'[c]) \cap Offsets(calls'[d]) = {}
  BY <1>4, <1>5
<1>10. \A i, j \in Offsets(Top) : i < j /\ Value(i) > Value(j) =>
          \E c \in m .. m + 1 : i \in Offsets(calls'[c]) /\ j \in Offsets(calls'[c])
  BY <1>5
<1>11. Len(calls') >= Len(calls) - 1
  BY <1>3, <1>4
<1>12. QED
  BY <1>2, <1>3, <1>4, <1>8, <1>9, <1>10, <1>11 DEF Splits

\* The recursion of midpoint_sort is for the smaller side.
LEMMA SidesShallow ==
    ASSUME TypeInv, calls # <<>>, NEW below \in Activation, NEW above \in Activation,
           Sides(below, above)
    PROVE  Shallow
<1>1. Size(below) \in Int /\ Size(above) \in Int
  BY DEF Size, Activation
<1>2. CASE Size(below) < Size(above)
  <2>1. CallThen(below, above)
    BY <1>2 DEF Sides
  <2>2. Len(calls') = Len(calls) + 1 /\ calls'[Len(calls)] = above
        /\ calls'[Len(calls) + 1] = below
    BY <2>1, CallThenShape
  <2>3. QED
    BY <1>1, <1>2, <2>2 DEF Shallow
<1>3. CASE ~ (Size(below) < Size(above))
  <2>1. CallThen(above, below)
    BY <1>3 DEF Sides
  <2>2. Len(calls') = Len(calls) + 1 /\ calls'[Len(calls)] = below
        /\ calls'[Len(calls) + 1] = above
    BY <2>1, CallThenShape
  <2>3. QED
    BY <1>1, <1>3, <2>2 DEF Shallow
<1>4. QED
  BY <1>2, <1>3

-------------------------------------------------------------------------------
(* The values of a region.                                                 *)

LEMMA RegionValues ==
    ASSUME TypeInv, NEW call, Placed(call), Offsets(call) # {}
    PROVE  /\ Offsets(call) \subseteq Places
           /\ ValuesOf(call) \in SUBSET (0 .. PowerOfTwo(BITS) - 1) /\ ValuesOf(call) # {}
           /\ \A k \in Offsets(call) : Value(k) \in ValuesOf(call)
           /\ \A v \in ValuesOf(call) : \E k \in Offsets(call) : v = Value(k)
<1>1. Offsets(call) \subseteq Places
  <2>1. Len(values) \in Nat
    BY DEF TypeInv
  <2>2. QED
    BY <2>1 DEF Placed, Activation, Offsets, Places
<1>2. \A k \in Offsets(call) : Value(k) \in U64
  BY <1>1, ValueType
<1>3. ValuesOf(call) = {Value(k) : k \in Offsets(call)}
  BY DEF ValuesOf, Offsets
<1>4. QED
  BY <1>1, <1>2, <1>3 DEF U64

\* The least and the greatest of them.
LEMMA RegionBounds ==
    ASSUME TypeInv, NEW call, Placed(call), Offsets(call) # {}
    PROVE  \E a, b \in Offsets(call) :
              /\ Min(ValuesOf(call)) = Value(a) /\ Max(ValuesOf(call)) = Value(b)
              /\ \A k \in Offsets(call) : Value(a) <= Value(k) /\ Value(k) <= Value(b)
<1>1. PICK S, n : S = ValuesOf(call) /\ n = PowerOfTwo(BITS) - 1
  OBVIOUS
<1>2. S \in SUBSET (0 .. n) /\ S # {}
  BY <1>1, RegionValues
<1>3. n \in Nat
  <2>1. S \subseteq 0 .. n /\ \E x \in S : TRUE
    BY <1>2
  <2>2. n \in Int
    BY <1>1, PowerType, BITSAssumption
  <2>3. QED
    BY <2>1, <2>2
<1>4. /\ Min(S) \in S /\ \A x \in S : Min(S) <= x
      /\ Max(S) \in S /\ \A x \in S : x <= Max(S)
  BY <1>2, <1>3, MinMaxOf
<1>5. /\ \A k \in Offsets(call) : Value(k) \in S
      /\ \A v \in S : \E k \in Offsets(call) : v = Value(k)
  BY <1>1, RegionValues
<1>6. PICK a, b \in Offsets(call) : Min(S) = Value(a) /\ Max(S) = Value(b)
  BY <1>4, <1>5
<1>7. \A k \in Offsets(call) : Value(a) <= Value(k) /\ Value(k) <= Value(b)
  BY <1>4, <1>5, <1>6
<1>8. QED
  BY <1>1, <1>6, <1>7

\* All values are within the whole range.
LEMMA WholeRangeSpans ==
    ASSUME TypeInv, NEW i \in Places, NEW j \in Places
    PROVE  WholeRange \in Nat /\ Value(i) - Value(j) <= WholeRange
<1>1. PICK S, n : S = Range(values) /\ n = PowerOfTwo(BITS) - 1
  OBVIOUS
<1>2. /\ \A k \in Places : Value(k) \in S
      /\ DOMAIN values = Places /\ \A k \in Places : values[k] \in 0 .. n
  <2>1. DOMAIN values = 1 .. Len(values) /\ \A k \in 1 .. Len(values) : values[k] \in U64
    BY DEF TypeInv
  <2>2. \A k \in Places : indices[k] \in Places
    BY DEF TypeInv
  <2>3. \A k \in Places : values[k] \in S
    BY <1>1, <2>1 DEF Places, Range
  <2>4. \A k \in Places : Value(k) \in S
    BY <2>2, <2>3 DEF Value
  <2>5. QED
    BY <1>1, <2>1, <2>4 DEF Places, U64
<1>3. S \in SUBSET (0 .. n) /\ S # {}
  <2>1. S = {values[k] : k \in Places}
    BY <1>1, <1>2 DEF Range
  <2>2. QED
    BY <1>2, <2>1
<1>4. n \in Nat
  <2>1. \E x \in S : x \in 0 .. n
    BY <1>3
  <2>2. n \in Int
    BY <1>1, PowerType, BITSAssumption
  <2>3. QED
    BY <2>1, <2>2
<1>5. /\ Min(S) \in S /\ \A x \in S : Min(S) <= x
      /\ Max(S) \in S /\ \A x \in S : x <= Max(S)
  BY <1>3, <1>4, MinMaxOf
<1>6. PICK low, high : low = Min(S) /\ high = Max(S)
  OBVIOUS
<1>7. /\ low \in Nat /\ high \in Nat /\ low <= high
      /\ Value(i) \in Nat /\ Value(j) \in Nat /\ Value(i) <= high /\ low <= Value(j)
  <2>1. low \in S /\ high \in S /\ Value(i) \in S /\ Value(j) \in S
    BY <1>2, <1>5, <1>6
  <2>2. \A x \in S : x \in Nat
    BY <1>3
  <2>3. \A x \in S : low <= x /\ x <= high
    BY <1>5, <1>6
  <2>4. QED
    BY <2>1, <2>2, <2>3
<1>8. WholeRange = high - low
  BY <1>1, <1>6 DEF WholeRange
<1>9. QED
  BY <1>7, <1>8

LEMMA PowerOfZero == PowerOfTwo(0) = 1
  BY DEF PowerOfTwo

-------------------------------------------------------------------------------
(* midpoint_sort.                                                          *)

LEMMA InitInv == Init => MidpointInv
<1> SUFFICES ASSUME Init PROVE MidpointInv
  OBVIOUS
<1>1. PICK width \in 0 .. BITS, n \in 2 .. MaxLen : values \in [1 .. n -> BucketRange(width)]
  BY DEF Init
<1>2. BucketRange(width) \subseteq U64
  <2>1. width \in Nat /\ BITS \in Nat
    BY BITSAssumption
  <2>2. PICK p, q : p = PowerOfTwo(width) /\ q = PowerOfTwo(BITS)
    OBVIOUS
  <2>3. p \in Nat /\ q \in Nat /\ p <= q
    <3>1. width = BITS \/ width < BITS
      BY <2>1
    <3>2. QED
      BY <2>1, <2>2, <3>1, PowerType, PowerIncreases
  <2>4. CASE width = 0
    <3>1. q > 0
      <4>1. PowerOfTwo(0) < PowerOfTwo(BITS)
        BY BITSAssumption, PowerIncreases
      <4>2. QED
        BY <2>2, <2>3, <4>1, PowerOfZero
    <3>2. QED
      BY <2>2, <2>3, <2>4, <3>1 DEF BucketRange, U64
  <2>5. CASE width # 0
    <3>1. BucketRange(width) = PowerOfTwo(width - 1) .. p - 1
      BY <2>2, <2>5 DEF BucketRange
    <3>2. PowerOfTwo(width - 1) \in Nat
      BY <2>1, <2>5, PowerType
    <3>3. QED
      BY <2>2, <2>3, <3>1, <3>2 DEF U64
  <2>6. QED
    BY <2>4, <2>5
<1>3. n \in Nat \ {0} /\ Len(values) = n /\ values \in Seq(U64)
  BY <1>1, <1>2, SortAssumption
<1>4. PICK outermost : outermost = Call("midpoint", 1, n, MIDPOINT_PARTITION_BUDGET)
  OBVIOUS
<1>5. calls = <<outermost>> /\ indices = [k \in 1 .. n |-> k] /\ Places = 1 .. n
  BY <1>3, <1>4 DEF Init, Places
<1>6. /\ outermost.kind = "midpoint" /\ outermost.left = MIDPOINT_PARTITION_BUDGET
      /\ outermost \in Activation /\ Placed(outermost) /\ Offsets(outermost) = Places
  BY <1>3, <1>4, <1>5, SortAssumption DEF Call, Activation, Placed, Offsets
<1>7. DOMAIN calls = {1} /\ calls[1] = outermost /\ calls \in Seq(Activation)
  BY <1>5, <1>6
<1>8. TypeInv
  <2>1. \A id \in Places : \E k \in Places : indices[k] = id
    BY <1>5
  <2>2. QED
    BY <1>3, <1>5, <1>6, <1>7, <2>1 DEF Init, TypeInv
<1>9. Apart /\ Pending /\ AgreeInv /\ LoopInv
  BY <1>6, <1>7 DEF Init, Apart, Pending, AgreeInv, Agrees, LoopInv
<1>10. HalvedInv
  <2>1. pc = "loop"
    BY DEF Init
  <2>2. PowerOfTwo(MIDPOINT_PARTITION_BUDGET - outermost.left) = 1
    <3>1. MIDPOINT_PARTITION_BUDGET - outermost.left = 0
      BY <1>6, SortAssumption
    <3>2. QED
      BY <3>1, PowerOfZero
  <2>3. \A i, j \in Places : (Value(i) - Value(j)) * 1 <= WholeRange
    BY <1>8, ValueType, WholeRangeSpans
  <2>4. QED
    BY <1>6, <1>7, <2>1, <2>2, <2>3, SortAssumption DEF HalvedInv, Halved
<1>11. QED
  BY <1>8, <1>9, <1>10 DEF MidpointInv

\* What every action at the head of a loop finds.
LEMMA AtLoopFinds ==
    ASSUME MidpointInv, NEW kind, AtLoop(kind)
    PROVE  /\ TypeInv /\ calls # <<>> /\ pc = "loop" /\ Top.kind = kind
           /\ Top \in Activation /\ Placed(Top)
           /\ Agrees(Top) /\ Halved(Top, FALSE, pivot)
<1>1. TypeInv /\ calls # <<>> /\ pc = "loop" /\ Top.kind = kind
  BY DEF MidpointInv, AtLoop
<1>2. Len(calls) \in DOMAIN calls /\ Top \in Activation /\ Placed(Top)
  BY <1>1, TopType
<1>3. Agrees(Top) /\ Halved(Top, FALSE, pivot)
  <2>1. Agrees(calls[Len(calls)])
        /\ Halved(calls[Len(calls)], pc = "partition" /\ Len(calls) = Len(calls), pivot)
    BY <1>2 DEF MidpointInv, AgreeInv, HalvedInv
  <2>2. (pc = "partition" /\ Len(calls) = Len(calls)) = FALSE
    BY <1>1
  <2>3. QED
    BY <2>1, <2>2 DEF Top
<1>4. QED
  BY <1>1, <1>2, <1>3

LEMMA BeginInsertionKeeps ==
    ASSUME MidpointInv, BeginInsertion
    PROVE  MidpointInv'
<1>1. /\ TypeInv /\ calls # <<>> /\ pc = "loop" /\ Top.kind = "midpoint"
      /\ Top \in Activation
  BY AtLoopFinds DEF BeginInsertion
<1>2. /\ UNCHANGED <<values, indices, calls, pivot, lower, upper>>
      /\ pc' = "insertion" /\ scan' = Top.first + 1
  BY DEF BeginInsertion
<1>3. Top.first \in Int /\ Top' = Top
  BY <1>1, <1>2 DEF Activation, Top
<1>4. TypeInv'
  BY <1>1, <1>2, <1>3 DEF TypeInv, Placed, Places
<1>5. Apart' /\ Pending' /\ AgreeInv'
  BY <1>2 DEF MidpointInv, Apart, Pending, AgreeInv, Agrees, Offsets, Places, Value
<1>6. HalvedInv'
  BY <1>1, <1>2 DEF MidpointInv, HalvedInv, Halved, Offsets, Value, WholeRange
<1>7. LoopInv'
  <2>1. (Top.first + 1) - 1 = Top.first /\ Top.first < Top.first + 1
    BY <1>3
  <2>2. \A i, j \in Top.first .. Top.first : ~ (i < j)
    BY <1>3
  <2>3. InsertionLoop'
    BY <1>2, <1>3, <2>1, <2>2 DEF InsertionLoop
  <2>4. QED
    BY <1>2, <2>3 DEF LoopInv
<1>8. QED
  BY <1>4, <1>5, <1>6, <1>7 DEF MidpointInv

\* Looked at from the highest bit, all values of a word agree.
LEMMA FallBackKeeps ==
    ASSUME MidpointInv, FallBack
    PROVE  MidpointInv' /\ Splits /\ Shallow
<1>1. /\ TypeInv /\ calls # <<>> /\ pc = "loop" /\ Top \in Activation /\ Placed(Top)
  BY AtLoopFinds DEF FallBack
<1>2. PICK call : call = Call("radix", Top.first, Top.last, BITS)
  OBVIOUS
<1>3. GoOnAs(call) /\ UNCHANGED <<values, indices, pc, locals>>
  BY <1>2 DEF FallBack
<1>4. /\ call.kind = "radix" /\ call.left = BITS /\ Placed(call)
      /\ Offsets(call) = Offsets(Top)
  BY <1>1, <1>2, BITSAssumption DEF Call, Placed, Activation, Offsets
<1>5. Agrees(call)
  <2>1. \A k \in Offsets(Top) : Value(k) \div PowerOfTwo(BITS) = 0
    <3>1. SUFFICES ASSUME NEW k \in Offsets(Top)
                   PROVE  Value(k) \div PowerOfTwo(BITS) = 0
      OBVIOUS
    <3>2. Value(k) \in 0 .. PowerOfTwo(BITS) - 1 /\ PowerOfTwo(BITS) \in Nat
      BY <1>1, TopType, ValueType, PowerType, BITSAssumption DEF U64
    <3>3. QED
      BY <3>2, Z3
  <2>2. QED
    BY <1>4, <2>1 DEF Agrees
<1>6. Halved(call, pc' = "partition", pivot')
  BY <1>4 DEF Halved
<1>7. Splits /\ Shallow
  BY <1>1, <1>3, <1>4, <1>5, <1>6, GoOnSplits
<1>8. QED
  BY <1>1, <1>3, <1>7, SplitInv

LEMMA AllEqualKeeps ==
    ASSUME MidpointInv, AllEqual
    PROVE  MidpointInv' /\ Splits /\ Shallow
<1>1. /\ TypeInv /\ calls # <<>> /\ pc = "loop" /\ Placed(Top)
  BY AtLoopFinds DEF AllEqual
<1>2. /\ Return /\ UNCHANGED <<values, indices, pc, locals>>
      /\ Min(ValuesOf(Top)) = Max(ValuesOf(Top))
  BY DEF AllEqual
<1>3. \A i, j \in Offsets(Top) : i < j => ~ (Value(i) > Value(j))
  <2>1. SUFFICES ASSUME NEW i \in Offsets(Top), NEW j \in Offsets(Top)
                 PROVE  ~ (Value(i) > Value(j))
    OBVIOUS
  <2>2. PICK a, b \in Offsets(Top) :
           /\ Min(ValuesOf(Top)) = Value(a) /\ Max(ValuesOf(Top)) = Value(b)
           /\ \A k \in Offsets(Top) : Value(a) <= Value(k) /\ Value(k) <= Value(b)
    BY <1>1, RegionBounds
  <2>3. \A k \in Offsets(Top) : Value(k) \in Nat
    BY <1>1, TopType, ValueType
  <2>4. Value(a) = Value(b)
    BY <1>2, <2>2
  <2>5. Value(i) <= Value(b) /\ Value(a) <= Value(j) /\ Value(i) \in Nat /\ Value(j) \in Nat
    BY <2>2, <2>3
  <2>6. PICK v : v = Value(a) /\ v \in Nat
    BY <2>3
  <2>7. QED
    BY <2>4, <2>5, <2>6
<1>4. Splits /\ Shallow
  BY <1>1, <1>2, <1>3, ReturnSplits
<1>5. QED
  BY <1>1, <1>2, <1>4, SplitInv

LEMMA ProductMonotone ==
    ASSUME NEW x \in Int, NEW y \in Int, NEW p \in Nat, x <= y
    PROVE  x * p <= y * p
  BY Z3

\* Before a region is partitioned: whatever the pivot is chosen from, the values
\* on one side of it span half of what all of them do.
LEMMA SidesHalved ==
    ASSUME TypeInv, NEW call, Placed(call), call.kind = "midpoint", call.left > 0,
           Halved(call, FALSE, pivot),
           NEW i \in Offsets(call), NEW j \in Offsets(call),
           SameSide(i, j, Pivot(ValuesOf(call)))
    PROVE  (Value(i) - Value(j)) * PowerOfTwo(MIDPOINT_PARTITION_BUDGET - (call.left - 1))
             <= WholeRange
<1>1. PICK a, b \in Offsets(call) :
         /\ Min(ValuesOf(call)) = Value(a) /\ Max(ValuesOf(call)) = Value(b)
         /\ \A k \in Offsets(call) : Value(a) <= Value(k) /\ Value(k) <= Value(b)
  BY RegionBounds
<1>2. /\ Value(i) \in Nat /\ Value(j) \in Nat /\ Value(a) \in Nat /\ Value(b) \in Nat
      /\ Value(i) <= Value(b) /\ Value(a) <= Value(j)
  <2>1. Offsets(call) \subseteq Places
    BY RegionValues
  <2>2. QED
    BY <1>1, <2>1, ValueType
<1>3. PICK S, n, p : S = ValuesOf(call) /\ n = PowerOfTwo(BITS) - 1 /\ p = Pivot(S)
  OBVIOUS
<1>4. S \in SUBSET (0 .. n) /\ S # {} /\ Value(i) \in S /\ Value(j) \in S
  BY <1>3, RegionValues
<1>5. n \in Nat
  <2>1. n \in Int /\ \E x \in S : x \in 0 .. n
    BY <1>3, <1>4, PowerType, BITSAssumption
  <2>2. QED
    BY <2>1
<1>6. /\ \A u \in S : u < p => 2 * (u - Min(S)) <= Max(S) - Min(S)
      /\ \A u \in S : u > p => 2 * (Max(S) - u) <= Max(S) - Min(S)
  BY <1>3, <1>4, <1>5, PivotHalvesRange
<1>7. Min(S) = Value(a) /\ Max(S) = Value(b)
  BY <1>1, <1>3
<1>8. 2 * (Value(i) - Value(j)) <= Value(b) - Value(a)
  <2>1. CASE Value(i) < p /\ Value(j) < p
    <3>1. 2 * (Value(i) - Value(a)) <= Value(b) - Value(a)
      BY <1>4, <1>6, <1>7, <2>1
    <3>2. QED
      BY <1>2, <3>1
  <2>2. CASE Value(i) > p /\ Value(j) > p
    <3>1. 2 * (Value(b) - Value(j)) <= Value(b) - Value(a)
      BY <1>4, <1>6, <1>7, <2>2
    <3>2. QED
      BY <1>2, <3>1
  <2>3. QED
    BY <1>3, <2>1, <2>2 DEF SameSide
<1>9. PICK d : d = MIDPOINT_PARTITION_BUDGET - call.left
  OBVIOUS
<1>10. /\ d \in Nat /\ MIDPOINT_PARTITION_BUDGET - (call.left - 1) = d + 1
  BY <1>9, SortAssumption DEF Halved, Placed, Activation
<1>11. PICK q : q = PowerOfTwo(d)
  OBVIOUS
<1>12. q \in Nat /\ PowerOfTwo(d + 1) = q + q
  BY <1>10, <1>11, PowerType, PowerDoubles
<1>13. (Value(b) - Value(a)) * q <= WholeRange
  BY <1>9, <1>11 DEF Halved
<1>14. 2 * (Value(i) - Value(j)) * q <= (Value(b) - Value(a)) * q
  <2>1. 2 * (Value(i) - Value(j)) \in Int /\ Value(b) - Value(a) \in Int
    BY <1>2
  <2>2. QED
    BY <1>8, <1>12, <2>1, ProductMonotone
<1>15. PICK x, y, w : x = Value(i) - Value(j) /\ y = (Value(b) - Value(a)) * q /\ w = WholeRange
  OBVIOUS
<1>16. x \in Int /\ y \in Int /\ w \in Int
  <2>1. Value(b) - Value(a) \in Int
    BY <1>2
  <2>2. (Value(b) - Value(a)) * q \in Int
    BY <1>12, <2>1, Z3
  <2>3. WholeRange \in Nat
    BY RegionValues, WholeRangeSpans
  <2>4. QED
    BY <1>2, <1>15, <2>2, <2>3
<1>17. x * (q + q) <= w
  <2>1. x * (q + q) = 2 * x * q
    BY <1>12, <1>16, Z3
  <2>2. 2 * x * q <= y /\ y <= w
    BY <1>13, <1>14, <1>15
  <2>3. x * (q + q) \in Int
    BY <1>12, <1>16, Z3
  <2>4. QED
    BY <1>16, <2>1, <2>2, <2>3
<1>18. QED
  BY <1>10, <1>12, <1>15, <1>17

LEMMA BeginPartitionKeeps ==
    ASSUME MidpointInv, BeginPartition
    PROVE  MidpointInv' /\ Splits /\ Shallow
<1>1. /\ TypeInv /\ calls # <<>> /\ pc = "loop" /\ Top.kind = "midpoint"
      /\ Top \in Activation /\ Placed(Top) /\ Halved(Top, FALSE, pivot)
  BY AtLoopFinds DEF BeginPartition
<1>2. PICK top, call : top = Top /\ call = [top EXCEPT !.left = @ - 1]
  OBVIOUS
<1>3. /\ GoOnAs(call) /\ UNCHANGED <<values, indices>> /\ pc' = "partition"
      /\ pivot' = Pivot(ValuesOf(top)) /\ lower' = top.first /\ scan' = top.first
      /\ upper' = top.last + 1 /\ top.left > 0 /\ Size(top) > INSERTION_SORT_CUTOFF
  BY <1>2 DEF BeginPartition
<1>4. /\ top.first \in Nat \ {0} /\ top.last \in Nat /\ top.left \in Nat \ {0}
      /\ top.kind = "midpoint" /\ top.first <= top.last
  BY <1>1, <1>2, <1>3, SortAssumption DEF Activation, Size
<1>5. /\ call.kind = "midpoint" /\ call.first = top.first /\ call.last = top.last
      /\ call.left = top.left - 1 /\ call \in Activation
  BY <1>1, <1>2, <1>4 DEF Activation
<1>6. Placed(call) /\ Offsets(call) = Offsets(Top) /\ Agrees(call)
  BY <1>1, <1>2, <1>5 DEF Placed, Offsets, Agrees
<1>7. Halved(call, TRUE, pivot')
  <2>1. call.left <= MIDPOINT_PARTITION_BUDGET
    BY <1>1, <1>2, <1>4, <1>5, SortAssumption DEF Halved
  <2>2. ASSUME NEW i \in Offsets(call), NEW j \in Offsets(call),
               SameSide(i, j, Pivot(ValuesOf(top)))
        PROVE  (Value(i) - Value(j)) * PowerOfTwo(MIDPOINT_PARTITION_BUDGET - call.left)
                 <= WholeRange
    <3>1. i \in Offsets(top) /\ j \in Offsets(top)
      BY <1>2, <1>6
    <3>2. Placed(top) /\ Halved(top, FALSE, pivot) /\ top.kind = "midpoint" /\ top.left > 0
      BY <1>1, <1>2, <1>3
    <3>3. (Value(i) - Value(j)) * PowerOfTwo(MIDPOINT_PARTITION_BUDGET - (top.left - 1))
            <= WholeRange
      BY <1>1, <2>2, <3>1, <3>2, SidesHalved
    <3>4. QED
      BY <1>5, <3>3
  <2>3. QED
    BY <1>3, <2>1, <2>2 DEF Halved
<1>8. Splits /\ Shallow /\ calls' # <<>> /\ Top' = call
  <2>1. Halved(call, pc' = "partition", pivot')
    BY <1>3, <1>7
  <2>2. QED
    BY <1>1, <1>3, <1>6, <2>1, GoOnSplits
<1>9. Apart' /\ (\A c \in DOMAIN calls : Placed(calls[c]))'
  BY <1>1, <1>8, SplitApart DEF MidpointInv
<1>10. Pending' /\ AgreeInv' /\ HalvedInv'
  BY <1>1, <1>8, SplitPending, SplitBounds DEF MidpointInv
<1>11. pivot' \in Int
  <2>1. PICK S, n : S = ValuesOf(top) /\ n = PowerOfTwo(BITS) - 1
    OBVIOUS
  <2>2. S \in SUBSET (0 .. n) /\ S # {}
    <3>1. top.first \in Offsets(top)
      BY <1>4 DEF Offsets
    <3>2. QED
      BY <1>1, <1>2, <2>1, <3>1, RegionValues
  <2>3. n \in Nat
    <3>1. n \in Int /\ \E x \in S : x \in 0 .. n
      BY <2>1, <2>2, PowerType, BITSAssumption
    <3>2. QED
      BY <3>1
  <2>4. Pivot(S) \in S
    BY <2>2, <2>3, PivotHalvesRange
  <2>5. QED
    BY <1>3, <2>1, <2>2, <2>4
<1>12. TypeInv'
  <2>1. /\ values' = values /\ indices' = indices /\ calls' \in Seq(Activation)
        /\ Places' = Places
    BY <1>8 DEF Splits, Places
  <2>2. QED
    BY <1>1, <1>3, <1>4, <1>5, <1>8, <1>9, <1>11, <2>1 DEF TypeInv
<1>13. LoopInv'
  <2>1. /\ \A k \in top.first .. top.first - 1 : FALSE
        /\ \A k \in top.last + 1 .. top.last : FALSE
    BY <1>4
  <2>2. PartitionLoop'
    BY <1>3, <1>4, <1>5, <1>8, <2>1 DEF PartitionLoop
  <2>3. QED
    BY <1>3, <2>2 DEF LoopInv
<1>14. QED
  BY <1>8, <1>9, <1>10, <1>12, <1>13 DEF MidpointInv

LEMMA PartitionedKeeps ==
    ASSUME MidpointInv, Partitioned
    PROVE  MidpointInv' /\ Splits /\ Shallow
<1>1. /\ TypeInv /\ pc = "partition" /\ calls # <<>> /\ scan >= upper /\ PartitionLoop
      /\ UNCHANGED <<values, indices, locals>> /\ pc' = "loop" /\ Top.kind = "midpoint"
  BY DEF MidpointInv, Partitioned, LoopInv, TypeInv
<1>2. /\ Top \in Activation /\ Placed(Top) /\ Offsets(Top) \subseteq Places
      /\ Len(calls) \in DOMAIN calls
  BY <1>1, TopType
<1>3. /\ Top.first \in Nat \ {0} /\ Top.last \in Nat /\ Top.left \in Nat
      /\ Top.last <= Len(values) /\ Len(values) \in Nat
      /\ lower \in Int /\ scan \in Int /\ upper \in Int
  BY <1>1, <1>2 DEF TypeInv, Activation, Placed
<1>4. /\ Top.first <= lower /\ lower <= upper /\ scan = upper /\ upper <= Top.last + 1
      /\ \A k \in Top.first .. lower - 1 : Value(k) < pivot
      /\ \A k \in lower .. upper - 1 : Value(k) = pivot
      /\ \A k \in upper .. Top.last : Value(k) > pivot
  BY <1>1, <1>3 DEF PartitionLoop
<1>5. PICK below, above : /\ below = Call("midpoint", Top.first, lower - 1, Top.left)
                          /\ above = Call("midpoint", upper, Top.last, Top.left)
  OBVIOUS
<1>6. /\ below.kind = "midpoint" /\ below.left = Top.left
      /\ above.kind = "midpoint" /\ above.left = Top.left
      /\ Offsets(below) = Top.first .. lower - 1 /\ Offsets(above) = upper .. Top.last
  BY <1>5 DEF Call, Offsets
<1>7. /\ Placed(below) /\ Placed(above)
      /\ Offsets(below) \subseteq Offsets(Top) /\ Offsets(above) \subseteq Offsets(Top)
      /\ Offsets(below) \cap Offsets(above) = {}
  <2>1. Placed(below)
    BY <1>3, <1>4, <1>5 DEF Call, Placed, Activation
  <2>2. Placed(above)
    BY <1>3, <1>4, <1>5 DEF Call, Placed, Activation
  <2>3. Offsets(below) \subseteq Offsets(Top) /\ Offsets(above) \subseteq Offsets(Top)
    <3>1. Offsets(Top) = Top.first .. Top.last
      BY DEF Offsets
    <3>2. \A k \in Top.first .. lower - 1 : k \in Top.first .. Top.last
      BY <1>3, <1>4
    <3>3. \A k \in upper .. Top.last : k \in Top.first .. Top.last
      BY <1>3, <1>4
    <3>4. QED
      BY <1>6, <3>1, <3>2, <3>3
  <2>4. Offsets(below) \cap Offsets(above) = {}
    BY <1>3, <1>4, <1>6
  <2>5. QED
    BY <2>1, <2>2, <2>3, <2>4
<1>8. Halved(Top, TRUE, pivot)
  <2>1. Halved(calls[Len(calls)], pc = "partition" /\ Len(calls) = Len(calls), pivot)
    BY <1>2 DEF MidpointInv, HalvedInv
  <2>2. (pc = "partition" /\ Len(calls) = Len(calls)) = TRUE
    BY <1>1
  <2>3. QED
    BY <2>1, <2>2 DEF Top
<1>9. Halved(below, FALSE, pivot) /\ Halved(above, FALSE, pivot)
  <2>1. \A i, j \in Offsets(below) : SameSide(i, j, pivot)
    BY <1>4, <1>6 DEF SameSide
  <2>2. \A i, j \in Offsets(above) : SameSide(i, j, pivot)
    BY <1>4, <1>6 DEF SameSide
  <2>3. \A i, j \in Offsets(Top) : SameSide(i, j, pivot) =>
           (Value(i) - Value(j)) * PowerOfTwo(MIDPOINT_PARTITION_BUDGET - Top.left) <= WholeRange
    BY <1>1, <1>8 DEF Halved
  <2>4. Top.left <= MIDPOINT_PARTITION_BUDGET
    BY <1>1, <1>8 DEF Halved
  <2>5. \A i, j \in Offsets(below) :
           (Value(i) - Value(j)) * PowerOfTwo(MIDPOINT_PARTITION_BUDGET - Top.left) <= WholeRange
    BY <1>7, <2>1, <2>3
  <2>6. \A i, j \in Offsets(above) :
           (Value(i) - Value(j)) * PowerOfTwo(MIDPOINT_PARTITION_BUDGET - Top.left) <= WholeRange
    BY <1>7, <2>2, <2>3
  <2>7. QED
    BY <1>6, <2>4, <2>5, <2>6 DEF Halved
<1>10. Fits(below) /\ Fits(above)
  BY <1>6, <1>7, <1>9 DEF Fits, Agrees
<1>11. ASSUME NEW i \in Offsets(Top), NEW j \in Offsets(Top), i < j, Value(i) > Value(j)
       PROVE  \/ i \in Offsets(below) /\ j \in Offsets(below)
              \/ i \in Offsets(above) /\ j \in Offsets(above)
  <2>1. i \in Int /\ j \in Int /\ Value(i) \in Nat /\ Value(j) \in Nat /\ pivot \in Int
    <3>1. i \in Places /\ j \in Places
      BY <1>2
    <3>2. Value(i) \in Nat /\ Value(j) \in Nat
      BY <1>1, <3>1, ValueType
    <3>3. QED
      BY <1>1, <3>1, <3>2 DEF TypeInv, Places
  <2>2. \A k \in Offsets(Top) :
           k \in Top.first .. lower - 1 \/ k \in lower .. upper - 1 \/ k \in upper .. Top.last
    BY <1>3, <1>4 DEF Offsets
  <2>3. CASE i \in Top.first .. lower - 1
    BY <1>3, <1>4, <1>6, <1>11, <2>1, <2>2, <2>3
  <2>4. CASE i \in lower .. upper - 1
    BY <1>3, <1>4, <1>6, <1>11, <2>1, <2>2, <2>4
  <2>5. CASE i \in upper .. Top.last
    BY <1>3, <1>4, <1>6, <1>11, <2>1, <2>2, <2>5
  <2>6. QED
    BY <2>2, <2>3, <2>4, <2>5
<1>12. CallThen(below, above) \/ CallThen(above, below)
  BY <1>5 DEF Partitioned, Sides
<1>13. Splits
  <2>1. CASE CallThen(below, above)
    BY <1>1, <1>7, <1>10, <1>11, <2>1, CallThenSplits
  <2>2. CASE CallThen(above, below)
    <3>1. Offsets(above) \cap Offsets(below) = {}
      BY <1>7
    <3>2. \A i, j \in Offsets(Top) : i < j /\ Value(i) > Value(j) =>
             \/ i \in Offsets(above) /\ j \in Offsets(above)
             \/ i \in Offsets(below) /\ j \in Offsets(below)
      BY <1>11
    <3>3. QED
      BY <1>1, <1>10, <2>2, <3>1, <3>2, CallThenSplits
  <2>3. QED
    BY <1>12, <2>1, <2>2
<1>14. Shallow
  <2>1. below \in Activation /\ above \in Activation
    BY <1>7 DEF Placed
  <2>2. Sides(below, above)
    BY <1>5 DEF Partitioned
  <2>3. QED
    BY <1>1, <2>1, <2>2, SidesShallow
<1>15. QED
  BY <1>1, <1>13, <1>14, SplitInv

LEMMA InsertedKeeps ==
    ASSUME MidpointInv, Inserted
    PROVE  MidpointInv' /\ Splits /\ Shallow
<1>1. /\ TypeInv /\ pc = "insertion" /\ calls # <<>> /\ scan > Top.last /\ InsertionLoop
      /\ Return /\ UNCHANGED <<values, indices, locals>> /\ pc' = "loop"
  BY DEF MidpointInv, Inserted, LoopInv, TypeInv
<1>2. /\ Top.first \in Int /\ Top.last \in Int /\ scan \in Int
      /\ Offsets(Top) \subseteq Places
  BY <1>1, TopType DEF TypeInv, Activation
<1>3. \A k \in Offsets(Top) : k \in Top.first .. scan - 1 /\ Value(k) \in Nat
  BY <1>1, <1>2, ValueType DEF Offsets
<1>4. \A i, j \in Offsets(Top) : i < j => ~ (Value(i) > Value(j))
  BY <1>1, <1>3 DEF InsertionLoop
<1>5. Splits /\ Shallow
  BY <1>1, <1>4, ReturnSplits
<1>6. QED
  BY <1>1, <1>5, SplitInv

-------------------------------------------------------------------------------
(* msd_radix_sort.                                                         *)

LEMMA DivideByTwice ==
    ASSUME NEW v \in Nat, NEW p \in Nat \ {0}
    PROVE  /\ v \div p \in Nat /\ v \div (p + p) \in Nat
           /\ v \div p = 2 * (v \div (p + p)) + ((v \div p) % 2)
<1>1. (v \div p) \div 2 = v \div (2 * p)
  BY Z3
<1>2. v \div p \in Nat
  BY Z3
<1>3. 2 * p = p + p
  OBVIOUS
<1>4. PICK x : x = v \div p
  OBVIOUS
<1>5. x \in Nat /\ x = 2 * (x \div 2) + (x % 2) /\ x \div 2 \in Nat
  BY <1>2, <1>4
<1>6. QED
  BY <1>1, <1>3, <1>4, <1>5

LEMMA DivideMonotone ==
    ASSUME NEW v \in Nat, NEW w \in Nat, NEW p \in Nat \ {0}, v >= w
    PROVE  v \div p >= w \div p
  BY Z3

LEMMA BeginRadixKeeps ==
    ASSUME MidpointInv, BeginRadix
    PROVE  MidpointInv'
<1>1. /\ TypeInv /\ calls # <<>> /\ pc = "loop" /\ Top.kind = "radix"
      /\ Top \in Activation /\ Placed(Top)
  BY AtLoopFinds DEF BeginRadix
<1>2. /\ UNCHANGED <<values, indices, calls, pivot, scan>> /\ Top.left > 0
      /\ pc' = "radix" /\ lower' = Top.first /\ upper' = Top.last + 1
  BY DEF BeginRadix
<1>3. /\ Top.first \in Int /\ Top.last \in Int /\ Top.first <= Top.last + 1 /\ Top' = Top
  BY <1>1, <1>2 DEF Activation, Placed, Top
<1>4. TypeInv'
  BY <1>1, <1>2, <1>3 DEF TypeInv, Placed, Places
<1>5. Apart' /\ Pending' /\ AgreeInv'
  BY <1>2 DEF MidpointInv, Apart, Pending, AgreeInv, Agrees, Offsets, Places, Value
<1>6. HalvedInv'
  BY <1>1, <1>2 DEF MidpointInv, HalvedInv, Halved, Offsets, Value, WholeRange
<1>7. LoopInv'
  <2>1. /\ \A k \in Top.first .. Top.first - 1 : FALSE
        /\ \A k \in Top.last + 1 .. Top.last : FALSE
    BY <1>3
  <2>2. RadixLoop'
    BY <1>2, <1>3, <2>1 DEF RadixLoop
  <2>3. QED
    BY <1>2, <2>2 DEF LoopInv
<1>8. QED
  BY <1>4, <1>5, <1>6, <1>7 DEF MidpointInv

\* Without a bit to look at, the values of the region are equal.
LEMMA RadixReturnKeeps ==
    ASSUME MidpointInv, RadixReturn
    PROVE  MidpointInv' /\ Splits /\ Shallow
<1>1. /\ TypeInv /\ calls # <<>> /\ pc = "loop" /\ Top.kind = "radix"
      /\ Top \in Activation /\ Placed(Top) /\ Agrees(Top)
  BY AtLoopFinds DEF RadixReturn
<1>2. /\ Return /\ UNCHANGED <<values, indices, pc, locals>>
      /\ Size(Top) < 2 \/ Top.left = 0
  BY DEF RadixReturn
<1>3. Top.first \in Int /\ Top.last \in Int
  BY <1>1 DEF Activation
<1>4. \A i, j \in Offsets(Top) : i < j => ~ (Value(i) > Value(j))
  <2>1. SUFFICES ASSUME NEW i \in Offsets(Top), NEW j \in Offsets(Top), i < j
                 PROVE  ~ (Value(i) > Value(j))
    OBVIOUS
  <2>2. CASE Size(Top) < 2
    BY <1>3, <2>1, <2>2 DEF Size, Offsets
  <2>3. CASE Top.left = 0
    <3>1. Value(i) \div PowerOfTwo(0) = Value(j) \div PowerOfTwo(0)
      BY <1>1, <2>3 DEF Agrees
    <3>2. Value(i) \in Nat /\ Value(j) \in Nat
      BY <1>1, TopType, ValueType
    <3>3. Value(i) = Value(j)
      BY <3>1, <3>2, PowerOfZero
    <3>4. QED
      BY <3>2, <3>3
  <2>4. QED
    BY <1>2, <2>2, <2>3
<1>5. Splits /\ Shallow
  BY <1>1, <1>2, <1>4, ReturnSplits
<1>6. QED
  BY <1>1, <1>2, <1>5, SplitInv

LEMMA RadixSplitKeeps ==
    ASSUME MidpointInv, RadixSplit
    PROVE  MidpointInv' /\ Splits /\ Shallow
<1>1. /\ TypeInv /\ pc = "radix" /\ calls # <<>> /\ lower >= upper /\ RadixLoop
      /\ UNCHANGED <<values, indices, locals>> /\ pc' = "loop"
      /\ Top.kind = "radix" /\ Top.left > 0
  BY DEF MidpointInv, RadixSplit, LoopInv, TypeInv
<1>2. /\ Top \in Activation /\ Placed(Top) /\ Offsets(Top) \subseteq Places
      /\ Len(calls) \in DOMAIN calls
  BY <1>1, TopType
<1>3. /\ Top.first \in Nat \ {0} /\ Top.last \in Nat /\ Top.left \in Nat \ {0}
      /\ Top.last <= Len(values) /\ Len(values) \in Nat /\ lower \in Int /\ upper \in Int
  BY <1>1, <1>2 DEF TypeInv, Activation, Placed
<1>4. /\ Top.first <= lower /\ lower = upper /\ lower <= Top.last + 1
      /\ \A k \in Top.first .. lower - 1 : BitAt(k) = 0
      /\ \A k \in lower .. Top.last : BitAt(k) # 0
  BY <1>1, <1>3 DEF RadixLoop
<1>5. PICK zeros, ones : /\ zeros = RadixCall(Top.first, lower - 1)
                         /\ ones = RadixCall(lower, Top.last)
  OBVIOUS
<1>6. /\ zeros.kind = "radix" /\ zeros.left = Top.left - 1
      /\ ones.kind = "radix" /\ ones.left = Top.left - 1
      /\ Offsets(zeros) = Top.first .. lower - 1 /\ Offsets(ones) = lower .. Top.last
  BY <1>5 DEF RadixCall, Call, Offsets
<1>7. /\ Placed(zeros) /\ Placed(ones)
      /\ Offsets(zeros) \subseteq Offsets(Top) /\ Offsets(ones) \subseteq Offsets(Top)
      /\ Offsets(zeros) \cap Offsets(ones) = {}
  <2>1. Placed(zeros)
    BY <1>3, <1>4, <1>5 DEF RadixCall, Call, Placed, Activation
  <2>2. Placed(ones)
    BY <1>3, <1>4, <1>5 DEF RadixCall, Call, Placed, Activation
  <2>3. Offsets(zeros) \subseteq Offsets(Top) /\ Offsets(ones) \subseteq Offsets(Top)
    <3>1. Offsets(Top) = Top.first .. Top.last
      BY DEF Offsets
    <3>2. \A k \in Top.first .. lower - 1 : k \in Top.first .. Top.last
      BY <1>3, <1>4
    <3>3. \A k \in lower .. Top.last : k \in Top.first .. Top.last
      BY <1>3, <1>4
    <3>4. QED
      BY <1>6, <3>1, <3>2, <3>3
  <2>4. Offsets(zeros) \cap Offsets(ones) = {}
    BY <1>3, <1>4, <1>6
  <2>5. QED
    BY <2>1, <2>2, <2>3, <2>4
<1>8. PICK p : p = PowerOfTwo(Top.left - 1)
  OBVIOUS
<1>9. p \in Nat \ {0} /\ PowerOfTwo(Top.left) = p + p
  <2>1. Top.left - 1 \in Nat /\ (Top.left - 1) + 1 = Top.left
    BY <1>3
  <2>2. p \in Nat /\ PowerOfTwo(Top.left) = p + p
    BY <1>8, <2>1, PowerType, PowerDoubles
  <2>3. PowerOfTwo(Top.left - 1) < PowerOfTwo(Top.left)
    BY <1>3, <2>1, PowerIncreases
  <2>4. QED
    BY <1>8, <2>2, <2>3
\* What the values of the region have in common, and the bit they differ in.
<1>10. PICK high : high = [k \in Offsets(Top) |-> Value(k) \div (p + p)]
  OBVIOUS
<1>11. /\ \A k \in Offsets(Top) : /\ Value(k) \in Nat /\ high[k] \in Nat
                                  /\ Value(k) \div p = 2 * high[k] + BitAt(k)
       /\ \A i, j \in Offsets(Top) : high[i] = high[j]
  <2>1. ASSUME NEW k \in Offsets(Top)
        PROVE  /\ Value(k) \in Nat /\ high[k] \in Nat
               /\ Value(k) \div p = 2 * high[k] + BitAt(k)
    <3>1. Value(k) \in Nat
      BY <1>1, <1>2, ValueType
    <3>2. BitAt(k) = (Value(k) \div p) % 2
      BY <1>8 DEF BitAt
    <3>3. PICK v : v = Value(k)
      OBVIOUS
    <3>4. v \div (p + p) \in Nat /\ v \div p = 2 * (v \div (p + p)) + ((v \div p) % 2)
      BY <1>9, <3>1, <3>3, DivideByTwice
    <3>5. high[k] = v \div (p + p)
      BY <1>10, <3>3
    <3>6. QED
      BY <3>1, <3>2, <3>3, <3>4, <3>5
  <2>2. \A i, j \in Offsets(Top) : high[i] = high[j]
    <3>1. Agrees(calls[Len(calls)])
      BY <1>2 DEF MidpointInv, AgreeInv
    <3>2. \A i, j \in Offsets(Top) : Value(i) \div (p + p) = Value(j) \div (p + p)
      BY <1>1, <1>9, <3>1 DEF Agrees, Top
    <3>3. QED
      BY <1>10, <3>2
  <2>3. QED
    BY <2>1, <2>2
<1>12. /\ \A k \in Offsets(zeros) : BitAt(k) = 0
       /\ \A k \in Offsets(ones) : BitAt(k) = 1
  <2>1. \A k \in Offsets(Top) : BitAt(k) \in {0, 1}
    <3>1. SUFFICES ASSUME NEW k \in Offsets(Top) PROVE BitAt(k) \in {0, 1}
      OBVIOUS
    <3>2. PICK x : x = Value(k) \div p
      OBVIOUS
    <3>3. x \in Nat
      <4>1. Value(k) \in Nat
        BY <1>11
      <4>2. QED
        BY <1>9, <3>2, <4>1, DivideByTwice
    <3>4. BitAt(k) = x % 2
      BY <1>8, <3>2 DEF BitAt
    <3>5. QED
      BY <3>3, <3>4
  <2>2. QED
    BY <1>4, <1>6, <1>7, <2>1
<1>13. Agrees(zeros) /\ Agrees(ones)
  <2>1. \A i, j \in Offsets(zeros) : Value(i) \div p = Value(j) \div p
    BY <1>7, <1>11, <1>12
  <2>2. \A i, j \in Offsets(ones) : Value(i) \div p = Value(j) \div p
    BY <1>7, <1>11, <1>12
  <2>3. QED
    BY <1>6, <1>8, <2>1, <2>2 DEF Agrees
<1>14. Fits(zeros) /\ Fits(ones)
  BY <1>6, <1>7, <1>13 DEF Fits, Halved
<1>15. ASSUME NEW i \in Offsets(Top), NEW j \in Offsets(Top), i < j, Value(i) > Value(j)
       PROVE  \/ i \in Offsets(zeros) /\ j \in Offsets(zeros)
              \/ i \in Offsets(ones) /\ j \in Offsets(ones)
  <2>1. \A k \in Offsets(Top) : k \in Offsets(zeros) \/ k \in Offsets(ones)
    <3>1. \A k \in Top.first .. Top.last : k \in Top.first .. lower - 1 \/ k \in lower .. Top.last
      BY <1>3, <1>4
    <3>2. Offsets(Top) = Top.first .. Top.last
      BY DEF Offsets
    <3>3. QED
      BY <1>6, <3>1, <3>2
  <2>2. ~ (i \in Offsets(ones) /\ j \in Offsets(zeros))
    BY <1>3, <1>6, <1>15
  <2>3. ~ (i \in Offsets(zeros) /\ j \in Offsets(ones))
    <3>1. SUFFICES ASSUME i \in Offsets(zeros), j \in Offsets(ones) PROVE FALSE
      OBVIOUS
    <3>2. /\ Value(i) \div p = 2 * high[i] + 0 /\ Value(j) \div p = 2 * high[j] + 1
          /\ high[i] = high[j] /\ high[i] \in Nat
      BY <1>11, <1>12, <3>1
    <3>3. Value(i) \in Nat /\ Value(j) \in Nat /\ Value(i) >= Value(j)
      <4>1. Value(i) \in Nat /\ Value(j) \in Nat
        BY <1>11
      <4>2. QED
        BY <1>15, <4>1
    <3>4. Value(i) \div p >= Value(j) \div p
      BY <1>9, <3>3, DivideMonotone
    <3>5. QED
      BY <3>2, <3>4
  <2>4. QED
    BY <2>1, <2>2, <2>3
<1>16. CallThen(zeros, ones)
  BY <1>5 DEF RadixSplit
<1>17. Splits
  BY <1>1, <1>7, <1>14, <1>15, <1>16, CallThenSplits
<1>18. Shallow
  <2>1. zeros \in Activation /\ ones \in Activation
    BY <1>7 DEF Placed
  <2>2. Len(calls') = Len(calls) + 1 /\ calls'[Len(calls)] = ones
    BY <1>1, <1>16, <2>1, CallThenShape
  <2>3. QED
    BY <1>6, <2>2 DEF Shallow
<1>19. QED
  BY <1>1, <1>17, <1>18, SplitInv

-------------------------------------------------------------------------------
LEMMA MidpointInvKept == MidpointInv /\ [Next]_vars => MidpointInv'
<1> SUFFICES ASSUME MidpointInv, [Next]_vars PROVE MidpointInv'
  OBVIOUS
<1>1. CASE Next
  BY <1>1, BeginInsertionKeeps, FallBackKeeps, AllEqualKeeps, BeginPartitionKeeps,
     PartitionKeeps, PartitionedKeeps, InsertionKeeps, InsertedKeeps, RadixReturnKeeps,
     BeginRadixKeeps, RadixKeeps, RadixSplitKeeps DEF Next
<1>2. CASE UNCHANGED vars
  BY <1>2 DEF vars, MidpointInv, TypeInv, Apart, Pending, AgreeInv, HalvedInv, LoopInv,
     PartitionLoop, InsertionLoop, RadixLoop, Places, Placed, Agrees, Halved, SameSide,
     WholeRange, Offsets, Value, BitAt, Top
<1>3. QED
  BY <1>1, <1>2

\* Whatever the values, the cutoff and the budget: two IDs of a bucket are out of
\* order only as long as an activation has still to sort a region with both, and
\* the slice stays a permutation of the bucket.
THEOREM PendingUnsorted == Spec => []OnlyPendingUnsorted
<1>1. MidpointInv => OnlyPendingUnsorted
  <2> SUFFICES ASSUME MidpointInv PROVE OnlyPendingUnsorted
    OBVIOUS
  <2>1. TypeInv /\ Pending
    BY DEF MidpointInv
  <2>2. DOMAIN indices = Places /\ DOMAIN values = Places
    BY <2>1 DEF TypeInv, Places
  <2>3. {indices[k] : k \in DOMAIN indices} = DOMAIN values
    BY <2>1, <2>2 DEF TypeInv
  <2>4. ASSUME NEW i \in DOMAIN indices, NEW j \in DOMAIN indices, i < j, Value(i) > Value(j)
        PROVE  \E c \in DOMAIN calls : {i, j} \subseteq calls[c].first .. calls[c].last
    BY <2>1, <2>2, <2>4 DEF Pending, Offsets
  <2>5. QED
    BY <2>3, <2>4 DEF OnlyPendingUnsorted
<1>2. QED
  BY <1>1, InitInv, MidpointInvKept, PTL DEF Spec

\* When the outermost activation has returned, the bucket is ascending.
THEOREM BucketSorted ==
    Spec => [](calls = <<>> => \A i, j \in DOMAIN indices : i < j => Value(i) <= Value(j))
<1>1. MidpointInv =>
         (calls = <<>> => \A i, j \in DOMAIN indices : i < j => Value(i) <= Value(j))
  <2> SUFFICES ASSUME MidpointInv, calls = <<>>,
                      NEW i \in DOMAIN indices, NEW j \in DOMAIN indices, i < j
               PROVE  Value(i) <= Value(j)
    OBVIOUS
  <2>1. TypeInv /\ Pending
    BY DEF MidpointInv
  <2>2. i \in Places /\ j \in Places /\ DOMAIN calls = {}
    BY <2>1 DEF TypeInv
  <2>3. ~ (Value(i) > Value(j))
    BY <2>1, <2>2 DEF Pending
  <2>4. Value(i) \in Nat /\ Value(j) \in Nat
    BY <2>1, <2>2, ValueType
  <2>5. QED
    BY <2>3, <2>4
<1>2. QED
  BY <1>1, InitInv, MidpointInvKept, PTL DEF Spec

\* The budget of partitions is one of halvings of the range of values, which a
\* bucket of any length has the fewer of the narrower it is.
THEOREM BudgetHalves == Spec => []RangeHalved
<1>1. MidpointInv => RangeHalved
  <2> SUFFICES ASSUME MidpointInv, NEW c \in DOMAIN calls, calls[c].kind = "midpoint",
                      Size(calls[c]) > 0, pc = "loop"
               PROVE  (Max(ValuesOf(calls[c])) - Min(ValuesOf(calls[c])))
                          * PowerOfTwo(MIDPOINT_PARTITION_BUDGET - calls[c].left)
                        <= Max(Range(values)) - Min(Range(values))
    BY DEF RangeHalved
  <2>1. PICK call : call = calls[c]
    OBVIOUS
  <2>2. TypeInv /\ Placed(call) /\ call.kind = "midpoint" /\ Size(call) > 0
    BY <2>1 DEF MidpointInv, TypeInv
  <2>3. call.first \in Offsets(call)
    BY <2>2 DEF Placed, Activation, Size, Offsets
  <2>4. PICK a, b \in Offsets(call) :
           Min(ValuesOf(call)) = Value(a) /\ Max(ValuesOf(call)) = Value(b)
    BY <2>2, <2>3, RegionBounds
  <2>5. Halved(calls[c], pc = "partition" /\ c = Len(calls), pivot)
    BY DEF MidpointInv, HalvedInv
  <2>6. (Value(b) - Value(a)) * PowerOfTwo(MIDPOINT_PARTITION_BUDGET - call.left) <= WholeRange
    BY <2>1, <2>2, <2>5 DEF Halved
  <2>7. QED
    BY <2>1, <2>4, <2>6 DEF WholeRange
<1>2. QED
  BY <1>1, InitInv, MidpointInvKept, PTL DEF Spec

\* The values span less than the budget of partitions may halve.
Narrow ==
    MIDPOINT_PARTITION_BUDGET > 0 /\ WholeRange < PowerOfTwo(MIDPOINT_PARTITION_BUDGET - 1)

\* Then every activation has partitions left.
NoFallBack ==
    /\ WholeRange \in Nat
    /\ Narrow =>
          /\ stats.radix_fallbacks = 0
          /\ DOMAIN stats = {"pivot_probes", "midpoint_partitions", "swaps", "radix_fallbacks"}
          /\ \A c \in DOMAIN calls : calls[c].kind = "midpoint" /\ calls[c].left > 0

\* The last partition in the budget is never begun: it would have two values to
\* tell apart after all others have halved the range.
LEMMA PartitionsLeft ==
    ASSUME MidpointInv, Narrow, BeginPartition
    PROVE  Top.left > 1
<1>1. /\ TypeInv /\ Top.kind = "midpoint" /\ Top \in Activation /\ Placed(Top)
      /\ Halved(Top, FALSE, pivot) /\ calls # <<>>
  BY AtLoopFinds DEF BeginPartition
<1>2. /\ Top.left > 0 /\ Size(Top) > INSERTION_SORT_CUTOFF
      /\ Min(ValuesOf(Top)) # Max(ValuesOf(Top))
  BY DEF BeginPartition
<1>3. Top.first \in Offsets(Top)
  BY <1>1, <1>2, SortAssumption DEF Activation, Size, Offsets
<1>4. PICK a \in Offsets(Top), b \in Offsets(Top) :
         /\ Min(ValuesOf(Top)) = Value(a) /\ Max(ValuesOf(Top)) = Value(b)
         /\ \A k \in Offsets(Top) : Value(a) <= Value(k) /\ Value(k) <= Value(b)
  BY <1>1, <1>3, RegionBounds
<1>5. a \in Places /\ b \in Places
  BY <1>1, TopType
<1>6. Value(a) \in Nat /\ Value(b) \in Nat
  BY <1>1, <1>5, ValueType
<1>7. Value(b) - Value(a) >= 1
  BY <1>2, <1>4, <1>6
<1>8. SUFFICES ASSUME Top.left = 1 PROVE FALSE
  BY <1>1, <1>2 DEF Activation
<1>9. PICK x, p : x = Value(b) - Value(a) /\ p = PowerOfTwo(MIDPOINT_PARTITION_BUDGET - 1)
  OBVIOUS
<1>10. x * p <= WholeRange
  BY <1>1, <1>4, <1>8, <1>9 DEF Halved
<1>11. x \in Nat /\ p \in Nat
  <2>1. MIDPOINT_PARTITION_BUDGET - 1 \in Nat
    BY SortAssumption DEF Narrow
  <2>2. QED
    BY <1>6, <1>7, <1>9, <2>1, PowerType
<1>12. 1 * p <= x * p
  BY <1>7, <1>9, <1>11, ProductMonotone
<1>13. WholeRange \in Nat /\ WholeRange < p
  BY <1>1, <1>5, <1>9, WholeRangeSpans DEF Narrow
<1>14. x * p \in Int
  BY <1>11
<1>15. QED
  BY <1>10, <1>11, <1>12, <1>13, <1>14

LEMMA NoFallBackKept ==
    ASSUME MidpointInv, NoFallBack, [Next]_vars
    PROVE  NoFallBack'
<1>1. values' = values
  BY DEF Next, vars, BeginInsertion, FallBack, AllEqual, BeginPartition, PartitionNext,
     Partitioned, InsertNext, Inserted, RadixReturn, BeginRadix, RadixNext, RadixSplit
<1>2. SUFFICES ASSUME Narrow PROVE NoFallBack'
  BY <1>1 DEF NoFallBack, Narrow, WholeRange
<1>3. TypeInv
  BY DEF MidpointInv
<1>4. /\ WholeRange' \in Nat /\ stats.radix_fallbacks = 0
      /\ DOMAIN stats = {"pivot_probes", "midpoint_partitions", "swaps", "radix_fallbacks"}
      /\ \A c \in DOMAIN calls : calls[c].kind = "midpoint" /\ calls[c].left > 0
  BY <1>1, <1>2 DEF NoFallBack, WholeRange
<1>5. calls # <<>> => Top.kind = "midpoint" /\ Top.left > 0
  BY <1>3, <1>4, TopType DEF Top
<1>6. ASSUME stats' = stats \/ \E n : \/ Count("pivot_probes", n) \/ Count("swaps", n)
                                     \/ Count("midpoint_partitions", n)
      PROVE  /\ stats'.radix_fallbacks = 0 /\ DOMAIN stats' = DOMAIN stats
  BY <1>4, <1>6 DEF Count
<1>7. ASSUME Splits, stats'.radix_fallbacks = 0, DOMAIN stats' = DOMAIN stats,
             \A c \in Len(calls) .. Len(calls') :
                calls'[c].kind = "midpoint" /\ calls'[c].left > 0
      PROVE  NoFallBack'
  <2>1. \A c \in DOMAIN calls' : calls'[c].kind = "midpoint" /\ calls'[c].left > 0
    BY <1>3, <1>4, <1>7, SplitStack
  <2>2. QED
    BY <1>4, <1>7, <2>1 DEF NoFallBack
<1>8. CASE BeginInsertion \/ PartitionNext \/ InsertNext \/ UNCHANGED vars
  <2>1. calls' = calls
    BY <1>8 DEF BeginInsertion, PartitionNext, InsertNext, vars
  <2>2. stats' = stats \/ \E n : Count("swaps", n)
    BY <1>8 DEF BeginInsertion, PartitionNext, PlaceLess, PlaceEqual, PlaceGreater,
       InsertNext, vars
  <2>3. QED
    BY <1>4, <1>6, <2>1, <2>2 DEF NoFallBack
<1>9. CASE AllEqual \/ Inserted
  <2>1. Splits /\ Return /\ stats' = stats
    BY <1>9, AllEqualKeeps, InsertedKeeps DEF AllEqual, Inserted
  <2>2. Len(calls') = Len(calls) - 1 /\ Len(calls) \in Nat
    BY <1>3, <2>1, ReturnShape, SplitStack DEF Splits
  <2>3. Len(calls) .. Len(calls') = {}
    BY <2>2
  <2>4. QED
    BY <1>4, <1>7, <2>1, <2>3
<1>10. CASE BeginPartition
  <2>1. PICK top, call : top = Top /\ call = [top EXCEPT !.left = @ - 1]
    OBVIOUS
  <2>2. /\ Splits /\ calls # <<>> /\ GoOnAs(call) /\ top \in Activation /\ top.left > 1
        /\ Count("pivot_probes", Size(top) - 1)
    BY <1>2, <1>3, <1>10, <2>1, BeginPartitionKeeps, PartitionsLeft, TopType
       DEF BeginPartition, Splits
  <2>3. call \in Activation /\ call.kind = "midpoint" /\ call.left > 0
    BY <1>5, <2>1, <2>2 DEF Activation
  <2>4. Len(calls') = Len(calls) /\ calls'[Len(calls)] = call /\ Len(calls) \in Nat
    BY <1>3, <2>2, <2>3, GoOnShape, SplitStack
  <2>5. \A c \in Len(calls) .. Len(calls') : calls'[c] = call
    BY <2>4
  <2>6. QED
    BY <1>6, <1>7, <2>2, <2>3, <2>5
<1>11. CASE Partitioned
  <2>1. PICK top : top = Top
    OBVIOUS
  <2>2. PICK below, above : /\ below = Call("midpoint", top.first, lower - 1, top.left)
                            /\ above = Call("midpoint", upper, top.last, top.left)
    OBVIOUS
  <2>3. /\ Splits /\ calls # <<>> /\ Sides(below, above) /\ Count("midpoint_partitions", 1)
        /\ top \in Activation /\ top.left > 0 /\ PartitionLoop /\ scan >= upper
        /\ lower \in Int /\ scan \in Int /\ upper \in Int
    BY <1>3, <1>5, <1>11, <2>1, <2>2, PartitionedKeeps, TopType
       DEF Partitioned, Splits, MidpointInv, LoopInv, TypeInv
  <2>4. lower - 1 \in Nat /\ upper \in Nat \ {0}
    BY <2>1, <2>3 DEF PartitionLoop, Activation
  <2>5. /\ below \in Activation /\ below.kind = "midpoint" /\ below.left > 0
        /\ above \in Activation /\ above.kind = "midpoint" /\ above.left > 0
    BY <2>2, <2>3, <2>4 DEF Call, Activation
  <2>6. PICK len : len = Len(calls)
    OBVIOUS
  <2>7. /\ Len(calls') = len + 1 /\ len \in Nat
        /\ calls'[len] \in {below, above} /\ calls'[len + 1] \in {below, above}
    BY <1>3, <2>3, <2>5, <2>6, CallThenShape, SplitStack DEF Sides
  <2>8. \A c \in len .. len + 1 : c = len \/ c = len + 1
    BY <2>7
  <2>9. \A c \in Len(calls) .. Len(calls') : calls'[c] = below \/ calls'[c] = above
    BY <2>6, <2>7, <2>8
  <2>10. QED
    BY <1>6, <1>7, <2>3, <2>5, <2>9
<1>12. CASE FallBack \/ RadixReturn \/ BeginRadix \/ RadixNext \/ RadixSplit
  <2>1. calls # <<>> => Top.left # 0 /\ Top.kind # "radix"
    BY <1>5
  <2>2. pc # "radix"
    BY <1>3, <2>1 DEF TypeInv
  <2>3. QED
    BY <1>12, <2>1, <2>2
       DEF FallBack, RadixReturn, BeginRadix, RadixNext, RadixSplit, AtLoop
<1>13. QED
  BY <1>8, <1>9, <1>10, <1>11, <1>12 DEF Next

\* Whatever the length of the bucket and whatever repeats in it: the radix sort
\* takes over only where the values span more than the budget halves.
THEOREM PartitionsSuffice == Spec => []FallBackOnlyWhenWide
<1>1. Init => WholeRange \in Nat
  <2>1. SUFFICES ASSUME Init PROVE \E k \in Places : TRUE
    BY InitInv, WholeRangeSpans DEF MidpointInv
  <2>2. PICK width \in 0 .. BITS, len \in 2 .. MaxLen : values \in [1 .. len -> BucketRange(width)]
    BY <2>1 DEF Init
  <2>3. TypeInv
    BY <2>1, InitInv DEF MidpointInv
  <2>4. DOMAIN values = 1 .. len /\ DOMAIN values = 1 .. Len(values) /\ 1 \in 1 .. len
    BY <2>2, <2>3 DEF TypeInv
  <2>5. QED
    BY <2>4 DEF Places
<1>2. Init => NoFallBack
  <2>1. SUFFICES ASSUME Init, Narrow
                 PROVE  /\ stats.radix_fallbacks = 0
                        /\ DOMAIN stats
                             = {"pivot_probes", "midpoint_partitions", "swaps", "radix_fallbacks"}
                        /\ \A c \in DOMAIN calls :
                              calls[c].kind = "midpoint" /\ calls[c].left > 0
    BY <1>1 DEF NoFallBack
  <2>2. PICK outermost :
           outermost = Call("midpoint", 1, Len(values), MIDPOINT_PARTITION_BUDGET)
    OBVIOUS
  <2>3. /\ calls = <<outermost>> /\ outermost.kind = "midpoint" /\ outermost.left > 0
        /\ stats = [pivot_probes |-> 0, midpoint_partitions |-> 0, swaps |-> 0,
                    radix_fallbacks |-> 0]
    BY <2>1, <2>2 DEF Init, Call, Narrow
  <2>4. DOMAIN calls = {1} /\ calls[1] = outermost
    BY <2>3
  <2>5. QED
    BY <2>3, <2>4
<1>3. MidpointInv /\ NoFallBack => FallBackOnlyWhenWide
  <2> SUFFICES ASSUME MidpointInv, NoFallBack, stats.radix_fallbacks > 0,
                      MIDPOINT_PARTITION_BUDGET > 0
               PROVE  WholeRange >= PowerOfTwo(MIDPOINT_PARTITION_BUDGET - 1)
    BY DEF FallBackOnlyWhenWide, WholeRange
  <2>1. ~ Narrow
    BY DEF NoFallBack
  <2>2. PowerOfTwo(MIDPOINT_PARTITION_BUDGET - 1) \in Nat
    BY SortAssumption, PowerType
  <2>3. WholeRange \in Nat
    BY DEF NoFallBack
  <2>4. QED
    BY <2>1, <2>2, <2>3 DEF Narrow
<1>4. MidpointInv /\ NoFallBack /\ [Next]_vars => (MidpointInv /\ NoFallBack)'
  BY MidpointInvKept, NoFallBackKept
<1>5. QED
  BY <1>2, <1>3, <1>4, InitInv, PTL DEF Spec

-------------------------------------------------------------------------------
(* The depth of the recursion.                                             *)

\* The offsets called by whoever is below the activation c of a stack.
AwaitedIn(stack, c) == UNION {{d} \X Offsets(stack[d]) : d \in c + 1 .. Len(stack)}

LEMMA AwaitedMember ==
    ASSUME NEW stack, NEW c, NEW q
    PROVE  q \in AwaitedIn(stack, c)
             <=> \E d \in c + 1 .. Len(stack) : \E k \in Offsets(stack[d]) : q = <<d, k>>
  BY DEF AwaitedIn

LEMMA AwaitedFinite ==
    ASSUME TypeInv, NEW c \in DOMAIN calls
    PROVE  IsFiniteSet(AwaitedIn(calls, c))
<1>1. Len(calls) \in Nat /\ Len(values) \in Nat /\ c \in Nat /\ c >= 1
  BY DEF TypeInv
<1>2. IsFiniteSet(1 .. Len(calls)) /\ IsFiniteSet(Places)
  BY <1>1, FS_Interval DEF Places
<1>3. PICK D, P : D = 1 .. Len(calls) /\ P = Places
  OBVIOUS
<1>4. IsFiniteSet(D \X P)
  BY <1>2, <1>3, FS_Product
<1>5. \A d \in c + 1 .. Len(calls) : d \in D /\ Offsets(calls[d]) \subseteq P
  <2>1. SUFFICES ASSUME NEW d \in c + 1 .. Len(calls)
                 PROVE  d \in D /\ Offsets(calls[d]) \subseteq P
    OBVIOUS
  <2>2. d \in DOMAIN calls /\ d \in 1 .. Len(calls)
    BY <1>1 DEF TypeInv
  <2>3. Placed(calls[d])
    BY <2>2 DEF TypeInv
  <2>4. Offsets(calls[d]) \subseteq Places
    BY <1>1, <2>3 DEF Placed, Activation, Offsets, Places
  <2>5. QED
    BY <1>3, <2>2, <2>4
<1>6. AwaitedIn(calls, c) \subseteq D \X P
  BY <1>5, AwaitedMember
<1>7. QED
  BY <1>4, <1>6, FS_Subset

\* Whatever replaces the innermost activation, those below it wait for no more
\* than they did.
LEMMA AwaitedShrinks ==
    ASSUME TypeInv, Splits, NEW c \in 1 .. Len(calls) - 1
    PROVE  /\ Cardinality(AwaitedIn(calls', c)) \in Nat
           /\ Cardinality(AwaitedIn(calls', c)) <= Cardinality(AwaitedIn(calls, c))
<1>1. PICK len, later : len = Len(calls) /\ later = calls'
  OBVIOUS
<1>2. PICK before, after : before = AwaitedIn(calls, c) /\ after = AwaitedIn(later, c)
  OBVIOUS
<1>3. /\ len \in Nat \ {0} /\ Len(later) \in Nat /\ c \in Nat /\ c <= len - 1
      /\ \A d \in 1 .. len - 1 : later[d] = calls[d]
      /\ \A d \in len .. Len(later) : Offsets(later[d]) \subseteq Offsets(calls[len])
      /\ \A d, e \in len .. Len(later) :
            d # e => Offsets(later[d]) \cap Offsets(later[e]) = {}
  <2>1. Len(calls) \in Nat \ {0} /\ Len(calls') \in Nat
    BY SplitStack
  <2>2. c \in Nat /\ c <= Len(calls) - 1
    BY <2>1
  <2>3. \A d \in Len(calls) .. Len(calls') : Offsets(calls'[d]) \subseteq Offsets(calls[Len(calls)])
    BY DEF Splits, Top
  <2>4. /\ \A d \in 1 .. Len(calls) - 1 : calls'[d] = calls[d]
        /\ \A d, e \in Len(calls) .. Len(calls') :
              d # e => Offsets(calls'[d]) \cap Offsets(calls'[e]) = {}
    BY DEF Splits
  <2>5. QED
    BY <1>1, <2>1, <2>2, <2>3, <2>4
<1>4. PICK f : f = [q \in after |-> <<IF q[1] < len THEN q[1] ELSE len, q[2]>>]
  OBVIOUS
<1>5. \A q \in after : \E d \in c + 1 .. Len(later) :
         \E k \in Offsets(later[d]) : q = <<d, k>>
  BY <1>2, AwaitedMember
<1>6. \A q \in after : f[q] \in before
  <2>1. SUFFICES ASSUME NEW q \in after PROVE f[q] \in before
    OBVIOUS
  <2>2. PICK d \in c + 1 .. Len(later) : \E k \in Offsets(later[d]) : q = <<d, k>>
    BY <1>5
  <2>3. PICK k \in Offsets(later[d]) : q = <<d, k>>
    BY <2>2
  <2>4. q[1] = d /\ q[2] = k
    BY <2>3
  <2>5. CASE d < len
    <3>1. d \in c + 1 .. len /\ k \in Offsets(calls[d])
      BY <1>3, <2>2, <2>3, <2>5
    <3>2. f[q] = <<d, k>>
      BY <1>4, <2>3, <2>4, <2>5
    <3>3. QED
      BY <1>1, <1>2, <3>1, <3>2, AwaitedMember
  <2>6. CASE ~ (d < len)
    <3>1. len \in c + 1 .. len /\ d \in len .. Len(later)
      BY <1>3, <2>2, <2>3, <2>6
    <3>2. k \in Offsets(calls[len])
      BY <1>3, <2>2, <2>3, <3>1
    <3>3. f[q] = <<len, k>>
      BY <1>4, <2>4, <2>6
    <3>4. QED
      BY <1>1, <1>2, <3>1, <3>2, <3>3, AwaitedMember
  <2>7. QED
    BY <2>5, <2>6
<1>7. \A q, r \in after : f[q] = f[r] => q = r
  <2>1. SUFFICES ASSUME NEW q \in after, NEW r \in after, f[q] = f[r] PROVE q = r
    OBVIOUS
  <2>2. PICK d \in c + 1 .. Len(later) : \E k \in Offsets(later[d]) : q = <<d, k>>
    BY <1>5
  <2>3. PICK k \in Offsets(later[d]) : q = <<d, k>>
    BY <2>2
  <2>4. PICK e \in c + 1 .. Len(later) : \E l \in Offsets(later[e]) : r = <<e, l>>
    BY <1>5
  <2>5. PICK l \in Offsets(later[e]) : r = <<e, l>>
    BY <2>4
  <2>6. /\ (f[q])[1] = IF d < len THEN d ELSE len
        /\ (f[r])[1] = IF e < len THEN e ELSE len
        /\ (f[q])[2] = k /\ (f[r])[2] = l
    BY <1>4, <2>3, <2>5
  <2>7. k = l
    BY <2>1, <2>6
  <2>8. d \in Int /\ e \in Int
    BY <2>2, <2>4
  <2>9. CASE d < len \/ e < len
    <3>1. d = e
      BY <1>3, <2>1, <2>6, <2>8, <2>9
    <3>2. QED
      BY <2>3, <2>5, <2>7, <3>1
  <2>10. CASE ~ (d < len) /\ ~ (e < len)
    <3>1. d \in len .. Len(later) /\ e \in len .. Len(later)
      BY <1>3, <2>2, <2>4, <2>10
    <3>2. d = e
      BY <1>3, <2>3, <2>5, <2>7, <3>1
    <3>3. QED
      BY <2>3, <2>5, <2>7, <3>2
  <2>11. QED
    BY <2>9, <2>10
<1>8. IsFiniteSet(before)
  <2>1. c \in DOMAIN calls
    BY <1>1, <1>3 DEF TypeInv
  <2>2. QED
    BY <1>2, <2>1, AwaitedFinite
<1>9. IsFiniteSet(after) /\ Cardinality(after) <= Cardinality(before)
  BY <1>6, <1>7, <1>8, CountedInto
<1>10. QED
  BY <1>1, <1>2, <1>9, FS_CardinalityType

\* The activation that waits for the innermost one alone.
LEMMA AwaitedCallee ==
    ASSUME NEW stack, NEW c \in Nat, Len(stack) = c + 1,
           stack[c + 1].first \in Int, stack[c + 1].last \in Int,
           stack[c + 1].first <= stack[c + 1].last + 1
    PROVE  /\ Cardinality(AwaitedIn(stack, c)) \in Nat
           /\ Cardinality(AwaitedIn(stack, c)) <= Size(stack[c + 1])
<1>1. PICK callee : callee = stack[c + 1]
  OBVIOUS
<1>2. IsFiniteSet(Offsets(callee)) /\ Cardinality(Offsets(callee)) = Size(callee)
  BY <1>1, PlacesCount DEF Offsets, Size
<1>3. PICK f : f = [q \in AwaitedIn(stack, c) |-> q[2]]
  OBVIOUS
<1>4. \A q \in AwaitedIn(stack, c) : \E k \in Offsets(callee) : q = <<c + 1, k>>
  <2>1. c + 1 .. c + 1 = {c + 1}
    OBVIOUS
  <2>2. QED
    BY <1>1, <2>1, AwaitedMember
<1>5. \A q \in AwaitedIn(stack, c) : f[q] \in Offsets(callee) /\ q = <<c + 1, f[q]>>
  BY <1>3, <1>4
<1>6. \A q, r \in AwaitedIn(stack, c) : f[q] = f[r] => q = r
  BY <1>5
<1>7. /\ IsFiniteSet(AwaitedIn(stack, c))
      /\ Cardinality(AwaitedIn(stack, c)) <= Cardinality(Offsets(callee))
  BY <1>2, <1>5, <1>6, CountedInto
<1>8. QED
  BY <1>1, <1>2, <1>7, FS_CardinalityType

LEMMA AwaitedNone ==
    ASSUME NEW stack, NEW c \in Nat, Len(stack) = c
    PROVE  Cardinality(AwaitedIn(stack, c)) = 0
<1>1. c + 1 .. c = {}
  OBVIOUS
<1>2. AwaitedIn(stack, c) = {}
  BY <1>1, AwaitedMember
<1>3. QED
  BY <1>2, FS_EmptySet

Deep(stack) ==
    \A c \in DOMAIN stack :
        stack[c].kind = "midpoint" => Cardinality(AwaitedIn(stack, c)) <= Size(stack[c])

LEMMA StackIsDeep == StackLimited <=> Deep(calls)
<1>1. \A c : AwaitedBy(c) = AwaitedIn(calls, c)
  BY DEF AwaitedBy, AwaitedIn, Offsets
<1>2. QED
  BY <1>1 DEF StackLimited, Deep

\* An activation in the place of the innermost one may call one that is no
\* larger.
LEMMA SplitDeep ==
    ASSUME TypeInv, Splits, Shallow, Deep(calls)
    PROVE  Deep(calls')
<1>1. PICK len, later : len = Len(calls) /\ later = calls'
  OBVIOUS
<1>2. /\ len \in Nat \ {0} /\ DOMAIN later = 1 .. Len(later) /\ Len(later) \in Nat
      /\ DOMAIN calls = 1 .. len
      /\ \A c \in 1 .. len - 1 : later[c] = calls[c]
      /\ \A c \in len .. Len(later) : later[c] \in Activation
                                        /\ later[c].first <= later[c].last + 1
  <2>1. /\ DOMAIN calls' = 1 .. Len(calls') /\ Len(calls') \in Nat
        /\ Len(calls) \in Nat \ {0} /\ DOMAIN calls = 1 .. Len(calls)
    BY SplitStack
  <2>2. \A c \in Len(calls) .. Len(calls') : Placed(calls'[c])
    BY DEF Splits
  <2>3. QED
    BY <1>1, <2>1, <2>2, Zenon DEF Splits, Placed
<1>3. \/ Len(later) <= len
      \/ /\ Len(later) = len + 1
         /\ later[len].kind = "midpoint" => Size(later[len + 1]) <= Size(later[len])
  BY <1>1 DEF Shallow
<1>4. SUFFICES ASSUME NEW c \in DOMAIN later, later[c].kind = "midpoint"
               PROVE  Cardinality(AwaitedIn(later, c)) <= Size(later[c])
  BY <1>1 DEF Deep
<1>5. c \in Nat /\ c >= 1 /\ c <= Len(later)
  BY <1>2
<1>6. CASE c < len
  <2>1. c \in 1 .. len - 1 /\ c \in DOMAIN calls /\ later[c] = calls[c]
    BY <1>2, <1>5, <1>6
  <2>2. /\ Cardinality(AwaitedIn(calls', c)) \in Nat
        /\ Cardinality(AwaitedIn(calls', c)) <= Cardinality(AwaitedIn(calls, c))
    BY <1>1, <2>1, AwaitedShrinks
  <2>3. Cardinality(AwaitedIn(calls, c)) <= Size(calls[c])
    BY <1>4, <2>1 DEF Deep
  <2>4. /\ Cardinality(AwaitedIn(calls, c)) \in Nat
        /\ Size(calls[c]) \in Int
    <3>1. IsFiniteSet(AwaitedIn(calls, c))
      BY <2>1, AwaitedFinite
    <3>2. Placed(calls[c])
      BY <2>1 DEF TypeInv
    <3>3. QED
      BY <3>1, <3>2, FS_CardinalityType DEF Placed, Activation, Size
  <2>5. QED
    BY <1>1, <2>1, <2>2, <2>3, <2>4
<1>7. CASE c = Len(later) /\ ~ (c < len)
  <2>1. Cardinality(AwaitedIn(later, c)) = 0
    BY <1>5, <1>7, AwaitedNone
  <2>2. c \in len .. Len(later)
    BY <1>2, <1>5, <1>7
  <2>3. Size(later[c]) \in Int /\ Size(later[c]) >= 0
    BY <1>2, <2>2 DEF Activation, Size
  <2>4. QED
    BY <2>1, <2>3
<1>8. CASE c # Len(later) /\ ~ (c < len)
  <2>1. c = len /\ Len(later) = len + 1
    <3>1. PICK size : size = Len(later)
      OBVIOUS
    <3>2. len \in Nat /\ size \in Nat /\ c \in Nat /\ c <= size /\ c # size
      BY <1>2, <1>5, <1>8, <3>1
    <3>3. size <= len \/ size = len + 1
      BY <1>3, <3>1
    <3>4. QED
      BY <1>8, <3>1, <3>2, <3>3
  <2>2. Len(later) = c + 1 /\ Size(later[c + 1]) <= Size(later[c])
    BY <1>2, <1>3, <1>4, <2>1
  <2>3. c \in len .. Len(later) /\ c + 1 \in len .. Len(later)
    BY <1>2, <2>1
  <2>4. /\ later[c + 1].first \in Int /\ later[c + 1].last \in Int
        /\ later[c + 1].first <= later[c + 1].last + 1
        /\ Size(later[c]) \in Int /\ Size(later[c + 1]) \in Int
    BY <1>2, <2>3 DEF Activation, Size
  <2>5. /\ Cardinality(AwaitedIn(later, c)) \in Nat
        /\ Cardinality(AwaitedIn(later, c)) <= Size(later[c + 1])
    BY <1>5, <2>2, <2>4, AwaitedCallee
  <2>6. QED
    BY <2>2, <2>4, <2>5
<1>9. QED
  BY <1>5, <1>6, <1>7, <1>8

LEMMA DeepKept ==
    ASSUME MidpointInv, Deep(calls), [Next]_vars
    PROVE  Deep(calls)'
<1>1. TypeInv
  BY DEF MidpointInv
<1>2. CASE Splits /\ Shallow
  BY <1>1, <1>2, SplitDeep DEF Deep, AwaitedIn, Offsets, Size
<1>3. CASE UNCHANGED calls
  BY <1>3 DEF Deep, AwaitedIn, Offsets, Size
<1>4. CASE FallBack \/ AllEqual \/ BeginPartition \/ Partitioned \/ Inserted
             \/ RadixReturn \/ RadixSplit
  <2>1. Splits /\ Shallow
    BY <1>4, FallBackKeeps, AllEqualKeeps, BeginPartitionKeeps, PartitionedKeeps,
       InsertedKeeps, RadixReturnKeeps, RadixSplitKeeps
  <2>2. QED
    BY <1>2, <2>1
<1>5. CASE BeginInsertion \/ PartitionNext \/ InsertNext \/ BeginRadix \/ RadixNext
             \/ UNCHANGED vars
  <2>1. UNCHANGED calls
    BY <1>5 DEF BeginInsertion, PartitionNext, InsertNext, BeginRadix, RadixNext, vars
  <2>2. QED
    BY <1>3, <2>1
<1>6. QED
  BY <1>4, <1>5 DEF Next

\* "Recurse into the smaller side and loop over the larger one": whatever the
\* bucket, an activation of midpoint_sort that waits has at least as much left as
\* all those it waits for, however deep they are.
THEOREM RecursionLimited == Spec => []StackLimited
<1>1. Init => Deep(calls)
  <2> SUFFICES ASSUME Init PROVE Deep(calls)
    OBVIOUS
  <2>1. Len(calls) = 1 /\ DOMAIN calls = {1}
    BY DEF Init
  <2>2. TypeInv /\ Placed(calls[1])
    BY <2>1, InitInv DEF MidpointInv, TypeInv
  <2>3. Cardinality(AwaitedIn(calls, 1)) = 0
    BY <2>1, AwaitedNone
  <2>4. Size(calls[1]) \in Int /\ Size(calls[1]) >= 0
    BY <2>2 DEF Placed, Activation, Size
  <2>5. QED
    BY <2>1, <2>3, <2>4 DEF Deep
<1>2. MidpointInv /\ Deep(calls) /\ [Next]_vars => MidpointInv' /\ Deep(calls)'
  BY MidpointInvKept, DeepKept
<1>3. Deep(calls) => StackLimited
  BY StackIsDeep
<1>4. QED
  BY <1>1, <1>2, <1>3, InitInv, PTL DEF Spec

-------------------------------------------------------------------------------
(* The work done.                                                          *)

\* What the statistics count, and the levels at which an offset may cost it: the
\* partitions, bits and short insertions left to it.
Works == {"probe", "place", "bit", "insert"}

Levels(work) ==
    1 .. CASE work \in {"probe", "place"} -> MIDPOINT_PARTITION_BUDGET
           [] work = "bit" -> BITS
           [] OTHER -> INSERTION_SORT_CUTOFF - 1

\* Where the loop of an activation is: the innermost one is at work.
At(c) == [loop |-> IF c = Len(calls) THEN pc ELSE "loop",
          lower |-> lower, scan |-> scan, upper |-> upper]

\* What an activation may still do for an offset at a level.
MidpointMay(work, call, at, k, level) ==
    /\ call.kind = "midpoint"
    /\ work = "probe" => k # call.first /\ level <= call.left
    /\ work = "place" =>
          \/ level <= call.left
          \/ at.loop = "partition" /\ level = call.left + 1 /\ k \in at.scan .. at.upper - 1
    /\ work = "insert" /\ at.loop = "insertion" =>
          k >= at.scan \/ level >= at.scan - call.first

RadixMay(work, call, at, k, level) ==
    /\ call.kind = "radix" /\ work = "bit" /\ level <= call.left
    /\ at.loop = "radix" /\ level = call.left => k \in at.lower .. at.upper - 1

May(work, call, at, k, level) ==
    /\ k \in Offsets(call)
    /\ MidpointMay(work, call, at, k, level) \/ RadixMay(work, call, at, k, level)

\* The work left.
Left(work) ==
    {t \in Places \X Levels(work) : \E c \in DOMAIN calls :
        May(work, calls[c], At(c), t[1], t[2])}

WorkLeft(work) == Cardinality(Left(work))

\* The values of the region of an activation of midpoint_sort are nowhere else.
Separate ==
    \A c \in DOMAIN calls : calls[c].kind = "midpoint" =>
        \A i \in Offsets(calls[c]) : \A j \in Places :
            j \notin Offsets(calls[c]) => Value(i) # Value(j)

\* A value is in the region of an activation of midpoint_sort.
Open(v) ==
    \E c \in DOMAIN calls : calls[c].kind = "midpoint" /\ \E k \in Offsets(calls[c]) : v = Value(k)

\* As many values as there were partitions, but not all, are no longer sorted by.
PivotsOut ==
    \E pivots \in SUBSET Range(values) :
        /\ IsFiniteSet(pivots) /\ Cardinality(pivots) = stats.midpoint_partitions
        /\ \A v \in pivots : ~ Open(v)
        /\ \E v \in Range(values) : v \notin pivots

\* What an activation at work is limited by.
Limits ==
    /\ stats \in [{"pivot_probes", "midpoint_partitions", "swaps", "radix_fallbacks"} -> Nat]
    /\ \A c \in DOMAIN calls : calls[c].kind = "radix" => calls[c].left <= BITS
    /\ pc = "insertion" => Size(Top) <= INSERTION_SORT_CUTOFF
    /\ pc = "partition" =>
          /\ Top.left < MIDPOINT_PARTITION_BUDGET
          /\ \E k \in Offsets(Top) : Value(k) = pivot
          /\ \E k \in Offsets(Top) : Value(k) # pivot

ProbesPaid ==
    stats.pivot_probes + WorkLeft("probe") <= MIDPOINT_PARTITION_BUDGET * (Len(values) - 1)

SwapsPaid ==
    2 * stats.swaps + 2 * WorkLeft("place") + WorkLeft("bit") + WorkLeft("insert")
      <= Len(values) * (2 * MIDPOINT_PARTITION_BUDGET + BITS + INSERTION_SORT_CUTOFF - 1)

WorkInv == Limits /\ Separate /\ PivotsOut /\ ProbesPaid /\ SwapsPaid

LEMMA LevelsAre ==
    ASSUME NEW work \in Works
    PROVE  /\ IsFiniteSet(Levels(work)) /\ Levels(work) \in SUBSET Nat
           /\ work \in {"probe", "place"} =>
                 /\ Levels(work) = 1 .. MIDPOINT_PARTITION_BUDGET
                 /\ Cardinality(Levels(work)) = MIDPOINT_PARTITION_BUDGET
           /\ work = "bit" => Levels(work) = 1 .. BITS /\ Cardinality(Levels(work)) = BITS
           /\ work = "insert" => /\ Levels(work) = 1 .. INSERTION_SORT_CUTOFF - 1
                                 /\ Cardinality(Levels(work)) = INSERTION_SORT_CUTOFF - 1
<1>1. \A n \in Nat : IsFiniteSet(1 .. n) /\ Cardinality(1 .. n) = n
  BY PlacesCount
<1>2. /\ MIDPOINT_PARTITION_BUDGET \in Nat /\ BITS \in Nat
      /\ INSERTION_SORT_CUTOFF - 1 \in Nat
  BY SortAssumption, BITSAssumption
<1>3. CASE work \in {"probe", "place"}
  <2>1. Levels(work) = 1 .. MIDPOINT_PARTITION_BUDGET /\ work # "bit" /\ work # "insert"
    BY <1>3 DEF Levels
  <2>2. QED
    BY <1>1, <1>2, <1>3, <2>1
<1>4. CASE work = "bit"
  <2>1. Levels(work) = 1 .. BITS
    BY <1>4 DEF Levels
  <2>2. QED
    BY <1>1, <1>2, <1>4, <2>1
<1>5. CASE work = "insert"
  <2>1. Levels(work) = 1 .. INSERTION_SORT_CUTOFF - 1
    BY <1>5 DEF Levels
  <2>2. QED
    BY <1>1, <1>2, <1>5, <2>1
<1>6. QED
  BY <1>3, <1>4, <1>5 DEF Works

LEMMA LeftFinite ==
    ASSUME Len(values) \in Nat, NEW work \in Works
    PROVE  /\ IsFiniteSet(Left(work)) /\ WorkLeft(work) \in Nat
           /\ WorkLeft(work) <= Len(values) * Cardinality(Levels(work))
<1>1. IsFiniteSet(Places) /\ Cardinality(Places) = Len(values)
  BY PlacesCount DEF Places
<1>2. PICK P, L : P = Places /\ L = Levels(work)
  OBVIOUS
<1>3. IsFiniteSet(P) /\ IsFiniteSet(L)
  BY <1>1, <1>2, LevelsAre
<1>4. IsFiniteSet(P \X L) /\ Cardinality(P \X L) = Cardinality(P) * Cardinality(L)
  BY <1>3, FS_Product
<1>5. Left(work) \in SUBSET (P \X L)
  BY <1>2 DEF Left
<1>6. IsFiniteSet(Left(work)) /\ Cardinality(Left(work)) <= Cardinality(P \X L)
  BY <1>4, <1>5, FS_Subset
<1>7. QED
  BY <1>1, <1>2, <1>4, <1>6, FS_CardinalityType DEF WorkLeft

\* What is paid is no longer left.
LEMMA Paid ==
    ASSUME NEW before, IsFiniteSet(before), NEW after \in SUBSET before,
           NEW paid \in SUBSET before, after \cap paid = {}
    PROVE  /\ Cardinality(after) \in Nat /\ Cardinality(paid) \in Nat
           /\ Cardinality(before) \in Nat
           /\ Cardinality(after) + Cardinality(paid) <= Cardinality(before)
<1>1. IsFiniteSet(after) /\ IsFiniteSet(paid)
  BY FS_Subset
<1>2. Cardinality(after \cup paid)
        = Cardinality(after) + Cardinality(paid) - Cardinality(after \cap paid)
  BY <1>1, FS_Union
<1>3. Cardinality(after \cap paid) = 0
  BY FS_EmptySet
<1>4. after \cup paid \in SUBSET before
  OBVIOUS
<1>5. Cardinality(after \cup paid) <= Cardinality(before)
  BY <1>4, FS_Subset
<1>6. /\ Cardinality(after) \in Nat /\ Cardinality(paid) \in Nat
      /\ Cardinality(before) \in Nat
  BY <1>1, FS_CardinalityType
<1>7. QED
  BY <1>2, <1>3, <1>5, <1>6

LEMMA OnlyTop ==
    ASSUME TypeInv, Apart, NEW c \in DOMAIN calls, NEW k \in Offsets(calls[c]),
           k \in Offsets(Top)
    PROVE  c = Len(calls) /\ calls[c] = Top
<1>1. calls # <<>>
  BY DEF TypeInv
<1>2. Len(calls) \in DOMAIN calls
  BY <1>1, TopType
<1>3. QED
  BY <1>2 DEF Apart, Top

LEMMA MayAtRest ==
    ASSUME NEW work, NEW call, NEW at, NEW other, NEW k, NEW level,
           at.loop = "loop", other.loop = "loop"
    PROVE  May(work, call, at, k, level) <=> May(work, call, other, k, level)
BY DEF May, MidpointMay, RadixMay

\* If no new activation may do more than the one it replaces, no work is added.
LEMMA SplitLeft ==
    ASSUME TypeInv, Splits, pc' = "loop" \/ Len(calls') = Len(calls), NEW work, NEW t,
           t \in Left(work)',
           \A c \in Len(calls) .. Len(calls') :
              May(work, calls'[c], At(c)', t[1], t[2]) => May(work, Top, At(Len(calls)), t[1], t[2])
    PROVE  t \in Left(work)
<1>1. /\ Places' = Places /\ Levels(work)' = Levels(work)
  BY DEF Splits, Places, Levels
<1>2. PICK c \in DOMAIN calls' : May(work, calls'[c], At(c)', t[1], t[2])
  BY DEF Left
<1>3. t \in Places \X Levels(work)
  BY <1>1 DEF Left
<1>4. Len(calls) \in Nat \ {0} /\ Len(calls) \in DOMAIN calls /\ Len(calls') \in Nat
  <2>1. Len(calls) \in Nat \ {0} /\ DOMAIN calls = 1 .. Len(calls) /\ Len(calls') \in Nat
    BY SplitStack
  <2>2. QED
    BY <2>1
<1>5. CASE c \in Len(calls) .. Len(calls')
  <2>1. May(work, calls[Len(calls)], At(Len(calls)), t[1], t[2])
    BY <1>2, <1>5 DEF Top
  <2>2. QED
    BY <1>3, <1>4, <2>1 DEF Left
<1>6. CASE c \in DOMAIN calls /\ c # Len(calls) /\ c < Len(calls) /\ calls'[c] = calls[c]
  <2>1. At(c).loop = "loop"
    BY <1>6 DEF At
  <2>2. At(c)'.loop = "loop"
    <3>1. pc' = "loop" \/ c # Len(calls')
      BY <1>6
    <3>2. QED
      BY <3>1 DEF At
  <2>3. May(work, calls[c], At(c), t[1], t[2])
    BY <1>2, <1>6, <2>1, <2>2, MayAtRest
  <2>4. QED
    BY <1>3, <1>6, <2>3 DEF Left
<1>7. QED
  BY <1>5, <1>6, SplitStack

LEMMA LeftShrinks ==
    ASSUME NEW n \in Nat, Len(values) = n, values' = values, NEW work \in Works,
           Left(work)' \subseteq Left(work)
    PROVE  WorkLeft(work) \in Nat /\ WorkLeft(work)' \in Nat /\ WorkLeft(work)' <= WorkLeft(work)
<1>1. IsFiniteSet(Left(work)) /\ WorkLeft(work) \in Nat
  BY LeftFinite
<1>2. PICK after : after = Left(work)'
  OBVIOUS
<1>3. /\ IsFiniteSet(after) /\ Cardinality(after) <= Cardinality(Left(work))
      /\ Cardinality(after) \in Nat
  BY <1>1, <1>2, FS_Subset, FS_CardinalityType
<1>4. WorkLeft(work)' = Cardinality(after)
  BY <1>2 DEF WorkLeft
<1>5. QED
  BY <1>1, <1>3, <1>4 DEF WorkLeft

LEMMA LeftPaid ==
    ASSUME NEW n \in Nat, Len(values) = n, values' = values, NEW work \in Works,
           Left(work)' \subseteq Left(work), NEW paid \in SUBSET Left(work),
           \A t \in paid : t \notin Left(work)'
    PROVE  /\ WorkLeft(work) \in Nat /\ WorkLeft(work)' \in Nat /\ Cardinality(paid) \in Nat
           /\ WorkLeft(work)' + Cardinality(paid) <= WorkLeft(work)
<1>1. IsFiniteSet(Left(work))
  BY LeftFinite
<1>2. PICK after : after = Left(work)'
  OBVIOUS
<1>3. after \in SUBSET Left(work) /\ after \cap paid = {}
  BY <1>2
<1>4. /\ Cardinality(after) \in Nat /\ Cardinality(paid) \in Nat
      /\ Cardinality(Left(work)) \in Nat
      /\ Cardinality(after) + Cardinality(paid) <= Cardinality(Left(work))
  BY <1>1, <1>3, Paid
<1>5. WorkLeft(work)' = Cardinality(after)
  BY <1>2 DEF WorkLeft
<1>6. QED
  BY <1>4, <1>5 DEF WorkLeft

\* A step that does no more work than is paid for.
LEMMA StepPaid ==
    ASSUME NEW n \in Nat, Len(values) = n, values' = values, Limits, ProbesPaid, SwapsPaid,
           Limits', NEW probes \in Nat, NEW swaps \in Nat,
           NEW place \in Nat, NEW bit \in Nat, NEW insert \in Nat,
           stats'.pivot_probes = stats.pivot_probes + probes,
           stats'.swaps = stats.swaps + swaps,
           \A work \in Works : WorkLeft(work) \in Nat /\ WorkLeft(work)' \in Nat,
           WorkLeft("probe")' + probes <= WorkLeft("probe"),
           WorkLeft("place")' + place <= WorkLeft("place"),
           WorkLeft("bit")' + bit <= WorkLeft("bit"),
           WorkLeft("insert")' + insert <= WorkLeft("insert"),
           2 * swaps <= 2 * place + bit + insert
    PROVE  ProbesPaid' /\ SwapsPaid'
<1>1. /\ stats.pivot_probes \in Nat /\ stats.swaps \in Nat
      /\ stats'.pivot_probes \in Nat /\ stats'.swaps \in Nat
  BY DEF Limits
<1>2. /\ WorkLeft("probe") \in Nat /\ WorkLeft("probe")' \in Nat
      /\ WorkLeft("place") \in Nat /\ WorkLeft("place")' \in Nat
      /\ WorkLeft("bit") \in Nat /\ WorkLeft("bit")' \in Nat
      /\ WorkLeft("insert") \in Nat /\ WorkLeft("insert")' \in Nat
  BY DEF Works
<1>3. PICK all, before, after :
         /\ all = MIDPOINT_PARTITION_BUDGET * (n - 1) /\ before = WorkLeft("probe")
         /\ after = WorkLeft("probe")'
  OBVIOUS
<1>4. /\ all \in Int /\ stats.pivot_probes + before <= all /\ before \in Nat /\ after \in Nat
      /\ after + probes <= before
  BY <1>2, <1>3, SortAssumption DEF ProbesPaid
<1>5. ProbesPaid'
  <2>1. stats'.pivot_probes + after <= all
    BY <1>1, <1>4
  <2>2. QED
    BY <1>3, <2>1 DEF ProbesPaid
<1>6. PICK most, p, b, i, q, c, j :
         /\ most = n * (2 * MIDPOINT_PARTITION_BUDGET + BITS + INSERTION_SORT_CUTOFF - 1)
         /\ p = WorkLeft("place") /\ b = WorkLeft("bit") /\ i = WorkLeft("insert")
         /\ q = WorkLeft("place")' /\ c = WorkLeft("bit")' /\ j = WorkLeft("insert")'
  OBVIOUS
<1>7. most \in Int
  BY <1>6, SortAssumption, BITSAssumption
<1>8. /\ 2 * stats.swaps + 2 * p + b + i <= most
      /\ q + place <= p /\ c + bit <= b /\ j + insert <= i
      /\ p \in Nat /\ b \in Nat /\ i \in Nat /\ q \in Nat /\ c \in Nat /\ j \in Nat
  BY <1>2, <1>6 DEF SwapsPaid
<1>9. 2 * stats'.swaps + 2 * q + c + j <= most
  <2>1. PICK s, r : s = stats.swaps /\ r = stats'.swaps
    OBVIOUS
  <2>2. s \in Nat /\ r \in Nat /\ r = s + swaps /\ 2 * s + 2 * p + b + i <= most
    BY <1>1, <1>8, <2>1
  <2>3. 2 * r + 2 * q + c + j <= most
    BY <1>7, <1>8, <2>2
  <2>4. QED
    BY <2>1, <2>3
<1>10. SwapsPaid'
  BY <1>6, <1>9 DEF SwapsPaid
<1>11. QED
  BY <1>5, <1>10

LEMMA GoOnLeft ==
    ASSUME TypeInv, Splits, NEW call \in Activation, GoOnAs(call), NEW work,
           \A k \in Places, level \in Levels(work) :
              May(work, call, At(Len(calls))', k, level) => May(work, Top, At(Len(calls)), k, level)
    PROVE  Left(work)' \subseteq Left(work)
<1>1. Len(calls') = Len(calls) /\ calls'[Len(calls)] = call /\ Len(calls) \in Nat
  BY GoOnShape, SplitStack DEF Splits
<1>2. \A c \in Len(calls) .. Len(calls') : c = Len(calls)
  BY <1>1
<1>3. SUFFICES ASSUME NEW t, t \in Left(work)' PROVE t \in Left(work)
  OBVIOUS
<1> t[1] \in Places /\ t[2] \in Levels(work)
  BY <1>3 DEF Left, Splits, Places, Levels
<1>4. \A c \in Len(calls) .. Len(calls') :
         May(work, calls'[c], At(c)', t[1], t[2]) => May(work, Top, At(Len(calls)), t[1], t[2])
  BY <1>1, <1>2
<1>5. QED
  BY <1>1, <1>3, <1>4, SplitLeft

LEMMA CallThenLeft ==
    ASSUME TypeInv, Splits, NEW callee \in Activation, NEW rest \in Activation,
           CallThen(callee, rest), pc' = "loop", NEW work,
           \A at : \A k \in Places, level \in Levels(work) :
              at.loop = "loop" /\ (May(work, callee, at, k, level) \/ May(work, rest, at, k, level))
                 => May(work, Top, At(Len(calls)), k, level)
    PROVE  Left(work)' \subseteq Left(work)
<1>1. PICK len : len = Len(calls)
  OBVIOUS
<1>2. /\ Len(calls') = len + 1 /\ calls'[len] = rest /\ calls'[len + 1] = callee
      /\ len \in Nat
  BY <1>1, CallThenShape, SplitStack DEF Splits
<1>3. \A c \in len .. len + 1 : c = len \/ c = len + 1
  BY <1>2
<1>4. SUFFICES ASSUME NEW t, t \in Left(work)' PROVE t \in Left(work)
  OBVIOUS
<1> t[1] \in Places /\ t[2] \in Levels(work)
  BY <1>4 DEF Left, Splits, Places, Levels
<1>5. ASSUME NEW c \in Len(calls) .. Len(calls'), May(work, calls'[c], At(c)', t[1], t[2])
      PROVE  May(work, Top, At(Len(calls)), t[1], t[2])
  <2>1. calls'[c] = rest \/ calls'[c] = callee
    BY <1>1, <1>2, <1>3
  <2>2. PICK at : at = At(c)'
    OBVIOUS
  <2>3. at.loop = "loop"
    BY <2>2 DEF At
  <2>4. QED
    BY <1>5, <2>1, <2>2, <2>3
<1>6. QED
  BY <1>4, <1>5, SplitLeft

LEMMA ReturnLeft ==
    ASSUME TypeInv, Splits, Return, pc' = "loop", NEW work
    PROVE  Left(work)' \subseteq Left(work)
<1>1. Len(calls') = Len(calls) - 1 /\ Len(calls) \in Nat
  BY ReturnShape, SplitStack DEF Splits
<1>2. Len(calls) .. Len(calls') = {}
  BY <1>1
<1>3. QED
  BY <1>2, SplitLeft

\* The radix sort may look at each bit once, as an activation of midpoint_sort
\* that has not fallen back.
LEMMA FallBackLeft ==
    ASSUME MidpointInv, FallBack, NEW work \in Works
    PROVE  Left(work)' \subseteq Left(work)
<1>1. /\ TypeInv /\ calls # <<>> /\ Top \in Activation /\ Top.kind = "midpoint" /\ Splits
  BY AtLoopFinds, FallBackKeeps DEF FallBack
<1>2. PICK call : call = Call("radix", Top.first, Top.last, BITS)
  OBVIOUS
<1>3. GoOnAs(call)
  BY <1>2 DEF FallBack
<1>4. /\ call.kind = "radix" /\ call \in Activation /\ Offsets(call) = Offsets(Top)
  BY <1>1, <1>2, BITSAssumption DEF Call, Activation, Offsets
<1>5. ASSUME NEW at, NEW k, NEW level, May(work, call, at, k, level)
      PROVE  May(work, Top, At(Len(calls)), k, level)
  BY <1>1, <1>4, <1>5 DEF May, MidpointMay, RadixMay
<1>6. QED
  BY <1>1, <1>3, <1>4, <1>5, GoOnLeft

\* The partition about to be made is paid for by comparing each ID with the
\* middle, one excepted.
LEMMA BeginPartitionLeft ==
    ASSUME MidpointInv, BeginPartition
    PROVE  /\ \A work \in Works : Left(work)' \subseteq Left(work)
           /\ \E paid \in SUBSET Left("probe") :
                 /\ Cardinality(paid) = Size(Top) - 1 /\ Size(Top) - 1 \in Nat
                 /\ \A t \in paid : t \notin Left("probe")'
<1>1. /\ TypeInv /\ Apart /\ calls # <<>> /\ pc = "loop" /\ Top.kind = "midpoint"
      /\ Top \in Activation /\ Placed(Top) /\ Halved(Top, FALSE, pivot) /\ Splits
      /\ Offsets(Top) \subseteq Places /\ Len(calls) \in DOMAIN calls
  BY AtLoopFinds, BeginPartitionKeeps, TopType DEF BeginPartition, MidpointInv
<1>2. PICK top, call : top = Top /\ call = [top EXCEPT !.left = @ - 1]
  OBVIOUS
<1>3. /\ GoOnAs(call) /\ UNCHANGED <<values, indices>> /\ pc' = "partition"
      /\ scan' = top.first /\ upper' = top.last + 1
      /\ top.left > 0 /\ Size(top) > INSERTION_SORT_CUTOFF
  BY <1>2 DEF BeginPartition
<1>4. /\ top.first \in Nat \ {0} /\ top.last \in Nat /\ top.left \in Nat \ {0}
      /\ top.kind = "midpoint" /\ top.first <= top.last
      /\ top.left <= MIDPOINT_PARTITION_BUDGET
  BY <1>1, <1>2, <1>3, SortAssumption DEF Activation, Size, Halved
<1>5. /\ call.kind = "midpoint" /\ call.first = top.first /\ call.last = top.last
      /\ call.left = top.left - 1 /\ call \in Activation /\ Offsets(call) = Offsets(top)
  BY <1>1, <1>2, <1>4 DEF Activation, Offsets
<1>6. /\ Len(calls') = Len(calls) /\ calls'[Len(calls)] = call
      /\ \A c \in 1 .. Len(calls) - 1 : calls'[c] = calls[c]
  BY <1>1, <1>3, <1>5, GoOnShape
<1>7. ASSUME NEW work \in Works
      PROVE  Left(work)' \subseteq Left(work)
  <2>1. ASSUME NEW at, at.loop = "partition", NEW k, NEW level \in Levels(work),
               May(work, call, at, k, level)
        PROVE  May(work, top, At(Len(calls)), k, level)
    <3>1. k \in Offsets(top) /\ MidpointMay(work, call, at, k, level)
      BY <1>5, <2>1 DEF May, RadixMay
    <3>2. work = "probe" => k # top.first /\ level <= top.left - 1
      BY <1>5, <3>1 DEF MidpointMay
    <3>3. work = "place" => level <= top.left - 1 \/ level = (top.left - 1) + 1
      BY <1>5, <3>1 DEF MidpointMay
    <3>4. work \in {"probe", "place"} => level <= top.left
      <4>1. level \in Nat
        BY LevelsAre
      <4>2. QED
        BY <1>4, <3>2, <3>3, <4>1
    <3>5. At(Len(calls)).loop = "loop"
      BY <1>1 DEF At
    <3>6. QED
      BY <1>4, <3>1, <3>2, <3>4, <3>5 DEF May, MidpointMay
  <2>2. At(Len(calls))'.loop = "partition"
    BY <1>3, <1>6 DEF At
  <2>3. QED
    BY <1>1, <1>2, <1>3, <1>5, <2>1, <2>2, GoOnLeft
<1>8. PICK paid : paid = {t \in (top.first + 1 .. top.last) \X {top.left} : TRUE}
  OBVIOUS
<1>9. paid \in SUBSET Left("probe")
  <2>1. SUFFICES ASSUME NEW k \in top.first + 1 .. top.last
                 PROVE  <<k, top.left>> \in Left("probe")
    BY <1>8
  <2>2. k \in Offsets(top) /\ k # top.first
    BY <1>4 DEF Offsets
  <2>3. k \in Places
    BY <1>1, <1>2, <2>2
  <2>4. top.left \in Levels("probe")
    BY <1>4, SortAssumption, LevelsAre DEF Works
  <2>5. May("probe", calls[Len(calls)], At(Len(calls)), k, top.left)
    BY <1>2, <1>4, <2>2 DEF Top, May, MidpointMay
  <2>6. QED
    BY <1>1, <2>3, <2>4, <2>5 DEF Left
<1>10. ASSUME NEW k \in top.first + 1 .. top.last
       PROVE  <<k, top.left>> \notin Left("probe")'
  <2>1. SUFFICES ASSUME NEW c \in DOMAIN calls',
                        May("probe", calls'[c], At(c)', k, top.left)
                 PROVE  FALSE
    BY DEF Left
  <2>2. k \in Offsets(calls'[c]) /\ top.left <= calls'[c].left
    BY <2>1 DEF May, MidpointMay, RadixMay
  <2>3. CASE c = Len(calls)
    BY <1>4, <1>5, <1>6, <2>2, <2>3
  <2>4. CASE c # Len(calls)
    <3>1. c \in 1 .. Len(calls) - 1 /\ c \in DOMAIN calls
      <4>1. /\ DOMAIN calls' = 1 .. Len(calls') /\ DOMAIN calls = 1 .. Len(calls)
            /\ Len(calls) \in Nat
        BY <1>1, SplitStack
      <4>2. QED
        BY <1>6, <2>4, <4>1
    <3>2. k \in Offsets(calls[c])
      BY <1>6, <2>2, <3>1
    <3>3. k \in Offsets(Top)
      BY <1>2, <1>4 DEF Offsets
    <3>4. QED
      BY <1>1, <2>4, <3>1, <3>2, <3>3, OnlyTop
  <2>5. QED
    BY <2>3, <2>4
<1>11. Cardinality(paid) = Size(Top) - 1 /\ Size(Top) - 1 \in Nat
  <2>1. PICK K : K = top.first + 1 .. top.last
    OBVIOUS
  <2>2. IsFiniteSet(K) /\ Cardinality(K) = top.last - top.first
    <3>1. top.first + 1 \in Int /\ top.last \in Int /\ top.first + 1 <= top.last + 1
      BY <1>4
    <3>2. IsFiniteSet(K) /\ Cardinality(K) = top.last + 1 - (top.first + 1)
      BY <2>1, <3>1, PlacesCount
    <3>3. QED
      BY <1>4, <3>2
  <2>3. IsFiniteSet({top.left}) /\ Cardinality({top.left}) = 1
    BY FS_Singleton
  <2>4. paid = K \X {top.left}
    BY <1>8, <2>1
  <2>5. Cardinality(paid) = Cardinality(K) * 1
    BY <2>2, <2>3, <2>4, FS_Product
  <2>6. QED
    BY <1>2, <1>4, <2>2, <2>5 DEF Size
<1>12. \A t \in paid : t \notin Left("probe")'
  BY <1>8, <1>10
<1>13. QED
  BY <1>7, <1>9, <1>11, <1>12

LEMMA PartitionedLeft ==
    ASSUME MidpointInv, Partitioned, NEW work \in Works
    PROVE  Left(work)' \subseteq Left(work)
<1>1. /\ TypeInv /\ pc = "partition" /\ calls # <<>> /\ PartitionLoop /\ scan >= upper
      /\ Top \in Activation /\ Top.kind = "midpoint" /\ Splits /\ pc' = "loop"
      /\ lower \in Int /\ scan \in Int /\ upper \in Int
  BY PartitionedKeeps, TopType DEF MidpointInv, Partitioned, LoopInv, TypeInv
<1>2. PICK below, above : /\ below = Call("midpoint", Top.first, lower - 1, Top.left)
                          /\ above = Call("midpoint", upper, Top.last, Top.left)
  OBVIOUS
<1>3. /\ Top.first \in Nat \ {0} /\ Top.last \in Nat /\ Top.left \in Nat
      /\ Top.first <= lower /\ lower <= upper /\ upper <= Top.last + 1
  BY <1>1 DEF PartitionLoop, Activation
<1>4. /\ below.kind = "midpoint" /\ below.left = Top.left /\ below.first = Top.first
      /\ above.kind = "midpoint" /\ above.left = Top.left
      /\ Offsets(below) = Top.first .. lower - 1 /\ Offsets(above) = upper .. Top.last
      /\ above.first = upper
  BY <1>2 DEF Call, Offsets
<1> below \in Activation /\ above \in Activation
  <2>1. lower - 1 \in Nat /\ upper \in Nat \ {0}
    BY <1>1, <1>3
  <2>2. QED
    BY <1>2, <1>3, <2>1 DEF Call, Activation
<1>5. ASSUME NEW at, at.loop = "loop", NEW k \in Places, NEW level \in Levels(work),
             May(work, below, at, k, level) \/ May(work, above, at, k, level)
      PROVE  May(work, Top, At(Len(calls)), k, level)
  <2>1. k \in Offsets(Top)
    <3>1. k \in Top.first .. lower - 1 \/ k \in upper .. Top.last
      BY <1>4, <1>5 DEF May
    <3>2. k \in Top.first .. Top.last
      BY <1>1, <1>3, <3>1
    <3>3. QED
      BY <3>2 DEF Offsets
  <2>2. work = "probe" => k # Top.first /\ level <= Top.left
    <3>1. CASE May(work, below, at, k, level)
      BY <1>4, <3>1 DEF May, MidpointMay, RadixMay
    <3>2. CASE May(work, above, at, k, level)
      <4>1. k \in upper .. Top.last
        BY <1>4, <3>2 DEF May
      <4>2. work = "probe" => k # upper /\ level <= Top.left
        BY <1>4, <3>2 DEF May, MidpointMay, RadixMay
      <4>3. work = "probe" => k # Top.first
        BY <1>1, <1>3, <4>1, <4>2
      <4>4. QED
        BY <4>2, <4>3
    <3>3. QED
      BY <1>5, <3>1, <3>2
  <2>3. work = "place" => level <= Top.left
    BY <1>4, <1>5 DEF May, MidpointMay, RadixMay
  <2>4. At(Len(calls)).loop = "partition"
    BY <1>1 DEF At
  <2>5. QED
    BY <1>1, <2>1, <2>2, <2>3, <2>4 DEF May, MidpointMay
<1>6. CASE CallThen(below, above)
  BY <1>1, <1>4, <1>5, <1>6, CallThenLeft
<1>7. CASE CallThen(above, below)
  BY <1>1, <1>4, <1>5, <1>7, CallThenLeft
<1>8. QED
  BY <1>2, <1>6, <1>7 DEF Partitioned, Sides

\* Both sides of a bit have the bits below it left.
LEMMA RadixSplitLeft ==
    ASSUME MidpointInv, RadixSplit, NEW work \in Works
    PROVE  Left(work)' \subseteq Left(work)
<1>1. /\ TypeInv /\ pc = "radix" /\ calls # <<>> /\ RadixLoop /\ lower >= upper
      /\ Top \in Activation /\ Top.kind = "radix" /\ Top.left > 0 /\ Splits /\ pc' = "loop"
      /\ lower \in Int /\ upper \in Int
  BY RadixSplitKeeps, TopType DEF MidpointInv, RadixSplit, LoopInv, TypeInv
<1>2. PICK zeros, ones : /\ zeros = RadixCall(Top.first, lower - 1)
                         /\ ones = RadixCall(lower, Top.last)
  OBVIOUS
<1>3. /\ Top.first \in Nat \ {0} /\ Top.last \in Nat /\ Top.left \in Nat \ {0}
      /\ Top.first <= lower /\ lower = upper /\ lower <= Top.last + 1
  BY <1>1 DEF RadixLoop, Activation
<1>4. /\ zeros.kind = "radix" /\ zeros.left = Top.left - 1
      /\ ones.kind = "radix" /\ ones.left = Top.left - 1
      /\ Offsets(zeros) = Top.first .. lower - 1 /\ Offsets(ones) = lower .. Top.last
  BY <1>2 DEF RadixCall, Call, Offsets
<1> zeros \in Activation /\ ones \in Activation
  <2>1. lower - 1 \in Nat /\ lower \in Nat \ {0} /\ Top.left - 1 \in Nat
    BY <1>1, <1>3
  <2>2. QED
    BY <1>2, <1>3, <2>1 DEF RadixCall, Call, Activation
<1>5. ASSUME NEW at, at.loop = "loop", NEW k \in Places, NEW level \in Levels(work),
             May(work, zeros, at, k, level) \/ May(work, ones, at, k, level)
      PROVE  May(work, Top, At(Len(calls)), k, level)
  <2>1. k \in Offsets(Top)
    <3>1. k \in Top.first .. lower - 1 \/ k \in lower .. Top.last
      BY <1>4, <1>5 DEF May
    <3>2. k \in Top.first .. Top.last
      BY <1>1, <1>3, <3>1
    <3>3. QED
      BY <3>2 DEF Offsets
  <2>2. work = "bit" /\ level <= Top.left - 1
    BY <1>4, <1>5 DEF May, MidpointMay, RadixMay
  <2>3. level \in Nat
    BY LevelsAre
  <2>4. level <= Top.left /\ level # Top.left
    BY <1>3, <2>2, <2>3
  <2>5. QED
    BY <1>1, <2>1, <2>2, <2>4 DEF May, RadixMay
<1>6. CallThen(zeros, ones)
  BY <1>2 DEF RadixSplit
<1>7. QED
  BY <1>1, <1>4, <1>5, <1>6, CallThenLeft

\* Steps of a loop leave the stack as it is.
LEMMA LoopLeft ==
    ASSUME TypeInv, calls # <<>>, UNCHANGED <<values, calls>>, NEW work,
           \A k \in Places, level \in Levels(work) :
              May(work, Top, At(Len(calls))', k, level) => May(work, Top, At(Len(calls)), k, level)
    PROVE  Left(work)' \subseteq Left(work)
<1>1. SUFFICES ASSUME NEW t, t \in Left(work)' PROVE t \in Left(work)
  OBVIOUS
<1>2. Places' = Places /\ Levels(work)' = Levels(work)
  BY DEF Places, Levels
<1>3. t \in Places \X Levels(work) /\ t[1] \in Places /\ t[2] \in Levels(work)
  BY <1>1, <1>2 DEF Left
<1>4. PICK c \in DOMAIN calls : May(work, calls[c], At(c)', t[1], t[2])
  BY <1>1 DEF Left
<1>5. CASE c = Len(calls)
  <2>1. May(work, calls[c], At(c), t[1], t[2])
    BY <1>3, <1>4, <1>5 DEF Top
  <2>2. QED
    BY <1>3, <2>1 DEF Left
<1>6. CASE c # Len(calls)
  <2>1. At(c).loop = "loop" /\ At(c)'.loop = "loop"
    BY <1>6 DEF At
  <2>2. May(work, calls[c], At(c), t[1], t[2])
    BY <1>4, <2>1, MayAtRest
  <2>3. QED
    BY <1>3, <2>2 DEF Left
<1>7. QED
  BY <1>5, <1>6

LEMMA LoopSpent ==
    ASSUME TypeInv, Apart, UNCHANGED <<values, calls>>, NEW k \in Offsets(Top),
           NEW work, NEW level, ~ May(work, Top, At(Len(calls))', k, level)
    PROVE  <<k, level>> \notin Left(work)'
<1>1. SUFFICES ASSUME NEW c \in DOMAIN calls, May(work, calls[c], At(c)', k, level)
               PROVE  FALSE
  BY DEF Left
<1>2. k \in Offsets(calls[c])
  BY <1>1 DEF May
<1>3. c = Len(calls) /\ calls[c] = Top
  BY <1>2, OnlyTop
<1>4. QED
  BY <1>1, <1>3

LEMMA TopLeft ==
    ASSUME TypeInv, calls # <<>>, NEW k \in Offsets(Top), NEW work,
           NEW level \in Levels(work), May(work, Top, At(Len(calls)), k, level)
    PROVE  <<k, level>> \in Left(work)
<1>1. Len(calls) \in DOMAIN calls /\ k \in Places
  BY TopType
<1>2. QED
  BY <1>1 DEF Left, Top

LEMMA BeginInsertionLeft ==
    ASSUME MidpointInv, BeginInsertion, NEW work \in Works
    PROVE  Left(work)' \subseteq Left(work)
<1>1. TypeInv /\ calls # <<>> /\ pc = "loop" /\ Top.kind = "midpoint"
  BY AtLoopFinds DEF BeginInsertion
<1>2. UNCHANGED <<values, calls>> /\ pc' = "insertion"
  BY DEF BeginInsertion
<1>3. At(Len(calls)).loop = "loop" /\ At(Len(calls))'.loop = "insertion"
  BY <1>1, <1>2 DEF At
<1>4. \A k \in Places, level \in Levels(work) :
         May(work, Top, At(Len(calls))', k, level) => May(work, Top, At(Len(calls)), k, level)
  BY <1>1, <1>3 DEF May, MidpointMay, RadixMay
<1>5. QED
  BY <1>1, <1>2, <1>4, LoopLeft

LEMMA BeginRadixLeft ==
    ASSUME MidpointInv, BeginRadix, NEW work \in Works
    PROVE  Left(work)' \subseteq Left(work)
<1>1. TypeInv /\ calls # <<>> /\ pc = "loop" /\ Top.kind = "radix"
  BY AtLoopFinds DEF BeginRadix
<1>2. UNCHANGED <<values, calls>> /\ pc' = "radix"
  BY DEF BeginRadix
<1>3. At(Len(calls)).loop = "loop" /\ At(Len(calls))'.loop = "radix"
  BY <1>1, <1>2 DEF At
<1>4. \A k \in Places, level \in Levels(work) :
         May(work, Top, At(Len(calls))', k, level) => May(work, Top, At(Len(calls)), k, level)
  BY <1>1, <1>3 DEF May, MidpointMay, RadixMay
<1>5. QED
  BY <1>1, <1>2, <1>4, LoopLeft

\* Each step of a partition settles an offset, at most by a swap.
LEMMA PartitionLeft ==
    ASSUME MidpointInv, Limits, PartitionNext
    PROVE  /\ \A work \in Works : Left(work)' \subseteq Left(work)
           /\ \E paid \in SUBSET Left("place"), n \in {0, 1} :
                 /\ Cardinality(paid) = n /\ stats'.swaps \in {stats.swaps, stats.swaps + n}
                 /\ \A t \in paid : t \notin Left("place")'
<1>1. /\ TypeInv /\ Apart /\ pc = "partition" /\ calls # <<>> /\ scan < upper /\ PartitionLoop
      /\ UNCHANGED <<values, calls, pc, pivot>> /\ Top.kind = "midpoint"
      /\ Top \in Activation
      /\ lower \in Int /\ scan \in Int /\ upper \in Int
  BY TopType DEF MidpointInv, PartitionNext, LoopInv, TypeInv
<1>2. PICK top, at, after : top = Top /\ at = At(Len(calls)) /\ after = At(Len(calls))'
  OBVIOUS
<1>3. /\ at.loop = "partition" /\ at.scan = scan /\ at.upper = upper
      /\ after.loop = "partition" /\ after.scan = scan' /\ after.upper = upper'
  BY <1>1, <1>2 DEF At
<1>4. /\ top.first <= scan /\ scan < upper /\ upper <= top.last + 1
      /\ top.first \in Nat \ {0} /\ top.last \in Nat /\ top.left \in Nat
  BY <1>1, <1>2 DEF PartitionLoop, Activation
<1>5. /\ scan' \in Int /\ upper' \in Int /\ scan <= scan' /\ upper' <= upper
  BY <1>1 DEF PartitionNext, PlaceLess, PlaceEqual, PlaceGreater
<1>6. ASSUME NEW work \in Works PROVE Left(work)' \subseteq Left(work)
  <2>1. \A k \in scan' .. upper' - 1 : k \in scan .. upper - 1
    <3>1. PICK a, b : a = scan' /\ b = upper'
      OBVIOUS
    <3>2. /\ a \in Int /\ b \in Int /\ scan \in Int /\ upper \in Int
          /\ scan <= a /\ b <= upper
      BY <1>1, <1>5, <3>1
    <3>3. \A k \in a .. b - 1 : k \in scan .. upper - 1
      BY <3>2
    <3>4. QED
      BY <3>1, <3>3
  <2>2. \A k \in Places, level \in Levels(work) :
           May(work, top, after, k, level) => May(work, top, at, k, level)
    BY <1>1, <1>2, <1>3, <2>1 DEF May, MidpointMay, RadixMay
  <2>3. QED
    BY <1>1, <1>2, <2>2, LoopLeft
<1>7. top.left + 1 \in Levels("place")
  <2>1. top.left < MIDPOINT_PARTITION_BUDGET
    BY <1>1, <1>2 DEF Limits
  <2>2. Levels("place") = 1 .. MIDPOINT_PARTITION_BUDGET
    BY LevelsAre DEF Works
  <2>3. QED
    BY <1>4, <2>1, <2>2, SortAssumption
<1>8. ASSUME NEW k \in scan .. upper - 1, k \notin scan' .. upper' - 1
      PROVE  <<k, top.left + 1>> \in Left("place") \ Left("place")'
  <2>1. k \in Offsets(top)
    BY <1>1, <1>4 DEF Offsets
  <2>2. May("place", top, at, k, top.left + 1)
    BY <1>1, <1>2, <1>3, <1>8, <2>1 DEF May, MidpointMay
  <2>3. ~ (top.left + 1 <= top.left)
    BY <1>4
  <2>4. ~ May("place", top, after, k, top.left + 1)
    BY <1>1, <1>2, <1>3, <1>8, <2>3 DEF May, MidpointMay, RadixMay
  <2>5. <<k, top.left + 1>> \in Left("place")
    BY <1>1, <1>2, <1>7, <2>1, <2>2, TopLeft
  <2>6. <<k, top.left + 1>> \notin Left("place")'
    BY <1>1, <1>2, <2>1, <2>4, LoopSpent
  <2>7. QED
    BY <2>5, <2>6
<1>9. ASSUME NEW k \in scan .. upper - 1, k \notin scan' .. upper' - 1,
             stats'.swaps \in {stats.swaps, stats.swaps + 1}
      PROVE  \E paid \in SUBSET Left("place"), n \in {0, 1} :
                 /\ Cardinality(paid) = n /\ stats'.swaps \in {stats.swaps, stats.swaps + n}
                 /\ \A t \in paid : t \notin Left("place")'
  <2>1. Cardinality({<<k, top.left + 1>>}) = 1
    BY FS_Singleton
  <2>2. QED
    BY <1>8, <1>9, <2>1
<1>10. stats.swaps \in Nat /\ \A n : [stats EXCEPT !["swaps"] = @ + n].swaps = stats.swaps + n
  BY DEF Limits
<1>11. CASE PlaceLess
  <2>1. /\ scan' = scan + 1
        /\ stats' = [stats EXCEPT !["swaps"] = @ + IF lower # scan THEN 1 ELSE 0]
    BY <1>11 DEF PlaceLess, Count
  <2>2. stats'.swaps \in {stats.swaps, stats.swaps + 1}
    BY <1>10, <2>1
  <2>3. scan \in scan .. upper - 1 /\ scan \notin scan' .. upper' - 1
    BY <1>1, <2>1
  <2>4. QED
    BY <1>6, <1>9, <2>2, <2>3
<1>12. CASE PlaceEqual
  <2>1. stats' = stats
    BY <1>12 DEF PlaceEqual
  <2>2. Cardinality({}) = 0
    BY FS_EmptySet
  <2>3. QED
    BY <1>6, <2>1, <2>2
<1>13. CASE PlaceGreater
  <2>1. /\ upper' = upper - 1
        /\ stats' = [stats EXCEPT !["swaps"] = @ + IF scan # upper - 1 THEN 1 ELSE 0]
    BY <1>13 DEF PlaceGreater, Count
  <2>2. stats'.swaps \in {stats.swaps, stats.swaps + 1}
    BY <1>10, <2>1
  <2>3. upper - 1 \in scan .. upper - 1 /\ upper - 1 \notin scan' .. upper' - 1
    BY <1>1, <2>1
  <2>4. QED
    BY <1>6, <1>9, <2>2, <2>3
<1>14. QED
  BY <1>11, <1>12, <1>13 DEF PartitionNext

\* A bit settles an offset, and a swap two of them.
LEMMA RadixLeft ==
    ASSUME MidpointInv, Limits, RadixNext
    PROVE  /\ \A work \in Works : Left(work)' \subseteq Left(work)
           /\ \E paid \in SUBSET Left("bit"), n \in {0, 1} :
                 /\ Cardinality(paid) = 2 * n /\ stats'.swaps = stats.swaps + n
                 /\ \A t \in paid : t \notin Left("bit")'
<1>1. /\ TypeInv /\ Apart /\ pc = "radix" /\ calls # <<>> /\ lower < upper /\ RadixLoop
      /\ UNCHANGED <<values, calls, pc, pivot, scan>> /\ Top.kind = "radix"
      /\ Top \in Activation /\ Top.left > 0 /\ lower \in Int /\ upper \in Int
      /\ Len(calls) \in DOMAIN calls
  BY TopType DEF MidpointInv, RadixNext, LoopInv, TypeInv
<1>2. PICK top, at, after : top = Top /\ at = At(Len(calls)) /\ after = At(Len(calls))'
  OBVIOUS
<1>3. /\ at.loop = "radix" /\ at.lower = lower /\ at.upper = upper
      /\ after.loop = "radix" /\ after.lower = lower' /\ after.upper = upper'
  BY <1>1, <1>2 DEF At
<1>4. /\ top.first <= lower /\ lower < upper /\ upper <= top.last + 1
      /\ top.first \in Nat \ {0} /\ top.last \in Nat /\ top.left \in Nat \ {0}
  BY <1>1, <1>2 DEF RadixLoop, Activation
<1>5. PICK a, b : a = lower' /\ b = upper'
  OBVIOUS
<1>6. a \in Int /\ b \in Int /\ lower <= a /\ b <= upper
  BY <1>1, <1>5 DEF RadixNext
<1>7. ASSUME NEW work \in Works PROVE Left(work)' \subseteq Left(work)
  <2>1. \A k \in a .. b - 1 : k \in lower .. upper - 1
    BY <1>1, <1>6
  <2>2. \A k \in Places, level \in Levels(work) :
           May(work, top, after, k, level) => May(work, top, at, k, level)
    BY <1>1, <1>2, <1>3, <1>5, <2>1 DEF May, MidpointMay, RadixMay
  <2>3. QED
    BY <1>1, <1>2, <2>2, LoopLeft
<1>8. top.left \in Levels("bit")
  <2>1. top.left <= BITS
    BY <1>1, <1>2 DEF Limits, Top
  <2>2. Levels("bit") = 1 .. BITS
    BY LevelsAre DEF Works
  <2>3. QED
    BY <1>4, <2>1, <2>2, BITSAssumption
<1>9. ASSUME NEW k \in lower .. upper - 1, k \notin a .. b - 1
      PROVE  <<k, top.left>> \in Left("bit") \ Left("bit")'
  <2>1. k \in Offsets(top)
    BY <1>1, <1>4 DEF Offsets
  <2>2. May("bit", top, at, k, top.left)
    BY <1>1, <1>2, <1>3, <1>4, <1>9, <2>1 DEF May, RadixMay
  <2>3. ~ May("bit", top, after, k, top.left)
    BY <1>1, <1>2, <1>3, <1>5, <1>9 DEF May, MidpointMay, RadixMay
  <2>4. <<k, top.left>> \in Left("bit")
    BY <1>1, <1>2, <1>8, <2>1, <2>2, TopLeft
  <2>5. <<k, top.left>> \notin Left("bit")'
    BY <1>1, <1>2, <2>1, <2>3, LoopSpent
  <2>6. QED
    BY <2>4, <2>5
<1>10. CASE stats' = stats
  <2>1. Cardinality({}) = 0 /\ stats.swaps \in Nat
    BY FS_EmptySet DEF Limits
  <2>2. QED
    BY <1>7, <1>10, <2>1
<1>11. CASE /\ BitAt(lower) # 0 /\ BitAt(upper - 1) = 0
            /\ lower' = lower + 1 /\ upper' = upper - 1 /\ Count("swaps", 1)
  <2>1. stats'.swaps = stats.swaps + 1
    BY <1>11 DEF Limits, Count
  <2>2. lower # upper - 1
    BY <1>11
  <2>3. PICK paid : paid = {<<lower, top.left>>, <<upper - 1, top.left>>}
    OBVIOUS
  <2>4. Cardinality(paid) = 2
    <3>1. PICK x, y : x = <<lower, top.left>> /\ y = <<upper - 1, top.left>>
      OBVIOUS
    <3>2. IsFiniteSet({x}) /\ Cardinality({x}) = 1 /\ x # y
      BY <2>2, <3>1, FS_Singleton
    <3>3. paid = {x} \cup {y} /\ y \notin {x}
      BY <2>3, <3>1, <3>2
    <3>4. Cardinality(paid) = 1 + 1
      BY <3>2, <3>3, FS_AddElement
    <3>5. QED
      BY <3>4
  <2>5. /\ lower \in lower .. upper - 1 /\ lower \notin a .. b - 1
        /\ upper - 1 \in lower .. upper - 1 /\ upper - 1 \notin a .. b - 1
    BY <1>1, <1>5, <1>11
  <2>6. paid \in SUBSET Left("bit") /\ \A t \in paid : t \notin Left("bit")'
    BY <1>9, <2>3, <2>5
  <2>7. QED
    BY <1>7, <2>1, <2>4, <2>6
<1>12. QED
  BY <1>10, <1>11 DEF RadixNext

\* The j-th insertion moves an ID by no more than j places, and j of 1 + 2 + ...
\* are half of a square.
LEMMA InsertionLeft ==
    ASSUME MidpointInv, Limits, InsertNext
    PROVE  /\ \A work \in Works : Left(work)' \subseteq Left(work)
           /\ \E paid \in SUBSET Left("insert"), n \in Nat, j \in Nat :
                 /\ Cardinality(paid) = 2 * j /\ n <= j /\ stats'.swaps = stats.swaps + n
                 /\ \A t \in paid : t \notin Left("insert")'
<1>1. /\ TypeInv /\ Apart /\ pc = "insertion" /\ calls # <<>> /\ scan <= Top.last
      /\ InsertionLoop /\ UNCHANGED <<values, calls, pc, pivot, lower, upper>>
      /\ scan' = scan + 1 /\ Top.kind = "midpoint"
      /\ Top \in Activation /\ scan \in Int
  BY TopType DEF MidpointInv, InsertNext, LoopInv, TypeInv
<1>2. PICK top, at, after : top = Top /\ at = At(Len(calls)) /\ after = At(Len(calls))'
  OBVIOUS
<1>3. /\ at.loop = "insertion" /\ at.scan = scan
      /\ after.loop = "insertion" /\ after.scan = scan + 1
  BY <1>1, <1>2 DEF At
<1>4. PICK first, j : first = top.first /\ j = scan - first
  OBVIOUS
<1>5. /\ first \in Nat \ {0} /\ top.last \in Nat /\ j \in Nat \ {0} /\ scan = first + j
      /\ scan <= top.last
  BY <1>1, <1>2, <1>4 DEF InsertionLoop, Activation
<1> at.scan - top.first = scan - first /\ after.scan - top.first = scan + 1 - first
  <2>1. /\ at.scan = scan /\ after.scan = scan + 1 /\ top.first = first
        /\ scan \in Int /\ first \in Int
    BY <1>1, <1>3, <1>4, <1>5
  <2>2. QED
    BY <2>1
<1>6. ASSUME NEW work \in Works PROVE Left(work)' \subseteq Left(work)
  <2>1. ASSUME NEW k \in Places, NEW level \in Levels(work), k >= scan + 1 \/ level >= scan + 1 - first
        PROVE  k >= scan \/ level >= scan - first
    <3>1. k \in Int /\ level \in Int
      BY LevelsAre DEF Places
    <3>2. QED
      BY <1>1, <1>5, <2>1, <3>1
  <2>2. ASSUME NEW k \in Places, NEW level \in Levels(work), May(work, top, after, k, level)
        PROVE  May(work, top, at, k, level)
    <3>1. k \in Offsets(top) /\ MidpointMay(work, top, after, k, level)
      BY <1>1, <1>2, <2>2 DEF May, RadixMay
    <3>2. work = "insert" => k >= scan + 1 \/ level >= scan + 1 - first
      BY <1>3, <3>1 DEF MidpointMay
    <3>3. work = "insert" => k >= at.scan \/ level >= at.scan - top.first
      BY <1>3, <2>1, <3>2
    <3>4. MidpointMay(work, top, at, k, level)
      BY <1>3, <3>1, <3>3 DEF MidpointMay
    <3>5. QED
      BY <3>1, <3>4 DEF May
  <2>3. \A k \in Places, level \in Levels(work) :
           May(work, top, after, k, level) => May(work, top, at, k, level)
    BY <2>2
  <2>4. QED
    BY <1>1, <1>2, <2>3, LoopLeft
<1>7. j <= INSERTION_SORT_CUTOFF - 1 /\ Levels("insert") = 1 .. INSERTION_SORT_CUTOFF - 1
  <2>1. Size(top) <= INSERTION_SORT_CUTOFF
    BY <1>1, <1>2 DEF Limits
  <2>2. Levels("insert") = 1 .. INSERTION_SORT_CUTOFF - 1
    BY LevelsAre DEF Works
  <2>3. QED
    BY <1>4, <1>5, <2>1, <2>2, SortAssumption DEF Size
<1>8. ASSUME NEW k \in first .. scan, NEW level \in 1 .. j, k = scan \/ level = j
      PROVE  <<k, level>> \in Left("insert") \ Left("insert")'
  <2>1. k \in Offsets(top) /\ level \in Levels("insert")
    BY <1>4, <1>5, <1>7, SortAssumption DEF Offsets
  <2>2. k >= scan \/ level >= scan - first
    BY <1>5, <1>8
  <2>3. ~ (k >= scan + 1 \/ level >= scan + 1 - first)
    BY <1>5, <1>8
  <2>4. May("insert", top, at, k, level)
    BY <1>1, <1>2, <1>3, <1>4, <2>1, <2>2 DEF May, MidpointMay
  <2>5. ~ May("insert", top, after, k, level)
    <3>1. ~ (k >= after.scan \/ level >= after.scan - top.first)
      BY <1>3, <2>3
    <3>2. QED
      BY <1>1, <1>2, <1>3, <3>1 DEF May, MidpointMay, RadixMay
  <2>6. <<k, level>> \in Left("insert")
    BY <1>1, <1>2, <2>1, <2>4, TopLeft
  <2>7. <<k, level>> \notin Left("insert")'
    BY <1>1, <1>2, <2>1, <2>5, LoopSpent
  <2>8. QED
    BY <2>6, <2>7
<1>9. PICK down, across : /\ down = {scan} \X (1 .. j)
                          /\ across = (first .. scan - 1) \X {j}
  OBVIOUS
<1>10. /\ \A t \in down : t \in Left("insert") \ Left("insert")'
       /\ \A t \in across : t \in Left("insert") \ Left("insert")'
  <2>1. ASSUME NEW level \in 1 .. j
        PROVE  <<scan, level>> \in Left("insert") \ Left("insert")'
    <3>1. scan \in first .. scan
      BY <1>5
    <3>2. QED
      BY <1>8, <3>1
  <2>2. ASSUME NEW k \in first .. scan - 1
        PROVE  <<k, j>> \in Left("insert") \ Left("insert")'
    <3>1. k \in first .. scan /\ j \in 1 .. j
      BY <1>5
    <3>2. QED
      BY <1>8, <3>1
  <2>3. QED
    BY <1>9, <2>1, <2>2
<1>11. Cardinality(down \cup across) = 2 * j
  <2>1. PICK D, A, one, other : /\ D = 1 .. j /\ A = first .. scan - 1
                                /\ one = {scan} /\ other = {j}
    OBVIOUS
  <2>2. IsFiniteSet(D) /\ Cardinality(D) = j
    BY <1>5, <2>1, PlacesCount
  <2>3. IsFiniteSet(A) /\ Cardinality(A) = j
    <3>1. first \in Int /\ scan - 1 \in Int /\ first <= (scan - 1) + 1
      BY <1>5
    <3>2. IsFiniteSet(A) /\ Cardinality(A) = (scan - 1) + 1 - first
      BY <2>1, <3>1, PlacesCount
    <3>3. QED
      BY <1>5, <3>2
  <2>4. /\ IsFiniteSet(one) /\ Cardinality(one) = 1
        /\ IsFiniteSet(other) /\ Cardinality(other) = 1
    BY <2>1, FS_Singleton
  <2>5. IsFiniteSet(down) /\ Cardinality(down) = 1 * j
    <3>1. down = one \X D
      BY <1>9, <2>1
    <3>2. QED
      BY <2>2, <2>4, <3>1, FS_Product
  <2>6. IsFiniteSet(across) /\ Cardinality(across) = j * 1
    <3>1. across = A \X other
      BY <1>9, <2>1
    <3>2. QED
      BY <2>3, <2>4, <3>1, FS_Product
  <2>7. down \cap across = {}
    <3>1. scan \notin first .. scan - 1
      BY <1>5
    <3>2. QED
      BY <1>9, <3>1
  <2>8. Cardinality(down \cap across) = 0
    BY <2>7, FS_EmptySet
  <2>9. Cardinality(down \cup across) = Cardinality(down) + Cardinality(across) - 0
    BY <2>5, <2>6, <2>8, FS_Union
  <2>10. QED
    BY <1>5, <2>5, <2>6, <2>9
<1>12. \E n \in Nat : n <= j /\ stats'.swaps = stats.swaps + n
  <2>1. PICK S : S = {k \in top.first .. scan - 1 : Value(k) <= Value(scan)}
    OBVIOUS
  <2>2. PICK A : A = first .. scan - 1
    OBVIOUS
  <2>3. IsFiniteSet(A) /\ Cardinality(A) = j
    <3>1. first \in Int /\ scan - 1 \in Int /\ first <= (scan - 1) + 1
      BY <1>5
    <3>2. IsFiniteSet(A) /\ Cardinality(A) = (scan - 1) + 1 - first
      BY <2>2, <3>1, PlacesCount
    <3>3. QED
      BY <1>5, <3>2
  <2>4. S \in SUBSET A
    BY <1>4, <2>1, <2>2
  <2>5. IsFiniteSet(S) /\ Cardinality(S) <= j /\ Cardinality(S) \in Nat
    BY <2>3, <2>4, FS_Subset, FS_CardinalityType
  <2>6. PICK n : n = scan - (first + Cardinality(S))
    OBVIOUS
  <2>7. n \in Nat /\ n <= j
    BY <1>5, <2>5, <2>6
  <2>8. Count("swaps", n)
    BY <1>2, <1>4, <2>1, <2>6 DEF InsertNext
  <2>9. stats'.swaps = stats.swaps + n
    BY <2>8 DEF Count, Limits
  <2>10. QED
    BY <2>7, <2>9
<1>13. QED
  <2>1. down \cup across \in SUBSET Left("insert")
    BY <1>10
  <2>2. \A t \in down \cup across : t \notin Left("insert")'
    BY <1>10
  <2>3. j \in Nat
    BY <1>5
  <2>4. QED
    BY <1>6, <1>11, <1>12, <2>1, <2>2, <2>3

-------------------------------------------------------------------------------
(* The values still sorted by.                                             *)

LEMMA RearrangedSeparate ==
    ASSUME TypeInv, Apart, Separate, Rearranges
    PROVE  Separate' /\ \A v : Open(v)' => Open(v)
<1>1. /\ calls' = calls /\ Places' = Places /\ calls # <<>>
      /\ Len(calls) \in DOMAIN calls
  BY RearrangedType, TopType DEF Rearranges
<1>2. ASSUME NEW c \in DOMAIN calls, calls[c].kind = "midpoint", NEW i \in Offsets(calls[c]),
             NEW j \in Places, j \notin Offsets(calls[c])
      PROVE  Value(i)' # Value(j)'
  <2>1. PICK p \in Offsets(calls[c]) : Value(i)' = Value(p)
    BY <1>2, RearrangedRegions
  <2>2. \E q \in Places : q \notin Offsets(calls[c]) /\ Value(j)' = Value(q)
    <3>1. CASE j \in Offsets(Top)
      <4>1. PICK q \in Offsets(Top) : Value(j)' = Value(q)
        BY <3>1, RearrangedValues
      <4>2. q \notin Offsets(calls[c])
        BY <1>2, <3>1, OnlyTop
      <4>3. QED
        BY <1>1, <4>1, <4>2, TopType
    <3>2. CASE j \notin Offsets(Top)
      BY <1>2, <3>2, RearrangedValues
    <3>3. QED
      BY <3>1, <3>2
  <2>3. QED
    BY <1>2, <2>1, <2>2 DEF Separate
<1>3. Separate'
  BY <1>1, <1>2 DEF Separate, Offsets
<1>4. ASSUME NEW v, Open(v)'
      PROVE  Open(v)
  <2>1. PICK c \in DOMAIN calls :
           calls[c].kind = "midpoint" /\ \E k \in Offsets(calls[c]) : v = Value(k)'
    BY <1>1, <1>4 DEF Open, Offsets
  <2>2. PICK k \in Offsets(calls[c]) : v = Value(k)'
    BY <2>1
  <2>3. PICK q \in Offsets(calls[c]) : Value(k)' = Value(q)
    BY RearrangedRegions
  <2>4. QED
    BY <2>1, <2>2, <2>3 DEF Open
<1>5. QED
  BY <1>3, <1>4

\* An activation of midpoint_sort gives way to others with some of its values,
\* all those that are equal.
LEMMA SplitSeparate ==
    ASSUME TypeInv, Separate, Splits,
           \A c \in Len(calls) .. Len(calls') : calls'[c].kind = "midpoint" =>
              /\ Top.kind = "midpoint"
              /\ \A i \in Offsets(calls'[c]) : \A j \in Offsets(Top) :
                    j \notin Offsets(calls'[c]) => Value(i) # Value(j)
    PROVE  Separate' /\ \A v : Open(v)' => Open(v)
<1>1. /\ Places' = Places /\ \A k : Value(k)' = Value(k)
      /\ \A call : Offsets(call)' = Offsets(call)
  BY DEF Splits, Places, Value, Offsets
<1>2. calls # <<>> /\ Len(calls) \in DOMAIN calls
  BY TopType DEF Splits
<1>3. ASSUME NEW c \in DOMAIN calls', calls'[c].kind = "midpoint"
      PROVE  \E d \in DOMAIN calls :
                /\ calls[d].kind = "midpoint" /\ Offsets(calls'[c]) \subseteq Offsets(calls[d])
                /\ \A i \in Offsets(calls'[c]) : \A j \in Offsets(calls[d]) :
                      j \notin Offsets(calls'[c]) => Value(i) # Value(j)
  <2>1. CASE c \in Len(calls) .. Len(calls')
    BY <1>2, <1>3, <2>1 DEF Splits, Top
  <2>2. CASE c \in DOMAIN calls /\ calls'[c] = calls[c]
    BY <1>3, <2>2
  <2>3. QED
    BY <2>1, <2>2, SplitStack
<1>4. Separate'
  <2>1. SUFFICES ASSUME NEW c \in DOMAIN calls', calls'[c].kind = "midpoint",
                        NEW i \in Offsets(calls'[c]), NEW j \in Places,
                        j \notin Offsets(calls'[c])
                 PROVE  Value(i) # Value(j)
    BY <1>1 DEF Separate, Offsets
  <2>2. PICK d \in DOMAIN calls :
           /\ calls[d].kind = "midpoint" /\ Offsets(calls'[c]) \subseteq Offsets(calls[d])
           /\ \A p \in Offsets(calls'[c]) : \A q \in Offsets(calls[d]) :
                 q \notin Offsets(calls'[c]) => Value(p) # Value(q)
    BY <1>3, <2>1
  <2>3. CASE j \in Offsets(calls[d])
    BY <2>1, <2>2, <2>3
  <2>4. CASE j \notin Offsets(calls[d])
    BY <2>1, <2>2, <2>4 DEF Separate
  <2>5. QED
    BY <2>3, <2>4
<1>5. ASSUME NEW v, Open(v)'
      PROVE  Open(v)
  <2>1. PICK c \in DOMAIN calls' :
           calls'[c].kind = "midpoint" /\ \E k \in Offsets(calls'[c]) : v = Value(k)
    BY <1>1, <1>5 DEF Open, Offsets
  <2>2. PICK d \in DOMAIN calls :
           calls[d].kind = "midpoint" /\ Offsets(calls'[c]) \subseteq Offsets(calls[d])
    BY <1>3, <2>1
  <2>3. QED
    BY <2>1, <2>2 DEF Open
<1>6. QED
  BY <1>4, <1>5

LEMMA PivotsKept ==
    ASSUME PivotsOut, values' = values,
           stats'.midpoint_partitions = stats.midpoint_partitions,
           \A v : Open(v)' => Open(v)
    PROVE  PivotsOut'
BY DEF PivotsOut

\* A region the values of which are left where they are, or that is not sorted
\* by a pivot any more.
LEMMA GoOnSeparate ==
    ASSUME TypeInv, Separate, Splits, NEW call \in Activation, GoOnAs(call),
           call.kind = "midpoint" => Top.kind = "midpoint" /\ Offsets(call) = Offsets(Top)
    PROVE  Separate' /\ \A v : Open(v)' => Open(v)
<1>1. Len(calls') = Len(calls) /\ calls'[Len(calls)] = call /\ Len(calls) \in Nat
  BY GoOnShape, SplitStack DEF Splits
<1>2. \A c \in Len(calls) .. Len(calls') : calls'[c] = call
  BY <1>1
<1>3. QED
  BY <1>2, SplitSeparate

LEMMA ReturnSeparate ==
    ASSUME TypeInv, Separate, Splits, Return
    PROVE  Separate' /\ \A v : Open(v)' => Open(v)
<1>1. Len(calls') = Len(calls) - 1 /\ Len(calls) \in Nat
  BY ReturnShape, SplitStack DEF Splits
<1>2. Len(calls) .. Len(calls') = {}
  BY <1>1
<1>3. QED
  BY <1>2, SplitSeparate

LEMMA RadixSplitSeparate ==
    ASSUME MidpointInv, Separate, RadixSplit
    PROVE  Separate' /\ \A v : Open(v)' => Open(v)
<1>1. /\ TypeInv /\ pc = "radix" /\ calls # <<>> /\ RadixLoop
      /\ Top \in Activation /\ Top.left > 0 /\ Splits
      /\ lower \in Int /\ upper \in Int /\ lower >= upper
  BY RadixSplitKeeps, TopType DEF MidpointInv, RadixSplit, LoopInv, TypeInv
<1>2. PICK zeros, ones : /\ zeros = RadixCall(Top.first, lower - 1)
                         /\ ones = RadixCall(lower, Top.last)
  OBVIOUS
<1>3. CallThen(zeros, ones) /\ zeros.kind = "radix" /\ ones.kind = "radix"
  BY <1>2 DEF RadixSplit, RadixCall, Call
<1>4. zeros \in Activation /\ ones \in Activation
  <2>1. lower - 1 \in Nat /\ lower \in Nat \ {0} /\ Top.left - 1 \in Nat
        /\ Top.first \in Nat \ {0} /\ Top.last \in Nat
    BY <1>1 DEF RadixLoop, Activation
  <2>2. QED
    BY <1>2, <2>1 DEF RadixCall, Call, Activation
<1>5. PICK len : len = Len(calls)
  OBVIOUS
<1>6. /\ Len(calls') = len + 1 /\ calls'[len] = ones /\ calls'[len + 1] = zeros
      /\ len \in Nat
  BY <1>1, <1>3, <1>4, <1>5, CallThenShape, SplitStack
<1>7. \A c \in len .. len + 1 : c = len \/ c = len + 1
  BY <1>6
<1>8. \A c \in Len(calls) .. Len(calls') : calls'[c].kind = "radix"
  BY <1>3, <1>5, <1>6, <1>7
<1>9. QED
  BY <1>1, <1>8, SplitSeparate

\* The pivot is taken out: its values are neither below nor above it.
LEMMA PartitionedSeparate ==
    ASSUME MidpointInv, Limits, Separate, Partitioned
    PROVE  /\ Separate' /\ \A v : Open(v)' => Open(v) /\ v # pivot
           /\ \A c \in Len(calls) .. Len(calls') : calls'[c].kind = "midpoint"
<1>1. /\ TypeInv /\ Apart /\ pc = "partition" /\ calls # <<>> /\ PartitionLoop /\ scan >= upper
      /\ Top \in Activation /\ Top.kind = "midpoint" /\ Splits /\ pc' = "loop"
      /\ lower \in Int /\ scan \in Int /\ upper \in Int /\ pivot \in Int
      /\ Offsets(Top) \subseteq Places
  BY PartitionedKeeps, TopType DEF MidpointInv, Partitioned, LoopInv, TypeInv
<1>2. PICK below, above : /\ below = Call("midpoint", Top.first, lower - 1, Top.left)
                          /\ above = Call("midpoint", upper, Top.last, Top.left)
  OBVIOUS
<1>3. /\ Top.first \in Nat \ {0} /\ Top.last \in Nat /\ Top.left \in Nat
      /\ Top.first <= lower /\ lower <= upper /\ upper <= Top.last + 1 /\ scan = upper
      /\ \A k \in Top.first .. lower - 1 : Value(k) < pivot
      /\ \A k \in lower .. scan - 1 : Value(k) = pivot
      /\ \A k \in upper .. Top.last : Value(k) > pivot
  BY <1>1 DEF PartitionLoop, Activation
<1>4. /\ below.kind = "midpoint" /\ above.kind = "midpoint"
      /\ Offsets(below) = Top.first .. lower - 1 /\ Offsets(above) = upper .. Top.last
  BY <1>2 DEF Call, Offsets
<1>5. below \in Activation /\ above \in Activation
  <2>1. lower - 1 \in Nat /\ upper \in Nat \ {0}
    BY <1>1, <1>3
  <2>2. QED
    BY <1>2, <1>3, <2>1 DEF Call, Activation
<1>6. \A c \in Len(calls) .. Len(calls') : calls'[c] = below \/ calls'[c] = above
  <2>1. PICK len : len = Len(calls)
    OBVIOUS
  <2>2. CASE CallThen(below, above)
    <3>1. /\ Len(calls') = len + 1 /\ calls'[len] = above /\ calls'[len + 1] = below
          /\ len \in Nat
      BY <1>1, <1>5, <2>1, <2>2, CallThenShape, SplitStack
    <3>2. \A c \in len .. len + 1 : c = len \/ c = len + 1
      BY <3>1
    <3>3. QED
      BY <2>1, <3>1, <3>2
  <2>3. CASE CallThen(above, below)
    <3>1. /\ Len(calls') = len + 1 /\ calls'[len] = below /\ calls'[len + 1] = above
          /\ len \in Nat
      BY <1>1, <1>5, <2>1, <2>3, CallThenShape, SplitStack
    <3>2. \A c \in len .. len + 1 : c = len \/ c = len + 1
      BY <3>1
    <3>3. QED
      BY <2>1, <3>1, <3>2
  <2>4. QED
    BY <1>2, <2>2, <2>3 DEF Partitioned, Sides
<1>7. \A k \in Offsets(Top) :
         /\ Value(k) \in Int
         /\ k \in Offsets(below) <=> Value(k) < pivot
         /\ k \in Offsets(above) <=> Value(k) > pivot
  <2>1. SUFFICES ASSUME NEW k \in Offsets(Top)
                 PROVE  /\ Value(k) \in Int
                        /\ k \in Offsets(below) <=> Value(k) < pivot
                        /\ k \in Offsets(above) <=> Value(k) > pivot
    OBVIOUS
  <2>2. Value(k) \in Int /\ k \in Int
    BY <1>1, ValueType DEF Places
  <2>3. k \in Top.first .. lower - 1 \/ k \in lower .. scan - 1 \/ k \in upper .. Top.last
    BY <1>1, <1>3, <2>2 DEF Offsets
  <2>4. CASE k \in Top.first .. lower - 1
    <3>1. Value(k) < pivot /\ k \notin upper .. Top.last
      BY <1>1, <1>3, <2>2, <2>4
    <3>2. QED
      BY <1>1, <1>4, <2>2, <2>4, <3>1
  <2>5. CASE k \in lower .. scan - 1
    <3>1. Value(k) = pivot /\ k \notin Top.first .. lower - 1 /\ k \notin upper .. Top.last
      BY <1>1, <1>3, <2>2, <2>5
    <3>2. QED
      BY <1>1, <1>4, <2>2, <3>1
  <2>6. CASE k \in upper .. Top.last
    <3>1. Value(k) > pivot /\ k \notin Top.first .. lower - 1
      BY <1>1, <1>3, <2>2, <2>6
    <3>2. QED
      BY <1>1, <1>4, <2>2, <2>6, <3>1
  <2>7. QED
    BY <2>3, <2>4, <2>5, <2>6
<1>8. \A c \in Len(calls) .. Len(calls') : calls'[c].kind = "midpoint" =>
         /\ Top.kind = "midpoint"
         /\ \A i \in Offsets(calls'[c]) : \A j \in Offsets(Top) :
               j \notin Offsets(calls'[c]) => Value(i) # Value(j)
  <2>1. SUFFICES ASSUME NEW c \in Len(calls) .. Len(calls'),
                        NEW i \in Offsets(calls'[c]), NEW j \in Offsets(Top),
                        j \notin Offsets(calls'[c])
                 PROVE  Value(i) # Value(j)
    BY <1>1
  <2>2. i \in Offsets(Top)
    BY <1>1 DEF Splits
  <2>3. CASE calls'[c] = below
    BY <1>7, <2>1, <2>2, <2>3
  <2>4. CASE calls'[c] = above
    BY <1>7, <2>1, <2>2, <2>4
  <2>5. QED
    BY <1>6, <2>3, <2>4
<1>9. Separate' /\ \A v : Open(v)' => Open(v)
  BY <1>1, <1>8, SplitSeparate
<1>10. ASSUME NEW v, Open(v)'
       PROVE  v # pivot
  <2>1. PICK c \in DOMAIN calls' :
           calls'[c].kind = "midpoint" /\ \E k \in Offsets(calls'[c]) : v = Value(k)'
    BY <1>10 DEF Open, Offsets
  <2>2. PICK k \in Offsets(calls'[c]) : v = Value(k)
    BY <1>1, <2>1 DEF Splits, Value
  <2>3. CASE c \in Len(calls) .. Len(calls')
    <3>1. k \in Offsets(Top)
      BY <1>1, <2>3 DEF Splits
    <3>2. Value(k) < pivot \/ Value(k) > pivot
      BY <1>6, <1>7, <2>2, <2>3, <3>1
    <3>3. QED
      BY <1>1, <1>7, <2>2, <3>1, <3>2
  <2>4. CASE c \in DOMAIN calls /\ c # Len(calls) /\ calls'[c] = calls[c]
    <3>1. PICK q \in Offsets(Top) : Value(q) = pivot
      BY <1>1 DEF Limits
    <3>2. q \notin Offsets(calls[c])
      BY <1>1, <2>4, OnlyTop
    <3>3. q \in Places
      BY <1>1
    <3>4. Value(k) # Value(q)
      BY <2>1, <2>2, <2>4, <3>2, <3>3 DEF Separate
    <3>5. QED
      BY <2>2, <3>1, <3>4
  <2>5. QED
    BY <1>1, <2>3, <2>4, SplitStack
<1>11. QED
  BY <1>4, <1>6, <1>9, <1>10

LEMMA PartitionedPivots ==
    ASSUME MidpointInv, Limits, Separate, PivotsOut, Partitioned
    PROVE  PivotsOut'
<1>1. /\ TypeInv /\ calls # <<>> /\ pc = "partition" /\ Top.kind = "midpoint"
      /\ Len(calls) \in DOMAIN calls /\ Offsets(Top) \subseteq Places /\ values' = values
  BY TopType DEF MidpointInv, Partitioned, TypeInv
<1>2. PICK pivots \in SUBSET Range(values) :
         /\ IsFiniteSet(pivots) /\ Cardinality(pivots) = stats.midpoint_partitions
         /\ \A v \in pivots : ~ Open(v)
         /\ \E v \in Range(values) : v \notin pivots
  BY DEF PivotsOut
<1>3. \A k \in Offsets(Top) : Open(Value(k)) /\ Value(k) \in Range(values)
  <2>1. SUFFICES ASSUME NEW k \in Offsets(Top)
                 PROVE  Open(Value(k)) /\ Value(k) \in Range(values)
    OBVIOUS
  <2>2. Open(Value(k))
    BY <1>1 DEF Open, Top
  <2>3. k \in Places /\ indices[k] \in 1 .. Len(values)
    BY <1>1 DEF TypeInv, Places
  <2>4. indices[k] \in DOMAIN values
    BY <1>1, <2>3 DEF TypeInv
  <2>5. QED
    BY <2>2, <2>4 DEF Value, Range
<1>4. PICK k \in Offsets(Top) : Value(k) = pivot
  BY <1>1 DEF Limits
<1>5. PICK q \in Offsets(Top) : Value(q) # pivot
  BY <1>1 DEF Limits
<1>6. pivot \notin pivots /\ Value(q) \notin pivots
  BY <1>2, <1>3, <1>4
<1>7. PICK all : all = pivots \cup {pivot}
  OBVIOUS
<1>8. all \in SUBSET Range(values) /\ IsFiniteSet(all)
  BY <1>2, <1>3, <1>4, <1>7, FS_AddElement
<1>9. Cardinality(all) = stats'.midpoint_partitions
  <2>1. Cardinality(all) = stats.midpoint_partitions + 1
    BY <1>2, <1>6, <1>7, FS_AddElement
  <2>2. stats'.midpoint_partitions = stats.midpoint_partitions + 1
    BY DEF Partitioned, Count, Limits
  <2>3. QED
    BY <2>1, <2>2
<1>10. \A v \in all : ~ Open(v)'
  BY <1>2, <1>7, PartitionedSeparate
<1>11. Value(q) \in Range(values) /\ Value(q) \notin all
  BY <1>3, <1>5, <1>6, <1>7
<1>12. QED
  BY <1>1, <1>8, <1>9, <1>10, <1>11 DEF PivotsOut

-------------------------------------------------------------------------------
(* The work done stays within what is left less.                           *)

Counters == [{"pivot_probes", "midpoint_partitions", "swaps", "radix_fallbacks"} -> Nat]

LEMMA CountType ==
    ASSUME stats \in Counters, NEW n \in Nat,
           NEW counter \in {"pivot_probes", "midpoint_partitions", "swaps", "radix_fallbacks"},
           Count(counter, n)
    PROVE  /\ stats' \in Counters /\ stats'[counter] = stats[counter] + n
           /\ \A other \in {"pivot_probes", "midpoint_partitions", "swaps", "radix_fallbacks"} :
                 other # counter => stats'[other] = stats[other]
<1>1. stats[counter] \in Nat
  BY DEF Counters
<1>2. QED
  BY <1>1 DEF Counters, Count

LEMMA LoopLimits ==
    ASSUME TypeInv, Limits, Splits, pc' = "loop", stats' \in Counters,
           \A c \in Len(calls) .. Len(calls') :
              calls'[c].kind = "radix" => calls'[c].left <= BITS
    PROVE  Limits'
<1>1. \A c \in DOMAIN calls' : calls'[c].kind = "radix" => calls'[c].left <= BITS
  <2>1. SUFFICES ASSUME NEW c \in DOMAIN calls', calls'[c].kind = "radix"
                 PROVE  calls'[c].left <= BITS
    OBVIOUS
  <2>2. CASE c \in Len(calls) .. Len(calls')
    BY <2>1, <2>2
  <2>3. CASE c \in DOMAIN calls /\ calls'[c] = calls[c]
    BY <2>1, <2>3 DEF Limits
  <2>4. QED
    BY <2>2, <2>3, SplitStack
<1>2. QED
  BY <1>1 DEF Limits, Counters

\* Nothing is probed or swapped.
LEMMA NonePaid ==
    ASSUME TypeInv, Limits, ProbesPaid, SwapsPaid, Limits', values' = values,
           stats'.pivot_probes = stats.pivot_probes, stats'.swaps = stats.swaps,
           \A work \in Works : Left(work)' \subseteq Left(work)
    PROVE  ProbesPaid' /\ SwapsPaid'
<1>1. PICK n \in Nat : Len(values) = n
  BY DEF TypeInv
<1>2. \A work \in Works : /\ WorkLeft(work) \in Nat /\ WorkLeft(work)' \in Nat
                          /\ WorkLeft(work)' <= WorkLeft(work)
  BY <1>1, LeftShrinks
<1>3. /\ WorkLeft("probe")' + 0 <= WorkLeft("probe")
      /\ WorkLeft("place")' + 0 <= WorkLeft("place")
      /\ WorkLeft("bit")' + 0 <= WorkLeft("bit")
      /\ WorkLeft("insert")' + 0 <= WorkLeft("insert")
  BY <1>2 DEF Works
<1>4. /\ stats'.pivot_probes = stats.pivot_probes + 0 /\ stats'.swaps = stats.swaps + 0
      /\ 0 \in Nat /\ 2 * 0 <= 2 * 0 + 0 + 0
  BY DEF Limits
<1>5. QED
  BY <1>1, <1>2, <1>3, <1>4, StepPaid

\* A number of swaps is paid for.
LEMMA SwapsArePaid ==
    ASSUME TypeInv, Limits, ProbesPaid, SwapsPaid, Limits', values' = values,
           stats'.pivot_probes = stats.pivot_probes,
           \A work \in Works : Left(work)' \subseteq Left(work),
           NEW work \in {"place", "bit", "insert"}, NEW paid \in SUBSET Left(work),
           \A t \in paid : t \notin Left(work)',
           NEW swaps \in Nat, stats'.swaps = stats.swaps + swaps,
           NEW n \in Nat, Cardinality(paid) = n,
           2 * swaps <= IF work = "place" THEN 2 * n ELSE n
    PROVE  ProbesPaid' /\ SwapsPaid'
<1>1. PICK len \in Nat : Len(values) = len
  BY DEF TypeInv
<1>2. \A any \in Works : /\ WorkLeft(any) \in Nat /\ WorkLeft(any)' \in Nat
                         /\ WorkLeft(any)' <= WorkLeft(any)
  BY <1>1, LeftShrinks
<1>3. WorkLeft(work)' + n <= WorkLeft(work)
  BY <1>1, LeftPaid DEF Works
<1>4. PICK before, after : /\ before = [any \in Works |-> WorkLeft(any)]
                           /\ after = [any \in Works |-> WorkLeft(any)']
  OBVIOUS
<1>5. /\ \A any \in Works : after[any] \in Nat /\ before[any] \in Nat /\ after[any] <= before[any]
      /\ after[work] + n <= before[work]
  BY <1>2, <1>3, <1>4 DEF Works
<1>6. ASSUME NEW place \in Nat, NEW bit \in Nat, NEW insert \in Nat,
             2 * swaps <= 2 * place + bit + insert,
             after["place"] + place <= before["place"], after["bit"] + bit <= before["bit"],
             after["insert"] + insert <= before["insert"]
      PROVE  ProbesPaid' /\ SwapsPaid'
  <2>1. /\ WorkLeft("place")' + place <= WorkLeft("place")
        /\ WorkLeft("bit")' + bit <= WorkLeft("bit")
        /\ WorkLeft("insert")' + insert <= WorkLeft("insert")
    BY <1>4, <1>6 DEF Works
  <2>2. WorkLeft("probe")' + 0 <= WorkLeft("probe")
    BY <1>2 DEF Works
  <2>3. stats'.pivot_probes = stats.pivot_probes + 0 /\ 0 \in Nat
    BY DEF Limits
  <2>4. QED
    BY <1>1, <1>2, <1>6, <2>1, <2>2, <2>3, StepPaid
<1>7. /\ "place" \in Works /\ "bit" \in Works /\ "insert" \in Works
      /\ \A any \in Works : after[any] + 0 <= before[any]
  BY <1>5 DEF Works
<1>8. CASE work = "place"
  <2>1. 2 * swaps <= 2 * n + 0 + 0 /\ 0 \in Nat
    BY <1>8
  <2>2. after["place"] + n <= before["place"]
    BY <1>5, <1>8
  <2>3. QED
    BY <1>6, <1>7, <2>1, <2>2
<1>9. CASE work = "bit"
  <2>1. 2 * swaps <= 2 * 0 + n + 0 /\ 0 \in Nat
    BY <1>9
  <2>2. after["bit"] + n <= before["bit"]
    BY <1>5, <1>9
  <2>3. QED
    BY <1>6, <1>7, <2>1, <2>2
<1>10. CASE work = "insert"
  <2>1. 2 * swaps <= 2 * 0 + 0 + n /\ 0 \in Nat
    BY <1>10
  <2>2. after["insert"] + n <= before["insert"]
    BY <1>5, <1>10
  <2>3. QED
    BY <1>6, <1>7, <2>1, <2>2
<1>11. QED
  BY <1>8, <1>9, <1>10

\* A step that leaves the loop of the innermost activation, or goes on with
\* another, and counts no work.
LEMMA QuietStep ==
    ASSUME MidpointInv, WorkInv, Splits, pc' = "loop", stats' \in Counters,
           stats'.pivot_probes = stats.pivot_probes, stats'.swaps = stats.swaps,
           \A c \in Len(calls) .. Len(calls') :
              calls'[c].kind = "radix" => calls'[c].left <= BITS,
           \A work \in Works : Left(work)' \subseteq Left(work),
           Separate', PivotsOut'
    PROVE  WorkInv'
<1>1. /\ TypeInv /\ Limits /\ ProbesPaid /\ SwapsPaid /\ values' = values
  BY DEF MidpointInv, WorkInv, Splits
<1>2. Limits'
  BY <1>1, LoopLimits
<1>3. ProbesPaid' /\ SwapsPaid'
  BY <1>1, <1>2, NonePaid
<1>4. QED
  BY <1>2, <1>3 DEF WorkInv

LEMMA Distribute ==
    ASSUME NEW n \in Nat, NEW a \in Nat, NEW b \in Nat, NEW c \in Nat
    PROVE  2 * (n * a) + n * b + n * c = n * (2 * a + b + c)
BY Z3

LEMMA WorkInvStarts == Init => WorkInv
<1> SUFFICES ASSUME Init PROVE WorkInv
  OBVIOUS
<1>1. TypeInv /\ MidpointInv
  BY InitInv DEF MidpointInv
<1>2. PICK n : n = Len(values)
  OBVIOUS
<1>3. n \in Nat \ {0} /\ Places = 1 .. n /\ DOMAIN values = 1 .. n
  <2>1. PICK width \in 0 .. BITS, len \in 2 .. MaxLen : values \in [1 .. len -> BucketRange(width)]
    BY DEF Init
  <2>2. values \in Seq(U64)
    BY <1>1 DEF TypeInv
  <2>3. len \in Nat \ {0}
    BY <2>1
  <2>4. DOMAIN values = 1 .. len /\ DOMAIN values = 1 .. Len(values) /\ Len(values) \in Nat
    BY <2>1, <2>2
  <2>5. len \in DOMAIN values
    BY <2>3, <2>4
  <2>6. QED
    BY <1>2, <2>3, <2>4, <2>5 DEF Places
<1>4. PICK outermost : outermost = Call("midpoint", 1, n, MIDPOINT_PARTITION_BUDGET)
  OBVIOUS
<1>5. /\ calls = <<outermost>> /\ outermost.kind = "midpoint" /\ outermost.first = 1
      /\ Offsets(outermost) = Places
      /\ stats = [pivot_probes |-> 0, midpoint_partitions |-> 0, swaps |-> 0,
                  radix_fallbacks |-> 0]
      /\ pc = "loop"
  BY <1>2, <1>3, <1>4 DEF Init, Call, Offsets
<1>6. DOMAIN calls = {1} /\ calls[1] = outermost
  BY <1>5
<1>7. Limits /\ Separate
  BY <1>5, <1>6 DEF Limits, Separate
<1>8. PivotsOut
  <2>1. values[1] \in Range(values)
    BY <1>3 DEF Range
  <2>2. IsFiniteSet({}) /\ Cardinality({}) = 0
    BY FS_EmptySet
  <2>3. QED
    BY <1>5, <2>1, <2>2 DEF PivotsOut
<1>9. ProbesPaid
  <2>1. Left("probe") \in SUBSET ((2 .. n) \X (1 .. MIDPOINT_PARTITION_BUDGET))
    <3>1. SUFFICES ASSUME NEW t, t \in Left("probe")
                   PROVE  t \in (2 .. n) \X (1 .. MIDPOINT_PARTITION_BUDGET)
      OBVIOUS
    <3>2. Levels("probe") = 1 .. MIDPOINT_PARTITION_BUDGET
      BY LevelsAre DEF Works
    <3>3. t \in (1 .. n) \X (1 .. MIDPOINT_PARTITION_BUDGET)
      BY <1>3, <3>1, <3>2 DEF Left
    <3>4. t[1] # 1
      BY <1>5, <1>6, <3>1 DEF Left, May, MidpointMay, RadixMay
    <3>5. \A k \in 1 .. n : k # 1 => k \in 2 .. n
      BY <1>3
    <3>6. QED
      BY <3>3, <3>4, <3>5
  <2>2. PICK K, L : K = 2 .. n /\ L = 1 .. MIDPOINT_PARTITION_BUDGET
    OBVIOUS
  <2>3. IsFiniteSet(K) /\ Cardinality(K) = n - 1
    <3>1. IsFiniteSet(K) /\ Cardinality(K) = n + 1 - 2
      BY <1>3, <2>2, PlacesCount
    <3>2. QED
      BY <1>3, <3>1
  <2>4. IsFiniteSet(L) /\ Cardinality(L) = MIDPOINT_PARTITION_BUDGET
    BY <2>2, LevelsAre DEF Works
  <2>5. IsFiniteSet(K \X L) /\ Cardinality(K \X L) = (n - 1) * MIDPOINT_PARTITION_BUDGET
    BY <2>3, <2>4, FS_Product
  <2>6. WorkLeft("probe") <= (n - 1) * MIDPOINT_PARTITION_BUDGET
    BY <2>1, <2>2, <2>5, FS_Subset DEF WorkLeft
  <2>7. WorkLeft("probe") \in Nat
    BY <1>2, <1>3, LeftFinite DEF Works
  <2>8. (n - 1) * MIDPOINT_PARTITION_BUDGET = MIDPOINT_PARTITION_BUDGET * (n - 1)
    BY <1>3, SortAssumption, Z3
  <2>9. QED
    BY <1>2, <1>5, <2>6, <2>7, <2>8 DEF ProbesPaid
<1>10. SwapsPaid
  <2>1. PICK a, b, c : /\ a = MIDPOINT_PARTITION_BUDGET /\ b = BITS
                       /\ c = INSERTION_SORT_CUTOFF - 1
    OBVIOUS
  <2>2. a \in Nat /\ b \in Nat /\ c \in Nat
    BY <2>1, SortAssumption, BITSAssumption
  <2>3. /\ WorkLeft("place") \in Nat /\ WorkLeft("place") <= n * a
        /\ WorkLeft("bit") \in Nat /\ WorkLeft("bit") <= n * b
        /\ WorkLeft("insert") \in Nat /\ WorkLeft("insert") <= n * c
    BY <1>2, <1>3, <2>1, LeftFinite, LevelsAre DEF Works
  <2>4. 2 * (n * a) + n * b + n * c = n * (2 * a + b + c)
    BY <1>3, <2>2, Distribute
  <2>5. n * a \in Nat /\ n * b \in Nat /\ n * c \in Nat
    BY <1>3, <2>2
  <2>6. 2 * 0 + 2 * WorkLeft("place") + WorkLeft("bit") + WorkLeft("insert")
          <= n * (2 * a + b + c)
    BY <2>3, <2>4, <2>5
  <2>7. 2 * a + b + c
          = 2 * MIDPOINT_PARTITION_BUDGET + BITS + INSERTION_SORT_CUTOFF - 1
    BY <2>1, <2>2, SortAssumption, BITSAssumption
  <2>8. QED
    BY <1>2, <1>5, <2>6, <2>7 DEF SwapsPaid
<1>11. QED
  BY <1>7, <1>8, <1>9, <1>10 DEF WorkInv

LEMMA WorkFacts ==
    ASSUME MidpointInv, WorkInv
    PROVE  TypeInv /\ Apart /\ Limits /\ Separate /\ PivotsOut /\ stats \in Counters
BY DEF MidpointInv, WorkInv, Limits, Counters

LEMMA SplittingWorks ==
    ASSUME MidpointInv, WorkInv, FallBack \/ RadixSplit \/ AllEqual \/ Inserted \/ RadixReturn
    PROVE  WorkInv'
<1>1. /\ TypeInv /\ Limits /\ Separate /\ PivotsOut /\ stats \in Counters
  BY WorkFacts
<1>2. CASE FallBack
  <2>1. /\ Splits /\ calls # <<>> /\ Top \in Activation /\ pc = "loop"
    BY <1>2, AtLoopFinds, FallBackKeeps DEF FallBack
  <2>2. PICK call : call = Call("radix", Top.first, Top.last, BITS)
    OBVIOUS
  <2>3. GoOnAs(call) /\ pc' = "loop" /\ values' = values /\ Count("radix_fallbacks", 1)
    BY <1>2, <2>1, <2>2 DEF FallBack
  <2>4. call.kind = "radix" /\ call \in Activation /\ call.left = BITS /\ BITS <= BITS
    BY <2>1, <2>2, BITSAssumption DEF Call, Activation
  <2>5. Separate' /\ \A v : Open(v)' => Open(v)
    BY <1>1, <2>1, <2>3, <2>4, GoOnSeparate
  <2>6. /\ stats' \in Counters /\ stats'.pivot_probes = stats.pivot_probes
        /\ stats'.swaps = stats.swaps
        /\ stats'.midpoint_partitions = stats.midpoint_partitions
    BY <1>1, <2>3, CountType
  <2>7. \A c \in Len(calls) .. Len(calls') : calls'[c] = call
    <3>1. Len(calls') = Len(calls) /\ calls'[Len(calls)] = call /\ Len(calls) \in Nat
      BY <1>1, <2>1, <2>3, <2>4, GoOnShape, SplitStack
    <3>2. QED
      BY <3>1
  <2>8. PivotsOut'
    BY <1>1, <2>3, <2>5, <2>6, PivotsKept
  <2>9. \A work \in Works : Left(work)' \subseteq Left(work)
    BY <1>2, FallBackLeft
  <2>10. QED
    BY <2>1, <2>3, <2>4, <2>5, <2>6, <2>7, <2>8, <2>9, QuietStep
<1>3. CASE RadixSplit
  <2>1. /\ Splits /\ calls # <<>> /\ Top \in Activation /\ pc' = "loop" /\ stats' = stats
        /\ Top.kind = "radix" /\ Len(calls) \in DOMAIN calls /\ values' = values
        /\ Top.left > 0
    BY <1>3, RadixSplitKeeps, TopType DEF RadixSplit, MidpointInv, TypeInv
  <2>2. Separate' /\ \A v : Open(v)' => Open(v)
    BY <1>1, <1>3, RadixSplitSeparate
  <2>3. PICK zeros, ones : /\ zeros = RadixCall(Top.first, lower - 1)
                           /\ ones = RadixCall(lower, Top.last)
    OBVIOUS
  <2>4. CallThen(zeros, ones) /\ zeros.left = Top.left - 1 /\ ones.left = Top.left - 1
    BY <1>3, <2>3 DEF RadixSplit, RadixCall, Call
  <2>5. Top.left - 1 <= BITS
    <3>1. Top.left <= BITS /\ Top.left \in Nat
      BY <1>1, <2>1 DEF Limits, Activation, Top
    <3>2. QED
      BY <3>1, BITSAssumption
  <2>6. \A c \in Len(calls) .. Len(calls') : calls'[c] = zeros \/ calls'[c] = ones
    <3>1. /\ TypeInv /\ RadixLoop /\ lower \in Int /\ upper \in Int /\ lower >= upper
      BY <1>1, <1>3 DEF MidpointInv, RadixSplit, LoopInv, TypeInv
    <3>2. /\ lower - 1 \in Nat /\ lower \in Nat \ {0} /\ Top.left - 1 \in Nat
          /\ Top.first \in Nat \ {0} /\ Top.last \in Nat
      BY <2>1, <3>1 DEF RadixLoop, Activation
    <3>3. zeros \in Activation /\ ones \in Activation
      BY <2>3, <3>2 DEF RadixCall, Call, Activation
    <3>4. PICK len : len = Len(calls)
      OBVIOUS
    <3>5. /\ Len(calls') = len + 1 /\ calls'[len] = ones /\ calls'[len + 1] = zeros
          /\ len \in Nat
      BY <2>1, <2>4, <3>1, <3>3, <3>4, CallThenShape, SplitStack
    <3>6. \A c \in len .. len + 1 : c = len \/ c = len + 1
      BY <3>5
    <3>7. QED
      BY <3>4, <3>5, <3>6
  <2>7. \A c \in Len(calls) .. Len(calls') : calls'[c].left <= BITS
    BY <2>4, <2>5, <2>6
  <2>8. PivotsOut'
    BY <1>1, <2>1, <2>2, PivotsKept
  <2>9. \A work \in Works : Left(work)' \subseteq Left(work)
    BY <1>3, RadixSplitLeft
  <2>10. QED
    BY <1>1, <2>1, <2>2, <2>7, <2>8, <2>9, QuietStep
<1>4. CASE AllEqual \/ Inserted \/ RadixReturn
  <2>1. /\ Splits /\ Return /\ pc' = "loop" /\ stats' = stats /\ values' = values
    BY <1>4, AllEqualKeeps, InsertedKeeps, RadixReturnKeeps
       DEF AllEqual, Inserted, RadixReturn, AtLoop
  <2>2. Separate' /\ \A v : Open(v)' => Open(v)
    BY <1>1, <2>1, ReturnSeparate
  <2>3. PivotsOut'
    BY <1>1, <2>1, <2>2, PivotsKept
  <2>4. \A work \in Works : Left(work)' \subseteq Left(work)
    BY <1>1, <2>1, ReturnLeft
  <2>5. Len(calls) .. Len(calls') = {}
    <3>1. Len(calls') = Len(calls) - 1 /\ Len(calls) \in Nat
      BY <1>1, <2>1, ReturnShape, SplitStack DEF Splits
    <3>2. QED
      BY <3>1
  <2>6. QED
    BY <1>1, <2>1, <2>2, <2>3, <2>4, <2>5, QuietStep
<1>5. QED
  BY <1>2, <1>3, <1>4

LEMMA PartitionedWorks ==
    ASSUME MidpointInv, WorkInv, Partitioned
    PROVE  WorkInv'
<1>1. /\ TypeInv /\ Limits /\ Separate /\ PivotsOut /\ stats \in Counters
  BY WorkFacts
<1>2. Splits /\ pc' = "loop" /\ Count("midpoint_partitions", 1)
  BY PartitionedKeeps DEF Partitioned
<1>3. /\ stats' \in Counters /\ stats'.pivot_probes = stats.pivot_probes
      /\ stats'.swaps = stats.swaps
  BY <1>1, <1>2, CountType
<1>4. /\ Separate' /\ PivotsOut'
      /\ \A c \in Len(calls) .. Len(calls') :
            calls'[c].kind = "radix" => calls'[c].left <= BITS
  BY <1>1, PartitionedSeparate, PartitionedPivots
<1>5. \A work \in Works : Left(work)' \subseteq Left(work)
  BY PartitionedLeft
<1>6. QED
  BY <1>2, <1>3, <1>4, <1>5, QuietStep

\* A loop begins in the region of the innermost activation.
LEMMA BeginLoopWorks ==
    ASSUME MidpointInv, WorkInv, BeginInsertion \/ BeginRadix
    PROVE  WorkInv'
<1>1. /\ TypeInv /\ Limits /\ Separate /\ PivotsOut /\ ProbesPaid /\ SwapsPaid
  BY WorkFacts DEF WorkInv
<1>2. /\ UNCHANGED <<values, indices, calls, pivot, stats>>
      /\ pc' = "insertion" \/ pc' = "radix"
      /\ pc' = "insertion" => Size(Top) <= INSERTION_SORT_CUTOFF
  BY DEF BeginInsertion, BeginRadix
<1>3. Limits'
  <2>1. Size(Top)' = Size(Top)
    BY <1>2 DEF Size, Top
  <2>2. QED
    BY <1>1, <1>2, <2>1 DEF Limits
<1>4. Separate' /\ PivotsOut'
  BY <1>1, <1>2 DEF Separate, PivotsOut, Open, Offsets, Places, Value
<1>5. \A work \in Works : Left(work)' \subseteq Left(work)
  BY BeginInsertionLeft, BeginRadixLeft
<1>6. ProbesPaid' /\ SwapsPaid'
  BY <1>1, <1>2, <1>3, <1>5, NonePaid
<1>7. QED
  BY <1>3, <1>4, <1>6 DEF WorkInv

\* The pivot is one of at least two values of the region, all but one of which
\* are compared with the middle.
LEMMA BeginPartitionWorks ==
    ASSUME MidpointInv, WorkInv, BeginPartition
    PROVE  WorkInv'
<1>1. /\ TypeInv /\ Limits /\ Separate /\ PivotsOut /\ ProbesPaid /\ SwapsPaid
      /\ stats \in Counters
  BY WorkFacts DEF WorkInv
<1>2. /\ Splits /\ calls # <<>> /\ Top.kind = "midpoint" /\ Top \in Activation /\ Placed(Top)
      /\ Halved(Top, FALSE, pivot) /\ Len(calls) \in DOMAIN calls
  BY AtLoopFinds, BeginPartitionKeeps, TopType DEF BeginPartition
<1>3. PICK top, call : top = Top /\ call = [top EXCEPT !.left = @ - 1]
  OBVIOUS
<1>4. /\ GoOnAs(call) /\ values' = values /\ indices' = indices /\ pc' = "partition"
      /\ pivot' = Pivot(ValuesOf(top)) /\ Min(ValuesOf(top)) # Max(ValuesOf(top))
      /\ top.left > 0 /\ Size(top) > INSERTION_SORT_CUTOFF
      /\ Count("pivot_probes", Size(top) - 1)
  BY <1>3 DEF BeginPartition
<1>5. /\ top.first \in Nat \ {0} /\ top.last \in Nat /\ top.left \in Nat \ {0}
      /\ top.kind = "midpoint" /\ top.first <= top.last
      /\ top.left <= MIDPOINT_PARTITION_BUDGET
  BY <1>2, <1>3, <1>4, SortAssumption DEF Activation, Size, Halved
<1>6. /\ call.kind = "midpoint" /\ call.left = top.left - 1 /\ call \in Activation
      /\ Offsets(call) = Offsets(top)
  BY <1>2, <1>3, <1>5 DEF Activation, Offsets
<1>7. /\ Len(calls') = Len(calls) /\ calls'[Len(calls)] = call /\ Top' = call
      /\ Len(calls) \in Nat
  BY <1>1, <1>2, <1>4, <1>6, GoOnShape, SplitStack DEF Top
<1>8. Offsets(top) # {}
  <2>1. top.first \in Offsets(top)
    BY <1>5 DEF Offsets
  <2>2. QED
    BY <2>1
<1>9. \E k \in Offsets(top) : Value(k) = pivot'
  <2>1. PICK S, n : S = ValuesOf(top) /\ n = PowerOfTwo(BITS) - 1
    OBVIOUS
  <2>2. S \in SUBSET (0 .. n) /\ S # {} /\ \A v \in S : \E k \in Offsets(top) : v = Value(k)
    BY <1>1, <1>2, <1>3, <1>8, <2>1, RegionValues
  <2>3. n \in Nat
    <3>1. n \in Int /\ \E x \in S : x \in 0 .. n
      BY <2>1, <2>2, PowerType, BITSAssumption
    <3>2. QED
      BY <3>1
  <2>4. Pivot(S) \in S
    BY <2>2, <2>3, PivotHalvesRange
  <2>5. QED
    BY <1>4, <2>1, <2>2, <2>4
<1>10. \E k \in Offsets(top) : Value(k) # pivot'
  <2>1. PICK a \in Offsets(top), b \in Offsets(top) :
           Min(ValuesOf(top)) = Value(a) /\ Max(ValuesOf(top)) = Value(b)
    BY <1>1, <1>2, <1>3, <1>8, RegionBounds
  <2>2. Value(a) # Value(b)
    BY <1>4, <2>1
  <2>3. QED
    BY <2>2
<1>11. Size(Top) - 1 \in Nat
  BY <1>3, <1>5 DEF Size
<1>12. /\ stats' \in Counters /\ stats'.pivot_probes = stats.pivot_probes + (Size(Top) - 1)
       /\ stats'.swaps = stats.swaps /\ stats.swaps \in Nat
       /\ stats'.midpoint_partitions = stats.midpoint_partitions
  <2>1. Count("pivot_probes", Size(Top) - 1)
    BY <1>3, <1>4
  <2>2. stats.swaps \in Nat
    BY <1>1 DEF Counters
  <2>3. QED
    BY <1>1, <1>11, <2>1, <2>2, CountType
<1>13. Limits'
  <2>1. \A c \in DOMAIN calls' : calls'[c].kind = "radix" => calls'[c].left <= BITS
    <3>1. SUFFICES ASSUME NEW c \in DOMAIN calls', calls'[c].kind = "radix"
                   PROVE  calls'[c].left <= BITS
      OBVIOUS
    <3>2. CASE c \in Len(calls) .. Len(calls')
      <4>1. c = Len(calls)
        BY <1>7, <3>2
      <4>2. QED
        BY <1>6, <1>7, <3>1, <4>1
    <3>3. CASE c \in DOMAIN calls /\ calls'[c] = calls[c]
      BY <1>1, <3>1, <3>3 DEF Limits
    <3>4. QED
      BY <1>1, <1>2, <3>2, <3>3, SplitStack
  <2>2. Top'.left < MIDPOINT_PARTITION_BUDGET
    BY <1>5, <1>6, <1>7, SortAssumption
  <2>3. \A k : Value(k)' = Value(k)
    BY <1>4 DEF Value
  <2>4. Offsets(Top)' = Offsets(top)
    BY <1>6, <1>7 DEF Offsets
  <2>5. /\ \E k \in Offsets(Top)' : Value(k)' = pivot'
        /\ \E k \in Offsets(Top)' : Value(k)' # pivot'
    BY <1>9, <1>10, <2>3, <2>4
  <2>6. QED
    BY <1>4, <1>12, <2>1, <2>2, <2>5 DEF Limits, Counters
<1>14. Separate' /\ \A v : Open(v)' => Open(v)
  BY <1>1, <1>2, <1>3, <1>4, <1>6, GoOnSeparate
<1>15. PivotsOut'
  BY <1>1, <1>4, <1>12, <1>14, PivotsKept
<1>16. PICK n \in Nat : Len(values) = n
  BY <1>1 DEF TypeInv
<1>17. \A work \in Works : /\ WorkLeft(work) \in Nat /\ WorkLeft(work)' \in Nat
                           /\ WorkLeft(work)' <= WorkLeft(work)
  BY <1>4, <1>16, BeginPartitionLeft, LeftShrinks
<1>18. WorkLeft("probe")' + (Size(Top) - 1) <= WorkLeft("probe")
  <2>1. PICK paid \in SUBSET Left("probe") :
           /\ Cardinality(paid) = Size(Top) - 1
           /\ \A t \in paid : t \notin Left("probe")'
    BY BeginPartitionLeft
  <2>2. "probe" \in Works /\ Left("probe")' \subseteq Left("probe")
    BY BeginPartitionLeft DEF Works
  <2>3. WorkLeft("probe")' + Cardinality(paid) <= WorkLeft("probe")
    BY <1>4, <1>16, <2>1, <2>2, LeftPaid
  <2>4. QED
    BY <2>1, <2>3
<1>19. ProbesPaid' /\ SwapsPaid'
  <2>1. /\ WorkLeft("place")' + 0 <= WorkLeft("place")
        /\ WorkLeft("bit")' + 0 <= WorkLeft("bit")
        /\ WorkLeft("insert")' + 0 <= WorkLeft("insert")
    BY <1>17 DEF Works
  <2>2. /\ stats'.swaps = stats.swaps + 0 /\ 0 \in Nat /\ 2 * 0 <= 2 * 0 + 0 + 0
    BY <1>12
  <2>3. \A work \in Works : WorkLeft(work) \in Nat /\ WorkLeft(work)' \in Nat
    BY <1>17
  <2>4. QED
    BY <1>1, <1>4, <1>11, <1>12, <1>13, <1>16, <1>18, <2>1, <2>2, <2>3, StepPaid
<1>20. QED
  BY <1>13, <1>14, <1>15, <1>19 DEF WorkInv

\* A swap takes no value out of the region that is partitioned.
LEMMA PartitionValues ==
    ASSUME MidpointInv, PartitionNext, NEW q \in Offsets(Top)
    PROVE  \E k \in Offsets(Top) : Value(k)' = Value(q)
<1>1. /\ TypeInv /\ calls # <<>> /\ scan < upper /\ PartitionLoop /\ values' = values
      /\ lower \in Int /\ scan \in Int /\ upper \in Int
  BY DEF MidpointInv, PartitionNext, LoopInv, TypeInv
<1>2. Offsets(Top) \subseteq Places /\ Top.first \in Int /\ Top.last \in Int
  BY <1>1, TopType DEF Activation
<1>3. lower \in Offsets(Top) /\ scan \in Offsets(Top) /\ upper - 1 \in Offsets(Top)
  BY <1>1, <1>2 DEF PartitionLoop, Offsets
<1>4. ASSUME NEW x \in Offsets(Top), NEW y \in Offsets(Top), indices' = Swapped(indices, x, y)
      PROVE  \E k \in Offsets(Top) : Value(k)' = Value(q)
  <2>1. x \in Places /\ y \in Places /\ q \in Places
    BY <1>2, <1>4
  <2>2. /\ Value(x)' = Value(y) /\ Value(y)' = Value(x)
        /\ \A k \in Places : k # x /\ k # y => Value(k)' = Value(k)
    BY <1>1, <1>4, <2>1, SwappedValues
  <2>3. QED
    BY <1>4, <2>1, <2>2
<1>5. CASE PlaceLess
  BY <1>3, <1>4, <1>5 DEF PlaceLess
<1>6. CASE PlaceEqual
  <2>1. Value(q)' = Value(q)
    BY <1>1, <1>6 DEF PlaceEqual, Value
  <2>2. QED
    BY <2>1
<1>7. CASE PlaceGreater
  BY <1>3, <1>4, <1>7 DEF PlaceGreater
<1>8. QED
  BY <1>5, <1>6, <1>7 DEF PartitionNext

LEMMA CountedSwaps ==
    ASSUME stats \in Counters, stats' = stats \/ \E n : Count("swaps", n), stats'.swaps \in Nat
    PROVE  /\ stats' \in Counters /\ stats'.pivot_probes = stats.pivot_probes
           /\ stats'.midpoint_partitions = stats.midpoint_partitions
BY DEF Counters, Count

\* The loops.
LEMMA RearrangingWorks ==
    ASSUME MidpointInv, WorkInv, Rearranges, stats' = stats \/ \E n : Count("swaps", n),
           pc = "partition" =>
              \A q \in Offsets(Top) : \E k \in Offsets(Top) : Value(k)' = Value(q),
           \A work \in Works : Left(work)' \subseteq Left(work),
           NEW work \in {"place", "bit", "insert"}, NEW paid \in SUBSET Left(work),
           \A t \in paid : t \notin Left(work)',
           NEW swaps \in Nat, stats'.swaps = stats.swaps + swaps,
           NEW n \in Nat, Cardinality(paid) = n,
           2 * swaps <= IF work = "place" THEN 2 * n ELSE n
    PROVE  WorkInv'
<1>1. /\ TypeInv /\ Apart /\ Limits /\ Separate /\ PivotsOut /\ ProbesPaid /\ SwapsPaid
      /\ stats \in Counters
  BY WorkFacts DEF WorkInv
<1>2. /\ stats' \in Counters /\ stats'.pivot_probes = stats.pivot_probes
      /\ stats'.midpoint_partitions = stats.midpoint_partitions
  <2>1. stats'.swaps \in Nat
    BY <1>1 DEF Counters
  <2>2. QED
    BY <1>1, <2>1, CountedSwaps
<1>3. UNCHANGED <<values, calls, pc, pivot>>
  BY DEF Rearranges
<1>4. /\ Top' = Top /\ Size(Top)' = Size(Top) /\ Offsets(Top)' = Offsets(Top)
  BY <1>3 DEF Top, Size, Offsets
<1>5. ASSUME pc = "partition"
      PROVE  /\ \E k \in Offsets(Top) : Value(k)' = pivot
             /\ \E k \in Offsets(Top) : Value(k)' # pivot
  <2>1. PICK p \in Offsets(Top), q \in Offsets(Top) : Value(p) = pivot /\ Value(q) # pivot
    BY <1>1, <1>5 DEF Limits
  <2>2. /\ \E k \in Offsets(Top) : Value(k)' = Value(p)
        /\ \E k \in Offsets(Top) : Value(k)' = Value(q)
    BY <1>5
  <2>3. QED
    BY <2>1, <2>2
<1>6. Limits'
  BY <1>1, <1>2, <1>3, <1>4, <1>5 DEF Limits, Counters
<1>7. Separate' /\ \A v : Open(v)' => Open(v)
  BY <1>1, RearrangedSeparate
<1>8. PivotsOut'
  BY <1>1, <1>2, <1>3, <1>7, PivotsKept
<1>9. ProbesPaid' /\ SwapsPaid'
  BY <1>1, <1>2, <1>3, <1>6, SwapsArePaid
<1>10. QED
  BY <1>6, <1>7, <1>8, <1>9 DEF WorkInv

LEMMA PartitionWorks ==
    ASSUME MidpointInv, WorkInv, PartitionNext
    PROVE  WorkInv'
<1>1. Limits /\ stats \in Counters /\ pc = "partition" /\ stats.swaps \in Nat
  BY WorkFacts DEF PartitionNext, Counters
<1>2. Rearranges
  BY PartitionKeeps
<1>3. stats' = stats \/ \E n : Count("swaps", n)
  BY DEF PartitionNext, PlaceLess, PlaceEqual, PlaceGreater
<1>4. \A q \in Offsets(Top) : \E k \in Offsets(Top) : Value(k)' = Value(q)
  BY PartitionValues
<1>5. PICK paid \in SUBSET Left("place"), n \in {0, 1} :
         /\ Cardinality(paid) = n /\ stats'.swaps \in {stats.swaps, stats.swaps + n}
         /\ \A t \in paid : t \notin Left("place")'
  BY <1>1, PartitionLeft
<1>6. PICK swaps \in {0, n} : stats'.swaps = stats.swaps + swaps
  BY <1>1, <1>5
<1>7. /\ swaps \in Nat /\ n \in Nat /\ 2 * swaps <= 2 * n
  BY <1>5, <1>6
<1>8. \A work \in Works : Left(work)' \subseteq Left(work)
  BY <1>1, PartitionLeft
<1>9. PICK work \in {"place", "bit", "insert"} : work = "place"
  OBVIOUS
<1>10. /\ paid \in SUBSET Left(work) /\ \A t \in paid : t \notin Left(work)'
       /\ 2 * swaps <= IF work = "place" THEN 2 * n ELSE n
  BY <1>5, <1>7, <1>9
<1>11. QED
  BY <1>2, <1>3, <1>4, <1>5, <1>6, <1>7, <1>8, <1>10, RearrangingWorks

LEMMA RadixWorks ==
    ASSUME MidpointInv, WorkInv, RadixNext
    PROVE  WorkInv'
<1>1. Limits /\ pc # "partition"
  BY WorkFacts DEF RadixNext
<1>2. Rearranges
  BY RadixKeeps
<1>3. stats' = stats \/ \E n : Count("swaps", n)
  BY DEF RadixNext
<1>4. PICK paid \in SUBSET Left("bit"), swaps \in {0, 1} :
         /\ Cardinality(paid) = 2 * swaps /\ stats'.swaps = stats.swaps + swaps
         /\ \A t \in paid : t \notin Left("bit")'
  BY <1>1, RadixLeft
<1>5. PICK n : n = 2 * swaps
  OBVIOUS
<1>6. swaps \in Nat /\ n \in Nat /\ Cardinality(paid) = n /\ 2 * swaps <= n
  BY <1>4, <1>5
<1>7. \A work \in Works : Left(work)' \subseteq Left(work)
  BY <1>1, RadixLeft
<1>8. PICK work \in {"place", "bit", "insert"} : work = "bit"
  OBVIOUS
<1>9. /\ paid \in SUBSET Left(work) /\ \A t \in paid : t \notin Left(work)'
      /\ 2 * swaps <= IF work = "place" THEN 2 * n ELSE n
  BY <1>4, <1>6, <1>8
<1>10. QED
  BY <1>1, <1>2, <1>3, <1>4, <1>6, <1>7, <1>9, RearrangingWorks

LEMMA InsertionWorks ==
    ASSUME MidpointInv, WorkInv, InsertNext
    PROVE  WorkInv'
<1>1. Limits /\ stats \in Counters /\ stats.swaps \in Nat /\ pc # "partition"
  BY WorkFacts DEF InsertNext, Counters
<1>2. Rearranges
  BY InsertionKeeps
<1>3. PICK paid \in SUBSET Left("insert"), swaps \in Nat, j \in Nat :
         /\ Cardinality(paid) = 2 * j /\ swaps <= j /\ stats'.swaps = stats.swaps + swaps
         /\ \A t \in paid : t \notin Left("insert")'
  BY <1>1, InsertionLeft
<1>4. \E n : Count("swaps", n)
  BY DEF InsertNext
<1>5. PICK n : n = 2 * j
  OBVIOUS
<1>6. n \in Nat /\ Cardinality(paid) = n /\ 2 * swaps <= n
  BY <1>3, <1>5
<1>7. \A work \in Works : Left(work)' \subseteq Left(work)
  BY <1>1, InsertionLeft
<1>8. PICK work \in {"place", "bit", "insert"} : work = "insert"
  OBVIOUS
<1>9. /\ paid \in SUBSET Left(work) /\ \A t \in paid : t \notin Left(work)'
      /\ 2 * swaps <= IF work = "place" THEN 2 * n ELSE n
  BY <1>3, <1>6, <1>8
<1>10. QED
  BY <1>1, <1>2, <1>3, <1>4, <1>6, <1>7, <1>9, RearrangingWorks

LEMMA WorkInvKept ==
    ASSUME MidpointInv, WorkInv, [Next]_vars
    PROVE  WorkInv'
<1>1. CASE Next
  BY <1>1, BeginLoopWorks, SplittingWorks, BeginPartitionWorks, PartitionWorks,
     PartitionedWorks, InsertionWorks, RadixWorks DEF Next
<1>2. CASE UNCHANGED vars
  <2>1. UNCHANGED vars
    BY <1>2
  <2>2. \A work : Left(work)' = Left(work)
    BY <2>1 DEF vars, Left, May, MidpointMay, RadixMay, At, Offsets, Places, Levels
  <2>3. \A work : WorkLeft(work)' = WorkLeft(work)
    BY <2>2 DEF WorkLeft
  <2>4. ProbesPaid' /\ SwapsPaid'
    BY <2>1, <2>3 DEF WorkInv, vars, ProbesPaid, SwapsPaid
  <2>5. Limits' /\ Separate' /\ PivotsOut'
    BY <2>1 DEF WorkInv, vars, Limits, Separate, PivotsOut, Open, Offsets, Places, Value,
       Size, Top
  <2>6. QED
    BY <2>4, <2>5 DEF WorkInv
<1>3. QED
  BY <1>1, <1>2

\* Whatever the values, the cutoff and the budget: no value is the pivot twice,
\* the values compared with the middle are the rest of each region for each
\* partition in its budget, and the pointers are swapped no more often than the
\* partitions, the bits and the short regions allow.
THEOREM WorkLimited == Spec => []WorkBounded
<1>1. ASSUME MidpointInv, WorkInv
      PROVE  WorkBounded
  <2>1. /\ TypeInv /\ Limits /\ PivotsOut /\ ProbesPaid /\ SwapsPaid
    BY <1>1, WorkFacts DEF WorkInv
  <2>2. PICK n \in Nat : Len(values) = n
    BY <2>1 DEF TypeInv
  <2>3. stats.midpoint_partitions < Cardinality(Range(values))
    <3>1. IsFiniteSet(Range(values))
      <4>1. PICK most : most = PowerOfTwo(BITS) - 1
        OBVIOUS
      <4>2. \A v \in Range(values) : v \in 0 .. most
        BY <2>1, <4>1 DEF TypeInv, Range, U64
      <4>3. most \in Int /\ 0 <= most + 1
        BY <4>1, PowerType, BITSAssumption
      <4>4. PICK S : S = 0 .. most
        OBVIOUS
      <4>5. IsFiniteSet(S)
        BY <4>3, <4>4, PlacesCount
      <4>6. Range(values) \in SUBSET S
        BY <4>2, <4>4
      <4>7. QED
        BY <4>5, <4>6, FS_Subset
    <3>2. PICK pivots \in SUBSET Range(values) :
             /\ IsFiniteSet(pivots) /\ Cardinality(pivots) = stats.midpoint_partitions
             /\ \E v \in Range(values) : v \notin pivots
      BY <2>1 DEF PivotsOut
    <3>3. /\ Cardinality(pivots) <= Cardinality(Range(values))
          /\ Cardinality(pivots) # Cardinality(Range(values))
      BY <3>1, <3>2, FS_Subset
    <3>4. Cardinality(pivots) \in Nat /\ Cardinality(Range(values)) \in Nat
      BY <3>1, <3>2, FS_CardinalityType
    <3>5. QED
      BY <3>2, <3>3, <3>4
  <2>4. \A work \in Works : WorkLeft(work) \in Nat
    BY <2>2, LeftFinite
  <2>5. stats.pivot_probes <= MIDPOINT_PARTITION_BUDGET * (n - 1)
    <3>1. PICK most : most = MIDPOINT_PARTITION_BUDGET * (n - 1)
      OBVIOUS
    <3>2. most \in Int
      BY <2>2, <3>1, SortAssumption
    <3>3. /\ stats.pivot_probes \in Nat /\ WorkLeft("probe") \in Nat
          /\ stats.pivot_probes + WorkLeft("probe") <= most
      BY <2>1, <2>2, <2>4, <3>1 DEF Limits, ProbesPaid, Works
    <3>4. QED
      BY <3>1, <3>2, <3>3
  <2>6. 2 * stats.swaps <= n * (2 * MIDPOINT_PARTITION_BUDGET + BITS
                                  + INSERTION_SORT_CUTOFF - 1)
    <3>1. PICK most : most = n * (2 * MIDPOINT_PARTITION_BUDGET + BITS
                                    + INSERTION_SORT_CUTOFF - 1)
      OBVIOUS
    <3>2. most \in Int
      BY <2>2, <3>1, SortAssumption, BITSAssumption
    <3>3. /\ stats.swaps \in Nat /\ WorkLeft("place") \in Nat /\ WorkLeft("bit") \in Nat
          /\ WorkLeft("insert") \in Nat
          /\ 2 * stats.swaps + 2 * WorkLeft("place") + WorkLeft("bit") + WorkLeft("insert")
               <= most
      BY <2>1, <2>2, <2>4, <3>1 DEF Limits, SwapsPaid, Works
    <3>4. QED
      BY <3>1, <3>2, <3>3
  <2>7. QED
    BY <2>2, <2>3, <2>5, <2>6 DEF WorkBounded
<1>2. Init => MidpointInv /\ WorkInv
  BY InitInv, WorkInvStarts
<1>3. MidpointInv /\ WorkInv /\ [Next]_vars => (MidpointInv /\ WorkInv)'
  BY MidpointInvKept, WorkInvKept
<1>4. MidpointInv /\ WorkInv => WorkBounded
  BY <1>1
<1>5. QED
  BY <1>2, <1>3, <1>4, PTL DEF Spec
===============================================================================
