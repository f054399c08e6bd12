----------------------------- MODULE MidpointSort -----------------------------
(***************************************************************************)
(* How Sarkar Sort orders the IDs of one bucket: midpoint_sort, a          *)
(* three-way quicksort whose pivot is the value closest to the middle of   *)
(* the value range, finished by insertion_sort on short regions and by     *)
(* msd_radix_sort when its budget of partitions is used up.                *)
(*                                                                         *)
(* The activations of the recursive functions are a stack of regions of    *)
(* the bucket; each loop iteration is a step.  Offsets start at 1.         *)
(***************************************************************************)
EXTENDS BitRouting, Sequences, Functions, FiniteSetsExt

CONSTANTS MaxLen,              \* bound on the length of a bucket
          INSERTION_SORT_CUTOFF,
          MIDPOINT_PARTITION_BUDGET

ASSUME SortAssumption ==
    /\ MaxLen \in Nat
    /\ INSERTION_SORT_CUTOFF \in Nat \ {0}
    /\ MIDPOINT_PARTITION_BUDGET \in Nat

VARIABLES values,  \* the value of each storage ID
          indices, \* the bucket being sorted, a slice of IDs
          calls,   \* the activations of midpoint_sort and msd_radix_sort
          pc,      \* the loop the innermost activation is in
          pivot, lower, scan, upper, \* the local variables of its partition
          stats    \* SarkarSortStats: the work done, which the code never reads

vars == <<values, indices, calls, pc, pivot, lower, scan, upper, stats>>
locals == <<pivot, lower, scan, upper>>

\* An activation: its region, and the partitions it may still make (midpoint)
\* or the bits it has still to look at (radix).
Call(kind, first, last, left) ==
    [kind |-> kind, first |-> first, last |-> last, left |-> left]

Size(call) == call.last + 1 - call.first

Top == calls[Len(calls)]

Value(offset) == values[indices[offset]]

ValuesOf(call) == {Value(k) : k \in call.first .. call.last}

\* n more of what a counter of the statistics counts.
Count(counter, n) == stats' = [stats EXCEPT ![counter] = @ + n]

Swapped(seq, i, j) == [seq EXCEPT ![i] = seq[j], ![j] = seq[i]]

\* A bucket of more than one ID; its values have the same width.
Init ==
    /\ \E width \in 0 .. BITS : \E n \in 2 .. MaxLen :
          values \in [1 .. n -> BucketRange(width)]
    /\ indices = [k \in 1 .. Len(values) |-> k]
    /\ calls = <<Call("midpoint", 1, Len(values), MIDPOINT_PARTITION_BUDGET)>>
    /\ pc = "loop"
    /\ pivot = 0 /\ lower = 1 /\ scan = 1 /\ upper = 1
    /\ stats = [pivot_probes |-> 0, midpoint_partitions |-> 0, swaps |-> 0,
                radix_fallbacks |-> 0]

\* The innermost activation returns, goes on as another one, or goes on as the
\* one after it has called the other.
Return == calls' = SubSeq(calls, 1, Len(calls) - 1)
GoOnAs(call) == calls' = [calls EXCEPT ![Len(calls)] = call]
CallThen(callee, rest) == calls' = Append([calls EXCEPT ![Len(calls)] = rest], callee)

AtLoop(kind) == pc = "loop" /\ calls # <<>> /\ Top.kind = kind

-------------------------------------------------------------------------------
(* The pivot.                                                              *)

\* Mutant: the sum of the bounds, which overflows the word, halved.
MidpointOverflowing(minimum, maximum) ==
    ((minimum + maximum) % PowerOfTwo(BITS)) \div 2

Midpoint(minimum, maximum) == minimum + (maximum - minimum) \div 2

AbsDiff(a, b) == IF a < b THEN b - a ELSE a - b

\* Ties choose the lower value.
Closest(S, midpoint) ==
    CHOOSE v \in S : \A u \in S :
        \/ AbsDiff(v, midpoint) < AbsDiff(u, midpoint)
        \/ AbsDiff(v, midpoint) = AbsDiff(u, midpoint) /\ v <= u

Pivot(S) == Closest(S, Midpoint(Min(S), Max(S)))

-------------------------------------------------------------------------------
(* midpoint_sort.                                                          *)

\* Short enough: on to the insertion sort.
BeginInsertion ==
    /\ AtLoop("midpoint") /\ Size(Top) <= INSERTION_SORT_CUTOFF
    /\ pc' = "insertion"
    /\ scan' = Top.first + 1
    /\ UNCHANGED <<values, indices, calls, pivot, lower, upper, stats>>

\* The budget is used up: the radix sort takes over, from the highest bit.
FallBack ==
    /\ AtLoop("midpoint") /\ Size(Top) > INSERTION_SORT_CUTOFF
    /\ Top.left = 0
    /\ GoOnAs(Call("radix", Top.first, Top.last, BITS))
    /\ Count("radix_fallbacks", 1)
    /\ UNCHANGED <<values, indices, pc, locals>>

AllEqual ==
    /\ AtLoop("midpoint") /\ Size(Top) > INSERTION_SORT_CUTOFF
    /\ Top.left > 0
    /\ Min(ValuesOf(Top)) = Max(ValuesOf(Top))
    /\ Return
    /\ UNCHANGED <<values, indices, pc, locals, stats>>

BeginPartition ==
    /\ AtLoop("midpoint") /\ Size(Top) > INSERTION_SORT_CUTOFF
    /\ Top.left > 0
    /\ Min(ValuesOf(Top)) # Max(ValuesOf(Top))
    /\ GoOnAs([Top EXCEPT !.left = @ - 1])
    /\ pivot' = Pivot(ValuesOf(Top))
    /\ lower' = Top.first /\ scan' = Top.first /\ upper' = Top.last + 1
    /\ pc' = "partition"
    /\ Count("pivot_probes", Size(Top) - 1)
    /\ UNCHANGED <<values, indices>>

PlaceLess ==
    /\ Value(scan) < pivot
    /\ indices' = Swapped(indices, lower, scan)
    /\ Count("swaps", IF lower # scan THEN 1 ELSE 0)
    /\ lower' = lower + 1 /\ scan' = scan + 1 /\ UNCHANGED upper

PlaceEqual ==
    /\ Value(scan) = pivot
    /\ scan' = scan + 1 /\ UNCHANGED <<indices, lower, upper, stats>>

\* Mutant: the element swapped in from the upper end is not looked at.
PlaceGreaterSkipping ==
    /\ Value(scan) > pivot
    /\ indices' = Swapped(indices, scan, upper - 1)
    /\ Count("swaps", IF scan # upper - 1 THEN 1 ELSE 0)
    /\ upper' = upper - 1 /\ scan' = scan + 1 /\ UNCHANGED lower

\* What came from the upper end is looked at next.
PlaceGreater ==
    /\ Value(scan) > pivot
    /\ indices' = Swapped(indices, scan, upper - 1)
    /\ Count("swaps", IF scan # upper - 1 THEN 1 ELSE 0)
    /\ upper' = upper - 1 /\ UNCHANGED <<lower, scan>>

\* One iteration of partition_three_way.
PartitionNext ==
    /\ pc = "partition" /\ scan < upper
    /\ PlaceLess \/ PlaceEqual \/ PlaceGreater
    /\ UNCHANGED <<values, calls, pc, pivot>>

\* Mutant: the larger side first.
SidesLargerFirst(below, above) ==
    IF Size(below) >= Size(above) THEN CallThen(below, above) ELSE CallThen(above, below)

\* Calls itself for the smaller side, goes on with the larger one.
Sides(below, above) ==
    IF Size(below) < Size(above) THEN CallThen(below, above) ELSE CallThen(above, below)

\* Mutant: the values equal to the pivot stay with the greater ones.
PartitionedTwoWay ==
    /\ pc = "partition" /\ scan >= upper
    /\ Sides(Call("midpoint", Top.first, lower - 1, Top.left),
             Call("midpoint", lower, Top.last, Top.left))
    /\ pc' = "loop"
    /\ Count("midpoint_partitions", 1)
    /\ UNCHANGED <<values, indices, locals>>

\* The values equal to the pivot are in place.
Partitioned ==
    /\ pc = "partition" /\ scan >= upper
    /\ Sides(Call("midpoint", Top.first, lower - 1, Top.left),
             Call("midpoint", upper, Top.last, Top.left))
    /\ pc' = "loop"
    /\ Count("midpoint_partitions", 1)
    /\ UNCHANGED <<values, indices, locals>>

-------------------------------------------------------------------------------
(* insertion_sort.                                                         *)

\* The element at `scan` moves down behind the last one not greater than it,
\* one swap for each place.
InsertNext ==
    /\ pc = "insertion" /\ scan <= Top.last
    /\ LET position == Top.first + Cardinality({k \in Top.first .. scan - 1 :
                                                   Value(k) <= Value(scan)})
       IN  /\ indices' = [k \in DOMAIN indices |->
                            CASE k = position -> indices[scan]
                              [] k \in position + 1 .. scan -> indices[k - 1]
                              [] OTHER -> indices[k]]
           /\ Count("swaps", scan - position)
    /\ scan' = scan + 1
    /\ UNCHANGED <<values, calls, pc, pivot, lower, upper>>

Inserted ==
    /\ pc = "insertion" /\ scan > Top.last
    /\ Return
    /\ pc' = "loop"
    /\ UNCHANGED <<values, indices, locals, stats>>

-------------------------------------------------------------------------------
(* msd_radix_sort.                                                         *)

\* The bit the activation looks at, in the value at an offset.
BitAt(offset) == (Value(offset) \div PowerOfTwo(Top.left - 1)) % 2

RadixReturn ==
    /\ AtLoop("radix") /\ (Size(Top) < 2 \/ Top.left = 0)
    /\ Return
    /\ UNCHANGED <<values, indices, pc, locals, stats>>

BeginRadix ==
    /\ AtLoop("radix") /\ Size(Top) >= 2 /\ Top.left > 0
    /\ lower' = Top.first /\ upper' = Top.last + 1
    /\ pc' = "radix"
    /\ UNCHANGED <<values, indices, calls, pivot, scan, stats>>

\* One iteration of an inner while loop, or the swap that follows them.
RadixNext ==
    /\ pc = "radix" /\ lower < upper
    /\ \/ /\ BitAt(lower) = 0
          /\ lower' = lower + 1 /\ UNCHANGED <<indices, upper, stats>>
       \/ /\ BitAt(lower) # 0 /\ BitAt(upper - 1) # 0
          /\ upper' = upper - 1 /\ UNCHANGED <<indices, lower, stats>>
       \/ /\ BitAt(lower) # 0 /\ BitAt(upper - 1) = 0
          /\ indices' = Swapped(indices, lower, upper - 1)
          /\ lower' = lower + 1 /\ upper' = upper - 1
          /\ Count("swaps", 1)
    /\ UNCHANGED <<values, calls, pc, pivot, scan>>

\* Mutant: the recursive calls look at the same bit again.
RadixCallSameBit(first, last) == Call("radix", first, last, Top.left)

RadixCall(first, last) == Call("radix", first, last, Top.left - 1)

\* First the values with a zero bit, then the others.
RadixSplit ==
    /\ pc = "radix" /\ lower >= upper
    /\ CallThen(RadixCall(Top.first, lower - 1), RadixCall(lower, Top.last))
    /\ pc' = "loop"
    /\ UNCHANGED <<values, indices, locals, stats>>

-------------------------------------------------------------------------------
Next ==
    \/ BeginInsertion \/ FallBack \/ AllEqual
    \/ BeginPartition \/ PartitionNext \/ Partitioned
    \/ InsertNext \/ Inserted
    \/ RadixReturn \/ BeginRadix \/ RadixNext \/ RadixSplit

Spec == Init /\ [][Next]_vars

\* The sort runs in the caller's thread, which is not stopped for ever.
FairSpec == Spec /\ WF_vars(Next)

-------------------------------------------------------------------------------
(* Correctness.                                                            *)

\* The slice stays a permutation of the bucket, and two of its elements are out
\* of order only as long as some activation still has to sort a region holding
\* both: once the outermost call has returned, the bucket is ascending, as
\* Phase A of sort_in_place takes for granted.
OnlyPendingUnsorted ==
    /\ {indices[k] : k \in DOMAIN indices} = DOMAIN values
    /\ \A i, j \in DOMAIN indices :
          i < j /\ Value(i) > Value(j) =>
              \E c \in DOMAIN calls : {i, j} \subseteq calls[c].first .. calls[c].last

\* Each partition at least halves the range of values of either side: the budget
\* of partitions is one of halvings, whatever the length of the bucket.
RangeHalved ==
    \A c \in DOMAIN calls :
        calls[c].kind = "midpoint" /\ Size(calls[c]) > 0 /\ pc = "loop" =>
            (Max(ValuesOf(calls[c])) - Min(ValuesOf(calls[c])))
                * PowerOfTwo(MIDPOINT_PARTITION_BUDGET - calls[c].left)
              <= Max(Range(values)) - Min(Range(values))

\* The radix sort takes over, for "the rare bounded-pivot fallback", only in a
\* bucket whose values span 2^(budget - 1): with a budget of 32 partitions none
\* of the buckets up to width 32, however long it is and however often a value
\* occurs in it.
FallBackOnlyWhenWide ==
    stats.radix_fallbacks > 0 /\ MIDPOINT_PARTITION_BUDGET > 0 =>
        Max(Range(values)) - Min(Range(values)) >= PowerOfTwo(MIDPOINT_PARTITION_BUDGET - 1)

\* The offsets of the activations that a waiting one has called, with the
\* activation each is of.
AwaitedBy(c) ==
    UNION {{d} \X (calls[d].first .. calls[d].last) : d \in c + 1 .. Len(calls)}

\* "Recurse into the smaller side and loop over the larger one": what a waiting
\* activation of midpoint_sort has left is at least as much as all activations
\* it waits for have, which keeps the depth of the recursion logarithmic in the
\* length of the bucket.
StackLimited ==
    \A c \in DOMAIN calls :
        calls[c].kind = "midpoint" => Cardinality(AwaitedBy(c)) <= Size(calls[c])

\* "Instead of allowing adversarial quadratic work": no value is the pivot
\* twice, so that duplicates cost no partition of their own; no ID is compared
\* with the middle once the budget of its region is spent; and pointers are
\* swapped no more often than partitions, bits and short regions allow.
WorkBounded ==
    LET n == Len(values)
    IN  /\ stats.midpoint_partitions < Cardinality(Range(values))
        /\ stats.pivot_probes <= MIDPOINT_PARTITION_BUDGET * (n - 1)
        /\ 2 * stats.swaps <= n * (2 * MIDPOINT_PARTITION_BUDGET + BITS
                                     + INSERTION_SORT_CUTOFF - 1)

\* The sort returns: every partition takes its pivot out, and every radix call
\* has one bit less to look at.
MidpointReturns == <>(calls = <<>>)
===============================================================================
