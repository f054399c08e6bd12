----------------------------- MODULE Observability -----------------------------
(***************************************************************************)
(* What the index reports of itself: how its live values are distributed   *)
(* over the buckets.  The comparison program prints it, and computes the   *)
(* worst case of a lookup from it.  The share of a bucket is its count     *)
(* over the live counter, which the counts alone determine.                *)
(***************************************************************************)
EXTENDS Bwspi

BucketSlots == Len(buckets)

Active == {w \in DOMAIN buckets : buckets[w] # <<>>}

ActiveBucketCount == Cardinality(Active)

MaxBucketSize == Max({0} \cup {Len(buckets[w]) : w \in DOMAIN buckets})

\* The k-th member of a set of numbers.
Nth(S, k) == CHOOSE w \in S : Cardinality({v \in S : v <= w}) = k

\* Mutant: filter before enumerate, so that the active buckets are renumbered.
DistributionRenumbered ==
    LET active == Active
    IN  [k \in 1 .. Cardinality(active) |->
            [bit_width |-> k - 1, count |-> Len(buckets[Nth(active, k)])]]

\* One row for each bucket that is not empty, the narrowest first.
DistributionStats ==
    LET active == Active
    IN  [k \in 1 .. Cardinality(active) |->
            LET w == Nth(active, k) IN [bit_width |-> w - 1, count |-> Len(buckets[w])]]

-------------------------------------------------------------------------------
(* Correctness.                                                            *)

\* The report is that of the live values, however they came to be in their
\* buckets: a row for each width some live value has, with the number of those
\* values, in order of width; the shares add up to the whole; the worst bucket is
\* the largest row; and the last row is for the last slot.
DistributionExact ==
    LET stats == DistributionStats
        counts == {stats[k].count : k \in DOMAIN stats}
    IN  /\ {stats[k].bit_width : k \in DOMAIN stats} = {BitWidth(data[id]) : id \in LiveIds}
        /\ \A j, k \in DOMAIN stats : j < k => stats[j].bit_width < stats[k].bit_width
        /\ \A k \in DOMAIN stats : stats[k].count =
               Cardinality({id \in LiveIds : BitWidth(data[id]) = stats[k].bit_width})
        /\ Cardinality(UNION {{k} \X (1 .. stats[k].count) : k \in DOMAIN stats}) = live_len
        /\ MaxBucketSize = Max({0} \cup counts)
        /\ ActiveBucketCount = Len(stats)
        /\ BucketSlots = Max({0} \cup {stats[k].bit_width + 1 : k \in DOMAIN stats})
===============================================================================
