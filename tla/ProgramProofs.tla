----------------------------- MODULE ProgramProofs -----------------------------
(***************************************************************************)
(* What the two programs measure and report, for every size of the data    *)
(* and number of runs, lookups and failing calls: the lookup targets are   *)
(* as many as the report says, no cold run is measured, a row of medians   *)
(* summarises its samples, unspoilt by the calls that fail in fewer than   *)
(* half of the runs; the scan of the cache topology stays in its buffer.   *)
(***************************************************************************)
EXTENDS HardwareBench, Comparison, CacheTopology,
        FiniteSetTheorems, WellFoundedInduction, TLAPS

\* Division with a rest.
LEMMA Quotient ==
    ASSUME NEW n \in Nat, NEW d \in Nat \ {0}
    PROVE  /\ n \div d \in Nat
           /\ d * (n \div d) <= n
           /\ n < d * (n \div d) + d
  BY Z3

\* A multiple of the divisor that is not above n is not above it in quotients.
LEMMA QuotientAtLeast ==
    ASSUME NEW n \in Nat, NEW d \in Nat \ {0}, NEW q \in Nat, d * q <= n
    PROVE  q <= n \div d
<1> DEFINE r == n \div d
<1>1. r \in Nat /\ n < d * r + d
  BY Quotient
<1> HIDE DEF r
<1>2. CASE r < q
  <2>1. r + 1 <= q /\ q - (r + 1) \in Nat
    BY <1>1, <1>2
  <2>2. d * q = d * (r + 1) + d * (q - (r + 1))
    BY <1>1, <2>1, Z3
  <2>3. d * (r + 1) = d * r + d /\ d * (q - (r + 1)) >= 0
    BY <1>1, <2>1, Z3
  <2> QED BY <1>1, <2>2, <2>3
<1>3. CASE q <= r
  BY <1>3 DEF r
<1> QED BY <1>1, <1>2, <1>3
\* As many elements as lookups, or more: the step takes no target away.
LEMMA TargetsFill ==
    ASSUME NEW n \in Nat, NEW limit \in Nat \ {0}, limit <= n
    PROVE  /\ TargetCount(n, limit) = limit
           /\ \A k \in 1 .. limit : Targets(n, limit)[k] \in 1 .. n
<1> DEFINE s == n \div limit
<1>1. s \in Nat /\ limit * s <= n
  BY Quotient
<1>2. s >= 1
  BY QuotientAtLeast, limit * 1 <= n
<1>3. Step(n, limit) = s
  BY DEF Step
<1> HIDE DEF s
<1>4. s \in Nat \ {0} /\ n + s - 1 \in Nat
  BY <1>1, <1>2
<1>5. s * limit <= n + s - 1
  <2>1. s * limit = limit * s
    BY <1>1, Z3
  <2> QED BY <1>1, <1>2, <2>1
<1>6. limit <= (n + s - 1) \div s
  BY <1>4, <1>5, QuotientAtLeast
<1>7. TargetCount(n, limit) = limit
  <2>1. (n + s - 1) \div s \in Nat
    BY <1>4, Quotient
  <2> QED BY <1>3, <1>6, <2>1 DEF TargetCount
<1>8. ASSUME NEW k \in 1 .. limit
      PROVE  Targets(n, limit)[k] \in 1 .. n
  <2>1. Targets(n, limit)[k] = (k - 1) * s + 1
    BY <1>3, <1>7 DEF Targets
  <2>2. limit - k \in Nat /\ k - 1 \in Nat
    OBVIOUS
  <2>3. limit * s = (k - 1) * s + s + (limit - k) * s
    BY <1>1, <2>2, Z3
  <2>4. (k - 1) * s \in Nat /\ (limit - k) * s \in Nat
    BY <1>1, <2>2, Z3
  <2> QED BY <1>1, <1>2, <2>1, <2>3, <2>4
<1> QED BY <1>7, <1>8

\* The report gives LOOKUPS as the number of lookup targets, and they are values
\* of the data: the filter on BWSPI_BENCH_N keeps the data long enough.
THEOREM ReportedTargets == Spec => []TargetsAsReported
<1> DEFINE Enough == element_count \in Nat /\ LOOKUPS <= element_count
<1>1. Init => Enough
  BY BenchAssumption DEF Init, ElementCount
<1>2. Enough /\ [Next]_vars => Enough'
  BY DEF Next, WarmUp, Snapshot, Measure, Report, vars
<1>3. Enough => TargetsAsReported
  <2> SUFFICES ASSUME Enough PROVE TargetsAsReported
    OBVIOUS
  <2> DEFINE targets == Targets(element_count, LOOKUPS)
  <2>1. /\ TargetCount(element_count, LOOKUPS) = LOOKUPS
        /\ \A k \in 1 .. LOOKUPS : targets[k] \in 1 .. element_count
    BY TargetsFill, BenchAssumption
  <2>2. targets = [k \in 1 .. LOOKUPS |-> (k - 1) * Step(element_count, LOOKUPS) + 1]
    BY <2>1 DEF Targets
  <2>3. DOMAIN targets = 1 .. LOOKUPS
    BY <2>2
  <2>4. Len(targets) = LOOKUPS
    <3>1. \A k \in 1 .. LOOKUPS : targets[k] \in Nat
      BY <2>1
    <3>2. targets = [k \in 1 .. LOOKUPS |-> targets[k]]
      BY <2>2
    <3> HIDE DEF targets
    <3>3. targets \in [1 .. LOOKUPS -> Nat]
      BY <3>1, <3>2
    <3> QED BY <3>3, BenchAssumption
  <2> QED BY <2>1, <2>3, <2>4 DEF TargetsAsReported
<1> QED
  BY <1>1, <1>2, <1>3, PTL DEF Spec

-------------------------------------------------------------------------------
\* A sample, as the report reads it.
Sample == [elapsed : WarmCosts, cpu_percent : Nat, working_set_delta : Int, sound : BOOLEAN]

\* Once `benchmark` has come to its measured runs, the operation has run.
WarmInv ==
    /\ pc \in {"warm_up", "snapshot", "measure"} /\ cpu \in Nat
    /\ pc # "warm_up" => warm
    /\ before.cpu \in Nat /\ before.working_set \in Nat /\ before.failed \in Nat
    /\ samples \in Seq(Sample)

\* What a snapshot holds, whichever of its calls failed.
LEMMA SnapshotType ==
    ASSUME NEW time \in Nat, NEW s \in Snapshots(time)
    PROVE  s.cpu \in Nat /\ s.working_set \in Nat /\ s.failed \in Nat
<1> DEFINE shown == (time \div Quantum) * Quantum
<1>1. shown \in Nat
  <2>1. time \div Quantum \in Nat
    BY Quotient, BenchAssumption
  <2> QED BY <2>1, BenchAssumption, Z3
<1>2. \/ s \in [cpu : {shown}, working_set : WorkingSets, failed : {0}]
      \/ s \in [cpu : {0}, working_set : WorkingSets, failed : {1}]
      \/ s \in [cpu : {shown}, working_set : {0}, failed : {1}]
      \/ s \in [cpu : {0}, working_set : {0}, failed : {2}]
  BY Zenon DEF Snapshots
<1> HIDE DEF shown
<1>3. /\ s.cpu \in {0, shown} /\ s.working_set \in WorkingSets \cup {0}
      /\ s.failed \in {0, 1, 2}
  BY <1>2
<1>4. \A bytes \in WorkingSets \cup {0} : bytes \in Nat
  BY BenchAssumption
<1>5. s.cpu \in Nat
  BY <1>1, <1>3
<1>6. s.working_set \in Nat
  BY <1>3, <1>4
<1>7. s.failed \in Nat
  BY <1>3
<1> QED BY <1>5, <1>6, <1>7

\* The percentage is that of no time, or of a counter that has not gone back.
LEMMA PercentType ==
    ASSUME NEW earlier, earlier.cpu \in Nat, NEW later, later.cpu \in Nat, NEW time \in Nat
    PROVE  CpuPercentSince(earlier, later, time) \in Nat
<1>1. CASE time = 0 \/ later.cpu < earlier.cpu
  BY <1>1 DEF CpuPercentSince
<1>2. CASE ~ (time = 0 \/ later.cpu < earlier.cpu)
  <2>1. 100 * (later.cpu - earlier.cpu) \in Nat
    BY <1>2
  <2>2. (100 * (later.cpu - earlier.cpu)) \div time \in Nat
    BY <1>2, <2>1, Quotient
  <2> QED BY <1>2, <2>2 DEF CpuPercentSince
<1> QED BY <1>1, <1>2

LEMMA WarmInvStarts == Init => WarmInv
  BY DEF Init, WarmInv, NoSnapshot

LEMMA WarmInvKept == WarmInv /\ [Next]_vars => WarmInv'
<1> SUFFICES ASSUME WarmInv, [Next]_vars PROVE WarmInv'
  OBVIOUS
<1>0. WarmCosts \subseteq Nat /\ ColdCosts \subseteq Nat
  BY BenchAssumption
<1>1. CASE WarmUp
  <2>1. PICK cost \in Costs : cpu' = cpu + cost /\ warm' = TRUE
    BY <1>1 DEF WarmUp, FirstRun, Operation
  <2>2. cpu' \in Nat
    BY <1>0, <2>1 DEF WarmInv, Costs
  <2> QED BY <1>1, <2>1, <2>2 DEF WarmUp, WarmInv
<1>2. CASE Snapshot
  BY <1>2, SnapshotType DEF Snapshot, WarmInv
<1>3. CASE Measure
  <2>1. warm /\ Costs = WarmCosts
    BY <1>3 DEF Measure, WarmInv, Costs
  <2>2. PICK cost \in WarmCosts : \E after \in Snapshots(cpu + cost) :
          /\ Operation(cost)
          /\ samples' = Append(samples,
                [elapsed |-> cost,
                 cpu_percent |-> CpuPercentSince(before, after, cost),
                 working_set_delta |-> after.working_set - before.working_set,
                 sound |-> before.failed + after.failed = 0])
    BY <1>3, <2>1 DEF Measure
  <2>3. PICK after \in Snapshots(cpu + cost) :
          /\ Operation(cost)
          /\ samples' = Append(samples,
                [elapsed |-> cost,
                 cpu_percent |-> CpuPercentSince(before, after, cost),
                 working_set_delta |-> after.working_set - before.working_set,
                 sound |-> before.failed + after.failed = 0])
    BY <2>2
  <2>4. cost \in Nat /\ cpu + cost \in Nat
    BY <1>0 DEF WarmInv
  <2>5. after.cpu \in Nat /\ after.working_set \in Nat /\ after.failed \in Nat
    BY <2>4, SnapshotType
  <2>6. CpuPercentSince(before, after, cost) \in Nat
    BY <2>4, <2>5, PercentType DEF WarmInv
  <2>7. samples' \in Seq(Sample)
    BY <2>3, <2>5, <2>6 DEF WarmInv, Sample
  <2> QED BY <1>3, <2>3, <2>4, <2>7 DEF Measure, WarmInv, Operation, NoSnapshot
<1>4. CASE Report
  BY <1>4 DEF Report, WarmInv
<1>5. CASE UNCHANGED vars
  BY <1>5 DEF WarmInv, vars
<1> QED BY <1>1, <1>2, <1>3, <1>4, <1>5 DEF Next

\* "Excluded from results": the first run of an operation, whatever it costs, is
\* never among the samples its row is computed from.
THEOREM WarmRunsOnly == Spec => []OnlyWarmSamples
<1>1. WarmInv => OnlyWarmSamples
  <2> SUFFICES ASSUME WarmInv, NEW k \in DOMAIN samples
               PROVE  samples[k].elapsed \in WarmCosts
    BY DEF OnlyWarmSamples
  <2>1. samples[k] \in Sample
    BY DEF WarmInv
  <2> QED BY <2>1 DEF Sample
<1> QED
  BY <1>1, WarmInvStarts, WarmInvKept, PTL DEF Spec

-------------------------------------------------------------------------------
(* Medians and extremes.                                                   *)

LEMMA LeastNatural ==
    ASSUME NEW S \in SUBSET Nat, S # {}
    PROVE  \E n \in S : \A m \in S : n <= m
<1>1. \E x \in S : \A y \in S : ~ (<<y, x>> \in OpToRel(<, Nat))
  BY NatLessThanWellFounded, WFMin, Zenon
<1>2. ASSUME NEW x \in S, NEW y \in S, ~ (<<y, x>> \in OpToRel(<, Nat))
      PROVE  x <= y
  BY <1>2 DEF OpToRel
<1> QED BY <1>1, <1>2

\* A column of n numbers.
Numbers(s, n) == DOMAIN s = 1 .. n /\ \A j \in 1 .. n : s[j] \in Int

LEMMA PlacesOf ==
    ASSUME NEW n \in Nat, NEW T \in SUBSET (1 .. n)
    PROVE  /\ IsFiniteSet(T) /\ Cardinality(T) \in 0 .. n
           /\ Cardinality((1 .. n) \ T) = n - Cardinality(T)
           /\ Cardinality(T) = n => T = 1 .. n
<1>1. IsFiniteSet(1 .. n) /\ Cardinality(1 .. n) = n
  BY FS_Interval
<1>2. IsFiniteSet(T) /\ Cardinality(T) <= n /\ (Cardinality(T) = n => T = 1 .. n)
  BY <1>1, FS_Subset
<1>3. Cardinality(T) \in Nat
  BY <1>2, FS_CardinalityType
<1>4. Cardinality((1 .. n) \ T) = n - Cardinality(T)
  <2>1. PICK S : S = 1 .. n
    OBVIOUS
  <2>2. S \cap T = T
    BY <2>1
  <2>3. Cardinality(S \ T) = Cardinality(S) - Cardinality(S \cap T)
    BY <1>1, <2>1, FS_Difference
  <2> QED BY <1>1, <2>1, <2>2, <2>3
<1> QED BY <1>2, <1>3, <1>4

\* The larger of two values of a column has more elements up to it.
LEMMA RanksAscend ==
    ASSUME NEW n \in Nat, NEW s, Numbers(s, n), NEW u \in Range(s), NEW v \in Range(s), u < v
    PROVE  Cardinality(AtMost(s, u)) < Cardinality(AtMost(s, v))
<1>1. AtMost(s, u) \in SUBSET (1 .. n) /\ AtMost(s, v) \in SUBSET (1 .. n)
  BY DEF AtMost, Numbers
<1>2. PICK j \in 1 .. n : s[j] = v
  BY DEF Range, Numbers
<1>3. u \in Int /\ v \in Int
  BY DEF Range, Numbers
<1>4. j \in AtMost(s, v) /\ j \notin AtMost(s, u)
  BY <1>2, <1>3 DEF AtMost, Numbers
<1>5. AtMost(s, u) \subseteq AtMost(s, v)
  BY <1>3 DEF AtMost, Numbers
<1>6. /\ IsFiniteSet(AtMost(s, v))
      /\ Cardinality(AtMost(s, u)) \in Nat /\ Cardinality(AtMost(s, v)) \in Nat
  <2>1. \A T \in SUBSET (1 .. n) : IsFiniteSet(T) /\ Cardinality(T) \in 0 .. n
    BY PlacesOf
  <2>2. 0 .. n \subseteq Nat
    OBVIOUS
  <2> QED BY <1>1, <2>1, <2>2, Zenon
<1>7. /\ Cardinality(AtMost(s, u)) <= Cardinality(AtMost(s, v))
      /\ Cardinality(AtMost(s, u)) = Cardinality(AtMost(s, v)) => AtMost(s, u) = AtMost(s, v)
  BY <1>5, <1>6, FS_Subset
<1> QED BY <1>4, <1>6, <1>7

\* Values of a column have a least and a greatest one.
LEMMA ColumnExtremes ==
    ASSUME NEW n \in Nat, NEW s, Numbers(s, n), NEW V \in SUBSET Range(s), V # {}
    PROVE  /\ \E v \in V : \A u \in V : v <= u
           /\ \E v \in V : \A u \in V : u <= v
<1>1. \A v \in V : v \in Int
  BY DEF Range, Numbers
<1>2. \A v \in V : Cardinality(AtMost(s, v)) \in 0 .. n
  <2>1. \A v : AtMost(s, v) \in SUBSET (1 .. n)
    BY DEF AtMost, Numbers
  <2> QED BY <2>1, PlacesOf
<1>3. \A u, v \in V : u < v => Cardinality(AtMost(s, u)) < Cardinality(AtMost(s, v))
  BY RanksAscend
<1>4. PICK rank : rank = [v \in V |-> Cardinality(AtMost(s, v))]
  OBVIOUS
<1>5. \A v \in V : rank[v] \in 0 .. n
  BY <1>2, <1>4
<1>6. \A u, v \in V : u < v => rank[u] < rank[v]
  BY <1>3, <1>4
<1>7. \E v \in V : \A u \in V : v <= u
  <2>1. PICK ranks : ranks = {rank[v] : v \in V}
    OBVIOUS
  <2>2. ranks \in SUBSET Nat /\ ranks # {}
    BY <1>5, <2>1
  <2>3. PICK least \in ranks : \A r \in ranks : least <= r
    BY <2>2, LeastNatural
  <2>4. PICK v \in V : rank[v] = least
    BY <2>1, <2>3
  <2>5. \A u \in V : rank[v] <= rank[u]
    BY <2>1, <2>3, <2>4
  <2>6. \A u \in V : v <= u
    BY <1>1, <1>5, <1>6, <2>5
  <2> QED BY <2>6
<1>8. \E v \in V : \A u \in V : u <= v
  <2>1. PICK gaps : gaps = {n - rank[v] : v \in V}
    OBVIOUS
  <2>2. gaps \in SUBSET Nat /\ gaps # {}
    BY <1>5, <2>1
  <2>3. PICK least \in gaps : \A g \in gaps : least <= g
    BY <2>2, LeastNatural
  <2>4. PICK v \in V : n - rank[v] = least
    BY <2>1, <2>3
  <2>5. \A u \in V : n - rank[v] <= n - rank[u]
    BY <2>1, <2>3, <2>4
  <2>6. \A u \in V : u <= v
    BY <1>1, <1>5, <1>6, <2>5
  <2> QED BY <2>6
<1> QED BY <1>7, <1>8

\* What is at the k-th place of a sorted column: an element that fewer than k
\* are below and no more than n - k above.
LEMMA AscendingSplits ==
    ASSUME NEW n \in Nat, NEW s, Numbers(s, n), NEW k \in 1 .. n
    PROVE  /\ \E j \in 1 .. n : Ascending(s)[k] = s[j]
           /\ Cardinality({j \in 1 .. n : s[j] < Ascending(s)[k]}) < k
           /\ Cardinality({j \in 1 .. n : s[j] > Ascending(s)[k]}) <= n - k
<1> DEFINE reaching == {v \in Range(s) : k <= Cardinality(AtMost(s, v))}
<1>1. \A v : AtMost(s, v) \in SUBSET (1 .. n)
  BY DEF AtMost, Numbers
<1>2. \A v : Cardinality(AtMost(s, v)) \in 0 .. n
  BY <1>1, PlacesOf
<1>3. \A v \in Range(s) : v \in Int
  BY DEF Range, Numbers
<1>4. reaching # {}
  <2>1. s[1] \in Range(s)
    BY DEF Range, Numbers
  <2>2. PICK v \in Range(s) : \A u \in Range(s) : u <= v
    BY <2>1, ColumnExtremes
  <2>3. AtMost(s, v) = 1 .. n
    BY <2>2 DEF AtMost, Range, Numbers
  <2>4. Cardinality(1 .. n) = n
    BY FS_Interval
  <2> QED BY <2>3, <2>4
<1>5. reaching \in SUBSET Range(s)
  OBVIOUS
<1>6. \E v \in reaching : \A u \in reaching : v <= u
  <2> HIDE DEF reaching
  <2> QED BY <1>4, <1>5, ColumnExtremes
<1>7. PICK least : least = Min(reaching)
  OBVIOUS
<1>8. least \in reaching /\ \A u \in reaching : least <= u
  <2> HIDE DEF reaching
  <2> QED BY <1>6, <1>7 DEF Min
<1>9. least \in Range(s) /\ least \in Int /\ k <= Cardinality(AtMost(s, least))
  BY <1>3, <1>8
<1>10. Ascending(s)[k] = least
  BY <1>7 DEF Ascending, Numbers
<1>11. Cardinality({j \in 1 .. n : s[j] < least}) < k
  <2> DEFINE lower == {v \in Range(s) : v < least}
  <2>1. CASE lower = {}
    <3>1. \A j \in 1 .. n : s[j] \in Range(s)
      BY DEF Range, Numbers
    <3>2. {j \in 1 .. n : s[j] < least} = {}
      BY <2>1, <3>1
    <3>3. Cardinality({}) = 0
      BY FS_EmptySet
    <3> QED BY <3>2, <3>3
  <2>2. CASE lower # {}
    <3>1. \E v \in lower : \A u \in lower : u <= v
      <4>1. lower \in SUBSET Range(s)
        OBVIOUS
      <4> HIDE DEF lower
      <4> QED BY <2>2, <4>1, ColumnExtremes
    <3>2. PICK v \in Range(s) : v < least /\ \A u \in Range(s) : u < least => u <= v
      BY <3>1
    <3>3. \A j \in 1 .. n : s[j] \in Range(s) /\ s[j] \in Int
      BY DEF Range, Numbers
    <3>4. {j \in 1 .. n : s[j] < least} = AtMost(s, v)
      <4>1. v \in Int
        BY <1>3
      <4>2. AtMost(s, v) = {j \in 1 .. n : s[j] <= v}
        BY DEF AtMost, Numbers
      <4>3. \A j \in 1 .. n : s[j] < least <=> s[j] <= v
        BY <1>9, <3>2, <3>3, <4>1
      <4> QED BY <4>2, <4>3
    <3>5. v \notin reaching
      <4>1. v \in Int /\ ~ (least <= v)
        BY <1>3, <1>9, <3>2
      <4> HIDE DEF reaching
      <4> QED BY <1>8, <4>1
    <3>6. ~ (k <= Cardinality(AtMost(s, v)))
      BY <3>5
    <3> QED BY <1>2, <3>4, <3>6
  <2> QED BY <2>1, <2>2
<1>12. Cardinality({j \in 1 .. n : s[j] > least}) <= n - k
  <2>1. {j \in 1 .. n : s[j] > least} = (1 .. n) \ AtMost(s, least)
    <3>1. \A j \in 1 .. n : s[j] > least <=> ~ (s[j] <= least)
      BY <1>9 DEF Numbers
    <3> QED BY <3>1 DEF AtMost, Numbers
  <2>2. Cardinality((1 .. n) \ AtMost(s, least)) = n - Cardinality(AtMost(s, least))
    BY <1>1, PlacesOf
  <2> QED BY <1>2, <1>9, <2>1, <2>2
<1>13. \E j \in 1 .. n : least = s[j]
  BY <1>9 DEF Range, Numbers
<1> QED BY <1>10, <1>11, <1>12, <1>13

\* The place of the median, and what is sorted around it.
LEMMA MedianSplits ==
    ASSUME NEW s, Numbers(s, RUNS)
    PROVE  LET m == Median(Ascending(s))
           IN  /\ \E j \in 1 .. RUNS : m = s[j]
               /\ 2 * Cardinality({j \in 1 .. RUNS : s[j] < m}) < RUNS
               /\ 2 * Cardinality({j \in 1 .. RUNS : s[j] > m}) < RUNS
<1>1. PICK k : k = RUNS \div 2 + 1
  OBVIOUS
<1>2. RUNS \in Nat /\ k \in 1 .. RUNS /\ 2 * k = RUNS + 1
  BY <1>1, BenchAssumption
<1>3. DOMAIN Ascending(s) = 1 .. RUNS
  BY DEF Ascending, Numbers
<1>4. \A j \in 1 .. RUNS : Ascending(s)[j] \in Int
  <2>1. ASSUME NEW j \in 1 .. RUNS
        PROVE  \E i \in 1 .. RUNS : Ascending(s)[j] = s[i]
    BY <1>2, AscendingSplits
  <2> QED BY <2>1 DEF Numbers
<1>5. Len(Ascending(s)) = RUNS
  <2>1. Ascending(s) = [j \in 1 .. RUNS |-> Ascending(s)[j]]
    BY DEF Ascending, Numbers
  <2>2. PICK t : t = Ascending(s)
    OBVIOUS
  <2>3. t \in [1 .. RUNS -> Int]
    BY <1>4, <2>1, <2>2
  <2> QED BY <1>2, <2>2, <2>3
<1>6. Median(Ascending(s)) = Ascending(s)[k]
  BY <1>1, <1>5 DEF Median
<1>7. /\ \E j \in 1 .. RUNS : Ascending(s)[k] = s[j]
      /\ Cardinality({j \in 1 .. RUNS : s[j] < Ascending(s)[k]}) < k
      /\ Cardinality({j \in 1 .. RUNS : s[j] > Ascending(s)[k]}) <= RUNS - k
  BY <1>2, AscendingSplits
<1>8. \A T \in SUBSET (1 .. RUNS) : Cardinality(T) \in Nat
  <2>1. \A T \in SUBSET (1 .. RUNS) : Cardinality(T) \in 0 .. RUNS
    BY <1>2, PlacesOf
  <2> QED BY <1>2, <2>1
<1>9. /\ Cardinality({j \in 1 .. RUNS : s[j] < Ascending(s)[k]}) \in Nat
      /\ Cardinality({j \in 1 .. RUNS : s[j] > Ascending(s)[k]}) \in Nat
  BY <1>8
<1> QED BY <1>2, <1>6, <1>7, <1>9

-------------------------------------------------------------------------------
(* The row.                                                                *)

\* Between the report of a row and the next warm-up the samples are those the
\* row was computed from, all of its runs.
RowInv ==
    /\ pc # "warm_up" => ~ Reported
    /\ Reported =>
          /\ Len(samples) = RUNS
          /\ result.median = Median(SortedColumn("elapsed"))
          /\ result.min = SortedColumn("elapsed")[1]
          /\ result.max = SortedColumn("elapsed")[RUNS]
          /\ result.working_set_delta = Median(SortedColumn("working_set_delta"))
          /\ LET percent == Median(SortedColumn("cpu_percent"))
             IN  result.cpu_percent = IF percent > 0 THEN percent ELSE NotAvailable

LEMMA RowInvStarts == Init => RowInv
  BY DEF Init, RowInv, Reported

LEMMA RowInvKept == WarmInv /\ RowInv /\ [Next]_vars => RowInv'
<1> SUFFICES ASSUME WarmInv, RowInv, [Next]_vars PROVE RowInv'
  OBVIOUS
<1>1. CASE WarmUp
  BY <1>1 DEF WarmUp, RowInv, Reported
<1>2. CASE Snapshot
  BY <1>2 DEF Snapshot, RowInv, Reported
<1>3. CASE Measure
  BY <1>3 DEF Measure, RowInv, Reported
<1>4. CASE Report
  <2>1. samples' = samples /\ result' = Summary /\ pc' = "warm_up" /\ Len(samples) = RUNS
    BY <1>4 DEF Report
  <2>2. \A field : SortedColumn(field)' = SortedColumn(field)
    BY <2>1 DEF SortedColumn, Column
  <2>3. PICK p : p = Median(SortedColumn("cpu_percent"))
    OBVIOUS
  <2>4. /\ result'.median = Median(SortedColumn("elapsed"))
        /\ result'.min = SortedColumn("elapsed")[1]
        /\ result'.max = SortedColumn("elapsed")[RUNS]
        /\ result'.working_set_delta = Median(SortedColumn("working_set_delta"))
        /\ result'.cpu_percent = IF p > 0 THEN p ELSE NotAvailable
    BY <2>1, <2>3 DEF Summary, Extremes
  <2>5. /\ SortedColumn("elapsed")' = SortedColumn("elapsed")
        /\ SortedColumn("working_set_delta")' = SortedColumn("working_set_delta")
        /\ SortedColumn("cpu_percent")' = SortedColumn("cpu_percent")
    BY <2>1 DEF SortedColumn, Column
  <2> QED BY <2>1, <2>3, <2>4, <2>5 DEF RowInv, Median
<1>5. CASE UNCHANGED vars
  BY <1>5 DEF vars, RowInv, Reported, SortedColumn, Column, Median
<1> QED BY <1>1, <1>2, <1>3, <1>4, <1>5 DEF Next

\* A column of the samples a row is reported from.
LEMMA ColumnType ==
    ASSUME WarmInv, RowInv, Reported,
           NEW field \in {"elapsed", "cpu_percent", "working_set_delta"}
    PROVE  /\ DOMAIN samples = 1 .. RUNS
           /\ Numbers(Column(field), RUNS)
           /\ \A k \in 1 .. RUNS : Column(field)[k] = samples[k][field]
           /\ SortedColumn(field) = Ascending(Column(field))
           /\ field # "working_set_delta" => \A k \in 1 .. RUNS : samples[k][field] \in Nat
<1>1. DOMAIN samples = 1 .. RUNS /\ \A k \in 1 .. RUNS : samples[k] \in Sample
  BY DEF WarmInv, RowInv
<1>2. WarmCosts \subseteq Nat
  BY BenchAssumption
<1>3. \A k \in 1 .. RUNS : /\ samples[k].elapsed \in Nat /\ samples[k].cpu_percent \in Nat
                           /\ samples[k].working_set_delta \in Int
  BY <1>1, <1>2 DEF Sample
<1>4. \A k \in 1 .. RUNS : samples[k][field] \in Int
  BY <1>3
<1>5. Column(field) = [k \in 1 .. RUNS |-> samples[k][field]]
  BY <1>1 DEF Column
<1> QED BY <1>1, <1>3, <1>4, <1>5 DEF SortedColumn, Numbers

\* A row of the report summarises the samples it stands for: however many runs
\* there are, and whatever they have cost, its extremes are extremes, no median
\* has more than half of the samples on either side, and CPU time is missing
\* exactly where most of the samples show none.
THEOREM RowIsSummary == Spec => []RowSummarises
<1>1. WarmInv /\ RowInv => RowSummarises
  <2> SUFFICES ASSUME WarmInv, RowInv, Reported PROVE RowSummarises
    BY DEF RowSummarises
  <2>1. DOMAIN samples = 1 .. RUNS
    BY ColumnType
  <2>2. RUNS \in Nat /\ 1 \in 1 .. RUNS /\ RUNS \in 1 .. RUNS
    BY BenchAssumption
  <2>3. \A T \in SUBSET (1 .. RUNS) :
           Cardinality(T) \in 0 .. RUNS /\ Cardinality((1 .. RUNS) \ T) = RUNS - Cardinality(T)
    BY <2>2, PlacesOf
  <2>4. Below("elapsed", result.min) = 0
    <3>1. PICK c : c = Column("elapsed")
      OBVIOUS
    <3>2. Numbers(c, RUNS) /\ SortedColumn("elapsed") = Ascending(c)
      BY <3>1, ColumnType
    <3>3. result.min = Ascending(c)[1]
      BY <3>2 DEF RowInv
    <3>4. \A k \in 1 .. RUNS : c[k] = samples[k]["elapsed"]
      BY <3>1, ColumnType
    <3>5. {k \in DOMAIN samples : samples[k]["elapsed"] < result.min}
             = {k \in 1 .. RUNS : c[k] < Ascending(c)[1]}
      BY <2>1, <3>3, <3>4
    <3>6. Cardinality({k \in 1 .. RUNS : c[k] < Ascending(c)[1]}) < 1
      BY <2>2, <3>2, AscendingSplits
    <3>7. Cardinality({k \in 1 .. RUNS : c[k] < Ascending(c)[1]}) \in 0 .. RUNS
      BY <2>3
    <3> QED BY <3>5, <3>6, <3>7 DEF Below
  <2>5. Above("elapsed", result.max) = 0
    <3>1. PICK c : c = Column("elapsed")
      OBVIOUS
    <3>2. Numbers(c, RUNS) /\ SortedColumn("elapsed") = Ascending(c)
      BY <3>1, ColumnType
    <3>3. result.max = Ascending(c)[RUNS]
      BY <3>2 DEF RowInv
    <3>4. \A k \in 1 .. RUNS : c[k] = samples[k]["elapsed"]
      BY <3>1, ColumnType
    <3>5. {k \in DOMAIN samples : samples[k]["elapsed"] > result.max}
             = {k \in 1 .. RUNS : c[k] > Ascending(c)[RUNS]}
      BY <2>1, <3>3, <3>4
    <3>6. Cardinality({k \in 1 .. RUNS : c[k] > Ascending(c)[RUNS]}) <= RUNS - RUNS
      BY <2>2, <3>2, AscendingSplits
    <3>7. PICK above : above = {k \in 1 .. RUNS : c[k] > Ascending(c)[RUNS]}
      OBVIOUS
    <3>8. Cardinality(above) \in 0 .. RUNS
      BY <2>3, <3>7
    <3>9. Cardinality(above) = 0
      BY <2>2, <3>6, <3>7, <3>8
    <3> QED BY <3>5, <3>7, <3>9 DEF Above
  <2>6. ASSUME NEW field \in {"elapsed", "cpu_percent", "working_set_delta"}
        PROVE  /\ 2 * Below(field, Median(SortedColumn(field))) < RUNS
               /\ 2 * Above(field, Median(SortedColumn(field))) < RUNS
    <3>1. PICK c : c = Column(field)
      OBVIOUS
    <3>2. Numbers(c, RUNS) /\ SortedColumn(field) = Ascending(c)
      BY <3>1, ColumnType
    <3>3. PICK m : m = Median(Ascending(c))
      OBVIOUS
    <3>4. \A k \in 1 .. RUNS : c[k] = samples[k][field]
      BY <3>1, ColumnType
    <3>5. /\ {k \in DOMAIN samples : samples[k][field] < m} = {k \in 1 .. RUNS : c[k] < m}
          /\ {k \in DOMAIN samples : samples[k][field] > m} = {k \in 1 .. RUNS : c[k] > m}
      BY <2>1, <3>4
    <3>6. /\ 2 * Cardinality({k \in 1 .. RUNS : c[k] < m}) < RUNS
          /\ 2 * Cardinality({k \in 1 .. RUNS : c[k] > m}) < RUNS
      BY <3>2, <3>3, MedianSplits
    <3> QED BY <3>2, <3>3, <3>5, <3>6 DEF Below, Above
  <2>7. ASSUME NEW field \in {"elapsed", "working_set_delta"}
        PROVE  LET median == IF field = "elapsed" THEN result.median
                                                  ELSE result.working_set_delta
               IN  2 * Below(field, median) <= RUNS /\ 2 * Above(field, median) <= RUNS
    <3>1. PICK m : m = Median(SortedColumn(field))
      OBVIOUS
    <3>2. (IF field = "elapsed" THEN result.median ELSE result.working_set_delta) = m
      BY <3>1 DEF RowInv
    <3>3. 2 * Below(field, m) < RUNS /\ 2 * Above(field, m) < RUNS
      BY <2>6, <3>1
    <3>4. Below(field, m) \in 0 .. RUNS /\ Above(field, m) \in 0 .. RUNS
      BY <2>1, <2>3 DEF Below, Above
    <3> QED BY <2>2, <3>2, <3>3, <3>4
  <2>8. IF result.cpu_percent = NotAvailable
        THEN 2 * Above("cpu_percent", 0) <= RUNS
        ELSE 2 * Above("cpu_percent", 0) > RUNS
    <3>1. PICK p : p = Median(SortedColumn("cpu_percent"))
      OBVIOUS
    <3>2. \A k \in 1 .. RUNS : samples[k]["cpu_percent"] \in Nat
      BY ColumnType
    <3>3. p \in Nat
      <4>1. PICK c : c = Column("cpu_percent")
        OBVIOUS
      <4>2. Numbers(c, RUNS) /\ SortedColumn("cpu_percent") = Ascending(c)
        BY <4>1, ColumnType
      <4>3. \A k \in 1 .. RUNS : c[k] = samples[k]["cpu_percent"]
        BY <4>1, ColumnType
      <4>4. \E k \in 1 .. RUNS : Median(Ascending(c)) = c[k]
        BY <4>2, MedianSplits
      <4> QED BY <3>1, <3>2, <4>2, <4>3, <4>4
    <3>4. result.cpu_percent = IF p > 0 THEN p ELSE NotAvailable
      BY <3>1 DEF RowInv
    <3>5. 2 * Below("cpu_percent", p) < RUNS /\ 2 * Above("cpu_percent", p) < RUNS
      BY <2>6, <3>1
    <3>6. PICK idle : idle = {k \in 1 .. RUNS : samples[k]["cpu_percent"] = 0}
      OBVIOUS
    <3>7. Above("cpu_percent", 0) = RUNS - Cardinality(idle) /\ Cardinality(idle) \in 0 .. RUNS
      <4>1. {k \in DOMAIN samples : samples[k]["cpu_percent"] > 0} = (1 .. RUNS) \ idle
        BY <2>1, <3>2, <3>6
      <4>2. idle \in SUBSET (1 .. RUNS)
        BY <3>6
      <4>3. Cardinality((1 .. RUNS) \ idle) = RUNS - Cardinality(idle)
        BY <2>3, <4>2
      <4> QED BY <2>3, <4>1, <4>2, <4>3 DEF Above
    <3>8. CASE p = 0
      <4>1. result.cpu_percent = NotAvailable
        BY <3>4, <3>8
      <4>2. 2 * Above("cpu_percent", 0) < RUNS
        BY <3>5, <3>8
      <4> QED BY <2>2, <3>7, <4>1, <4>2
    <3>9. CASE p > 0
      <4>1. result.cpu_percent # NotAvailable
        BY <3>3, <3>4, <3>9 DEF NotAvailable
      <4>2. PICK below : below = {k \in 1 .. RUNS : samples[k]["cpu_percent"] < p}
        OBVIOUS
      <4>3. Below("cpu_percent", p) = Cardinality(below)
        BY <2>1, <4>2 DEF Below
      <4>4. idle \in SUBSET below /\ below \in SUBSET (1 .. RUNS)
        BY <3>2, <3>3, <3>6, <3>9, <4>2
      <4>5. IsFiniteSet(below)
        BY <2>2, <4>4, PlacesOf
      <4>6. Cardinality(idle) <= Cardinality(below)
        BY <4>4, <4>5, FS_Subset
      <4>7. Cardinality(below) \in 0 .. RUNS
        BY <2>3, <4>4
      <4>8. 2 * (RUNS - Cardinality(idle)) > RUNS
        BY <2>2, <3>5, <3>7, <4>3, <4>6, <4>7
      <4> QED BY <3>7, <4>1, <4>8
    <3> QED BY <3>3, <3>8, <3>9
  <2> QED BY <2>4, <2>5, <2>7, <2>8 DEF RowSummarises
<1> QED
  BY <1>1, WarmInvStarts, WarmInvKept, RowInvStarts, RowInvKept, PTL DEF Spec

\* With fewer than half of the samples unsound, no set of fewer than half of the
\* places holds all of the sound ones.
LEMMA Outvoted ==
    ASSUME NEW sound \in SUBSET (1 .. RUNS), 2 * Cardinality((1 .. RUNS) \ sound) < RUNS,
           NEW T \in SUBSET (1 .. RUNS), 2 * Cardinality(T) < RUNS
    PROVE  \E j \in sound : j \notin T
<1>1. RUNS \in Nat
  BY BenchAssumption
<1>2. \A U \in SUBSET (1 .. RUNS) :
         /\ IsFiniteSet(U) /\ Cardinality(U) \in 0 .. RUNS
         /\ Cardinality((1 .. RUNS) \ U) = RUNS - Cardinality(U)
  BY <1>1, PlacesOf
<1>3. SUFFICES ASSUME sound \subseteq T PROVE FALSE
  OBVIOUS
<1>4. Cardinality(sound) <= Cardinality(T)
  <2>1. IsFiniteSet(T)
    BY <1>2
  <2> QED BY <1>3, <2>1, FS_Subset
<1>5. /\ Cardinality(sound) \in 0 .. RUNS /\ Cardinality(T) \in 0 .. RUNS
      /\ Cardinality((1 .. RUNS) \ sound) = RUNS - Cardinality(sound)
  BY <1>2
<1> QED BY <1>1, <1>4, <1>5

\* The calls of a snapshot that fail, which the code ignores, are outvoted as
\* long as they spoil fewer than half of the runs, whichever calls and runs
\* these are.
THEOREM FailuresHarmless == Spec => []FailuresOutvoted
<1>1. WarmInv /\ RowInv => FailuresOutvoted
  <2> SUFFICES ASSUME WarmInv, RowInv, Reported,
                      2 * Cardinality({k \in DOMAIN samples : ~ samples[k].sound}) < RUNS,
                      NEW field \in {"cpu_percent", "working_set_delta"}
               PROVE  LET sound == {samples[k][field] :
                                       k \in {j \in DOMAIN samples : samples[j].sound}}
                          shown == IF result[field] = NotAvailable /\ field = "cpu_percent"
                                   THEN 0 ELSE result[field]
                      IN  \E low, high \in sound : low <= shown /\ shown <= high
    BY DEF FailuresOutvoted
  <2>1. DOMAIN samples = 1 .. RUNS
    BY ColumnType
  <2>2. PICK sound : sound = {j \in 1 .. RUNS : samples[j].sound}
    OBVIOUS
  <2>3. sound \in SUBSET (1 .. RUNS) /\ 2 * Cardinality((1 .. RUNS) \ sound) < RUNS
    <3>1. {k \in DOMAIN samples : ~ samples[k].sound} = (1 .. RUNS) \ sound
      BY <2>1, <2>2
    <3> QED BY <2>2, <3>1
  <2>4. PICK c : c = Column(field)
    OBVIOUS
  <2>5. Numbers(c, RUNS) /\ SortedColumn(field) = Ascending(c)
    BY <2>4, ColumnType
  <2>6. \A k \in 1 .. RUNS : c[k] = samples[k][field]
    BY <2>4, ColumnType
  <2>7. PICK m : m = Median(Ascending(c))
    OBVIOUS
  <2>8. /\ \E j \in 1 .. RUNS : m = c[j]
        /\ 2 * Cardinality({j \in 1 .. RUNS : c[j] < m}) < RUNS
        /\ 2 * Cardinality({j \in 1 .. RUNS : c[j] > m}) < RUNS
    BY <2>5, <2>7, MedianSplits
  <2>9. m \in Int /\ (field = "cpu_percent" => m \in Nat)
    <3>1. \A k \in 1 .. RUNS : c[k] \in Int
      BY <2>5 DEF Numbers
    <3>2. field = "cpu_percent" => \A k \in 1 .. RUNS : samples[k][field] \in Nat
      BY ColumnType
    <3> QED BY <2>6, <2>8, <3>1, <3>2
  <2>10. (IF result[field] = NotAvailable /\ field = "cpu_percent" THEN 0 ELSE result[field]) = m
    <3>1. CASE field = "cpu_percent"
      <4>1. m = Median(SortedColumn("cpu_percent"))
        BY <2>5, <2>7, <3>1
      <4>2. result["cpu_percent"] = IF m > 0 THEN m ELSE NotAvailable
        BY <4>1 DEF RowInv
      <4> QED BY <2>9, <3>1, <4>2 DEF NotAvailable
    <3>2. CASE field = "working_set_delta"
      <4>1. m = Median(SortedColumn("working_set_delta"))
        BY <2>5, <2>7, <3>2
      <4>2. result["working_set_delta"] = m
        BY <4>1 DEF RowInv
      <4> QED BY <3>2, <4>2
    <3> QED BY <3>1, <3>2
  <2>11. PICK low \in sound : low \notin {j \in 1 .. RUNS : c[j] > m}
    BY <2>3, <2>8, Outvoted
  <2>12. PICK high \in sound : high \notin {j \in 1 .. RUNS : c[j] < m}
    BY <2>3, <2>8, Outvoted
  <2>13. samples[low][field] <= m /\ m <= samples[high][field]
    <3>1. low \in 1 .. RUNS /\ high \in 1 .. RUNS
      BY <2>2
    <3>2. c[low] \in Int /\ c[high] \in Int
      BY <2>5, <3>1 DEF Numbers
    <3>3. ~ (c[low] > m) /\ ~ (c[high] < m)
      BY <2>11, <2>12, <3>1
    <3> QED BY <2>6, <2>9, <3>1, <3>2, <3>3
  <2>14. /\ low \in {j \in DOMAIN samples : samples[j].sound}
         /\ high \in {j \in DOMAIN samples : samples[j].sound}
    BY <2>1, <2>2
  <2> QED BY <2>10, <2>13, <2>14
<1> QED
  BY <1>1, WarmInvStarts, WarmInvKept, RowInvStarts, RowInvKept, PTL DEF Spec

-------------------------------------------------------------------------------
(* Printing: rounded, each in a unit of its own, amounts keep their order. *)

\* A unit that shows something of itself.
Scaled(unit) ==
    unit.worth \in Nat \ {0} /\ unit.divisor = unit.worth /\ unit.parts \in Nat \ {0}

LEMMA DivisionRest ==
    ASSUME NEW n \in Nat, NEW d \in Nat \ {0}
    PROVE  n % d = n - d * (n \div d)
  BY Z3

\* Either way an amount is rounded, it is shown as its quotient or the next.
LEMMA FiguresAre ==
    ASSUME NEW amount \in Nat, NEW unit, Scaled(unit), NEW n \in Figures(amount, unit),
           NEW whole, whole = (amount * unit.parts) \div unit.worth,
           NEW rest, rest = (amount * unit.parts) % unit.worth
    PROVE  /\ whole \in Nat /\ n \in Nat /\ rest \in 0 .. unit.worth - 1
           /\ amount * unit.parts = unit.worth * whole + rest
           /\ \/ n = whole /\ 2 * rest <= unit.worth
              \/ n = whole + 1 /\ 2 * rest >= unit.worth
<1>1. PICK scaled, d : scaled = amount * unit.parts /\ d = unit.worth
  OBVIOUS
<1>2. scaled \in Nat /\ d \in Nat \ {0} /\ unit.divisor = d
  BY <1>1 DEF Scaled
<1>3. whole = scaled \div d /\ rest = scaled % d
  BY <1>1
<1>4. whole \in Nat /\ rest \in 0 .. d - 1 /\ scaled = d * whole + rest
  <2>1. whole \in Nat /\ d * whole <= scaled /\ scaled < d * whole + d
    BY <1>2, <1>3, Quotient
  <2>2. rest = scaled - d * whole
    BY <1>2, <1>3, DivisionRest
  <2>3. PICK x : x = d * whole /\ x \in Nat
    BY <1>2, <2>1
  <2> QED BY <1>2, <2>1, <2>2, <2>3
<1>5. n \in {whole, whole + 1}
      /\ IF n = whole THEN 2 * rest <= d ELSE 2 * rest >= d
  BY <1>1, <1>2, <1>3 DEF Figures
<1> QED BY <1>1, <1>4, <1>5

\* In one unit the larger amount is not shown as less.
LEMMA SameUnit ==
    ASSUME NEW less \in Nat, NEW more \in Nat, less < more, NEW unit, Scaled(unit),
           NEW n \in Figures(less, unit), NEW m \in Figures(more, unit)
    PROVE  n <= m
<1>1. PICK a, b, d : a = less * unit.parts /\ b = more * unit.parts /\ d = unit.worth
  OBVIOUS
<1>2. a \in Nat /\ b \in Nat /\ a < b /\ d \in Nat \ {0}
  <2>1. PICK p : p = unit.parts /\ p \in Nat \ {0}
    BY DEF Scaled
  <2>2. more * p = less * p + (more - less) * p /\ (more - less) * p >= 1
    BY <2>1, Z3
  <2>3. less * p \in Nat /\ more * p \in Nat
    BY <2>1
  <2> QED BY <1>1, <2>1, <2>2, <2>3 DEF Scaled
<1>3. PICK q, r : q = a \div d /\ r = a % d
  OBVIOUS
<1>4. PICK s, t : s = b \div d /\ t = b % d
  OBVIOUS
<1>5. /\ q \in Nat /\ n \in Nat /\ r \in 0 .. d - 1 /\ a = d * q + r
      /\ (n = q /\ 2 * r <= d) \/ (n = q + 1 /\ 2 * r >= d)
  BY <1>1, <1>3, FiguresAre
<1>6. /\ s \in Nat /\ m \in Nat /\ t \in 0 .. d - 1 /\ b = d * s + t
      /\ (m = s /\ 2 * t <= d) \/ (m = s + 1 /\ 2 * t >= d)
  BY <1>1, <1>4, FiguresAre
<1>7. q <= s
  <2>1. d * q \in Nat /\ d * q <= b
    BY <1>2, <1>5
  <2> QED BY <1>2, <1>4, <1>5, <2>1, QuotientAtLeast
<1>8. CASE q < s
  BY <1>5, <1>6, <1>8
<1>9. CASE q = s
  <2>1. PICK whole : whole = d * q /\ whole \in Nat
    BY <1>2, <1>5
  <2>2. r < t
    BY <1>2, <1>5, <1>6, <1>9, <2>1
  <2> QED BY <1>2, <1>5, <1>6, <1>9, <2>2
<1> QED BY <1>5, <1>6, <1>7, <1>8, <1>9

\* What is less than so many of a unit is shown as no more than them.
LEMMA ShownAtMost ==
    ASSUME NEW amount \in Nat, NEW unit, Scaled(unit), NEW k \in Nat \ {0},
           amount < k * unit.worth, NEW n \in Figures(amount, unit)
    PROVE  n \in Nat /\ n <= k * unit.parts
<1>1. PICK a, d, p, q, r : /\ a = amount * unit.parts /\ d = unit.worth /\ p = unit.parts
                           /\ q = a \div d /\ r = a % d
  OBVIOUS
<1>2. d \in Nat \ {0} /\ p \in Nat \ {0}
  BY <1>1 DEF Scaled
<1>3. q \in Nat /\ n \in Nat /\ r \in 0 .. d - 1 /\ a = d * q + r /\ n <= q + 1
  <2>1. /\ q \in Nat /\ n \in Nat /\ r \in 0 .. d - 1 /\ a = d * q + r
        /\ (n = q /\ 2 * r <= d) \/ (n = q + 1 /\ 2 * r >= d)
    BY <1>1, FiguresAre
  <2> QED BY <2>1
<1>4. a < d * (k * p)
  <2>1. amount < k * d
    BY <1>1
  <2>2. (k * d) * p = amount * p + (k * d - amount) * p /\ (k * d - amount) * p >= 1
    BY <1>2, <2>1, Z3
  <2>3. (k * d) * p = d * (k * p) /\ amount * p \in Nat
    BY <1>2, Z3
  <2>4. PICK x, y, z, t : /\ x = amount * p /\ y = (k * d - amount) * p
                         /\ z = (k * d) * p /\ t = d * (k * p)
    OBVIOUS
  <2>5. x \in Nat /\ z = x + y /\ y >= 1 /\ z = t /\ y \in Int /\ z \in Int
    <3>1. y \in Int /\ z \in Int
      BY <1>2, <2>4
    <3> QED BY <2>2, <2>3, <2>4, <3>1
  <2>6. x < t
    BY <2>5
  <2> QED BY <1>1, <2>4, <2>6
<1>5. q < k * p
  <2>1. PICK top : top = k * p /\ top \in Nat
    BY <1>2
  <2>2. CASE top <= q
    <3>1. d * q = d * top + d * (q - top) /\ d * (q - top) >= 0 /\ d * top \in Nat
      BY <1>2, <1>3, <2>1, <2>2, Z3
    <3>2. PICK x, y, z : x = d * q /\ y = d * (q - top) /\ z = d * top
      OBVIOUS
    <3>3. z <= x /\ x \in Nat /\ z \in Nat
      <4>1. y \in Int /\ x \in Nat
        BY <1>2, <1>3, <2>1, <3>2
      <4> QED BY <3>1, <3>2, <4>1
    <3>4. a = x + r /\ a < z
      BY <1>3, <1>4, <2>1, <3>2
    <3> QED BY <1>3, <3>3, <3>4
  <2> QED BY <1>3, <2>1, <2>2
<1>6. k * p \in Nat
  BY <1>2
<1> QED BY <1>1, <1>3, <1>5, <1>6

\* What is one of a unit or more is shown as no less.
LEMMA ShownAtLeast ==
    ASSUME NEW amount \in Nat, NEW unit, Scaled(unit), unit.worth <= amount,
           NEW n \in Figures(amount, unit)
    PROVE  n \in Nat /\ unit.parts <= n
<1>1. PICK a, d, p, q, r : /\ a = amount * unit.parts /\ d = unit.worth /\ p = unit.parts
                           /\ q = a \div d /\ r = a % d
  OBVIOUS
<1>2. d \in Nat \ {0} /\ p \in Nat \ {0}
  BY <1>1 DEF Scaled
<1>3. q \in Nat /\ n \in Nat /\ q <= n
  <2>1. /\ q \in Nat /\ n \in Nat /\ r \in 0 .. d - 1 /\ a = d * q + r
        /\ (n = q /\ 2 * r <= d) \/ (n = q + 1 /\ 2 * r >= d)
    BY <1>1, FiguresAre
  <2> QED BY <2>1
<1>4. d * p <= a /\ a \in Nat
  <2>1. d <= amount
    BY <1>1
  <2>2. amount * p = d * p + (amount - d) * p /\ (amount - d) * p >= 0 /\ d * p \in Nat
    BY <1>2, <2>1, Z3
  <2>3. PICK x, y, z : x = amount * p /\ y = (amount - d) * p /\ z = d * p
    OBVIOUS
  <2>4. x \in Nat /\ y \in Int /\ z \in Nat
    BY <1>2, <2>3
  <2>5. z <= x
    BY <2>2, <2>3, <2>4
  <2> QED BY <1>1, <2>3, <2>4, <2>5
<1>5. p <= q
  BY <1>1, <1>2, <1>4, QuotientAtLeast
<1> QED BY <1>1, <1>2, <1>3, <1>5

-------------------------------------------------------------------------------
LEMMA UnitPlaces ==
    DOMAIN DurationUnits = 1 .. Len(DurationUnits) /\ Len(DurationUnits) \in 1 .. 4
<1>1. DOMAIN DurationUnits = 1 .. Len(DurationParts) /\ Len(DurationParts) \in 1 .. 4
  BY BenchAssumption DEF DurationUnits, Units
<1>2. PICK units : units = {DurationUnits[v] : v \in 1 .. Len(DurationParts)}
  OBVIOUS
<1>3. DurationUnits = [v \in 1 .. Len(DurationParts) |-> DurationUnits[v]]
  BY <1>1 DEF DurationUnits, Units
<1>4. DurationUnits \in [1 .. Len(DurationParts) -> units]
  BY <1>2, <1>3
<1>5. Len(DurationUnits) = Len(DurationParts)
  BY <1>1, <1>4
<1> QED BY <1>1, <1>5

\* The units of a base: each is worth so many of the one before.
LEMMA UnitsScaled ==
    ASSUME NEW u \in DOMAIN DurationUnits
    PROVE  /\ Scaled(DurationUnits[u])
           /\ DurationUnits[u].below = DurationBase * DurationUnits[u].worth
           /\ DurationUnits[u].worth = Worths(DurationBase)[u]
           /\ u \in 1 .. Len(DurationUnits) /\ Len(DurationUnits) \in 1 .. 4
<1>1. /\ DurationBase \in Nat \ {0} /\ DurationParts \in Seq(Nat \ {0})
      /\ Len(DurationParts) \in 1 .. 4
  BY BenchAssumption
<1>2. DOMAIN DurationParts = 1 .. Len(DurationParts)
  BY <1>1
<1>3. DOMAIN DurationUnits = 1 .. Len(DurationParts)
  BY <1>2 DEF DurationUnits, Units
<1>4. 1 .. Len(DurationUnits) = 1 .. Len(DurationParts) /\ Len(DurationUnits) \in 1 .. 4
  BY <1>3, UnitPlaces
<1>5. u \in {1, 2, 3, 4}
  <2>1. u \in 1 .. Len(DurationParts)
    BY <1>3
  <2>2. PICK n : n = Len(DurationParts)
    OBVIOUS
  <2>3. n \in {1, 2, 3, 4} /\ u \in 1 .. n
    BY <1>1, <2>1, <2>2
  <2> QED BY <2>3
<1>6. PICK w : w = Worths(DurationBase)[u]
  OBVIOUS
<1>7. w \in Nat \ {0}
  BY <1>1, <1>5, <1>6, Z3 DEF Worths
<1>8. DurationUnits[u] = [worth |-> w, divisor |-> w, below |-> DurationBase * w,
                          parts |-> DurationParts[u]]
  BY <1>2, <1>3, <1>6 DEF DurationUnits, Units, Unit
<1>9. DurationParts[u] \in Nat \ {0}
  BY <1>1, <1>2, <1>3
<1>10. Scaled(DurationUnits[u])
  BY <1>7, <1>8, <1>9 DEF Scaled
<1>11. u \in 1 .. Len(DurationUnits)
  BY <1>3, <1>4
<1> QED BY <1>4, <1>6, <1>8, <1>10, <1>11

LEMMA WorthsGrow ==
    ASSUME NEW u \in DOMAIN DurationUnits, NEW v \in DOMAIN DurationUnits, u < v
    PROVE  DurationUnits[u].below <= DurationUnits[v].worth
<1>1. PICK b : b = DurationBase /\ b \in Nat \ {0}
  BY BenchAssumption
<1>2. /\ DurationUnits[u].below = b * Worths(b)[u] /\ DurationUnits[v].worth = Worths(b)[v]
      /\ u \in 1 .. 4 /\ v \in 1 .. 4
  <2>1. /\ DurationUnits[u].below = b * Worths(b)[u] /\ u \in 1 .. Len(DurationUnits)
        /\ Len(DurationUnits) \in 1 .. 4
    BY <1>1, UnitsScaled
  <2>2. DurationUnits[v].worth = Worths(b)[v] /\ v \in 1 .. Len(DurationUnits)
    BY <1>1, UnitsScaled
  <2> QED BY <2>1, <2>2
<1>3. PICK c, d : c = b * b /\ d = b * b * b
  OBVIOUS
<1>4. /\ c \in Nat /\ d \in Nat /\ b <= c /\ c <= d
      /\ b * 1 = b /\ b * b = c /\ b * c = d
  BY <1>1, <1>3, Z3
<1>5. Worths(b) = <<1, b, c, d>>
  BY <1>3 DEF Worths
<1>6. u \in {1, 2, 3} /\ v \in {2, 3, 4}
  BY <1>2
<1>7. \/ u = 1 /\ v \in {2, 3, 4}
      \/ u = 2 /\ v \in {3, 4}
      \/ u = 3 /\ v = 4
  BY <1>6
<1>8. CASE u = 1
  <2>1. Worths(b)[u] = 1 /\ Worths(b)[v] \in {b, c, d}
    BY <1>5, <1>7, <1>8
  <2> QED BY <1>1, <1>2, <1>4, <2>1
<1>9. CASE u = 2
  <2>1. Worths(b)[u] = b /\ Worths(b)[v] \in {c, d}
    BY <1>5, <1>7, <1>9
  <2> QED BY <1>1, <1>2, <1>4, <2>1
<1>10. CASE u = 3
  <2>1. Worths(b)[u] = c /\ Worths(b)[v] = d
    BY <1>5, <1>7, <1>10
  <2> QED BY <1>1, <1>2, <1>4, <2>1
<1> QED BY <1>7, <1>8, <1>9, <1>10

LEMMA NextUnit ==
    ASSUME NEW u \in DOMAIN DurationUnits, u + 1 \in DOMAIN DurationUnits
    PROVE  DurationUnits[u].below = DurationUnits[u + 1].worth
<1>1. PICK b : b = DurationBase /\ b \in Nat \ {0}
  BY BenchAssumption
<1>2. /\ DurationUnits[u].below = b * Worths(b)[u] /\ DurationUnits[u + 1].worth = Worths(b)[u + 1]
      /\ u \in 1 .. 4 /\ u + 1 \in 1 .. 4
  <2>1. /\ DurationUnits[u].below = b * Worths(b)[u] /\ u \in 1 .. Len(DurationUnits)
        /\ Len(DurationUnits) \in 1 .. 4
    BY <1>1, UnitsScaled
  <2>2. DurationUnits[u + 1].worth = Worths(b)[u + 1] /\ u + 1 \in 1 .. Len(DurationUnits)
    BY <1>1, UnitsScaled
  <2> QED BY <2>1, <2>2
<1>3. PICK c, d : c = b * b /\ d = b * b * b
  OBVIOUS
<1>4. c \in Nat /\ d \in Nat /\ b * 1 = b /\ b * b = c /\ b * c = d
  BY <1>1, <1>3, Z3
<1>5. Worths(b) = <<1, b, c, d>>
  BY <1>3 DEF Worths
<1>6. u \in {1, 2, 3}
  BY <1>2
<1> QED BY <1>1, <1>2, <1>4, <1>5, <1>6

\* The unit an amount is shown in is the first it is below the end of.
Shows(u, amount) ==
    /\ u \in DOMAIN DurationUnits
    /\ \A v \in DOMAIN DurationUnits : v < u => DurationUnits[v].below <= amount
    /\ u = Len(DurationUnits) \/ amount < DurationUnits[u].below

LEMMA UnitChosen ==
    ASSUME NEW amount \in Nat
    PROVE  \E u : Shows(u, amount) /\ UnitOf(amount, DurationUnits) = DurationUnits[u]
<1>1. PICK last : last = Len(DurationUnits)
  OBVIOUS
<1>2. DOMAIN DurationUnits = 1 .. last /\ last \in 1 .. 4
  BY <1>1, UnitPlaces
<1>3. \A v \in 1 .. last : DurationUnits[v].below \in Nat
  <2>1. SUFFICES ASSUME NEW v \in 1 .. last
                 PROVE  DurationUnits[v].below \in Nat
    OBVIOUS
  <2>2. /\ Scaled(DurationUnits[v])
        /\ DurationUnits[v].below = DurationBase * DurationUnits[v].worth
    BY <1>2, UnitsScaled
  <2>3. DurationBase \in Nat /\ DurationUnits[v].worth \in Nat
    BY <2>2, BenchAssumption DEF Scaled
  <2> QED BY <2>2, <2>3
<1>4. PICK fit : fit = {v \in DOMAIN DurationUnits : amount < DurationUnits[v].below} \cup {last}
  OBVIOUS
<1>5. fit \in SUBSET Nat /\ fit # {} /\ fit \subseteq 1 .. last
  BY <1>2, <1>4
<1>6. \E u \in fit : \A v \in fit : u <= v
  BY <1>5, LeastNatural
<1>7. PICK u : u = CHOOSE x \in fit : \A v \in fit : x <= v
  OBVIOUS
<1>8. u \in fit /\ \A v \in fit : u <= v
  BY <1>6, <1>7
<1>9. UnitOf(amount, DurationUnits) = DurationUnits[u]
  BY <1>1, <1>4, <1>7 DEF UnitOf
<1>10. \A v \in DOMAIN DurationUnits : v < u => DurationUnits[v].below <= amount
  <2>1. SUFFICES ASSUME NEW v \in 1 .. last, v < u
                 PROVE  DurationUnits[v].below <= amount
    BY <1>2
  <2>2. v \notin fit
    BY <1>5, <1>8, <2>1
  <2>3. ~ (amount < DurationUnits[v].below)
    BY <1>2, <1>4, <2>2
  <2> QED BY <1>3, <2>3
<1>11. u \in DOMAIN DurationUnits /\ (u = last \/ amount < DurationUnits[u].below)
  BY <1>2, <1>4, <1>8
<1> QED BY <1>1, <1>9, <1>10, <1>11 DEF Shows

LEMMA PrintsInOrder ==
    ASSUME NEW less \in Nat, NEW more \in Nat, less < more
    PROVE  ShownNotAbove(less, more, DurationUnits)
<1>1. PICK u : Shows(u, less) /\ UnitOf(less, DurationUnits) = DurationUnits[u]
  BY UnitChosen
<1>2. PICK v : Shows(v, more) /\ UnitOf(more, DurationUnits) = DurationUnits[v]
  BY UnitChosen
<1>3. PICK lower, upper : lower = DurationUnits[u] /\ upper = DurationUnits[v]
  OBVIOUS
<1>4. /\ u \in DOMAIN DurationUnits /\ u \in 1 .. Len(DurationUnits)
      /\ Len(DurationUnits) \in 1 .. 4 /\ Scaled(lower)
      /\ lower.below = DurationBase * lower.worth
  BY <1>1, <1>3, UnitsScaled DEF Shows
<1>5. v \in DOMAIN DurationUnits /\ v \in 1 .. Len(DurationUnits) /\ Scaled(upper)
      /\ upper.below = DurationBase * upper.worth
  BY <1>2, <1>3, UnitsScaled DEF Shows
<1>6. lower.below \in Nat /\ upper.below \in Nat /\ DurationBase \in Nat \ {0}
  <2>1. lower.worth \in Nat /\ upper.worth \in Nat /\ DurationBase \in Nat \ {0}
    BY <1>4, <1>5, BenchAssumption DEF Scaled
  <2> QED BY <1>4, <1>5, <2>1
<1>7. u <= v
  <2>1. SUFFICES ASSUME v < u
                 PROVE  FALSE
    BY <1>4, <1>5
  <2>2. upper.below <= less
    BY <1>1, <1>3, <1>5, <2>1 DEF Shows
  <2>3. v # Len(DurationUnits)
    BY <1>4, <1>5, <2>1
  <2>4. more < upper.below
    BY <1>2, <1>3, <2>3 DEF Shows
  <2> QED BY <1>6, <2>2, <2>4
<1>8. ASSUME NEW n \in Figures(less, lower), NEW m \in Figures(more, upper)
      PROVE  n * lower.worth * upper.parts <= m * upper.worth * lower.parts
  <2>1. PICK a, b, p, q : /\ a = lower.worth /\ b = upper.worth
                          /\ p = lower.parts /\ q = upper.parts
    OBVIOUS
  <2>2. a \in Nat \ {0} /\ b \in Nat \ {0} /\ p \in Nat \ {0} /\ q \in Nat \ {0}
    BY <1>4, <1>5, <2>1 DEF Scaled
  <2>3. CASE u = v
    <3>1. n <= m
      BY <1>3, <1>4, <2>3, SameUnit
    <3>2. n \in Nat /\ m \in Nat
      <4>1. n \in Nat
        <5>1. PICK whole, rest : /\ whole = (less * lower.parts) \div lower.worth
                                 /\ rest = (less * lower.parts) % lower.worth
          OBVIOUS
        <5> QED BY <1>4, <5>1, FiguresAre
      <4>2. m \in Nat
        <5>1. PICK whole, rest : /\ whole = (more * upper.parts) \div upper.worth
                                 /\ rest = (more * upper.parts) % upper.worth
          OBVIOUS
        <5> QED BY <1>5, <5>1, FiguresAre
      <4> QED BY <4>1, <4>2
    <3>3. a = b /\ p = q
      BY <1>3, <2>1, <2>3
    <3>4. m * a * p = n * a * p + (m - n) * a * p /\ (m - n) * a * p >= 0
      BY <2>2, <3>1, <3>2, Z3
    <3>5. n * a * p \in Nat /\ m * a * p \in Nat
      BY <2>2, <3>2, Z3
    <3>6. n * a * p <= m * a * p
      BY <2>2, <3>2, <3>4, <3>5
    <3> QED BY <2>1, <3>3, <3>6
  <2>4. CASE u < v
    <3>1. PICK k : k = DurationBase
      OBVIOUS
    <3>2. less < k * a /\ k * a <= b /\ k \in Nat \ {0}
      <4>1. u # Len(DurationUnits)
        BY <1>4, <1>5, <2>4
      <4>2. less < lower.below
        BY <1>1, <1>3, <4>1 DEF Shows
      <4>3. lower.below <= upper.worth
        BY <1>3, <1>4, <1>5, <2>4, WorthsGrow
      <4> QED BY <1>4, <1>6, <2>1, <3>1, <4>2, <4>3
    <3>3. b <= more
      <4>1. PICK w : w = v - 1
        OBVIOUS
      <4>2. w + 1 = v /\ w < v /\ w \in DOMAIN DurationUnits
        <5>1. w \in u .. Len(DurationUnits) /\ w + 1 = v /\ w < v
          BY <1>4, <1>5, <2>4, <4>1
        <5>2. DOMAIN DurationUnits = 1 .. Len(DurationUnits)
          BY <1>4, UnitPlaces
        <5> QED BY <1>4, <5>1, <5>2
      <4>3. DurationUnits[w].below <= more
        BY <1>2, <4>2 DEF Shows
      <4>4. DurationUnits[w].below = upper.worth
        BY <1>3, <1>5, <4>2, NextUnit
      <4> QED BY <2>1, <4>3, <4>4
    <3>4. n \in Nat /\ n <= k * p
      BY <1>4, <2>1, <3>2, ShownAtMost
    <3>5. m \in Nat /\ q <= m
      BY <1>5, <2>1, <3>3, ShownAtLeast
    <3>6. n * a * q <= (k * p) * a * q
      <4>1. k * p \in Nat /\ k * p - n \in Nat
        BY <2>2, <3>2, <3>4
      <4>2. (k * p) * a * q = n * a * q + (k * p - n) * a * q /\ (k * p - n) * a * q >= 0
        BY <2>2, <3>2, <3>4, <4>1, Z3
      <4>3. n * a * q \in Nat /\ (k * p) * a * q \in Nat
        BY <2>2, <3>4, <4>1
      <4> QED BY <2>2, <3>2, <3>4, <4>1, <4>2, <4>3
    <3>7. (k * p) * a * q <= q * b * p
      <4>1. PICK end : end = k * a /\ end \in Nat /\ b - end \in Nat
        BY <2>2, <3>2
      <4>2. (k * p) * a * q = q * end * p
        BY <2>2, <3>2, <4>1, Z3
      <4>3. q * b * p = q * end * p + q * (b - end) * p /\ q * (b - end) * p >= 0
        BY <2>2, <4>1, Z3
      <4>4. q * b * p \in Nat /\ q * end * p \in Nat
        BY <2>2, <4>1
      <4>5. PICK x, y, z : x = q * b * p /\ y = q * end * p /\ z = q * (b - end) * p
        OBVIOUS
      <4>6. x \in Nat /\ y \in Nat /\ z \in Int
        BY <2>2, <4>1, <4>4, <4>5
      <4>7. y <= x
        BY <4>3, <4>5, <4>6
      <4> QED BY <4>2, <4>5, <4>7
    <3>8. q * b * p <= m * b * p
      <4>1. m * b * p = q * b * p + (m - q) * b * p /\ (m - q) * b * p >= 0
        BY <2>2, <3>5, Z3
      <4>2. m * b * p \in Nat /\ q * b * p \in Nat
        BY <2>2, <3>5
      <4> QED BY <2>2, <3>5, <4>1, <4>2
    <3>9. PICK x, y, z, t : x = n * a * q /\ y = (k * p) * a * q /\ z = q * b * p /\ t = m * b * p
      OBVIOUS
    <3>10. x \in Int /\ y \in Int /\ z \in Int /\ t \in Int
      BY <2>2, <3>2, <3>4, <3>5, <3>9, Z3
    <3>11. x <= t
      BY <3>6, <3>7, <3>8, <3>9, <3>10
    <3> QED BY <2>1, <3>9, <3>11
  <2> QED BY <1>4, <1>5, <1>7, <2>3, <2>4
<1> QED BY <1>1, <1>2, <1>3, <1>8 DEF ShownNotAbove

\* The median of a column lies between its ends.
LEMMA MiddleBetween ==
    ASSUME WarmInv, RowInv, Reported
    PROVE  result.min \in Nat /\ result.median \in Nat /\ result.max \in Nat
<1>1. PICK c : c = Column("elapsed")
  OBVIOUS
<1>2. Numbers(c, RUNS) /\ SortedColumn("elapsed") = Ascending(c)
  BY <1>1, ColumnType
<1>3. \A k \in 1 .. RUNS : c[k] \in Nat
  BY <1>1, ColumnType
<1>4. RUNS \in Nat /\ 1 \in 1 .. RUNS /\ RUNS \in 1 .. RUNS
  BY BenchAssumption
<1>5. \A k \in 1 .. RUNS : Ascending(c)[k] \in Nat
  <2>1. SUFFICES ASSUME NEW k \in 1 .. RUNS
                 PROVE  Ascending(c)[k] \in Nat
    OBVIOUS
  <2>2. RUNS \in Nat /\ Numbers(c, RUNS)
    BY <1>2, <1>4
  <2>3. /\ \E j \in 1 .. RUNS : Ascending(c)[k] = c[j]
        /\ Cardinality({j \in 1 .. RUNS : c[j] < Ascending(c)[k]}) < k
        /\ Cardinality({j \in 1 .. RUNS : c[j] > Ascending(c)[k]}) <= RUNS - k
    BY <2>2, AscendingSplits
  <2> QED BY <1>3, <2>3
<1>6. Median(Ascending(c)) \in Nat
  <2>1. \E j \in 1 .. RUNS : Median(Ascending(c)) = c[j]
    BY <1>2, MedianSplits
  <2> QED BY <1>3, <2>1
<1> QED BY <1>2, <1>4, <1>5, <1>6 DEF RowInv

\* Minimum, median and maximum are printed each in a unit of its own and rounded
\* there; at no end of a unit is the smaller one printed as the larger.
THEOREM RowsPrintInOrder == Spec => []PrintedInOrder
<1>1. WarmInv /\ RowInv => PrintedInOrder
  BY MiddleBetween, PrintsInOrder DEF PrintedInOrder
<1> QED
  BY <1>1, WarmInvStarts, WarmInvKept, RowInvStarts, RowInvKept, PTL DEF Spec

-------------------------------------------------------------------------------
(* The searches of Comparison: what a pass takes lies between what its     *)
(* lookups can, and both averages keep it there.                           *)

\* An amount that so many parts between two values make up.
Between(amount, parts) ==
    amount \in Nat /\ parts * Fastest <= amount /\ amount <= parts * Slowest

LEMMA Averaged ==
    ASSUME NEW n \in Nat, NEW d \in Nat \ {0}, NEW low \in Nat, NEW high \in Nat,
           d * low <= n, n <= d * high
    PROVE  n \div d \in low .. high
<1> DEFINE r == n \div d
<1>1. r \in Nat /\ d * r <= n
  BY Quotient
<1>2. low <= r
  BY QuotientAtLeast
<1> HIDE DEF r
<1>3. CASE high < r
  <2>1. high + 1 <= r /\ r - (high + 1) \in Nat
    BY <1>1, <1>3
  <2>2. d * r = d * (high + 1) + d * (r - (high + 1))
    BY <1>1, <2>1, Z3
  <2>3. d * (high + 1) = d * high + d /\ d * (r - (high + 1)) >= 0 /\ d * high \in Nat
    BY <1>1, <2>1, Z3
  <2> QED BY <1>1, <2>2, <2>3
<1>4. CASE r <= high
  <2>1. r \in low .. high
    BY <1>1, <1>2, <1>4
  <2> QED BY <2>1 DEF r
<1> QED BY <1>1, <1>3, <1>4

\* What is averaged over its parts lies between the two values.
LEMMA PartsAveraged ==
    ASSUME NEW amount, NEW parts \in Nat \ {0}, Between(amount, parts)
    PROVE  amount \div parts \in Fastest .. Slowest
  BY Averaged, ComparisonAssumption DEF Between

\* What k passes took, averaged over them.
LEMMA PassesAveraged ==
    ASSUME NEW amount, NEW k \in Nat \ {0}, NEW parts \in Nat, Between(amount, k * parts)
    PROVE  Between(amount \div k, parts)
<1>1. Fastest \in Nat /\ Slowest \in Nat
  BY ComparisonAssumption
<1>2. parts * Fastest \in Nat /\ parts * Slowest \in Nat
  BY <1>1
<1>3. k * (parts * Fastest) = (k * parts) * Fastest /\ k * (parts * Slowest) = (k * parts) * Slowest
  BY <1>1, Z3
<1>4. PICK low, high : low = parts * Fastest /\ high = parts * Slowest
  OBVIOUS
<1>5. amount \in Nat /\ k * low <= amount /\ amount <= k * high
  BY <1>3, <1>4 DEF Between
<1>6. amount \div k \in low .. high
  BY <1>2, <1>4, <1>5, Averaged
<1>7. amount \div k \in Nat /\ low <= amount \div k /\ amount \div k <= high
  BY <1>2, <1>4, <1>6
<1> QED BY <1>4, <1>7 DEF Between

LEMMA BetweenAdds ==
    ASSUME NEW a, NEW b, NEW m \in Nat, NEW n \in Nat, Between(a, m), Between(b, n)
    PROVE  Between(a + b, m + n)
<1>1. Fastest \in Nat /\ Slowest \in Nat
  BY ComparisonAssumption
<1>2. (m + n) * Fastest = m * Fastest + n * Fastest /\ (m + n) * Slowest = m * Slowest + n * Slowest
  BY <1>1, Z3
<1>3. /\ m * Fastest \in Nat /\ n * Fastest \in Nat
      /\ m * Slowest \in Nat /\ n * Slowest \in Nat
  BY <1>1
<1> QED BY <1>2, <1>3 DEF Between

LEMMA BetweenNone == Between(0, 0)
  BY ComparisonAssumption DEF Between

LEMMA BetweenOne ==
    ASSUME NEW ticks \in Fastest .. Slowest
    PROVE  Between(ticks, 1)
  BY ComparisonAssumption DEF Between

\* There is a target, and no fewer lookups than the limit if the data allows.
LEMMA TargetsExist ==
    ASSUME NEW n \in Nat \ {0}, NEW limit \in Nat \ {0}
    PROVE  TargetCount(n, limit) \in Nat \ {0} /\ (limit <= n => TargetCount(n, limit) = limit)
<1>1. CASE limit <= n
  BY <1>1, TargetsFill
<1>2. CASE n < limit
  <2>1. Step(n, limit) = 1
    BY <1>2 DEF Step
  <2>2. (n + 1 - 1) \div 1 = n
    OBVIOUS
  <2> QED BY <1>2, <2>1, <2>2 DEF TargetCount
<1> QED BY <1>1, <1>2

\* The cold pass and the hot ones before this one were all the lookups of this
\* search, and the reports before were in range.
SearchInv ==
    /\ size \in Nat \ {0} /\ search \in 1 .. 7 /\ round \in 0 .. HOT_ROUNDS /\ made \in Nat
    /\ Between(elapsed, made)
    /\ round = 0 => total = 0
    /\ search = 7 => round = 0
    /\ Running /\ round # 0 => Between(cold, Lookups) /\ Between(total, (round - 1) * Lookups)
    /\ PerLookupInRange

LEMMA SearchesLength == Len(Searches) = 6
  BY DEF Searches

\* The sizes and what follows from them, while there is a search to run.
LEMMA RunningFacts ==
    ASSUME SearchInv, Running
    PROVE  /\ search \in 1 .. 6 /\ Searches[search] \in {"hit", "miss"}
           /\ SIZES[size] \in Nat \ {0}
           /\ Iters \in Nat \ {0} /\ Lookups \in Nat \ {0}
           /\ Searches[search] = "hit" \/ SIZES[size] >= SEARCH_ITERS => Lookups = Iters
<1>1. search \in 1 .. 6
  BY SearchesLength DEF SearchInv, Running
<1>2. Searches[search] \in {"hit", "miss"}
  BY <1>1 DEF Searches
<1>3. SIZES[size] \in Nat \ {0}
  <2>1. size \in 1 .. Len(SIZES)
    BY ComparisonAssumption DEF SearchInv, Running
  <2> QED BY <2>1, ComparisonAssumption
<1>4. SEARCH_ITERS \in Nat \ {0}
  BY ComparisonAssumption
<1>5. Iters \in Nat \ {0} /\ (SEARCH_ITERS <= SIZES[size] => Iters = SEARCH_ITERS)
  BY <1>3, <1>4, TargetsExist DEF Iters
<1>6. Lookups \in Nat \ {0}
  BY <1>4, <1>5 DEF Lookups
<1>7. Searches[search] = "hit" \/ SIZES[size] >= SEARCH_ITERS => Lookups = Iters
  BY <1>3, <1>4, <1>5 DEF Lookups
<1> QED BY <1>1, <1>2, <1>3, <1>5, <1>6, <1>7

LEMMA SearchInvStarts == SearchInit => SearchInv
<1> SUFFICES ASSUME SearchInit PROVE SearchInv
  OBVIOUS
<1>1. SEARCH_ITERS \in Nat \ {0} /\ HOT_ROUNDS \in Nat \ {0}
  BY ComparisonAssumption
<1>2. PerLookupInRange
  BY <1>1 DEF SearchInit, NoReport, PerLookupInRange
<1> QED BY <1>1, <1>2, BetweenNone DEF SearchInit, SearchInv

LEMMA SearchInvKept == SearchInv /\ [SearchNext]_search_vars => SearchInv'
<1> SUFFICES ASSUME SearchInv, [SearchNext]_search_vars PROVE SearchInv'
  OBVIOUS
<1>0. HOT_ROUNDS \in Nat \ {0}
  BY ComparisonAssumption
<1>1. CASE Lookup
  <2>1. PICK ticks \in Fastest .. Slowest : elapsed' = elapsed + ticks
    BY <1>1 DEF Lookup
  <2>2. Between(elapsed', made + 1)
    BY <2>1, BetweenOne, BetweenAdds DEF SearchInv
  <2>3. /\ made' = made + 1
        /\ UNCHANGED <<size, search, round, total, cold, per_lookup>>
    BY <1>1 DEF Lookup
  <2> QED BY <2>2, <2>3 DEF SearchInv, Running, Lookups, Iters, PerLookupInRange
<1>2. CASE ColdDone
  <2>1. /\ Running /\ made = Lookups /\ made' = 0 /\ elapsed' = 0 /\ round = 0
        /\ cold' = elapsed /\ round' = 1
        /\ UNCHANGED <<size, search, total, per_lookup>>
    BY <1>2 DEF ColdDone, PassDone, NextPass
  <2>2. search \in 1 .. 6 /\ Lookups \in Nat \ {0}
    BY <2>1, RunningFacts
  <2>3. Lookups' = Lookups
    BY <2>1 DEF Lookups, Iters
  <2>4. Between(cold', Lookups') /\ Between(elapsed', made')
    BY <2>1, <2>3, BetweenNone DEF SearchInv
  <2>5. Between(total', (round' - 1) * Lookups')
    <3>1. (round' - 1) * Lookups' = 0
      BY <2>1, <2>2, <2>3
    <3> QED BY <2>1, <3>1, BetweenNone DEF SearchInv
  <2> QED BY <1>0, <2>1, <2>2, <2>4, <2>5 DEF SearchInv, PerLookupInRange
<1>3. CASE HotDone
  <2>1. /\ Running /\ made = Lookups /\ made' = 0 /\ elapsed' = 0
        /\ round \in 1 .. HOT_ROUNDS - 1
        /\ total' = total + elapsed /\ round' = round + 1
        /\ UNCHANGED <<size, search, cold, per_lookup>>
    BY <1>3 DEF HotDone, PassDone, NextPass
  <2>2. search \in 1 .. 6 /\ Lookups \in Nat \ {0}
    BY <2>1, RunningFacts
  <2>3. Lookups' = Lookups
    BY <2>1 DEF Lookups, Iters
  <2>4. Between(total', (round' - 1) * Lookups')
    <3>1. PICK n : n = (round - 1) * Lookups
      OBVIOUS
    <3>2. n \in Nat /\ (round' - 1) * Lookups = n + Lookups
      BY <1>0, <2>1, <2>2, <3>1, Z3
    <3>3. Between(total, n) /\ Between(elapsed, Lookups)
      BY <2>1, <3>1 DEF SearchInv
    <3>4. Between(total + elapsed, n + Lookups)
      BY <2>2, <3>2, <3>3, BetweenAdds
    <3> QED BY <2>1, <2>3, <3>2, <3>4
  <2>5. Between(cold', Lookups') /\ Between(elapsed', made')
    BY <2>1, <2>3, BetweenNone DEF SearchInv
  <2>6. round' \in 1 .. HOT_ROUNDS
    BY <1>0, <2>1
  <2> QED BY <1>0, <2>1, <2>2, <2>4, <2>5, <2>6 DEF SearchInv, PerLookupInRange
<1>4. CASE SearchDone
  <2>1. /\ Running /\ made = Lookups /\ made' = 0 /\ elapsed' = 0 /\ round = HOT_ROUNDS
        /\ total' = 0 /\ cold' = 0 /\ round' = 0 /\ search' = search + 1 /\ size' = size
        /\ per_lookup' = [kind |-> Searches[search], n |-> SIZES[size],
                          cold |-> cold \div Iters,
                          hot |-> ((total + elapsed) \div HOT_ROUNDS) \div Iters]
    BY <1>4 DEF SearchDone, PassDone, NextPass
  <2>2. search \in 1 .. 6 /\ Lookups \in Nat \ {0} /\ Iters \in Nat \ {0}
    BY <2>1, RunningFacts
  <2>3. Between(cold, Lookups) /\ Between(total, (HOT_ROUNDS - 1) * Lookups)
        /\ Between(elapsed, Lookups)
    BY <1>0, <2>1 DEF SearchInv
  <2>4. Between((total + elapsed) \div HOT_ROUNDS, Lookups)
    <3>1. PICK n : n = (HOT_ROUNDS - 1) * Lookups
      OBVIOUS
    <3>2. n \in Nat /\ HOT_ROUNDS * Lookups = n + Lookups
      BY <1>0, <2>2, <3>1, Z3
    <3>3. Between(total + elapsed, HOT_ROUNDS * Lookups)
      BY <2>2, <2>3, <3>1, <3>2, BetweenAdds
    <3> QED BY <1>0, <2>2, <3>3, PassesAveraged
  <2>5. ASSUME Lookups = Iters
        PROVE  InRange(per_lookup')
    <3>1. PICK hot : hot = (total + elapsed) \div HOT_ROUNDS
      OBVIOUS
    <3>2. cold \div Iters \in Fastest .. Slowest
      BY <2>2, <2>3, <2>5, PartsAveraged
    <3>3. hot \div Iters \in Fastest .. Slowest
      BY <2>2, <2>4, <2>5, <3>1, PartsAveraged
    <3> QED BY <2>1, <3>1, <3>2, <3>3 DEF InRange
  <2>6. PerLookupInRange'
    <3>1. per_lookup'.kind = Searches[search] /\ per_lookup'.n = SIZES[size]
      BY <2>1
    <3>2. Searches[search] = "hit" \/ SIZES[size] >= SEARCH_ITERS => Lookups = Iters
      BY <2>1, RunningFacts
    <3> QED BY <2>5, <3>1, <3>2 DEF PerLookupInRange
  <2>7. search' \in 1 .. 7 /\ 0 \in 0 .. HOT_ROUNDS
    BY <1>0, <2>1, <2>2
  <2> QED BY <2>1, <2>6, <2>7, BetweenNone DEF SearchInv
<1>5. CASE NextSize
  <2>1. /\ search > 6 /\ size' = size + 1 /\ search' = 1
        /\ UNCHANGED <<round, made, elapsed, total, cold, per_lookup>>
    BY <1>5, SearchesLength DEF NextSize
  <2>2. round = 0
    BY <2>1 DEF SearchInv
  <2> QED BY <2>1, <2>2 DEF SearchInv, PerLookupInRange
<1>6. CASE UNCHANGED search_vars
  BY <1>6 DEF SearchInv, search_vars, Running, Lookups, Iters, PerLookupInRange
<1> QED BY <1>1, <1>2, <1>3, <1>4, <1>5, <1>6 DEF SearchNext

\* A time per lookup is one a lookup may have taken, through the average over the
\* hot passes and the division by the targets, both rounding down: for hits
\* whatever the data, for misses as long as the data has a value for each lookup.
THEOREM TimesInRange == SearchSpec => []PerLookupInRange
<1>1. SearchInv => PerLookupInRange
  BY DEF SearchInv
<1> QED
  BY <1>1, SearchInvStarts, SearchInvKept, PTL DEF SearchSpec

-------------------------------------------------------------------------------
(* The scan of CacheTopology: no read leaves the buffer.                   *)


\* What holds before and after every step: beyond the bounds themselves, that
\* nothing has been read before the scan begins.
ScanInv ==
    /\ stage \in {"ask", "fill", "scan", "record", "returned"}
    /\ header.size \in Nat
    /\ allocated \in Nat /\ length \in Nat /\ offset \in Nat /\ read \in Nat /\ caches \in Nat
    /\ stage \in {"ask", "fill"} => offset = 0 /\ read = 0 /\ caches = 0
    /\ stage \in {"scan", "record"} => length <= allocated /\ offset <= length
    /\ stage = "record" => offset + HEADER <= length
    /\ read <= length /\ (read > 0 => offset <= length /\ length <= allocated)
    /\ caches * (HEADER + CACHE) <= offset

\* One more cache is one more header and relationship.
LEMMA OneMore ==
    ASSUME NEW n \in Nat, NEW m \in Nat
    PROVE  (n + 1) * m = n * m + m
  OBVIOUS

\* No step leaves the invariant.
LEMMA ScanStep == ScanInv /\ [ScanNext]_scan_vars => ScanInv'
<1> SUFFICES ASSUME ScanInv, [ScanNext]_scan_vars PROVE ScanInv'
  OBVIOUS
<1> USE TopologyAssumption
<1>1. CASE Ask
  BY <1>1, SMT DEF ScanInv, Ask
<1>2. CASE AskRefused
  BY <1>2, SMT DEF ScanInv, AskRefused
<1>3. CASE Fill
  BY <1>3, SMT DEF ScanInv, Fill
<1>4. CASE FillRefused
  BY <1>4, SMT DEF ScanInv, FillRefused
<1>5. CASE ReadHeader
  <2>1. header'.size \in Nat
    BY <1>5 DEF ReadHeader, Headers
  <2> QED BY <1>5, <2>1, SMT DEF ScanInv, ReadHeader
<1>6. CASE TakeRecord
  <2>1. /\ WellFormed /\ offset' = offset + header.size
        /\ IF HoldsCache
           THEN read' = offset + HEADER + CACHE /\ caches' = caches + 1
           ELSE UNCHANGED <<read, caches>>
    BY <1>6 DEF TakeRecord
  <2>2. header.size \in Nat /\ header' = header
    BY <1>6 DEF TakeRecord, ScanInv
  <2>3. /\ stage = "record" /\ stage' = "scan"
        /\ length' = length /\ allocated' = allocated
    BY <1>6 DEF TakeRecord
  <2>4. offset' \in Nat /\ offset' <= length /\ read' \in Nat /\ read' <= length
    BY <2>1, <2>2, <2>3, SMT DEF ScanInv, WellFormed, HoldsCache
  <2>5. caches' \in Nat /\ caches' * (HEADER + CACHE) <= offset'
    <3>1. CASE HoldsCache
      <4>1. caches' = caches + 1 /\ header.size >= HEADER + CACHE
        BY <3>1, <2>1 DEF HoldsCache
      <4>2. caches' * (HEADER + CACHE) = caches * (HEADER + CACHE) + (HEADER + CACHE)
        BY <4>1, OneMore DEF ScanInv
      <4> DEFINE taken == caches * (HEADER + CACHE)
      <4>3. taken \in Nat /\ taken <= offset
        BY DEF ScanInv
      <4>4. taken + (HEADER + CACHE) <= offset'
        <5> HIDE DEF taken
        <5> QED BY <4>1, <4>3, <2>1, <2>2, SMT DEF ScanInv
      <4> QED BY <4>1, <4>2, <4>4, SMT DEF ScanInv
    <3>2. CASE ~ HoldsCache
      <4> DEFINE taken == caches * (HEADER + CACHE)
      <4>1. caches' = caches /\ taken \in Nat /\ taken <= offset
        BY <3>2, <2>1 DEF ScanInv
      <4>2. taken <= offset'
        <5> HIDE DEF taken
        <5> QED BY <4>1, <2>1, <2>2, SMT DEF ScanInv
      <4> QED BY <4>1, <4>2 DEF ScanInv
    <3> QED BY <3>1, <3>2
  <2>6. stage' = "scan" /\ allocated' \in Nat /\ length' \in Nat /\ length' <= allocated'
    BY <2>3 DEF ScanInv
  <2>7. offset' <= length' /\ read' <= length'
    BY <2>3, <2>4
  <2>8. header'.size \in Nat /\ stage' # "record" /\ stage' \notin {"ask", "fill"}
    BY <2>2, <2>3
  <2> QED BY <2>4, <2>5, <2>6, <2>7, <2>8, Zenon DEF ScanInv
<1>7. CASE BreakOff
  BY <1>7, SMT DEF ScanInv, BreakOff
<1>8. CASE EndScan
  BY <1>8, SMT DEF ScanInv, EndScan
<1>9. CASE UNCHANGED scan_vars
  BY <1>9, SMT DEF ScanInv, scan_vars
<1> QED
  BY <1>1, <1>2, <1>3, <1>4, <1>5, <1>6, <1>7, <1>8, <1>9 DEF ScanNext

\* No read of the scan leaves the bytes the second call has written, and no two
\* caches share bytes: the claim of the SAFETY comment in `caches`.
THEOREM ReadsStayInBounds == ScanSpec => []ReadsInBounds
<1>1. ScanInit => ScanInv
  BY TopologyAssumption, SMT DEF ScanInit, NoHeader, ScanInv
<1>2. ScanInv => ReadsInBounds
  BY TopologyAssumption, SMT DEF ScanInv, ReadsInBounds
<1> QED
  BY <1>1, <1>2, ScanStep, PTL DEF ScanSpec
================================================================================
