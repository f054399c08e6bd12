------------------------------- MODULE Workloads -------------------------------
(***************************************************************************)
(* The operations the hardware benchmark repeats, on the index and on the  *)
(* containers of the standard library it is compared with.  Some build     *)
(* what they work on in every run; the lookups and sorted_snapshot use     *)
(* what was built before the first.                                        *)
(*                                                                         *)
(* A baseline is a Vec, a sequence, or one of the two sets.  What the      *)
(* binary search of a Vec that is not sorted answers is unspecified.       *)
(***************************************************************************)
EXTENDS Bwspi, Sampling

CONSTANTS Slices,      \* the data
          RUNS,        \* runs of an operation, the one that is not counted included
          LOOKUPS,     \* lookup targets
          UPDATE_STEP  \* one ID in so many is updated or removed

\* data[id] ^ (1 << 63): the highest bit of the word flipped.
Flipped(value) == (value + PowerOfTwo(BITS - 1)) % PowerOfTwo(BITS)

ASSUME WorkloadAssumption ==
    /\ Slices \subseteq Seq(Values) /\ \A s \in Slices : Len(s) \in LOOKUPS .. Capacity
    /\ \A value \in Values : Flipped(value) \in Values
    /\ RUNS \in Nat /\ LOOKUPS \in Nat \ {0} /\ UPDATE_STEP \in Nat \ {0}

VARIABLES slice,    \* the data of this row
          workload, \* the operation being measured
          run,      \* its runs so far
          step,     \* calls made in this run
          found,    \* lookups that succeeded in this run
          baseline  \* the container of a baseline, <<>> before it is built

bench_vars == <<slice, workload, run, step, found, baseline>>
workload_vars == <<vars, bench_vars>>

Empty == [data |-> <<>>, buckets |-> <<>>, bucket_positions |-> <<>>, live_len |-> 0]

\* The index of the data: with_capacity and insert_bulk.
Built == InsertedAll(Empty, slice)

\* Mutant: the copy for the binary search is not sorted.
SortedCopyUnsorted == slice

SortedCopy == Ascending(slice)

\* The containers of the baselines, and which operations are measured on what
\* was built before.
Container == [vec_contains |-> slice, binary_search |-> SortedCopy,
              set_contains |-> Range(slice), set_insert |-> Range(slice),
              vec_push |-> slice, vec_sort |-> slice,
              vec_update |-> slice, vec_tombstone |-> slice]

Searches == {"contains", "vec_contains", "binary_search", "set_contains"}
Prebuilt == Searches \cup {"sorted_snapshot"}
OnIndex == {"insert", "contains", "sorted_snapshot", "build_snapshot", "sarkar_sort",
            "update_at", "remove_at"}

TargetPlaces == Targets(Len(slice), LOOKUPS)

\* (0..data.len()).step_by(UPDATE_STEP)
Updates == [k \in 1 .. (Len(slice) + UPDATE_STEP - 1) \div UPDATE_STEP |->
               (k - 1) * UPDATE_STEP + 1]

WorkloadInit ==
    /\ slice \in Slices
    /\ workload \in OnIndex \cup DOMAIN Container
    /\ baseline = IF workload \in Prebuilt \ OnIndex THEN Container[workload] ELSE <<>>
    /\ LET index == IF workload \in Prebuilt \cap OnIndex THEN Built ELSE Empty
       IN  /\ data = index.data /\ buckets = index.buckets
           /\ bucket_positions = index.bucket_positions /\ live_len = index.live_len
    /\ reply = Reply("new", <<>>, NoId, TRUE)
    /\ run = 1 /\ step = 0 /\ found = 0

\* The calls of a run, after what it works on is built.
Calls == CASE workload \in Searches -> Len(TargetPlaces)
           [] workload \in {"update_at", "remove_at", "vec_update", "vec_tombstone"} ->
                 Len(Updates)
           [] workload \in {"sarkar_sort", "vec_sort"} -> 1
           [] OTHER -> 0

Calling(w) == workload = w /\ step \in 1 .. Calls /\ step' = step + 1

\* Mutant: the index the first run has built serves all.
BuildShared == IF data = <<>> THEN Become(Built) ELSE UNCHANGED store

\* A run that builds its index has dropped that of the run before.
Build == IF workload \in Prebuilt THEN UNCHANGED store ELSE Become(Built)

BeginRun ==
    /\ run <= RUNS /\ step = 0
    /\ IF workload \in OnIndex
       THEN Build /\ UNCHANGED baseline
       ELSE UNCHANGED store /\ baseline' = IF workload \in Prebuilt THEN baseline
                                                                    ELSE Container[workload]
    /\ step' = 1 /\ found' = 0
    /\ reply' = Reply("insert_bulk", slice, NoId, TRUE)
    /\ UNCHANGED <<slice, workload, run>>

\* What a lookup may answer.
IsSorted(seq) == \A i, j \in DOMAIN seq : i < j => seq[i] <= seq[j]
Answers(target) ==
    CASE workload = "contains"      -> {Contains(target)}
      [] workload = "set_contains"  -> {target \in baseline}
      [] workload = "vec_contains"  -> {target \in Range(baseline)}
      [] workload = "binary_search" -> IF IsSorted(baseline) THEN {target \in Range(baseline)}
                                                              ELSE BOOLEAN

Search ==
    /\ workload \in Searches /\ Calling(workload)
    /\ \E answer \in Answers(slice[TargetPlaces[step]]) :
          found' = IF answer THEN found + 1 ELSE found
    /\ UNCHANGED <<vars, slice, workload, run, baseline>>

UpdateNext ==
    /\ Calling("update_at")
    /\ LET id == Updates[step] IN UpdateAt(id, Flipped(slice[id]))
    /\ UNCHANGED <<slice, workload, run, found, baseline>>

RemoveNext ==
    /\ Calling("remove_at")
    /\ RemoveAt(Updates[step])
    /\ UNCHANGED <<slice, workload, run, found, baseline>>

SortAll ==
    /\ Calling("sarkar_sort")
    /\ SarkarSort
    /\ UNCHANGED <<slice, workload, run, found, baseline>>

\* The Vec baselines: indexed update, tombstone write, sort.
VecNext ==
    /\ \/ /\ Calling("vec_update")
          /\ baseline' = [baseline EXCEPT ![Updates[step]] = Flipped(@)]
       \/ /\ Calling("vec_tombstone")
          /\ baseline' = [baseline EXCEPT ![Updates[step]] = 0]
       \/ /\ Calling("vec_sort")
          /\ baseline' = Ascending(baseline)
    /\ UNCHANGED <<vars, slice, workload, run, found>>

EndRun ==
    /\ step = Calls + 1
    /\ run' = run + 1 /\ step' = 0
    /\ UNCHANGED <<vars, slice, workload, found, baseline>>

WorkloadNext ==
    BeginRun \/ Search \/ UpdateNext \/ RemoveNext \/ SortAll \/ VecNext \/ EndRun

WorkloadSpec == WorkloadInit /\ [][WorkloadNext]_workload_vars

-------------------------------------------------------------------------------
(* Correctness.                                                            *)

\* The IDs this run has updated or removed.
Done == {Updates[k] : k \in 1 .. step - 1}

\* The data with this run's updates.
Updated == [id \in DOMAIN slice |-> IF id \in Done THEN Flipped(slice[id]) ELSE slice[id]]

\* What a run measures is the work its row names: every run finds the index as
\* the data makes it, changed by its own calls only; none of its updates or
\* removals is refused, its snapshot is of all of the data, and its sort leaves
\* what the assertion of the benchmark expects.
EachRunAlone ==
    /\ step > 0 /\ workload \in OnIndex \ {"sarkar_sort"} =>
          /\ data = IF workload = "update_at" THEN Updated ELSE slice
          /\ LiveIds = DOMAIN slice \ (IF workload = "remove_at" THEN Done ELSE {})
          /\ reply.ok
    /\ (workload = "build_snapshot" /\ step > 0) \/ workload = "sorted_snapshot" =>
          SortedSnapshot = Ascending(slice)
    /\ workload = "sarkar_sort" /\ step = 2 =>
          live_len = Len(slice) /\ data = Ascending(slice)

\* The rows of a table compare the same work: whatever it looks in, every lookup
\* of a run succeeds; and the Vec ends a run as the index does, updated or sorted,
\* or overwritten exactly where the index has removed.
SameWork ==
    /\ workload \in Searches /\ step > 0 => found = step - 1
    /\ workload = "vec_update" /\ step > 0 => baseline = Updated
    /\ workload = "vec_tombstone" /\ step > 0 =>
          \A id \in DOMAIN slice : baseline[id] = IF id \in Done THEN 0 ELSE slice[id]
    /\ workload = "vec_sort" /\ step = 2 => baseline = Ascending(slice)
================================================================================
