----------------------------- MODULE HardwareBench -----------------------------
(***************************************************************************)
(* How the hardware benchmark measures: for each workload one run that is  *)
(* not counted and RUNS that are, each between two snapshots of the        *)
(* process, and one row of medians.  The operations are in Workloads.      *)
(*                                                                         *)
(* What an operation takes and the working set are the environment's: the  *)
(* first run of an operation may be slow, the CPU counter moves in steps   *)
(* of Quantum, and either call of Windows a snapshot makes may fail, which *)
(* the code ignores: it then reads the zeros it has set before.            *)
(***************************************************************************)
EXTENDS Sampling, Formatting, Ordering

CONSTANTS RUNS,
          LOOKUPS,
          DEFAULT_ELEMENTS,
          Requested,    \* values of BWSPI_BENCH_N, 0 when it is not a number
          Rows,         \* the number of workloads
          WarmCosts,    \* what an operation takes
          ColdCosts,    \* what its first run may take
          Quantum,      \* resolution of the CPU counter
          WorkingSets,  \* sizes of the working set
          MaxFailures,  \* bound on the failing calls for one workload
          DurationBase,  \* what a unit of fmt_duration is worth of the one before
          DurationParts  \* the parts of each unit that are shown

ASSUME BenchAssumption ==
    /\ RUNS \in Nat /\ RUNS % 2 = 1 \* one sample is the median
    /\ LOOKUPS \in Nat \ {0} /\ Rows \in Nat
    /\ DEFAULT_ELEMENTS \in Nat /\ LOOKUPS <= DEFAULT_ELEMENTS
    /\ Requested \subseteq Nat /\ WarmCosts \subseteq Nat /\ ColdCosts \subseteq Nat
    /\ Quantum \in Nat \ {0} /\ WorkingSets \subseteq Nat \ {0} /\ MaxFailures \in Nat
    /\ DurationBase \in Nat \ {0}
    /\ DurationParts \in Seq(Nat \ {0}) /\ Len(DurationParts) \in 1 .. 4

VARIABLES element_count, \* the length of the data
          row,     \* the workload being measured
          pc,      \* where `benchmark` is
          warm,    \* whether this workload's operation has run before
          cpu,     \* CPU time the process has used
          before,  \* the snapshot before a run
          failures, \* calls that have failed for this workload
          samples, \* the runs measured for this workload
          result   \* the row reported, until the next one is begun

vars == <<element_count, row, pc, warm, cpu, before, failures, samples, result>>

NoResult == [row |-> 0]

\* Mutant: any number that parses is taken.
ElementCountUnfiltered(requested) ==
    IF requested > 0 THEN requested ELSE DEFAULT_ELEMENTS

ElementCount(requested) ==
    IF requested >= LOOKUPS THEN requested ELSE DEFAULT_ELEMENTS

-------------------------------------------------------------------------------
(* Snapshots and what is computed from two of them.                        *)

\* process_snapshot when the process has used so much CPU time: what the two
\* calls have given.
Snapshots(time) ==
    [cpu : {(time \div Quantum) * Quantum}, working_set : WorkingSets, failed : {0}]
      \cup [cpu : {0}, working_set : WorkingSets, failed : {1}]
      \cup [cpu : {(time \div Quantum) * Quantum}, working_set : {0}, failed : {1}]
      \cup [cpu : {0}, working_set : {0}, failed : {2}]

\* saturating_sub; no percentage of no time.
CpuPercentSince(earlier, later, elapsed) ==
    IF elapsed = 0 \/ later.cpu < earlier.cpu THEN 0
    ELSE (100 * (later.cpu - earlier.cpu)) \div elapsed

NoSnapshot == [cpu |-> 0, working_set |-> 0, failed |-> 0]

Init == /\ \E requested \in Requested : element_count = ElementCount(requested)
        /\ row = 1 /\ pc = "warm_up" /\ warm = FALSE
        /\ cpu = 0 /\ before = NoSnapshot /\ failures = 0
        /\ samples = <<>> /\ result = NoResult

Costs == IF warm THEN WarmCosts ELSE WarmCosts \cup ColdCosts

\* A run of the operation.
Operation(cost) == cpu' = cpu + cost /\ warm' = TRUE

\* Mutant: no run before the measured ones.
FirstRunSkipped == UNCHANGED <<cpu, warm>>

\* The run that is not counted.
FirstRun == \E cost \in Costs : Operation(cost)

WarmUp ==
    /\ row <= Rows /\ pc = "warm_up"
    /\ FirstRun
    /\ samples' = <<>> /\ result' = NoResult
    /\ pc' = "snapshot"
    /\ UNCHANGED <<element_count, row, before, failures>>

Snapshot ==
    /\ pc = "snapshot" /\ Len(samples) < RUNS
    /\ before' \in Snapshots(cpu)
    /\ failures' = failures + before'.failed /\ failures' <= MaxFailures
    /\ pc' = "measure"
    /\ UNCHANGED <<element_count, row, warm, cpu, samples, result>>

Measure ==
    /\ pc = "measure"
    /\ \E cost \in Costs : \E after \in Snapshots(cpu + cost) :
          /\ Operation(cost)
          /\ failures' = failures + after.failed /\ failures' <= MaxFailures
          /\ samples' = Append(samples,
                [elapsed |-> cost,
                 cpu_percent |-> CpuPercentSince(before, after, cost),
                 working_set_delta |-> after.working_set - before.working_set,
                 sound |-> before.failed + after.failed = 0])
    /\ before' = NoSnapshot
    /\ pc' = "snapshot"
    /\ UNCHANGED <<element_count, row, result>>

-------------------------------------------------------------------------------
(* The row.                                                                *)

Column(field) == [k \in DOMAIN samples |-> samples[k][field]]

\* Mutant: the middle of the samples as they came.
SortedColumnUnsorted(field) == Column(field)

\* What `median` makes of a column: it sorts in place.
SortedColumn(field) == Ascending(Column(field))
Median(sorted) == sorted[(Len(sorted) \div 2) + 1]

NotAvailable == -1

\* Mutant: the extremes are taken before the column is sorted.
ExtremesUnsorted == <<Column("elapsed")[1], Column("elapsed")[RUNS]>>

Extremes == <<SortedColumn("elapsed")[1], SortedColumn("elapsed")[RUNS]>>

\* The row of a workload.  No CPU time at all means that it was too short.
Summary ==
    LET percent == Median(SortedColumn("cpu_percent"))
    IN  [row |-> row, median |-> Median(SortedColumn("elapsed")),
         min |-> Extremes[1], max |-> Extremes[2],
         cpu_percent |-> IF percent > 0 THEN percent ELSE NotAvailable,
         working_set_delta |-> Median(SortedColumn("working_set_delta"))]

Report ==
    /\ pc = "snapshot" /\ Len(samples) = RUNS
    /\ result' = Summary
    /\ row' = row + 1 /\ pc' = "warm_up" /\ warm' = FALSE /\ failures' = 0
    /\ UNCHANGED <<element_count, cpu, before, samples>>

Next == WarmUp \/ Snapshot \/ Measure \/ Report

Spec == Init /\ [][Next]_vars

-------------------------------------------------------------------------------
(* Correctness.                                                            *)

Reported == result # NoResult

\* How many samples are below, or above, a value.
Below(field, value) == Cardinality({k \in DOMAIN samples : samples[k][field] < value})
Above(field, value) == Cardinality({k \in DOMAIN samples : samples[k][field] > value})

\* A reported row summarises its samples: the extremes are extremes, no median
\* has more than half of the samples on either side, and CPU time is missing
\* only where most of the samples show none.
RowSummarises ==
    Reported =>
        /\ Below("elapsed", result.min) = 0 /\ Above("elapsed", result.max) = 0
        /\ \A field \in {"elapsed", "working_set_delta"} :
              LET median == IF field = "elapsed" THEN result.median
                                                 ELSE result.working_set_delta
              IN  2 * Below(field, median) <= RUNS /\ 2 * Above(field, median) <= RUNS
        /\ IF result.cpu_percent = NotAvailable
           THEN 2 * Above("cpu_percent", 0) <= RUNS
           ELSE 2 * Above("cpu_percent", 0) > RUNS

\* Ignoring the calls that fail is harmless as long as they spoil fewer than
\* half of the runs: what the row says of CPU time and working set then lies
\* between what two runs say that were measured as they should be.
FailuresOutvoted ==
    Reported /\ 2 * Cardinality({k \in DOMAIN samples : ~ samples[k].sound}) < RUNS =>
        \A field \in {"cpu_percent", "working_set_delta"} :
            LET sound == {samples[k][field] : k \in {j \in DOMAIN samples : samples[j].sound}}
                shown == IF result[field] = NotAvailable /\ field = "cpu_percent"
                         THEN 0 ELSE result[field]
            IN  \E low, high \in sound : low <= shown /\ shown <= high

\* "Excluded from results": no measured run is the first of its operation.
OnlyWarmSamples == \A k \in DOMAIN samples : samples[k].elapsed \in WarmCosts

\* The report gives LOOKUPS as the number of lookup targets, whatever the number
\* of elements asked for; each is a value of the data.
TargetsAsReported ==
    LET targets == Targets(element_count, LOOKUPS)
    IN  /\ Len(targets) = LOOKUPS
        /\ \A k \in DOMAIN targets : targets[k] \in 1 .. element_count

\* nanoseconds, microseconds, milliseconds, seconds
DurationUnits == Units(DurationBase, DurationParts)

\* Printed each in a unit of its own, the median still lies between the extremes.
PrintedInOrder ==
    Reported => /\ result.min < result.median =>
                      ShownNotAbove(result.min, result.median, DurationUnits)
                /\ result.median < result.max =>
                      ShownNotAbove(result.median, result.max, DurationUnits)
================================================================================
