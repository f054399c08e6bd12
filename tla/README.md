# Verification of BWSPI

BWSPI is an in-memory index of `u64` values: values are appended to one vector
and their storage IDs are kept in buckets, one for each binary width of a value.
This directory holds TLA+ models of it, the TLC runs that check them on small
instances, and proofs, checked by TLAPS, of the properties that matter most for
every instance.

## The system

| Component | Source | State | Operations |
|---|---|---|---|
| Bit-width routing | `index.rs` `bit_width` | none | value -> width, 0 to 64 |
| Live index | `index.rs` `Bwspi` | `data`, `buckets`, `bucket_positions`, `live_len` | `insert`, `insert_bulk`, `remove`, `remove_at`, `update`, `update_at`; queries `contains`, `find`, `find_all`, `get`, `iter` and counters |
| Sarkar Sort | `sarkar_sort.rs` | works on the index it is given | `sarkar_sort` / `sort_in_place`: Phase A sorts the IDs of each bucket, Phase B moves the values by cycles, Phase C rebinds buckets and positions |
| Sorted snapshot | `snapshot_sort.rs` | none | ascending copy of the live values, the index untouched |
| SIMD search | `simd.rs` | none | `simd_contains`: AVX2 scan of a bucket, or the scalar fallback |
| Comparison program | `main.rs` | the counters of its allocator, snapshots of them, timings | builds each structure, measures its heap, times cold and hot passes of lookups, prints tables |
| Hardware benchmark | `hardware_bench.rs` | samples, telemetry snapshots, the buffer of the cache scan | an uncounted run and seven measured ones per workload, medians, Windows telemetry, `bench.md` |
| Criterion benchmarks | `benches/` | none of their own | drive the library under Criterion |

How they interact. Everything goes through the methods of `Bwspi`. `remove` and
`update` look their entry up with `find` and hand the ID to `remove_at` and
`update_at`; these, like `insert`, go through `link_existing`,
`unlink_existing`, `ensure_bucket` and `shrink_trailing`. The two sorts and the
SIMD scan reach into the fields of the index directly and rely on what the other
methods keep true of them. The programs are clients of the public methods.

What is hard here. The library is sequential - every change takes `&mut self`,
nothing is shared, persisted or sent - so there are no interleavings, crashes or
lost messages to model. (The programs talk to the operating system, whose
answers may be any and whose calls may fail: that is the fault model of
`HardwareBench` and `CacheTopology`.) The difficulty is redundancy: what is live is recorded
three times (the position map, the buckets, the counter), where a value is
findable depends on the value itself, and each call repairs only what it knows
it broke. A mistake shows many calls later, in another entry, and the code's own
checks are `debug_assert`s that release builds drop. The sort reuses the position
map for something else while it runs and has a loop with no counter; the sort of
a bucket is a recursion with a bounded stack by design. The hazards are listed,
each at its line, in `PROJECT.json`.

What makes each component correct:

- routing: each bucket holds exactly the documented range of values, and all the
  values of a bucket are below all those of the next;
- index: position map and buckets are inverse to each other, the counter is
  exact, no empty bucket is left at the end, all lookups and `iter` agree, IDs
  keep their value until a sort, removed values are kept;
- Sarkar Sort: one atomic permutation of storage, live values first and
  ascending, removed values behind them in their order; it returns; its recursion
  is shallow; its pivot halves the value range;
- snapshot: equals what the sort in place leaves at the front of storage;
- SIMD search: answers like `contains`;
- comparison program: the heap it measures is the heap the index reports, and a
  time per lookup is a time a lookup takes;
- hardware benchmark: a row is the summary of warm runs, each doing the work the
  row names and the same work as the baselines, even when calls of Windows fail; the
  cache scan stays in its buffer and ends;
- both programs' data: the generator never sticks, and each kind of data is what its
  title says.

## Modules

| Module | Models | Correspondence |
|---|---|---|
| `BitRouting` | `bit_width` | `U64` is the word of `BITS` bits, `LeadingZeros` and `BitWidth` the code's two steps |
| `LiveIndex` | the public API, abstractly | a partial map from storage IDs to values, with what each call returns; no buckets, no positions |
| `Bwspi` | `index.rs`, `snapshot_sort.rs`, the sort as one step | the four fields are variables, `reply` is the last call and its result; one action per public method that changes the index, one operator per private helper and per query |
| `SimdSearch` | `simd.rs` | operators over the variables of `Bwspi`; `Avx2Detected` is the CPU feature test |
| `SortInPlace` | `sort_in_place` | adds the loop variables; one action per iteration of each loop and per change of loop, from `BeginSort` to `Finish`; Phase A orders one bucket at a time, equal values in any order |
| `MidpointSort` | `midpoint_sort`, `closest_value`, `partition_three_way`, `insertion_sort`, `msd_radix_sort` | the activations of the recursive functions are the stack `calls`; one action per loop iteration; `stats` are the counters of `SarkarSortStats` |
| `Observability` | `bucket_slots`, `active_bucket_count`, `max_bucket_size`, `distribution_stats` | operators over the variables of `Bwspi` |
| `HeapUse` | `CountingAlloc`, `HeapSnap`, `memory_usage_bytes`, the capacities behind every method | joins each action of `Bwspi` with what it asks of the allocator; `capacity` is that of each vector |
| `Sampling` | the choice of lookup targets, in both programs | `Step` is the argument of `step_by`, `TargetCount` what `take` leaves |
| `Comparison` | `cold_hot_search` and the searches of `run_comparison` | one action per lookup, per end of a pass and per size |
| `Generators` | the xorshift generators and the kinds of data of both programs | a kind is a sequence of ranges of values; `rng` is the word of the generator; one action for choosing a range, one for drawing from it |
| `Formatting` | `fmt_dur`, `fmt_duration`, `fmt_bytes` | operators: the unit an amount is shown in, and the numbers rounding may show |
| `HardwareBench` | `benchmark`, `median`, `process_snapshot`, the element count of `main` | one action for the uncounted run, a snapshot, a measured run and the row; a snapshot says which of its two calls failed |
| `Workloads` | the operations `benchmark` is given, on the index and on the baselines | composes `Bwspi` with the benchmark's runs; one action per call; `baseline` is the `Vec` or set of a baseline |
| `CacheTopology` | `telemetry::caches` | one action per outcome of the two calls of Windows and per record |
| `Ordering` | `sort_unstable` of the standard library | `Ascending`, by its result |
| `MC...` | - | instances for TLC |
| `...Proofs` | - | theorems about the module named, and proofs; `BwspiProofs` also about `SimdSearch` and `LiveIndex` |

`Bwspi` implements `LiveIndex`: the refinement mapping sends the index to the
values of its live IDs and the length of storage. `SortInPlace` composes with
`Bwspi`: it adds a sort in small steps to all the other calls of `Bwspi` and
implements `Bwspi` under a mapping that shows the index as the sort found it
(history variable `before`) until the last step of the sort. `MidpointSort`
justifies the one thing `SortInPlace` leaves open, that Phase A leaves each
bucket an ascending permutation of itself: `OnlyPendingUnsorted` says so once
the outermost activation has returned, and `MidpointReturns` that it does.

`HeapUse` and `Workloads` are compositions too: their actions are actions of
`Bwspi`, joined with the allocator's counters and with the benchmark's loop.
`HardwareBench` is the same loop seen from outside, where an operation is only
something that takes time; `Comparison` likewise.

Conventions. A storage ID or offset k of the code is k + 1 in the models, so
that vectors are sequences; the bucket of width w is `buckets[w + 1]`; `None` is
`NoId`; `usize::MAX` is the constant `REMOVED_POSITION`, of which the models
assume only that it is no offset of a vector (`RemovedAssumption`). Operators
marked "Mutant" are plausible bugs; each shows that a property can fail.

## Runs

| Run | Instance | States | Shows |
|---|---|---|---|
| `generators` | 6-bit words, every seed, five kinds of data | 5,018 | the buckets are the documented ranges (`RangesPartition`) and ordered (`BucketsOrdered`); `NeverStuck`; `DataAsTitled` |
| `store` | `BITS = 2`, values 0, 2, 3, storage of 5, slices up to 2 | 35,415 | types and bounds; `Consistent`, `LiveCount`, `TrailingTrimmed`, `LookupsAgree`, `SimdAgrees`, `DistributionExact`; `HistoryKept`; `SortMatchesSnapshot` |
| `api` | every 2-bit value, storage of 3 | 27,263 | `RefinesLiveIndex`, results of calls included; `SortIdempotent` |
| `sort_phases` | values 0, 2, 3, storage of 4 | 206,318 | `ImplementsBwspi`; `DestinationsAttached`, `AssertsHold`, `EverySwapSettles`; `SortReturns` |
| `midpoint` | 4-bit values, buckets of 2 to 5, cutoff 2, budget 2 | 586,998 | `OnlyPendingUnsorted`, `RangeHalved`, `FallBackOnlyWhenWide`, `StackLimited`, `WorkBounded`; `MidpointReturns` |
| `heap` | values 0, 2, 3, storage of 3, every initial capacity, 8 allocations | 23,961 | `SelfReportExact`, `GrowsOnlyToLink` |
| `comparison` | data of 2, 5 and 6 values, 3 lookups, 2 hot passes, 2 or 3 ticks a lookup | 13,318 | `PerLookupInRange` |
| `hardware_rows` | two workloads of 3 runs, operations of 0, 3, 6, 9 or, at first, 12, up to 2 failing calls for each workload, 4 targets, requests of 3 and 9 elements | 4,041,993 | `RowSummarises`, `FailuresOutvoted`, `OnlyWarmSamples`, `TargetsAsReported`, `PrintedInOrder` |
| `workloads` | every slice of 2 to 4 2-bit values, 3 runs, 15 operations | 53,232 | `EachRunAlone`, `SameWork` |
| `cache_topology` | buffers of up to 21 bytes, headers of 2, caches of 3 | 6,192 | `ReadsInBounds`, `ScanReturns` |
| `finds_first_id`, `comparison_miss` | as `api`, `comparison` | - | violated: the first two disagreements below |

Why the bounds are enough. Two bits give the three widths 0, 1 and 2, with one
bucket that can hold two different values; the values 0, 2, 3 leave the bucket of
width 1 empty in the middle, so that `shrink_trailing` pops two buckets at once.
Storage of five lets one bucket hold five IDs - a chunk of four and a remainder
for the SIMD scan - or a removed entry next to cycles longer than two for the
sort. A fault in swap-remove repair, rebucketing or rebinding needs two entries
of a bucket and one outside. The bound on storage is the constant `Capacity`, in
the guards of the two inserts only; it counts removed entries too, so that histories
end when storage is full, and removals, updates and sorts of full storage still
go on. The store runs leave the last call out of the state (`VIEW`): the
properties they check do not read it in the earlier state. For the sort of a
bucket, the cutoff of 24 and the budget of 32 become constants small enough for
short regions to be partitioned, fall back to the radix sort, and be insertion-sorted;
`BITS = 4` gives the range of values that partitions halve three times. Two cases need
longer buckets than the run has: no budget runs out while another region is pending
(that takes two sides longer than the cutoff after the last partition), and no more
than two activations with anything left to sort are on the stack at once. For these
`OnlyPendingUnsorted` and `StackLimited` rest on their theorems, `PendingUnsorted` and
`RecursionLimited`, which bound neither length nor budget.

For the programs, the bounds put a case on each side of every comparison. Data
is smaller and larger than the number of lookups, and in `comparison` also a
multiple of it. Costs of an operation lie below and above the step of the CPU
counter (`Quantum`), one is no time at all, and a first run is slower than all
others. Two failing calls spoil one of three runs, one snapshot or both, or two
runs, which is a majority: `FailuresOutvoted` promises nothing then. Durations are
printed in units of two: 0 in the first unit, 3 in the second, 6 in the third, 9 in the
last, so that minimum, median and maximum are in any of the four. All but zero
are rounded, and 3, of which the second unit shows whole units only, may be rounded to
the end of that unit, as 999.996 microseconds are. The request of three elements is
refused as one too few; nine elements are two to a target, with a place left over for
`take` to drop.
Words of six bits have shifts of 1, 3 and 2 in place of 13, 7 and 17: like those
they give the generator its longest period, through all words but zero. The sizes a record
header may give are those at, next to and beyond the header, the cache record and
the buffer. In `heap` the least capacity of a vector, four places in the standard
library, is one, so that buckets of three IDs grow twice; `Earlier` gives the
counters a past from before the first snapshot; `MaxAllocs` bounds the allocations,
because updates to and fro allocate and free for ever.

`CHECK_DEADLOCK FALSE` throughout: storage fills up, walks end and a sort of a
bucket returns; none of these waits for anything.

Fairness. The index has no scheduler: its methods run to completion in the
caller's thread. The liveness runs assume only weak fairness of the sort's own
next step - the thread inside the call is not stopped for ever - and none of the
client's calls. `cache_topology` assumes that the program runs on after a call of
Windows has returned; every outcome of that call is possible. Everything else is
safety.

## Disagreements between documentation and code

Two are shown by runs that TLC must find violated:

- The comment of `find` promises the first storage ID; the code returns the first
  in bucket order, which swap-removes and updates permute (run `finds_first_id`).
- `main.rs:329` heads a column "MISS (per lookup)"; for N = 1,000 the code makes
  10,000 lookups and divides their time by 1,000 (run `comparison_miss`). The miss
  times for that size in `docs/benchmarks.md:64` are computed that way. The hit
  column and the larger sizes are right (`PerLookupInRange`).

Three statements of `docs/architecture.md` are out of date with the code; the
models follow the code, and no run is spent on them:

- line 42, an ID stays at its index forever: `sarkar_sort` moves entries, as the
  comment on the method says;
- line 109, a value of width 64 needs 64 bucket slots: it needs 65, as `TypeOK`
  and `TrailingTrimmed` have it;
- line 161, the heap formula, has no position map: the code has one and counts it,
  as `MemoryUsageBytes` does.

## Proofs

All proofs are for every word size, set of client values, set of slices and bound
on storage that the named assumptions (`BITSAssumption`, `ClientAssumption`,
`RemovedAssumption`, `Avx2Assumption`, `SortAssumption`, `HeapAssumption`,
`BenchAssumption`, `ComparisonAssumption`, `TopologyAssumption`, `GeneratorAssumption`,
`MissAssumption`, `WorkloadAssumption`) allow. Three of them say what is a number in the
code: `RUNS` is odd in `BenchAssumption`, as `const RUNS: usize = 7` is; in
`MissAssumption` the value looked up for a miss, `u64::MAX - 13`, has the highest bit
set; and in `WorkloadAssumption` the values a client may use
include those with the highest bit flipped, which a `u64` always does.

`BitRoutingProofs`. The width of a value is the least exponent of a power of two
above it (`BitWidthLeast`: the powers above a value form an interval that
`LeadingZeros` counts). `RangeOfBucket` and `WiderIsGreater` follow.

`GeneratorsProofs`. On sets of bits each of the three xor-shifts of the generator
takes nothing but the empty set to the empty set (the least, or greatest, one-bit
stays), and only zero has no one-bits, hence `GeneratorRunsOn`: the state is never
zero, whatever the shifts and the seed. That the last range and remainder stay in
the word (`DataStays`) carries `RangeOfBucket` and `WiderIsGreater` over to every
value generated: `ValuesPartitioned`, `ValuesOrdered`. `ValuesAsTitled` needs beside
it that a draw lies in the range chosen for it (`DrawnFrom`), which range that is for
each kind and class (`EntropySource`, `UniformSource`), and that a value with the highest
bit set is in no narrower bucket (`NarrowerMisses`). It promises ranges only: nothing of
the order of sequential data, of the mixture, or of the last class of the high entropy
data, which may draw any word, the value searched for in vain included.

`BwspiProofs`. The inductive invariant is `IInv`, that the index is `Valid`
between calls. `Coherent` - types, every live ID where its position says, every
slot the position of a live ID of its width - is the part that helpers preserve
one by one (`LinkCoherent`, `UnlinkCoherent`, `StoreCoherent`, `ShrinkCoherent`,
`GrowCoherent`, `SortCoherent`); it leaves out the counter and the trailing
bucket, which an operation breaks and restores on its way, and `Valid` adds
them (`Trimmed`, the count). The invariants of the runs are not inductive
alone: the counter stays exact only because a removed entry is in no bucket, and
positions stay in range only because no bucket lists an ID twice
(`BucketBound`). The sort needs that the regions of storage it fills from the
buckets tile the live part (`StartStep`, `RegionOf`, `RegionUnique`) and that
there are as many slots as live IDs (`SlotsCount`); `insert_bulk`, a recursive
function, needs that the function exists (`AfterExists`). Theorems:

- `TypeCorrect`, `IndexConsistent`, `CountsAgree`, `SlotsTrimmed`, and `SimdCorrect`,
  since chunks of four and a remainder cover a bucket exactly;
- `IndexRefined`, the refinement of `LiveIndex`: one lemma for each method says what
  it leaves of the values of the live IDs and what it returns;
- `QueriesAgree`: what `contains`, `find`, `find_all`, `get` and `iter` answer is
  determined by the values of the live IDs alone;
- `HistoryIsKept`: between sorts no call but an update changes a value, and none
  brings a removed entry back;
- `DistributionReported`: a number up to the size of a finite set is the rank of one
  member (`NthMember`), so the rows are the buckets that are not empty (`RowsAre`); a
  bucket lists the live values of its width once each (`BucketCount`), and the slots
  of the rows are those of the buckets, which `SlotsCount` counts;
- `SortsOnce`, `SortsAgree` (in `SortInPlaceProofs`): sorting twice is sorting once,
  and the sorted snapshot is what the sort leaves in front. Both rest on what
  `Ascending` returns. `Ordering` defines a sort by its result - the k-th element is
  the least value that k elements do not exceed - and not by its steps, so that no
  induction is needed.

`SortInPlaceProofs`. The invariant `SInv` is that the index is `Valid` outside the
sort, and one predicate for each of its loops: `Rearranged` says which buckets Phase A
has ordered, `PlacingLive` and `PlacingRemoved` which destinations have been given out,
`Cycling` that storage and destinations are permuted together and that every place
before the cursor is settled, `Rebinding` which buckets and positions have been
rewritten. The properties of the run need it because the position map means something
else in each loop: a destination is never given twice only because the regions of the
buckets are disjoint, and the two assertions hold only because destinations are a
permutation when the cycles begin. Theorems: `EntriesAttached` (value and destination
stay together through every swap), `SortAsserts`, `SwapsSettle`, and
`SortIsOneStep`, the refinement of `Bwspi`: all small steps but the last stutter under
the mapping that shows the index as the sort found it, and the last is the atomic sort.

`MidpointSortProofs`. `PivotHalvesRange`: with the pivot closest to the middle, what is
left on either side spans at most half the range. `MidpointInv` joins the types, that
the regions of waiting activations lie apart from each other (`Apart`), that elements out
of order share a pending region (`Pending`), that the radix sort agrees on the bits it
has passed (`AgreeInv`), the halving (`HalvedInv`), and what the loop at work has reached
(`LoopInv`). A step either rearranges within the region of the innermost activation
(`Rearranges`), and then no pair outside changes, or splits that region (`Splits`), and
then each pair separated is in order. Theorems: `PendingUnsorted`, `BudgetHalves`, and
`BucketSorted`, that the bucket is ascending when the outermost call has returned - which
`SortInPlace` assumes. For `RecursionLimited`, a bound on cardinalities, each step maps
what an activation waits for injectively into what it waited for before (`Deep`).

`PartitionsSuffice`, that the radix sort takes over only in a bucket whose values span
2^(budget - 1), follows from the halving: the last partition of a budget would have two
different values to tell apart after all others have halved the range
(`PartitionsLeft`), so in a narrower bucket no activation runs out of partitions
(`NoFallBack`). The code's budget is 32: of its buckets only those of width 33 and more
can fall back.

`WorkLimited` counts by what is left rather than by what has been done. Each kind of
work - a probe, a swap of a partition, of the radix sort, of an insertion - has a level:
the partitions, bits and short insertions still allowed. `Left` is the set of pairs of
an offset and a level that some activation may still spend, and `WorkInv` says that the
counter and the size of that set together stay within the bound (`ProbesPaid`,
`SwapsPaid`). No step adds to the set, and a step that counts work takes pairs out of it:
a partition one level of every offset but one of the region it probes, a swap of
a partition one pair, a swap of the radix sort two, and the j-th insertion into a region
2j for at most j swaps. The count of partitions rests on `Separate`, that the
values of a region to be partitioned are nowhere else in the bucket, and `PivotsOut`,
that there is a value for each partition made which is in no such region any more, and
one value besides.

`ProgramProofs`. The benchmark: the element count never changes and is at least the
number of lookups, whatever was asked for; then step_by yields at least that
many places (`TargetsFill`, from two facts about `\div`), all inside the data:
`ReportedTargets`. `WarmRunsOnly`: an operation has run once when its first sample is
taken. `RowIsSummary` and `FailuresHarmless` hold because the row is what its samples
give (`RowInv`) and the k-th place of a sorted column has fewer than k elements below it
and at most n - k above (`AscendingSplits`); spoilt runs in the minority then leave a
sound one on either side of a median. `RowsPrintInOrder`: an amount is shown in the first
unit it is below the end of, a unit ends where the next begins, and rounding is
monotone (`PrintsInOrder`), for every `DurationBase` and every choice of shown parts.
The comparison: `TimesInRange` rests on `SearchInv`, that the time of a pass is
between what its lookups cost at least and at most, which division by their number and
the average of the passes keep (`Averaged`, `PassesAveraged`). The cache scan:
`ReadsStayInBounds`. `ReadsInBounds` needs beside it that nothing has been read before
the scan, and that the header of the record the scan is at lies in the buffer.

`HeapUseProofs`. `HInv` adds to `IInv` that the allocator's counters and the capacities
are numbers, that every vector fits (`Fits`), and that what was allocated less what was
freed since the first snapshot is what the capacities are worth (`Balanced`). Every
reservation keeps the balance and shrinks no capacity (`SameBalance`, `Grew`); giving
popped buckets back keeps the balance because the room of the buckets is that of the
slots kept and of the slots popped, two disjoint sets. `insert_bulk` reserves in a
recursive function, which is shown to exist and to agree on prefixes of the slice.
Theorems: `ReportIsExact`, `AllocatesToLink`.

`WorkloadsProofs`. A bucket's k-th value is the (start + k)-th of all, since narrower
values are smaller and a bucket's region begins where theirs end (`BucketInPlace`,
`CountSplits`): the snapshot of an index with all its entries live is the data in
ascending order (`SnapshotOfAll`). `WorkInv` says what the index and the baseline hold
after each number of calls of a run; it needs that `insert_bulk` into an empty index
stores exactly the data (`BuiltIs`), and that `step_by` yields no place twice and none
beyond the data, so that no removal meets an entry already removed (`PlacesFit`).
Theorems: `RunsAlone`, `RowsComparable`.

Only model-checked: all liveness (`SortReturns`, `MidpointReturns`, `ScanReturns`),
since liveness under fairness and `ENABLED` are beyond TLAPS.

## Not modelled

- The time and memory of the structures the comparison program compares with
  (`HashMap`, `Vec`), and their heap columns: growth of the standard library, nothing
  of this code. The hardware benchmark's baselines are modelled by what they hold and
  answer.
- The layout of tables and of `bench.md`, the fixed text of the printed analysis, the
  bars of the distribution, the inventory read from the shell and ACPI, and the lines
  of `platform_report` made from the memory status and the cache records: text without
  state. The telemetry of other systems than Windows, which reports zeros, is the case
  of `HardwareBench` in which every call fails.
- The Criterion benchmarks: they drive the library and keep no state.
- That data of many values has one of every width (`docs/architecture.md:141`):
  that depends on one seed and the shifts 13, 7 and 17 on 64 bits, for which no smaller
  word can stand. `DataAsTitled` says which width each class gives.
- `Debug` output. `buckets_sorted` of `SarkarSortStats`: it counts the buckets that are
  not empty, which `ActiveBucketCount` does.
- The rounding of floating-point numbers beyond the digits printed, and the CPU
  percentage as more than a whole number.
- The panics of out-of-range indexing: `Consistent` rules them out inside the
  library. Allocation failure: the process aborts.

## Plan

Done: routing, generators, index, atomic sort, snapshot, SIMD search, sort by phases,
sort of a bucket with its counters, heap accounting, distribution, the two programs
with their baselines, failing calls and printed units, and the theorems above.
Every safety property a passing run checks is now a theorem as well. Next: the sort of
a bucket composed with the sort by phases, which assumes sorted buckets as an atomic
step, through `BucketSorted`.
