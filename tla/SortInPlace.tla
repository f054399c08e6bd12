------------------------------ MODULE SortInPlace ------------------------------
(***************************************************************************)
(* sort_in_place, loop iteration by loop iteration: the step SarkarSort of *)
(* Bwspi taken apart.  While it runs it reuses the position map as a map   *)
(* from places of storage to destinations, and the buckets as the list of  *)
(* what goes where, so that nothing but the storage itself tells a live    *)
(* entry from a removed one until the last phase restores both.            *)
(*                                                                         *)
(* A sort holds the index by &mut self: no other call sees these states.   *)
(***************************************************************************)
EXTENDS Bwspi

VARIABLES phase,       \* the loop of sort_in_place that runs, "idle" for none
          cursor,      \* the loop variable
          destination, \* the destination given out next; Phase C's start + 1
          swaps,       \* storage swaps of this sort (stats.swaps)
          before       \* history: the index as the sort found it

sort_vars == <<phase, cursor, destination, swaps, before>>
all_vars == <<vars, sort_vars>>

\* Between sorts there is nothing to remember.
NoIndex == <<>>

Idle == /\ phase = "idle" /\ cursor = 1 /\ destination = 1
        /\ swaps = 0 /\ before = NoIndex

SortInit == Init /\ Idle

\* Mutant: the widest bucket first.
SourcesWidestFirst ==
    Concatenated([w \in DOMAIN buckets |-> buckets[Len(buckets) + 1 - w]])

\* The live IDs in the order of the buckets: bucket after bucket, `for &source`.
Sources == Concatenated(buckets)

\* One loop over and the next one begun.
Enter(next) == phase' = next /\ cursor' = 1

-------------------------------------------------------------------------------
(* The phases.                                                             *)

BeginSort ==
    /\ phase = "idle"
    /\ Enter("sort_buckets")
    /\ before' = self
    /\ UNCHANGED <<vars, destination, swaps>>

\* Phase A, one bucket: its IDs in some ascending order of their values.
SortBucket ==
    /\ phase = "sort_buckets" /\ cursor <= Len(buckets)
    /\ \E order \in Bijection(DOMAIN buckets[cursor], DOMAIN buckets[cursor]) :
          LET bucket == [k \in DOMAIN buckets[cursor] |-> buckets[cursor][order[k]]]
          IN  /\ \A i, j \in DOMAIN bucket : i < j => data[bucket[i]] <= data[bucket[j]]
              /\ buckets' = [buckets EXCEPT ![cursor] = bucket]
    /\ cursor' = cursor + 1
    /\ UNCHANGED <<data, bucket_positions, live_len, reply, phase, destination, swaps, before>>

BucketsSorted ==
    /\ phase = "sort_buckets" /\ cursor > Len(buckets)
    /\ Enter("place_live")
    /\ UNCHANGED <<vars, destination, swaps, before>>

\* Mutant: the next entry gets the same destination.
GiveSameDestination(id) ==
    /\ bucket_positions' = [bucket_positions EXCEPT ![id] = destination]
    /\ UNCHANGED destination

GiveDestination(id) ==
    /\ bucket_positions' = [bucket_positions EXCEPT ![id] = destination]
    /\ destination' = destination + 1

\* Phase B: the next live ID gets the next destination.
PlaceLive ==
    /\ phase = "place_live" /\ cursor <= Len(Sources)
    /\ GiveDestination(Sources[cursor])
    /\ cursor' = cursor + 1
    /\ UNCHANGED <<data, buckets, live_len, reply, phase, swaps, before>>

LivePlaced ==
    /\ phase = "place_live" /\ cursor > Len(Sources)
    /\ Enter("place_removed")
    /\ UNCHANGED <<vars, destination, swaps, before>>

\* Phase B: an entry still marked removed goes behind the live ones.
PlaceRemoved ==
    /\ phase = "place_removed" /\ cursor <= Len(data)
    /\ IF bucket_positions[cursor] = REMOVED_POSITION
       THEN GiveDestination(cursor)
       ELSE UNCHANGED <<bucket_positions, destination>>
    /\ cursor' = cursor + 1
    /\ UNCHANGED <<data, buckets, live_len, reply, phase, swaps, before>>

RemovedPlaced ==
    /\ phase = "place_removed" /\ cursor > Len(data)
    /\ Enter("cycles")
    /\ UNCHANGED <<vars, destination, swaps, before>>

\* slice::swap.
Swapped(seq, i, j) == [seq EXCEPT ![i] = seq[j], ![j] = seq[i]]

\* Mutant: the value moves, its destination does not.
SwapDataOnly(other) ==
    /\ data' = Swapped(data, cursor, other)
    /\ bucket_positions' = [bucket_positions EXCEPT ![cursor] = cursor]
    /\ swaps' = swaps + 1

\* Mutant: only the storage is swapped, neither the map nor the counter follows.
SwapMapForgotten(other) ==
    data' = Swapped(data, cursor, other) /\ UNCHANGED <<bucket_positions, swaps>>

SwapEntries(other) ==
    /\ data' = Swapped(data, cursor, other)
    /\ bucket_positions' = Swapped(bucket_positions, cursor, other)
    /\ swaps' = swaps + 1

\* Phase B, the while loop: the entry at the cursor goes to its destination,
\* and what was there comes to the cursor, each with its own destination.
SwapToDestination ==
    /\ phase = "cycles" /\ cursor <= Len(data) /\ bucket_positions[cursor] # cursor
    /\ SwapEntries(bucket_positions[cursor])
    /\ UNCHANGED <<buckets, live_len, reply, phase, cursor, destination, before>>

\* The cycle through this place is closed.
CycleClosed ==
    /\ phase = "cycles" /\ cursor <= Len(data) /\ bucket_positions[cursor] = cursor
    /\ cursor' = cursor + 1
    /\ UNCHANGED <<vars, phase, destination, swaps, before>>

CyclesApplied ==
    /\ phase = "cycles" /\ cursor > Len(data)
    /\ Enter("rebind")
    /\ destination' = 1
    /\ UNCHANGED <<vars, swaps, before>>

\* Phase C, one bucket: its slots name the places from `start` on, and those
\* places its slots.
RebindBucket ==
    /\ phase = "rebind" /\ cursor <= Len(buckets)
    /\ LET slots == DOMAIN buckets[cursor]
           start == destination - 1
       IN  /\ buckets' = [buckets EXCEPT ![cursor] = [k \in slots |-> start + k]]
           /\ bucket_positions' = [q \in DOMAIN bucket_positions |->
                                      IF q > start /\ q - start \in slots
                                      THEN q - start ELSE bucket_positions[q]]
           /\ destination' = destination + Len(buckets[cursor])
    /\ cursor' = cursor + 1
    /\ UNCHANGED <<data, live_len, reply, phase, swaps, before>>

\* Mutant: the entries behind the live ones keep their destination.
RemarkedNone == bucket_positions

\* The entries behind the live ones marked removed again.
Remarked == [q \in DOMAIN bucket_positions |->
                IF q >= destination THEN REMOVED_POSITION ELSE bucket_positions[q]]

\* Empty buckets at the end go, and the call returns.
Finish ==
    /\ phase = "rebind" /\ cursor > Len(buckets)
    /\ bucket_positions' = Remarked
    /\ buckets' = ShrinkTrailing(buckets)
    /\ reply' = Reply("sarkar_sort", <<>>, NoId, TRUE)
    /\ phase' = "idle" /\ cursor' = 1 /\ destination' = 1 /\ swaps' = 0 /\ before' = NoIndex
    /\ UNCHANGED <<data, live_len>>

-------------------------------------------------------------------------------
SortStep ==
    \/ SortBucket \/ BucketsSorted
    \/ PlaceLive \/ LivePlaced \/ PlaceRemoved \/ RemovedPlaced
    \/ SwapToDestination \/ CycleClosed \/ CyclesApplied
    \/ RebindBucket \/ Finish

SortNext ==
    \/ phase = "idle" /\ StreamCall /\ UNCHANGED sort_vars
    \/ BeginSort
    \/ SortStep

SortSpec == SortInit /\ [][SortNext]_all_vars

\* A call of sarkar_sort runs on: its thread is not stopped for ever.
FairSortSpec == SortSpec /\ WF_all_vars(SortStep)

-------------------------------------------------------------------------------
(* Correctness.                                                            *)

\* The index the sort began with, as long as it runs.
Seen == IF phase = "idle" THEN self ELSE before

\* The phases together are the one step of Bwspi: whatever order Phase A gives
\* to equal values, the call ends with storage, buckets and position map as
\* SarkarSort describes them, and changes the live counter of no call.
Atomic == INSTANCE Bwspi WITH
              data <- Seen.data, buckets <- Seen.buckets,
              bucket_positions <- Seen.bucket_positions, live_len <- Seen.live_len

ImplementsBwspi == Atomic!Spec

\* The old place of what belongs at each place: first the live IDs in the order
\* of the sorted buckets, then the removed ones in the order of their IDs.
From ==
    [place \in DOMAIN data |->
        IF place <= Len(Sources) THEN Sources[place]
        ELSE CHOOSE id \in RemovedIds(before) :
                 Len(Sources) + Cardinality({r \in RemovedIds(before) : r <= id}) = place]

\* "Swapping map entries keeps the current element's destination attached to
\* it": all through the cycles the destinations are a permutation of storage,
\* each place holds the value its destination asks for, and the places behind
\* the cursor are done.
DestinationsAttached ==
    phase = "cycles" =>
        /\ {bucket_positions[q] : q \in DOMAIN data} = DOMAIN data
        /\ \A q \in DOMAIN data : data[q] = before.data[From[bucket_positions[q]]]
        /\ \A q \in 1 .. cursor - 1 : bucket_positions[q] = q

\* The debug_asserts of sort_in_place, at the points where it evaluates them:
\* the live destinations are as many as the live values, every place Phase C
\* binds holds a value of the bucket's width, and it binds as many.
AssertsHold ==
    /\ phase = "place_removed" /\ cursor = 1 => destination - 1 = live_len
    /\ phase = "rebind" /\ cursor <= Len(buckets) =>
          \A k \in DOMAIN buckets[cursor] :
              BitWidth(data[destination - 1 + k]) + 1 = cursor
    /\ phase = "rebind" /\ cursor > Len(buckets) => destination - 1 = live_len

Settled == {q \in DOMAIN data : bucket_positions[q] = q}

\* "Every element settles in-place": each swap brings one more entry to where
\* it stays, so a sort makes fewer swaps than storage has entries.
EverySwapSettles ==
    [][swaps' > swaps => /\ Settled \subseteq Settled' /\ Settled # Settled'
                         /\ swaps' < Len(data)]_all_vars

\* Every sort returns, although the cycle loop has no counter of its own.
SortReturns == phase # "idle" ~> phase = "idle"
================================================================================
