------------------------------ MODULE Comparison ------------------------------
(***************************************************************************)
(* The searches of the comparison program: for each size of the data, six  *)
(* searches - targets present and absent, in each of three structures -    *)
(* and for each search a cold pass and HOT_ROUNDS hot ones, timed as a     *)
(* whole and reported per lookup.                                          *)
(*                                                                         *)
(* Time is what the lookups of a pass take, in whole ticks; the division   *)
(* of a duration drops the rest.  The heap columns are in HeapUse, the     *)
(* distribution in Observability.                                          *)
(***************************************************************************)
EXTENDS Sampling, Sequences, FiniteSets

CONSTANTS SIZES,        \* the sizes of the data, in order
          SEARCH_ITERS,
          HOT_ROUNDS,
          Fastest, Slowest \* bounds on what one lookup takes

ASSUME ComparisonAssumption ==
    /\ SIZES \in Seq(Nat \ {0})
    /\ SEARCH_ITERS \in Nat \ {0} /\ HOT_ROUNDS \in Nat \ {0}
    /\ Fastest \in Nat /\ Slowest \in Nat /\ Fastest <= Slowest

VARIABLES size,    \* which of SIZES the data has
          search,  \* which of Searches is running
          round,   \* 0 in the cold pass, then the hot round
          made,    \* lookups made in this pass
          elapsed, \* what they took
          total,   \* what the hot passes before took
          cold,    \* what the cold pass took
          per_lookup \* what is reported of the last search

search_vars == <<size, search, round, made, elapsed, total, cold, per_lookup>>

Searches == <<"hit", "hit", "hit", "miss", "miss", "miss">>

NoReport == [kind |-> "none", n |-> 0, cold |-> 0, hot |-> 0]

Running == size <= Len(SIZES) /\ search <= Len(Searches)

\* Every search is divided by the number of hit targets.
Iters == TargetCount(SIZES[size], SEARCH_ITERS)

\* The lookups of a pass: one for each target, or for a count.
Lookups == IF Searches[search] = "hit" THEN Iters ELSE SEARCH_ITERS

SearchInit ==
    /\ size = 1 /\ search = 1
    /\ round = 0 /\ made = 0 /\ elapsed = 0 /\ total = 0 /\ cold = 0
    /\ per_lookup = NoReport

Lookup ==
    /\ Running /\ made < Lookups
    /\ made' = made + 1
    /\ \E ticks \in Fastest .. Slowest : elapsed' = elapsed + ticks
    /\ UNCHANGED <<size, search, round, total, cold, per_lookup>>

PassDone == Running /\ made = Lookups

NextPass == made' = 0 /\ elapsed' = 0

ColdDone ==
    /\ PassDone /\ round = 0
    /\ NextPass
    /\ cold' = elapsed
    /\ round' = 1
    /\ UNCHANGED <<size, search, total, per_lookup>>

HotDone ==
    /\ PassDone /\ round \in 1 .. HOT_ROUNDS - 1
    /\ NextPass
    /\ total' = total + elapsed
    /\ round' = round + 1
    /\ UNCHANGED <<size, search, cold, per_lookup>>

\* Mutant: the hot passes are added up and not averaged.
SearchDoneTotal ==
    /\ PassDone /\ round = HOT_ROUNDS
    /\ NextPass
    /\ per_lookup' = [kind |-> Searches[search], n |-> SIZES[size],
                      cold |-> cold \div Iters, hot |-> (total + elapsed) \div Iters]
    /\ total' = 0 /\ cold' = 0 /\ round' = 0
    /\ search' = search + 1
    /\ UNCHANGED size

\* The last hot pass: the average of the hot ones, and both per lookup.
SearchDone ==
    /\ PassDone /\ round = HOT_ROUNDS
    /\ NextPass
    /\ per_lookup' = [kind |-> Searches[search], n |-> SIZES[size],
                      cold |-> cold \div Iters,
                      hot |-> ((total + elapsed) \div HOT_ROUNDS) \div Iters]
    /\ total' = 0 /\ cold' = 0 /\ round' = 0
    /\ search' = search + 1
    /\ UNCHANGED size

NextSize ==
    /\ size <= Len(SIZES) /\ search > Len(Searches)
    /\ size' = size + 1 /\ search' = 1
    /\ UNCHANGED <<round, made, elapsed, total, cold, per_lookup>>

SearchNext == Lookup \/ ColdDone \/ HotDone \/ SearchDone \/ NextSize

SearchSpec == SearchInit /\ [][SearchNext]_search_vars

-------------------------------------------------------------------------------
(* Correctness.                                                            *)

InRange(report) ==
    /\ report.cold \in Fastest .. Slowest
    /\ report.hot \in Fastest .. Slowest

\* What is reported per lookup is what a lookup of that search may have taken,
\* through both averages and their rounding: for hits always, for misses as long
\* as the data is no smaller than the number of lookups.
PerLookupInRange ==
    per_lookup.kind = "hit" \/ per_lookup.n >= SEARCH_ITERS => InRange(per_lookup)

-------------------------------------------------------------------------------
(* What the program prints and does not do.                                *)

\* The table's heading "MISS (per lookup)", and the tables of
\* docs/benchmarks.md for the smallest size.
MissPerLookup == per_lookup.kind = "miss" => InRange(per_lookup)
===============================================================================
