------------------------------- MODULE Ordering -------------------------------
(***************************************************************************)
(* sort_unstable, by its result: what it orders are numbers, equal ones    *)
(* cannot be told apart.                                                   *)
(***************************************************************************)
EXTENDS Naturals, FiniteSets, Functions, FiniteSetsExt

\* The elements of a sequence that are at most v.
AtMost(s, v) == {j \in DOMAIN s : s[j] <= v}

\* The k-th place of the sorted sequence receives the least of its values that
\* at least k of its elements do not exceed.
Ascending(s) ==
    [k \in DOMAIN s |-> Min({v \in Range(s) : k <= Cardinality(AtMost(s, v))})]
===============================================================================
