----------------------------- MODULE MCComparison -----------------------------
(* Three sizes: below, above and a multiple of the number of lookups.      *)
EXTENDS Comparison

MCSizes == <<2, 5, 6>>
===============================================================================
