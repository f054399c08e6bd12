----------------------------- MODULE MCSortInPlace -----------------------------
(* SortInPlace with the slices that fill storage at once, for TLC.         *)
EXTENDS SortInPlace

LOCAL SX == INSTANCE SequencesExt

MCBulks == SX!SeqOf(Values, Capacity)

\* The index and the sort without the last call.
MCSortStore == <<store, sort_vars>>
================================================================================
