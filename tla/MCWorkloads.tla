------------------------------ MODULE MCWorkloads ------------------------------
(* Workloads on every slice of a bounded length, for TLC.                  *)
EXTENDS Workloads

LOCAL SX == INSTANCE SequencesExt

MCSlices == {slices \in SX!SeqOf(Values, Capacity) : Len(slices) >= LOOKUPS}
================================================================================
