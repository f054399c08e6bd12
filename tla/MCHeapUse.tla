------------------------------- MODULE MCHeapUse -------------------------------
(* HeapUse with small slices for insert_bulk, for TLC.                     *)
EXTENDS HeapUse

LOCAL SX == INSTANCE SequencesExt

MCBulks == SX!SeqOf(Values, 2)

\* The index and the heap without the last call.
MCHeap == <<store, heap_vars>>
================================================================================
