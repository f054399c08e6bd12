-------------------------------- MODULE MCBwspi --------------------------------
(* The index with small slices for insert_bulk, for TLC.                   *)
EXTENDS SimdSearch, Observability

LOCAL SX == INSTANCE SequencesExt

\* Every slice of at most two values, the empty one among them.
MCBulks == SX!SeqOf(Values, 2)

\* The index without the last call, for the properties that do not look at it.
MCStore == store
===============================================================================
