----------------------------- MODULE CacheTopology -----------------------------
(***************************************************************************)
(* How the hardware benchmark reads the cache topology from Windows: one   *)
(* call asks for the length, a second one fills a buffer of that length,   *)
(* and a scan takes the buffer apart, record by self-describing record.    *)
(*                                                                         *)
(* Between the calls the topology may change.  Of the bytes in the buffer  *)
(* the scan relies on nothing but the length, so that a header may be any. *)
(***************************************************************************)
EXTENDS Naturals

CONSTANTS HEADER,  \* size of a LogicalProcessorHeader
          CACHE,   \* size of a CacheRelationship
          Lengths, \* what the topology may take
          Sizes    \* sizes a header may give

ASSUME TopologyAssumption ==
    /\ HEADER \in Nat \ {0} /\ CACHE \in Nat
    /\ Lengths \subseteq Nat \ {0} /\ Sizes \subseteq Nat

VARIABLES stage,     \* the call or loop it is in
          allocated, \* the length of the buffer
          length,    \* the length the last call has returned
          offset,    \* the place of the next record
          header,    \* the header of the record the scan is at
          read,      \* the end of the last read
          caches     \* cache records found

scan_vars == <<stage, allocated, length, offset, header, read, caches>>

Headers == [is_cache : BOOLEAN, size : Sizes]

NoHeader == [is_cache |-> FALSE, size |-> 0]

ScanInit ==
    /\ stage = "ask"
    /\ allocated = 0 /\ length = 0 /\ offset = 0 /\ read = 0 /\ caches = 0
    /\ header = NoHeader

\* The first call fails for want of a buffer, and tells its length.
Ask ==
    /\ stage = "ask"
    /\ length' \in Lengths
    /\ allocated' = length'
    /\ stage' = "fill"
    /\ UNCHANGED <<offset, header, read, caches>>

\* It fails for another reason, or there is nothing to tell.
AskRefused ==
    /\ stage = "ask"
    /\ stage' = "returned"
    /\ UNCHANGED <<allocated, length, offset, header, read, caches>>

\* The second call: the topology still fits.
Fill ==
    /\ stage = "fill"
    /\ \E needed \in Lengths : needed <= allocated /\ length' = needed
    /\ stage' = "scan"
    /\ UNCHANGED <<allocated, offset, header, read, caches>>

\* It has grown, or the call fails: no caches are reported.
FillRefused ==
    /\ stage = "fill"
    /\ length' \in Lengths
    /\ stage' = "returned"
    /\ UNCHANGED <<allocated, offset, header, read, caches>>

ReadHeader ==
    /\ stage = "scan" /\ offset + HEADER <= length
    /\ header' \in Headers
    /\ read' = offset + HEADER
    /\ stage' = "record"
    /\ UNCHANGED <<allocated, length, offset, caches>>

\* Mutant: a size of no more than the header is not refused.
WellFormedAnySize == offset + header.size <= length

\* The record is longer than its header and ends inside the buffer.
WellFormed == header.size > HEADER /\ offset + header.size <= length

\* Mutant: the record is not asked whether a cache fits in it.
HoldsCacheUnchecked == header.is_cache

HoldsCache == header.is_cache /\ header.size >= HEADER + CACHE

TakeRecord ==
    /\ stage = "record" /\ WellFormed
    /\ IF HoldsCache
       THEN read' = offset + HEADER + CACHE /\ caches' = caches + 1
       ELSE UNCHANGED <<read, caches>>
    /\ offset' = offset + header.size
    /\ stage' = "scan"
    /\ UNCHANGED <<allocated, length, header>>

\* The scan breaks off at a record it cannot step over.
BreakOff ==
    /\ stage = "record" /\ ~ WellFormed
    /\ stage' = "returned"
    /\ UNCHANGED <<allocated, length, offset, header, read, caches>>

EndScan ==
    /\ stage = "scan" /\ offset + HEADER > length
    /\ stage' = "returned"
    /\ UNCHANGED <<allocated, length, offset, header, read, caches>>

ScanNext ==
    \/ Ask \/ AskRefused \/ Fill \/ FillRefused
    \/ ReadHeader \/ TakeRecord \/ BreakOff \/ EndScan

ScanSpec == ScanInit /\ [][ScanNext]_scan_vars

\* The program runs on.
FairScan == ScanSpec /\ WF_scan_vars(ScanNext)

-------------------------------------------------------------------------------
(* Correctness.                                                            *)

\* No read goes past the bytes the second call has written, and those are in the
\* buffer of the first: whatever the headers say, and if the topology has shrunk
\* in between.  No two caches are read from the same bytes.
ReadsInBounds ==
    stage \in {"scan", "record"} \/ read > 0 =>
        /\ read <= length /\ offset <= length /\ length <= allocated
        /\ caches * (HEADER + CACHE) <= offset

\* The scan ends, whatever sizes the headers give.
ScanReturns == <>(stage = "returned")
================================================================================
