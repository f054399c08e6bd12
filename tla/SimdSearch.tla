------------------------------ MODULE SimdSearch ------------------------------
(***************************************************************************)
(* simd_contains: the lookup that compares the values of a bucket four at  *)
(* a time where the CPU has AVX2, and one at a time where it has not.      *)
(* Lanes are compared for equality of all bits, so that reading them as    *)
(* signed words changes nothing.                                           *)
(***************************************************************************)
EXTENDS Bwspi

CONSTANT Avx2Detected \* is_x86_feature_detected!("avx2")

ASSUME Avx2Assumption == Avx2Detected \in BOOLEAN

\* The lanes of a 256-bit register.
Lanes == 4

\* bucket_indices, for the places from first to last.
ScalarScan(bucket, first, last, target) ==
    \E k \in first .. last : data[bucket[k]] = target

\* chunks_exact(4): the number of whole chunks.
Chunks(bucket) == Len(bucket) \div Lanes

\* Mutant: the remainder of chunks_exact is not scanned.
Avx2ScanNoTail(bucket, target) ==
    \E chunk \in 0 .. Chunks(bucket) - 1 : \E lane \in 1 .. Lanes :
        data[bucket[Lanes * chunk + lane]] = target

\* One comparison per chunk, then the remainder as in the fallback.
Avx2Scan(bucket, target) ==
    \/ \E chunk \in 0 .. Chunks(bucket) - 1 : \E lane \in 1 .. Lanes :
          data[bucket[Lanes * chunk + lane]] = target
    \/ ScalarScan(bucket, Lanes * Chunks(bucket) + 1, Len(bucket), target)

SimdContains(target) ==
    LET bucket == GetBucket(buckets, BitWidth(target))
    IN  /\ bucket # <<>>
        /\ IF Avx2Detected
           THEN Avx2Scan(bucket, target)
           ELSE ScalarScan(bucket, 1, Len(bucket), target)

\* The vectorised lookup answers like contains, for every length of a bucket,
\* whatever of it is left over by the chunks of four (simd.rs).
SimdAgrees ==
    \A target \in Values : SimdContains(target) <=> Contains(target)
===============================================================================
