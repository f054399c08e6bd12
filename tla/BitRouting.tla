------------------------------ MODULE BitRouting ------------------------------
(***************************************************************************)
(* The routing function of the index: the bucket of an unsigned value is   *)
(* its binary width.  The code fixes the width of a word at 64; here it is *)
(* the constant BITS, so that TLC can enumerate a whole word.              *)
(***************************************************************************)
EXTENDS Naturals, FiniteSets

CONSTANT BITS \* u64::BITS

ASSUME BITSAssumption == BITS \in Nat \ {0}

PowerOfTwo(k) == 2^k

\* Every value of a word.
U64 == 0 .. PowerOfTwo(BITS) - 1

\* Mutant: a power of two counts one leading zero too many.
LeadingZerosAtMost(value) == Cardinality({k \in 0 .. BITS - 1 : value <= PowerOfTwo(k)})

\* u64::leading_zeros: one zero for every power of two of the word that is
\* greater than the value.
LeadingZeros(value) == Cardinality({k \in 0 .. BITS - 1 : value < PowerOfTwo(k)})

\* Mutant: the width of the lower half of the word, as a narrowing cast leaves.
BitWidthNarrowed(value) == BITS - LeadingZeros(value % PowerOfTwo(BITS \div 2))

\* bit_width: 0 for the value 0, otherwise the place of the highest set bit,
\* counted from 1.
BitWidth(value) == BITS - LeadingZeros(value)

-------------------------------------------------------------------------------
\* The range of values documented for the bucket of a width.
BucketRange(width) == IF width = 0 THEN {0} ELSE PowerOfTwo(width - 1) .. PowerOfTwo(width) - 1

===============================================================================
