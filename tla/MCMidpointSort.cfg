\* Every bucket of two to five values of four bits, with room for two
\* partitions before the fallback.  The thread runs on.
CONSTANTS
    BITS = 4
    MaxLen = 5
    INSERTION_SORT_CUTOFF = 2
    MIDPOINT_PARTITION_BUDGET = 2
SPECIFICATION FairSpec
INVARIANTS OnlyPendingUnsorted RangeHalved FallBackOnlyWhenWide StackLimited WorkBounded
PROPERTIES MidpointReturns
CHECK_DEADLOCK FALSE
