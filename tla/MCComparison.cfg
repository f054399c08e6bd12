\* The comparison's searches, for data smaller and larger than the lookups made.
CONSTANTS
    SIZES <- MCSizes
    SEARCH_ITERS = 3
    HOT_ROUNDS = 2
    Fastest = 2
    Slowest = 3
SPECIFICATION SearchSpec
INVARIANTS PerLookupInRange
CHECK_DEADLOCK FALSE
