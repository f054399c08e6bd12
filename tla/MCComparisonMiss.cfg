\* What the table of searches calls the time of a miss.
CONSTANTS
    SIZES <- MCSizes
    SEARCH_ITERS = 3
    HOT_ROUNDS = 2
    Fastest = 2
    Slowest = 3
SPECIFICATION SearchSpec
INVARIANTS MissPerLookup
CHECK_DEADLOCK FALSE
