\* Every value of a two-bit word; every call with what it returned.
CONSTANTS
    BITS = 2
    Values = {0, 1, 2, 3}
    Capacity = 3
    REMOVED_POSITION = 99
    Avx2Detected = TRUE
    Bulks <- MCBulks
SPECIFICATION Spec
PROPERTIES RefinesLiveIndex SortIdempotent
CHECK_DEADLOCK FALSE
