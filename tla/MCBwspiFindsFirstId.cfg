\* find answers in bucket order, which removals permute.
CONSTANTS
    BITS = 2
    Values = {0, 1, 2, 3}
    Capacity = 3
    REMOVED_POSITION = 99
    Avx2Detected = TRUE
    Bulks <- MCBulks
SPECIFICATION Spec
INVARIANT FindsFirstId
CHECK_DEADLOCK FALSE
