\* Lengths of up to five records, sizes on both sides of every comparison.
CONSTANTS
    HEADER = 2
    CACHE = 3
    Lengths = {1, 2, 5, 7, 10, 14, 21}
    Sizes = {0, 1, 2, 3, 4, 5, 6, 7, 25}
SPECIFICATION FairScan
INVARIANTS ReadsInBounds
PROPERTIES ScanReturns
CHECK_DEADLOCK FALSE
