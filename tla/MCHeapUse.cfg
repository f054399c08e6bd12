\* The allocator's view of the index and its own, over every use of it.
CONSTANTS
    BITS = 2
    Values = {0, 2, 3}
    Capacity = 3
    REMOVED_POSITION = 99
    MIN_NON_ZERO_CAP = 1
    Earlier = {0, 16}
    MaxAllocs = 8
    Bulks <- MCBulks
SPECIFICATION HeapSpec
VIEW MCHeap
INVARIANTS SelfReportExact
PROPERTIES GrowsOnlyToLink
CHECK_DEADLOCK FALSE
