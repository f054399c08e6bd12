\* Every slice of 2-bit values, two runs after the one that is not counted.
CONSTANTS
    BITS = 2
    Values = {0, 1, 2, 3}
    Capacity = 4
    REMOVED_POSITION = 99
    RUNS = 3
    LOOKUPS = 2
    UPDATE_STEP = 2
    Bulks = {}
    Slices <- MCSlices
SPECIFICATION WorkloadSpec
INVARIANTS EachRunAlone SameWork
CHECK_DEADLOCK FALSE
