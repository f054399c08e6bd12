\* Longer storage, three values: two of the widest bucket, and an unused bucket
\* between them and the narrowest.  The last call is left out of the state.
CONSTANTS
    BITS = 2
    Values = {0, 2, 3}
    Capacity = 5
    REMOVED_POSITION = 99
    Avx2Detected = TRUE
    Bulks <- MCBulks
SPECIFICATION Spec
VIEW MCStore
INVARIANTS TypeOK Consistent LiveCount TrailingTrimmed LookupsAgree SimdAgrees DistributionExact
PROPERTIES HistoryKept SortMatchesSnapshot
CHECK_DEADLOCK FALSE
