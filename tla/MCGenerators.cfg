\* Every kind of data on a six-bit word, from every seed.  Counting ends.
CONSTANTS
    BITS = 6
    Shifts <- MCShifts
    Seeds <- MCSeeds
    Clusters <- MCClusters
    Mixture <- MCMixture
    MissTarget = 50
SPECIFICATION Spec
INVARIANTS RangesPartition BucketsOrdered NeverStuck
PROPERTIES DataAsTitled
CHECK_DEADLOCK FALSE
