\* Two workloads of three runs, with costs on both sides of the step of the
\* counter and none at all, one in each of the four units, and up to two failing
\* calls for each.  The request of three elements is one too few, the other is
\* one more than two for each target.
CONSTANTS
    RUNS = 3
    LOOKUPS = 4
    DEFAULT_ELEMENTS = 9
    Requested = {3, 9}
    Rows = 2
    WarmCosts = {0, 3, 6, 9}
    ColdCosts = {12}
    Quantum = 5
    WorkingSets = {2, 3}
    MaxFailures = 2
    DurationBase = 2
    DurationParts <- MCDurationParts
SPECIFICATION Spec
INVARIANTS RowSummarises FailuresOutvoted OnlyWarmSamples TargetsAsReported PrintedInOrder
CHECK_DEADLOCK FALSE
