\* Every sort of every index that calls on storage of four entries can build,
\* and a running sort keeps running.  The last call is left out of the state.
CONSTANTS
    BITS = 2
    Values = {0, 2, 3}
    Capacity = 4
    REMOVED_POSITION = 99
    Bulks <- MCBulks
SPECIFICATION FairSortSpec
VIEW MCSortStore
INVARIANTS DestinationsAttached AssertsHold
PROPERTIES ImplementsBwspi EverySwapSettles SortReturns
CHECK_DEADLOCK FALSE
