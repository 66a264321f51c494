SPECIFICATION Spec
CONSTANTS
    Tables <- MCTables
    Queries <- MCQueries
    MaxPairs = 12
    MinInList = 4
INVARIANT Executable
INVARIANT MeaningKept
INVARIANT JoinOrderSound
CHECK_DEADLOCK FALSE
