\* Plans of up to five executors over tables of up to three rows.
CONSTANTS
    Null = Null
    True = True
    False = False
    NilRow = NilRow
    NoPredicate = NoPredicate
    IntBits = 3
    Tables <- MCTables
    Predicates <- MCPredicates
    Havings <- MCHavings
    Hash <- MCHash
    RowSizes = {6, 7}
    TmpPageSize = 12
    TmpHeader = 2
    Word = 256
    Grants = {1, 3, 99}
    MaxNodes = 5
    MaxRows = 3
SPECIFICATION Spec
INVARIANTS
    JoinIsEquiJoin
    GroupsAreAggregated
    SortedAsAsked
    OnlyKnownPanics
\* The plan is complete.
CHECK_DEADLOCK FALSE
