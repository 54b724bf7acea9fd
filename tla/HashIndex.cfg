\* Statements on three rows, committed or rolled back; a table of two blocks of two slots.
CONSTANTS
    k1 = k1
    k2 = k2
    k3 = k3
    k4 = k4
    Keys = {k1, k2, k3, k4}
    Values = {r1, r2, r3}
    Hash <- MCHash
    NumBlocks = 2
    BlockArraySize = 2
    NoRow = NoRow
SPECIFICATION Spec
SYMMETRY Alike
INVARIANTS
    HitsAreRows
    MissingOnlyIfCrowdedOut
    FiledOnce
