\* Two goroutines create up to three tables of one or two columns under one
\* name, with one restart at any moment.
CONSTANTS
    c1 = c1
    c2 = c2
    Creators = {c1, c2}
    Names = {"t"}
    NoTable = NoTable
    MaxColumns = 2
    MaxTables = 3
    MaxRestarts = 1
SPECIFICATION CatalogSpec
SYMMETRY CreatorSymmetry
INVARIANTS
    ReloadIsFaithful
    TablesHaveTheirOwnPages
\* Everything allowed by the bounds has been done.
CHECK_DEADLOCK FALSE
