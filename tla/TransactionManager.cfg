\* Two transactions, tuples of one size, a page of two tuples and one of overflow.
CONSTANTS
    t1 = t1
    t2 = t2
    small = small
    big = big
    TxnIDs = {t1, t2}
    NoTxn = NoTxn
    RIDs <- MCRIDs
    Tuples = {small, big}
    TupleSize <- EqualSizes
    SlotSize = 1
    PageSpace = 5
    MaxOps = 3
    StopOnAbort = TRUE
SPECIFICATION Spec
SYMMETRY TxnSymmetry
INVARIANTS
    DirtyReadsOnlyBesideUpgrade
    UnlockedIsCommitted
    CheckpointIsQuiescent
    LockSetsMatchTables
    NoLeakedLocks
    ForeignReaderOnlyBesideUpgrade
PROPERTY
    LocksKeptUntilRelease
