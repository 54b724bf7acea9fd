\* One crash, nobody aborts: a crash inside Commit, after a delete was applied.
CONSTANTS
    t1 = t1
    t2 = t2
    small = small
    large = large
    NoTxn = NoTxn
    NoPage = NoPage
    Txns = {t1, t2}
    Tuples = {small, large}
    TupleSize <- MCTupleSize
    SlotSize = 1
    PageSpace = 6
    MaxSlots = 2
    MaxLog = 8
    MaxCrashes = 1
    Aborts = FALSE
SPECIFICATION Spec
SYMMETRY TxnSymmetry
INVARIANT
    RecoveryRestoresCommitted
CHECK_DEADLOCK FALSE
