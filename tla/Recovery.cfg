\* A committed row in the log, five more records of two transactions that commit,
\* abort or are cut off, and two crashes: the second may hit the recovery.
CONSTANTS
    t1 = t1
    t2 = t2
    small = small
    large = large
    NoTxn = NoTxn
    NoPage = NoPage
    Txns = {t1, t2}
    Tuples = {small, large}
    TupleSize <- MCTupleSize
    SlotSize = 1
    PageSpace = 6
    MaxSlots = 2
    MaxLog = 9
    MaxCrashes = 2
    Aborts = TRUE
SPECIFICATION Spec
SYMMETRY TxnSymmetry
INVARIANTS
    RedoRepeatsHistory
    ReversibleLosersRecover
\* After a recovery, or a panic in it, nothing more happens.
CHECK_DEADLOCK FALSE
