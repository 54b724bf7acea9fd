\* Tuples of two sizes: updates that do not fit move the tuple.  Fair goroutines;
\* the clients may keep a transaction open for ever.
CONSTANTS
    t1 = t1
    t2 = t2
    small = small
    big = big
    TxnIDs = {t1, t2}
    NoTxn = NoTxn
    RIDs <- MovingRIDs
    Tuples = {small, big}
    TupleSize <- TwoSizes
    SlotSize = 1
    PageSpace = 4
    MaxOps = 2
    StopOnAbort = TRUE
SPECIFICATION FairSpec
INVARIANT
    UndoAssertionsHold
PROPERTIES
    LockDiscipline
    WriterHoldsLock
    OperationsReturn
    CheckpointProceeds
