\* Three transactions, four calls, up to three pages of two tuples.
CONSTANTS
    t1 = t1
    t2 = t2
    t3 = t3
    tuple = tuple
    TxnIDs = {t1, t2, t3}
    NoTxn = NoTxn
    RIDs <- MCRIDs
    Tuples = {tuple}
    TupleSize <- OneSize
    SlotSize = 1
    PageSpace = 5
    MaxPages = 3
    MaxOps = 4
    NoPage = NoPage
    Unused = Unused
    Raw = Raw
SPECIFICATION Spec
SYMMETRY TxnSymmetry
INVARIANTS
    ScanIsComplete
    PinsAccounted
    HeapIsChain
\* Transactions end; a goroutine that went astray does nothing more.
CHECK_DEADLOCK FALSE
