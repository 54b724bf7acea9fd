\* Two goroutines, fair; a buffer of one long record or two header-only ones.
CONSTANTS
    Threads = {g1, g2}
    Pages = {p1}
    NoPage = NoPage
    NoThread = NoThread
    Sizes = {2}
    HeaderSize = 1
    LogBufferSize = 2
    MaxLSN = 3
SPECIFICATION FairSpec
CHECK_DEADLOCK FALSE
INVARIANTS
    EachRecordOnce
    AckedCommitIsDurable
    PageRecordsInOrder
    ThreadRecordsInOrder
PROPERTY
    CallsReturn
