\* Every sequence of operations on one small page.
CONSTANTS
    a = a
    b = b
    c = c
    Tuples = {a, b, c}
    TupleSize <- MCTupleSize
    PageSize = 9
    HeaderSize = 1
    SlotSize = 1
    Garbage = Garbage
SPECIFICATION TablePageSpec
INVARIANTS
    TuplesTilePage
PROPERTY
    ImplementsSlotPage
