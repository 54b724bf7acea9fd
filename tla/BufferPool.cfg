\* Two goroutines, two frames, three pages, every interleaving up to a clash.
CONSTANTS
    Threads = {g1, g2}
    Frames = {f1, f2}
    NumPages = 3
    MaxHeld = 2
    MaxWrites = 1
    MaxDeletes = 1
    None = None
SPECIFICATION Spec
SYMMETRY ThreadSymmetry
INVARIANTS
    UsedPageIsResident
    NoLostUpdate
    FramesAccounted
    PinCountCountsUsers
\* Nothing is followed beyond a clash.
CHECK_DEADLOCK FALSE
