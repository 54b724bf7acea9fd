\* Every sequence of Unpin, Pin and Victim on four frames.
CONSTANTS
    Frames = {f1, f2, f3, f4}
    NoFrame = NoFrame
SPECIFICATION ClockSpec
INVARIANTS
    ListIsCircle
    HandLeadsToHead
PROPERTY
    ImplementsReplacer
