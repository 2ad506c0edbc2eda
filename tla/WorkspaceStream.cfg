\* Two publishers that overtake each other, backpressure, a broken connection and
\* a crash; the log keeps the whole history.
SPECIFICATION Spec
CONSTANTS
    Publishers = {p1, p2}
    Workspace = ws
    SoftLimit = 1
    HardLimit = 2
    OutLimit = 1
    Retention = 4
    MaxSeq = 4
    MaxBreaks = 1
    MaxCrashes = 1
    None = None
SYMMETRY PublisherSymmetry
INVARIANTS
    NoSilentHole
    OnlyDeltasRepeat
\* MaxSeq and MaxBreaks end the behaviours.
CHECK_DEADLOCK FALSE
