\* Two starts, one of them with a clientTurnRequestId, an interrupter that may
\* come back any number of times, a process that may exit at any point and one
\* recycle, after which the second instance has no process.
SPECIFICATION Spec
CONSTANTS
    Starters = {s1, s2}
    Labelled = {s1}
    Interrupters = {i1}
    MaxProcs = 1
    MaxInstances = 2
    None = None
INVARIANTS
    
    EndedTurnStaysOut
    LabelIsRight
\* Each start is made once and the bounds end the rest.
CHECK_DEADLOCK FALSE
