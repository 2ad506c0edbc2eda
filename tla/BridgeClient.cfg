\* Two calls, a notification, a process that may exit at any point and a Close
\* that may come at any point, under the scheduling of the bridge's goroutines.
SPECIFICATION FairSpec
CONSTANTS
    Callers = {c1, c2}
    Note = Note
    None = None
    MaxNotes = 1
INVARIANTS
    NoPanic
    NoStrandedWaiter
    AnswerNotLost
PROPERTIES
    CallsReturnAfterClose
    ExitIsReported
\* Each caller makes one call and the process exits once: the bridge stops.
CHECK_DEADLOCK FALSE
