\* Two goroutines in Flush, one of which closes the store, a transient caller, the
\* worker and a failing write.
SPECIFICATION FairSpec
CONSTANTS
    Transients = {t1}
    Flushers = {main, other}
    Closers = {main}
    Worker = worker
    MaxVersion = 2
    MaxFailures = 1
INVARIANTS
    FlushedIsOnDisk
PROPERTIES
    FlushAndCloseReturn
    ChangesReachDisk
    ImplementsWriteBehind
\* A store with nothing to write stops.
CHECK_DEADLOCK FALSE
