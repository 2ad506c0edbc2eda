\* A job with a schedule and a run of it, two workers, a client and a crash,
\* under the scheduling of the service.
SPECIFICATION FairSpec
CONSTANTS
    j1 = j1
    Jobs <- OneJob
    Runs = {r1}
    Workers = {w1, w2}
    Clients = {c1}
    JobOf <- AllRunsOfJ1
    Scheduled <- OneJob
    Scheduler = scheduler
    QueueSize = 1
    MaxCrashes = 1
    None = None
INVARIANTS
    MarkHeldByWorker
    NoOrphanRun
    ScheduleKept
    ActiveRunAccountedFor
PROPERTIES
    ActiveRunSettles
    SendersReturn
\* Nobody has to trigger, and the run comes to an end.
CHECK_DEADLOCK FALSE
