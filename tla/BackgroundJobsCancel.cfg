SPECIFICATION Spec
CONSTANTS
  j1 = j1
  Jobs <- OneJob
  Runs = {r1, r2}
  Workers = {w1, w2}
  Clients = {c1}
  JobOf <- AllRunsOfJ1
  Scheduled <- NoSchedule
  Scheduler = scheduler
  QueueSize = 1
  MaxCrashes = 0
  None = None
PROPERTY CanceledStaysCanceled
CHECK_DEADLOCK FALSE
