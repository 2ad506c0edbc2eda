SPECIFICATION Spec
CONSTANTS
  Callers = {c1}
  Operators = {}
  MaxInstances = 1
  MaxProcs = 2
  MaxConfigs = 0
CHECK_DEADLOCK FALSE
INVARIANTS NoDeadClient
