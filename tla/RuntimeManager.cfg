\* A caller that starts and answers, an operator, two instances, two processes,
\* under the scheduling of the goroutines.
SPECIFICATION FairSpec
CONSTANTS
    Callers = {c1}
    Operators = {o}
    MaxInstances = 2
    MaxProcs = 2
    MaxConfigs = 1
INVARIANTS
    ReadyHasClient
    SettledOnce
    
PROPERTY OperationsReturn
\* The bounds end the behaviours.
CHECK_DEADLOCK FALSE
