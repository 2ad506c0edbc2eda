\* One delivery that comes again and again, an operator, a crash and a queue of
\* one, under the scheduling of the workers.
SPECIFICATION FairSpec
CONSTANTS
    Deliveries = {d1}
    Commands = {}
    Webhooks = {w1}
    Operators = {o1}
    Main = Main
    QueueSize = 1
    MaxCrashes = 1
    None = None
INVARIANTS
    NoStrandedJob
    OneAtATime
    FailedReplyStaysUnsent
PROPERTIES
    CompletedStays
    EveryDeliverySettles
\* A message that is settled may come to rest.
CHECK_DEADLOCK FALSE
