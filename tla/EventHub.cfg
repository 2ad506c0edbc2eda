\* A workspace subscriber with a consumer that may stop reading, two publishers;
\* limits small enough that the soft limit, the hard limit, eviction and
\* displacement are all reached.
SPECIFICATION FairSpec
CONSTANTS
    w1 = w1
    None = None
    Publishers = {p1, p2}
    Workspaces = {w1}
    WorkspaceOf <- OneWorkspace
    PublishedKinds = {"delta", "critical"}
    SoftLimit = 1
    HardLimit = 2
    OutLimit = 1
    MaxSeq = 3
INVARIANTS
    NothingVanishes
    LossAnnounced
    CoverageExact
    PublisherOrder
PROPERTIES
    ControlUndroppable
    EveryEventSettles
    PublishReturns
\* The bound MaxSeq ends the publishers.
CHECK_DEADLOCK FALSE
