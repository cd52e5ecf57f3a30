SPECIFICATION FairSpec
CONSTANTS
    Jobs = {1, 2, 3}
    Workload <- LargeAmongSmall
    Nodes = {1}
    NodeFlavor <- OneFlavor
    Capacity <- OneNode
    Resources <- CpuOnly
    NominalQuota <- OneNominal
    HardQuota <- NoQuota
    DispatchBudget = 3
    BatchSize = 3
    FetchLimit = 3
    RoundSize = 2
    GapFilling = TRUE
    BinPacking = FALSE
    StallThreshold = 1
    DispatchTimeout = 3
    BackoffMax = 2
    MaxAttempts = 1
    MaxOutages = 0
    LookupFails = FALSE
    PromptStart = TRUE
INVARIANTS KeepsOrder
PROPERTIES EveryJobStarts
CHECK_DEADLOCK FALSE
