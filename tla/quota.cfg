SPECIFICATION Spec
CONSTANTS
    Jobs = {1, 2, 3}
    Workload <- ThreeForTwo
    Nodes = {1}
    NodeFlavor <- OneFlavor
    Capacity <- OneNode
    Resources <- CpuOnly
    NominalQuota <- OneNominal
    HardQuota <- TightQuota
    DispatchBudget = 3
    BatchSize = 3
    FetchLimit = 3
    RoundSize = 1
    GapFilling = TRUE
    BinPacking = FALSE
    StallThreshold = 1
    DispatchTimeout = 2
    BackoffMax = 2
    MaxAttempts = 1
    MaxOutages = 0
    LookupFails = FALSE
    PromptStart = TRUE
INVARIANTS TypeOK
PROPERTIES QuotaUsedWell HorizonShrinks
CHECK_DEADLOCK FALSE
