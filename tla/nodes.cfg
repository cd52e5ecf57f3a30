SPECIFICATION Spec
CONSTANTS
    Jobs = {1, 2}
    Workload <- SweepAndFiller
    Nodes = {1, 2}
    NodeFlavor <- SameFlavor
    Capacity <- TwoNodes
    Resources <- CpuOnly
    NominalQuota <- TwoNominal
    HardQuota <- NoQuota
    DispatchBudget = 3
    BatchSize = 3
    FetchLimit = 3
    RoundSize = 1
    GapFilling = TRUE
    BinPacking = TRUE
    StallThreshold = 1
    DispatchTimeout = 2
    BackoffMax = 2
    MaxAttempts = 1
    MaxOutages = 1
    LookupFails = TRUE
    PromptStart = TRUE
PROPERTIES BatchCanBePlaced
CHECK_DEADLOCK FALSE
