\* One job, two requests at a time, three requests that change it; a flavor
\* with GPUs and an image of its own and one without.
CONSTANTS
    cpu = cpu
    gpu = gpu
    MaxJobs = 1
    Clients = {c1, c2}
    MaxSets = 3
    MaxSyncs = 1
    Flavors = {cpu, gpu}
    DefaultFlavor = cpu
    GpuFlavors = {gpu}
    ImageOf <- MCImageOf
    Images = {"cuda", "own"}
    NoImage = "unset"
    PodImages = {"own", "unset"}
    Wishes <- MCWishes
    Changes <- MCChanges
    Widths = {1, 2}
    Tables <- MCTables
SPECIFICATION Spec
SYMMETRY Symmetry
CHECK_DEADLOCK FALSE
INVARIANTS TypeOK  RowIsWhole
