\* Two flavors, two users, two administrators with two commands in all; the
\* settings may be broken, missing or at odds at first, nodes come and go once.
CONSTANTS
    cpu = cpu
    gpu = gpu
    a1 = a1
    a2 = a2
    n1 = n1
    n2 = n2
    Flavors = {cpu, gpu}
    Keys <- SomeKeys
    Lists <- SomeLists
    Blanks = TRUE
    Asks <- WithHuge
    Tables <- NodeTables
    Fallback <- NoNodes
    Width = 10000
    InitialQuota <- StartQuota
    Namespaces = {n1, n2}
    Admins = {a1, a2}
    MaxCommands = 2
    MaxSyncs = 1
SPECIFICATION Spec
SYMMETRY Symmetry
CHECK_DEADLOCK FALSE
INVARIANTS TypeOK SomeoneIsServed
PROPERTIES  ConfigAgrees
