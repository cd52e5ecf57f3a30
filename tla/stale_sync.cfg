\* A cancel lands between the Watcher's load and its commit.
CONSTANTS
    MaxJobs = 1
    Clients = {c1}
    DispatchBudget = 1
    MaxRetries = 2
    MaxQueued = 2
    MaxResets = 0
    StallGuard = TRUE
    Faults = {"watch_race"}
SPECIFICATION Spec
PROPERTY IntentKept
