\* Two jobs.  Requests and the Dispatcher write rows while the Watcher decides;
\* the API server may refuse deletions, a finished Job may expire unseen.
CONSTANTS
    MaxJobs = 2
    Clients = {c1}
    DispatchBudget = 1
    MaxRetries = 1
    MaxQueued = 2
    MaxResets = 0
    StallGuard = TRUE
    Faults = {"watch_race", "refused", "early_ttl"}
SPECIFICATION Spec
INVARIANTS TypeOK WaitingHasNoJob FailedHasEnded BilledOnce
PROPERTIES OutcomeFinal WithinBudget KeepsOrder
