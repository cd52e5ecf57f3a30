\* Everything but overtaken requests: crashes, lost replies, refused and slow
\* deletions, Jobs that expire unseen.
CONSTANTS
    MaxJobs = 1
    Clients = {c1}
    DispatchBudget = 1
    MaxRetries = 2
    MaxQueued = 2
    MaxResets = 1
    StallGuard = TRUE
    Faults = {"crash", "lost_reply", "refused", "slow_delete", "early_ttl"}
SPECIFICATION FairSpec
PROPERTIES KeepsContract UnwantedIsStopped ResetCompletes DispatchMovesOn EndIsReported
