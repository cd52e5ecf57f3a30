\* Requests overtake each other, the daemons and a reset; the database refuses
\* closing writes, creates succeed without an answer, daemons crash.
CONSTANTS
    MaxJobs = 1
    Clients = {c1, c2}
    DispatchBudget = 1
    MaxRetries = 1
    MaxQueued = 1
    MaxResets = 1
    StallGuard = TRUE
    Faults = {"crash", "api_race", "db_error", "lost_reply"}
SPECIFICATION Spec
 
PROPERTIES ContractUnlessBlind
SYMMETRY AnyClient
VIEW WithoutHistory
