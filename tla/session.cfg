\* A terminal that runs every command and one that only looks, two jobs at a
\* time, three altogether: enough for an id to be used again after a reset.
CONSTANTS
    Users = {user}
    Viewers = {viewer}
    MaxJobs = 2
    MaxUids = 3
    Sweeps = {2}
    Completions = 1
    Expressions <- MCExpressions
    MaxPolls = 1
    MaxLooks = 1
    MaxOutput = 1
    LateStart = FALSE
SPECIFICATION Spec
INVARIANTS TypeOK 
PROPERTIES  WaitEnds FollowerCatchesUp
