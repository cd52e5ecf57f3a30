\* A released version, a newer one and a pre-release; two administrators with
\* two commands, two terminals with an update each.
CONSTANTS
    Versions = {1, 2, 3}
    Stable = {1, 2}
    Admins = {a1, a2}
    Terminals = {t1, t2}
    MaxCommands = 2
    MaxUpdates = 2
SPECIFICATION Spec
SYMMETRY Symmetry
CHECK_DEADLOCK FALSE
INVARIANTS TypeOK SettledIsWritten
PROPERTIES LatestIsServed ReleaseIsWhole
