\* One job, an old and a new Dispatcher, one Watcher, two commands: a stop and a start.
CONSTANTS
    Jobs = {j1}
    Dispatchers = {d1, d2}
    Watchers = {w1}
    MaxCommands = 2
SPECIFICATION Spec
CHECK_DEADLOCK FALSE
INVARIANTS TypeOK CalmStopIsClean 
PROPERTIES NothingIsStuck
