\* One socket that switches between two jobs.
SPECIFICATION FairSpec
CONSTANTS
    Sockets = {s1}
    Jobs = {a, b}
    NoJob = NoJob
    Last = 1
    MaxCommands = 2
    MaxFaults = 1
INVARIANTS TypeOK SubscriptionsAreCurrent
PROPERTIES UpdatesMoveForward IntervalsServe
CHECK_DEADLOCK FALSE
