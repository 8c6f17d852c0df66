\* A request that arrived before the account was deleted.
SPECIFICATION Spec
CONSTANTS
    Users = {u1}
    Browsers = {b1}
    Files = {f1}
    MaxActive = 1
    MaxRequests = 3
    MaxFaults = 0
INVARIANT DeletedOwnsNothing
CHECK_DEADLOCK FALSE
