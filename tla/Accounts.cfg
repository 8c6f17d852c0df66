\* Two browsers, two accounts, three requests, one failed transaction.
SPECIFICATION FairSpec
CONSTANTS
    Users = {u1, u2}
    Browsers = {b1, b2}
    Files = {f1, f2}
    MaxActive = 1
    MaxRequests = 3
    MaxFaults = 1
INVARIANTS
    TypeOK
    AdmissionLimits
    DeletionIsComplete
PROPERTIES
    AdoptedOnce
    RequestsEnd
CHECK_DEADLOCK FALSE
