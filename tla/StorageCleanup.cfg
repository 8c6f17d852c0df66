\* Two processes, batches of two jobs, one fault.
SPECIFICATION FairSpec
CONSTANTS
    Jobs = {j1, j2}
    Owners = {o1}
    OwnerOf <- OneOwner
    Stems = {"vocals"}
    Cleaners = {c1, c2}
    BatchSize = 2
    MaxFaults = 1
INVARIANTS
    TypeOK
    StorageSafety
    ClaimSafety
PROPERTIES
    StorageEnds
CHECK_DEADLOCK FALSE
