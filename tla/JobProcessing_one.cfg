\* One job, with liveness: no symmetry.
SPECIFICATION FairSpec
CONSTANTS
    Jobs = {j1}
    Owners = {o1}
    Workers = {w1, w2}
    Partitions = {p1}
    OwnerOf <- OneOwner
    PartitionOf <- OnePartition
    None = None
    MaxActive = 2
    MaxAttempts = 2
    MaxFaults = 1
INVARIANTS
    TypeOK
    ExclusiveProcessing
    SettlingIsComplete
    AttemptsBounded
PROPERTIES
    EveryJobSettles
    ShutdownCompletes
CHECK_DEADLOCK FALSE
