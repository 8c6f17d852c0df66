SPECIFICATION Spec
CONSTANTS
    Jobs = {j1, j2}
    Owners = {o1}
    Workers = {w1, w2}
    Partitions = {p1}
    OwnerOf <- OneOwner
    PartitionOf <- OnePartition
    None = None
    MaxActive = 2
    MaxAttempts = 1
    MaxFaults = 2
SYMMETRY FullSymmetry
VIEW PipelineView
INVARIANTS
    QueueSafety
PROPERTIES
    ImplementsLifecycle
CHECK_DEADLOCK FALSE
