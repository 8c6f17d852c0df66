\* Two replicas and two events in batches of two, one fault, one signal.
SPECIFICATION FairSpec
CONSTANTS
    Replicas = {r1, r2}
    MaxEvents = 2
    Batch = 2
    MaxFaults = 1
    MaxSignals = 1
INVARIANTS
    TypeOK
    DuplicatesNeedFaults
    ResourcesOutliveUsers
PROPERTIES
    ImplementsDelivery
    ListenerStarts
