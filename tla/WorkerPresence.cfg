\* Two workers, two overlapping requests, two mishaps of any kind.
SPECIFICATION FairSpec
CONSTANTS
    Workers = {w1, w2}
    Requests = {r1, r2}
    MaxMishaps = 2
INVARIANTS
    RegistryTypeOK
    PresenceIsTrue
PROPERTY
    PageFollowsWorkers
