\* Two attempts of one job, two stems, two failed calls.
SPECIFICATION FairSpec
CONSTANTS
    Stems = {"vocals", "drums"}
    Absent = Absent
    MaxAttempts = 2
    MaxFaults = 2
INVARIANTS
    TypeOK
    CompletedIsWhole
PROPERTIES CancelledIsStopped CancelEndsWork
CHECK_DEADLOCK FALSE
