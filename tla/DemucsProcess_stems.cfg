\* A database call fails while the first child runs.
SPECIFICATION Spec
CONSTANTS
    Stems = {"vocals", "drums"}
    Absent = Absent
    MaxAttempts = 2
    MaxFaults = 1
INVARIANT OwnResults
CHECK_DEADLOCK FALSE
