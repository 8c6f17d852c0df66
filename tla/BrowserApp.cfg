\* Two accounts, one old job and one new, three actions of the user, two updates
\* in flight, one fault.
SPECIFICATION Spec
CONSTANTS
    Accounts = {alice, bob}
    Visitor = Visitor
    Nobody = Nobody
    ActiveLimit = 1
    MaxJobs = 2
    MaxActions = 3
    MaxUpdates = 2
    MaxFaults = 1
SYMMETRY Symmetry
INVARIANTS
    TypeOK
    ScreenIsConsistent
    WorkspaceMatchesIdentity
    FlagsFollowCalls
\* The user may do nothing more.
CHECK_DEADLOCK FALSE
