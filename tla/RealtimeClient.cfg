\* Three lost connections start the fallback; the fourth fault may hit a poll.
SPECIFICATION FairSpec
CONSTANTS
    Last = 2
    MaxPolls = 2
    MaxFaults = 4
INVARIANTS TypeOK ConnectionsAreBounded
PROPERTY EndIsNoticed
CHECK_DEADLOCK FALSE
