CONSTANTS
    MaxClients = 4
    Pids = {10, 20, 21}
    FamilyPids = {10, 20}
    None = None
    QMax = 2
    MaxKills = 2
    CHILD_NUM = 3
    SERVER_NUM = 5
SPECIFICATION MCSpec
CHECK_DEADLOCK FALSE
INVARIANTS
    HandlerNeverBlocks
    OneEach
    SemExclusive
PROPERTIES
    Accepted
    Answered
    SemEnds
    PoolEnds
