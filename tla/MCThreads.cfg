CONSTANTS
    ProRounds = 3
    ConRounds = 3
    DataMax = 4
    MaxSpurious = 2
    Arg = 20
    Ret = 10
    ReaderIds = {t1, t2}
    Nobody = Nobody
    FileSize = 5
    BUF_SIZE = 2
    Half = 4
    MaxFaults = 2
SPECIFICATION MCSpec
CHECK_DEADLOCK FALSE
INVARIANTS
    NoLostWakeup
    NoEmptyRound
    DestroyedUnused
    Accounted
PROPERTIES
    ProConOutcome
    EndsOrHangs
    ReadersEnd
