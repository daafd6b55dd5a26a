CONSTANTS
    Ids = {12, 2}
    Commands = {"L"}
    QMax = 2
    MaxSends = 3
    MaxStarts = 2
SPECIFICATION Spec
CHECK_DEADLOCK FALSE
PROPERTIES
    BroadcastForUsers
