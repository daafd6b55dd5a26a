CONSTANTS
    Clients = {1, 2, 3}
    None = None
    File = File
    MAX_CLI_NUM = 2
    MaxLines = 3
    MaxFd = 6
    MaxRequests = 2
SPECIFICATION MCSpec
CHECK_DEADLOCK FALSE
INVARIANTS
    Tracked
    ReadNeverBlocks
PROPERTIES
    Served
    RequestsHandled
