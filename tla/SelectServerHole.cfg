CONSTANTS
    Clients = {1, 2, 3}
    None = None
    MAX_CLI_NUM = 2
    MaxLines = 1
SPECIFICATION Spec
CHECK_DEADLOCK FALSE
PROPERTIES
    WrittenBack
