CONSTANT MaxClients = 4
SPECIFICATION Spec
CHECK_DEADLOCK FALSE
PROPERTIES
    ZombiesReaped
