SPECIFICATION Spec
CONSTANTS
    MaxClients = 1
    MaxRequests = 1
    MaxFds = 2
    Room = 1
INVARIANTS DeletedOnce
CHECK_DEADLOCK FALSE
