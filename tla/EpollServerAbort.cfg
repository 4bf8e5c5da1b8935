SPECIFICATION Spec
CONSTANTS
    MaxClients = 2
    MaxRequests = 1
    MaxFds = 3
    Room = 1
INVARIANTS WritesWhole
CHECK_DEADLOCK FALSE
