SPECIFICATION Spec
CONSTANTS
    Threads = {t1}
    MaxCalls = 1
    Units = 2
    Room = 1
INVARIANTS WritesWhole
CHECK_DEADLOCK FALSE
