SPECIFICATION FairSpec
CONSTANTS
    Calls = {t1, t2}
    NoCall = NoCall
    Room = 1
    MisreadSizes = {0, 2}
    MaxCrashes = 1
    MaxConns = 3
    Retries = 1
    MaxFds = 1
INVARIANTS TypeOK OwnResponse
PROPERTIES NothingLingers CallsReturn
CHECK_DEADLOCK FALSE
