SPECIFICATION FairSpec
CONSTANTS
    Threads = {t1}
    MaxCalls = 1
    MaxCrashes = 1
    Retries = 1
    MaxFds = 2
PROPERTIES UnansweredDropped
CHECK_DEADLOCK FALSE
