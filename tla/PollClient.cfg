SPECIFICATION PollFairSpec
CONSTANTS
    Threads = {t1, t2}
    MaxCalls = 1
    MaxCrashes = 1
    Retries = 2
    MaxFds = 1
    BigThreads = {t2}
INVARIANT PollTypeOK
PROPERTIES KeepsPromise AnsweredOrDropped
CHECK_DEADLOCK FALSE
