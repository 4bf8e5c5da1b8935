SPECIFICATION FairSpec
CONSTANTS
    Threads = {t1, t2}
    MaxCalls = 1
    MaxCrashes = 1
    Retries = 2
    MaxFds = 2
INVARIANTS TypeOK OwnResponse FailedNeverCalled CalledInSendOrder
PROPERTIES KeepsPromise AnsweredWhileConnected LossNoticed Reconnects StopReturns
CHECK_DEADLOCK FALSE
