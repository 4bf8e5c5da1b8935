SPECIFICATION FairSpec
CONSTANTS
    Threads = {t1, t2}
    MaxCalls = 3
    Units = 3
    Room = 2
INVARIANTS TypeOK FramesUnmixed FiledBeforeSent
PROPERTIES CallsReturn CallsAnswered
CHECK_DEADLOCK FALSE
