SPECIFICATION FairSpec
CONSTANTS
    Clients = {c1, c2}
    FileLimits = {2, 3}
    kHeadSize = 1
    BufferSize = 4
    BodySizes = {0, 1, 4}
    MaxFrames = 2
    Room = 1
    None = None
    Unset = Unset
INVARIANTS TypeOK EventsCurrent HandledAsSent
PROPERTIES EventuallyHandled HangupFrees
CHECK_DEADLOCK FALSE
