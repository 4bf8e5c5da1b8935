SPECIFICATION Spec
CONSTANTS
    Clients = {c1}
    FileLimits = {2}
    kHeadSize = 1
    BufferSize = 4
    BodySizes = {1}
    MaxFrames = 1
    Room = 1
    None = None
    Unset = Unset
INVARIANT BodyPassed
CHECK_DEADLOCK FALSE
