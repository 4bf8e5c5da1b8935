SPECIFICATION FairSpec
CONSTANTS
    kHeadSize = 2
    BufferSizes <- SmallBuffers
    BodySizes <- MixedBodies
    MaxFrames = 4
INVARIANTS TypeOK InBounds RoomToRead HeadIsLive HandledAsSent MoveDisjoint
PROPERTY EventuallyHandled
CHECK_DEADLOCK FALSE
