SPECIFICATION Spec
CONSTANTS
    RingFrames = 2
    QueueCapacity = 2
    HoldMax = 2
    CanFail = TRUE
    MaxFrames = 7
CHECK_DEADLOCK FALSE
INVARIANTS
    GateFollowsVoice
    FramesAccountedFor
    TalkEnds
PROPERTIES
    HeardInOrder
