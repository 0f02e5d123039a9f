SPECIFICATION FairSpec
CONSTANTS
    s1 = s1
    s2 = s2
    Speakers <- TwoSpeakers
    PacketFrames <- AnyPacket
    MaxPackets = 2
    QueueCapacity = 2
    RingFrames = 2
    IdleTimeout = 1
    SampleRate = 200
    Effects <- AnEffect
    Phrases <- APhrase
    MaxArrivals = 3
    MaxSounds = 2
CHECK_DEADLOCK FALSE
INVARIANTS
    PlayedInOrder
PROPERTIES
    IdleHadNothing
    QueuesDrain
    SoundsGiven
