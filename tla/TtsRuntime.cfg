SPECIFICATION FairSpec
CONSTANTS
    r1 = r1
    r2 = r2
    r3 = r3
    p1 = p1
    p2 = p2
    None = None
    Requests <- ThreeRequests
    Phrases <- TwoPhrases
    Capacity = 1
    RetryAttempts = 2
CHECK_DEADLOCK FALSE
INVARIANTS
    OneSynthesisPerPhrase
    WaitersAreServed
    RecoveringHasBurst
    QueueMatchesMap
PROPERTIES
    RequestsAnswered
    RecoveryEnds
