SPECIFICATION Spec
CONSTANTS
    u1 = u1
    u2 = u2
    None = None
    Self = Self
    Users <- OneUser
    Existing <- WithGap
    Targets <- AnyTarget
    Landings <- AnyLanding
    LastChannels <- AnyLastChannel
    Present = TRUE
    Denials = TRUE
    Moves = TRUE
    MaxDigits = 2
    MaxEvents = 3
CHECK_DEADLOCK FALSE
INVARIANTS
    SessionKnowsChannel
    TaskKnowsChannel
    ChimesExact
