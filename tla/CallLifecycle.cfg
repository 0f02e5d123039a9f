SPECIFICATION FairSpec
CONSTANTS
    k1 = k1
    k2 = k2
    s1 = s1
    s2 = s2
    None = None
    Calls <- TwoCalls
    Slots <- TwoSlots
    MaxCalls = 2
    Recycle = FALSE
    Faults = {"add_port"}
CHECK_DEADLOCK FALSE
INVARIANTS
    PortNeverLost
    NoFreeWhileAttached
    NoDanglingPort
    EstablishedHasMedia
    WaitingSetupReachable
PROPERTIES
    ImplementsPortContract
    SetupTerminates
    PortReclaimed
