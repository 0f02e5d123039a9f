SPECIFICATION Spec
CONSTANTS
    k1 = k1
    k2 = k2
    s1 = s1
    s2 = s2
    None = None
    Calls <- TwoCalls
    Slots <- OneSlot
    MaxCalls = 1
    Recycle = TRUE
    Faults <- AllFaults
SYMMETRY Symmetry
CHECK_DEADLOCK FALSE
INVARIANTS
    PortHeldOnce
    CancelledNeverActive
