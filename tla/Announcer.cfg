SPECIFICATION FairSpec
CONSTANTS
    Rooms = {lobby, attic}
    Users = {u1}
    Names = {ann, bob}
    None = None
    OnConnect = TRUE
    Debounces = TRUE
    CanFail = TRUE
    MaxPackets = 3
CHECK_DEADLOCK FALSE
INVARIANTS
    NoTextSkipped
    NeverTwiceInARow
PROPERTIES
    OnlyFinalRoom
    FinalRoomAnnounced
