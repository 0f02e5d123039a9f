SPECIFICATION Spec
CONSTANTS
    Calls = {c1, c2, c3}
    Phones = {p1, p2}
    Nicknames = {n1, n2}
    Channels = {ch1, ch2}
    None = None
    Known = TRUE
    CanFail = TRUE
CHECK_DEADLOCK FALSE
INVARIANTS
    KnownByTheirNickname
    StoredChannelWasLeft
    IntroNotRepeated
    ClashOnlyByRace
PROPERTIES
    NicknameStable
