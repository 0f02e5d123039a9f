SPECIFICATION Spec
CONSTANTS
    Calls = {c1, c2}
    Phones = {p1}
    Nicknames = {n1, n2}
    Channels = {ch1}
    None = None
    Known = FALSE
    CanFail = FALSE
CHECK_DEADLOCK FALSE
INVARIANTS
    NewKnownByTheirNickname
