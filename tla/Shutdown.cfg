SPECIFICATION FairSpec
CONSTANTS
    Calls = {c1, c2, c3}
    Numbered = {c1, c2}
    MaxCalls = 2
CHECK_DEADLOCK FALSE
INVARIANTS
    NoWriteCutOff
PROPERTIES
    SignalEnds
    StartupEnds
    EarlyCallsHeard
