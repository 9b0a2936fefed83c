SPECIFICATION FairSpec
CONSTANTS
    Calls = {c1, c2}
    WindowMax = 2
    Threshold = 2
    MaxRetry = 1
    MaxFaults = 1
INVARIANTS
    ChatTypeOK
    KeepsRecent
    WindowBounded
    OnlyFirstForgotten
    TurnsCounted
PROPERTIES
    CallsEnd
CHECK_DEADLOCK FALSE
