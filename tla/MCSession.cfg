SPECIFICATION FairSpec
CONSTANTS
    Phones = {p1, p2, p3}
    Invalid = {p3}
    Tabs = {b1}
    Threads = {t1, t2}
    Tokens = {k1, k2}
    MaxFaults = 1
    None = None
INVARIANTS
    SessionTypeOK
    HolderIsCaller
    HeldTokensEnd
PROPERTIES
    SentToLogin
    DoomedUntilLogin
CHECK_DEADLOCK FALSE
