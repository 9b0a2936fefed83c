SPECIFICATION FairSpec
CONSTANTS
    Users = {u1, u2}
    Blogs = {b1, b2}
    Threads = {t1, t2}
    Schedulers = {s1, s2}
    Batch = 1
    MaxClicks = 3
    MaxFaults = 1
    None = None
INVARIANTS
    LikesTypeOK
    RankLedger
PROPERTIES
    CountSettles
    NewestCountKept
CHECK_DEADLOCK FALSE
