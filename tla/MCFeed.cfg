SPECIFICATION FairSpec
CONSTANTS
    a1 = a1
    Users = {u1, u2}
    Authors = {a1}
    Blogs = {b1}
    Author <- MCAuthor
    Threads = {t1, t2, t3}
    MaxCalls = 4
    MaxFaults = 1
    None = None
INVARIANTS
    FeedTypeOK
    StoresAgree
    SteadyFollowersServed
PROPERTIES
    SavedIsServed
CHECK_DEADLOCK FALSE
