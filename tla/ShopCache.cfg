SPECIFICATION FairSpec
CONSTANTS
    i1 = i1
    i2 = i2
    r2 = r2
    c1 = c1
    a = a
    b = b
    Instances = {i1, i2}
    Readers = {r2}
    Consumers = {c1}
    HostOf <- Hosts
    Contents = {a, b}
    MaxUpdates = 2
    MaxRetries = 2
    MaxFaults = 1
    MaxLosses = 1
    MaxRestarts = 1
    None = None
CHECK_DEADLOCK FALSE
INVARIANTS
    ShopTypeOK
    LastingEntryIsPending
PROPERTY
    CachesConverge
