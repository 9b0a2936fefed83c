SPECIFICATION FairSpec
CONSTANTS
    u1 = u1
    u2 = u2
    u3 = u3
    v1 = v1
    v2 = v2
    Users = {u1}
    Vouchers = {v1, v2}
    Consumers = {c1, c2}
    None = None
    MaxAttempts = 2
    MaxFaults = 2
    Requests <- LiveRequests
    Stock <- LiveStock
PROPERTIES
    EveryMessageSettles
    EveryMessageBecomesOrder
