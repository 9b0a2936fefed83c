SPECIFICATION DeskFairSpec
CONSTANTS
    u1 = u1
    u2 = u2
    v1 = v1
    Users = {u1}
    Vouchers = {v1}
    Consumers = {c1, c2}
    Clients = {k1, k2}
    Reapers = {d1, d2}
    None = None
    MaxAttempts = 2
    MaxFaults = 2
    DelayUsed = TRUE
    Requests <- MCRequests
    Stock <- MCStock
INVARIANTS
    DeskTypeOK
    NotOverstocked
PROPERTIES
    ClosedStaysClosed
    OverdueCancelled
