SPECIFICATION DeskSpec
CONSTANTS
    u1 = u1
    u2 = u2
    v1 = v1
    Users = {u1, u2}
    Vouchers = {v1}
    Consumers = {c1}
    Clients = {k1}
    Reapers = {d1}
    None = None
    MaxAttempts = 2
    MaxFaults = 1
    DelayUsed = FALSE
    Requests <- MCRequests
    Stock <- MCStock
PROPERTIES
    OnlyOpenOrdersCancelled
