SPECIFICATION Spec
CONSTANTS
    u1 = u1
    u2 = u2
    v1 = v1
    v2 = v2
    u3 = u3
    Users = {u1, u2, u3}
    Vouchers = {v1}
    Consumers = {c1, c2}
    None = None
    MaxAttempts = 2
    MaxFaults = 2
    Requests <- SafetyRequests
    Stock <- SafetyStock
INVARIANTS
    TypeOK
    RedisLedger
    DbLedger
    OneOrderPerUser
    ReservedHasStock
PROPERTIES
    SaleSpec
    DeliverableUntilOrdered
