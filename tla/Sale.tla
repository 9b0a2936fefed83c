-------------------------------- MODULE Sale --------------------------------
(***************************************************************************)
(* What the flash sale promises, whatever machinery stands behind it: a    *)
(* voucher is granted to at most Stock[v] users, to each of them once, and *)
(* a grant is turned into an order at most once and is never withdrawn.    *)
(***************************************************************************)
EXTENDS Naturals, FiniteSets

CONSTANTS Users,     \* the buyers
          Vouchers,  \* the seckill vouchers
          Stock      \* Stock[v]: pieces of v on sale

VARIABLES granted,   \* granted[v]: users entitled to v
          fulfilled  \* fulfilled[v]: users whose entitlement became an order

Init == /\ granted = [v \in Vouchers |-> {}]
        /\ fulfilled = [v \in Vouchers |-> {}]

Grant(u, v) ==
    /\ u \notin granted[v]
    /\ Cardinality(granted[v]) < Stock[v]
    /\ granted' = [granted EXCEPT ![v] = @ \union {u}]
    /\ UNCHANGED fulfilled

Fulfil(u, v) ==
    /\ u \in granted[v] \ fulfilled[v]
    /\ fulfilled' = [fulfilled EXCEPT ![v] = @ \union {u}]
    /\ UNCHANGED granted

Next == \E u \in Users, v \in Vouchers : Grant(u, v) \/ Fulfil(u, v)

Spec == Init /\ [][Next]_<<granted, fulfilled>>
=============================================================================
