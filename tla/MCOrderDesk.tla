----------------------------- MODULE MCOrderDesk -----------------------------
(* OrderDesk on one voucher: the constants TLC's configurations use.       *)
EXTENDS OrderDesk

CONSTANTS u1, u2, v1

MCRequests == {[user |-> u, voucher |-> v1, try |-> 1] : u \in Users}

MCStock == [v \in Vouchers |-> Cardinality(Users)]
=============================================================================
