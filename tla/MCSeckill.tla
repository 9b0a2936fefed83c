------------------------------ MODULE MCSeckill ------------------------------
(***************************************************************************)
(* Seckill on a small sale.  In the safety run u1 tries twice for a voucher *)
(* that u2 wants too; in the liveness run u1 buys a second voucher, so that *)
(* two of its messages contend for its distributed lock.                   *)
(***************************************************************************)
EXTENDS Seckill

CONSTANTS u1, u2, u3, v1, v2

Try(u, v, n) == [user |-> u, voucher |-> v, try |-> n]

SafetyRequests == {Try(u1, v1, 1), Try(u1, v1, 2), Try(u2, v1, 1), Try(u3, v1, 1)}
SafetyStock    == [v \in Vouchers |-> 2]

LiveRequests == {Try(u1, v1, 1), Try(u1, v2, 1)}
LiveStock    == [v \in Vouchers |-> IF v = v1 THEN 2 ELSE 1]
=============================================================================
