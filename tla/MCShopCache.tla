----------------------------- MODULE MCShopCache -----------------------------
(* ShopCache on two instances: the listener runs on i1, the reader on i2.  *)
EXTENDS ShopCache

CONSTANTS i1, i2, r2, c1, a, b

Hosts == [t \in Readers \union Consumers |-> IF t = r2 THEN i2 ELSE i1]
=============================================================================
