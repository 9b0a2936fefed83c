---------------------------- MODULE SeckillProofs ----------------------------
(***************************************************************************)
(* Theorems about the flash-sale pipeline, for any sets of users, vouchers, *)
(* requests and consumers, any published stock and any number of faults.   *)
(*                                                                         *)
(* The argument.  Only Reserve adds to Reserved and to bought, and it does *)
(* both at once, for a user not yet in bought: so reserved requests and    *)
(* bought users correspond one to one (ReservedOnce, RedisLedger).  All    *)
(* that travels through the queue and the consumers, and every row, is a   *)
(* reserved request (GatePassed).  From its UPDATE to its commit a         *)
(* consumer is alone on the stock row (RowOwned), so what it tested is     *)
(* still true when it commits: this carries DbLedger.                      *)
(*                                                                         *)
(* A listener ends a message for nothing only if it counts an order of the *)
(* same user, which the gate makes the order of this message, or finds the *)
(* stock sold, which ReservedHasStock excludes while the message has no    *)
(* row; all else puts it back.  So a message stays deliverable until its   *)
(* order is in the table (InTime).                                         *)
(***************************************************************************)
EXTENDS Seckill, Functions, FiniteSetTheorems, TLAPS

\* Whatever is queued, in hand or stored has passed the Lua gate.
GatePassed ==
    /\ \A r \in Requests : queue[r] > 0 \/ status[r] # "none" => r \in Reserved
    /\ \A c \in Consumers : cmsg[c] # None => cmsg[c] \in Reserved

\* The gate lets each user through once per voucher.
ReservedOnce ==
    \A q, r \in Reserved : q.user = r.user /\ q.voucher = r.voucher => q = r

\* A transaction past its UPDATE is alone on a published stock row that still
\* has the piece it takes, and past its INSERT its row is still new.
RowOwned ==
    \A c \in Consumers : cpc[c] \in HoldsRow =>
        /\ pub[cmsg[c].voucher] = "live"
        /\ dbStock[cmsg[c].voucher] > 0
        /\ cpc[c] \in {"saved", "unlocked"} => status[cmsg[c]] = "none"
        /\ \A d \in Consumers :
              cpc[d] \in HoldsRow /\ cmsg[d].voucher = cmsg[c].voucher => d = c

BoughtFinite == \A v \in Vouchers : IsFiniteSet(bought[v])

\* A voucher whose row is not committed has sold nothing.
UnpublishedIsUnsold ==
    \A v \in Vouchers : pub[v] # "live" => dbStock[v] = Absent /\ OrdersOf(v) = {}

\* The part of the invariant that does not depend on what becomes of an order
\* after its creation.
PipelineInv ==
    /\ TypeOK /\ GatePassed /\ ReservedOnce /\ RowOwned /\ BoughtFinite
    /\ RedisLedger /\ UnpublishedIsUnsold

IInv == PipelineInv /\ DbLedger

-----------------------------------------------------------------------------
(* What a request is.                                                      *)
LEMMA RequestFields ==
    ASSUME NEW r \in Requests
    PROVE  r.user \in Users /\ r.voucher \in Vouchers
  BY SeckillAssumption

(* Which steps touch the order table, the stock row or the published state. *)
LEMMA DbFrame ==
    ASSUME [Next]_vars
    PROVE  \/ \E v \in Vouchers : CommitVoucher(v)
           \/ \E c \in Consumers : Commit(c)
           \/ /\ UNCHANGED <<dbStock, status>>
              /\ TypeOK => \A v \in Vouchers : pub'[v] = "live" <=> pub[v] = "live"
  <1> USE DEF dbVars, reqVars, redisVars, consVars, pubVars, Reject, Enqueue, Fault
  <1>1. ASSUME NEW v \in Vouchers, Publication(v), ~ CommitVoucher(v)
        PROVE  /\ UNCHANGED <<dbStock, status>>
               /\ TypeOK => \A w \in Vouchers : pub'[w] = "live" <=> pub[w] = "live"
    BY <1>1 DEF Publication, CacheStock, InsertStock, RollbackVoucher, TypeOK
  <1>2. ASSUME NEW r \in Requests, Request(r)
        PROVE  UNCHANGED <<dbStock, status, pub>>
    BY <1>2 DEF Request, Refuse, Reserve, Publish, PublishLost, PublishThrows, RequestDies
  <1>3. ASSUME NEW c \in Consumers, Progress(c) \/ Mishap(c), ~ Commit(c)
        PROVE  UNCHANGED <<dbStock, status, pub>>
    BY <1>3 DEF Progress, Mishap, Deliver, CountOrders, DeductStock, AcquireLock,
                LockTimeout, SaveOrder, DuplicateKey, Unlock, UnlockThrows, Ack,
                ListenerThrows, ConsumerCrash
  <1>4. ASSUME NEW u \in Users, LeaseExpires(u)
        PROVE  UNCHANGED <<dbStock, status, pub>>
    BY <1>4 DEF LeaseExpires
  <1>5. CASE UNCHANGED vars
    BY <1>5 DEF vars
  <1>6. QED
    BY <1>1, <1>2, <1>3, <1>4, <1>5 DEF Next, Step, Rest

(* Which steps touch the gate: its key, its set, or the reserved requests. *)
LEMMA RedisFrame ==
    ASSUME TypeOK, [Next]_vars
    PROVE  \/ \E v \in Vouchers : CacheStock(v)
           \/ \E r \in Requests : Reserve(r)
           \/ /\ UNCHANGED <<redisStock, bought>>
              /\ Reserved' = Reserved
              /\ \A v \in Vouchers : pub'[v] = "new" <=> pub[v] = "new"
  <1> USE DEF dbVars, reqVars, redisVars, consVars, pubVars, Reject, Enqueue, Fault,
              Reserved
  <1>1. ASSUME NEW v \in Vouchers, Publication(v), ~ CacheStock(v)
        PROVE  /\ UNCHANGED <<redisStock, bought, rpc>>
               /\ \A w \in Vouchers : pub'[w] = "new" <=> pub[w] = "new"
    BY <1>1 DEF Publication, CommitVoucher, InsertStock, RollbackVoucher, TypeOK
  <1>2. ASSUME NEW r \in Requests, Request(r), ~ Reserve(r)
        PROVE  UNCHANGED <<redisStock, bought, pub>> /\ Reserved' = Reserved
    BY <1>2 DEF Request, Refuse, Publish, PublishLost, PublishThrows, RequestDies, TypeOK
  <1>3. ASSUME NEW c \in Consumers, Progress(c) \/ Mishap(c)
        PROVE  UNCHANGED <<redisStock, bought, pub, rpc>>
    BY <1>3 DEF Progress, Mishap, Deliver, CountOrders, DeductStock, AcquireLock,
                LockTimeout, SaveOrder, DuplicateKey, Unlock, UnlockThrows, Ack, Commit,
                ListenerThrows, ConsumerCrash
  <1>4. ASSUME NEW u \in Users, LeaseExpires(u)
        PROVE  UNCHANGED <<redisStock, bought, pub, rpc>>
    BY <1>4 DEF LeaseExpires
  <1>5. CASE UNCHANGED vars
    BY <1>5 DEF vars
  <1>6. QED
    BY <1>1, <1>2, <1>3, <1>4, <1>5 DEF Next, Step, Rest

-----------------------------------------------------------------------------
LEMMA InitInv == Init => IInv
  <1> SUFFICES ASSUME Init PROVE IInv
    OBVIOUS
  <1>1. TypeOK
    BY SeckillAssumption DEF Init, TypeOK, PubStates, RequestStates, ConsumerStates,
                             OrderStates, Absent
  <1>2. GatePassed /\ ReservedOnce /\ RowOwned
    BY DEF Init, GatePassed, ReservedOnce, RowOwned, Reserved, HoldsRow
  <1>3. BoughtFinite /\ RedisLedger
    BY FS_EmptySet DEF Init, BoughtFinite, RedisLedger, Reserved
  <1>4. DbLedger /\ UnpublishedIsUnsold
    BY DEF Init, DbLedger, UnpublishedIsUnsold, OrdersOf, Rows
  <1>5. QED
    BY <1>1, <1>2, <1>3, <1>4 DEF IInv, PipelineInv

LEMMA TypeStep == PipelineInv /\ [Next]_vars => TypeOK'
  <1> SUFFICES ASSUME PipelineInv, [Next]_vars PROVE TypeOK'
    OBVIOUS
  <1> USE SeckillAssumption
      DEF TypeOK, dbVars, reqVars, redisVars, consVars, pubVars, PubStates,
          RequestStates, ConsumerStates, OrderStates, Absent
  <1>0. TypeOK /\ RowOwned
    BY DEF PipelineInv
  <1>1. ASSUME NEW v \in Vouchers, Publication(v) PROVE TypeOK'
    <2>1. CASE CacheStock(v)
      BY <1>0, <2>1 DEF CacheStock
    <2>2. CASE InsertStock(v)
      BY <1>0, <2>2 DEF InsertStock
    <2>3. CASE CommitVoucher(v)
      BY <1>0, <2>3 DEF CommitVoucher
    <2>4. CASE RollbackVoucher(v)
      BY <1>0, <2>4 DEF RollbackVoucher, Fault
    <2>5. QED
      BY <1>1, <2>1, <2>2, <2>3, <2>4 DEF Publication
  <1>2. ASSUME NEW r \in Requests, Request(r) PROVE TypeOK'
    <2>1. CASE Refuse(r)
      BY <1>0, <2>1 DEF Refuse
    <2>2. CASE Reserve(r)
      <3>1. r.user \in Users /\ r.voucher \in Vouchers
        BY RequestFields
      <3>2. redisStock' \in [Vouchers -> Nat \union {Absent}]
        BY <1>0, <2>2, <3>1 DEF Reserve, SoldOut
      <3>3. bought' \in [Vouchers -> SUBSET Users]
        BY <1>0, <2>2, <3>1 DEF Reserve
      <3>4. QED
        BY <1>0, <2>2, <3>2, <3>3 DEF Reserve
    <2>3. CASE Publish(r)
      BY <1>0, <2>3 DEF Publish, Enqueue
    <2>4. CASE PublishLost(r) \/ RequestDies(r)
      BY <1>0, <2>4 DEF PublishLost, RequestDies, Fault
    <2>5. CASE PublishThrows(r)
      <3>1. rpc' \in [Requests -> RequestStates]
        BY <1>0, <2>5 DEF PublishThrows
      <3>2. attempts' \in [Requests -> Nat] /\ queue' \in [Requests -> Nat]
        BY <1>0, <2>5 DEF PublishThrows, Enqueue
      <3>3. QED
        BY <1>0, <2>5, <3>1, <3>2 DEF PublishThrows, Fault
    <2>6. QED
      BY <1>2, <2>1, <2>2, <2>3, <2>4, <2>5 DEF Request
  <1>3. ASSUME NEW c \in Consumers, NEW r \in Requests, Deliver(c, r) PROVE TypeOK'
    BY <1>0, <1>3 DEF Deliver, Goto
  <1>4. ASSUME NEW c \in Consumers,
               CountOrders(c) \/ DeductStock(c) \/ SaveOrder(c) \/ Ack(c)
        PROVE  TypeOK'
    <2>1. CASE CountOrders(c) \/ DeductStock(c)
      <3>1. \E pc \in {"settled", "unordered", "deducted"} : cpc' = [cpc EXCEPT ![c] = pc]
        BY <2>1 DEF CountOrders, DeductStock, Goto
      <3>2. cpc[c] # "idle"
        BY <2>1 DEF CountOrders, DeductStock
      <3>3. QED
        BY <1>0, <2>1, <3>1, <3>2 DEF CountOrders, DeductStock
    <2>2. CASE SaveOrder(c)
      BY <1>0, <2>2 DEF SaveOrder, Goto
    <2>3. CASE Ack(c)
      BY <1>0, <2>3 DEF Ack, Goto
    <2>4. QED
      BY <1>4, <2>1, <2>2, <2>3
  <1>a. ASSUME NEW c \in Consumers, cpc[c] # "idle"
        PROVE  cmsg[c] \in Requests /\ cmsg[c].user \in Users /\ cmsg[c].voucher \in Vouchers
    <2>1. cmsg[c] \in Requests
      BY <1>0, <1>a
    <2>2. QED
      BY <2>1, RequestFields
  <1>5. ASSUME NEW c \in Consumers, AcquireLock(c) \/ Unlock(c) PROVE TypeOK'
    <2>1. cpc[c] # "idle"
      BY <1>5 DEF AcquireLock, Unlock
    <2>2. cmsg[c].user \in Users
      BY <2>1, <1>a
    <2>3. lock' \in [Users -> Consumers \union {None, "orphan"}]
      BY <1>0, <1>5, <2>2 DEF AcquireLock, Unlock
    <2>4. QED
      BY <1>0, <1>5, <2>3 DEF AcquireLock, Unlock, Goto
  <1>6. ASSUME NEW c \in Consumers, Commit(c) PROVE TypeOK'
    <2>1. cpc[c] # "idle" /\ cpc[c] \in HoldsRow
      BY <1>6 DEF Commit, HoldsRow
    <2>2. cmsg[c] \in Requests /\ cmsg[c].voucher \in Vouchers
      BY <2>1, <1>a
    <2>3. dbStock[cmsg[c].voucher] > 0
      BY <1>0, <2>1 DEF RowOwned
    <2>4. dbStock' \in [Vouchers -> Nat \union {Absent}]
      BY <1>0, <1>6, <2>2, <2>3 DEF Commit
    <2>5. status' \in [Requests -> OrderStates]
      BY <1>0, <1>6, <2>2 DEF Commit
    <2>6. QED
      BY <1>0, <1>6, <2>4, <2>5 DEF Commit, Goto
  <1>7. ASSUME NEW c \in Consumers,
               LockTimeout(c) \/ DuplicateKey(c) \/ UnlockThrows(c)
               \/ ListenerThrows(c) \/ ConsumerCrash(c)
        PROVE  TypeOK'
    <2>1. Reject(c) /\ cpc[c] # "idle"
      BY <1>7 DEF LockTimeout, DuplicateKey, UnlockThrows, ListenerThrows, ConsumerCrash
    <2>2. lock' \in [Users -> Consumers \union {None, "orphan"}] /\ faults' \in Nat
      BY <1>0, <1>7 DEF LockTimeout, DuplicateKey, UnlockThrows, ListenerThrows,
                        ConsumerCrash, ReleaseOwn, Fault
    <2>3. QED
      BY <1>0, <2>1, <2>2 DEF Reject, Enqueue, Goto
  <1>8. ASSUME NEW u \in Users, LeaseExpires(u) PROVE TypeOK'
    BY <1>0, <1>8 DEF LeaseExpires, Fault
  <1>9. CASE UNCHANGED vars
    BY <1>0, <1>9 DEF vars
  <1>10. QED
    BY <1>1, <1>2, <1>3, <1>4, <1>5, <1>6, <1>7, <1>8, <1>9
       DEF Next, Step, Rest, Progress, Mishap

(* A request that has passed the gate stays so. *)
LEMMA ReservedGrows ==
    ASSUME TypeOK, [Next]_vars
    PROVE  Reserved \subseteq Reserved'
  <1>1. ASSUME NEW r \in Requests, Reserve(r)
        PROVE  Reserved \subseteq Reserved'
    BY <1>1 DEF Reserve, Reserved, TypeOK
  <1>2. ASSUME NEW v \in Vouchers, CacheStock(v)
        PROVE  Reserved \subseteq Reserved'
    BY <1>2 DEF CacheStock, Reserved, reqVars
  <1>3. QED
    BY <1>1, <1>2, RedisFrame

LEMMA GatePassedStep == PipelineInv /\ [Next]_vars => GatePassed'
  <1> SUFFICES ASSUME PipelineInv, [Next]_vars PROVE GatePassed'
    OBVIOUS
  <1>0. TypeOK /\ GatePassed /\ TypeOK' /\ Reserved \subseteq Reserved'
    BY TypeStep, ReservedGrows DEF PipelineInv
  <1> USE DEF dbVars, reqVars, redisVars, consVars, pubVars, Fault, Enqueue, Goto
  <1>1. ASSUME UNCHANGED <<queue, status, cmsg>>
        PROVE  GatePassed'
    BY <1>0, <1>1 DEF GatePassed
  <1>2. ASSUME NEW v \in Vouchers, Publication(v) PROVE GatePassed'
    BY <1>1, <1>2 DEF Publication, CacheStock, InsertStock, CommitVoucher, RollbackVoucher
  <1>3. ASSUME NEW r \in Requests, Request(r) PROVE GatePassed'
    <2>1. CASE Publish(r) \/ PublishThrows(r)
      <3>1. r \in Reserved
        BY <2>1 DEF Publish, PublishThrows, Reserved
      <3>2. \A q \in Requests : q # r => queue'[q] = queue[q]
        BY <1>0, <2>1 DEF Publish, PublishThrows, TypeOK
      <3>3. UNCHANGED <<status, cmsg>>
        BY <2>1 DEF Publish, PublishThrows
      <3>4. QED
        BY <1>0, <3>1, <3>2, <3>3 DEF GatePassed
    <2>2. CASE Refuse(r) \/ Reserve(r) \/ PublishLost(r) \/ RequestDies(r)
      BY <1>1, <2>2 DEF Refuse, Reserve, PublishLost, RequestDies
    <2>3. QED
      BY <1>3, <2>1, <2>2 DEF Request
  <1>4. ASSUME NEW c \in Consumers, NEW r \in Requests, Deliver(c, r) PROVE GatePassed'
    <2>1. r \in Reserved
      BY <1>0, <1>4 DEF Deliver, GatePassed
    <2>2. \A q \in Requests : queue'[q] > 0 => queue[q] > 0
      BY <1>0, <1>4 DEF Deliver, TypeOK
    <2>3. \A d \in Consumers : cmsg'[d] = cmsg[d] \/ cmsg'[d] = r
      BY <1>0, <1>4 DEF Deliver, TypeOK
    <2>4. UNCHANGED status
      BY <1>4 DEF Deliver
    <2>5. QED
      BY <1>0, <2>1, <2>2, <2>3, <2>4 DEF GatePassed
  <1>5. ASSUME NEW c \in Consumers, cpc[c] # "idle"
        PROVE  cmsg[c] \in Requests /\ cmsg[c] \in Reserved
    BY <1>0, <1>5 DEF GatePassed, TypeOK
  <1>6. ASSUME NEW c \in Consumers, Commit(c) PROVE GatePassed'
    <2>1. cmsg[c] \in Reserved
      BY <1>5, <1>6 DEF Commit
    <2>2. \A q \in Requests : q # cmsg[c] => status'[q] = status[q]
      BY <1>0, <1>6 DEF Commit, TypeOK
    <2>3. UNCHANGED <<queue, cmsg>>
      BY <1>6 DEF Commit
    <2>4. QED
      BY <1>0, <2>1, <2>2, <2>3 DEF GatePassed
  <1>7. ASSUME NEW c \in Consumers,
               LockTimeout(c) \/ DuplicateKey(c) \/ UnlockThrows(c)
               \/ ListenerThrows(c) \/ ConsumerCrash(c)
        PROVE  GatePassed'
    <2>1. Reject(c) /\ cpc[c] # "idle"
      BY <1>7 DEF LockTimeout, DuplicateKey, UnlockThrows, ListenerThrows, ConsumerCrash
    <2>2. cmsg[c] \in Reserved
      BY <1>5, <2>1
    <2>3. \A q \in Requests : q # cmsg[c] => queue'[q] = queue[q]
      BY <1>0, <2>1 DEF Reject, TypeOK
    <2>4. \A d \in Consumers : cmsg'[d] = cmsg[d] \/ cmsg'[d] = None
      BY <1>0, <2>1 DEF Reject, TypeOK
    <2>5. UNCHANGED status
      BY <2>1 DEF Reject
    <2>6. QED
      BY <1>0, <2>2, <2>3, <2>4, <2>5 DEF GatePassed
  <1>8. ASSUME NEW c \in Consumers, Ack(c) PROVE GatePassed'
    <2>1. \A d \in Consumers : cmsg'[d] = cmsg[d] \/ cmsg'[d] = None
      BY <1>0, <1>8 DEF Ack, TypeOK
    <2>2. UNCHANGED <<queue, status>>
      BY <1>8 DEF Ack
    <2>3. QED
      BY <1>0, <2>1, <2>2 DEF GatePassed
  <1>9. ASSUME NEW c \in Consumers,
               CountOrders(c) \/ DeductStock(c) \/ AcquireLock(c) \/ SaveOrder(c) \/ Unlock(c)
        PROVE  GatePassed'
    BY <1>1, <1>9 DEF CountOrders, DeductStock, AcquireLock, SaveOrder, Unlock
  <1>10. ASSUME NEW u \in Users, LeaseExpires(u) PROVE GatePassed'
    BY <1>1, <1>10 DEF LeaseExpires
  <1>11. CASE UNCHANGED vars
    BY <1>1, <1>11 DEF vars
  <1>12. QED
    BY <1>2, <1>3, <1>4, <1>6, <1>7, <1>8, <1>9, <1>10, <1>11
       DEF Next, Step, Rest, Progress, Mishap

(* The gate: what Reserve does to the reserved requests and their users. *)
LEMMA ReserveEffect ==
    ASSUME TypeOK, NEW r \in Requests, Reserve(r)
    PROVE  /\ Reserved' = Reserved \union {r}
           /\ \A v \in Vouchers :
                 bought'[v] = IF v = r.voucher THEN bought[v] \union {r.user} ELSE bought[v]
           /\ \A v \in Vouchers :
                 redisStock'[v] = IF v = r.voucher THEN redisStock[v] - 1 ELSE redisStock[v]
  <1>1. r.voucher \in Vouchers
    BY RequestFields
  <1>2. QED
    BY <1>1 DEF Reserve, Reserved, TypeOK

LEMMA ReservedOnceStep == PipelineInv /\ [Next]_vars => ReservedOnce'
  <1> SUFFICES ASSUME PipelineInv, [Next]_vars PROVE ReservedOnce'
    OBVIOUS
  <1>0. TypeOK /\ ReservedOnce /\ RedisLedger
    BY DEF PipelineInv
  <1>1. ASSUME NEW r \in Requests, Reserve(r) PROVE ReservedOnce'
    <2>1. \A q \in Reserved : ~ (q.user = r.user /\ q.voucher = r.voucher)
      <3> SUFFICES ASSUME NEW q \in Reserved, q.user = r.user, q.voucher = r.voucher
                   PROVE  FALSE
        OBVIOUS
      <3>1. r.voucher \in Vouchers
        BY RequestFields
      <3>2. r.user \in bought[r.voucher]
        BY <1>0, <3>1 DEF RedisLedger
      <3>3. QED
        BY <1>1, <3>2 DEF Reserve
    <2>2. QED
      BY <1>0, <1>1, <2>1, ReserveEffect DEF ReservedOnce
  <1>2. ASSUME NEW v \in Vouchers, CacheStock(v) PROVE ReservedOnce'
    BY <1>0, <1>2 DEF CacheStock, ReservedOnce, Reserved, reqVars
  <1>3. ASSUME Reserved' = Reserved PROVE ReservedOnce'
    BY <1>0, <1>3 DEF ReservedOnce
  <1>4. QED
    BY <1>0, <1>1, <1>2, <1>3, RedisFrame

LEMMA BoughtFiniteStep == PipelineInv /\ [Next]_vars => BoughtFinite'
  <1> SUFFICES ASSUME PipelineInv, [Next]_vars PROVE BoughtFinite'
    OBVIOUS
  <1>0. TypeOK /\ BoughtFinite
    BY DEF PipelineInv
  <1>1. ASSUME NEW r \in Requests, Reserve(r) PROVE BoughtFinite'
    <2> SUFFICES ASSUME NEW v \in Vouchers PROVE IsFiniteSet(bought'[v])
      BY DEF BoughtFinite
    <2>1. IsFiniteSet(bought[v]) /\ IsFiniteSet(bought[v] \union {r.user})
      BY <1>0, FS_AddElement DEF BoughtFinite
    <2>2. QED
      BY <1>0, <1>1, <2>1, ReserveEffect
  <1>2. ASSUME NEW v \in Vouchers, CacheStock(v) PROVE BoughtFinite'
    BY <1>0, <1>2 DEF CacheStock, BoughtFinite
  <1>3. ASSUME UNCHANGED bought PROVE BoughtFinite'
    BY <1>0, <1>3 DEF BoughtFinite
  <1>4. QED
    BY <1>0, <1>1, <1>2, <1>3, RedisFrame

LEMMA RedisLedgerStep == PipelineInv /\ [Next]_vars => RedisLedger'
  <1> SUFFICES ASSUME PipelineInv, [Next]_vars PROVE RedisLedger'
    OBVIOUS
  <1>0. TypeOK /\ BoughtFinite /\ RedisLedger
    BY DEF PipelineInv
  <1>1. ASSUME NEW r \in Requests, Reserve(r) PROVE RedisLedger'
    <2>1. r.voucher \in Vouchers /\ UNCHANGED pub
      BY <1>1, RequestFields DEF Reserve
    <2>2. r.user \notin bought[r.voucher] /\ redisStock[r.voucher] > 0
      BY <1>0, <1>1, <2>1 DEF Reserve, SoldOut, TypeOK, Absent
    <2>3. pub[r.voucher] # "new"
      BY <1>0, <2>1, <2>2 DEF RedisLedger, Absent
    <2>4. ASSUME NEW v \in Vouchers
          PROVE  bought'[v] = {q.user : q \in {p \in Reserved' : p.voucher = v}}
      <3>1. bought[v] = {q.user : q \in {p \in Reserved : p.voucher = v}}
        BY <1>0 DEF RedisLedger
      <3>2. Reserved' = Reserved \union {r}
        BY <1>0, <1>1, ReserveEffect
      <3>3. bought'[v] = IF v = r.voucher THEN bought[v] \union {r.user} ELSE bought[v]
        BY <1>0, <1>1, ReserveEffect
      <3>4. CASE v = r.voucher
        <4>1. {p \in Reserved' : p.voucher = v} = {p \in Reserved : p.voucher = v} \union {r}
          BY <3>2, <3>4
        <4>2. QED
          BY <3>1, <3>3, <3>4, <4>1
      <3>5. CASE v # r.voucher
        <4>1. {p \in Reserved' : p.voucher = v} = {p \in Reserved : p.voucher = v}
          BY <3>2, <3>5
        <4>2. QED
          BY <3>1, <3>3, <3>5, <4>1
      <3>6. QED
        BY <3>4, <3>5
    <2>5. ASSUME NEW v \in Vouchers, v # r.voucher
          PROVE  bought'[v] = bought[v] /\ redisStock'[v] = redisStock[v]
      BY <1>0, <1>1, <2>5, ReserveEffect
    <2>6. /\ bought'[r.voucher] = bought[r.voucher] \union {r.user}
          /\ redisStock'[r.voucher] = redisStock[r.voucher] - 1
      BY <1>0, <1>1, <2>1, ReserveEffect
    <2>7. /\ Cardinality(bought[r.voucher]) \in Nat
          /\ Cardinality(bought'[r.voucher]) = Cardinality(bought[r.voucher]) + 1
      BY <1>0, <2>1, <2>2, <2>6, FS_AddElement, FS_CardinalityType DEF BoughtFinite
    <2>8. /\ redisStock[r.voucher] \in Nat
          /\ redisStock[r.voucher] + Cardinality(bought[r.voucher]) = Stock[r.voucher]
      BY <1>0, <2>1, <2>2, <2>3 DEF RedisLedger, TypeOK, Absent
    <2>9. /\ redisStock'[r.voucher] >= 0
          /\ redisStock'[r.voucher] + Cardinality(bought'[r.voucher]) = Stock[r.voucher]
      BY <2>2, <2>6, <2>7, <2>8
    <2>10. QED
      BY <1>0, <2>1, <2>3, <2>4, <2>5, <2>9 DEF RedisLedger
  <1>2. ASSUME NEW v \in Vouchers, CacheStock(v) PROVE RedisLedger'
    <2>1. Reserved' = Reserved /\ UNCHANGED bought /\ bought[v] = {}
      BY <1>0, <1>2 DEF CacheStock, Reserved, reqVars, RedisLedger
    <2>2. redisStock'[v] = Stock[v] /\ Stock[v] \in Nat /\ pub'[v] = "cached"
      BY <1>0, <1>2, SeckillAssumption DEF CacheStock, TypeOK
    <2>3. \A w \in Vouchers : w # v => redisStock'[w] = redisStock[w] /\ pub'[w] = pub[w]
      BY <1>0, <1>2 DEF CacheStock, TypeOK
    <2>4. redisStock'[v] + Cardinality(bought'[v]) = Stock[v]
      BY <2>1, <2>2, FS_EmptySet
    <2>5. \A w \in Vouchers :
              bought'[w] = {q.user : q \in {p \in Reserved' : p.voucher = w}}
      BY <1>0, <2>1 DEF RedisLedger
    <2>6. ASSUME NEW w \in Vouchers
          PROVE  IF pub'[w] = "new"
                 THEN redisStock'[w] = Absent /\ bought'[w] = {}
                 ELSE /\ redisStock'[w] >= 0
                      /\ redisStock'[w] + Cardinality(bought'[w]) = Stock[w]
      <3>1. CASE w = v
        BY <2>2, <2>4, <3>1
      <3>2. CASE w # v
        BY <1>0, <2>1, <2>3, <3>2 DEF RedisLedger
      <3>3. QED
        BY <3>1, <3>2
    <2>7. QED
      BY <2>5, <2>6 DEF RedisLedger
  <1>3. ASSUME UNCHANGED <<redisStock, bought>>, Reserved' = Reserved,
               \A v \in Vouchers : pub'[v] = "new" <=> pub[v] = "new"
        PROVE  RedisLedger'
    BY <1>0, <1>3 DEF RedisLedger
  <1>4. QED
    BY <1>0, <1>1, <1>2, <1>3, RedisFrame

LEMMA RowOwnedStep == PipelineInv /\ [Next]_vars => RowOwned'
  <1> SUFFICES ASSUME PipelineInv, [Next]_vars PROVE RowOwned'
    OBVIOUS
  <1>0. TypeOK /\ RowOwned /\ UnpublishedIsUnsold
    BY DEF PipelineInv
  <1>a. ASSUME NEW c \in Consumers, cpc[c] # "idle"
        PROVE  cmsg[c] \in Requests /\ cmsg[c].voucher \in Vouchers
    <2>1. cmsg[c] \in Requests
      BY <1>0, <1>a DEF TypeOK
    <2>2. QED
      BY <2>1, RequestFields
  <1>b. \A c \in Consumers : cpc[c] \in HoldsRow => cpc[c] # "idle"
    BY DEF HoldsRow
  <1> USE DEF dbVars, reqVars, redisVars, consVars, pubVars
  \* A step that lets nobody in and leaves the database alone.
  <1>1. ASSUME UNCHANGED <<dbStock, status>>,
               \A v \in Vouchers : pub[v] = "live" => pub'[v] = "live",
               \A c \in Consumers : cpc'[c] \in HoldsRow =>
                  /\ cpc[c] \in HoldsRow
                  /\ cmsg'[c] = cmsg[c]
                  /\ cpc'[c] \in {"saved", "unlocked"} =>
                        cpc[c] \in {"saved", "unlocked"} \/ status[cmsg[c]] = "none"
        PROVE  RowOwned'
    <2> SUFFICES ASSUME NEW c \in Consumers, cpc'[c] \in HoldsRow
                 PROVE  /\ pub'[cmsg'[c].voucher] = "live"
                        /\ dbStock'[cmsg'[c].voucher] > 0
                        /\ cpc'[c] \in {"saved", "unlocked"} => status'[cmsg'[c]] = "none"
                        /\ \A d \in Consumers :
                              cpc'[d] \in HoldsRow /\ cmsg'[d].voucher = cmsg'[c].voucher
                                => d = c
      BY DEF RowOwned
    <2>1. cpc[c] \in HoldsRow /\ cmsg'[c] = cmsg[c] /\ cmsg[c].voucher \in Vouchers
      BY <1>1, <1>a, <1>b
    <2>2. QED
      BY <1>0, <1>1, <2>1 DEF RowOwned
  <1>2. ASSUME NEW v \in Vouchers, CommitVoucher(v) PROVE RowOwned'
    <2>1. \A c \in Consumers : cpc[c] \in HoldsRow => cmsg[c].voucher # v
      BY <1>0, <1>2 DEF RowOwned, CommitVoucher
    <2>2. /\ UNCHANGED <<cpc, cmsg, status>>
          /\ \A w \in Vouchers : w # v => dbStock'[w] = dbStock[w] /\ pub'[w] = pub[w]
      BY <1>0, <1>2 DEF CommitVoucher, TypeOK
    <2>3. \A c \in Consumers : cpc[c] \in HoldsRow => cmsg[c].voucher \in Vouchers
      BY <1>a, <1>b
    <2>4. QED
      BY <1>0, <2>1, <2>2, <2>3 DEF RowOwned
  <1>3. ASSUME NEW v \in Vouchers, Publication(v), ~ CommitVoucher(v) PROVE RowOwned'
    <2>1. UNCHANGED <<dbStock, status, cpc, cmsg>>
      BY <1>3 DEF Publication, CacheStock, InsertStock, RollbackVoucher
    <2>2. \A w \in Vouchers : pub[w] = "live" => pub'[w] = "live"
      BY <1>0, <1>3 DEF Publication, CacheStock, InsertStock, RollbackVoucher, TypeOK
    <2>3. QED
      BY <1>1, <2>1, <2>2
  <1>4. ASSUME UNCHANGED <<pub, dbStock, status, cpc, cmsg>> PROVE RowOwned'
    BY <1>1, <1>4
  <1>5. ASSUME NEW r \in Requests, Request(r) PROVE RowOwned'
    BY <1>4, <1>5 DEF Request, Refuse, Reserve, Publish, PublishLost, PublishThrows,
                      RequestDies
  <1>6. ASSUME NEW c \in Consumers, DeductStock(c) PROVE RowOwned'
    <2> DEFINE v == cmsg[c].voucher
    <2>1. v \in Vouchers /\ UNCHANGED <<pub, dbStock, status, cmsg>>
      BY <1>6, <1>a DEF DeductStock
    <2>2. \A d \in Consumers : d # c => cpc'[d] = cpc[d]
      BY <1>0, <1>6 DEF DeductStock, Goto, TypeOK
    <2>3. CASE dbStock[v] > 0
      <3>1. pub[v] = "live"
        BY <1>0, <2>1, <2>3 DEF UnpublishedIsUnsold, Absent
      <3>2. cpc'[c] = "deducted"
        BY <1>0, <1>6, <2>3 DEF DeductStock, Goto, TypeOK
      <3>3. \A d \in Consumers : cpc[d] \in HoldsRow => cmsg[d].voucher # v
        BY <1>6 DEF DeductStock, RowFree
      <3>4. QED
        BY <1>0, <2>1, <2>2, <2>3, <3>1, <3>2, <3>3 DEF RowOwned
    <2>4. CASE ~ (dbStock[v] > 0)
      <3>1. cpc'[c] = "settled"
        BY <1>0, <1>6, <2>4 DEF DeductStock, Goto, TypeOK
      <3>2. \A d \in Consumers : cpc'[d] \in HoldsRow => cpc'[d] = cpc[d]
        BY <2>2, <3>1 DEF HoldsRow
      <3>3. QED
        BY <1>1, <2>1, <3>2
    <2>5. QED
      BY <2>3, <2>4
  <1>7. ASSUME NEW c \in Consumers,
               AcquireLock(c) \/ SaveOrder(c) \/ Unlock(c) \/ CountOrders(c) \/ Ack(c)
               \/ \E r \in Requests : Deliver(c, r)
        PROVE  RowOwned'
    <2>1. /\ UNCHANGED <<pub, dbStock, status>>
          /\ \A d \in Consumers : d # c => cpc'[d] = cpc[d] /\ cmsg'[d] = cmsg[d]
      BY <1>0, <1>7 DEF AcquireLock, SaveOrder, Unlock, CountOrders, Ack, Deliver, Goto,
                        TypeOK
    <2>2. CASE CountOrders(c) \/ Ack(c) \/ \E r \in Requests : Deliver(c, r)
      <3>1. cpc'[c] \notin HoldsRow
        BY <1>0, <2>2 DEF CountOrders, Ack, Deliver, Goto, TypeOK, HoldsRow
      <3>2. QED
        BY <1>1, <2>1, <3>1
    <2>3. CASE AcquireLock(c)
      <3>1. cpc[c] = "deducted" /\ cpc'[c] = "locked" /\ UNCHANGED cmsg
        BY <1>0, <2>3 DEF AcquireLock, Goto, TypeOK
      <3>2. QED
        BY <1>1, <2>1, <3>1 DEF HoldsRow
    <2>4. CASE SaveOrder(c)
      <3>1. /\ cpc[c] = "locked" /\ cpc'[c] = "saved" /\ UNCHANGED cmsg
            /\ status[cmsg[c]] = "none"
        BY <1>0, <2>4 DEF SaveOrder, Goto, TypeOK
      <3>2. QED
        BY <1>1, <2>1, <3>1 DEF HoldsRow
    <2>5. CASE Unlock(c)
      <3>1. cpc[c] = "saved" /\ cpc'[c] = "unlocked" /\ UNCHANGED cmsg
        BY <1>0, <2>5 DEF Unlock, Goto, TypeOK
      <3>2. QED
        BY <1>1, <2>1, <3>1 DEF HoldsRow
    <2>6. QED
      BY <1>7, <2>2, <2>3, <2>4, <2>5
  <1>8. ASSUME NEW c \in Consumers, Commit(c) PROVE RowOwned'
    <2>1. /\ cpc[c] \in HoldsRow /\ cmsg[c] \in Requests /\ cmsg[c].voucher \in Vouchers
          /\ UNCHANGED <<pub, cmsg>>
      BY <1>8, <1>a DEF Commit, HoldsRow
    <2>2. /\ cpc'[c] \notin HoldsRow
          /\ \A d \in Consumers : d # c => cpc'[d] = cpc[d]
      BY <1>0, <1>8 DEF Commit, Goto, TypeOK, HoldsRow
    <2>3. /\ \A v \in Vouchers : v # cmsg[c].voucher => dbStock'[v] = dbStock[v]
          /\ \A r \in Requests : r # cmsg[c] => status'[r] = status[r]
      BY <1>0, <1>8 DEF Commit, TypeOK
    <2>4. ASSUME NEW d \in Consumers, cpc'[d] \in HoldsRow
          PROVE  /\ d # c /\ cpc[d] \in HoldsRow /\ cmsg[d].voucher # cmsg[c].voucher
                 /\ cmsg[d] \in Requests /\ cmsg[d].voucher \in Vouchers
      <3>1. d # c /\ cpc[d] \in HoldsRow
        BY <2>2, <2>4
      <3>2. cmsg[d].voucher # cmsg[c].voucher
        BY <1>0, <2>1, <3>1 DEF RowOwned
      <3>3. cmsg[d] \in Requests /\ cmsg[d].voucher \in Vouchers
        BY <1>a, <1>b, <3>1
      <3>4. QED
        BY <3>1, <3>2, <3>3
    <2>5. QED
      BY <1>0, <2>1, <2>2, <2>3, <2>4 DEF RowOwned
  <1>9. ASSUME NEW c \in Consumers,
               LockTimeout(c) \/ DuplicateKey(c) \/ UnlockThrows(c)
               \/ ListenerThrows(c) \/ ConsumerCrash(c)
        PROVE  RowOwned'
    <2>1. Reject(c)
      BY <1>9 DEF LockTimeout, DuplicateKey, UnlockThrows, ListenerThrows, ConsumerCrash
    <2>2. /\ UNCHANGED <<pub, dbStock, status>> /\ cpc'[c] = "idle"
          /\ \A d \in Consumers : d # c => cpc'[d] = cpc[d] /\ cmsg'[d] = cmsg[d]
      BY <1>0, <2>1 DEF Reject, Goto, TypeOK
    <2>3. QED
      BY <1>1, <2>2 DEF HoldsRow
  <1>10. ASSUME NEW u \in Users, LeaseExpires(u) PROVE RowOwned'
    BY <1>4, <1>10 DEF LeaseExpires
  <1>11. CASE UNCHANGED vars
    BY <1>4, <1>11 DEF vars
  <1>12. QED
    BY <1>2, <1>3, <1>5, <1>6, <1>7, <1>8, <1>9, <1>10, <1>11
       DEF Next, Step, Rest, Progress, Mishap

-----------------------------------------------------------------------------
(* Counting: requests of distinct users of T are at most as many as T.     *)
LEMMA DistinctUsers ==
    ASSUME NEW S, NEW T, IsFiniteSet(T),
           \A r \in S : r.user \in T,
           \A q, r \in S : q.user = r.user => q = r
    PROVE  IsFiniteSet(S) /\ Cardinality(S) \in Nat /\ Cardinality(S) <= Cardinality(T)
  <1> DEFINE f == [r \in S |-> r.user]
  <1>1. f \in [S -> T]
    OBVIOUS
  <1>2. \A q, r \in S : f[q] = f[r] => q = r
    OBVIOUS
  <1>3. f \in Injection(S, T)
    BY <1>1, <1>2 DEF Injection, IsInjective
  <1> HIDE DEF f
  <1>4. IsFiniteSet(S) /\ Cardinality(S) <= Cardinality(T)
    BY <1>3, FS_Injection
  <1>5. QED
    BY <1>4, FS_CardinalityType

(* The orders of a voucher belong to distinct users that passed its gate.  *)
LEMMA OrdersBought ==
    ASSUME PipelineInv, NEW v \in Vouchers
    PROVE  /\ \A r \in OrdersOf(v) : r \in Reserved /\ r.user \in bought[v]
           /\ \A q, r \in OrdersOf(v) : q.user = r.user => q = r
           /\ IsFiniteSet(OrdersOf(v)) /\ Cardinality(OrdersOf(v)) \in Nat
           /\ Cardinality(OrdersOf(v)) <= Cardinality(bought[v])
  <1>1. GatePassed /\ ReservedOnce /\ RedisLedger /\ IsFiniteSet(bought[v])
    BY DEF PipelineInv, BoughtFinite
  <1>2. \A r \in OrdersOf(v) : r \in Reserved /\ r.voucher = v
    BY <1>1 DEF OrdersOf, Rows, GatePassed
  <1>3. \A r \in OrdersOf(v) : r.user \in bought[v]
    BY <1>1, <1>2 DEF RedisLedger
  <1>4. \A q, r \in OrdersOf(v) : q.user = r.user => q = r
    BY <1>1, <1>2 DEF ReservedOnce
  <1>5. QED
    BY <1>1, <1>2, <1>3, <1>4, DistinctUsers

LEMMA UnsoldStep == PipelineInv /\ [Next]_vars => UnpublishedIsUnsold'
  <1> SUFFICES ASSUME PipelineInv, [Next]_vars PROVE UnpublishedIsUnsold'
    OBVIOUS
  <1>0. TypeOK /\ RowOwned /\ UnpublishedIsUnsold
    BY DEF PipelineInv
  <1>1. ASSUME NEW v \in Vouchers, CommitVoucher(v) PROVE UnpublishedIsUnsold'
    <2>1. UNCHANGED status /\ \A w \in Vouchers : OrdersOf(w)' = OrdersOf(w)
      BY <1>1 DEF CommitVoucher, OrdersOf, Rows
    <2>2. pub'[v] = "live"
      BY <1>0, <1>1 DEF CommitVoucher, TypeOK
    <2>3. \A w \in Vouchers : w # v => dbStock'[w] = dbStock[w] /\ pub'[w] = pub[w]
      BY <1>0, <1>1 DEF CommitVoucher, TypeOK
    <2>4. QED
      BY <1>0, <2>1, <2>2, <2>3 DEF UnpublishedIsUnsold
  <1>2. ASSUME NEW c \in Consumers, Commit(c) PROVE UnpublishedIsUnsold'
    <2>1. PICK r \in Requests : r = cmsg[c]
      BY <1>0, <1>2 DEF Commit, TypeOK
    <2>2. r.voucher \in Vouchers /\ pub[r.voucher] = "live" /\ UNCHANGED pub
      BY <1>0, <1>2, <2>1, RequestFields DEF Commit, RowOwned, HoldsRow
    <2>3. \A w \in Vouchers : w # r.voucher => dbStock'[w] = dbStock[w]
      BY <1>0, <1>2, <2>1, <2>2 DEF Commit, TypeOK
    <2>4. \A w \in Vouchers : w # r.voucher => OrdersOf(w)' = OrdersOf(w)
      BY <1>0, <1>2, <2>1 DEF Commit, TypeOK, OrdersOf, Rows
    <2>5. QED
      BY <1>0, <2>2, <2>3, <2>4 DEF UnpublishedIsUnsold
  <1>3. ASSUME UNCHANGED <<dbStock, status>>,
               \A v \in Vouchers : pub'[v] = "live" <=> pub[v] = "live"
        PROVE  UnpublishedIsUnsold'
    BY <1>0, <1>3 DEF UnpublishedIsUnsold, OrdersOf, Rows
  <1>4. QED
    BY <1>0, <1>1, <1>2, <1>3, DbFrame

LEMMA PipelineStep == PipelineInv /\ [Next]_vars => PipelineInv'
  BY TypeStep, GatePassedStep, ReservedOnceStep, RowOwnedStep, BoughtFiniteStep,
     RedisLedgerStep, UnsoldStep DEF PipelineInv

LEMMA DbLedgerStep == IInv /\ [Next]_vars => DbLedger'
  <1> SUFFICES ASSUME IInv, [Next]_vars PROVE DbLedger'
    OBVIOUS
  <1>0. TypeOK /\ RowOwned /\ DbLedger
    BY DEF IInv, PipelineInv
  <1>1. ASSUME NEW v \in Vouchers, CommitVoucher(v) PROVE DbLedger'
    <2>1. UNCHANGED status /\ \A w \in Vouchers : OrdersOf(w)' = OrdersOf(w)
      BY <1>1 DEF CommitVoucher, OrdersOf, Rows
    <2>2. OrdersOf(v) = {} /\ pub'[v] = "live" /\ dbStock'[v] = Stock[v]
      BY <1>0, <1>1 DEF CommitVoucher, DbLedger, TypeOK
    <2>3. \A w \in Vouchers : w # v => dbStock'[w] = dbStock[w] /\ pub'[w] = pub[w]
      BY <1>0, <1>1 DEF CommitVoucher, TypeOK
    <2>4. Stock[v] \in Nat /\ Cardinality({}) = 0
      BY SeckillAssumption, FS_EmptySet
    <2>5. QED
      BY <1>0, <2>1, <2>2, <2>3, <2>4 DEF DbLedger
  <1>2. ASSUME NEW c \in Consumers, Commit(c) PROVE DbLedger'
    <2>1. cpc[c] = "unlocked" /\ cpc[c] \in HoldsRow /\ cmsg[c] \in Requests
      BY <1>0, <1>2 DEF Commit, TypeOK, HoldsRow
    <2>a. PICK r \in Requests : r = cmsg[c]
      BY <2>1
    <2>2. r.voucher \in Vouchers
      BY RequestFields
    <2>3. pub[r.voucher] = "live" /\ dbStock[r.voucher] > 0 /\ status[r] = "none"
      BY <1>0, <2>1, <2>a DEF RowOwned
    <2>4. UNCHANGED pub
      BY <1>2 DEF Commit
    <2>5. /\ dbStock'[r.voucher] = dbStock[r.voucher] - 1
          /\ \A w \in Vouchers : w # r.voucher => dbStock'[w] = dbStock[w]
      BY <1>0, <1>2, <2>2, <2>a DEF Commit, TypeOK
    <2>6. Rows' = Rows \union {r} /\ r \notin Rows
      BY <1>0, <1>2, <2>3, <2>a DEF Commit, TypeOK, Rows, OrderStates
    <2>7. /\ OrdersOf(r.voucher)' = OrdersOf(r.voucher) \union {r}
          /\ r \notin OrdersOf(r.voucher)
          /\ \A w \in Vouchers : w # r.voucher => OrdersOf(w)' = OrdersOf(w)
      BY <2>6 DEF OrdersOf
    <2>8. /\ Cardinality(OrdersOf(r.voucher)) \in Nat
          /\ Cardinality(OrdersOf(r.voucher)') = Cardinality(OrdersOf(r.voucher)) + 1
      BY <2>2, <2>7, OrdersBought, FS_AddElement DEF IInv
    <2>9. /\ dbStock[r.voucher] \in Nat
          /\ dbStock[r.voucher] + Cardinality(OrdersOf(r.voucher)) = Stock[r.voucher]
      BY <1>0, <2>2, <2>3 DEF DbLedger, TypeOK, Absent
    <2>10. dbStock'[r.voucher] + Cardinality(OrdersOf(r.voucher)') = Stock[r.voucher]
      BY <2>5, <2>8, <2>9
    <2>11. ASSUME NEW w \in Vouchers
           PROVE  IF pub'[w] = "live"
                  THEN dbStock'[w] + Cardinality(OrdersOf(w)') = Stock[w]
                  ELSE dbStock'[w] = Absent /\ OrdersOf(w)' = {}
      <3>1. CASE w = r.voucher
        BY <2>3, <2>4, <2>10, <3>1
      <3>2. CASE w # r.voucher
        BY <1>0, <2>4, <2>5, <2>7, <3>2 DEF DbLedger
      <3>3. QED
        BY <3>1, <3>2
    <2>12. QED
      BY <2>11 DEF DbLedger
  <1>3. ASSUME UNCHANGED <<dbStock, status>>,
               \A v \in Vouchers : pub'[v] = "live" <=> pub[v] = "live"
        PROVE  DbLedger'
    <2>1. \A v \in Vouchers : OrdersOf(v)' = OrdersOf(v)
      BY <1>3 DEF OrdersOf, Rows
    <2>2. QED
      BY <1>0, <1>3, <2>1 DEF DbLedger
  <1>4. QED
    BY <1>0, <1>1, <1>2, <1>3, DbFrame

-----------------------------------------------------------------------------
(* The inductive invariant of the pipeline: whatever the interleaving, the  *)
(* faults and the redeliveries, both ledgers balance, everything past the  *)
(* gate was let through once, and a transaction owns the row it deducts.   *)
THEOREM InductiveInvariant == Spec => []IInv
  <1>1. IInv /\ [Next]_vars => IInv'
    BY PipelineStep, DbLedgerStep DEF IInv
  <1>2. QED
    BY InitInv, <1>1, PTL DEF Spec

(* Type correctness: in particular no key and no row ever holds a negative  *)
(* stock, and a listener has a message exactly while it is at work.        *)
THEOREM TypeCorrectness == Spec => []TypeOK
  <1>1. IInv => TypeOK
    BY DEF IInv, PipelineInv
  <1>2. QED
    BY <1>1, InductiveInvariant, PTL

(* seckill.lua never gives away more than was published, and every user it *)
(* has recorded is one whose request passed.                               *)
THEOREM GateNeverOversells == Spec => []RedisLedger
  <1>1. IInv => RedisLedger
    BY DEF IInv, PipelineInv
  <1>2. QED
    BY <1>1, InductiveInvariant, PTL

(* A piece leaves tb_seckill_voucher.stock exactly when an order enters    *)
(* tb_voucher_order, through crashes, redeliveries and early unlocks.      *)
THEOREM DatabaseNeverOversells == Spec => []DbLedger
  <1>1. IInv => DbLedger
    BY DEF IInv, PipelineInv
  <1>2. QED
    BY <1>1, InductiveInvariant, PTL

(* No user ever has two orders for one voucher. *)
THEOREM OrderIsUnique == Spec => []OneOrderPerUser
  <1>1. IInv => OneOrderPerUser
    <2> SUFFICES ASSUME IInv, NEW q \in Rows, NEW r \in Rows,
                        q.user = r.user, q.voucher = r.voucher
                 PROVE  q = r
      BY DEF OneOrderPerUser
    <2>1. GatePassed /\ ReservedOnce
      BY DEF IInv, PipelineInv
    <2>2. q \in Reserved /\ r \in Reserved
      BY <2>1 DEF GatePassed, Rows
    <2>3. QED
      BY <2>1, <2>2 DEF ReservedOnce
  <1>2. QED
    BY <1>1, InductiveInvariant, PTL

(* The users whose orders are in the table are fewer than those who passed *)
(* the gate, of whom there are at most Stock[v]: one piece is left.        *)
LEMMA PieceLeft == IInv => ReservedHasStock
  <1> SUFFICES ASSUME IInv, NEW c \in Consumers, cpc[c] = "unordered",
                      status[cmsg[c]] = "none", pub[cmsg[c].voucher] = "live"
               PROVE  dbStock[cmsg[c].voucher] > 0
    BY DEF ReservedHasStock
  <1> DEFINE r == cmsg[c]
             v == r.voucher
             S == OrdersOf(v)
  <1>1. TypeOK /\ GatePassed /\ ReservedOnce /\ RedisLedger /\ DbLedger /\ BoughtFinite
    BY DEF IInv, PipelineInv
  <1>2. r \in Requests /\ r \in Reserved
    BY <1>1 DEF TypeOK, GatePassed
  <1>3. v \in Vouchers
    BY <1>2, RequestFields
  <1>4. r.user \in bought[v] /\ r \notin S
    BY <1>1, <1>2, <1>3 DEF RedisLedger, OrdersOf, Rows
  <1>5. \A q \in S : q \in Reserved /\ q.user \in bought[v]
    BY <1>3, OrdersBought DEF IInv
  <1>6. \A q \in S : q.user # r.user
    <2> SUFFICES ASSUME NEW q \in S, q.user = r.user PROVE FALSE
      OBVIOUS
    <2>1. q.voucher = v
      BY DEF OrdersOf
    <2>2. QED
      BY <1>1, <1>2, <1>4, <1>5, <2>1 DEF ReservedOnce
  <1>7. /\ IsFiniteSet(bought[v] \ {r.user})
        /\ Cardinality(bought[v] \ {r.user}) = Cardinality(bought[v]) - 1
        /\ Cardinality(bought[v]) \in Nat
    BY <1>1, <1>3, <1>4, FS_RemoveElement, FS_CardinalityType DEF BoughtFinite
  <1>8. Cardinality(S) \in Nat /\ Cardinality(S) <= Cardinality(bought[v] \ {r.user})
    <2>1. \A q \in S : q.user \in bought[v] \ {r.user}
      BY <1>5, <1>6
    <2>2. \A p, q \in S : p.user = q.user => p = q
      BY <1>3, OrdersBought DEF IInv
    <2>3. QED
      BY <1>7, <2>1, <2>2, DistinctUsers
  <1>9. Cardinality(bought[v]) <= Stock[v] /\ Stock[v] \in Nat
    <2>1. pub[v] # "new" /\ Stock[v] \in Nat
      BY <1>3, SeckillAssumption
    <2>2. redisStock[v] >= 0 /\ redisStock[v] + Cardinality(bought[v]) = Stock[v]
      BY <1>1, <1>3, <2>1 DEF RedisLedger
    <2>3. redisStock[v] \in Int
      BY <1>1, <1>3 DEF TypeOK, Absent
    <2>4. QED
      BY <1>7, <2>1, <2>2, <2>3
  <1>10. dbStock[v] + Cardinality(S) = Stock[v] /\ dbStock[v] \in Int
    BY <1>1, <1>3 DEF DbLedger, TypeOK, Absent
  <1>11. QED
    BY <1>7, <1>8, <1>9, <1>10

(* A buyer who passed the Redis gate is never turned away by the database's *)
(* own stock check once the voucher row is committed.                      *)
THEOREM GateImpliesStock == Spec => []ReservedHasStock
  BY PieceLeft, InductiveInvariant, PTL

(* Being in time, seen from the queue or from one listener.                *)
LEMMA StillQueued ==
    ASSUME NEW r \in Requests, queue'[r] > 0
    PROVE  InTime(r)'
  BY DEF InTime

LEMMA StillInHand ==
    ASSUME NEW r \in Requests, NEW c \in Consumers, cmsg'[c] = r, cpc'[c] # "settled"
    PROVE  InTime(r)'
  BY DEF InTime

(* What a step does to r is decided by the queue and by the listener it is *)
(* a step of.                                                              *)
LEMMA OneListenerDecides ==
    ASSUME NEW r \in Requests, InTime(r), NEW c \in Consumers,
           \A d \in Consumers : d # c => cpc'[d] = cpc[d] /\ cmsg'[d] = cmsg[d],
           queue[r] > 0 => InTime(r)',
           cmsg[c] = r /\ cpc[c] # "settled" => InTime(r)' \/ status'[r] # "none"
    PROVE  InTime(r)' \/ status'[r] # "none"
  <1>1. ASSUME NEW d \in Consumers, d # c, cmsg[d] = r, cpc[d] # "settled"
        PROVE  InTime(r)'
    <2>1. cmsg'[d] = r /\ cpc'[d] # "settled"
      BY <1>1
    <2>2. QED
      BY <2>1, StillInHand
  <1>2. QED
    BY <1>1 DEF InTime

(* A listener that works on keeps its message.                             *)
LEMMA WorkingOn ==
    ASSUME TypeOK, NEW r \in Requests, InTime(r), NEW c \in Consumers, NEW pc,
           pc # "settled", cpc[c] # "settled", Goto(c, pc), UNCHANGED <<queue, cmsg>>
    PROVE  InTime(r)'
  <1>1. /\ cpc'[c] = pc
        /\ \A d \in Consumers : d # c => cpc'[d] = cpc[d]
    BY DEF Goto, TypeOK
  <1>2. QED
    BY <1>1 DEF InTime

(* A row stays.                                                            *)
LEMMA RowsStay ==
    ASSUME TypeOK, [Next]_vars, NEW r \in Requests, status[r] # "none"
    PROVE  status'[r] # "none"
  <1>1. ASSUME NEW c \in Consumers, Commit(c) PROVE status'[r] # "none"
    BY <1>1 DEF Commit, TypeOK
  <1>2. ASSUME NEW v \in Vouchers, CommitVoucher(v) PROVE status'[r] # "none"
    BY <1>2 DEF CommitVoucher
  <1>3. QED
    BY <1>1, <1>2, DbFrame

LEMMA InTimeStep ==
    ASSUME IInv, [Next]_vars, NEW r \in Requests, InTime(r), pub[r.voucher] = "live"
    PROVE  InTime(r)' \/ status'[r] # "none"
  <1>0. TypeOK /\ TypeOK' /\ GatePassed /\ ReservedOnce /\ ReservedHasStock
    BY PieceLeft, TypeStep DEF IInv, PipelineInv
  <1>t. queue[r] \in Nat /\ queue'[r] \in Nat
    BY <1>0 DEF TypeOK
  <1>1. ASSUME UNCHANGED <<cpc, cmsg>>, queue'[r] >= queue[r] PROVE InTime(r)'
    BY <1>t, <1>1 DEF InTime
  <1> USE DEF reqVars, redisVars, consVars, dbVars
  <1>2. ASSUME NEW v \in Vouchers, Publication(v) PROVE InTime(r)'
    BY <1>1, <1>2, <1>t DEF Publication, CacheStock, InsertStock, CommitVoucher, RollbackVoucher
  <1>3. ASSUME NEW q \in Requests, Request(q) PROVE InTime(r)'
    <2>1. UNCHANGED <<cpc, cmsg>>
      BY <1>3 DEF Request, Refuse, Reserve, Publish, PublishLost, PublishThrows, RequestDies
    <2>2. Enqueue(q) \/ UNCHANGED queue
      BY <1>3 DEF Request, Refuse, Reserve, Publish, PublishLost, PublishThrows, RequestDies
    <2>3. queue'[r] >= queue[r]
      BY <1>0, <1>t, <2>2 DEF Enqueue, TypeOK
    <2>4. QED
      BY <1>1, <2>1, <2>3
  <1>4. ASSUME NEW c \in Consumers, NEW q \in Requests, Deliver(c, q)
        PROVE  InTime(r)' \/ status'[r] # "none"
    <2>1. /\ cmsg'[c] = q /\ cpc'[c] = "received" /\ cmsg[c] # r
          /\ \A d \in Consumers : d # c => cpc'[d] = cpc[d] /\ cmsg'[d] = cmsg[d]
      BY <1>0, <1>4, SeckillAssumption DEF Deliver, Goto, TypeOK
    <2>2. CASE q = r
      BY <2>1, <2>2, StillInHand
    <2>3. CASE q # r
      <3>1. queue'[r] = queue[r]
        BY <1>4, <2>3 , <1>0 DEF Deliver, TypeOK
      <3>2. queue[r] > 0 => InTime(r)'
        BY <3>1, StillQueued
      <3>3. QED
        BY <2>1, <3>2, OneListenerDecides
    <2>4. QED
      BY <2>2, <2>3
  <1>5. ASSUME NEW c \in Consumers, CountOrders(c)
        PROVE  InTime(r)' \/ status'[r] # "none"
    <2> DEFINE m == cmsg[c]
    <2>1. CASE ~ AlreadyOrdered(m)
      BY <1>0, <1>5, <2>1, WorkingOn DEF CountOrders
    <2>2. CASE AlreadyOrdered(m) /\ m # r
      <3>1. \A d \in Consumers : d # c => cpc'[d] = cpc[d] /\ cmsg'[d] = cmsg[d]
        BY <1>0, <1>5 DEF CountOrders, Goto, TypeOK
      <3>2. queue[r] > 0 => InTime(r)'
        BY <1>5, StillQueued DEF CountOrders
      <3>3. QED
        BY <2>2, <3>1, <3>2, OneListenerDecides
    <2>3. CASE AlreadyOrdered(m) /\ m = r
      <3>1. PICK q \in OrdersOf(r.voucher) : q.user = r.user
        BY <2>3 DEF AlreadyOrdered
      <3>2. q \in Requests /\ status[q] # "none" /\ q.voucher = r.voucher
        BY <3>1 DEF OrdersOf, Rows
      <3>3. q \in Reserved
        BY <1>0, <3>2 DEF GatePassed
      <3>4. r \in Reserved
        BY <1>0, <2>3, SeckillAssumption DEF GatePassed
      <3>5. q = r
        BY <1>0, <3>1, <3>2, <3>3, <3>4 DEF ReservedOnce
      <3>6. QED
        BY <1>5, <3>2, <3>5 DEF CountOrders
    <2>4. QED
      BY <2>1, <2>2, <2>3
  <1>6. ASSUME NEW c \in Consumers, DeductStock(c)
        PROVE  InTime(r)' \/ status'[r] # "none"
    <2> DEFINE m == cmsg[c]
    <2>1. CASE dbStock[m.voucher] > 0
      BY <1>0, <1>6, <2>1, WorkingOn DEF DeductStock
    <2>2. CASE ~ (dbStock[m.voucher] > 0) /\ m # r
      <3>1. \A d \in Consumers : d # c => cpc'[d] = cpc[d] /\ cmsg'[d] = cmsg[d]
        BY <1>0, <1>6 DEF DeductStock, Goto, TypeOK
      <3>2. queue[r] > 0 => InTime(r)'
        BY <1>6, StillQueued DEF DeductStock
      <3>3. QED
        BY <2>2, <3>1, <3>2, OneListenerDecides
    <2>3. CASE ~ (dbStock[m.voucher] > 0) /\ m = r
      <3>1. status[r] # "none"
        BY <1>0, <1>6, <2>3 DEF DeductStock, ReservedHasStock
      <3>2. QED
        BY <1>6, <3>1 DEF DeductStock
    <2>4. QED
      BY <2>1, <2>2, <2>3
  <1>7. ASSUME NEW c \in Consumers, AcquireLock(c) \/ SaveOrder(c) \/ Unlock(c)
        PROVE  InTime(r)'
    <2>1. UNCHANGED <<queue, cmsg>> /\ cpc[c] # "settled"
      BY <1>7 DEF AcquireLock, SaveOrder, Unlock
    <2>2. PICK pc \in {"locked", "saved", "unlocked"} : Goto(c, pc)
      BY <1>7 DEF AcquireLock, SaveOrder, Unlock
    <2>3. pc # "settled"
      BY <2>2
    <2>4. QED
      BY <1>0, <2>1, <2>2, <2>3, WorkingOn
  <1>8. ASSUME NEW c \in Consumers, Commit(c)
        PROVE  InTime(r)' \/ status'[r] # "none"
    <2>1. \A d \in Consumers : d # c => cpc'[d] = cpc[d] /\ cmsg'[d] = cmsg[d]
      BY <1>0, <1>8 DEF Commit, Goto, TypeOK
    <2>2. queue[r] > 0 => InTime(r)'
      BY <1>8, StillQueued DEF Commit
    <2>3. cmsg[c] = r => status'[r] = "unpaid"
      BY <1>0, <1>8 DEF Commit, TypeOK
    <2>4. QED
      BY <2>1, <2>2, <2>3, OneListenerDecides
  <1>9. ASSUME NEW c \in Consumers, Ack(c)
        PROVE  InTime(r)' \/ status'[r] # "none"
    <2>1. \A d \in Consumers : d # c => cpc'[d] = cpc[d] /\ cmsg'[d] = cmsg[d]
      BY <1>0, <1>9 DEF Ack, Goto, TypeOK
    <2>2. queue[r] > 0 => InTime(r)'
      BY <1>9, StillQueued DEF Ack
    <2>3. cpc[c] = "settled"
      BY <1>9 DEF Ack
    <2>4. QED
      BY <2>1, <2>2, <2>3, OneListenerDecides
  <1>10. ASSUME NEW c \in Consumers,
                LockTimeout(c) \/ DuplicateKey(c) \/ UnlockThrows(c)
                \/ ListenerThrows(c) \/ ConsumerCrash(c)
         PROVE  InTime(r)' \/ status'[r] # "none"
    <2>1. Reject(c) /\ cpc[c] # "idle"
      BY <1>10 DEF LockTimeout, DuplicateKey, UnlockThrows, ListenerThrows, ConsumerCrash
    <2>2. \A d \in Consumers : d # c => cpc'[d] = cpc[d] /\ cmsg'[d] = cmsg[d]
      BY <1>0, <2>1 DEF Reject, Goto, TypeOK
    <2>3. PICK m \in Requests : m = cmsg[c]
      BY <1>0, <2>1 DEF TypeOK
    <2>4. queue' = [queue EXCEPT ![m] = @ + 1]
      BY <2>1, <2>3 DEF Reject, Enqueue
    <2>5. queue'[r] >= queue[r] /\ (m = r => queue'[r] > 0)
      BY <1>0, <1>t, <2>4 DEF TypeOK
    <2>6. queue[r] > 0 => queue'[r] > 0
      BY <1>t, <2>5
    <2>7. (queue[r] > 0 => InTime(r)') /\ (cmsg[c] = r => InTime(r)')
      BY <2>3, <2>5, <2>6, StillQueued
    <2>8. QED
      BY <2>2, <2>7, OneListenerDecides
  <1>11. ASSUME NEW u \in Users, LeaseExpires(u) PROVE InTime(r)'
    BY <1>1, <1>11, <1>t DEF LeaseExpires
  <1>12. CASE UNCHANGED vars
    BY <1>1, <1>12, <1>t DEF vars
  <1>13. QED
    BY <1>2, <1>3, <1>4, <1>5, <1>6, <1>7, <1>8, <1>9, <1>10, <1>11, <1>12
       DEF Next, Step, Rest, Progress, Mishap

(* The message of a published voucher is never given up before its order   *)
(* is in the table: neither the count of orders nor the stock test turns   *)
(* away a buyer who passed the gate, and every exception, lock wait and    *)
(* crash puts the message back.                                            *)
THEOREM NoMessageGivenUp == Spec => DeliverableUntilOrdered
  <1>1. IInv /\ [Next]_vars =>
            [\A r \in Requests :
                InTime(r) /\ pub[r.voucher] = "live" => InTime(r)' \/ status'[r] # "none"]_vars
    BY InTimeStep
  <1>2. QED
    BY <1>1, InductiveInvariant, PTL DEF Spec, DeliverableUntilOrdered

\* The message of r can still become its order, or has become it.
Promised(r) == pub[r.voucher] = "live" /\ (InTime(r) \/ status[r] # "none")

(* Publication is not taken back: the row of a live voucher stays.         *)
LEMMA LiveStays ==
    ASSUME TypeOK, [Next]_vars, NEW v \in Vouchers, pub[v] = "live"
    PROVE  pub'[v] = "live"
  <1>1. ASSUME NEW w \in Vouchers, CommitVoucher(w) PROVE pub'[v] = "live"
    BY <1>1 DEF CommitVoucher, TypeOK
  <1>2. ASSUME NEW c \in Consumers, Commit(c) PROVE pub'[v] = "live"
    BY <1>2 DEF Commit
  <1> QED
    BY <1>1, <1>2, DbFrame

(* Once the broker has the message of a published voucher, the buyer is on *)
(* the way to the order or has it, in every later state of the pipeline.   *)
THEOREM PromiseIsKept ==
    ASSUME NEW r \in Requests
    PROVE  Spec => [](Promised(r) => []Promised(r))
  <1>1. IInv /\ [Next]_vars /\ Promised(r) => Promised(r)'
    <2> SUFFICES ASSUME IInv, [Next]_vars, Promised(r) PROVE Promised(r)'
      OBVIOUS
    <2>1. TypeOK /\ r.voucher \in Vouchers
      BY RequestFields DEF IInv, PipelineInv
    <2>2. pub'[r.voucher] = "live"
      BY <2>1, LiveStays DEF Promised
    <2>3. InTime(r)' \/ status'[r] # "none"
      BY <2>1, InTimeStep, RowsStay DEF Promised
    <2> QED
      BY <2>2, <2>3 DEF Promised
  <1> QED
    BY <1>1, InductiveInvariant, PTL DEF Spec

-----------------------------------------------------------------------------
(* Each step of the pipeline is a grant, a fulfilment or nothing.          *)
Fulfilled == [v \in Vouchers |-> {r.user : r \in OrdersOf(v)}]

LEMMA ReserveGrants ==
    ASSUME IInv, NEW r \in Requests, Reserve(r)
    PROVE  Promise!Grant(r.user, r.voucher)
  <1>0. TypeOK /\ RedisLedger /\ BoughtFinite
    BY DEF IInv, PipelineInv
  <1>1. r.user \in Users /\ r.voucher \in Vouchers
    BY RequestFields
  <1>2. /\ r.user \notin bought[r.voucher] /\ redisStock[r.voucher] > 0
        /\ redisStock[r.voucher] \in Nat
    BY <1>0, <1>1 DEF Reserve, SoldOut, TypeOK, Absent
  <1>3. redisStock[r.voucher] + Cardinality(bought[r.voucher]) = Stock[r.voucher]
    BY <1>0, <1>1, <1>2 DEF RedisLedger, Absent
  <1>4. Cardinality(bought[r.voucher]) \in Nat
    BY <1>0, <1>1, FS_CardinalityType DEF BoughtFinite
  <1>5. Cardinality(bought[r.voucher]) < Stock[r.voucher]
    BY <1>2, <1>3, <1>4
  <1>6. bought' = [bought EXCEPT ![r.voucher] = @ \union {r.user}] /\ UNCHANGED status
    BY DEF Reserve, dbVars
  <1>7. UNCHANGED Fulfilled
    BY <1>6 DEF Fulfilled, OrdersOf, Rows
  <1>8. \A S : Promise!Cardinality(S) = Cardinality(S)
    BY DEF Promise!Cardinality, Cardinality
  <1>9. QED
    BY <1>2, <1>5, <1>6, <1>7, <1>8 DEF Promise!Grant, Fulfilled

LEMMA CommitFulfils ==
    ASSUME IInv, NEW c \in Consumers, NEW r \in Requests, r = cmsg[c], Commit(c)
    PROVE  Promise!Fulfil(r.user, r.voucher)
  <1>0. TypeOK /\ GatePassed /\ ReservedOnce /\ RowOwned /\ RedisLedger
    BY DEF IInv, PipelineInv
  <1>1. r.user \in Users /\ r.voucher \in Vouchers
    BY RequestFields
  <1>2. r \in Reserved /\ status[r] = "none"
    BY <1>0, SeckillAssumption DEF Commit, GatePassed, RowOwned, HoldsRow
  <1>3. r.user \in bought[r.voucher]
    BY <1>0, <1>1, <1>2 DEF RedisLedger
  <1>4. \A q \in OrdersOf(r.voucher) : q.user # r.user
    <2> SUFFICES ASSUME NEW q \in OrdersOf(r.voucher), q.user = r.user PROVE FALSE
      OBVIOUS
    <2>1. q \in Rows /\ q.voucher = r.voucher
      BY DEF OrdersOf
    <2>2. q \in Reserved
      BY <1>1, OrdersBought DEF IInv
    <2>3. q = r
      BY <1>0, <1>2, <2>1, <2>2 DEF ReservedOnce
    <2>4. QED
      BY <1>2, <2>1, <2>3 DEF Rows
  <1>5. r.user \notin Fulfilled[r.voucher]
    BY <1>1, <1>4 DEF Fulfilled
  <1>6. Rows' = Rows \union {r}
    BY <1>0, <1>2 DEF Commit, TypeOK, Rows, OrderStates
  <1>7. /\ OrdersOf(r.voucher)' = OrdersOf(r.voucher) \union {r}
        /\ \A w \in Vouchers : w # r.voucher => OrdersOf(w)' = OrdersOf(w)
    BY <1>6 DEF OrdersOf
  <1>a. Fulfilled'[r.voucher] = Fulfilled[r.voucher] \union {r.user}
    BY <1>1, <1>7 DEF Fulfilled
  <1>b. \A w \in Vouchers : w # r.voucher => Fulfilled'[w] = Fulfilled[w]
    BY <1>7 DEF Fulfilled
  <1>8. Fulfilled' = [Fulfilled EXCEPT ![r.voucher] = @ \union {r.user}]
    <2> DEFINE g == [Fulfilled EXCEPT ![r.voucher] = @ \union {r.user}]
    <2>1. DOMAIN Fulfilled' = Vouchers /\ DOMAIN g = Vouchers
      BY DEF Fulfilled
    <2>2. \A w \in Vouchers : Fulfilled'[w] = g[w]
      BY <1>1, <1>a, <1>b DEF Fulfilled
    <2>3. QED
      BY <2>1, <2>2 DEF Fulfilled
  <1>9. UNCHANGED bought
    BY DEF Commit, redisVars
  <1>10. QED
    BY <1>3, <1>5, <1>8, <1>9 DEF Promise!Fulfil, Fulfilled

(* The pipeline keeps the promise of the sale: at most Stock[v] users are   *)
(* granted v, each once, and a grant becomes at most one order.            *)
THEOREM PipelineKeepsPromise == Spec => SaleSpec
  <1>1. Init => Promise!Init
    BY DEF Init, Promise!Init, OrdersOf, Rows
  <1>2. IInv /\ [Next]_vars => [Promise!Next]_<<bought, Fulfilled>>
    <2> SUFFICES ASSUME IInv, [Next]_vars
                 PROVE  Promise!Next \/ UNCHANGED <<bought, Fulfilled>>
      OBVIOUS
    <2>0. TypeOK
      BY DEF IInv, PipelineInv
    <2>1. ASSUME NEW r \in Requests, Reserve(r) PROVE Promise!Next
      <3>1. r.user \in Users /\ r.voucher \in Vouchers
        BY RequestFields
      <3>2. Promise!Grant(r.user, r.voucher)
        BY <2>1, ReserveGrants
      <3>3. QED
        BY <3>1, <3>2 DEF Promise!Next
    <2>2. ASSUME NEW c \in Consumers, Commit(c) PROVE Promise!Next
      <3>1. PICK r \in Requests : r = cmsg[c]
        BY <2>0, <2>2 DEF TypeOK, Commit
      <3>2. r.user \in Users /\ r.voucher \in Vouchers
        BY RequestFields
      <3>3. Promise!Fulfil(r.user, r.voucher)
        BY <2>2, <3>1, CommitFulfils
      <3>4. QED
        BY <3>2, <3>3 DEF Promise!Next
    <2>3. ASSUME NEW v \in Vouchers, CacheStock(v) \/ CommitVoucher(v)
          PROVE  UNCHANGED <<bought, status>>
      BY <2>3 DEF CacheStock, CommitVoucher, dbVars, redisVars
    <2>4. UNCHANGED <<bought, status>> => UNCHANGED <<bought, Fulfilled>>
      BY DEF Fulfilled, OrdersOf, Rows
    <2>5. QED
      BY <2>0, <2>1, <2>2, <2>3, <2>4, DbFrame, RedisFrame
  <1>3. QED
    BY <1>1, <1>2, InductiveInvariant, PTL
       DEF Spec, SaleSpec, Promise!Spec, Fulfilled
=============================================================================
