------------------------------- MODULE Seckill -------------------------------
(***************************************************************************)
(* The flash-sale pipeline: publication of a seckill voucher, the Lua gate *)
(* in Redis, the RabbitMQ queue direct.seckill.queue, and the consumers    *)
(* that turn each message into a row of tb_voucher_order.                  *)
(*                                                                         *)
(* A request is one HTTP call, identified by its user, its voucher and its *)
(* attempt number; the order id that RedisIdWorker.nextId would give it is *)
(* unique, so the request itself stands for the order id.  The queue is a  *)
(* bag: ten listeners, prefetch and requeueing give no order.              *)
(***************************************************************************)
EXTENDS Integers, FiniteSets

CONSTANTS Users, Vouchers,
          Requests,     \* HTTP calls of seckillVoucher, [user, voucher, try]
          Consumers,    \* listener threads of receiveSeckillMessage
          Stock,        \* Stock[v]: voucher.getStock() at publication
          MaxAttempts,  \* spring.rabbitmq.template.retry.max-attempts
          MaxFaults,    \* bound on the faults of one behaviour
          None          \* no consumer, no message

ASSUME SeckillAssumption ==
    /\ Requests \subseteq [user : Users, voucher : Vouchers, try : Nat]
    /\ Stock \in [Vouchers -> Nat]
    /\ MaxAttempts \in Nat \ {0}
    /\ MaxFaults \in Nat
    /\ None \notin Consumers
    /\ None \notin Requests
    /\ "orphan" \notin Consumers
    /\ "orphan" # None

VARIABLES
    pub,         \* pub[v]: progress of addSeckillVoucher
    redisStock,  \* seckill:stock:v
    bought,      \* seckill:order:v, a Redis set
    rpc,         \* rpc[r]: progress of the HTTP call
    attempts,    \* attempts[r]: publishes of r that raised an exception
    queue,       \* queue[r]: ready copies of r's message
    cpc, cmsg,   \* progress and unacknowledged message of a consumer
    lock,        \* lock[u]: owner of the Redisson lock lock:order:u
    dbStock,     \* tb_seckill_voucher.stock, committed
    status,      \* status[r]: tb_voucher_order.status, "none" without a row
    faults       \* faults still to come

pubVars   == <<pub>>
redisVars == <<redisStock, bought>>
reqVars   == <<rpc, attempts>>
consVars  == <<cpc, cmsg>>
dbVars    == <<dbStock, status>>
vars == <<pub, redisStock, bought, rpc, attempts, queue, cpc, cmsg, lock,
          dbStock, status, faults>>

Absent == -1    \* a missing Redis key or table row

PubStates      == {"new", "cached", "inserted", "live", "rolledBack"}
RequestStates  == {"idle", "reserved", "accepted", "refused", "failed"}
ConsumerStates == {"idle", "received", "unordered", "deducted", "locked",
                   "saved", "unlocked", "settled"}
OrderStates    == {"none", "unpaid", "paid", "used", "cancelled", "refunded"}

\* The states of a transaction that has updated the stock row: the row lock
\* is held from the UPDATE to the end of the transaction.
HoldsRow == {"deducted", "locked", "saved", "unlocked"}
RowFree(v) ==
    /\ pub[v] # "inserted"
    /\ \A c \in Consumers : cpc[c] \in HoldsRow => cmsg[c].voucher # v

Rows        == {r \in Requests : status[r] # "none"}
OrdersOf(v) == {r \in Rows : r.voucher = v}
Reserved    == {r \in Requests : rpc[r] \notin {"idle", "refused"}}

Init ==
    /\ pub = [v \in Vouchers |-> "new"]
    /\ redisStock = [v \in Vouchers |-> Absent]
    /\ bought = [v \in Vouchers |-> {}]
    /\ rpc = [r \in Requests |-> "idle"]
    /\ attempts = [r \in Requests |-> 0]
    /\ queue = [r \in Requests |-> 0]
    /\ cpc = [c \in Consumers |-> "idle"]
    /\ cmsg = [c \in Consumers |-> None]
    /\ lock = [u \in Users |-> None]
    /\ dbStock = [v \in Vouchers |-> Absent]
    /\ status = [r \in Requests |-> "none"]
    /\ faults = MaxFaults

Fault == faults > 0 /\ faults' = faults - 1

-----------------------------------------------------------------------------
(* VoucherServiceImpl.addSeckillVoucher: the Redis key is written first,   *)
(* then the row, and the transaction ends by a commit or a rollback that   *)
(* leaves the key behind.                                                  *)

CacheStock(v) ==
    /\ pub[v] = "new"
    /\ pub' = [pub EXCEPT ![v] = "cached"]
    /\ redisStock' = [redisStock EXCEPT ![v] = Stock[v]]
    /\ UNCHANGED <<bought, reqVars, queue, consVars, lock, dbVars, faults>>

InsertStock(v) ==
    /\ pub[v] = "cached"
    /\ pub' = [pub EXCEPT ![v] = "inserted"]
    /\ UNCHANGED <<redisVars, reqVars, queue, consVars, lock, dbVars, faults>>

CommitVoucher(v) ==
    /\ pub[v] = "inserted"
    /\ pub' = [pub EXCEPT ![v] = "live"]
    /\ dbStock' = [dbStock EXCEPT ![v] = Stock[v]]
    /\ UNCHANGED <<redisVars, reqVars, queue, consVars, lock, status, faults>>

RollbackVoucher(v) ==
    /\ pub[v] \in {"cached", "inserted"}
    /\ Fault
    /\ pub' = [pub EXCEPT ![v] = "rolledBack"]
    /\ UNCHANGED <<redisVars, reqVars, queue, consVars, lock, dbVars>>

-----------------------------------------------------------------------------
(* VoucherOrderServiceImpl.seckillVoucher.  seckill.lua runs as one step.  *)

\* Faulty variant: the script compares the stock with < 0.
SoldOutOffByOne(v) == redisStock[v] < 0

SoldOut(v) == redisStock[v] <= 0

Refuse(r) ==
    /\ rpc[r] = "idle"
    /\ SoldOut(r.voucher) \/ r.user \in bought[r.voucher]
    /\ rpc' = [rpc EXCEPT ![r] = "refused"]
    /\ UNCHANGED <<pub, redisVars, attempts, queue, consVars, lock, dbVars, faults>>

\* Faulty variant: the script does not ask sismember.
ReserveUnchecked(r) ==
    /\ rpc[r] = "idle"
    /\ ~ SoldOut(r.voucher)
    /\ redisStock' = [redisStock EXCEPT ![r.voucher] = @ - 1]
    /\ bought' = [bought EXCEPT ![r.voucher] = @ \union {r.user}]
    /\ rpc' = [rpc EXCEPT ![r] = "reserved"]
    /\ UNCHANGED <<pub, attempts, queue, consVars, lock, dbVars, faults>>

Reserve(r) ==
    /\ rpc[r] = "idle"
    /\ ~ SoldOut(r.voucher)
    /\ r.user \notin bought[r.voucher]
    /\ redisStock' = [redisStock EXCEPT ![r.voucher] = @ - 1]
    /\ bought' = [bought EXCEPT ![r.voucher] = @ \union {r.user}]
    /\ rpc' = [rpc EXCEPT ![r] = "reserved"]
    /\ UNCHANGED <<pub, attempts, queue, consVars, lock, dbVars, faults>>

Enqueue(r) == queue' = [queue EXCEPT ![r] = @ + 1]

\* convertAndSend returns: the broker has the message.
Publish(r) ==
    /\ rpc[r] = "reserved"
    /\ rpc' = [rpc EXCEPT ![r] = "accepted"]
    /\ Enqueue(r)
    /\ UNCHANGED <<pub, redisVars, attempts, consVars, lock, dbVars, faults>>

\* convertAndSend returns, but the message is gone: publisher confirms are
\* not enabled, so nothing is waited for.
PublishLost(r) ==
    /\ rpc[r] = "reserved"
    /\ Fault
    /\ rpc' = [rpc EXCEPT ![r] = "accepted"]
    /\ UNCHANGED <<pub, redisVars, attempts, queue, consVars, lock, dbVars>>

\* An attempt raises an exception, before or after the message reached the
\* broker; the template retries until MaxAttempts and then throws.
PublishThrows(r) ==
    /\ rpc[r] = "reserved"
    /\ Fault
    /\ attempts' = [attempts EXCEPT ![r] = @ + 1]
    /\ rpc' = [rpc EXCEPT ![r] = IF attempts'[r] >= MaxAttempts THEN "failed" ELSE @]
    /\ Enqueue(r) \/ UNCHANGED queue
    /\ UNCHANGED <<pub, redisVars, consVars, lock, dbVars>>

\* The server stops, or nextId throws, after the script and before the send.
RequestDies(r) ==
    /\ rpc[r] = "reserved"
    /\ Fault
    /\ rpc' = [rpc EXCEPT ![r] = "failed"]
    /\ UNCHANGED <<pub, redisVars, attempts, queue, consVars, lock, dbVars>>

-----------------------------------------------------------------------------
(* MQReceiver.receiveSeckillMessage, one transaction per delivery, with    *)
(* saveWithDistributedLock under the @Lock aspect inside it.               *)

Goto(c, pc) == cpc' = [cpc EXCEPT ![c] = pc]

Deliver(c, r) ==
    /\ cpc[c] = "idle"
    /\ queue[r] > 0
    /\ queue' = [queue EXCEPT ![r] = @ - 1]
    /\ cmsg' = [cmsg EXCEPT ![c] = r]
    /\ Goto(c, "received")
    /\ UNCHANGED <<pub, redisVars, reqVars, lock, dbVars, faults>>

\* Faulty variant: the count query is dropped.
NeverCounted(r) == FALSE

AlreadyOrdered(r) == \E q \in OrdersOf(r.voucher) : q.user = r.user

\* The one-order-per-user query, on the committed rows.
CountOrders(c) ==
    /\ cpc[c] = "received"
    /\ Goto(c, IF AlreadyOrdered(cmsg[c]) THEN "settled" ELSE "unordered")
    /\ UNCHANGED <<pub, redisVars, reqVars, queue, cmsg, lock, dbVars, faults>>

\* update ... set stock = stock - 1 where stock > 0, once the row is free.
\* The new value is the transaction's own until it commits.
DeductStock(c) ==
    /\ cpc[c] = "unordered"
    /\ RowFree(cmsg[c].voucher)
    /\ Goto(c, IF dbStock[cmsg[c].voucher] > 0 THEN "deducted" ELSE "settled")
    /\ UNCHANGED <<pub, redisVars, reqVars, queue, cmsg, lock, dbVars, faults>>

AcquireLock(c) ==
    /\ cpc[c] = "deducted"
    /\ lock[cmsg[c].user] = None
    /\ lock' = [lock EXCEPT ![cmsg[c].user] = c]
    /\ Goto(c, "locked")
    /\ UNCHANGED <<pub, redisVars, reqVars, queue, cmsg, dbVars, faults>>

\* Faulty variant: an upsert instead of an insert.
SaveOrUpdate(c) ==
    /\ cpc[c] = "locked"
    /\ Goto(c, "saved")
    /\ UNCHANGED <<pub, redisVars, reqVars, queue, cmsg, lock, dbVars, faults>>

\* INSERT of the order; a row with the same id raises DuplicateKeyException.
SaveOrder(c) ==
    /\ cpc[c] = "locked"
    /\ status[cmsg[c]] = "none"
    /\ Goto(c, "saved")
    /\ UNCHANGED <<pub, redisVars, reqVars, queue, cmsg, lock, dbVars, faults>>

Unlock(c) ==
    /\ cpc[c] = "saved"
    /\ lock[cmsg[c].user] = c
    /\ lock' = [lock EXCEPT ![cmsg[c].user] = None]
    /\ Goto(c, "unlocked")
    /\ UNCHANGED <<pub, redisVars, reqVars, queue, cmsg, dbVars, faults>>

Commit(c) ==
    /\ cpc[c] = "unlocked"
    /\ dbStock' = [dbStock EXCEPT ![cmsg[c].voucher] = @ - 1]
    /\ status' = [status EXCEPT ![cmsg[c]] = "unpaid"]
    /\ Goto(c, "settled")
    /\ UNCHANGED <<pub, redisVars, reqVars, queue, cmsg, lock, faults>>

Ack(c) ==
    /\ cpc[c] = "settled"
    /\ Goto(c, "idle")
    /\ cmsg' = [cmsg EXCEPT ![c] = None]
    /\ UNCHANGED <<pub, redisVars, reqVars, queue, lock, dbVars, faults>>

\* Faulty variant: the listener stays with a message it has given back.
RejectAndKeep(c) ==
    /\ Enqueue(cmsg[c])
    /\ Goto(c, "idle")
    /\ UNCHANGED <<pub, redisVars, reqVars, cmsg, dbVars>>

\* The listener threw: the transaction rolls back and the message returns
\* to the queue (default-requeue-rejected).
Reject(c) ==
    /\ Enqueue(cmsg[c])
    /\ cmsg' = [cmsg EXCEPT ![c] = None]
    /\ Goto(c, "idle")
    /\ UNCHANGED <<pub, redisVars, reqVars, dbVars>>

\* The finally clause of LockAspect; unlocking another's lock only throws.
ReleaseOwn(c) ==
    lock' = [u \in Users |-> IF lock[u] = c THEN None ELSE lock[u]]

\* Faulty variant: SKIP_AFTER_RETRY_TIMEOUT, the listener returns.
LockTimeoutSkips(c) ==
    /\ cpc[c] = "deducted"
    /\ lock[cmsg[c].user] # None
    /\ Goto(c, "settled")
    /\ UNCHANGED <<pub, redisVars, reqVars, queue, cmsg, lock, dbVars, faults>>

\* FAIL_AFTER_RETRY_TIMEOUT: the lock was taken for the whole wait time.
LockTimeout(c) ==
    /\ cpc[c] = "deducted"
    /\ lock[cmsg[c].user] # None
    /\ Reject(c)
    /\ UNCHANGED <<lock, faults>>

DuplicateKey(c) ==
    /\ cpc[c] = "locked"
    /\ status[cmsg[c]] # "none"
    /\ Reject(c)
    /\ ReleaseOwn(c)
    /\ UNCHANGED faults

\* unlock() after the lease ran out: IllegalMonitorStateException.
UnlockThrows(c) ==
    /\ cpc[c] = "saved"
    /\ lock[cmsg[c].user] # c
    /\ Reject(c)
    /\ UNCHANGED <<lock, faults>>

\* A database or connection error, a lock wait timeout included.
ListenerThrows(c) ==
    /\ cpc[c] \notin {"idle", "settled"}
    /\ Fault
    /\ Reject(c)
    /\ ReleaseOwn(c)

\* The process dies, before or after its commit: the broker redelivers, the
\* database rolls back, and the Redisson lock waits for its lease to end.
ConsumerCrash(c) ==
    /\ cpc[c] # "idle"
    /\ Fault
    /\ Reject(c)
    /\ lock' = [u \in Users |-> IF lock[u] = c THEN "orphan" ELSE lock[u]]

\* The 30 s lease ends.  While the holder lives this is a fault.
LeaseExpires(u) ==
    /\ lock[u] # None
    /\ IF lock[u] = "orphan" THEN UNCHANGED faults ELSE Fault
    /\ lock' = [lock EXCEPT ![u] = None]
    /\ UNCHANGED <<pub, redisVars, reqVars, queue, consVars, dbVars>>

-----------------------------------------------------------------------------
Publication(v) == CacheStock(v) \/ InsertStock(v) \/ CommitVoucher(v)
                  \/ RollbackVoucher(v)

Request(r) == Refuse(r) \/ Reserve(r) \/ Publish(r) \/ PublishLost(r)
              \/ PublishThrows(r) \/ RequestDies(r)

\* What a listener thread does by itself, and what befalls it.
Progress(c) ==
    \/ \E r \in Requests : Deliver(c, r)
    \/ CountOrders(c) \/ DeductStock(c) \/ AcquireLock(c) \/ LockTimeout(c)
    \/ SaveOrder(c) \/ DuplicateKey(c) \/ Unlock(c) \/ UnlockThrows(c)
    \/ Commit(c) \/ Ack(c)

Mishap(c) == ListenerThrows(c) \/ ConsumerCrash(c)

Quiescent ==
    /\ \A v \in Vouchers : pub[v] \in {"live", "rolledBack"}
    /\ \A r \in Requests : rpc[r] \notin {"idle", "reserved"} /\ queue[r] = 0
    /\ \A c \in Consumers : cpc[c] = "idle"

\* Everything asked for has been answered: only then may the system rest.
Rest == Quiescent /\ UNCHANGED vars

Step ==
    \/ \E v \in Vouchers : Publication(v)
    \/ \E r \in Requests : Request(r)
    \/ \E c \in Consumers : Progress(c) \/ Mishap(c)
    \/ \E u \in Users : LeaseExpires(u)

Next == Step \/ Rest

Spec == Init /\ [][Next]_vars

\* Listener threads run, and a lease nobody renews ends.
Fairness ==
    /\ \A c \in Consumers : WF_vars(Progress(c))
    /\ \A u \in Users : WF_vars(lock[u] = "orphan" /\ LeaseExpires(u))
    /\ \A v \in Vouchers : WF_vars(InsertStock(v) \/ CommitVoucher(v))

FairSpec == Spec /\ Fairness
-----------------------------------------------------------------------------
TypeOK ==
    /\ pub \in [Vouchers -> PubStates]
    /\ redisStock \in [Vouchers -> Nat \union {Absent}]
    /\ bought \in [Vouchers -> SUBSET Users]
    /\ rpc \in [Requests -> RequestStates]
    /\ attempts \in [Requests -> Nat]
    /\ queue \in [Requests -> Nat]
    /\ cpc \in [Consumers -> ConsumerStates]
    /\ cmsg \in [Consumers -> Requests \union {None}]
    /\ \A c \in Consumers : cmsg[c] = None <=> cpc[c] = "idle"
    /\ lock \in [Users -> Consumers \union {None, "orphan"}]
    /\ dbStock \in [Vouchers -> Nat \union {Absent}]
    /\ status \in [Requests -> OrderStates]
    /\ faults \in Nat

\* The Lua gate gives away exactly the published stock: every piece is either
\* still in seckill:stock:v or held by one distinct user of seckill:order:v,
\* and those users are the ones whose requests passed the gate.
RedisLedger ==
    \A v \in Vouchers :
        /\ bought[v] = {r.user : r \in {q \in Reserved : q.voucher = v}}
        /\ IF pub[v] = "new"
           THEN redisStock[v] = Absent /\ bought[v] = {}
           ELSE /\ redisStock[v] >= 0
                /\ redisStock[v] + Cardinality(bought[v]) = Stock[v]

\* The database sells exactly the published stock: whatever is delivered
\* twice, rolled back, requeued or unlocked early, a piece leaves
\* tb_seckill_voucher.stock when and only when a row enters tb_voucher_order.
DbLedger ==
    \A v \in Vouchers :
        IF pub[v] = "live"
        THEN dbStock[v] + Cardinality(OrdersOf(v)) = Stock[v]
        ELSE dbStock[v] = Absent /\ OrdersOf(v) = {}

\* One order per user and voucher, though the table has no unique key for it,
\* the count is read before the stock row is locked and the distributed lock
\* is released before the commit.
OneOrderPerUser ==
    \A q, r \in Rows : q.user = r.user /\ q.voucher = r.voucher => q = r

\* A consumer that is about to deduct for an order not yet in the table finds
\* stock in a published row: a buyer who passed the gate is never turned away
\* by the database.
ReservedHasStock ==
    \A c \in Consumers :
        LET r == cmsg[c]
        IN  cpc[c] = "unordered" /\ status[r] = "none" /\ pub[r.voucher] = "live"
              => dbStock[r.voucher] > 0

\* The pipeline implements the promise of the sale: Redis grants, the order
\* table fulfils.
Promise == INSTANCE Sale WITH
    granted   <- bought,
    fulfilled <- [v \in Vouchers |-> {r.user : r \in OrdersOf(v)}]

SaleSpec == Promise!Spec

InHand(r) == queue[r] > 0 \/ \E c \in Consumers : cmsg[c] = r

\* No poison message: a message is not requeued for ever, whatever fails.
EveryMessageSettles == \A r \in Requests : InHand(r) ~> ~ InHand(r)

\* A message in the queue of a published voucher ends up as an order.
EveryMessageBecomesOrder ==
    \A r \in Requests :
        (queue[r] > 0 /\ pub[r.voucher] = "live") ~> status[r] # "none"

\* r's message can still become its order: it is queued, or its listener has
\* not decided to be done with it.
InTime(r) == queue[r] > 0 \/ \E c \in Consumers : cmsg[c] = r /\ cpc[c] # "settled"

\* A message of a published voucher is given up only when its own order is in
\* the table: no count of another's order, no lack of stock, no lock wait, no
\* exception and no crash makes a listener acknowledge it for nothing.
DeliverableUntilOrdered ==
    [][\A r \in Requests :
          InTime(r) /\ pub[r.voucher] = "live" => InTime(r)' \/ status'[r] # "none"]_vars

\* What the reply of seckillVoucher suggests and the publisher does not
\* ensure: once the caller has an order id, the message is with the broker,
\* with a consumer, or already an order.
AcceptedIsDelivered ==
    \A r \in Requests : rpc[r] = "accepted" => InHand(r) \/ status[r] # "none"
=============================================================================
