------------------------------ MODULE OrderDesk ------------------------------
(***************************************************************************)
(* The life of an order after the pipeline created it, composed with the   *)
(* pipeline: cancelOrder, refundOrder and deleteOrder each read the row,   *)
(* decide, and write it back in a second statement with no transaction     *)
(* around the two; receiveDelayMessage does the same for an order whose    *)
(* payment time ran out and returns the piece to the database stock.       *)
(* Payment and redemption are done outside this repository.                *)
(***************************************************************************)
EXTENDS Seckill

CONSTANTS Clients,    \* HTTP threads serving cancel, refund and delete calls
          Reapers,    \* listener threads of receiveDelayMessage
          DelayUsed   \* whether anybody calls MQSender.sendDelayMessage

ASSUME DeskAssumption == DelayUsed \in BOOLEAN /\ IsFiniteSet(Reapers)

VARIABLES op,         \* op[k]: the handler client thread k is in, "none" if idle
          target,     \* target[k]: the order it has read
          sends,      \* sends[r]: attempts left to send the delay message of r
          dqueue,     \* dqueue[r]: ready copies of it in dead.letter.queue
          dpc, dmsg,  \* progress of a delay listener and the order it works on
          held,       \* held[d]: its copy is still the broker's delivery to it
          crowded     \* history: readings of an unpaid status, per voucher, made
                      \* while another listener had read it and not yet written

delayVars == <<sends, dqueue, dpc, dmsg, held, crowded>>
deskVars  == <<op, target, delayVars>>
allVars   == <<vars, deskVars>>

Handlers     == {"cancel", "refund", "delete"}
ReaperStates == {"idle", "received", "seen", "done"}
Open         == {"unpaid", "paid", "used"}
Closed       == {"cancelled", "refunded"}

DeskInit ==
    /\ Init
    /\ op = [k \in Clients |-> "none"]
    /\ target = [k \in Clients |-> None]
    /\ sends = [r \in Requests |-> MaxAttempts]
    /\ dqueue = [r \in Requests |-> 0]
    /\ dpc = [d \in Reapers |-> "idle"]
    /\ dmsg = [d \in Reapers |-> None]
    /\ held = [d \in Reapers |-> FALSE]
    /\ crowded = [v \in Vouchers |-> 0]

SetStatus(r, s) ==
    /\ status' = [status EXCEPT ![r] = s]
    /\ UNCHANGED <<pub, redisVars, reqVars, queue, consVars, lock>>

-----------------------------------------------------------------------------
(* Handlers: getById and the test of the status, then the write.  A call   *)
(* that finds no row or another status only replies.                       *)

Load(k, handler, r, allowed) ==
    /\ op[k] = "none"
    /\ status[r] \in allowed
    /\ op' = [op EXCEPT ![k] = handler]
    /\ target' = [target EXCEPT ![k] = r]
    /\ UNCHANGED <<vars, delayVars>>

\* updateById and removeById touch no row when the id is gone.
Store(k, handler, s) ==
    /\ op[k] = handler
    /\ SetStatus(target[k], IF status[target[k]] = "none" THEN "none" ELSE s)
    /\ op' = [op EXCEPT ![k] = "none"]
    /\ target' = [target EXCEPT ![k] = None]
    /\ UNCHANGED <<dbStock, faults, delayVars>>

CancelOrder(k) ==
    \/ \E r \in Requests : Load(k, "cancel", r, {"unpaid", "paid"})
    \/ Store(k, "cancel", "cancelled")

RefundOrder(k) ==
    \/ \E r \in Requests : Load(k, "refund", r, {"paid", "used"})
    \/ Store(k, "refund", "refunded")

DeleteOrder(k) ==
    \/ \E r \in Requests : Load(k, "delete", r, {"cancelled", "refunded"})
    \/ Store(k, "delete", "none")

-----------------------------------------------------------------------------
(* Outside services.                                                       *)

Pay(r) ==
    /\ status[r] = "unpaid"
    /\ SetStatus(r, "paid")
    /\ UNCHANGED <<dbStock, faults, deskVars>>

Redeem(r) ==
    /\ status[r] = "paid"
    /\ SetStatus(r, "used")
    /\ UNCHANGED <<dbStock, faults, deskVars>>

-----------------------------------------------------------------------------
(* MQSender.sendDelayMessage.  An attempt that raises an exception may have *)
(* reached the broker; the template tries again.                           *)

Arrives(r) == dqueue' = [dqueue EXCEPT ![r] = @ + 1]

\* The caller has an order; while the template retries the row may go.
MaySend(r) ==
    DelayUsed /\ sends[r] > 0 /\ (sends[r] = MaxAttempts => status[r] # "none")

SendDelayMessage(r) ==
    /\ MaySend(r)
    /\ sends' = [sends EXCEPT ![r] = 0]
    /\ Arrives(r)
    /\ UNCHANGED <<vars, op, target, dpc, dmsg, held, crowded>>

SendThrows(r) ==
    /\ MaySend(r)
    /\ Fault
    /\ sends' = [sends EXCEPT ![r] = @ - 1]
    /\ Arrives(r) \/ UNCHANGED dqueue
    /\ UNCHANGED <<pub, redisVars, reqVars, queue, consVars, lock, dbVars,
                   op, target, dpc, dmsg, held, crowded>>

-----------------------------------------------------------------------------
(* MQReceiver.receiveDelayMessage, one transaction per delivery.           *)

ReapTo(d, pc) == dpc' = [dpc EXCEPT ![d] = pc]

TakeExpired(d, r) ==
    /\ dpc[d] = "idle"
    /\ dqueue[r] > 0
    /\ dqueue' = [dqueue EXCEPT ![r] = @ - 1]
    /\ dmsg' = [dmsg EXCEPT ![d] = r]
    /\ held' = [held EXCEPT ![d] = TRUE]
    /\ ReapTo(d, "received")
    /\ UNCHANGED <<vars, op, target, sends, crowded>>

\* A listener has read r unpaid and has not yet written.
Seen(r) == \E d \in Reapers : dpc[d] = "seen" /\ dmsg[d] = r

\* getById goes on with the orders of some statuses.
ReadStatus(d, due) ==
    LET r == dmsg[d] IN
    /\ dpc[d] = "received"
    /\ ReapTo(d, IF status[r] \in due THEN "seen" ELSE "done")
    /\ crowded' = IF status[r] \in due /\ Seen(r)
                  THEN [crowded EXCEPT ![r.voucher] = @ + 1] ELSE crowded
    /\ UNCHANGED <<vars, op, target, sends, dqueue, dmsg, held>>

\* Faulty variant: the listener looks for the row, not at its status.
ReadExpiredUnchecked(d) == ReadStatus(d, OrderStates \ {"none"})

\* Faulty variant: the listener takes the code of paid for that of unpaid.
ReadExpiredPaid(d) == ReadStatus(d, {"paid"})

ReadExpired(d) == ReadStatus(d, {"unpaid"})

\* The two updates and the commit, once the stock row is free.  updateById
\* writes whatever status the row has by now, and counts the rows it finds.
CancelExpired(d) ==
    LET r == dmsg[d] IN
    /\ dpc[d] = "seen"
    /\ RowFree(r.voucher)
    /\ IF status[r] = "none"
       THEN UNCHANGED vars
       ELSE /\ SetStatus(r, "cancelled")
            /\ dbStock' = [dbStock EXCEPT ![r.voucher] = @ + 1]
            /\ UNCHANGED faults
    /\ ReapTo(d, "done")
    /\ UNCHANGED <<op, target, sends, dqueue, dmsg, held, crowded>>

Release(d) ==
    /\ ReapTo(d, "idle")
    /\ dmsg' = [dmsg EXCEPT ![d] = None]
    /\ held' = [held EXCEPT ![d] = FALSE]
    /\ UNCHANGED <<op, target, sends, crowded>>

AckExpired(d) ==
    /\ dpc[d] = "done"
    /\ Release(d)
    /\ UNCHANGED <<vars, dqueue>>

\* The listener throws or dies before its commit: rolled back and requeued.
ReapFails(d) ==
    /\ dpc[d] \in {"received", "seen"}
    /\ Fault
    /\ IF held[d] THEN Arrives(dmsg[d]) ELSE UNCHANGED dqueue
    /\ Release(d)
    /\ UNCHANGED <<pub, redisVars, reqVars, queue, consVars, lock, dbVars>>

\* The channel closes: the broker gives the copy to another listener while
\* this one goes on, and nothing comes of its acknowledgement or rejection.
TakenBack(d) ==
    /\ held[d]
    /\ Fault
    /\ Arrives(dmsg[d])
    /\ held' = [held EXCEPT ![d] = FALSE]
    /\ UNCHANGED <<pub, redisVars, reqVars, queue, consVars, lock, dbVars,
                   op, target, sends, dpc, dmsg, crowded>>

-----------------------------------------------------------------------------
DelayProgress(d) ==
    \/ \E r \in Requests : TakeExpired(d, r)
    \/ ReadExpired(d) \/ CancelExpired(d) \/ AckExpired(d)

DeskStep ==
    \/ \E k \in Clients : CancelOrder(k) \/ RefundOrder(k) \/ DeleteOrder(k)
    \/ \E r \in Requests : \/ Pay(r) \/ Redeem(r)
                           \/ SendDelayMessage(r) \/ SendThrows(r)
    \/ \E d \in Reapers : DelayProgress(d) \/ ReapFails(d) \/ TakenBack(d)

DeskNext == (Next /\ UNCHANGED deskVars) \/ DeskStep

DeskSpec == DeskInit /\ [][DeskNext]_allVars

\* Listener threads run.
DeskFairness ==
    /\ \A c \in Consumers : WF_allVars(Progress(c) /\ UNCHANGED deskVars)
    /\ \A d \in Reapers : WF_allVars(DelayProgress(d))

DeskFairSpec == DeskSpec /\ DeskFairness

-----------------------------------------------------------------------------
DeskTypeOK ==
    /\ TypeOK
    /\ op \in [Clients -> Handlers \union {"none"}]
    /\ target \in [Clients -> Requests \union {None}]
    /\ sends \in [Requests -> 0 .. MaxAttempts]
    /\ dqueue \in [Requests -> Nat]
    /\ dpc \in [Reapers -> ReaperStates]
    /\ dmsg \in [Reapers -> Requests \union {None}]
    /\ held \in [Reapers -> BOOLEAN]
    /\ \A d \in Reapers : /\ dmsg[d] = None <=> dpc[d] = "idle"
                          /\ held[d] => dpc[d] # "idle"
    /\ crowded \in [Vouchers -> Nat]

\* The pieces for sale and the open orders together exceed the published
\* stock by no more than the number of times two listeners had one unpaid
\* order in hand at once, both about to cancel it: nothing else returns a
\* piece twice, however cancels, deletes, duplicates of the delay message,
\* rollbacks and redeliveries interleave.
NotOverstocked ==
    \A v \in Vouchers :
        pub[v] = "live" =>
            dbStock[v] + Cardinality({r \in OrdersOf(v) : status[r] \in Open})
                <= Stock[v] + crowded[v]

\* The call of seckillVoucher is over and no copy of its message is left.
Spent(r) == rpc[r] \notin {"idle", "reserved"} /\ ~ InHand(r)

\* Closed or deleted, with no message that could create it again.
ForGood(r) == Spent(r) /\ status[r] \notin Open

\* No step reopens the row of a closed order, whatever older copy of it a
\* handler or listener holds; and a closed or deleted order whose message is
\* spent is never payable again.  (Deleted while a copy is left, it is: its
\* redelivery finds no row and inserts one.)
ClosedStaysClosed ==
    [][\A r \in Requests :
          /\ status[r] \in Closed => status'[r] \notin Open
          /\ ForGood(r) => ForGood(r)']_allVars

\* "Only unpaid and paid orders can be cancelled" as cancelOrder states it:
\* the row that becomes cancelled was unpaid or paid.
OnlyOpenOrdersCancelled ==
    [][\A r \in Requests :
        status'[r] = "cancelled" => status[r] \in {"unpaid", "paid", "cancelled"}]_allVars

\* receiveDelayMessage: an order whose delay message has arrived unpaid does
\* not stay unpaid, whatever rolls back, crashes or is delivered twice.
OverdueCancelled ==
    \A r \in Requests :
        (dqueue[r] > 0 /\ status[r] = "unpaid") ~> status[r] # "unpaid"
=============================================================================
