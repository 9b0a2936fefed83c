--------------------------- MODULE OrderDeskProofs ---------------------------
(***************************************************************************)
(* Theorems about the order desk composed with the pipeline, for any sets  *)
(* of clients and listeners, whether or not delay messages are in use.     *)
(*                                                                         *)
(* The argument.  The desk writes statuses of existing rows and hands      *)
(* stock back to published vouchers; both leave PipelineInv intact, so all *)
(* of the pipeline's invariant but its database ledger carries over.  For  *)
(* the stock, a listener that has read an order unpaid has a claim to one  *)
(* piece, since it will hand a piece back whatever happens to the row in   *)
(* the meantime; an open order nobody has read has a claim of its own.     *)
(* Pieces for sale and claims stay within the published stock and the      *)
(* number of crowded readings (ClaimLedger): a reading moves the claim of  *)
(* the order to the listener, unless another listener has it already, and  *)
(* then it is crowded.  A copy of the delay message of an unpaid order is  *)
(* spent only by the step that cancels the order, or given back, so the    *)
(* order is not forgotten (WatchedUntilPaid).                              *)
(***************************************************************************)
EXTENDS OrderDesk, SeckillProofs

\* A handler between its two statements works on some order.
Aimed == \A k \in Clients : op[k] # "none" => target[k] \in Requests

\* A listener's order is one that was sold.
SeenSold == \A d \in Reapers : dpc[d] = "seen" => pub[dmsg[d].voucher] = "live"

Claims(v) == {d \in Reapers : dpc[d] = "seen" /\ dmsg[d].voucher = v}
Unseen(v) == {r \in OrdersOf(v) : status[r] \in Open /\ ~ Seen(r)}

ClaimLedger ==
    \A v \in Vouchers :
        pub[v] = "live" =>
            dbStock[v] + Cardinality(Unseen(v)) + Cardinality(Claims(v))
                <= Stock[v] + crowded[v]

DeskInv == PipelineInv /\ DeskTypeOK /\ Aimed /\ SeenSold /\ ClaimLedger

-----------------------------------------------------------------------------
LEMMA DeskInitInv == DeskInit => DeskInv
  <1> SUFFICES ASSUME DeskInit PROVE DeskInv
    OBVIOUS
  <1>1. PipelineInv /\ TypeOK /\ Init
    BY InitInv DEF DeskInit, IInv, PipelineInv
  <1>2. DeskTypeOK /\ Aimed /\ SeenSold
    BY <1>1, SeckillAssumption DEF DeskInit, DeskTypeOK, Aimed, SeenSold, ReaperStates
  <1>3. ClaimLedger
    BY <1>1 DEF Init, ClaimLedger
  <1> QED
    BY <1>1, <1>2, <1>3 DEF DeskInv

(* What a handler or the delay listener may do to the database without     *)
(* disturbing the pipeline: change rows that exist, add stock that is sold. *)
LEMMA PipelineFrame ==
    ASSUME PipelineInv,
           UNCHANGED <<pub, redisVars, reqVars, queue, consVars, lock>>,
           faults' \in Nat,
           status' \in [Requests -> OrderStates],
           \A r \in Requests : status[r] = "none" => status'[r] = "none",
           dbStock' \in [Vouchers -> Nat \union {Absent}],
           \A v \in Vouchers :
               dbStock'[v] = dbStock[v] \/ (pub[v] = "live" /\ dbStock'[v] > dbStock[v])
    PROVE  PipelineInv'
  <1> USE DEF redisVars, reqVars, consVars
  <1>0. /\ TypeOK /\ GatePassed /\ ReservedOnce /\ RowOwned /\ BoughtFinite
        /\ RedisLedger /\ UnpublishedIsUnsold
    BY DEF PipelineInv
  <1>1. TypeOK'
    BY <1>0 DEF TypeOK
  <1>2. Reserved' = Reserved
    BY DEF Reserved
  <1>3. GatePassed' /\ ReservedOnce' /\ BoughtFinite' /\ RedisLedger'
    BY <1>0, <1>2 DEF GatePassed, ReservedOnce, BoughtFinite, RedisLedger
  <1>4. RowOwned'
    <2> SUFFICES ASSUME NEW c \in Consumers, cpc[c] \in HoldsRow
                 PROVE  /\ pub[cmsg[c].voucher] = "live"
                        /\ dbStock'[cmsg[c].voucher] > 0
                        /\ cpc[c] \in {"saved", "unlocked"} => status'[cmsg[c]] = "none"
                        /\ \A d \in Consumers :
                              cpc[d] \in HoldsRow /\ cmsg[d].voucher = cmsg[c].voucher
                                => d = c
      BY DEF RowOwned
    <2>1. cmsg[c] \in Requests
      BY <1>0 DEF TypeOK, HoldsRow
    <2>2. cmsg[c].voucher \in Vouchers
      BY <2>1, RequestFields
    <2>3. /\ dbStock[cmsg[c].voucher] \in Int /\ dbStock[cmsg[c].voucher] > 0
          /\ dbStock'[cmsg[c].voucher] \in Int
      BY <1>0, <2>2 DEF TypeOK, RowOwned, Absent
    <2>4. dbStock'[cmsg[c].voucher] > 0
      BY <2>2, <2>3
    <2> QED
      BY <1>0, <2>1, <2>4 DEF RowOwned
  <1>5. UnpublishedIsUnsold'
    BY <1>0 DEF UnpublishedIsUnsold, OrdersOf, Rows, TypeOK
  <1> QED
    BY <1>1, <1>3, <1>4, <1>5 DEF PipelineInv

(* A write of a status, with the stock left alone.                         *)
LEMMA StatusWrite ==
    ASSUME DeskInv, NEW r \in Requests, NEW s \in OrderStates, SetStatus(r, s),
           status[r] = "none" => s = "none", UNCHANGED <<dbStock, faults>>
    PROVE  PipelineInv'
  <1>1. PipelineInv /\ TypeOK
    BY DEF DeskInv, PipelineInv
  <1>2. status' \in [Requests -> OrderStates] /\ faults' \in Nat
    BY <1>1 DEF SetStatus, TypeOK
  <1>3. \A q \in Requests : status[q] = "none" => status'[q] = "none"
    BY <1>1 DEF SetStatus, TypeOK
  <1>4. UNCHANGED <<pub, redisVars, reqVars, queue, consVars, lock>>
    BY DEF SetStatus
  <1>5. dbStock' \in [Vouchers -> Nat \union {Absent}]
    BY <1>1 DEF TypeOK
  <1> QED
    BY <1>1, <1>2, <1>3, <1>4, <1>5, PipelineFrame

(* The claims to pieces of a voucher are finitely many.                    *)
LEMMA ClaimsFinite ==
    ASSUME PipelineInv, NEW v \in Vouchers
    PROVE  /\ IsFiniteSet(Unseen(v)) /\ Cardinality(Unseen(v)) \in Nat
           /\ IsFiniteSet(Claims(v)) /\ Cardinality(Claims(v)) \in Nat
  <1>1. IsFiniteSet(OrdersOf(v)) /\ Unseen(v) \subseteq OrdersOf(v)
    BY OrdersBought DEF Unseen
  <1>2. IsFiniteSet(Reapers) /\ Claims(v) \subseteq Reapers
    BY DeskAssumption DEF Claims
  <1> QED
    BY <1>1, <1>2, FS_Subset, FS_CardinalityType

LEMMA LedgerTypes ==
    ASSUME DeskInv, NEW v \in Vouchers
    PROVE  dbStock[v] \in Int /\ Stock[v] \in Nat /\ crowded[v] \in Nat
  BY SeckillAssumption DEF DeskInv, DeskTypeOK, PipelineInv, TypeOK, Absent

(* The ledger stays true while no claim is added and no stock.             *)
LEMMA ClaimFrame ==
    ASSUME DeskInv, UNCHANGED <<dbStock, crowded>>,
           \A v \in Vouchers : pub'[v] = "live" <=> pub[v] = "live",
           \A v \in Vouchers : Unseen(v)' \subseteq Unseen(v),
           \A v \in Vouchers : Claims(v)' \subseteq Claims(v)
    PROVE  ClaimLedger'
  <1> SUFFICES ASSUME NEW v \in Vouchers, pub[v] = "live"
               PROVE  dbStock[v] + Cardinality(Unseen(v)') + Cardinality(Claims(v)')
                        <= Stock[v] + crowded[v]
    BY DEF ClaimLedger
  <1>1. PipelineInv /\ ClaimLedger
    BY DEF DeskInv
  <1>2. /\ Cardinality(Unseen(v)) \in Nat /\ Cardinality(Unseen(v)') \in Nat
        /\ Cardinality(Unseen(v)') <= Cardinality(Unseen(v))
    BY <1>1, ClaimsFinite, FS_Subset, FS_CardinalityType
  <1>3. /\ Cardinality(Claims(v)) \in Nat /\ Cardinality(Claims(v)') \in Nat
        /\ Cardinality(Claims(v)') <= Cardinality(Claims(v))
    BY <1>1, ClaimsFinite, FS_Subset, FS_CardinalityType
  <1>4. dbStock[v] + Cardinality(Unseen(v)) + Cardinality(Claims(v)) <= Stock[v] + crowded[v]
    BY <1>1 DEF ClaimLedger
  <1> QED
    BY <1>2, <1>3, <1>4, LedgerTypes

\* Steps that leave the listeners between their reading and their write alone.
LEMMA SeenFrame ==
    ASSUME UNCHANGED <<dpc, dmsg>>
    PROVE  /\ \A r \in Requests : Seen(r)' <=> Seen(r)
           /\ \A v \in Vouchers : Claims(v)' = Claims(v)
  BY DEF Seen, Claims

-----------------------------------------------------------------------------
(* The pipeline's own steps.                                               *)

LEMMA PipelineKeepsLedger ==
    ASSUME DeskInv, [Next]_vars, UNCHANGED deskVars
    PROVE  ClaimLedger'
  <1>0. PipelineInv /\ TypeOK /\ RowOwned /\ UnpublishedIsUnsold /\ ClaimLedger
    BY DEF DeskInv, PipelineInv
  <1>1. /\ UNCHANGED <<dpc, dmsg, crowded>>
        /\ \A r \in Requests : Seen(r)' <=> Seen(r)
        /\ \A v \in Vouchers : Claims(v)' = Claims(v)
    BY SeenFrame DEF deskVars, delayVars
  <1>2. ASSUME NEW v \in Vouchers, CommitVoucher(v) PROVE ClaimLedger'
    <2>1. UNCHANGED status /\ \A w \in Vouchers : Unseen(w)' = Unseen(w)
      BY <1>1, <1>2 DEF CommitVoucher, Unseen, OrdersOf, Rows
    <2>2. Unseen(v) = {} /\ Claims(v) = {} /\ dbStock'[v] = Stock[v]
      BY <1>0, <1>2 DEF CommitVoucher, UnpublishedIsUnsold, Unseen, Claims, TypeOK,
                        DeskInv, SeenSold
    <2>3. \A w \in Vouchers : w # v => dbStock'[w] = dbStock[w] /\ pub'[w] = pub[w]
      BY <1>0, <1>2 DEF CommitVoucher, TypeOK
    <2>4. dbStock'[v] + Cardinality(Unseen(v)') + Cardinality(Claims(v)')
            <= Stock[v] + crowded[v]
      <3>1. Cardinality(Unseen(v)') = 0 /\ Cardinality(Claims(v)') = 0
        BY <1>1, <2>1, <2>2, FS_EmptySet
      <3> QED
        BY <2>2, <3>1, LedgerTypes
    <2> QED
      BY <1>0, <1>1, <2>1, <2>3, <2>4 DEF ClaimLedger
  <1>3. ASSUME NEW c \in Consumers, Commit(c) PROVE ClaimLedger'
    <2>1. PICK r \in Requests : r = cmsg[c]
      BY <1>0, <1>3 DEF Commit, TypeOK
    <2>2. r.voucher \in Vouchers /\ UNCHANGED pub
      BY <1>3, RequestFields DEF Commit
    <2>3. /\ dbStock'[r.voucher] = dbStock[r.voucher] - 1
          /\ \A w \in Vouchers : w # r.voucher => dbStock'[w] = dbStock[w]
      BY <1>0, <1>3, <2>1, <2>2 DEF Commit, TypeOK
    <2>4. \A q \in Requests : q # r => status'[q] = status[q]
      BY <1>0, <1>3, <2>1 DEF Commit, TypeOK
    <2>5. /\ Unseen(r.voucher)' \subseteq Unseen(r.voucher) \union {r}
          /\ \A w \in Vouchers : w # r.voucher => Unseen(w)' = Unseen(w)
      BY <1>1, <2>4 DEF Unseen, OrdersOf, Rows
    <2>6. IsFiniteSet(Unseen(r.voucher)) /\ Cardinality(Unseen(r.voucher)) \in Nat
      BY <1>0, <2>2, ClaimsFinite
    <2>7. /\ IsFiniteSet(Unseen(r.voucher) \union {r})
          /\ Cardinality(Unseen(r.voucher) \union {r}) \in Nat
          /\ Cardinality(Unseen(r.voucher) \union {r}) <= Cardinality(Unseen(r.voucher)) + 1
      <3>1. /\ IsFiniteSet(Unseen(r.voucher) \union {r})
            /\ \/ Cardinality(Unseen(r.voucher) \union {r}) = Cardinality(Unseen(r.voucher))
               \/ Cardinality(Unseen(r.voucher) \union {r}) = Cardinality(Unseen(r.voucher)) + 1
        BY <2>6, FS_AddElement
      <3> QED
        BY <2>6, <3>1
    <2>8. /\ Cardinality(Unseen(r.voucher)') \in Nat
          /\ Cardinality(Unseen(r.voucher)') <= Cardinality(Unseen(r.voucher)) + 1
      <3>1. /\ Cardinality(Unseen(r.voucher)') \in Nat
            /\ Cardinality(Unseen(r.voucher)') <= Cardinality(Unseen(r.voucher) \union {r})
        BY <2>5, <2>7, FS_Subset, FS_CardinalityType
      <3> QED
        BY <2>6, <2>7, <3>1
    <2>9. Cardinality(Claims(r.voucher)) \in Nat
      BY <1>0, <2>2, ClaimsFinite
    <2>10. pub[r.voucher] = "live" =>
               dbStock'[r.voucher] + Cardinality(Unseen(r.voucher)')
                   + Cardinality(Claims(r.voucher)) <= Stock[r.voucher] + crowded[r.voucher]
      BY <1>0, <2>2, <2>3, <2>6, <2>8, <2>9, LedgerTypes DEF ClaimLedger
    <2> QED
      BY <1>0, <1>1, <2>2, <2>3, <2>5, <2>10 DEF ClaimLedger
  <1>4. ASSUME UNCHANGED <<dbStock, status>>,
               \A v \in Vouchers : pub'[v] = "live" <=> pub[v] = "live"
        PROVE  ClaimLedger'
    <2>1. \A v \in Vouchers : Unseen(v)' = Unseen(v)
      BY <1>1, <1>4 DEF Unseen, OrdersOf, Rows
    <2> QED
      BY <1>1, <1>4, <2>1, ClaimFrame
  <1> QED
    BY <1>0, <1>2, <1>3, <1>4, DbFrame

LEMMA PipelineKeepsDesk ==
    ASSUME DeskInv, [Next]_vars, UNCHANGED deskVars
    PROVE  DeskInv'
  <1>1. PipelineInv' /\ TypeOK'
    BY PipelineStep DEF DeskInv, PipelineInv
  <1>2. DeskTypeOK' /\ Aimed'
    BY <1>1 DEF DeskInv, DeskTypeOK, Aimed, deskVars, delayVars
  <1>3. SeenSold'
    <2> SUFFICES ASSUME NEW d \in Reapers, dpc[d] = "seen"
                 PROVE  pub'[dmsg[d].voucher] = "live"
      BY DEF SeenSold, deskVars, delayVars
    <2>1. dmsg[d] \in Requests /\ pub[dmsg[d].voucher] = "live"
      BY DEF DeskInv, DeskTypeOK, SeenSold
    <2> QED
      BY <2>1, RequestFields, LiveStays DEF DeskInv, PipelineInv
  <1> QED
    BY <1>1, <1>2, <1>3, PipelineKeepsLedger DEF DeskInv

-----------------------------------------------------------------------------
(* The desk's steps.                                                       *)

\* A step that leaves the pipeline alone leaves its invariant alone.
LEMMA PipelineSame ==
    ASSUME DeskInv, UNCHANGED vars
    PROVE  PipelineInv' /\ TypeOK'
  BY DEF DeskInv, vars, PipelineInv, TypeOK, GatePassed, ReservedOnce, RowOwned,
         BoughtFinite, RedisLedger, UnpublishedIsUnsold, OrdersOf, Rows, Reserved

\* The read of a handler changes nothing but the handler.
LEMMA LoadKeeps ==
    ASSUME DeskInv, NEW k \in Clients, NEW handler \in Handlers, NEW r \in Requests,
           NEW allowed, Load(k, handler, r, allowed)
    PROVE  DeskInv'
  <1>1. /\ PipelineInv' /\ TypeOK'
        /\ UNCHANGED <<pub, dbStock, status, sends, dqueue, dpc, dmsg, held, crowded>>
    BY PipelineSame DEF Load, vars, delayVars
  <1>2. DeskTypeOK' /\ Aimed' /\ SeenSold'
    BY <1>1 DEF DeskInv, DeskTypeOK, Aimed, Load, SeenSold
  <1>3. \A v \in Vouchers : Unseen(v)' = Unseen(v) /\ Claims(v)' = Claims(v)
    BY <1>1, SeenFrame DEF Unseen, OrdersOf, Rows
  <1> QED
    BY <1>1, <1>2, <1>3, ClaimFrame DEF DeskInv

\* A status that is not open, or was open before, adds no claim.
LEMMA StatusKeepsLedger ==
    ASSUME DeskInv, NEW r \in Requests, NEW s \in OrderStates, SetStatus(r, s),
           s \in Open => status[r] \in Open, status[r] = "none" => s = "none",
           UNCHANGED <<dbStock, delayVars>>
    PROVE  ClaimLedger'
  <1>1. TypeOK
    BY DEF DeskInv, PipelineInv
  <1>2. /\ \A q \in Requests : q # r => status'[q] = status[q]
        /\ status'[r] = s /\ UNCHANGED <<pub, crowded>>
    BY <1>1 DEF SetStatus, TypeOK, delayVars
  <1>3. /\ \A v \in Vouchers : Claims(v)' = Claims(v)
        /\ \A q \in Requests : Seen(q)' <=> Seen(q)
    BY SeenFrame DEF delayVars
  <1>4. \A v \in Vouchers : Unseen(v)' \subseteq Unseen(v)
    BY <1>2, <1>3 DEF Unseen, OrdersOf, Rows
  <1> QED
    BY <1>2, <1>3, <1>4, ClaimFrame

LEMMA StoreKeeps ==
    ASSUME DeskInv, NEW k \in Clients, NEW handler \in Handlers,
           NEW s \in OrderStates \ Open, Store(k, handler, s)
    PROVE  DeskInv'
  <1>0. PipelineInv /\ TypeOK /\ DeskTypeOK /\ Aimed
    BY DEF DeskInv, PipelineInv
  <1>1. PICK r \in Requests : r = target[k]
    BY <1>0 DEF Store, Aimed, Handlers
  <1>2. PICK w \in OrderStates \ Open :
            SetStatus(r, w) /\ (status[r] = "none" => w = "none")
    BY <1>1 DEF Store, OrderStates, Open
  <1>3. UNCHANGED <<dbStock, faults, delayVars>>
    BY DEF Store
  <1>4. PipelineInv' /\ TypeOK'
    BY <1>2, <1>3, StatusWrite DEF PipelineInv
  <1>5. DeskTypeOK' /\ Aimed' /\ SeenSold'
    BY <1>0, <1>2, <1>3, <1>4
       DEF Store, DeskTypeOK, Aimed, SetStatus, delayVars, DeskInv, SeenSold
  <1>6. ClaimLedger'
    BY <1>2, <1>3, StatusKeepsLedger
  <1> QED
    BY <1>4, <1>5, <1>6 DEF DeskInv

LEMMA HandlersKeep ==
    ASSUME DeskInv, NEW k \in Clients, CancelOrder(k) \/ RefundOrder(k) \/ DeleteOrder(k)
    PROVE  DeskInv'
  <1>1. \/ \E handler \in Handlers, r \in Requests, allowed \in SUBSET OrderStates :
               Load(k, handler, r, allowed)
        \/ \E handler \in Handlers, s \in OrderStates \ Open : Store(k, handler, s)
    <2>1. /\ {"cancelled", "refunded", "none"} \subseteq OrderStates \ Open
          /\ {"cancel", "refund", "delete"} \subseteq Handlers
          /\ {{"unpaid", "paid"}, {"paid", "used"}, {"cancelled", "refunded"}}
                \subseteq SUBSET OrderStates
      BY DEF OrderStates, Open, Handlers
    <2> QED
      BY <2>1 DEF CancelOrder, RefundOrder, DeleteOrder
  <1> QED
    BY <1>1, LoadKeeps, StoreKeeps

LEMMA OutsideKeeps ==
    ASSUME DeskInv, NEW r \in Requests, Pay(r) \/ Redeem(r)
    PROVE  DeskInv'
  <1>1. PICK s \in OrderStates : SetStatus(r, s)
    BY DEF Pay, Redeem, OrderStates
  <1>2. status[r] \in Open /\ UNCHANGED <<dbStock, faults, op, target, delayVars>>
    BY DEF Pay, Redeem, Open, deskVars
  <1>3. status[r] # "none"
    BY <1>2 DEF Open
  <1>4. PipelineInv' /\ TypeOK'
    BY <1>1, <1>2, <1>3, StatusWrite DEF PipelineInv
  <1>5. DeskTypeOK' /\ Aimed' /\ SeenSold'
    BY <1>1, <1>2, <1>4 DEF DeskInv, DeskTypeOK, Aimed, SetStatus, delayVars, SeenSold
  <1>6. ClaimLedger'
    BY <1>1, <1>2, <1>3, StatusKeepsLedger
  <1> QED
    BY <1>4, <1>5, <1>6 DEF DeskInv

-----------------------------------------------------------------------------
(* The delay message and its listeners.                                    *)

\* Where a listener may go, and the order it has.
LEMMA ReaperOrder ==
    ASSUME DeskTypeOK, NEW d \in Reapers, dpc[d] # "idle"
    PROVE  dmsg[d] \in Requests /\ dmsg[d].voucher \in Vouchers
  BY RequestFields DEF DeskTypeOK

LEMMA ArrivesType ==
    ASSUME DeskTypeOK, NEW r \in Requests, Arrives(r) \/ UNCHANGED dqueue
    PROVE  dqueue' \in [Requests -> Nat]
  BY DEF DeskTypeOK, Arrives

(* Steps of the message and of a listener outside its reading and writing. *)
LEMMA MessageKeeps ==
    ASSUME DeskInv,
           \/ \E r \in Requests : SendDelayMessage(r) \/ SendThrows(r)
           \/ \E d \in Reapers : \/ \E r \in Requests : TakeExpired(d, r)
                                 \/ AckExpired(d) \/ TakenBack(d)
                                 \/ ReapFails(d) /\ dpc[d] = "received"
    PROVE  DeskInv'
  <1> USE DEF ReapTo, Release
  <1>0. PipelineInv /\ TypeOK /\ DeskTypeOK /\ Aimed
    BY DEF DeskInv, PipelineInv
  <1>1. /\ UNCHANGED <<pub, redisVars, reqVars, queue, consVars, lock, dbStock, status,
                       op, target, crowded>>
        /\ faults' \in Nat
    <2>1. faults \in Nat
      BY <1>0 DEF TypeOK
    <2>2. UNCHANGED faults \/ Fault
      BY DEF SendDelayMessage, SendThrows, TakeExpired, AckExpired, TakenBack, ReapFails, vars
    <2>3. faults' \in Nat
      BY <2>1, <2>2 DEF Fault
    <2> QED
      BY <2>3 DEF SendDelayMessage, SendThrows, TakeExpired, AckExpired, TakenBack, ReapFails,
                  vars, dbVars, redisVars, reqVars, consVars
  <1>2. PipelineInv' /\ TypeOK'
    BY <1>0, <1>1, PipelineFrame DEF PipelineInv, TypeOK
  <1>3. /\ dqueue' \in [Requests -> Nat]
        /\ sends' \in [Requests -> 0 .. MaxAttempts]
    <2>1. ASSUME NEW r \in Requests, SendDelayMessage(r) \/ SendThrows(r)
          PROVE  dqueue' \in [Requests -> Nat] /\ sends' \in [Requests -> 0 .. MaxAttempts]
      <3>1. dqueue' \in [Requests -> Nat]
        BY <1>0, <2>1, ArrivesType DEF SendDelayMessage, SendThrows
      <3>2. /\ sends \in [Requests -> 0 .. MaxAttempts] /\ MaxAttempts \in Nat
            /\ sends[r] > 0
        BY <1>0, <2>1, SeckillAssumption DEF SendDelayMessage, SendThrows, MaySend, DeskTypeOK
      <3>3. PICK n \in 0 .. MaxAttempts : sends' = [sends EXCEPT ![r] = n]
        <4>1. 0 \in 0 .. MaxAttempts /\ sends[r] - 1 \in 0 .. MaxAttempts
          BY <3>2
        <4> QED
          BY <2>1, <4>1 DEF SendDelayMessage, SendThrows
      <3> QED
        BY <3>1, <3>2, <3>3
    <2>2. ASSUME NEW d \in Reapers, NEW r \in Requests, TakeExpired(d, r)
          PROVE  dqueue' \in [Requests -> Nat] /\ sends' \in [Requests -> 0 .. MaxAttempts]
      BY <1>0, <2>2 DEF TakeExpired, DeskTypeOK
    <2>3. ASSUME NEW d \in Reapers,
                 AckExpired(d) \/ TakenBack(d) \/ (ReapFails(d) /\ dpc[d] = "received")
          PROVE  dqueue' \in [Requests -> Nat] /\ sends' \in [Requests -> 0 .. MaxAttempts]
      <3>1. dpc[d] # "idle"
        BY <1>0, <2>3 DEF AckExpired, TakenBack, DeskTypeOK
      <3>2. dmsg[d] \in Requests
        BY <1>0, <3>1, ReaperOrder
      <3>3. Arrives(dmsg[d]) \/ UNCHANGED dqueue
        BY <2>3 DEF AckExpired, TakenBack, ReapFails
      <3> QED
        BY <1>0, <2>3, <3>2, <3>3, ArrivesType
           DEF DeskTypeOK, AckExpired, TakenBack, ReapFails
    <2> QED
      BY <2>1, <2>2, <2>3
  <1>4. DeskTypeOK'
    <2>1. /\ dpc' \in [Reapers -> ReaperStates]
          /\ dmsg' \in [Reapers -> Requests \union {None}]
          /\ held' \in [Reapers -> BOOLEAN]
      <3>1. "idle" \in ReaperStates /\ "received" \in ReaperStates
        BY DEF ReaperStates
      <3>2. ASSUME NEW r \in Requests, SendDelayMessage(r) \/ SendThrows(r)
            PROVE  UNCHANGED <<dpc, dmsg, held>>
        BY <3>2 DEF SendDelayMessage, SendThrows
      <3>3. ASSUME NEW d \in Reapers, NEW r \in Requests, TakeExpired(d, r)
            PROVE  /\ dpc' \in [Reapers -> ReaperStates]
                   /\ dmsg' \in [Reapers -> Requests \union {None}]
                   /\ held' \in [Reapers -> BOOLEAN]
        BY <1>0, <3>1, <3>3 DEF DeskTypeOK, TakeExpired
      <3>4. ASSUME NEW d \in Reapers, AckExpired(d) \/ TakenBack(d) \/ ReapFails(d)
            PROVE  /\ dpc' \in [Reapers -> ReaperStates]
                   /\ dmsg' \in [Reapers -> Requests \union {None}]
                   /\ held' \in [Reapers -> BOOLEAN]
        <4>1. AckExpired(d) \/ ReapFails(d) =>
                  /\ dpc' = [dpc EXCEPT ![d] = "idle"]
                  /\ dmsg' = [dmsg EXCEPT ![d] = None]
                  /\ held' = [held EXCEPT ![d] = FALSE]
          BY DEF AckExpired, ReapFails
        <4>2. TakenBack(d) => UNCHANGED <<dpc, dmsg>> /\ held' = [held EXCEPT ![d] = FALSE]
          BY DEF TakenBack
        <4> QED
          BY <1>0, <3>1, <3>4, <4>1, <4>2 DEF DeskTypeOK
      <3> QED
        BY <1>0, <3>2, <3>3, <3>4 DEF DeskTypeOK
    <2>2. \A d \in Reapers : /\ dmsg'[d] = None <=> dpc'[d] = "idle"
                             /\ held'[d] => dpc'[d] # "idle"
      BY <1>0, SeckillAssumption
         DEF DeskTypeOK, SendDelayMessage, SendThrows, TakeExpired, AckExpired, TakenBack,
             ReapFails
    <2> QED
      BY <1>0, <1>1, <1>2, <1>3, <2>1, <2>2 DEF DeskTypeOK
  <1>5. /\ Aimed'
        /\ \A d \in Reapers : dpc'[d] = "seen" <=> dpc[d] = "seen"
        /\ \A d \in Reapers : dpc[d] = "seen" => dmsg'[d] = dmsg[d]
    BY <1>0, <1>1 DEF Aimed, DeskTypeOK, SendDelayMessage, SendThrows, TakeExpired,
                      AckExpired, TakenBack, ReapFails
  <1>6. SeenSold'
    BY <1>1, <1>5 DEF DeskInv, SeenSold
  <1>7. \A v \in Vouchers : Claims(v)' = Claims(v)
    BY <1>5 DEF Claims
  <1>8. \A v \in Vouchers : Unseen(v)' = Unseen(v)
    <2>1. \A r \in Requests : Seen(r)' <=> Seen(r)
      BY <1>5 DEF Seen
    <2> QED
      BY <1>1, <2>1 DEF Unseen, OrdersOf, Rows
  <1> QED
    BY <1>1, <1>2, <1>4, <1>5, <1>6, <1>7, <1>8, ClaimFrame DEF DeskInv

(* A reading moves the claim of the order to the listener, or is crowded.  *)
LEMMA ReadExpiredKeeps ==
    ASSUME DeskInv, NEW d \in Reapers, ReadExpired(d)
    PROVE  DeskInv'
  <1> DEFINE r == dmsg[d]
             v == r.voucher
  <1>0. PipelineInv /\ TypeOK /\ DeskTypeOK /\ Aimed /\ ClaimLedger /\ SeenSold
        /\ UnpublishedIsUnsold
    BY DEF DeskInv, PipelineInv
  <1>1. /\ dpc[d] = "received" /\ UNCHANGED <<vars, op, target, sends, dqueue, dmsg, held>>
        /\ UNCHANGED <<pub, dbStock, status>>
    BY DEF ReadExpired, ReadStatus, vars
  <1>2. r \in Requests /\ v \in Vouchers
    BY <1>0, <1>1, ReaperOrder
  <1>3. PipelineInv' /\ TypeOK'
    BY <1>1, PipelineSame
  <1>4. CASE status[r] # "unpaid"
    <2>1. dpc' = [dpc EXCEPT ![d] = "done"] /\ UNCHANGED crowded
      BY <1>4 DEF ReadExpired, ReadStatus, ReapTo
    <2>2. DeskTypeOK' /\ Aimed' /\ SeenSold'
      BY <1>0, <1>1, <1>3, <2>1 DEF DeskTypeOK, Aimed, ReaperStates, SeenSold
    <2>3. \A w \in Vouchers : Claims(w)' = Claims(w)
      BY <1>0, <1>1, <2>1 DEF DeskTypeOK, Claims
    <2>4. \A q \in Requests : Seen(q)' <=> Seen(q)
      BY <1>0, <1>1, <2>1 DEF DeskTypeOK, Seen
    <2>5. \A w \in Vouchers : Unseen(w)' = Unseen(w)
      BY <1>1, <2>4 DEF Unseen, OrdersOf, Rows
    <2> QED
      BY <1>1, <1>3, <2>1, <2>2, <2>3, <2>5, ClaimFrame DEF DeskInv
  <1>5. CASE status[r] = "unpaid"
    <2>1. dpc' = [dpc EXCEPT ![d] = "seen"]
      BY <1>5 DEF ReadExpired, ReadStatus, ReapTo
    <2>2. pub[v] = "live" /\ r \in OrdersOf(v)
      BY <1>0, <1>2, <1>5 DEF UnpublishedIsUnsold, OrdersOf, Rows
    <2>3. /\ crowded' \in [Vouchers -> Nat]
          /\ \A w \in Vouchers : w # v => crowded'[w] = crowded[w]
          /\ crowded'[v] = IF Seen(r) THEN crowded[v] + 1 ELSE crowded[v]
      BY <1>0, <1>2, <1>5 DEF ReadExpired, ReadStatus, DeskTypeOK
    <2>4. DeskTypeOK' /\ Aimed' /\ SeenSold'
      BY <1>0, <1>1, <1>3, <2>1, <2>2, <2>3 DEF DeskTypeOK, Aimed, ReaperStates, SeenSold
    <2>5. /\ Claims(v)' = Claims(v) \union {d} /\ d \notin Claims(v)
          /\ \A w \in Vouchers : w # v => Claims(w)' = Claims(w)
      BY <1>0, <1>1, <2>1 DEF DeskTypeOK, Claims
    <2>6. /\ Seen(r)'
          /\ \A q \in Requests : q # r => (Seen(q)' <=> Seen(q))
          /\ \A q \in Requests : Seen(q) => Seen(q)'
      BY <1>0, <1>1, <2>1 DEF DeskTypeOK, Seen
    <2>7. /\ Unseen(v)' = Unseen(v) \ {r}
          /\ \A w \in Vouchers : w # v => Unseen(w)' = Unseen(w)
      BY <1>1, <2>2, <2>6 DEF Unseen, OrdersOf, Rows
    <2>8. /\ IsFiniteSet(Unseen(v)) /\ Cardinality(Unseen(v)) \in Nat
          /\ IsFiniteSet(Claims(v)) /\ Cardinality(Claims(v)) \in Nat
      BY <1>0, <1>2, ClaimsFinite
    <2>9. Cardinality(Claims(v)') = Cardinality(Claims(v)) + 1
      BY <2>5, <2>8, FS_AddElement
    <2>10. dbStock[v] + Cardinality(Unseen(v)) + Cardinality(Claims(v))
              <= Stock[v] + crowded[v]
      BY <1>0, <1>2, <2>2 DEF ClaimLedger
    <2>11. /\ dbStock[v] \in Int /\ Stock[v] \in Nat /\ crowded[v] \in Nat
      BY <1>2, LedgerTypes
    <2>12. dbStock'[v] + Cardinality(Unseen(v)') + Cardinality(Claims(v)')
              <= Stock[v] + crowded'[v]
      <3>1. CASE Seen(r)
        <4>1. Unseen(v)' = Unseen(v)
          BY <2>7, <3>1 DEF Unseen
        <4> QED
          BY <1>1, <2>3, <2>8, <2>9, <2>10, <2>11, <3>1, <4>1
      <3>2. CASE ~ Seen(r)
        <4>1. r \in Unseen(v)
          BY <1>5, <2>2, <3>2 DEF Unseen, Open
        <4>2. Cardinality(Unseen(v)') = Cardinality(Unseen(v)) - 1
          BY <2>7, <2>8, <4>1, FS_RemoveElement
        <4> QED
          BY <1>1, <2>3, <2>8, <2>9, <2>10, <2>11, <3>2, <4>2
      <3> QED
        BY <3>1, <3>2
    <2>13. ClaimLedger'
      BY <1>0, <1>1, <2>3, <2>5, <2>7, <2>12 DEF ClaimLedger
    <2> QED
      BY <1>3, <2>4, <2>13 DEF DeskInv
  <1> QED
    BY <1>4, <1>5

(* The listener hands a piece back and gives up its claim to one.          *)
LEMMA CancelExpiredKeeps ==
    ASSUME DeskInv, NEW d \in Reapers, CancelExpired(d)
    PROVE  DeskInv'
  <1>0. PipelineInv /\ TypeOK /\ DeskTypeOK /\ Aimed /\ ClaimLedger /\ SeenSold
    BY DEF DeskInv, PipelineInv
  <1>r. PICK r \in Requests : r = dmsg[d]
    BY <1>0, ReaperOrder DEF CancelExpired
  <1> DEFINE v == r.voucher
  <1>1. /\ dpc[d] = "seen" /\ UNCHANGED <<op, target, sends, dqueue, dmsg, held, crowded>>
        /\ dpc' = [dpc EXCEPT ![d] = "done"]
    BY DEF CancelExpired, ReapTo
  <1>2. r \in Requests /\ v \in Vouchers /\ pub[v] = "live"
    BY <1>0, <1>1, <1>r, RequestFields DEF SeenSold
  <1>3. /\ Claims(v)' = Claims(v) \ {d} /\ d \in Claims(v)
        /\ \A w \in Vouchers : w # v => Claims(w)' = Claims(w)
    BY <1>0, <1>1, <1>r DEF DeskTypeOK, Claims
  <1>4. \A q \in Requests : q # r => (Seen(q)' <=> Seen(q))
    BY <1>0, <1>1, <1>r DEF DeskTypeOK, Seen
  <1>5. CASE status[r] = "none"
    <2>1. UNCHANGED vars
      BY <1>5, <1>r DEF CancelExpired
    <2>2. PipelineInv' /\ TypeOK' /\ UNCHANGED <<pub, dbStock, status>>
      BY <2>1, PipelineSame DEF vars
    <2>3. DeskTypeOK' /\ Aimed' /\ SeenSold'
      BY <1>0, <1>1, <2>2 DEF DeskTypeOK, Aimed, ReaperStates, SeenSold
    <2>4. \A w \in Vouchers : Unseen(w)' \subseteq Unseen(w)
      BY <1>0, <1>4, <1>5, <2>2 DEF Unseen, OrdersOf, Rows
    <2>5. \A w \in Vouchers : Claims(w)' \subseteq Claims(w)
      BY <1>3
    <2> QED
      BY <1>1, <2>2, <2>3, <2>4, <2>5, ClaimFrame DEF DeskInv
  <1>6. CASE status[r] # "none"
    <2>1. /\ SetStatus(r, "cancelled") /\ UNCHANGED faults
          /\ dbStock' = [dbStock EXCEPT ![v] = @ + 1]
      BY <1>6, <1>r DEF CancelExpired
    <2>2. /\ UNCHANGED <<pub, redisVars, reqVars, queue, consVars, lock>>
          /\ status'[r] = "cancelled" /\ status' \in [Requests -> OrderStates]
          /\ \A q \in Requests : q # r => status'[q] = status[q]
      BY <1>0, <1>2, <2>1 DEF SetStatus, TypeOK, OrderStates
    <2>4. /\ dbStock[v] \in Int /\ dbStock'[v] = dbStock[v] + 1
          /\ \A w \in Vouchers : w # v => dbStock'[w] = dbStock[w]
          /\ dbStock' \in [Vouchers -> Nat \union {Absent}]
      BY <1>0, <1>2, <2>1 DEF TypeOK, Absent
    <2>5. \A w \in Vouchers :
              dbStock'[w] = dbStock[w] \/ (pub[w] = "live" /\ dbStock'[w] > dbStock[w])
      BY <1>2, <2>4
    <2>6. PipelineInv' /\ TypeOK'
      BY <1>0, <1>6, <2>1, <2>2, <2>4, <2>5, PipelineFrame DEF PipelineInv, TypeOK
    <2>7. DeskTypeOK' /\ Aimed' /\ SeenSold'
      BY <1>0, <1>1, <2>2, <2>6 DEF DeskTypeOK, Aimed, ReaperStates, SeenSold
    <2>8. \A w \in Vouchers : Unseen(w)' \subseteq Unseen(w)
      BY <1>4, <2>2 DEF Unseen, OrdersOf, Rows, Open
    <2>9. /\ IsFiniteSet(Unseen(v)) /\ Cardinality(Unseen(v)) \in Nat
          /\ IsFiniteSet(Claims(v)) /\ Cardinality(Claims(v)) \in Nat
      BY <1>0, <1>2, ClaimsFinite
    <2>10. Cardinality(Claims(v)') = Cardinality(Claims(v)) - 1
      BY <1>3, <2>9, FS_RemoveElement
    <2>11. /\ Cardinality(Unseen(v)') \in Nat
           /\ Cardinality(Unseen(v)') <= Cardinality(Unseen(v))
      BY <1>2, <2>8, <2>9, FS_Subset, FS_CardinalityType
    <2>12. dbStock[v] + Cardinality(Unseen(v)) + Cardinality(Claims(v))
              <= Stock[v] + crowded[v]
      BY <1>0, <1>2 DEF ClaimLedger
    <2>13. dbStock'[v] + Cardinality(Unseen(v)') + Cardinality(Claims(v)')
              <= Stock[v] + crowded[v]
      BY <1>2, <2>4, <2>9, <2>10, <2>11, <2>12, LedgerTypes
    <2>14. ASSUME NEW w \in Vouchers, w # v, pub[w] = "live"
           PROVE  dbStock[w] + Cardinality(Unseen(w)') + Cardinality(Claims(w))
                    <= Stock[w] + crowded[w]
      <3>1. Cardinality(Unseen(w)) \in Nat /\ Cardinality(Claims(w)) \in Nat
            /\ Cardinality(Unseen(w)') \in Nat
            /\ Cardinality(Unseen(w)') <= Cardinality(Unseen(w))
        BY <1>0, <2>8, ClaimsFinite, FS_Subset, FS_CardinalityType
      <3>2. dbStock[w] + Cardinality(Unseen(w)) + Cardinality(Claims(w))
              <= Stock[w] + crowded[w]
        BY <1>0, <2>14 DEF ClaimLedger
      <3> QED
        BY <3>1, <3>2, LedgerTypes
    <2>15. ClaimLedger'
      BY <1>1, <1>3, <2>2, <2>4, <2>13, <2>14 DEF ClaimLedger
    <2> QED
      BY <2>6, <2>7, <2>15 DEF DeskInv
  <1> QED
    BY <1>5, <1>6

(* A listener that fails returns its claim to the order.                   *)
LEMMA ReapFailsKeeps ==
    ASSUME DeskInv, NEW d \in Reapers, ReapFails(d), dpc[d] = "seen"
    PROVE  DeskInv'
  <1>0. PipelineInv /\ TypeOK /\ DeskTypeOK /\ Aimed /\ ClaimLedger /\ SeenSold
    BY DEF DeskInv, PipelineInv
  <1>r. PICK r \in Requests : r = dmsg[d]
    BY <1>0, ReaperOrder DEF ReapFails
  <1> DEFINE v == r.voucher
  <1>1. /\ UNCHANGED <<pub, redisVars, reqVars, queue, consVars, lock, dbStock, status,
                       op, target, sends, crowded>>
        /\ Fault
        /\ dpc' = [dpc EXCEPT ![d] = "idle"]
        /\ dmsg' = [dmsg EXCEPT ![d] = None]
        /\ held' = [held EXCEPT ![d] = FALSE]
        /\ Arrives(r) \/ UNCHANGED dqueue
    BY <1>r DEF ReapFails, Release, ReapTo, dbVars
  <1>2. r \in Requests /\ v \in Vouchers /\ pub[v] = "live"
    BY <1>0, <1>r, RequestFields DEF SeenSold
  <1>3. PipelineInv' /\ TypeOK'
    <2>1. faults' \in Nat
      BY <1>0, <1>1 DEF TypeOK, Fault
    <2> QED
      BY <1>0, <1>1, <2>1, PipelineFrame DEF PipelineInv, TypeOK
  <1>4. DeskTypeOK' /\ Aimed' /\ SeenSold'
    <2>1. dqueue' \in [Requests -> Nat]
      BY <1>0, <1>1, <1>2, ArrivesType
    <2>2. \A e \in Reapers : /\ dmsg'[e] = None <=> dpc'[e] = "idle"
                             /\ held'[e] => dpc'[e] # "idle"
      BY <1>0, <1>1 DEF DeskTypeOK
    <2>3. SeenSold'
      BY <1>0, <1>1 DEF DeskTypeOK, SeenSold
    <2> QED
      BY <1>0, <1>1, <1>3, <2>1, <2>2, <2>3 DEF DeskTypeOK, Aimed, ReaperStates
  <1>5. /\ Claims(v)' = Claims(v) \ {d} /\ d \in Claims(v)
        /\ \A w \in Vouchers : w # v => Claims(w)' = Claims(w)
    BY <1>0, <1>1, <1>r DEF DeskTypeOK, Claims
  <1>6. \A q \in Requests : q # r => (Seen(q)' <=> Seen(q))
    BY <1>0, <1>1, <1>r DEF DeskTypeOK, Seen
  <1>7. /\ Unseen(v)' \subseteq Unseen(v) \union {r}
        /\ \A w \in Vouchers : w # v => Unseen(w)' = Unseen(w)
    BY <1>1, <1>6 DEF Unseen, OrdersOf, Rows
  <1>8. /\ IsFiniteSet(Unseen(v)) /\ Cardinality(Unseen(v)) \in Nat
        /\ IsFiniteSet(Claims(v)) /\ Cardinality(Claims(v)) \in Nat
    BY <1>0, <1>2, ClaimsFinite
  <1>9. Cardinality(Claims(v)') = Cardinality(Claims(v)) - 1
    BY <1>5, <1>8, FS_RemoveElement
  <1>10. /\ Cardinality(Unseen(v)') \in Nat
         /\ Cardinality(Unseen(v)') <= Cardinality(Unseen(v)) + 1
    <2>1. /\ IsFiniteSet(Unseen(v) \union {r})
          /\ \/ Cardinality(Unseen(v) \union {r}) = Cardinality(Unseen(v))
             \/ Cardinality(Unseen(v) \union {r}) = Cardinality(Unseen(v)) + 1
      BY <1>8, FS_AddElement
    <2>2. /\ Cardinality(Unseen(v)') \in Nat
          /\ Cardinality(Unseen(v)') <= Cardinality(Unseen(v) \union {r})
      BY <1>7, <2>1, FS_Subset, FS_CardinalityType
    <2> QED
      BY <1>8, <2>1, <2>2
  <1>11. dbStock[v] + Cardinality(Unseen(v)) + Cardinality(Claims(v)) <= Stock[v] + crowded[v]
    BY <1>0, <1>2 DEF ClaimLedger
  <1>12. dbStock[v] + Cardinality(Unseen(v)') + Cardinality(Claims(v)') <= Stock[v] + crowded[v]
    BY <1>2, <1>8, <1>9, <1>10, <1>11, LedgerTypes
  <1>13. ClaimLedger'
    BY <1>0, <1>1, <1>5, <1>7, <1>12 DEF ClaimLedger
  <1> QED
    BY <1>3, <1>4, <1>13 DEF DeskInv

LEMMA ReapersKeep ==
    ASSUME DeskInv, NEW d \in Reapers, DelayProgress(d) \/ ReapFails(d) \/ TakenBack(d)
    PROVE  DeskInv'
  <1>1. ReapFails(d) => dpc[d] \in {"received", "seen"}
    BY DEF ReapFails
  <1> QED
    BY <1>1, MessageKeeps, ReadExpiredKeeps, CancelExpiredKeeps, ReapFailsKeeps
       DEF DelayProgress

-----------------------------------------------------------------------------
LEMMA DeskInvStep == DeskInv /\ [DeskNext]_allVars => DeskInv'
  <1> SUFFICES ASSUME DeskInv, [DeskNext]_allVars PROVE DeskInv'
    OBVIOUS
  <1>1. CASE Next /\ UNCHANGED deskVars
    BY <1>1, PipelineKeepsDesk
  <1>2. CASE UNCHANGED allVars
    BY <1>2, PipelineKeepsDesk DEF allVars
  <1>3. CASE DeskStep
    BY <1>3, HandlersKeep, OutsideKeeps, MessageKeeps, ReapersKeep DEF DeskStep
  <1> QED
    BY <1>1, <1>2, <1>3 DEF DeskNext

(* The inductive invariant of the composition: the pipeline's, and the     *)
(* ledger of the pieces the delay listener will hand back.                 *)
THEOREM DeskInductiveInvariant == DeskSpec => []DeskInv
  <1> QED
    BY DeskInitInv, DeskInvStep, PTL DEF DeskSpec

(* Type correctness of the order desk and of the pipeline below it.        *)
THEOREM DeskTypeCorrectness == DeskSpec => []DeskTypeOK
  <1>1. DeskInv => DeskTypeOK
    BY DEF DeskInv
  <1> QED
    BY <1>1, DeskInductiveInvariant, PTL

(* Cancels, refunds, deletes, rollbacks and duplicates of the delay message *)
(* never put more pieces on sale than the open orders leave, but for one   *)
(* piece for each time two listeners had an unpaid order in hand at once.  *)
THEOREM StockIsNotInflated == DeskSpec => []NotOverstocked
  <1>1. DeskInv => NotOverstocked
    <2> SUFFICES ASSUME DeskInv, NEW v \in Vouchers, pub[v] = "live"
                 PROVE  dbStock[v] + Cardinality({r \in OrdersOf(v) : status[r] \in Open})
                          <= Stock[v] + crowded[v]
      BY DEF NotOverstocked
    <2> DEFINE S == {r \in OrdersOf(v) : status[r] \in Open}
               T == {r \in S : Seen(r)}
               f == [d \in {e \in Claims(v) : dmsg[e] \in T} |-> dmsg[d]]
    <2>1. /\ IsFiniteSet(Unseen(v)) /\ Cardinality(Unseen(v)) \in Nat
          /\ IsFiniteSet(Claims(v)) /\ Cardinality(Claims(v)) \in Nat
      BY ClaimsFinite DEF DeskInv
    <2>2. S = Unseen(v) \union T
      BY DEF Unseen
    <2>3. IsFiniteSet(T) /\ Cardinality(T) \in Nat /\ Cardinality(T) <= Cardinality(Claims(v))
      <3>1. \A r \in T : \E d \in Claims(v) : dmsg[d] = r
        BY DEF Seen, Claims, OrdersOf
      <3>2. f \in Surjection({e \in Claims(v) : dmsg[e] \in T}, T)
        BY <3>1 DEF Surjection
      <3>3. /\ IsFiniteSet({e \in Claims(v) : dmsg[e] \in T})
            /\ Cardinality({e \in Claims(v) : dmsg[e] \in T}) \in Nat
            /\ Cardinality({e \in Claims(v) : dmsg[e] \in T}) <= Cardinality(Claims(v))
        BY <2>1, FS_Subset, FS_CardinalityType
      <3>4. IsFiniteSet(T) /\ Cardinality(T) <= Cardinality({e \in Claims(v) : dmsg[e] \in T})
        BY <3>2, <3>3, FS_Surjection
      <3>5. Cardinality(T) \in Nat
        BY <3>4, FS_CardinalityType
      <3> QED
        BY <2>1, <3>3, <3>4, <3>5
    <2>4. Cardinality(S) \in Nat /\ Cardinality(S) <= Cardinality(Unseen(v)) + Cardinality(T)
      <3> HIDE DEF T, S
      <3>1. /\ IsFiniteSet(Unseen(v) \union T)
            /\ Cardinality(Unseen(v) \union T)
                 = Cardinality(Unseen(v)) + Cardinality(T) - Cardinality(Unseen(v) \cap T)
        BY <2>1, <2>3, FS_Union
      <3>2. Cardinality(Unseen(v) \cap T) \in Nat /\ Cardinality(Unseen(v) \union T) \in Nat
        BY <2>1, <3>1, FS_Intersection, FS_CardinalityType
      <3> QED
        BY <2>1, <2>2, <2>3, <3>1, <3>2
    <2>5. dbStock[v] + Cardinality(Unseen(v)) + Cardinality(Claims(v)) <= Stock[v] + crowded[v]
      BY DEF DeskInv, ClaimLedger
    <2> HIDE DEF S, T
    <2>6. dbStock[v] + Cardinality(S) <= Stock[v] + crowded[v]
      BY <2>1, <2>3, <2>4, <2>5, LedgerTypes
    <2> QED
      BY <2>6 DEF S
  <1> QED
    BY <1>1, DeskInductiveInvariant, PTL

\* The bound receiveDelayMessage is written for: no more for sale than the
\* open orders leave.
NeverOverstocked ==
    \A v \in Vouchers :
        pub[v] = "live" =>
            dbStock[v] + Cardinality({r \in OrdersOf(v) : status[r] \in Open}) <= Stock[v]

(* With one listener, instead of the ten of application.yaml, an order is  *)
(* never in two hands, and the stock is exact: duplicates and redeliveries *)
(* of the delay message then find the order cancelled.                     *)
THEOREM OneListenerReturnsOnce ==
    ASSUME \A d, e \in Reapers : d = e
    PROVE  DeskSpec => []NeverOverstocked
  <1> DEFINE Uncrowded == \A v \in Vouchers : crowded[v] = 0
  <1>1. DeskInit => Uncrowded
    BY DEF DeskInit
  <1>2. DeskInv /\ Uncrowded /\ [DeskNext]_allVars => Uncrowded'
    <2> SUFFICES ASSUME DeskInv, Uncrowded, [DeskNext]_allVars PROVE Uncrowded'
      OBVIOUS
    <2>1. CASE UNCHANGED crowded
      BY <2>1
    <2>2. ASSUME NEW d \in Reapers, ReadExpired(d) PROVE UNCHANGED crowded
      <3>1. ~ Seen(dmsg[d])
        BY <2>2 DEF ReadExpired, ReadStatus, Seen
      <3> QED
        BY <2>2, <3>1 DEF ReadExpired, ReadStatus
    <2>3. (\E d \in Reapers : ReadExpired(d)) \/ UNCHANGED crowded
      BY DEF DeskNext, DeskStep, CancelOrder, RefundOrder, DeleteOrder, Load, Store, Pay,
             Redeem, SendDelayMessage, SendThrows, DelayProgress, TakeExpired, CancelExpired,
             AckExpired, ReapFails, TakenBack, Release, allVars, deskVars, delayVars
    <2> QED
      BY <2>1, <2>2, <2>3
  <1>3. DeskSpec => []Uncrowded
    BY <1>1, <1>2, DeskInductiveInvariant, PTL DEF DeskSpec
  <1>4. DeskInv /\ Uncrowded /\ NotOverstocked => NeverOverstocked
    <2> SUFFICES ASSUME DeskInv, Uncrowded, NotOverstocked, NEW v \in Vouchers, pub[v] = "live"
                 PROVE  dbStock[v] + Cardinality({r \in OrdersOf(v) : status[r] \in Open})
                          <= Stock[v]
      BY DEF NeverOverstocked
    <2>1. Stock[v] + crowded[v] = Stock[v]
      BY LedgerTypes
    <2> QED
      BY <2>1 DEF NotOverstocked
  <1> QED
    BY <1>3, <1>4, DeskInductiveInvariant, StockIsNotInflated, PTL

(* No user ever has two orders for one voucher, though orders may be       *)
(* deleted and their messages delivered again.                             *)
THEOREM OrderStaysUnique == DeskSpec => []OneOrderPerUser
  <1>1. DeskInv => OneOrderPerUser
    BY DEF DeskInv, PipelineInv, GatePassed, ReservedOnce, OneOrderPerUser, Rows
  <1> QED
    BY <1>1, DeskInductiveInvariant, PTL

\* A message that is spent stays spent: nothing sends it again.
LEMMA SpentStays ==
    ASSUME TypeOK, [Next]_vars, NEW r \in Requests, Spent(r)
    PROVE  Spent(r)'
  <1> USE DEF Reject, Enqueue, Goto, redisVars, reqVars, consVars, dbVars
  <1>0. /\ rpc[r] \notin {"idle", "reserved"} /\ queue[r] = 0 /\ queue[r] \in Nat
        /\ \A c \in Consumers : cmsg[c] # r
    BY DEF Spent, InHand, TypeOK
  <1>1. ASSUME NEW q \in Requests, Request(q)
        PROVE  UNCHANGED cmsg /\ rpc'[r] = rpc[r] /\ queue'[r] = queue[r]
    <2>1. q # r
      BY <1>0, <1>1 DEF Request, Refuse, Reserve, Publish, PublishLost, PublishThrows,
                        RequestDies
    <2> QED
      BY <1>1, <2>1 DEF Request, Refuse, Reserve, Publish, PublishLost, PublishThrows,
                        RequestDies, TypeOK
  <1>2. ASSUME NEW c \in Consumers, Progress(c) \/ Mishap(c)
        PROVE  /\ UNCHANGED rpc /\ queue'[r] = queue[r]
               /\ \A d \in Consumers : cmsg'[d] # r
    <2>1. ASSUME NEW q \in Requests, Deliver(c, q)
          PROVE  /\ UNCHANGED rpc /\ queue'[r] = queue[r]
                 /\ \A d \in Consumers : cmsg'[d] # r
      BY <1>0, <2>1 DEF Deliver, TypeOK
    <2>2. ASSUME Reject(c), UNCHANGED rpc
          PROVE  /\ UNCHANGED rpc /\ queue'[r] = queue[r]
                 /\ \A d \in Consumers : cmsg'[d] # r
      BY <1>0, <2>2, SeckillAssumption DEF TypeOK
    <2>3. CASE \E q \in Requests : Deliver(c, q)
      BY <2>1, <2>3
    <2>4. CASE LockTimeout(c) \/ DuplicateKey(c) \/ UnlockThrows(c) \/ Mishap(c)
      BY <2>2, <2>4 DEF LockTimeout, DuplicateKey, UnlockThrows, Mishap, ListenerThrows,
                        ConsumerCrash
    <2>5. CASE Ack(c)
      BY <1>0, <2>5, SeckillAssumption DEF Ack, TypeOK
    <2>6. CASE CountOrders(c) \/ DeductStock(c) \/ AcquireLock(c) \/ SaveOrder(c) \/ Unlock(c)
               \/ Commit(c)
      BY <1>0, <2>6 DEF CountOrders, DeductStock, AcquireLock, SaveOrder, Unlock, Commit
    <2> QED
      BY <1>2, <2>3, <2>4, <2>5, <2>6 DEF Progress
  <1>3. ASSUME \/ \E v \in Vouchers : Publication(v)
               \/ \E u \in Users : LeaseExpires(u)
               \/ UNCHANGED vars
        PROVE  UNCHANGED <<rpc, queue, cmsg>>
    BY <1>3 DEF Publication, CacheStock, InsertStock, CommitVoucher, RollbackVoucher,
                LeaseExpires, vars
  <1>4. rpc'[r] = rpc[r] /\ queue'[r] = queue[r] /\ \A c \in Consumers : cmsg'[c] # r
    BY <1>0, <1>1, <1>2, <1>3 DEF Next, Step, Rest
  <1> QED
    BY <1>0, <1>4 DEF Spent, InHand

\* The pipeline inserts only the orders whose messages are in hand and whose
\* rows are missing; the desk opens only what was open.
LEMMA NotReopened ==
    ASSUME DeskInv, [DeskNext]_allVars, NEW r \in Requests, status[r] \notin Open,
           status[r] \in Closed \/ Spent(r)
    PROVE  status'[r] \notin Open
  <1>0. TypeOK /\ RowOwned /\ Aimed /\ DeskTypeOK
    BY DEF DeskInv, PipelineInv
  <1>1. status'[r] = status[r] => status'[r] \notin Open
    OBVIOUS
  <1>2. CASE [Next]_vars
    <2>1. ASSUME NEW c \in Consumers, Commit(c) PROVE status'[r] = status[r]
      <3>1. cmsg[c] # r
        BY <1>0, <2>1 DEF Commit, RowOwned, HoldsRow, Closed, Spent, InHand
      <3> QED
        BY <1>0, <2>1, <3>1 DEF Commit, TypeOK
    <2>2. ASSUME NEW v \in Vouchers, CommitVoucher(v) PROVE status'[r] = status[r]
      BY <2>2 DEF CommitVoucher
    <2> QED
      BY <1>1, <1>2, <2>1, <2>2, DbFrame
  <1>3. ASSUME NEW q \in Requests, NEW s, SetStatus(q, s), s \in Open => status[q] \in Open
        PROVE  status'[r] \notin Open
    <2>1. status'[r] = IF r = q THEN s ELSE status[r]
      BY <1>0, <1>3 DEF SetStatus, TypeOK
    <2> QED
      BY <1>1, <1>3, <2>1
  <1>4. ASSUME NEW k \in Clients, CancelOrder(k) \/ RefundOrder(k) \/ DeleteOrder(k)
        PROVE  status'[r] \notin Open
    <2>1. \/ UNCHANGED vars
          \/ \E handler \in Handlers, s \in {"cancelled", "refunded", "none"} :
                 Store(k, handler, s)
      BY <1>4 DEF CancelOrder, RefundOrder, DeleteOrder, Load, Handlers
    <2>2. ASSUME NEW handler \in Handlers, NEW s \in {"cancelled", "refunded", "none"},
                 Store(k, handler, s)
          PROVE  status'[r] \notin Open
      <3>1. target[k] \in Requests
        BY <1>0, <2>2 DEF Store, Aimed, Handlers
      <3>2. \E w \in {"cancelled", "refunded", "none"} : SetStatus(target[k], w)
        BY <2>2 DEF Store
      <3> QED
        BY <1>3, <3>1, <3>2 DEF Open
    <2> QED
      BY <1>1, <2>1, <2>2 DEF vars
  <1>5. ASSUME NEW q \in Requests, Pay(q) \/ Redeem(q)
        PROVE  status'[r] \notin Open
    BY <1>3, <1>5 DEF Pay, Redeem, Open
  <1>6. ASSUME NEW q \in Requests, SendDelayMessage(q) \/ SendThrows(q)
        PROVE  UNCHANGED status
    BY <1>6 DEF SendDelayMessage, SendThrows, vars, dbVars
  <1>7. ASSUME NEW d \in Reapers, DelayProgress(d) \/ ReapFails(d) \/ TakenBack(d),
               ~ CancelExpired(d)
        PROVE  UNCHANGED status
    BY <1>7 DEF DelayProgress, TakeExpired, ReadExpired, ReadStatus, AckExpired, ReapFails,
                TakenBack, vars, dbVars
  <1>8. ASSUME NEW d \in Reapers, CancelExpired(d)
        PROVE  status'[r] \notin Open
    <2>1. dmsg[d] \in Requests
      BY <1>0, <1>8, ReaperOrder DEF CancelExpired
    <2> QED
      BY <1>1, <1>3, <1>8, <2>1 DEF CancelExpired, vars, Open
  <1>9. CASE UNCHANGED allVars
    BY <1>2, <1>9 DEF allVars
  <1> QED
    BY <1>1, <1>2, <1>4, <1>5, <1>6, <1>7, <1>8, <1>9 DEF DeskNext, DeskStep

LEMMA SpentAtTheDesk ==
    ASSUME DeskInv, [DeskNext]_allVars, NEW r \in Requests, Spent(r)
    PROVE  Spent(r)'
  <1>1. CASE [Next]_vars
    BY <1>1, SpentStays DEF DeskInv, PipelineInv
  <1>2. CASE DeskStep
    <2>1. UNCHANGED <<rpc, queue, cmsg>>
      BY <1>2 DEF DeskStep, CancelOrder, RefundOrder, DeleteOrder, Load, Store, SetStatus,
                  Pay, Redeem, SendDelayMessage, SendThrows, DelayProgress, TakeExpired,
                  ReadExpired, ReadStatus, CancelExpired, AckExpired, ReapFails, TakenBack,
                  vars, reqVars, consVars
    <2> QED
      BY <2>1 DEF Spent, InHand
  <1>3. CASE UNCHANGED allVars
    BY <1>1, <1>3 DEF allVars
  <1> QED
    BY <1>1, <1>2, <1>3 DEF DeskNext

(* No step of the pipeline or the desk makes a cancelled or refunded order *)
(* payable again: a redelivered message finds its row and fails.  Deleted, *)
(* the order comes back only from a message that is not yet spent.         *)
THEOREM ClosedOrdersStayClosed == DeskSpec => ClosedStaysClosed
  <1>1. DeskInv /\ [DeskNext]_allVars =>
            \A r \in Requests : /\ status[r] \in Closed => status'[r] \notin Open
                                /\ ForGood(r) => ForGood(r)'
    <2>1. Closed \cap Open = {}
      BY DEF Closed, Open
    <2> QED
      BY <2>1, NotReopened, SpentAtTheDesk DEF ForGood
  <1> QED
    BY <1>1, DeskInductiveInvariant, PTL DEF DeskSpec, ClosedStaysClosed

-----------------------------------------------------------------------------
(* The delay message of an unpaid order.                                   *)

\* A copy of the message will be delivered, or is with a listener that can
\* still cancel the order or give the copy back.
Pending(r) == \/ dqueue[r] > 0
              \/ \E d \in Reapers : /\ held[d] /\ dmsg[d] = r
                                    /\ dpc[d] \in {"received", "seen"}

Overdue(r) == Pending(r) /\ status[r] = "unpaid"

\* receiveDelayMessage: while an overdue order is unpaid a copy of its message
\* stays with the broker or a listener, through rollbacks, crashes and
\* duplicates: the safety part of OverdueCancelled.
WatchedUntilPaid ==
    [][\A r \in Requests : Overdue(r) => Overdue(r)' \/ status'[r] # "unpaid"]_allVars

(* No order is left unpaid with its delay message spent: the last copy of  *)
(* the message of an overdue order is given up only by the step that       *)
(* settles the order.                                                      *)
THEOREM NoOverdueOrderForgotten == DeskSpec => WatchedUntilPaid
  <1>1. DeskInv /\ [DeskNext]_allVars =>
            \A r \in Requests : Overdue(r) => Overdue(r)' \/ status'[r] # "unpaid"
    <2> SUFFICES ASSUME DeskInv, [DeskNext]_allVars, NEW r \in Requests,
                        Overdue(r), status'[r] = "unpaid"
                 PROVE  Pending(r)'
      BY DEF Overdue
    <2> USE DEF Arrives, ReapTo, Release
    <2>0. TypeOK /\ DeskTypeOK /\ Pending(r)
      BY DEF DeskInv, PipelineInv, Overdue
    <2>1. UNCHANGED <<dqueue, dpc, dmsg, held>> => Pending(r)'
      BY <2>0 DEF Pending
    <2>2. CASE UNCHANGED deskVars \/ UNCHANGED allVars
      BY <2>1, <2>2 DEF deskVars, allVars, delayVars
    <2>3. ASSUME NEW k \in Clients, CancelOrder(k) \/ RefundOrder(k) \/ DeleteOrder(k)
          PROVE  Pending(r)'
      BY <2>1, <2>3 DEF CancelOrder, RefundOrder, DeleteOrder, Load, Store, delayVars
    <2>4. ASSUME NEW q \in Requests, Pay(q) \/ Redeem(q)
          PROVE  Pending(r)'
      BY <2>1, <2>4 DEF Pay, Redeem, deskVars, delayVars
    <2>5. ASSUME NEW q \in Requests, SendDelayMessage(q) \/ SendThrows(q)
          PROVE  Pending(r)'
      <3>1. UNCHANGED <<dpc, dmsg, held>> /\ dqueue'[r] >= dqueue[r]
        BY <2>0, <2>5 DEF SendDelayMessage, SendThrows, DeskTypeOK
      <3>2. dqueue[r] \in Nat /\ dqueue'[r] \in Int
        BY <2>0, <2>5 DEF SendDelayMessage, SendThrows, DeskTypeOK
      <3> QED
        BY <2>0, <3>1, <3>2 DEF Pending
    <2>6. ASSUME NEW d \in Reapers, NEW q \in Requests, TakeExpired(d, q)
          PROVE  Pending(r)'
      BY <2>0, <2>6 DEF TakeExpired, DeskTypeOK, Pending
    <2>7. ASSUME NEW d \in Reapers, ReadExpired(d)
          PROVE  Pending(r)'
      <3>1. /\ UNCHANGED <<dqueue, dmsg, held>> /\ dpc[d] = "received"
            /\ dmsg[d] = r => dpc' = [dpc EXCEPT ![d] = "seen"]
            /\ \A e \in Reapers : e # d => dpc'[e] = dpc[e]
        BY <2>0, <2>7 DEF ReadExpired, ReadStatus, DeskTypeOK, Overdue
      <3> QED
        BY <2>0, <3>1 DEF Pending, DeskTypeOK
    <2>8. ASSUME NEW d \in Reapers, CancelExpired(d)
          PROVE  Pending(r)'
      <3>1. dmsg[d] # r
        BY <2>0, <2>8 DEF CancelExpired, SetStatus, TypeOK, Overdue
      <3>2. /\ UNCHANGED <<dqueue, dmsg, held>>
            /\ \A e \in Reapers : e # d => dpc'[e] = dpc[e]
        BY <2>0, <2>8 DEF CancelExpired, DeskTypeOK
      <3> QED
        BY <2>0, <3>1, <3>2 DEF Pending
    <2>9. ASSUME NEW d \in Reapers, AckExpired(d)
          PROVE  Pending(r)'
      BY <2>0, <2>9 DEF AckExpired, Pending, DeskTypeOK
    <2>10. ASSUME NEW d \in Reapers, ReapFails(d) \/ TakenBack(d)
           PROVE  Pending(r)'
      <3>1. CASE held[d] /\ dmsg[d] = r
        BY <2>0, <2>10, <3>1 DEF ReapFails, TakenBack, Pending, DeskTypeOK
      <3>2. CASE ~ (held[d] /\ dmsg[d] = r)
        <4>1. /\ dqueue'[r] \in Int /\ dqueue[r] \in Nat /\ dqueue'[r] >= dqueue[r]
              /\ \A e \in Reapers : e # d => /\ dpc'[e] = dpc[e] /\ dmsg'[e] = dmsg[e]
                                             /\ held'[e] = held[e]
          BY <2>0, <2>10 DEF ReapFails, TakenBack, DeskTypeOK
        <4> QED
          BY <2>0, <3>2, <4>1 DEF Pending
      <3> QED
        BY <3>1, <3>2
    <2> QED
      BY <2>2, <2>3, <2>4, <2>5, <2>6, <2>7, <2>8, <2>9, <2>10
         DEF DeskNext, DeskStep, DelayProgress
  <1> QED
    BY <1>1, DeskInductiveInvariant, PTL DEF DeskSpec, WatchedUntilPaid

(* Whatever the desk does to the orders, the stock in Redis and the set of *)
(* buyers still account for each other: the desk returns stock to the      *)
(* database only.                                                          *)
THEOREM GateStillAccounts == DeskSpec => []RedisLedger
  <1>1. DeskInv => RedisLedger
    BY DEF DeskInv, PipelineInv
  <1> QED
    BY <1>1, DeskInductiveInvariant, PTL
=============================================================================
