# LiveAgent in TLA+

LiveAgent is a local-life service (shops, blogs, follow feeds, coupons and
flash sales) built on Spring Boot, MySQL, Redis, RabbitMQ and Canal, with a
second service, EchoMind, that answers customers with language-model agents.
This directory holds TLA+ modules of its concurrent core, TLC configurations
that check them, and proofs checked by TLAPS. Paths below are relative to the
repository; `hmdp/` stands for `src/main/java/com/hmdp/` and `echomind/` for
`echo-mind-service/src/main/java/com/echomind/`.

## 1. Inventory

### Main service

| Component | State it keeps | Operations | Talks to |
|---|---|---|---|
| Voucher publication (`VoucherServiceImpl`) | `tb_voucher`, `tb_seckill_voucher`, `seckill:stock:v` | `addSeckillVoucher` | MySQL, Redis |
| Flash-sale gate (`seckill.lua`, `VoucherOrderServiceImpl.seckillVoucher`) | `seckill:stock:v`, `seckill:order:v` | the script, id, send | Redis, RabbitMQ |
| Order creation (`MQReceiver.receiveSeckillMessage`, `saveWithDistributedLock`) | `direct.seckill.queue`, `tb_voucher_order`, `lock:order:u` | count, deduct, lock, insert, unlock, commit, ack | RabbitMQ, MySQL, Redisson |
| Order desk (`cancelOrder`, `refundOrder`, `deleteOrder`, `receiveDelayMessage`) | `tb_voucher_order.status`, the delay and dead-letter queues | read, test, write back | MySQL, RabbitMQ |
| Order ids (`RedisIdWorker`) | `inc:order:yyyy:MM:dd` | `nextId` | Redis, clock |
| Lock toolkit (`hmdp/redisson`) | Redisson locks | five strategies, `@Lock` | Redis |
| Shop cache (`ShopServiceImpl`, `cache/handler`, `CacheDeleteConsumer`) | Caffeine per instance, `cache:shop:id`, Bloom filter, `processed:cache:delete:*` | query, update, invalidate, preload | MySQL, Canal, RabbitMQ |
| Likes (`BlogController.likeBlog`, `LikedRecordServiceImpl`) | like set, pending counters, ranking, `tb_blog.liked` | toggle, scheduled write-back | Redis, MySQL |
| Feed and follow (`BlogServiceImpl`, `FollowServiceImpl`) | `feed:u`, `follows:u`, `tb_follow`, `tb_blog` | publish with fan-out, scroll, follow | Redis, MySQL |
| Login and codes (`UserServiceImpl`, interceptors) | codes, send times, two levels of block, tokens | `sendCode`, `login`, refresh, sign | Redis, MySQL |
| Limiters (`hmdp/limit`) | window counter, lock time | `tryAccess` | Redis |
| Search, CRUD, upload, mail | none of their own | queries | Elasticsearch, MySQL |
| Browser (`nginx-1.18.0/html/hmdp/js/common.js`, `login.html`) | `sessionStorage.token`, the `token` of the loaded page | request and response interceptors of axios, redirect | the controllers |

### EchoMind

| Component | State | Operations |
|---|---|---|
| Conversation memory | Redis window, Chroma summaries, profile row and its Chroma copy | append, compress, retrieve, update profile |
| Intent recognition | none | three recognisers and a vote |
| Agents and monitoring | metrics counters, weights, alerts | route, record, adjust every period |
| Knowledge | Chroma collection, in-memory BM25 index | ingest, retrieve, fuse |
| Evaluation | averages | judge, compare |
| Chat front, integration | none | order of the calls |

### What is hard, and what must hold

*Flash sale.* The stock exists twice, as a Redis key the script spends and as a
row the listener spends later. The two are joined by a queue that loses nothing
only if somebody waits for confirms, delivers more than once, and returns every
message a listener throws on. The listener's lock is taken inside its
transaction and given back before the commit, with a lease that may end early.
It must hold that neither store sells more than was published, that nobody has
two orders, that a buyer who passed the gate is not refused by the database, and
that a message comes to an end.

*Order desk.* Every handler reads a row, tests it and writes it back in a
second statement. Meanwhile the row may be paid, redeemed, cancelled, deleted
or created again by a redelivered message, and two of the ten delay listeners
may hold copies of one delay message. A piece may come back twice only where two
of them had read the same order unpaid, and a closed order must stay closed.

*Shop cache.* Readers fill two caches from a row that may change before they
write; invalidations travel through Canal and a queue and are deduplicated by
the hash of their body. A stale value must not outlive its time to live, and no
value may be stale for ever.

*Likes.* The toggle is a read followed by a write; the counter is written from
a size read earlier; the scheduler pops the counters before it stores them. The
ranking must equal the number of likes, and the stored number must become right
once the clicks stop.

*Feed, follow.* A follow is a row in MySQL and a member of a Redis set, written
one after the other with nothing to join them; a publication lists the
followers while they come and go. The two stores must agree, and whoever
followed throughout must get the blog.

*Codes.* Each limit is tested by one Redis command and changed by another, and
a block is a key that a second command gives its end. The number of codes a
minute can see, and the life of a block, must be bounded.

*Session.* Server threads are shared and remember the user in a ThreadLocal; a
token may end between the interceptor's read and its refresh; a tab keeps the
token it was loaded with, and every page load drops its pending calls and the
timer of a redirect. A thread must act for its caller only, no token a tab holds
may live for ever, and a dead token must lead to the login page unless the tab
goes elsewhere first.

*Chat.* Calls of one conversation run in parallel, each followed by two
background tasks, and all share a list, a touch key and a row. The list must
keep the last messages, what leaves it must be summarised, turns must be
counted, and a call must end however often its agent fails.

PROJECT.json lists the hazards one by one, each at its line.

## 2. Modules

| Module | Role |
|---|---|
| `Sale` | Abstract specification: users are granted a voucher, at most `Stock[v]` of them and each once, and a grant becomes an order at most once. |
| `Seckill` | The pipeline: publication, gate, send with retries, queue, listeners, lock, transaction. |
| `MCSeckill` | Its TLC instances. |
| `SeckillProofs` | Its inductive invariant and theorems. |
| `OrderDesk` | Extends `Seckill` with the handlers of an existing order and the delay listener. |
| `MCOrderDesk` | Its TLC instances. |
| `OrderDeskProofs` | Theorems of the composition, on top of `SeckillProofs`. |
| `ShopCache` | One shop in MySQL, Redis and the Caffeine of each instance; Canal, the invalidation queue and its listener, preload and restart. |
| `MCShopCache` | Its TLC instances. |
| `ShopCacheProofs` | Its theorems. |
| `Likes`, `LikesProofs` | Like button, ranking and the scheduled write-back of counts; its theorems. |
| `Codes`, `MCCodes`, `CodesProofs` | Sending of verification codes to one phone number, in discrete time; its theorems. |
| `Session`, `SessionProofs` | Browser tabs, interceptors, `UserHolder`, login and tokens; its theorems. |
| `Feed`, `MCFeed`, `FeedProofs` | Follow, unfollow and the fan-out of a publication; its theorems. |
| `Chat`, `ChatProofs` | One conversation with EchoMind: three memories, the agent's retries, the background tasks; its theorems. |

`OrderDesk` composes the handlers of an order with the pipeline, `Session` the
browser with the server. The others stand alone: they share Redis and MySQL but
no key and no table.

### Seckill and the code

An HTTP call is a request `[user, voucher, try]`; since `nextId` gives each call
an id of its own, the request also stands for the order id. `rpc` is how far
`seckillVoucher` has come. The Lua script is one step (`Refuse` or `Reserve`),
as Redis runs it. `Publish`, `PublishLost` and `PublishThrows` are the outcomes
of one `convertAndSend`: the broker has the message; it is gone and the caller
does not know; or an exception, before or after the message arrived, which the
template retries. `RequestDies` stands for a crash or an exception between the
script and the send.

`queue` counts ready copies of a message, a bag: ten listeners and requeueing
leave no order to rely on. A listener runs `Deliver`, `CountOrders`,
`DeductStock`, `AcquireLock`, `SaveOrder`, `Unlock`, `Commit`, `Ack`, one per
statement that other actors can see or interfere with. Its own uncommitted
update is not visible: `dbStock` and `status` are committed values, and
`HoldsRow` is the set of states in which InnoDB holds the row lock, from the
UPDATE to the end. `RowFree` is what the UPDATE waits for, which includes the
still uncommitted INSERT of `addSeckillVoucher`. A save of an id already present
raises `DuplicateKey`. Everything the listener can throw ends in `Reject`:
rollback, and back to the queue. `ConsumerCrash` also redelivers, also from
`settled`, after the commit; it leaves the Redisson lock to its lease.
`LeaseExpires` while the holder lives counts as a fault.

`SKIP`, `KEEP_RETRY` and the other strategies of `LockStrategy` are not used by
this caller and are left out.

### OrderDesk and the code

`Load` is `getById` with the test of the status, `Store` the write by id that
follows. Payment and redemption happen outside the repository (`Pay`, `Redeem`).

`DelayUsed` says whether anybody calls `sendDelayMessage`; nobody in the
repository does. `sends` counts the attempts the template has left, and `dqueue`
the copies in the dead-letter queue: an attempt that throws may have reached the
broker (`SendThrows`), so an order may have several. The listeners are
`Reapers`, each with a delivery of its own. `TakeExpired`, `ReadExpired`,
`CancelExpired` and `AckExpired` are the steps of `receiveDelayMessage`; the third
holds both updates because they share a transaction. `ReapFails` is a throw or a
crash before the commit. `TakenBack` is a channel that closes: the copy goes to
another listener while this one goes on (`held` is then false, and nothing comes
of its acknowledgement). `crowded` is a history variable: how often a listener
read an order unpaid that another had read and not yet written. That a piece
then comes back twice is a finding, and the only reason `NotOverstocked` is not
the bound `Stock` itself.

### ShopCache and the code

`redis` is the key `cache:shop:id` together with whether it has a time to live:
the preload writes it without, a reader with. A reader goes through
`queryById` and `querywithchuantou` one access at a time (`MissLocal`,
`HitRedis` or `MissRedis`, `LoadRow`, `StoreRedis`, `FillLocal`); what answers
without changing anything has no action. `update` writes the table only;
`binlog` is what Canal still has to hand to `ShopCanalHandler`, which publishes
one message per change. The listener takes the steps of `handleCacheDelete`:
look for the mark of the same body, delete from Redis, delete from its own
Caffeine, set the mark. A body holds the row with its `update_time`, a second;
two changes may fall into one. A failed DEL still empties the Caffeine, a failed
mark does not; both start the loop again (`AttemptFails`), and the last failure
sends the message to a dead-letter queue whose listener only logs (`GiveUp`). A restart loads the
Bloom filter, lists the shops and then writes them (`LoadFilter`, `ListShops`,
`Preload`). An id the filter wrongly lets through is part of `Init`. Storing a
missing shop fails (`set` of `null`), so `LoadNothing` caches nothing.

### Likes and the code

A thread does `likeBlog` one Redis command at a time: `Ask` (`isMember`, where
the direction of the toggle is decided), `Toggle` or `ReturnUnchanged` (SADD or
SREM and the test of their result), `ReadSize`, `WriteTimes`, `BumpRank`. A
scheduler does `Pop` (ZPOPMIN of a batch) and `StoreCount` per blog. `CallDies`
and `SyncDies` stand for a crash or an exception at any of these places.

### Codes and the code

One phone number; phone numbers share nothing. Time is a discrete clock with
`Minute` ticks to a minute. Send times are ages that `Tick` increases up to five
minutes, the two blocks are counters that `Tick` decreases, so that the state
space is finite without a bound on time. The places of `pc` are the commands of
`sendCode` in their order: both blocks, the last minute, the last five, then a
block (SADD, then EXPIRE), or the SET of the code (`IssueCode`) and the ZADD of
its time (`RecordTime`). A call that dies between the last two leaves a code
nobody counts, `lost`, and its thread may send another at once (a finding). The
sorted set has the millisecond as its member: two codes recorded in one count as
one, and the second is a `twin`. `Twins` says whether that may happen. The
comparison `% 3 == 2 && > 5` of the code stands in `Verdict`.

### Session and the code

A tab holds `storage` (`sessionStorage`) and `token` (the variable of
`common.js`, read once per page). `Send` is the request interceptor; a thread
then runs `Identify` and `Refresh` (`RefreshTokenInterceptor`), `Pass` or
`Unauthorized` (`LoginInterceptor`), and the handler. Of the handlers `login` is
modelled in its steps, and the others by `Answer`, since neither tab nor token
depends on them; so is a login whose phone is refused (`Invalid`). `Leave` is
`afterCompletion`. `PreHandleThrows` is an exception in `preHandle`, for which
Spring calls no `afterCompletion` of the same interceptor. `CallFails` is a Redis
or MySQL error in a handler or a reply that does not arrive in time. `Redirect`
is the timer of 200 ms. `Visit` is any other page load: from any page, to a page
of the application or to the login page, at any moment. A page that is left
takes its pending calls and its timer with it (`Cancel`). `alive` and `timed` are
the hashes in Redis and those with a time to live.

### Feed and the code

`follow` is `SaveRow` and `AddMember`, or `RemoveRows` and `RemoveMember`; if no
row was deleted Redis is left alone (`RemoveNothing`). `saveBlog` is `SaveBlog`,
`ListFollowers`, one `Push` per follower, `EndPublish`. `tb_follow` has no unique
key, hence a number of rows. `sound` and `steady` are history variables that only
the properties read.

### Chat and the code

`Converse` is the path of a call: the user's message is appended and the list
trimmed (RPUSH, LLEN, LTRIM), the touch key set, the agent asked with its
retries, the answer appended in the same way. `Compress` is the task of
`AutoCompressor` started by the user's message, `Profile` the task of
`LongTermMemory.updateProfile` started after the answer. `row` is the profile's
count, `NoRow` if it has no row yet; the seeded profiles begin with a row of
zero. Messages are numbered;
a summary is the set of messages it was made from. `GrowOld` and `Expire` let
time pass only while no call runs: the times are minutes and a day.

## 3. Runs

| Run | Configuration | Shows |
|---|---|---|
| `seckill_safety` | 3 users, 4 calls (one user tries twice), 1 voucher with 2 pieces, 2 listeners, 2 send attempts, 2 faults | type invariant, both ledgers, one order per user, stock for whoever passed the gate, no message of a published voucher given up before its order is in the table, refinement of `Sale`, no deadlock |
| `seckill_liveness` | 1 user who wants 2 vouchers (2 pieces and 1), 2 listeners, 2 send attempts, 2 faults | no message circulates for ever; a message of a published voucher becomes an order |
| `order_desk` | 1 order, 2 client threads, 2 listeners of each queue, delay messages in use, 2 send attempts, 2 faults | a piece comes back twice only where two listeners had read one order unpaid; closed orders are not reopened; an unpaid order whose delay message arrived is cancelled or paid in the end |
| `accepted_lost` | as `seckill_liveness`, safety only | finding: no publisher confirm |
| `cancel_race` | 2 orders, 1 client thread, no delay messages | finding: a write-back of an old row |
| `shop_cache` | 2 instances, a reader on one, the listener on the other, 2 contents, 2 updates, 2 attempts, 1 fault, 1 loss, 1 restart | a wrong entry without a time to live is about to be deleted; all caches end up right |
| `shop_stale` | the same with 1 update, no fault and no loss | finding: a preload that outlives the invalidation |
| `likes` | 2 users, 2 blogs, 2 threads, 2 schedulers with a batch of 1, 3 clicks, 1 fault | the ranking counts each like once, up to one per dead call; the newest count is not lost or overtaken on its way to the row, and the stored count settles, unless calls or schedulers overlapped on the blog |
| `codes` | 2 threads, 4 ticks to a minute, no twins, 1 fault | at most one code per thread and minute, and five per thread in five minutes, and one more for each call that died; a caller alone is never blocked, so the first block is out of reach; a block without an end is a dead call |
| `session` | 3 phones, one of them refused, 1 tab, 2 threads, 2 tokens, 1 fault | a thread acts for its caller; a token a tab holds will end; a tab that called with a dead one is doomed until it is at the login page or loads another page, and gets there unless it does |
| `feed` | 2 users, 1 author, 1 blog, 3 threads, 4 follow calls, 1 fault | table and set agree unless calls for the pair overlapped or died; who follows throughout gets the blog |
| `chat` | 2 calls, window 2, threshold 2, 1 retry, 1 fault | what the window keeps and by how much it may be exceeded; what is not summarised; when the turn count is right; calls end |

Bounds. Two listeners are enough for every race between transactions, since a
row lock and a user lock each have one holder and one waiter. Four calls for two
pieces give the repeated try, the last piece and the late comer. Two faults let a
fault follow the repair of another (a crash after a redelivery, a second throw);
`MaxFaults` is the only bound on behaviours that the code does not have.
`MaxAttempts` is 2 instead of 3: the retry loop has the same first, middle and
last case. The order desk needs a single order because every handler works on
one id; two copies of its delay message and two listeners for them are enough
for a piece that comes back twice, and a third only adds to `crowded`.

Two updates are enough for a reader who holds a row that is two changes old and
for messages that overtake each other; the reader and the listener on different
instances are the case where no invalidation reaches the reader's Caffeine.
`LastingEntryIsPending` and `CachesConverge` speak of behaviours without a lost
message and without a restart: losses and restarts are in the run so that its
other states are reached, and `shop_stale` shows that the restart cannot be
allowed. Skipping a second message with the same body takes a third update
within the second, which the bound leaves out.

Three clicks on two threads give a double click of one user, a click of another
in between, and a like that is taken back; with a batch of one and two blogs the
scheduler has to choose and two schedulers may hold counts of the same blog. In
`codes` four ticks to a minute put several codes at different ages into the
window, and the ages at both ends of each comparison occur; a fifth code within
five minutes needs two threads, which are there. `Twins` is off, because two
codes of one millisecond multiply the states and only make the counts smaller;
the proofs of `codes` cover both values. In `session` two phones that may log in
and two threads let a thread serve one user after another, and two tokens let a tab log
in again after the first has ended. In `feed` three threads let a follow and an
unfollow race with the fan-out between them. In `chat` a window of two is
exceeded by two overlapping calls at each of its ends. The conditions on
properties such as "no two calls overlapped" are history variables or parts of
the state; the runs reach states where they are false, and the mutants show that
the properties still say something where they are true.

Deadlock is checked in every run of the sale. A state without requests, messages or busy
listeners may rest (`Rest`); any other must move.
`likes`, `session`, `feed` and `chat` may stop too: clicks, tokens or calls are
used up. `codes` never does, since time goes on.
The cache runs may stop: caches are empty, updates are used up, and the Bloom
filter turns every reader away.

Fairness. `FairSpec` asks only that a listener thread that can run does run,
that the lease of a dead holder ends, and that a publication under way finishes;
callers and faults are never required. `DeskFairSpec` adds each delay listener;
payments, cancellations and the sender of the delay message are never required. In `ShopCache` a
request under way ends, Canal and the listener run, a starting instance comes
up, and entries with a time to live expire however often they are written again
(strong fairness: time passes). In `Likes` threads run and the scheduler comes
round (`@Scheduled`), in `Session` the interceptors run and the timer of the
browser fires, while handlers may hang and users need not act, in `Feed` calls under way go on, and in
`Chat` a call that was taken runs on; the background tasks need not advance.
Faults are bounded, which stands for the
assumption that a message is not struck by a failure each time it is delivered.

## 4. Proofs

`SeckillProofs` proves, for all constants that satisfy `SeckillAssumption` (any
sets, finite or not, any stock and any number of faults):

| Theorem | Property |
|---|---|
| `InductiveInvariant` | `Spec => []IInv` |
| `TypeCorrectness` | `TypeOK` |
| `GateNeverOversells` | `RedisLedger` |
| `DatabaseNeverOversells` | `DbLedger` |
| `OrderIsUnique` | `OneOrderPerUser` |
| `GateImpliesStock` | `ReservedHasStock` |
| `NoMessageGivenUp` | `DeliverableUntilOrdered` |
| `PromiseIsKept` | `Spec => [](Promised(r) => []Promised(r))` for each request `r` |
| `PipelineKeepsPromise` | `SaleSpec`, refinement of `Sale` |

The properties are not inductive alone. That no user has two orders does not
follow from the count query, nor from the lock: two listeners may both count
zero. It follows from the gate, which lets each user through once
(`ReservedOnce`), together with the fact that nothing in the queue, in hand or
in the table came from anywhere else (`GatePassed`). That the database stock
matches the table at each commit follows from `RowOwned`: from its UPDATE to its
commit a listener is alone on a published row that still has the piece it saw.
`PipelineInv` joins these with the ledger of Redis and the finiteness of
`bought[v]`, which counting needs; `IInv` adds the ledger of the database. The
two are apart because the order desk keeps the first and not the second.
`DbFrame` and `RedisFrame` say which steps touch which store, so
that each ledger is argued about only there. `DistinctUsers` compares orders
with buyers by an injection; `GateImpliesStock` removes the buyer in question
and compares with one fewer. Cardinalities rest on `FiniteSetTheorems`.

A listener acknowledges without an order in two cases: it counted an order of
the user, or it found no stock. The first order is the message's own, because
the gate passes a user once; the second cannot happen while the message has no
row (`PieceLeft`). A lock wait, a lost lease, an exception or a crash all put the
message back. So a message stays deliverable until its order exists
(`InTimeStep`). Neither the voucher nor the row goes away in the pipeline, and a
message the broker has is from then on deliverable or an order
(`PromiseIsKept`). What is left to the liveness properties is only that somebody
does deliver it.

`OrderDeskProofs`, for any clients and any finite set of delay listeners
besides, with or without delay messages:

| Theorem | Property |
|---|---|
| `DeskTypeCorrectness` | `DeskTypeOK` |
| `StockIsNotInflated` | `NotOverstocked` |
| `OneListenerReturnsOnce` | `NeverOverstocked`, the exact bound, if there is at most one delay listener |
| `OrderStaysUnique` | `OneOrderPerUser` |
| `ClosedOrdersStayClosed` | `ClosedStaysClosed` |
| `NoOverdueOrderForgotten` | `WatchedUntilPaid`, the safety part of `OverdueCancelled` |
| `GateStillAccounts` | `RedisLedger` |

A handler of the desk changes rows that exist and adds stock that was sold;
`PipelineFrame` shows that neither disturbs `PipelineInv`. Stock plus open
orders is not inductive: a delay listener reads an order unpaid, and hands a
piece back later even if the order is paid or cancelled in between. So every
listener that has read an order unpaid holds a claim to a piece (`Claims`), every
open order that no listener has in hand has a claim of its own (`Unseen`), and
stock plus claims stay within the published stock and `crowded` (`ClaimLedger`).
A reading moves the order's claim to the listener, or is crowded and adds one;
the write turns the claim into a piece of stock; a rollback gives it back to the
order, if the order is still open. A single listener is never crowded, which is
`OneListenerReturnsOnce`: duplicates one after the other are harmless.

That a redelivered message does not reopen a closed order is `RowOwned` again: a
commit inserts a row only where none is. A deleted order has no row, and a copy
of its seckill message that is still about does create it again (a finding).
`ClosedStaysClosed` therefore says two things: a closed row is not reopened, and
once the call is over and no copy is queued or in hand (`Spent`), a closed or
deleted order is closed `ForGood`, since a spent message stays spent
(`SpentStays`). While an order with a delay message is unpaid, a copy of it is
queued or held by a listener: what takes the last copy away either saw another
status or cancels the order.

`ShopCacheProofs`, for any instances, readers, listeners and bounds:

| Theorem | Property |
|---|---|
| `TypeCorrectness` | `ShopTypeOK` |
| `LastingEntriesArePending` | `LastingEntryIsPending` |
| `StaleShopsDoNotReturn` | `OnlyRowsAreShown`: caches, readers and preloads show what was shown before, or the row |

Without a restart, an entry that never expires is the one of the beginning
(`FirstEntry`). While it is there no listener has carried out a message, so no
body is marked as processed and no message can be skipped: a changed row has its
message in the binlog, in the queue, or with a listener before its DEL. That the
cache never holds the absence of a shop needs `HoldsShop`, and that the stamp of
a row stays in range `Stamped`. `StaleShopsDoNotReturn` goes through the places a
copy can be in, Redis, instances and readers, one lemma each: a write copies from
another place or from the row, so an outdated shop that has left all of them
stays away. It needs no assumption about losses or restarts. That each copy does
leave is the part of `CachesConverge` that needs fairness.

`LikesProofs`, for any sets of users and blogs, any finite sets of threads and
schedulers (they are the instances and their pools), any batch, any number of clicks and faults:

| Theorem | Property |
|---|---|
| `TypeCorrectness` | `LikesTypeOK` |
| `RankingCountsLikesOnce` | `RankLedger` |
| `NewestCountIsKept` | `NewestCountKept` |
| `CountIsAlwaysOnItsWay` | every blog's count is on its way or stored while nothing died or was crowded |

Score plus rising minus falling calls (`Due`) moves together with the size of
the set: a toggle changes both by one (`ToggleMovesBoth`), the step to the
ranking changes neither (`BumpKeepsDue`), and a death shifts `Due` by at most one
and pays a fault (`DeathCostsOne`). Cardinalities need the sets of users to be
finite, which holds because a step adds at most one (`FiniteStep`).

The number of likes of a blog is, at any moment, still to be read by the call
that changed it, held by it, in the counter, in a batch, or in the row
(`OnItsWay`). With one call and one scheduler at the blog each step hands it on
to the next of these places, and a pop between two steps of the call finds an
older count that the call will replace. This is the safety part of
`CountSettles`; overlapping calls break it, as the module comment says.

`CodesProofs`, for any finite set of threads, any ticks per minute, any faults:

| Theorem | Property |
|---|---|
| `TypeCorrectness` | `CodesTypeOK` |
| `BurstsAreBounded` | `BurstBound` |
| `FloodsAreBounded` | `FloodBound` |
| `SingleCallersAreNotBlocked` | `AloneNeverBlocked` |
| `BlocksEndUnlessACallDied` | `BlockEnds` |

`OwnSpacing` says that any two codes recorded by one thread are more than a
minute apart, and that what a thread has recorded is more than a minute old from
the moment it has seen a free minute until its ZADD. The threads that recorded a
code in the last minute and those about to record one are then different threads,
which bounds the burst by an injection; what is `lost` was paid for with a fault
(`LostFew`). `Spacing` says the same of any two codes while no calls overlapped;
codes of the last five minutes that are more than a minute apart, and none of
them of the last minute, are four at most (`FourFit`, a pigeonhole over the
minutes), so the count of five that sets a block is not reached. With
overlapping calls or deaths `OwnSpacing` still holds, and a pigeonhole over the
five minutes (`FiveFit`) leaves five codes to each thread, the one about to be
recorded included. Twins are not counted by ZCOUNT; `TwinPaired` says that each has a
recorded code of its age that is, so the test of the last minute sees it all the
same.

`SessionProofs`, for any sets of phones, tabs, threads and tokens, any faults:

| Theorem | Property |
|---|---|
| `TypeCorrectness` | `SessionTypeOK` |
| `ThreadsActForTheirCaller` | `HolderIsCaller` |
| `TabsHoldMortalTokens` | `HeldTokensEnd` |
| `DeadCallsAreTurnedAway` | `DoomedUntilLogin` |

The invariant follows a token from its creation: a token in a tab, a page or a
request was issued (`Issued`) and keeps its owner; a token a login has just made
is in no tab yet (`Fresh`), and it reaches one only after its EXPIRE (`Timed`).
`RequestOrigin` and `TabOrigin` say where each request and each token in a tab
came from, so that each conjunct is argued only about the steps that touch it.

A tab is doomed when its redirect runs or one of its calls will be turned away.
That this lasts until the login page, or until the tab loads a page of its own
accord, is an argument about everybody else: no login revives a token that was
issued (`Issued`), no thread takes a request with
a user left from the last one unless a Redis call failed (`TakenClean`), and
the answer of a login, which moves a tab to the application, is awaited by login
pages only (`LoginServed`, `PageWaits`). It is the safety part of `SentToLogin`.

`FeedProofs`, for any sets of users, authors, blogs and threads:

| Theorem | Property |
|---|---|
| `TypeCorrectness` | `FeedTypeOK` |
| `TableAndSetAgree` | `StoresAgree` |
| `SteadyFollowersGetTheBlog` | `SteadyFollowersServed` |

Agreement is not inductive, since a call under way has written one store only.
`OneHandler` adds that a sound pair has one such call and that the table already
says what the set will be. `Delivery` adds to the second that a blog has one
publication, that steady followers are in the table (so the list has them), and
that each of them is still on the list or already served.

`ChatProofs`, for any finite set of calls, any window, threshold, retries and
faults:

| Theorem | Property |
|---|---|
| `TypeCorrectness` | `ChatTypeOK` |
| `LatestMessagesKept` | `KeepsRecent` |
| `WindowIsBounded` | `WindowBounded` |
| `TurnsAreCounted` | `TurnsCounted` |
| `NothingForgotten` | `OnlyFirstForgotten`, if `WindowMax >= 2` and `Threshold <= WindowMax` |
| `CallsCannotGoRound` | `CallsAdvance`: a call takes at most `MaxRetry + 9` steps |

What RPUSH and LTRIM do to a list of the last messages is stated once
(`LatestAppend`, `LatestDrop`). A call trims only a size it read to be too large
(`Surplus`), so a trim takes at least what its append brought, and only calls that
died before theirs leave the list too long. While appends do not overlap the size
read is still the size at the trim (`SoloTrim`), which then leaves exactly
`WindowMax` messages. A profile task at work alone holds the row as it is
(`HeldCount`).

`NothingForgotten` rests on a second invariant (`TurnInv`). While calls take
turns and nothing fails, a task has read the list before the answer of its call
is appended (`ByTurns`, `OneTask`), and from the threshold on each task notes all
it finds; at most two messages, an answer and the next question, are in no
summary (`KeepsPace`). A window of two or more still holds those, and one that
is not below the threshold drops nothing before the tasks begin to note. Both are
hypotheses of the theorem, and both profiles satisfy them: window and threshold
are 20 and 20 in `application.yml`, 10 and 5 in `application-prod.yml`. Outside
them the property is false: with a threshold above the window, messages are
trimmed before the first compression.

`CallsCannotGoRound` gives a call a number of steps left (`StepsLeft`) which each
of its steps lowers and no other step raises. With the fairness of `CallsEnd`
that bounds every call.

Only model-checked are the liveness properties, since the provers at hand have no
support for WF, SF and ENABLED. For most of them the safety part is proved, which
leaves to fairness only that somebody acts:

| Liveness property | Safety part proved |
|---|---|
| `EveryMessageBecomesOrder` | `NoMessageGivenUp`, `PromiseIsKept` |
| `EveryMessageSettles` | none; it counts on faults being bounded |
| `OverdueCancelled` | `NoOverdueOrderForgotten` |
| `CachesConverge` | `LastingEntriesArePending`, `StaleShopsDoNotReturn` |
| `CountSettles` | `NewestCountIsKept`, `CountIsAlwaysOnItsWay` |
| `SentToLogin` | `DeadCallsAreTurnedAway` |
| `SavedIsServed` | `Delivery`, a part of the invariant of `FeedProofs` |
| `CallsEnd` | `CallsCannotGoRound` |

`WatchedUntilPaid`, `NeverOverstocked`, `OnlyRowsAreShown`, `CallsAdvance` and `Promised` stand in the
proof modules beside their theorems and are in no run.

## 5. Plan

Done, in the order of their importance: the pipeline with its refinement of
`Sale`, the order desk, the shop cache, likes, codes, sessions, feed, chat; and
theorems of each of them. Every invariant and every action property of the runs
that pass is a theorem. What remains:

1. An invariant behind `EveryMessageSettles`: how many deliveries a message can
   still have, given the faults that are left.
2. The safety part of `SavedIsServed` as a theorem of its own.
3. `NotOverstocked` as an equation, which says where each piece of a voucher is:
   for sale, with an open order, or kept by a cancelled or deleted one.

## 6. Not modelled

- `querywithjichuan_mutex`, `queryWithLogicalExpire` and `CacheClient`, the
  strategies of `LockStrategy` other than the one in use, `hmdp/limit` (no
  controller carries `@Limit`), `clearSession` and `triggerCompression`: nothing
  calls them.
- Order ids (`RedisIdWorker`): one INCR and a shift. `Seckill` takes ids as unique,
  which holds as long as a day has fewer than 2^32 orders.
- `queryBlogOfFollow` and its cursor: the query fails before a page is built (a
  finding), so no scroll exists to state a property of.
- Search, uploads, mail and plain CRUD: single statements without a protocol.
  `sign` and `signCount` set and count bits of one key.
- Intent recognition, voting, weights, metrics, retrieval scores and evaluation
  are floating-point averages over answers of a language model, without a
  protocol; the knowledge index is filled once at start-up by one thread. The
  copy of the profile in ChromaDB is written and never read.
- `vue.js` and `element.js` are vendored libraries. Of `common.js` the formatting of
  prices and URLs is left out: it has no state, and no property is about it.
- Real time appears as steps that may happen (leases, time-outs), except in
  `Codes`, where durations decide; the begin and end time of a voucher are not
  tested by `seckillVoucher` and do not appear.
