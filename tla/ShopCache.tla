------------------------------ MODULE ShopCache ------------------------------
(***************************************************************************)
(* The two caches of one shop: Caffeine in each instance of the service,   *)
(* Redis behind them, tb_shop behind Redis.  An update writes the table    *)
(* only; Canal reads it from the binlog and publishes a message, and a     *)
(* listener on some instance deletes the key from Redis and from its own   *)
(* Caffeine.  A message is known by the hash of its body.  Shops do not    *)
(* interact, so one is enough.                                             *)
(***************************************************************************)
EXTENDS Integers, Sequences, FiniteSets

CONSTANTS Instances,
          Readers,      \* HTTP threads in queryById
          Consumers,    \* listener threads of handleCacheDelete
          HostOf,       \* HostOf[t]: the instance thread t runs on
          Contents,     \* what a shop may say
          MaxUpdates,   \* bound on the updates of one behaviour
          MaxRetries,   \* maxRetries of handleCacheDelete
          MaxFaults,    \* bound on crashes, duplicates and failed deletes
          MaxLosses,    \* bound on messages that never arrive
          MaxRestarts,  \* bound on restarts of an instance
          None          \* no row, no entry, no message

ASSUME ShopCacheAssumption ==
    /\ HostOf \in [Readers \union Consumers -> Instances]
    /\ Readers \cap Consumers = {}
    /\ IsFiniteSet(Consumers)
    /\ {MaxUpdates, MaxRetries, MaxFaults, MaxLosses, MaxRestarts} \subseteq Nat
    /\ MaxRetries > 0
    /\ None \notin [content : Contents, second : 0..MaxUpdates]

VARIABLES
    row,        \* the row of tb_shop, with its update_time
    redis,      \* cache:shop:id, with or without a time to live
    local,      \* local[i]: the Caffeine entry of instance i
    bloom,      \* bloom[i]: mightContain(id)
    phase,      \* phase[i]: start-up of instance i
    listed,     \* listed[i]: the row as the preload has read it
    rpc, rval,  \* progress of a reader and the shop it holds
    binlog,     \* changes Canal has not handed over, in order
    queue,      \* queue[b]: ready copies of cache.delete.queue
    cpc, cbody, \* progress and unacknowledged message of a listener
    tries,      \* its retryCount
    processed,  \* bodies with a key processed:cache:delete:md5
    updates, faults, losses, restarts   \* what may still happen

tableVars    == <<row, binlog, updates>>
cacheVars    == <<redis, local>>
startVars    == <<bloom, phase, listed>>
readerVars   == <<rpc, rval>>
listenerVars == <<queue, cpc, cbody, tries, processed>>
boundVars    == <<faults, losses, restarts>>
vars == <<tableVars, cacheVars, startVars, readerVars, listenerVars, boundVars>>

Images == [content : Contents, second : 0..MaxUpdates]
Bodies == Images \union {None}    \* None: the body of a DELETE
Entry(image, ttl) == [image |-> image, ttl |-> ttl]

\* A shop that was there when the service started, or one that was not and
\* that the Bloom filter may let through all the same.
Init ==
    /\ row \in [content : Contents, second : {0}] \union {None}
    /\ redis = IF row = None THEN None ELSE Entry(row, FALSE)
    /\ local = [i \in Instances |-> row]
    /\ bloom \in [Instances -> BOOLEAN]
    /\ row # None => \A i \in Instances : bloom[i]
    /\ phase = [i \in Instances |-> "up"]
    /\ listed = [i \in Instances |-> None]
    /\ rpc = [r \in Readers |-> "idle"]
    /\ rval = [r \in Readers |-> None]
    /\ binlog = <<>>
    /\ queue = [b \in Bodies |-> 0]
    /\ cpc = [c \in Consumers |-> "idle"]
    /\ cbody = [c \in Consumers |-> None]
    /\ tries = [c \in Consumers |-> 0]
    /\ processed = {}
    /\ updates = MaxUpdates
    /\ faults = MaxFaults
    /\ losses = MaxLosses
    /\ restarts = MaxRestarts

Spend(budget) == budget > 0 /\ budget' = budget - 1

Up(t) == phase[HostOf[t]] = "up"

-----------------------------------------------------------------------------
(* The table.  MySQL stamps a change with the second it happens in, which  *)
(* may be that of the change before.                                       *)

\* ShopController.saveShop; ShopCanalHandler.insert sends nothing.
SaveShop(content) ==
    /\ row = None
    /\ updates = MaxUpdates
    /\ Spend(updates)
    /\ row' = [content |-> content, second |-> 1]
    /\ UNCHANGED <<binlog, cacheVars, startVars, readerVars, listenerVars, boundVars>>

UpdateShop(content) ==
    /\ row # None
    /\ content # row.content
    /\ Spend(updates)
    /\ \E s \in {row.second, row.second + 1} :
          /\ row' = [content |-> content, second |-> s]
          /\ binlog' = Append(binlog, row')
    /\ UNCHANGED <<cacheVars, startVars, readerVars, listenerVars, boundVars>>

\* No handler deletes a shop; an operator does.
RemoveShop ==
    /\ row # None
    /\ Spend(updates)
    /\ row' = None
    /\ binlog' = Append(binlog, None)
    /\ UNCHANGED <<cacheVars, startVars, readerVars, listenerVars, boundVars>>

-----------------------------------------------------------------------------
(* ShopServiceImpl.queryById and querywithchuantou.  A hit in Caffeine and *)
(* an id the Bloom filter rejects only reply.                              *)

Read(r, from, to) == rpc[r] = from /\ rpc' = [rpc EXCEPT ![r] = to]
Hold(r, image)    == rval' = [rval EXCEPT ![r] = image]

MissLocal(r) ==
    /\ Up(r)
    /\ local[HostOf[r]] = None
    /\ bloom[HostOf[r]]
    /\ Read(r, "idle", "asking")
    /\ UNCHANGED <<tableVars, cacheVars, startVars, rval, listenerVars, boundVars>>

HitRedis(r) ==
    /\ redis # None
    /\ Read(r, "asking", "filling")
    /\ Hold(r, redis.image)
    /\ UNCHANGED <<tableVars, cacheVars, startVars, listenerVars, boundVars>>

MissRedis(r) ==
    /\ redis = None
    /\ Read(r, "asking", "loading")
    /\ UNCHANGED <<tableVars, cacheVars, startVars, rval, listenerVars, boundVars>>

\* Faulty variant: a row that is not there is carried on.
LoadUnchecked(r) ==
    /\ Read(r, "loading", "storing")
    /\ Hold(r, row)
    /\ UNCHANGED <<tableVars, cacheVars, startVars, listenerVars, boundVars>>

LoadRow(r) ==
    /\ row # None
    /\ Read(r, "loading", "storing")
    /\ Hold(r, row)
    /\ UNCHANGED <<tableVars, cacheVars, startVars, listenerVars, boundVars>>

\* Storing null in Redis raises an exception: nothing is cached.
LoadNothing(r) ==
    /\ row = None
    /\ Read(r, "loading", "idle")
    /\ UNCHANGED <<tableVars, cacheVars, startVars, rval, listenerVars, boundVars>>

\* Faulty variant: the entry has no time to live.
StoreForever(r) ==
    /\ Read(r, "storing", "filling")
    /\ redis' = Entry(rval[r], FALSE)
    /\ UNCHANGED <<tableVars, local, startVars, rval, listenerVars, boundVars>>

StoreRedis(r) ==
    /\ Read(r, "storing", "filling")
    /\ redis' = Entry(rval[r], TRUE)
    /\ UNCHANGED <<tableVars, local, startVars, rval, listenerVars, boundVars>>

FillLocal(r) ==
    /\ Read(r, "filling", "idle")
    /\ local' = [local EXCEPT ![HostOf[r]] = rval[r]]
    /\ Hold(r, None)
    /\ UNCHANGED <<tableVars, redis, startVars, listenerVars, boundVars>>

\* CACHE_SHOP_TTL and expireAfterWrite.
RedisExpires ==
    /\ redis # None
    /\ redis.ttl
    /\ redis' = None
    /\ UNCHANGED <<tableVars, local, startVars, readerVars, listenerVars, boundVars>>

LocalExpires(i) ==
    /\ local[i] # None
    /\ local' = [local EXCEPT ![i] = None]
    /\ UNCHANGED <<tableVars, redis, startVars, readerVars, listenerVars, boundVars>>

-----------------------------------------------------------------------------
(* ShopCanalHandler and sendCacheDeleteMessage.  Canal hands the changes   *)
(* over in order and again after an exception.                             *)

Put(b) == queue' = [queue EXCEPT ![b] = @ + 1]

Announce ==
    /\ binlog # <<>>
    /\ binlog' = Tail(binlog)
    /\ Put(Head(binlog))
    /\ UNCHANGED <<row, updates, cacheVars, startVars, readerVars, cpc, cbody, tries,
                   processed, boundVars>>

AnnounceTwice ==
    /\ binlog # <<>>
    /\ Spend(faults)
    /\ Put(Head(binlog))
    /\ UNCHANGED <<tableVars, cacheVars, startVars, readerVars, cpc, cbody, tries,
                   processed, losses, restarts>>

\* Sent without a confirm, or an hour in the queue: x-message-ttl.
MessageLost(b) ==
    /\ queue[b] > 0
    /\ Spend(losses)
    /\ queue' = [queue EXCEPT ![b] = @ - 1]
    /\ UNCHANGED <<tableVars, cacheVars, startVars, readerVars, cpc, cbody, tries,
                   processed, faults, restarts>>

-----------------------------------------------------------------------------
(* CacheDeleteConsumer.handleCacheDelete.                                  *)

Work(c, from, to) == cpc[c] = from /\ cpc' = [cpc EXCEPT ![c] = to]
Finish(c) ==
    /\ cpc' = [cpc EXCEPT ![c] = "idle"]
    /\ cbody' = [cbody EXCEPT ![c] = None]
    /\ tries' = [tries EXCEPT ![c] = 0]

\* hasKey finds the body: the message is taken and dropped.
SkipProcessed(c, b) ==
    /\ Up(c)
    /\ cpc[c] = "idle"
    /\ queue[b] > 0
    /\ b \in processed
    /\ queue' = [queue EXCEPT ![b] = @ - 1]
    /\ UNCHANGED <<tableVars, cacheVars, startVars, readerVars, cpc, cbody, tries,
                   processed, boundVars>>

TakeMessage(c, b) ==
    /\ Up(c)
    /\ queue[b] > 0
    /\ b \notin processed
    /\ Work(c, "idle", "taken")
    /\ queue' = [queue EXCEPT ![b] = @ - 1]
    /\ cbody' = [cbody EXCEPT ![c] = b]
    /\ UNCHANGED <<tableVars, cacheVars, startVars, readerVars, tries, processed, boundVars>>

\* Faulty variant: only the local entry is deleted.
LeaveRedis(c) ==
    /\ Work(c, "taken", "deleted")
    /\ UNCHANGED <<tableVars, cacheVars, startVars, readerVars, queue, cbody, tries,
                   processed, boundVars>>

DeleteRedis(c) ==
    /\ Work(c, "taken", "deleted")
    /\ redis' = None
    /\ UNCHANGED <<tableVars, local, startVars, readerVars, queue, cbody, tries,
                   processed, boundVars>>

Invalidate(c) ==
    /\ Work(c, "deleted", "invalidated")
    /\ local' = [local EXCEPT ![HostOf[c]] = None]
    /\ UNCHANGED <<tableVars, redis, startVars, readerVars, queue, cbody, tries,
                   processed, boundVars>>

MarkProcessed(c) ==
    /\ cpc[c] = "invalidated"
    /\ Finish(c)
    /\ processed' = processed \union {cbody[c]}
    /\ UNCHANGED <<tableVars, cacheVars, startVars, readerVars, queue, boundVars>>

\* Redis refuses the delete, and the local entry goes all the same; or it refuses
\* the mark.  The loop starts over, MaxRetries times in all.
AttemptFails(c) ==
    /\ cpc[c] \in {"taken", "invalidated"}
    /\ tries[c] + 1 < MaxRetries
    /\ Spend(faults)
    /\ local' = [local EXCEPT ![HostOf[c]] = IF cpc[c] = "taken" THEN None ELSE @]
    /\ tries' = [tries EXCEPT ![c] = @ + 1]
    /\ cpc' = [cpc EXCEPT ![c] = "taken"]
    /\ UNCHANGED <<tableVars, redis, startVars, readerVars, queue, cbody, processed,
                   losses, restarts>>

\* The last attempt fails: the message goes to the dead-letter queue, whose
\* listener only raises an alarm.
GiveUp(c) ==
    /\ cpc[c] \in {"taken", "invalidated"}
    /\ tries[c] + 1 >= MaxRetries
    /\ Spend(losses)
    /\ local' = [local EXCEPT ![HostOf[c]] = IF cpc[c] = "taken" THEN None ELSE @]
    /\ Finish(c)
    /\ UNCHANGED <<tableVars, redis, startVars, readerVars, queue, processed, faults, restarts>>

\* The listener's connection breaks before the acknowledgement.
Redelivered(c) ==
    /\ cpc[c] # "idle"
    /\ Spend(faults)
    /\ Put(cbody[c])
    /\ Finish(c)
    /\ UNCHANGED <<tableVars, cacheVars, startVars, readerVars, processed, losses, restarts>>

\* The key processed:cache:delete:md5 lives 24 hours.
MarkExpires(b) ==
    /\ b \in processed
    /\ Spend(faults)
    /\ processed' = processed \ {b}
    /\ UNCHANGED <<tableVars, cacheVars, startVars, readerVars, queue, cpc, cbody, tries,
                   losses, restarts>>

-----------------------------------------------------------------------------
(* Restart of an instance.  Its threads are gone, the messages they held   *)
(* return; the start loads the Bloom filter, then lists the shops, then    *)
(* puts them into both caches, Redis without a time to live.               *)

Stop(i) ==
    LET Busy == {c \in Consumers : HostOf[c] = i /\ cpc[c] # "idle"}
    IN  /\ phase[i] = "up"
        /\ Spend(restarts)
        /\ phase' = [phase EXCEPT ![i] = "stopped"]
        /\ local' = [local EXCEPT ![i] = None]
        /\ rpc' = [r \in Readers |-> IF HostOf[r] = i THEN "idle" ELSE rpc[r]]
        /\ rval' = [r \in Readers |-> IF HostOf[r] = i THEN None ELSE rval[r]]
        /\ queue' = [b \in Bodies |-> queue[b] + Cardinality({c \in Busy : cbody[c] = b})]
        /\ cpc' = [c \in Consumers |-> IF c \in Busy THEN "idle" ELSE cpc[c]]
        /\ cbody' = [c \in Consumers |-> IF c \in Busy THEN None ELSE cbody[c]]
        /\ tries' = [c \in Consumers |-> IF c \in Busy THEN 0 ELSE tries[c]]
        /\ UNCHANGED <<tableVars, redis, bloom, listed, processed, faults, losses>>

LoadFilter(i) ==
    /\ phase[i] = "stopped"
    /\ phase' = [phase EXCEPT ![i] = "filtered"]
    /\ bloom' = [bloom EXCEPT ![i] = (row # None)]
    /\ UNCHANGED <<tableVars, cacheVars, listed, readerVars, listenerVars, boundVars>>

ListShops(i) ==
    /\ phase[i] = "filtered"
    /\ phase' = [phase EXCEPT ![i] = "listed"]
    /\ listed' = [listed EXCEPT ![i] = row]
    /\ UNCHANGED <<tableVars, cacheVars, bloom, readerVars, listenerVars, boundVars>>

Preload(i) ==
    /\ phase[i] = "listed"
    /\ phase' = [phase EXCEPT ![i] = "up"]
    /\ listed' = [listed EXCEPT ![i] = None]
    /\ IF listed[i] = None
       THEN UNCHANGED cacheVars
       ELSE /\ local' = [local EXCEPT ![i] = listed[i]]
            /\ redis' = Entry(listed[i], FALSE)
    /\ UNCHANGED <<tableVars, bloom, readerVars, listenerVars, boundVars>>

-----------------------------------------------------------------------------
Table == \/ \E content \in Contents : SaveShop(content) \/ UpdateShop(content)
         \/ RemoveShop

Reading(r) == HitRedis(r) \/ MissRedis(r) \/ LoadRow(r) \/ LoadNothing(r)
              \/ StoreRedis(r) \/ FillLocal(r)

Consuming(c) == \/ \E b \in Bodies : SkipProcessed(c, b) \/ TakeMessage(c, b)
                \/ DeleteRedis(c) \/ Invalidate(c) \/ MarkProcessed(c)

Starting(i) == LoadFilter(i) \/ ListShops(i) \/ Preload(i)

Mishap == \/ AnnounceTwice
          \/ \E b \in Bodies : MessageLost(b) \/ MarkExpires(b)
          \/ \E c \in Consumers : AttemptFails(c) \/ GiveUp(c) \/ Redelivered(c)
          \/ \E i \in Instances : Stop(i)

Next == \/ Table
        \/ \E r \in Readers : MissLocal(r) \/ Reading(r)
        \/ RedisExpires \/ \E i \in Instances : LocalExpires(i)
        \/ Announce
        \/ \E c \in Consumers : Consuming(c)
        \/ \E i \in Instances : Starting(i)
        \/ Mishap

Spec == Init /\ [][Next]_vars

\* A request under way ends, entries with a time to live expire, Canal and
\* the listeners run, and an instance that starts comes up.
Fairness ==
    /\ \A r \in Readers : WF_vars(Reading(r))
    /\ SF_vars(RedisExpires)
    /\ \A i \in Instances : SF_vars(LocalExpires(i)) /\ WF_vars(Starting(i))
    /\ WF_vars(Announce)
    /\ \A c \in Consumers : WF_vars(Consuming(c))

FairSpec == Spec /\ Fairness

-----------------------------------------------------------------------------
\* Every variable has its type; neither cache holds an entry without a shop.
ShopTypeOK ==
    /\ row \in Bodies
    /\ redis \in [image : Images, ttl : BOOLEAN] \union {None}
    /\ local \in [Instances -> Bodies]
    /\ bloom \in [Instances -> BOOLEAN]
    /\ phase \in [Instances -> {"up", "stopped", "filtered", "listed"}]
    /\ listed \in [Instances -> Bodies]
    /\ rpc \in [Readers -> {"idle", "asking", "loading", "storing", "filling"}]
    /\ rval \in [Readers -> Bodies]
    /\ binlog \in Seq(Bodies)
    /\ queue \in [Bodies -> Nat]
    /\ cpc \in [Consumers -> {"idle", "taken", "deleted", "invalidated"}]
    /\ cbody \in [Consumers -> Bodies]
    /\ tries \in [Consumers -> 0..MaxRetries - 1]
    /\ processed \subseteq Bodies

Pending == \/ binlog # <<>>
           \/ \E b \in Bodies : queue[b] > 0
           \/ \E c \in Consumers : cpc[c] = "taken"

Undisturbed == losses = MaxLosses /\ restarts = MaxRestarts

\* An entry of Redis that has no time to live and is not what the table says
\* is about to be deleted: it never depends on luck, whatever is delivered
\* twice, fails or is repeated, unless a message is lost or an instance
\* restarts.
LastingEntryIsPending ==
    Undisturbed =>
        (redis # None /\ ~ redis.ttl /\ redis.image # row => Pending)

Fresh == /\ redis # None => redis.image = row
         /\ \A i \in Instances : local[i] \in {row, None}

\* Once the updates stop, every cache of every instance ends up with the row
\* or with nothing and stays so, if no message was lost and none restarted.
CachesConverge == [](Undisturbed) => <>[]Fresh

\* "Canal's messages delete the cache asynchronously and give eventual
\* consistency": without a lost message the caches agree with the table in
\* the end, restarts or not.
EventuallyConsistent == [](losses = MaxLosses) => <>[]Fresh
=============================================================================
