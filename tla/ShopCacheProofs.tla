--------------------------- MODULE ShopCacheProofs ---------------------------
(***************************************************************************)
(* Theorems about the caches of a shop, for any instances, readers,        *)
(* listeners and bounds.                                                   *)
(*                                                                         *)
(* The argument.  Only Preload writes an entry without a time to live, and *)
(* it runs in a start: as long as none restarts, such an entry is the one  *)
(* that was there in the beginning (FirstEntry).  The first listener to    *)
(* carry out a message deletes it, so while it is there no body has been   *)
(* marked as processed, and no message can be skipped: a change of the row *)
(* is in the binlog, in the queue or in the hands of a listener that has   *)
(* not deleted yet.                                                        *)
(*                                                                         *)
(* Each write of a cache, a reader or a start copies from another of them  *)
(* or from the row (OnlyRowsAreShown).                                     *)
(***************************************************************************)
EXTENDS ShopCache, SequenceTheorems, FiniteSetTheorems, TLAPS

\* The seconds stamped on the row are no more than the updates made.
Stamped ==
    /\ updates \in 0..MaxUpdates
    /\ row # None => row.second <= MaxUpdates - updates

Budgets ==
    /\ faults \in 0..MaxFaults
    /\ losses \in 0..MaxLosses
    /\ restarts \in 0..MaxRestarts

\* A reader stores a shop, never the absence of one.
HoldsShop == \A r \in Readers : rpc[r] = "storing" => rval[r] # None

Lasting == redis # None /\ ~ redis.ttl

FirstEntry ==
    Undisturbed =>
        /\ \A i \in Instances : phase[i] = "up"
        /\ Lasting => /\ processed = {}
                      /\ \A c \in Consumers : cpc[c] \in {"idle", "taken"}
                      /\ row = redis.image \/ (Pending /\ updates < MaxUpdates)

IInv == ShopTypeOK /\ Stamped /\ Budgets /\ HoldsShop /\ FirstEntry

-----------------------------------------------------------------------------
(* Types, part by part.                                                    *)

Entries == [image : Images, ttl : BOOLEAN]

TableTypes == row \in Bodies /\ binlog \in Seq(Bodies) /\ Stamped
CacheTypes == redis \in Entries \union {None} /\ local \in [Instances -> Bodies]
StartTypes ==
    /\ bloom \in [Instances -> BOOLEAN]
    /\ phase \in [Instances -> {"up", "stopped", "filtered", "listed"}]
    /\ listed \in [Instances -> Bodies]
ReaderTypes ==
    /\ rpc \in [Readers -> {"idle", "asking", "loading", "storing", "filling"}]
    /\ rval \in [Readers -> Bodies]
    /\ HoldsShop
ListenerTypes ==
    /\ queue \in [Bodies -> Nat]
    /\ cpc \in [Consumers -> {"idle", "taken", "deleted", "invalidated"}]
    /\ cbody \in [Consumers -> Bodies]
    /\ tries \in [Consumers -> 0..MaxRetries - 1]
    /\ processed \subseteq Bodies

LEMMA TypeParts ==
    IInv <=> /\ TableTypes /\ CacheTypes /\ StartTypes /\ ReaderTypes /\ ListenerTypes
             /\ Budgets /\ FirstEntry
  BY DEF IInv, ShopTypeOK, TableTypes, CacheTypes, StartTypes, ReaderTypes, ListenerTypes,
         Entries

LEMMA Constants ==
    /\ MaxUpdates \in Nat /\ MaxRetries \in Nat \ {0}
    /\ MaxFaults \in Nat /\ MaxLosses \in Nat /\ MaxRestarts \in Nat
    /\ HostOf \in [Readers \union Consumers -> Instances]
    /\ None \notin Images /\ None \in Bodies /\ Images \subseteq Bodies
  BY ShopCacheAssumption DEF Images, Bodies

LEMMA EntryFacts ==
    ASSUME NEW image \in Images, NEW ttl \in BOOLEAN
    PROVE  /\ Entry(image, ttl) \in Entries
           /\ Entry(image, ttl).image = image /\ Entry(image, ttl).ttl = ttl
  BY DEF Entry, Entries

LEMMA ImageFacts ==
    ASSUME NEW image \in Bodies, image # None
    PROVE  image \in Images /\ image.content \in Contents /\ image.second \in 0..MaxUpdates
  BY DEF Bodies, Images

LEMMA RedisFacts ==
    ASSUME IInv, redis # None PROVE redis.image \in Images /\ redis.ttl \in BOOLEAN
  BY TypeParts DEF CacheTypes, Entries

-----------------------------------------------------------------------------
(* What each part of the next-state relation leaves alone.                 *)

LEMMA Frames ==
    /\ Table => UNCHANGED <<cacheVars, startVars, readerVars, listenerVars, boundVars>>
    /\ \A r \in Readers :
          /\ MissLocal(r) \/ Reading(r)
                => UNCHANGED <<tableVars, startVars, listenerVars, boundVars>>
          /\ MissLocal(r) \/ HitRedis(r) \/ MissRedis(r) \/ LoadRow(r) \/ LoadNothing(r)
                => UNCHANGED cacheVars
    /\ RedisExpires \/ (\E i \in Instances : LocalExpires(i))
          => UNCHANGED <<tableVars, startVars, readerVars, listenerVars, boundVars>>
    /\ Announce => UNCHANGED <<cacheVars, startVars, readerVars, boundVars>>
    /\ \A c \in Consumers : Consuming(c)
          => UNCHANGED <<tableVars, startVars, readerVars, boundVars>>
    /\ \A i \in Instances :
          /\ Starting(i) => UNCHANGED <<tableVars, readerVars, listenerVars, boundVars>>
          /\ LoadFilter(i) \/ ListShops(i) => UNCHANGED cacheVars
    /\ Mishap => UNCHANGED tableVars
    /\ AnnounceTwice \/ (\E b \in Bodies : MessageLost(b) \/ MarkExpires(b))
          \/ (\E c \in Consumers : Redelivered(c))
          => UNCHANGED <<cacheVars, startVars, readerVars>>
    /\ (\E c \in Consumers : AttemptFails(c) \/ GiveUp(c))
          => UNCHANGED <<redis, startVars, readerVars>>
    /\ UNCHANGED vars
          => UNCHANGED <<tableVars, cacheVars, startVars, readerVars, listenerVars, boundVars>>
  <1> USE DEF tableVars, cacheVars, startVars, readerVars, listenerVars, boundVars, Put
  <1>1. Table => UNCHANGED <<cacheVars, startVars, readerVars, listenerVars, boundVars>>
    BY DEF Table, SaveShop, UpdateShop, RemoveShop
  <1>2. ASSUME NEW r \in Readers
        PROVE  /\ MissLocal(r) \/ Reading(r)
                     => UNCHANGED <<tableVars, startVars, listenerVars, boundVars>>
               /\ MissLocal(r) \/ HitRedis(r) \/ MissRedis(r) \/ LoadRow(r) \/ LoadNothing(r)
                     => UNCHANGED cacheVars
    BY DEF MissLocal, Reading, HitRedis, MissRedis, LoadRow, LoadNothing, StoreRedis,
           FillLocal
  <1>3. RedisExpires \/ (\E i \in Instances : LocalExpires(i))
          => UNCHANGED <<tableVars, startVars, readerVars, listenerVars, boundVars>>
    BY DEF RedisExpires, LocalExpires
  <1>4. Announce => UNCHANGED <<cacheVars, startVars, readerVars, boundVars>>
    BY DEF Announce
  <1>5. ASSUME NEW c \in Consumers
        PROVE  Consuming(c) => UNCHANGED <<tableVars, startVars, readerVars, boundVars>>
    BY DEF Consuming, SkipProcessed, TakeMessage, DeleteRedis, Invalidate, MarkProcessed
  <1>6. ASSUME NEW i \in Instances
        PROVE  /\ Starting(i) => UNCHANGED <<tableVars, readerVars, listenerVars, boundVars>>
               /\ LoadFilter(i) \/ ListShops(i) => UNCHANGED cacheVars
    BY DEF Starting, LoadFilter, ListShops, Preload
  <1>7. Mishap => UNCHANGED tableVars
    BY DEF Mishap, AnnounceTwice, MessageLost, MarkExpires, AttemptFails, GiveUp,
           Redelivered, Stop
  <1>8. AnnounceTwice \/ (\E b \in Bodies : MessageLost(b) \/ MarkExpires(b))
          \/ (\E c \in Consumers : Redelivered(c))
          => UNCHANGED <<cacheVars, startVars, readerVars>>
    BY DEF AnnounceTwice, MessageLost, MarkExpires, Redelivered
  <1>9. (\E c \in Consumers : AttemptFails(c) \/ GiveUp(c))
          => UNCHANGED <<redis, startVars, readerVars>>
    BY DEF AttemptFails, GiveUp
  <1>10. UNCHANGED vars
          => UNCHANGED <<tableVars, cacheVars, startVars, readerVars, listenerVars, boundVars>>
    BY DEF vars
  <1> QED
    BY <1>1, <1>2, <1>3, <1>4, <1>5, <1>6, <1>7, <1>8, <1>9, <1>10

-----------------------------------------------------------------------------
(* Every part of the types, step by step.                                  *)

LEMMA InitInv == Init => IInv
  <1> SUFFICES ASSUME Init PROVE IInv
    OBVIOUS
  <1>1. row \in Bodies /\ (row # None => row.second = 0)
    BY Constants DEF Init, Bodies, Images
  <1>2. binlog \in Seq(Bodies) /\ binlog = << >>
    BY EmptySeq DEF Init
  <1>3. TableTypes
    BY <1>1, <1>2, Constants DEF Init, TableTypes, Stamped
  <1>4. redis = IF row = None THEN None ELSE Entry(row, FALSE)
    BY DEF Init
  <1>5. redis # None => /\ redis \in Entries /\ redis.image = row /\ row # None
    BY <1>1, <1>4, ImageFacts, EntryFacts
  <1>6. CacheTypes
    BY <1>1, <1>5 DEF Init, CacheTypes
  <1>7. StartTypes
    BY Constants DEF Init, StartTypes
  <1>8. ReaderTypes
    BY Constants DEF Init, ReaderTypes, HoldsShop
  <1>9. ListenerTypes
    <2>1. 0 \in 0 .. MaxRetries - 1
      BY Constants
    <2> QED
      BY <2>1, Constants DEF Init, ListenerTypes
  <1>10. Budgets
    BY Constants DEF Init, Budgets
  <1>11. FirstEntry
    BY <1>5 DEF Init, FirstEntry, Lasting
  <1> QED
    BY <1>3, <1>6, <1>7, <1>8, <1>9, <1>10, <1>11, TypeParts

LEMMA TableStep == IInv /\ [Next]_vars => TableTypes'
  <1> SUFFICES ASSUME IInv, [Next]_vars PROVE TableTypes'
    OBVIOUS
  <1>0. /\ row \in Bodies /\ binlog \in Seq(Bodies)
        /\ updates \in 0..MaxUpdates /\ MaxUpdates \in Nat
        /\ (row # None => row.second <= MaxUpdates - updates)
    BY TypeParts, Constants DEF TableTypes, Stamped
  <1>1. ASSUME NEW content \in Contents, SaveShop(content) PROVE TableTypes'
    <2>1. /\ updates = MaxUpdates /\ updates > 0 /\ updates' = updates - 1
          /\ row' = [content |-> content, second |-> 1] /\ binlog' = binlog
      BY <1>1 DEF SaveShop, Spend
    <2>2. row' \in Bodies /\ row'.second = 1
      BY <1>0, <2>1 DEF Bodies, Images
    <2> QED
      BY <1>0, <2>1, <2>2 DEF TableTypes, Stamped
  <1>2. ASSUME NEW content \in Contents, UpdateShop(content) PROVE TableTypes'
    <2>1. PICK s \in {row.second, row.second + 1} :
             row' = [content |-> content, second |-> s] /\ binlog' = Append(binlog, row')
      BY <1>2 DEF UpdateShop
    <2>2. row # None /\ updates > 0 /\ updates' = updates - 1
      BY <1>2 DEF UpdateShop, Spend
    <2>3. row.second \in 0..MaxUpdates
      BY <1>0, <2>2, ImageFacts
    <2>4. s \in 0..MaxUpdates /\ s <= MaxUpdates - updates' /\ updates' \in 0..MaxUpdates
      BY <1>0, <2>1, <2>2, <2>3
    <2>5. row' \in Bodies /\ row'.second = s
      BY <2>1, <2>4 DEF Bodies, Images
    <2>6. binlog' \in Seq(Bodies)
      BY <1>0, <2>1, <2>5, AppendProperties
    <2> QED
      BY <2>4, <2>5, <2>6 DEF TableTypes, Stamped
  <1>3. CASE RemoveShop
    <2>1. row' = None /\ binlog' = Append(binlog, None) /\ updates > 0 /\ updates' = updates - 1
      BY <1>3 DEF RemoveShop, Spend
    <2>2. binlog' \in Seq(Bodies)
      BY <1>0, <2>1, Constants, AppendProperties
    <2> QED
      BY <1>0, <2>1, <2>2, Constants DEF TableTypes, Stamped
  <1>4. CASE Announce
    <2>1. binlog # << >> /\ binlog' = Tail(binlog) /\ UNCHANGED <<row, updates>>
      BY <1>4 DEF Announce
    <2>2. binlog' \in Seq(Bodies)
      BY <1>0, <2>1, HeadTailProperties
    <2> QED
      BY <1>0, <2>1, <2>2 DEF TableTypes, Stamped
  <1>5. CASE UNCHANGED tableVars
    BY <1>0, <1>5 DEF tableVars, TableTypes, Stamped
  <1> QED
    BY <1>1, <1>2, <1>3, <1>4, <1>5, Frames DEF Next, Table

LEMMA CacheStep == IInv /\ [Next]_vars => CacheTypes'
  <1> SUFFICES ASSUME IInv, [Next]_vars PROVE CacheTypes'
    OBVIOUS
  <1>0. /\ redis \in Entries \union {None} /\ local \in [Instances -> Bodies]
        /\ rval \in [Readers -> Bodies] /\ listed \in [Instances -> Bodies]
        /\ HoldsShop /\ None \in Bodies
    BY TypeParts, Constants DEF CacheTypes, ReaderTypes, StartTypes
  <1>1. ASSUME NEW r \in Readers, StoreRedis(r) PROVE CacheTypes'
    <2>1. redis' = Entry(rval[r], TRUE) /\ local' = local /\ rpc[r] = "storing"
      BY <1>1 DEF StoreRedis, Read
    <2>2. rval[r] \in Images
      BY <1>0, <2>1, ImageFacts DEF HoldsShop
    <2> QED
      BY <1>0, <2>1, <2>2, EntryFacts DEF CacheTypes
  <1>2. ASSUME NEW r \in Readers, FillLocal(r) PROVE CacheTypes'
    BY <1>0, <1>2 DEF FillLocal, CacheTypes
  <1>3. ASSUME RedisExpires \/ (\E i \in Instances : LocalExpires(i)) PROVE CacheTypes'
    BY <1>0, <1>3 DEF RedisExpires, LocalExpires, CacheTypes
  <1>4. ASSUME NEW c \in Consumers,
               DeleteRedis(c) \/ Invalidate(c) \/ AttemptFails(c) \/ GiveUp(c)
        PROVE  CacheTypes'
    BY <1>0, <1>4 DEF DeleteRedis, Invalidate, AttemptFails, GiveUp, CacheTypes
  <1>5. ASSUME NEW i \in Instances, Stop(i) PROVE CacheTypes'
    <2>1. redis' = redis /\ local' = [local EXCEPT ![i] = None]
      BY <1>5 DEF Stop
    <2> QED
      BY <1>0, <2>1 DEF CacheTypes
  <1>6. ASSUME NEW i \in Instances, Preload(i) PROVE CacheTypes'
    <2>1. CASE listed[i] = None
      BY <1>0, <1>6, <2>1 DEF Preload, cacheVars, CacheTypes
    <2>2. CASE listed[i] # None
      <3>1. /\ local' = [local EXCEPT ![i] = listed[i]] /\ redis' = Entry(listed[i], FALSE)
        BY <1>6, <2>2 DEF Preload
      <3>2. listed[i] \in Images
        BY <1>0, <2>2, ImageFacts
      <3> QED
        BY <1>0, <3>1, <3>2, EntryFacts DEF CacheTypes
    <2> QED
      BY <2>1, <2>2
  <1>7. CASE UNCHANGED cacheVars
    BY <1>0, <1>7 DEF cacheVars, CacheTypes
  <1>8. ASSUME NEW c \in Consumers,
               \E b \in Bodies : SkipProcessed(c, b) \/ TakeMessage(c, b)
        PROVE  UNCHANGED cacheVars
    BY <1>8 DEF SkipProcessed, TakeMessage
  <1>9. ASSUME NEW c \in Consumers, MarkProcessed(c) PROVE UNCHANGED cacheVars
    BY <1>9 DEF MarkProcessed
  <1> QED
    BY <1>1, <1>2, <1>3, <1>4, <1>5, <1>6, <1>7, <1>8, <1>9, Frames
    DEF Next, Reading, Consuming, Starting, Mishap

LEMMA StartStep == IInv /\ [Next]_vars => StartTypes'
  <1> SUFFICES ASSUME IInv, [Next]_vars PROVE StartTypes'
    OBVIOUS
  <1>0. StartTypes /\ row \in Bodies /\ None \in Bodies
    BY TypeParts, Constants DEF TableTypes
  <1>1. ASSUME NEW i \in Instances, LoadFilter(i) \/ ListShops(i) PROVE StartTypes'
    BY <1>0, <1>1 DEF LoadFilter, ListShops, StartTypes
  <1>2. ASSUME NEW i \in Instances, Preload(i) PROVE StartTypes'
    BY <1>0, <1>2 DEF Preload, StartTypes
  <1>3. ASSUME NEW i \in Instances, Stop(i) PROVE StartTypes'
    <2>1. phase' = [phase EXCEPT ![i] = "stopped"] /\ UNCHANGED <<bloom, listed>>
      BY <1>3 DEF Stop
    <2> QED
      BY <1>0, <2>1 DEF StartTypes
  <1>4. CASE UNCHANGED startVars
    BY <1>0, <1>4 DEF startVars, StartTypes
  <1> QED
    BY <1>1, <1>2, <1>3, <1>4, Frames DEF Next, Starting, Mishap

LEMMA ReaderStep == IInv /\ [Next]_vars => ReaderTypes'
  <1> SUFFICES ASSUME IInv, [Next]_vars PROVE ReaderTypes'
    OBVIOUS
  <1>0. /\ rpc \in [Readers -> {"idle", "asking", "loading", "storing", "filling"}]
        /\ rval \in [Readers -> Bodies] /\ HoldsShop
        /\ row \in Bodies /\ None \in Bodies /\ Images \subseteq Bodies
    BY TypeParts, Constants DEF ReaderTypes, TableTypes
  <1> USE DEF Read, Hold, ReaderTypes, HoldsShop
  <1>1. ASSUME NEW r \in Readers, MissLocal(r) \/ MissRedis(r) \/ LoadNothing(r) \/ StoreRedis(r)
        PROVE  ReaderTypes'
    BY <1>0, <1>1 DEF MissLocal, MissRedis, LoadNothing, StoreRedis
  <1>2. ASSUME NEW r \in Readers, HitRedis(r) PROVE ReaderTypes'
    <2>1. redis.image \in Bodies
      BY <1>0, <1>2, RedisFacts DEF HitRedis
    <2> QED
      BY <1>0, <1>2, <2>1 DEF HitRedis
  <1>3. ASSUME NEW r \in Readers, LoadRow(r) \/ FillLocal(r) PROVE ReaderTypes'
    BY <1>0, <1>3 DEF LoadRow, FillLocal
  <1>4. ASSUME NEW i \in Instances, Stop(i) PROVE ReaderTypes'
    <2>1. /\ rpc' = [r \in Readers |-> IF HostOf[r] = i THEN "idle" ELSE rpc[r]]
          /\ rval' = [r \in Readers |-> IF HostOf[r] = i THEN None ELSE rval[r]]
      BY <1>4 DEF Stop
    <2> QED
      BY <1>0, <2>1
  <1>5. CASE UNCHANGED readerVars
    BY <1>0, <1>5 DEF readerVars
  <1> QED
    BY <1>1, <1>2, <1>3, <1>4, <1>5, Frames DEF Next, Reading, Mishap

\* A copy put into the queue is there.
LEMMA PutFacts ==
    ASSUME queue \in [Bodies -> Nat], NEW b \in Bodies, Put(b)
    PROVE  queue' \in [Bodies -> Nat] /\ queue'[b] > 0
  <1>1. queue' = [queue EXCEPT ![b] = queue[b] + 1] /\ queue[b] + 1 \in Nat
    BY DEF Put
  <1> QED
    BY <1>1

LEMMA HeadFacts ==
    ASSUME IInv, binlog # << >> PROVE Head(binlog) \in Bodies
  <1>1. binlog \in Seq(Bodies)
    BY TypeParts DEF TableTypes
  <1> QED
    BY <1>1, HeadTailProperties

LEMMA ListenerStep == IInv /\ [Next]_vars => ListenerTypes'
  <1> SUFFICES ASSUME IInv, [Next]_vars PROVE ListenerTypes'
    OBVIOUS
  <1>0. /\ queue \in [Bodies -> Nat]
        /\ cpc \in [Consumers -> {"idle", "taken", "deleted", "invalidated"}]
        /\ cbody \in [Consumers -> Bodies]
        /\ tries \in [Consumers -> 0..MaxRetries - 1]
        /\ processed \subseteq Bodies /\ None \in Bodies
    BY TypeParts, Constants DEF ListenerTypes
  <1>a. MaxRetries \in Nat /\ 0 \in 0..MaxRetries - 1
    BY Constants
  <1>1. ASSUME Announce \/ AnnounceTwice PROVE ListenerTypes'
    <2>1. binlog # << >> /\ Put(Head(binlog)) /\ UNCHANGED <<cpc, cbody, tries, processed>>
      BY <1>1 DEF Announce, AnnounceTwice
    <2>2. queue' \in [Bodies -> Nat]
      BY <1>0, <2>1, HeadFacts, PutFacts
    <2> QED
      BY <1>0, <2>1, <2>2 DEF ListenerTypes
  <1>2. ASSUME NEW b \in Bodies, queue[b] > 0, queue' = [queue EXCEPT ![b] = queue[b] - 1]
        PROVE  queue' \in [Bodies -> Nat]
    <2>1. queue[b] - 1 \in Nat
      BY <1>0, <1>2
    <2> QED
      BY <1>0, <1>2, <2>1
  <1>3. ASSUME NEW b \in Bodies, MessageLost(b) PROVE ListenerTypes'
    <2>1. /\ queue[b] > 0 /\ queue' = [queue EXCEPT ![b] = queue[b] - 1]
          /\ UNCHANGED <<cpc, cbody, tries, processed>>
      BY <1>3 DEF MessageLost
    <2> QED
      BY <1>0, <1>2, <2>1 DEF ListenerTypes
  <1>4. ASSUME NEW c \in Consumers, NEW b \in Bodies, SkipProcessed(c, b) PROVE ListenerTypes'
    <2>1. /\ queue[b] > 0 /\ queue' = [queue EXCEPT ![b] = queue[b] - 1]
          /\ UNCHANGED <<cpc, cbody, tries, processed>>
      BY <1>4 DEF SkipProcessed
    <2> QED
      BY <1>0, <1>2, <2>1 DEF ListenerTypes
  <1>5. ASSUME NEW c \in Consumers, NEW b \in Bodies, TakeMessage(c, b) PROVE ListenerTypes'
    <2>1. /\ queue[b] > 0 /\ queue' = [queue EXCEPT ![b] = queue[b] - 1]
          /\ cpc' = [cpc EXCEPT ![c] = "taken"] /\ cbody' = [cbody EXCEPT ![c] = b]
          /\ UNCHANGED <<tries, processed>>
      BY <1>5 DEF TakeMessage, Work
    <2>2. queue' \in [Bodies -> Nat]
      BY <1>2, <2>1
    <2> QED
      BY <1>0, <2>1, <2>2 DEF ListenerTypes
  <1>6. ASSUME NEW c \in Consumers, DeleteRedis(c) \/ Invalidate(c) PROVE ListenerTypes'
    BY <1>0, <1>6 DEF DeleteRedis, Invalidate, Work, ListenerTypes
  <1>7. ASSUME NEW c \in Consumers, Finish(c)
        PROVE  /\ cpc' \in [Consumers -> {"idle", "taken", "deleted", "invalidated"}]
               /\ cbody' \in [Consumers -> Bodies]
               /\ tries' \in [Consumers -> 0..MaxRetries - 1]
    BY <1>0, <1>a, <1>7 DEF Finish
  <1>8. ASSUME NEW c \in Consumers, MarkProcessed(c) \/ GiveUp(c) PROVE ListenerTypes'
    <2>1. /\ Finish(c) /\ queue' = queue
          /\ processed' = processed \union {cbody[c]} \/ processed' = processed
      BY <1>8 DEF MarkProcessed, GiveUp
    <2> QED
      BY <1>0, <1>7, <2>1 DEF ListenerTypes
  <1>9. ASSUME NEW c \in Consumers, AttemptFails(c) PROVE ListenerTypes'
    <2>1. /\ tries[c] + 1 < MaxRetries /\ tries' = [tries EXCEPT ![c] = tries[c] + 1]
          /\ cpc' = [cpc EXCEPT ![c] = "taken"] /\ UNCHANGED <<queue, cbody, processed>>
      BY <1>9 DEF AttemptFails
    <2>2. tries[c] \in 0..MaxRetries - 1
      BY <1>0
    <2>3. tries[c] + 1 \in 0..MaxRetries - 1
      BY <1>a, <2>1, <2>2
    <2> QED
      BY <1>0, <2>1, <2>3 DEF ListenerTypes
  <1>10. ASSUME NEW c \in Consumers, Redelivered(c) PROVE ListenerTypes'
    <2>1. Finish(c) /\ Put(cbody[c]) /\ cbody[c] \in Bodies /\ processed' = processed
      BY <1>0, <1>10 DEF Redelivered
    <2>2. queue' \in [Bodies -> Nat]
      BY <1>0, <2>1, PutFacts
    <2> QED
      BY <1>0, <1>7, <2>1, <2>2 DEF ListenerTypes
  <1>11. ASSUME NEW b \in Bodies, MarkExpires(b) PROVE ListenerTypes'
    BY <1>0, <1>11 DEF MarkExpires, ListenerTypes
  <1>12. ASSUME NEW i \in Instances, Stop(i) PROVE ListenerTypes'
    <2> DEFINE Busy == {c \in Consumers : HostOf[c] = i /\ cpc[c] # "idle"}
               Back(b) == {c \in Busy : cbody[c] = b}
    <2>1. /\ queue' = [b \in Bodies |-> queue[b] + Cardinality(Back(b))]
          /\ cpc' = [c \in Consumers |-> IF c \in Busy THEN "idle" ELSE cpc[c]]
          /\ cbody' = [c \in Consumers |-> IF c \in Busy THEN None ELSE cbody[c]]
          /\ tries' = [c \in Consumers |-> IF c \in Busy THEN 0 ELSE tries[c]]
          /\ processed' = processed
      BY <1>12 DEF Stop
    <2>2. ASSUME NEW b \in Bodies PROVE queue[b] + Cardinality(Back(b)) \in Nat
      <3>1. IsFiniteSet(Back(b))
        BY ShopCacheAssumption, FS_Subset
      <3>2. Cardinality(Back(b)) \in Nat /\ queue[b] \in Nat
        BY <1>0, <3>1, FS_CardinalityType
      <3> HIDE DEF Back
      <3> QED
        BY <3>2
    <2>3. queue' \in [Bodies -> Nat]
      <3> HIDE DEF Back
      <3> QED
        BY <2>1, <2>2
    <2>4. cpc' \in [Consumers -> {"idle", "taken", "deleted", "invalidated"}]
      BY <1>0, <2>1
    <2>5. cbody' \in [Consumers -> Bodies]
      BY <1>0, <2>1
    <2>6. tries' \in [Consumers -> 0..MaxRetries - 1]
      BY <1>0, <1>a, <2>1
    <2> QED
      BY <1>0, <2>1, <2>3, <2>4, <2>5, <2>6 DEF ListenerTypes
  <1>13. CASE UNCHANGED listenerVars
    BY <1>0, <1>13 DEF listenerVars, ListenerTypes
  <1> QED
    BY <1>1, <1>3, <1>4, <1>5, <1>6, <1>8, <1>9, <1>10, <1>11, <1>12, <1>13, Frames
    DEF Next, Consuming, Mishap

\* Mishaps are paid for; the losses and the restarts only by their own.
LEMMA BudgetStep ==
    ASSUME IInv, [Next]_vars
    PROVE  /\ Budgets'
           /\ Undisturbed' => /\ Undisturbed /\ \A i \in Instances : ~ Stop(i)
                              /\ \A b \in Bodies : ~ MessageLost(b)
                              /\ \A c \in Consumers : ~ GiveUp(c)
  <1>0. /\ faults \in 0..MaxFaults /\ losses \in 0..MaxLosses /\ restarts \in 0..MaxRestarts
        /\ MaxFaults \in Nat /\ MaxLosses \in Nat /\ MaxRestarts \in Nat
    BY TypeParts, Constants DEF Budgets
  <1>1. ASSUME AnnounceTwice \/ (\E b \in Bodies : MarkExpires(b))
               \/ (\E c \in Consumers : AttemptFails(c) \/ Redelivered(c))
        PROVE  faults > 0 /\ faults' = faults - 1 /\ losses' = losses /\ restarts' = restarts
    BY <1>1 DEF AnnounceTwice, MarkExpires, AttemptFails, Redelivered, Spend
  <1>2. ASSUME (\E b \in Bodies : MessageLost(b)) \/ (\E c \in Consumers : GiveUp(c))
        PROVE  losses > 0 /\ losses' = losses - 1 /\ faults' = faults /\ restarts' = restarts
    BY <1>2 DEF MessageLost, GiveUp, Spend
  <1>3. ASSUME NEW i \in Instances, Stop(i)
        PROVE  restarts > 0 /\ restarts' = restarts - 1 /\ faults' = faults /\ losses' = losses
    BY <1>3 DEF Stop, Spend
  <1>4. Mishap \/ UNCHANGED boundVars
    BY Frames DEF Next
  <1>5. UNCHANGED boundVars => UNCHANGED <<faults, losses, restarts>>
    BY DEF boundVars
  <1>6. Budgets'
    BY <1>0, <1>1, <1>2, <1>3, <1>4, <1>5 DEF Mishap, Budgets
  <1>7. losses' <= losses /\ restarts' <= restarts
    BY <1>0, <1>1, <1>2, <1>3, <1>4, <1>5 DEF Mishap
  <1>8. Undisturbed' => losses' = losses /\ restarts' = restarts
    BY <1>0, <1>6, <1>7 DEF Undisturbed, Budgets
  <1>9. Undisturbed' => Undisturbed
    BY <1>8 DEF Undisturbed
  <1>10. losses' = losses => /\ \A b \in Bodies : ~ MessageLost(b)
                             /\ \A c \in Consumers : ~ GiveUp(c)
    BY <1>0, <1>2
  <1>11. restarts' = restarts => \A i \in Instances : ~ Stop(i)
    BY <1>0, <1>3
  <1> QED
    BY <1>6, <1>8, <1>9, <1>10, <1>11

-----------------------------------------------------------------------------
(* The entry without a time to live.                                       *)

\* What FirstEntry says of such an entry.
Awaited ==
    /\ processed = {}
    /\ \A c \in Consumers : cpc[c] \in {"idle", "taken"}
    /\ row = redis.image \/ (Pending /\ updates < MaxUpdates)

LEMMA FirstEntryStep == IInv /\ [Next]_vars => FirstEntry'
  <1> SUFFICES ASSUME IInv, [Next]_vars, Undisturbed'
               PROVE  (\A i \in Instances : phase'[i] = "up") /\ (Lasting' => Awaited')
    BY DEF FirstEntry, Awaited
  <1>0. /\ \A i \in Instances : phase[i] = "up" /\ ~ Stop(i)
        /\ \A b \in Bodies : ~ MessageLost(b)
        /\ \A c \in Consumers : ~ GiveUp(c)
        /\ Lasting => Awaited
    BY BudgetStep DEF IInv, FirstEntry, Awaited
  <1>1. \A i \in Instances : ~ Starting(i)
    BY <1>0 DEF Starting, LoadFilter, ListShops, Preload
  <1>2. \A i \in Instances : phase'[i] = "up"
    <2>1. UNCHANGED startVars
      BY <1>0, <1>1, Frames DEF Next, Mishap
    <2> QED
      BY <1>0, <2>1 DEF startVars
  <1>3. /\ queue \in [Bodies -> Nat] /\ cbody \in [Consumers -> Bodies]
        /\ cpc \in [Consumers -> {"idle", "taken", "deleted", "invalidated"}]
        /\ binlog \in Seq(Bodies) /\ row \in Bodies
        /\ updates \in 0..MaxUpdates /\ MaxUpdates \in Nat
    BY TypeParts, Constants DEF ListenerTypes, TableTypes, Stamped
  <1>4. ASSUME Lasting, redis' = redis PROVE Lasting /\ Awaited
    BY <1>0, <1>4
  <1> SUFFICES ASSUME Lasting' PROVE Awaited'
    BY <1>2
  <1>5. CASE Table
    <2>1. redis' = redis /\ processed' = processed /\ cpc' = cpc
      BY <1>5, Frames DEF cacheVars, listenerVars
    <2>2. Lasting /\ Awaited
      BY <1>0, <2>1 DEF Lasting
    <2>3. ASSUME NEW content \in Contents PROVE ~ SaveShop(content)
      <3>1. redis.image # None
        BY <2>2, RedisFacts, Constants DEF Lasting
      <3> QED
        BY <1>3, <2>2, <3>1 DEF SaveShop, Awaited
    <2>4. \E e \in Bodies : binlog' = Append(binlog, e)
      <3>1. row' \in Bodies
        BY TableStep DEF TableTypes
      <3> QED
        BY <1>5, <2>3, <3>1, Constants DEF Table, UpdateShop, RemoveShop
    <2>5. binlog' # << >>
      BY <1>3, <2>4, AppendProperties
    <2>6. updates > 0 /\ updates' = updates - 1
      BY <1>5, <2>3 DEF Table, UpdateShop, RemoveShop, Spend
    <2>7. updates' < MaxUpdates
      BY <1>3, <2>6
    <2> QED
      BY <2>1, <2>2, <2>5, <2>7 DEF Awaited, Pending
  <1>6. ASSUME UNCHANGED <<tableVars, redis, listenerVars>> PROVE Awaited'
    <2>1. Awaited
      BY <1>0, <1>6 DEF Lasting
    <2> QED
      BY <1>6, <2>1 DEF Awaited, Pending, tableVars, listenerVars
  <1>7. ASSUME NEW r \in Readers, MissLocal(r) \/ Reading(r) PROVE Awaited'
    <2>1. ~ StoreRedis(r)
      <3>1. ASSUME StoreRedis(r) PROVE FALSE
        <4>1. redis' = Entry(rval[r], TRUE)
          BY <3>1 DEF StoreRedis
        <4>2. redis'.ttl = TRUE
          BY <4>1 DEF Entry
        <4> QED
          BY <4>2 DEF Lasting
      <3> QED
        BY <3>1
    <2>2. FillLocal(r) => redis' = redis
      BY DEF FillLocal
    <2> QED
      BY <1>6, <1>7, <2>1, <2>2, Frames DEF Reading, cacheVars
  <1>8. ASSUME RedisExpires \/ (\E i \in Instances : LocalExpires(i)) PROVE Awaited'
    <2>1. ~ RedisExpires
      BY DEF RedisExpires, Lasting
    <2>2. redis' = redis
      BY <1>8, <2>1 DEF LocalExpires
    <2> QED
      BY <1>6, <1>8, <2>2, Frames
  <1>9. ASSUME NEW b \in Bodies, Put(b),
               UNCHANGED <<row, redis, updates, processed>>,
               \A c \in Consumers : cpc'[c] \in {cpc[c], "idle"}
        PROVE  Awaited'
    <2>1. Awaited
      BY <1>0, <1>9 DEF Lasting
    <2>2. queue'[b] > 0
      BY <1>3, <1>9, PutFacts
    <2>3. Pending'
      BY <2>2 DEF Pending
    <2> QED
      BY <1>9, <2>1, <2>3 DEF Awaited
  <1>10. CASE Announce \/ AnnounceTwice
    <2>1. /\ Put(Head(binlog)) /\ binlog # << >> /\ redis' = redis
          /\ UNCHANGED <<row, updates, processed, cpc>>
      BY <1>10 DEF Announce, AnnounceTwice, cacheVars, tableVars
    <2> QED
      BY <1>9, <2>1, HeadFacts
  <1>11. ASSUME NEW c \in Consumers, Redelivered(c) PROVE Awaited'
    <2>1. /\ Put(cbody[c]) /\ cbody[c] \in Bodies /\ redis' = redis
          /\ UNCHANGED <<row, updates, processed>> /\ cpc' = [cpc EXCEPT ![c] = "idle"]
      BY <1>3, <1>11 DEF Redelivered, Finish, cacheVars, tableVars
    <2>2. \A d \in Consumers : cpc'[d] \in {cpc[d], "idle"}
      BY <1>3, <2>1
    <2> QED
      BY <1>9, <2>1, <2>2
  <1>12. ASSUME NEW c \in Consumers, cpc' = [cpc EXCEPT ![c] = "taken"],
                UNCHANGED <<row, redis, updates, processed>>
         PROVE  Awaited'
    <2>1. Awaited
      BY <1>0, <1>12 DEF Lasting
    <2>2. cpc'[c] = "taken" /\ \A d \in Consumers : cpc'[d] \in {cpc[d], "taken"}
      BY <1>3, <1>12
    <2>3. Pending'
      BY <2>2 DEF Pending
    <2>4. \A d \in Consumers : cpc'[d] \in {"idle", "taken"}
      BY <2>1, <2>2 DEF Awaited
    <2> QED
      BY <1>12, <2>1, <2>3, <2>4 DEF Awaited
  <1>13. ASSUME NEW c \in Consumers, Consuming(c) PROVE Awaited'
    <2>1. ~ DeleteRedis(c)
      BY DEF DeleteRedis, Lasting
    <2>2. redis' = redis
      BY <1>13, <2>1 DEF Consuming, SkipProcessed, TakeMessage, Invalidate, MarkProcessed,
                         cacheVars
    <2>3. Awaited
      BY <1>0, <2>2 DEF Lasting
    <2>4. ~ Invalidate(c) /\ ~ MarkProcessed(c) /\ \A b \in Bodies : ~ SkipProcessed(c, b)
      BY <2>3 DEF Awaited, Invalidate, MarkProcessed, SkipProcessed, Work
    <2>5. /\ cpc' = [cpc EXCEPT ![c] = "taken"]
          /\ UNCHANGED <<row, redis, updates, processed>>
      BY <1>13, <2>1, <2>4 DEF Consuming, TakeMessage, Work, tableVars, cacheVars
    <2> QED
      BY <1>12, <2>5
  <1>14. ASSUME NEW c \in Consumers, AttemptFails(c) PROVE Awaited'
    <2>1. /\ cpc' = [cpc EXCEPT ![c] = "taken"]
          /\ UNCHANGED <<row, redis, updates, processed>>
      BY <1>14 DEF AttemptFails, tableVars
    <2> QED
      BY <1>12, <2>1
  <1>15. ASSUME NEW b \in Bodies, MarkExpires(b) PROVE Awaited'
    <2>1. Awaited
      BY <1>0, <1>15 DEF MarkExpires, cacheVars, Lasting
    <2> QED
      BY <1>15, <2>1 DEF MarkExpires, Awaited
  <1>16. CASE UNCHANGED vars
    BY <1>6, <1>16, Frames DEF cacheVars
  <1> QED
    BY <1>0, <1>1, <1>5, <1>7, <1>8, <1>10, <1>11, <1>13, <1>14, <1>15, <1>16
    DEF Next, Mishap

-----------------------------------------------------------------------------
(* The theorems.                                                           *)

\* The invariant holds in every state the caches reach.
THEOREM InductiveInvariant == Spec => []IInv
  <1>1. Init => IInv
    BY InitInv
  <1>2. IInv /\ [Next]_vars => IInv'
    <2> SUFFICES ASSUME IInv, [Next]_vars PROVE IInv'
      OBVIOUS
    <2>1. /\ TableTypes' /\ CacheTypes' /\ StartTypes' /\ ReaderTypes' /\ ListenerTypes'
          /\ Budgets' /\ FirstEntry'
      BY TableStep, CacheStep, StartStep, ReaderStep, ListenerStep, BudgetStep,
         FirstEntryStep
    <2> QED
      BY <2>1 DEF IInv, ShopTypeOK, TableTypes, CacheTypes, StartTypes, ReaderTypes,
                  ListenerTypes, Entries
  <1> QED
    BY <1>1, <1>2, PTL DEF Spec

\* Every variable keeps its type; querywithchuantou never caches the absence
\* of a shop in Redis.
THEOREM TypeCorrectness == Spec => []ShopTypeOK
  <1>1. IInv => ShopTypeOK
    BY DEF IInv
  <1> QED
    BY <1>1, InductiveInvariant, PTL

\* An outdated entry that never expires has its deletion by
\* CacheDeleteConsumer.handleCacheDelete still ahead, unless a message was
\* lost or an instance restarted.
THEOREM LastingEntriesArePending == Spec => []LastingEntryIsPending
  <1>1. IInv => LastingEntryIsPending
    BY DEF IInv, FirstEntry, Lasting, LastingEntryIsPending
  <1> QED
    BY <1>1, InductiveInvariant, PTL

-----------------------------------------------------------------------------
(* Where the copies come from.                                             *)

\* Some cache, reader or starting instance has the shop as v says it.
Shown(v) ==
    \/ redis # None /\ redis.image = v
    \/ \E i \in Instances : local[i] = v \/ listed[i] = v
    \/ \E r \in Readers : rval[r] = v

\* Both caches, querywithchuantou and the preload: a shop is shown only if it
\* was shown before or is the row.  So an outdated shop that has left the
\* caches and the threads does not come back, whatever fails, is delivered
\* twice, lost or restarted.
OnlyRowsAreShown ==
    [][\A v \in Images : Shown(v)' => Shown(v) \/ v = row]_vars

LEMMA RedisShows ==
    ASSUME IInv, [Next]_vars, NEW v \in Images, redis' # None, redis'.image = v
    PROVE  Shown(v)
  <1>0. /\ rval \in [Readers -> Bodies] /\ listed \in [Instances -> Bodies] /\ HoldsShop
    BY TypeParts DEF ReaderTypes, StartTypes
  <1>1. ASSUME NEW r \in Readers, StoreRedis(r) PROVE Shown(v)
    <2>1. redis' = Entry(rval[r], TRUE)
      BY <1>1 DEF StoreRedis
    <2>2. rval[r] = v
      BY <2>1 DEF Entry
    <2> QED
      BY <2>2 DEF Shown
  <1>2. ASSUME NEW i \in Instances, Preload(i), listed[i] # None PROVE Shown(v)
    <2>1. redis' = Entry(listed[i], FALSE)
      BY <1>2 DEF Preload
    <2>2. listed[i] = v
      BY <2>1 DEF Entry
    <2> QED
      BY <2>2 DEF Shown
  <1>3. CASE UNCHANGED redis
    BY <1>3 DEF Shown
  <1>4. ASSUME NEW i \in Instances, Starting(i), ~ (Preload(i) /\ listed[i] # None)
        PROVE  UNCHANGED redis
    BY <1>4, Frames DEF Starting, Preload, cacheVars
  <1>5. ASSUME NEW r \in Readers, MissLocal(r) \/ Reading(r), ~ StoreRedis(r)
        PROVE  UNCHANGED redis
    BY <1>5, Frames DEF Reading, FillLocal, cacheVars
  <1>6. ASSUME NEW c \in Consumers, Consuming(c)
        PROVE  UNCHANGED redis
    BY <1>6 DEF Consuming, SkipProcessed, TakeMessage, DeleteRedis, Invalidate,
                MarkProcessed, cacheVars
  <1>7. ASSUME \/ Table \/ Announce \/ Mishap \/ UNCHANGED vars
               \/ RedisExpires \/ \E i \in Instances : LocalExpires(i)
        PROVE  UNCHANGED redis
    BY <1>7, Frames DEF RedisExpires, LocalExpires, Mishap, Stop, cacheVars
  <1> QED
    BY <1>1, <1>2, <1>3, <1>4, <1>5, <1>6, <1>7 DEF Next

LEMMA InstancesShow ==
    ASSUME IInv, [Next]_vars, NEW v \in Images, NEW i \in Instances,
           local'[i] = v \/ listed'[i] = v
    PROVE  Shown(v) \/ v = row
  <1>0. /\ rval \in [Readers -> Bodies] /\ listed \in [Instances -> Bodies]
        /\ local \in [Instances -> Bodies] /\ v # None
    BY TypeParts, Constants DEF ReaderTypes, StartTypes, CacheTypes
  <1>1. CASE local'[i] = local[i] /\ listed'[i] = listed[i]
    BY <1>1 DEF Shown
  <1>2. ASSUME NEW r \in Readers, FillLocal(r) PROVE Shown(v)
    <2>1. local' = [local EXCEPT ![HostOf[r]] = rval[r]] /\ UNCHANGED listed
      BY <1>2 DEF FillLocal, startVars
    <2> QED
      BY <1>0, <2>1 DEF Shown
  <1>3. ASSUME NEW j \in Instances, ListShops(j) PROVE Shown(v) \/ v = row
    <2>1. listed' = [listed EXCEPT ![j] = row] /\ UNCHANGED local
      BY <1>3 DEF ListShops, cacheVars
    <2> QED
      BY <1>0, <2>1 DEF Shown
  <1>4. ASSUME NEW j \in Instances, Preload(j) PROVE Shown(v)
    <2>1. /\ listed' = [listed EXCEPT ![j] = None]
          /\ local' = local \/ local' = [local EXCEPT ![j] = listed[j]]
      BY <1>4 DEF Preload, cacheVars
    <2> QED
      BY <1>0, <2>1 DEF Shown
  <1>5. ASSUME NEW j \in Instances, UNCHANGED listed,
               local' = local \/ local' = [local EXCEPT ![j] = None]
        PROVE  Shown(v)
    BY <1>0, <1>5 DEF Shown
  <1>6. ASSUME NEW j \in Instances, LocalExpires(j) \/ Stop(j) PROVE Shown(v)
    BY <1>5, <1>6 DEF LocalExpires, Stop, startVars
  <1>7. ASSUME NEW c \in Consumers, Invalidate(c) \/ AttemptFails(c) \/ GiveUp(c)
        PROVE  Shown(v)
    <2>1. HostOf[c] \in Instances
      BY Constants
    <2>2. local' = local \/ local' = [local EXCEPT ![HostOf[c]] = None]
      BY <1>0, <1>7 DEF Invalidate, AttemptFails, GiveUp
    <2>3. UNCHANGED listed
      BY <1>7 DEF Invalidate, AttemptFails, GiveUp, startVars
    <2> QED
      BY <1>5, <2>1, <2>2, <2>3
  <1>8. ASSUME NEW r \in Readers, MissLocal(r) \/ Reading(r), ~ FillLocal(r)
        PROVE  UNCHANGED <<local, listed>>
    BY <1>8, Frames DEF Reading, StoreRedis, cacheVars, startVars
  <1>9. ASSUME NEW c \in Consumers, Consuming(c), ~ Invalidate(c)
        PROVE  UNCHANGED <<local, listed>>
    BY <1>9 DEF Consuming, SkipProcessed, TakeMessage, DeleteRedis, MarkProcessed, cacheVars,
                startVars
  <1>10. ASSUME \/ Table \/ Announce \/ AnnounceTwice \/ UNCHANGED vars \/ RedisExpires
                \/ \E b \in Bodies : MessageLost(b) \/ MarkExpires(b)
                \/ \E c \in Consumers : Redelivered(c)
                \/ \E j \in Instances : LoadFilter(j)
         PROVE  UNCHANGED <<local, listed>>
    BY <1>10, Frames DEF RedisExpires, LoadFilter, cacheVars, startVars
  <1> QED
    BY <1>1, <1>2, <1>3, <1>4, <1>6, <1>7, <1>8, <1>9, <1>10 DEF Next, Starting, Mishap

LEMMA ReadersShow ==
    ASSUME IInv, [Next]_vars, NEW v \in Images, NEW r \in Readers, rval'[r] = v
    PROVE  Shown(v) \/ v = row
  <1>0. rval \in [Readers -> Bodies] /\ v # None
    BY TypeParts, Constants DEF ReaderTypes
  <1>1. CASE rval'[r] = rval[r]
    BY <1>1 DEF Shown
  <1>2. ASSUME NEW q \in Readers, NEW image, Hold(q, image), image = v => Shown(v) \/ v = row
        PROVE  Shown(v) \/ v = row
    BY <1>0, <1>1, <1>2 DEF Hold
  <1>3. ASSUME NEW q \in Readers, HitRedis(q) \/ LoadRow(q) \/ FillLocal(q)
        PROVE  Shown(v) \/ v = row
    BY <1>0, <1>2, <1>3 DEF HitRedis, LoadRow, FillLocal, Shown
  <1>4. ASSUME NEW q \in Readers,
               MissLocal(q) \/ MissRedis(q) \/ LoadNothing(q) \/ StoreRedis(q)
        PROVE  UNCHANGED rval
    BY <1>4 DEF MissLocal, MissRedis, LoadNothing, StoreRedis
  <1>5. ASSUME NEW i \in Instances, Stop(i) PROVE rval'[r] = None \/ rval'[r] = rval[r]
    BY <1>0, <1>5 DEF Stop
  <1>6. ASSUME \/ Table \/ Announce \/ AnnounceTwice \/ UNCHANGED vars \/ RedisExpires
               \/ \E b \in Bodies : MessageLost(b) \/ MarkExpires(b)
               \/ \E c \in Consumers : \/ Consuming(c) \/ AttemptFails(c) \/ GiveUp(c)
                                        \/ Redelivered(c)
               \/ \E i \in Instances : LocalExpires(i) \/ Starting(i)
        PROVE  UNCHANGED rval
    BY <1>6, Frames DEF readerVars
  <1> QED
    BY <1>0, <1>1, <1>3, <1>4, <1>5, <1>6 DEF Next, Reading, Mishap

(* Whatever a reader is answered was a row of tb_shop when it entered the  *)
(* caches, and staleness dies out: the caches feed each other only with    *)
(* what they have.                                                         *)
THEOREM StaleShopsDoNotReturn == Spec => OnlyRowsAreShown
  <1>1. IInv /\ [Next]_vars => \A v \in Images : Shown(v)' => Shown(v) \/ v = row
    <2> SUFFICES ASSUME IInv, [Next]_vars, NEW v \in Images, Shown(v)'
                 PROVE  Shown(v) \/ v = row
      OBVIOUS
    <2> QED
      BY RedisShows, InstancesShow, ReadersShow DEF Shown
  <1> QED
    BY <1>1, InductiveInvariant, PTL DEF Spec, OnlyRowsAreShown
=============================================================================
