------------------------------- MODULE Likes -------------------------------
(***************************************************************************)
(* The like button of a blog.  A call reads whether the user likes the     *)
(* blog, toggles the membership in likes:set:biz:b, reads the size of the  *)
(* set, puts it into the sorted set likes:times:type:BLOG and moves the    *)
(* ranking blog:likes by one: five Redis calls with nothing around them.   *)
(* Every instance has a scheduler that pops a batch of counts and writes   *)
(* each to tb_blog.liked.                                                  *)
(***************************************************************************)
EXTENDS Integers, FiniteSets

CONSTANTS Users, Blogs,
          Threads,     \* HTTP threads
          Schedulers,  \* one per instance
          Batch,       \* counts taken by one popMin
          MaxClicks,   \* bound on the calls of one behaviour
          MaxFaults,   \* bound on its crashes and Redis errors
          None         \* no call

ASSUME LikesAssumption ==
    /\ IsFiniteSet(Threads)
    /\ IsFiniteSet(Schedulers)
    /\ Batch \in Nat \ {0}
    /\ MaxClicks \in Nat
    /\ MaxFaults \in Nat
    /\ None \notin [user : Users, blog : Blogs, liked : BOOLEAN]

VARIABLES
    likes,   \* likes[b]: the Redis set of users
    times,   \* times[b]: the count waiting for the scheduler
    rank,    \* rank[b]: score of b in blog:likes
    stored,  \* stored[b]: tb_blog.liked
    pc,      \* progress of a thread
    call,    \* call[t]: user, blog and the argument liked of addLikeRecord
    size,    \* size[t]: likedTimes, as the thread read it
    batch,   \* batch[s][b]: a count popped and not yet written
    clicks, faults

vars == <<likes, times, rank, stored, pc, call, size, batch, clicks, faults>>

Absent == -1

Calls == [user : Users, blog : Blogs, liked : BOOLEAN]

ThreadStates == {"idle", "asked", "toggled", "sized", "counted"}

NoBatch == [b \in Blogs |-> Absent]

Init ==
    /\ likes = [b \in Blogs |-> {}]
    /\ times = [b \in Blogs |-> Absent]
    /\ rank = [b \in Blogs |-> 0]
    /\ stored = [b \in Blogs |-> 0]
    /\ pc = [t \in Threads |-> "idle"]
    /\ call = [t \in Threads |-> None]
    /\ size = [t \in Threads |-> 0]
    /\ batch = [s \in Schedulers |-> NoBatch]
    /\ clicks = MaxClicks
    /\ faults = MaxFaults

Fault == faults > 0 /\ faults' = faults - 1

-----------------------------------------------------------------------------
(* BlogController.likeBlog and LikedRecordServiceImpl.addLikeRecord.       *)

Goto(t, l) == pc' = [pc EXCEPT ![t] = l]

Hangup(t) ==
    /\ Goto(t, "idle")
    /\ call' = [call EXCEPT ![t] = None]

\* isMember: the argument of addLikeRecord is decided here.
Ask(t, u, b) ==
    /\ pc[t] = "idle"
    /\ clicks > 0
    /\ clicks' = clicks - 1
    /\ call' = [call EXCEPT ![t] = [user |-> u, blog |-> b, liked |-> u \notin likes[b]]]
    /\ Goto(t, "asked")
    /\ UNCHANGED <<likes, times, rank, stored, size, batch, faults>>

Liking(c) == c.user \in likes[c.blog]

\* Faulty variant: the result of SADD and SREM is not looked at.
ChangesUnchecked(c) == TRUE

\* SADD and SREM answer how many members they changed.
Changes(c) == Liking(c) # c.liked

\* Faulty variant: the size is read before the set is changed.
ToggleKnowing(t) ==
    /\ pc[t] = "asked"
    /\ Changes(call[t])
    /\ LET c == call[t]
       IN  /\ size' = [size EXCEPT ![t] = Cardinality(likes[c.blog])]
           /\ likes' = [likes EXCEPT ![c.blog] = IF c.liked THEN @ \union {c.user}
                                                             ELSE @ \ {c.user}]
    /\ Goto(t, "sized")
    /\ UNCHANGED <<times, rank, stored, call, batch, clicks, faults>>

Toggle(t) ==
    /\ pc[t] = "asked"
    /\ Changes(call[t])
    /\ LET c == call[t]
       IN  likes' = [likes EXCEPT ![c.blog] = IF c.liked THEN @ \union {c.user}
                                                         ELSE @ \ {c.user}]
    /\ Goto(t, "toggled")
    /\ UNCHANGED <<times, rank, stored, call, size, batch, clicks, faults>>

\* Faulty variant: the call returns and the thread keeps its argument.
ReturnUnchangedBusy(t) ==
    /\ pc[t] = "asked"
    /\ ~ Changes(call[t])
    /\ Goto(t, "idle")
    /\ UNCHANGED <<likes, times, rank, stored, call, size, batch, clicks, faults>>

\* Another call of the same user was faster: the result is 0.
ReturnUnchanged(t) ==
    /\ pc[t] = "asked"
    /\ ~ Changes(call[t])
    /\ Hangup(t)
    /\ UNCHANGED <<likes, times, rank, stored, size, batch, clicks, faults>>

ReadSize(t) ==
    /\ pc[t] = "toggled"
    /\ size' = [size EXCEPT ![t] = Cardinality(likes[call[t].blog])]
    /\ Goto(t, "sized")
    /\ UNCHANGED <<likes, times, rank, stored, call, batch, clicks, faults>>

\* Faulty variant: ZADD NX, an older count that waits is kept.
WriteTimesOnce(t) ==
    /\ pc[t] = "sized"
    /\ times' = [times EXCEPT ![call[t].blog] = IF @ = Absent THEN size[t] ELSE @]
    /\ Goto(t, "counted")
    /\ UNCHANGED <<likes, rank, stored, call, size, batch, clicks, faults>>

WriteTimes(t) ==
    /\ pc[t] = "sized"
    /\ times' = [times EXCEPT ![call[t].blog] = size[t]]
    /\ Goto(t, "counted")
    /\ UNCHANGED <<likes, rank, stored, call, size, batch, clicks, faults>>

BumpRank(t) ==
    /\ pc[t] = "counted"
    /\ rank' = [rank EXCEPT ![call[t].blog] = IF call[t].liked THEN @ + 1 ELSE @ - 1]
    /\ Hangup(t)
    /\ UNCHANGED <<likes, times, stored, size, batch, clicks, faults>>

\* A Redis error or a crash ends the call where it stands.
CallDies(t) ==
    /\ pc[t] # "idle"
    /\ Fault
    /\ Hangup(t)
    /\ UNCHANGED <<likes, times, rank, stored, size, batch, clicks>>

-----------------------------------------------------------------------------
(* LikedRecordServiceImpl.syncLikedTimes.                                  *)

Waiting == {b \in Blogs : times[b] # Absent}

\* A result of ZPOPMIN: the lowest counts, ties in any order.
Lowest(S) ==
    /\ S # {}
    /\ Cardinality(S) <= Batch
    /\ S = Waiting \/ Cardinality(S) = Batch
    /\ \A b \in S, d \in Waiting \ S : times[b] <= times[d]

Pop(s) ==
    /\ batch[s] = NoBatch
    /\ \E S \in SUBSET Waiting :
        /\ Lowest(S)
        /\ batch' = [batch EXCEPT ![s] = [b \in Blogs |-> IF b \in S THEN times[b] ELSE Absent]]
        /\ times' = [b \in Blogs |-> IF b \in S THEN Absent ELSE times[b]]
    /\ UNCHANGED <<likes, rank, stored, pc, call, size, clicks, faults>>

\* updateById, one blog of the batch after the other.
StoreCount(s) ==
    /\ \E b \in Blogs :
        /\ batch[s][b] # Absent
        /\ stored' = [stored EXCEPT ![b] = batch[s][b]]
        /\ batch' = [batch EXCEPT ![s][b] = Absent]
    /\ UNCHANGED <<likes, times, rank, pc, call, size, clicks, faults>>

\* A crash, or an exception of updateById that leaves the loop.
SyncDies(s) ==
    /\ batch[s] # NoBatch
    /\ Fault
    /\ batch' = [batch EXCEPT ![s] = NoBatch]
    /\ UNCHANGED <<likes, times, rank, stored, pc, call, size, clicks>>

-----------------------------------------------------------------------------
Serve(t) == \/ Toggle(t) \/ ReturnUnchanged(t) \/ ReadSize(t)
            \/ WriteTimes(t) \/ BumpRank(t)

Sync(s) == Pop(s) \/ StoreCount(s)

Next ==
    \/ \E t \in Threads : \/ \E u \in Users, b \in Blogs : Ask(t, u, b)
                          \/ Serve(t) \/ CallDies(t)
    \/ \E s \in Schedulers : Sync(s) \/ SyncDies(s)

Spec == Init /\ [][Next]_vars

\* Threads run, and the scheduler comes round every 20 s.
Fairness ==
    /\ \A t \in Threads : WF_vars(Serve(t))
    /\ \A s \in Schedulers : WF_vars(Sync(s))

FairSpec == Spec /\ Fairness

-----------------------------------------------------------------------------
LikesTypeOK ==
    /\ likes \in [Blogs -> SUBSET Users]
    /\ times \in [Blogs -> Nat \union {Absent}]
    /\ rank \in [Blogs -> Int]
    /\ stored \in [Blogs -> Nat]
    /\ pc \in [Threads -> ThreadStates]
    /\ call \in [Threads -> Calls \union {None}]
    /\ \A t \in Threads : call[t] = None <=> pc[t] = "idle"
    /\ size \in [Threads -> Nat]
    /\ batch \in [Schedulers -> [Blogs -> Nat \union {Absent}]]
    /\ clicks \in Nat
    /\ faults \in Nat

\* Calls that have changed the set of b and not yet the ranking.
Behind(b)  == {t \in Threads : /\ pc[t] \in {"toggled", "sized", "counted"}
                               /\ call[t].blog = b}
Rising(b)  == {t \in Behind(b) : call[t].liked}
Falling(b) == {t \in Behind(b) : ~ call[t].liked}

Due(b) == rank[b] + Cardinality(Rising(b)) - Cardinality(Falling(b))

\* The ranking counts every like once, though the membership is tested before
\* it is changed and a user may click on several threads at a time: once the
\* calls under way have moved it, the score of a blog is the number of users
\* who like it, give or take one for each call that died half way.
RankLedger ==
    \A b \in Blogs :
        /\ Due(b) - Cardinality(likes[b]) <= MaxFaults - faults
        /\ Cardinality(likes[b]) - Due(b) <= MaxFaults - faults

\* Two calls have toggled the set of b and not yet written its count, or two
\* schedulers hold a count of b.
Crowded(b) ==
    \/ Cardinality(Behind(b)) > 1
    \/ Cardinality({s \in Schedulers : batch[s][b] # Absent}) > 1

\* The number of users who like b is where it will reach tb_blog.liked: a
\* call has still to read it or holds it; or it is the counter that waits for
\* the scheduler, or a batch with no counter behind it, or stored.
OnItsWay(b) ==
    LET likers == Cardinality(likes[b])
    IN  \/ \E t \in Behind(b) : \/ pc[t] = "toggled"
                                \/ pc[t] = "sized" /\ size[t] = likers
        \/ /\ \A t \in Behind(b) : pc[t] = "counted"
           /\ \/ times[b] = likers
              \/ times[b] = Absent /\ \E s \in Schedulers : batch[s][b] = likers
              \/ /\ times[b] = Absent
                 /\ \A s \in Schedulers : batch[s][b] = Absent
                 /\ stored[b] = likers

\* The newest count of a blog is neither lost nor overtaken by an older one
\* on the way from the set over the counter and the batch to the row: no step
\* short of a crash does that if one call and one scheduler at most are at
\* the blog, wherever the pop falls between the steps of the call.
NewestCountKept ==
    [][\A b \in Blogs :
        OnItsWay(b) /\ ~ Crowded(b) /\ faults' = faults => OnItsWay(b)']_vars

\* tb_blog.liked becomes the number of likes and stays so once the clicks
\* stop, if no call or scheduler died and no two of them overlapped on the
\* blog: the pops and writes of the scheduler between the steps of a call
\* lose nothing.  Overlapping calls do: the size a call writes may be older
\* than the one it overwrites.
CountSettles ==
    \A b \in Blogs :
        [](~ Crowded(b) /\ faults = MaxFaults) => <>[](stored[b] = Cardinality(likes[b]))
=============================================================================
