-------------------------------- MODULE Feed --------------------------------
(***************************************************************************)
(* Following and publishing.  FollowServiceImpl.follow changes tb_follow   *)
(* and then the Redis set follows:u; isFollow and the fan-out read the     *)
(* table, followCommons reads the set.  BlogServiceImpl.saveBlog inserts   *)
(* the blog, lists the author's followers and puts the blog into the       *)
(* inbox feed:u of each, one Redis call after the other.  Scores of an     *)
(* inbox are left out: queryBlogOfFollow, their only reader, changes       *)
(* nothing.                                                                *)
(***************************************************************************)
EXTENDS Integers, FiniteSets

CONSTANTS Users, Authors, Blogs,
          Author,    \* Author[b]: who writes b
          Threads,   \* HTTP threads
          MaxCalls,  \* bound on the follow calls of a behaviour
          MaxFaults, \* bound on its crashes and Redis errors
          None       \* no request

Pairs    == Users \X Authors
Requests == [kind : {"follow", "unfollow"}, pair : Pairs] \union
            [kind : {"publish"}, blog : Blogs]

ASSUME FeedAssumption ==
    /\ Author \in [Blogs -> Authors]
    /\ MaxCalls \in Nat
    /\ MaxFaults \in Nat
    /\ None \notin Requests

VARIABLES
    rows,    \* rows[u, a]: rows of tb_follow, which has no unique key
    follows, \* follows[u]: the Redis set
    saved,   \* blogs with a row in tb_blog
    inbox,   \* inbox[u]: members of feed:u
    pc, req, \* progress and request of a thread
    todo,    \* todo[t]: followers the fan-out has still to reach
    sound,   \* history: pairs whose calls have neither overlapped nor died
             \* since both stores were last written together
    steady,  \* history: steady[b]: who has followed since before b was saved
    calls, faults

storeVars == <<rows, follows>>
blogVars  == <<saved, inbox, steady>>
vars == <<storeVars, blogVars, pc, req, todo, sound, calls, faults>>

Places   == {"idle", "follow", "written", "unfollow", "removed", "publish",
             "listing", "pushing"}

Init ==
    /\ rows = [p \in Pairs |-> 0]
    /\ follows = [u \in Users |-> {}]
    /\ saved = {}
    /\ inbox = [u \in Users |-> {}]
    /\ pc = [t \in Threads |-> "idle"]
    /\ req = [t \in Threads |-> None]
    /\ todo = [t \in Threads |-> {}]
    /\ sound = Pairs
    /\ steady = [b \in Blogs |-> {}]
    /\ calls = MaxCalls
    /\ faults = MaxFaults

Goto(t, l) == pc' = [pc EXCEPT ![t] = l]

Finish(t) ==
    /\ Goto(t, "idle")
    /\ req' = [req EXCEPT ![t] = None]

FollowStates == {"follow", "written", "unfollow", "removed"}
Handling(p)  == {t \in Threads : pc[t] \in FollowStates /\ req[t].pair = p}
Followers(a) == {u \in Users : rows[u, a] > 0}

-----------------------------------------------------------------------------
(* FollowServiceImpl.follow.                                               *)

Receive(t, kind, p) ==
    /\ pc[t] = "idle"
    /\ calls > 0
    /\ calls' = calls - 1
    /\ req' = [req EXCEPT ![t] = [kind |-> kind, pair |-> p]]
    /\ Goto(t, kind)
    /\ sound' = IF Handling(p) = {} THEN sound ELSE sound \ {p}
    /\ UNCHANGED <<storeVars, blogVars, todo, faults>>

SaveRow(t) ==
    /\ pc[t] = "follow"
    /\ rows' = [rows EXCEPT ![req[t].pair] = @ + 1]
    /\ Goto(t, "written")
    /\ UNCHANGED <<follows, blogVars, req, todo, sound, calls, faults>>

\* SADD.  A call that had the pair to itself leaves both stores right, also
\* when they had differed.
AddMember(t) ==
    /\ pc[t] = "written"
    /\ LET p == req[t].pair
       IN  /\ follows' = [follows EXCEPT ![p[1]] = @ \union {p[2]}]
           /\ sound' = IF Handling(p) = {t} /\ rows[p] > 0 THEN sound \union {p} ELSE sound
    /\ Finish(t)
    /\ UNCHANGED <<rows, blogVars, todo, calls, faults>>

\* Faulty variant: removeById semantics, one of several rows is deleted.
RemoveOneRow(t) ==
    /\ pc[t] = "unfollow"
    /\ LET p == req[t].pair
       IN  /\ rows[p] > 0
           /\ rows' = [rows EXCEPT ![p] = @ - 1]
           /\ steady' = [b \in Blogs |-> IF Author[b] = p[2] THEN steady[b] \ {p[1]}
                                                            ELSE steady[b]]
    /\ Goto(t, "removed")
    /\ UNCHANGED <<follows, saved, inbox, req, todo, sound, calls, faults>>

\* DELETE of all rows of the pair.
RemoveRows(t) ==
    /\ pc[t] = "unfollow"
    /\ LET p == req[t].pair
       IN  /\ rows[p] > 0
           /\ rows' = [rows EXCEPT ![p] = 0]
           /\ steady' = [b \in Blogs |-> IF Author[b] = p[2] THEN steady[b] \ {p[1]}
                                                            ELSE steady[b]]
    /\ Goto(t, "removed")
    /\ UNCHANGED <<follows, saved, inbox, req, todo, sound, calls, faults>>

\* No row was deleted: the set is not touched.
RemoveNothing(t) ==
    /\ pc[t] = "unfollow"
    /\ rows[req[t].pair] = 0
    /\ Finish(t)
    /\ UNCHANGED <<storeVars, blogVars, todo, sound, calls, faults>>

RemoveMember(t) ==
    /\ pc[t] = "removed"
    /\ LET p == req[t].pair
       IN  follows' = [follows EXCEPT ![p[1]] = @ \ {p[2]}]
    /\ Finish(t)
    /\ UNCHANGED <<rows, blogVars, todo, sound, calls, faults>>

-----------------------------------------------------------------------------
(* BlogServiceImpl.saveBlog.                                               *)

\* Faulty variant: the followers are listed before the blog is saved.
PublishUnsaved(t, b) ==
    /\ pc[t] = "idle"
    /\ b \notin saved
    /\ \A s \in Threads : req[s] # [kind |-> "publish", blog |-> b]
    /\ req' = [req EXCEPT ![t] = [kind |-> "publish", blog |-> b]]
    /\ Goto(t, "listing")
    /\ UNCHANGED <<storeVars, blogVars, todo, sound, calls, faults>>

\* Every call inserts a row of its own.
Publish(t, b) ==
    /\ pc[t] = "idle"
    /\ b \notin saved
    /\ \A s \in Threads : req[s] # [kind |-> "publish", blog |-> b]
    /\ req' = [req EXCEPT ![t] = [kind |-> "publish", blog |-> b]]
    /\ Goto(t, "publish")
    /\ UNCHANGED <<storeVars, blogVars, todo, sound, calls, faults>>

SaveBlog(t) ==
    /\ pc[t] = "publish"
    /\ LET b == req[t].blog
       IN  /\ saved' = saved \union {b}
           /\ steady' = [steady EXCEPT ![b] = Followers(Author[b])]
    /\ Goto(t, "listing")
    /\ UNCHANGED <<storeVars, inbox, req, todo, sound, calls, faults>>

\* Faulty variant: the list is taken from the Redis sets.
ListFromRedis(t) ==
    /\ pc[t] = "listing"
    /\ todo' = [todo EXCEPT ![t] = {u \in Users : Author[req[t].blog] \in follows[u]}]
    /\ Goto(t, "pushing")
    /\ UNCHANGED <<storeVars, blogVars, req, sound, calls, faults>>

ListFollowers(t) ==
    /\ pc[t] = "listing"
    /\ todo' = [todo EXCEPT ![t] = Followers(Author[req[t].blog])]
    /\ Goto(t, "pushing")
    /\ UNCHANGED <<storeVars, blogVars, req, sound, calls, faults>>

\* ZADD; a follower with two rows is pushed to twice.
Push(t) ==
    /\ pc[t] = "pushing"
    /\ \E u \in todo[t] :
        /\ inbox' = [inbox EXCEPT ![u] = @ \union {req[t].blog}]
        /\ todo' = [todo EXCEPT ![t] = @ \ {u}]
    /\ UNCHANGED <<storeVars, saved, steady, pc, req, sound, calls, faults>>

EndPublish(t) ==
    /\ pc[t] = "pushing"
    /\ todo[t] = {}
    /\ Finish(t)
    /\ UNCHANGED <<storeVars, blogVars, todo, sound, calls, faults>>

-----------------------------------------------------------------------------
\* A Redis or database error, or a crash, ends a call where it stands.
CallDies(t) ==
    /\ pc[t] # "idle"
    /\ faults > 0
    /\ faults' = faults - 1
    /\ sound' = IF pc[t] \in {"written", "removed"} THEN sound \ {req[t].pair} ELSE sound
    /\ steady' = IF pc[t] \in {"listing", "pushing"}
                 THEN [steady EXCEPT ![req[t].blog] = {}] ELSE steady
    /\ todo' = [todo EXCEPT ![t] = {}]
    /\ Finish(t)
    /\ UNCHANGED <<storeVars, saved, inbox, calls>>

Follow(t) == \/ SaveRow(t) \/ AddMember(t) \/ RemoveRows(t)
             \/ RemoveNothing(t) \/ RemoveMember(t)

FanOut(t) == SaveBlog(t) \/ ListFollowers(t) \/ Push(t) \/ EndPublish(t)

Next ==
    \E t \in Threads :
        \/ \E kind \in {"follow", "unfollow"}, p \in Pairs : Receive(t, kind, p)
        \/ \E b \in Blogs : Publish(t, b)
        \/ Follow(t) \/ FanOut(t) \/ CallDies(t)

Spec == Init /\ [][Next]_vars

Fairness == \A t \in Threads : WF_vars(Follow(t) \/ FanOut(t))

FairSpec == Spec /\ Fairness

-----------------------------------------------------------------------------
FeedTypeOK ==
    /\ rows \in [Pairs -> Nat]
    /\ follows \in [Users -> SUBSET Authors]
    /\ saved \subseteq Blogs
    /\ inbox \in [Users -> SUBSET saved]
    /\ pc \in [Threads -> Places]
    /\ req \in [Threads -> Requests \union {None}]
    /\ \A t \in Threads : req[t] = None <=> pc[t] = "idle"
    /\ todo \in [Threads -> SUBSET Users]
    /\ sound \subseteq Pairs
    /\ steady \in [Blogs -> SUBSET Users]
    /\ calls \in Nat
    /\ faults \in Nat

\* isFollow and followCommons agree about a pair nobody is working on, though
\* a follow may have been repeated and left several rows, if no two calls for
\* the pair overlapped and none died between its two writes since the last
\* follow that went well alone: that call, and no unfollow, repairs a
\* difference.
StoresAgree ==
    \A p \in sound :
        Handling(p) = {} => (rows[p] > 0 <=> p[2] \in follows[p[1]])

Publishing(b) == \E t \in Threads : req[t] = [kind |-> "publish", blog |-> b]

\* Whoever follows the author from before the blog is saved until the
\* publication ends has the blog in the inbox, whatever others do to the
\* table in the meantime.
SteadyFollowersServed ==
    \A b \in saved :
        ~ Publishing(b) => \A u \in steady[b] : b \in inbox[u]

\* A saved blog is in the inbox of a follower in the end, or the follower has
\* left, or the publication died.
SavedIsServed ==
    \A b \in Blogs, u \in Users :
        (b \in saved /\ u \in steady[b]) ~> (b \in inbox[u] \/ u \notin steady[b])
=============================================================================
