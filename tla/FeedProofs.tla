----------------------------- MODULE FeedProofs -----------------------------
(***************************************************************************)
(* Theorems about following and publishing, for any sets of users,         *)
(* authors, blogs and threads and any number of calls and faults.          *)
(*                                                                         *)
(* The argument.  A pair is called sound only while at most one call works *)
(* on it, so between the two writes of that call the table says which way  *)
(* the set will go (OneHandler).  A blog has one publication, which lists  *)
(* the followers after the insert: every steady follower is on its list or *)
(* already served (Delivery), and the list is used up before it ends.      *)
(***************************************************************************)
EXTENDS Feed, TLAPS

PublishStates == {"publish", "listing", "pushing"}

\* What a thread works on fits the place it has reached.
Kinded ==
    \A t \in Threads :
        /\ pc[t] \in FollowStates => req[t] \in [kind : {"follow", "unfollow"}, pair : Pairs]
        /\ pc[t] \in PublishStates => req[t] \in [kind : {"publish"}, blog : Blogs]

OneHandler ==
    \A p \in sound :
        /\ \A s, t \in Handling(p) : s = t
        /\ (\A t \in Handling(p) : pc[t] \in {"follow", "unfollow"}) =>
               (rows[p] > 0 <=> p[2] \in follows[p[1]])
        /\ \A t \in Handling(p) : /\ pc[t] = "written" => rows[p] > 0
                                  /\ pc[t] = "removed" => rows[p] = 0

Publishes(t, b) == pc[t] \in PublishStates /\ req[t].blog = b

Delivery ==
    /\ \A b \in Blogs : \A s, t \in Threads : Publishes(s, b) /\ Publishes(t, b) => s = t
    /\ \A b \in Blogs : steady[b] \subseteq Followers(Author[b])
    /\ \A t \in Threads, b \in Blogs : Publishes(t, b) =>
           /\ pc[t] = "publish" => b \notin saved
           /\ pc[t] \in {"listing", "pushing"} => b \in saved
           /\ pc[t] = "pushing" => \A u \in steady[b] : u \in todo[t] \/ b \in inbox[u]
    /\ \A b \in saved :
           (\A t \in Threads : ~ Publishes(t, b)) => \A u \in steady[b] : b \in inbox[u]

IInv == FeedTypeOK /\ Kinded /\ OneHandler /\ Delivery

-----------------------------------------------------------------------------
LEMMA InitInv == Init => IInv
  <1> SUFFICES ASSUME Init PROVE IInv
    OBVIOUS
  <1>1. FeedTypeOK
    BY FeedAssumption DEF Init, FeedTypeOK, Places, Requests
  <1>2. Kinded
    BY DEF Init, Kinded, FollowStates, PublishStates
  <1>3. OneHandler
    <2>1. \A p \in sound : rows[p] = 0 /\ Handling(p) = {} /\ follows[p[1]] = {}
      BY DEF Init, Handling, FollowStates, Pairs
    <2> QED
      BY <2>1 DEF OneHandler
  <1>4. Delivery
    BY DEF Init, Delivery, Publishes, PublishStates
  <1> QED
    BY <1>1, <1>2, <1>3, <1>4 DEF IInv

(* The pair of a follow call and the blog of a publication.                *)
LEMMA RequestParts ==
    ASSUME IInv, NEW t \in Threads
    PROVE  /\ pc[t] \in FollowStates =>
                /\ req[t].pair \in Pairs
                /\ req[t].pair[1] \in Users /\ req[t].pair[2] \in Authors
           /\ pc[t] \in PublishStates => req[t].blog \in Blogs
  BY DEF IInv, Kinded, Pairs

-----------------------------------------------------------------------------
(* Types.                                                                  *)
LEMMA TypeStep == IInv /\ [Next]_vars => FeedTypeOK' /\ Kinded'
  <1> SUFFICES ASSUME IInv, [Next]_vars PROVE FeedTypeOK' /\ Kinded'
    OBVIOUS
  <1> USE DEF IInv, FeedTypeOK, Kinded, Places, FollowStates, PublishStates, Goto, Finish,
              storeVars, blogVars
  <1>1. ASSUME NEW t \in Threads, NEW kind \in {"follow", "unfollow"}, NEW p \in Pairs,
               Receive(t, kind, p)
        PROVE  FeedTypeOK' /\ Kinded'
    <2> DEFINE r == [kind |-> kind, pair |-> p]
    <2>1. r \in [kind : {"follow", "unfollow"}, pair : Pairs] /\ r \in Requests /\ r # None
      BY FeedAssumption DEF Requests
    <2>2. calls' \in Nat /\ sound' \subseteq Pairs
      BY <1>1 DEF Receive
    <2> QED
      BY <1>1, <2>1, <2>2 DEF Receive
  <1>2. ASSUME NEW t \in Threads, SaveRow(t)
        PROVE  FeedTypeOK' /\ Kinded'
    BY <1>2, RequestParts DEF SaveRow
  <1>3. ASSUME NEW t \in Threads, AddMember(t)
        PROVE  FeedTypeOK' /\ Kinded'
    <2>1. req[t].pair \in Pairs /\ req[t].pair[1] \in Users /\ req[t].pair[2] \in Authors
      BY <1>3, RequestParts DEF AddMember
    <2> QED
      BY <1>3, <2>1 DEF AddMember
  <1>4. ASSUME NEW t \in Threads, RemoveRows(t)
        PROVE  FeedTypeOK' /\ Kinded'
    BY <1>4, RequestParts DEF RemoveRows
  <1>5. ASSUME NEW t \in Threads, RemoveNothing(t)
        PROVE  FeedTypeOK' /\ Kinded'
    BY <1>5 DEF RemoveNothing
  <1>6. ASSUME NEW t \in Threads, RemoveMember(t)
        PROVE  FeedTypeOK' /\ Kinded'
    BY <1>6 DEF RemoveMember
  <1>7. ASSUME NEW t \in Threads, NEW b \in Blogs, Publish(t, b)
        PROVE  FeedTypeOK' /\ Kinded'
    <2> DEFINE r == [kind |-> "publish", blog |-> b]
    <2>1. r \in [kind : {"publish"}, blog : Blogs] /\ r \in Requests /\ r # None
      BY FeedAssumption DEF Requests
    <2> QED
      BY <1>7, <2>1 DEF Publish
  <1>8. ASSUME NEW t \in Threads, SaveBlog(t)
        PROVE  FeedTypeOK' /\ Kinded'
    <2>1. req[t].blog \in Blogs
      BY <1>8, RequestParts DEF SaveBlog
    <2> QED
      BY <1>8, <2>1 DEF SaveBlog, Followers
  <1>9. ASSUME NEW t \in Threads, ListFollowers(t)
        PROVE  FeedTypeOK' /\ Kinded'
    BY <1>9 DEF ListFollowers, Followers
  <1>10. ASSUME NEW t \in Threads, Push(t)
         PROVE  FeedTypeOK' /\ Kinded'
    <2>1. req[t].blog \in saved
      BY <1>10, RequestParts DEF Push, Delivery, Publishes
    <2> QED
      BY <1>10, <2>1 DEF Push
  <1>11. ASSUME NEW t \in Threads, EndPublish(t)
         PROVE  FeedTypeOK' /\ Kinded'
    BY <1>11 DEF EndPublish
  <1>12. ASSUME NEW t \in Threads, CallDies(t)
         PROVE  FeedTypeOK' /\ Kinded'
    BY <1>12 DEF CallDies
  <1>13. CASE UNCHANGED vars
    BY <1>13 DEF vars
  <1> QED
    BY <1>1, <1>2, <1>3, <1>4, <1>5, <1>6, <1>7, <1>8, <1>9, <1>10, <1>11, <1>12, <1>13
       DEF Next, Follow, FanOut

-----------------------------------------------------------------------------
(* The two stores.                                                         *)

(* Calls for other pairs, and publications, change nothing about a pair    *)
(* that is sound; a call that does not touch p keeps its handlers.         *)
LEMMA HandlingFrame ==
    ASSUME IInv, NEW t \in Threads, NEW p \in Pairs,
           pc' = [pc EXCEPT ![t] = pc'[t]], req' = [req EXCEPT ![t] = req'[t]],
           ~ (pc[t] \in FollowStates /\ req[t].pair = p),
           ~ (pc'[t] \in FollowStates /\ req'[t].pair = p)
    PROVE  /\ Handling(p)' = Handling(p)
           /\ t \notin Handling(p)
           /\ \A s \in Handling(p) : pc'[s] = pc[s]
  BY DEF Handling, IInv, FeedTypeOK

LEMMA HandlingEnds ==
    ASSUME IInv, NEW t \in Threads, NEW p \in Pairs, Finish(t)
    PROVE  /\ Handling(p)' = Handling(p) \ {t}
           /\ \A s \in Handling(p)' : pc'[s] = pc[s]
  BY DEF Handling, Finish, Goto, FollowStates, IInv, FeedTypeOK

LEMMA HandlingMoves ==
    ASSUME IInv, NEW t \in Threads, NEW p \in Pairs, pc[t] \in FollowStates, req' = req,
           NEW l \in FollowStates, Goto(t, l)
    PROVE  /\ Handling(p)' = Handling(p)
           /\ \A s \in Handling(p) : pc'[s] = IF s = t THEN l ELSE pc[s]
  BY DEF Handling, Goto, IInv, FeedTypeOK

LEMMA OneHandlerStep == IInv /\ [Next]_vars => OneHandler'
  <1> SUFFICES ASSUME IInv, [Next]_vars, NEW p \in sound'
               PROVE  /\ \A s, t \in Handling(p)' : s = t
                      /\ (\A t \in Handling(p)' : pc'[t] \in {"follow", "unfollow"}) =>
                             (rows'[p] > 0 <=> p[2] \in follows'[p[1]])
                      /\ \A t \in Handling(p)' : /\ pc'[t] = "written" => rows'[p] > 0
                                                 /\ pc'[t] = "removed" => rows'[p] = 0
    BY DEF OneHandler
  <1> DEFINE Good == /\ \A s, t \in Handling(p)' : s = t
                     /\ (\A t \in Handling(p)' : pc'[t] \in {"follow", "unfollow"}) =>
                            (rows'[p] > 0 <=> p[2] \in follows'[p[1]])
                     /\ \A t \in Handling(p)' : /\ pc'[t] = "written" => rows'[p] > 0
                                                /\ pc'[t] = "removed" => rows'[p] = 0
  <1>0. p \in Pairs /\ p[1] \in Users /\ p[2] \in Authors /\ rows[p] \in Nat
    BY TypeStep DEF FeedTypeOK, IInv, Pairs
  <1>1. ASSUME NEW t \in Threads, NEW kind \in {"follow", "unfollow"}, NEW q \in Pairs,
               Receive(t, kind, q)
        PROVE  Good
    <2>1. p \in sound /\ (q = p => Handling(p) = {})
      BY <1>1 DEF Receive
    <2>2. UNCHANGED <<rows, follows>>
      BY <1>1 DEF Receive, storeVars
    <2>3. CASE q = p
      <3>1. Handling(p)' = {t} /\ pc'[t] = kind
        BY <1>1, <2>1, <2>3 DEF Receive, Goto, Handling, FollowStates, IInv, FeedTypeOK
      <3>2. rows[p] > 0 <=> p[2] \in follows[p[1]]
        BY <2>1, <2>3 DEF IInv, OneHandler
      <3> QED
        BY <2>2, <3>1, <3>2
    <2>4. CASE q # p
      <3>1. Handling(p)' = Handling(p) /\ \A s \in Handling(p) : pc'[s] = pc[s]
        BY <1>1, <2>4 DEF Receive, Goto, Handling, FollowStates, IInv, FeedTypeOK
      <3> QED
        BY <2>1, <2>2, <3>1 DEF IInv, OneHandler
    <2> QED
      BY <2>3, <2>4
  <1>2. ASSUME NEW t \in Threads, SaveRow(t)
        PROVE  Good
    <2>1. /\ pc[t] = "follow" /\ req' = req /\ follows' = follows /\ sound' = sound
          /\ rows' = [rows EXCEPT ![req[t].pair] = @ + 1]
          /\ Goto(t, "written")
      BY <1>2 DEF SaveRow
    <2>2. /\ Handling(p)' = Handling(p)
          /\ \A s \in Handling(p) : pc'[s] = IF s = t THEN "written" ELSE pc[s]
      BY <1>0, <2>1, HandlingMoves DEF FollowStates
    <2>3. CASE req[t].pair = p
      <3>1. t \in Handling(p) /\ rows'[p] = rows[p] + 1
        BY <1>0, <2>1, <2>3 DEF Handling, FollowStates, IInv, FeedTypeOK
      <3>2. Handling(p) = {t} /\ pc'[t] = "written"
        BY <2>1, <2>2, <3>1 DEF IInv, OneHandler
      <3> QED
        BY <1>0, <2>2, <3>1, <3>2
    <2>4. CASE req[t].pair # p
      <3>1. t \notin Handling(p) /\ rows'[p] = rows[p]
        BY <1>0, <2>1, <2>4 DEF Handling, IInv, FeedTypeOK
      <3> QED
        BY <2>1, <2>2, <3>1 DEF IInv, OneHandler
    <2> QED
      BY <2>3, <2>4
  <1>3. ASSUME NEW t \in Threads, AddMember(t)
        PROVE  Good
    <2> DEFINE q == req[t].pair
    <2>1. /\ pc[t] = "written" /\ rows' = rows /\ Finish(t)
          /\ follows' = [follows EXCEPT ![q[1]] = @ \union {q[2]}]
          /\ sound' = IF Handling(q) = {t} /\ rows[q] > 0 THEN sound \union {q} ELSE sound
      BY <1>3 DEF AddMember
    <2>2. q \in Pairs /\ q[1] \in Users /\ q[2] \in Authors
      BY <2>1, RequestParts DEF FollowStates
    <2>3. Handling(p)' = Handling(p) \ {t} /\ \A s \in Handling(p)' : pc'[s] = pc[s]
      BY <1>0, <2>1, HandlingEnds
    <2>4. CASE q = p
      <3>1. t \in Handling(p)
        BY <2>1, <2>4 DEF Handling, FollowStates
      <3>2. Handling(p) = {t} /\ rows[p] > 0
        BY <2>1, <2>4, <3>1 DEF IInv, OneHandler
      <3>3. p[2] \in follows'[p[1]]
        BY <2>1, <2>2, <2>4 DEF IInv, FeedTypeOK
      <3> QED
        BY <2>1, <2>3, <3>2, <3>3
    <2>5. CASE q # p
      <3>1. t \notin Handling(p) /\ p \in sound
        BY <2>1, <2>5 DEF Handling
      <3>2. p[2] \in follows'[p[1]] <=> p[2] \in follows[p[1]]
        BY <1>0, <2>1, <2>2, <2>5 DEF IInv, FeedTypeOK, Pairs
      <3> QED
        BY <2>1, <2>3, <3>1, <3>2 DEF IInv, OneHandler
    <2> QED
      BY <2>4, <2>5
  <1>4. ASSUME NEW t \in Threads, RemoveRows(t)
        PROVE  Good
    <2>1. /\ pc[t] = "unfollow" /\ req' = req /\ follows' = follows /\ sound' = sound
          /\ rows' = [rows EXCEPT ![req[t].pair] = 0]
          /\ Goto(t, "removed")
      BY <1>4 DEF RemoveRows
    <2>2. /\ Handling(p)' = Handling(p)
          /\ \A s \in Handling(p) : pc'[s] = IF s = t THEN "removed" ELSE pc[s]
      BY <1>0, <2>1, HandlingMoves DEF FollowStates
    <2>3. CASE req[t].pair = p
      <3>1. t \in Handling(p) /\ rows'[p] = 0
        BY <1>0, <2>1, <2>3 DEF Handling, FollowStates, IInv, FeedTypeOK
      <3>2. Handling(p) = {t} /\ pc'[t] = "removed"
        BY <2>1, <2>2, <3>1 DEF IInv, OneHandler
      <3> QED
        BY <1>0, <2>2, <3>1, <3>2
    <2>4. CASE req[t].pair # p
      <3>1. t \notin Handling(p) /\ rows'[p] = rows[p]
        BY <1>0, <2>1, <2>4 DEF Handling, IInv, FeedTypeOK
      <3> QED
        BY <2>1, <2>2, <3>1 DEF IInv, OneHandler
    <2> QED
      BY <2>3, <2>4
  <1>5. ASSUME NEW t \in Threads, RemoveNothing(t)
        PROVE  Good
    <2>1. /\ pc[t] = "unfollow" /\ rows' = rows /\ follows' = follows /\ sound' = sound
          /\ Finish(t)
      BY <1>5 DEF RemoveNothing, storeVars
    <2>2. Handling(p)' = Handling(p) \ {t} /\ \A s \in Handling(p)' : pc'[s] = pc[s]
      BY <1>0, <2>1, HandlingEnds
    <2>3. CASE t \in Handling(p)
      <3>1. Handling(p) = {t}
        BY <2>1, <2>3 DEF IInv, OneHandler
      <3>2. rows[p] > 0 <=> p[2] \in follows[p[1]]
        BY <2>1, <3>1 DEF IInv, OneHandler
      <3> QED
        BY <2>1, <2>2, <3>1, <3>2
    <2>4. CASE t \notin Handling(p)
      BY <2>1, <2>2, <2>4 DEF IInv, OneHandler
    <2> QED
      BY <2>3, <2>4
  <1>6. ASSUME NEW t \in Threads, RemoveMember(t)
        PROVE  Good
    <2> DEFINE q == req[t].pair
    <2>1. /\ pc[t] = "removed" /\ rows' = rows /\ sound' = sound /\ Finish(t)
          /\ follows' = [follows EXCEPT ![q[1]] = @ \ {q[2]}]
      BY <1>6 DEF RemoveMember
    <2>2. q \in Pairs /\ q[1] \in Users /\ q[2] \in Authors
      BY <2>1, RequestParts DEF FollowStates
    <2>3. Handling(p)' = Handling(p) \ {t} /\ \A s \in Handling(p)' : pc'[s] = pc[s]
      BY <1>0, <2>1, HandlingEnds
    <2>4. CASE q = p
      <3>1. t \in Handling(p)
        BY <2>1, <2>4 DEF Handling, FollowStates
      <3>2. Handling(p) = {t} /\ rows[p] = 0
        BY <2>1, <2>4, <3>1 DEF IInv, OneHandler
      <3>3. p[2] \notin follows'[p[1]]
        BY <2>1, <2>2, <2>4 DEF IInv, FeedTypeOK
      <3> QED
        BY <2>1, <2>3, <3>2, <3>3
    <2>5. CASE q # p
      <3>1. t \notin Handling(p)
        BY <2>1, <2>5 DEF Handling
      <3>2. p[2] \in follows'[p[1]] <=> p[2] \in follows[p[1]]
        BY <1>0, <2>1, <2>2, <2>5 DEF IInv, FeedTypeOK, Pairs
      <3> QED
        BY <2>1, <2>3, <3>1, <3>2 DEF IInv, OneHandler
    <2> QED
      BY <2>4, <2>5
  <1>7. ASSUME NEW t \in Threads,
               \/ \E b \in Blogs : Publish(t, b)
               \/ SaveBlog(t) \/ ListFollowers(t) \/ Push(t) \/ EndPublish(t)
        PROVE  Good
    <2>1. /\ UNCHANGED <<rows, follows, sound>>
          /\ pc[t] \notin FollowStates /\ pc'[t] \notin FollowStates
          /\ pc' = [pc EXCEPT ![t] = pc'[t]] /\ req' = [req EXCEPT ![t] = req'[t]]
      BY <1>7 DEF Publish, SaveBlog, ListFollowers, Push, EndPublish, Finish, Goto, storeVars,
                  FollowStates, IInv, FeedTypeOK
    <2>2. Handling(p)' = Handling(p) /\ \A s \in Handling(p) : pc'[s] = pc[s]
      BY <1>0, <2>1, HandlingFrame
    <2> QED
      BY <2>1, <2>2 DEF IInv, OneHandler
  <1>8. ASSUME NEW t \in Threads, CallDies(t)
        PROVE  Good
    <2>1. /\ rows' = rows /\ follows' = follows /\ Finish(t) /\ p \in sound
          /\ pc[t] \in {"written", "removed"} => p # req[t].pair
      BY <1>8 DEF CallDies, storeVars
    <2>2. Handling(p)' = Handling(p) \ {t} /\ \A s \in Handling(p)' : pc'[s] = pc[s]
      BY <1>0, <2>1, HandlingEnds
    <2>3. CASE t \in Handling(p)
      <3>1. Handling(p) = {t} /\ pc[t] \in {"follow", "unfollow"}
        BY <2>1, <2>3 DEF IInv, OneHandler, Handling, FollowStates
      <3>2. rows[p] > 0 <=> p[2] \in follows[p[1]]
        BY <2>1, <3>1 DEF IInv, OneHandler
      <3> QED
        BY <2>1, <2>2, <3>1, <3>2
    <2>4. CASE t \notin Handling(p)
      BY <2>1, <2>2, <2>4 DEF IInv, OneHandler
    <2> QED
      BY <2>3, <2>4
  <1>9. CASE UNCHANGED vars
    BY <1>9 DEF vars, storeVars, IInv, OneHandler, Handling
  <1> QED
    BY <1>1, <1>2, <1>3, <1>4, <1>5, <1>6, <1>7, <1>8, <1>9 DEF Next, Follow, FanOut

-----------------------------------------------------------------------------
(* The inboxes.                                                            *)

(* Calls that publish nothing leave publications alone.                    *)
LEMMA PublishesFrame ==
    ASSUME IInv, NEW t \in Threads,
           pc[t] \notin PublishStates, pc'[t] \notin PublishStates,
           pc' = [pc EXCEPT ![t] = pc'[t]], req' = [req EXCEPT ![t] = req'[t]],
           NEW s \in Threads, NEW b \in Blogs
    PROVE  /\ Publishes(s, b)' <=> Publishes(s, b)
           /\ Publishes(s, b) => pc'[s] = pc[s] /\ s # t
  BY DEF Publishes, IInv, FeedTypeOK

\* What Delivery says of one blog.
Delivered(b) ==
    /\ \A s, t \in Threads : Publishes(s, b) /\ Publishes(t, b) => s = t
    /\ steady[b] \subseteq Followers(Author[b])
    /\ \A t \in Threads : Publishes(t, b) =>
           /\ pc[t] = "publish" => b \notin saved
           /\ pc[t] \in {"listing", "pushing"} => b \in saved
           /\ pc[t] = "pushing" => \A u \in steady[b] : u \in todo[t] \/ b \in inbox[u]
    /\ b \in saved /\ (\A t \in Threads : ~ Publishes(t, b)) =>
           \A u \in steady[b] : b \in inbox[u]

LEMMA DeliveredBlogs ==
    ASSUME FeedTypeOK
    PROVE  Delivery <=> \A b \in Blogs : Delivered(b)
  BY DEF Delivery, Delivered, FeedTypeOK

LEMMA FollowKeepsDelivery ==
    ASSUME IInv, NEW t \in Threads,
           \/ \E kind \in {"follow", "unfollow"}, p \in Pairs : Receive(t, kind, p)
           \/ Follow(t),
           NEW b \in Blogs
    PROVE  Delivered(b)'
  <1> USE DEF IInv
  <1>1. Delivered(b)
    BY DeliveredBlogs
  <1>2. /\ saved' = saved /\ inbox' = inbox /\ todo' = todo
        /\ pc[t] \notin PublishStates /\ pc'[t] \notin PublishStates
        /\ pc' = [pc EXCEPT ![t] = pc'[t]] /\ req' = [req EXCEPT ![t] = req'[t]]
    BY DEF Follow, Receive, SaveRow, AddMember, RemoveRows, RemoveNothing, RemoveMember,
           Finish, Goto, blogVars, PublishStates, FeedTypeOK
  <1>3. \A s \in Threads : /\ Publishes(s, b)' <=> Publishes(s, b)
                           /\ Publishes(s, b) => pc'[s] = pc[s]
    BY <1>2, PublishesFrame
  <1>4. steady'[b] \subseteq steady[b] /\ steady'[b] \subseteq Followers(Author[b])'
    <2>0. Author[b] \in Authors /\ steady[b] \subseteq Users
      BY FeedAssumption DEF FeedTypeOK
    <2>1. CASE RemoveRows(t)
      <3> DEFINE p == req[t].pair
      <3>1. p \in Pairs /\ p = <<p[1], p[2]>> /\ p[1] \in Users /\ p[2] \in Authors
        BY <2>1, RequestParts DEF RemoveRows, FollowStates, Pairs
      <3>2. /\ rows' = [rows EXCEPT ![p] = 0]
            /\ steady'[b] = IF Author[b] = p[2] THEN steady[b] \ {p[1]} ELSE steady[b]
        BY <2>1 DEF RemoveRows
      <3>3. ASSUME NEW u \in steady'[b]
            PROVE  u \in Users /\ rows'[u, Author[b]] > 0
        <4>1. u \in Users /\ u \in steady[b] /\ <<u, Author[b]>> # p
          BY <2>0, <3>1, <3>2, <3>3
        <4>2. rows[u, Author[b]] > 0
          BY <1>1, <4>1 DEF Delivered, Followers
        <4>3. <<u, Author[b]>> \in Pairs
          BY <2>0, <4>1 DEF Pairs
        <4> QED
          BY <3>2, <4>1, <4>2, <4>3 DEF FeedTypeOK
      <3> QED
        BY <2>0, <3>2, <3>3 DEF Followers
    <2>2. CASE SaveRow(t)
      <3> DEFINE p == req[t].pair
      <3>1. p \in Pairs /\ rows' = [rows EXCEPT ![p] = @ + 1] /\ steady' = steady
        BY <2>2, RequestParts DEF SaveRow, FollowStates, blogVars
      <3>2. \A q \in Pairs : rows[q] > 0 => rows'[q] > 0
        BY <3>1 DEF FeedTypeOK
      <3>3. \A u \in Users : <<u, Author[b]>> \in Pairs
        BY <2>0 DEF Pairs
      <3> QED
        BY <1>1, <3>1, <3>2, <3>3 DEF Delivered, Followers
    <2>3. CASE rows' = rows /\ steady' = steady
      BY <1>1, <2>3 DEF Delivered, Followers
    <2> QED
      BY <2>1, <2>2, <2>3
         DEF Follow, Receive, AddMember, RemoveNothing, RemoveMember, storeVars, blogVars
  <1> QED
    BY <1>1, <1>2, <1>3, <1>4 DEF Delivered

LEMMA FanOutKeepsDelivery ==
    ASSUME IInv, FeedTypeOK', NEW t \in Threads,
           \/ \E d \in Blogs : Publish(t, d)
           \/ FanOut(t) \/ CallDies(t),
           NEW b \in Blogs
    PROVE  Delivered(b)'
  <1> USE DEF IInv
  <1>1. Delivered(b)
    BY DeliveredBlogs
  <1>2. ASSUME NEW d \in Blogs, Publish(t, d)
        PROVE  Delivered(b)'
    <2>1. UNCHANGED <<rows, saved, inbox, steady, todo>>
      BY <1>2 DEF Publish, storeVars, blogVars
    <2>2. /\ pc[t] = "idle" /\ pc'[t] = "publish" /\ req'[t] = [kind |-> "publish", blog |-> d]
          /\ \A s \in Threads : s # t => pc'[s] = pc[s] /\ req'[s] = req[s]
          /\ d \notin saved
          /\ \A s \in Threads : req[s] # [kind |-> "publish", blog |-> d]
      BY <1>2 DEF Publish, Goto, FeedTypeOK
    <2>3. \A s \in Threads : ~ Publishes(s, d)
      <3> SUFFICES ASSUME NEW s \in Threads, Publishes(s, d) PROVE FALSE
        OBVIOUS
      <3>1. req[s] \in [kind : {"publish"}, blog : Blogs] /\ req[s].blog = d
        BY DEF Publishes, Kinded
      <3>2. req[s] = [kind |-> "publish", blog |-> d]
        BY <3>1
      <3> QED
        BY <2>2, <3>2
    <2>4. \A s \in Threads : s # t => (Publishes(s, b)' <=> Publishes(s, b))
      BY <2>2 DEF Publishes
    <2>5. ~ Publishes(t, b) /\ (Publishes(t, b)' <=> b = d)
      BY <2>2 DEF Publishes, PublishStates
    <2>6. CASE b = d
      BY <1>1, <2>1, <2>2, <2>3, <2>4, <2>5, <2>6 DEF Delivered, Followers
    <2>7. CASE b # d
      BY <1>1, <2>1, <2>2, <2>4, <2>5, <2>7 DEF Delivered, Followers
    <2> QED
      BY <2>6, <2>7
  <1>3. ASSUME SaveBlog(t) \/ ListFollowers(t) \/ Push(t)
        PROVE  Delivered(b)'
    <2> DEFINE d == req[t].blog
    <2>1. /\ pc[t] \in PublishStates /\ pc'[t] \in {"listing", "pushing"} /\ req' = req
          /\ \A s \in Threads : s # t => pc'[s] = pc[s]
          /\ rows' = rows
      BY <1>3 DEF SaveBlog, ListFollowers, Push, Goto, PublishStates, storeVars, FeedTypeOK
    <2>2. \A s \in Threads : Publishes(s, b)' <=> Publishes(s, b)
      BY <2>1 DEF Publishes, PublishStates
    <2>3. d \in Blogs
      BY <2>1, RequestParts
    <2>4. CASE b # d
      <3>1. /\ b \in saved' <=> b \in saved
            /\ steady'[b] = steady[b]
            /\ \A u \in Users : b \in inbox'[u] <=> b \in inbox[u]
            /\ \A s \in Threads : s # t => todo'[s] = todo[s]
        BY <1>3, <2>3, <2>4 DEF SaveBlog, ListFollowers, Push, blogVars, FeedTypeOK
      <3>2. ~ Publishes(t, b)
        BY <2>4 DEF Publishes
      <3>3. steady[b] \subseteq Users
        BY DEF FeedTypeOK
      <3> QED
        BY <1>1, <2>1, <2>2, <3>1, <3>2, <3>3 DEF Delivered, Followers
    <2>5. CASE b = d
      <3>1. Publishes(t, b) /\ \A s \in Threads : Publishes(s, b) => s = t
        BY <1>1, <2>1, <2>5 DEF Delivered, Publishes
      <3>2. steady[b] \subseteq Users
        BY DEF FeedTypeOK
      <3>3. CASE SaveBlog(t)
        <4>1. /\ b \in saved' /\ steady'[b] = Followers(Author[b]) /\ pc'[t] = "listing"
          BY <2>3, <2>5, <3>3 DEF SaveBlog, Goto, FeedTypeOK
        <4> QED
          BY <1>1, <2>1, <2>2, <3>1, <4>1 DEF Delivered, Followers
      <3>4. CASE ListFollowers(t)
        <4>1. /\ saved' = saved /\ steady' = steady /\ inbox' = inbox
              /\ pc[t] = "listing" /\ pc'[t] = "pushing"
              /\ todo'[t] = Followers(Author[b])
          BY <2>5, <3>4 DEF ListFollowers, Goto, blogVars, FeedTypeOK
        <4> QED
          BY <1>1, <2>1, <2>2, <3>1, <4>1 DEF Delivered, Followers
      <3>5. CASE Push(t)
        <4>1. PICK v \in todo[t] : /\ inbox' = [inbox EXCEPT ![v] = @ \union {d}]
                                  /\ todo' = [todo EXCEPT ![t] = @ \ {v}]
          BY <3>5 DEF Push
        <4>2. saved' = saved /\ steady' = steady /\ pc' = pc /\ pc[t] = "pushing"
          BY <3>5 DEF Push
        <4>3. \A u \in Users : u \in todo[t] \/ b \in inbox[u] => u \in todo'[t] \/ b \in inbox'[u]
          BY <2>5, <4>1 DEF FeedTypeOK
        <4> QED
          BY <1>1, <2>1, <2>2, <3>1, <3>2, <4>2, <4>3 DEF Delivered, Followers
      <3> QED
        BY <1>3, <3>3, <3>4, <3>5
    <2> QED
      BY <2>4, <2>5
  <1>4. ASSUME EndPublish(t) \/ CallDies(t)
        PROVE  Delivered(b)'
    <2>1. /\ saved' = saved /\ inbox' = inbox /\ rows' = rows
          /\ Finish(t)
          /\ \A s \in Threads : s # t => todo'[s] = todo[s]
      BY <1>4 DEF EndPublish, CallDies, storeVars, blogVars, FeedTypeOK
    <2>2. /\ ~ Publishes(t, b)'
          /\ \A s \in Threads : s # t => (Publishes(s, b)' <=> Publishes(s, b)) /\ pc'[s] = pc[s]
      BY <2>1 DEF Finish, Goto, Publishes, PublishStates, FeedTypeOK
    <2>3. CASE ~ Publishes(t, b)
      <3>1. steady'[b] = steady[b]
        <4>1. pc[t] \in {"listing", "pushing"} => req[t].blog \in Blogs /\ req[t].blog # b
          BY <2>3, RequestParts DEF Publishes, PublishStates
        <4> QED
          BY <1>4, <4>1 DEF EndPublish, CallDies, blogVars, FeedTypeOK
      <3> QED
        BY <1>1, <2>1, <2>2, <2>3, <3>1 DEF Delivered, Followers
    <2>4. CASE Publishes(t, b)
      <3>1. \A s \in Threads : ~ Publishes(s, b)'
        BY <1>1, <2>2, <2>4 DEF Delivered
      <3>2. CASE EndPublish(t)
        <4>1. steady' = steady /\ pc[t] = "pushing" /\ todo[t] = {}
          BY <3>2 DEF EndPublish, blogVars
        <4> QED
          BY <1>1, <2>1, <2>4, <3>1, <4>1 DEF Delivered, Followers
      <3>3. CASE CallDies(t) /\ pc[t] \in {"listing", "pushing"}
        <4>1. steady'[b] = {}
          BY <2>4, <3>3 DEF CallDies, Publishes, FeedTypeOK
        <4> QED
          BY <3>1, <4>1 DEF Delivered
      <3>4. CASE CallDies(t) /\ pc[t] = "publish"
        <4>1. steady' = steady /\ b \notin saved
          BY <1>1, <2>4, <3>4 DEF CallDies, Delivered
        <4> QED
          BY <1>1, <2>1, <3>1, <4>1 DEF Delivered, Followers
      <3> QED
        BY <1>4, <2>4, <3>2, <3>3, <3>4 DEF Publishes, PublishStates
    <2> QED
      BY <2>3, <2>4
  <1> QED
    BY <1>2, <1>3, <1>4 DEF FanOut

LEMMA DeliveryStep == IInv /\ [Next]_vars => Delivery'
  <1> SUFFICES ASSUME IInv, [Next]_vars PROVE Delivery'
    OBVIOUS
  <1>1. FeedTypeOK'
    BY TypeStep
  <1>2. (\A b \in Blogs : Delivered(b)') => Delivery'
    BY <1>1 DEF Delivery, Delivered, FeedTypeOK
  <1>3. CASE UNCHANGED vars
    BY <1>3 DEF vars, blogVars, storeVars, IInv, Delivery, Publishes, Followers
  <1>4. CASE Next
    BY <1>1, <1>2, <1>4, FollowKeepsDelivery, FanOutKeepsDelivery DEF Next
  <1> QED
    BY <1>3, <1>4

-----------------------------------------------------------------------------
(* The invariant is inductive, for any number of calls and publications.   *)
THEOREM InductiveInvariant == Spec => []IInv
  <1>1. IInv /\ [Next]_vars => IInv'
    BY TypeStep, OneHandlerStep, DeliveryStep DEF IInv
  <1> QED
    BY InitInv, <1>1, PTL DEF Spec

(* Every variable keeps its type; an inbox holds saved blogs only.         *)
THEOREM TypeCorrectness == Spec => []FeedTypeOK
  <1>1. IInv => FeedTypeOK
    BY DEF IInv
  <1> QED
    BY InductiveInvariant, <1>1, PTL

(* tb_follow and follows:u agree about a pair on which no calls overlapped *)
(* and none died, however often the same follow is repeated.               *)
THEOREM TableAndSetAgree == Spec => []StoresAgree
  <1>1. IInv => StoresAgree
    BY DEF IInv, OneHandler, StoresAgree
  <1> QED
    BY InductiveInvariant, <1>1, PTL

(* saveBlog reaches whoever follows the author throughout, whatever others *)
(* do to the table while it lists and pushes.                              *)
THEOREM SteadyFollowersGetTheBlog == Spec => []SteadyFollowersServed
  <1>1. IInv => SteadyFollowersServed
    <2> SUFFICES ASSUME IInv, NEW b \in saved, ~ Publishing(b), NEW u \in steady[b]
                 PROVE  b \in inbox[u]
      BY DEF SteadyFollowersServed
    <2>1. \A t \in Threads : ~ Publishes(t, b)
      <3> SUFFICES ASSUME NEW t \in Threads, Publishes(t, b) PROVE FALSE
        OBVIOUS
      <3>1. req[t] \in [kind : {"publish"}, blog : Blogs] /\ req[t].blog = b
        BY DEF Publishes, IInv, Kinded
      <3>2. req[t] = [kind |-> "publish", blog |-> b]
        BY <3>1
      <3> QED
        BY <3>2 DEF Publishing
    <2> QED
      BY <2>1 DEF IInv, Delivery
  <1> QED
    BY InductiveInvariant, <1>1, PTL
=============================================================================
