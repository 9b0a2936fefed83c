----------------------------- MODULE LikesProofs -----------------------------
(***************************************************************************)
(* Theorems about the like button, for any sets of users, blogs, threads   *)
(* and schedulers and any number of faults.                                *)
(*                                                                         *)
(* The argument.  SADD and SREM answer whether they changed the set, so a  *)
(* thread past its toggle stands for exactly one change that the ranking   *)
(* has still to follow: the score plus these threads, counted by the sign  *)
(* of their change (Due), moves with the size of the set.  Only a call     *)
(* that dies past its toggle lets the two drift apart, by one, and it uses *)
(* up a fault.  The number of likes is, at any time, with the call that    *)
(* changed it last, in the counter, in a batch or in the row, and each     *)
(* step hands it on to the next of these (OnItsWay).                       *)
(***************************************************************************)
EXTENDS Likes, FiniteSetTheorems, TLAPS

\* The sets of users are finite: they grow by one member at a time.
LikesFinite == \A b \in Blogs : IsFiniteSet(likes[b])

FaultsLeft == faults <= MaxFaults

IInv == LikesTypeOK /\ LikesFinite /\ FaultsLeft /\ RankLedger

-----------------------------------------------------------------------------
(* Facts about the threads behind a ranking.                               *)
LEMMA BehindFinite ==
    ASSUME NEW b \in Blogs
    PROVE  /\ IsFiniteSet(Rising(b)) /\ Cardinality(Rising(b)) \in Nat
           /\ IsFiniteSet(Falling(b)) /\ Cardinality(Falling(b)) \in Nat
  BY FS_Subset, FS_CardinalityType, LikesAssumption DEF Rising, Falling, Behind

LEMMA InitInv == Init => IInv
  <1> SUFFICES ASSUME Init PROVE IInv
    OBVIOUS
  <1>1. LikesTypeOK
    BY LikesAssumption DEF Init, LikesTypeOK, ThreadStates, NoBatch, Absent
  <1>2. LikesFinite
    BY FS_EmptySet DEF Init, LikesFinite
  <1>3. FaultsLeft
    BY LikesAssumption DEF Init, FaultsLeft
  <1>4. RankLedger
    <2> SUFFICES ASSUME NEW b \in Blogs
                 PROVE  /\ Due(b) - Cardinality(likes[b]) <= MaxFaults - faults
                        /\ Cardinality(likes[b]) - Due(b) <= MaxFaults - faults
      BY DEF RankLedger
    <2>1. Rising(b) = {} /\ Falling(b) = {}
      BY DEF Rising, Falling, Behind, Init
    <2>2. rank[b] = 0 /\ likes[b] = {} /\ faults = MaxFaults
      BY DEF Init
    <2>3. Cardinality({}) = 0
      BY FS_EmptySet
    <2>4. Cardinality(Rising(b)) = 0 /\ Cardinality(Falling(b)) = 0
      BY <2>1, <2>3
    <2>5. Due(b) = 0 /\ Cardinality(likes[b]) = 0
      BY <2>2, <2>3, <2>4 DEF Due
    <2> QED
      BY <2>2, <2>5, LikesAssumption
  <1> QED
    BY <1>1, <1>2, <1>3, <1>4 DEF IInv

-----------------------------------------------------------------------------
(* Types and finiteness.                                                   *)
LEMMA TypeStep ==
    ASSUME LikesTypeOK, LikesFinite, [Next]_vars
    PROVE  LikesTypeOK'
  <1> USE DEF LikesTypeOK, ThreadStates, Goto, Fault
  <1>1. ASSUME NEW t \in Threads, NEW u \in Users, NEW b \in Blogs, Ask(t, u, b)
        PROVE  LikesTypeOK'
    <2>1. [user |-> u, blog |-> b, liked |-> u \notin likes[b]] \in Calls
      BY DEF Calls
    <2>2. [user |-> u, blog |-> b, liked |-> u \notin likes[b]] # None
      BY <2>1, LikesAssumption DEF Calls
    <2> QED
      BY <1>1, <2>1, <2>2 DEF Ask
  <1>2. ASSUME NEW t \in Threads, Toggle(t)
        PROVE  LikesTypeOK'
    <2>1. call[t] \in Calls
      BY <1>2 DEF Toggle
    <2>2. call[t].user \in Users /\ call[t].blog \in Blogs
      BY <2>1 DEF Calls
    <2> QED
      BY <1>2, <2>2 DEF Toggle
  <1>3. ASSUME NEW t \in Threads, ReturnUnchanged(t)
        PROVE  LikesTypeOK'
    BY <1>3 DEF ReturnUnchanged, Hangup
  <1>4. ASSUME NEW t \in Threads, ReadSize(t)
        PROVE  LikesTypeOK'
    <2>1. call[t] \in Calls
      BY <1>4 DEF ReadSize
    <2>2. Cardinality(likes[call[t].blog]) \in Nat
      BY <2>1, FS_CardinalityType DEF Calls, LikesFinite
    <2> QED
      BY <1>4, <2>2 DEF ReadSize
  <1>5. ASSUME NEW t \in Threads, WriteTimes(t)
        PROVE  LikesTypeOK'
    BY <1>5 DEF WriteTimes
  <1>6. ASSUME NEW t \in Threads, BumpRank(t)
        PROVE  LikesTypeOK'
    <2> DEFINE n == IF call[t].liked THEN rank[call[t].blog] + 1 ELSE rank[call[t].blog] - 1
    <2>1. call[t] \in Calls
      BY <1>6 DEF BumpRank
    <2>2. n \in Int
      BY <2>1 DEF Calls
    <2>3. rank' = [rank EXCEPT ![call[t].blog] = n]
      BY <1>6 DEF BumpRank
    <2>4. rank' \in [Blogs -> Int]
      BY <2>2, <2>3
    <2> QED
      BY <1>6, <2>4 DEF BumpRank, Hangup
  <1>7. ASSUME NEW t \in Threads, CallDies(t)
        PROVE  LikesTypeOK'
    BY <1>7 DEF CallDies, Hangup
  <1>8. ASSUME NEW s \in Schedulers, Pop(s)
        PROVE  LikesTypeOK'
    BY <1>8 DEF Pop, Absent
  <1>9. ASSUME NEW s \in Schedulers, StoreCount(s)
        PROVE  LikesTypeOK'
    BY <1>9 DEF StoreCount, Absent
  <1>10. ASSUME NEW s \in Schedulers, SyncDies(s)
         PROVE  LikesTypeOK'
    BY <1>10 DEF SyncDies, NoBatch, Absent
  <1>11. CASE UNCHANGED vars
    BY <1>11 DEF vars
  <1> QED
    BY <1>1, <1>2, <1>3, <1>4, <1>5, <1>6, <1>7, <1>8, <1>9, <1>10, <1>11
       DEF Next, Serve, Sync

LEMMA FiniteStep ==
    ASSUME LikesTypeOK, LikesFinite, FaultsLeft, [Next]_vars
    PROVE  LikesFinite' /\ FaultsLeft'
  <1>1. LikesFinite'
    <2>1. ASSUME NEW t \in Threads, Toggle(t), NEW b \in Blogs
          PROVE  IsFiniteSet(likes'[b])
      <3>1. IsFiniteSet(likes[b] \union {call[t].user}) /\ IsFiniteSet(likes[b] \ {call[t].user})
        BY FS_AddElement, FS_RemoveElement DEF LikesFinite
      <3>2. likes'[b] \in {likes[b], likes[b] \union {call[t].user}, likes[b] \ {call[t].user}}
        BY <2>1 DEF Toggle, LikesTypeOK
      <3> QED
        BY <3>1, <3>2 DEF LikesFinite
    <2>2. CASE UNCHANGED likes
      BY <2>2 DEF LikesFinite
    <2> QED
      BY <2>1, <2>2
         DEF LikesFinite, Next, vars, Serve, Sync, Ask, ReturnUnchanged, ReadSize, WriteTimes,
             BumpRank, CallDies, Pop, StoreCount, SyncDies
  <1>2. FaultsLeft'
    <2>1. faults' = faults \/ faults' = faults - 1
      BY DEF Next, vars, Serve, Sync, Ask, Toggle, ReturnUnchanged, ReadSize, WriteTimes,
             BumpRank, CallDies, Pop, StoreCount, SyncDies, Fault
    <2> QED
      BY <2>1, LikesAssumption DEF FaultsLeft, LikesTypeOK
  <1> QED
    BY <1>1, <1>2

-----------------------------------------------------------------------------
(* The ranking.                                                            *)

(* A thread enters or leaves the threads behind b one at a time.           *)
LEMMA BehindEnters ==
    ASSUME LikesTypeOK, NEW t \in Threads, Toggle(t), NEW b \in Blogs
    PROVE  /\ Cardinality(Rising(b)') =
                Cardinality(Rising(b)) + IF call[t].blog = b /\ call[t].liked THEN 1 ELSE 0
           /\ Cardinality(Falling(b)') =
                Cardinality(Falling(b)) + IF call[t].blog = b /\ ~ call[t].liked THEN 1 ELSE 0
  <1>1. t \notin Rising(b) /\ t \notin Falling(b)
    BY DEF Toggle, Rising, Falling, Behind
  <1>2. Rising(b)' = IF call[t].blog = b /\ call[t].liked
                     THEN Rising(b) \union {t} ELSE Rising(b)
    BY DEF Toggle, Rising, Behind, Goto, LikesTypeOK
  <1>3. Falling(b)' = IF call[t].blog = b /\ ~ call[t].liked
                      THEN Falling(b) \union {t} ELSE Falling(b)
    BY DEF Toggle, Falling, Behind, Goto, LikesTypeOK
  <1>4. /\ Cardinality(Rising(b) \union {t}) = Cardinality(Rising(b)) + 1
        /\ Cardinality(Falling(b) \union {t}) = Cardinality(Falling(b)) + 1
    BY <1>1, BehindFinite, FS_AddElement
  <1> QED
    BY <1>2, <1>3, <1>4, BehindFinite

LEMMA BehindLeaves ==
    ASSUME LikesTypeOK, NEW t \in Threads, pc[t] # "idle", Hangup(t), NEW b \in Blogs
    PROVE  /\ Cardinality(Rising(b)') =
                Cardinality(Rising(b)) - IF t \in Rising(b) THEN 1 ELSE 0
           /\ Cardinality(Falling(b)') =
                Cardinality(Falling(b)) - IF t \in Falling(b) THEN 1 ELSE 0
  <1>1. Rising(b)' = Rising(b) \ {t} /\ Falling(b)' = Falling(b) \ {t}
    BY DEF Hangup, Rising, Falling, Behind, Goto, LikesTypeOK
  <1>2. /\ Cardinality(Rising(b) \ {t}) =
             IF t \in Rising(b) THEN Cardinality(Rising(b)) - 1 ELSE Cardinality(Rising(b))
        /\ Cardinality(Falling(b) \ {t}) =
             IF t \in Falling(b) THEN Cardinality(Falling(b)) - 1 ELSE Cardinality(Falling(b))
    BY BehindFinite, FS_RemoveElement
  <1> QED
    BY <1>1, <1>2, BehindFinite

LEMMA ToggleMovesBoth ==
    ASSUME LikesTypeOK, LikesFinite, NEW t \in Threads, Toggle(t), NEW b \in Blogs
    PROVE  Due(b)' - Cardinality(likes'[b]) = Due(b) - Cardinality(likes[b])
  <1> DEFINE c == call[t]
  <1>1. c \in Calls
    BY DEF Toggle, LikesTypeOK
  <1>2. c.user \in Users /\ c.blog \in Blogs /\ c.liked \in BOOLEAN
    BY <1>1 DEF Calls
  <1>3. /\ Cardinality(Rising(b)') =
             Cardinality(Rising(b)) + IF c.blog = b /\ c.liked THEN 1 ELSE 0
        /\ Cardinality(Falling(b)') =
             Cardinality(Falling(b)) + IF c.blog = b /\ ~ c.liked THEN 1 ELSE 0
    BY <1>2, BehindEnters
  <1>4. rank'[b] = rank[b] /\ rank[b] \in Int
    BY DEF Toggle, LikesTypeOK
  <1>5. /\ Cardinality(Rising(b)) \in Nat
        /\ Cardinality(Falling(b)) \in Nat
        /\ Cardinality(likes[b]) \in Nat
        /\ IsFiniteSet(likes[b])
    BY BehindFinite, FS_CardinalityType DEF LikesFinite
  <1>6. CASE c.blog # b
    <2>1. likes'[b] = likes[b]
      BY <1>6 DEF Toggle, LikesTypeOK
    <2> QED
      BY <2>1, <1>3, <1>4, <1>5, <1>6 DEF Due
  <1>7. CASE c.blog = b /\ c.liked
    <2>1. likes'[b] = likes[b] \union {c.user} /\ c.user \notin likes[b]
      BY <1>7 DEF Toggle, Changes, Liking, LikesTypeOK
    <2>2. Cardinality(likes'[b]) = Cardinality(likes[b]) + 1
      BY <2>1, <1>5, FS_AddElement
    <2>3. /\ Cardinality(Rising(b)') = Cardinality(Rising(b)) + 1
          /\ Cardinality(Falling(b)') = Cardinality(Falling(b))
      BY <1>3, <1>5, <1>7
    <2> QED
      BY <2>2, <2>3, <1>4, <1>5 DEF Due
  <1>8. CASE c.blog = b /\ ~ c.liked
    <2>1. likes'[b] = likes[b] \ {c.user} /\ c.user \in likes[b]
      BY <1>2, <1>8 DEF Toggle, Changes, Liking, LikesTypeOK
    <2>2. Cardinality(likes[b] \ {c.user}) =
            IF c.user \in likes[b] THEN Cardinality(likes[b]) - 1 ELSE Cardinality(likes[b])
      BY <1>5, FS_RemoveElement
    <2>3. Cardinality(likes'[b]) = Cardinality(likes[b]) - 1
      BY <2>1, <2>2
    <2>4. /\ Cardinality(Rising(b)') = Cardinality(Rising(b))
          /\ Cardinality(Falling(b)') = Cardinality(Falling(b)) + 1
      BY <1>3, <1>5, <1>8
    <2> QED
      BY <2>3, <2>4, <1>4, <1>5 DEF Due
  <1> QED
    BY <1>2, <1>6, <1>7, <1>8

LEMMA BumpKeepsDue ==
    ASSUME LikesTypeOK, NEW t \in Threads, BumpRank(t), NEW b \in Blogs
    PROVE  Due(b)' = Due(b)
  <1> DEFINE c == call[t]
  <1>1. c \in Calls
    BY DEF BumpRank, LikesTypeOK
  <1>2. c.blog \in Blogs /\ c.liked \in BOOLEAN
    BY <1>1 DEF Calls
  <1>3. /\ t \in Rising(b) <=> c.blog = b /\ c.liked
        /\ t \in Falling(b) <=> c.blog = b /\ ~ c.liked
    BY DEF BumpRank, Rising, Falling, Behind
  <1>4. /\ Cardinality(Rising(b)') =
             Cardinality(Rising(b)) - IF c.blog = b /\ c.liked THEN 1 ELSE 0
        /\ Cardinality(Falling(b)') =
             Cardinality(Falling(b)) - IF c.blog = b /\ ~ c.liked THEN 1 ELSE 0
    BY <1>2, <1>3, BehindLeaves DEF BumpRank
  <1>5. rank'[b] = rank[b] + IF c.blog = b THEN (IF c.liked THEN 1 ELSE -1) ELSE 0
    BY <1>2 DEF BumpRank, LikesTypeOK
  <1>6. /\ rank[b] \in Int
        /\ Cardinality(Rising(b)) \in Nat
        /\ Cardinality(Falling(b)) \in Nat
    BY BehindFinite DEF LikesTypeOK
  <1> QED
    BY <1>2, <1>4, <1>5, <1>6 DEF Due

LEMMA DeathCostsOne ==
    ASSUME LikesTypeOK, NEW t \in Threads, CallDies(t), NEW b \in Blogs
    PROVE  Due(b)' - Due(b) \in {-1, 0, 1}
  <1>1. /\ Cardinality(Rising(b)') =
             Cardinality(Rising(b)) - IF t \in Rising(b) THEN 1 ELSE 0
        /\ Cardinality(Falling(b)') =
             Cardinality(Falling(b)) - IF t \in Falling(b) THEN 1 ELSE 0
    BY BehindLeaves DEF CallDies
  <1>2. ~ (t \in Rising(b) /\ t \in Falling(b))
    BY DEF Rising, Falling
  <1>3. /\ rank[b] \in Int /\ rank'[b] = rank[b]
        /\ Cardinality(Rising(b)) \in Nat
        /\ Cardinality(Falling(b)) \in Nat
    BY BehindFinite DEF LikesTypeOK, CallDies
  <1> QED
    BY <1>1, <1>2, <1>3 DEF Due

LEMMA LedgerFrame ==
    ASSUME LikesTypeOK, NEW b \in Blogs,
           \/ \E t \in Threads, u \in Users, d \in Blogs : Ask(t, u, d)
           \/ \E t \in Threads : ReturnUnchanged(t) \/ ReadSize(t) \/ WriteTimes(t)
           \/ \E s \in Schedulers : Pop(s) \/ StoreCount(s) \/ SyncDies(s)
           \/ UNCHANGED vars
    PROVE  Due(b)' = Due(b) /\ likes' = likes
  <1>1. likes' = likes /\ rank' = rank
    BY DEF Ask, ReturnUnchanged, ReadSize, WriteTimes, Pop, StoreCount, SyncDies, vars
  <1>2. Rising(b)' = Rising(b) /\ Falling(b)' = Falling(b)
    <2> USE DEF Rising, Falling, Behind, Goto, LikesTypeOK, ThreadStates
    <2>1. CASE \E t \in Threads, u \in Users, d \in Blogs : Ask(t, u, d)
      BY <2>1 DEF Ask
    <2>2. CASE \E t \in Threads : ReturnUnchanged(t)
      BY <2>2 DEF ReturnUnchanged, Hangup
    <2>3. CASE \E t \in Threads : ReadSize(t) \/ WriteTimes(t)
      BY <2>3 DEF ReadSize, WriteTimes
    <2>4. CASE \E s \in Schedulers : Pop(s) \/ StoreCount(s) \/ SyncDies(s)
      BY <2>4 DEF Pop, StoreCount, SyncDies
    <2>5. CASE UNCHANGED vars
      BY <2>5 DEF vars
    <2> QED
      BY <2>1, <2>2, <2>3, <2>4, <2>5
  <1> QED
    BY <1>1, <1>2 DEF Due

LEMMA RankLedgerStep ==
    ASSUME IInv, [Next]_vars
    PROVE  RankLedger'
  <1> SUFFICES ASSUME NEW b \in Blogs
               PROVE  /\ Due(b)' - Cardinality(likes'[b]) <= MaxFaults - faults'
                      /\ Cardinality(likes'[b]) - Due(b)' <= MaxFaults - faults'
    BY DEF RankLedger
  <1> USE DEF IInv
  <1>1. /\ Due(b) - Cardinality(likes[b]) <= MaxFaults - faults
        /\ Cardinality(likes[b]) - Due(b) <= MaxFaults - faults
    BY DEF RankLedger
  <1>2. Cardinality(likes[b]) \in Nat /\ Due(b) \in Int /\ faults \in Nat /\ MaxFaults \in Nat
    BY FS_CardinalityType, BehindFinite, LikesAssumption DEF Due, LikesTypeOK, LikesFinite
  <1>3. Cardinality(likes'[b]) \in Nat /\ Due(b)' \in Int
    <2>1. LikesTypeOK' /\ LikesFinite'
      BY TypeStep, FiniteStep
    <2>2. Cardinality(likes'[b]) \in Nat
      BY <2>1, FS_CardinalityType DEF LikesFinite
    <2>3. Cardinality(Rising(b)') \in Nat /\ Cardinality(Falling(b)') \in Nat
      BY FS_Subset, FS_CardinalityType, LikesAssumption DEF Rising, Falling, Behind
    <2> QED
      BY <2>1, <2>2, <2>3 DEF Due, LikesTypeOK
  <1>4. ASSUME NEW t \in Threads, Toggle(t)
        PROVE  /\ Due(b)' - Cardinality(likes'[b]) <= MaxFaults - faults'
               /\ Cardinality(likes'[b]) - Due(b)' <= MaxFaults - faults'
    <2>1. Due(b)' - Cardinality(likes'[b]) = Due(b) - Cardinality(likes[b])
      BY <1>4, ToggleMovesBoth
    <2>2. faults' = faults
      BY <1>4 DEF Toggle
    <2> QED
      BY <1>1, <1>2, <1>3, <2>1, <2>2
  <1>5. ASSUME NEW t \in Threads, BumpRank(t)
        PROVE  /\ Due(b)' - Cardinality(likes'[b]) <= MaxFaults - faults'
               /\ Cardinality(likes'[b]) - Due(b)' <= MaxFaults - faults'
    <2>1. Due(b)' = Due(b)
      BY <1>5, BumpKeepsDue
    <2>2. faults' = faults /\ likes' = likes
      BY <1>5 DEF BumpRank
    <2> QED
      BY <1>1, <1>2, <2>1, <2>2
  <1>6. ASSUME NEW t \in Threads, CallDies(t)
        PROVE  /\ Due(b)' - Cardinality(likes'[b]) <= MaxFaults - faults'
               /\ Cardinality(likes'[b]) - Due(b)' <= MaxFaults - faults'
    <2>1. Due(b)' - Due(b) \in {-1, 0, 1}
      BY <1>6, DeathCostsOne
    <2>2. faults' = faults - 1 /\ likes' = likes
      BY <1>6 DEF CallDies, Fault
    <2> QED
      BY <1>1, <1>2, <1>3, <2>1, <2>2
  <1>7. CASE \/ \E t \in Threads, u \in Users, d \in Blogs : Ask(t, u, d)
             \/ \E t \in Threads : ReturnUnchanged(t) \/ ReadSize(t) \/ WriteTimes(t)
             \/ \E s \in Schedulers : Pop(s) \/ StoreCount(s) \/ SyncDies(s)
             \/ UNCHANGED vars
    <2>1. Due(b)' = Due(b) /\ likes' = likes
      BY <1>7, LedgerFrame
    <2>2. faults' = faults \/ faults' = faults - 1
      BY <1>7 DEF Ask, ReturnUnchanged, ReadSize, WriteTimes, Pop, StoreCount, SyncDies,
                  vars, Fault
    <2> QED
      BY <1>1, <1>2, <2>1, <2>2
  <1> QED
    BY <1>4, <1>5, <1>6, <1>7 DEF Next, Serve, Sync

-----------------------------------------------------------------------------
(* The way of a count to the database.                                     *)
LEMMA AtMostOne ==
    ASSUME NEW S, IsFiniteSet(S), ~ (Cardinality(S) > 1), NEW x \in S, NEW y \in S
    PROVE  x = y
  <1> SUFFICES ASSUME x # y PROVE FALSE
    OBVIOUS
  <1>1. IsFiniteSet({x}) /\ Cardinality({x}) = 1
    BY FS_Singleton
  <1>2. Cardinality({x} \union {y}) = 2
    BY <1>1, FS_AddElement
  <1>3. {x} \union {y} \subseteq S
    OBVIOUS
  <1>4. Cardinality({x} \union {y}) <= Cardinality(S) /\ Cardinality(S) \in Nat
    BY <1>3, FS_Subset, FS_CardinalityType
  <1> QED
    BY <1>2, <1>4

LEMMA NotCrowded ==
    ASSUME NEW b \in Blogs, ~ Crowded(b)
    PROVE  /\ \A t, u \in Behind(b) : t = u
           /\ \A s, r \in Schedulers : batch[s][b] # Absent /\ batch[r][b] # Absent => s = r
  <1> DEFINE H == {s \in Schedulers : batch[s][b] # Absent}
  <1>1. IsFiniteSet(Behind(b)) /\ IsFiniteSet(H)
    BY FS_Subset, LikesAssumption DEF Behind
  <1>2. ~ (Cardinality(Behind(b)) > 1) /\ ~ (Cardinality(H) > 1)
    BY DEF Crowded
  <1>3. \A t, u \in Behind(b) : t = u
    BY <1>1, <1>2, AtMostOne
  <1>4. \A s, r \in H : s = r
    <2> HIDE DEF H
    <2> QED
      BY <1>1, <1>2, AtMostOne
  <1> QED
    BY <1>3, <1>4

\* What is not done at b leaves its count where it is.
LEMMA ElsewhereKeepsCount ==
    ASSUME NEW b \in Blogs, OnItsWay(b),
           likes'[b] = likes[b], times'[b] = times[b], stored'[b] = stored[b],
           \A s \in Schedulers : batch'[s][b] = batch[s][b],
           Behind(b)' = Behind(b),
           \A t \in Behind(b) : pc'[t] = pc[t] /\ size'[t] = size[t]
    PROVE  OnItsWay(b)'
  <1> DEFINE likers == Cardinality(likes[b])
  <1>1. Cardinality(likes'[b]) = likers
    OBVIOUS
  <1>2. CASE \E t \in Behind(b) : pc[t] = "toggled" \/ (pc[t] = "sized" /\ size[t] = likers)
    BY <1>1, <1>2 DEF OnItsWay
  <1>3. CASE /\ \A t \in Behind(b) : pc[t] = "counted"
             /\ \/ times[b] = likers
                \/ times[b] = Absent /\ \E s \in Schedulers : batch[s][b] = likers
                \/ /\ times[b] = Absent
                   /\ \A s \in Schedulers : batch[s][b] = Absent
                   /\ stored[b] = likers
    <2>1. \A t \in Behind(b)' : pc'[t] = "counted"
      BY <1>3
    <2> HIDE DEF likers
    <2>2. \/ times'[b] = likers
          \/ times'[b] = Absent /\ \E s \in Schedulers : batch'[s][b] = likers
          \/ /\ times'[b] = Absent
             /\ \A s \in Schedulers : batch'[s][b] = Absent
             /\ stored'[b] = likers
      BY <1>3
    <2> QED
      BY <1>1, <2>1, <2>2 DEF OnItsWay
  <1> QED
    BY <1>2, <1>3 DEF OnItsWay

\* The steps of a call.
LEMMA CallKeepsCount ==
    ASSUME IInv, NEW b \in Blogs, OnItsWay(b), ~ Crowded(b),
           NEW t \in Threads,
           \/ \E u \in Users, d \in Blogs : Ask(t, u, d)
           \/ Serve(t)
    PROVE  OnItsWay(b)'
  <1> DEFINE likers == Cardinality(likes[b])
  <1>0. /\ pc \in [Threads -> ThreadStates] /\ call \in [Threads -> Calls \union {None}]
        /\ size \in [Threads -> Nat] /\ times \in [Blogs -> Nat \union {Absent}]
        /\ likes \in [Blogs -> SUBSET Users]
        /\ \A x \in Threads : call[x] = None <=> pc[x] = "idle"
    BY DEF IInv, LikesTypeOK
  <1>a. \A x, y \in Behind(b) : x = y
    BY NotCrowded
  <1>1. ASSUME NEW u \in Users, NEW d \in Blogs, Ask(t, u, d) PROVE OnItsWay(b)'
    <2>1. /\ UNCHANGED <<likes, times, stored, size, batch>>
          /\ pc[t] = "idle" /\ pc' = [pc EXCEPT ![t] = "asked"]
          /\ \A x \in Threads : x # t => call'[x] = call[x]
      BY <1>0, <1>1 DEF Ask, Goto
    <2>2. Behind(b)' = Behind(b) /\ t \notin Behind(b)
      BY <1>0, <2>1 DEF Behind
    <2>3. \A x \in Behind(b) : pc'[x] = pc[x]
      BY <1>0, <2>1, <2>2 DEF Behind
    <2> QED
      BY <2>1, <2>2, <2>3, ElsewhereKeepsCount
  <1>2. CASE ReturnUnchanged(t)
    <2>1. /\ UNCHANGED <<likes, times, stored, size, batch>>
          /\ pc[t] = "asked" /\ pc' = [pc EXCEPT ![t] = "idle"]
          /\ \A x \in Threads : x # t => call'[x] = call[x]
      BY <1>0, <1>2 DEF ReturnUnchanged, Hangup, Goto
    <2>2. Behind(b)' = Behind(b) /\ t \notin Behind(b)
      BY <1>0, <2>1 DEF Behind
    <2>3. \A x \in Behind(b) : pc'[x] = pc[x]
      BY <1>0, <2>1, <2>2 DEF Behind
    <2> QED
      BY <2>1, <2>2, <2>3, ElsewhereKeepsCount
  <1>3. CASE Toggle(t)
    <2>1. /\ UNCHANGED <<times, stored, call, size, batch>>
          /\ pc[t] = "asked" /\ pc' = [pc EXCEPT ![t] = "toggled"]
          /\ call[t].blog # b => likes'[b] = likes[b]
      BY <1>0, <1>3 DEF Toggle, Goto
    <2>2. CASE call[t].blog = b
      <3>1. t \in Behind(b)' /\ pc'[t] = "toggled"
        BY <1>0, <2>1, <2>2 DEF Behind
      <3> QED
        BY <3>1 DEF OnItsWay
    <2>3. CASE call[t].blog # b
      <3>1. Behind(b)' = Behind(b) /\ t \notin Behind(b)
        BY <1>0, <2>1, <2>3 DEF Behind
      <3>2. \A x \in Behind(b) : pc'[x] = pc[x]
        BY <1>0, <2>1, <3>1 DEF Behind
      <3> QED
        BY <2>1, <2>3, <3>1, <3>2, ElsewhereKeepsCount
    <2> QED
      BY <2>2, <2>3
  <1>4. CASE ReadSize(t)
    <2>1. /\ UNCHANGED <<likes, times, stored, call, batch>>
          /\ pc[t] = "toggled" /\ pc' = [pc EXCEPT ![t] = "sized"]
          /\ size' = [size EXCEPT ![t] = Cardinality(likes[call[t].blog])]
      BY <1>4 DEF ReadSize, Goto
    <2>2. Behind(b)' = Behind(b)
      BY <1>0, <2>1 DEF Behind
    <2>3. CASE call[t].blog = b
      <3>1. t \in Behind(b)' /\ pc'[t] = "sized" /\ size'[t] = Cardinality(likes'[b])
        BY <1>0, <2>1, <2>3 DEF Behind
      <3> QED
        BY <3>1 DEF OnItsWay
    <2>4. CASE call[t].blog # b
      <3>1. \A x \in Behind(b) : pc'[x] = pc[x] /\ size'[x] = size[x]
        BY <1>0, <2>1, <2>4 DEF Behind
      <3> QED
        BY <2>1, <2>2, <3>1, ElsewhereKeepsCount
    <2> QED
      BY <2>3, <2>4
  <1>5. CASE WriteTimes(t)
    <2>1. /\ UNCHANGED <<likes, stored, call, size, batch>>
          /\ pc[t] = "sized" /\ pc' = [pc EXCEPT ![t] = "counted"]
          /\ times' = [times EXCEPT ![call[t].blog] = size[t]]
      BY <1>5 DEF WriteTimes, Goto
    <2>2. Behind(b)' = Behind(b)
      BY <1>0, <2>1 DEF Behind
    <2>3. CASE call[t].blog = b
      <3>1. t \in Behind(b)
        BY <1>0, <2>1, <2>3 DEF Behind
      <3>2. Behind(b) = {t}
        BY <1>a, <3>1
      <3>3. size[t] = likers
        BY <2>1, <3>2 DEF OnItsWay
      <3>4. times'[b] = Cardinality(likes'[b])
        BY <1>0, <2>1, <2>3, <3>3
      <3>5. \A x \in Behind(b)' : pc'[x] = "counted"
        BY <1>0, <2>1, <2>2, <3>2
      <3> QED
        BY <3>4, <3>5 DEF OnItsWay
    <2>4. CASE call[t].blog # b
      <3>1. \A x \in Behind(b) : pc'[x] = pc[x]
        BY <1>0, <2>1, <2>4 DEF Behind
      <3>2. times'[b] = times[b]
        BY <1>0, <2>1, <2>4
      <3> QED
        BY <2>1, <2>2, <3>1, <3>2, ElsewhereKeepsCount
    <2> QED
      BY <2>3, <2>4
  <1>6. CASE BumpRank(t)
    <2>1. /\ UNCHANGED <<likes, times, stored, size, batch>>
          /\ pc[t] = "counted" /\ pc' = [pc EXCEPT ![t] = "idle"]
          /\ \A x \in Threads : x # t => call'[x] = call[x]
      BY <1>0, <1>6 DEF BumpRank, Hangup, Goto
    <2>2. Behind(b)' = Behind(b) \ {t}
      BY <1>0, <2>1 DEF Behind
    <2>3. CASE t \in Behind(b)
      <3>1. Behind(b) = {t}
        BY <1>a, <2>3
      <3>2. ~ \E x \in Behind(b) : pc[x] = "toggled" \/ (pc[x] = "sized" /\ size[x] = likers)
        BY <2>1, <3>1
      <3>3. \/ times[b] = likers
            \/ times[b] = Absent /\ \E s \in Schedulers : batch[s][b] = likers
            \/ /\ times[b] = Absent
               /\ \A s \in Schedulers : batch[s][b] = Absent
               /\ stored[b] = likers
        BY <3>2 DEF OnItsWay
      <3>4. \A x \in Behind(b)' : pc'[x] = "counted"
        BY <2>2, <3>1
      <3> QED
        BY <2>1, <3>3, <3>4 DEF OnItsWay
    <2>4. CASE t \notin Behind(b)
      <3>1. Behind(b)' = Behind(b) /\ \A x \in Behind(b) : pc'[x] = pc[x]
        BY <1>0, <2>1, <2>2, <2>4 DEF Behind
      <3> QED
        BY <2>1, <3>1, ElsewhereKeepsCount
    <2> QED
      BY <2>3, <2>4
  <1> QED
    BY <1>1, <1>2, <1>3, <1>4, <1>5, <1>6 DEF Serve

\* The steps of a scheduler.
LEMMA SyncKeepsCount ==
    ASSUME IInv, NEW b \in Blogs, OnItsWay(b), ~ Crowded(b), NEW s \in Schedulers, Sync(s)
    PROVE  OnItsWay(b)'
  <1> DEFINE likers == Cardinality(likes[b])
             Called == \E t \in Behind(b) : pc[t] = "toggled"
                                            \/ (pc[t] = "sized" /\ size[t] = likers)
             Counted == \A t \in Behind(b) : pc[t] = "counted"
  <1>0. /\ batch \in [Schedulers -> [Blogs -> Nat \union {Absent}]]
        /\ times \in [Blogs -> Nat \union {Absent}] /\ stored \in [Blogs -> Nat]
    BY DEF IInv, LikesTypeOK
  <1>a. likers \in Nat /\ likers # Absent
    BY FS_CardinalityType DEF IInv, LikesFinite, Absent
  <1>b. UNCHANGED <<likes, pc, call, size>>
    BY DEF Sync, Pop, StoreCount
  <1>c. Behind(b)' = Behind(b)
    BY <1>b DEF Behind
  <1>d. Called => OnItsWay(b)'
    BY <1>b, <1>c DEF OnItsWay
  <1> SUFFICES ASSUME Counted,
                      \/ times[b] = likers
                      \/ times[b] = Absent /\ \E r \in Schedulers : batch[r][b] = likers
                      \/ /\ times[b] = Absent
                         /\ \A r \in Schedulers : batch[r][b] = Absent
                         /\ stored[b] = likers
               PROVE  \/ times'[b] = likers
                      \/ times'[b] = Absent /\ \E r \in Schedulers : batch'[r][b] = likers
                      \/ /\ times'[b] = Absent
                         /\ \A r \in Schedulers : batch'[r][b] = Absent
                         /\ stored'[b] = likers
    BY <1>b, <1>c, <1>d DEF OnItsWay
  <1> HIDE DEF likers, Called, Counted
  <1>1. CASE Pop(s)
    <2>1. PICK S \in SUBSET Waiting :
              /\ batch' = [batch EXCEPT ![s] = [d \in Blogs |-> IF d \in S THEN times[d]
                                                                ELSE Absent]]
              /\ times' = [d \in Blogs |-> IF d \in S THEN Absent ELSE times[d]]
      BY <1>1 DEF Pop
    <2>2. batch[s][b] = Absent /\ stored' = stored
      BY <1>1 DEF Pop, NoBatch
    <2>3. CASE b \in S
      <3>1. times[b] # Absent
        BY <2>3 DEF Waiting
      <3>2. times[b] = likers
        BY <3>1
      <3>3. times'[b] = Absent /\ batch'[s][b] = likers
        BY <1>0, <2>1, <2>3, <3>2
      <3> QED
        BY <3>3
    <2>4. CASE b \notin S
      <3>1. times'[b] = times[b] /\ batch'[s][b] = batch[s][b]
        BY <1>0, <2>1, <2>2, <2>4
      <3>2. \A r \in Schedulers : batch'[r][b] = batch[r][b]
        BY <1>0, <2>1, <3>1
      <3> QED
        BY <2>2, <3>1, <3>2
    <2> QED
      BY <2>3, <2>4
  <1>2. CASE StoreCount(s)
    <2>1. PICK d \in Blogs :
              /\ batch[s][d] # Absent
              /\ stored' = [stored EXCEPT ![d] = batch[s][d]]
              /\ batch' = [batch EXCEPT ![s] = [batch[s] EXCEPT ![d] = Absent]]
      BY <1>0, <1>2 DEF StoreCount
    <2>2. times' = times
      BY <1>2 DEF StoreCount
    <2>3. CASE d = b
      <3>1. stored'[b] = batch[s][b] /\ batch'[s][b] = Absent
        BY <1>0, <2>1, <2>3
      <3>2. \A r \in Schedulers : r # s => batch[r][b] = Absent
        BY <2>1, <2>3, NotCrowded
      <3>3. \A r \in Schedulers : r # s => batch'[r][b] = Absent
        BY <1>0, <2>1, <3>2
      <3>4. batch[s][b] = likers \/ times[b] = likers
        BY <1>a, <2>1, <2>3, <3>2
      <3> QED
        BY <2>2, <3>1, <3>3, <3>4
    <2>4. CASE d # b
      <3>1. stored'[b] = stored[b] /\ \A r \in Schedulers : batch'[r][b] = batch[r][b]
        BY <1>0, <2>1, <2>4
      <3> QED
        BY <2>2, <3>1
    <2> QED
      BY <2>3, <2>4
  <1> QED
    BY <1>1, <1>2 DEF Sync

LEMMA CountStep ==
    ASSUME IInv, [Next]_vars, NEW b \in Blogs, OnItsWay(b), ~ Crowded(b), faults' = faults
    PROVE  OnItsWay(b)'
  <1>1. faults \in Nat
    BY DEF IInv, LikesTypeOK
  <1>2. ASSUME NEW t \in Threads, CallDies(t) PROVE FALSE
    BY <1>1, <1>2 DEF CallDies, Fault
  <1>3. ASSUME NEW s \in Schedulers, SyncDies(s) PROVE FALSE
    BY <1>1, <1>3 DEF SyncDies, Fault
  <1>4. CASE UNCHANGED vars
    BY <1>4, ElsewhereKeepsCount DEF vars, Behind
  <1> QED
    BY <1>2, <1>3, <1>4, CallKeepsCount, SyncKeepsCount DEF Next

LEMMA InitCount == Init => \A b \in Blogs : OnItsWay(b)
  <1> SUFFICES ASSUME Init, NEW b \in Blogs PROVE OnItsWay(b)
    OBVIOUS
  <1>1. likes[b] = {} /\ times[b] = Absent /\ stored[b] = 0 /\ Behind(b) = {}
    BY DEF Init, Behind
  <1>2. \A s \in Schedulers : batch[s][b] = Absent
    BY DEF Init, NoBatch
  <1>3. Cardinality(likes[b]) = 0
    BY <1>1, FS_EmptySet
  <1> QED
    BY <1>1, <1>2, <1>3 DEF OnItsWay

-----------------------------------------------------------------------------
(* The invariant is inductive: for every number of threads, schedulers,    *)
(* users, blogs and faults.                                                *)
THEOREM InductiveInvariant == Spec => []IInv
  <1>1. IInv /\ [Next]_vars => IInv'
    BY TypeStep, FiniteStep, RankLedgerStep DEF IInv
  <1> QED
    BY InitInv, <1>1, PTL DEF Spec

(* Every variable of the like service keeps its type.                      *)
THEOREM TypeCorrectness == Spec => []LikesTypeOK
  <1>1. IInv => LikesTypeOK
    BY DEF IInv
  <1> QED
    BY InductiveInvariant, <1>1, PTL

(* addLikeRecord moves the ranking exactly once for every change of a set  *)
(* of likes, whatever calls, double clicks and schedulers overlap; each    *)
(* crash costs one point at most.                                          *)
THEOREM RankingCountsLikesOnce == Spec => []RankLedger
  <1>1. IInv => RankLedger
    BY DEF IInv
  <1> QED
    BY InductiveInvariant, <1>1, PTL

(* addLikeRecord and syncLikedTimes never lose the newest count of a blog  *)
(* on its way to tb_blog.liked, and never let an older one pass it, in a   *)
(* step without a crash that starts with one call and one scheduler at     *)
(* most at the blog.                                                       *)
THEOREM NewestCountIsKept == Spec => NewestCountKept
  <1>1. ASSUME IInv, [Next]_vars
        PROVE  [\A b \in Blogs : OnItsWay(b) /\ ~ Crowded(b) /\ faults' = faults
                                 => OnItsWay(b)']_vars
    BY <1>1, CountStep
  <1> QED
    BY <1>1, InductiveInvariant, PTL DEF Spec, NewestCountKept

(* A blog at which calls and schedulers take turns and nothing dies has    *)
(* its number of likes in tb_blog.liked or under way there, always.        *)
THEOREM CountIsAlwaysOnItsWay ==
    ASSUME NEW b \in Blogs
    PROVE  Spec => ([](~ Crowded(b) /\ faults = MaxFaults) => []OnItsWay(b))
  <1>1. Init => OnItsWay(b)
    BY InitCount
  <1>2. /\ IInv /\ [Next]_vars /\ OnItsWay(b)
        /\ ~ Crowded(b) /\ faults = MaxFaults
        /\ (~ Crowded(b) /\ faults = MaxFaults)'
        => OnItsWay(b)'
    BY CountStep
  <1> QED
    BY <1>1, <1>2, InductiveInvariant, PTL DEF Spec
=============================================================================
