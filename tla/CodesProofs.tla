----------------------------- MODULE CodesProofs -----------------------------
(***************************************************************************)
(* Theorems about sendCode, for any number of threads, any length of a     *)
(* minute and any number of faults.                                        *)
(*                                                                         *)
(* The argument.  A thread sets a code only after it has seen a minute     *)
(* without a recorded one, so what it has recorded before is more than a   *)
(* minute old, and the codes of one thread are more than a minute apart    *)
(* (OwnSpacing): in one minute each thread has one at most, and in five    *)
(* minutes five (FiveFit), the one about to be recorded included.  A code  *)
(* that is not recorded costs a call its life (LostFew).  While calls do   *)
(* not overlap the spacing holds of all codes together (Spacing), and at   *)
(* most four fit into the five minutes before a call that has just seen a  *)
(* free one (FourFit).                                                     *)
(***************************************************************************)
EXTENDS Codes, Functions, FiniteSetTheorems, TLAPS

FaultsLeft == faults <= MaxFaults

LostFew == lost <= MaxFaults - faults

\* A thread that has seen a minute without a code, up to its own ZADD.
Cleared == {"passed", "send", "issued"}

\* The millisecond of a twin is a member of the sorted set.
TwinPaired == \A x \in sent : x.twin => \E y \in sent : ~ y.twin /\ y.age = x.age

OwnSpacing ==
    /\ \A x, y \in sent : x.by = y.by /\ x # y =>
           x.age > y.age + Minute \/ y.age > x.age + Minute
    /\ \A t \in Threads : pc[t] \in Cleared =>
           \A x \in sent : x.by = t => x.age > Minute

\* While calls do not overlap, all of this is as if there were one thread.
Spacing ==
    ~ overlapped =>
        /\ \A s, t \in Threads : pc[s] # "idle" /\ pc[t] # "idle" => s = t
        /\ \A x, y \in sent : x # y => x.age > y.age + Minute \/ y.age > x.age + Minute
        /\ \A t \in Threads : pc[t] \in Cleared =>
               \A x \in sent : x.age > Minute
        /\ \A l \in Levels : limit[l] = Off
        /\ \A t \in Threads :
               pc[t] \notin {"blockone", "expireone", "blocktwo", "expiretwo"}

Expiring == [l \in Levels |-> IF l = "one" THEN "expireone" ELSE "expiretwo"]

\* A block without an end has its own EXPIRE still to come, or a call died.
Finite ==
    \A l \in Levels : limit[l] = Forever =>
        faults < MaxFaults \/ \E t \in Threads : pc[t] = Expiring[l]

IInv == /\ CodesTypeOK /\ FaultsLeft /\ LostFew /\ TwinPaired
        /\ OwnSpacing /\ Spacing /\ Finite

-----------------------------------------------------------------------------
LEMMA InitInv == Init => IInv
  <1> SUFFICES ASSUME Init PROVE IInv
    OBVIOUS
  <1>1. CodesTypeOK /\ FaultsLeft /\ LostFew
    <2>1. 0 \in -1 .. 20 * Minute
      BY CodesAssumption
    <2>2. limit \in [Levels -> -1 .. 20 * Minute]
      BY <2>1 DEF Init, Off
    <2>3. sent \subseteq [by : Threads, age : Window, twin : BOOLEAN]
      BY DEF Init
    <2>5. pc \in [Threads -> Places]
      BY DEF Init, Places
    <2>4. faults \in Nat /\ faults <= MaxFaults
      BY CodesAssumption DEF Init
    <2>7. lost \in Nat /\ lost <= MaxFaults - faults
      BY CodesAssumption DEF Init
    <2>6. overlapped \in BOOLEAN
      BY DEF Init
    <2> QED
      BY <2>2, <2>3, <2>4, <2>5, <2>6, <2>7 DEF CodesTypeOK, FaultsLeft, LostFew
  <1>2. OwnSpacing /\ Spacing /\ TwinPaired
    BY DEF Init, OwnSpacing, Spacing, TwinPaired, Cleared
  <1>3. Finite
    BY DEF Init, Finite, Off, Forever
  <1> QED
    BY <1>1, <1>2, <1>3 DEF IInv

LEMMA LengthType ==
    \A l \in Levels : Length[l] \in 1 .. 20 * Minute
  BY CodesAssumption DEF Length, Levels

(* Codes more than a minute apart, all within five minutes and none within *)
(* the last, are four at most.                                             *)
LEMMA FourFit ==
    ASSUME NEW S, S \subseteq [by : Threads, age : Window, twin : BOOLEAN],
           \A x \in S : x.age > Minute /\ x.age <= 5 * Minute,
           \A x, y \in S : x # y => x.age > y.age + Minute \/ y.age > x.age + Minute
    PROVE  Cardinality(S) \in Nat /\ Cardinality(S) <= 4
  <1> DEFINE bucket(a) == IF a <= 2 * Minute THEN 1
                          ELSE IF a <= 3 * Minute THEN 2
                          ELSE IF a <= 4 * Minute THEN 3 ELSE 4
             f == [x \in S |-> bucket(x.age)]
  <1>1. ASSUME NEW x \in S, NEW y \in S, f[x] = f[y]
        PROVE  x = y
    <2>1. x.age \in Nat /\ y.age \in Nat /\ Minute \in Nat
      BY CodesAssumption DEF Window
    <2>2. bucket(x.age) = bucket(y.age)
      BY <1>1
    <2>3. ~ (x.age > y.age + Minute) /\ ~ (y.age > x.age + Minute)
      BY <2>1, <2>2
    <2> QED
      BY <2>3
  <1>2. f \in [S -> 1 .. 4]
    <2>1. \A x \in S : bucket(x.age) \in 1 .. 4
      OBVIOUS
    <2> QED
      BY <2>1
  <1> HIDE DEF f
  <1>3. f \in Injection(S, 1 .. 4)
    BY <1>1, <1>2 DEF Injection, IsInjective
  <1>4. IsFiniteSet(1 .. 4) /\ Cardinality(1 .. 4) = 4
    <2>1. 1 \in Int /\ 4 \in Int
      OBVIOUS
    <2>2. IsFiniteSet(1 .. 4) /\ Cardinality(1 .. 4) = IF 1 > 4 THEN 0 ELSE 4 - 1 + 1
      BY <2>1, FS_Interval, Zenon
    <2> QED
      BY <2>2
  <1>5. IsFiniteSet(S) /\ Cardinality(S) <= 4
    BY <1>3, <1>4, FS_Injection
  <1> QED
    BY <1>5, FS_CardinalityType

(* Codes more than a minute apart, all within five minutes, are five at    *)
(* most: a minute and a tick holds one of them.                            *)
LEMMA FiveFit ==
    ASSUME NEW S, S \subseteq [by : Threads, age : Window, twin : BOOLEAN],
           \A x \in S : x.age <= 5 * Minute,
           \A x, y \in S : x # y => x.age > y.age + Minute \/ y.age > x.age + Minute
    PROVE  Cardinality(S) \in Nat /\ Cardinality(S) <= 5
  <1> DEFINE bucket(a) == IF a <= Minute THEN 1
                          ELSE IF a <= 2 * Minute + 1 THEN 2
                          ELSE IF a <= 3 * Minute + 2 THEN 3
                          ELSE IF a <= 4 * Minute + 3 THEN 4 ELSE 5
             f == [x \in S |-> bucket(x.age)]
  <1>1. ASSUME NEW x \in S, NEW y \in S, f[x] = f[y]
        PROVE  x = y
    <2>1. /\ x.age \in Nat /\ y.age \in Nat /\ Minute \in Nat
          /\ x.age <= 5 * Minute /\ y.age <= 5 * Minute
      BY CodesAssumption DEF Window
    <2>2. bucket(x.age) = bucket(y.age)
      BY <1>1
    <2>3. ~ (x.age > y.age + Minute) /\ ~ (y.age > x.age + Minute)
      BY <2>1, <2>2
    <2> QED
      BY <2>3
  <1>2. f \in [S -> 1 .. 5]
    <2>1. \A x \in S : bucket(x.age) \in 1 .. 5
      OBVIOUS
    <2> QED
      BY <2>1
  <1> HIDE DEF f
  <1>3. f \in Injection(S, 1 .. 5)
    BY <1>1, <1>2 DEF Injection, IsInjective
  <1>4. IsFiniteSet(1 .. 5) /\ Cardinality(1 .. 5) = 5
    <2>1. 1 \in Int /\ 5 \in Int
      OBVIOUS
    <2>2. IsFiniteSet(1 .. 5) /\ Cardinality(1 .. 5) = IF 1 > 5 THEN 0 ELSE 5 - 1 + 1
      BY <2>1, FS_Interval, Zenon
    <2> QED
      BY <2>2
  <1>5. IsFiniteSet(S) /\ Cardinality(S) <= 5
    BY <1>3, <1>4, FS_Injection
  <1> QED
    BY <1>5, FS_CardinalityType

-----------------------------------------------------------------------------
(* Types.                                                                  *)
LEMMA TypeStep == IInv /\ [Next]_vars => CodesTypeOK'
  <1> SUFFICES ASSUME IInv, [Next]_vars PROVE CodesTypeOK'
    OBVIOUS
  <1> USE DEF IInv, CodesTypeOK, Goto, Places
  <1>1. CASE Tick
    <2>1. sent' \subseteq [by : Threads, age : Window, twin : BOOLEAN]
      <3> SUFFICES ASSUME NEW x \in sent, x.age < 5 * Minute
                   PROVE  [x EXCEPT !.age = @ + 1] \in [by : Threads, age : Window, twin : BOOLEAN]
        BY <1>1 DEF Tick
      <3> QED
        BY CodesAssumption DEF Window
    <2>2. limit' \in [Levels -> -1 .. 20 * Minute]
      BY <1>1, CodesAssumption DEF Tick
    <2> QED
      BY <1>1, <2>1, <2>2 DEF Tick
  <1>2. ASSUME NEW t \in Threads, Call(t)
        PROVE  CodesTypeOK'
    BY <1>2 DEF Call
  <1>3. ASSUME NEW t \in Threads, CheckLevelOne(t) \/ CheckLevelTwo(t) \/ CheckMinute(t)
        PROVE  CodesTypeOK'
    BY <1>3 DEF CheckLevelOne, CheckLevelTwo, CheckLevel, CheckMinute
  <1>4. ASSUME NEW t \in Threads, CheckFive(t)
        PROVE  CodesTypeOK'
    <2>1. Verdict(Cardinality(Within(5 * Minute))) \in Places
      BY DEF Verdict
    <2> QED
      BY <1>4, <2>1 DEF CheckFive
  <1>5. ASSUME NEW t \in Threads, BlockOne(t) \/ BlockTwo(t)
        PROVE  CodesTypeOK'
    BY <1>5, CodesAssumption DEF BlockOne, BlockTwo, SetBlock, Forever, Levels
  <1>6. ASSUME NEW t \in Threads, ExpireOne(t) \/ ExpireTwo(t)
        PROVE  CodesTypeOK'
    BY <1>6, LengthType, CodesAssumption DEF ExpireOne, ExpireTwo, ExpireBlock, Off, Levels
  <1>7. ASSUME NEW t \in Threads, RecordTime(t)
        PROVE  CodesTypeOK'
    <2>1. 0 \in Window
      BY CodesAssumption DEF Window
    <2> QED
      BY <1>7, <2>1 DEF RecordTime, Add
  <1>8. ASSUME NEW t \in Threads, IssueCode(t) \/ CallDies(t)
        PROVE  CodesTypeOK'
    BY <1>8 DEF IssueCode, CallDies
  <1>9. CASE UNCHANGED vars
    BY <1>9 DEF vars
  <1> QED
    BY <1>1, <1>2, <1>3, <1>4, <1>5, <1>6, <1>7, <1>8, <1>9 DEF Next, Serve

LEMMA FaultsStep == IInv /\ [Next]_vars => FaultsLeft'
  <1> SUFFICES ASSUME IInv, [Next]_vars PROVE FaultsLeft'
    OBVIOUS
  <1>1. faults' = faults \/ faults' = faults - 1
    BY DEF Next, Serve, vars, Tick, Call, CheckLevelOne, CheckLevelTwo, CheckLevel,
           CheckMinute, CheckFive, BlockOne, BlockTwo, SetBlock, ExpireOne, ExpireTwo,
           ExpireBlock, IssueCode, RecordTime, CallDies
  <1> QED
    BY <1>1, CodesAssumption DEF IInv, FaultsLeft, CodesTypeOK

LEMMA LostStep == IInv /\ [Next]_vars => LostFew'
  <1> SUFFICES ASSUME IInv, [Next]_vars PROVE LostFew'
    OBVIOUS
  <1>1. \/ UNCHANGED <<faults, lost>>
        \/ faults' = faults - 1 /\ (lost' = lost \/ lost' = lost + 1)
    BY DEF Next, Serve, vars, Tick, Call, CheckLevelOne, CheckLevelTwo, CheckLevel,
           CheckMinute, CheckFive, BlockOne, BlockTwo, SetBlock, ExpireOne, ExpireTwo,
           ExpireBlock, IssueCode, RecordTime, CallDies
  <1> QED
    BY <1>1, CodesAssumption DEF IInv, LostFew, CodesTypeOK

-----------------------------------------------------------------------------
(* Which steps touch the codes, and how a thread comes to send one.        *)
LEMMA SentFrame ==
    ASSUME [Next]_vars
    PROVE  sent' = sent \/ Tick \/ \E t \in Threads : RecordTime(t)
  BY DEF Next, Serve, vars, Call, CheckLevelOne, CheckLevelTwo, CheckLevel, CheckMinute,
         CheckFive, BlockOne, BlockTwo, SetBlock, ExpireOne, ExpireTwo, ExpireBlock, IssueCode,
         CallDies

LEMMA VerdictPlace ==
    ASSUME NEW n \in Nat
    PROVE  /\ Verdict(n) \in {"blocktwo", "blockone", "send"}
           /\ n <= 4 => Verdict(n) = "send"
  BY DEF Verdict

LEMMA PlaceOrigin ==
    ASSUME CodesTypeOK, [Next]_vars, ~ Tick, NEW t \in Threads, pc'[t] \in Cleared
    PROVE  \/ CheckMinute(t) /\ Within(Minute) = {} /\ sent' = sent
           \/ pc[t] \in Cleared
  BY DEF Next, Serve, vars, Call, CheckLevelOne, CheckLevelTwo, CheckLevel, CheckMinute,
         CheckFive, BlockOne, BlockTwo, SetBlock, ExpireOne, ExpireTwo, ExpireBlock,
         IssueCode, RecordTime, CallDies, Goto, Cleared, CodesTypeOK

LEMMA Ages ==
    ASSUME CodesTypeOK, NEW x \in sent
    PROVE  x.by \in Threads /\ x.age \in Nat /\ x.age <= 5 * Minute
  BY CodesAssumption DEF CodesTypeOK, Window

(* An aged code comes from one a tick younger.                             *)
LEMMA TickAges ==
    ASSUME CodesTypeOK, Tick, NEW x \in sent'
    PROVE  \E y \in sent : x.by = y.by /\ x.age = y.age + 1 /\ x = [y EXCEPT !.age = @ + 1]
  BY DEF Tick, CodesTypeOK

LEMMA MinuteFree ==
    ASSUME CodesTypeOK, TwinPaired, Within(Minute) = {}, NEW x \in sent
    PROVE  x.age > Minute
  <1>1. PICK y \in sent : ~ y.twin /\ y.age = x.age
    BY DEF TwinPaired, CodesTypeOK
  <1>2. ~ (y.age <= Minute) /\ y.age \in Nat
    BY <1>1, Ages DEF Within
  <1> QED
    BY <1>1, <1>2, CodesAssumption

LEMMA TwinStep == IInv /\ [Next]_vars => TwinPaired'
  <1> SUFFICES ASSUME IInv, [Next]_vars PROVE TwinPaired'
    OBVIOUS
  <1>0. CodesTypeOK /\ TwinPaired
    BY DEF IInv
  <1>1. CASE Tick
    <2> SUFFICES ASSUME NEW x \in sent', x.twin
                 PROVE  \E y \in sent' : ~ y.twin /\ y.age = x.age
      BY DEF TwinPaired
    <2>1. PICK u \in sent : x = [u EXCEPT !.age = @ + 1] /\ u.age < 5 * Minute
      BY <1>1 DEF Tick
    <2>2. PICK w \in sent : ~ w.twin /\ w.age = u.age
      BY <1>0, <2>1 DEF TwinPaired, CodesTypeOK
    <2>3. [w EXCEPT !.age = @ + 1] \in sent'
      BY <1>1, <2>1, <2>2 DEF Tick
    <2> QED
      BY <1>0, <2>1, <2>2, <2>3 DEF CodesTypeOK
  <1>2. ASSUME NEW t \in Threads, RecordTime(t) PROVE TwinPaired'
    <2>1. PICK twin \in BOOLEAN : /\ twin => Within(0) # {}
                                  /\ sent' = sent \union {[by |-> t, age |-> 0, twin |-> twin]}
      BY <1>2 DEF RecordTime, Add
    <2>2. twin => \E y \in sent : ~ y.twin /\ y.age = 0
      BY <1>0, <2>1, Ages DEF Within
    <2> QED
      BY <1>0, <2>1, <2>2 DEF TwinPaired
  <1> QED
    BY <1>0, <1>1, <1>2, SentFrame DEF TwinPaired

LEMMA OwnSpacingStep == IInv /\ [Next]_vars => OwnSpacing'
  <1> SUFFICES ASSUME IInv, [Next]_vars PROVE OwnSpacing'
    OBVIOUS
  <1> USE DEF IInv
  <1>1. CASE Tick
    <2>1. ASSUME NEW x \in sent', NEW y \in sent', x.by = y.by, x # y
          PROVE  x.age > y.age + Minute \/ y.age > x.age + Minute
      <3>1. PICK u \in sent : x.by = u.by /\ x.age = u.age + 1 /\ x = [u EXCEPT !.age = @ + 1]
        BY <1>1, TickAges
      <3>2. PICK v \in sent : y.by = v.by /\ y.age = v.age + 1 /\ y = [v EXCEPT !.age = @ + 1]
        BY <1>1, TickAges
      <3>3. u.age \in Nat /\ v.age \in Nat
        BY Ages
      <3>4. u.by = v.by /\ u # v
        BY <2>1, <3>1, <3>2
      <3>6. u.age > v.age + Minute \/ v.age > u.age + Minute
        BY <3>4 DEF OwnSpacing
      <3> QED
        BY <3>1, <3>2, <3>3, <3>6, CodesAssumption
    <2>2. ASSUME NEW t \in Threads, pc'[t] \in Cleared, NEW x \in sent', x.by = t
          PROVE  x.age > Minute
      <3>1. PICK u \in sent : x.by = u.by /\ x.age = u.age + 1
        BY <1>1, TickAges
      <3>2. pc[t] \in Cleared
        BY <1>1, <2>2 DEF Tick
      <3> QED
        BY <2>2, <3>1, <3>2, Ages, CodesAssumption DEF OwnSpacing
    <2> QED
      BY <2>1, <2>2 DEF OwnSpacing
  <1>2. ASSUME NEW t \in Threads, RecordTime(t)
        PROVE  OwnSpacing'
    <2>1. \A x \in sent : x.by = t => x.age > Minute
      BY <1>2 DEF RecordTime, OwnSpacing, Cleared
    <2>2. PICK n : n.by = t /\ n.age = 0 /\ sent' = sent \union {n}
      BY <1>2 DEF RecordTime, Add
    <2>3. ASSUME NEW x \in sent', NEW y \in sent', x.by = y.by, x # y
          PROVE  x.age > y.age + Minute \/ y.age > x.age + Minute
      BY <2>1, <2>2, <2>3, Ages, CodesAssumption DEF OwnSpacing
    <2>4. ASSUME NEW s \in Threads, pc'[s] \in Cleared, NEW x \in sent', x.by = s
          PROVE  x.age > Minute
      <3>1. s # t /\ pc[s] \in Cleared
        BY <1>2, <2>4 DEF RecordTime, Goto, Cleared, CodesTypeOK
      <3>2. x \in sent
        BY <2>2, <2>4, <3>1
      <3> QED
        BY <2>4, <3>1, <3>2 DEF OwnSpacing
    <2> QED
      BY <2>3, <2>4 DEF OwnSpacing
  <1>3. CASE sent' = sent /\ ~ Tick
    BY <1>3, PlaceOrigin, MinuteFree DEF OwnSpacing
  <1> QED
    BY <1>1, <1>2, <1>3, SentFrame

-----------------------------------------------------------------------------
(* Calls that do not overlap.                                              *)
LEMMA AloneFrame ==
    ASSUME CodesTypeOK, [Next]_vars, ~ overlapped'
    PROVE  /\ ~ overlapped
           /\ \A t \in Threads : pc[t] = "idle" /\ pc'[t] # "idle" =>
                  \A s \in Threads : s # t => pc[s] = "idle" /\ pc'[s] = "idle"
  BY DEF Next, Serve, vars, Tick, Call, CheckLevelOne, CheckLevelTwo, CheckLevel, CheckMinute,
         CheckFive, BlockOne, BlockTwo, SetBlock, ExpireOne, ExpireTwo, ExpireBlock,
         IssueCode, RecordTime, CallDies, Goto, CodesTypeOK

LEMMA CountsFour ==
    ASSUME IInv, ~ overlapped, NEW t \in Threads, pc[t] \in Cleared
    PROVE  /\ Cardinality(Within(5 * Minute)) \in Nat
           /\ Cardinality(Within(5 * Minute)) <= 4
  <1> DEFINE S == Within(5 * Minute)
  <1>1. S \subseteq sent /\ S \subseteq [by : Threads, age : Window, twin : BOOLEAN]
    BY DEF IInv, CodesTypeOK, Within
  <1>2. \A x \in S : x.age > Minute /\ x.age <= 5 * Minute
    BY DEF IInv, Spacing, Within
  <1>3. \A x, y \in S : x # y => x.age > y.age + Minute \/ y.age > x.age + Minute
    BY <1>1 DEF IInv, Spacing
  <1> HIDE DEF S
  <1>4. Cardinality(S) \in Nat /\ Cardinality(S) <= 4
    BY <1>1, <1>2, <1>3, FourFit
  <1> QED
    BY <1>4 DEF S

LEMMA SpacingStep == IInv /\ [Next]_vars => Spacing'
  <1> SUFFICES ASSUME IInv, [Next]_vars, ~ overlapped' PROVE Spacing'
    BY DEF Spacing
  <1> USE DEF IInv
  <1>1. ~ overlapped
    BY AloneFrame
  <1>2. \A s, t \in Threads : pc'[s] # "idle" /\ pc'[t] # "idle" => s = t
    BY <1>1, AloneFrame DEF Spacing
  <1>3. ASSUME NEW x \in sent', NEW y \in sent', x # y
        PROVE  x.age > y.age + Minute \/ y.age > x.age + Minute
    <2>1. CASE Tick
      <3>1. PICK u \in sent : x.age = u.age + 1 /\ x = [u EXCEPT !.age = @ + 1]
        BY <2>1, TickAges
      <3>2. PICK v \in sent : y.age = v.age + 1 /\ y = [v EXCEPT !.age = @ + 1]
        BY <2>1, TickAges
      <3>3. u # v
        BY <1>3, <3>1, <3>2
      <3>4. u.age > v.age + Minute \/ v.age > u.age + Minute
        BY <1>1, <3>3 DEF Spacing
      <3> QED
        BY <3>1, <3>2, <3>4, Ages, CodesAssumption
    <2>2. ASSUME NEW t \in Threads, RecordTime(t)
          PROVE  x.age > y.age + Minute \/ y.age > x.age + Minute
      <3>1. \A z \in sent : z.age > Minute
        BY <1>1, <2>2 DEF RecordTime, Spacing, Cleared
      <3>2. PICK n : n.age = 0 /\ sent' = sent \union {n}
        BY <2>2 DEF RecordTime, Add
      <3> QED
        BY <1>1, <1>3, <3>1, <3>2, Ages, CodesAssumption DEF Spacing
    <2>3. CASE sent' = sent
      BY <1>1, <1>3, <2>3 DEF Spacing
    <2> QED
      BY <2>1, <2>2, <2>3, SentFrame
  <1>4. ASSUME NEW t \in Threads, pc'[t] \in Cleared, NEW x \in sent'
        PROVE  x.age > Minute
    <2>1. CASE Tick
      <3>1. PICK u \in sent : x.age = u.age + 1
        BY <2>1, TickAges
      <3>2. pc[t] \in Cleared
        BY <1>4, <2>1 DEF Tick
      <3>3. u.age > Minute
        BY <1>1, <3>2 DEF Spacing
      <3> QED
        BY <3>1, <3>3, Ages, CodesAssumption
    <2>2. ASSUME NEW s \in Threads, RecordTime(s)
          PROVE  FALSE
      <3>1. pc[s] = "issued" /\ pc'[s] = "idle" /\ s # t /\ pc'[t] = pc[t]
        BY <1>4, <2>2 DEF RecordTime, Goto, Cleared, CodesTypeOK
      <3> QED
        BY <1>1, <1>4, <3>1 DEF Spacing, Cleared
    <2>3. CASE sent' = sent /\ ~ Tick
      BY <1>1, <1>4, <2>3, PlaceOrigin, MinuteFree DEF Spacing
    <2> QED
      BY <2>1, <2>2, <2>3, SentFrame
  <1>5. ASSUME NEW t \in Threads
        PROVE  pc'[t] \notin {"blockone", "expireone", "blocktwo", "expiretwo"}
    <2>1. pc[t] \notin {"blockone", "expireone", "blocktwo", "expiretwo"}
      BY <1>1 DEF Spacing
    <2>2. ASSUME CheckFive(t)
          PROVE  pc'[t] = "send"
      <3>1. pc[t] = "passed"
        BY <2>2 DEF CheckFive
      <3>2. /\ Cardinality(Within(5 * Minute)) \in Nat
            /\ Cardinality(Within(5 * Minute)) <= 4
        BY <1>1, <3>1, CountsFour DEF Cleared
      <3>3. Verdict(Cardinality(Within(5 * Minute))) = "send"
        BY <3>2, VerdictPlace
      <3> QED
        BY <2>2, <3>3 DEF CheckFive, Goto, CodesTypeOK
    <2> QED
      BY <2>1, <2>2
         DEF Next, Serve, vars, Tick, Call, CheckLevelOne, CheckLevelTwo, CheckLevel,
             CheckMinute, CheckFive, BlockOne, BlockTwo, SetBlock, ExpireOne, ExpireTwo,
             ExpireBlock, IssueCode, RecordTime, CallDies, Goto, CodesTypeOK
  <1>6. ASSUME NEW l \in Levels
        PROVE  limit'[l] = Off
    <2>1. limit[l] = Off
      BY <1>1 DEF Spacing
    <2>2. \A t \in Threads : pc[t] \notin {"blockone", "expireone", "blocktwo", "expiretwo"}
      BY <1>1 DEF Spacing
    <2> QED
      BY <2>1, <2>2
         DEF Next, Serve, vars, Tick, Call, CheckLevelOne, CheckLevelTwo, CheckLevel,
             CheckMinute, CheckFive, BlockOne, BlockTwo, SetBlock, ExpireOne, ExpireTwo,
             ExpireBlock, IssueCode, RecordTime, CallDies, Off, CodesTypeOK
  <1> QED
    BY <1>2, <1>3, <1>4, <1>5, <1>6 DEF Spacing

-----------------------------------------------------------------------------
(* Blocks and their ends.                                                  *)
LEMMA FiniteStep == IInv /\ [Next]_vars => Finite'
  <1> SUFFICES ASSUME IInv, [Next]_vars, NEW l \in Levels, limit'[l] = Forever,
                      ~ (faults' < MaxFaults)
               PROVE  \E t \in Threads : pc'[t] = Expiring[l]
    BY DEF Finite
  <1> USE DEF IInv
  <1>1. faults' = faults /\ faults = MaxFaults
    <2>1. faults' = faults \/ faults' = faults - 1
      BY DEF Next, Serve, vars, Tick, Call, CheckLevelOne, CheckLevelTwo, CheckLevel,
             CheckMinute, CheckFive, BlockOne, BlockTwo, SetBlock, ExpireOne, ExpireTwo,
             ExpireBlock, IssueCode, RecordTime, CallDies
    <2> QED
      BY <2>1, CodesAssumption DEF FaultsLeft, CodesTypeOK
  <1>2. ~ \E t \in Threads : CallDies(t)
    BY <1>1, CodesAssumption DEF CallDies
  <1>3. CASE limit[l] = Forever
    <2>1. PICK t \in Threads : pc[t] = Expiring[l]
      BY <1>1, <1>3, CodesAssumption DEF Finite
    <2>2. CASE pc'[t] = pc[t]
      BY <2>1, <2>2
    <2>3. CASE pc'[t] # pc[t]
      <3>1. ExpireOne(t) \/ ExpireTwo(t)
        BY <1>2, <2>1, <2>3
           DEF Expiring, Levels, Next, Serve, vars, Tick, Call, CheckLevelOne, CheckLevelTwo,
               CheckLevel, CheckMinute, CheckFive, BlockOne, BlockTwo, SetBlock, ExpireOne,
               ExpireTwo, ExpireBlock, IssueCode, RecordTime, Goto, CodesTypeOK
      <3>2. limit'[l] = Length[l]
        BY <1>3, <2>1, <3>1
           DEF Expiring, Levels, ExpireOne, ExpireTwo, ExpireBlock, Off, Forever, CodesTypeOK
      <3> QED
        BY <3>2, LengthType, CodesAssumption DEF Forever
    <2> QED
      BY <2>2, <2>3
  <1>4. CASE limit[l] # Forever
    <2>1. ~ Tick
      BY <1>4, CodesAssumption DEF Tick, Forever, CodesTypeOK
    <2>2. ~ \E t \in Threads : ExpireOne(t) \/ ExpireTwo(t)
      <3>1. Length[l] # Forever
        BY LengthType, CodesAssumption DEF Forever
      <3> QED
        BY <1>4, <3>1 DEF ExpireOne, ExpireTwo, ExpireBlock, Forever, Off, CodesTypeOK
    <2>3. \E t \in Threads : \/ l = "one" /\ BlockOne(t)
                             \/ l = "two" /\ BlockTwo(t)
      BY <1>2, <1>4, <2>1, <2>2
         DEF Levels, Next, Serve, vars, Call, CheckLevelOne, CheckLevelTwo, CheckLevel,
             CheckMinute, CheckFive, BlockOne, BlockTwo, SetBlock, IssueCode, RecordTime,
             CodesTypeOK
    <2> QED
      BY <2>3 DEF Expiring, Levels, BlockOne, BlockTwo, SetBlock, Goto, CodesTypeOK
  <1> QED
    BY <1>3, <1>4

-----------------------------------------------------------------------------
(* The invariant is inductive, for any number of threads.                  *)
THEOREM InductiveInvariant == Spec => []IInv
  <1>1. IInv /\ [Next]_vars => IInv'
    BY TypeStep, FaultsStep, LostStep, TwinStep, OwnSpacingStep, SpacingStep, FiniteStep
       DEF IInv
  <1> QED
    BY InitInv, <1>1, PTL DEF Spec

(* Every variable of sendCode keeps its type; a block lasts 20 minutes at  *)
(* most or for ever.                                                       *)
THEOREM TypeCorrectness == Spec => []CodesTypeOK
  <1>1. IInv => CodesTypeOK
    BY DEF IInv
  <1> QED
    BY InductiveInvariant, <1>1, PTL

\* A thread about to record a code has none of the last minute.
LEMMA IssuingSpaced ==
    ASSUME IInv, NEW t \in Issuing, NEW x \in sent, x.by = t
    PROVE  x.age > Minute
  BY DEF IInv, OwnSpacing, Issuing, Cleared

LEMMA LostBound ==
    ASSUME IInv
    PROVE  lost \in Nat /\ Died \in Nat /\ lost <= Died
  BY CodesAssumption DEF IInv, CodesTypeOK, FaultsLeft, LostFew, Died

(* However the calls of sendCode overlap or die, no minute sees more codes *)
(* than there are threads and, for each call that died, one.               *)
THEOREM BurstsAreBounded == Spec => []BurstBound
  <1>1. IInv => BurstBound
    <2> SUFFICES ASSUME IInv PROVE BurstBound
      OBVIOUS
    <2> DEFINE S == {x \in sent : x.age <= Minute}
               f == [x \in S |-> x.by]
    <2>1. ASSUME NEW x \in S, NEW y \in S, f[x] = f[y]
          PROVE  x = y
      <3>1. x.age \in Nat /\ y.age \in Nat /\ Minute \in Nat
        BY Ages, CodesAssumption DEF IInv
      <3>2. x.by = y.by
        BY <2>1
      <3>3. ~ (y.age > x.age + Minute) /\ ~ (x.age > y.age + Minute)
        BY <3>1
      <3> QED
        BY <3>2, <3>3 DEF IInv, OwnSpacing
    <2>2. f \in [S -> Threads \ Issuing]
      <3>1. \A x \in S : x.by \in Threads /\ x.age \in Nat
        BY Ages DEF IInv
      <3>2. \A x \in S : x.by \notin Issuing
        BY <3>1, IssuingSpaced, CodesAssumption
      <3> QED
        BY <3>1, <3>2
    <2>3. f \in Injection(S, Threads \ Issuing)
      BY <2>1, <2>2 DEF Injection, IsInjective
    <2>4. /\ IsFiniteSet(Threads \ Issuing)
          /\ Cardinality(Threads \ Issuing) = Cardinality(Threads) - Cardinality(Issuing)
      <3>1. Threads \cap Issuing = Issuing
        BY DEF Issuing
      <3> QED
        BY <3>1, FS_Difference, CodesAssumption
    <2>5. IsFiniteSet(S) /\ Cardinality(S) <= Cardinality(Threads \ Issuing)
      BY <2>3, <2>4, FS_Injection
    <2>6. /\ Cardinality(S) \in Nat /\ Cardinality(Threads) \in Nat
          /\ Cardinality(Issuing) \in Nat
      <3>1. Issuing \subseteq Threads
        BY DEF Issuing
      <3> QED
        BY <2>5, <3>1, FS_Subset, FS_CardinalityType, CodesAssumption
    <2> HIDE DEF S
    <2>7. Cardinality(S) + Cardinality(Issuing) + lost <= Cardinality(Threads) + Died
      BY <2>4, <2>5, <2>6, LostBound
    <2> QED
      BY <2>7 DEF S, BurstBound
  <1> QED
    BY InductiveInvariant, <1>1, PTL

(* However the calls of sendCode overlap or die and whatever blocks they   *)
(* step over, no thread sets more than five codes in five minutes and, for *)
(* each call that died, one.                                               *)
THEOREM FloodsAreBounded == Spec => []FloodBound
  <1>1. IInv => FloodBound
    <2> SUFFICES ASSUME IInv, NEW t \in Threads
                 PROVE  Cardinality({x \in sent : x.by = t})
                          + Cardinality(Issuing \intersect {t}) + lost <= 5 + Died
      BY DEF FloodBound
    <2> DEFINE S == {x \in sent : x.by = t}
    <2>1. CodesTypeOK /\ OwnSpacing
      BY DEF IInv
    <2>2. S \subseteq sent /\ S \subseteq [by : Threads, age : Window, twin : BOOLEAN]
      BY <2>1 DEF CodesTypeOK
    <2>3. \A x \in S : x.age <= 5 * Minute
      BY <2>1, Ages
    <2>4. ASSUME NEW x \in S, NEW y \in S, x # y
          PROVE  x.age > y.age + Minute \/ y.age > x.age + Minute
      BY <2>1, <2>4 DEF OwnSpacing
    <2>5. t \in Issuing => \A x \in S : x.age > Minute
      BY IssuingSpaced
    <2> HIDE DEF S
    <2>6. CASE t \in Issuing
      <3>1. Cardinality(S) \in Nat /\ Cardinality(S) <= 4
        BY <2>2, <2>3, <2>4, <2>5, <2>6, FourFit
      <3>2. Cardinality(Issuing \intersect {t}) = 1
        <4>1. Issuing \intersect {t} = {t}
          BY <2>6
        <4> QED
          BY <4>1, FS_Singleton
      <3>3. Cardinality(S) + Cardinality(Issuing \intersect {t}) + lost <= 5 + Died
        BY <3>1, <3>2, LostBound
      <3> QED
        BY <3>3 DEF S
    <2>7. CASE t \notin Issuing
      <3>1. Cardinality(S) \in Nat /\ Cardinality(S) <= 5
        BY <2>2, <2>3, <2>4, FiveFit
      <3>2. Cardinality(Issuing \intersect {t}) = 0
        <4>1. Issuing \intersect {t} = {}
          BY <2>7
        <4> QED
          BY <4>1, FS_EmptySet
      <3>3. Cardinality(S) + Cardinality(Issuing \intersect {t}) + lost <= 5 + Died
        BY <3>1, <3>2, LostBound
      <3> QED
        BY <3>3 DEF S
    <2> QED
      BY <2>6, <2>7
  <1> QED
    BY InductiveInvariant, <1>1, PTL

(* Calls of sendCode that do not overlap send four codes in five minutes   *)
(* at most before the one under way, and never meet or set a block.        *)
THEOREM SingleCallersAreNotBlocked == Spec => []AloneNeverBlocked
  <1>1. IInv => AloneNeverBlocked
    BY CountsFour DEF AloneNeverBlocked, IInv, Spacing, Cleared
  <1> QED
    BY InductiveInvariant, <1>1, PTL

(* A block of sendCode without an end needs a call that died between SADD  *)
(* and EXPIRE, or one that is between them now.                            *)
THEOREM BlocksEndUnlessACallDied == Spec => []BlockEnds
  <1>1. IInv => BlockEnds
    BY DEF IInv, BlockEnds, Finite, Expiring, Levels
  <1> QED
    BY InductiveInvariant, <1>1, PTL
=============================================================================
