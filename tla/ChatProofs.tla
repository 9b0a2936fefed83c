----------------------------- MODULE ChatProofs -----------------------------
(***************************************************************************)
(* Theorems about one conversation, for any finite number of calls, any    *)
(* window and threshold, any number of retries and faults.                 *)
(*                                                                         *)
(* The argument.  A call trims only what it read to be too much (Surplus), *)
(* so each trim pays for the append of its call, and only calls that died  *)
(* before theirs leave the list too long (WindowBounded).  While appends   *)
(* do not overlap, the size that a call read is still the size when it     *)
(* trims (SoloTrim), so no trim reaches the last WindowMax messages        *)
(* (KeepsRecent).  A profile task holds a count of at most the updates     *)
(* made so far, and while tasks do not overlap the one at work holds the   *)
(* row as it is (HeldCount).                                               *)
(*                                                                         *)
(* For the summaries: while calls take turns and nothing fails, a task has *)
(* read the list before the answer of its call is appended (ByTurns,       *)
(* OneTask), and once the list has reached the threshold each task notes   *)
(* all that it finds.  So at most two messages, an answer and the next     *)
(* question, are not noted yet (KeepsPace), and a window of two or more    *)
(* that begins to drop messages at the threshold or later has dropped      *)
(* neither.  Each step of a call uses up one of the steps it has left      *)
(* (StepsLeft).                                                            *)
(***************************************************************************)
EXTENDS Chat, SequenceTheorems, FiniteSetTheorems, TLAPS

Surplus == \A c \in Calls : pc[c] = "trim" => seen[c] > WindowMax

SoloTrim ==
    solo => /\ \A c, d \in Appending : c = d
            /\ \A c \in Calls : pc[c] = "trim" => seen[c] = Len(window)

HeldCount ==
    /\ \A c \in Updating : TurnsIn(held[c]) <= turns
    /\ alone => /\ \A c, d \in Updating : c = d
                /\ \A c \in Updating : held[c] = row

\* What every reachable state satisfies and every step preserves.
IInv ==
    /\ ChatTypeOK /\ Surplus /\ SoloTrim /\ HeldCount
    /\ KeepsRecent /\ WindowBounded /\ TurnsCounted

-----------------------------------------------------------------------------
(* What RPUSH and LTRIM do to the list.                                    *)

\* The list holds the last of the messages said, in order.
Latest(s, n) ==
    /\ s \in Seq(Nat)
    /\ Len(s) <= n
    /\ \A i \in 1 .. Len(s) : s[i] = n - Len(s) + i

LEMMA LatestAppend ==
    ASSUME NEW s, NEW n \in Nat, Latest(s, n)
    PROVE  Latest(Append(s, n + 1), n + 1) /\ Len(Append(s, n + 1)) = Len(s) + 1
  <1> DEFINE t == Append(s, n + 1)
  <1>1. s \in Seq(Nat) /\ Len(s) \in Nat /\ Len(s) <= n
    BY LenProperties DEF Latest
  <1>2. /\ t \in Seq(Nat) /\ Len(t) = Len(s) + 1
        /\ \A i \in 1 .. Len(s) : t[i] = s[i]
        /\ t[Len(s) + 1] = n + 1
    BY <1>1, AppendProperties
  <1>3. ASSUME NEW i \in 1 .. Len(t) PROVE t[i] = n + 1 - Len(t) + i
    <2>1. CASE i \in 1 .. Len(s)
      BY <1>1, <1>2, <2>1 DEF Latest
    <2>2. CASE i = Len(s) + 1
      BY <1>1, <1>2, <2>2
    <2> QED
      BY <1>1, <1>2, <2>1, <2>2
  <1> QED
    BY <1>1, <1>2, <1>3 DEF Latest

LEMMA LatestDrop ==
    ASSUME NEW s, NEW n \in Nat, Latest(s, n), NEW k \in Nat
    PROVE  /\ Latest(Drop(s, k), n)
           /\ Len(Drop(s, k)) \in Nat
           /\ Len(Drop(s, k)) = IF k < Len(s) THEN Len(s) - k ELSE 0
           /\ \A i \in 1 .. Len(Drop(s, k)) : Drop(s, k)[i] \in 1 .. n
  <1> DEFINE t == Drop(s, k)
             len == Len(s)
  <1>1. s \in Seq(Nat) /\ len \in Nat /\ len <= n
    BY LenProperties DEF Latest
  <1>2. \A i \in k + 1 .. len : s[i] \in Nat
    BY <1>1, ElementOfSeq
  <1>3. /\ t \in Seq(Nat)
        /\ Len(t) = IF k + 1 <= len THEN len - (k + 1) + 1 ELSE 0
        /\ \A i \in 1 .. len - (k + 1) + 1 : t[i] = s[k + 1 + i - 1]
    <2>1. k + 1 \in Int /\ len \in Int
      BY <1>1
    <2> HIDE DEF len
    <2>2. /\ SubSeq(s, k + 1, len) \in Seq(Nat)
          /\ Len(SubSeq(s, k + 1, len)) = IF k + 1 <= len THEN len - (k + 1) + 1 ELSE 0
          /\ \A i \in 1 .. len - (k + 1) + 1 : SubSeq(s, k + 1, len)[i] = s[k + 1 + i - 1]
      BY <1>2, <2>1, SubSeqProperties
    <2> QED
      BY <2>2 DEF Drop, len
  <1>4. Len(t) \in Nat /\ Len(t) = IF k < len THEN len - k ELSE 0
    BY <1>1, <1>3
  <1>5. ASSUME NEW i \in 1 .. Len(t)
        PROVE  t[i] = n - Len(t) + i /\ t[i] \in 1 .. n
    <2>1. k < len /\ Len(t) = len - k /\ i \in 1 .. len - (k + 1) + 1
      BY <1>1, <1>4
    <2>2. t[i] = s[k + i]
      <3>1. t[i] = s[k + 1 + i - 1]
        BY <1>3, <2>1
      <3>2. k + 1 + i - 1 = k + i
        OBVIOUS
      <3> QED
        BY <3>1, <3>2
    <2>3. k + i \in 1 .. len
      BY <1>1, <2>1
    <2>4. s[k + i] = n - len + (k + i)
      BY <2>3 DEF Latest
    <2> QED
      BY <1>1, <2>1, <2>2, <2>4
  <1>6. Len(t) <= n
    BY <1>1, <1>4
  <1> QED
    BY <1>3, <1>4, <1>5, <1>6 DEF Latest

-----------------------------------------------------------------------------
LEMMA InitInv == Init => IInv
  <1> SUFFICES ASSUME Init PROVE IInv
    OBVIOUS
  <1>1. window \in Seq(Nat) /\ Len(window) = 0 /\ said = 0
    BY EmptySeq DEF Init
  <1>2. ChatTypeOK
    BY <1>1, ChatAssumption DEF Init, ChatTypeOK
  <1>3. Appending = {} /\ Updating = {}
    BY DEF Init, Appending, Updating
  <1>4. Surplus /\ SoloTrim /\ HeldCount /\ TurnsCounted
    BY <1>3 DEF Init, Surplus, SoloTrim, HeldCount, TurnsCounted, TurnsIn, NoRow
  <1>5. KeepsRecent
    BY <1>1, ChatAssumption DEF KeepsRecent, Lesser
  <1>6. WindowBounded
    <2>1. Cardinality(Calls) \in Nat /\ Cardinality(Appending) = 0
      BY <1>3, FS_EmptySet, FS_CardinalityType, ChatAssumption
    <2>2. faults = MaxFaults /\ MaxFaults \in Nat /\ WindowMax \in Nat
      BY ChatAssumption DEF Init
    <2>3. (MaxFaults - faults) * Cardinality(Calls) = 0
      BY <2>1, <2>2
    <2> QED
      BY <1>1, <2>1, <2>2, <2>3 DEF WindowBounded
  <1> QED
    BY <1>2, <1>4, <1>5, <1>6 DEF IInv

-----------------------------------------------------------------------------
(* Types, part by part.                                                    *)
CallTypes ==
    /\ touched \in {"never", "lately", "long ago"}
    /\ pc \in [Calls -> {"append", "size", "trim", "touch", "agent", "over"}]
    /\ role \in [Calls -> {"user", "assistant"}]
    /\ seen \in [Calls -> Nat]
    /\ tries \in [Calls -> 0 .. MaxRetry]

TaskTypes ==
    /\ squeeze \in [Calls -> {"none", "count", "idle", "read", "ask", "over"}]
    /\ portrait \in [Calls -> {"none", "select", "write", "over"}]
    /\ held \in [Calls -> Nat \union {NoRow}]
    /\ row \in Nat \union {NoRow}
    /\ turns \in Nat
    /\ faults \in 0 .. MaxFaults

SummaryTypes ==
    /\ text \in [Calls -> SUBSET (1 .. said)]
    /\ covered \subseteq 1 .. said

FlagTypes == solo \in BOOLEAN /\ kept \in BOOLEAN /\ alone \in BOOLEAN

ListTypes == said \in Nat /\ Latest(window, said)

LEMMA TypeParts ==
    ChatTypeOK <=> CallTypes /\ TaskTypes /\ SummaryTypes /\ FlagTypes /\ ListTypes
  BY DEF ChatTypeOK, CallTypes, TaskTypes, SummaryTypes, FlagTypes, ListTypes, Latest

(* Which steps touch the list, and how.                                    *)
LEMMA ListFrame ==
    ASSUME [Next]_vars
    PROVE  \/ \E c \in Calls : AppendMessage(c) \/ Trim(c)
           \/ Expire
           \/ UNCHANGED <<window, said>>
  <1> USE DEF listVars, callVars, squeezeVars, rowVars
  <1>1. ASSUME NEW c \in Calls,
               Converse(c) \/ Compress(c) \/ Profile(c), ~ AppendMessage(c), ~ Trim(c)
        PROVE  UNCHANGED <<window, said>>
    BY <1>1 DEF Converse, Compress, Profile, ReadSize, Touch, AgentAnswers, Retry, GiveUp,
                Count, CheckIdle, ReadRecent, StoreSummary, SelectRow, InsertRow, UpdateRow
  <1>2. ASSUME NEW c \in Calls, CallFails(c) \/ CompressionFails(c) \/ UpdateFails(c)
        PROVE  UNCHANGED <<window, said>>
    BY <1>2 DEF CallFails, CompressionFails, UpdateFails
  <1>3. CASE Crash \/ GrowOld
    BY <1>3 DEF Crash, GrowOld
  <1>4. CASE UNCHANGED vars
    BY <1>4 DEF vars
  <1> QED
    BY <1>1, <1>2, <1>3, <1>4 DEF Next

LEMMA ListStep == IInv /\ [Next]_vars => ListTypes'
  <1> SUFFICES ASSUME IInv, [Next]_vars PROVE ListTypes'
    OBVIOUS
  <1>0. said \in Nat /\ Latest(window, said) /\ Surplus /\ seen \in [Calls -> Nat]
    BY TypeParts DEF IInv, ListTypes, CallTypes
  <1>1. ASSUME NEW c \in Calls, AppendMessage(c) PROVE ListTypes'
    <2>1. said' = said + 1 /\ window' = Append(window, said + 1)
      BY <1>1 DEF AppendMessage
    <2>2. Latest(Append(window, said + 1), said + 1) /\ said + 1 \in Nat
      BY <1>0, LatestAppend
    <2> QED
      BY <2>1, <2>2 DEF ListTypes
  <1>2. ASSUME NEW c \in Calls, Trim(c) PROVE ListTypes'
    <2>1. said' = said /\ window' = Drop(window, seen[c] - WindowMax)
      BY <1>2 DEF Trim
    <2>2. seen[c] - WindowMax \in Nat
      BY <1>0, <1>2, ChatAssumption DEF Trim, Surplus
    <2>3. Latest(Drop(window, seen[c] - WindowMax), said)
      BY <1>0, <2>2, LatestDrop
    <2> QED
      BY <1>0, <2>1, <2>3 DEF ListTypes
  <1>3. CASE Expire
    <2>1. window' = << >> /\ said' = 0
      BY <1>3 DEF Expire
    <2>2. << >> \in Seq(Nat) /\ Len(<< >>) = 0
      BY EmptySeq
    <2>3. Latest(<< >>, 0)
      BY <2>2 DEF Latest
    <2> QED
      BY <2>1, <2>3 DEF ListTypes
  <1>4. CASE UNCHANGED <<window, said>>
    BY <1>0, <1>4 DEF ListTypes
  <1> QED
    BY <1>1, <1>2, <1>3, <1>4, ListFrame

LEMMA CallTypesStep == IInv /\ [Next]_vars => CallTypes'
  <1> SUFFICES ASSUME IInv, [Next]_vars PROVE CallTypes'
    OBVIOUS
  <1>0. CallTypes
    BY TypeParts DEF IInv
  <1>a. window \in Seq(Nat)
    BY TypeParts DEF IInv, ListTypes, Latest
  <1>b. Len(window) \in Nat
    BY <1>a, LenProperties
  <1>c. seen \in [Calls -> Nat] /\ tries \in [Calls -> 0 .. MaxRetry]
    BY <1>0 DEF CallTypes
  <1>d. MaxRetry \in Nat
    BY ChatAssumption
  <1>1. ASSUME NEW c \in Calls, AppendMessage(c) \/ Trim(c) \/ Touch(c) PROVE CallTypes'
    <2>1. \E p \in {"size", "touch", "agent", "over"} : pc' = [pc EXCEPT ![c] = p]
      BY <1>1 DEF AppendMessage, Trim, Touch, Goto
    <2>2. seen' = seen \/ seen' = [seen EXCEPT ![c] = 0]
      BY <1>1 DEF AppendMessage, Trim, Touch
    <2>3. touched' = touched \/ touched' = "lately"
      BY <1>1 DEF AppendMessage, Trim, Touch
    <2>4. role' = role /\ tries' = tries
      BY <1>1 DEF AppendMessage, Trim, Touch
    <2>5. pc' \in [Calls -> {"append", "size", "trim", "touch", "agent", "over"}]
      BY <1>0, <2>1 DEF CallTypes
    <2>6. seen' \in [Calls -> Nat]
      BY <1>c, <2>2
    <2>7. touched' \in {"never", "lately", "long ago"}
      BY <1>0, <2>3 DEF CallTypes
    <2>8. role' \in [Calls -> {"user", "assistant"}] /\ tries' \in [Calls -> 0 .. MaxRetry]
      BY <1>0, <2>4 DEF CallTypes
    <2> QED
      BY <2>5, <2>6, <2>7, <2>8 DEF CallTypes
  <1> USE DEF CallTypes, listVars, callVars, squeezeVars, rowVars, Goto, Reply, Squeezing
  <1>2. ASSUME NEW c \in Calls, ReadSize(c) PROVE CallTypes'
    <2>1. \E p \in {"trim", "touch"} : pc' = [pc EXCEPT ![c] = p]
      BY <1>2 DEF ReadSize
    <2>2. \E n \in Nat : seen' = seen \/ seen' = [seen EXCEPT ![c] = n]
      BY <1>b, <1>2 DEF ReadSize
    <2>3. UNCHANGED <<touched, role, tries>>
      BY <1>2 DEF ReadSize
    <2> QED
      BY <1>0, <2>1, <2>2, <2>3
  <1>3. ASSUME NEW c \in Calls, AgentAnswers(c) \/ Retry(c) \/ GiveUp(c) PROVE CallTypes'
    <2>1. CASE Retry(c)
      <3>1. tries[c] < MaxRetry /\ tries' = [tries EXCEPT ![c] = tries[c] + 1]
        BY <2>1 DEF Retry
      <3>2. UNCHANGED <<touched, pc, role, seen>>
        BY <2>1 DEF Retry
      <3>3. tries[c] + 1 \in 0 .. MaxRetry
        <4>1. tries[c] \in 0 .. MaxRetry
          BY <1>c
        <4> QED
          BY <1>d, <3>1, <4>1
      <3>4. tries' \in [Calls -> 0 .. MaxRetry]
        BY <1>c, <3>1, <3>3
      <3> QED
        BY <1>0, <3>2, <3>4
    <2>2. CASE AgentAnswers(c) \/ GiveUp(c)
      <3>1. role' = [role EXCEPT ![c] = "assistant"] /\ pc' = [pc EXCEPT ![c] = "append"]
        BY <2>2 DEF AgentAnswers, GiveUp
      <3>2. UNCHANGED <<touched, seen, tries>>
        BY <2>2 DEF AgentAnswers, GiveUp
      <3> QED
        BY <1>0, <3>1, <3>2
    <2> QED
      BY <1>3, <2>1, <2>2
  <1>4. ASSUME NEW c \in Calls, Compress(c) \/ Profile(c) PROVE CallTypes'
    BY <1>0, <1>4 DEF Compress, Profile, Count, CheckIdle, ReadRecent, StoreSummary,
                      SelectRow, InsertRow, UpdateRow
  <1>5. ASSUME NEW c \in Calls, CallFails(c) \/ CompressionFails(c) \/ UpdateFails(c)
        PROVE  CallTypes'
    BY <1>0, <1>5 DEF CallFails, CompressionFails, UpdateFails
  <1>6. CASE Crash
    <2>1. pc' \in [Calls -> {"append", "size", "trim", "touch", "agent", "over"}]
      BY <1>0, <1>6 DEF Crash
    <2>2. UNCHANGED <<touched, role, seen, tries>>
      BY <1>6 DEF Crash
    <2> QED
      BY <1>0, <2>1, <2>2
  <1>7. CASE GrowOld \/ Expire \/ UNCHANGED vars
    BY <1>0, <1>7 DEF GrowOld, Expire, vars
  <1> QED
    BY <1>1, <1>2, <1>3, <1>4, <1>5, <1>6, <1>7 DEF Next, Converse

LEMMA TaskTypesStep == IInv /\ [Next]_vars => TaskTypes'
  <1> SUFFICES ASSUME IInv, [Next]_vars PROVE TaskTypes'
    OBVIOUS
  <1>0. TaskTypes /\ MaxFaults \in Nat
    BY TypeParts, ChatAssumption DEF IInv
  <1> USE DEF TaskTypes, listVars, callVars, squeezeVars, rowVars, Squeezing
  <1>1. ASSUME NEW c \in Calls, Converse(c), ~ Touch(c) PROVE TaskTypes'
    BY <1>0, <1>1 DEF Converse, AppendMessage, ReadSize, Trim, AgentAnswers, Retry, GiveUp
  <1>2. ASSUME NEW c \in Calls, Touch(c) PROVE TaskTypes'
    BY <1>0, <1>2 DEF Touch
  <1>3. ASSUME NEW c \in Calls, Compress(c) PROVE TaskTypes'
    <2>1. \E s \in {"idle", "read", "ask", "over"} : squeeze' = [squeeze EXCEPT ![c] = s]
      BY <1>3 DEF Compress, Count, CheckIdle, ReadRecent, StoreSummary
    <2>2. UNCHANGED <<portrait, held, row, turns, faults>>
      BY <1>3 DEF Compress, Count, CheckIdle, ReadRecent, StoreSummary
    <2> QED
      BY <1>0, <2>1, <2>2
  <1>4. ASSUME NEW c \in Calls, Profile(c) PROVE TaskTypes'
    <2>1. CASE SelectRow(c)
      BY <1>0, <2>1 DEF SelectRow
    <2>2. CASE InsertRow(c)
      BY <1>0, <2>2 DEF InsertRow
    <2>3. CASE UpdateRow(c)
      BY <1>0, <2>3 DEF UpdateRow
    <2> QED
      BY <1>4, <2>1, <2>2, <2>3 DEF Profile
  <1>5. ASSUME NEW c \in Calls, CallFails(c) \/ CompressionFails(c) \/ UpdateFails(c)
        PROVE  TaskTypes'
    BY <1>0, <1>5 DEF CallFails, CompressionFails, UpdateFails
  <1>6. CASE Crash
    BY <1>0, <1>6 DEF Crash
  <1>7. CASE GrowOld \/ Expire \/ UNCHANGED vars
    BY <1>0, <1>7 DEF GrowOld, Expire, vars
  <1> QED
    BY <1>1, <1>2, <1>3, <1>4, <1>5, <1>6, <1>7 DEF Next

LEMMA SummaryTypesStep == IInv /\ [Next]_vars => SummaryTypes'
  <1> SUFFICES ASSUME IInv, [Next]_vars PROVE SummaryTypes'
    OBVIOUS
  <1>0. SummaryTypes /\ said \in Nat /\ Latest(window, said)
    BY TypeParts DEF IInv, ListTypes
  <1> USE DEF SummaryTypes, listVars, callVars, squeezeVars, rowVars
  <1>1. ASSUME NEW c \in Calls, AppendMessage(c) PROVE SummaryTypes'
    <2>1. said' = said + 1 /\ UNCHANGED <<text, covered>>
      BY <1>1 DEF AppendMessage
    <2>2. 1 .. said \subseteq 1 .. said'
      BY <1>0, <2>1
    <2> QED
      BY <1>0, <2>1, <2>2
  <1>2. ASSUME NEW c \in Calls, ReadRecent(c) PROVE SummaryTypes'
    <2> DEFINE k == Len(window) - Lesser(WindowMax, Len(window))
    <2>1. window \in Seq(Nat)
      BY <1>0 DEF Latest
    <2>2. Len(window) \in Nat /\ WindowMax \in Nat
      BY <2>1, LenProperties, ChatAssumption
    <2>3. k \in Nat
      BY <2>2 DEF Lesser
    <2>4. Recent(window) = Drop(window, k)
      BY DEF Recent
    <2> HIDE DEF k
    <2>5. \A i \in 1 .. Len(Recent(window)) : Recent(window)[i] \in 1 .. said
      BY <1>0, <2>3, <2>4, LatestDrop
    <2> DEFINE T == {Recent(window)[i] : i \in 1 .. Len(Recent(window))}
    <2>6. T \subseteq 1 .. said
      BY <2>5
    <2>7. text' = [text EXCEPT ![c] = T] /\ UNCHANGED <<said, covered>>
      BY <1>2 DEF ReadRecent
    <2> HIDE DEF T
    <2> QED
      BY <1>0, <2>6, <2>7
  <1>3. ASSUME NEW c \in Calls, StoreSummary(c) PROVE SummaryTypes'
    <2>1. covered' = covered \union text[c] /\ text' = [text EXCEPT ![c] = {}] /\ said' = said
      BY <1>3 DEF StoreSummary
    <2> QED
      BY <1>0, <2>1
  <1>4. CASE Expire
    BY <1>4 DEF Expire
  <1>5. ASSUME UNCHANGED <<text, covered, said>> PROVE SummaryTypes'
    BY <1>0, <1>5
  <1>6. ASSUME NEW c \in Calls, Converse(c), ~ AppendMessage(c)
        PROVE  UNCHANGED <<text, covered, said>>
    BY <1>6 DEF Converse, ReadSize, Trim, Touch, AgentAnswers, Retry, GiveUp
  <1>7. ASSUME NEW c \in Calls, Count(c) \/ CheckIdle(c) \/ Profile(c)
        PROVE  UNCHANGED <<text, covered, said>>
    BY <1>7 DEF Count, CheckIdle, Profile, SelectRow, InsertRow, UpdateRow
  <1>8. ASSUME NEW c \in Calls, CallFails(c) \/ CompressionFails(c) \/ UpdateFails(c)
        PROVE  UNCHANGED <<text, covered, said>>
    BY <1>8 DEF CallFails, CompressionFails, UpdateFails
  <1>9. CASE Crash \/ GrowOld \/ UNCHANGED vars
    BY <1>5, <1>9 DEF Crash, GrowOld, vars
  <1> QED
    BY <1>1, <1>2, <1>3, <1>4, <1>5, <1>6, <1>7, <1>8, <1>9 DEF Next, Compress

LEMMA FlagTypesStep == IInv /\ [Next]_vars => FlagTypes'
  <1> SUFFICES ASSUME IInv, [Next]_vars PROVE FlagTypes'
    OBVIOUS
  <1>0. FlagTypes
    BY TypeParts DEF IInv
  <1> USE DEF FlagTypes, rowVars
  <1>1. ASSUME NEW c \in Calls, Converse(c) PROVE FlagTypes'
    BY <1>0, <1>1 DEF Converse, AppendMessage, ReadSize, Trim, Touch, AgentAnswers, Retry,
                      GiveUp
  <1>2. ASSUME NEW c \in Calls, Compress(c) \/ Profile(c) PROVE FlagTypes'
    BY <1>0, <1>2 DEF Compress, Profile, Count, CheckIdle, ReadRecent, StoreSummary,
                      SelectRow, InsertRow, UpdateRow
  <1>3. ASSUME NEW c \in Calls, CallFails(c) \/ CompressionFails(c) \/ UpdateFails(c)
        PROVE  FlagTypes'
    BY <1>0, <1>3 DEF CallFails, CompressionFails, UpdateFails
  <1>4. CASE Crash \/ GrowOld \/ Expire \/ UNCHANGED vars
    BY <1>0, <1>4 DEF Crash, GrowOld, Expire, vars
  <1> QED
    BY <1>1, <1>2, <1>3, <1>4 DEF Next

LEMMA TypeStep == IInv /\ [Next]_vars => ChatTypeOK'
  <1> SUFFICES ASSUME IInv, [Next]_vars PROVE ChatTypeOK'
    OBVIOUS
  <1>1. CallTypes' /\ TaskTypes' /\ SummaryTypes' /\ FlagTypes' /\ ListTypes'
    BY CallTypesStep, TaskTypesStep, SummaryTypesStep, FlagTypesStep, ListStep
  <1> QED
    BY <1>1 DEF ChatTypeOK, CallTypes, TaskTypes, SummaryTypes, FlagTypes, ListTypes, Latest

-----------------------------------------------------------------------------
(* The list between the appends and their trims.                           *)

Lists(c) == AppendMessage(c) \/ ReadSize(c) \/ Trim(c)

\* Every other step leaves the list and what was read of it; it takes calls
\* out of their appends only by a failure.
LEMMA OtherSteps ==
    ASSUME IInv, [Next]_vars, ~ Expire, \A c \in Calls : ~ Lists(c)
    PROVE  /\ UNCHANGED <<window, said, seen, solo>>
           /\ \A c \in Calls : pc'[c] \in {"size", "trim"} => pc'[c] = pc[c]
           /\ \/ faults' = faults /\ Appending' = Appending
              \/ faults' = faults - 1
  <1>0. pc \in [Calls -> {"append", "size", "trim", "touch", "agent", "over"}]
    BY TypeParts DEF IInv, CallTypes
  <1> USE DEF listVars, callVars, squeezeVars, rowVars, Appending, Goto
  <1>1. ASSUME NEW c \in Calls, Touch(c) \/ AgentAnswers(c) \/ GiveUp(c)
        PROVE  /\ UNCHANGED <<window, said, seen, solo, faults>>
               /\ pc[c] \notin {"size", "trim"}
               /\ \E p \in {"agent", "over", "append"} : pc' = [pc EXCEPT ![c] = p]
    BY <1>1 DEF Touch, AgentAnswers, GiveUp, Reply
  <1>2. ASSUME NEW c \in Calls, Retry(c) \/ Compress(c) \/ Profile(c)
        PROVE  UNCHANGED <<window, said, seen, solo, faults, pc>>
    BY <1>2 DEF Retry, Compress, Profile, Count, CheckIdle, ReadRecent, StoreSummary,
                SelectRow, InsertRow, UpdateRow
  <1>3. ASSUME NEW c \in Calls, CallFails(c)
        PROVE  /\ UNCHANGED <<window, said, seen, solo>> /\ faults' = faults - 1
               /\ pc' = [pc EXCEPT ![c] = "over"]
    BY <1>3 DEF CallFails
  <1>4. ASSUME NEW c \in Calls, CompressionFails(c) \/ UpdateFails(c)
        PROVE  UNCHANGED <<window, said, seen, solo, pc>> /\ faults' = faults - 1
    BY <1>4 DEF CompressionFails, UpdateFails
  <1>5. CASE Crash
    BY <1>0, <1>5 DEF Crash
  <1>6. CASE GrowOld \/ UNCHANGED vars
    BY <1>0, <1>6 DEF GrowOld, vars
  <1>7. ASSUME NEW c \in Calls, Touch(c) \/ AgentAnswers(c) \/ GiveUp(c)
        PROVE  /\ \A d \in Calls : pc'[d] \in {"size", "trim"} => pc'[d] = pc[d]
               /\ Appending' = Appending
    BY <1>0, <1>1, <1>7
  <1>8. ASSUME NEW c \in Calls, CallFails(c)
        PROVE  \A d \in Calls : pc'[d] \in {"size", "trim"} => pc'[d] = pc[d]
    BY <1>0, <1>3, <1>8
  <1> QED
    BY <1>1, <1>2, <1>3, <1>4, <1>5, <1>6, <1>7, <1>8 DEF Next, Converse, Lists

\* What the invariant says of the list, as plain numbers.
LEMMA ListFacts ==
    ASSUME IInv
    PROVE  /\ Len(window) \in Nat /\ said \in Nat /\ Latest(window, said)
           /\ pc \in [Calls -> {"append", "size", "trim", "touch", "agent", "over"}]
           /\ seen \in [Calls -> Nat]
           /\ WindowMax \in Nat \ {0}
  <1>1. window \in Seq(Nat)
    BY TypeParts DEF IInv, ListTypes, Latest
  <1> QED
    BY <1>1, TypeParts, LenProperties, ChatAssumption DEF IInv, ListTypes, CallTypes

LEMMA AppendFacts ==
    ASSUME IInv, NEW c \in Calls, AppendMessage(c)
    PROVE  /\ Len(window') = Len(window) + 1 /\ said' = said + 1
           /\ pc[c] = "append" /\ pc' = [pc EXCEPT ![c] = "size"]
           /\ UNCHANGED <<seen, faults>>
           /\ Appending' = Appending \union {c} /\ c \notin Appending
           /\ solo' => solo /\ Appending = {}
  <1>1. /\ said' = said + 1 /\ window' = Append(window, said + 1)
        /\ pc[c] = "append" /\ pc' = [pc EXCEPT ![c] = "size"]
        /\ UNCHANGED <<seen, faults>>
        /\ solo' => solo /\ Appending = {}
    BY DEF AppendMessage, Goto
  <1>2. Len(window') = Len(window) + 1
    BY <1>1, ListFacts, LatestAppend
  <1>3. Appending' = Appending \union {c} /\ c \notin Appending
    BY <1>1, ListFacts DEF Appending
  <1> QED
    BY <1>1, <1>2, <1>3

LEMMA ReadFacts ==
    ASSUME IInv, NEW c \in Calls, ReadSize(c)
    PROVE  /\ UNCHANGED <<window, said, solo, faults>>
           /\ pc[c] = "size"
           /\ \/ /\ Len(window) > WindowMax
                 /\ seen' = [seen EXCEPT ![c] = Len(window)]
                 /\ pc' = [pc EXCEPT ![c] = "trim"] /\ Appending' = Appending
              \/ /\ Len(window) <= WindowMax /\ seen' = seen
                 /\ pc' = [pc EXCEPT ![c] = "touch"]
  <1> DEFINE len == Len(window)
  <1>1. len \in Nat /\ WindowMax \in Nat
    BY ListFacts
  <1>2. /\ UNCHANGED <<window, said, solo, faults>>
        /\ pc[c] = "size"
        /\ \/ len > WindowMax /\ seen' = [seen EXCEPT ![c] = len]
                              /\ pc' = [pc EXCEPT ![c] = "trim"]
           \/ ~ (len > WindowMax) /\ seen' = seen /\ pc' = [pc EXCEPT ![c] = "touch"]
    BY DEF ReadSize, Goto, listVars
  <1>3. pc' = [pc EXCEPT ![c] = "trim"] => Appending' = Appending
    BY <1>2, ListFacts DEF Appending
  <1> HIDE DEF len
  <1>4. ~ (len > WindowMax) => len <= WindowMax
    BY <1>1
  <1> QED
    BY <1>2, <1>3, <1>4 DEF len

LEMMA TrimFacts ==
    ASSUME IInv, NEW c \in Calls, Trim(c)
    PROVE  /\ seen[c] > WindowMax
           /\ Len(window') \in Nat
           /\ Len(window') = IF seen[c] - WindowMax < Len(window)
                             THEN Len(window) - (seen[c] - WindowMax) ELSE 0
           /\ pc[c] = "trim" /\ pc' = [pc EXCEPT ![c] = "touch"]
           /\ seen' = [seen EXCEPT ![c] = 0]
           /\ UNCHANGED <<said, solo, faults>>
           /\ Appending' = Appending \ {c} /\ c \in Appending
  <1>1. /\ window' = Drop(window, seen[c] - WindowMax)
        /\ pc[c] = "trim" /\ pc' = [pc EXCEPT ![c] = "touch"]
        /\ seen' = [seen EXCEPT ![c] = 0]
        /\ UNCHANGED <<said, solo, faults>>
    BY DEF Trim, Goto
  <1>2. seen[c] > WindowMax /\ seen[c] - WindowMax \in Nat
    <2>1. seen[c] > WindowMax
      BY <1>1 DEF IInv, Surplus
    <2> QED
      BY <2>1, ListFacts
  <1>3. /\ Len(window') \in Nat
        /\ Len(window') = IF seen[c] - WindowMax < Len(window)
                          THEN Len(window) - (seen[c] - WindowMax) ELSE 0
    BY <1>1, <1>2, ListFacts, LatestDrop
  <1>4. Appending' = Appending \ {c} /\ c \in Appending
    BY <1>1, ListFacts DEF Appending
  <1> QED
    BY <1>1, <1>2, <1>3, <1>4

LEMMA SurplusStep == IInv /\ [Next]_vars => Surplus'
  <1> SUFFICES ASSUME IInv, [Next]_vars PROVE Surplus'
    OBVIOUS
  <1>0. Surplus /\ pc \in [Calls -> {"append", "size", "trim", "touch", "agent", "over"}]
                /\ seen \in [Calls -> Nat]
    BY ListFacts DEF IInv
  <1>1. ASSUME NEW c \in Calls, AppendMessage(c) PROVE Surplus'
    BY <1>0, <1>1, AppendFacts DEF Surplus
  <1>2. ASSUME NEW c \in Calls, ReadSize(c) PROVE Surplus'
    <2> DEFINE len == Len(window)
    <2>1. \/ len > WindowMax /\ seen' = [seen EXCEPT ![c] = len]
                             /\ pc' = [pc EXCEPT ![c] = "trim"]
          \/ seen' = seen /\ pc' = [pc EXCEPT ![c] = "touch"]
      BY <1>2, ReadFacts
    <2> HIDE DEF len
    <2> QED
      BY <1>0, <2>1 DEF Surplus
  <1>3. ASSUME NEW c \in Calls, Trim(c) PROVE Surplus'
    BY <1>0, <1>3, TrimFacts DEF Surplus
  <1>4. CASE Expire
    BY <1>0, <1>4 DEF Expire, callVars, Surplus
  <1>5. CASE ~ Expire /\ \A c \in Calls : ~ Lists(c)
    BY <1>0, <1>5, OtherSteps DEF Surplus
  <1> QED
    BY <1>1, <1>2, <1>3, <1>4, <1>5 DEF Lists

\* A restart of the list: nobody is in the middle of an append.
LEMMA ExpireFacts ==
    ASSUME IInv, Expire
    PROVE  /\ window' = << >> /\ said' = 0 /\ Len(window') = 0
           /\ UNCHANGED <<pc, seen, faults>>
           /\ Appending = {} /\ Appending' = {}
  <1>1. /\ window' = << >> /\ said' = 0 /\ UNCHANGED <<pc, role, seen, faults>>
        /\ InFlight = {}
    BY DEF Expire, callVars
  <1>2. Appending = {} /\ Appending' = {}
    BY <1>1 DEF Appending, InFlight, Started
  <1> QED
    BY <1>1, <1>2, EmptySeq

LEMMA SoloStep == IInv /\ [Next]_vars => SoloTrim'
  <1> SUFFICES ASSUME IInv, [Next]_vars, solo'
               PROVE  /\ \A c, d \in Appending' : c = d
                      /\ \A c \in Calls : pc'[c] = "trim" => seen'[c] = Len(window')
    BY DEF SoloTrim
  <1> DEFINE len == Len(window)
             len2 == Len(window')
  <1> HIDE DEF len, len2
  <1>0. pc \in [Calls -> {"append", "size", "trim", "touch", "agent", "over"}]
    BY ListFacts
  <1>a. seen \in [Calls -> Nat] /\ len \in Nat /\ WindowMax \in Nat
    BY ListFacts DEF len
  <1>b. solo => /\ \A c, d \in Appending : c = d
                /\ \A c \in Calls : pc[c] = "trim" => seen[c] = len
    BY DEF IInv, SoloTrim, len
  <1>c. /\ \A c \in Calls : pc[c] = "trim" => c \in Appending
        /\ \A c \in Calls : pc'[c] = "trim" => c \in Appending'
    BY DEF Appending
  <1> SUFFICES /\ \A c, d \in Appending' : c = d
               /\ \A c \in Calls : pc'[c] = "trim" => seen'[c] = len2
    BY DEF len2
  <1>1. ASSUME NEW c \in Calls, AppendMessage(c)
        PROVE  /\ \A d, e \in Appending' : d = e
               /\ \A d \in Calls : pc'[d] = "trim" => seen'[d] = len2
    <2>1. Appending' = {c} /\ pc' = [pc EXCEPT ![c] = "size"]
      BY <1>1, AppendFacts
    <2> QED
      BY <1>0, <1>c, <2>1
  <1>2. ASSUME NEW c \in Calls, ReadSize(c)
        PROVE  /\ \A d, e \in Appending' : d = e
               /\ \A d \in Calls : pc'[d] = "trim" => seen'[d] = len2
    <2>1. solo /\ len2 = len /\ pc[c] = "size"
      BY <1>2, ReadFacts DEF len, len2
    <2>2. \/ seen' = [seen EXCEPT ![c] = len] /\ pc' = [pc EXCEPT ![c] = "trim"]
          \/ seen' = seen /\ pc' = [pc EXCEPT ![c] = "touch"]
      BY <1>2, ReadFacts DEF len
    <2>3. Appending' \subseteq Appending
      BY <1>0, <2>1, <2>2 DEF Appending
    <2> QED
      BY <1>0, <1>a, <1>b, <2>1, <2>2, <2>3
  <1>3. ASSUME NEW c \in Calls, Trim(c)
        PROVE  /\ \A d, e \in Appending' : d = e
               /\ \A d \in Calls : pc'[d] = "trim" => seen'[d] = len2
    <2>1. solo /\ Appending' = Appending \ {c} /\ c \in Appending
      BY <1>3, TrimFacts
    <2>2. Appending' = {}
      BY <1>b, <2>1
    <2> QED
      BY <1>c, <2>2
  <1>4. CASE Expire
    BY <1>4, <1>c, ExpireFacts
  <1>5. CASE ~ Expire /\ \A c \in Calls : ~ Lists(c)
    <2>1. /\ len2 = len /\ seen' = seen /\ solo
          /\ \A c \in Calls : pc'[c] \in {"size", "trim"} => pc'[c] = pc[c]
      BY <1>5, OtherSteps DEF len, len2
    <2>2. Appending' \subseteq Appending
      BY <2>1 DEF Appending
    <2> QED
      BY <1>b, <2>1, <2>2
  <1> QED
    BY <1>1, <1>2, <1>3, <1>4, <1>5 DEF Lists

LEMMA KeepsStep == IInv /\ [Next]_vars => KeepsRecent'
  <1> SUFFICES ASSUME IInv, [Next]_vars, solo'
               PROVE  Len(window') >= Lesser(WindowMax, said')
    BY DEF KeepsRecent
  <1> DEFINE len == Len(window)
             len2 == Len(window')
  <1>0. len \in Nat /\ said \in Nat /\ WindowMax \in Nat \ {0} /\ seen \in [Calls -> Nat]
    BY ListFacts
  <1>a. solo => len >= Lesser(WindowMax, said)
    BY DEF IInv, KeepsRecent
  <1> SUFFICES len2 >= Lesser(WindowMax, said')
    OBVIOUS
  <1> HIDE DEF len, len2
  <1>1. ASSUME NEW c \in Calls, AppendMessage(c) PROVE len2 >= Lesser(WindowMax, said')
    <2>1. len2 = len + 1 /\ said' = said + 1 /\ solo
      BY <1>1, AppendFacts DEF len, len2
    <2> QED
      BY <1>0, <1>a, <2>1 DEF Lesser
  <1>2. ASSUME NEW c \in Calls, ReadSize(c) PROVE len2 >= Lesser(WindowMax, said')
    BY <1>a, <1>2, ReadFacts DEF len, len2, Lesser
  <1>3. ASSUME NEW c \in Calls, Trim(c) PROVE len2 >= Lesser(WindowMax, said')
    <2>1. /\ solo /\ said' = said /\ pc[c] = "trim" /\ seen[c] > WindowMax
          /\ len2 = IF seen[c] - WindowMax < len THEN len - (seen[c] - WindowMax) ELSE 0
      BY <1>3, TrimFacts DEF len, len2
    <2>2. seen[c] = len
      BY <2>1 DEF IInv, SoloTrim, len
    <2>3. len2 = WindowMax
      BY <1>0, <2>1, <2>2
    <2> QED
      BY <1>0, <2>1, <2>3 DEF Lesser
  <1>4. CASE Expire
    <2>1. len2 = 0 /\ said' = 0
      BY <1>4, ExpireFacts DEF len2
    <2> QED
      BY <1>0, <2>1 DEF Lesser
  <1>5. CASE ~ Expire /\ \A c \in Calls : ~ Lists(c)
    BY <1>5, <1>a, OtherSteps DEF len, len2, Lesser
  <1> QED
    BY <1>1, <1>2, <1>3, <1>4, <1>5 DEF Lists

\* A trim drops at least what its own append added.
LEMMA BoundStep == IInv /\ [Next]_vars => WindowBounded'
  <1> DEFINE len == Len(window)
             len2 == Len(window')
             busy == Cardinality(Appending)
             busy2 == Cardinality(Appending')
             all == Cardinality(Calls)
             paid == (MaxFaults - faults) * all
             paid2 == (MaxFaults - faults') * all
  <1> SUFFICES ASSUME IInv, [Next]_vars PROVE len2 <= WindowMax + busy2 + paid2
    BY DEF WindowBounded
  <1>0. len \in Nat /\ WindowMax \in Nat /\ seen \in [Calls -> Nat]
    BY ListFacts
  <1>a. len <= WindowMax + busy + paid
    BY DEF IInv, WindowBounded
  <1>b. IsFiniteSet(Appending) /\ IsFiniteSet(Appending') /\ IsFiniteSet(Calls)
    BY FS_Subset, ChatAssumption DEF Appending
  <1>c. busy \in Nat /\ busy2 \in Nat /\ all \in Nat /\ busy <= all
    BY <1>b, FS_CardinalityType, FS_Subset DEF Appending
  <1>d. faults \in 0 .. MaxFaults /\ MaxFaults \in Nat
    BY TypeParts, ChatAssumption DEF IInv, TaskTypes
  <1>p. faults' \in 0 .. MaxFaults
    BY TaskTypesStep DEF TaskTypes
  <1>e. paid \in Nat /\ paid2 \in Nat
    <2> HIDE DEF all
    <2>d. \A m \in Nat : \A f \in 0 .. m : m - f \in Nat
      OBVIOUS
    <2>1. MaxFaults - faults \in Nat
      BY <1>d
    <2>2. MaxFaults - faults' \in Nat
      BY <1>d, <1>p, <2>d, Zenon
    <2>3. \A x, y \in Nat : x * y \in Nat
      OBVIOUS
    <2> QED
      BY <1>c, <2>1, <2>2, <2>3
  <1>f. faults' = faults => paid2 = paid
    OBVIOUS
  <1>g. faults' = faults - 1 => paid2 = paid + all
    <2>1. ASSUME faults' = faults - 1 PROVE MaxFaults - faults' = (MaxFaults - faults) + 1
      BY <1>d, <2>1
    <2>2. \A x \in Nat : (x + 1) * all = x * all + all
      BY <1>c
    <2>3. MaxFaults - faults \in Nat
      BY <1>d
    <2> HIDE DEF all
    <2> QED
      BY <2>1, <2>2, <2>3
  <1> HIDE DEF len, len2, all, busy, busy2, paid, paid2
  <1>1. ASSUME NEW c \in Calls, AppendMessage(c) PROVE len2 <= WindowMax + busy2 + paid2
    <2>1. len2 = len + 1 /\ paid2 = paid
      BY <1>1, <1>f, AppendFacts DEF len, len2
    <2>2. Appending' = Appending \union {c} /\ c \notin Appending
      BY <1>1, AppendFacts
    <2>3. busy2 = busy + 1
      BY <1>b, <2>2, FS_AddElement DEF busy, busy2
    <2> QED
      BY <1>0, <1>a, <1>c, <1>e, <2>1, <2>3
  <1>2. ASSUME NEW c \in Calls, ReadSize(c) PROVE len2 <= WindowMax + busy2 + paid2
    <2>1. len2 = len /\ paid2 = paid /\ (len <= WindowMax \/ Appending' = Appending)
      BY <1>2, <1>f, ReadFacts DEF len, len2
    <2>2. len <= WindowMax \/ busy2 = busy
      BY <2>1 DEF busy, busy2
    <2> QED
      BY <1>0, <1>a, <1>c, <1>e, <2>1, <2>2
  <1>3. ASSUME NEW c \in Calls, Trim(c) PROVE len2 <= WindowMax + busy2 + paid2
    <2>1. /\ seen[c] > WindowMax /\ seen[c] \in Nat /\ paid2 = paid
          /\ len2 = IF seen[c] - WindowMax < len THEN len - (seen[c] - WindowMax) ELSE 0
      BY <1>0, <1>3, <1>f, TrimFacts DEF len, len2
    <2>2. Appending' = Appending \ {c} /\ c \in Appending
      BY <1>3, TrimFacts
    <2>3. busy2 = busy - 1
      BY <1>b, <2>2, FS_RemoveElement DEF busy, busy2
    <2> QED
      BY <1>0, <1>a, <1>c, <1>e, <2>1, <2>3
  <1>4. CASE Expire
    <2>1. len2 = 0
      BY <1>4, ExpireFacts DEF len2
    <2> QED
      BY <1>0, <1>c, <1>e, <2>1
  <1>5. CASE ~ Expire /\ \A c \in Calls : ~ Lists(c)
    <2>1. len2 = len /\ (\/ faults' = faults /\ Appending' = Appending
                         \/ faults' = faults - 1)
      BY <1>5, OtherSteps DEF len, len2
    <2>2. \/ paid2 = paid /\ busy2 = busy
          \/ paid2 = paid + all
      BY <2>1, <1>f, <1>g DEF busy, busy2
    <2> QED
      BY <1>0, <1>a, <1>c, <1>e, <2>1, <2>2
  <1> QED
    BY <1>1, <1>2, <1>3, <1>4, <1>5 DEF Lists

-----------------------------------------------------------------------------
(* The profile.                                                            *)

LEMMA OtherThanProfile ==
    ASSUME IInv, [Next]_vars, \A c \in Calls : ~ Profile(c)
    PROVE  UNCHANGED <<held, row, turns, alone>> /\ Updating' \subseteq Updating
  <1>0. portrait \in [Calls -> {"none", "select", "write", "over"}]
    BY TypeParts DEF IInv, TaskTypes
  <1> USE DEF Updating, listVars, callVars, squeezeVars, rowVars
  <1>1. ASSUME NEW c \in Calls, (Converse(c) /\ ~ Touch(c)) \/ Compress(c)
        PROVE  UNCHANGED <<portrait, held, row, turns, alone>>
    BY <1>1 DEF Converse, AppendMessage, ReadSize, Trim, AgentAnswers, Retry, GiveUp,
                Compress, Count, CheckIdle, ReadRecent, StoreSummary
  <1>2. ASSUME NEW c \in Calls, Touch(c)
        PROVE  /\ UNCHANGED <<held, row, turns, alone>>
               /\ portrait' = portrait \/ portrait' = [portrait EXCEPT ![c] = "select"]
    BY <1>2 DEF Touch
  <1>3. ASSUME NEW c \in Calls, CallFails(c) \/ CompressionFails(c) \/ UpdateFails(c)
        PROVE  /\ UNCHANGED <<held, row, turns, alone>>
               /\ portrait' = portrait \/ portrait' = [portrait EXCEPT ![c] = "over"]
    BY <1>3 DEF CallFails, CompressionFails, UpdateFails
  <1>4. CASE Crash
    BY <1>4 DEF Crash
  <1>5. CASE GrowOld \/ Expire \/ UNCHANGED vars
    BY <1>5 DEF GrowOld, Expire, vars
  <1>6. ASSUME NEW c \in Calls, Converse(c) \/ Compress(c) \/ CallFails(c)
                                \/ CompressionFails(c) \/ UpdateFails(c)
        PROVE  UNCHANGED <<held, row, turns, alone>> /\ Updating' \subseteq Updating
    BY <1>0, <1>1, <1>2, <1>3, <1>6
  <1> QED
    BY <1>4, <1>5, <1>6 DEF Next

LEMMA ProfileStep == IInv /\ [Next]_vars => HeldCount' /\ TurnsCounted'
  <1> SUFFICES ASSUME IInv, [Next]_vars PROVE HeldCount' /\ TurnsCounted'
    OBVIOUS
  <1>0. /\ portrait \in [Calls -> {"none", "select", "write", "over"}]
        /\ held \in [Calls -> Nat \union {NoRow}] /\ row \in Nat \union {NoRow}
        /\ turns \in Nat
    BY TypeParts DEF IInv, TaskTypes
  <1>a. HeldCount /\ TurnsCounted
    BY DEF IInv
  <1>1. ASSUME NEW c \in Calls, SelectRow(c) PROVE HeldCount' /\ TurnsCounted'
    <2>1. /\ held' = [held EXCEPT ![c] = row]
          /\ portrait' = [portrait EXCEPT ![c] = "write"]
          /\ row' = row /\ turns' = turns
      BY <1>1 DEF SelectRow
    <2>a. alone' => alone /\ Updating = {}
      BY <1>1 DEF SelectRow
    <2>2. Updating' \subseteq Updating \union {c} /\ Updating \subseteq Calls
      BY <1>0, <2>1 DEF Updating
    <2>3. ASSUME NEW d \in Updating'
          PROVE  held'[d] = row \/ (d \in Updating /\ held'[d] = held[d])
      <3>1. d \in Calls /\ (d = c \/ d \in Updating)
        BY <2>2
      <3> QED
        BY <1>0, <2>1, <3>1
    <2>4. \A d \in Updating' : TurnsIn(held'[d]) <= turns'
      BY <1>a, <2>1, <2>3 DEF HeldCount, TurnsCounted
    <2>5. alone' => \A d, e \in Updating' : d = e
      BY <2>a, <2>2
    <2>6. alone' => \A d \in Updating' : held'[d] = row'
      BY <2>1, <2>a, <2>3
    <2>7. TurnsCounted'
      BY <1>a, <2>1, <2>a DEF TurnsCounted
    <2> QED
      BY <2>4, <2>5, <2>6, <2>7 DEF HeldCount
  <1>2. ASSUME NEW c \in Calls, InsertRow(c) \/ UpdateRow(c)
        PROVE  HeldCount' /\ TurnsCounted'
    <2>1. /\ portrait[c] = "write" /\ portrait' = [portrait EXCEPT ![c] = "over"]
          /\ UNCHANGED <<held, alone>>
          /\ \/ UNCHANGED <<row, turns>>
             \/ row' = TurnsIn(held[c]) + 1 /\ turns' = turns + 1
      BY <1>2, <1>0 DEF InsertRow, UpdateRow, TurnsIn, NoRow
    <2>2. c \in Updating /\ Updating' = Updating \ {c} /\ Updating \subseteq Calls
      BY <1>0, <2>1 DEF Updating
    <2>3. /\ TurnsIn(held[c]) <= turns /\ TurnsIn(held[c]) \in Nat
          /\ alone => held[c] = row /\ Updating' = {}
      BY <1>0, <1>a, <2>2 DEF HeldCount, TurnsIn
    <2>4. turns' >= turns /\ turns' \in Nat
      BY <1>0, <2>1
    <2>5. \A d \in Updating' : TurnsIn(held'[d]) <= turns'
      <3>1. ASSUME NEW d \in Updating'
            PROVE  TurnsIn(held[d]) \in Nat /\ TurnsIn(held[d]) <= turns
        BY <1>0, <1>a, <2>2 DEF HeldCount, TurnsIn
      <3> QED
        BY <1>0, <2>1, <2>4, <3>1
    <2>6. TurnsCounted'
      BY <1>0, <1>a, <2>1, <2>3 DEF TurnsCounted, TurnsIn, NoRow
    <2> QED
      BY <2>1, <2>3, <2>5, <2>6 DEF HeldCount
  <1>3. CASE \A c \in Calls : ~ Profile(c)
    <2>1. UNCHANGED <<held, row, turns, alone>> /\ Updating' \subseteq Updating
      BY <1>3, OtherThanProfile
    <2> QED
      BY <1>a, <2>1 DEF HeldCount, TurnsCounted
  <1> QED
    BY <1>1, <1>2, <1>3 DEF Profile

-----------------------------------------------------------------------------
(* The summaries keep pace with the list.                                  *)

Noted(k) == k \in covered \/ \E c \in Calls : squeeze[c] = "ask" /\ k \in text[c]

\* With threshold < max the first compression comes before the first trim.
First == IF Threshold < WindowMax THEN 1 ELSE 2

Notes(n) == n >= Threshold => \A k \in First .. n : Noted(k)

\* The user's message is in the list and its task is not started yet.
Fresh(c) == role[c] = "user" /\ pc[c] \in {"size", "trim", "touch"}

\* From the start of the task to the append of the answer.
Awaiting(c) == pc[c] = "agent" \/ (role[c] = "assistant" /\ pc[c] = "append")

ByTurns ==
    kept => /\ solo
            /\ \A c, d \in InFlight : c = d
            /\ \A c \in Unread : Awaiting(c)

OneTask == \A c \in Calls : ~ Started(c) \/ Fresh(c) => squeeze[c] = "none"

\* A task leaves at most its own user's message and the answer after it to the
\* next one.
KeepsPace ==
    kept => /\ Notes(said - 2)
            /\ (\A c \in Calls : ~ Fresh(c) /\ ~ Awaiting(c)) => Notes(said - 1)
            /\ (\E c \in Calls : Awaiting(c)) /\ Unread = {} => Notes(said)
            /\ \A c \in Calls : squeeze[c] = "idle" => said < Threshold

TurnInv == ByTurns /\ OneTask /\ KeepsPace

LEMMA FirstFacts ==
    /\ First \in {1, 2} /\ Threshold \in Nat \ {0} /\ WindowMax \in Nat \ {0}
    /\ First = 1 <=> Threshold < WindowMax
  BY ChatAssumption DEF First

LEMMA TaskFacts ==
    ASSUME IInv
    PROVE  /\ pc \in [Calls -> {"append", "size", "trim", "touch", "agent", "over"}]
           /\ role \in [Calls -> {"user", "assistant"}]
           /\ squeeze \in [Calls -> {"none", "count", "idle", "read", "ask", "over"}]
           /\ text \in [Calls -> SUBSET (1 .. said)]
           /\ said \in Nat
  BY TypeParts DEF IInv, CallTypes, TaskTypes, SummaryTypes, ListTypes

\* What ReadRecent reads: the last WindowMax messages said.
LEMMA RecentText ==
    ASSUME IInv, solo
    PROVE  /\ \A k \in 1 .. said : k > said - WindowMax =>
                  \E i \in 1 .. Len(Recent(window)) : Recent(window)[i] = k
           /\ Len(window) < Threshold /\ Threshold <= WindowMax => said < Threshold
           /\ window = << >> => said = 0
  <1> DEFINE len == Len(window)
             r == Lesser(WindowMax, len)
             s == Drop(window, len - r)
  <1>1. /\ len \in Nat /\ said \in Nat /\ Latest(window, said) /\ WindowMax \in Nat \ {0}
        /\ Threshold \in Nat
    BY ListFacts, ChatAssumption
  <1>2. len >= Lesser(WindowMax, said) /\ len <= said
    BY <1>1 DEF IInv, KeepsRecent, Latest
  <1>3. window = << >> => len = 0
    BY EmptySeq
  <1>4. len - r \in Nat
    BY <1>1 DEF Lesser
  <1>5. /\ Latest(s, said)
        /\ Len(s) = IF len - r < len THEN len - (len - r) ELSE 0
    BY <1>1, <1>4, LatestDrop
  <1> HIDE DEF len, s
  <1>6. Len(s) = r /\ r \in Nat
    BY <1>1, <1>5 DEF Lesser
  <1>7. ASSUME NEW k \in 1 .. said, k > said - WindowMax
        PROVE  \E i \in 1 .. Len(s) : s[i] = k
    <2> DEFINE i == k - said + r
    <2>1. i \in 1 .. r /\ said - r + i = k
      BY <1>1, <1>2, <1>7 DEF Lesser
    <2>2. s[i] = said - Len(s) + i
      BY <1>5, <1>6, <2>1 DEF Latest
    <2> QED
      BY <1>6, <2>1, <2>2
  <1>8. len < Threshold /\ Threshold <= WindowMax => said < Threshold
    BY <1>1, <1>2 DEF Lesser
  <1>9. len = 0 => said = 0
    BY <1>1, <1>2 DEF Lesser
  <1> QED
    BY <1>3, <1>7, <1>8, <1>9 DEF Recent, len, s, r

\* Steps that are none of an append, the start or a step of a compression, or
\* the expiry leave the order of turns and the summaries as they are.
LEMMA OtherTurns ==
    ASSUME IInv, [Next]_vars, kept', ~ Expire,
           \A c \in Calls : ~ AppendMessage(c) /\ ~ Compress(c)
                            /\ ~ (Touch(c) /\ role[c] = "user")
    PROVE  /\ kept /\ UNCHANGED <<said, solo, squeeze, text, covered>>
           /\ \A d \in Calls : /\ Fresh(d)' <=> Fresh(d)
                               /\ Awaiting(d)' <=> Awaiting(d)
                               /\ Started(d)' <=> Started(d)
           /\ InFlight' \subseteq InFlight
  <1>0. /\ pc \in [Calls -> {"append", "size", "trim", "touch", "agent", "over"}]
        /\ role \in [Calls -> {"user", "assistant"}]
    BY TaskFacts
  <1> USE DEF listVars, callVars, squeezeVars, rowVars, Goto
  <1>1. ASSUME NEW c \in Calls, ReadSize(c) \/ Trim(c) \/ (Touch(c) /\ role[c] # "user")
        PROVE  /\ UNCHANGED <<kept, said, solo, squeeze, text, covered, role>>
               /\ \E p \in {"trim", "touch", "over"} : pc' = [pc EXCEPT ![c] = p]
               /\ pc[c] \in {"size", "trim", "touch"}
               /\ \/ role[c] = "assistant"
                  \/ pc' = [pc EXCEPT ![c] = "trim"] \/ pc' = [pc EXCEPT ![c] = "touch"]
    BY <1>0, <1>1 DEF ReadSize, Trim, Touch
  <1>2. ASSUME NEW c \in Calls, AgentAnswers(c) \/ GiveUp(c)
        PROVE  /\ UNCHANGED <<kept, said, solo, squeeze, text, covered>>
               /\ pc[c] = "agent" /\ pc' = [pc EXCEPT ![c] = "append"]
               /\ role' = [role EXCEPT ![c] = "assistant"]
    BY <1>2 DEF AgentAnswers, GiveUp, Reply
  <1>3. ASSUME NEW c \in Calls, Retry(c) \/ Profile(c) \/ UpdateFails(c)
        PROVE  UNCHANGED <<kept, said, solo, squeeze, text, covered, role, pc>>
    BY <1>3 DEF Retry, Profile, SelectRow, InsertRow, UpdateRow, UpdateFails
  <1>4. CASE GrowOld \/ UNCHANGED vars
    <2>1. UNCHANGED <<kept, said, solo, squeeze, text, covered, role, pc>>
      BY <1>4 DEF GrowOld, vars
    <2> QED
      BY <2>1 DEF Fresh, Awaiting, InFlight, Started
  <1>5. ASSUME NEW c \in Calls, CallFails(c) \/ CompressionFails(c) PROVE FALSE
    BY <1>5 DEF CallFails, CompressionFails
  <1>6. ~ Crash
    BY DEF Crash
  <1>7. ASSUME NEW c \in Calls, ReadSize(c) \/ Trim(c) \/ (Touch(c) /\ role[c] # "user")
        PROVE  /\ \A d \in Calls : /\ Fresh(d)' <=> Fresh(d)
                                   /\ Awaiting(d)' <=> Awaiting(d)
                                   /\ Started(d)' <=> Started(d)
               /\ InFlight' \subseteq InFlight
    BY <1>0, <1>1, <1>7 DEF Fresh, Awaiting, InFlight, Started
  <1>8. ASSUME NEW c \in Calls, AgentAnswers(c) \/ GiveUp(c)
        PROVE  /\ \A d \in Calls : /\ Fresh(d)' <=> Fresh(d)
                                   /\ Awaiting(d)' <=> Awaiting(d)
                                   /\ Started(d)' <=> Started(d)
               /\ InFlight' \subseteq InFlight
    BY <1>0, <1>2, <1>8 DEF Fresh, Awaiting, InFlight, Started
  <1>9. ASSUME NEW c \in Calls, Retry(c) \/ Profile(c) \/ UpdateFails(c)
        PROVE  /\ \A d \in Calls : /\ Fresh(d)' <=> Fresh(d)
                                   /\ Awaiting(d)' <=> Awaiting(d)
                                   /\ Started(d)' <=> Started(d)
               /\ InFlight' \subseteq InFlight
    BY <1>3, <1>9 DEF Fresh, Awaiting, InFlight, Started
  <1> QED
    BY <1>1, <1>2, <1>3, <1>4, <1>5, <1>6, <1>7, <1>8, <1>9 DEF Next, Converse

LEMMA OneTaskStep == IInv /\ OneTask /\ [Next]_vars => OneTask'
  <1> SUFFICES ASSUME IInv, OneTask, [Next]_vars PROVE OneTask'
    OBVIOUS
  <1>0. /\ pc \in [Calls -> {"append", "size", "trim", "touch", "agent", "over"}]
        /\ role \in [Calls -> {"user", "assistant"}]
        /\ squeeze \in [Calls -> {"none", "count", "idle", "read", "ask", "over"}]
    BY TaskFacts
  <1> USE DEF OneTask, Fresh, Started, listVars, callVars, squeezeVars, rowVars, Goto,
              Squeezing
  <1>1. ASSUME NEW c \in Calls, AppendMessage(c) PROVE OneTask'
    BY <1>0, <1>1 DEF AppendMessage
  <1>2. ASSUME NEW c \in Calls, ReadSize(c) \/ Trim(c) PROVE OneTask'
    <2>1. \E p \in {"trim", "touch"} : pc' = [pc EXCEPT ![c] = p]
      BY <1>2 DEF ReadSize, Trim
    <2>2. pc[c] \in {"size", "trim"} /\ UNCHANGED <<role, squeeze>>
      BY <1>2 DEF ReadSize, Trim
    <2> QED
      BY <1>0, <2>1, <2>2
  <1>3. ASSUME NEW c \in Calls, Touch(c) PROVE OneTask'
    BY <1>0, <1>3 DEF Touch
  <1>4. ASSUME NEW c \in Calls, AgentAnswers(c) \/ GiveUp(c) PROVE OneTask'
    BY <1>0, <1>4 DEF AgentAnswers, GiveUp, Reply
  <1>5. ASSUME NEW c \in Calls, CallFails(c) PROVE OneTask'
    BY <1>0, <1>5 DEF CallFails, InFlight
  <1>6. ASSUME NEW c \in Calls, Compress(c) \/ CompressionFails(c) PROVE OneTask'
    <2>1. squeeze[c] # "none" /\ \E l \in {"idle", "read", "ask", "over"} :
              squeeze' = [squeeze EXCEPT ![c] = l]
      BY <1>6 DEF Compress, Count, CheckIdle, ReadRecent, StoreSummary, CompressionFails
    <2>2. UNCHANGED <<pc, role>>
      BY <1>6 DEF Compress, Count, CheckIdle, ReadRecent, StoreSummary, CompressionFails
    <2> QED
      BY <1>0, <2>1, <2>2
  <1>7. CASE Crash
    <2>1. \A c \in Calls : /\ pc'[c] = pc[c] \/ pc'[c] = "over"
                           /\ Fresh(c) => pc'[c] = "over"
                           /\ squeeze[c] = "none" => squeeze'[c] = "none"
      BY <1>0, <1>7 DEF Crash, InFlight
    <2>2. role' = role
      BY <1>7 DEF Crash
    <2> QED
      BY <1>0, <2>1, <2>2
  <1>8. ASSUME NEW c \in Calls, Retry(c) \/ Profile(c) \/ UpdateFails(c) PROVE OneTask'
    <2>1. UNCHANGED <<pc, role, squeeze>>
      BY <1>8 DEF Retry, Profile, SelectRow, InsertRow, UpdateRow, UpdateFails
    <2> QED
      BY <2>1
  <1>9. CASE GrowOld \/ Expire \/ UNCHANGED vars
    <2>1. UNCHANGED <<pc, role, squeeze>>
      BY <1>9 DEF GrowOld, Expire, vars
    <2> QED
      BY <2>1
  <1> QED
    BY <1>1, <1>2, <1>3, <1>4, <1>5, <1>6, <1>7, <1>8, <1>9 DEF Next, Converse

\* The steps that the order of turns depends on.
LEMMA AppendTurn ==
    ASSUME IInv, TurnInv, NEW c \in Calls, AppendMessage(c), kept'
    PROVE  /\ kept /\ InFlight \subseteq {c} /\ Unread = {}
           /\ solo' = solo /\ said' = said + 1
           /\ UNCHANGED <<squeeze, text, covered, role>>
           /\ pc[c] = "append" /\ pc' = [pc EXCEPT ![c] = "size"]
           /\ InFlight' \subseteq {c} /\ Unread' = {}
  <1>1. /\ kept /\ InFlight \subseteq {c} /\ Unread = {}
        /\ UNCHANGED <<squeeze, text, covered, role>> /\ said' = said + 1
        /\ pc[c] = "append" /\ pc' = [pc EXCEPT ![c] = "size"]
    BY DEF AppendMessage, Goto, squeezeVars
  <1>2. pc \in [Calls -> {"append", "size", "trim", "touch", "agent", "over"}]
    BY TaskFacts
  <1>3. Appending = {}
    BY <1>1, <1>2 DEF Appending, InFlight, Started
  <1>4. solo' = solo
    <2>1. solo \in BOOLEAN
      BY DEF IInv, ChatTypeOK
    <2> QED
      BY <1>3, <2>1 DEF AppendMessage
  <1>5. InFlight' \subseteq {c} /\ Unread' = {}
    BY <1>1, <1>2 DEF InFlight, Started, Unread
  <1> QED
    BY <1>1, <1>4, <1>5

LEMMA TouchTurn ==
    ASSUME IInv, NEW c \in Calls, Touch(c), role[c] = "user"
    PROVE  /\ UNCHANGED <<kept, solo, said, text, covered, role>>
           /\ pc[c] = "touch" /\ pc' = [pc EXCEPT ![c] = "agent"]
           /\ squeeze' = [squeeze EXCEPT ![c] = "count"]
           /\ Fresh(c) /\ Awaiting(c)' /\ ~ Fresh(c)'
           /\ InFlight' \subseteq InFlight
           /\ Unread' = Unread \union {c}
  <1>1. /\ UNCHANGED <<kept, solo, said, text, covered, role>>
        /\ pc[c] = "touch" /\ pc' = [pc EXCEPT ![c] = "agent"]
        /\ squeeze' = [squeeze EXCEPT ![c] = "count"]
    BY DEF Touch, Goto, listVars
  <1> QED
    BY <1>1, TaskFacts DEF Fresh, Awaiting, InFlight, Started, Unread

LEMMA CompressTurn ==
    ASSUME IInv, NEW c \in Calls, Compress(c)
    PROVE  /\ UNCHANGED <<kept, solo, said, window, pc, role>>
           /\ InFlight' = InFlight /\ Unread' \subseteq Unread
           /\ \A d \in Calls : (Fresh(d)' <=> Fresh(d)) /\ (Awaiting(d)' <=> Awaiting(d))
           /\ \A d \in Calls : d # c => squeeze'[d] = squeeze[d] /\ text'[d] = text[d]
           /\ \/ squeeze[c] = "count" /\ squeeze'[c] = "read"
              \/ squeeze[c] = "count" /\ squeeze'[c] = "idle" /\ Len(window) < Threshold
              \/ squeeze[c] = "idle" /\ squeeze'[c] \in {"read", "over"}
              \/ squeeze[c] = "read" /\ squeeze'[c] = "over" /\ window = << >>
              \/ /\ squeeze[c] = "read" /\ squeeze'[c] = "ask"
                 /\ text'[c] = {Recent(window)[i] : i \in 1 .. Len(Recent(window))}
              \/ squeeze[c] = "ask" /\ squeeze'[c] = "over"
           /\ covered' = covered \/ (squeeze[c] = "ask" /\ covered' = covered \union text[c])
  <1> DEFINE T == {Recent(window)[i] : i \in 1 .. Len(Recent(window))}
             len == Len(window)
  <1>0. /\ squeeze \in [Calls -> {"none", "count", "idle", "read", "ask", "over"}]
        /\ text \in [Calls -> SUBSET (1 .. said)]
        /\ len \in Nat /\ Threshold \in Nat
    BY TaskFacts, ListFacts, ChatAssumption
  <1> HIDE DEF T, len
  <1>1. UNCHANGED <<kept, solo, said, window, pc, role>>
    BY DEF Compress, Count, CheckIdle, ReadRecent, StoreSummary, callVars, listVars
  <1>2. /\ InFlight' = InFlight
        /\ \A d \in Calls : (Fresh(d)' <=> Fresh(d)) /\ (Awaiting(d)' <=> Awaiting(d))
    BY <1>1 DEF InFlight, Started, Fresh, Awaiting
  <1> DEFINE Moves ==
          \/ squeeze[c] = "count" /\ squeeze'[c] = "read"
          \/ squeeze[c] = "count" /\ squeeze'[c] = "idle" /\ len < Threshold
          \/ squeeze[c] = "idle" /\ squeeze'[c] \in {"read", "over"}
          \/ squeeze[c] = "read" /\ squeeze'[c] = "over" /\ window = << >>
          \/ squeeze[c] = "read" /\ squeeze'[c] = "ask" /\ text'[c] = T
          \/ squeeze[c] = "ask" /\ squeeze'[c] = "over"
  <1>3. ASSUME Count(c) PROVE Moves
    <2>1. /\ squeeze[c] = "count"
          /\ squeeze' = [squeeze EXCEPT ![c] = IF len >= Threshold THEN "read" ELSE "idle"]
      BY <1>3 DEF Count, Squeezing, len
    <2>2. ~ (len >= Threshold) => len < Threshold
      BY <1>0
    <2> QED
      BY <1>0, <2>1, <2>2
  <1>4. ASSUME CheckIdle(c) PROVE Moves
    BY <1>0, <1>4 DEF CheckIdle, Squeezing
  <1>5. ASSUME ReadRecent(c) PROVE Moves
    <2>1. /\ squeeze[c] = "read"
          /\ text' = [text EXCEPT ![c] = T]
          /\ \/ window = << >> /\ squeeze' = [squeeze EXCEPT ![c] = "over"]
             \/ squeeze' = [squeeze EXCEPT ![c] = "ask"]
      BY <1>5 DEF ReadRecent, Squeezing, T
    <2>2. text'[c] = T
      BY <1>0, <2>1
    <2>3. CASE squeeze' = [squeeze EXCEPT ![c] = "ask"]
      <3>1. squeeze'[c] = "ask"
        BY <1>0, <2>3
      <3> QED
        BY <2>1, <2>2, <3>1
    <2>4. CASE window = << >> /\ squeeze' = [squeeze EXCEPT ![c] = "over"]
      <3>1. squeeze'[c] = "over"
        BY <1>0, <2>4
      <3> QED
        BY <2>1, <2>4, <3>1
    <2> QED
      BY <2>1, <2>3, <2>4
  <1>6. ASSUME StoreSummary(c) PROVE Moves
    BY <1>0, <1>6 DEF StoreSummary, Squeezing
  <1>7. /\ \A d \in Calls : d # c => squeeze'[d] = squeeze[d] /\ text'[d] = text[d]
        /\ covered' = covered \/ (squeeze[c] = "ask" /\ covered' = covered \union text[c])
    <2>1. \E l : squeeze' = [squeeze EXCEPT ![c] = l]
      BY DEF Compress, Count, CheckIdle, ReadRecent, StoreSummary, Squeezing
    <2>2. \E t : text' = [text EXCEPT ![c] = t]
      <3>1. text = [text EXCEPT ![c] = text[c]]
        BY <1>0
      <3> QED
        BY <3>1 DEF Compress, Count, CheckIdle, ReadRecent, StoreSummary
    <2>3. covered' = covered \/ (squeeze[c] = "ask" /\ covered' = covered \union text[c])
      BY DEF Compress, Count, CheckIdle, ReadRecent, StoreSummary, Squeezing
    <2>4. \A d \in Calls : d # c => squeeze'[d] = squeeze[d]
      BY <1>0, <2>1
    <2>5. \A d \in Calls : d # c => text'[d] = text[d]
      BY <1>0, <2>2
    <2> QED
      BY <2>3, <2>4, <2>5
  <1>8. Moves
    BY <1>3, <1>4, <1>5, <1>6 DEF Compress
  <1>9. Unread' \subseteq Unread
    <2>1. squeeze[c] \in {"count", "idle", "read"} \/ squeeze'[c] = "over"
      BY <1>8
    <2> HIDE DEF Moves
    <2>2. ASSUME NEW d \in Calls, squeeze'[d] \in {"count", "idle", "read"}
          PROVE  squeeze[d] \in {"count", "idle", "read"}
      BY <1>7, <2>1, <2>2
    <2> QED
      BY <2>2 DEF Unread
  <1> QED
    BY <1>1, <1>2, <1>7, <1>8, <1>9 DEF T, len

LEMMA ExpireTurn ==
    ASSUME IInv, Expire
    PROVE  /\ kept' /\ solo' /\ said' = 0 /\ Unread' = {} /\ InFlight' = {}
           /\ \A c \in Calls : squeeze'[c] # "idle" /\ ~ Fresh(c)' /\ ~ Awaiting(c)'
  <1>1. /\ kept' /\ solo' /\ said' = 0 /\ UNCHANGED <<pc, role, squeeze>> /\ InFlight = {}
        /\ \A c \in Calls : squeeze[c] \in {"none", "over"}
    BY DEF Expire, callVars
  <1> QED
    BY <1>1, TaskFacts DEF InFlight, Started, Unread, Fresh, Awaiting

LEMMA ByTurnsStep == IInv /\ TurnInv /\ [Next]_vars => ByTurns'
  <1> DEFINE Goal == /\ solo'
                     /\ \A d, e \in InFlight' : d = e
                     /\ \A d \in Unread' : Awaiting(d)'
  <1> SUFFICES ASSUME IInv, TurnInv, [Next]_vars, kept' PROVE Goal
    BY DEF ByTurns
  <1>0. kept => solo /\ (\A c, d \in InFlight : c = d) /\ \A c \in Unread : Awaiting(c)
    BY DEF TurnInv, ByTurns
  <1>1. ASSUME NEW c \in Calls, AppendMessage(c) PROVE Goal
    BY <1>0, <1>1, AppendTurn
  <1>2. ASSUME NEW c \in Calls, Touch(c), role[c] = "user" PROVE Goal
    <2>1. /\ kept /\ solo' = solo /\ InFlight' \subseteq InFlight
          /\ Unread' = Unread \union {c} /\ Awaiting(c)'
          /\ pc' = [pc EXCEPT ![c] = "agent"] /\ role' = role
      BY <1>2, TouchTurn
    <2>2. ASSUME NEW d \in Calls, d # c, Awaiting(d) PROVE Awaiting(d)'
      BY <2>1, <2>2, TaskFacts DEF Awaiting
    <2>3. Unread \subseteq Calls
      BY DEF Unread
    <2> QED
      BY <1>0, <2>1, <2>2, <2>3
  <1>3. ASSUME NEW c \in Calls, Compress(c) PROVE Goal
    <2>1. /\ kept /\ solo' = solo /\ InFlight' = InFlight /\ Unread' \subseteq Unread
          /\ \A d \in Calls : Awaiting(d)' <=> Awaiting(d)
      BY <1>3, CompressTurn
    <2>2. Unread \subseteq Calls
      BY DEF Unread
    <2> QED
      BY <1>0, <2>1, <2>2
  <1>4. CASE Expire
    BY <1>4, ExpireTurn
  <1>5. CASE /\ ~ Expire
             /\ \A c \in Calls : ~ AppendMessage(c) /\ ~ Compress(c)
                                 /\ ~ (Touch(c) /\ role[c] = "user")
    <2>1. /\ kept /\ solo' = solo /\ squeeze' = squeeze /\ InFlight' \subseteq InFlight
          /\ \A d \in Calls : Awaiting(d)' <=> Awaiting(d)
      BY <1>5, OtherTurns
    <2>2. Unread' = Unread /\ Unread \subseteq Calls
      BY <2>1 DEF Unread
    <2> QED
      BY <1>0, <2>1, <2>2
  <1> QED
    BY <1>1, <1>2, <1>3, <1>4, <1>5

\* While nothing fails no step but the expiry takes a message out of the
\* summaries made and in the making.
LEMMA NotedStays ==
    ASSUME IInv, TurnInv, [Next]_vars, kept', ~ Expire, NEW k, Noted(k)
    PROVE  Noted(k)'
  <1>1. ASSUME NEW c \in Calls, AppendMessage(c) PROVE Noted(k)'
    BY <1>1, AppendTurn DEF Noted
  <1>2. ASSUME NEW c \in Calls, Touch(c), role[c] = "user" PROVE Noted(k)'
    <2>1. Fresh(c) /\ UNCHANGED <<text, covered>> /\ squeeze' = [squeeze EXCEPT ![c] = "count"]
      BY <1>2, TouchTurn
    <2>2. squeeze[c] = "none"
      BY <2>1 DEF TurnInv, OneTask
    <2>3. \A d \in Calls : squeeze[d] = "ask" => squeeze'[d] = "ask"
      BY <2>1, <2>2, TaskFacts
    <2> QED
      BY <2>1, <2>3 DEF Noted
  <1>3. ASSUME NEW c \in Calls, Compress(c) PROVE Noted(k)'
    <2>1. /\ \A d \in Calls : d # c => squeeze'[d] = squeeze[d] /\ text'[d] = text[d]
          /\ covered' = covered \/ (squeeze[c] = "ask" /\ covered' = covered \union text[c])
      BY <1>3, CompressTurn
    <2>2. squeeze[c] = "ask" => covered' = covered \union text[c]
      BY <1>3 DEF Compress, Count, CheckIdle, ReadRecent, StoreSummary, Squeezing
    <2>3. k \in covered => k \in covered'
      BY <2>1
    <2>4. ASSUME NEW d \in Calls, squeeze[d] = "ask", k \in text[d] PROVE Noted(k)'
      <3>1. CASE d = c
        BY <2>2, <2>4, <3>1 DEF Noted
      <3>2. CASE d # c
        BY <2>1, <2>4, <3>2 DEF Noted
      <3> QED
        BY <3>1, <3>2
    <2> QED
      BY <2>3, <2>4 DEF Noted
  <1>4. CASE \A c \in Calls : ~ AppendMessage(c) /\ ~ Compress(c)
                              /\ ~ (Touch(c) /\ role[c] = "user")
    BY <1>4, OtherTurns DEF Noted
  <1> QED
    BY <1>1, <1>2, <1>3, <1>4

LEMMA NotesDown == \A n \in Int : Notes(n) => Notes(n - 1)
  <1> SUFFICES ASSUME NEW n \in Int, Notes(n), n - 1 >= Threshold,
                      NEW k \in First .. n - 1
               PROVE  Noted(k)
    BY DEF Notes
  <1>1. n >= Threshold /\ k \in First .. n
    BY FirstFacts
  <1> QED
    BY <1>1 DEF Notes

\* The read of a task makes good for the messages since the read before it.
LEMMA ReadCatchesUp ==
    ASSUME IInv, solo, WindowMax >= 2, Threshold <= WindowMax,
           Notes(said - 2), said >= Threshold,
           NEW k \in First .. said, ~ Noted(k)
    PROVE  \E i \in 1 .. Len(Recent(window)) : Recent(window)[i] = k
  <1>1. k > said - WindowMax
    <2>1. said \in Nat /\ WindowMax \in Nat /\ Threshold \in Nat /\ First \in {1, 2}
          /\ (First = 1 <=> Threshold < WindowMax) /\ k \in Int
      BY FirstFacts, TaskFacts
    <2>2. ASSUME k <= said - WindowMax PROVE FALSE
      <3>1. k \in First .. said - 2
        BY <2>1, <2>2
      <3>2. ~ (said - 2 >= Threshold)
        BY <3>1 DEF Notes
      <3> QED
        BY <2>1, <2>2, <3>2
    <2> QED
      BY <2>1, <2>2
  <1>2. k \in 1 .. said
    BY FirstFacts
  <1> QED
    BY <1>1, <1>2, RecentText

LEMMA PaceStep ==
    ASSUME IInv, TurnInv, [Next]_vars, kept', WindowMax >= 2, Threshold <= WindowMax
    PROVE  /\ Notes(said - 2)'
           /\ (\A c \in Calls : ~ Fresh(c)' /\ ~ Awaiting(c)') => Notes(said - 1)'
           /\ (\E c \in Calls : Awaiting(c)') /\ Unread' = {} => Notes(said)'
           /\ \A c \in Calls : squeeze'[c] = "idle" => said' < Threshold
  <1> DEFINE Goal ==
          /\ Notes(said - 2)'
          /\ (\A c \in Calls : ~ Fresh(c)' /\ ~ Awaiting(c)') => Notes(said - 1)'
          /\ (\E c \in Calls : Awaiting(c)') /\ Unread' = {} => Notes(said)'
          /\ \A c \in Calls : squeeze'[c] = "idle" => said' < Threshold
  <1>0. said \in Nat /\ Threshold \in Nat \ {0}
    BY FirstFacts, TaskFacts
  <1>a. kept => /\ Notes(said - 2)
                /\ (\A c \in Calls : ~ Fresh(c) /\ ~ Awaiting(c)) => Notes(said - 1)
                /\ (\E c \in Calls : Awaiting(c)) /\ Unread = {} => Notes(said)
                /\ \A c \in Calls : squeeze[c] = "idle" => said < Threshold
    BY DEF TurnInv, KeepsPace
  <1>b. kept => \A c \in Unread : Awaiting(c)
    BY DEF TurnInv, ByTurns
  <1>c. ~ Expire => \A k : Noted(k) => Noted(k)'
    BY NotedStays
  <1>1. ASSUME NEW c \in Calls, AppendMessage(c) PROVE Goal
    <2>1. /\ kept /\ InFlight \subseteq {c} /\ Unread = {} /\ said' = said + 1
          /\ squeeze' = squeeze /\ role' = role /\ pc[c] = "append"
          /\ pc' = [pc EXCEPT ![c] = "size"]
      BY <1>1, AppendTurn
    <2>2. ~ Expire
      <3>1. said' # 0
        BY <1>0, <2>1
      <3>2. Expire => said' = 0
        BY DEF Expire
      <3> QED
        BY <3>1, <3>2
    <2>3. \A d \in Calls : d # c => ~ Fresh(d) /\ ~ Awaiting(d) /\ ~ Awaiting(d)'
      <3>1. ASSUME NEW d \in Calls, d # c
            PROVE  ~ Fresh(d) /\ ~ Awaiting(d) /\ pc'[d] = pc[d] /\ role'[d] = role[d]
        BY <2>1, <3>1, TaskFacts DEF InFlight, Started, Fresh, Awaiting
      <3> QED
        BY <3>1 DEF Awaiting
    <2>4. ~ Awaiting(c)' /\ ~ Fresh(c)
      BY <2>1, TaskFacts DEF Awaiting, Fresh
    <2>5. \A d \in Calls : squeeze'[d] # "idle"
      BY <2>1 DEF Unread
    <2>6. CASE role[c] = "user"
      <3>1. ~ Awaiting(c) /\ Fresh(c)'
        BY <2>1, <2>6, TaskFacts DEF Awaiting, Fresh
      <3>2. Notes(said - 1)
        BY <1>a, <2>1, <2>3, <2>4, <3>1
      <3>3. Notes(said - 2)'
        <4>1. said' - 2 = said - 1
          BY <1>0, <2>1
        <4> QED
          BY <1>c, <2>2, <3>2, <4>1 DEF Notes
      <3> QED
        BY <2>3, <2>4, <2>5, <3>1, <3>3
    <2>7. CASE role[c] = "assistant"
      <3>1. Awaiting(c)
        BY <2>1, <2>7 DEF Awaiting
      <3>2. Notes(said) /\ Notes(said - 1)
        BY <1>0, <1>a, <2>1, <3>1, NotesDown
      <3>3. Notes(said - 2)'
        <4>1. said' - 2 = said - 1
          BY <1>0, <2>1
        <4> QED
          BY <1>c, <2>2, <3>2, <4>1 DEF Notes
      <3>4. Notes(said - 1)'
        <4>1. said' - 1 = said
          BY <1>0, <2>1
        <4> QED
          BY <1>c, <2>2, <3>2, <4>1 DEF Notes
      <3> QED
        BY <2>3, <2>4, <2>5, <3>3, <3>4
    <2> QED
      BY <2>6, <2>7, TaskFacts
  <1>2. ASSUME NEW c \in Calls, Touch(c), role[c] = "user" PROVE Goal
    <2>1. /\ kept /\ said' = said /\ Awaiting(c)' /\ c \in Unread'
          /\ squeeze' = [squeeze EXCEPT ![c] = "count"] /\ pc[c] = "touch"
      BY <1>2, TouchTurn
    <2>2. ~ Expire
      BY <1>2, <2>1 DEF Expire, Touch, InFlight, Started
    <2>3. Notes(said - 2)'
      BY <1>a, <1>c, <2>1, <2>2 DEF Notes
    <2>4. \A d \in Calls : squeeze'[d] = "idle" => squeeze[d] = "idle"
      BY <2>1, TaskFacts
    <2> QED
      BY <1>a, <2>1, <2>3, <2>4
  <1>3. ASSUME NEW c \in Calls, Compress(c) PROVE Goal
    <2>1. /\ kept /\ solo' = solo /\ said' = said /\ Unread' \subseteq Unread
          /\ \A d \in Calls : (Fresh(d)' <=> Fresh(d)) /\ (Awaiting(d)' <=> Awaiting(d))
          /\ \A d \in Calls : d # c => squeeze'[d] = squeeze[d]
      BY <1>3, CompressTurn
    <2>2. ~ Expire
      BY <1>3 DEF Expire, Compress, Count, CheckIdle, ReadRecent, StoreSummary, Squeezing
    <2>3. Notes(said - 2)'
      BY <1>a, <1>c, <2>1, <2>2 DEF Notes
    <2>4. (\A d \in Calls : ~ Fresh(d)' /\ ~ Awaiting(d)') => Notes(said - 1)'
      BY <1>a, <1>c, <2>1, <2>2 DEF Notes
    <2>5. Unread = {} => ((\E d \in Calls : Awaiting(d)') => Notes(said)')
      BY <1>a, <1>c, <2>1, <2>2 DEF Notes
    <2>6. said < Threshold => Notes(said)'
      BY <1>0, <2>1 DEF Notes
    <2>s. solo
      BY <2>1 DEF TurnInv, ByTurns
    <2>7. CASE squeeze[c] = "count"
      <3>1. c \in Unread' /\ (squeeze'[c] = "idle" => said < Threshold)
        <4>1. \/ squeeze'[c] = "read"
              \/ squeeze'[c] = "idle" /\ Len(window) < Threshold
          BY <1>3, <2>7, CompressTurn
        <4>2. Len(window) < Threshold => said < Threshold
          BY <2>s, RecentText
        <4> QED
          BY <4>1, <4>2 DEF Unread
      <3> QED
        BY <1>a, <2>1, <2>3, <2>4, <3>1
    <2>8. CASE squeeze[c] = "idle"
      <3>1. squeeze'[c] # "idle" /\ said < Threshold
        <4>1. squeeze'[c] \in {"read", "over"}
          BY <1>3, <2>8, CompressTurn
        <4> QED
          BY <1>a, <2>1, <2>8, <4>1
      <3> QED
        BY <1>a, <2>1, <2>3, <2>4, <2>6, <3>1
    <2>9. CASE squeeze[c] = "read"
      <3>1. \/ squeeze'[c] = "over" /\ window = << >>
            \/ /\ squeeze'[c] = "ask"
               /\ text'[c] = {Recent(window)[i] : i \in 1 .. Len(Recent(window))}
        BY <1>3, <2>9, CompressTurn
      <3>2. Notes(said)'
        <4>1. CASE said < Threshold
          BY <2>6, <4>1
        <4>2. CASE said >= Threshold
          <5>1. window # << >>
            BY <1>0, <2>s, <4>2, RecentText
          <5>2. /\ squeeze'[c] = "ask"
                /\ text'[c] = {Recent(window)[i] : i \in 1 .. Len(Recent(window))}
            BY <3>1, <5>1
          <5>3. ASSUME NEW k \in First .. said PROVE Noted(k)'
            <6>1. CASE Noted(k)
              BY <1>c, <2>2, <6>1
            <6>2. CASE ~ Noted(k)
              <7>1. \E i \in 1 .. Len(Recent(window)) : Recent(window)[i] = k
                BY <1>a, <2>1, <2>s, <4>2, <6>2, ReadCatchesUp
              <7>2. k \in text'[c]
                BY <5>2, <7>1
              <7> QED
                BY <5>2, <7>2 DEF Noted
            <6> QED
              BY <6>1, <6>2
          <5> QED
            BY <2>1, <5>3 DEF Notes
        <4> QED
          BY <1>0, <4>1, <4>2
      <3>3. squeeze'[c] # "idle"
        BY <3>1
      <3> QED
        BY <1>a, <2>1, <2>3, <2>4, <3>2, <3>3
    <2>10. CASE squeeze[c] = "ask"
      <3>1. squeeze'[c] = "over"
        BY <1>3, <2>10, CompressTurn
      <3>2. Unread' = Unread
        <4>1. \A d \in Calls : squeeze[d] \in {"count", "idle", "read"}
                               <=> squeeze'[d] \in {"count", "idle", "read"}
          BY <2>1, <2>10, <3>1
        <4> QED
          BY <4>1 DEF Unread
      <3> QED
        BY <1>a, <2>1, <2>3, <2>4, <2>5, <3>1, <3>2
    <2> QED
      BY <1>3, <2>7, <2>8, <2>9, <2>10, CompressTurn
  <1>4. CASE Expire
    <2>1. said' = 0 /\ \A c \in Calls : squeeze'[c] # "idle" /\ ~ Awaiting(c)'
      BY <1>4, ExpireTurn
    <2>2. Notes(said - 2)' /\ Notes(said - 1)'
      BY <1>0, <2>1 DEF Notes
    <2> QED
      BY <2>1, <2>2
  <1>5. CASE /\ ~ Expire
             /\ \A c \in Calls : ~ AppendMessage(c) /\ ~ Compress(c)
                                 /\ ~ (Touch(c) /\ role[c] = "user")
    <2>1. /\ kept /\ UNCHANGED <<said, squeeze>>
          /\ \A d \in Calls : (Fresh(d)' <=> Fresh(d)) /\ (Awaiting(d)' <=> Awaiting(d))
      BY <1>5, OtherTurns
    <2>2. Unread' = Unread
      BY <2>1 DEF Unread
    <2>3. /\ Notes(said - 2) => Notes(said - 2)'
          /\ Notes(said - 1) => Notes(said - 1)'
          /\ Notes(said) => Notes(said)'
      BY <1>5, <1>c, <2>1 DEF Notes
    <2> QED
      BY <1>a, <2>1, <2>2, <2>3
  <1> QED
    BY <1>1, <1>2, <1>3, <1>4, <1>5

LEMMA InitTurns == Init => TurnInv
  <1> SUFFICES ASSUME Init PROVE TurnInv
    OBVIOUS
  <1>1. Unread = {} /\ InFlight = {} /\ solo /\ \A c \in Calls : ~ Awaiting(c)
    BY DEF Init, Unread, InFlight, Started, Awaiting
  <1>2. \A c \in Calls : squeeze[c] = "none"
    BY DEF Init
  <1>3. Notes(said - 2) /\ Notes(said - 1)
    BY FirstFacts DEF Init, Notes
  <1> QED
    BY <1>1, <1>2, <1>3 DEF TurnInv, ByTurns, OneTask, KeepsPace

\* What has left the list is older than the last WindowMax messages.
LEMMA NothingElseForgotten ==
    ASSUME IInv, TurnInv, WindowMax >= 2, Threshold <= WindowMax
    PROVE  OnlyFirstForgotten
  <1> DEFINE len == Len(window)
  <1> SUFFICES ASSUME kept, NEW k \in 1 .. said - len,
                      ~ (k = 1 /\ Threshold >= WindowMax)
               PROVE  Noted(k)
    BY DEF OnlyFirstForgotten, Noted
  <1>0. len \in Nat /\ said \in Nat
    BY ListFacts
  <1> HIDE DEF len
  <1>1. len >= Lesser(WindowMax, said)
    BY DEF TurnInv, ByTurns, IInv, KeepsRecent, len
  <1>2. k <= said - WindowMax
    BY <1>0, <1>1, FirstFacts DEF Lesser
  <1>3. said - 2 >= Threshold /\ k \in First .. said - 2
    BY <1>0, <1>2, FirstFacts
  <1> QED
    BY <1>3 DEF TurnInv, KeepsPace, Notes

-----------------------------------------------------------------------------
(* The theorems.                                                           *)

\* The invariant holds in every state the assistant reaches.
THEOREM InductiveInvariant == Spec => []IInv
  <1>1. Init => IInv
    BY InitInv
  <1>2. IInv /\ [Next]_vars => IInv'
    BY TypeStep, SurplusStep, SoloStep, KeepsStep, BoundStep, ProfileStep DEF IInv
  <1> QED
    BY <1>1, <1>2, PTL DEF Spec

\* Every variable keeps its type, and the list of ShortTermMemory always holds
\* the last messages that were appended, in order, without a hole.
THEOREM TypeCorrectness == Spec => []ChatTypeOK
  <1>1. IInv => ChatTypeOK
    BY DEF IInv
  <1> QED
    BY <1>1, InductiveInvariant, PTL

\* ShortTermMemory.addMessage keeps the last WindowMax messages of a session
\* whose appends never overlapped, however calls fail and servers restart.
THEOREM LatestMessagesKept == Spec => []KeepsRecent
  <1>1. IInv => KeepsRecent
    BY DEF IInv
  <1> QED
    BY <1>1, InductiveInvariant, PTL

\* The list outgrows WindowMax only by the calls between their RPUSH and their
\* LTRIM and by those that a fault stopped there.
THEOREM WindowIsBounded == Spec => []WindowBounded
  <1>1. IInv => WindowBounded
    BY DEF IInv
  <1> QED
    BY <1>1, InductiveInvariant, PTL

\* LongTermMemory.updateProfile never counts more turns than took effect, and
\* counts them all while no two updates of the user overlap.
THEOREM TurnsAreCounted == Spec => []TurnsCounted
  <1>1. IInv => TurnsCounted
    BY DEF IInv
  <1> QED
    BY <1>1, InductiveInvariant, PTL

\* AutoCompressor summarises every message before ShortTermMemory lets go of
\* it, as long as the calls take turns, the tasks keep pace and nothing fails.
\* With threshold < max (10 and 5 in production) that is every message; with
\* threshold = max (20 by default) every one but the first.
THEOREM NothingForgotten ==
    ASSUME WindowMax >= 2, Threshold <= WindowMax
    PROVE  Spec => []OnlyFirstForgotten
  <1>1. Init => TurnInv
    BY InitTurns
  <1>2. IInv /\ TurnInv /\ [Next]_vars => TurnInv'
    <2> SUFFICES ASSUME IInv, TurnInv, [Next]_vars PROVE TurnInv'
      OBVIOUS
    <2>1. ByTurns' /\ OneTask'
      BY ByTurnsStep, OneTaskStep DEF TurnInv
    <2>2. KeepsPace'
      BY PaceStep DEF KeepsPace
    <2> QED
      BY <2>1, <2>2 DEF TurnInv
  <1>3. IInv /\ TurnInv => OnlyFirstForgotten
    BY NothingElseForgotten
  <1> QED
    BY <1>1, <1>2, <1>3, InductiveInvariant, PTL DEF Spec

-----------------------------------------------------------------------------
(* A call comes to an end.                                                 *)

\* Steps from p to the end of the message that the call is storing.
Stage(p) ==
    CASE p = "append" -> 4
      [] p = "size"   -> 3
      [] p = "trim"   -> 2
      [] p = "touch"  -> 1
      [] OTHER        -> 0

\* Steps that a call can still take at p, storing a message of r after n failed
\* attempts: until the agent has answered also the attempts that remain and
\* the storing of the answer.
StepsLeft(p, r, n) ==
    Stage(p) + (IF p # "over" /\ (r = "user" \/ p = "agent") THEN 5 + MaxRetry - n ELSE 0)

Left(c) == StepsLeft(pc[c], role[c], tries[c])

\* AgentRouter.executeWithFallback inside ChatController.chat: every step of a
\* call uses up one of a bounded number of steps, and no step of another
\* call, a task, a fault or a restart gives any back: the safety part of
\* CallsEnd.
CallsAdvance ==
    [][\A c \in Calls :
          <<pc'[c], role'[c], tries'[c]>> # <<pc[c], role[c], tries[c]>>
              => Left(c)' < Left(c)]_vars

LEMMA Stages ==
    /\ Stage("append") = 4 /\ Stage("size") = 3 /\ Stage("trim") = 2
    /\ Stage("touch") = 1 /\ Stage("agent") = 0 /\ Stage("over") = 0
  BY DEF Stage

LEMMA LeftIsNatural ==
    ASSUME CallTypes, NEW c \in Calls
    PROVE  Left(c) \in 0 .. MaxRetry + 9 /\ (pc[c] # "over" => Left(c) > 0)
  <1>1. tries[c] \in 0 .. MaxRetry /\ MaxRetry \in Nat
    BY ChatAssumption DEF CallTypes
  <1>2. pc[c] \in {"append", "size", "trim", "touch", "agent", "over"}
    BY DEF CallTypes
  <1>3. /\ Stage(pc[c]) \in 0 .. 4
        /\ pc[c] \notin {"agent", "over"} => Stage(pc[c]) > 0
    BY <1>2, Stages
  <1> QED
    BY <1>1, <1>2, <1>3 DEF Left, StepsLeft

(* A call's own steps: each goes on to a later stage, tries the agent once *)
(* more, or turns from the question to the answer.                         *)
LEMMA OwnStepsCount ==
    ASSUME CallTypes, NEW c \in Calls, Converse(c)
    PROVE  Left(c)' < Left(c)
  <1>1. PICK p, r, n : p = pc[c] /\ r = role[c] /\ n = tries[c]
    OBVIOUS
  <1>2. PICK q, s, k : q = pc'[c] /\ s = role'[c] /\ k = tries'[c]
    OBVIOUS
  <1>3. r \in {"user", "assistant"} /\ n \in 0 .. MaxRetry /\ MaxRetry \in Nat
    BY <1>1, ChatAssumption DEF CallTypes
  <1>4. \/ <<p, q>> = <<"append", "size">> /\ s = r /\ k = n
        \/ <<p, q>> = <<"size", "trim">> /\ s = r /\ k = n
        \/ <<p, q>> = <<"size", "touch">> /\ s = r /\ k = n
        \/ <<p, q>> = <<"trim", "touch">> /\ s = r /\ k = n
        \/ <<p, q>> = <<"touch", "agent">> /\ s = r /\ k = n /\ r = "user"
        \/ <<p, q>> = <<"touch", "over">> /\ s = r /\ k = n /\ r # "user"
        \/ <<p, q>> = <<"agent", "append">> /\ s = "assistant" /\ k = n
        \/ <<p, q>> = <<"agent", "agent">> /\ s = r /\ k = n + 1
    <2> USE <1>1, <1>2 DEF callVars, Goto, CallTypes
    <2>1. CASE AppendMessage(c)
      BY <2>1 DEF AppendMessage
    <2>2. CASE ReadSize(c)
      BY <2>2 DEF ReadSize
    <2>3. CASE Trim(c)
      BY <2>3 DEF Trim
    <2>4. CASE Touch(c)
      BY <2>4 DEF Touch
    <2>5. CASE AgentAnswers(c) \/ GiveUp(c)
      BY <2>5 DEF AgentAnswers, GiveUp, Reply
    <2>6. CASE Retry(c)
      BY <2>6 DEF Retry
    <2> QED
      BY <2>1, <2>2, <2>3, <2>4, <2>5, <2>6 DEF Converse
  <1>5. StepsLeft(q, s, k) < StepsLeft(p, r, n)
    BY <1>3, <1>4, Stages DEF StepsLeft
  <1> QED
    BY <1>1, <1>2, <1>5 DEF Left

(* What other calls, the tasks and time leave alone.                       *)
LEMMA OthersStepAside ==
    ASSUME CallTypes, [Next]_vars, NEW c \in Calls, ~ Converse(c), ~ CallFails(c), ~ Crash
    PROVE  pc'[c] = pc[c] /\ role'[c] = role[c] /\ tries'[c] = tries[c]
  <1> USE DEF callVars, CallTypes
  <1>1. ASSUME NEW d \in Calls, Converse(d)
        PROVE  pc'[c] = pc[c] /\ role'[c] = role[c] /\ tries'[c] = tries[c]
    <2>1. d # c
      BY <1>1
    <2>2. CASE AppendMessage(d) \/ ReadSize(d) \/ Trim(d) \/ Touch(d)
      BY <2>1, <2>2 DEF AppendMessage, ReadSize, Trim, Touch, Goto
    <2>3. CASE AgentAnswers(d) \/ GiveUp(d)
      BY <2>1, <2>3 DEF AgentAnswers, GiveUp, Reply, Goto
    <2>4. CASE Retry(d)
      BY <2>1, <2>4 DEF Retry
    <2> QED
      BY <1>1, <2>2, <2>3, <2>4 DEF Converse
  <1>2. ASSUME NEW d \in Calls, Compress(d) \/ Profile(d)
        PROVE  UNCHANGED callVars
    BY <1>2 DEF Compress, Profile, Count, CheckIdle, ReadRecent, StoreSummary,
                SelectRow, InsertRow, UpdateRow
  <1>3. ASSUME NEW d \in Calls, CallFails(d)
        PROVE  pc'[c] = pc[c] /\ role'[c] = role[c] /\ tries'[c] = tries[c]
    <2>1. d # c
      BY <1>3
    <2> QED
      BY <1>3, <2>1 DEF CallFails, Goto
  <1>4. ASSUME NEW d \in Calls, CompressionFails(d) \/ UpdateFails(d)
        PROVE  UNCHANGED callVars
    BY <1>4 DEF CompressionFails, UpdateFails
  <1>5. GrowOld \/ Expire => UNCHANGED callVars
    BY DEF GrowOld, Expire
  <1>6. UNCHANGED vars => UNCHANGED callVars
    BY DEF vars
  <1> QED
    BY <1>1, <1>2, <1>3, <1>4, <1>5, <1>6 DEF Next

(* A call takes at most MaxRetry + 9 steps, whatever fails and whoever     *)
(* else talks: it cannot go round.                                         *)
THEOREM CallsCannotGoRound ==
    Spec => CallsAdvance /\ [](\A c \in Calls : Left(c) \in 0 .. MaxRetry + 9)
  <1>1. IInv => CallTypes
    BY TypeParts DEF IInv
  <1>2. IInv => \A c \in Calls : Left(c) \in 0 .. MaxRetry + 9
    BY <1>1, LeftIsNatural
  <1>3. IInv /\ [Next]_vars =>
            \A c \in Calls :
                <<pc'[c], role'[c], tries'[c]>> # <<pc[c], role[c], tries[c]>>
                    => Left(c)' < Left(c)
    <2> SUFFICES ASSUME IInv, [Next]_vars, NEW c \in Calls,
                        ~ (pc'[c] = pc[c] /\ role'[c] = role[c] /\ tries'[c] = tries[c])
                 PROVE  Left(c)' < Left(c)
      OBVIOUS
    <2>1. CASE Converse(c)
      BY <1>1, <2>1, OwnStepsCount
    <2>2. CASE CallFails(c) \/ Crash
      <3>0. pc \in [Calls -> {"append", "size", "trim", "touch", "agent", "over"}]
        BY <1>1 DEF CallTypes
      <3>1. /\ c \in InFlight
            /\ pc'[c] = "over"
        <4>1. CASE CallFails(c)
          BY <3>0, <4>1 DEF CallFails, Goto
        <4>2. CASE Crash
          BY <3>0, <4>2 DEF Crash
        <4> QED
          BY <2>2, <4>1, <4>2
      <3>2. StepsLeft("over", role'[c], tries'[c]) = 0
        BY Stages DEF StepsLeft
      <3>3. Left(c)' = StepsLeft("over", role'[c], tries'[c])
        BY <3>1 DEF Left
      <3> QED
        BY <1>1, <3>1, <3>2, <3>3, LeftIsNatural DEF InFlight
    <2> QED
      BY <1>1, <2>1, <2>2, OthersStepAside
  <1> QED
    BY <1>2, <1>3, InductiveInvariant, PTL DEF Spec, CallsAdvance
=============================================================================
