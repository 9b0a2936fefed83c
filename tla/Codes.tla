------------------------------- MODULE Codes -------------------------------
(***************************************************************************)
(* UserServiceImpl.sendCode for one phone number: the two blocks, the      *)
(* sorted set of send times, and the calls that read and write them one    *)
(* Redis command at a time.  Time is counted in ticks, Minute of them to a *)
(* minute; nothing depends on when a behaviour starts, so the send times   *)
(* are kept as ages and the blocks as remaining times.  What the code says *)
(* is left out: login compares it with nothing.                            *)
(***************************************************************************)
EXTENDS Integers, FiniteSets

CONSTANTS Threads,   \* HTTP threads
          Minute,    \* ticks in a minute
          Twins,     \* whether two codes may be recorded in one millisecond
          MaxFaults  \* bound on the crashes and Redis errors of a behaviour

ASSUME CodesAssumption ==
    /\ IsFiniteSet(Threads)
    /\ Minute \in Nat \ {0}
    /\ Twins \in BOOLEAN
    /\ MaxFaults \in Nat

VARIABLES
    sent,       \* codes recorded in the last five minutes, [by, age, twin]
    limit,      \* limit[l]: rest of the block of level l
    pc,         \* progress of a thread
    lost,       \* history: codes set by calls that died before recording them
    overlapped, \* history: two calls have been under way at once
    faults

vars == <<sent, limit, pc, lost, overlapped, faults>>

Levels  == {"one", "two"}
Length  == [l \in Levels |-> IF l = "one" THEN 5 * Minute ELSE 20 * Minute]
Window  == 0 .. 5 * Minute
Off     == 0     \* no key
Forever == -1    \* a key without a time to live

\* "passed" is reached with a minute since the last code; "send" and "issued"
\* are before the SET and the ZADD, "block" and "expire" before the two commands
\* that set a block.
Places == {"idle", "called", "unlimited", "unblocked", "passed", "send", "issued",
           "blockone", "expireone", "blocktwo", "expiretwo"}

Init ==
    /\ sent = {}
    /\ limit = [l \in Levels |-> Off]
    /\ pc = [t \in Threads |-> "idle"]
    /\ lost = 0
    /\ overlapped = FALSE
    /\ faults = MaxFaults

Goto(t, l) == pc' = [pc EXCEPT ![t] = l]

\* ZCOUNT on sms:sendtime from some minutes ago to now, both ends included.  The
\* members are milliseconds: a code has none of its own if a twin was recorded
\* in the same one.
Within(age) == {x \in sent : x.age <= age /\ ~ x.twin}

-----------------------------------------------------------------------------
Call(t) ==
    /\ pc[t] = "idle"
    /\ Goto(t, "called")
    /\ overlapped' = (overlapped \/ \E s \in Threads : pc[s] # "idle")
    /\ UNCHANGED <<sent, limit, lost, faults>>

\* isMember on the key of a level.
CheckLevel(t, here, l, there) ==
    /\ pc[t] = here
    /\ Goto(t, IF limit[l] = Off THEN there ELSE "idle")
    /\ UNCHANGED <<sent, limit, lost, overlapped, faults>>

\* Faulty variant: the minute is not looked at.
CheckMinuteSkipped(t) ==
    /\ pc[t] = "unblocked"
    /\ Goto(t, "passed")
    /\ UNCHANGED <<sent, limit, lost, overlapped, faults>>

CheckMinute(t) ==
    /\ pc[t] = "unblocked"
    /\ Goto(t, IF Within(Minute) = {} THEN "passed" ELSE "idle")
    /\ UNCHANGED <<sent, limit, lost, overlapped, faults>>

\* Faulty variant: the first block falls due one code earlier.
VerdictEarly(n) ==
    CASE n % 3 = 2 /\ n > 5 -> "blocktwo"
      [] n = 4              -> "blockone"
      [] OTHER              -> "send"

Verdict(n) ==
    CASE n % 3 = 2 /\ n > 5 -> "blocktwo"
      [] n = 5              -> "blockone"
      [] OTHER              -> "send"

CheckFive(t) ==
    /\ pc[t] = "passed"
    /\ Goto(t, Verdict(Cardinality(Within(5 * Minute))))
    /\ UNCHANGED <<sent, limit, lost, overlapped, faults>>

\* SADD: a key that exists keeps its time to live.
SetBlock(t, here, l, there) ==
    /\ pc[t] = here
    /\ limit' = [limit EXCEPT ![l] = IF @ = Off THEN Forever ELSE @]
    /\ Goto(t, there)
    /\ UNCHANGED <<sent, lost, overlapped, faults>>

\* Faulty variant: the time to live goes to the key of the other level.
ExpireWrongKey(t, here, l) ==
    /\ pc[t] = here
    /\ limit' = [k \in Levels |-> IF k # l /\ limit[k] # Off THEN Length[k] ELSE limit[k]]
    /\ Goto(t, "idle")
    /\ UNCHANGED <<sent, lost, overlapped, faults>>

\* Faulty variant: hours for minutes.
ExpireInHours(t, here, l) ==
    /\ pc[t] = here
    /\ limit' = [limit EXCEPT ![l] = IF @ = Off THEN Off ELSE 60 * Length[l]]
    /\ Goto(t, "idle")
    /\ UNCHANGED <<sent, lost, overlapped, faults>>

\* EXPIRE, on a key that may be gone again.
ExpireBlock(t, here, l) ==
    /\ pc[t] = here
    /\ limit' = [limit EXCEPT ![l] = IF @ = Off THEN Off ELSE Length[l]]
    /\ Goto(t, "idle")
    /\ UNCHANGED <<sent, lost, overlapped, faults>>

\* SET of the code and its time to live, in one command.
IssueCode(t) ==
    /\ pc[t] = "send"
    /\ Goto(t, "issued")
    /\ UNCHANGED <<sent, limit, lost, overlapped, faults>>

Add(t) ==
    \E twin \in BOOLEAN :
        /\ twin => Twins /\ Within(0) # {}
        /\ sent' = sent \union {[by |-> t, age |-> 0, twin |-> twin]}

\* Faulty variant: the next code is sent without another look at the set.
RecordTimeRetried(t) ==
    /\ pc[t] = "issued"
    /\ Add(t)
    /\ Goto(t, "idle") \/ Goto(t, "send")
    /\ UNCHANGED <<limit, lost, overlapped, faults>>

\* ZADD of the current time, which the next ZCOUNT of the minute sees.
RecordTime(t) ==
    /\ pc[t] = "issued"
    /\ Add(t)
    /\ Goto(t, "idle")
    /\ UNCHANGED <<limit, lost, overlapped, faults>>

\* A crash or a Redis error between two commands, the SET and the ZADD included.
CallDies(t) ==
    /\ pc[t] # "idle"
    /\ faults > 0
    /\ faults' = faults - 1
    /\ lost' = IF pc[t] = "issued" THEN lost + 1 ELSE lost
    /\ Goto(t, "idle")
    /\ UNCHANGED <<sent, limit, overlapped>>

\* Codes older than five minutes stay in the sorted set and are never counted.
Tick ==
    /\ sent' = {[x EXCEPT !.age = @ + 1] : x \in {y \in sent : y.age < 5 * Minute}}
    /\ limit' = [l \in Levels |-> IF limit[l] > 0 THEN limit[l] - 1 ELSE limit[l]]
    /\ UNCHANGED <<pc, lost, overlapped, faults>>

-----------------------------------------------------------------------------
CheckLevelOne(t) == CheckLevel(t, "called", "one", "unlimited")
CheckLevelTwo(t) == CheckLevel(t, "unlimited", "two", "unblocked")
BlockOne(t) == SetBlock(t, "blockone", "one", "expireone")
BlockTwo(t) == SetBlock(t, "blocktwo", "two", "expiretwo")
ExpireOne(t) == ExpireBlock(t, "expireone", "one")
ExpireTwo(t) == ExpireBlock(t, "expiretwo", "two")

Serve(t) ==
    \/ CheckLevelOne(t) \/ CheckLevelTwo(t) \/ CheckMinute(t) \/ CheckFive(t)
    \/ BlockOne(t) \/ ExpireOne(t) \/ BlockTwo(t) \/ ExpireTwo(t)
    \/ IssueCode(t) \/ RecordTime(t)

Next == Tick \/ \E t \in Threads : Call(t) \/ Serve(t) \/ CallDies(t)

Spec == Init /\ [][Next]_vars

-----------------------------------------------------------------------------
CodesTypeOK ==
    /\ sent \subseteq [by : Threads, age : Window, twin : BOOLEAN]
    /\ limit \in [Levels -> -1 .. 20 * Minute]
    /\ pc \in [Threads -> Places]
    /\ lost \in Nat
    /\ overlapped \in BOOLEAN
    /\ faults \in Nat

\* Calls that have died.
Died == MaxFaults - faults

\* Threads whose code is set and not yet recorded.
Issuing == {t \in Threads : pc[t] = "issued"}

\* A code that was set in the last minutes is recorded in them, or about to be,
\* or its call died.  The test of the last minute, the SET and the ZADD are
\* commands of their own, so calls that overlap or die set more than one code a
\* minute, but never more in a minute than there are threads, and one for each
\* call that died: a thread that has recorded its code must pass the test again.
BurstBound ==
    Cardinality({x \in sent : x.age <= Minute}) + Cardinality(Issuing) + lost
        <= Cardinality(Threads) + Died

\* Nor does a thread set more than five codes in five minutes, and one for each
\* call that died, though the counts 6, 7, 9, 10, ... set no block and calls that
\* overlap step over 5 and 8, so that the blocks do not stop them: more than a
\* minute lies between the ZADD of one code of a thread and the SET of the next.
FloodBound ==
    \A t \in Threads :
        Cardinality({x \in sent : x.by = t}) + Cardinality(Issuing \intersect {t}) + lost
            <= 5 + Died

\* "Five codes in five minutes" is out of reach of calls that do not overlap:
\* a minute must lie between two codes and before the call, so the count is
\* four at most when it is compared with five, and no block is ever set.
AloneNeverBlocked ==
    ~ overlapped =>
        /\ \A l \in Levels : limit[l] = Off
        /\ \A t \in Threads : pc[t] \in {"send", "issued"} =>
               Cardinality(Within(5 * Minute)) <= 4

\* A block without an end is about to be given one, or a call has died: SADD
\* and EXPIRE are two commands, and nobody repairs a key left without the
\* second.
BlockEnds ==
    (\E l \in Levels : limit[l] = Forever) =>
        \/ faults < MaxFaults
        \/ \E t \in Threads : pc[t] \in {"expireone", "expiretwo"}
=============================================================================
