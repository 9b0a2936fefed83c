-------------------------------- MODULE Chat --------------------------------
(***************************************************************************)
(* One conversation of the assistant: ChatController.chat with the three   *)
(* memories it writes.  A call appends the user's message to the Redis     *)
(* list of the session and trims it (short term), starts a task that       *)
(* summarises the list into ChromaDB when it is long or old (mid term),    *)
(* asks an agent up to MaxRetry + 1 times, appends the answer, and starts  *)
(* a task that counts the turn in tb_user_profile (long term).  Calls of   *)
(* the same user and session may overlap: nothing serialises them.         *)
(*                                                                         *)
(* The k-th message appended since the list was last empty is the number   *)
(* k; what a prompt, an answer or a summary says is left out, and so are   *)
(* the metrics and the copy of the profile in ChromaDB, which no code      *)
(* reads.                                                                  *)
(***************************************************************************)
EXTENDS Integers, Sequences, FiniteSets

CONSTANTS Calls,      \* POST /api/chat requests of one session, each made once
          WindowMax,  \* echomind.memory.short-term-max
          Threshold,  \* echomind.memory.compress-threshold
          MaxRetry,   \* last retry of AgentRouter.executeWithFallback
          MaxFaults   \* bound on failing commands and crashes of a behaviour

ASSUME ChatAssumption ==
    /\ IsFiniteSet(Calls)
    /\ WindowMax \in Nat \ {0}
    /\ Threshold \in Nat \ {0}
    /\ MaxRetry \in Nat
    /\ MaxFaults \in Nat

VARIABLES
    window,    \* the list echomind:stm:{sessionId}
    touched,   \* age of its :touch key: "never", "lately", "long ago"
    pc, role,  \* progress of a call, and whose message it is storing
    seen,      \* seen[c]: the list's size as read by c, until c trims
    tries,     \* tries[c]: failed attempts of c's agent
    squeeze,   \* progress of the compression task that c started
    text,      \* text[c]: messages that task has read, until it ends
    covered,   \* messages some stored summary was made from
    portrait,  \* progress of the profile task that c started
    held,      \* held[c]: interaction_count as that task read it
    row,       \* tb_user_profile.interaction_count of the user
    said,      \* history: messages appended since the list was last empty
    turns,     \* history: profile updates that took effect
    solo,      \* history: no two appends have overlapped since then
    kept,      \* history: no append came while another call was in flight
               \* or a compression had not read the list, nothing failed
    alone,     \* history: no two profile tasks have overlapped
    faults

listVars    == <<window, said>>
callVars    == <<pc, role, seen, tries>>
squeezeVars == <<squeeze, text, covered>>
rowVars     == <<portrait, held, row, turns, alone>>
vars == <<listVars, touched, callVars, squeezeVars, rowVars, solo, kept, faults>>

\* No profile row yet; the seeded rows have a count of 0.
NoRow == -1
TurnsIn(r) == IF r = NoRow THEN 0 ELSE r

Lesser(a, b) == IF a < b THEN a ELSE b

Init ==
    /\ said = 0
    /\ window = << >>
    /\ touched = "never"
    /\ pc = [c \in Calls |-> "append"]
    /\ role = [c \in Calls |-> "user"]
    /\ seen = [c \in Calls |-> 0]
    /\ tries = [c \in Calls |-> 0]
    /\ squeeze = [c \in Calls |-> "none"]
    /\ text = [c \in Calls |-> {}]
    /\ covered = {}
    /\ portrait = [c \in Calls |-> "none"]
    /\ held = [c \in Calls |-> NoRow]
    /\ row \in {NoRow, 0}
    /\ turns = 0
    /\ solo = TRUE
    /\ kept = TRUE
    /\ alone = TRUE
    /\ faults = MaxFaults

Appending == {c \in Calls : pc[c] \in {"size", "trim"}}
Started(c) == pc[c] # "append" \/ role[c] # "user"
InFlight  == {c \in Calls : Started(c) /\ pc[c] # "over"}
Unread    == {c \in Calls : squeeze[c] \in {"count", "idle", "read"}}
Goto(c, l) == pc' = [pc EXCEPT ![c] = l]

-----------------------------------------------------------------------------
(* ShortTermMemory.addMessage.                                             *)

\* RPUSH; the EXPIRE after it is folded in.
AppendMessage(c) ==
    /\ pc[c] = "append"
    /\ said' = said + 1
    /\ window' = Append(window, said')
    /\ solo' = (solo /\ Appending = {})
    /\ kept' = (kept /\ InFlight \subseteq {c} /\ Unread = {})
    /\ Goto(c, "size")
    /\ UNCHANGED <<touched, role, seen, tries, squeezeVars, rowVars, faults>>

\* Faulty variant: the list may exceed the maximum by one before it is trimmed.
ReadSizeLax(c) ==
    /\ pc[c] = "size"
    /\ IF Len(window) > WindowMax + 1
       THEN /\ seen' = [seen EXCEPT ![c] = Len(window)]
            /\ Goto(c, "trim")
       ELSE /\ Goto(c, "touch")
            /\ UNCHANGED seen
    /\ UNCHANGED <<listVars, touched, role, tries, squeezeVars, rowVars, solo, kept, faults>>

\* LLEN.
ReadSize(c) ==
    /\ pc[c] = "size"
    /\ IF Len(window) > WindowMax
       THEN /\ seen' = [seen EXCEPT ![c] = Len(window)]
            /\ Goto(c, "trim")
       ELSE /\ Goto(c, "touch")
            /\ UNCHANGED seen
    /\ UNCHANGED <<listVars, touched, role, tries, squeezeVars, rowVars, solo, kept, faults>>

\* Faulty variant: keeps one message less.
DropOneMore(s, n) == SubSeq(s, n + 2, Len(s))

\* Faulty variant: LTRIM 0, max - 1 keeps the oldest messages.
DropTail(s, n) == SubSeq(s, 1, Len(s) - n)

\* LTRIM n, -1.
Drop(s, n) == SubSeq(s, n + 1, Len(s))

\* Drops as many messages as the size read exceeded the maximum by, however
\* long the list is now.
Trim(c) ==
    /\ pc[c] = "trim"
    /\ window' = Drop(window, seen[c] - WindowMax)
    /\ seen' = [seen EXCEPT ![c] = 0]
    /\ Goto(c, "touch")
    /\ UNCHANGED <<said, touched, role, tries, squeezeVars, rowVars, solo, kept, faults>>

\* MemoryManager.onUserMessage and onAssistantMessage end with the SET of the
\* touch key; the first then starts a compression task, the controller after
\* the second a profile task.
Touch(c) ==
    /\ pc[c] = "touch"
    /\ touched' = "lately"
    /\ IF role[c] = "user"
       THEN /\ Goto(c, "agent")
            /\ squeeze' = [squeeze EXCEPT ![c] = "count"]
            /\ UNCHANGED portrait
       ELSE /\ Goto(c, "over")
            /\ portrait' = [portrait EXCEPT ![c] = "select"]
            /\ UNCHANGED squeeze
    /\ UNCHANGED <<listVars, role, seen, tries, text, covered, held, row, turns, alone,
                   solo, kept, faults>>

-----------------------------------------------------------------------------
(* AgentRouter.executeWithFallback.                                        *)

Reply(c) ==
    /\ role' = [role EXCEPT ![c] = "assistant"]
    /\ Goto(c, "append")

AgentAnswers(c) ==
    /\ pc[c] = "agent"
    /\ Reply(c)
    /\ UNCHANGED <<listVars, touched, seen, tries, squeezeVars, rowVars, solo, kept, faults>>

\* Faulty variant: the retry counter wraps around.
RetryWrapping(c) ==
    /\ pc[c] = "agent"
    /\ tries' = [tries EXCEPT ![c] = (@ + 1) % (MaxRetry + 1)]
    /\ UNCHANGED <<listVars, touched, pc, role, seen, squeezeVars, rowVars, solo, kept, faults>>

\* FallbackStrategy.fallback returns the same agent.
Retry(c) ==
    /\ pc[c] = "agent"
    /\ tries[c] < MaxRetry
    /\ tries' = [tries EXCEPT ![c] = @ + 1]
    /\ UNCHANGED <<listVars, touched, pc, role, seen, squeezeVars, rowVars, solo, kept, faults>>

\* The last retry failed: the fixed apology is the answer.
GiveUp(c) ==
    /\ pc[c] = "agent"
    /\ tries[c] = MaxRetry
    /\ Reply(c)
    /\ UNCHANGED <<listVars, touched, seen, tries, squeezeVars, rowVars, solo, kept, faults>>

\* An exception outside the agent: the reply says that the service is down.
CallFails(c) ==
    /\ c \in InFlight
    /\ faults > 0
    /\ faults' = faults - 1
    /\ Goto(c, "over")
    /\ kept' = FALSE
    /\ UNCHANGED <<listVars, touched, role, seen, tries, squeezeVars, rowVars, solo>>

-----------------------------------------------------------------------------
(* AutoCompressor.compressIfNeeded.                                        *)

Squeezing(c, from, to) ==
    /\ squeeze[c] = from
    /\ squeeze' = [squeeze EXCEPT ![c] = to]

\* Faulty variant: the threshold must be exceeded, as the class comment says.
CountMore(c) ==
    /\ Squeezing(c, "count", IF Len(window) > Threshold THEN "read" ELSE "idle")
    /\ UNCHANGED <<listVars, touched, callVars, text, covered, rowVars, solo, kept, faults>>

\* MidTermMemory.shouldCompress, first the LLEN.
Count(c) ==
    /\ Squeezing(c, "count", IF Len(window) >= Threshold THEN "read" ELSE "idle")
    /\ UNCHANGED <<listVars, touched, callVars, text, covered, rowVars, solo, kept, faults>>

\* Then the touch key.
CheckIdle(c) ==
    /\ Squeezing(c, "idle", IF touched = "long ago" THEN "read" ELSE "over")
    /\ UNCHANGED <<listVars, touched, callVars, text, covered, rowVars, solo, kept, faults>>

\* LRANGE -max, -1.
Recent(s) == Drop(s, Len(s) - Lesser(WindowMax, Len(s)))

ReadRecent(c) ==
    /\ Squeezing(c, "read", IF window = << >> THEN "over" ELSE "ask")
    /\ text' = [text EXCEPT ![c] = {Recent(window)[i] : i \in 1 .. Len(Recent(window))}]
    /\ UNCHANGED <<listVars, touched, callVars, covered, rowVars, solo, kept, faults>>

\* The model has answered and storeSummary has added the document.
StoreSummary(c) ==
    /\ Squeezing(c, "ask", "over")
    /\ covered' = covered \union text[c]
    /\ text' = [text EXCEPT ![c] = {}]
    /\ UNCHANGED <<listVars, touched, callVars, rowVars, solo, kept, faults>>

\* Whatever fails in the task is caught and logged; nothing is tried again.
CompressionFails(c) ==
    /\ squeeze[c] \in {"count", "idle", "read", "ask"}
    /\ faults > 0
    /\ faults' = faults - 1
    /\ squeeze' = [squeeze EXCEPT ![c] = "over"]
    /\ kept' = FALSE
    /\ UNCHANGED <<listVars, touched, callVars, text, covered, rowVars, solo>>

-----------------------------------------------------------------------------
(* LongTermMemory.updateProfile.                                           *)

Updating == {c \in Calls : portrait[c] = "write"}

SelectRow(c) ==
    /\ portrait[c] = "select"
    /\ held' = [held EXCEPT ![c] = row]
    /\ portrait' = [portrait EXCEPT ![c] = "write"]
    /\ alone' = (alone /\ Updating = {})
    /\ UNCHANGED <<listVars, touched, callVars, squeezeVars, row, turns, solo, kept, faults>>

\* INSERT when no row was read: the unique key on user_id lets one through,
\* for the other the exception ends the task.
InsertRow(c) ==
    /\ portrait[c] = "write"
    /\ held[c] = NoRow
    /\ portrait' = [portrait EXCEPT ![c] = "over"]
    /\ IF row = NoRow THEN row' = 1 /\ turns' = turns + 1
                      ELSE UNCHANGED <<row, turns>>
    /\ UNCHANGED <<listVars, touched, callVars, squeezeVars, held, alone, solo, kept, faults>>

\* Faulty variant: both messages of a turn are counted.
CountMessages(c) ==
    /\ portrait[c] = "write"
    /\ held[c] # NoRow
    /\ portrait' = [portrait EXCEPT ![c] = "over"]
    /\ row' = held[c] + 2
    /\ turns' = turns + 1
    /\ UNCHANGED <<listVars, touched, callVars, squeezeVars, held, alone, solo, kept, faults>>

\* updateById with the count read before.
UpdateRow(c) ==
    /\ portrait[c] = "write"
    /\ held[c] # NoRow
    /\ portrait' = [portrait EXCEPT ![c] = "over"]
    /\ row' = held[c] + 1
    /\ turns' = turns + 1
    /\ UNCHANGED <<listVars, touched, callVars, squeezeVars, held, alone, solo, kept, faults>>

\* An exception ends the task.
UpdateFails(c) ==
    /\ portrait[c] \in {"select", "write"}
    /\ faults > 0
    /\ faults' = faults - 1
    /\ portrait' = [portrait EXCEPT ![c] = "over"]
    /\ UNCHANGED <<listVars, touched, callVars, squeezeVars, held, row, turns, alone, solo, kept>>

-----------------------------------------------------------------------------
(* Restarts and time.                                                      *)

\* Calls that wait for a thread are made later; the list and the row stay.
Crash ==
    /\ faults > 0
    /\ faults' = faults - 1
    /\ pc' = [c \in Calls |-> IF c \in InFlight THEN "over" ELSE pc[c]]
    /\ squeeze' = [c \in Calls |-> IF squeeze[c] = "none" THEN "none" ELSE "over"]
    /\ portrait' = [c \in Calls |-> IF portrait[c] = "none" THEN "none" ELSE "over"]
    /\ kept' = FALSE
    /\ UNCHANGED <<listVars, touched, role, seen, tries, text, covered, held, row, turns,
                   alone, solo>>

\* idle-compress-minutes without a call.
GrowOld ==
    /\ touched = "lately"
    /\ InFlight = {}
    /\ touched' = "long ago"
    /\ UNCHANGED <<listVars, callVars, squeezeVars, rowVars, solo, kept, faults>>

\* 24 hours without a call: both keys expire.  No task is that slow.
Expire ==
    /\ touched = "long ago"
    /\ InFlight = {}
    /\ \A c \in Calls : squeeze[c] \in {"none", "over"}
    /\ touched' = "never"
    /\ window' = << >>
    /\ said' = 0
    /\ covered' = {}
    /\ text' = [c \in Calls |-> {}]
    /\ solo' = TRUE
    /\ kept' = TRUE
    /\ UNCHANGED <<callVars, squeeze, rowVars, faults>>

Converse(c) ==
    \/ AppendMessage(c) \/ ReadSize(c) \/ Trim(c) \/ Touch(c)
    \/ AgentAnswers(c) \/ Retry(c) \/ GiveUp(c)

Compress(c) ==
    Count(c) \/ CheckIdle(c) \/ ReadRecent(c) \/ StoreSummary(c)

Profile(c) == SelectRow(c) \/ InsertRow(c) \/ UpdateRow(c)

Stops ==
    \A c \in Calls : pc[c] = "over" /\ squeeze[c] \in {"none", "over"}
                                    /\ portrait[c] \in {"none", "over"}

Next ==
    \/ \E c \in Calls : Converse(c) \/ Compress(c) \/ Profile(c)
    \/ \E c \in Calls : CallFails(c) \/ CompressionFails(c) \/ UpdateFails(c)
    \/ Crash \/ GrowOld \/ Expire

Spec == Init /\ [][Next]_vars

\* A thread that has taken a call runs on.  Whether a further call is made is
\* up to the user, and nothing below needs the tasks to advance.
Fairness == \A c \in Calls : WF_vars(Started(c) /\ Converse(c))

FairSpec == Spec /\ Fairness

-----------------------------------------------------------------------------
(* Properties.                                                             *)

\* Types of the variables: the list holds the last messages appended, in
\* order, so trimming may shorten it and never punches a hole.
ChatTypeOK ==
    /\ said \in Nat
    /\ window \in Seq(Nat)
    /\ Len(window) <= said
    /\ \A i \in 1 .. Len(window) : window[i] = said - Len(window) + i
    /\ touched \in {"never", "lately", "long ago"}
    /\ pc \in [Calls -> {"append", "size", "trim", "touch", "agent", "over"}]
    /\ role \in [Calls -> {"user", "assistant"}]
    /\ seen \in [Calls -> Nat]
    /\ tries \in [Calls -> 0 .. MaxRetry]
    /\ squeeze \in [Calls -> {"none", "count", "idle", "read", "ask", "over"}]
    /\ text \in [Calls -> SUBSET (1 .. said)]
    /\ covered \subseteq 1 .. said
    /\ portrait \in [Calls -> {"none", "select", "write", "over"}]
    /\ held \in [Calls -> Nat \union {NoRow}]
    /\ row \in Nat \union {NoRow}
    /\ turns \in Nat
    /\ faults \in 0 .. MaxFaults
    /\ solo \in BOOLEAN
    /\ kept \in BOOLEAN
    /\ alone \in BOOLEAN

\* ShortTermMemory: "the most recent N messages are kept".  As long as no two
\* appends of the session overlapped the list has lost none of its last
\* WindowMax messages, whatever failed.  With an overlap it can: each call
\* drops the surplus it read, and the same surplus is dropped twice.
KeepsRecent ==
    solo => Len(window) >= Lesser(WindowMax, said)

\* The list is longer than WindowMax only by the appends that are still to
\* trim it and by those that died before they did.
WindowBounded ==
    Len(window) <= WindowMax + Cardinality(Appending) + (MaxFaults - faults) * Cardinality(Calls)

\* AutoCompressor: "the messages not yet compressed are summarised".  When
\* calls take turns, the tasks keep pace and none fails, a message that has
\* left the list is in a summary, or in one that is being made.  Only the
\* first of the session is excepted, and only if threshold = max: the list is
\* then trimmed before it is first compressed.
OnlyFirstForgotten ==
    kept => \A k \in 1 .. said - Len(window) :
                \/ k = 1 /\ Threshold >= WindowMax
                \/ k \in covered
                \/ \E c \in Calls : squeeze[c] = "ask" /\ k \in text[c]

\* LongTermMemory: the user's turns are counted.  The count never exceeds the
\* updates that took effect, and equals them as long as no two tasks
\* overlapped; overlapping ones overwrite each other.
TurnsCounted ==
    /\ TurnsIn(row) <= turns
    /\ alone => TurnsIn(row) = turns

\* AgentRouter: a call that was taken ends, however often the agent fails.
CallsEnd ==
    \A c \in Calls : Started(c) ~> pc[c] = "over"
=============================================================================
