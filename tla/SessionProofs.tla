---------------------------- MODULE SessionProofs ----------------------------
(***************************************************************************)
(* Theorems about login and tokens, for any sets of phones, tabs, threads  *)
(* and tokens and any number of faults.                                    *)
(*                                                                         *)
(* The argument.  A token is issued once, for one user: whatever a tab, a  *)
(* request or a login holds has an owner that no longer changes (Issued).  *)
(* So a thread that took its user from its request's token keeps being     *)
(* right about it (HolderIsCaller).  Between the two commands of a login   *)
(* its token is known to that login only, so it neither expires nor is     *)
(* refreshed (Fresh); the login that survives gives it its time to live    *)
(* before any tab can hold it, which carries HeldTokensEnd.                *)
(*                                                                         *)
(* A call with a dead token stays doomed: a token that has ended is never  *)
(* alive again while a request holds it (Issued), and while no Redis call  *)
(* has failed a thread takes up a request with no user left over           *)
(* (TakenClean).  Only the answer 401 ends such a call, and it starts the  *)
(* timer that leads to the login page, or a page load, which cancels both; *)
(* the answers that load a page are those of logins, which only a login    *)
(* page waits for (LoginServed, PageWaits).                                *)
(***************************************************************************)
EXTENDS Session, TLAPS

Issued ==
    /\ \A b \in Tabs : /\ storage[b] # None => owner[storage[b]] # None
                       /\ token[b] # None => owner[token[b]] # None
    /\ \A t \in Threads : /\ made[t] # None => owner[made[t]] # None
                          /\ req[t] # None /\ req[t].token # None => owner[req[t].token] # None

\* A login between putAll and expire: nobody else knows its token.
Fresh ==
    \A t \in Threads : pc[t] = "stored" =>
        /\ made[t] \in alive \ timed
        /\ \A b \in Tabs : storage[b] # made[t] /\ token[b] # made[t]
        /\ \A s \in Threads : /\ req[s] # None => req[s].token # made[t]
                              /\ s # t => made[s] # made[t]

\* A login about to answer holds a token that will end.
Timed ==
    \A t \in Threads : pc[t] = "timed" =>
        made[t] \in Tokens /\ (made[t] \in alive => made[t] \in timed)

\* Whoever logs in names a phone.
PhoneGiven ==
    \A t \in Threads :
        /\ req[t] # None => (req[t].kind = "login" => req[t].phone # None)
        /\ pc[t] \in {"unknown", "known"} => req[t].kind = "login"

FaultsLeft == faults <= MaxFaults

IInv ==
    /\ SessionTypeOK /\ Issued /\ Fresh /\ Timed /\ PhoneGiven /\ FaultsLeft
    /\ HolderIsCaller /\ HeldTokensEnd

-----------------------------------------------------------------------------
(* What the browser does to a request it gives up.                         *)
LEMMA CancelKeeps ==
    ASSUME NEW r \in Requests \union {None}, NEW b \in Tabs
    PROVE  /\ Cancel(r, b) \in Requests \union {None}
           /\ Cancel(r, b) = None <=> r = None
           /\ r # None => /\ Cancel(r, b).token = r.token
                          /\ Cancel(r, b).kind = r.kind
                          /\ Cancel(r, b).phone = r.phone
  BY SessionAssumption DEF Cancel, Requests

SameCaller(r, q) == q.token = r.token /\ q.kind = r.kind /\ q.phone = r.phone

LEMMA RequestsAfterReply ==
    ASSUME SessionTypeOK, NEW t \in Threads, ReplyToken(t), NEW s \in Threads
    PROVE  /\ req'[s] \in Requests \union {None}
           /\ req'[s] = None <=> s = t \/ req[s] = None
           /\ req'[s] # None => SameCaller(req[s], req'[s])
  <1>1. req[s] \in Requests \union {None} /\ req[t] \in Requests
    BY DEF ReplyToken, SessionTypeOK
  <1>2. req[t].tab \in Tabs \union {None}
    BY <1>1 DEF Requests
  <1>3. req'[s] = IF s = t THEN None ELSE
                  IF req[t].tab = None THEN req[s] ELSE Cancel(req[s], req[t].tab)
    BY DEF ReplyToken
  <1>4. CASE s = t
    BY <1>3, <1>4
  <1>5. CASE s # t /\ req[t].tab = None
    BY <1>1, <1>3, <1>5 DEF SameCaller
  <1>6. CASE s # t /\ req[t].tab \in Tabs
    <2>1. req'[s] = Cancel(req[s], req[t].tab)
      BY <1>3, <1>6, SessionAssumption
    <2> QED
      BY <1>1, <1>6, <2>1, CancelKeeps DEF SameCaller
  <1> QED
    BY <1>2, <1>4, <1>5, <1>6

LEMMA InitInv == Init => IInv
  BY SessionAssumption
     DEF Init, IInv, SessionTypeOK, Issued, Fresh, Timed, PhoneGiven, FaultsLeft, HolderIsCaller,
         HeldTokensEnd, Places, Pages

(* A login takes one of the unused tokens.                                 *)
LEMMA StoreTakes ==
    ASSUME NEW t \in Threads, StoreToken(t)
    PROVE  \E k \in Tokens : /\ owner[k] = None
                             /\ owner' = [owner EXCEPT ![k] = req[t].phone]
                             /\ alive' = alive \union {k}
                             /\ made' = [made EXCEPT ![t] = k]
  <1> DEFINE k == CHOOSE k \in Unused : TRUE
  <1>1. k \in Unused
    BY DEF StoreToken
  <1>2. k \in Tokens /\ owner[k] = None
    BY <1>1 DEF Unused
  <1> QED
    BY <1>2 DEF StoreToken

-----------------------------------------------------------------------------
(* Types.                                                                  *)
LEMMA TypeStep == IInv /\ [Next]_vars => SessionTypeOK'
  <1> SUFFICES ASSUME IInv, [Next]_vars PROVE SessionTypeOK'
    OBVIOUS
  <1> USE DEF IInv, SessionTypeOK, Places, Goto, Fault, redisVars, tabVars
  <1>1. ASSUME NEW t \in Threads, NEW b \in Tabs, NEW kind \in Kinds,
               NEW p \in Phones \union {None}, Send(t, b, kind, p)
        PROVE  SessionTypeOK'
    <2> DEFINE r == [tab |-> b, kind |-> kind, token |-> token[b], phone |-> p]
    <2>1. r \in Requests /\ r # None
      BY SessionAssumption DEF Requests
    <2> QED
      BY <1>1, <2>1 DEF Send
  <1>2. ASSUME NEW b \in Tabs, NEW p \in Pages, Load(b, p)
        PROVE  SessionTypeOK'
    BY <1>2, CancelKeeps DEF Load
  <1>3. ASSUME NEW t \in Threads, Identify(t)
        PROVE  SessionTypeOK'
    BY <1>3 DEF Identify
  <1>4. ASSUME NEW t \in Threads, Refresh(t) \/ Pass(t) \/ FindUser(t)
        PROVE  SessionTypeOK'
    BY <1>4 DEF Refresh, Pass, FindUser
  <1>5. ASSUME NEW t \in Threads, PreHandleThrows(t)
        PROVE  SessionTypeOK'
    BY <1>5 DEF PreHandleThrows
  <1>6. ASSUME NEW t \in Threads, Unauthorized(t)
        PROVE  SessionTypeOK'
    BY <1>6 DEF Unauthorized, Turned, Leave, Drop, Pages
  <1>7. ASSUME NEW t \in Threads, Answer(t) \/ CreateUserThrows(t)
        PROVE  SessionTypeOK'
    BY <1>7 DEF Answer, CreateUserThrows, Leave, Drop
  <1>8. ASSUME NEW t \in Threads, CreateUser(t)
        PROVE  SessionTypeOK'
    <2>1. req[t] \in Requests /\ req[t] # None
      BY <1>8 DEF CreateUser
    <2>2. req[t].phone \in Phones
      BY <1>8, <2>1 DEF CreateUser, PhoneGiven, Requests
    <2> QED
      BY <1>8, <2>2 DEF CreateUser
  <1>9. ASSUME NEW t \in Threads, StoreToken(t)
        PROVE  SessionTypeOK'
    <2>1. req[t] \in Requests /\ req[t] # None
      BY <1>9 DEF StoreToken
    <2>2. req[t].phone \in Phones
      BY <1>9, <2>1 DEF StoreToken, PhoneGiven, Requests
    <2>3. req[t].phone # None
      BY <2>2, SessionAssumption
    <2>4. PICK k \in Tokens : /\ owner[k] = None
                              /\ owner' = [owner EXCEPT ![k] = req[t].phone]
                              /\ alive' = alive \union {k}
                              /\ made' = [made EXCEPT ![t] = k]
      BY <1>9, StoreTakes
    <2>5. alive' \subseteq {x \in Tokens : owner'[x] # None}
      BY <2>3, <2>4
    <2> QED
      BY <1>9, <2>2, <2>4, <2>5 DEF StoreToken
  <1>10. ASSUME NEW t \in Threads, TimeToken(t)
         PROVE  SessionTypeOK'
    BY <1>10 DEF TimeToken, Fresh
  <1>11. ASSUME NEW t \in Threads, ReplyToken(t)
         PROVE  SessionTypeOK'
    <2>1. made[t] \in Tokens
      BY <1>11 DEF ReplyToken, Timed
    <2>2. storage' \in [Tabs -> Tokens \union {None}] /\ token' \in [Tabs -> Tokens \union {None}]
      BY <1>11, <2>1 DEF ReplyToken
    <2>5. req' = [s \in Threads |-> req'[s]]
      BY <1>11 DEF ReplyToken
    <2>6. \A s \in Threads : /\ req'[s] \in Requests \union {None}
                             /\ req'[s] = None <=> s = t \/ req[s] = None
      BY <1>11, RequestsAfterReply
    <2>7. pc' = [pc EXCEPT ![t] = "idle"]
      BY <1>11 DEF ReplyToken, Leave
    <2>8. \A s \in Threads : req'[s] = None <=> pc'[s] = "idle"
      BY <2>6, <2>7
    <2>9. req' \in [Threads -> Requests \union {None}]
      BY <2>5, <2>6
    <2> QED
      BY <1>11, <2>2, <2>7, <2>8, <2>9 DEF ReplyToken, Leave, Pages
  <1>12. ASSUME NEW t \in Threads, CallFails(t)
         PROVE  SessionTypeOK'
    BY <1>12 DEF CallFails, Turned, Leave, Drop
  <1>13. CASE ServerCrash
    BY <1>13 DEF ServerCrash
  <1>14. ASSUME NEW k \in Tokens, TokenExpires(k)
         PROVE  SessionTypeOK'
    BY <1>14 DEF TokenExpires
  <1>15. CASE UNCHANGED vars
    BY <1>15 DEF vars
  <1> QED
    BY <1>1, <1>2, <1>3, <1>4, <1>5, <1>6, <1>7, <1>8, <1>9, <1>10, <1>11, <1>12, <1>13,
       <1>14, <1>15
       DEF Next, Serve, Intercept, Login, Redirect, Visit, Pages

-----------------------------------------------------------------------------
(* Where the parts of a next state come from.                              *)

(* A request is kept, up to the tab that waits for it, or newly sent with  *)
(* the token of its page.                                                  *)
LEMMA RequestOrigin ==
    ASSUME SessionTypeOK, [Next]_vars, NEW s \in Threads, req'[s] # None
    PROVE  \/ req[s] # None /\ SameCaller(req[s], req'[s])
           \/ /\ pc[s] = "idle"
              /\ pc'[s] = "arrived"
              /\ \E b \in Tabs : req'[s].token = token[b]
              /\ req'[s].kind = "login" => req'[s].phone # None
  <1> USE DEF Goto, Fault, Drop
  <1>1. CASE req'[s] = req[s]
    BY <1>1 DEF SameCaller
  <1>2. ASSUME NEW t \in Threads, NEW b \in Tabs, NEW kind \in Kinds,
               NEW p \in Phones \union {None}, Send(t, b, kind, p), t = s
        PROVE  /\ pc[s] = "idle"
               /\ pc'[s] = "arrived"
               /\ req'[s].token = token[b]
               /\ req'[s].kind = "login" => req'[s].phone # None
    BY <1>2 DEF Send, SessionTypeOK
  <1>3. ASSUME NEW t \in Threads, NEW b \in Tabs, NEW kind \in Kinds,
               NEW p \in Phones \union {None}, Send(t, b, kind, p), t # s
        PROVE  req'[s] = req[s]
    BY <1>3 DEF Send, SessionTypeOK
  <1>4. ASSUME NEW b \in Tabs, NEW p \in Pages, Load(b, p)
        PROVE  req[s] # None /\ SameCaller(req[s], req'[s])
    <2>1. req'[s] = Cancel(req[s], b) /\ req[s] \in Requests \union {None}
      BY <1>4 DEF Load, SessionTypeOK
    <2> QED
      BY <2>1, CancelKeeps DEF SameCaller
  <1>5. ASSUME NEW t \in Threads, ReplyToken(t)
        PROVE  req[s] # None /\ SameCaller(req[s], req'[s])
    BY <1>5, RequestsAfterReply
  <1>6. ASSUME NEW t \in Threads,
               \/ PreHandleThrows(t) \/ CallFails(t) \/ Unauthorized(t)
               \/ Answer(t) \/ CreateUserThrows(t)
        PROVE  req'[s] = req[s]
    BY <1>6 DEF PreHandleThrows, CallFails, Unauthorized, Answer, CreateUserThrows, SessionTypeOK
  <1>7. CASE ServerCrash
    BY <1>7 DEF ServerCrash
  <1>8. CASE \/ \E t \in Threads : \/ Identify(t) \/ Refresh(t) \/ Pass(t) \/ FindUser(t)
                                   \/ CreateUser(t) \/ StoreToken(t) \/ TimeToken(t)
             \/ \E k \in Tokens : TokenExpires(k)
             \/ UNCHANGED vars
    <2>1. req' = req
      BY <1>8 DEF Identify, Refresh, Pass, FindUser, CreateUser, StoreToken, TimeToken,
                  TokenExpires, vars
    <2> QED
      BY <1>1, <2>1
  <1> QED
    BY <1>1, <1>2, <1>3, <1>4, <1>5, <1>6, <1>7, <1>8
       DEF Next, Serve, Intercept, Login, Redirect, Visit, Pages

(* A tab holds what it held, or what a login has just answered.            *)
LEMMA TabOrigin ==
    ASSUME SessionTypeOK, [Next]_vars, NEW b \in Tabs
    PROVE  /\ \/ storage'[b] = storage[b]
              \/ \E t \in Threads : pc[t] = "timed" /\ storage'[b] = made[t]
           /\ \/ token'[b] \in {token[b], storage[b]}
              \/ \E t \in Threads : pc[t] = "timed" /\ token'[b] = made[t]
  <1>1. ASSUME NEW t \in Threads, ReplyToken(t)
        PROVE  /\ storage'[b] \in {storage[b], made[t]}
               /\ token'[b] \in {token[b], made[t]}
               /\ pc[t] = "timed"
    BY <1>1 DEF ReplyToken
  <1>2. ASSUME NEW c \in Tabs, NEW p \in Pages, Load(c, p)
        PROVE  storage'[b] = storage[b] /\ token'[b] \in {token[b], storage[b]}
    BY <1>2 DEF Load, SessionTypeOK
  <1>3. CASE UNCHANGED <<storage, token>>
    BY <1>3
  <1> QED
    BY <1>1, <1>2, <1>3
       DEF Next, Serve, Intercept, Login, Redirect, Visit, Pages, vars, tabVars, Send,
           Identify, Refresh, PreHandleThrows, Pass, Unauthorized, Answer, FindUser, CreateUser,
           CreateUserThrows, StoreToken, TimeToken, CallFails, ServerCrash, TokenExpires

(* A login makes one token, of a key that had no owner.                    *)
LEMMA StoreEffect ==
    ASSUME SessionTypeOK, PhoneGiven, NEW t \in Threads, StoreToken(t)
    PROVE  /\ owner[made'[t]] = None /\ made'[t] \in Tokens
           /\ owner'[made'[t]] # None
           /\ \A k \in Tokens : k # made'[t] => owner'[k] = owner[k]
           /\ alive' = alive \union {made'[t]} /\ timed' = timed
           /\ \A s \in Threads : s # t => made'[s] = made[s]
           /\ storage' = storage /\ token' = token /\ req' = req
  <1>1. PICK k \in Tokens : /\ owner[k] = None
                            /\ owner' = [owner EXCEPT ![k] = req[t].phone]
                            /\ alive' = alive \union {k}
                            /\ made' = [made EXCEPT ![t] = k]
    BY StoreTakes
  <1>2. made'[t] = k
    BY <1>1 DEF SessionTypeOK
  <1>3. req[t] # None /\ pc[t] = "known"
    BY DEF StoreToken, SessionTypeOK
  <1>4. req[t].phone # None
    BY <1>3 DEF PhoneGiven
  <1> QED
    BY <1>1, <1>2, <1>4 DEF StoreToken, SessionTypeOK, tabVars

LEMMA OwnerFrame ==
    ASSUME [Next]_vars, ~ \E t \in Threads : StoreToken(t)
    PROVE  owner' = owner /\ alive' \subseteq alive
  BY DEF Next, Serve, Intercept, Login, Redirect, Visit, Load, vars, redisVars, Send,
         Identify, Refresh, PreHandleThrows, Pass, Unauthorized, Answer, FindUser, CreateUser,
         CreateUserThrows, TimeToken, ReplyToken, CallFails, ServerCrash, TokenExpires

LEMMA MadeOrigin ==
    ASSUME SessionTypeOK, [Next]_vars, ~ \E t \in Threads : StoreToken(t), NEW s \in Threads
    PROVE  made'[s] \in {made[s], None}
  BY DEF Next, Serve, Intercept, Login, Redirect, Visit, Load, vars, Send, Leave,
         Identify, Refresh, PreHandleThrows, Pass, Unauthorized, Answer, FindUser, CreateUser,
         CreateUserThrows, TimeToken, ReplyToken, CallFails, ServerCrash, TokenExpires,
         SessionTypeOK

(* How a thread comes to the places of a login.                            *)
LEMMA PlaceOrigin ==
    ASSUME SessionTypeOK, [Next]_vars, NEW t \in Threads
    PROVE  /\ pc'[t] = "stored" =>
                StoreToken(t) \/ (pc[t] = "stored" /\ made'[t] = made[t])
           /\ pc'[t] = "timed" =>
                /\ made'[t] = made[t]
                /\ TimeToken(t) \/ pc[t] = "timed"
           /\ pc'[t] \in {"unknown", "known"} =>
                /\ pc[t] \in {"handler", "unknown", "known"}
                /\ pc[t] = "handler" => req[t].kind = "login"
  BY DEF Next, Serve, Intercept, Login, Redirect, Visit, Load, vars, Send, Leave, Goto,
         Identify, Refresh, PreHandleThrows, Pass, Unauthorized, Answer, FindUser, CreateUser,
         CreateUserThrows, StoreToken, TimeToken, ReplyToken, CallFails, ServerCrash,
         TokenExpires, SessionTypeOK

(* A hash gets its time to live from its login or from a request.          *)
LEMMA TimedOrigin ==
    ASSUME SessionTypeOK, [Next]_vars, NEW k \in timed', k \notin timed
    PROVE  \E s \in Threads : \/ req[s] # None /\ req[s].token = k
                              \/ pc[s] = "stored" /\ pc'[s] = "timed" /\ made[s] = k
  BY DEF Next, Serve, Intercept, Login, Redirect, Visit, Load, vars, redisVars, Send, Goto,
         Identify, Refresh, PreHandleThrows, Pass, Unauthorized, Answer, FindUser, CreateUser,
         CreateUserThrows, StoreToken, TimeToken, ReplyToken, CallFails, ServerCrash,
         TokenExpires, SessionTypeOK

(* A hash goes, or loses its time to live, only by expiring.               *)
LEMMA OnlyExpiryEnds ==
    ASSUME SessionTypeOK, [Next]_vars, NEW k \in alive
    PROVE  /\ k \notin timed => k \in alive'
           /\ k \in timed /\ k \in alive' => k \in timed'
  BY DEF Next, Serve, Intercept, Login, Redirect, Visit, Load, vars, redisVars, Send,
         Identify, Refresh, PreHandleThrows, Pass, Unauthorized, Answer, FindUser, CreateUser,
         CreateUserThrows, StoreToken, TimeToken, ReplyToken, CallFails, ServerCrash,
         TokenExpires

-----------------------------------------------------------------------------
(* Each part of the invariant is kept.                                     *)
LEMMA IssuedStep == IInv /\ [Next]_vars => Issued'
  <1> SUFFICES ASSUME IInv, [Next]_vars PROVE Issued'
    OBVIOUS
  <1> USE DEF IInv
  <1>1. ASSUME NEW k \in Tokens, owner[k] # None
        PROVE  owner'[k] # None
    BY <1>1, StoreEffect, OwnerFrame
  <1>2. None \notin Tokens /\ \A t \in Threads : made[t] \in Tokens \union {None}
    BY SessionAssumption DEF SessionTypeOK
  <1>3. ASSUME NEW b \in Tabs
        PROVE  /\ storage'[b] # None => owner'[storage'[b]] # None
               /\ token'[b] # None => owner'[token'[b]] # None
    <2>1. storage[b] \in Tokens \union {None} /\ token[b] \in Tokens \union {None}
      BY DEF SessionTypeOK
    <2> QED
      BY <1>1, <1>2, <2>1, TabOrigin DEF Issued
  <1>4. ASSUME NEW t \in Threads, made'[t] # None
        PROVE  owner'[made'[t]] # None
    <2>1. CASE StoreToken(t)
      BY <2>1, StoreEffect
    <2>2. CASE made'[t] = made[t]
      BY <2>2, <1>1, <1>2, <1>4 DEF Issued
    <2> QED
      BY <1>4, <2>1, <2>2, MadeOrigin, StoreEffect
  <1>5. ASSUME NEW t \in Threads, req'[t] # None, req'[t].token # None
        PROVE  owner'[req'[t].token] # None
    <2>1. CASE req[t] # None /\ SameCaller(req[t], req'[t])
      <3>1. req[t] \in Requests
        BY <2>1 DEF SessionTypeOK
      <3>2. req[t].token = req'[t].token /\ req[t].token \in Tokens \union {None}
        BY <2>1, <3>1 DEF SameCaller, Requests
      <3> QED
        BY <2>1, <3>2, <1>1, <1>5 DEF Issued
    <2>2. CASE \E b \in Tabs : req'[t].token = token[b]
      BY <2>2, <1>1, <1>5 DEF Issued, SessionTypeOK
    <2> QED
      BY <1>5, <2>1, <2>2, RequestOrigin
  <1> QED
    BY <1>3, <1>4, <1>5 DEF Issued

LEMMA FreshStep == IInv /\ [Next]_vars => Fresh'
  <1> SUFFICES ASSUME IInv, [Next]_vars, NEW t \in Threads, pc'[t] = "stored"
               PROVE  /\ made'[t] \in alive' \ timed'
                      /\ \A b \in Tabs : storage'[b] # made'[t] /\ token'[b] # made'[t]
                      /\ \A s \in Threads : /\ req'[s] # None => req'[s].token # made'[t]
                                            /\ s # t => made'[s] # made'[t]
    BY DEF Fresh
  <1> USE DEF IInv
  <1>1. CASE StoreToken(t)
    <2>1. /\ owner[made'[t]] = None /\ made'[t] \in Tokens /\ made'[t] # None
          /\ alive' = alive \union {made'[t]} /\ timed' = timed
          /\ \A s \in Threads : s # t => made'[s] = made[s]
          /\ storage' = storage /\ token' = token /\ req' = req
      BY <1>1, StoreEffect, SessionAssumption
    <2>2. made'[t] \notin timed
      BY <2>1 DEF SessionTypeOK
    <2> QED
      BY <2>1, <2>2 DEF Issued
  <1>2. CASE pc[t] = "stored" /\ made'[t] = made[t] /\ ~ StoreToken(t)
    <2> DEFINE k == made[t]
    <2>1. /\ k \in alive \ timed /\ k \in Tokens /\ k # None /\ owner[k] # None
          /\ \A b \in Tabs : storage[b] # k /\ token[b] # k
          /\ \A s \in Threads : /\ req[s] # None => req[s].token # k
                                /\ s # t => made[s] # k
      BY <1>2, SessionAssumption DEF Fresh, SessionTypeOK
    <2>2. k \in alive'
      BY <2>1, OnlyExpiryEnds
    <2>3. k \notin timed'
      <3>1. ASSUME NEW s \in Threads, pc[s] = "stored", pc'[s] = "timed", made[s] = k
            PROVE  FALSE
        BY <3>1, <2>1, pc'[t] = "stored"
      <3> QED
        BY <2>1, <3>1, TimedOrigin
    <2>4. \A b \in Tabs : storage'[b] # k /\ token'[b] # k
      BY <1>2, <2>1, TabOrigin
    <2>5. \A s \in Threads : req'[s] # None => req'[s].token # k
      BY <2>1, RequestOrigin DEF SameCaller
    <2>6. ASSUME NEW s \in Threads, s # t
          PROVE  made'[s] # k
      BY <2>1, <2>6, MadeOrigin, StoreEffect
    <2> QED
      BY <1>2, <2>2, <2>3, <2>4, <2>5, <2>6
  <1> QED
    BY <1>1, <1>2, PlaceOrigin

\* What was given its time to live keeps it while it is alive.
LEMMA KeptTime ==
    ASSUME IInv, [Next]_vars, NEW k \in Tokens, owner[k] # None,
           k \in alive => k \in timed, k \in alive'
    PROVE  k \in timed'
  <1>1. CASE k \in alive
    BY <1>1, OnlyExpiryEnds DEF IInv
  <1>2. CASE k \notin alive
    BY <1>2, OwnerFrame, StoreEffect DEF IInv
  <1> QED
    BY <1>1, <1>2

LEMMA TimedStep == IInv /\ [Next]_vars => Timed'
  <1> SUFFICES ASSUME IInv, [Next]_vars, NEW t \in Threads, pc'[t] = "timed"
               PROVE  made'[t] \in Tokens /\ (made'[t] \in alive' => made'[t] \in timed')
    BY DEF Timed
  <1>1. made'[t] = made[t] /\ (TimeToken(t) \/ pc[t] = "timed")
    BY PlaceOrigin DEF IInv
  <1>2. CASE TimeToken(t)
    <2>1. made[t] \in alive
      BY <1>2 DEF TimeToken, Fresh, IInv
    <2>2. made[t] \in timed'
      BY <1>2 DEF TimeToken
    <2> QED
      BY <1>1, <2>1, <2>2 DEF IInv, SessionTypeOK
  <1>3. CASE pc[t] = "timed"
    <2>1. made[t] \in Tokens /\ owner[made[t]] # None
      BY <1>3, SessionAssumption DEF Timed, Issued, IInv
    <2> QED
      BY <1>1, <1>3, <2>1, KeptTime DEF Timed, IInv
  <1> QED
    BY <1>1, <1>2, <1>3

LEMMA HeldStep == IInv /\ [Next]_vars => HeldTokensEnd'
  <1> SUFFICES ASSUME IInv, [Next]_vars, NEW b \in Tabs, storage'[b] \in alive'
               PROVE  storage'[b] \in timed'
    BY DEF HeldTokensEnd
  <1> USE DEF IInv
  <1>1. CASE storage'[b] = storage[b]
    <2>1. storage[b] \in Tokens
      BY <1>1, TypeStep DEF SessionTypeOK
    <2>2. owner[storage[b]] # None
      BY <2>1, SessionAssumption DEF Issued
    <2> QED
      BY <1>1, <2>1, <2>2, KeptTime DEF HeldTokensEnd
  <1>2. ASSUME NEW t \in Threads, pc[t] = "timed", storage'[b] = made[t]
        PROVE  storage'[b] \in timed'
    <2>1. made[t] \in Tokens /\ owner[made[t]] # None
      BY <1>2, SessionAssumption DEF Timed, Issued
    <2> QED
      BY <1>2, <2>1, KeptTime DEF Timed
  <1> QED
    BY <1>1, <1>2, TabOrigin

LEMMA PhoneStep == IInv /\ [Next]_vars => PhoneGiven'
  <1> SUFFICES ASSUME IInv, [Next]_vars, NEW t \in Threads
               PROVE  /\ req'[t] # None => (req'[t].kind = "login" => req'[t].phone # None)
                      /\ pc'[t] \in {"unknown", "known"} => req'[t].kind = "login"
    BY DEF PhoneGiven
  <1> USE DEF IInv
  <1>1. req'[t] # None => (req'[t].kind = "login" => req'[t].phone # None)
    BY RequestOrigin DEF SameCaller, PhoneGiven
  <1>2. ASSUME pc'[t] \in {"unknown", "known"}
        PROVE  req'[t].kind = "login"
    <2>1. req'[t] # None
      BY <1>2, TypeStep DEF SessionTypeOK
    <2>2. pc[t] \in {"handler", "unknown", "known"} /\ (pc[t] = "handler" => req[t].kind = "login")
      BY <1>2, PlaceOrigin
    <2> QED
      BY <2>1, <2>2, RequestOrigin DEF SameCaller, PhoneGiven
  <1> QED
    BY <1>1, <1>2

LEMMA FaultsStep == IInv /\ [Next]_vars => FaultsLeft'
  <1> SUFFICES ASSUME IInv, [Next]_vars PROVE FaultsLeft'
    OBVIOUS
  <1>1. faults' = faults \/ faults' = faults - 1
    BY DEF Next, Serve, Intercept, Login, Redirect, Visit, Load, vars, Send, Fault,
           Identify, Refresh, PreHandleThrows, Pass, Unauthorized, Answer, FindUser, CreateUser,
           CreateUserThrows, StoreToken, TimeToken, ReplyToken, CallFails, ServerCrash,
           TokenExpires
  <1> QED
    BY <1>1, SessionAssumption DEF IInv, FaultsLeft, SessionTypeOK

(* As long as nothing fails, a thread keeps its user until it is idle, and *)
(* gets one only from the token of its request.                            *)
LEMMA HolderOrigin ==
    ASSUME IInv, [Next]_vars, faults' = MaxFaults, NEW t \in Threads, holder'[t] # None
    PROVE  /\ faults = MaxFaults
           /\ \/ /\ Identify(t)
                 /\ req[t].token \in alive
                 /\ holder'[t] = owner[req[t].token]
                 /\ pc'[t] # "idle"
              \/ holder'[t] = holder[t] /\ (pc[t] # "idle" => pc'[t] # "idle")
  <1>1. faults = MaxFaults /\ faults' = faults
    <2>1. faults' = faults \/ faults' = faults - 1
      BY DEF Next, Serve, Intercept, Login, Redirect, Visit, Load, vars, Send, Fault,
             Identify, Refresh, PreHandleThrows, Pass, Unauthorized, Answer, FindUser,
             CreateUser, CreateUserThrows, StoreToken, TimeToken, ReplyToken, CallFails,
             ServerCrash, TokenExpires
    <2> QED
      BY <2>1, SessionAssumption DEF IInv, FaultsLeft, SessionTypeOK
  <1>2. faults' # faults - 1
    BY <1>1, SessionAssumption
  <1> QED
    BY <1>1, <1>2
       DEF Next, Serve, Intercept, Login, Redirect, Visit, Load, vars, Send, Fault, Goto,
           Leave, Identify, Refresh, PreHandleThrows, Pass, Unauthorized, Answer, FindUser,
           CreateUser, CreateUserThrows, StoreToken, TimeToken, ReplyToken, CallFails,
           ServerCrash, TokenExpires, IInv, SessionTypeOK

LEMMA HolderStep == IInv /\ [Next]_vars => HolderIsCaller'
  <1> SUFFICES ASSUME IInv, [Next]_vars, faults' = MaxFaults, NEW t \in Threads,
                      holder'[t] # None
               PROVE  /\ pc'[t] # "idle"
                      /\ req'[t].token # None
                      /\ owner'[req'[t].token] = holder'[t]
    BY DEF HolderIsCaller
  <1> USE DEF IInv
  <1> DEFINE k == req[t].token
  <1>1. /\ pc[t] # "idle" /\ pc'[t] # "idle"
        /\ k # None /\ owner[k] = holder'[t]
    BY HolderOrigin, SessionAssumption DEF HolderIsCaller, Identify, SessionTypeOK
  <1>2. req[t] \in Requests /\ req'[t] # None
    BY <1>1, TypeStep DEF SessionTypeOK
  <1>3. k \in Tokens
    BY <1>1, <1>2 DEF Requests
  <1>4. req'[t].token = k
    BY <1>1, <1>2, RequestOrigin DEF SameCaller
  <1>5. owner'[k] = owner[k]
    BY <1>1, <1>3, OwnerFrame, StoreEffect
  <1> QED
    BY <1>1, <1>4, <1>5

-----------------------------------------------------------------------------
(* The invariant is inductive, for any number of tabs, threads and users.  *)
THEOREM InductiveInvariant == Spec => []IInv
  <1>1. IInv /\ [Next]_vars => IInv'
    BY TypeStep, IssuedStep, FreshStep, TimedStep, PhoneStep, FaultsStep, HolderStep,
       HeldStep DEF IInv
  <1> QED
    BY InitInv, <1>1, PTL DEF Spec

(* Every variable of browser, threads and Redis keeps its type; no key     *)
(* without a hash has a time to live.                                      *)
THEOREM TypeCorrectness == Spec => []SessionTypeOK
  <1>1. IInv => SessionTypeOK
    BY DEF IInv
  <1> QED
    BY InductiveInvariant, <1>1, PTL

(* While no Redis call has failed, UserHolder holds on every thread the    *)
(* user of the token that the thread's own request carries, or nobody.     *)
THEOREM ThreadsActForTheirCaller == Spec => []HolderIsCaller
  <1>1. IInv => HolderIsCaller
    BY DEF IInv
  <1> QED
    BY InductiveInvariant, <1>1, PTL

(* A token in a tab's sessionStorage whose hash exists has a time to live, *)
(* wherever a login or the server has died.                                *)
THEOREM TabsHoldMortalTokens == Spec => []HeldTokensEnd
  <1>1. IInv => HeldTokensEnd
    BY DEF IInv
  <1> QED
    BY InductiveInvariant, <1>1, PTL
-----------------------------------------------------------------------------
(* A doomed tab stays doomed.                                              *)

\* While nothing has failed, a thread that takes a request holds nobody.
TakenClean ==
    faults = MaxFaults => \A t \in Threads : pc[t] = "arrived" => holder[t] = None

\* Whoever makes a token serves a login; and a login is what the login page
\* waits for, and no other page.
LoginServed ==
    \A t \in Threads : pc[t] \in {"unknown", "known", "stored", "timed"} => req[t].kind = "login"

PageWaits ==
    \A t \in Threads : req[t] # None /\ req[t].tab # None =>
        (req[t].kind = "login" <=> page[req[t].tab] = "login")

\* What sends a tab to the login page, unless it waits there already.
TurnsAway(t, b) ==
    /\ req[t] # None
    /\ req[t].kind = "api" /\ req[t].tab = b
    /\ \/ pc[t] = "arrived" /\ req[t].token \notin alive
       \/ pc[t] = "gate" /\ holder[t] = None

DoomInv == IInv /\ TakenClean /\ LoginServed /\ PageWaits

LEMMA InitDoom == Init => DoomInv
  BY InitInv DEF Init, DoomInv, TakenClean, LoginServed, PageWaits

LEMMA FaultsFall ==
    ASSUME IInv, [Next]_vars, faults' = MaxFaults
    PROVE  faults = MaxFaults /\ faults' # faults - 1
  <1>1. faults' = faults \/ faults' = faults - 1
    BY DEF Next, Serve, Intercept, Login, Redirect, Visit, Load, vars, Send, Fault,
           Identify, Refresh, PreHandleThrows, Pass, Unauthorized, Answer, FindUser, CreateUser,
           CreateUserThrows, StoreToken, TimeToken, ReplyToken, CallFails, ServerCrash,
           TokenExpires
  <1> QED
    BY <1>1, SessionAssumption DEF IInv, FaultsLeft, SessionTypeOK

LEMMA TakenOrigin ==
    ASSUME SessionTypeOK, [Next]_vars, NEW t \in Threads, pc'[t] = "arrived"
    PROVE  pc[t] \in {"idle", "arrived"}
  BY DEF Next, Serve, Intercept, Login, Redirect, Visit, Load, vars, Send, Leave, Goto,
         Identify, Refresh, PreHandleThrows, Pass, Unauthorized, Answer, FindUser, CreateUser,
         CreateUserThrows, StoreToken, TimeToken, ReplyToken, CallFails, ServerCrash,
         TokenExpires, SessionTypeOK

LEMMA TakenCleanStep == DoomInv /\ [Next]_vars => TakenClean'
  <1> SUFFICES ASSUME DoomInv, [Next]_vars, faults' = MaxFaults, NEW t \in Threads,
                      pc'[t] = "arrived", holder'[t] # None
               PROVE  FALSE
    BY DEF TakenClean
  <1>0. IInv /\ SessionTypeOK /\ TakenClean /\ HolderIsCaller /\ faults = MaxFaults
    BY FaultsFall DEF DoomInv, IInv
  <1>1. pc[t] \in {"idle", "arrived"}
    BY <1>0, TakenOrigin
  <1>2. CASE Identify(t) /\ req[t].token \in alive
    BY <1>0, <1>2 DEF Identify, Goto, SessionTypeOK
  <1>3. CASE holder'[t] = holder[t]
    BY <1>0, <1>1, <1>3 DEF TakenClean, HolderIsCaller
  <1> QED
    BY <1>0, <1>2, <1>3, HolderOrigin

LEMMA LoginServedStep == DoomInv /\ [Next]_vars => LoginServed'
  <1> SUFFICES ASSUME DoomInv, [Next]_vars, NEW t \in Threads,
                      pc'[t] \in {"unknown", "known", "stored", "timed"}
               PROVE  req'[t].kind = "login"
    BY DEF LoginServed
  <1>0. IInv /\ SessionTypeOK /\ LoginServed
    BY DEF DoomInv, IInv
  <1>1. req[t].kind = "login" /\ pc[t] # "idle"
    <2>1. CASE pc'[t] \in {"unknown", "known"}
      BY <1>0, <2>1, PlaceOrigin DEF LoginServed
    <2>2. CASE pc'[t] = "stored"
      BY <1>0, <2>2, PlaceOrigin DEF LoginServed, StoreToken
    <2>3. CASE pc'[t] = "timed"
      BY <1>0, <2>3, PlaceOrigin DEF LoginServed, TimeToken
    <2> QED
      BY <2>1, <2>2, <2>3
  <1>2. req'[t] # None
    BY <1>0, TypeStep DEF SessionTypeOK
  <1> QED
    BY <1>0, <1>1, <1>2, RequestOrigin DEF SameCaller

LEMMA PageWaitsStep == DoomInv /\ [Next]_vars => PageWaits'
  <1> SUFFICES ASSUME DoomInv, [Next]_vars, NEW s \in Threads,
                      req'[s] # None, req'[s].tab # None
               PROVE  req'[s].kind = "login" <=> page'[req'[s].tab] = "login"
    BY DEF PageWaits
  <1>0. SessionTypeOK /\ LoginServed /\ PageWaits
    BY DEF DoomInv, IInv
  <1>a. req[s] \in Requests => req[s].tab \in Tabs \union {None}
    BY DEF Requests
  <1>1. ASSUME req'[s] = req[s], page'[req[s].tab] = page[req[s].tab]
        PROVE  req'[s].kind = "login" <=> page'[req'[s].tab] = "login"
    BY <1>0, <1>1 DEF PageWaits
  <1>2. ASSUME NEW t \in Threads, NEW b \in Tabs, NEW kind \in Kinds,
               NEW p \in Phones \union {None}, Send(t, b, kind, p)
        PROVE  req'[s].kind = "login" <=> page'[req'[s].tab] = "login"
    <2>1. page' = page
      BY <1>2 DEF Send, tabVars
    <2>2. CASE t = s
      <3>1. req'[s] = [tab |-> b, kind |-> kind, token |-> token[b], phone |-> p]
        BY <1>0, <1>2, <2>2 DEF Send, SessionTypeOK
      <3> QED
        BY <1>2, <2>1, <3>1 DEF Send
    <2>3. CASE t # s
      <3>1. req'[s] = req[s]
        BY <1>0, <1>2, <2>3 DEF Send, SessionTypeOK
      <3> QED
        BY <1>1, <2>1, <3>1
    <2> QED
      BY <2>2, <2>3
  <1>3. ASSUME NEW b \in Tabs, NEW p \in Pages, Load(b, p)
        PROVE  req'[s].kind = "login" <=> page'[req'[s].tab] = "login"
    <2>1. req'[s] = Cancel(req[s], b)
      BY <1>3 DEF Load
    <2>2. req[s] # None /\ req[s].tab # b
      <3>1. CASE req[s] = None
        BY <2>1, <3>1 DEF Cancel
      <3>2. CASE req[s] # None /\ req[s].tab = b
        <4>1. req[s] \in Requests
          BY <1>0, <3>2 DEF SessionTypeOK
        <4>2. req'[s].tab = None
          BY <2>1, <3>2, <4>1 DEF Cancel, Requests
        <4> QED
          BY <4>2
      <3> QED
        BY <3>1, <3>2
    <2>3. req'[s] = req[s] /\ page'[req[s].tab] = page[req[s].tab]
      <3>1. req'[s] = req[s]
        BY <2>1, <2>2 DEF Cancel
      <3>2. req[s] \in Requests /\ req[s].tab \in Tabs
        BY <1>0, <1>a, <2>2, <3>1 DEF SessionTypeOK
      <3> QED
        BY <1>0, <1>3, <2>2, <3>1, <3>2 DEF Load, SessionTypeOK
    <2> QED
      BY <1>1, <2>3
  <1>4. ASSUME NEW t \in Threads, ReplyToken(t)
        PROVE  req'[s].kind = "login" <=> page'[req'[s].tab] = "login"
    <2> DEFINE b == req[t].tab
    <2>1. s # t /\ req'[s] = IF b = None THEN req[s] ELSE Cancel(req[s], b)
      BY <1>4 DEF ReplyToken
    <2>2. req[t] \in Requests /\ b \in Tabs \union {None}
      <3>1. req[t] \in Requests
        BY <1>0, <1>4 DEF ReplyToken, SessionTypeOK
      <3> QED
        BY <3>1 DEF Requests
    <2>3. req[s] # None /\ req[s] \in Requests
      BY <1>0, <1>4, RequestsAfterReply DEF SessionTypeOK
    <2>4. req[s].tab # b
      <3>1. CASE b = None
        BY <2>1, <3>1
      <3>2. CASE b # None /\ req[s].tab = b
        <4>1. req'[s].tab = None
          BY <2>1, <2>3, <3>2 DEF Cancel, Requests
        <4> QED
          BY <4>1
      <3> QED
        BY <3>1, <3>2
    <2>5. req'[s] = req[s]
      BY <2>1, <2>4 DEF Cancel
    <2>6. req[s].tab \in Tabs
      BY <1>a, <2>3, <2>5
    <2>7. page'[req[s].tab] = page[req[s].tab]
      BY <1>4, <2>4, <2>6 DEF ReplyToken
    <2> QED
      BY <1>1, <2>5, <2>7
  <1>5. ASSUME NEW t \in Threads, Unauthorized(t)
        PROVE  req'[s].kind = "login" <=> page'[req'[s].tab] = "login"
    <2>1. s # t /\ req'[s] = req[s]
      BY <1>0, <1>5 DEF Unauthorized, Drop, SessionTypeOK
    <2>2. req[s].tab \in Tabs
      BY <1>0, <1>a, <2>1 DEF SessionTypeOK
    <2>3. CASE req[s].tab # req[t].tab
      BY <1>1, <1>5, <2>1, <2>2, <2>3 DEF Unauthorized
    <2>4. CASE req[s].tab = req[t].tab
      <3>1. req[t] # None /\ req[t].kind = "api" /\ page'[req[s].tab] = "leaving"
        BY <1>0, <1>5, <2>2, <2>4 DEF Unauthorized, Turned, SessionTypeOK
      <3>2. page[req[s].tab] # "login"
        BY <1>0, <2>1, <2>4, <3>1 DEF PageWaits
      <3> QED
        BY <1>0, <2>1, <3>1, <3>2 DEF PageWaits
    <2> QED
      BY <2>3, <2>4
  <1>6. ASSUME NEW t \in Threads,
               PreHandleThrows(t) \/ CallFails(t) \/ Answer(t) \/ CreateUserThrows(t)
        PROVE  req'[s].kind = "login" <=> page'[req'[s].tab] = "login"
    <2>1. req'[s] = req[s] /\ page' = page
      BY <1>0, <1>6 DEF PreHandleThrows, CallFails, Answer, CreateUserThrows, Drop, tabVars,
                        SessionTypeOK
    <2> QED
      BY <1>1, <2>1
  <1>7. CASE ServerCrash
    BY <1>7 DEF ServerCrash
  <1>8. CASE \/ \E t \in Threads : \/ Identify(t) \/ Refresh(t) \/ Pass(t) \/ FindUser(t)
                                   \/ CreateUser(t) \/ StoreToken(t) \/ TimeToken(t)
             \/ \E k \in Tokens : TokenExpires(k)
             \/ UNCHANGED vars
    <2>1. req' = req /\ page' = page
      BY <1>8 DEF Identify, Refresh, Pass, FindUser, CreateUser, StoreToken, TimeToken,
                  TokenExpires, vars, tabVars
    <2> QED
      BY <1>1, <2>1
  <1> QED
    BY <1>2, <1>3, <1>4, <1>5, <1>6, <1>7, <1>8
       DEF Next, Serve, Intercept, Login, Redirect, Visit, Pages

(* A reply with a token goes to the login page that waits for it.          *)
LEMMA ReplyToLogin ==
    ASSUME DoomInv, NEW t \in Threads, ReplyToken(t), NEW b \in Tabs, req[t].tab = b
    PROVE  page[b] = "login"
  <1>1. req[t] # None /\ req[t].kind = "login"
    BY DEF DoomInv, IInv, ReplyToken, LoginServed, SessionTypeOK
  <1>2. req[t].tab # None
    BY SessionAssumption
  <1> QED
    BY <1>1, <1>2 DEF DoomInv, PageWaits

LEMMA DoomFromCall ==
    ASSUME NEW b \in Tabs, NEW t \in Threads, TurnsAway(t, b)'
    PROVE  Doomed(b)'
  BY DEF TurnsAway, Doomed

(* The timer of the redirect is cancelled only by another page of its tab. *)
LEMMA LeavingStays ==
    ASSUME DoomInv, [Next]_vars, NEW b \in Tabs, page[b] = "leaving"
    PROVE  page'[b] \in {"leaving", "login"} \/ Visit(b)
  <1>0. SessionTypeOK
    BY DEF DoomInv, IInv
  <1>1. ASSUME NEW t \in Threads, ReplyToken(t) PROVE page'[b] = "leaving"
    BY <1>1, ReplyToLogin DEF ReplyToken
  <1>2. ASSUME NEW t \in Threads, Unauthorized(t) PROVE page'[b] = "leaving"
    BY <1>2 DEF Unauthorized
  <1>3. ASSUME NEW c \in Tabs, Redirect(c) \/ Visit(c)
        PROVE  page'[b] \in {"leaving", "login"} \/ Visit(b)
    <2>1. CASE c = b
      BY <1>0, <1>3, <2>1 DEF Redirect, Load, SessionTypeOK
    <2>2. CASE c # b
      BY <1>0, <1>3, <2>2 DEF Redirect, Visit, Load, SessionTypeOK
    <2> QED
      BY <2>1, <2>2
  <1>4. CASE page' = page
    BY <1>4
  <1> QED
    BY <1>1, <1>2, <1>3, <1>4
       DEF Next, Serve, Intercept, Login, vars, tabVars, Send, Identify, Refresh,
           PreHandleThrows, Pass, Answer, FindUser, CreateUser, CreateUserThrows, StoreToken,
           TimeToken, CallFails, ServerCrash, TokenExpires

(* A call that will be turned away stays one until it is: its dead token is *)
(* not issued again, and its thread gets no user.                          *)
LEMMA TurnsAwayStep ==
    ASSUME DoomInv, [Next]_vars, faults' = MaxFaults, NEW b \in Tabs, NEW t \in Threads,
           TurnsAway(t, b)
    PROVE  TurnsAway(t, b)' \/ page'[b] \in {"leaving", "login"} \/ Visit(b)
  <1>0. /\ IInv /\ SessionTypeOK /\ Issued /\ TakenClean /\ PageWaits /\ PhoneGiven
        /\ faults = MaxFaults /\ faults' # faults - 1
    BY FaultsFall DEF DoomInv, IInv
  <1>a. /\ req[t] # None /\ req[t] \in Requests /\ req[t].kind = "api" /\ req[t].tab = b
        /\ pc[t] \in {"arrived", "gate"}
    BY <1>0 DEF TurnsAway, SessionTypeOK
  <1>b. page[b] # "login"
    BY <1>0, <1>a, SessionAssumption DEF PageWaits
  <1>k. ASSUME req'[t] = req[t], pc'[t] = pc[t], holder'[t] = holder[t],
               req[t].token \notin alive => req[t].token \notin alive'
        PROVE  TurnsAway(t, b)'
    BY <1>k DEF TurnsAway
  <1>1. ASSUME NEW s \in Threads, NEW c \in Tabs, NEW kind \in Kinds,
               NEW p \in Phones \union {None}, Send(s, c, kind, p)
        PROVE  TurnsAway(t, b)'
    <2>1. s # t
      BY <1>1, <1>a DEF Send
    <2> QED
      BY <1>0, <1>1, <1>k, <2>1 DEF Send, Goto, SessionTypeOK, redisVars
  <1>2. ASSUME NEW c \in Tabs, Redirect(c) \/ Visit(c)
        PROVE  TurnsAway(t, b)' \/ page'[b] = "login" \/ Visit(b)
    <2>1. CASE c = b
      BY <1>0, <1>2, <1>b, <2>1 DEF Redirect, Load, SessionTypeOK
    <2>2. CASE c # b
      <3>1. req'[t] = req[t]
        BY <1>2, <1>a, <2>2 DEF Redirect, Visit, Load, Cancel
      <3>2. UNCHANGED <<pc, holder, alive>>
        BY <1>2 DEF Redirect, Visit, Load, redisVars
      <3> QED
        BY <1>k, <3>1, <3>2
    <2> QED
      BY <2>1, <2>2
  <1>3. ASSUME NEW s \in Threads, Identify(s) PROVE TurnsAway(t, b)'
    <2>1. UNCHANGED <<alive, req>>
      BY <1>3 DEF Identify, redisVars
    <2>2. CASE s # t
      <3>1. pc'[t] = pc[t] /\ holder'[t] = holder[t]
        BY <1>0, <1>3, <2>2 DEF Identify, Goto, SessionTypeOK
      <3> QED
        BY <1>k, <2>1, <3>1
    <2>3. CASE s = t
      <3>1. pc[t] = "arrived" /\ req[t].token \notin alive /\ holder[t] = None
        BY <1>0, <1>3, <2>3 DEF Identify, TurnsAway, TakenClean
      <3>2. pc'[t] = "gate" /\ holder'[t] = None
        BY <1>0, <1>3, <2>3, <3>1 DEF Identify, Goto, SessionTypeOK
      <3> QED
        BY <1>a, <2>1, <3>2 DEF TurnsAway
    <2> QED
      BY <2>2, <2>3
  <1>4. ASSUME NEW s \in Threads, Pass(s) \/ Refresh(s) \/ FindUser(s) \/ CreateUser(s)
                                  \/ TimeToken(s)
        PROVE  TurnsAway(t, b)'
    <2>1. s # t
      BY <1>4, <1>a DEF Pass, Refresh, FindUser, CreateUser, TimeToken, TurnsAway
    <2>2. pc'[t] = pc[t] /\ UNCHANGED <<req, holder, alive>>
      BY <1>0, <1>4, <2>1 DEF Pass, Refresh, FindUser, CreateUser, TimeToken, Goto,
                              SessionTypeOK, redisVars
    <2> QED
      BY <1>k, <2>2
  <1>5. ASSUME NEW s \in Threads, StoreToken(s) PROVE TurnsAway(t, b)'
    <2>1. s # t /\ pc'[t] = pc[t] /\ UNCHANGED <<req, holder>>
      BY <1>0, <1>5, <1>a DEF StoreToken, Goto, SessionTypeOK
    <2>2. owner[made'[s]] = None /\ made'[s] \in Tokens /\ alive' = alive \union {made'[s]}
      BY <1>0, <1>5, StoreEffect
    <2>3. req[t].token # made'[s]
      BY <1>0, <1>a, <2>2, SessionAssumption DEF Issued
    <2> QED
      BY <1>k, <2>1, <2>2, <2>3
  <1>6. ASSUME NEW s \in Threads, Unauthorized(s)
        PROVE  TurnsAway(t, b)' \/ page'[b] = "leaving"
    <2>1. CASE s = t
      BY <1>6, <1>a, <2>1 DEF Unauthorized
    <2>2. CASE s # t
      <3>1. pc'[t] = pc[t] /\ req'[t] = req[t] /\ holder'[t] = holder[t] /\ UNCHANGED alive
        BY <1>0, <1>6, <2>2 DEF Unauthorized, Leave, Drop, Goto, SessionTypeOK, redisVars
      <3> QED
        BY <1>k, <3>1
    <2> QED
      BY <2>1, <2>2
  <1>7. ASSUME NEW s \in Threads, Answer(s) \/ CreateUserThrows(s) PROVE TurnsAway(t, b)'
    <2>1. s # t
      BY <1>7, <1>a DEF Answer, CreateUserThrows
    <2>2. pc'[t] = pc[t] /\ req'[t] = req[t] /\ holder'[t] = holder[t] /\ UNCHANGED alive
      BY <1>0, <1>7, <2>1 DEF Answer, CreateUserThrows, Leave, Drop, Goto, SessionTypeOK,
                              redisVars
    <2> QED
      BY <1>k, <2>2
  <1>8. ASSUME NEW s \in Threads, ReplyToken(s) PROVE TurnsAway(t, b)'
    <2>1. s # t /\ req[s].tab # b
      BY <1>8, <1>a, <1>b, ReplyToLogin DEF ReplyToken
    <2>2. req'[t] = req[t]
      BY <1>8, <1>a, <2>1 DEF ReplyToken, Cancel
    <2>3. pc'[t] = pc[t] /\ holder'[t] = holder[t] /\ UNCHANGED alive
      BY <1>0, <1>8, <2>1 DEF ReplyToken, Leave, Goto, SessionTypeOK, redisVars
    <2> QED
      BY <1>k, <2>2, <2>3
  <1>9. ASSUME NEW k \in Tokens, TokenExpires(k) PROVE TurnsAway(t, b)'
    BY <1>9, <1>k DEF TokenExpires
  <1>10. CASE UNCHANGED vars
    BY <1>10, <1>k DEF vars, redisVars
  <1> QED
    BY <1>0, <1>1, <1>2, <1>3, <1>4, <1>5, <1>6, <1>7, <1>8, <1>9, <1>10
       DEF Next, Serve, Intercept, Login, PreHandleThrows, CallFails, ServerCrash, Fault

(* While nothing fails, a tab with a call that carries a dead token or none *)
(* stays on its way to the login page until it gets there or its user (or  *)
(* a script of the page) loads another one, whatever the other calls of the *)
(* tab, the other tabs and the former requests of its threads are about.   *)
THEOREM DeadCallsAreTurnedAway == Spec => DoomedUntilLogin
  <1>1. DoomInv /\ [Next]_vars => DoomInv'
    <2>1. IInv /\ [Next]_vars => IInv'
      BY TypeStep, IssuedStep, FreshStep, TimedStep, PhoneStep, FaultsStep, HolderStep,
         HeldStep DEF IInv
    <2> QED
      BY <2>1, TakenCleanStep, LoginServedStep, PageWaitsStep DEF DoomInv
  <1>2. DoomInv /\ [Next]_vars =>
            [\A b \in Tabs :
                faults' = MaxFaults /\ Doomed(b) =>
                    Doomed(b)' \/ page'[b] = "login" \/ Visit(b)]_vars
    <2> SUFFICES ASSUME DoomInv, [Next]_vars, NEW b \in Tabs, faults' = MaxFaults, Doomed(b)
                 PROVE  Doomed(b)' \/ page'[b] = "login" \/ Visit(b)
      OBVIOUS
    <2>1. page[b] = "leaving" \/ \E t \in Threads : TurnsAway(t, b)
      BY DEF Doomed, TurnsAway
    <2>2. page'[b] = "leaving" => Doomed(b)'
      BY DEF Doomed
    <2> QED
      BY <2>1, <2>2, LeavingStays, TurnsAwayStep, DoomFromCall
  <1> QED
    BY InitDoom, <1>1, <1>2, PTL DEF Spec, DoomedUntilLogin
=============================================================================
