------------------------------- MODULE Session -------------------------------
(***************************************************************************)
(* Login and the life of a token: browser tabs that run js/common.js, the  *)
(* interceptors RefreshTokenInterceptor and LoginInterceptor on the        *)
(* server's threads, each with its ThreadLocal UserHolder, and the hashes  *)
(* login:token:k in Redis.  UserServiceImpl.login looks the phone up,      *)
(* creates a missing user, stores the hash and gives it a time to live, in *)
(* separate commands.                                                      *)
(***************************************************************************)
EXTENDS Integers, FiniteSets

CONSTANTS Phones, Tabs, Threads,
          Invalid,    \* phones that login refuses
          Tokens,     \* UUIDs; their number bounds the logins of a behaviour
          MaxFaults,  \* bound on its crashes, Redis errors and lost replies
          None        \* no token, no user, no request, no tab

Kinds    == {"login", "open", "api"}
Requests == [tab : Tabs \union {None}, kind : Kinds,
             token : Tokens \union {None}, phone : Phones \union {None}]

ASSUME SessionAssumption ==
    /\ Invalid \subseteq Phones
    /\ MaxFaults \in Nat
    /\ None \notin Phones \union Tabs \union Tokens
    /\ None \notin Requests

VARIABLES
    users,   \* phones with a row in tb_user
    owner,   \* owner[k]: the user a token was made for
    alive,   \* tokens whose hash exists
    timed,   \* those of them that have a time to live
    storage, \* storage[b]: sessionStorage.token
    token,   \* token[b]: the variable of common.js, read when the page loads
    page,    \* page[b]: "app", "leaving" while the redirect timer runs, "login"
    pc, req, \* progress and request of a thread
    made,    \* made[t]: the token of the login under way
    holder,  \* holder[t]: UserHolder
    faults

redisVars == <<owner, alive, timed>>
tabVars   == <<storage, token, page>>
vars == <<users, redisVars, tabVars, pc, req, made, holder, faults>>

Places   == {"idle", "arrived", "identified", "gate", "handler", "unknown",
             "known", "stored", "timed"}
Pages    == {"app", "leaving", "login"}

Init ==
    /\ users = {}
    /\ owner = [k \in Tokens |-> None]
    /\ alive = {}
    /\ timed = {}
    /\ storage = [b \in Tabs |-> None]
    /\ token = [b \in Tabs |-> None]
    /\ page = [b \in Tabs |-> "app"]
    /\ pc = [t \in Threads |-> "idle"]
    /\ req = [t \in Threads |-> None]
    /\ made = [t \in Threads |-> None]
    /\ holder = [t \in Threads |-> None]
    /\ faults = MaxFaults

Fault == faults > 0 /\ faults' = faults - 1

Goto(t, l) == pc' = [pc EXCEPT ![t] = l]

-----------------------------------------------------------------------------
(* The browser.                                                            *)

\* The interceptor of axios adds the token the page was loaded with.
Send(t, b, kind, p) ==
    /\ pc[t] = "idle"
    /\ kind = "login" <=> page[b] = "login"
    /\ kind = "login" <=> p # None
    /\ req' = [req EXCEPT ![t] = [tab |-> b, kind |-> kind, token |-> token[b], phone |-> p]]
    /\ Goto(t, "arrived")
    /\ UNCHANGED <<users, redisVars, tabVars, made, holder, faults>>

\* A page that is left takes its pending requests and timers with it.
Cancel(r, b) ==
    IF r # None /\ r.tab = b THEN [r EXCEPT !.tab = None] ELSE r

\* Loading a page reads the token again.
Load(b, p) ==
    /\ page' = [page EXCEPT ![b] = p]
    /\ token' = [token EXCEPT ![b] = storage[b]]
    /\ req' = [t \in Threads |-> Cancel(req[t], b)]
    /\ UNCHANGED <<users, redisVars, storage, pc, made, holder, faults>>

\* The 200 ms after a 401 are over.
Redirect(b) == page[b] = "leaving" /\ Load(b, "login")

\* A link, a button of the footer or a script opens another page, from any page
\* and while calls are pending or the redirect timer runs.
Visit(b) == \E p \in {"app", "login"} : Load(b, p)

-----------------------------------------------------------------------------
(* The interceptors.                                                       *)

\* HGETALL: the user of the token, if there is one, becomes the thread's.
Identify(t) ==
    /\ pc[t] = "arrived"
    /\ IF req[t].token \in alive
       THEN /\ holder' = [holder EXCEPT ![t] = owner[req[t].token]]
            /\ Goto(t, "identified")
       ELSE Goto(t, "gate") /\ UNCHANGED holder
    /\ UNCHANGED <<users, redisVars, tabVars, req, made, faults>>

\* Faulty variant: the time to live is written to a key of its own, which
\* EXPIRE would not create.
RefreshBlindly(t) ==
    /\ pc[t] = "identified"
    /\ timed' = timed \union {req[t].token}
    /\ Goto(t, "gate")
    /\ UNCHANGED <<users, owner, alive, tabVars, req, made, holder, faults>>

\* EXPIRE, on a hash that may be gone by now.
Refresh(t) ==
    /\ pc[t] = "identified"
    /\ timed' = timed \union ({req[t].token} \intersect alive)
    /\ Goto(t, "gate")
    /\ UNCHANGED <<users, owner, alive, tabVars, req, made, holder, faults>>

\* HGETALL or EXPIRE fails: preHandle throws, and Spring does not call
\* afterCompletion of an interceptor whose preHandle has not returned.
PreHandleThrows(t) ==
    /\ pc[t] \in {"arrived", "identified"}
    /\ Fault
    /\ Goto(t, "idle")
    /\ req' = [req EXCEPT ![t] = None]
    /\ UNCHANGED <<users, redisVars, tabVars, made, holder>>

\* Faulty variant: no interceptor has an afterCompletion.
LeaveNoCleanup(t) ==
    /\ Goto(t, "idle")
    /\ made' = [made EXCEPT ![t] = None]
    /\ UNCHANGED holder

\* afterCompletion, whatever became of the handler.
Leave(t) ==
    /\ Goto(t, "idle")
    /\ made' = [made EXCEPT ![t] = None]
    /\ holder' = [holder EXCEPT ![t] = None]

Drop(t) == req' = [req EXCEPT ![t] = None]

Pass(t) ==
    /\ pc[t] = "gate"
    /\ req[t].kind = "api" => holder[t] # None
    /\ Goto(t, "handler")
    /\ UNCHANGED <<users, redisVars, tabVars, req, made, holder, faults>>

Turned(t) == pc[t] = "gate" /\ req[t].kind = "api" /\ holder[t] = None

\* Faulty variant: the response interceptor does not look for 401.
UnauthorizedIgnored(t) ==
    /\ Turned(t)
    /\ Leave(t)
    /\ Drop(t)
    /\ UNCHANGED <<users, redisVars, tabVars, faults>>

\* 401: the response interceptor starts the timer of the redirect.
Unauthorized(t) ==
    /\ Turned(t)
    /\ Leave(t)
    /\ Drop(t)
    /\ page' = [b \in Tabs |-> IF b = req[t].tab THEN "leaving" ELSE page[b]]
    /\ UNCHANGED <<users, redisVars, storage, token, faults>>

\* A handler other than login has answered, or login has refused the phone;
\* tabs do not depend on it.
Answer(t) ==
    /\ pc[t] = "handler"
    /\ req[t].kind = "login" => req[t].phone \in Invalid
    /\ Leave(t)
    /\ Drop(t)
    /\ UNCHANGED <<users, redisVars, tabVars, faults>>

-----------------------------------------------------------------------------
(* UserServiceImpl.login.                                                  *)

FindUser(t) ==
    /\ pc[t] = "handler"
    /\ req[t].kind = "login"
    /\ req[t].phone \notin Invalid
    /\ Goto(t, IF req[t].phone \in users THEN "known" ELSE "unknown")
    /\ UNCHANGED <<users, redisVars, tabVars, req, made, holder, faults>>

CreateUser(t) ==
    /\ pc[t] = "unknown"
    /\ req[t].phone \notin users
    /\ users' = users \union {req[t].phone}
    /\ Goto(t, "known")
    /\ UNCHANGED <<redisVars, tabVars, req, made, holder, faults>>

\* Another login has created the user since: uniqe_key_phone is violated.
CreateUserThrows(t) ==
    /\ pc[t] = "unknown"
    /\ req[t].phone \in users
    /\ Leave(t)
    /\ Drop(t)
    /\ UNCHANGED <<users, redisVars, tabVars, faults>>

\* A UUID is new; which of the unused ones it is makes no difference.
Unused == {k \in Tokens : owner[k] = None}

StoreToken(t) ==
    /\ pc[t] = "known"
    /\ Unused # {}
    /\ LET k == CHOOSE k \in Unused : TRUE
       IN  /\ owner' = [owner EXCEPT ![k] = req[t].phone]
           /\ alive' = alive \union {k}
           /\ made' = [made EXCEPT ![t] = k]
    /\ Goto(t, "stored")
    /\ UNCHANGED <<users, timed, tabVars, req, holder, faults>>

\* Faulty variant: the key of the code is given the time to live.
TimeWrongKey(t) ==
    /\ pc[t] = "stored"
    /\ Goto(t, "timed")
    /\ UNCHANGED <<users, redisVars, tabVars, req, made, holder, faults>>

TimeToken(t) ==
    /\ pc[t] = "stored"
    /\ timed' = timed \union {made[t]}
    /\ Goto(t, "timed")
    /\ UNCHANGED <<users, owner, alive, tabVars, req, made, holder, faults>>

\* The page puts the token into sessionStorage and loads the index page.
ReplyToken(t) ==
    /\ pc[t] = "timed"
    /\ LET b == req[t].tab
           Got(old, new) == [c \in Tabs |-> IF c = b THEN new ELSE old[c]]
       IN  /\ storage' = Got(storage, made[t])
           /\ token' = Got(token, made[t])
           /\ page' = Got(page, "app")
           /\ req' = [s \in Threads |-> IF s = t THEN None ELSE
                                        IF b = None THEN req[s] ELSE Cancel(req[s], b)]
    /\ Leave(t)
    /\ UNCHANGED <<users, redisVars, faults>>

\* A command of the handler fails, or its answer does not arrive within the
\* timeout of axios.
CallFails(t) ==
    /\ pc[t] \in {"handler", "unknown", "known", "stored", "timed"} \/ Turned(t)
    /\ Fault
    /\ Leave(t)
    /\ Drop(t)
    /\ UNCHANGED <<users, redisVars, tabVars>>

\* The process dies, and its threads with their ThreadLocals.
ServerCrash ==
    /\ \E t \in Threads : pc[t] # "idle"
    /\ Fault
    /\ pc' = [t \in Threads |-> "idle"]
    /\ req' = [t \in Threads |-> None]
    /\ made' = [t \in Threads |-> None]
    /\ holder' = [t \in Threads |-> None]
    /\ UNCHANGED <<users, redisVars, tabVars>>

TokenExpires(k) ==
    /\ k \in timed
    /\ alive' = alive \ {k}
    /\ timed' = timed \ {k}
    /\ UNCHANGED <<users, owner, tabVars, pc, req, made, holder, faults>>

-----------------------------------------------------------------------------
Intercept(t) == Identify(t) \/ Refresh(t) \/ Pass(t) \/ Unauthorized(t)

Login(t) == \/ FindUser(t) \/ CreateUser(t) \/ CreateUserThrows(t)
            \/ StoreToken(t) \/ TimeToken(t) \/ ReplyToken(t)

Serve(t) == Intercept(t) \/ Answer(t) \/ Login(t)

Next ==
    \/ \E t \in Threads :
        \/ \E b \in Tabs, kind \in Kinds, p \in Phones \union {None} : Send(t, b, kind, p)
        \/ Serve(t) \/ PreHandleThrows(t) \/ CallFails(t)
    \/ \E b \in Tabs : Redirect(b) \/ Visit(b)
    \/ \E k \in Tokens : TokenExpires(k)
    \/ ServerCrash

Spec == Init /\ [][Next]_vars

\* The interceptors run and so does the browser's timer; handlers may hang, and
\* users need not act.
Fairness ==
    /\ \A t \in Threads : WF_vars(Intercept(t))
    /\ \A b \in Tabs : WF_vars(Redirect(b))

FairSpec == Spec /\ Fairness

-----------------------------------------------------------------------------
SessionTypeOK ==
    /\ users \subseteq Phones
    /\ owner \in [Tokens -> Phones \union {None}]
    /\ timed \subseteq alive
    /\ alive \subseteq {k \in Tokens : owner[k] # None}
    /\ storage \in [Tabs -> Tokens \union {None}]
    /\ token \in [Tabs -> Tokens \union {None}]
    /\ page \in [Tabs -> Pages]
    /\ pc \in [Threads -> Places]
    /\ req \in [Threads -> Requests \union {None}]
    /\ \A t \in Threads : req[t] = None <=> pc[t] = "idle"
    /\ made \in [Threads -> Tokens \union {None}]
    /\ holder \in [Threads -> Phones \union {None}]
    /\ faults \in Nat

\* A thread acts for the user of the token that its own request carries, and
\* for nobody between requests, though threads are shared and the token may
\* end at any time: as long as no Redis call has failed.
HolderIsCaller ==
    faults = MaxFaults =>
        \A t \in Threads :
            holder[t] # None =>
                /\ pc[t] # "idle"
                /\ req[t].token # None
                /\ owner[req[t].token] = holder[t]

\* A token that a tab holds will end: a login that dies between the two
\* commands leaves a hash without a time to live, and nobody knows its token.
HeldTokensEnd ==
    \A b \in Tabs : storage[b] \in alive => storage[b] \in timed

\* A call to a guarded path with a token that has ended, or without one, starts
\* the redirect of its tab to the login page, whatever else the tab has under
\* way, unless the tab loads another page and the call is cancelled.  The timer
\* of a redirect runs out, unless its page is left before.
DeadCall(t, b) ==
    /\ pc[t] = "arrived"
    /\ req[t].kind = "api"
    /\ req[t].tab = b
    /\ req[t].token \notin alive

Cancelled(t, b) == req[t] # None /\ req[t].tab # b

SentToLogin ==
    [](faults = MaxFaults) =>
        \A b \in Tabs :
            /\ \A t \in Threads :
                   DeadCall(t, b) ~> page[b] \in {"leaving", "login"} \/ Cancelled(t, b)
            /\ page[b] = "leaving" ~> page[b] # "leaving"

\* Tab b is on its way to the login page: its redirect timer runs, or one of its
\* calls will be turned away, by its dead token or by the empty UserHolder.
Doomed(b) ==
    \/ page[b] = "leaving"
    \/ \E t \in Threads :
        /\ req[t] # None
        /\ req[t].kind = "api" /\ req[t].tab = b
        /\ \/ pc[t] = "arrived" /\ req[t].token \notin alive
           \/ pc[t] = "gate" /\ holder[t] = None

\* Only the login page ends this, or the tab's going to another page first: no
\* login of another tab or thread revives the token, no former request lends
\* the call its user, and no answer brings the tab back to the application.
DoomedUntilLogin ==
    [][\A b \in Tabs :
          faults' = MaxFaults /\ Doomed(b) =>
              Doomed(b)' \/ page'[b] = "login" \/ Visit(b)]_vars
=============================================================================
