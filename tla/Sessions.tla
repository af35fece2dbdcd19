------------------------------- MODULE Sessions -------------------------------
(***************************************************************************)
(* Requests and their sessions: the middleware of controller.go and the    *)
(* handlers that register, use and revoke a session, over the cache of     *)
(* AuthCache.tla.                                                          *)
(*                                                                         *)
(* A request asks the cache more than once (the middleware, then the       *)
(* handler), and other requests come between the two.  The paths on the    *)
(* whitelist go past the middleware's check; of those it guards, the       *)
(* router picks the handler afterwards.  UserCheck is taken to tell good   *)
(* credentials from bad.                                                   *)
(***************************************************************************)
EXTENDS AuthCache, Integers

CONSTANTS DebugMode,   \* commons.DebugMode, the flag -d
          NilKey       \* uuid.Nil, which fetch_auth returns in debug mode

ASSUME DebugAssumption == DebugMode \in BOOLEAN /\ (DebugMode => NilKey \in Keys)

Aborted == 1           \* net/http recovers a panic and drops the connection
DebugId == -1          \* SessionGetUserUID's answer in debug mode

VARIABLES
    at,                \* at[g]: the next step of the request g serves
    header,            \* header[g]: the key it carries, or NoKey
    issued,            \* sessions whose login has been answered (history)
    ended,             \* the goroutines whose request came after its session ended (history)
    good,              \* ... and after the session's login was answered (history)
    served,            \* the id for which the last step's handler worked, or Nobody
    answer             \* the status with which the last step answered, or 0

requests == <<at, header, issued, ended, good>>
output   == <<served, answer>>
allVars  == <<vars, requests, output>>

NoRequests ==
    [ at     |-> [g \in Procs |-> "free"],
      header |-> [g \in Procs |-> NoKey] ]

SessionsInit ==
    /\ Init
    /\ at = NoRequests.at
    /\ header = NoRequests.header
    /\ issued = {}
    /\ ended = {}
    /\ good = {}
    /\ served = Nobody
    /\ answer = 0

\* A step that answers nobody.
Silent == served' = Nobody /\ answer' = 0

\* g's request goes on at l.
Proceed(g, l) == /\ at' = [at EXCEPT ![g] = l]
                 /\ Silent
                 /\ UNCHANGED <<header, issued, ended, good>>

\* g answers with status s, after working for id if that is not Nobody, and its
\* request is over.
AnswerFor(g, id, s) ==
    /\ served' = id
    /\ answer' = s
    /\ at' = [at EXCEPT ![g] = "free"]
    /\ header' = [header EXCEPT ![g] = NoKey]
    /\ ended' = ended \ {g}
    /\ good' = good \ {g}
    /\ Forget(g)

Answer(g, s) == AnswerFor(g, Nobody, s) /\ UNCHANGED issued

\* g's call of the cache has returned.
Returned(g, l) == at[g] = l /\ At(g, "idle")

-----------------------------------------------------------------------------
\* The middleware.

\* "/v1/user/auth" with POST and DELETE; and the paths whose handlers ask nothing
\* of the cache: the same with GET, the products of a category, pictures, comments.
Whitelisted == {"login", "logout", "public"}
\* noti_post is a login like user_auth_post.  "plain" stands for the handlers that
\* ask for no user: db_health, products_put, user_post, user_patch, and the answer
\* to a method or a path that is not there.
Guarded     == {"login", "fetch", "notifications", "order", "plain"}

\* A preflight request, or in debug mode one that came through a proxy.
TurnedAway(g) ==
    /\ at[g] = "free"
    /\ served' = Nobody
    /\ answer' \in {204} \cup (IF DebugMode THEN {503} ELSE {})
    /\ UNCHANGED <<vars, requests>>

\* A request comes for what l says, with key k or without a usable one.
Receive(g, l, k) ==
    /\ at[g] = "free"
    /\ at' = [at EXCEPT ![g] = l]
    /\ header' = [header EXCEPT ![g] = IF DebugMode THEN NilKey ELSE k]
    /\ ended' = IF l = "middleware" /\ k \in gone \cup expired THEN ended \cup {g} ELSE ended
    /\ good' = IF l = "middleware" /\ k \in issued THEN good \cup {g} ELSE good
    /\ Silent
    /\ UNCHANGED <<vars, issued>>

\* fetch_auth finds no key: 401 if the header is missing, 403 if it is no UUID.
NoAuth(g) ==
    /\ at[g] \in {"middleware", "logout"}
    /\ header[g] = NoKey
    /\ \E s \in {401, 403} : Answer(g, s)

\* AuthVerif asks SessionCheck, and that SessionGetUserUID.
AuthVerif(g) ==
    /\ at[g] = "middleware"
    /\ header[g] # NoKey
    /\ CallSessionGetUserUID(g, header[g])
    /\ Proceed(g, "verified")

\* An id is enough for AuthVerif, whichever it is.
Admit(g) ==
    /\ Returned(g, "verified")
    /\ ret[g] # Nobody
    /\ \E l \in Guarded : Proceed(g, l)
    /\ UNCHANGED vars

\* A fault: ERR_INTERNAL_TRYAGAIN is taken for a pass.
Reject_Passes(g) ==
    /\ Returned(g, "verified")
    /\ ret[g] = Nobody
    /\ \E l \in Guarded : Proceed(g, l)
    /\ UNCHANGED vars

Reject(g) ==
    /\ Returned(g, "verified")
    /\ ret[g] = Nobody
    /\ Answer(g, 403)

-----------------------------------------------------------------------------
\* user_auth_post and noti_post: log in.

\* The body or the credentials are no good, or the database fails.
LoginFails(g) ==
    /\ at[g] = "login"
    /\ \E s \in {400, 401, 500} : Answer(g, s)

\* A fault: the key is sent before the session is stored.
Register_AnswersFirst(g) ==
    /\ at[g] = "login"
    /\ \E k \in Keys \ {NilKey}, u \in Users :
          /\ CallSet(g, k, u)
          /\ header' = [header EXCEPT ![g] = k]
          /\ issued' = issued \cup {k}
    /\ at' = [at EXCEPT ![g] = "registered"]
    /\ Silent
    /\ UNCHANGED <<ended, good>>

\* A fault: the request does not keep the key it has stored.
Register_KeepsHeader(g) ==
    /\ at[g] = "login"
    /\ \E k \in Keys \ {NilKey}, u \in Users : CallSet(g, k, u)
    /\ Proceed(g, "registered")

\* SessionRegister stores a session under a fresh key.
Register(g) ==
    /\ at[g] = "login"
    /\ \E k \in Keys \ {NilKey}, u \in Users :
          /\ CallSet(g, k, u)
          /\ header' = [header EXCEPT ![g] = k]
    /\ at' = [at EXCEPT ![g] = "registered"]
    /\ Silent
    /\ UNCHANGED <<issued, ended, good>>

\* The key is sent to the client.
LoginSucceeds(g) ==
    /\ Returned(g, "registered")
    /\ issued' = issued \cup {header[g]}
    /\ AnswerFor(g, Nobody, 200)

-----------------------------------------------------------------------------
\* user_auth_delete: log out.

SessionRevoke(g) ==
    /\ at[g] = "logout"
    /\ header[g] # NoKey
    /\ CallRemove(g, header[g])
    /\ Proceed(g, "revoked")

LogoutAnswers(g) ==
    /\ Returned(g, "revoked")
    /\ Answer(g, IF g \in removed THEN 204 ELSE 403)

-----------------------------------------------------------------------------
\* user_auth_get answers 204 to whoever asks; the other public handlers look
\* into the database or for a file.
PublicAnswers(g) ==
    /\ at[g] = "public"
    /\ \E s \in {200, 204, 400, 404, 500, 503} : Answer(g, s)

\* The handlers that need a session and do not ask whose.
PlainAnswers(g) ==
    /\ at[g] = "plain"
    /\ \E s \in {200, 400, 403, 404, 500, 503} : Answer(g, s)

\* The body is missing or is no good.  (user_fetch_post and noti_fetch_post look
\* for a body before they ask for the id, and into it afterwards.)
InvalidBody(g) ==
    /\ \/ at[g] \in {"fetch", "notifications", "order"}
       \/ Returned(g, "fetched") /\ ret[g] # Nobody
       \/ Returned(g, "notified") /\ ret[g] # Nobody
    /\ Answer(g, 400)

-----------------------------------------------------------------------------
\* user_fetch_post, a profile, by default the user's own; and noti_fetch_post.

GetUserUUID(g) ==
    /\ at[g] \in {"fetch", "notifications"}
    /\ CallGetUserUUID(g, header[g])
    /\ Proceed(g, IF at[g] = "fetch" THEN "fetched" ELSE "notified")

\* *s.Ac.GetUserUUID(authkey): the id of a session that has gone is a nil
\* pointer, and the handler panics.
FetchPanics(g) ==
    /\ Returned(g, "fetched") \/ Returned(g, "notified")
    /\ ret[g] = Nobody
    /\ Answer(g, Aborted)

FetchAnswers(g) ==
    /\ Returned(g, "fetched")
    /\ ret[g] # Nobody
    /\ \E s \in {200, 500} : AnswerFor(g, ret[g], s)
    /\ UNCHANGED issued

\* Scan is given no pointer to put the notifications into, and always fails.
NotificationsFail(g) ==
    /\ Returned(g, "notified")
    /\ ret[g] # Nobody
    /\ AnswerFor(g, ret[g], 500)
    /\ UNCHANGED issued

-----------------------------------------------------------------------------
\* products_order_put and its like, which ask for the id once more.

OrderAsks(g) ==
    /\ at[g] = "order"
    /\ IF DebugMode
       THEN UNCHANGED vars
       ELSE CallSessionGetUserUID(g, header[g])
    /\ Proceed(g, "ordering")

OrderRefused(g) ==
    /\ Returned(g, "ordering")
    /\ ~DebugMode /\ ret[g] = Nobody
    /\ Answer(g, 401)

\* The order is placed for id, or the database refuses it: it does refuse the
\* ids of no user.
Place(g, id) ==
    /\ id # Nobody
    /\ \E s \in {201, 500} : (s = 201 => id \in Users) /\ AnswerFor(g, id, s)
    /\ UNCHANGED issued

\* A fault: the order is placed for whoever was last served.
OrderAnswers_Shared(g) ==
    /\ Returned(g, "ordering")
    /\ \E h \in Procs : Place(g, ret[h])

OrderAnswers(g) ==
    /\ Returned(g, "ordering")
    /\ Place(g, IF DebugMode THEN DebugId ELSE ret[g])

-----------------------------------------------------------------------------
\* A step inside the cache.
InCache(g) == Step(g) /\ ~UIDReadFaults(g) /\ Silent /\ UNCHANGED requests

\* The process ends and starts again, with the requests it was serving dropped.
Fault(g) ==
    /\ UIDReadFaults(g)
    /\ at' = NoRequests.at
    /\ header' = NoRequests.header
    /\ ended' = {}
    /\ good' = {}
    /\ Silent
    /\ UNCHANGED issued

Ageing == (\E k \in Keys : Expire(k)) /\ Silent /\ UNCHANGED requests

Middleware(g) == NoAuth(g) \/ AuthVerif(g) \/ Admit(g) \/ Reject(g)

Handler(g) == \/ LoginFails(g) \/ Register(g) \/ LoginSucceeds(g)
              \/ SessionRevoke(g) \/ LogoutAnswers(g)
              \/ PublicAnswers(g) \/ PlainAnswers(g) \/ InvalidBody(g)
              \/ GetUserUUID(g) \/ FetchPanics(g) \/ FetchAnswers(g)
              \/ NotificationsFail(g)
              \/ OrderAsks(g) \/ OrderRefused(g) \/ OrderAnswers(g)

\* In debug mode the middleware lets everything through.
Receives(g) ==
    \/ TurnedAway(g)
    \/ \E l \in Whitelisted \cup (IF DebugMode THEN Guarded ELSE {"middleware"}),
         k \in Keys \cup {NoKey} : Receive(g, l, k)

SessionsNext ==
    \/ \E g \in Procs : Receives(g) \/ Middleware(g) \/ Handler(g) \/ InCache(g) \/ Fault(g)
    \/ Ageing

SessionsSpec == SessionsInit /\ [][SessionsNext]_allVars

\* The scheduler starves no goroutine, the lock no writer, and the database
\* answers.  Requests need not come.
Works(g) == Middleware(g) \/ Handler(g) \/ InCache(g) \/ Fault(g)
Locks(g) == (GetLock(g) \/ SetLock(g) \/ RemoveLock(g)) /\ Silent /\ UNCHANGED requests
FairSessionsSpec ==
    SessionsSpec /\ \A g \in Procs : WF_allVars(Works(g)) /\ SF_allVars(Locks(g))

-----------------------------------------------------------------------------
SessionsTypeOK ==
    /\ at \in [Procs -> {"free", "middleware", "verified", "registered", "revoked",
                         "fetched", "notified", "ordering"} \cup Whitelisted \cup Guarded]
    /\ header \in [Procs -> Keys \cup {NoKey}]
    /\ served \in Users \cup {Nobody, ZeroId, DebugId}
    /\ answer \in {0, Aborted, 200, 201, 204, 400, 401, 403, 404, 500, 503}
    /\ issued \subseteq {k \in Keys : owner[k] # Nobody}

\* g's request is answered in this step.
Answers(g) == at[g] # "free" /\ at'[g] = "free" /\ answer' # 0

\* A request that comes after its session was revoked or ran out is refused by
\* the middleware: no handler works for it, not even to fail.
RefusedIfEnded ==
    \A g \in ended : Answers(g) => served' = Nobody /\ answer' \in {401, 403}
EndedIsRefused == [][RefusedIfEnded]_allVars

\* What a handler does for a request it does for the user who logged in with the
\* request's key, or for nobody (0) if the key was revoked on the way.  An answer
\* of success is for that user.
ServedOwner ==
    \A g \in Procs : (Answers(g) /\ served' # Nobody) =>
        /\ served' \in {owner[header[g]], ZeroId}
        /\ answer' = 201 => served' = owner[header[g]]
ServedAsOwner == [][ServedOwner]_allVars

\* A client that has its key and is turned away by the middleware, or by a handler
\* for want of a session, or is cut off by the panic in user_fetch_post and
\* noti_fetch_post, was logged out before that or its session ran out.  (401 may
\* be a login's answer, and 403 a plain handler's, for reasons of their own.)
GoodIsServedUntilEnded ==
    \A g \in good :
        (Answers(g) /\ at[g] \notin {"login", "plain"} /\ answer' \in {401, 403, Aborted})
        => header[g] \in gone \cup expired
GoodIsServed == [][GoodIsServedUntilEnded]_allVars

\* While no session runs out, every request is answered.
RequestsAnswered ==
    [](expired = {}) => \A g \in Procs : at[g] # "free" ~> at[g] = "free"

\* main.go:49: in debug mode no authentication is required; so user_fetch_post does
\* not find itself without an id, which cuts the request off (FetchPanics).
DebugServes == \A g \in Procs : Returned(g, "fetched") => ret[g] # Nobody

=============================================================================
