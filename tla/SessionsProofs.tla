----------------------------- MODULE SessionsProofs -----------------------------
(***************************************************************************)
(* Proofs about the requests of Sessions.tla for any goroutines, keys and  *)
(* users: each step of a request is a step of the cache or leaves it       *)
(* alone, so that the theorems of AuthCacheProofs.tla hold of it; and no   *)
(* request is served for another's session, or after its own has ended.    *)
(***************************************************************************)
EXTENDS Sessions, AuthCacheProofs

-----------------------------------------------------------------------------
\* The inductive invariant.

\* Requests that have asked the cache, or are about to use its answer.
Asking == {"verified", "fetched", "notified", "ordering"}

\* A request past the middleware, or that uses its key, has one.
HasKey == \A g \in Procs :
    at[g] \in Asking \cup {"fetch", "notifications", "order", "registered", "revoked"}
        => header[g] \in Keys

Stored(k) == cache[k] # Nobody \/ k \in gone

\* A login either still stores the key it is to answer with or has stored it ...
Registering == \A g \in Procs : at[g] = "registered" =>
    /\ owner[header[g]] # Nobody
    /\ (op[g] = "Set" /\ key[g] = header[g]) \/ Stored(header[g])

\* ... and so has been every key that was answered.
AllStored == \A k \in issued : Stored(k)

\* What the cache is asked about, or answers for, is the key of the request.
Asks == \A g \in Procs : (at[g] \in Asking /\ ~DebugMode) =>
    /\ op[g] # "Set"
    /\ key[g] = header[g] \/ (At(g, "idle") /\ ret[g] = Nobody)

\* A request that came too late does not get past the middleware.
EndedInv == \A g \in ended :
    /\ at[g] \in {"middleware", "verified"}
    /\ at[g] = "middleware" => header[g] \in gone \cup expired
    /\ at[g] = "verified" => g \in late

\* A request that has its key from a login fails only with the session.
GoodInv == \A g \in good :
    /\ ~DebugMode
    /\ at[g] \notin {"free", "logout", "public", "revoked"}
    /\ at[g] # "registered" => header[g] \in issued
    /\ at[g] \in Asking =>
        /\ At(g, "get.miss") => header[g] \in gone
        /\ pc[g] \in {"get.lock", "get.locked", "rem.lock", "rem.delete"}
               => header[g] \in expired
        /\ (At(g, "idle") /\ ret[g] = Nobody) => header[g] \in gone \cup expired

HistoryOK == ended \subseteq Procs /\ good \subseteq Procs

RequestInv == /\ SessionsTypeOK /\ HistoryOK /\ HasKey /\ Registering /\ AllStored
              /\ Asks /\ EndedInv /\ GoodInv

\* The steps in which g's request is answered.
AnsweringStep(g) ==
    \/ NoAuth(g) \/ Reject(g) \/ LoginFails(g) \/ LoginSucceeds(g) \/ LogoutAnswers(g)
    \/ PublicAnswers(g) \/ PlainAnswers(g) \/ InvalidBody(g) \/ FetchPanics(g)
    \/ FetchAnswers(g) \/ NotificationsFail(g) \/ OrderRefused(g) \/ OrderAnswers(g)

-----------------------------------------------------------------------------
\* The requests' steps are the cache's.

LEMMA RequestsInitially == SessionsInit => RequestInv
BY KeysAssumption
   DEF SessionsInit, NoRequests, RequestInv, SessionsTypeOK, HistoryOK, HasKey,
       Registering, AllStored, Asks, EndedInv, GoodInv, Asking

LEMMA AnsweringForgets == \A g \in Procs : AnsweringStep(g) => Forget(g)
BY DEF AnsweringStep, NoAuth, Reject, LoginFails, LoginSucceeds, LogoutAnswers,
       PublicAnswers, PlainAnswers, InvalidBody, FetchPanics, FetchAnswers,
       NotificationsFail, OrderRefused, OrderAnswers, Place, Answer, AnswerFor

LEMMA RequestStepIsCacheStep == RequestInv /\ [SessionsNext]_allVars => [Next]_vars
<1> SUFFICES ASSUME RequestInv, [SessionsNext]_allVars PROVE [Next]_vars
    OBVIOUS
<1> USE DEF RequestInv, SessionsTypeOK
<1>1. ASSUME NEW g \in Procs, AuthVerif(g) \/ SessionRevoke(g) PROVE Next
    BY <1>1 DEF AuthVerif, SessionRevoke, Next, Calls
<1>2. ASSUME NEW g \in Procs, GetUserUUID(g) PROVE Next
    BY <1>2 DEF GetUserUUID, HasKey, Next, Calls
<1>3. ASSUME NEW g \in Procs, OrderAsks(g) PROVE Next \/ UNCHANGED vars
    BY <1>3 DEF OrderAsks, HasKey, Next, Calls
<1>4. ASSUME NEW g \in Procs, Register(g) PROVE Next
    BY <1>4 DEF Register, Next, Calls
<1>5. ASSUME NEW g \in Procs, Receives(g) \/ Admit(g) PROVE UNCHANGED vars
    BY <1>5 DEF Receives, TurnedAway, Receive, Admit
<1>6. ASSUME NEW g \in Procs, InCache(g) \/ Fault(g) PROVE Next
    BY <1>6 DEF InCache, Fault, Step, Next
<1>7. ASSUME NEW g \in Procs, AnsweringStep(g) PROVE Next
    BY <1>7, AnsweringForgets DEF Next
<1>8. CASE Ageing
    BY <1>8 DEF Ageing, Next
<1>9. CASE UNCHANGED allVars
    BY <1>9 DEF allVars
<1> QED
    BY <1>1, <1>2, <1>3, <1>4, <1>5, <1>6, <1>7, <1>8, <1>9
       DEF SessionsNext, Middleware, Handler, AnsweringStep

-----------------------------------------------------------------------------
\* The invariant, for the steps inside the cache and for the requests' own.

LEMMA CacheStepKeepsRequests ==
    ASSUME CacheInv, CacheInv', RequestInv,
           NEW g \in Procs, Step(g), ~UIDReadFaults(g), Silent, UNCHANGED requests
    PROVE  RequestInv'
<1> USE UsersAssumption, KeysAssumption
    DEF CacheInv, TypeOK, InCall, InOp, Storing, Owned, LateKeys, At, ZeroId,
        RequestInv, SessionsTypeOK, HistoryOK, HasKey, Stored, Registering, AllStored,
        Asks, EndedInv, GoodInv, Asking, Silent, requests, history, local
<1>1. CASE GetRLock(g)
    BY <1>1 DEF GetRLock, RLock, Goto
<1>2. CASE GetRead(g)
    BY <1>2 DEF GetRead, RUnlock
<1>3. CASE GetMisses(g)
    BY <1>3 DEF GetMisses, Goto, Return
<1>4. CASE GetSucceeds(g)
    BY <1>4 DEF GetSucceeds, Goto
<1>5. CASE GetExpires(g)
    BY <1>5 DEF GetExpires, Goto
<1>6. CASE GetLock(g)
    BY <1>6 DEF GetLock, Lock, Goto
<1>7. CASE GetCallsRemove(g)
    BY <1>7 DEF GetCallsRemove, Goto
<1>8. CASE UIDRead(g)
    BY <1>8 DEF UIDRead, Return
<1>9. CASE UUIDRLock(g)
    BY <1>9 DEF UUIDRLock, RLock, Goto
<1>10. CASE UUIDRead(g)
    BY <1>10 DEF UUIDRead, RUnlock, Return
<1>11. CASE SetLock(g)
    BY <1>11 DEF SetLock, Lock, Goto
<1>12. CASE SetWrite(g)
    BY <1>12 DEF SetWrite, Unlock, Done
<1>13. CASE RemoveLock(g)
    BY <1>13 DEF RemoveLock, Lock, Goto
<1>14. CASE RemoveDelete(g)
    BY <1>14 DEF RemoveDelete, Unlock, Done
<1> QED
    BY <1>1, <1>2, <1>3, <1>4, <1>5, <1>6, <1>7, <1>8, <1>9, <1>10, <1>11, <1>12, <1>13, <1>14 DEF Step

LEMMA RequestStep == CacheInv /\ CacheInv' /\ RequestInv /\ [SessionsNext]_allVars => RequestInv'
<1> SUFFICES ASSUME CacheInv, CacheInv', RequestInv, [SessionsNext]_allVars PROVE RequestInv'
    OBVIOUS
<1> USE UsersAssumption, KeysAssumption, DebugAssumption
    DEF CacheInv, TypeOK, InCall, InOp, Storing, Owned, LateKeys, At, ZeroId, DebugId,
        Aborted, RequestInv, SessionsTypeOK, HistoryOK, HasKey, Stored, Registering,
        AllStored, Asks, EndedInv, GoodInv, Asking, Whitelisted, Guarded
<1>1. ASSUME NEW g \in Procs, TurnedAway(g) PROVE RequestInv'
    BY <1>1 DEF TurnedAway, vars, history, local, requests
<1>2. ASSUME NEW g \in Procs, NoAuth(g) PROVE RequestInv'
    BY <1>2 DEF NoAuth, Answer, AnswerFor, Forget, vars, history, local, requests
<1>3. ASSUME NEW g \in Procs, AuthVerif(g) PROVE RequestInv'
    BY <1>3 DEF AuthVerif, CallSessionGetUserUID, Call, Proceed, Silent, vars, history, local, requests
<1>4. ASSUME NEW g \in Procs, Admit(g) PROVE RequestInv'
    BY <1>4 DEF Admit, Proceed, Silent, Returned, Guarded, vars, history, local, requests
<1>5. ASSUME NEW g \in Procs, Reject(g) PROVE RequestInv'
    BY <1>5 DEF Reject, Returned, Answer, AnswerFor, Forget, vars, history, local, requests
<1>6. ASSUME NEW g \in Procs, LoginFails(g) PROVE RequestInv'
    BY <1>6 DEF LoginFails, Answer, AnswerFor, Forget, vars, history, local, requests
<1>7. ASSUME NEW g \in Procs, Register(g) PROVE RequestInv'
    BY <1>7 DEF Register, CallSet, Call, Silent, vars, history, local, requests
<1>8. ASSUME NEW g \in Procs, LoginSucceeds(g) PROVE RequestInv'
    BY <1>8 DEF LoginSucceeds, Returned, AnswerFor, Forget, vars, history, local, requests
<1>9. ASSUME NEW g \in Procs, SessionRevoke(g) PROVE RequestInv'
    BY <1>9 DEF SessionRevoke, CallRemove, Call, Proceed, Silent, vars, history, local, requests
<1>10. ASSUME NEW g \in Procs, LogoutAnswers(g) PROVE RequestInv'
    BY <1>10 DEF LogoutAnswers, Returned, Answer, AnswerFor, Forget, vars, history, local, requests
<1>11. ASSUME NEW g \in Procs, PublicAnswers(g) PROVE RequestInv'
    BY <1>11 DEF PublicAnswers, Answer, AnswerFor, Forget, vars, history, local, requests
<1>12. ASSUME NEW g \in Procs, PlainAnswers(g) PROVE RequestInv'
    BY <1>12 DEF PlainAnswers, Answer, AnswerFor, Forget, vars, history, local, requests
<1>13. ASSUME NEW g \in Procs, InvalidBody(g) PROVE RequestInv'
    BY <1>13 DEF InvalidBody, Answer, AnswerFor, Forget, vars, history, local, requests
<1>14. ASSUME NEW g \in Procs, GetUserUUID(g) PROVE RequestInv'
    BY <1>14 DEF GetUserUUID, CallGetUserUUID, Call, Proceed, Silent, vars, history, local, requests
<1>15. ASSUME NEW g \in Procs, FetchPanics(g) PROVE RequestInv'
    BY <1>15 DEF FetchPanics, Answer, AnswerFor, Forget, vars, history, local, requests
<1>16. ASSUME NEW g \in Procs, FetchAnswers(g) PROVE RequestInv'
    BY <1>16 DEF FetchAnswers, Returned, AnswerFor, Forget, vars, history, local, requests
<1>17. ASSUME NEW g \in Procs, NotificationsFail(g) PROVE RequestInv'
    BY <1>17 DEF NotificationsFail, Returned, AnswerFor, Forget, vars, history, local, requests
<1>18. ASSUME NEW g \in Procs, OrderAsks(g) PROVE RequestInv'
    BY <1>18 DEF OrderAsks, CallSessionGetUserUID, Call, Proceed, Silent, vars, history, local, requests
<1>19. ASSUME NEW g \in Procs, OrderRefused(g) PROVE RequestInv'
    BY <1>19 DEF OrderRefused, Returned, Answer, AnswerFor, Forget, vars, history, local, requests
<1>20. ASSUME NEW g \in Procs, OrderAnswers(g) PROVE RequestInv'
    BY <1>20 DEF OrderAnswers, Returned, Place, AnswerFor, Forget, vars, history, local, requests
<1>21. ASSUME NEW g \in Procs, InCache(g) PROVE RequestInv'
    BY <1>21, CacheStepKeepsRequests DEF InCache
<1>22. ASSUME NEW g \in Procs, Fault(g) PROVE RequestInv'
    BY <1>22 DEF Fault, UIDReadFaults, NoRequests, Silent
<1>23. ASSUME NEW g \in Procs, NEW k \in Keys \cup {NoKey},
             NEW l \in Whitelisted \cup (IF DebugMode THEN Guarded ELSE {"middleware"}),
             Receive(g, l, k)
      PROVE  RequestInv'
    BY <1>23 DEF Receive, Silent, vars, history, local
<1>24. CASE Ageing
    BY <1>24 DEF Ageing, Expire, Silent, requests, history, local
<1>25. CASE UNCHANGED allVars
    BY <1>25 DEF allVars, vars, history, local, requests, output
<1> QED
  <2> HIDE DEF RequestInv
  <2> QED
    BY <1>1, <1>2, <1>3, <1>4, <1>5, <1>6, <1>7, <1>8, <1>9, <1>10, <1>11, <1>12,
       <1>13, <1>14, <1>15, <1>16, <1>17, <1>18, <1>19, <1>20, <1>21, <1>22, <1>23,
       <1>24, <1>25
       DEF SessionsNext, Receives, Middleware, Handler

LEMMA InvariantsAlways == SessionsSpec => [](CacheInv /\ RequestInv)
<1>1. SessionsInit => CacheInv /\ RequestInv
    BY RequestsInitially, CacheInitially DEF SessionsInit
<1>2. CacheInv /\ RequestInv /\ [SessionsNext]_allVars => (CacheInv /\ RequestInv)'
    BY RequestStepIsCacheStep, CacheStep, RequestStep
<1> QED
    BY <1>1, <1>2, PTL DEF SessionsSpec

\* Every variable of the requests keeps its type, and a key that has been answered
\* is somebody's.
THEOREM SessionsTypeAlways == SessionsSpec => []SessionsTypeOK
<1>1. RequestInv => SessionsTypeOK
    BY DEF RequestInv
<1> QED
    BY <1>1, InvariantsAlways, PTL

\* The middleware and the handlers use the cache as its specification allows; what
\* is proved of it, holds here.
THEOREM RequestsUseCache == SessionsSpec => Spec /\ ImplementsSessionLife
<1>1. SessionsInit => Init
    BY DEF SessionsInit
<1>2. SessionsSpec => Spec
    BY <1>1, RequestStepIsCacheStep, InvariantsAlways, PTL DEF SessionsSpec, Spec
<1> QED
    BY <1>2, CacheImplementsSessionLife

\* So no order of requests locks the cache up but one with a check of an expired
\* session in it, and after that one no login and no logout of any request succeeds.
THEOREM OnlyExpiryLocksRequests ==
    SessionsSpec => []OnlyExpiryDeadlocks /\ [][WaitsForItself]_vars
BY RequestsUseCache, OnlyExpiryDeadlocksAlways, WaitsForItselfForGood, PTL

-----------------------------------------------------------------------------
\* The answers.

LEMMA WhoAnswers ==
    ASSUME RequestInv, [SessionsNext]_allVars, NEW g \in Procs, Answers(g)
    PROVE  AnsweringStep(g)
<1> USE DEF Answers, RequestInv, SessionsTypeOK
<1>1. ASSUME NEW h \in Procs, AnsweringStep(h), h # g PROVE FALSE
  <2>1. at' = [at EXCEPT ![h] = "free"]
    BY <1>1 DEF AnsweringStep, NoAuth, Reject, LoginFails, LoginSucceeds, LogoutAnswers,
       PublicAnswers, PlainAnswers, InvalidBody, FetchPanics, FetchAnswers,
       NotificationsFail, OrderRefused, OrderAnswers, Place, Answer, AnswerFor
  <2> QED
    BY <1>1, <2>1
<1>2. ASSUME NEW h \in Procs,
             AuthVerif(h) \/ Admit(h) \/ Register(h) \/ SessionRevoke(h)
             \/ GetUserUUID(h) \/ OrderAsks(h) \/ InCache(h) \/ Fault(h)
      PROVE  FALSE
  <2>1. answer' = 0
    BY <1>2 DEF AuthVerif, Admit, Register, SessionRevoke, GetUserUUID, OrderAsks,
                InCache, Fault, Proceed, Silent
  <2> QED
    BY <2>1
<1>3. ASSUME NEW h \in Procs, Receives(h) PROVE FALSE
  <2>1. at'[g] = at[g] \/ answer' = 0
    BY <1>3 DEF Receives, TurnedAway, Receive, requests, Silent
  <2> QED
    BY <2>1
<1>4. CASE Ageing \/ UNCHANGED allVars
  <2>1. at' = at
    BY <1>4 DEF Ageing, allVars, requests
  <2> QED
    BY <2>1
<1> QED
    BY <1>1, <1>2, <1>3, <1>4 DEF SessionsNext, Middleware, Handler, AnsweringStep

LEMMA EndedStep == CacheInv /\ RequestInv /\ [SessionsNext]_allVars => RefusedIfEnded
<1> SUFFICES ASSUME CacheInv, RequestInv, [SessionsNext]_allVars,
                    NEW g \in ended, Answers(g)
             PROVE  served' = Nobody /\ answer' \in {401, 403}
    BY DEF RefusedIfEnded
<1>1. g \in Procs /\ AnsweringStep(g)
    BY WhoAnswers DEF RequestInv, HistoryOK
<1>2. at[g] \in {"middleware", "verified"} /\ (at[g] = "verified" => ret[g] = Nobody)
    BY DEF CacheInv, LateKeys, RequestInv, EndedInv
<1>3. NoAuth(g) \/ Reject(g)
    BY <1>1, <1>2 DEF AnsweringStep, LoginFails, LoginSucceeds, LogoutAnswers,
       PublicAnswers, PlainAnswers, InvalidBody, FetchPanics, FetchAnswers,
       NotificationsFail, OrderRefused, OrderAnswers, Returned
<1> QED
    BY <1>3 DEF NoAuth, Reject, Answer, AnswerFor

\* A request that comes after its session ended is refused before any handler
\* works for it.
THEOREM EndedIsRefusedAlways == SessionsSpec => EndedIsRefused
BY EndedStep, InvariantsAlways, PTL DEF SessionsSpec, EndedIsRefused

LEMMA ServedStep ==
    ASSUME ~DebugMode, CacheInv, RequestInv, [SessionsNext]_allVars
    PROVE  ServedOwner
<1> SUFFICES ASSUME NEW g \in Procs, Answers(g), served' # Nobody
             PROVE  /\ served' \in {owner[header[g]], ZeroId}
                    /\ answer' = 201 => served' = owner[header[g]]
    BY DEF ServedOwner
<1>1. FetchAnswers(g) \/ NotificationsFail(g) \/ OrderAnswers(g)
    BY WhoAnswers DEF AnsweringStep, NoAuth, Reject, LoginFails, LoginSucceeds,
       LogoutAnswers, PublicAnswers, PlainAnswers, InvalidBody, FetchPanics,
       OrderRefused, Answer, AnswerFor
<1>2. /\ ret[g] # Nobody /\ at[g] \in Asking
      /\ served' = ret[g] /\ (answer' = 201 => ret[g] \in Users)
    BY <1>1 DEF FetchAnswers, NotificationsFail, OrderAnswers, Place, AnswerFor, Returned, Asking
<1>3. key[g] = header[g]
    BY <1>2 DEF RequestInv, Asks
<1>4. ret[g] = owner[header[g]] \/ ret[g] = ZeroId
    BY <1>2, <1>3 DEF CacheInv, AnswerIsOwnerOrNone
<1> QED
    BY <1>2, <1>4, UsersAssumption DEF ZeroId

\* A handler works for its session's owner or for nobody, and what succeeds is his.
THEOREM ServedAsOwnerAlways == ASSUME ~DebugMode PROVE SessionsSpec => ServedAsOwner
BY ServedStep, InvariantsAlways, PTL DEF SessionsSpec, ServedAsOwner

LEMMA GoodStep ==
    CacheInv /\ RequestInv /\ [SessionsNext]_allVars => GoodIsServedUntilEnded
<1> SUFFICES ASSUME CacheInv, RequestInv, [SessionsNext]_allVars,
                    NEW g \in good, Answers(g), at[g] \notin {"login", "plain"},
                    answer' \in {401, 403, Aborted}
             PROVE  header[g] \in gone \cup expired
    BY DEF GoodIsServedUntilEnded
<1> USE DEF RequestInv, Asking, Aborted
<1>1. g \in Procs /\ AnsweringStep(g)
    BY WhoAnswers DEF HistoryOK
<1>2. /\ at[g] \notin {"logout", "revoked", "public"}
      /\ at[g] = "middleware" => header[g] \in Keys
    BY DEF GoodInv, SessionsTypeOK
<1>3. Reject(g) \/ FetchPanics(g) \/ OrderRefused(g)
    BY <1>1, <1>2, KeysAssumption
    DEF AnsweringStep, NoAuth, LoginFails, LoginSucceeds, LogoutAnswers, PublicAnswers,
        PlainAnswers, InvalidBody, FetchAnswers, NotificationsFail, OrderAnswers, Place,
        Answer, AnswerFor, Returned
<1>4. at[g] \in Asking /\ At(g, "idle") /\ ret[g] = Nobody
    BY <1>3 DEF Reject, FetchPanics, OrderRefused, Returned
<1> QED
    BY <1>4 DEF GoodInv

\* Who has been given a key is served until that session is revoked or runs out.
THEOREM GoodIsServedAlways == SessionsSpec => GoodIsServed
BY GoodStep, InvariantsAlways, PTL DEF SessionsSpec, GoodIsServed

=============================================================================
