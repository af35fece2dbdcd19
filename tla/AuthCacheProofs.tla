---------------------------- MODULE AuthCacheProofs ----------------------------
(***************************************************************************)
(* Proofs that the session cache of AuthCache.tla keeps its invariants and *)
(* implements SessionLife.tla for any goroutines, keys and users.  The     *)
(* invariant says what a call in progress knows of its key; the lock does  *)
(* not enter it: that a session is stored once is due to its fresh key,    *)
(* and removing it twice does no harm.  The lock has an invariant of its   *)
(* own, from which it follows what can and what cannot lock the calls up.  *)
(***************************************************************************)
EXTENDS AuthCache, TLAPS

-----------------------------------------------------------------------------
\* The inductive invariant.

\* A call in progress has a key and has returned nothing.
InCall == \A g \in Procs : At(g, "idle") \/ (key[g] \in Keys /\ ret[g] = Nobody)

\* Which steps belong to which call.
InOp == \A g \in Procs :
    /\ pc[g] \in {"get.rlock", "get.read", "get.miss"} => op[g] \in {"Set", "SessionGetUserUID"}
    /\ pc[g] \in {"get.age", "uid.read"} => op[g] = "SessionGetUserUID"
    /\ pc[g] \in {"set.lock", "set.write"} => op[g] = "Set"
    /\ pc[g] \in {"uuid.rlock", "uuid.read"} => op[g] = "GetUserUUID"
    /\ op[g] = "Set" => pc[g] \in {"get.rlock", "get.read", "get.miss", "set.lock", "set.write"}

\* A Set has a fresh key, which is nowhere else until it is stored ...
Storing == \A g \in Procs : op[g] = "Set" =>
    /\ user[g] \in Users
    /\ owner[key[g]] = user[g]
    /\ cache[key[g]] = Nobody
    /\ key[g] \notin gone

\* ... not with another Set either.
Apart == \A g, h \in Procs :
    (op[g] = "Set" /\ op[h] = "Set" /\ key[g] = key[h]) => g = h

\* An entry names the session's owner, and only sessions that began have gone.
Owned == \A k \in Keys :
    /\ cache[k] \in {Nobody, owner[k]}
    /\ k \in gone => (cache[k] = Nobody /\ owner[k] # Nobody)

\* A check that began too late never gets past the entry's age.
LateKeys == \A g \in late :
    /\ ret[g] = Nobody
    /\ At(g, "idle") \/ op[g] = "SessionGetUserUID"
    /\ At(g, "idle") \/ key[g] \in gone \cup expired
    /\ ~At(g, "uid.read")
    /\ At(g, "get.age") => key[g] \in expired

CacheInv == /\ TypeOK /\ InCall /\ InOp /\ Storing /\ Apart /\ Owned /\ LateKeys
            /\ AnswerIsOwnerOrNone

-----------------------------------------------------------------------------
LEMMA CacheInitially == Init => CacheInv
BY UsersAssumption
   DEF Init, MutexInit, CacheInv, TypeOK, MutexTypeOK, InCall, InOp, Storing, Apart,
       Owned, LateKeys, AnswerIsOwnerOrNone, At

\* A login: the key is nobody's, so that no other call has it to store, and none
\* has answered with it.
LEMMA CallSetKeeps ==
    ASSUME CacheInv, NEW g \in Procs, NEW k \in Keys, NEW u \in Users, CallSet(g, k, u)
    PROVE  CacheInv'
<1> USE UsersAssumption DEF CacheInv, TypeOK, At
<1>1. /\ pc[g] = "idle" /\ owner[k] = Nobody
      /\ pc' = [pc EXCEPT ![g] = "get.rlock"] /\ op' = [op EXCEPT ![g] = "Set"]
      /\ key' = [key EXCEPT ![g] = k] /\ ret' = [ret EXCEPT ![g] = Nobody]
      /\ removed' = removed \ {g} /\ late' = late \ {g}
      /\ user' = [user EXCEPT ![g] = u] /\ owner' = [owner EXCEPT ![k] = u]
      /\ UNCHANGED <<cache, expired, writer, readers, parked, gone>>
    BY DEF CallSet, Call, mutex
<1>2. cache[k] = Nobody /\ k \notin gone
    BY <1>1 DEF Owned
<1>3. \A h \in Procs \ {g} : op[h] = "Set" => (key[h] # k /\ key[h] \in Keys)
    BY <1>1 DEF Storing, InCall, InOp
<1>4. TypeOK' /\ InCall' /\ InOp'
    BY <1>1 DEF MutexTypeOK, InCall, InOp
<1>5. Storing' /\ Apart'
    BY <1>1, <1>2, <1>3 DEF Storing, Apart
<1>6. Owned' /\ LateKeys'
    BY <1>1, <1>2 DEF Owned, LateKeys
<1>7. AnswerIsOwnerOrNone'
    BY <1>1 DEF AnswerIsOwnerOrNone
<1> QED
    BY <1>4, <1>5, <1>6, <1>7

LEMMA CacheStep == CacheInv /\ [Next]_vars => CacheInv'
<1> SUFFICES ASSUME CacheInv, [Next]_vars PROVE CacheInv'
    OBVIOUS
<1> USE UsersAssumption
    DEF CacheInv, TypeOK, MutexTypeOK, InCall, InOp, Storing, Apart, Owned, LateKeys,
        AnswerIsOwnerOrNone, At, ZeroId
<1>1. ASSUME NEW g \in Procs, GetRLock(g) PROVE CacheInv'
    BY <1>1 DEF GetRLock, RLock, Goto, mutex, local, history
<1>2. ASSUME NEW g \in Procs, GetRead(g) PROVE CacheInv'
    BY <1>2 DEF GetRead, RUnlock, mutex, local, history
<1>3. ASSUME NEW g \in Procs, GetMisses(g) PROVE CacheInv'
    BY <1>3 DEF GetMisses, Goto, Return, mutex, local, history
<1>4. ASSUME NEW g \in Procs, GetSucceeds(g) PROVE CacheInv'
    BY <1>4 DEF GetSucceeds, Goto, mutex, local, history
<1>5. ASSUME NEW g \in Procs, GetExpires(g) PROVE CacheInv'
    BY <1>5 DEF GetExpires, Goto, mutex, local, history
<1>6. ASSUME NEW g \in Procs, GetLock(g) PROVE CacheInv'
    BY <1>6 DEF GetLock, Lock, Goto, mutex, local, history
<1>7. ASSUME NEW g \in Procs, GetCallsRemove(g) PROVE CacheInv'
    BY <1>7 DEF GetCallsRemove, Goto, mutex, local, history
<1>8. ASSUME NEW g \in Procs, UIDRead(g) PROVE CacheInv'
    BY <1>8 DEF UIDRead, Return, mutex, local, history
<1>9. ASSUME NEW g \in Procs, UIDReadFaults(g) PROVE CacheInv'
    BY <1>9 DEF UIDReadFaults, mutex, local, history
<1>10. ASSUME NEW g \in Procs, UUIDRLock(g) PROVE CacheInv'
    BY <1>10 DEF UUIDRLock, RLock, Goto, mutex, local, history
<1>11. ASSUME NEW g \in Procs, UUIDRead(g) PROVE CacheInv'
    BY <1>11 DEF UUIDRead, RUnlock, Return, mutex, local, history
<1>12. ASSUME NEW g \in Procs, SetLock(g) PROVE CacheInv'
    BY <1>12 DEF SetLock, Lock, Goto, mutex, local, history
<1>13. ASSUME NEW g \in Procs, SetWrite(g) PROVE CacheInv'
    BY <1>13 DEF SetWrite, Unlock, Done, mutex, local, history
<1>14. ASSUME NEW g \in Procs, RemoveLock(g) PROVE CacheInv'
    BY <1>14 DEF RemoveLock, Lock, Goto, mutex, local, history
<1>15. ASSUME NEW g \in Procs, RemoveDelete(g) PROVE CacheInv'
    BY <1>15 DEF RemoveDelete, Unlock, Done, mutex, local, history
<1>16. ASSUME NEW g \in Procs, Forget(g) PROVE CacheInv'
    BY <1>16 DEF Forget, mutex, local, history
<1>17. ASSUME NEW g \in Procs, NEW k \in Keys, CallSessionGetUserUID(g, k)
      PROVE  CacheInv'
    BY <1>17 DEF CallSessionGetUserUID, Call, mutex
<1>18. ASSUME NEW g \in Procs, NEW k \in Keys, CallGetUserUUID(g, k) \/ CallRemove(g, k)
      PROVE  CacheInv'
    BY <1>18 DEF CallGetUserUUID, CallRemove, Call, mutex
<1>19. ASSUME NEW k \in Keys, Expire(k) PROVE CacheInv'
    BY <1>19 DEF Expire, mutex, local, history
<1>20. CASE UNCHANGED vars
    BY <1>20 DEF vars, mutex, local, history
<1> QED
  <2> HIDE DEF CacheInv
  <2> QED
    BY <1>1, <1>2, <1>3, <1>4, <1>5, <1>6, <1>7, <1>8, <1>9, <1>10, <1>11, <1>12, <1>13, <1>14, <1>15, <1>16, <1>17, <1>18, <1>19, <1>20, CallSetKeeps
       DEF Next, Step, Calls

LEMMA CacheInvAlways == Spec => []CacheInv
BY CacheInitially, CacheStep, PTL DEF Spec

\* Every variable of the cache keeps its type.
THEOREM CacheTypeAlways == Spec => []TypeOK
<1>1. CacheInv => TypeOK
    BY DEF CacheInv
<1> QED
    BY <1>1, CacheInvAlways, PTL

\* Whoever asks for a session's user gets its owner or nobody, however logins,
\* checks and logouts overlap.
THEOREM AnswerIsOwnerOrNoneAlways == Spec => []AnswerIsOwnerOrNone
<1>1. CacheInv => AnswerIsOwnerOrNone
    BY DEF CacheInv
<1> QED
    BY <1>1, CacheInvAlways, PTL

\* A check that begins after its session was revoked or has run out does not succeed.
THEOREM NoAnswerWhenLateAlways == Spec => []NoAnswerWhenLate
<1>1. CacheInv => NoAnswerWhenLate
    BY DEF CacheInv, LateKeys, NoAnswerWhenLate
<1> QED
    BY <1>1, CacheInvAlways, PTL

-----------------------------------------------------------------------------
LEMMA LifeStep == CacheInv /\ [Next]_vars => [Life!Next]_(Life!vars)
<1> SUFFICES ASSUME CacheInv, [Next]_vars PROVE [Life!Next]_(Life!vars)
    OBVIOUS
<1> USE UsersAssumption DEF CacheInv, TypeOK
<1>1. ASSUME NEW g \in Procs, SetWrite(g) PROVE \E k \in Keys : Life!Begin(k)
  <2>1. PICK k \in Keys : k = key[g]
    BY <1>1 DEF SetWrite, At, InCall
  <2>2. /\ op[g] = "Set"
        /\ cache' = [cache EXCEPT ![k] = user[g]] /\ gone' = gone
    BY <1>1, <2>1 DEF SetWrite, At, InOp, history
  <2>3. cache[k] = Nobody /\ k \notin gone /\ user[g] \in Users
    BY <2>1, <2>2 DEF Storing
  <2> QED
    BY <2>2, <2>3 DEF Life!Begin
<1>2. ASSUME NEW g \in Procs, RemoveDelete(g)
      PROVE  (\E k \in Keys : Life!End(k)) \/ UNCHANGED <<cache, gone>>
  <2>1. PICK k \in Keys : k = key[g]
    BY <1>2 DEF RemoveDelete, At, InCall
  <2> QED
    BY <1>2, <2>1 DEF RemoveDelete, Life!End
<1>3. ASSUME NEW g \in Procs, UIDReadFaults(g) PROVE Life!EndAll
    BY <1>3 DEF UIDReadFaults, Life!EndAll
<1>4. ASSUME NEW g \in Procs,
             Step(g) /\ ~SetWrite(g) /\ ~RemoveDelete(g) /\ ~UIDReadFaults(g)
      PROVE  UNCHANGED <<cache, gone>>
    BY <1>4 DEF Step, GetRLock, GetRead, GetMisses, GetSucceeds, GetExpires, GetLock,
                GetCallsRemove, UIDRead, UUIDRLock, UUIDRead, SetLock, RemoveLock, history
<1>5. ASSUME NEW g \in Procs, Calls(g) \/ Forget(g) PROVE UNCHANGED <<cache, gone>>
    BY <1>5 DEF Calls, CallSet, CallSessionGetUserUID, CallGetUserUUID, CallRemove, Call, Forget
<1>6. ASSUME NEW k \in Keys, Expire(k) PROVE UNCHANGED <<cache, gone>>
    BY <1>6 DEF Expire, history
<1>7. CASE UNCHANGED vars
    BY <1>7 DEF vars, history, Life!vars
<1> QED
    BY <1>1, <1>2, <1>3, <1>4, <1>5, <1>6, <1>7 DEF Next, Life!Next, Life!vars

\* The cache implements SessionLife: a session begins once, keeps its user until it
\* ends, and never comes back, also when the process ends in the middle.
THEOREM CacheImplementsSessionLife == Spec => ImplementsSessionLife
<1>1. Init => Life!Init
    BY DEF Init, Life!Init
<1>2. Spec => Life!Spec
    BY <1>1, LifeStep, CacheInvAlways, PTL DEF Spec, Life!Spec
<1> QED
    BY <1>2 DEF ImplementsSessionLife

-----------------------------------------------------------------------------
\* The lock.

\* Get takes the write lock for an expired session only, and in a check.
Expiring == \A g \in Procs : pc[g] \in {"get.lock", "get.locked"} =>
    op[g] = "SessionGetUserUID" /\ key[g] \in expired

LockInv == LockExact /\ Expiring

LEMMA LockInitially == Init => LockInv
BY ProcsAssumption DEF Init, MutexInit, LockInv, LockExact, Expiring

\* A step that neither touches the lock nor begins or ends anybody's hold on it.
LEMMA LockUntouched ==
    ASSUME CacheInv, LockInv, NEW g \in Procs, NEW l,
           l \notin {"get.read", "uuid.read", "get.locked", "set.write", "rem.delete"},
           pc[g] \notin {"get.read", "uuid.read", "get.locked", "set.write", "rem.delete"},
           pc[g] # "rem.lock",
           pc' = [pc EXCEPT ![g] = l],
           l \in {"get.lock", "get.locked"}
               => op'[g] = "SessionGetUserUID" /\ key'[g] \in expired,
           \A h \in Procs \ {g} : op'[h] = op[h] /\ key'[h] = key[h],
           UNCHANGED <<writer, readers, parked, expired>>
    PROVE  LockInv'
<1> USE DEF CacheInv, TypeOK, LockInv, SelfLocked, At
<1>1. writer # g
    BY DEF LockExact
<1>2. Expiring'
    BY DEF Expiring
<1>3. {h \in Procs : pc'[h] \in {"get.read", "uuid.read"}}
          = {h \in Procs : pc[h] \in {"get.read", "uuid.read"}}
    OBVIOUS
<1>4. LockExact'
    BY <1>1, <1>3 DEF LockExact
<1> QED
    BY <1>2, <1>4

LEMMA LockStep == CacheInv /\ LockInv /\ [Next]_vars => LockInv'
<1> SUFFICES ASSUME CacheInv, LockInv, [Next]_vars PROVE LockInv'
    OBVIOUS
<1> USE ProcsAssumption
    DEF CacheInv, TypeOK, MutexTypeOK, LockInv, LockExact, Expiring, SelfLocked, At
<1>1. ASSUME NEW g \in Procs, GetRLock(g) \/ UUIDRLock(g) PROVE LockInv'
    BY <1>1 DEF GetRLock, UUIDRLock, RLock, Goto
<1>2. ASSUME NEW g \in Procs, GetRead(g) \/ UUIDRead(g) PROVE LockInv'
    BY <1>2 DEF GetRead, UUIDRead, ReadHeld, RUnlock, Return
<1>3. ASSUME NEW g \in Procs, GetMisses(g) \/ GetSucceeds(g) \/ GetExpires(g) \/ UIDRead(g)
      PROVE  LockInv'
  <2> HIDE DEF CacheInv, LockInv, LockExact, Expiring, SelfLocked
  <2>1. CASE GetMisses(g)
    BY <2>1, LockUntouched DEF GetMisses, Goto, Return, mutex
  <2>2. CASE GetSucceeds(g)
    BY <2>2, LockUntouched DEF GetSucceeds, Goto, mutex
  <2>3. CASE GetExpires(g)
    BY <2>3, LockUntouched DEF GetExpires, Goto, mutex, CacheInv, InOp
  <2>4. CASE UIDRead(g)
    BY <2>4, LockUntouched DEF UIDRead, Return, mutex
  <2> QED
    BY <1>3, <2>1, <2>2, <2>3, <2>4
<1>4. ASSUME NEW g \in Procs, GetLock(g) \/ SetLock(g) \/ RemoveLock(g) PROVE LockInv'
    BY <1>4 DEF GetLock, SetLock, RemoveLock, Lock, Goto
<1>5. ASSUME NEW g \in Procs, GetCallsRemove(g) PROVE LockInv'
    BY <1>5 DEF GetCallsRemove, WriteHeld, Goto, mutex
<1>6. ASSUME NEW g \in Procs, UIDReadFaults(g) PROVE LockInv'
    BY <1>6 DEF UIDReadFaults
<1>7. ASSUME NEW g \in Procs, SetWrite(g) PROVE LockInv'
    BY <1>7 DEF SetWrite, WriteHeld, Unlock, Done
<1>8. ASSUME NEW g \in Procs, RemoveDelete(g) PROVE LockInv'
    BY <1>8 DEF RemoveDelete, WriteHeld, Unlock, Done
<1>9. ASSUME NEW g \in Procs, Forget(g) PROVE LockInv'
    BY <1>9 DEF Forget, mutex
<1>10. ASSUME NEW g \in Procs, Calls(g) PROVE LockInv'
  <2> HIDE DEF CacheInv, LockInv, LockExact, Expiring, SelfLocked
  <2>1. PICK k \in Keys, l \in {"get.rlock", "uuid.rlock", "rem.lock"} :
           \E o : Call(g, o, k, l)
    BY <1>10 DEF Calls, CallSet, CallSessionGetUserUID, CallGetUserUUID, CallRemove
  <2>2. /\ pc[g] = "idle" /\ pc' = [pc EXCEPT ![g] = l]
        /\ UNCHANGED <<writer, readers, parked, expired>>
        /\ \E o : op' = [op EXCEPT ![g] = o] /\ key' = [key EXCEPT ![g] = k]
    BY <2>1 DEF Call, mutex, At
  <2>3. \A h \in Procs \ {g} : op'[h] = op[h] /\ key'[h] = key[h]
    BY <2>2 DEF CacheInv, TypeOK
  <2> QED
    BY <2>2, <2>3, LockUntouched
<1>11. ASSUME NEW k \in Keys, Expire(k) PROVE LockInv'
    BY <1>11 DEF Expire, mutex, local
<1>12. CASE UNCHANGED vars
    BY <1>12 DEF vars, mutex, local
<1> QED
  <2> HIDE DEF CacheInv, LockInv
  <2> QED
    BY <1>1, <1>2, <1>3, <1>4, <1>5, <1>6, <1>7, <1>8, <1>9, <1>10, <1>11, <1>12
       DEF Next, Step

LEMMA LockInvAlways == Spec => []LockInv
BY LockInitially, LockStep, CacheInvAlways, PTL DEF Spec

\* Every path through Get, Set, GetUserUUID and Remove gives the lock back that it
\* took, and the lock holds back nobody without a holder.
THEOREM LockExactAlways == Spec => []LockExact
<1>1. LockInv => LockExact
    BY DEF LockInv
<1> QED
    BY <1>1, LockInvAlways, PTL

\* Whatever reads and writes overlap, the calls never all wait for each other, but
\* for the check of an expired session, whose Get calls Remove with the lock held.
THEOREM OnlyExpiryDeadlocksAlways == Spec => []OnlyExpiryDeadlocks
<1>1. CacheInv /\ LockInv => OnlyExpiryDeadlocks
  <2> SUFFICES ASSUME CacheInv, LockInv, NEW g \in Procs, ~At(g, "idle"),
                      \A h \in Procs : ~SelfLocked(h)
               PROVE  \E h \in Procs : GoesOn(h)
    BY DEF OnlyExpiryDeadlocks
  <2> USE DEF CacheInv, TypeOK, MutexTypeOK, LockInv, LockExact, At
  <2>1. CASE writer = NoProc
    <3>1. parked = {}
      BY <2>1
    <3>2. pc[g] \in {"get.read", "uuid.read"} => g \in readers
      BY <3>1
    <3>3. pc[g] \notin {"get.locked", "set.write", "rem.delete"}
      BY <2>1, ProcsAssumption
    <3>4. GoesOn(g)
      BY <2>1, <3>2, <3>3 DEF GoesOn, ReadHeld
    <3> QED
      BY <3>4
  <2>2. CASE writer # NoProc /\ readers = {}
    <3>1. writer \in Procs /\ pc[writer] \in {"get.locked", "set.write", "rem.delete"}
      BY <2>2
    <3>2. GoesOn(writer)
      BY <2>2, <3>1 DEF GoesOn, WriteHeld
    <3> QED
      BY <3>1, <3>2
  <2>3. CASE readers # {}
    <3>1. PICK h \in Procs : h \in readers
      BY <2>3
    <3>2. pc[h] \in {"get.read", "uuid.read"}
      BY <3>1
    <3>3. GoesOn(h)
      BY <3>1, <3>2 DEF GoesOn, ReadHeld
    <3> QED
      BY <3>3
  <2> QED
    BY <2>1, <2>2, <2>3
<1> QED
    BY <1>1, CacheInvAlways, LockInvAlways, PTL

\* While a check waits for itself no session begins or ends, and it goes on waiting.
WaitsForItself == \A g \in Procs : SelfLocked(g) => SelfLocked(g)' /\ UNCHANGED <<cache, gone>>

LEMMA WaitsForItselfStep == CacheInv /\ LockInv /\ [Next]_vars => WaitsForItself
<1> SUFFICES ASSUME CacheInv, LockInv, [Next]_vars, NEW g \in Procs, SelfLocked(g)
             PROVE  SelfLocked(g)' /\ UNCHANGED <<cache, gone>>
    BY DEF WaitsForItself
<1>1. /\ writer = g /\ pc[g] = "rem.lock" /\ op[g] = "SessionGetUserUID" /\ key[g] \in expired
      /\ g # NoProc
    BY ProcsAssumption DEF SelfLocked, At
<1> USE DEF SelfLocked, At, CacheInv, TypeOK
<1>2. ASSUME NEW h \in Procs,
             SetWrite(h) \/ RemoveDelete(h) \/ UIDReadFaults(h) \/ GetCallsRemove(h)
      PROVE  FALSE
    BY <1>1, <1>2 DEF SetWrite, RemoveDelete, UIDReadFaults, Writing, GetCallsRemove, WriteHeld
<1>3. ASSUME NEW h \in Procs, GetLock(h) \/ SetLock(h) \/ RemoveLock(h) PROVE FALSE
    BY <1>1, <1>3 DEF GetLock, SetLock, RemoveLock, Lock
<1>4. ASSUME NEW h \in Procs,
             \/ GetRLock(h) \/ UUIDRLock(h) \/ GetRead(h) \/ UUIDRead(h) \/ GetMisses(h)
             \/ GetSucceeds(h) \/ GetExpires(h) \/ UIDRead(h)
      PROVE  SelfLocked(g)' /\ UNCHANGED <<cache, gone>>
    BY <1>1, <1>4 DEF GetRLock, UUIDRLock, GetRead, UUIDRead, GetMisses, GetSucceeds,
       GetExpires, UIDRead, RLock, RUnlock, Goto, Return, mutex, history
<1>5. ASSUME NEW h \in Procs, Calls(h) \/ Forget(h)
      PROVE  SelfLocked(g)' /\ UNCHANGED <<cache, gone>>
    BY <1>1, <1>5 DEF Calls, CallSet, CallSessionGetUserUID, CallGetUserUUID, CallRemove,
       Call, Forget, mutex
<1>6. ASSUME NEW k \in Keys, Expire(k) PROVE SelfLocked(g)' /\ UNCHANGED <<cache, gone>>
    BY <1>1, <1>6 DEF Expire, mutex, local, history
<1>7. CASE UNCHANGED vars
    BY <1>1, <1>7 DEF vars, mutex, local, history
<1> QED
    BY <1>2, <1>3, <1>4, <1>5, <1>6, <1>7 DEF Next, Step

\* The check of one expired session shuts the cache for good: nobody logs in or out
\* from then on, and the runtime finds nothing wrong that would end the process.
THEOREM WaitsForItselfForGood == Spec => [][WaitsForItself]_vars
BY CacheInvAlways, LockInvAlways, WaitsForItselfStep, PTL DEF Spec

=============================================================================
