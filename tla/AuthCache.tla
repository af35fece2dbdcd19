------------------------------ MODULE AuthCache ------------------------------
(***************************************************************************)
(* The session cache of internal/server/cache_auth.go and the calls        *)
(* internal/server/session.go makes on it: a map from session keys to      *)
(* users behind a read-write lock, which SessionGetUserUID reads once more *)
(* without the lock.                                                       *)
(*                                                                         *)
(* A session's age matters only by whether it has reached the timeout:     *)
(* Expire lets that happen at any time, once for each session.  Keys are   *)
(* fresh UUIDs, so a session is stored once; a request may carry any key.  *)
(***************************************************************************)
EXTENDS Naturals

CONSTANTS Procs,     \* goroutines that serve requests
          NoProc,
          Keys,      \* session keys (UUIDs)
          NoKey,
          Users,     \* user ids of the database, a serial that starts at 1
          Nobody     \* no entry, no id, a nil *int

ASSUME ProcsAssumption == NoProc \notin Procs
ASSUME KeysAssumption  == NoKey \notin Keys
ASSUME UsersAssumption == Users \subseteq Nat \ {0} /\ Nobody \notin Nat

ZeroId == 0          \* the userid of the zero AuthCacheType

VARIABLES
    cache,           \* cache[k]: the user of session k, or Nobody
    expired,         \* sessions whose age has reached the timeout
    writer, readers, parked,   \* the lock mtx
    pc, op, key,     \* pc[g]: next step of g, in or after operation op[g] on key[g]
    user,            \* user[g]: the user of the session g is to store
    ret,             \* ret[g]: the id g's last operation returned, or Nobody
    removed,         \* the goroutines of whom that was a Remove that found its entry
    owner,           \* owner[k]: who logged in as session k (history)
    gone,            \* sessions that have left the cache (history)
    late             \* the goroutines whose check began when its key was gone or
                     \* expired (history)

INSTANCE RWMutex

mutex   == <<writer, readers, parked>>
local   == <<pc, op, key, user, ret, removed>>
history == <<owner, gone, late>>
vars    == <<cache, expired, mutex, local, history>>

Init ==
    /\ cache = [k \in Keys |-> Nobody]
    /\ expired = {}
    /\ MutexInit
    /\ pc = [g \in Procs |-> "idle"]
    /\ op = [g \in Procs |-> "none"]
    /\ key = [g \in Procs |-> NoKey]
    /\ user = [g \in Procs |-> Nobody]
    /\ ret = [g \in Procs |-> Nobody]
    /\ removed = {}
    /\ owner = [k \in Keys |-> Nobody]
    /\ gone = {}
    /\ late = {}

At(g, l) == pc[g] = l

\* g goes from one step of its operation to the next.
Goto(g, l) == /\ pc' = [pc EXCEPT ![g] = l]
              /\ UNCHANGED <<op, key, user, ret, removed>>

\* g's Set or Remove is over, and nothing of it is left.
Done(g, found) == /\ pc' = [pc EXCEPT ![g] = "idle"]
                  /\ op' = [op EXCEPT ![g] = "none"]
                  /\ key' = [key EXCEPT ![g] = NoKey]
                  /\ user' = [user EXCEPT ![g] = Nobody]
                  /\ removed' = IF found THEN removed \cup {g} ELSE removed \ {g}
                  /\ UNCHANGED ret

\* g's operation returns id.
Return(g, id) == /\ pc' = [pc EXCEPT ![g] = "idle"]
                 /\ ret' = [ret EXCEPT ![g] = id]
                 /\ UNCHANGED <<op, key, user, removed>>

\* The caller of g's operations returns, and nothing of them is left.
Forget(g) == /\ At(g, "idle")
             /\ op' = [op EXCEPT ![g] = "none"]
             /\ key' = [key EXCEPT ![g] = NoKey]
             /\ user' = [user EXCEPT ![g] = Nobody]
             /\ ret' = [ret EXCEPT ![g] = Nobody]
             /\ removed' = removed \ {g}
             /\ late' = late \ {g}
             /\ UNCHANGED <<cache, expired, mutex, pc, owner, gone>>

-----------------------------------------------------------------------------
\* Calls.

\* g calls operation o, which starts at step l, on k.
Call(g, o, k, l) ==
    /\ At(g, "idle")
    /\ pc' = [pc EXCEPT ![g] = l]
    /\ op' = [op EXCEPT ![g] = o]
    /\ key' = [key EXCEPT ![g] = k]
    /\ ret' = [ret EXCEPT ![g] = Nobody]
    /\ removed' = removed \ {g}
    /\ late' = IF o = "SessionGetUserUID" /\ k \in gone \cup expired
               THEN late \cup {g} ELSE late \ {g}
    /\ UNCHANGED <<cache, expired, mutex, gone>>

\* SessionRegister stores a new session; Set starts with a Get of the key.
CallSet(g, k, u) ==
    /\ owner[k] = Nobody
    /\ Call(g, "Set", k, "get.rlock")
    /\ user' = [user EXCEPT ![g] = u]
    /\ owner' = [owner EXCEPT ![k] = u]

CallSessionGetUserUID(g, k) ==
    Call(g, "SessionGetUserUID", k, "get.rlock") /\ UNCHANGED <<user, owner>>

CallGetUserUUID(g, k) ==
    Call(g, "GetUserUUID", k, "uuid.rlock") /\ UNCHANGED <<user, owner>>

\* SessionRevoke calls Remove.
CallRemove(g, k) ==
    Call(g, "Remove", k, "rem.lock") /\ UNCHANGED <<user, owner>>

\* A session reaches the timeout: its age is counted from SessionRegister, and
\* goes on being so for a Get that has copied the entry.
Expire(k) ==
    /\ owner[k] # Nobody
    /\ k \notin expired
    /\ expired' = expired \cup {k}
    /\ UNCHANGED <<cache, mutex, local, history>>

-----------------------------------------------------------------------------
\* Get.

GetRLock(g) ==
    /\ At(g, "get.rlock")
    /\ RLock(g)
    /\ Goto(g, "get.read")
    /\ UNCHANGED <<cache, expired, history>>

\* A fault: the read lock is kept when there is no entry.
GetRead_MissKeepsLock(g) ==
    /\ At(g, "get.read")
    /\ ReadHeld(g)
    /\ IF cache[key[g]] = Nobody
       THEN pc' = [pc EXCEPT ![g] = "get.miss"] /\ UNCHANGED mutex
       ELSE pc' = [pc EXCEPT ![g] = "get.age"] /\ RUnlock(g)
    /\ UNCHANGED <<cache, expired, op, key, user, ret, removed, history>>

\* The entry is copied under the read lock.
GetRead(g) ==
    /\ At(g, "get.read")
    /\ ReadHeld(g)
    /\ RUnlock(g)
    /\ pc' = [pc EXCEPT ![g] = IF cache[key[g]] = Nobody THEN "get.miss" ELSE "get.age"]
    /\ UNCHANGED <<cache, expired, op, key, user, ret, removed, history>>

\* CACHE_MISS: SessionGetUserUID answers ERR_AUTH_INVALID, Set goes on.  (A Set
\* gets no further than this in Get, since nobody has stored its fresh key.)
GetMisses(g) ==
    /\ At(g, "get.miss")
    /\ IF op[g] = "Set" THEN Goto(g, "set.lock") ELSE Return(g, Nobody)
    /\ UNCHANGED <<cache, expired, mutex, history>>

\* A fault: the age is never looked at.
GetSucceeds_AnyAge(g) ==
    /\ At(g, "get.age")
    /\ Goto(g, "uid.read")
    /\ UNCHANGED <<cache, expired, mutex, history>>

\* CACHE_SUCCESS: the copied entry is young enough.
GetSucceeds(g) ==
    /\ At(g, "get.age")
    /\ key[g] \notin expired
    /\ Goto(g, "uid.read")
    /\ UNCHANGED <<cache, expired, mutex, history>>

\* The entry is too old: Get takes the write lock to remove it ...
GetExpires(g) ==
    /\ At(g, "get.age")
    /\ key[g] \in expired
    /\ Goto(g, "get.lock")
    /\ UNCHANGED <<cache, expired, mutex, history>>

GetLock(g) ==
    /\ At(g, "get.lock")
    /\ Lock(g)
    /\ Goto(g, "get.locked")
    /\ UNCHANGED <<cache, expired, history>>

\* ... and with the lock held calls Remove, which takes it again.  What Get does
\* after that call (Unlock, return CACHE_EXPIRED) is not modelled: no goroutine
\* comes back from it.
GetCallsRemove(g) ==
    /\ At(g, "get.locked")
    /\ WriteHeld(g)
    /\ Goto(g, "rem.lock")
    /\ UNCHANGED <<cache, expired, mutex, history>>

-----------------------------------------------------------------------------
\* The rest of SessionGetUserUID: the map is read again, without the lock.

\* Somebody is inside the map with the write lock.
Writing == \E h \in Procs : pc[h] \in {"set.write", "rem.delete"} /\ WriteHeld(h)

\* A fault: the id is that of some session, not of the one asked about.
UIDRead_Unkeyed(g) ==
    /\ At(g, "uid.read")
    /\ \E k \in Keys : Return(g, IF cache[k] = Nobody THEN ZeroId ELSE cache[k])
    /\ UNCHANGED <<cache, expired, mutex, history>>

\* An absent entry reads as the zero one; a read that overlaps a write may also
\* miss an entry that is there.  (The language says nothing of such a read: these
\* are the outcomes that the runtime's map has where it does not notice.)
UIDRead(g) ==
    /\ At(g, "uid.read")
    /\ \/ Return(g, IF cache[key[g]] = Nobody THEN ZeroId ELSE cache[key[g]])
       \/ Writing /\ Return(g, ZeroId)
    /\ UNCHANGED <<cache, expired, mutex, history>>

\* Or the runtime sees the overlap: "concurrent map read and map write" ends the
\* process.  The next one starts with no session and no call.
UIDReadFaults(g) ==
    /\ At(g, "uid.read")
    /\ Writing
    /\ cache' = [k \in Keys |-> Nobody]
    /\ gone' = gone \cup {k \in Keys : cache[k] # Nobody}
    /\ writer' = NoProc
    /\ readers' = {}
    /\ parked' = {}
    /\ pc' = [h \in Procs |-> "idle"]
    /\ op' = [h \in Procs |-> "none"]
    /\ key' = [h \in Procs |-> NoKey]
    /\ user' = [h \in Procs |-> Nobody]
    /\ ret' = [h \in Procs |-> Nobody]
    /\ removed' = {}
    /\ late' = {}
    /\ UNCHANGED <<expired, owner>>

-----------------------------------------------------------------------------
\* GetUserUUID, which does not look at the age.

UUIDRLock(g) ==
    /\ At(g, "uuid.rlock")
    /\ RLock(g)
    /\ Goto(g, "uuid.read")
    /\ UNCHANGED <<cache, expired, history>>

UUIDRead(g) ==
    /\ At(g, "uuid.read")
    /\ ReadHeld(g)
    /\ RUnlock(g)
    /\ Return(g, cache[key[g]])
    /\ UNCHANGED <<cache, expired, history>>

-----------------------------------------------------------------------------
\* The rest of Set, and Remove.

SetLock(g) ==
    /\ At(g, "set.lock")
    /\ Lock(g)
    /\ Goto(g, "set.write")
    /\ UNCHANGED <<cache, expired, history>>

\* A fault: the entry is stored before its user id is filled in.
SetWrite_Zero(g) ==
    /\ At(g, "set.write")
    /\ WriteHeld(g)
    /\ cache' = [cache EXCEPT ![key[g]] = ZeroId]
    /\ Unlock
    /\ Done(g, FALSE)
    /\ UNCHANGED <<expired, history>>

SetWrite(g) ==
    /\ At(g, "set.write")
    /\ WriteHeld(g)
    /\ cache' = [cache EXCEPT ![key[g]] = user[g]]
    /\ Unlock
    /\ Done(g, FALSE)
    /\ UNCHANGED <<expired, history>>

RemoveLock(g) ==
    /\ At(g, "rem.lock")
    /\ Lock(g)
    /\ Goto(g, "rem.delete")
    /\ UNCHANGED <<cache, expired, history>>

\* A fault: the entry stays after it was reported removed.
RemoveDelete_KeepsEntry(g) ==
    /\ At(g, "rem.delete")
    /\ WriteHeld(g)
    /\ LET k == key[g] IN
       IF cache[k] # Nobody
       THEN gone' = gone \cup {k}
       ELSE UNCHANGED gone
    /\ Unlock
    /\ Done(g, cache[key[g]] # Nobody)
    /\ UNCHANGED <<cache, expired, owner, late>>

\* A fault: the early return of CACHE_MISS leaves the lock held.
RemoveDelete_MissKeepsLock(g) ==
    /\ At(g, "rem.delete")
    /\ WriteHeld(g)
    /\ LET k == key[g] IN
       IF cache[k] # Nobody
       THEN /\ cache' = [cache EXCEPT ![k] = Nobody]
            /\ gone' = gone \cup {k}
            /\ Unlock
       ELSE UNCHANGED <<cache, gone, mutex>>
    /\ Done(g, cache[key[g]] # Nobody)
    /\ UNCHANGED <<expired, owner, late>>

\* Remove answers CACHE_SUCCESS if there was an entry, else CACHE_MISS.
RemoveDelete(g) ==
    /\ At(g, "rem.delete")
    /\ WriteHeld(g)
    /\ LET k == key[g] IN
       IF cache[k] # Nobody
       THEN /\ cache' = [cache EXCEPT ![k] = Nobody]
            /\ gone' = gone \cup {k}
       ELSE UNCHANGED <<cache, gone>>
    /\ Unlock
    /\ Done(g, cache[key[g]] # Nobody)
    /\ UNCHANGED <<expired, owner, late>>

-----------------------------------------------------------------------------
Step(g) == \/ GetRLock(g) \/ GetRead(g) \/ GetMisses(g) \/ GetSucceeds(g)
           \/ GetExpires(g) \/ GetLock(g) \/ GetCallsRemove(g)
           \/ UIDRead(g) \/ UIDReadFaults(g)
           \/ UUIDRLock(g) \/ UUIDRead(g)
           \/ SetLock(g) \/ SetWrite(g) \/ RemoveLock(g) \/ RemoveDelete(g)

Calls(g) == \E k \in Keys : \/ \E u \in Users : CallSet(g, k, u)
                            \/ CallSessionGetUserUID(g, k)
                            \/ CallGetUserUUID(g, k)
                            \/ CallRemove(g, k)

Next == \/ \E g \in Procs : Step(g) \/ Calls(g) \/ Forget(g)
        \/ \E k \in Keys : Expire(k)

Spec == Init /\ [][Next]_vars

\* A goroutine that can run does, and sync.RWMutex starves nobody who waits for
\* the write lock (its inner sync.Mutex hands over in order after 1 ms).
Fairness ==
    \A g \in Procs : /\ WF_vars(Step(g))
                     /\ SF_vars(GetLock(g) \/ SetLock(g) \/ RemoveLock(g))
FairSpec == Spec /\ Fairness

-----------------------------------------------------------------------------
TypeOK ==
    /\ cache \in [Keys -> Users \cup {Nobody}]
    /\ expired \subseteq Keys
    /\ MutexTypeOK
    /\ pc \in [Procs -> {"idle", "get.rlock", "get.read", "get.miss", "get.age",
                         "get.lock", "get.locked", "uid.read", "uuid.rlock",
                         "uuid.read", "set.lock", "set.write", "rem.lock",
                         "rem.delete"}]
    /\ op \in [Procs -> {"none", "Set", "SessionGetUserUID", "GetUserUUID", "Remove"}]
    /\ key \in [Procs -> Keys \cup {NoKey}]
    /\ user \in [Procs -> Users \cup {Nobody}]
    /\ ret \in [Procs -> Users \cup {Nobody, ZeroId}]
    /\ owner \in [Keys -> Users \cup {Nobody}]
    /\ gone \subseteq Keys
    /\ removed \subseteq Procs
    /\ late \subseteq Procs

\* A request is never taken for another user's: the id it gets is that of the
\* user who logged in as the session, or no id (the zero entry, nil).  Only the
\* second, unlocked read of SessionGetUserUID can find the entry gone and make
\* a 0 of it.
AnswerIsOwnerOrNone ==
    \A g \in Procs : ret[g] # Nobody =>
        \/ ret[g] = owner[key[g]]
        \/ ret[g] = ZeroId /\ op[g] = "SessionGetUserUID"

\* Once a revocation has been answered, or the timeout has passed, no later
\* check of the session succeeds, whatever else is in progress.
NoAnswerWhenLate ==
    \A g \in late : ret[g] = Nobody

\* g's check found its session expired, and g waits for the lock it holds.
SelfLocked(g) == /\ writer = g /\ At(g, "rem.lock")
                 /\ op[g] = "SessionGetUserUID" /\ key[g] \in expired

\* The lock is with those who are between their Lock and their Unlock, on every
\* path through Get, Set and Remove, and nobody is held back without a cause.
LockExact ==
    /\ readers \cup parked = {g \in Procs : pc[g] \in {"get.read", "uuid.read"}}
    /\ readers \cap parked = {}
    /\ parked # {} => writer # NoProc
    /\ \A g \in Procs :
          /\ pc[g] \in {"get.locked", "set.write", "rem.delete"} => writer = g
          /\ writer = g => \/ pc[g] \in {"get.locked", "set.write", "rem.delete"}
                          \/ SelfLocked(g)

\* Nothing but the lock can keep a call from its next step.
GoesOn(g) ==
    \/ pc[g] \in {"get.rlock", "get.miss", "get.age", "uid.read", "uuid.rlock"}
    \/ pc[g] \in {"get.read", "uuid.read"} /\ ReadHeld(g)
    \/ pc[g] \in {"get.lock", "set.lock", "rem.lock"} /\ writer = NoProc
    \/ pc[g] \in {"get.locked", "set.write", "rem.delete"} /\ WriteHeld(g)

\* Calls never all wait for each other, whatever reads and writes overlap, but for
\* the one cause: the check of an expired session that waits for itself.
OnlyExpiryDeadlocks ==
    (\E g \in Procs : ~At(g, "idle"))
    => (\E g \in Procs : GoesOn(g)) \/ (\E g \in Procs : SelfLocked(g))

\* Seen from outside, a session begins once, belongs to one user until it ends,
\* and once ended never comes back, however logins, checks and revocations of it
\* overlap.
Life == INSTANCE SessionLife WITH holder <- cache, ended <- gone
ImplementsSessionLife == Life!Spec

\* authentification.go:9-11 gives AuthVerif two outcomes, nil and an ApiError; so
\* the call it makes comes back.
CheckReturns ==
    \A g \in Procs : At(g, "get.rlock") ~> At(g, "idle")

=============================================================================
