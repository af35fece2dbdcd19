------------------------------- MODULE RWMutex -------------------------------
(***************************************************************************)
(* Go's sync.RWMutex, as internal/server/cache_auth.go uses it.  A writer  *)
(* that has asked for the lock holds back every later reader, also while   *)
(* earlier readers keep it waiting; when it unlocks, all the readers held  *)
(* back get in before the next writer.  The lock does not know its holder: *)
(* a goroutine that locks twice waits for itself.                          *)
(***************************************************************************)
CONSTANTS Procs, NoProc

VARIABLES writer,    \* the goroutine that has, or is next to have, the write lock
          readers,   \* the goroutines that have the read lock
          parked     \* the goroutines held back in RLock

MutexInit == /\ writer = NoProc
             /\ readers = {}
             /\ parked = {}

MutexTypeOK == /\ writer \in Procs \cup {NoProc}
               /\ readers \subseteq Procs
               /\ parked \subseteq Procs

RLock(g) ==
    /\ IF writer = NoProc
       THEN readers' = readers \cup {g} /\ UNCHANGED parked
       ELSE parked' = parked \cup {g} /\ UNCHANGED readers
    /\ UNCHANGED writer

RUnlock(g) == /\ readers' = readers \ {g}
              /\ UNCHANGED <<writer, parked>>

\* The first half of Lock; it ends once WriteHeld(g).
Lock(g) == /\ writer = NoProc
           /\ writer' = g
           /\ UNCHANGED <<readers, parked>>

Unlock == /\ writer' = NoProc
          /\ readers' = readers \cup parked
          /\ parked' = {}

ReadHeld(g)  == g \in readers
WriteHeld(g) == writer = g /\ readers = {}

=============================================================================
