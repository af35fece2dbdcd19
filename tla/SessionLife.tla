----------------------------- MODULE SessionLife -----------------------------
(***************************************************************************)
(* What logins promise: a session begins with a user, keeps that user, and *)
(* ends once.  AuthCache.tla is the cache of internal/server/cache_auth.go *)
(* that is to keep this promise.                                           *)
(***************************************************************************)
CONSTANTS Keys, Users, Nobody

VARIABLES holder,   \* holder[k]: the user of session k, or Nobody
          ended     \* sessions that have ended

vars == <<holder, ended>>

Init == /\ holder = [k \in Keys |-> Nobody]
        /\ ended = {}

Begin(k) == /\ holder[k] = Nobody
            /\ k \notin ended
            /\ \E u \in Users : holder' = [holder EXCEPT ![k] = u]
            /\ UNCHANGED ended

End(k) == /\ holder[k] # Nobody
          /\ holder' = [holder EXCEPT ![k] = Nobody]
          /\ ended' = ended \cup {k}

\* The process ends, and all sessions with it.
EndAll == /\ holder' = [k \in Keys |-> Nobody]
          /\ ended' = ended \cup {k \in Keys : holder[k] # Nobody}

Next == (\E k \in Keys : Begin(k) \/ End(k)) \/ EndAll

Spec == Init /\ [][Next]_vars

=============================================================================
