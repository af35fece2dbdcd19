------------------------------ MODULE ConnLease ------------------------------
(***************************************************************************)
(* What a request handler may rely on when it borrows a database           *)
(* connection: a connection is leased to one handler at a time, comes back *)
(* only when that handler gives it up, and is never closed while the       *)
(* process lives.  The set Conn bounds how many connections ever exist.    *)
(* ConnPool.tla is the pool of internal/database/database.go, shown to     *)
(* implement this specification.                                           *)
(***************************************************************************)
CONSTANTS Workers,   \* goroutines that borrow connections
          Conn,      \* identities of the connections that may be opened
          NoConn     \* "holds no connection"

VARIABLES free,      \* connections nobody holds
          lease      \* lease[w]: the connection w holds, or NoConn

vars == <<free, lease>>

Leased == {lease[w] : w \in Workers} \ {NoConn}

Init == /\ free = {}
        /\ lease = [w \in Workers |-> NoConn]

\* w gets a connection that did not exist.
Open(w) ==
    /\ lease[w] = NoConn
    /\ \E c \in Conn \ (free \cup Leased) : lease' = [lease EXCEPT ![w] = c]
    /\ UNCHANGED free

\* w gets a connection nobody holds.
Take(w) ==
    /\ lease[w] = NoConn
    /\ \E c \in free : /\ lease' = [lease EXCEPT ![w] = c]
                       /\ free' = free \ {c}

\* w gives its connection up.
Give(w) ==
    /\ lease[w] # NoConn
    /\ free' = free \cup {lease[w]}
    /\ lease' = [lease EXCEPT ![w] = NoConn]

\* The process exits, and every connection with it.
Exit == /\ free' = {}
        /\ lease' = [w \in Workers |-> NoConn]

Next == (\E w \in Workers : Open(w) \/ Take(w) \/ Give(w)) \/ Exit

Spec == Init /\ [][Next]_vars

=============================================================================
