---------------------------- MODULE ConnPoolLease -----------------------------
(***************************************************************************)
(* Proof that the pool of ConnPool.tla implements ConnLease.tla for every  *)
(* set of handlers and every capacity: each step of the pool maps to a     *)
(* step of the leases or to a stutter.                                     *)
(***************************************************************************)
EXTENDS ConnPoolCounts

-----------------------------------------------------------------------------
\* What is in the channel, in no order.
Elements(q) == {q[i] : i \in DOMAIN q}

LEMMA ElementsOfTail ==
    ASSUME NEW S, NEW q \in Seq(S), q # << >>,
           \A i, j \in DOMAIN q : q[i] = q[j] => i = j
    PROVE  /\ Head(q) \in Elements(q)
           /\ Elements(Tail(q)) = Elements(q) \ {Head(q)}
<1>1. /\ 1 \in DOMAIN q /\ Head(q) = q[1]
      /\ \A i \in DOMAIN Tail(q) : i + 1 \in DOMAIN q /\ Tail(q)[i] = q[i + 1]
    BY HeadAndTail
<1>2. \A i \in DOMAIN q : i = 1 \/ (i - 1 \in DOMAIN Tail(q) /\ Tail(q)[i - 1] = q[i])
    OBVIOUS
<1>3. ASSUME NEW i \in DOMAIN Tail(q) PROVE Tail(q)[i] \in Elements(q) \ {Head(q)}
  <2>1. i + 1 \in DOMAIN q /\ i + 1 # 1 /\ Tail(q)[i] = q[i + 1]
    BY <1>1
  <2> QED
    BY <1>1, <2>1 DEF Elements
<1>4. ASSUME NEW i \in DOMAIN q, q[i] # Head(q) PROVE q[i] \in Elements(Tail(q))
    BY <1>1, <1>2, <1>4 DEF Elements
<1>5. Elements(Tail(q)) \subseteq Elements(q) \ {Head(q)}
    BY <1>3 DEF Elements
<1>6. Elements(q) \ {Head(q)} \subseteq Elements(Tail(q))
    BY <1>4 DEF Elements
<1> QED
    BY <1>1, <1>5, <1>6 DEF Elements

LEMMA ElementsOfAppend ==
    ASSUME NEW q \in Seq(Nat \ {NoConn}), NEW e \in Nat \ {NoConn}
    PROVE  Elements(Append(q, e)) = Elements(q) \cup {e}
<1>1. /\ DOMAIN Append(q, e) = DOMAIN q \cup {Len(q) + 1}
      /\ Append(q, e)[Len(q) + 1] = e
      /\ \A i \in DOMAIN q : Append(q, e)[i] = q[i]
    BY Appended
<1> QED
    BY <1>1 DEF Elements

-----------------------------------------------------------------------------
\* What the refinement mapping makes of the goroutines: the connections that are
\* on their way back, and the leases that have not ended.
Returning == {conn[w] : w \in {v \in Workers : Releasing(v)}}
Leases    == [w \in Workers |-> IF Releasing(w) THEN NoConn ELSE conn[w]]

LEMMA LeaseInitially == Init => Lease!Init
BY DEF Init, Lease!Init, Releasing

\* A step after which the same goroutines are releasing what they were.
LEMMA SameReleases ==
    ASSUME UNCHANGED <<dbconns, conn>>, \A v \in Workers : Releasing(v)' = Releasing(v)
    PROVE  UNCHANGED Lease!vars
<1>1. Elements(dbconns)' = Elements(dbconns) /\ Returning' = Returning /\ Leases' = Leases
    BY DEF Elements, Returning, Leases
<1> QED
    BY <1>1 DEF Lease!vars, Elements, Returning, Leases

\* A goroutine without a lease gets one of the free connections.
LEMMA TakesFree ==
    ASSUME NEW w \in Workers, NEW c \in Elements(dbconns) \cup Returning,
           Leases[w] = NoConn,
           Leases' = [Leases EXCEPT ![w] = c],
           (Elements(dbconns) \cup Returning)' = (Elements(dbconns) \cup Returning) \ {c}
    PROVE  Lease!Take(w)
BY Zenon DEF Lease!Take, Elements, Returning, Leases

LEMMA LeaseStep ==
    Shape /\ OneHolder /\ OpenedWithinHandlers /\ [Next]_vars
    => [Lease!Next]_(Lease!vars)
<1> SUFFICES ASSUME Shape, OneHolder, OpenedWithinHandlers, [Next]_vars
             PROVE  [Lease!Next]_(Lease!vars)
    OBVIOUS
<1> USE DEF Shape, TypeOK, NoConn
<1>0. ASSUME NEW w \in Workers,
             \/ Call(w) \/ CheckLen(w) \/ CheckInUse(w) \/ Reserve(w)
             \/ ReceiveParks(w) \/ Count(w) \/ SendParks(w)
      PROVE  UNCHANGED Lease!vars
  <2>1. UNCHANGED <<dbconns, conn>> /\ \A v \in Workers : Releasing(v)' = Releasing(v)
    BY <1>0 DEF Call, CheckLen, CheckInUse, Reserve, ReceiveParks, Count, SendParks,
                At, Goto, Releasing
  <2> QED
    BY <2>1, SameReleases
\* A connection that is opened, and so new.
<1>1. ASSUME NEW w \in Workers, Connect(w) PROVE Lease!Open(w)
  <2>1. /\ Deciding \in SUBSET Workers /\ w \in Deciding
        /\ Cardinality(Deciding) \in Nat /\ Cardinality(Handlers) \in Nat
    BY <1>1, FinitelyMany DEF Connect, At, Deciding, Workers
  <2>2. Cardinality(Deciding) # 0
    BY <2>1, FinitelyMany, FS_EmptySet
  <2>3. opened + 1 \in 1 .. Cardinality(Handlers)
    BY <2>1, <2>2 DEF OpenedWithinHandlers
  <2>4. opened + 1 \notin Elements(dbconns) \cup Returning \cup {Leases[v] : v \in Workers}
    BY DEF Numbered, Elements, Returning, Leases
  <2>5. /\ pc[w] = "connect" /\ conn[w] = NoConn
        /\ conn' = [conn EXCEPT ![w] = opened + 1] /\ dbconns' = dbconns
        /\ pc' = [pc EXCEPT ![w] = "holding"]
    BY <1>1 DEF Connect, At, Goto, Attached
  <2>6. \A v \in Workers : Releasing(v)' = Releasing(v) /\ (Releasing(v) => v # w)
    BY <2>5 DEF Releasing
  <2>7. Returning' = Returning /\ Elements(dbconns)' = Elements(dbconns)
    BY <2>5, <2>6 DEF Returning, Elements
  <2>8. Leases' = [Leases EXCEPT ![w] = opened + 1] /\ Leases[w] = NoConn
    BY <2>5, <2>6 DEF Leases
  <2> QED
    BY <2>3, <2>4, <2>7, <2>8 DEF Lease!Open, Lease!Leased, Elements, Returning, Leases
\* One from the channel.
<1>2. ASSUME NEW w \in Workers, Receive(w) PROVE Lease!Take(w)
  <2>1. /\ Head(dbconns) \in Elements(dbconns)
        /\ Elements(Tail(dbconns)) = Elements(dbconns) \ {Head(dbconns)}
    BY <1>2, ElementsOfTail DEF Receive, OneHolder
  <2>2. /\ pc[w] = "receive" /\ conn[w] = NoConn
        /\ conn' = [conn EXCEPT ![w] = Head(dbconns)] /\ dbconns' = Tail(dbconns)
        /\ pc' = [pc EXCEPT ![w] = "count"]
    BY <1>2 DEF Receive, At, Goto, Attached
  <2>3. \A v \in Workers : Releasing(v)' = Releasing(v) /\ (Releasing(v) => v # w)
    BY <2>2 DEF Releasing
  <2>4. Returning' = Returning /\ Head(dbconns) \notin Returning
    BY <1>2, <2>1, <2>2, <2>3
       DEF Receive, Returning, Releasing, OneHolder, Holders, Elements, Attached
  <2>5. Leases' = [Leases EXCEPT ![w] = Head(dbconns)] /\ Leases[w] = NoConn
    BY <2>2, <2>3 DEF Leases
  <2>6. Elements(dbconns)' = Elements(dbconns) \ {Head(dbconns)}
    BY <2>1, <2>2 DEF Elements
  <2>7. (Elements(dbconns) \cup Returning)'
        = (Elements(dbconns) \cup Returning) \ {Head(dbconns)}
    BY <2>4, <2>6
  <2> QED
    BY <2>1, <2>5, <2>7, TakesFree
\* One from the channel, whose place that of a parked sender takes: it is free
\* before and after.
<1>3. ASSUME NEW w \in Workers, ReceiveUnparks(w) PROVE Lease!Take(w)
  <2> DEFINE rest == Tail(dbconns)
  <2>0. PICK s \in Workers : s = Head(sendq)
    BY <1>3, HeadAndTail DEF ReceiveUnparks
  <2>1. pc[s] = "sending" /\ conn[s] \in Nat \ {NoConn}
    BY <1>3, <2>0, HeadAndTail DEF ReceiveUnparks, Attached, Queued
  <2>2. /\ Head(dbconns) \in Elements(dbconns) /\ Head(dbconns) \in Nat \ {NoConn}
        /\ Elements(rest) = Elements(dbconns) \ {Head(dbconns)}
        /\ rest \in Seq(Nat \ {NoConn})
    BY <1>3, HeadAndTail, ElementsOfTail DEF ReceiveUnparks, OneHolder
  <2>3. /\ pc[w] = "receive" /\ conn[w] = NoConn /\ w # s
        /\ dbconns' = Append(rest, conn[s])
        /\ conn' = [conn EXCEPT ![w] = Head(dbconns), ![s] = NoConn]
        /\ pc' = [pc EXCEPT ![w] = "count", ![s] = "idle"]
    BY <1>3, <2>0, <2>1 DEF ReceiveUnparks, At, Attached
  <2> HIDE DEF rest
  <2>4. Elements(dbconns)' = (Elements(dbconns) \ {Head(dbconns)}) \cup {conn[s]}
    <3>1. Elements(Append(rest, conn[s])) = Elements(rest) \cup {conn[s]}
        BY <2>1, <2>2, ElementsOfAppend
    <3>2. Elements(dbconns)' = Elements(Append(rest, conn[s]))
        BY <2>3 DEF Elements
    <3> QED
        BY <2>2, <3>1, <3>2
  <2>5. /\ Releasing(s) /\ ~Releasing(s)' /\ ~Releasing(w) /\ ~Releasing(w)'
        /\ \A v \in Workers \ {s} : Releasing(v)' = Releasing(v)
    BY <2>1, <2>3 DEF Releasing
  <2>6. \A v \in Workers : Releasing(v) => conn[v] # NoConn /\ (conn[v] = conn[s] => v = s)
    BY <2>1 DEF Releasing, Attached, OneHolder, Holders
  <2>7. Head(dbconns) \notin Returning
    BY <2>2, <2>6 DEF Returning, OneHolder, Holders, Elements
  <2>8. /\ conn[s] \in Returning /\ Returning' = Returning \ {conn[s]}
        /\ conn[s] # Head(dbconns)
    BY <2>3, <2>5, <2>6, <2>7 DEF Returning
  <2>9. Leases' = [Leases EXCEPT ![w] = Head(dbconns)] /\ Leases[w] = NoConn
    BY <2>3, <2>5 DEF Leases
  <2>10. (Elements(dbconns) \cup Returning)'
         = (Elements(dbconns) \cup Returning) \ {Head(dbconns)}
    BY <2>4, <2>7, <2>8
  <2> QED
    BY <2>2, <2>9, <2>10, TakesFree
\* Straight from the goroutine that gives it up.
<1>4. ASSUME NEW w \in Workers, SendToReceiver(w) PROVE \E r \in Workers : Lease!Take(r)
  <2>0. PICK r \in Workers : r = Head(recvq)
    BY <1>4, HeadAndTail DEF SendToReceiver
  <2>1. /\ pc[r] = "waiting" /\ conn[r] = NoConn
        /\ pc[w] = "send" /\ conn[w] # NoConn /\ r # w
    <3>1. pc[r] = "waiting"
        BY <1>4, <2>0, HeadAndTail DEF SendToReceiver, Queued
    <3>2. pc[w] = "send"
        BY <1>4 DEF SendToReceiver, At
    <3> QED
        BY <3>1, <3>2 DEF Attached
  <2>2. /\ conn' = [conn EXCEPT ![r] = conn[w], ![w] = NoConn]
        /\ pc' = [pc EXCEPT ![r] = "count", ![w] = "idle"]
        /\ dbconns' = dbconns
    BY <1>4, <2>0 DEF SendToReceiver
  <2>3. /\ Releasing(w) /\ ~Releasing(w)' /\ ~Releasing(r) /\ ~Releasing(r)'
        /\ \A v \in Workers \ {w} : Releasing(v)' = Releasing(v)
    BY <2>1, <2>2 DEF Releasing
  <2>4. \A v \in Workers : Releasing(v) => (conn[v] = conn[w] => v = w)
    BY <2>1 DEF OneHolder, Holders
  <2>5. /\ conn[w] \in Returning /\ Returning' = Returning \ {conn[w]}
        /\ conn[w] \notin Elements(dbconns) /\ Elements(dbconns)' = Elements(dbconns)
    <3>1. Returning' = Returning \ {conn[w]}
        BY <2>2, <2>3, <2>4 DEF Returning
    <3>2. conn[w] \in Returning
        BY <2>3 DEF Returning
    <3> QED
        BY <2>1, <2>2, <3>1, <3>2 DEF OneHolder, Holders, Elements
  <2>6. Leases' = [Leases EXCEPT ![r] = conn[w]] /\ Leases[r] = NoConn
    BY <2>1, <2>2, <2>3 DEF Leases
  <2>7. (Elements(dbconns) \cup Returning)'
        = (Elements(dbconns) \cup Returning) \ {conn[w]}
    BY <2>5
  <2> QED
    BY <2>5, <2>6, <2>7, TakesFree
\* The connection's way into the channel changes nothing: it has been free.
<1>5. ASSUME NEW w \in Workers, SendBuffers(w) PROVE UNCHANGED Lease!vars
  <2>1. pc[w] = "send" /\ conn[w] \in Nat \ {NoConn}
    BY <1>5 DEF SendBuffers, Attached, At
  <2>2. /\ dbconns' = Append(dbconns, conn[w])
        /\ conn' = [conn EXCEPT ![w] = NoConn]
        /\ pc' = [pc EXCEPT ![w] = "idle"]
    BY <1>5 DEF SendBuffers, Goto
  <2>3. Elements(dbconns)' = Elements(dbconns) \cup {conn[w]}
    <3>1. Elements(Append(dbconns, conn[w])) = Elements(dbconns) \cup {conn[w]}
        BY <2>1, ElementsOfAppend
    <3>2. Elements(dbconns)' = Elements(Append(dbconns, conn[w]))
        BY <2>2 DEF Elements
    <3> QED
        BY <3>1, <3>2
  <2>4. /\ Releasing(w) /\ ~Releasing(w)'
        /\ \A v \in Workers \ {w} : Releasing(v)' = Releasing(v)
    BY <2>1, <2>2 DEF Releasing
  <2>5. \A v \in Workers : Releasing(v) => (conn[v] = conn[w] => v = w)
    BY <2>1 DEF OneHolder, Holders
  <2>6. conn[w] \in Returning /\ Returning' = Returning \ {conn[w]}
    BY <2>2, <2>4, <2>5 DEF Returning
  <2>7. Leases' = Leases
    BY <2>2, <2>4 DEF Leases
  <2> QED
    BY <2>3, <2>6, <2>7 DEF Lease!vars, Elements, Returning, Leases
\* The lease ends when Release begins.
<1>6. ASSUME NEW w \in Workers, Discount(w) PROVE Lease!Give(w)
  <2>1. /\ pc[w] = "holding" /\ conn[w] # NoConn
        /\ UNCHANGED <<conn, dbconns>>
        /\ pc' = [pc EXCEPT ![w] = "send"]
    BY <1>6 DEF Discount, At, Goto, Attached
  <2>2. /\ ~Releasing(w) /\ Releasing(w)'
        /\ \A v \in Workers \ {w} : Releasing(v)' = Releasing(v)
    BY <2>1 DEF Releasing
  <2>3. Returning' = Returning \cup {conn[w]} /\ Elements(dbconns)' = Elements(dbconns)
    BY <2>1, <2>2 DEF Returning, Elements
  <2>4. Leases' = [Leases EXCEPT ![w] = NoConn] /\ Leases[w] = conn[w]
    BY <2>1, <2>2 DEF Leases
  <2> QED
    BY <2>1, <2>3, <2>4 DEF Lease!Give, Elements, Returning, Leases
<1>7. ASSUME NEW w \in Workers, ConnectFails(w) PROVE Lease!Exit
    BY <1>7 DEF ConnectFails, Lease!Exit, Releasing
<1>8. CASE Start \/ UNCHANGED vars
  <2>1. UNCHANGED <<dbconns, conn>> /\ \A v \in Workers : Releasing(v)' = Releasing(v)
    BY <1>8 DEF Start, vars, Goto, Releasing, InPhase
  <2> QED
    BY <2>1, SameReleases
<1> QED
  <2> HIDE DEF Shape, TypeOK
  <2> QED
    BY <1>0, <1>1, <1>2, <1>3, <1>4, <1>5, <1>6, <1>7, <1>8
       DEF Next, GetDBConn, Release, Lease!Next

\* Handlers may take the pool for a set of leases: a connection is with one of
\* them until it gives it up, none is closed, and there are no more than handlers.
THEOREM PoolImplementsLease == Spec => ImplementsLease
<1>1. Spec => Lease!Spec
    BY LeaseInitially, LeaseStep, ShapeAlways, OneHolderAlways,
       OpenedWithinHandlersAlways, PTL DEF Spec, Lease!Spec
<1> QED
    BY <1>1 DEF ImplementsLease

=============================================================================
