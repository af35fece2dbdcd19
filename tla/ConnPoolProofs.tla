---------------------------- MODULE ConnPoolProofs ----------------------------
(***************************************************************************)
(* Proofs that the pool of ConnPool.tla keeps its invariants for every set *)
(* of handlers and every capacity.                                         *)
(***************************************************************************)
EXTENDS ConnPool, FiniteSetTheorems, SequenceTheorems, TLAPS

-----------------------------------------------------------------------------
\* The inductive invariant.

\* A goroutine has a connection exactly between getting it and being rid of it.
Attached == \A w \in Workers :
    conn[w] # NoConn <=> pc[w] \in {"count", "holding", "send", "sending"}

\* The number of the next connection is not yet in use.
Numbered == /\ \A w \in Workers : conn[w] <= opened
            /\ \A i \in DOMAIN dbconns : dbconns[i] <= opened

\* The channel's queues hold the parked goroutines, each once.
Queued ==
    /\ \A i \in DOMAIN recvq : pc[recvq[i]] = "waiting"
    /\ \A i \in DOMAIN sendq : pc[sendq[i]] = "sending"
    /\ \A i, j \in DOMAIN recvq : recvq[i] = recvq[j] => i = j
    /\ \A i, j \in DOMAIN sendq : sendq[i] = sendq[j] => i = j

\* Nobody runs before Start, and no handler until Main is done.
InPhase ==
    /\ phase = "down" => \A w \in Workers : pc[w] = "idle"
    /\ phase = "starting" => \A w \in Handlers : pc[w] = "idle"
    /\ phase = "serving" => pc[Main] = "idle"

Shape == TypeOK /\ Attached /\ Numbered /\ Queued /\ InPhase

-----------------------------------------------------------------------------
\* The first element of a queue and what is left of it.
LEMMA HeadAndTail ==
    ASSUME NEW S, NEW q \in Seq(S), q # << >>
    PROVE  /\ 1 \in DOMAIN q /\ Head(q) = q[1] /\ Head(q) \in S
           /\ Tail(q) \in Seq(S) /\ Len(Tail(q)) = Len(q) - 1
           /\ \A i \in DOMAIN Tail(q) : i + 1 \in DOMAIN q /\ Tail(q)[i] = q[i + 1]
OBVIOUS

\* A queue with an element more.
LEMMA Appended ==
    ASSUME NEW S, NEW q \in Seq(S), NEW e \in S
    PROVE  /\ Append(q, e) \in Seq(S) /\ Len(Append(q, e)) = Len(q) + 1
           /\ DOMAIN Append(q, e) = DOMAIN q \cup {Len(q) + 1}
           /\ Append(q, e)[Len(q) + 1] = e
           /\ \A i \in DOMAIN q : Append(q, e)[i] = q[i]
OBVIOUS

-----------------------------------------------------------------------------
\* Every variable keeps its type; no goroutine puts "no connection" in the pool.
LEMMA TypeStep == TypeOK /\ Attached /\ Queued /\ [Next]_vars => TypeOK'
<1> SUFFICES ASSUME TypeOK, Attached, Queued, [Next]_vars PROVE TypeOK'
    OBVIOUS
<1> USE DEF TypeOK, Attached, Queued, Labels, NoConn
<1>1. CASE Start
    BY <1>1 DEF Start, Goto
<1>2. ASSUME NEW w \in Workers, Call(w) PROVE TypeOK'
    BY <1>2 DEF Call, At, Goto
<1>3. ASSUME NEW w \in Workers, CheckLen(w) PROVE TypeOK'
    BY <1>3 DEF CheckLen, At, Goto
<1>4. ASSUME NEW w \in Workers, CheckInUse(w) PROVE TypeOK'
    BY <1>4 DEF CheckInUse, At, Goto
<1>5. ASSUME NEW w \in Workers, Reserve(w) PROVE TypeOK'
    BY <1>5 DEF Reserve, At, Goto
<1>6. ASSUME NEW w \in Workers, Connect(w) PROVE TypeOK'
    BY <1>6 DEF Connect, At, Goto
<1>7. ASSUME NEW w \in Workers, ConnectFails(w) PROVE TypeOK'
    BY <1>7 DEF ConnectFails, At
<1>8. ASSUME NEW w \in Workers, Receive(w) PROVE TypeOK'
    BY <1>8 DEF Receive, At, Goto
<1>9. ASSUME NEW w \in Workers, ReceiveUnparks(w) PROVE TypeOK'
    <2> DEFINE s == Head(sendq)
    <2>1. s \in Workers /\ pc[s] = "sending" /\ conn[s] \in Nat \ {NoConn}
        BY <1>9, HeadAndTail DEF ReceiveUnparks
    <2>2. /\ dbconns' = Append(Tail(dbconns), conn[s])
          /\ conn' = [conn EXCEPT ![w] = Head(dbconns), ![s] = NoConn]
          /\ pc' = [pc EXCEPT ![w] = "count", ![s] = "idle"]
          /\ sendq' = Tail(sendq)
          /\ UNCHANGED <<dbconns_inuse, recvq, opened, phase>>
        BY <1>9 DEF ReceiveUnparks
    <2>3. Tail(dbconns) \in Seq(Nat \ {NoConn}) /\ Tail(sendq) \in Seq(Workers)
        BY <1>9, HeadAndTail DEF ReceiveUnparks
    <2>4. Head(dbconns) \in Nat
        BY <1>9, HeadAndTail DEF ReceiveUnparks
    <2> HIDE DEF s
    <2>5. dbconns' \in Seq(Nat \ {NoConn})
        BY <2>1, <2>2, <2>3, Appended
    <2>6. conn' \in [Workers -> Nat] /\ pc' \in [Workers -> Labels]
        BY <2>1, <2>2, <2>4
    <2> QED
        BY <2>2, <2>3, <2>5, <2>6
<1>10. ASSUME NEW w \in Workers, ReceiveParks(w) PROVE TypeOK'
    BY <1>10 DEF ReceiveParks, At, Goto
<1>11. ASSUME NEW w \in Workers, Count(w) PROVE TypeOK'
    BY <1>11 DEF Count, At, Goto
<1>12. ASSUME NEW w \in Workers, Discount(w) PROVE TypeOK'
    BY <1>12 DEF Discount, At, Goto
<1>13. ASSUME NEW w \in Workers, SendToReceiver(w) PROVE TypeOK'
    <2> DEFINE r == Head(recvq)
    <2>1. r \in Workers /\ conn[w] \in Nat /\ Tail(recvq) \in Seq(Workers)
        BY <1>13, HeadAndTail DEF SendToReceiver
    <2>2. /\ conn' = [conn EXCEPT ![r] = conn[w], ![w] = NoConn]
          /\ pc' = [pc EXCEPT ![r] = "count", ![w] = "idle"]
          /\ recvq' = Tail(recvq)
          /\ phase' \in {phase, "serving"}
          /\ UNCHANGED <<dbconns, dbconns_inuse, sendq, opened>>
        BY <1>13 DEF SendToReceiver, PhaseAfter
    <2> HIDE DEF r
    <2> QED
        BY <2>1, <2>2
<1>14. ASSUME NEW w \in Workers, SendBuffers(w) PROVE TypeOK'
    BY <1>14 DEF SendBuffers, At, Goto, PhaseAfter
<1>15. ASSUME NEW w \in Workers, SendParks(w) PROVE TypeOK'
    BY <1>15 DEF SendParks, At, Goto
<1>16. CASE UNCHANGED vars
    BY <1>16 DEF vars
<1> QED
    BY <1>1, <1>2, <1>3, <1>4, <1>5, <1>6, <1>7, <1>8, <1>9, <1>10, <1>11, <1>12, <1>13, <1>14, <1>15, <1>16 DEF Next, GetDBConn, Release

\* Goroutines get and lose connections where they should.
LEMMA AttachedStep == TypeOK /\ Attached /\ Queued /\ InPhase /\ [Next]_vars => Attached'
<1> SUFFICES ASSUME TypeOK, Attached, Queued, InPhase, [Next]_vars PROVE Attached'
    OBVIOUS
<1> USE DEF TypeOK, Attached, Queued, InPhase, Labels, NoConn, Workers
<1>1. CASE Start
    BY <1>1 DEF Start, Goto
<1>2. ASSUME NEW w \in Workers, Call(w) PROVE Attached'
    BY <1>2 DEF Call, At, Goto
<1>3. ASSUME NEW w \in Workers, CheckLen(w) PROVE Attached'
    BY <1>3 DEF CheckLen, At, Goto
<1>4. ASSUME NEW w \in Workers, CheckInUse(w) PROVE Attached'
    BY <1>4 DEF CheckInUse, At, Goto
<1>5. ASSUME NEW w \in Workers, Reserve(w) PROVE Attached'
    BY <1>5 DEF Reserve, At, Goto
<1>6. ASSUME NEW w \in Workers, Connect(w) PROVE Attached'
    BY <1>6 DEF Connect, At, Goto
<1>7. ASSUME NEW w \in Workers, ConnectFails(w) PROVE Attached'
    BY <1>7 DEF ConnectFails, At
<1>8. ASSUME NEW w \in Workers, Receive(w) PROVE Attached'
    BY <1>8 DEF Receive, At, Goto
<1>9. ASSUME NEW w \in Workers, ReceiveUnparks(w) PROVE Attached'
    <2>1. Head(sendq) \in Workers /\ pc[Head(sendq)] = "sending" /\ pc[w] = "receive"
        BY <1>9, HeadAndTail DEF ReceiveUnparks, At
    <2>2. Head(dbconns) \in Nat \ {NoConn}
        BY <1>9, HeadAndTail DEF ReceiveUnparks
    <2>3. /\ conn' = [conn EXCEPT ![w] = Head(dbconns), ![Head(sendq)] = NoConn]
          /\ pc' = [pc EXCEPT ![w] = "count", ![Head(sendq)] = "idle"]
        BY <1>9 DEF ReceiveUnparks
    <2> QED
        BY <2>1, <2>2, <2>3
<1>10. ASSUME NEW w \in Workers, ReceiveParks(w) PROVE Attached'
    BY <1>10 DEF ReceiveParks, At, Goto
<1>11. ASSUME NEW w \in Workers, Count(w) PROVE Attached'
    BY <1>11 DEF Count, At, Goto
<1>12. ASSUME NEW w \in Workers, Discount(w) PROVE Attached'
    BY <1>12 DEF Discount, At, Goto
<1>13. ASSUME NEW w \in Workers, SendToReceiver(w) PROVE Attached'
    <2>1. Head(recvq) \in Workers /\ pc[Head(recvq)] = "waiting" /\ pc[w] = "send"
        BY <1>13, HeadAndTail DEF SendToReceiver, At
    <2>2. /\ conn' = [conn EXCEPT ![Head(recvq)] = conn[w], ![w] = NoConn]
          /\ pc' = [pc EXCEPT ![Head(recvq)] = "count", ![w] = "idle"]
        BY <1>13 DEF SendToReceiver
    <2> QED
        BY <2>1, <2>2
<1>14. ASSUME NEW w \in Workers, SendBuffers(w) PROVE Attached'
    BY <1>14 DEF SendBuffers, At, Goto, PhaseAfter
<1>15. ASSUME NEW w \in Workers, SendParks(w) PROVE Attached'
    BY <1>15 DEF SendParks, At, Goto
<1>16. CASE UNCHANGED vars
    BY <1>16 DEF vars
<1> QED
    BY <1>1, <1>2, <1>3, <1>4, <1>5, <1>6, <1>7, <1>8, <1>9, <1>10, <1>11, <1>12, <1>13, <1>14, <1>15, <1>16 DEF Next, GetDBConn, Release

\* No number runs ahead of the counter of opened connections.
LEMMA NumberedStep == TypeOK /\ Queued /\ Numbered /\ [Next]_vars => Numbered'
<1> SUFFICES ASSUME TypeOK, Queued, Numbered, [Next]_vars PROVE Numbered'
    OBVIOUS
<1> USE DEF TypeOK, Queued, Numbered, Labels, NoConn
<1>1. CASE Start
    BY <1>1 DEF Start, Goto
<1>2. ASSUME NEW w \in Workers, Call(w) PROVE Numbered'
    BY <1>2 DEF Call, At, Goto
<1>3. ASSUME NEW w \in Workers, CheckLen(w) PROVE Numbered'
    BY <1>3 DEF CheckLen, At, Goto
<1>4. ASSUME NEW w \in Workers, CheckInUse(w) PROVE Numbered'
    BY <1>4 DEF CheckInUse, At, Goto
<1>5. ASSUME NEW w \in Workers, Reserve(w) PROVE Numbered'
    BY <1>5 DEF Reserve, At, Goto
<1>6. ASSUME NEW w \in Workers, Connect(w) PROVE Numbered'
    BY <1>6 DEF Connect, At, Goto
<1>7. ASSUME NEW w \in Workers, ConnectFails(w) PROVE Numbered'
    BY <1>7 DEF ConnectFails, At
<1>8. ASSUME NEW w \in Workers, Receive(w) PROVE Numbered'
    BY <1>8 DEF Receive, At, Goto
<1>9. ASSUME NEW w \in Workers, ReceiveUnparks(w) PROVE Numbered'
    <2> DEFINE s == Head(sendq)
    <2>1. s \in Workers /\ pc[s] = "sending" /\ conn[s] \in Nat
        BY <1>9, HeadAndTail DEF ReceiveUnparks
    <2>2. /\ dbconns' = Append(Tail(dbconns), conn[s])
          /\ conn' = [conn EXCEPT ![w] = Head(dbconns), ![s] = NoConn]
          /\ pc' = [pc EXCEPT ![w] = "count", ![s] = "idle"]
          /\ sendq' = Tail(sendq)
          /\ UNCHANGED <<dbconns_inuse, recvq, opened, phase>>
        BY <1>9 DEF ReceiveUnparks
    <2>3. Tail(dbconns) \in Seq(Nat \ {NoConn}) /\ Tail(sendq) \in Seq(Workers)
        BY <1>9, HeadAndTail DEF ReceiveUnparks
    <2>4. Head(dbconns) \in Nat
        BY <1>9, HeadAndTail DEF ReceiveUnparks
    <2> HIDE DEF s
    <2>5. \A i \in DOMAIN dbconns' : dbconns'[i] <= opened'
      <3>1. \A i \in DOMAIN Tail(dbconns) : Tail(dbconns)[i] <= opened
        BY <1>9, HeadAndTail DEF ReceiveUnparks
      <3>2. conn[s] <= opened
        BY <2>1
      <3> QED
        BY <2>1, <2>2, <2>3, <3>1, <3>2
    <2>6. Head(dbconns) <= opened
        BY <1>9, HeadAndTail DEF ReceiveUnparks
    <2>7. ASSUME NEW v \in Workers PROVE conn'[v] <= opened'
      <3>1. conn'[v] \in {conn[v], Head(dbconns), NoConn}
        BY <2>2
      <3> QED
        BY <2>2, <2>4, <2>6, <3>1
    <2> QED
        BY <2>5, <2>7
<1>10. ASSUME NEW w \in Workers, ReceiveParks(w) PROVE Numbered'
    BY <1>10 DEF ReceiveParks, At, Goto
<1>11. ASSUME NEW w \in Workers, Count(w) PROVE Numbered'
    BY <1>11 DEF Count, At, Goto
<1>12. ASSUME NEW w \in Workers, Discount(w) PROVE Numbered'
    BY <1>12 DEF Discount, At, Goto
<1>13. ASSUME NEW w \in Workers, SendToReceiver(w) PROVE Numbered'
    <2>1. /\ conn' = [conn EXCEPT ![Head(recvq)] = conn[w], ![w] = NoConn]
          /\ UNCHANGED <<dbconns, opened>>
        BY <1>13 DEF SendToReceiver
    <2>2. ASSUME NEW v \in Workers PROVE conn'[v] <= opened'
      <3>1. conn'[v] \in {conn[v], conn[w], NoConn}
        BY <2>1
      <3> QED
        BY <2>1, <3>1
    <2> QED
        BY <2>1, <2>2
<1>14. ASSUME NEW w \in Workers, SendBuffers(w) PROVE Numbered'
    BY <1>14 DEF SendBuffers, At, Goto, PhaseAfter
<1>15. ASSUME NEW w \in Workers, SendParks(w) PROVE Numbered'
    BY <1>15 DEF SendParks, At, Goto
<1>16. CASE UNCHANGED vars
    BY <1>16 DEF vars
<1> QED
    BY <1>1, <1>2, <1>3, <1>4, <1>5, <1>6, <1>7, <1>8, <1>9, <1>10, <1>11, <1>12, <1>13, <1>14, <1>15, <1>16 DEF Next, GetDBConn, Release

\* The queues stay exact.
LEMMA QueuedStep == TypeOK /\ Queued /\ InPhase /\ [Next]_vars => Queued'
<1> SUFFICES ASSUME TypeOK, Queued, InPhase, [Next]_vars PROVE Queued'
    OBVIOUS
<1> USE DEF TypeOK, Queued, InPhase, Labels, NoConn, Workers
<1>1. CASE Start
    BY <1>1 DEF Start, Goto
<1>2. ASSUME NEW w \in Workers, Call(w) PROVE Queued'
    BY <1>2 DEF Call, At, Goto
<1>3. ASSUME NEW w \in Workers, CheckLen(w) PROVE Queued'
    BY <1>3 DEF CheckLen, At, Goto
<1>4. ASSUME NEW w \in Workers, CheckInUse(w) PROVE Queued'
    BY <1>4 DEF CheckInUse, At, Goto
<1>5. ASSUME NEW w \in Workers, Reserve(w) PROVE Queued'
    BY <1>5 DEF Reserve, At, Goto
<1>6. ASSUME NEW w \in Workers, Connect(w) PROVE Queued'
    BY <1>6 DEF Connect, At, Goto
<1>7. ASSUME NEW w \in Workers, ConnectFails(w) PROVE Queued'
    BY <1>7 DEF ConnectFails, At
<1>8. ASSUME NEW w \in Workers, Receive(w) PROVE Queued'
    BY <1>8 DEF Receive, At, Goto
<1>9. ASSUME NEW w \in Workers, ReceiveUnparks(w) PROVE Queued'
    <2>1. /\ Head(sendq) \in Workers /\ pc[Head(sendq)] = "sending"
          /\ pc' = [pc EXCEPT ![w] = "count", ![Head(sendq)] = "idle"]
          /\ sendq' = Tail(sendq) /\ recvq' = recvq /\ pc[w] = "receive"
        BY <1>9, HeadAndTail DEF ReceiveUnparks, At
    <2>2. \A i \in DOMAIN Tail(sendq) :
             /\ i + 1 \in DOMAIN sendq
             /\ Tail(sendq)[i] = sendq[i + 1]
             /\ Tail(sendq)[i] \in Workers
             /\ Tail(sendq)[i] # Head(sendq)
        BY <1>9, HeadAndTail DEF ReceiveUnparks
    <2>3. \A i \in DOMAIN sendq' : pc'[sendq'[i]] = "sending"
        BY <2>1, <2>2
    <2>4. \A i \in DOMAIN recvq' : pc'[recvq'[i]] = "waiting"
        BY <2>1
    <2>5. \A i, j \in DOMAIN sendq' : sendq'[i] = sendq'[j] => i = j
        BY <2>1, <2>2
    <2> QED
        BY <2>1, <2>3, <2>4, <2>5
<1>10. ASSUME NEW w \in Workers, ReceiveParks(w) PROVE Queued'
    BY <1>10 DEF ReceiveParks, At, Goto
<1>11. ASSUME NEW w \in Workers, Count(w) PROVE Queued'
    BY <1>11 DEF Count, At, Goto
<1>12. ASSUME NEW w \in Workers, Discount(w) PROVE Queued'
    BY <1>12 DEF Discount, At, Goto
<1>13. ASSUME NEW w \in Workers, SendToReceiver(w) PROVE Queued'
    BY <1>13 DEF SendToReceiver, At, PhaseAfter
<1>14. ASSUME NEW w \in Workers, SendBuffers(w) PROVE Queued'
    BY <1>14 DEF SendBuffers, At, Goto, PhaseAfter
<1>15. ASSUME NEW w \in Workers, SendParks(w) PROVE Queued'
    BY <1>15 DEF SendParks, At, Goto
<1>16. CASE UNCHANGED vars
    BY <1>16 DEF vars
<1> QED
    BY <1>1, <1>2, <1>3, <1>4, <1>5, <1>6, <1>7, <1>8, <1>9, <1>10, <1>11, <1>12, <1>13, <1>14, <1>15, <1>16 DEF Next, GetDBConn, Release

\* The phases are kept apart.
LEMMA InPhaseStep == TypeOK /\ Queued /\ InPhase /\ [Next]_vars => InPhase'
<1> SUFFICES ASSUME TypeOK, Queued, InPhase, [Next]_vars PROVE InPhase'
    OBVIOUS
<1> USE HandlersAssumption DEF TypeOK, Queued, InPhase, Labels, NoConn, Workers
<1>1. CASE Start
    BY <1>1 DEF Start, Goto
<1>2. ASSUME NEW w \in Workers, Call(w) PROVE InPhase'
    BY <1>2 DEF Call, At, Goto
<1>3. ASSUME NEW w \in Workers, CheckLen(w) PROVE InPhase'
    BY <1>3 DEF CheckLen, At, Goto
<1>4. ASSUME NEW w \in Workers, CheckInUse(w) PROVE InPhase'
    BY <1>4 DEF CheckInUse, At, Goto
<1>5. ASSUME NEW w \in Workers, Reserve(w) PROVE InPhase'
    BY <1>5 DEF Reserve, At, Goto
<1>6. ASSUME NEW w \in Workers, Connect(w) PROVE InPhase'
    BY <1>6 DEF Connect, At, Goto
<1>7. ASSUME NEW w \in Workers, ConnectFails(w) PROVE InPhase'
    BY <1>7 DEF ConnectFails, At
<1>8. ASSUME NEW w \in Workers, Receive(w) PROVE InPhase'
    BY <1>8 DEF Receive, At, Goto
<1>9. ASSUME NEW w \in Workers, ReceiveUnparks(w) PROVE InPhase'
    BY <1>9 DEF ReceiveUnparks, At
<1>10. ASSUME NEW w \in Workers, ReceiveParks(w) PROVE InPhase'
    BY <1>10 DEF ReceiveParks, At, Goto
<1>11. ASSUME NEW w \in Workers, Count(w) PROVE InPhase'
    BY <1>11 DEF Count, At, Goto
<1>12. ASSUME NEW w \in Workers, Discount(w) PROVE InPhase'
    BY <1>12 DEF Discount, At, Goto
<1>13. ASSUME NEW w \in Workers, SendToReceiver(w) PROVE InPhase'
    BY <1>13 DEF SendToReceiver, At, PhaseAfter
<1>14. ASSUME NEW w \in Workers, SendBuffers(w) PROVE InPhase'
    BY <1>14 DEF SendBuffers, At, Goto, PhaseAfter
<1>15. ASSUME NEW w \in Workers, SendParks(w) PROVE InPhase'
    BY <1>15 DEF SendParks, At, Goto
<1>16. CASE UNCHANGED vars
    BY <1>16 DEF vars
<1> QED
    BY <1>1, <1>2, <1>3, <1>4, <1>5, <1>6, <1>7, <1>8, <1>9, <1>10, <1>11, <1>12, <1>13, <1>14, <1>15, <1>16 DEF Next, GetDBConn, Release

-----------------------------------------------------------------------------
\* The steps that move no connection.
Unmoved == UNCHANGED <<dbconns, conn, opened>>

LEMMA StepsThatMoveNothing ==
    ASSUME NEW w \in Workers,
           \/ Call(w) \/ CheckLen(w) \/ CheckInUse(w) \/ Reserve(w)
           \/ ReceiveParks(w) \/ Count(w) \/ Discount(w) \/ SendParks(w)
    PROVE  Unmoved
BY DEF Unmoved, Call, CheckLen, CheckInUse, Reserve, ReceiveParks, Count,
       Discount, SendParks

\* No step puts a connection in two places.  It goes to a goroutine that had
\* none when it is new, or when it leaves the channel or the goroutine it was with.
LEMMA OneHolderStep == Shape /\ OneHolder /\ [Next]_vars => OneHolder'
<1> SUFFICES ASSUME Shape, OneHolder, [Next]_vars PROVE OneHolder'
    OBVIOUS
<1> USE DEF Shape, TypeOK, OneHolder, Holders, NoConn
<1>1. CASE Unmoved
    BY <1>1 DEF Unmoved
<1>2. ASSUME NEW w \in Workers, Connect(w) PROVE OneHolder'
    BY <1>2 DEF Connect, Numbered
<1>3. ASSUME NEW w \in Workers, ConnectFails(w) PROVE OneHolder'
    BY <1>3 DEF ConnectFails
<1>4. ASSUME NEW w \in Workers, Receive(w) PROVE OneHolder'
    <2>1. /\ 1 \in DOMAIN dbconns /\ Head(dbconns) = dbconns[1]
          /\ \A i \in DOMAIN Tail(dbconns) :
                /\ i \in Nat \ {0} /\ i + 1 \in DOMAIN dbconns
                /\ Tail(dbconns)[i] = dbconns[i + 1]
        BY <1>4, HeadAndTail DEF Receive
    <2>2. /\ dbconns' = Tail(dbconns)
          /\ conn' = [conn EXCEPT ![w] = Head(dbconns)]
        BY <1>4 DEF Receive
    <2>3. /\ \A v \in Workers : v # w => conn'[v] = conn[v]
          /\ conn'[w] = dbconns[1]
        BY <2>1, <2>2
    <2>4. \A v \in Holders' : v = w \/ (v \in Holders /\ conn'[v] = conn[v])
        BY <2>3
    <2>5. /\ \A v \in Holders : conn[v] # dbconns[1]
          /\ \A i \in DOMAIN Tail(dbconns) : \A v \in Holders : Tail(dbconns)[i] # conn[v]
          /\ \A i \in DOMAIN Tail(dbconns) : Tail(dbconns)[i] # dbconns[1]
          /\ \A u, v \in Holders : conn[u] = conn[v] => u = v
        BY <2>1
    <2>6. ASSUME NEW u \in Holders', NEW v \in Holders', conn'[u] = conn'[v]
          PROVE  u = v
      <3>1. CASE u = w \/ v = w
        BY <2>3, <2>4, <2>5, <2>6, <3>1
      <3>2. CASE u # w /\ v # w
        BY <2>4, <2>5, <2>6, <3>2
      <3> QED
        BY <3>1, <3>2
    <2>7. \A i, j \in DOMAIN dbconns' : dbconns'[i] = dbconns'[j] => i = j
        BY <2>1, <2>2
    <2>8. ASSUME NEW v \in Holders', NEW i \in DOMAIN dbconns'
          PROVE  conn'[v] # dbconns'[i]
      <3>1. CASE v = w
        BY <2>2, <2>3, <2>5, <3>1
      <3>2. CASE v # w
        BY <2>2, <2>4, <2>5, <3>2
      <3> QED
        BY <3>1, <3>2
    <2> QED
        BY <2>6, <2>7, <2>8
<1>5. ASSUME NEW w \in Workers, ReceiveUnparks(w) PROVE OneHolder'
    <2> DEFINE s == Head(sendq)
               rest == Tail(dbconns)
    <2>1. /\ 1 \in DOMAIN dbconns /\ Head(dbconns) = dbconns[1]
          /\ Head(dbconns) \in Nat \ {NoConn}
          /\ rest \in Seq(Nat \ {NoConn})
          /\ \A i \in DOMAIN rest :
                /\ i \in Nat \ {0} /\ i + 1 \in DOMAIN dbconns
                /\ rest[i] = dbconns[i + 1]
        BY <1>5, HeadAndTail DEF ReceiveUnparks
    <2>2. s \in Workers /\ conn[s] \in Nat \ {NoConn} /\ s # w
        BY <1>5, HeadAndTail DEF ReceiveUnparks, Attached, Queued, At
    <2>3. /\ dbconns' = Append(rest, conn[s])
          /\ conn' = [conn EXCEPT ![w] = Head(dbconns), ![s] = NoConn]
        BY <1>5 DEF ReceiveUnparks
    <2> HIDE DEF s, rest
    <2>4. /\ DOMAIN dbconns' = DOMAIN rest \cup {Len(rest) + 1}
          /\ dbconns'[Len(rest) + 1] = conn[s]
          /\ \A i \in DOMAIN rest : dbconns'[i] = rest[i]
        BY <2>1, <2>2, <2>3, Appended
    <2>5. \A i, j \in DOMAIN rest : rest[i] = rest[j] => i = j
        BY <2>1
    <2>6. /\ \A i \in DOMAIN rest : rest[i] # dbconns[1]
          /\ \A i \in DOMAIN rest : \A v \in Holders : rest[i] # conn[v]
          /\ \A v \in Holders : conn[v] # dbconns[1]
        BY <2>1
    <2>7. s \in Holders
        BY <2>2
    <2>8. /\ \A v \in Workers \ {w, s} : conn'[v] = conn[v]
          /\ conn'[s] = NoConn /\ conn'[w] = dbconns[1]
        BY <2>1, <2>2, <2>3
    <2>9. \A v \in Holders' : v = w \/ (v \in Holders /\ v # s /\ conn'[v] = conn[v])
        BY <2>8
    <2>10. \A i, j \in DOMAIN dbconns' : dbconns'[i] = dbconns'[j] => i = j
      <3>1. \A i \in DOMAIN rest : rest[i] # conn[s]
        BY <2>6, <2>7
      <3> QED
        BY <2>4, <2>5, <3>1
    <2>11. ASSUME NEW v \in Holders', NEW i \in DOMAIN dbconns'
           PROVE  conn'[v] # dbconns'[i]
      <3>1. dbconns'[i] = conn[s] \/ \E j \in DOMAIN rest : dbconns'[i] = rest[j]
        BY <2>4
      <3>2. CASE v = w
        BY <2>6, <2>7, <2>8, <3>1, <3>2
      <3>3. CASE v # w
        <4>1. v \in Holders /\ v # s /\ conn'[v] = conn[v]
            BY <2>9, <3>3
        <4>2. conn[v] # conn[s]
            BY <2>7, <4>1
        <4> QED
            BY <2>6, <3>1, <4>1, <4>2
      <3> QED
        BY <3>2, <3>3
    <2>12. \A u, v \in Holders' : conn'[u] = conn'[v] => u = v
        BY <2>6, <2>8, <2>9
    <2> QED
        BY <2>10, <2>11, <2>12
<1>6. ASSUME NEW w \in Workers, SendToReceiver(w) PROVE OneHolder'
    <2> DEFINE r == Head(recvq)
    <2>1. r \in Workers /\ conn[r] = NoConn /\ conn[w] # NoConn
        BY <1>6, HeadAndTail DEF SendToReceiver, Attached, Queued, At
    <2>2. /\ conn' = [conn EXCEPT ![r] = conn[w], ![w] = NoConn]
          /\ dbconns' = dbconns
        BY <1>6 DEF SendToReceiver
    <2> HIDE DEF r
    <2> QED
        BY <2>1, <2>2
<1>7. ASSUME NEW w \in Workers, SendBuffers(w) PROVE OneHolder'
    <2>1. conn[w] \in Nat \ {NoConn}
        BY <1>7 DEF SendBuffers, Attached, At
    <2>2. /\ dbconns' = Append(dbconns, conn[w])
          /\ conn' = [conn EXCEPT ![w] = NoConn]
        BY <1>7 DEF SendBuffers
    <2> QED
        BY <2>1, <2>2, Appended
<1>8. CASE Start \/ UNCHANGED vars
    BY <1>1, <1>8 DEF Start, vars, Unmoved
<1> QED
    BY <1>1, <1>2, <1>3, <1>4, <1>5, <1>6, <1>7, <1>8, StepsThatMoveNothing
       DEF Next, GetDBConn, Release

-----------------------------------------------------------------------------
LEMMA ShapeInitially == Init => Shape /\ OneHolder
BY DEF Init, Shape, TypeOK, Labels, Attached, Numbered, Queued, InPhase,
       OneHolder, Holders, NoConn

LEMMA ShapeStep == Shape /\ [Next]_vars => Shape'
BY TypeStep, AttachedStep, NumberedStep, QueuedStep, InPhaseStep DEF Shape

\* The shape of the pool is an invariant.
THEOREM ShapeAlways == Spec => []Shape
BY ShapeInitially, ShapeStep, PTL DEF Spec

\* Every variable keeps its type, whatever the interleaving: in particular no
\* "no connection" is ever in the pool.
THEOREM TypeAlways == Spec => []TypeOK
<1>1. Shape => TypeOK
    BY DEF Shape
<1> QED
    BY <1>1, ShapeAlways, PTL

\* No two handlers ever share a connection, and none uses one that is in the
\* pool, for any number of handlers and any capacity.
THEOREM OneHolderAlways == Spec => []OneHolder
BY ShapeInitially, ShapeAlways, OneHolderStep, PTL DEF Spec

-----------------------------------------------------------------------------
\* A maximum of 0.

\* Nobody but Main runs, and it finds nothing to receive and no leave to open.
NothingToHave ==
    /\ phase \in {"down", "starting"}
    /\ opened = 0 /\ dbconns = << >> /\ dbconns_inuse = 0
    /\ \A w \in Workers : pc[w] \in {"idle", "len", "inuse", "receive", "waiting"}

LEMMA NothingToHaveStep ==
    ASSUME MaxConns = 0, Shape, NothingToHave, [Next]_vars PROVE NothingToHave'
<1> USE DEF NothingToHave, Shape, TypeOK, At, Goto
<1>1. CASE Start
    BY <1>1 DEF Start
<1>2. ASSUME NEW w \in Workers, CheckLen(w) PROVE NothingToHave'
    BY <1>2 DEF CheckLen
<1>3. ASSUME NEW w \in Workers, CheckInUse(w) PROVE NothingToHave'
    BY <1>3 DEF CheckInUse
<1>4. ASSUME NEW w \in Workers, ReceiveParks(w) PROVE NothingToHave'
    BY <1>4 DEF ReceiveParks
<1>5. ASSUME NEW w \in Workers,
             \/ Call(w) \/ Reserve(w) \/ Connect(w) \/ ConnectFails(w) \/ Receive(w)
             \/ ReceiveUnparks(w) \/ Count(w) \/ Discount(w) \/ SendToReceiver(w)
             \/ SendBuffers(w) \/ SendParks(w)
      PROVE  FALSE
    BY <1>5 DEF Call, Reserve, Connect, ConnectFails, Receive, ReceiveUnparks, Count,
                Discount, SendToReceiver, SendBuffers, SendParks
<1>6. CASE UNCHANGED vars
    BY <1>6 DEF vars
<1> QED
    BY <1>1, <1>2, <1>3, <1>4, <1>5, <1>6 DEF Next, GetDBConn, Release

\* EVERDEEM_DB_MAX_CONNECTIONS=0 is accepted, and with it the server never serves:
\* it never even opens a connection, since NewServer waits in GetDBConn for one.
THEOREM ZeroNeverServes ==
    ASSUME MaxConns = 0
    PROVE  Spec => [](phase # "serving" /\ opened = 0)
<1>1. Init => NothingToHave
    BY DEF Init, NothingToHave
<1>2. Shape /\ NothingToHave /\ [Next]_vars => NothingToHave'
    BY NothingToHaveStep
<1>3. NothingToHave => phase # "serving" /\ opened = 0
    BY DEF NothingToHave
<1> QED
    BY <1>1, <1>2, <1>3, ShapeAlways, PTL DEF Spec

=============================================================================
