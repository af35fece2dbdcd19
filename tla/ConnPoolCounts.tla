---------------------------- MODULE ConnPoolCounts ----------------------------
(***************************************************************************)
(* Proofs of what the pool of ConnPool.tla counts, and of what follows     *)
(* from the counts: that no connection is lost, that the counter is exact, *)
(* how many connections are opened, and who can wait for whom.             *)
(***************************************************************************)
EXTENDS ConnPoolProofs

-----------------------------------------------------------------------------
\* The sets that are counted are finite.
LEMMA FinitelyMany ==
    ASSUME NEW S \in SUBSET Workers
    PROVE  IsFiniteSet(S) /\ Cardinality(S) \in Nat
<1>1. IsFiniteSet(Workers)
    BY HandlersAssumption, FS_AddElement DEF Workers
<1>2. IsFiniteSet(S)
    BY <1>1, FS_Subset
<1> QED
    BY <1>2, FS_CardinalityType

\* A goroutine more, a goroutine less, one for another.
LEMMA OneMore ==
    ASSUME NEW S \in SUBSET Workers, NEW w \in Workers, w \notin S
    PROVE  Cardinality(S \cup {w}) = Cardinality(S) + 1
BY FinitelyMany, FS_AddElement

LEMMA OneLess ==
    ASSUME NEW S \in SUBSET Workers, NEW w \in S
    PROVE  Cardinality(S \ {w}) = Cardinality(S) - 1
BY FinitelyMany, FS_RemoveElement

LEMMA OneForAnother ==
    ASSUME NEW S \in SUBSET Workers, NEW v \in S, NEW w \in Workers, w \notin S
    PROVE  Cardinality((S \cup {w}) \ {v}) = Cardinality(S)
<1>1. Cardinality(S \cup {w}) = Cardinality(S) + 1
    BY OneMore
<1>2. Cardinality((S \cup {w}) \ {v}) = Cardinality(S \cup {w}) - 1
    BY OneLess
<1> QED
    BY <1>1, <1>2, FinitelyMany

-----------------------------------------------------------------------------
\* No step loses a connection: it adds a holder with a connection that is new or
\* leaves the channel, takes away one whose connection goes to the channel, or
\* puts one holder in another's place.
LEMMA NoConnLostStep == Shape /\ NoConnLost /\ [Next]_vars => NoConnLost'
<1> SUFFICES ASSUME Shape, NoConnLost, [Next]_vars PROVE NoConnLost'
    OBVIOUS
<1> USE DEF Shape, TypeOK, NoConn
<1>0. Holders \in SUBSET Workers /\ Cardinality(Holders) \in Nat
    BY FinitelyMany DEF Holders
<1>1. CASE Unmoved
    BY <1>1 DEF Unmoved, NoConnLost, Holders
<1>2. ASSUME NEW w \in Workers, Connect(w) PROVE NoConnLost'
    <2>1. w \notin Holders
        BY <1>2 DEF Connect, At, Attached, Holders
    <2>2. /\ Holders' = Holders \cup {w}
          /\ dbconns' = dbconns /\ opened' = opened + 1
        BY <1>2 DEF Connect, Holders
    <2>3. Cardinality(Holders') = Cardinality(Holders) + 1
        BY <1>0, <2>1, <2>2, OneMore
    <2> QED
        BY <1>0, <2>2, <2>3 DEF NoConnLost
<1>3. ASSUME NEW w \in Workers, ConnectFails(w) PROVE NoConnLost'
    <2>1. Holders' = {} /\ dbconns' = << >> /\ opened' = 0
        BY <1>3 DEF ConnectFails, Holders
    <2> QED
        BY <2>1, FS_EmptySet DEF NoConnLost
<1>4. ASSUME NEW w \in Workers, Receive(w) PROVE NoConnLost'
    <2>1. w \notin Holders
        BY <1>4 DEF Receive, At, Attached, Holders
    <2>2. Head(dbconns) \in Nat \ {NoConn} /\ Len(Tail(dbconns)) = Len(dbconns) - 1
        BY <1>4, HeadAndTail DEF Receive
    <2>3. /\ Holders' = Holders \cup {w}
          /\ dbconns' = Tail(dbconns) /\ opened' = opened
        BY <1>4, <2>2 DEF Receive, Holders
    <2>4. Cardinality(Holders') = Cardinality(Holders) + 1
        BY <1>0, <2>1, <2>3, OneMore
    <2> QED
        BY <1>0, <2>2, <2>3, <2>4 DEF NoConnLost
<1>5. ASSUME NEW w \in Workers, ReceiveUnparks(w) PROVE NoConnLost'
    <2> DEFINE s == Head(sendq)
    <2>0. s \in Workers /\ pc[s] = "sending"
        BY <1>5, HeadAndTail DEF ReceiveUnparks, Queued
    <2>1. w \notin Holders /\ s \in Holders
        BY <1>5, <2>0 DEF ReceiveUnparks, At, Attached, Holders
    <2>2. /\ Head(dbconns) \in Nat \ {NoConn}
          /\ Tail(dbconns) \in Seq(Nat \ {NoConn})
          /\ Len(Tail(dbconns)) = Len(dbconns) - 1
        BY <1>5, HeadAndTail DEF ReceiveUnparks
    <2>3. /\ dbconns' = Append(Tail(dbconns), conn[s])
          /\ conn' = [conn EXCEPT ![w] = Head(dbconns), ![s] = NoConn]
          /\ opened' = opened
        BY <1>5 DEF ReceiveUnparks
    <2>4. conn[s] \in Nat \ {NoConn}
        BY <2>1 DEF Holders
    <2> HIDE DEF s
    <2>5. Holders' = (Holders \cup {w}) \ {s}
        BY <2>1, <2>2, <2>3 DEF Holders
    <2>6. Len(dbconns') = Len(dbconns)
        BY <2>2, <2>3, <2>4, Appended
    <2>7. Cardinality(Holders') = Cardinality(Holders)
        BY <1>0, <2>1, <2>5, OneForAnother
    <2> QED
        BY <2>3, <2>6, <2>7 DEF NoConnLost
<1>6. ASSUME NEW w \in Workers, SendToReceiver(w) PROVE NoConnLost'
    <2> DEFINE r == Head(recvq)
    <2>0. r \in Workers /\ pc[r] = "waiting"
        BY <1>6, HeadAndTail DEF SendToReceiver, Queued
    <2>1. w \in Holders /\ r \in Workers /\ r \notin Holders
        BY <1>6, <2>0 DEF SendToReceiver, At, Attached, Holders
    <2>2. /\ conn' = [conn EXCEPT ![r] = conn[w], ![w] = NoConn]
          /\ dbconns' = dbconns /\ opened' = opened
        BY <1>6 DEF SendToReceiver
    <2> HIDE DEF r
    <2>3. Holders' = (Holders \cup {r}) \ {w}
        BY <2>1, <2>2 DEF Holders
    <2>4. Cardinality(Holders') = Cardinality(Holders)
        BY <1>0, <2>1, <2>3, OneForAnother
    <2> QED
        BY <2>2, <2>4 DEF NoConnLost
<1>7. ASSUME NEW w \in Workers, SendBuffers(w) PROVE NoConnLost'
    <2>1. w \in Holders /\ conn[w] \in Nat \ {NoConn}
        BY <1>7 DEF SendBuffers, At, Attached, Holders
    <2>2. /\ Holders' = Holders \ {w}
          /\ dbconns' = Append(dbconns, conn[w]) /\ opened' = opened
        BY <1>7 DEF SendBuffers, Holders
    <2>3. Len(dbconns') = Len(dbconns) + 1
        BY <2>1, <2>2, Appended
    <2>4. Cardinality(Holders') = Cardinality(Holders) - 1
        BY <1>0, <2>1, <2>2, OneLess
    <2> QED
        BY <1>0, <2>2, <2>3, <2>4 DEF NoConnLost
<1>8. CASE Start \/ UNCHANGED vars
    BY <1>1, <1>8 DEF Start, vars, Unmoved
<1> QED
    BY <1>1, <1>2, <1>3, <1>4, <1>5, <1>6, <1>7, <1>8, StepsThatMoveNothing
       DEF Next, GetDBConn, Release

-----------------------------------------------------------------------------
\* The counter follows the goroutines that have added to it and not subtracted.
LEMMA InUseExactStep == Shape /\ InUseExact /\ [Next]_vars => InUseExact'
<1> SUFFICES ASSUME Shape, InUseExact, [Next]_vars PROVE InUseExact'
    OBVIOUS
<1> USE DEF Shape, TypeOK
<1>0. Counted \in SUBSET Workers /\ Cardinality(Counted) \in Nat
    BY FinitelyMany DEF Counted
<1>1. CASE Counted' = Counted /\ dbconns_inuse' = dbconns_inuse
    BY <1>1 DEF InUseExact
<1>2. ASSUME NEW w \in Workers, Reserve(w) \/ Count(w) PROVE InUseExact'
    <2>1. /\ w \notin Counted
          /\ Counted' = Counted \cup {w}
          /\ dbconns_inuse' = dbconns_inuse + 1
        BY <1>2 DEF Reserve, Count, At, Goto, Counted
    <2>2. Cardinality(Counted') = Cardinality(Counted) + 1
        BY <1>0, <2>1, OneMore
    <2> QED
        BY <1>0, <2>1, <2>2 DEF InUseExact
<1>3. ASSUME NEW w \in Workers, Discount(w) PROVE InUseExact'
    <2>1. /\ w \in Counted
          /\ Counted' = Counted \ {w}
          /\ dbconns_inuse' = dbconns_inuse - 1
        BY <1>3 DEF Discount, At, Goto, Counted
    <2>2. Cardinality(Counted') = Cardinality(Counted) - 1
        BY <1>0, <2>1, OneLess
    <2> QED
        BY <1>0, <2>1, <2>2 DEF InUseExact
<1>4. ASSUME NEW w \in Workers, ConnectFails(w) PROVE InUseExact'
    <2>1. Counted' = {} /\ dbconns_inuse' = 0
        BY <1>4 DEF ConnectFails, Counted
    <2> QED
        BY <2>1, FS_EmptySet DEF InUseExact
<1>5. ASSUME NEW w \in Workers, Connect(w) PROVE InUseExact'
    BY <1>1, <1>5 DEF Connect, At, Goto, Counted
<1>6. ASSUME NEW w \in Workers, Call(w) \/ CheckLen(w) \/ CheckInUse(w) PROVE InUseExact'
    BY <1>1, <1>6 DEF Call, CheckLen, CheckInUse, At, Goto, Counted
<1>7. ASSUME NEW w \in Workers, Receive(w) \/ ReceiveParks(w) PROVE InUseExact'
    BY <1>1, <1>7 DEF Receive, ReceiveParks, At, Goto, Counted
<1>8. ASSUME NEW w \in Workers, SendBuffers(w) \/ SendParks(w) PROVE InUseExact'
    BY <1>1, <1>8 DEF SendBuffers, SendParks, At, Goto, Counted
<1>9. ASSUME NEW w \in Workers, ReceiveUnparks(w) PROVE InUseExact'
    <2>1. Head(sendq) \in Workers /\ pc[Head(sendq)] = "sending"
        BY <1>9, HeadAndTail DEF ReceiveUnparks, Queued
    <2>2. /\ pc' = [pc EXCEPT ![w] = "count", ![Head(sendq)] = "idle"]
          /\ pc[w] = "receive" /\ dbconns_inuse' = dbconns_inuse
        BY <1>9 DEF ReceiveUnparks, At
    <2> QED
        BY <1>1, <2>1, <2>2 DEF Counted
<1>10. ASSUME NEW w \in Workers, SendToReceiver(w) PROVE InUseExact'
    <2>1. Head(recvq) \in Workers /\ pc[Head(recvq)] = "waiting"
        BY <1>10, HeadAndTail DEF SendToReceiver, Queued
    <2>2. /\ pc' = [pc EXCEPT ![Head(recvq)] = "count", ![w] = "idle"]
          /\ pc[w] = "send" /\ dbconns_inuse' = dbconns_inuse
        BY <1>10 DEF SendToReceiver, At
    <2> QED
        BY <1>1, <2>1, <2>2 DEF Counted
<1>11. CASE Start
    BY <1>1, <1>11 DEF Start, Goto, Counted, InPhase, Workers
<1>12. CASE UNCHANGED vars
    BY <1>1, <1>12 DEF vars, Counted
<1> QED
    BY <1>2, <1>3, <1>4, <1>5, <1>6, <1>7, <1>8, <1>9, <1>10, <1>11, <1>12
       DEF Next, GetDBConn, Release

-----------------------------------------------------------------------------
\* While a Release is parked the channel is full.
FullWhileParked == sendq # << >> => Len(dbconns) >= MaxConns

LEMMA FullWhileParkedStep == Shape /\ FullWhileParked /\ [Next]_vars => FullWhileParked'
<1> SUFFICES ASSUME Shape, FullWhileParked, [Next]_vars PROVE FullWhileParked'
    OBVIOUS
<1> USE DEF Shape, TypeOK, FullWhileParked
<1>1. CASE UNCHANGED <<sendq, dbconns>>
    BY <1>1
<1>2. ASSUME NEW w \in Workers,
             \/ Call(w) \/ CheckLen(w) \/ CheckInUse(w) \/ Reserve(w) \/ Connect(w)
             \/ ReceiveParks(w) \/ Count(w) \/ Discount(w) \/ SendToReceiver(w)
      PROVE  UNCHANGED <<sendq, dbconns>>
    BY <1>2 DEF Call, CheckLen, CheckInUse, Reserve, Connect, ReceiveParks, Count,
                Discount, SendToReceiver
<1>3. ASSUME NEW w \in Workers, ConnectFails(w) PROVE FullWhileParked'
    BY <1>3 DEF ConnectFails
<1>4. ASSUME NEW w \in Workers, Receive(w) PROVE FullWhileParked'
    BY <1>4 DEF Receive
<1>5. ASSUME NEW w \in Workers, ReceiveUnparks(w) PROVE FullWhileParked'
    <2>1. /\ Tail(dbconns) \in Seq(Nat \ {NoConn})
          /\ Len(Tail(dbconns)) = Len(dbconns) - 1
        BY <1>5, HeadAndTail DEF ReceiveUnparks
    <2>2. /\ dbconns' = Append(Tail(dbconns), conn[Head(sendq)])
          /\ sendq # << >>
        BY <1>5 DEF ReceiveUnparks
    <2>3. Head(sendq) \in Workers /\ conn[Head(sendq)] \in Nat \ {NoConn}
        BY <2>2, HeadAndTail DEF Queued, Attached
    <2>4. Len(dbconns') = Len(dbconns)
        BY <2>1, <2>2, <2>3, Appended
    <2> QED
        BY <2>2, <2>4
<1>6. ASSUME NEW w \in Workers, SendBuffers(w) PROVE FullWhileParked'
    BY <1>6, MaxConnsAssumption DEF SendBuffers
<1>7. ASSUME NEW w \in Workers, SendParks(w) PROVE FullWhileParked'
    BY <1>7 DEF SendParks
<1>8. CASE Start \/ UNCHANGED vars
    BY <1>1, <1>8 DEF Start, vars
<1> QED
    BY <1>1, <1>2, <1>3, <1>4, <1>5, <1>6, <1>7, <1>8 DEF Next, GetDBConn, Release

\* Its connection is one more than the channel's.
LEMMA ParkedIsOneMore == Shape /\ NoConnLost /\ FullWhileParked => ParkedReleaseMeansExcess
<1> SUFFICES ASSUME Shape, NoConnLost, FullWhileParked, sendq # << >>
             PROVE  opened > MaxConns
    BY DEF ParkedReleaseMeansExcess
<1>1. Head(sendq) \in Holders
    BY HeadAndTail DEF Shape, TypeOK, Attached, Queued, Holders
<1>2. Holders \in SUBSET Workers /\ Cardinality(Holders) \in Nat
    BY FinitelyMany DEF Holders
<1>3. Cardinality(Holders) # 0
    BY <1>1, <1>2, FinitelyMany, FS_EmptySet
<1> QED
    BY <1>2, <1>3, MaxConnsAssumption DEF Shape, TypeOK, NoConnLost, FullWhileParked

-----------------------------------------------------------------------------
LEMMA CountsInitially == Init => NoConnLost /\ InUseExact /\ FullWhileParked
<1> SUFFICES ASSUME Init PROVE NoConnLost /\ InUseExact /\ FullWhileParked
    OBVIOUS
<1>1. Holders = {} /\ Counted = {}
    BY DEF Init, Holders, Counted
<1> QED
    BY <1>1, FS_EmptySet DEF Init, NoConnLost, InUseExact, FullWhileParked

\* Every connection opened is in the channel or with one goroutine, whatever the
\* order in which GetDBConn and Release put connections in and take them out.
THEOREM NoConnLostAlways == Spec => []NoConnLost
BY CountsInitially, ShapeAlways, NoConnLostStep, PTL DEF Spec

\* dbconns_inuse is the number of goroutines between their addition and their
\* subtraction, although neither is done together with what it counts.
THEOREM InUseExactAlways == Spec => []InUseExact
BY CountsInitially, ShapeAlways, InUseExactStep, PTL DEF Spec

\* Release parks only when GetDBConn has opened more than MaxConns connections.
THEOREM ParkedReleaseMeansExcessAlways == Spec => []ParkedReleaseMeansExcess
<1>1. Spec => []FullWhileParked
    BY CountsInitially, ShapeAlways, FullWhileParkedStep, PTL DEF Spec
<1> QED
    BY <1>1, ShapeAlways, NoConnLostAlways, ParkedIsOneMore, PTL

-----------------------------------------------------------------------------
\* How many connections there are.

\* While nothing is in the channel, whoever holds a connection or has seen the
\* channel empty is among the goroutines that may run in this phase, and these
\* are no more than the handlers.
LEMMA FewEnoughWhenEmpty ==
    ASSUME Shape, NoConnLost, NEW w \in Workers, At(w, "len"), dbconns = << >>
    PROVE  opened + Cardinality(Deciding) + 1 <= Cardinality(Handlers)
<1> USE DEF Shape, TypeOK
<1> DEFINE Busy == Holders \cup Deciding \cup {w}
<1>1. /\ Holders \in SUBSET Workers /\ IsFiniteSet(Holders)
      /\ Deciding \in SUBSET Workers /\ IsFiniteSet(Deciding)
      /\ Handlers \in SUBSET Workers /\ IsFiniteSet(Handlers)
      /\ Cardinality(Holders) \in Nat /\ Cardinality(Deciding) \in Nat
      /\ Cardinality(Handlers) \in Nat
    BY FinitelyMany DEF Holders, Deciding, Workers
<1>2. Holders \cap Deciding = {}
    BY DEF Holders, Deciding, Attached
<1>3. Cardinality(Holders \cup Deciding) = Cardinality(Holders) + Cardinality(Deciding)
  <2>1. /\ Cardinality(Holders \cap Deciding) = 0
        /\ Cardinality(Holders \cup Deciding) =
              Cardinality(Holders) + Cardinality(Deciding) - Cardinality(Holders \cap Deciding)
      BY <1>1, <1>2, FS_Union, FS_EmptySet, Zenon
  <2> QED
      BY <1>1, <2>1
<1>4. w \notin Holders \cup Deciding
    BY DEF At, Holders, Deciding, Attached
<1>5. Cardinality(Busy) = Cardinality(Holders) + Cardinality(Deciding) + 1
    BY <1>1, <1>3, <1>4, OneMore
<1>6. opened = Cardinality(Holders)
    BY <1>1 DEF NoConnLost
<1>7. \A v \in Busy : pc[v] # "idle"
    BY DEF At, Holders, Deciding, Attached, NoConn
<1>8. Cardinality(Busy) <= Cardinality(Handlers)
  <2>1. CASE phase = "serving"
    <3>1. Busy \subseteq Handlers
        BY <1>1, <1>7, <2>1 DEF InPhase, Workers
    <3> QED
        BY <1>1, <3>1, FS_Subset
  <2>2. CASE phase = "starting"
    <3>1. Busy = {Main}
        BY <1>1, <1>7, <2>2 DEF InPhase, Workers
    <3>2. Cardinality(Busy) = 1
        BY <3>1, FS_Singleton
    <3>3. Cardinality(Handlers) # 0
        BY <1>1, HandlersAssumption, FS_EmptySet
    <3> QED
        BY <1>1, <3>2, <3>3
  <2>3. CASE phase = "down"
    BY <1>7, <2>3 DEF InPhase
  <2> QED
    BY <2>1, <2>2, <2>3
<1> QED
    BY <1>5, <1>6, <1>8

\* A goroutine joins the deciding only at an empty channel, and each connection
\* opened takes the place of one of them.
LEMMA OpenedWithinHandlersStep ==
    Shape /\ NoConnLost /\ OpenedWithinHandlers /\ [Next]_vars => OpenedWithinHandlers'
<1> SUFFICES ASSUME Shape, NoConnLost, OpenedWithinHandlers, [Next]_vars
             PROVE  OpenedWithinHandlers'
    OBVIOUS
<1> USE DEF Shape, TypeOK
<1>0. /\ Deciding \in SUBSET Workers /\ IsFiniteSet(Deciding)
      /\ Cardinality(Deciding) \in Nat /\ Cardinality(Handlers) \in Nat
    BY FinitelyMany DEF Deciding, Workers
<1>1. CASE Deciding' \subseteq Deciding /\ opened' = opened
  <2>1. Cardinality(Deciding') \in Nat /\ Cardinality(Deciding') <= Cardinality(Deciding)
    BY <1>0, <1>1, FS_Subset, FinitelyMany
  <2> QED
    BY <1>0, <1>1, <2>1 DEF OpenedWithinHandlers
<1>2. ASSUME NEW w \in Workers, CheckLen(w) PROVE OpenedWithinHandlers'
  <2>1. CASE dbconns = << >>
    <3>1. w \notin Deciding /\ Deciding' = Deciding \cup {w} /\ opened' = opened
        BY <1>2, <2>1 DEF CheckLen, At, Goto, Deciding
    <3>2. Cardinality(Deciding') = Cardinality(Deciding) + 1
        BY <1>0, <3>1, OneMore
    <3>3. opened + Cardinality(Deciding) + 1 <= Cardinality(Handlers)
        BY <1>2, <2>1, FewEnoughWhenEmpty DEF CheckLen
    <3> QED
        BY <1>0, <3>1, <3>2, <3>3 DEF OpenedWithinHandlers
  <2>2. CASE dbconns # << >>
    BY <1>1, <1>2, <2>2 DEF CheckLen, At, Goto, Deciding
  <2> QED
    BY <2>1, <2>2
<1>3. ASSUME NEW w \in Workers, Connect(w) PROVE OpenedWithinHandlers'
  <2>1. w \in Deciding /\ Deciding' = Deciding \ {w} /\ opened' = opened + 1
    BY <1>3 DEF Connect, At, Goto, Deciding
  <2>2. Cardinality(Deciding') = Cardinality(Deciding) - 1
    BY <1>0, <2>1, OneLess
  <2> QED
    BY <1>0, <2>1, <2>2 DEF OpenedWithinHandlers
<1>4. ASSUME NEW w \in Workers, ConnectFails(w) PROVE OpenedWithinHandlers'
  <2>1. Deciding' = {} /\ opened' = 0
    BY <1>4 DEF ConnectFails, Deciding
  <2> QED
    BY <1>0, <2>1, FS_EmptySet DEF OpenedWithinHandlers
<1>5. ASSUME NEW w \in Workers, Call(w) \/ CheckInUse(w) \/ Reserve(w)
      PROVE  OpenedWithinHandlers'
    BY <1>1, <1>5 DEF Call, CheckInUse, Reserve, At, Goto, Deciding
<1>6. ASSUME NEW w \in Workers, Receive(w) \/ ReceiveParks(w) \/ Count(w)
      PROVE  OpenedWithinHandlers'
    BY <1>1, <1>6 DEF Receive, ReceiveParks, Count, At, Goto, Deciding
<1>7. ASSUME NEW w \in Workers, Discount(w) \/ SendBuffers(w) \/ SendParks(w)
      PROVE  OpenedWithinHandlers'
    BY <1>1, <1>7 DEF Discount, SendBuffers, SendParks, At, Goto, Deciding
<1>8. ASSUME NEW w \in Workers, ReceiveUnparks(w) \/ SendToReceiver(w)
      PROVE  OpenedWithinHandlers'
  <2>1. /\ \A v \in Workers : pc'[v] \in {pc[v], "count", "idle"}
        /\ opened' = opened
    BY <1>8 DEF ReceiveUnparks, SendToReceiver
  <2> QED
    BY <1>1, <2>1 DEF Deciding
<1>9. CASE Start
    BY <1>1, <1>9 DEF Start, Goto, Deciding, Workers
<1>10. CASE UNCHANGED vars
    BY <1>1, <1>10 DEF vars, Deciding
<1> QED
    BY <1>2, <1>3, <1>4, <1>5, <1>6, <1>7, <1>8, <1>9, <1>10 DEF Next, GetDBConn, Release

LEMMA OpenedWithinHandlersInitially == Init => OpenedWithinHandlers
<1> SUFFICES ASSUME Init PROVE OpenedWithinHandlers
    OBVIOUS
<1>1. Deciding = {} /\ opened = 0
    BY DEF Init, Deciding
<1>2. Cardinality(Handlers) \in Nat
    BY FinitelyMany DEF Workers
<1> QED
    BY <1>1, <1>2, FS_EmptySet DEF OpenedWithinHandlers

\* Whatever the race in GetDBConn lets through, the pool opens no more
\* connections than there are handlers.
THEOREM OpenedWithinHandlersAlways == Spec => []OpenedWithinHandlers
BY OpenedWithinHandlersInitially, ShapeAlways, NoConnLostAlways,
   OpenedWithinHandlersStep, PTL DEF Spec

\* The maximum that is none is one if no more handlers run at a time: then no more
\* connections are opened than it allows, and no Release ever parks.
THEOREM EnoughForAllIsKept ==
    ASSUME MaxConns >= Cardinality(Handlers)
    PROVE  Spec => [](WithinMaxConns /\ sendq = << >>)
<1>1. Shape /\ OpenedWithinHandlers /\ ParkedReleaseMeansExcess
      => WithinMaxConns /\ sendq = << >>
  <2> SUFFICES ASSUME Shape, OpenedWithinHandlers, ParkedReleaseMeansExcess
               PROVE  WithinMaxConns /\ sendq = << >>
    OBVIOUS
  <2>1. Deciding \in SUBSET Workers /\ Handlers \in SUBSET Workers
    BY DEF Deciding, Workers
  <2>2. Cardinality(Deciding) \in Nat /\ Cardinality(Handlers) \in Nat
    BY <2>1, FinitelyMany
  <2>3. opened \in Nat
    BY DEF Shape, TypeOK
  <2>4. opened <= MaxConns
    BY <2>2, <2>3, MaxConnsAssumption DEF OpenedWithinHandlers
  <2>5. ~(opened > MaxConns)
    BY <2>3, <2>4, MaxConnsAssumption
  <2> QED
    BY <2>4, <2>5 DEF WithinMaxConns, ParkedReleaseMeansExcess
<1> QED
    BY <1>1, ShapeAlways, OpenedWithinHandlersAlways, ParkedReleaseMeansExcessAlways, PTL

-----------------------------------------------------------------------------
\* Who can wait for whom.

\* Goroutines that have a connection, or are about to open one.
Providers == {v \in Workers : pc[v] \in {"connect", "count", "holding", "send", "sending"}}

LEMMA WaiterHasProviderStep ==
    Shape /\ InUseExact /\ WaiterHasProvider /\ [Next]_vars => WaiterHasProvider'
<1> SUFFICES ASSUME Shape, InUseExact, WaiterHasProvider, [Next]_vars
             PROVE  WaiterHasProvider'
    OBVIOUS
<1> USE DEF Shape, TypeOK
<1>0. ASSUME dbconns' # << >> \/ \E v \in Workers : v \in Providers'
      PROVE  WaiterHasProvider'
    BY <1>0 DEF WaiterHasProvider, Providers
\* A step that sends nobody to wait, and leaves the channel and the providers alone.
<1>1. ASSUME \A v \in Workers : pc'[v] \in {"receive", "waiting"}
                                => pc[v] \in {"receive", "waiting"},
             Providers \subseteq Providers',
             dbconns' = dbconns
      PROVE  WaiterHasProvider'
    BY <1>1 DEF WaiterHasProvider, Providers
<1>2. ASSUME NEW w \in Workers, Call(w) \/ Reserve(w) \/ ReceiveParks(w)
      PROVE  WaiterHasProvider'
    BY <1>1, <1>2 DEF Call, Reserve, ReceiveParks, At, Goto, Providers
<1>3. ASSUME NEW w \in Workers, CheckLen(w) PROVE WaiterHasProvider'
  <2>1. CASE dbconns = << >>
    BY <1>1, <1>3, <2>1 DEF CheckLen, At, Goto, Providers
  <2>2. CASE dbconns # << >>
    BY <1>0, <1>3, <2>2 DEF CheckLen
  <2> QED
    BY <2>1, <2>2
<1>4. ASSUME NEW w \in Workers, CheckInUse(w) PROVE WaiterHasProvider'
  <2>1. CASE dbconns_inuse < MaxConns
    BY <1>1, <1>4, <2>1 DEF CheckInUse, At, Goto, Providers
  <2>2. CASE MaxConns > 0 /\ ~(dbconns_inuse < MaxConns)
    <3>1. Counted \in SUBSET Workers /\ Cardinality(Counted) # 0
        BY <2>2, MaxConnsAssumption DEF InUseExact, Counted
    <3>2. PICK v \in Workers : v \in Counted
        BY <3>1, FS_EmptySet
    <3>3. v \in Providers'
        BY <1>4, <3>2 DEF CheckInUse, At, Goto, Counted, Providers
    <3> QED
        BY <1>0, <3>3
  <2>3. CASE ~(MaxConns > 0)
    BY <2>3 DEF WaiterHasProvider
  <2> QED
    BY <2>1, <2>2, <2>3
<1>5. ASSUME NEW w \in Workers,
             Connect(w) \/ Receive(w) \/ Count(w) \/ Discount(w) \/ SendParks(w)
      PROVE  WaiterHasProvider'
  <2>1. pc'[w] \in {"holding", "count", "send", "sending"}
    BY <1>5 DEF Connect, Receive, Count, Discount, SendParks, Goto
  <2> QED
    BY <1>0, <2>1 DEF Providers
<1>6. ASSUME NEW w \in Workers, SendToReceiver(w) PROVE WaiterHasProvider'
  <2>1. Head(recvq) \in Workers /\ pc[Head(recvq)] = "waiting"
    BY <1>6, HeadAndTail DEF SendToReceiver, Queued
  <2>2. pc' = [pc EXCEPT ![Head(recvq)] = "count", ![w] = "idle"] /\ pc[w] = "send"
    BY <1>6 DEF SendToReceiver, At
  <2>3. Head(recvq) \in Providers'
    BY <2>1, <2>2 DEF Providers
  <2> QED
    BY <1>0, <2>1, <2>3
<1>7. ASSUME NEW w \in Workers, ReceiveUnparks(w) PROVE WaiterHasProvider'
  <2>1. Head(sendq) \in Workers /\ pc[Head(sendq)] = "sending"
    BY <1>7, HeadAndTail DEF ReceiveUnparks, Queued
  <2>2. pc' = [pc EXCEPT ![w] = "count", ![Head(sendq)] = "idle"] /\ pc[w] = "receive"
    BY <1>7 DEF ReceiveUnparks, At
  <2>3. w \in Providers'
    BY <2>1, <2>2 DEF Providers
  <2> QED
    BY <1>0, <2>3
<1>8. ASSUME NEW w \in Workers, SendBuffers(w) PROVE WaiterHasProvider'
  <2>1. dbconns' = Append(dbconns, conn[w]) /\ conn[w] \in Nat \ {NoConn}
    BY <1>8 DEF SendBuffers, Attached, At
  <2>2. Len(dbconns') > 0
    BY <2>1, Appended
  <2> QED
    BY <1>0, <2>2
<1>9. ASSUME NEW w \in Workers, ConnectFails(w) PROVE WaiterHasProvider'
    BY <1>9 DEF ConnectFails, WaiterHasProvider
<1>10. CASE Start
    BY <1>1, <1>10 DEF Start, Goto, Providers, InPhase, Workers
<1>11. CASE UNCHANGED vars
    BY <1>11 DEF vars, WaiterHasProvider
<1> QED
    BY <1>2, <1>3, <1>4, <1>5, <1>6, <1>7, <1>8, <1>9, <1>10, <1>11
       DEF Next, GetDBConn, Release

LEMMA WaiterHasProviderInitially == Init => WaiterHasProvider
BY DEF Init, WaiterHasProvider

\* No goroutine receives from an empty channel with nobody left to send: the
\* counter that sent it to wait counts goroutines that will give a connection back.
THEOREM WaiterHasProviderAlways == Spec => []WaiterHasProvider
BY WaiterHasProviderInitially, ShapeAlways, InUseExactAlways,
   WaiterHasProviderStep, PTL DEF Spec

=============================================================================
