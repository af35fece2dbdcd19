------------------------------- MODULE ConnPool -------------------------------
(***************************************************************************)
(* The connection pool of internal/database/database.go: the buffered      *)
(* channel dbconns, the counter dbconns_inuse, GetDBConn, Release and new. *)
(*                                                                         *)
(* GetDBConn reads len(dbconns), then dbconns_inuse, then adds to the      *)
(* counter, with nothing holding the three together; Release subtracts     *)
(* from the counter before it puts the connection back.  Each access to    *)
(* shared memory is a step, so every interleaving of handlers is a         *)
(* behaviour.  The plain read of dbconns_inuse is a race with the atomic   *)
(* additions; on the amd64 and 386 builds of exec.ps1 it is one aligned    *)
(* load in program order, so it returns the value at the time of the step. *)
(***************************************************************************)
EXTENDS Integers, Sequences, FiniteSets

CONSTANTS Handlers,   \* goroutines that serve requests
          Main,       \* the goroutine that runs NewServer
          MaxConns    \* max_connection (EVERDEEM_DB_MAX_CONNECTIONS)

ASSUME HandlersAssumption == /\ IsFiniteSet(Handlers)
                             /\ Handlers # {}
                             /\ Main \notin Handlers
\* strconv.Atoi admits 0, with which Main waits in GetDBConn for ever; make
\* panics on a negative number.
ASSUME MaxConnsAssumption == MaxConns \in Nat

Workers == Handlers \cup {Main}

NoConn == 0           \* connections are numbered from 1 in order of opening

VARIABLES
    dbconns,          \* contents of the channel, oldest first
    dbconns_inuse,    \* the counter
    recvq, sendq,     \* goroutines parked in <-dbconns and in dbconns <- d
    opened,           \* connections new() has opened in this process
    conn,             \* conn[w]: the *DBConn w holds
    pc,               \* pc[w]: the next step of w
    phase             \* of the process

vars == <<dbconns, dbconns_inuse, recvq, sendq, opened, conn, pc, phase>>

Labels == {"idle", "len", "inuse", "reserve", "connect", "receive", "waiting",
           "count", "holding", "send", "sending"}

\* Before the process starts there is no pool.
Init ==
    /\ dbconns = << >>
    /\ dbconns_inuse = 0
    /\ recvq = << >>
    /\ sendq = << >>
    /\ opened = 0
    /\ conn = [w \in Workers |-> NoConn]
    /\ pc = [w \in Workers |-> "idle"]
    /\ phase = "down"

At(w, l)   == pc[w] = l
Goto(w, l) == pc' = [pc EXCEPT ![w] = l]

-----------------------------------------------------------------------------
\* NewServer makes the channel and borrows a connection for the schema.
Start ==
    /\ phase = "down"
    /\ phase' = "starting"
    /\ Goto(Main, "len")
    /\ UNCHANGED <<dbconns, dbconns_inuse, recvq, sendq, opened, conn>>

\* A handler calls GetDBConn.
Call(w) ==
    /\ phase = "serving"
    /\ w \in Handlers
    /\ At(w, "idle")
    /\ Goto(w, "len")
    /\ UNCHANGED <<dbconns, dbconns_inuse, recvq, sendq, opened, conn, phase>>

\* A fault: only the counter is looked at.
CheckLen_Skipped(w) ==
    /\ At(w, "len")
    /\ Goto(w, "inuse")
    /\ UNCHANGED <<dbconns, dbconns_inuse, recvq, sendq, opened, conn, phase>>

\* The first operand of the condition: len(dbconns) == 0.
CheckLen(w) ==
    /\ At(w, "len")
    /\ Goto(w, IF dbconns = << >> THEN "inuse" ELSE "receive")
    /\ UNCHANGED <<dbconns, dbconns_inuse, recvq, sendq, opened, conn, phase>>

\* The second: int(dbconns_inuse) < max_connection.
CheckInUse(w) ==
    /\ At(w, "inuse")
    /\ Goto(w, IF dbconns_inuse < MaxConns THEN "reserve" ELSE "receive")
    /\ UNCHANGED <<dbconns, dbconns_inuse, recvq, sendq, opened, conn, phase>>

\* The counter is raised before the connection is opened.
Reserve(w) ==
    /\ At(w, "reserve")
    /\ dbconns_inuse' = dbconns_inuse + 1
    /\ Goto(w, "connect")
    /\ UNCHANGED <<dbconns, recvq, sendq, opened, conn, phase>>

\* new() connects.
Connect(w) ==
    /\ At(w, "connect")
    /\ opened' = opened + 1
    /\ conn' = [conn EXCEPT ![w] = opened + 1]
    /\ Goto(w, "holding")
    /\ UNCHANGED <<dbconns, dbconns_inuse, recvq, sendq, phase>>

\* new() cannot connect: log.Fatal ends the process, with all its handlers.
ConnectFails(w) ==
    /\ At(w, "connect")
    /\ dbconns' = << >>
    /\ dbconns_inuse' = 0
    /\ recvq' = << >>
    /\ sendq' = << >>
    /\ opened' = 0
    /\ conn' = [v \in Workers |-> NoConn]
    /\ pc' = [v \in Workers |-> "idle"]
    /\ phase' = "down"

\* A fault: the connection is handed out and stays in the pool.
Receive_Peeks(w) ==
    /\ At(w, "receive")
    /\ dbconns # << >>
    /\ sendq = << >>
    /\ conn' = [conn EXCEPT ![w] = Head(dbconns)]
    /\ Goto(w, "count")
    /\ UNCHANGED <<dbconns, dbconns_inuse, recvq, sendq, opened, phase>>

\* w receives the oldest connection in the channel.
Receive(w) ==
    /\ At(w, "receive")
    /\ dbconns # << >>
    /\ sendq = << >>
    /\ dbconns' = Tail(dbconns)
    /\ conn' = [conn EXCEPT ![w] = Head(dbconns)]
    /\ Goto(w, "count")
    /\ UNCHANGED <<dbconns_inuse, recvq, sendq, opened, phase>>

\* The same from a full channel, where the first sender parked on it puts its
\* own connection in the place that came free, and returns from Release.
ReceiveUnparks(w) ==
    /\ At(w, "receive")
    /\ dbconns # << >>
    /\ sendq # << >>
    /\ LET s == Head(sendq) IN
       /\ dbconns' = Append(Tail(dbconns), conn[s])
       /\ conn' = [conn EXCEPT ![w] = Head(dbconns), ![s] = NoConn]
       /\ pc' = [pc EXCEPT ![w] = "count", ![s] = "idle"]
    /\ sendq' = Tail(sendq)
    /\ UNCHANGED <<dbconns_inuse, recvq, opened, phase>>

\* The channel is empty: w parks.
ReceiveParks(w) ==
    /\ At(w, "receive")
    /\ dbconns = << >>
    /\ recvq' = Append(recvq, w)
    /\ Goto(w, "waiting")
    /\ UNCHANGED <<dbconns, dbconns_inuse, sendq, opened, conn, phase>>

\* A fault: GetDBConn counts only the connections it opens.
Count_Missed(w) ==
    /\ At(w, "count")
    /\ Goto(w, "holding")
    /\ UNCHANGED <<dbconns, dbconns_inuse, recvq, sendq, opened, conn, phase>>

\* The counter is raised after the connection was received.
Count(w) ==
    /\ At(w, "count")
    /\ dbconns_inuse' = dbconns_inuse + 1
    /\ Goto(w, "holding")
    /\ UNCHANGED <<dbconns, recvq, sendq, opened, conn, phase>>

\* A fault: an error path of the handler returns without a Release.
Discount_Forgotten(w) ==
    /\ At(w, "holding")
    /\ IF w = Main
       THEN Goto(w, "send") /\ dbconns_inuse' = dbconns_inuse - 1 /\ UNCHANGED conn
       ELSE /\ Goto(w, "idle")
            /\ conn' = [conn EXCEPT ![w] = NoConn]
            /\ UNCHANGED dbconns_inuse
    /\ UNCHANGED <<dbconns, recvq, sendq, opened, phase>>

\* The handler is done with its connection and calls Release.
Discount(w) ==
    /\ At(w, "holding")
    /\ dbconns_inuse' = dbconns_inuse - 1
    /\ Goto(w, "send")
    /\ UNCHANGED <<dbconns, recvq, sendq, opened, conn, phase>>

\* NewServer returns once its connection is back; then handlers may run.
PhaseAfter(w) == IF w = Main THEN "serving" ELSE phase

\* A receiver is parked: the connection goes straight to it.
SendToReceiver(w) ==
    /\ At(w, "send")
    /\ recvq # << >>
    /\ LET r == Head(recvq) IN
       /\ conn' = [conn EXCEPT ![r] = conn[w], ![w] = NoConn]
       /\ pc' = [pc EXCEPT ![r] = "count", ![w] = "idle"]
    /\ recvq' = Tail(recvq)
    /\ phase' = PhaseAfter(w)
    /\ UNCHANGED <<dbconns, dbconns_inuse, sendq, opened>>

\* A fault: the handler's pointer is cleared before it is sent.
SendBuffers_ClearsFirst(w) ==
    /\ At(w, "send")
    /\ recvq = << >>
    /\ Len(dbconns) < MaxConns
    /\ dbconns' = Append(dbconns, NoConn)
    /\ conn' = [conn EXCEPT ![w] = NoConn]
    /\ Goto(w, "idle")
    /\ phase' = PhaseAfter(w)
    /\ UNCHANGED <<dbconns_inuse, recvq, sendq, opened>>

\* A fault: the handler goes on using the connection it has put back.
SendBuffers_KeepsConn(w) ==
    /\ At(w, "send")
    /\ recvq = << >>
    /\ Len(dbconns) < MaxConns
    /\ dbconns' = Append(dbconns, conn[w])
    /\ Goto(w, "idle")
    /\ phase' = PhaseAfter(w)
    /\ UNCHANGED <<dbconns_inuse, recvq, sendq, opened, conn>>

\* The channel has room.
SendBuffers(w) ==
    /\ At(w, "send")
    /\ recvq = << >>
    /\ Len(dbconns) < MaxConns
    /\ dbconns' = Append(dbconns, conn[w])
    /\ conn' = [conn EXCEPT ![w] = NoConn]
    /\ Goto(w, "idle")
    /\ phase' = PhaseAfter(w)
    /\ UNCHANGED <<dbconns_inuse, recvq, sendq, opened>>

\* A fault: a send that would park drops the connection instead.
SendParks_Drops(w) ==
    /\ At(w, "send")
    /\ recvq = << >>
    /\ Len(dbconns) >= MaxConns
    /\ conn' = [conn EXCEPT ![w] = NoConn]
    /\ Goto(w, "idle")
    /\ UNCHANGED <<dbconns, dbconns_inuse, recvq, sendq, opened, phase>>

\* A fault: the channel is one place short.
SendParks_OneShort(w) ==
    /\ At(w, "send")
    /\ recvq = << >>
    /\ Len(dbconns) + 1 >= MaxConns
    /\ sendq' = Append(sendq, w)
    /\ Goto(w, "sending")
    /\ UNCHANGED <<dbconns, dbconns_inuse, recvq, opened, conn, phase>>

\* The channel is full: w parks in Release.
SendParks(w) ==
    /\ At(w, "send")
    /\ recvq = << >>
    /\ Len(dbconns) >= MaxConns
    /\ sendq' = Append(sendq, w)
    /\ Goto(w, "sending")
    /\ UNCHANGED <<dbconns, dbconns_inuse, recvq, opened, conn, phase>>

-----------------------------------------------------------------------------
GetDBConn(w) == \/ CheckLen(w) \/ CheckInUse(w) \/ Reserve(w) \/ Connect(w)
                \/ Receive(w) \/ ReceiveUnparks(w) \/ ReceiveParks(w) \/ Count(w)
Release(w)   == \/ Discount(w)
                \/ SendToReceiver(w) \/ SendBuffers(w) \/ SendParks(w)

Next ==
    \/ Start
    \/ \E w \in Workers : Call(w) \/ GetDBConn(w) \/ Release(w) \/ ConnectFails(w)

Spec == Init /\ [][Next]_vars

\* A goroutine that can run does: the Go scheduler starves none, the database
\* answers a connection attempt one way or the other, and a handler's queries
\* end.  Calls are not fair: no request need ever come.
Step(w)  == GetDBConn(w) \/ Release(w) \/ ConnectFails(w)
Fairness == \A w \in Workers : WF_vars(Step(w))
FairSpec == Spec /\ Fairness

-----------------------------------------------------------------------------
Holders  == {w \in Workers : conn[w] # NoConn}
Counted  == {w \in Workers : pc[w] \in {"connect", "holding"}}
\* Goroutines that have seen an empty channel and not yet opened or given up.
Deciding == {w \in Workers : pc[w] \in {"inuse", "reserve", "connect"}}

TypeOK ==
    /\ dbconns \in Seq(Nat \ {NoConn})
    /\ dbconns_inuse \in Int
    /\ recvq \in Seq(Workers)
    /\ sendq \in Seq(Workers)
    /\ opened \in Nat
    /\ conn \in [Workers -> Nat]
    /\ pc \in [Workers -> Labels]
    /\ phase \in {"down", "starting", "serving"}

\* A connection is in one place: in the channel once, or with one goroutine.
\* pgx.Conn is not safe for concurrent use, and nothing but the pool keeps two
\* handlers off the same one.
OneHolder ==
    /\ \A i, j \in DOMAIN dbconns : dbconns[i] = dbconns[j] => i = j
    /\ \A w \in Holders :
          /\ \A v \in Holders : conn[w] = conn[v] => w = v
          /\ \A i \in DOMAIN dbconns : conn[w] # dbconns[i]

\* No connection is lost: each one opened is in the channel or held, however
\* GetDBConn and Release interleave and whoever hands one to whom.
NoConnLost == opened = Len(dbconns) + Cardinality(Holders)

\* dbconns_inuse is exactly the number of goroutines between their addition to
\* it and their subtraction from it; it returns to 0 when no handler runs.
InUseExact == dbconns_inuse = Cardinality(Counted)

\* What does bound the connections, since the counter does not: those open and
\* those being decided on are never more than the handlers that run at a time.
OpenedWithinHandlers == opened + Cardinality(Deciding) <= Cardinality(Handlers)

\* Release, which the handlers take to return at once, parks only after the
\* check in GetDBConn has let more connections open than the channel can hold.
ParkedReleaseMeansExcess == sendq # << >> => opened > MaxConns

\* Nobody waits for a connection that cannot come: while a goroutine is bound to
\* receive, the channel has a connection or some goroutine has or is opening one.
WaiterHasProvider ==
    (MaxConns > 0 /\ \E w \in Workers : pc[w] \in {"receive", "waiting"})
    => \/ dbconns # << >>
       \/ \E v \in Workers :
             pc[v] \in {"connect", "count", "holding", "send", "sending"}

\* Handlers see the pool as a set of leases, over no more connections than
\* there are handlers.  A lease ends when Release begins: whether the connection
\* then goes into the channel, to a parked receiver, or waits with its sender
\* for a place, the next goroutine to get it takes it from the free ones.
Releasing(w) == pc[w] \in {"send", "sending"}
Lease == INSTANCE ConnLease
         WITH Conn  <- 1 .. Cardinality(Handlers),
              free  <- {dbconns[i] : i \in DOMAIN dbconns}
                       \cup {conn[w] : w \in {v \in Workers : Releasing(v)}},
              lease <- [w \in Workers |-> IF Releasing(w) THEN NoConn ELSE conn[w]]
ImplementsLease == Lease!Spec

\* Every GetDBConn ends, with a connection or with the process.
GetDBConnReturns ==
    \A w \in Workers :
        At(w, "len") ~> pc[w] \in {"holding", "idle"}

\* Every Release ends, as long as no more than MaxConns connections are open.
ReleaseReturnsWithoutExcess ==
    [](opened <= MaxConns) => \A w \in Workers : At(w, "send") ~> At(w, "idle")

\* example.env:20 names the setting MAX_CONNECTIONS: the pool opens no more.
WithinMaxConns == opened <= MaxConns

=============================================================================
