--------------------------------- MODULE Shop ---------------------------------
(***************************************************************************)
(* The handlers that use the database, over the connections they borrow.   *)
(* By what they do with a connection there are five kinds of them:         *)
(*   order    one transaction for an order and its items                   *)
(*   product  one INSERT                                                   *)
(*   row      a query of one row, whose rows are closed only after the     *)
(*            connection was given back                                    *)
(*   list     a query whose rows are read to their end                     *)
(*   single   QueryRow, which closes the rows by itself                    *)
(*                                                                         *)
(* The pool is the lease specification that ConnPool.tla implements.  A    *)
(* connection can be lost at any time, and the process can end at any      *)
(* time.  PostgreSQL is modelled by the statements the handlers send it.   *)
(***************************************************************************)
EXTENDS Integers, Sequences, FiniteSets

CONSTANTS Procs,       \* goroutines that serve requests
          Conn,        \* connections that may be open at a time
          NoConn,
          Users,       \* the rows of "User"
          Bodies,      \* the orderItems of requests: sequences of items
          Lists,       \* the users that requests of user_fetch_post ask for
          MaxInt4,     \* the largest value of a column of type integer
          MaxOrders,   \* bound on the values drawn from the serial of "Order"
          MaxProducts  \* bound on the rows of "Product"

ASSUME ConnAssumption  == NoConn \notin Conn
ASSUME UsersAssumption == Users \subseteq Nat \ {0}
ASSUME BoundsAssumption == MaxOrders \in Nat /\ MaxProducts \in Nat \ {0}
ASSUME BodiesAssumption == /\ Bodies \subseteq Seq([product : Nat, quantity : Int])
                           /\ Lists \subseteq Seq(Nat)
                           /\ MaxInt4 \in Int

ZeroId  == 0           \* SessionGetUserUID's answer when the session has just gone
NoOrder == 0

VARIABLES
    free, lease,       \* the pool, as in ConnLease
    dead,              \* connections that are lost; the pool keeps them
    busy,              \* connections with rows still to be read
    tx,                \* tx[c]: state of c's transaction in the database
    work,              \* work[c]: the rows it has inserted
    orders,            \* rows of "Order", committed
    orderItems,        \* rows of "OrderItem", committed
    products,          \* number of rows of "Product"; ids are a serial
    drawn,             \* values drawn from the serial of "Order"
    pc, kind,          \* pc[g]: next step of g, serving a request of kind[g]
    todo,              \* todo[g]: the items of its order still to be inserted, or
                       \* the users whose rows are still to be read
    buyer, oid,        \* buyer[g], oid[g]: userid and orderId
    rows,              \* rows[g]: the connection whose rows g has open
    answer,            \* answer[g]: the status decided on, or 0
    asked              \* asked[o]: buyer and items of order o's request (history)

Lease == INSTANCE ConnLease WITH Workers <- Procs

pool     == <<free, lease>>
conns    == <<dead, busy, tx, work>>
tables   == <<orders, orderItems, products>>
requests == <<kind, todo, buyer, oid, rows, answer>>
vars     == <<pool, conns, tables, drawn, pc, requests, asked>>

NoWork == [orders |-> {}, items |-> {}]

Init ==
    /\ Lease!Init
    /\ dead = {}
    /\ busy = {}
    /\ tx = [c \in Conn |-> "none"]
    /\ work = [c \in Conn |-> NoWork]
    /\ orders = {}
    /\ orderItems = {}
    /\ products = 1
    /\ drawn = 0
    /\ pc = [g \in Procs |-> "idle"]
    /\ kind = [g \in Procs |-> "none"]
    /\ todo = [g \in Procs |-> << >>]
    /\ buyer = [g \in Procs |-> ZeroId]
    /\ oid = [g \in Procs |-> NoOrder]
    /\ rows = [g \in Procs |-> NoConn]
    /\ answer = [g \in Procs |-> 0]
    /\ asked = << >>

At(g, l)     == pc[g] = l
Goto(g, l)   == pc' = [pc EXCEPT ![g] = l]
Answer(g, s) == answer' = [answer EXCEPT ![g] = s]
\* The handler of g returns, and its variables are gone.  (The answer is kept
\* beside the number of an order, and with it forgotten.)
Return(g, s) == /\ Goto(g, "idle")
                /\ kind' = [kind EXCEPT ![g] = "none"]
                /\ todo' = [todo EXCEPT ![g] = << >>]
                /\ buyer' = [buyer EXCEPT ![g] = ZeroId]
                /\ Answer(g, IF oid[g] = NoOrder THEN 0 ELSE s)

\* Neither lost nor being read.
Usable(g) == lease[g] \notin dead \cup busy

-----------------------------------------------------------------------------
\* Requests.

\* A request is routed to its handler, which is of kind k; b is what it asks for.
Arrive(g, k, b) ==
    /\ At(g, "idle")
    /\ kind' = [kind EXCEPT ![g] = k]
    /\ todo' = [todo EXCEPT ![g] = b]
    /\ oid' = [oid EXCEPT ![g] = NoOrder]
    /\ Answer(g, 0)
    /\ Goto(g, "validate")
    /\ UNCHANGED <<pool, conns, tables, drawn, buyer, rows, asked>>

\* POST creates an order as PUT does: the two handlers have the same steps.
products_order_put(g)  == \E b \in Bodies : Arrive(g, "order", b)
products_order_post(g) == \E b \in Bodies : Arrive(g, "order", b)
products_post(g)       == Arrive(g, "product", << >>)
\* The functions that user_post and user_patch call are not in the schema: their
\* query fails unless the operator has put them into the database.
SessionRegister(g)     == Arrive(g, "row", << >>)
user_post(g)           == Arrive(g, "row", << >>)
user_patch(g)          == Arrive(g, "row", << >>)
user_fetch_post(g)     == \E b \in Lists : Arrive(g, "list", b)
categories_products_post(g) == Arrive(g, "single", << >>)
products_comment_get(g)     == Arrive(g, "single", << >>)
noti_fetch_post(g)          == Arrive(g, "single", << >>)

\* At least one item, each of a quantity above 0.
ValidItems(b) == b # << >> /\ \A i \in DOMAIN b : b[i].quantity > 0

\* The body is refused (it is no JSON, or a field is missing or no good), or the
\* session answers with no id (ERR_AUTH_REQUIRED).
Refuse(g) ==
    /\ At(g, "validate")
    /\ Return(g, 400) \/ Return(g, 401)
    /\ UNCHANGED <<pool, conns, tables, drawn, oid, rows, asked>>

\* The body is accepted.  An order or a product gets an id from the session, with
\* 0 for one that was just revoked.
Accept(g) ==
    /\ At(g, "validate")
    /\ kind[g] = "order" => ValidItems(todo[g])
    /\ IF kind[g] \in {"order", "product"}
       THEN \E u \in Users \cup {ZeroId} : buyer' = [buyer EXCEPT ![g] = u]
       ELSE UNCHANGED buyer
    /\ Goto(g, "borrow")
    /\ UNCHANGED <<pool, conns, tables, drawn, kind, todo, oid, rows, answer, asked>>

FirstStep == [order |-> "begin", product |-> "insert.product",
              row |-> "query", list |-> "query", single |-> "queryrow"]

\* GetDBConn.
Borrow(g) ==
    /\ At(g, "borrow")
    /\ Lease!Take(g) \/ Lease!Open(g)
    /\ Goto(g, FirstStep[kind[g]])
    /\ UNCHANGED <<conns, tables, drawn, requests, asked>>

-----------------------------------------------------------------------------
\* Orders.

\* db.DB.Begin.  On an error pgx closes the connection, also when all that is
\* wrong is that it is busy.
Begin(g) ==
    /\ At(g, "begin")
    /\ IF Usable(g)
       THEN /\ tx' = [tx EXCEPT ![lease[g]] = "open"]
            /\ Goto(g, "insert.order")
            /\ UNCHANGED <<dead, answer>>
       ELSE /\ dead' = dead \cup {lease[g]}
            /\ Answer(g, 500)
            /\ Goto(g, "release")
            /\ UNCHANGED tx
    /\ UNCHANGED <<pool, busy, work, tables, drawn, kind, todo, buyer, oid, rows, asked>>

\* A statement of the transaction fails: ERR_INTERNAL_DB_FAIL is sent and the
\* deferred function will see err.  What fails in the database fails the
\* transaction there too.
Fail(g, state) ==
    /\ tx' = [tx EXCEPT ![lease[g]] = state]
    /\ Answer(g, 500)
    /\ Goto(g, "rollback")
    /\ UNCHANGED <<work, todo, oid>>

\* What an order is asked for with.
RequestOf(u, b) == [buyer |-> u, items |-> {b[i] : i \in DOMAIN b}]

\* A fault: the buyer is not checked (no foreign key).
InsertOrder_AnyBuyer(g) ==
    /\ At(g, "insert.order")
    /\ drawn < MaxOrders
    /\ drawn' = drawn + 1
    /\ asked' = Append(asked, RequestOf(buyer[g], todo[g]))
    /\ oid' = [oid EXCEPT ![g] = drawn + 1]
    /\ work' = [work EXCEPT ![lease[g]].orders = @ \cup {<<drawn + 1, buyer[g]>>}]
    /\ Goto(g, "insert.item")
    /\ UNCHANGED <<pool, dead, busy, tx, tables, kind, todo, buyer, rows, answer>>

\* INSERT INTO "Order": buyerId must be a user.  A value is drawn from the
\* serial whether or not the row stays.
InsertOrder(g) ==
    /\ At(g, "insert.order")
    /\ drawn < MaxOrders
    /\ LET c == lease[g] IN
       IF c \in dead
       THEN Fail(g, "none") /\ UNCHANGED <<drawn, asked>>
       ELSE /\ drawn' = drawn + 1
            /\ asked' = Append(asked, RequestOf(buyer[g], todo[g]))
            /\ IF buyer[g] \in Users
               THEN /\ oid' = [oid EXCEPT ![g] = drawn + 1]
                    /\ work' = [work EXCEPT ![c].orders = @ \cup {<<drawn + 1, buyer[g]>>}]
                    /\ Goto(g, "insert.item")
                    /\ UNCHANGED <<tx, todo, answer>>
               ELSE Fail(g, "failed")
    /\ UNCHANGED <<pool, dead, busy, tables, kind, buyer, rows>>

\* A row of "OrderItem": its product exists, its key is new.
Insertable(g, item) ==
    /\ item.product \in 1 .. products
    /\ \A r \in work[lease[g]].items : ~(r[1] = oid[g] /\ r[2].product = item.product)

\* A fault: the loop declares an err of its own, which the deferred function
\* does not see.
InsertItem_ShadowsErr(g) ==
    /\ At(g, "insert.item")
    /\ todo[g] # << >>
    /\ LET c    == lease[g]
           item == Head(todo[g]) IN
       IF c \notin dead /\ item.quantity <= MaxInt4 /\ Insertable(g, item)
       THEN /\ work' = [work EXCEPT ![c].items = @ \cup {<<oid[g], item>>}]
            /\ todo' = [todo EXCEPT ![g] = Tail(@)]
            /\ UNCHANGED <<tx, pc, answer>>
       ELSE /\ Answer(g, 500)
            /\ Goto(g, "commit")
            /\ UNCHANGED <<tx, work, todo>>
    /\ UNCHANGED <<pool, dead, busy, tables, drawn, kind, buyer, oid, rows, asked>>

\* The next item.  pgx itself refuses a quantity that does not fit the column,
\* so that failure leaves the transaction in the database as it was.
InsertItem(g) ==
    /\ At(g, "insert.item")
    /\ todo[g] # << >>
    /\ LET c    == lease[g]
           item == Head(todo[g]) IN
       IF c \in dead
       THEN Fail(g, "none")
       ELSE IF item.quantity > MaxInt4
       THEN Fail(g, "open")
       ELSE IF ~Insertable(g, item)
       THEN Fail(g, "failed")
       ELSE /\ work' = [work EXCEPT ![c].items = @ \cup {<<oid[g], item>>}]
            /\ todo' = [todo EXCEPT ![g] = Tail(@)]
            /\ UNCHANGED <<tx, pc, answer, oid>>
    /\ UNCHANGED <<pool, dead, busy, tables, drawn, kind, buyer, rows, asked>>

\* The summary is marshalled and 201 written, before the deferred function runs.
Created(g) ==
    /\ At(g, "insert.item")
    /\ todo[g] = << >>
    /\ Answer(g, 201)
    /\ Goto(g, "commit")
    /\ UNCHANGED <<pool, conns, tables, drawn, kind, todo, buyer, oid, rows, asked>>

\* The transaction of c is over in the database.
EndTx(c) == /\ tx' = [tx EXCEPT ![c] = "none"]
            /\ work' = [work EXCEPT ![c] = NoWork]

\* A fault: nothing rolls the transaction back.
Rollback_Forgotten(g) ==
    /\ At(g, "rollback")
    /\ Goto(g, "release")
    /\ UNCHANGED <<pool, conns, tables, drawn, requests, asked>>

\* The deferred function, with an error.
Rollback(g) ==
    /\ At(g, "rollback")
    /\ EndTx(lease[g])
    /\ Goto(g, "release")
    /\ UNCHANGED <<pool, dead, busy, tables, drawn, requests, asked>>

\* A fault: a handler that has answered returns without the commit.
Commit_Forgotten(g) ==
    /\ At(g, "commit")
    /\ EndTx(lease[g])
    /\ Goto(g, "release")
    /\ UNCHANGED <<pool, dead, busy, tables, drawn, requests, asked>>

\* The deferred function, without one.  A failed transaction or one that went
\* with its connection commits nothing; the error is logged.
Commit(g) ==
    /\ At(g, "commit")
    /\ LET c == lease[g] IN
       /\ IF tx[c] = "open"
          THEN /\ orders' = orders \cup work[c].orders
               /\ orderItems' = orderItems \cup work[c].items
          ELSE UNCHANGED <<orders, orderItems>>
       /\ EndTx(c)
       \* The connection may be lost with the database's answer on the way.
       /\ dead' \in {dead, dead \cup {c}}
    /\ Goto(g, "release")
    /\ UNCHANGED <<pool, busy, products, drawn, requests, asked>>

-----------------------------------------------------------------------------
\* Products: one INSERT, for a seller who must be a user and in a category that
\* must be there.  The connection may be lost with the database's answer on the
\* way.

InsertProduct(g) ==
    /\ At(g, "insert.product")
    /\ \/ /\ Usable(g) /\ buyer[g] \in Users /\ products < MaxProducts
          /\ products' = products + 1
          /\ \/ Answer(g, 200) /\ UNCHANGED dead
             \/ Answer(g, 500) /\ dead' = dead \cup {lease[g]}
       \/ Answer(g, 500) /\ UNCHANGED <<products, dead>>
    /\ Goto(g, "release")
    /\ UNCHANGED <<pool, busy, tx, work, orders, orderItems, drawn,
                   kind, todo, buyer, oid, rows, asked>>

-----------------------------------------------------------------------------
\* Queries.

\* The rows of a query are open: nobody else can use the connection.
Query(g) ==
    /\ At(g, "query")
    /\ Usable(g)
    /\ busy' = busy \cup {lease[g]}
    /\ rows' = [rows EXCEPT ![g] = lease[g]]
    /\ Goto(g, IF kind[g] = "row" THEN "release" ELSE "scan")
    /\ UNCHANGED <<pool, dead, tx, work, tables, drawn, kind, todo, buyer, oid, answer, asked>>

\* Query returns an error: the statement could not be prepared or sent.  With one
\* row to read, it may also be Next that finds none, or Scan that fails.  For a
\* list, what a lost or busy connection does to a statement that was prepared
\* before shows only in the rows, and the loop takes it for their end.
QueryFails(g) ==
    /\ At(g, "query")
    /\ \E s \in {200, 500} : /\ s = 200 => kind[g] = "list" /\ ~Usable(g)
                            /\ Answer(g, s)
    /\ Goto(g, "release")
    /\ UNCHANGED <<pool, conns, tables, drawn, kind, todo, buyer, oid, rows, asked>>

\* QueryRow and Scan; there may be no row, or no place for its columns.
QueryRow(g) ==
    /\ At(g, "queryrow")
    /\ \E s \in {200, 500} : (s = 200 => Usable(g)) /\ Answer(g, s)
    /\ Goto(g, "release")
    /\ UNCHANGED <<pool, conns, tables, drawn, kind, todo, buyer, oid, rows, asked>>

\* The rows of g are closed, by Close or by Next or Scan when they have no more.
EndRows(g) ==
    /\ busy' = busy \ {rows[g]}
    /\ rows' = [rows EXCEPT ![g] = NoConn]

\* The next row, which may have been received before its connection was lost.
ScanRow(g) ==
    /\ At(g, "scan")
    /\ todo[g] # << >>
    /\ todo' = [todo EXCEPT ![g] = Tail(@)]
    /\ UNCHANGED <<pool, conns, tables, drawn, pc, kind, buyer, oid, rows, answer, asked>>

\* A fault: one row is read where the loop is, and the rest left to the deferred
\* rows.Close.
RowsEnd_AfterFirst(g) ==
    /\ At(g, "scan")
    /\ Answer(g, 200)
    /\ Goto(g, "release")
    /\ UNCHANGED <<pool, conns, tables, drawn, kind, todo, buyer, oid, rows, asked>>

\* Next finds no other row, or an error: the database broke the statement off, or
\* the connection was lost.  rows.Err is not looked at, so that it is the end of
\* the list either way.
RowsEnd(g) ==
    /\ At(g, "scan")
    /\ EndRows(g)
    /\ Answer(g, 200)
    /\ Goto(g, "release")
    /\ UNCHANGED <<pool, dead, tx, work, tables, drawn, kind, todo, buyer, oid, asked>>

\* A row does not fit the variables: Scan closes the rows.
ScanFails(g) ==
    /\ At(g, "scan")
    /\ todo[g] # << >>
    /\ EndRows(g)
    /\ Answer(g, 500)
    /\ Goto(g, "release")
    /\ UNCHANGED <<pool, dead, tx, work, tables, drawn, kind, todo, buyer, oid, asked>>

\* The deferred rows.Close of a row, after all the rest.
CloseRows(g) ==
    /\ At(g, "close")
    /\ EndRows(g)
    /\ Return(g, 200)
    /\ UNCHANGED <<pool, dead, tx, work, tables, drawn, oid, asked>>

-----------------------------------------------------------------------------
Release(g) ==
    /\ At(g, "release")
    /\ Lease!Give(g)
    /\ IF rows[g] # NoConn
       THEN Goto(g, "close") /\ UNCHANGED <<kind, todo, buyer, answer>>
       ELSE Return(g, answer[g])
    /\ UNCHANGED <<conns, tables, drawn, oid, rows, asked>>

\* A connection that has been opened is lost, and with it what it had not
\* committed.
ConnectionLost(c) ==
    /\ c \in free \cup Lease!Leased
    /\ c \notin dead
    /\ dead' = dead \cup {c}
    /\ EndTx(c)
    /\ UNCHANGED <<pool, busy, tables, drawn, pc, requests, asked>>

\* The process ends, whoever ends it, and starts again.
Exit ==
    /\ Lease!Exit
    /\ dead' = {}
    /\ busy' = {}
    /\ tx' = [c \in Conn |-> "none"]
    /\ work' = [c \in Conn |-> NoWork]
    /\ pc' = [g \in Procs |-> "idle"]
    /\ kind' = [g \in Procs |-> "none"]
    /\ todo' = [g \in Procs |-> << >>]
    /\ buyer' = [g \in Procs |-> ZeroId]
    /\ oid' = [g \in Procs |-> NoOrder]
    /\ rows' = [g \in Procs |-> NoConn]
    /\ answer' = [g \in Procs |-> 0]
    /\ UNCHANGED <<tables, drawn, asked>>

Next ==
    \/ \E g \in Procs :
          \/ products_order_put(g) \/ products_order_post(g)
          \/ products_post(g) \/ SessionRegister(g) \/ user_post(g) \/ user_patch(g)
          \/ user_fetch_post(g) \/ categories_products_post(g)
          \/ products_comment_get(g) \/ noti_fetch_post(g)
          \/ Refuse(g) \/ Accept(g) \/ Borrow(g)
          \/ Begin(g) \/ InsertOrder(g) \/ InsertItem(g) \/ Created(g)
          \/ Rollback(g) \/ Commit(g)
          \/ InsertProduct(g) \/ Query(g) \/ QueryFails(g) \/ QueryRow(g)
          \/ ScanRow(g) \/ RowsEnd(g) \/ ScanFails(g) \/ CloseRows(g) \/ Release(g)
    \/ \E c \in Conn : ConnectionLost(c)
    \/ Exit

Spec == Init /\ [][Next]_vars

-----------------------------------------------------------------------------
TypeOK ==
    /\ free \subseteq Conn
    /\ lease \in [Procs -> Conn \cup {NoConn}]
    /\ dead \subseteq Conn
    /\ busy \subseteq Conn
    /\ tx \in [Conn -> {"none", "open", "failed"}]
    /\ products \in 1 .. MaxProducts
    /\ drawn \in 0 .. MaxOrders
    /\ \A o \in orders : o[1] \in 1 .. drawn /\ o[2] \in Users
    /\ kind \in [Procs -> {"none"} \cup DOMAIN FirstStep]
    /\ buyer \in [Procs -> Users \cup {ZeroId}]
    /\ oid \in [Procs -> 0 .. MaxOrders]
    /\ rows \in [Procs -> Conn \cup {NoConn}]
    /\ answer \in [Procs -> {0, 200, 201, 500}]
    /\ Len(asked) = drawn

\* An order is in the database as it was asked for, with all its items and with
\* its buyer, or not at all: whatever statement failed, whichever connection was
\* lost, and wherever the process ended.
AllOrNothing ==
    /\ \A o \in orders :
          /\ o[2] = asked[o[1]].buyer
          /\ {r[2] : r \in {i \in orderItems : i[1] = o[1]}} = asked[o[1]].items
    /\ \A r \in orderItems : \E o \in orders : o[1] = r[1]

\* A request that is answered with an error leaves no order behind.
RefusedMeansAbsent ==
    \A g \in Procs : (answer[g] = 500 /\ oid[g] # NoOrder) =>
        \A o \in orders : o[1] # oid[g]

\* A transaction is somebody's who is about to end it: a connection in the pool
\* has none, so no handler ever works inside another's.
TxHasOwner ==
    \A c \in Conn : (tx[c] # "none" \/ work[c] # NoWork) =>
        \E g \in Procs :
            /\ lease[g] = c
            /\ pc[g] \in {"insert.order", "insert.item", "rollback", "commit"}

\* A handler that has answered 201 and finished has committed its order, unless
\* it lost its connection first.
LostOrderMeansLostConnection ==
    \A g \in Procs : (answer[g] = 201 /\ At(g, "release")) =>
        \/ \E o \in orders : o[1] = oid[g]
        \/ lease[g] \in dead

\* A connection is busy only for the handler that borrowed it, or else for one of
\* a single row that has given it back and has only its deferred rows.Close left:
\* whoever reads on does so under its lease, and no rows stay open for good.
OpenRowsAreClosed ==
    \A c \in busy : \E g \in Procs :
        /\ rows[g] = c
        /\ \/ lease[g] = c /\ pc[g] \in {"scan", "release"}
           \/ kind[g] = "row" /\ At(g, "close")

\* Readers see the tables as an order book: whatever fails, whichever connection
\* is lost and wherever the process ends, a step of theirs is a whole order, a
\* product, or nothing.
Book == INSTANCE OrderBook
        WITH Requests <- {RequestOf(u, b) : u \in Users \cup {ZeroId},
                                          b \in {x \in Bodies : ValidItems(x)}}
ImplementsOrderBook == Book!Spec

\* route_products.go:621: when a commit fails, send an appropriate response; so
\* an order answered 201 is there once its handler is done.
CreatedMeansCommitted ==
    \A g \in Procs : (answer[g] = 201 /\ At(g, "idle")) =>
        \E o \in orders : o[1] = oid[g]

=============================================================================
