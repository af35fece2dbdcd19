----------------------------- MODULE ShopProofs -----------------------------
(***************************************************************************)
(* Proofs about Shop.tla.  The invariant comes in two halves.  Shape says  *)
(* what the variables hold at each step of a handler; it is enough for     *)
(* TypeOK and for the rows of a query.  Books says what a transaction      *)
(* holds and which orders are in the database; it is enough for the rest.  *)
(* Each conjunct has a lemma that says that a step preserves it.           *)
(***************************************************************************)
EXTENDS Shop, SequenceTheorems, TLAPS

Item    == [product : Nat, quantity : Int]
Request == [buyer : Nat, items : SUBSET Item]
Kinds   == {"order", "product", "row", "list", "single"}
Labels  == {"idle", "validate", "borrow", "begin", "insert.order", "insert.item",
            "rollback", "commit", "insert.product", "query", "queryrow", "scan",
            "release", "close"}
\* The steps of a handler that has a connection.
Leasing == {"begin", "insert.order", "insert.item", "rollback", "commit",
            "insert.product", "query", "queryrow", "scan", "release"}

-----------------------------------------------------------------------------
\* The first half of the invariant.

PoolTypes == /\ free \subseteq Conn
             /\ lease \in [Procs -> Conn \cup {NoConn}]

ConnTypes == /\ dead \subseteq Conn
             /\ busy \subseteq Conn
             /\ tx \in [Conn -> {"none", "open", "failed"}]

RequestTypes == /\ pc \in [Procs -> Labels]
                /\ kind \in [Procs -> {"none"} \cup Kinds]
                /\ buyer \in [Procs -> Users \cup {ZeroId}]
                /\ rows \in [Procs -> Conn \cup {NoConn}]

AnswerTypes == /\ oid \in [Procs -> 0 .. MaxOrders]
               /\ answer \in [Procs -> {0, 200, 201, 500}]

TodoTypes == /\ todo \in [Procs -> Seq(Item) \cup Seq(Nat)]
             /\ \A g \in Procs : kind[g] = "order" => todo[g] \in Seq(Item)

TableTypes == /\ products \in 1 .. MaxProducts
              /\ drawn \in 0 .. MaxOrders
              /\ \A o \in orders : o[1] \in 1 .. drawn /\ o[2] \in Users

WorkTypes ==
    /\ work \in [Conn -> [orders : SUBSET (Nat \X Nat), items : SUBSET (Nat \X Item)]]
    /\ \A c \in Conn : \A o \in work[c].orders : o[1] \in 1 .. drawn /\ o[2] \in Users

AskedTypes == asked \in Seq(Request) /\ Len(asked) = drawn

\* Which kind of handler takes which step.
Kinded == \A g \in Procs :
    /\ pc[g] = "idle" <=> kind[g] = "none"
    /\ pc[g] \in {"begin", "insert.order", "insert.item", "rollback", "commit"}
           => kind[g] = "order"
    /\ pc[g] = "insert.product" => kind[g] = "product"
    /\ pc[g] = "query" => kind[g] \in {"row", "list"}
    /\ pc[g] = "queryrow" => kind[g] = "single"
    /\ pc[g] = "scan" => kind[g] = "list"
    /\ kind[g] # "row" => rows[g] = NoConn \/ pc[g] = "scan"

\* A handler has a connection exactly between Borrow and Release.
Leased == \A g \in Procs : lease[g] # NoConn <=> pc[g] \in Leasing

\* No connection is two handlers', or a handler's and free.
Apart == \A g, h \in Procs : lease[g] # NoConn =>
    /\ lease[g] \notin free
    /\ lease[g] = lease[h] => g = h

\* When a handler has decided on an answer, and when it has no order yet.
Answered == \A g \in Procs :
    /\ pc[g] \in {"validate", "borrow", "begin", "insert.order", "insert.item",
                  "insert.product", "query", "queryrow", "scan"} => answer[g] = 0
    /\ pc[g] = "rollback" => answer[g] = 500
    /\ pc[g] = "commit" => answer[g] = 201
    /\ pc[g] \in {"validate", "borrow", "begin", "insert.order", "insert.product",
                  "query", "queryrow", "scan", "close"} => oid[g] = NoOrder
    /\ rows[g] # NoConn => oid[g] = NoOrder

\* A handler with open rows has yet to read or to close them, and has the connection
\* as long as it reads.
Reading == \A g \in Procs : rows[g] # NoConn =>
    /\ pc[g] \in {"scan", "release", "close"}
    /\ pc[g] # "close" => lease[g] = rows[g]

Shape == /\ PoolTypes /\ ConnTypes /\ RequestTypes /\ AnswerTypes /\ TodoTypes
         /\ TableTypes /\ WorkTypes /\ AskedTypes
         /\ Kinded /\ Leased /\ Apart /\ Answered /\ Reading

-----------------------------------------------------------------------------
\* What the actions do, told by their effects.

\* A number is drawn for g's order.
Drawn(g) ==
    /\ pc[g] = "insert.order"
    /\ drawn < MaxOrders
    /\ drawn' = drawn + 1
    /\ \E r \in Request : /\ r = RequestOf(buyer[g], todo[g])
                          /\ asked' = Append(asked, r)

\* InsertOrder or InsertItem, with an error.
Failed(g) ==
    /\ pc[g] \in {"insert.order", "insert.item"}
    /\ lease[g] \in Conn
    /\ Drawn(g) \/ UNCHANGED <<drawn, asked>>
    /\ pc' = [pc EXCEPT ![g] = "rollback"]
    /\ answer' = [answer EXCEPT ![g] = 500]
    /\ \E s \in {"none", "open", "failed"} :
          /\ tx' = [tx EXCEPT ![lease[g]] = s]
          /\ lease[g] \in dead => s = "none"
    /\ UNCHANGED <<free, lease, dead, busy, work, orders, orderItems, products,
                   kind, todo, buyer, oid, rows>>

\* InsertOrder, without an error.
Placed(g) ==
    /\ pc[g] = "insert.order"
    /\ lease[g] \in Conn \ dead
    /\ buyer[g] \in Users
    /\ Drawn(g)
    /\ oid' = [oid EXCEPT ![g] = drawn + 1]
    /\ work' = [work EXCEPT ![lease[g]] =
                    [orders |-> work[lease[g]].orders \cup {<<drawn + 1, buyer[g]>>},
                     items  |-> work[lease[g]].items]]
    /\ pc' = [pc EXCEPT ![g] = "insert.item"]
    /\ UNCHANGED <<free, lease, dead, busy, tx, orders, orderItems, products,
                   kind, todo, buyer, rows, answer>>

\* InsertItem, without an error.
Inserted(g) ==
    /\ pc[g] = "insert.item"
    /\ lease[g] \in Conn \ dead
    /\ todo[g] \in Seq(Item) \ {<< >>}
    /\ Head(todo[g]).quantity <= MaxInt4
    /\ Insertable(g, Head(todo[g]))
    /\ work' = [work EXCEPT ![lease[g]] =
                    [orders |-> work[lease[g]].orders,
                     items  |-> work[lease[g]].items \cup {<<oid[g], Head(todo[g])>>}]]
    /\ todo' = [todo EXCEPT ![g] = Tail(todo[g])]
    /\ UNCHANGED <<free, lease, dead, busy, tx, orders, orderItems, products, drawn,
                   pc, kind, buyer, oid, rows, answer, asked>>

\* Release, of a handler that has rows to close.
Closing(g) ==
    /\ pc[g] = "release"
    /\ lease[g] \in Conn
    /\ rows[g] # NoConn
    /\ free' = free \cup {lease[g]}
    /\ lease' = [lease EXCEPT ![g] = NoConn]
    /\ pc' = [pc EXCEPT ![g] = "close"]
    /\ UNCHANGED <<dead, busy, tx, work, orders, orderItems, products, drawn,
                   kind, todo, buyer, oid, rows, answer, asked>>

\* Release, of a handler that returns with it.
Leaving(g) ==
    /\ pc[g] = "release"
    /\ lease[g] \in Conn
    /\ rows[g] = NoConn
    /\ free' = free \cup {lease[g]}
    /\ lease' = [lease EXCEPT ![g] = NoConn]
    /\ pc' = [pc EXCEPT ![g] = "idle"]
    /\ kind' = [kind EXCEPT ![g] = "none"]
    /\ todo' = [todo EXCEPT ![g] = << >>]
    /\ buyer' = [buyer EXCEPT ![g] = ZeroId]
    /\ answer' \in {answer, [answer EXCEPT ![g] = 0]}
    /\ oid[g] # NoOrder => answer' = answer
    /\ UNCHANGED <<dead, busy, tx, work, orders, orderItems, products, drawn,
                   oid, rows, asked>>

\* Refuse, and CloseRows but for the rows: a handler returns that has no order.
Returning(g) ==
    /\ pc[g] \in {"validate", "close"}
    /\ oid[g] = NoOrder
    /\ pc' = [pc EXCEPT ![g] = "idle"]
    /\ kind' = [kind EXCEPT ![g] = "none"]
    /\ todo' = [todo EXCEPT ![g] = << >>]
    /\ buyer' = [buyer EXCEPT ![g] = ZeroId]
    /\ answer' = [answer EXCEPT ![g] = 0]
    /\ UNCHANGED <<free, lease, dead, tx, work, orders, orderItems, products, drawn,
                   oid, asked>>

Refused(g) == pc[g] = "validate" /\ Returning(g) /\ UNCHANGED <<busy, rows>>

Closed(g) == pc[g] = "close" /\ Returning(g) /\ EndRows(g)

\* A request of kind k for b arrives.
Arrived(g, k, b) ==
    /\ pc[g] = "idle"
    /\ k = "order" => b \in Seq(Item) \cap Bodies
    /\ pc' = [pc EXCEPT ![g] = "validate"]
    /\ kind' = [kind EXCEPT ![g] = k]
    /\ todo' = [todo EXCEPT ![g] = b]
    /\ oid' = [oid EXCEPT ![g] = NoOrder]
    /\ answer' = [answer EXCEPT ![g] = 0]
    /\ UNCHANGED <<free, lease, dead, busy, tx, work, orders, orderItems, products, drawn,
                   buyer, rows, asked>>

\* A connection c is leased to g, whose first step is l.
Borrowed(g, c, l) ==
    /\ pc[g] = "borrow"
    /\ lease[g] = NoConn
    /\ \A h \in Procs : lease[h] # c
    /\ lease' = [lease EXCEPT ![g] = c]
    /\ free' = free \ {c}
    /\ pc' = [pc EXCEPT ![g] = l]
    /\ l = "begin" => kind[g] = "order"
    /\ l = "insert.product" => kind[g] = "product"
    /\ l = "query" => kind[g] \in {"row", "list"}
    /\ l = "queryrow" => kind[g] = "single"
    /\ UNCHANGED <<dead, busy, tx, work, orders, orderItems, products, drawn,
                   kind, todo, buyer, oid, rows, answer, asked>>

FirstLabels == {"begin", "insert.product", "query", "queryrow"}

\* The empty sequence is a list of items too.
LEMMA NoItems == << >> \in Seq(Item)
OBVIOUS

\* What FirstStep is, kind by kind.
LEMMA FirstSteps ==
    /\ DOMAIN FirstStep = Kinds
    /\ FirstStep["order"] = "begin"
    /\ FirstStep["product"] = "insert.product"
    /\ FirstStep["row"] = "query"
    /\ FirstStep["list"] = "query"
    /\ FirstStep["single"] = "queryrow"
BY DEF FirstStep, Kinds

\* A request arrives with the items or the users of its body.
LEMMA ArriveFacts ==
    ASSUME NEW g \in Procs, NEW k \in Kinds, NEW b \in Bodies \cup Lists \cup {<< >>},
           k = "order" => b \in Bodies,
           Arrive(g, k, b)
    PROVE  b \in Seq(Item) \cup Seq(Nat) /\ Arrived(g, k, b)
<1>1. b \in Seq(Item) \cup Seq(Nat) /\ (k = "order" => b \in Seq(Item) \cap Bodies)
  BY NoItems, BodiesAssumption DEF Item
<1> QED
  BY <1>1 DEF Arrive, Arrived, At, Goto, Answer, pool, conns, tables

\* Borrow leases a connection that nobody has.
LEMMA BorrowFacts ==
    ASSUME Shape, NEW g \in Procs, Borrow(g)
    PROVE  \E c \in Conn, l \in FirstLabels : Borrowed(g, c, l)
<1>1. pc[g] = "borrow" /\ lease[g] = NoConn
  BY DEF Borrow, At, Lease!Take, Lease!Open
<1>2. PICK c \in Conn : /\ lease' = [lease EXCEPT ![g] = c]
                        /\ free' = free \ {c}
                        /\ \A h \in Procs : lease[h] # c
  <2>1. CASE Lease!Open(g)
    <3>1. PICK c \in Conn \ (free \cup Lease!Leased) : lease' = [lease EXCEPT ![g] = c]
      BY <2>1 DEF Lease!Open
    <3>2. free' = free /\ free' = free \ {c}
      BY <2>1, <3>1 DEF Lease!Open
    <3>3. \A h \in Procs : lease[h] # c
      BY <3>1, ConnAssumption DEF Lease!Leased
    <3> QED
      BY <3>1, <3>2, <3>3
  <2>2. CASE Lease!Take(g)
    <3>1. PICK c \in free : lease' = [lease EXCEPT ![g] = c] /\ free' = free \ {c}
      BY <2>2 DEF Lease!Take
    <3>2. c \in Conn /\ \A h \in Procs : lease[h] # c
      BY <3>1, ConnAssumption DEF Shape, PoolTypes, Apart
    <3> QED
      BY <3>1, <3>2
  <2> QED
    BY <2>1, <2>2 DEF Borrow
<1>3. kind[g] \in Kinds
  BY <1>1 DEF Shape, RequestTypes, Kinded
<1>4. pc' = [pc EXCEPT ![g] = FirstStep[kind[g]]]
  BY DEF Borrow, Goto
<1>5. UNCHANGED <<dead, busy, tx, work, orders, orderItems, products, drawn,
                  kind, todo, buyer, oid, rows, answer, asked>>
  BY DEF Borrow, conns, requests, tables
<1>6. \E l \in FirstLabels :
         /\ pc' = [pc EXCEPT ![g] = l]
         /\ l = "begin" => kind[g] = "order"
         /\ l = "insert.product" => kind[g] = "product"
         /\ l = "query" => kind[g] \in {"row", "list"}
         /\ l = "queryrow" => kind[g] = "single"
  BY <1>3, <1>4, FirstSteps DEF FirstLabels, Kinds
<1> QED
  BY <1>1, <1>2, <1>5, <1>6 DEF Borrowed

\* Release either leaves rows to close or returns.
LEMMA ReleaseFacts ==
    ASSUME Shape, NEW g \in Procs, Release(g)
    PROVE  Closing(g) \/ Leaving(g)
<1>1. pc[g] = "release" /\ lease[g] \in Conn
  BY DEF Release, At, Lease!Give, Shape, PoolTypes
<1>2. free' = free \cup {lease[g]} /\ lease' = [lease EXCEPT ![g] = NoConn]
  BY DEF Release, Lease!Give
<1>3. UNCHANGED <<dead, busy, tx, work, orders, orderItems, products, drawn,
                  oid, rows, asked>>
  BY DEF Release, conns, tables
<1>4. CASE rows[g] # NoConn
  BY <1>1, <1>2, <1>3, <1>4 DEF Release, Goto, Closing
<1>5. CASE rows[g] = NoConn
  <2>1. Return(g, answer[g])
    BY <1>5 DEF Release
  <2>2. answer = [answer EXCEPT ![g] = answer[g]]
    BY DEF Shape, AnswerTypes
  <2>3. /\ answer' \in {answer, [answer EXCEPT ![g] = 0]}
        /\ oid[g] # NoOrder => answer' = answer
    BY <2>1, <2>2 DEF Return, Answer
  <2>4. /\ pc' = [pc EXCEPT ![g] = "idle"]
        /\ kind' = [kind EXCEPT ![g] = "none"]
        /\ todo' = [todo EXCEPT ![g] = << >>]
        /\ buyer' = [buyer EXCEPT ![g] = ZeroId]
    BY <2>1 DEF Return, Goto
  <2> QED
    BY <1>1, <1>2, <1>3, <1>5, <2>3, <2>4 DEF Leaving
<1> QED
  BY <1>4, <1>5

\* Refuse returns without an order.
LEMMA RefuseFacts ==
    ASSUME Shape, NEW g \in Procs, Refuse(g)
    PROVE  Refused(g)
<1>1. pc[g] = "validate" /\ oid[g] = NoOrder
  BY DEF Refuse, At, Shape, Answered
<1>2. PICK s \in {400, 401} : Return(g, s)
  BY DEF Refuse
<1> QED
  BY <1>1, <1>2 DEF Refuse, Refused, Returning, Return, Goto, Answer, pool, conns, tables

\* CloseRows returns without an order.
LEMMA CloseRowsFacts ==
    ASSUME Shape, NEW g \in Procs, CloseRows(g)
    PROVE  Closed(g)
<1>1. pc[g] = "close" /\ oid[g] = NoOrder
  BY DEF CloseRows, At, Shape, Answered
<1> QED
  BY <1>1 DEF CloseRows, Closed, Returning, Return, Goto, Answer, pool, tables

\* The request of an order about to be inserted is one.
LEMMA RequestFacts ==
    ASSUME Shape, NEW g \in Procs, pc[g] = "insert.order"
    PROVE  RequestOf(buyer[g], todo[g]) \in Request
<1>1. todo[g] \in Seq(Item)
  BY DEF Shape, Kinded, TodoTypes
<1>2. \A i \in DOMAIN todo[g] : todo[g][i] \in Item
  BY <1>1
<1>3. buyer[g] \in Nat
  <2>1. buyer[g] \in Users \cup {ZeroId} /\ ZeroId \in Nat
    BY DEF Shape, RequestTypes, ZeroId
  <2> QED
    BY <2>1, UsersAssumption
<1> QED
  BY <1>2, <1>3 DEF Request, RequestOf

\* InsertOrder fails or inserts the row.
LEMMA InsertOrderFacts ==
    ASSUME Shape, NEW g \in Procs, InsertOrder(g)
    PROVE  Failed(g) \/ Placed(g)
<1> DEFINE c == lease[g]
<1>1. pc[g] = "insert.order" /\ c \in Conn
  BY DEF InsertOrder, At, Shape, Leased, Leasing, PoolTypes
<1>2. UNCHANGED <<free, lease, dead, busy, orders, orderItems, products,
                  kind, buyer, rows>>
  BY DEF InsertOrder, pool, tables
<1>3. CASE c \in dead
  BY <1>1, <1>2, <1>3 DEF InsertOrder, Fail, Goto, Answer, Failed
<1>4. CASE c \notin dead
  <2>1. Drawn(g)
    BY <1>1, <1>4, RequestFacts DEF InsertOrder, Drawn
  <2>2. CASE buyer[g] \notin Users
    BY <1>1, <1>2, <1>4, <2>1, <2>2 DEF InsertOrder, Fail, Goto, Answer, Failed
  <2>3. CASE buyer[g] \in Users
    <3>1. work' = [work EXCEPT ![c].orders = @ \cup {<<drawn + 1, buyer[g]>>}]
      BY <1>4, <2>3 DEF InsertOrder
    <3>2. work[c] \in [orders : SUBSET (Nat \X Nat), items : SUBSET (Nat \X Item)]
      BY <1>1 DEF Shape, WorkTypes
    <3>3. work' = [work EXCEPT ![c] =
                      [orders |-> work[c].orders \cup {<<drawn + 1, buyer[g]>>},
                       items  |-> work[c].items]]
      <4> DEFINE new == {<<drawn + 1, buyer[g]>>}
      <4>1. work' = [work EXCEPT ![c].orders = @ \cup new]
        BY <3>1
      <4> HIDE DEF new
      <4>2. [work[c] EXCEPT !.orders = @ \cup new]
               = [orders |-> work[c].orders \cup new, items |-> work[c].items]
        BY <3>2
      <4>3. work' = [work EXCEPT ![c] = [orders |-> work[c].orders \cup new,
                                         items  |-> work[c].items]]
        BY <4>1, <4>2
      <4> QED
        BY <4>3 DEF new
    <3> QED
      BY <1>1, <1>2, <1>4, <2>1, <2>3, <3>3 DEF InsertOrder, Goto, Placed
  <2> QED
    BY <2>2, <2>3
<1> QED
  BY <1>3, <1>4

\* InsertItem fails or inserts the row.
LEMMA InsertItemFacts ==
    ASSUME Shape, NEW g \in Procs, InsertItem(g)
    PROVE  Failed(g) \/ Inserted(g)
<1> DEFINE c    == lease[g]
           item == Head(todo[g])
           good == c \notin dead /\ ~(item.quantity > MaxInt4) /\ Insertable(g, item)
<1>1. pc[g] = "insert.item" /\ c \in Conn
  BY DEF InsertItem, At, Shape, Leased, Leasing, PoolTypes
<1>2. todo[g] \in Seq(Item) \ {<< >>}
  BY <1>1 DEF InsertItem, Shape, Kinded, TodoTypes
<1>3. UNCHANGED <<free, lease, dead, busy, orders, orderItems, products, drawn,
                  kind, buyer, oid, rows, asked>>
  BY DEF InsertItem, Fail, pool, tables
<1>4. CASE ~good
  BY <1>1, <1>2, <1>3, <1>4 DEF InsertItem, Fail, Goto, Answer, Failed
<1>5. CASE good
  <2>1. /\ work' = [work EXCEPT ![c].items = @ \cup {<<oid[g], item>>}]
        /\ todo' = [todo EXCEPT ![g] = Tail(@)]
        /\ UNCHANGED <<tx, pc, answer>>
    BY <1>5 DEF InsertItem
  <2>2. work[c] \in [orders : SUBSET (Nat \X Nat), items : SUBSET (Nat \X Item)]
    BY <1>1 DEF Shape, WorkTypes
  <2>3. work' = [work EXCEPT ![c] =
                    [orders |-> work[c].orders,
                     items  |-> work[c].items \cup {<<oid[g], item>>}]]
    <3>1. [work[c] EXCEPT !.items = @ \cup {<<oid[g], item>>}]
             = [orders |-> work[c].orders,
                items  |-> work[c].items \cup {<<oid[g], item>>}]
      BY <2>2
    <3> QED
      BY <2>1, <3>1
  <2>4. item.quantity <= MaxInt4
    <3>1. item \in Item
      <4>1. Head(todo[g]) = todo[g][1] /\ 1 \in DOMAIN todo[g]
        BY <1>2
      <4> QED
        BY <1>2, <4>1
    <3> QED
      BY <1>5, <3>1, BodiesAssumption DEF Item
  <2> QED
    BY <1>1, <1>2, <1>3, <1>5, <2>1, <2>3, <2>4 DEF Inserted
<1> QED
  BY <1>4, <1>5

\* Every step is one of these.
StepOf(g) ==
    \/ \E k \in Kinds, b \in Seq(Item) \cup Seq(Nat) : Arrived(g, k, b)
    \/ Refused(g) \/ Accept(g)
    \/ \E c \in Conn, l \in FirstLabels : Borrowed(g, c, l)
    \/ Begin(g) \/ Failed(g) \/ Placed(g) \/ Inserted(g) \/ Created(g)
    \/ Rollback(g) \/ Commit(g)
    \/ InsertProduct(g) \/ Query(g) \/ QueryFails(g) \/ QueryRow(g)
    \/ ScanRow(g) \/ RowsEnd(g) \/ ScanFails(g) \/ Closed(g) \/ Closing(g) \/ Leaving(g)

\* Every step is a handler's, the loss of a connection, an exit or a stutter.
LEMMA StepFacts ==
    ASSUME Shape, [Next]_vars
    PROVE  \/ \E g \in Procs : StepOf(g)
           \/ \E c \in Conn : ConnectionLost(c)
           \/ Exit
           \/ UNCHANGED vars
<1>1. ASSUME NEW g \in Procs,
             \/ products_order_put(g) \/ products_order_post(g)
             \/ products_post(g) \/ SessionRegister(g) \/ user_post(g) \/ user_patch(g)
             \/ user_fetch_post(g) \/ categories_products_post(g)
             \/ products_comment_get(g) \/ noti_fetch_post(g)
      PROVE  StepOf(g)
  <2>1. PICK k \in Kinds, b \in Bodies \cup Lists \cup {<< >>} :
           (k = "order" => b \in Bodies) /\ Arrive(g, k, b)
    BY <1>1 DEF products_order_put, products_order_post, products_post, SessionRegister,
                user_post, user_patch, user_fetch_post, categories_products_post,
                products_comment_get, noti_fetch_post, Kinds
  <2> QED
    BY <2>1, ArriveFacts DEF StepOf
<1>2. ASSUME NEW g \in Procs,
             \/ Refuse(g) \/ Borrow(g) \/ InsertOrder(g) \/ InsertItem(g)
             \/ CloseRows(g) \/ Release(g)
      PROVE  StepOf(g)
  BY <1>2, RefuseFacts, BorrowFacts, InsertOrderFacts, InsertItemFacts, CloseRowsFacts,
     ReleaseFacts DEF StepOf
<1>3. ASSUME NEW g \in Procs,
             \/ Accept(g) \/ Begin(g) \/ Created(g) \/ Rollback(g) \/ Commit(g)
             \/ InsertProduct(g) \/ Query(g) \/ QueryFails(g) \/ QueryRow(g)
             \/ ScanRow(g) \/ RowsEnd(g) \/ ScanFails(g)
      PROVE  StepOf(g)
  BY <1>3 DEF StepOf
<1> QED
  BY <1>1, <1>2, <1>3 DEF Next

-----------------------------------------------------------------------------
\* A step preserves Shape.

\* The pool: only Borrow, Release and Exit touch it.
LEMMA PoolTypesStep == Shape /\ [Next]_vars => PoolTypes'
<1> SUFFICES ASSUME Shape, [Next]_vars PROVE PoolTypes'
  OBVIOUS
<1>a. PoolTypes
  BY DEF Shape
<1> USE <1>a, ConnAssumption DEF PoolTypes
<1>1. ASSUME NEW g \in Procs, NEW c \in Conn, NEW l \in FirstLabels, Borrowed(g, c, l)
      PROVE PoolTypes'
  BY <1>1 DEF Borrowed
<1>2. ASSUME NEW g \in Procs, Closing(g) PROVE PoolTypes'
  BY <1>2 DEF Closing
<1>3. ASSUME NEW g \in Procs, Leaving(g) PROVE PoolTypes'
  BY <1>3 DEF Leaving
<1>4. CASE UNCHANGED <<free, lease>>
  BY <1>4
<1>5. ASSUME NEW g \in Procs,
             \/ \E k \in Kinds, b \in Seq(Item) \cup Seq(Nat) : Arrived(g, k, b)
             \/ Refused(g) \/ Accept(g) \/ Begin(g) \/ Failed(g) \/ Placed(g)
             \/ Inserted(g) \/ Created(g) \/ Rollback(g) \/ Commit(g) \/ InsertProduct(g)
             \/ Query(g) \/ QueryFails(g) \/ QueryRow(g) \/ ScanRow(g) \/ RowsEnd(g) \/ ScanFails(g)
             \/ Closed(g)
      PROVE  UNCHANGED <<free, lease>>
  BY <1>5 DEF Arrived, Refused, Returning, Accept, Goto, At, pool, conns, tables, Begin,
     Answer, Usable, Failed, Drawn, Placed, Inserted, Created, Rollback, EndTx, requests,
     Commit, InsertProduct, Query, QueryFails, QueryRow, ScanRow, RowsEnd, ScanFails, EndRows, Closed
<1>6. ASSUME NEW x \in Conn, ConnectionLost(x) PROVE UNCHANGED <<free, lease>>
  BY <1>6 DEF ConnectionLost, pool, tables, requests
<1>7. CASE Exit
  BY <1>7 DEF Exit, Lease!Exit, tables
<1>8. CASE UNCHANGED vars
  BY <1>8 DEF vars, pool, conns, tables, requests
<1> QED
  BY <1>1, <1>2, <1>3, <1>4, <1>5, <1>6, <1>7, <1>8, StepFacts DEF StepOf

\* The connections: only their leaseholders touch them.
LEMMA ConnTypesStep == Shape /\ [Next]_vars => ConnTypes'
<1> SUFFICES ASSUME Shape, [Next]_vars PROVE ConnTypes'
  OBVIOUS
<1>a. ConnTypes /\ PoolTypes /\ RequestTypes /\ Leased
  BY DEF Shape
<1> USE <1>a, ConnAssumption DEF ConnTypes, PoolTypes, RequestTypes, Leased, Leasing
<1>1. ASSUME NEW g \in Procs, Begin(g) PROVE ConnTypes'
  BY <1>1 DEF Begin, At, Goto, Answer, Usable, pool, tables
<1>2. ASSUME NEW g \in Procs, Failed(g) PROVE ConnTypes'
  BY <1>2 DEF Failed, Drawn
<1>3. ASSUME NEW g \in Procs, Rollback(g) PROVE ConnTypes'
  BY <1>3 DEF Rollback, EndTx, At, Goto, pool, tables, requests
<1>4. ASSUME NEW g \in Procs, Commit(g) PROVE ConnTypes'
  BY <1>4 DEF Commit, EndTx, At, Goto, pool, requests
<1>5. ASSUME NEW g \in Procs, InsertProduct(g) PROVE ConnTypes'
  BY <1>5 DEF InsertProduct, At, Goto, Answer, Usable, pool
<1>6. ASSUME NEW g \in Procs, Query(g) PROVE ConnTypes'
  BY <1>6 DEF Query, At, Goto, Usable, pool, tables
<1>7. ASSUME NEW g \in Procs, RowsEnd(g) \/ ScanFails(g) PROVE ConnTypes'
  <2>1. CASE RowsEnd(g)
    BY <2>1 DEF RowsEnd, EndRows, At, Goto, Answer, pool, tables
  <2>2. CASE ScanFails(g)
    BY <2>2 DEF ScanFails, EndRows, At, Goto, Answer, pool, tables
  <2> QED
    BY <1>7, <2>1, <2>2
<1>8. ASSUME NEW g \in Procs, Closed(g) PROVE ConnTypes'
  BY <1>8 DEF Closed, Returning, EndRows
<1>9. CASE UNCHANGED <<dead, busy, tx>>
  BY <1>9
<1>10. ASSUME NEW g \in Procs,
             \/ \E k \in Kinds, b \in Seq(Item) \cup Seq(Nat) : Arrived(g, k, b)
             \/ Refused(g) \/ Accept(g)
             \/ \E c \in Conn, l \in FirstLabels : Borrowed(g, c, l)
             \/ Placed(g) \/ Inserted(g) \/ Created(g) \/ QueryFails(g) \/ QueryRow(g)
             \/ ScanRow(g) \/ Closing(g) \/ Leaving(g)
      PROVE  UNCHANGED <<dead, busy, tx>>
  BY <1>10 DEF Arrived, Refused, Returning, Accept, Goto, At, pool, conns, tables, Borrowed,
     Placed, Drawn, Inserted, Created, Answer, QueryFails, QueryRow, Usable, ScanRow,
     Closing, Leaving
<1>11. ASSUME NEW x \in Conn, ConnectionLost(x) PROVE ConnTypes'
  BY <1>11 DEF ConnectionLost, EndTx, pool, tables, requests
<1>12. CASE Exit
  BY <1>12 DEF Exit, Lease!Exit, tables
<1>13. CASE UNCHANGED vars
  BY <1>13 DEF vars, pool, conns, tables, requests
<1> QED
  BY <1>1, <1>2, <1>3, <1>4, <1>5, <1>6, <1>7, <1>8, <1>9, <1>10, <1>11, <1>12, <1>13,
     StepFacts DEF StepOf

\* Where the handlers are, and for whom.
LEMMA RequestTypesStep == Shape /\ [Next]_vars => RequestTypes'
<1> SUFFICES ASSUME Shape, [Next]_vars PROVE RequestTypes'
  OBVIOUS
<1>a. RequestTypes /\ PoolTypes /\ Leased
  BY DEF Shape
<1> USE <1>a, ConnAssumption DEF RequestTypes, PoolTypes, Leased, Labels, Leasing, Kinds,
    FirstLabels, ZeroId
<1>1. ASSUME NEW g \in Procs, NEW k \in Kinds, NEW b \in Seq(Item) \cup Seq(Nat),
             Arrived(g, k, b)
      PROVE RequestTypes'
  BY <1>1 DEF Arrived
<1>2. ASSUME NEW g \in Procs, Refused(g) PROVE RequestTypes'
  BY <1>2 DEF Refused, Returning
<1>3. ASSUME NEW g \in Procs, Accept(g) PROVE RequestTypes'
  BY <1>3 DEF Accept, Goto, At, pool, conns, tables
<1>4. ASSUME NEW g \in Procs, NEW c \in Conn, NEW l \in FirstLabels, Borrowed(g, c, l)
      PROVE RequestTypes'
  BY <1>4 DEF Borrowed
<1>5. ASSUME NEW g \in Procs, Begin(g) PROVE RequestTypes'
  BY <1>5 DEF Begin, At, Goto, Answer, Usable, pool, tables
<1>6. ASSUME NEW g \in Procs, Failed(g) PROVE RequestTypes'
  BY <1>6 DEF Failed, Drawn
<1>7. ASSUME NEW g \in Procs, Placed(g) PROVE RequestTypes'
  BY <1>7 DEF Placed, Drawn
<1>8. ASSUME NEW g \in Procs, Created(g) PROVE RequestTypes'
  BY <1>8 DEF Created, At, Goto, Answer, pool, conns, tables
<1>9. ASSUME NEW g \in Procs, Rollback(g) PROVE RequestTypes'
  BY <1>9 DEF Rollback, EndTx, At, Goto, pool, tables, requests
<1>10. ASSUME NEW g \in Procs, Commit(g) PROVE RequestTypes'
  BY <1>10 DEF Commit, EndTx, At, Goto, pool, requests
<1>11. ASSUME NEW g \in Procs, InsertProduct(g) PROVE RequestTypes'
  BY <1>11 DEF InsertProduct, At, Goto, Answer, Usable, pool
<1>12. ASSUME NEW g \in Procs, Query(g) PROVE RequestTypes'
  BY <1>12 DEF Query, At, Goto, Usable, pool, tables
<1>13. ASSUME NEW g \in Procs, QueryFails(g) PROVE RequestTypes'
  BY <1>13 DEF QueryFails, At, Goto, Answer, pool, conns, tables
<1>14. ASSUME NEW g \in Procs, QueryRow(g) PROVE RequestTypes'
  BY <1>14 DEF QueryRow, At, Goto, Answer, Usable, pool, conns, tables
<1>15. ASSUME NEW g \in Procs, RowsEnd(g) \/ ScanFails(g) PROVE RequestTypes'
  <2>1. CASE RowsEnd(g)
    BY <2>1 DEF RowsEnd, EndRows, At, Goto, Answer, pool, tables
  <2>2. CASE ScanFails(g)
    BY <2>2 DEF ScanFails, EndRows, At, Goto, Answer, pool, tables
  <2> QED
    BY <1>15, <2>1, <2>2
<1>16. ASSUME NEW g \in Procs, Closed(g) PROVE RequestTypes'
  BY <1>16 DEF Closed, Returning, EndRows
<1>17. ASSUME NEW g \in Procs, Closing(g) PROVE RequestTypes'
  BY <1>17 DEF Closing
<1>18. ASSUME NEW g \in Procs, Leaving(g) PROVE RequestTypes'
  BY <1>18 DEF Leaving
<1>19. CASE UNCHANGED <<pc, kind, buyer, rows>>
  BY <1>19
<1>20. ASSUME NEW g \in Procs,
             \/ Inserted(g) \/ ScanRow(g)
      PROVE  UNCHANGED <<pc, kind, buyer, rows>>
  BY <1>20 DEF Inserted, ScanRow, At, pool, conns, tables
<1>21. ASSUME NEW x \in Conn, ConnectionLost(x) PROVE UNCHANGED <<pc, kind, buyer, rows>>
  BY <1>21 DEF ConnectionLost, pool, tables, requests
<1>22. CASE Exit
  BY <1>22 DEF Exit, Lease!Exit, tables
<1>23. CASE UNCHANGED vars
  BY <1>23 DEF vars, pool, conns, tables, requests
<1> QED
  BY <1>1, <1>2, <1>3, <1>4, <1>5, <1>6, <1>7, <1>8, <1>9, <1>10, <1>11, <1>12, <1>13,
     <1>14, <1>15, <1>16, <1>17, <1>18, <1>19, <1>20, <1>21, <1>22, <1>23, StepFacts DEF StepOf

\* Their orders and answers.
LEMMA AnswerTypesStep == Shape /\ [Next]_vars => AnswerTypes'
<1> SUFFICES ASSUME Shape, [Next]_vars PROVE AnswerTypes'
  OBVIOUS
<1>a. AnswerTypes /\ TableTypes
  BY DEF Shape
<1> USE <1>a, BoundsAssumption DEF AnswerTypes, TableTypes, NoOrder
<1>1. ASSUME NEW g \in Procs, NEW k \in Kinds, NEW b \in Seq(Item) \cup Seq(Nat),
             Arrived(g, k, b)
      PROVE AnswerTypes'
  BY <1>1 DEF Arrived
<1>2. ASSUME NEW g \in Procs, Refused(g) PROVE AnswerTypes'
  BY <1>2 DEF Refused, Returning
<1>3. ASSUME NEW g \in Procs, Begin(g) PROVE AnswerTypes'
  BY <1>3 DEF Begin, At, Goto, Answer, Usable, pool, tables
<1>4. ASSUME NEW g \in Procs, Failed(g) PROVE AnswerTypes'
  BY <1>4 DEF Failed, Drawn
<1>5. ASSUME NEW g \in Procs, Placed(g) PROVE AnswerTypes'
  BY <1>5 DEF Placed, Drawn
<1>6. ASSUME NEW g \in Procs, Created(g) PROVE AnswerTypes'
  BY <1>6 DEF Created, At, Goto, Answer, pool, conns, tables
<1>7. ASSUME NEW g \in Procs, InsertProduct(g) PROVE AnswerTypes'
  BY <1>7 DEF InsertProduct, At, Goto, Answer, Usable, pool
<1>8. ASSUME NEW g \in Procs, QueryFails(g) PROVE AnswerTypes'
  BY <1>8 DEF QueryFails, At, Goto, Answer, pool, conns, tables
<1>9. ASSUME NEW g \in Procs, QueryRow(g) PROVE AnswerTypes'
  BY <1>9 DEF QueryRow, At, Goto, Answer, Usable, pool, conns, tables
<1>10. ASSUME NEW g \in Procs, RowsEnd(g) \/ ScanFails(g) PROVE AnswerTypes'
  <2>1. CASE RowsEnd(g)
    BY <2>1 DEF RowsEnd, EndRows, At, Goto, Answer, pool, tables
  <2>2. CASE ScanFails(g)
    BY <2>2 DEF ScanFails, EndRows, At, Goto, Answer, pool, tables
  <2> QED
    BY <1>10, <2>1, <2>2
<1>11. ASSUME NEW g \in Procs, Closed(g) PROVE AnswerTypes'
  BY <1>11 DEF Closed, Returning, EndRows
<1>12. ASSUME NEW g \in Procs, Leaving(g) PROVE AnswerTypes'
  BY <1>12 DEF Leaving
<1>13. CASE UNCHANGED <<oid, answer>>
  BY <1>13
<1>14. ASSUME NEW g \in Procs,
             \/ Accept(g)
             \/ \E c \in Conn, l \in FirstLabels : Borrowed(g, c, l)
             \/ Inserted(g) \/ Rollback(g) \/ Commit(g) \/ Query(g) \/ ScanRow(g)
             \/ Closing(g)
      PROVE  UNCHANGED <<oid, answer>>
  BY <1>14 DEF Accept, Goto, At, pool, conns, tables, Borrowed, Inserted, Rollback, EndTx,
     requests, Commit, Query, Usable, ScanRow, Closing
<1>15. ASSUME NEW x \in Conn, ConnectionLost(x) PROVE UNCHANGED <<oid, answer>>
  BY <1>15 DEF ConnectionLost, pool, tables, requests
<1>16. CASE Exit
  BY <1>16 DEF Exit, Lease!Exit, tables
<1>17. CASE UNCHANGED vars
  BY <1>17 DEF vars, pool, conns, tables, requests
<1> QED
  BY <1>1, <1>2, <1>3, <1>4, <1>5, <1>6, <1>7, <1>8, <1>9, <1>10, <1>11, <1>12, <1>13,
     <1>14, <1>15, <1>16, <1>17, StepFacts DEF StepOf

\* Their items.
LEMMA TodoTypesStep == Shape /\ [Next]_vars => TodoTypes'
<1> SUFFICES ASSUME Shape, [Next]_vars PROVE TodoTypes'
  OBVIOUS
<1>a. TodoTypes /\ Kinded
  BY DEF Shape
<1> USE <1>a, NoItems DEF TodoTypes, Kinded
<1>1. ASSUME NEW g \in Procs, NEW k \in Kinds, NEW b \in Seq(Item) \cup Seq(Nat),
             Arrived(g, k, b)
      PROVE TodoTypes'
  BY <1>1 DEF Arrived
<1>2. ASSUME NEW g \in Procs, Refused(g) PROVE TodoTypes'
  BY <1>2 DEF Refused, Returning
<1>3. ASSUME NEW g \in Procs, Inserted(g) PROVE TodoTypes'
  BY <1>3 DEF Inserted
<1>4. ASSUME NEW g \in Procs, ScanRow(g) PROVE TodoTypes'
  BY <1>4 DEF ScanRow, At, pool, conns, tables
<1>5. ASSUME NEW g \in Procs, Closed(g) PROVE TodoTypes'
  BY <1>5 DEF Closed, Returning, EndRows
<1>6. ASSUME NEW g \in Procs, Leaving(g) PROVE TodoTypes'
  BY <1>6 DEF Leaving
<1>7. CASE UNCHANGED <<todo, kind>>
  BY <1>7
<1>8. ASSUME NEW g \in Procs,
             \/ Accept(g)
             \/ \E c \in Conn, l \in FirstLabels : Borrowed(g, c, l)
             \/ Begin(g) \/ Failed(g) \/ Placed(g) \/ Created(g) \/ Rollback(g)
             \/ Commit(g) \/ InsertProduct(g) \/ Query(g) \/ QueryFails(g) \/ QueryRow(g)
             \/ RowsEnd(g) \/ ScanFails(g) \/ Closing(g)
      PROVE  UNCHANGED <<todo, kind>>
  BY <1>8 DEF Accept, Goto, At, pool, conns, tables, Borrowed, Begin, Answer, Usable,
     Failed, Drawn, Placed, Created, Rollback, EndTx, requests, Commit, InsertProduct,
     Query, QueryFails, QueryRow, RowsEnd, ScanFails, EndRows, Closing
<1>9. ASSUME NEW x \in Conn, ConnectionLost(x) PROVE UNCHANGED <<todo, kind>>
  BY <1>9 DEF ConnectionLost, pool, tables, requests
<1>10. CASE Exit
  BY <1>10 DEF Exit, Lease!Exit, tables
<1>11. CASE UNCHANGED vars
  BY <1>11 DEF vars, pool, conns, tables, requests
<1> QED
  BY <1>1, <1>2, <1>3, <1>4, <1>5, <1>6, <1>7, <1>8, <1>9, <1>10, <1>11, StepFacts DEF StepOf

\* What Commit adds has passed WorkTypes.
LEMMA TableTypesStep == Shape /\ [Next]_vars => TableTypes'
<1> SUFFICES ASSUME Shape, [Next]_vars PROVE TableTypes'
  OBVIOUS
<1>a. TableTypes /\ WorkTypes /\ PoolTypes /\ Leased
  BY DEF Shape
<1> USE <1>a, BoundsAssumption, ConnAssumption DEF TableTypes, WorkTypes, PoolTypes, Leased,
    Leasing
<1>1. ASSUME NEW g \in Procs, Failed(g) PROVE TableTypes'
  BY <1>1 DEF Failed, Drawn
<1>2. ASSUME NEW g \in Procs, Placed(g) PROVE TableTypes'
  BY <1>2 DEF Placed, Drawn
<1>3. ASSUME NEW g \in Procs, Commit(g) PROVE TableTypes'
  BY <1>3 DEF Commit, EndTx, At, Goto, pool, requests
<1>4. ASSUME NEW g \in Procs, InsertProduct(g) PROVE TableTypes'
  BY <1>4 DEF InsertProduct, At, Goto, Answer, Usable, pool
<1>5. CASE UNCHANGED <<products, drawn, orders>>
  BY <1>5
<1>6. ASSUME NEW g \in Procs,
             \/ \E k \in Kinds, b \in Seq(Item) \cup Seq(Nat) : Arrived(g, k, b)
             \/ Refused(g) \/ Accept(g)
             \/ \E c \in Conn, l \in FirstLabels : Borrowed(g, c, l)
             \/ Begin(g) \/ Inserted(g) \/ Created(g) \/ Rollback(g) \/ Query(g)
             \/ QueryFails(g) \/ QueryRow(g) \/ ScanRow(g) \/ RowsEnd(g) \/ ScanFails(g) \/ Closed(g)
             \/ Closing(g) \/ Leaving(g)
      PROVE  UNCHANGED <<products, drawn, orders>>
  BY <1>6 DEF Arrived, Refused, Returning, Accept, Goto, At, pool, conns, tables, Borrowed,
     Begin, Answer, Usable, Inserted, Created, Rollback, EndTx, requests, Query, QueryFails,
     QueryRow, ScanRow, RowsEnd, ScanFails, EndRows, Closed, Closing, Leaving
<1>7. ASSUME NEW x \in Conn, ConnectionLost(x) PROVE UNCHANGED <<products, drawn, orders>>
  BY <1>7 DEF ConnectionLost, pool, tables, requests
<1>8. CASE Exit
  BY <1>8 DEF Exit, tables
<1>9. CASE UNCHANGED vars
  BY <1>9 DEF vars, pool, conns, tables, requests
<1> QED
  BY <1>1, <1>2, <1>3, <1>4, <1>5, <1>6, <1>7, <1>8, <1>9, StepFacts DEF StepOf

\* What InsertOrder and InsertItem add.
LEMMA WorkTypesStep == Shape /\ [Next]_vars => WorkTypes'
<1> SUFFICES ASSUME Shape, [Next]_vars PROVE WorkTypes'
  OBVIOUS
<1>a. WorkTypes /\ RequestTypes /\ TableTypes /\ AnswerTypes /\ PoolTypes /\ Leased
  BY DEF Shape
<1> USE <1>a, UsersAssumption, BoundsAssumption DEF WorkTypes, RequestTypes, TableTypes,
    AnswerTypes, PoolTypes, Leased, NoWork, Leasing
<1>1. ASSUME NEW g \in Procs, Failed(g) PROVE WorkTypes'
  BY <1>1 DEF Failed, Drawn
<1>2. ASSUME NEW g \in Procs, Placed(g) PROVE WorkTypes'
  <2> DEFINE c == lease[g]
             r == <<drawn + 1, buyer[g]>>
  <2>1. r \in Nat \X Nat /\ r[1] = drawn + 1 /\ r[2] \in Users
    <3>1. drawn + 1 \in Nat
      OBVIOUS
    <3>2. buyer[g] \in Users
      BY <1>2 DEF Placed
    <3>3. buyer[g] \in Nat
      BY <3>2
    <3> QED
      BY <3>1, <3>2, <3>3
  <2>2. work' \in [Conn -> [orders : SUBSET (Nat \X Nat), items : SUBSET (Nat \X Item)]]
    BY <1>2, <2>1 DEF Placed
  <2>3. ASSUME NEW d \in Conn, NEW o \in work'[d].orders
        PROVE  o[1] \in 1 .. drawn' /\ o[2] \in Users
    <3>1. drawn' = drawn + 1 /\ drawn \in Nat
      BY <1>2 DEF Placed, Drawn
    <3>2. CASE d = c
      <4>1. work'[d].orders = work[c].orders \cup {r}
        BY <1>2, <3>2 DEF Placed
      <4> QED
        BY <2>1, <3>1, <3>2, <4>1
    <3>3. CASE d # c
      BY <1>2, <3>1, <3>3 DEF Placed
    <3> QED
      BY <3>2, <3>3
  <2> QED
    BY <2>2, <2>3
<1>3. ASSUME NEW g \in Procs, Inserted(g) PROVE WorkTypes'
  BY <1>3 DEF Inserted
<1>4. ASSUME NEW g \in Procs, Rollback(g) PROVE WorkTypes'
  BY <1>4 DEF Rollback, EndTx, At, Goto, pool, tables, requests
<1>5. ASSUME NEW g \in Procs, Commit(g) PROVE WorkTypes'
  BY <1>5 DEF Commit, EndTx, At, Goto, pool, requests
<1>6. CASE UNCHANGED <<work, drawn>>
  BY <1>6
<1>7. ASSUME NEW g \in Procs,
             \/ \E k \in Kinds, b \in Seq(Item) \cup Seq(Nat) : Arrived(g, k, b)
             \/ Refused(g) \/ Accept(g)
             \/ \E c \in Conn, l \in FirstLabels : Borrowed(g, c, l)
             \/ Begin(g) \/ Created(g) \/ InsertProduct(g) \/ Query(g) \/ QueryFails(g)
             \/ QueryRow(g) \/ ScanRow(g) \/ RowsEnd(g) \/ ScanFails(g) \/ Closed(g) \/ Closing(g)
             \/ Leaving(g)
      PROVE  UNCHANGED <<work, drawn>>
  BY <1>7 DEF Arrived, Refused, Returning, Accept, Goto, At, pool, conns, tables, Borrowed,
     Begin, Answer, Usable, Created, InsertProduct, Query, QueryFails, QueryRow, ScanRow,
     RowsEnd, ScanFails, EndRows, Closed, Closing, Leaving
<1>8. ASSUME NEW x \in Conn, ConnectionLost(x) PROVE WorkTypes'
  BY <1>8 DEF ConnectionLost, EndTx, pool, tables, requests
<1>9. CASE Exit
  BY <1>9 DEF Exit, Lease!Exit, tables
<1>10. CASE UNCHANGED vars
  BY <1>10 DEF vars, pool, conns, tables, requests
<1> QED
  BY <1>1, <1>2, <1>3, <1>4, <1>5, <1>6, <1>7, <1>8, <1>9, <1>10, StepFacts DEF StepOf

\* The history of requests is as long as the serial of "Order" has come.
LEMMA DrawnFacts ==
    ASSUME AskedTypes, TableTypes, NEW g \in Procs, Drawn(g)
    PROVE  AskedTypes'
<1>1. PICK r \in Request : asked' = Append(asked, r)
  BY DEF Drawn
<1>2. asked' \in Seq(Request) /\ Len(asked') = Len(asked) + 1
  BY <1>1, AppendProperties DEF AskedTypes
<1> QED
  BY <1>2 DEF Drawn, AskedTypes

\* The history.
LEMMA AskedTypesStep == Shape /\ [Next]_vars => AskedTypes'
<1> SUFFICES ASSUME Shape, [Next]_vars PROVE AskedTypes'
  OBVIOUS
<1>a. AskedTypes /\ TableTypes
  BY DEF Shape
<1> USE <1>a DEF AskedTypes, TableTypes
<1>1. ASSUME NEW g \in Procs, Failed(g) PROVE AskedTypes'
  BY <1>1, DrawnFacts DEF Failed
<1>2. ASSUME NEW g \in Procs, Placed(g) PROVE AskedTypes'
  BY <1>2, DrawnFacts DEF Placed
<1>3. CASE UNCHANGED <<asked, drawn>>
  BY <1>3
<1>4. ASSUME NEW g \in Procs,
             \/ \E k \in Kinds, b \in Seq(Item) \cup Seq(Nat) : Arrived(g, k, b)
             \/ Refused(g) \/ Accept(g)
             \/ \E c \in Conn, l \in FirstLabels : Borrowed(g, c, l)
             \/ Begin(g) \/ Inserted(g) \/ Created(g) \/ Rollback(g) \/ Commit(g)
             \/ InsertProduct(g) \/ Query(g) \/ QueryFails(g) \/ QueryRow(g)
             \/ ScanRow(g) \/ RowsEnd(g) \/ ScanFails(g) \/ Closed(g) \/ Closing(g) \/ Leaving(g)
      PROVE  UNCHANGED <<asked, drawn>>
  BY <1>4 DEF Arrived, Refused, Returning, Accept, Goto, At, pool, conns, tables, Borrowed,
     Begin, Answer, Usable, Inserted, Created, Rollback, EndTx, requests, Commit,
     InsertProduct, Query, QueryFails, QueryRow, ScanRow, RowsEnd, ScanFails, EndRows, Closed, Closing,
     Leaving
<1>5. ASSUME NEW x \in Conn, ConnectionLost(x) PROVE UNCHANGED <<asked, drawn>>
  BY <1>5 DEF ConnectionLost, pool, tables, requests
<1>6. CASE Exit
  BY <1>6 DEF Exit, tables
<1>7. CASE UNCHANGED vars
  BY <1>7 DEF vars, pool, conns, tables, requests
<1> QED
  BY <1>1, <1>2, <1>3, <1>4, <1>5, <1>6, <1>7, StepFacts DEF StepOf

\* A handler takes the steps of its kind.
LEMMA KindedStep == Shape /\ [Next]_vars => Kinded'
<1> SUFFICES ASSUME Shape, [Next]_vars PROVE Kinded'
  OBVIOUS
<1>a. RequestTypes /\ Kinded /\ Reading
  BY DEF Shape
<1> USE <1>a, ConnAssumption DEF Kinded, RequestTypes, Reading, Labels, Kinds, FirstLabels
<1>1. ASSUME NEW g \in Procs, NEW k \in Kinds, NEW b \in Seq(Item) \cup Seq(Nat),
             Arrived(g, k, b)
      PROVE Kinded'
  BY <1>1 DEF Arrived
<1>2. ASSUME NEW g \in Procs, Refused(g) PROVE Kinded'
  BY <1>2 DEF Refused, Returning
<1>3. ASSUME NEW g \in Procs, Accept(g) PROVE Kinded'
  BY <1>3 DEF Accept, Goto, At, pool, conns, tables
<1>4. ASSUME NEW g \in Procs, NEW c \in Conn, NEW l \in FirstLabels, Borrowed(g, c, l)
      PROVE Kinded'
  BY <1>4 DEF Borrowed
<1>5. ASSUME NEW g \in Procs, Begin(g) PROVE Kinded'
  BY <1>5 DEF Begin, At, Goto, Answer, Usable, pool, tables
<1>6. ASSUME NEW g \in Procs, Failed(g) PROVE Kinded'
  BY <1>6 DEF Failed, Drawn
<1>7. ASSUME NEW g \in Procs, Placed(g) PROVE Kinded'
  BY <1>7 DEF Placed, Drawn
<1>8. ASSUME NEW g \in Procs, Created(g) PROVE Kinded'
  BY <1>8 DEF Created, At, Goto, Answer, pool, conns, tables
<1>9. ASSUME NEW g \in Procs, Rollback(g) PROVE Kinded'
  BY <1>9 DEF Rollback, EndTx, At, Goto, pool, tables, requests
<1>10. ASSUME NEW g \in Procs, Commit(g) PROVE Kinded'
  BY <1>10 DEF Commit, EndTx, At, Goto, pool, requests
<1>11. ASSUME NEW g \in Procs, InsertProduct(g) PROVE Kinded'
  BY <1>11 DEF InsertProduct, At, Goto, Answer, Usable, pool
<1>12. ASSUME NEW g \in Procs, Query(g) PROVE Kinded'
  BY <1>12 DEF Query, At, Goto, Usable, pool, tables
<1>13. ASSUME NEW g \in Procs, QueryFails(g) PROVE Kinded'
  BY <1>13 DEF QueryFails, At, Goto, Answer, pool, conns, tables
<1>14. ASSUME NEW g \in Procs, QueryRow(g) PROVE Kinded'
  BY <1>14 DEF QueryRow, At, Goto, Answer, Usable, pool, conns, tables
<1>15. ASSUME NEW g \in Procs, RowsEnd(g) \/ ScanFails(g) PROVE Kinded'
  <2>1. CASE RowsEnd(g)
    BY <2>1 DEF RowsEnd, EndRows, At, Goto, Answer, pool, tables
  <2>2. CASE ScanFails(g)
    BY <2>2 DEF ScanFails, EndRows, At, Goto, Answer, pool, tables
  <2> QED
    BY <1>15, <2>1, <2>2
<1>16. ASSUME NEW g \in Procs, Closed(g) PROVE Kinded'
  BY <1>16 DEF Closed, Returning, EndRows
<1>17. ASSUME NEW g \in Procs, Closing(g) PROVE Kinded'
  BY <1>17 DEF Closing
<1>18. ASSUME NEW g \in Procs, Leaving(g) PROVE Kinded'
  BY <1>18 DEF Leaving
<1>19. CASE UNCHANGED <<pc, kind, rows>>
  BY <1>19
<1>20. ASSUME NEW g \in Procs,
             \/ Inserted(g) \/ ScanRow(g)
      PROVE  UNCHANGED <<pc, kind, rows>>
  BY <1>20 DEF Inserted, ScanRow, At, pool, conns, tables
<1>21. ASSUME NEW x \in Conn, ConnectionLost(x) PROVE UNCHANGED <<pc, kind, rows>>
  BY <1>21 DEF ConnectionLost, pool, tables, requests
<1>22. CASE Exit
  BY <1>22 DEF Exit, Lease!Exit, tables
<1>23. CASE UNCHANGED vars
  BY <1>23 DEF vars, pool, conns, tables, requests
<1> QED
  BY <1>1, <1>2, <1>3, <1>4, <1>5, <1>6, <1>7, <1>8, <1>9, <1>10, <1>11, <1>12, <1>13,
     <1>14, <1>15, <1>16, <1>17, <1>18, <1>19, <1>20, <1>21, <1>22, <1>23, StepFacts DEF StepOf

\* Borrow is the only way to a connection, Release and Exit the only ways back.
LEMMA LeasedStep == Shape /\ [Next]_vars => Leased'
<1> SUFFICES ASSUME Shape, [Next]_vars PROVE Leased'
  OBVIOUS
<1>a. RequestTypes /\ PoolTypes /\ Leased
  BY DEF Shape
<1> USE <1>a, ConnAssumption DEF Leased, RequestTypes, PoolTypes, Leasing, Labels,
    FirstLabels
<1>1. ASSUME NEW g \in Procs, NEW k \in Kinds, NEW b \in Seq(Item) \cup Seq(Nat),
             Arrived(g, k, b)
      PROVE Leased'
  BY <1>1 DEF Arrived
<1>2. ASSUME NEW g \in Procs, Refused(g) PROVE Leased'
  BY <1>2 DEF Refused, Returning
<1>3. ASSUME NEW g \in Procs, Accept(g) PROVE Leased'
  BY <1>3 DEF Accept, Goto, At, pool, conns, tables
<1>4. ASSUME NEW g \in Procs, NEW c \in Conn, NEW l \in FirstLabels, Borrowed(g, c, l)
      PROVE Leased'
  BY <1>4 DEF Borrowed
<1>5. ASSUME NEW g \in Procs, Begin(g) PROVE Leased'
  BY <1>5 DEF Begin, At, Goto, Answer, Usable, pool, tables
<1>6. ASSUME NEW g \in Procs, Failed(g) PROVE Leased'
  BY <1>6 DEF Failed, Drawn
<1>7. ASSUME NEW g \in Procs, Placed(g) PROVE Leased'
  BY <1>7 DEF Placed, Drawn
<1>8. ASSUME NEW g \in Procs, Created(g) PROVE Leased'
  BY <1>8 DEF Created, At, Goto, Answer, pool, conns, tables
<1>9. ASSUME NEW g \in Procs, Rollback(g) PROVE Leased'
  BY <1>9 DEF Rollback, EndTx, At, Goto, pool, tables, requests
<1>10. ASSUME NEW g \in Procs, Commit(g) PROVE Leased'
  BY <1>10 DEF Commit, EndTx, At, Goto, pool, requests
<1>11. ASSUME NEW g \in Procs, InsertProduct(g) PROVE Leased'
  BY <1>11 DEF InsertProduct, At, Goto, Answer, Usable, pool
<1>12. ASSUME NEW g \in Procs, Query(g) PROVE Leased'
  BY <1>12 DEF Query, At, Goto, Usable, pool, tables
<1>13. ASSUME NEW g \in Procs, QueryFails(g) PROVE Leased'
  BY <1>13 DEF QueryFails, At, Goto, Answer, pool, conns, tables
<1>14. ASSUME NEW g \in Procs, QueryRow(g) PROVE Leased'
  BY <1>14 DEF QueryRow, At, Goto, Answer, Usable, pool, conns, tables
<1>15. ASSUME NEW g \in Procs, RowsEnd(g) \/ ScanFails(g) PROVE Leased'
  <2>1. CASE RowsEnd(g)
    BY <2>1 DEF RowsEnd, EndRows, At, Goto, Answer, pool, tables
  <2>2. CASE ScanFails(g)
    BY <2>2 DEF ScanFails, EndRows, At, Goto, Answer, pool, tables
  <2> QED
    BY <1>15, <2>1, <2>2
<1>16. ASSUME NEW g \in Procs, Closed(g) PROVE Leased'
  BY <1>16 DEF Closed, Returning, EndRows
<1>17. ASSUME NEW g \in Procs, Closing(g) PROVE Leased'
  BY <1>17 DEF Closing
<1>18. ASSUME NEW g \in Procs, Leaving(g) PROVE Leased'
  BY <1>18 DEF Leaving
<1>19. CASE UNCHANGED <<lease, pc>>
  BY <1>19
<1>20. ASSUME NEW g \in Procs,
             \/ Inserted(g) \/ ScanRow(g)
      PROVE  UNCHANGED <<lease, pc>>
  BY <1>20 DEF Inserted, ScanRow, At, pool, conns, tables
<1>21. ASSUME NEW x \in Conn, ConnectionLost(x) PROVE UNCHANGED <<lease, pc>>
  BY <1>21 DEF ConnectionLost, pool, tables, requests
<1>22. CASE Exit
  BY <1>22 DEF Exit, Lease!Exit, tables
<1>23. CASE UNCHANGED vars
  BY <1>23 DEF vars, pool, conns, tables, requests
<1> QED
  BY <1>1, <1>2, <1>3, <1>4, <1>5, <1>6, <1>7, <1>8, <1>9, <1>10, <1>11, <1>12, <1>13,
     <1>14, <1>15, <1>16, <1>17, <1>18, <1>19, <1>20, <1>21, <1>22, <1>23, StepFacts DEF StepOf

\* Borrow takes a connection that nobody has.
LEMMA ApartStep == Shape /\ [Next]_vars => Apart'
<1> SUFFICES ASSUME Shape, [Next]_vars PROVE Apart'
  OBVIOUS
<1>a. PoolTypes /\ Apart
  BY DEF Shape
<1> USE <1>a, ConnAssumption DEF Apart, PoolTypes
<1>1. ASSUME NEW g \in Procs, NEW c \in Conn, NEW l \in FirstLabels, Borrowed(g, c, l)
      PROVE Apart'
  BY <1>1 DEF Borrowed
<1>2. ASSUME NEW g \in Procs, Closing(g) PROVE Apart'
  BY <1>2 DEF Closing
<1>3. ASSUME NEW g \in Procs, Leaving(g) PROVE Apart'
  BY <1>3 DEF Leaving
<1>4. CASE UNCHANGED <<free, lease>>
  BY <1>4
<1>5. ASSUME NEW g \in Procs,
             \/ \E k \in Kinds, b \in Seq(Item) \cup Seq(Nat) : Arrived(g, k, b)
             \/ Refused(g) \/ Accept(g) \/ Begin(g) \/ Failed(g) \/ Placed(g)
             \/ Inserted(g) \/ Created(g) \/ Rollback(g) \/ Commit(g) \/ InsertProduct(g)
             \/ Query(g) \/ QueryFails(g) \/ QueryRow(g) \/ ScanRow(g) \/ RowsEnd(g) \/ ScanFails(g)
             \/ Closed(g)
      PROVE  UNCHANGED <<free, lease>>
  BY <1>5 DEF Arrived, Refused, Returning, Accept, Goto, At, pool, conns, tables, Begin,
     Answer, Usable, Failed, Drawn, Placed, Inserted, Created, Rollback, EndTx, requests,
     Commit, InsertProduct, Query, QueryFails, QueryRow, ScanRow, RowsEnd, ScanFails, EndRows, Closed
<1>6. ASSUME NEW x \in Conn, ConnectionLost(x) PROVE UNCHANGED <<free, lease>>
  BY <1>6 DEF ConnectionLost, pool, tables, requests
<1>7. CASE Exit
  BY <1>7 DEF Exit, Lease!Exit, tables
<1>8. CASE UNCHANGED vars
  BY <1>8 DEF vars, pool, conns, tables, requests
<1> QED
  BY <1>1, <1>2, <1>3, <1>4, <1>5, <1>6, <1>7, <1>8, StepFacts DEF StepOf

\* Every way to an answer.
LEMMA AnsweredStep == Shape /\ [Next]_vars => Answered'
<1> SUFFICES ASSUME Shape, [Next]_vars PROVE Answered'
  OBVIOUS
<1>a. RequestTypes /\ AnswerTypes /\ Answered /\ TableTypes /\ Reading
  BY DEF Shape
<1> USE <1>a, BoundsAssumption, ConnAssumption DEF Answered, RequestTypes, AnswerTypes,
    TableTypes, Reading, NoOrder, Labels, FirstLabels
<1>1. ASSUME NEW g \in Procs, NEW k \in Kinds, NEW b \in Seq(Item) \cup Seq(Nat),
             Arrived(g, k, b)
      PROVE Answered'
  BY <1>1 DEF Arrived
<1>2. ASSUME NEW g \in Procs, Refused(g) PROVE Answered'
  BY <1>2 DEF Refused, Returning
<1>3. ASSUME NEW g \in Procs, Accept(g) PROVE Answered'
  BY <1>3 DEF Accept, Goto, At, pool, conns, tables
<1>4. ASSUME NEW g \in Procs, NEW c \in Conn, NEW l \in FirstLabels, Borrowed(g, c, l)
      PROVE Answered'
  BY <1>4 DEF Borrowed
<1>5. ASSUME NEW g \in Procs, Begin(g) PROVE Answered'
  BY <1>5 DEF Begin, At, Goto, Answer, Usable, pool, tables
<1>6. ASSUME NEW g \in Procs, Failed(g) PROVE Answered'
  BY <1>6 DEF Failed, Drawn
<1>7. ASSUME NEW g \in Procs, Placed(g) PROVE Answered'
  BY <1>7 DEF Placed, Drawn
<1>8. ASSUME NEW g \in Procs, Created(g) PROVE Answered'
  BY <1>8 DEF Created, At, Goto, Answer, pool, conns, tables
<1>9. ASSUME NEW g \in Procs, Rollback(g) PROVE Answered'
  BY <1>9 DEF Rollback, EndTx, At, Goto, pool, tables, requests
<1>10. ASSUME NEW g \in Procs, Commit(g) PROVE Answered'
  BY <1>10 DEF Commit, EndTx, At, Goto, pool, requests
<1>11. ASSUME NEW g \in Procs, InsertProduct(g) PROVE Answered'
  BY <1>11 DEF InsertProduct, At, Goto, Answer, Usable, pool
<1>12. ASSUME NEW g \in Procs, Query(g) PROVE Answered'
  BY <1>12 DEF Query, At, Goto, Usable, pool, tables
<1>13. ASSUME NEW g \in Procs, QueryFails(g) PROVE Answered'
  BY <1>13 DEF QueryFails, At, Goto, Answer, pool, conns, tables
<1>14. ASSUME NEW g \in Procs, QueryRow(g) PROVE Answered'
  BY <1>14 DEF QueryRow, At, Goto, Answer, Usable, pool, conns, tables
<1>15. ASSUME NEW g \in Procs, RowsEnd(g) \/ ScanFails(g) PROVE Answered'
  <2>1. CASE RowsEnd(g)
    BY <2>1 DEF RowsEnd, EndRows, At, Goto, Answer, pool, tables
  <2>2. CASE ScanFails(g)
    BY <2>2 DEF ScanFails, EndRows, At, Goto, Answer, pool, tables
  <2> QED
    BY <1>15, <2>1, <2>2
<1>16. ASSUME NEW g \in Procs, Closed(g) PROVE Answered'
  BY <1>16 DEF Closed, Returning, EndRows
<1>17. ASSUME NEW g \in Procs, Closing(g) PROVE Answered'
  BY <1>17 DEF Closing
<1>18. ASSUME NEW g \in Procs, Leaving(g) PROVE Answered'
  BY <1>18 DEF Leaving
<1>19. CASE UNCHANGED <<pc, answer, oid, rows>>
  BY <1>19
<1>20. ASSUME NEW g \in Procs,
             \/ Inserted(g) \/ ScanRow(g)
      PROVE  UNCHANGED <<pc, answer, oid, rows>>
  BY <1>20 DEF Inserted, ScanRow, At, pool, conns, tables
<1>21. ASSUME NEW x \in Conn, ConnectionLost(x) PROVE UNCHANGED <<pc, answer, oid, rows>>
  BY <1>21 DEF ConnectionLost, pool, tables, requests
<1>22. CASE Exit
  BY <1>22 DEF Exit, Lease!Exit, tables
<1>23. CASE UNCHANGED vars
  BY <1>23 DEF vars, pool, conns, tables, requests
<1> QED
  BY <1>1, <1>2, <1>3, <1>4, <1>5, <1>6, <1>7, <1>8, <1>9, <1>10, <1>11, <1>12, <1>13,
     <1>14, <1>15, <1>16, <1>17, <1>18, <1>19, <1>20, <1>21, <1>22, <1>23, StepFacts DEF StepOf

\* Query opens rows, and its handler goes on to scan or to release.
LEMMA ReadingStep == Shape /\ [Next]_vars => Reading'
<1> SUFFICES ASSUME Shape, [Next]_vars PROVE Reading'
  OBVIOUS
<1>a. RequestTypes /\ PoolTypes /\ Reading /\ Kinded
  BY DEF Shape
<1> USE <1>a, ConnAssumption DEF Reading, RequestTypes, PoolTypes, Kinded, Labels, FirstLabels
<1>1. ASSUME NEW g \in Procs, NEW k \in Kinds, NEW b \in Seq(Item) \cup Seq(Nat),
             Arrived(g, k, b)
      PROVE Reading'
  BY <1>1 DEF Arrived
<1>2. ASSUME NEW g \in Procs, Refused(g) PROVE Reading'
  BY <1>2 DEF Refused, Returning
<1>3. ASSUME NEW g \in Procs, Accept(g) PROVE Reading'
  BY <1>3 DEF Accept, Goto, At, pool, conns, tables
<1>4. ASSUME NEW g \in Procs, NEW c \in Conn, NEW l \in FirstLabels, Borrowed(g, c, l)
      PROVE Reading'
  BY <1>4 DEF Borrowed
<1>5. ASSUME NEW g \in Procs, Begin(g) PROVE Reading'
  BY <1>5 DEF Begin, At, Goto, Answer, Usable, pool, tables
<1>6. ASSUME NEW g \in Procs, Failed(g) PROVE Reading'
  BY <1>6 DEF Failed, Drawn
<1>7. ASSUME NEW g \in Procs, Placed(g) PROVE Reading'
  BY <1>7 DEF Placed, Drawn
<1>8. ASSUME NEW g \in Procs, Created(g) PROVE Reading'
  BY <1>8 DEF Created, At, Goto, Answer, pool, conns, tables
<1>9. ASSUME NEW g \in Procs, Rollback(g) PROVE Reading'
  BY <1>9 DEF Rollback, EndTx, At, Goto, pool, tables, requests
<1>10. ASSUME NEW g \in Procs, Commit(g) PROVE Reading'
  BY <1>10 DEF Commit, EndTx, At, Goto, pool, requests
<1>11. ASSUME NEW g \in Procs, InsertProduct(g) PROVE Reading'
  BY <1>11 DEF InsertProduct, At, Goto, Answer, Usable, pool
<1>12. ASSUME NEW g \in Procs, Query(g) PROVE Reading'
  BY <1>12 DEF Query, At, Goto, Usable, pool, tables
<1>13. ASSUME NEW g \in Procs, QueryFails(g) PROVE Reading'
  BY <1>13 DEF QueryFails, At, Goto, Answer, pool, conns, tables
<1>14. ASSUME NEW g \in Procs, QueryRow(g) PROVE Reading'
  BY <1>14 DEF QueryRow, At, Goto, Answer, Usable, pool, conns, tables
<1>15. ASSUME NEW g \in Procs, RowsEnd(g) \/ ScanFails(g) PROVE Reading'
  <2>1. CASE RowsEnd(g)
    BY <2>1 DEF RowsEnd, EndRows, At, Goto, Answer, pool, tables
  <2>2. CASE ScanFails(g)
    BY <2>2 DEF ScanFails, EndRows, At, Goto, Answer, pool, tables
  <2> QED
    BY <1>15, <2>1, <2>2
<1>16. ASSUME NEW g \in Procs, Closed(g) PROVE Reading'
  BY <1>16 DEF Closed, Returning, EndRows
<1>17. ASSUME NEW g \in Procs, Closing(g) PROVE Reading'
  BY <1>17 DEF Closing
<1>18. ASSUME NEW g \in Procs, Leaving(g) PROVE Reading'
  BY <1>18 DEF Leaving
<1>19. CASE UNCHANGED <<pc, rows, lease>>
  BY <1>19
<1>20. ASSUME NEW g \in Procs,
             \/ Inserted(g) \/ ScanRow(g)
      PROVE  UNCHANGED <<pc, rows, lease>>
  BY <1>20 DEF Inserted, ScanRow, At, pool, conns, tables
<1>21. ASSUME NEW x \in Conn, ConnectionLost(x) PROVE UNCHANGED <<pc, rows, lease>>
  BY <1>21 DEF ConnectionLost, pool, tables, requests
<1>22. CASE Exit
  BY <1>22 DEF Exit, Lease!Exit, tables
<1>23. CASE UNCHANGED vars
  BY <1>23 DEF vars, pool, conns, tables, requests
<1> QED
  BY <1>1, <1>2, <1>3, <1>4, <1>5, <1>6, <1>7, <1>8, <1>9, <1>10, <1>11, <1>12, <1>13,
     <1>14, <1>15, <1>16, <1>17, <1>18, <1>19, <1>20, <1>21, <1>22, <1>23, StepFacts DEF StepOf

\* Nothing is there at the start.
LEMMA InitShape == Init => Shape
<1> SUFFICES ASSUME Init PROVE Shape
  OBVIOUS
<1>1. PoolTypes /\ ConnTypes /\ RequestTypes /\ AnswerTypes /\ TableTypes
  BY BoundsAssumption DEF Init, Lease!Init, PoolTypes, ConnTypes, RequestTypes, AnswerTypes,
     TableTypes, Labels, Kinds, ZeroId, NoOrder
<1>2. TodoTypes /\ AskedTypes
  BY NoItems DEF Init, TodoTypes, AskedTypes
<1>3. WorkTypes
  BY DEF Init, WorkTypes, NoWork
<1>4. Kinded /\ Leased /\ Apart /\ Answered /\ Reading
  BY DEF Init, Lease!Init, Kinded, Leased, Apart, Answered, Reading, Leasing, NoOrder
<1> QED
  BY <1>1, <1>2, <1>3, <1>4 DEF Shape

\* Its conjuncts taken together.
LEMMA ShapeStep == Shape /\ [Next]_vars => Shape'
BY PoolTypesStep, ConnTypesStep, RequestTypesStep, AnswerTypesStep, TodoTypesStep,
   TableTypesStep, WorkTypesStep, AskedTypesStep, KindedStep, LeasedStep, ApartStep,
   AnsweredStep, ReadingStep DEF Shape

\* The types of Shape are those of TypeOK.
LEMMA ShapeIsTyped == Shape => TypeOK
BY FirstSteps DEF Shape, PoolTypes, ConnTypes, RequestTypes, AnswerTypes, TableTypes,
   AskedTypes, TypeOK, Kinds

\* Shape is an invariant.
LEMMA ShapeAlways == Spec => []Shape
<1>1. Init => Shape
  BY InitShape
<1>2. Shape /\ [Next]_vars => Shape'
  BY ShapeStep
<1> QED
  BY <1>1, <1>2, PTL DEF Spec

\* The variables keep their types: in particular no order is committed for one
\* who is no user, or under a number that was not drawn (products_order_put).
THEOREM ShopTypeAlways == Spec => []TypeOK
<1>1. Shape => TypeOK
  BY ShapeIsTyped
<1> QED
  BY <1>1, ShapeAlways, PTL

-----------------------------------------------------------------------------
\* The second half of the invariant: TxHasOwner, OpenRowsAreClosed,
\* LostOrderMeansLostConnection and AllOrNothing themselves, and what they rest on.

\* The database holds nothing for a connection that is lost.
DeadHasNone == \A c \in dead : tx[c] = "none" /\ work[c] = NoWork

\* No two requests have the same order.
Numbered == \A g \in Procs : oid[g] # NoOrder =>
    /\ oid[g] \in 1 .. drawn
    /\ \A h \in Procs : oid[h] = oid[g] => h = g

\* An order that is not committed yet, and one that was answered with an error,
\* has no row in the tables.
Absent(n) == /\ \A o \in orders : o[1] # n
             /\ \A r \in orderItems : r[1] # n

Unplaced == \A g \in Procs :
    (oid[g] # NoOrder
        /\ (pc[g] \in {"insert.item", "rollback", "commit"} \/ answer[g] = 500))
    => Absent(oid[g])

\* The items of a request.
ItemsIn(s) == {s[i] : i \in DOMAIN s}

\* What is inserted and what is left to insert make up the order that was asked
\* for, as long as the connection lives.
Whole(g) ==
    /\ tx[lease[g]] = "open"
    /\ work[lease[g]].orders = {<<oid[g], buyer[g]>>}
    /\ \A r \in work[lease[g]].items : r[1] = oid[g]
    /\ {r[2] : r \in work[lease[g]].items} \cup ItemsIn(todo[g]) = asked[oid[g]].items

WorkingOf(g) ==
    /\ pc[g] = "insert.order" => work[lease[g]] = NoWork
    /\ pc[g] = "insert.order" /\ lease[g] \notin dead => tx[lease[g]] = "open"
    /\ pc[g] \in {"insert.item", "commit"} =>
          /\ oid[g] # NoOrder
          /\ asked[oid[g]].buyer = buyer[g]
          /\ lease[g] \notin dead => Whole(g)
    /\ pc[g] = "commit" => todo[g] = << >>

Working == \A g \in Procs : WorkingOf(g)

Books == /\ TxHasOwner /\ DeadHasNone /\ OpenRowsAreClosed /\ LostOrderMeansLostConnection
         /\ Numbered /\ Working /\ Unplaced /\ AllOrNothing

-----------------------------------------------------------------------------
\* A step preserves Books.

\* A handler's connection comes without a transaction.
LEMMA NoneYet ==
    ASSUME Shape, TxHasOwner, NEW g \in Procs, pc[g] \in {"begin", "insert.product"}
    PROVE  lease[g] \in Conn /\ tx[lease[g]] = "none" /\ work[lease[g]] = NoWork
<1>1. lease[g] \in Conn
  BY DEF Shape, Leased, Leasing, PoolTypes
<1>2. \A h \in Procs : lease[h] = lease[g] => h = g
  BY <1>1, ConnAssumption DEF Shape, Apart
<1> QED
  BY <1>1, <1>2 DEF TxHasOwner

\* What was asked of the orders before stays.
LEMMA AskedGrows ==
    ASSUME AskedTypes, TableTypes, NEW g \in Procs, Drawn(g)
    PROVE  /\ \A n \in 1 .. drawn : asked'[n] = asked[n]
           /\ asked'[drawn + 1] = [buyer |-> buyer[g], items |-> ItemsIn(todo[g])]
<1>1. PICK r \in Request : /\ r = [buyer |-> buyer[g], items |-> ItemsIn(todo[g])]
                           /\ asked' = Append(asked, r)
  BY DEF Drawn, RequestOf, ItemsIn
<1>2. /\ \A n \in 1 .. Len(asked) : asked'[n] = asked[n]
      /\ asked'[Len(asked) + 1] = r
  BY <1>1, AppendProperties DEF AskedTypes
<1> QED
  BY <1>1, <1>2 DEF AskedTypes

\* The items of a sequence are its first and those of the rest.
LEMMA HeadAndTail ==
    ASSUME NEW S, NEW s \in Seq(S), s # << >>
    PROVE  ItemsIn(s) = {Head(s)} \cup ItemsIn(Tail(s))
<1>1. Len(s) \in Nat \ {0} /\ DOMAIN s = 1 .. Len(s) /\ Head(s) = s[1]
  OBVIOUS
<1>2. DOMAIN Tail(s) = 1 .. (Len(s) - 1) /\ \A i \in 1 .. (Len(s) - 1) : Tail(s)[i] = s[i + 1]
  BY <1>1
<1>3. ASSUME NEW i \in DOMAIN s PROVE s[i] \in {Head(s)} \cup ItemsIn(Tail(s))
  <2>1. CASE i = 1
    BY <1>1, <2>1
  <2>2. CASE i # 1
    <3>1. i - 1 \in 1 .. (Len(s) - 1) /\ Tail(s)[i - 1] = s[i]
      BY <1>1, <1>2, <2>2
    <3> QED
      BY <1>2, <3>1 DEF ItemsIn
  <2> QED
    BY <2>1, <2>2
<1>4. ASSUME NEW i \in DOMAIN Tail(s) PROVE Tail(s)[i] \in ItemsIn(s)
  <2>1. i + 1 \in DOMAIN s /\ Tail(s)[i] = s[i + 1]
    BY <1>1, <1>2
  <2> QED
    BY <2>1 DEF ItemsIn
<1>5. Head(s) \in ItemsIn(s)
  BY <1>1 DEF ItemsIn
<1> QED
  BY <1>3, <1>4, <1>5 DEF ItemsIn

\* The items of the rows and one more.
LEMMA SecondsOfUnion ==
    ASSUME NEW W, NEW e
    PROVE  {r[2] : r \in W \cup {e}} = {r[2] : r \in W} \cup {e[2]}
OBVIOUS

\* Begin opens a transaction on its handler's connection; Rollback and Commit end it.
LEMMA TxHasOwnerStep == Shape /\ Books /\ [Next]_vars => TxHasOwner'
<1> SUFFICES ASSUME Shape, Books, [Next]_vars PROVE TxHasOwner'
  OBVIOUS
<1>a. TxHasOwner /\ PoolTypes /\ ConnTypes /\ RequestTypes /\ WorkTypes /\ Leased /\ Apart
  BY DEF Shape, Books
<1> USE <1>a, ConnAssumption DEF TxHasOwner, PoolTypes, ConnTypes, RequestTypes, WorkTypes,
    Leased, Apart, Leasing, Labels, FirstLabels, NoWork
<1>1. ASSUME NEW g \in Procs, NEW k \in Kinds, NEW b \in Seq(Item) \cup Seq(Nat),
             Arrived(g, k, b)
      PROVE TxHasOwner'
  BY <1>1 DEF Arrived
<1>2. ASSUME NEW g \in Procs, Refused(g) PROVE TxHasOwner'
  BY <1>2 DEF Refused, Returning
<1>3. ASSUME NEW g \in Procs, Accept(g) PROVE TxHasOwner'
  BY <1>3 DEF Accept, Goto, At, pool, conns, tables
<1>4. ASSUME NEW g \in Procs, NEW c \in Conn, NEW l \in FirstLabels, Borrowed(g, c, l)
      PROVE TxHasOwner'
  BY <1>4 DEF Borrowed
<1>5. ASSUME NEW g \in Procs, Begin(g) PROVE TxHasOwner'
  BY <1>5 DEF Begin, At, Goto, Answer, Usable, pool, tables
<1>6. ASSUME NEW g \in Procs, Failed(g) PROVE TxHasOwner'
  BY <1>6 DEF Failed, Drawn
<1>7. ASSUME NEW g \in Procs, Placed(g) PROVE TxHasOwner'
  <2> SUFFICES ASSUME NEW c \in Conn, tx'[c] # "none" \/ work'[c] # NoWork
               PROVE  \E h \in Procs :
                         /\ lease'[h] = c
                         /\ pc'[h] \in {"insert.order", "insert.item", "rollback", "commit"}
    OBVIOUS
  <2>1. /\ UNCHANGED <<lease, tx>>
        /\ pc'[g] = "insert.item"
        /\ \A h \in Procs \ {g} : pc'[h] = pc[h]
    BY <1>7 DEF Placed
  <2>2. CASE c = lease[g]
    BY <2>1, <2>2
  <2>3. CASE c # lease[g]
    <3>1. work'[c] = work[c]
      BY <1>7, <2>3 DEF Placed
    <3> QED
      BY <2>1, <2>3, <3>1
  <2> QED
    BY <2>2, <2>3
<1>8. ASSUME NEW g \in Procs, Inserted(g) PROVE TxHasOwner'
  BY <1>8 DEF Inserted
<1>9. ASSUME NEW g \in Procs, Created(g) PROVE TxHasOwner'
  BY <1>9 DEF Created, At, Goto, Answer, pool, conns, tables
<1>10. ASSUME NEW g \in Procs, Rollback(g) PROVE TxHasOwner'
  <2> SUFFICES ASSUME NEW c \in Conn, tx'[c] # "none" \/ work'[c] # NoWork
               PROVE  \E h \in Procs :
                         /\ lease'[h] = c
                         /\ pc'[h] \in {"insert.order", "insert.item", "rollback", "commit"}
    OBVIOUS
  <2>1. c # lease[g] /\ tx'[c] = tx[c] /\ work'[c] = work[c]
    BY <1>10 DEF Rollback, EndTx
  <2>2. PICK h \in Procs :
           /\ lease[h] = c
           /\ pc[h] \in {"insert.order", "insert.item", "rollback", "commit"}
    BY <2>1
  <2>3. h # g /\ lease' = lease
    BY <1>10, <2>1, <2>2 DEF Rollback, pool
  <2> QED
    BY <1>10, <2>2, <2>3 DEF Rollback, Goto
<1>11. ASSUME NEW g \in Procs, Commit(g) PROVE TxHasOwner'
  <2> SUFFICES ASSUME NEW c \in Conn, tx'[c] # "none" \/ work'[c] # NoWork
               PROVE  \E h \in Procs :
                         /\ lease'[h] = c
                         /\ pc'[h] \in {"insert.order", "insert.item", "rollback", "commit"}
    OBVIOUS
  <2>1. c # lease[g] /\ tx'[c] = tx[c] /\ work'[c] = work[c]
    BY <1>11 DEF Commit, EndTx
  <2>2. PICK h \in Procs :
           /\ lease[h] = c
           /\ pc[h] \in {"insert.order", "insert.item", "rollback", "commit"}
    BY <2>1
  <2>3. h # g /\ lease' = lease
    BY <1>11, <2>1, <2>2 DEF Commit, pool
  <2> QED
    BY <1>11, <2>2, <2>3 DEF Commit, Goto
<1>12. ASSUME NEW g \in Procs, InsertProduct(g) PROVE TxHasOwner'
  BY <1>12 DEF InsertProduct, At, Goto, Answer, Usable, pool
<1>13. ASSUME NEW g \in Procs, Query(g) PROVE TxHasOwner'
  BY <1>13 DEF Query, At, Goto, Usable, pool, tables
<1>14. ASSUME NEW g \in Procs, QueryFails(g) PROVE TxHasOwner'
  BY <1>14 DEF QueryFails, At, Goto, Answer, pool, conns, tables
<1>15. ASSUME NEW g \in Procs, QueryRow(g) PROVE TxHasOwner'
  BY <1>15 DEF QueryRow, At, Goto, Answer, Usable, pool, conns, tables
<1>16. ASSUME NEW g \in Procs, RowsEnd(g) \/ ScanFails(g) PROVE TxHasOwner'
  <2>1. CASE RowsEnd(g)
    BY <2>1 DEF RowsEnd, At, Goto, Answer, pool, tables
  <2>2. CASE ScanFails(g)
    BY <2>2 DEF ScanFails, At, Goto, Answer, pool, tables
  <2> QED
    BY <1>16, <2>1, <2>2
<1>17. ASSUME NEW g \in Procs, Closed(g) PROVE TxHasOwner'
  BY <1>17 DEF Closed, Returning, EndRows
<1>18. ASSUME NEW g \in Procs, Closing(g) PROVE TxHasOwner'
  BY <1>18 DEF Closing
<1>19. ASSUME NEW g \in Procs, Leaving(g) PROVE TxHasOwner'
  BY <1>19 DEF Leaving
<1>20. CASE UNCHANGED <<tx, work, pc, lease>>
  BY <1>20
<1>21. ASSUME NEW g \in Procs,
             \/ ScanRow(g)
      PROVE  UNCHANGED <<tx, work, pc, lease>>
  BY <1>21 DEF ScanRow, At, pool, conns, tables
<1>22. ASSUME NEW x \in Conn, ConnectionLost(x) PROVE TxHasOwner'
  BY <1>22 DEF ConnectionLost, EndTx, pool, tables, requests
<1>23. CASE Exit
  BY <1>23 DEF Exit, Lease!Exit, tables
<1>24. CASE UNCHANGED vars
  BY <1>24 DEF vars, pool, conns, tables, requests
<1> QED
  BY <1>1, <1>2, <1>3, <1>4, <1>5, <1>6, <1>7, <1>8, <1>9, <1>10, <1>11, <1>12, <1>13,
     <1>14, <1>15, <1>16, <1>17, <1>18, <1>19, <1>20, <1>21, <1>22, <1>23, <1>24, StepFacts DEF StepOf

\* A connection that is lost, or that Begin or InsertProduct gives up, holds nothing.
LEMMA DeadHasNoneStep == Shape /\ Books /\ [Next]_vars => DeadHasNone'
<1> SUFFICES ASSUME Shape, Books, [Next]_vars PROVE DeadHasNone'
  OBVIOUS
<1>a. DeadHasNone /\ TxHasOwner /\ PoolTypes /\ ConnTypes /\ WorkTypes /\ Leased /\ Apart
  BY DEF Shape, Books
<1> USE <1>a, ConnAssumption DEF DeadHasNone, TxHasOwner, PoolTypes, ConnTypes, WorkTypes,
    Leased, Apart, Leasing, NoWork
<1>1. ASSUME NEW g \in Procs, Begin(g) PROVE DeadHasNone'
  <2>1. tx[lease[g]] = "none" /\ work[lease[g]] = NoWork
    BY <1>1, NoneYet DEF Begin, At
  <2> QED
    BY <1>1, <2>1 DEF Begin, Usable
<1>2. ASSUME NEW g \in Procs, Failed(g) PROVE DeadHasNone'
  BY <1>2 DEF Failed, Drawn
<1>3. ASSUME NEW g \in Procs, Placed(g) PROVE DeadHasNone'
  BY <1>3 DEF Placed, Drawn
<1>4. ASSUME NEW g \in Procs, Inserted(g) PROVE DeadHasNone'
  BY <1>4 DEF Inserted
<1>5. ASSUME NEW g \in Procs, Rollback(g) PROVE DeadHasNone'
  BY <1>5 DEF Rollback, EndTx, At, Goto, pool, tables, requests
<1>6. ASSUME NEW g \in Procs, Commit(g) PROVE DeadHasNone'
  BY <1>6 DEF Commit, EndTx, At, Goto, pool, requests
<1>7. ASSUME NEW g \in Procs, InsertProduct(g) PROVE DeadHasNone'
  <2>1. tx[lease[g]] = "none" /\ work[lease[g]] = NoWork
    BY <1>7, NoneYet DEF InsertProduct, At
  <2> QED
    BY <1>7, <2>1 DEF InsertProduct
<1>8. CASE UNCHANGED <<dead, tx, work>>
  BY <1>8
<1>9. ASSUME NEW g \in Procs,
             \/ \E k \in Kinds, b \in Seq(Item) \cup Seq(Nat) : Arrived(g, k, b)
             \/ Refused(g) \/ Accept(g)
             \/ \E c \in Conn, l \in FirstLabels : Borrowed(g, c, l)
             \/ Created(g) \/ Query(g) \/ QueryFails(g) \/ QueryRow(g) \/ ScanRow(g)
             \/ RowsEnd(g) \/ ScanFails(g) \/ Closed(g) \/ Closing(g) \/ Leaving(g)
      PROVE  UNCHANGED <<dead, tx, work>>
  BY <1>9 DEF Arrived, Refused, Returning, Accept, Goto, At, pool, conns, tables, Borrowed,
     Created, Answer, Query, Usable, QueryFails, QueryRow, ScanRow, RowsEnd, ScanFails, EndRows,
     Closed, Closing, Leaving
<1>10. ASSUME NEW x \in Conn, ConnectionLost(x) PROVE DeadHasNone'
  BY <1>10 DEF ConnectionLost, EndTx, pool, tables, requests
<1>11. CASE Exit
  BY <1>11 DEF Exit, Lease!Exit, tables
<1>12. CASE UNCHANGED vars
  BY <1>12 DEF vars, pool, conns, tables, requests
<1> QED
  BY <1>1, <1>2, <1>3, <1>4, <1>5, <1>6, <1>7, <1>8, <1>9, <1>10, <1>11, <1>12, StepFacts DEF StepOf

\* A handler that opens rows has them until it closes them.
LEMMA OpenRowsAreClosedStep == Shape /\ Books /\ [Next]_vars => OpenRowsAreClosed'
<1> SUFFICES ASSUME Shape, Books, [Next]_vars PROVE OpenRowsAreClosed'
  OBVIOUS
<1>a. /\ OpenRowsAreClosed /\ RequestTypes /\ ConnTypes /\ Reading /\ PoolTypes /\ Leased
      /\ Kinded
  BY DEF Shape, Books
<1> USE <1>a, ConnAssumption DEF OpenRowsAreClosed, RequestTypes, ConnTypes, Reading,
    PoolTypes, Leased, Kinded, Labels, FirstLabels, Leasing, At
<1>1. ASSUME NEW g \in Procs, NEW k \in Kinds, NEW b \in Seq(Item) \cup Seq(Nat),
             Arrived(g, k, b)
      PROVE OpenRowsAreClosed'
  BY <1>1 DEF Arrived
<1>2. ASSUME NEW g \in Procs, Refused(g) PROVE OpenRowsAreClosed'
  BY <1>2 DEF Refused, Returning
<1>3. ASSUME NEW g \in Procs, Accept(g) PROVE OpenRowsAreClosed'
  BY <1>3 DEF Accept, Goto, At, pool, conns, tables
<1>4. ASSUME NEW g \in Procs, NEW c \in Conn, NEW l \in FirstLabels, Borrowed(g, c, l)
      PROVE OpenRowsAreClosed'
  BY <1>4 DEF Borrowed
<1>5. ASSUME NEW g \in Procs, Begin(g) PROVE OpenRowsAreClosed'
  BY <1>5 DEF Begin, At, Goto, Answer, Usable, pool, tables
<1>6. ASSUME NEW g \in Procs, Failed(g) PROVE OpenRowsAreClosed'
  BY <1>6 DEF Failed, Drawn
<1>7. ASSUME NEW g \in Procs, Placed(g) PROVE OpenRowsAreClosed'
  BY <1>7 DEF Placed, Drawn
<1>8. ASSUME NEW g \in Procs, Created(g) PROVE OpenRowsAreClosed'
  BY <1>8 DEF Created, At, Goto, Answer, pool, conns, tables
<1>9. ASSUME NEW g \in Procs, Rollback(g) PROVE OpenRowsAreClosed'
  BY <1>9 DEF Rollback, EndTx, At, Goto, pool, tables, requests
<1>10. ASSUME NEW g \in Procs, Commit(g) PROVE OpenRowsAreClosed'
  BY <1>10 DEF Commit, EndTx, At, Goto, pool, requests
<1>11. ASSUME NEW g \in Procs, InsertProduct(g) PROVE OpenRowsAreClosed'
  BY <1>11 DEF InsertProduct, At, Goto, Answer, Usable, pool
<1>12. ASSUME NEW g \in Procs, Query(g) PROVE OpenRowsAreClosed'
  BY <1>12 DEF Query, At, Goto, Usable, pool, tables
<1>13. ASSUME NEW g \in Procs, QueryFails(g) PROVE OpenRowsAreClosed'
  BY <1>13 DEF QueryFails, At, Goto, Answer, pool, conns, tables
<1>14. ASSUME NEW g \in Procs, QueryRow(g) PROVE OpenRowsAreClosed'
  BY <1>14 DEF QueryRow, At, Goto, Answer, Usable, pool, conns, tables
<1>15. ASSUME NEW g \in Procs, RowsEnd(g) \/ ScanFails(g) PROVE OpenRowsAreClosed'
  <2>1. CASE RowsEnd(g)
    BY <2>1 DEF RowsEnd, EndRows, At, Goto, Answer, pool, tables
  <2>2. CASE ScanFails(g)
    BY <2>2 DEF ScanFails, EndRows, At, Goto, Answer, pool, tables
  <2> QED
    BY <1>15, <2>1, <2>2
<1>16. ASSUME NEW g \in Procs, Closed(g) PROVE OpenRowsAreClosed'
  BY <1>16 DEF Closed, Returning, EndRows
<1>17. ASSUME NEW g \in Procs, Closing(g) PROVE OpenRowsAreClosed'
  BY <1>17 DEF Closing
<1>18. ASSUME NEW g \in Procs, Leaving(g) PROVE OpenRowsAreClosed'
  BY <1>18 DEF Leaving
<1>19. CASE UNCHANGED <<busy, rows, pc, kind, lease>>
  BY <1>19
<1>20. ASSUME NEW g \in Procs,
             \/ Inserted(g) \/ ScanRow(g)
      PROVE  UNCHANGED <<busy, rows, pc, kind, lease>>
  BY <1>20 DEF Inserted, ScanRow, At, pool, conns, tables
<1>21. ASSUME NEW x \in Conn, ConnectionLost(x) PROVE UNCHANGED <<busy, rows, pc, kind, lease>>
  BY <1>21 DEF ConnectionLost, pool, tables, requests
<1>22. CASE Exit
  BY <1>22 DEF Exit, Lease!Exit, tables
<1>23. CASE UNCHANGED vars
  BY <1>23 DEF vars, pool, conns, tables, requests
<1> QED
  BY <1>1, <1>2, <1>3, <1>4, <1>5, <1>6, <1>7, <1>8, <1>9, <1>10, <1>11, <1>12, <1>13,
     <1>14, <1>15, <1>16, <1>17, <1>18, <1>19, <1>20, <1>21, <1>22, <1>23, StepFacts DEF StepOf

\* Commit commits unless the connection is lost.
LEMMA LostOrderMeansLostConnectionStep == Shape /\ Books /\ [Next]_vars => LostOrderMeansLostConnection'
<1> SUFFICES ASSUME Shape, Books, [Next]_vars PROVE LostOrderMeansLostConnection'
  OBVIOUS
<1>a. LostOrderMeansLostConnection /\ RequestTypes /\ AnswerTypes /\ PoolTypes /\ Answered
  BY DEF Shape, Books
<1> USE <1>a, ConnAssumption DEF LostOrderMeansLostConnection, RequestTypes, AnswerTypes,
    PoolTypes, Answered, Labels, FirstLabels, At
<1>1. ASSUME NEW g \in Procs, NEW k \in Kinds, NEW b \in Seq(Item) \cup Seq(Nat),
             Arrived(g, k, b)
      PROVE LostOrderMeansLostConnection'
  BY <1>1 DEF Arrived
<1>2. ASSUME NEW g \in Procs, Refused(g) PROVE LostOrderMeansLostConnection'
  BY <1>2 DEF Refused, Returning
<1>3. ASSUME NEW g \in Procs, Accept(g) PROVE LostOrderMeansLostConnection'
  BY <1>3 DEF Accept, Goto, At, pool, conns, tables
<1>4. ASSUME NEW g \in Procs, NEW c \in Conn, NEW l \in FirstLabels, Borrowed(g, c, l)
      PROVE LostOrderMeansLostConnection'
  BY <1>4 DEF Borrowed
<1>5. ASSUME NEW g \in Procs, Begin(g) PROVE LostOrderMeansLostConnection'
  BY <1>5 DEF Begin, At, Goto, Answer, Usable, pool, tables
<1>6. ASSUME NEW g \in Procs, Failed(g) PROVE LostOrderMeansLostConnection'
  BY <1>6 DEF Failed, Drawn
<1>7. ASSUME NEW g \in Procs, Placed(g) PROVE LostOrderMeansLostConnection'
  BY <1>7 DEF Placed
<1>8. ASSUME NEW g \in Procs, Created(g) PROVE LostOrderMeansLostConnection'
  BY <1>8 DEF Created, At, Goto, Answer, pool, conns, tables
<1>9. ASSUME NEW g \in Procs, Rollback(g) PROVE LostOrderMeansLostConnection'
  BY <1>9 DEF Rollback, EndTx, At, Goto, pool, tables, requests
<1>10. ASSUME NEW g \in Procs, Commit(g) PROVE LostOrderMeansLostConnection'
  <2> DEFINE c == lease[g]
  <2>1. c \in Conn /\ lease' = lease /\ dead \subseteq dead' /\ orders \subseteq orders'
    BY <1>10 DEF Commit, At, pool, Shape, Leased, Leasing, PoolTypes
  <2>2. c \notin dead => \E o \in orders' : o[1] = oid[g]
    <3> SUFFICES ASSUME c \notin dead PROVE \E o \in orders' : o[1] = oid[g]
      OBVIOUS
    <3>1. tx[c] = "open" /\ work[c].orders = {<<oid[g], buyer[g]>>}
      BY <1>10 DEF Commit, At, Books, Working, WorkingOf, Whole
    <3>2. <<oid[g], buyer[g]>> \in orders'
      BY <1>10, <3>1 DEF Commit
    <3> QED
      BY <3>2
  <2> QED
    BY <1>10, <2>1, <2>2 DEF Commit, Goto, requests
<1>11. ASSUME NEW g \in Procs, InsertProduct(g) PROVE LostOrderMeansLostConnection'
  BY <1>11 DEF InsertProduct, At, Goto, Answer, Usable, pool
<1>12. ASSUME NEW g \in Procs, Query(g) PROVE LostOrderMeansLostConnection'
  BY <1>12 DEF Query, At, Goto, Usable, pool, tables
<1>13. ASSUME NEW g \in Procs, QueryFails(g) PROVE LostOrderMeansLostConnection'
  BY <1>13 DEF QueryFails, At, Goto, Answer, pool, conns, tables
<1>14. ASSUME NEW g \in Procs, QueryRow(g) PROVE LostOrderMeansLostConnection'
  BY <1>14 DEF QueryRow, At, Goto, Answer, Usable, pool, conns, tables
<1>15. ASSUME NEW g \in Procs, RowsEnd(g) \/ ScanFails(g) PROVE LostOrderMeansLostConnection'
  <2>1. CASE RowsEnd(g)
    BY <2>1 DEF RowsEnd, At, Goto, Answer, pool, tables
  <2>2. CASE ScanFails(g)
    BY <2>2 DEF ScanFails, At, Goto, Answer, pool, tables
  <2> QED
    BY <1>15, <2>1, <2>2
<1>16. ASSUME NEW g \in Procs, Closed(g) PROVE LostOrderMeansLostConnection'
  BY <1>16 DEF Closed, Returning, EndRows
<1>17. ASSUME NEW g \in Procs, Closing(g) PROVE LostOrderMeansLostConnection'
  BY <1>17 DEF Closing
<1>18. ASSUME NEW g \in Procs, Leaving(g) PROVE LostOrderMeansLostConnection'
  BY <1>18 DEF Leaving
<1>19. CASE UNCHANGED <<answer, pc, orders, oid, lease, dead>>
  BY <1>19
<1>20. ASSUME NEW g \in Procs,
             \/ Inserted(g) \/ ScanRow(g)
      PROVE  UNCHANGED <<answer, pc, orders, oid, lease, dead>>
  BY <1>20 DEF Inserted, ScanRow, At, pool, conns, tables
<1>21. ASSUME NEW x \in Conn, ConnectionLost(x) PROVE LostOrderMeansLostConnection'
  BY <1>21 DEF ConnectionLost, EndTx, pool, tables, requests
<1>22. CASE Exit
  BY <1>22 DEF Exit, Lease!Exit, tables
<1>23. CASE UNCHANGED vars
  BY <1>23 DEF vars, pool, conns, tables, requests
<1> QED
  BY <1>1, <1>2, <1>3, <1>4, <1>5, <1>6, <1>7, <1>8, <1>9, <1>10, <1>11, <1>12, <1>13,
     <1>14, <1>15, <1>16, <1>17, <1>18, <1>19, <1>20, <1>21, <1>22, <1>23, StepFacts DEF StepOf

\* A number of the serial is drawn once.
LEMMA NumberedStep == Shape /\ Books /\ [Next]_vars => Numbered'
<1> SUFFICES ASSUME Shape, Books, [Next]_vars PROVE Numbered'
  OBVIOUS
<1>a. Numbered /\ AnswerTypes /\ TableTypes
  BY DEF Shape, Books
<1> USE <1>a, BoundsAssumption DEF Numbered, AnswerTypes, TableTypes, NoOrder
<1>1. ASSUME NEW g \in Procs, NEW k \in Kinds, NEW b \in Seq(Item) \cup Seq(Nat),
             Arrived(g, k, b)
      PROVE Numbered'
  BY <1>1 DEF Arrived
<1>2. ASSUME NEW g \in Procs, Failed(g) PROVE Numbered'
  BY <1>2 DEF Failed, Drawn
<1>3. ASSUME NEW g \in Procs, Placed(g) PROVE Numbered'
  BY <1>3 DEF Placed, Drawn
<1>4. CASE UNCHANGED <<oid, drawn>>
  BY <1>4
<1>5. ASSUME NEW g \in Procs,
             \/ Refused(g) \/ Accept(g)
             \/ \E c \in Conn, l \in FirstLabels : Borrowed(g, c, l)
             \/ Begin(g) \/ Inserted(g) \/ Created(g) \/ Rollback(g) \/ Commit(g)
             \/ InsertProduct(g) \/ Query(g) \/ QueryFails(g) \/ QueryRow(g)
             \/ ScanRow(g) \/ RowsEnd(g) \/ ScanFails(g) \/ Closed(g) \/ Closing(g) \/ Leaving(g)
      PROVE  UNCHANGED <<oid, drawn>>
  BY <1>5 DEF Refused, Returning, Accept, Goto, At, pool, conns, tables, Borrowed, Begin,
     Answer, Usable, Inserted, Created, Rollback, EndTx, requests, Commit, InsertProduct,
     Query, QueryFails, QueryRow, ScanRow, RowsEnd, ScanFails, EndRows, Closed, Closing, Leaving
<1>6. ASSUME NEW x \in Conn, ConnectionLost(x) PROVE UNCHANGED <<oid, drawn>>
  BY <1>6 DEF ConnectionLost, pool, tables, requests
<1>7. CASE Exit
  BY <1>7 DEF Exit, Lease!Exit, tables
<1>8. CASE UNCHANGED vars
  BY <1>8 DEF vars, pool, conns, tables, requests
<1> QED
  BY <1>1, <1>2, <1>3, <1>4, <1>5, <1>6, <1>7, <1>8, StepFacts DEF StepOf

\* Commit adds the order of its own handler, and no other.
LEMMA UnplacedStep == Shape /\ Books /\ [Next]_vars => Unplaced'
<1> SUFFICES ASSUME Shape, Books, [Next]_vars PROVE Unplaced'
  OBVIOUS
<1>a. /\ Unplaced /\ Numbered /\ Working /\ DeadHasNone /\ RequestTypes /\ AnswerTypes
      /\ Answered /\ WorkTypes /\ TableTypes /\ PoolTypes /\ ConnTypes /\ Leased
  BY DEF Shape, Books
<1> USE <1>a, ConnAssumption, BoundsAssumption DEF Unplaced, Numbered, Working, DeadHasNone,
    RequestTypes, AnswerTypes, Answered, WorkTypes, TableTypes, PoolTypes, ConnTypes,
    Leased, NoOrder, Labels, FirstLabels, Absent, Leasing, Whole, WorkingOf
<1>1. ASSUME NEW g \in Procs, NEW k \in Kinds, NEW b \in Seq(Item) \cup Seq(Nat),
             Arrived(g, k, b)
      PROVE Unplaced'
  BY <1>1 DEF Arrived
<1>2. ASSUME NEW g \in Procs, Refused(g) PROVE Unplaced'
  BY <1>2 DEF Refused, Returning
<1>3. ASSUME NEW g \in Procs, Accept(g) PROVE Unplaced'
  BY <1>3 DEF Accept, Goto, At, pool, conns, tables
<1>4. ASSUME NEW g \in Procs, NEW c \in Conn, NEW l \in FirstLabels, Borrowed(g, c, l)
      PROVE Unplaced'
  BY <1>4 DEF Borrowed
<1>5. ASSUME NEW g \in Procs, Begin(g) PROVE Unplaced'
  BY <1>5 DEF Begin, At, Goto, Answer, Usable, pool, tables
<1>6. ASSUME NEW g \in Procs, Failed(g) PROVE Unplaced'
  BY <1>6 DEF Failed, Drawn
<1>7. ASSUME NEW g \in Procs, Placed(g) PROVE Unplaced'
  <2>1. drawn \in Nat /\ oid' = [oid EXCEPT ![g] = drawn + 1]
    BY <1>7 DEF Placed
  <2>2. Absent(drawn + 1)
    <3>1. \A o \in orders : o[1] # drawn + 1
      BY <2>1
    <3> QED
      BY <3>1 DEF Books, AllOrNothing
  <2>3. UNCHANGED <<orders, orderItems, answer>> /\ pc' = [pc EXCEPT ![g] = "insert.item"]
    BY <1>7 DEF Placed
  <2> QED
    BY <2>1, <2>2, <2>3
<1>8. ASSUME NEW g \in Procs, Created(g) PROVE Unplaced'
  BY <1>8 DEF Created, At, Goto, Answer, pool, conns, tables
<1>9. ASSUME NEW g \in Procs, Rollback(g) PROVE Unplaced'
  BY <1>9 DEF Rollback, EndTx, At, Goto, pool, tables, requests
<1>10. ASSUME NEW g \in Procs, Commit(g) PROVE Unplaced'
  BY <1>10 DEF Commit, EndTx, At, Goto, pool, requests
<1>11. ASSUME NEW g \in Procs, InsertProduct(g) PROVE Unplaced'
  BY <1>11 DEF InsertProduct, At, Goto, Answer, Usable, pool
<1>12. ASSUME NEW g \in Procs, Query(g) PROVE Unplaced'
  BY <1>12 DEF Query, At, Goto, Usable, pool, tables
<1>13. ASSUME NEW g \in Procs, QueryFails(g) PROVE Unplaced'
  BY <1>13 DEF QueryFails, At, Goto, Answer, pool, conns, tables
<1>14. ASSUME NEW g \in Procs, QueryRow(g) PROVE Unplaced'
  BY <1>14 DEF QueryRow, At, Goto, Answer, Usable, pool, conns, tables
<1>15. ASSUME NEW g \in Procs, RowsEnd(g) \/ ScanFails(g) PROVE Unplaced'
  <2>1. CASE RowsEnd(g)
    BY <2>1 DEF RowsEnd, EndRows, At, Goto, Answer, pool, tables
  <2>2. CASE ScanFails(g)
    BY <2>2 DEF ScanFails, EndRows, At, Goto, Answer, pool, tables
  <2> QED
    BY <1>15, <2>1, <2>2
<1>16. ASSUME NEW g \in Procs, Closed(g) PROVE Unplaced'
  BY <1>16 DEF Closed, Returning, EndRows
<1>17. ASSUME NEW g \in Procs, Closing(g) PROVE Unplaced'
  BY <1>17 DEF Closing
<1>18. ASSUME NEW g \in Procs, Leaving(g) PROVE Unplaced'
  BY <1>18 DEF Leaving
<1>19. CASE UNCHANGED <<oid, pc, answer, orders, orderItems>>
  BY <1>19
<1>20. ASSUME NEW g \in Procs,
             \/ Inserted(g) \/ ScanRow(g)
      PROVE  UNCHANGED <<oid, pc, answer, orders, orderItems>>
  BY <1>20 DEF Inserted, ScanRow, At, pool, conns, tables
<1>21. ASSUME NEW x \in Conn, ConnectionLost(x) PROVE UNCHANGED <<oid, pc, answer, orders, orderItems>>
  BY <1>21 DEF ConnectionLost, pool, tables, requests
<1>22. CASE Exit
  BY <1>22 DEF Exit, Lease!Exit, tables
<1>23. CASE UNCHANGED vars
  BY <1>23 DEF vars, pool, conns, tables, requests
<1> QED
  BY <1>1, <1>2, <1>3, <1>4, <1>5, <1>6, <1>7, <1>8, <1>9, <1>10, <1>11, <1>12, <1>13,
     <1>14, <1>15, <1>16, <1>17, <1>18, <1>19, <1>20, <1>21, <1>22, <1>23, StepFacts DEF StepOf

\* What g is at in the database is as it was.
Keeping(h) ==
    /\ pc'[h] = pc[h]
    /\ oid'[h] = oid[h]
    /\ buyer'[h] = buyer[h]
    /\ lease'[h] = lease[h]
    /\ todo'[h] = todo[h]
    /\ lease[h] \in Conn => /\ tx'[lease[h]] = tx[lease[h]]
                            /\ work'[lease[h]] = work[lease[h]]
                            /\ lease[h] \in dead => lease[h] \in dead'
    /\ \A n \in 1 .. drawn : asked'[n] = asked[n]

\* A handler that is kept so works as before.
LEMMA KeptIsWorking ==
    ASSUME Shape, Books, NEW h \in Procs, Keeping(h)
    PROVE  WorkingOf(h)'
<1>1. WorkingOf(h)
  BY DEF Books, Working
<1>2. CASE pc[h] \notin {"insert.order", "insert.item", "commit"}
  BY <1>2 DEF Keeping, WorkingOf
<1>3. CASE pc[h] \in {"insert.order", "insert.item", "commit"}
  <2>1. lease[h] \in Conn
    BY <1>3 DEF Shape, Leased, Leasing, PoolTypes
  <2>2. pc[h] # "insert.order" => oid[h] \in 1 .. drawn
    BY <1>1, <1>3 DEF WorkingOf, Books, Numbered
  <2>3. Whole(h) /\ pc[h] # "insert.order" => Whole(h)'
    BY <2>1, <2>2 DEF Keeping, Whole, ItemsIn
  <2> QED
    BY <1>1, <1>3, <2>1, <2>2, <2>3 DEF Keeping, WorkingOf
<1> QED
  BY <1>2, <1>3

\* A handler's step keeps the others so: no connection is two handlers'.
LEMMA OthersKeep ==
    ASSUME Shape, NEW g \in Procs, StepOf(g), NEW h \in Procs \ {g}
    PROVE  Keeping(h)
<1> DEFINE c == lease[g]
<1>1. c \in Conn => lease[h] # c
  BY ConnAssumption DEF Shape, Apart
<1>2. pc[g] \in Leasing => c \in Conn
  BY DEF Shape, Leased, PoolTypes
<1>a. /\ DOMAIN pc = Procs /\ DOMAIN lease = Procs /\ DOMAIN oid = Procs
      /\ DOMAIN buyer = Procs /\ DOMAIN todo = Procs
  BY DEF Shape, PoolTypes, RequestTypes, AnswerTypes, TodoTypes
<1> USE <1>a DEF Keeping
<1>3. ASSUME Drawn(g) PROVE \A n \in 1 .. drawn : asked'[n] = asked[n]
  BY <1>3, AskedGrows DEF Shape
<1>4. CASE Failed(g)
  BY <1>1, <1>3, <1>4 DEF Failed
<1>5. CASE Placed(g)
  BY <1>1, <1>3, <1>5 DEF Placed
<1>6. CASE Inserted(g)
  BY <1>1, <1>6 DEF Inserted
<1>7. CASE Begin(g)
  <2>1. /\ c \in Conn
        /\ tx' = [tx EXCEPT ![c] = "open"] \/ tx' = tx
        /\ dead \subseteq dead'
        /\ UNCHANGED <<lease, work, oid, buyer, todo, asked>>
    BY <1>2, <1>7 DEF Begin, At, Leasing, pool
  <2>2. pc'[h] = pc[h]
    BY <1>7 DEF Begin, Goto
  <2>3. lease[h] \in Conn => tx'[lease[h]] = tx[lease[h]]
    BY <1>1, <2>1 DEF Shape, ConnTypes
  <2> QED
    BY <2>1, <2>2, <2>3
<1>8. CASE Rollback(g)
  BY <1>1, <1>2, <1>8 DEF Rollback, EndTx, At, Goto, Leasing, pool, requests
<1>9. CASE Commit(g)
  BY <1>1, <1>2, <1>9 DEF Commit, EndTx, At, Goto, Leasing, pool, requests
<1>10. CASE InsertProduct(g)
  BY <1>10 DEF InsertProduct, Goto, pool
<1>11. CASE \E k \in Kinds, b \in Seq(Item) \cup Seq(Nat) : Arrived(g, k, b)
  BY <1>11 DEF Arrived
<1>12. CASE \E d \in Conn, l \in FirstLabels : Borrowed(g, d, l)
  BY <1>12 DEF Borrowed
<1>13. CASE Accept(g)
  BY <1>13 DEF Accept, Goto, pool, conns
<1>14. CASE Created(g)
  BY <1>14 DEF Created, Goto, pool, conns
<1>15. CASE Query(g)
  BY <1>15 DEF Query, Goto, pool
<1>16. CASE QueryFails(g)
  BY <1>16 DEF QueryFails, Goto, pool, conns
<1>17. CASE QueryRow(g)
  BY <1>17 DEF QueryRow, Goto, pool, conns
<1>18. CASE ScanRow(g)
  BY <1>18 DEF ScanRow, pool, conns
<1>19. CASE RowsEnd(g) \/ ScanFails(g)
  BY <1>19 DEF RowsEnd, ScanFails, Goto, pool
<1>20. CASE Refused(g)
  BY <1>20 DEF Refused, Returning
<1>21. CASE Closed(g)
  BY <1>21 DEF Closed, Returning
<1>22. CASE Closing(g)
  BY <1>22 DEF Closing
<1>23. CASE Leaving(g)
  BY <1>23 DEF Leaving
<1> QED
  BY <1>4, <1>5, <1>6, <1>7, <1>8, <1>9, <1>10, <1>11, <1>12, <1>13, <1>14, <1>15,
     <1>16, <1>17, <1>18, <1>19, <1>20, <1>21, <1>22, <1>23 DEF StepOf

\* A handler's own step: the inserted items and those left stay what was asked for.
LEMMA OwnWork ==
    ASSUME Shape, Books, NEW g \in Procs, StepOf(g)
    PROVE  WorkingOf(g)'
<1> DEFINE c == lease[g]
<1>1. CASE Begin(g)
  <2>1. pc[g] = "begin" /\ c \in Conn /\ work[c] = NoWork
    BY <1>1, NoneYet DEF Begin, At, Books
  <2>2. CASE Usable(g)
    <3>1. /\ pc' = [pc EXCEPT ![g] = "insert.order"]
          /\ tx' = [tx EXCEPT ![c] = "open"]
          /\ UNCHANGED <<work, lease>>
      BY <1>1, <2>2 DEF Begin, Goto, pool
    <3>2. pc'[g] = "insert.order" /\ tx'[c] = "open"
      BY <2>1, <3>1 DEF Shape, RequestTypes, ConnTypes
    <3> QED
      BY <2>1, <3>1, <3>2 DEF WorkingOf
  <2>3. CASE ~Usable(g)
    <3>1. pc'[g] = "release"
      BY <1>1, <2>3 DEF Begin, Goto, Shape, RequestTypes
    <3> QED
      BY <3>1 DEF WorkingOf
  <2> QED
    BY <2>2, <2>3
<1>2. CASE Placed(g)
  <2>1. /\ work[c] = NoWork
        /\ tx[c] = "open"
    BY <1>2 DEF Placed, Books, Working, WorkingOf
  <2>2. drawn \in Nat
    BY BoundsAssumption DEF Shape, TableTypes
  <2>3. asked'[drawn + 1] = [buyer |-> buyer[g], items |-> ItemsIn(todo[g])]
    BY <1>2, AskedGrows DEF Placed, Shape
  <2>4. oid'[g] = drawn + 1 /\ pc'[g] = "insert.item"
    BY <1>2 DEF Placed, Shape, AnswerTypes, RequestTypes
  <2>5. work'[c].orders = {<<drawn + 1, buyer[g]>>} /\ work'[c].items = {}
    <3> DEFINE new == <<drawn + 1, buyer[g]>>
    <3>1. work' = [work EXCEPT ![c] = [orders |-> work[c].orders \cup {new},
                                       items  |-> work[c].items]]
      BY <1>2 DEF Placed
    <3> HIDE DEF new
    <3>2. work'[c] = [orders |-> {new}, items |-> {}]
      BY <1>2, <2>1, <3>1 DEF Placed, NoWork, Shape, WorkTypes
    <3> QED
      BY <3>2 DEF new
  <2>6. UNCHANGED <<lease, dead, tx, buyer, todo>>
    BY <1>2 DEF Placed
  <2>7. Whole(g)'
    BY <2>1, <2>3, <2>4, <2>5, <2>6 DEF Whole, ItemsIn
  <2> QED
    BY <2>2, <2>3, <2>4, <2>6, <2>7 DEF WorkingOf, NoOrder
<1>3. CASE Inserted(g)
  <2> DEFINE item == Head(todo[g])
  <2>1. pc[g] = "insert.item" /\ c \in Conn \ dead /\ Whole(g) /\ WorkingOf(g)
    BY <1>3 DEF Inserted, Books, Working, WorkingOf
  <2>2. todo'[g] = Tail(todo[g]) /\ ItemsIn(todo[g]) = {item} \cup ItemsIn(Tail(todo[g]))
    <3>1. todo[g] \in Seq(Item) /\ todo[g] # << >>
      BY <1>3 DEF Inserted
    <3>2. ItemsIn(todo[g]) = {item} \cup ItemsIn(Tail(todo[g]))
      BY <3>1, HeadAndTail
    <3> QED
      BY <1>3, <3>2 DEF Inserted, Shape, TodoTypes
  <2>3. /\ work'[c].orders = work[c].orders
        /\ work'[c].items = work[c].items \cup {<<oid[g], item>>}
    <3> DEFINE new == <<oid[g], item>>
    <3>1. work' = [work EXCEPT ![c] = [orders |-> work[c].orders,
                                       items  |-> work[c].items \cup {new}]]
      BY <1>3 DEF Inserted
    <3> HIDE DEF new
    <3>2. work'[c] = [orders |-> work[c].orders, items |-> work[c].items \cup {new}]
      BY <2>1, <3>1 DEF Shape, WorkTypes
    <3> QED
      BY <3>2 DEF new
  <2>4. UNCHANGED <<lease, dead, tx, pc, oid, buyer, asked>>
    BY <1>3 DEF Inserted
  <2>5. Whole(g)'
    <3>1. \A r \in work'[c].items : r[1] = oid[g]
      BY <2>1, <2>3 DEF Whole
    <3>2. {r[2] : r \in work'[c].items} = {r[2] : r \in work[c].items} \cup {item}
      <4>1. <<oid[g], item>>[2] = item
        OBVIOUS
      <4> QED
        BY <2>3, <4>1, SecondsOfUnion
    <3>3. {r[2] : r \in work'[c].items} \cup ItemsIn(Tail(todo[g])) = asked[oid[g]].items
      BY <2>1, <2>2, <3>2 DEF Whole
    <3>4. ItemsIn(todo[g])' = ItemsIn(Tail(todo[g]))
      BY <2>2 DEF ItemsIn
    <3> QED
      BY <2>1, <2>3, <2>4, <3>1, <3>3, <3>4 DEF Whole
  <2> QED
    BY <2>1, <2>4, <2>5 DEF WorkingOf
<1>4. CASE Created(g)
  <2>1. /\ pc[g] = "insert.item" /\ todo[g] = << >>
        /\ UNCHANGED <<lease, dead, tx, work, todo, oid, buyer, asked>>
    BY <1>4 DEF Created, At, pool, conns
  <2>2. pc'[g] = "commit"
    BY <1>4 DEF Created, Goto, Shape, RequestTypes
  <2>3. Whole(g) => Whole(g)'
    BY <2>1 DEF Whole, ItemsIn
  <2> QED
    BY <2>1, <2>2, <2>3 DEF Books, Working, WorkingOf
<1>5. ASSUME pc'[g] \notin {"insert.order", "insert.item", "commit"} PROVE WorkingOf(g)'
  BY <1>5 DEF WorkingOf
<1> USE DEF Shape, RequestTypes
<1>6. CASE \/ \E k \in Kinds, b \in Seq(Item) \cup Seq(Nat) : Arrived(g, k, b)
           \/ \E d \in Conn, l \in FirstLabels : Borrowed(g, d, l)
  BY <1>5, <1>6 DEF Arrived, Borrowed, FirstLabels
<1>7. CASE Refused(g) \/ Accept(g) \/ Failed(g) \/ Rollback(g) \/ Commit(g)
  BY <1>5, <1>7 DEF Refused, Returning, Accept, Failed, Rollback, Commit, Goto
<1>8. CASE InsertProduct(g) \/ Query(g) \/ QueryFails(g) \/ QueryRow(g)
  BY <1>5, <1>8 DEF InsertProduct, Query, QueryFails, QueryRow, Goto
<1>9. CASE ScanRow(g) \/ RowsEnd(g) \/ ScanFails(g) \/ Closed(g) \/ Closing(g) \/ Leaving(g)
  BY <1>5, <1>9 DEF ScanRow, At, RowsEnd, ScanFails, Closed, Returning, Closing, Leaving, Goto
<1> QED
  BY <1>1, <1>2, <1>3, <1>4, <1>6, <1>7, <1>8, <1>9 DEF StepOf

\* The two together.
LEMMA WorkingStep == Shape /\ Books /\ [Next]_vars => Working'
<1> SUFFICES ASSUME Shape, Books, [Next]_vars PROVE Working'
  OBVIOUS
<1> SUFFICES ASSUME NEW h \in Procs PROVE WorkingOf(h)'
  BY DEF Working
<1>1. ASSUME NEW g \in Procs, StepOf(g) PROVE WorkingOf(h)'
  BY <1>1, OwnWork, OthersKeep, KeptIsWorking
<1>2. ASSUME NEW x \in Conn, ConnectionLost(x) PROVE WorkingOf(h)'
  <2>1. CASE lease[h] # x
    <3>1. Keeping(h)
      BY <1>2, <2>1 DEF ConnectionLost, EndTx, Keeping, pool, requests
    <3> QED
      BY <3>1, KeptIsWorking
  <2>2. CASE lease[h] = x
    <3>1. WorkingOf(h)
      BY DEF Books, Working
    <3>2. /\ lease'[h] \in dead'
          /\ work'[lease'[h]] = NoWork
          /\ UNCHANGED <<pc, oid, asked, buyer, todo>>
      BY <1>2, <2>2 DEF ConnectionLost, EndTx, pool, requests, Shape, WorkTypes
    <3> QED
      BY <3>1, <3>2 DEF WorkingOf
  <2> QED
    BY <2>1, <2>2
<1>3. CASE Exit
  BY <1>3 DEF Exit, WorkingOf
<1>4. CASE UNCHANGED vars
  <2>1. Keeping(h)
    BY <1>4 DEF vars, pool, conns, requests, Keeping
  <2> QED
    BY <2>1, KeptIsWorking
<1> QED
  BY <1>1, <1>2, <1>3, <1>4, StepFacts

\* Commit adds an order that is whole.
LEMMA AllOrNothingStep == Shape /\ Books /\ [Next]_vars => AllOrNothing'
<1> SUFFICES ASSUME Shape, Books, [Next]_vars PROVE AllOrNothing'
  OBVIOUS
<1>a. AllOrNothing /\ TableTypes /\ AskedTypes
  BY DEF Shape, Books
<1> USE <1>a, BoundsAssumption DEF AllOrNothing, TableTypes, AskedTypes
<1>1. ASSUME NEW g \in Procs, Failed(g) PROVE AllOrNothing'
  BY <1>1, AskedGrows DEF Failed
<1>2. ASSUME NEW g \in Procs, Placed(g) PROVE AllOrNothing'
  BY <1>2, AskedGrows DEF Placed
<1>3. ASSUME NEW g \in Procs, Commit(g) PROVE AllOrNothing'
  <2> DEFINE c == lease[g]
             n == oid[g]
             new == <<n, buyer[g]>>
  <2>1. asked' = asked
    BY <1>3 DEF Commit
  <2>2. CASE tx[c] # "open"
    BY <1>3, <2>1, <2>2 DEF Commit
  <2>3. CASE tx[c] = "open"
    <3>1. pc[g] = "commit" /\ c \in Conn /\ c \notin dead
      BY <1>3, <2>3, ConnAssumption
         DEF Commit, At, Shape, Leased, Leasing, PoolTypes, Books, DeadHasNone
    <3>2. /\ n # NoOrder
          /\ asked[n].buyer = buyer[g]
          /\ work[c].orders = {new}
          /\ \A r \in work[c].items : r[1] = n
      BY <3>1 DEF Books, Working, WorkingOf, Whole
    <3>3. {r[2] : r \in work[c].items} = asked[n].items
      <4>1. {r[2] : r \in work[c].items} \cup ItemsIn(todo[g]) = asked[n].items
        BY <3>1 DEF Books, Working, WorkingOf, Whole
      <4>2. ItemsIn(todo[g]) = {}
        BY <3>1 DEF Books, Working, WorkingOf, ItemsIn
      <4> QED
        BY <4>1, <4>2
    <3>4. Absent(n)
      BY <3>1, <3>2 DEF Books, Unplaced
    <3>5. orders' = orders \cup {new} /\ orderItems' = orderItems \cup work[c].items
      BY <1>3, <2>3, <3>2 DEF Commit
    <3>6. ASSUME NEW o \in orders'
          PROVE  /\ o[2] = asked'[o[1]].buyer
                 /\ {r[2] : r \in {i \in orderItems' : i[1] = o[1]}} = asked'[o[1]].items
      <4>1. CASE o \in orders
        <5>1. o[1] # n
          BY <3>4, <4>1 DEF Absent
        <5>2. {i \in orderItems' : i[1] = o[1]} = {i \in orderItems : i[1] = o[1]}
          BY <3>2, <3>5, <5>1
        <5> QED
          BY <2>1, <4>1, <5>2
      <4>2. CASE o = new
        <5>1. o[1] = n /\ o[2] = buyer[g]
          BY <4>2
        <5>2. {i \in orderItems' : i[1] = n} = work[c].items
          BY <3>2, <3>4, <3>5 DEF Absent
        <5> QED
          BY <2>1, <3>2, <3>3, <5>1, <5>2
      <4> QED
        BY <3>5, <4>1, <4>2
    <3>7. ASSUME NEW r \in orderItems' PROVE \E o \in orders' : o[1] = r[1]
      <4>1. CASE r \in orderItems
        BY <3>5, <4>1
      <4>2. CASE r \in work[c].items
        <5>1. new \in orders' /\ new[1] = r[1]
          BY <3>2, <3>5, <4>2
        <5> QED
          BY <5>1
      <4> QED
        BY <3>5, <4>1, <4>2
    <3> QED
      BY <3>6, <3>7
  <2> QED
    BY <2>2, <2>3
<1>4. CASE UNCHANGED <<orders, orderItems, asked>>
  BY <1>4
<1>5. ASSUME NEW g \in Procs,
             \/ \E k \in Kinds, b \in Seq(Item) \cup Seq(Nat) : Arrived(g, k, b)
             \/ Refused(g) \/ Accept(g)
             \/ \E c \in Conn, l \in FirstLabels : Borrowed(g, c, l)
             \/ Begin(g) \/ Inserted(g) \/ Created(g) \/ Rollback(g) \/ InsertProduct(g)
             \/ Query(g) \/ QueryFails(g) \/ QueryRow(g) \/ ScanRow(g) \/ RowsEnd(g) \/ ScanFails(g)
             \/ Closed(g) \/ Closing(g) \/ Leaving(g)
      PROVE  UNCHANGED <<orders, orderItems, asked>>
  BY <1>5 DEF Arrived, Refused, Returning, Accept, Goto, At, pool, conns, tables, Borrowed,
     Begin, Answer, Usable, Inserted, Created, Rollback, EndTx, requests, InsertProduct,
     Query, QueryFails, QueryRow, ScanRow, RowsEnd, ScanFails, EndRows, Closed, Closing, Leaving
<1>6. ASSUME NEW x \in Conn, ConnectionLost(x) PROVE UNCHANGED <<orders, orderItems, asked>>
  BY <1>6 DEF ConnectionLost, pool, tables, requests
<1>7. CASE Exit
  BY <1>7 DEF Exit, tables
<1>8. CASE UNCHANGED vars
  BY <1>8 DEF vars, pool, conns, tables, requests
<1> QED
  BY <1>1, <1>2, <1>3, <1>4, <1>5, <1>6, <1>7, <1>8, StepFacts DEF StepOf

\* Its conjuncts taken together.
LEMMA BooksStep == Shape /\ Books /\ [Next]_vars => Books'
BY TxHasOwnerStep, DeadHasNoneStep, OpenRowsAreClosedStep,
   LostOrderMeansLostConnectionStep, NumberedStep, UnplacedStep, WorkingStep,
   AllOrNothingStep DEF Books

\* Nothing is there at the start.
LEMMA InitBooks == Init => Books
<1> SUFFICES ASSUME Init PROVE Books
  OBVIOUS
<1>1. TxHasOwner /\ DeadHasNone /\ OpenRowsAreClosed
  BY DEF Init, TxHasOwner, DeadHasNone, OpenRowsAreClosed
<1>2. LostOrderMeansLostConnection
  BY DEF Init, LostOrderMeansLostConnection, At
<1>3. Numbered /\ Working /\ Unplaced
  BY DEF Init, Numbered, Working, WorkingOf, Unplaced
<1>4. AllOrNothing
  BY DEF Init, AllOrNothing
<1> QED
  BY <1>1, <1>2, <1>3, <1>4 DEF Books

\* Books is an invariant, beside Shape.
LEMMA BooksAlways == Spec => []Books
<1>1. Init => Shape /\ Books
  BY InitShape, InitBooks
<1>2. (Shape /\ Books) /\ [Next]_vars => (Shape /\ Books)'
  BY ShapeStep, BooksStep
<1> QED
  BY <1>1, <1>2, PTL DEF Spec

\* No handler ever works inside another's transaction: one is open only on the
\* connection of the handler that is about to end it (products_order_put).
THEOREM TxHasOwnerAlways == Spec => []TxHasOwner
<1>1. Books => TxHasOwner
  BY DEF Books
<1> QED
  BY <1>1, BooksAlways, PTL

\* A connection is busy only for the handler that borrowed it, or for one of a single
\* row that gave it back and has only its Close left (the deferred one of user_post).
THEOREM OpenRowsAreClosedAlways == Spec => []OpenRowsAreClosed
<1>1. Books => OpenRowsAreClosed
  BY DEF Books
<1> QED
  BY <1>1, BooksAlways, PTL

\* An order that was answered 201 and is not committed went with its connection
\* (the deferred commit of products_order_put).
THEOREM LostOrderMeansLostConnectionAlways == Spec => []LostOrderMeansLostConnection
<1>1. Books => LostOrderMeansLostConnection
  BY DEF Books
<1> QED
  BY <1>1, BooksAlways, PTL

\* An order is committed as it was asked for, with all its items, or not at all,
\* whatever fails and wherever the process ends (products_order_put).
THEOREM AllOrNothingAlways == Spec => []AllOrNothing
<1>1. Books => AllOrNothing
  BY DEF Books
<1> QED
  BY <1>1, BooksAlways, PTL

\* A request answered with an error leaves no order behind (products_order_put).
THEOREM RefusedMeansAbsentAlways == Spec => []RefusedMeansAbsent
<1>1. Books => RefusedMeansAbsent
  BY DEF Books, Unplaced, Absent, RefusedMeansAbsent
<1> QED
  BY <1>1, BooksAlways, PTL

-----------------------------------------------------------------------------
\* The tables are an order book.

\* Until an order is inserted its items are those of its request's body, and from
\* Accept on they are valid.
Bodied == \A g \in Procs : kind[g] = "order" =>
    /\ pc[g] \in {"validate", "borrow", "begin", "insert.order"} => todo[g] \in Bodies
    /\ pc[g] \in {"borrow", "begin", "insert.order"} => ValidItems(todo[g])

\* The rows of an open transaction may all be there: their products are, their
\* quantities fit, and their keys are different.
Fitting == \A c \in Conn : \A r \in work[c].items :
    /\ r[2].product \in 1 .. products
    /\ r[2].quantity <= MaxInt4
    /\ \A q \in work[c].items : q[1] = r[1] /\ q[2].product = r[2].product => q = r

\* What a request in order asks for.
Askable == {RequestOf(u, b) : u \in Users \cup {ZeroId},
                              b \in {x \in Bodies : ValidItems(x)}}

LEMMA BodiedStep == Shape /\ Bodied /\ [Next]_vars => Bodied'
<1> SUFFICES ASSUME Shape, Bodied, [Next]_vars PROVE Bodied'
  OBVIOUS
<1>a. RequestTypes /\ Kinded
  BY DEF Shape
<1>b. todo \in [Procs -> Seq(Item) \cup Seq(Nat)]
  BY DEF Shape, TodoTypes
<1> USE <1>a, <1>b DEF RequestTypes
<1>1. ASSUME NEW g \in Procs,
             pc'[g] \notin {"validate", "borrow", "begin", "insert.order"},
             \A h \in Procs \ {g} : UNCHANGED <<pc[h], kind[h], todo[h]>>
      PROVE  Bodied'
  BY <1>1 DEF Bodied
<1>2. ASSUME NEW g \in Procs, NEW k \in Kinds, NEW b \in Seq(Item) \cup Seq(Nat),
             Arrived(g, k, b)
      PROVE  Bodied'
  BY <1>2 DEF Arrived, Bodied
<1>3. ASSUME NEW g \in Procs, Accept(g) PROVE Bodied'
  BY <1>3 DEF Accept, At, Goto, Bodied
<1>4. ASSUME NEW g \in Procs, NEW c \in Conn, NEW l \in FirstLabels, Borrowed(g, c, l)
      PROVE  Bodied'
  BY <1>4 DEF Borrowed, FirstLabels, Bodied
<1>5. ASSUME NEW g \in Procs, Begin(g) PROVE Bodied'
  BY <1>5 DEF Begin, At, Goto, Bodied
<1>6. ASSUME NEW g \in Procs,
             \/ Refused(g) \/ Failed(g) \/ Placed(g) \/ Inserted(g) \/ Created(g)
             \/ Rollback(g) \/ Commit(g) \/ InsertProduct(g) \/ Query(g) \/ QueryFails(g)
             \/ QueryRow(g) \/ ScanRow(g) \/ RowsEnd(g) \/ ScanFails(g) \/ Closed(g) \/ Closing(g)
             \/ Leaving(g)
      PROVE  Bodied'
  <2>1. /\ pc'[g] \notin {"validate", "borrow", "begin", "insert.order"}
        /\ \A h \in Procs \ {g} : UNCHANGED <<pc[h], kind[h], todo[h]>>
    BY <1>6 DEF Refused, Returning, Failed, Placed, Inserted, Created, Rollback, Commit,
       InsertProduct, Query, QueryFails, QueryRow, ScanRow, RowsEnd, ScanFails, Closed, Closing,
       Leaving, At, Goto, requests
  <2> QED
    BY <1>1, <2>1
<1>7. ASSUME NEW x \in Conn, ConnectionLost(x) PROVE Bodied'
  BY <1>7 DEF ConnectionLost, requests, Bodied
<1>8. CASE Exit
  BY <1>8 DEF Exit, Bodied
<1>9. CASE UNCHANGED vars
  BY <1>9 DEF vars, requests, Bodied
<1> QED
  BY <1>2, <1>3, <1>4, <1>5, <1>6, <1>7, <1>8, <1>9, StepFacts DEF StepOf

LEMMA FittingStep == Shape /\ Fitting /\ [Next]_vars => Fitting'
<1> SUFFICES ASSUME Shape, Fitting, [Next]_vars PROVE Fitting'
  OBVIOUS
<1>a. WorkTypes /\ TableTypes
  BY DEF Shape
<1> USE <1>a, BoundsAssumption DEF WorkTypes, TableTypes
<1>1. ASSUME products' \in {products, products + 1},
             \A c \in Conn : work'[c].items \in {work[c].items, {}}
      PROVE  Fitting'
  <2>1. \A n \in 1 .. products : n \in 1 .. products'
    BY <1>1
  <2> QED
    BY <1>1, <2>1 DEF Fitting
<1>2. ASSUME NEW g \in Procs, Inserted(g) PROVE Fitting'
  <2> DEFINE c == lease[g]
             n == <<oid[g], Head(todo[g])>>
  <2>1. n[1] = oid[g] /\ n[2] = Head(todo[g])
    OBVIOUS
  <2>2. /\ n[2].product \in 1 .. products /\ n[2].quantity <= MaxInt4
        /\ \A r \in work[c].items : ~(r[1] = n[1] /\ r[2].product = n[2].product)
    BY <1>2, <2>1 DEF Inserted, Insertable
  <2>3. /\ c \in Conn /\ products' = products
        /\ work'[c].items = work[c].items \cup {n}
        /\ \A d \in Conn \ {c} : work'[d] = work[d]
    BY <1>2 DEF Inserted
  <2> HIDE DEF n
  <2> QED
    BY <2>2, <2>3 DEF Fitting
<1>3. ASSUME NEW g \in Procs, Rollback(g) \/ Commit(g)
      PROVE  products' = products /\ \A c \in Conn : work'[c].items \in {work[c].items, {}}
  BY <1>3 DEF Rollback, Commit, EndTx, NoWork, tables
<1>4. ASSUME NEW g \in Procs, Placed(g)
      PROVE  products' = products /\ \A c \in Conn : work'[c].items \in {work[c].items, {}}
  BY <1>4 DEF Placed
<1>5. ASSUME NEW x \in Conn, ConnectionLost(x)
      PROVE  products' = products /\ \A c \in Conn : work'[c].items \in {work[c].items, {}}
  BY <1>5 DEF ConnectionLost, EndTx, NoWork, tables
<1>6. CASE Exit
  BY <1>6, <1>1 DEF Exit, NoWork, tables
<1>7. ASSUME NEW g \in Procs, InsertProduct(g) PROVE Fitting'
  <2>1. work' = work /\ products' \in {products, products + 1}
    BY <1>7 DEF InsertProduct
  <2> QED
    BY <1>1, <2>1
<1>8. CASE UNCHANGED <<work, products>>
  BY <1>1, <1>8
<1>9. ASSUME NEW g \in Procs,
             \/ \E k \in Kinds, b \in Seq(Item) \cup Seq(Nat) : Arrived(g, k, b)
             \/ Refused(g) \/ Accept(g)
             \/ \E c \in Conn, l \in FirstLabels : Borrowed(g, c, l)
             \/ Begin(g) \/ Failed(g) \/ Created(g) \/ Query(g) \/ QueryFails(g)
             \/ QueryRow(g) \/ ScanRow(g) \/ RowsEnd(g) \/ ScanFails(g) \/ Closed(g) \/ Closing(g)
             \/ Leaving(g)
      PROVE  UNCHANGED <<work, products>>
  BY <1>9 DEF Arrived, Refused, Returning, Accept, pool, conns, tables, Borrowed,
     Begin, Failed, Created, Query, QueryFails, QueryRow, ScanRow,
     RowsEnd, ScanFails, Closed, Closing, Leaving
<1>10. CASE UNCHANGED vars
  BY <1>8, <1>10 DEF vars, conns, tables
<1> QED
  BY <1>1, <1>2, <1>3, <1>4, <1>5, <1>6, <1>7, <1>8, <1>9, <1>10, StepFacts DEF StepOf

\* A number is given to a request that is in order.
LEMMA Asks ==
    ASSUME Shape, Bodied, NEW g \in Procs, Drawn(g),
           UNCHANGED <<products, orders, orderItems>>
    PROVE  Book!Ask
<1>1. kind[g] = "order" /\ todo[g] \in {x \in Bodies : ValidItems(x)}
  BY DEF Drawn, Shape, Kinded, Bodied
<1>2. buyer[g] \in Users \cup {ZeroId}
  BY DEF Shape, RequestTypes
<1>3. RequestOf(buyer[g], todo[g]) \in Askable
  BY <1>1, <1>2 DEF Askable
<1>4. \E r \in Askable : asked' = Append(asked, r)
  BY <1>3 DEF Drawn
<1> QED
  BY <1>4 DEF Book!Ask, Askable

\* The deferred commit is what places an order.
LEMMA Places ==
    ASSUME Shape, Books, Fitting, NEW g \in Procs, Commit(g), tx[lease[g]] = "open"
    PROVE  oid[g] \in DOMAIN asked /\ Book!Place(oid[g])
<1> DEFINE c == lease[g]
           n == oid[g]
<1>1. pc[g] = "commit" /\ c \in Conn /\ c \notin dead
  BY ConnAssumption DEF Commit, At, Shape, Leased, Leasing, PoolTypes, Books, DeadHasNone
<1>2. /\ n # NoOrder
      /\ asked[n].buyer = buyer[g]
      /\ work[c].orders = {<<n, buyer[g]>>}
      /\ \A r \in work[c].items : r[1] = n
  BY <1>1 DEF Books, Working, WorkingOf, Whole
<1>3. {r[2] : r \in work[c].items} = asked[n].items
  <2>1. {r[2] : r \in work[c].items} \cup ItemsIn(todo[g]) = asked[n].items
    BY <1>1 DEF Books, Working, WorkingOf, Whole
  <2>2. ItemsIn(todo[g]) = {}
    BY <1>1 DEF Books, Working, WorkingOf, ItemsIn
  <2> QED
    BY <2>1, <2>2
<1>4. n \in DOMAIN asked
  BY <1>2 DEF Books, Numbered, Shape, AskedTypes, TableTypes
<1>5. Book!Storable(asked[n])
  <2>1. buyer[g] \in Users
    <3>1. <<n, buyer[g]>> \in work[c].orders
      BY <1>2
    <3> QED
      BY <1>1, <3>1 DEF Shape, WorkTypes
  <2>2. ASSUME NEW x \in asked[n].items
        PROVE  /\ x.product \in 1 .. products /\ x.quantity <= MaxInt4
               /\ \A y \in asked[n].items : x.product = y.product => x = y
    <3>1. PICK r \in work[c].items : r[2] = x
      BY <1>3
    <3>2. ASSUME NEW y \in asked[n].items, x.product = y.product PROVE x = y
      <4>1. PICK q \in work[c].items : q[2] = y
        BY <1>3
      <4> QED
        BY <1>1, <1>2, <3>1, <3>2, <4>1 DEF Fitting
    <3> QED
      BY <1>1, <3>1, <3>2 DEF Fitting
  <2> QED
    BY <1>2, <2>1, <2>2 DEF Book!Storable
<1>6. \A o \in orders : o[1] # n
  BY <1>1, <1>2 DEF Books, Unplaced, Absent
<1>7. work[c].items = {<<n, x>> : x \in asked[n].items}
  <2>1. \A r \in work[c].items : r = <<n, r[2]>>
    BY <1>1, <1>2 DEF Shape, WorkTypes
  <2> QED
    BY <1>3, <2>1
<1>8. /\ orders' = orders \cup {<<n, asked[n].buyer>>}
      /\ orderItems' = orderItems \cup {<<n, x>> : x \in asked[n].items}
      /\ UNCHANGED <<asked, products>>
  BY <1>2, <1>7 DEF Commit
<1> QED
  BY <1>4, <1>5, <1>6, <1>8 DEF Book!Place

LEMMA BookStep ==
    Shape /\ Books /\ Bodied /\ Fitting /\ [Next]_vars => [Book!Next]_(Book!vars)
<1> SUFFICES ASSUME Shape, Books, Bodied, Fitting, [Next]_vars
             PROVE  [Book!Next]_(Book!vars)
  OBVIOUS
<1>1. ASSUME NEW g \in Procs, Failed(g) PROVE [Book!Next]_(Book!vars)
  <2>1. UNCHANGED <<products, orders, orderItems>>
    BY <1>1 DEF Failed
  <2> QED
    BY <1>1, <2>1, Asks DEF Failed, Book!Next, Book!vars
<1>2. ASSUME NEW g \in Procs, Placed(g) PROVE Book!Ask
  BY <1>2, Asks DEF Placed
<1>3. ASSUME NEW g \in Procs, Commit(g) PROVE [Book!Next]_(Book!vars)
  <2>1. CASE tx[lease[g]] = "open"
    BY <1>3, <2>1, Places DEF Book!Next
  <2>2. CASE tx[lease[g]] # "open"
    BY <1>3, <2>2 DEF Commit, Book!vars
  <2> QED
    BY <2>1, <2>2
<1>4. ASSUME NEW g \in Procs, InsertProduct(g) PROVE [Book!Next]_(Book!vars)
  <2>1. UNCHANGED <<asked, orders, orderItems>> /\ products' \in {products, products + 1}
    BY <1>4 DEF InsertProduct
  <2> QED
    BY <2>1 DEF Book!Next, Book!Offer, Book!vars
<1>5. ASSUME NEW g \in Procs,
             \/ \E k \in Kinds, b \in Seq(Item) \cup Seq(Nat) : Arrived(g, k, b)
             \/ Refused(g) \/ Accept(g)
             \/ \E c \in Conn, l \in FirstLabels : Borrowed(g, c, l)
             \/ Begin(g) \/ Inserted(g) \/ Created(g) \/ Rollback(g)
             \/ Query(g) \/ QueryFails(g) \/ QueryRow(g) \/ ScanRow(g) \/ RowsEnd(g) \/ ScanFails(g)
             \/ Closed(g) \/ Closing(g) \/ Leaving(g)
      PROVE  UNCHANGED Book!vars
  BY <1>5 DEF Arrived, Refused, Returning, Accept, pool, conns, tables, Borrowed,
     Begin, Inserted, Created, Rollback, requests, Query, QueryFails, QueryRow, ScanRow,
     RowsEnd, ScanFails, Closed, Closing, Leaving, Book!vars
<1>6. ASSUME NEW x \in Conn, ConnectionLost(x) PROVE UNCHANGED Book!vars
  BY <1>6 DEF ConnectionLost, tables, Book!vars
<1>7. CASE Exit
  BY <1>7 DEF Exit, tables, Book!vars
<1>8. CASE UNCHANGED vars
  BY <1>8 DEF vars, tables, Book!vars
<1> QED
  BY <1>1, <1>2, <1>3, <1>4, <1>5, <1>6, <1>7, <1>8, StepFacts DEF StepOf, Book!Next

\* Whoever reads the tables sees an order appear whole, once, as it was asked for and
\* with all its rows in order, and never sees one change: the handlers with their
\* transactions, their errors, lost connections and exits (products_order_put) are an
\* atomic order book.
THEOREM ShopImplementsOrderBook == Spec => ImplementsOrderBook
<1>1. Init => Shape /\ Books /\ Bodied /\ Fitting
  <2>1. Init => Bodied /\ Fitting
    BY DEF Init, Bodied, Fitting, NoWork
  <2> QED
    BY <2>1, InitShape, InitBooks
<1>2. (Shape /\ Books /\ Bodied /\ Fitting) /\ [Next]_vars
      => (Shape /\ Books /\ Bodied /\ Fitting)'
  BY ShapeStep, BooksStep, BodiedStep, FittingStep
<1>3. Init => Book!Init
  BY DEF Init, Book!Init
<1>4. Spec => Book!Spec
  BY <1>1, <1>2, <1>3, BookStep, PTL DEF Spec, Book!Spec
<1> QED
  BY <1>4 DEF ImplementsOrderBook

-----------------------------------------------------------------------------
\* The handlers are clients of the leases.

LEMMA LeaseStep == [Next]_vars => [Lease!Next]_(Lease!vars)
<1> SUFFICES ASSUME [Next]_vars PROVE [Lease!Next]_(Lease!vars)
  OBVIOUS
<1>1. ASSUME NEW g \in Procs, Borrow(g) PROVE Lease!Next
  BY <1>1 DEF Borrow, Lease!Next
<1>2. ASSUME NEW g \in Procs, Release(g) PROVE Lease!Next
  BY <1>2 DEF Release, Lease!Next
<1>3. CASE Exit
  BY <1>3 DEF Exit, Lease!Next
<1>4. ASSUME NEW g \in Procs, NEW k, NEW b, Arrive(g, k, b) PROVE UNCHANGED pool
  BY <1>4 DEF Arrive
<1>5. ASSUME NEW g \in Procs,
             \/ products_order_put(g) \/ products_order_post(g)
             \/ products_post(g) \/ SessionRegister(g) \/ user_post(g) \/ user_patch(g)
             \/ user_fetch_post(g) \/ categories_products_post(g)
             \/ products_comment_get(g) \/ noti_fetch_post(g)
      PROVE  UNCHANGED pool
  BY <1>4, <1>5 DEF products_order_put, products_order_post, products_post,
     SessionRegister, user_post, user_patch, user_fetch_post, categories_products_post,
     products_comment_get, noti_fetch_post
<1>6. ASSUME NEW g \in Procs,
             \/ Refuse(g) \/ Accept(g) \/ Begin(g) \/ InsertOrder(g) \/ InsertItem(g)
             \/ Created(g) \/ Rollback(g) \/ Commit(g) \/ InsertProduct(g) \/ Query(g)
             \/ QueryFails(g) \/ QueryRow(g) \/ ScanRow(g) \/ RowsEnd(g) \/ ScanFails(g) \/ CloseRows(g)
      PROVE  UNCHANGED pool
  BY <1>6 DEF Refuse, Accept, Begin, InsertOrder, InsertItem, Created, Rollback, Commit,
     InsertProduct, Query, QueryFails, QueryRow, ScanRow, RowsEnd, ScanFails, CloseRows
<1>7. ASSUME NEW c \in Conn, ConnectionLost(c) PROVE UNCHANGED pool
  BY <1>7 DEF ConnectionLost
<1>8. CASE UNCHANGED vars
  BY <1>8 DEF vars, pool, Lease!vars
<1>9. UNCHANGED pool => UNCHANGED Lease!vars
  BY DEF pool, Lease!vars
<1> QED
  BY <1>1, <1>2, <1>3, <1>5, <1>6, <1>7, <1>8, <1>9 DEF Next

\* Whatever the handlers do with their connections, of the pool they ask nothing but
\* what the leases allow (GetDBConn and Release): the guarantee of ConnLease.tla,
\* which ConnPool.tla gives, is all that they rely on.
THEOREM ShopUsesLease == Spec => Lease!Spec
<1>1. Init => Lease!Init
  BY DEF Init
<1> QED
  BY <1>1, LeaseStep, PTL DEF Spec, Lease!Spec

-----------------------------------------------------------------------------
\* Connections that have died stay in the pool.

Opened == free \cup Lease!Leased

\* What dies was opened by somebody.
DeadAreOpened == dead \subseteq Opened

\* The pool gives nothing up.
LEMMA OpenedStay ==
    ASSUME Shape, [Next]_vars
    PROVE  Exit \/ Opened \subseteq Opened'
<1> USE ConnAssumption DEF Opened, Lease!Leased
<1>1. ASSUME Lease!Exit \/ UNCHANGED Lease!vars PROVE Lease!Exit \/ Opened \subseteq Opened'
  BY <1>1 DEF Lease!vars
<1>2. DOMAIN lease = Procs
  BY DEF Shape, PoolTypes
<1>3. ASSUME NEW g \in Procs, NEW c \in Conn, NEW l \in FirstLabels, Borrowed(g, c, l)
      PROVE  Opened \subseteq Opened'
  BY <1>2, <1>3 DEF Borrowed
<1>4. ASSUME NEW g \in Procs, Closing(g) \/ Leaving(g)
      PROVE  Opened \subseteq Opened'
  BY <1>2, <1>4 DEF Closing, Leaving
<1>5. ASSUME NEW g \in Procs,
             \/ \E k \in Kinds, b \in Seq(Item) \cup Seq(Nat) : Arrived(g, k, b)
             \/ Refused(g) \/ Accept(g) \/ Begin(g) \/ Failed(g) \/ Placed(g)
             \/ Inserted(g) \/ Created(g) \/ Rollback(g) \/ Commit(g)
             \/ InsertProduct(g) \/ Query(g) \/ QueryFails(g) \/ QueryRow(g)
             \/ ScanRow(g) \/ RowsEnd(g) \/ ScanFails(g) \/ Closed(g)
      PROVE  UNCHANGED <<free, lease>>
  BY <1>5 DEF Arrived, Refused, Returning, Accept, pool, Begin, Failed, Placed, Inserted,
     Created, Rollback, Commit, InsertProduct, Query, QueryFails, QueryRow, ScanRow,
     RowsEnd, ScanFails, Closed
<1>6. ASSUME NEW x \in Conn, ConnectionLost(x) PROVE UNCHANGED <<free, lease>>
  BY <1>6 DEF ConnectionLost, pool
<1>7. CASE UNCHANGED vars
  BY <1>7 DEF vars, pool
<1>8. CASE UNCHANGED <<free, lease>>
  BY <1>8
<1> QED
  BY <1>3, <1>4, <1>5, <1>6, <1>7, <1>8, StepFacts DEF StepOf

\* A connection dies in the hands of whoever opened or borrowed it, or in the pool,
\* and stays dead.
LEMMA DeadStep ==
    ASSUME Shape, [Next]_vars
    PROVE  Exit \/ (dead \subseteq dead' /\ dead' \subseteq dead \cup Opened)
<1>1. \A g \in Procs : pc[g] \in Leasing => lease[g] \in Opened
  BY ConnAssumption DEF Shape, Leased, Opened, Lease!Leased
<1>2. ASSUME NEW g \in Procs, Begin(g) \/ Commit(g) \/ InsertProduct(g)
      PROVE  dead' \in {dead, dead \cup {lease[g]}} /\ lease[g] \in Opened
  BY <1>1, <1>2 DEF Begin, Commit, InsertProduct, At, Leasing
<1>3. ASSUME NEW x \in Conn, ConnectionLost(x)
      PROVE  dead' = dead \cup {x} /\ x \in Opened
  BY <1>3 DEF ConnectionLost, Opened
<1>4. ASSUME NEW g \in Procs,
             \/ \E k \in Kinds, b \in Seq(Item) \cup Seq(Nat) : Arrived(g, k, b)
             \/ Refused(g) \/ Accept(g)
             \/ \E c \in Conn, l \in FirstLabels : Borrowed(g, c, l)
             \/ Failed(g) \/ Placed(g) \/ Inserted(g) \/ Created(g) \/ Rollback(g)
             \/ Query(g) \/ QueryFails(g) \/ QueryRow(g) \/ ScanRow(g) \/ RowsEnd(g)
             \/ ScanFails(g) \/ Closed(g) \/ Closing(g) \/ Leaving(g)
      PROVE  dead' = dead
  BY <1>4 DEF Arrived, Refused, Returning, Accept, conns, Borrowed, Failed, Placed,
     Inserted, Created, Rollback, Query, QueryFails, QueryRow, ScanRow, RowsEnd,
     ScanFails, Closed, Closing, Leaving
<1>5. CASE UNCHANGED vars
  BY <1>5 DEF vars, conns
<1> QED
  BY <1>2, <1>3, <1>4, <1>5, StepFacts DEF StepOf

\* What is dead was opened, and still is: so each dead connection has a place.
LEMMA DeadAreOpenedAlways == Spec => []DeadAreOpened
<1>1. Init => DeadAreOpened
  BY DEF Init, DeadAreOpened
<1>2. Shape /\ DeadAreOpened /\ [Next]_vars => DeadAreOpened'
  <2> SUFFICES ASSUME Shape, DeadAreOpened, [Next]_vars PROVE DeadAreOpened'
    OBVIOUS
  <2>1. CASE Exit
    BY <2>1 DEF Exit, DeadAreOpened
  <2> QED
    BY <2>1, DeadStep, OpenedStay DEF DeadAreOpened
<1> QED
  BY <1>1, <1>2, ShapeAlways, PTL DEF Spec

\* The tables change by a commit or by the INSERT of a product, on a connection that
\* was opened and is alive.
StoredAlive ==
    tables' # tables => \E g \in Procs : /\ pc[g] \in {"commit", "insert.product"}
                                        /\ lease[g] \in Opened \ dead

LEMMA StoredAliveStep == Shape /\ Books /\ [Next]_vars => StoredAlive
<1> SUFFICES ASSUME Shape, Books, [Next]_vars PROVE StoredAlive
  OBVIOUS
<1> USE DEF StoredAlive
<1>1. \A g \in Procs : pc[g] \in Leasing => lease[g] \in Opened
  BY ConnAssumption DEF Shape, Leased, Opened, Lease!Leased
<1>2. ASSUME NEW g \in Procs, Commit(g) PROVE StoredAlive
  <2>1. pc[g] = "commit" /\ lease[g] \in Opened
    BY <1>1, <1>2 DEF Commit, At, Leasing
  <2>2. lease[g] \in dead => tx[lease[g]] # "open"
    BY DEF Books, DeadHasNone
  <2> QED
    BY <1>2, <2>1, <2>2 DEF Commit, tables
<1>3. ASSUME NEW g \in Procs, InsertProduct(g) PROVE StoredAlive
  BY <1>1, <1>3 DEF InsertProduct, At, Leasing, Usable, tables
<1>4. CASE UNCHANGED tables
  BY <1>4
<1>5. ASSUME NEW g \in Procs,
             \/ \E k \in Kinds, b \in Seq(Item) \cup Seq(Nat) : Arrived(g, k, b)
             \/ Refused(g) \/ Accept(g)
             \/ \E c \in Conn, l \in FirstLabels : Borrowed(g, c, l)
             \/ Begin(g) \/ Failed(g) \/ Placed(g) \/ Inserted(g) \/ Created(g)
             \/ Rollback(g) \/ Query(g) \/ QueryFails(g) \/ QueryRow(g) \/ ScanRow(g)
             \/ RowsEnd(g) \/ ScanFails(g) \/ Closed(g) \/ Closing(g) \/ Leaving(g)
      PROVE  UNCHANGED tables
  BY <1>5 DEF Arrived, Refused, Returning, Accept, tables, Borrowed, Begin, Failed,
     Placed, Inserted, Created, Rollback, Query, QueryFails, QueryRow, ScanRow, RowsEnd,
     ScanFails, Closed, Closing, Leaving
<1>6. ASSUME NEW x \in Conn, ConnectionLost(x) PROVE UNCHANGED tables
  BY <1>6 DEF ConnectionLost
<1>7. CASE Exit
  BY <1>7 DEF Exit
<1>8. CASE UNCHANGED vars
  BY <1>8 DEF vars
<1> QED
  BY <1>2, <1>3, <1>4, <1>5, <1>6, <1>7, <1>8, StepFacts DEF StepOf

\* What a step does about them.
DeadKept == /\ dead \subseteq Opened
            /\ Exit \/ (dead \subseteq dead' /\ Opened \subseteq Opened')
            /\ StoredAlive

\* Nobody replaces a connection that died: Release puts it back, GetDBConn hands it
\* out again.  Until the process ends it stays dead and stays one of those that have
\* been opened, and what is stored is stored over another.
THEOREM DeadAreNeverReplaced == Spec => [][DeadKept]_vars
<1>1. Shape /\ Books /\ DeadAreOpened /\ [Next]_vars => DeadKept
  BY DeadStep, OpenedStay, StoredAliveStep DEF DeadKept, DeadAreOpened
<1> QED
  BY <1>1, ShapeAlways, BooksAlways, DeadAreOpenedAlways, PTL DEF Spec

=============================================================================
