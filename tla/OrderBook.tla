------------------------------ MODULE OrderBook ------------------------------
(***************************************************************************)
(* What the shop's tables promise whoever reads them: an order appears     *)
(* with its buyer and all its items at once, at most once, only as it was  *)
(* asked for and only if every row of it may be there; nothing is ever     *)
(* altered or taken away.  There is no action for an exit or for a lost    *)
(* connection: they are not to be seen in the tables.                      *)
(* Shop.tla is the handlers of internal/server/route_products.go, shown    *)
(* to implement this specification.                                        *)
(***************************************************************************)
EXTENDS Integers, Sequences

CONSTANTS Users,      \* the rows of "User"
          Requests,   \* what may be asked for: a buyer and a set of items
          MaxInt4     \* the largest value of a column of type integer

VARIABLES asked,      \* the requests that were given the number of an order
          products,   \* number of rows of "Product"
          orders,     \* rows of "Order"
          orderItems  \* rows of "OrderItem"

vars == <<asked, products, orders, orderItems>>

Init == /\ asked = << >>
        /\ products \in Nat
        /\ orders = {}
        /\ orderItems = {}

\* A request is numbered.
Ask == /\ \E r \in Requests : asked' = Append(asked, r)
       /\ UNCHANGED <<products, orders, orderItems>>

\* A product is added.
Offer == /\ products' = products + 1
         /\ UNCHANGED <<asked, orders, orderItems>>

\* The buyer is a user, and the products are there, each asked for once.
Storable(r) ==
    /\ r.buyer \in Users
    /\ \A x \in r.items : /\ x.product \in 1 .. products
                          /\ x.quantity <= MaxInt4
                          /\ \A y \in r.items : x.product = y.product => x = y

\* The order of request n appears, all at once.
Place(n) ==
    /\ Storable(asked[n])
    /\ \A o \in orders : o[1] # n
    /\ orders' = orders \cup {<<n, asked[n].buyer>>}
    /\ orderItems' = orderItems \cup {<<n, x>> : x \in asked[n].items}
    /\ UNCHANGED <<asked, products>>

Next == Ask \/ Offer \/ \E n \in DOMAIN asked : Place(n)

Spec == Init /\ [][Next]_vars

=============================================================================
