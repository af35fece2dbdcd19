-------------------------------- MODULE MCShop --------------------------------
(* Shop with the bodies that tell the error paths apart.                    *)
EXTENDS Shop, TLC

Item(p, q) == [product |-> p, quantity |-> q]

\* Two items, the second of which may not exist; a product twice; no item; no
\* quantity; and, after an item that is in order, one of too large a quantity.
MCBodies == { <<Item(1, 1), Item(2, 1)>>, <<Item(1, 1), Item(1, 1)>>,
              << >>, <<Item(1, 0)>>, <<Item(1, 1), Item(2, MaxInt4 + 1)>> }

MCLists == {<<1, 2>>}

\* Goroutines are interchangeable, and so are connections.
ProcConnSymmetry == Permutations(Procs) \cup Permutations(Conn)

=============================================================================
