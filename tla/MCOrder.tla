------------------------------ MODULE MCOrder ------------------------------
(***************************************************************************)
(* Values of the constants of Order for TLC.                               *)
(***************************************************************************)
EXTENDS Order

CONSTANTS p1, r1, r2, r3

Of(product, unit, quantity) == [product |-> product, unit |-> unit, quantity |-> quantity]
Ordering(shipping, its) == [shipping |-> shipping, items |-> its]

MCProducts == {p1}
MCRequests == {r1, r2, r3}

\* With Half = 8 an int64 is -8 .. 7: orders of one and of three items, no item,
\* a negative price (the service refuses the other bad amounts likewise), a
\* malformed product, a total that wraps to a negative amount (1 * 7 + 1), a line
\* total that wraps to a positive one (5 * 4 = 20, stored as 4), and a sum of
\* fitting lines that does (21, as 5).
MCInputs ==
  { Ordering(1, <<Of(p1, 2, 2)>>),
    Ordering(0, <<Of(p1, 7, 1), Of(p1, 1, 7), Of(p1, 7, 1)>>),
    Ordering(1, <<Of(p1, 1, 7)>>),
    Ordering(0, <<Of(p1, 5, 4)>>),
    Ordering(0, <<Of(Malformed, 1, 1)>>),
    Ordering(0, <<Of(p1, -1, 1)>>),
    Ordering(0, <<>>) }

\* A request of two items, and nothing wrong with it.
MCTwoItems == { Ordering(0, <<Of(p1, 1, 1), Of(p1, 1, 2)>>) }
MCOneRequest == {r1}

\* Requests of one item, and nothing wrong with them.
MCOneItem == { Ordering(1, <<Of(p1, 2, 2)>>) }
=============================================================================
