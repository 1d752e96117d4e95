------------------------------- MODULE MCShop -------------------------------
(***************************************************************************)
(* Values of the constants of Shop for TLC.                                *)
(***************************************************************************)
EXTENDS Shop, TLC

CONSTANTS r1, r2, r3, q1, u1, p1, p2

MCRequests == {r1, r2, r3}
MCWithQuote == {r1, r2, q1}
MCQuotes == {q1}
MCNone == {}
MCUsers == {u1}
MCProducts == {p1, p2}
MCOneProduct == {p1}

Ask(op, items) == [op |-> op, user |-> u1, items |-> items]
Of(product, quantity) == <<[product |-> product, quantity |-> quantity]>>

\* With a quote: additions to two rows, and the cart cleared.
MCQuoted ==
  { Ask("GetOrCreateCart", <<>>), Ask("ClearCart", <<>>),
    Ask("AddItem", Of(p1, 1)), Ask("AddItem", Of(p2, 1)) }

\* Without: one row, two quantities to set, its removal, an addition, a reading.
MCRepeated ==
  { Ask("GetOrCreateCart", <<>>), Ask("AddItem", Of(p1, 1)),
    Ask("SetItemQuantity", Of(p1, 1)), Ask("SetItemQuantity", Of(p1, 2)),
    Ask("RemoveItem", Of(p1, 0)) }

Symmetric == Permutations({r1, r2, r3})
SymmetricPairs == Permutations({r1, r2}) \cup Permutations({p1, p2})
=============================================================================
