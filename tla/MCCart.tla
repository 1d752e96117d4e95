------------------------------- MODULE MCCart -------------------------------
(***************************************************************************)
(* Values of the constants of Cart for TLC.                                *)
(***************************************************************************)
EXTENDS Cart, TLC

CONSTANTS u1, u2, p1, p2, r1, r2, r3

NoItems(op, user) == [op |-> op, user |-> user, items |-> <<>>]
OneItem(op, user, p, n) ==
  [op |-> op, user |-> user, items |-> <<[product |-> p, quantity |-> n]>>]
CreateWith(user, p, n, q, m) ==
  [op |-> "CreateCart", user |-> user,
   items |-> <<[product |-> p, quantity |-> n], [product |-> q, quantity |-> m]>>]

MCUsers == {u1, u2}
MCProducts == {p1, p2}
MCRequests == {r1, r2, r3}

\* Every operation, two products, a second user, and every way to be refused:
\* ids that do not parse, a quantity of 0, and (MaxQty = 3) a sum out of range.
MCInputs ==
  { NoItems("GetCart", u1),
    NoItems("GetOrCreateCart", u1),
    NoItems("ClearCart", u1),
    OneItem("AddItem", u1, p1, 2),
    OneItem("AddItem", u2, p1, 1),
    OneItem("SetItemQuantity", u1, p1, 1),
    OneItem("SetItemQuantity", u1, p1, 0),
    OneItem("RemoveItem", u1, p1, 1),
    CreateWith(u1, p1, 1, p1, 1),
    CreateWith(u1, p2, 1, Malformed, 1),
    NoItems("CreateCart", Malformed),
    OneItem("AddItem", Malformed, p1, 1) }

\* Liveness: the requests that loop or race for the cart.
MCLiveInputs ==
  { NoItems("GetOrCreateCart", u1),
    OneItem("AddItem", u1, p1, 2),
    CreateWith(u1, p1, 1, p2, 1),
    NoItems("ClearCart", u1) }

\* No action tells two requests apart but by their inputs.
Symmetric == Permutations(MCRequests)
=============================================================================
