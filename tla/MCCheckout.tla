----------------------------- MODULE MCCheckout -----------------------------
(***************************************************************************)
(* Values of the constants of Checkout for TLC.                            *)
(***************************************************************************)
EXTENDS Checkout

CONSTANTS p1, p2, p3, p4, p5, idr, usd

MCProducts == {p1, p2, p3, p4, p5}
MCCurrencies == {idr, usd}

\* p3 and p4 are in no catalog.  With Half = 8 the line of two p2 wraps (2 * 5 = 10).
MCCatalog == {p1, p2, p5}
In(currency, amount) == [currency |-> currency, amount |-> amount]
MCPrice == [p \in MCCatalog |->
  IF p = p1 THEN In(idr, 1) ELSE IF p = p2 THEN In(idr, 5) ELSE In(usd, 2)]

Of(product, quantity) == [product |-> product, quantity |-> quantity]
MCCarts ==
  { <<>>,
    <<Of(p1, 2)>>,
    <<Of(p5, 3)>>,
    <<Of(p1, 2), Of(p2, 1)>>,
    <<Of(p2, 2), Of(p1, 1)>>,
    <<Of(p2, 1), Of(p1, 3)>>,
    <<Of(p5, 1), Of(p1, 3)>>,
    <<Of(p3, 1), Of(p1, 1), Of(p2, 1)>>,
    <<Of(p1, 1), Of(p3, 1), Of(p4, 2), Of(p2, 1)>> }
=============================================================================
