-------------------------- MODULE CheckoutContract --------------------------
(***************************************************************************)
(* What a caller of Quote may rely on: the cart is read once, and the      *)
(* answer is the list of its items, in its order, at the catalog's prices, *)
(* or the reason why there is none.                                        *)
(***************************************************************************)
EXTENDS Integers, Sequences

CONSTANTS
  Carts,      \* what a cart may hold
  Catalog,    \* the products that have a price
  LineOf(_),  \* the line of an item, at its price
  Total(_)    \* the sum of the lines

VARIABLES
  items,    \* the cart as it was read
  gone,     \* whether the caller has given up
  answer    \* the answer

vars == <<items, gone, answer>>

Bill(c) == [k \in 1 .. Len(c) |-> LineOf(c[k])]

Init == items = <<>> /\ gone = FALSE /\ answer = [code |-> "none"]

Open == answer.code = "none"

\* The cart is read; an empty one ends the quote.
Read ==
  /\ Open /\ items = <<>>
  /\ items' \in Carts
  /\ answer' = IF items' = <<>> THEN [code |-> "NotFound", why |-> "empty"] ELSE answer
  /\ UNCHANGED gone

Quote ==
  /\ Open /\ items # <<>>
  /\ \A k \in 1 .. Len(items) : items[k].product \in Catalog
  /\ answer' = [code |-> "OK", lines |-> Bill(items),
                total |-> Total(Bill(items))]
  /\ UNCHANGED <<items, gone>>

Reasons ==
  {"database"} \cup (IF items = <<>> THEN {"user"} ELSE {})
  \cup (IF gone THEN {"context"} ELSE {})
  \cup (IF \E k \in 1 .. Len(items) : items[k].product \notin Catalog THEN {"missing"} ELSE {})
  \cup (IF \E k \in 1 .. Len(items) : items[k].quantity <= 0 THEN {"quantity"} ELSE {})

Refuse ==
  /\ Open
  /\ \/ items = <<>> /\ answer' = [code |-> "InvalidArgument", why |-> "user"]
     \/ \E why \in Reasons : answer' = [code |-> "Internal", why |-> why]
  /\ UNCHANGED <<items, gone>>

GiveUp == Open /\ gone' = TRUE /\ UNCHANGED <<items, answer>>

Next == Read \/ Quote \/ Refuse \/ GiveUp

Spec == Init /\ [][Next]_vars
=============================================================================
