---------------------------- MODULE CartContract ----------------------------
(***************************************************************************)
(* What a caller of the cart service may rely on, without carts rows,      *)
(* statements or handlers.  Every user has one cart, empty at first.  A    *)
(* request's writes take effect one at a time, in order, each at most      *)
(* once, and never before the call.                                        *)
(*                                                                         *)
(*   OK        all of them have, and the answer shows the cart as it is    *)
(*             at the moment of the answer;                                *)
(*   NotFound  none has or will, and the cart is empty;                    *)
(*   Internal  not all of them have, and no more will;                     *)
(*   Unknown   some may have, and one more may still.                      *)
(*                                                                         *)
(* These are what became of the request, not all of them codes that its    *)
(* caller can tell apart.  An interrupted statement is Unknown here also   *)
(* when its handler reports it to a caller that still waits, with the same *)
(* code Internal that a refusal has: from the code alone a caller learns   *)
(* no more than Unknown says.                                              *)
(*                                                                         *)
(* A read has no writes: OK is all it can promise to mean.                 *)
(***************************************************************************)
EXTENDS Integers, Sequences

CONSTANTS
  Users, Products,   \* the well-formed ids
  Requests, Inputs,  \* the RPCs, and what one may carry
  MaxQty             \* the largest quantity of a row

VARIABLES
  contents,   \* the quantity of each product in the cart of each user
  req,        \* the input of each request
  called,     \* whether the request has been made
  wrote,      \* how many of its writes have taken effect
  answer,     \* its outcome
  view        \* the cart an OK answer shows

vars == <<contents, req, called, wrote, answer, view>>

Empty == [p \in Products |-> 0]
NumWrites(r) == IF req[r].op = "ClearCart" THEN 1 ELSE Len(req[r].items)

Init ==
  /\ contents = [u \in Users |-> Empty]
  /\ req \in [Requests -> Inputs]
  /\ called = [r \in Requests |-> FALSE]
  /\ wrote = [r \in Requests |-> 0]
  /\ answer = [r \in Requests |-> "none"]
  /\ view = [r \in Requests |-> Empty]

\* A request for nobody may be refused as it arrives.
Call(r) ==
  /\ ~called[r]
  /\ called' = [called EXCEPT ![r] = TRUE]
  /\ \/ UNCHANGED answer
     \/ req[r].user \notin Users /\ answer' = [answer EXCEPT ![r] = "Internal"]
  /\ UNCHANGED <<contents, req, wrote, view>>

\* The rows of the user's cart before and after the next write of r.
Change(r, before, after) ==
  LET i == req[r].items[wrote[r] + 1] IN
  \/ /\ req[r].op \in {"AddItem", "CreateCart"}
     /\ i.product \in Products /\ i.quantity > 0
     /\ after = [before EXCEPT ![i.product] = before[i.product] + i.quantity]
  \/ /\ req[r].op = "SetItemQuantity"
     /\ i.product \in Products /\ i.quantity > 0 /\ before[i.product] > 0
     /\ after = [before EXCEPT ![i.product] = i.quantity]
  \/ /\ req[r].op = "RemoveItem"
     /\ i.product \in Products
     /\ after = [before EXCEPT ![i.product] = 0]
  \/ /\ req[r].op = "ClearCart"
     /\ after = Empty

TakeEffect(r) ==
  /\ called[r]
  /\ answer[r] \in {"none", "Unknown"}
  /\ wrote[r] < NumWrites(r)
  /\ \E u \in Users :
       /\ req[r].user = u
       /\ \E after \in [Products -> 0 .. MaxQty] :
            /\ Change(r, contents[u], after)
            /\ contents' = [contents EXCEPT ![u] = after]
  /\ wrote' = [wrote EXCEPT ![r] = @ + 1]
  /\ UNCHANGED <<req, called, answer, view>>

Succeed(r) ==
  /\ called[r]
  /\ answer[r] = "none"
  /\ wrote[r] = NumWrites(r)
  /\ answer' = [answer EXCEPT ![r] = "OK"]
  /\ \E u \in Users : req[r].user = u /\ view' = [view EXCEPT ![r] = contents[u]]
  /\ UNCHANGED <<contents, req, called, wrote>>

Fail(r, code) ==
  /\ called[r]
  /\ answer[r] = "none"
  /\ \/ /\ code = "NotFound"
        /\ wrote[r] = 0
        /\ \E u \in Users : req[r].user = u /\ contents[u] = Empty
     \/ code = "Internal" /\ (wrote[r] < NumWrites(r) \/ NumWrites(r) = 0)
     \/ code = "Unknown"
  /\ answer' = [answer EXCEPT ![r] = code]
  /\ UNCHANGED <<contents, req, called, wrote, view>>

Next ==
  \E r \in Requests :
    \/ Call(r) \/ TakeEffect(r) \/ Succeed(r)
    \/ \E code \in {"NotFound", "Internal", "Unknown"} : Fail(r, code)

Spec == Init /\ [][Next]_vars
=============================================================================
