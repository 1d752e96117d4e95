-------------------------------- MODULE Shop --------------------------------
(***************************************************************************)
(* The services together, as the clients of the gateway see them: HTTP     *)
(* requests on carts, each one RPC of the cart service; quotes, which read *)
(* a cart and then look up its products; and the catalog, which grows      *)
(* meanwhile.                                                              *)
(*                                                                         *)
(* The cart service is its contract, CartContract.  A quote calls it in    *)
(* the same process, as GetOrCreateCart.  Nothing repeats a request but a  *)
(* client, which sends it again as a request of its own: so the clients    *)
(* need no state here, and what holds does so for any of them.  The        *)
(* gateway's deadline may pass at any moment.                              *)
(*                                                                         *)
(* Left out: requests that the gateway or a handler refuses for their      *)
(* form, prices (Checkout), how processes end (Gateway).                   *)
(***************************************************************************)
EXTENDS Integers, Sequences, FiniteSets, Functions, Http

CONSTANTS
  Users, Products,  \* the well-formed ids
  Requests,         \* the HTTP requests of a behaviour
  Quotes,           \* those for a quote
  Inputs,           \* what a request may ask of the cart
  MaxQty            \* the largest quantity of a row

\* The operations whose effect does not depend on how often they are done.
Idempotent == {"SetItemQuantity", "RemoveItem", "ClearCart"}

\* A request that the gateway passes on.
Request ==
  { q \in [op : Idempotent \cup {"AddItem", "GetOrCreateCart"}, user : Users,
           items : Seq([product : Products, quantity : 0 .. MaxQty])] :
      /\ q.op \in {"AddItem", "SetItemQuantity", "RemoveItem"} => Len(q.items) = 1
      /\ q.op \in {"GetOrCreateCart", "ClearCart"} => q.items = <<>>
      /\ q.op \in {"AddItem", "SetItemQuantity"} => q.items[1].quantity > 0 }

ASSUME RequestsAssumption == Quotes \subseteq Requests
ASSUME InputsAssumption == \A q \in Inputs : q \in Request
ASSUME MaxQtyAssumption == MaxQty \in Nat \ {0}

VARIABLES
  contents, req, called, wrote, answer, view,  \* of CartContract
  catalog,  \* the products the catalog has
  priced,   \* the products each quote has looked up
  outcome,  \* how each quote ended
  status,   \* what the caller of each request was told
  known,    \* the requests whose end was known to a caller when it was sent
  listed    \* the catalog when each quote was sent

cart == <<contents, req, called, wrote, answer, view>>
quoting == <<priced, outcome>>
calling == <<status, known, listed>>
vars == <<cart, catalog, quoting, calling>>

CartService == INSTANCE CartContract
-----------------------------------------------------------------------------
Init ==
  /\ CartService!Init
  /\ \A r \in Quotes : req[r].op = "GetOrCreateCart"
  /\ catalog = {}
  /\ priced = [r \in Quotes |-> {}]
  /\ outcome = [r \in Quotes |-> "none"]
  /\ status = [r \in Requests |-> "none"]
  /\ known = [r \in Requests |-> {}]
  /\ listed = [r \in Quotes |-> {}]

(* The gateway.                                                            *)

\* A client sends a request; the gateway calls its RPC.
Send(r) ==
  /\ status[r] = "none"
  /\ status' = [status EXCEPT ![r] = "waiting"]
  /\ known' = [known EXCEPT ![r] = { s \in Requests : status[s] \in {"200", "404"} }]
  /\ listed' = [q \in Quotes |-> IF q = r THEN catalog ELSE listed[q]]
  /\ UNCHANGED <<cart, catalog, quoting>>

\* How the RPC ended, and the codes that tell the gateway.
Ended(r) == IF r \in Quotes THEN outcome[r] ELSE answer[r]
Codes(end) ==
  CASE end = "none" -> {}
    [] end = "missing" -> {"Internal"}
    [] end = "Unknown" -> {"Internal", "Unavailable", "DeadlineExceeded"}
    [] OTHER -> {end}

\* Mutant: the gateway does not wait for the RPC.
ReplyAtOnce(r) ==
  /\ status[r] = "waiting"
  /\ status' = [status EXCEPT ![r] = "200"]
  /\ UNCHANGED <<cart, catalog, quoting, known, listed>>

Reply(r) ==
  /\ status[r] = "waiting"
  /\ \E c \in Codes(Ended(r)) : status' = [status EXCEPT ![r] = StatusOf(c)]
  /\ UNCHANGED <<cart, catalog, quoting, known, listed>>

\* The deadline passes or the API cannot be reached; the RPC may go on, or
\* arrive later.
Timeout(r) ==
  /\ status[r] = "waiting"
  /\ \E c \in {"DeadlineExceeded", "Unavailable"} :
       status' = [status EXCEPT ![r] = StatusOf(c)]
  /\ UNCHANGED <<cart, catalog, quoting, known, listed>>
-----------------------------------------------------------------------------
(* The API.                                                                *)

\* The RPC of a request that was sent arrives, and the cart service works on it.
Arrive(r) ==
  /\ status[r] # "none"
  /\ CartService!Call(r)
  /\ UNCHANGED <<catalog, quoting, calling>>

Work(r) ==
  /\ \/ CartService!TakeEffect(r)
     \/ CartService!Succeed(r)
     \/ \E code \in {"NotFound", "Internal", "Unknown"} : CartService!Fail(r, code)
  /\ UNCHANGED <<catalog, quoting, calling>>

\* CreateProduct: its row is committed.
Publish(p) ==
  /\ p \notin catalog
  /\ catalog' = catalog \cup {p}
  /\ UNCHANGED <<cart, quoting, calling>>

\* A quote that has read its cart, and the products in it.
Pricing(r) == r \in Quotes /\ answer[r] = "OK" /\ outcome[r] = "none"
InCart(r) == { p \in Products : view[r][p] > 0 }

\* A goroutine looks up one of them, in whatever order: GetProduct finds the row
\* or none.
Lookup(r) ==
  /\ Pricing(r)
  /\ \E p \in InCart(r) \ priced[r] :
       IF p \in catalog
       THEN priced' = [priced EXCEPT ![r] = @ \cup {p}] /\ UNCHANGED outcome
       ELSE outcome' = [outcome EXCEPT ![r] = "missing"] /\ UNCHANGED priced
  /\ UNCHANGED <<cart, catalog, calling>>

\* Mutant: whatever went wrong, the product is reported as missing.
LookupFailsAsMissing(r) ==
  /\ Pricing(r) /\ InCart(r) # {}
  /\ outcome' = [outcome EXCEPT ![r] = "missing"]
  /\ UNCHANGED <<cart, catalog, priced, calling>>

\* The database fails, or the context of the quote has ended.
LookupFails(r) ==
  /\ Pricing(r) /\ InCart(r) # {}
  /\ \E end \in {"Internal", "Unknown"} : outcome' = [outcome EXCEPT ![r] = end]
  /\ UNCHANGED <<cart, catalog, priced, calling>>

\* An empty cart has no quote; any other, once every line is there.
Quote(r) ==
  /\ Pricing(r) /\ InCart(r) \subseteq priced[r]
  /\ outcome' = [outcome EXCEPT ![r] = IF InCart(r) = {} THEN "NotFound" ELSE "OK"]
  /\ UNCHANGED <<cart, catalog, priced, calling>>

\* The cart could not be read: whatever the error, Quote wraps it.
CartFails(r) ==
  /\ r \in Quotes /\ outcome[r] = "none"
  /\ answer[r] \in {"NotFound", "Internal", "Unknown"}
  /\ outcome' = [outcome EXCEPT ![r] = IF answer[r] = "Unknown" THEN "Unknown" ELSE "Internal"]
  /\ UNCHANGED <<cart, catalog, priced, calling>>
-----------------------------------------------------------------------------
Gate(r) == Send(r) \/ Reply(r) \/ Timeout(r)
Api(r) == Arrive(r) \/ Work(r) \/ Lookup(r) \/ LookupFails(r) \/ Quote(r) \/ CartFails(r)

Next ==
  \/ \E r \in Requests : Gate(r) \/ Api(r)
  \/ \E p \in Products : Publish(p)

Spec == Init /\ [][Next]_vars
-----------------------------------------------------------------------------
(* Properties.                                                             *)

Carts == [Products -> 0 .. MaxQty]

TypeOK ==
  /\ contents \in [Users -> Carts]
  /\ req \in [Requests -> Inputs]
  /\ called \in [Requests -> BOOLEAN]
  /\ wrote \in [Requests -> Nat]
  /\ answer \in [Requests -> {"none", "OK", "NotFound", "Internal", "Unknown"}]
  /\ view \in [Requests -> Carts]
  /\ catalog \subseteq Products
  /\ priced \in [Quotes -> SUBSET Products]
  /\ outcome \in [Quotes -> {"none", "OK", "NotFound", "missing", "Internal", "Unknown"}]
  /\ status \in [Requests -> {"none", "waiting", "200", "404", "500", "503"}]
  /\ known \in [Requests -> SUBSET Requests]
  /\ listed \in [Quotes -> SUBSET Products]

\* The rows a request writes.
Target(r) ==
  IF req[r].op = "ClearCart" THEN Products
  ELSE IF req[r].op = "GetOrCreateCart" THEN {} ELSE {req[r].items[1].product}

\* Every other request on those rows was over, for its caller, before r was
\* sent, or is r sent another time.
Undisturbed(r) ==
  \A s \in Requests :
    called[s] /\ req[s].user = req[r].user /\ Target(s) \cap Target(r) # {} =>
      s \in known[r] \/ req[s] = req[r]

\* A cart is as r leaves it.
LeftBy(r, c) ==
  \A p \in Target(r) :
    c[p] = IF req[r].op = "SetItemQuantity" THEN req[r].items[1].quantity ELSE 0

\* To send a SetItemQuantity, RemoveItem or ClearCart again until it is answered
\* with 200 is safe: from then on the cart is as it asks, also if sendings that
\* were answered with 500 or 503, or not at all, take effect later.
SetHolds ==
  \A r \in Requests :
    status[r] = "200" /\ req[r].op \in Idempotent /\ Undisturbed(r) =>
      LeftBy(r, contents[req[r].user])

\* What a caller knows to be in the cart when it sends a request, the answer to
\* that request shows, whether it is a cart or a quote.
ShowsWhatIsKnown ==
  \A r, s \in Requests :
    /\ s \in known[r] /\ status[s] = "200"
    /\ req[s].op \in Idempotent /\ req[s].user = req[r].user /\ Undisturbed(s)
    /\ answer[r] = "OK"
    => LeftBy(s, view[r])

\* The quantity of p that the requests of S add.
Added(S, p) ==
  SumFunction([r \in { s \in S : req[s].op = "AddItem" /\ Target(s) = {p} } |->
                 req[r].items[1].quantity])

\* The requests of u that have arrived, and those of S whose caller knows that
\* they have succeeded.
Sent(u) == { r \in Requests : called[r] /\ req[r].user = u }
Told(S, u) == { r \in S \cap Sent(u) : status[r] = "200" }

\* To send an AddItem again may add again, but a cart that is only added to
\* holds, and a cart or a quote of it shows, no less than what is known to have
\* been added and no more than what has been sent.
OnlyAdded(u) == \A r \in Sent(u) : req[r].op \notin Idempotent
AddsCounted ==
  \A u \in Users : OnlyAdded(u) =>
    \A p \in Products :
      /\ Added(Told(Requests, u), p) <= contents[u][p]
      /\ contents[u][p] <= Added(Sent(u), p)
      /\ \A r \in Sent(u) : answer[r] = "OK" =>
           Added(Told(known[r], u), p) <= view[r][p] /\ view[r][p] <= Added(Sent(u), p)

\* A quote says that a product is missing only if its cart holds one that was
\* not in the catalog when it was sent.
MissingIsUnlisted ==
  \A r \in Quotes : outcome[r] = "missing" => ~(InCart(r) \subseteq listed[r])
=============================================================================
