-------------------------------- MODULE Http --------------------------------
(***************************************************************************)
(* What the HTTP gateway (cmd/gateway) makes of a request and of the code  *)
(* its RPC ends with: routes, refusals and statuses.                       *)
(***************************************************************************)

Paths == {"products", "product", "cart", "items", "item", "quote", "other"}
Methods == {"GET", "POST", "PUT", "DELETE"}

\* valid: the ids of the path are there and the body passes the checks.
\* slow: the body is still on its way when the handler begins.
Input == [path : Paths, method : Methods, valid : BOOLEAN, slow : BOOLEAN]

Routes ==
  { <<"products", "POST", "CreateProduct">>, <<"products", "GET", "ListProducts">>,
    <<"product", "GET", "GetProduct">>,
    <<"cart", "GET", "GetOrCreateCart">>,
    <<"items", "POST", "AddItem">>, <<"items", "DELETE", "ClearCart">>,
    <<"item", "PUT", "SetItemQuantity">>, <<"item", "DELETE", "RemoveItem">>,
    <<"quote", "GET", "Quote">> }

Op(i) == { r[3] : r \in { s \in Routes : s[1] = i.path /\ s[2] = i.method } }

\* The operations whose body the gateway reads, and those whose ids or body it
\* checks.
Bodies == {"CreateProduct", "AddItem", "SetItemQuantity"}
Checked == Bodies \cup {"GetProduct", "Quote"}

\* The status of a request that leads to no RPC (a cart path without a user is
\* refused before its method is looked at).
Refusals(i) ==
  LET incomplete == ~i.valid /\ (i.path = "cart" \/ Op(i) \cap Checked # {})
      unknown == i.path = "other"
  IN  { s \in {"400", "404", "405"} :
          \/ s = "400" /\ incomplete
          \/ s = "404" /\ unknown
          \/ s = "405" /\ ~incomplete /\ ~unknown /\ Op(i) = {} }

\* Mutant: an RPC that was not answered is reported like a missing resource.
StatusOfMissing(c) ==
  [OK |-> "200", InvalidArgument |-> "400", NotFound |-> "404", Unavailable |-> "404",
   DeadlineExceeded |-> "404", Internal |-> "500"][c]

\* Mutant: the code is passed on as it is.
StatusOfRaw(c) == c

\* httpStatusFromGRPC (201, for a product that has been created, is 200 here).
StatusOf(c) ==
  [OK |-> "200", InvalidArgument |-> "400", NotFound |-> "404", Unavailable |-> "503",
   DeadlineExceeded |-> "503", Internal |-> "500"][c]
=============================================================================
