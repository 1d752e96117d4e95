----------------------------- MODULE ShopProofs -----------------------------
(***************************************************************************)
(* Proofs about Shop, for any users, products, requests and inputs.        *)
(***************************************************************************)
EXTENDS Shop, SumProofs, TLAPS

\* Nothing happens for a request before it is sent, an OK has written all, a
\* client hears 200 or 404 only of an RPC that is over, and knows only of those.
Order ==
  \A r \in Requests :
    /\ status[r] = "none" => ~called[r]
    /\ ~called[r] => wrote[r] = 0 /\ answer[r] = "none"
    /\ answer[r] = "OK" => wrote[r] = CartService!NumWrites(r)
    /\ status[r] \in {"200", "404"} => answer[r] \in {"OK", "NotFound"}
    /\ status[r] = "200" => answer[r] = "OK"
    /\ \A s \in known[r] : status[s] \in {"200", "404"}

\* A quote ends so only once it has its cart; the catalog only grows.
QuoteOrder ==
  \A r \in Quotes :
    /\ outcome[r] \in {"OK", "NotFound", "missing"} => answer[r] = "OK"
    /\ status[r] # "none" => listed[r] \subseteq catalog

\* SetHolds, from the write on, whatever the caller was told.
Effect ==
  \A r \in Requests :
    wrote[r] = 1 /\ req[r].op \in Idempotent /\ Undisturbed(r) =>
      LeftBy(r, contents[req[r].user])

IInv ==
  /\ TypeOK /\ Order /\ QuoteOrder /\ Effect
  /\ ShowsWhatIsKnown /\ MissingIsUnlisted
-----------------------------------------------------------------------------
LEMMA First == ASSUME NEW S, NEW s \in Seq(S), Len(s) = 1 PROVE s[1] \in S
  OBVIOUS

LEMMA Shape ==
  ASSUME NEW q \in Inputs
  PROVE  /\ q.user \in Users
         /\ q.op \in Idempotent \cup {"AddItem", "GetOrCreateCart"}
         /\ q.op \in {"AddItem", "SetItemQuantity", "RemoveItem"} =>
              /\ Len(q.items) = 1
              /\ q.items[1].product \in Products
              /\ q.items[1].quantity \in Nat
         /\ q.op \in {"AddItem", "SetItemQuantity"} => q.items[1].quantity > 0
         /\ q.op \in {"GetOrCreateCart", "ClearCart"} => Len(q.items) = 0
  <1>1. q \in Request
    BY InputsAssumption
  <1>2. q.items \in Seq([product : Products, quantity : 0 .. MaxQty])
    BY <1>1 DEF Request
  <1>3. Len(q.items) = 1 => q.items[1].product \in Products /\ q.items[1].quantity \in Nat
    <2>1. Len(q.items) = 1 => q.items[1] \in [product : Products, quantity : 0 .. MaxQty]
      BY <1>2, First
    <2> QED
      BY <2>1
  <1> QED
    BY <1>1, <1>3 DEF Request

LEMMA StatusIs ==
  ASSUME NEW c \in {"OK", "NotFound", "Internal", "Unavailable", "DeadlineExceeded"}
  PROVE  /\ StatusOf(c) \in {"200", "404", "500", "503"}
         /\ StatusOf(c) = "200" => c = "OK"
         /\ StatusOf(c) = "404" => c = "NotFound"
  BY DEF StatusOf

\* What the gateway may hear of an RPC, and what it means.
LEMMA Heard ==
  ASSUME TypeOK, QuoteOrder, NEW r \in Requests, NEW c \in Codes(Ended(r))
  PROVE  /\ c \in {"OK", "NotFound", "Internal", "Unavailable", "DeadlineExceeded"}
         /\ c = "OK" => answer[r] = "OK"
         /\ c = "NotFound" => answer[r] \in {"OK", "NotFound"}
  <1>1. CASE r \in Quotes
    <2>1. outcome[r] \in {"none", "OK", "NotFound", "missing", "Internal", "Unknown"}
      BY <1>1 DEF TypeOK
    <2> QED
      BY <1>1, <2>1 DEF Ended, Codes, QuoteOrder
  <1>2. CASE r \notin Quotes
    <2>1. answer[r] \in {"none", "OK", "NotFound", "Internal", "Unknown"}
      BY DEF TypeOK
    <2> QED
      BY <1>2, <2>1 DEF Ended, Codes
  <1> QED
    BY <1>1, <1>2

LEMMA InitIInv == Init => IInv
  <1> SUFFICES ASSUME Init PROVE IInv
    OBVIOUS
  <1> USE DEF Init, CartService!Init
  <1>1. TypeOK
    <2>1. 0 \in 0 .. MaxQty
      BY MaxQtyAssumption
    <2>2. CartService!Empty \in Carts
      BY <2>1 DEF CartService!Empty, Carts
    <2> QED
      BY <2>2 DEF TypeOK
  <1> QED
    BY <1>1 DEF IInv, Order, QuoteOrder, Effect, ShowsWhatIsKnown, MissingIsUnlisted

LEMMA TypeStep == TypeOK /\ QuoteOrder /\ [Next]_vars => TypeOK'
  <1> SUFFICES ASSUME TypeOK, QuoteOrder, [Next]_vars PROVE TypeOK'
    OBVIOUS
  <1> USE DEF TypeOK
  <1>1. ASSUME NEW r \in Requests, Send(r) PROVE TypeOK'
    <2>1. { s \in Requests : status[s] \in {"200", "404"} } \in SUBSET Requests
      OBVIOUS
    <2> QED
      BY <1>1, <2>1 DEF Send, cart, quoting
  <1>2. ASSUME NEW r \in Requests, Reply(r) PROVE TypeOK'
    <2>1. PICK c \in Codes(Ended(r)) : status' = [status EXCEPT ![r] = StatusOf(c)]
      BY <1>2 DEF Reply
    <2>2. StatusOf(c) \in {"200", "404", "500", "503"}
      BY <2>1, Heard, StatusIs
    <2> QED
      BY <1>2, <2>1, <2>2 DEF Reply, cart, quoting
  <1>3. ASSUME NEW r \in Requests, Timeout(r) PROVE TypeOK'
    <2>1. PICK c \in {"DeadlineExceeded", "Unavailable"} :
            status' = [status EXCEPT ![r] = StatusOf(c)]
      BY <1>3 DEF Timeout
    <2>2. StatusOf(c) \in {"200", "404", "500", "503"}
      BY <2>1, StatusIs
    <2> QED
      BY <1>3, <2>1, <2>2 DEF Timeout, cart, quoting
  <1>4. ASSUME NEW r \in Requests, Arrive(r) PROVE TypeOK'
    BY <1>4 DEF Arrive, quoting, calling, CartService!Call
  <1>5. ASSUME NEW r \in Requests, CartService!TakeEffect(r),
               UNCHANGED <<catalog, quoting, calling>>
        PROVE  TypeOK'
    BY <1>5 DEF CartService!TakeEffect, quoting, calling, Carts
  <1>6. ASSUME NEW r \in Requests, CartService!Succeed(r),
               UNCHANGED <<catalog, quoting, calling>>
        PROVE  TypeOK'
    BY <1>6 DEF CartService!Succeed, quoting, calling
  <1>7. ASSUME NEW r \in Requests, NEW code \in {"NotFound", "Internal", "Unknown"},
               CartService!Fail(r, code), UNCHANGED <<catalog, quoting, calling>>
        PROVE  TypeOK'
    BY <1>7 DEF CartService!Fail, quoting, calling
  <1>8. ASSUME NEW p \in Products, Publish(p) PROVE TypeOK'
    BY <1>8 DEF Publish, cart, quoting, calling
  <1>9. ASSUME NEW r \in Requests, Lookup(r) PROVE TypeOK'
    BY <1>9 DEF Lookup, Pricing, InCart, cart, calling
  <1>10. ASSUME NEW r \in Requests, LookupFails(r) PROVE TypeOK'
    BY <1>10 DEF LookupFails, Pricing, cart, calling
  <1>11. ASSUME NEW r \in Requests, Quote(r) PROVE TypeOK'
    BY <1>11 DEF Quote, Pricing, cart, calling
  <1>12. ASSUME NEW r \in Requests, CartFails(r) PROVE TypeOK'
    BY <1>12 DEF CartFails, cart, calling
  <1>13. CASE UNCHANGED vars
    BY <1>13 DEF vars, cart, quoting, calling
  <1> QED
    BY <1>1, <1>2, <1>3, <1>4, <1>5, <1>6, <1>7, <1>8, <1>9, <1>10, <1>11, <1>12, <1>13
    DEF Next, Gate, Api, Work

LEMMA OrderStep == TypeOK /\ QuoteOrder /\ Order /\ [Next]_vars => Order'
  <1> SUFFICES ASSUME TypeOK, QuoteOrder, Order, [Next]_vars PROVE Order'
    OBVIOUS
  <1>1. ASSUME NEW r \in Requests, Send(r) PROVE Order'
    <2>1. /\ status[r] = "none" /\ UNCHANGED cart
          /\ status' = [status EXCEPT ![r] = "waiting"]
          /\ known' = [known EXCEPT ![r] = { s \in Requests : status[s] \in {"200", "404"} }]
      BY <1>1 DEF Send
    <2>2. \A x \in Requests : \A s \in known'[x] : s # r /\ status[s] \in {"200", "404"}
      BY <2>1 DEF Order, TypeOK
    <2>3. \A x \in Requests : \A s \in known'[x] : s \in Requests
      BY <2>1 DEF TypeOK
    <2> QED
      BY <2>1, <2>2, <2>3 DEF Order, TypeOK, cart, CartService!NumWrites
  <1>2. ASSUME NEW r \in Requests, NEW s \in {"200", "404", "500", "503"},
               status[r] = "waiting", status' = [status EXCEPT ![r] = s],
               UNCHANGED <<cart, known>>,
               s \in {"200", "404"} => answer[r] \in {"OK", "NotFound"},
               s = "200" => answer[r] = "OK"
        PROVE  Order'
    BY <1>2 DEF Order, TypeOK, cart, CartService!NumWrites
  <1>3. ASSUME NEW r \in Requests, Reply(r) PROVE Order'
    <2>1. PICK c \in Codes(Ended(r)) : status' = [status EXCEPT ![r] = StatusOf(c)]
      BY <1>3 DEF Reply
    <2>2. /\ c \in {"OK", "NotFound", "Internal", "Unavailable", "DeadlineExceeded"}
          /\ c = "OK" => answer[r] = "OK"
          /\ c = "NotFound" => answer[r] \in {"OK", "NotFound"}
      BY Heard
    <2>3. /\ StatusOf(c) \in {"200", "404", "500", "503"}
          /\ StatusOf(c) \in {"200", "404"} => answer[r] \in {"OK", "NotFound"}
          /\ StatusOf(c) = "200" => answer[r] = "OK"
      BY <2>2, StatusIs
    <2>4. status[r] = "waiting" /\ UNCHANGED <<cart, known>>
      BY <1>3 DEF Reply
    <2> QED
      BY <1>2, <2>1, <2>3, <2>4
  <1>4. ASSUME NEW r \in Requests, Timeout(r) PROVE Order'
    <2>1. PICK c \in {"DeadlineExceeded", "Unavailable"} :
            status' = [status EXCEPT ![r] = StatusOf(c)]
      BY <1>4 DEF Timeout
    <2> QED
      BY <1>2, <1>4, <2>1, StatusIs DEF Timeout
  <1>5. ASSUME NEW r \in Requests, Arrive(r) PROVE Order'
    <2>1. req[r].user \in Users
      BY Shape DEF TypeOK
    <2> QED
      BY <1>5, <2>1 DEF Arrive, CartService!Call, calling, Order, TypeOK, CartService!NumWrites
  <1>6. ASSUME NEW r \in Requests, CartService!TakeEffect(r), UNCHANGED calling PROVE Order'
    BY <1>6 DEF CartService!TakeEffect, calling, Order, TypeOK, CartService!NumWrites
  <1>7. ASSUME NEW r \in Requests, CartService!Succeed(r), UNCHANGED calling PROVE Order'
    BY <1>7 DEF CartService!Succeed, calling, Order, TypeOK, CartService!NumWrites
  <1>8. ASSUME NEW r \in Requests, NEW c \in {"NotFound", "Internal", "Unknown"},
               CartService!Fail(r, c), UNCHANGED calling
        PROVE  Order'
    BY <1>8 DEF CartService!Fail, calling, Order, TypeOK, CartService!NumWrites
  <1>9. CASE UNCHANGED <<cart, calling>>
    BY <1>9 DEF cart, calling, Order, CartService!NumWrites
  <1> QED
    BY <1>1, <1>3, <1>4, <1>5, <1>6, <1>7, <1>8, <1>9
    DEF Next, Gate, Api, Work, Publish, Lookup, LookupFails, Quote, CartFails, vars

LEMMA QuoteOrderStep == TypeOK /\ QuoteOrder /\ [Next]_vars => QuoteOrder'
  <1> SUFFICES ASSUME TypeOK, QuoteOrder, [Next]_vars PROVE QuoteOrder'
    OBVIOUS
  <1> USE RequestsAssumption DEF QuoteOrder, TypeOK
  <1>1. ASSUME NEW r \in Requests, Send(r) PROVE QuoteOrder'
    BY <1>1 DEF Send, cart, quoting
  <1>2. ASSUME NEW r \in Requests, Reply(r) \/ Timeout(r) PROVE QuoteOrder'
    <2>1. status[r] # "none" /\ UNCHANGED <<cart, catalog, quoting, listed>>
      BY <1>2 DEF Reply, Timeout
    <2>2. \A x \in Requests : x # r => status'[x] = status[x]
      BY <1>2 DEF Reply, Timeout
    <2> QED
      BY <2>1, <2>2 DEF cart, quoting
  <1>3. ASSUME NEW r \in Requests, Arrive(r) PROVE QuoteOrder'
    <2>1. req[r].user \in Users
      BY Shape
    <2> QED
      BY <1>3, <2>1 DEF Arrive, CartService!Call, calling, quoting
  <1>4. ASSUME NEW r \in Requests, Work(r) PROVE QuoteOrder'
    <2>1. \A x \in Requests : answer[x] = "OK" => answer'[x] = "OK"
      BY <1>4 DEF Work, CartService!TakeEffect, CartService!Succeed, CartService!Fail
    <2> QED
      BY <1>4, <2>1 DEF Work, calling, quoting
  <1>5. ASSUME NEW p \in Products, Publish(p) PROVE QuoteOrder'
    BY <1>5 DEF Publish, cart, quoting, calling
  <1>6. ASSUME NEW r \in Requests, Lookup(r) \/ LookupFails(r) \/ Quote(r) PROVE QuoteOrder'
    BY <1>6 DEF Lookup, LookupFails, Quote, Pricing, cart, calling
  <1>7. ASSUME NEW r \in Requests, CartFails(r) PROVE QuoteOrder'
    BY <1>7 DEF CartFails, cart, calling
  <1>8. CASE UNCHANGED vars
    BY <1>8 DEF vars, cart, quoting, calling
  <1> QED
    BY <1>1, <1>2, <1>3, <1>4, <1>5, <1>6, <1>7, <1>8 DEF Next, Gate, Api

\* A write changes the rows of its request, and leaves them as it asks.
LEMMA Write ==
  ASSUME TypeOK, NEW x \in Requests, CartService!TakeEffect(x)
  PROVE  \E after \in Carts :
           /\ contents' = [contents EXCEPT ![req[x].user] = after]
           /\ \A p \in Products : p \notin Target(x) => after[p] = contents[req[x].user][p]
           /\ req[x].op \in Idempotent => LeftBy(x, after)
  <1> DEFINE u == req[x].user
  <1>1. /\ req[x] \in Inputs /\ wrote[x] \in Nat /\ u \in Users
        /\ contents[u] \in Carts
    BY Shape DEF TypeOK
  <1>2. wrote[x] < CartService!NumWrites(x)
    BY DEF CartService!TakeEffect
  <1>3. PICK after \in Carts : CartService!Change(x, contents[u], after)
                               /\ contents' = [contents EXCEPT ![u] = after]
    BY DEF CartService!TakeEffect, Carts
  <1> SUFFICES /\ \A p \in Products : p \notin Target(x) => after[p] = contents[u][p]
               /\ req[x].op \in Idempotent => LeftBy(x, after)
    BY <1>3
  <1>4. CASE req[x].op = "ClearCart"
    <2>1. after = CartService!Empty
      BY <1>3, <1>4 DEF CartService!Change
    <2> QED
      BY <1>4, <2>1 DEF CartService!Empty, Target, LeftBy
  <1>5. CASE req[x].op # "ClearCart"
    <2> DEFINE i == req[x].items[1]
    <2>1. req[x].op \in {"AddItem", "SetItemQuantity", "RemoveItem"} /\ Len(req[x].items) = 1
      <3>1. wrote[x] < Len(req[x].items)
        BY <1>2, <1>5 DEF CartService!NumWrites
      <3>2. req[x].op \in {"AddItem", "SetItemQuantity", "RemoveItem", "GetOrCreateCart"}
        BY <1>1, <1>5, Shape DEF Idempotent
      <3>3. CASE req[x].op = "GetOrCreateCart"
        BY <1>1, <3>1, <3>3, Shape
      <3>4. CASE req[x].op # "GetOrCreateCart"
        BY <1>1, <3>2, <3>4, Shape
      <3> QED
        BY <3>3, <3>4
    <2>2. req[x].items[wrote[x] + 1] = i
      <3>1. wrote[x] = 0
        BY <1>1, <1>2, <1>5, <2>1 DEF CartService!NumWrites
      <3> QED
        BY <3>1
    <2>3. Target(x) = {i.product} /\ i.product \in Products
      BY <1>1, <2>1, Shape DEF Target
    <2> HIDE DEF i
    <2>4. \/ /\ req[x].op = "AddItem"
             /\ after = [contents[u] EXCEPT ![i.product] = contents[u][i.product] + i.quantity]
          \/ /\ req[x].op = "SetItemQuantity"
             /\ after = [contents[u] EXCEPT ![i.product] = i.quantity]
          \/ /\ req[x].op = "RemoveItem"
             /\ after = [contents[u] EXCEPT ![i.product] = 0]
      BY <1>3, <1>5, <2>1, <2>2 DEF CartService!Change
    <2>5. \A p \in Products : p \notin Target(x) => after[p] = contents[u][p]
      BY <1>1, <2>3, <2>4 DEF Carts
    <2>6. CASE req[x].op = "AddItem"
      BY <2>5, <2>6 DEF Idempotent
    <2>7. CASE req[x].op = "SetItemQuantity"
      <3>1. after[i.product] = i.quantity
        BY <1>1, <2>3, <2>4, <2>7 DEF Carts
      <3> QED
        BY <2>3, <2>5, <2>7, <3>1 DEF LeftBy, i
    <2>8. CASE req[x].op = "RemoveItem"
      <3>1. after[i.product] = 0
        BY <1>1, <2>3, <2>4, <2>8 DEF Carts
      <3> QED
        BY <2>3, <2>5, <2>8, <3>1 DEF LeftBy
    <2> QED
      BY <2>1, <2>6, <2>7, <2>8
  <1> QED
    BY <1>4, <1>5

LEMMA EffectStep == TypeOK /\ Order /\ Effect /\ [Next]_vars => Effect'
  <1> SUFFICES ASSUME TypeOK, Order, Effect, [Next]_vars PROVE Effect'
    OBVIOUS
  <1>1. ASSUME NEW r \in Requests, Send(r) PROVE Effect'
    <2>1. wrote[r] = 0 /\ UNCHANGED cart
      BY <1>1 DEF Send, Order
    <2>2. \A x \in Requests : x # r => known'[x] = known[x]
      BY <1>1 DEF Send, TypeOK
    <2> QED
      BY <2>1, <2>2 DEF Effect, Undisturbed, LeftBy, Target, cart
  <1>2. ASSUME NEW r \in Requests, Arrive(r) PROVE Effect'
    <2>1. /\ UNCHANGED <<contents, req, wrote, known>>
          /\ \A x \in Requests : called[x] => called'[x]
      BY <1>2 DEF Arrive, CartService!Call, calling, TypeOK
    <2> QED
      BY <2>1 DEF Effect, Undisturbed, LeftBy, Target
  <1>3. ASSUME NEW x \in Requests, CartService!TakeEffect(x), UNCHANGED calling PROVE Effect'
    <2>1. /\ UNCHANGED <<req, called, known>>
          /\ answer[x] \in {"none", "Unknown"}
          /\ wrote' = [wrote EXCEPT ![x] = @ + 1]
      BY <1>3 DEF CartService!TakeEffect, calling
    <2>2. PICK after \in Carts :
            /\ contents' = [contents EXCEPT ![req[x].user] = after]
            /\ \A p \in Products :
                 p \notin Target(x) => after[p] = contents[req[x].user][p]
            /\ req[x].op \in Idempotent => LeftBy(x, after)
      BY <1>3, Write
    <2> SUFFICES ASSUME NEW r \in Requests, wrote'[r] = 1,
                        req[r].op \in Idempotent, Undisturbed(r)
                 PROVE  LeftBy(r, contents'[req[r].user])
      BY <2>1 DEF Effect, Undisturbed, LeftBy, Target
    <2>3. /\ req[r].user \in Users /\ req[x].user \in Users
          /\ Target(r) \subseteq Products
      BY Shape DEF TypeOK, Target, Idempotent
    <2>4. CASE req[x] = req[r]
      BY <2>2, <2>3, <2>4 DEF TypeOK, LeftBy, Target
    <2>5. CASE req[x] # req[r]
      <3>1. wrote[r] = 1
        BY <2>1, <2>5 DEF TypeOK
      <3>2. LeftBy(r, contents[req[r].user])
        BY <3>1 DEF Effect
      <3>3. CASE req[x].user # req[r].user
        BY <2>2, <2>3, <3>2, <3>3 DEF TypeOK
      <3>4. CASE req[x].user = req[r].user
        <4>1. x \notin known[r]
          BY <2>1 DEF Order
        <4>2. Target(x) \cap Target(r) = {}
          BY <1>3, <2>5, <3>4, <4>1 DEF Undisturbed, CartService!TakeEffect
        <4>3. \A p \in Target(r) : after[p] = contents[req[r].user][p]
          BY <2>2, <2>3, <3>4, <4>2
        <4> QED
          BY <2>2, <2>3, <3>2, <3>4, <4>3 DEF LeftBy, TypeOK
      <3> QED
        BY <3>3, <3>4
    <2> QED
      BY <2>4, <2>5
  <1>4. CASE UNCHANGED <<contents, req, called, wrote, known>>
    BY <1>4 DEF Effect, Undisturbed, LeftBy, Target
  <1> QED
    BY <1>1, <1>2, <1>3, <1>4
    DEF Next, Gate, Api, Work, Reply, Timeout, Publish, Lookup, LookupFails, Quote, CartFails,
        vars, cart, calling, CartService!Succeed, CartService!Fail

\* A caller is told 200 only when all writes have taken effect.
LEMMA Held == TypeOK /\ Order /\ Effect => SetHolds
  <1> SUFFICES ASSUME TypeOK, Order, Effect, NEW r \in Requests, status[r] = "200",
                      req[r].op \in Idempotent, Undisturbed(r)
               PROVE  LeftBy(r, contents[req[r].user])
    BY DEF SetHolds
  <1>1. wrote[r] = CartService!NumWrites(r)
    BY DEF Order
  <1>2. wrote[r] = 1
    BY <1>1, Shape DEF CartService!NumWrites, TypeOK, Idempotent
  <1> QED
    BY <1>2 DEF Effect

LEMMA StillUndisturbed ==
  ASSUME NEW s \in Requests, UNCHANGED req, known'[s] = known[s],
         \A x \in Requests : called[x] => called'[x],
         Undisturbed(s)'
  PROVE  Undisturbed(s)
  BY DEF Undisturbed, Target

\* A step after which an answer claims nothing that it did not before.
LEMMA NothingNew ==
  ASSUME ShowsWhatIsKnown, UNCHANGED req,
         \A x \in Requests : called[x] => called'[x],
         \A r, s \in Requests :
           s \in known'[r] /\ status'[s] = "200" /\ answer'[r] = "OK" =>
             /\ s \in known[r] /\ status[s] = "200" /\ answer[r] = "OK"
             /\ known'[s] = known[s] /\ view'[r] = view[r]
  PROVE  ShowsWhatIsKnown'
  <1> SUFFICES ASSUME NEW r \in Requests, NEW s \in Requests,
                      s \in known'[r], status'[s] = "200", answer'[r] = "OK",
                      req'[s].op \in Idempotent, req'[s].user = req'[r].user,
                      Undisturbed(s)'
               PROVE  LeftBy(s, view[r])'
    BY DEF ShowsWhatIsKnown
  <1>1. Undisturbed(s)
    BY StillUndisturbed
  <1>2. LeftBy(s, view[r])
    BY <1>1 DEF ShowsWhatIsKnown
  <1> QED
    BY <1>2 DEF LeftBy, Target

LEMMA ShowsStep ==
  TypeOK /\ Order /\ Effect /\ ShowsWhatIsKnown /\ [Next]_vars => ShowsWhatIsKnown'
  <1> SUFFICES ASSUME TypeOK, Order, Effect, ShowsWhatIsKnown, [Next]_vars
               PROVE  ShowsWhatIsKnown'
    OBVIOUS
  <1>1. ASSUME NEW x \in Requests, Send(x) PROVE ShowsWhatIsKnown'
    <2>1. /\ status[x] = "none" /\ answer[x] = "none" /\ UNCHANGED cart
          /\ \A r \in Requests : r # x => known'[r] = known[r] /\ status'[r] = status[r]
      BY <1>1 DEF Send, Order, TypeOK
    <2>2. status'[x] = "waiting"
      BY <1>1 DEF Send, TypeOK
    <2> QED
      BY <2>1, <2>2, NothingNew DEF cart
  <1>2. ASSUME NEW x \in Requests, Reply(x) \/ Timeout(x) PROVE ShowsWhatIsKnown'
    <2>1. /\ status[x] = "waiting" /\ UNCHANGED <<cart, known>>
          /\ \A r \in Requests : r # x => status'[r] = status[r]
      BY <1>2 DEF Reply, Timeout, TypeOK
    <2>2. \A r \in Requests : x \notin known[r]
      BY <2>1 DEF Order
    <2> QED
      BY <2>1, <2>2, NothingNew DEF cart
  <1>3. ASSUME NEW x \in Requests, Arrive(x) PROVE ShowsWhatIsKnown'
    <2>1. /\ UNCHANGED <<req, view, calling>>
          /\ \A r \in Requests : /\ called[r] => called'[r]
                                 /\ answer'[r] = "OK" => answer[r] = "OK"
      BY <1>3 DEF Arrive, CartService!Call, TypeOK
    <2> QED
      BY <2>1, NothingNew DEF calling
  <1>4. ASSUME NEW x \in Requests, CartService!Succeed(x), UNCHANGED calling
        PROVE  ShowsWhatIsKnown'
    <2>1. /\ UNCHANGED <<contents, req, called, calling>>
          /\ view' = [view EXCEPT ![x] = contents[req[x].user]]
          /\ answer' = [answer EXCEPT ![x] = "OK"]
      BY <1>4 DEF CartService!Succeed
    <2> SUFFICES ASSUME NEW r \in Requests, NEW s \in Requests,
                        s \in known[r], status[s] = "200", answer'[r] = "OK",
                        req[s].op \in Idempotent, req[s].user = req[r].user,
                        Undisturbed(s)'
                 PROVE  LeftBy(s, view'[r])
      BY <2>1 DEF ShowsWhatIsKnown, LeftBy, Target, calling
    <2>2. Undisturbed(s)
      BY <2>1, StillUndisturbed DEF calling
    <2>3. CASE r = x
      <3>1. LeftBy(s, contents[req[s].user])
        BY <2>2, Held DEF SetHolds
      <3> QED
        BY <2>1, <2>3, <3>1 DEF TypeOK
    <2>4. CASE r # x
      <3>1. LeftBy(s, view[r])
        BY <2>1, <2>2, <2>4 DEF ShowsWhatIsKnown, TypeOK
      <3> QED
        BY <2>1, <2>4, <3>1 DEF TypeOK
    <2> QED
      BY <2>3, <2>4
  <1>5. ASSUME NEW x \in Requests, NEW c \in {"NotFound", "Internal", "Unknown"},
               CartService!Fail(x, c), UNCHANGED calling
        PROVE  ShowsWhatIsKnown'
    <2>1. UNCHANGED <<req, called, view, calling>> /\ answer' = [answer EXCEPT ![x] = c]
      BY <1>5 DEF CartService!Fail
    <2> QED
      BY <2>1, NothingNew DEF calling, TypeOK
  <1>6. CASE UNCHANGED <<req, called, answer, view, calling>>
    BY <1>6, NothingNew DEF calling
  <1> QED
    BY <1>1, <1>2, <1>3, <1>4, <1>5, <1>6
    DEF Next, Gate, Api, Work, Publish, Lookup, LookupFails, Quote, CartFails,
        vars, cart, CartService!TakeEffect

\* A lookup finds what was in the catalog when its quote was sent, as nothing
\* leaves it.
LEMMA MissingStep ==
  TypeOK /\ Order /\ QuoteOrder /\ MissingIsUnlisted /\ [Next]_vars => MissingIsUnlisted'
  <1> SUFFICES ASSUME TypeOK, Order, QuoteOrder, MissingIsUnlisted, [Next]_vars
               PROVE  MissingIsUnlisted'
    OBVIOUS
  <1> USE RequestsAssumption DEF MissingIsUnlisted, InCart, TypeOK
  <1>1. ASSUME NEW x \in Requests, Send(x) PROVE MissingIsUnlisted'
    <2>1. \A r \in Quotes : outcome[r] = "missing" => r # x
      BY <1>1 DEF Send, Order, QuoteOrder
    <2> QED
      BY <1>1, <2>1 DEF Send, cart, quoting
  <1>2. ASSUME NEW x \in Requests, CartService!Succeed(x), UNCHANGED <<quoting, calling>>
        PROVE  MissingIsUnlisted'
    <2>1. \A r \in Quotes : outcome[r] = "missing" => r # x
      BY <1>2 DEF CartService!Succeed, QuoteOrder
    <2> QED
      BY <1>2, <2>1 DEF CartService!Succeed, quoting, calling
  <1>3. ASSUME NEW x \in Requests, Lookup(x) PROVE MissingIsUnlisted'
    <2>1. PICK p \in InCart(x) \ priced[x] :
            IF p \in catalog THEN UNCHANGED outcome
            ELSE outcome' = [outcome EXCEPT ![x] = "missing"]
      BY <1>3 DEF Lookup
    <2>2. x \in Quotes /\ listed[x] \subseteq catalog /\ UNCHANGED <<view, listed>>
      BY <1>3 DEF Lookup, Pricing, cart, calling, Order, QuoteOrder
    <2> QED
      BY <2>1, <2>2
  <1>4. ASSUME NEW x \in Requests, LookupFails(x) \/ Quote(x) \/ CartFails(x)
        PROVE  MissingIsUnlisted'
    BY <1>4 DEF LookupFails, Quote, CartFails, Pricing, cart, calling
  <1>5. CASE UNCHANGED <<outcome, view, listed>>
    BY <1>5
  <1> QED
    BY <1>1, <1>2, <1>3, <1>4, <1>5
    DEF Next, Gate, Api, Reply, Timeout, Arrive, Work, Publish, vars, cart, quoting, calling,
        CartService!Call, CartService!TakeEffect, CartService!Fail
-----------------------------------------------------------------------------
\* Every state is a possible one, and the strengthening holds in it.
LEMMA Invariant == Spec => []IInv
  <1>1. IInv /\ [Next]_vars => IInv'
    BY TypeStep, OrderStep, QuoteOrderStep, EffectStep, ShowsStep, MissingStep DEF IInv
  <1> QED
    BY InitIInv, <1>1, PTL DEF Spec

\* Everything keeps to its type: a caller is told no other status than those of
\* httpStatusFromGRPC, whatever happens to a request.
THEOREM TypeCorrect == Spec => []TypeOK
  BY Invariant, PTL DEF IInv

\* A SetItemQuantity, RemoveItem or ClearCart that was answered with 200 stays
\* done, for any number of requests, sendings, users and products.
THEOREM RepeatingIsSafe == Spec => []SetHolds
  <1>1. IInv => SetHolds
    BY Held DEF IInv
  <1> QED
    BY <1>1, Invariant, PTL

\* Carts and quotes show what their caller knows to be in the cart.
THEOREM KnownIsShown == Spec => []ShowsWhatIsKnown
  BY Invariant, PTL DEF IInv

\* A quote reports no product as missing that the catalog had all along.
THEOREM MissingIsTrue == Spec => []MissingIsUnlisted
  BY Invariant, PTL DEF IInv
-----------------------------------------------------------------------------
(* What is added.                                                          *)

\* What the requests of S add to p, by their inputs.
AddersIn(q, S, p) == { r \in S : q[r].op = "AddItem" /\ q[r].items[1].product = p }
Quantity(q) == [r \in Requests |-> q[r].items[1].quantity]
AddedBy(q, S, p) == SumFunctionOnSet(Quantity(q), AddersIn(q, S, p))

LEMMA AddersFinite ==
  ASSUME NEW q \in [Requests -> Inputs], NEW S \in SUBSET Requests, IsFiniteSet(S), NEW p
  PROVE  /\ AddersIn(q, S, p) \subseteq S /\ IsFiniteSet(AddersIn(q, S, p))
         /\ NatsOn(Quantity(q), AddersIn(q, S, p)) /\ IntsOn(Quantity(q), AddersIn(q, S, p))
  <1>1. AddersIn(q, S, p) \subseteq S
    BY DEF AddersIn
  <1>2. IsFiniteSet(AddersIn(q, S, p))
    BY <1>1, FS_Subset
  <1>3. ASSUME NEW r \in AddersIn(q, S, p) PROVE Quantity(q)[r] \in Nat
    <2>1. r \in Requests /\ q[r] \in Inputs /\ q[r].op = "AddItem"
      BY DEF AddersIn
    <2>2. q[r].items[1].quantity \in Nat
      BY <2>1, Shape
    <2> QED
      BY <2>1, <2>2 DEF Quantity
  <1> QED
    BY <1>1, <1>2, <1>3 DEF NatsOn, IntsOn

LEMMA AddedIsSum ==
  ASSUME NEW S \in SUBSET Requests, IsFiniteSet(S), NEW p, TypeOK
  PROVE  Added(S, p) = AddedBy(req, S, p)
  <1> DEFINE D == { s \in S : req[s].op = "AddItem" /\ Target(s) = {p} }
             f == [r \in D |-> req[r].items[1].quantity]
             g == Quantity(req)
  <1>1. D = AddersIn(req, S, p)
    BY DEF AddersIn, Target
  <1>2. IsFiniteSet(D) /\ IntsOn(g, D) /\ D \subseteq Requests
    <2>1. req \in [Requests -> Inputs]
      BY DEF TypeOK
    <2> HIDE DEF D
    <2> QED
      BY <1>1, <2>1, AddersFinite
  <1>3. SameOn(g, f, D)
    BY <1>2 DEF SameOn, Quantity
  <1>4. Added(S, p) = SumFunctionOnSet(f, D)
    BY DEF Added, SumFunction
  <1> HIDE DEF D, f, g
  <1>5. SumFunctionOnSet(g, D) = SumFunctionOnSet(f, D)
    BY <1>2, <1>3, SumSame
  <1> QED
    BY <1>1, <1>4, <1>5 DEF AddedBy, g

\* More requests add no less.
LEMMA MoreAdd ==
  ASSUME NEW q \in [Requests -> Inputs], NEW T \in SUBSET Requests, IsFiniteSet(T),
         NEW S \in SUBSET T, NEW p
  PROVE  /\ AddedBy(q, S, p) \in Nat /\ AddedBy(q, T, p) \in Nat
         /\ AddedBy(q, S, p) <= AddedBy(q, T, p)
  <1> DEFINE A == AddersIn(q, S, p)
             B == AddersIn(q, T, p)
             f == Quantity(q)
  <1>1. IsFiniteSet(S) /\ S \in SUBSET Requests
    BY FS_Subset
  <1>2. IsFiniteSet(A) /\ NatsOn(f, A) /\ IsFiniteSet(B) /\ NatsOn(f, B)
    BY <1>1, AddersFinite
  <1>3. A \in SUBSET B
    BY DEF AddersIn
  <1> HIDE DEF A, B, f
  <1>4. /\ SumFunctionOnSet(f, A) \in Nat /\ SumFunctionOnSet(f, B) \in Nat
        /\ SumFunctionOnSet(f, A) <= SumFunctionOnSet(f, B)
    BY <1>2, <1>3, SumNat, SumSubset
  <1> QED
    BY <1>4 DEF AddedBy, A, B, f

\* One more request adds what it asks.
LEMMA OneMoreAdds ==
  ASSUME NEW q \in [Requests -> Inputs], NEW S \in SUBSET Requests, IsFiniteSet(S),
         NEW x \in Requests, x \notin S, q[x].op = "AddItem", NEW p
  PROVE  AddedBy(q, S \cup {x}, p) =
           AddedBy(q, S, p) + (IF q[x].items[1].product = p THEN q[x].items[1].quantity ELSE 0)
  <1> DEFINE A == AddersIn(q, S, p)
             B == AddersIn(q, S \cup {x}, p)
             f == Quantity(q)
  <1>1. IsFiniteSet(S \cup {x})
    BY FS_AddElement
  <1>2. IsFiniteSet(A) /\ IntsOn(f, B) /\ IntsOn(f, A)
    BY <1>1, AddersFinite
  <1>3. B = (IF q[x].items[1].product = p THEN A \cup {x} ELSE A) /\ x \notin A
    BY DEF AddersIn
  <1>4. f[x] = q[x].items[1].quantity /\ f[x] \in Nat
    BY Shape DEF Quantity
  <1> HIDE DEF A, B, f
  <1>5. SumFunctionOnSet(f, A) \in Int
    BY <1>2, SumInt
  <1>6. CASE q[x].items[1].product = p
    <2>1. SumFunctionOnSet(f, A \cup {x}) = f[x] + SumFunctionOnSet(f, A)
      BY <1>2, <1>3, <1>6, SumInsert
    <2>2. SumFunctionOnSet(f, B) = SumFunctionOnSet(f, A) + q[x].items[1].quantity
      BY <1>3, <1>4, <1>5, <1>6, <2>1
    <2> QED
      BY <1>6, <2>2 DEF AddedBy, A, B, f
  <1>7. CASE q[x].items[1].product # p
    <2>1. SumFunctionOnSet(f, B) = SumFunctionOnSet(f, A) + 0
      BY <1>3, <1>5, <1>7
    <2> QED
      BY <1>7, <2>1 DEF AddedBy, A, B, f
  <1> QED
    BY <1>6, <1>7

\* The requests of u whose write has taken effect.
Done(u) == { r \in Sent(u) : wrote[r] > 0 }

\* Finitely many requests have arrived, none has written more than it carries,
\* and a cart that is only added to holds the sum of what was written.
FinitelyMany == IsFiniteSet({ r \in Requests : called[r] })
WritesBounded == \A r \in Requests : wrote[r] <= CartService!NumWrites(r)
Counted ==
  \A u \in Users : OnlyAdded(u) =>
    \A p \in Products : contents[u][p] = AddedBy(req, Done(u), p)

\* What an answer shows lies between what its caller knew and what was sent.
ViewsBounded ==
  \A u \in Users : OnlyAdded(u) =>
    \A r \in Sent(u), p \in Products : answer[r] = "OK" =>
      /\ AddedBy(req, Told(known[r], u), p) <= view[r][p]
      /\ view[r][p] <= AddedBy(req, Sent(u), p)

CountInv == FinitelyMany /\ WritesBounded /\ Counted /\ ViewsBounded

LEMMA SentFinite ==
  ASSUME FinitelyMany, NEW u
  PROVE  /\ Sent(u) \in SUBSET Requests /\ IsFiniteSet(Sent(u))
         /\ Done(u) \in SUBSET Sent(u) /\ IsFiniteSet(Done(u))
         /\ \A S : Told(S, u) \in SUBSET Sent(u) /\ IsFiniteSet(Told(S, u))
  <1>1. Sent(u) \subseteq { r \in Requests : called[r] }
    BY DEF Sent
  <1>2. IsFiniteSet(Sent(u)) /\ Sent(u) \in SUBSET Requests
    BY <1>1, FS_Subset DEF FinitelyMany
  <1>3. Done(u) \in SUBSET Sent(u) /\ \A S : Told(S, u) \in SUBSET Sent(u)
    BY DEF Done, Told
  <1> QED
    BY <1>2, <1>3, FS_Subset

\* Who is told 200 has written.
LEMMA ToldIsDone ==
  ASSUME TypeOK, Order, NEW u, OnlyAdded(u), NEW p, NEW S
  PROVE  AddersIn(req, Told(S, u), p) \subseteq Done(u)
  <1> SUFFICES ASSUME NEW r \in Told(S, u), req[r].op = "AddItem" PROVE r \in Done(u)
    BY DEF AddersIn
  <1>1. r \in Requests /\ r \in Sent(u) /\ status[r] = "200"
    BY DEF Told, Sent
  <1>2. wrote[r] = CartService!NumWrites(r) /\ req[r] \in Inputs
    BY <1>1 DEF Order, TypeOK
  <1>3. Len(req[r].items) = 1
    BY <1>2, Shape
  <1> QED
    BY <1>1, <1>2, <1>3 DEF Done, CartService!NumWrites

LEMMA KnownAdded ==
  ASSUME TypeOK, Order, CountInv, NEW u \in Users, OnlyAdded(u), NEW p \in Products, NEW S
  PROVE  /\ AddedBy(req, Told(S, u), p) <= contents[u][p]
         /\ contents[u][p] <= AddedBy(req, Sent(u), p)
  <1> DEFINE A == AddersIn(req, Told(S, u), p)
             B == AddersIn(req, Done(u), p)
             f == Quantity(req)
  <1>1. /\ Done(u) \in SUBSET Requests /\ IsFiniteSet(Done(u)) /\ Done(u) \in SUBSET Sent(u)
        /\ Sent(u) \in SUBSET Requests /\ IsFiniteSet(Sent(u)) /\ req \in [Requests -> Inputs]
    BY SentFinite DEF CountInv, TypeOK
  <1>2. A \in SUBSET B
    BY ToldIsDone DEF AddersIn
  <1>3. IsFiniteSet(B) /\ NatsOn(f, B)
    BY <1>1, AddersFinite
  <1>4. AddedBy(req, Told(S, u), p) <= AddedBy(req, Done(u), p)
    <2> HIDE DEF A, B, f
    <2>1. SumFunctionOnSet(f, A) <= SumFunctionOnSet(f, B)
      BY <1>2, <1>3, SumSubset
    <2> QED
      BY <2>1 DEF AddedBy, A, B, f
  <1>5. AddedBy(req, Done(u), p) <= AddedBy(req, Sent(u), p)
    BY <1>1, MoreAdd
  <1>6. contents[u][p] = AddedBy(req, Done(u), p)
    BY DEF CountInv, Counted
  <1> QED
    BY <1>4, <1>5, <1>6

\* A step that leaves the carts alone and answers OK to nobody.
LEMMA ToldKept ==
  ASSUME TypeOK, Order, Order', UNCHANGED <<req, called>>, NEW r \in Requests, called[r],
         known'[r] = known[r],
         \A s \in Requests : status[s] \in {"200", "404"} => status'[s] = status[s], NEW u
  PROVE  Told(known[r], u)' = Told(known[r], u)
  <1>1. \A s \in known[r] : s \in Requests /\ status'[s] = status[s]
    BY DEF Order, TypeOK
  <1> QED
    BY <1>1 DEF Told, Sent

LEMMA QuietCounts ==
  ASSUME TypeOK, TypeOK', Order, Order', CountInv, UNCHANGED <<contents, req, called, wrote>>,
         \A r \in Requests : called[r] => known'[r] = known[r],
         \A r \in Requests : status[r] \in {"200", "404"} => status'[r] = status[r],
         \A r \in Requests : answer'[r] = "OK" => answer[r] = "OK" /\ view'[r] = view[r]
  PROVE  CountInv'
  <1>1. \A u : /\ Sent(u)' = Sent(u) /\ Done(u)' = Done(u)
               /\ OnlyAdded(u)' <=> OnlyAdded(u)
    BY DEF Sent, Done, OnlyAdded
  <1>2. FinitelyMany' /\ WritesBounded'
    BY DEF CountInv, FinitelyMany, WritesBounded, CartService!NumWrites
  <1>3. Counted'
    BY <1>1 DEF CountInv, Counted
  <1>4. ASSUME NEW u \in Users, OnlyAdded(u)', NEW r \in Sent(u)', NEW p \in Products,
               answer'[r] = "OK"
        PROVE  /\ AddedBy(req, Told(known[r], u), p)' <= view'[r][p]
               /\ view'[r][p] <= AddedBy(req, Sent(u), p)'
    <2>1. r \in Requests /\ called[r] /\ r \in Sent(u) /\ OnlyAdded(u)
      BY <1>1, <1>4 DEF Sent
    <2>2. Told(known[r], u)' = Told(known[r], u)
      BY <2>1, ToldKept
    <2>3. /\ AddedBy(req, Told(known[r], u), p)' = AddedBy(req, Told(known[r], u), p)
          /\ AddedBy(req, Sent(u), p)' = AddedBy(req, Sent(u), p)
      BY <1>1, <2>2
    <2> QED
      BY <1>4, <2>1, <2>3 DEF CountInv, ViewsBounded
  <1> QED
    BY <1>2, <1>3, <1>4 DEF CountInv, ViewsBounded

LEMMA ArrivalCounts ==
  ASSUME TypeOK, TypeOK', Order, Order', CountInv, NEW x \in Requests, Arrive(x)
  PROVE  CountInv'
  <1>0. req[x].user \in Users
    BY Shape DEF TypeOK
  <1>1. /\ ~called[x] /\ called' = [called EXCEPT ![x] = TRUE] /\ wrote[x] = 0
        /\ UNCHANGED <<contents, req, wrote, answer, view, status, known>>
        /\ answer[x] = "none"
    BY <1>0 DEF Arrive, CartService!Call, calling, Order
  <1>2. FinitelyMany'
    <2> DEFINE D == { r \in Requests : called[r] }
    <2>1. { r \in Requests : called'[r] } = D \cup {x}
      BY <1>1 DEF TypeOK
    <2>2. IsFiniteSet(D)
      BY DEF CountInv, FinitelyMany
    <2> HIDE DEF D
    <2>3. IsFiniteSet(D \cup {x})
      BY <2>2, FS_AddElement
    <2> QED
      BY <2>1, <2>3 DEF FinitelyMany
  <1>3. WritesBounded'
    BY <1>1 DEF CountInv, WritesBounded, CartService!NumWrites
  <1>4. \A u : /\ Sent(u) \in SUBSET Sent(u)' /\ Done(u)' = Done(u)
               /\ OnlyAdded(u)' => OnlyAdded(u)
               /\ Sent(u)' \in SUBSET (Sent(u) \cup {x})
    BY <1>1 DEF Sent, Done, OnlyAdded, TypeOK
  <1>5. Counted'
    BY <1>1, <1>4 DEF CountInv, Counted
  <1>6. ASSUME NEW u \in Users, OnlyAdded(u)', NEW r \in Sent(u)', NEW p \in Products,
               answer'[r] = "OK"
        PROVE  /\ AddedBy(req, Told(known[r], u), p)' <= view'[r][p]
               /\ view'[r][p] <= AddedBy(req, Sent(u), p)'
    <2>1. r \in Sent(u) /\ OnlyAdded(u) /\ r \in Requests
      BY <1>1, <1>4, <1>6 DEF Sent
    <2>2. Told(known[r], u)' = Told(known[r], u)
      <3>1. status[x] # "200"
        BY <1>1 DEF Order
      <3> QED
        BY <1>1, <1>4, <3>1 DEF Told
    <2>3. AddedBy(req, Told(known[r], u), p)' = AddedBy(req, Told(known[r], u), p)
      BY <1>1, <2>2
    <2>4. IsFiniteSet(Sent(u)') /\ Sent(u)' \in SUBSET Requests /\ req \in [Requests -> Inputs]
      <3>1. IsFiniteSet(Sent(u)) /\ Sent(u) \in SUBSET Requests
        BY SentFinite DEF CountInv
      <3>2. IsFiniteSet(Sent(u) \cup {x})
        BY <3>1, FS_AddElement
      <3>3. Sent(u)' \in SUBSET Requests
        BY DEF Sent
      <3>4. IsFiniteSet(Sent(u)')
        BY <1>4, <3>2, FS_Subset
      <3> QED
        BY <3>3, <3>4 DEF TypeOK
    <2>5. AddedBy(req, Sent(u), p)' = AddedBy(req, Sent(u)', p)
      BY <1>1
    <2>6. AddedBy(req, Sent(u), p) <= AddedBy(req, Sent(u)', p)
          /\ AddedBy(req, Sent(u), p) \in Nat /\ AddedBy(req, Sent(u)', p) \in Nat
      <3> DEFINE T == Sent(u)'
      <3>1. IsFiniteSet(T) /\ T \in SUBSET Requests /\ Sent(u) \in SUBSET T
        BY <1>4, <2>4
      <3> HIDE DEF T
      <3>2. AddedBy(req, Sent(u), p) <= AddedBy(req, T, p)
            /\ AddedBy(req, Sent(u), p) \in Nat /\ AddedBy(req, T, p) \in Nat
        BY <2>4, <3>1, MoreAdd
      <3> QED
        BY <3>2 DEF T
    <2>7. view'[r][p] \in Int
      BY <2>1 DEF TypeOK, Carts
    <2>8. /\ AddedBy(req, Told(known[r], u), p) <= view[r][p]
          /\ view[r][p] <= AddedBy(req, Sent(u), p)
      BY <1>1, <1>6, <2>1 DEF CountInv, ViewsBounded
    <2> QED
      BY <1>1, <2>3, <2>5, <2>6, <2>7, <2>8
  <1> QED
    BY <1>2, <1>3, <1>5, <1>6 DEF CountInv, ViewsBounded

LEMMA SuccessCounts ==
  ASSUME TypeOK, TypeOK', Order, Order', CountInv, NEW x \in Requests,
         CartService!Succeed(x), UNCHANGED calling
  PROVE  CountInv'
  <1>1. /\ UNCHANGED <<contents, req, called, wrote, status, known>>
        /\ view' = [view EXCEPT ![x] = contents[req[x].user]]
        /\ answer' = [answer EXCEPT ![x] = "OK"]
    BY DEF CartService!Succeed, calling
  <1>2. \A u : /\ Sent(u)' = Sent(u) /\ Done(u)' = Done(u)
               /\ OnlyAdded(u)' <=> OnlyAdded(u)
               /\ \A S : Told(S, u)' = Told(S, u)
    BY <1>1 DEF Sent, Done, OnlyAdded, Told
  <1>3. FinitelyMany' /\ WritesBounded' /\ Counted'
    BY <1>1, <1>2
       DEF CountInv, FinitelyMany, WritesBounded, Counted, CartService!NumWrites
  <1>4. ASSUME NEW u \in Users, OnlyAdded(u)', NEW r \in Sent(u)', NEW p \in Products,
               answer'[r] = "OK"
        PROVE  /\ AddedBy(req, Told(known[r], u), p)' <= view'[r][p]
               /\ view'[r][p] <= AddedBy(req, Sent(u), p)'
    <2>1. r \in Sent(u) /\ OnlyAdded(u) /\ r \in Requests /\ req[r].user = u
      BY <1>2, <1>4 DEF Sent
    <2>2. /\ AddedBy(req, Told(known[r], u), p)' = AddedBy(req, Told(known[r], u), p)
          /\ AddedBy(req, Sent(u), p)' = AddedBy(req, Sent(u), p)
      BY <1>1, <1>2
    <2>3. CASE r = x
      <3>1. view'[r][p] = contents[u][p]
        BY <1>1, <2>1, <2>3 DEF TypeOK
      <3> QED
        BY <2>1, <2>2, <3>1, KnownAdded
    <2>4. CASE r # x
      <3>1. view'[r][p] = view[r][p] /\ answer[r] = "OK"
        BY <1>1, <1>4, <2>1, <2>4 DEF TypeOK
      <3> QED
        BY <2>1, <2>2, <3>1 DEF CountInv, ViewsBounded
    <2> QED
      BY <2>3, <2>4
  <1> QED
    BY <1>3, <1>4 DEF CountInv, ViewsBounded

\* The one write of an AddItem.
LEMMA AddWrite ==
  ASSUME TypeOK, NEW x \in Requests, CartService!TakeEffect(x), req[x].op \notin Idempotent
  PROVE  /\ req[x].op = "AddItem" /\ req[x].user \in Users /\ called[x] /\ wrote[x] = 0
         /\ CartService!NumWrites(x) = 1
         /\ UNCHANGED <<req, called, answer, view>>
         /\ wrote' = [wrote EXCEPT ![x] = 1]
         /\ \A u \in Users, p \in Products :
              contents'[u][p] =
                contents[u][p] + (IF u = req[x].user /\ req[x].items[1].product = p
                                  THEN req[x].items[1].quantity ELSE 0)
  <1> DEFINE v == req[x].user
             i == req[x].items[1]
  <1>1. /\ req[x] \in Inputs /\ wrote[x] \in Nat /\ v \in Users
        /\ contents \in [Users -> Carts]
    BY Shape DEF TypeOK
  <1>2. /\ wrote[x] < CartService!NumWrites(x) /\ called[x]
        /\ wrote' = [wrote EXCEPT ![x] = @ + 1]
        /\ UNCHANGED <<req, called, answer, view>>
    BY DEF CartService!TakeEffect
  <1>3. PICK after \in Carts : CartService!Change(x, contents[v], after)
                               /\ contents' = [contents EXCEPT ![v] = after]
    BY DEF CartService!TakeEffect, Carts
  <1>4. CartService!NumWrites(x) = Len(req[x].items)
    BY DEF CartService!NumWrites, Idempotent
  <1>5. req[x].op = "AddItem"
    <2>1. req[x].op # "GetOrCreateCart"
      BY <1>1, <1>2, <1>4, Shape
    <2> QED
      BY <1>1, <2>1, Shape
  <1>6. Len(req[x].items) = 1 /\ i.product \in Products /\ i.quantity \in Nat
    BY <1>1, <1>5, Shape
  <1>7. wrote[x] = 0 /\ req[x].items[wrote[x] + 1] = i
    <2>1. wrote[x] = 0
      BY <1>1, <1>2, <1>4, <1>6
    <2> QED
      BY <2>1
  <1> HIDE DEF i
  <1>8. after = [contents[v] EXCEPT ![i.product] = contents[v][i.product] + i.quantity]
    BY <1>3, <1>5, <1>7 DEF CartService!Change
  <1>9. ASSUME NEW u \in Users, NEW p \in Products
        PROVE  contents'[u][p] =
                 contents[u][p] + (IF u = v /\ i.product = p THEN i.quantity ELSE 0)
    <2>1. contents[u][p] \in Int
      BY <1>1 DEF Carts
    <2>2. CASE u = v
      <3>1. contents'[u][p] = after[p]
        BY <1>1, <1>3, <2>2
      <3> QED
        BY <1>1, <1>6, <1>8, <2>1, <2>2, <3>1 DEF Carts
    <2>3. CASE u # v
      BY <1>1, <1>3, <2>1, <2>3
    <2> QED
      BY <2>2, <2>3
  <1>10. wrote' = [wrote EXCEPT ![x] = 1]
    BY <1>2, <1>7
  <1> QED
    BY <1>1, <1>2, <1>4, <1>5, <1>6, <1>7, <1>9, <1>10 DEF i

\* A write into a cart leaves the others alone.
LEMMA OtherCarts ==
  ASSUME TypeOK, NEW x \in Requests, CartService!TakeEffect(x)
  PROVE  /\ UNCHANGED <<req, called, answer, view>>
         /\ \A u \in Users : u # req[x].user => contents'[u] = contents[u]
         /\ \A r \in Requests : r # x => wrote'[r] = wrote[r]
         /\ wrote[x] < CartService!NumWrites(x) /\ wrote'[x] = wrote[x] + 1
         /\ req[x].user \in Users /\ called[x]
  <1>1. req[x].user \in Users
    BY Shape DEF TypeOK
  <1> QED
    BY <1>1, Write DEF CartService!TakeEffect, TypeOK

LEMMA WriteCounts ==
  ASSUME TypeOK, TypeOK', Order, Order', CountInv, NEW x \in Requests,
         CartService!TakeEffect(x), UNCHANGED calling
  PROVE  CountInv'
  <1>1. /\ UNCHANGED <<req, called, answer, view, status, known>>
        /\ \A u \in Users : u # req[x].user => contents'[u] = contents[u]
        /\ \A r \in Requests : r # x => wrote'[r] = wrote[r]
        /\ wrote[x] < CartService!NumWrites(x) /\ wrote'[x] = wrote[x] + 1
        /\ req[x].user \in Users /\ called[x]
    BY OtherCarts DEF calling
  <1>2. \A u : /\ Sent(u)' = Sent(u) /\ (OnlyAdded(u)' <=> OnlyAdded(u))
               /\ \A S : Told(S, u)' = Told(S, u)
    BY <1>1 DEF Sent, OnlyAdded, Told
  <1>3. FinitelyMany' /\ ViewsBounded'
    BY <1>1, <1>2 DEF CountInv, FinitelyMany, ViewsBounded
  <1>4. WritesBounded'
    <2>1. wrote[x] \in Nat /\ req[x] \in Inputs
      BY DEF TypeOK
    <2>2. CartService!NumWrites(x) = 1
      <3>1. CASE req[x].op = "ClearCart"
        BY <3>1 DEF CartService!NumWrites
      <3>2. CASE req[x].op # "ClearCart"
        <4>1. wrote[x] < Len(req[x].items)
          BY <1>1, <3>2 DEF CartService!NumWrites
        <4>2. req[x].op # "GetOrCreateCart"
          BY <2>1, <4>1, Shape
        <4> QED
          BY <2>1, <3>2, <4>2, Shape DEF CartService!NumWrites, Idempotent
      <3> QED
        BY <3>1, <3>2
    <2>3. wrote'[x] <= CartService!NumWrites(x)
      BY <1>1, <2>1, <2>2
    <2> QED
      BY <1>1, <2>3 DEF CountInv, WritesBounded, CartService!NumWrites
  <1>5. ASSUME NEW u \in Users, OnlyAdded(u)', NEW p \in Products
        PROVE  contents'[u][p] = AddedBy(req, Done(u), p)'
    <2>1. OnlyAdded(u) /\ contents[u][p] = AddedBy(req, Done(u), p)
      BY <1>2, <1>5 DEF CountInv, Counted
    <2>2. CASE u # req[x].user
      <3>1. Done(u)' = Done(u) /\ contents'[u] = contents[u]
        BY <1>1, <1>2, <2>2 DEF Done, Sent
      <3> QED
        BY <1>1, <2>1, <3>1
    <2>3. CASE u = req[x].user
      <3>1. x \in Sent(u) /\ req[x].op \notin Idempotent
        BY <1>1, <2>1, <2>3 DEF Sent, OnlyAdded
      <3>2. /\ req[x].op = "AddItem" /\ wrote[x] = 0 /\ wrote'[x] = 1
            /\ contents'[u][p] =
                 contents[u][p] + (IF req[x].items[1].product = p
                                   THEN req[x].items[1].quantity ELSE 0)
        BY <1>1, <2>3, <3>1, AddWrite
      <3>3. x \notin Done(u) /\ Done(u)' = Done(u) \cup {x}
        BY <1>1, <1>2, <3>1, <3>2 DEF Done, Sent
      <3>4. /\ Done(u) \in SUBSET Requests /\ IsFiniteSet(Done(u))
            /\ req \in [Requests -> Inputs]
        BY SentFinite DEF CountInv, TypeOK
      <3>5. AddedBy(req, Done(u) \cup {x}, p) =
              AddedBy(req, Done(u), p) + (IF req[x].items[1].product = p
                                          THEN req[x].items[1].quantity ELSE 0)
        BY <3>2, <3>3, <3>4, OneMoreAdds
      <3>6. AddedBy(req, Done(u), p)' = AddedBy(req, Done(u) \cup {x}, p)
        BY <1>1, <3>3
      <3> QED
        BY <2>1, <3>2, <3>5, <3>6
    <2> QED
      BY <2>2, <2>3
  <1> QED
    BY <1>3, <1>4, <1>5 DEF CountInv, Counted

LEMMA CountStep == IInv /\ CountInv /\ [Next]_vars => CountInv'
  <1> SUFFICES ASSUME IInv, CountInv, [Next]_vars PROVE CountInv'
    OBVIOUS
  <1>0. TypeOK /\ TypeOK' /\ Order /\ Order'
    BY TypeStep, OrderStep DEF IInv
  <1>1. ASSUME NEW x \in Requests, Send(x) PROVE CountInv'
    <2>1. /\ status[x] = "none" /\ UNCHANGED <<contents, req, called, wrote, answer, view>>
          /\ status' = [status EXCEPT ![x] = "waiting"]
          /\ \A r \in Requests : r # x => known'[r] = known[r]
      BY <1>0, <1>1 DEF Send, cart, TypeOK
    <2>2. ~called[x]
      BY <1>0, <2>1 DEF Order
    <2>3. \A r \in Requests : r # x => status'[r] = status[r]
      BY <2>1
    <2> QED
      BY <1>0, <2>1, <2>2, <2>3, QuietCounts
  <1>2. ASSUME NEW x \in Requests, Reply(x) \/ Timeout(x) PROVE CountInv'
    <2>1. /\ status[x] = "waiting" /\ UNCHANGED <<cart, known>>
          /\ \E s : status' = [status EXCEPT ![x] = s]
      BY <1>2 DEF Reply, Timeout
    <2>2. \A r \in Requests : r # x => status'[r] = status[r]
      BY <2>1
    <2>3. UNCHANGED <<contents, req, called, wrote, answer, view, known>>
      BY <2>1 DEF cart
    <2> QED
      BY <1>0, <2>1, <2>2, <2>3, QuietCounts
  <1>3. ASSUME NEW x \in Requests, Arrive(x) PROVE CountInv'
    BY <1>0, <1>3, ArrivalCounts
  <1>4. ASSUME NEW x \in Requests, CartService!TakeEffect(x), UNCHANGED calling PROVE CountInv'
    BY <1>0, <1>4, WriteCounts
  <1>5. ASSUME NEW x \in Requests, CartService!Succeed(x), UNCHANGED calling PROVE CountInv'
    BY <1>0, <1>5, SuccessCounts
  <1>6. ASSUME NEW x \in Requests, NEW c \in {"NotFound", "Internal", "Unknown"},
               CartService!Fail(x, c), UNCHANGED calling
        PROVE  CountInv'
    <2>1. /\ UNCHANGED <<contents, req, called, wrote, view, status, known>>
          /\ \A r \in Requests : answer'[r] = "OK" => answer[r] = "OK"
      BY <1>6 DEF CartService!Fail, calling
    <2> QED
      BY <1>0, <2>1, QuietCounts
  <1>7. CASE UNCHANGED <<cart, calling>>
    <2>1. UNCHANGED <<contents, req, called, wrote, answer, view, status, known>>
      BY <1>7 DEF cart, calling
    <2> QED
      BY <1>0, <2>1, QuietCounts
  <1> QED
    BY <1>1, <1>2, <1>3, <1>4, <1>5, <1>6, <1>7
    DEF Next, Gate, Api, Work, Publish, Lookup, LookupFails, Quote, CartFails, vars

\* An AddItem may be added once more when it is sent again, and nothing else
\* happens to it: no cart that is only added to loses what is known to be in it
\* or gains what nobody sent, and every cart and quote that is shown says so.
THEOREM AddingIsCounted == Spec => []AddsCounted
  <1>1. Init => CountInv
    <2> SUFFICES ASSUME Init PROVE CountInv
      OBVIOUS
    <2>1. { r \in Requests : called[r] } = {} /\ \A u : Sent(u) = {} /\ Done(u) = {}
      BY DEF Init, CartService!Init, Sent, Done
    <2>2. FinitelyMany
      BY <2>1, FS_EmptySet DEF FinitelyMany
    <2>3. WritesBounded
      <3> SUFFICES ASSUME NEW r \in Requests PROVE 0 <= CartService!NumWrites(r)
        BY DEF Init, CartService!Init, WritesBounded
      <3>1. req[r] \in Inputs
        BY DEF Init, CartService!Init
      <3>2. req[r].op # "ClearCart" => Len(req[r].items) \in {0, 1}
        BY <3>1, Shape DEF Idempotent
      <3> QED
        BY <3>2 DEF CartService!NumWrites
    <2>4. Counted
      <3> SUFFICES ASSUME NEW u \in Users, NEW p \in Products
                   PROVE  contents[u][p] = AddedBy(req, {}, p)
        BY <2>1 DEF Counted
      <3>1. AddersIn(req, {}, p) = {}
        BY DEF AddersIn
      <3>2. AddedBy(req, {}, p) = 0
        BY <3>1, SumEmpty DEF AddedBy
      <3> QED
        BY <3>2 DEF Init, CartService!Init, CartService!Empty
    <2>5. ViewsBounded
      BY <2>1 DEF ViewsBounded
    <2> QED
      BY <2>2, <2>3, <2>4, <2>5 DEF CountInv
  <1>2. IInv /\ CountInv => AddsCounted
    <2> SUFFICES ASSUME IInv, CountInv, NEW u \in Users, OnlyAdded(u), NEW p \in Products
                 PROVE  /\ Added(Told(Requests, u), p) <= contents[u][p]
                        /\ contents[u][p] <= Added(Sent(u), p)
                        /\ \A r \in Sent(u) : answer[r] = "OK" =>
                             /\ Added(Told(known[r], u), p) <= view[r][p]
                             /\ view[r][p] <= Added(Sent(u), p)
      BY DEF AddsCounted
    <2>1. TypeOK /\ Order
      BY DEF IInv
    <2>2. Added(Sent(u), p) = AddedBy(req, Sent(u), p)
      BY <2>1, SentFinite, AddedIsSum DEF CountInv
    <2>3. ASSUME NEW S PROVE Added(Told(S, u), p) = AddedBy(req, Told(S, u), p)
      <3> DEFINE T == Told(S, u)
      <3>1. T \in SUBSET Requests /\ IsFiniteSet(T)
        BY SentFinite DEF CountInv
      <3> HIDE DEF T
      <3>2. Added(T, p) = AddedBy(req, T, p)
        BY <2>1, <3>1, AddedIsSum
      <3> QED
        BY <3>2 DEF T
    <2>4. /\ AddedBy(req, Told(Requests, u), p) <= contents[u][p]
          /\ contents[u][p] <= AddedBy(req, Sent(u), p)
      BY <2>1, KnownAdded
    <2> QED
      BY <2>2, <2>3, <2>4 DEF CountInv, ViewsBounded
  <1>3. CountInv /\ IInv /\ [Next]_vars => CountInv'
    BY CountStep
  <1> QED
    BY <1>1, <1>2, <1>3, Invariant, PTL DEF Spec
=============================================================================
