----------------------------- MODULE CartProofs -----------------------------
(***************************************************************************)
(* Proofs about the cart service, for any number of users, products, cart  *)
(* ids and requests, any inputs and any MaxQty.                            *)
(***************************************************************************)
EXTENDS Cart, SumProofs, TLAPS

\* The partial unique index, as an invariant of the table.
OneActive ==
  \A c, d \in CartIds : carts[c] # NoUser /\ carts[c] = carts[d] => c = d

\* Items belong to carts: ON DELETE CASCADE never leaves any behind.
NoStrayItems == \A c \in CartIds : carts[c] = NoUser => items[c] = NoRows

\* A learned cart id is the id of the cart of the request's user.
Learned ==
  \A r \in Requests : cart[r] # NoCart => carts[cart[r]] = req[r].user

HasCart(r) == \E c \in CartIds : carts[c] = req[r].user

\* What a handler has done, and learned, by the time it is at a statement.
At(r) ==
  /\ pc[r] = "idle" =>
       cart[r] = NoCart /\ wrote[r] = 0 /\ stage[r] = "first"
  /\ pc[r] = "create" =>
       /\ cart[r] = NoCart /\ wrote[r] = 0 /\ stage[r] = "first"
       /\ req[r].user # Malformed
       /\ req[r].op \in {"GetOrCreateCart", "AddItem", "CreateCart"}
  /\ pc[r] \in {"find", "list"} =>
       IF stage[r] = "last"
         THEN cart[r] # NoCart /\ wrote[r] = Writes(req[r])
         ELSE wrote[r] = 0 /\ req[r].op # "CreateCart" /\ (pc[r] = "find" => cart[r] = NoCart)
  /\ pc[r] = "find" /\ stage[r] = "retry" => HasCart(r)
  /\ pc[r] = "list" => cart[r] # NoCart
  /\ pc[r] = "write" =>
       cart[r] # NoCart /\ wrote[r] < Writes(req[r]) /\ stage[r] # "last"

\* An interrupted request's caller learns nothing, and a statement is left
\* behind only by those.
Left(r) ==
  /\ (pc[r] = "done") <=> (answer[r] # "none")
  /\ orphan[r] # "none" => answer[r] = "Unknown"
  /\ orphan[r] = "create" => req[r].user # Malformed
  /\ orphan[r] = "write" => cart[r] # NoCart /\ wrote[r] < Writes(req[r])

Control == \A r \in Requests : At(r) /\ Left(r)

IInv ==
  /\ TypeOK
  /\ OneActive
  /\ NoStrayItems
  /\ Learned
  /\ Control
  /\ GetOrCreateConverges
-----------------------------------------------------------------------------
(* Facts about the operators of Cart.                                      *)

\* What a request carries, field by field, and how many writes that makes.
LEMMA RequestFields ==
  ASSUME NEW q \in Inputs
  PROVE  /\ q.op \in Ops
         /\ q.user \in Users \cup {Malformed}
         /\ q.items \in Seq(Item)
         /\ Writes(q) \in Nat
         /\ q.op \in {"GetCart", "GetOrCreateCart"} => Writes(q) = 0
         /\ q.op \in {"AddItem", "SetItemQuantity", "RemoveItem", "ClearCart"} => Writes(q) = 1
         /\ q.op # "ClearCart" => Writes(q) = Len(q.items)
  <1>1. q \in Request
    BY InputAssumption
  <1>2. q.items \in Seq(Item) /\ q.op \in Ops /\ q.user \in Users \cup {Malformed}
    BY <1>1 DEF Request
  <1>3. Len(q.items) \in Nat
    BY <1>2
  <1>4. q.op \in {"GetCart", "GetOrCreateCart"} => Len(q.items) = 0
    BY <1>1 DEF Request
  <1>5. q.op \in {"AddItem", "SetItemQuantity", "RemoveItem"} => Len(q.items) = 1
    BY <1>1 DEF Request
  <1> QED
    BY <1>2, <1>3, <1>4, <1>5 DEF Writes

\* The item of the next write is an item.
LEMMA NextItemType ==
  ASSUME TypeOK, NEW r \in Requests, wrote[r] < Writes(req[r]), req[r].op # "ClearCart"
  PROVE  /\ NextItem(r).product \in Products \cup {Malformed}
         /\ NextItem(r).quantity \in -MaxQty - 1 .. MaxQty
  <1>1. req[r] \in Inputs /\ wrote[r] \in Nat
    BY DEF TypeOK
  <1>2. req[r].items \in Seq(Item) /\ wrote[r] < Len(req[r].items)
    BY <1>1, RequestFields
  <1>3. NextItem(r) \in Item
    BY <1>1, <1>2 DEF NextItem
  <1> QED
    BY <1>3 DEF Item

\* A user with a row in carts: rows inserted later do not take it away, and
\* its index lets no second one in.
LEMMA InsertKeepsRows ==
  ASSUME TypeOK, OneActive, NoStrayItems, NEW u \in Users, NEW c \in CartIds,
         InsertCart(u, c)
  PROVE  /\ carts' \in [CartIds -> Users \cup {NoUser}]
         /\ OneActive'
         /\ carts'[c] = u /\ carts[c] = NoUser
         /\ \A d \in CartIds : carts[d] # NoUser => carts'[d] = carts[d]
  <1> USE SentinelAssumption DEF TypeOK, InsertCart
  <1>1. \A d \in CartIds : carts[d] # u
    BY DEF ActiveCarts
  <1>2. OneActive'
    BY <1>1 DEF OneActive
  <1> QED
    BY <1>2

\* Every row write keeps the rows in their range and touches only the cart it
\* is for.
LEMMA EffectType ==
  ASSUME TypeOK, NEW r \in Requests, cart[r] # NoCart, wrote[r] < Writes(req[r]), Effect(r)
  PROVE  /\ items' \in [CartIds -> Rows]
         /\ \A c \in CartIds : c # cart[r] => items'[c] = items[c]
         /\ wrote' = [wrote EXCEPT ![r] = @ + 1]
  <1> DEFINE i == NextItem(r)
  <1>1. cart[r] \in CartIds /\ items[cart[r]] \in Rows /\ items \in [CartIds -> Rows]
    BY DEF TypeOK
  <1>2. CASE req[r].op = "ClearCart"
    <2>1. items' = [items EXCEPT ![cart[r]] = NoRows]
      BY <1>2 DEF Effect, DeleteAllItems
    <2>2. NoRows \in Rows
      BY MaxQtyAssumption DEF NoRows, Rows
    <2> QED
      BY <1>1, <2>1, <2>2 DEF Effect
  <1>3. CASE req[r].op # "ClearCart"
    <2>1. i.quantity \in Int
      BY <1>3, NextItemType, MaxQtyAssumption
    <2>2. \E n \in 0 .. MaxQty :
            i.product \in Products /\ items' = [items EXCEPT ![cart[r]][i.product] = n]
      <3>1. CASE req[r].op \in {"AddItem", "CreateCart"}
        <4>1. /\ i.product \in Products
              /\ i.quantity > 0
              /\ items[cart[r]][i.product] + i.quantity <= MaxQty
              /\ items' = [items EXCEPT ![cart[r]][i.product] =
                                        items[cart[r]][i.product] + i.quantity]
          BY <3>1, <1>1 DEF Effect, UpsertAccepts, UpsertAddItemIncrement, Rows
        <4>2. items[cart[r]][i.product] \in 0 .. MaxQty
          BY <4>1, <1>1 DEF Rows
        <4>3. items[cart[r]][i.product] + i.quantity \in 0 .. MaxQty
          BY <4>1, <4>2, <2>1, MaxQtyAssumption
        <4> QED
          BY <4>1, <4>3
      <3>2. CASE req[r].op = "SetItemQuantity"
        <4>1. /\ i.product \in Products
              /\ i.quantity > 0
              /\ items' = [items EXCEPT ![cart[r]][i.product] = i.quantity]
          BY <3>2 DEF Effect, UpdateAccepts, UpdateQuantity
        <4>2. i.quantity \in 0 .. MaxQty
          BY <4>1, <1>3, NextItemType, MaxQtyAssumption
        <4> QED
          BY <4>1, <4>2
      <3>3. CASE req[r].op = "RemoveItem"
        <4>1. i.product \in Products /\ items' = [items EXCEPT ![cart[r]][i.product] = 0]
          BY <3>3 DEF Effect, DeleteItem
        <4>2. 0 \in 0 .. MaxQty
          BY MaxQtyAssumption
        <4> QED
          BY <4>1, <4>2
      <3> QED
        BY <3>1, <3>2, <3>3, <1>3 DEF Effect
    <2>3. PICK n \in 0 .. MaxQty :
            i.product \in Products /\ items' = [items EXCEPT ![cart[r]][i.product] = n]
      BY <2>2
    <2>4. [items[cart[r]] EXCEPT ![i.product] = n] \in Rows
      BY <1>1, <2>3 DEF Rows
    <2>5. items' = [items EXCEPT ![cart[r]] = [items[cart[r]] EXCEPT ![i.product] = n]]
      BY <2>3
    <2> HIDE DEF i
    <2> QED
      BY <1>1, <2>4, <2>5 DEF Effect
  <1> QED
    BY <1>2, <1>3
-----------------------------------------------------------------------------
(* The inductive invariant.                                                *)

LEMMA InitIInv == Init => IInv
  <1> SUFFICES ASSUME Init PROVE IInv
    OBVIOUS
  <1> USE SentinelAssumption, MaxQtyAssumption DEF Init
  <1>1. NoRows \in Rows
    BY DEF NoRows, Rows
  <1>2. TypeOK
    BY <1>1 DEF TypeOK
  <1>3. OneActive /\ NoStrayItems /\ Learned
    BY DEF OneActive, NoStrayItems, Learned
  <1>4. Control
    BY DEF Control, At, Left
  <1>5. GetOrCreateConverges
    BY DEF GetOrCreateConverges
  <1> QED
    BY <1>2, <1>3, <1>4, <1>5 DEF IInv

\* GetOrCreateConverges, of one request.
Converges(r) ==
  answer[r] \in {"NotFound", "Internal"} /\ req[r].user # Malformed =>
    /\ GetsOrCreates(r) => cart[r] # NoCart
    /\ stage[r] # "last"

\* A step of another request, as s sees it.
Unmoved(s) ==
  /\ pc'[s] = pc[s] /\ stage'[s] = stage[s] /\ cart'[s] = cart[s]
  /\ wrote'[s] = wrote[s] /\ orphan'[s] = orphan[s] /\ answer'[s] = answer[s]

\* No statement deletes from carts or changes an owner.
CartsKept == \A c \in CartIds : carts[c] # NoUser => carts'[c] = carts[c]

\* What is left to show of a step of request r: what it does to the tables and
\* to r itself.
LEMMA StepOf ==
  ASSUME IInv, NEW r \in Requests, req' = req,
         TypeOK', OneActive', NoStrayItems', CartsKept,
         \A s \in Requests : s # r => Unmoved(s),
         cart'[r] # NoCart => carts'[cart'[r]] = req[r].user,
         At(r)', Left(r)', Converges(r)'
  PROVE  IInv'
  <1> USE DEF IInv
  <1>1. \A s \in Requests : HasCart(s) /\ req[s].user # NoUser => HasCart(s)'
    BY DEF HasCart, CartsKept
  <1>2. \A s \in Requests : req[s].user \in Users \cup {Malformed} /\ req[s].user # NoUser
    BY RequestFields, SentinelAssumption DEF TypeOK
  <1>3. Learned'
    <2> SUFFICES ASSUME NEW s \in Requests, s # r, cart'[s] # NoCart
                 PROVE  carts'[cart'[s]] = req'[s].user
      BY DEF Learned
    <2>1. cart'[s] = cart[s] /\ cart[s] \in CartIds /\ carts[cart[s]] = req[s].user
      BY DEF Unmoved, Learned, TypeOK
    <2> QED
      BY <2>1, <1>2 DEF CartsKept
  <1>4. ASSUME NEW s \in Requests, s # r
        PROVE  At(s)' /\ Left(s)'
    <2>1. Unmoved(s) /\ At(s) /\ Left(s)
      BY <1>4 DEF Control
    <2> QED
      BY <2>1, <1>1, <1>2 DEF At, Left, Unmoved
  <1>5. Control'
    BY <1>4 DEF Control
  <1>6. ASSUME NEW s \in Requests, s # r
        PROVE  Converges(s)'
    BY <1>6 DEF Converges, GetOrCreateConverges, GetsOrCreates, Unmoved
  <1>7. GetOrCreateConverges'
    BY <1>6 DEF Converges, GetOrCreateConverges, GetsOrCreates
  <1> QED
    BY <1>3, <1>5, <1>7

\* A step that leaves the tables alone.
LEMMA TablesKept ==
  ASSUME IInv, UNCHANGED tables
  PROVE  OneActive' /\ NoStrayItems' /\ CartsKept
  BY DEF IInv, tables, OneActive, NoStrayItems, CartsKept

LEMMA StartStep ==
  ASSUME IInv, NEW r \in Requests, Start(r)
  PROVE  IInv'
  <1> USE DEF IInv, Start, Finish
  <1>1. At(r) /\ Left(r) /\ req' = req /\ UNCHANGED tables
    BY DEF Control
  <1>2. TypeOK'
    BY DEF TypeOK, tables
  <1>3. \A s \in Requests : s # r => Unmoved(s)
    BY DEF TypeOK, Unmoved
  <1>4. At(r)'
    BY <1>1 DEF At, TypeOK
  <1>5. Left(r)'
    BY <1>1 DEF At, Left, TypeOK
  <1>6. Converges(r)'
    BY <1>1 DEF At, Left, Converges, TypeOK
  <1>7. cart'[r] # NoCart => carts'[cart'[r]] = req[r].user
    BY <1>1 DEF At
  <1> QED
    BY <1>1, <1>2, <1>3, <1>4, <1>5, <1>6, <1>7, TablesKept, StepOf
LEMMA FindCartStep ==
  ASSUME IInv, NEW r \in Requests, FindCart(r)
  PROVE  IInv'
  <1> USE DEF IInv, FindCart, Finish, ReadBack
  <1>1. At(r) /\ Left(r) /\ req' = req /\ UNCHANGED tables
    BY DEF Control, tables
  <1>2. TypeOK'
    BY DEF TypeOK, tables, ActiveCarts
  <1>3. \A s \in Requests : s # r => Unmoved(s)
    BY DEF TypeOK, Unmoved
  <1>4. At(r)'
    BY <1>1, SentinelAssumption DEF At, TypeOK, ActiveCarts
  <1>5. Left(r)'
    BY <1>1 DEF At, Left, TypeOK
  <1>6. Converges(r)'
    BY <1>1 DEF At, Left, Converges, GetsOrCreates, TypeOK
  <1>7. cart'[r] # NoCart => carts'[cart'[r]] = req[r].user
    BY <1>1 DEF Learned, TypeOK, tables, ActiveCarts
  <1> QED
    BY <1>1, <1>2, <1>3, <1>4, <1>5, <1>6, <1>7, TablesKept, StepOf

LEMMA FindNothingStep ==
  ASSUME IInv, NEW r \in Requests, FindNothing(r)
  PROVE  IInv'
  <1> USE DEF IInv, FindNothing, Finish, ReadBack
  <1>1. At(r) /\ Left(r) /\ req' = req /\ UNCHANGED tables
    BY DEF Control, tables
  <1>2. TypeOK'
    BY DEF TypeOK, tables
  <1>3. \A s \in Requests : s # r => Unmoved(s)
    BY DEF TypeOK, Unmoved
  <1>4. req[r].user # Malformed => stage[r] = "first"
    <2>1. ~HasCart(r)
      BY DEF HasCart, ActiveCarts
    <2>2. cart[r] = NoCart
      BY <2>1 DEF HasCart, Learned, TypeOK
    <2> QED
      BY <2>1, <2>2, <1>1 DEF At, TypeOK
  <1>5. At(r)'
    BY <1>1, <1>4 DEF At, TypeOK, GetsOrCreates
  <1>6. Left(r)'
    BY <1>1 DEF At, Left, TypeOK
  <1>7. Converges(r)'
    BY <1>1, <1>4 DEF At, Left, Converges, GetsOrCreates, TypeOK
  <1>8. cart'[r] # NoCart => carts'[cart'[r]] = req[r].user
    BY <1>1 DEF Learned, TypeOK, tables
  <1> QED
    BY <1>1, <1>2, <1>3, <1>4, <1>5, <1>6, <1>7, <1>8, TablesKept, StepOf

LEMMA ListItemsStep ==
  ASSUME IInv, NEW r \in Requests, ListItems(r)
  PROVE  IInv'
  <1> USE DEF IInv, ListItems, Finish, ReadBack
  <1>1. At(r) /\ Left(r) /\ req' = req /\ UNCHANGED tables
    BY DEF Control, tables
  <1>2. TypeOK'
    BY <1>1 DEF TypeOK, tables, At
  <1>3. \A s \in Requests : s # r => Unmoved(s)
    BY DEF TypeOK, Unmoved
  <1>4. At(r)'
    <2>1. CASE Reads(r) \/ stage[r] = "last"
      BY <2>1, <1>1 DEF At, TypeOK
    <2>2. CASE ~(Reads(r) \/ stage[r] = "last")
      <3>1. cart[r] # NoCart /\ wrote[r] = 0 /\ req[r].op # "CreateCart"
        BY <2>2, <1>1 DEF At
      <3>2. Writes(req[r]) = 1
        BY <2>2, <3>1, RequestFields DEF TypeOK, Reads, Ops
      <3> QED
        BY <2>2, <3>1, <3>2, <1>1 DEF At, TypeOK
    <2> QED
      BY <2>1, <2>2
  <1>5. Left(r)'
    BY <1>1 DEF At, Left, TypeOK
  <1>6. Converges(r)'
    BY <1>1 DEF At, Left, Converges, GetsOrCreates, TypeOK
  <1>7. cart'[r] # NoCart => carts'[cart'[r]] = req[r].user
    BY <1>1 DEF Learned, TypeOK, tables
  <1> QED
    BY <1>1, <1>2, <1>3, <1>4, <1>5, <1>6, <1>7, TablesKept, StepOf

LEMMA CreateConflictStep ==
  ASSUME IInv, NEW r \in Requests, CreateConflict(r)
  PROVE  IInv'
  <1> USE DEF IInv, CreateConflict, Finish, ReadBack
  <1>1. At(r) /\ Left(r) /\ req' = req /\ UNCHANGED tables
    BY DEF Control, tables
  <1>2. TypeOK'
    BY DEF TypeOK, tables
  <1>3. \A s \in Requests : s # r => Unmoved(s)
    BY DEF TypeOK, Unmoved
  <1>4. At(r)'
    BY <1>1 DEF At, TypeOK, HasCart, ActiveCarts, tables
  <1>5. Left(r)'
    BY <1>1 DEF At, Left, TypeOK
  <1>6. Converges(r)'
    BY <1>1 DEF At, Left, Converges, GetsOrCreates, TypeOK
  <1>7. cart'[r] # NoCart => carts'[cart'[r]] = req[r].user
    BY <1>1 DEF Learned, TypeOK, tables
  <1> QED
    BY <1>1, <1>2, <1>3, <1>4, <1>5, <1>6, <1>7, TablesKept, StepOf

LEMMA WriteRejectedStep ==
  ASSUME IInv, NEW r \in Requests, WriteRejected(r)
  PROVE  IInv'
  <1> USE DEF IInv, WriteRejected, Finish, ReadBack
  <1>1. At(r) /\ Left(r) /\ req' = req /\ UNCHANGED tables
    BY DEF Control, tables
  <1>2. TypeOK'
    BY DEF TypeOK, tables
  <1>3. \A s \in Requests : s # r => Unmoved(s)
    BY DEF TypeOK, Unmoved
  <1>4. At(r)'
    BY <1>1 DEF At, TypeOK
  <1>5. Left(r)'
    BY <1>1 DEF At, Left, TypeOK
  <1>6. Converges(r)'
    BY <1>1 DEF At, Left, Converges, GetsOrCreates, TypeOK
  <1>7. cart'[r] # NoCart => carts'[cart'[r]] = req[r].user
    BY <1>1 DEF Learned, TypeOK, tables
  <1> QED
    BY <1>1, <1>2, <1>3, <1>4, <1>5, <1>6, <1>7, TablesKept, StepOf

LEMMA InterruptStep ==
  ASSUME IInv, NEW r \in Requests, Interrupt(r)
  PROVE  IInv'
  <1> USE DEF IInv, Interrupt, Finish, ReadBack
  <1>1. At(r) /\ Left(r) /\ req' = req /\ UNCHANGED tables
    BY DEF Control, tables
  <1>2. TypeOK'
    BY DEF TypeOK, tables
  <1>3. \A s \in Requests : s # r => Unmoved(s)
    BY DEF TypeOK, Unmoved
  <1>4. At(r)'
    BY <1>1 DEF At, TypeOK
  <1>5. Left(r)'
    BY <1>1 DEF At, Left, TypeOK
  <1>6. Converges(r)'
    BY <1>1 DEF At, Left, Converges, GetsOrCreates, TypeOK
  <1>7. cart'[r] # NoCart => carts'[cart'[r]] = req[r].user
    BY <1>1 DEF Learned, TypeOK, tables
  <1> QED
    BY <1>1, <1>2, <1>3, <1>4, <1>5, <1>6, <1>7, TablesKept, StepOf

LEMMA CreateStep ==
  ASSUME IInv, NEW r \in Requests, Create(r)
  PROVE  IInv'
  <1> USE DEF IInv
  <1> DEFINE u == req[r].user
  <1>1. /\ At(r) /\ Left(r) /\ req' = req /\ items' = items
        /\ pc[r] = "create" /\ wrote' = wrote /\ orphan' = orphan /\ answer' = answer
        /\ cart[r] = NoCart /\ wrote[r] = 0
    BY DEF Control, At, Create
  <1>2. u \in Users
    BY <1>1, RequestFields DEF At, TypeOK
  <1>3. PICK c \in CartIds :
          /\ InsertCart(u, c)
          /\ IF req[r].op = "CreateCart"
               THEN /\ cart' = [cart EXCEPT ![r] = c]
                    /\ IF req[r].items = <<>>
                         THEN ReadBack(r)
                         ELSE pc' = [pc EXCEPT ![r] = "write"] /\ UNCHANGED stage
               ELSE /\ pc' = [pc EXCEPT ![r] = "find"]
                    /\ stage' = [stage EXCEPT ![r] = "retry"]
                    /\ UNCHANGED cart
    BY DEF Create
  <1> HIDE DEF u
  <1>4. /\ carts' \in [CartIds -> Users \cup {NoUser}]
        /\ OneActive'
        /\ carts'[c] = u /\ carts[c] = NoUser
        /\ \A d \in CartIds : carts[d] # NoUser => carts'[d] = carts[d]
    BY <1>2, <1>3, InsertKeepsRows
  <1>5. CartsKept
    BY <1>4 DEF CartsKept
  <1>6. NoStrayItems'
    <2>1. \A d \in CartIds : carts'[d] = NoUser => carts[d] = NoUser
      BY <1>4
    <2> QED
      BY <2>1, <1>1 DEF NoStrayItems
  <1>7. TypeOK'
    <2>1. /\ pc' \in [Requests -> {"idle", "find", "list", "create", "write", "done"}]
          /\ stage' \in [Requests -> {"first", "retry", "last"}]
          /\ cart' \in [Requests -> CartIds \cup {NoCart}]
      <3>1. CASE req[r].op = "CreateCart" /\ req[r].items # <<>>
        BY <1>1, <1>3, <3>1 DEF TypeOK
      <3>2. CASE req[r].op = "CreateCart" /\ req[r].items = <<>>
        <4>1. /\ pc' = [pc EXCEPT ![r] = "find"] /\ stage' = [stage EXCEPT ![r] = "last"]
              /\ cart' = [cart EXCEPT ![r] = c]
          BY <1>3, <3>2 DEF ReadBack
        <4> QED
          BY <4>1 DEF TypeOK
      <3>3. CASE req[r].op # "CreateCart"
        BY <1>1, <1>3, <3>3 DEF TypeOK
      <3> QED
        BY <3>1, <3>2, <3>3
    <2>2. UNCHANGED <<items, req, wrote, orphan, answer, view>>
      BY DEF Create
    <2> QED
      BY <1>1, <1>4, <2>1, <2>2 DEF TypeOK
  <1>8. \A s \in Requests : s # r => Unmoved(s)
    BY <1>1, <1>3 DEF Unmoved, ReadBack, TypeOK
  <1>9. At(r)'
    <2>1. CASE req[r].op = "CreateCart"
      <3>1. cart'[r] = c /\ c # NoCart
        BY <2>1, <1>3, SentinelAssumption DEF TypeOK
      <3>2. Writes(req[r]) = Len(req[r].items) /\ req[r].items \in Seq(Item)
        BY <2>1, RequestFields DEF TypeOK
      <3>3. CASE req[r].items = <<>>
        BY <2>1, <3>1, <3>2, <3>3, <1>1, <1>3 DEF At, ReadBack, TypeOK
      <3>4. CASE req[r].items # <<>>
        <4>1. Len(req[r].items) > 0
          BY <3>2, <3>4
        <4> QED
          BY <2>1, <3>1, <3>2, <3>4, <4>1, <1>1, <1>3 DEF At, TypeOK
      <3> QED
        BY <3>3, <3>4
    <2>2. CASE req[r].op # "CreateCart"
      BY <2>2, <1>1, <1>3, <1>4 DEF At, HasCart, TypeOK, u
    <2> QED
      BY <2>1, <2>2
  <1>10. Left(r)'
    BY <1>1, <1>3 DEF Left, TypeOK, ReadBack
  <1>11. Converges(r)'
    BY <1>1 DEF Left, Converges
  <1>12. cart'[r] # NoCart => carts'[cart'[r]] = req[r].user
    BY <1>1, <1>3, <1>4 DEF TypeOK, u
  <1> QED
    BY <1>1, <1>4, <1>5, <1>6, <1>7, <1>8, <1>9, <1>10, <1>11, <1>12, StepOf

LEMMA LateCreateStep ==
  ASSUME IInv, NEW r \in Requests, LateCreate(r)
  PROVE  IInv'
  <1> USE DEF IInv
  <1> DEFINE u == req[r].user
  <1>1. /\ At(r) /\ Left(r) /\ orphan[r] = "create"
        /\ UNCHANGED <<items, req, pc, stage, cart, wrote, answer, view>>
        /\ orphan' = [orphan EXCEPT ![r] = "none"]
    BY DEF Control, LateCreate
  <1>2. u \in Users
    BY <1>1, RequestFields DEF Left, TypeOK
  <1>3. PICK c \in CartIds : InsertCart(u, c)
    BY DEF LateCreate
  <1> HIDE DEF u
  <1>4. /\ carts' \in [CartIds -> Users \cup {NoUser}]
        /\ OneActive'
        /\ \A d \in CartIds : carts[d] # NoUser => carts'[d] = carts[d]
        /\ carts'[c] = u /\ carts[c] = NoUser
    BY <1>2, <1>3, InsertKeepsRows
  <1>5. CartsKept
    BY <1>4 DEF CartsKept
  <1>6. NoStrayItems'
    <2>1. \A d \in CartIds : carts'[d] = NoUser => carts[d] = NoUser
      BY <1>4
    <2> QED
      BY <2>1, <1>1 DEF NoStrayItems
  <1>7. TypeOK'
    BY <1>1, <1>4 DEF TypeOK
  <1>8. \A s \in Requests : s # r => Unmoved(s)
    BY <1>1 DEF Unmoved, TypeOK
  <1>9. At(r)' /\ Left(r)'
    BY <1>1 DEF At, Left, TypeOK
  <1>10. Converges(r)'
    BY <1>1 DEF Left, Converges
  <1>11. cart'[r] # NoCart => carts'[cart'[r]] = req[r].user
    <2>1. req[r].user # NoUser
      BY <1>2, SentinelAssumption DEF u
    <2> QED
      BY <1>1, <1>4, <2>1 DEF Learned, TypeOK
  <1> QED
    BY <1>1, <1>4, <1>5, <1>6, <1>7, <1>8, <1>9, <1>10, <1>11, StepOf

\* What both a write and a late write do to the tables.
LEMMA EffectOnTables ==
  ASSUME IInv, NEW r \in Requests, cart[r] # NoCart, wrote[r] < Writes(req[r]),
         Effect(r), carts' = carts
  PROVE  /\ items' \in [CartIds -> Rows]
         /\ wrote' = [wrote EXCEPT ![r] = @ + 1] /\ wrote' \in [Requests -> Nat]
         /\ OneActive' /\ NoStrayItems' /\ CartsKept
  <1>1. /\ items' \in [CartIds -> Rows]
        /\ \A c \in CartIds : c # cart[r] => items'[c] = items[c]
        /\ wrote' = [wrote EXCEPT ![r] = @ + 1]
    BY EffectType DEF IInv
  <1>2. carts[cart[r]] # NoUser
    <2>1. carts[cart[r]] = req[r].user /\ req[r] \in Inputs
      BY DEF IInv, Learned, TypeOK
    <2>2. req[r].user \in Users \cup {Malformed}
      BY <2>1, RequestFields
    <2> QED
      BY <2>1, <2>2, SentinelAssumption
  <1>3. NoStrayItems'
    BY <1>1, <1>2 DEF IInv, NoStrayItems
  <1>4. OneActive' /\ CartsKept
    BY DEF IInv, OneActive, CartsKept
  <1>5. wrote' \in [Requests -> Nat]
    BY <1>1 DEF IInv, TypeOK
  <1> QED
    BY <1>1, <1>3, <1>4, <1>5

LEMMA WriteStep ==
  ASSUME IInv, NEW r \in Requests, Write(r)
  PROVE  IInv'
  <1> USE DEF IInv
  <1>1. /\ At(r) /\ Left(r) /\ pc[r] = "write" /\ Effect(r)
        /\ cart[r] # NoCart /\ wrote[r] < Writes(req[r])
        /\ UNCHANGED <<carts, req, cart, orphan, answer, view>>
        /\ IF wrote'[r] = Writes(req[r]) THEN ReadBack(r) ELSE UNCHANGED <<pc, stage>>
    BY DEF Control, At, Write
  <1>2. /\ items' \in [CartIds -> Rows]
        /\ wrote' = [wrote EXCEPT ![r] = @ + 1] /\ wrote' \in [Requests -> Nat]
        /\ OneActive' /\ NoStrayItems' /\ CartsKept
    BY <1>1, EffectOnTables
  <1>3. TypeOK'
    BY <1>1, <1>2 DEF TypeOK, ReadBack
  <1>4. \A s \in Requests : s # r => Unmoved(s)
    BY <1>1, <1>2 DEF Unmoved, ReadBack, TypeOK
  <1>5. At(r)'
    <2>1. wrote'[r] = wrote[r] + 1 /\ wrote[r] \in Nat /\ Writes(req[r]) \in Nat
      BY <1>2, RequestFields DEF TypeOK
    <2>2. CASE wrote'[r] = Writes(req[r])
      BY <1>1, <1>2, <2>1, <2>2 DEF At, ReadBack, TypeOK
    <2>3. CASE wrote'[r] # Writes(req[r])
      BY <1>1, <1>2, <2>1, <2>3 DEF At, TypeOK
    <2> QED
      BY <2>2, <2>3
  <1>6. Left(r)'
    BY <1>1 DEF Left, ReadBack, TypeOK
  <1>7. Converges(r)'
    BY <1>1 DEF Left, Converges
  <1>8. cart'[r] # NoCart => carts'[cart'[r]] = req[r].user
    BY <1>1 DEF Learned
  <1> QED
    BY <1>1, <1>2, <1>3, <1>4, <1>5, <1>6, <1>7, <1>8, StepOf

LEMMA LateWriteStep ==
  ASSUME IInv, NEW r \in Requests, LateWrite(r)
  PROVE  IInv'
  <1> USE DEF IInv
  <1>1. /\ At(r) /\ Left(r) /\ orphan[r] = "write" /\ Effect(r)
        /\ cart[r] # NoCart /\ wrote[r] < Writes(req[r])
        /\ UNCHANGED <<carts, req, pc, stage, cart, answer, view>>
        /\ orphan' = [orphan EXCEPT ![r] = "none"]
    BY DEF Control, Left, LateWrite
  <1>2. /\ items' \in [CartIds -> Rows]
        /\ wrote' = [wrote EXCEPT ![r] = @ + 1] /\ wrote' \in [Requests -> Nat]
        /\ OneActive' /\ NoStrayItems' /\ CartsKept
    BY <1>1, EffectOnTables
  <1>3. TypeOK'
    BY <1>1, <1>2 DEF TypeOK
  <1>4. \A s \in Requests : s # r => Unmoved(s)
    BY <1>1, <1>2 DEF Unmoved, TypeOK
  <1>5. pc[r] = "done"
    BY <1>1 DEF Left
  <1>6. At(r)' /\ Left(r)'
    BY <1>1, <1>5 DEF At, Left, TypeOK
  <1>7. Converges(r)'
    BY <1>1 DEF Left, Converges
  <1>8. cart'[r] # NoCart => carts'[cart'[r]] = req[r].user
    BY <1>1 DEF Learned
  <1> QED
    BY <1>1, <1>2, <1>3, <1>4, <1>6, <1>7, <1>8, StepOf

LEMMA NextIInv == IInv /\ [Next]_vars => IInv'
  <1>1. ASSUME IInv, NEW r \in Requests, Start(r) \/ Handle(r) \/ Environment(r)
        PROVE  IInv'
    BY <1>1, StartStep, FindCartStep, FindNothingStep, ListItemsStep, CreateStep,
       CreateConflictStep, WriteStep, WriteRejectedStep, InterruptStep,
       LateCreateStep, LateWriteStep
       DEF Handle, Environment
  <1>2. ASSUME IInv, UNCHANGED vars
        PROVE  IInv'
    BY <1>2 DEF IInv, vars, TypeOK, OneActive, NoStrayItems, Learned, Control, At, Left,
       HasCart, GetOrCreateConverges, GetsOrCreates
  <1> QED
    BY <1>1, <1>2 DEF Next

\* The inductive invariant holds in every reachable state.
THEOREM Invariant == Spec => []IInv
  <1> QED
    BY InitIInv, NextIInv, PTL DEF Spec

\* Every variable keeps its type: in particular a row of cart_items is always
\* in the range of its column.
THEOREM TypeCorrect == Spec => []TypeOK
  <1>1. IInv => TypeOK
    BY DEF IInv
  <1> QED
    BY <1>1, Invariant, PTL

\* Requests of one user agree on its cart, however many race to create it.
THEOREM OneCartPerUser == Spec => []SameCart
  <1>1. IInv => SameCart
    <2> SUFFICES ASSUME IInv, NEW r \in Requests, NEW s \in Requests, cart[r] # NoCart
                 PROVE  /\ ActiveCarts(req[r].user) = {cart[r]}
                        /\ cart[s] # NoCart /\ req[r].user = req[s].user => cart[r] = cart[s]
      BY DEF SameCart
    <2>1. \A q \in Requests : cart[q] # NoCart =>
            cart[q] \in CartIds /\ carts[cart[q]] = req[q].user
      BY DEF IInv, TypeOK, Learned
    <2>2. req[r].user # NoUser
      BY RequestFields, SentinelAssumption DEF IInv, TypeOK
    <2> QED
      BY <2>1, <2>2 DEF IInv, OneActive, ActiveCarts
  <1> QED
    BY <1>1, Invariant, PTL

\* GetOrCreate obtains a cart unless its caller has gone, and no handler fails
\* after its writes.
THEOREM Converging == Spec => []GetOrCreateConverges
  <1>1. IInv => GetOrCreateConverges
    BY DEF IInv
  <1> QED
    BY <1>1, Invariant, PTL
-----------------------------------------------------------------------------
(* The handlers implement the contract.                                    *)

\* Contents, as a function of the two tables.
ActiveIn(cs, u) == { c \in CartIds : cs[c] = u }
ContentsIn(cs, is) ==
  [u \in Users |->
    IF ActiveIn(cs, u) = {} THEN NoRows ELSE is[CHOOSE c \in ActiveIn(cs, u) : TRUE]]

LEMMA ContentsOfTables ==
  /\ Contents = ContentsIn(carts, items)
  /\ Contents' = ContentsIn(carts', items')
  BY DEF Contents, ContentsIn, ActiveIn, ActiveCarts, NoRows

LEMMA ContentsOfCart ==
  ASSUME NEW cs, NEW is, NEW c \in CartIds, cs[c] \in Users,
         \A d \in CartIds : cs[d] = cs[c] => d = c
  PROVE  ContentsIn(cs, is)[cs[c]] = is[c]
  <1>1. ActiveIn(cs, cs[c]) = {c}
    BY DEF ActiveIn
  <1>2. (CHOOSE d \in {c} : TRUE) = c
    OBVIOUS
  <1> QED
    BY <1>1, <1>2 DEF ContentsIn

\* A user's cart, as the user sees it.
LEMMA ContentsOfLearned ==
  ASSUME IInv, NEW r \in Requests, cart[r] # NoCart
  PROVE  req[r].user \in Users /\ Contents[req[r].user] = items[cart[r]]
  <1>1. cart[r] \in CartIds /\ carts[cart[r]] = req[r].user /\ req[r] \in Inputs
    BY DEF IInv, Learned, TypeOK
  <1>2. req[r].user \in Users
    BY <1>1, RequestFields, SentinelAssumption DEF IInv, TypeOK
  <1>3. \A d \in CartIds : carts[d] = carts[cart[r]] => d = cart[r]
    BY <1>1, <1>2, SentinelAssumption DEF IInv, OneActive
  <1> QED
    BY <1>1, <1>2, <1>3, ContentsOfTables, ContentsOfCart

\* Inserting a cart changes nobody's contents.
LEMMA InsertKeepsContents ==
  ASSUME IInv, NEW u \in Users, NEW c \in CartIds, InsertCart(u, c), items' = items
  PROVE  Contents' = Contents
  <1>1. /\ OneActive' /\ carts'[c] = u /\ carts[c] = NoUser /\ items[c] = NoRows
        /\ \A d \in CartIds : d # c => carts'[d] = carts[d]
        /\ \A d \in CartIds : carts[d] # u
    BY InsertKeepsRows DEF IInv, InsertCart, NoStrayItems, ActiveCarts, TypeOK
  <1>2. ASSUME NEW v \in Users
        PROVE  ContentsIn(carts', items')[v] = ContentsIn(carts, items)[v]
    <2>1. CASE v = u
      <3>1. \A d \in CartIds : carts'[d] = carts'[c] => d = c
        BY <1>1, SentinelAssumption DEF OneActive
      <3>2. ContentsIn(carts', items')[v] = NoRows
        BY <1>1, <2>1, <3>1, ContentsOfCart
      <3>3. ActiveIn(carts, v) = {}
        BY <1>1, <2>1 DEF ActiveIn
      <3> QED
        BY <3>2, <3>3 DEF ContentsIn
    <2>2. CASE v # u
      <3>1. ActiveIn(carts', v) = ActiveIn(carts, v)
        <4>1. \A d \in CartIds : carts'[d] = v <=> carts[d] = v
          BY <1>1, <2>2, SentinelAssumption
        <4> QED
          BY <4>1 DEF ActiveIn
      <3> QED
        BY <3>1 DEF ContentsIn
    <2> QED
      BY <2>1, <2>2
  <1> QED
    BY <1>2, ContentsOfTables DEF ContentsIn

\* A write changes the contents of its user's cart, by what its row becomes.
LEMMA EffectOnContents ==
  ASSUME IInv, NEW r \in Requests, cart[r] # NoCart, wrote[r] < Writes(req[r]),
         Effect(r), carts' = carts
  PROVE  Contents' = [Contents EXCEPT ![req[r].user] = items'[cart[r]]]
  <1> DEFINE u == req[r].user
             c == cart[r]
  <1>1. c \in CartIds /\ carts[c] = u /\ u \in Users
    BY ContentsOfLearned DEF IInv, Learned, TypeOK
  <1>2. /\ \A d \in CartIds : d # c => items'[d] = items[d]
        /\ \A d \in CartIds : carts[d] = u => d = c
    BY <1>1, EffectType, SentinelAssumption DEF IInv, OneActive
  <1> HIDE DEF u, c
  <1>3. ContentsIn(carts', items')[u] = items'[c]
    BY <1>1, <1>2, ContentsOfCart
  <1>4. ASSUME NEW v \in Users, v # u
        PROVE  ContentsIn(carts', items')[v] = ContentsIn(carts, items)[v]
    <2>1. CASE ActiveIn(carts, v) = {}
      BY <2>1 DEF ContentsIn
    <2>2. CASE ActiveIn(carts, v) # {}
      <3> DEFINE d == CHOOSE d \in ActiveIn(carts, v) : TRUE
      <3>1. d \in ActiveIn(carts, v)
        BY <2>2
      <3>2. d \in CartIds /\ d # c
        BY <3>1, <1>1, <1>4 DEF ActiveIn
      <3> QED
        BY <2>2, <3>2, <1>2 DEF ContentsIn
    <2> QED
      BY <2>1, <2>2
  <1>5. ContentsIn(carts', items') = [ContentsIn(carts, items) EXCEPT ![u] = items'[c]]
    <2>1. /\ ContentsIn(carts, items) = [v \in Users |-> ContentsIn(carts, items)[v]]
          /\ ContentsIn(carts', items') = [v \in Users |-> ContentsIn(carts', items')[v]]
      BY DEF ContentsIn
    <2> QED
      BY <2>1, <1>3, <1>4, <1>1
  <1> QED
    BY <1>5, ContentsOfTables DEF u, c

\* The refinement mapping of called.
Called == [r \in Requests |-> pc[r] # "idle"]

\* Only the arrival of a request changes what has been called, and steps that
\* leave the tables alone leave the contents alone.
LEMMA CalledKept ==
  ASSUME IInv, NEW r \in Requests, pc[r] # "idle",
         NEW p, p # "idle", pc' = [pc EXCEPT ![r] = p]
  PROVE  Called' = Called
  BY DEF IInv, TypeOK, Called

LEMMA ContentsKept ==
  ASSUME UNCHANGED tables
  PROVE  Contents' = Contents
  BY DEF tables, Contents, ActiveCarts, NoRows

StepRefines == [Promise!Next]_(Promise!vars)

\* An answer of an error code keeps everything else the contract speaks of.
LEMMA FailRefines ==
  ASSUME IInv, NEW r \in Requests, pc[r] \notin {"idle", "done"},
         NEW code \in {"NotFound", "Internal", "Unknown"}, Finish(r, code),
         UNCHANGED <<tables, req, wrote, view>>,
         code = "NotFound" => /\ wrote[r] = 0
                              /\ req[r].user \in Users
                              /\ ActiveCarts(req[r].user) = {},
         code = "Internal" => wrote[r] < Writes(req[r]) \/ Writes(req[r]) = 0
  PROVE  StepRefines
  <1>1. Contents' = Contents /\ Called' = Called
    BY ContentsKept, CalledKept DEF Finish
  <1>2. Called[r] /\ answer[r] = "none"
    BY DEF Called, IInv, Control, Left, TypeOK
  <1>3. code = "NotFound" => Contents[req[r].user] = NoRows
    BY DEF Contents
  <1>4. Promise!Fail(r, code)
    BY <1>1, <1>2, <1>3 DEF Promise!Fail, Promise!NumWrites, Promise!Empty, Called, Finish,
       Writes, NoRows
  <1> QED
    BY <1>4 DEF StepRefines, Promise!Next

\* A step inside a handler that the contract does not see.
LEMMA StutterRefines ==
  ASSUME IInv, NEW r \in Requests, pc[r] # "idle",
         NEW p, p # "idle", pc' = [pc EXCEPT ![r] = p],
         Contents' = Contents, UNCHANGED <<req, wrote, answer, view>>
  PROVE  StepRefines
  <1>1. Called' = Called
    BY CalledKept
  <1> QED
    BY <1>1 DEF StepRefines, Promise!vars, Called

\* A write statement is one atomic write of the contract.
LEMMA EffectRefines ==
  ASSUME IInv, NEW r \in Requests, cart[r] # NoCart, wrote[r] < Writes(req[r]),
         Effect(r), carts' = carts, Called' = Called,
         pc[r] # "idle", answer[r] \in {"none", "Unknown"},
         UNCHANGED <<req, answer, view>>
  PROVE  StepRefines
  <1> DEFINE u == req[r].user
             c == cart[r]
             after == items'[c]
  <1>1. u \in Users /\ c \in CartIds /\ Contents[u] = items[c] /\ items[c] \in Rows
    BY ContentsOfLearned DEF IInv, TypeOK
  <1>2. Contents' = [Contents EXCEPT ![u] = after]
    BY EffectOnContents
  <1>3. after \in [Products -> 0 .. MaxQty] /\ wrote' = [wrote EXCEPT ![r] = @ + 1]
    BY <1>1, EffectOnTables DEF Rows
  <1>4. Promise!Change(r, items[c], after)
    <2>1. items \in [CartIds -> Rows]
      BY DEF IInv, TypeOK
    <2>2. CASE req[r].op \in {"AddItem", "CreateCart"}
      BY <1>1, <2>1, <2>2 DEF Promise!Change, Effect, UpsertAccepts, UpsertAddItemIncrement,
         NextItem, Rows
    <2>3. CASE req[r].op = "SetItemQuantity"
      BY <1>1, <2>1, <2>3 DEF Promise!Change, Effect, UpdateAccepts, UpdateQuantity,
         NextItem, Rows
    <2>4. CASE req[r].op = "RemoveItem"
      BY <1>1, <2>1, <2>4 DEF Promise!Change, Effect, DeleteItem, NextItem, Rows
    <2>5. CASE req[r].op = "ClearCart"
      BY <1>1, <2>1, <2>5 DEF Promise!Change, Promise!Empty, Effect, DeleteAllItems, NoRows
    <2> QED
      BY <2>2, <2>3, <2>4, <2>5 DEF Effect
  <1>5. Promise!TakeEffect(r)
    BY <1>1, <1>2, <1>3, <1>4 DEF Promise!TakeEffect, Promise!NumWrites, Called, Writes
  <1> QED
    BY <1>5 DEF StepRefines, Promise!Next

\* The answer that shows the cart.
LEMMA SucceedRefines ==
  ASSUME IInv, NEW r \in Requests, pc[r] = "list", Finish(r, "OK"),
         wrote[r] = Writes(req[r]), view' = [view EXCEPT ![r] = items[cart[r]]],
         UNCHANGED <<tables, req, wrote>>
  PROVE  StepRefines
  <1>1. Contents' = Contents /\ Called' = Called
    BY ContentsKept, CalledKept DEF Finish
  <1>2. Called[r] /\ answer[r] = "none" /\ cart[r] # NoCart
    BY DEF Called, IInv, Control, Left, At, TypeOK
  <1>3. req[r].user \in Users /\ Contents[req[r].user] = items[cart[r]]
    BY <1>2, ContentsOfLearned
  <1>4. Promise!Succeed(r)
    BY <1>1, <1>2, <1>3 DEF Promise!Succeed, Promise!NumWrites, Called, Finish, Writes
  <1> QED
    BY <1>4 DEF StepRefines, Promise!Next

LEMMA NextRefines == IInv /\ [Next]_vars => StepRefines
  <1> SUFFICES ASSUME IInv, [Next]_vars PROVE StepRefines
    OBVIOUS
  <1>1. \A r \in Requests : At(r) /\ Left(r) /\ req[r] \in Inputs
    BY DEF IInv, Control, TypeOK
  <1>2. ASSUME NEW r \in Requests, Start(r) PROVE StepRefines
    <2>1. Contents' = Contents /\ Called' = [Called EXCEPT ![r] = TRUE] /\ ~Called[r]
      <3>1. Contents' = Contents
        BY <1>2, ContentsKept DEF Start
      <3>2. pc[r] = "idle" /\ \E p \in {"done", "create", "find"} : pc' = [pc EXCEPT ![r] = p]
        BY <1>2 DEF Start, Finish
      <3>3. pc \in [Requests -> {"idle", "find", "list", "create", "write", "done"}]
        BY DEF IInv, TypeOK
      <3> QED
        BY <3>1, <3>2, <3>3 DEF Called
    <2>2. req[r].user = Malformed => req[r].user \notin Users
      BY SentinelAssumption
    <2>3. Promise!Call(r)
      BY <1>2, <2>1, <2>2 DEF Start, Finish, Promise!Call, Called
    <2> QED
      BY <2>3 DEF StepRefines, Promise!Next
  <1>3. ASSUME NEW r \in Requests, FindCart(r) PROVE StepRefines
    BY <1>3, ContentsKept, StutterRefines DEF FindCart
  <1>4. ASSUME NEW r \in Requests, FindNothing(r) PROVE StepRefines
    <2>1. CASE req[r].user # Malformed /\ stage[r] = "first" /\ GetsOrCreates(r)
      BY <1>4, <2>1, ContentsKept, StutterRefines DEF FindNothing
    <2>2. CASE ~(req[r].user # Malformed /\ stage[r] = "first" /\ GetsOrCreates(r))
      <3>1. PICK code \in {"NotFound", "Internal"} :
              /\ Finish(r, code)
              /\ code = "NotFound" => req[r].user # Malformed /\ stage[r] = "first"
        BY <1>4, <2>2 DEF FindNothing
      <3>2. stage[r] # "last"
        <4>1. \A c \in CartIds : carts[c] # req[r].user
          BY <1>4 DEF FindNothing, ActiveCarts
        <4>2. cart[r] = NoCart
          BY <4>1 DEF IInv, Learned, TypeOK
        <4> QED
          BY <4>2, <1>1, <1>4 DEF At, FindNothing
      <3>3. wrote[r] = 0 /\ Writes(req[r]) \in Nat
        BY <3>2, <1>1, <1>4, RequestFields DEF At, FindNothing
      <3>4. code = "NotFound" => req[r].user \in Users
        BY <3>1, <1>1, RequestFields
      <3> QED
        BY <1>4, <3>1, <3>3, <3>4, FailRefines DEF FindNothing
    <2> QED
      BY <2>1, <2>2
  <1>5. ASSUME NEW r \in Requests, ListItems(r) PROVE StepRefines
    <2>1. CASE Reads(r) \/ stage[r] = "last"
      <3>1. wrote[r] = Writes(req[r])
        BY <1>1, <1>5, <2>1, RequestFields DEF At, ListItems, Reads
      <3> QED
        BY <1>5, <2>1, <3>1, SucceedRefines DEF ListItems
    <2>2. CASE ~(Reads(r) \/ stage[r] = "last")
      BY <1>5, <2>2, ContentsKept, StutterRefines DEF ListItems
    <2> QED
      BY <2>1, <2>2
  <1>6. ASSUME NEW r \in Requests, Create(r) PROVE StepRefines
    <2>1. req[r].user \in Users
      BY <1>1, <1>6, RequestFields DEF At, Create
    <2>2. Contents' = Contents
      BY <1>6, <2>1, InsertKeepsContents DEF Create
    <2>3. \E p : p # "idle" /\ pc' = [pc EXCEPT ![r] = p]
      BY <1>6 DEF Create, ReadBack
    <2> QED
      BY <1>6, <2>2, <2>3, StutterRefines DEF Create
  <1>7. ASSUME NEW r \in Requests, CreateConflict(r) PROVE StepRefines
    <2>1. CASE req[r].op = "CreateCart"
      <3>1. wrote[r] = 0 /\ Writes(req[r]) \in Nat
        BY <1>1, <1>7, RequestFields DEF At, CreateConflict
      <3> QED
        BY <1>7, <2>1, <3>1, FailRefines DEF CreateConflict
    <2>2. CASE req[r].op # "CreateCart"
      BY <1>7, <2>2, ContentsKept, StutterRefines DEF CreateConflict
    <2> QED
      BY <2>1, <2>2
  <1>8. ASSUME NEW r \in Requests, Write(r) PROVE StepRefines
    <2>1. /\ pc[r] = "write" /\ cart[r] # NoCart /\ wrote[r] < Writes(req[r])
          /\ answer[r] = "none"
      BY <1>1, <1>8 DEF At, Left, Write, IInv, TypeOK
    <2>2. Called' = Called
      <3>1. \E p : p # "idle" /\ pc' = [pc EXCEPT ![r] = p]
        <4>1. pc' = [pc EXCEPT ![r] = "find"] \/ pc' = [pc EXCEPT ![r] = "write"]
          BY <1>8, <2>1 DEF Write, ReadBack, IInv, TypeOK
        <4> QED
          BY <4>1
      <3> QED
        BY <2>1, <3>1, CalledKept
    <2> QED
      BY <1>8, <2>1, <2>2, EffectRefines DEF Write
  <1>9. ASSUME NEW r \in Requests, WriteRejected(r) PROVE StepRefines
    BY <1>1, <1>9, FailRefines DEF At, WriteRejected
  <1>10. ASSUME NEW r \in Requests, Interrupt(r) PROVE StepRefines
    BY <1>10, FailRefines DEF Interrupt
  <1>11. ASSUME NEW r \in Requests, LateCreate(r) PROVE StepRefines
    <2>1. req[r].user \in Users
      BY <1>1, <1>11, RequestFields DEF Left, LateCreate
    <2>2. Contents' = Contents
      BY <1>11, <2>1, InsertKeepsContents DEF LateCreate
    <2>3. Called' = Called
      BY <1>11 DEF LateCreate, Called
    <2> QED
      BY <1>11, <2>2, <2>3 DEF LateCreate, StepRefines, Promise!vars, Called
  <1>12. ASSUME NEW r \in Requests, LateWrite(r) PROVE StepRefines
    <2>1. /\ cart[r] # NoCart /\ wrote[r] < Writes(req[r])
          /\ pc[r] = "done" /\ answer[r] = "Unknown" /\ Called' = Called
      BY <1>1, <1>12 DEF Left, LateWrite, Called
    <2> QED
      BY <1>12, <2>1, EffectRefines DEF LateWrite
  <1>13. CASE UNCHANGED vars
    <2>1. UNCHANGED <<tables, req, pc, wrote, answer, view>>
      BY <1>13 DEF vars, tables
    <2>2. Contents' = Contents /\ Called' = Called
      BY <2>1, ContentsKept DEF Called
    <2> QED
      BY <2>1, <2>2 DEF StepRefines, Promise!vars, Called
  <1> QED
    BY <1>2, <1>3, <1>4, <1>5, <1>6, <1>7, <1>8, <1>9, <1>10, <1>11, <1>12, <1>13
       DEF Next, Handle, Environment

\* Statement by statement, the concurrent handlers behave as the contract says:
\* atomic writes, at most once each, answers that tell the truth.
THEOREM Refinement == Spec => KeepsContract
  <1>1. ASSUME Init PROVE Promise!Init
    <2>1. \A u \in Users : ActiveIn(carts, u) = {}
      BY <1>1, SentinelAssumption DEF Init, ActiveIn
    <2>2. Contents = [u \in Users |-> NoRows]
      BY <2>1, ContentsOfTables DEF ContentsIn
    <2> QED
      BY <1>1, <2>2 DEF Init, Promise!Init, Promise!Empty, NoRows
  <1>2. IInv /\ [Next]_vars => [Promise!Next]_(Promise!vars)
    BY NextRefines DEF StepRefines
  <1> QED
    BY <1>1, <1>2, Invariant, PTL DEF Spec, KeepsContract, Promise!Spec
-----------------------------------------------------------------------------
(* Sums: they follow from the contract, write by write.                    *)

\* What the first w writes of a request q add to row p.
AddedIn(q, w, p) ==
  SumFunction([n \in { m \in 1 .. w : q.items[m].product = p } |-> q.items[n].quantity])

LEMMA AddedByRequest ==
  /\ \A r, p : Added(r, p) = AddedIn(req[r], wrote[r], p)
  /\ \A r, p : Added(r, p)' = AddedIn(req'[r], wrote'[r], p)
  BY DEF Added, AddedIn

LEMMA AddedType ==
  ASSUME NEW q \in Inputs, q.op # "ClearCart", NEW w \in 0 .. Writes(q), NEW p
  PROVE  AddedIn(q, w, p) \in Int
  <1> DEFINE D == { m \in 1 .. w : q.items[m].product = p }
             f == [n \in D |-> q.items[n].quantity]
  <1>1. q.items \in Seq(Item) /\ w \in Nat /\ 1 .. w \subseteq 1 .. Len(q.items)
    BY RequestFields
  <1>2. IsFiniteSet(D)
    <2>1. IsFiniteSet(1 .. w)
      BY <1>1, FS_Interval
    <2> QED
      BY <2>1, FS_Subset
  <1>3. ASSUME NEW m \in D PROVE f[m] \in Int
    <2>1. q.items[m] \in Item
      BY <1>1
    <2> QED
      BY <2>1, MaxQtyAssumption DEF Item
  <1>4. AddedIn(q, w, p) = SumFunctionOnSet(f, D)
    BY DEF AddedIn, SumFunction
  <1> HIDE DEF D, f
  <1> QED
    BY <1>2, <1>3, <1>4, SumInt DEF IntsOn

LEMMA AddedNothing == ASSUME NEW q, NEW p PROVE AddedIn(q, 0, p) = 0
  <1> DEFINE D == { m \in 1 .. 0 : q.items[m].product = p }
             f == [n \in D |-> q.items[n].quantity]
  <1>1. AddedIn(q, 0, p) = SumFunctionOnSet(f, D)
    BY DEF AddedIn, SumFunction
  <1>2. D = {}
    OBVIOUS
  <1> HIDE DEF D, f
  <1> QED
    BY <1>1, <1>2, SumEmpty

\* One more write adds its quantity to its row.
LEMMA AddedNext ==
  ASSUME NEW q \in Inputs, q.op # "ClearCart", NEW w \in Nat, w < Writes(q), NEW p
  PROVE  AddedIn(q, w + 1, p) =
           AddedIn(q, w, p) + (IF q.items[w + 1].product = p THEN q.items[w + 1].quantity ELSE 0)
  <1> DEFINE k == w + 1
             D == { m \in 1 .. w : q.items[m].product = p }
             E == { m \in 1 .. k : q.items[m].product = p }
             f == [n \in D |-> q.items[n].quantity]
             g == [n \in E |-> q.items[n].quantity]
  <1>1. /\ q.items \in Seq(Item) /\ k \in 1 .. Len(q.items)
        /\ 1 .. k = (1 .. w) \cup {k} /\ k \notin 1 .. w
        /\ AddedIn(q, w, p) \in Int
    BY RequestFields, AddedType
  <1>2. E = (IF q.items[k].product = p THEN D \cup {k} ELSE D) /\ k \notin D
    BY <1>1
  <1>3. IsFiniteSet(D)
    <2>1. IsFiniteSet(1 .. w)
      BY FS_Interval
    <2> QED
      BY <2>1, FS_Subset
  <1>4. ASSUME NEW m \in 1 .. k PROVE q.items[m].quantity \in Int
    <2>1. q.items[m] \in Item
      BY <1>1
    <2> QED
      BY <2>1, MaxQtyAssumption DEF Item
  <1>5. AddedIn(q, w, p) = SumFunctionOnSet(f, D) /\ AddedIn(q, k, p) = SumFunctionOnSet(g, E)
    BY DEF AddedIn, SumFunction
  <1>6. IntsOn(f, D) /\ IntsOn(g, E) /\ SameOn(f, g, D)
    BY <1>1, <1>2, <1>4 DEF IntsOn, SameOn
  <1>7. k \in E => g[k] = q.items[k].quantity /\ q.items[k].quantity \in Int
    BY <1>1, <1>4
  <1> HIDE DEF k, D, E, f, g
  <1>8. SumFunctionOnSet(f, D) = SumFunctionOnSet(g, D)
    BY <1>3, <1>6, SumSame
  <1>9. CASE q.items[k].product = p
    <2>1. SumFunctionOnSet(g, E) = g[k] + SumFunctionOnSet(g, D)
      BY <1>2, <1>3, <1>6, <1>9, SumInsert
    <2> QED
      BY <1>1, <1>2, <1>5, <1>7, <1>8, <1>9, <2>1 DEF k
  <1>10. CASE q.items[k].product # p
    BY <1>1, <1>2, <1>5, <1>8, <1>10 DEF k
  <1> QED
    BY <1>9, <1>10

\* What the requests of D add to row p: their inputs, and how far each is.
AddedBy(D, q, w, p) == SumFunction([r \in D |-> AddedIn(q[r], w[r], p)])

\* Requests that only add, or have only added.
Adders(D, q, w) ==
  /\ q \in [Requests -> Inputs] /\ w \in [Requests -> Nat]
  /\ IsFiniteSet(D) /\ D \subseteq Requests
  /\ \A r \in D : q[r].op # "ClearCart" /\ w[r] <= Writes(q[r])

Additions(q, w, p) == [r \in Requests |-> AddedIn(q[r], w[r], p)]

LEMMA AddedBySum ==
  ASSUME NEW D, NEW q, NEW w, Adders(D, q, w), NEW p
  PROVE  /\ AddedBy(D, q, w, p) = SumFunctionOnSet(Additions(q, w, p), D)
         /\ IntsOn(Additions(q, w, p), D)
  <1> DEFINE f == Additions(q, w, p)
             g == [r \in D |-> AddedIn(q[r], w[r], p)]
  <1>1. \A r \in D : r \in Requests /\ AddedIn(q[r], w[r], p) \in Int
    <2> SUFFICES ASSUME NEW r \in D PROVE r \in Requests /\ AddedIn(q[r], w[r], p) \in Int
      OBVIOUS
    <2>1. /\ r \in Requests /\ q[r] \in Inputs /\ q[r].op # "ClearCart"
          /\ w[r] \in Nat /\ w[r] <= Writes(q[r]) /\ Writes(q[r]) \in Nat
      BY RequestFields DEF Adders
    <2>2. w[r] \in 0 .. Writes(q[r])
      BY <2>1
    <2> QED
      BY <2>1, <2>2, AddedType
  <1>2. AddedBy(D, q, w, p) = SumFunctionOnSet(g, D)
    BY DEF AddedBy, SumFunction
  <1>3. IntsOn(f, D) /\ IntsOn(g, D) /\ SameOn(g, f, D) /\ IsFiniteSet(D)
    BY <1>1 DEF IntsOn, SameOn, Adders, Additions
  <1> HIDE DEF f, g
  <1>4. SumFunctionOnSet(g, D) = SumFunctionOnSet(f, D)
    BY <1>3, SumSame
  <1> QED
    BY <1>2, <1>3, <1>4 DEF f

\* A request that arrives has added nothing.
LEMMA ArrivalAddsNothing ==
  ASSUME NEW D, NEW q, NEW w, NEW r \in Requests, r \notin D, w[r] = 0,
         Adders(D, q, w), Adders(D \cup {r}, q, w), NEW p
  PROVE  AddedBy(D \cup {r}, q, w, p) = AddedBy(D, q, w, p)
  <1> DEFINE f == Additions(q, w, p)
  <1>1. /\ AddedBy(D, q, w, p) = SumFunctionOnSet(f, D)
        /\ AddedBy(D \cup {r}, q, w, p) = SumFunctionOnSet(f, D \cup {r})
        /\ IntsOn(f, D) /\ IntsOn(f, D \cup {r}) /\ IsFiniteSet(D)
    BY AddedBySum DEF Adders
  <1>2. f[r] = 0
    BY AddedNothing DEF Additions
  <1> HIDE DEF f
  <1>3. SumFunctionOnSet(f, D \cup {r}) = f[r] + SumFunctionOnSet(f, D)
    BY <1>1, SumInsert
  <1>4. SumFunctionOnSet(f, D) \in Int
    BY <1>1, SumInt
  <1> QED
    BY <1>1, <1>2, <1>3, <1>4

\* A write adds its quantity to the sum of its row.
OneMore(w, v, r) == v = [w EXCEPT ![r] = @ + 1]

LEMMA WriteAdds ==
  ASSUME NEW D, NEW q, NEW w, NEW v, NEW r \in D, Adders(D, q, w), Adders(D, q, v),
         OneMore(w, v, r), NEW p
  PROVE  AddedBy(D, q, v, p) =
           AddedBy(D, q, w, p) + (IF q[r].items[w[r] + 1].product = p
                                  THEN q[r].items[w[r] + 1].quantity ELSE 0)
  <1> DEFINE f == Additions(q, w, p)
             g == Additions(q, v, p)
             i == q[r].items[w[r] + 1]
             E == D \ {r}
             more == IF i.product = p THEN i.quantity ELSE 0
  <1>1. /\ AddedBy(D, q, w, p) = SumFunctionOnSet(f, D) /\ IntsOn(f, D)
        /\ AddedBy(D, q, v, p) = SumFunctionOnSet(g, D) /\ IntsOn(g, D)
    BY AddedBySum
  <1>2. /\ r \in Requests /\ q[r] \in Inputs /\ q[r].op # "ClearCart" /\ w[r] \in Nat
        /\ v[r] = w[r] + 1 /\ v[r] <= Writes(q[r]) /\ Writes(q[r]) \in Nat
        /\ \A s \in E : s \in Requests /\ v[s] = w[s]
    BY RequestFields DEF Adders, OneMore
  <1>3. AddedIn(q[r], w[r] + 1, p) = AddedIn(q[r], w[r], p) + more
    BY <1>2, AddedNext
  <1>4. g[r] = f[r] + more
    BY <1>2, <1>3 DEF Additions
  <1>5. SameOn(f, g, E) /\ IntsOn(f, E) /\ f[r] \in Int /\ g[r] \in Int
    BY <1>1, <1>2 DEF SameOn, IntsOn, Additions
  <1>6. IsFiniteSet(D) /\ IsFiniteSet(E)
    BY FS_Subset DEF Adders
  <1>7. more \in Int
    <2>1. q[r].items \in Seq(Item) /\ w[r] + 1 \in 1 .. Len(q[r].items)
      BY <1>2, RequestFields
    <2>2. i \in Item
      BY <2>1
    <2> QED
      BY <2>2, MaxQtyAssumption DEF Item
  <1> HIDE DEF f, g, E, more
  <1>8. SumFunctionOnSet(f, E) = SumFunctionOnSet(g, E) /\ SumFunctionOnSet(f, E) \in Int
    BY <1>5, <1>6, SumSame, SumInt
  <1>9. /\ SumFunctionOnSet(f, D) = f[r] + SumFunctionOnSet(f, E)
        /\ SumFunctionOnSet(g, D) = g[r] + SumFunctionOnSet(g, E)
    BY <1>1, <1>6, SumRemove DEF E
  <1>10. AddedBy(D, q, v, p) = AddedBy(D, q, w, p) + more
    BY <1>1, <1>4, <1>5, <1>7, <1>8, <1>9
  <1> QED
    BY <1>10 DEF more

\* The invariant: finitely many requests have arrived, none has written more
\* than it carries, and carts that are only added to hold the sums.
FinitelyMany == IsFiniteSet({ r \in Requests : pc[r] # "idle" })
WritesBounded == \A r \in Requests : wrote[r] <= Writes(req[r])
Counted ==
  \A u \in Users : OnlyAdded(u) =>
    \A p \in Products : Contents[u][p] = AddedBy(Arrived(u), req, wrote, p)
CountInv == FinitelyMany /\ WritesBounded /\ Counted

LEMMA ArrivedAdders ==
  ASSUME TypeOK, FinitelyMany, WritesBounded, NEW u, OnlyAdded(u)
  PROVE  Adders(Arrived(u), req, wrote)
  <1>1. Arrived(u) \subseteq { r \in Requests : pc[r] # "idle" }
    BY DEF Arrived
  <1>2. IsFiniteSet(Arrived(u))
    BY <1>1, FS_Subset DEF FinitelyMany
  <1> QED
    BY <1>1, <1>2 DEF Adders, OnlyAdded, TypeOK, WritesBounded

\* The steps of the contract that matter here.
SamePc == \A r \in Requests : pc'[r] # "idle" <=> pc[r] # "idle"
Quiet == UNCHANGED <<req, wrote, Contents>> /\ SamePc
Arrives(r) ==
  /\ pc[r] = "idle"
  /\ \A s \in Requests : pc'[s] # "idle" <=> pc[s] # "idle" \/ s = r
  /\ UNCHANGED <<req, wrote, Contents>>
Writing(r, u) ==
  /\ pc[r] # "idle" /\ SamePc /\ req' = req
  /\ wrote[r] < Writes(req[r]) /\ wrote' = [wrote EXCEPT ![r] = @ + 1]
  /\ req[r].user = u
  /\ \E after : Promise!Change(r, Contents[u], after) /\ Contents' = [Contents EXCEPT ![u] = after]

LEMMA ContractSteps ==
  ASSUME TypeOK, TypeOK', StepRefines
  PROVE  \/ Quiet
         \/ \E r \in Requests : Arrives(r)
         \/ \E r \in Requests, u \in Users : Writing(r, u)
  <1>1. Called' = [r \in Requests |-> pc'[r] # "idle"]
    BY DEF Called
  <1>2. CASE UNCHANGED <<req, wrote, Contents, Called>>
    <2>1. SamePc
      BY <1>1, <1>2 DEF Called, SamePc
    <2> QED
      BY <1>2, <2>1 DEF Quiet
  <1>3. ASSUME NEW r \in Requests, Promise!Call(r) PROVE Arrives(r)
    <2>1. Called' = [Called EXCEPT ![r] = TRUE] /\ ~Called[r]
      BY <1>3 DEF Promise!Call, Called
    <2>2. \A s \in Requests : Called'[s] <=> Called[s] \/ s = r
      BY <2>1 DEF Called
    <2>3. UNCHANGED <<req, wrote, Contents>>
      BY <1>3 DEF Promise!Call
    <2> QED
      BY <1>1, <2>1, <2>2, <2>3 DEF Called, Arrives
  <1>4. ASSUME NEW r \in Requests, Promise!TakeEffect(r)
        PROVE  \E u \in Users : Writing(r, u)
    <2>1. PICK u \in Users : /\ req[r].user = u
                             /\ \E after : Promise!Change(r, Contents[u], after)
                                           /\ Contents' = [Contents EXCEPT ![u] = after]
      BY <1>4 DEF Promise!TakeEffect
    <2>2. /\ Called[r] /\ Called' = Called /\ req' = req
          /\ wrote[r] < Writes(req[r]) /\ wrote' = [wrote EXCEPT ![r] = @ + 1]
      BY <1>4 DEF Promise!TakeEffect, Promise!NumWrites, Writes, Called
    <2>3. pc[r] # "idle" /\ SamePc
      BY <1>1, <2>2 DEF Called, SamePc
    <2> QED
      BY <2>1, <2>2, <2>3 DEF Writing
  <1>5. ASSUME NEW r \in Requests, Promise!Succeed(r) \/ \E code : Promise!Fail(r, code)
        PROVE  UNCHANGED <<req, wrote, Contents, Called>>
    BY <1>5 DEF Promise!Succeed, Promise!Fail, Called
  <1>6. CASE UNCHANGED Promise!vars
    BY <1>2, <1>6 DEF Promise!vars, Called
  <1> QED
    BY <1>2, <1>3, <1>4, <1>5, <1>6 DEF StepRefines, Promise!Next

LEMMA QuietCounts ==
  ASSUME CountInv, Quiet
  PROVE  CountInv'
  <1>1. /\ { r \in Requests : pc'[r] # "idle" } = { r \in Requests : pc[r] # "idle" }
        /\ \A u : Arrived(u)' = Arrived(u)
    BY DEF Quiet, SamePc, Arrived
  <1>2. FinitelyMany' /\ WritesBounded'
    BY <1>1 DEF CountInv, FinitelyMany, WritesBounded, Quiet
  <1>3. ASSUME NEW u \in Users, OnlyAdded(u)', NEW p \in Products
        PROVE  Contents'[u][p] = AddedBy(Arrived(u), req, wrote, p)'
    <2>1. OnlyAdded(u)
      BY <1>1, <1>3 DEF OnlyAdded, Quiet
    <2>2. AddedBy(Arrived(u), req, wrote, p)' = AddedBy(Arrived(u), req, wrote, p)
      BY <1>1 DEF Quiet
    <2> QED
      BY <2>1, <2>2 DEF CountInv, Counted, Quiet
  <1> QED
    BY <1>2, <1>3 DEF CountInv, Counted

LEMMA ArrivalCounts ==
  ASSUME TypeOK, TypeOK', CountInv, NEW r \in Requests, wrote[r] = 0, Arrives(r)
  PROVE  CountInv'
  <1>1. { s \in Requests : pc'[s] # "idle" } = { s \in Requests : pc[s] # "idle" } \cup {r}
    BY DEF Arrives
  <1>2. FinitelyMany'
    <2> DEFINE D == { s \in Requests : pc[s] # "idle" }
    <2>1. IsFiniteSet(D)
      BY DEF CountInv, FinitelyMany
    <2> HIDE DEF D
    <2>2. IsFiniteSet(D \cup {r})
      BY <2>1, FS_AddElement
    <2> QED
      BY <1>1, <2>2 DEF FinitelyMany, D
  <1>3. WritesBounded'
    BY DEF CountInv, WritesBounded, Arrives
  <1>4. ASSUME NEW u \in Users, OnlyAdded(u)', NEW p \in Products
        PROVE  Contents'[u][p] = AddedBy(Arrived(u), req, wrote, p)'
    <2>1. Arrived(u)' = Arrived(u) \cup (IF req[r].user = u THEN {r} ELSE {})
      BY DEF Arrived, Arrives
    <2>2. OnlyAdded(u)
      BY <1>4, <2>1 DEF OnlyAdded, Arrives
    <2>3. Adders(Arrived(u), req, wrote) /\ r \notin Arrived(u)
      BY <2>2, ArrivedAdders DEF CountInv, Arrived, Arrives
    <2>4. AddedBy(Arrived(u), req, wrote, p)' = AddedBy(Arrived(u)', req, wrote, p)
      BY DEF Arrives, AddedBy
    <2>5. AddedBy(Arrived(u)', req, wrote, p) = AddedBy(Arrived(u), req, wrote, p)
      <3>1. CASE req[r].user # u
        BY <2>1, <3>1
      <3>2. CASE req[r].user = u
        <4> DEFINE D == Arrived(u)
        <4>1. req[r].op # "ClearCart"
          BY <1>4, <2>1, <3>2 DEF OnlyAdded, Arrives
        <4>2. Adders(D \cup {r}, req, wrote)
          BY <2>3, <4>1, FS_AddElement DEF Adders, CountInv, WritesBounded
        <4>3. Arrived(u)' = D \cup {r}
          BY <2>1, <3>2
        <4> HIDE DEF D
        <4>4. AddedBy(D \cup {r}, req, wrote, p) = AddedBy(D, req, wrote, p)
          BY <2>3, <4>2, ArrivalAddsNothing DEF D
        <4> QED
          BY <4>3, <4>4 DEF D
      <3> QED
        BY <3>1, <3>2
    <2>6. Contents'[u][p] = Contents[u][p]
      BY DEF Arrives
    <2> QED
      BY <2>2, <2>4, <2>5, <2>6 DEF CountInv, Counted
  <1> QED
    BY <1>2, <1>3, <1>4 DEF CountInv, Counted

LEMMA WriteCounts ==
  ASSUME TypeOK, TypeOK', CountInv, NEW r \in Requests, NEW u \in Users, Writing(r, u)
  PROVE  CountInv'
  <1>1. /\ { s \in Requests : pc'[s] # "idle" } = { s \in Requests : pc[s] # "idle" }
        /\ \A v : Arrived(v)' = Arrived(v)
    BY DEF Writing, SamePc, Arrived
  <1>2. FinitelyMany'
    BY <1>1 DEF CountInv, FinitelyMany
  <1>3. /\ req[r] \in Inputs /\ wrote[r] \in Nat /\ Writes(req[r]) \in Nat
        /\ wrote'[r] = wrote[r] + 1 /\ \A s \in Requests : s # r => wrote'[s] = wrote[s]
        /\ req' = req
    BY RequestFields DEF TypeOK, Writing
  <1>4. WritesBounded'
    BY <1>3 DEF CountInv, WritesBounded, Writing
  <1>5. ASSUME NEW v \in Users, OnlyAdded(v)', NEW p \in Products
        PROVE  Contents'[v][p] = AddedBy(Arrived(v), req, wrote, p)'
    <2>1. OnlyAdded(v) /\ Contents[v][p] = AddedBy(Arrived(v), req, wrote, p)
      BY <1>1, <1>3, <1>5 DEF OnlyAdded, CountInv, Counted
    <2>2. AddedBy(Arrived(v), req, wrote, p)' = AddedBy(Arrived(v), req, wrote', p)
      BY <1>1, <1>3
    <2>3. Contents = [w \in Users |-> Contents[w]]
      BY DEF Contents
    <2>4. CASE v # u
      <3>1. \A s \in Arrived(v) : wrote'[s] = wrote[s]
        BY <1>3, <2>4 DEF Arrived, Writing
      <3>2. AddedBy(Arrived(v), req, wrote', p) = AddedBy(Arrived(v), req, wrote, p)
        BY <3>1 DEF AddedBy
      <3>3. Contents'[v] = Contents[v]
        BY <2>3, <2>4 DEF Writing
      <3> QED
        BY <2>1, <2>2, <3>2, <3>3
    <2>5. CASE v = u
      <3> DEFINE D == Arrived(u)
                 i == req[r].items[wrote[r] + 1]
      <3>1. r \in D
        BY DEF Arrived, Writing
      <3>2. req[r].op \notin {"SetItemQuantity", "RemoveItem", "ClearCart"}
        BY <2>1, <2>5, <3>1 DEF OnlyAdded
      <3>3. PICK after : /\ Contents' = [Contents EXCEPT ![u] = after]
                         /\ Promise!Change(r, Contents[u], after)
        BY DEF Writing
      <3>4. Contents'[u] = after
        BY <2>3, <3>3
      <3>5. after = [Contents[u] EXCEPT ![i.product] = Contents[u][i.product] + i.quantity]
        BY <3>2, <3>3 DEF Promise!Change
      <3>6. DOMAIN Contents[u] = Products
        <4>1. CASE ActiveCarts(u) = {}
          BY <4>1 DEF Contents, NoRows
        <4>2. CASE ActiveCarts(u) # {}
          <5> DEFINE c == CHOOSE c \in ActiveCarts(u) : TRUE
          <5>1. c \in CartIds /\ Contents[u] = items[c]
            BY <4>2 DEF Contents, ActiveCarts
          <5> QED
            BY <5>1 DEF TypeOK, Rows
        <4> QED
          BY <4>1, <4>2
      <3>7. after[p] = IF p = i.product THEN Contents[u][p] + i.quantity ELSE Contents[u][p]
        BY <3>5, <3>6
      <3>8. Adders(D, req, wrote)
        BY <2>1, <2>5, ArrivedAdders DEF CountInv
      <3>9. Adders(D, req, wrote')
        BY <1>3, <1>4, <3>8 DEF Adders, TypeOK, WritesBounded
      <3>10. OneMore(wrote, wrote', r)
        BY DEF Writing, OneMore
      <3>11. AddedBy(D, req, wrote', p) =
               AddedBy(D, req, wrote, p) + (IF i.product = p THEN i.quantity ELSE 0)
        <4> HIDE DEF D
        <4> QED
          BY <3>1, <3>8, <3>9, <3>10, WriteAdds
      <3>12. AddedBy(D, req, wrote, p) \in Int
        BY <3>8, AddedBySum, SumInt DEF Adders
      <3> QED
        BY <2>1, <2>2, <2>5, <3>4, <3>7, <3>11, <3>12
    <2> QED
      BY <2>4, <2>5
  <1> QED
    BY <1>2, <1>4, <1>5 DEF CountInv, Counted

\* A cart that is only added to holds the sum of what its requests have written,
\* however their statements interleaved and whichever of them were interrupted.
THEOREM SumsKept == Spec => []NoIncrementLost
  <1>1. Init => CountInv
    <2> SUFFICES ASSUME Init PROVE CountInv
      OBVIOUS
    <2>1. { r \in Requests : pc[r] # "idle" } = {} /\ \A u : Arrived(u) = {}
      BY DEF Init, Arrived
    <2>2. FinitelyMany
      BY <2>1, FS_EmptySet DEF FinitelyMany
    <2>3. WritesBounded
      BY RequestFields DEF Init, WritesBounded
    <2>4. ASSUME NEW u \in Users, NEW p \in Products
          PROVE  Contents[u][p] = AddedBy({}, req, wrote, p)
      <3>1. AddedBy({}, req, wrote, p) = 0
        <4> DEFINE f == [r \in {} |-> AddedIn(req[r], wrote[r], p)]
        <4>1. AddedBy({}, req, wrote, p) = SumFunctionOnSet(f, {})
          BY DEF AddedBy, SumFunction
        <4> HIDE DEF f
        <4> QED
          BY <4>1, SumEmpty
      <3>2. ActiveCarts(u) = {}
        BY SentinelAssumption DEF Init, ActiveCarts
      <3>3. Contents[u][p] = 0
        BY <3>2 DEF Contents, NoRows
      <3> QED
        BY <3>1, <3>3
    <2> QED
      BY <2>1, <2>2, <2>3, <2>4 DEF CountInv, Counted
  <1>2. IInv /\ CountInv /\ [Next]_vars => CountInv'
    <2> SUFFICES ASSUME IInv, CountInv, [Next]_vars PROVE CountInv'
      OBVIOUS
    <2>1. TypeOK /\ TypeOK' /\ StepRefines
      BY NextIInv, NextRefines DEF IInv
    <2>2. \A r \in Requests : pc[r] = "idle" => wrote[r] = 0
      BY DEF IInv, Control, At
    <2>3. ASSUME NEW r \in Requests, Arrives(r) PROVE CountInv'
      <3>1. wrote[r] = 0
        BY <2>2, <2>3 DEF Arrives
      <3> QED
        BY <2>1, <2>3, <3>1, ArrivalCounts
    <2> QED
      BY <2>1, <2>3, ContractSteps, QuietCounts, WriteCounts
  <1>3. IInv /\ CountInv => NoIncrementLost
    <2> SUFFICES ASSUME IInv, CountInv, NEW u \in Users, OnlyAdded(u),
                        NEW c \in ActiveCarts(u), NEW p \in Products
                 PROVE  items[c][p] = SumFunction([r \in Arrived(u) |-> Added(r, p)])
      BY DEF NoIncrementLost
    <2>1. c \in CartIds /\ carts[c] = u /\ u # NoUser
      BY SentinelAssumption DEF ActiveCarts
    <2>2. \A d \in CartIds : carts[d] = carts[c] => d = c
      BY <2>1 DEF IInv, OneActive
    <2>3. Contents[u] = items[c]
      BY <2>1, <2>2, ContentsOfTables, ContentsOfCart
    <2>4. SumFunction([r \in Arrived(u) |-> Added(r, p)]) = AddedBy(Arrived(u), req, wrote, p)
      BY AddedByRequest DEF AddedBy
    <2> QED
      BY <2>3, <2>4 DEF CountInv, Counted
  <1> QED
    BY <1>1, <1>2, <1>3, Invariant, PTL DEF Spec
-----------------------------------------------------------------------------
(* Handlers wait for nobody.                                               *)

\* What a handler has still to do after it has read the cart.
ToWrite(r) ==
  IF stage[r] = "last" \/ Reads(r) THEN 0 ELSE Writes(req[r]) - wrote[r] + 2

LEMMA LeftToDo ==
  ASSUME IInv, NEW r \in Requests
  PROVE  /\ wrote[r] \in Nat /\ Writes(req[r]) \in Nat
         /\ pc[r] \in {"find", "list", "create", "write"} => ToWrite(r) \in Nat
         /\ pc[r] = "write" => ToWrite(r) = Writes(req[r]) - wrote[r] + 2 /\ ToWrite(r) >= 3
         /\ Reads(r) => Writes(req[r]) = 0
  <1>1. At(r) /\ req[r] \in Inputs /\ wrote[r] \in Nat
    BY DEF IInv, Control, TypeOK
  <1>2. Writes(req[r]) \in Nat /\ (Reads(r) => Writes(req[r]) = 0)
    BY <1>1, RequestFields DEF Reads
  <1> QED
    BY <1>1, <1>2 DEF At, ToWrite

\* Every statement is one less to do, and so is an interruption.
LEMMA HandlerCounts ==
  ASSUME IInv, NEW r \in Requests, Handle(r) \/ Interrupt(r)
  PROVE  StatementsLeft(r)' < StatementsLeft(r)
  <1>1. /\ TypeOK /\ At(r) /\ req' = req
        /\ wrote[r] \in Nat /\ Writes(req[r]) \in Nat
        /\ pc[r] \in {"find", "list", "create", "write"} => ToWrite(r) \in Nat
        /\ pc[r] = "write" => ToWrite(r) = Writes(req[r]) - wrote[r] + 2 /\ ToWrite(r) >= 3
        /\ Reads(r) => Writes(req[r]) = 0
    BY LeftToDo DEF IInv, Control, Handle, FindCart, FindNothing, ListItems, Create,
       CreateConflict, Write, WriteRejected, Interrupt
  <1> USE DEF StatementsLeft, ToWrite, Reads, GetsOrCreates
  <1>2. CASE FindCart(r)
    BY <1>1, <1>2 DEF FindCart, TypeOK
  <1>3. CASE FindNothing(r)
    BY <1>1, <1>3 DEF FindNothing, Finish, TypeOK
  <1>4. CASE ListItems(r)
    BY <1>1, <1>4 DEF ListItems, Finish, TypeOK
  <1>5. CASE Create(r)
    BY <1>1, <1>5 DEF Create, ReadBack, TypeOK, At
  <1>6. CASE CreateConflict(r)
    BY <1>1, <1>6 DEF CreateConflict, Finish, TypeOK, At
  <1>7. CASE Write(r)
    BY <1>1, <1>7 DEF Write, Effect, ReadBack, TypeOK, At
  <1>8. CASE WriteRejected(r) \/ Interrupt(r)
    BY <1>1, <1>8 DEF WriteRejected, Interrupt, Finish, TypeOK
  <1> QED
    BY <1>2, <1>3, <1>4, <1>5, <1>6, <1>7, <1>8 DEF Handle

\* However other requests interleave, each handler issues no more statements than
\* it has left, and each it issues is one of them.
THEOREM FewStatements == Spec => WaitFree
  <1>1. ASSUME IInv, NEW r \in Requests, pc[r] \notin {"idle", "done"},
               NEW s \in Requests, Start(s) \/ Handle(s) \/ Environment(s)
        PROVE  UNCHANGED <<pc[r], stage[r], wrote[r]>> \/ StatementsLeft(r)' < StatementsLeft(r)
    <2>1. CASE s # r
      BY <1>1, <2>1 DEF IInv, TypeOK, Start, Handle, Environment, FindCart, FindNothing,
         ListItems, Create, CreateConflict, Write, WriteRejected, Interrupt, LateCreate,
         LateWrite, Effect, Finish, ReadBack
    <2>2. CASE s = r
      <3>1. Handle(r) \/ Interrupt(r)
        BY <1>1, <2>2 DEF IInv, Control, Left, Start, Environment, LateCreate, LateWrite
      <3> QED
        BY <1>1, <3>1, HandlerCounts
    <2> QED
      BY <2>1, <2>2
  <1>2. IInv /\ [Next]_vars =>
          [\A r \in Requests : pc[r] \notin {"idle", "done"} =>
             UNCHANGED <<pc[r], stage[r], wrote[r]>> \/ StatementsLeft(r)' < StatementsLeft(r)]_vars
    BY <1>1 DEF Next
  <1> QED
    BY <1>2, Invariant, PTL DEF Spec, WaitFree

\* The statement of r can run, or it fails.
Accepts(r) ==
  \/ req[r].op \in {"AddItem", "CreateCart"} /\ UpsertAccepts(cart[r], NextItem(r))
  \/ req[r].op = "SetItemQuantity" /\ UpdateAccepts(cart[r], NextItem(r))
  \/ req[r].op = "RemoveItem" /\ NextItem(r).product \in Products
  \/ req[r].op = "ClearCart"
CanRun(r) ==
  \/ pc[r] \in {"find", "list"}
  \/ pc[r] = "create" /\ \E c \in CartIds : carts[c] \in {req[r].user, NoUser}
  \/ pc[r] = "write" /\ (Accepts(r) \/ Rejects(r))

\* Random UUIDs do not run out.
EnoughIds ==
  /\ IsFiniteSet(Users)
  /\ IsFiniteSet(CartIds) => Cardinality(CartIds) >= Cardinality(Users)

LEMMA IdLeft ==
  ASSUME EnoughIds, TypeOK, OneActive, NEW u \in Users
  PROVE  \E c \in CartIds : carts[c] \in {u, NoUser}
  <1>1. SUFFICES ASSUME \A c \in CartIds : carts[c] \notin {u, NoUser}
                 PROVE  FALSE
    OBVIOUS
  <1> DEFINE others == Users \ {u}
  <1>2. carts \in [CartIds -> others]
    BY <1>1 DEF TypeOK
  <1>3. IsInjective(carts)
    BY <1>1, <1>2 DEF OneActive, IsInjective
  <1>4. carts \in Injection(CartIds, others)
    BY <1>2, <1>3 DEF Injection
  <1>5. IsFiniteSet(others) /\ Cardinality(others) = Cardinality(Users) - 1
    BY FS_RemoveElement DEF EnoughIds
  <1> HIDE DEF others
  <1>6. IsFiniteSet(CartIds) /\ Cardinality(CartIds) <= Cardinality(others)
    BY <1>4, <1>5, FS_Injection
  <1> QED
    BY <1>5, <1>6, FS_CardinalityType DEF EnoughIds

\* A handler under way always has a statement to issue that the database answers,
\* whatever the others are doing: there is nothing in the service to wait for.
THEOREM NobodyWaits ==
  ASSUME EnoughIds
  PROVE  Spec => [](\A r \in Requests : pc[r] \notin {"idle", "done"} => CanRun(r))
  <1>1. ASSUME IInv, NEW r \in Requests, pc[r] \notin {"idle", "done"}
        PROVE  CanRun(r)
    <2>1. At(r) /\ TypeOK /\ OneActive /\ pc[r] \in {"find", "list", "create", "write"}
      BY <1>1 DEF IInv, Control, TypeOK
    <2>2. req[r] \in Inputs /\ req[r].op \in Ops /\ req[r].user \in Users \cup {Malformed}
      BY <2>1, RequestFields DEF TypeOK
    <2>3. CASE pc[r] = "create"
      BY <2>1, <2>2, <2>3, IdLeft DEF At, CanRun
    <2>4. CASE pc[r] = "write"
      <3>1. wrote[r] < Writes(req[r]) /\ ~Reads(r)
        BY <2>1, <2>2, <2>4, LeftToDo, <1>1 DEF At, TypeOK
      <3>2. req[r].op # "ClearCart" => NextItem(r).product \in Products \cup {Malformed}
        BY <2>1, <3>1, NextItemType
      <3> QED
        BY <2>2, <2>4, <3>1, <3>2 DEF CanRun, Accepts, Rejects, Reads, Ops
    <2> QED
      BY <2>1, <2>3, <2>4 DEF CanRun
  <1>2. IInv => \A r \in Requests : pc[r] \notin {"idle", "done"} => CanRun(r)
    BY <1>1
  <1> QED
    BY <1>2, Invariant, PTL
=============================================================================
