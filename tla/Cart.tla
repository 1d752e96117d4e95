-------------------------------- MODULE Cart --------------------------------
(***************************************************************************)
(* The cart service: the handlers of internal/cart/grpc/server.go, run     *)
(* concurrently, over the tables carts and cart_items.                     *)
(*                                                                         *)
(* A request is one RPC.  Its handler holds no lock and opens no           *)
(* transaction: it is a sequence of SQL statements, each its own           *)
(* transaction, and every statement is one action here.  Between two of    *)
(* them any other request may run.  The environment may interrupt a        *)
(* request at any statement (deadline of the caller, lost connection,      *)
(* death of the process); a statement that was already sent may still      *)
(* take effect later.                                                      *)
(***************************************************************************)
EXTENDS Integers, Sequences, FiniteSetsExt, Functions

CONSTANTS
  Users,      \* the user ids that are UUIDs
  Products,   \* the product ids that are UUIDs
  CartIds,    \* the values gen_random_uuid() can give a cart
  Requests,   \* the RPCs of a behaviour
  Inputs,     \* what an RPC may carry
  Malformed,  \* an id uuid.Parse refuses
  NoUser,     \* owner of a row of carts that does not exist
  NoCart,     \* a request that has not learned a cart id
  MaxQty      \* the largest value of the column quantity INT

Ops == {"GetCart", "CreateCart", "GetOrCreateCart", "AddItem",
        "SetItemQuantity", "RemoveItem", "ClearCart"}

\* A product id and an int32 quantity, as a request carries them.
Item == [product : Products \cup {Malformed}, quantity : -MaxQty - 1 .. MaxQty]

\* The handlers that write one row carry one item; CreateCart carries any
\* number; the others carry none.
Request ==
  { q \in [op : Ops, user : Users \cup {Malformed}, items : Seq(Item)] :
      /\ q.op \in {"AddItem", "SetItemQuantity", "RemoveItem"} => Len(q.items) = 1
      /\ q.op \in {"GetCart", "GetOrCreateCart", "ClearCart"} => q.items = <<>> }

ASSUME SentinelAssumption ==
  /\ Malformed \notin Users \cup Products \cup {NoUser}
  /\ NoUser \notin Users
  /\ NoCart \notin CartIds
ASSUME InputAssumption == \A q \in Inputs : q \in Request
ASSUME MaxQtyAssumption == MaxQty \in Nat \ {0}

VARIABLES
  carts,    \* table carts: the owner of each row (every row is 'ACTIVE')
  items,    \* table cart_items: the quantity of each row, 0 for no row
  req,      \* the input of each request
  pc,       \* the statement a handler runs next
  stage,    \* which of its reads of the cart a handler is in
  cart,     \* the cart id a handler has learned
  wrote,    \* how many of a request's writes have taken effect
  orphan,   \* the statement an interrupted request left behind in the database
  answer,   \* the outcome of the RPC
  view      \* the items of the cart in an OK answer

tables == <<carts, items>>
vars == <<carts, items, req, pc, stage, cart, wrote, orphan, answer, view>>

Rows == [Products -> 0 .. MaxQty]
NoRows == [p \in Products |-> 0]
-----------------------------------------------------------------------------
(* What a handler knows of its request.                                    *)

\* GetOrCreate serves these two; the others start with Get or an INSERT.
GetsOrCreates(r) == req[r].op \in {"GetOrCreateCart", "AddItem"}

Reads(r) == req[r].op \in {"GetCart", "GetOrCreateCart"}

\* The number of write statements a request issues, and the item of the next.
Writes(q) == IF q.op = "ClearCart" THEN 1 ELSE Len(q.items)
NextItem(r) == req[r].items[wrote[r] + 1]

\* The rows GetActiveCartByUserID selects.
ActiveCarts(u) == { c \in CartIds : carts[c] = u }

Finish(r, code) ==
  /\ pc' = [pc EXCEPT ![r] = "done"]
  /\ answer' = [answer EXCEPT ![r] = code]

ReadBack(r) ==
  /\ pc' = [pc EXCEPT ![r] = "find"]
  /\ stage' = [stage EXCEPT ![r] = "last"]
-----------------------------------------------------------------------------
Init ==
  /\ carts = [c \in CartIds |-> NoUser]
  /\ items = [c \in CartIds |-> NoRows]
  /\ req \in [Requests -> Inputs]
  /\ pc = [r \in Requests |-> "idle"]
  /\ stage = [r \in Requests |-> "first"]
  /\ cart = [r \in Requests |-> NoCart]
  /\ wrote = [r \in Requests |-> 0]
  /\ orphan = [r \in Requests |-> "none"]
  /\ answer = [r \in Requests |-> "none"]
  /\ view = [r \in Requests |-> NoRows]

\* The RPC arrives.  Every handler but CreateCart begins by reading the cart.
Start(r) ==
  /\ pc[r] = "idle"
  /\ IF req[r].op = "CreateCart"
       THEN IF req[r].user = Malformed
              THEN Finish(r, "Internal")
              ELSE pc' = [pc EXCEPT ![r] = "create"] /\ UNCHANGED answer
       ELSE pc' = [pc EXCEPT ![r] = "find"] /\ UNCHANGED answer
  /\ UNCHANGED <<tables, req, stage, cart, wrote, orphan, view>>

\* CartRepo.Get, first statement, when the user has a cart.
FindCart(r) ==
  /\ pc[r] = "find"
  /\ \E c \in ActiveCarts(req[r].user) : cart' = [cart EXCEPT ![r] = c]
  /\ pc' = [pc EXCEPT ![r] = "list"]
  /\ UNCHANGED <<tables, req, stage, wrote, orphan, answer, view>>

\* The same statement without a row, or with an id that does not parse.  Only
\* the first read of GetOrCreate goes on; GetCart and the first read of
\* ClearCart tell the caller NotFound; everyone else wraps it as Internal.
FindNothing(r) ==
  /\ pc[r] = "find"
  /\ ActiveCarts(req[r].user) = {}
  /\ IF req[r].user # Malformed /\ stage[r] = "first" /\ GetsOrCreates(r)
       THEN pc' = [pc EXCEPT ![r] = "create"] /\ UNCHANGED answer
       ELSE Finish(r, IF /\ req[r].user # Malformed
                         /\ stage[r] = "first"
                         /\ req[r].op \in {"GetCart", "ClearCart"}
                        THEN "NotFound" ELSE "Internal")
  /\ UNCHANGED <<tables, req, stage, cart, wrote, orphan, view>>

\* CartRepo.Get, second statement.  The last read of a handler is its answer.
ListItems(r) ==
  /\ pc[r] = "list"
  /\ IF Reads(r) \/ stage[r] = "last"
       THEN Finish(r, "OK") /\ view' = [view EXCEPT ![r] = items[cart[r]]]
       ELSE pc' = [pc EXCEPT ![r] = "write"] /\ UNCHANGED <<answer, view>>
  /\ UNCHANGED <<tables, req, stage, cart, wrote, orphan>>

\* Mutant: the table without the unique index.
InsertCartUnindexed(u, c) ==
  /\ carts[c] = NoUser
  /\ carts' = [carts EXCEPT ![c] = u]

\* INSERT INTO carts of a fresh id, allowed by ux_carts_user_active.
InsertCart(u, c) ==
  /\ ActiveCarts(u) = {}
  /\ carts[c] = NoUser
  /\ carts' = [carts EXCEPT ![c] = u]

\* CreateActiveCart succeeds.  GetOrCreate drops the returned row and reads
\* again; CreateCart keeps the id, writes its items and reads back.
Create(r) ==
  /\ pc[r] = "create"
  /\ \E c \in CartIds :
       /\ InsertCart(req[r].user, c)
       /\ IF req[r].op = "CreateCart"
            THEN /\ cart' = [cart EXCEPT ![r] = c]
                 /\ IF req[r].items = <<>>
                      THEN ReadBack(r)
                      ELSE pc' = [pc EXCEPT ![r] = "write"] /\ UNCHANGED stage
            ELSE /\ pc' = [pc EXCEPT ![r] = "find"]
                 /\ stage' = [stage EXCEPT ![r] = "retry"]
                 /\ UNCHANGED cart
  /\ UNCHANGED <<items, req, wrote, orphan, answer, view>>

\* Mutant: GetOrCreate does not recognise the violation.
CreateConflictFails(r) ==
  /\ pc[r] = "create"
  /\ ActiveCarts(req[r].user) # {}
  /\ Finish(r, "Internal")
  /\ UNCHANGED <<tables, req, stage, cart, wrote, orphan, view>>

\* Mutant: GetOrCreate inserts again instead of reading.
CreateConflictRetries(r) ==
  /\ pc[r] = "create"
  /\ ActiveCarts(req[r].user) # {}
  /\ IF req[r].op = "CreateCart" THEN Finish(r, "Internal") ELSE UNCHANGED <<pc, answer>>
  /\ UNCHANGED <<tables, req, stage, cart, wrote, orphan, view>>

\* Mutant: GetOrCreate starts over.
CreateConflictStartsOver(r) ==
  /\ pc[r] = "create"
  /\ ActiveCarts(req[r].user) # {}
  /\ IF req[r].op = "CreateCart"
       THEN Finish(r, "Internal")
       ELSE pc' = [pc EXCEPT ![r] = "find"] /\ UNCHANGED answer
  /\ UNCHANGED <<tables, req, stage, cart, wrote, orphan, view>>

\* CreateActiveCart violates the unique index: another request created the
\* cart since the read.  GetOrCreate reads it; CreateCart fails.
CreateConflict(r) ==
  /\ pc[r] = "create"
  /\ ActiveCarts(req[r].user) # {}
  /\ IF req[r].op = "CreateCart"
       THEN Finish(r, "Internal") /\ UNCHANGED stage
       ELSE /\ pc' = [pc EXCEPT ![r] = "find"]
            /\ stage' = [stage EXCEPT ![r] = "retry"]
            /\ UNCHANGED answer
  /\ UNCHANGED <<tables, req, cart, wrote, orphan, view>>
-----------------------------------------------------------------------------
(* The write statements on cart_items: what each accepts and what it does. *)

\* Mutant: the sum is not held to the column's range.
UpsertAcceptsAnySum(c, i) == i.product \in Products /\ i.quantity > 0

UpsertAccepts(c, i) ==
  /\ i.product \in Products
  /\ i.quantity > 0
  /\ items[c][i.product] + i.quantity <= MaxQty
\* Mutant: SET quantity = EXCLUDED.quantity.
UpsertOverwrite(c, i) == items' = [items EXCEPT ![c][i.product] = i.quantity]

UpsertAddItemIncrement(c, i) ==
  items' = [items EXCEPT ![c][i.product] = @ + i.quantity]

UpdateAccepts(c, i) ==
  /\ i.product \in Products
  /\ items[c][i.product] > 0
  /\ i.quantity > 0
UpdateQuantity(c, i) == items' = [items EXCEPT ![c][i.product] = i.quantity]

DeleteItem(c, i) == items' = [items EXCEPT ![c][i.product] = 0]
\* Mutant: DELETE FROM cart_items without its WHERE.
DeleteEverything(c) == items' = [d \in CartIds |-> NoRows]

DeleteAllItems(c) == items' = [items EXCEPT ![c] = NoRows]

\* The write of request r takes effect.
Effect(r) ==
  /\ \/ /\ req[r].op \in {"AddItem", "CreateCart"}
        /\ UpsertAccepts(cart[r], NextItem(r))
        /\ UpsertAddItemIncrement(cart[r], NextItem(r))
     \/ /\ req[r].op = "SetItemQuantity"
        /\ UpdateAccepts(cart[r], NextItem(r))
        /\ UpdateQuantity(cart[r], NextItem(r))
     \/ /\ req[r].op = "RemoveItem"
        /\ NextItem(r).product \in Products
        /\ DeleteItem(cart[r], NextItem(r))
     \/ /\ req[r].op = "ClearCart"
        /\ DeleteAllItems(cart[r])
  /\ wrote' = [wrote EXCEPT ![r] = @ + 1]

Rejects(r) ==
  \/ /\ req[r].op \in {"AddItem", "CreateCart"}
     /\ ~UpsertAccepts(cart[r], NextItem(r))
  \/ /\ req[r].op = "SetItemQuantity"
     /\ ~UpdateAccepts(cart[r], NextItem(r))
  \/ /\ req[r].op = "RemoveItem"
     /\ NextItem(r).product = Malformed

Write(r) ==
  /\ pc[r] = "write"
  /\ Effect(r)
  /\ IF wrote'[r] = Writes(req[r]) THEN ReadBack(r) ELSE UNCHANGED <<pc, stage>>
  /\ UNCHANGED <<carts, req, cart, orphan, answer, view>>

\* An id that does not parse, a CHECK or range error, or no row to update.
WriteRejected(r) ==
  /\ pc[r] = "write"
  /\ Rejects(r)
  /\ Finish(r, "Internal")
  /\ UNCHANGED <<tables, req, stage, cart, wrote, orphan, view>>
-----------------------------------------------------------------------------
(* The environment.                                                        *)

\* The context ends, the connection breaks or the process dies while r waits
\* for a statement.  Whatever code the caller is given then, DeadlineExceeded,
\* Unavailable or a handler's Internal, it tells nothing of the statement, which
\* may be with the database already.
Interrupt(r) ==
  /\ pc[r] \in {"find", "list", "create", "write"}
  /\ Finish(r, "Unknown")
  /\ orphan' = [orphan EXCEPT ![r] = IF pc[r] \in {"create", "write"} THEN pc[r] ELSE "none"]
  /\ UNCHANGED <<tables, req, stage, cart, wrote, view>>

\* The database gets to an orphaned statement.
LateCreate(r) ==
  /\ orphan[r] = "create"
  /\ \E c \in CartIds : InsertCart(req[r].user, c)
  /\ orphan' = [orphan EXCEPT ![r] = "none"]
  /\ UNCHANGED <<items, req, pc, stage, cart, wrote, answer, view>>

LateWrite(r) ==
  /\ orphan[r] = "write"
  /\ Effect(r)
  /\ orphan' = [orphan EXCEPT ![r] = "none"]
  /\ UNCHANGED <<carts, req, pc, stage, cart, answer, view>>
-----------------------------------------------------------------------------
Handle(r) ==
  \/ FindCart(r) \/ FindNothing(r) \/ ListItems(r)
  \/ Create(r) \/ CreateConflict(r)
  \/ Write(r) \/ WriteRejected(r)

Environment(r) == Interrupt(r) \/ LateCreate(r) \/ LateWrite(r)

Next == \E r \in Requests : Start(r) \/ Handle(r) \/ Environment(r)

Spec == Init /\ [][Next]_vars

\* net/http and grpc-go run each handler in a goroutine of its own, and the
\* database answers every statement.
FairSpec == Spec /\ \A r \in Requests : WF_vars(Handle(r))
-----------------------------------------------------------------------------
(* Properties.                                                             *)

TypeOK ==
  /\ carts \in [CartIds -> Users \cup {NoUser}]
  /\ items \in [CartIds -> Rows]
  /\ req \in [Requests -> Inputs]
  /\ pc \in [Requests -> {"idle", "find", "list", "create", "write", "done"}]
  /\ stage \in [Requests -> {"first", "retry", "last"}]
  /\ cart \in [Requests -> CartIds \cup {NoCart}]
  /\ wrote \in [Requests -> Nat]
  /\ orphan \in [Requests -> {"none", "create", "write"}]
  /\ answer \in [Requests -> {"none", "OK", "NotFound", "Internal", "Unknown"}]
  /\ view \in [Requests -> Rows]

\* All requests that have learned the cart id of a user have learned the same
\* one, whichever of them created the cart, and it is the user's: the racing
\* reads and inserts of GetOrCreate agree (cart_concurrency_test.go, len(ids)).
SameCart ==
  \A r, s \in Requests :
    cart[r] # NoCart =>
      /\ ActiveCarts(req[r].user) = {cart[r]}
      /\ cart[s] # NoCart /\ req[r].user = req[s].user => cart[r] = cart[s]

\* Undisturbed by the environment, GetOrCreate obtains a cart, however its
\* INSERT raced (the insert and both reads always leave a row to find); and no
\* handler that has done its write fails when it reads the cart back.
GetOrCreateConverges ==
  \A r \in Requests :
    answer[r] \in {"NotFound", "Internal"} /\ req[r].user # Malformed =>
      /\ GetsOrCreates(r) => cart[r] # NoCart
      /\ stage[r] # "last"

\* The quantity request r's effective writes have added to row p.
Added(r, p) ==
  SumFunction([n \in { m \in 1 .. wrote[r] : req[r].items[m].product = p } |->
                 req[r].items[n].quantity])

\* The requests of user u that have arrived.
Arrived(u) == { r \in Requests : pc[r] # "idle" /\ req[r].user = u }

\* A cart that is only added to, so far, holds of each product the sum of the
\* quantities added, however the upserts interleaved and whichever of them were
\* interrupted (cart_concurrency_test.go, gotQty).
OnlyAdded(u) ==
  \A r \in Arrived(u) : req[r].op \notin {"SetItemQuantity", "RemoveItem", "ClearCart"}
NoIncrementLost ==
  \A u \in Users : OnlyAdded(u) =>
    \A c \in ActiveCarts(u), p \in Products :
      items[c][p] = SumFunction([r \in Arrived(u) |-> Added(r, p)])

\* The cart a user sees: no row in carts reads as an empty cart.
Contents ==
  [u \in Users |->
    IF ActiveCarts(u) = {} THEN NoRows ELSE items[CHOOSE c \in ActiveCarts(u) : TRUE]]

Promise == INSTANCE CartContract
  WITH contents <- Contents, called <- [r \in Requests |-> pc[r] # "idle"]

\* The handlers keep the contract of CartContract: statement by statement they
\* behave as atomic writes, at most once each, and a reading at the answer.
KeepsContract == Promise!Spec

\* The statements that the handler of r has still to issue, at most.
StatementsLeft(r) ==
  LET writing == IF stage[r] = "last" \/ Reads(r) THEN 0
                 ELSE Writes(req[r]) - wrote[r] + 2 IN
  CASE pc[r] = "write"  -> writing
    [] pc[r] = "list"   -> 1 + writing
    [] pc[r] = "find"   -> (IF stage[r] = "first" /\ GetsOrCreates(r) THEN 4 ELSE 2) + writing
    [] pc[r] = "create" -> (IF req[r].op = "CreateCart" THEN 1 ELSE 3) + writing
    [] OTHER            -> 0

\* No handler is kept busy by others: each of its statements is one of the few
\* it has left, whatever the other requests did to the tables in between, and
\* theirs leave it none more.  An AddItem takes seven at most.
WaitFree ==
  [][\A r \in Requests : pc[r] \notin {"idle", "done"} =>
       UNCHANGED <<pc[r], stage[r], wrote[r]>> \/ StatementsLeft(r)' < StatementsLeft(r)]_vars

\* Every RPC that has arrived is answered: no interleaving makes GetOrCreate
\* go round, and no loop of CreateCart is endless.
Answered == \A r \in Requests : pc[r] # "idle" ~> pc[r] = "done"
=============================================================================
