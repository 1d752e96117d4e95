------------------------------- MODULE Order -------------------------------
(***************************************************************************)
(* The order service: CreateOrder RPCs, run concurrently, each in a        *)
(* database transaction of its own (internal/order).                       *)
(*                                                                         *)
(* One action is one statement.  Rows a transaction has inserted are seen  *)
(* by nobody else until COMMIT, but their keys are taken: an INSERT of the *)
(* same key waits for the end of that transaction.  Every transaction      *)
(* holds a connection of the pool from BEGIN to its end.                   *)
(***************************************************************************)
EXTENDS Amounts, Sequences, FiniteSets, Functions

CONSTANTS
  Requests,   \* the CreateOrder RPCs of a behaviour
  Inputs,     \* what an RPC may carry
  Products,   \* the product ids that are UUIDs
  Malformed,  \* a product id uuid.Parse refuses
  Nil,        \* uuid.Nil
  MaxConns    \* MaxOpenConns of the pool

\* Quantities are int32 on the wire, and widened before they are multiplied.
Item == [product : Products \cup {Malformed}, unit : Int64, quantity : Int64]
Request == [shipping : Int64, items : Seq(Item)]

ASSUME InputAssumption == \A q \in Inputs : q \in Request
ASSUME PoolAssumption == MaxConns \in Nat \ {0}
ASSUME MalformedAssumption == Malformed \notin Products

VARIABLES
  orders,   \* table orders, as committed
  lines,    \* table order_items, as committed
  req,      \* the input of each request
  pc,       \* the statement a request runs next
  next,     \* the item of its next line
  tx,       \* the rows its transaction has inserted and not committed
  lost,     \* what an interrupted request left behind in the database
  answer    \* the outcome of the RPC

vars == <<orders, lines, req, pc, next, tx, lost, answer>>
-----------------------------------------------------------------------------
(* Amounts and rows.                                                       *)

LineTotal(i) == Wrap(i.unit * i.quantity)
SubTotal(q) == WrapSum([k \in DOMAIN q.items |-> LineTotal(q.items[k])])
\* Mutant: the total leaves the shipping out.
TotalOfItems(q) == SubTotal(q)
Total(q) == Wrap(SubTotal(q) + q.shipping)

\* The service's own checks.
Valid(q) ==
  /\ q.shipping >= 0
  /\ \A k \in 1 .. Len(q.items) : q.items[k].quantity > 0 /\ q.items[k].unit >= 0

\* The ids given to the INSERTs: the field ID of CreateOrderParams and of
\* AddOrderItemParams is never assigned.
OrderId(r) == Nil
LineId(r, k) == Nil

\* Rows carry the request that inserted them.
OrderRow(r) ==
  [id |-> OrderId(r), by |-> r, subtotal |-> SubTotal(req[r]),
   shipping |-> req[r].shipping, total |-> Total(req[r])]
LineRow(r, k) ==
  [id |-> LineId(r, k), order |-> OrderId(r), by |-> r, nth |-> k,
   unit |-> req[r].items[k].unit, quantity |-> req[r].items[k].quantity,
   total |-> LineTotal(req[r].items[k])]

NoTx == [orders |-> {}, lines |-> {}]

\* Who holds a connection.
Connected == { r \in Requests : pc[r] \in {"order", "line", "commit"} }

Finish(r, code) ==
  /\ pc' = [pc EXCEPT ![r] = "done"]
  /\ answer' = [answer EXCEPT ![r] = code]
-----------------------------------------------------------------------------
Init ==
  /\ orders = {} /\ lines = {}
  /\ req \in [Requests -> Inputs]
  /\ pc = [r \in Requests |-> "idle"]
  /\ next = [r \in Requests |-> 1]
  /\ tx = [r \in Requests |-> NoTx]
  /\ lost = [r \in Requests |-> "none"]
  /\ answer = [r \in Requests |-> "none"]

\* The RPC arrives and is validated, by the handler and by the service.
Start(r) ==
  /\ pc[r] = "idle"
  /\ IF req[r].items = <<>> THEN Finish(r, "InvalidArgument")
     ELSE IF ~Valid(req[r]) THEN Finish(r, "Internal")
     ELSE pc' = [pc EXCEPT ![r] = "begin"] /\ UNCHANGED answer
  /\ UNCHANGED <<orders, lines, req, next, tx, lost>>

\* BeginTx waits for a connection of the pool.
Begin(r) ==
  /\ pc[r] = "begin"
  /\ Cardinality(Connected) < MaxConns
  /\ pc' = [pc EXCEPT ![r] = "order"]
  /\ UNCHANGED <<orders, lines, req, next, tx, lost, answer>>

\* A key is held while an open transaction of another request has inserted it,
\* and taken once it is committed or the transaction itself has inserted it.
OrderKeyHeld(r) ==
  \E s \in Requests \ {r} : \E o \in tx[s].orders : o.id = OrderId(r)
OrderKeyTaken(r) == \E o \in orders \cup tx[r].orders : o.id = OrderId(r)
LineKeyHeld(r) ==
  \E s \in Requests \ {r} : \E l \in tx[s].lines : l.id = LineId(r, next[r])
LineKeyTaken(r) == \E l \in lines \cup tx[r].lines : l.id = LineId(r, next[r])

\* The CHECK constraints of orders and of order_items.
OrderChecks(r) == SubTotal(req[r]) >= 0 /\ req[r].shipping >= 0 /\ Total(req[r]) >= 0
LineChecks(r) ==
  LET i == req[r].items[next[r]] IN i.unit >= 0 /\ i.quantity > 0 /\ LineTotal(i) >= 0

\* Mutant: the row is inserted by the embedded Queries, outside the transaction.
InsertOrderOutside(r) ==
  /\ pc[r] = "order"
  /\ OrderChecks(r) /\ ~OrderKeyHeld(r) /\ ~OrderKeyTaken(r)
  /\ orders' = orders \cup {OrderRow(r)}
  /\ pc' = [pc EXCEPT ![r] = "line"]
  /\ UNCHANGED <<lines, req, next, tx, lost, answer>>

\* Mutant: the row is inserted before its amounts are known.
InsertOrderUnpriced(r) ==
  /\ pc[r] = "order"
  /\ OrderChecks(r) /\ ~OrderKeyHeld(r) /\ ~OrderKeyTaken(r)
  /\ tx' = [tx EXCEPT ![r].orders = {[OrderRow(r) EXCEPT !.subtotal = 0, !.total = 0]}]
  /\ pc' = [pc EXCEPT ![r] = "line"]
  /\ UNCHANGED <<orders, lines, req, next, lost, answer>>

InsertOrder(r) ==
  /\ pc[r] = "order"
  /\ OrderChecks(r) /\ ~OrderKeyHeld(r) /\ ~OrderKeyTaken(r)
  /\ tx' = [tx EXCEPT ![r].orders = {OrderRow(r)}]
  /\ pc' = [pc EXCEPT ![r] = "line"]
  /\ UNCHANGED <<orders, lines, req, next, lost, answer>>

\* Mutant: the line is inserted by the embedded Queries, which take another
\* connection of the pool.
InsertLineOnPool(r) ==
  /\ pc[r] = "line"
  /\ Cardinality(Connected) < MaxConns
  /\ req[r].items[next[r]].product # Malformed
  /\ LineChecks(r) /\ ~LineKeyHeld(r) /\ ~LineKeyTaken(r)
  /\ tx' = [tx EXCEPT ![r].lines = @ \cup {LineRow(r, next[r])}]
  /\ next' = [next EXCEPT ![r] = @ + 1]
  /\ pc' = [pc EXCEPT ![r] = IF next[r] = Len(req[r].items) THEN "commit" ELSE "line"]
  /\ UNCHANGED <<orders, lines, req, lost, answer>>

\* The product id of the next item must parse and its line total be the product
\* of its factors; the service computed it so, hence it always is.
InsertLine(r) ==
  /\ pc[r] = "line"
  /\ req[r].items[next[r]].product # Malformed
  /\ LineChecks(r) /\ ~LineKeyHeld(r) /\ ~LineKeyTaken(r)
  /\ tx' = [tx EXCEPT ![r].lines = @ \cup {LineRow(r, next[r])}]
  /\ next' = [next EXCEPT ![r] = @ + 1]
  /\ pc' = [pc EXCEPT ![r] = IF next[r] = Len(req[r].items) THEN "commit" ELSE "line"]
  /\ UNCHANGED <<orders, lines, req, lost, answer>>

\* A statement fails, or an id does not parse.  A CHECK fails at once; a
\* duplicate key only when its holder has ended.
Fails(r) ==
  \/ /\ pc[r] = "order"
     /\ ~OrderChecks(r) \/ (~OrderKeyHeld(r) /\ OrderKeyTaken(r))
  \/ /\ pc[r] = "line"
     /\ \/ req[r].items[next[r]].product = Malformed
        \/ ~LineChecks(r)
        \/ ~LineKeyHeld(r) /\ LineKeyTaken(r)

\* Mutant: execTX returns the error and leaves the transaction open.
RollbackForgotten(r) ==
  /\ Fails(r)
  /\ Finish(r, "Internal")
  /\ UNCHANGED <<orders, lines, req, next, tx, lost>>

\* execTX rolls the transaction back.
Rollback(r) ==
  /\ Fails(r)
  /\ tx' = [tx EXCEPT ![r] = NoTx]
  /\ Finish(r, "Internal")
  /\ UNCHANGED <<orders, lines, req, next, lost>>

\* What COMMIT does to the tables.
MakeVisible(r) ==
  /\ orders' = orders \cup tx[r].orders
  /\ lines' = lines \cup tx[r].lines
  /\ tx' = [tx EXCEPT ![r] = NoTx]

\* Mutant: the error of tx.Commit is dropped.
CommitUnchecked(r) ==
  /\ pc[r] = "commit"
  /\ MakeVisible(r) \/ (tx' = [tx EXCEPT ![r] = NoTx] /\ UNCHANGED <<orders, lines>>)
  /\ Finish(r, "OK")
  /\ UNCHANGED <<req, next, lost>>

Commit(r) ==
  /\ pc[r] = "commit"
  /\ MakeVisible(r)
  /\ Finish(r, "OK")
  /\ UNCHANGED <<req, next, lost>>
-----------------------------------------------------------------------------
(* The environment.                                                        *)

\* The context ends, the connection breaks or the process dies while r waits.
\* The handler returns whatever error it got, of COMMIT too, as Internal, the
\* code of a refusal; a caller that is gone, or whose process died, hears no
\* answer of the handler (Unknown).  The database notices later; if COMMIT was
\* being sent it may have got through.
Interrupt(r) ==
  /\ pc[r] \in {"begin", "order", "line", "commit"}
  /\ \E code \in {"Internal", "Unknown"} : Finish(r, code)
  /\ lost' = [lost EXCEPT ![r] =
       IF pc[r] = "begin" THEN "none" ELSE IF pc[r] = "commit" THEN "commit" ELSE "open"]
  /\ UNCHANGED <<orders, lines, req, next, tx>>

LateCommit(r) ==
  /\ lost[r] = "commit"
  /\ MakeVisible(r)
  /\ lost' = [lost EXCEPT ![r] = "none"]
  /\ UNCHANGED <<req, pc, next, answer>>

LateRollback(r) ==
  /\ lost[r] # "none"
  /\ tx' = [tx EXCEPT ![r] = NoTx]
  /\ lost' = [lost EXCEPT ![r] = "none"]
  /\ UNCHANGED <<orders, lines, req, pc, next, answer>>
-----------------------------------------------------------------------------
Handle(r) ==
  Begin(r) \/ InsertOrder(r) \/ InsertLine(r) \/ Rollback(r) \/ Commit(r)

Settle(r) == LateCommit(r) \/ LateRollback(r)

Next == \E r \in Requests : Start(r) \/ Handle(r) \/ Interrupt(r) \/ Settle(r)

Spec == Init /\ [][Next]_vars

\* Each handler has a goroutine of its own, the database runs every statement
\* that no lock keeps waiting, and it ends the transactions of lost clients.
FairSpec ==
  Spec /\ \A r \in Requests : WF_vars(Handle(r)) /\ WF_vars(Settle(r))
-----------------------------------------------------------------------------
(* Properties.                                                             *)

OrderRows == { OrderRow(r) : r \in Requests }
LineRows(r) == { LineRow(r, k) : k \in 1 .. Len(req[r].items) }

TypeOK ==
  /\ req \in [Requests -> Inputs]
  /\ orders \subseteq OrderRows
  /\ lines \subseteq UNION { LineRows(r) : r \in Requests }
  /\ pc \in [Requests -> {"idle", "begin", "order", "line", "commit", "done"}]
  /\ next \in [Requests -> Nat \ {0}]
  /\ tx \in [Requests -> [orders : SUBSET OrderRows,
                          lines : SUBSET UNION { LineRows(r) : r \in Requests }]]
  /\ lost \in [Requests -> {"none", "open", "commit"}]
  /\ answer \in [Requests -> {"none", "OK", "InvalidArgument", "Internal", "Unknown"}]

\* What a request must carry for its order to pass every check on the way.
Placeable(q) ==
  /\ q.items # <<>> /\ Valid(q)
  /\ SubTotal(q) >= 0 /\ Total(q) >= 0
  /\ \A k \in 1 .. Len(q.items) :
       q.items[k].product # Malformed /\ LineTotal(q.items[k]) >= 0

\* Whatever failed, raced or was interrupted, an order that exists has exactly
\* the lines of its request, and no line exists without its order (execTX).
AllOrNothing ==
  /\ \A o \in orders :
       { l.nth : l \in { m \in lines : m.by = o.by } } = 1 .. Len(req[o.by].items)
  /\ \A l \in lines : \E o \in orders : o.by = l.by /\ o.id = l.order

\* The amounts of every row of an order, committed or in an open transaction,
\* are those of its items, however many, up to multiples of 2^64: exact when the
\* exact total is an int64, and else what it wraps to, whatever wrapped on the
\* way (the CHECKs see only a wrapped amount that is negative).
OrdersInTx == UNION { tx[r].orders : r \in Requests }
ItemsTotal(q) ==
  SumFunction([k \in 1 .. Len(q.items) |-> q.items[k].unit * q.items[k].quantity])
AmountsAddUp ==
  \A o \in orders \cup OrdersInTx :
    LET q == req[o.by] IN
    /\ o.subtotal = Wrap(ItemsTotal(q))
    /\ o.total = Wrap(ItemsTotal(q) + q.shipping)

\* The requests whose order exists, with all of its lines.
Placed == { r \in Requests : OrderRow(r) \in orders /\ LineRows(r) \subseteq lines }

\* Those whose COMMIT a broken connection or an ended context has overtaken.
Doubtful == { r \in Requests : lost[r] = "commit" }

Promise == INSTANCE OrderContract WITH placed <- Placed, doubtful <- Doubtful

\* Orders appear whole, in one step, at most once for each request and only for
\* one that can be placed: with an OK, or after the answer if the COMMIT was
\* overtaken, never after an answer that was given before COMMIT was sent.
KeepsContract == Promise!Spec

\* Every RPC that has arrived is answered: those that wait for a key wait for a
\* transaction that ends, and those that wait for a connection get one.
Answered == \A r \in Requests : pc[r] # "idle" ~> pc[r] = "done"

\* Who waits: for a connection of the pool, or for the transaction of another
\* request that has inserted the same key.
Waits(r) ==
  \/ pc[r] = "begin" /\ Cardinality(Connected) >= MaxConns
  \/ pc[r] = "order" /\ OrderChecks(r) /\ OrderKeyHeld(r)
  \/ /\ pc[r] = "line" /\ req[r].items[next[r]].product # Malformed
     /\ LineChecks(r) /\ LineKeyHeld(r)

\* The RPCs under way do not all wait for each other: one of them can go on, or
\* the database has the transaction of a lost client to settle, which it does
\* without waiting for anybody.
NeverAllWait ==
  \/ \A r \in Requests : pc[r] \in {"idle", "done"}
  \/ \E r \in Requests : lost[r] # "none" \/ (pc[r] \notin {"idle", "done"} /\ ~Waits(r))

\* A request may carry any number of items, and a user may have any number of
\* orders: a statement fails, and the order is refused, only for what the request
\* carries itself.
RefusedForCause == \A r \in Requests : Fails(r) => ~Placeable(req[r])
=============================================================================
