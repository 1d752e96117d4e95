----------------------------- MODULE Checkout ------------------------------
(***************************************************************************)
(* One Quote RPC of the checkout service (internal/checkout): the cart is  *)
(* read once, then an errgroup looks up the products of its items in       *)
(* goroutines of their own, at most Limit at a time, each writing its own  *)
(* element of a shared slice.  The first error cancels the context of the  *)
(* others.  Quotes share no memory, so one is enough; products are never   *)
(* changed or deleted by the program, so the catalog is a constant.        *)
(***************************************************************************)
EXTENDS Amounts, Sequences, FiniteSetsExt, Functions

CONSTANTS
  Products,       \* the product ids a cart may hold
  Catalog,        \* those the catalog has
  Currencies,     \* the currencies of the program's money
  Price,          \* the price of each product of the catalog
  Carts,          \* what a cart may hold when it is read
  MaxConcurrent,  \* maxConcurrent of NewService
  NoProduct,      \* the empty product id
  NoCurrency      \* the empty currency

Item == [product : Products, quantity : Int64]
Money == [currency : Currencies, amount : Int64]
Line == [product : Products, quantity : Int64, unit : Money, total : Money]

ASSUME CatalogAssumption == Catalog \subseteq Products /\ Price \in [Catalog -> Money]
ASSUME CartsAssumption == Carts \subseteq Seq(Item)
ASSUME MaxConcurrentAssumption == MaxConcurrent \in Int64
ASSUME NoProductAssumption == NoProduct \notin Products /\ NoCurrency \notin Currencies

Limit == IF MaxConcurrent <= 0 THEN 10 ELSE MaxConcurrent

VARIABLES
  pc,       \* where the handler is
  items,    \* the cart as it was read
  handed,   \* how many items the loop has handed to g.Go
  worker,   \* the goroutine of each item
  lines,    \* the slice they write to
  cause,    \* the first error of the group
  gone,     \* whether the context of the RPC has ended
  answer    \* what the handler returns

vars == <<pc, items, handed, worker, lines, cause, gone, answer>>

Errors == {"missing", "context", "database", "quantity"}
NoAnswer == [code |-> "none"]
Refused(code, why) == [code |-> code, why |-> why]

\* What make([]QuoteLine, n) holds.
ZeroMoney == [currency |-> NoCurrency, amount |-> 0]
ZeroLine == [product |-> NoProduct, quantity |-> 0, unit |-> ZeroMoney, total |-> ZeroMoney]

\* Mutant: the quantity is forgotten.
LineOfUnit(i) ==
  [product |-> i.product, quantity |-> i.quantity, unit |-> Price[i.product],
   total |-> Price[i.product]]
LineOf(i) ==
  [product |-> i.product, quantity |-> i.quantity, unit |-> Price[i.product],
   total |-> [Price[i.product] EXCEPT !.amount = Wrap(@ * i.quantity)]]

\* The currency is that of the first line, whatever the others are priced in.
Total(ls) ==
  [currency |-> ls[1].total.currency,
   amount   |-> WrapSum([k \in DOMAIN ls |-> ls[k].total.amount])]
Quoted(ls) == [code |-> "OK", lines |-> ls, total |-> Total(ls)]

\* Goroutines that hold one of the slots of the group.
AtWork == { k \in DOMAIN worker : worker[k] \in {"asking", "priced"} \cup Errors }

\* The context of the group ends with the RPC's, or with the first error.
Cancelled == gone \/ cause # "none"
-----------------------------------------------------------------------------
Init ==
  /\ pc = "cart"
  /\ items = <<>>
  /\ handed = 0
  /\ worker = <<>>
  /\ lines = <<>>
  /\ cause = "none"
  /\ gone = FALSE
  /\ answer = NoAnswer

\* The handler: a request without a user is refused.
NoUser ==
  /\ pc = "cart"
  /\ pc' = "done"
  /\ answer' = Refused("InvalidArgument", "user")
  /\ UNCHANGED <<items, handed, worker, lines, cause, gone>>

\* CartReader.GetCart returns the items of the user's cart, which it creates if
\* there is none.
ReadCart ==
  /\ pc = "cart"
  /\ \E c \in Carts :
       /\ items' = c
       /\ worker' = [k \in 1 .. Len(c) |-> "new"]
       /\ lines' = [k \in 1 .. Len(c) |-> ZeroLine]
       /\ IF c = <<>> THEN pc' = "done" /\ answer' = Refused("NotFound", "empty")
          ELSE pc' = "loop" /\ UNCHANGED answer
  /\ UNCHANGED <<handed, cause, gone>>

\* The user id is no UUID, the database fails, or the context ended first.
ReadCartFails ==
  /\ pc = "cart"
  /\ \E why \in {"user", "database"} \cup (IF gone THEN {"context"} ELSE {}) :
       answer' = Refused("Internal", why)
  /\ pc' = "done"
  /\ UNCHANGED <<items, handed, worker, lines, cause, gone>>

\* g.Go waits for a slot and starts the goroutine of the next item; the loop
\* does not look at the errors of earlier ones.
Go ==
  /\ pc = "loop"
  /\ handed < Len(items)
  /\ Cardinality(AtWork) < Limit
  /\ handed' = handed + 1
  /\ worker' = [worker EXCEPT ![handed + 1] = "asking"]
  /\ UNCHANGED <<pc, items, lines, cause, gone, answer>>

\* Mutant: the goroutines share the loop variable.
AnswerShared(k) ==
  /\ worker[k] = "asking" /\ items[k].quantity > 0 /\ items[k].product \in Catalog
  /\ worker' = [worker EXCEPT ![k] = "priced"]
  /\ lines' = [lines EXCEPT ![handed] = LineOf(items[k])]
  /\ UNCHANGED <<pc, items, handed, cause, gone, answer>>

\* The catalog knows the product: the goroutine fills its line.
Answer(k) ==
  /\ worker[k] = "asking" /\ items[k].quantity > 0 /\ items[k].product \in Catalog
  /\ worker' = [worker EXCEPT ![k] = "priced"]
  /\ lines' = [lines EXCEPT ![k] = LineOf(items[k])]
  /\ UNCHANGED <<pc, items, handed, cause, gone, answer>>

\* It fails: the quantity is not positive (no cart holds one), the product is
\* not in the catalog, the database fails, or the context ended first.
Fails(k, why) ==
  \/ why = "quantity" /\ items[k].quantity <= 0
  \/ why = "missing" /\ items[k].quantity > 0 /\ items[k].product \notin Catalog
  \/ why = "database" /\ items[k].quantity > 0
  \/ why = "context" /\ items[k].quantity > 0 /\ Cancelled

Fail(k) ==
  /\ worker[k] = "asking"
  /\ \E why \in Errors : Fails(k, why) /\ worker' = [worker EXCEPT ![k] = why]
  /\ UNCHANGED <<pc, items, handed, lines, cause, gone, answer>>

\* Mutant: the last error is kept.
LeaveLastError(k) ==
  /\ worker[k] \in {"priced"} \cup Errors
  /\ cause' = IF worker[k] # "priced" THEN worker[k] ELSE cause
  /\ worker' = [worker EXCEPT ![k] = "left"]
  /\ UNCHANGED <<pc, items, handed, lines, gone, answer>>

\* Mutant: a goroutine that failed keeps its slot.
LeaveOnSuccess(k) ==
  /\ worker[k] = "priced"
  /\ worker' = [worker EXCEPT ![k] = "left"]
  /\ UNCHANGED <<pc, items, handed, lines, cause, gone, answer>>

\* The goroutine ends: the first error of all is the group's, and the slot is
\* released.
Leave(k) ==
  /\ worker[k] \in {"priced"} \cup Errors
  /\ cause' = IF worker[k] # "priced" /\ cause = "none" THEN worker[k] ELSE cause
  /\ worker' = [worker EXCEPT ![k] = "left"]
  /\ UNCHANGED <<pc, items, handed, lines, gone, answer>>

\* g.Wait, then the sum.
Wait ==
  /\ pc = "loop" /\ handed = Len(items)
  /\ \A k \in DOMAIN worker : worker[k] = "left"
  /\ pc' = "done"
  /\ answer' = IF cause = "none" THEN Quoted(lines) ELSE Refused("Internal", cause)
  /\ UNCHANGED <<items, handed, worker, lines, cause, gone>>

\* The environment: the caller cancels or its deadline passes.
EndContext ==
  /\ ~gone /\ pc # "done"
  /\ gone' = TRUE
  /\ UNCHANGED <<pc, items, handed, worker, lines, cause, answer>>

Handler == NoUser \/ ReadCart \/ ReadCartFails \/ Go \/ Wait
Worker(k) == Answer(k) \/ Fail(k) \/ Leave(k)

Next == Handler \/ EndContext \/ \E k \in DOMAIN worker : Worker(k)

Spec == Init /\ [][Next]_vars

\* The handler and every goroutine keep running, and the database answers.
MaxItems == Max({ Len(c) : c \in Carts })
FairSpec ==
  /\ Spec
  /\ WF_vars(Handler)
  /\ \A k \in 1 .. MaxItems : WF_vars(k \in DOMAIN worker /\ Worker(k))
-----------------------------------------------------------------------------
(* Properties.                                                             *)

TypeOK ==
  /\ pc \in {"cart", "loop", "done"}
  /\ items \in Seq(Item)
  /\ handed \in 0 .. Len(items)
  /\ worker \in [1 .. Len(items) -> {"new", "asking", "priced", "left"} \cup Errors]
  /\ lines \in [1 .. Len(items) -> Line \cup {ZeroLine}]
  /\ cause \in {"none"} \cup Errors
  /\ gone \in BOOLEAN
  /\ \/ answer \in {NoAnswer, Refused("InvalidArgument", "user"), Refused("NotFound", "empty")}
     \/ \E why \in Errors \cup {"user"} : answer = Refused("Internal", why)
     \/ answer.lines \in Seq(Line) /\ answer = Quoted(answer.lines)

\* The error that is reported is one that some item really met: a lookup that
\* the group itself cancelled is never the cause, however the goroutines race.
CauseIsReal ==
  /\ cause = "context" => gone
  /\ cause = "missing" => \E k \in DOMAIN items : items[k].product \notin Catalog

\* The amounts of a quote, whatever wrapped on the way: every line is its item at
\* the price of its product, in that currency, and the total is the sum of all
\* lines in the currency of the first, whatever the others are priced in.  They
\* are exact when the exact amount is an int64, and else what it wraps to.
ExactLine(k) == Price[items[k].product].amount * items[k].quantity
ExactSum == SumFunction([k \in DOMAIN items |-> ExactLine(k)])
AmountsAddUp ==
  answer.code = "OK" =>
    LET Paid(k) == Price[items[k].product].currency IN
    /\ \A k \in DOMAIN items :
         answer.lines[k].total = [currency |-> Paid(k), amount |-> Wrap(ExactLine(k))]
    /\ answer.total = [currency |-> Paid(1), amount |-> Wrap(ExactSum)]

Promise == INSTANCE CheckoutContract

\* A quote has the lines of one reading of the cart, in its order, at the
\* catalog's prices, or says truly why there is none.
KeepsContract == Promise!Spec

\* Every quote is answered: goroutines that fail release their slots too.
Answered == <>(pc = "done")
=============================================================================
