--------------------------- MODULE CheckoutProofs ---------------------------
(***************************************************************************)
(* Proofs about a quote, for carts of any length, any catalog, any limit   *)
(* of concurrency and any width of the integers.                           *)
(***************************************************************************)
EXTENDS Checkout, AmountsProofs

\* An item the catalog can price, and what can go wrong with one that it
\* cannot.
Priced(k) ==
  /\ items[k].quantity > 0 /\ items[k].product \in Catalog
  /\ lines[k] = LineOf(items[k])
Real(why) ==
  /\ why = "context" => gone
  /\ why = "missing" => \E k \in 1 .. Len(items) : items[k].product \notin Catalog
  /\ why = "quantity" => \E k \in 1 .. Len(items) : items[k].quantity <= 0

\* What the goroutine of item k knows, at each of its steps.
WorkerOk(k) ==
  /\ worker[k] = "new" <=> k > handed
  /\ worker[k] = "priced" => Priced(k)
  /\ worker[k] = "left" => Priced(k) \/ cause # "none"
  /\ worker[k] = "missing" => items[k].product \notin Catalog
  /\ worker[k] = "quantity" => items[k].quantity <= 0
  /\ worker[k] = "context" => Cancelled

\* What the handler knows.
HandlerOk ==
  /\ pc = "cart" => items = <<>> /\ handed = 0 /\ cause = "none"
  /\ pc = "loop" => items # <<>>
  /\ pc # "done" <=> answer = NoAnswer
  /\ pc = "done" => handed = Len(items) /\ \A k \in 1 .. Len(items) : worker[k] = "left"

IInv ==
  /\ TypeOK
  /\ \A k \in 1 .. Len(items) : WorkerOk(k)
  /\ HandlerOk
  /\ Real(cause)
-----------------------------------------------------------------------------
LEMMA LineType ==
  ASSUME NEW i \in Item, i.product \in Catalog
  PROVE  LineOf(i) \in Line
  <1> DEFINE price == Price[i.product]
  <1>1. i.product \in Products /\ i.quantity \in Int64 /\ price \in Money
    BY CatalogAssumption DEF Item
  <1>2. price.amount * i.quantity \in Int
    BY <1>1, HalfAssumption DEF Money, Int64
  <1>3. Wrap(price.amount * i.quantity) \in Int64
    BY <1>2, WrapType
  <1>4. [price EXCEPT !.amount = Wrap(@ * i.quantity)] \in Money
    BY <1>1, <1>3 DEF Money
  <1> QED
    BY <1>1, <1>4 DEF LineOf, Line

\* The answers differ from one another.
LEMMA Answers ==
  /\ \A code, why : code \in {"InvalidArgument", "NotFound", "Internal"} =>
       Refused(code, why) # NoAnswer
  /\ \A ls : Quoted(ls) # NoAnswer
  <1>1. NoAnswer.code = "none"
    BY DEF NoAnswer
  <1>2. \A code, why : Refused(code, why).code = code
    BY DEF Refused
  <1>3. \A ls : Quoted(ls).code = "OK"
    BY DEF Quoted
  <1> QED
    BY <1>1, <1>2, <1>3

LEMMA ItemType ==
  ASSUME TypeOK
  PROVE  /\ Len(items) \in Nat /\ DOMAIN items = 1 .. Len(items)
         /\ DOMAIN worker = 1 .. Len(items) /\ DOMAIN lines = 1 .. Len(items)
         /\ \A k \in 1 .. Len(items) : items[k] \in Item
  BY DEF TypeOK

LEMMA InitIInv == Init => IInv
  <1> SUFFICES ASSUME Init PROVE IInv
    OBVIOUS
  <1> USE DEF Init
  <1>1. Len(items) = 0 /\ 1 .. Len(items) = {}
    OBVIOUS
  <1>2. TypeOK
    <2>1. items \in Seq(Item)
      OBVIOUS
    <2>2. \A S : <<>> \in [{} -> S]
      OBVIOUS
    <2>3. /\ worker \in [1 .. Len(items) -> {"new", "asking", "priced", "left"} \cup Errors]
          /\ lines \in [1 .. Len(items) -> Line \cup {ZeroLine}]
      BY <1>1, <2>2
    <2>4. handed \in 0 .. Len(items)
      BY <1>1
    <2> QED
      BY <2>1, <2>3, <2>4 DEF TypeOK
  <1>3. HandlerOk /\ Real(cause)
    BY DEF HandlerOk, Real
  <1> QED
    BY <1>1, <1>2, <1>3 DEF IInv
-----------------------------------------------------------------------------
(* The handler.                                                            *)

\* An answer that needs no goroutine.
LEMMA EndStep ==
  ASSUME IInv, NoUser \/ ReadCartFails
  PROVE  IInv'
  <1>1. TypeOK /\ HandlerOk /\ Real(cause) /\ pc = "cart" /\ answer = NoAnswer
    BY DEF IInv, HandlerOk, NoUser, ReadCartFails
  <1>2. items = <<>> /\ handed = 0 /\ cause = "none" /\ Len(items) = 0
    BY <1>1 DEF HandlerOk
  <1>3. pc' = "done" /\ UNCHANGED <<items, handed, worker, lines, cause, gone>>
    BY DEF NoUser, ReadCartFails
  <1>4. \/ answer' = Refused("InvalidArgument", "user")
        \/ \E why \in Errors \cup {"user"} : answer' = Refused("Internal", why)
    BY DEF NoUser, ReadCartFails, Errors
  <1>5. TypeOK'
    BY <1>1, <1>3, <1>4 DEF TypeOK
  <1>6. HandlerOk' /\ Real(cause)'
    BY <1>2, <1>3, <1>4, Answers DEF HandlerOk, Real
  <1>7. \A k \in 1 .. Len(items') : WorkerOk(k)'
    BY <1>2, <1>3
  <1> QED
    BY <1>5, <1>6, <1>7 DEF IInv

LEMMA ReadStep ==
  ASSUME IInv, ReadCart
  PROVE  IInv'
  <1>1. /\ TypeOK /\ pc = "cart" /\ answer = NoAnswer /\ handed = 0 /\ cause = "none"
        /\ UNCHANGED <<handed, cause, gone>>
    BY DEF IInv, HandlerOk, ReadCart
  <1>2. PICK c \in Carts :
          /\ items' = c
          /\ worker' = [k \in 1 .. Len(c) |-> "new"]
          /\ lines' = [k \in 1 .. Len(c) |-> ZeroLine]
          /\ IF c = <<>> THEN pc' = "done" /\ answer' = Refused("NotFound", "empty")
             ELSE pc' = "loop" /\ UNCHANGED answer
    BY DEF ReadCart
  <1>3. c \in Seq(Item) /\ Len(c) \in Nat /\ (c = <<>> => Len(c) = 0 /\ 1 .. Len(c) = {})
    BY CartsAssumption
  <1>4. TypeOK'
    <2>1. /\ worker' \in [1 .. Len(items') -> {"new", "asking", "priced", "left"} \cup Errors]
          /\ lines' \in [1 .. Len(items') -> Line \cup {ZeroLine}]
      BY <1>2
    <2>2. handed' \in 0 .. Len(items') /\ items' \in Seq(Item)
      BY <1>1, <1>2, <1>3
    <2>3. pc' \in {"cart", "loop", "done"} /\ answer' \in {NoAnswer, Refused("NotFound", "empty")}
      BY <1>1, <1>2
    <2> QED
      BY <1>1, <2>1, <2>2, <2>3 DEF TypeOK
  <1>5. HandlerOk'
    BY <1>1, <1>2, <1>3, Answers DEF HandlerOk
  <1>6. Real(cause)'
    BY <1>1 DEF Real
  <1>7. ASSUME NEW k \in 1 .. Len(items')
        PROVE  WorkerOk(k)'
    BY <1>1, <1>2, <1>3 DEF WorkerOk
  <1> QED
    BY <1>4, <1>5, <1>6, <1>7 DEF IInv

LEMMA GoStep ==
  ASSUME IInv, Go
  PROVE  IInv'
  <1>1. /\ TypeOK /\ HandlerOk /\ Real(cause) /\ pc = "loop"
        /\ UNCHANGED <<pc, items, lines, cause, gone, answer>>
        /\ handed' = handed + 1 /\ handed + 1 \in 1 .. Len(items) /\ handed \in Nat
        /\ worker' = [worker EXCEPT ![handed + 1] = "asking"]
    BY ItemType DEF IInv, Go, TypeOK
  <1>2. TypeOK'
    BY <1>1 DEF TypeOK
  <1>3. HandlerOk' /\ Real(cause)'
    BY <1>1 DEF HandlerOk, Real
  <1>4. ASSUME NEW k \in 1 .. Len(items)
        PROVE  WorkerOk(k)'
    <2>1. WorkerOk(k)
      BY DEF IInv
    <2>2. CASE k = handed + 1
      BY <1>1, <2>2, ItemType DEF WorkerOk, Errors
    <2>3. CASE k # handed + 1
      <3>1. worker'[k] = worker[k] /\ (k > handed' <=> k > handed)
        BY <1>1, <2>3, ItemType
      <3> QED
        BY <1>1, <2>1, <3>1 DEF WorkerOk, Priced, Cancelled
    <2> QED
      BY <2>2, <2>3
  <1> QED
    BY <1>1, <1>2, <1>3, <1>4 DEF IInv

\* When all have left without an error, every line is filled.
LEMMA AllPriced ==
  ASSUME IInv, \A k \in DOMAIN worker : worker[k] = "left", cause = "none"
  PROVE  /\ \A k \in 1 .. Len(items) : Priced(k)
         /\ lines \in Seq(Line)
         /\ lines = [k \in 1 .. Len(items) |-> LineOf(items[k])]
  <1>1. TypeOK
    BY DEF IInv
  <1>2. \A k \in 1 .. Len(items) : Priced(k)
    BY <1>1, ItemType DEF IInv, WorkerOk
  <1>3. \A k \in 1 .. Len(items) : LineOf(items[k]) \in Line
    BY <1>1, <1>2, ItemType, LineType DEF Priced
  <1>4. lines = [k \in 1 .. Len(items) |-> LineOf(items[k])]
    BY <1>1, <1>2 DEF Priced, TypeOK
  <1>5. lines \in [1 .. Len(items) -> Line] /\ Len(items) \in Nat
    BY <1>1, <1>3, <1>4, ItemType
  <1> QED
    BY <1>2, <1>4, <1>5

LEMMA WaitStep ==
  ASSUME IInv, Wait
  PROVE  IInv'
  <1>1. /\ TypeOK /\ HandlerOk /\ Real(cause) /\ pc' = "done" /\ handed = Len(items)
        /\ UNCHANGED <<items, handed, worker, lines, cause, gone>>
        /\ \A k \in DOMAIN worker : worker[k] = "left"
        /\ answer' = IF cause = "none" THEN Quoted(lines) ELSE Refused("Internal", cause)
    BY DEF IInv, Wait
  <1>2. answer' # NoAnswer
    BY <1>1, Answers
  <1>3. TypeOK'
    <2>1. CASE cause = "none"
      <3>1. lines \in Seq(Line) /\ answer' = Quoted(lines) /\ Quoted(lines).lines = lines
        BY <1>1, <2>1, AllPriced DEF Quoted
      <3>2. answer'.lines = lines
        BY <3>1
      <3> QED
        BY <1>1, <3>1, <3>2 DEF TypeOK
    <2>2. CASE cause # "none"
      BY <1>1, <2>2 DEF TypeOK
    <2> QED
      BY <2>1, <2>2
  <1>4. HandlerOk' /\ Real(cause)'
    BY <1>1, <1>2, ItemType DEF HandlerOk, Real
  <1>5. ASSUME NEW k \in 1 .. Len(items)
        PROVE  WorkerOk(k)'
    BY <1>1 DEF IInv, WorkerOk, Priced, Cancelled
  <1> QED
    BY <1>1, <1>3, <1>4, <1>5 DEF IInv

LEMMA EndContextStep ==
  ASSUME IInv, EndContext
  PROVE  IInv'
  <1>1. /\ TypeOK /\ HandlerOk /\ Real(cause) /\ gone' = TRUE
        /\ UNCHANGED <<pc, items, handed, worker, lines, cause, answer>>
    BY DEF IInv, EndContext
  <1>2. TypeOK'
    BY <1>1 DEF TypeOK
  <1>3. HandlerOk' /\ Real(cause)'
    BY <1>1 DEF HandlerOk, Real
  <1>4. ASSUME NEW k \in 1 .. Len(items)
        PROVE  WorkerOk(k)'
    BY <1>1 DEF IInv, WorkerOk, Priced, Cancelled
  <1> QED
    BY <1>1, <1>2, <1>3, <1>4 DEF IInv
-----------------------------------------------------------------------------
(* The goroutines.                                                         *)

\* A goroutine that has not left works for a handler that waits for it.
LEMMA WorkerRuns ==
  ASSUME IInv, NEW k \in DOMAIN worker, worker[k] # "left"
  PROVE  /\ TypeOK /\ HandlerOk /\ Real(cause) /\ WorkerOk(k)
         /\ k \in 1 .. Len(items) /\ pc = "loop"
  <1>1. TypeOK /\ HandlerOk /\ Real(cause) /\ k \in 1 .. Len(items) /\ WorkerOk(k)
    BY ItemType DEF IInv
  <1>2. pc # "done"
    BY <1>1 DEF HandlerOk
  <1>3. pc # "cart"
    BY <1>1 DEF HandlerOk
  <1> QED
    BY <1>1, <1>2, <1>3 DEF TypeOK

LEMMA AnswerStep ==
  ASSUME IInv, NEW k \in DOMAIN worker, Answer(k)
  PROVE  IInv'
  <1>1. /\ TypeOK /\ HandlerOk /\ Real(cause) /\ WorkerOk(k)
        /\ k \in 1 .. Len(items) /\ pc = "loop"
        /\ UNCHANGED <<pc, items, handed, cause, gone, answer>>
        /\ worker' = [worker EXCEPT ![k] = "priced"]
        /\ lines' = [lines EXCEPT ![k] = LineOf(items[k])]
        /\ worker[k] = "asking" /\ items[k].quantity > 0 /\ items[k].product \in Catalog
    BY WorkerRuns DEF Answer
  <1>2. TypeOK'
    <2>1. LineOf(items[k]) \in Line
      BY <1>1, ItemType, LineType
    <2> QED
      BY <1>1, <2>1 DEF TypeOK
  <1>3. HandlerOk' /\ Real(cause)'
    BY <1>1 DEF HandlerOk, Real
  <1>4. ASSUME NEW j \in 1 .. Len(items)
        PROVE  WorkerOk(j)'
    <2>1. WorkerOk(j)
      BY DEF IInv
    <2>2. CASE j = k
      <3>1. worker'[k] = "priced" /\ lines'[k] = LineOf(items[k])
        BY <1>1, ItemType
      <3>2. LineOf(items[k])' = LineOf(items[k])
        BY <1>1 DEF LineOf
      <3> QED
        BY <1>1, <2>2, <3>1, <3>2 DEF WorkerOk, Priced, LineOf
    <2>3. CASE j # k
      <3>1. worker'[j] = worker[j] /\ lines'[j] = lines[j]
        BY <1>1, <2>3, ItemType
      <3> QED
        BY <1>1, <2>1, <3>1 DEF WorkerOk, Priced, Cancelled, LineOf
    <2> QED
      BY <2>2, <2>3
  <1> QED
    BY <1>1, <1>2, <1>3, <1>4 DEF IInv

LEMMA FailStep ==
  ASSUME IInv, NEW k \in DOMAIN worker, Fail(k)
  PROVE  IInv'
  <1>1. /\ TypeOK /\ HandlerOk /\ Real(cause) /\ WorkerOk(k)
        /\ k \in 1 .. Len(items) /\ pc = "loop" /\ worker[k] = "asking"
        /\ UNCHANGED <<pc, items, handed, lines, cause, gone, answer>>
    BY WorkerRuns DEF Fail
  <1>2. PICK why \in Errors : Fails(k, why) /\ worker' = [worker EXCEPT ![k] = why]
    BY DEF Fail
  <1>3. TypeOK'
    BY <1>1, <1>2 DEF TypeOK
  <1>4. HandlerOk' /\ Real(cause)'
    BY <1>1 DEF HandlerOk, Real
  <1>5. ASSUME NEW j \in 1 .. Len(items)
        PROVE  WorkerOk(j)'
    <2>1. WorkerOk(j)
      BY DEF IInv
    <2>2. CASE j = k
      <3>1. worker'[k] = why
        BY <1>1, <1>2, ItemType
      <3> QED
        BY <1>1, <1>2, <2>2, <3>1 DEF WorkerOk, Fails, Errors, Cancelled
    <2>3. CASE j # k
      <3>1. worker'[j] = worker[j]
        BY <1>1, <1>2, <2>3, ItemType
      <3> QED
        BY <1>1, <2>1, <3>1 DEF WorkerOk, Priced, Cancelled
    <2> QED
      BY <2>2, <2>3
  <1> QED
    BY <1>1, <1>3, <1>4, <1>5 DEF IInv

LEMMA LeaveStep ==
  ASSUME IInv, NEW k \in DOMAIN worker, Leave(k)
  PROVE  IInv'
  <1>1. /\ TypeOK /\ HandlerOk /\ Real(cause) /\ WorkerOk(k)
        /\ k \in 1 .. Len(items) /\ pc = "loop"
        /\ UNCHANGED <<pc, items, handed, lines, gone, answer>>
        /\ worker[k] \in {"priced"} \cup Errors
        /\ worker' = [worker EXCEPT ![k] = "left"]
        /\ cause' = IF worker[k] # "priced" /\ cause = "none" THEN worker[k] ELSE cause
    BY WorkerRuns DEF Leave, Errors
  <1>2. TypeOK'
    BY <1>1 DEF TypeOK
  <1>3. HandlerOk'
    BY <1>1 DEF HandlerOk
  <1>4. Real(cause)'
    <2>1. Real(cause)' <=> Real(cause')
      BY <1>1 DEF Real
    <2>2. Real(worker[k]) \/ cause # "none"
      BY <1>1 DEF Real, WorkerOk, Cancelled, Errors
    <2> QED
      BY <1>1, <2>1, <2>2 DEF Real
  <1>5. cause # "none" => cause' # "none"
    BY <1>1
  <1>6. ASSUME NEW j \in 1 .. Len(items)
        PROVE  WorkerOk(j)'
    <2>1. WorkerOk(j)
      BY DEF IInv
    <2>2. CASE j = k
      <3>1. worker'[k] = "left"
        BY <1>1, ItemType
      <3>2. k <= handed
        BY <1>1, ItemType DEF WorkerOk, Errors, TypeOK
      <3>3. Priced(k) \/ cause' # "none"
        BY <1>1 DEF WorkerOk, Errors
      <3>4. Priced(k)' <=> Priced(k)
        BY <1>1 DEF Priced
      <3> QED
        BY <1>1, <2>2, <3>1, <3>2, <3>3, <3>4, ItemType DEF WorkerOk, TypeOK
    <2>3. CASE j # k
      <3>1. worker'[j] = worker[j]
        BY <1>1, <2>3, ItemType
      <3>2. Priced(j)' <=> Priced(j)
        BY <1>1 DEF Priced
      <3> QED
        BY <1>1, <1>5, <2>1, <3>1, <3>2 DEF WorkerOk, Cancelled
    <2> QED
      BY <2>2, <2>3
  <1> QED
    BY <1>1, <1>2, <1>3, <1>4, <1>6 DEF IInv

LEMMA NextIInv == IInv /\ [Next]_vars => IInv'
  <1> SUFFICES ASSUME IInv, [Next]_vars PROVE IInv'
    OBVIOUS
  <1>1. CASE Handler
    BY <1>1, EndStep, ReadStep, GoStep, WaitStep DEF Handler
  <1>2. CASE EndContext
    BY <1>2, EndContextStep
  <1>3. ASSUME NEW k \in DOMAIN worker, Worker(k)
        PROVE  IInv'
    BY <1>3, AnswerStep, FailStep, LeaveStep DEF Worker
  <1>4. CASE UNCHANGED vars
    <2>1. UNCHANGED <<pc, items, handed, worker, lines, cause, gone, answer>>
      BY <1>4 DEF vars
    <2>2. TypeOK'
      BY <2>1 DEF IInv, TypeOK
    <2>3. HandlerOk' /\ Real(cause)'
      BY <2>1 DEF IInv, HandlerOk, Real
    <2>4. \A k \in 1 .. Len(items) : WorkerOk(k)'
      BY <2>1 DEF IInv, WorkerOk, Priced, Cancelled
    <2> QED
      BY <2>1, <2>2, <2>3, <2>4 DEF IInv
  <1> QED
    BY <1>1, <1>2, <1>3, <1>4 DEF Next
-----------------------------------------------------------------------------
\* The inductive invariant holds in every reachable state.
THEOREM Invariant == Spec => []IInv
  <1> QED
    BY InitIInv, NextIInv, PTL DEF Spec

\* Every variable keeps its type: no line overflows an int64, and a quote that
\* is given has no line that was not filled.
THEOREM TypeCorrect == Spec => []TypeOK
  <1>1. IInv => TypeOK
    BY DEF IInv
  <1> QED
    BY <1>1, Invariant, PTL

\* A lookup that the group itself cancelled is never reported as the cause.
THEOREM RealCause == Spec => []CauseIsReal
  <1>1. IInv => CauseIsReal
    BY ItemType DEF IInv, Real, CauseIsReal
  <1> QED
    BY <1>1, Invariant, PTL
-----------------------------------------------------------------------------
(* The contract.                                                           *)

StepRefines == [Promise!Next]_(Promise!vars)

\* As long as the handler has not returned, the quote is open.
LEMMA StillOpen ==
  ASSUME IInv, pc # "done"
  PROVE  Promise!Open
  BY DEF IInv, HandlerOk, NoAnswer, Promise!Open

LEMMA WaitRefines ==
  ASSUME IInv, Wait
  PROVE  StepRefines
  <1>1. /\ TypeOK /\ HandlerOk /\ Real(cause) /\ UNCHANGED <<items, gone>> /\ pc = "loop"
        /\ \A k \in DOMAIN worker : worker[k] = "left"
        /\ answer' = IF cause = "none" THEN Quoted(lines) ELSE Refused("Internal", cause)
    BY DEF IInv, Wait
  <1>2. Promise!Open /\ items # <<>>
    BY <1>1, StillOpen DEF HandlerOk
  <1>3. CASE cause = "none"
    <2>1. \A k \in 1 .. Len(items) : Priced(k)
      BY <1>1, <1>3, AllPriced
    <2>2. lines = Promise!Bill(items)
      BY <1>1, <1>3, AllPriced DEF Promise!Bill
    <2>3. Promise!Quote
      BY <1>1, <1>2, <1>3, <2>1, <2>2 DEF Quoted, Priced, Promise!Quote
    <2> QED
      BY <2>3 DEF StepRefines, Promise!Next
  <1>4. CASE cause # "none"
    <2>1. cause \in Promise!Reasons
      BY <1>1, <1>4 DEF TypeOK, Real, Errors, Promise!Reasons
    <2>2. Promise!Refuse
      BY <1>1, <1>2, <1>4, <2>1 DEF Refused, Promise!Refuse
    <2> QED
      BY <2>2 DEF StepRefines, Promise!Next
  <1> QED
    BY <1>3, <1>4

LEMMA BeforeLoopRefines ==
  ASSUME IInv, NoUser \/ ReadCart \/ ReadCartFails \/ EndContext
  PROVE  StepRefines
  <1>1. Promise!Open
    BY StillOpen DEF NoUser, ReadCart, ReadCartFails, EndContext
  <1>2. pc = "cart" => items = <<>>
    BY DEF IInv, HandlerOk
  <1>3. CASE NoUser
    BY <1>1, <1>2, <1>3 DEF NoUser, Refused, StepRefines, Promise!Next, Promise!Refuse
  <1>4. CASE ReadCart
    <2>1. Promise!Read
      BY <1>1, <1>2, <1>4 DEF ReadCart, Refused, Promise!Read
    <2> QED
      BY <2>1 DEF StepRefines, Promise!Next
  <1>5. CASE ReadCartFails
    <2>1. PICK why \in Promise!Reasons : answer' = Refused("Internal", why)
      BY <1>2, <1>5 DEF ReadCartFails, Promise!Reasons
    <2>2. Promise!Refuse
      BY <1>1, <1>5, <2>1 DEF ReadCartFails, Refused, Promise!Refuse
    <2> QED
      BY <2>2 DEF StepRefines, Promise!Next
  <1>6. CASE EndContext
    BY <1>1, <1>6 DEF EndContext, StepRefines, Promise!Next, Promise!GiveUp
  <1> QED
    BY <1>3, <1>4, <1>5, <1>6

LEMMA StepIsRefined ==
  ASSUME IInv, [Next]_vars
  PROVE  StepRefines
  <1>1. CASE Go \/ UNCHANGED vars
    BY <1>1 DEF Go, vars, StepRefines, Promise!vars
  <1>2. ASSUME NEW k \in DOMAIN worker, Worker(k)
        PROVE  StepRefines
    BY <1>2 DEF Worker, Answer, Fail, Leave, StepRefines, Promise!vars
  <1> QED
    BY <1>1, <1>2, WaitRefines, BeforeLoopRefines DEF Next, Handler

\* A quote has the lines of one reading of the cart, in its order, at the
\* catalog's prices, or says truly why there is none, however the lookups race.
THEOREM Refinement == Spec => KeepsContract
  <1>1. Init => Promise!Init
    BY DEF Init, NoAnswer, Promise!Init
  <1>2. IInv /\ [Next]_vars => [Promise!Next]_(Promise!vars)
    BY StepIsRefined DEF StepRefines
  <1> QED
    BY <1>1, <1>2, Invariant, PTL DEF Spec, KeepsContract, Promise!Spec
-----------------------------------------------------------------------------
(* Amounts.                                                                *)

\* What a quote was made of stays as it was.
QuotedFor(c) == [k \in 1 .. Len(c) |-> LineOf(c[k])]
BillOk ==
  answer.code = "OK" =>
    /\ items # <<>>
    /\ \A k \in 1 .. Len(items) : items[k].product \in Catalog
    /\ answer = Quoted(QuotedFor(items))

LEMMA BillOkStep ==
  ASSUME BillOk, StepRefines
  PROVE  BillOk'
  <1>1. CASE UNCHANGED Promise!vars
    BY <1>1 DEF Promise!vars, BillOk, Quoted, QuotedFor
  <1>2. CASE Promise!Read \/ Promise!Refuse \/ Promise!GiveUp
    <2>1. answer'.code # "OK"
      BY <1>2 DEF Promise!Read, Promise!Refuse, Promise!GiveUp, Promise!Open
    <2> QED
      BY <2>1 DEF BillOk
  <1>3. CASE Promise!Quote
    <2>1. /\ items' = items /\ items # <<>>
          /\ \A k \in 1 .. Len(items) : items[k].product \in Catalog
          /\ answer' = Quoted(Promise!Bill(items))
      BY <1>3 DEF Promise!Quote, Quoted
    <2>2. Promise!Bill(items) = QuotedFor(items)
      BY DEF Promise!Bill, QuotedFor
    <2> QED
      BY <2>1, <2>2 DEF BillOk, QuotedFor, Quoted
  <1> QED
    BY <1>1, <1>2, <1>3 DEF StepRefines, Promise!Next

\* The amounts of the lines of a quote, exact and as the goroutines compute them.
LEMMA LineAmounts ==
  ASSUME TypeOK, NEW k \in 1 .. Len(items), items[k].product \in Catalog
  PROVE  /\ ExactLine(k) \in Int
         /\ LineOf(items[k]).total =
              [currency |-> Price[items[k].product].currency, amount |-> Wrap(ExactLine(k))]
  <1> DEFINE price == Price[items[k].product]
  <1>1. items[k].quantity \in Int /\ price \in Money
    BY ItemType, CatalogAssumption, HalfAssumption DEF Item, Int64
  <1>2. price.amount \in Int
    BY <1>1, HalfAssumption DEF Money, Int64
  <1>3. price = [currency |-> price.currency, amount |-> price.amount]
    BY <1>1 DEF Money
  <1> HIDE DEF price
  <1>4. [price EXCEPT !.amount = Wrap(@ * items[k].quantity)] =
          [currency |-> price.currency, amount |-> Wrap(price.amount * items[k].quantity)]
    BY <1>3
  <1>5. LineOf(items[k]).total = [price EXCEPT !.amount = Wrap(@ * items[k].quantity)]
    BY DEF LineOf, price
  <1>6. ExactLine(k) = price.amount * items[k].quantity
    BY DEF ExactLine, price
  <1> QED
    BY <1>1, <1>2, <1>4, <1>5, <1>6 DEF price

\* The total is the exact sum of the lines, wrapped once.
LEMMA TotalAmount ==
  ASSUME TypeOK, \A k \in 1 .. Len(items) : items[k].product \in Catalog
  PROVE  Total(QuotedFor(items)).amount = Wrap(ExactSum)
  <1> DEFINE n == Len(items)
             D == 1 .. n
             ls == QuotedFor(items)
             s == [k \in DOMAIN ls |-> ls[k].total.amount]
             e == [k \in DOMAIN items |-> ExactLine(k)]
  <1>1. n \in Nat /\ DOMAIN items = D /\ IsFiniteSet(D)
    BY ItemType, FS_Interval
  <1>2. DOMAIN ls = D
    BY DEF QuotedFor
  <1>3. DOMAIN s = D /\ DOMAIN e = D
    BY <1>1, <1>2
  <1>4. ASSUME NEW k \in D PROVE e[k] \in Int /\ s[k] = Wrap(e[k]) /\ s[k] \in Int
    <2>1. e[k] = ExactLine(k) /\ s[k] = LineOf(items[k]).total.amount
      BY <1>1, <1>2 DEF QuotedFor
    <2>2. /\ ExactLine(k) \in Int
          /\ LineOf(items[k]).total =
               [currency |-> Price[items[k].product].currency, amount |-> Wrap(ExactLine(k))]
      BY LineAmounts
    <2>3. Wrap(ExactLine(k)) \in Int
      BY <2>2, WrapType, HalfAssumption DEF Int64
    <2> QED
      BY <2>1, <2>2, <2>3
  <1>5. Total(ls).amount = WrapSum(s) /\ ExactSum = SumFunctionOnSet(e, D)
    BY <1>1 DEF Total, ExactSum, SumFunction
  <1> HIDE DEF n, s, e
  <1>6. IntsOn(s, D) /\ WrapsOn(s, e, D)
    BY <1>4 DEF IntsOn, WrapsOn
  <1>7. WrapSum(s) = Wrap(SumFunctionOnSet(s, D))
    BY <1>1, <1>3, <1>6, WrapSumIsSum
  <1>8. Wrap(SumFunctionOnSet(s, D)) = Wrap(SumFunctionOnSet(e, D))
    BY <1>1, <1>6, WrapOfSum
  <1> QED
    BY <1>5, <1>7, <1>8

LEMMA BillAddsUp ==
  ASSUME TypeOK, BillOk
  PROVE  AmountsAddUp
  <1> SUFFICES ASSUME answer.code = "OK" PROVE AmountsAddUp
    BY DEF AmountsAddUp
  <1> DEFINE Paid(k) == Price[items[k].product].currency
             ls == QuotedFor(items)
  <1>1. /\ items # <<>> /\ answer = Quoted(ls)
        /\ \A k \in 1 .. Len(items) : items[k].product \in Catalog
    BY DEF BillOk
  <1>2. DOMAIN items = 1 .. Len(items) /\ 1 \in 1 .. Len(items)
    BY <1>1, ItemType DEF TypeOK
  <1>3. answer.lines = ls /\ answer.total = Total(ls)
    BY <1>1 DEF Quoted
  <1>4. \A k \in 1 .. Len(items) : ls[k] = LineOf(items[k])
    BY DEF QuotedFor
  <1> HIDE DEF ls
  <1>5. ASSUME NEW k \in DOMAIN items
        PROVE  ls[k].total = [currency |-> Paid(k), amount |-> Wrap(ExactLine(k))]
    BY <1>1, <1>2, <1>4, <1>5, LineAmounts
  <1>6. answer.total = [currency |-> Paid(1), amount |-> Wrap(ExactSum)]
    <2>1. ls[1].total.currency = Paid(1)
      <3>1. ls[1].total = [currency |-> Paid(1), amount |-> Wrap(ExactLine(1))]
        BY <1>2, <1>5
      <3> QED
        BY <3>1
    <2>2. Total(ls).amount = Wrap(ExactSum)
      BY <1>1, TotalAmount DEF ls
    <2>3. Total(ls) = [currency |-> ls[1].total.currency, amount |-> Total(ls).amount]
      BY DEF Total
    <2> QED
      BY <1>3, <2>1, <2>2, <2>3
  <1> QED
    BY <1>3, <1>5, <1>6 DEF AmountsAddUp

\* Every line of a quote has the amount of its item, and the total is that of all
\* lines in the currency of the first, each up to multiples of 2^64.
THEOREM AddUp == Spec => []AmountsAddUp
  <1>1. Init => BillOk
    BY DEF Init, NoAnswer, BillOk
  <1>2. IInv /\ BillOk /\ [Next]_vars => BillOk'
    BY StepIsRefined, BillOkStep
  <1>3. IInv /\ BillOk => AmountsAddUp
    BY BillAddsUp DEF IInv
  <1> QED
    BY <1>1, <1>2, <1>3, Invariant, PTL DEF Spec
-----------------------------------------------------------------------------
(* Slots.                                                                  *)

\* Who can go on: the handler, unless it waits for a slot or for the group, and
\* a goroutine at any of its steps.
HandlerCanRun ==
  \/ pc = "cart"
  \/ pc = "loop" /\ handed < Len(items) /\ Cardinality(AtWork) < Limit
  \/ pc = "loop" /\ handed = Len(items) /\ \A k \in DOMAIN worker : worker[k] = "left"
WorkerCanRun(k) ==
  \/ /\ worker[k] = "asking"
     /\ \/ items[k].quantity > 0 /\ items[k].product \in Catalog
        \/ \E why \in Errors : Fails(k, why)
  \/ worker[k] \in {"priced"} \cup Errors

\* Until a quote is answered its handler or one of its goroutines can go on:
\* whoever holds a slot can come to release it, with an error or without.
THEOREM SomeoneRuns ==
  Spec => [](pc # "done" => HandlerCanRun \/ \E k \in DOMAIN worker : WorkerCanRun(k))
  <1>1. ASSUME IInv, pc # "done"
        PROVE  HandlerCanRun \/ \E k \in DOMAIN worker : WorkerCanRun(k)
    <2>1. /\ TypeOK /\ pc \in {"cart", "loop"}
          /\ Len(items) \in Nat /\ DOMAIN worker = 1 .. Len(items)
      BY <1>1, ItemType DEF IInv, TypeOK
    <2>2. CASE AtWork = {}
      <3>1. Cardinality(AtWork) < Limit
        BY <2>2, FS_EmptySet, MaxConcurrentAssumption, HalfAssumption DEF Limit, Int64
      <3>2. \A k \in DOMAIN worker : worker[k] = (IF k > handed THEN "new" ELSE "left")
        BY <1>1, <2>1, <2>2 DEF IInv, TypeOK, WorkerOk, AtWork
      <3>3. handed < Len(items) \/ handed = Len(items)
        BY <2>1 DEF TypeOK
      <3> QED
        BY <2>1, <3>1, <3>2, <3>3 DEF HandlerCanRun
    <2>3. ASSUME NEW k \in AtWork
          PROVE  WorkerCanRun(k)
      <3>1. k \in DOMAIN worker /\ worker[k] \in {"asking", "priced"} \cup Errors
        BY DEF AtWork
      <3>2. items[k].quantity \in Int
        BY <2>1, <3>1, ItemType, HalfAssumption DEF Item, Int64
      <3>3. Fails(k, "quantity") \/ Fails(k, "database")
        BY <3>2 DEF Fails
      <3> QED
        BY <3>1, <3>3 DEF WorkerCanRun, Errors
    <2> QED
      BY <2>2, <2>3 DEF AtWork
  <1> QED
    BY <1>1, Invariant, PTL
=============================================================================
