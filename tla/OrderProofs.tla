---------------------------- MODULE OrderProofs ----------------------------
(***************************************************************************)
(* Proofs about the order service, for any number of requests, items and   *)
(* connections, any inputs and any width of the integers.                  *)
(***************************************************************************)
EXTENDS Order, AmountsProofs, TLAPS

\* The first n lines of an order.
FirstLines(r, n) == { LineRow(r, k) : k \in 1 .. n }

\* How far the transaction of r is, by the statement r is at.
TxOf(r) ==
  /\ tx[r].orders \subseteq {OrderRow(r)}
  /\ pc[r] \in {"idle", "begin", "order"} => tx[r] = NoTx /\ next[r] = 1
  /\ pc[r] = "order" => Len(req[r].items) > 0
  /\ pc[r] = "begin" => Len(req[r].items) > 0
  /\ pc[r] = "line" => /\ tx[r].orders = {OrderRow(r)}
                       /\ tx[r].lines = FirstLines(r, next[r] - 1)
                       /\ next[r] <= Len(req[r].items)
  /\ pc[r] = "commit" \/ lost[r] = "commit" =>
       tx[r].orders = {OrderRow(r)} /\ tx[r].lines = LineRows(r)
  /\ pc[r] = "done" /\ lost[r] = "none" => tx[r] = NoTx

\* What of r is in the tables, by the answer it got.
TablesOf(r) ==
  /\ (pc[r] = "done") <=> (answer[r] # "none")
  /\ lost[r] # "none" => answer[r] \in {"Internal", "Unknown"} /\ OrderRow(r) \notin orders
  /\ OrderRow(r) \in orders => answer[r] \in {"OK", "Internal", "Unknown"}
  /\ OrderRow(r) \in orders => LineRows(r) \subseteq lines
  /\ OrderRow(r) \notin orders => \A l \in lines : l.by # r

IInv ==
  /\ TypeOK
  /\ \A r \in Requests : TxOf(r) /\ TablesOf(r)
-----------------------------------------------------------------------------
(* Rows.                                                                   *)

LEMMA RowFields ==
  /\ \A r : OrderRow(r).by = r /\ OrderRow(r).id = OrderId(r)
  /\ \A r, k : LineRow(r, k).by = r /\ LineRow(r, k).nth = k /\ LineRow(r, k).order = OrderId(r)
  BY DEF OrderRow, LineRow

\* Rows do not change: the input of a request does not.
LEMMA RowsFixed ==
  ASSUME req' = req
  PROVE  /\ \A r : OrderRow(r)' = OrderRow(r) /\ LineRows(r)' = LineRows(r)
         /\ \A r, n : FirstLines(r, n)' = FirstLines(r, n)
         /\ OrderRows' = OrderRows
         /\ (UNION { LineRows(r) : r \in Requests })' = UNION { LineRows(r) : r \in Requests }
  <1>1. \A r : SubTotal(req[r])' = SubTotal(req[r]) /\ Total(req[r])' = Total(req[r])
    OBVIOUS
  <1>2. \A r : OrderRow(r)' = OrderRow(r)
    BY <1>1 DEF OrderRow, OrderId
  <1>3. \A r, k : LineRow(r, k)' = LineRow(r, k)
    BY DEF LineRow, LineId, OrderId, LineTotal
  <1> QED
    BY <1>2, <1>3 DEF LineRows, FirstLines, OrderRows

LEMMA ItemCount ==
  ASSUME TypeOK, NEW r \in Requests
  PROVE  Len(req[r].items) \in Nat /\ (req[r].items # <<>> => Len(req[r].items) > 0)
  <1>1. req[r] \in Request
    BY InputAssumption DEF TypeOK
  <1>2. req[r].items \in Seq(Item)
    BY <1>1 DEF Request
  <1> QED
    BY <1>2

\* One more line.
LEMMA NextLine ==
  ASSUME NEW r \in Requests, NEW n \in Nat \ {0}
  PROVE  FirstLines(r, n - 1) \cup {LineRow(r, n)} = FirstLines(r, n)
  <1>1. 1 .. n = (1 .. n - 1) \cup {n}
    OBVIOUS
  <1> QED
    BY <1>1 DEF FirstLines
-----------------------------------------------------------------------------
LEMMA InitIInv == Init => IInv
  <1> SUFFICES ASSUME Init PROVE IInv
    OBVIOUS
  <1>1. TypeOK
    BY DEF Init, TypeOK, NoTx
  <1>2. ASSUME NEW r \in Requests
        PROVE  TxOf(r) /\ TablesOf(r)
    BY DEF Init, TxOf, TablesOf, NoTx
  <1> QED
    BY <1>1, <1>2 DEF IInv

\* A step of request r leaves the other requests' part of the invariant alone
\* unless it touches the tables.
LEMMA StepOf ==
  ASSUME IInv, NEW r \in Requests, req' = req, UNCHANGED <<orders, lines>>, TypeOK',
         \A s \in Requests : s # r =>
           /\ pc'[s] = pc[s] /\ next'[s] = next[s] /\ tx'[s] = tx[s]
           /\ lost'[s] = lost[s] /\ answer'[s] = answer[s],
         TxOf(r)', TablesOf(r)'
  PROVE  IInv'
  <1>1. ASSUME NEW s \in Requests, s # r
        PROVE  TxOf(s)' /\ TablesOf(s)'
    <2>1. TxOf(s)'
      BY <1>1, RowsFixed DEF IInv, TxOf
    <2>2. TablesOf(s)'
      BY <1>1, RowsFixed DEF IInv, TablesOf
    <2> QED
      BY <2>1, <2>2
  <1> QED
    BY <1>1 DEF IInv

LEMMA StartStep ==
  ASSUME IInv, NEW r \in Requests, Start(r)
  PROVE  IInv'
  <1> USE DEF Start, Finish
  <1>1. TypeOK /\ TxOf(r) /\ TablesOf(r) /\ req' = req /\ UNCHANGED <<orders, lines>>
    BY DEF IInv
  <1>2. TypeOK'
    BY <1>1, RowsFixed DEF TypeOK, NoTx
  <1>3. \A s \in Requests : s # r =>
          /\ pc'[s] = pc[s] /\ next'[s] = next[s] /\ tx'[s] = tx[s]
          /\ lost'[s] = lost[s] /\ answer'[s] = answer[s]
    BY <1>1 DEF TypeOK
  <1>4. TxOf(r)'
    BY <1>1, RowsFixed, ItemCount DEF TxOf, TypeOK
  <1>5. TablesOf(r)'
    BY <1>1, RowsFixed DEF TablesOf, TypeOK, TxOf
  <1> QED
    BY <1>1, <1>2, <1>3, <1>4, <1>5, StepOf

LEMMA BeginStep ==
  ASSUME IInv, NEW r \in Requests, Begin(r)
  PROVE  IInv'
  <1> USE DEF Begin, Finish
  <1>1. TypeOK /\ TxOf(r) /\ TablesOf(r) /\ req' = req /\ UNCHANGED <<orders, lines>>
    BY DEF IInv
  <1>2. TypeOK'
    BY <1>1, RowsFixed DEF TypeOK, NoTx
  <1>3. \A s \in Requests : s # r =>
          /\ pc'[s] = pc[s] /\ next'[s] = next[s] /\ tx'[s] = tx[s]
          /\ lost'[s] = lost[s] /\ answer'[s] = answer[s]
    BY <1>1 DEF TypeOK
  <1>4. TxOf(r)'
    BY <1>1, RowsFixed DEF TxOf, TypeOK
  <1>5. TablesOf(r)'
    BY <1>1, RowsFixed DEF TablesOf, TypeOK, TxOf
  <1> QED
    BY <1>1, <1>2, <1>3, <1>4, <1>5, StepOf

LEMMA InsertOrderStep ==
  ASSUME IInv, NEW r \in Requests, InsertOrder(r)
  PROVE  IInv'
  <1> USE DEF InsertOrder, Finish
  <1>1. TypeOK /\ TxOf(r) /\ TablesOf(r) /\ req' = req /\ UNCHANGED <<orders, lines>>
    BY DEF IInv
  <1>2. TypeOK'
    <2>1. OrderRow(r) \in OrderRows
      BY DEF OrderRows
    <2>2. [tx[r] EXCEPT !.orders = {OrderRow(r)}]
            \in [orders : SUBSET OrderRows, lines : SUBSET UNION { LineRows(s) : s \in Requests }]
      BY <1>1, <2>1 DEF TypeOK
    <2>3. tx' = [tx EXCEPT ![r] = [tx[r] EXCEPT !.orders = {OrderRow(r)}]]
      OBVIOUS
    <2> QED
      BY <1>1, <2>2, <2>3, RowsFixed DEF TypeOK
  <1>3. \A s \in Requests : s # r =>
          /\ pc'[s] = pc[s] /\ next'[s] = next[s] /\ tx'[s] = tx[s]
          /\ lost'[s] = lost[s] /\ answer'[s] = answer[s]
    BY <1>1 DEF TypeOK
  <1>4. TxOf(r)'
    <2>1. tx'[r].orders = {OrderRow(r)} /\ tx'[r].lines = {} /\ next'[r] = 1
      BY <1>1 DEF TxOf, TypeOK, NoTx
    <2>2. FirstLines(r, next[r] - 1) = {} /\ Len(req[r].items) \in Nat
      BY <1>1, ItemCount DEF FirstLines, TxOf
    <2>3. lost'[r] = "none" /\ Len(req[r].items) > 0 /\ pc'[r] = "line"
      BY <1>1 DEF TablesOf, TxOf, TypeOK
    <2>4. FirstLines(r, next[r] - 1)' = {}
      BY <2>1 DEF FirstLines
    <2> QED
      BY <1>1, <2>1, <2>2, <2>3, <2>4, RowsFixed DEF TxOf
  <1>5. TablesOf(r)'
    BY <1>1, RowsFixed DEF TablesOf, TypeOK, TxOf
  <1> QED
    BY <1>1, <1>2, <1>3, <1>4, <1>5, StepOf

LEMMA RollbackStep ==
  ASSUME IInv, NEW r \in Requests, Rollback(r)
  PROVE  IInv'
  <1> USE DEF Rollback, Finish, Fails
  <1>1. TypeOK /\ TxOf(r) /\ TablesOf(r) /\ req' = req /\ UNCHANGED <<orders, lines>>
    BY DEF IInv
  <1>2. TypeOK'
    BY <1>1, RowsFixed DEF TypeOK, NoTx
  <1>3. \A s \in Requests : s # r =>
          /\ pc'[s] = pc[s] /\ next'[s] = next[s] /\ tx'[s] = tx[s]
          /\ lost'[s] = lost[s] /\ answer'[s] = answer[s]
    BY <1>1 DEF TypeOK
  <1>4. TxOf(r)'
    BY <1>1, RowsFixed DEF TxOf, TypeOK, TablesOf, NoTx
  <1>5. TablesOf(r)'
    BY <1>1, RowsFixed DEF TablesOf, TypeOK, TxOf
  <1> QED
    BY <1>1, <1>2, <1>3, <1>4, <1>5, StepOf

LEMMA InterruptStep ==
  ASSUME IInv, NEW r \in Requests, Interrupt(r)
  PROVE  IInv'
  <1> USE DEF Interrupt, Finish
  <1>1. TypeOK /\ TxOf(r) /\ TablesOf(r) /\ req' = req /\ UNCHANGED <<orders, lines>>
    BY DEF IInv
  <1>2. TypeOK'
    BY <1>1, RowsFixed DEF TypeOK, NoTx
  <1>3. \A s \in Requests : s # r =>
          /\ pc'[s] = pc[s] /\ next'[s] = next[s] /\ tx'[s] = tx[s]
          /\ lost'[s] = lost[s] /\ answer'[s] = answer[s]
    BY <1>1 DEF TypeOK
  <1>4. TxOf(r)'
    BY <1>1, RowsFixed DEF TxOf, TypeOK
  <1>5. TablesOf(r)'
    BY <1>1, RowsFixed DEF TablesOf, TypeOK, TxOf
  <1> QED
    BY <1>1, <1>2, <1>3, <1>4, <1>5, StepOf

LEMMA LateRollbackStep ==
  ASSUME IInv, NEW r \in Requests, LateRollback(r)
  PROVE  IInv'
  <1> USE DEF LateRollback, Finish
  <1>1. TypeOK /\ TxOf(r) /\ TablesOf(r) /\ req' = req /\ UNCHANGED <<orders, lines>>
    BY DEF IInv
  <1>2. TypeOK'
    BY <1>1, RowsFixed DEF TypeOK, NoTx
  <1>3. \A s \in Requests : s # r =>
          /\ pc'[s] = pc[s] /\ next'[s] = next[s] /\ tx'[s] = tx[s]
          /\ lost'[s] = lost[s] /\ answer'[s] = answer[s]
    BY <1>1 DEF TypeOK
  <1>4. TxOf(r)'
    BY <1>1, RowsFixed DEF TxOf, TypeOK, TablesOf, NoTx
  <1>5. TablesOf(r)'
    BY <1>1, RowsFixed DEF TablesOf, TypeOK, TxOf
  <1> QED
    BY <1>1, <1>2, <1>3, <1>4, <1>5, StepOf

LEMMA InsertLineStep ==
  ASSUME IInv, NEW r \in Requests, InsertLine(r)
  PROVE  IInv'
  <1> USE DEF InsertLine
  <1> DEFINE n == next[r]
             txr == [tx[r] EXCEPT !.lines = @ \cup {LineRow(r, n)}]
  <1>1. /\ TypeOK /\ TxOf(r) /\ TablesOf(r) /\ req' = req /\ UNCHANGED <<orders, lines>>
        /\ n \in Nat \ {0} /\ n \in 1 .. Len(req[r].items) /\ lost[r] = "none"
    BY ItemCount DEF IInv, TxOf, TablesOf, TypeOK
  <1>2. /\ txr.orders = {OrderRow(r)} /\ txr.lines = FirstLines(r, n)
        /\ txr \in [orders : SUBSET OrderRows, lines : SUBSET UNION { LineRows(s) : s \in Requests }]
    <2>1. txr.orders = {OrderRow(r)} /\ txr.lines = FirstLines(r, n)
      BY <1>1, NextLine DEF TxOf, TypeOK
    <2>2. LineRow(r, n) \in UNION { LineRows(s) : s \in Requests }
      BY <1>1 DEF LineRows
    <2>3. tx[r] \in [orders : SUBSET OrderRows, lines : SUBSET UNION { LineRows(s) : s \in Requests }]
      BY <1>1 DEF TypeOK
    <2> QED
      BY <2>1, <2>2, <2>3
  <1>3. tx' = [tx EXCEPT ![r] = txr]
    OBVIOUS
  <1> HIDE DEF txr
  <1>4. TypeOK'
    <2>1. tx' \in [Requests -> [orders : SUBSET OrderRows,
                               lines : SUBSET UNION { LineRows(s) : s \in Requests }]]
      BY <1>1, <1>2, <1>3 DEF TypeOK
    <2>2. next' \in [Requests -> Nat \ {0}]
      BY <1>1 DEF TypeOK
    <2>3. pc' \in [Requests -> {"idle", "begin", "order", "line", "commit", "done"}]
      BY <1>1 DEF TypeOK
    <2> QED
      BY <1>1, <2>1, <2>2, <2>3, RowsFixed DEF TypeOK
  <1>5. \A s \in Requests : s # r =>
          /\ pc'[s] = pc[s] /\ next'[s] = next[s] /\ tx'[s] = tx[s]
          /\ lost'[s] = lost[s] /\ answer'[s] = answer[s]
    BY <1>1, <1>3 DEF TypeOK
  <1>6. TxOf(r)'
    <2>1. tx'[r] = txr /\ next'[r] = n + 1 /\ lost'[r] = "none"
      BY <1>1, <1>3 DEF TypeOK
    <2>2. CASE n = Len(req[r].items)
      <3>1. pc'[r] = "commit"
        BY <1>1, <2>2 DEF TypeOK
      <3>2. FirstLines(r, n) = LineRows(r)
        BY <2>2 DEF FirstLines, LineRows
      <3> QED
        BY <1>1, <1>2, <2>1, <3>1, <3>2, RowsFixed DEF TxOf
    <2>3. CASE n # Len(req[r].items)
      <3>1. pc'[r] = "line"
        BY <1>1, <2>3 DEF TypeOK
      <3>2. (n + 1) - 1 = n /\ n + 1 <= Len(req[r].items)
        BY <1>1, <2>3, ItemCount
      <3>3. FirstLines(r, next[r] - 1)' = FirstLines(r, n)
        <4>1. next'[r] - 1 = n
          BY <2>1, <3>2
        <4>2. FirstLines(r, next[r] - 1)' = FirstLines(r, next'[r] - 1)
          BY <1>1, RowsFixed
        <4> QED
          BY <4>1, <4>2
      <3>4. next'[r] <= Len(req'[r].items)
        BY <1>1, <2>1, <3>2
      <3> HIDE DEF n
      <3> QED
        BY <1>1, <1>2, <2>1, <3>1, <3>3, <3>4, RowsFixed DEF TxOf
    <2> QED
      BY <2>2, <2>3
  <1>7. TablesOf(r)'
    BY <1>1, RowsFixed DEF TablesOf, TypeOK
  <1> QED
    BY <1>1, <1>4, <1>5, <1>6, <1>7, StepOf

\* COMMIT: the whole order, and nothing of another request's, appears.
LEMMA VisibleTables ==
  ASSUME IInv, NEW r \in Requests, MakeVisible(r), req' = req,
         pc[r] = "commit" \/ lost[r] = "commit"
  PROVE  /\ orders' = orders \cup {OrderRow(r)}
         /\ lines' = lines \cup LineRows(r)
         /\ OrderRow(r) \notin orders
         /\ \A l \in LineRows(r) : l.by = r
         /\ tx'[r] = NoTx /\ \A s \in Requests : s # r => tx'[s] = tx[s]
  <1>1. TxOf(r) /\ TablesOf(r) /\ TypeOK
    BY DEF IInv
  <1>2. tx[r].orders = {OrderRow(r)} /\ tx[r].lines = LineRows(r)
    BY <1>1 DEF TxOf
  <1>3. OrderRow(r) \notin orders
    BY <1>1 DEF TablesOf
  <1>4. \A l \in LineRows(r) : l.by = r
    BY RowFields DEF LineRows
  <1> QED
    BY <1>1, <1>2, <1>3, <1>4 DEF MakeVisible, TypeOK

\* Both forms of COMMIT.
LEMMA CommitStep ==
  ASSUME IInv, NEW r \in Requests, Commit(r) \/ LateCommit(r)
  PROVE  IInv'
  <1>1. /\ TypeOK /\ TxOf(r) /\ TablesOf(r) /\ req' = req /\ next' = next /\ MakeVisible(r)
        /\ pc[r] = "commit" \/ lost[r] = "commit"
    BY DEF IInv, Commit, LateCommit
  <1>2. /\ orders' = orders \cup {OrderRow(r)}
        /\ lines' = lines \cup LineRows(r)
        /\ OrderRow(r) \notin orders
        /\ \A l \in LineRows(r) : l.by = r
        /\ tx'[r] = NoTx /\ \A s \in Requests : s # r => tx'[s] = tx[s]
    BY <1>1, VisibleTables
  <1>3. /\ pc'[r] = "done" /\ lost'[r] = "none" /\ answer'[r] \in {"OK", "Internal", "Unknown"}
        /\ \A s \in Requests : s # r =>
             pc'[s] = pc[s] /\ lost'[s] = lost[s] /\ answer'[s] = answer[s]
    BY <1>1 DEF Commit, LateCommit, Finish, TypeOK, TablesOf
  <1>4. TypeOK'
    <2>1. OrderRow(r) \in OrderRows /\ LineRows(r) \subseteq UNION { LineRows(s) : s \in Requests }
      BY DEF OrderRows
    <2>2. orders' \subseteq OrderRows /\ lines' \subseteq UNION { LineRows(s) : s \in Requests }
      BY <1>1, <1>2, <2>1 DEF TypeOK
    <2>3. tx' \in [Requests -> [orders : SUBSET OrderRows,
                               lines : SUBSET UNION { LineRows(s) : s \in Requests }]]
      BY <1>1 DEF TypeOK, MakeVisible, NoTx
    <2>4. /\ pc' \in [Requests -> {"idle", "begin", "order", "line", "commit", "done"}]
          /\ lost' \in [Requests -> {"none", "open", "commit"}]
          /\ answer' \in [Requests -> {"none", "OK", "InvalidArgument", "Internal", "Unknown"}]
      BY <1>1 DEF TypeOK, Commit, LateCommit, Finish
    <2> QED
      BY <1>1, <2>2, <2>3, <2>4, RowsFixed DEF TypeOK
  <1>5. TxOf(r)' /\ TablesOf(r)'
    BY <1>1, <1>2, <1>3, RowsFixed DEF TxOf, TablesOf, NoTx
  <1>6. ASSUME NEW s \in Requests, s # r
        PROVE  TxOf(s)' /\ TablesOf(s)'
    <2>1. TxOf(s) /\ TablesOf(s)
      BY DEF IInv
    <2>2. TxOf(s)'
      BY <1>1, <1>2, <1>3, <1>6, <2>1, RowsFixed DEF TxOf
    <2>3. OrderRow(s) \in orders' <=> OrderRow(s) \in orders
      BY <1>2, <1>6, RowFields
    <2>4. TablesOf(s)'
      BY <1>1, <1>2, <1>3, <1>6, <2>1, <2>3, RowsFixed DEF TablesOf
    <2> QED
      BY <2>2, <2>4
  <1> QED
    BY <1>4, <1>5, <1>6 DEF IInv

LEMMA NextIInv == IInv /\ [Next]_vars => IInv'
  <1>1. ASSUME IInv, NEW r \in Requests,
               Start(r) \/ Handle(r) \/ Interrupt(r) \/ Settle(r)
        PROVE  IInv'
    BY <1>1, StartStep, BeginStep, InsertOrderStep, InsertLineStep, RollbackStep,
       CommitStep, InterruptStep, LateRollbackStep
       DEF Handle, Settle
  <1>2. ASSUME IInv, UNCHANGED vars
        PROVE  IInv'
    <2>1. req' = req
      BY <1>2 DEF vars
    <2>2. TypeOK'
      BY <1>2, <2>1, RowsFixed DEF IInv, TypeOK, vars
    <2>3. \A r \in Requests : TxOf(r)' /\ TablesOf(r)'
      BY <1>2, <2>1, RowsFixed DEF IInv, TxOf, TablesOf, vars
    <2> QED
      BY <2>2, <2>3 DEF IInv
  <1> QED
    BY <1>1, <1>2 DEF Next

\* The inductive invariant holds in every reachable state.
THEOREM Invariant == Spec => []IInv
  <1> QED
    BY InitIInv, NextIInv, PTL DEF Spec

\* Every variable keeps its type, and every row is one that its request asked
\* for.
THEOREM TypeCorrect == Spec => []TypeOK
  <1>1. IInv => TypeOK
    BY DEF IInv
  <1> QED
    BY <1>1, Invariant, PTL

\* The lines of an order that exists are those of its request.
LEMMA LinesOfOrder ==
  ASSUME IInv, NEW r \in Requests, OrderRow(r) \in orders
  PROVE  { m \in lines : m.by = r } = LineRows(r)
  <1>1. LineRows(r) \subseteq lines /\ OrderRow(r).by = r
    BY RowFields DEF IInv, TablesOf
  <1>2. ASSUME NEW m \in lines, m.by = r PROVE m \in LineRows(r)
    <2>1. PICK s \in Requests : m \in LineRows(s)
      BY DEF IInv, TypeOK
    <2>2. m.by = s
      BY <2>1, RowFields DEF LineRows
    <2> QED
      BY <1>2, <2>1, <2>2
  <1> QED
    BY <1>1, <1>2, RowFields DEF LineRows

\* An order exists with all of its lines or not at all, however it failed.
THEOREM Atomic == Spec => []AllOrNothing
  <1>1. IInv => AllOrNothing
    <2> SUFFICES ASSUME IInv PROVE AllOrNothing
      OBVIOUS
    <2>1. ASSUME NEW o \in orders
          PROVE  { l.nth : l \in { m \in lines : m.by = o.by } } = 1 .. Len(req[o.by].items)
      <3>1. PICK r \in Requests : o = OrderRow(r)
        BY <2>1 DEF IInv, TypeOK, OrderRows
      <3>2. o.by = r /\ LineRows(r) \subseteq lines
        BY <2>1, <3>1, RowFields DEF IInv, TablesOf
      <3>4. { m \in lines : m.by = r } = LineRows(r)
        BY <2>1, <3>1, LinesOfOrder
      <3>5. { l.nth : l \in LineRows(r) } = 1 .. Len(req[r].items)
        <4>1. ASSUME NEW k \in 1 .. Len(req[r].items)
              PROVE  LineRow(r, k) \in LineRows(r) /\ LineRow(r, k).nth = k
          BY RowFields DEF LineRows
        <4>2. ASSUME NEW l \in LineRows(r)
              PROVE  l.nth \in 1 .. Len(req[r].items)
          BY RowFields DEF LineRows
        <4> QED
          BY <4>1, <4>2
      <3> QED
        BY <3>2, <3>4, <3>5
    <2>2. ASSUME NEW l \in lines
          PROVE  \E o \in orders : o.by = l.by /\ o.id = l.order
      <3>1. PICK r \in Requests : l \in LineRows(r)
        BY <2>2 DEF IInv, TypeOK
      <3>2. PICK k \in 1 .. Len(req[r].items) : l = LineRow(r, k)
        BY <3>1 DEF LineRows
      <3>3. OrderRow(r) \in orders
        BY <2>2, <3>2, RowFields DEF IInv, TablesOf
      <3> QED
        BY <3>2, <3>3, RowFields
    <2> QED
      BY <2>1, <2>2 DEF AllOrNothing
  <1> QED
    BY <1>1, Invariant, PTL
-----------------------------------------------------------------------------
(* Amounts.                                                                *)

\* Which checks a request has passed, by the statement it is at.
Passed(r) ==
  LET q == req[r] IN
  /\ pc[r] \notin {"idle", "done"} \/ lost[r] # "none" => q.items # <<>> /\ Valid(q)
  /\ pc[r] = "line" =>
       /\ SubTotal(q) >= 0 /\ Total(q) >= 0
       /\ \A k \in 1 .. next[r] - 1 :
            q.items[k].product # Malformed /\ LineTotal(q.items[k]) >= 0
  /\ pc[r] = "commit" \/ lost[r] = "commit" \/ OrderRow(r) \in orders => Placeable(q)

Accepted == \A r \in Requests : Passed(r)

\* Every step of r leaves the other requests where they are, and adds no row to
\* the table that is not that of r, which has come to its COMMIT.
LEMMA OnlyOf ==
  ASSUME IInv, NEW r \in Requests,
         Start(r) \/ Handle(r) \/ Interrupt(r) \/ Settle(r)
  PROVE  /\ req' = req
         /\ \A s \in Requests : OrderRow(s)' = OrderRow(s)
         /\ \A s \in Requests : s # r =>
              /\ pc'[s] = pc[s] /\ next'[s] = next[s] /\ lost'[s] = lost[s]
              /\ OrderRow(s) \in orders' => OrderRow(s) \in orders
         /\ OrderRow(r) \in orders' =>
              OrderRow(r) \in orders \/ pc[r] = "commit" \/ lost[r] = "commit"
  <1>1. TypeOK
    BY DEF IInv
  <1>2. req' = req /\ \A s \in Requests : OrderRow(s)' = OrderRow(s)
    BY RowsFixed
       DEF Start, Handle, Begin, InsertOrder, InsertLine, Rollback, Commit, Interrupt,
           Settle, LateCommit, LateRollback
  <1>3. ASSUME NEW s \in Requests, s # r
        PROVE  pc'[s] = pc[s] /\ next'[s] = next[s] /\ lost'[s] = lost[s]
    BY <1>1, <1>3
       DEF TypeOK, Start, Handle, Begin, InsertOrder, InsertLine, Rollback, Commit, Interrupt,
           Settle, LateCommit, LateRollback, Finish
  <1>4. CASE Commit(r) \/ LateCommit(r)
    <2>1. pc[r] = "commit" \/ lost[r] = "commit"
      BY <1>4 DEF Commit, LateCommit
    <2>2. orders' = orders \cup {OrderRow(r)}
      BY <1>4 DEF IInv, TxOf, Commit, LateCommit, MakeVisible
    <2> QED
      BY <1>2, <1>3, <2>1, <2>2, RowFields
  <1>5. CASE ~(Commit(r) \/ LateCommit(r))
    <2>1. orders' = orders
      BY <1>5
         DEF Start, Handle, Begin, InsertOrder, InsertLine, Rollback, Interrupt, Settle,
             LateRollback
    <2> QED
      BY <1>2, <1>3, <2>1
  <1> QED
    BY <1>4, <1>5

LEMMA AcceptedStep ==
  ASSUME IInv, Accepted, NEW r \in Requests,
         Start(r) \/ Handle(r) \/ Interrupt(r) \/ Settle(r)
  PROVE  Accepted'
  <1>1. /\ TypeOK /\ TxOf(r) /\ TablesOf(r) /\ Passed(r)
        /\ Len(req[r].items) \in Nat /\ next[r] \in Nat \ {0}
    BY ItemCount DEF IInv, Accepted, TypeOK
  <1>2. /\ req' = req
        /\ \A s \in Requests : OrderRow(s)' = OrderRow(s)
    BY OnlyOf
  <1>3. ASSUME NEW s \in Requests, s # r
        PROVE  Passed(s)'
    <2>1. Passed(s) /\ pc'[s] = pc[s] /\ next'[s] = next[s] /\ lost'[s] = lost[s]
      BY <1>3, OnlyOf DEF Accepted
    <2>2. OrderRow(s) \in orders' => OrderRow(s) \in orders
      BY <1>3, OnlyOf
    <2> QED
      BY <1>2, <2>1, <2>2 DEF Passed, Valid, Placeable
  <1>4. /\ pc'[r] \notin {"idle", "done"} \/ lost'[r] # "none" =>
             req[r].items # <<>> /\ Valid(req[r])
        /\ pc'[r] = "line" =>
             \/ InsertOrder(r)
             \/ pc[r] = "line" /\ (InsertLine(r) \/ next'[r] = next[r])
        /\ pc'[r] = "commit" \/ lost'[r] = "commit" =>
             \/ pc[r] = "commit" \/ lost[r] = "commit"
             \/ InsertLine(r) /\ next[r] = Len(req[r].items)
    BY <1>1
       DEF Passed, TypeOK, Start, Handle, Begin, InsertOrder, InsertLine, Rollback, Commit,
           Interrupt, Settle, LateCommit, LateRollback, Finish, Fails
  <1>5. ASSUME pc'[r] = "line"
        PROVE  /\ SubTotal(req[r]) >= 0 /\ Total(req[r]) >= 0
               /\ \A k \in 1 .. next'[r] - 1 :
                    req[r].items[k].product # Malformed /\ LineTotal(req[r].items[k]) >= 0
    <2>1. CASE InsertOrder(r)
      <3>1. next'[r] = 1 /\ SubTotal(req[r]) >= 0 /\ Total(req[r]) >= 0
        BY <1>1, <2>1 DEF InsertOrder, OrderChecks, TxOf
      <3> QED
        BY <3>1
    <2>2. CASE pc[r] = "line" /\ InsertLine(r)
      <3>1. next'[r] - 1 = next[r] /\ 1 .. next[r] = (1 .. next[r] - 1) \cup {next[r]}
        BY <1>1, <2>2 DEF InsertLine, TypeOK
      <3>2. /\ req[r].items[next[r]].product # Malformed
            /\ LineTotal(req[r].items[next[r]]) >= 0
        BY <2>2 DEF InsertLine, LineChecks
      <3> QED
        BY <1>1, <2>2, <3>1, <3>2 DEF Passed
    <2>3. CASE pc[r] = "line" /\ next'[r] = next[r]
      BY <1>1, <2>3 DEF Passed
    <2> QED
      BY <1>4, <1>5, <2>1, <2>2, <2>3
  <1>6. ASSUME InsertLine(r), next[r] = Len(req[r].items)
        PROVE  Placeable(req[r])
    <2>1. /\ req[r].items[next[r]].product # Malformed
          /\ LineTotal(req[r].items[next[r]]) >= 0 /\ pc[r] = "line"
      BY <1>6 DEF InsertLine, LineChecks
    <2>2. 1 .. Len(req[r].items) = (1 .. next[r] - 1) \cup {next[r]}
      BY <1>1, <1>6
    <2> QED
      BY <1>1, <2>1, <2>2 DEF Passed, Placeable
  <1>7. pc'[r] = "commit" \/ lost'[r] = "commit" \/ OrderRow(r) \in orders' =>
          Placeable(req[r])
    BY <1>1, <1>4, <1>6, OnlyOf DEF Passed
  <1>8. Passed(r)'
    BY <1>2, <1>4, <1>5, <1>7 DEF Passed, Valid, Placeable
  <1> QED
    BY <1>3, <1>8 DEF Accepted

LEMMA AlwaysAccepted == Spec => []Accepted
  <1>1. Init => Accepted
    BY DEF Init, Accepted, Passed
  <1>2. IInv /\ Accepted /\ [Next]_vars => Accepted'
    <2> SUFFICES ASSUME IInv, Accepted, [Next]_vars PROVE Accepted'
      OBVIOUS
    <2>1. CASE Next
      BY <2>1, AcceptedStep DEF Next
    <2>2. CASE UNCHANGED vars
      BY <2>2, RowsFixed DEF vars, Accepted, Passed, Valid, Placeable
    <2> QED
      BY <2>1, <2>2
  <1> QED
    BY <1>1, <1>2, Invariant, PTL DEF Spec

\* The exact amounts of the lines, and what the handler makes of them.
ExactLine(q, k) == q.items[k].unit * q.items[k].quantity
ExactLines(q) == [k \in 1 .. Len(q.items) |-> ExactLine(q, k)]
LineTotals(q) == [k \in 1 .. Len(q.items) |-> LineTotal(q.items[k])]
ExactSum(q) == SumFunctionOnSet(ExactLines(q), 1 .. Len(q.items))

LEMMA ItemAmounts ==
  ASSUME NEW q \in Request, Valid(q)
  PROVE  /\ Len(q.items) \in Nat /\ DOMAIN q.items = 1 .. Len(q.items)
         /\ q.shipping \in Nat
         /\ \A k \in 1 .. Len(q.items) :
              ExactLine(q, k) \in Nat /\ LineTotal(q.items[k]) = Wrap(ExactLine(q, k))
  <1>1. q.items \in Seq(Item) /\ q.shipping \in Int
    BY HalfAssumption DEF Request, Int64
  <1>2. q.shipping \in Nat
    BY <1>1 DEF Valid
  <1>3. ASSUME NEW k \in 1 .. Len(q.items)
        PROVE  ExactLine(q, k) \in Nat
    <2>1. q.items[k] \in Item
      BY <1>1
    <2>2. q.items[k].unit \in Int /\ q.items[k].quantity \in Int
      BY <2>1, HalfAssumption DEF Item, Int64
    <2>3. q.items[k].unit \in Nat /\ q.items[k].quantity \in Nat
      BY <2>2 DEF Valid
    <2> QED
      BY <2>3 DEF ExactLine
  <1> QED
    BY <1>1, <1>2, <1>3 DEF LineTotal, ExactLine

\* Wrapped sums of wrapped products are the exact sum, wrapped once.
LEMMA SubTotalIsSum ==
  ASSUME NEW q \in Request, Valid(q)
  PROVE  ExactSum(q) \in Nat /\ SubTotal(q) = Wrap(ExactSum(q))
  <1> DEFINE n == Len(q.items)
             D == 1 .. n
             s == LineTotals(q)
             e == ExactLines(q)
  <1>1. n \in Nat /\ DOMAIN q.items = D /\ IsFiniteSet(D)
    BY ItemAmounts, FS_Interval
  <1>2. ASSUME NEW k \in D
        PROVE  e[k] \in Nat /\ s[k] = Wrap(e[k]) /\ s[k] \in Int
    <2>1. ExactLine(q, k) \in Nat /\ LineTotal(q.items[k]) = Wrap(ExactLine(q, k))
      BY ItemAmounts
    <2>2. Wrap(ExactLine(q, k)) \in Int
      BY <2>1, WrapType, HalfAssumption DEF Int64
    <2> QED
      BY <2>1, <2>2 DEF ExactLines, LineTotals
  <1>3. DOMAIN s = D /\ DOMAIN e = D
    BY DEF ExactLines, LineTotals
  <1>4. SubTotal(q) = WrapSum(s)
    BY <1>1 DEF SubTotal, LineTotals
  <1> HIDE DEF n, s, e
  <1>5. IntsOn(s, D) /\ NatsOn(e, D) /\ IntsOn(e, D)
    BY <1>2 DEF IntsOn, NatsOn
  <1>6. WrapSum(s) = Wrap(SumFunctionOnSet(s, D))
    BY <1>1, <1>3, <1>5, WrapSumIsSum
  <1>7. Wrap(SumFunctionOnSet(s, D)) = Wrap(SumFunctionOnSet(e, D))
    BY <1>1, <1>2, <1>5, WrapOfSum DEF WrapsOn
  <1>8. SumFunctionOnSet(e, D) \in Nat
    BY <1>1, <1>5, SumNat
  <1> QED
    BY <1>4, <1>6, <1>7, <1>8 DEF ExactSum, e, n

\* The amounts of every row, of any number of items, committed or not, are those
\* of its request's items, up to multiples of 2^64.
THEOREM AddUp == Spec => []AmountsAddUp
  <1>1. IInv /\ Accepted => AmountsAddUp
    <2> SUFFICES ASSUME IInv, Accepted, NEW o \in orders \cup OrdersInTx
                 PROVE  /\ o.subtotal = Wrap(ItemsTotal(req[o.by]))
                        /\ o.total = Wrap(ItemsTotal(req[o.by]) + req[o.by].shipping)
      BY DEF AmountsAddUp
    <2>1. PICK r \in Requests :
            o = OrderRow(r) /\ (OrderRow(r) \in orders \/ tx[r] # NoTx)
      <3>1. CASE o \in orders
        BY <3>1 DEF IInv, TypeOK, OrderRows
      <3>2. CASE o \in OrdersInTx
        <4>1. PICK s \in Requests : o \in tx[s].orders
          BY <3>2 DEF OrdersInTx
        <4>2. o = OrderRow(s) /\ tx[s] # NoTx
          BY <4>1 DEF IInv, TxOf, NoTx
        <4> QED
          BY <4>2
      <3> QED
        BY <3>1, <3>2
    <2> DEFINE q == req[r]
               e == ExactSum(q)
    <2>2. q \in Request /\ Valid(q)
      <3>1. TxOf(r) /\ Passed(r) /\ pc[r] \in {"idle", "begin", "order", "line", "commit", "done"}
        BY DEF IInv, TypeOK, Accepted
      <3>2. Valid(q)
        BY <2>1, <3>1 DEF TxOf, Passed, Placeable
      <3> QED
        BY <3>2, InputAssumption DEF IInv, TypeOK
    <2>3. /\ o.total = Wrap(SubTotal(q) + q.shipping)
          /\ o.subtotal = SubTotal(q) /\ o.by = r
      BY <2>1 DEF OrderRow, Total
    <2>4. ItemsTotal(q) = e
      BY DEF ItemsTotal, ExactSum, ExactLines, ExactLine, SumFunction
    <2>5. e \in Nat /\ q.shipping \in Nat /\ SubTotal(q) = Wrap(e)
      BY <2>2, SubTotalIsSum, ItemAmounts
    <2> HIDE DEF e, q
    <2>6. Wrap(Wrap(e) + q.shipping) = Wrap(e + q.shipping)
      <3>1. e \in Int /\ q.shipping \in Int
        BY <2>5
      <3> QED
        BY <3>1, WrapAdd
    <2>7. req[o.by] = q
      BY <2>3 DEF q
    <2> QED
      BY <2>3, <2>4, <2>5, <2>6, <2>7
  <1> QED
    BY <1>1, Invariant, AlwaysAccepted, PTL
-----------------------------------------------------------------------------
(* Who waits for whom.                                                     *)

\* No two open transactions hold the same order key, and the pool is not
\* overdrawn.
KeysApart ==
  \A r, s \in Requests : r # s => \A o \in tx[r].orders, p \in tx[s].orders : o.id # p.id
PoolBounded == IsFiniteSet(Connected) /\ Cardinality(Connected) <= MaxConns

LEMMA KeysStep ==
  ASSUME IInv, KeysApart, NEW r \in Requests,
         Start(r) \/ Handle(r) \/ Interrupt(r) \/ Settle(r)
  PROVE  KeysApart'
  <1>1. TypeOK
    BY DEF IInv
  <1>2. CASE InsertOrder(r)
    <2>1. /\ tx'[r].orders = {OrderRow(r)}
          /\ \A s \in Requests : s # r => tx'[s] = tx[s]
      BY <1>1, <1>2 DEF InsertOrder, TypeOK
    <2>2. \A s \in Requests \ {r} : \A o \in tx[s].orders : o.id # OrderRow(r).id
      BY <1>2, RowFields DEF InsertOrder, OrderKeyHeld
    <2> QED
      BY <2>1, <2>2 DEF KeysApart
  <1>3. CASE ~InsertOrder(r)
    <2>1. \A s \in Requests : tx'[s].orders \subseteq tx[s].orders
      <3>1. CASE Rollback(r) \/ LateRollback(r) \/ Commit(r) \/ LateCommit(r)
        <4>1. tx' = [tx EXCEPT ![r] = NoTx]
          BY <3>1 DEF Rollback, LateRollback, Commit, LateCommit, MakeVisible
        <4> QED
          BY <1>1, <4>1 DEF TypeOK, NoTx
      <3>2. CASE InsertLine(r)
        BY <1>1, <3>2 DEF InsertLine, TypeOK
      <3>3. CASE Start(r) \/ Begin(r) \/ Interrupt(r)
        BY <3>3 DEF Start, Begin, Interrupt
      <3> QED
        BY <1>3, <3>1, <3>2, <3>3 DEF Handle, Settle
    <2> QED
      BY <2>1 DEF KeysApart
  <1> QED
    BY <1>2, <1>3

LEMMA PoolStep ==
  ASSUME IInv, PoolBounded, NEW r \in Requests,
         Start(r) \/ Handle(r) \/ Interrupt(r) \/ Settle(r)
  PROVE  PoolBounded'
  <1>1. TypeOK
    BY DEF IInv
  <1>2. CASE Begin(r)
    <2>1. Connected' = Connected \cup {r} /\ Cardinality(Connected) < MaxConns
      BY <1>1, <1>2 DEF Begin, Connected, TypeOK
    <2>2. IsFiniteSet(Connected) /\ Cardinality(Connected) \in Nat
      BY FS_CardinalityType DEF PoolBounded
    <2>3. /\ IsFiniteSet(Connected \cup {r})
          /\ Cardinality(Connected \cup {r}) =
               IF r \in Connected THEN Cardinality(Connected) ELSE Cardinality(Connected) + 1
      BY <2>2, FS_AddElement
    <2>4. Cardinality(Connected \cup {r}) <= Cardinality(Connected) + 1
      BY <2>2, <2>3
    <2>5. Cardinality(Connected) + 1 <= MaxConns
      BY <2>1, <2>2, PoolAssumption
    <2>6. Cardinality(Connected \cup {r}) \in Nat
      BY <2>3, FS_CardinalityType
    <2> QED
      BY <2>1, <2>2, <2>3, <2>4, <2>5, <2>6, PoolAssumption DEF PoolBounded
  <1>3. CASE ~Begin(r)
    <2>1. Connected' \in SUBSET Connected
      BY <1>1, <1>3
         DEF Connected, TypeOK, Start, Handle, InsertOrder, InsertLine, Rollback, Fails, Commit,
             Interrupt, Settle, LateCommit, LateRollback, Finish
    <2>2. /\ IsFiniteSet(Connected) /\ Cardinality(Connected) <= MaxConns
      BY DEF PoolBounded
    <2>3. /\ IsFiniteSet(Connected') /\ Cardinality(Connected') <= Cardinality(Connected)
      BY <2>1, <2>2, FS_Subset
    <2> QED
      BY <2>2, <2>3, FS_CardinalityType, PoolAssumption DEF PoolBounded
  <1> QED
    BY <1>2, <1>3

LEMMA AlwaysApart == Spec => [](KeysApart /\ PoolBounded)
  <1>1. Init => KeysApart /\ PoolBounded
    <2> SUFFICES ASSUME Init PROVE KeysApart /\ PoolBounded
      OBVIOUS
    <2>1. KeysApart
      BY DEF Init, KeysApart, NoTx
    <2>2. Connected = {}
      BY DEF Init, Connected
    <2> QED
      BY <2>1, <2>2, FS_EmptySet, PoolAssumption DEF PoolBounded
  <1>2. IInv /\ KeysApart /\ PoolBounded /\ [Next]_vars => (KeysApart /\ PoolBounded)'
    <2> SUFFICES ASSUME IInv, KeysApart, PoolBounded, [Next]_vars
                 PROVE  KeysApart' /\ PoolBounded'
      OBVIOUS
    <2>1. CASE Next
      BY <2>1, KeysStep, PoolStep DEF Next
    <2>2. CASE UNCHANGED vars
      BY <2>2 DEF vars, KeysApart, PoolBounded, Connected
    <2> QED
      BY <2>1, <2>2
  <1> QED
    BY <1>1, <1>2, Invariant, PTL DEF Spec

\* Orders whose lines could meet have keys that meet before: so it is as long
\* as no id is assigned, and so it is when every id is fresh.
LEMMA KeysAgree ==
  ASSUME NEW r, NEW s, NEW j, NEW k, LineId(r, j) = LineId(s, k)
  PROVE  OrderId(r) = OrderId(s)
  BY DEF OrderId

\* Who has inserted a row and is not lost is past its order.
LEMMA HolderIsAhead ==
  ASSUME IInv, NEW s \in Requests, lost[s] = "none",
         tx[s].orders # {} \/ tx[s].lines # {}
  PROVE  pc[s] \in {"line", "commit"} /\ tx[s].orders = {OrderRow(s)}
  <1>1. TxOf(s) /\ pc[s] \in {"idle", "begin", "order", "line", "commit", "done"}
    BY DEF IInv, TypeOK
  <1>2. tx[s] # NoTx
    BY DEF NoTx
  <1> QED
    BY <1>1, <1>2 DEF TxOf

\* A transaction past its order waits for no other.
LEMMA AheadRuns ==
  ASSUME IInv, KeysApart, \A s \in Requests : lost[s] = "none",
         NEW r \in Requests, pc[r] \in {"line", "commit"}
  PROVE  ~Waits(r)
  <1> SUFFICES ASSUME pc[r] = "line", LineKeyHeld(r) PROVE FALSE
    BY DEF Waits
  <1>1. PICK s \in Requests \ {r} : \E l \in tx[s].lines : l.id = LineId(r, next[r])
    BY DEF LineKeyHeld
  <1>2. PICK l \in tx[s].lines : l.id = LineId(r, next[r])
    BY <1>1
  <1>3. tx[s].orders = {OrderRow(s)} /\ tx[r].orders = {OrderRow(r)}
    <2>1. tx[s].orders = {OrderRow(s)}
      BY <1>2, HolderIsAhead
    <2> QED
      BY <2>1 DEF IInv, TxOf
  <1>4. PICK k : l = LineRow(s, k)
    <2>1. pc[s] \in {"line", "commit"} /\ TxOf(s)
      BY <1>2, HolderIsAhead DEF IInv
    <2>2. l \in FirstLines(s, next[s] - 1) \cup LineRows(s)
      BY <1>2, <2>1 DEF TxOf
    <2> QED
      BY <2>2 DEF FirstLines, LineRows
  <1>5. LineId(s, k) = LineId(r, next[r])
    BY <1>2, <1>4 DEF LineRow
  <1>6. OrderId(s) = OrderId(r)
    BY <1>5, KeysAgree
  <1> QED
    BY <1>2, <1>3, <1>6, RowFields DEF KeysApart

\* No number of transactions, over a pool of any size, can come to wait for each
\* other, however they were interrupted.
THEOREM NoDeadlock == Spec => []NeverAllWait
  <1>1. IInv /\ KeysApart /\ PoolBounded => NeverAllWait
    <2> SUFFICES ASSUME IInv, KeysApart, PoolBounded, \A s \in Requests : lost[s] = "none",
                        NEW r \in Requests, pc[r] \notin {"idle", "done"}
                 PROVE  \E s \in Requests : pc[s] \notin {"idle", "done"} /\ ~Waits(s)
      BY DEF NeverAllWait, IInv, TypeOK
    <2>1. CASE \E s \in Requests : pc[s] \in {"line", "commit"}
      BY <2>1, AheadRuns
    <2>2. CASE \A s \in Requests : pc[s] \notin {"line", "commit"}
      <3>1. \A s \in Requests : tx[s].orders = {} /\ tx[s].lines = {}
        BY <2>2, HolderIsAhead
      <3>2. \A s \in Requests : ~OrderKeyHeld(s)
        BY <3>1 DEF OrderKeyHeld
      <3>3. CASE \E s \in Requests : pc[s] = "order"
        BY <3>2, <3>3 DEF Waits
      <3>4. CASE \A s \in Requests : pc[s] # "order"
        <4>1. Connected = {}
          BY <2>2, <3>4 DEF Connected
        <4>2. ~(Cardinality(Connected) >= MaxConns)
          BY <4>1, FS_EmptySet, PoolAssumption
        <4>3. pc[r] = "begin"
          BY <2>2, <3>4 DEF IInv, TypeOK
        <4> QED
          BY <4>2, <4>3 DEF Waits
      <3> QED
        BY <3>3, <3>4
    <2> QED
      BY <2>1, <2>2
  <1> QED
    BY <1>1, Invariant, AlwaysApart, PTL

\* The statement of r can run, or it fails.
CanRun(r) ==
  \/ pc[r] = "begin" /\ Cardinality(Connected) < MaxConns
  \/ pc[r] = "order" /\ OrderChecks(r) /\ ~OrderKeyHeld(r) /\ ~OrderKeyTaken(r)
  \/ /\ pc[r] = "line" /\ req[r].items[next[r]].product # Malformed
     /\ LineChecks(r) /\ ~LineKeyHeld(r) /\ ~LineKeyTaken(r)
  \/ Fails(r)
  \/ pc[r] = "commit"

\* Waits leaves nothing out: as long as a request is under way, the guards of
\* some statement hold, or the database has a transaction to settle.
THEOREM SomeoneRuns ==
  Spec => []( \/ \A r \in Requests : pc[r] \in {"idle", "done"}
              \/ \E r \in Requests : lost[r] # "none" \/ CanRun(r) )
  <1>1. ASSUME IInv, PoolBounded, NEW r \in Requests, pc[r] \notin {"idle", "done"}, ~Waits(r)
        PROVE  CanRun(r)
    <2>1. pc[r] \in {"begin", "order", "line", "commit"}
      BY <1>1 DEF IInv, TypeOK
    <2>2. CASE pc[r] = "begin"
      <3>1. ~(Cardinality(Connected) >= MaxConns)
        BY <1>1, <2>2 DEF Waits
      <3>2. Cardinality(Connected) \in Nat
        BY <1>1, FS_CardinalityType DEF PoolBounded
      <3> QED
        BY <2>2, <3>1, <3>2, PoolAssumption DEF CanRun
    <2> QED
      BY <1>1, <2>1, <2>2 DEF Waits, Fails, CanRun
  <1>2. IInv /\ PoolBounded /\ NeverAllWait =>
          \/ \A r \in Requests : pc[r] \in {"idle", "done"}
          \/ \E r \in Requests : lost[r] # "none" \/ CanRun(r)
    BY <1>1 DEF NeverAllWait
  <1> QED
    BY <1>2, Invariant, AlwaysApart, NoDeadlock, PTL
-----------------------------------------------------------------------------
(* The contract.                                                           *)

\* Tables that stay place nothing.
LEMMA PlacedStays ==
  ASSUME req' = req, UNCHANGED <<orders, lines>>
  PROVE  Placed' = Placed
  BY RowsFixed DEF Placed

\* In a reachable state the order row of a request says that it is placed.
LEMMA PlacedIsVisible ==
  ASSUME IInv
  PROVE  \A r \in Requests : r \in Placed <=> OrderRow(r) \in orders
  BY DEF IInv, TablesOf, Placed

LEMMA PlacedByCommit ==
  ASSUME IInv, NEW r \in Requests, MakeVisible(r), req' = req,
         pc[r] = "commit" \/ lost[r] = "commit"
  PROVE  r \notin Placed /\ Placed' = Placed \cup {r}
  <1>1. /\ orders' = orders \cup {OrderRow(r)}
        /\ lines' = lines \cup LineRows(r)
        /\ OrderRow(r) \notin orders
    BY VisibleTables
  <1>2. Placed' = { s \in Requests : OrderRow(s) \in orders' /\ LineRows(s) \subseteq lines' }
    BY RowsFixed DEF Placed
  <1>3. r \in Placed'
    BY <1>1, <1>2
  <1>4. ASSUME NEW s \in Requests, s # r
        PROVE  s \in Placed' <=> s \in Placed
    <2>1. OrderRow(s) \in orders' <=> OrderRow(s) \in orders
      BY <1>1, <1>4, RowFields
    <2>2. OrderRow(s) \in orders => LineRows(s) \subseteq lines
      BY DEF IInv, TablesOf
    <2>3. s \in Placed' <=> OrderRow(s) \in orders' /\ LineRows(s) \subseteq lines'
      BY <1>2
    <2> QED
      BY <1>1, <2>1, <2>2, <2>3, PlacedIsVisible
  <1>5. Placed \subseteq Requests /\ Placed' \subseteq Requests
    BY <1>2 DEF Placed
  <1> QED
    BY <1>1, <1>3, <1>4, <1>5, PlacedIsVisible

StepRefines == [Promise!Next]_(Promise!vars)

\* Who is in doubt, after a step of r.
LEMMA DoubtfulAfter ==
  ASSUME IInv, NEW r \in Requests, NEW l \in {"none", "open", "commit"},
         lost' = [lost EXCEPT ![r] = l]
  PROVE  Doubtful' = IF l = "commit" THEN Doubtful \cup {r} ELSE Doubtful \ {r}
  <1>1. lost \in [Requests -> {"none", "open", "commit"}]
    BY DEF IInv, TypeOK
  <1> QED
    BY <1>1 DEF Doubtful

\* A request that is not answered is neither placed nor in doubt.
LEMMA UnansweredIsOpen ==
  ASSUME IInv, NEW r \in Requests, pc[r] # "done"
  PROVE  answer[r] = "none" /\ r \notin Placed \cup Doubtful
  BY PlacedIsVisible DEF IInv, TablesOf, Doubtful

\* The statements before COMMIT: an answer refuses, and the others are not seen.
LEMMA StatementRefines ==
  ASSUME IInv, NEW r \in Requests,
         Start(r) \/ Begin(r) \/ InsertOrder(r) \/ InsertLine(r) \/ Rollback(r)
  PROVE  StepRefines
  <1>1. /\ req' = req /\ lost' = lost /\ UNCHANGED <<orders, lines>>
        /\ pc[r] # "done"
    BY DEF Start, Begin, InsertOrder, InsertLine, Rollback, Fails
  <1>2. Placed' = Placed /\ Doubtful' = Doubtful
    BY <1>1, PlacedStays DEF Doubtful
  <1>3. answer[r] = "none" /\ r \notin Placed \cup Doubtful
    BY <1>1, UnansweredIsOpen
  <1>4. CASE answer' = answer
    BY <1>1, <1>2, <1>4 DEF StepRefines, Promise!vars
  <1>5. CASE answer' # answer
    <2>1. \E code \in {"InvalidArgument", "Internal"} : answer' = [answer EXCEPT ![r] = code]
      BY <1>5 DEF Start, Begin, InsertOrder, InsertLine, Rollback, Finish
    <2>2. Promise!Refuse(r)
      BY <1>1, <1>2, <1>3, <2>1 DEF Promise!Refuse, Promise!Reply
    <2> QED
      BY <2>2 DEF StepRefines, Promise!Next
  <1> QED
    BY <1>4, <1>5

\* An interruption leaves a doubt only if COMMIT was on its way.
LEMMA InterruptRefines ==
  ASSUME IInv, Accepted, NEW r \in Requests, Interrupt(r)
  PROVE  StepRefines
  <1>1. /\ req' = req /\ UNCHANGED <<orders, lines>> /\ pc[r] # "done"
        /\ \E code \in {"Internal", "Unknown"} : answer' = [answer EXCEPT ![r] = code]
    BY DEF Interrupt, Finish
  <1>2. Placed' = Placed
    BY <1>1, PlacedStays
  <1>3. answer[r] = "none" /\ r \notin Placed \cup Doubtful
    BY <1>1, UnansweredIsOpen
  <1>4. CASE pc[r] = "commit"
    <2>1. lost' = [lost EXCEPT ![r] = "commit"]
      BY <1>4 DEF Interrupt
    <2>2. Doubtful' = Doubtful \cup {r}
      BY <2>1, DoubtfulAfter
    <2>3. Placeable(req[r])
      BY <1>4 DEF Accepted, Passed
    <2>4. Promise!Doubt(r)
      BY <1>1, <1>2, <1>3, <2>2, <2>3 DEF Promise!Doubt, Promise!Reply
    <2> QED
      BY <2>4 DEF StepRefines, Promise!Next
  <1>5. CASE pc[r] # "commit"
    <2>1. PICK l \in {"none", "open"} : lost' = [lost EXCEPT ![r] = l]
      BY <1>5 DEF Interrupt
    <2>2. Doubtful' = Doubtful
      <3>1. l \in {"none", "open", "commit"} /\ l # "commit" /\ Doubtful \ {r} = Doubtful
        BY <1>3
      <3> QED
        BY <2>1, <3>1, DoubtfulAfter
    <2>3. Promise!Refuse(r)
      BY <1>1, <1>2, <1>3, <2>2 DEF Promise!Refuse, Promise!Reply
    <2> QED
      BY <2>3 DEF StepRefines, Promise!Next
  <1> QED
    BY <1>4, <1>5

\* What the database does with the transaction of a lost client settles a doubt,
\* or is not seen.
LEMMA LateRollbackRefines ==
  ASSUME IInv, NEW r \in Requests, LateRollback(r)
  PROVE  StepRefines
  <1>1. /\ req' = req /\ answer' = answer /\ UNCHANGED <<orders, lines>>
        /\ lost' = [lost EXCEPT ![r] = "none"]
    BY DEF LateRollback
  <1>2. Placed' = Placed
    BY <1>1, PlacedStays
  <1>3. Doubtful' = Doubtful \ {r}
    BY <1>1, DoubtfulAfter
  <1>4. CASE r \in Doubtful
    <2>1. Promise!Settle(r)
      BY <1>1, <1>2, <1>3, <1>4 DEF Promise!Settle
    <2> QED
      BY <2>1 DEF StepRefines, Promise!Next
  <1>5. CASE r \notin Doubtful
    BY <1>1, <1>2, <1>3, <1>5 DEF StepRefines, Promise!vars
  <1> QED
    BY <1>4, <1>5

LEMMA CommitRefines ==
  ASSUME IInv, Accepted, NEW r \in Requests, Commit(r) \/ LateCommit(r)
  PROVE  StepRefines
  <1>1. /\ req' = req /\ MakeVisible(r)
        /\ pc[r] = "commit" \/ lost[r] = "commit"
    BY DEF Commit, LateCommit
  <1>2. r \notin Placed /\ Placed' = Placed \cup {r}
    BY <1>1, PlacedByCommit
  <1>3. CASE Commit(r)
    <2>1. /\ pc[r] = "commit" /\ lost' = lost
          /\ answer' = [answer EXCEPT ![r] = "OK"]
      BY <1>3 DEF Commit, Finish
    <2>2. /\ answer[r] = "none" /\ r \notin Placed \cup Doubtful
          /\ Doubtful' = Doubtful
      BY <2>1, UnansweredIsOpen DEF Doubtful
    <2>3. Placeable(req[r])
      BY <2>1 DEF Accepted, Passed
    <2>4. Promise!Confirm(r)
      BY <1>1, <1>2, <2>1, <2>2, <2>3 DEF Promise!Confirm, Promise!Reply
    <2> QED
      BY <2>4 DEF StepRefines, Promise!Next
  <1>4. CASE LateCommit(r)
    <2>1. /\ answer' = answer /\ r \in Doubtful
          /\ lost' = [lost EXCEPT ![r] = "none"]
      BY <1>4 DEF LateCommit, Doubtful
    <2>2. Doubtful' = Doubtful \ {r}
      BY <2>1, DoubtfulAfter
    <2>3. Promise!Settle(r)
      BY <1>1, <1>2, <2>1, <2>2 DEF Promise!Settle
    <2> QED
      BY <2>3 DEF StepRefines, Promise!Next
  <1> QED
    BY <1>3, <1>4

\* Orders appear whole, in one step, at most once for each request and only for
\* one that can be placed: with an OK, or after the answer if the COMMIT was
\* overtaken, never after an answer that was given before COMMIT was sent.
THEOREM Refinement == Spec => KeepsContract
  <1>1. Init => Promise!Init
    BY DEF Init, Promise!Init, Placed, Doubtful
  <1>2. ASSUME IInv, Accepted, [Next]_vars
        PROVE  StepRefines
    <2>1. ASSUME NEW r \in Requests,
                 Start(r) \/ Handle(r) \/ Interrupt(r) \/ Settle(r)
          PROVE  StepRefines
      BY <1>2, <2>1, StatementRefines, InterruptRefines, LateRollbackRefines, CommitRefines
         DEF Handle, Settle
    <2>2. CASE UNCHANGED vars
      <3>1. /\ req' = req /\ answer' = answer /\ lost' = lost
            /\ UNCHANGED <<orders, lines>>
        BY <2>2 DEF vars
      <3> QED
        BY <3>1, PlacedStays DEF StepRefines, Promise!vars, Doubtful
    <2> QED
      BY <1>2, <2>1, <2>2 DEF Next
  <1>3. IInv /\ Accepted /\ [Next]_vars => [Promise!Next]_(Promise!vars)
    BY <1>2 DEF StepRefines
  <1> QED
    BY <1>1, <1>3, Invariant, AlwaysAccepted, PTL DEF Spec, KeepsContract, Promise!Spec
=============================================================================
