--------------------------- MODULE GatewayProofs ----------------------------
(***************************************************************************)
(* Proofs about the gateway and the API, for any number of calls, any      *)
(* deadline and any time of shutdown that is longer.                       *)
(***************************************************************************)
EXTENDS Gateway, TLAPS

\* How an RPC may end for a caller that waits for it.
Endings(c) ==
  {"OK", "InvalidArgument", "NotFound", "Internal", "Unavailable"}
  \cup (IF c \in Http THEN {"DeadlineExceeded"} ELSE {})

\* The two sides of a call agree.
CallOk(c) ==
  /\ caller[c] \in {"idle", "reading"} => stub[c] = "none" /\ status[c] = "none"
  /\ caller[c] = "waiting" => stub[c] # "none"
  /\ caller[c] = "waiting" /\ stub[c] = "over" => code[c] \in Endings(c)
  /\ stub[c] = "none" => handler[c] = "none"
  /\ stub[c] = "waiting" => caller[c] = "waiting"
  /\ handler[c] = "none" => ~done[c]
  /\ orphan[c] => handler[c] = "ended"

\* What the code of the RPC and the status say is so.
TruthOk(c) ==
  /\ status[c] # "none" => caller[c] = "answered"
  /\ code[c] = "OK" => done[c]
  /\ code[c] \in {"InvalidArgument", "NotFound"} =>
       handler[c] = "ended" /\ ~done[c] /\ ~orphan[c]
  /\ c \in Http /\ status[c] = "200" => done[c]
  /\ c \in Http /\ status[c] \in {"400", "404", "405"} =>
       ~done[c] /\ ~orphan[c] /\ handler[c] # "running"

\* The deadline of a request that the gateway has read in time passes before
\* the time to write its answer and the time of the shutdown are over; that of
\* any request the API works for, before the API's.
GateOk(c) ==
  /\ caller[c] = "reading" => io[c] = IoLimit
  /\ caller[c] = "waiting" => left[c] < io[c]
  /\ InGate(c) => main["gateway"] \in {"up", "stopping"}
  /\ caller[c] = "reading" /\ main["gateway"] = "stopping" => timer["gateway"] = Grace
  /\ caller[c] = "waiting" /\ main["gateway"] = "stopping" => left[c] < timer["gateway"]
  /\ caller[c] = "cut" => main["gateway"] = "killed"
  /\ caller[c] # "lost"
TimeOk(c) ==
  /\ ~Slow(c) => GateOk(c)
  /\ caller[c] = "reading" => left[c] = Deadline
  /\ caller[c] = "idle" => io[c] = IoLimit /\ left[c] = Deadline
  /\ handler[c] = "running" /\ stub[c] = "waiting" /\ main["api"] = "stopping" =>
       left[c] < timer["api"]
  /\ handler[c] = "running" /\ stub[c] = "waiting" => main["api"] # "closing"

TimersOk == \A p \in Procs : main[p] \in {"booting", "up"} => timer[p] = Grace

IInv ==
  /\ TypeOK
  /\ \A c \in Calls : CallOk(c) /\ TruthOk(c)
  /\ \A c \in Http : TimeOk(c)
  /\ TimersOk
-----------------------------------------------------------------------------
LEMMA InitIInv == Init => IInv
  <1> SUFFICES ASSUME Init PROVE IInv
    OBVIOUS
  <1> USE DEF Init
  <1>1. TypeOK
    <2>1. Grace \in 0 .. Grace /\ Deadline \in 0 .. Deadline /\ IoLimit \in 0 .. IoLimit
      BY TimeAssumption
    <2>2. queued \in [Procs -> BOOLEAN] /\ cancelled \in [Procs -> BOOLEAN]
      OBVIOUS
    <2>3. done \in [Calls -> BOOLEAN] /\ orphan \in [Calls -> BOOLEAN]
      OBVIOUS
    <2>4. code \in [Calls -> {"none"}] /\ status \in [Calls -> {"none"}]
      OBVIOUS
    <2>5. /\ main \in [Procs -> {"booting"}] /\ serve \in [Procs -> {"starting"}]
          /\ watch \in [Procs -> {"watching"}] /\ timer \in [Procs -> {Grace}]
      OBVIOUS
    <2>6. /\ caller \in [Calls -> {"idle"}] /\ left \in [Calls -> {Deadline}]
          /\ io \in [Calls -> {IoLimit}]
          /\ stub \in [Calls -> {"none"}] /\ handler \in [Calls -> {"none"}]
      OBVIOUS
    <2> HIDE DEF Init
    <2>7. input \in [Http -> Inputs]
      BY DEF Init
    <2>8. /\ timer \in [Procs -> 0 .. Grace] /\ left \in [Calls -> 0 .. Deadline]
          /\ io \in [Calls -> 0 .. IoLimit]
      BY <2>1, <2>5, <2>6
    <2>9. /\ DOMAIN status = Calls
          /\ \A c \in Calls : status[c] = "none"
      BY <2>4
    <2>10. /\ main \in [Procs -> {"booting", "up", "stopping", "closing", "down", "killed"}]
           /\ serve \in [Procs -> {"starting", "serving", "failed", "returned"}]
           /\ watch \in [Procs -> {"watching", "leaving", "gone"}]
      BY <2>5
    <2>11. /\ caller \in [Calls -> {"idle", "reading", "waiting", "answered", "gone", "lost", "cut"}]
           /\ stub \in [Calls -> {"none", "waiting", "over"}]
           /\ handler \in [Calls -> {"none", "running", "ended"}]
           /\ code \in [Calls -> {"none", "OK", "InvalidArgument", "NotFound", "Internal",
                                  "Unavailable", "DeadlineExceeded"}]
      BY <2>4, <2>6
    <2>12. /\ \A c \in Http : status[c] \in {"none", "200", "400", "404", "405", "500", "503"}
           /\ \A c \in Direct : status[c] \in {"none", "OK", "InvalidArgument", "NotFound",
                                              "Internal", "Unavailable"}
      BY <2>9, DirectAssumption DEF Http
    <2> QED
      BY <2>2, <2>3, <2>7, <2>8, <2>9, <2>10, <2>11, <2>12, Zenon DEF TypeOK
  <1>2. ASSUME NEW c \in Calls PROVE CallOk(c) /\ TruthOk(c)
    BY DEF CallOk, TruthOk
  <1>3. ASSUME NEW c \in Http PROVE TimeOk(c)
    BY DEF TimeOk, GateOk, InGate, Http, Procs
  <1> QED
    BY <1>1, <1>2, <1>3 DEF IInv, TimersOk

\* A step of one call that leaves the processes alone disturbs that call only.
LEMMA OtherCalls ==
  ASSUME IInv, UNCHANGED process, NEW d \in Calls,
         input' = input, caller'[d] = caller[d], io'[d] = io[d], left'[d] = left[d],
         stub'[d] = stub[d],
         code'[d] = code[d], handler'[d] = handler[d], done'[d] = done[d],
         orphan'[d] = orphan[d], status'[d] = status[d]
  PROVE  CallOk(d)' /\ TruthOk(d)' /\ (d \in Http => TimeOk(d)')
  BY DEF IInv, process, CallOk, TruthOk, TimeOk, GateOk, InGate, Slow, Endings

LEMMA CallStep ==
  ASSUME IInv, NEW c \in Calls, Client(c) \/ Read(c) \/ Gate(c) \/ Api(c)
  PROVE  IInv'
  <1> DEFINE Ok(d) == CallOk(d)' /\ TruthOk(d)' /\ (d \in Http => TimeOk(d)')
  <1>1. UNCHANGED process /\ input' = input
    BY DEF Client, Read, Gate, Api, Arrive, Refuse, BodyTimesOut, Send, Timeout, Answer,
           GiveUp, Accept, Unreachable, Work, Reply, Abandon, LateWork
  <1>2. TypeOK /\ CallOk(c) /\ TruthOk(c) /\ (c \in Http => TimeOk(c)) /\ TimersOk
    BY DEF IInv
  <1>3. TimersOk'
    BY <1>1, <1>2 DEF TimersOk, process
  <1>4. ASSUME NEW d \in Calls, d # c PROVE Ok(d)
    <2>1. /\ caller'[d] = caller[d] /\ io'[d] = io[d] /\ left'[d] = left[d]
          /\ stub'[d] = stub[d]
          /\ code'[d] = code[d] /\ handler'[d] = handler[d] /\ done'[d] = done[d]
          /\ orphan'[d] = orphan[d] /\ status'[d] = status[d]
      BY <1>2, <1>4 DEF TypeOK, Client, Read, Gate, Api, Arrive, Refuse, BodyTimesOut, Send,
             Write, Timeout, Answer, GiveUp, Accept, Unreachable, Work, Reply, Abandon,
             LateWork, End
    <2> QED
      BY <1>1, <2>1, OtherCalls
  <1>5. TypeOK' /\ Ok(c)
    <2> USE <1>1, <1>2, DirectAssumption DEF Http, Slow, InGate
    <2>1. CASE Arrive(c)
      BY <2>1, TimeAssumption
         DEF Arrive, Open, TypeOK, CallOk, TruthOk, TimeOk, GateOk, TimersOk, process, Endings
    <2>2. CASE Refuse(c) \/ BodyTimesOut(c)
      <3>1. /\ c \in Http /\ caller[c] = "reading"
            /\ UNCHANGED <<process, input, io, left, stub, code, handler, done, orphan>>
            /\ \E s \in {"400", "404", "405"} : Write(c, s)
            /\ BodyTimesOut(c) => Slow(c)
        BY <2>2 DEF Refuse, BodyTimesOut, Refusals
      <3> QED
        BY <3>1, TimeAssumption
           DEF Write, TypeOK, CallOk, TruthOk, TimeOk, GateOk, process, Endings
    <2>3. CASE Send(c)
      BY <2>3, TimeAssumption
         DEF Send, TypeOK, CallOk, TruthOk, TimeOk, GateOk, TimersOk, process, Endings
    <2>4. CASE GiveUp(c)
      BY <2>4 DEF GiveUp, TypeOK, CallOk, TruthOk, TimeOk, GateOk, process, Endings
    <2>5. CASE Timeout(c)
      BY <2>5 DEF Timeout, End, TypeOK, CallOk, TruthOk, TimeOk, GateOk, process, Endings
    <2>6. CASE Answer(c)
      BY <2>6, TimeAssumption
         DEF Answer, Write, StatusOf, TypeOK, CallOk, TruthOk, TimeOk, GateOk, process, Endings
    <2>7. CASE Accept(c)
      BY <2>7 DEF Accept, Open, TypeOK, CallOk, TruthOk, TimeOk, GateOk, process, Endings
    <2>8. CASE Unreachable(c)
      BY <2>8 DEF Unreachable, End, TypeOK, CallOk, TruthOk, TimeOk, GateOk, process, Endings
    <2>9. CASE Work(c)
      BY <2>9 DEF Work, TypeOK, CallOk, TruthOk, TimeOk, GateOk, process, Endings
    <2>10. CASE Reply(c)
      BY <2>10 DEF Reply, Connected, CodesAfter, CodesBefore, End, TypeOK, CallOk, TruthOk,
                  TimeOk, GateOk, process, Endings
    <2>11. CASE Abandon(c)
      BY <2>11 DEF Abandon, Connected, End, TypeOK, CallOk, TruthOk, TimeOk, GateOk, process,
                   Endings
    <2>12. CASE LateWork(c)
      BY <2>12 DEF LateWork, TypeOK, CallOk, TruthOk, TimeOk, GateOk, process, Endings
    <2> QED
      BY <2>1, <2>2, <2>3, <2>4, <2>5, <2>6, <2>7, <2>8, <2>9, <2>10, <2>11, <2>12
         DEF Client, Read, Gate, Api
  <1> QED
    BY <1>3, <1>4, <1>5, DirectAssumption DEF IInv, Http

\* A process that ends leaves every call in order: the gateway has no caller
\* left unless it is killed.
LEMMA DieStep ==
  ASSUME IInv, NEW p \in Procs, NEW how \in {"down", "killed"}, Die(p, how),
         how = "down" => main[p] = "closing",
         UNCHANGED <<serve, watch, cancelled, timer>>, queued' = queued, Alive(p)
  PROVE  IInv'
  <1> USE DEF Procs, Http
  <1>1. TypeOK'
    <2> USE DEF IInv, Die, TypeOK
    <2>1. orphan' \in [Calls -> BOOLEAN]
      <3>1. CASE p = "gateway"
        BY <3>1
      <3>2. CASE p = "api"
        <4>1. orphan' = [c \in Calls |-> IF handler[c] = "running" THEN ~done[c] ELSE orphan[c]]
          BY <3>2
        <4>2. ASSUME NEW c \in Calls PROVE (~done[c]) \in BOOLEAN /\ orphan[c] \in BOOLEAN
          <5>1. done[c] \in BOOLEAN /\ orphan[c] \in BOOLEAN
            OBVIOUS
          <5> HIDE DEF IInv, TypeOK, Die
          <5> QED
            BY <5>1, Zenon
        <4> QED
          BY <4>1, <4>2, Zenon
      <3> QED
        BY <3>1, <3>2
    <2>2. /\ main' \in [Procs -> {"booting", "up", "stopping", "closing", "down", "killed"}]
          /\ caller' \in [Calls -> {"idle", "reading", "waiting", "answered", "gone", "lost", "cut"}]
          /\ stub' \in [Calls -> {"none", "waiting", "over"}]
          /\ handler' \in [Calls -> {"none", "running", "ended"}]
      OBVIOUS
    <2> QED
      BY <2>1, <2>2
  <1>2. TimersOk'
    BY DEF IInv, Die, TypeOK, TimersOk
  <1>3. ASSUME NEW c \in Calls PROVE CallOk(c)' /\ TruthOk(c)' /\ (c \in Http => TimeOk(c)')
    <2> USE DEF IInv, Die, TypeOK, CallOk, TruthOk, TimeOk, GateOk, InGate, Slow, Endings, Alive
    <2>1. CASE p = "gateway"
      BY <2>1
    <2>2. CASE p = "api"
      BY <2>2
    <2> QED
      BY <2>1, <2>2
  <1> QED
    BY <1>1, <1>2, <1>3 DEF IInv

LEMMA ProcessStep ==
  ASSUME IInv, NEW p \in Procs, Run(p) \/ Main(p) \/ BootFails(p) \/ ServeFails(p) \/ Signal(p)
  PROVE  IInv'
  <1> USE TimeAssumption DEF Procs
  <1>1. CASE Run(p) \/ ServeFails(p)
    <2>1. UNCHANGED <<main, timer, call>>
      BY <1>1 DEF Run, Serve, ServeReturns, Wake, Unregister, ServeFails
    <2>2. TypeOK'
      <3> USE DEF IInv, TypeOK
      <3>1. /\ serve' \in [Procs -> {"starting", "serving", "failed", "returned"}]
            /\ watch' \in [Procs -> {"watching", "leaving", "gone"}]
        BY <1>1 DEF Run, Serve, ServeReturns, Wake, Unregister, ServeFails
      <3>2. /\ queued' = queued \/ queued' = [queued EXCEPT ![p] = FALSE]
            /\ cancelled' = cancelled \/ cancelled' = [cancelled EXCEPT ![p] = TRUE]
        BY <1>1 DEF Run, Serve, ServeReturns, Wake, Unregister, ServeFails
      <3>3. queued \in [Procs -> BOOLEAN] /\ cancelled \in [Procs -> BOOLEAN]
        OBVIOUS
      <3>4. queued' \in [Procs -> BOOLEAN]
        <4> HIDE DEF IInv, TypeOK
        <4>1. [queued EXCEPT ![p] = FALSE] \in [Procs -> BOOLEAN]
          BY <3>3, Zenon
        <4> QED
          BY <3>2, <3>3, <4>1, Zenon
      <3>5. cancelled' \in [Procs -> BOOLEAN]
        <4> HIDE DEF IInv, TypeOK
        <4>1. [cancelled EXCEPT ![p] = TRUE] \in [Procs -> BOOLEAN]
          BY <3>3, Zenon
        <4> QED
          BY <3>2, <3>3, <4>1, Zenon
      <3> QED
        BY <2>1, <3>1, <3>4, <3>5 DEF call
    <2> QED
      BY <2>1, <2>2 DEF IInv, call, CallOk, TruthOk, TimeOk, GateOk, InGate, Slow,
            Endings, TimersOk
  <1>2. CASE Signal(p)
    <2>1. CASE watch[p] = "gone" /\ Die(p, "killed") /\ UNCHANGED queued
      BY <1>2, <2>1, DieStep DEF Signal
    <2>2. CASE UNCHANGED <<main, call>> /\ queued' = [queued EXCEPT ![p] = TRUE]
      <3>1. TypeOK'
        BY <1>2, <2>2 DEF IInv, TypeOK, call, Signal
      <3> QED
        BY <1>2, <2>2, <3>1 DEF Signal, IInv, call, CallOk, TruthOk, TimeOk, GateOk, InGate, Slow,
            Endings, TimersOk
    <2> QED
      BY <1>2, <2>1, <2>2 DEF Signal
  <1>3. CASE Exit(p)
    BY <1>3, DieStep DEF Exit, Alive
  <1>4. CASE Stop(p)
    <2>1. TypeOK'
      BY <1>4 DEF IInv, TypeOK, call, Stop
    <2>2. TimersOk'
      BY <1>4 DEF IInv, TypeOK, call, Stop, TimersOk
    <2>3. ASSUME NEW c \in Http PROVE TimeOk(c)'
      BY <1>4, DirectAssumption DEF IInv, TypeOK, call, Stop, TimersOk, TimeOk, GateOk, InGate, Slow, Http
    <2> QED
      BY <1>4, <2>1, <2>2, <2>3 DEF Stop, IInv, call, CallOk, TruthOk, Endings
  <1>5. CASE Drained(p) \/ Expire(p)
    <2>1. /\ main[p] = "stopping" /\ main' = [main EXCEPT ![p] = "closing"]
          /\ timer' = [timer EXCEPT ![p] = Grace]
          /\ UNCHANGED <<serve, watch, queued, cancelled, call>>
          /\ Idle(p) \/ timer[p] = 0
      BY <1>5 DEF Drained, Expire
    <2>2. TypeOK'
      BY <2>1 DEF IInv, TypeOK, call
    <2>3. TimersOk'
      BY <2>1 DEF IInv, TypeOK, TimersOk
    <2>4. ASSUME NEW c \in Http PROVE TimeOk(c)'
      BY <2>1, DirectAssumption DEF IInv, TypeOK, call, Idle, TimeOk, GateOk, InGate, Slow, Http
    <2> QED
      BY <2>1, <2>2, <2>3, <2>4 DEF IInv, call, CallOk, TruthOk, Endings
  <1>6. CASE Boot(p) \/ BootFails(p)
    <2>1. /\ main[p] = "booting"
          /\ \E s \in {"up", "down"} : main' = [main EXCEPT ![p] = s]
          /\ UNCHANGED <<serve, watch, queued, cancelled, timer, call>>
      BY <1>6 DEF Boot, BootFails
    <2>2. TypeOK'
      BY <2>1 DEF IInv, TypeOK, call
    <2>3. TimersOk'
      BY <2>1 DEF IInv, TypeOK, TimersOk
    <2>4. ASSUME NEW c \in Http PROVE TimeOk(c)'
      BY <2>1, DirectAssumption DEF IInv, TypeOK, call, TimeOk, GateOk, InGate, Slow, Http
    <2> QED
      BY <2>1, <2>2, <2>3, <2>4 DEF IInv, call, CallOk, TruthOk, Endings
  <1> QED
    BY <1>1, <1>2, <1>3, <1>4, <1>5, <1>6 DEF Main

LEMMA PanicStep ==
  ASSUME IInv, NEW c \in Calls, Panic(c)
  PROVE  IInv'
  BY DieStep DEF Panic, Procs

LEMMA TickStep == IInv /\ Tick => IInv'
  <1> SUFFICES ASSUME IInv, Tick PROVE IInv'
    OBVIOUS
  <1>1. TypeOK'
    BY DirectAssumption, TimeAssumption DEF IInv, TypeOK, Tick, Due, Http
  <1>2. TimersOk'
    BY DEF IInv, TypeOK, Tick, TimersOk
  <1>3. ASSUME NEW c \in Calls PROVE CallOk(c)' /\ TruthOk(c)'
    BY DEF IInv, Tick, CallOk, TruthOk, Endings
  <1>4. ASSUME NEW c \in Http PROVE TimeOk(c)'
    <2>1. ~Slow(c) => caller[c] # "reading"
      BY <1>4 DEF Tick, Due
    <2>2. /\ caller[c] = "waiting" => left[c] # 0
          /\ \A p \in Procs : main[p] = "stopping" => timer[p] # 0
      BY <1>4 DEF Tick, Due
    <2>3. c \in Calls /\ TimeOk(c) /\ CallOk(c) /\ TypeOK
      BY <1>4 DEF IInv, Http
    <2>4. /\ UNCHANGED <<main, input, caller, stub, handler>>
          /\ io'[c] = IF InGate(c) /\ io[c] > 0 THEN io[c] - 1 ELSE io[c]
          /\ left'[c] = IF caller[c] = "waiting" THEN left[c] - 1 ELSE left[c]
          /\ \A p \in Procs :
               timer'[p] = IF main[p] = "stopping" THEN timer[p] - 1 ELSE timer[p]
      BY <1>4, <2>3 DEF Tick
    <2>5. /\ left[c] \in Nat /\ io[c] \in Nat /\ \A p \in Procs : timer[p] \in Nat
          /\ "gateway" \in Procs /\ "api" \in Procs
      BY <2>3, TimeAssumption DEF TypeOK, Procs
    <2>6. ~Slow(c) => GateOk(c)'
      BY <2>1, <2>2, <2>3, <2>4, <2>5 DEF TimeOk, GateOk, InGate
    <2> QED
      BY <1>4, <2>2, <2>3, <2>4, <2>5, <2>6 DEF TimeOk, CallOk, Slow, InGate
  <1> QED
    BY <1>1, <1>2, <1>3, <1>4 DEF IInv

\* The invariant holds of the gateway and the API for any number of calls.
THEOREM Invariant == Spec => []IInv
  <1>1. IInv /\ UNCHANGED vars => IInv'
    BY DEF IInv, vars, process, call, TypeOK, CallOk, TruthOk, TimeOk, GateOk, InGate, Slow,
           TimersOk, Endings
  <1>2. IInv /\ [Next]_vars => IInv'
    BY <1>1, CallStep, PanicStep, ProcessStep, TickStep DEF Next
  <1> QED
    BY InitIInv, <1>2, PTL DEF Spec

\* Every variable keeps its type, and every code of an RPC has a status.
THEOREM TypeCorrect == Spec => []TypeOK
  <1>1. IInv => TypeOK
    BY DEF IInv
  <1> QED
    BY <1>1, Invariant, PTL

\* A status of success or of refusal tells the truth about the write, whatever
\* was late or lost (httpStatusFromGRPC).
THEOREM Truthful == Spec => []TruthfulStatus
  <1>1. IInv => TruthfulStatus
    BY DirectAssumption DEF IInv, TruthOk, TruthfulStatus, Http
  <1> QED
    BY <1>1, Invariant, PTL

\* A request whose body is not slow is answered, also when the gateway stops,
\* because the deadline of its RPC is shorter than the time the shutdown waits
\* and than the WriteTimeout.
THEOREM NoRequestCut == Spec => []NoneCut
  <1>1. IInv => NoneCut
    BY DEF IInv, TimeOk, GateOk, NoneCut
  <1> QED
    BY <1>1, Invariant, PTL

\* The API closes its database only when no handler works for a caller of the
\* gateway that still waits.
THEOREM ClosedLast == Spec => []DatabaseClosedLast
  <1>1. IInv => DatabaseClosedLast
    BY DEF IInv, TimeOk, DatabaseClosedLast
  <1> QED
    BY <1>1, Invariant, PTL
=============================================================================
