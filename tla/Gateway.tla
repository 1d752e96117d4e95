------------------------------ MODULE Gateway -------------------------------
(***************************************************************************)
(* The two processes of the program: the HTTP gateway (cmd/gateway), which *)
(* turns a request into one RPC with a deadline, and the API               *)
(* (cmd/catalog), which runs the RPC in a handler; their signals           *)
(* (pkg/shutdown); and how they stop: the gateway by http.Server.Shutdown, *)
(* the API by GracefulStop, each with a limit on its time.                 *)
(*                                                                         *)
(* What a handler does is abstracted to one write, or one reading, as the  *)
(* contracts of the services promise it.  The calls of Direct are RPCs of  *)
(* other clients of the API and have no deadline (the gateway has no route *)
(* to orders).  Those of Faulty lack the item that their handler takes for *)
(* granted.                                                                *)
(***************************************************************************)
EXTENDS Integers, FiniteSets, Http

CONSTANTS
  Calls,       \* the requests of a behaviour
  Direct,      \* those that are RPCs of other clients
  Faulty,      \* those of them that make their handler panic
  Inputs,      \* what an HTTP request may carry
  Deadline,    \* of the gateway's RPCs: 3 s, in ticks
  Grace,       \* of either shutdown: 10 s, in ticks
  IoLimit,     \* ReadTimeout and WriteTimeout of the gateway: 15 s, in ticks
  Stops        \* bound: the processes that are stopped in a behaviour

Procs == {"gateway", "api"}
Http == Calls \ Direct

ASSUME DirectAssumption == Direct \subseteq Calls /\ Faulty \subseteq Direct
ASSUME InputsAssumption == Inputs \subseteq Input
ASSUME StopsAssumption == Stops \subseteq Procs
ASSUME TimeAssumption ==
  /\ Deadline \in Nat /\ Grace \in Nat /\ IoLimit \in Nat
  /\ Deadline < Grace /\ Deadline < IoLimit

VARIABLES
  main,       \* where the main function of each process is
  serve,      \* its serving goroutine
  watch,      \* its goroutine of WithSignals
  queued,     \* whether the signal channel holds a signal
  cancelled,  \* whether the context of WithSignals is done
  timer,      \* ticks left to its shutdown, Grace before and after it
  input,      \* what each request carries
  caller,     \* its caller
  io,         \* ticks left to its reading and the writing of its answer
  left,       \* ticks left to its deadline
  stub,       \* the client's side of its RPC
  code,       \* how the RPC ended, for that side
  handler,    \* the API's side of it
  done,       \* whether the handler's write has taken effect
  orphan,     \* whether it may still, the handler being gone
  status      \* the status of the answer

process == <<main, serve, watch, queued, cancelled, timer>>
call == <<input, caller, io, left, stub, code, handler, done, orphan, status>>
vars == <<process, call>>
-----------------------------------------------------------------------------
\* A request that HTTP brings and its handler has begun with.
InGate(c) == c \in Http /\ caller[c] \in {"reading", "waiting"}

\* The body is still to come.
Slow(c) == c \in Http /\ input[c].slow /\ Op(input[c]) \cap Bodies # {}

\* The codes a handler answers a call with, once its write has taken effect, and
\* while it has not.
CodesAfter == {"OK", "Internal"}
CodesBefore(c) ==
  {"Internal"}
  \cup (IF c \in Direct \/ Op(input[c]) \cap {"GetProduct", "ListProducts"} # {}
        THEN {"InvalidArgument"} ELSE {})
  \cup (IF c \in Direct \/ Op(input[c]) \cap {"GetProduct", "ClearCart", "Quote"} # {}
        THEN {"NotFound"} ELSE {})
-----------------------------------------------------------------------------
Init ==
  /\ main = [p \in Procs |-> "booting"]
  /\ serve = [p \in Procs |-> "starting"]
  /\ watch = [p \in Procs |-> "watching"]
  /\ queued = [p \in Procs |-> FALSE]
  /\ cancelled = [p \in Procs |-> FALSE]
  /\ timer = [p \in Procs |-> Grace]
  /\ input \in [Http -> Inputs]
  /\ caller = [c \in Calls |-> "idle"]
  /\ io = [c \in Calls |-> IoLimit]
  /\ left = [c \in Calls |-> Deadline]
  /\ stub = [c \in Calls |-> "none"]
  /\ code = [c \in Calls |-> "none"]
  /\ handler = [c \in Calls |-> "none"]
  /\ done = [c \in Calls |-> FALSE]
  /\ orphan = [c \in Calls |-> FALSE]
  /\ status = [c \in Calls |-> "none"]

Alive(p) == main[p] \notin {"down", "killed"}

\* New work is taken until main begins to stop; connections that exist outlive
\* a serving goroutine that has failed.
Open(p) == main[p] = "up" /\ serve[p] \in {"serving", "failed"}

(* A request at the gateway.                                               *)

\* Its headers are there: the handler begins.
Arrive(c) ==
  /\ c \in Http /\ caller[c] = "idle" /\ Open("gateway")
  /\ caller' = [caller EXCEPT ![c] = "reading"]
  /\ UNCHANGED <<process, input, io, left, stub, code, handler, done, orphan, status>>

\* An answer is written.  Past the WriteTimeout its caller finds the connection
\* closed instead.
Write(c, s) ==
  \/ /\ caller' = [caller EXCEPT ![c] = "answered"]
     /\ status' = [status EXCEPT ![c] = s]
  \/ /\ io[c] = 0
     /\ caller' = [caller EXCEPT ![c] = "lost"]
     /\ UNCHANGED status

Refuse(c) ==
  /\ c \in Http /\ caller[c] = "reading"
  /\ \E s \in Refusals(input[c]) : Write(c, s)
  /\ UNCHANGED <<process, input, io, left, stub, code, handler, done, orphan>>

\* The body has not come within the ReadTimeout, and does not decode.
BodyTimesOut(c) ==
  /\ Slow(c) /\ caller[c] = "reading" /\ io[c] = 0
  /\ Write(c, "400")
  /\ UNCHANGED <<process, input, io, left, stub, code, handler, done, orphan>>

\* The RPC of an HTTP request, or of another client, is sent.
Send(c) ==
  /\ IF c \in Http
     THEN caller[c] = "reading" /\ io[c] > 0 /\ Refusals(input[c]) = {}
     ELSE caller[c] = "idle"
  /\ caller' = [caller EXCEPT ![c] = "waiting"]
  /\ stub' = [stub EXCEPT ![c] = "waiting"]
  /\ UNCHANGED <<process, input, io, left, code, handler, done, orphan, status>>

\* The RPC ends for its client, with this code.
End(c, how) ==
  /\ stub' = [stub EXCEPT ![c] = "over"]
  /\ code' = [code EXCEPT ![c] = how]

\* Mutant: the RPC is called with the context of the request.
TimeoutNever(c) == FALSE /\ UNCHANGED vars

Timeout(c) ==
  /\ c \in Http /\ stub[c] = "waiting" /\ left[c] = 0
  /\ End(c, "DeadlineExceeded")
  /\ UNCHANGED <<process, input, caller, io, left, handler, done, orphan, status>>

Answer(c) ==
  /\ caller[c] = "waiting" /\ stub[c] = "over"
  /\ IF c \in Http
     THEN Write(c, StatusOf(code[c]))
     ELSE /\ caller' = [caller EXCEPT ![c] = "answered"]
          /\ status' = [status EXCEPT ![c] = code[c]]
  /\ UNCHANGED <<process, input, io, left, stub, code, handler, done, orphan>>

\* The caller gives up: the context of its request ends, and so does the RPC.
GiveUp(c) ==
  /\ caller[c] \in {"reading", "waiting"}
  /\ caller' = [caller EXCEPT ![c] = "gone"]
  /\ stub' = [stub EXCEPT ![c] = IF caller[c] = "waiting" THEN "over" ELSE @]
  /\ UNCHANGED <<process, input, io, left, code, handler, done, orphan, status>>
-----------------------------------------------------------------------------
(* The RPC at the API.                                                     *)

Accept(c) ==
  /\ stub[c] = "waiting" /\ handler[c] = "none" /\ Open("api")
  /\ handler' = [handler EXCEPT ![c] = "running"]
  /\ UNCHANGED <<process, input, caller, io, left, stub, code, done, orphan, status>>

\* The API takes no more RPCs, or the connection to it breaks or is closed.
Unreachable(c) ==
  /\ stub[c] = "waiting"
  /\ End(c, "Unavailable")
  /\ UNCHANGED <<process, input, caller, io, left, handler, done, orphan, status>>

Work(c) ==
  /\ handler[c] = "running" /\ ~done[c] /\ c \notin Faulty
  /\ done' = [done EXCEPT ![c] = TRUE]
  /\ UNCHANGED <<process, input, caller, io, left, stub, code, handler, orphan, status>>

\* An answer of a handler reaches its client.
Connected(c) == stub[c] = "waiting" /\ main["api"] \in {"up", "stopping"}

Reply(c) ==
  /\ handler[c] = "running"
  /\ handler' = [handler EXCEPT ![c] = "ended"]
  /\ IF Connected(c)
     THEN \E how \in IF done[c] THEN CodesAfter ELSE CodesBefore(c) : End(c, how)
     ELSE UNCHANGED <<stub, code>>
  /\ UNCHANGED <<process, input, caller, io, left, done, orphan, status>>

\* The handler's context is done: its deadline has passed, by the API's own
\* clock, the client's side is over, or the API has closed the connection.
ContextDone(c) ==
  stub[c] = "over" \/ (c \in Http /\ left[c] = 0) \/ main["api"] = "closing"

\* The statement the handler waits for returns an error, which it reports as
\* Internal; the database may have got it all the same.
Abandon(c) ==
  /\ handler[c] = "running" /\ ContextDone(c)
  /\ handler' = [handler EXCEPT ![c] = "ended"]
  /\ orphan' = [orphan EXCEPT ![c] = ~done[c]]
  /\ IF Connected(c) THEN End(c, "Internal") ELSE UNCHANGED <<stub, code>>
  /\ UNCHANGED <<process, input, caller, io, left, done, status>>

LateWork(c) ==
  /\ orphan[c] /\ ~done[c]
  /\ done' = [done EXCEPT ![c] = TRUE]
  /\ UNCHANGED <<process, input, caller, io, left, stub, code, handler, orphan, status>>
-----------------------------------------------------------------------------
(* The processes.                                                          *)

\* main has its configuration, its client or its database, and its listener, and
\* starts the goroutine that serves.
Boot(p) ==
  /\ main[p] = "booting"
  /\ main' = [main EXCEPT ![p] = "up"]
  /\ UNCHANGED <<serve, watch, queued, cancelled, timer, call>>

\* One of them fails, and the process ends.
BootFails(p) ==
  /\ p \in Stops /\ main[p] = "booting"
  /\ main' = [main EXCEPT ![p] = "down"]
  /\ UNCHANGED <<serve, watch, queued, cancelled, timer, call>>

Serve(p) ==
  /\ serve[p] = "starting" /\ main[p] = "up"
  /\ serve' = [serve EXCEPT ![p] = "serving"]
  /\ UNCHANGED <<main, watch, queued, cancelled, timer, call>>

\* The listener fails: the goroutine cancels the context and returns.
ServeFails(p) ==
  /\ p \in Stops /\ serve[p] \in {"starting", "serving"} /\ main[p] = "up"
  /\ serve' = [serve EXCEPT ![p] = IF @ = "starting" THEN "returned" ELSE "failed"]
  /\ cancelled' = [cancelled EXCEPT ![p] = TRUE]
  /\ UNCHANGED <<main, watch, queued, timer, call>>

\* It returns once the server is shut down: that of the API when Stop or
\* GracefulStop has returned.
ServeReturns(p) ==
  /\ serve[p] \in {"starting", "serving"}
  /\ main[p] = "closing" \/ (p = "gateway" /\ main[p] = "stopping")
  /\ serve' = [serve EXCEPT ![p] = "returned"]
  /\ UNCHANGED <<main, watch, queued, cancelled, timer, call>>

\* main ends, or the process is killed: every goroutine with it.  Callers of the
\* gateway lose their connection; a handler's statement may be with the database.
Die(p, how) ==
  /\ main' = [main EXCEPT ![p] = how]
  /\ IF p = "gateway"
     THEN /\ caller' = [c \in Calls |-> IF InGate(c) THEN "cut" ELSE caller[c]]
          /\ stub' = [c \in Calls |->
               IF InGate(c) /\ caller[c] = "waiting" THEN "over" ELSE stub[c]]
          /\ UNCHANGED <<handler, orphan>>
     ELSE LET mine == { c \in Calls : handler[c] = "running" } IN
          /\ handler' = [c \in Calls |-> IF c \in mine THEN "ended" ELSE handler[c]]
          /\ orphan' = [c \in Calls |-> IF c \in mine THEN ~done[c] ELSE orphan[c]]
          /\ UNCHANGED <<caller, stub>>
  /\ UNCHANGED <<input, io, left, code, done, status>>

\* A handler that dereferences the item its request lacks panics, and nothing
\* recovers: the API dies with every RPC in flight.
Panic(c) ==
  /\ c \in Faulty /\ handler[c] = "running" /\ Alive("api")
  /\ Die("api", "killed")
  /\ UNCHANGED <<serve, watch, queued, cancelled, timer>>

\* A signal is put in the channel, which holds one; it is lost if the goroutine
\* is leaving, and kills the process once the channel is unregistered.
Signal(p) ==
  /\ p \in Stops /\ Alive(p)
  /\ \/ /\ watch[p] = "watching"
        /\ queued' = [queued EXCEPT ![p] = TRUE]
        /\ UNCHANGED <<main, call>>
     \/ watch[p] = "gone" /\ Die(p, "killed") /\ UNCHANGED queued
  /\ UNCHANGED <<serve, watch, cancelled, timer>>

\* Mutant: a signal ends the goroutine and nothing else.
WakeWithoutCancel(p) ==
  /\ Alive(p) /\ watch[p] = "watching"
  /\ queued[p] \/ cancelled[p]
  /\ queued' = [queued EXCEPT ![p] = FALSE]
  /\ watch' = [watch EXCEPT ![p] = "leaving"]
  /\ UNCHANGED <<main, serve, cancelled, timer, call>>

\* The goroutine of WithSignals wakes up, by a signal or because the context is
\* done, and unregisters the channel as it returns.
Wake(p) ==
  /\ Alive(p) /\ watch[p] = "watching"
  /\ \/ queued[p] /\ queued' = [queued EXCEPT ![p] = FALSE]
        /\ cancelled' = [cancelled EXCEPT ![p] = TRUE]
     \/ cancelled[p] /\ UNCHANGED <<queued, cancelled>>
  /\ watch' = [watch EXCEPT ![p] = "leaving"]
  /\ UNCHANGED <<main, serve, timer, call>>

Unregister(p) ==
  /\ Alive(p) /\ watch[p] = "leaving"
  /\ watch' = [watch EXCEPT ![p] = "gone"]
  /\ UNCHANGED <<main, serve, queued, cancelled, timer, call>>

\* main is woken and begins to stop.
Stop(p) ==
  /\ main[p] = "up" /\ cancelled[p]
  /\ main' = [main EXCEPT ![p] = "stopping"]
  /\ UNCHANGED <<serve, watch, queued, cancelled, timer, call>>

\* What Shutdown and GracefulStop wait for.
Idle(p) ==
  IF p = "gateway" THEN \A c \in Calls : ~InGate(c)
  ELSE \A c \in Calls : handler[c] # "running"

\* Mutant: the API is stopped by Stop.
DrainedAtOnce(p) ==
  /\ main[p] = "stopping"
  /\ p = "gateway" => Idle(p)
  /\ main' = [main EXCEPT ![p] = "closing"]
  /\ timer' = [timer EXCEPT ![p] = Grace]
  /\ UNCHANGED <<serve, watch, queued, cancelled, call>>

Drained(p) ==
  /\ main[p] = "stopping" /\ Idle(p)
  /\ main' = [main EXCEPT ![p] = "closing"]
  /\ timer' = [timer EXCEPT ![p] = Grace]
  /\ UNCHANGED <<serve, watch, queued, cancelled, call>>

\* Mutant: GracefulStop is waited for without a limit.
ExpireNever(p) ==
  /\ p = "gateway" /\ main[p] = "stopping" /\ timer[p] = 0
  /\ main' = [main EXCEPT ![p] = "closing"]
  /\ timer' = [timer EXCEPT ![p] = Grace]
  /\ UNCHANGED <<serve, watch, queued, cancelled, call>>

\* Mutant: Shutdown is given a context that is over already.
ExpireEarly(p) ==
  /\ main[p] = "stopping" /\ timer[p] = Grace
  /\ main' = [main EXCEPT ![p] = "closing"]
  /\ timer' = [timer EXCEPT ![p] = Grace]
  /\ UNCHANGED <<serve, watch, queued, cancelled, call>>

\* The time is over: Shutdown gives up; the API calls Stop, which closes its
\* connections and with them the contexts of its handlers.
Expire(p) ==
  /\ main[p] = "stopping" /\ timer[p] = 0
  /\ main' = [main EXCEPT ![p] = "closing"]
  /\ timer' = [timer EXCEPT ![p] = Grace]
  /\ UNCHANGED <<serve, watch, queued, cancelled, call>>

\* The serving goroutine has returned (wg.Wait), the deferred calls close the
\* database and the connections, and main returns.
Exit(p) ==
  /\ main[p] = "closing" /\ serve[p] \in {"returned", "failed"}
  /\ Die(p, "down")
  /\ UNCHANGED <<serve, watch, queued, cancelled, timer>>
-----------------------------------------------------------------------------
(* Time.  Nothing that is due waits for the next tick: a goroutine that can *)
(* run is scheduled well within the seconds the limits are apart.          *)

Due ==
  \/ \E c \in Http :
       \/ caller[c] = "reading" /\ (~Slow(c) \/ io[c] = 0)
       \/ caller[c] = "waiting" /\ left[c] = 0
  \/ \E p \in Procs : main[p] = "stopping" /\ timer[p] = 0

Tick ==
  /\ ~Due
  /\ (\E c \in Calls : InGate(c)) \/ (\E p \in Procs : main[p] = "stopping")
  /\ io' = [c \in Calls |-> IF InGate(c) /\ io[c] > 0 THEN io[c] - 1 ELSE io[c]]
  /\ left' = [c \in Calls |->
               IF c \in Http /\ caller[c] = "waiting" THEN left[c] - 1 ELSE left[c]]
  /\ timer' = [p \in Procs |-> IF main[p] = "stopping" THEN timer[p] - 1 ELSE timer[p]]
  /\ UNCHANGED <<main, serve, watch, queued, cancelled>>
  /\ UNCHANGED <<input, caller, stub, code, handler, done, orphan, status>>
-----------------------------------------------------------------------------
Client(c) == Arrive(c) \/ GiveUp(c)
Read(c) == Refuse(c) \/ Send(c)
Gate(c) == BodyTimesOut(c) \/ Timeout(c) \/ Answer(c)
Api(c) == Accept(c) \/ Unreachable(c) \/ Work(c) \/ Reply(c) \/ Abandon(c) \/ LateWork(c)
Run(p) == Serve(p) \/ ServeReturns(p) \/ Wake(p) \/ Unregister(p)
Main(p) == Boot(p) \/ Stop(p) \/ Drained(p) \/ Expire(p) \/ Exit(p)

Next ==
  \/ \E c \in Calls : Client(c) \/ Read(c) \/ Gate(c) \/ Api(c) \/ Panic(c)
  \/ \E p \in Procs : Run(p) \/ Main(p) \/ BootFails(p) \/ ServeFails(p) \/ Signal(p)
  \/ Tick

Spec == Init /\ [][Next]_vars

\* Goroutines that can run do, and time passes.  Nothing is assumed of a
\* handler, whose statement may never return, nor of a body, which may never
\* come.
FairSpec ==
  /\ Spec
  /\ WF_vars(Tick)
  /\ \A p \in Procs :
       /\ WF_vars(Serve(p) \/ ServeReturns(p))
       /\ WF_vars(Wake(p) \/ Unregister(p))
       /\ WF_vars(Main(p))
  /\ \A c \in Calls : WF_vars(Gate(c))
  /\ \A c \in Http : WF_vars(~Slow(c) /\ Read(c))
-----------------------------------------------------------------------------
(* Properties.                                                             *)

TypeOK ==
  /\ main \in [Procs -> {"booting", "up", "stopping", "closing", "down", "killed"}]
  /\ serve \in [Procs -> {"starting", "serving", "failed", "returned"}]
  /\ watch \in [Procs -> {"watching", "leaving", "gone"}]
  /\ queued \in [Procs -> BOOLEAN] /\ cancelled \in [Procs -> BOOLEAN]
  /\ timer \in [Procs -> 0 .. Grace]
  /\ input \in [Http -> Inputs]
  /\ caller \in [Calls -> {"idle", "reading", "waiting", "answered", "gone", "lost", "cut"}]
  /\ io \in [Calls -> 0 .. IoLimit]
  /\ left \in [Calls -> 0 .. Deadline]
  /\ stub \in [Calls -> {"none", "waiting", "over"}]
  /\ code \in [Calls -> {"none", "OK", "InvalidArgument", "NotFound", "Internal",
                         "Unavailable", "DeadlineExceeded"}]
  /\ handler \in [Calls -> {"none", "running", "ended"}]
  /\ done \in [Calls -> BOOLEAN] /\ orphan \in [Calls -> BOOLEAN]
  /\ \A c \in Http : status[c] \in {"none", "200", "400", "404", "405", "500", "503"}
  /\ \A c \in Direct : status[c] \in {"none", "OK", "InvalidArgument", "NotFound",
                                     "Internal", "Unavailable"}
  /\ DOMAIN status = Calls

\* Whatever was late, lost or cut off, a caller that is told 200 has its write,
\* and one that is told 400, 404 or 405 does not and never will; 500 and 503 say
\* nothing (httpStatusFromGRPC).
TruthfulStatus ==
  \A c \in Http :
    /\ status[c] = "200" => done[c]
    /\ status[c] \in {"400", "404", "405"} => ~done[c]

\* A gateway answers every request it has taken, also when it is asked to stop,
\* since the deadline of the RPCs is shorter than the time of the shutdown and
\* than the WriteTimeout; only a signal that finds it stopping already cuts one
\* off.  This fails of a request whose body is slow: the ReadTimeout is longer
\* than the shutdown waits, and leaves no time for the RPC.
NoneCut ==
  \A c \in Http : ~Slow(c) =>
    /\ caller[c] = "cut" => main["gateway"] = "killed"
    /\ caller[c] # "lost"

\* An API that closes the database still has handlers only of calls without a
\* deadline and of calls whose caller no longer waits for an answer.
DatabaseClosedLast ==
  main["api"] = "closing" =>
    \A c \in Http : handler[c] = "running" => stub[c] # "waiting"

\* A request comes to an end, whatever becomes of the API and even if its body
\* never comes or a handler never returns.
Answered == \A c \in Http : caller[c] \in {"reading", "waiting"} ~> ~InGate(c)

\* A process that is sent a signal, or whose listener fails, ends, even if the
\* signal finds it starting and even if a body never comes or a handler never
\* returns.
Ends == \A p \in Procs : queued[p] \/ cancelled[p] ~> ~Alive(p)
=============================================================================
