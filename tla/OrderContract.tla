--------------------------- MODULE OrderContract ---------------------------
(***************************************************************************)
(* What a caller of CreateOrder may rely on: an order is placed whole, in  *)
(* one step, at most once for each request, and only for a request that    *)
(* can be placed.  OK says that it has been, InvalidArgument that it never *)
(* will be.                                                                *)
(*                                                                         *)
(* Internal and Unknown (no answer of the handler reached the caller) tell *)
(* a caller nothing: the order may exist already, may still come, or may   *)
(* never come.  But only a request whose COMMIT was under way is in doubt; *)
(* one that failed before is not placed later.                             *)
(***************************************************************************)
CONSTANTS
  Requests, Inputs,
  Placeable(_)   \* what a request must carry

VARIABLES
  req,      \* the input of each request
  placed,   \* the requests whose order exists
  doubtful, \* those that were answered while their COMMIT was under way
  answer    \* the outcome of each

vars == <<req, placed, doubtful, answer>>

Init ==
  /\ req \in [Requests -> Inputs]
  /\ placed = {} /\ doubtful = {}
  /\ answer = [r \in Requests |-> "none"]

Reply(r, codes) ==
  /\ answer[r] = "none" /\ r \notin placed \cup doubtful
  /\ \E code \in codes : answer' = [answer EXCEPT ![r] = code]
  /\ UNCHANGED req

Confirm(r) ==
  /\ Reply(r, {"OK"})
  /\ Placeable(req[r])
  /\ placed' = placed \cup {r}
  /\ UNCHANGED doubtful

Refuse(r) ==
  /\ Reply(r, {"InvalidArgument", "Internal", "Unknown"})
  /\ UNCHANGED <<placed, doubtful>>

Doubt(r) ==
  /\ Reply(r, {"Internal", "Unknown"})
  /\ Placeable(req[r])
  /\ doubtful' = doubtful \cup {r}
  /\ UNCHANGED placed

\* The COMMIT got through, or it did not; either ends the doubt for good.
Settle(r) ==
  /\ r \in doubtful
  /\ doubtful' = doubtful \ {r}
  /\ placed' \in {placed, placed \cup {r}}
  /\ UNCHANGED <<req, answer>>

Next == \E r \in Requests : Confirm(r) \/ Refuse(r) \/ Doubt(r) \/ Settle(r)

Spec == Init /\ [][Next]_vars
=============================================================================
