--------------------------- MODULE CatalogContract --------------------------
(***************************************************************************)
(* What a client of the catalog may rely on, without cursors, limits or    *)
(* statements.                                                             *)
(*                                                                         *)
(* A product appears once, whole, for a CreateProduct that carries what it *)
(* must, and for no other.  OK says that it has, InvalidArgument that it   *)
(* never will.  Internal and Unknown (no answer of the handler reached the *)
(* caller) tell a caller nothing: the product may be there, still come, or *)
(* never come.                                                             *)
(*                                                                         *)
(* A walk is owed the products that match when it begins, from the top or  *)
(* from some id down.  It shows products in descending order of their ids, *)
(* at most MaxPage at a time, each once, whatever is created meanwhile: it *)
(* leaves out nothing that it is owed, neither at its end nor on the way.  *)
(***************************************************************************)
EXTENDS Integers, FiniteSets

CONSTANTS
  Creators, Walkers,  \* the CreateProducts, and the clients that list
  Ids,                \* of products
  Names,              \* what a product may be called
  Inputs,             \* what a CreateProduct may carry
  Queries, Finds,     \* the searches, and the names each of them matches
  MaxPage             \* the most products that are shown at once

VARIABLES
  products,  \* that exist
  input,     \* what each CreateProduct carries
  doubtful,  \* those that were answered while their INSERT was under way
  answer,    \* its outcome
  walk,      \* whether each client is walking
  query,     \* what it searches for
  base,      \* what it is owed
  shown      \* what it has been shown

vars == <<products, input, doubtful, answer, walk, query, base, shown>>

Init ==
  /\ products = {}
  /\ input \in [Creators -> Inputs]
  /\ doubtful = {}
  /\ answer = [c \in Creators |-> "none"]
  /\ walk = [w \in Walkers |-> "idle"]
  /\ query \in [Walkers -> Queries]
  /\ base = [w \in Walkers |-> {}]
  /\ shown = [w \in Walkers |-> {}]
-----------------------------------------------------------------------------
Acceptable(c) == input[c].name \in Names /\ input[c].price = "good"

\* The product of c, which has none yet, under an id that no other has.
Appear(c) ==
  /\ Acceptable(c)
  /\ \E id \in Ids :
       /\ \A p \in products : p.id # id /\ p.by # c
       /\ products' = products \cup {[id |-> id, name |-> input[c].name, by |-> c]}

Reply(c, codes) ==
  /\ answer[c] = "none" /\ c \notin doubtful
  /\ \E code \in codes : answer' = [answer EXCEPT ![c] = code]
  /\ UNCHANGED <<input, walk, query, base, shown>>

Confirm(c) ==
  /\ Reply(c, {"OK"})
  /\ Appear(c)
  /\ UNCHANGED doubtful

Refuse(c) ==
  /\ Reply(c, {"InvalidArgument", "Internal"})
  /\ ~Acceptable(c)
  /\ UNCHANGED <<products, doubtful>>

Doubt(c) ==
  /\ Reply(c, {"Internal", "Unknown"})
  /\ Acceptable(c)
  /\ doubtful' = doubtful \cup {c}
  /\ UNCHANGED products

AppearLate(c) ==
  /\ c \in doubtful
  /\ Appear(c)
  /\ doubtful' = doubtful \ {c}
  /\ UNCHANGED <<input, answer, walk, query, base, shown>>
-----------------------------------------------------------------------------
Found(q) == { p.id : p \in { r \in products : r.name \in Finds[q] } }

Begin(w) ==
  /\ walk[w] = "idle"
  /\ walk' = [walk EXCEPT ![w] = "walking"]
  /\ \/ base' = [base EXCEPT ![w] = Found(query[w])]
     \/ \E top \in Ids : base' = [base EXCEPT ![w] = { id \in Found(query[w]) : id < top }]
  /\ UNCHANGED <<products, input, doubtful, answer, query, shown>>

Decline(w) ==
  /\ walk[w] = "idle"
  /\ walk' = [walk EXCEPT ![w] = "refused"]
  /\ UNCHANGED <<products, input, doubtful, answer, query, base, shown>>

\* Once an id has been shown, everything owed from there up has been.
Show(w) ==
  /\ walk[w] = "walking"
  /\ \E S \in SUBSET Found(query[w]) :
       /\ Cardinality(S) <= MaxPage
       /\ \A x \in S, y \in shown[w] : x < y
       /\ shown' = [shown EXCEPT ![w] = @ \cup S]
       /\ \A x \in S, id \in base[w] : x <= id => id \in shown[w] \cup S
       /\ \/ S # {} /\ UNCHANGED walk
          \/ base[w] \subseteq shown[w] \cup S /\ walk' = [walk EXCEPT ![w] = "done"]
  /\ UNCHANGED <<products, input, doubtful, answer, query, base>>

Next ==
  \/ \E c \in Creators : Confirm(c) \/ Refuse(c) \/ Doubt(c) \/ AppearLate(c)
  \/ \E w \in Walkers : Begin(w) \/ Decline(w) \/ Show(w)

Spec == Init /\ [][Next]_vars
=============================================================================
