------------------------------ MODULE Catalog -------------------------------
(***************************************************************************)
(* The product catalog (internal/catalog): products are created, one       *)
(* autocommitted INSERT each, and listed page by page, newest id first, a  *)
(* page starting below the cursor that the page before it returned.        *)
(*                                                                         *)
(* Ids are random (gen_random_uuid), so a product may appear above or      *)
(* below the cursor of a walk in progress.  Products are never changed or  *)
(* deleted by the program.                                                 *)
(*                                                                         *)
(* A client of the catalog sends its RPCs itself, or HTTP requests to the  *)
(* gateway, which turns each into one RPC.                                 *)
(***************************************************************************)
EXTENDS Integers, FiniteSetsExt

CONSTANTS
  Creators,     \* the CreateProduct RPCs of a behaviour
  Walkers,      \* the clients that list the catalog
  Ids,          \* the UUIDs, by their order
  Names,        \* names a product may have
  Blank,        \* a name that is empty once trimmed
  Inputs,       \* what a CreateProduct may carry
  Queries,      \* search strings
  Finds,        \* the names that each of them matches (ILIKE)
  Limits,       \* limits a client may ask for
  NoLimit,      \* a limit that is absent or no number
  DefaultPage,  \* 20
  MaxPage,      \* 100
  NoCursor,     \* the empty cursor
  Malformed     \* a cursor that uuid.Parse refuses

\* A price may be absent; it is bad when its amount is not positive or its
\* currency is empty once trimmed.
Input == [name : Names \cup {Blank}, price : {"absent", "bad", "good"}]

ASSUME InputsAssumption == Inputs \subseteq Input
ASSUME IdsAssumption ==
  Ids \subseteq Int /\ IsFiniteSet(Ids) /\ NoCursor \notin Ids /\ Malformed \notin Ids
ASSUME CursorsAssumption == NoCursor # Malformed
ASSUME BlankAssumption == Blank \notin Names
ASSUME FindsAssumption == Finds \in [Queries -> SUBSET Names]
ASSUME LimitsAssumption == Limits \subseteq Int /\ NoLimit \notin Limits
ASSUME PageAssumption == DefaultPage \in Nat \ {0} /\ MaxPage \in Nat /\ DefaultPage <= MaxPage

VARIABLES
  products,  \* the table
  pc,        \* where each CreateProduct is
  input,     \* what it carries
  answer,    \* its answer
  walk,      \* whether each client is walking through the catalog
  query,     \* what it searches for
  cursor,    \* where its next page starts
  base,      \* ids it should see: those that matched when it began
  seen,      \* ids of the pages before the last
  page       \* ids of the last page

creation == <<products, pc, input, answer>>
listing == <<walk, query, cursor, base, seen, page>>
vars == <<creation, listing>>

Product == [id : Ids, name : Names, by : Creators]
-----------------------------------------------------------------------------
Init ==
  /\ products = {}
  /\ pc = [c \in Creators |-> "idle"]
  /\ input \in [Creators -> Inputs]
  /\ answer = [c \in Creators |-> "none"]
  /\ walk = [w \in Walkers |-> "idle"]
  /\ query \in [Walkers -> Queries]
  /\ cursor = [w \in Walkers |-> NoCursor]
  /\ base = [w \in Walkers |-> {}]
  /\ seen = [w \in Walkers |-> {}]
  /\ page = [w \in Walkers |-> {}]

(* CreateProduct.                                                          *)

\* Mutant: the input is not checked.
CreateUnchecked(c) ==
  /\ pc[c] = "idle"
  /\ pc' = [pc EXCEPT ![c] = "insert"]
  /\ UNCHANGED <<products, input, answer, listing>>

\* An absent price is refused by the handler.  A name that is empty once
\* trimmed and a bad price are refused by the service, and the handler gives
\* that error the same code as one of the database.
Create(c) ==
  /\ pc[c] = "idle"
  /\ IF input[c].price # "good" \/ input[c].name = Blank
     THEN /\ pc' = [pc EXCEPT ![c] = "done"]
          /\ answer' = [answer EXCEPT ![c] =
               IF input[c].price = "absent" THEN "InvalidArgument" ELSE "Internal"]
     ELSE pc' = [pc EXCEPT ![c] = "insert"] /\ UNCHANGED answer
  /\ UNCHANGED <<products, input, listing>>

\* The table gets a row with a fresh id.
AddRow(c) ==
  \E id \in Ids \ { p.id : p \in products } :
    products' = products \cup {[id |-> id, name |-> input[c].name, by |-> c]}

Insert(c) ==
  /\ pc[c] = "insert"
  /\ AddRow(c)
  /\ pc' = [pc EXCEPT ![c] = "done"]
  /\ answer' = [answer EXCEPT ![c] = "OK"]
  /\ UNCHANGED <<input, listing>>

\* Mutant: the error of the INSERT is not returned.
InterruptIgnored(c) ==
  /\ pc[c] = "insert"
  /\ pc' = [pc EXCEPT ![c] = "lost"]
  /\ answer' = [answer EXCEPT ![c] = "OK"]
  /\ UNCHANGED <<products, input, listing>>

\* The context ends, the connection breaks or the process dies: the database may
\* have got the INSERT all the same.  The handler returns the error as Internal,
\* the code of a refusal; a caller that is gone, or whose process died, hears no
\* answer of the handler (Unknown).
Interrupt(c) ==
  /\ pc[c] = "insert"
  /\ pc' = [pc EXCEPT ![c] = "lost"]
  /\ \E code \in {"Internal", "Unknown"} : answer' = [answer EXCEPT ![c] = code]
  /\ UNCHANGED <<products, input, listing>>

LateInsert(c) ==
  /\ pc[c] = "lost"
  /\ AddRow(c)
  /\ pc' = [pc EXCEPT ![c] = "done"]
  /\ UNCHANGED <<input, answer, listing>>
-----------------------------------------------------------------------------
(* ListProducts.                                                           *)

PageSize(n) == IF n <= 0 THEN DefaultPage ELSE IF n > MaxPage THEN MaxPage ELSE n

\* The limit the gateway puts in the RPC.
HttpLimit(n) ==
  IF n = NoLimit THEN DefaultPage
  ELSE IF n < 1 THEN 1 ELSE IF n > MaxPage THEN MaxPage ELSE n

\* The pages a client can get: a request of its own may carry any limit, from
\* one page of a walk to the next.
PageSizes ==
  { PageSize(n) : n \in Limits } \cup
  { PageSize(HttpLimit(n)) : n \in Limits \cup {NoLimit} }

\* Mutant: the row of the cursor is listed again.
BelowOrAt(cur, id) == cur = NoCursor \/ id <= cur
Below(cur, id) == cur = NoCursor \/ id < cur

Matching(q) == { p.id : p \in { r \in products : r.name \in Finds[q] } }
Rest(w) == { id \in Matching(query[w]) : Below(cursor[w], id) }

\* Mutant: LIMIT n alone.
IsAnyPage(S, rest, n) ==
  /\ Cardinality(S) <= n
  /\ Cardinality(S) < n => S = rest
\* ORDER BY id DESC LIMIT n.
IsPage(S, rest, n) ==
  /\ \A x \in S : \A y \in rest \ S : x > y
  /\ Cardinality(S) <= n
  /\ Cardinality(S) < n => S = rest

\* Mutant: a next page is announced only beyond the limit.
OverFull(S, n) == Cardinality(S) > n
\* Mutant: every page has a next one, an empty page too, whose last row is then
\* out of range.
NeverLast(S, n) == Cardinality(S) <= n
\* next_cursor is set only after a full page.
Full(S, n) == Cardinality(S) = n /\ S # {}

\* A client begins, at the top or with a cursor that it kept from another walk,
\* or one that is no UUID.
Begin(w) ==
  /\ walk[w] = "idle"
  /\ \E cur \in Ids \cup {NoCursor, Malformed} :
       /\ cursor' = [cursor EXCEPT ![w] = cur]
       /\ IF cur = Malformed
          THEN walk' = [walk EXCEPT ![w] = "refused"] /\ UNCHANGED base
          ELSE /\ walk' = [walk EXCEPT ![w] = "walking"]
               /\ base' = [base EXCEPT ![w] =
                             { id \in Matching(query[w]) : Below(cur, id) }]
  /\ UNCHANGED <<creation, query, seen, page>>

\* One page.  A page that fails or is lost is asked for again with the same
\* cursor: nothing changes.
List(w) ==
  /\ walk[w] = "walking"
  /\ seen' = [seen EXCEPT ![w] = @ \cup page[w]]
  /\ \E n \in PageSizes, S \in SUBSET Rest(w) :
       /\ IsPage(S, Rest(w), n)
       /\ page' = [page EXCEPT ![w] = S]
       /\ IF Full(S, n)
          THEN \E last \in S :
                 /\ \A x \in S : last <= x
                 /\ cursor' = [cursor EXCEPT ![w] = last]
                 /\ UNCHANGED walk
          ELSE walk' = [walk EXCEPT ![w] = "done"] /\ UNCHANGED cursor
  /\ UNCHANGED <<creation, query, base>>
-----------------------------------------------------------------------------
Creation(c) == Create(c) \/ Insert(c) \/ Interrupt(c) \/ LateInsert(c)

Next ==
  \/ \E c \in Creators : Creation(c)
  \/ \E w \in Walkers : Begin(w) \/ List(w)

Spec == Init /\ [][Next]_vars

\* A client that walks asks for page after page, and gets them.
FairSpec == Spec /\ \A w \in Walkers : WF_vars(List(w))
-----------------------------------------------------------------------------
(* Properties.                                                             *)

TypeOK ==
  /\ products \subseteq Product
  /\ pc \in [Creators -> {"idle", "insert", "lost", "done"}]
  /\ input \in [Creators -> Inputs]
  /\ answer \in [Creators -> {"none", "OK", "InvalidArgument", "Internal", "Unknown"}]
  /\ walk \in [Walkers -> {"idle", "walking", "refused", "done"}]
  /\ query \in [Walkers -> Queries]
  /\ cursor \in [Walkers -> Ids \cup {NoCursor, Malformed}]
  /\ base \in [Walkers -> SUBSET Ids]
  /\ seen \in [Walkers -> SUBSET Ids]
  /\ page \in [Walkers -> SUBSET Ids]

\* No CreateProduct makes two products.  OK says that there is one; until there
\* is an answer, after InvalidArgument, and for an input that is not to be
\* accepted whatever the answer, there is none.  Internal and Unknown say nothing
\* of the others: their product may be there or still come.
OneProductEach ==
  \A c \in Creators :
    LET made == { p \in products : p.by = c } IN
    /\ Cardinality(made) <= 1
    /\ answer[c] = "OK" => made # {}
    /\ answer[c] \in {"none", "InvalidArgument"} => made = {}
    /\ input[c].name = Blank \/ input[c].price # "good" => made = {}

\* However many products are created meanwhile, a walk never shows one twice.
NoneTwice == \A w \in Walkers : page[w] \cap seen[w] = {}

\* However many products are created meanwhile, a walk that has ended has shown
\* every product that was there to be listed when it began.
NoneMissed == \A w \in Walkers : walk[w] = "done" => base[w] \subseteq seen[w] \cup page[w]

\* Those whose INSERT a broken connection or an ended context has overtaken.
Doubtful == { c \in Creators : pc[c] = "lost" }

Promise == INSTANCE CatalogContract
  WITH doubtful <- Doubtful, shown <- [w \in Walkers |-> seen[w] \cup page[w]]

\* Products appear once and whole, with an OK or, if the INSERT was overtaken,
\* after the answer, and never for an input that is not to be accepted.  A walk
\* shows them in order and without gaps, whatever its limits and cursors, and
\* whatever is created meanwhile.
KeepsContract == Promise!Spec

\* Every walk ends.
WalkEnds == \A w \in Walkers : walk[w] = "walking" ~> walk[w] = "done"
=============================================================================
