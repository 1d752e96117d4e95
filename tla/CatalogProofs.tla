--------------------------- MODULE CatalogProofs ----------------------------
(***************************************************************************)
(* Proofs about the catalog, for any number of products, creators and      *)
(* clients, any searches and any page size.                                *)
(***************************************************************************)
EXTENDS Catalog, FiniteSetTheorems, TLAPS

\* What CreateProduct c has made, by where it is.
CreatorOk(c) ==
  /\ pc[c] \in {"idle", "insert"} => answer[c] = "none"
  /\ pc[c] = "lost" => answer[c] \in {"Internal", "Unknown"}
  /\ pc[c] = "done" => answer[c] # "none"
  /\ pc[c] \in {"idle", "insert", "lost"} => \A p \in products : p.by # c
  /\ answer[c] = "InvalidArgument" \/ input[c].name = Blank \/ input[c].price # "good" =>
       \A p \in products : p.by # c
  /\ answer[c] = "OK" => \E p \in products : p.by = c
  /\ pc[c] \in {"insert", "lost"} => input[c].name \in Names /\ input[c].price = "good"

OneEach == \A p, q \in products : p.by = q.by => p = q

\* What the walk of w has shown is at or above its cursor, and what it should
\* still show is below.
Shown(w) == seen[w] \cup page[w]
WalkerOk(w) ==
  /\ walk[w] = "idle" => base[w] = {} /\ Shown(w) = {}
  /\ walk[w] = "walking" =>
       /\ cursor[w] # Malformed
       /\ base[w] \subseteq Matching(query[w])
       /\ \A x \in Shown(w) : cursor[w] # NoCursor /\ cursor[w] <= x
       /\ \A y \in base[w] \ Shown(w) : Below(cursor[w], y)
  /\ walk[w] = "done" => base[w] \subseteq Shown(w)
  /\ page[w] \cap seen[w] = {}

IInv ==
  /\ TypeOK
  /\ \A c \in Creators : CreatorOk(c)
  /\ OneEach
  /\ \A w \in Walkers : WalkerOk(w)
-----------------------------------------------------------------------------
LEMMA MatchingType ==
  ASSUME TypeOK, NEW q
  PROVE  Matching(q) \subseteq Ids
  BY DEF TypeOK, Product, Matching

LEMMA InitIInv == Init => IInv
  <1> SUFFICES ASSUME Init PROVE IInv
    OBVIOUS
  <1> USE DEF Init
  <1>1. TypeOK
    BY DEF TypeOK
  <1>2. ASSUME NEW c \in Creators PROVE CreatorOk(c)
    BY DEF CreatorOk
  <1>3. ASSUME NEW w \in Walkers PROVE WalkerOk(w)
    BY DEF WalkerOk, Shown
  <1> QED
    BY <1>1, <1>2, <1>3 DEF IInv, OneEach

\* More products do not disturb a walk.
LEMMA MoreProducts ==
  ASSUME IInv, products \subseteq products', UNCHANGED listing, NEW w \in Walkers
  PROVE  WalkerOk(w)'
  <1>1. WalkerOk(w) /\ UNCHANGED <<walk, query, cursor, base, seen, page>>
    BY DEF IInv, listing
  <1>2. Matching(query[w]) \subseteq Matching(query[w])'
    BY <1>1 DEF Matching
  <1> QED
    BY <1>1, <1>2 DEF WalkerOk, Shown, Below

\* A step of creator c that adds no product.
LEMMA NoProduct ==
  ASSUME IInv, NEW c \in Creators, Create(c) \/ Interrupt(c)
  PROVE  IInv'
  <1>1. /\ TypeOK /\ OneEach /\ UNCHANGED listing /\ products' = products /\ input' = input
        /\ CreatorOk(c)
    BY DEF IInv, Create, Interrupt
  <1>2. TypeOK'
    BY <1>1 DEF TypeOK, Create, Interrupt, listing
  <1>3. ASSUME NEW d \in Creators PROVE CreatorOk(d)'
    <2>1. CreatorOk(d)
      BY DEF IInv
    <2>2. CASE d = c
      <3>1. input[c].name \in Names \cup {Blank}
        BY <1>1, InputsAssumption DEF TypeOK, Input
      <3> QED
        BY <1>1, <2>2, <3>1 DEF CreatorOk, Create, Interrupt, TypeOK
    <2>3. CASE d # c
      <3>1. pc'[d] = pc[d] /\ answer'[d] = answer[d]
        BY <1>1, <2>3 DEF Create, Interrupt, TypeOK
      <3> QED
        BY <1>1, <2>1, <3>1 DEF CreatorOk
    <2> QED
      BY <2>2, <2>3
  <1> QED
    BY <1>1, <1>2, <1>3, MoreProducts DEF IInv, OneEach

LEMMA AddProduct ==
  ASSUME IInv, NEW c \in Creators, Insert(c) \/ LateInsert(c)
  PROVE  IInv'
  <1>1. /\ TypeOK /\ OneEach /\ CreatorOk(c) /\ UNCHANGED listing /\ input' = input
        /\ AddRow(c) /\ pc' = [pc EXCEPT ![c] = "done"] /\ pc[c] \in {"insert", "lost"}
        /\ \/ pc[c] = "insert" /\ answer' = [answer EXCEPT ![c] = "OK"]
           \/ pc[c] = "lost" /\ answer' = answer
    BY DEF IInv, Insert, LateInsert
  <1>2. PICK id \in Ids :
          products' = products \cup {[id |-> id, name |-> input[c].name, by |-> c]}
    BY <1>1 DEF AddRow
  <1> DEFINE p == [id |-> id, name |-> input[c].name, by |-> c]
  <1>3. p.by = c /\ p \in products'
    BY <1>2
  <1>4. \A q \in products : q.by # c
    BY <1>1 DEF CreatorOk
  <1>5. p \in Product
    BY <1>1 DEF CreatorOk, Product
  <1>6. products' = products \cup {p}
    BY <1>2
  <1> HIDE DEF p
  <1>7. TypeOK'
    BY <1>1, <1>5, <1>6 DEF TypeOK, listing
  <1>8. OneEach'
    BY <1>1, <1>3, <1>4, <1>6 DEF OneEach
  <1>9. ASSUME NEW d \in Creators PROVE CreatorOk(d)'
    <2>1. CreatorOk(d)
      BY DEF IInv
    <2>2. CASE d = c
      BY <1>1, <1>3, <2>2, BlankAssumption DEF CreatorOk, TypeOK
    <2>3. CASE d # c
      <3>1. pc'[d] = pc[d] /\ answer'[d] = answer[d]
        BY <1>1, <2>3 DEF TypeOK
      <3> QED
        BY <1>1, <1>3, <1>6, <2>1, <2>3, <3>1 DEF CreatorOk
    <2> QED
      BY <2>2, <2>3
  <1> QED
    BY <1>1, <1>6, <1>7, <1>8, <1>9, MoreProducts DEF IInv

\* A step of walk w leaves everything else alone.
LEMMA WalkStep ==
  ASSUME IInv, NEW w \in Walkers, UNCHANGED <<creation, query>>, TypeOK', WalkerOk(w)',
         \A v \in Walkers : v # w =>
           /\ walk'[v] = walk[v] /\ cursor'[v] = cursor[v] /\ base'[v] = base[v]
           /\ seen'[v] = seen[v] /\ page'[v] = page[v]
  PROVE  IInv'
  <1>1. ASSUME NEW c \in Creators PROVE CreatorOk(c)'
    BY DEF IInv, CreatorOk, creation
  <1>2. OneEach'
    BY DEF IInv, OneEach, creation
  <1>3. ASSUME NEW v \in Walkers, v # w PROVE WalkerOk(v)'
    <2>1. WalkerOk(v) /\ products' = products /\ query' = query
      BY DEF IInv, creation
    <2>2. Matching(query[v])' = Matching(query[v])
      BY <2>1 DEF Matching
    <2> QED
      BY <1>3, <2>1, <2>2 DEF WalkerOk, Shown, Below
  <1> QED
    BY <1>1, <1>2, <1>3 DEF IInv

LEMMA BeginStep ==
  ASSUME IInv, NEW w \in Walkers, Begin(w)
  PROVE  IInv'
  <1>1. /\ TypeOK /\ WalkerOk(w) /\ walk[w] = "idle"
        /\ UNCHANGED <<creation, query, seen, page>>
    BY DEF IInv, Begin
  <1>2. PICK cur \in Ids \cup {NoCursor, Malformed} :
          /\ cursor' = [cursor EXCEPT ![w] = cur]
          /\ IF cur = Malformed
             THEN walk' = [walk EXCEPT ![w] = "refused"] /\ UNCHANGED base
             ELSE /\ walk' = [walk EXCEPT ![w] = "walking"]
                  /\ base' = [base EXCEPT ![w] =
                                { id \in Matching(query[w]) : Below(cur, id) }]
    BY DEF Begin
  <1>3. TypeOK'
    <2>1. { id \in Matching(query[w]) : Below(cur, id) } \subseteq Ids
      BY <1>1, MatchingType
    <2>2. base' \in [Walkers -> SUBSET Ids] /\ walk' \in [Walkers -> {"idle", "walking", "refused", "done"}]
      BY <1>1, <1>2, <2>1 DEF TypeOK
    <2> QED
      BY <1>1, <1>2, <2>2 DEF TypeOK, creation
  <1>4. Matching(query[w])' = Matching(query[w])
    BY <1>1 DEF Matching, creation
  <1>5. Shown(w) = {} /\ Shown(w)' = {} /\ page[w] \cap seen[w] = {}
    BY <1>1 DEF WalkerOk, Shown
  <1>6. WalkerOk(w)'
    <2>1. CASE cur = Malformed
      BY <1>1, <1>2, <1>5, <2>1 DEF WalkerOk, TypeOK
    <2>2. CASE cur # Malformed
      <3>1. /\ walk'[w] = "walking" /\ cursor'[w] = cur
            /\ base'[w] = { id \in Matching(query[w]) : Below(cur, id) }
        BY <1>1, <1>2, <2>2 DEF TypeOK
      <3>2. \A y \in base'[w] : Below(cursor[w], y)'
        BY <3>1 DEF Below
      <3> QED
        BY <1>1, <1>4, <1>5, <2>2, <3>1, <3>2 DEF WalkerOk
    <2> QED
      BY <2>1, <2>2
  <1>7. \A v \in Walkers : v # w =>
           /\ walk'[v] = walk[v] /\ cursor'[v] = cursor[v] /\ base'[v] = base[v]
           /\ seen'[v] = seen[v] /\ page'[v] = page[v]
    BY <1>1, <1>2 DEF TypeOK
  <1> QED
    BY <1>1, <1>3, <1>6, <1>7, WalkStep

LEMMA PageSizeType ==
  PageSizes \subseteq 1 .. MaxPage
  <1>1. ASSUME NEW n \in Int
        PROVE  PageSize(n) \in 1 .. MaxPage
    BY PageAssumption DEF PageSize
  <1>2. ASSUME NEW n \in Limits \cup {NoLimit}
        PROVE  HttpLimit(n) \in Int
    BY <1>2, LimitsAssumption, PageAssumption DEF HttpLimit
  <1> QED
    BY <1>1, <1>2, LimitsAssumption DEF PageSizes

\* A page that is not full is all that was left.
LEMMA LastPage ==
  ASSUME NEW rest \in SUBSET Ids, NEW S \in SUBSET rest, NEW n \in Nat \ {0},
         IsPage(S, rest, n), ~Full(S, n)
  PROVE  S = rest
  <1>1. IsFiniteSet(S)
    BY IdsAssumption, FS_Subset
  <1>2. Cardinality(S) \in Nat /\ (S = {} => Cardinality(S) = 0)
    BY <1>1, FS_CardinalityType, FS_EmptySet
  <1> QED
    BY <1>2 DEF IsPage, Full

\* The next page is below all that has been shown, and what is owed is in it or
\* further down.
LEMMA Onwards ==
  ASSUME IInv, NEW w \in Walkers, walk[w] = "walking"
  PROVE  /\ Rest(w) \subseteq Ids
         /\ \A y \in base[w] \ Shown(w) : y \in Rest(w)
         /\ \A x \in Rest(w), y \in Shown(w) : x < y
  <1>1. TypeOK /\ WalkerOk(w)
    BY DEF IInv
  <1>2. Rest(w) \subseteq Ids /\ Shown(w) \subseteq Ids
    BY <1>1, MatchingType DEF Rest, Shown, TypeOK
  <1>3. \A y \in base[w] \ Shown(w) : y \in Rest(w)
    BY <1>1 DEF WalkerOk, Rest
  <1>4. ASSUME NEW x \in Rest(w), NEW y \in Shown(w)
        PROVE  x < y
    <2>1. cursor[w] # NoCursor /\ cursor[w] <= y
      BY <1>1 DEF WalkerOk
    <2>2. x < cursor[w]
      BY <2>1 DEF Rest, Below
    <2>3. cursor[w] \in Int /\ x \in Int /\ y \in Int
      <3>1. cursor[w] \in Ids
        BY <1>1, <2>1 DEF TypeOK, WalkerOk
      <3> QED
        BY <1>2, <3>1, IdsAssumption
    <2> QED
      BY <2>1, <2>2, <2>3
  <1> QED
    BY <1>2, <1>3, <1>4

LEMMA ListStep ==
  ASSUME IInv, NEW w \in Walkers, List(w)
  PROVE  IInv'
  <1>1. /\ TypeOK /\ WalkerOk(w) /\ walk[w] = "walking"
        /\ seen' = [seen EXCEPT ![w] = @ \cup page[w]]
        /\ UNCHANGED <<creation, query, base>>
    BY DEF IInv, List
  <1>2. PICK n \in PageSizes, S \in SUBSET Rest(w) :
          /\ IsPage(S, Rest(w), n)
          /\ page' = [page EXCEPT ![w] = S]
          /\ IF Full(S, n)
             THEN \E last \in S :
                    /\ \A x \in S : last <= x
                    /\ cursor' = [cursor EXCEPT ![w] = last]
                    /\ UNCHANGED walk
             ELSE walk' = [walk EXCEPT ![w] = "done"] /\ UNCHANGED cursor
    BY DEF List
  <1>3. n \in Nat \ {0}
    BY PageSizeType, PageAssumption
  <1>4. Rest(w) \in SUBSET Ids /\ S \subseteq Ids
    BY <1>1, MatchingType DEF Rest
  <1>5. TypeOK'
    <2>1. /\ cursor' \in [Walkers -> Ids \cup {NoCursor, Malformed}]
          /\ walk' \in [Walkers -> {"idle", "walking", "refused", "done"}]
      <3>1. CASE Full(S, n)
        BY <1>1, <1>2, <1>4, <3>1 DEF TypeOK
      <3>2. CASE ~Full(S, n)
        BY <1>1, <1>2, <3>2 DEF TypeOK
      <3> QED
        BY <3>1, <3>2
    <2>2. page' \in [Walkers -> SUBSET Ids] /\ seen' \in [Walkers -> SUBSET Ids]
      BY <1>1, <1>2, <1>4 DEF TypeOK
    <2> QED
      BY <1>1, <2>1, <2>2 DEF TypeOK, creation
  <1>6. /\ page'[w] = S /\ seen'[w] = Shown(w) /\ Shown(w)' = Shown(w) \cup S
        /\ base'[w] = base[w] /\ Shown(w) \subseteq Ids /\ base[w] \subseteq Ids
    BY <1>1, <1>2 DEF TypeOK, Shown
  <1>7. \A y \in base[w] \ Shown(w) : y \in Rest(w)
    BY <1>1, Onwards
  <1>8. \A x \in Rest(w), y \in Shown(w) : x < y
    BY <1>1, Onwards
  <1>9. page'[w] \cap seen'[w] = {}
    <2> SUFFICES ASSUME NEW x \in S, x \in Shown(w)
                 PROVE  FALSE
      BY <1>6
    <2>1. x < x /\ x \in Int
      BY <1>4, <1>8, IdsAssumption
    <2> QED
      BY <2>1
  <1>10. Matching(query[w])' = Matching(query[w])
    BY <1>1 DEF Matching, creation
  <1>11. WalkerOk(w)'
    <2>1. CASE Full(S, n)
      <3>1. PICK last \in S : /\ \A x \in S : last <= x
                              /\ cursor' = [cursor EXCEPT ![w] = last]
                              /\ walk' = walk
        BY <1>2, <2>1
      <3>2. cursor'[w] = last /\ walk'[w] = "walking" /\ last \in Int /\ last \in Ids
        BY <1>1, <1>4, <3>1, IdsAssumption DEF TypeOK
      <3>3. ASSUME NEW x \in Shown(w)'
            PROVE  last <= x
        <4>1. CASE x \in S
          BY <3>1, <4>1
        <4>2. CASE x \in Shown(w)
          <5>1. last < x /\ x \in Int
            BY <1>6, <1>8, <4>2, IdsAssumption
          <5> QED
            BY <3>2, <5>1
        <4> QED
          BY <1>6, <4>1, <4>2
      <3>4. \A y \in base[w] \ Shown(w)' : Below(cursor[w], y)'
        <4> SUFFICES ASSUME NEW y \in base[w], y \notin Shown(w)'
                     PROVE  Below(cursor[w], y)'
          OBVIOUS
        <4>1. y \in Rest(w) /\ y \notin S
          BY <1>6, <1>7
        <4>2. y < last
          BY <1>2, <4>1, <3>1, <1>4, <3>2, IdsAssumption DEF IsPage
        <4> QED
          BY <3>2, <4>2 DEF Below
      <3> QED
        BY <1>1, <1>6, <1>9, <1>10, <3>2, <3>3, <3>4, IdsAssumption DEF WalkerOk
    <2>2. CASE ~Full(S, n)
      <3>1. walk'[w] = "done"
        BY <1>1, <1>2, <2>2 DEF TypeOK
      <3>2. S = Rest(w)
        BY <1>2, <1>3, <1>4, <2>2, LastPage
      <3>3. base[w] \subseteq Shown(w)'
        BY <1>6, <1>7, <3>2
      <3> QED
        BY <1>6, <1>9, <3>1, <3>3 DEF WalkerOk
    <2> QED
      BY <2>1, <2>2
  <1>12. \A v \in Walkers : v # w =>
           /\ walk'[v] = walk[v] /\ cursor'[v] = cursor[v] /\ base'[v] = base[v]
           /\ seen'[v] = seen[v] /\ page'[v] = page[v]
    <2>1. CASE Full(S, n)
      BY <1>1, <1>2, <2>1 DEF TypeOK
    <2>2. CASE ~Full(S, n)
      BY <1>1, <1>2, <2>2 DEF TypeOK
    <2> QED
      BY <2>1, <2>2
  <1> QED
    BY <1>1, <1>5, <1>11, <1>12, WalkStep

LEMMA NextIInv == IInv /\ [Next]_vars => IInv'
  <1> SUFFICES ASSUME IInv, [Next]_vars PROVE IInv'
    OBVIOUS
  <1>1. ASSUME NEW c \in Creators, Creation(c)
        PROVE  IInv'
    BY <1>1, NoProduct, AddProduct DEF Creation
  <1>2. ASSUME NEW w \in Walkers, Begin(w) \/ List(w)
        PROVE  IInv'
    BY <1>2, BeginStep, ListStep
  <1>3. CASE UNCHANGED vars
    <2>1. UNCHANGED creation /\ UNCHANGED listing
      BY <1>3 DEF vars
    <2>2. TypeOK'
      BY <2>1 DEF IInv, TypeOK, creation, listing
    <2>3. \A c \in Creators : CreatorOk(c)'
      BY <2>1 DEF IInv, CreatorOk, creation
    <2>4. \A w \in Walkers : WalkerOk(w)'
      BY <2>1, MoreProducts DEF creation
    <2> QED
      BY <2>1, <2>2, <2>3, <2>4 DEF IInv, OneEach, creation
  <1> QED
    BY <1>1, <1>2, <1>3 DEF Next
-----------------------------------------------------------------------------
\* The inductive invariant holds in every reachable state.
THEOREM Invariant == Spec => []IInv
  <1> QED
    BY InitIInv, NextIInv, PTL DEF Spec

\* Every variable keeps its type: no product has a name that is empty.
THEOREM TypeCorrect == Spec => []TypeOK
  <1>1. IInv => TypeOK
    BY DEF IInv
  <1> QED
    BY <1>1, Invariant, PTL

\* No CreateProduct makes two products: one if it was answered with OK, and none
\* if it is not answered, was answered with InvalidArgument, or carries an input
\* that is not to be accepted.
THEOREM OneProduct == Spec => []OneProductEach
  <1>1. IInv => OneProductEach
    <2> SUFFICES ASSUME IInv, NEW c \in Creators
                 PROVE  LET made == { p \in products : p.by = c } IN
                        /\ Cardinality(made) <= 1
                        /\ answer[c] = "OK" => made # {}
                        /\ answer[c] \in {"none", "InvalidArgument"} => made = {}
                        /\ input[c].name = Blank \/ input[c].price # "good" => made = {}
      BY DEF OneProductEach
    <2> DEFINE made == { p \in products : p.by = c }
    <2>1. CreatorOk(c) /\ OneEach /\ TypeOK
      BY DEF IInv
    <2>2. CASE made = {}
      <3>1. Cardinality(made) = 0
        BY <2>2, FS_EmptySet
      <3> QED
        BY <2>1, <2>2, <3>1 DEF CreatorOk
    <2>3. CASE made # {}
      <3>1. PICK p \in products : p.by = c
        BY <2>3
      <3>2. made = {p}
        BY <2>1, <3>1 DEF OneEach
      <3>3. Cardinality(made) = 1
        BY <3>2, FS_Singleton
      <3>4. /\ answer[c] \notin {"none", "InvalidArgument"}
            /\ input[c].name # Blank /\ input[c].price = "good"
        BY <2>1, <3>1 DEF CreatorOk, TypeOK
      <3> QED
        BY <3>2, <3>3, <3>4
    <2> QED
      BY <2>2, <2>3
  <1> QED
    BY <1>1, Invariant, PTL

\* However many products are created meanwhile, a walk never shows one twice.
THEOREM NoneShownTwice == Spec => []NoneTwice
  <1>1. IInv => NoneTwice
    BY DEF IInv, WalkerOk, NoneTwice
  <1> QED
    BY <1>1, Invariant, PTL

\* However many products are created meanwhile, a walk that has ended has shown
\* every product that was there to be listed when it began.
THEOREM WalkComplete == Spec => []NoneMissed
  <1>1. IInv => NoneMissed
    BY DEF IInv, WalkerOk, Shown, NoneMissed
  <1> QED
    BY <1>1, Invariant, PTL
-----------------------------------------------------------------------------
(* The contract.                                                           *)

StepRefines == [Promise!Next]_(Promise!vars)

LEMMA CreationRefines ==
  ASSUME IInv, NEW c \in Creators, Creation(c)
  PROVE  StepRefines
  <1>1. /\ TypeOK /\ CreatorOk(c) /\ UNCHANGED <<input, listing>>
        /\ input[c] \in Input
    BY InputsAssumption DEF IInv, Creation, Create, Insert, Interrupt, LateInsert, TypeOK
  <1>2. UNCHANGED <<input, walk, query, base, [w \in Walkers |-> seen[w] \cup page[w]]>>
    BY <1>1 DEF listing
  <1>3. CASE Create(c)
    <2>1. answer[c] = "none" /\ c \notin Doubtful /\ Doubtful' = Doubtful
      BY <1>1, <1>3 DEF Create, CreatorOk, Doubtful, TypeOK
    <2>2. CASE Promise!Acceptable(c)
      BY <1>1, <1>2, <1>3, <2>1, <2>2, BlankAssumption
         DEF Create, Promise!Acceptable, StepRefines, Promise!vars
    <2>3. CASE ~Promise!Acceptable(c)
      <3>1. Promise!Refuse(c)
        BY <1>1, <1>2, <1>3, <2>1, <2>3
           DEF Create, Promise!Acceptable, Promise!Refuse, Promise!Reply, Input
      <3> QED
        BY <3>1 DEF StepRefines, Promise!Next
    <2> QED
      BY <2>2, <2>3
  <1>4. CASE Interrupt(c)
    <2>1. /\ answer[c] = "none" /\ c \notin Doubtful /\ Doubtful' = Doubtful \cup {c}
          /\ products' = products
      BY <1>1, <1>4 DEF Interrupt, CreatorOk, Doubtful, TypeOK
    <2>2. Promise!Acceptable(c)
      BY <1>1, <1>4 DEF Interrupt, CreatorOk, Promise!Acceptable
    <2>3. Promise!Doubt(c)
      BY <1>2, <1>4, <2>1, <2>2 DEF Interrupt, Promise!Doubt, Promise!Reply
    <2> QED
      BY <2>3 DEF StepRefines, Promise!Next
  <1>5. ASSUME pc[c] \in {"insert", "lost"}, AddRow(c)
        PROVE  Promise!Appear(c)
    <2>1. Promise!Acceptable(c) /\ \A p \in products : p.by # c
      BY <1>1, <1>5 DEF CreatorOk, Promise!Acceptable
    <2>2. PICK id \in Ids \ { p.id : p \in products } :
            products' = products \cup {[id |-> id, name |-> input[c].name, by |-> c]}
      BY <1>5 DEF AddRow
    <2> QED
      BY <2>1, <2>2 DEF Promise!Appear
  <1>6. CASE Insert(c)
    <2>1. /\ answer[c] = "none" /\ c \notin Doubtful /\ Doubtful' = Doubtful
          /\ answer' = [answer EXCEPT ![c] = "OK"]
      BY <1>1, <1>6 DEF Insert, CreatorOk, Doubtful, TypeOK
    <2>2. Promise!Appear(c)
      BY <1>5, <1>6 DEF Insert
    <2>3. Promise!Confirm(c)
      BY <1>2, <2>1, <2>2 DEF Promise!Confirm, Promise!Reply
    <2> QED
      BY <2>3 DEF StepRefines, Promise!Next
  <1>7. CASE LateInsert(c)
    <2>1. /\ c \in Doubtful /\ Doubtful' = Doubtful \ {c} /\ answer' = answer
      BY <1>1, <1>7 DEF LateInsert, Doubtful, TypeOK
    <2>2. Promise!Appear(c)
      BY <1>5, <1>7 DEF LateInsert
    <2>3. Promise!AppearLate(c)
      BY <1>2, <2>1, <2>2 DEF Promise!AppearLate
    <2> QED
      BY <2>3 DEF StepRefines, Promise!Next
  <1> QED
    BY <1>3, <1>4, <1>6, <1>7 DEF Creation

LEMMA BeginRefines ==
  ASSUME IInv, NEW w \in Walkers, Begin(w)
  PROVE  StepRefines
  <1>1. /\ walk[w] = "idle"
        /\ UNCHANGED <<products, input, Doubtful, answer, query, seen, page>>
    BY DEF Begin, creation, Doubtful
  <1>2. PICK cur \in Ids \cup {NoCursor, Malformed} :
          IF cur = Malformed
          THEN walk' = [walk EXCEPT ![w] = "refused"] /\ UNCHANGED base
          ELSE /\ walk' = [walk EXCEPT ![w] = "walking"]
               /\ base' = [base EXCEPT ![w] =
                             { id \in Matching(query[w]) : Below(cur, id) }]
    BY DEF Begin
  <1>3. Matching(query[w]) = Promise!Found(query[w])
    BY DEF Matching, Promise!Found
  <1>4. UNCHANGED [v \in Walkers |-> seen[v] \cup page[v]]
    BY <1>1
  <1>5. CASE cur = Malformed
    <2>1. Promise!Decline(w)
      BY <1>1, <1>2, <1>4, <1>5 DEF Promise!Decline
    <2> QED
      BY <2>1 DEF StepRefines, Promise!Next
  <1>6. CASE cur # Malformed
    <2>1. \/ { id \in Matching(query[w]) : Below(cur, id) } = Promise!Found(query[w])
          \/ cur \in Ids /\ { id \in Matching(query[w]) : Below(cur, id) }
                              = { id \in Promise!Found(query[w]) : id < cur }
      BY <1>3, <1>6, IdsAssumption DEF Below
    <2>2. Promise!Begin(w)
      BY <1>1, <1>2, <1>4, <1>6, <2>1 DEF Promise!Begin
    <2> QED
      BY <2>2 DEF StepRefines, Promise!Next
  <1> QED
    BY <1>5, <1>6

LEMMA ListRefines ==
  ASSUME IInv, NEW w \in Walkers, List(w)
  PROVE  StepRefines
  <1> DEFINE shown == [v \in Walkers |-> seen[v] \cup page[v]]
  <1>1. /\ TypeOK /\ WalkerOk(w) /\ walk[w] = "walking"
        /\ seen' = [seen EXCEPT ![w] = @ \cup page[w]]
        /\ UNCHANGED <<products, input, Doubtful, answer, query, base>>
    BY DEF IInv, List, creation, Doubtful
  <1>2. PICK n \in PageSizes, S \in SUBSET Rest(w) :
          /\ IsPage(S, Rest(w), n)
          /\ page' = [page EXCEPT ![w] = S]
          /\ IF Full(S, n) THEN S # {} /\ UNCHANGED walk
             ELSE walk' = [walk EXCEPT ![w] = "done"]
    BY DEF List, Full
  <1>3. /\ Rest(w) \subseteq Ids
        /\ \A y \in base[w] \ Shown(w) : y \in Rest(w)
        /\ \A x \in Rest(w), y \in Shown(w) : x < y
    BY <1>1, Onwards
  <1>4. shown[w] = Shown(w) /\ shown' = [shown EXCEPT ![w] = @ \cup S]
    BY <1>1, <1>2 DEF TypeOK, Shown
  <1>5. S \in SUBSET Promise!Found(query[w])
    BY DEF Rest, Matching, Promise!Found
  <1>6. Cardinality(S) <= MaxPage
    <2>1. IsFiniteSet(S)
      BY <1>3, IdsAssumption, FS_Subset
    <2>2. Cardinality(S) <= n /\ n \in 1 .. MaxPage
      BY <1>2, PageSizeType DEF IsPage
    <2> QED
      BY <2>1, <2>2, FS_CardinalityType, PageAssumption
  <1>7. ASSUME NEW x \in S, NEW id \in base[w], x <= id, id \notin Shown(w)
        PROVE  id \in S
    <2>1. id \in Rest(w) /\ (id \notin S => x > id)
      BY <1>2, <1>3, <1>7 DEF IsPage
    <2>2. x \in Int /\ id \in Int
      BY <1>3, <2>1, IdsAssumption
    <2> QED
      BY <1>7, <2>1, <2>2
  <1>8. \/ S # {} /\ UNCHANGED walk
        \/ base[w] \subseteq Shown(w) \cup S /\ walk' = [walk EXCEPT ![w] = "done"]
    <2>1. CASE Full(S, n)
      BY <1>2, <2>1
    <2>2. CASE ~Full(S, n)
      <3>1. S = Rest(w)
        BY <1>2, <1>3, <2>2, PageSizeType, PageAssumption, LastPage
      <3> QED
        BY <1>2, <1>3, <2>2, <3>1
    <2> QED
      BY <2>1, <2>2
  <1>9. \A x \in S, y \in Shown(w) : x < y
    BY <1>3
  <1> HIDE DEF shown
  <1>10. Promise!Show(w)
    <2>1. /\ \A x \in S, y \in shown[w] : x < y
          /\ \A x \in S, id \in base[w] : x <= id => id \in shown[w] \cup S
          /\ \/ S # {} /\ UNCHANGED walk
             \/ base[w] \subseteq shown[w] \cup S /\ walk' = [walk EXCEPT ![w] = "done"]
      BY <1>4, <1>7, <1>8, <1>9
    <2>2. Promise!Cardinality(S) <= MaxPage
      BY <1>6 DEF Promise!Cardinality, Cardinality
    <2> QED
      BY <1>1, <1>4, <1>5, <2>1, <2>2 DEF Promise!Show, shown
  <1> QED
    BY <1>10 DEF StepRefines, Promise!Next

\* The statements and cursors implement the contract: a walk is shown all that
\* it is owed, in order, for any limits and however many products are created.
THEOREM Refinement == Spec => KeepsContract
  <1>1. Init => Promise!Init
    BY DEF Init, Promise!Init, Doubtful
  <1>2. IInv /\ [Next]_vars => [Promise!Next]_(Promise!vars)
    <2> SUFFICES ASSUME IInv, [Next]_vars PROVE StepRefines
      BY DEF StepRefines
    <2>1. CASE Next
      BY <2>1, CreationRefines, BeginRefines, ListRefines DEF Next
    <2>2. CASE UNCHANGED vars
      BY <2>2 DEF vars, creation, listing, StepRefines, Promise!vars, Doubtful
    <2> QED
      BY <2>1, <2>2
  <1> QED
    BY <1>1, <1>2, Invariant, PTL DEF Spec, KeepsContract, Promise!Spec
=============================================================================
