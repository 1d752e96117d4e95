----------------------------- MODULE SumProofs ------------------------------
(***************************************************************************)
(* Facts about the folds and sums of the community modules over finite     *)
(* sets.  What they compute is recursive, so the facts need induction; it  *)
(* is done here once, over sets instead of predicates.                     *)
(***************************************************************************)
EXTENDS FiniteSetsExt, FiniteSetTheorems, TLAPS

(* Induction over the subsets of a finite set.                             *)

LEMMA Minimal ==
  ASSUME NEW S, IsFiniteSet(S), NEW B, B \subseteq SUBSET S, B # {}
  PROVE  \E T \in B : \A U \in B : U \subseteq T => U = T
  <1>1. FiniteSubsetsOf(S) = SUBSET S
    BY FS_FiniteSubsetsOfFinite
  <1>2. IsWellFoundedOn(StrictSubsetOrdering(S), SUBSET S)
    BY <1>1, FS_StrictSubsetOrderingWellFounded
  <1>3. \E T \in B : \A U \in B : ~(<<U, T>> \in StrictSubsetOrdering(S))
    BY <1>2, WFMin
  <1> QED
    BY <1>3 DEF StrictSubsetOrdering

\* A set of sets that contains every T of which it contains all T \ {x}.
Inductive(A, S) == \A T \in SUBSET S : (\A x \in T : T \ {x} \in A) => T \in A

LEMMA SetInduction ==
  ASSUME NEW S, IsFiniteSet(S), NEW A, Inductive(A, S)
  PROVE  SUBSET S \subseteq A
  <1> DEFINE B == { T \in SUBSET S : T \notin A }
  <1>1. SUFFICES ASSUME B # {} PROVE FALSE
    OBVIOUS
  <1>2. B \subseteq SUBSET S
    OBVIOUS
  <1> HIDE DEF B
  <1>3. PICK T \in B : \A U \in B : U \subseteq T => U = T
    BY <1>1, <1>2, Minimal
  <1>4. T \in SUBSET S /\ T \notin A
    BY <1>3 DEF B
  <1>5. ASSUME NEW x \in T PROVE T \ {x} \in A
    BY <1>3, <1>4, <1>5 DEF B
  <1> QED
    BY <1>4, <1>5 DEF Inductive

\* Functions of sets that agree on a set if they agree on the smaller ones.
Agreeing(f, g, S) ==
  \A T \in SUBSET S : (\A x \in T : f[T \ {x}] = g[T \ {x}]) => f[T] = g[T]

LEMMA Agreement ==
  ASSUME NEW S, IsFiniteSet(S), NEW f, NEW g, Agreeing(f, g, S)
  PROVE  \A T \in SUBSET S : f[T] = g[T]
  <1> DEFINE A == { T \in SUBSET S : f[T] = g[T] }
  <1>1. Inductive(A, S)
    BY DEF Inductive, Agreeing
  <1> HIDE DEF A
  <1>2. Inductive(A, S)
    BY <1>1 DEF Inductive
  <1>3. SUBSET S \subseteq A
    BY <1>2, SetInduction
  <1> QED
    BY <1>3 DEF A
-----------------------------------------------------------------------------
(* Folds, with the operator and the choice as functions.                   *)

IsFold(it, S, base, op, choice) ==
  \A T \in SUBSET S :
    it[T] = IF T = {} THEN base ELSE op[choice[T]][it[T \ {choice[T]}]]

Chooses(choice, S) == \A T \in SUBSET S : T # {} => choice[T] \in T

LEMMA FoldUnique ==
  ASSUME NEW S, IsFiniteSet(S), NEW base, NEW op, NEW choice, Chooses(choice, S),
         NEW f, IsFold(f, S, base, op, choice),
         NEW g, IsFold(g, S, base, op, choice)
  PROVE  \A T \in SUBSET S : f[T] = g[T]
  <1>1. Agreeing(f, g, S)
    BY DEF IsFold, Chooses, Agreeing
  <1> QED
    BY <1>1, Agreement

LEMMA FoldRestrict ==
  ASSUME NEW S, NEW T \in SUBSET S, NEW base, NEW op, NEW choice, NEW f,
         IsFold(f, S, base, op, choice)
  PROVE  IsFold(f, T, base, op, choice)
  BY DEF IsFold

LEMMA FoldExists ==
  ASSUME NEW S, IsFiniteSet(S), NEW V, NEW base \in V, NEW op \in [S -> [V -> V]],
         NEW choice, Chooses(choice, S)
  PROVE  \E it \in [SUBSET S -> V] : IsFold(it, S, base, op, choice)
  <1> DEFINE Folds(T) == { it \in [SUBSET T -> V] : IsFold(it, T, base, op, choice) }
             A == { T \in SUBSET S : Folds(T) # {} }
  <1>1. ASSUME NEW T \in SUBSET S, \A x \in T : T \ {x} \in A PROVE T \in A
    <2> DEFINE g(x) == CHOOSE it : it \in Folds(T \ {x})
               out(U) == CHOOSE x : x \in T \ U
               it == [U \in SUBSET T |->
                       IF U # T THEN g(out(U))[U]
                       ELSE IF T = {} THEN base
                       ELSE op[choice[T]][g(choice[T])[T \ {choice[T]}]]]
    <2>1. \A x \in T : g(x) \in Folds(T \ {x})
      BY <1>1
    <2>2. \A U \in SUBSET T : U # T => out(U) \in T \ U
      OBVIOUS
    <2> HIDE DEF g, out
    <2>3. T # {} => choice[T] \in T
      BY DEF Chooses
    <2>4. it \in [SUBSET T -> V]
      <3> SUFFICES ASSUME NEW U \in SUBSET T PROVE it[U] \in V
        OBVIOUS
      <3>1. CASE U # T
        <4>1. out(U) \in T /\ U \in SUBSET (T \ {out(U)})
          BY <2>2, <3>1
        <4>2. g(out(U)) \in [SUBSET (T \ {out(U)}) -> V]
          BY <2>1, <4>1
        <4> QED
          BY <3>1, <4>1, <4>2
      <3>2. CASE U = T /\ T # {}
        <4>1. g(choice[T]) \in [SUBSET (T \ {choice[T]}) -> V]
          BY <2>1, <2>3, <3>2
        <4>2. g(choice[T])[T \ {choice[T]}] \in V
          BY <4>1
        <4> QED
          BY <2>3, <3>2, <4>2
      <3> QED
        BY <3>1, <3>2
    <2>5. ASSUME NEW U \in SUBSET T, U # T, NEW x \in T \ U PROVE it[U] = g(x)[U]
      <3>1. /\ IsFold(g(x), T \ {x}, base, op, choice)
            /\ IsFold(g(out(U)), T \ {out(U)}, base, op, choice)
        BY <2>1, <2>2, <2>5
      <3>2. U \in SUBSET (T \ {x}) /\ U \in SUBSET (T \ {out(U)})
        BY <2>2, <2>5
      <3>3. IsFold(g(x), U, base, op, choice) /\ IsFold(g(out(U)), U, base, op, choice)
        BY <3>1, <3>2, FoldRestrict
      <3>4. IsFiniteSet(U) /\ Chooses(choice, U)
        BY FS_Subset DEF Chooses
      <3>5. g(x)[U] = g(out(U))[U]
        <4> HIDE DEF it
        <4> QED
          BY <3>3, <3>4, FoldUnique
      <3> QED
        BY <2>5, <3>5
    <2>6. IsFold(it, T, base, op, choice)
      <3> SUFFICES ASSUME NEW U \in SUBSET T
                   PROVE  it[U] = IF U = {} THEN base
                                  ELSE op[choice[U]][it[U \ {choice[U]}]]
        BY DEF IsFold
      <3> DEFINE c == choice[U]
      <3>1. U # {} => c \in U
        BY DEF Chooses
      <3>2. CASE U # T
        <4>1. PICK x \in T \ U : TRUE
          BY <3>2
        <4>2. it[U] = g(x)[U]
          BY <2>5, <3>2, <4>1
        <4>3. U # {} => it[U \ {c}] = g(x)[U \ {c}]
          BY <2>5, <3>1, <4>1
        <4>4. IsFold(g(x), T \ {x}, base, op, choice) /\ U \in SUBSET (T \ {x})
          BY <2>1, <4>1
        <4> HIDE DEF it
        <4> QED
          BY <4>2, <4>3, <4>4 DEF IsFold
      <3>3. CASE U = T /\ T # {}
        <4>1. it[T \ {c}] = g(c)[T \ {c}]
          BY <2>5, <3>1, <3>3
        <4> QED
          BY <3>3, <4>1
      <3>4. CASE U = T /\ T = {}
        BY <3>4
      <3> QED
        BY <3>2, <3>3, <3>4
    <2> HIDE DEF it
    <2> QED
      BY <2>4, <2>6
  <1> HIDE DEF A
  <1>2. Inductive(A, S)
    BY <1>1 DEF Inductive
  <1>3. SUBSET S \subseteq A
    BY <1>2, SetInduction
  <1> QED
    BY <1>3 DEF A
-----------------------------------------------------------------------------
(* Sums.                                                                   *)

Choice(S) == [T \in SUBSET S |-> CHOOSE x \in T : TRUE]
Adding(f, S) == [x \in S |-> [n \in Int |-> f[x] + n]]

LEMMA ChoiceChooses == \A S : Chooses(Choice(S), S)
  BY DEF Choice, Chooses

\* The sum over a set is a fold whose steps add.
LEMMA SumIsFold ==
  ASSUME NEW S, IsFiniteSet(S), NEW f, \A x \in S : f[x] \in Int
  PROVE  \E it \in [SUBSET S -> Int] :
           /\ IsFold(it, S, 0, Adding(f, S), Choice(S))
           /\ SumFunctionOnSet(f, S) = it[S]
  <1> DEFINE Rec(it) == [T \in SUBSET S |->
               IF T = {} THEN 0
               ELSE f[CHOOSE x \in T : TRUE] + it[T \ {CHOOSE x \in T : TRUE}]]
             it == CHOOSE it : it = Rec(it)
  <1>1. Adding(f, S) \in [S -> [Int -> Int]]
    BY DEF Adding
  <1>2. PICK h \in [SUBSET S -> Int] : IsFold(h, S, 0, Adding(f, S), Choice(S))
    <2> Chooses(Choice(S), S)
      BY ChoiceChooses
    <2> 0 \in Int
      OBVIOUS
    <2> HIDE DEF Rec, it
    <2> QED
      BY <1>1, FoldExists, Zenon
  <1>3. ASSUME NEW T \in SUBSET S, T # {}
        PROVE  /\ Choice(S)[T] = CHOOSE x \in T : TRUE
               /\ Choice(S)[T] \in S
               /\ \A n \in Int : Adding(f, S)[Choice(S)[T]][n] = f[Choice(S)[T]] + n
    BY <1>3 DEF Choice, Adding
  <1>4. h = Rec(h)
    <2> SUFFICES ASSUME NEW T \in SUBSET S PROVE h[T] = Rec(h)[T]
      OBVIOUS
    <2> DEFINE c == CHOOSE x \in T : TRUE
    <2>1. h[T] = IF T = {} THEN 0
                 ELSE Adding(f, S)[Choice(S)[T]][h[T \ {Choice(S)[T]}]]
      BY <1>2 DEF IsFold
    <2>2. T \ {c} \in SUBSET S
      OBVIOUS
    <2>3. h[T \ {c}] \in Int
      BY <2>2
    <2>4. ASSUME T # {} PROVE h[T] = f[c] + h[T \ {c}]
      <3>1. c = Choice(S)[T]
        BY <1>3, <2>4
      <3>2. Adding(f, S)[c][h[T \ {c}]] = f[c] + h[T \ {c}]
        BY <1>3, <2>3, <2>4, <3>1
      <3> HIDE DEF c
      <3> QED
        BY <2>1, <2>4, <3>1, <3>2
    <2> QED
      BY <2>1, <2>4
  <1>5. it = Rec(it)
    <2> HIDE DEF Rec
    <2> QED
      BY <1>4
  <1>6. SumFunctionOnSet(f, S) = it[S]
    BY DEF SumFunctionOnSet, FoldFunctionOnSet, MapThenFoldSet
  <1> HIDE DEF it
  <1>7. ASSUME NEW T \in SUBSET S, \A x \in T : it[T \ {x}] = h[T \ {x}]
        PROVE  it[T] = h[T]
    <2>1. CASE T = {}
      BY <1>2, <1>5, <2>1 DEF IsFold
    <2>2. CASE T # {}
      <3> DEFINE c == CHOOSE x \in T : TRUE
      <3>1. c \in T /\ c = Choice(S)[T]
        BY <1>3, <2>2
      <3>2. it[T \ {c}] = h[T \ {c}] /\ h[T \ {c}] \in Int
        BY <1>7, <3>1
      <3>3. h[T] = f[c] + h[T \ {c}]
        BY <1>4, <2>2
      <3>4. it[T] = f[c] + it[T \ {c}]
        BY <1>5, <2>2
      <3> QED
        BY <3>2, <3>3, <3>4
    <2> QED
      BY <2>1, <2>2
  <1>8. Agreeing(it, h, S)
    BY <1>7 DEF Agreeing
  <1>9. it[S] = h[S]
    BY <1>8, Agreement
  <1> QED
    BY <1>2, <1>6, <1>9

IntsOn(f, S) == \A x \in S : f[x] \in Int

\* One step of the recursion.
LEMMA SumStep ==
  ASSUME NEW S, IsFiniteSet(S), NEW f, IntsOn(f, S)
  PROVE  /\ SumFunctionOnSet(f, S) \in Int
         /\ S = {} => SumFunctionOnSet(f, S) = 0
         /\ S # {} => \E c \in S :
              SumFunctionOnSet(f, S) = f[c] + SumFunctionOnSet(f, S \ {c})
  <1>1. PICK it \in [SUBSET S -> Int] :
          IsFold(it, S, 0, Adding(f, S), Choice(S)) /\ SumFunctionOnSet(f, S) = it[S]
    BY SumIsFold DEF IntsOn
  <1>2. SumFunctionOnSet(f, S) \in Int
    BY <1>1
  <1>3. CASE S = {}
    BY <1>1, <1>2, <1>3 DEF IsFold
  <1>4. CASE S # {}
    <2> DEFINE c == Choice(S)[S]
               T == S \ {c}
    <2>1. c \in S
      BY <1>4, ChoiceChooses DEF Chooses
    <2>2. it[S] = Adding(f, S)[c][it[T]]
      BY <1>1, <1>4 DEF IsFold
    <2>3. T \in SUBSET S /\ it[T] \in Int
      OBVIOUS
    <2> HIDE DEF c
    <2>4. it[S] = f[c] + it[T]
      BY <2>1, <2>2, <2>3 DEF Adding
    <2>5. IsFiniteSet(T) /\ \A x \in T : f[x] \in Int
      BY FS_Subset, <2>3 DEF IntsOn
    <2>6. PICK jt \in [SUBSET T -> Int] :
            IsFold(jt, T, 0, Adding(f, T), Choice(T)) /\ SumFunctionOnSet(f, T) = jt[T]
      <3> HIDE DEF T
      <3> QED
        BY <2>5, SumIsFold
    <2>7. ASSUME NEW U \in SUBSET T, \A x \in U : it[U \ {x}] = jt[U \ {x}]
          PROVE  it[U] = jt[U]
      <3>1. CASE U = {}
        BY <1>1, <2>6, <3>1 DEF IsFold
      <3>2. CASE U # {}
        <4> DEFINE d == CHOOSE x \in U : TRUE
        <4>1. d \in U /\ Choice(S)[U] = d /\ Choice(T)[U] = d
          BY <3>2 DEF Choice
        <4> HIDE DEF d
        <4>2. it[U] = Adding(f, S)[d][it[U \ {d}]]
          BY <1>1, <3>2, <4>1 DEF IsFold
        <4>3. jt[U] = Adding(f, T)[d][jt[U \ {d}]]
          BY <2>6, <3>2, <4>1 DEF IsFold
        <4>4. it[U \ {d}] = jt[U \ {d}] /\ it[U \ {d}] \in Int
          BY <2>7, <4>1
        <4>5. Adding(f, S)[d] = Adding(f, T)[d]
          BY <4>1 DEF Adding
        <4> QED
          BY <4>2, <4>3, <4>4, <4>5
      <3> QED
        BY <3>1, <3>2
    <2>8. Agreeing(it, jt, T)
      BY <2>7 DEF Agreeing
    <2>9. it[T] = jt[T]
      <3> HIDE DEF T
      <3> QED
        BY <2>5, <2>8, Agreement
    <2> QED
      BY <1>1, <1>2, <1>4, <2>1, <2>4, <2>6, <2>9
  <1> QED
    BY <1>3, <1>4

LEMMA SumEmpty == \A f : SumFunctionOnSet(f, {}) = 0
  BY SumStep, FS_EmptySet DEF IntsOn

LEMMA SumInt ==
  ASSUME NEW S, IsFiniteSet(S), NEW f, IntsOn(f, S)
  PROVE  SumFunctionOnSet(f, S) \in Int
  BY SumStep

\* Whichever element is added first.
LEMMA SumRemove ==
  ASSUME NEW S, IsFiniteSet(S), NEW f, IntsOn(f, S), NEW x \in S
  PROVE  SumFunctionOnSet(f, S) = f[x] + SumFunctionOnSet(f, S \ {x})
  <1> DEFINE Sum(T) == SumFunctionOnSet(f, T)
             A == { T \in SUBSET S : \A y \in T : Sum(T) = f[y] + Sum(T \ {y}) }
  <1>0. ASSUME NEW T \in SUBSET S
        PROVE  /\ IsFiniteSet(T) /\ IntsOn(f, T)
               /\ Sum(T) \in Int
               /\ T # {} => \E c \in T : Sum(T) = f[c] + Sum(T \ {c})
    <2>1. IsFiniteSet(T) /\ IntsOn(f, T)
      BY FS_Subset DEF IntsOn
    <2> QED
      BY <2>1, SumStep
  <1> HIDE DEF Sum
  <1>1. ASSUME NEW T \in SUBSET S, \A y \in T : T \ {y} \in A PROVE T \in A
    <2> SUFFICES ASSUME NEW y \in T PROVE Sum(T) = f[y] + Sum(T \ {y})
      OBVIOUS
    <2>1. PICK c \in T : Sum(T) = f[c] + Sum(T \ {c})
      BY <1>0
    <2>2. CASE c = y
      BY <2>1, <2>2
    <2>3. CASE c # y
      <3> DEFINE U == T \ {c, y}
      <3>1. U = (T \ {c}) \ {y} /\ U = (T \ {y}) \ {c}
        OBVIOUS
      <3>2. Sum(T \ {c}) = f[y] + Sum(U)
        BY <1>1, <2>3, <3>1
      <3>3. Sum(T \ {y}) = f[c] + Sum(U)
        BY <1>1, <2>3, <3>1
      <3>4. f[c] \in Int /\ f[y] \in Int /\ Sum(U) \in Int
        BY <1>0 DEF IntsOn
      <3> QED
        BY <2>1, <3>2, <3>3, <3>4
    <2> QED
      BY <2>2, <2>3
  <1>2. Inductive(A, S)
    BY <1>1 DEF Inductive
  <1> HIDE DEF A
  <1>3. SUBSET S \subseteq A
    BY <1>2, SetInduction
  <1> QED
    BY <1>3 DEF A, Sum

\* A summand that was not there is added.
LEMMA SumInsert ==
  ASSUME NEW S, IsFiniteSet(S), NEW x, x \notin S, NEW f, IntsOn(f, S \cup {x})
  PROVE  SumFunctionOnSet(f, S \cup {x}) = f[x] + SumFunctionOnSet(f, S)
  <1>1. IsFiniteSet(S \cup {x}) /\ (S \cup {x}) \ {x} = S /\ x \in S \cup {x}
    BY FS_AddElement
  <1> QED
    BY <1>1, SumRemove

\* Pointwise relations between summands.
SameOn(f, g, S) == \A x \in S : f[x] = g[x]
LeqOn(f, g, S) == \A x \in S : f[x] <= g[x]
NatsOn(f, S) == \A x \in S : f[x] \in Nat

LEMMA SumLeq ==
  ASSUME NEW S, IsFiniteSet(S), NEW f, IntsOn(f, S), NEW g, IntsOn(g, S), LeqOn(f, g, S)
  PROVE  SumFunctionOnSet(f, S) <= SumFunctionOnSet(g, S)
  <1> DEFINE F(T) == SumFunctionOnSet(f, T)
             G(T) == SumFunctionOnSet(g, T)
             A == { T \in SUBSET S : F(T) <= G(T) }
  <1>0. ASSUME NEW T \in SUBSET S
        PROVE  /\ F(T) \in Int /\ G(T) \in Int
               /\ \A x \in T : /\ F(T) = f[x] + F(T \ {x})
                               /\ G(T) = g[x] + G(T \ {x})
    <2>1. IsFiniteSet(T) /\ IntsOn(f, T) /\ IntsOn(g, T)
      BY FS_Subset DEF IntsOn
    <2> QED
      BY <2>1, SumInt, SumRemove
  <1>1. F({}) = 0 /\ G({}) = 0
    BY SumEmpty
  <1> HIDE DEF F, G
  <1>2. ASSUME NEW T \in SUBSET S, \A y \in T : T \ {y} \in A PROVE T \in A
    <2>1. CASE T = {}
      BY <1>1, <2>1
    <2>2. CASE T # {}
      <3>1. PICK x \in T : TRUE
        BY <2>2
      <3>2. F(T \ {x}) <= G(T \ {x}) /\ F(T \ {x}) \in Int /\ G(T \ {x}) \in Int
        BY <1>0, <1>2, <3>1
      <3>3. F(T) = f[x] + F(T \ {x}) /\ G(T) = g[x] + G(T \ {x})
        BY <1>0, <3>1
      <3>4. f[x] \in Int /\ g[x] \in Int /\ f[x] <= g[x]
        BY <3>1 DEF IntsOn, LeqOn
      <3> QED
        BY <3>2, <3>3, <3>4
    <2> QED
      BY <2>1, <2>2
  <1>3. Inductive(A, S)
    BY <1>2 DEF Inductive
  <1> HIDE DEF A
  <1>4. SUBSET S \subseteq A
    BY <1>3, SetInduction
  <1> QED
    BY <1>4 DEF A, F, G

LEMMA SumSame ==
  ASSUME NEW S, IsFiniteSet(S), NEW f, IntsOn(f, S), NEW g, SameOn(f, g, S)
  PROVE  SumFunctionOnSet(f, S) = SumFunctionOnSet(g, S)
  <1>1. IntsOn(g, S) /\ LeqOn(f, g, S) /\ LeqOn(g, f, S)
    BY DEF SameOn, IntsOn, LeqOn
  <1>2. /\ SumFunctionOnSet(f, S) <= SumFunctionOnSet(g, S)
        /\ SumFunctionOnSet(g, S) <= SumFunctionOnSet(f, S)
    BY <1>1, SumLeq
  <1> QED
    BY <1>1, <1>2, SumInt

LEMMA SumNat ==
  ASSUME NEW S, IsFiniteSet(S), NEW f, NatsOn(f, S)
  PROVE  SumFunctionOnSet(f, S) \in Nat
  <1> DEFINE F(T) == SumFunctionOnSet(f, T)
             A == { T \in SUBSET S : F(T) \in Nat }
  <1>0. ASSUME NEW T \in SUBSET S, NEW x \in T PROVE F(T) = f[x] + F(T \ {x})
    <2>1. IsFiniteSet(T) /\ IntsOn(f, T)
      BY FS_Subset DEF IntsOn, NatsOn
    <2> QED
      BY <2>1, SumRemove
  <1>1. F({}) = 0
    BY SumEmpty
  <1> HIDE DEF F
  <1>2. ASSUME NEW T \in SUBSET S, \A y \in T : T \ {y} \in A PROVE T \in A
    <2>1. CASE T = {}
      BY <1>1, <2>1
    <2>2. CASE T # {}
      <3>1. PICK x \in T : TRUE
        BY <2>2
      <3>2. F(T \ {x}) \in Nat /\ f[x] \in Nat
        BY <1>2, <3>1 DEF NatsOn
      <3>3. F(T) = f[x] + F(T \ {x})
        BY <1>0, <3>1
      <3> QED
        BY <3>2, <3>3
    <2> QED
      BY <2>1, <2>2
  <1>3. Inductive(A, S)
    BY <1>2 DEF Inductive
  <1> HIDE DEF A
  <1>4. SUBSET S \subseteq A
    BY <1>3, SetInduction
  <1> QED
    BY <1>4 DEF A, F

\* Fewer summands of one sign sum to less.
LEMMA SumSubset ==
  ASSUME NEW S, IsFiniteSet(S), NEW R \in SUBSET S, NEW f, NatsOn(f, S)
  PROVE  SumFunctionOnSet(f, R) <= SumFunctionOnSet(f, S)
  <1> DEFINE F(T) == SumFunctionOnSet(f, T)
             A == { T \in SUBSET S : \A U \in SUBSET T : F(U) <= F(T) }
  <1>0. ASSUME NEW T \in SUBSET S
        PROVE  F(T) \in Nat /\ \A x \in T : F(T) = f[x] + F(T \ {x})
    <2>1. IsFiniteSet(T) /\ IntsOn(f, T) /\ NatsOn(f, T)
      BY FS_Subset DEF IntsOn, NatsOn
    <2> QED
      BY <2>1, SumNat, SumRemove
  <1> HIDE DEF F
  <1>1. ASSUME NEW T \in SUBSET S, \A y \in T : T \ {y} \in A PROVE T \in A
    <2> SUFFICES ASSUME NEW U \in SUBSET T PROVE F(U) <= F(T)
      OBVIOUS
    <2>1. CASE U = T
      BY <1>0, <2>1
    <2>2. CASE U # T
      <3>1. PICK x \in T \ U : TRUE
        BY <2>2
      <3>2. U \in SUBSET (T \ {x})
        BY <3>1
      <3>3. F(U) <= F(T \ {x})
        BY <1>1, <3>1, <3>2
      <3>4. F(U) \in Nat /\ F(T) \in Nat /\ F(T \ {x}) \in Nat /\ f[x] \in Nat
        BY <1>0, <3>1 DEF NatsOn
      <3>5. F(T) = f[x] + F(T \ {x})
        BY <1>0, <3>1
      <3> QED
        BY <3>3, <3>4, <3>5
    <2> QED
      BY <2>1, <2>2
  <1>2. Inductive(A, S)
    BY <1>1 DEF Inductive
  <1> HIDE DEF A
  <1>3. SUBSET S \subseteq A
    BY <1>2, SetInduction
  <1> QED
    BY <1>3, FS_Subset DEF A, F
=============================================================================
