--------------------------- MODULE AmountsProofs ----------------------------
(***************************************************************************)
(* What int64 arithmetic preserves, for any width.                         *)
(***************************************************************************)
EXTENDS Amounts, SumProofs, TLAPS

LEMMA WrapType ==
  ASSUME NEW x \in Int
  PROVE  Wrap(x) \in Int64
  <1> DEFINE n == 2 * Half
  <1>1. n \in Nat \ {0}
    BY HalfAssumption
  <1>2. (x + Half) \in Int
    BY HalfAssumption
  <1> HIDE DEF n
  <1>3. (x + Half) % n \in 0 .. n - 1
    BY <1>1, <1>2
  <1> QED
    BY <1>3, HalfAssumption DEF Wrap, Int64, n

\* An amount that fits is not changed.
LEMMA WrapFits ==
  ASSUME NEW x \in Int64
  PROVE  Wrap(x) = x
  <1> DEFINE n == 2 * Half
             y == x + Half
  <1>1. n \in Nat \ {0} /\ y \in 0 .. n - 1
    BY HalfAssumption DEF Int64
  <1> HIDE DEF n, y
  <1>2. y % n = y
    BY <1>1
  <1> QED
    BY <1>2, HalfAssumption DEF Wrap, Int64, n, y

\* A remainder is the only one.
LEMMA RemainderUnique ==
  ASSUME NEW n \in Nat \ {0}, NEW q \in Int, NEW p \in Int,
         NEW r \in 0 .. n - 1, NEW s \in 0 .. n - 1, n * q + r = n * p + s
  PROVE  r = s
  <1>1. n * (q - p) = s - r
    OBVIOUS
  <1>2. ASSUME NEW k \in Int, k >= 1 PROVE n * k >= n /\ n * (-k) <= -n
    BY <1>2
  <1>3. ~(q - p >= 1) /\ ~(p - q >= 1)
    <2>1. ASSUME q - p >= 1 PROVE FALSE
      BY <1>1, <1>2, <2>1
    <2>2. ASSUME p - q >= 1 PROVE FALSE
      <3>1. n * (-(p - q)) <= -n
        BY <1>2, <2>2
      <3>2. n * (-(p - q)) = n * (q - p)
        OBVIOUS
      <3> QED
        BY <1>1, <3>1, <3>2
    <2> QED
      BY <2>1, <2>2
  <1> QED
    BY <1>3

LEMMA RemainderAdd ==
  ASSUME NEW n \in Nat \ {0}, NEW a \in Int, NEW b \in Int
  PROVE  ((a % n) + b) % n = (a + b) % n
  <1>1. ASSUME NEW x \in Int
        PROVE  x = n * (x \div n) + (x % n) /\ x \div n \in Int /\ x % n \in 0 .. n - 1
    BY <1>1
  <1> DEFINE c == (a % n) + b
  <1>2. c \in Int /\ a + b \in Int
    BY <1>1
  <1>3. c = n * (c \div n) + (c % n) /\ c \div n \in Int /\ c % n \in 0 .. n - 1
    BY <1>1, <1>2
  <1> DEFINE d == (a + b) \div n
             e == a \div n
  <1>4. a + b = n * d + ((a + b) % n) /\ d \in Int /\ (a + b) % n \in 0 .. n - 1
    BY <1>1, <1>2
  <1>5. a = n * e + (a % n) /\ e \in Int /\ a % n \in Int
    BY <1>1
  <1> DEFINE f == c \div n
             u == c % n
             v == (a + b) % n
             w == a % n
  <1>6. w + b = n * f + u /\ a + b = n * d + v /\ a = n * e + w
    BY <1>3, <1>4, <1>5
  <1>7. f \in Int /\ d \in Int /\ e \in Int /\ u \in 0 .. n - 1 /\ v \in 0 .. n - 1 /\ w \in Int
    BY <1>3, <1>4, <1>5
  <1> HIDE DEF f, u, v, w, d, e
  <1>8. n * f + u = n * (d - e) + v
    BY <1>6, <1>7
  <1>9. u = v
    BY <1>7, <1>8, RemainderUnique
  <1> QED
    BY <1>9 DEF u, v

\* Wrapping on the way makes no difference.
LEMMA WrapAdd ==
  ASSUME NEW a \in Int, NEW b \in Int
  PROVE  Wrap(Wrap(a) + b) = Wrap(a + b)
  <1> DEFINE n == 2 * Half
             c == a + Half
             w == c % n
  <1>1. n \in Nat \ {0} /\ c \in Int /\ Half \in Int
    BY HalfAssumption
  <1> HIDE DEF n, c
  <1>2. w \in Int
    BY <1>1
  <1>3. (w + b) % n = (c + b) % n
    BY <1>1, RemainderAdd
  <1> HIDE DEF w
  <1>4. w - Half + b + Half = w + b /\ a + b + Half = c + b
    BY <1>1, <1>2 DEF c
  <1>5. Wrap(a) = w - Half
    BY DEF Wrap, w, c, n
  <1>6. Wrap(Wrap(a) + b) = ((w + b) % n) - Half
    BY <1>4, <1>5 DEF Wrap, n
  <1>7. Wrap(a + b) = ((c + b) % n) - Half
    BY <1>4 DEF Wrap, n
  <1> QED
    BY <1>3, <1>6, <1>7

LEMMA MaxMember ==
  ASSUME NEW S \in SUBSET Int, IsFiniteSet(S)
  PROVE  \A T \in SUBSET S : T # {} => Max(T) \in T
  <1> DEFINE A == { T \in SUBSET S : T # {} => \E x \in T : \A y \in T : x >= y }
  <1>1. ASSUME NEW T \in SUBSET S, \A y \in T : T \ {y} \in A, T # {}
        PROVE  \E x \in T : \A y \in T : x >= y
    <2>1. PICK z \in T : TRUE
      BY <1>1
    <2>2. CASE T \ {z} = {}
      BY <2>1, <2>2
    <2>3. CASE T \ {z} # {}
      <3>1. PICK x \in T \ {z} : \A y \in T \ {z} : x >= y
        BY <1>1, <2>1, <2>3
      <3>2. CASE x >= z
        BY <3>1, <3>2
      <3>3. CASE ~(x >= z)
        <4>1. \A y \in T : z >= y
          BY <3>1, <3>3
        <4> QED
          BY <4>1
      <3> QED
        BY <3>2, <3>3
    <2> QED
      BY <2>2, <2>3
  <1>2. Inductive(A, S)
    BY <1>1 DEF Inductive
  <1> HIDE DEF A
  <1>3. SUBSET S \subseteq A
    BY <1>2, SetInduction
  <1> QED
    BY <1>3 DEF A, Max

\* Hence a loop computes the wrapped sum.
LEMMA WrapSumIsSum ==
  ASSUME NEW n \in Nat, NEW s, DOMAIN s = 1 .. n, IntsOn(s, 1 .. n)
  PROVE  WrapSum(s) = Wrap(SumFunctionOnSet(s, 1 .. n))
  <1> DEFINE S == DOMAIN s
             Rec(it) == [T \in SUBSET S |->
               IF T = {} THEN 0 ELSE Wrap(it[T \ {Max(T)}] + s[Max(T)])]
             it == CHOOSE it : it = Rec(it)
             choice == [T \in SUBSET S |-> Max(T)]
             op == [k \in S |-> [a \in Int |-> Wrap(a + s[k])]]
  <1>1. S = 1 .. n /\ S \in SUBSET Int /\ IsFiniteSet(S) /\ IntsOn(s, S)
    BY FS_Interval
  <1>2. WrapSum(s) = it[S]
    BY DEF WrapSum, FoldLeft, MapThenFoldSet
  <1> HIDE DEF it, S
  <1>3. \A T \in SUBSET S : T # {} => Max(T) \in T
    BY <1>1, MaxMember
  <1>4. Chooses(choice, S)
    BY <1>3 DEF Chooses
  <1>5. Int64 \subseteq Int /\ 0 \in Int64
    BY HalfAssumption DEF Int64
  <1>6. op \in [S -> [Int -> Int]]
    <2> SUFFICES ASSUME NEW k \in S, NEW a \in Int PROVE Wrap(a + s[k]) \in Int
      OBVIOUS
    <2>1. a + s[k] \in Int
      BY <1>1 DEF IntsOn
    <2> QED
      BY <1>5, <2>1, WrapType
  <1>7. PICK h \in [SUBSET S -> Int] : IsFold(h, S, 0, op, choice)
    <2> HIDE DEF Rec, op, choice
    <2> 0 \in Int
      OBVIOUS
    <2> QED
      BY <1>1, <1>4, <1>6, FoldExists, Zenon
  <1>8. h = Rec(h)
    <2> SUFFICES ASSUME NEW T \in SUBSET S PROVE h[T] = Rec(h)[T]
      OBVIOUS
    <2>1. h[T] = IF T = {} THEN 0 ELSE op[choice[T]][h[T \ {choice[T]}]]
      <3> HIDE DEF op, choice, Rec
      <3> QED
        BY <1>7 DEF IsFold
    <2>2. choice[T] = Max(T) /\ T \ {Max(T)} \in SUBSET S
      OBVIOUS
    <2>3. h[T \ {Max(T)}] \in Int
      BY <2>2
    <2>4. ASSUME T # {} PROVE op[Max(T)][h[T \ {Max(T)}]] = Wrap(h[T \ {Max(T)}] + s[Max(T)])
      BY <1>3, <2>3, <2>4
    <2> QED
      BY <2>1, <2>2, <2>4
  <1>9. it = Rec(it)
    <2> HIDE DEF Rec
    <2> QED
      BY <1>8 DEF it
  <1> DEFINE Sum(T) == SumFunctionOnSet(s, T)
             A == { T \in SUBSET S : it[T] = Wrap(Sum(T)) }
  <1>10. ASSUME NEW T \in SUBSET S, NEW x \in T
         PROVE  /\ Sum(T) = s[x] + Sum(T \ {x}) /\ Sum(T \ {x}) \in Int /\ s[x] \in Int
    <2>1. /\ IsFiniteSet(T) /\ IntsOn(s, T)
          /\ IsFiniteSet(T \ {x}) /\ IntsOn(s, T \ {x}) /\ s[x] \in Int
      BY <1>1, FS_Subset DEF IntsOn
    <2> QED
      BY <2>1, SumInt, SumRemove
  <1>11. Sum({}) = 0
    BY SumEmpty
  <1> HIDE DEF Sum
  <1>12. ASSUME NEW T \in SUBSET S, \A y \in T : T \ {y} \in A PROVE it[T] = Wrap(Sum(T))
    <2>1. CASE T = {}
      BY <1>5, <1>9, <1>11, <2>1, WrapFits
    <2>2. CASE T # {}
      <3> DEFINE m == Max(T)
      <3>1. m \in T
        BY <1>3, <2>2
      <3>2. it[T] = Wrap(it[T \ {m}] + s[m])
        BY <1>9, <2>2
      <3> HIDE DEF m
      <3>3. it[T \ {m}] = Wrap(Sum(T \ {m}))
        BY <1>12, <3>1
      <3>4. Wrap(Wrap(Sum(T \ {m})) + s[m]) = Wrap(Sum(T \ {m}) + s[m])
        BY <1>10, <3>1, WrapAdd
      <3>5. Sum(T \ {m}) + s[m] = Sum(T)
        BY <1>10, <3>1
      <3> QED
        BY <3>2, <3>3, <3>4, <3>5
    <2> QED
      BY <2>1, <2>2
  <1>13. Inductive(A, S)
    BY <1>12 DEF Inductive
  <1> HIDE DEF A
  <1>14. SUBSET S \subseteq A
    BY <1>1, <1>13, SetInduction
  <1> QED
    BY <1>1, <1>2, <1>14 DEF A, Sum

\* Wrapping the summands makes none either.
WrapsOn(f, g, S) == \A x \in S : g[x] \in Int /\ f[x] = Wrap(g[x])

LEMMA WrapOfSum ==
  ASSUME NEW S, IsFiniteSet(S), NEW f, NEW g, WrapsOn(f, g, S)
  PROVE  Wrap(SumFunctionOnSet(f, S)) = Wrap(SumFunctionOnSet(g, S))
  <1> DEFINE F(T) == SumFunctionOnSet(f, T)
             G(T) == SumFunctionOnSet(g, T)
             A == { T \in SUBSET S : Wrap(F(T)) = Wrap(G(T)) }
  <1>1. IntsOn(f, S) /\ IntsOn(g, S)
    BY WrapType, HalfAssumption DEF WrapsOn, IntsOn, Int64
  <1>2. ASSUME NEW T \in SUBSET S
        PROVE  /\ F(T) \in Int /\ G(T) \in Int
               /\ \A x \in T : F(T) = f[x] + F(T \ {x}) /\ G(T) = g[x] + G(T \ {x})
    <2>1. IsFiniteSet(T) /\ IntsOn(f, T) /\ IntsOn(g, T)
      BY <1>1, FS_Subset DEF IntsOn
    <2> QED
      BY <2>1, SumInt, SumRemove
  <1>3. F({}) = 0 /\ G({}) = 0
    BY SumEmpty
  <1> HIDE DEF F, G
  <1>4. ASSUME NEW T \in SUBSET S, \A y \in T : T \ {y} \in A PROVE Wrap(F(T)) = Wrap(G(T))
    <2>1. CASE T = {}
      BY <1>3, <2>1
    <2>2. CASE T # {}
      <3>1. PICK x \in T : TRUE
        BY <2>2
      <3> DEFINE a == F(T \ {x})
                 b == G(T \ {x})
      <3>2. a \in Int /\ b \in Int /\ f[x] \in Int /\ g[x] \in Int /\ f[x] = Wrap(g[x])
        BY <1>1, <1>2, <3>1 DEF IntsOn, WrapsOn
      <3>3. F(T) = f[x] + a /\ G(T) = g[x] + b /\ Wrap(a) = Wrap(b)
        BY <1>2, <1>4, <3>1
      <3> HIDE DEF a, b
      <3>4. Wrap(Wrap(g[x]) + a) = Wrap(g[x] + a) /\ Wrap(Wrap(b) + g[x]) = Wrap(b + g[x])
        BY <3>2, WrapAdd
      <3>5. Wrap(Wrap(a) + g[x]) = Wrap(a + g[x])
        BY <3>2, WrapAdd
      <3>6. g[x] + a = a + g[x] /\ g[x] + b = b + g[x]
        BY <3>2
      <3> QED
        BY <3>2, <3>3, <3>4, <3>5, <3>6
    <2> QED
      BY <2>1, <2>2
  <1>5. Inductive(A, S)
    BY <1>4 DEF Inductive
  <1> HIDE DEF A
  <1>6. SUBSET S \subseteq A
    BY <1>5, SetInduction
  <1> QED
    BY <1>6 DEF A, F, G
=============================================================================
