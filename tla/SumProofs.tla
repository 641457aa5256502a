----------------------------- MODULE SumProofs -----------------------------
(***************************************************************************)
(* Sums over finite sets: what SumFunction of the community modules does,  *)
(* for every finite function. The program's books are such sums (of bets   *)
(* by square, of bets by player, of what is still owed), and every proof   *)
(* about them comes down to how a sum changes when one of its terms does.  *)
(*                                                                         *)
(* The induction theorems of the library take a predicate as a parameter,  *)
(* which no prover here can instantiate. Induction is stated with sets     *)
(* instead: NumberInduction and SetInduction conclude that a set T, closed *)
(* under one more, has every number, or the whole set, in it.              *)
(***************************************************************************)
EXTENDS Integers, FiniteSets, Functions, FiniteSetTheorems, WellFoundedInduction, TLAPS

(* Every set of natural numbers with a member has a least one.             *)
LEMMA LeastNumber ==
  ASSUME NEW T \in SUBSET Nat, T # {}
  PROVE  \E n \in T : \A m \in T : n <= m
<1>1. PICK n \in T : \A m \in T : ~(<<m, n>> \in OpToRel(<, Nat))
  BY NatLessThanWellFounded, WFMin
<1>2. \A m \in T : ~(m < n)
  BY <1>1 DEF OpToRel
<1>3. QED
  BY <1>2

(* Induction over the natural numbers, said of a set.                      *)
LEMMA NumberInduction ==
  ASSUME NEW T, 0 \in T, \A n \in Nat : n \in T => n + 1 \in T
  PROVE  Nat \subseteq T
<1>1. SUFFICES ASSUME Nat \ T # {} PROVE FALSE
  OBVIOUS
<1>2. PICK n \in Nat \ T : \A m \in Nat \ T : n <= m
  BY <1>1, LeastNumber
<1>3. n # 0 /\ n - 1 \in Nat
  BY <1>2
<1>4. n - 1 \in T
  BY <1>2, <1>3
<1>5. QED
  BY <1>2, <1>3, <1>4

(* A finite set without one of its members has one member less.            *)
LEMMA OneLess ==
  ASSUME NEW s, IsFiniteSet(s), NEW x \in s, NEW n \in Nat,
         Cardinality(s) <= n + 1
  PROVE  Cardinality(s \ {x}) <= n
<1> DEFINE k == Cardinality(s)
           l == Cardinality(s \ {x})
<1>1. l = k - 1
  BY FS_RemoveElement, Zenon
<1>2. k \in Nat /\ k <= n + 1
  BY FS_CardinalityType
<1> HIDE DEF k, l
<1>3. l <= n
  BY <1>1, <1>2
<1>4. QED
  BY <1>3 DEF l

(* Induction over the subsets of a finite set: if T has the empty set, and *)
(* with every subset the subset that has one member more, T has the whole  *)
(* set.                                                                    *)
LEMMA SetInduction ==
  ASSUME NEW D, IsFiniteSet(D), NEW T,
         {} \in T,
         \A s \in SUBSET D, x \in D : s \in T /\ x \notin s => s \cup {x} \in T
  PROVE  D \in T
<1> DEFINE N == {n \in Nat : \A s \in SUBSET D : Cardinality(s) = n => s \in T}
<1>1. 0 \in N
  BY FS_Subset, FS_EmptySet
<1>2. ASSUME NEW n \in Nat, n \in N PROVE n + 1 \in N
  <2>1. SUFFICES ASSUME NEW s \in SUBSET D, Cardinality(s) = n + 1
                 PROVE  s \in T
    OBVIOUS
  <2>2. IsFiniteSet(s)
    BY FS_Subset
  <2>3. PICK x \in s : TRUE
    BY <2>1, <2>2, FS_EmptySet
  <2>4. Cardinality(s \ {x}) = n
    <3>1. Cardinality(s \ {x}) = Cardinality(s) - 1
      BY <2>2, <2>3, FS_RemoveElement, Zenon
    <3>2. QED
      BY <2>1, <3>1
  <2>5. s \ {x} \in T /\ x \in D
    BY <1>2, <2>4
  <2>6. s = (s \ {x}) \cup {x}
    BY <2>3
  <2>7. QED
    BY <2>5, <2>6
<1>3. Nat \subseteq N
  <2> HIDE DEF N
  <2>1. QED
    BY <1>1, <1>2, NumberInduction
<1>4. Cardinality(D) \in N
  BY <1>3, FS_CardinalityType
<1>5. QED
  BY <1>4

\* the element a fold takes next, and the table of the sums of all parts
Choice(s) == CHOOSE x \in s : TRUE
IsSum(g, f, D) ==
  g = [s \in SUBSET D |-> IF s = {} THEN 0 ELSE f[Choice(s)] + g[s \ {Choice(s)}]]

(* SumFunction is a fold of the community modules: the sum table of f at   *)
(* the whole of its domain.                                                *)
LEMMA SumIsFold ==
  ASSUME NEW f
  PROVE  SumFunction(f) = (CHOOSE g : IsSum(g, f, DOMAIN f))[DOMAIN f]
  BY DEF SumFunction, SumFunctionOnSet, FoldFunctionOnSet, MapThenFoldSet, IsSum, Choice

(* There is a table g of the sums of all parts of a finite function.       *)
LEMMA SumFunctionExists ==
  ASSUME NEW f, NEW D, IsFiniteSet(D)
  PROVE  \E g : IsSum(g, f, D)
<1> DEFINE Sub(n) == {s \in SUBSET D : Cardinality(s) <= n}
           Eqn(g, n) == g = [s \in Sub(n) |->
              IF s = {} THEN 0 ELSE f[Choice(s)] + g[s \ {Choice(s)}]]
           N == {n \in Nat : \E g : Eqn(g, n)}
<1>0. ASSUME NEW s \in SUBSET D
      PROVE  IsFiniteSet(s) /\ Cardinality(s) \in Nat
  BY FS_Subset, FS_CardinalityType
<1>1. 0 \in N
  <2> DEFINE g == [s \in Sub(0) |-> 0]
  <2>1. \A s \in Sub(0) : s = {}
    BY <1>0, FS_EmptySet
  <2>2. Eqn(g, 0)
    BY <2>1
  <2>3. QED
    BY <2>2
<1>2. ASSUME NEW n \in Nat, n \in N PROVE n + 1 \in N
  <2>1. PICK g : Eqn(g, n)
    BY <1>2
  <2> DEFINE h == [s \in Sub(n + 1) |->
                    IF s = {} THEN 0 ELSE f[Choice(s)] + g[s \ {Choice(s)}]]
  <2>2. ASSUME NEW s \in Sub(n + 1), s # {}
        PROVE  h[s \ {Choice(s)}] = g[s \ {Choice(s)}]
    <3> DEFINE t == s \ {Choice(s)}
    <3>1. Choice(s) \in s
      BY <2>2 DEF Choice
    <3>2. Cardinality(t) = Cardinality(s) - 1
      BY <1>0, <3>1, FS_RemoveElement, Zenon
    <3>3. t \in Sub(n) /\ t \in Sub(n + 1)
      BY <1>0, <3>2
    <3> HIDE DEF t, Sub
    <3>4. g[t] = IF t = {} THEN 0 ELSE f[Choice(t)] + g[t \ {Choice(t)}]
      BY <2>1, <3>3
    <3>5. h[t] = IF t = {} THEN 0 ELSE f[Choice(t)] + g[t \ {Choice(t)}]
      BY <3>3
    <3>6. QED
      BY <3>4, <3>5 DEF t
  <2>3. Eqn(h, n + 1)
    BY <2>2
  <2>4. \E e : Eqn(e, n + 1)
    <3> HIDE DEF Eqn
    <3>1. QED
      BY <2>3
  <2>5. n + 1 \in Nat
    OBVIOUS
  <2> HIDE DEF Eqn, h
  <2>6. QED
    BY <2>4, <2>5
<1>3. Cardinality(D) \in N
  <2> HIDE DEF N
  <2>1. Nat \subseteq N
    BY <1>1, <1>2, NumberInduction
  <2>2. QED
    BY <2>1, FS_CardinalityType
<1>4. Sub(Cardinality(D)) = SUBSET D
  BY FS_Subset
<1>5. QED
  BY <1>3, <1>4 DEF IsSum

(* The sum of a part of f, in whatever order its elements are taken.       *)
LEMMA SumAnyOrder ==
  ASSUME NEW D, IsFiniteSet(D), NEW f \in [D -> Int], NEW g, IsSum(g, f, D)
  PROVE  /\ g[{}] = 0
         /\ \A s \in SUBSET D : g[s] \in Int
         /\ \A s \in SUBSET D : \A x \in s : g[s] = f[x] + g[s \ {x}]
<1> DEFINE Right(s) == g[s] \in Int /\ \A x \in s : g[s] = f[x] + g[s \ {x}]
           N == {n \in Nat : \A s \in SUBSET D : Cardinality(s) <= n => Right(s)}
<1>0. ASSUME NEW s \in SUBSET D
      PROVE  /\ IsFiniteSet(s) /\ Cardinality(s) \in Nat
             /\ g[s] = IF s = {} THEN 0 ELSE f[Choice(s)] + g[s \ {Choice(s)}]
  BY FS_Subset, FS_CardinalityType DEF IsSum
<1>1. g[{}] = 0 /\ Right({})
  BY <1>0
<1>2. 0 \in N
  <2>1. ASSUME NEW s \in SUBSET D, Cardinality(s) <= 0 PROVE Right(s)
    <3> DEFINE k == Cardinality(s)
    <3>1. k = 0
      <4>1. k \in Nat /\ k <= 0
        BY <1>0, <2>1
      <4> HIDE DEF k
      <4>2. QED
        BY <4>1
    <3>2. s = {}
      BY <1>0, <3>1, FS_EmptySet
    <3>3. QED
      BY <1>1, <3>2
  <2> HIDE DEF Right
  <2>2. QED
    BY <2>1
<1>3. ASSUME NEW n \in Nat, n \in N PROVE n + 1 \in N
  <2>1. SUFFICES ASSUME NEW s \in SUBSET D, Cardinality(s) <= n + 1, s # {}
                 PROVE  Right(s)
    <3>1. n + 1 \in Nat
      OBVIOUS
    <3> HIDE DEF Right
    <3>2. QED
      BY <1>1, <3>1
  <2> DEFINE c == Choice(s)
  <2>2. c \in s
    BY <2>1 DEF Choice
  <2>3. ASSUME NEW x \in s PROVE Right(s \ {x})
    <3>1. Cardinality(s \ {x}) <= n
      BY <1>0, <2>1, OneLess
    <3>2. QED
      BY <1>3, <3>1
  <2> HIDE DEF c
  <2>4. g[s] = f[c] + g[s \ {c}]
    BY <1>0, <2>1 DEF c
  <2>5. c \in D /\ f[c] \in Int /\ g[s \ {c}] \in Int
    BY <2>2, <2>3
  <2>6. ASSUME NEW x \in s, x # c PROVE g[s] = f[x] + g[s \ {x}]
    <3> DEFINE rest == (s \ {c}) \ {x}
    <3>1. rest = (s \ {x}) \ {c}
      OBVIOUS
    <3>2. g[s \ {c}] = f[x] + g[rest]
      BY <2>2, <2>3, <2>6
    <3>3. g[s \ {x}] = f[c] + g[rest]
      BY <2>2, <2>3, <2>6, <3>1
    <3>4. g[s \ {x}] \in Int /\ f[x] \in Int
      BY <2>3
    <3>5. g[rest] \in Int
      <4>1. Cardinality(s \ {c}) <= n
        BY <1>0, <2>1, <2>2, OneLess
      <4>2. Cardinality(s \ {c}) \in Nat /\ Cardinality(rest) \in Nat
            /\ Cardinality(rest) <= Cardinality(s \ {c})
        BY <1>0, FS_Subset
      <4>3. Cardinality(rest) <= n
        <5> HIDE DEF rest
        <5>1. QED
          BY <4>1, <4>2
      <4>4. QED
        BY <1>3, <4>3
    <3>6. QED
      BY <2>4, <2>5, <3>2, <3>3, <3>4, <3>5
  <2>7. g[s] \in Int
    BY <2>4, <2>5
  <2>8. ASSUME NEW x \in s PROVE g[s] = f[x] + g[s \ {x}]
    BY <2>4, <2>6
  <2>9. QED
    BY <2>7, <2>8
<1>4. Nat \subseteq N
  <2> HIDE DEF N
  <2>1. QED
    BY <1>2, <1>3, NumberInduction
<1>5. ASSUME NEW s \in SUBSET D PROVE Right(s)
  <2> DEFINE k == Cardinality(s)
  <2>1. k \in Nat
    BY <1>0
  <2>2. k \in N /\ k <= k
    <3> HIDE DEF k, N
    <3>1. QED
      BY <2>1, <1>4
  <2>3. QED
    BY <2>2
<1>6. QED
  BY <1>1, <1>5

\* the sum of f over the part s of its domain
Part(f, s) == SumFunction([y \in s |-> f[y]])

(* A part of f sums up to its entry in the table of f.                     *)
LEMMA PartIsSum ==
  ASSUME NEW D, IsFiniteSet(D), NEW f \in [D -> Int], NEW g, IsSum(g, f, D),
         NEW s \in SUBSET D
  PROVE  Part(f, s) = g[s]
<1> DEFINE e == [y \in s |-> f[y]]
           T == {t \in SUBSET s : \A h : IsSum(h, e, s) => h[t] = g[t]}
<1>0. IsFiniteSet(s) /\ e \in [s -> Int] /\ DOMAIN e = s
  BY FS_Subset
<1>1. ASSUME NEW h, IsSum(h, e, s)
      PROVE  /\ h[{}] = 0
             /\ \A t \in SUBSET s : \A x \in t : h[t] = f[x] + h[t \ {x}]
  <2> HIDE DEF e
  <2>1. /\ h[{}] = 0
        /\ \A t \in SUBSET s : \A x \in t : h[t] = e[x] + h[t \ {x}]
    BY <1>0, <1>1, SumAnyOrder
  <2>2. \A x \in s : e[x] = f[x]
    BY DEF e
  <2>3. QED
    BY <2>1, <2>2
<1>2. /\ g[{}] = 0
      /\ \A t \in SUBSET s : \A x \in t : g[t] = f[x] + g[t \ {x}]
  BY SumAnyOrder
<1> HIDE DEF e
<1>3. {} \in T
  BY <1>1, <1>2
<1>4. ASSUME NEW t \in SUBSET s, NEW x \in s, t \in T, x \notin t
      PROVE  t \cup {x} \in T
  <2>1. t = (t \cup {x}) \ {x} /\ x \in t \cup {x} /\ t \cup {x} \in SUBSET s
    BY <1>4
  <2>2. g[t \cup {x}] = f[x] + g[t]
    BY <1>2, <2>1
  <2>3. ASSUME NEW h, IsSum(h, e, s) PROVE h[t \cup {x}] = g[t \cup {x}]
    <3>1. h[t \cup {x}] = f[x] + h[t]
      BY <1>1, <2>1, <2>3
    <3>2. h[t] = g[t]
      BY <1>4, <2>3
    <3>3. QED
      BY <2>2, <3>1, <3>2
  <2>4. QED
    BY <2>1, <2>3
<1>5. s \in T
  <2> HIDE DEF T
  <2>1. QED
    BY <1>0, <1>3, <1>4, SetInduction
<1> DEFINE h == CHOOSE h : IsSum(h, e, s)
<1>6. IsSum(h, e, s)
  BY <1>0, SumFunctionExists
<1>7. Part(f, s) = h[s]
  BY <1>0, SumIsFold DEF Part, e
<1>8. QED
  BY <1>5, <1>6, <1>7

(* The sum over a set is its sum over one element less, and that element.  *)
LEMMA PartFacts ==
  ASSUME NEW D, IsFiniteSet(D), NEW f \in [D -> Int]
  PROVE  /\ Part(f, {}) = 0
         /\ Part(f, D) = SumFunction(f)
         /\ \A s \in SUBSET D : Part(f, s) \in Int
         /\ \A s \in SUBSET D : \A x \in s : Part(f, s) = f[x] + Part(f, s \ {x})
<1>1. PICK g : IsSum(g, f, D)
  BY SumFunctionExists
<1>2. \A s \in SUBSET D : Part(f, s) = g[s]
  BY <1>1, PartIsSum
<1>3. /\ g[{}] = 0
      /\ \A s \in SUBSET D : g[s] \in Int
      /\ \A s \in SUBSET D : \A x \in s : g[s] = f[x] + g[s \ {x}]
  BY <1>1, SumAnyOrder
<1>4. f = [y \in D |-> f[y]]
  OBVIOUS
<1>5. QED
  BY <1>2, <1>3, <1>4 DEF Part

(* One element more adds its value.                                        *)
LEMMA PartAdd ==
  ASSUME NEW D, IsFiniteSet(D), NEW f \in [D -> Int],
         NEW s \in SUBSET D, NEW x \in D, x \notin s
  PROVE  Part(f, s \cup {x}) = f[x] + Part(f, s)
<1>1. (s \cup {x}) \ {x} = s
  OBVIOUS
<1>2. QED
  BY <1>1, PartFacts

(* The sum of integers is an integer.                                      *)
LEMMA SumInt ==
  ASSUME NEW D, IsFiniteSet(D), NEW f \in [D -> Int]
  PROVE  SumFunction(f) \in Int
  BY PartFacts

(* The sum of nothing.                                                     *)
LEMMA SumEmpty ==
  ASSUME NEW f, DOMAIN f = {}
  PROVE  SumFunction(f) = 0
<1>1. PICK g : IsSum(g, f, {})
  BY SumFunctionExists, FS_EmptySet
<1>2. \A h : IsSum(h, f, {}) => h[{}] = 0
  BY DEF IsSum
<1>3. QED
  BY <1>1, <1>2, SumIsFold

(* Two sums over the same set, compared element by element.                *)
LEMMA SumCompare ==
  ASSUME NEW D, IsFiniteSet(D), NEW f \in [D -> Int], NEW h \in [D -> Int],
         \A x \in D : f[x] <= h[x]
  PROVE  SumFunction(f) <= SumFunction(h)
<1> DEFINE T == {s \in SUBSET D : Part(f, s) <= Part(h, s)}
<1>1. {} \in T
  BY PartFacts
<1>2. ASSUME NEW s \in SUBSET D, NEW x \in D, s \in T, x \notin s
      PROVE  s \cup {x} \in T
  <2>1. Part(f, s \cup {x}) = f[x] + Part(f, s)
    BY <1>2, PartAdd
  <2>2. Part(h, s \cup {x}) = h[x] + Part(h, s)
    BY <1>2, PartAdd
  <2>3. Part(f, s) \in Int /\ Part(h, s) \in Int
    BY PartFacts
  <2>4. QED
    BY <1>2, <2>1, <2>2, <2>3
<1>3. D \in T
  <2> HIDE DEF T
  <2>1. QED
    BY <1>1, <1>2, SetInduction
<1>4. QED
  BY <1>3, PartFacts

(* The sum of a sum.                                                       *)
LEMMA SumPlus ==
  ASSUME NEW D, IsFiniteSet(D), NEW f \in [D -> Int], NEW h \in [D -> Int]
  PROVE  SumFunction([x \in D |-> f[x] + h[x]]) = SumFunction(f) + SumFunction(h)
<1> DEFINE both == [x \in D |-> f[x] + h[x]]
           T == {s \in SUBSET D : Part(both, s) = Part(f, s) + Part(h, s)}
<1>0. both \in [D -> Int] /\ \A x \in D : both[x] = f[x] + h[x]
  OBVIOUS
<1> HIDE DEF both
<1>1. {} \in T
  BY <1>0, PartFacts
<1>2. ASSUME NEW s \in SUBSET D, NEW x \in D, s \in T, x \notin s
      PROVE  s \cup {x} \in T
  <2>1. /\ Part(f, s \cup {x}) = f[x] + Part(f, s)
        /\ Part(h, s \cup {x}) = h[x] + Part(h, s)
        /\ Part(both, s \cup {x}) = both[x] + Part(both, s)
    BY <1>0, <1>2, PartAdd
  <2>2. Part(f, s) \in Int /\ Part(h, s) \in Int
    BY PartFacts
  <2>3. QED
    BY <1>0, <1>2, <2>1, <2>2
<1>3. D \in T
  <2> HIDE DEF T
  <2>1. QED
    BY <1>1, <1>2, SetInduction
<1>4. QED
  BY <1>0, <1>3, PartFacts DEF both

(* A common factor.                                                        *)
LEMMA SumTimes ==
  ASSUME NEW D, IsFiniteSet(D), NEW f \in [D -> Int], NEW c \in Int
  PROVE  SumFunction([x \in D |-> c * f[x]]) = c * SumFunction(f)
<1> DEFINE h == [x \in D |-> c * f[x]]
           T == {s \in SUBSET D : Part(h, s) = c * Part(f, s)}
<1>0. h \in [D -> Int] /\ \A x \in D : h[x] = c * f[x]
  OBVIOUS
<1> HIDE DEF h
<1>1. {} \in T
  BY <1>0, PartFacts
<1>2. ASSUME NEW s \in SUBSET D, NEW x \in D, s \in T, x \notin s
      PROVE  s \cup {x} \in T
  <2> DEFINE p == Part(f, s)
  <2>1. Part(f, s \cup {x}) = f[x] + p
    BY <1>2, PartAdd
  <2>2. Part(h, s \cup {x}) = h[x] + Part(h, s)
    BY <1>0, <1>2, PartAdd
  <2>3. p \in Int /\ f[x] \in Int /\ Part(h, s) = c * p
    BY <1>2, PartFacts
  <2> HIDE DEF p
  <2>4. c * (f[x] + p) = c * f[x] + c * p
    BY <2>3
  <2>5. QED
    BY <1>0, <2>1, <2>2, <2>3, <2>4
<1>3. D \in T
  <2> HIDE DEF T
  <2>1. QED
    BY <1>1, <1>2, SetInduction
<1>4. QED
  BY <1>0, <1>3, PartFacts DEF h

(* The sum of a constant.                                                  *)
LEMMA SumConstant ==
  ASSUME NEW D, IsFiniteSet(D), NEW c \in Int
  PROVE  SumFunction([x \in D |-> c]) = c * Cardinality(D)
<1> DEFINE f == [x \in D |-> c]
           T == {s \in SUBSET D : Part(f, s) = c * Cardinality(s)}
<1>0. f \in [D -> Int] /\ \A x \in D : f[x] = c
  OBVIOUS
<1> HIDE DEF f
<1>1. {} \in T
  BY <1>0, PartFacts, FS_EmptySet
<1>2. ASSUME NEW s \in SUBSET D, NEW x \in D, s \in T, x \notin s
      PROVE  s \cup {x} \in T
  <2> DEFINE k == Cardinality(s)
             l == Cardinality(s \cup {x})
  <2>1. Part(f, s \cup {x}) = c + Part(f, s)
    BY <1>0, <1>2, PartAdd
  <2>2. IsFiniteSet(s)
    BY FS_Subset
  <2>3. l = k + 1
    BY <1>2, <2>2, FS_AddElement, Zenon
  <2>4. k \in Nat
    BY <2>2, FS_CardinalityType
  <2>5. Part(f, s) = c * k
    BY <1>2
  <2>6. Part(f, s \cup {x}) = c * l
    <3> HIDE DEF k, l
    <3>1. c * l = c * k + c
      BY <2>3, <2>4
    <3>2. QED
      BY <2>1, <2>4, <2>5, <3>1
  <2>7. QED
    BY <2>6
<1>3. D \in T
  <2> HIDE DEF T
  <2>1. QED
    BY <1>1, <1>2, SetInduction
<1>4. QED
  BY <1>0, <1>3, PartFacts DEF f

(* The sum of zeros.                                                       *)
LEMMA SumZero ==
  ASSUME NEW D, IsFiniteSet(D), NEW f \in [D -> Int], \A x \in D : f[x] = 0
  PROVE  SumFunction(f) = 0
<1> DEFINE T == {s \in SUBSET D : Part(f, s) = 0}
<1>1. {} \in T
  BY PartFacts
<1>2. ASSUME NEW s \in SUBSET D, NEW x \in D, s \in T, x \notin s
      PROVE  s \cup {x} \in T
  <2>1. Part(f, s \cup {x}) = f[x] + Part(f, s)
    BY <1>2, PartAdd
  <2>2. QED
    BY <1>2, <2>1
<1>3. D \in T
  <2> HIDE DEF T
  <2>1. QED
    BY <1>1, <1>2, SetInduction
<1>4. QED
  BY <1>3, PartFacts

(* One element set apart.                                                  *)
LEMMA SumTake ==
  ASSUME NEW D, IsFiniteSet(D), NEW f \in [D -> Int], NEW x \in D
  PROVE  SumFunction(f) = f[x] + SumFunction([y \in D \ {x} |-> f[y]])
<1>1. Part(f, D) = SumFunction(f) /\ Part(f, D) = f[x] + Part(f, D \ {x})
  <2>1. D \in SUBSET D
    OBVIOUS
  <2>2. QED
    BY <2>1, PartFacts
<1>2. Part(f, D \ {x}) = SumFunction([y \in D \ {x} |-> f[y]])
  BY DEF Part
<1>3. QED
  BY <1>1, <1>2

(* Sums over one set that differ in one element.                           *)
LEMMA SumChange ==
  ASSUME NEW D, IsFiniteSet(D), NEW f \in [D -> Int], NEW h \in [D -> Int],
         NEW x \in D, \A y \in D \ {x} : h[y] = f[y]
  PROVE  SumFunction(h) = SumFunction(f) - f[x] + h[x]
<1> DEFINE rest == SumFunction([y \in D \ {x} |-> f[y]])
<1>1. [y \in D \ {x} |-> f[y]] = [y \in D \ {x} |-> h[y]]
  OBVIOUS
<1>2. SumFunction(f) = f[x] + rest
  BY SumTake
<1>3. SumFunction(h) = h[x] + rest
  BY <1>1, SumTake
<1>4. rest \in Int
  <2>1. IsFiniteSet(D \ {x})
    BY FS_Subset
  <2>2. [y \in D \ {x} |-> f[y]] \in [D \ {x} -> Int]
    OBVIOUS
  <2>3. QED
    BY <2>1, <2>2, SumInt
<1> HIDE DEF rest
<1>5. QED
  BY <1>2, <1>3, <1>4

(* One element revised, or added where there was none.                     *)
LEMMA SumRevise ==
  ASSUME NEW D, IsFiniteSet(D), NEW f \in [D -> Int], NEW x,
         NEW E, E = D \cup {x}, NEW h \in [E -> Int],
         \A y \in D \ {x} : h[y] = f[y],
         NEW before, x \in D => before = f[x], x \notin D => before = 0
  PROVE  SumFunction(h) = SumFunction(f) + (h[x] - before)
<1>1. SumFunction(f) \in Int /\ h[x] \in Int
  BY SumInt
<1>2. CASE x \in D
  <2>1. E = D /\ h \in [D -> Int]
    BY <1>2
  <2>2. SumFunction(h) = SumFunction(f) - f[x] + h[x]
    BY <1>2, <2>1, SumChange
  <2>3. before = f[x] /\ f[x] \in Int
    BY <1>2
  <2>4. QED
    BY <1>1, <2>2, <2>3
<1>3. CASE x \notin D
  <2>1. IsFiniteSet(E) /\ x \in E
    BY FS_AddElement
  <2>2. [y \in E \ {x} |-> h[y]] = f
    BY <1>3
  <2>3. SumFunction(h) = h[x] + SumFunction(f)
    BY <2>1, <2>2, SumTake
  <2>4. QED
    BY <1>1, <1>3, <2>3
<1>4. QED
  BY <1>2, <1>3

(* The sum of natural numbers is one, and no less than any of its terms.   *)
LEMMA SumNat ==
  ASSUME NEW D, IsFiniteSet(D), NEW f \in [D -> Nat]
  PROVE  /\ SumFunction(f) \in Nat
         /\ \A x \in D : f[x] <= SumFunction(f)
<1>1. ASSUME NEW E, IsFiniteSet(E), NEW e \in [E -> Nat]
      PROVE  SumFunction(e) \in Nat
  <2> DEFINE zero == [x \in E |-> 0]
  <2>1. SumFunction(zero) = 0
    <3>1. zero \in [E -> Int] /\ \A x \in E : zero[x] = 0
      OBVIOUS
    <3> HIDE DEF zero
    <3>2. QED
      BY <1>1, <3>1, SumZero
  <2>2. zero \in [E -> Int] /\ e \in [E -> Int] /\ \A x \in E : zero[x] <= e[x]
    OBVIOUS
  <2> HIDE DEF zero
  <2>3. SumFunction(zero) <= SumFunction(e) /\ SumFunction(e) \in Int
    BY <1>1, <2>2, SumCompare, SumInt
  <2>4. QED
    BY <2>1, <2>3
<1>2. SumFunction(f) \in Nat
  BY <1>1
<1>3. ASSUME NEW x \in D PROVE f[x] <= SumFunction(f)
  <2> DEFINE rest == [y \in D \ {x} |-> f[y]]
  <2>1. SumFunction(rest) \in Nat
    <3>1. IsFiniteSet(D \ {x}) /\ rest \in [D \ {x} -> Nat]
      BY FS_Subset
    <3>2. QED
      BY <1>1, <3>1
  <2>2. SumFunction(f) = f[x] + SumFunction(rest)
    <3>1. f \in [D -> Int]
      OBVIOUS
    <3>2. QED
      BY <3>1, SumTake
  <2>3. f[x] \in Nat
    OBVIOUS
  <2> HIDE DEF rest
  <2>4. QED
    BY <2>1, <2>2, <2>3
<1>4. QED
  BY <1>2, <1>3

(* Adding c to every element of a subset.                                  *)
LEMMA SumRaise ==
  ASSUME NEW D, IsFiniteSet(D), NEW f \in [D -> Int], NEW c \in Int,
         NEW raised \in SUBSET D
  PROVE  SumFunction([x \in D |-> IF x \in raised THEN f[x] + c ELSE f[x]])
           = SumFunction(f) + c * Cardinality(raised)
<1> DEFINE h == [x \in D |-> IF x \in raised THEN f[x] + c ELSE f[x]]
           In(s) == {x \in s : x \in raised}
           T == {s \in SUBSET D : Part(h, s) = Part(f, s) + c * Cardinality(In(s))}
<1>0. h \in [D -> Int]
      /\ \A x \in D : h[x] = IF x \in raised THEN f[x] + c ELSE f[x]
  OBVIOUS
<1> HIDE DEF h
<1>1. {} \in T
  <2>1. In({}) = {}
    OBVIOUS
  <2>2. QED
    BY <1>0, <2>1, PartFacts, FS_EmptySet
<1>2. ASSUME NEW s \in SUBSET D, NEW x \in D, s \in T, x \notin s
      PROVE  s \cup {x} \in T
  <2> DEFINE k == Cardinality(In(s))
             l == Cardinality(In(s \cup {x}))
  <2>1. Part(f, s \cup {x}) = f[x] + Part(f, s)
    BY <1>2, PartAdd
  <2>2. Part(h, s \cup {x}) = h[x] + Part(h, s)
    BY <1>0, <1>2, PartAdd
  <2>3. IsFiniteSet(In(s))
    BY FS_Subset
  <2>4. k \in Nat
    BY <2>3, FS_CardinalityType
  <2>5. x \in raised => l = k + 1
    <3>1. SUFFICES ASSUME x \in raised PROVE l = k + 1
      OBVIOUS
    <3>2. In(s \cup {x}) = In(s) \cup {x} /\ x \notin In(s)
      BY <1>2, <3>1
    <3>3. Cardinality(In(s) \cup {x}) = Cardinality(In(s)) + 1
      BY <2>3, <3>2, FS_AddElement, Zenon
    <3>4. QED
      BY <3>2, <3>3
  <2>6. x \notin raised => l = k
    <3>1. SUFFICES ASSUME x \notin raised PROVE l = k
      OBVIOUS
    <3>2. In(s \cup {x}) = In(s)
      BY <3>1
    <3>3. QED
      BY <3>2
  <2>7. Part(h, s) = Part(f, s) + c * k
    BY <1>2
  <2>8. Part(f, s) \in Int /\ f[x] \in Int
    BY PartFacts
  <2>9. Part(h, s \cup {x}) = Part(f, s \cup {x}) + c * l
    <3> HIDE DEF k, l
    <3>1. x \in raised => c * l = c * k + c
      BY <2>4, <2>5
    <3>2. c * k \in Int
      BY <2>4
    <3>3. CASE x \in raised
      BY <1>0, <2>1, <2>2, <2>7, <2>8, <3>1, <3>2, <3>3
    <3>4. CASE x \notin raised
      BY <1>0, <2>1, <2>2, <2>6, <2>7, <2>8, <3>2, <3>4
    <3>5. QED
      BY <3>3, <3>4
  <2>10. QED
    BY <2>9
<1>3. D \in T
  <2> HIDE DEF T
  <2>1. QED
    BY <1>1, <1>2, SetInduction
<1>4. In(D) = raised
  OBVIOUS
<1>5. QED
  BY <1>0, <1>3, <1>4, PartFacts DEF h

(* Rows first or columns first: the sum of a table is the same.            *)
LEMMA SumSwap ==
  ASSUME NEW A, IsFiniteSet(A), NEW B, IsFiniteSet(B), NEW F \in [A -> [B -> Int]]
  PROVE  SumFunction([a \in A |-> SumFunction(F[a])])
           = SumFunction([b \in B |-> SumFunction([a \in A |-> F[a][b]])])
<1> DEFINE rows == [a \in A |-> SumFunction(F[a])]
           column == [b \in B |-> [a \in A |-> F[a][b]]]
           Columns(s) == [b \in B |-> Part(column[b], s)]
           T == {s \in SUBSET A : Part(rows, s) = SumFunction(Columns(s))}
<1>0. /\ rows \in [A -> Int] /\ \A a \in A : rows[a] = SumFunction(F[a])
      /\ \A b \in B : column[b] \in [A -> Int]
      /\ \A b \in B, a \in A : column[b][a] = F[a][b]
  <2>1. \A a \in A : SumFunction(F[a]) \in Int
    BY SumInt
  <2>2. QED
    BY <2>1
<1> HIDE DEF rows, column
<1>1. {} \in T
  <2>1. Part(rows, {}) = 0
    BY <1>0, PartFacts
  <2>2. Columns({}) \in [B -> Int] /\ \A b \in B : Columns({})[b] = 0
    <3>1. \A b \in B : Part(column[b], {}) = 0
      BY <1>0, PartFacts
    <3>2. QED
      BY <3>1
  <2> HIDE DEF Columns
  <2>3. SumFunction(Columns({})) = 0
    BY <2>2, SumZero
  <2>4. QED
    BY <2>1, <2>3
<1>2. ASSUME NEW s \in SUBSET A, NEW x \in A, s \in T, x \notin s
      PROVE  s \cup {x} \in T
  <2>1. Part(rows, s \cup {x}) = rows[x] + Part(rows, s)
    BY SMTT(30), <1>0, <1>2, PartAdd
  <2>2. ASSUME NEW b \in B
        PROVE  /\ Part(column[b], s \cup {x}) = F[x][b] + Part(column[b], s)
               /\ Part(column[b], s) \in Int
    <3>1. column[b] \in [A -> Int] /\ column[b][x] = F[x][b]
      BY <1>0
    <3>2. Part(column[b], s \cup {x}) = column[b][x] + Part(column[b], s)
      BY <1>2, <3>1, PartAdd
    <3>3. Part(column[b], s) \in Int
      BY <3>1, PartFacts
    <3>4. QED
      BY <3>1, <3>2, <3>3
  <2>3. Columns(s) \in [B -> Int] /\ F[x] \in [B -> Int]
    BY <2>2
  <2>4. Columns(s \cup {x}) = [b \in B |-> F[x][b] + Columns(s)[b]]
    BY <2>2
  <2> HIDE DEF Columns
  <2>5. SumFunction(Columns(s \cup {x})) = SumFunction(F[x]) + SumFunction(Columns(s))
    BY <2>3, <2>4, SumPlus
  <2>6. QED
    BY <1>0, <1>2, <2>1, <2>5
<1>3. A \in T
  <2> HIDE DEF T
  <2>1. QED
    BY <1>1, <1>2, SetInduction
<1>4. Columns(A) = [b \in B |-> SumFunction([a \in A |-> F[a][b]])]
  <2>1. \A b \in B : Part(column[b], A) = SumFunction(column[b])
    BY <1>0, PartFacts
  <2>2. QED
    BY <2>1 DEF column
<1>5. QED
  BY <1>0, <1>3, <1>4, PartFacts DEF rows


-----------------------------------------------------------------------------
(***************************************************************************)
(* Sums over an interval of times: what the limiters of the backend   *)
(* count.  A part of a sum is the sum with zeros for the rest (SumClipped),*)
(* so that what is known of sums over one set serves for intervals.        *)
(***************************************************************************)
Between(bag, D, from, to) ==
  SumFunction([t \in {u \in D : from <= u /\ u <= to} |-> bag[t]])

(* A part of a sum is the sum with zeros for the rest.                     *)
LEMMA SumClipped ==
  ASSUME NEW D, IsFiniteSet(D), NEW f \in [D -> Int], NEW s \in SUBSET D,
         NEW h \in [D -> Int], \A x \in s : h[x] = f[x], \A x \in D \ s : h[x] = 0
  PROVE  Part(f, s) = SumFunction(h)
<1> DEFINE T == {r \in SUBSET D : Part(h, r) = Part(f, r \cap s)}
<1>1. {} \in T
  <2>1. {} \cap s = {}
    OBVIOUS
  <2>2. QED
    BY <2>1, PartFacts
<1>2. ASSUME NEW r \in SUBSET D, NEW x \in D, r \in T, x \notin r
      PROVE  r \cup {x} \in T
  <2>1. Part(h, r \cup {x}) = h[x] + Part(h, r)
    BY <1>2, PartAdd
  <2>2. CASE x \in s
    <3>1. (r \cup {x}) \cap s = (r \cap s) \cup {x} /\ x \notin r \cap s
      BY <1>2, <2>2
    <3>2. Part(f, (r \cap s) \cup {x}) = f[x] + Part(f, r \cap s)
      BY <3>1, PartAdd
    <3>3. Part(h, r \cup {x}) = Part(f, (r \cup {x}) \cap s)
      BY <1>2, <2>1, <2>2, <3>1, <3>2
    <3>4. QED
      BY <3>3
  <2>3. CASE x \notin s
    <3>1. (r \cup {x}) \cap s = r \cap s
      BY <2>3
    <3>2. Part(f, r \cap s) \in Int
      BY PartFacts
    <3>3. Part(h, r \cup {x}) = Part(f, (r \cup {x}) \cap s)
      <4>1. h[x] = 0 /\ Part(h, r) = Part(f, r \cap s)
        BY <1>2, <2>3
      <4>2. Part(h, r \cup {x}) = Part(f, r \cap s)
        BY <2>1, <3>2, <4>1
      <4>3. QED
        BY <3>1, <4>2
    <3>4. QED
      BY <3>3
  <2>4. QED
    BY <2>2, <2>3
<1>3. D \in T
  <2> HIDE DEF T
  <2>1. QED
    BY <1>1, <1>2, SetInduction
<1>4. D \cap s = s
  OBVIOUS
<1>5. QED
  BY <1>3, <1>4, PartFacts

Clip(bag, D, from, to) == [t \in D |-> IF from <= t /\ t <= to THEN bag[t] ELSE 0]

(* The sum of an interval is that of the bag clipped to it.                *)
LEMMA BetweenIs ==
  ASSUME NEW D, IsFiniteSet(D), NEW bag \in [D -> Nat], NEW from \in Int, NEW to \in Int
  PROVE  /\ Between(bag, D, from, to) = SumFunction(Clip(bag, D, from, to))
         /\ Clip(bag, D, from, to) \in [D -> Nat]
         /\ Between(bag, D, from, to) \in Nat
<1> DEFINE s == {u \in D : from <= u /\ u <= to}
<1>1. bag \in [D -> Int] /\ s \in SUBSET D
  OBVIOUS
<1>2. Between(bag, D, from, to) = Part(bag, s)
  BY DEF Between, Part
<1>3. Clip(bag, D, from, to) \in [D -> Nat]
  BY DEF Clip
<1>4. Clip(bag, D, from, to) \in [D -> Int]
  BY <1>3
<1>5. Part(bag, s) = SumFunction(Clip(bag, D, from, to))
  <2> DEFINE h == Clip(bag, D, from, to)
  <2>1. (\A t \in s : h[t] = bag[t]) /\ \A t \in D \ s : h[t] = 0
    BY DEF Clip
  <2>2. h \in [D -> Int]
    BY <1>4
  <2> HIDE DEF s, h
  <2>3. Part(bag, s) = SumFunction(h)
    BY <1>1, <2>1, <2>2, SumClipped
  <2>4. QED
    BY <2>3 DEF h
<1>6. SumFunction(Clip(bag, D, from, to)) \in Nat
  BY <1>3, SumNat
<1>7. QED
  BY <1>2, <1>3, <1>5, <1>6

(* An interval has no more in it than one around it, or than one in which  *)
(* the counts are no lower.                                                *)
LEMMA BetweenGrows ==
  ASSUME NEW D, IsFiniteSet(D), NEW bag \in [D -> Nat], NEW from \in Int, NEW to \in Int,
         NEW other \in [D -> Nat], NEW first \in Int, NEW last \in Int,
         \A t \in D : from <= t /\ t <= to =>
           bag[t] = 0 \/ (first <= t /\ t <= last /\ bag[t] <= other[t])
  PROVE  Between(bag, D, from, to) <= Between(other, D, first, last)
<1>1. /\ Between(bag, D, from, to) = SumFunction(Clip(bag, D, from, to))
      /\ Clip(bag, D, from, to) \in [D -> Nat]
  BY BetweenIs
<1>2. /\ Between(other, D, first, last) = SumFunction(Clip(other, D, first, last))
      /\ Clip(other, D, first, last) \in [D -> Nat]
  BY BetweenIs
<1>3. \A t \in D : Clip(bag, D, from, to)[t] <= Clip(other, D, first, last)[t]
  BY DEF Clip
<1>4. Clip(bag, D, from, to) \in [D -> Int] /\ Clip(other, D, first, last) \in [D -> Int]
  BY <1>1, <1>2
<1>5. QED
  BY <1>1, <1>2, <1>3, <1>4, SumCompare

Numbers(D) == D \subseteq Int

(* Two parts of an interval.                                               *)
LEMMA BetweenSplits ==
  ASSUME NEW D, IsFiniteSet(D), Numbers(D), NEW bag \in [D -> Nat],
         NEW from \in Int, NEW to \in Int, NEW middle \in Int, from - 1 <= middle, middle <= to
  PROVE  Between(bag, D, from, to) =
           Between(bag, D, from, middle) + Between(bag, D, middle + 1, to)
<1> DEFINE f == Clip(bag, D, from, middle)
           h == Clip(bag, D, middle + 1, to)
<1>1. Between(bag, D, from, to) = SumFunction(Clip(bag, D, from, to))
  BY BetweenIs
<1>2. Between(bag, D, from, middle) = SumFunction(f) /\ f \in [D -> Nat]
  BY ONLY IsFiniteSet(D), bag \in [D -> Nat], from \in Int, middle \in Int, BetweenIs
<1>3. Between(bag, D, middle + 1, to) = SumFunction(h) /\ h \in [D -> Nat]
  <2>1. middle + 1 \in Int
    OBVIOUS
  <2>2. QED
    BY ONLY IsFiniteSet(D), bag \in [D -> Nat], to \in Int, <2>1, BetweenIs
<1>4. Clip(bag, D, from, to) = [t \in D |-> f[t] + h[t]]
  BY DEF Clip, Numbers
<1> HIDE DEF f, h
<1>5. f \in [D -> Int] /\ h \in [D -> Int]
  BY <1>2, <1>3
<1>6. QED
  <2>1. SumFunction([t \in D |-> f[t] + h[t]]) = SumFunction(f) + SumFunction(h)
    BY <1>5, SumPlus, Zenon
  <2>2. QED
    BY <1>1, <1>2, <1>3, <1>4, <2>1

(* One more at a time is one more in the intervals around it.              *)
LEMMA BetweenRaise ==
  ASSUME NEW D, IsFiniteSet(D), NEW bag \in [D -> Nat],
         NEW from \in Int, NEW to \in Int, NEW x \in D, NEW more \in [D -> Nat],
         \A t \in D \ {x} : more[t] = bag[t], more[x] = bag[x] + 1
  PROVE  Between(more, D, from, to) =
           Between(bag, D, from, to) + (IF from <= x /\ x <= to THEN 1 ELSE 0)
<1> DEFINE f == Clip(bag, D, from, to)
           h == Clip(more, D, from, to)
<1>1. Between(bag, D, from, to) = SumFunction(f) /\ f \in [D -> Nat]
  BY BetweenIs
<1>2. Between(more, D, from, to) = SumFunction(h) /\ h \in [D -> Nat]
  BY BetweenIs
<1>3. \A t \in D \ {x} : h[t] = f[t]
  BY DEF Clip
<1>4. /\ f[x] = IF from <= x /\ x <= to THEN bag[x] ELSE 0
      /\ h[x] = IF from <= x /\ x <= to THEN bag[x] + 1 ELSE 0
  BY DEF Clip
<1> HIDE DEF f, h
<1>5. f \in [D -> Int] /\ h \in [D -> Int]
  BY <1>1, <1>2
<1>6. SumFunction(h) = SumFunction(f) - f[x] + h[x]
  <2>1. \A y \in D \ {x} : h[y] = f[y]
    BY <1>3
  <2>2. QED
    BY <1>5, <2>1, SumChange
<1>7. bag[x] \in Nat /\ SumFunction(f) \in Int
  BY <1>5, SumInt
<1>8. QED
  BY <1>1, <1>2, <1>4, <1>6, <1>7

(* What lies outside is nothing, or there is nothing outside.              *)
LEMMA BetweenAll ==
  ASSUME NEW D, IsFiniteSet(D), NEW bag \in [D -> Nat],
         NEW from \in Int, NEW to \in Int, \A t \in D : from <= t /\ t <= to
  PROVE  Between(bag, D, from, to) = SumFunction(bag)
<1>1. {u \in D : from <= u /\ u <= to} = D
  OBVIOUS
<1>2. [t \in D |-> bag[t]] = bag
  OBVIOUS
<1>3. QED
  BY <1>1, <1>2 DEF Between

(* Where nothing is counted no interval has anything in it.                *)
LEMMA BetweenZero ==
  ASSUME NEW D, IsFiniteSet(D), NEW bag \in [D -> Nat], \A t \in D : bag[t] = 0
  PROVE  \A from, to : Between(bag, D, from, to) = 0
<1> SUFFICES ASSUME NEW from, NEW to PROVE Between(bag, D, from, to) = 0
  OBVIOUS
<1> DEFINE s == {u \in D : from <= u /\ u <= to}
           f == [t \in s |-> bag[t]]
<1>1. IsFiniteSet(s)
  BY FS_Subset
<1>2. f \in [s -> Int] /\ \A t \in s : f[t] = 0
  OBVIOUS
<1> HIDE DEF s
<1>3. SumFunction(f) = 0
  <2> HIDE DEF f
  <2>1. QED
    BY <1>1, <1>2, SumZero
<1>4. QED
  BY <1>3 DEF Between, s

\* counts at the times of D up to now
Counts(bag, D, now) ==
  /\ IsFiniteSet(D) /\ D \subseteq Int /\ now \in D
  /\ bag \in [D -> Nat] /\ \A t \in D : t > now => bag[t] = 0

(* What is not yet has not been counted: an interval has all it will have  *)
(* once it lies in the past.                                               *)
LEMMA BetweenCounts ==
  ASSUME NEW D, NEW bag, NEW now, Counts(bag, D, now)
  PROVE  /\ \A from, to \in Int : Between(bag, D, from, to) \in Nat
         /\ \A from, to, first, last \in Int :
              first <= from /\ (to <= last \/ now <= last) =>
                Between(bag, D, from, to) <= Between(bag, D, first, last)
         /\ \A from, to \in Int : now < from => Between(bag, D, from, to) = 0
         /\ \A from, middle, to \in Int : from - 1 <= middle /\ middle <= to =>
              Between(bag, D, from, to) =
                Between(bag, D, from, middle) + Between(bag, D, middle + 1, to)
<1>0. IsFiniteSet(D) /\ Numbers(D) /\ bag \in [D -> Nat] /\ now \in Int
  BY DEF Counts, Numbers
<1>1. ASSUME NEW from \in Int, NEW to \in Int PROVE Between(bag, D, from, to) \in Nat
  BY <1>0, BetweenIs
<1>2. ASSUME NEW from \in Int, NEW to \in Int, NEW first \in Int, NEW last \in Int,
             first <= from, to <= last \/ now <= last
      PROVE  Between(bag, D, from, to) <= Between(bag, D, first, last)
  <2>1. \A t \in D : from <= t /\ t <= to =>
          bag[t] = 0 \/ (first <= t /\ t <= last /\ bag[t] <= bag[t])
    BY <1>2 DEF Counts
  <2>2. QED
    BY <1>0, <2>1, BetweenGrows
<1>3. ASSUME NEW from \in Int, NEW to \in Int, now < from PROVE Between(bag, D, from, to) = 0
  <2>1. from - 1 \in Int /\ from <= from /\ now <= from - 1
    BY <1>0, <1>3
  <2>2. Between(bag, D, from, to) <= Between(bag, D, from, from - 1)
    BY <1>2, <2>1
  <2>3. Between(bag, D, from, from - 1) = 0
    <3>1. {u \in D : from <= u /\ u <= from - 1} = {}
      <4>1. \A u \in D : u \in Int
        BY <1>0 DEF Numbers
      <4>2. \A u \in D : ~(from <= u /\ u <= from - 1)
        BY <4>1
      <4>3. QED
        BY <4>2
    <3>2. QED
      BY <3>1, SumEmpty DEF Between
  <2>4. QED
    BY SMTT(30), <1>1, <2>2, <2>3
<1>4. ASSUME NEW from \in Int, NEW middle \in Int, NEW to \in Int,
             from - 1 <= middle, middle <= to
      PROVE  Between(bag, D, from, to) =
               Between(bag, D, from, middle) + Between(bag, D, middle + 1, to)
  BY <1>0, <1>4, BetweenSplits
<1>5. QED
  BY <1>1, <1>2, <1>3, <1>4

OneMore(more, bag, x) == more = [bag EXCEPT ![x] = @ + 1]

(* One more now is one more in every interval around now, and in all.      *)
LEMMA BetweenAdmits ==
  ASSUME NEW D, NEW bag, NEW now, Counts(bag, D, now),
         NEW more, OneMore(more, bag, now)
  PROVE  /\ Counts(more, D, now)
         /\ \A t \in D \ {now} : more[t] = bag[t]
         /\ more[now] = bag[now] + 1
         /\ \A from, to \in Int :
              Between(more, D, from, to) =
                Between(bag, D, from, to) + (IF from <= now /\ now <= to THEN 1 ELSE 0)
         /\ SumFunction(more) = SumFunction(bag) + 1
         /\ SumFunction(bag) \in Nat
<1>1. /\ more \in [D -> Nat] /\ bag \in [D -> Nat] /\ now \in D
      /\ \A t \in D \ {now} : more[t] = bag[t]
      /\ more[now] = bag[now] + 1
  BY DEF Counts, OneMore
<1>2. IsFiniteSet(D)
  BY DEF Counts
<1>3. Counts(more, D, now)
  BY <1>1 DEF Counts
<1>4. \A from, to \in Int :
        Between(more, D, from, to) =
          Between(bag, D, from, to) + (IF from <= now /\ now <= to THEN 1 ELSE 0)
  BY <1>1, <1>2, BetweenRaise
<1>5. SumFunction(more) = SumFunction(bag) + 1 /\ SumFunction(bag) \in Nat
  <2>1. bag \in [D -> Int] /\ more \in [D -> Int]
    BY <1>1
  <2>2. SumFunction(more) = SumFunction(bag) - bag[now] + more[now]
    BY <1>1, <1>2, <2>1, SumChange
  <2>3. SumFunction(bag) \in Nat /\ bag[now] \in Nat
    BY <1>1, <1>2, SumNat
  <2>4. QED
    BY <1>1, <2>2, <2>3
<1>6. QED
  BY <1>1, <1>3, <1>4, <1>5
=============================================================================
