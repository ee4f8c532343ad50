-------------------------------- MODULE Sums --------------------------------
(***************************************************************************)
(* What the proofs need to know of SumFunction, the sum of the values of a *)
(* function over a finite set: the empty sum, one more term, equal terms.  *)
(* The sum is a fold in an order that is not specified, so each of these   *)
(* is an induction over finite sets, done on a smallest counterexample.    *)
(***************************************************************************)
EXTENDS Integers, FiniteSets, Functions, FiniteSetTheorems, WellFoundedInduction, TLAPS

(* f is defined on S, with integers for values. *)
IntOn(f, S) == \A x \in S : f[x] \in Int

(* A set of naturals has a least element: what an induction over sizes     *)
(* takes for its smallest counterexample.                                  *)
LEMMA LeastNumber ==
  ASSUME NEW B \in SUBSET Nat, B # {}
  PROVE  \E n \in B : \A m \in B : n <= m
<1>1. \A x, y \in Nat : x < y => <<x, y>> \in OpToRel(<, Nat)
  BY Zenon DEF OpToRel
<1>2. \E R : IsWellFoundedOn(R, Nat) /\ \A x, y \in Nat : x < y => <<x, y>> \in R
  BY <1>1, NatLessThanWellFounded, Zenon
<1>3. PICK R : IsWellFoundedOn(R, Nat) /\ \A x, y \in Nat : x < y => <<x, y>> \in R
  BY <1>2, Zenon
<1>4. IsWellFoundedOn(R, Nat)
  BY <1>3, Zenon
<1>5. \E n \in B : \A m \in B : ~ (<<m, n>> \in R)
  BY <1>4, WFMin, Zenon
<1>6. PICK n \in B : \A m \in B : ~ (<<m, n>> \in R)
  BY <1>5, Zenon
<1>7. \A m \in B : ~ (m < n)
  BY <1>3, <1>6, Zenon
<1> QED
  BY <1>7

(* A set of subsets of a finite set has a minimal element: the smallest    *)
(* counterexample of an induction over finite sets.                        *)
LEMMA LeastSubset ==
  ASSUME NEW S, IsFiniteSet(S), NEW B \in SUBSET SUBSET S, B # {}
  PROVE  \E T \in B : \A U \in SUBSET T : U \in B => U = T
<1> DEFINE R == StrictSubsetOrdering(S)
<1>1. IsWellFoundedOn(R, SUBSET S)
  BY FS_StrictSubsetOrderingWellFounded, FS_FiniteSubsetsOfFinite, Zenon
<1>2. \A T, U \in SUBSET S : U \subseteq T /\ U # T => <<U, T>> \in R
  BY Zenon DEF StrictSubsetOrdering
<1> HIDE DEF R
<1>3. \E T \in B : \A U \in B : ~ (<<U, T>> \in R)
  BY <1>1, WFMin, Zenon
<1> QED
  BY <1>2, <1>3, Zenon

(* The element of s the fold takes first. *)
First(s) == CHOOSE x \in s : TRUE

(* g[s] is what the fold makes of the subset s of S. *)
SumsUp(g, f, S) ==
  g = [s \in SUBSET S |-> IF s = {} THEN 0 ELSE f[First(s)] + g[s \ {First(s)}]]

(* SumFunctionOnSet is the fold of such a function. *)
LEMMA SumUnfolds ==
  ASSUME NEW f, NEW S
  PROVE  SumFunctionOnSet(f, S) = (CHOOSE g : SumsUp(g, f, S))[S]
BY Zenon DEF SumFunctionOnSet, FoldFunctionOnSet, MapThenFoldSet, SumsUp, First

(* The element taken first is one of the set. *)
LEMMA FirstIn == ASSUME NEW s, s # {} PROVE First(s) \in s
BY Zenon DEF First

(* The same, for subsets of at most n elements. *)
SumsUpTo(g, f, S, n) ==
  \A s \in SUBSET S : Cardinality(s) <= n =>
    /\ g[s] \in Int
    /\ g[s] = IF s = {} THEN 0 ELSE f[First(s)] + g[s \ {First(s)}]

(* There is such a function for every size: for the next size, extend the  *)
(* one at hand.                                                            *)
LEMMA SumUpToExists ==
  ASSUME NEW S, IsFiniteSet(S), NEW f, IntOn(f, S), NEW n \in Nat
  PROVE  \E g : SumsUpTo(g, f, S, n)
<1> DEFINE B == {k \in Nat : ~ \E g : SumsUpTo(g, f, S, k)}
<1> SUFFICES ASSUME B # {}
             PROVE  FALSE
  BY Zenon
<1>1. PICK k \in B : \A m \in B : k <= m
  <2> HIDE DEF B
  <2>1. B \in SUBSET Nat
    BY Zenon DEF B
  <2> QED
    BY <2>1, LeastNumber, Zenon
<1>2. \A s \in SUBSET S : IsFiniteSet(s) /\ Cardinality(s) \in Nat /\ (Cardinality(s) = 0 <=> s = {})
  BY FS_Subset, FS_CardinalityType, FS_EmptySet, Zenon
<1>3. CASE k = 0
  <2> DEFINE g == [s \in SUBSET S |-> 0]
  <2>1. SumsUpTo(g, f, S, 0)
    BY <1>2 DEF SumsUpTo
  <2> QED
    BY <1>1, <1>3, <2>1, Zenon
<1>4. CASE k # 0
  <2>1. k - 1 \in Nat /\ k - 1 \notin B
    BY <1>1, <1>4
  <2>2. PICK h : SumsUpTo(h, f, S, k - 1)
    BY <2>1, Zenon
  <2> DEFINE g == [s \in SUBSET S |-> IF Cardinality(s) <= k - 1 THEN h[s]
                                       ELSE f[First(s)] + h[s \ {First(s)}]]
  <2>3. ASSUME NEW s \in SUBSET S, Cardinality(s) <= k
        PROVE  /\ g[s] \in Int
               /\ g[s] = IF s = {} THEN 0 ELSE f[First(s)] + g[s \ {First(s)}]
    <3>1. CASE s = {}
      <4>1. Cardinality(s) <= k - 1
        BY <1>2, <2>1, <3>1
      <4> QED
        BY <2>2, <3>1, <4>1, Zenon DEF SumsUpTo
    <3>2. CASE s # {}
      <4> DEFINE x == First(s)
                 r == s \ {x}
      <4>1. x \in s /\ x \in S /\ f[x] \in Int
        BY <3>2, FirstIn, Zenon DEF IntOn
      <4>2. r \in SUBSET S /\ Cardinality(r) = Cardinality(s) - 1
        BY <1>2, <4>1, FS_RemoveElement, Zenon
      <4> HIDE DEF x, r
      <4>3. Cardinality(r) <= k - 1 /\ g[r] = h[r] /\ h[r] \in Int
        <5>1. Cardinality(r) <= k - 1
          BY <1>2, <2>1, <2>3, <4>2
        <5> QED
          BY <2>2, <4>2, <5>1, Zenon DEF SumsUpTo
      <4>4. CASE Cardinality(s) <= k - 1
        <5>1. g[s] = h[s] /\ h[s] \in Int /\ h[s] = f[x] + h[r]
          BY <2>2, <3>2, <4>4, Zenon DEF SumsUpTo, x, r
        <5> QED
          BY <3>2, <4>3, <5>1, Zenon DEF x, r
      <4>5. CASE ~ (Cardinality(s) <= k - 1)
        <5>1. g[s] = f[x] + h[r]
          BY <4>5, Zenon DEF x, r
        <5> QED
          BY <3>2, <4>1, <4>3, <5>1 DEF x, r
      <4> QED
        BY <4>4, <4>5, Zenon
    <3> QED
      BY <3>1, <3>2, Zenon
  <2> HIDE DEF g
  <2>4. SumsUpTo(g, f, S, k)
    BY <2>3, Zenon DEF SumsUpTo
  <2> QED
    BY <1>1, <2>4, Zenon
<1> QED
  BY <1>3, <1>4, Zenon

(* The equation of the fold at a subset. *)
LEMMA SumStep ==
  ASSUME NEW S, NEW f, NEW g, SumsUp(g, f, S), NEW T \in SUBSET S
  PROVE  g[T] = IF T = {} THEN 0 ELSE f[First(T)] + g[T \ {First(T)}]
BY Zenon DEF SumsUp

(* Two folds agree on a set on which the functions they sum agree. *)
LEMMA SumsAgree ==
  ASSUME NEW S, NEW f, NEW g, SumsUp(g, f, S),
         NEW U, NEW e, NEW h, SumsUp(h, e, U),
         NEW T, IsFiniteSet(T), T \subseteq S, T \subseteq U, \A x \in T : f[x] = e[x]
  PROVE  g[T] = h[T]
<1> DEFINE B == {s \in SUBSET T : g[s] # h[s]}
<1> SUFFICES ASSUME B # {}
             PROVE  FALSE
  BY Zenon
<1>1. PICK s \in B : \A r \in SUBSET s : r \in B => r = s
  <2> HIDE DEF B
  <2>1. B \in SUBSET SUBSET T
    BY Zenon DEF B
  <2> QED
    BY <2>1, LeastSubset
<1>2. s \in SUBSET T /\ s \in SUBSET S /\ s \in SUBSET U /\ g[s] # h[s]
  BY <1>1, Zenon
<1>3. s # {}
  BY <1>2, SumStep
<1> DEFINE x == First(s)
           r == s \ {x}
<1>4. x \in s /\ f[x] = e[x]
  BY <1>2, <1>3, FirstIn, Zenon
<1>5. g[s] = f[x] + g[r] /\ h[s] = e[x] + h[r]
  <2>1. g[s] = IF s = {} THEN 0 ELSE f[First(s)] + g[s \ {First(s)}]
    BY <1>2, Zenon DEF SumsUp
  <2>2. h[s] = IF s = {} THEN 0 ELSE e[First(s)] + h[s \ {First(s)}]
    BY <1>2, Zenon DEF SumsUp
  <2> QED
    BY <1>3, <2>1, <2>2, Zenon
<1>6. g[r] = h[r]
  <2>1. r \in SUBSET s /\ r # s /\ r \in SUBSET T
    BY <1>2, <1>4, Zenon
  <2> QED
    BY <1>1, <2>1, Zenon
<1> QED
  BY <1>2, <1>4, <1>5, <1>6, Zenon

(* Over a finite set the fold is well defined, and an integer. *)
LEMMA SumExists ==
  ASSUME NEW S, IsFiniteSet(S), NEW f, IntOn(f, S)
  PROVE  \E g \in [SUBSET S -> Int] : SumsUp(g, f, S) /\ SumFunctionOnSet(f, S) = g[S]
<1>1. Cardinality(S) \in Nat /\ \A s \in SUBSET S : Cardinality(s) <= Cardinality(S)
  BY FS_Subset, FS_CardinalityType, Zenon
<1>2. PICK h : SumsUpTo(h, f, S, Cardinality(S))
  BY <1>1, SumUpToExists, Zenon
<1> DEFINE g == [s \in SUBSET S |-> h[s]]
<1>3. ASSUME NEW s \in SUBSET S
      PROVE  g[s] \in Int /\ g[s] = IF s = {} THEN 0 ELSE f[First(s)] + g[s \ {First(s)}]
  BY <1>1, <1>2, Zenon DEF SumsUpTo
<1>4. g = [s \in SUBSET S |-> IF s = {} THEN 0 ELSE f[First(s)] + g[s \ {First(s)}]]
  BY <1>3, Zenon
<1>5. SumsUp(g, f, S) /\ g \in [SUBSET S -> Int]
  BY <1>3, <1>4, Zenon DEF SumsUp
<1> HIDE DEF g
<1>6. \E q : SumsUp(q, f, S) /\ SumFunctionOnSet(f, S) = q[S]
  BY <1>5, SumUnfolds, Zenon
<1>7. PICK q : SumsUp(q, f, S) /\ SumFunctionOnSet(f, S) = q[S]
  BY <1>6, Zenon
<1>8. q[S] = g[S]
  BY <1>5, <1>7, SumsAgree
<1> QED
  BY <1>5, <1>7, <1>8, Zenon

(* Any element may be taken first. *)
AnyOrder(g, f, S) == \A x \in S : g[S] = f[x] + g[S \ {x}]

(* The order in which the fold takes the elements does not matter. *)
LEMMA SumAnyOrder ==
  ASSUME NEW S, IsFiniteSet(S), NEW f, NEW g \in [SUBSET S -> Int], SumsUp(g, f, S),
         IntOn(f, S)
  PROVE  AnyOrder(g, f, S)
<1> DEFINE B == {s \in SUBSET S : \E y \in s : g[s] # f[y] + g[s \ {y}]}
<1> SUFFICES ASSUME B # {}
             PROVE  FALSE
  BY Zenon DEF AnyOrder
<1>1. PICK s \in B : \A r \in SUBSET s : r \in B => r = s
  <2> HIDE DEF B
  <2>1. B \in SUBSET SUBSET S
    BY Zenon DEF B
  <2> QED
    BY <2>1, LeastSubset
<1>2. PICK y \in s : g[s] # f[y] + g[s \ {y}]
  BY <1>1, Zenon
<1> DEFINE p == First(s)
           rest == (s \ {p}) \ {y}
<1>3. s \in SUBSET S /\ p \in s
  BY <1>1, <1>2, FirstIn, Zenon
<1>4. g[s] = f[p] + g[s \ {p}]
  BY <1>2, <1>3, SumStep
<1>5. y # p
  BY <1>2, <1>4, Zenon
<1>6. rest = (s \ {y}) \ {p} /\ rest \in SUBSET S
  BY <1>3, Zenon
<1>7. g[s \ {p}] = f[y] + g[rest]
  <2>1. s \ {p} \in SUBSET s /\ s \ {p} # s /\ y \in s \ {p} /\ s \ {p} \in SUBSET S
    BY <1>2, <1>3, <1>5, Zenon
  <2>2. s \ {p} \notin B
    BY <1>1, <2>1, Zenon
  <2> QED
    BY <2>1, <2>2, Zenon
<1>8. g[s \ {y}] = f[p] + g[rest]
  <2>1. s \ {y} \in SUBSET s /\ s \ {y} # s /\ p \in s \ {y} /\ s \ {y} \in SUBSET S
    BY <1>2, <1>3, <1>5, Zenon
  <2>2. s \ {y} \notin B
    BY <1>1, <2>1, Zenon
  <2> QED
    BY <1>6, <2>1, <2>2, Zenon
<1>9. f[p] \in Int /\ f[y] \in Int /\ g[rest] \in Int
  BY <1>2, <1>3, <1>6, Zenon DEF IntOn
<1> QED
  BY <1>2, <1>4, <1>7, <1>8, <1>9

(* An empty sum is 0. *)
LEMMA SumEmpty == ASSUME NEW f, DOMAIN f = {} PROVE SumFunction(f) = 0
<1>1. IsFiniteSet({}) /\ IntOn(f, {})
  BY FS_EmptySet, Zenon DEF IntOn
<1>2. PICK g \in [SUBSET {} -> Int] : SumsUp(g, f, {}) /\ SumFunctionOnSet(f, {}) = g[{}]
  BY <1>1, SumExists, Zenon
<1>3. g[{}] = 0
  BY <1>2, Zenon DEF SumsUp
<1> QED
  BY <1>2, <1>3, Zenon DEF SumFunction

(* A finite sum of integers is an integer. *)
LEMMA SumType ==
  ASSUME NEW f, IsFiniteSet(DOMAIN f), IntOn(f, DOMAIN f)
  PROVE  SumFunction(f) \in Int
<1> DEFINE S == DOMAIN f
<1>1. PICK g \in [SUBSET S -> Int] : SumsUp(g, f, S) /\ SumFunctionOnSet(f, S) = g[S]
  BY SumExists, Zenon
<1> QED
  BY <1>1, Zenon DEF SumFunction

(* The sum is determined by the terms. *)
LEMMA SumSame ==
  ASSUME NEW f, IsFiniteSet(DOMAIN f), IntOn(f, DOMAIN f),
         NEW e, DOMAIN e = DOMAIN f, \A x \in DOMAIN f : e[x] = f[x]
  PROVE  SumFunction(e) = SumFunction(f)
<1> DEFINE S == DOMAIN f
<1>1. PICK g \in [SUBSET S -> Int] : SumsUp(g, f, S) /\ SumFunctionOnSet(f, S) = g[S]
  BY SumExists, Zenon
<1>2. IntOn(e, S)
  BY Zenon DEF IntOn
<1>3. PICK h \in [SUBSET S -> Int] : SumsUp(h, e, S) /\ SumFunctionOnSet(e, S) = h[S]
  BY <1>2, SumExists, Zenon
<1>4. g[S] = h[S]
  BY <1>1, <1>3, SumsAgree
<1> QED
  BY <1>1, <1>3, <1>4, Zenon DEF SumFunction

(* One more term is added to the sum. *)
LEMMA SumAdd ==
  ASSUME NEW f, IsFiniteSet(DOMAIN f), IntOn(f, DOMAIN f),
         NEW y, y \notin DOMAIN f, NEW e, DOMAIN e = DOMAIN f \cup {y},
         e[y] \in Int, \A x \in DOMAIN f : e[x] = f[x]
  PROVE  SumFunction(e) = SumFunction(f) + e[y]
<1> DEFINE S == DOMAIN f
           T == DOMAIN e
<1>1. PICK g \in [SUBSET S -> Int] : SumsUp(g, f, S) /\ SumFunctionOnSet(f, S) = g[S]
  BY SumExists, Zenon
<1>a. IsFiniteSet(S \cup {y})
  BY FS_AddElement, Zenon
<1>2. IsFiniteSet(T) /\ y \in T /\ T \ {y} = S
  BY <1>a, Zenon
<1>3. IntOn(e, T)
  BY Zenon DEF IntOn
<1>4. PICK h \in [SUBSET T -> Int] : SumsUp(h, e, T) /\ SumFunctionOnSet(e, T) = h[T]
  BY <1>2, <1>3, SumExists, Zenon
<1>5. g[S] = h[S]
  BY <1>1, <1>4, SumsAgree
<1>6. SumsUp(h, e, T)
  BY <1>4, Zenon
<1>7. AnyOrder(h, e, T)
  BY <1>2, <1>3, <1>6, SumAnyOrder, Zenon
<1>8. h[T] = e[y] + h[S]
  BY <1>2, <1>7, Zenon DEF AnyOrder
<1>9. g[S] \in Int
  BY <1>1, Zenon
<1> QED
  BY <1>1, <1>4, <1>5, <1>8, <1>9 DEF SumFunction

(* A term is taken out of the sum. *)
LEMMA SumRemove ==
  ASSUME NEW f, IsFiniteSet(DOMAIN f), IntOn(f, DOMAIN f),
         NEW y \in DOMAIN f, NEW e, DOMAIN e = DOMAIN f \ {y},
         \A x \in DOMAIN e : e[x] = f[x]
  PROVE  SumFunction(e) = SumFunction(f) - f[y]
<1>1. IsFiniteSet(DOMAIN e) /\ DOMAIN f = DOMAIN e \cup {y} /\ y \notin DOMAIN e
  BY FS_RemoveElement, Zenon
<1>2. IntOn(e, DOMAIN e) /\ f[y] \in Int
  BY <1>1, Zenon DEF IntOn
<1>3. SumFunction(f) = SumFunction(e) + f[y]
  BY <1>1, <1>2, SumAdd, Zenon
<1>4. SumFunction(e) \in Int
  BY <1>1, <1>2, SumType, Zenon
<1> QED
  BY <1>2, <1>3, <1>4

(* The sum when one of the values changes. *)
LEMMA SumChange ==
  ASSUME NEW f, IsFiniteSet(DOMAIN f), IntOn(f, DOMAIN f),
         NEW y \in DOMAIN f, NEW e, DOMAIN e = DOMAIN f, e[y] \in Int,
         \A x \in DOMAIN f \ {y} : e[x] = f[x]
  PROVE  SumFunction(e) = SumFunction(f) - f[y] + e[y]
<1> DEFINE S == DOMAIN f \ {y}
           g == [x \in S |-> f[x]]
<1>1. IsFiniteSet(S) /\ DOMAIN g = S /\ y \notin S /\ DOMAIN e = S \cup {y}
  BY FS_RemoveElement, Zenon
<1>2. IntOn(g, S) /\ f[y] \in Int
  BY Zenon DEF IntOn
<1>3. (\A x \in S : g[x] = f[x]) /\ (\A x \in S : e[x] = g[x])
  BY Zenon
<1> HIDE DEF S, g
<1>4. SumFunction(g) = SumFunction(f) - f[y]
  <2>1. DOMAIN g = DOMAIN f \ {y} /\ \A x \in DOMAIN g : g[x] = f[x]
    BY <1>1, <1>3, Zenon DEF S
  <2> QED
    BY <2>1, SumRemove, Zenon
<1>5. SumFunction(e) = SumFunction(g) + e[y]
  BY <1>1, <1>2, <1>3, SumAdd
<1> QED
  BY <1>4, <1>5, Zenon

(* As many terms of at least, or at most, b sum to at least, or at most,   *)
(* that multiple of b.                                                     *)
LEMMA SumBounds ==
  ASSUME NEW f, IsFiniteSet(DOMAIN f), IntOn(f, DOMAIN f), NEW b \in Int
  PROVE  /\ (\A x \in DOMAIN f : f[x] >= b) => SumFunction(f) >= b * Cardinality(DOMAIN f)
         /\ (\A x \in DOMAIN f : f[x] <= b) => SumFunction(f) <= b * Cardinality(DOMAIN f)
<1> DEFINE On(T) == [x \in T |-> f[x]]
           Bounded(T) == /\ (\A x \in T : f[x] >= b) => SumFunction(On(T)) >= b * Cardinality(T)
                         /\ (\A x \in T : f[x] <= b) => SumFunction(On(T)) <= b * Cardinality(T)
           B == {T \in SUBSET DOMAIN f : ~ Bounded(T)}
<1>1. ASSUME B # {} PROVE FALSE
  <2>1. PICK T \in B : \A U \in SUBSET T : U \in B => U = T
    <3> HIDE DEF B
    <3>1. B \in SUBSET SUBSET DOMAIN f
      BY Zenon DEF B
    <3> QED
      BY <1>1, <3>1, LeastSubset
  <2>2. T \in SUBSET DOMAIN f /\ ~ Bounded(T) /\ IsFiniteSet(T)
    BY <2>1, FS_Subset, Zenon
  <2>3. CASE T = {}
    <3>1. SumFunction(On(T)) = 0 /\ Cardinality(T) = 0
      BY <2>3, SumEmpty, FS_EmptySet, Zenon
    <3>2. b * 0 = 0
      OBVIOUS
    <3> QED
      BY <2>2, <3>1, <3>2
  <2>4. CASE T # {}
    <3>1. PICK y : y \in T
      BY <2>4, Zenon
    <3> DEFINE U == T \ {y}
    <3>2. U \in SUBSET T /\ U # T /\ Bounded(U)
      BY <2>1, <2>2, <3>1
    <3>3. IsFiniteSet(U) /\ Cardinality(U) = Cardinality(T) - 1 /\ Cardinality(T) \in Nat
      BY <2>2, <3>1, FS_RemoveElement, FS_CardinalityType, Zenon
    <3>4. /\ DOMAIN On(T) = T /\ DOMAIN On(U) = T \ {y} /\ \A x \in T : On(T)[x] = f[x]
          /\ \A x \in T \ {y} : On(U)[x] = f[x]
      BY Zenon
    <3>5. f[y] \in Int /\ \A x \in T : f[x] \in Int
      BY <2>2, <3>1, Zenon DEF IntOn
    <3>6. PICK e, g : e = On(T) /\ g = On(U)
      BY Zenon
    <3>7. /\ IsFiniteSet(DOMAIN e) /\ IntOn(e, DOMAIN e) /\ y \in DOMAIN e /\ e[y] = f[y]
          /\ DOMAIN g = DOMAIN e \ {y} /\ \A x \in DOMAIN g : g[x] = e[x]
      BY <2>2, <3>1, <3>4, <3>5, <3>6, Zenon DEF IntOn
    <3>8. SumFunction(g) = SumFunction(e) - e[y] /\ SumFunction(e) \in Int
      BY <3>7, SumRemove, SumType, Zenon
    <3>9. PICK n \in Int : n = Cardinality(U)
      BY <3>3
    <3>10. PICK s, d \in Int : s = SumFunction(e) /\ d = f[y]
      BY <3>5, <3>8, Zenon
    <3>11. SumFunction(On(U)) = s - d /\ SumFunction(On(T)) = s /\ Cardinality(T) = n + 1
      BY <3>3, <3>6, <3>7, <3>8, <3>9, <3>10
    <3>12. b * (n + 1) = b * n + b /\ b * n \in Int
      OBVIOUS
    <3>13. /\ (\A x \in U : f[x] >= b) => s - d >= b * n
           /\ (\A x \in U : f[x] <= b) => s - d <= b * n
      BY <3>2, <3>9, <3>11, Zenon
    <3>14. /\ (\A x \in T : f[x] >= b) => s >= b * n + b
           /\ (\A x \in T : f[x] <= b) => s <= b * n + b
      BY <3>1, <3>10, <3>12, <3>13
    <3> QED
      BY <2>2, <3>11, <3>12, <3>14, Zenon
  <2> QED
    BY <2>3, <2>4, Zenon
<1>2. Bounded(DOMAIN f)
  BY <1>1, Zenon
<1>3. SumFunction(On(DOMAIN f)) = SumFunction(f)
  <2>1. PICK e : e = On(DOMAIN f)
    BY Zenon
  <2>2. DOMAIN e = DOMAIN f /\ \A x \in DOMAIN f : e[x] = f[x]
    BY <2>1, Zenon
  <2> QED
    BY <2>1, <2>2, SumSame, Zenon
<1> QED
  BY <1>2, <1>3, Zenon

(* Indices that move down by one are as finite as they were. *)
LEMMA DownFinite ==
  ASSUME NEW S, IsFiniteSet(S)
  PROVE  IsFiniteSet({i - 1 : i \in S})
<1> DEFINE T == {i - 1 : i \in S}
           g == [i \in S |-> i - 1]
<1>1. g \in [S -> T] /\ \A t \in T : \E i \in S : g[i] = t
  BY Zenon
<1>2. g \in Surjection(S, T)
  BY <1>1, Zenon DEF Surjection
<1> HIDE DEF T, g
<1>3. IsFiniteSet(T)
  BY <1>2, FS_Surjection, Zenon
<1> QED
  BY <1>3, Zenon DEF T

(* Terms that move down by one index have the same sum: how the legs of a  *)
(* plan add up once the first was taken off.                               *)
LEMMA SumShift ==
  ASSUME NEW f, IsFiniteSet(DOMAIN f), DOMAIN f \subseteq Nat, IntOn(f, DOMAIN f),
         NEW e, DOMAIN e = {i - 1 : i \in DOMAIN f}, \A i \in DOMAIN f : e[i - 1] = f[i]
  PROVE  SumFunction(e) = SumFunction(f)
<1> DEFINE Down(T) == {i - 1 : i \in T}
           On(T) == [i \in T |-> f[i]]
           Off(T) == [i \in Down(T) |-> f[i + 1]]
           B == {T \in SUBSET DOMAIN f : SumFunction(Off(T)) # SumFunction(On(T))}
<1>1. ASSUME B # {} PROVE FALSE
  <2>1. PICK T \in B : \A U \in SUBSET T : U \in B => U = T
    <3> HIDE DEF B
    <3>1. B \in SUBSET SUBSET DOMAIN f
      BY Zenon DEF B
    <3> QED
      BY <1>1, <3>1, LeastSubset
  <2>2. T \in SUBSET DOMAIN f /\ SumFunction(Off(T)) # SumFunction(On(T)) /\ IsFiniteSet(T)
    BY <2>1, FS_Subset, Zenon
  <2>3. CASE T = {}
    BY <2>2, <2>3, SumEmpty, Zenon
  <2>4. CASE T # {}
    <3>1. PICK y : y \in T
      BY <2>4, Zenon
    <3> DEFINE U == T \ {y}
    <3>2. SumFunction(Off(U)) = SumFunction(On(U)) /\ IsFiniteSet(U)
      BY <2>1, <2>2, <3>1, FS_Subset
    <3>3. PICK a, b, c, d : a = On(U) /\ b = On(T) /\ c = Off(U) /\ d = Off(T)
      BY Zenon
    <3>4. /\ DOMAIN a = T \ {y} /\ DOMAIN b = T /\ y \in Int
          /\ \A i \in T : f[i] \in Int /\ i \in Int
          /\ \A i \in T \ {y} : a[i] = f[i]
          /\ \A i \in T : b[i] = f[i]
      BY <2>2, <3>1, <3>3 DEF IntOn
    <3>5. /\ DOMAIN c = Down(U) /\ DOMAIN d = Down(U) \cup {y - 1} /\ y - 1 \notin Down(U)
          /\ d[y - 1] = f[y]
          /\ \A j \in Down(U) : c[j] \in Int /\ d[j] = c[j]
      BY <3>1, <3>3, <3>4
    <3>6. IsFiniteSet(Down(U))
      BY <3>2, DownFinite, Zenon
    <3>7. SumFunction(b) = SumFunction(a) + f[y]
      <4>1. /\ IsFiniteSet(DOMAIN a) /\ IntOn(a, DOMAIN a) /\ y \notin DOMAIN a
            /\ DOMAIN b = DOMAIN a \cup {y} /\ b[y] \in Int /\ \A i \in DOMAIN a : b[i] = a[i]
        BY <3>1, <3>2, <3>4, Zenon DEF IntOn
      <4>2. SumFunction(b) = SumFunction(a) + b[y]
        BY <4>1, SumAdd, ZenonT(30)
      <4> QED
        BY <3>1, <3>4, <4>2, Zenon
    <3>8. SumFunction(d) = SumFunction(c) + f[y]
      <4>1. PICK z : z = y - 1
        BY Zenon
      <4>2. /\ IsFiniteSet(DOMAIN c) /\ IntOn(c, DOMAIN c) /\ z \notin DOMAIN c
            /\ DOMAIN d = DOMAIN c \cup {z} /\ d[z] \in Int /\ \A i \in DOMAIN c : d[i] = c[i]
            /\ d[z] = f[y]
        BY <3>1, <3>4, <3>5, <3>6, <4>1, Zenon DEF IntOn
      <4> QED
        BY <4>2, SumAdd, SMTT(30)
    <3> QED
      BY <2>2, <3>2, <3>3, <3>7, <3>8, Zenon
  <2> QED
    BY <2>3, <2>4, Zenon
<1>2. SumFunction(Off(DOMAIN f)) = SumFunction(On(DOMAIN f))
  BY <1>1, Zenon
<1>3. IsFiniteSet(Down(DOMAIN f))
  BY DownFinite, Zenon
<1>4. PICK a, b : a = On(DOMAIN f) /\ b = Off(DOMAIN f)
  BY Zenon
<1>5. /\ DOMAIN a = DOMAIN f /\ \A i \in DOMAIN f : a[i] = f[i]
      /\ DOMAIN b = DOMAIN e /\ \A i \in DOMAIN e : b[i] = e[i] /\ e[i] \in Int
  BY <1>4 DEF IntOn
<1>6. SumFunction(a) = SumFunction(f)
  BY <1>5, SumSame, Zenon
<1>7. SumFunction(b) = SumFunction(e)
  BY <1>3, <1>5, SumSame, Zenon DEF IntOn
<1> QED
  BY <1>2, <1>4, <1>6, <1>7, Zenon
=============================================================================
