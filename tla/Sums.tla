--------------------------------- MODULE Sums ---------------------------------
(***************************************************************************)
(* Induction over numbers and finite sets, in the form the provers can     *)
(* use, and from it: that what is put in a row has a place each, and what  *)
(* the sums of the models (SumFunction of the community modules, a fold in *)
(* an unspecified order) depend on, nothing but the values that are added. *)
(***************************************************************************)
EXTENDS Integers, FiniteSets, Functions, FiniteSetTheorems, TLAPS

-----------------------------------------------------------------------------
(* Induction, with a set in the place of the property. *)

\* A set of numbers that is not empty has a least one.
LEMMA LeastNumber == ASSUME NEW T \in SUBSET Nat, T # {} PROVE \E x \in T : \A y \in T : x <= y
  <1> DEFINE R == OpToRel(<, Nat)
  <1>1. IsWellFoundedOn(R, Nat)
    BY NatLessThanWellFounded
  <1>2. \A x, y \in Nat : <<x, y>> \in R <=> x < y
    BY DEF OpToRel
  <1> HIDE DEF R
  <1>3. PICK x \in T : \A y \in T : ~(<<y, x>> \in R)
    BY <1>1, WFMin
  <1>4. ASSUME NEW y \in T PROVE x <= y
    <2>1. x \in Nat /\ y \in Nat /\ ~(<<y, x>> \in R)
      BY <1>3
    <2>2. ~(y < x)
      BY <1>2, <2>1
    <2> QED BY <2>1, <2>2
  <1> QED BY <1>4

\* What holds of 0, and of n + 1 whenever of n, holds of every number.
LEMMA NatInduct == ASSUME NEW S, 0 \in S, \A n \in Nat : n \in S => n + 1 \in S PROVE Nat \subseteq S
  <1> SUFFICES ASSUME Nat \ S # {} PROVE FALSE
    OBVIOUS
  <1>1. PICK x \in Nat \ S : \A y \in Nat \ S : x <= y
    BY LeastNumber
  <1>2. x # 0 /\ x - 1 \in Nat /\ x - 1 \notin Nat \ S
    BY <1>1
  <1> QED BY <1>1, <1>2

\* What holds of the empty set, and of T with x whenever of T, holds of a finite set.
LEMMA SetInduct ==
  ASSUME NEW S, IsFiniteSet(S), NEW H, {} \in H,
         \A T \in SUBSET S : \A x \in S \ T : T \in H => T \cup {x} \in H
  PROVE  S \in H
  <1> DEFINE N == {n \in Nat : \A T \in SUBSET S : Cardinality(T) = n => T \in H}
  <1>1. \A T \in SUBSET S : IsFiniteSet(T) /\ Cardinality(T) \in Nat
    BY FS_Subset, FS_CardinalityType
  <1>2. 0 \in N
    BY <1>1, FS_EmptySet
  <1>3. ASSUME NEW n \in Nat, n \in N PROVE n + 1 \in N
    <2> SUFFICES ASSUME NEW T \in SUBSET S, Cardinality(T) = n + 1 PROVE T \in H
      OBVIOUS
    <2>1. T # {}
      <3>1. Cardinality({}) = 0
        BY FS_EmptySet
      <3>2. Cardinality(T) # 0
        BY <1>3
      <3> QED BY <3>1, <3>2
    <2>2. PICK x \in T : TRUE
      BY <2>1
    <2>3. Cardinality(T \ {x}) = n
      <3>1. IsFiniteSet(T)
        BY <1>1
      <3>2. Cardinality(T \ {x}) = Cardinality(T) - 1
        BY <2>2, <3>1, FS_RemoveElement
      <3> QED BY <3>2
    <2>4. T \ {x} \in H
      BY <1>3, <2>3
    <2>5. x \in S \ (T \ {x}) /\ (T \ {x}) \cup {x} = T
      OBVIOUS
    <2> QED BY <2>4, <2>5
  <1> HIDE DEF N
  <1>4. Nat \subseteq N
    BY <1>2, <1>3, NatInduct
  <1> QED BY <1>1, <1>4 DEF N

-----------------------------------------------------------------------------
(* Recursion. *)

\* What is made from a start in n steps.
Runs(n, T, a, G) == {f \in [0..n -> T] : f[0] = a /\ \A i \in 1..n : f[i] = G[<<i, f[i - 1]>>]}

LEMMA Recursion ==
  ASSUME NEW n \in Nat, NEW T, NEW a \in T, NEW G \in [(1..n) \X T -> T]
  PROVE  Runs(n, T, a, G) # {}
<1> DEFINE Made(f, m) == f \in [0..m -> T] /\ f[0] = a /\ \A i \in 1..m : f[i] = G[<<i, f[i - 1]>>]
           H == {m \in Nat : m <= n => \E f : Made(f, m)}
<1>1. 0 \in H
  <2>1. PICK f : f = [i \in 0..0 |-> a] OBVIOUS
  <2>2. Made(f, 0) BY <2>1
  <2> QED BY <2>2
<1>2. ASSUME NEW m \in Nat, m \in H PROVE m + 1 \in H
  <2> SUFFICES ASSUME m + 1 <= n PROVE \E f : Made(f, m + 1) OBVIOUS
  <2>1. PICK g : Made(g, m) BY <1>2
  <2>2. PICK f : f = [i \in 0..(m + 1) |-> IF i = m + 1 THEN G[<<m + 1, g[m]>>] ELSE g[i]] OBVIOUS
  <2>3. m + 1 \in 1..n /\ m \in 0..m /\ 0 \in 0..(m + 1) /\ 0 # m + 1 OBVIOUS
  <2>4. G[<<m + 1, g[m]>>] \in T BY <2>1, <2>3
  <2>5. \A i \in 0..m : i \in 0..(m + 1) /\ i # m + 1 /\ f[i] = g[i] BY <2>2
  <2>6. f \in [0..(m + 1) -> T]
    <3>1. \A i \in 0..(m + 1) : i = m + 1 \/ i \in 0..m OBVIOUS
    <3> QED BY <2>1, <2>2, <2>4, <3>1
  <2>7. f[0] = a BY <2>1, <2>5
  <2>8. ASSUME NEW i \in 1..(m + 1) PROVE f[i] = G[<<i, f[i - 1]>>]
    <3>1. CASE i = m + 1
      <4>1. i - 1 = m /\ i \in 0..(m + 1) BY <3>1
      <4>2. f[i - 1] = g[m] BY <2>3, <2>5, <4>1
      <4> QED BY <2>2, <3>1, <4>1, <4>2
    <3>2. CASE i # m + 1
      <4>1. i \in 1..m /\ i \in 0..m /\ i - 1 \in 0..m BY <3>2
      <4>2. f[i] = g[i] /\ f[i - 1] = g[i - 1] BY <2>5, <4>1
      <4> QED BY <2>1, <4>1, <4>2
    <3> QED BY <3>1, <3>2
  <2> QED BY <2>6, <2>7, <2>8
<1> HIDE DEF H
<1>3. n \in H BY <1>1, <1>2, NatInduct
<1>4. \E f : Made(f, n) BY <1>3 DEF H
<1> QED BY <1>4 DEF Runs

\* What is made step by step, for ever.
LEMMA Iteration ==
  ASSUME NEW T, NEW a \in T, NEW G \in [T -> T]
  PROVE  \E f \in [Nat -> T] : f[0] = a /\ \A n \in Nat : f[n + 1] = G[f[n]]
<1> DEFINE Step(n) == [x \in (1..n) \X T |-> G[x[2]]]
           First(n) == CHOOSE g : g \in Runs(n, T, a, Step(n))
           Run(g, n) == g \in [0..n -> T] /\ g[0] = a /\ \A i \in 1..n : g[i] = G[g[i - 1]]
<1>1. ASSUME NEW n \in Nat PROVE Run(First(n), n)
  <2>1. Step(n) \in [(1..n) \X T -> T] OBVIOUS
  <2>2. PICK g : g = First(n) OBVIOUS
  <2>3. g \in Runs(n, T, a, Step(n))
    <3> HIDE DEF Step
    <3>1. Runs(n, T, a, Step(n)) # {} BY <2>1, Recursion
    <3> QED BY <2>2, <3>1
  <2>4. g \in [0..n -> T] /\ g[0] = a /\ \A i \in 1..n : g[i] = Step(n)[<<i, g[i - 1]>>] BY <2>3 DEF Runs
  <2>5. ASSUME NEW i \in 1..n PROVE g[i] = G[g[i - 1]]
    <3>1. i - 1 \in 0..n OBVIOUS
    <3>2. <<i, g[i - 1]>> \in (1..n) \X T BY <2>4, <3>1
    <3>3. Step(n)[<<i, g[i - 1]>>] = G[g[i - 1]] BY <3>2
    <3> QED BY <2>4, <3>3
  <2> QED BY <2>2, <2>4, <2>5
<1> HIDE DEF First
<1>2. ASSUME NEW g, NEW h, NEW m \in Nat, NEW l \in Nat, Run(g, m), Run(h, l), m <= l PROVE g[m] = h[m]
  <2> DEFINE H == {i \in Nat : i <= m => g[i] = h[i]}
  <2>1. 0 \in H BY <1>2
  <2>2. ASSUME NEW i \in Nat, i \in H PROVE i + 1 \in H
    <3> SUFFICES ASSUME i + 1 <= m PROVE g[i + 1] = h[i + 1] OBVIOUS
    <3>1. i + 1 \in 1..m /\ i + 1 \in 1..l /\ (i + 1) - 1 = i /\ i <= m BY <1>2
    <3>2. g[i] = h[i] BY <2>2, <3>1
    <3>3. g[i + 1] = G[g[(i + 1) - 1]] /\ h[i + 1] = G[h[(i + 1) - 1]] BY <1>2, <3>1
    <3> QED BY <3>1, <3>2, <3>3
  <2> HIDE DEF H
  <2>3. Nat \subseteq H BY <2>1, <2>2, NatInduct
  <2> QED BY <2>3 DEF H
<1>3. PICK f : f = [n \in Nat |-> First(n)[n]] OBVIOUS
<1>4. ASSUME NEW n \in Nat PROVE f[n] \in T /\ f[n + 1] = G[f[n]]
  <2>1. Run(First(n), n) /\ Run(First(n + 1), n + 1) BY <1>1
  <2>2. First(n)[n] \in T BY <2>1
  <2>3. First(n)[n] = First(n + 1)[n]
    <3>1. n <= n + 1 /\ n + 1 \in Nat OBVIOUS
    <3> HIDE DEF Run
    <3> QED BY <1>2, <2>1, <3>1
  <2>4. First(n + 1)[n + 1] = G[First(n + 1)[n]]
    <3>1. n + 1 \in 1..(n + 1) /\ (n + 1) - 1 = n OBVIOUS
    <3> QED BY <2>1, <3>1
  <2> QED BY <1>3, <2>2, <2>3, <2>4
<1>5. f \in [Nat -> T] BY <1>3, <1>4
<1>6. f[0] = a
  <2>1. Run(First(0), 0) BY <1>1
  <2> QED BY <1>3, <2>1
<1> QED BY <1>4, <1>5, <1>6

-----------------------------------------------------------------------------
(* Rows. *)

\* R puts the elements of S in a row.
Orders(R, S) ==
  /\ \A x \in S : <<x, x>> \notin R
  /\ \A x, y \in S : x # y => <<x, y>> \in R \/ <<y, x>> \in R
  /\ \A x, y, z \in S : <<x, y>> \in R /\ <<y, z>> \in R => <<x, z>> \in R
Before(x, R, S) == {y \in S : <<y, x>> \in R}

\* One of them comes first.
LEMMA FirstInARow ==
  ASSUME NEW S, IsFiniteSet(S), S # {}, NEW R, Orders(R, S)
  PROVE  \E x \in S : \A y \in S \ {x} : <<x, y>> \in R
<1> DEFINE H == {T \in SUBSET S : T # {} => \E x \in T : \A y \in T \ {x} : <<x, y>> \in R}
<1>1. {} \in H OBVIOUS
<1>2. ASSUME NEW T \in SUBSET S, NEW x \in S \ T, T \in H PROVE T \cup {x} \in H
  <2> SUFFICES \E z \in T \cup {x} : \A y \in (T \cup {x}) \ {z} : <<z, y>> \in R OBVIOUS
  <2>1. CASE T = {} BY <2>1
  <2>2. CASE T # {}
    <3>1. PICK z \in T : \A y \in T \ {z} : <<z, y>> \in R BY <1>2, <2>2
    <3>2. CASE <<z, x>> \in R BY <3>1, <3>2
    <3>3. CASE <<z, x>> \notin R
      <4>1. <<x, z>> \in R BY <3>3 DEF Orders
      <4>2. \A y \in T : <<x, y>> \in R BY <3>1, <4>1 DEF Orders
      <4> QED BY <4>2
    <3> QED BY <3>2, <3>3
  <2> QED BY <2>1, <2>2
<1> HIDE DEF H
<1>3. S \in H BY <1>1, <1>2, SetInduct
<1> QED BY <1>3 DEF H

\* Every place is taken.
LEMMA PlacesInARow ==
  ASSUME NEW S, IsFiniteSet(S), NEW R, Orders(R, S), NEW n \in Nat, n < Cardinality(S)
  PROVE  \E x \in S : Cardinality(Before(x, R, S)) = n
<1> DEFINE H == {i \in Nat : i < Cardinality(S) => \E x \in S : Cardinality(Before(x, R, S)) = i}
<1>0. Cardinality(S) \in Nat BY FS_CardinalityType
<1>1. 0 \in H
  <2>1. S # {} BY FS_EmptySet
  <2>2. PICK x \in S : \A y \in S \ {x} : <<x, y>> \in R BY <2>1, FirstInARow
  <2>3. Before(x, R, S) = {} BY <2>2 DEF Before, Orders
  <2> QED BY <2>3, FS_EmptySet
<1>2. ASSUME NEW i \in Nat, i \in H PROVE i + 1 \in H
  <2> SUFFICES ASSUME i + 1 < Cardinality(S) PROVE \E x \in S : Cardinality(Before(x, R, S)) = i + 1 OBVIOUS
  <2>1. PICK x \in S : Cardinality(Before(x, R, S)) = i BY <1>0, <1>2
  <2> DEFINE Sofar == Before(x, R, S) \cup {x}
  <2>2. IsFiniteSet(Before(x, R, S)) BY FS_Subset DEF Before
  <2>3. x \notin Before(x, R, S) BY DEF Before, Orders
  <2>4. Cardinality(Sofar) = i + 1 BY <2>1, <2>2, <2>3, FS_AddElement
  <2>5. S \ Sofar # {}
    <3>1. Sofar \subseteq S BY DEF Before
    <3>2. Sofar # S
      <4> HIDE DEF Sofar
      <4> QED BY <1>0, <2>4
    <3> QED BY <3>1, <3>2
  <2>6. IsFiniteSet(S \ Sofar) BY FS_Subset
  <2>7. Orders(R, S \ Sofar) BY DEF Orders
  <2>8. PICK z \in S \ Sofar : \A y \in (S \ Sofar) \ {z} : <<z, y>> \in R
    <3> HIDE DEF Sofar
    <3> QED BY <2>5, <2>6, <2>7, FirstInARow
  <2>9. <<x, z>> \in R BY DEF Before, Orders
  <2>10. ASSUME NEW y \in S, <<y, z>> \in R PROVE y \in Sofar
    <3> SUFFICES ASSUME y \notin Sofar PROVE FALSE OBVIOUS
    <3>1. y # z BY <2>10 DEF Orders
    <3>2. <<z, y>> \in R BY <2>8, <3>1
    <3> QED BY <2>10, <3>2 DEF Orders
  <2>11. \A y \in Sofar : <<y, z>> \in R BY <2>9 DEF Before, Orders
  <2>12. Before(z, R, S) = Sofar BY <2>10, <2>11 DEF Before
  <2> QED BY <2>4, <2>12
<1> HIDE DEF H
<1>3. Nat \subseteq H BY <1>1, <1>2, NatInduct
<1> QED BY <1>3 DEF H

\* Each has a place of its own.
LEMMA PlacesAreOwn ==
  ASSUME NEW S, IsFiniteSet(S), NEW R, Orders(R, S), NEW x \in S, NEW y \in S, <<x, y>> \in R
  PROVE  Cardinality(Before(x, R, S)) < Cardinality(Before(y, R, S))
<1>1. IsFiniteSet(Before(x, R, S)) /\ IsFiniteSet(Before(y, R, S)) BY FS_Subset DEF Before
<1>2. x \notin Before(x, R, S) BY DEF Before, Orders
<1>3. Before(x, R, S) \cup {x} \subseteq Before(y, R, S) BY DEF Before, Orders
<1>4. /\ Cardinality(Before(x, R, S) \cup {x}) = Cardinality(Before(x, R, S)) + 1
      /\ IsFiniteSet(Before(x, R, S) \cup {x})
  BY <1>1, <1>2, FS_AddElement
<1>5. Cardinality(Before(x, R, S) \cup {x}) <= Cardinality(Before(y, R, S)) BY <1>1, <1>3, FS_Subset
<1>6. Cardinality(Before(x, R, S)) \in Nat /\ Cardinality(Before(y, R, S)) \in Nat BY <1>1, FS_CardinalityType
<1> QED BY <1>4, <1>5, <1>6

-----------------------------------------------------------------------------
(* What the fold of SumFunction computes. *)

\* G is the sum of f over every subset of S, whichever element is taken out first.
Adds(f, S, G) ==
  /\ G \in [SUBSET S -> Int] /\ G[{}] = 0
  /\ \A T \in SUBSET S : \A x \in T : G[T] = f[x] + G[T \ {x}]

LEMMA SumExists ==
  ASSUME NEW S, IsFiniteSet(S), NEW f, \A x \in S : f[x] \in Int
  PROVE  \E G : Adds(f, S, G)
  <1> DEFINE H == {T \in SUBSET S : \E G : Adds(f, T, G)}
  <1>1. {} \in H
    <2>1. Adds(f, {}, [T \in SUBSET {} |-> 0])
      BY DEF Adds
    <2> QED BY <2>1
  <1>2. ASSUME NEW T \in SUBSET S, NEW x \in S \ T, T \in H PROVE T \cup {x} \in H
    <2>1. PICK G : Adds(f, T, G)
      BY <1>2
    <2> DEFINE K == [U \in SUBSET (T \cup {x}) |-> IF x \in U THEN f[x] + G[U \ {x}] ELSE G[U]]
    <2>2. f[x] \in Int /\ \A U \in SUBSET T : G[U] \in Int
      BY <2>1 DEF Adds
    <2>3. K \in [SUBSET (T \cup {x}) -> Int]
      <3> SUFFICES ASSUME NEW U \in SUBSET (T \cup {x}) PROVE (IF x \in U THEN f[x] + G[U \ {x}] ELSE G[U]) \in Int
        OBVIOUS
      <3>1. U \ {x} \in SUBSET T /\ (x \notin U => U \in SUBSET T)
        OBVIOUS
      <3>2. G[U \ {x}] \in Int /\ (x \notin U => G[U] \in Int)
        BY <2>2, <3>1
      <3> QED BY <2>2, <3>2
    <2>4. K[{}] = 0
      BY <2>1 DEF Adds
    <2>5. ASSUME NEW U \in SUBSET (T \cup {x}), NEW y \in U PROVE K[U] = f[y] + K[U \ {y}]
      <3>1. CASE y = x
        <4>1. K[U] = f[x] + G[U \ {x}] /\ K[U \ {x}] = G[U \ {x}]
          BY <3>1
        <4> QED BY <3>1, <4>1
      <3>2. CASE y # x /\ x \in U
        <4> DEFINE W == (U \ {y}) \ {x}
        <4>1. (U \ {x}) \ {y} = W /\ U \ {x} \in SUBSET T /\ y \in U \ {x}
          BY <3>2
        <4>2. W \in SUBSET T
          OBVIOUS
        <4>3. K[U] = f[x] + G[U \ {x}] /\ K[U \ {y}] = f[x] + G[W]
          BY <3>2
        <4> HIDE DEF K, W
        <4>4. G[U \ {x}] = f[y] + G[W]
          BY <2>1, <4>1 DEF Adds
        <4>5. G[W] \in Int
          BY <2>2, <4>2
        <4>6. f[x] \in Int /\ f[y] \in Int
          <5>1. y \in S
            OBVIOUS
          <5> QED BY <2>2, <5>1
        <4> QED BY <4>3, <4>4, <4>5, <4>6
      <3>3. CASE y # x /\ x \notin U
        <4>1. U \in SUBSET T
          BY <3>3
        <4>2. K[U] = G[U] /\ K[U \ {y}] = G[U \ {y}]
          BY <3>3
        <4> QED BY <2>1, <4>1, <4>2 DEF Adds
      <3> QED BY <3>1, <3>2, <3>3
    <2> HIDE DEF K
    <2>6. Adds(f, T \cup {x}, K)
      BY <2>3, <2>4, <2>5 DEF Adds
    <2>7. T \cup {x} \in SUBSET S
      OBVIOUS
    <2> QED BY <2>6, <2>7
  <1> HIDE DEF H
  <1>3. S \in H
    BY <1>1, <1>2, SetInduct
  <1> QED BY <1>3 DEF H

LEMMA FoldAdds ==
  ASSUME NEW S, IsFiniteSet(S), NEW f, NEW G, Adds(f, S, G)
  PROVE  SumFunctionOnSet(f, S) = G[S]
  <1> DEFINE Step(g) == [s \in SUBSET S |-> IF s = {} THEN 0 ELSE f[CHOOSE x \in s : TRUE] + g[s \ {CHOOSE x \in s : TRUE}]]
             iter == CHOOSE g : g = Step(g)
  <1>1. SumFunctionOnSet(f, S) = iter[S]
    BY DEF SumFunctionOnSet, FoldFunctionOnSet, MapThenFoldSet
  <1>2. G = Step(G)
    <2>1. ASSUME NEW s \in SUBSET S PROVE G[s] = Step(G)[s]
      BY DEF Adds
    <2> QED BY <2>1 DEF Adds
  <1>3. iter = Step(iter)
    BY <1>2
  <1>4. \A s \in SUBSET S : iter[s] = IF s = {} THEN 0 ELSE f[CHOOSE x \in s : TRUE] + iter[s \ {CHOOSE x \in s : TRUE}]
    BY <1>3
  <1> HIDE DEF iter, Step
  <1> DEFINE Bad == {n \in Nat : \E T \in SUBSET S : Cardinality(T) = n /\ iter[T] # G[T]}
  <1>5. Bad = {}
    <2> SUFFICES ASSUME Bad # {} PROVE FALSE
      OBVIOUS
    <2>1. PICK n \in Bad : \A m \in Bad : n <= m
      BY LeastNumber
    <2>2. PICK T \in SUBSET S : Cardinality(T) = n /\ iter[T] # G[T]
      BY <2>1
    <2>3. T # {}
      BY <1>4, <2>2 DEF Adds
    <2> DEFINE c == CHOOSE x \in T : TRUE
    <2>4. c \in T
      BY <2>3
    <2>5. iter[T] = f[c] + iter[T \ {c}] /\ G[T] = f[c] + G[T \ {c}]
      BY <1>4, <2>3, <2>4 DEF Adds
    <2> HIDE DEF c
    <2>6. iter[T \ {c}] # G[T \ {c}]
      BY <2>2, <2>5
    <2>7. IsFiniteSet(T)
      BY FS_Subset
    <2>8. Cardinality(T \ {c}) = Cardinality(T) - 1 /\ Cardinality(T \ {c}) \in Nat
      BY <2>4, <2>7, FS_RemoveElement, FS_CardinalityType
    <2>9. n - 1 \in Bad
      BY <2>2, <2>6, <2>8
    <2> QED BY <2>1, <2>9
  <1>6. Cardinality(S) \in Nat
    BY FS_CardinalityType
  <1>7. iter[S] = G[S]
    BY <1>5, <1>6
  <1> QED BY <1>1, <1>7

\* The sum of a finite set of integers is one, and any of its elements may be taken out first.
LEMMA SumOn ==
  ASSUME NEW S, IsFiniteSet(S), NEW f, \A x \in S : f[x] \in Int
  PROVE  /\ SumFunctionOnSet(f, S) \in Int
         /\ SumFunctionOnSet(f, {}) = 0
         /\ \A x \in S : SumFunctionOnSet(f, S) = f[x] + SumFunctionOnSet(f, S \ {x})
  <1>1. PICK G : Adds(f, S, G)
    BY SumExists
  <1>2. ASSUME NEW T \in SUBSET S PROVE SumFunctionOnSet(f, T) = G[T]
    <2> DEFINE K == [U \in SUBSET T |-> G[U]]
    <2>1. Adds(f, T, K)
      BY <1>1 DEF Adds
    <2>2. IsFiniteSet(T)
      BY FS_Subset
    <2>3. SumFunctionOnSet(f, T) = K[T]
      <3> HIDE DEF K
      <3> QED BY <2>1, <2>2, FoldAdds
    <2> QED BY <2>3
  <1>3. S \in SUBSET S /\ {} \in SUBSET S /\ \A x \in S : S \ {x} \in SUBSET S
    OBVIOUS
  <1> QED BY <1>1, <1>2, <1>3 DEF Adds

-----------------------------------------------------------------------------
(* Sums over whole functions. *)

\* Only the values matter.
LEMMA SumAgrees ==
  ASSUME NEW S, IsFiniteSet(S), NEW f, NEW g, \A x \in S : f[x] \in Int /\ g[x] = f[x]
  PROVE  SumFunctionOnSet(g, S) = SumFunctionOnSet(f, S)
  <1> DEFINE H == {T \in SUBSET S : SumFunctionOnSet(g, T) = SumFunctionOnSet(f, T)}
  <1>1. {} \in H
    <2>1. SumFunctionOnSet(g, {}) = 0 /\ SumFunctionOnSet(f, {}) = 0
      BY SumOn
    <2> QED BY <2>1
  <1>2. ASSUME NEW T \in SUBSET S, NEW x \in S \ T, T \in H PROVE T \cup {x} \in H
    <2>1. IsFiniteSet(T \cup {x}) /\ T \cup {x} \in SUBSET S /\ x \in T \cup {x} /\ (T \cup {x}) \ {x} = T
      BY FS_Subset
    <2>2. /\ SumFunctionOnSet(f, T \cup {x}) = f[x] + SumFunctionOnSet(f, (T \cup {x}) \ {x})
          /\ SumFunctionOnSet(g, T \cup {x}) = g[x] + SumFunctionOnSet(g, (T \cup {x}) \ {x})
      BY <2>1, SumOn
    <2>3. SumFunctionOnSet(g, T \cup {x}) = SumFunctionOnSet(f, T \cup {x})
      BY <1>2, <2>1, <2>2
    <2> QED BY <2>1, <2>3
  <1> HIDE DEF H
  <1>3. S \in H
    BY <1>1, <1>2, SetInduct
  <1> QED BY <1>3 DEF H

LEMMA SumType ==
  ASSUME NEW S, IsFiniteSet(S), NEW f \in [S -> Int]
  PROVE  /\ SumFunction(f) = SumFunctionOnSet(f, S) /\ SumFunction(f) \in Int
         /\ S = {} => SumFunction(f) = 0
  <1>1. SumFunctionOnSet(f, S) \in Int /\ SumFunctionOnSet(f, {}) = 0
    BY SumOn
  <1>2. SumFunction(f) = SumFunctionOnSet(f, S)
    BY DEF SumFunction
  <1> QED BY <1>1, <1>2

\* One more value.
LEMMA SumExtends ==
  ASSUME NEW S, IsFiniteSet(S), NEW x, x \notin S, NEW f \in [S -> Int], NEW g \in [S \cup {x} -> Int], \A y \in S : g[y] = f[y]
  PROVE  SumFunction(g) = SumFunction(f) + g[x]
  <1>1. IsFiniteSet(S \cup {x}) /\ (S \cup {x}) \ {x} = S
    BY FS_AddElement
  <1>2. SumFunctionOnSet(g, S \cup {x}) = g[x] + SumFunctionOnSet(g, (S \cup {x}) \ {x})
    BY <1>1, SumOn
  <1>3. SumFunctionOnSet(g, S) = SumFunctionOnSet(f, S)
    BY SumAgrees
  <1>4. SumFunction(g) = SumFunctionOnSet(g, S \cup {x}) /\ SumFunction(f) = SumFunctionOnSet(f, S) /\ SumFunction(f) \in Int
    BY <1>1, SumType
  <1>5. g[x] \in Int
    OBVIOUS
  <1>6. SumFunctionOnSet(g, S \cup {x}) = g[x] + SumFunctionOnSet(g, S)
    BY <1>1, <1>2
  <1> QED BY <1>3, <1>4, <1>5, <1>6

\* One other value.
LEMMA SumChanges ==
  ASSUME NEW S, IsFiniteSet(S), NEW x \in S, NEW f \in [S -> Int], NEW g \in [S -> Int], \A y \in S \ {x} : g[y] = f[y]
  PROVE  SumFunction(g) = SumFunction(f) - f[x] + g[x]
  <1>1. IsFiniteSet(S \ {x})
    BY FS_RemoveElement
  <1>2. /\ SumFunctionOnSet(f, S) = f[x] + SumFunctionOnSet(f, S \ {x})
        /\ SumFunctionOnSet(g, S) = g[x] + SumFunctionOnSet(g, S \ {x})
    BY SumOn
  <1>3. SumFunctionOnSet(g, S \ {x}) = SumFunctionOnSet(f, S \ {x}) /\ SumFunctionOnSet(f, S \ {x}) \in Int
    BY <1>1, SumAgrees, SumOn
  <1>4. SumFunction(g) = SumFunctionOnSet(g, S) /\ SumFunction(f) = SumFunctionOnSet(f, S)
    BY SumType
  <1>5. f[x] \in Int /\ g[x] \in Int
    OBVIOUS
  <1> QED BY <1>2, <1>3, <1>4, <1>5

\* Value by value.
LEMMA SumMinus ==
  ASSUME NEW S, IsFiniteSet(S), NEW f \in [S -> Int], NEW g \in [S -> Int], NEW h \in [S -> Int], \A x \in S : h[x] = f[x] - g[x]
  PROVE  SumFunction(h) = SumFunction(f) - SumFunction(g)
  <1> DEFINE H == {T \in SUBSET S : SumFunctionOnSet(h, T) = SumFunctionOnSet(f, T) - SumFunctionOnSet(g, T)}
  <1>1. {} \in H
    <2>1. SumFunctionOnSet(g, {}) = 0 /\ SumFunctionOnSet(f, {}) = 0 /\ SumFunctionOnSet(h, {}) = 0
      BY SumOn
    <2> QED BY <2>1
  <1>2. ASSUME NEW T \in SUBSET S, NEW x \in S \ T, T \in H PROVE T \cup {x} \in H
    <2>1. IsFiniteSet(T \cup {x}) /\ T \cup {x} \in SUBSET S /\ x \in T \cup {x} /\ (T \cup {x}) \ {x} = T
      BY FS_Subset
    <2>2. /\ SumFunctionOnSet(f, T \cup {x}) = f[x] + SumFunctionOnSet(f, (T \cup {x}) \ {x})
          /\ SumFunctionOnSet(g, T \cup {x}) = g[x] + SumFunctionOnSet(g, (T \cup {x}) \ {x})
          /\ SumFunctionOnSet(h, T \cup {x}) = h[x] + SumFunctionOnSet(h, (T \cup {x}) \ {x})
      BY <2>1, SumOn
    <2>3. SumFunctionOnSet(f, T) \in Int /\ SumFunctionOnSet(g, T) \in Int /\ f[x] \in Int /\ g[x] \in Int /\ h[x] = f[x] - g[x]
      <3>1. IsFiniteSet(T)
        BY FS_Subset
      <3> QED BY <3>1, SumOn
    <2>4. SumFunctionOnSet(h, T) = SumFunctionOnSet(f, T) - SumFunctionOnSet(g, T)
      BY <1>2
    <2>5. /\ SumFunctionOnSet(f, T \cup {x}) = f[x] + SumFunctionOnSet(f, T)
          /\ SumFunctionOnSet(g, T \cup {x}) = g[x] + SumFunctionOnSet(g, T)
          /\ SumFunctionOnSet(h, T \cup {x}) = h[x] + SumFunctionOnSet(h, T)
      BY <2>1, <2>2
    <2>6. SumFunctionOnSet(h, T \cup {x}) = SumFunctionOnSet(f, T \cup {x}) - SumFunctionOnSet(g, T \cup {x})
      BY <2>3, <2>4, <2>5
    <2> QED BY <2>1, <2>6
  <1> HIDE DEF H
  <1>3. S \in H
    BY <1>1, <1>2, SetInduct
  <1>4. SumFunction(f) = SumFunctionOnSet(f, S) /\ SumFunction(g) = SumFunctionOnSet(g, S) /\ SumFunction(h) = SumFunctionOnSet(h, S)
    BY SumType
  <1> QED BY <1>3, <1>4 DEF H

\* Nothing below zero.
LEMMA SumOfNaturals == ASSUME NEW S, IsFiniteSet(S), NEW f \in [S -> Nat] PROVE SumFunction(f) \in Nat
  <1> DEFINE H == {T \in SUBSET S : SumFunctionOnSet(f, T) \in Nat}
  <1>0. f \in [S -> Int] /\ \A x \in S : f[x] \in Int /\ f[x] \in Nat
    OBVIOUS
  <1>1. {} \in H
    BY <1>0, SumOn
  <1>2. ASSUME NEW T \in SUBSET S, NEW x \in S \ T, T \in H PROVE T \cup {x} \in H
    <2>1. IsFiniteSet(T \cup {x}) /\ T \cup {x} \in SUBSET S /\ x \in T \cup {x} /\ (T \cup {x}) \ {x} = T
      BY FS_Subset
    <2>2. SumFunctionOnSet(f, T \cup {x}) = f[x] + SumFunctionOnSet(f, (T \cup {x}) \ {x})
      BY <1>0, <2>1, SumOn
    <2>3. SumFunctionOnSet(f, T) \in Nat /\ f[x] \in Nat
      BY <1>0, <1>2
    <2>4. SumFunctionOnSet(f, T \cup {x}) = f[x] + SumFunctionOnSet(f, T)
      BY <2>1, <2>2
    <2>5. SumFunctionOnSet(f, T \cup {x}) \in Nat
      BY <2>3, <2>4
    <2> QED BY <2>1, <2>5
  <1> HIDE DEF H
  <1>3. S \in H
    BY <1>1, <1>2, SetInduct
  <1> QED BY <1>0, <1>3, SumType DEF H

\* Nothing but zeros in addition.
LEMMA SumPads ==
  ASSUME NEW S, IsFiniteSet(S), NEW R \in SUBSET S, NEW f \in [R -> Int], NEW g \in [S -> Int],
         \A x \in S : g[x] = IF x \in R THEN f[x] ELSE 0
  PROVE  SumFunction(g) = SumFunction(f)
  <1> DEFINE H == {T \in SUBSET (S \ R) : SumFunctionOnSet(g, R \cup T) = SumFunctionOnSet(g, R)}
  <1>0. \A x \in S : g[x] \in Int
    OBVIOUS
  <1>1. {} \in H
    <2>1. R \cup {} = R
      OBVIOUS
    <2> QED BY <2>1
  <1>2. ASSUME NEW T \in SUBSET (S \ R), NEW x \in (S \ R) \ T, T \in H PROVE T \cup {x} \in H
    <2> DEFINE U == R \cup (T \cup {x})
    <2>1. IsFiniteSet(U) /\ U \in SUBSET S /\ x \in U /\ U \ {x} = R \cup T
      BY FS_Subset
    <2>2. g[x] = 0
      OBVIOUS
    <2>3. SumFunctionOnSet(g, U) = g[x] + SumFunctionOnSet(g, U \ {x})
      <3> HIDE DEF U
      <3>1. \A y \in U : g[y] \in Int
        BY <1>0, <2>1
      <3> QED BY <2>1, <3>1, SumOn
    <2>4. SumFunctionOnSet(g, R) \in Int
      <3>1. IsFiniteSet(R)
        BY FS_Subset
      <3> QED BY <1>0, <3>1, SumOn
    <2>5. SumFunctionOnSet(g, U) = SumFunctionOnSet(g, R)
      BY <1>2, <2>1, <2>2, <2>3, <2>4
    <2> QED BY <2>5
  <1> HIDE DEF H
  <1>3. IsFiniteSet(S \ R) /\ IsFiniteSet(R)
    BY FS_Subset
  <1>4. S \ R \in H
    BY <1>1, <1>2, <1>3, SetInduct
  <1>5. SumFunctionOnSet(g, S) = SumFunctionOnSet(g, R)
    <2>1. R \cup (S \ R) = S
      OBVIOUS
    <2> QED BY <1>4, <2>1 DEF H
  <1>6. SumFunctionOnSet(g, R) = SumFunctionOnSet(f, R)
    <2>1. \A x \in R : f[x] \in Int /\ g[x] = f[x]
      OBVIOUS
    <2> QED BY <1>3, <2>1, SumAgrees
  <1> QED BY <1>3, <1>5, <1>6, SumType

\* A part of naturals is no more than the whole.
LEMMA SumOfPart ==
  ASSUME NEW S, IsFiniteSet(S), NEW R \in SUBSET S, NEW f \in [R -> Nat], NEW g \in [S -> Nat], \A x \in R : g[x] = f[x]
  PROVE  SumFunction(f) <= SumFunction(g)
  <1> DEFINE h == [x \in S |-> IF x \in R THEN f[x] ELSE 0]
             rest == [x \in S |-> g[x] - h[x]]
  <1>1. h \in [S -> Int] /\ g \in [S -> Int] /\ f \in [R -> Int] /\ \A x \in S : h[x] = IF x \in R THEN f[x] ELSE 0
    OBVIOUS
  <1>2. rest \in [S -> Nat] /\ rest \in [S -> Int] /\ \A x \in S : rest[x] = g[x] - h[x]
    <2>1. \A x \in S : g[x] - h[x] \in Nat
      <3> SUFFICES ASSUME NEW x \in S PROVE g[x] - h[x] \in Nat
        OBVIOUS
      <3>1. CASE x \in R
        BY <3>1
      <3>2. CASE x \notin R
        BY <3>2
      <3> QED BY <3>1, <3>2
    <2> HIDE DEF h
    <2> QED BY <2>1
  <1> HIDE DEF h, rest
  <1>3. SumFunction(h) = SumFunction(f)
    BY <1>1, SumPads
  <1>4. SumFunction(rest) = SumFunction(g) - SumFunction(h)
    BY <1>1, <1>2, SumMinus
  <1>5. SumFunction(rest) \in Nat /\ SumFunction(g) \in Int /\ SumFunction(h) \in Int
    BY <1>1, <1>2, SumOfNaturals, SumType
  <1> QED BY <1>3, <1>4, <1>5

\* Under other names, and c times as much each.
Renames(h, S, T) ==
  /\ h \in [S -> T] /\ \A x, y \in S : h[x] = h[y] => x = y
  /\ \A y \in T : \E x \in S : h[x] = y
Multiplies(h, S, c, f, g) == \A x \in S : g[h[x]] = c * f[x]

LEMMA SumRenamed ==
  ASSUME NEW S, IsFiniteSet(S), NEW T, NEW c \in Int, NEW f \in [S -> Int], NEW g \in [T -> Int],
         NEW h, Renames(h, S, T), Multiplies(h, S, c, f, g)
  PROVE  SumFunction(g) = c * SumFunction(f)
  <1> DEFINE At(U) == {h[x] : x \in U}
             H == {U \in SUBSET S : IsFiniteSet(At(U)) /\ SumFunctionOnSet(g, At(U)) = c * SumFunctionOnSet(f, U)}
  <1> USE DEF Renames
  <1>0. \A x \in S : f[x] \in Int /\ h[x] \in T /\ g[h[x]] \in Int
    OBVIOUS
  <1>1. {} \in H
    <2>1. At({}) = {} /\ IsFiniteSet({})
      BY FS_EmptySet
    <2>2. SumFunctionOnSet(g, {}) = 0 /\ SumFunctionOnSet(f, {}) = 0
      BY <2>1, SumOn
    <2>3. c * 0 = 0
      OBVIOUS
    <2> HIDE DEF At
    <2> QED BY <2>1, <2>2, <2>3
  <1>2. ASSUME NEW U \in SUBSET S, NEW x \in S \ U, U \in H PROVE U \cup {x} \in H
    <2>1. At(U \cup {x}) = At(U) \cup {h[x]} /\ h[x] \notin At(U) /\ At(U) \subseteq T
      OBVIOUS
    <2>2. IsFiniteSet(At(U)) /\ SumFunctionOnSet(g, At(U)) = c * SumFunctionOnSet(f, U)
      BY <1>2
    <2> HIDE DEF At, H
    <2>3. PICK V : V = At(U) \cup {h[x]}
      OBVIOUS
    <2>4. IsFiniteSet(V) /\ h[x] \in V /\ V \ {h[x]} = At(U) /\ \A y \in V : g[y] \in Int
      BY <1>0, <2>1, <2>2, <2>3, FS_AddElement
    <2>5. SumFunctionOnSet(g, V) = g[h[x]] + SumFunctionOnSet(g, At(U))
      BY <2>4, SumOn
    <2>6. PICK W : W = U \cup {x}
      OBVIOUS
    <2>7. IsFiniteSet(W) /\ IsFiniteSet(U) /\ x \in W /\ W \ {x} = U /\ W \in SUBSET S
      BY <2>6, FS_Subset
    <2>8. SumFunctionOnSet(f, W) = f[x] + SumFunctionOnSet(f, U)
      BY <1>0, <2>7, SumOn
    <2>9. SumFunctionOnSet(f, U) \in Int
      BY <1>0, <2>7, SumOn
    <2>10. c * (f[x] + SumFunctionOnSet(f, U)) = c * f[x] + c * SumFunctionOnSet(f, U)
      BY <1>0, <2>9
    <2>11. SumFunctionOnSet(g, V) = c * SumFunctionOnSet(f, W)
      BY <2>2, <2>5, <2>8, <2>10 DEF Multiplies
    <2> QED BY <2>1, <2>3, <2>4, <2>6, <2>7, <2>11 DEF H
  <1>3. At(S) = T
    OBVIOUS
  <1> HIDE DEF H, At
  <1>4. S \in H
    BY <1>1, <1>2, SetInduct
  <1>5. IsFiniteSet(T) /\ SumFunctionOnSet(g, T) = c * SumFunctionOnSet(f, S)
    BY <1>3, <1>4 DEF H
  <1> QED BY <1>5, SumType

\* Two parts with nothing in common are no more than the whole.
LEMMA SumOfTwoParts ==
  ASSUME NEW S, IsFiniteSet(S), NEW A \in SUBSET S, NEW B \in SUBSET S, A \cap B = {},
         NEW f \in [S -> Nat], NEW a \in [A -> Nat], NEW b \in [B -> Nat], \A x \in A : a[x] = f[x], \A x \in B : b[x] = f[x]
  PROVE  SumFunction(a) + SumFunction(b) <= SumFunction(f)
  <1>0. PICK R : R = S \ B
    OBVIOUS
  <1> DEFINE rest == [x \in R |-> f[x]]
             padded == [x \in S |-> IF x \in B THEN b[x] ELSE 0]
             others == [x \in S |-> IF x \in R THEN rest[x] ELSE 0]
  <1>1. IsFiniteSet(R) /\ IsFiniteSet(A) /\ IsFiniteSet(B) /\ R \in SUBSET S
    BY <1>0, FS_Subset
  <1>2. rest \in [R -> Nat] /\ A \in SUBSET R /\ \A x \in A : rest[x] = a[x]
    BY <1>0
  <1>3. /\ padded \in [S -> Int] /\ others \in [S -> Int] /\ f \in [S -> Int] /\ b \in [B -> Int] /\ rest \in [R -> Int]
        /\ \A x \in S : others[x] = f[x] - padded[x]
    BY <1>0
  <1>4. \A x \in S : padded[x] = IF x \in B THEN b[x] ELSE 0
    OBVIOUS
  <1>10. \A x \in S : others[x] = IF x \in R THEN rest[x] ELSE 0
    OBVIOUS
  <1> HIDE DEF rest, padded, others
  <1>5. SumFunction(a) <= SumFunction(rest)
    BY <1>1, <1>2, SumOfPart
  <1>6. SumFunction(padded) = SumFunction(b)
    <2>1. padded \in [S -> Int] /\ b \in [B -> Int]
      BY <1>3
    <2> QED BY <1>4, <2>1, SumPads
  <1>7. SumFunction(others) = SumFunction(rest)
    <2>1. others \in [S -> Int] /\ rest \in [R -> Int] /\ R \in SUBSET S
      BY <1>1, <1>3
    <2> QED BY <1>10, <2>1, SumPads
  <1>8. SumFunction(others) = SumFunction(f) - SumFunction(padded)
    BY <1>3, SumMinus
  <1>9. SumFunction(a) \in Nat /\ SumFunction(b) \in Nat /\ SumFunction(f) \in Nat /\ SumFunction(rest) \in Nat
    BY <1>1, <1>2, SumOfNaturals
  <1> QED BY <1>5, <1>6, <1>7, <1>8, <1>9

\* Nothing adds up to nothing.
LEMMA SumOfZeros ==
  ASSUME NEW S, IsFiniteSet(S), NEW f \in [S -> Int], \A x \in S : f[x] = 0
  PROVE  SumFunction(f) = 0
  <1>1. \A x \in S : f[x] = f[x] - f[x]
    OBVIOUS
  <1>2. SumFunction(f) = SumFunction(f) - SumFunction(f)
    BY <1>1, SumMinus
  <1>3. SumFunction(f) \in Int
    BY SumType
  <1> QED BY <1>2, <1>3

\* If no more than f[n] elements are put down to each n, there are no more of them than f adds up to.
LEMMA CountedBySum ==
  ASSUME NEW X, IsFiniteSet(X), NEW S, IsFiniteSet(S), NEW a, NEW f \in [S -> Nat],
         \A n \in S : Cardinality({x \in X : a[x] = n}) <= f[n]
  PROVE  Cardinality({x \in X : a[x] \in S}) <= SumFunction(f)
  <1> DEFINE Of(T) == {x \in X : a[x] \in T}
             H == {T \in SUBSET S : Cardinality(Of(T)) <= SumFunctionOnSet(f, T)}
  <1>1. \A n \in S : f[n] \in Nat /\ f[n] \in Int
    OBVIOUS
  <1>2. ASSUME NEW T PROVE IsFiniteSet(Of(T)) /\ Cardinality(Of(T)) \in Nat
    BY FS_Subset, FS_CardinalityType
  <1>3. {} \in H
    <2>1. Of({}) = {}
      OBVIOUS
    <2>2. SumFunctionOnSet(f, {}) = 0
      BY <1>1, SumOn
    <2> HIDE DEF Of
    <2> QED BY <2>1, <2>2, FS_EmptySet
  <1>4. ASSUME NEW T \in SUBSET S, NEW n \in S \ T, T \in H PROVE T \cup {n} \in H
    <2> DEFINE U == T \cup {n}
               K == {x \in X : a[x] = n}
    <2>1. IsFiniteSet(U) /\ U \in SUBSET S /\ n \in U /\ U \ {n} = T
      BY FS_Subset
    <2>2. SumFunctionOnSet(f, U) = f[n] + SumFunctionOnSet(f, U \ {n})
      <3>1. \A x \in U : f[x] \in Int
        BY <1>1
      <3> QED BY <2>1, <3>1, SumOn
    <2>3. SumFunctionOnSet(f, T) \in Int
      <3>1. IsFiniteSet(T) /\ \A x \in T : f[x] \in Int
        BY <1>1, FS_Subset
      <3> QED BY <3>1, SumOn
    <2>4. Of(U) = Of(T) \cup K
      OBVIOUS
    <2>5. IsFiniteSet(K) /\ Cardinality(K) \in Nat /\ Cardinality(K) <= f[n]
      BY FS_Subset, FS_CardinalityType
    <2>6. Cardinality(Of(T)) <= SumFunctionOnSet(f, T)
      BY <1>4
    <2> HIDE DEF K, Of, U
    <2>7. Cardinality(Of(U)) <= Cardinality(Of(T)) + Cardinality(K)
      <3>1. Cardinality(Of(T) \cup K) = Cardinality(Of(T)) + Cardinality(K) - Cardinality(Of(T) \cap K)
        BY <1>2, <2>5, FS_Union
      <3>2. Cardinality(Of(T) \cap K) \in Nat
        BY <1>2, FS_Intersection, FS_CardinalityType
      <3>3. Cardinality(Of(T)) \in Nat
        BY <1>2
      <3> QED BY <2>4, <2>5, <3>1, <3>2, <3>3
    <2>8. SumFunctionOnSet(f, U) = f[n] + SumFunctionOnSet(f, T)
      BY <2>1, <2>2
    <2>9. Cardinality(Of(U)) <= SumFunctionOnSet(f, U)
      BY <1>1, <1>2, <2>3, <2>5, <2>6, <2>7, <2>8
    <2> QED BY <2>1, <2>9 DEF U
  <1> HIDE DEF H
  <1>5. S \in H
    BY <1>3, <1>4, SetInduct
  <1>6. SumFunction(f) = SumFunctionOnSet(f, S)
    BY DEF SumFunction
  <1> QED BY <1>5, <1>6 DEF H
=============================================================================
