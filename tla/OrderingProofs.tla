--------------------------- MODULE OrderingProofs ---------------------------
(***************************************************************************)
(* Facts about Ordering and about sums that other proofs rest on.          *)
(*                                                                         *)
(* A fold is a recursion over a set.  What is needed of sums is proved by  *)
(* way of a smallest counterexample, which the prover can do, instead of   *)
(* by induction, which it cannot.                                          *)
(***************************************************************************)
EXTENDS Ordering, Functions, FiniteSetTheorems, FunctionTheorems,
        WellFoundedInduction, TLAPS

-----------------------------------------------------------------------------
\* Sorting

LEMMA EarlierPlace ==
  ASSUME NEW keys, IsFiniteSet(DOMAIN keys), DOMAIN keys \subseteq Int,
         \A i \in DOMAIN keys : keys[i] \in Int,
         NEW i \in DOMAIN keys, NEW j \in DOMAIN keys,
         keys[i] < keys[j] \/ (keys[i] = keys[j] /\ i < j)
  PROVE  Place(keys, i) < Place(keys, j)
<1> DEFINE upto(k) == {x \in DOMAIN keys : keys[x] < keys[k] \/ (keys[x] = keys[k] /\ x <= k)}
<1>1. upto(i) \in SUBSET upto(j) /\ j \in upto(j) /\ j \notin upto(i)
  OBVIOUS
<1>2. Place(keys, i) = Cardinality(upto(i)) /\ Place(keys, j) = Cardinality(upto(j))
  BY DEF Place
<1>3. upto(j) \in SUBSET DOMAIN keys
  OBVIOUS
<1> HIDE DEF upto
<1>4. IsFiniteSet(upto(j)) /\ IsFiniteSet(upto(i))
  BY <1>1, <1>3, FS_Subset
<1>5. Cardinality(upto(i)) \in Nat /\ Cardinality(upto(j)) \in Nat
  BY <1>4, FS_CardinalityType
<1>6. /\ Cardinality(upto(i)) <= Cardinality(upto(j))
      /\ Cardinality(upto(j)) = Cardinality(upto(i)) => upto(j) = upto(i)
  BY <1>1, <1>4, FS_Subset
<1> QED
  BY <1>1, <1>2, <1>5, <1>6

\* Every entry has a place of its own, places are in order, and equals are in
\* the order of their entries.
THEOREM SortedSorts ==
  ASSUME NEW keys, IsFiniteSet(DOMAIN keys), DOMAIN keys \subseteq Int,
         \A i \in DOMAIN keys : keys[i] \in Int
  PROVE  LET size == Cardinality(DOMAIN keys)
         IN  /\ size \in Nat
             /\ Sorted(keys) \in [1 .. size -> DOMAIN keys]
             /\ \A m, n \in 1 .. size : m < n =>
                  /\ keys[Sorted(keys)[m]] <= keys[Sorted(keys)[n]]
                  /\ Sorted(keys)[m] # Sorted(keys)[n]
             /\ \A i \in DOMAIN keys : \E n \in 1 .. size : Sorted(keys)[n] = i
<1> DEFINE D == DOMAIN keys
           size == Cardinality(D)
           place == [i \in D |-> Place(keys, i)]
<1>1. IsFiniteSet(D) /\ size \in Nat
  BY FS_CardinalityType
<1>2. IsFiniteSet(1 .. size) /\ Cardinality(1 .. size) = size
  <2>1. \A n \in Nat : IsFiniteSet(1 .. n) /\ Cardinality(1 .. n) = n
    BY FS_Interval
  <2> QED
    BY <1>1, <2>1
<1>3. \A i \in D : Place(keys, i) \in 1 .. size
  <2> SUFFICES ASSUME NEW i \in D PROVE Place(keys, i) \in 1 .. size
    OBVIOUS
  <2> DEFINE upto == {x \in D : keys[x] < keys[i] \/ (keys[x] = keys[i] /\ x <= i)}
  <2>1. upto \in SUBSET D /\ i \in upto /\ Place(keys, i) = Cardinality(upto)
    BY DEF Place
  <2> HIDE DEF upto
  <2>2. IsFiniteSet(upto) /\ Cardinality(upto) <= size
    BY <1>1, <2>1, FS_Subset
  <2>3. Cardinality(upto) \in Nat /\ Cardinality(upto) # 0
    BY <2>1, <2>2, FS_CardinalityType, FS_EmptySet
  <2> QED
    BY <1>1, <2>1, <2>2, <2>3
<1>4. \A i, j \in D :
        keys[i] < keys[j] \/ (keys[i] = keys[j] /\ i < j) => Place(keys, i) < Place(keys, j)
  BY EarlierPlace
<1>5. \A i, j \in D : Place(keys, i) = Place(keys, j) => i = j
  <2> SUFFICES ASSUME NEW i \in D, NEW j \in D, Place(keys, i) = Place(keys, j), i # j
               PROVE  FALSE
    OBVIOUS
  <2>1. \/ keys[i] < keys[j] \/ (keys[i] = keys[j] /\ i < j)
        \/ keys[j] < keys[i] \/ (keys[j] = keys[i] /\ j < i)
    <3>1. keys[i] \in Int /\ keys[j] \in Int /\ i \in Int /\ j \in Int
      OBVIOUS
    <3> QED
      BY <3>1
  <2>2. Place(keys, i) \in Int /\ ~ (Place(keys, i) < Place(keys, i))
    BY <1>3
  <2> QED
    BY <1>4, <2>1, <2>2
<1>6. \A n \in 1 .. size : \E i \in D : Place(keys, i) = n
  <2> HIDE DEF D, size
  <2>1. place \in [D -> 1 .. size]
    BY <1>3
  <2>2. \A i, j \in D : place[i] = place[j] => i = j
    BY <1>5
  <2> HIDE DEF place
  <2>3. place \in Injection(D, 1 .. size)
    BY <2>1, <2>2, Fun_IsInj
  <2>4. place \in Surjection(D, 1 .. size)
    BY <1>1, <1>2, <2>3, FS_Injection DEF size
  <2>5. \A n \in 1 .. size : \E i \in D : place[i] = n
    BY <2>4 DEF Surjection
  <2> QED
    BY <2>5 DEF place
<1>7. \A n \in 1 .. size : Sorted(keys)[n] \in D /\ Place(keys, Sorted(keys)[n]) = n
  BY <1>6 DEF Sorted
<1>8. Sorted(keys) \in [1 .. size -> D]
  BY <1>7 DEF Sorted
<1>9. ASSUME NEW m \in 1 .. size, NEW n \in 1 .. size, m < n
      PROVE  /\ keys[Sorted(keys)[m]] <= keys[Sorted(keys)[n]]
             /\ Sorted(keys)[m] # Sorted(keys)[n]
  <2> DEFINE i == Sorted(keys)[m]
             j == Sorted(keys)[n]
  <2>1. i \in D /\ j \in D /\ Place(keys, i) = m /\ Place(keys, j) = n
    BY <1>7
  <2> HIDE DEF i, j
  <2>2. ~ (keys[j] < keys[i])
    BY <1>4, <1>9, <2>1
  <2>3. keys[i] \in Int /\ keys[j] \in Int /\ i # j
    BY <1>9, <2>1
  <2>4. keys[i] <= keys[j]
    BY <2>2, <2>3
  <2> QED
    BY <2>3, <2>4 DEF i, j
<1>10. ASSUME NEW i \in D PROVE \E n \in 1 .. size : Sorted(keys)[n] = i
  <2>1. Place(keys, i) \in 1 .. size
    BY <1>3
  <2>2. Sorted(keys)[Place(keys, i)] = i
    BY <1>5, <1>7, <2>1
  <2> QED
    BY <2>1, <2>2
<1> QED
  BY <1>1, <1>8, <1>9, <1>10

-----------------------------------------------------------------------------
\* Sums

Some(s) == CHOOSE x \in s : TRUE

Adds(g, f, D) ==
  g = [s \in SUBSET D |-> IF s = {} THEN 0 ELSE f[Some(s)] + g[s \ {Some(s)}]]

Adder(f, D) == CHOOSE g : Adds(g, f, D)

\* The sum of f over S.
SumOver(f, S) == Adder(f, S)[S]

LEMMA FoldIsSum ==
  ASSUME NEW f
  PROVE  FoldFunction(+, 0, f) = SumOver(f, DOMAIN f)
BY DEF FoldFunction, FoldFunctionOnSet, MapThenFoldSet, SumOver, Adder, Adds, Some

\* Any set of subsets of a finite set has a smallest one.
LEMMA SmallestSubset ==
  ASSUME NEW D, IsFiniteSet(D), NEW Bad \in SUBSET (SUBSET D), Bad # {}
  PROVE  \E T \in Bad : \A U \in Bad : U \subseteq T => U = T
<1> DEFINE R == StrictSubsetOrdering(D)
<1>1. IsWellFoundedOn(R, SUBSET D)
  BY FS_StrictSubsetOrderingWellFounded, FS_FiniteSubsetsOfFinite
<1> HIDE DEF R
<1>2. PICK T \in Bad : \A U \in Bad : <<U, T>> \notin R
  BY <1>1, WFMin
<1> QED
  BY <1>2 DEF R, StrictSubsetOrdering

\* A set of finitely many numbers, but not none, has a greatest one.
LEMMA GreatestExists ==
  ASSUME NEW D, IsFiniteSet(D), D # {}, \A x \in D : x \in Int
  PROVE  \E x \in D : \A y \in D : x >= y
<1> DEFINE Bad == {T \in SUBSET D : T # {} /\ ~ \E x \in T : \A y \in T : x >= y}
<1>1. SUFFICES ASSUME Bad # {} PROVE FALSE
  OBVIOUS
<1>2. PICK T \in Bad : \A U \in Bad : U \subseteq T => U = T
  <2> HIDE DEF Bad
  <2>1. Bad \in SUBSET (SUBSET D)
    BY DEF Bad
  <2>2. IsFiniteSet(D) /\ Bad # {}
    BY <1>1
  <2>3. \E T \in Bad : \A U \in Bad : U \subseteq T => U = T
    BY <2>1, <2>2, SmallestSubset
  <2> QED
    BY <2>3
<1>3. PICK x \in T : TRUE
  <2>1. \A W \in Bad : W # {}
    BY Zenon
  <2> HIDE DEF Bad
  <2> QED
    BY <2>1
<1> DEFINE U == T \ {x}
<1>4. U # {}
  <2> SUFFICES ASSUME U = {} PROVE FALSE
    OBVIOUS
  <2>1. \A y \in T : x >= y
    OBVIOUS
  <2> QED
    BY <2>1
<1>5. PICK z \in U : \A y \in U : z >= y
  <2>1. U \subseteq T /\ U # T /\ U \in SUBSET D
    OBVIOUS
  <2>2. U \notin Bad
    <3> HIDE DEF Bad, U
    <3> QED
      BY <1>2, <2>1
  <2>3. \A W \in SUBSET D : W # {} /\ W \notin Bad => \E v \in W : \A y \in W : v >= y
    BY Zenon
  <2> HIDE DEF Bad, U
  <2> QED
    BY <1>4, <2>1, <2>2, <2>3
<1>6. x \in Int /\ z \in Int /\ \A y \in T : y = x \/ y \in U
  OBVIOUS
<1>7. \E v \in T : \A y \in T : v >= y
  <2>1. CASE x >= z
    <3>1. \A y \in T : y \in Int
      OBVIOUS
    <3>2. \A y \in T : x >= y
      BY <1>5, <1>6, <2>1, <3>1
    <3> QED
      BY <3>2
  <2>2. CASE ~ (x >= z)
    <3>1. \A y \in T : z >= y
      BY <1>5, <1>6, <2>2
    <3> QED
      BY <3>1
  <2> QED
    BY <2>1, <2>2
<1> QED
  BY <1>7

LEMMA AddersAgree ==
  ASSUME NEW f, NEW D, IsFiniteSet(D), NEW E, NEW g, NEW h,
         Adds(g, f, D), Adds(h, f, E), NEW s, s \subseteq D, s \subseteq E
  PROVE  g[s] = h[s]
<1> DEFINE Bad == {t \in SUBSET D : t \subseteq E /\ g[t] # h[t]}
<1>1. SUFFICES ASSUME Bad # {} PROVE FALSE
  OBVIOUS
<1>2. PICK T \in Bad : \A U \in Bad : U \subseteq T => U = T
  <2> HIDE DEF Bad
  <2>1. Bad \in SUBSET (SUBSET D)
    BY DEF Bad
  <2> QED
    BY <1>1, <2>1, SmallestSubset
<1>3. T # {}
  BY DEF Adds
<1>4. Some(T) \in T
  BY <1>3 DEF Some
<1>5. g[T \ {Some(T)}] = h[T \ {Some(T)}]
  BY <1>2, <1>4
<1>6. /\ g[T] = f[Some(T)] + g[T \ {Some(T)}]
      /\ h[T] = f[Some(T)] + h[T \ {Some(T)}]
  BY <1>3 DEF Adds
<1> QED
  BY <1>5, <1>6

LEMMA AdderExists ==
  ASSUME NEW f, NEW D, IsFiniteSet(D)
  PROVE  Adds(Adder(f, D), f, D)
<1> DEFINE Bad == {T \in SUBSET D : ~ Adds(Adder(f, T), f, T)}
<1>1. SUFFICES ASSUME Bad # {} PROVE FALSE
  OBVIOUS
<1>2. PICK T \in Bad : \A U \in Bad : U \subseteq T => U = T
  <2> HIDE DEF Bad
  <2>1. Bad \in SUBSET (SUBSET D)
    BY DEF Bad
  <2> QED
    BY <1>1, <2>1, SmallestSubset
<1> DEFINE g == [s \in SUBSET T |->
                   IF s = {} THEN 0 ELSE f[Some(s)] + SumOver(f, s \ {Some(s)})]
<1>3. ASSUME NEW s \in SUBSET T, s # {} PROVE g[s \ {Some(s)}] = SumOver(f, s \ {Some(s)})
  <2> DEFINE u == s \ {Some(s)}
  <2>1. Some(s) \in s
    BY <1>3 DEF Some
  <2>2. u \in SUBSET T /\ u # T
    BY <2>1
  <2>3. Adds(Adder(f, u), f, u) /\ IsFiniteSet(u)
    BY <1>2, <2>2, FS_Subset
  <2>4. CASE u = {}
    BY <2>2, <2>3, <2>4 DEF SumOver, Adds
  <2>5. CASE u # {}
    <3> DEFINE v == u \ {Some(u)}
    <3>1. Some(u) \in u
      BY <2>5 DEF Some
    <3>2. v \in SUBSET T /\ v # T /\ v \subseteq u
      BY <2>2, <3>1
    <3>3. Adds(Adder(f, v), f, v) /\ IsFiniteSet(v)
      BY <1>2, <3>2, FS_Subset
    <3>4. Adder(f, u)[v] = Adder(f, v)[v]
      <4> HIDE DEF u, v
      <4> QED
        BY <2>3, <3>2, <3>3, AddersAgree
    <3>5. Adder(f, u)[u] = f[Some(u)] + Adder(f, u)[v]
      <4> HIDE DEF u
      <4> QED
        BY <2>3, <2>5 DEF Adds
    <3>6. g[u] = f[Some(u)] + SumOver(f, v)
      <4> HIDE DEF u
      <4> QED
        BY <2>2, <2>5
    <3> HIDE DEF g, u, v
    <3> QED
      BY <3>4, <3>5, <3>6 DEF SumOver, u
  <2> QED
    BY <2>4, <2>5
<1>4. Adds(g, f, T)
  <2>1. g = [s \in SUBSET T |-> IF s = {} THEN 0 ELSE f[Some(s)] + g[s \ {Some(s)}]]
    BY <1>3
  <2> HIDE DEF g
  <2> QED
    BY <2>1 DEF Adds
<1>5. Adds(Adder(f, T), f, T)
  <2> HIDE DEF g
  <2> QED
    BY <1>4 DEF Adder
<1> QED
  BY <1>5

\* The sum of a function over a finite set, one element after another.
LEMMA SumStep ==
  ASSUME NEW f, NEW S, IsFiniteSet(S), S # {}
  PROVE  /\ Some(S) \in S
         /\ SumOver(f, S) = f[Some(S)] + SumOver(f, S \ {Some(S)})
<1>1. Some(S) \in S
  BY DEF Some
<1> DEFINE u == S \ {Some(S)}
<1>2. Adds(Adder(f, S), f, S)
  BY AdderExists
<1>3. IsFiniteSet(u) /\ u \subseteq S
  BY FS_Subset
<1>4. Adder(f, S)[u] = Adder(f, u)[u]
  <2> HIDE DEF u
  <2>1. Adds(Adder(f, u), f, u) /\ u \subseteq u
    BY <1>3, AdderExists
  <2>2. \A g, h : Adds(g, f, S) /\ Adds(h, f, u) => g[u] = h[u]
    BY <1>3, AddersAgree
  <2> QED
    BY <1>2, <2>1, <2>2
<1>5. Adder(f, S)[S] = f[Some(S)] + Adder(f, S)[u]
  BY <1>2 DEF Adds
<1> QED
  BY <1>1, <1>4, <1>5 DEF SumOver

LEMMA SumOfNothing ==
  ASSUME NEW f
  PROVE  SumOver(f, {}) = 0
<1>1. Adds(Adder(f, {}), f, {})
  BY AdderExists, FS_EmptySet
<1> QED
  BY <1>1 DEF Adds, SumOver

\* A sum of as many numbers, none of them above a bound.
LEMMA SumBounded ==
  ASSUME NEW D, IsFiniteSet(D), NEW most \in Nat, NEW f \in [D -> Nat],
         \A x \in D : f[x] <= most
  PROVE  /\ SumOver(f, D) \in Nat
         /\ SumOver(f, D) <= most * Cardinality(D)
<1> DEFINE Good(S) == SumOver(f, S) \in Nat /\ SumOver(f, S) <= most * Cardinality(S)
           Bad == {S \in SUBSET D : ~ Good(S)}
<1>1. SUFFICES ASSUME Bad # {} PROVE FALSE
  OBVIOUS
<1>2. PICK S \in Bad : \A U \in Bad : U \subseteq S => U = S
  <2> HIDE DEF Bad
  <2>1. Bad \in SUBSET (SUBSET D)
    BY DEF Bad
  <2> QED
    BY <1>1, <2>1, SmallestSubset
<1>3. IsFiniteSet(S)
  BY FS_Subset
<1>4. S # {}
  <2>1. Good({})
    BY SumOfNothing, FS_EmptySet
  <2> QED
    BY <2>1
<1> DEFINE x == Some(S)
           U == S \ {x}
<1>5. x \in S /\ SumOver(f, S) = f[x] + SumOver(f, U)
  BY <1>3, <1>4, SumStep
<1>6. Good(U)
  <2>1. U \in SUBSET D /\ U \subseteq S /\ U # S
    BY <1>5
  <2> HIDE DEF Good, U
  <2> QED
    BY <1>2, <2>1
<1>7. Cardinality(U) = Cardinality(S) - 1 /\ Cardinality(S) \in Nat
  BY <1>3, <1>5, FS_RemoveElement, FS_CardinalityType
<1>8. f[x] \in Nat /\ f[x] <= most
  BY <1>5
<1>9. Good(S)
  <2> DEFINE m == Cardinality(S)
             t == SumOver(f, U)
             v == f[x]
  <2>1. m \in Nat /\ t \in Nat /\ t <= most * (m - 1) /\ v \in Nat /\ v <= most
    BY <1>6, <1>7, <1>8
  <2>2. SumOver(f, S) = v + t
    BY <1>5
  <2> HIDE DEF m, t, v
  <2>3. v + t \in Nat /\ v + t <= most * m
    BY <2>1
  <2> QED
    BY <2>2, <2>3 DEF m
<1> QED
  BY <1>9

LEMMA SumIsNumber ==
  ASSUME NEW D, IsFiniteSet(D), NEW f, \A x \in D : f[x] \in Int
  PROVE  \A S \in SUBSET D : SumOver(f, S) \in Int
<1> DEFINE Bad == {S \in SUBSET D : SumOver(f, S) \notin Int}
<1>1. SUFFICES ASSUME Bad # {} PROVE FALSE
  OBVIOUS
<1>2. PICK S \in Bad : \A U \in Bad : U \subseteq S => U = S
  <2> HIDE DEF Bad
  <2>1. Bad \in SUBSET (SUBSET D)
    BY DEF Bad
  <2> QED
    BY <1>1, <2>1, SmallestSubset
<1>3. S # {} /\ IsFiniteSet(S)
  <2>1. SumOver(f, {}) \in Int
    BY SumOfNothing
  <2>2. S \in SUBSET D /\ SumOver(f, S) \notin Int
    OBVIOUS
  <2> HIDE DEF Bad
  <2> QED
    BY <2>1, <2>2, FS_Subset
<1> DEFINE x == Some(S)
           U == S \ {x}
<1>4. x \in S /\ SumOver(f, S) = f[x] + SumOver(f, U)
  BY <1>3, SumStep
<1>5. SumOver(f, U) \in Int
  <2>1. U \in SUBSET D /\ U \subseteq S /\ U # S
    BY <1>4
  <2> HIDE DEF U
  <2> QED
    BY <1>2, <2>1
<1>6. f[x] \in Int
  BY <1>4
<1> QED
  BY <1>4, <1>5, <1>6

\* A sum does not depend on the order of its terms.
LEMMA SumWithout ==
  ASSUME NEW D, IsFiniteSet(D), NEW f, \A x \in D : f[x] \in Int
  PROVE  \A S \in SUBSET D : \A x \in S : SumOver(f, S) = f[x] + SumOver(f, S \ {x})
<1> DEFINE Bad == {S \in SUBSET D : \E x \in S : SumOver(f, S) # f[x] + SumOver(f, S \ {x})}
<1>1. SUFFICES ASSUME Bad # {} PROVE FALSE
  OBVIOUS
<1>2. PICK S \in Bad : \A U \in Bad : U \subseteq S => U = S
  <2> HIDE DEF Bad
  <2>1. Bad \in SUBSET (SUBSET D)
    BY DEF Bad
  <2> QED
    BY <1>1, <2>1, SmallestSubset
<1>3. PICK x \in S : SumOver(f, S) # f[x] + SumOver(f, S \ {x})
  OBVIOUS
<1> DEFINE a == Some(S)
<1>4. IsFiniteSet(S) /\ S # {}
  BY FS_Subset
<1>5. a \in S /\ SumOver(f, S) = f[a] + SumOver(f, S \ {a})
  BY <1>4, SumStep
<1>6. a # x
  BY <1>3, <1>5
<1> HIDE DEF a
<1>7. ASSUME NEW y \in S, NEW z \in S, y # z
      PROVE  SumOver(f, S \ {y}) = f[z] + SumOver(f, S \ {y, z})
  <2> DEFINE U == S \ {y}
  <2>1. U \in SUBSET D /\ U \subseteq S /\ U # S /\ z \in U /\ U \ {z} = S \ {y, z}
    BY <1>7
  <2>2. U \notin Bad
    <3> HIDE DEF U, Bad
    <3> QED
      BY <1>2, <2>1
  <2> HIDE DEF U
  <2>3. SumOver(f, U) = f[z] + SumOver(f, U \ {z})
    BY <2>1, <2>2
  <2> QED
    BY <2>1, <2>3 DEF U
<1>8. S \ {a, x} = S \ {x, a}
  OBVIOUS
<1>9. /\ SumOver(f, S \ {a}) = f[x] + SumOver(f, S \ {a, x})
      /\ SumOver(f, S \ {x}) = f[a] + SumOver(f, S \ {a, x})
  BY <1>5, <1>6, <1>7, <1>8
<1>10. f[a] \in Int /\ f[x] \in Int /\ SumOver(f, S \ {a, x}) \in Int
  <2>1. S \ {a, x} \in SUBSET D
    OBVIOUS
  <2> QED
    BY <1>5, <2>1, SumIsNumber
<1> QED
  BY <1>3, <1>5, <1>9, <1>10

\* Terms that are zero may be left out.
LEMMA SumOfOthers ==
  ASSUME NEW D, IsFiniteSet(D), NEW f, NEW g, NEW S \in SUBSET D,
         \A x \in D : f[x] \in Int, \A x \in S : f[x] = g[x], \A x \in D \ S : f[x] = 0
  PROVE  SumOver(f, D) = SumOver(g, S)
<1> DEFINE Bad == {T \in SUBSET D : SumOver(f, T) # SumOver(g, T \cap S)}
<1>1. SUFFICES ASSUME Bad # {} PROVE FALSE
  <2>1. SumOver(f, D) = SumOver(g, D \cap S)
    BY <1>1
  <2>2. D \cap S = S
    OBVIOUS
  <2> QED
    BY <2>1, <2>2
<1>2. PICK T \in Bad : \A U \in Bad : U \subseteq T => U = T
  <2> HIDE DEF Bad
  <2>1. Bad \in SUBSET (SUBSET D)
    BY DEF Bad
  <2> QED
    BY <1>1, <2>1, SmallestSubset
<1>3. T # {}
  <2>1. {} \cap S = {}
    OBVIOUS
  <2> QED
    BY <2>1, SumOfNothing
<1>4. PICK x \in T : TRUE
  BY <1>3
<1> DEFINE U == T \ {x}
<1>5. SumOver(f, U) = SumOver(g, U \cap S)
  <2>1. U \in SUBSET D /\ U \subseteq T /\ U # T
    OBVIOUS
  <2> HIDE DEF U
  <2> QED
    BY <1>2, <2>1
<1>6. SumOver(f, T) = f[x] + SumOver(f, U)
  BY SumWithout
<1>7. SumOver(f, U) \in Int
  BY SumIsNumber
<1>8. CASE x \in S
  <2> DEFINE V == T \cap S
             W == U \cap S
  <2>1. x \in V /\ V \ {x} = W /\ V \in SUBSET S
    BY <1>8
  <2>2. f[x] = g[x]
    BY <1>8
  <2>3. SumOver(f, T) = SumOver(g, V)
    <3> HIDE DEF U, V, W
    <3>1. SumOver(g, V) = g[x] + SumOver(g, V \ {x})
      <4>1. IsFiniteSet(S) /\ \A y \in S : g[y] \in Int
        BY FS_Subset
      <4> QED
        BY <2>1, <4>1, SumWithout
    <3>2. SumOver(g, V) = g[x] + SumOver(g, W)
      BY <2>1, <3>1, Zenon
    <3>3. SumOver(f, U) = SumOver(g, W)
      BY <1>5 DEF W
    <3> QED
      BY <1>6, <2>2, <3>2, <3>3, Zenon
  <2> QED
    BY <2>3
<1>9. CASE x \notin S
  <2>1. T \cap S = U \cap S /\ f[x] = 0
    BY <1>9
  <2>2. SumOver(f, T) = SumOver(f, U)
    <3> HIDE DEF U
    <3> QED
      BY <1>6, <1>7, <2>1
  <2>3. SumOver(g, T \cap S) = SumOver(g, U \cap S)
    BY <2>1, Zenon
  <2> QED
    BY <1>5, <2>2, <2>3, Zenon
<1> QED
  BY <1>8, <1>9

Among(V, class, T) == {i \in V : class[i] \in T}

\* Entries counted class by class are all those of some class.
LEMMA CountedByClass ==
  ASSUME NEW V, IsFiniteSet(V), NEW M, IsFiniteSet(M), NEW class, NEW f,
         \A m \in M : f[m] = Cardinality(Among(V, class, {m}))
  PROVE  SumOver(f, M) = Cardinality(Among(V, class, M))
<1> DEFINE of(m) == {i \in V : class[i] = m}
           among(T) == Among(V, class, T)
           Bad == {T \in SUBSET M : SumOver(f, T) # Cardinality(among(T))}
<1>1. SUFFICES ASSUME Bad # {} PROVE FALSE
  OBVIOUS
<1>2. PICK T \in Bad : \A U \in Bad : U \subseteq T => U = T
  <2> HIDE DEF Bad
  <2>1. Bad \in SUBSET (SUBSET M)
    BY DEF Bad
  <2> QED
    BY <1>1, <2>1, SmallestSubset
<1>3. T # {}
  <2>1. among({}) = {}
    BY DEF Among
  <2> QED
    BY <2>1, SumOfNothing, FS_EmptySet
<1> DEFINE m == Some(T)
           U == T \ {m}
<1>4. m \in T /\ SumOver(f, T) = f[m] + SumOver(f, U)
  BY <1>3, SumStep, FS_Subset
<1>5. SumOver(f, U) = Cardinality(among(U))
  <2>1. U \in SUBSET M /\ U \subseteq T /\ U # T
    BY <1>4
  <2>2. U \notin Bad
    <3> HIDE DEF U, Bad
    <3> QED
      BY <1>2, <2>1
  <2> HIDE DEF U
  <2> QED
    BY <2>1, <2>2
<1>6. f[m] = Cardinality(of(m))
  <2>1. Among(V, class, {m}) = of(m)
    BY DEF Among
  <2> QED
    BY <1>4, <2>1
<1>7. among(T) = of(m) \cup among(U) /\ of(m) \cap among(U) = {}
  BY <1>4 DEF Among
<1>8. of(m) \in SUBSET V /\ among(U) \in SUBSET V
  BY DEF Among
<1>9. Cardinality(among(T)) = Cardinality(of(m)) + Cardinality(among(U))
  <2> HIDE DEF of, among
  <2>1. /\ IsFiniteSet(of(m)) /\ IsFiniteSet(among(U))
        /\ Cardinality(of(m)) \in Nat /\ Cardinality(among(U)) \in Nat
    BY <1>8, FS_Subset, FS_CardinalityType
  <2>2. Cardinality(of(m) \cup among(U)) =
          Cardinality(of(m)) + Cardinality(among(U)) - Cardinality(of(m) \cap among(U))
    BY <2>1, FS_Union
  <2>3. Cardinality(of(m) \cap among(U)) = 0
    BY <1>7, FS_EmptySet
  <2> QED
    BY <1>7, <2>1, <2>2, <2>3
<1>10. SumOver(f, T) = Cardinality(among(T))
  BY <1>4, <1>5, <1>6, <1>9
<1> QED
  BY <1>10
=============================================================================
