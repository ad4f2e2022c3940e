------------------------------ MODULE DataLemmas -----------------------------
(***************************************************************************)
(* Facts about data that several components need.  Sums of natural numbers *)
(* over finite sets are what the books of the ledger and the budgets of    *)
(* the concurrency groups are reckoned with: a sum is reduced to a         *)
(* cardinality (SumIsUnits: the number of pairs of an element and a unit   *)
(* of it), for which the library has theorems.  Recursive functions are    *)
(* what the scan of the queue and the walks along a lineage are written    *)
(* with: they exist, are unique, and keep what each step keeps.  Induction *)
(* goes by a smallest counterexample (LeastNatural, Smallest).             *)
(***************************************************************************)
EXTENDS Integers, FiniteSetsExt, Functions, FiniteSetTheorems, NaturalsInduction,
        TLAPS

(* A nonempty set of naturals has a least element.                         *)
LEMMA LeastNatural ==
  ASSUME NEW T \in SUBSET Nat, T # {}
  PROVE  \E x \in T : \A y \in T : x <= y
<1> DEFINE Smaller == {p \in Nat \X Nat : p[1] < p[2]}
<1>1. IsWellFoundedOn(Smaller, Nat)
  BY NatLessThanWellFounded DEF OpToRel
<1>2. PICK x \in T : \A y \in T : <<y, x>> \notin Smaller
  <2> HIDE DEF Smaller
  <2> QED BY <1>1, WFMin
<1>3. \A y \in T : <<y, x>> \in Nat \X Nat
  OBVIOUS
<1>4. \A y \in T : ~(y < x)
  BY <1>2, <1>3
<1> QED BY <1>4

(* Among finite sets there is one with the fewest elements.                *)
LEMMA Smallest ==
  ASSUME NEW C, C # {}, \A S \in C : IsFiniteSet(S)
  PROVE  \E S \in C : \A T \in C : Cardinality(S) <= Cardinality(T)
<1> DEFINE Sizes == {Cardinality(S) : S \in C}
<1>1. \A S \in C : Cardinality(S) \in Nat
  BY FS_CardinalityType
<1>2. Sizes \in SUBSET Nat /\ Sizes # {}
  BY <1>1
<1>3. PICK n \in Sizes : \A m \in Sizes : n <= m
  <2> HIDE DEF Sizes
  <2> QED BY <1>2, LeastNatural
<1>4. PICK S \in C : n = Cardinality(S)
  OBVIOUS
<1> QED BY <1>3, <1>4

(* What w1, ..., wn cost together, as so many units: <<w, i>> is the i-th  *)
(* unit of w.                                                              *)
Units(S, c) == {p \in S \X Nat : 1 <= p[2] /\ p[2] <= c[p[1]]}

LEMMA UnitsOfOne ==
  ASSUME NEW x, NEW c, c[x] \in Nat
  PROVE  IsFiniteSet(Units({x}, c)) /\ Cardinality(Units({x}, c)) = c[x]
<1>1. Units({x}, c) = {x} \X (1..c[x])
  BY DEF Units
<1>2. IsFiniteSet(1..c[x]) /\ Cardinality(1..c[x]) = c[x]
  BY FS_Interval
<1>3. IsFiniteSet({x}) /\ Cardinality({x}) = 1
  BY FS_Singleton
<1>4. /\ IsFiniteSet({x} \X (1..c[x]))
      /\ Cardinality({x} \X (1..c[x])) = Cardinality({x}) * Cardinality(1..c[x])
  BY <1>2, <1>3, FS_Product
<1>5. Cardinality({x} \X (1..c[x])) = c[x]
  <2>1. 1 * c[x] = c[x]
    OBVIOUS
  <2> QED BY <1>2, <1>3, <1>4, <2>1, Zenon
<1> QED BY <1>1, <1>4, <1>5, Zenon

(* Finitely many works cost finitely many units.                           *)
LEMMA UnitsFinite ==
  ASSUME NEW S, IsFiniteSet(S), NEW c, \A x \in S : c[x] \in Nat
  PROVE  IsFiniteSet(Units(S, c))
<1> DEFINE Parts == {Units({x}, c) : x \in S}
<1>1. IsFiniteSet(Parts)
  <2> DEFINE f == [x \in S |-> Units({x}, c)]
  <2>1. f \in Surjection(S, Parts)
    BY DEF Surjection
  <2> HIDE DEF f, Parts
  <2> QED BY <2>1, FS_Surjection
<1>2. \A T \in Parts : IsFiniteSet(T)
  BY UnitsOfOne
<1>3. IsFiniteSet(UNION Parts)
  <2> HIDE DEF Parts
  <2> QED BY <1>1, <1>2, FS_UNION
<1>4. Units(S, c) = UNION Parts
  BY DEF Units
<1> QED BY <1>3, <1>4

(* Units of disjoint sets add up.                                          *)
LEMMA UnitsAdd ==
  ASSUME NEW S, IsFiniteSet(S), NEW T \in SUBSET S, NEW c, \A x \in S : c[x] \in Nat
  PROVE  /\ Cardinality(Units(S, c)) = Cardinality(Units(T, c)) + Cardinality(Units(S \ T, c))
         /\ Cardinality(Units(T, c)) \in Nat
         /\ Cardinality(Units(S \ T, c)) \in Nat
<1>1. IsFiniteSet(T) /\ IsFiniteSet(S \ T)
  BY FS_Subset, FS_Difference
<1>2. IsFiniteSet(Units(T, c)) /\ IsFiniteSet(Units(S \ T, c))
  BY <1>1, UnitsFinite
<1>3. /\ Units(S, c) = Units(T, c) \cup Units(S \ T, c)
      /\ Units(T, c) \cap Units(S \ T, c) = {}
  BY DEF Units
<1>4. /\ Cardinality(Units(T, c)) \in Nat
      /\ Cardinality(Units(S \ T, c)) \in Nat
  BY <1>2, FS_CardinalityType
<1> DEFINE A == Units(T, c)
           B == Units(S \ T, c)
<1>5. Cardinality(A \cup B) = Cardinality(A) + Cardinality(B) - Cardinality(A \cap B)
  <2>1. IsFiniteSet(A) /\ IsFiniteSet(B)
    BY <1>2
  <2> HIDE DEF A, B
  <2> QED BY <2>1, FS_Union
<1>6. Cardinality(A \cap B) = 0
  BY <1>3, FS_EmptySet
<1> QED BY <1>3, <1>4, <1>5, <1>6

(* The sum of a function over a finite set is the number of its units.     *)
LEMMA SumIsUnits ==
  ASSUME NEW S, IsFiniteSet(S), NEW c, \A x \in S : c[x] \in Nat
  PROVE  SumFunctionOnSet(c, S) = Cardinality(Units(S, c))
<1> DEFINE One(T) == CHOOSE x \in T : TRUE
           Body(h) == [T \in SUBSET S |-> IF T = {} THEN 0 ELSE c[One(T)] + h[T \ {One(T)}]]
           iter == CHOOSE h : h = Body(h)
           g == [T \in SUBSET S |-> Cardinality(Units(T, c))]
<1>1. SumFunctionOnSet(c, S) = iter[S]
  BY DEF SumFunctionOnSet, FoldFunctionOnSet, MapThenFoldSet
<1>2. \A T \in SUBSET S : T # {} => One(T) \in T
  OBVIOUS
<1>3. \A T \in SUBSET S : IsFiniteSet(T) /\ Cardinality(T) \in Nat
  BY FS_Subset, FS_CardinalityType
<1>4. \A T \in SUBSET S : \A x \in T :
        Cardinality(Units(T, c)) = c[x] + Cardinality(Units(T \ {x}, c))
  <2> SUFFICES ASSUME NEW T \in SUBSET S, NEW x \in T
               PROVE  Cardinality(Units(T, c)) = c[x] + Cardinality(Units(T \ {x}, c))
    OBVIOUS
  <2>1. Cardinality(Units(T, c)) = Cardinality(Units({x}, c)) + Cardinality(Units(T \ {x}, c))
    <3> DEFINE U == {x}
    <3>1. IsFiniteSet(T) /\ U \in SUBSET T /\ \A y \in T : c[y] \in Nat
      BY <1>3
    <3>2. /\ Cardinality(Units(T, c)) = Cardinality(Units(U, c)) + Cardinality(Units(T \ U, c))
          /\ Cardinality(Units(U, c)) \in Nat
          /\ Cardinality(Units(T \ U, c)) \in Nat
      <4> HIDE DEF U
      <4> QED BY <3>1, UnitsAdd
    <3> QED BY <3>2
  <2>2. Cardinality(Units({x}, c)) = c[x]
    BY UnitsOfOne
  <2> QED BY <2>1, <2>2
<1>5. Cardinality(Units({}, c)) = 0
  <2>1. Units({}, c) = {}
    BY DEF Units
  <2> QED BY <2>1, FS_EmptySet
<1> HIDE DEF One
<1>6. g = Body(g)
  <2>1. \A T \in SUBSET S : g[T] = IF T = {} THEN 0 ELSE c[One(T)] + g[T \ {One(T)}]
    BY <1>2, <1>4, <1>5
  <2> QED BY <2>1
<1>7. iter = Body(iter)
  <2> HIDE DEF Body, g
  <2> QED BY <1>6
<1>8. \A T \in SUBSET S : iter[T] = g[T]
  <2> SUFFICES ASSUME \E T \in SUBSET S : iter[T] # g[T] PROVE FALSE
    OBVIOUS
  <2> DEFINE Bad == {T \in SUBSET S : iter[T] # g[T]}
  <2>1. PICK T \in Bad : \A U \in Bad : Cardinality(T) <= Cardinality(U)
    <3>1. Bad # {} /\ \A U \in Bad : IsFiniteSet(U)
      BY <1>3
    <3> HIDE DEF Bad
    <3> QED BY <3>1, Smallest
  <2> HIDE DEF iter, g
  <2>2. iter[T] = IF T = {} THEN 0 ELSE c[One(T)] + iter[T \ {One(T)}]
    BY <1>7
  <2>3. g[T] = IF T = {} THEN 0 ELSE c[One(T)] + g[T \ {One(T)}]
    BY <1>6
  <2>4. T # {} => One(T) \in T
    BY <1>2
  <2>5. T # {} => Cardinality(T \ {One(T)}) < Cardinality(T)
    BY <2>4, <1>3, FS_RemoveElement
  <2>6. T # {} => T \ {One(T)} \notin Bad
    <3> SUFFICES ASSUME T # {}, T \ {One(T)} \in Bad PROVE FALSE
      OBVIOUS
    <3>1. Cardinality(T) <= Cardinality(T \ {One(T)})
      BY <2>1
    <3> QED BY <3>1, <2>5, <1>3
  <2> QED BY <2>2, <2>3, <2>6
<1> HIDE DEF iter
<1> QED BY <1>1, <1>8

-----------------------------------------------------------------------------
(* How sums are used.                                                      *)

(* A sum depends only on the values at the summed elements.                *)
LEMMA SumSame ==
  ASSUME NEW S, IsFiniteSet(S), NEW c, NEW d,
         \A x \in S : c[x] \in Nat /\ d[x] = c[x]
  PROVE  SumFunctionOnSet(c, S) = SumFunctionOnSet(d, S)
<1>1. Units(S, c) = Units(S, d)
  BY DEF Units
<1> QED BY <1>1, SumIsUnits

(* A sum of naturals is one.                                               *)
LEMMA SumNat ==
  ASSUME NEW S, IsFiniteSet(S), NEW c, \A x \in S : c[x] \in Nat
  PROVE  SumFunctionOnSet(c, S) \in Nat
BY SumIsUnits, UnitsFinite, FS_CardinalityType

(* The sum over one element.                                               *)
LEMMA SumOne ==
  ASSUME NEW x, NEW c, c[x] \in Nat
  PROVE  SumFunctionOnSet(c, {x}) = c[x]
<1>1. IsFiniteSet({x})
  BY FS_Singleton
<1>2. SumFunctionOnSet(c, {x}) = Cardinality(Units({x}, c))
  <2> DEFINE S == {x}
  <2>1. IsFiniteSet(S) /\ \A y \in S : c[y] \in Nat
    BY <1>1
  <2>2. SumFunctionOnSet(c, S) = Cardinality(Units(S, c))
    <3> HIDE DEF S
    <3> QED BY <2>1, SumIsUnits
  <2> QED BY <2>2
<1> QED BY <1>2, UnitsOfOne

(* A sum splits into the sums over a part and over the rest.               *)
LEMMA SumSplit ==
  ASSUME NEW S, IsFiniteSet(S), NEW T \in SUBSET S, NEW c, \A x \in S : c[x] \in Nat
  PROVE  /\ SumFunctionOnSet(c, S) = SumFunctionOnSet(c, T) + SumFunctionOnSet(c, S \ T)
         /\ SumFunctionOnSet(c, T) \in Nat
         /\ SumFunctionOnSet(c, S \ T) \in Nat
<1>1. IsFiniteSet(T) /\ IsFiniteSet(S \ T)
  BY FS_Subset, FS_Difference
<1>2. /\ SumFunctionOnSet(c, S) = Cardinality(Units(S, c))
      /\ SumFunctionOnSet(c, T) = Cardinality(Units(T, c))
      /\ SumFunctionOnSet(c, S \ T) = Cardinality(Units(S \ T, c))
  BY <1>1, SumIsUnits
<1> QED BY <1>2, UnitsAdd

(* The least of a nonempty set of naturals.                                *)
LEMMA MinIsLeast ==
  ASSUME NEW T \in SUBSET Nat, T # {}
  PROVE  Min(T) \in T /\ \A y \in T : Min(T) <= y
<1>1. PICK x \in T : \A y \in T : x <= y
  BY LeastNatural
<1> QED BY <1>1 DEF Min

(* A sum with one more element.                                            *)
LEMMA SumGrows ==
  ASSUME NEW S, IsFiniteSet(S), NEW x, x \notin S, NEW c, NEW d, d[x] \in Nat,
         \A y \in S : c[y] \in Nat /\ d[y] = c[y]
  PROVE  SumFunctionOnSet(d, S \cup {x}) = SumFunctionOnSet(c, S) + d[x]
<1> DEFINE T == S \cup {x}
<1>1. IsFiniteSet(T) /\ S \in SUBSET T /\ T \ S = {x}
  BY FS_AddElement
<1>2. \A y \in T : d[y] \in Nat
  OBVIOUS
<1>3. SumFunctionOnSet(d, T) = SumFunctionOnSet(d, S) + SumFunctionOnSet(d, T \ S)
  <2> HIDE DEF T
  <2> QED BY <1>1, <1>2, SumSplit
<1>4. SumFunctionOnSet(d, {x}) = d[x]
  BY SumOne
<1>5. SumFunctionOnSet(c, S) = SumFunctionOnSet(d, S)
  BY SumSame
<1> QED BY <1>1, <1>3, <1>4, <1>5

(* A sum with one element less.                                            *)
LEMMA SumShrinks ==
  ASSUME NEW S, IsFiniteSet(S), NEW x \in S, NEW c, NEW d,
         \A y \in S : c[y] \in Nat, \A y \in S \ {x} : d[y] = c[y]
  PROVE  /\ SumFunctionOnSet(c, S) = SumFunctionOnSet(d, S \ {x}) + c[x]
         /\ SumFunctionOnSet(d, S \ {x}) \in Nat
<1> DEFINE T == S \ {x}
<1>1. IsFiniteSet(T) /\ x \notin T /\ S = T \cup {x}
  BY FS_RemoveElement
<1>2. \A y \in T : c[y] \in Nat /\ d[y] \in Nat /\ c[y] = d[y]
  OBVIOUS
<1>3. c[x] \in Nat
  OBVIOUS
<1> HIDE DEF T
<1>4. SumFunctionOnSet(c, T \cup {x}) = SumFunctionOnSet(d, T) + c[x]
  <2>1. \A y \in T : d[y] \in Nat /\ c[y] = d[y]
    BY <1>2
  <2> QED BY <1>1, <1>3, <2>1, SumGrows
<1>5. SumFunctionOnSet(d, T) \in Nat
  BY <1>1, <1>2, SumNat
<1> QED BY <1>1, <1>4, <1>5 DEF T

-----------------------------------------------------------------------------
(* Functions defined by recursion: there is one, and only one.  The step is *)
(* given as a function, so that the lemmas can be used.                    *)

(* N steps on the elements of S. *)
Steps(F, N, S) == \A i \in 1..N : \A x \in S : F[i][x] \in S

(* f goes from a through the first n steps of F. *)
Follows(f, n, S, a, F) ==
  f \in [0..n -> S] /\ f[0] = a /\ \A i \in 1..n : f[i] = F[i][f[i - 1]]

LEMMA IteratesExist ==
  ASSUME NEW N \in Nat, NEW S, NEW a \in S, NEW F, Steps(F, N, S)
  PROVE  \E f : Follows(f, N, S, a, F)
<1> USE DEF Steps, Follows
<1> DEFINE Reached(n) == \E f : Follows(f, n, S, a, F)
           Bad == {n \in 0..N : ~Reached(n)}
<1>1. SUFFICES ASSUME N \in Bad PROVE FALSE
  OBVIOUS
<1>2. PICK n \in Bad : \A m \in Bad : n <= m
  <2>1. Bad \in SUBSET Nat /\ Bad # {}
    BY <1>1
  <2> HIDE DEF Bad
  <2> QED BY <2>1, LeastNatural
<1>3. n \in 0..N /\ ~Reached(n)
  BY <1>2
<1>4. CASE n = 0
  <2> DEFINE f == [i \in 0..n |-> a]
  <2>1. f \in [0..n -> S] /\ f[0] = a /\ \A i \in 1..n : FALSE
    BY <1>4
  <2> QED BY <1>3, <2>1
<1>5. CASE n # 0
  <2>1. n - 1 \in 0..N /\ n - 1 \notin Bad
    <3> HIDE DEF Bad, Reached
    <3> QED BY <1>2, <1>3, <1>5
  <2>2. Reached(n - 1)
    BY <2>1
  <2>3. PICK f : Follows(f, n - 1, S, a, F)
    BY <2>2
  <2> DEFINE g == [i \in 0..n |-> IF i = n THEN F[n][f[n - 1]] ELSE f[i]]
  <2>4. n \in 1..N /\ f[n - 1] \in S
    BY <1>3, <1>5, <2>3
  <2>5. F[n][f[n - 1]] \in S
    BY <2>4
  <2>6. g \in [0..n -> S]
    <3>1. \A i \in 0..n : i # n => i \in 0..(n - 1)
      BY <1>3
    <3> QED BY <2>3, <2>5, <3>1
  <2>7. g[0] = a
    BY <1>3, <1>5, <2>3
  <2>8. ASSUME NEW i \in 1..n PROVE g[i] = F[i][g[i - 1]]
    <3>1. i - 1 \in 0..(n - 1) /\ i - 1 # n /\ i - 1 \in 0..n /\ i \in 0..n
      BY <1>3
    <3>2. g[i - 1] = f[i - 1]
      BY <3>1
    <3>3. CASE i = n
      BY <3>1, <3>2, <3>3
    <3>4. CASE i # n
      <4>1. i \in 1..(n - 1)
        BY <1>3, <3>4
      <4>2. g[i] = f[i] /\ f[i] = F[i][f[i - 1]]
        BY <2>3, <3>1, <3>4, <4>1
      <4> QED BY <3>2, <4>2
    <3> QED BY <3>3, <3>4
  <2> HIDE DEF g
  <2> QED BY <1>3, <2>6, <2>7, <2>8
<1> QED BY <1>4, <1>5

(* f and g start alike, and step alike wherever they agree. *)
StepsAlike(f, g, N) ==
  f[0] = g[0] /\ \A i \in 1..N : f[i - 1] = g[i - 1] => f[i] = g[i]

(* Two functions that start alike and step alike agree.                    *)
LEMMA IteratesUnique ==
  ASSUME NEW N \in Nat, NEW f, NEW g, StepsAlike(f, g, N)
  PROVE  \A i \in 0..N : f[i] = g[i]
<1> USE DEF StepsAlike
<1> DEFINE Bad == {n \in 0..N : f[n] # g[n]}
<1>1. SUFFICES ASSUME Bad # {} PROVE FALSE
  OBVIOUS
<1>2. PICK n \in Bad : \A m \in Bad : n <= m
  <2>1. Bad \in SUBSET Nat
    OBVIOUS
  <2> HIDE DEF Bad
  <2> QED BY <1>1, <2>1, LeastNatural
<1>3. n # 0 /\ n \in 1..N
  BY <1>2
<1>4. n - 1 \in 0..N /\ n - 1 \notin Bad
  BY <1>2, <1>3
<1>5. f[n - 1] = g[n - 1]
  BY <1>4
<1> QED BY <1>2, <1>3, <1>5

(* A property of the start that every step keeps is one of every iterate.  *)
LEMMA IteratesKeep ==
  ASSUME NEW N \in Nat, NEW f, NEW Good, f[0] \in Good,
         \A i \in 1..N : f[i - 1] \in Good => f[i] \in Good
  PROVE  \A i \in 0..N : f[i] \in Good
<1> DEFINE Bad == {n \in 0..N : f[n] \notin Good}
<1>1. SUFFICES ASSUME Bad # {} PROVE FALSE
  OBVIOUS
<1>2. PICK n \in Bad : \A m \in Bad : n <= m
  <2>1. Bad \in SUBSET Nat
    OBVIOUS
  <2> HIDE DEF Bad
  <2> QED BY <1>1, <2>1, LeastNatural
<1>3. n # 0 /\ n \in 1..N
  BY <1>2
<1>4. n - 1 \in 0..N /\ n - 1 \notin Bad
  BY <1>2, <1>3
<1>5. f[n - 1] \in Good
  BY <1>4
<1> QED BY <1>2, <1>3, <1>5

(* Every step along next from outside Stop goes down in rank. *)
Descends(S, rank, Stop, next) ==
  \A p \in S \ Stop : next[p] \in S /\ rank[next[p]] < rank[p]

(* f is where the walk from each element ends. *)
EndsAt(f, S, Stop, end, next) ==
  \A p \in S : f[p] = IF p \in Stop THEN end[p] ELSE f[next[p]]

(* A walk that goes down in rank until it may stop ends somewhere.         *)
LEMMA WalksExist ==
  ASSUME NEW S, NEW rank \in [S -> Nat], NEW Stop \in SUBSET S, NEW V, NEW end, NEW next,
         \A p \in Stop : end[p] \in V, Descends(S, rank, Stop, next)
  PROVE  \E f : f \in [S -> V] /\ EndsAt(f, S, Stop, end, next)
<1> USE DEF Descends, EndsAt
<1> DEFINE Low(n) == {p \in S : rank[p] < n}
           Walked(n) == \E f \in [Low(n) -> V] : \A p \in Low(n) :
                          f[p] = IF p \in Stop THEN end[p] ELSE f[next[p]]
           Bad == {n \in Nat : ~Walked(n)}
<1>1. \A n \in Nat : Walked(n)
  <2>1. SUFFICES ASSUME Bad # {} PROVE FALSE
    OBVIOUS
  <2>2. PICK n \in Bad : \A m \in Bad : n <= m
    <3>1. Bad \in SUBSET Nat
      OBVIOUS
    <3> HIDE DEF Bad
    <3> QED BY <2>1, <3>1, LeastNatural
  <2>3. n \in Nat /\ ~Walked(n)
    BY <2>2
  <2>4. CASE n = 0
    <3> DEFINE f == [p \in Low(n) |-> end[p]]
    <3>1. \A p \in Low(n) : FALSE
      BY <2>4
    <3>2. f \in [Low(n) -> V] /\ \A p \in Low(n) :
                          f[p] = IF p \in Stop THEN end[p] ELSE f[next[p]]
      BY <3>1
    <3> QED BY <2>3, <3>2
  <2>5. CASE n # 0
    <3>1. n - 1 \in Nat /\ n - 1 \notin Bad
      <4> HIDE DEF Bad, Walked
      <4> QED BY <2>2, <2>3, <2>5
    <3>2. Walked(n - 1)
      BY <3>1
    <3>3. PICK f \in [Low(n - 1) -> V] : \A p \in Low(n - 1) :
            f[p] = IF p \in Stop THEN end[p] ELSE f[next[p]]
      BY <3>2
    <3> DEFINE g == [p \in Low(n) |-> IF p \in Stop THEN end[p] ELSE f[next[p]]]
    <3>4. \A p \in Low(n) \ Stop : next[p] \in Low(n - 1)
      <4> SUFFICES ASSUME NEW p \in Low(n) \ Stop PROVE next[p] \in Low(n - 1)
        OBVIOUS
      <4>1. p \in S \ Stop /\ rank[p] < n /\ rank[p] \in Nat
        OBVIOUS
      <4>2. next[p] \in S /\ rank[next[p]] < rank[p] /\ rank[next[p]] \in Nat
        BY <4>1
      <4>3. rank[next[p]] < n - 1
        BY <2>3, <4>1, <4>2
      <4> QED BY <4>2, <4>3
    <3>5. Low(n - 1) \subseteq Low(n)
      BY <2>3
    <3>6. \A p \in Low(n - 1) : g[p] = f[p]
      BY <3>3, <3>5
    <3>7. g \in [Low(n) -> V]
      <4> SUFFICES ASSUME NEW p \in Low(n)
                   PROVE  (IF p \in Stop THEN end[p] ELSE f[next[p]]) \in V
        OBVIOUS
      <4> QED BY <3>4
    <3>8. ASSUME NEW p \in Low(n)
          PROVE  g[p] = IF p \in Stop THEN end[p] ELSE g[next[p]]
      BY <3>4, <3>6
    <3> HIDE DEF g
    <3> QED BY <2>3, <3>7, <3>8
  <2> QED BY <2>4, <2>5
<1> DEFINE F(n) == CHOOSE f \in [Low(n) -> V] : \A p \in Low(n) :
                     f[p] = IF p \in Stop THEN end[p] ELSE f[next[p]]
<1>2. \A n \in Nat : /\ F(n) \in [Low(n) -> V]
                     /\ \A p \in Low(n) : F(n)[p] = IF p \in Stop THEN end[p] ELSE F(n)[next[p]]
  BY <1>1
<1> HIDE DEF F
<1> DEFINE All == {p \in S : \A m, n \in Nat : p \in Low(m) /\ p \in Low(n) => F(m)[p] = F(n)[p]}
<1>3. ASSUME NEW p \in S PROVE p \in All
  <2> DEFINE Odd == {rank[x] : x \in S \ All}
  <2>1. SUFFICES ASSUME S \ All # {} PROVE FALSE
    OBVIOUS
  <2>2. PICK r \in Odd : \A s \in Odd : r <= s
    <3>1. Odd \in SUBSET Nat /\ Odd # {}
      BY <2>1
    <3> HIDE DEF Odd
    <3> QED BY <3>1, LeastNatural
  <2>3. PICK x \in S \ All : rank[x] = r
    BY <2>2
  <2>4. PICK m \in Nat, n \in Nat : x \in Low(m) /\ x \in Low(n) /\ F(m)[x] # F(n)[x]
    BY <2>3
  <2>5. CASE x \in Stop
    BY <1>2, <2>4, <2>5
  <2>6. CASE x \notin Stop
    <3>1. /\ next[x] \in S /\ rank[next[x]] < rank[x] /\ rank[next[x]] \in Nat
          /\ rank[x] \in Nat /\ rank[x] < m /\ rank[x] < n
      BY <2>3, <2>4, <2>6
    <3>2. next[x] \in Low(m) /\ next[x] \in Low(n)
      BY <3>1
    <3>3. next[x] \in All
      <4> SUFFICES ASSUME next[x] \notin All PROVE FALSE
        OBVIOUS
      <4>1. rank[next[x]] \in Odd
        BY <3>1
      <4> QED BY <2>2, <2>3, <3>1, <4>1
    <3>4. F(m)[next[x]] = F(n)[next[x]]
      BY <3>2, <3>3
    <3>5. F(m)[x] = F(m)[next[x]] /\ F(n)[x] = F(n)[next[x]]
      BY <1>2, <2>4, <2>6
    <3> QED BY <2>4, <3>4, <3>5
  <2> QED BY <2>5, <2>6
<1> DEFINE g == [p \in S |-> F(rank[p] + 1)[p]]
<1>4. \A p \in S : rank[p] + 1 \in Nat /\ p \in Low(rank[p] + 1)
  OBVIOUS
<1>5. g \in [S -> V]
  BY <1>2, <1>4
<1>6. ASSUME NEW p \in S PROVE g[p] = IF p \in Stop THEN end[p] ELSE g[next[p]]
  <2>1. g[p] = IF p \in Stop THEN end[p] ELSE F(rank[p] + 1)[next[p]]
    BY <1>2, <1>4
  <2>2. CASE p \notin Stop
    <3>1. next[p] \in S /\ rank[next[p]] < rank[p] /\ rank[next[p]] \in Nat
      BY <2>2
    <3>2. next[p] \in Low(rank[p] + 1)
      BY <3>1
    <3>3. F(rank[p] + 1)[next[p]] = F(rank[next[p]] + 1)[next[p]]
      BY <1>3, <1>4, <3>1, <3>2
    <3> QED BY <2>1, <2>2, <3>1, <3>3
  <2> QED BY <2>1, <2>2
<1> QED BY <1>5, <1>6

(* What holds of every end, and passes back along a step, holds of where   *)
(* the walk from anywhere ends.                                            *)
LEMMA WalksStay ==
  ASSUME NEW S, NEW rank \in [S -> Nat], NEW Stop \in SUBSET S, NEW V, NEW end, NEW next,
         Descends(S, rank, Stop, next), NEW f, EndsAt(f, S, Stop, end, next),
         \A p \in Stop : end[p] \in V[p],
         \A p \in S \ Stop : V[next[p]] \subseteq V[p]
  PROVE  \A p \in S : f[p] \in V[p]
<1> DEFINE Lost == {p \in S : f[p] \notin V[p]}
           Odd == {rank[x] : x \in Lost}
<1>1. SUFFICES ASSUME Lost # {} PROVE FALSE
  OBVIOUS
<1>2. PICK r \in Odd : \A s \in Odd : r <= s
  <2>1. Odd \in SUBSET Nat /\ Odd # {}
    BY <1>1
  <2> HIDE DEF Odd
  <2> QED BY <2>1, LeastNatural
<1>3. PICK x \in Lost : rank[x] = r
  BY <1>2
<1>4. CASE x \in Stop
  BY <1>3, <1>4 DEF EndsAt
<1>5. CASE x \notin Stop
  <2>1. /\ next[x] \in S /\ rank[next[x]] < rank[x]
        /\ rank[next[x]] \in Nat /\ rank[x] \in Nat
    BY <1>3, <1>5 DEF Descends
  <2>2. f[next[x]] \in V[next[x]]
    <3> SUFFICES ASSUME next[x] \in Lost PROVE FALSE
      BY <2>1
    <3>1. rank[next[x]] \in Odd
      OBVIOUS
    <3> HIDE DEF Odd
    <3> QED BY <1>2, <1>3, <2>1, <3>1
  <2>3. f[x] = f[next[x]] /\ V[next[x]] \subseteq V[x]
    BY <1>3, <1>5 DEF EndsAt
  <2> QED BY <1>3, <2>2, <2>3
<1> QED BY <1>4, <1>5

=============================================================================
