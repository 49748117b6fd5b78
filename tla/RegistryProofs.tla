--------------------------- MODULE RegistryProofs ---------------------------
(***************************************************************************)
(* The registry of Leases by itself (lease.go, pool.go): every operator    *)
(* from a registry to a registry, applied to one that keeps its promises   *)
(* (Core), returns one that does.  Core relates the counts, the holders,   *)
(* the pool, the queue and the kept places to H, what each scope holds of  *)
(* each entry; LeasesProofs takes H from the scopes.  serve is unfolded    *)
(* waiter by waiter, and each operator is a change of one entry, then      *)
(* waiters served (Moves), or a claim (Taken).                             *)
(***************************************************************************)
EXTENDS Leases, FiniteSetTheorems, SequenceTheorems, WellFoundedInduction, TLAPS

\* Every set of naturals that is not empty has a least element.
LEMMA LeastOf ==
    ASSUME NEW T \in SUBSET Nat, T # {}
    PROVE  \E x \in T : \A y \in T : x <= y
<1> DEFINE R == {ss \in Nat \X Nat : ss[1] < ss[2]}
<1>1. IsWellFoundedOn(R, Nat)
  BY NatLessThanWellFounded DEF OpToRel
<1>2. PICK x \in T : \A y \in T : ~ (<<y, x>> \in R)
  <2> HIDE DEF R
  <2> QED
    BY <1>1, WFMin
<1>3. \A y \in T : ~ (y < x)
  BY <1>2
<1> QED
  BY <1>3

-----------------------------------------------------------------------------
(* Sums.  SumFunction(f) is the number of pairs <<x, i>> with i in 1..f[x]. *)

\* An element x of S as many times as f[x] says.
Units(f, S) == UNION {{x} \X (1..f[x]) : x \in S}

\* One element's pairs apart from the others'.
LEMMA UnitsOf ==
    ASSUME NEW S, NEW f, NEW x \in S, f[x] \in Nat
    PROVE  /\ Units(f, S) = Units(f, S \ {x}) \cup ({x} \X (1..f[x]))
           /\ Units(f, S \ {x}) \cap ({x} \X (1..f[x])) = {}
           /\ IsFiniteSet({x} \X (1..f[x])) /\ Cardinality({x} \X (1..f[x])) = f[x]
<1>1. Units(f, S) = Units(f, S \ {x}) \cup ({x} \X (1..f[x]))
  BY DEF Units
<1>2. Units(f, S \ {x}) \cap ({x} \X (1..f[x])) = {}
  BY DEF Units
<1>3. IsFiniteSet(1..f[x]) /\ Cardinality(1..f[x]) = f[x]
  BY FS_Interval
<1>4. IsFiniteSet({x}) /\ Cardinality({x}) = 1
  BY FS_Singleton
<1>5. IsFiniteSet({x} \X (1..f[x])) /\ Cardinality({x} \X (1..f[x])) = 1 * f[x]
  BY <1>3, <1>4, FS_Product
<1>6. 1 * f[x] = f[x]
  OBVIOUS
<1>7. Cardinality({x} \X (1..f[x])) = f[x]
  BY <1>5, <1>6
<1> QED
  BY <1>1, <1>2, <1>5, <1>7

\* So they are as many as the element counts for, and the others'.
LEMMA UnitsStep ==
    ASSUME NEW S, NEW f, NEW x \in S, f[x] \in Nat, IsFiniteSet(Units(f, S \ {x}))
    PROVE  /\ IsFiniteSet(Units(f, S))
           /\ Cardinality(Units(f, S)) = f[x] + Cardinality(Units(f, S \ {x}))
           /\ Cardinality(Units(f, S \ {x})) \in Nat
<1>1. Cardinality(Units(f, S \ {x})) \in Nat
  BY FS_CardinalityType
<1>2. \A A, B : IsFiniteSet(A) /\ IsFiniteSet(B) /\ A \cap B = {} =>
          IsFiniteSet(A \cup B) /\ Cardinality(A \cup B) = Cardinality(A) + Cardinality(B)
  <2> SUFFICES ASSUME NEW A, NEW B, IsFiniteSet(A), IsFiniteSet(B), A \cap B = {}
               PROVE  IsFiniteSet(A \cup B) /\ Cardinality(A \cup B) = Cardinality(A) + Cardinality(B)
    OBVIOUS
  <2>1. IsFiniteSet(A \cup B) /\ Cardinality(A \cup B) = Cardinality(A) + Cardinality(B) - Cardinality(A \cap B)
    BY FS_Union
  <2>2. Cardinality(A \cap B) = 0 /\ Cardinality(A) \in Nat /\ Cardinality(B) \in Nat
    BY FS_EmptySet, FS_CardinalityType
  <2> QED
    BY <2>1, <2>2
<1>3. /\ IsFiniteSet(Units(f, S))
      /\ Cardinality(Units(f, S)) = Cardinality(Units(f, S \ {x})) + Cardinality({x} \X (1..f[x]))
  BY <1>2, UnitsOf
<1>4. Cardinality({x} \X (1..f[x])) = f[x]
  BY UnitsOf
<1> QED
  BY <1>1, <1>3, <1>4

\* A set whose elements are counted out one at a time.
LEMMA UnitsFinite ==
    ASSUME NEW S, IsFiniteSet(S), NEW f, \A x \in S : f[x] \in Nat
    PROVE  \A T \in SUBSET S : IsFiniteSet(Units(f, T))
<1> DEFINE Bad == {T \in SUBSET S : ~IsFiniteSet(Units(f, T))}
           N == {Cardinality(T) : T \in Bad}
<1>1. \A T \in SUBSET S : IsFiniteSet(T) /\ Cardinality(T) \in Nat
  BY FS_Subset, FS_CardinalityType
<1>2. SUFFICES ASSUME Bad # {} PROVE FALSE
  OBVIOUS
<1>3. PICK T \in Bad : \A U \in Bad : Cardinality(T) <= Cardinality(U)
  <2>1. N \in SUBSET Nat /\ N # {}
    BY <1>1, <1>2
  <2>2. PICK n \in N : \A m \in N : n <= m
    BY <2>1, LeastOf
  <2> QED
    BY <2>2
<1>4. T # {}
  <2>1. Units(f, {}) = {}
    BY DEF Units
  <2> QED
    BY <1>3, <2>1, FS_EmptySet
<1>5. PICK x \in T : TRUE
  BY <1>4
<1>6. T \ {x} \in SUBSET S /\ Cardinality(T \ {x}) = Cardinality(T) - 1
  BY <1>1, <1>3, <1>5, FS_RemoveElement
<1>7. T \ {x} \notin Bad
  BY <1>1, <1>3, <1>6
<1> QED
  BY <1>3, <1>5, <1>6, <1>7, UnitsStep

\* A sum of naturals counts the pairs.
LEMMA SumIs ==
    ASSUME NEW S, IsFiniteSet(S), NEW f, DOMAIN f = S, \A x \in S : f[x] \in Nat
    PROVE  SumFunction(f) = Cardinality(Units(f, S))
<1> DEFINE Eq(g) == g = [T \in SUBSET S |-> IF T = {} THEN 0
                           ELSE LET x == CHOOSE x \in T : TRUE IN f[x] + g[T \ {x}]]
           g0 == [T \in SUBSET S |-> Cardinality(Units(f, T))]
           h == CHOOSE g : Eq(g)
<1>1. SumFunction(f) = h[S]
  BY DEF SumFunction, SumFunctionOnSet, FoldFunctionOnSet, MapThenFoldSet
<1>2. \A T \in SUBSET S : IsFiniteSet(Units(f, T)) /\ Cardinality(Units(f, T)) \in Nat
  BY UnitsFinite, FS_CardinalityType
<1>3. Units(f, {}) = {} /\ Cardinality({}) = 0
  BY FS_EmptySet DEF Units
<1>4. ASSUME NEW T \in SUBSET S, NEW x \in T
      PROVE  Cardinality(Units(f, T)) = f[x] + Cardinality(Units(f, T \ {x}))
  BY <1>2, <1>4, UnitsStep
<1>5. Eq(g0)
  <2>1. ASSUME NEW T \in SUBSET S, T # {}
        PROVE  g0[T] = LET x == CHOOSE x \in T : TRUE IN f[x] + g0[T \ {x}]
    <3> DEFINE x == CHOOSE x \in T : TRUE
    <3>1. x \in T
      BY <2>1
    <3>2. T \ {x} \in SUBSET S
      BY <3>1
    <3> QED
      BY <1>4, <3>1, <3>2
  <2>2. g0[{}] = 0
    BY <1>3
  <2> QED
    BY <2>1, <2>2
<1>6. Eq(h)
  BY <1>5
<1>7. ASSUME NEW T \in SUBSET S
      PROVE  h[T] = IF T = {} THEN 0 ELSE LET x == CHOOSE x \in T : TRUE IN f[x] + h[T \ {x}]
  BY <1>6
<1> HIDE DEF h
<1> DEFINE Bad == {T \in SUBSET S : h[T] # Cardinality(Units(f, T))}
           N == {Cardinality(T) : T \in Bad}
<1>8. \A T \in SUBSET S : IsFiniteSet(T) /\ Cardinality(T) \in Nat
  BY FS_Subset, FS_CardinalityType
<1>9. ASSUME Bad # {} PROVE FALSE
  <2>1. PICK T \in Bad : \A U \in Bad : Cardinality(T) <= Cardinality(U)
    <3>1. N \in SUBSET Nat /\ N # {}
      BY <1>8, <1>9
    <3>2. PICK n \in N : \A m \in N : n <= m
      BY <3>1, LeastOf
    <3> QED
      BY <3>2
  <2>2. T # {}
    BY <2>1, <1>7, <1>3
  <2> DEFINE x == CHOOSE x \in T : TRUE
  <2>3. x \in T
    BY <2>2
  <2>4. T \ {x} \in SUBSET S /\ Cardinality(T \ {x}) = Cardinality(T) - 1
    BY <1>8, <2>1, <2>3, FS_RemoveElement
  <2>5. T \ {x} \notin Bad
    BY <1>8, <2>1, <2>4
  <2>6. h[T] = f[x] + h[T \ {x}]
    BY <1>7, <2>2
  <2> HIDE DEF x
  <2>7. h[T] = f[x] + Cardinality(Units(f, T \ {x}))
    BY <2>4, <2>5, <2>6
  <2> QED
    BY <1>4, <2>1, <2>3, <2>7
<1> QED
  BY <1>1, <1>9

\* A sum of naturals is a natural.
LEMMA SumType ==
    ASSUME NEW S, IsFiniteSet(S), NEW f \in [S -> Nat]
    PROVE  SumFunction(f) \in Nat
BY SumIs, UnitsFinite, FS_CardinalityType

\* One term apart.
LEMMA SumSplit ==
    ASSUME NEW S, IsFiniteSet(S), NEW f \in [S -> Nat], NEW x \in S
    PROVE  /\ Cardinality(Units(f, S \ {x})) \in Nat
           /\ SumFunction(f) = f[x] + Cardinality(Units(f, S \ {x}))
<1>1. IsFiniteSet(Units(f, S \ {x}))
  BY UnitsFinite
<1>2. SumFunction(f) = Cardinality(Units(f, S))
  BY SumIs
<1> QED
  BY <1>1, <1>2, UnitsStep

\* One term changes, and the sum with it.
LEMMA SumChange ==
    ASSUME NEW S, IsFiniteSet(S), NEW f \in [S -> Nat], NEW g \in [S -> Nat], NEW x \in S,
           \A y \in S : y # x => g[y] = f[y]
    PROVE  /\ SumFunction(f) \in Nat /\ SumFunction(g) \in Nat
           /\ SumFunction(g) = SumFunction(f) - f[x] + g[x]
           /\ f[x] <= SumFunction(f)
<1>1. Units(f, S \ {x}) = Units(g, S \ {x})
  BY DEF Units
<1>2. /\ Cardinality(Units(f, S \ {x})) \in Nat
      /\ SumFunction(f) = f[x] + Cardinality(Units(f, S \ {x}))
  BY SumSplit
<1>3. SumFunction(g) = g[x] + Cardinality(Units(g, S \ {x}))
  BY SumSplit
<1>4. f[x] \in Nat /\ g[x] \in Nat
  OBVIOUS
<1> QED
  BY <1>1, <1>2, <1>3, <1>4

\* Nothing but zeroes sums to zero.
LEMMA SumZero ==
    ASSUME NEW S, IsFiniteSet(S), NEW f \in [S -> Nat]
    PROVE  SumFunction(f) = 0 <=> \A x \in S : f[x] = 0
<1>1. ASSUME SumFunction(f) = 0, NEW x \in S
      PROVE  f[x] = 0
  <2>1. SumFunction(f) = f[x] + Cardinality(Units(f, S \ {x})) /\ Cardinality(Units(f, S \ {x})) \in Nat
    BY SumSplit
  <2>2. f[x] \in Nat
    OBVIOUS
  <2> QED
    BY <1>1, <2>1, <2>2
<1>2. ASSUME \A x \in S : f[x] = 0
      PROVE  SumFunction(f) = 0
  <2>1. Units(f, S) = {}
    BY <1>2 DEF Units
  <2> QED
    BY <2>1, SumIs, FS_EmptySet
<1> QED
  BY <1>1, <1>2

-----------------------------------------------------------------------------
(* Sequences without repetition.                                           *)

\* A sequence without repetitions.
Once(q) == \A i, j \in 1..Len(q) : q[i] = q[j] => i = j

\* A sequence, and the set of its elements.
LEMMA SetOf ==
    ASSUME NEW S, NEW q \in Seq(S)
    PROVE  /\ Len(q) \in Nat /\ DOMAIN q = 1..Len(q) /\ \A i \in 1..Len(q) : q[i] \in S
           /\ ToSet(q) = {q[i] : i \in 1..Len(q)} /\ ToSet(q) \subseteq S
           /\ q = <<>> <=> ToSet(q) = {}
           /\ \A x : Contains(q, x) <=> x \in ToSet(q)
           /\ IsInjective(q) <=> Once(q)
<1>1. Len(q) \in Nat /\ DOMAIN q = 1..Len(q) /\ \A i \in 1..Len(q) : q[i] \in S
  BY LenProperties
<1>2. ToSet(q) = {q[i] : i \in 1..Len(q)}
  BY <1>1 DEF ToSet
<1>3. ToSet(q) \subseteq S
  BY <1>1, <1>2
<1>4. q = <<>> <=> ToSet(q) = {}
  <2>1. q # <<>> => 1 \in 1..Len(q)
    BY <1>1, EmptySeq
  <2>2. q = <<>> => 1..Len(q) = {}
    OBVIOUS
  <2> QED
    BY <1>2, <2>1, <2>2
<1>5. \A x : Contains(q, x) <=> x \in ToSet(q)
  BY <1>2 DEF Contains
<1>6. IsInjective(q) <=> Once(q)
  BY <1>1 DEF IsInjective, Once
<1> QED
  BY <1>1, <1>2, <1>3, <1>4, <1>5, <1>6

\* A sequence without repetitions is as long as its elements are many.
LEMMA LenIsCardinality ==
    ASSUME NEW S, NEW q \in Seq(S), Once(q)
    PROVE  IsFiniteSet(ToSet(q)) /\ Cardinality(ToSet(q)) = Len(q)
<1> DEFINE n == Len(q)
<1>0. n \in Nat /\ ToSet(q) = {q[i] : i \in 1..n}
  BY SetOf
<1>1. IsFiniteSet(1..n) /\ Cardinality(1..n) = n
  <2> HIDE DEF n
  <2>1. 1 \in Int /\ n \in Int /\ n - 1 + 1 = n /\ (1 > n <=> n = 0)
    BY <1>0
  <2>2. IsFiniteSet(1..n) /\ Cardinality(1..n) = IF 1 > n THEN 0 ELSE n - 1 + 1
    BY <2>1, FS_Interval
  <2> QED
    BY <2>1, <2>2
<1> DEFINE f == [i \in 1..n |-> q[i]]
<1>2. ExistsBijection(1..n, ToSet(q))
  <2>1. f \in [1..n -> ToSet(q)]
    BY <1>0
  <2>2. \A i, j \in 1..n : f[i] = f[j] => i = j
    BY DEF Once
  <2>3. \A y \in ToSet(q) : \E i \in 1..n : f[i] = y
    BY <1>0
  <2>4. f \in Bijection(1..n, ToSet(q))
    BY <2>1, <2>2, <2>3 DEF Bijection, Injection, Surjection, IsInjective
  <2> QED
    BY <2>4 DEF ExistsBijection
<1>3. IsFiniteSet(ToSet(q)) /\ Cardinality(ToSet(q)) = Cardinality(1..n)
  BY <1>1, <1>2, FS_Bijection
<1> QED
  BY <1>1, <1>3

\* An element joins a sequence at its head (a new member of a pool).
LEMMA PutFirst ==
    ASSUME NEW S, NEW q \in Seq(S), Once(q), NEW x \in S, x \notin ToSet(q)
    PROVE  /\ <<x>> \o q \in Seq(S) /\ Once(<<x>> \o q) /\ ToSet(<<x>> \o q) = ToSet(q) \cup {x}
           /\ Head(<<x>> \o q) = x /\ Len(<<x>> \o q) = Len(q) + 1
<1> DEFINE w == <<x>> \o q
<1>0. Len(q) \in Nat /\ ToSet(q) = {q[i] : i \in 1..Len(q)}
  BY SetOf
<1>1. w \in Seq(S) /\ Len(w) = Len(q) + 1
  BY <1>0
<1>2. w[1] = x
  BY <1>0
<1>3. \A i \in 1..Len(q) : w[i + 1] = q[i]
  BY <1>0
<1>4. Head(w) = x
  BY <1>0
<1> HIDE DEF w
<1>5. ToSet(w) = {w[i] : i \in 1..Len(w)}
  BY <1>1, SetOf
<1>6. \A i \in 1..Len(w) : i = 1 \/ (i - 1 \in 1..Len(q) /\ w[i] = q[i - 1])
  BY <1>0, <1>1, <1>3
<1>7. \A i \in 1..Len(q) : q[i] # x
  BY <1>0
<1>8. Once(w)
  <2> SUFFICES ASSUME NEW i \in 1..Len(w), NEW j \in 1..Len(w), w[i] = w[j] PROVE i = j
    BY DEF Once
  <2>1. CASE i = 1 \/ j = 1
    BY <2>1, <1>2, <1>6, <1>7
  <2>2. CASE i # 1 /\ j # 1
    <3>1. i - 1 \in 1..Len(q) /\ j - 1 \in 1..Len(q) /\ q[i - 1] = q[j - 1]
      BY <2>2, <1>6
    <3>2. i - 1 = j - 1
      BY <3>1 DEF Once
    <3> QED
      BY <3>2
  <2> QED
    BY <2>1, <2>2
<1>9. ToSet(w) = ToSet(q) \cup {x}
  <2>1. \A y \in ToSet(w) : y \in ToSet(q) \cup {x}
    BY <1>0, <1>2, <1>5, <1>6
  <2>2. 1 \in 1..Len(w) /\ \A i \in 1..Len(q) : i + 1 \in 1..Len(w)
    BY <1>0, <1>1
  <2>3. \A y \in ToSet(q) \cup {x} : y \in ToSet(w)
    BY <1>0, <1>2, <1>3, <1>5, <2>2
  <2> QED
    BY <2>1, <2>3
<1> QED
  BY <1>1, <1>4, <1>8, <1>9 DEF w

\* An element joins a sequence at its end (a waiter).
LEMMA PutLast ==
    ASSUME NEW S, NEW q \in Seq(S), Once(q), NEW x \in S, x \notin ToSet(q)
    PROVE  /\ Append(q, x) \in Seq(S) /\ Once(Append(q, x)) /\ ToSet(Append(q, x)) = ToSet(q) \cup {x}
           /\ Append(q, x) # <<>> /\ Len(Append(q, x)) = Len(q) + 1
<1> DEFINE w == Append(q, x)
<1>0. Len(q) \in Nat /\ ToSet(q) = {q[i] : i \in 1..Len(q)}
  BY SetOf
<1>1. w \in Seq(S) /\ Len(w) = Len(q) + 1
  BY <1>0
<1>2. w[Len(q) + 1] = x /\ \A i \in 1..Len(q) : w[i] = q[i]
  BY <1>0
<1> HIDE DEF w
<1>5. ToSet(w) = {w[i] : i \in 1..Len(w)}
  BY <1>1, SetOf
<1>6. \A i \in 1..Len(w) : i = Len(q) + 1 \/ i \in 1..Len(q)
  BY <1>0, <1>1
<1>7. \A i \in 1..Len(q) : q[i] # x
  BY <1>0
<1>8. Once(w)
  BY <1>2, <1>6, <1>7 DEF Once
<1>9. ToSet(w) = ToSet(q) \cup {x}
  <2>1. \A y \in ToSet(w) : y \in ToSet(q) \cup {x}
    BY <1>0, <1>2, <1>5, <1>6
  <2>2. Len(q) + 1 \in 1..Len(w) /\ \A i \in 1..Len(q) : i \in 1..Len(w)
    BY <1>0, <1>1
  <2>3. \A y \in ToSet(q) \cup {x} : y \in ToSet(w)
    BY <1>0, <1>2, <1>5, <2>2
  <2> QED
    BY <2>1, <2>3
<1>10. w # <<>>
  BY <1>1, <1>0
<1> QED
  BY <1>1, <1>8, <1>9, <1>10 DEF w

\* The first element leaves a sequence (a waiter that is served).
LEMMA TakeFirst ==
    ASSUME NEW S, NEW q \in Seq(S), Once(q), q # <<>>
    PROVE  /\ Tail(q) \in Seq(S) /\ Once(Tail(q)) /\ Len(Tail(q)) = Len(q) - 1
           /\ Head(q) \in ToSet(q) /\ ToSet(Tail(q)) = ToSet(q) \ {Head(q)}
<1> DEFINE w == Tail(q)
<1>1. /\ w \in Seq(S) /\ Len(w) = Len(q) - 1 /\ \A i \in 1..Len(w) : w[i] = q[i + 1]
      /\ Head(q) = q[1] /\ Len(q) \in Nat /\ Len(q) >= 1
  OBVIOUS
<1>2. ToSet(q) = {q[i] : i \in 1..Len(q)} /\ ToSet(w) = {w[i] : i \in 1..Len(w)}
  BY <1>1, SetOf
<1> HIDE DEF w
<1>3. Once(w)
  BY <1>1 DEF Once
<1>4. \A i \in 1..Len(w) : i + 1 \in 1..Len(q) /\ q[i + 1] # q[1]
  BY <1>1 DEF Once
<1>5. \A i \in 1..Len(q) : i # 1 => i - 1 \in 1..Len(w) /\ w[i - 1] = q[i]
  BY <1>1
<1>6. ToSet(w) = ToSet(q) \ {q[1]}
  <2>1. \A y \in ToSet(w) : y \in ToSet(q) \ {q[1]}
    BY <1>1, <1>2, <1>4
  <2>2. \A y \in ToSet(q) \ {q[1]} : y \in ToSet(w)
    BY <1>2, <1>5
  <2> QED
    BY <2>1, <2>2
<1>7. q[1] \in ToSet(q)
  BY <1>1, <1>2
<1> QED
  BY <1>1, <1>3, <1>6, <1>7 DEF w

\* One element leaves a sequence, wherever it is.
LEMMA TakeOne ==
    ASSUME NEW S, NEW q \in Seq(S), Once(q), NEW x
    PROVE  /\ RemoveFirst(q, x) \in Seq(S) /\ Once(RemoveFirst(q, x))
           /\ ToSet(RemoveFirst(q, x)) = ToSet(q) \ {x}
<1> DEFINE w == RemoveFirst(q, x)
<1>1. CASE ~ \E i \in 1..Len(q) : q[i] = x
  <2>1. w = q
    BY <1>1 DEF RemoveFirst
  <2>2. x \notin ToSet(q)
    BY <1>1, SetOf
  <2> QED
    BY <2>1, <2>2
<1>2. CASE \E i \in 1..Len(q) : q[i] = x
  <2> DEFINE I == {i \in 1..Len(q) : q[i] = x}
  <2>1. I \in SUBSET Nat /\ I # {}
    BY <1>2
  <2>2. PICK k \in I : \A j \in I : k <= j
    BY <2>1, LeastOf
  <2>3. Min(I) \in I
    BY <2>2 DEF Min
  <2>4. w = RemoveAt(q, Min(I))
    BY <1>2, <2>1 DEF RemoveFirst, SelectInSeq
  <2>6. PICK m \in 1..Len(q) : q[m] = x /\ w = RemoveAt(q, m)
    BY <2>3, <2>4
  <2> HIDE DEF w
  <2>7. /\ w \in Seq(S) /\ Len(w) = Len(q) - 1 /\ Len(q) \in Nat
        /\ \A i \in 1..Len(w) : w[i] = IF i < m THEN q[i] ELSE q[i + 1]
    <3> DEFINE a == SubSeq(q, 1, m - 1)
               b == SubSeq(q, m + 1, Len(q))
    <3>1. Len(q) \in Nat /\ m \in Nat /\ m - 1 \in Int /\ m + 1 \in Int /\ \A i \in 1..Len(q) : q[i] \in S
      BY SetOf
    <3>2. (\A i \in 1..(m - 1) : q[i] \in S) /\ (\A i \in (m + 1)..Len(q) : q[i] \in S)
      BY <3>1
    <3>3. /\ a \in Seq(S) /\ Len(a) = (IF 1 <= m - 1 THEN m - 1 - 1 + 1 ELSE 0)
          /\ \A i \in 1..(m - 1 - 1 + 1) : a[i] = q[1 + i - 1]
      BY <3>1, <3>2, SubSeqProperties
    <3>4. /\ b \in Seq(S) /\ Len(b) = (IF m + 1 <= Len(q) THEN Len(q) - (m + 1) + 1 ELSE 0)
          /\ \A i \in 1..(Len(q) - (m + 1) + 1) : b[i] = q[m + 1 + i - 1]
      BY <3>1, <3>2, SubSeqProperties
    <3>5. w = a \o b
      BY <2>6 DEF RemoveAt
    <3> HIDE DEF a, b
    <3>6. Len(a) = m - 1 /\ \A i \in 1..(m - 1) : a[i] = q[i]
      BY <3>1, <3>3
    <3>7. Len(b) = Len(q) - m /\ \A i \in 1..(Len(q) - m) : b[i] = q[m + i]
      BY <3>1, <3>4
    <3>8. w \in Seq(S) /\ Len(w) = Len(a) + Len(b)
          /\ \A i \in 1..(Len(a) + Len(b)) : w[i] = IF i <= Len(a) THEN a[i] ELSE b[i - Len(a)]
      BY <3>3, <3>4, <3>5, ConcatProperties
    <3>9. Len(w) = Len(q) - 1
      BY <3>1, <3>6, <3>7, <3>8
    <3>10. ASSUME NEW i \in 1..Len(w)
           PROVE  w[i] = IF i < m THEN q[i] ELSE q[i + 1]
      <4>1. CASE i < m
        <5>1. i \in 1..(m - 1) /\ i \in 1..(Len(a) + Len(b)) /\ i <= Len(a)
          BY <3>1, <3>6, <3>8, <4>1
        <5>2. w[i] = a[i] /\ a[i] = q[i]
          BY <3>6, <3>8, <5>1
        <5> QED
          BY <4>1, <5>2
      <4>2. CASE ~(i < m)
        <5>1. i - (m - 1) \in 1..(Len(q) - m) /\ m + (i - (m - 1)) = i + 1
          BY <3>1, <3>9, <4>2
        <5>2. w[i] = b[i - (m - 1)]
          BY <3>1, <3>6, <3>7, <3>8, <4>2
        <5>3. b[i - (m - 1)] = q[m + (i - (m - 1))]
          BY <3>7, <5>1
        <5> QED
          BY <4>2, <5>1, <5>2, <5>3
      <4> QED
        BY <4>1, <4>2
    <3> QED
      BY <3>1, <3>8, <3>9, <3>10
  <2> DEFINE src(i) == IF i < m THEN i ELSE i + 1
  <2>13. /\ \A i \in 1..Len(w) : src(i) \in 1..Len(q) /\ src(i) # m /\ w[i] = q[src(i)]
         /\ \A i, j \in 1..Len(w) : src(i) = src(j) => i = j
    BY <2>7
  <2> HIDE DEF src
  <2>8. Once(w)
    BY <2>13 DEF Once
  <2>9. ToSet(q) = {q[i] : i \in 1..Len(q)} /\ ToSet(w) = {w[i] : i \in 1..Len(w)}
    BY <2>7, SetOf
  <2>10. \A i \in 1..Len(w) : w[i] # x /\ \E j \in 1..Len(q) : w[i] = q[j]
    BY <2>6, <2>13 DEF Once
  <2>11. ASSUME NEW i \in 1..Len(q), i # m
         PROVE  \E j \in 1..Len(w) : w[j] = q[i]
    <3>1. CASE i < m
      BY <2>7, <3>1
    <3>2. CASE i > m
      <4>1. i - 1 \in 1..Len(w) /\ w[i - 1] = q[i]
        BY <2>7, <3>2
      <4> QED
        BY <4>1
    <3> QED
      BY <2>11, <3>1, <3>2
  <2>12. ToSet(w) = ToSet(q) \ {x}
    <3>1. \A y \in ToSet(w) : y \in ToSet(q) \ {x}
      BY <2>9, <2>10
    <3>2. \A y \in ToSet(q) \ {x} : y \in ToSet(w)
      BY <2>6, <2>9, <2>11
    <3> QED
      BY <3>1, <3>2
  <2> QED
    BY <2>7, <2>8, <2>12 DEF w
<1> QED
  BY <1>1, <1>2

\* The waiters are served one after another.
LEMMA ServingIs ==
    ASSUME NEW r
    PROVE  /\ Serving(r)[0] = r
           /\ \A n \in Nat \ {0} : Serving(r)[n] = ServeNext(Serving(r)[n - 1])
<1> DEFINE OK(m, h) == /\ DOMAIN h = 0..m /\ h[0] = r
                       /\ \A n \in 1..m : h[n] = ServeNext(h[n - 1])
           Bad == {m \in Nat : ~ \E h : OK(m, h)}
<1>1. \A m \in Nat : \E h : OK(m, h)
  <2>1. SUFFICES ASSUME Bad # {} PROVE FALSE
    OBVIOUS
  <2>2. PICK m \in Bad : \A k \in Bad : m <= k
    <3>1. Bad \in SUBSET Nat
      OBVIOUS
    <3> HIDE DEF Bad
    <3> QED
      BY <2>1, <3>1, LeastOf
  <2>3. m # 0
    <3>1. OK(0, [n \in 0..0 |-> r])
      OBVIOUS
    <3> QED
      BY <2>2, <3>1
  <2>4. m - 1 \in Nat /\ m - 1 \notin Bad
    BY <2>2, <2>3
  <2>5. PICK h : OK(m - 1, h)
    BY <2>4
  <2> DEFINE g == [n \in 0..m |-> IF n = m THEN ServeNext(h[m - 1]) ELSE h[n]]
  <2>6. DOMAIN g = 0..m /\ g[0] = r
    BY <2>3, <2>4, <2>5
  <2>7. ASSUME NEW n \in 1..m
        PROVE  g[n] = ServeNext(g[n - 1])
    <3>1. n - 1 \in 0..m /\ n - 1 # m /\ n \in 0..m
      BY <2>2
    <3>2. g[n - 1] = h[n - 1]
      BY <3>1
    <3>3. CASE n = m
      BY <3>1, <3>2, <3>3
    <3>4. CASE n # m
      <4>1. n \in 1..(m - 1)
        BY <2>4, <3>4
      <4>2. h[n] = ServeNext(h[n - 1])
        BY <2>5, <4>1
      <4> QED
        BY <3>1, <3>2, <3>4, <4>2
    <3> QED
      BY <3>3, <3>4
  <2>8. OK(m, g)
    BY <2>6, <2>7
  <2> QED
    BY <2>2, <2>8
<1>2. ASSUME NEW m \in Nat, NEW k \in Nat, NEW h, NEW i, OK(m, h), OK(k, i)
      PROVE  \A n \in Nat : n <= m /\ n <= k => h[n] = i[n]
  <2> DEFINE Diff == {n \in Nat : n <= m /\ n <= k /\ h[n] # i[n]}
  <2>1. SUFFICES ASSUME Diff # {} PROVE FALSE
    OBVIOUS
  <2>2. PICK n \in Diff : \A j \in Diff : n <= j
    <3>1. Diff \in SUBSET Nat
      OBVIOUS
    <3> HIDE DEF Diff
    <3> QED
      BY <2>1, <3>1, LeastOf
  <2>3. n # 0
    BY <1>2, <2>2
  <2>4. n - 1 \in Nat /\ n - 1 \notin Diff /\ n - 1 <= m /\ n - 1 <= k /\ n \in 1..m /\ n \in 1..k
    BY <2>2, <2>3
  <2>5. h[n - 1] = i[n - 1]
    BY <2>4
  <2>6. h[n] = ServeNext(h[n - 1]) /\ i[n] = ServeNext(i[n - 1])
    BY <1>2, <2>4
  <2> QED
    BY <2>2, <2>5, <2>6
<1> DEFINE H(m) == CHOOSE h : OK(m, h)
<1>3. \A m \in Nat : OK(m, H(m))
  BY <1>1
<1> DEFINE f == [n \in Nat |-> H(n)[n]]
           Eq(g) == g = [n \in Nat |-> IF n = 0 THEN r ELSE ServeNext(g[n - 1])]
<1>4. ASSUME NEW n \in Nat
      PROVE  f[n] = IF n = 0 THEN r ELSE ServeNext(f[n - 1])
  <2>1. CASE n = 0
    <3>1. H(0)[0] = r
      BY <1>3
    <3>2. f[0] = H(0)[0]
      OBVIOUS
    <3> HIDE DEF f, H
    <3> QED
      BY <2>1, <3>1, <3>2
  <2>2. CASE n # 0
    <3>1. n - 1 \in Nat /\ n \in 1..n /\ n - 1 <= n
      BY <2>2
    <3>2. H(n)[n] = ServeNext(H(n)[n - 1])
      BY <1>3, <3>1
    <3>3. H(n)[n - 1] = H(n - 1)[n - 1]
      <4>1. OK(n, H(n)) /\ OK(n - 1, H(n - 1))
        BY <1>3, <3>1
      <4> HIDE DEF H, OK
      <4> QED
        BY <1>2, <3>1, <4>1
    <3>4. f[n] = H(n)[n] /\ f[n - 1] = H(n - 1)[n - 1]
      BY <3>1
    <3> HIDE DEF f, H
    <3> QED
      BY <2>2, <3>2, <3>3, <3>4
  <2> QED
    BY <2>1, <2>2
<1>5. Eq(f)
  <2> HIDE DEF H
  <2>1. DOMAIN f = Nat
    OBVIOUS
  <2>2. f = [n \in Nat |-> f[n]]
    BY <2>1
  <2> QED
    BY <1>4, <2>2
<1> DEFINE s == CHOOSE g : Eq(g)
<1>6. Eq(s)
  <2> HIDE DEF f, Eq
  <2> QED
    BY <1>5
<1>7. Serving(r) = s
  BY DEF Serving
<1> HIDE DEF s
<1> QED
  BY <1>6, <1>7

\* The elements are kept, or not, one after another.
LEMMA WithoutIs ==
    ASSUME NEW q, NEW T
    PROVE  \E kept : /\ Without(q, T) = kept[Len(q)] /\ kept[0] = <<>>
                      /\ \A n \in Nat \ {0} :
                            kept[n] = IF q[n] \in T THEN kept[n - 1] ELSE Append(kept[n - 1], q[n])
<1> DEFINE Keep(n, x) == IF q[n] \in T THEN x ELSE Append(x, q[n])
<1> DEFINE OK(m, h) == /\ DOMAIN h = 0..m /\ h[0] = <<>>
                       /\ \A n \in 1..m : h[n] = Keep(n, h[n - 1])
           Bad == {m \in Nat : ~ \E h : OK(m, h)}
<1>1. \A m \in Nat : \E h : OK(m, h)
  <2>1. SUFFICES ASSUME Bad # {} PROVE FALSE
    OBVIOUS
  <2>2. PICK m \in Bad : \A k \in Bad : m <= k
    <3>1. Bad \in SUBSET Nat
      OBVIOUS
    <3> HIDE DEF Bad
    <3> QED
      BY <2>1, <3>1, LeastOf
  <2>3. m # 0
    <3>1. OK(0, [n \in 0..0 |-> <<>>])
      OBVIOUS
    <3> QED
      BY <2>2, <3>1
  <2>4. m - 1 \in Nat /\ m - 1 \notin Bad
    BY <2>2, <2>3
  <2>5. PICK h : OK(m - 1, h)
    BY <2>4
  <2> DEFINE g == [n \in 0..m |-> IF n = m THEN Keep(m, h[m - 1]) ELSE h[n]]
  <2>6. DOMAIN g = 0..m /\ g[0] = <<>>
    BY <2>3, <2>4, <2>5
  <2>7. ASSUME NEW n \in 1..m
        PROVE  g[n] = Keep(n, g[n - 1])
    <3>1. n - 1 \in 0..m /\ n - 1 # m /\ n \in 0..m
      BY <2>2
    <3>2. g[n - 1] = h[n - 1]
      BY <3>1
    <3>3. CASE n = m
      BY <3>1, <3>2, <3>3
    <3>4. CASE n # m
      <4>1. n \in 1..(m - 1)
        BY <2>4, <3>4
      <4>2. h[n] = Keep(n, h[n - 1])
        BY <2>5, <4>1
      <4> QED
        BY <3>1, <3>2, <3>4, <4>2
    <3> QED
      BY <3>3, <3>4
  <2>8. OK(m, g)
    BY <2>6, <2>7
  <2> QED
    BY <2>2, <2>8
<1>2. ASSUME NEW m \in Nat, NEW k \in Nat, NEW h, NEW i, OK(m, h), OK(k, i)
      PROVE  \A n \in Nat : n <= m /\ n <= k => h[n] = i[n]
  <2> DEFINE Diff == {n \in Nat : n <= m /\ n <= k /\ h[n] # i[n]}
  <2>1. SUFFICES ASSUME Diff # {} PROVE FALSE
    OBVIOUS
  <2>2. PICK n \in Diff : \A j \in Diff : n <= j
    <3>1. Diff \in SUBSET Nat
      OBVIOUS
    <3> HIDE DEF Diff
    <3> QED
      BY <2>1, <3>1, LeastOf
  <2>3. n # 0
    BY <1>2, <2>2
  <2>4. n - 1 \in Nat /\ n - 1 \notin Diff /\ n - 1 <= m /\ n - 1 <= k /\ n \in 1..m /\ n \in 1..k
    BY <2>2, <2>3
  <2>5. h[n - 1] = i[n - 1]
    BY <2>4
  <2>6. h[n] = Keep(n, h[n - 1]) /\ i[n] = Keep(n, i[n - 1])
    BY <1>2, <2>4
  <2> QED
    BY <2>2, <2>5, <2>6
<1> DEFINE H(m) == CHOOSE h : OK(m, h)
<1>3. \A m \in Nat : OK(m, H(m))
  BY <1>1
<1> DEFINE f == [n \in Nat |-> H(n)[n]]
           Eq(g) == g = [n \in Nat |-> IF n = 0 THEN <<>> ELSE Keep(n, g[n - 1])]
<1>4. ASSUME NEW n \in Nat
      PROVE  f[n] = IF n = 0 THEN <<>> ELSE Keep(n, f[n - 1])
  <2>1. CASE n = 0
    <3>1. H(0)[0] = <<>>
      BY <1>3
    <3>2. f[0] = H(0)[0]
      OBVIOUS
    <3> HIDE DEF f, H
    <3> QED
      BY <2>1, <3>1, <3>2
  <2>2. CASE n # 0
    <3>1. n - 1 \in Nat /\ n \in 1..n /\ n - 1 <= n
      BY <2>2
    <3>2. H(n)[n] = Keep(n, H(n)[n - 1])
      BY <1>3, <3>1
    <3>3. H(n)[n - 1] = H(n - 1)[n - 1]
      <4>1. OK(n, H(n)) /\ OK(n - 1, H(n - 1))
        BY <1>3, <3>1
      <4> HIDE DEF H, OK
      <4> QED
        BY <1>2, <3>1, <4>1
    <3>4. f[n] = H(n)[n] /\ f[n - 1] = H(n - 1)[n - 1]
      BY <3>1
    <3> HIDE DEF f, H
    <3> QED
      BY <2>2, <3>2, <3>3, <3>4
  <2> QED
    BY <2>1, <2>2
<1>5. Eq(f)
  <2> HIDE DEF H
  <2>1. DOMAIN f = Nat
    OBVIOUS
  <2>2. f = [n \in Nat |-> f[n]]
    BY <2>1
  <2> QED
    BY <1>4, <2>2
<1> DEFINE s == CHOOSE g : Eq(g)
<1>6. Eq(s)
  <2> HIDE DEF f, Eq
  <2> QED
    BY <1>5

<1>7. Without(q, T) = s[Len(q)]
  BY DEF Without
<1> HIDE DEF s
<1>8. s[0] = <<>> /\ \A n \in Nat \ {0} : s[n] = Keep(n, s[n - 1])
  BY <1>6
<1> QED
  BY <1>7, <1>8

-----------------------------------------------------------------------------
(* Sequences without some of their elements; the warmest machine.          *)

\* Without keeps every element that is not to go, once.
LEMMA TakeAway ==
    ASSUME NEW S, NEW q \in Seq(S), Once(q), NEW T
    PROVE  /\ Without(q, T) \in Seq(S) /\ Once(Without(q, T))
           /\ ToSet(Without(q, T)) = ToSet(q) \ T
<1>1. PICK kept : /\ Without(q, T) = kept[Len(q)] /\ kept[0] = <<>>
                  /\ \A n \in Nat \ {0} :
                        kept[n] = IF q[n] \in T THEN kept[n - 1] ELSE Append(kept[n - 1], q[n])
  BY WithoutIs
<1>2. /\ Len(q) \in Nat /\ ToSet(q) = {q[i] : i \in 1..Len(q)}
      /\ \A i \in 1..Len(q) : q[i] \in S
  BY SetOf
<1> DEFINE Upto(n) == {q[i] : i \in 1..n}
           Good(n) == kept[n] \in Seq(S) /\ Once(kept[n]) /\ ToSet(kept[n]) = Upto(n) \ T
           Bad == {n \in Nat : n <= Len(q) /\ ~Good(n)}
<1>3. ASSUME Bad # {} PROVE FALSE
  <2>1. PICK n \in Bad : \A k \in Bad : n <= k
    <3>1. Bad \in SUBSET Nat
      OBVIOUS
    <3> HIDE DEF Bad
    <3> QED
      BY <1>3, <3>1, LeastOf
  <2>2. n # 0
    <3>1. <<>> \in Seq(S) /\ Len(<<>>) = 0
      BY EmptySeq
    <3>2. Once(<<>>)
      BY <3>1 DEF Once
    <3>3. ToSet(<<>>) = {}
      BY <3>1, SetOf
    <3>4. Upto(0) = {}
      OBVIOUS
    <3>5. Good(0)
      BY <1>1, <3>1, <3>2, <3>3, <3>4
    <3> HIDE DEF Good
    <3> QED
      BY <2>1, <3>5
  <2>3. n \in Nat \ {0} /\ n <= Len(q) /\ n - 1 \in Nat /\ n - 1 <= Len(q) /\ n - 1 \notin Bad /\ n \in 1..Len(q)
    <3> HIDE DEF Good
    <3> QED
      BY <1>2, <2>1, <2>2
  <2>4. Good(n - 1)
    <3> HIDE DEF Good
    <3> QED
      BY <2>3
  <2>5. Upto(n) = Upto(n - 1) \cup {q[n]}
    <3>1. \A i \in Nat : i \in 1..n <=> i \in 1..(n - 1) \/ i = n
      BY <2>3
    <3>2. 1..n \subseteq Nat /\ 1..(n - 1) \subseteq Nat
      BY <2>3
    <3> QED
      BY <2>3, <3>1, <3>2
  <2>6. q[n] \in S
    BY <1>2, <2>3
  <2>7. q[n] \notin Upto(n - 1)
    BY <1>2, <2>3 DEF Once
  <2>8. CASE q[n] \in T
    <3>1. kept[n] = kept[n - 1]
      BY <1>1, <2>3, <2>8
    <3>2. Upto(n) \ T = Upto(n - 1) \ T
      BY <2>5, <2>8
    <3> HIDE DEF Upto
    <3> QED
      BY <2>1, <2>4, <3>1, <3>2
  <2>9. CASE q[n] \notin T
    <3>1. kept[n] = Append(kept[n - 1], q[n])
      BY <1>1, <2>3, <2>9
    <3>2. Upto(n) \ T = (Upto(n - 1) \ T) \cup {q[n]}
      BY <2>5, <2>9
    <3> HIDE DEF Upto
    <3>3. q[n] \notin ToSet(kept[n - 1])
      BY <2>4, <2>7
    <3>4. /\ kept[n] \in Seq(S) /\ Once(kept[n])
          /\ ToSet(kept[n]) = ToSet(kept[n - 1]) \cup {q[n]}
      BY <2>4, <2>6, <3>1, <3>3, PutLast
    <3> QED
      BY <2>1, <2>4, <3>2, <3>4
  <2> QED
    BY <2>8, <2>9
<1>4. Good(Len(q))
  <2> HIDE DEF Good
  <2> QED
    BY <1>2, <1>3
<1>5. Upto(Len(q)) = ToSet(q)
  BY <1>2
<1> HIDE DEF Upto
<1> QED
  BY <1>1, <1>4, <1>5

\* A machine that will do (pool.warmest).
Fits(r, e, forJob) == ~forJob \/ (r.entry[e].jobs = 0 /\ r.entry[e].lease # "failed")

\* warmest returns a machine that will do, or none will (pool.go).
LEMMA WarmestIs ==
    ASSUME NEW r, r.members \in Seq(Entries), NEW forJob \in BOOLEAN
    PROVE  /\ Warmest(r, forJob) = None => \A e \in ToSet(r.members) : ~Fits(r, e, forJob)
           /\ Warmest(r, forJob) # None => /\ Warmest(r, forJob) \in ToSet(r.members)
                                           /\ Fits(r, Warmest(r, forJob), forJob)
<1> DEFINE q == r.members
           fit == {i \in DOMAIN q : Fits(r, q[i], forJob)}
<1>1. /\ Len(q) \in Nat /\ DOMAIN q = 1..Len(q) /\ ToSet(q) = {q[i] : i \in 1..Len(q)}
      /\ \A i \in 1..Len(q) : q[i] \in Entries
  BY SetOf
<1>2. Warmest(r, forJob) = IF fit = {} THEN None ELSE q[Max(fit)]
  BY DEF Warmest, Fits
<1>3. \A e \in Entries : e # None
  BY DEF Entries, None
<1>4. CASE fit = {}
  BY <1>1, <1>2, <1>3, <1>4
<1>5. CASE fit # {}
  <2> DEFINE far == {Len(q) - i : i \in fit}
  <2>1. far \in SUBSET Nat /\ far # {}
    <3>1. \A i \in fit : i \in 1..Len(q)
      BY <1>1
    <3> HIDE DEF fit
    <3>2. \A i \in fit : Len(q) - i \in Nat
      BY <1>1, <3>1
    <3> QED
      BY <1>5, <3>2
  <2>2. PICK d \in far : \A y \in far : d <= y
    BY <2>1, LeastOf
  <2>3. PICK i \in fit : d = Len(q) - i
    BY <2>2
  <2>4. \A j \in fit : i >= j
    <3> SUFFICES ASSUME NEW j \in fit PROVE i >= j
      OBVIOUS
    <3>1. Len(q) - i <= Len(q) - j /\ i \in Nat /\ j \in Nat
      BY <1>1, <2>2, <2>3
    <3> QED
      BY <1>1, <3>1
  <2>5. Max(fit) \in fit
    BY <2>3, <2>4 DEF Max
  <2> HIDE DEF fit
  <2>6. Max(fit) \in 1..Len(q) /\ Fits(r, q[Max(fit)], forJob)
    BY <1>1, <2>5 DEF fit
  <2> QED
    BY <1>1, <1>2, <1>3, <1>5, <2>6
<1> QED
  BY <1>4, <1>5

-----------------------------------------------------------------------------
(* What the registry promises.                                             *)

\* The scopes that are jobs.
Jobs == Scopes \ Checks

\* What a registry is.
Registry ==
    [entry: [Entries -> EntryType], current: Entries \cup {None}, members: Seq(Entries),
     reserved: [Scopes -> 0..1], waiters: Seq(Steps), got: [Steps -> Entries \cup {None}],
     live: SUBSET Entries, closed: BOOLEAN]

\* Who holds what, how many times over: Held of the scopes (LeasesProofs).
HoldingType == [Scopes -> [Entries -> Nat]]

\* The pool, and those who wait for it.
Members(r) == ToSet(r.members)
Waiting(r) == ToSet(r.waiters)
\* The waiters a machine was handed to that have not taken it yet.
Handed(r, e) == {p \in Steps : r.got[p] = e}
\* What the scopes, and the jobs among them, hold of an entry.
Total(H, e) == SumFunction([s \in Scopes |-> H[s][e]])
JobTotal(H, e) == SumFunction([s \in Jobs |-> H[s][e]])

\* The registry's type, and the holdings'.
Typed(r, H) == r \in Registry /\ Once(r.members) /\ Once(r.waiters) /\ H \in HoldingType

\* An entry's counts are what is held of it.
Tallied(r, H, e) ==
    /\ r.entry[e].refs = Total(H, e) + Cardinality(Handed(r, e))
    /\ r.entry[e].jobs = IF scene.exclusive THEN JobTotal(H, e) + Cardinality(Handed(r, e)) ELSE 0

\* A pooled machine's holder is the one job that holds it, or is handed it.
HeldByOne(r, H, e) ==
    /\ r.entry[e].jobs = 0 => r.entry[e].holder = Nobody
    /\ r.entry[e].holder \notin Checks
    /\ scene.exclusive => \A s \in Jobs : H[s][e] > 0 => r.entry[e].holder = s
    /\ \A p \in Handed(r, e) : r.entry[e].holder = ScopeOf[p]

\* An entry's life: it is alive while it is used or given back, and its timer
\* runs only while it is not used.
Alive(r, e) ==
    /\ r.entry[e].gone = "going" => e \in r.live
    /\ r.entry[e].gone = "yes" => e \notin r.live
    /\ r.entry[e].gone = "no" /\ r.entry[e].refs > 0 => e \in r.live
    /\ r.entry[e].timer # "none" => r.entry[e].refs = 0
    /\ Parked => ~r.entry[e].retired

\* What the registry promises of one entry.
EntryOk(r, H, e) == Tallied(r, H, e) /\ HeldByOne(r, H, e) /\ Alive(r, e)

\* A step in the queue, or handed a machine it has not taken.
InLine(r, p) == p \in Waiting(r) \/ r.got[p] # None

\* A job waits with one step at most, and only without a machine of the pool
\* and without a place kept for it.
Queue(r) ==
    /\ \A p \in Waiting(r) :
          /\ r.got[p] = None /\ r.reserved[ScopeOf[p]] = 0
          /\ \A e \in Members(r) : r.entry[e].holder # ScopeOf[p]
    /\ \A p \in Steps : InLine(r, p) => ScopeOf[p] \in Jobs
    /\ \A p, q \in Steps : InLine(r, p) /\ InLine(r, q) /\ ScopeOf[p] = ScopeOf[q] => p = q

\* The pool's members are there to be had, one to a job; a place is kept for a
\* job that has none.
Pool(r) ==
    /\ \A e \in Members(r) : e \in r.live /\ r.entry[e].gone = "no" /\ ~r.entry[e].retired
    /\ \A e, f \in Members(r) :
          r.entry[e].holder = r.entry[f].holder /\ r.entry[e].holder # Nobody => e = f
    /\ \A s \in Scopes : r.reserved[s] > 0 =>
          s \in Jobs /\ \A e \in Members(r) : r.entry[e].holder # s
    /\ scene.exclusive => r.current = None
    /\ ~scene.exclusive => /\ r.members = <<>> /\ r.waiters = <<>>
                           /\ \A p \in Steps : r.got[p] = None
                           /\ \A s \in Scopes : r.reserved[s] = 0

\* A mapping that is not a pool has one entry to be found.
One(r) ==
    /\ r.current # None => /\ r.current \in r.live
                           /\ ~Parked => r.entry[r.current].gone = "no" /\ ~r.entry[r.current].retired
    /\ Parked => r.live \subseteq {r.current}

\* What the registry promises, of the holdings.
Core(r, H) ==
    /\ Typed(r, H)
    /\ \A e \in Entries : EntryOk(r, H, e)
    /\ Queue(r)
    /\ Pool(r)
    /\ One(r)

-----------------------------------------------------------------------------
\* What the assumptions say, as the proofs use it.
LEMMA Constants ==
    /\ Checks \subseteq Scopes /\ Jobs \subseteq Scopes /\ Nobody \notin Scopes /\ Nobody \notin Checks
    /\ \A s \in Scopes : s \in Jobs <=> ~Rides(s)
    /\ IsFiniteSet(Scopes) /\ IsFiniteSet(Jobs) /\ IsFiniteSet(Tags) /\ IsFiniteSet(Steps)
    /\ ScopeOf \in [Steps -> Scopes] /\ TagOf \in [Steps -> Tags]
    /\ Entries \subseteq Nat /\ None \notin Entries /\ IsFiniteSet(Entries)
    /\ Retries \in Nat /\ 1 \in Entries
<1>1. Jobs \subseteq Scopes /\ IsFiniteSet(Jobs)
  BY LeasesAssumption, FS_Subset DEF Jobs
<1>2. MaxEntries \in Nat \ {0}
  BY LeasesAssumption
<1>3. Entries \subseteq Nat /\ None \notin Entries /\ 1 \in Entries
  BY <1>2 DEF Entries, None
<1>4. IsFiniteSet(Entries)
  BY <1>2, FS_Interval DEF Entries
<1> QED
  BY <1>1, <1>3, <1>4, LeasesAssumption DEF Jobs, Rides

\* The holds on an entry are naturals, and so is their sum.
LEMMA TotalType ==
    ASSUME NEW H \in HoldingType, NEW e \in Entries
    PROVE  /\ Total(H, e) \in Nat /\ JobTotal(H, e) \in Nat
           /\ \A s \in Scopes : H[s][e] \in Nat /\ H[s][e] <= Total(H, e)
           /\ \A s \in Jobs : H[s][e] <= JobTotal(H, e)
           /\ Total(H, e) = 0 <=> \A s \in Scopes : H[s][e] = 0
           /\ JobTotal(H, e) = 0 <=> \A s \in Jobs : H[s][e] = 0
<1> DEFINE f == [s \in Scopes |-> H[s][e]]
           g == [s \in Jobs |-> H[s][e]]
<1>1. f \in [Scopes -> Nat] /\ g \in [Jobs -> Nat] /\ IsFiniteSet(Scopes) /\ IsFiniteSet(Jobs)
  BY Constants DEF HoldingType
<1>2. \A s \in Scopes : f[s] = H[s][e]
  OBVIOUS
<1>3. \A s \in Jobs : g[s] = H[s][e]
  OBVIOUS
<1>4. Total(H, e) = SumFunction(f) /\ JobTotal(H, e) = SumFunction(g)
  BY DEF Total, JobTotal
<1> HIDE DEF f, g
<1>5. SumFunction(f) \in Nat /\ SumFunction(g) \in Nat
  BY <1>1, SumType
<1>6. \A s \in Scopes : f[s] <= SumFunction(f)
  BY <1>1, SumChange
<1>7. \A s \in Jobs : g[s] <= SumFunction(g)
  BY <1>1, SumChange
<1>8. SumFunction(f) = 0 <=> \A s \in Scopes : f[s] = 0
  BY <1>1, SumZero
<1>9. SumFunction(g) = 0 <=> \A s \in Jobs : g[s] = 0
  BY <1>1, SumZero
<1>10. \A s \in Scopes : H[s][e] \in Nat
  BY <1>1, <1>2
<1>11. Jobs \subseteq Scopes
  BY Constants
<1> QED
  BY <1>2, <1>3, <1>4, <1>5, <1>6, <1>7, <1>8, <1>9, <1>10, <1>11

\* Holds of a scope on an entry: one changes, and the totals with it.
LEMMA TotalChange ==
    ASSUME NEW H \in HoldingType, NEW G \in HoldingType, NEW s \in Scopes, NEW e \in Entries,
           \A o \in Scopes : \A f \in Entries : o # s \/ f # e => G[o][f] = H[o][f]
    PROVE  /\ \A f \in Entries : f # e => Total(G, f) = Total(H, f) /\ JobTotal(G, f) = JobTotal(H, f)
           /\ Total(G, e) = Total(H, e) - H[s][e] + G[s][e]
           /\ s \in Jobs => JobTotal(G, e) = JobTotal(H, e) - H[s][e] + G[s][e]
           /\ s \notin Jobs => JobTotal(G, e) = JobTotal(H, e)
<1>0. Jobs \subseteq Scopes /\ IsFiniteSet(Scopes) /\ IsFiniteSet(Jobs)
  BY Constants
<1>1. ASSUME NEW f \in Entries, f # e
      PROVE  Total(G, f) = Total(H, f) /\ JobTotal(G, f) = JobTotal(H, f)
  <2>1. [o \in Scopes |-> G[o][f]] = [o \in Scopes |-> H[o][f]]
    BY <1>1
  <2>2. [o \in Jobs |-> G[o][f]] = [o \in Jobs |-> H[o][f]]
    BY <1>0, <1>1
  <2> QED
    BY <2>1, <2>2 DEF Total, JobTotal
<1> DEFINE F(K, D) == [o \in D |-> K[o][e]]
<1>2. \A D : D \subseteq Scopes => F(H, D) \in [D -> Nat] /\ F(G, D) \in [D -> Nat]
  BY DEF HoldingType
<1>3. \A D : D \subseteq Scopes => \A o \in D : F(H, D)[o] = H[o][e] /\ F(G, D)[o] = G[o][e]
  OBVIOUS
<1>4. /\ Total(G, e) = SumFunction(F(G, Scopes)) /\ Total(H, e) = SumFunction(F(H, Scopes))
      /\ JobTotal(G, e) = SumFunction(F(G, Jobs)) /\ JobTotal(H, e) = SumFunction(F(H, Jobs))
  BY DEF Total, JobTotal
<1>5. ASSUME s \notin Jobs
      PROVE  JobTotal(G, e) = JobTotal(H, e)
  <2>1. F(G, Jobs) = F(H, Jobs)
    BY <1>0, <1>5
  <2> QED
    BY <1>4, <2>1
<1> HIDE DEF F
<1>6. SumFunction(F(G, Scopes)) = SumFunction(F(H, Scopes)) - F(H, Scopes)[s] + F(G, Scopes)[s]
  <2>1. F(H, Scopes) \in [Scopes -> Nat] /\ F(G, Scopes) \in [Scopes -> Nat]
    BY <1>2
  <2>2. \A o \in Scopes : o # s => F(G, Scopes)[o] = F(H, Scopes)[o]
    BY <1>3
  <2> QED
    BY <1>0, <2>1, <2>2, SumChange
<1>7. ASSUME s \in Jobs
      PROVE  SumFunction(F(G, Jobs)) = SumFunction(F(H, Jobs)) - F(H, Jobs)[s] + F(G, Jobs)[s]
  <2>1. F(H, Jobs) \in [Jobs -> Nat] /\ F(G, Jobs) \in [Jobs -> Nat]
    BY <1>0, <1>2
  <2>2. \A o \in Jobs : o # s => F(G, Jobs)[o] = F(H, Jobs)[o]
    BY <1>0, <1>3
  <2> QED
    BY <1>0, <1>7, <2>1, <2>2, SumChange
<1> QED
  BY <1>0, <1>1, <1>3, <1>4, <1>5, <1>6, <1>7

\* A scope holds an entry once more, and once less.
More(H, s, e) == [H EXCEPT ![s] = [H[s] EXCEPT ![e] = H[s][e] + 1]]
Less(H, s, e) == [H EXCEPT ![s] = [H[s] EXCEPT ![e] = H[s][e] - 1]]

\* A scope holds an entry once more.
LEMMA MoreHeld ==
    ASSUME NEW H \in HoldingType, NEW s \in Scopes, NEW e \in Entries
    PROVE  /\ More(H, s, e) \in HoldingType
           /\ \A o \in Scopes : \A f \in Entries :
                 More(H, s, e)[o][f] = IF o = s /\ f = e THEN H[o][f] + 1 ELSE H[o][f]
           /\ \A f \in Entries :
                 /\ Total(More(H, s, e), f) = IF f = e THEN Total(H, f) + 1 ELSE Total(H, f)
                 /\ JobTotal(More(H, s, e), f) =
                       IF f = e /\ s \in Jobs THEN JobTotal(H, f) + 1 ELSE JobTotal(H, f)
<1> DEFINE G == More(H, s, e)
           g == [H[s] EXCEPT ![e] = H[s][e] + 1]
<1>0. H[s] \in [Entries -> Nat] /\ H[s][e] \in Nat /\ H \in [Scopes -> [Entries -> Nat]]
  BY DEF HoldingType
<1>6. g \in [Entries -> Nat] /\ \A f \in Entries : g[f] = IF f = e THEN H[s][f] + 1 ELSE H[s][f]
  BY <1>0
<1>7. G = [H EXCEPT ![s] = g]
  BY DEF More
<1> HIDE DEF g
<1>1. G \in HoldingType
  BY <1>0, <1>6, <1>7 DEF HoldingType
<1>2. \A o \in Scopes : \A f \in Entries : G[o][f] = IF o = s /\ f = e THEN H[o][f] + 1 ELSE H[o][f]
  BY <1>0, <1>6, <1>7
<1> HIDE DEF G
<1>3. \A f \in Entries : Total(H, f) \in Nat /\ JobTotal(H, f) \in Nat /\ H[s][f] \in Nat
  BY TotalType
<1>4. /\ \A f \in Entries : f # e => Total(G, f) = Total(H, f) /\ JobTotal(G, f) = JobTotal(H, f)
      /\ Total(G, e) = Total(H, e) - H[s][e] + G[s][e]
      /\ s \in Jobs => JobTotal(G, e) = JobTotal(H, e) - H[s][e] + G[s][e]
      /\ s \notin Jobs => JobTotal(G, e) = JobTotal(H, e)
  BY <1>1, <1>2, TotalChange
<1>5. Total(G, e) = Total(H, e) + 1 /\ (s \in Jobs => JobTotal(G, e) = JobTotal(H, e) + 1)
  BY <1>2, <1>3, <1>4
<1> QED
  BY <1>1, <1>2, <1>4, <1>5 DEF G

\* A scope holds an entry once less.
LEMMA LessHeld ==
    ASSUME NEW H \in HoldingType, NEW s \in Scopes, NEW e \in Entries, H[s][e] > 0
    PROVE  /\ Less(H, s, e) \in HoldingType
           /\ \A o \in Scopes : \A f \in Entries :
                 Less(H, s, e)[o][f] = IF o = s /\ f = e THEN H[o][f] - 1 ELSE H[o][f]
           /\ \A f \in Entries :
                 /\ Total(Less(H, s, e), f) = IF f = e THEN Total(H, f) - 1 ELSE Total(H, f)
                 /\ JobTotal(Less(H, s, e), f) =
                       IF f = e /\ s \in Jobs THEN JobTotal(H, f) - 1 ELSE JobTotal(H, f)
<1> DEFINE G == Less(H, s, e)
           g == [H[s] EXCEPT ![e] = H[s][e] - 1]
<1>0. H[s] \in [Entries -> Nat] /\ H[s][e] \in Nat /\ H \in [Scopes -> [Entries -> Nat]]
  BY DEF HoldingType
<1>6. g \in [Entries -> Nat] /\ \A f \in Entries : g[f] = IF f = e THEN H[s][f] - 1 ELSE H[s][f]
  BY <1>0
<1>7. G = [H EXCEPT ![s] = g]
  BY DEF Less
<1> HIDE DEF g
<1>1. G \in HoldingType
  BY <1>0, <1>6, <1>7 DEF HoldingType
<1>2. \A o \in Scopes : \A f \in Entries : G[o][f] = IF o = s /\ f = e THEN H[o][f] - 1 ELSE H[o][f]
  BY <1>0, <1>6, <1>7
<1> HIDE DEF G
<1>3. \A f \in Entries : Total(H, f) \in Nat /\ JobTotal(H, f) \in Nat /\ H[s][f] \in Nat
  BY TotalType
<1>4. /\ \A f \in Entries : f # e => Total(G, f) = Total(H, f) /\ JobTotal(G, f) = JobTotal(H, f)
      /\ Total(G, e) = Total(H, e) - H[s][e] + G[s][e]
      /\ s \in Jobs => JobTotal(G, e) = JobTotal(H, e) - H[s][e] + G[s][e]
      /\ s \notin Jobs => JobTotal(G, e) = JobTotal(H, e)
  BY <1>1, <1>2, TotalChange
<1>5. Total(G, e) = Total(H, e) - 1 /\ (s \in Jobs => JobTotal(G, e) = JobTotal(H, e) - 1)
  BY <1>2, <1>3, <1>4
<1> QED
  BY <1>1, <1>2, <1>4, <1>5 DEF G

\* Machines handed over: one more, one less, and none to whom nothing was handed.
LEMMA HandedType ==
    ASSUME NEW r, NEW e
    PROVE  /\ IsFiniteSet(Handed(r, e)) /\ Cardinality(Handed(r, e)) \in Nat
           /\ Cardinality(Handed(r, e)) = 0 <=> \A p \in Steps : r.got[p] # e
<1>1. IsFiniteSet(Handed(r, e))
  BY Constants, FS_Subset DEF Handed
<1>2. Cardinality(Handed(r, e)) = 0 <=> Handed(r, e) = {}
  BY <1>1, FS_EmptySet
<1> QED
  BY <1>1, <1>2, FS_CardinalityType DEF Handed

\* Nothing is handed over.
LEMMA HandedSame ==
    ASSUME NEW r, NEW x, x.got = r.got
    PROVE  \A e : Handed(x, e) = Handed(r, e)
BY DEF Handed

\* What a waiter is handed.
GotSet(r, x, p, e) == x.got = [r.got EXCEPT ![p] = e]

\* A machine is handed to a waiter.
LEMMA HandedOver ==
    ASSUME NEW r, NEW x, NEW p \in Steps, NEW e \in Entries, r.got \in [Steps -> Entries \cup {None}],
           r.got[p] = None, GotSet(r, x, p, e)
    PROVE  /\ Handed(x, e) = Handed(r, e) \cup {p}
           /\ Cardinality(Handed(x, e)) = Cardinality(Handed(r, e)) + 1
           /\ \A f \in Entries : f # e => Handed(x, f) = Handed(r, f)
<1>0. None \notin Entries
  BY Constants
<1>1. Handed(x, e) = Handed(r, e) \cup {p} /\ p \notin Handed(r, e)
  BY <1>0 DEF Handed, GotSet
<1>2. \A f \in Entries : f # e => Handed(x, f) = Handed(r, f)
  BY <1>0 DEF Handed, GotSet
<1>3. Cardinality(Handed(r, e) \cup {p}) = Cardinality(Handed(r, e)) + 1
  BY <1>1, HandedType, FS_AddElement
<1> QED
  BY <1>1, <1>2, <1>3

\* A waiter takes what it was handed.
LEMMA HandedBack ==
    ASSUME NEW r, NEW x, NEW p \in Steps, NEW e \in Entries, r.got \in [Steps -> Entries \cup {None}],
           r.got[p] = e, GotSet(r, x, p, None)
    PROVE  /\ Handed(x, e) = Handed(r, e) \ {p}
           /\ Cardinality(Handed(x, e)) = Cardinality(Handed(r, e)) - 1
           /\ \A f \in Entries : f # e => Handed(x, f) = Handed(r, f)
<1>0. None \notin Entries
  BY Constants
<1>1. Handed(x, e) = Handed(r, e) \ {p} /\ p \in Handed(r, e)
  BY <1>0 DEF Handed, GotSet
<1>2. \A f \in Entries : f # e => Handed(x, f) = Handed(r, f)
  BY <1>0 DEF Handed, GotSet
<1>3. Cardinality(Handed(r, e) \ {p}) = Cardinality(Handed(r, e)) - 1
  <2>1. IsFiniteSet(Handed(r, e)) /\ Cardinality(Handed(r, e)) \in Nat
    BY HandedType
  <2> QED
    BY <1>1, <2>1, FS_RemoveElement
<1> QED
  BY <1>1, <1>2, <1>3

\* count, field by field (Registry.count and stopIdle).
LEMMA CountIs ==
    ASSUME NEW r \in Registry, NEW e \in Entries, NEW s \in Scopes, scene.exclusive \in BOOLEAN
    PROVE  LET x == Count(r, e, s)
               job == scene.exclusive /\ ~Rides(s)
           IN  /\ x \in Registry
               /\ x.current = r.current /\ x.members = r.members /\ x.reserved = r.reserved
               /\ x.waiters = r.waiters /\ x.got = r.got /\ x.live = r.live /\ x.closed = r.closed
               /\ \A f \in Entries : f # e => x.entry[f] = r.entry[f]
               /\ x.entry[e].refs = r.entry[e].refs + 1
               /\ x.entry[e].jobs = IF job THEN r.entry[e].jobs + 1 ELSE r.entry[e].jobs
               /\ x.entry[e].holder = IF job THEN s ELSE r.entry[e].holder
               /\ x.entry[e].timer = "none"
               /\ x.entry[e].stale = (r.entry[e].stale \/ r.entry[e].timer = "fired")
               /\ x.entry[e].retired = r.entry[e].retired /\ x.entry[e].gone = r.entry[e].gone
               /\ x.entry[e].by = r.entry[e].by /\ x.entry[e].lease = r.entry[e].lease
               /\ x.entry[e].owes = r.entry[e].owes
<1> DEFINE x == Count(r, e, s)
           job == scene.exclusive /\ ~Rides(s)
           st == r.entry[e].stale \/ r.entry[e].timer = "fired"
           jb == IF job THEN r.entry[e].jobs + 1 ELSE r.entry[e].jobs
           hd == IF job THEN s ELSE r.entry[e].holder
           n == [r.entry[e] EXCEPT !.refs = r.entry[e].refs + 1,
                                   !.jobs = jb,
                                   !.holder = hd,
                                   !.timer = "none",
                                   !.stale = st]
<1>1. x = [r EXCEPT !.entry[e] = n]
  BY DEF Count
<1>2. r.entry[e] \in EntryType
  BY DEF Registry
<1>8. st \in BOOLEAN
  OBVIOUS
<1> HIDE DEF st
<1>9. jb \in Nat /\ hd \in Scopes \cup {Nobody} /\ r.entry[e].refs + 1 \in Nat
  BY <1>2 DEF EntryType
<1> HIDE DEF jb, hd
<1>3. n.refs = r.entry[e].refs + 1 /\ n.jobs = jb /\ n.holder = hd /\ n.timer = "none" /\ n.stale = st
  BY <1>2 DEF EntryType
<1>10. /\ n.retired = r.entry[e].retired /\ n.gone = r.entry[e].gone /\ n.by = r.entry[e].by
       /\ n.lease = r.entry[e].lease /\ n.owes = r.entry[e].owes
  BY <1>2 DEF EntryType
<1>7. n \in EntryType
  BY <1>2, <1>8, <1>9 DEF EntryType
<1> HIDE DEF n, x, job
<1>4. x \in Registry
  BY <1>1, <1>7 DEF Registry
<1>5. x.entry[e] = n /\ \A f \in Entries : f # e => x.entry[f] = r.entry[f]
  BY <1>1 DEF Registry
<1>6. /\ x.current = r.current /\ x.members = r.members /\ x.reserved = r.reserved
      /\ x.waiters = r.waiters /\ x.got = r.got /\ x.live = r.live /\ x.closed = r.closed
  BY <1>1 DEF Registry
<1> QED
  BY <1>3, <1>4, <1>5, <1>6, <1>10 DEF x, job, st, jb, hd

\* A mapping the code accepts.
SceneOk == scene \in SceneType /\ (scene.exclusive => scene.rung = "launch")

\* The types of what a registry holds.
LEMMA Parts ==
    ASSUME NEW r \in Registry
    PROVE  /\ \A e \in Entries :
                 /\ r.entry[e] \in EntryType
                 /\ r.entry[e].refs \in Nat /\ r.entry[e].jobs \in Nat
                 /\ r.entry[e].holder \in Scopes \cup {Nobody}
                 /\ r.entry[e].gone \in {"no", "going", "yes"}
                 /\ r.entry[e].retired \in BOOLEAN /\ r.entry[e].stale \in BOOLEAN
           /\ r.current \in Entries \cup {None} /\ r.members \in Seq(Entries)
           /\ r.reserved \in [Scopes -> 0..1] /\ r.waiters \in Seq(Steps)
           /\ r.got \in [Steps -> Entries \cup {None}] /\ r.live \subseteq Entries
           /\ r.closed \in BOOLEAN
           /\ Members(r) \subseteq Entries /\ Waiting(r) \subseteq Steps
<1>1. \A e \in Entries : r.entry[e] \in EntryType
  BY DEF Registry
<1>2. /\ r.current \in Entries \cup {None} /\ r.members \in Seq(Entries)
      /\ r.reserved \in [Scopes -> 0..1] /\ r.waiters \in Seq(Steps)
      /\ r.got \in [Steps -> Entries \cup {None}] /\ r.live \subseteq Entries
      /\ r.closed \in BOOLEAN
  BY DEF Registry
<1>3. \A n \in EntryType : /\ n.refs \in Nat /\ n.jobs \in Nat
                           /\ n.holder \in Scopes \cup {Nobody}
                           /\ n.gone \in {"no", "going", "yes"}
                           /\ n.retired \in BOOLEAN /\ n.stale \in BOOLEAN
  BY DEF EntryType
<1>4. Members(r) \subseteq Entries /\ Waiting(r) \subseteq Steps
  BY <1>2, SetOf DEF Members, Waiting
<1> QED
  BY <1>1, <1>2, <1>3, <1>4

\* One entry changes, what the scopes hold of it, and who has a place.
Shift(r, x, e) ==
    /\ x \in Registry /\ Once(x.members) /\ Members(x) \subseteq Members(r)
    /\ x.waiters = r.waiters /\ x.got = r.got
    /\ scene.exclusive => x.current = None
    /\ \A f \in Entries \ {e} : x.entry[f] = r.entry[f] /\ (f \in x.live <=> f \in r.live)

\* The entry's holder stays, leaves, or is a job without a machine.
HolderOk(r, x, e) ==
    \/ x.entry[e].holder = r.entry[e].holder
    \/ x.entry[e].holder = Nobody
    \/ /\ x.entry[e].holder \in Jobs /\ x.reserved[x.entry[e].holder] = 0
       /\ \A f \in Members(x) \ {e} : r.entry[f].holder # x.entry[e].holder
       /\ \A p \in Waiting(r) : ScopeOf[p] # x.entry[e].holder

\* A place is kept for a job that had one, or that holds no machine.
ReservedOk(r, x) ==
    \A s \in Scopes : x.reserved[s] > 0 =>
        \/ r.reserved[s] > 0
        \/ /\ s \in Jobs /\ scene.exclusive
           /\ \A f \in Members(x) : x.entry[f].holder # s
           /\ \A p \in Waiting(r) : ScopeOf[p] # s

\* A member of the pool is to be had.
MemberOk(x, e) == e \in Members(x) => e \in x.live /\ x.entry[e].gone = "no" /\ ~x.entry[e].retired

\* One entry changes: what the change does to the others' invariants.
LEMMA CoreChange ==
    ASSUME NEW r, NEW x, NEW H, NEW G \in HoldingType, NEW e \in Entries,
           Core(r, H), Shift(r, x, e),
           \A o \in Scopes : \A f \in Entries \ {e} : G[o][f] = H[o][f],
           EntryOk(x, G, e), MemberOk(x, e), HolderOk(r, x, e), ReservedOk(r, x), One(x)
    PROVE  Core(x, G)
<1>0. r \in Registry /\ Once(r.members) /\ Once(r.waiters) /\ H \in HoldingType
  BY DEF Core, Typed
<1>1. /\ x \in Registry /\ Once(x.members) /\ Members(x) \subseteq Members(r)
      /\ x.waiters = r.waiters /\ x.got = r.got
      /\ scene.exclusive => x.current = None
  BY DEF Shift
<1>2. Typed(x, G) /\ Waiting(x) = Waiting(r)
  BY <1>0, <1>1 DEF Typed, Waiting
<1>3. \A f \in Entries \ {e} : x.entry[f] = r.entry[f] /\ (f \in x.live <=> f \in r.live)
  BY DEF Shift
<1>4. ASSUME NEW f \in Entries PROVE EntryOk(x, G, f)
  <2>1. CASE f = e
    BY <2>1
  <2>2. CASE f # e
    <3>1. x.entry[f] = r.entry[f] /\ Handed(x, f) = Handed(r, f) /\ (f \in x.live <=> f \in r.live)
      BY <2>2, <1>1, <1>3, HandedSame
    <3>2. Total(G, f) = Total(H, f) /\ JobTotal(G, f) = JobTotal(H, f)
      <4>1. [o \in Scopes |-> G[o][f]] = [o \in Scopes |-> H[o][f]]
        BY <2>2
      <4>2. [o \in Jobs |-> G[o][f]] = [o \in Jobs |-> H[o][f]]
        BY <2>2 DEF Jobs
      <4> QED
        BY <4>1, <4>2 DEF Total, JobTotal
    <3>3. \A s \in Jobs : G[s][f] = H[s][f]
      BY <2>2 DEF Jobs
    <3>4. EntryOk(r, H, f)
      BY DEF Core
    <3> QED
      BY <3>1, <3>2, <3>3, <3>4 DEF EntryOk, Tallied, HeldByOne, Alive
  <2> QED
    BY <2>1, <2>2
<1>5. \A f \in Entries : f # e \/ x.entry[e].holder = r.entry[e].holder => x.entry[f].holder = r.entry[f].holder
  BY <1>3
<1>6. Members(r) \subseteq Entries /\ Waiting(r) \subseteq Steps
  BY <1>0, Parts
<1>7. ScopeOf \in [Steps -> Scopes] /\ Nobody \notin Scopes
  BY Constants
<1>8. r.reserved \in [Scopes -> 0..1] /\ x.reserved \in [Scopes -> 0..1]
  BY <1>0, <1>1, Parts
<1>9. Queue(r) /\ Pool(r)
  BY DEF Core
<1>13. \A f \in Members(x) : x.entry[f].holder = r.entry[f].holder \/ f = e
  BY <1>1, <1>3, <1>6
<1>10. Queue(x)
  <2>1. ASSUME NEW p \in Waiting(r), NEW f \in Members(x) PROVE x.entry[f].holder # ScopeOf[p]
    <3>1. r.entry[f].holder # ScopeOf[p] /\ ScopeOf[p] \in Scopes /\ f \in Entries
      BY <1>1, <1>6, <1>7, <1>9 DEF Queue
    <3> QED
      BY <3>1, <1>5, <1>7 DEF HolderOk
  <2>2. ASSUME NEW p \in Waiting(r) PROVE x.reserved[ScopeOf[p]] = 0
    <3>1. r.reserved[ScopeOf[p]] = 0 /\ ScopeOf[p] \in Scopes
      BY <1>6, <1>7, <1>9 DEF Queue
    <3>2. ~(x.reserved[ScopeOf[p]] > 0)
      BY <3>1 DEF ReservedOk
    <3> QED
      BY <3>1, <3>2, <1>8
  <2>3. \A p \in Waiting(r) : r.got[p] = None
    BY <1>9 DEF Queue
  <2>4. \A p : InLine(x, p) <=> InLine(r, p)
    BY <1>1, <1>2 DEF InLine
  <2>5. /\ \A p \in Steps : InLine(x, p) => ScopeOf[p] \in Jobs
        /\ \A p, q \in Steps : InLine(x, p) /\ InLine(x, q) /\ ScopeOf[p] = ScopeOf[q] => p = q
    BY <1>9, <2>4 DEF Queue
  <2> QED
    BY <2>1, <2>2, <2>3, <2>5, <1>1, <1>2 DEF Queue
<1>11. Pool(x)
  <2>1. \A f \in Members(x) : f \in x.live /\ x.entry[f].gone = "no" /\ ~x.entry[f].retired
    BY <1>1, <1>3, <1>6, <1>9 DEF Pool, MemberOk
  <2>2. ASSUME NEW f \in Members(x), NEW g \in Members(x), x.entry[f].holder = x.entry[g].holder, x.entry[f].holder # Nobody
        PROVE  f = g
    <3>1. f \in Members(r) /\ g \in Members(r) /\ f \in Entries /\ g \in Entries
      BY <1>1, <1>6
    <3>2. CASE x.entry[e].holder = r.entry[e].holder
      BY <1>5, <1>9, <2>2, <3>1, <3>2 DEF Pool
    <3>3. CASE x.entry[e].holder # r.entry[e].holder
      <4>1. CASE f = e /\ g # e
        BY <1>5, <2>2, <3>1, <3>3, <4>1 DEF HolderOk
      <4>2. CASE f # e /\ g = e
        BY <1>5, <2>2, <3>1, <3>3, <4>2 DEF HolderOk
      <4>3. CASE f # e /\ g # e
        BY <1>5, <1>9, <2>2, <3>1, <4>3 DEF Pool
      <4> QED
        BY <4>1, <4>2, <4>3
    <3> QED
      BY <3>2, <3>3
  <2>3. ASSUME NEW s \in Scopes, x.reserved[s] > 0
        PROVE  s \in Jobs /\ \A f \in Members(x) : x.entry[f].holder # s
    <3>1. CASE r.reserved[s] > 0
      <4>1. s \in Jobs /\ \A f \in Members(r) : r.entry[f].holder # s
        BY <1>9, <3>1 DEF Pool
      <4>2. x.entry[e].holder # r.entry[e].holder => x.entry[e].holder # s
        BY <1>7, <2>3 DEF HolderOk
      <4> QED
        BY <1>1, <1>5, <1>6, <4>1, <4>2
    <3>2. CASE ~(r.reserved[s] > 0)
      BY <2>3, <3>2 DEF ReservedOk
    <3> QED
      BY <3>1, <3>2
  <2>4. ASSUME ~scene.exclusive
        PROVE  /\ x.members = <<>> /\ x.waiters = <<>>
               /\ \A p \in Steps : x.got[p] = None
               /\ \A s \in Scopes : x.reserved[s] = 0
    <3>1. r.members = <<>> /\ r.waiters = <<>> /\ (\A p \in Steps : r.got[p] = None) /\ \A s \in Scopes : r.reserved[s] = 0
      BY <1>9, <2>4 DEF Pool
    <3>2. x.members \in Seq(Entries) /\ r.members \in Seq(Entries)
      BY <1>0, <1>1, Parts
    <3>3. Members(r) = {}
      BY <3>1, <3>2, SetOf DEF Members
    <3>4. x.members = <<>>
      BY <1>1, <3>2, <3>3, SetOf DEF Members
    <3>5. \A s \in Scopes : x.reserved[s] = 0
      BY <1>8, <2>4, <3>1 DEF ReservedOk
    <3> QED
      BY <1>1, <3>1, <3>4, <3>5
  <2> QED
    BY <2>1, <2>2, <2>3, <2>4, <1>1 DEF Pool
<1> QED
  BY <1>2, <1>4, <1>10, <1>11 DEF Core

-----------------------------------------------------------------------------
(* serve.                                                                  *)

\* A scope's place in the pool: one kept for it, or the machine it holds.
HasPlace(r, s) == r.reserved[s] > 0 \/ \E e \in Members(r) : r.entry[e].holder = s

\* Nothing that is used is given back (until Close stops waiting).
Quiet(r) == \A e \in Entries : r.entry[e].gone # "no" => r.entry[e].refs = 0

\* A timer runs for an entry that is to be had, in an open registry; and an
\* entry that is to be had can be found.
Ticks(r, e) ==
    /\ r.entry[e].timer # "none" =>
          e \in r.live /\ r.entry[e].gone = "no" /\ ~r.entry[e].retired /\ ~r.closed
    /\ e \in r.live /\ r.entry[e].gone = "no" /\ ~r.entry[e].retired => e \in Members(r) \/ r.current = e

\* Every entry's timer is as it should be.
Idle(r) == \A e \in Entries : Ticks(r, e)

\* An entry that goes on: its machine's state, and at least as many on it.
GoesOn(r, x, e) ==
    /\ x.entry[e].lease = r.entry[e].lease /\ x.entry[e].owes = r.entry[e].owes
    /\ x.entry[e].gone = r.entry[e].gone /\ x.entry[e].retired = r.entry[e].retired
    /\ r.entry[e].stale => x.entry[e].stale
    /\ x.entry[e].refs >= r.entry[e].refs
    /\ x.entry[e].timer = r.entry[e].timer \/ x.entry[e].refs > 0
    /\ e \in x.live <=> e \in r.live

\* Waiters are served, and nothing else happens to anybody.
Advances(r, x) ==
    /\ x.reserved = r.reserved /\ x.closed = r.closed /\ x.current = r.current
    /\ Waiting(x) \subseteq Waiting(r) /\ Members(r) \subseteq Members(x)
    /\ \A p \in Steps : IF p \in Waiting(r) /\ p \notin Waiting(x)
                        THEN x.got[p] # None /\ HasPlace(x, ScopeOf[p])
                        ELSE x.got[p] = r.got[p]
    /\ \A e \in Members(r) : r.entry[e].holder # Nobody => x.entry[e].holder = r.entry[e].holder
    /\ \A e \in Entries : IF e \in Unused(r) THEN e \in x.live => x.entry[e].lease = "none"
                          ELSE GoesOn(r, x, e)
    /\ Quiet(r) => Quiet(x)
    /\ Idle(r) => Idle(x)

\* Serving waiters takes nobody's place.
LEMMA EveryPlaceKept ==
    ASSUME NEW r, NEW x, Advances(r, x), NEW s \in Scopes, HasPlace(r, s)
    PROVE  HasPlace(x, s)
<1>1. Nobody \notin Scopes
  BY Constants
<1> QED
  BY <1>1 DEF Advances, HasPlace

\* Serving waiters makes no identifier unused.
LEMMA FewerUnused ==
    ASSUME NEW r \in Registry, NEW x \in Registry, Advances(r, x)
    PROVE  Unused(x) \subseteq Unused(r)
<1> SUFFICES ASSUME NEW e \in Unused(x), e \notin Unused(r) PROVE FALSE
  OBVIOUS
<1>1. /\ e \in Entries /\ e \notin x.live /\ ~x.entry[e].stale /\ x.entry[e].refs = 0
      /\ \A p \in Steps : step[p].pc = "landing" => step[p].at # e
  BY DEF Unused
<1>2. GoesOn(r, x, e)
  BY <1>1 DEF Advances
<1>3. r.entry[e].refs \in Nat /\ x.entry[e].refs \in Nat
  BY <1>1, Parts
<1>4. e \notin r.live /\ ~r.entry[e].stale /\ r.entry[e].refs = 0
  BY <1>1, <1>2, <1>3 DEF GoesOn
<1> QED
  BY <1>1, <1>4 DEF Unused

\* Serving nobody.
LEMMA StandsStill ==
    ASSUME NEW r \in Registry
    PROVE  Advances(r, r)
<1>1. \A e \in Unused(r) : e \notin r.live
  BY DEF Unused
<1>2. \A e \in Entries : GoesOn(r, r, e)
  BY Parts DEF GoesOn
<1> QED
  BY <1>1, <1>2 DEF Advances

\* Serving one, and then others.
LEMMA StepByStep ==
    ASSUME NEW r \in Registry, NEW y \in Registry, NEW x \in Registry, Advances(r, y), Advances(y, x)
    PROVE  Advances(r, x)
<1>1. /\ x.reserved = r.reserved /\ x.closed = r.closed /\ x.current = r.current
      /\ Waiting(x) \subseteq Waiting(r) /\ Members(r) \subseteq Members(x)
      /\ Quiet(r) => Quiet(x) /\ (Idle(r) => Idle(x))
  BY DEF Advances
<1>2. ASSUME NEW p \in Steps
      PROVE  IF p \in Waiting(r) /\ p \notin Waiting(x)
             THEN x.got[p] # None /\ HasPlace(x, ScopeOf[p])
             ELSE x.got[p] = r.got[p]
  <2>1. Waiting(x) \subseteq Waiting(y) /\ Waiting(y) \subseteq Waiting(r)
    BY DEF Advances
  <2>2. CASE p \in Waiting(r) /\ p \notin Waiting(y)
    <3>1. y.got[p] # None /\ HasPlace(y, ScopeOf[p]) /\ x.got[p] = y.got[p] /\ p \notin Waiting(x)
      BY <2>1, <2>2 DEF Advances
    <3>2. HasPlace(x, ScopeOf[p])
      BY <3>1, EveryPlaceKept, Constants
    <3> QED
      BY <2>2, <3>1, <3>2
  <2>3. CASE ~(p \in Waiting(r) /\ p \notin Waiting(y))
    <3>1. y.got[p] = r.got[p] /\ (p \in Waiting(r) <=> p \in Waiting(y))
      BY <2>1, <2>3 DEF Advances
    <3> QED
      BY <3>1 DEF Advances
  <2> QED
    BY <2>2, <2>3
<1>3. \A e \in Members(r) : r.entry[e].holder # Nobody => x.entry[e].holder = r.entry[e].holder
  BY DEF Advances
<1>4. ASSUME NEW e \in Entries
      PROVE  IF e \in Unused(r) THEN e \in x.live => x.entry[e].lease = "none" ELSE GoesOn(r, x, e)
  <2>1. Unused(y) \subseteq Unused(r)
    BY FewerUnused
  <2>2. r.entry[e].refs \in Nat /\ y.entry[e].refs \in Nat /\ x.entry[e].refs \in Nat
    BY Parts
  <2>3. CASE e \in Unused(r)
    <3>1. CASE e \in Unused(y)
      BY <2>3, <3>1 DEF Advances
    <3>2. CASE e \notin Unused(y)
      BY <2>3, <3>2 DEF Advances, GoesOn
    <3> QED
      BY <3>1, <3>2
  <2>4. CASE e \notin Unused(r)
    <3>1. GoesOn(r, y, e) /\ GoesOn(y, x, e)
      BY <2>1, <2>4 DEF Advances
    <3>2. GoesOn(r, x, e)
      BY <2>2, <3>1 DEF GoesOn
    <3> QED
      BY <2>4, <3>2
  <2> QED
    BY <2>3, <2>4
<1> QED
  BY <1>1, <1>2, <1>3, <1>4 DEF Advances

\* Nobody holds an entry nothing refers to.
LEMMA UnusedIsFree ==
    ASSUME NEW r, NEW H, Core(r, H), NEW e \in Unused(r)
    PROVE  /\ e \in Entries /\ e \notin r.live /\ e \notin Members(r) /\ r.current # e
           /\ \A s \in Scopes : H[s][e] = 0
           /\ Total(H, e) = 0 /\ JobTotal(H, e) = 0
           /\ \A p \in Steps : r.got[p] # e
           /\ Cardinality(Handed(r, e)) = 0
<1>1. e \in Entries /\ e \notin r.live /\ r.entry[e].refs = 0
  BY DEF Unused
<1>2. r.entry[e].refs = Total(H, e) + Cardinality(Handed(r, e)) /\ H \in HoldingType
  BY <1>1 DEF Core, EntryOk, Tallied, Typed
<1>3. Total(H, e) \in Nat /\ Cardinality(Handed(r, e)) \in Nat
  BY <1>1, <1>2, TotalType, HandedType
<1>4. Total(H, e) = 0 /\ Cardinality(Handed(r, e)) = 0
  BY <1>1, <1>2, <1>3
<1>5. \A s \in Scopes : H[s][e] = 0
  BY <1>1, <1>2, <1>4, TotalType
<1>6. JobTotal(H, e) = 0
  BY <1>1, <1>2, <1>5, TotalType DEF Jobs
<1>7. \A p \in Steps : r.got[p] # e
  BY <1>4, HandedType
<1>8. e \notin Members(r)
  BY <1>1 DEF Core, Pool
<1>9. r.current # e
  BY <1>1, Constants DEF Core, One
<1> QED
  BY <1>1, <1>4, <1>5, <1>6, <1>7, <1>8, <1>9

\* A new entry, field by field.
LEMMA NewEntryIs ==
    /\ NewEntry \in EntryType /\ NewEntry.refs = 0 /\ NewEntry.jobs = 0 /\ NewEntry.holder = Nobody
    /\ NewEntry.retired = FALSE /\ NewEntry.timer = "none" /\ NewEntry.stale = FALSE
    /\ NewEntry.gone = "no" /\ NewEntry.lease = "none" /\ NewEntry.owes = FALSE
BY DEF NewEntry, EntryType

\* A new machine for the pool.
LEMMA Joins ==
    ASSUME NEW r, NEW H, Core(r, H), SceneOk, scene.exclusive, Unused(r) # {}
    PROVE  /\ Core(Member(r), H) /\ Advances(r, Member(r))
           /\ FreshEntry(r) \in Unused(r) /\ Head(Member(r).members) = FreshEntry(r)
           /\ Members(Member(r)) = Members(r) \cup {FreshEntry(r)}
           /\ Member(r).entry[FreshEntry(r)] = NewEntry
           /\ \A f \in Entries : f # FreshEntry(r) => Member(r).entry[f] = r.entry[f]
           /\ Unused(Member(r)) = Unused(r) \ {FreshEntry(r)}
           /\ Len(Member(r).members) = Len(r.members) + 1
           /\ Member(r).waiters = r.waiters
<1> DEFINE e == FreshEntry(r)
           x == Member(r)
<1>1. e \in Unused(r)
  BY DEF FreshEntry
<1> HIDE DEF e
<1>2. /\ e \in Entries /\ e \notin r.live /\ e \notin Members(r) /\ r.current # e
      /\ \A s \in Scopes : H[s][e] = 0
      /\ Total(H, e) = 0 /\ JobTotal(H, e) = 0
      /\ \A p \in Steps : r.got[p] # e
      /\ Cardinality(Handed(r, e)) = 0
  BY <1>1, UnusedIsFree
<1>3. r \in Registry /\ Once(r.members) /\ Once(r.waiters) /\ H \in HoldingType
  BY DEF Core, Typed
<1> DEFINE q == <<e>> \o r.members
<1>4. q \in Seq(Entries) /\ Once(q) /\ ToSet(q) = ToSet(r.members) \cup {e} /\ Head(q) = e /\ Len(q) = Len(r.members) + 1
  BY <1>2, <1>3, Parts, PutFirst DEF Members
<1> HIDE DEF q
<1>5. x = [r EXCEPT !.entry[e] = NewEntry, !.live = r.live \cup {e}, !.members = q]
  <2>1. Born(r).members = r.members
    BY <1>3 DEF Born, Registry
  <2> QED
    BY <1>3, <2>1 DEF Member, Born, e, q, Registry
<1> HIDE DEF x
<1>6. x \in Registry
  BY <1>2, <1>3, <1>4, <1>5, NewEntryIs DEF Registry
<1>7. /\ x.entry[e] = NewEntry /\ \A f \in Entries : f # e => x.entry[f] = r.entry[f]
      /\ x.live = r.live \cup {e} /\ x.members = q
      /\ x.current = r.current /\ x.reserved = r.reserved /\ x.waiters = r.waiters
      /\ x.got = r.got /\ x.closed = r.closed
  BY <1>2, <1>3, <1>5 DEF Registry
<1>8. Members(x) = Members(r) \cup {e} /\ Waiting(x) = Waiting(r)
  BY <1>4, <1>7 DEF Members, Waiting
<1>9. Typed(x, H)
  BY <1>3, <1>4, <1>6, <1>7 DEF Typed
<1>10. \A f : Handed(x, f) = Handed(r, f)
  BY <1>7, HandedSame
<1>11. ~Parked
  BY DEF Parked, SceneOk
<1>12. ASSUME NEW f \in Entries PROVE EntryOk(x, H, f)
  <2>1. CASE f = e
    <3>1. Tallied(x, H, e)
      BY <1>2, <1>7, <1>10, NewEntryIs DEF Tallied
    <3>2. HeldByOne(x, H, e)
      BY <1>2, <1>7, <1>10, NewEntryIs, Constants DEF HeldByOne, Handed, Jobs
    <3>3. Alive(x, e)
      BY <1>7, <1>11, NewEntryIs DEF Alive
    <3> QED
      BY <2>1, <3>1, <3>2, <3>3 DEF EntryOk
  <2>2. CASE f # e
    <3>1. EntryOk(r, H, f) /\ x.entry[f] = r.entry[f] /\ (f \in x.live <=> f \in r.live)
      BY <2>2, <1>7 DEF Core
    <3> QED
      BY <3>1, <1>10 DEF EntryOk, Tallied, HeldByOne, Alive
  <2> QED
    BY <2>1, <2>2
<1>13. Queue(r) /\ Pool(r) /\ One(r)
  BY DEF Core
<1>14. Members(r) \subseteq Entries /\ Waiting(r) \subseteq Steps
  BY <1>3, Parts
<1>15. x.entry[e].holder = Nobody /\ \A f \in Members(r) : x.entry[f] = r.entry[f]
  BY <1>2, <1>7, <1>14, NewEntryIs
<1>16. \A p \in Steps : ScopeOf[p] # Nobody
  BY Constants
<1>17. Queue(x)
  BY <1>7, <1>8, <1>13, <1>14, <1>15, <1>16 DEF Queue, InLine
<1>18. Pool(x)
  <2>1. \A f \in Members(x) : f \in x.live /\ x.entry[f].gone = "no" /\ ~x.entry[f].retired
    BY <1>7, <1>8, <1>13, <1>15, NewEntryIs DEF Pool
  <2>2. \A f, g \in Members(x) : x.entry[f].holder = x.entry[g].holder /\ x.entry[f].holder # Nobody => f = g
    BY <1>8, <1>13, <1>15 DEF Pool
  <2>3. \A s \in Scopes : x.reserved[s] > 0 => s \in Jobs /\ \A f \in Members(x) : x.entry[f].holder # s
    BY <1>7, <1>8, <1>13, <1>15, Constants DEF Pool
  <2> QED
    BY <2>1, <2>2, <2>3, <1>7, <1>13 DEF Pool
<1>19. One(x)
  BY <1>7, <1>11, <1>13 DEF One, Pool
<1>20. Core(x, H)
  BY <1>9, <1>12, <1>17, <1>18, <1>19 DEF Core
<1>21. Advances(r, x)
  <2>1. Quiet(r) => Quiet(x)
    BY <1>7, NewEntryIs DEF Quiet
  <2>5. Idle(r) => Idle(x)
    BY <1>7, <1>8, NewEntryIs DEF Idle, Ticks
  <2>2. \A f \in Entries : f # e => GoesOn(r, x, f)
    BY <1>3, <1>7, Parts DEF GoesOn
  <2>3. \A f \in Unused(r) : f \in x.live => x.entry[f].lease = "none"
    BY <1>7, NewEntryIs DEF Unused
  <2>4. \A f \in Members(r) : x.entry[f].holder = r.entry[f].holder
    BY <1>15
  <2> QED
    BY <1>1, <1>7, <1>8, <2>1, <2>2, <2>3, <2>4, <2>5 DEF Advances
<1>22. Unused(x) = Unused(r) \ {e}
  BY <1>7 DEF Unused
<1> QED
  BY <1>1, <1>4, <1>7, <1>8, <1>20, <1>21, <1>22 DEF x, e

\* The first waiter leaves the queue with a machine that is counted for it.
GivenFirst(r, x, e, p) ==
    /\ x \in Registry
    /\ x.current = r.current /\ x.members = r.members /\ x.reserved = r.reserved
    /\ x.live = r.live /\ x.closed = r.closed
    /\ x.waiters = Tail(r.waiters) /\ GotSet(r, x, p, e)
    /\ \A f \in Entries : f # e => x.entry[f] = r.entry[f]
    /\ x.entry[e].refs = r.entry[e].refs + 1 /\ x.entry[e].jobs = r.entry[e].jobs + 1
    /\ x.entry[e].holder = ScopeOf[p] /\ x.entry[e].timer = "none"
    /\ r.entry[e].stale => x.entry[e].stale
    /\ x.entry[e].retired = r.entry[e].retired /\ x.entry[e].gone = r.entry[e].gone
    /\ x.entry[e].lease = r.entry[e].lease /\ x.entry[e].owes = r.entry[e].owes

\* The first who waits.
First(r, p) == r.waiters # <<>> /\ Head(r.waiters) = p

\* serve's hand-over, field by field.
LEMMA GivenFirstIs ==
    ASSUME NEW r \in Registry, scene.exclusive, NEW e \in Entries, NEW p \in Steps, First(r, p), ScopeOf[p] \in Jobs, NEW x,
           x = [Count(r, e, ScopeOf[p]) EXCEPT !.waiters = Tail(@), !.got[p] = e]
    PROVE  GivenFirst(r, x, e, p)
<1> DEFINE s == ScopeOf[p]
           y == Count(r, e, s)
           w == Tail(r.waiters)
           g == [r.got EXCEPT ![p] = e]
<1>1. s \in Scopes /\ s \in Jobs /\ ~Rides(s) /\ scene.exclusive \in BOOLEAN
  BY Constants DEF Jobs
<1>2. /\ r.waiters \in Seq(Steps) /\ r.got \in [Steps -> Entries \cup {None}]
  BY Parts
<1>3. w \in Seq(Steps) /\ g \in [Steps -> Entries \cup {None}]
  BY <1>2, HeadTailProperties DEF First
<1> HIDE DEF s
<1>7. /\ y \in Registry
      /\ y.current = r.current /\ y.members = r.members /\ y.reserved = r.reserved
      /\ y.waiters = r.waiters /\ y.got = r.got /\ y.live = r.live /\ y.closed = r.closed
      /\ \A f \in Entries : f # e => y.entry[f] = r.entry[f]
      /\ y.entry[e].refs = r.entry[e].refs + 1
      /\ y.entry[e].jobs = r.entry[e].jobs + 1
      /\ y.entry[e].holder = s
      /\ y.entry[e].timer = "none"
      /\ y.entry[e].stale = (r.entry[e].stale \/ r.entry[e].timer = "fired")
      /\ y.entry[e].retired = r.entry[e].retired /\ y.entry[e].gone = r.entry[e].gone
      /\ y.entry[e].lease = r.entry[e].lease
      /\ y.entry[e].owes = r.entry[e].owes
  BY <1>1, CountIs
<1> HIDE DEF y
<1>8. x = [y EXCEPT !.waiters = w, !.got = g]
  BY <1>7 DEF y, s
<1> HIDE DEF w, g
<1>9. x \in Registry
  BY <1>3, <1>7, <1>8 DEF Registry
<1>10. /\ x.entry = y.entry /\ x.current = y.current /\ x.members = y.members /\ x.reserved = y.reserved
       /\ x.live = y.live /\ x.closed = y.closed /\ x.waiters = w /\ x.got = g
  BY <1>7, <1>8 DEF Registry
<1>11. r.entry[e].stale => x.entry[e].stale
  BY <1>7, <1>10
<1>12. GotSet(r, x, p, e) /\ x.waiters = Tail(r.waiters)
  BY <1>10 DEF GotSet, g, w
<1>13. y.entry[e].holder = ScopeOf[p]
  BY <1>7 DEF s
<1> QED
  BY <1>7, <1>9, <1>10, <1>11, <1>12, <1>13 DEF GivenFirst

\* The first waiter is handed a machine of the pool that no job holds.
LEMMA HandOver ==
    ASSUME NEW r, NEW H, Core(r, H), SceneOk, scene.exclusive,
           NEW e \in Entries, e \in Members(r), r.entry[e].jobs = 0,
           NEW p \in Steps, First(r, p), NEW x, GivenFirst(r, x, e, p)
    PROVE  /\ Core(x, H) /\ Advances(r, x) /\ Unused(x) = Unused(r)
           /\ x.members = r.members /\ x.reserved = r.reserved /\ Len(x.waiters) = Len(r.waiters) - 1
<1> DEFINE s == ScopeOf[p]
<1>1. r \in Registry /\ Once(r.members) /\ Once(r.waiters) /\ H \in HoldingType
  BY DEF Core, Typed
<1>2. /\ Members(r) \subseteq Entries /\ Waiting(r) \subseteq Steps
      /\ r.waiters \in Seq(Steps) /\ r.got \in [Steps -> Entries \cup {None}]
      /\ \A f \in Entries : r.entry[f].refs \in Nat
  BY <1>1, Parts
<1>3. /\ Tail(r.waiters) \in Seq(Steps) /\ Once(Tail(r.waiters))
      /\ Len(Tail(r.waiters)) = Len(r.waiters) - 1
      /\ p \in Waiting(r) /\ ToSet(Tail(r.waiters)) = Waiting(r) \ {p}
  BY <1>1, <1>2, TakeFirst DEF Waiting, First
<1>4. Queue(r) /\ Pool(r) /\ One(r)
  BY DEF Core
<1>5. /\ p \in Steps /\ s \in Scopes /\ s \in Jobs /\ ~Rides(s) /\ e \in Entries
      /\ r.got[p] = None /\ r.reserved[s] = 0 /\ \A f \in Members(r) : r.entry[f].holder # s
  BY <1>2, <1>3, <1>4, Constants DEF Queue, InLine
<1>7. /\ \A f \in Entries : f # e => x.entry[f] = r.entry[f]
      /\ x.entry[e].refs = r.entry[e].refs + 1
      /\ x.entry[e].jobs = r.entry[e].jobs + 1
      /\ x.entry[e].holder = s
      /\ x.entry[e].timer = "none"
      /\ r.entry[e].stale => x.entry[e].stale
      /\ x.entry[e].retired = r.entry[e].retired /\ x.entry[e].gone = r.entry[e].gone
      /\ x.entry[e].lease = r.entry[e].lease
      /\ x.entry[e].owes = r.entry[e].owes
  BY DEF GivenFirst
<1> HIDE DEF s
<1>9. /\ x \in Registry
      /\ x.current = r.current /\ x.members = r.members /\ x.reserved = r.reserved
      /\ x.live = r.live /\ x.closed = r.closed
      /\ x.waiters = Tail(r.waiters) /\ GotSet(r, x, p, e)
  BY DEF GivenFirst
<1>26. \A o \in Steps : x.got[o] = IF o = p THEN e ELSE r.got[o]
  BY <1>2, <1>5, <1>9 DEF GotSet
<1>10. Members(x) = Members(r) /\ Waiting(x) = Waiting(r) \ {p}
  BY <1>3, <1>9 DEF Members, Waiting
<1>11. Typed(x, H)
  BY <1>1, <1>3, <1>9 DEF Typed
<1>12. /\ Handed(x, e) = Handed(r, e) \cup {p}
       /\ Cardinality(Handed(x, e)) = Cardinality(Handed(r, e)) + 1
       /\ \A f \in Entries : f # e => Handed(x, f) = Handed(r, f)
  <2>1. p \in Steps /\ e \in Entries /\ r.got \in [Steps -> Entries \cup {None}] /\ r.got[p] = None
        /\ GotSet(r, x, p, e)
    BY <1>2, <1>5, <1>9
  <2>2. Handed(x, e) = Handed(r, e) \cup {p}
    BY <2>1, HandedOver
  <2>3. Cardinality(Handed(x, e)) = Cardinality(Handed(r, e)) + 1
    BY <2>1, HandedOver
  <2>4. \A f \in Entries : f # e => Handed(x, f) = Handed(r, f)
    <3>1. None \notin Entries
      BY Constants
    <3> QED
      BY <2>1, <3>1, <1>26 DEF Handed
  <2> QED
    BY <2>2, <2>3, <2>4
<1>13. /\ JobTotal(H, e) = 0 /\ Cardinality(Handed(r, e)) = 0
       /\ r.entry[e].refs = Total(H, e) + Cardinality(Handed(r, e))
       /\ Total(H, e) \in Nat
  <2>1. r.entry[e].jobs = JobTotal(H, e) + Cardinality(Handed(r, e)) /\ Tallied(r, H, e)
    BY <1>5 DEF Core, EntryOk, Tallied
  <2>2. JobTotal(H, e) \in Nat /\ Cardinality(Handed(r, e)) \in Nat /\ Total(H, e) \in Nat
    BY <1>1, <1>5, TotalType, HandedType
  <2> QED
    BY <2>1, <2>2 DEF Tallied
<1>14. Handed(r, e) = {} /\ \A o \in Jobs : H[o][e] = 0
  <2>1. Handed(r, e) = {}
    <3>1. \A o \in Steps : r.got[o] # e
      BY <1>13, HandedType
    <3> QED
      BY <3>1 DEF Handed
  <2> QED
    BY <2>1, <1>1, <1>5, <1>13, TotalType
<1>15. ASSUME NEW f \in Entries PROVE EntryOk(x, H, f)
  <2>1. CASE f = e
    <3>1. Tallied(x, H, e)
      BY <1>7, <1>9, <1>12, <1>13 DEF Tallied
    <3>2. HeldByOne(x, H, e)
      <4>1. x.entry[e].jobs # 0 /\ x.entry[e].holder = s /\ s \notin Checks
        BY <1>5, <1>7, <1>9 DEF Jobs
      <4>2. \A o \in Handed(x, e) : ScopeOf[o] = s
        BY <1>12, <1>14 DEF s
      <4> QED
        BY <4>1, <4>2, <1>14 DEF HeldByOne
    <3>3. Alive(x, e)
      <4>1. e \in r.live /\ r.entry[e].gone = "no" /\ (Parked => ~r.entry[e].retired)
        BY <1>4, <1>5 DEF Core, EntryOk, Alive, Pool
      <4> QED
        BY <4>1, <1>7, <1>9 DEF Alive
    <3> QED
      BY <2>1, <3>1, <3>2, <3>3 DEF EntryOk
  <2>2. CASE f # e
    <3>1. EntryOk(r, H, f) /\ x.entry[f] = r.entry[f] /\ x.live = r.live /\ Handed(x, f) = Handed(r, f)
      BY <2>2, <1>7, <1>9, <1>12 DEF Core
    <3> QED
      BY <3>1 DEF EntryOk, Tallied, HeldByOne, Alive
  <2> QED
    BY <2>1, <2>2
<1>16. \A o \in Steps : InLine(x, o) <=> InLine(r, o)
  <2> QED
    BY <1>26, <1>3, <1>5, <1>10, Constants DEF InLine
<1>17. \A f \in Members(r) : x.entry[f].holder = IF f = e THEN s ELSE r.entry[f].holder
  BY <1>2, <1>7, <1>9
<1>18. \A o \in Waiting(r) : ScopeOf[o] = s => o = p
  BY <1>2, <1>3, <1>4, <1>5 DEF Queue, InLine, s
<1>19. Queue(x)
  <2>1. ASSUME NEW o \in Waiting(x)
        PROVE  /\ x.got[o] = None /\ x.reserved[ScopeOf[o]] = 0
               /\ \A f \in Members(x) : x.entry[f].holder # ScopeOf[o]
    <3>1. o \in Waiting(r) /\ o # p /\ o \in Steps
      BY <1>2, <1>10
    <3>2. ScopeOf[o] # s
      BY <3>1, <1>18
    <3>3. x.got[o] = r.got[o]
      BY <3>1, <1>26
    <3> QED
      BY <3>1, <3>2, <3>3, <1>4, <1>9, <1>10, <1>17 DEF Queue
  <2> QED
    BY <2>1, <1>4, <1>16 DEF Queue
<1>20. Pool(x)
  <2>1. \A f \in Members(x) : f \in x.live /\ x.entry[f].gone = "no" /\ ~x.entry[f].retired
    <3>1. \A f \in Members(r) : x.entry[f].gone = r.entry[f].gone /\ x.entry[f].retired = r.entry[f].retired
      BY <1>2, <1>7, <1>9
    <3> QED
      BY <3>1, <1>4, <1>9, <1>10 DEF Pool
  <2>2. \A f, g \in Members(x) : x.entry[f].holder = x.entry[g].holder /\ x.entry[f].holder # Nobody => f = g
    BY <1>4, <1>5, <1>10, <1>17 DEF Pool
  <2>3. \A o \in Scopes : x.reserved[o] > 0 => o \in Jobs /\ \A f \in Members(x) : x.entry[f].holder # o
    BY <1>4, <1>5, <1>9, <1>10, <1>17 DEF Pool
  <2> QED
    BY <2>1, <2>2, <2>3, <1>4, <1>9 DEF Pool
<1>21. One(x)
  BY <1>4, <1>9, SceneOk DEF One, Pool, SceneOk, Parked
<1>22. Core(x, H)
  BY <1>11, <1>15, <1>19, <1>20, <1>21 DEF Core
<1>23. r.entry[e].gone = "no" /\ e \in r.live /\ x.entry[e].gone = "no" /\ x.entry[e].refs > 0
  BY <1>2, <1>4, <1>5, <1>7, <1>9 DEF Pool
<1>24. Unused(x) = Unused(r)
  <2>1. ASSUME NEW f \in Entries
        PROVE  f \in Unused(x) <=> f \in Unused(r)
    <3>1. CASE f = e
      BY <3>1, <1>9, <1>23 DEF Unused
    <3>2. CASE f # e
      BY <3>2, <1>7, <1>9 DEF Unused
    <3> QED
      BY <3>1, <3>2
  <2> QED
    BY <2>1 DEF Unused
<1>25. Advances(r, x)
  <2>1. Quiet(r) => Quiet(x)
    BY <1>7, <1>9, <1>23 DEF Quiet
  <2>2. \A f \in Entries : GoesOn(r, x, f)
    <3> SUFFICES ASSUME NEW f \in Entries PROVE GoesOn(r, x, f)
      OBVIOUS
    <3>1. CASE f = e
      BY <3>1, <1>2, <1>7, <1>9, <1>23 DEF GoesOn
    <3>2. CASE f # e
      BY <3>2, <1>2, <1>7, <1>9 DEF GoesOn
    <3> QED
      BY <3>1, <3>2
  <2>3. \A f \in Unused(r) : f \notin x.live
    BY <1>9 DEF Unused
  <2>4. \A f \in Members(r) : r.entry[f].holder # Nobody => x.entry[f].holder = r.entry[f].holder
    <3>1. r.entry[e].holder = Nobody
      BY <1>5 DEF Core, EntryOk, HeldByOne
    <3> QED
      BY <3>1, <1>17
  <2>5. x.got[p] # None /\ HasPlace(x, ScopeOf[p])
    <3>1. x.got[p] = e /\ e # None
      BY <1>5, <1>26, Constants
    <3>2. e \in Members(x) /\ x.entry[e].holder = s
      BY <1>7, <1>10
    <3> QED
      BY <3>1, <3>2 DEF HasPlace, s
  <2>6. \A o \in Steps : o # p => x.got[o] = r.got[o]
    BY <1>26
  <2>7. \A o \in Steps : o \in Waiting(r) /\ o \notin Waiting(x) <=> o = p
    BY <1>2, <1>3, <1>10
  <2>8. Idle(r) => Idle(x)
    BY <1>4, <1>7, <1>9, <1>10, <1>23 DEF Idle, Ticks
  <2> QED
    BY <1>9, <1>10, <2>1, <2>2, <2>3, <2>4, <2>5, <2>6, <2>7, <2>8 DEF Advances
<1> QED
  BY <1>3, <1>9, <1>22, <1>24, <1>25

\* Nobody waits, or nothing can be done for the first who does.
Stuck(r) == r.waiters = <<>> \/ (Warmest(r, TRUE) = None /\ ~Room(r))

\* Identifiers for whatever the waiters may need.
Stocked(r) == Cardinality(Unused(r)) >= Len(r.waiters)

\* The pool, kept places counted, is within ?max=.
Within(r) == Len(r.members) + Reserved(r) <= scene.max

\* Lengths and counts are naturals.
LEMMA Sizes ==
    ASSUME NEW r \in Registry
    PROVE  /\ Len(r.members) \in Nat /\ Len(r.waiters) \in Nat /\ Reserved(r) \in Nat
           /\ IsFiniteSet(Unused(r)) /\ Cardinality(Unused(r)) \in Nat
<1>1. Len(r.members) \in Nat /\ Len(r.waiters) \in Nat
  BY Parts, SetOf
<1>2. r.reserved \in [Scopes -> Nat] /\ IsFiniteSet(Scopes)
  <2>1. r.reserved \in [Scopes -> 0..1]
    BY Parts
  <2> QED
    BY <2>1, Constants
<1>3. Reserved(r) \in Nat
  BY <1>2, SumType DEF Reserved
<1>4. IsFiniteSet(Unused(r))
  BY Constants, FS_Subset DEF Unused
<1> QED
  BY <1>1, <1>3, <1>4, FS_CardinalityType

\* One waiter served, or nothing to serve him with.
LEMMA ServeOne ==
    ASSUME NEW r, NEW H, Core(r, H), SceneOk, scene.exclusive, Stocked(r)
    PROVE  /\ Core(ServeNext(r), H) /\ Advances(r, ServeNext(r)) /\ Stocked(ServeNext(r))
           /\ Stuck(r) => ServeNext(r) = r
           /\ ~Stuck(r) => Len(ServeNext(r).waiters) = Len(r.waiters) - 1
           /\ scene.max > 0 /\ Within(r) => Within(ServeNext(r))
<1> DEFINE p == Head(r.waiters)
           free == Warmest(r, TRUE)
           y == IF free = None THEN Member(r) ELSE r
           e == IF free = None THEN Head(y.members) ELSE free
           z == [Count(y, e, ScopeOf[p]) EXCEPT !.waiters = Tail(@), !.got[p] = e]
<1>1. ServeNext(r) = IF r.waiters # <<>> /\ (free # None \/ Room(r)) THEN z ELSE r
  BY DEF ServeNext
<1>2. Stuck(r) <=> ~(r.waiters # <<>> /\ (free # None \/ Room(r)))
  BY DEF Stuck
<1>3. r \in Registry
  BY DEF Core, Typed
<1>4. CASE Stuck(r)
  <2>1. ServeNext(r) = r
    BY <1>1, <1>2, <1>4
  <2> QED
    BY <2>1, <1>3, <1>4, StandsStill
<1>5. CASE ~Stuck(r)
  <2>1. r.waiters # <<>> /\ (free # None \/ Room(r)) /\ ServeNext(r) = z
    BY <1>1, <1>2, <1>5
  <2>2. Len(r.members) \in Nat /\ Len(r.waiters) \in Nat /\ Reserved(r) \in Nat
        /\ IsFiniteSet(Unused(r)) /\ Cardinality(Unused(r)) \in Nat /\ Len(r.waiters) >= 1
        /\ scene.max \in Nat
    <3>1. Len(r.waiters) # 0
      BY <1>3, <2>1, Parts, EmptySeq
    <3>2. scene.max \in Nat
      BY DEF SceneOk, SceneType
    <3> QED
      BY <1>3, <3>1, <3>2, Sizes
  <2>3. Unused(r) # {}
    BY <2>2, FS_EmptySet DEF Stocked
  <2>4. r.waiters \in Seq(Steps) /\ p \in Waiting(r) /\ p \in Steps
    <3>1. r.waiters \in Seq(Steps) /\ Once(r.waiters) /\ Waiting(r) \subseteq Steps
      BY <1>3, Parts DEF Core, Typed
    <3> QED
      BY <2>1, <3>1, TakeFirst DEF Waiting
  <2>5. ScopeOf[p] \in Jobs
    BY <2>4 DEF Core, Queue, InLine
  <2>6. /\ Core(y, H) /\ Advances(r, y) /\ y.waiters = r.waiters
        /\ e \in Entries /\ e \in Members(y) /\ y.entry[e].jobs = 0
        /\ Cardinality(Unused(y)) >= Len(r.waiters) - 1
        /\ scene.max > 0 /\ Within(r) => Len(y.members) + Reserved(y) <= scene.max
    <3>1. CASE free = None
      <4>1. y = Member(r) /\ e = Head(Member(r).members)
        BY <3>1
      <4>2. /\ Core(Member(r), H) /\ Advances(r, Member(r))
            /\ FreshEntry(r) \in Unused(r) /\ Head(Member(r).members) = FreshEntry(r)
            /\ Members(Member(r)) = Members(r) \cup {FreshEntry(r)}
            /\ Member(r).entry[FreshEntry(r)] = NewEntry
            /\ Unused(Member(r)) = Unused(r) \ {FreshEntry(r)}
            /\ Len(Member(r).members) = Len(r.members) + 1
            /\ Member(r).waiters = r.waiters
        BY <2>3, Joins
      <4>3. e = FreshEntry(r) /\ e \in Entries
        BY <4>1, <4>2 DEF Unused
      <4> HIDE DEF y, e
      <4>4. y.entry[e].jobs = 0 /\ e \in Members(y) /\ Unused(y) = Unused(r) \ {e} /\ e \in Unused(r)
        BY <4>1, <4>2, <4>3, NewEntryIs
      <4>5. Cardinality(Unused(y)) = Cardinality(Unused(r)) - 1
        <5>1. IsFiniteSet(Unused(r))
          BY <2>2
        <5>2. Cardinality(Unused(r) \ {e}) = Cardinality(Unused(r)) - 1
          BY <4>4, <5>1, FS_RemoveElement
        <5> QED
          BY <4>4, <5>2
      <4>6. Reserved(y) = Reserved(r) /\ Len(y.members) = Len(r.members) + 1
        BY <4>1, <4>2 DEF Reserved, Advances
      <4>7. scene.max > 0 => Len(r.members) + Reserved(r) < scene.max
        <5>1. Room(r)
          BY <2>1, <3>1
        <5> QED
          BY <2>2, <5>1 DEF Room
      <4>8. Cardinality(Unused(y)) >= Len(r.waiters) - 1
        BY <2>2, <4>5 DEF Stocked
      <4>9. scene.max > 0 => Len(y.members) + Reserved(y) <= scene.max
        BY <2>2, <4>6, <4>7
      <4> QED
        BY <4>1, <4>2, <4>3, <4>4, <4>8, <4>9
    <3>2. CASE free # None
      <4>1. y = r /\ e = free
        BY <3>2
      <4>2. free \in Members(r) /\ Fits(r, free, TRUE) /\ Members(r) \subseteq Entries
        BY <1>3, <3>2, Parts, WarmestIs DEF Members
      <4>3. e \in Entries /\ e \in Members(y) /\ y.entry[e].jobs = 0
        BY <4>1, <4>2 DEF Fits
      <4>4. Cardinality(Unused(r)) >= Len(r.waiters) - 1
        BY <2>2 DEF Stocked
      <4> HIDE DEF y, e
      <4> QED
        BY <1>3, <4>1, <4>3, <4>4, StandsStill DEF Within
    <3> QED
      BY <3>1, <3>2
  <2> HIDE DEF y, e
  <2>7. First(y, p) /\ y \in Registry
    BY <2>1, <2>6 DEF First, Core, Typed
  <2>8. GivenFirst(y, z, e, p)
    BY <2>4, <2>5, <2>6, <2>7, GivenFirstIs
  <2> HIDE DEF z, p
  <2>9. /\ Core(z, H) /\ Advances(y, z) /\ Unused(z) = Unused(y)
        /\ z.members = y.members /\ z.reserved = y.reserved /\ Len(z.waiters) = Len(y.waiters) - 1
    BY <2>4, <2>6, <2>7, <2>8, HandOver
  <2>10. z \in Registry
    BY <2>9 DEF Core, Typed
  <2>11. Advances(r, z)
    BY <1>3, <2>6, <2>7, <2>9, <2>10, StepByStep
  <2>12. Stocked(z)
    BY <2>6, <2>9 DEF Stocked
  <2>13. Reserved(z) = Reserved(y)
    BY <2>9 DEF Reserved
  <2>14. scene.max > 0 /\ Within(r) => Within(z)
    BY <2>6, <2>9, <2>13 DEF Within
  <2> QED
    BY <1>5, <2>1, <2>6, <2>9, <2>11, <2>12, <2>14
<1> QED
  BY <1>4, <1>5

\* serve: the waiters are served until nobody waits or nothing is left to give.
LEMMA ServeAll ==
    ASSUME NEW r, NEW H, Core(r, H), SceneOk, scene.exclusive, Stocked(r)
    PROVE  /\ Core(Serving(r)[Len(r.waiters)], H) /\ Advances(r, Serving(r)[Len(r.waiters)])
           /\ Stocked(Serving(r)[Len(r.waiters)]) /\ Stuck(Serving(r)[Len(r.waiters)])
           /\ scene.max > 0 /\ Within(r) => Within(Serving(r)[Len(r.waiters)])
<1> DEFINE f == Serving(r)
           N == Len(r.waiters)
           Good(n) == /\ Core(f[n], H) /\ Advances(r, f[n]) /\ Stocked(f[n])
                      /\ Stuck(f[n]) \/ Len(f[n].waiters) + n = N
                      /\ scene.max > 0 /\ Within(r) => Within(f[n])
           Bad == {n \in Nat : ~Good(n)}
<1>1. f[0] = r /\ \A n \in Nat \ {0} : f[n] = ServeNext(f[n - 1])
  BY ServingIs
<1>2. r \in Registry /\ N \in Nat
  BY Sizes DEF Core, Typed
<1> HIDE DEF f, N
<1>3. Good(0)
  BY <1>1, <1>2, StandsStill DEF N
<1>4. ASSUME NEW n \in Nat \ {0}, Good(n - 1)
      PROVE  Good(n)
  <2> DEFINE a == f[n - 1]
             b == f[n]
  <2>1. b = ServeNext(a) /\ Core(a, H) /\ Advances(r, a) /\ Stocked(a)
        /\ (Stuck(a) \/ Len(a.waiters) + (n - 1) = N)
        /\ (scene.max > 0 /\ Within(r) => Within(a))
    BY <1>1, <1>4
  <2> HIDE DEF a, b
  <2>2. /\ Core(b, H) /\ Advances(a, b) /\ Stocked(b)
        /\ Stuck(a) => b = a
        /\ ~Stuck(a) => Len(b.waiters) = Len(a.waiters) - 1
        /\ scene.max > 0 /\ Within(a) => Within(b)
    BY <2>1, ServeOne
  <2>3. a \in Registry /\ b \in Registry
    BY <2>1, <2>2 DEF Core, Typed
  <2>4. Advances(r, b)
    BY <1>2, <2>1, <2>2, <2>3, StepByStep
  <2>5. Stuck(b) \/ Len(b.waiters) + n = N
    <3>1. CASE Stuck(a)
      BY <2>2, <3>1
    <3>2. CASE ~Stuck(a)
      <4>1. Len(a.waiters) \in Nat
        BY <2>3, Sizes
      <4> QED
        BY <1>2, <2>1, <2>2, <3>2, <4>1
    <3> QED
      BY <3>1, <3>2
  <2> QED
    BY <2>1, <2>2, <2>4, <2>5 DEF b
<1> HIDE DEF Good
<1>5. ASSUME Bad # {} PROVE FALSE
  <2>1. PICK n \in Bad : \A k \in Bad : n <= k
    <3>1. Bad \in SUBSET Nat
      OBVIOUS
    <3> HIDE DEF Bad
    <3> QED
      BY <1>5, <3>1, LeastOf
  <2>2. n \in Nat \ {0}
    BY <1>3, <2>1
  <2>3. n - 1 \in Nat /\ n - 1 \notin Bad
    BY <2>1, <2>2
  <2> QED
    BY <1>4, <2>1, <2>2, <2>3
<1>6. Good(N)
  BY <1>2, <1>5
<1>7. Stuck(f[N])
  <2>1. SUFFICES ASSUME Len(f[N].waiters) + N = N PROVE Stuck(f[N])
    BY <1>6 DEF Good
  <2>2. f[N] \in Registry
    BY <1>6 DEF Good, Core, Typed
  <2>3. Len(f[N].waiters) = 0
    BY <1>2, <2>1, <2>2, Sizes
  <2>4. f[N].waiters = <<>>
    BY <2>2, <2>3, Parts, EmptySeq
  <2> QED
    BY <2>4 DEF Stuck
<1> QED
  BY <1>6, <1>7 DEF Good, f, N

-----------------------------------------------------------------------------
\* The machines of the pool a job may take.
Free(r) == {e \in Members(r) : r.entry[e].jobs = 0 /\ r.entry[e].lease # "failed"}

\* Whoever waits does so for want of room, and the machines free are not more
\* than the places kept.
Settled(r) ==
    r.waiters # <<>> /\ ~r.closed =>
        /\ scene.max > 0 /\ Len(r.members) - Cardinality(Free(r)) + Reserved(r) >= scene.max
        /\ Cardinality(Free(r)) <= Reserved(r)

\* serve, in an open registry or a closed one.
LEMMA ServeIs ==
    ASSUME NEW r, NEW H, Core(r, H), SceneOk, scene.exclusive, Stocked(r)
    PROVE  /\ Core(Serve(r), H) /\ Advances(r, Serve(r)) /\ Stocked(Serve(r)) /\ Settled(Serve(r))
           /\ scene.max > 0 /\ Within(r) => Within(Serve(r))
<1>1. r \in Registry
  BY DEF Core, Typed
<1>2. CASE r.closed
  <2>1. Serve(r) = r
    BY <1>2 DEF Serve
  <2> QED
    BY <1>1, <1>2, <2>1, StandsStill DEF Settled
<1>3. CASE ~r.closed
  <2> DEFINE x == Serving(r)[Len(r.waiters)]
  <2>1. Serve(r) = x
    BY <1>3 DEF Serve
  <2>2. Core(x, H) /\ Advances(r, x) /\ Stocked(x) /\ Stuck(x) /\ (scene.max > 0 /\ Within(r) => Within(x))
    BY ServeAll
  <2> HIDE DEF x
  <2>3. Settled(x)
    <3> SUFFICES ASSUME x.waiters # <<>>
                 PROVE  /\ scene.max > 0 /\ Len(x.members) - Cardinality(Free(x)) + Reserved(x) >= scene.max
                        /\ Cardinality(Free(x)) <= Reserved(x)
      BY DEF Settled
    <3>1. Warmest(x, TRUE) = None /\ ~Room(x) /\ x \in Registry
      BY <2>2 DEF Stuck, Core, Typed
    <3>2. Len(x.members) \in Nat /\ Reserved(x) \in Nat /\ scene.max \in Nat
      BY <3>1, Sizes DEF SceneOk, SceneType
    <3>3. scene.max > 0 /\ Len(x.members) + Reserved(x) >= scene.max
      BY <3>1, <3>2 DEF Room
    <3>4. Free(x) = {}
      <4>1. x.members \in Seq(Entries)
        BY <3>1, Parts
      <4>2. \A e \in ToSet(x.members) : ~Fits(x, e, TRUE)
        BY <3>1, <4>1, WarmestIs
      <4> QED
        BY <4>2 DEF Free, Fits, Members
    <3>5. Cardinality(Free(x)) = 0
      BY <3>4, FS_EmptySet
    <3> QED
      BY <3>2, <3>3, <3>5
  <2> QED
    BY <2>1, <2>2, <2>3
<1> QED
  BY <1>2, <1>3

-----------------------------------------------------------------------------
(* takeOut, retire and drop.                                               *)

\* Somebody does something about one entry, and waiters may be served.
Moves(r, x, e) ==
    /\ x.closed = r.closed /\ Waiting(x) \subseteq Waiting(r)
    /\ \A p \in Steps : IF p \in Waiting(r) /\ p \notin Waiting(x)
                        THEN x.got[p] # None /\ HasPlace(x, ScopeOf[p])
                        ELSE x.got[p] = r.got[p]
    /\ \A f \in Entries \ {e} : IF f \in Unused(r) THEN f \in x.live => x.entry[f].lease = "none"
                                ELSE GoesOn(r, x, f)
    /\ e \in x.live <=> e \in r.live
    /\ x.entry[e].lease = r.entry[e].lease /\ x.entry[e].owes = r.entry[e].owes
    /\ r.entry[e].retired => x.entry[e].retired
    /\ Quiet(r) => Quiet(x)
    /\ Idle(r) => Idle(x)

\* The places everybody but the scope has.
PlacesKept(r, x, S) == \A o \in S : HasPlace(r, o) => HasPlace(x, o)

\* A change of one entry, and of who is to be found where.
Nudge(r, y, e) ==
    /\ y \in Registry /\ y.waiters = r.waiters /\ y.got = r.got /\ y.closed = r.closed
    /\ \A f \in Entries \ {e} : y.entry[f] = r.entry[f]
    /\ y.live = r.live /\ e \notin Unused(r)
    /\ y.entry[e].lease = r.entry[e].lease /\ y.entry[e].owes = r.entry[e].owes
    /\ r.entry[e].retired => y.entry[e].retired
    /\ Quiet(r) => Quiet(y)
    /\ Idle(r) => Idle(y)

\* A change of one entry by itself.
LEMMA NudgeMoves ==
    ASSUME NEW r \in Registry, NEW e \in Entries, NEW y, Nudge(r, y, e)
    PROVE  Moves(r, y, e) /\ Unused(r) \subseteq Unused(y) /\ (Stocked(r) => Stocked(y))
<1>1. Waiting(y) = Waiting(r)
  BY DEF Nudge, Waiting
<1>2. \A f \in Entries \ {e} : GoesOn(r, y, f)
  BY Parts DEF GoesOn, Nudge
<1>3. \A f \in Unused(r) : f \notin y.live
  BY DEF Unused, Nudge
<1>4. Moves(r, y, e)
  BY <1>1, <1>2, <1>3 DEF Moves, Nudge
<1>5. Unused(r) \subseteq Unused(y)
  <2> SUFFICES ASSUME NEW f \in Unused(r) PROVE f \in Unused(y)
    OBVIOUS
  <2>1. f \in Entries /\ f # e
    BY DEF Unused, Nudge
  <2> QED
    BY <2>1 DEF Unused, Nudge
<1>6. /\ Cardinality(Unused(r)) \in Nat /\ Cardinality(Unused(y)) \in Nat
      /\ Cardinality(Unused(r)) <= Cardinality(Unused(y)) /\ Len(r.waiters) \in Nat
  <2>1. y \in Registry
    BY DEF Nudge
  <2> QED
    BY <1>5, <2>1, Sizes, FS_Subset
<1>7. Stocked(r) => Stocked(y)
  BY <1>6 DEF Stocked, Nudge
<1> QED
  BY <1>4, <1>5, <1>7

\* Waiters served, by themselves.
LEMMA AdvanceMoves ==
    ASSUME NEW r \in Registry, NEW x \in Registry, NEW e \in Entries, e \in r.live, Advances(r, x)
    PROVE  Moves(r, x, e) /\ PlacesKept(r, x, Scopes)
<1>1. e \notin Unused(r)
  BY DEF Unused
<1>2. GoesOn(r, x, e)
  BY <1>1 DEF Advances
<1>3. PlacesKept(r, x, Scopes)
  BY EveryPlaceKept DEF PlacesKept
<1> QED
  BY <1>2, <1>3 DEF Moves, Advances, GoesOn

\* A change of one entry, and then waiters served.
LEMMA MovesOn ==
    ASSUME NEW r \in Registry, NEW y \in Registry, NEW x \in Registry, NEW e \in Entries,
           Moves(r, y, e), Moves(y, x, e), PlacesKept(y, x, Scopes)
    PROVE  Moves(r, x, e)
<1>1. ASSUME NEW p \in Steps
      PROVE  IF p \in Waiting(r) /\ p \notin Waiting(x)
             THEN x.got[p] # None /\ HasPlace(x, ScopeOf[p])
             ELSE x.got[p] = r.got[p]
  <2>1. Waiting(x) \subseteq Waiting(y) /\ Waiting(y) \subseteq Waiting(r)
    BY DEF Moves
  <2>2. CASE p \in Waiting(r) /\ p \notin Waiting(y)
    <3>1. y.got[p] # None /\ HasPlace(y, ScopeOf[p]) /\ x.got[p] = y.got[p] /\ p \notin Waiting(x)
      BY <2>1, <2>2 DEF Moves
    <3>2. HasPlace(x, ScopeOf[p])
      BY <3>1, Constants DEF PlacesKept
    <3> QED
      BY <2>2, <3>1, <3>2
  <2>3. CASE ~(p \in Waiting(r) /\ p \notin Waiting(y))
    <3>1. y.got[p] = r.got[p] /\ (p \in Waiting(r) <=> p \in Waiting(y))
      BY <2>1, <2>3 DEF Moves
    <3> QED
      BY <3>1 DEF Moves
  <2> QED
    BY <2>2, <2>3
<1>2. ASSUME NEW f \in Entries \ {e}
      PROVE  IF f \in Unused(r) THEN f \in x.live => x.entry[f].lease = "none" ELSE GoesOn(r, x, f)
  <2>1. r.entry[f].refs \in Nat /\ y.entry[f].refs \in Nat /\ x.entry[f].refs \in Nat
    BY Parts
  <2>2. CASE f \in Unused(r)
    <3>1. f \in y.live => y.entry[f].lease = "none"
      BY <2>2 DEF Moves
    <3>2. CASE f \in Unused(y)
      BY <2>2, <3>2 DEF Moves
    <3>3. CASE f \notin Unused(y)
      <4>1. GoesOn(y, x, f)
        BY <3>3 DEF Moves
      <4> QED
        BY <2>2, <3>1, <4>1 DEF GoesOn
    <3> QED
      BY <3>2, <3>3
  <2>3. CASE f \notin Unused(r)
    <3>1. GoesOn(r, y, f)
      BY <2>3 DEF Moves
    <3>2. f \notin Unused(y)
      BY <2>1, <2>3, <3>1 DEF GoesOn, Unused
    <3>3. GoesOn(y, x, f)
      BY <3>2 DEF Moves
    <3>4. GoesOn(r, x, f)
      BY <2>1, <3>1, <3>3 DEF GoesOn
    <3> QED
      BY <2>3, <3>4
  <2> QED
    BY <2>2, <2>3
<1> QED
  BY <1>1, <1>2 DEF Moves

\* What is left undone changes nothing for those who wait.
LEMMA StaysSettled ==
    ASSUME NEW r, NEW x, Settled(r), x.closed = r.closed, x.waiters = r.waiters,
           Len(x.members) = Len(r.members), Reserved(x) = Reserved(r), Free(x) = Free(r)
    PROVE  Settled(x)
BY DEF Settled

\* A pool without one of its machines, or with it in another place.
LEMMA Removed ==
    ASSUME NEW q \in Seq(Entries), Once(q), NEW e \in Entries
    PROVE  /\ RemoveFirst(q, e) \in Seq(Entries) /\ Once(RemoveFirst(q, e))
           /\ ToSet(RemoveFirst(q, e)) = ToSet(q) \ {e}
           /\ Contains(q, e) <=> e \in ToSet(q)
           /\ Len(RemoveFirst(q, e)) <= Len(q)
           /\ e \in ToSet(q) => Len(RemoveFirst(q, e)) = Len(q) - 1
           /\ e \in ToSet(q) => /\ Append(RemoveFirst(q, e), e) \in Seq(Entries)
                                /\ Once(Append(RemoveFirst(q, e), e))
                                /\ ToSet(Append(RemoveFirst(q, e), e)) = ToSet(q)
                                /\ Len(Append(RemoveFirst(q, e), e)) = Len(q)
<1> DEFINE w == RemoveFirst(q, e)
<1>1. w \in Seq(Entries) /\ Once(w) /\ ToSet(w) = ToSet(q) \ {e}
  BY TakeOne
<1> HIDE DEF w
<1>2. Contains(q, e) <=> e \in ToSet(q)
  BY SetOf
<1>3. /\ IsFiniteSet(ToSet(q)) /\ Cardinality(ToSet(q)) = Len(q) /\ Len(q) \in Nat
      /\ Cardinality(ToSet(w)) = Len(w) /\ Len(w) \in Nat
  BY <1>1, LenIsCardinality, SetOf
<1>4. Cardinality(ToSet(q) \ {e}) = IF e \in ToSet(q) THEN Cardinality(ToSet(q)) - 1 ELSE Cardinality(ToSet(q))
  BY <1>3, FS_RemoveElement
<1>5. Len(w) <= Len(q) /\ (e \in ToSet(q) => Len(w) = Len(q) - 1)
  BY <1>1, <1>3, <1>4
<1>6. ASSUME e \in ToSet(q)
      PROVE  /\ Append(w, e) \in Seq(Entries) /\ Once(Append(w, e))
             /\ ToSet(Append(w, e)) = ToSet(q) /\ Len(Append(w, e)) = Len(q)
  <2>1. e \notin ToSet(w)
    BY <1>1
  <2>2. /\ Append(w, e) \in Seq(Entries) /\ Once(Append(w, e)) /\ ToSet(Append(w, e)) = ToSet(w) \cup {e}
        /\ Len(Append(w, e)) = Len(w) + 1
    BY <1>1, <2>1, PutLast
  <2>3. ToSet(w) \cup {e} = ToSet(q)
    BY <1>1, <1>6
  <2> QED
    BY <1>3, <1>5, <1>6, <2>2, <2>3
<1> QED
  BY <1>1, <1>2, <1>5, <1>6 DEF w

\* The registry with one entry, the pool, the entry in use and the kept places as given.
Rebuilt(r, y, e, n, q, c, v) ==
    y = [r EXCEPT !.entry[e] = n, !.members = q, !.current = c, !.reserved = v]

\* Such a registry, field by field.
LEMMA RebuiltIs ==
    ASSUME NEW r \in Registry, NEW e \in Entries, NEW n \in EntryType, NEW q \in Seq(Entries),
           NEW c \in Entries \cup {None}, NEW v \in [Scopes -> 0..1], NEW y,
           Rebuilt(r, y, e, n, q, c, v)
    PROVE  /\ y \in Registry /\ y.entry[e] = n /\ \A f \in Entries \ {e} : y.entry[f] = r.entry[f]
           /\ y.members = q /\ y.current = c /\ y.reserved = v
           /\ y.waiters = r.waiters /\ y.got = r.got /\ y.live = r.live /\ y.closed = r.closed
<1>1. y \in Registry
  BY DEF Registry, Rebuilt
<1>2. y.entry[e] = n /\ \A f \in Entries : f # e => y.entry[f] = r.entry[f]
  BY DEF Registry, Rebuilt
<1>3. /\ y.members = q /\ y.current = c /\ y.reserved = v
      /\ y.waiters = r.waiters /\ y.got = r.got /\ y.live = r.live /\ y.closed = r.closed
  BY DEF Registry, Rebuilt
<1> QED
  BY <1>1, <1>2, <1>3

\* An entry nobody holds is on its way out; where it was found, it is not any more.
Going(r, y, e) ==
    /\ y \in Registry /\ Once(y.members)
    /\ y.waiters = r.waiters /\ y.got = r.got /\ y.live = r.live /\ y.closed = r.closed
    /\ y.reserved = r.reserved
    /\ \A f \in Entries \ {e} : y.entry[f] = r.entry[f]
    /\ y.entry[e].gone = "going" /\ y.entry[e].refs = r.entry[e].refs /\ y.entry[e].jobs = r.entry[e].jobs
    /\ y.entry[e].holder = r.entry[e].holder /\ y.entry[e].timer = r.entry[e].timer
    /\ y.entry[e].retired = r.entry[e].retired /\ y.entry[e].lease = r.entry[e].lease
    /\ y.entry[e].owes = r.entry[e].owes
    /\ Members(y) = Members(r) \ {e} /\ Len(y.members) <= Len(r.members)
    /\ e \notin Members(r) => y.members = r.members
    /\ y.current = r.current \/ (y.current = None /\ ~Parked /\ ~scene.exclusive)
    /\ ~Parked => y.current # e
    /\ r.current # e => y.current = r.current

\* takeOut: the entry is on its way out, and then the waiters are served.
LEMMA TakeOutGoes ==
    ASSUME NEW r, NEW H, Core(r, H), SceneOk, NEW e \in Entries, NEW who \in Scopes \cup {Nobody}
    PROVE  \E y : /\ Going(r, y, e)
                  /\ TakeOut(r, e, who) = IF e \in Members(r) THEN Serve(y) ELSE y
<1> DEFINE n == [r.entry[e] EXCEPT !.gone = "going", !.by = who]
           out == [r EXCEPT !.entry[e] = n]
           Y(q, c) == [r EXCEPT !.entry[e] = n, !.members = q, !.current = c, !.reserved = r.reserved]
<1>1. r \in Registry /\ Once(r.members)
  BY DEF Core, Typed
<1>2. /\ r.members \in Seq(Entries) /\ r.current \in Entries \cup {None} /\ r.reserved \in [Scopes -> 0..1]
      /\ r.entry[e] \in EntryType
  BY <1>1, Parts
<1>3. /\ n \in EntryType /\ n.gone = "going" /\ n.refs = r.entry[e].refs /\ n.jobs = r.entry[e].jobs
      /\ n.holder = r.entry[e].holder /\ n.timer = r.entry[e].timer
      /\ n.retired = r.entry[e].retired /\ n.lease = r.entry[e].lease /\ n.owes = r.entry[e].owes
  BY <1>2 DEF EntryType
<1>4. TakeOut(r, e, who) = IF Parked THEN out ELSE Forget(out, e)
  BY DEF TakeOut
<1> HIDE DEF n
<1>5. out.members = r.members /\ out.current = r.current
  BY <1>1 DEF Registry
<1>6. /\ RemoveFirst(r.members, e) \in Seq(Entries) /\ Once(RemoveFirst(r.members, e))
      /\ ToSet(RemoveFirst(r.members, e)) = Members(r) \ {e}
      /\ Contains(r.members, e) <=> e \in Members(r)
      /\ Len(RemoveFirst(r.members, e)) <= Len(r.members)
  BY <1>1, <1>2, Removed DEF Members
<1>7. ASSUME NEW q \in Seq(Entries), Once(q), ToSet(q) = Members(r) \ {e}, Len(q) <= Len(r.members),
             e \notin Members(r) => q = r.members,
             NEW c \in Entries \cup {None}, c = r.current \/ (c = None /\ ~Parked /\ ~scene.exclusive),
             ~Parked => c # e, r.current # e => c = r.current
      PROVE  Going(r, Y(q, c), e)
  <2> DEFINE y == Y(q, c)
  <2>3. Rebuilt(r, y, e, n, q, c, r.reserved)
    BY DEF Rebuilt
  <2> HIDE DEF y, Y
  <2>1. /\ y \in Registry /\ y.entry[e] = n /\ \A f \in Entries \ {e} : y.entry[f] = r.entry[f]
        /\ y.members = q /\ y.current = c /\ y.reserved = r.reserved
        /\ y.waiters = r.waiters /\ y.got = r.got /\ y.live = r.live /\ y.closed = r.closed
    BY <1>1, <1>2, <1>3, <2>3, RebuiltIs
  <2>2. Going(r, y, e)
    BY <1>3, <1>7, <2>1 DEF Going, Members
  <2> QED
    BY <2>2 DEF y
<1>8. Parked => ~scene.exclusive
  BY DEF Parked, SceneOk
<1>9. out = Y(r.members, r.current)
  BY <1>1 DEF Registry
<1>10. ~scene.exclusive => Members(r) = {}
  BY <1>2, SetOf DEF Core, Pool, Members
<1>11. scene.exclusive => r.current = None
  BY DEF Core, Pool
<1>12. None \notin Entries /\ Len(r.members) \in Nat
  BY <1>1, Constants, Sizes
<1>13. CASE scene.exclusive
  <2>1. TakeOut(r, e, who) = LeavePool(out, e)
    BY <1>4, <1>8, <1>13 DEF Forget
  <2>2. CASE e \in Members(r)
    <3>1. LeavePool(out, e) = Serve([out EXCEPT !.members = RemoveFirst(r.members, e)])
      BY <1>5, <1>6, <2>2 DEF LeavePool
    <3> DEFINE q == RemoveFirst(r.members, e)
    <3>2. [out EXCEPT !.members = q] = Y(q, r.current)
      <4> HIDE DEF q
      <4> QED
        BY <1>1 DEF Registry
    <3>3. Going(r, Y(q, r.current), e)
      <4>1. q \in Seq(Entries) /\ Once(q) /\ ToSet(q) = Members(r) \ {e} /\ Len(q) <= Len(r.members)
        BY <1>6
      <4> HIDE DEF q, Y
      <4> QED
        BY <1>2, <1>7, <1>11, <1>12, <1>13, <2>2, <4>1
    <3> HIDE DEF Y
    <3> QED
      BY <2>1, <2>2, <3>1, <3>2, <3>3
  <2>3. CASE e \notin Members(r)
    <3>1. LeavePool(out, e) = out
      BY <1>5, <1>6, <2>3 DEF LeavePool
    <3>2. Going(r, Y(r.members, r.current), e)
      <4>1. ToSet(r.members) = Members(r) \ {e}
        BY <2>3 DEF Members
      <4> HIDE DEF Y
      <4> QED
        BY <1>1, <1>2, <1>7, <1>11, <1>12, <1>13, <4>1
    <3> HIDE DEF Y, out
    <3> QED
      BY <2>1, <2>3, <3>1, <3>2, <1>9
  <2> QED
    BY <2>2, <2>3
<1>14. CASE ~scene.exclusive
  <2> DEFINE c == IF Parked THEN r.current ELSE IF r.current = e THEN None ELSE r.current
  <2>1. TakeOut(r, e, who) = Y(r.members, c)
    <3>1. CASE Parked
      BY <1>4, <1>9, <3>1
    <3>2. CASE ~Parked
      <4>1. TakeOut(r, e, who) = [out EXCEPT !.current = c]
        BY <1>4, <1>5, <1>14, <3>2 DEF Forget
      <4> HIDE DEF c
      <4> QED
        BY <4>1, <1>1 DEF Registry
    <3> QED
      BY <3>1, <3>2
  <2>2. c \in Entries \cup {None} /\ (c = r.current \/ (c = None /\ ~Parked /\ ~scene.exclusive)) /\ (~Parked => c # e) /\ (r.current # e => c = r.current)
    BY <1>2, <1>12, <1>14
  <2>3. ToSet(r.members) = Members(r) \ {e} /\ e \notin Members(r)
    BY <1>10, <1>14 DEF Members
  <2> HIDE DEF c, Y
  <2>4. Going(r, Y(r.members, c), e)
    BY <1>1, <1>2, <1>7, <1>12, <2>2, <2>3
  <2> QED
    BY <2>1, <2>3, <2>4
<1> QED
  BY <1>13, <1>14

\* An entry nobody holds may go.
LEMMA GoingCore ==
    ASSUME NEW r, NEW H, Core(r, H), SceneOk, NEW e \in Entries, NEW y, Going(r, y, e),
           e \in r.live, r.entry[e].refs = 0, r.entry[e].timer = "none"
    PROVE  /\ Core(y, H) /\ Nudge(r, y, e) /\ PlacesKept(r, y, Scopes)
           /\ scene.max > 0 /\ Within(r) => Within(y)
           /\ Settled(r) /\ e \notin Members(r) => Settled(y)
<1>1. r \in Registry /\ H \in HoldingType /\ EntryOk(r, H, e) /\ Pool(r) /\ One(r)
  BY DEF Core, Typed
<1>2. \A f \in Entries \ {e} : y.entry[f] = r.entry[f]
  BY DEF Going
<1>3. /\ r.entry[e].jobs = 0 /\ r.entry[e].holder = Nobody
  <2>1. r.entry[e].refs = Total(H, e) + Cardinality(Handed(r, e)) /\ Total(H, e) \in Nat /\ Cardinality(Handed(r, e)) \in Nat
    BY <1>1, TotalType, HandedType DEF EntryOk, Tallied
  <2>2. Total(H, e) = 0 /\ Cardinality(Handed(r, e)) = 0
    BY <2>1
  <2>3. JobTotal(H, e) = 0
    BY <2>2, <1>1, TotalType DEF Jobs
  <2>4. r.entry[e].jobs = 0
    BY <2>2, <2>3, <1>1 DEF EntryOk, Tallied
  <2> QED
    BY <2>4, <1>1 DEF EntryOk, HeldByOne
<1>4. Shift(r, y, e)
  BY <1>1 DEF Shift, Going, Pool
<1>5. EntryOk(y, H, e)
  <2>1. Handed(y, e) = Handed(r, e)
    BY HandedSame DEF Going
  <2>2. Tallied(y, H, e) /\ HeldByOne(y, H, e)
    BY <1>1, <2>1 DEF EntryOk, Tallied, HeldByOne, Going
  <2>3. Alive(y, e)
    BY <1>1 DEF EntryOk, Alive, Going
  <2> QED
    BY <2>2, <2>3 DEF EntryOk
<1>6. MemberOk(y, e) /\ HolderOk(r, y, e) /\ ReservedOk(r, y)
  BY DEF MemberOk, HolderOk, ReservedOk, Going
<1>7. One(y)
  <2>1. y.live = r.live /\ y.current \in Entries \cup {None}
    BY Parts DEF Going
  <2>2. CASE Parked
    BY <1>1, <2>1, <2>2 DEF One, Going
  <2>3. CASE ~Parked
    <3>1. y.current # None => y.current = r.current /\ y.current \in Entries \ {e}
      BY <2>1, <2>3 DEF Going
    <3>2. y.current # None => y.entry[y.current] = r.entry[r.current]
      BY <3>1, <1>2
    <3> QED
      BY <1>1, <2>1, <2>3, <3>1, <3>2 DEF One
  <2> QED
    BY <2>2, <2>3
<1>8. Core(y, H)
  BY <1>1, <1>4, <1>5, <1>6, <1>7, CoreChange
<1>9. Nudge(r, y, e)
  <2>1. e \notin Unused(r)
    BY DEF Unused
  <2>2. Quiet(r) => Quiet(y)
    BY <1>2 DEF Quiet, Going
  <2>3. ASSUME Idle(r), NEW f \in Entries
        PROVE  Ticks(y, f)
    <3>1. Ticks(r, f)
      BY <2>3 DEF Idle
    <3>2. CASE f = e
      BY <3>1, <3>2 DEF Ticks, Going
    <3>3. CASE f # e
      BY <1>2, <3>1, <3>3 DEF Ticks, Going
    <3> QED
      BY <3>2, <3>3
  <2>4. Idle(r) => Idle(y)
    BY <2>3 DEF Idle
  <2> QED
    BY <2>1, <2>2, <2>4 DEF Nudge, Going
<1>10. PlacesKept(r, y, Scopes)
  <2> SUFFICES ASSUME NEW o \in Scopes, HasPlace(r, o) PROVE HasPlace(y, o)
    BY DEF PlacesKept
  <2>1. y.reserved = r.reserved /\ Members(y) = Members(r) \ {e} /\ Members(r) \subseteq Entries
    BY <1>1, Parts DEF Going
  <2>2. \A f \in Members(r) : r.entry[f].holder = o => f # e
    BY <1>3, Constants
  <2> QED
    BY <1>2, <2>1, <2>2 DEF HasPlace
<1>11. scene.max > 0 /\ Within(r) => Within(y)
  <2>1. y.reserved = r.reserved /\ Len(y.members) <= Len(r.members) /\ y \in Registry
    BY DEF Going
  <2>2. /\ Len(y.members) \in Nat /\ Len(r.members) \in Nat /\ Reserved(r) \in Nat /\ scene.max \in Nat
    BY <1>1, <2>1, Sizes DEF SceneOk, SceneType
  <2>3. Reserved(y) = Reserved(r)
    BY <2>1 DEF Reserved
  <2> QED
    BY <2>1, <2>2, <2>3 DEF Within
<1>12. ASSUME Settled(r), e \notin Members(r)
       PROVE  Settled(y)
  <2>1. y.members = r.members /\ y.reserved = r.reserved /\ y.waiters = r.waiters /\ y.closed = r.closed
    BY <1>12 DEF Going
  <2>2. Members(r) \subseteq Entries \ {e}
    BY <1>1, <1>12, Parts
  <2>3. Free(y) = Free(r)
    BY <1>2, <2>1, <2>2 DEF Free, Members
  <2> QED
    BY <1>12, <2>1, <2>3, StaysSettled DEF Reserved
<1> QED
  BY <1>8, <1>9, <1>10, <1>11, <1>12

\* takeOut of an entry nobody holds.
LEMMA TakeOutIs ==
    ASSUME NEW r, NEW H, Core(r, H), SceneOk, Stocked(r), NEW e \in Entries, NEW who \in Scopes \cup {Nobody},
           e \in r.live, r.entry[e].refs = 0, r.entry[e].timer = "none"
    PROVE  LET x == TakeOut(r, e, who)
           IN  /\ Core(x, H) /\ Moves(r, x, e) /\ Stocked(x) /\ PlacesKept(r, x, Scopes)
               /\ Settled(r) => Settled(x)
               /\ scene.max > 0 /\ Within(r) => Within(x)
               /\ x.entry[e].gone = "going" /\ x.reserved = r.reserved
<1> DEFINE x == TakeOut(r, e, who)
<1>1. PICK y : Going(r, y, e) /\ x = IF e \in Members(r) THEN Serve(y) ELSE y
  BY TakeOutGoes
<1> HIDE DEF x
<1>2. /\ Core(y, H) /\ Nudge(r, y, e) /\ PlacesKept(r, y, Scopes)
      /\ scene.max > 0 /\ Within(r) => Within(y)
      /\ Settled(r) /\ e \notin Members(r) => Settled(y)
  BY <1>1, GoingCore
<1>3. r \in Registry /\ y \in Registry
  BY <1>2 DEF Core, Typed
<1>4. Moves(r, y, e) /\ Stocked(y)
  BY <1>2, <1>3, NudgeMoves
<1>5. y.entry[e].gone = "going" /\ y.reserved = r.reserved /\ y.live = r.live
  BY <1>1 DEF Going
<1>6. CASE e \notin Members(r)
  BY <1>1, <1>2, <1>4, <1>5, <1>6 DEF x
<1>7. CASE e \in Members(r)
  <2>1. x = Serve(y) /\ scene.exclusive
    <3>1. Members(r) # {}
      BY <1>7
    <3>2. ~scene.exclusive => Members(r) = {}
      BY <1>3, Parts, SetOf DEF Core, Pool, Members
    <3> QED
      BY <1>1, <1>7, <3>1, <3>2
  <2>2. /\ Core(x, H) /\ Advances(y, x) /\ Stocked(x) /\ Settled(x)
        /\ scene.max > 0 /\ Within(y) => Within(x)
    BY <1>2, <1>4, <2>1, ServeIs
  <2>3. x \in Registry
    BY <2>2 DEF Core, Typed
  <2>4. Moves(y, x, e) /\ PlacesKept(y, x, Scopes)
    BY <1>3, <1>5, <2>2, <2>3, AdvanceMoves
  <2>5. Moves(r, x, e)
    BY <1>3, <1>4, <2>3, <2>4, MovesOn
  <2>6. PlacesKept(r, x, Scopes)
    BY <1>2, <2>4 DEF PlacesKept
  <2>7. x.entry[e].gone = "going" /\ x.reserved = r.reserved
    <3>1. e \notin Unused(y)
      BY <1>5 DEF Unused
    <3> QED
      BY <3>1, <1>5, <2>2 DEF Advances, GoesOn
  <2> QED
    BY <1>2, <2>2, <2>5, <2>6, <2>7 DEF x
<1> QED
  BY <1>6, <1>7

\* One scope's kept place changes, and their number with it.
LEMMA ReservedChange ==
    ASSUME NEW r \in Registry, NEW x \in Registry, NEW s \in Scopes,
           \A o \in Scopes : o # s => x.reserved[o] = r.reserved[o]
    PROVE  /\ Reserved(x) = Reserved(r) - r.reserved[s] + x.reserved[s]
           /\ r.reserved[s] \in 0..1 /\ x.reserved[s] \in 0..1
           /\ r.reserved[s] <= Reserved(r)
<1>1. r.reserved \in [Scopes -> 0..1] /\ x.reserved \in [Scopes -> 0..1]
  BY Parts
<1>2. r.reserved \in [Scopes -> Nat] /\ x.reserved \in [Scopes -> Nat] /\ IsFiniteSet(Scopes)
  BY <1>1, Constants
<1>3. /\ SumFunction(x.reserved) = SumFunction(r.reserved) - r.reserved[s] + x.reserved[s]
      /\ r.reserved[s] <= SumFunction(r.reserved)
  BY <1>2, SumChange
<1> QED
  BY <1>1, <1>3 DEF Reserved

\* The holder of a machine is a job that counts toward it, or is about to.
LEMMA HolderIs ==
    ASSUME NEW r, NEW H, Core(r, H), NEW e \in Entries, r.entry[e].holder # Nobody
    PROVE  /\ r.entry[e].jobs > 0 /\ r.entry[e].refs > 0 /\ scene.exclusive
           /\ r.entry[e].holder \in Jobs
           /\ H[r.entry[e].holder][e] > 0 \/ \E p \in Steps : r.got[p] = e /\ ScopeOf[p] = r.entry[e].holder
<1>1. r \in Registry /\ H \in HoldingType /\ EntryOk(r, H, e)
  BY DEF Core, Typed
<1>2. Tallied(r, H, e) /\ HeldByOne(r, H, e)
  BY <1>1 DEF EntryOk
<1>3. /\ r.entry[e].jobs \in Nat /\ r.entry[e].holder \in Scopes \cup {Nobody}
      /\ Total(H, e) \in Nat /\ JobTotal(H, e) \in Nat
      /\ Cardinality(Handed(r, e)) \in Nat
      /\ Cardinality(Handed(r, e)) = 0 <=> \A p \in Steps : r.got[p] # e
      /\ JobTotal(H, e) = 0 <=> \A s \in Jobs : H[s][e] = 0
      /\ \A s \in Scopes : H[s][e] \in Nat /\ H[s][e] <= Total(H, e)
  BY <1>1, Parts, TotalType, HandedType
<1>4. r.entry[e].jobs > 0 /\ scene.exclusive
  BY <1>2, <1>3 DEF HeldByOne, Tallied
<1>5. r.entry[e].holder \in Jobs
  BY <1>2, <1>3 DEF HeldByOne, Jobs
<1>6. CASE JobTotal(H, e) > 0
  <2>1. PICK s \in Jobs : H[s][e] # 0
    BY <1>3, <1>6
  <2>2. s \in Scopes /\ H[s][e] > 0
    BY <1>3, <2>1 DEF Jobs
  <2>3. r.entry[e].holder = s
    BY <1>2, <1>4, <2>1, <2>2 DEF HeldByOne
  <2>4. r.entry[e].refs > 0
    BY <1>2, <1>3, <2>2 DEF Tallied
  <2> QED
    BY <1>4, <1>5, <2>2, <2>3, <2>4
<1>7. CASE JobTotal(H, e) = 0
  <2>1. Cardinality(Handed(r, e)) > 0
    BY <1>2, <1>3, <1>4, <1>7 DEF Tallied
  <2>2. PICK p \in Steps : r.got[p] = e
    BY <1>3, <2>1
  <2>3. r.entry[e].holder = ScopeOf[p]
    BY <1>2, <2>2 DEF HeldByOne, Handed
  <2>4. r.entry[e].refs > 0
    BY <1>2, <1>3, <2>1 DEF Tallied
  <2> QED
    BY <1>4, <1>5, <2>2, <2>3, <2>4
<1> QED
  BY <1>3, <1>6, <1>7

\* An entry somebody holds.
LEMMA HeldIs ==
    ASSUME NEW r, NEW H, Core(r, H), NEW s \in Scopes, NEW e \in Entries, H[s][e] > 0
    PROVE  /\ r.entry[e].refs > 0 /\ r.entry[e].timer = "none"
           /\ e \notin Unused(r)
           /\ r.entry[e].gone = "no" => e \in r.live
           /\ Quiet(r) => r.entry[e].gone = "no"
           /\ scene.exclusive /\ s \in Jobs => r.entry[e].holder = s /\ r.entry[e].jobs > 0
<1>1. r \in Registry /\ H \in HoldingType /\ EntryOk(r, H, e)
  BY DEF Core, Typed
<1>2. Tallied(r, H, e) /\ HeldByOne(r, H, e) /\ Alive(r, e)
  BY <1>1 DEF EntryOk
<1>3. /\ r.entry[e].jobs \in Nat
      /\ Total(H, e) \in Nat /\ H[s][e] \in Nat /\ H[s][e] <= Total(H, e)
      /\ Cardinality(Handed(r, e)) \in Nat
  BY <1>1, Parts, TotalType, HandedType
<1>4. r.entry[e].refs > 0
  BY <1>2, <1>3 DEF Tallied
<1>5. scene.exclusive /\ s \in Jobs => r.entry[e].holder = s /\ r.entry[e].jobs > 0
  BY <1>2, <1>3, Constants DEF HeldByOne
<1>6. r.entry[e].gone = "no" => e \in r.live
  BY <1>2, <1>4 DEF Alive
<1>7. r.entry[e].timer = "none"
  BY <1>2, <1>4 DEF Alive
<1>8. e \notin Unused(r)
  BY <1>4 DEF Unused
<1>9. Quiet(r) => r.entry[e].gone = "no"
  BY <1>4 DEF Quiet
<1> QED
  BY <1>4, <1>5, <1>6, <1>7, <1>8, <1>9

-----------------------------------------------------------------------------
\* A machine that died is nobody's to take any more, and its job keeps its place.
Evicted(r, y, e) ==
    /\ y \in Registry /\ Once(y.members)
    /\ y.waiters = r.waiters /\ y.got = r.got /\ y.live = r.live /\ y.closed = r.closed
    /\ \A f \in Entries \ {e} : y.entry[f] = r.entry[f]
    /\ y.entry[e].retired /\ y.entry[e].refs = r.entry[e].refs /\ y.entry[e].jobs = r.entry[e].jobs
    /\ y.entry[e].holder = r.entry[e].holder /\ y.entry[e].timer = r.entry[e].timer
    /\ y.entry[e].gone = r.entry[e].gone /\ y.entry[e].lease = r.entry[e].lease
    /\ y.entry[e].owes = r.entry[e].owes
    /\ Members(y) = Members(r) \ {e}
    /\ IF e \in Members(r) THEN Len(y.members) = Len(r.members) - 1 ELSE y.members = r.members
    /\ \A s \in Scopes : y.reserved[s] = IF e \in Members(r) /\ s = r.entry[e].holder THEN 1 ELSE r.reserved[s]
    /\ y.current = r.current \/ (y.current = None /\ ~scene.exclusive)
    /\ y.current # e
    /\ r.current # e => y.current = r.current

\* retire: the entry is evicted, and then the waiters are served.
LEMMA RetireEvicts ==
    ASSUME NEW r, NEW H, Core(r, H), SceneOk, ~Parked, NEW e \in Entries
    PROVE  \E y : /\ Evicted(r, y, e)
                  /\ Retire(r, e) = IF e \in Members(r) THEN Serve(y) ELSE y
<1> DEFINE h == r.entry[e].holder
           n == [r.entry[e] EXCEPT !.retired = TRUE]
           in == e \in Members(r) /\ h # Nobody
           v == IF in THEN [r.reserved EXCEPT ![h] = @ + 1] ELSE r.reserved
           kept == IF in THEN [r EXCEPT !.reserved[h] = @ + 1] ELSE r
           out == [kept EXCEPT !.entry[e].retired = TRUE]
<1>1. r \in Registry /\ Once(r.members) /\ Pool(r)
  BY DEF Core, Typed
<1>2. /\ r.members \in Seq(Entries) /\ r.current \in Entries \cup {None} /\ r.reserved \in [Scopes -> 0..1]
      /\ r.entry[e] \in EntryType /\ h \in Scopes \cup {Nobody}
  BY <1>1, Parts
<1>3. /\ n \in EntryType /\ n.retired /\ n.refs = r.entry[e].refs /\ n.jobs = r.entry[e].jobs
      /\ n.holder = r.entry[e].holder /\ n.timer = r.entry[e].timer
      /\ n.gone = r.entry[e].gone /\ n.lease = r.entry[e].lease /\ n.owes = r.entry[e].owes
  BY <1>2 DEF EntryType
<1>6. /\ RemoveFirst(r.members, e) \in Seq(Entries) /\ Once(RemoveFirst(r.members, e))
      /\ ToSet(RemoveFirst(r.members, e)) = Members(r) \ {e}
      /\ Contains(r.members, e) <=> e \in Members(r)
      /\ e \in Members(r) => Len(RemoveFirst(r.members, e)) = Len(r.members) - 1
  BY <1>1, <1>2, Removed DEF Members
<1>4. (h # Nobody /\ ~r.entry[e].retired /\ Contains(r.members, e)) <=> in
  BY <1>1, <1>6 DEF Pool
<1>5. Retire(r, e) = Forget(out, e)
  BY <1>4 DEF Retire
<1>7. in => h \in Scopes /\ r.reserved[h] = 0
  <2>1. ASSUME in PROVE h \in Scopes /\ r.reserved[h] \in 0..1 /\ ~(r.reserved[h] > 0)
    BY <1>1, <1>2, <2>1 DEF Pool
  <2> QED
    BY <2>1
<1>8. v \in [Scopes -> 0..1] /\ \A s \in Scopes : v[s] = IF e \in Members(r) /\ s = h THEN 1 ELSE r.reserved[s]
  BY <1>2, <1>7, Constants
<1>9. out = [r EXCEPT !.entry[e] = n, !.members = r.members, !.current = r.current, !.reserved = v]
  <2>1. kept = [r EXCEPT !.reserved = v]
    BY <1>1 DEF Registry
  <2>2. out = [kept EXCEPT !.entry[e] = [kept.entry[e] EXCEPT !.retired = TRUE]]
    OBVIOUS
  <2>3. kept.entry[e] = r.entry[e]
    BY <1>1, <2>1 DEF Registry
  <2> HIDE DEF kept, v
  <2> QED
    BY <1>1, <2>1, <2>2, <2>3 DEF Registry
<1> HIDE DEF n, v, out
<1> DEFINE Y(q, c) == [r EXCEPT !.entry[e] = n, !.members = q, !.current = c, !.reserved = v]
<1>15. out.members = r.members /\ out.current = r.current
  BY <1>1, <1>9 DEF Registry
<1>16. ASSUME NEW q \in Seq(Entries), Once(q), ToSet(q) = Members(r) \ {e},
             IF e \in Members(r) THEN Len(q) = Len(r.members) - 1 ELSE q = r.members,
             NEW c \in Entries \cup {None}, c = r.current \/ (c = None /\ ~scene.exclusive),
             c # e, r.current # e => c = r.current
      PROVE  Evicted(r, Y(q, c), e)
  <2> DEFINE y == Y(q, c)
  <2>3. Rebuilt(r, y, e, n, q, c, v)
    BY DEF Rebuilt
  <2> HIDE DEF y, Y
  <2>4. r \in Registry /\ n \in EntryType /\ v \in [Scopes -> 0..1]
    BY <1>1, <1>3, <1>8
  <2>1. /\ y \in Registry /\ y.entry[e] = n /\ \A f \in Entries \ {e} : y.entry[f] = r.entry[f]
        /\ y.members = q /\ y.current = c /\ y.reserved = v
        /\ y.waiters = r.waiters /\ y.got = r.got /\ y.live = r.live /\ y.closed = r.closed
    BY <2>3, <2>4, RebuiltIs
  <2>2. Evicted(r, y, e)
    BY <1>3, <1>8, <1>16, <2>1 DEF Evicted, Members
  <2> QED
    BY <2>2 DEF y
<1>10. ~scene.exclusive => Members(r) = {}
  BY <1>1, <1>2, SetOf DEF Pool, Members
<1>11. scene.exclusive => r.current = None
  BY <1>1 DEF Pool
<1>12. None \notin Entries
  BY Constants
<1>13. CASE scene.exclusive
  <2>1. Retire(r, e) = LeavePool(out, e)
    BY <1>5, <1>13 DEF Forget
  <2>2. CASE e \in Members(r)
    <3>1. LeavePool(out, e) = Serve([out EXCEPT !.members = RemoveFirst(r.members, e)])
      BY <1>15, <1>6, <2>2 DEF LeavePool
    <3> DEFINE q == RemoveFirst(r.members, e)
    <3>2. [out EXCEPT !.members = q] = Y(q, r.current)
      <4> HIDE DEF q
      <4> QED
        BY <1>1, <1>9 DEF Registry
    <3>3. Evicted(r, Y(q, r.current), e)
      <4>1. q \in Seq(Entries) /\ Once(q) /\ ToSet(q) = Members(r) \ {e} /\ Len(q) = Len(r.members) - 1
        BY <1>6, <2>2
      <4> HIDE DEF q, Y
      <4> QED
        BY <1>2, <1>16, <1>11, <1>12, <1>13, <2>2, <4>1
    <3> HIDE DEF Y
    <3> QED
      BY <2>1, <2>2, <3>1, <3>2, <3>3
  <2>3. CASE e \notin Members(r)
    <3>1. LeavePool(out, e) = out
      BY <1>15, <1>6, <2>3 DEF LeavePool
    <3>2. Evicted(r, Y(r.members, r.current), e)
      <4>1. ToSet(r.members) = Members(r) \ {e}
        BY <2>3 DEF Members
      <4> HIDE DEF Y
      <4> QED
        BY <1>1, <1>2, <1>16, <1>11, <1>12, <1>13, <2>3, <4>1
    <3>3. out = Y(r.members, r.current)
      BY <1>9
    <3> HIDE DEF Y
    <3> QED
      BY <2>1, <2>3, <3>1, <3>2, <3>3
  <2> QED
    BY <2>2, <2>3
<1>14. CASE ~scene.exclusive
  <2> DEFINE c == IF r.current = e THEN None ELSE r.current
  <2>1. Retire(r, e) = [out EXCEPT !.current = c]
    BY <1>5, <1>15, <1>14 DEF Forget
  <2>2. c \in Entries \cup {None} /\ (c = r.current \/ (c = None /\ ~scene.exclusive)) /\ c # e /\ (r.current # e => c = r.current)
    BY <1>2, <1>12, <1>14
  <2>3. ToSet(r.members) = Members(r) \ {e} /\ e \notin Members(r)
    BY <1>10, <1>14 DEF Members
  <2> HIDE DEF c
  <2>5. [out EXCEPT !.current = c] = Y(r.members, c)
    BY <1>1, <1>9 DEF Registry
  <2> HIDE DEF Y
  <2>4. Evicted(r, Y(r.members, c), e)
    BY <1>1, <1>2, <1>16, <2>2, <2>3
  <2> QED
    BY <2>1, <2>3, <2>4, <2>5
<1> QED
  BY <1>13, <1>14

\* An entry somebody holds may be evicted.
LEMMA EvictedCore ==
    ASSUME NEW r, NEW H, Core(r, H), SceneOk, ~Parked, NEW e \in Entries, NEW y, Evicted(r, y, e),
           r.entry[e].refs > 0
    PROVE  /\ Core(y, H) /\ Nudge(r, y, e) /\ PlacesKept(r, y, Scopes)
           /\ scene.max > 0 /\ Within(r) => Within(y)
           /\ Settled(r) /\ e \notin Members(r) => Settled(y)
           /\ \A s \in Scopes : y.reserved[s] > 0 => r.reserved[s] > 0 \/ s = r.entry[e].holder
<1>1. r \in Registry /\ H \in HoldingType /\ EntryOk(r, H, e) /\ Pool(r) /\ One(r) /\ Queue(r)
  BY DEF Core, Typed
<1>0. y \in Registry
  BY DEF Evicted
<1>2. \A f \in Entries \ {e} : y.entry[f] = r.entry[f]
  BY DEF Evicted
<1>13. Members(r) \subseteq Entries /\ Waiting(r) \subseteq Steps /\ Members(y) = Members(r) \ {e}
  BY <1>1, Parts DEF Evicted
<1>14. \A f \in Members(y) : f \in Members(r) /\ f # e /\ y.entry[f] = r.entry[f]
  BY <1>2, <1>13
<1>15. \A s \in Scopes : y.reserved[s] = IF e \in Members(r) /\ s = r.entry[e].holder THEN 1 ELSE r.reserved[s]
  BY DEF Evicted
<1>4. Shift(r, y, e)
  BY <1>1 DEF Shift, Evicted, Pool
<1>5. EntryOk(y, H, e)
  <2>1. Handed(y, e) = Handed(r, e)
    BY HandedSame DEF Evicted
  <2>2. Tallied(y, H, e) /\ HeldByOne(y, H, e)
    BY <1>1, <2>1 DEF EntryOk, Tallied, HeldByOne, Evicted
  <2>3. Alive(y, e)
    BY <1>1 DEF EntryOk, Alive, Evicted
  <2> QED
    BY <2>2, <2>3 DEF EntryOk
<1>6. MemberOk(y, e) /\ HolderOk(r, y, e)
  BY <1>13 DEF MemberOk, HolderOk, Evicted
<1>7. ReservedOk(r, y)
  <2> SUFFICES ASSUME NEW s \in Scopes, y.reserved[s] > 0, ~(r.reserved[s] > 0)
               PROVE  /\ s \in Jobs /\ scene.exclusive
                      /\ \A f \in Members(y) : y.entry[f].holder # s
                      /\ \A p \in Waiting(r) : ScopeOf[p] # s
    BY DEF ReservedOk
  <2>1. e \in Members(r) /\ s = r.entry[e].holder
    BY <1>15
  <2>2. s # Nobody
    BY Constants
  <2>3. s \in Jobs /\ scene.exclusive
    BY <2>1, <2>2, HolderIs
  <2>4. \A f \in Members(y) : y.entry[f].holder # s
    BY <1>1, <1>14, <2>1, <2>2 DEF Pool
  <2>5. \A p \in Waiting(r) : ScopeOf[p] # s
    BY <1>1, <2>1 DEF Queue
  <2> QED
    BY <2>3, <2>4, <2>5
<1>8. One(y)
  <2>1. y.live = r.live /\ y.current \in Entries \cup {None} /\ y.current # e /\ (y.current = r.current \/ y.current = None)
    BY <1>0, Parts DEF Evicted
  <2>2. y.current # None => y.current = r.current /\ y.entry[y.current] = r.entry[r.current]
    BY <1>2, <2>1
  <2> QED
    BY <1>1, <2>1, <2>2 DEF One
<1>9. Core(y, H)
  BY <1>1, <1>4, <1>5, <1>6, <1>7, <1>8, CoreChange
<1>10. Nudge(r, y, e)
  <2>1. e \notin Unused(r)
    BY DEF Unused
  <2>2. Quiet(r) => Quiet(y)
    BY <1>2 DEF Quiet, Evicted
  <2>5. r.entry[e].timer = "none"
    BY <1>1 DEF EntryOk, Alive
  <2>3. ASSUME Idle(r), NEW f \in Entries
        PROVE  Ticks(y, f)
    <3>1. Ticks(r, f)
      BY <2>3 DEF Idle
    <3>2. CASE f = e
      BY <2>5, <3>1, <3>2 DEF Ticks, Evicted
    <3>3. CASE f # e
      BY <1>2, <3>1, <3>3 DEF Ticks, Evicted
    <3> QED
      BY <3>2, <3>3
  <2>4. Idle(r) => Idle(y)
    BY <2>3 DEF Idle
  <2> QED
    BY <2>1, <2>2, <2>4 DEF Nudge, Evicted
<1>11. PlacesKept(r, y, Scopes)
  <2> SUFFICES ASSUME NEW o \in Scopes, HasPlace(r, o) PROVE HasPlace(y, o)
    BY DEF PlacesKept
  <2>1. CASE r.reserved[o] > 0
    BY <1>15, <2>1 DEF HasPlace
  <2>2. CASE \E f \in Members(r) : r.entry[f].holder = o
    <3>1. PICK f \in Members(r) : r.entry[f].holder = o
      BY <2>2
    <3>2. CASE f = e
      BY <1>15, <3>1, <3>2 DEF HasPlace
    <3>3. CASE f # e
      BY <1>13, <1>14, <3>1, <3>3 DEF HasPlace
    <3> QED
      BY <3>2, <3>3
  <2> QED
    BY <2>1, <2>2 DEF HasPlace
<1>12. scene.max > 0 /\ Within(r) => Within(y)
  <2>2. /\ Len(y.members) \in Nat /\ Len(r.members) \in Nat /\ Reserved(r) \in Nat /\ Reserved(y) \in Nat /\ scene.max \in Nat
    BY <1>0, <1>1, Sizes DEF SceneOk, SceneType
  <2>1. CASE e \notin Members(r) \/ r.entry[e].holder = Nobody
    <3>1. \A s \in Scopes : y.reserved[s] = r.reserved[s]
      BY <1>15, <2>1, Constants
    <3>2. y.reserved = r.reserved
      <4>1. y.reserved \in [Scopes -> 0..1] /\ r.reserved \in [Scopes -> 0..1]
        BY <1>0, <1>1, Parts
      <4> QED
        BY <3>1, <4>1
    <3>3. Len(y.members) <= Len(r.members)
      BY <2>2 DEF Evicted
    <3> QED
      BY <2>2, <3>2, <3>3 DEF Within, Reserved
  <2>3. CASE e \in Members(r) /\ r.entry[e].holder # Nobody
    <3> DEFINE h == r.entry[e].holder
    <3>1. h \in Scopes /\ Len(y.members) = Len(r.members) - 1
      BY <1>1, <2>3, Parts DEF Evicted
    <3>2. \A s \in Scopes : s # h => y.reserved[s] = r.reserved[s]
      BY <1>15
    <3>3. y.reserved[h] = 1
      BY <1>15, <2>3, <3>1
    <3> HIDE DEF h
    <3>4. Reserved(y) = Reserved(r) - r.reserved[h] + y.reserved[h] /\ r.reserved[h] \in 0..1
      BY <1>0, <1>1, <3>1, <3>2, ReservedChange
    <3> QED
      BY <2>2, <3>1, <3>3, <3>4 DEF Within
  <2> QED
    BY <2>1, <2>3
<1>16. ASSUME Settled(r), e \notin Members(r)
       PROVE  Settled(y)
  <2>1. y.members = r.members /\ y.waiters = r.waiters /\ y.closed = r.closed
    BY <1>16 DEF Evicted
  <2>5. y.reserved = r.reserved
    <3>1. y.reserved \in [Scopes -> 0..1] /\ r.reserved \in [Scopes -> 0..1]
      BY <1>0, <1>1, Parts
    <3>2. \A s \in Scopes : y.reserved[s] = r.reserved[s]
      BY <1>15, <1>16
    <3> QED
      BY <3>1, <3>2
  <2>2. Members(r) \subseteq Entries \ {e}
    BY <1>13, <1>16
  <2>3. Free(y) = Free(r)
    BY <1>2, <2>1, <2>2 DEF Free, Members
  <2> QED
    BY <1>16, <2>1, <2>3, <2>5, StaysSettled DEF Reserved
<1>17. \A s \in Scopes : y.reserved[s] > 0 => r.reserved[s] > 0 \/ s = r.entry[e].holder
  BY <1>15
<1> QED
  BY <1>9, <1>10, <1>11, <1>12, <1>16, <1>17

\* retire of an entry somebody holds.
LEMMA RetireIs ==
    ASSUME NEW r, NEW H, Core(r, H), SceneOk, Stocked(r), ~Parked, NEW e \in Entries, r.entry[e].refs > 0
    PROVE  LET x == Retire(r, e)
           IN  /\ Core(x, H) /\ Moves(r, x, e) /\ PlacesKept(r, x, Scopes)
               /\ Settled(r) => Settled(x)
               /\ scene.max > 0 /\ Within(r) => Within(x)
               /\ x.entry[e].retired /\ x.entry[e].refs > 0
               /\ \A s \in Scopes : x.reserved[s] > 0 => r.reserved[s] > 0 \/ s = r.entry[e].holder
<1> DEFINE x == Retire(r, e)
<1>1. PICK y : Evicted(r, y, e) /\ x = IF e \in Members(r) THEN Serve(y) ELSE y
  BY RetireEvicts
<1> HIDE DEF x
<1>2. /\ Core(y, H) /\ Nudge(r, y, e) /\ PlacesKept(r, y, Scopes)
      /\ scene.max > 0 /\ Within(r) => Within(y)
      /\ Settled(r) /\ e \notin Members(r) => Settled(y)
      /\ \A s \in Scopes : y.reserved[s] > 0 => r.reserved[s] > 0 \/ s = r.entry[e].holder
  BY <1>1, EvictedCore
<1>3. r \in Registry /\ y \in Registry
  BY <1>2 DEF Core, Typed
<1>4. Moves(r, y, e) /\ Stocked(y)
  BY <1>2, <1>3, NudgeMoves
<1>5. y.entry[e].retired /\ y.entry[e].refs > 0 /\ y.live = r.live
  BY <1>1 DEF Evicted
<1>6. CASE e \notin Members(r)
  BY <1>1, <1>2, <1>4, <1>5, <1>6 DEF x
<1>7. CASE e \in Members(r)
  <2>1. x = Serve(y) /\ scene.exclusive
    <3>2. ~scene.exclusive => Members(r) = {}
      BY <1>3, Parts, SetOf DEF Core, Pool, Members
    <3> QED
      BY <1>1, <1>7, <3>2
  <2>2. /\ Core(x, H) /\ Advances(y, x) /\ Stocked(x) /\ Settled(x)
        /\ scene.max > 0 /\ Within(y) => Within(x)
    BY <1>2, <1>4, <2>1, ServeIs
  <2>3. x \in Registry
    BY <2>2 DEF Core, Typed
  <2>8. e \in y.live
    BY <1>5, <1>7 DEF Core, Pool
  <2>4. Moves(y, x, e) /\ PlacesKept(y, x, Scopes)
    BY <1>3, <2>2, <2>3, <2>8, AdvanceMoves
  <2>5. Moves(r, x, e)
    BY <1>3, <1>4, <2>3, <2>4, MovesOn
  <2>6. PlacesKept(r, x, Scopes)
    BY <1>2, <2>4 DEF PlacesKept
  <2>7. x.entry[e].retired /\ x.entry[e].refs > 0 /\ x.reserved = y.reserved
    <3>1. e \notin Unused(y)
      BY <2>8 DEF Unused
    <3>2. GoesOn(y, x, e) /\ x.reserved = y.reserved
      BY <3>1, <2>2 DEF Advances
    <3>3. x.entry[e].refs \in Nat /\ y.entry[e].refs \in Nat
      BY <1>3, <2>3, Parts
    <3> QED
      BY <3>2, <3>3, <1>5 DEF GoesOn
  <2> QED
    BY <1>2, <2>2, <2>5, <2>6, <2>7 DEF x
<1> QED
  BY <1>6, <1>7

\* A scope whose holds are a job's.
IsJob(s) == scene.exclusive /\ ~Rides(s)

\* A scope counts once less toward an entry, and a job may let go of its machine.
Dropped(r, y, e, s) ==
    /\ y \in Registry /\ Once(y.members)
    /\ y.waiters = r.waiters /\ y.got = r.got /\ y.live = r.live /\ y.closed = r.closed
    /\ y.reserved = r.reserved /\ y.current = r.current
    /\ \A f \in Entries \ {e} : y.entry[f] = r.entry[f]
    /\ y.entry[e].refs = r.entry[e].refs - 1
    /\ y.entry[e].jobs = IF IsJob(s) THEN r.entry[e].jobs - 1 ELSE r.entry[e].jobs
    /\ y.entry[e].holder = IF IsJob(s) /\ r.entry[e].jobs = 1 THEN Nobody ELSE r.entry[e].holder
    /\ y.entry[e].timer = r.entry[e].timer /\ y.entry[e].retired = r.entry[e].retired
    /\ y.entry[e].gone = r.entry[e].gone /\ y.entry[e].lease = r.entry[e].lease
    /\ y.entry[e].owes = r.entry[e].owes
    /\ Members(y) = Members(r) /\ Len(y.members) = Len(r.members)

\* drop, before it looks whether anybody is left.
LeftBy(r, e, s) ==
    LET less == [r EXCEPT !.entry[e].refs = @ - 1]
    IN  IF scene.exclusive /\ ~Rides(s) THEN LetGo(less, e) ELSE less

\* drop's first half: a count less, and then the waiters are served.
LEMMA LeftIs ==
    ASSUME NEW r, NEW H, Core(r, H), SceneOk, NEW e \in Entries, NEW s \in Scopes, H[s][e] > 0
    PROVE  \E y : /\ Dropped(r, y, e, s)
                  /\ LeftBy(r, e, s) = IF IsJob(s) /\ r.entry[e].jobs = 1 /\ e \in Members(r) THEN Serve(y) ELSE y
<1>1. r \in Registry /\ Once(r.members)
  BY DEF Core, Typed
<1>2. /\ r.members \in Seq(Entries) /\ r.current \in Entries \cup {None} /\ r.reserved \in [Scopes -> 0..1]
      /\ r.entry[e] \in EntryType /\ r.entry[e].refs \in Nat /\ r.entry[e].jobs \in Nat
  BY <1>1, Parts
<1>3. r.entry[e].refs > 0 /\ (IsJob(s) => r.entry[e].jobs > 0)
  BY HeldIs, Constants DEF IsJob
<1> DEFINE less == [r EXCEPT !.entry[e].refs = @ - 1]
           n0 == [r.entry[e] EXCEPT !.refs = r.entry[e].refs - 1]
           n1 == [n0 EXCEPT !.jobs = r.entry[e].jobs - 1]
           n2 == [n1 EXCEPT !.holder = Nobody]
           Y(n, q) == [r EXCEPT !.entry[e] = n, !.members = q, !.current = r.current, !.reserved = r.reserved]
<1>4. r.entry[e].refs - 1 \in Nat /\ (IsJob(s) => r.entry[e].jobs - 1 \in Nat)
  BY <1>2, <1>3
<1>5. /\ n0 \in EntryType /\ n0.refs = r.entry[e].refs - 1 /\ n0.jobs = r.entry[e].jobs
      /\ n0.holder = r.entry[e].holder /\ n0.timer = r.entry[e].timer
      /\ n0.retired = r.entry[e].retired /\ n0.gone = r.entry[e].gone /\ n0.lease = r.entry[e].lease
      /\ n0.owes = r.entry[e].owes
  BY <1>2, <1>4 DEF EntryType
<1> HIDE DEF n0
<1>6. IsJob(s) => /\ n1 \in EntryType /\ n1.refs = r.entry[e].refs - 1 /\ n1.jobs = r.entry[e].jobs - 1
                  /\ n1.holder = r.entry[e].holder /\ n1.timer = r.entry[e].timer
                  /\ n1.retired = r.entry[e].retired /\ n1.gone = r.entry[e].gone /\ n1.lease = r.entry[e].lease
                  /\ n1.owes = r.entry[e].owes
  BY <1>4, <1>5 DEF EntryType
<1> HIDE DEF n1
<1>7. IsJob(s) => /\ n2 \in EntryType /\ n2.refs = r.entry[e].refs - 1 /\ n2.jobs = r.entry[e].jobs - 1
                  /\ n2.holder = Nobody /\ n2.timer = r.entry[e].timer
                  /\ n2.retired = r.entry[e].retired /\ n2.gone = r.entry[e].gone /\ n2.lease = r.entry[e].lease
                  /\ n2.owes = r.entry[e].owes
  BY <1>6 DEF EntryType
<1> HIDE DEF n2
<1>8. less = Y(n0, r.members)
  BY <1>1 DEF Registry, n0
<1>9. ASSUME NEW n \in EntryType, NEW q \in Seq(Entries), Once(q), ToSet(q) = Members(r), Len(q) = Len(r.members),
             n.refs = r.entry[e].refs - 1,
             n.jobs = IF IsJob(s) THEN r.entry[e].jobs - 1 ELSE r.entry[e].jobs,
             n.holder = IF IsJob(s) /\ r.entry[e].jobs = 1 THEN Nobody ELSE r.entry[e].holder,
             n.timer = r.entry[e].timer, n.retired = r.entry[e].retired, n.gone = r.entry[e].gone,
             n.lease = r.entry[e].lease, n.owes = r.entry[e].owes
      PROVE  Dropped(r, Y(n, q), e, s)
  <2> DEFINE y == Y(n, q)
  <2>1. Rebuilt(r, y, e, n, q, r.current, r.reserved)
    BY DEF Rebuilt
  <2> HIDE DEF y, Y
  <2>2. r \in Registry /\ r.current \in Entries \cup {None} /\ r.reserved \in [Scopes -> 0..1]
    BY <1>1, <1>2
  <2>3. /\ y \in Registry /\ y.entry[e] = n /\ \A f \in Entries \ {e} : y.entry[f] = r.entry[f]
        /\ y.members = q /\ y.current = r.current /\ y.reserved = r.reserved
        /\ y.waiters = r.waiters /\ y.got = r.got /\ y.live = r.live /\ y.closed = r.closed
    BY <2>1, <2>2, RebuiltIs
  <2>4. Dropped(r, y, e, s)
    BY <1>9, <2>3 DEF Dropped, Members
  <2> QED
    BY <2>4 DEF y
<1>10. CASE ~IsJob(s)
  <2>1. LeftBy(r, e, s) = less
    BY <1>10 DEF LeftBy, IsJob
  <2>2. Dropped(r, Y(n0, r.members), e, s)
    <3> HIDE DEF Y
    <3> QED
      BY <1>1, <1>2, <1>5, <1>9, <1>10 DEF Members
  <2> HIDE DEF Y, less
  <2> QED
    BY <1>8, <1>10, <2>1, <2>2
<1>11. CASE IsJob(s)
  <2> DEFINE left == [less EXCEPT !.entry[e].jobs = @ - 1]
             free == [left EXCEPT !.entry[e].holder = Nobody,
                             !.members = IF Contains(@, e) THEN Append(RemoveFirst(@, e), e) ELSE @]
             q == IF e \in Members(r) THEN Append(RemoveFirst(r.members, e), e) ELSE r.members
  <2>1. LeftBy(r, e, s) = LetGo(less, e)
    BY <1>11 DEF LeftBy, IsJob
  <2>2. LetGo(less, e) = IF left.entry[e].jobs > 0 THEN left ELSE IF Contains(free.members, e) THEN Serve(free) ELSE free
    BY DEF LetGo
  <2>3. left = Y(n1, r.members)
    <3>1. less.entry[e] = n0
      BY <1>1, <1>8 DEF Registry
    <3> HIDE DEF less
    <3>2. left = [less EXCEPT !.entry[e] = [n0 EXCEPT !.jobs = n0.jobs - 1]]
      BY <3>1
    <3>3. n1 = [n0 EXCEPT !.jobs = n0.jobs - 1]
      BY <1>5 DEF n1
    <3>4. left = [less EXCEPT !.entry[e] = n1]
      BY <3>2, <3>3
    <3> HIDE DEF left
    <3> QED
      BY <1>1, <1>8, <3>4 DEF Registry
  <2>4. left.entry[e] = n1 /\ left.members = r.members
    <3> HIDE DEF left
    <3> QED
      BY <1>1, <2>3 DEF Registry
  <2>5. /\ q \in Seq(Entries) /\ Once(q) /\ ToSet(q) = Members(r) /\ Len(q) = Len(r.members)
        /\ \A w \in Seq(Entries) : Contains(w, e) <=> e \in ToSet(w)
    <3>1. \A w \in Seq(Entries) : Contains(w, e) <=> e \in ToSet(w)
      BY SetOf
    <3>2. CASE e \in Members(r)
      BY <1>1, <1>2, <3>1, <3>2, Removed DEF Members
    <3>3. CASE e \notin Members(r)
      BY <1>1, <1>2, <3>1, <3>3 DEF Members
    <3> QED
      BY <3>2, <3>3
  <2>6. free = Y(n2, q)
    <3> HIDE DEF left
    <3>1. Contains(left.members, e) <=> e \in Members(r)
      BY <1>2, <2>4, <2>5 DEF Members
    <3>2. free = [left EXCEPT !.entry[e] = n2, !.members = q]
      BY <2>4, <3>1 DEF n2
    <3> HIDE DEF free, q
    <3> QED
      BY <1>1, <2>3, <3>2 DEF Registry
  <2> HIDE DEF left, free, less
  <2>7. CASE r.entry[e].jobs = 1
    <3>1. ~(left.entry[e].jobs > 0)
      BY <1>6, <1>11, <2>4, <2>7
    <3>2. free.members = q
      <4> HIDE DEF q
      <4> QED
        BY <1>1, <2>6 DEF Registry
    <3>3. Dropped(r, Y(n2, q), e, s)
      <4> HIDE DEF Y, q
      <4> QED
        BY <1>7, <1>9, <1>11, <2>5, <2>7
    <3> HIDE DEF Y, q
    <3>4. Contains(free.members, e) <=> e \in Members(r)
      BY <2>5, <3>2
    <3> QED
      BY <1>11, <2>1, <2>2, <2>6, <2>7, <3>1, <3>3, <3>4
  <2>8. CASE r.entry[e].jobs # 1
    <3>1. left.entry[e].jobs > 0
      BY <1>2, <1>3, <1>6, <1>11, <2>4, <2>8
    <3>2. Dropped(r, Y(n1, r.members), e, s)
      <4> HIDE DEF Y
      <4> QED
        BY <1>1, <1>2, <1>6, <1>9, <1>11, <2>8 DEF Members
    <3> HIDE DEF Y
    <3> QED
      BY <1>11, <2>1, <2>2, <2>3, <2>8, <3>1, <3>2
  <2> QED
    BY <2>7, <2>8
<1> QED
  BY <1>10, <1>11

\* A scope that counts toward an entry may count once less.
LEMMA DroppedCore ==
    ASSUME NEW r, NEW H, Core(r, H), SceneOk, NEW e \in Entries, NEW s \in Scopes, H[s][e] > 0,
           NEW y, Dropped(r, y, e, s)
    PROVE  /\ Core(y, Less(H, s, e)) /\ Nudge(r, y, e) /\ PlacesKept(r, y, Scopes \ {s})
           /\ scene.max > 0 /\ Within(r) => Within(y)
           /\ Settled(r) /\ ~(IsJob(s) /\ r.entry[e].jobs = 1 /\ e \in Members(r)) => Settled(y)
<1> DEFINE G == Less(H, s, e)
<1>1. r \in Registry /\ H \in HoldingType /\ EntryOk(r, H, e) /\ Pool(r) /\ One(r)
  BY DEF Core, Typed
<1>0. y \in Registry
  BY DEF Dropped
<1>2. \A f \in Entries \ {e} : y.entry[f] = r.entry[f]
  BY DEF Dropped
<1>3. /\ G \in HoldingType
      /\ \A o \in Scopes : \A f \in Entries : G[o][f] = IF o = s /\ f = e THEN H[o][f] - 1 ELSE H[o][f]
      /\ Total(G, e) = Total(H, e) - 1
      /\ JobTotal(G, e) = IF s \in Jobs THEN JobTotal(H, e) - 1 ELSE JobTotal(H, e)
  BY <1>1, LessHeld
<1> HIDE DEF G
<1>4. /\ r.entry[e].refs \in Nat /\ r.entry[e].jobs \in Nat /\ Total(H, e) \in Nat /\ JobTotal(H, e) \in Nat
      /\ JobTotal(G, e) \in Nat /\ Cardinality(Handed(r, e)) \in Nat
      /\ \A o \in Scopes : H[o][e] \in Nat
  BY <1>1, <1>3, Parts, TotalType, HandedType
<1>5. r.entry[e].refs > 0 /\ r.entry[e].timer = "none" /\ e \notin Unused(r)
      /\ (IsJob(s) => r.entry[e].jobs > 0 /\ r.entry[e].holder = s)
  BY HeldIs, Constants DEF IsJob
<1>6. IsJob(s) <=> scene.exclusive /\ s \in Jobs
  BY Constants DEF IsJob
<1>7. Handed(y, e) = Handed(r, e)
  BY HandedSame DEF Dropped
<1>8. Tallied(y, G, e)
  BY <1>1, <1>3, <1>4, <1>6, <1>7 DEF EntryOk, Tallied, Dropped
<1>9. HeldByOne(y, G, e)
  <2>0. Tallied(r, H, e) /\ HeldByOne(r, H, e)
    BY <1>1 DEF EntryOk
  <2>1. CASE IsJob(s) /\ r.entry[e].jobs = 1
    <3>1. JobTotal(G, e) = 0 /\ Cardinality(Handed(y, e)) = 0 /\ y.entry[e].jobs = 0 /\ y.entry[e].holder = Nobody
      BY <1>4, <1>6, <1>7, <1>8, <2>1 DEF Tallied, Dropped
    <3>4. G \in HoldingType
      BY <1>3
    <3>2. \A o \in Jobs : G[o][e] = 0
      BY <3>1, <3>4, TotalType
    <3>3. \A p \in Steps : y.got[p] # e
      BY <3>1, HandedType
    <3> QED
      BY <3>1, <3>2, <3>3, Constants DEF HeldByOne, Handed
  <2>2. CASE ~(IsJob(s) /\ r.entry[e].jobs = 1)
    <3>1. y.entry[e].holder = r.entry[e].holder /\ (y.entry[e].jobs = 0 => r.entry[e].jobs = 0)
      BY <1>4, <1>5, <2>2 DEF Dropped
    <3>2. \A o \in Jobs : G[o][e] > 0 => H[o][e] > 0
      <4> SUFFICES ASSUME NEW o \in Jobs, G[o][e] > 0 PROVE H[o][e] > 0
        OBVIOUS
      <4>1. o \in Scopes
        BY DEF Jobs
      <4> QED
        BY <1>3, <1>4, <4>1
    <3> QED
      BY <1>7, <2>0, <3>1, <3>2 DEF HeldByOne
  <2> QED
    BY <2>1, <2>2
<1>10. Alive(y, e)
  BY <1>1, <1>4, <1>5 DEF EntryOk, Alive, Dropped
<1>11. EntryOk(y, G, e)
  BY <1>8, <1>9, <1>10 DEF EntryOk
<1>12. Shift(r, y, e)
  BY <1>1 DEF Shift, Dropped, Pool
<1>13. MemberOk(y, e) /\ HolderOk(r, y, e) /\ ReservedOk(r, y)
  BY <1>1 DEF MemberOk, HolderOk, ReservedOk, Dropped, Pool
<1>14. One(y)
  <2>1. y.live = r.live /\ y.current = r.current /\ r.current \in Entries \cup {None}
    BY <1>1, Parts DEF Dropped
  <2>2. r.current # None => y.entry[r.current].gone = r.entry[r.current].gone /\ y.entry[r.current].retired = r.entry[r.current].retired
    <3>1. CASE r.current = e
      BY <3>1 DEF Dropped
    <3>2. CASE r.current # e
      BY <1>2, <2>1, <3>2
    <3> QED
      BY <3>1, <3>2
  <2> QED
    BY <1>1, <2>1, <2>2 DEF One
<1>15. Core(y, G)
  <2>1. \A o \in Scopes : \A f \in Entries \ {e} : G[o][f] = H[o][f]
    BY <1>3
  <2> QED
    BY <1>3, <1>11, <1>12, <1>13, <1>14, <2>1, CoreChange
<1>16. Nudge(r, y, e)
  <2>2. Quiet(r) => Quiet(y)
    BY <1>2, <1>4, <1>5 DEF Quiet, Dropped
  <2>3. ASSUME Idle(r), NEW f \in Entries
        PROVE  Ticks(y, f)
    <3>1. Ticks(r, f)
      BY <2>3 DEF Idle
    <3>2. CASE f = e
      BY <1>5, <3>1, <3>2 DEF Ticks, Dropped
    <3>3. CASE f # e
      BY <1>2, <3>1, <3>3 DEF Ticks, Dropped
    <3> QED
      BY <3>2, <3>3
  <2>4. Idle(r) => Idle(y)
    BY <2>3 DEF Idle
  <2> QED
    BY <1>5, <2>2, <2>4 DEF Nudge, Dropped
<1>17. PlacesKept(r, y, Scopes \ {s})
  <2> SUFFICES ASSUME NEW o \in Scopes \ {s}, HasPlace(r, o) PROVE HasPlace(y, o)
    BY DEF PlacesKept
  <2>1. y.reserved = r.reserved /\ Members(y) = Members(r) /\ Members(r) \subseteq Entries
    BY <1>1, Parts DEF Dropped
  <2>2. \A f \in Members(r) : r.entry[f].holder = o => y.entry[f].holder = o
    <3> SUFFICES ASSUME NEW f \in Members(r), r.entry[f].holder = o PROVE y.entry[f].holder = o
      OBVIOUS
    <3>1. CASE f = e
      BY <1>5, <3>1 DEF Dropped
    <3>2. CASE f # e
      BY <1>2, <2>1, <3>2
    <3> QED
      BY <3>1, <3>2
  <2> QED
    BY <2>1, <2>2 DEF HasPlace
<1>18. scene.max > 0 /\ Within(r) => Within(y)
  BY DEF Within, Dropped, Reserved
<1>19. ASSUME Settled(r), ~(IsJob(s) /\ r.entry[e].jobs = 1 /\ e \in Members(r))
       PROVE  Settled(y)
  <2>1. Len(y.members) = Len(r.members) /\ y.reserved = r.reserved /\ y.waiters = r.waiters /\ y.closed = r.closed
        /\ Members(y) = Members(r)
    BY DEF Dropped
  <2>2. Members(r) \subseteq Entries
    BY <1>1, Parts
  <2>4. \A f \in Members(r) : (y.entry[f].jobs = 0 <=> r.entry[f].jobs = 0) /\ y.entry[f].lease = r.entry[f].lease
    <3> SUFFICES ASSUME NEW f \in Members(r) PROVE (y.entry[f].jobs = 0 <=> r.entry[f].jobs = 0) /\ y.entry[f].lease = r.entry[f].lease
      OBVIOUS
    <3>1. CASE f = e
      BY <1>4, <1>5, <1>19, <3>1 DEF Dropped
    <3>2. CASE f # e
      BY <1>2, <2>2, <3>2
    <3> QED
      BY <3>1, <3>2
  <2>3. Free(y) = Free(r)
    BY <2>1, <2>4 DEF Free
  <2> QED
    BY <1>19, <2>1, <2>3, StaysSettled DEF Reserved
<1> QED
  BY <1>15, <1>16, <1>17, <1>18, <1>19 DEF G

\* An entry's timer or its machine's state changes, and nothing else.
Touched(r, x, e) ==
    /\ x \in Registry
    /\ x.members = r.members /\ x.current = r.current /\ x.reserved = r.reserved
    /\ x.waiters = r.waiters /\ x.got = r.got /\ x.live = r.live /\ x.closed = r.closed
    /\ \A f \in Entries \ {e} : x.entry[f] = r.entry[f]
    /\ x.entry[e].refs = r.entry[e].refs /\ x.entry[e].jobs = r.entry[e].jobs
    /\ x.entry[e].holder = r.entry[e].holder /\ x.entry[e].retired = r.entry[e].retired
    /\ x.entry[e].gone = r.entry[e].gone

\* One entry replaced.
EntryIs(r, x, e, n) == x = [r EXCEPT !.entry[e] = n]

\* Such an entry replaced.
LEMMA TouchedIs ==
    ASSUME NEW r \in Registry, NEW e \in Entries, NEW n \in EntryType, NEW x, EntryIs(r, x, e, n),
           n.refs = r.entry[e].refs, n.jobs = r.entry[e].jobs, n.holder = r.entry[e].holder,
           n.retired = r.entry[e].retired, n.gone = r.entry[e].gone
    PROVE  Touched(r, x, e) /\ x.entry[e] = n
<1>1. x \in Registry
  BY DEF Registry, EntryIs
<1>2. x.entry[e] = n /\ \A f \in Entries : f # e => x.entry[f] = r.entry[f]
  BY DEF Registry, EntryIs
<1>3. /\ x.members = r.members /\ x.current = r.current /\ x.reserved = r.reserved
      /\ x.waiters = r.waiters /\ x.got = r.got /\ x.live = r.live /\ x.closed = r.closed
  BY DEF Registry, EntryIs
<1> QED
  BY <1>1, <1>2, <1>3 DEF Touched

\* Fewer free machines, and nobody waits for what is there.
LEMMA FewerFree ==
    ASSUME NEW r \in Registry, NEW x \in Registry, Settled(r), x.closed = r.closed, x.waiters = r.waiters,
           Len(x.members) = Len(r.members), Reserved(x) = Reserved(r), Free(x) \subseteq Free(r), SceneOk
    PROVE  Settled(x)
<1>1. /\ Len(r.members) \in Nat /\ Reserved(r) \in Nat /\ scene.max \in Nat
      /\ IsFiniteSet(Members(r))
  BY Sizes, Parts, Constants, FS_Subset DEF SceneOk, SceneType
<1>2. IsFiniteSet(Free(r))
  BY <1>1, FS_Subset DEF Free
<1>3. /\ Cardinality(Free(r)) \in Nat /\ Cardinality(Free(x)) \in Nat
      /\ Cardinality(Free(x)) <= Cardinality(Free(r))
  BY <1>2, FS_Subset, FS_CardinalityType
<1> QED
  BY <1>1, <1>3 DEF Settled

\* What an entry's timer and its machine's state say to nobody else.
LEMMA TouchedCore ==
    ASSUME NEW r, NEW H, Core(r, H), SceneOk, NEW e \in Entries, NEW x, Touched(r, x, e),
           x.entry[e].timer # "none" => x.entry[e].refs = 0
    PROVE  /\ Core(x, H) /\ PlacesKept(r, x, Scopes)
           /\ scene.max > 0 /\ Within(r) => Within(x)
           /\ Settled(r) /\ (x.entry[e].lease # "failed" => r.entry[e].lease # "failed") => Settled(x)
           /\ Quiet(r) => Quiet(x)
           /\ Idle(r) /\ Ticks(x, e) => Idle(x)
<1>1. r \in Registry /\ H \in HoldingType /\ EntryOk(r, H, e) /\ Pool(r) /\ One(r) /\ Once(r.members)
  BY DEF Core, Typed
<1>0. x \in Registry /\ Members(x) = Members(r) /\ Members(r) \subseteq Entries
  BY <1>1, Parts DEF Touched, Members
<1>2. \A f \in Entries \ {e} : x.entry[f] = r.entry[f]
  BY DEF Touched
<1>3. \A f \in Entries : /\ x.entry[f].refs = r.entry[f].refs /\ x.entry[f].jobs = r.entry[f].jobs
                         /\ x.entry[f].holder = r.entry[f].holder /\ x.entry[f].retired = r.entry[f].retired
                         /\ x.entry[f].gone = r.entry[f].gone
  BY <1>2 DEF Touched
<1>4. Shift(r, x, e)
  BY <1>0, <1>1 DEF Shift, Touched, Pool
<1>5. EntryOk(x, H, e)
  <2>1. Handed(x, e) = Handed(r, e)
    BY HandedSame DEF Touched
  <2>2. Tallied(x, H, e) /\ HeldByOne(x, H, e)
    BY <1>1, <2>1 DEF EntryOk, Tallied, HeldByOne, Touched
  <2>3. Alive(x, e)
    BY <1>1 DEF EntryOk, Alive, Touched
  <2> QED
    BY <2>2, <2>3 DEF EntryOk
<1>6. MemberOk(x, e) /\ HolderOk(r, x, e) /\ ReservedOk(r, x)
  BY <1>0, <1>1 DEF MemberOk, HolderOk, ReservedOk, Touched, Pool
<1>7. One(x)
  <2>1. x.live = r.live /\ x.current = r.current /\ r.current \in Entries \cup {None}
    BY <1>1, Parts DEF Touched
  <2> QED
    BY <1>1, <1>3, <2>1 DEF One
<1>8. Core(x, H)
  BY <1>1, <1>4, <1>5, <1>6, <1>7, CoreChange
<1>9. PlacesKept(r, x, Scopes)
  <2>1. x.reserved = r.reserved
    BY DEF Touched
  <2> QED
    BY <1>0, <1>3, <2>1 DEF PlacesKept, HasPlace
<1>10. scene.max > 0 /\ Within(r) => Within(x)
  BY DEF Within, Touched, Reserved
<1>11. ASSUME Settled(r), x.entry[e].lease # "failed" => r.entry[e].lease # "failed"
       PROVE  Settled(x)
  <2>1. \A f \in Members(r) : x.entry[f].jobs = r.entry[f].jobs /\ (x.entry[f].lease # "failed" => r.entry[f].lease # "failed")
    BY <1>0, <1>2, <1>3, <1>11
  <2>2. Free(x) \subseteq Free(r)
    BY <1>0, <2>1 DEF Free
  <2>3. x.closed = r.closed /\ x.waiters = r.waiters /\ Len(x.members) = Len(r.members) /\ Reserved(x) = Reserved(r)
    BY DEF Touched, Reserved
  <2> QED
    BY <1>0, <1>1, <1>11, <2>2, <2>3, FewerFree
<1>12. Quiet(r) => Quiet(x)
  BY <1>3 DEF Quiet
<1>13. ASSUME Idle(r), Ticks(x, e), NEW f \in Entries
       PROVE  Ticks(x, f)
  <2>1. CASE f = e
    BY <1>13, <2>1
  <2>2. CASE f # e
    <3>1. Ticks(r, f) /\ x.entry[f] = r.entry[f]
      BY <1>2, <1>13, <2>2 DEF Idle
    <3> QED
      BY <1>0, <3>1 DEF Ticks, Touched
  <2> QED
    BY <2>1, <2>2
<1>14. Idle(r) /\ Ticks(x, e) => Idle(x)
  BY <1>13 DEF Idle
<1> QED
  BY <1>8, <1>9, <1>10, <1>11, <1>12, <1>14

-----------------------------------------------------------------------------
\* drop's first half keeps what the registry promises.
LEMMA LeftOk ==
    ASSUME NEW r, NEW H, Core(r, H), SceneOk, Stocked(r), NEW e \in Entries, NEW s \in Scopes, H[s][e] > 0
    PROVE  LET z == LeftBy(r, e, s)
           IN  /\ Core(z, Less(H, s, e)) /\ Moves(r, z, e) /\ Stocked(z)
               /\ PlacesKept(r, z, Scopes \ {s})
               /\ Settled(r) => Settled(z)
               /\ scene.max > 0 /\ Within(r) => Within(z)
               /\ z.reserved = r.reserved /\ z.entry[e].gone = r.entry[e].gone
               /\ z.entry[e].timer = "none"
<1> DEFINE z == LeftBy(r, e, s)
           G == Less(H, s, e)
<1>1. PICK y : Dropped(r, y, e, s) /\ z = IF IsJob(s) /\ r.entry[e].jobs = 1 /\ e \in Members(r) THEN Serve(y) ELSE y
  BY LeftIs
<1> HIDE DEF z
<1>2. /\ Core(y, G) /\ Nudge(r, y, e) /\ PlacesKept(r, y, Scopes \ {s})
      /\ scene.max > 0 /\ Within(r) => Within(y)
      /\ Settled(r) /\ ~(IsJob(s) /\ r.entry[e].jobs = 1 /\ e \in Members(r)) => Settled(y)
  BY <1>1, DroppedCore
<1> HIDE DEF G
<1>3. r \in Registry /\ y \in Registry
  BY <1>2 DEF Core, Typed
<1>4. Moves(r, y, e) /\ Stocked(y)
  BY <1>2, <1>3, NudgeMoves
<1>5. y.reserved = r.reserved /\ y.live = r.live /\ y.entry[e].gone = r.entry[e].gone /\ y.entry[e].timer = "none"
  <2>1. r.entry[e].timer = "none"
    BY HeldIs
  <2> QED
    BY <1>1, <2>1 DEF Dropped
<1>6. CASE ~(IsJob(s) /\ r.entry[e].jobs = 1 /\ e \in Members(r))
  BY <1>1, <1>2, <1>4, <1>5, <1>6 DEF z, G
<1>7. CASE IsJob(s) /\ r.entry[e].jobs = 1 /\ e \in Members(r)
  <2>1. z = Serve(y) /\ scene.exclusive
    BY <1>1, <1>7 DEF IsJob
  <2>2. /\ Core(z, G) /\ Advances(y, z) /\ Stocked(z) /\ Settled(z)
        /\ scene.max > 0 /\ Within(y) => Within(z)
    BY <1>2, <1>4, <2>1, ServeIs
  <2>3. z \in Registry
    BY <2>2 DEF Core, Typed
  <2>8. e \in y.live
    BY <1>5, <1>7 DEF Core, Pool
  <2>4. Moves(y, z, e) /\ PlacesKept(y, z, Scopes)
    BY <1>3, <2>2, <2>3, <2>8, AdvanceMoves
  <2>5. Moves(r, z, e)
    BY <1>3, <1>4, <2>3, <2>4, MovesOn
  <2>6. PlacesKept(r, z, Scopes \ {s})
    BY <1>2, <2>4 DEF PlacesKept
  <2>7. z.reserved = y.reserved /\ GoesOn(y, z, e)
    <3>1. e \notin Unused(y)
      BY <2>8 DEF Unused
    <3> QED
      BY <3>1, <2>2 DEF Advances
  <2>9. z.entry[e].timer = "none"
    <3>1. EntryOk(z, G, e)
      BY <2>2 DEF Core
    <3>2. z.entry[e].timer # "none" => z.entry[e].refs = 0
      BY <3>1 DEF EntryOk, Alive
    <3> QED
      BY <1>5, <2>7, <3>2 DEF GoesOn
  <2> QED
    BY <1>2, <1>5, <2>2, <2>5, <2>6, <2>7, <2>9 DEF z, G, GoesOn
<1> QED
  BY <1>6, <1>7

\* One entry's timer set.
TimerSet(r, x, e, t) == x = [r EXCEPT !.entry[e].timer = t]

\* An entry nobody holds any more waits for its timer.
LEMMA Armed ==
    ASSUME NEW r, NEW H, Core(r, H), SceneOk, Stocked(r), NEW e \in Entries, e \in r.live, r.entry[e].refs = 0,
           r.entry[e].gone = "no", ~r.entry[e].retired, ~r.closed, NEW x, TimerSet(r, x, e, "armed")
    PROVE  /\ Core(x, H) /\ Moves(r, x, e) /\ PlacesKept(r, x, Scopes)
           /\ Settled(r) => Settled(x)
           /\ scene.max > 0 /\ Within(r) => Within(x)
           /\ x.reserved = r.reserved /\ x.entry[e].timer = "armed"
<1> DEFINE n == [r.entry[e] EXCEPT !.timer = "armed"]
<1>1. r \in Registry /\ r.entry[e] \in EntryType
  BY Parts DEF Core, Typed
<1>2. /\ n \in EntryType /\ n.timer = "armed" /\ n.refs = r.entry[e].refs /\ n.jobs = r.entry[e].jobs
      /\ n.holder = r.entry[e].holder /\ n.retired = r.entry[e].retired /\ n.gone = r.entry[e].gone
      /\ n.lease = r.entry[e].lease /\ n.owes = r.entry[e].owes
  BY <1>1 DEF EntryType
<1>3. EntryIs(r, x, e, n)
  BY DEF EntryIs, TimerSet
<1> HIDE DEF n
<1>4. Touched(r, x, e) /\ x.entry[e] = n
  <2>1. r \in Registry /\ n \in EntryType
    BY <1>1, <1>2
  <2> QED
    BY <1>2, <1>3, <2>1, TouchedIs
<1>5. x.entry[e].refs = 0 /\ x.entry[e].lease = r.entry[e].lease /\ x.entry[e].owes = r.entry[e].owes
  BY <1>2, <1>4
<1>6. /\ Core(x, H) /\ PlacesKept(r, x, Scopes)
      /\ scene.max > 0 /\ Within(r) => Within(x)
      /\ Settled(r) /\ (x.entry[e].lease # "failed" => r.entry[e].lease # "failed") => Settled(x)
      /\ Quiet(r) => Quiet(x)
      /\ Idle(r) /\ Ticks(x, e) => Idle(x)
  BY <1>4, <1>5, TouchedCore
<1>7. Idle(r) => Ticks(x, e)
  BY <1>2, <1>4 DEF Idle, Ticks, Touched, Members
<1>8. e \notin Unused(r)
  BY DEF Unused
<1>9. Nudge(r, x, e)
  BY <1>2, <1>4, <1>6, <1>7, <1>8 DEF Nudge, Touched
<1>10. Moves(r, x, e)
  BY <1>1, <1>9, NudgeMoves
<1>11. x.reserved = r.reserved
  BY <1>4 DEF Touched
<1> QED
  BY <1>2, <1>4, <1>5, <1>6, <1>10, <1>11

\* Somebody is going to let go of the entry.
Kept(r, e) == r.entry[e].refs > 0 \/ r.entry[e].timer # "none" \/ r.entry[e].gone = "going"

\* drop, by a scope that counts toward the entry.
LEMMA DropRefIs ==
    ASSUME NEW r, NEW H, Core(r, H), SceneOk, Stocked(r), NEW e \in Entries, NEW s \in Scopes, H[s][e] > 0
    PROVE  LET x == DropRef(r, e, s)
           IN  /\ Core(x, Less(H, s, e)) /\ Moves(r, x, e) /\ PlacesKept(r, x, Scopes \ {s})
               /\ Settled(r) => Settled(x)
               /\ scene.max > 0 /\ Within(r) => Within(x)
               /\ x.reserved = r.reserved
               /\ e \in r.live => Kept(x, e)
<1> DEFINE x == DropRef(r, e, s)
           z == LeftBy(r, e, s)
           G == Less(H, s, e)
<1>1. x = IF z.entry[e].refs > 0 \/ z.entry[e].gone # "no" THEN z
          ELSE IF z.closed \/ z.entry[e].retired \/ ~scene.idle \/ ~Holding(z, e)
          THEN TakeOut(z, e, s)
          ELSE [z EXCEPT !.entry[e].timer = "armed"]
  BY DEF DropRef, LeftBy
<1>2. /\ Core(z, G) /\ Moves(r, z, e) /\ Stocked(z)
      /\ PlacesKept(r, z, Scopes \ {s})
      /\ Settled(r) => Settled(z)
      /\ scene.max > 0 /\ Within(r) => Within(z)
      /\ z.reserved = r.reserved /\ z.entry[e].gone = r.entry[e].gone
      /\ z.entry[e].timer = "none"
  BY LeftOk
<1> HIDE DEF x, z, G
<1>3. r \in Registry /\ z \in Registry
  BY <1>2 DEF Core, Typed
<1>4. z.entry[e].refs \in Nat /\ z.entry[e].gone \in {"no", "going", "yes"} /\ z.closed \in BOOLEAN /\ z.entry[e].retired \in BOOLEAN
  BY <1>3, Parts
<1>5. r.entry[e].gone = "no" => e \in z.live
  <2>1. r.entry[e].gone = "no" => e \in r.live
    BY HeldIs
  <2> QED
    BY <1>2, <2>1 DEF Moves
<1>6. CASE z.entry[e].refs > 0 \/ z.entry[e].gone # "no"
  <2>1. x = z
    BY <1>1, <1>6
  <2>2. e \in r.live => Kept(z, e)
    <3>1. EntryOk(z, G, e) /\ (e \in z.live <=> e \in r.live)
      BY <1>2 DEF Core, Moves
    <3> QED
      BY <1>4, <1>6, <3>1 DEF EntryOk, Alive, Kept
  <2> QED
    BY <1>2, <2>1, <2>2 DEF x, G
<1>7. CASE ~(z.entry[e].refs > 0 \/ z.entry[e].gone # "no")
  <2>0. z.entry[e].refs = 0 /\ z.entry[e].gone = "no" /\ e \in z.live
    BY <1>2, <1>4, <1>5, <1>7
  <2>1. ASSUME Core(x, G), Moves(z, x, e), PlacesKept(z, x, Scopes), Settled(z) => Settled(x),
               scene.max > 0 /\ Within(z) => Within(x), x.reserved = z.reserved, Kept(x, e)
        PROVE  /\ Core(x, G) /\ Moves(r, x, e) /\ PlacesKept(r, x, Scopes \ {s})
               /\ Settled(r) => Settled(x)
               /\ scene.max > 0 /\ Within(r) => Within(x)
               /\ x.reserved = r.reserved
               /\ e \in r.live => Kept(x, e)
    <3>1. x \in Registry
      BY <2>1 DEF Core, Typed
    <3>2. Moves(r, x, e)
      BY <1>2, <1>3, <2>1, <3>1, MovesOn
    <3>3. PlacesKept(r, x, Scopes \ {s})
      BY <1>2, <2>1 DEF PlacesKept
    <3> QED
      BY <1>2, <2>1, <3>2, <3>3
  <2>2. CASE z.closed \/ z.entry[e].retired \/ ~scene.idle \/ ~Holding(z, e)
    <3>1. x = TakeOut(z, e, s)
      BY <1>1, <1>7, <2>2
    <3>2. /\ Core(x, G) /\ Moves(z, x, e) /\ PlacesKept(z, x, Scopes)
          /\ Settled(z) => Settled(x)
          /\ scene.max > 0 /\ Within(z) => Within(x)
          /\ x.entry[e].gone = "going" /\ x.reserved = z.reserved
      BY <1>2, <2>0, <3>1, TakeOutIs
    <3>3. Kept(x, e)
      BY <3>2 DEF Kept
    <3> QED
      BY <2>1, <3>2, <3>3 DEF x, G
  <2>3. CASE ~(z.closed \/ z.entry[e].retired \/ ~scene.idle \/ ~Holding(z, e))
    <3>1. TimerSet(z, x, e, "armed")
      BY <1>1, <1>7, <2>3 DEF TimerSet
    <3>2. /\ Core(x, G) /\ Moves(z, x, e) /\ PlacesKept(z, x, Scopes)
          /\ Settled(z) => Settled(x)
          /\ scene.max > 0 /\ Within(z) => Within(x)
          /\ x.reserved = z.reserved /\ x.entry[e].timer = "armed"
      BY <1>2, <2>0, <2>3, <3>1, Armed
    <3>3. Kept(x, e)
      BY <3>2 DEF Kept
    <3> QED
      BY <2>1, <3>2, <3>3 DEF x, G
  <2> QED
    BY <2>2, <2>3
<1> QED
  BY <1>6, <1>7

-----------------------------------------------------------------------------
(* count, and the claims.                                                  *)

\* A scope counts once more toward an entry.
Counted(r, x, e, s) ==
    /\ x \in Registry
    /\ x.current = r.current /\ x.members = r.members /\ x.reserved = r.reserved
    /\ x.waiters = r.waiters /\ x.got = r.got /\ x.live = r.live /\ x.closed = r.closed
    /\ \A f \in Entries \ {e} : x.entry[f] = r.entry[f]
    /\ x.entry[e].refs = r.entry[e].refs + 1
    /\ x.entry[e].jobs = IF IsJob(s) THEN r.entry[e].jobs + 1 ELSE r.entry[e].jobs
    /\ x.entry[e].holder = IF IsJob(s) THEN s ELSE r.entry[e].holder
    /\ x.entry[e].timer = "none"
    /\ r.entry[e].stale => x.entry[e].stale
    /\ x.entry[e].retired = r.entry[e].retired /\ x.entry[e].gone = r.entry[e].gone
    /\ x.entry[e].lease = r.entry[e].lease /\ x.entry[e].owes = r.entry[e].owes

\* count, by any scope.
LEMMA CountedIs ==
    ASSUME NEW r \in Registry, NEW e \in Entries, NEW s \in Scopes, SceneOk
    PROVE  Counted(r, Count(r, e, s), e, s)
<1>1. scene.exclusive \in BOOLEAN
  BY DEF SceneOk, SceneType
<1> DEFINE x == Count(r, e, s)
<1>2. /\ x \in Registry
      /\ x.current = r.current /\ x.members = r.members /\ x.reserved = r.reserved
      /\ x.waiters = r.waiters /\ x.got = r.got /\ x.live = r.live /\ x.closed = r.closed
      /\ \A f \in Entries : f # e => x.entry[f] = r.entry[f]
      /\ x.entry[e].refs = r.entry[e].refs + 1
      /\ x.entry[e].jobs = IF IsJob(s) THEN r.entry[e].jobs + 1 ELSE r.entry[e].jobs
      /\ x.entry[e].holder = IF IsJob(s) THEN s ELSE r.entry[e].holder
      /\ x.entry[e].timer = "none"
      /\ x.entry[e].stale = (r.entry[e].stale \/ r.entry[e].timer = "fired")
      /\ x.entry[e].retired = r.entry[e].retired /\ x.entry[e].gone = r.entry[e].gone
      /\ x.entry[e].by = r.entry[e].by /\ x.entry[e].lease = r.entry[e].lease
      /\ x.entry[e].owes = r.entry[e].owes
  BY <1>1, CountIs DEF IsJob
<1> HIDE DEF x
<1>3. Counted(r, x, e, s)
  BY <1>2 DEF Counted
<1> QED
  BY <1>3 DEF x

\* It is the job's machine already, or a machine that is free and a job without one.
Suits(r, e, s) ==
    IsJob(s) => \/ r.entry[e].holder = s
                \/ /\ r.entry[e].jobs = 0 /\ r.reserved[s] = 0
                   /\ \A f \in Members(r) : r.entry[f].holder # s
                   /\ \A p \in Waiting(r) : ScopeOf[p] # s

\* A scope may be counted toward an entry that suits it.
LEMMA CountCore ==
    ASSUME NEW r, NEW H, Core(r, H), SceneOk, NEW e \in Entries, NEW s \in Scopes,
           e \in r.live, r.entry[e].gone = "no", Suits(r, e, s), NEW x, Counted(r, x, e, s)
    PROVE  Core(x, More(H, s, e))
<1> DEFINE G == More(H, s, e)
<1>1. r \in Registry /\ H \in HoldingType /\ EntryOk(r, H, e) /\ Pool(r) /\ One(r) /\ Once(r.members)
  BY DEF Core, Typed
<1>2. Tallied(r, H, e) /\ HeldByOne(r, H, e) /\ Alive(r, e)
  BY <1>1 DEF EntryOk
<1>3. /\ G \in HoldingType
      /\ \A o \in Scopes : \A f \in Entries : G[o][f] = IF o = s /\ f = e THEN H[o][f] + 1 ELSE H[o][f]
      /\ Total(G, e) = Total(H, e) + 1
      /\ JobTotal(G, e) = IF s \in Jobs THEN JobTotal(H, e) + 1 ELSE JobTotal(H, e)
  BY <1>1, MoreHeld
<1> HIDE DEF G
<1>4. /\ r.entry[e].refs \in Nat /\ r.entry[e].jobs \in Nat /\ Total(H, e) \in Nat /\ JobTotal(H, e) \in Nat
      /\ Cardinality(Handed(r, e)) \in Nat
      /\ \A o \in Scopes : H[o][e] \in Nat
  BY <1>1, Parts, TotalType, HandedType
<1>5. x \in Registry /\ Members(x) = Members(r) /\ Members(r) \subseteq Entries
  BY <1>1, Parts DEF Counted, Members
<1>6. IsJob(s) <=> scene.exclusive /\ s \in Jobs
  BY Constants DEF IsJob
<1>7. Handed(x, e) = Handed(r, e)
  BY HandedSame DEF Counted
<1>8. Tallied(x, G, e)
  BY <1>2, <1>3, <1>4, <1>6, <1>7 DEF Tallied, Counted
<1>9. HeldByOne(x, G, e)
  <2>1. CASE ~IsJob(s)
    <3>1. x.entry[e].holder = r.entry[e].holder /\ x.entry[e].jobs = r.entry[e].jobs
      BY <2>1 DEF Counted
    <3>2. scene.exclusive => \A o \in Jobs : G[o][e] = H[o][e]
      BY <1>3, <1>6, <2>1 DEF Jobs
    <3> QED
      BY <1>2, <1>7, <3>1, <3>2 DEF HeldByOne
  <2>2. CASE IsJob(s)
    <3>1. x.entry[e].holder = s /\ x.entry[e].jobs > 0
      BY <1>4, <2>2 DEF Counted
    <3>2. \A o \in Jobs : o # s => ~(H[o][e] > 0)
      <4>1. CASE r.entry[e].holder = s
        BY <1>2, <1>6, <2>2, <4>1 DEF HeldByOne
      <4>2. CASE r.entry[e].jobs = 0
        <5>1. JobTotal(H, e) = 0
          BY <1>2, <1>4, <1>6, <2>2, <4>2 DEF Tallied
        <5>2. \A o \in Jobs : H[o][e] = 0
          BY <1>1, <5>1, TotalType
        <5> QED
          BY <5>2
      <4> QED
        BY <2>2, <4>1, <4>2 DEF Suits
    <3>3. \A p \in Handed(r, e) : ScopeOf[p] = s
      <4>1. CASE r.entry[e].holder = s
        BY <1>2, <4>1 DEF HeldByOne
      <4>2. CASE r.entry[e].jobs = 0
        <5>1. Cardinality(Handed(r, e)) = 0
          BY <1>2, <1>4, <1>6, <2>2, <4>2 DEF Tallied
        <5> QED
          BY <5>1, HandedType DEF Handed
      <4> QED
        BY <2>2, <4>1, <4>2 DEF Suits
    <3>4. \A o \in Jobs : G[o][e] > 0 => o = s
      BY <1>3, <3>2 DEF Jobs
    <3>5. s \notin Checks
      BY <1>6, <2>2 DEF Jobs
    <3> QED
      BY <1>7, <3>1, <3>3, <3>4, <3>5 DEF HeldByOne
  <2> QED
    BY <2>1, <2>2
<1>10. Alive(x, e)
  BY <1>2 DEF Alive, Counted
<1>11. EntryOk(x, G, e)
  BY <1>8, <1>9, <1>10 DEF EntryOk
<1>12. Shift(r, x, e)
  BY <1>1, <1>5 DEF Shift, Counted, Pool
<1>13. MemberOk(x, e) /\ ReservedOk(r, x)
  BY <1>1, <1>5 DEF MemberOk, ReservedOk, Counted, Pool
<1>14. HolderOk(r, x, e)
  <2>1. CASE ~IsJob(s) \/ r.entry[e].holder = s
    BY <2>1 DEF HolderOk, Counted
  <2>2. CASE IsJob(s) /\ r.entry[e].holder # s
    BY <1>5, <1>6, <2>2 DEF HolderOk, Counted, Suits
  <2> QED
    BY <2>1, <2>2
<1>15. One(x)
  <2>1. x.live = r.live /\ x.current = r.current /\ r.current \in Entries \cup {None}
    BY <1>1, Parts DEF Counted
  <2>2. r.current # None => x.entry[r.current].gone = r.entry[r.current].gone /\ x.entry[r.current].retired = r.entry[r.current].retired
    <3>1. CASE r.current = e
      BY <3>1 DEF Counted
    <3>2. CASE r.current # e
      BY <2>1, <3>2 DEF Counted
    <3> QED
      BY <3>1, <3>2
  <2> QED
    BY <1>1, <2>1, <2>2 DEF One
<1>16. \A o \in Scopes : \A f \in Entries \ {e} : G[o][f] = H[o][f]
  BY <1>3
<1>17. G \in HoldingType
  BY <1>3
<1>18. Core(x, G)
  BY <1>11, <1>12, <1>13, <1>14, <1>15, <1>16, <1>17, CoreChange
<1> QED
  BY <1>18 DEF G

-----------------------------------------------------------------------------
\* New entries apart, everything goes on.
Onward(r, x) ==
    \A f \in Entries : IF f \in Unused(r) THEN f \in x.live => x.entry[f].lease = "none"
                       ELSE GoesOn(r, x, f)

\* A claim: those who wait are left alone, and nobody loses a place.
Taken(r, x) ==
    /\ x.closed = r.closed /\ x.waiters = r.waiters /\ x.got = r.got
    /\ Onward(r, x) /\ (Quiet(r) => Quiet(x)) /\ (Idle(r) => Idle(x))
    /\ PlacesKept(r, x, Scopes)

\* And nobody else notices.
LEMMA CountTaken ==
    ASSUME NEW r, NEW H, Core(r, H), NEW e \in Entries, NEW s \in Scopes,
           e \in r.live, r.entry[e].gone = "no", Suits(r, e, s), NEW x, Counted(r, x, e, s)
    PROVE  /\ Taken(r, x) /\ \A f \in Entries : GoesOn(r, x, f)
           /\ Members(x) = Members(r) /\ Reserved(x) = Reserved(r)
<1>1. r \in Registry /\ EntryOk(r, H, e)
  BY DEF Core, Typed
<1>2. r.entry[e].refs \in Nat /\ Members(r) \subseteq Entries
  BY <1>1, Parts
<1>3. \A f \in Entries \ {e} : x.entry[f] = r.entry[f]
  BY DEF Counted
<1>4. Members(x) = Members(r) /\ Reserved(x) = Reserved(r)
  BY DEF Counted, Members, Reserved
<1>5. ASSUME NEW f \in Entries PROVE GoesOn(r, x, f)
  <2>1. CASE f = e
    BY <1>2, <2>1 DEF GoesOn, Counted
  <2>2. CASE f # e
    <3>1. r.entry[f].refs \in Nat
      BY <1>1, Parts
    <3> QED
      BY <1>3, <2>2, <3>1 DEF GoesOn, Counted
  <2> QED
    BY <2>1, <2>2
<1>6. Onward(r, x)
  <2>1. \A f \in Unused(r) : f \notin x.live
    BY DEF Unused, Counted
  <2> QED
    BY <1>5, <2>1 DEF Onward
<1>7. Quiet(r) => Quiet(x)
  BY <1>3 DEF Quiet, Counted
<1>8. ASSUME Idle(r), NEW f \in Entries PROVE Ticks(x, f)
  <2>1. Ticks(r, f)
    BY <1>8 DEF Idle
  <2>2. CASE f = e
    BY <1>4, <2>1, <2>2 DEF Ticks, Counted
  <2>3. CASE f # e
    BY <1>3, <1>4, <2>1, <2>3 DEF Ticks, Counted
  <2> QED
    BY <2>2, <2>3
<1>9. Idle(r) => Idle(x)
  BY <1>8 DEF Idle
<1>10. PlacesKept(r, x, Scopes)
  <2> SUFFICES ASSUME NEW o \in Scopes, HasPlace(r, o) PROVE HasPlace(x, o)
    BY DEF PlacesKept
  <2>1. x.reserved = r.reserved
    BY DEF Counted
  <2>2. \A f \in Members(r) : r.entry[f].holder = o => x.entry[f].holder = o
    <3> SUFFICES ASSUME NEW f \in Members(r), r.entry[f].holder = o PROVE x.entry[f].holder = o
      OBVIOUS
    <3>1. CASE f = e
      <4>1. r.entry[e].jobs = 0 => r.entry[e].holder = Nobody
        BY <1>1 DEF EntryOk, HeldByOne
      <4> QED
        BY <3>1, <4>1, Constants DEF Suits, Counted
    <3>2. CASE f # e
      BY <1>2, <1>3, <3>2
    <3> QED
      BY <3>1, <3>2
  <2> QED
    BY <1>4, <2>1, <2>2 DEF HasPlace
<1>11. x.closed = r.closed /\ x.waiters = r.waiters /\ x.got = r.got
  BY DEF Counted
<1> QED
  BY <1>4, <1>5, <1>6, <1>7, <1>9, <1>10, <1>11 DEF Taken

\* A new machine first.
LEMMA TakenOn ==
    ASSUME NEW r \in Registry, NEW y \in Registry, NEW x \in Registry,
           Taken(r, y), Taken(y, x), \A f \in Entries : GoesOn(y, x, f)
    PROVE  Taken(r, x)
<1>1. ASSUME NEW f \in Entries
      PROVE  IF f \in Unused(r) THEN f \in x.live => x.entry[f].lease = "none" ELSE GoesOn(r, x, f)
  <2>1. r.entry[f].refs \in Nat /\ y.entry[f].refs \in Nat /\ x.entry[f].refs \in Nat
    BY Parts
  <2>2. GoesOn(y, x, f)
    OBVIOUS
  <2>3. CASE f \in Unused(r)
    <3>1. f \in y.live => y.entry[f].lease = "none"
      BY <2>3 DEF Taken, Onward
    <3> QED
      BY <2>2, <2>3, <3>1 DEF GoesOn
  <2>4. CASE f \notin Unused(r)
    <3>1. GoesOn(r, y, f)
      BY <2>4 DEF Taken, Onward
    <3>2. GoesOn(r, x, f)
      BY <2>1, <2>2, <3>1 DEF GoesOn
    <3> QED
      BY <2>4, <3>2
  <2> QED
    BY <2>3, <2>4
<1>2. Onward(r, x)
  BY <1>1 DEF Onward
<1>3. PlacesKept(r, x, Scopes)
  BY DEF Taken, PlacesKept
<1> QED
  BY <1>2, <1>3 DEF Taken

\* A new machine is nobody's yet, and nobody notices.
LEMMA JoinsTaken ==
    ASSUME NEW r, NEW H, Core(r, H), SceneOk, scene.exclusive, Unused(r) # {}
    PROVE  Taken(r, Member(r))
<1> DEFINE y == Member(r)
<1>1. /\ Core(y, H) /\ Advances(r, y) /\ y.waiters = r.waiters
  BY Joins
<1> HIDE DEF y
<1>2. r \in Registry /\ y \in Registry
  BY <1>1 DEF Core, Typed
<1>3. Onward(r, y)
  BY <1>1 DEF Onward, Advances
<1>4. PlacesKept(r, y, Scopes)
  BY <1>1, EveryPlaceKept DEF PlacesKept
<1>5. y.got = r.got
  <2>1. r.got \in [Steps -> Entries \cup {None}] /\ y.got \in [Steps -> Entries \cup {None}]
    BY <1>2, Parts
  <2>2. Waiting(y) = Waiting(r)
    BY <1>1 DEF Waiting
  <2>3. \A p \in Steps : y.got[p] = r.got[p]
    BY <1>1, <2>2 DEF Advances
  <2> QED
    BY <2>1, <2>3
<1>6. Taken(r, y)
  BY <1>1, <1>3, <1>4, <1>5 DEF Taken, Advances
<1> QED
  BY <1>6 DEF y

\* One more on a machine that is held already, or a check on it: nothing becomes free or taken.
LEMMA CountSettled ==
    ASSUME NEW r \in Registry, NEW e \in Entries, NEW s \in Scopes, NEW x, Counted(r, x, e, s),
           IsJob(s) => r.entry[e].jobs > 0
    PROVE  /\ Settled(r) => Settled(x)
           /\ Within(r) => Within(x)
<1>1. Members(r) \subseteq Entries /\ r.entry[e].jobs \in Nat
  BY Parts
<1>2. /\ Members(x) = Members(r) /\ Len(x.members) = Len(r.members) /\ Reserved(x) = Reserved(r)
      /\ x.closed = r.closed /\ x.waiters = r.waiters
  BY DEF Counted, Members, Reserved
<1>3. ASSUME NEW f \in Members(r)
      PROVE  (x.entry[f].jobs = 0 <=> r.entry[f].jobs = 0) /\ x.entry[f].lease = r.entry[f].lease
  <2>1. CASE f = e
    BY <1>1, <2>1 DEF Counted
  <2>2. CASE f # e
    BY <1>1, <2>2 DEF Counted
  <2> QED
    BY <2>1, <2>2
<1>4. Free(x) = Free(r)
  BY <1>2, <1>3 DEF Free
<1>5. Settled(r) => Settled(x)
  BY <1>2, <1>4, StaysSettled
<1>6. Within(r) => Within(x)
  BY <1>2 DEF Within
<1> QED
  BY <1>5, <1>6

\* claimPool: the machine the scope has already.
LEMMA OwnIs ==
    ASSUME NEW r, NEW H, Core(r, H), SceneOk, NEW s \in Scopes, NEW e \in Entries, H[s][e] > 0,
           r.entry[e].gone = "no"
    PROVE  LET x == Count(r, e, s)
           IN  /\ Core(x, More(H, s, e)) /\ Taken(r, x)
               /\ Settled(r) => Settled(x)
               /\ Within(r) => Within(x)
               /\ x.reserved = r.reserved
<1> DEFINE x == Count(r, e, s)
<1>1. r \in Registry
  BY DEF Core, Typed
<1>2. Counted(r, x, e, s)
  BY <1>1, CountedIs
<1> HIDE DEF x
<1>3. e \in r.live /\ Suits(r, e, s) /\ (IsJob(s) => r.entry[e].jobs > 0)
  <2>1. IsJob(s) => scene.exclusive /\ s \in Jobs
    BY Constants DEF IsJob
  <2> QED
    BY <2>1, HeldIs DEF Suits
<1>4. Core(x, More(H, s, e))
  BY <1>2, <1>3, CountCore
<1>5. Taken(r, x)
  BY <1>2, <1>3, CountTaken
<1>6. Settled(r) => Settled(x)
  BY <1>1, <1>2, <1>3, CountSettled
<1>7. Within(r) => Within(x)
  BY <1>1, <1>2, <1>3, CountSettled
<1>8. x.reserved = r.reserved
  BY <1>2 DEF Counted
<1> QED
  BY <1>4, <1>5, <1>6, <1>7, <1>8 DEF x

\* hold: the mapping's first user makes the entry.
LEMMA BornShared ==
    ASSUME NEW r, NEW H, Core(r, H), SceneOk, ~scene.exclusive, r.current = None, Unused(r) # {}
    PROVE  LET y == [Born(r) EXCEPT !.current = FreshEntry(r)]
           IN  /\ Core(y, H) /\ Taken(r, y) /\ y.current = FreshEntry(r) /\ FreshEntry(r) \in Entries
               /\ FreshEntry(r) \in y.live /\ y.entry[FreshEntry(r)].gone = "no"
               /\ y.reserved = r.reserved
<1> DEFINE e == FreshEntry(r)
           y == [Born(r) EXCEPT !.current = FreshEntry(r)]
<1>1. e \in Unused(r)
  BY DEF FreshEntry
<1> HIDE DEF e
<1>2. /\ e \in Entries /\ e \notin r.live /\ e \notin Members(r)
      /\ \A s \in Scopes : H[s][e] = 0
      /\ Total(H, e) = 0 /\ JobTotal(H, e) = 0
      /\ \A p \in Steps : r.got[p] # e
      /\ Cardinality(Handed(r, e)) = 0
  BY <1>1, UnusedIsFree
<1>3. r \in Registry /\ Once(r.members) /\ H \in HoldingType /\ Pool(r) /\ One(r)
  BY DEF Core, Typed
<1>4. y = [r EXCEPT !.entry[e] = NewEntry, !.live = r.live \cup {e}, !.current = e]
  BY <1>3 DEF Born, e, Registry
<1> HIDE DEF y
<1>5. y \in Registry
  BY <1>2, <1>3, <1>4, NewEntryIs DEF Registry
<1>6. /\ y.entry[e] = NewEntry /\ \A f \in Entries : f # e => y.entry[f] = r.entry[f]
  BY <1>2, <1>3, <1>4 DEF Registry
<1>7. /\ y.live = r.live \cup {e} /\ y.members = r.members
      /\ y.current = e /\ y.reserved = r.reserved /\ y.waiters = r.waiters
      /\ y.got = r.got /\ y.closed = r.closed
  BY <1>2, <1>3, <1>4 DEF Registry
<1>8. Members(y) = Members(r) /\ Members(r) \subseteq Entries
  BY <1>3, <1>7, Parts DEF Members
<1>9. Handed(y, e) = Handed(r, e)
  BY <1>7, HandedSame
<1>10. EntryOk(y, H, e)
  <2>1. Tallied(y, H, e)
    BY <1>2, <1>6, <1>9, NewEntryIs DEF Tallied
  <2>2. HeldByOne(y, H, e)
    BY <1>2, <1>6, <1>9, NewEntryIs, Constants DEF HeldByOne, Handed, Jobs
  <2>3. Alive(y, e)
    BY <1>6, <1>7, NewEntryIs DEF Alive
  <2> QED
    BY <2>1, <2>2, <2>3 DEF EntryOk
<1>11. Shift(r, y, e)
  BY <1>3, <1>5, <1>6, <1>7, <1>8 DEF Shift
<1>12. MemberOk(y, e) /\ HolderOk(r, y, e) /\ ReservedOk(r, y)
  BY <1>2, <1>6, <1>7, <1>8, NewEntryIs DEF MemberOk, HolderOk, ReservedOk
<1>13. One(y)
  <2>1. Parked => r.live = {}
    BY <1>3, Parts, Constants DEF One
  <2> QED
    BY <1>6, <1>7, <2>1, NewEntryIs DEF One
<1>14. Core(y, H)
  BY <1>2, <1>3, <1>10, <1>11, <1>12, <1>13, CoreChange
<1>15. Onward(r, y)
  <2>1. \A f \in Entries : f # e => GoesOn(r, y, f)
    BY <1>3, <1>6, <1>7, Parts DEF GoesOn
  <2>2. \A f \in Unused(r) : f \in y.live => y.entry[f].lease = "none"
    BY <1>6, <1>7, NewEntryIs DEF Unused
  <2> QED
    BY <1>1, <2>1, <2>2 DEF Onward
<1>16. Quiet(r) => Quiet(y)
  BY <1>6, NewEntryIs DEF Quiet
<1>17. Idle(r) => Idle(y)
  BY <1>6, <1>7, <1>8, NewEntryIs, Constants DEF Idle, Ticks
<1>18. PlacesKept(r, y, Scopes)
  <2>1. \A f \in Members(r) : y.entry[f] = r.entry[f]
    BY <1>2, <1>6, <1>8
  <2> QED
    BY <1>7, <1>8, <2>1 DEF PlacesKept, HasPlace
<1>19. Taken(r, y)
  BY <1>7, <1>15, <1>16, <1>17, <1>18 DEF Taken
<1>20. y.entry[e].gone = "no" /\ e \in y.live
  BY <1>6, <1>7, NewEntryIs
<1> QED
  BY <1>2, <1>7, <1>14, <1>19, <1>20 DEF e, y

\* hold, of the mapping's one entry.
LEMMA SharedIs ==
    ASSUME NEW r, NEW H, Core(r, H), SceneOk, ~scene.exclusive, NEW s \in Scopes,
           r.current = None => Unused(r) # {},
           r.current # None => r.entry[r.current].gone = "no"
    PROVE  LET y == IF r.current = None THEN [Born(r) EXCEPT !.current = FreshEntry(r)] ELSE r
               x == Count(y, y.current, s)
           IN  /\ Core(x, More(H, s, y.current)) /\ Taken(r, x) /\ y.current \in Entries
               /\ x.reserved = r.reserved /\ Settled(x)
<1> DEFINE y == IF r.current = None THEN [Born(r) EXCEPT !.current = FreshEntry(r)] ELSE r
           x == Count(y, y.current, s)
<1>1. r \in Registry /\ One(r)
  BY DEF Core, Typed
<1>2. Core(y, H) /\ y.current \in Entries /\ y.current \in y.live /\ y.entry[y.current].gone = "no" /\ y.reserved = r.reserved
  <2>1. CASE r.current = None
    BY <2>1, BornShared
  <2>2. CASE r.current # None
    BY <1>1, <2>2, Parts DEF One
  <2> QED
    BY <2>1, <2>2
<1>3. r.current = None => Taken(r, y)
  BY BornShared
<1>4. r.current # None => y = r
  OBVIOUS
<1>5. y \in Registry
  BY <1>2 DEF Core, Typed
<1> DEFINE e == y.current
<1>6. Counted(y, x, e, s)
  BY <1>2, <1>5, CountedIs
<1> HIDE DEF y, x, e
<1>7. Suits(y, e, s)
  BY DEF Suits, IsJob
<1>8. e \in Entries /\ e \in y.live /\ y.entry[e].gone = "no"
  BY <1>2 DEF e
<1>9. Core(x, More(H, s, e))
  BY <1>2, <1>6, <1>7, <1>8, CountCore
<1>10. Taken(y, x) /\ \A f \in Entries : GoesOn(y, x, f)
  BY <1>2, <1>6, <1>7, <1>8, CountTaken
<1>11. x \in Registry
  BY <1>9 DEF Core, Typed
<1>12. Taken(r, x)
  <2>1. CASE r.current = None
    BY <1>1, <1>3, <1>5, <1>10, <1>11, <2>1, TakenOn
  <2>2. CASE r.current # None
    BY <1>4, <1>10, <2>2
  <2> QED
    BY <2>1, <2>2
<1>13. x.reserved = r.reserved
  BY <1>2, <1>6 DEF Counted
<1>14. Settled(x)
  BY <1>9 DEF Core, Pool, Settled
<1> QED
  BY <1>8, <1>9, <1>12, <1>13, <1>14 DEF x, y, e

\* take, by a check.
LEMMA RideIs ==
    ASSUME NEW r, NEW H, Core(r, H), SceneOk, scene.exclusive, NEW s \in Scopes, Rides(s), Unused(r) # {}
    PROVE  LET free == Warmest(r, FALSE)
               y == IF free = None THEN Member(r) ELSE r
               e == IF free = None THEN Head(y.members) ELSE free
               x == Count(y, e, s)
           IN  /\ Core(x, More(H, s, e)) /\ Taken(r, x) /\ e \in Entries
               /\ Settled(r) => Settled(x)
               /\ x.reserved = r.reserved
<1> DEFINE free == Warmest(r, FALSE)
           y == IF free = None THEN Member(r) ELSE r
           e == IF free = None THEN Head(y.members) ELSE free
           x == Count(y, e, s)
<1>1. r \in Registry /\ r.members \in Seq(Entries) /\ Once(r.members)
  BY Parts DEF Core, Typed
<1>2. /\ Core(Member(r), H) /\ Advances(r, Member(r))
      /\ FreshEntry(r) \in Unused(r) /\ Head(Member(r).members) = FreshEntry(r)
      /\ Members(Member(r)) = Members(r) \cup {FreshEntry(r)}
      /\ Member(r).entry[FreshEntry(r)] = NewEntry
      /\ Len(Member(r).members) = Len(r.members) + 1
      /\ Member(r).waiters = r.waiters
  BY Joins
<1>3. Taken(r, Member(r))
  BY JoinsTaken
<1>4. /\ free = None => Members(r) = {}
      /\ free # None => free \in Members(r)
  BY <1>1, WarmestIs DEF Members, Fits
<1> HIDE DEF free
<1>5. CASE free = None
  <2>1. y = Member(r) /\ e = FreshEntry(r) /\ e \in Entries
    BY <1>2, <1>5 DEF Unused
  <2>2. Core(y, H) /\ Taken(r, y) /\ y \in Registry /\ e \in Members(y) /\ Members(y) = {e} /\ y.entry[e] = NewEntry
        /\ Len(y.members) = Len(r.members) + 1 /\ y.waiters = r.waiters /\ y.reserved = r.reserved
    BY <1>2, <1>3, <1>4, <1>5, <2>1 DEF Core, Typed, Advances
  <2>3. Counted(y, x, e, s)
    BY <2>1, <2>2, CountedIs
  <2> HIDE DEF y, e, x
  <2>4. Suits(y, e, s) /\ e \in y.live /\ y.entry[e].gone = "no" /\ ~IsJob(s)
    BY <2>2 DEF Suits, IsJob, Core, Pool
  <2>5. Core(x, More(H, s, e))
    BY <2>1, <2>2, <2>3, <2>4, CountCore
  <2>6. Taken(y, x) /\ \A f \in Entries : GoesOn(y, x, f)
    BY <2>1, <2>2, <2>3, <2>4, CountTaken
  <2>7. x \in Registry
    BY <2>5 DEF Core, Typed
  <2>8. Taken(r, x)
    BY <1>1, <2>2, <2>6, <2>7, TakenOn
  <2>9. x.reserved = r.reserved
    BY <2>2, <2>3 DEF Counted
  <2>10. Settled(r) => Settled(y)
    <3> SUFFICES ASSUME Settled(r), y.waiters # <<>>, ~y.closed
                 PROVE  /\ scene.max > 0 /\ Len(y.members) - Cardinality(Free(y)) + Reserved(y) >= scene.max
                        /\ Cardinality(Free(y)) <= Reserved(y)
      BY DEF Settled
    <3>1. /\ scene.max > 0 /\ Len(r.members) - Cardinality(Free(r)) + Reserved(r) >= scene.max
          /\ Cardinality(Free(r)) <= Reserved(r)
      BY <2>2 DEF Settled, Taken
    <3>2. Free(r) = {} /\ Free(y) = {e}
      BY <1>4, <1>5, <2>2, NewEntryIs DEF Free
    <3>3. Cardinality(Free(r)) = 0 /\ Cardinality(Free(y)) = 1
      BY <3>2, FS_EmptySet, FS_Singleton
    <3>4. Len(r.members) = 0
      <4>1. Cardinality(Members(r)) = Len(r.members)
        BY <1>1, LenIsCardinality DEF Members
      <4> QED
        BY <1>4, <1>5, <4>1, FS_EmptySet
    <3>5. Reserved(y) = Reserved(r) /\ Reserved(r) \in Nat /\ scene.max \in Nat
      BY <1>1, <2>2, Sizes DEF Reserved, SceneOk, SceneType
    <3> QED
      BY <2>2, <3>1, <3>3, <3>4, <3>5
  <2>11. Settled(y) => Settled(x)
    BY <2>1, <2>2, <2>3, <2>4, CountSettled
  <2> QED
    BY <2>1, <2>5, <2>8, <2>9, <2>10, <2>11 DEF x, y, e, free
<1>6. CASE free # None
  <2>1. y = r /\ e = free
    BY <1>6
  <2> HIDE DEF y, e
  <2>2. e \in Entries /\ e \in Members(r)
    BY <1>1, <1>4, <1>6, <2>1, Parts
  <2>3. Counted(r, x, e, s)
    BY <1>1, <2>1, <2>2, CountedIs
  <2> HIDE DEF x
  <2>4. Suits(r, e, s) /\ e \in r.live /\ r.entry[e].gone = "no" /\ ~IsJob(s)
    BY <2>2 DEF Suits, IsJob, Core, Pool
  <2>5. Core(x, More(H, s, e))
    BY <2>2, <2>3, <2>4, CountCore
  <2>6. Taken(r, x)
    BY <2>2, <2>3, <2>4, CountTaken
  <2>9. x.reserved = r.reserved
    BY <2>3 DEF Counted
  <2>11. Settled(r) => Settled(x)
    BY <1>1, <2>2, <2>3, <2>4, CountSettled
  <2> QED
    BY <2>2, <2>5, <2>6, <2>9, <2>11 DEF x, y, e, free
<1> QED
  BY <1>5, <1>6

-----------------------------------------------------------------------------
(* Kept places, and a job's turn.                                          *)

\* A scope has no place kept for it any more.
Unkept(r, y, s) ==
    /\ y \in Registry
    /\ y.members = r.members /\ y.current = r.current /\ y.entry = r.entry
    /\ y.waiters = r.waiters /\ y.got = r.got /\ y.live = r.live /\ y.closed = r.closed
    /\ y.reserved[s] = 0 /\ \A o \in Scopes \ {s} : y.reserved[o] = r.reserved[o]

\* One scope's kept place set.
ReservedSet(r, y, s, n) == y = [r EXCEPT !.reserved[s] = n]

\* Such a place given up.
LEMMA UnkeptIs ==
    ASSUME NEW r \in Registry, NEW s \in Scopes, NEW y, ReservedSet(r, y, s, 0)
    PROVE  Unkept(r, y, s)
<1> DEFINE v == [r.reserved EXCEPT ![s] = 0]
<1>4. r.reserved \in [Scopes -> 0..1]
  BY DEF Registry
<1>5. v \in [Scopes -> 0..1]
  BY <1>4
<1>6. y = [r EXCEPT !.reserved = v]
  BY DEF ReservedSet
<1> HIDE DEF v
<1>1. y \in Registry
  BY <1>5, <1>6 DEF Registry
<1>2. /\ y.members = r.members /\ y.current = r.current /\ y.entry = r.entry
      /\ y.waiters = r.waiters /\ y.got = r.got /\ y.live = r.live /\ y.closed = r.closed
  BY DEF ReservedSet, Registry
<1>3. y.reserved[s] = 0 /\ \A o \in Scopes : o # s => y.reserved[o] = r.reserved[o]
  BY DEF ReservedSet, Registry
<1> QED
  BY <1>1, <1>2, <1>3 DEF Unkept

\* A place may be given up.
LEMMA UnkeptCore ==
    ASSUME NEW r, NEW H, Core(r, H), SceneOk, NEW s \in Scopes, NEW y, Unkept(r, y, s)
    PROVE  /\ Core(y, H) /\ Unused(y) = Unused(r) /\ PlacesKept(r, y, Scopes \ {s})
           /\ Quiet(r) <=> Quiet(y)
           /\ Idle(r) <=> Idle(y)
           /\ Reserved(y) = Reserved(r) - r.reserved[s] /\ r.reserved[s] \in 0..1
           /\ Members(y) = Members(r) /\ Free(y) = Free(r)
<1>1. r \in Registry /\ H \in HoldingType /\ Pool(r) /\ One(r) /\ Once(r.members) /\ y \in Registry
  BY DEF Core, Typed, Unkept
<1>2. 1 \in Entries
  BY Constants
<1>3. Members(y) = Members(r) /\ y.entry = r.entry /\ y.live = r.live
  BY DEF Unkept, Members
<1>4. Shift(r, y, 1)
  BY <1>1, <1>3 DEF Shift, Unkept, Pool
<1>5. EntryOk(y, H, 1)
  <2>1. Handed(y, 1) = Handed(r, 1) /\ EntryOk(r, H, 1)
    BY <1>2, HandedSame DEF Unkept, Core
  <2> QED
    BY <1>3, <2>1 DEF EntryOk, Tallied, HeldByOne, Alive
<1>6. MemberOk(y, 1) /\ HolderOk(r, y, 1)
  BY <1>1, <1>3 DEF MemberOk, HolderOk, Pool
<1>7. ReservedOk(r, y)
  BY DEF ReservedOk, Unkept
<1>8. One(y)
  BY <1>1, <1>3 DEF One, Unkept
<1>9. Core(y, H)
  BY <1>1, <1>2, <1>4, <1>5, <1>6, <1>7, <1>8, CoreChange
<1>10. Unused(y) = Unused(r)
  BY <1>3 DEF Unused
<1>11. PlacesKept(r, y, Scopes \ {s})
  BY <1>3 DEF PlacesKept, HasPlace, Unkept
<1>12. (Quiet(r) <=> Quiet(y)) /\ (Idle(r) <=> Idle(y))
  BY <1>3 DEF Quiet, Idle, Ticks, Unkept
<1>13. Reserved(y) = Reserved(r) - r.reserved[s] + y.reserved[s] /\ r.reserved[s] \in 0..1
  <2>1. \A o \in Scopes : o # s => y.reserved[o] = r.reserved[o]
    BY DEF Unkept
  <2> QED
    BY <1>1, <2>1, ReservedChange
<1>14. Reserved(y) = Reserved(r) - r.reserved[s]
  <2>1. Reserved(r) \in Nat /\ y.reserved[s] = 0
    BY <1>1, Sizes DEF Unkept
  <2> QED
    BY <1>13, <2>1
<1>15. Free(y) = Free(r)
  BY <1>3 DEF Free
<1> QED
  BY <1>3, <1>9, <1>10, <1>11, <1>12, <1>13, <1>14, <1>15

\* Nobody has a place kept for the scope, and it went to whoever waits.
Unreserved(r, x, H, s) ==
    /\ Core(x, H) /\ Settled(x) /\ PlacesKept(r, x, Scopes \ {s})
    /\ scene.max > 0 /\ Within(r) => Within(x)
    /\ (Quiet(r) => Quiet(x)) /\ (Idle(r) => Idle(x)) /\ Onward(r, x)
    /\ x.closed = r.closed /\ Waiting(x) \subseteq Waiting(r)
    /\ \A p \in Steps : IF p \in Waiting(r) /\ p \notin Waiting(x)
                        THEN x.got[p] # None /\ HasPlace(x, ScopeOf[p])
                        ELSE x.got[p] = r.got[p]
    /\ x.reserved[s] = 0 /\ \A o \in Scopes \ {s} : x.reserved[o] = r.reserved[o]

\* unreserve: the place goes to whoever waits.
LEMMA UnreserveIs ==
    ASSUME NEW r, NEW H, Core(r, H), SceneOk, scene.exclusive, Stocked(r), NEW s \in Scopes,
           NEW y, Unkept(r, y, s)
    PROVE  Unreserved(r, Serve(y), H, s)
<1> DEFINE x == Serve(y)
<1>1. /\ Core(y, H) /\ Unused(y) = Unused(r) /\ PlacesKept(r, y, Scopes \ {s})
      /\ Quiet(r) <=> Quiet(y)
      /\ Idle(r) <=> Idle(y)
      /\ Reserved(y) = Reserved(r) - r.reserved[s] /\ r.reserved[s] \in 0..1
  BY UnkeptCore
<1>2. Stocked(y)
  BY <1>1 DEF Stocked, Unkept
<1>3. /\ Core(x, H) /\ Advances(y, x) /\ Settled(x)
      /\ scene.max > 0 /\ Within(y) => Within(x)
  BY <1>1, <1>2, ServeIs
<1> HIDE DEF x
<1>4. scene.max > 0 /\ Within(r) => Within(y)
  <2>1. r \in Registry
    BY DEF Core, Typed
  <2>2. Reserved(r) \in Nat /\ Len(r.members) \in Nat /\ scene.max \in Nat
    BY <2>1, Sizes DEF SceneOk, SceneType
  <2> QED
    BY <1>1, <2>2 DEF Within, Unkept
<1>5. PlacesKept(r, x, Scopes \ {s})
  BY <1>1, <1>3, EveryPlaceKept DEF PlacesKept
<1>6. Onward(r, x)
  BY <1>1, <1>3 DEF Onward, Advances, GoesOn, Unkept
<1>7. Waiting(y) = Waiting(r) /\ y.got = r.got /\ y.closed = r.closed
  BY DEF Unkept, Waiting
<1>8. x.reserved = y.reserved /\ x.closed = y.closed /\ Waiting(x) \subseteq Waiting(y)
      /\ (Quiet(y) => Quiet(x)) /\ (Idle(y) => Idle(x))
  BY <1>3 DEF Advances
<1>9. \A p \in Steps : IF p \in Waiting(r) /\ p \notin Waiting(x)
                        THEN x.got[p] # None /\ HasPlace(x, ScopeOf[p])
                        ELSE x.got[p] = r.got[p]
  BY <1>3, <1>7 DEF Advances
<1>10. x.reserved[s] = 0 /\ \A o \in Scopes \ {s} : x.reserved[o] = r.reserved[o]
  BY <1>8 DEF Unkept
<1> QED
  BY <1>1, <1>3, <1>4, <1>5, <1>6, <1>7, <1>8, <1>9, <1>10 DEF x, Unreserved

-----------------------------------------------------------------------------
\* What a claim counts toward: the pool's warmest, or a new member.
With(r, job) == IF Warmest(r, job) = None THEN Member(r) ELSE r
Which(r, job) == IF Warmest(r, job) = None THEN Head(Member(r).members) ELSE Warmest(r, job)

\* A scope is counted there.
CountsAt(y, x, job, s) == x = Count(With(y, job), Which(y, job), s)

\* A job has its turn, at a machine that is counted for it.
Turned(r, y, x, H, s, e) ==
    /\ Core(x, More(H, s, e)) /\ Taken(r, x) /\ e \in Entries
    /\ Settled(r) => Settled(x)
    /\ scene.max > 0 /\ Within(r) => Within(x)
    /\ HasPlace(x, s)
    /\ x.reserved = y.reserved

\* A job's turn: its machine is the pool's warmest, or a new one.
LEMMA TurnIs ==
    ASSUME NEW r, NEW H, Core(r, H), SceneOk, scene.exclusive, NEW s \in Scopes, s \in Jobs, Unused(r) # {},
           \A f \in Members(r) : r.entry[f].holder # s, \A p \in Waiting(r) : ScopeOf[p] # s,
           NEW y0, Unkept(r, y0, s),
           r.reserved[s] > 0 \/ r.waiters = <<>>,
           Warmest(y0, TRUE) # None \/ r.reserved[s] > 0 \/ Room(y0),
           NEW x, CountsAt(y0, x, TRUE, s)
    PROVE  Turned(r, y0, x, H, s, Which(y0, TRUE))
<1> DEFINE free == Warmest(y0, TRUE)
           y == IF free = None THEN Member(y0) ELSE y0
           e == IF free = None THEN Head(y.members) ELSE free
<1>25. y = With(y0, TRUE) /\ e = Which(y0, TRUE)
  BY DEF With, Which
<1>26. x = Count(y, e, s)
  BY <1>25 DEF CountsAt
<1>1. /\ Core(y0, H) /\ Unused(y0) = Unused(r) /\ PlacesKept(r, y0, Scopes \ {s})
      /\ Quiet(r) <=> Quiet(y0)
      /\ Idle(r) <=> Idle(y0)
      /\ Reserved(y0) = Reserved(r) - r.reserved[s] /\ r.reserved[s] \in 0..1
      /\ Members(y0) = Members(r) /\ Free(y0) = Free(r)
  BY UnkeptCore
<1>2. /\ y0 \in Registry /\ y0.members \in Seq(Entries) /\ r \in Registry /\ Members(r) \subseteq Entries
  BY <1>1, Parts DEF Core, Typed
<1>3. /\ Core(Member(y0), H) /\ Advances(y0, Member(y0))
      /\ FreshEntry(y0) \in Unused(y0) /\ Head(Member(y0).members) = FreshEntry(y0)
      /\ Members(Member(y0)) = Members(y0) \cup {FreshEntry(y0)}
      /\ Member(y0).entry[FreshEntry(y0)] = NewEntry
      /\ \A f \in Entries : f # FreshEntry(y0) => Member(y0).entry[f] = y0.entry[f]
      /\ Len(Member(y0).members) = Len(y0.members) + 1
      /\ Member(y0).waiters = y0.waiters
  BY <1>1, Joins
<1>4. Taken(y0, Member(y0))
  BY <1>1, JoinsTaken
<1>5. /\ free = None => Free(y0) = {}
      /\ free # None => free \in Free(y0)
  BY <1>2, WarmestIs DEF Members, Fits, Free
<1>6. free # None \/ r.reserved[s] > 0 \/ Room(y0)
  OBVIOUS
<1> HIDE DEF free
<1>7. IsJob(s)
  BY Constants DEF IsJob
<1>8. /\ y0.reserved[s] = 0 /\ y0.waiters = r.waiters /\ y0.entry = r.entry /\ y0.closed = r.closed
      /\ y0.live = r.live /\ y0.got = r.got /\ y0.members = r.members
  BY DEF Unkept
<1>9. /\ Core(y, H) /\ e \in Entries /\ e \in Members(y) /\ y.entry[e].jobs = 0
      /\ y.reserved = y0.reserved /\ y.waiters = r.waiters /\ y.closed = r.closed
      /\ Suits(y, e, s)
      /\ free = None => /\ Taken(y0, y) /\ Len(y.members) = Len(r.members) + 1
                        /\ Members(y) = Members(r) \cup {e} /\ e \notin Members(r)
                        /\ \A f \in Members(r) : y.entry[f] = r.entry[f]
      /\ free # None => y = y0 /\ e \in Free(r)
  <2>1. CASE free = None
    <3>1. y = Member(y0) /\ e = FreshEntry(y0) /\ e \in Entries
      BY <1>3, <2>1 DEF Unused
    <3> HIDE DEF y, e
    <3>2. /\ Core(y, H) /\ e \in Members(y) /\ y.entry[e] = NewEntry /\ y.waiters = r.waiters /\ y.reserved = y0.reserved
          /\ y.closed = r.closed /\ Len(y.members) = Len(r.members) + 1
          /\ Members(y) = Members(r) \cup {e} /\ \A f \in Entries : f # e => y.entry[f] = r.entry[f]
      BY <1>1, <1>3, <1>8, <3>1 DEF Advances
    <3>3. e \notin Members(r)
      BY <1>1, <1>3, <3>1, UnusedIsFree
    <3>4. \A f \in Members(r) : y.entry[f] = r.entry[f]
      BY <1>2, <3>2, <3>3
    <3>5. y.entry[e].jobs = 0 /\ y.entry[e].holder = Nobody /\ s # Nobody
      BY <3>2, NewEntryIs, Constants
    <3>6. Suits(y, e, s)
      BY <1>8, <3>2, <3>4, <3>5 DEF Suits, Waiting
    <3> QED
      BY <1>4, <2>1, <3>1, <3>2, <3>3, <3>4, <3>5, <3>6
  <2>2. CASE free # None
    <3>1. y = y0 /\ e = free
      BY <2>2
    <3> HIDE DEF y, e
    <3>2. e \in Free(r) /\ e \in Members(r) /\ r.entry[e].jobs = 0
      BY <1>1, <1>5, <2>2, <3>1 DEF Free
    <3>3. Suits(y, e, s)
      BY <1>1, <1>8, <3>1, <3>2 DEF Suits, Waiting
    <3> QED
      BY <1>1, <1>2, <1>8, <2>2, <3>1, <3>2, <3>3
  <2> QED
    BY <2>1, <2>2
<1>10. y \in Registry
  BY <1>9 DEF Core, Typed
<1>11. Counted(y, x, e, s)
  BY <1>9, <1>10, <1>26, CountedIs
<1> HIDE DEF y, e
<1>12. e \in y.live /\ y.entry[e].gone = "no"
  BY <1>9 DEF Core, Pool
<1>13. Core(x, More(H, s, e))
  BY <1>9, <1>11, <1>12, CountCore
<1>14. /\ Taken(y, x) /\ \A f \in Entries : GoesOn(y, x, f)
       /\ Members(x) = Members(y) /\ Reserved(x) = Reserved(y)
  BY <1>9, <1>11, <1>12, CountTaken
<1>15. x \in Registry
  BY <1>13 DEF Core, Typed
<1>16. Taken(y0, x)
  <2>1. CASE free = None
    BY <1>2, <1>9, <1>10, <1>14, <1>15, <2>1, TakenOn
  <2>2. CASE free # None
    BY <1>9, <1>14, <2>2
  <2> QED
    BY <2>1, <2>2
<1>17. HasPlace(x, s)
  BY <1>7, <1>9, <1>11, <1>14 DEF HasPlace, Counted
<1>18. Taken(r, x)
  <2>1. Onward(r, x)
    BY <1>1, <1>8, <1>16 DEF Taken, Onward, GoesOn
  <2>2. PlacesKept(r, x, Scopes)
    BY <1>1, <1>16, <1>17 DEF PlacesKept, Taken
  <2> QED
    BY <1>1, <1>8, <1>16, <2>1, <2>2 DEF Taken
<1>19. /\ Len(r.members) \in Nat /\ Reserved(r) \in Nat /\ scene.max \in Nat /\ IsFiniteSet(Free(r)) /\ Cardinality(Free(r)) \in Nat
  <2>1. IsFiniteSet(Free(r))
    BY <1>2, Constants, FS_Subset DEF Free
  <2> QED
    BY <1>2, <2>1, Sizes, FS_CardinalityType DEF SceneOk, SceneType
<1>20. Reserved(x) = Reserved(r) - r.reserved[s] /\ x.members = y.members /\ x.waiters = r.waiters /\ x.closed = r.closed
  <2>1. Reserved(y) = Reserved(y0)
    BY <1>9 DEF Reserved
  <2> QED
    BY <1>1, <1>9, <1>11, <1>14, <2>1 DEF Counted
<1>21. x.entry[e].jobs # 0
  <2>1. y.entry[e].jobs = 0 /\ x.entry[e].jobs = y.entry[e].jobs + 1
    BY <1>7, <1>9, <1>11 DEF Counted
  <2> QED
    BY <2>1
<1>22. scene.max > 0 /\ Within(r) => Within(x)
  <2>1. CASE free = None
    <3>1. Len(x.members) = Len(r.members) + 1
      BY <1>9, <1>20, <2>1
    <3>2. CASE r.reserved[s] > 0
      BY <1>1, <1>19, <1>20, <3>1, <3>2 DEF Within
    <3>3. CASE ~(r.reserved[s] > 0)
      <4>1. Room(y0) /\ r.reserved[s] = 0
        BY <1>1, <1>6, <2>1, <3>3
      <4>2. scene.max > 0 => Len(r.members) + Reserved(r) < scene.max
        BY <1>1, <1>8, <1>19, <4>1 DEF Room
      <4> QED
        BY <1>19, <1>20, <3>1, <4>1, <4>2 DEF Within
    <3> QED
      BY <3>2, <3>3
  <2>2. CASE free # None
    <3>1. Len(x.members) = Len(r.members)
      BY <1>8, <1>9, <1>20, <2>2
    <3> QED
      BY <1>1, <1>19, <1>20, <3>1 DEF Within
  <2> QED
    BY <2>1, <2>2
<1>23. ASSUME Settled(r) PROVE Settled(x)
  <2> SUFFICES ASSUME x.waiters # <<>>, ~x.closed
               PROVE  /\ scene.max > 0 /\ Len(x.members) - Cardinality(Free(x)) + Reserved(x) >= scene.max
                      /\ Cardinality(Free(x)) <= Reserved(x)
    BY DEF Settled
  <2>1. r.reserved[s] = 1 /\ Reserved(x) = Reserved(r) - 1
    BY <1>1, <1>19, <1>20
  <2>2. /\ scene.max > 0 /\ Len(r.members) - Cardinality(Free(r)) + Reserved(r) >= scene.max
        /\ Cardinality(Free(r)) <= Reserved(r)
    BY <1>20, <1>23 DEF Settled
  <2>3. \A f \in Entries \ {e} : x.entry[f] = y.entry[f]
    BY <1>11 DEF Counted
  <2>4. CASE free = None
    <3>1. Free(r) = {}
      BY <1>1, <1>5, <2>4
    <3>2. Free(x) = {}
      <4> SUFFICES ASSUME NEW f \in Free(x) PROVE FALSE
        OBVIOUS
      <4>1. f \in Members(x) /\ x.entry[f].jobs = 0 /\ x.entry[f].lease # "failed"
        BY DEF Free
      <4>2. f # e
        BY <1>21, <4>1
      <4>3. f \in Members(r) /\ f \in Entries
        BY <1>2, <1>9, <1>14, <2>4, <4>1, <4>2
      <4>4. x.entry[f] = r.entry[f]
        BY <1>9, <2>3, <2>4, <4>2, <4>3
      <4> QED
        BY <3>1, <4>1, <4>3, <4>4 DEF Free
    <3>3. Cardinality(Free(x)) = 0 /\ Cardinality(Free(r)) = 0
      BY <3>1, <3>2, FS_EmptySet
    <3>4. Len(x.members) = Len(r.members) + 1
      BY <1>9, <1>20, <2>4
    <3>5. Reserved(r) >= 1
      <4>1. r.reserved[s] <= Reserved(r)
        BY <1>2, ReservedChange
      <4> QED
        BY <1>19, <2>1, <4>1
    <3> QED
      BY <1>19, <2>1, <2>2, <3>3, <3>4, <3>5
  <2>5. CASE free # None
    <3>1. y = y0 /\ e \in Free(r)
      BY <1>9, <2>5
    <3>2. Free(x) = Free(r) \ {e}
      <4>1. Members(x) = Members(r)
        BY <1>1, <1>14, <3>1
      <4>2. \A f \in Members(r) : f # e => x.entry[f] = r.entry[f]
        BY <1>2, <1>8, <2>3, <3>1
      <4>3. e \notin Free(x)
        BY <1>21 DEF Free
      <4>4. \A f : f \in Free(x) <=> f \in Free(r) /\ f # e
        BY <4>1, <4>2, <4>3 DEF Free
      <4> QED
        BY <4>4
    <3>3. Cardinality(Free(x)) = Cardinality(Free(r)) - 1
      <4>1. Cardinality(Free(r) \ {e}) = Cardinality(Free(r)) - 1
        BY <1>19, <3>1, FS_RemoveElement
      <4> QED
        BY <3>2, <4>1
    <3>4. Len(x.members) = Len(r.members)
      BY <1>8, <1>20, <3>1
    <3> QED
      BY <1>19, <2>1, <2>2, <3>3, <3>4
  <2> QED
    BY <2>4, <2>5
<1>24. x.reserved = y0.reserved
  BY <1>9, <1>11 DEF Counted
<1> QED
  BY <1>9, <1>13, <1>17, <1>18, <1>22, <1>23, <1>24, <1>25 DEF Turned

-----------------------------------------------------------------------------
(* What those outside the registry notice.                                 *)

\* What nobody outside the registry notices: who is in line, who has a place,
\* and which machines are dead.
Calm(r, x, S) ==
    /\ \A p \in Steps : InLine(x, p) <=> InLine(r, p)
    /\ \A p \in Steps : x.got[p] # None => r.got[p] # None \/ HasPlace(x, ScopeOf[p])
    /\ PlacesKept(r, x, S)
    /\ \A f \in Entries : r.entry[f].refs > 0 /\ r.entry[f].retired => x.entry[f].retired

\* No machine is acquired or given back, and what is owed stays owed.
Steady(r, x) ==
    \A f \in Entries :
        /\ r.entry[f].refs > 0 /\ f \in r.live /\ r.entry[f].lease = "acquiring" =>
              f \in x.live /\ x.entry[f].lease = "acquiring"
        /\ f \in x.live /\ x.entry[f].lease = "acquired" =>
              f \in r.live /\ r.entry[f].lease = "acquired"
        /\ f \in r.live /\ r.entry[f].owes /\ Kept(r, f) =>
              f \in x.live /\ x.entry[f].owes /\ Kept(x, f)

\* One entry that goes on, or is new.
LEMMA OneSteady ==
    ASSUME NEW r \in Registry, NEW x \in Registry, NEW f \in Entries,
           IF f \in Unused(r) THEN f \in x.live => x.entry[f].lease = "none" ELSE GoesOn(r, x, f)
    PROVE  /\ r.entry[f].refs > 0 /\ f \in r.live /\ r.entry[f].lease = "acquiring" =>
                 f \in x.live /\ x.entry[f].lease = "acquiring"
           /\ f \in x.live /\ x.entry[f].lease = "acquired" =>
                 f \in r.live /\ r.entry[f].lease = "acquired"
           /\ f \in r.live /\ r.entry[f].owes /\ Kept(r, f) =>
                 f \in x.live /\ x.entry[f].owes /\ Kept(x, f)
           /\ r.entry[f].refs > 0 /\ r.entry[f].retired => x.entry[f].retired
<1>1. r.entry[f].refs \in Nat /\ x.entry[f].refs \in Nat
  BY Parts
<1>2. CASE f \in Unused(r)
  BY <1>1, <1>2 DEF Unused
<1>3. CASE f \notin Unused(r)
  <2>1. GoesOn(r, x, f)
    BY <1>3
  <2> QED
    BY <1>1, <2>1 DEF GoesOn, Kept
<1> QED
  BY <1>2, <1>3

\* A change of one entry, with waiters served, is calm and steady.
LEMMA MovesCalm ==
    ASSUME NEW r \in Registry, NEW x \in Registry, NEW e \in Entries, NEW S, Moves(r, x, e),
           PlacesKept(r, x, S), e \in r.live /\ Kept(r, e) => Kept(x, e)
    PROVE  Calm(r, x, S) /\ Steady(r, x)
<1>1. ASSUME NEW f \in Entries
      PROVE  /\ r.entry[f].refs > 0 /\ f \in r.live /\ r.entry[f].lease = "acquiring" =>
                   f \in x.live /\ x.entry[f].lease = "acquiring"
             /\ f \in x.live /\ x.entry[f].lease = "acquired" =>
                   f \in r.live /\ r.entry[f].lease = "acquired"
             /\ f \in r.live /\ r.entry[f].owes /\ Kept(r, f) =>
                   f \in x.live /\ x.entry[f].owes /\ Kept(x, f)
             /\ r.entry[f].refs > 0 /\ r.entry[f].retired => x.entry[f].retired
  <2>1. CASE f = e
    BY <2>1 DEF Moves
  <2>2. CASE f # e
    <3>1. IF f \in Unused(r) THEN f \in x.live => x.entry[f].lease = "none" ELSE GoesOn(r, x, f)
      BY <2>2 DEF Moves
    <3> QED
      BY <3>1, OneSteady
  <2> QED
    BY <2>1, <2>2
<1>2. ASSUME NEW p \in Steps
      PROVE  /\ InLine(x, p) <=> InLine(r, p)
             /\ x.got[p] # None => r.got[p] # None \/ HasPlace(x, ScopeOf[p])
  <2>1. /\ Waiting(x) \subseteq Waiting(r)
        /\ IF p \in Waiting(r) /\ p \notin Waiting(x)
           THEN x.got[p] # None /\ HasPlace(x, ScopeOf[p])
           ELSE x.got[p] = r.got[p]
    BY DEF Moves
  <2> QED
    BY <2>1 DEF InLine
<1> QED
  BY <1>1, <1>2 DEF Calm, Steady

\* A claim is calm and steady.
LEMMA TakenCalm ==
    ASSUME NEW r \in Registry, NEW x \in Registry, Taken(r, x)
    PROVE  Calm(r, x, Scopes) /\ Steady(r, x) /\ x.closed = r.closed
<1>1. ASSUME NEW f \in Entries
      PROVE  /\ r.entry[f].refs > 0 /\ f \in r.live /\ r.entry[f].lease = "acquiring" =>
                   f \in x.live /\ x.entry[f].lease = "acquiring"
             /\ f \in x.live /\ x.entry[f].lease = "acquired" =>
                   f \in r.live /\ r.entry[f].lease = "acquired"
             /\ f \in r.live /\ r.entry[f].owes /\ Kept(r, f) =>
                   f \in x.live /\ x.entry[f].owes /\ Kept(x, f)
             /\ r.entry[f].refs > 0 /\ r.entry[f].retired => x.entry[f].retired
  <2>1. IF f \in Unused(r) THEN f \in x.live => x.entry[f].lease = "none" ELSE GoesOn(r, x, f)
    BY DEF Taken, Onward
  <2> QED
    BY <2>1, OneSteady
<1>2. \A p \in Steps : (InLine(x, p) <=> InLine(r, p)) /\ x.got[p] = r.got[p]
  BY DEF Taken, InLine, Waiting
<1>3. PlacesKept(r, x, Scopes) /\ x.closed = r.closed
  BY DEF Taken
<1> QED
  BY <1>1, <1>2, <1>3 DEF Calm, Steady

-----------------------------------------------------------------------------
\* A step joins the queue.
Queued(r, x, p) ==
    /\ x \in Registry
    /\ x.members = r.members /\ x.current = r.current /\ x.entry = r.entry
    /\ x.reserved = r.reserved /\ x.got = r.got /\ x.live = r.live /\ x.closed = r.closed
    /\ x.waiters = Append(r.waiters, p)

\* A job that has no place may join the queue, when there is no room.
LEMMA EnqueueIs ==
    ASSUME NEW r, NEW H, Core(r, H), SceneOk, scene.exclusive, NEW p \in Steps, ScopeOf[p] \in Jobs,
           \A q \in Steps : InLine(r, q) => ScopeOf[q] # ScopeOf[p],
           r.reserved[ScopeOf[p]] = 0, \A f \in Members(r) : r.entry[f].holder # ScopeOf[p],
           Settled(r), r.waiters = <<>> => Warmest(r, TRUE) = None /\ ~Room(r),
           NEW x, Queued(r, x, p)
    PROVE  /\ Core(x, H) /\ Settled(x) /\ (Within(r) => Within(x))
           /\ (Quiet(r) => Quiet(x)) /\ (Idle(r) => Idle(x))
           /\ \A q \in Steps : InLine(x, q) <=> InLine(r, q) \/ q = p
           /\ \A s \in Scopes : HasPlace(x, s) <=> HasPlace(r, s)
<1>1. /\ r \in Registry /\ H \in HoldingType /\ Queue(r) /\ Pool(r) /\ One(r) /\ Once(r.members) /\ Once(r.waiters)
      /\ x \in Registry
  BY DEF Core, Typed, Queued
<1>2. ~InLine(r, p)
  OBVIOUS
<1>3. /\ Members(x) = Members(r) /\ x.entry = r.entry /\ x.live = r.live /\ x.got = r.got
      /\ x.reserved = r.reserved /\ x.closed = r.closed /\ x.current = r.current /\ x.members = r.members
  BY DEF Queued, Members
<1>4. Once(x.waiters) /\ Waiting(x) = Waiting(r) \cup {p} /\ x.waiters # <<>>
  <2>1. r.waiters \in Seq(Steps) /\ p \notin ToSet(r.waiters)
    BY <1>1, <1>2, Parts DEF InLine, Waiting
  <2> QED
    BY <1>1, <2>1, PutLast DEF Queued, Waiting
<1>5. \A q \in Steps : InLine(x, q) <=> InLine(r, q) \/ q = p
  BY <1>3, <1>4 DEF InLine
<1>6. \A e \in Entries : EntryOk(x, H, e)
  <2> SUFFICES ASSUME NEW e \in Entries PROVE EntryOk(x, H, e)
    OBVIOUS
  <2>1. Handed(x, e) = Handed(r, e) /\ EntryOk(r, H, e)
    BY <1>3, HandedSame DEF Core
  <2> QED
    BY <1>3, <2>1 DEF EntryOk, Tallied, HeldByOne, Alive
<1>7. Queue(x)
  <2>1. r.got[p] = None
    BY <1>2 DEF InLine
  <2>2. \A q \in Waiting(x) : /\ x.got[q] = None /\ x.reserved[ScopeOf[q]] = 0
                              /\ \A e \in Members(x) : x.entry[e].holder # ScopeOf[q]
    BY <1>1, <1>3, <1>4, <2>1 DEF Queue
  <2>3. \A q \in Steps : InLine(x, q) => ScopeOf[q] \in Jobs
    BY <1>1, <1>5 DEF Queue
  <2>4. \A o, q \in Steps : InLine(x, o) /\ InLine(x, q) /\ ScopeOf[o] = ScopeOf[q] => o = q
    BY <1>1, <1>5 DEF Queue
  <2> QED
    BY <2>2, <2>3, <2>4 DEF Queue
<1>8. Pool(x) /\ One(x)
  BY <1>1, <1>3 DEF Pool, One
<1>9. Core(x, H)
  BY <1>1, <1>3, <1>4, <1>6, <1>7, <1>8 DEF Core, Typed
<1>10. Free(x) = Free(r) /\ Reserved(x) = Reserved(r)
  BY <1>3 DEF Free, Reserved
<1>11. Settled(x)
  <2>1. CASE r.waiters # <<>>
    BY <1>3, <1>10, <2>1 DEF Settled
  <2>2. CASE r.waiters = <<>>
    <3>1. Warmest(r, TRUE) = None /\ ~Room(r) /\ r.members \in Seq(Entries)
      BY <1>1, <2>2, Parts
    <3>2. Free(r) = {}
      BY <3>1, WarmestIs DEF Free, Fits, Members
    <3>3. Cardinality(Free(r)) = 0
      BY <3>2, FS_EmptySet
    <3>4. Reserved(r) \in Nat /\ Len(r.members) \in Nat /\ scene.max \in Nat
      BY <1>1, Sizes DEF SceneOk, SceneType
    <3>5. scene.max > 0 /\ Len(r.members) + Reserved(r) >= scene.max
      BY <3>1, <3>4 DEF Room
    <3> QED
      BY <1>3, <1>10, <3>3, <3>4, <3>5 DEF Settled
  <2> QED
    BY <2>1, <2>2
<1>12. (Within(r) => Within(x)) /\ (Quiet(r) => Quiet(x)) /\ (Idle(r) => Idle(x))
  BY <1>3, <1>10 DEF Within, Quiet, Idle, Ticks
<1>13. \A s \in Scopes : HasPlace(x, s) <=> HasPlace(r, s)
  BY <1>3 DEF HasPlace
<1> QED
  BY <1>5, <1>9, <1>11, <1>12, <1>13

-----------------------------------------------------------------------------
(* The queue, give-backs and Close.                                        *)

\* A step is not in line any more; a machine it was handed is its scope's.
Unlined(r, x, p) ==
    /\ x \in Registry
    /\ x.members = r.members /\ x.current = r.current /\ x.entry = r.entry
    /\ x.reserved = r.reserved /\ x.live = r.live /\ x.closed = r.closed
    /\ Once(x.waiters) /\ Waiting(x) = Waiting(r) \ {p} /\ GotSet(r, x, p, None)

Gained(r, H, p) == IF r.got[p] = None THEN H ELSE More(H, ScopeOf[p], r.got[p])

\* A step may leave the line; what it was handed becomes its scope's.
LEMMA UnlinedCore ==
    ASSUME NEW r, NEW H, Core(r, H), SceneOk, NEW p \in Steps, NEW x, Unlined(r, x, p)
    PROVE  /\ Core(x, Gained(r, H, p)) /\ (Settled(r) => Settled(x)) /\ (Within(r) => Within(x))
           /\ (Quiet(r) => Quiet(x)) /\ (Idle(r) => Idle(x))
           /\ ~InLine(x, p) /\ \A q \in Steps \ {p} : (InLine(x, q) <=> InLine(r, q)) /\ x.got[q] = r.got[q]
           /\ \A s \in Scopes : HasPlace(x, s) <=> HasPlace(r, s)
<1>1. /\ r \in Registry /\ H \in HoldingType /\ Queue(r) /\ Pool(r) /\ One(r) /\ Once(r.members) /\ Once(r.waiters)
      /\ x \in Registry
  BY DEF Core, Typed, Unlined
<1>2. r.got \in [Steps -> Entries \cup {None}] /\ r.waiters \in Seq(Steps) /\ x.waiters \in Seq(Steps)
  BY <1>1, Parts
<1>3. /\ Members(x) = Members(r) /\ x.entry = r.entry /\ x.live = r.live
      /\ x.reserved = r.reserved /\ x.closed = r.closed /\ x.current = r.current /\ x.members = r.members
      /\ Waiting(x) = Waiting(r) \ {p} /\ Once(x.waiters)
  BY DEF Unlined, Members
<1>4. x.got[p] = None /\ \A q \in Steps \ {p} : x.got[q] = r.got[q]
  BY <1>2 DEF Unlined, GotSet
<1>5. ~InLine(x, p) /\ \A q \in Steps \ {p} : InLine(x, q) <=> InLine(r, q)
  BY <1>3, <1>4 DEF InLine
<1> DEFINE s == ScopeOf[p]
           G == Gained(r, H, p)
<1>6. s \in Scopes /\ None \notin Entries
  BY Constants
<1>7. GotSet(r, x, p, None)
  BY DEF Unlined
<1>8. G \in HoldingType /\ \A f \in Entries : EntryOk(x, G, f)
  <2>1. CASE r.got[p] = None
    <3>1. G = H
      BY <2>1 DEF Gained
    <3>2. \A q \in Steps : x.got[q] = r.got[q]
      BY <1>4, <2>1
    <3>3. \A f : Handed(x, f) = Handed(r, f)
      BY <3>2 DEF Handed
    <3> HIDE DEF G
    <3>4. ASSUME NEW f \in Entries PROVE EntryOk(x, G, f)
      <4>1. EntryOk(r, H, f)
        BY DEF Core
      <4> QED
        BY <1>3, <3>1, <3>3, <4>1 DEF EntryOk, Tallied, HeldByOne, Alive
    <3> QED
      BY <1>1, <3>1, <3>4
  <2>2. CASE r.got[p] # None
    <3> DEFINE e == r.got[p]
    <3>1. e \in Entries /\ G = More(H, s, e)
      BY <1>2, <2>2 DEF Gained
    <3>2. r.got[p] = e
      OBVIOUS
    <3>8. e \in Entries
      BY <3>1
    <3>9. r.got \in [Steps -> Entries \cup {None}]
      BY <1>2
    <3> HIDE DEF e, G
    <3>3. /\ Handed(x, e) = Handed(r, e) \ {p}
          /\ Cardinality(Handed(x, e)) = Cardinality(Handed(r, e)) - 1
          /\ \A f \in Entries : f # e => Handed(x, f) = Handed(r, f)
      BY <1>7, <3>2, <3>8, <3>9, HandedBack
    <3>4. /\ G \in HoldingType
          /\ \A o \in Scopes : \A f \in Entries : G[o][f] = IF o = s /\ f = e THEN H[o][f] + 1 ELSE H[o][f]
          /\ \A f \in Entries :
                /\ Total(G, f) = IF f = e THEN Total(H, f) + 1 ELSE Total(H, f)
                /\ JobTotal(G, f) = IF f = e /\ s \in Jobs THEN JobTotal(H, f) + 1 ELSE JobTotal(H, f)
      BY <1>1, <1>6, <3>1, MoreHeld
    <3>5. s \in Jobs
      BY <1>1, <2>2 DEF Queue, InLine
    <3>6. p \in Handed(r, e)
      BY <3>2 DEF Handed
    <3>7. ASSUME NEW f \in Entries PROVE EntryOk(x, G, f)
      <4>1. EntryOk(r, H, f) /\ x.entry[f] = r.entry[f]
        BY <1>3 DEF Core
      <4>2. Tallied(x, G, f)
        <5>1. /\ Total(H, f) \in Nat /\ JobTotal(H, f) \in Nat /\ Cardinality(Handed(r, f)) \in Nat
          BY <1>1, TotalType, HandedType
        <5>2. Tallied(r, H, f)
          BY <4>1 DEF EntryOk
        <5>3. CASE f = e
          <6>1. Total(G, f) = Total(H, f) + 1 /\ JobTotal(G, f) = JobTotal(H, f) + 1
            BY <3>4, <3>5, <5>3
          <6>2. Cardinality(Handed(x, f)) = Cardinality(Handed(r, f)) - 1
            BY <3>3, <5>3
          <6> QED
            BY <4>1, <5>1, <5>2, <6>1, <6>2 DEF Tallied
        <5>4. CASE f # e
          BY <3>3, <3>4, <4>1, <5>2, <5>4 DEF Tallied
        <5> QED
          BY <5>3, <5>4
      <4>3. HeldByOne(x, G, f)
        <5>1. HeldByOne(r, H, f)
          BY <4>1 DEF EntryOk
        <5>2. Handed(x, f) \subseteq Handed(r, f)
          BY <3>3
        <5>3. ASSUME scene.exclusive, NEW o \in Jobs, G[o][f] > 0 PROVE x.entry[f].holder = o
          <6>1. o \in Scopes
            BY DEF Jobs
          <6>2. CASE o = s /\ f = e
            BY <3>6, <4>1, <5>1, <6>2 DEF HeldByOne
          <6>3. CASE ~(o = s /\ f = e)
            <7>1. H[o][f] > 0
              BY <3>4, <5>3, <6>1, <6>3
            <7> QED
              BY <4>1, <5>1, <5>3, <7>1 DEF HeldByOne
          <6> QED
            BY <6>2, <6>3
        <5> QED
          BY <4>1, <5>1, <5>2, <5>3 DEF HeldByOne
      <4>4. Alive(x, f)
        BY <1>3, <4>1 DEF EntryOk, Alive
      <4> QED
        BY <4>2, <4>3, <4>4 DEF EntryOk
    <3> QED
      BY <3>4, <3>7
  <2> QED
    BY <2>1, <2>2
<1> HIDE DEF G
<1>9. Queue(x)
  <2>1. \A q \in Waiting(x) : q \in Waiting(r) /\ q # p /\ q \in Steps
    BY <1>1, <1>3, Parts
  <2>2. \A q \in Waiting(x) : /\ x.got[q] = None /\ x.reserved[ScopeOf[q]] = 0
                              /\ \A f \in Members(x) : x.entry[f].holder # ScopeOf[q]
    BY <1>1, <1>3, <1>4, <2>1 DEF Queue
  <2>3. \A q \in Steps : InLine(x, q) => InLine(r, q)
    BY <1>5
  <2> QED
    BY <1>1, <2>2, <2>3 DEF Queue
<1>10. Pool(x)
  <2>1. ~scene.exclusive => x.waiters = <<>> /\ \A q \in Steps : x.got[q] = None
    <3>1. ~scene.exclusive => r.waiters = <<>> /\ \A q \in Steps : r.got[q] = None
      BY <1>1 DEF Pool
    <3>2. r.waiters = <<>> => Waiting(r) = {}
      BY <1>2, SetOf DEF Waiting
    <3>3. Waiting(x) = {} => x.waiters = <<>>
      BY <1>2, SetOf DEF Waiting
    <3> QED
      BY <1>3, <1>4, <3>1, <3>2, <3>3
  <2> QED
    BY <1>1, <1>3, <2>1 DEF Pool
<1>11. One(x)
  BY <1>1, <1>3 DEF One
<1>12. Core(x, G)
  BY <1>1, <1>3, <1>8, <1>9, <1>10, <1>11 DEF Core, Typed
<1>13. Free(x) = Free(r) /\ Reserved(x) = Reserved(r)
  BY <1>3 DEF Free, Reserved
<1>14. Settled(r) => Settled(x)
  <2>1. x.waiters # <<>> => r.waiters # <<>>
    <3>1. r.waiters = <<>> => Waiting(r) = {}
      BY <1>2, SetOf DEF Waiting
    <3>2. Waiting(x) = {} => x.waiters = <<>>
      BY <1>2, SetOf DEF Waiting
    <3> QED
      BY <1>3, <3>1, <3>2
  <2> QED
    BY <1>3, <1>13, <2>1 DEF Settled
<1>15. (Within(r) => Within(x)) /\ (Quiet(r) => Quiet(x)) /\ (Idle(r) => Idle(x))
  BY <1>3, <1>13 DEF Within, Quiet, Idle, Ticks
<1>16. \A o \in Scopes : HasPlace(x, o) <=> HasPlace(r, o)
  BY <1>3 DEF HasPlace
<1> QED
  BY <1>4, <1>5, <1>12, <1>14, <1>15, <1>16 DEF G

-----------------------------------------------------------------------------
\* giveBack: the entry is nowhere to be found any more.
Returned(r, x, e) ==
    /\ x \in Registry
    /\ x.members = r.members /\ x.reserved = r.reserved /\ x.waiters = r.waiters /\ x.got = r.got
    /\ x.closed = r.closed /\ x.live = r.live \ {e}
    /\ x.current = IF r.current = e THEN None ELSE r.current
    /\ \A f \in Entries \ {e} : x.entry[f] = r.entry[f]
    /\ x.entry[e].refs = r.entry[e].refs /\ x.entry[e].jobs = r.entry[e].jobs
    /\ x.entry[e].holder = r.entry[e].holder /\ x.entry[e].retired = r.entry[e].retired
    /\ x.entry[e].timer = r.entry[e].timer /\ x.entry[e].gone = "yes"

\* An entry on its way out may be given back.
LEMMA ReturnedCore ==
    ASSUME NEW r, NEW H, Core(r, H), SceneOk, NEW e \in Entries, r.entry[e].gone = "going",
           NEW x, Returned(r, x, e)
    PROVE  /\ Core(x, H) /\ (Settled(r) => Settled(x)) /\ (Within(r) => Within(x))
           /\ (Quiet(r) => Quiet(x)) /\ (Idle(r) => Idle(x))
           /\ Calm(r, x, Scopes) /\ x.reserved = r.reserved /\ x.closed = r.closed
<1>1. /\ r \in Registry /\ H \in HoldingType /\ EntryOk(r, H, e) /\ Pool(r) /\ One(r) /\ Once(r.members)
      /\ x \in Registry
  BY DEF Core, Typed, Returned
<1>2. /\ Members(x) = Members(r) /\ x.members = r.members /\ x.reserved = r.reserved /\ x.waiters = r.waiters
      /\ x.got = r.got /\ x.closed = r.closed /\ x.live = r.live \ {e}
      /\ Members(r) \subseteq Entries
  BY <1>1, Parts DEF Returned, Members
<1>3. e \notin Members(r)
  BY <1>1 DEF Pool
<1>4. \A f \in Entries \ {e} : x.entry[f] = r.entry[f]
  BY DEF Returned
<1>5. r.current \in Entries \cup {None} /\ None \notin Entries
  BY <1>1, Parts, Constants
<1>6. Shift(r, x, e)
  BY <1>1, <1>2, <1>4 DEF Shift, Returned, Pool
<1>7. EntryOk(x, H, e)
  <2>1. Handed(x, e) = Handed(r, e)
    BY <1>2, HandedSame
  <2>2. Tallied(x, H, e) /\ HeldByOne(x, H, e)
    BY <1>1, <2>1 DEF EntryOk, Tallied, HeldByOne, Returned
  <2>3. Alive(x, e)
    BY <1>1, <1>2 DEF EntryOk, Alive, Returned
  <2> QED
    BY <2>2, <2>3 DEF EntryOk
<1>8. MemberOk(x, e) /\ HolderOk(r, x, e) /\ ReservedOk(r, x)
  BY <1>2, <1>3 DEF MemberOk, HolderOk, ReservedOk, Returned
<1>9. One(x)
  <2>1. x.current # None => x.current = r.current /\ x.current # e /\ x.current \in Entries
    BY <1>5 DEF Returned
  <2>2. x.current # None => x.current \in x.live /\ (~Parked => x.entry[x.current].gone = "no" /\ ~x.entry[x.current].retired)
    BY <1>1, <1>2, <1>4, <2>1 DEF One
  <2>3. Parked => x.live \subseteq {x.current}
    <3>1. Parked => r.live \subseteq {r.current}
      BY <1>1 DEF One
    <3>2. r.current # e => x.current = r.current
      BY DEF Returned
    <3> QED
      BY <1>2, <3>1, <3>2
  <2> QED
    BY <2>2, <2>3 DEF One
<1>10. Core(x, H)
  BY <1>1, <1>6, <1>7, <1>8, <1>9, CoreChange
<1>11. \A f \in Members(r) : x.entry[f] = r.entry[f]
  BY <1>2, <1>3, <1>4
<1>12. Free(x) = Free(r) /\ Reserved(x) = Reserved(r)
  BY <1>2, <1>11 DEF Free, Reserved
<1>13. (Settled(r) => Settled(x)) /\ (Within(r) => Within(x))
  BY <1>2, <1>12 DEF Settled, Within
<1>14. Quiet(r) => Quiet(x)
  BY <1>4 DEF Quiet, Returned
<1>15. ASSUME Idle(r), NEW f \in Entries PROVE Ticks(x, f)
  <2>1. CASE f = e
    <3>1. r.entry[e].timer = "none"
      BY <1>15 DEF Idle, Ticks
    <3> QED
      BY <2>1, <3>1 DEF Ticks, Returned
  <2>2. CASE f # e
    <3>1. Ticks(r, f) /\ x.entry[f] = r.entry[f] /\ (f \in x.live <=> f \in r.live)
          /\ (r.current = f => x.current = f)
      BY <1>2, <1>4, <1>15, <2>2 DEF Idle, Returned
    <3> QED
      BY <1>2, <3>1 DEF Ticks
  <2> QED
    BY <2>1, <2>2
<1>16. PlacesKept(r, x, Scopes)
  BY <1>2, <1>11 DEF PlacesKept, HasPlace
<1>17. Calm(r, x, Scopes)
  <2>1. \A f \in Entries : r.entry[f].retired => x.entry[f].retired
    BY <1>4 DEF Returned
  <2>2. \A p \in Steps : (InLine(x, p) <=> InLine(r, p)) /\ x.got[p] = r.got[p]
    BY <1>2 DEF InLine, Waiting
  <2> QED
    BY <1>16, <2>1, <2>2 DEF Calm
<1> QED
  BY <1>2, <1>10, <1>13, <1>14, <1>15, <1>17 DEF Idle

\* takeOut of each of some entries.
OutAll(r, x, es) ==
    /\ x \in Registry /\ Once(x.members) /\ Members(x) = (IF Parked THEN Members(r) ELSE Members(r) \ es)
    /\ Len(x.members) <= Len(r.members)
    /\ x.current = IF Parked \/ r.current \notin es THEN r.current ELSE None
    /\ x.reserved = r.reserved /\ x.waiters = r.waiters /\ x.got = r.got /\ x.live = r.live
    /\ \A f \in Entries \ es : x.entry[f] = r.entry[f]
    /\ \A f \in es : /\ x.entry[f].refs = r.entry[f].refs /\ x.entry[f].jobs = r.entry[f].jobs
                     /\ x.entry[f].holder = r.entry[f].holder /\ x.entry[f].retired = r.entry[f].retired
                     /\ x.entry[f].lease = r.entry[f].lease /\ x.entry[f].owes = r.entry[f].owes
                     /\ x.entry[f].gone = "going" /\ x.entry[f].timer = "none"

\* Several entries may go at once, if the registry is closed or nobody holds them.
LEMMA OutAllCore ==
    ASSUME NEW r, NEW H, Core(r, H), SceneOk, NEW es \in SUBSET Entries, es \subseteq r.live,
           \A f \in es : r.entry[f].gone = "no",
           \A f \in Entries \ es : r.entry[f].timer = "none",
           NEW x, OutAll(r, x, es)
    PROVE  /\ Core(x, H) /\ (Within(r) => Within(x)) /\ (Idle(r) => Idle(x)) /\ Steady(r, x)
           /\ Calm(r, x, {})
           /\ (\A f \in es : r.entry[f].refs = 0) => (Quiet(r) => Quiet(x)) /\ Calm(r, x, Scopes)
<1>1. /\ r \in Registry /\ H \in HoldingType /\ Queue(r) /\ Pool(r) /\ One(r) /\ Once(r.members) /\ Once(r.waiters)
      /\ x \in Registry
  BY DEF Core, Typed, OutAll
<1>2. /\ x.reserved = r.reserved /\ x.waiters = r.waiters /\ x.got = r.got /\ x.live = r.live
      /\ Once(x.members) /\ Waiting(x) = Waiting(r) /\ Len(x.members) <= Len(r.members)
  BY DEF OutAll, Waiting
<1>3. /\ \A f \in Entries \ es : x.entry[f] = r.entry[f]
      /\ \A f \in es : x.entry[f].gone = "going" /\ x.entry[f].timer = "none"
      /\ \A f \in Entries : /\ x.entry[f].refs = r.entry[f].refs /\ x.entry[f].jobs = r.entry[f].jobs
                            /\ x.entry[f].holder = r.entry[f].holder /\ x.entry[f].retired = r.entry[f].retired
                            /\ x.entry[f].lease = r.entry[f].lease /\ x.entry[f].owes = r.entry[f].owes
  BY DEF OutAll
<1>4. /\ Members(r) \subseteq Entries /\ r.members \in Seq(Entries) /\ x.members \in Seq(Entries)
      /\ r.current \in Entries \cup {None} /\ None \notin Entries
  BY <1>1, Parts, Constants
<1>5. Members(x) = Members(r) \ es
  <2>1. CASE Parked
    <3>1. ~scene.exclusive
      BY <2>1 DEF SceneOk, Parked
    <3>2. r.members = <<>>
      BY <1>1, <3>1 DEF Pool
    <3>3. Members(r) = {}
      BY <1>4, <3>2, SetOf DEF Members
    <3> QED
      BY <2>1, <3>3 DEF OutAll
  <2>2. CASE ~Parked
    BY <2>2 DEF OutAll
  <2> QED
    BY <2>1, <2>2
<1>6. ASSUME NEW f \in Entries PROVE EntryOk(x, H, f)
  <2>1. Handed(x, f) = Handed(r, f) /\ EntryOk(r, H, f)
    BY <1>2, HandedSame DEF Core
  <2>2. Tallied(x, H, f)
    BY <1>3, <2>1 DEF EntryOk, Tallied
  <2>3. HeldByOne(x, H, f)
    BY <1>3, <2>1 DEF EntryOk, HeldByOne
  <2>4. Alive(x, f)
    <3>1. CASE f \in es
      BY <1>2, <1>3, <2>1, <3>1 DEF EntryOk, Alive
    <3>2. CASE f \notin es
      BY <1>2, <1>3, <2>1, <3>2 DEF EntryOk, Alive
    <3> QED
      BY <3>1, <3>2
  <2> QED
    BY <2>2, <2>3, <2>4 DEF EntryOk
<1>7. \A p : InLine(x, p) <=> InLine(r, p)
  BY <1>2 DEF InLine
<1>8. Queue(x)
  BY <1>1, <1>2, <1>3, <1>4, <1>5, <1>7 DEF Queue
<1>9. Pool(x)
  <2>1. scene.exclusive => x.current = None
    BY <1>1 DEF Pool, OutAll
  <2>2. ~scene.exclusive => x.members = <<>>
    <3>1. ~scene.exclusive => r.members = <<>>
      BY <1>1 DEF Pool
    <3>2. r.members = <<>> => Members(r) = {}
      BY <1>4, SetOf DEF Members
    <3>3. Members(x) = {} => x.members = <<>>
      BY <1>4, SetOf DEF Members
    <3> QED
      BY <1>5, <3>1, <3>2, <3>3
  <2>3. \A f \in Members(x) : f \in x.live /\ x.entry[f].gone = "no" /\ ~x.entry[f].retired
    BY <1>1, <1>2, <1>3, <1>4, <1>5 DEF Pool
  <2>4. \A e, f \in Members(x) : x.entry[e].holder = x.entry[f].holder /\ x.entry[e].holder # Nobody => e = f
    BY <1>1, <1>3, <1>4, <1>5 DEF Pool
  <2>5. \A s \in Scopes : x.reserved[s] > 0 => s \in Jobs /\ \A e \in Members(x) : x.entry[e].holder # s
    BY <1>1, <1>2, <1>3, <1>4, <1>5 DEF Pool
  <2>6. ~scene.exclusive => x.waiters = <<>> /\ (\A p \in Steps : x.got[p] = None) /\ \A s \in Scopes : x.reserved[s] = 0
    BY <1>1, <1>2 DEF Pool
  <2> QED
    BY <2>1, <2>2, <2>3, <2>4, <2>5, <2>6 DEF Pool
<1>10. One(x)
  <2>1. CASE Parked
    BY <1>1, <1>2, <2>1 DEF One, OutAll
  <2>2. CASE ~Parked
    <3>1. x.current # None => x.current = r.current /\ r.current \notin es /\ r.current \in Entries
      BY <1>4, <2>2 DEF OutAll
    <3> QED
      BY <1>1, <1>2, <1>3, <2>2, <3>1 DEF One
  <2> QED
    BY <2>1, <2>2
<1>11. Core(x, H)
  BY <1>1, <1>2, <1>6, <1>8, <1>9, <1>10 DEF Core, Typed
<1>12. Within(r) => Within(x)
  <2>1. Len(r.members) \in Nat /\ Len(x.members) \in Nat /\ Reserved(r) \in Nat /\ Reserved(x) = Reserved(r)
        /\ scene.max \in Nat
    BY <1>1, <1>2, Sizes DEF Reserved, SceneOk, SceneType
  <2> QED
    BY <1>2, <2>1 DEF Within
<1>13. ASSUME Idle(r), NEW f \in Entries PROVE Ticks(x, f)
  <2>1. CASE f \in es
    BY <1>3, <2>1 DEF Ticks
  <2>2. CASE f \notin es
    <3>1. x.entry[f] = r.entry[f] /\ r.entry[f].timer = "none" /\ Ticks(r, f)
      BY <1>3, <1>13, <2>2 DEF Idle
    <3>2. (f \in Members(r) => f \in Members(x)) /\ (r.current = f => x.current = f)
      BY <1>5, <2>2 DEF OutAll
    <3> QED
      BY <1>2, <3>1, <3>2 DEF Ticks
  <2> QED
    BY <2>1, <2>2
<1>14. ASSUME NEW f \in Entries, Kept(r, f) PROVE Kept(x, f)
  <2>1. CASE f \in es
    BY <1>3, <2>1 DEF Kept
  <2>2. CASE f \notin es
    BY <1>3, <1>14, <2>2 DEF Kept
  <2> QED
    BY <2>1, <2>2
<1>15. Steady(r, x)
  BY <1>2, <1>3, <1>14 DEF Steady
<1>16. /\ \A f \in Entries : r.entry[f].retired => x.entry[f].retired
       /\ \A p \in Steps : (InLine(x, p) <=> InLine(r, p)) /\ x.got[p] = r.got[p]
  BY <1>2, <1>3, <1>7
<1>17. Calm(r, x, {})
  BY <1>16 DEF Calm, PlacesKept
<1>18. ASSUME \A f \in es : r.entry[f].refs = 0
       PROVE  (Quiet(r) => Quiet(x)) /\ Calm(r, x, Scopes)
  <2>1. Quiet(r) => Quiet(x)
    BY <1>3, <1>18 DEF Quiet
  <2>2. ASSUME NEW s \in Scopes, HasPlace(r, s) PROVE HasPlace(x, s)
    <3>1. CASE r.reserved[s] > 0
      BY <1>2, <3>1 DEF HasPlace
    <3>2. CASE ~(r.reserved[s] > 0)
      <4>1. PICK f \in Members(r) : r.entry[f].holder = s
        BY <2>2, <3>2 DEF HasPlace
      <4>2. f \in Entries /\ s # Nobody
        BY <1>4, Constants
      <4>3. r.entry[f].refs > 0
        BY <4>1, <4>2, HolderIs
      <4>4. f \in Members(x)
        BY <1>5, <1>18, <4>3
      <4> QED
        BY <1>3, <4>1, <4>2, <4>4 DEF HasPlace
    <3> QED
      BY <3>1, <3>2
  <2> QED
    BY <1>16, <2>1, <2>2 DEF Calm, PlacesKept
<1> QED
  BY <1>11, <1>12, <1>13, <1>15, <1>17, <1>18 DEF Idle

-----------------------------------------------------------------------------
\* The registry's expressions, by what they change.
\* An entry on its way out, by nobody in particular.
Sent(n) == [n EXCEPT !.gone = "going", !.by = Nobody]

\* takeOut of each, entry by entry.
LEMMA TakeOutAllIs ==
    ASSUME NEW r \in Registry, Once(r.members), NEW es \in SUBSET Entries, NEW x, x = TakeOutAll(r, es)
    PROVE  /\ x \in Registry /\ Once(x.members) /\ Members(x) = (IF Parked THEN Members(r) ELSE Members(r) \ es)
           /\ Len(x.members) <= Len(r.members)
           /\ x.current = IF Parked \/ r.current \notin es THEN r.current ELSE None
           /\ x.reserved = r.reserved /\ x.waiters = r.waiters /\ x.got = r.got /\ x.live = r.live
           /\ x.closed = r.closed
           /\ \A f \in Entries : x.entry[f] = IF f \notin es THEN r.entry[f]
                                              ELSE Sent(r.entry[f])
<1> DEFINE en == [f \in Entries |-> IF f \notin es THEN r.entry[f]
                                    ELSE Sent(r.entry[f])]
           q == IF Parked THEN r.members ELSE Without(r.members, es)
           c == IF Parked \/ r.current \notin es THEN r.current ELSE None
<1>1. x = [r EXCEPT !.entry = en, !.members = q, !.current = c]
  BY DEF TakeOutAll, Sent
<1>2. en \in [Entries -> EntryType]
  <2> SUFFICES ASSUME NEW f \in Entries PROVE en[f] \in EntryType
    OBVIOUS
  <2>1. r.entry[f] \in EntryType
    BY Parts
  <2> QED
    BY <2>1 DEF EntryType, Sent
<1>3. q \in Seq(Entries) /\ Once(q) /\ ToSet(q) = (IF Parked THEN Members(r) ELSE Members(r) \ es)
  <2>1. r.members \in Seq(Entries)
    BY Parts
  <2> QED
    BY <2>1, TakeAway DEF Members
<1>4. Len(q) <= Len(r.members)
  <2>1. /\ r.members \in Seq(Entries) /\ Cardinality(ToSet(q)) = Len(q)
        /\ Cardinality(ToSet(r.members)) = Len(r.members) /\ IsFiniteSet(ToSet(r.members))
    BY <1>3, Parts, LenIsCardinality
  <2>2. ToSet(q) \subseteq ToSet(r.members)
    BY <1>3 DEF Members
  <2>3. Cardinality(ToSet(q)) <= Cardinality(ToSet(r.members))
    BY <2>1, <2>2, FS_Subset
  <2> QED
    BY <2>1, <2>3
<1>5. c \in Entries \cup {None}
  BY Parts
<1>6. \A f \in Entries : en[f] = IF f \notin es THEN r.entry[f]
                                 ELSE Sent(r.entry[f])
  OBVIOUS
<1>7. c = IF Parked \/ r.current \notin es THEN r.current ELSE None
  OBVIOUS
<1> HIDE DEF en, q, c
<1>8. x \in Registry /\ x.entry = en /\ x.members = q /\ x.current = c
  BY <1>1, <1>2, <1>3, <1>5 DEF Registry
<1>9. /\ x.reserved = r.reserved /\ x.waiters = r.waiters /\ x.got = r.got /\ x.live = r.live
      /\ x.closed = r.closed
  BY <1>1 DEF Registry
<1> QED
  BY <1>3, <1>4, <1>6, <1>7, <1>8, <1>9 DEF Members

\* giveBackHeld: everything alive is on its way out.
LEMMA ForcedOut ==
    ASSUME NEW r \in Registry, Once(r.members), NEW es \in SUBSET Entries, NEW x, x = TakeOutAll(r, es),
           \A f \in es : r.entry[f].timer = "none"
    PROVE  OutAll(r, x, es) /\ x.closed = r.closed
<1>1. /\ x \in Registry /\ Once(x.members) /\ Members(x) = (IF Parked THEN Members(r) ELSE Members(r) \ es)
      /\ Len(x.members) <= Len(r.members)
      /\ x.current = IF Parked \/ r.current \notin es THEN r.current ELSE None
      /\ x.reserved = r.reserved /\ x.waiters = r.waiters /\ x.got = r.got /\ x.live = r.live
      /\ x.closed = r.closed
      /\ \A f \in Entries : x.entry[f] = IF f \notin es THEN r.entry[f]
                                         ELSE Sent(r.entry[f])
  BY TakeOutAllIs
<1>2. ASSUME NEW f \in es
      PROVE  /\ x.entry[f].refs = r.entry[f].refs /\ x.entry[f].jobs = r.entry[f].jobs
             /\ x.entry[f].holder = r.entry[f].holder /\ x.entry[f].retired = r.entry[f].retired
             /\ x.entry[f].lease = r.entry[f].lease /\ x.entry[f].owes = r.entry[f].owes
             /\ x.entry[f].gone = "going" /\ x.entry[f].timer = "none"
  <2>1. x.entry[f] = Sent(r.entry[f]) /\ r.entry[f] \in EntryType
    BY <1>1, Parts
  <2>2. r.entry[f].timer = "none"
    OBVIOUS
  <2> QED
    BY <2>1, <2>2 DEF EntryType, Sent
<1>3. \A f \in Entries \ es : x.entry[f] = r.entry[f]
  BY <1>1
<1> QED
  BY <1>1, <1>2, <1>3 DEF OutAll

\* Close, of a registry whose idle timers it stops.
Stopped(n) == [n EXCEPT !.stale = n.stale \/ n.timer = "fired", !.timer = "none"]
Shut(r, y, es) ==
    y = [r EXCEPT !.closed = TRUE,
                  !.entry = [f \in Entries |-> IF f \notin es THEN r.entry[f] ELSE Stopped(r.entry[f])]]

\* Close's own changes keep what the registry promises.
LEMMA ShutIs ==
    ASSUME NEW r \in Registry, NEW es \in SUBSET Entries, NEW y, Shut(r, y, es)
    PROVE  /\ y \in Registry /\ y.members = r.members /\ y.current = r.current
           /\ y.reserved = r.reserved /\ y.waiters = r.waiters /\ y.got = r.got /\ y.live = r.live
           /\ y.closed
           /\ \A f \in Entries \ es : y.entry[f] = r.entry[f]
           /\ \A f \in es : /\ y.entry[f].refs = r.entry[f].refs /\ y.entry[f].jobs = r.entry[f].jobs
                            /\ y.entry[f].holder = r.entry[f].holder /\ y.entry[f].retired = r.entry[f].retired
                            /\ y.entry[f].lease = r.entry[f].lease /\ y.entry[f].owes = r.entry[f].owes
                            /\ y.entry[f].timer = "none"
<1> DEFINE en == [f \in Entries |-> IF f \notin es THEN r.entry[f] ELSE Stopped(r.entry[f])]
<1>1. ASSUME NEW f \in Entries
      PROVE  /\ Stopped(r.entry[f]) \in EntryType
             /\ Stopped(r.entry[f]).refs = r.entry[f].refs /\ Stopped(r.entry[f]).jobs = r.entry[f].jobs
             /\ Stopped(r.entry[f]).holder = r.entry[f].holder
             /\ Stopped(r.entry[f]).retired = r.entry[f].retired
             /\ Stopped(r.entry[f]).lease = r.entry[f].lease /\ Stopped(r.entry[f]).owes = r.entry[f].owes
             /\ Stopped(r.entry[f]).timer = "none"
  <2>1. r.entry[f] \in EntryType
    BY Parts
  <2>2. (r.entry[f].stale \/ r.entry[f].timer = "fired") \in BOOLEAN
    OBVIOUS
  <2> QED
    BY <2>1, <2>2 DEF EntryType, Stopped
<1>2. en \in [Entries -> EntryType]
  <2>1. \A f \in Entries : r.entry[f] \in EntryType /\ Stopped(r.entry[f]) \in EntryType
    BY <1>1, Parts
  <2> QED
    BY <2>1
<1>3. \A f \in Entries : en[f] = IF f \notin es THEN r.entry[f] ELSE Stopped(r.entry[f])
  OBVIOUS
<1>4. y = [r EXCEPT !.closed = TRUE, !.entry = en]
  BY DEF Shut
<1> HIDE DEF en
<1>5. y \in Registry /\ y.entry = en /\ y.closed
  BY <1>2, <1>4 DEF Registry
<1>6. /\ y.members = r.members /\ y.current = r.current
      /\ y.reserved = r.reserved /\ y.waiters = r.waiters /\ y.got = r.got /\ y.live = r.live
  BY <1>4 DEF Registry
<1>7. \A f \in Entries \ es : y.entry[f] = r.entry[f]
  BY <1>3, <1>5
<1>8. \A f \in es : y.entry[f] = Stopped(r.entry[f])
  BY <1>3, <1>5
<1> QED
  BY <1>1, <1>5, <1>6, <1>7, <1>8

\* Close: what is idle is on its way out.
LEMMA ClosedOut ==
    ASSUME NEW r \in Registry, Once(r.members), NEW es \in SUBSET Entries, NEW y, Shut(r, y, es),
           NEW x, x = TakeOutAll(y, es)
    PROVE  OutAll(r, x, es) /\ x.closed
<1>1. /\ y \in Registry /\ y.members = r.members /\ y.current = r.current
      /\ y.reserved = r.reserved /\ y.waiters = r.waiters /\ y.got = r.got /\ y.live = r.live
      /\ y.closed
      /\ \A f \in Entries \ es : y.entry[f] = r.entry[f]
      /\ \A f \in es : /\ y.entry[f].refs = r.entry[f].refs /\ y.entry[f].jobs = r.entry[f].jobs
                       /\ y.entry[f].holder = r.entry[f].holder /\ y.entry[f].retired = r.entry[f].retired
                       /\ y.entry[f].lease = r.entry[f].lease /\ y.entry[f].owes = r.entry[f].owes
                       /\ y.entry[f].timer = "none"
  BY ShutIs
<1>2. Once(y.members) /\ Members(y) = Members(r)
  BY <1>1 DEF Members
<1>3. OutAll(y, x, es) /\ x.closed = y.closed
  BY <1>1, <1>2, ForcedOut
<1> QED
  BY <1>1, <1>2, <1>3 DEF OutAll
=============================================================================
