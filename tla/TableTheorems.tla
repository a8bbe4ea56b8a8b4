---------------------------- MODULE TableTheorems ---------------------------
(***************************************************************************)
(* How the total of a column follows a change of it at one place or two, what *)
(* the total of the sizes of sets counts, and the largest of a finite set of  *)
(* numbers.                                                                   *)
(***************************************************************************)
EXTENDS Tables, Integers, FiniteSetTheorems, TLAPS

(* A finite union of finite sets of units is finite. *)
LEMMA UnitsFinite ==
    ASSUME NEW S, IsFiniteSet(S), NEW f, \A x \in S : f[x] \in Nat
    PROVE  IsFiniteSet(UNION {{x} \X (1 .. f[x]) : x \in S})
<1> DEFINE u == [x \in S |-> {x} \X (1 .. f[x])]
           T == {{x} \X (1 .. f[x]) : x \in S}
<1>1. u \in Surjection(S, T)
  BY DEF Surjection
<1>2. IsFiniteSet(T)
  BY <1>1, FS_Surjection
<1>3. ASSUME NEW U \in T PROVE IsFiniteSet(U)
  <2>1. PICK x \in S : U = {x} \X (1 .. f[x])
    OBVIOUS
  <2>2. IsFiniteSet({x})
    BY FS_Singleton
  <2>3. f[x] \in Int /\ 1 \in Int
    OBVIOUS
  <2>4. IsFiniteSet(1 .. f[x])
    BY <2>3, FS_Interval
  <2> QED
    BY <2>1, <2>2, <2>4, FS_Product
<1> HIDE DEF T
<1>4. IsFiniteSet(UNION T)
  BY <1>2, <1>3, FS_UNION
<1> QED
  BY <1>4 DEF T

(* TotalType: a total is a natural number. *)
LEMMA TotalType ==
    ASSUME NEW S, IsFiniteSet(S), NEW f \in [S -> Nat]
    PROVE  Total(f) \in Nat
<1>1. IsFiniteSet(Units(f))
  BY UnitsFinite DEF Units
<1> QED
  BY <1>1, FS_CardinalityType DEF Total

(* The units at one place and the rest. *)
LEMMA TotalSplit ==
    ASSUME NEW S, IsFiniteSet(S), NEW f \in [S -> Nat], NEW x \in S
    PROVE  LET R == UNION {{y} \X (1 .. f[y]) : y \in S \ {x}}
           IN  Cardinality(R) \in Nat /\ Total(f) = Cardinality(R) + f[x]
<1> DEFINE R == UNION {{y} \X (1 .. f[y]) : y \in S \ {x}}
           X == {x} \X (1 .. f[x])
<1>1. Units(f) = R \cup X
  BY DEF Units
<1>2. R \cap X = {}
  OBVIOUS
<1>3. IsFiniteSet(R)
  <2>1. IsFiniteSet(S \ {x})
    BY FS_RemoveElement
  <2> QED
    BY <2>1, UnitsFinite
<1>4. IsFiniteSet(X) /\ Cardinality(X) = f[x]
  <2>1. IsFiniteSet({x}) /\ Cardinality({x}) = 1
    BY FS_Singleton
  <2>2. IsFiniteSet(1 .. f[x]) /\ Cardinality(1 .. f[x]) = f[x]
    BY FS_Interval
  <2>3. IsFiniteSet(X) /\ Cardinality(X) = 1 * f[x]
    BY <2>1, <2>2, FS_Product
  <2> QED
    BY <2>3
<1>5. Cardinality(R) \in Nat
  BY <1>3, FS_CardinalityType
<1> HIDE DEF R, X
<1>6. Cardinality(R \cup X) = Cardinality(R) + Cardinality(X) - Cardinality(R \cap X)
  BY <1>3, <1>4, FS_Union
<1>7. Cardinality(R \cap X) = 0
  BY <1>2, FS_EmptySet
<1>8. Total(f) = Cardinality(R) + f[x]
  BY <1>1, <1>4, <1>5, <1>6, <1>7 DEF Total
<1> QED
  BY <1>5, <1>8 DEF R

(* TotalChange: a change at one place changes the total by as much. *)
LEMMA TotalChange ==
    ASSUME NEW S, IsFiniteSet(S), NEW f \in [S -> Nat], NEW g \in [S -> Nat], NEW x \in S,
           \A y \in S \ {x} : g[y] = f[y]
    PROVE  Total(g) = Total(f) + g[x] - f[x]
<1> DEFINE R(h) == UNION {{y} \X (1 .. h[y]) : y \in S \ {x}}
<1>1. R(f) = R(g)
  OBVIOUS
<1>2. Cardinality(R(f)) \in Nat /\ Total(f) = Cardinality(R(f)) + f[x]
  BY TotalSplit
<1>3. Total(g) = Cardinality(R(g)) + g[x]
  BY TotalSplit
<1> HIDE DEF R
<1> QED
  BY <1>1, <1>2, <1>3

(* TotalChangeTwice: ... and at two places, by both. *)
LEMMA TotalChangeTwice ==
    ASSUME NEW S, IsFiniteSet(S), NEW f \in [S -> Nat], NEW g \in [S -> Nat],
           NEW x \in S, NEW z \in S, x # z,
           \A y \in S \ {x, z} : g[y] = f[y]
    PROVE  Total(g) = Total(f) + (g[x] - f[x]) + (g[z] - f[z])
<1> DEFINE h == [f EXCEPT ![x] = g[x]]
<1>1. h \in [S -> Nat] /\ h[x] = g[x] /\ h[z] = f[z] /\ \A y \in S \ {x} : h[y] = f[y]
  OBVIOUS
<1>2. \A y \in S \ {z} : g[y] = h[y]
  OBVIOUS
<1> HIDE DEF h
<1>3. Total(h) = Total(f) + h[x] - f[x]
  BY <1>1, TotalChange
<1>4. Total(g) = Total(h) + g[z] - h[z]
  BY <1>1, <1>2, TotalChange
<1>5. Total(f) \in Nat /\ Total(g) \in Nat /\ Total(h) \in Nat
  BY <1>1, TotalType
<1>6. f[x] \in Nat /\ f[z] \in Nat /\ g[x] \in Nat /\ g[z] \in Nat
  OBVIOUS
<1> QED
  BY <1>1, <1>3, <1>4, <1>5, <1>6

(* TotalMonotone: a column that is nowhere smaller has no smaller total.     *)
LEMMA TotalMonotone ==
    ASSUME NEW S, IsFiniteSet(S), NEW f \in [S -> Nat], NEW g \in [S -> Nat],
           \A x \in S : f[x] <= g[x]
    PROVE  Total(f) <= Total(g)
<1>1. IsFiniteSet(Units(g))
  BY UnitsFinite DEF Units
<1>2. Units(f) \in SUBSET Units(g)
  <2>1. \A x \in S : 1 .. f[x] \subseteq 1 .. g[x]
    OBVIOUS
  <2> QED
    BY <2>1 DEF Units
<1> QED
  BY <1>1, <1>2, FS_Subset DEF Total

(* TotalOfSizes: the sizes of disjoint sets add up to the size of their      *)
(* union.                                                                    *)
LEMMA TotalOfSizes ==
    ASSUME NEW S, IsFiniteSet(S), NEW M, \A x \in S : IsFiniteSet(M[x]),
           \A x, y \in S : x # y => M[x] \cap M[y] = {}
    PROVE  /\ IsFiniteSet(UNION {M[x] : x \in S})
           /\ Total([x \in S |-> Cardinality(M[x])]) = Cardinality(UNION {M[x] : x \in S})
<1> DEFINE U == UNION {M[x] : x \in S}
           f == [x \in S |-> Cardinality(M[x])]
           b == [x \in S |-> CHOOSE g : g \in Bijection(1 .. Cardinality(M[x]), M[x])]
           count == [u \in Units(f) |-> b[u[1]][u[2]]]
<1>1. ASSUME NEW x \in S PROVE f[x] \in Nat /\ b[x] \in Bijection(1 .. f[x], M[x])
  <2>1. f[x] = Cardinality(M[x]) /\ f[x] \in Nat
    BY FS_CardinalityType
  <2>2. IsFiniteSet(1 .. f[x]) /\ Cardinality(1 .. f[x]) = f[x]
    BY <2>1, FS_Interval
  <2>3. ExistsBijection(1 .. f[x], M[x])
    BY <2>1, <2>2, FS_SameCardinalityBij
  <2>4. PICK g : g \in Bijection(1 .. f[x], M[x])
    BY <2>3, Zenon DEF ExistsBijection
  <2> QED
    BY <2>1, <2>4, Zenon
<1> HIDE DEF b, f
<1>2. ASSUME NEW x \in S
      PROVE  /\ \A i \in 1 .. f[x] : b[x][i] \in M[x]
             /\ \A i, j \in 1 .. f[x] : b[x][i] = b[x][j] => i = j
             /\ \A m \in M[x] : \E i \in 1 .. f[x] : b[x][i] = m
  BY <1>1 DEF Bijection, Injection, Surjection, IsInjective
<1>3. DOMAIN f = S
  BY DEF f
<1>4. Units(f) = UNION {{x} \X (1 .. f[x]) : x \in S}
  BY <1>3 DEF Units
<1>5. \A u \in Units(f) : u = <<u[1], u[2]>> /\ u[1] \in S /\ u[2] \in 1 .. f[u[1]]
  BY <1>4
<1>6. \A x \in S : \A i \in 1 .. f[x] : <<x, i>> \in Units(f)
  BY <1>4
<1>7. IsFiniteSet(Units(f))
  BY <1>1, <1>4, UnitsFinite
<1>8. count \in Bijection(Units(f), U)
  <2>1. count \in [Units(f) -> U]
    BY <1>2, <1>5
  <2>2. ASSUME NEW u \in Units(f), NEW v \in Units(f), count[u] = count[v] PROVE u = v
    <3>1. b[u[1]][u[2]] \in M[u[1]] /\ b[v[1]][v[2]] \in M[v[1]]
      BY <1>2, <1>5
    <3>2. b[u[1]][u[2]] = b[v[1]][v[2]]
      BY <2>2
    <3>3. u[1] = v[1]
      BY <1>5, <3>1, <3>2
    <3>4. u[2] = v[2]
      BY <1>2, <1>5, <3>2, <3>3
    <3> QED
      BY <1>5, <3>3, <3>4, Zenon
  <2>3. ASSUME NEW m \in U PROVE \E u \in Units(f) : count[u] = m
    <3>1. PICK x \in S : m \in M[x]
      OBVIOUS
    <3>2. PICK i \in 1 .. f[x] : b[x][i] = m
      BY <1>2, <3>1
    <3>3. <<x, i>> \in Units(f) /\ count[<<x, i>>] = m
      BY <1>6, <3>2
    <3> QED
      BY <3>3
  <2> HIDE DEF count
  <2> QED
    BY <2>1, <2>2, <2>3 DEF Bijection, Injection, Surjection, IsInjective
<1>9. ExistsBijection(Units(f), U)
  BY <1>8, Zenon DEF ExistsBijection
<1> HIDE DEF U
<1>10. IsFiniteSet(U) /\ Cardinality(U) = Cardinality(Units(f))
  BY <1>7, <1>9, FS_Bijection
<1> QED
  BY <1>10, Zenon DEF Total, U, f

(* TotalZero: nothing adds up to nothing. *)
LEMMA TotalZero ==
    ASSUME NEW S, NEW f, f = [x \in S |-> 0]
    PROVE  Total(f) = 0
<1>1. Units(f) = {}
  BY DEF Units
<1> QED
  BY <1>1, FS_EmptySet DEF Total

(* LargestNumber: a finite set of numbers has a largest one: the one with     *)
(* the most numbers below it.                                                *)
LEMMA LargestNumber ==
    ASSUME NEW S, IsFiniteSet(S), S # {}, S \subseteq Nat
    PROVE  \E r \in S : \A q \in S : q <= r
<1> DEFINE n == Cardinality(S)
           below(r) == {q \in S : q < r}
           rank == [r \in S |-> Cardinality(below(r))]
<1>1. n \in Nat /\ n # 0
  BY FS_CardinalityType, FS_EmptySet
<1>2. ASSUME NEW r \in S
      PROVE  IsFiniteSet(below(r)) /\ rank[r] = Cardinality(below(r)) /\ rank[r] \in 0 .. n - 1
  <2>1. below(r) \in SUBSET S /\ below(r) # S
    OBVIOUS
  <2> HIDE DEF below
  <2>2. /\ IsFiniteSet(below(r)) /\ Cardinality(below(r)) <= n
        /\ n = Cardinality(below(r)) => S = below(r)
    BY <2>1, FS_Subset
  <2>3. Cardinality(below(r)) \in Nat
    BY <2>2, FS_CardinalityType
  <2>4. rank[r] = Cardinality(below(r))
    OBVIOUS
  <2> HIDE DEF rank, n
  <2> QED
    BY <1>1, <2>1, <2>2, <2>3, <2>4
<1>3. ASSUME NEW r \in S, NEW q \in S, r < q PROVE rank[r] < rank[q]
  <2>1. below(r) \in SUBSET below(q) /\ r \in below(q) /\ r \notin below(r)
    <3>1. \A k \in S : k \in Nat
      OBVIOUS
    <3> HIDE DEF rank, n
    <3>2. \A k \in S : k < r => k < q
      BY <1>3, <3>1
    <3>3. r < q /\ ~(r < r)
      BY <1>3, <3>1
    <3> QED
      BY <3>2, <3>3
  <2> HIDE DEF below, rank, n
  <2>2. /\ Cardinality(below(r)) <= Cardinality(below(q))
        /\ Cardinality(below(q)) = Cardinality(below(r)) => below(q) = below(r)
    BY <1>2, <2>1, FS_Subset
  <2> QED
    BY <1>1, <1>2, <2>1, <2>2
<1>4. rank \in Injection(S, 0 .. n - 1)
  <2>1. rank \in [S -> 0 .. n - 1]
    BY <1>2
  <2>2. ASSUME NEW r \in S, NEW q \in S, rank[r] = rank[q] PROVE r = q
    <3> HIDE DEF rank, n, below
    <3>1. rank[r] \in 0 .. n - 1 /\ r \in Nat /\ q \in Nat
      BY <1>2
    <3>2. ~(r < q)
      BY <1>1, <1>3, <2>2, <3>1
    <3>3. ~(q < r)
      BY <1>1, <1>3, <2>2, <3>1
    <3> QED
      BY <3>1, <3>2, <3>3
  <2> QED
    BY <2>1, <2>2 DEF Injection, IsInjective
<1> HIDE DEF rank, n
<1>5. IsFiniteSet(0 .. n - 1) /\ Cardinality(0 .. n - 1) = n
  <2>1. 0 \in Int /\ n - 1 \in Int
    BY <1>1
  <2>2. /\ IsFiniteSet(0 .. n - 1)
        /\ Cardinality(0 .. n - 1) = IF 0 > n - 1 THEN 0 ELSE n - 1 - 0 + 1
    BY <2>1, FS_Interval
  <2> QED
    BY <1>1, <2>2
<1>6. rank \in Surjection(S, 0 .. n - 1)
  <2>1. Cardinality(S) = Cardinality(0 .. n - 1)
    BY <1>5 DEF n
  <2> QED
    BY <1>4, <1>5, <2>1, FS_Injection
<1>7. PICK r \in S : rank[r] = n - 1
  BY <1>1, <1>6 DEF Surjection
<1>8. ASSUME NEW q \in S PROVE q <= r
  <2> HIDE DEF below
  <2>1. rank[q] \in 0 .. n - 1 /\ r \in Nat /\ q \in Nat
    BY <1>2
  <2>2. ~(r < q)
    BY <1>1, <1>3, <1>7, <2>1
  <2> QED
    BY <2>1, <2>2
<1> QED
  BY <1>8
=============================================================================
