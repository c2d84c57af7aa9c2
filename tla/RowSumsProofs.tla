---------------------------- MODULE RowSumsProofs ----------------------------
(***************************************************************************)
(* The laws of Total that the proofs about the tables rest on.             *)
(***************************************************************************)
EXTENDS RowSums, FiniteSetTheorems, TLAPS

(* The units of finitely many rows are finite, and their sum a number.     *)
LEMMA TotalType ==
  ASSUME NEW K, IsFiniteSet(K), NEW f, \A k \in K : f[k] \in Int
  PROVE  IsFiniteSet(Units(f, K)) /\ Total(f, K) \in Nat
<1> DEFINE piece == [k \in K |-> {k} \X (1 .. f[k])]
           pieces == {piece[k] : k \in K}
<1>1. piece \in Surjection(K, pieces)
  BY DEF Surjection
<1>2. IsFiniteSet(pieces)
  BY <1>1, FS_Surjection
<1>3. ASSUME NEW k \in K PROVE IsFiniteSet({k} \X (1 .. f[k]))
  <2>1. IsFiniteSet({k})
    BY FS_Singleton
  <2>2. IsFiniteSet(1 .. f[k])
    <3>1. f[k] \in Int
      OBVIOUS
    <3> QED BY <3>1, FS_Interval
  <2> QED BY <2>1, <2>2, FS_Product
<1>4. \A T \in pieces : IsFiniteSet(T)
  BY <1>3
<1>5. IsFiniteSet(UNION pieces)
  BY <1>2, <1>4, FS_UNION
<1>6. UNION pieces = Units(f, K)
  BY DEF Units
<1> QED BY <1>5, <1>6, FS_CardinalityType DEF Total

(* What a unit is: a row and a number up to the row's value.                *)
LEMMA UnitsMember ==
  ASSUME NEW K, NEW f, NEW u
  PROVE  u \in Units(f, K) <=> \E k \in K : \E n \in 1 .. f[k] : u = <<k, n>>
BY DEF Units

(* The sum over two disjoint sets of rows.                                  *)
LEMMA TotalSplit ==
  ASSUME NEW A, NEW B, IsFiniteSet(A), IsFiniteSet(B), A \cap B = {},
         NEW f, \A k \in A \cup B : f[k] \in Int
  PROVE  Total(f, A \cup B) = Total(f, A) + Total(f, B)
<1>1. Units(f, A \cup B) = Units(f, A) \cup Units(f, B)
  BY UnitsMember
<1>2. Units(f, A) \cap Units(f, B) = {}
  <2> SUFFICES ASSUME NEW u \in Units(f, A), u \in Units(f, B) PROVE FALSE
    OBVIOUS
  <2>1. PICK a \in A : \E n \in 1 .. f[a] : u = <<a, n>>
    BY UnitsMember
  <2>2. PICK b \in B : \E n \in 1 .. f[b] : u = <<b, n>>
    BY UnitsMember
  <2> QED BY <2>1, <2>2
<1>3. /\ IsFiniteSet(Units(f, A)) /\ Total(f, A) \in Nat
      /\ IsFiniteSet(Units(f, B)) /\ Total(f, B) \in Nat
  BY TotalType
<1>4. Cardinality(Units(f, A) \cup Units(f, B)) =
        Cardinality(Units(f, A)) + Cardinality(Units(f, B)) - Cardinality({})
  BY <1>2, <1>3, FS_Union
<1>5. Total(f, A \cup B) = Cardinality(Units(f, A) \cup Units(f, B))
  BY <1>1 DEF Total
<1>6. Cardinality({}) = 0
  BY FS_EmptySet
<1> QED BY <1>3, <1>4, <1>5, <1>6 DEF Total

(* The sum of one row.                                                      *)
LEMMA TotalOne ==
  ASSUME NEW k, NEW f, f[k] \in Int
  PROVE  Total(f, {k}) = IF f[k] > 0 THEN f[k] ELSE 0
<1>1. Units(f, {k}) = {k} \X (1 .. f[k])
  BY DEF Units
<1>2. IsFiniteSet({k}) /\ Cardinality({k}) = 1
  BY FS_Singleton
<1> DEFINE n == f[k]
<1>3. n \in Int
  OBVIOUS
<1>4. /\ IsFiniteSet(1 .. n)
      /\ Cardinality(1 .. n) = IF 1 > n THEN 0 ELSE n - 1 + 1
  <2> HIDE DEF n
  <2> QED BY <1>3, FS_Interval
<1>5. Cardinality({k} \X (1 .. n)) = Cardinality({k}) * Cardinality(1 .. n)
  <2> HIDE DEF n
  <2> QED BY <1>2, <1>4, FS_Product
<1>6. Total(f, {k}) = Cardinality({k} \X (1 .. n))
  BY <1>1 DEF Total
<1> HIDE DEF n
<1>7. Total(f, {k}) = IF n > 0 THEN n ELSE 0
  BY <1>2, <1>3, <1>4, <1>5, <1>6
<1> QED BY <1>7 DEF n

(* Rows of the same value have the same sum.                                *)
LEMMA TotalSame ==
  ASSUME NEW K, NEW f, NEW g, \A k \in K : f[k] = g[k]
  PROVE  Total(f, K) = Total(g, K)
<1>1. Units(f, K) = Units(g, K)
  BY DEF Units
<1> QED BY <1>1 DEF Total

(* Rows without units.                                                      *)
LEMMA TotalZero ==
  ASSUME NEW K, NEW f, \A k \in K : f[k] \in Int /\ f[k] <= 0
  PROVE  Total(f, K) = 0
<1>1. Units(f, K) = {}
  BY UnitsMember
<1> QED BY <1>1, FS_EmptySet DEF Total

(* One row taken out of a sum.                                              *)
LEMMA TotalWithout ==
  ASSUME NEW K, IsFiniteSet(K), NEW k \in K, NEW f, \A j \in K : f[j] \in Int
  PROVE  /\ Total(f, K \ {k}) \in Nat
         /\ Total(f, K) = Total(f, K \ {k}) + (IF f[k] > 0 THEN f[k] ELSE 0)
<1>1. IsFiniteSet(K \ {k}) /\ IsFiniteSet({k})
  BY FS_RemoveElement, FS_Singleton
<1>2. K = (K \ {k}) \cup {k} /\ (K \ {k}) \cap {k} = {}
  OBVIOUS
<1>3. Total(f, K) = Total(f, K \ {k}) + Total(f, {k})
  BY <1>1, <1>2, TotalSplit
<1>4. Total(f, K \ {k}) \in Nat
  BY <1>1, TotalType
<1> QED BY <1>3, <1>4, TotalOne

(* Rows g created next to the rows f: the sums add up.                      *)
LEMMA TotalCreated ==
  ASSUME NEW K, IsFiniteSet(K), NEW f, NEW g, NEW h,
         \A k \in K : /\ f[k] \in Int /\ g[k] \in Int
                      /\ g[k] > 0 => f[k] <= 0
                      /\ h[k] = IF g[k] > 0 THEN g[k] ELSE f[k]
  PROVE  Total(h, K) = Total(f, K) + Total(g, K)
<1>1. ASSUME NEW k \in K, NEW n
      PROVE  n \in 1 .. h[k] <=> n \in 1 .. f[k] \/ n \in 1 .. g[k]
  OBVIOUS
<1>2. Units(h, K) = Units(f, K) \cup Units(g, K)
  BY <1>1, UnitsMember
<1>3. Units(f, K) \cap Units(g, K) = {}
  <2> SUFFICES ASSUME NEW u \in Units(f, K), u \in Units(g, K) PROVE FALSE
    OBVIOUS
  <2>1. PICK a \in K : \E n \in 1 .. f[a] : u = <<a, n>>
    BY UnitsMember
  <2>2. PICK b \in K : \E n \in 1 .. g[b] : u = <<b, n>>
    BY UnitsMember
  <2>3. a = b
    BY <2>1, <2>2
  <2> QED BY <2>1, <2>2, <2>3
<1>4. /\ IsFiniteSet(Units(f, K)) /\ Total(f, K) \in Nat
      /\ IsFiniteSet(Units(g, K)) /\ Total(g, K) \in Nat
  BY TotalType
<1>5. Cardinality(Units(f, K) \cup Units(g, K)) =
        Cardinality(Units(f, K)) + Cardinality(Units(g, K)) - Cardinality({})
  BY <1>3, <1>4, FS_Union
<1> QED BY <1>2, <1>4, <1>5, FS_EmptySet DEF Total

(* Rows that differ only where neither holds a unit.                        *)
LEMMA TotalSameUnits ==
  ASSUME NEW K, NEW f, NEW g,
         \A k \in K : \/ f[k] = g[k]
                      \/ f[k] \in Int /\ g[k] \in Int /\ f[k] <= 0 /\ g[k] <= 0
  PROVE  Total(f, K) = Total(g, K)
<1>1. ASSUME NEW k \in K, NEW n PROVE n \in 1 .. f[k] <=> n \in 1 .. g[k]
  OBVIOUS
<1>2. Units(f, K) = Units(g, K)
  BY <1>1, UnitsMember
<1> QED BY <1>2 DEF Total

(* The rows in A cleared: their sum is gone.                                *)
LEMMA TotalCleared ==
  ASSUME NEW K, IsFiniteSet(K), NEW A, NEW f, NEW h,
         \A k \in K : f[k] \in Int,
         \A k \in K : IF k \in A THEN h[k] \in Int /\ h[k] <= 0 ELSE h[k] = f[k]
  PROVE  Total(h, K) = Total(f, K) - Total(f, A \cap K)
<1>1. IsFiniteSet(A \cap K) /\ IsFiniteSet(K \ A)
  BY FS_Intersection, FS_Difference
<1>2. K = (A \cap K) \cup (K \ A) /\ (A \cap K) \cap (K \ A) = {}
  OBVIOUS
<1>3. Total(f, K) = Total(f, A \cap K) + Total(f, K \ A)
  BY <1>1, <1>2, TotalSplit
<1>4. Total(h, K) = Total(h, A \cap K) + Total(h, K \ A)
  BY <1>1, <1>2, TotalSplit
<1>5. Total(h, A \cap K) = 0
  BY TotalZero
<1>6. Total(h, K \ A) = Total(f, K \ A)
  BY TotalSame
<1>7. Total(f, A \cap K) \in Nat /\ Total(f, K \ A) \in Nat
  BY <1>1, TotalType
<1> QED BY <1>3, <1>4, <1>5, <1>6, <1>7

(* The sum over fewer rows is not larger.                                   *)
LEMMA TotalSubset ==
  ASSUME NEW K, IsFiniteSet(K), NEW A \in SUBSET K, NEW f, \A k \in K : f[k] \in Int
  PROVE  Total(f, A) <= Total(f, K)
<1>1. IsFiniteSet(A) /\ IsFiniteSet(K \ A)
  BY FS_Subset, FS_Difference
<1>2. K = A \cup (K \ A) /\ A \cap (K \ A) = {}
  OBVIOUS
<1>3. Total(f, K) = Total(f, A) + Total(f, K \ A)
  BY <1>1, <1>2, TotalSplit
<1>4. Total(f, A) \in Nat /\ Total(f, K \ A) \in Nat
  BY <1>1, TotalType
<1> QED BY <1>3, <1>4

(* Rows with no more units each have no more units together.                *)
LEMMA TotalLess ==
  ASSUME NEW K, IsFiniteSet(K), NEW f, NEW g,
         \A k \in K : f[k] \in Int /\ g[k] \in Int /\ (f[k] <= g[k] \/ f[k] <= 0)
  PROVE  Total(f, K) <= Total(g, K)
<1>1. \A k \in K : \A n \in 1 .. f[k] : n \in 1 .. g[k]
  OBVIOUS
<1>2. Units(f, K) \subseteq Units(g, K)
  BY <1>1, UnitsMember
<1>3. IsFiniteSet(Units(g, K))
  BY TotalType
<1> QED BY <1>2, <1>3, FS_Subset DEF Total

(* A sum to which one row contributes.                                      *)
LEMMA TotalSingle ==
  ASSUME NEW K, NEW k \in K, NEW f, \A j \in K : f[j] \in Int /\ (j # k => f[j] <= 0)
  PROVE  Total(f, K) = IF f[k] > 0 THEN f[k] ELSE 0
<1>1. Units(f, K) = Units(f, {k})
  <2>1. ASSUME NEW j \in K, NEW n \in 1 .. f[j] PROVE j = k
    BY <2>1
  <2>2. ASSUME NEW u PROVE u \in Units(f, K) <=> u \in Units(f, {k})
    <3>1. u \in Units(f, K) <=> \E j \in K : \E n \in 1 .. f[j] : u = <<j, n>>
      BY UnitsMember
    <3>2. u \in Units(f, {k}) <=> \E j \in {k} : \E n \in 1 .. f[j] : u = <<j, n>>
      BY UnitsMember
    <3> QED BY <2>1, <3>1, <3>2
  <2> QED BY <2>2
<1> QED BY <1>1, TotalOne DEF Total

(* A table in which the row k may have changed.                             *)
LEMMA TotalOneChanged ==
  ASSUME NEW K, IsFiniteSet(K), NEW k, NEW f, NEW g,
         \A j \in K : f[j] \in Int /\ g[j] \in Int /\ (j # k => g[j] = f[j])
  PROVE  Total(g, K) = IF k \in K
                       THEN Total(f, K) - (IF f[k] > 0 THEN f[k] ELSE 0)
                                        + (IF g[k] > 0 THEN g[k] ELSE 0)
                       ELSE Total(f, K)
<1>1. CASE k \in K
  <2>1. /\ Total(f, K \ {k}) \in Nat
        /\ Total(f, K) = Total(f, K \ {k}) + (IF f[k] > 0 THEN f[k] ELSE 0)
    BY <1>1, TotalWithout
  <2>2. Total(g, K) = Total(g, K \ {k}) + (IF g[k] > 0 THEN g[k] ELSE 0)
    BY <1>1, TotalWithout
  <2>3. Total(g, K \ {k}) = Total(f, K \ {k})
    BY TotalSame
  <2>4. f[k] \in Int /\ g[k] \in Int
    BY <1>1
  <2> QED BY <1>1, <2>1, <2>2, <2>3, <2>4
<1>2. CASE k \notin K
  BY <1>2, TotalSame
<1> QED BY <1>1, <1>2
(* The same units in rows of other names.                                   *)
LEMMA TotalMoved ==
  ASSUME NEW K, NEW J, IsFiniteSet(K), NEW m \in Bijection(K, J), NEW f, NEW g,
         \A k \in K : f[k] \in Int /\ g[m[k]] = f[k]
  PROVE  Total(g, J) = Total(f, K)
<1> DEFINE move == [u \in Units(f, K) |-> <<m[u[1]], u[2]>>]
<1>1. m \in [K -> J] /\ (\A j, k \in K : m[j] = m[k] => j = k) /\ \A j \in J : \E k \in K : m[k] = j
  BY DEF Bijection, Injection, Surjection, IsInjective
<1>2. ASSUME NEW u \in Units(f, K)
      PROVE  u[1] \in K /\ u[2] \in 1 .. f[u[1]] /\ u = <<u[1], u[2]>>
  BY UnitsMember
<1>3. ASSUME NEW u \in Units(f, K) PROVE move[u] \in Units(g, J)
  <2>1. m[u[1]] \in J /\ u[2] \in 1 .. g[m[u[1]]]
    BY <1>1, <1>2
  <2> QED BY <2>1, UnitsMember
<1>4. ASSUME NEW u \in Units(f, K), NEW v \in Units(f, K), move[u] = move[v] PROVE u = v
  <2>1. m[u[1]] = m[v[1]] /\ u[2] = v[2]
    BY <1>4
  <2>2. u[1] = v[1]
    BY <1>1, <1>2, <2>1
  <2> QED BY <1>2, <2>1, <2>2
<1>5. ASSUME NEW v \in Units(g, J) PROVE \E u \in Units(f, K) : move[u] = v
  <2>1. PICK j \in J : \E n \in 1 .. g[j] : v = <<j, n>>
    BY UnitsMember
  <2>2. PICK n \in 1 .. g[j] : v = <<j, n>>
    BY <2>1
  <2>3. PICK k \in K : m[k] = j
    BY <1>1
  <2>4. <<k, n>> \in Units(f, K)
    BY <2>2, <2>3, UnitsMember
  <2>5. move[<<k, n>>] = v
    BY <2>2, <2>3, <2>4
  <2> QED BY <2>4, <2>5
<1>6. move \in [Units(f, K) -> Units(g, J)]
  BY <1>3
<1> HIDE DEF move
<1>7. move \in Bijection(Units(f, K), Units(g, J))
  BY <1>4, <1>5, <1>6 DEF Bijection, Injection, Surjection, IsInjective
<1>8. ExistsBijection(Units(f, K), Units(g, J))
  BY <1>7 DEF ExistsBijection
<1>9. IsFiniteSet(Units(f, K))
  BY TotalType
<1> QED BY <1>8, <1>9, FS_Bijection DEF Total

=============================================================================
