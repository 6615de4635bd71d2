---------------------------- MODULE ForwardProofs ----------------------------
(***************************************************************************)
(* Proofs about the content of a request, for all queries, endpoints,      *)
(* clocks and days, and both forward modes: what is accepted is what was signed, and  *)
(* what the gateway receives has one identity, of one day, and is validly  *)
(* signed exactly when the reverse proxy forwards what was signed.         *)
(***************************************************************************)
EXTENDS Forward, FiniteSetTheorems, TLAPS

-----------------------------------------------------------------------------
(* Sorting: two queries have the same canonical form if and only if they have *)
(* the same pairs, each as many times.                                        *)

KeyVal == Nat \X Nat

\* p holds pairs, at finitely many positions.
Table(p) == p \in [DOMAIN p -> KeyVal] /\ IsFiniteSet(DOMAIN p) /\ DOMAIN p \subseteq Nat

\* How many positions of p hold a pair of S.
Count(p, S) == Cardinality({i \in DOMAIN p : p[i] \in S})

Below(x) == {y \in KeyVal : Less(y, x)}

\* Position j does not come after i.
Before(p, j, i) == Less(p[j], p[i]) \/ (~Less(p[i], p[j]) /\ j <= i)

\* What makes a function a bijection.
LEMMA BijectionExists ==
  ASSUME NEW A, NEW B, NEW g \in [A -> B],
         \A i, j \in A : g[i] = g[j] => i = j,
         \A n \in B : \E i \in A : g[i] = n
  PROVE  ExistsBijection(A, B)
  <1>1. DOMAIN g = A
    OBVIOUS
  <1>2. g \in Bijection(A, B)
    BY <1>1, Zenon DEF Bijection, Injection, Surjection, IsInjective
  <1> QED
    BY <1>2 DEF ExistsBijection

\* The order of keys and then values is a strict total order.
LEMMA LessOrder ==
  ASSUME NEW x \in KeyVal, NEW y \in KeyVal, NEW z \in KeyVal
  PROVE  /\ ~Less(x, x)
         /\ ~(Less(x, y) /\ Less(y, x))
         /\ Less(x, y) /\ Less(y, z) => Less(x, z)
         /\ x = y \/ Less(x, y) \/ Less(y, x)
  BY DEF KeyVal, Less

\* With ties broken by position, it orders the positions.
LEMMA BeforeOrder ==
  ASSUME NEW p, Table(p), NEW i \in DOMAIN p, NEW j \in DOMAIN p, NEW k \in DOMAIN p
  PROVE  /\ Before(p, i, i)
         /\ Before(p, i, j) \/ Before(p, j, i)
         /\ Before(p, i, j) /\ Before(p, j, i) => i = j
         /\ Before(p, i, j) /\ Before(p, j, k) => Before(p, i, k)
  <1>1. p[i] \in KeyVal /\ p[j] \in KeyVal /\ p[k] \in KeyVal
    BY DEF Table
  <1>2. i \in Nat /\ j \in Nat /\ k \in Nat
    BY DEF Table
  <1>3. /\ \A x, y \in KeyVal : ~Less(x, x) /\ ~(Less(x, y) /\ Less(y, x))
        /\ \A x, y, z \in KeyVal : Less(x, y) /\ Less(y, z) => Less(x, z)
        /\ \A x, y \in KeyVal : x = y \/ Less(x, y) \/ Less(y, x)
    BY LessOrder
  <1> QED
    BY <1>1, <1>2, <1>3 DEF Before

\* The finite sets below are parts of one.
LEMMA PartFinite ==
  ASSUME NEW T, IsFiniteSet(T), NEW S \in SUBSET T
  PROVE  IsFiniteSet(S) /\ Cardinality(S) \in Nat /\ Cardinality(S) <= Cardinality(T)
  BY FS_Subset, FS_CardinalityType

\* Sets without a common element count separately.
LEMMA DisjointUnion ==
  ASSUME NEW S, NEW T, IsFiniteSet(S), IsFiniteSet(T), S \cap T = {}
  PROVE  Cardinality(S \cup T) = Cardinality(S) + Cardinality(T)
  <1>1. Cardinality(S \cup T) = Cardinality(S) + Cardinality(T) - Cardinality(S \cap T)
    BY FS_Union
  <1>2. Cardinality(S \cap T) = 0
    BY FS_EmptySet
  <1>3. Cardinality(S) \in Nat /\ Cardinality(T) \in Nat
    BY FS_CardinalityType
  <1> QED
    BY <1>1, <1>2, <1>3

\* Ranks under a total order are one-to-one and take every value.
LEMMA PlaceBijection ==
  ASSUME NEW p, Table(p)
  PROVE  [i \in DOMAIN p |-> Place(p, i)] \in Bijection(DOMAIN p, 1..Cardinality(DOMAIN p))
  <1> DEFINE I == DOMAIN p
             card == Cardinality(I)
             upto(i) == {j \in I : Before(p, j, i)}
             rank == [i \in I |-> Cardinality(upto(i))]
  <1>1. IsFiniteSet(I) /\ card \in Nat
    BY FS_CardinalityType DEF Table
  <1>2. ASSUME NEW i \in I
        PROVE  IsFiniteSet(upto(i)) /\ Cardinality(upto(i)) \in 1..card
    <2>1. IsFiniteSet(upto(i)) /\ Cardinality(upto(i)) \in Nat /\ Cardinality(upto(i)) <= card
      BY <1>1, PartFinite
    <2>2. i \in upto(i)
      BY BeforeOrder
    <2>3. Cardinality(upto(i)) # 0
      BY <2>1, <2>2, FS_EmptySet
    <2> QED
      BY <1>1, <2>1, <2>3
  <1>3. ASSUME NEW i \in I, NEW j \in I, i # j, Before(p, i, j)
        PROVE  Cardinality(upto(i)) # Cardinality(upto(j))
    <2>1. upto(i) \in SUBSET upto(j)
      BY <1>3, BeforeOrder
    <2>2. j \in upto(j) /\ j \notin upto(i)
      BY <1>3, BeforeOrder
    <2> QED
      BY <1>2, <2>1, <2>2, FS_Subset, Zenon
  <1>4. rank \in [I -> 1..card]
    BY <1>2
  <1>5. ASSUME NEW i \in I, NEW j \in I, rank[i] = rank[j] PROVE i = j
    BY <1>3, <1>5, BeforeOrder
  <1> HIDE DEF rank
  <1>6. rank \in Injection(I, 1..card)
    BY <1>4, <1>5 DEF Injection, IsInjective
  <1>7. IsFiniteSet(1..card) /\ Cardinality(1..card) = card
    BY <1>1, FS_Interval
  <1>8. rank \in Surjection(I, 1..card)
    BY <1>6, <1>7, FS_Injection
  <1>9. rank \in Bijection(I, 1..card)
    BY <1>6, <1>8 DEF Bijection
  <1>10. rank = [i \in I |-> Place(p, i)]
    BY DEF rank, Place, Before
  <1> QED
    BY <1>9, <1>10

\* Sort puts the pair at position i in its place, and fills every place.
LEMMA SortAt ==
  ASSUME NEW p, Table(p)
  PROVE  /\ DOMAIN Sort(p) = 1..Cardinality(DOMAIN p)
         /\ \A i \in DOMAIN p : /\ Place(p, i) \in 1..Cardinality(DOMAIN p)
                                /\ Sort(p)[Place(p, i)] = p[i]
         /\ \A i, j \in DOMAIN p : Place(p, i) = Place(p, j) => i = j
         /\ \A n \in 1..Cardinality(DOMAIN p) : \E i \in DOMAIN p : Place(p, i) = n
  <1> DEFINE I == DOMAIN p
             N == 1..Cardinality(I)
             place == [i \in I |-> Place(p, i)]
  <1>1. place \in Bijection(I, N)
    BY PlaceBijection
  <1>2. /\ place \in [I -> N]
        /\ \A i, j \in I : place[i] = place[j] => i = j
        /\ \A n \in N : \E i \in I : place[i] = n
    BY <1>1, Zenon DEF Bijection, Injection, Surjection, IsInjective
  <1>3. /\ \A i \in I : Place(p, i) \in N
        /\ \A i, j \in I : Place(p, i) = Place(p, j) => i = j
        /\ \A n \in N : \E i \in I : Place(p, i) = n
    BY <1>2
  <1>4. ASSUME NEW i \in I PROVE Sort(p)[Place(p, i)] = p[i]
    <2> DEFINE n == Place(p, i)
               k == CHOOSE j \in I : Place(p, j) = n
    <2>1. n \in N
      BY <1>3
    <2>2. Sort(p)[n] = p[k]
      BY <2>1 DEF Sort
    <2>3. k \in I /\ Place(p, k) = n
      OBVIOUS
    <2>4. k = i
      BY <1>3, <2>3
    <2> QED
      BY <2>2, <2>4, Zenon
  <1> QED
    BY <1>3, <1>4 DEF Sort

\* The copies of a pair take the places after those of the lesser pairs.
LEMMA SortBounds ==
  ASSUME NEW p, Table(p), NEW i \in DOMAIN p
  PROVE  /\ Count(p, Below(p[i])) \in Nat /\ Count(p, {p[i]}) \in Nat
         /\ Count(p, Below(p[i])) < Place(p, i)
         /\ Place(p, i) <= Count(p, Below(p[i])) + Count(p, {p[i]})
  <1> DEFINE I == DOMAIN p
             A == {j \in I : p[j] \in Below(p[i])}
             C == {j \in I : p[j] \in {p[i]}}
             B == {j \in C : j <= i}
  <1>1. IsFiniteSet(I) /\ i \in Nat /\ p \in [I -> KeyVal]
    BY DEF Table
  <1>2. /\ IsFiniteSet(A) /\ Cardinality(A) \in Nat
        /\ IsFiniteSet(C) /\ Cardinality(C) \in Nat
    BY <1>1, PartFinite
  <1>3. IsFiniteSet(B) /\ Cardinality(B) \in Nat /\ Cardinality(B) <= Cardinality(C)
    BY <1>2, PartFinite
  <1>4. i \in B
    BY <1>1
  <1>5. Cardinality(B) # 0
    BY <1>3, <1>4, FS_EmptySet
  <1>6. A \cap B = {}
    BY <1>1, LessOrder DEF Below
  <1>7. {j \in I : Less(p[j], p[i]) \/ (~Less(p[i], p[j]) /\ j <= i)} = A \cup B
    <2>1. \A j \in I : (Less(p[j], p[i]) \/ (~Less(p[i], p[j]) /\ j <= i)) <=> (j \in A \/ j \in B)
      BY <1>1, LessOrder DEF Below
    <2> QED
      BY <2>1
  <1>8. Cardinality(A \cup B) = Cardinality(A) + Cardinality(B)
    BY <1>2, <1>3, <1>6, DisjointUnion
  <1>9. Place(p, i) = Cardinality(A) + Cardinality(B)
    BY <1>7, <1>8, Zenon DEF Place
  <1> QED
    BY <1>2, <1>3, <1>5, <1>9 DEF Count

\* Between two pairs there is room for all copies of the lesser one.
LEMMA CountSteps ==
  ASSUME NEW p, Table(p), NEW x \in KeyVal, NEW y \in KeyVal, Less(x, y)
  PROVE  /\ Count(p, Below(x)) \in Nat /\ Count(p, {x}) \in Nat /\ Count(p, Below(y)) \in Nat
         /\ Count(p, Below(x)) + Count(p, {x}) <= Count(p, Below(y))
  <1> DEFINE I == DOMAIN p
             A == {j \in I : p[j] \in Below(x)}
             B == {j \in I : p[j] \in {x}}
             C == {j \in I : p[j] \in Below(y)}
  <1>1. IsFiniteSet(I)
    BY DEF Table
  <1>2. /\ IsFiniteSet(A) /\ Cardinality(A) \in Nat
        /\ IsFiniteSet(B) /\ Cardinality(B) \in Nat
        /\ IsFiniteSet(C) /\ Cardinality(C) \in Nat
    BY <1>1, PartFinite
  <1>3. A \cap B = {}
    BY LessOrder DEF Below
  <1>4. A \cup B \in SUBSET C
    BY LessOrder DEF Below
  <1>5. Cardinality(A \cup B) = Cardinality(A) + Cardinality(B)
    BY <1>2, <1>3, DisjointUnion
  <1>6. Cardinality(A \cup B) <= Cardinality(C)
    BY <1>2, <1>4, PartFinite
  <1> QED
    BY <1>2, <1>5, <1>6 DEF Count

\* Tables with as many copies of each pair of S have as many pairs of S.
LEMMA SameCount ==
  ASSUME NEW p, Table(p), NEW r, Table(r)
  PROVE  \A S : (\A x \in S : Count(p, {x}) = Count(r, {x})) => Count(p, S) = Count(r, S)
  <1> SUFFICES ASSUME NEW S, \A x \in S : Count(p, {x}) = Count(r, {x})
               PROVE  Count(p, S) = Count(r, S)
    BY Zenon
  <1> DEFINE A == {i \in DOMAIN p : p[i] \in S}
             B == {j \in DOMAIN r : r[j] \in S}
             P(x) == {i \in DOMAIN p : p[i] \in {x}}
             R(x) == {j \in DOMAIN r : r[j] \in {x}}
             F(x) == CHOOSE f : f \in Bijection(P(x), R(x))
             g == [i \in A |-> F(p[i])[i]]
  <1>1. IsFiniteSet(DOMAIN p) /\ IsFiniteSet(DOMAIN r)
    BY DEF Table
  <1>2. ASSUME NEW x \in S PROVE F(x) \in Bijection(P(x), R(x))
    <2>1. IsFiniteSet(P(x)) /\ IsFiniteSet(R(x))
      BY <1>1, PartFinite
    <2>2. Cardinality(P(x)) = Cardinality(R(x))
      BY DEF Count
    <2> HIDE DEF P, R
    <2>3. ExistsBijection(P(x), R(x))
      BY <2>1, <2>2, FS_SameCardinalityBij
    <2> QED
      BY <2>3 DEF ExistsBijection
  <1> HIDE DEF F
  <1>3. ASSUME NEW x \in S
        PROVE  /\ F(x) \in [P(x) -> R(x)]
               /\ \A i, k \in P(x) : F(x)[i] = F(x)[k] => i = k
               /\ \A j \in R(x) : \E i \in P(x) : F(x)[i] = j
    <2> HIDE DEF P, R
    <2> QED
      BY <1>2, Zenon DEF Bijection, Injection, Surjection, IsInjective
  <1>4. ASSUME NEW i \in A PROVE g[i] \in B /\ r[g[i]] = p[i]
    <2>1. i \in P(p[i]) /\ p[i] \in S
      OBVIOUS
    <2>2. F(p[i])[i] \in R(p[i])
      <3>1. F(p[i]) \in [P(p[i]) -> R(p[i])]
        BY <1>3, <2>1, Zenon
      <3> HIDE DEF P, R
      <3> QED
        BY <2>1, <3>1
    <2> QED
      BY <2>1, <2>2
  <1>5. ASSUME NEW i \in A, NEW k \in A, g[i] = g[k] PROVE i = k
    <2>1. p[i] = p[k]
      BY <1>4, <1>5
    <2>2. i \in P(p[i]) /\ k \in P(p[i]) /\ p[i] \in S
      BY <2>1
    <2>3. F(p[i])[i] = F(p[i])[k]
      BY <1>5, <2>1
    <2> QED
      BY <1>3, <2>2, <2>3, Zenon
  <1>6. ASSUME NEW j \in B PROVE \E i \in A : g[i] = j
    <2>1. j \in R(r[j]) /\ r[j] \in S
      OBVIOUS
    <2>2. PICK i \in P(r[j]) : F(r[j])[i] = j
      BY <1>3, <2>1, Zenon
    <2> QED
      BY <2>1, <2>2
  <1>7. g \in [A -> B]
    BY <1>4
  <1> HIDE DEF A, B, g
  <1>8. ExistsBijection(A, B)
    BY <1>5, <1>6, <1>7, BijectionExists
  <1>9. IsFiniteSet(A)
    BY <1>1, PartFinite DEF A
  <1>10. Cardinality(A) = Cardinality(B)
    BY <1>8, <1>9, FS_Bijection
  <1> QED
    BY <1>10 DEF Count, A, B

\* Sorting keeps the number of copies of a pair.
LEMMA SortCount ==
  ASSUME NEW p, Table(p), NEW x
  PROVE  Count(p, {x}) = Cardinality({n \in DOMAIN Sort(p) : Sort(p)[n] = x})
  <1> DEFINE A == {i \in DOMAIN p : p[i] \in {x}}
             B == {n \in DOMAIN Sort(p) : Sort(p)[n] = x}
             g == [i \in A |-> Place(p, i)]
  <1>1. g \in [A -> B]
    BY SortAt, Zenon
  <1>2. \A i, j \in A : g[i] = g[j] => i = j
    BY SortAt
  <1>3. ASSUME NEW n \in B PROVE \E i \in A : g[i] = n
    <2>1. PICK i \in DOMAIN p : Place(p, i) = n
      BY SortAt, Zenon
    <2>2. p[i] = x
      BY <2>1, SortAt
    <2> QED
      BY <2>1, <2>2
  <1>4. IsFiniteSet(A)
    BY PartFinite DEF Table
  <1> HIDE DEF A, B, g
  <1>5. ExistsBijection(A, B)
    BY <1>1, <1>2, <1>3, BijectionExists
  <1>6. Cardinality(A) = Cardinality(B)
    BY <1>4, <1>5, FS_Bijection
  <1> QED
    BY <1>6 DEF Count, A, B

\* Sorted tables are equal exactly when they hold each pair as many times.
LEMMA SortEqual ==
  ASSUME NEW p, Table(p), NEW r, Table(r)
  PROVE  Sort(p) = Sort(r) <=> \A x \in KeyVal : Count(p, {x}) = Count(r, {x})
  <1>1. ASSUME Sort(p) = Sort(r), NEW x \in KeyVal PROVE Count(p, {x}) = Count(r, {x})
    <2>1. Count(p, {x}) = Cardinality({n \in DOMAIN Sort(p) : Sort(p)[n] = x})
      BY SortCount, Zenon
    <2>2. Count(r, {x}) = Cardinality({n \in DOMAIN Sort(r) : Sort(r)[n] = x})
      BY SortCount, Zenon
    <2> QED
      BY <1>1, <2>1, <2>2, Zenon
  <1>2. ASSUME \A x \in KeyVal : Count(p, {x}) = Count(r, {x}) PROVE Sort(p) = Sort(r)
    <2>0. \A S : (\A x \in S : Count(p, {x}) = Count(r, {x})) => Count(p, S) = Count(r, S)
      BY SameCount, Zenon
    <2>1. Cardinality(DOMAIN p) = Cardinality(DOMAIN r)
      <3>1. Count(p, KeyVal) = Count(r, KeyVal)
        BY <1>2, <2>0, Zenon
      <3>2. {i \in DOMAIN p : p[i] \in KeyVal} = DOMAIN p /\ {i \in DOMAIN r : r[i] \in KeyVal} = DOMAIN r
        BY DEF Table
      <3> QED
        BY <3>1, <3>2 DEF Count
    <2>2. \A x \in KeyVal : Count(p, Below(x)) = Count(r, Below(x))
      <3>1. \A x \in KeyVal : \A y \in Below(x) : Count(p, {y}) = Count(r, {y})
        BY <1>2 DEF Below
      <3> QED
        BY <2>0, <3>1, Zenon
    <2>3. ASSUME NEW n \in 1..Cardinality(DOMAIN p) PROVE Sort(p)[n] = Sort(r)[n]
      <3>1. PICK i \in DOMAIN p : Place(p, i) = n
        BY SortAt
      <3>2. PICK j \in DOMAIN r : Place(r, j) = n
        BY <2>1, SortAt
      <3>3. p[i] \in KeyVal /\ r[j] \in KeyVal
        BY DEF Table
      <3>4. /\ Count(p, Below(p[i])) < n /\ n <= Count(p, Below(p[i])) + Count(p, {p[i]})
            /\ Count(p, Below(p[i])) \in Nat /\ Count(p, {p[i]}) \in Nat
        BY <3>1, SortBounds, Zenon
      <3>5. /\ Count(r, Below(r[j])) < n /\ n <= Count(r, Below(r[j])) + Count(r, {r[j]})
            /\ Count(r, Below(r[j])) \in Nat /\ Count(r, {r[j]}) \in Nat
        BY <3>2, SortBounds
      <3>6. ~Less(p[i], r[j])
        <4>1. ASSUME Less(p[i], r[j]) PROVE FALSE
          <5>1. Count(p, Below(p[i])) + Count(p, {p[i]}) <= Count(p, Below(r[j]))
            BY <3>3, <4>1, CountSteps, Zenon
          <5>2. Count(p, Below(r[j])) = Count(r, Below(r[j]))
            BY <2>2, <3>3
          <5> QED
            BY <3>4, <3>5, <5>1, <5>2
        <4> QED
          BY <4>1
      <3>7. ~Less(r[j], p[i])
        <4>1. ASSUME Less(r[j], p[i]) PROVE FALSE
          <5>1. Count(r, Below(r[j])) + Count(r, {r[j]}) <= Count(r, Below(p[i]))
            BY <3>3, <4>1, CountSteps
          <5>2. Count(p, Below(p[i])) = Count(r, Below(p[i]))
            BY <2>2, <3>3
          <5> QED
            BY <3>4, <3>5, <5>1, <5>2
        <4> QED
          BY <4>1
      <3>8. p[i] = r[j]
        BY <3>3, <3>6, <3>7, LessOrder
      <3> QED
        BY <3>1, <3>2, <3>8, SortAt
    <2> DEFINE s == Sort(p)
               u == Sort(r)
               N == 1..Cardinality(DOMAIN p)
    <2>4. s = [n \in N |-> s[n]] /\ u = [n \in N |-> u[n]]
      BY <2>1 DEF Sort
    <2> HIDE DEF s, u, N
    <2>5. \A n \in N : s[n] = u[n]
      BY <2>3 DEF s, u, N
    <2>6. s = u
      BY <2>4, <2>5
    <2> QED
      BY <2>6 DEF s, u
  <1> QED
    BY <1>1, <1>2

-----------------------------------------------------------------------------
(* Queries. *)

\* The positions of a query.
LEMMA Positions ==
  ASSUME NEW q \in Seq(Param), NEW I \in SUBSET DOMAIN q
  PROVE  /\ DOMAIN q = 1..Len(q) /\ Len(q) \in Nat
         /\ IsFiniteSet(DOMAIN q) /\ Cardinality(DOMAIN q) = Len(q)
         /\ I \subseteq Nat \ {0} /\ IsFiniteSet(I)
         /\ Cardinality(I) \in Nat /\ Cardinality(I) <= Len(q)
  <1>1. DOMAIN q = 1..Len(q) /\ Len(q) \in Nat
    OBVIOUS
  <1>2. IsFiniteSet(1..Len(q)) /\ Cardinality(1..Len(q)) = Len(q)
    <2>1. \A n \in Nat : IsFiniteSet(1..n) /\ Cardinality(1..n) = n
      BY FS_Interval
    <2> QED
      BY <1>1, <2>1, Zenon
  <1>3. IsFiniteSet(I) /\ Cardinality(I) \in Nat /\ Cardinality(I) <= Len(q)
    BY <1>1, <1>2, PartFinite
  <1> QED
    BY <1>1, <1>2, <1>3

\* What canonicalQuery sorts.
LEMMA PairsTable ==
  ASSUME NEW q \in Seq(Param), NEW k PROVE Table(Pairs(q, k))
  <1> DEFINE I == {j \in DOMAIN q : q[j].key # k}
  <1>1. I \subseteq Nat /\ IsFiniteSet(I)
    BY Positions
  <1>2. \A i \in I : Pair(q[i]) \in KeyVal
    <2>1. \A i \in I : q[i] \in Param
      OBVIOUS
    <2> QED
      BY <2>1, Zenon DEF Param, Pair, KeyVal
  <1>3. Pairs(q, k) = [i \in I |-> Pair(q[i])]
    BY DEF Pairs
  <1> HIDE DEF I
  <1> QED
    BY <1>1, <1>2, <1>3 DEF Table

\* It holds the pairs of the query, the skipped key apart.
LEMMA PairsCount ==
  ASSUME NEW q \in Seq(Param), NEW k, NEW x \in KeyVal
  PROVE  Count(Pairs(q, k), {x}) = IF x[1] = k THEN 0 ELSE Times(q, x)
  <1> DEFINE A == {i \in DOMAIN Pairs(q, k) : Pairs(q, k)[i] \in {x}}
             B == {i \in DOMAIN q : Pair(q[i]) = x}
  <1>1. \A i : i \in A <=> i \in B /\ q[i].key # k
    BY DEF Pairs
  <1>2. \A i \in B : q[i].key = x[1]
    BY DEF Pair
  <1> HIDE DEF A, B
  <1>3. CASE x[1] = k
    <2>1. A = {}
      BY <1>1, <1>2, <1>3
    <2> QED
      BY <1>3, <2>1, FS_EmptySet, Zenon DEF Count, A
  <1>4. CASE x[1] # k
    <2>1. A = B
      BY <1>1, <1>2, <1>4, Zenon
    <2> QED
      BY <1>4, <2>1, Zenon DEF Count, Times, A, B
  <1> QED
    BY <1>3, <1>4

\* The canonical form tells queries apart by what they hold, and by nothing else.
LEMMA CanonicalEqual ==
  ASSUME NEW q \in Seq(Param), NEW r \in Seq(Param), NEW k
  PROVE  canonicalQuery(q, k) = canonicalQuery(r, k)
           <=> \A x \in KeyVal : x[1] # k => Times(q, x) = Times(r, x)
  <1>1. Table(Pairs(q, k)) /\ Table(Pairs(r, k))
    BY PairsTable
  <1>2. canonicalQuery(q, k) = canonicalQuery(r, k)
          <=> \A x \in KeyVal : Count(Pairs(q, k), {x}) = Count(Pairs(r, k), {x})
    BY <1>1, SortEqual, Zenon DEF canonicalQuery
  <1>3. \A x \in KeyVal : /\ Count(Pairs(q, k), {x}) = IF x[1] = k THEN 0 ELSE Times(q, x)
                          /\ Count(Pairs(r, k), {x}) = IF x[1] = k THEN 0 ELSE Times(r, x)
    BY PairsCount, Zenon
  <1> QED
    BY <1>2, <1>3, Zenon

\* Key 0 is no key: nothing is skipped.
LEMMA CanonicalLength ==
  ASSUME NEW q \in Seq(Param) PROVE DOMAIN canonicalQuery(q, 0) = 1..Len(q)
  <1>1. DOMAIN Pairs(q, 0) = DOMAIN q
    <2>1. \A i \in DOMAIN q : q[i] \in Param
      OBVIOUS
    <2>2. \A i \in DOMAIN q : q[i].key # 0
      BY <2>1 DEF Param
    <2> QED
      BY <2>2, Zenon DEF Pairs
  <1>2. DOMAIN Sort(Pairs(q, 0)) = 1..Cardinality(DOMAIN Pairs(q, 0))
    BY DEF Sort
  <1>3. Cardinality(DOMAIN q) = Len(q)
    BY Positions
  <1> QED
    BY <1>1, <1>2, <1>3 DEF canonicalQuery

\* No parameter has key 0.
LEMMA KeyZero ==
  ASSUME NEW q \in Seq(Param), NEW x \in KeyVal, x[1] = 0 PROVE Times(q, x) = 0
  <1>1. \A i \in DOMAIN q : q[i] \in Param
    OBVIOUS
  <1>2. \A i \in DOMAIN q : Pair(q[i]) # x
    BY <1>1 DEF Param, Pair
  <1>3. {i \in DOMAIN q : Pair(q[i]) = x} = {}
    BY <1>2
  <1> QED
    BY <1>3, FS_EmptySet, Zenon DEF Times

\* The signature parameter is a parameter.
LEMMA SignatureParamType == SignatureParam \in Param /\ Pair(SignatureParam) = <<SigKey, 0>>
  BY ForwardAssumption DEF SignatureParam, Param, Pair

\* It is not part of what it signs.
LEMMA AppendSkipped ==
  ASSUME NEW q \in Seq(Param)
  PROVE  canonicalQuery(Append(q, SignatureParam), SigKey) = canonicalQuery(q, SigKey)
  <1> DEFINE a == Append(q, SignatureParam)
  <1>1. /\ DOMAIN q = 1..Len(q) /\ Len(q) \in Nat /\ DOMAIN a = 1..Len(q) + 1
        /\ \A i \in 1..Len(q) : a[i] = q[i]
        /\ a[Len(q) + 1] = SignatureParam
    BY SignatureParamType
  <1> HIDE DEF a
  <1>2. {j \in DOMAIN a : a[j].key # SigKey} = {j \in DOMAIN q : q[j].key # SigKey}
    BY <1>1 DEF SignatureParam
  <1>3. Pairs(a, SigKey) = Pairs(q, SigKey)
    BY <1>1, <1>2 DEF Pairs
  <1> QED
    BY <1>3 DEF canonicalQuery, a

\* A signed query holds one signature.
LEMMA AppendTimes ==
  ASSUME NEW q \in Seq(Param), \A i \in DOMAIN q : q[i].key # SigKey,
         NEW x \in KeyVal, x[1] = SigKey
  PROVE  Times(Append(q, SignatureParam), x) = IF x = <<SigKey, 0>> THEN 1 ELSE 0
  <1> DEFINE a == Append(q, SignatureParam)
             A == {i \in DOMAIN a : Pair(a[i]) = x}
  <1>1. /\ DOMAIN q = 1..Len(q) /\ Len(q) \in Nat /\ DOMAIN a = 1..Len(q) + 1
        /\ \A i \in 1..Len(q) : a[i] = q[i]
        /\ a[Len(q) + 1] = SignatureParam
    BY SignatureParamType
  <1> HIDE DEF a
  <1>2. \A i \in 1..Len(q) : Pair(a[i]) # x
    BY <1>1 DEF Pair
  <1>3. CASE x = <<SigKey, 0>>
    <2>1. A = {Len(q) + 1}
      BY <1>1, <1>2, <1>3, SignatureParamType, SMTT(30)
    <2> QED
      BY <1>3, <2>1, FS_Singleton, Zenon DEF Times, a
  <1>4. CASE x # <<SigKey, 0>>
    <2>1. A = {}
      BY <1>1, <1>2, <1>4, SignatureParamType
    <2> QED
      BY <1>4, <2>1, FS_EmptySet, Zenon DEF Times, a
  <1> QED
    BY <1>3, <1>4

\* The n-th of some positions is one of them: their ranks are one-to-one.
LEMMA NthPosition ==
  ASSUME NEW I, I \subseteq Nat \ {0}, IsFiniteSet(I), NEW n \in 1..Cardinality(I)
  PROVE  Nth(I, n) \in I
  <1> DEFINE p == [i \in I |-> <<0, 0>>]
  <1>1. Table(p) /\ DOMAIN p = I
    BY DEF Table, KeyVal
  <1>2. PICK i \in I : Place(p, i) = n
    BY <1>1, SortAt, Zenon
  <1>3. Place(p, i) = Cardinality(I \cap 1..i)
    <2>1. {j \in DOMAIN p : Less(p[j], p[i]) \/ (~Less(p[i], p[j]) /\ j <= i)} = I \cap 1..i
      <3>1. \A j \in I : ~Less(p[j], p[i]) /\ ~Less(p[i], p[j])
        BY DEF Less
      <3>2. \A j \in I : j <= i <=> j \in 1..i
        OBVIOUS
      <3> QED
        BY <3>1, <3>2, Zenon
    <2> QED
      BY <2>1 DEF Place
  <1> QED
    BY <1>2, <1>3, Zenon DEF Nth

\* A part of a query is a query.
LEMMA SubsequenceType ==
  ASSUME NEW q \in Seq(Param), NEW I \in SUBSET DOMAIN q
  PROVE  LET s == Subsequence(q, I)
         IN /\ s \in Seq(Param) /\ DOMAIN s = 1..Cardinality(I) /\ Len(s) = Cardinality(I)
            /\ \A n \in DOMAIN s : \E i \in I : s[n] = q[i]
  <1>1. I \subseteq Nat \ {0} /\ IsFiniteSet(I) /\ Cardinality(I) \in Nat
    BY Positions
  <1>2. \A n \in 1..Cardinality(I) : Nth(I, n) \in I
    BY <1>1, NthPosition
  <1>3. \A n \in 1..Cardinality(I) : q[Nth(I, n)] \in Param
    BY <1>2
  <1> QED
    BY <1>1, <1>2, <1>3 DEF Subsequence

-----------------------------------------------------------------------------
(* The requests. *)

\* r has the shape of a request.
Request(r) ==
  /\ r = [path |-> r.path, query |-> r.query, auth |-> r.auth, hop |-> r.hop,
          headers |-> r.headers]
  /\ r.headers = [n \in Name |-> r.headers[n]]
  /\ r.auth = [akid |-> r.auth.akid, date |-> r.auth.date, day |-> r.auth.day,
               signed |-> r.auth.signed, sig |-> r.auth.sig]

\* The scope is of the day of X-Amz-Date.
Dated(r) == r.headers["x-amz-date"] # None /\ r.auth.day = DayOf(r.headers["x-amz-date"])

\* Nothing but the user identifies r.
TheUsers(r) ==
  /\ r.auth.akid = "user"
  /\ r.headers["x-amz-security-token"] = None
  /\ "x-amz-security-token" \notin r.auth.signed

(***************************************************************************)
(* The inductive invariant.  On the header lane, what was verified is      *)
(* dated and has no broken escape: so Sign does not fail half way there,   *)
(* and RewriteAccessKeyID never meets a date that Sign has set.            *)
(***************************************************************************)
IInv ==
  /\ now \in Nat
  /\ Request(req)
  /\ pc = "verify" => lane \in {"bearer", "sigv4", "presigned"}
  /\ pc = "identity" /\ lane = "sigv4" => Dated(req) /\ ~Broken(req.query)
  /\ pc = "fallback" => lane # "sigv4"
  /\ pc \in {"send", "done"} => Dated(req) /\ TheUsers(req)

\* A request without authentication has the shape of one.
LEMMA BareRequest ==
  ASSUME NEW path, NEW q, NEW hash, NEW token, NEW hop
  PROVE  LET r == Bare(path, q, hash, token, hop)
         IN Request(r) /\ r.path = path /\ r.query = q /\ r.hop = hop
  BY DEF Bare, NoAuth, Request

\* Setting a header, the query or the authentication of a request leaves the rest.
LEMMA HeaderSet ==
  ASSUME NEW r, Request(r), NEW n \in Name, NEW v
  PROVE  LET u == [r EXCEPT !.headers[n] = v]
         IN /\ Request(u) /\ u.headers[n] = v
            /\ \A k \in Name \ {n} : u.headers[k] = r.headers[k]
            /\ u.path = r.path /\ u.query = r.query /\ u.auth = r.auth /\ u.hop = r.hop
  BY DEF Request

\* A request with another query still has the shape of a request.
LEMMA QuerySet ==
  ASSUME NEW r, Request(r), NEW q
  PROVE  LET u == [r EXCEPT !.query = q]
         IN /\ Request(u) /\ u.query = q
            /\ u.path = r.path /\ u.headers = r.headers /\ u.auth = r.auth /\ u.hop = r.hop
  BY DEF Request

\* A request with another path still has the shape of a request.
LEMMA PathSet ==
  ASSUME NEW r, Request(r), NEW p
  PROVE  LET u == [r EXCEPT !.path = p]
         IN /\ Request(u) /\ u.path = p
            /\ u.query = r.query /\ u.headers = r.headers /\ u.auth = r.auth /\ u.hop = r.hop
  BY DEF Request

\* A request with another Authorization header still has the shape of a request.
LEMMA AuthSet ==
  ASSUME NEW r, Request(r), NEW a, NEW d, NEW y, NEW h, NEW s
  PROVE  LET auth == [akid |-> a, date |-> d, day |-> y, signed |-> h, sig |-> s]
             u == [r EXCEPT !.auth = auth]
         IN /\ Request(u) /\ u.auth = auth
            /\ u.path = r.path /\ u.query = r.query /\ u.headers = r.headers /\ u.hop = r.hop
  BY DEF Request

\* A signature stands for all that goes into it.
LEMMA SignatureEqual ==
  ASSUME NEW s, NEW r, NEW d, NEW y, NEW h, NEW k, NEW z, NEW r2, NEW d2, NEW z2
  PROVE  Signature(s, r, d, y, h, k, z) = Signature(s, r2, d2, y, h, k, z2)
           <=> /\ d = d2 /\ z = z2 /\ r.path = r2.path
               /\ canonicalQuery(r.query, k) = canonicalQuery(r2.query, k)
               /\ \A n \in h : r.headers[n] = r2.headers[n]
  BY Zenon DEF Signature

\* What a client sends with header authentication.
LEMMA HeaderSignedContent ==
  ASSUME NEW path, NEW q, NEW hash, NEW hop, NEW d, NEW y, NEW signed
  PROVE  LET o == HeaderSigned(path, q, hash, hop, d, y, signed)
         IN /\ Request(o) /\ o.path = path /\ o.hop = hop /\ o.query = q
            /\ o.auth.signed = signed
            /\ o.auth.sig = Signature("client", o, o.headers["x-amz-date"], o.auth.day, signed, 0,
                                      PayloadHash(o))
  <1> DEFINE b == Bare(path, q, hash, "session", hop)
             c == [b EXCEPT !.headers["x-amz-date"] = d]
             r == [c EXCEPT !.headers["x-amz-meta"] = 1]
             s == Signature("client", r, d, y, signed, 0, PayloadHash(r))
             o == [r EXCEPT !.auth = [akid |-> "akid", date |-> d, day |-> y, signed |-> signed, sig |-> s]]
  <1>1. HeaderSigned(path, q, hash, hop, d, y, signed) = o
    BY DEF HeaderSigned
  <1>2. Request(b) /\ b.path = path /\ b.hop = hop /\ b.query = q
    BY BareRequest
  <1> HIDE DEF b
  <1>3. Request(c) /\ c.path = path /\ c.hop = hop /\ c.query = q /\ c.headers["x-amz-date"] = d
    BY <1>2, HeaderSet DEF Name, AmzHeader
  <1> HIDE DEF c
  <1>4. Request(r) /\ r.path = path /\ r.hop = hop /\ r.query = q /\ r.headers["x-amz-date"] = d
    BY <1>3, HeaderSet, SMTT(30) DEF Name, AmzHeader
  <1> HIDE DEF r
  <1>5. /\ Request(o) /\ o.path = r.path /\ o.hop = r.hop /\ o.query = r.query /\ o.headers = r.headers
        /\ o.auth.signed = signed /\ o.auth.day = y /\ o.auth.sig = s
    BY <1>4, AuthSet, SMTT(60)
  <1> HIDE DEF o
  <1>6. s = Signature("client", o, o.headers["x-amz-date"], y, signed, 0, PayloadHash(o))
    BY <1>4, <1>5, SignatureEqual, SMTT(60) DEF s, PayloadHash
  <1> QED
    BY <1>1, <1>4, <1>5, <1>6

\* What a client sends with a presigned URL.
LEMMA QuerySignedContent ==
  ASSUME NEW path, NEW q, NEW hash, NEW hop, NEW d, NEW y,
         canonicalQuery(Append(q, SignatureParam), SigKey) = canonicalQuery(q, SigKey)
  PROVE  LET o == QuerySigned(path, q, hash, hop, d, y)
         IN /\ Request(o) /\ o.path = path /\ o.hop = hop
            /\ o.query = Append(q, SignatureParam)
            /\ o.auth.sig = Signature("client", o, o.auth.date, o.auth.day, o.auth.signed, SigKey,
                                      "UNSIGNED-PAYLOAD")
  <1> DEFINE r == Bare(path, q, hash, None, hop)
             s == Signature("client", r, d, y, {"host"}, SigKey, "UNSIGNED-PAYLOAD")
             a == [r EXCEPT !.auth = [akid |-> "akid", date |-> d, day |-> y, signed |-> {"host"}, sig |-> s]]
             appended == Append(q, SignatureParam)
             o == [a EXCEPT !.query = appended]
  <1>1. QuerySigned(path, q, hash, hop, d, y) = o
    BY DEF QuerySigned
  <1>2. Request(r) /\ r.path = path /\ r.hop = hop /\ r.query = q
    BY BareRequest
  <1> HIDE DEF r, appended
  <1>3. /\ Request(a) /\ a.path = path /\ a.hop = hop /\ a.headers = r.headers
        /\ a.auth = [akid |-> "akid", date |-> d, day |-> y, signed |-> {"host"}, sig |-> s]
    BY <1>2, AuthSet
  <1> HIDE DEF a
  <1>4. /\ Request(o) /\ o.path = path /\ o.hop = hop /\ o.headers = r.headers /\ o.auth = a.auth
        /\ o.query = appended
    BY <1>3, QuerySet
  <1> HIDE DEF o
  <1>5. canonicalQuery(o.query, SigKey) = canonicalQuery(r.query, SigKey)
    BY <1>2, <1>4, Zenon DEF appended
  <1>6. s = Signature("client", o, d, y, {"host"}, SigKey, "UNSIGNED-PAYLOAD")
    BY <1>2, <1>4, <1>5, SignatureEqual DEF s
  <1> QED
    BY <1>1, <1>3, <1>4, <1>6 DEF appended

\* What arrives of a request signed in its header.
LEMMA ArrivingContent ==
  ASSUME NEW r, Request(r), NEW u \in Arriving(r)
  PROVE  /\ Request(u) /\ u.auth = r.auth /\ u.hop = r.hop
         /\ u.query = r.query \/ u.query \in Query
         /\ u.path = r.path \/ u.path = [r.path EXCEPT !.form = "escaped"]
  <1> DEFINE escaped == [r.path EXCEPT !.form = "escaped"]
  <1>1. \/ \E q \in Query : u = [r EXCEPT !.query = q]
        \/ u = [r EXCEPT !.headers["x-amz-meta"] = 2]
        \/ u = [r EXCEPT !.headers["x-amz-date"] = None]
        \/ u = [r EXCEPT !.path = escaped]
    BY Zenon DEF Arriving
  <1>2. CASE \E q \in Query : u = [r EXCEPT !.query = q]
    BY <1>2, QuerySet
  <1>3. CASE u = [r EXCEPT !.headers["x-amz-meta"] = 2]
    BY <1>3, HeaderSet DEF Name, AmzHeader
  <1>4. CASE u = [r EXCEPT !.headers["x-amz-date"] = None]
    BY <1>4, HeaderSet DEF Name, AmzHeader
  <1>5. CASE u = [r EXCEPT !.path = escaped]
    <2> HIDE DEF escaped
    <2>1. Request(u) /\ u.path = escaped /\ u.query = r.query /\ u.auth = r.auth /\ u.hop = r.hop
      BY <1>5, PathSet
    <2> QED
      BY <2>1 DEF escaped
  <1> QED
    BY <1>1, <1>2, <1>3, <1>4, <1>5, Zenon

\* What arrives of a presigned URL.
LEMMA ArrivingPresignedContent ==
  ASSUME NEW r, Request(r), NEW u \in ArrivingPresigned(r)
  PROVE  /\ Request(u) /\ u.auth = r.auth /\ u.hop = r.hop
         /\ u.query = r.query \/ \E q \in Query : u.query = Append(q, SignatureParam)
         /\ u.path = r.path \/ u.path = [r.path EXCEPT !.form = "escaped"]
  <1> DEFINE escaped == [r.path EXCEPT !.form = "escaped"]
  <1>1. \/ \E q \in Query : u = [r EXCEPT !.query = Append(q, SignatureParam)]
        \/ u = [r EXCEPT !.path = escaped]
    BY Zenon DEF ArrivingPresigned
  <1>2. ASSUME NEW q \in Query, u = [r EXCEPT !.query = Append(q, SignatureParam)]
        PROVE  /\ Request(u) /\ u.auth = r.auth /\ u.hop = r.hop /\ u.path = r.path
               /\ u.query = Append(q, SignatureParam)
    <2> DEFINE a == Append(q, SignatureParam)
    <2>1. u = [r EXCEPT !.query = a]
      BY <1>2
    <2> HIDE DEF a
    <2>2. Request(u) /\ u.query = a /\ u.auth = r.auth /\ u.hop = r.hop /\ u.path = r.path
      BY <2>1, QuerySet
    <2> QED
      BY <2>2 DEF a
  <1>3. CASE u = [r EXCEPT !.path = escaped]
    <2> HIDE DEF escaped
    <2>1. Request(u) /\ u.path = escaped /\ u.query = r.query /\ u.auth = r.auth /\ u.hop = r.hop
      BY <1>3, PathSet
    <2> QED
      BY <2>1 DEF escaped
  <1> QED
    BY <1>1, <1>2, <1>3, Zenon

\* The headers Sign sets, and what it leaves.
LEMMA SignHeadersContent ==
  ASSUME NEW q, Request(q)
  PROVE  LET r == SignHeaders(WithoutToken(q))
         IN /\ Request(r) /\ r.path = q.path /\ r.hop = q.hop /\ r.query = q.query
            /\ r.headers["host"] = "gateway" /\ r.headers["x-amz-date"] = now
            /\ r.headers["x-amz-security-token"] = None
  <1> DEFINE u == WithoutToken(q)
             v == [u EXCEPT !.headers["host"] = "gateway"]
             w == [v EXCEPT !.headers["x-amz-date"] = now]
             h == w.headers["x-amz-content-sha256"]
  <1>1. /\ Request(u) /\ u.path = q.path /\ u.hop = q.hop /\ u.query = q.query
        /\ u.headers["x-amz-security-token"] = None
    BY HeaderSet DEF WithoutToken, Name, AmzHeader
  <1> HIDE DEF u
  <1>2. SignHeaders(WithoutToken(q)) =
          [w EXCEPT !.headers["x-amz-content-sha256"] = IF h = None THEN "UNSIGNED-PAYLOAD" ELSE h]
    BY Zenon DEF SignHeaders, u
  <1>3. /\ Request(v) /\ v.path = q.path /\ v.hop = q.hop /\ v.query = q.query
        /\ v.headers["x-amz-security-token"] = None /\ v.headers["host"] = "gateway"
    BY <1>1, HeaderSet DEF Name, AmzHeader
  <1> HIDE DEF v
  <1>4. /\ Request(w) /\ w.path = q.path /\ w.hop = q.hop /\ w.query = q.query
        /\ w.headers["x-amz-security-token"] = None /\ w.headers["host"] = "gateway"
        /\ w.headers["x-amz-date"] = now
    BY <1>3, HeaderSet DEF Name, AmzHeader
  <1> HIDE DEF w, h
  <1> QED
    BY <1>2, <1>4, HeaderSet DEF Name, AmzHeader

\* The initial states satisfy the invariant.
LEMMA InitIInv == Init => IInv
  <1> SUFFICES ASSUME Init PROVE IInv
    OBVIOUS
  <1>1. now \in Nat
    BY ForwardAssumption DEF Init
  <1>2. Request(req)
    BY BareRequest DEF Init, Nothing
  <1> QED
    BY <1>1, <1>2 DEF Init, IInv

\* A request that arrives has the shape of one.
LEMMA ArriveIInv == IInv /\ (ArriveBearer \/ ArriveHeader \/ ArrivePresigned) => IInv'
  <1> SUFFICES ASSUME IInv, ArriveBearer \/ ArriveHeader \/ ArrivePresigned PROVE IInv'
    OBVIOUS
  <1>1. ASSUME NEW l \in {"bearer", "sigv4", "presigned"}, NEW r, Begin(l, r), Request(req')
        PROVE  IInv'
    BY <1>1, Zenon DEF Begin, IInv
  <1>2. CASE ArriveBearer
    BY <1>1, <1>2, BareRequest DEF ArriveBearer, Begin
  <1>3. CASE ArriveHeader
    <2>1. PICK path \in Path, q \in {p \in Query : ~Broken(p)}, signed \in {Name, Name \ {"x-amz-meta"}},
               hash \in {None, "declared"}, hop \in Connection,
               d \in {now - Skew - 1, now - Skew, now + Skew}, y \in {DayOf(now), DayOf(now) + 1} :
            Begin("sigv4", HeaderSigned(path, q, hash, hop, d, y, signed))
      BY <1>3, Zenon DEF ArriveHeader
    <2>2. Request(HeaderSigned(path, q, hash, hop, d, y, signed))
      BY HeaderSignedContent, Zenon
    <2>3. Request(origin') /\ req' \in Arriving(origin')
      BY <1>3, <2>1, <2>2, Zenon DEF Begin, ArriveHeader
    <2>4. Request(req')
      BY <2>3, ArrivingContent, Zenon
    <2> QED
      BY <1>1, <2>1, <2>4, Zenon
  <1>4. CASE ArrivePresigned
    <2>1. PICK path \in Path, q \in {p \in Query : HasAuth(p) /\ ~Broken(p)},
               hash \in {None, "declared"}, hop \in Connection,
               d \in {now - Expires - 1, now - Expires, now + Skew, now + Skew + 1},
               y \in {DayOf(now), DayOf(now) + 1} :
            Begin("presigned", QuerySigned(path, q, hash, hop, d, y))
      BY <1>4, ZenonT(60) DEF ArrivePresigned
    <2>2. Request(QuerySigned(path, q, hash, hop, d, y))
      BY QuerySignedContent, AppendSkipped, ForwardAssumption
    <2>3. Request(origin') /\ req' \in ArrivingPresigned(origin')
      BY <1>4, <2>1, <2>2, Zenon DEF Begin, ArrivePresigned
    <2>4. Request(req')
      BY <2>3, ArrivingPresignedContent, Zenon
    <2> QED
      BY <1>1, <2>1, <2>4
  <1> QED
    BY <1>2, <1>3, <1>4

\* What Verify accepts is dated, and its query can be put in canonical form.
LEMMA VerifyAccepts ==
  ASSUME NEW r, Verify(r) = "ok" PROVE Dated(r) /\ ~Broken(r.query)
  BY DEF Verify, Dated

\* The outcomes of the verification.
LEMMA Verdicts ==
  ASSUME lane \in {"bearer", "sigv4", "presigned"}
  PROVE  Verdict \in {"ok", "missing_date", "skew", "scope", "malformed", "mismatch", "url_expired"}
  BY DEF Verdict, Verify, VerifyPresigned

\* Verification preserves the invariant.
LEMMA VerifyIInv == IInv /\ (Accept \/ Reject) => IInv'
  <1> SUFFICES ASSUME IInv, Accept \/ Reject PROVE IInv'
    OBVIOUS
  <1>1. CASE Accept
    <2>1. lane = "sigv4" => Verify(req) = "ok"
      BY <1>1 DEF Accept, Verdict
    <2>2. lane = "sigv4" => Dated(req) /\ ~Broken(req.query)
      BY <2>1, VerifyAccepts
    <2>3. CASE lane = "presigned"
      BY <1>1, <2>3 DEF Accept, IInv, StripPresignedQuery, Request
    <2>4. CASE lane # "presigned"
      BY <1>1, <2>2, <2>4, Zenon DEF Accept, IInv
    <2> QED
      BY <2>3, <2>4
  <1>2. CASE Reject
    BY <1>2, Verdicts, Zenon DEF Reject, IInv
  <1> QED
    BY <1>1, <1>2

\* Each way of applying the identity makes the request the user's, and dated.
LEMMA IdentityIInv == IInv /\ (ApplyResign \/ RewriteAccessKeyID \/ ApplySynthetic) => IInv'
  <1> SUFFICES ASSUME IInv, ApplyResign \/ RewriteAccessKeyID \/ ApplySynthetic PROVE IInv'
    OBVIOUS
  <1> USE DEF IInv
  <1>1. now # None
    BY ForwardAssumption
  <1>2. CASE ApplyResign
    <2> DEFINE r == SignHeaders(WithoutToken(req))
    <2>1. Request(r) /\ r.headers["x-amz-date"] = now /\ r.headers["x-amz-security-token"] = None
          /\ r.query = req.query
      BY SignHeadersContent, Zenon
    <2>2. "x-amz-security-token" \notin signedHeaderNames(r)
      BY <2>1 DEF signedHeaderNames
    <2> HIDE DEF r
    <2>3. CASE Broken(r.query)
      BY <1>2, <2>1, <2>3, Zenon DEF ApplyResign, r
    <2>4. CASE ~Broken(r.query)
      <3>1. PICK s : req' = [r EXCEPT !.auth =
                       [akid |-> "user", date |-> now, day |-> DayOf(now),
                        signed |-> signedHeaderNames(r), sig |-> s]]
        BY <1>2, <2>4 DEF ApplyResign, r
      <3>2. Request(req') /\ Dated(req') /\ TheUsers(req')
        BY <1>1, <2>1, <2>2, <3>1 DEF Request, Dated, TheUsers
      <3> QED
        BY <1>2, <2>4, <3>2 DEF ApplyResign, r
    <2> QED
      BY <2>3, <2>4, Zenon
  <1>3. CASE RewriteAccessKeyID
    <2>1. Dated(req)
      BY <1>3 DEF RewriteAccessKeyID, MustRewrite
    <2>2. Request(req') /\ Dated(req') /\ TheUsers(req')
      BY <1>3, <2>1, Zenon DEF RewriteAccessKeyID, WithoutToken, Request, Dated, TheUsers, Name, AmzHeader
    <2> QED
      BY <1>3, <2>2 DEF RewriteAccessKeyID
  <1>4. CASE ApplySynthetic
    <2>1. Request(req') /\ Dated(req') /\ TheUsers(req')
      BY <1>1, <1>4, Zenon DEF ApplySynthetic, WithoutToken, Request, Dated, TheUsers, Name, AmzHeader
    <2> QED
      BY <1>4, <2>1 DEF ApplySynthetic
  <1> QED
    BY <1>2, <1>3, <1>4, Zenon

\* The reverse proxy and the clock preserve the invariant.
LEMMA SendIInv == IInv /\ (ReverseProxy \/ Tick) => IInv'
  BY DEF ReverseProxy, Tick, IInv, Dated, TheUsers, Request

\* The invariant holds of every run.
THEOREM Invariance == Spec => []IInv
  <1>1. IInv /\ UNCHANGED vars => IInv'
    BY DEF IInv, vars, config, Dated, TheUsers, Request
  <1>2. IInv /\ [Next]_vars => IInv'
    BY <1>1, ArriveIInv, VerifyIInv, IdentityIInv, SendIInv, Zenon DEF Next
  <1> QED
    BY <1>2, InitIInv, PTL DEF Spec

-----------------------------------------------------------------------------
(* The content of the request. *)

\* What a client's signature covers, in a header and in a presigned URL.
SignedInHeader ==
  /\ {"x-amz-date", "x-amz-content-sha256"} \subseteq origin.auth.signed
  /\ origin.auth.sig = Signature("client", origin, origin.headers["x-amz-date"], origin.auth.day,
                                 origin.auth.signed, 0, PayloadHash(origin))
  /\ req.auth = origin.auth

SignedInQuery ==
  /\ origin.auth.sig = Signature("client", origin, origin.auth.date, origin.auth.day,
                                 origin.auth.signed, SigKey, "UNSIGNED-PAYLOAD")
  /\ req.auth = origin.auth
  /\ \A x \in KeyVal : x[1] = SigKey => Times(req.query, x) = Times(origin.query, x)

\* Sign has signed r as it stands, with all of its x-amz- headers and with no other.
Resigned(r) ==
  /\ r.headers["host"] = "gateway"
  /\ r.auth.sig = Signature("resign", r, r.headers["x-amz-date"], r.auth.day, r.auth.signed, 0,
                            r.headers["x-amz-content-sha256"])
  /\ r.auth.signed = signedHeaderNames(r)

\* What the reverse proxy makes of r.
Forwarded(r) == SetURL([WithoutHopByHop(r) EXCEPT !.query = CleanQuery(@)])

(***************************************************************************)
(* The second inductive invariant, on top of the first.  Until the request *)
(* is verified the client's signature is that of origin; afterwards its    *)
(* query can be signed anew on every lane but the bearer lane, on which it *)
(* is the one that arrived; and from then on it is signed as it stands.    *)
(***************************************************************************)
CInv ==
  /\ endpoint.path \in BOOLEAN /\ endpoint.query \in Seq(Param)
  /\ req.query \in Seq(Param) /\ origin.query \in Seq(Param)
  /\ req.path \in Path
  /\ req.hop = origin.hop /\ req.hop \subseteq AmzHeader \cup {"authorization"}
  /\ lane = "bearer" => req.query = origin.query
  /\ pc = "verify" /\ lane = "sigv4" => SignedInHeader
  /\ pc = "verify" /\ lane = "presigned" => SignedInQuery
  /\ pc = "identity" /\ lane # "bearer" => ~Broken(req.query)
  /\ pc \in {"identity", "fallback", "send", "done"} /\ lane = "presigned" => ~HasAuth(req.query)
  /\ pc = "fallback" => lane = "bearer" /\ Broken(req.query)
  /\ pc \in {"send", "done"} /\ mode = "resign" =>
       \/ Resigned(req)
       \/ req.auth.sig = NoSignature /\ lane = "bearer" /\ Broken(origin.query)
  /\ pc = "done" => sent = Forwarded(req)

\* A signature is not the placeholder of a synthetic header.
LEMMA SignatureIsOne ==
  ASSUME NEW r, NEW d, NEW y, NEW h, NEW k, NEW z
  PROVE  Signature("resign", r, d, y, h, k, z) # NoSignature
  <1>1. Signature("resign", r, d, y, h, k, z).secret = "resign"
    BY DEF Signature
  <1>2. NoSignature.secret = "none"
    BY Zenon DEF NoSignature
  <1> QED
    BY <1>1, <1>2, Zenon

\* Unaltered compares the queries on all pairs.
LEMMA UnalteredPairs ==
  ASSUME req.query \in Seq(Param), origin.query \in Seq(Param)
  PROVE  Unaltered <=> /\ \A x \in KeyVal : Times(req.query, x) = Times(origin.query, x)
                       /\ req.path = origin.path
                       /\ \A n \in origin.auth.signed : req.headers[n] = origin.headers[n]
  <1> DEFINE a == req.query
             b == origin.query
             Same == \A i \in DOMAIN b \cup DOMAIN a : \A q \in {b, a} :
                       i \in DOMAIN q => Times(a, Pair(q[i])) = Times(b, Pair(q[i]))
  <1>1. ASSUME Same, NEW x \in KeyVal PROVE Times(a, x) = Times(b, x)
    <2>1. CASE \E i \in DOMAIN a : Pair(a[i]) = x
      BY <1>1, <2>1, Zenon
    <2>2. CASE \E i \in DOMAIN b : Pair(b[i]) = x
      BY <1>1, <2>2
    <2>3. CASE ~(\E i \in DOMAIN a : Pair(a[i]) = x) /\ ~(\E i \in DOMAIN b : Pair(b[i]) = x)
      <3>1. {i \in DOMAIN a : Pair(a[i]) = x} = {} /\ {i \in DOMAIN b : Pair(b[i]) = x} = {}
        BY <2>3, Zenon
      <3> QED
        BY <3>1, Zenon DEF Times
    <2> QED
      BY <2>1, <2>2, <2>3, Zenon
  <1>2. ASSUME \A x \in KeyVal : Times(a, x) = Times(b, x) PROVE Same
    <2>1. /\ \A i \in DOMAIN a : a[i] \in Param
          /\ \A i \in DOMAIN b : b[i] \in Param
      OBVIOUS
    <2>2. \A p \in Param : Pair(p) \in KeyVal
      BY DEF Param, Pair, KeyVal
    <2> QED
      BY <1>2, <2>1, <2>2
  <1> QED
    BY <1>1, <1>2, Zenon DEF Unaltered

\* Verify accepts what was signed, and finds fault with the signature of nothing else.
LEMMA VerifyExact ==
  ASSUME req.query \in Seq(Param), origin.query \in Seq(Param), SignedInHeader
  PROVE  (Verify(req) = "ok" => Unaltered) /\ (Verify(req) = "mismatch" => ~Unaltered)
  <1> DEFINE arrived == Signature("client", req, req.headers["x-amz-date"], req.auth.day,
                                  req.auth.signed, 0, PayloadHash(req))
  <1>1. /\ Verify(req) = "ok" => req.auth.sig = arrived
        /\ Verify(req) = "mismatch" => req.auth.sig # arrived
    BY Zenon DEF Verify
  <1>2. req.auth.sig = arrived
          <=> /\ origin.headers["x-amz-date"] = req.headers["x-amz-date"]
              /\ PayloadHash(origin) = PayloadHash(req) /\ origin.path = req.path
              /\ canonicalQuery(origin.query, 0) = canonicalQuery(req.query, 0)
              /\ \A n \in origin.auth.signed : origin.headers[n] = req.headers[n]
    BY SignatureEqual DEF SignedInHeader
  <1>3. canonicalQuery(origin.query, 0) = canonicalQuery(req.query, 0)
          <=> \A x \in KeyVal : Times(req.query, x) = Times(origin.query, x)
    <2>1. canonicalQuery(origin.query, 0) = canonicalQuery(req.query, 0)
            <=> \A x \in KeyVal : x[1] # 0 => Times(origin.query, x) = Times(req.query, x)
      BY CanonicalEqual
    <2>2. ASSUME NEW x \in KeyVal, x[1] = 0 PROVE Times(origin.query, x) = 0 /\ Times(req.query, x) = 0
      BY <2>2, KeyZero, Zenon
    <2> QED
      BY <2>1, <2>2, Zenon
  <1>4. (\A n \in origin.auth.signed : origin.headers[n] = req.headers[n])
          => /\ origin.headers["x-amz-date"] = req.headers["x-amz-date"]
             /\ PayloadHash(origin) = PayloadHash(req)
    BY Zenon DEF SignedInHeader, PayloadHash
  <1>5. req.auth.sig = arrived <=> Unaltered
    BY <1>2, <1>3, <1>4, UnalteredPairs, Zenon
  <1> QED
    BY <1>1, <1>5, Zenon

\* So does VerifyPresigned.
LEMMA VerifyPresignedExact ==
  ASSUME req.query \in Seq(Param), origin.query \in Seq(Param), SignedInQuery
  PROVE  /\ VerifyPresigned(req) = "ok" => Unaltered
         /\ VerifyPresigned(req) = "mismatch" => ~Unaltered
  <1> DEFINE arrived == Signature("client", req, req.auth.date, req.auth.day,
                                  req.auth.signed, SigKey, "UNSIGNED-PAYLOAD")
  <1>1. /\ VerifyPresigned(req) = "ok" => req.auth.sig = arrived
        /\ VerifyPresigned(req) = "mismatch" => req.auth.sig # arrived
    BY Zenon DEF VerifyPresigned
  <1>2. req.auth.sig = arrived
          <=> /\ origin.path = req.path
              /\ canonicalQuery(origin.query, SigKey) = canonicalQuery(req.query, SigKey)
              /\ \A n \in origin.auth.signed : origin.headers[n] = req.headers[n]
    BY SignatureEqual, SMTT(60) DEF SignedInQuery
  <1>3. canonicalQuery(origin.query, SigKey) = canonicalQuery(req.query, SigKey)
          <=> \A x \in KeyVal : Times(req.query, x) = Times(origin.query, x)
    <2>1. canonicalQuery(origin.query, SigKey) = canonicalQuery(req.query, SigKey)
            <=> \A x \in KeyVal : x[1] # SigKey => Times(origin.query, x) = Times(req.query, x)
      BY CanonicalEqual, ZenonT(60)
    <2> QED
      BY <2>1, Zenon DEF SignedInQuery
  <1>4. req.auth.sig = arrived <=> Unaltered
    BY <1>2, <1>3, UnalteredPairs, Zenon
  <1> QED
    BY <1>1, <1>4, Zenon

\* The initial states satisfy the invariant.
LEMMA InitCInv == Init => CInv
  <1> SUFFICES ASSUME Init PROVE CInv
    OBVIOUS
  <1>1. /\ req.query = <<>> /\ origin.query = <<>> /\ req.path = [prefixed |-> FALSE, form |-> "escaped"]
        /\ req.hop = {} /\ origin.hop = {}
    BY BareRequest DEF Init, Nothing
  <1>2. <<>> \in Seq(Param)
    BY SMTT(30)
  <1>3. req.path \in Path
    BY <1>1 DEF Path
  <1>4. endpoint.path \in BOOLEAN /\ endpoint.query \in Seq(Param)
    BY ForwardAssumption, SMTT(30) DEF Init
  <1> QED
    BY <1>1, <1>2, <1>3, <1>4, Zenon DEF Init, CInv

\* A path that is escaped on its way is still one.
LEMMA EscapedPath ==
  ASSUME NEW p \in Path PROVE [p EXCEPT !.form = "escaped"] \in Path
  BY Zenon DEF Path

\* A request arrives signed as its client signed it, if it is signed at all.
LEMMA ArriveCInv == CInv /\ (ArriveBearer \/ ArriveHeader \/ ArrivePresigned) => CInv'
  <1> SUFFICES ASSUME CInv, ArriveBearer \/ ArriveHeader \/ ArrivePresigned PROVE CInv'
    OBVIOUS
  <1>1. ASSUME NEW l \in {"bearer", "sigv4", "presigned"}, NEW r, Begin(l, r),
               req'.query \in Seq(Param), origin'.query \in Seq(Param), req'.path \in Path,
               req'.hop = origin'.hop, origin'.hop \in Connection,
               l = "bearer" => req'.query = origin'.query,
               l = "sigv4" => SignedInHeader',
               l = "presigned" => SignedInQuery'
        PROVE  CInv'
    <2>1. req'.hop \subseteq AmzHeader \cup {"authorization"}
      BY <1>1, ForwardAssumption, Zenon
    <2> QED
      BY <1>1, <2>1 DEF Begin, CInv, config
  <1>2. CASE ArriveBearer
    <2>1. PICK path \in Path, q \in Query, hash \in {None, "declared"}, token \in {None, "session"},
               hop \in Connection :
            Begin("bearer", Bare(path, q, hash, token, hop))
      BY <1>2, Zenon DEF ArriveBearer
    <2>2. req' = Bare(path, q, hash, token, hop) /\ origin' = Bare(path, q, hash, token, hop)
      BY <1>2, <2>1, Zenon DEF ArriveBearer, Begin
    <2>3. /\ req'.query = q /\ origin'.query = q /\ req'.path = path
          /\ req'.hop = hop /\ origin'.hop = hop
      BY <2>2, BareRequest
    <2>4. q \in Seq(Param)
      BY ForwardAssumption, Zenon
    <2> QED
      BY <1>1, <2>1, <2>3, <2>4, Zenon
  <1>3. CASE ArriveHeader
    <2>1. PICK path \in Path, q \in {p \in Query : ~Broken(p)}, signed \in {Name, Name \ {"x-amz-meta"}},
               hash \in {None, "declared"}, hop \in Connection,
               d \in {now - Skew - 1, now - Skew, now + Skew}, y \in {DayOf(now), DayOf(now) + 1} :
            Begin("sigv4", HeaderSigned(path, q, hash, hop, d, y, signed))
      BY <1>3, Zenon DEF ArriveHeader
    <2>2. origin' = HeaderSigned(path, q, hash, hop, d, y, signed) /\ req' \in Arriving(origin')
      BY <1>3, <2>1, ZenonT(60) DEF Begin, ArriveHeader
    <2>3. /\ Request(origin') /\ origin'.path = path /\ origin'.query = q /\ origin'.hop = hop
          /\ origin'.auth.signed = signed
          /\ origin'.auth.sig = Signature("client", origin', origin'.headers["x-amz-date"],
                                          origin'.auth.day, signed, 0, PayloadHash(origin'))
      BY <2>2, HeaderSignedContent
    <2>4. /\ req'.auth = origin'.auth /\ req'.hop = origin'.hop
          /\ req'.query = origin'.query \/ req'.query \in Query
          /\ req'.path = origin'.path \/ req'.path = [origin'.path EXCEPT !.form = "escaped"]
      BY <2>2, <2>3, ArrivingContent, ZenonT(60)
    <2>5. {"x-amz-date", "x-amz-content-sha256"} \subseteq signed
      BY DEF Name, AmzHeader
    <2>6. SignedInHeader'
      BY <2>3, <2>4, <2>5, Zenon DEF SignedInHeader
    <2>7. origin'.query \in Seq(Param) /\ req'.query \in Seq(Param)
      BY <2>3, <2>4, ForwardAssumption, Zenon
    <2>8. req'.path \in Path
      BY <2>3, <2>4, EscapedPath, Zenon
    <2> QED
      BY <1>1, <2>1, <2>3, <2>4, <2>6, <2>7, <2>8, Zenon
  <1>4. CASE ArrivePresigned
    <2>1. PICK path \in Path, q \in {p \in Query : HasAuth(p) /\ ~Broken(p)},
               hash \in {None, "declared"}, hop \in Connection,
               d \in {now - Expires - 1, now - Expires, now + Skew, now + Skew + 1},
               y \in {DayOf(now), DayOf(now) + 1} :
            Begin("presigned", QuerySigned(path, q, hash, hop, d, y))
      BY <1>4, Zenon DEF ArrivePresigned
    <2>2. q \in Seq(Param) /\ \A i \in DOMAIN q : q[i].key # SigKey
      BY ForwardAssumption
    <2>3. origin' = QuerySigned(path, q, hash, hop, d, y) /\ req' \in ArrivingPresigned(origin')
      BY <1>4, <2>1, Zenon DEF Begin, ArrivePresigned
    <2>4. /\ Request(origin') /\ origin'.path = path /\ origin'.hop = hop
          /\ origin'.query = Append(q, SignatureParam)
          /\ origin'.auth.sig = Signature("client", origin', origin'.auth.date, origin'.auth.day,
                                          origin'.auth.signed, SigKey, "UNSIGNED-PAYLOAD")
      <3>1. canonicalQuery(Append(q, SignatureParam), SigKey) = canonicalQuery(q, SigKey)
        BY <2>2, AppendSkipped
      <3> QED
        BY <2>3, <3>1, QuerySignedContent
    <2>5. /\ req'.auth = origin'.auth /\ req'.hop = origin'.hop
          /\ req'.query = origin'.query \/ \E p \in Query : req'.query = Append(p, SignatureParam)
          /\ req'.path = origin'.path \/ req'.path = [origin'.path EXCEPT !.form = "escaped"]
      <3>1. req' \in ArrivingPresigned(origin') /\ Request(origin')
        BY <2>3, <2>4
      <3> QED
        BY <3>1, ArrivingPresignedContent, ZenonT(60)
    <2>6. PICK arrived \in Query : req'.query = Append(arrived, SignatureParam)
      BY <2>1, <2>4, <2>5, Zenon
    <2>7. arrived \in Seq(Param) /\ \A i \in DOMAIN arrived : arrived[i].key # SigKey
      BY ForwardAssumption
    <2>8. ASSUME NEW x \in KeyVal, x[1] = SigKey
          PROVE  Times(req'.query, x) = Times(origin'.query, x)
      <3>1. Times(Append(q, SignatureParam), x) = IF x = <<SigKey, 0>> THEN 1 ELSE 0
        BY <2>2, <2>8, AppendTimes, Zenon
      <3>2. Times(Append(arrived, SignatureParam), x) = IF x = <<SigKey, 0>> THEN 1 ELSE 0
        BY <2>7, <2>8, AppendTimes, Zenon
      <3> QED
        BY <2>4, <2>6, <3>1, <3>2, Zenon
    <2>9. SignedInQuery'
      BY <2>4, <2>5, <2>8, Zenon DEF SignedInQuery
    <2>10. req'.query \in Seq(Param) /\ origin'.query \in Seq(Param)
      BY <2>2, <2>4, <2>6, <2>7, SignatureParamType
    <2>11. req'.path \in Path
      BY <2>4, <2>5, EscapedPath, Zenon
    <2> QED
      BY <1>1, <2>1, <2>4, <2>5, <2>9, <2>10, <2>11, ZenonT(60)
  <1> QED
    BY <1>2, <1>3, <1>4

\* What StripPresignedQuery leaves.
LEMMA StripContent ==
  ASSUME NEW r, Request(r), r.query \in Seq(Param)
  PROVE  LET s == StripPresignedQuery(r)
         IN /\ s.query \in Seq(Param) /\ s.path = r.path /\ s.hop = r.hop
            /\ ~HasAuth(s.query)
            /\ ~Broken(r.query) => ~Broken(s.query)
  <1> DEFINE q == r.query
             I == {i \in DOMAIN q : q[i].key \notin AuthKey}
             kept == Subsequence(q, I)
  <1>1. kept \in Seq(Param) /\ \A n \in DOMAIN kept : \E i \in I : kept[n] = q[i]
    <2>1. q \in Seq(Param) /\ I \in SUBSET DOMAIN q
      OBVIOUS
    <2> HIDE DEF q, I
    <2> QED
      BY <2>1, SubsequenceType
  <1>2. StripPresignedQuery(r) = [r EXCEPT !.query = kept]
    BY Zenon DEF StripPresignedQuery
  <1>3. ~HasAuth(kept)
    BY <1>1, Zenon DEF HasAuth
  <1>4. ~Broken(q) => ~Broken(kept)
    BY <1>1 DEF Broken
  <1> HIDE DEF kept, q
  <1>5. /\ StripPresignedQuery(r).query = kept /\ StripPresignedQuery(r).path = r.path
        /\ StripPresignedQuery(r).hop = r.hop
    BY <1>2, QuerySet
  <1> QED
    BY <1>1, <1>3, <1>4, <1>5, ZenonT(60) DEF q

\* Verification preserves the invariant.
LEMMA VerifyCInv == IInv /\ CInv /\ (Accept \/ Reject) => CInv'
  <1> SUFFICES ASSUME IInv, CInv, Accept \/ Reject PROVE CInv'
    OBVIOUS
  <1>1. CASE Accept
    <2>1. lane \in {"bearer", "sigv4", "presigned"} /\ Request(req) /\ req.query \in Seq(Param)
      BY <1>1 DEF Accept, IInv, CInv
    <2>2. lane = "sigv4" => ~Broken(req.query)
      BY <1>1, VerifyAccepts, Zenon DEF Accept, Verdict
    <2>3. lane = "presigned" => ~Broken(req.query)
      BY <1>1, Zenon DEF Accept, Verdict, VerifyPresigned
    <2>4. CASE lane = "presigned"
      <3>1. req' = StripPresignedQuery(req)
        BY <1>1, <2>4, Zenon DEF Accept
      <3>2. /\ req'.query \in Seq(Param) /\ req'.path = req.path /\ req'.hop = req.hop
            /\ ~HasAuth(req'.query) /\ ~Broken(req'.query)
        BY <2>1, <2>3, <2>4, <3>1, StripContent, ZenonT(60) DEF CInv
      <3> QED
        BY <1>1, <2>4, <3>2, Zenon DEF Accept, CInv, config
    <2>5. CASE lane # "presigned"
      BY <1>1, <2>1, <2>2, <2>5, Zenon DEF Accept, CInv, config
    <2> QED
      BY <2>4, <2>5, ZenonT(60)
  <1>2. CASE Reject
    <2>1. pc' \in {"ok", "missing_date", "skew", "scope", "malformed", "mismatch", "url_expired"}
      BY <1>2, Verdicts DEF Reject, IInv
    <2> QED
      BY <1>2, <2>1, Zenon DEF Reject, CInv, config
  <1> QED
    BY <1>1, <1>2

\* Signing a request as it stands gives one that is signed as it stands.
LEMMA ResignedSet ==
  ASSUME NEW r, Request(r), NEW d, NEW y, r.headers["host"] = "gateway", r.headers["x-amz-date"] = d,
         NEW h, h = signedHeaderNames(r),
         NEW s, s = Signature("resign", r, d, y, h, 0, r.headers["x-amz-content-sha256"]),
         NEW u, u = [r EXCEPT !.auth = [akid |-> "user", date |-> d, day |-> y, signed |-> h, sig |-> s]]
  PROVE  /\ Request(u) /\ Resigned(u)
         /\ u.path = r.path /\ u.query = r.query /\ u.headers = r.headers /\ u.hop = r.hop
  <1>1. /\ Request(u) /\ u.auth.day = y /\ u.auth.signed = h /\ u.auth.sig = s
        /\ u.path = r.path /\ u.query = r.query /\ u.headers = r.headers /\ u.hop = r.hop
    BY DEF Request
  <1>2. s = Signature("resign", u, d, y, h, 0, u.headers["x-amz-content-sha256"])
    BY <1>1, Zenon DEF Signature
  <1>3. h = signedHeaderNames(u)
    BY <1>1, ZenonT(60) DEF signedHeaderNames
  <1> QED
    BY <1>1, <1>2, <1>3, Zenon DEF Resigned

\* A re-signed request is signed as it stands; one that cannot be signed is a bearer's.
LEMMA ResignCInv == IInv /\ CInv /\ ApplyResign => CInv'
  <1> SUFFICES ASSUME IInv, CInv, ApplyResign PROVE CInv'
    BY Zenon
  <1> DEFINE r == SignHeaders(WithoutToken(req))
             signed == signedHeaderNames(r)
             s == Signature("resign", r, now, DayOf(now), signed, 0, r.headers["x-amz-content-sha256"])
  <1>1. /\ Request(r) /\ r.path = req.path /\ r.hop = req.hop /\ r.query = req.query
        /\ r.headers["host"] = "gateway" /\ r.headers["x-amz-date"] = now
    BY SignHeadersContent, Zenon DEF IInv
  <1> HIDE DEF r, signed, s
  <1>3. CASE Broken(r.query)
    <2>1. req' = r /\ pc' = "fallback"
      BY <1>3, Zenon DEF ApplyResign, r
    <2>2. lane = "bearer" /\ Broken(req.query)
      BY <1>1, <1>3, Zenon DEF ApplyResign, CInv
    <2> QED
      BY <1>1, <2>1, <2>2, Zenon DEF ApplyResign, CInv, config
  <1>4. CASE ~Broken(r.query)
    <2> DEFINE u == [r EXCEPT !.auth = [akid |-> "user", date |-> now, day |-> DayOf(now), signed |-> signed, sig |-> s]]
    <2>1. req' = u /\ pc' = "send"
      BY <1>4 DEF ApplyResign, r, signed, s
    <2>2. /\ signed = signedHeaderNames(r)
          /\ s = Signature("resign", r, now, DayOf(now), signed, 0, r.headers["x-amz-content-sha256"])
          /\ u = [r EXCEPT !.auth = [akid |-> "user", date |-> now, day |-> DayOf(now), signed |-> signed, sig |-> s]]
      BY Zenon DEF signed, s
    <2> HIDE DEF u
    <2>3. /\ Request(u) /\ Resigned(u) /\ u.path = r.path /\ u.query = r.query
          /\ u.headers = r.headers /\ u.hop = r.hop
      BY <1>1, <2>2, ResignedSet, SMT
    <2>4. Resigned(req)'
      BY <2>1, <2>3, Zenon DEF Resigned, signedHeaderNames
    <2> QED
      BY <1>1, <2>1, <2>3, <2>4, Zenon DEF ApplyResign, CInv, config
  <1> QED
    BY <1>3, <1>4, Zenon

\* The two forms of the header without a signature of the proxy.
LEMMA RewriteCInv == IInv /\ CInv /\ (RewriteAccessKeyID \/ ApplySynthetic) => CInv'
  <1> SUFFICES ASSUME IInv, CInv, RewriteAccessKeyID \/ ApplySynthetic PROVE CInv'
    OBVIOUS
  <1>1. Request(req)
    BY DEF IInv
  <1>2. CASE RewriteAccessKeyID
    <2>1. req'.path = req.path /\ req'.hop = req.hop /\ req'.query = req.query
      BY <1>1, <1>2, Zenon DEF RewriteAccessKeyID, WithoutToken, Request
    <2>2. lane = "sigv4" /\ mode # "resign"
      BY <1>2, Zenon DEF RewriteAccessKeyID, MustRewrite, CInv
    <2> QED
      BY <1>2, <2>1, <2>2, Zenon DEF RewriteAccessKeyID, CInv, config
  <1>3. CASE ApplySynthetic
    <2>1. req'.path = req.path /\ req'.hop = req.hop /\ req'.query = req.query /\ req'.auth.sig = NoSignature
      BY <1>1, <1>3, Zenon DEF ApplySynthetic, WithoutToken, Request
    <2>2. pc = "fallback" \/ (pc = "identity" /\ mode = "rewrite")
      BY <1>3 DEF ApplySynthetic, MustRewrite
    <2> QED
      BY <1>3, <2>1, <2>2, Zenon DEF ApplySynthetic, CInv, config
  <1> QED
    BY <1>2, <1>3

\* The reverse proxy, the clock and nothing at all.
LEMMA SendCInv == CInv /\ (ReverseProxy \/ Tick \/ UNCHANGED vars) => CInv'
  <1> SUFFICES ASSUME CInv, ReverseProxy \/ Tick \/ UNCHANGED vars PROVE CInv'
    BY Zenon
  <1>1. CASE ReverseProxy
    <2>1. sent' = Forwarded(req)'
      BY <1>1, Zenon DEF ReverseProxy, Forwarded, SetURL, WithoutHopByHop, config
    <2> QED
      BY <1>1, <2>1, Zenon DEF ReverseProxy, CInv, config, Resigned, signedHeaderNames
  <1>2. CASE Tick \/ UNCHANGED vars
    <2>1. UNCHANGED <<endpoint, mode, pc, lane, req, origin, sent>>
      BY <1>2, Zenon DEF Tick, vars, config
    <2>2. SignedInHeader' = SignedInHeader /\ SignedInQuery' = SignedInQuery
      BY <2>1 DEF SignedInHeader, SignedInQuery
    <2>3. Resigned(req)' = Resigned(req) /\ Forwarded(req)' = Forwarded(req)
      BY <2>1 DEF Resigned, signedHeaderNames, Forwarded, SetURL, WithoutHopByHop
    <2> QED
      BY <2>1, <2>2, <2>3, ZenonT(60) DEF CInv
  <1> QED
    BY <1>1, <1>2

\* Both invariants hold of every run.
THEOREM ContentInvariance == Spec => [](IInv /\ CInv)
  <1>1. IInv /\ CInv /\ [Next]_vars => CInv'
    BY ArriveCInv, VerifyCInv, ResignCInv, RewriteCInv, SendCInv, Zenon DEF Next
  <1> QED
    BY <1>1, InitCInv, Invariance, PTL DEF Spec

(***************************************************************************)
(* Verify and VerifyPresigned accept exactly what was signed, for all      *)
(* queries: the canonical form is the same if and only if the parameters   *)
(* are, in whatever order and escaping they are sent.                      *)
(***************************************************************************)
THEOREM AlwaysAcceptedAsSigned == Spec => AcceptedAsSigned
  <1> DEFINE Step == pc = "verify" /\ lane # "bearer" =>
                       /\ pc' = "identity" => Unaltered
                       /\ pc' = "mismatch" => ~Unaltered
  <1>1. IInv /\ CInv /\ [Next]_vars => [Step]_vars
    <2> SUFFICES ASSUME IInv, CInv, Next, pc = "verify", lane # "bearer"
                 PROVE  (pc' = "identity" => Unaltered) /\ (pc' = "mismatch" => ~Unaltered)
      BY Zenon
    <2>1. req.query \in Seq(Param) /\ origin.query \in Seq(Param)
      BY Zenon DEF CInv
    <2>2. Accept \/ Reject \/ pc' = pc
      BY Zenon DEF Next, ArriveBearer, ArriveHeader, ArrivePresigned, ApplyResign,
             RewriteAccessKeyID, ApplySynthetic, MustRewrite, ReverseProxy, Tick
    <2>3. (pc' = "identity" => Verdict = "ok") /\ (pc' = "mismatch" => Verdict = "mismatch")
      BY <2>2, Verdicts, Zenon DEF Accept, Reject, IInv
    <2>4. CASE lane = "sigv4"
      <3>1. SignedInHeader /\ Verdict = Verify(req)
        BY <2>4 DEF CInv, Verdict
      <3> QED
        BY <2>1, <2>3, <3>1, VerifyExact, Zenon
    <2>5. CASE lane = "presigned"
      <3>1. SignedInQuery /\ Verdict = VerifyPresigned(req)
        BY <2>5, Zenon DEF CInv, Verdict
      <3> QED
        BY <2>1, <2>3, <3>1, VerifyPresignedExact, Zenon
    <2> QED
      BY <2>4, <2>5, Zenon DEF IInv
  <1> QED
    BY <1>1, ContentInvariance, PTL DEF Spec, AcceptedAsSigned

\* What the reverse proxy makes of a query: the parameters net/url can parse.
LEMMA CleanContent ==
  ASSUME NEW q \in Seq(Param)
  PROVE  LET parsable == \A i \in DOMAIN q : ~Unparsable(q[i])
             c == CleanQuery(q)
         IN /\ c \in Seq(Param)
            /\ parsable => c = q
            /\ ~parsable => Len(c) < Len(q)
            /\ ~HasAuth(q) => ~HasAuth(c)
  <1> DEFINE I == {i \in DOMAIN q : ~Unparsable(q[i])}
             kept == Subsequence(q, I)
             parsable == \A i \in DOMAIN q : ~Unparsable(q[i])
             anew == [i \in DOMAIN kept |-> [kept[i] EXCEPT !.form = "escaped"]]
  <1>1. I \in SUBSET DOMAIN q /\ (parsable <=> I = DOMAIN q)
    BY Zenon
  <1>2. CleanQuery(q) = IF Len(kept) = Len(q) THEN q ELSE anew
    BY Zenon DEF CleanQuery
  <1> HIDE DEF I, parsable
  <1>3. /\ kept \in Seq(Param) /\ DOMAIN kept = 1..Cardinality(I) /\ Len(kept) = Cardinality(I)
        /\ \A n \in DOMAIN kept : \E i \in I : kept[n] = q[i]
    BY <1>1, SubsequenceType, Zenon
  <1>4. /\ IsFiniteSet(DOMAIN q) /\ Cardinality(DOMAIN q) = Len(q) /\ Len(q) \in Nat
        /\ Cardinality(I) \in Nat /\ Cardinality(I) <= Len(q)
    BY <1>1, Positions, Zenon
  <1>5. Cardinality(I) = Len(q) <=> parsable
    BY <1>1, <1>4, FS_Subset, Zenon
  <1> HIDE DEF kept
  <1>6. CASE parsable
    BY <1>2, <1>3, <1>5, <1>6, Zenon DEF parsable
  <1>7. CASE ~parsable
    <2>1. CleanQuery(q) = anew /\ Cardinality(I) < Len(q)
      BY <1>2, <1>3, <1>4, <1>5, <1>7, SMTT(60)
    <2>2. \A n \in DOMAIN kept : kept[n] \in Param
      BY <1>3
    <2>3. \A n \in DOMAIN kept : anew[n] \in Param /\ anew[n].key = kept[n].key
      BY <2>2, Zenon DEF Param
    <2>4. DOMAIN anew = 1..Cardinality(I) /\ anew = [n \in 1..Cardinality(I) |-> anew[n]]
      BY <1>3
    <2>5. ~HasAuth(q) => ~HasAuth(anew)
      BY <1>1, <1>3, <2>3, ZenonT(60) DEF HasAuth
    <2> HIDE DEF anew
    <2>6. anew \in Seq(Param) /\ Len(anew) = Cardinality(I)
      BY <1>3, <1>4, <2>3, <2>4
    <2> QED
      BY <1>7, <2>1, <2>5, <2>6, Zenon DEF parsable
  <1> QED
    BY <1>6, <1>7, Zenon

\* The request the gateway receives.
LEMMA ForwardedContent ==
  ASSUME NEW r, Request(r)
  PROVE  LET f == Forwarded(r)
         IN /\ f.auth = IF "authorization" \in r.hop THEN NoAuth ELSE r.auth
            /\ f.query = endpoint.query \o CleanQuery(r.query)
            /\ f.path = [prefixed |-> endpoint.path, form |-> "escaped"]
            /\ \A n \in Name : f.headers[n] = IF n = "host" THEN "gateway"
                                              ELSE IF n \in r.hop THEN None ELSE r.headers[n]
  <1> DEFINE auth == IF "authorization" \in r.hop THEN NoAuth ELSE r.auth
             headers == [n \in Name |-> IF n \in r.hop THEN None ELSE r.headers[n]]
             c == CleanQuery(r.query)
             whole == endpoint.query \o c
             path == [prefixed |-> endpoint.path, form |-> "escaped"]
             w == [WithoutHopByHop(r) EXCEPT !.query = CleanQuery(@)]
             f == [path |-> path, query |-> whole, auth |-> auth, hop |-> r.hop,
                   headers |-> [headers EXCEPT !["host"] = "gateway"]]
  <1>1. WithoutHopByHop(r) = [path |-> r.path, query |-> r.query, auth |-> auth, hop |-> r.hop,
                              headers |-> headers]
    <2>1. WithoutHopByHop(r) = [r EXCEPT !.auth = auth, !.headers = headers]
      BY DEF WithoutHopByHop
    <2> HIDE DEF auth, headers
    <2> QED
      BY <2>1, Zenon DEF Request
  <1>2. w = [path |-> r.path, query |-> c, auth |-> auth, hop |-> r.hop, headers |-> headers]
    <2> HIDE DEF auth, headers
    <2> QED
      BY <1>1
  <1> HIDE DEF w
  <1>3. Forwarded(r) = [w EXCEPT !.path = path, !.query = endpoint.query \o @,
                                 !.headers["host"] = "gateway"]
    BY DEF Forwarded, SetURL, w
  <1>4. Forwarded(r) = f
    <2>1. endpoint.query \o w.query = whole
      BY <1>2, Zenon
    <2>2. Forwarded(r) = [w EXCEPT !.path = path, !.query = whole, !.headers["host"] = "gateway"]
      BY <1>2, <1>3
    <2> HIDE DEF auth, headers, c, whole, path
    <2> QED
      BY <1>2, <2>2, Zenon
  <1>5. \A n \in Name : [headers EXCEPT !["host"] = "gateway"][n] =
                          IF n = "host" THEN "gateway" ELSE IF n \in r.hop THEN None ELSE r.headers[n]
    OBVIOUS
  <1> HIDE DEF auth, headers, c, whole, path
  <1>6. /\ Forwarded(r).auth = auth /\ Forwarded(r).query = whole /\ Forwarded(r).path = path
        /\ Forwarded(r).headers = [headers EXCEPT !["host"] = "gateway"]
    BY <1>4
  <1> QED
    BY <1>5, <1>6, Zenon DEF auth, whole, c, path

\* What the gateway receives once the request has gone out.
LEMMA SentContent ==
  ASSUME IInv, CInv, pc = "done"
  PROVE  /\ sent.auth = IF "authorization" \in req.hop THEN NoAuth ELSE req.auth
         /\ sent.query = endpoint.query \o CleanQuery(req.query)
         /\ sent.path = [prefixed |-> endpoint.path, form |-> "escaped"]
         /\ \A n \in Name : sent.headers[n] = IF n = "host" THEN "gateway"
                                              ELSE IF n \in req.hop THEN None ELSE req.headers[n]
  <1>1. Request(req) /\ sent = Forwarded(req)
    BY DEF IInv, CInv
  <1> QED
    BY <1>1, ForwardedContent, Zenon

(***************************************************************************)
(* The scope of a forwarded identity is of the day of X-Amz-Date, for all  *)
(* queries, clocks and days: applyIdentity reads the clock after Verify    *)
(* did, and once more where Sign fails.  Without the date it is forwarded  *)
(* only where Connection names that header.                                *)
(***************************************************************************)
THEOREM ScopeAlwaysMatchesDate == Spec => []ScopeMatchesDate
  <1>1. IInv /\ CInv => ScopeMatchesDate
    <2> SUFFICES ASSUME IInv, CInv, pc = "done", sent.auth.akid = "user"
                 PROVE  \/ sent.headers["x-amz-date"] = None /\ "x-amz-date" \in origin.hop
                        \/ /\ sent.headers["x-amz-date"] # None
                           /\ sent.auth.day = DayOf(sent.headers["x-amz-date"])
      BY Zenon DEF ScopeMatchesDate
    <2>1. sent.auth = req.auth
      BY SentContent DEF NoAuth
    <2>2. sent.headers["x-amz-date"] = IF "x-amz-date" \in req.hop THEN None ELSE req.headers["x-amz-date"]
      BY SentContent, Zenon DEF Name, AmzHeader
    <2>3. Dated(req) /\ req.hop = origin.hop
      BY Zenon DEF IInv, CInv
    <2> QED
      BY <2>1, <2>2, <2>3, Zenon DEF Dated
  <1> QED
    BY <1>1, ContentInvariance, PTL

(***************************************************************************)
(* The gateway sees one identity, the user's, for all queries, endpoints   *)
(* and Connection headers, in either forward mode and on every lane: the   *)
(* key id is theirs, nothing is left of the session token, nor of the      *)
(* parameters of a presigned URL (applyIdentity, StripPresignedQuery).  It *)
(* sees none only where Connection names Authorization.                    *)
(***************************************************************************)
THEOREM OneIdentityAlwaysForwarded == Spec => []OneIdentityForwarded
  <1>1. IInv /\ CInv => OneIdentityForwarded
    <2> SUFFICES ASSUME IInv, CInv, pc = "done"
                 PROVE  /\ sent.auth.akid = "user" \/ (sent.auth = NoAuth /\ "authorization" \in origin.hop)
                        /\ sent.headers["x-amz-security-token"] = None
                        /\ "x-amz-security-token" \notin sent.auth.signed
                        /\ lane = "presigned" =>
                             \A i \in DOMAIN sent.query :
                               sent.query[i].key \in AuthKey => i <= Len(endpoint.query)
      BY Zenon DEF OneIdentityForwarded
    <2>1. TheUsers(req) /\ req.hop = origin.hop
      BY Zenon DEF IInv, CInv
    <2>2. sent.auth.akid = "user" \/ (sent.auth = NoAuth /\ "authorization" \in origin.hop)
      BY <2>1, SentContent, Zenon DEF TheUsers
    <2>3. "x-amz-security-token" \notin sent.auth.signed
      BY <2>1, SentContent, SMTT(60) DEF TheUsers, NoAuth
    <2>4. sent.headers["x-amz-security-token"] = None
      BY <2>1, SentContent, Zenon DEF TheUsers, Name, AmzHeader
    <2>5. ASSUME lane = "presigned", NEW i \in DOMAIN sent.query, sent.query[i].key \in AuthKey
          PROVE  i <= Len(endpoint.query)
      <3> DEFINE e == endpoint.query
                 c == CleanQuery(req.query)
      <3>1. e \in Seq(Param) /\ c \in Seq(Param) /\ ~HasAuth(c)
        BY <2>5, CleanContent, Zenon DEF CInv
      <3>2. sent.query = e \o c
        BY SentContent, Zenon
      <3> HIDE DEF e, c
      <3>3. i \in 1..Len(e) + Len(c) /\ Len(e) \in Nat /\ Len(c) \in Nat
        BY <2>5, <3>1, <3>2
      <3>4. SUFFICES ASSUME i > Len(e) PROVE FALSE
        BY <3>3 DEF e
      <3>5. i - Len(e) \in DOMAIN c /\ sent.query[i] = c[i - Len(e)]
        BY <3>1, <3>2, <3>3, <3>4
      <3> QED
        BY <2>5, <3>1, <3>5, Zenon DEF HasAuth
    <2> QED
      BY <2>2, <2>3, <2>4, <2>5, Zenon
  <1> QED
    BY <1>1, ContentInvariance, PTL

\* A query that the endpoint's precedes, or that loses a parameter, has another
\* canonical form than the one that was signed.
LEMMA SameQuery ==
  ASSUME NEW q \in Seq(Param), NEW e \in Seq(Param)
  PROVE  LET c == CleanQuery(q)
         IN /\ e = <<>> => (canonicalQuery(q, 0) = canonicalQuery(e \o c, 0) <=> Parsable(q))
            /\ e # <<>> /\ Parsable(q) => canonicalQuery(q, 0) # canonicalQuery(e \o c, 0)
  <1> DEFINE c == CleanQuery(q)
             w == e \o c
  <1>1. c \in Seq(Param) /\ (Parsable(q) => c = q) /\ (~Parsable(q) => Len(c) < Len(q))
    BY CleanContent DEF Parsable
  <1> HIDE DEF c
  <1>2. /\ w \in Seq(Param) /\ Len(w) = Len(e) + Len(c) /\ (e = <<>> => w = c)
        /\ Len(e) \in Nat /\ Len(c) \in Nat /\ Len(q) \in Nat
        /\ (e # <<>> => Len(e) # 0)
    BY <1>1, SMTT(60)
  <1> HIDE DEF w
  <1>3. DOMAIN canonicalQuery(q, 0) = 1..Len(q) /\ DOMAIN canonicalQuery(w, 0) = 1..Len(w)
    BY <1>2, CanonicalLength, Zenon
  <1>4. ASSUME Len(q) # Len(w) PROVE canonicalQuery(q, 0) # canonicalQuery(w, 0)
    <2>1. 1..Len(q) # 1..Len(w)
      <3>1. CASE Len(q) < Len(w)
        <4>1. Len(w) \in 1..Len(w) /\ Len(w) \notin 1..Len(q)
          BY <1>1, <1>2, <3>1
        <4> QED
          BY <4>1
      <3>2. CASE Len(w) < Len(q)
        <4>1. Len(q) \in 1..Len(q) /\ Len(q) \notin 1..Len(w)
          BY <1>1, <1>2, <3>2
        <4> QED
          BY <4>1
      <3> QED
        BY <1>2, <1>4, <3>1, <3>2
    <2> QED
      BY <1>3, <2>1, Zenon
  <1>5. CASE e = <<>>
    <2>1. w = c
      BY <1>2, <1>5, Zenon
    <2>2. CASE Parsable(q)
      BY <1>1, <1>5, <2>1, <2>2, Zenon DEF w, c
    <2>3. CASE ~Parsable(q)
      <3>1. Len(q) # Len(w)
        BY <1>1, <1>2, <2>1, <2>3
      <3> QED
        BY <1>4, <1>5, <2>3, <3>1, Zenon DEF w, c
    <2> QED
      BY <2>2, <2>3, Zenon
  <1>6. CASE e # <<>>
    <2>1. Parsable(q) => Len(q) # Len(w)
      BY <1>1, <1>2, <1>6, SMTT(60)
    <2> QED
      BY <1>4, <1>6, <2>1, Zenon DEF w, c
  <1> QED
    BY <1>5, <1>6, Zenon

(***************************************************************************)
(* A re-signed request is valid as the gateway receives it if and only if  *)
(* the reverse proxy forwards what was signed: path, query and signed      *)
(* headers (applyIdentity, Sign and NewReverseProxy, for all queries,      *)
(* endpoints and Connection headers).  Without a signature go out only a   *)
(* bearer request with a broken query, and one whose Connection header     *)
(* names Authorization.                                                    *)
(***************************************************************************)
THEOREM ResignedAlwaysValid == Spec => []ResignedIsValid
  <1>1. IInv /\ CInv => ResignedIsValid
    <2> DEFINE alike == /\ ~endpoint.path /\ req.path.form = "escaped"
                        /\ req.hop \cap req.auth.signed = {}
    <2> SUFFICES ASSUME IInv, CInv, pc = "done", mode = "resign"
                 PROVE  /\ sent.auth.sig = NoSignature =>
                             "authorization" \in origin.hop \/ (lane = "bearer" /\ Broken(origin.query))
                        /\ sent.auth.sig # NoSignature =>
                             /\ endpoint.query = <<>> => (GatewayVerifies <=> alike /\ Parsable(req.query))
                             /\ endpoint.query # <<>> /\ Parsable(req.query) => ~GatewayVerifies
      BY Zenon DEF ResignedIsValid
    <2> HIDE DEF alike
    <2>1. CASE "authorization" \in req.hop
      <3>1. sent.auth.sig = NoSignature
        BY <2>1, SentContent, SMTT(60) DEF NoAuth
      <3>2. req.hop = origin.hop
        BY DEF CInv
      <3> QED
        BY <2>1, <3>1, <3>2, Zenon
    <2>2. CASE "authorization" \notin req.hop /\ req.auth.sig = NoSignature
               /\ lane = "bearer" /\ Broken(origin.query)
      <3>1. sent.auth = req.auth
        BY <2>2, SentContent
      <3> QED
        BY <2>2, <3>1, Zenon
    <2>3. CASE "authorization" \notin req.hop /\ Resigned(req)
      <3>1. sent.auth = req.auth
        BY <2>3, SentContent, Zenon
      <3>2. sent.auth.sig # NoSignature
        BY <2>3, <3>1, SignatureIsOne, Zenon DEF Resigned
      <3>3. /\ "host" \notin req.hop
            /\ req.headers["host"] = "gateway"
            /\ req.auth.signed = {"host"} \cup {n \in AmzHeader : req.headers[n] # None}
        BY <2>3, Zenon DEF CInv, AmzHeader, Resigned, signedHeaderNames
      <3>4. \A n \in Name : sent.headers[n] = IF n \in req.hop THEN None ELSE req.headers[n]
        BY <3>3, SentContent
      <3>5. (\A n \in req.auth.signed : req.headers[n] = sent.headers[n])
              <=> req.hop \cap req.auth.signed = {}
        BY <3>3, <3>4, Zenon DEF Name
      <3>6. req.hop \cap req.auth.signed = {} => \A n \in Name : req.headers[n] = sent.headers[n]
        BY <3>3, <3>4, Zenon DEF Name
      <3>7. req.path = sent.path <=> ~endpoint.path /\ req.path.form = "escaped"
        <4>1. req.path = [prefixed |-> FALSE, form |-> req.path.form]
          BY Zenon DEF CInv, Path
        <4>2. endpoint.path \in BOOLEAN
          BY DEF CInv
        <4>3. sent.path = [prefixed |-> endpoint.path, form |-> "escaped"]
          BY SentContent
        <4> DEFINE was == req.path.form
                   p == endpoint.path
        <4> HIDE DEF was, p
        <4>4. [prefixed |-> FALSE, form |-> was] = [prefixed |-> p, form |-> "escaped"]
                <=> p = FALSE /\ was = "escaped"
          BY ZenonT(60)
        <4>5. p = FALSE <=> ~p
          BY <4>2 DEF p
        <4> QED
          BY <4>1, <4>3, <4>4, <4>5, ZenonT(60) DEF was, p
      <3>8. \A n \in AmzHeader : sent.headers[n] # None => n \in sent.auth.signed
        BY <3>1, <3>3, <3>4 DEF Name
      <3>9. GatewayVerifies <=> alike /\ canonicalQuery(req.query, 0) = canonicalQuery(sent.query, 0)
        <4>1. sent.auth.sig = Signature("resign", sent, sent.headers["x-amz-date"], sent.auth.day,
                                        sent.auth.signed, 0, sent.headers["x-amz-content-sha256"])
                <=> /\ req.headers["x-amz-date"] = sent.headers["x-amz-date"]
                    /\ req.headers["x-amz-content-sha256"] = sent.headers["x-amz-content-sha256"]
                    /\ req.path = sent.path
                    /\ canonicalQuery(req.query, 0) = canonicalQuery(sent.query, 0)
                    /\ \A n \in req.auth.signed : req.headers[n] = sent.headers[n]
          BY <2>3, <3>1, SignatureEqual DEF Resigned
        <4>2. {"x-amz-date", "x-amz-content-sha256"} \subseteq Name
          BY DEF Name, AmzHeader
        <4> QED
          BY <3>5, <3>6, <3>7, <3>8, <4>1, <4>2, ZenonT(60) DEF GatewayVerifies, alike
      <3>10. /\ endpoint.query = <<>> =>
                  (canonicalQuery(req.query, 0) = canonicalQuery(sent.query, 0) <=> Parsable(req.query))
             /\ endpoint.query # <<>> /\ Parsable(req.query) =>
                  canonicalQuery(req.query, 0) # canonicalQuery(sent.query, 0)
        <4>1. req.query \in Seq(Param) /\ endpoint.query \in Seq(Param)
          BY DEF CInv
        <4>2. sent.query = endpoint.query \o CleanQuery(req.query)
          BY SentContent, Zenon
        <4> DEFINE q == req.query
                   e == endpoint.query
        <4>3. q \in Seq(Param) /\ e \in Seq(Param) /\ sent.query = e \o CleanQuery(q)
          BY <4>1, <4>2, Zenon
        <4> HIDE DEF q, e
        <4>4. /\ e = <<>> => (canonicalQuery(q, 0) = canonicalQuery(e \o CleanQuery(q), 0) <=> Parsable(q))
              /\ e # <<>> /\ Parsable(q) => canonicalQuery(q, 0) # canonicalQuery(e \o CleanQuery(q), 0)
          BY <4>3, SameQuery
        <4> QED
          BY <4>3, <4>4, ZenonT(60) DEF q, e
      <3> QED
        BY <3>2, <3>9, <3>10, Zenon
    <2> QED
      BY <2>1, <2>2, <2>3, Zenon DEF CInv
  <1> QED
    BY <1>1, ContentInvariance, PTL

=============================================================================
