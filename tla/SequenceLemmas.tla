--------------------------- MODULE SequenceLemmas ---------------------------
(* What the operators on sequences that the note pipeline is made of compute, for  *)
(* sequences of every length. The library's induction theorems speak of a          *)
(* predicate P(_); here induction is over the set of the numbers that satisfy it,   *)
(* which follows from WFMin. With it, folds and sorted() become statements about     *)
(* functions and sets.                                                               *)
EXTENDS Rounding, FiniteSetsExt, SequencesExt, FiniteSetTheorems, WellFoundedInduction,
        SequenceTheorems, TLAPS

\* Every nonempty set of natural numbers has a least element.
LEMMA LeastNumber ==
  ASSUME NEW T \in SUBSET Nat, T # {}
  PROVE  \E n \in T : \A m \in T : n <= m
<1> DEFINE R == OpToRel(<, Nat)
<1>1. IsWellFoundedOn(R, Nat)
  BY NatLessThanWellFounded
<1>2. \A x, y \in Nat : <<x, y>> \in R <=> x < y
  BY DEF OpToRel
<1> HIDE DEF R
<1>3. PICK n \in T : \A m \in T : ~(<<m, n>> \in R)
  BY <1>1, WFMin
<1>4. ASSUME NEW m \in T PROVE n <= m
  <2>1. m \in Nat /\ n \in Nat
    OBVIOUS
  <2>2. ~(m < n)
    BY <1>2, <1>3, <2>1
  <2> QED BY <2>1, <2>2
<1> QED BY <1>4

LEMMA GreatestNumber ==
  ASSUME NEW T \in SUBSET Nat, T # {}, NEW bound \in Nat, \A m \in T : m <= bound
  PROVE  Max(T) \in T /\ \A m \in T : m <= Max(T)
<1> DEFINE D == {d \in Nat : bound - d \in T}
<1>1. D # {} /\ D \in SUBSET Nat
  <2>1. PICK m \in T : TRUE
    OBVIOUS
  <2>2. m \in Nat /\ m <= bound
    OBVIOUS
  <2>3. bound - m \in Nat /\ bound - (bound - m) = m
    BY <2>2
  <2>4. bound - m \in D
    BY <2>1, <2>3
  <2> QED BY <2>4
<1>2. PICK d \in D : \A e \in D : d <= e
  BY <1>1, LeastNumber
<1>3. \A m \in T : bound - m \in D
  <2> TAKE m \in T
  <2>1. m \in Nat /\ m <= bound
    OBVIOUS
  <2>2. bound - m \in Nat /\ bound - (bound - m) = m
    BY <2>1
  <2> QED BY <2>2
<1>4. bound - d \in T /\ \A m \in T : bound - d >= m
  <2>1. bound - d \in T /\ d \in Nat
    BY <1>2
  <2>2. ASSUME NEW m \in T PROVE bound - d >= m
    <3>1. d <= bound - m /\ m \in Nat
      BY <1>2, <1>3
    <3> QED BY <2>1, <3>1
  <2> QED BY <2>1, <2>2
<1>5. \E x \in T : \A y \in T : x >= y
  BY <1>4
<1>6. Max(T) \in T /\ \A y \in T : Max(T) >= y
  BY <1>5 DEF Max
<1>7. \A m \in T : m <= Max(T)
  BY <1>6
<1> QED BY <1>6, <1>7

\* Induction over the numbers up to n, for the set G of those that satisfy a predicate.
LEMMA Induction ==
  ASSUME NEW n \in Nat, NEW G, 0 \in G, \A k \in 1..n : k - 1 \in G => k \in G
  PROVE  \A k \in 0..n : k \in G
<1> DEFINE bad == {k \in 0..n : k \notin G}
<1> SUFFICES ASSUME bad # {} PROVE FALSE
  OBVIOUS
<1>1. bad \in SUBSET Nat
  OBVIOUS
<1>2. PICK least \in bad : \A m \in bad : least <= m
  BY <1>1, LeastNumber
<1>3. least \in 1..n /\ least - 1 \in 0..n /\ least - 1 \notin bad
  BY <1>2
<1> QED BY <1>2, <1>3

-----------------------------------------------------------------------------
(* Folds. A fold over 1..n is the last of a row of intermediate results.          *)

LEMMA LastOfFirst ==
  ASSUME NEW k \in Nat \ {0}
  PROVE  /\ 1..k # {}
         /\ (1..k) \ {k} = 1..(k - 1)
         /\ Max(1..k) = k
<1>1. k \in Nat /\ 1..k # {} /\ 1..k \in SUBSET Nat /\ \A m \in 1..k : m <= k
  OBVIOUS
<1>2. Max(1..k) \in 1..k /\ \A m \in 1..k : m <= Max(1..k)
  BY <1>1, GreatestNumber
<1>3. Max(1..k) = k
  BY <1>2
<1>4. (1..k) \ {k} = 1..(k - 1)
  OBVIOUS
<1> QED BY <1>1, <1>3, <1>4

\* What a fold over 1..n does with its intermediate result at a number.
Steps(V, n) == [V \X (1..n) -> V]

FoldFunctions(V, n) == [SUBSET (1..n) -> V]

IsFold(g, n, base, step) ==
  \A s \in SUBSET (1..n) : g[s] = IF s = {} THEN base ELSE step[<<g[s \ {Max(s)}], Max(s)>>]

\* The recursive function MapThenFoldSet defines over the subsets of 1..n exists.
LEMMA FoldExists ==
  ASSUME NEW n \in Nat, NEW V, NEW base \in V, NEW step \in Steps(V, n)
  PROVE  \E g \in FoldFunctions(V, n) : IsFold(g, n, base, step)
<1> USE DEF Steps
<1> DEFINE Good(g, k) == \A s \in SUBSET (1..k) :
             g[s] = IF s = {} THEN base ELSE step[<<g[s \ {Max(s)}], Max(s)>>]
           Exists(k) == \E g \in [SUBSET (1..k) -> V] : Good(g, k)
           G == {k \in 0..n : Exists(k)}
<1>1. 0 \in G
  <2>1. SUBSET (1..0) = {{}}
    OBVIOUS
  <2>2. [s \in SUBSET (1..0) |-> base] \in [SUBSET (1..0) -> V]
    OBVIOUS
  <2>3. Good([s \in SUBSET (1..0) |-> base], 0)
    BY <2>1
  <2>4. Exists(0)
    BY <2>2, <2>3
  <2> HIDE DEF Exists
  <2> QED BY <2>4
<1>2. ASSUME NEW k \in 1..n, k - 1 \in G PROVE k \in G
  <2>0. Exists(k - 1)
    BY <1>2
  <2>1. PICK g \in [SUBSET (1..(k - 1)) -> V] : Good(g, k - 1)
    BY <2>0
  <2> DEFINE h == [s \in SUBSET (1..k) |->
                     IF k \in s THEN step[<<g[s \ {k}], k>>] ELSE g[s]]
  <2>2. \A s \in SUBSET (1..k) : /\ s \ {k} \in SUBSET (1..(k - 1))
                                 /\ k \notin s => s \in SUBSET (1..(k - 1))
    OBVIOUS
  <2>3. h \in [SUBSET (1..k) -> V]
    <3>1. ASSUME NEW s \in SUBSET (1..k) PROVE h[s] \in V
      <4>1. CASE k \in s
        <5>1. g[s \ {k}] \in V
          BY <2>1, <2>2
        <5>2. h[s] = step[<<g[s \ {k}], k>>]
          BY <4>1
        <5> QED BY <5>1, <5>2
      <4>2. CASE k \notin s
        BY <2>1, <2>2, <4>2
      <4> QED BY <4>1, <4>2
    <3> QED BY <3>1
  <2>4. ASSUME NEW s \in SUBSET (1..k)
        PROVE  h[s] = IF s = {} THEN base ELSE step[<<h[s \ {Max(s)}], Max(s)>>]
    <3>1. CASE s = {}
      BY <2>1, <2>2, <3>1
    <3>2. CASE k \in s
      <4>1. s \in SUBSET Nat /\ \A m \in s : m <= k
        OBVIOUS
      <4> DEFINE m == Max(s)
      <4> HIDE DEF m
      <4>2. m \in s /\ k <= m
        BY <3>2, <4>1, GreatestNumber DEF m
      <4>5. m = k
        BY <4>1, <4>2
      <4>3. Max(s) = k
        BY <4>5 DEF m
      <4>4. h[s \ {k}] = g[s \ {k}] /\ h[s] = step[<<g[s \ {k}], k>>]
        BY <3>2
      <4> QED BY <3>2, <4>3, <4>4
    <3>3. CASE s # {} /\ k \notin s
      <4>1. s \in SUBSET (1..(k - 1)) /\ s \in SUBSET Nat /\ (\A m \in s : m <= k) /\ k \in Nat
        BY <2>2, <3>3
      <4>2. Max(s) \in s
        BY <3>3, <4>1, GreatestNumber
      <4>3. g[s] = step[<<g[s \ {Max(s)}], Max(s)>>]
        BY <2>1, <3>3, <4>1
      <4>4. h[s] = g[s] /\ h[s \ {Max(s)}] = g[s \ {Max(s)}]
        BY <3>3
      <4> QED BY <3>3, <4>3, <4>4
    <3> QED BY <3>1, <3>2, <3>3
  <2> HIDE DEF h
  <2>5. Good(h, k)
    BY <2>4
  <2>6. Exists(k)
    BY <2>3, <2>5
  <2> HIDE DEF Exists
  <2> QED BY <2>6
<1> HIDE DEF G
<1>3. n \in G
  BY <1>1, <1>2, Induction
<1>4. Exists(n)
  BY <1>3 DEF G
<1>5. PICK g \in [SUBSET (1..n) -> V] : Good(g, n)
  BY <1>4
<1>6. g \in FoldFunctions(V, n) /\ IsFold(g, n, base, step)
  BY <1>5 DEF FoldFunctions, IsFold
<1> QED BY <1>6

\* The greatest of some of the numbers 1..n is one of them.
LEMMA GreatestOfSome ==
  ASSUME NEW n \in Nat, NEW s \in SUBSET (1..n), s # {}
  PROVE  Max(s) \in s /\ Max(s) \in 1..n
<1>1. s \in SUBSET Nat /\ \A m \in s : m <= n
  OBVIOUS
<1>2. Max(s) \in s
  BY <1>1, GreatestNumber
<1> QED BY <1>2

Rows(V, n) == [0..n -> V]

IsRow(row, n, base, step) ==
  row[0] = base /\ \A k \in 1..n : row[k] = step[<<row[k - 1], k>>]

\* The intermediate results of a fold over 1..n, from the recursive function h behind it.
LEMMA FoldRow ==
  ASSUME NEW n \in Nat, NEW V, NEW base \in V, NEW step \in Steps(V, n), NEW h,
         h[{}] = base,
         \A k \in 1..n : h[1..(k - 1)] \in V => h[1..k] = step[<<h[1..(k - 1)], k>>]
  PROVE  \E row \in Rows(V, n) : IsRow(row, n, base, step) /\ h[1..n] = row[n]
<1> USE DEF Steps
<1> DEFINE G == {k \in 0..n : h[1..k] \in V}
           row == [k \in 0..n |-> h[1..k]]
<1>1. 0 \in G
  <2>1. 1..0 = {}
    OBVIOUS
  <2> QED BY <2>1
<1>2. ASSUME NEW k \in 1..n, k - 1 \in G PROVE k \in G
  <2>1. h[1..(k - 1)] \in V /\ h[1..k] = step[<<h[1..(k - 1)], k>>]
    BY <1>2
  <2>2. h[1..k] \in V
    BY <2>1
  <2> QED BY <2>2
<1> HIDE DEF G
<1>3. \A k \in 0..n : k \in G
  BY <1>1, <1>2, Induction
<1>4. \A k \in 0..n : h[1..k] \in V
  BY <1>3 DEF G
<1>5. row \in [0..n -> V]
  BY <1>4
<1>6. row[0] = base
  <2>1. 1..0 = {} /\ 0 \in 0..n
    OBVIOUS
  <2> QED BY <2>1
<1>7. \A k \in 1..n : row[k] = step[<<row[k - 1], k>>]
  <2> TAKE k \in 1..n
  <2>1. k \in 0..n /\ k - 1 \in 0..n
    OBVIOUS
  <2>2. row[k] = h[1..k] /\ row[k - 1] = h[1..(k - 1)]
    BY <2>1
  <2> QED BY <1>4, <2>1, <2>2
<1>8. h[1..n] = row[n]
  OBVIOUS
<1> HIDE DEF row
<1>9. row \in Rows(V, n) /\ IsRow(row, n, base, step)
  BY <1>5, <1>6, <1>7 DEF Rows, IsRow
<1> QED BY <1>8, <1>9

-----------------------------------------------------------------------------
(* sorted(). An element's place is the number of elements below it.               *)

\* R is a strict total order on S.
Orders(R, S) ==
  /\ \A x \in S : <<x, x>> \notin R
  /\ \A x, y, z \in S : <<x, y>> \in R /\ <<y, z>> \in R => <<x, z>> \in R
  /\ \A x, y \in S : x # y => <<x, y>> \in R \/ <<y, x>> \in R

\* f puts the elements of S in the order R.
Enumerates(f, S, R) ==
  /\ f \in [1..Cardinality(S) -> S]
  /\ \A i, j \in 1..Cardinality(S) : i < j => <<f[i], f[j]>> \in R
  /\ \A x \in S : \E k \in 1..Cardinality(S) : f[k] = x

\* The elements of S below x.
Under(x, S, R) == {y \in S : <<y, x>> \in R}

LEMMA Places ==
  ASSUME NEW S, IsFiniteSet(S), NEW R, Orders(R, S)
  PROVE  /\ Cardinality(S) \in Nat
         /\ \A k \in 1..Cardinality(S) :
              \E x \in S : Cardinality(Under(x, S, R)) = k - 1
         /\ \A f \in [1..Cardinality(S) -> S] :
              (\A k \in 1..Cardinality(S) :
                 Cardinality(Under(f[k], S, R)) = k - 1) => Enumerates(f, S, R)
<1> DEFINE n == Cardinality(S)
           under == [x \in S |-> Under(x, S, R)]
           place == [x \in S |-> Cardinality(under[x])]
<1>1. n \in Nat
  BY FS_CardinalityType
<1>2. ASSUME NEW x \in S PROVE IsFiniteSet(under[x]) /\ place[x] \in 0..(n - 1)
  <2>1. under[x] \in SUBSET (S \ {x})
    BY DEF Orders, Under
  <2>2. IsFiniteSet(S \ {x}) /\ Cardinality(S \ {x}) = n - 1
    BY FS_RemoveElement
  <2> DEFINE rest == S \ {x}
             u == under[x]
  <2> HIDE DEF u, rest
  <2>5. IsFiniteSet(u) /\ Cardinality(u) <= Cardinality(rest)
    BY <2>1, <2>2, FS_Subset DEF u, rest
  <2>3. IsFiniteSet(under[x]) /\ Cardinality(under[x]) <= n - 1
    BY <2>2, <2>5 DEF u, rest
  <2>4. Cardinality(under[x]) \in Nat
    BY <2>3, FS_CardinalityType
  <2> QED BY <1>1, <2>3, <2>4
<1>3. ASSUME NEW x \in S, NEW y \in S, <<x, y>> \in R PROVE place[x] < place[y]
  <2>1. under[x] \in SUBSET under[y] /\ x \in under[y] /\ x \notin under[x]
    BY <1>3 DEF Orders, Under
  <2>2. under[x] # under[y]
    BY <2>1
  <2>3. IsFiniteSet(under[y])
    BY <1>2
  <2>4. Cardinality(under[x]) <= Cardinality(under[y])
        /\ Cardinality(under[x]) # Cardinality(under[y])
    BY <2>1, <2>2, <2>3, FS_Subset
  <2>5. place[x] \in 0..(n - 1) /\ place[y] \in 0..(n - 1)
    BY <1>2
  <2>6. place[x] <= place[y] /\ place[x] # place[y]
    BY <2>4
  <2> HIDE DEF place
  <2> QED BY <1>1, <2>5, <2>6
<1>4. \A x, y \in S : x # y => place[x] # place[y]
  <2> TAKE x, y \in S
  <2> HAVE x # y
  <2>1. place[x] < place[y] \/ place[y] < place[x]
    BY <1>3 DEF Orders
  <2>2. place[x] \in 0..(n - 1) /\ place[y] \in 0..(n - 1)
    BY <1>2
  <2> HIDE DEF place
  <2> QED BY <2>1, <2>2, <1>1
<1>5. \A k \in 1..n : \E x \in S : place[x] = k - 1
  <2>1. place \in [S -> 0..(n - 1)]
    BY <1>2
  <2>2. place \in Injection(S, 0..(n - 1))
    <3> HIDE DEF place
    <3> QED BY <1>4, <2>1 DEF Injection, IsInjective
  <2>3. IsFiniteSet(0..(n - 1)) /\ Cardinality(0..(n - 1)) = n
    <3>1. 0 \in Int /\ n - 1 \in Int
      BY <1>1
    <3>2. Cardinality(0..(n - 1)) = IF 0 > n - 1 THEN 0 ELSE (n - 1) - 0 + 1
      BY <3>1, FS_Interval
    <3> HIDE DEF n
    <3>3. Cardinality(0..(n - 1)) = n
      BY <1>1, <3>2
    <3>4. IsFiniteSet(0..(n - 1))
      BY <3>1, FS_Interval
    <3> QED BY <3>3, <3>4
  <2>4. place \in Surjection(S, 0..(n - 1))
    BY <2>2, <2>3, FS_Injection
  <2>5. \A k \in 0..(n - 1) : \E x \in S : place[x] = k
    <3> HIDE DEF place
    <3> QED BY <2>4 DEF Surjection
  <2>6. \A k \in 1..n : k - 1 \in 0..(n - 1)
    BY <1>1
  <2> HIDE DEF place, n
  <2> QED BY <2>5, <2>6
<1>6. \A k \in 1..n : \E x \in S : Cardinality(Under(x, S, R)) = k - 1
  <2> TAKE k \in 1..n
  <2>1. PICK x \in S : place[x] = k - 1
    BY <1>5
  <2> QED BY <2>1
<1>7. ASSUME NEW f \in [1..n -> S],
             \A k \in 1..n : Cardinality(Under(f[k], S, R)) = k - 1
      PROVE  Enumerates(f, S, R)
  <2>1. \A k \in 1..n : f[k] \in S /\ place[f[k]] = k - 1
    BY <1>7
  <2>2. ASSUME NEW i \in 1..n, NEW j \in 1..n, i < j PROVE <<f[i], f[j]>> \in R
    <3>1. place[f[i]] = i - 1 /\ place[f[j]] = j - 1
      BY <2>1
    <3>2. f[i] # f[j]
      <4> HIDE DEF place
      <4> QED BY <2>2, <3>1, <1>1
    <3>3. ~(<<f[j], f[i]>> \in R)
      <4>1. <<f[j], f[i]>> \in R => place[f[j]] < place[f[i]]
        BY <1>3, <2>1
      <4> HIDE DEF place
      <4> QED BY <4>1, <3>1, <2>2, <1>1
    <3> QED BY <3>2, <3>3, <2>1 DEF Orders
  <2>3. ASSUME NEW x \in S PROVE \E k \in 1..n : f[k] = x
    <3>1. place[x] \in 0..(n - 1)
      BY <1>2
    <3> DEFINE k == place[x] + 1
    <3> HIDE DEF place
    <3>2. k \in 1..n /\ k - 1 = place[x]
      BY <3>1, <1>1
    <3>3. place[f[k]] = place[x] /\ f[k] \in S
      BY <3>2, <2>1
    <3>4. f[k] = x
      BY <3>3, <1>4
    <3> HIDE DEF k
    <3> QED BY <3>2, <3>4
  <2> QED BY <2>2, <2>3 DEF Enumerates
<1> QED BY <1>1, <1>6, <1>7

\* The tuples of n integers.
Tuples(n) == [1..n -> Int]

LEMMA TupleOrder ==
  ASSUME NEW n \in Nat, NEW a \in Tuples(n), NEW b \in Tuples(n), NEW c \in Tuples(n)
  PROVE  /\ ~TupleLess(a, a)
         /\ TupleLess(a, b) /\ TupleLess(b, c) => TupleLess(a, c)
         /\ a # b => TupleLess(a, b) \/ TupleLess(b, a)
<1> USE DEF Tuples
<1>1. \A s \in [1..n -> Int] : Len(s) = n
  OBVIOUS
<1>2. ~TupleLess(a, a)
  BY <1>1 DEF TupleLess
<1>3. ASSUME TupleLess(a, b), TupleLess(b, c) PROVE TupleLess(a, c)
  <2>1. PICK i \in 1..n : a[i] < b[i] /\ \A j \in 1..(i - 1) : a[j] = b[j]
    BY <1>1, <1>3 DEF TupleLess
  <2>2. PICK k \in 1..n : b[k] < c[k] /\ \A j \in 1..(k - 1) : b[j] = c[j]
    BY <1>1, <1>3 DEF TupleLess
  <2>3. CASE i <= k
    <3>1. a[i] < c[i]
      <4>1. CASE i = k
        BY <2>1, <2>2, <4>1
      <4>2. CASE i < k
        BY <2>1, <2>2, <4>2
      <4> QED BY <2>3, <4>1, <4>2
    <3>2. \A j \in 1..(i - 1) : a[j] = c[j]
      BY <2>1, <2>2, <2>3
    <3> QED BY <1>1, <3>1, <3>2 DEF TupleLess
  <2>4. CASE k < i
    <3>1. a[k] < c[k]
      BY <2>1, <2>2, <2>4
    <3>2. \A j \in 1..(k - 1) : a[j] = c[j]
      BY <2>1, <2>2, <2>4
    <3> QED BY <1>1, <3>1, <3>2 DEF TupleLess
  <2> QED BY <2>3, <2>4
<1>4. ASSUME a # b PROVE TupleLess(a, b) \/ TupleLess(b, a)
  <2> DEFINE differ == {i \in 1..n : a[i] # b[i]}
  <2>1. differ \in SUBSET Nat /\ differ # {}
    <3>1. (\A i \in 1..n : a[i] = b[i]) => a = b
      OBVIOUS
    <3>2. \E i \in 1..n : a[i] # b[i]
      BY <1>4, <3>1
    <3>3. PICK i \in 1..n : a[i] # b[i]
      BY <3>2
    <3>4. i \in differ /\ differ \in SUBSET Nat
      BY <3>3
    <3> HIDE DEF differ
    <3> QED BY <3>4
  <2>2. PICK i \in differ : \A j \in differ : i <= j
    BY <2>1, LeastNumber
  <2>3. i \in 1..n /\ \A j \in 1..(i - 1) : a[j] = b[j]
    BY <2>2
  <2>4. a[i] < b[i] \/ b[i] < a[i]
    BY <2>2
  <2> QED BY <1>1, <2>3, <2>4 DEF TupleLess
<1> QED BY <1>2, <1>3, <1>4

\* The order SortedBy puts S in.
KeyOrder(S, key) == {p \in S \X S : TupleLess(key[p[1]], key[p[2]])}

\* The keys sorted() gets here: tuples of n integers that tell the elements of S apart.
Keys(S, n) == {key \in [S -> Tuples(n)] : \A x, y \in S : x # y => key[x] # key[y]}

LEMMA SortedBySorts ==
  ASSUME NEW S, IsFiniteSet(S), NEW n \in Nat, NEW key \in Keys(S, n)
  PROVE  /\ Cardinality(S) \in Nat
         /\ SortedBy(S, key) \in [1..Cardinality(S) -> S]
         /\ \A i, j \in 1..Cardinality(S) :
              i < j => TupleLess(key[SortedBy(S, key)[i]], key[SortedBy(S, key)[j]])
         /\ \A x \in S : \E k \in 1..Cardinality(S) : SortedBy(S, key)[k] = x
<1> DEFINE R == KeyOrder(S, key)
           f == SortedBy(S, key)
           m == Cardinality(S)
<1>0. key \in [S -> Tuples(n)] /\ \A x, y \in S : x # y => key[x] # key[y]
  BY DEF Keys
<1>1. \A x, y \in S : <<x, y>> \in R <=> TupleLess(key[x], key[y])
  BY DEF KeyOrder
<1>2. Orders(R, S)
  <2>1. \A x \in S : ~TupleLess(key[x], key[x])
    BY <1>0, TupleOrder
  <2>2. \A x, y, z \in S : TupleLess(key[x], key[y]) /\ TupleLess(key[y], key[z])
                             => TupleLess(key[x], key[z])
    BY <1>0, TupleOrder
  <2>3. \A x, y \in S : x # y => TupleLess(key[x], key[y]) \/ TupleLess(key[y], key[x])
    BY <1>0, TupleOrder
  <2> HIDE DEF R
  <2> QED BY <1>1, <2>1, <2>2, <2>3 DEF Orders
<1> HIDE DEF R
<1>3. \A x \in S : Under(x, S, R) = {y \in S : TupleLess(key[y], key[x])}
  BY <1>1 DEF Under
<1>4. m \in Nat /\ \A k \in 1..m : \E x \in S : Cardinality(Under(x, S, R)) = k - 1
  BY <1>2, Places
<1>5. \A k \in 1..m : \E x \in S : Cardinality({y \in S : TupleLess(key[y], key[x])}) = k - 1
  BY <1>3, <1>4
<1>6. f = [k \in 1..m |->
             CHOOSE x \in S : Cardinality({y \in S : TupleLess(key[y], key[x])}) = k - 1]
  BY DEF SortedBy
<1>7. \A k \in 1..m : /\ f[k] \in S
                      /\ Cardinality({y \in S : TupleLess(key[y], key[f[k]])}) = k - 1
  BY <1>5, <1>6
<1>8. f \in [1..m -> S]
  BY <1>6, <1>7
<1> HIDE DEF f
<1>9. \A k \in 1..m : Cardinality(Under(f[k], S, R)) = k - 1
  BY <1>3, <1>7
<1>10. Enumerates(f, S, R)
  BY <1>2, <1>8, <1>9, Places
<1>11. \A i, j \in 1..m : i < j => TupleLess(key[f[i]], key[f[j]])
  BY <1>1, <1>8, <1>10 DEF Enumerates
<1> QED BY <1>4, <1>8, <1>10, <1>11 DEF f, Enumerates

LEMMA TupleLess1 ==
  ASSUME NEW a \in Tuples(1), NEW b \in Tuples(1)
  PROVE  TupleLess(a, b) <=>
           a[1] < b[1]
<1>1. Len(a) = 1 /\ 1..1 = {1}
      /\ \A k \in 1..1 : a[k] \in Int /\ b[k] \in Int
  BY DEF Tuples
<1>2. TupleLess(a, b) <=> \/ a[1] < b[1]
  BY <1>1 DEF TupleLess
<1> QED BY <1>1, <1>2

LEMMA TupleLess2 ==
  ASSUME NEW a \in Tuples(2), NEW b \in Tuples(2)
  PROVE  TupleLess(a, b) <=>
           a[1] < b[1] \/ (a[1] = b[1] /\ (a[2] < b[2]))
<1>1. Len(a) = 2 /\ 1..2 = {1, 2}
      /\ \A k \in 1..2 : a[k] \in Int /\ b[k] \in Int
  BY DEF Tuples
<1>2. TupleLess(a, b) <=> \/ a[1] < b[1]
                          \/ a[2] < b[2] /\ a[1] = b[1]
  BY <1>1 DEF TupleLess
<1> QED BY <1>1, <1>2

LEMMA TupleLess3 ==
  ASSUME NEW a \in Tuples(3), NEW b \in Tuples(3)
  PROVE  TupleLess(a, b) <=>
           a[1] < b[1] \/ (a[1] = b[1] /\ (a[2] < b[2] \/ (a[2] = b[2] /\ (a[3] < b[3]))))
<1>1. Len(a) = 3 /\ 1..3 = {1, 2, 3}
      /\ \A k \in 1..3 : a[k] \in Int /\ b[k] \in Int
  BY DEF Tuples
<1>2. TupleLess(a, b) <=> \/ a[1] < b[1]
                          \/ a[2] < b[2] /\ a[1] = b[1]
                          \/ a[3] < b[3] /\ a[1] = b[1] /\ a[2] = b[2]
  BY <1>1 DEF TupleLess
<1> QED BY <1>1, <1>2

LEMMA TupleLess4 ==
  ASSUME NEW a \in Tuples(4), NEW b \in Tuples(4)
  PROVE  TupleLess(a, b) <=>
           a[1] < b[1] \/ (a[1] = b[1] /\ (a[2] < b[2] \/ (a[2] = b[2] /\
             (a[3] < b[3] \/ (a[3] = b[3] /\ (a[4] < b[4]))))))
<1>1. Len(a) = 4 /\ 1..4 = {1, 2, 3, 4}
      /\ \A k \in 1..4 : a[k] \in Int /\ b[k] \in Int
  BY DEF Tuples
<1>2. TupleLess(a, b) <=> \/ a[1] < b[1]
                          \/ a[2] < b[2] /\ a[1] = b[1]
                          \/ a[3] < b[3] /\ a[1] = b[1] /\ a[2] = b[2]
                          \/ a[4] < b[4] /\ a[1] = b[1] /\ a[2] = b[2] /\ a[3] = b[3]
  BY <1>1 DEF TupleLess
<1> QED BY <1>1, <1>2

LEMMA AscendingSorts ==
  ASSUME NEW S \in SUBSET Nat, IsFiniteSet(S)
  PROVE  /\ Cardinality(S) \in Nat
         /\ Ascending(S) \in [1..Cardinality(S) -> S]
         /\ \A i, j \in 1..Cardinality(S) : i < j => Ascending(S)[i] < Ascending(S)[j]
         /\ \A x \in S : \E k \in 1..Cardinality(S) : Ascending(S)[k] = x
<1> DEFINE key == [x \in S |-> <<x>>]
           n == Cardinality(S)
<1>1. key \in [S -> Tuples(1)] /\ (\A x, y \in S : x # y => key[x] # key[y]) /\ 1 \in Nat
  <2>1. \A x \in S : <<x>> \in Tuples(1)
    BY DEF Tuples
  <2>2. \A x, y \in S : x # y => <<x>> # <<y>>
    OBVIOUS
  <2> QED BY <2>1, <2>2
<1>2. \A x, y \in S : TupleLess(key[x], key[y]) <=> x < y
  <2> TAKE x, y \in S
  <2>1. /\ key[x] \in Tuples(1) /\ key[y] \in Tuples(1)
        /\ key[x][1] = x /\ key[y][1] = y
    BY <1>1
  <2> HIDE DEF key
  <2> QED BY <2>1, TupleLess1
<1>3. Ascending(S) = SortedBy(S, key)
  BY DEF Ascending
<1> HIDE DEF key
<1>4. /\ n \in Nat
      /\ SortedBy(S, key) \in [1..n -> S]
      /\ \A i, j \in 1..n : i < j => TupleLess(key[SortedBy(S, key)[i]], key[SortedBy(S, key)[j]])
      /\ \A x \in S : \E k \in 1..n : SortedBy(S, key)[k] = x
  <2> DEFINE one == 1
  <2> HIDE DEF one
  <2>1. one \in Nat /\ key \in Keys(S, one)
    BY <1>1 DEF one, Keys
  <2> QED BY <2>1, SortedBySorts
<1> QED BY <1>2, <1>3, <1>4

\* The elements of s at some of its positions, in their order.
LEMMA Picked ==
  ASSUME NEW V, NEW s \in Seq(V), NEW K \in SUBSET (1..Len(s))
  PROVE  /\ IsFiniteSet(K) /\ Cardinality(K) \in 0..Len(s)
         /\ Pick(s, K) \in Seq(V) /\ Len(Pick(s, K)) = Cardinality(K)
         /\ Ascending(K) \in [1..Cardinality(K) -> K]
         /\ \A i, j \in 1..Cardinality(K) : i < j => Ascending(K)[i] < Ascending(K)[j]
         /\ \A x \in K : \E k \in 1..Cardinality(K) : Ascending(K)[k] = x
         /\ \A k \in 1..Cardinality(K) : Pick(s, K)[k] = s[Ascending(K)[k]]
<1> DEFINE n == Cardinality(K)
           order == Ascending(K)
<1>1. Len(s) \in Nat /\ K \in SUBSET Nat /\ s \in [1..Len(s) -> V]
  OBVIOUS
<1>2. IsFiniteSet(1..Len(s)) /\ Cardinality(1..Len(s)) = Len(s)
  <2>1. 1 \in Int /\ Len(s) \in Int
    BY <1>1
  <2>2. Cardinality(1..Len(s)) = IF 1 > Len(s) THEN 0 ELSE Len(s) - 1 + 1
    BY <2>1, FS_Interval
  <2> QED BY <1>1, <2>1, <2>2, FS_Interval
<1>3. IsFiniteSet(K) /\ n <= Len(s)
  BY <1>2, FS_Subset
<1>4. /\ n \in Nat /\ order \in [1..n -> K]
      /\ \A i, j \in 1..n : i < j => order[i] < order[j]
      /\ \A x \in K : \E k \in 1..n : order[k] = x
  BY <1>1, <1>3, AscendingSorts
<1>5. Pick(s, K) = [k \in 1..n |-> s[order[k]]]
  <2>1. DOMAIN order = 1..n
    BY <1>4
  <2> QED BY <2>1 DEF Pick
<1> HIDE DEF order, n
<1>6. \A k \in 1..n : s[order[k]] \in V
  BY <1>1, <1>4
<1>7. Pick(s, K) \in [1..n -> V]
  BY <1>5, <1>6
<1>8. Pick(s, K) \in Seq(V) /\ Len(Pick(s, K)) = n
  BY <1>4, <1>7
<1>9. \A k \in 1..n : Pick(s, K)[k] = s[order[k]]
  BY <1>5
<1>10. n \in 0..Len(s)
  BY <1>1, <1>3, <1>4
<1> USE DEF order, n
<1>11. /\ IsFiniteSet(K) /\ Cardinality(K) \in 0..Len(s)
       /\ Pick(s, K) \in Seq(V) /\ Len(Pick(s, K)) = Cardinality(K)
  BY ONLY <1>3, <1>8, <1>10
<1>12. /\ Ascending(K) \in [1..Cardinality(K) -> K]
       /\ \A i, j \in 1..Cardinality(K) : i < j => Ascending(K)[i] < Ascending(K)[j]
       /\ \A x \in K : \E k \in 1..Cardinality(K) : Ascending(K)[k] = x
  BY ONLY <1>4
<1>13. \A k \in 1..Cardinality(K) : Pick(s, K)[k] = s[Ascending(K)[k]]
  BY ONLY <1>9
<1> QED BY ONLY <1>11, <1>12, <1>13

LEMMA CardinalityOfFirst ==
  ASSUME NEW n \in Nat
  PROVE  IsFiniteSet(1..n) /\ Cardinality(1..n) = n
<1>1. 1 \in Int /\ n \in Int
  OBVIOUS
<1>2. Cardinality(1..n) = IF 1 > n THEN 0 ELSE n - 1 + 1
  BY <1>1, FS_Interval
<1> QED BY <1>1, <1>2, FS_Interval

\* A position breaks the tie of two keys that are equal.
LEMMA TupleLessAppend ==
  ASSUME NEW n \in Nat, NEW a \in Tuples(n), NEW b \in Tuples(n),
         NEW i \in Int, NEW j \in Int
  PROVE  /\ Append(a, i) \in Tuples(n + 1)
         /\ TupleLess(Append(a, i), Append(b, j)) <=> TupleLess(a, b) \/ (a = b /\ i < j)
<1> DEFINE c == Append(a, i)
           d == Append(b, j)
<1> USE DEF Tuples
<1>1. /\ a \in Seq(Int) /\ b \in Seq(Int) /\ Len(a) = n /\ Len(b) = n
  OBVIOUS
<1>2. /\ c \in [1..(n + 1) -> Int] /\ d \in [1..(n + 1) -> Int]
      /\ Len(c) = n + 1
      /\ \A k \in 1..n : c[k] = a[k] /\ d[k] = b[k]
      /\ c[n + 1] = i /\ d[n + 1] = j
  <2>1. c \in Seq(Int) /\ Len(c) = n + 1 /\ (\A k \in 1..n : c[k] = a[k]) /\ c[n + 1] = i
    BY <1>1
  <2>2. d \in Seq(Int) /\ Len(d) = n + 1 /\ (\A k \in 1..n : d[k] = b[k]) /\ d[n + 1] = j
    BY <1>1
  <2>3. \A t \in Seq(Int) : t \in [1..Len(t) -> Int]
    OBVIOUS
  <2> HIDE DEF c, d
  <2> QED BY <2>1, <2>2, <2>3
<1> HIDE DEF c, d
<1>3. ASSUME TupleLess(c, d) PROVE TupleLess(a, b) \/ (a = b /\ i < j)
  <2>1. PICK k \in 1..(n + 1) : c[k] < d[k] /\ \A m \in 1..(k - 1) : c[m] = d[m]
    BY <1>2, <1>3 DEF TupleLess
  <2>2. CASE k = n + 1
    <3>1. \A m \in 1..n : a[m] = b[m]
      BY <1>2, <2>1, <2>2
    <3>2. a = b
      BY <3>1
    <3> QED BY <1>2, <2>1, <2>2, <3>2
  <2>3. CASE k \in 1..n
    <3>1. a[k] < b[k] /\ \A m \in 1..(k - 1) : a[m] = b[m]
      BY <1>2, <2>1, <2>3
    <3> QED BY <1>1, <2>3, <3>1 DEF TupleLess
  <2> QED BY <2>2, <2>3
<1>4. ASSUME TupleLess(a, b) PROVE TupleLess(c, d)
  <2>1. PICK k \in 1..n : a[k] < b[k] /\ \A m \in 1..(k - 1) : a[m] = b[m]
    BY <1>1, <1>4 DEF TupleLess
  <2>2. k \in 1..(n + 1) /\ c[k] < d[k] /\ \A m \in 1..(k - 1) : c[m] = d[m]
    BY <1>2, <2>1
  <2> QED BY <1>2, <2>2 DEF TupleLess
<1>5. ASSUME a = b, i < j PROVE TupleLess(c, d)
  <2>1. n + 1 \in 1..(n + 1) /\ c[n + 1] < d[n + 1] /\ \A m \in 1..n : c[m] = d[m]
    BY <1>2, <1>5
  <2>2. (n + 1) - 1 = n
    OBVIOUS
  <2> QED BY <1>2, <2>1, <2>2 DEF TupleLess
<1> QED BY <1>2, <1>3, <1>4, <1>5 DEF c, d

\* One tuple of n integers for every position of s.
PositionKeys(s, n) == [1..Len(s) -> Tuples(n)]

LEMMA SortedPositionsSort ==
  ASSUME NEW V, NEW s \in Seq(V), NEW n \in Nat, NEW key \in PositionKeys(s, n)
  PROVE  /\ SortedPositions(s, key) \in [1..Len(s) -> 1..Len(s)]
         /\ \A p \in 1..Len(s) : \E k \in 1..Len(s) : SortedPositions(s, key)[k] = p
         /\ \A i, j \in 1..Len(s) : i < j =>
              LET p == SortedPositions(s, key)[i]
                  q == SortedPositions(s, key)[j]
              IN p # q /\ (TupleLess(key[p], key[q]) \/ (key[p] = key[q] /\ p < q))
<1> DEFINE S == 1..Len(s)
           full == [i \in S |-> Append(key[i], i)]
           order == SortedPositions(s, key)
           wide == n + 1
<1>1. /\ Len(s) \in Nat /\ DOMAIN s = S /\ IsFiniteSet(S) /\ Cardinality(S) = Len(s)
      /\ wide \in Nat
  BY CardinalityOfFirst
<1>2. \A i \in S : i \in Int /\ key[i] \in Tuples(n)
  BY DEF PositionKeys
<1>3. order = SortedBy(S, full)
  BY <1>1 DEF SortedPositions
<1>4. /\ \A i \in S : full[i] \in Tuples(wide)
      /\ \A i, j \in S : TupleLess(full[i], full[j]) <=>
                           TupleLess(key[i], key[j]) \/ (key[i] = key[j] /\ i < j)
  <2>1. \A i \in S : full[i] = Append(key[i], i)
    OBVIOUS
  <2> HIDE DEF full, S
  <2>2. ASSUME NEW i \in S PROVE full[i] \in Tuples(wide)
    BY <1>2, <2>1, TupleLessAppend
  <2>3. ASSUME NEW i \in S, NEW j \in S
        PROVE  TupleLess(full[i], full[j]) <=>
                 TupleLess(key[i], key[j]) \/ (key[i] = key[j] /\ i < j)
    <3>1. i \in Int /\ j \in Int /\ key[i] \in Tuples(n) /\ key[j] \in Tuples(n)
      BY <1>2
    <3>2. TupleLess(Append(key[i], i), Append(key[j], j)) <=>
            TupleLess(key[i], key[j]) \/ (key[i] = key[j] /\ i < j)
      BY <3>1, TupleLessAppend
    <3> QED BY <2>1, <3>2
  <2> QED BY <2>2, <2>3
<1>5. \A i, j \in S : i # j => full[i] # full[j]
  <2> TAKE i, j \in S
  <2>1. key[i] \in Seq(Int) /\ key[j] \in Seq(Int) /\ Len(key[i]) = n /\ Len(key[j]) = n
    <3>1. \A t \in Tuples(n) : t \in Seq(Int) /\ Len(t) = n
      BY DEF Tuples
    <3> QED BY <1>2, <3>1
  <2>2. Append(key[i], i)[n + 1] = i /\ Append(key[j], j)[n + 1] = j
    BY <2>1
  <2> QED BY <2>2
<1>6. full \in Keys(S, wide)
  <2>1. full \in [S -> Tuples(wide)]
    BY <1>4
  <2> HIDE DEF full
  <2> QED BY <2>1, <1>5 DEF Keys
<1> HIDE DEF S, full, wide
<1>7. /\ order \in [1..Len(s) -> S]
      /\ \A i, j \in 1..Len(s) : i < j => TupleLess(full[order[i]], full[order[j]])
      /\ \A x \in S : \E k \in 1..Len(s) : order[k] = x
  <2>1. /\ SortedBy(S, full) \in [1..Cardinality(S) -> S]
        /\ \A i, j \in 1..Cardinality(S) : i < j =>
              TupleLess(full[SortedBy(S, full)[i]], full[SortedBy(S, full)[j]])
        /\ \A x \in S : \E k \in 1..Cardinality(S) : SortedBy(S, full)[k] = x
    <3>1. IsFiniteSet(S) /\ wide \in Nat
      BY <1>1
    <3> QED BY ONLY <3>1, <1>6, SortedBySorts
  <2> HIDE DEF order
  <2> QED BY <1>1, <1>3, <2>1
<1> HIDE DEF order
<1>8. \A i, j \in 1..Len(s) : i < j => order[i] # order[j]
  <2> TAKE i, j \in 1..Len(s)
  <2> HAVE i < j
  <2>1. full[order[i]] \in Tuples(wide) /\ TupleLess(full[order[i]], full[order[j]])
    BY <1>4, <1>7
  <2>2. ~TupleLess(full[order[i]], full[order[i]])
    BY <1>1, <2>1, TupleOrder
  <2> QED BY <2>1, <2>2
<1>9. \A i, j \in 1..Len(s) : i < j =>
        \/ TupleLess(key[order[i]], key[order[j]])
        \/ key[order[i]] = key[order[j]] /\ order[i] < order[j]
  BY <1>4, <1>7
<1> QED BY <1>7, <1>8, <1>9 DEF S, order

-----------------------------------------------------------------------------
(* Functions defined by recursion. Every call is about an argument of a smaller     *)
(* measure, until an argument stops the recursion.                                   *)

Results(S, V) == [S -> V]
Answers(S, V) == [V \X S -> V]

IsMeasured(S, stop, next, measure) ==
  /\ next \in [S -> S] /\ measure \in [S -> Nat]
  /\ \A x \in S : x \in stop \/ measure[next[x]] < measure[x]

Obeys(g, x, stop, next, base, step) ==
  g[x] = IF x \in stop THEN base[x] ELSE step[<<g[next[x]], x>>]

\* The function g obeys the definition where the measure is at most bound.
ObeysUpTo(g, bound, S, stop, next, measure, base, step) ==
  \A x \in S : measure[x] <= bound => Obeys(g, x, stop, next, base, step)

LEMMA UpToBound ==
  ASSUME NEW S, NEW V, NEW stop, NEW next, NEW measure, IsMeasured(S, stop, next, measure),
         NEW base \in Results(S, V), NEW step \in Answers(S, V), NEW bound \in Nat
  PROVE  \E g \in Results(S, V) : ObeysUpTo(g, bound, S, stop, next, measure, base, step)
<1> DEFINE Done(k) == \E g \in Results(S, V) : ObeysUpTo(g, k, S, stop, next, measure, base, step)
           G == {k \in 0..bound : Done(k)}
<1>1. 0 \in G
  <2>1. ASSUME NEW x \in S, measure[x] <= 0 PROVE x \in stop
    <3>1. measure[x] \in Nat /\ measure[next[x]] \in Nat
      BY DEF IsMeasured
    <3> QED BY <2>1, <3>1 DEF IsMeasured
  <2>2. ObeysUpTo(base, 0, S, stop, next, measure, base, step)
    BY <2>1 DEF ObeysUpTo, Obeys
  <2> QED BY <2>2
<1>2. ASSUME NEW k \in 1..bound, k - 1 \in G PROVE k \in G
  <2>1. PICK g \in Results(S, V) : ObeysUpTo(g, k - 1, S, stop, next, measure, base, step)
    BY <1>2
  <2> DEFINE h == [x \in S |-> IF x \in stop THEN base[x] ELSE step[<<g[next[x]], x>>]]
  <2>2. h \in Results(S, V)
    BY DEF Results, Answers, IsMeasured
  <2>3. ASSUME NEW x \in S, measure[x] <= k PROVE Obeys(h, x, stop, next, base, step)
    <3>1. CASE x \in stop
      BY <3>1 DEF Obeys
    <3>2. CASE x \notin stop
      <4>1. next[x] \in S /\ measure[next[x]] \in Nat /\ measure[x] \in Nat
            /\ measure[next[x]] < measure[x]
        BY <3>2 DEF IsMeasured
      <4>2. measure[next[x]] <= k - 1
        BY <2>3, <4>1
      <4>3. g[next[x]] = h[next[x]]
        BY <2>1, <4>1, <4>2 DEF ObeysUpTo, Obeys
      <4>4. h[x] = step[<<g[next[x]], x>>]
        BY <3>2
      <4> HIDE DEF h
      <4> QED BY <3>2, <4>3, <4>4 DEF Obeys
    <3> QED BY <3>1, <3>2
  <2> HIDE DEF h
  <2>4. ObeysUpTo(h, k, S, stop, next, measure, base, step)
    BY <2>3 DEF ObeysUpTo
  <2>5. Done(k)
    BY <2>2, <2>4
  <2>6. k \in 0..bound
    OBVIOUS
  <2> HIDE DEF Done
  <2> QED BY <2>5, <2>6
<1> HIDE DEF G
<1>3. \A k \in 0..bound : k \in G
  BY <1>1, <1>2, Induction
<1>4. bound \in G
  BY <1>3
<1> QED BY <1>4 DEF G

LEMMA SameResults ==
  ASSUME NEW S, NEW stop, NEW next, NEW measure, IsMeasured(S, stop, next, measure),
         NEW base, NEW step, NEW g, NEW h, NEW bound \in Nat,
         ObeysUpTo(g, bound, S, stop, next, measure, base, step),
         ObeysUpTo(h, bound, S, stop, next, measure, base, step)
  PROVE  \A x \in S : measure[x] <= bound => g[x] = h[x]
<1> DEFINE bad == {x \in S : measure[x] <= bound /\ g[x] # h[x]}
           low == {measure[x] : x \in bad}
<1> SUFFICES ASSUME bad # {} PROVE FALSE
  OBVIOUS
<1>1. low \in SUBSET Nat /\ low # {}
  BY DEF IsMeasured
<1>2. \E n \in low : \A m \in low : n <= m
  <2> HIDE DEF low
  <2> QED BY <1>1, LeastNumber
<1>3. PICK x \in bad : \A y \in bad : measure[x] <= measure[y]
  BY <1>2
<1>4. CASE x \in stop
  BY <1>3, <1>4 DEF ObeysUpTo, Obeys
<1>5. CASE x \notin stop
  <2>1. next[x] \in S /\ measure[next[x]] \in Nat /\ measure[x] \in Nat
        /\ measure[next[x]] < measure[x] /\ measure[x] <= bound
    BY <1>3, <1>5 DEF IsMeasured
  <2>2. next[x] \notin bad /\ measure[next[x]] <= bound
    BY <1>3, <2>1
  <2>3. g[next[x]] = h[next[x]]
    BY <2>1, <2>2
  <2>4. Obeys(g, x, stop, next, base, step) /\ Obeys(h, x, stop, next, base, step)
    BY <1>3 DEF ObeysUpTo
  <2> QED BY <1>3, <1>5, <2>3, <2>4 DEF Obeys
<1> QED BY <1>4, <1>5

LEMMA MeasuredRecursion ==
  ASSUME NEW S, NEW V, NEW stop, NEW next, NEW measure, IsMeasured(S, stop, next, measure),
         NEW base \in Results(S, V), NEW step \in Answers(S, V)
  PROVE  \E g \in Results(S, V) : \A x \in S : Obeys(g, x, stop, next, base, step)
<1> DEFINE Good(g, bound) ==
             g \in Results(S, V) /\ ObeysUpTo(g, bound, S, stop, next, measure, base, step)
           upTo == [bound \in Nat |-> CHOOSE g : Good(g, bound)]
           h == [x \in S |-> upTo[measure[x]][x]]
<1>1. ASSUME NEW bound \in Nat PROVE Good(upTo[bound], bound)
  <2>1. \E g : Good(g, bound)
    BY UpToBound
  <2> HIDE DEF Good
  <2> QED BY <2>1
<1> HIDE DEF upTo
<1>2. \A x \in S : measure[x] \in Nat /\ next[x] \in S
  BY DEF IsMeasured
<1>3. h \in Results(S, V)
  BY <1>1, <1>2 DEF Results
<1>4. ASSUME NEW x \in S PROVE Obeys(h, x, stop, next, base, step)
  <2> DEFINE g == upTo[measure[x]]
  <2>1. g \in Results(S, V) /\ ObeysUpTo(g, measure[x], S, stop, next, measure, base, step)
    BY <1>1, <1>2
  <2>2. Obeys(g, x, stop, next, base, step) /\ h[x] = g[x]
    BY <1>2, <2>1 DEF ObeysUpTo
  <2>3. CASE x \in stop
    BY <2>2, <2>3 DEF Obeys
  <2>4. CASE x \notin stop
    <3> DEFINE y == next[x]
               f == upTo[measure[y]]
    <3>1. y \in S /\ measure[y] \in Nat /\ measure[x] \in Nat /\ measure[y] < measure[x]
      BY <1>2, <2>4 DEF IsMeasured
    <3>2. ObeysUpTo(f, measure[y], S, stop, next, measure, base, step) /\ h[y] = f[y]
      BY <1>1, <3>1
    <3>3. ObeysUpTo(g, measure[y], S, stop, next, measure, base, step)
      <4>1. \A z \in S : measure[z] \in Nat /\ (measure[z] <= measure[y] => measure[z] <= measure[x])
        BY <1>2, <3>1
      <4> HIDE DEF g, y
      <4> QED BY <2>1, <4>1 DEF ObeysUpTo
    <3>4. f[y] = g[y]
      <4> HIDE DEF f, g, y
      <4> QED BY <3>1, <3>2, <3>3, SameResults
    <3>5. h[next[x]] = g[next[x]]
      BY <3>2, <3>4
    <3> HIDE DEF h, g, f, y
    <3> QED BY <2>2, <2>4, <3>5 DEF Obeys
  <2> QED BY <2>3, <2>4
<1> QED BY <1>3, <1>4

\* What holds where the recursion stops, and of an argument if of the next, holds of all.
LEMMA MeasuredInduction ==
  ASSUME NEW S, NEW stop, NEW next, NEW measure, IsMeasured(S, stop, next, measure), NEW G,
         \A x \in S : x \in stop \/ next[x] \in G => x \in G
  PROVE  \A x \in S : x \in G
<1> DEFINE bad == {x \in S : x \notin G}
           low == {measure[x] : x \in bad}
<1> SUFFICES ASSUME bad # {} PROVE FALSE
  OBVIOUS
<1>1. low \in SUBSET Nat /\ low # {}
  BY DEF IsMeasured
<1>2. \E n \in low : \A m \in low : n <= m
  <2> HIDE DEF low
  <2> QED BY <1>1, LeastNumber
<1>3. PICK x \in bad : \A y \in bad : measure[x] <= measure[y]
  BY <1>2
<1>4. x \notin stop
  BY <1>3
<1>5. next[x] \in S /\ measure[next[x]] \in Nat /\ measure[x] \in Nat
      /\ measure[next[x]] < measure[x]
  BY <1>3, <1>4 DEF IsMeasured
<1>6. next[x] \notin bad
  BY <1>3, <1>5
<1> QED BY <1>3, <1>5, <1>6

-----------------------------------------------------------------------------
(* FlattenSeq. The lists are joined one behind the other.                            *)

Lists(V) == Seq(V)

\* The lists joined so far.
IsJoining(row, seqs, n) ==
  row[0] = <<>> /\ \A k \in 1..n : row[k] = row[k - 1] \o seqs[k]

LEMMA JoinedLists ==
  ASSUME NEW V, NEW s \in Lists(V), NEW t \in Lists(V)
  PROVE  s \o t \in Lists(V) /\ <<>> \in Lists(V) /\ <<>> \o t = t
BY DEF Lists

LEMMA Flattened ==
  ASSUME NEW V, NEW n \in Nat, NEW seqs, Len(seqs) = n, seqs \in [1..n -> Lists(V)],
         n = 0 => seqs = <<>>
  PROVE  \E row \in [0..n -> Lists(V)] : IsJoining(row, seqs, n) /\ FlattenSeq(seqs) = row[n]
<1> DEFINE Is(g) == g = [i \in 1..n |-> IF i = 1 THEN seqs[i] ELSE g[i - 1] \o seqs[i]]
           flatten == CHOOSE g : Is(g)
<1>1. CASE n = 0
  <2> DEFINE row == [k \in 0..n |-> <<>>]
  <2>1. <<>> \in Lists(V)
    BY DEF Lists
  <2>2. FlattenSeq(seqs) = <<>>
    BY <1>1 DEF FlattenSeq
  <2>3. row \in [0..n -> Lists(V)] /\ row[0] = <<>> /\ row[n] = <<>>
    BY <1>1, <2>1
  <2>4. IsJoining(row, seqs, n)
    <3>1. 1..n = {}
      BY <1>1
    <3> QED BY <2>3, <3>1 DEF IsJoining
  <2> HIDE DEF row
  <2> QED BY <2>2, <2>3, <2>4
<1>2. CASE n > 0
  <2>1. FlattenSeq(seqs) = flatten[n]
    BY <1>2 DEF FlattenSeq
  <2> DEFINE S == 1..n
             stop == {1}
             next == [i \in S |-> IF i = 1 THEN 1 ELSE i - 1]
             measure == [i \in S |-> i]
             base == [i \in S |-> seqs[i]]
             step == [p \in Lists(V) \X S |-> p[1] \o seqs[p[2]]]
  <2>2. IsMeasured(S, stop, next, measure)
    <3>1. \A i \in S : i \in Nat /\ (i # 1 => i - 1 \in S) /\ 1 \in S
      BY <1>2
    <3>2. next \in [S -> S] /\ measure \in [S -> Nat]
      BY <3>1
    <3>3. \A i \in S : i \in stop \/ measure[next[i]] < measure[i]
      BY <3>1
    <3> QED BY <3>2, <3>3 DEF IsMeasured
  <2>3. base \in Results(S, Lists(V)) /\ step \in Answers(S, Lists(V))
    <3>1. \A v \in Lists(V), i \in S : v \o seqs[i] \in Lists(V)
      BY JoinedLists
    <3> QED BY <3>1 DEF Results, Answers
  <2> HIDE DEF stop, next, measure, base, step
  <2>4. \E g \in Results(S, Lists(V)) : \A x \in S : Obeys(g, x, stop, next, base, step)
    <3> DEFINE W == Lists(V)
    <3>1. base \in Results(S, W) /\ step \in Answers(S, W)
      BY <2>3
    <3> HIDE DEF S, W
    <3>2. \E g \in Results(S, W) : \A x \in S : Obeys(g, x, stop, next, base, step)
      BY <2>2, <3>1, MeasuredRecursion
    <3> QED BY <3>2 DEF W
  <2>5. PICK g \in Results(S, Lists(V)) : \A x \in S : Obeys(g, x, stop, next, base, step)
    BY <2>4
  <2>6. g \in [1..n -> Lists(V)]
    BY <2>5 DEF Results
  <2>7. \A i \in 1..n : g[i] = IF i = 1 THEN seqs[i] ELSE g[i - 1] \o seqs[i]
    <3> TAKE i \in 1..n
    <3>1. g[i] = IF i \in stop THEN base[i] ELSE step[<<g[next[i]], i>>]
      BY <2>5 DEF Obeys
    <3>2. CASE i = 1
      BY <3>1, <3>2 DEF stop, base
    <3>3. CASE i # 1
      <4>1. next[i] = i - 1 /\ i - 1 \in 1..n
        BY <3>3 DEF next
      <4>2. g[i - 1] \in Lists(V)
        BY <2>6, <4>1
      <4>3. step[<<g[i - 1], i>>] = g[i - 1] \o seqs[i]
        BY <4>2 DEF step
      <4>4. i \notin stop
        BY <3>3 DEF stop
      <4> QED BY <3>1, <3>3, <4>1, <4>3, <4>4
    <3> QED BY <3>2, <3>3
  <2>8. Is(g)
    BY <2>6, <2>7
  <2>9. Is(flatten)
    <3> HIDE DEF Is
    <3> QED BY <2>8
  <2> HIDE DEF flatten
  <2>10. \A i \in 1..n : flatten[i] = IF i = 1 THEN seqs[i] ELSE flatten[i - 1] \o seqs[i]
    BY <2>9
  <2> DEFINE row == [k \in 0..n |-> IF k = 0 THEN <<>> ELSE flatten[k]]
             G == {k \in 0..n : row[k] \in Lists(V)}
  <2>11. row[0] = <<>>
    OBVIOUS
  <2>12. \A k \in 1..n : k \in 0..n /\ k - 1 \in 0..n /\ row[k] = flatten[k]
                         /\ (k # 1 => row[k - 1] = flatten[k - 1])
    OBVIOUS
  <2>13. \A k \in 1..n : row[k - 1] \in Lists(V) => row[k] = row[k - 1] \o seqs[k]
    <3> TAKE k \in 1..n
    <3> HAVE row[k - 1] \in Lists(V)
    <3>1. CASE k = 1
      <4>1. row[k - 1] = <<>> /\ row[k] = seqs[k]
        BY <2>10, <2>11, <2>12, <3>1
      <4>2. <<>> \o seqs[k] = seqs[k]
        BY JoinedLists
      <4> QED BY <4>1, <4>2
    <3>2. CASE k # 1
      BY <2>10, <2>12, <3>2
    <3> QED BY <3>1, <3>2
  <2> HIDE DEF row
  <2>14. 0 \in G
    <3>1. <<>> \in Lists(V) /\ 0 \in 0..n
      BY DEF Lists
    <3> QED BY <2>11, <3>1
  <2>15. ASSUME NEW k \in 1..n, k - 1 \in G PROVE k \in G
    <3>1. row[k - 1] \in Lists(V) /\ seqs[k] \in Lists(V) /\ k \in 0..n
      BY <2>15
    <3>2. row[k] = row[k - 1] \o seqs[k]
      BY <2>13, <3>1
    <3>3. row[k] \in Lists(V)
      BY <3>1, <3>2, JoinedLists
    <3> QED BY <3>1, <3>3
  <2> HIDE DEF G
  <2>16. \A k \in 0..n : k \in G
    BY <2>14, <2>15, Induction
  <2>17. \A k \in 0..n : row[k] \in Lists(V)
    BY <2>16 DEF G
  <2>18. row \in [0..n -> Lists(V)]
    BY <2>17 DEF row
  <2>19. IsJoining(row, seqs, n)
    <3>1. \A k \in 1..n : k - 1 \in 0..n
      OBVIOUS
    <3> QED BY <2>11, <2>13, <2>17, <3>1 DEF IsJoining
  <2>20. FlattenSeq(seqs) = row[n]
    BY <1>2, <2>1, <2>12
  <2> QED BY <2>18, <2>19, <2>20
<1> QED BY <1>1, <1>2
=============================================================================
