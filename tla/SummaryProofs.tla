---------------------------- MODULE SummaryProofs ----------------------------
(***************************************************************************)
(* What the arithmetic of Summary computes, for every number of samples,   *)
(* every value and every tolerance.                                        *)
(***************************************************************************)
EXTENDS Summary, FiniteSetTheorems, TLAPS

\* Max and Min of two integers, as _percentile uses them.
LEMMA MaxOfTwo ==
  ASSUME NEW a \in Int, NEW b \in Int
  PROVE  Max({a, b}) = IF a >= b THEN a ELSE b
<1> DEFINE m == IF a >= b THEN a ELSE b
<1>1. m \in {a, b} /\ \A y \in {a, b} : m >= y
  OBVIOUS
<1>2. \A x \in {a, b} : (\A y \in {a, b} : x >= y) => x = m
  OBVIOUS
<1> QED
  BY <1>1, <1>2 DEF Max

\* The lesser of two integers.
LEMMA MinOfTwo ==
  ASSUME NEW a \in Int, NEW b \in Int
  PROVE  Min({a, b}) = IF a <= b THEN a ELSE b
<1> DEFINE m == IF a <= b THEN a ELSE b
<1>1. m \in {a, b} /\ \A y \in {a, b} : m <= y
  OBVIOUS
<1>2. \A x \in {a, b} : (\A y \in {a, b} : x <= y) => x = m
  OBVIOUS
<1> QED
  BY <1>1, <1>2 DEF Min

\* The rank of each percentile that run.py reports is the nearest rank: the least one
\* that at least p percent of the samples do not exceed.  The clamp of _percentile to the
\* last index therefore never acts.
THEOREM RankIsNearest ==
  ASSUME NEW n \in Nat \ {0}, NEW p \in {50, 95, 99}
  PROVE  /\ Rank(n, p) \in 1 .. n
         /\ 100 * Rank(n, p) >= p * n
         /\ \A r \in 1 .. n : 100 * r >= p * n => Rank(n, p) <= r
<1> DEFINE q == (p * n + 99) \div 100
<1>1. /\ q \in 1 .. n
      /\ 100 * q >= p * n
      /\ \A r \in 1 .. n : 100 * r >= p * n => q <= r
  <2>1. CASE p = 50
    BY <2>1
  <2>2. CASE p = 95
    BY <2>2
  <2>3. CASE p = 99
    BY <2>3
  <2> QED
    BY <2>1, <2>2, <2>3
<1>2. Rank(n, p) = q
  BY <1>1, MaxOfTwo DEF Rank
<1> QED
  BY <1>1, <1>2

------------------------------------------------------------------------------
(* Sorting                                                                 *)

\* A finite family of numbers, its members themselves numbered, can be put into ascending
\* order: its i-th member goes where counting those below it, and its equals up to i, says.
LEMMA OrderExists ==
  ASSUME NEW D \in SUBSET Nat, IsFiniteSet(D), NEW f \in [D -> Nat]
  PROVE  \E q \in Bijection(1 .. Cardinality(D), D) :
           \A i, j \in 1 .. Cardinality(D) : i <= j => f[q[i]] <= f[q[j]]
<1> DEFINE n == Cardinality(D)
           Upto(i) == {j \in D : f[j] < f[i] \/ (f[j] = f[i] /\ j <= i)}
           rank == [i \in D |-> Cardinality(Upto(i))]
           q == [k \in 1 .. n |-> CHOOSE i \in D : rank[i] = k]
<1>1. n \in Nat
  BY FS_CardinalityType
<1>2. ASSUME NEW i \in D
      PROVE  IsFiniteSet(Upto(i)) /\ Cardinality(Upto(i)) \in 1 .. n
  <2>1. Upto(i) \in SUBSET D /\ Upto(i) # {}
    OBVIOUS
  <2>2. IsFiniteSet(Upto(i)) /\ Cardinality(Upto(i)) <= n
    BY <2>1, FS_Subset
  <2>3. Cardinality(Upto(i)) \in Nat /\ Cardinality(Upto(i)) # 0
    BY <2>1, <2>2, FS_CardinalityType, FS_EmptySet
  <2> QED
    BY <1>1, <2>2, <2>3
<1>3. ASSUME NEW i \in D, NEW j \in D, f[i] < f[j] \/ (f[i] = f[j] /\ i < j)
      PROVE  rank[i] < rank[j]
  <2>1. Upto(i) \in SUBSET Upto(j) /\ j \in Upto(j) /\ j \notin Upto(i)
    <3>1. i \in Nat /\ j \in Nat /\ f[i] \in Nat /\ f[j] \in Nat
      OBVIOUS
    <3>2. \A k \in D : k \in Nat /\ f[k] \in Nat
      OBVIOUS
    <3>3. \A k \in Upto(i) : k \in Upto(j)
      BY <1>3, <3>1, <3>2
    <3>4. j \in Upto(j) /\ j \notin Upto(i)
      BY <1>3, <3>1
    <3> HIDE DEF Upto
    <3> QED
      BY <3>3, <3>4
  <2>2. Cardinality(Upto(i)) <= Cardinality(Upto(j)) /\ Cardinality(Upto(i)) # Cardinality(Upto(j))
    BY <1>2, <2>1, FS_Subset
  <2> QED
    BY <1>1, <1>2, <2>2
<1>4. rank \in [D -> 1 .. n]
  BY <1>2
<1> HIDE DEF rank
<1>5. rank \in Injection(D, 1 .. n)
  <2>1. ASSUME NEW i \in D, NEW j \in D, i # j
        PROVE  rank[i] # rank[j]
    <3>1. \/ f[i] < f[j] \/ (f[i] = f[j] /\ i < j)
          \/ f[j] < f[i] \/ (f[j] = f[i] /\ j < i)
      BY <2>1
    <3>2. rank[i] \in Int /\ rank[j] \in Int
      BY <1>1, <1>4
    <3> QED
      BY <1>3, <3>1, <3>2
  <2> QED
    BY <1>4, <2>1 DEF Injection, IsInjective
<1>6. rank \in Surjection(D, 1 .. n)
  <2>1. IsFiniteSet(1 .. n) /\ Cardinality(1 .. n) = n
    <3>1. IsFiniteSet(1 .. n) /\ Cardinality(1 .. n) = IF 1 > n THEN 0 ELSE n - 1 + 1
      BY <1>1, FS_Interval
    <3> QED
      BY <1>1, <3>1
  <2> QED
    BY <1>5, <2>1, FS_Injection
<1>7. \A k \in 1 .. n : q[k] \in D /\ rank[q[k]] = k
  <2> TAKE k \in 1 .. n
  <2>1. \E i \in D : rank[i] = k
    BY <1>6 DEF Surjection
  <2> QED
    BY <2>1
<1>8. q \in [1 .. n -> D]
  BY <1>7
<1> HIDE DEF q
<1>9. q \in Bijection(1 .. n, D)
  <2>1. q \in Injection(1 .. n, D)
    BY <1>7, <1>8 DEF Injection, IsInjective
  <2>2. ASSUME NEW i \in D
        PROVE  \E k \in 1 .. n : q[k] = i
    <3>1. rank[i] \in 1 .. n
      BY <1>4
    <3>2. q[rank[i]] = i
      BY <1>5, <1>7, <3>1 DEF Injection, IsInjective
    <3> QED
      BY <3>1, <3>2
  <2> QED
    BY <1>8, <2>1, <2>2 DEF Bijection, Surjection
<1>10. ASSUME NEW i \in 1 .. n, NEW j \in 1 .. n, i <= j
       PROVE  f[q[i]] <= f[q[j]]
  <2>1. q[i] \in D /\ q[j] \in D
    BY <1>8
  <2>2. ~ rank[q[j]] < rank[q[i]]
    BY <1>1, <1>7, <1>10
  <2>3. ~ f[q[j]] < f[q[i]]
    BY <1>3, <2>1, <2>2
  <2>4. f[q[i]] \in Nat /\ f[q[j]] \in Nat
    BY <2>1
  <2> QED
    BY <2>3, <2>4
<1> QED
  BY <1>9, <1>10

\* What Sorted returns: the values of the family, each as often as it has it, ascending.
LEMMA SortedOrders ==
  ASSUME NEW D \in SUBSET Nat, IsFiniteSet(D), NEW f \in [D -> Nat]
  PROVE  /\ Sorted(f) \in Seq(Nat) /\ Len(Sorted(f)) = Cardinality(D)
         /\ \A i, j \in 1 .. Cardinality(D) : i <= j => Sorted(f)[i] <= Sorted(f)[j]
         /\ \E q \in Bijection(1 .. Cardinality(D), D) :
              \A i \in 1 .. Cardinality(D) : Sorted(f)[i] = f[q[i]]
<1> DEFINE n == Cardinality(D)
           Ascends(q) == \A i, j \in 1 .. n : i <= j => f[q[i]] <= f[q[j]]
           order == CHOOSE q \in Bijection(1 .. n, D) : Ascends(q)
<1>1. n \in Nat /\ DOMAIN f = D
  BY FS_CardinalityType
<1>2. order \in Bijection(1 .. n, D) /\ Ascends(order)
  <2>1. \E q \in Bijection(1 .. n, D) : Ascends(q)
    BY OrderExists
  <2> HIDE DEF Ascends
  <2> QED
    BY <2>1
<1>3. Sorted(f) = [i \in 1 .. n |-> f[order[i]]]
  BY <1>1 DEF Sorted
<1> HIDE DEF order
<1>4. order \in [1 .. n -> D]
  BY <1>2 DEF Bijection, Surjection
<1>5. Sorted(f) \in [1 .. n -> Nat]
  BY <1>3, <1>4
<1>6. Sorted(f) \in Seq(Nat) /\ Len(Sorted(f)) = n
  BY <1>1, <1>5
<1>7. \A i \in 1 .. n : Sorted(f)[i] = f[order[i]]
  BY <1>3
<1>8. \A i, j \in 1 .. n : i <= j => Sorted(f)[i] <= Sorted(f)[j]
  BY <1>2, <1>7
<1> QED
  BY <1>2, <1>6, <1>7, <1>8


------------------------------------------------------------------------------
(* Percentiles                                                             *)

\* A one-to-one sequence of members of a finite set: the set has at least as many.
LEMMA AtLeast ==
  ASSUME NEW D, NEW n \in Nat, NEW q \in Injection(1 .. n, D), NEW r \in 0 .. n,
         NEW S \in SUBSET D, IsFiniteSet(S), \A k \in 1 .. r : q[k] \in S
  PROVE  r <= Cardinality(S)
<1> DEFINE g == [k \in 1 .. r |-> q[k]]
<1>1. g \in Injection(1 .. r, S)
  BY DEF Injection, IsInjective
<1>2. Cardinality(1 .. r) <= Cardinality(S)
  BY <1>1, FS_Injection
<1>3. Cardinality(1 .. r) = IF 1 > r THEN 0 ELSE r - 1 + 1
  BY FS_Interval
<1> QED
  BY <1>2, <1>3

\* What a sequence covers within its first r positions.
First(q, r) == {q[k] : k \in 1 .. r}

\* It has at most r members.
LEMMA AtMost ==
  ASSUME NEW q, NEW r \in Nat, NEW S \in SUBSET First(q, r)
  PROVE  Cardinality(S) <= r
<1> DEFINE g == [x \in S |-> CHOOSE k \in 1 .. r : q[k] = x]
<1>1. \A x \in S : g[x] \in 1 .. r /\ q[g[x]] = x
  BY DEF First
<1>2. g \in [S -> 1 .. r]
  BY <1>1
<1> HIDE DEF g
<1>3. g \in Injection(S, 1 .. r)
  BY <1>1, <1>2 DEF Injection, IsInjective
<1>4. IsFiniteSet(1 .. r) /\ Cardinality(1 .. r) = IF 1 > r THEN 0 ELSE r - 1 + 1
  BY FS_Interval
<1>5. Cardinality(S) <= Cardinality(1 .. r)
  BY <1>3, <1>4, FS_Injection
<1> QED
  BY <1>4, <1>5

\* v is the least value of the family that p percent of it do not exceed.
IsNearest(f, p, v) ==
  LET D == DOMAIN f
      Reach(x) == Cardinality({i \in D : f[i] <= x})
  IN  /\ v \in Nat
      /\ \E i \in D : f[i] = v
      /\ 100 * Reach(v) >= p * Cardinality(D)
      /\ \A i \in D : 100 * Reach(f[i]) >= p * Cardinality(D) => v <= f[i]

LEMMA NearestTyped ==
  ASSUME NEW f, NEW p, NEW v, IsNearest(f, p, v)
  PROVE  v \in Nat
<1> QED
  BY DEF IsNearest

\* The percentile of the sorted values is the nearest-rank one.
THEOREM PercentileIsNearest ==
  ASSUME NEW D \in SUBSET Nat, IsFiniteSet(D), D # {}, NEW f \in [D -> Nat],
         NEW p \in {50, 95, 99}
  PROVE  IsNearest(f, p, Percentile(Sorted(f), p))
<1> DEFINE n == Cardinality(D)
           s == Sorted(f)
           r == Rank(n, p)
           Reach(x) == Cardinality({i \in D : f[i] <= x})
<1>1. n \in Nat \ {0}
  BY FS_CardinalityType, FS_EmptySet
<1>2. /\ s \in Seq(Nat) /\ Len(s) = n
      /\ \A i, j \in 1 .. n : i <= j => s[i] <= s[j]
  BY SortedOrders
<1> HIDE DEF s, r
<1>3. PICK q \in Bijection(1 .. n, D) : \A i \in 1 .. n : s[i] = f[q[i]]
  BY SortedOrders DEF s
<1>4. /\ q \in Injection(1 .. n, D) /\ q \in [1 .. n -> D]
      /\ \A i \in D : \E k \in 1 .. n : q[k] = i
  BY DEF Bijection, Injection, Surjection
<1>5. /\ r \in 1 .. n /\ 100 * r >= p * n
      /\ \A k \in 1 .. n : 100 * k >= p * n => r <= k
  <2> HIDE DEF n
  <2>1. CASE p = 50
    BY <1>1, <2>1, RankIsNearest DEF r
  <2>2. CASE p = 95
    BY <1>1, <2>2, RankIsNearest DEF r
  <2>3. CASE p = 99
    BY <1>1, <2>3, RankIsNearest DEF r
  <2> QED
    BY <2>1, <2>2, <2>3
<1>6. Percentile(s, p) = s[r]
  <2>1. Min({r, n}) = r
    BY <1>1, <1>5, MinOfTwo
  <2> QED
    BY <1>2, <2>1 DEF Percentile, r
<1>7. s[r] = f[q[r]] /\ q[r] \in D /\ s[r] \in Nat
  <2> HIDE DEF n
  <2>1. r \in 1 .. n
    BY <1>5
  <2>2. s[r] = f[q[r]] /\ q[r] \in D
    BY <1>3, <1>4, <2>1
  <2>3. f[q[r]] \in Nat
    BY <2>2, ZenonT(30)
  <2> QED
    BY <2>2, <2>3
<1>8. \A x : Reach(x) \in Nat /\ Reach(x) <= n
  <2> TAKE x
  <2>1. {i \in D : f[i] <= x} \in SUBSET D
    OBVIOUS
  <2> QED
    BY <2>1, FS_Subset, FS_CardinalityType
<1>9. 100 * Reach(s[r]) >= p * n
  <2>1. \A k \in 1 .. r : q[k] \in {i \in D : f[i] <= s[r]}
    <3> HIDE DEF n
    <3> TAKE k \in 1 .. r
    <3>1. k \in 1 .. n /\ k <= r
      BY <1>1, <1>5
    <3>2. s[k] <= s[r] /\ s[k] = f[q[k]] /\ q[k] \in D
      BY <1>2, <1>3, <1>4, <1>5, <3>1
    <3> QED
      BY <3>2
  <2>2. IsFiniteSet({i \in D : f[i] <= s[r]})
    BY FS_Subset
  <2>3. r <= Reach(s[r])
    BY <1>1, <1>4, <1>5, <2>1, <2>2, AtLeast
  <2> HIDE DEF Reach
  <2>4. Reach(s[r]) \in Nat
    BY <1>8
  <2> QED
    BY <1>1, <1>5, <2>3, <2>4
<1>10. ASSUME NEW i \in D, 100 * Reach(f[i]) >= p * n
       PROVE  s[r] <= f[i]
  <2> SUFFICES ASSUME f[i] < s[r]
               PROVE  FALSE
    BY <1>7
  <2>1. ASSUME NEW x \in {j \in D : f[j] <= f[i]}
        PROVE  \E k \in 1 .. r - 1 : q[k] = x
    <3>1. PICK k \in 1 .. n : q[k] = x
      BY <1>4
    <3>2. s[k] = f[x] /\ f[x] \in Nat /\ f[i] \in Nat
      BY <1>3, <3>1
    <3>3. ~ r <= k
      BY <1>2, <1>5, <1>7, <2>1, <3>2
    <3> QED
      BY <1>5, <3>1, <3>3
  <2>2. Reach(f[i]) <= r - 1
    <3> DEFINE S == {j \in D : f[j] <= f[i]}
               m == r - 1
    <3> HIDE DEF n
    <3>1. m \in Nat
      BY <1>1, <1>5
    <3>2. \A x \in S : x \in First(q, m)
      BY <2>1 DEF First
    <3> HIDE DEF S, m
    <3>3. Cardinality(S) <= m
      BY <3>1, <3>2, AtMost
    <3> QED
      BY <3>3 DEF S, m
  <2> HIDE DEF Reach
  <2>3. Reach(f[i]) \in Nat /\ Reach(f[i]) <= n
    BY <1>8
  <2>4. Reach(f[i]) \in 1 .. n
    BY <1>1, <1>10, <2>3
  <2> QED
    BY <1>5, <1>10, <2>2, <2>4
<1>11. Percentile(Sorted(f), p) = s[r]
  BY <1>6 DEF s
<1>12. DOMAIN f = D /\ \E i \in D : f[i] = s[r]
  BY <1>7
<1>13. IsNearest(f, p, s[r])
  BY <1>7, <1>9, <1>10, <1>12 DEF IsNearest
<1> QED
  BY <1>11, <1>13

\* The greatest value of a finite family is that of the last percentile, if there were one:
\* all of the family do not exceed it, and of no other value.
THEOREM GreatestIsNearest ==
  ASSUME NEW D \in SUBSET Nat, IsFiniteSet(D), D # {}, NEW f \in [D -> Nat]
  PROVE  IsNearest(f, 100, Max(Range(f)))
<1> DEFINE n == Cardinality(D)
           s == Sorted(f)
           v == Max(Range(f))
           Reach(x) == Cardinality({i \in D : f[i] <= x})
<1>1. n \in Nat \ {0}
  BY FS_CardinalityType, FS_EmptySet
<1>2. \A i, j \in 1 .. n : i <= j => s[i] <= s[j]
  BY SortedOrders
<1>3. PICK q \in Bijection(1 .. n, D) : \A i \in 1 .. n : s[i] = f[q[i]]
  BY SortedOrders
<1>4. \A i \in D : \E k \in 1 .. n : q[k] = i
  BY DEF Bijection, Surjection
<1>5. q[n] \in D
  BY <1>1 DEF Bijection, Surjection
<1>6. \A i \in D : f[i] <= f[q[n]]
  <2> TAKE i \in D
  <2>1. PICK k \in 1 .. n : q[k] = i
    BY <1>4
  <2>2. s[k] <= s[n] /\ s[k] = f[i] /\ s[n] = f[q[n]]
    BY <1>1, <1>2, <1>3, <2>1
  <2> QED
    BY <2>2
<1>7. \A y \in Range(f) : y <= f[q[n]]
  BY <1>6 DEF Range
<1>8. v \in Range(f) /\ \A y \in Range(f) : v >= y
  <2>1. f[q[n]] \in Range(f)
    BY <1>5 DEF Range
  <2>2. \A y \in Range(f) : y \in Nat
    BY DEF Range
  <2>3. \A y \in Range(f) : f[q[n]] >= y
    BY <1>7, <2>1, <2>2
  <2> QED
    BY <2>1, <2>3 DEF Max
<1> HIDE DEF v
<1>9. v \in Nat /\ \E i \in D : f[i] = v
  BY <1>8 DEF Range
<1>10. Reach(v) = n
  <2>1. {i \in D : f[i] <= v} = D
    <3>1. \A i \in D : f[i] \in Range(f) /\ f[i] \in Nat
      BY DEF Range
    <3> QED
      BY <1>8, <1>9, <3>1
  <2> QED
    BY <2>1
<1>11. ASSUME NEW i \in D, 100 * Reach(f[i]) >= 100 * n
       PROVE  v <= f[i]
  <2> DEFINE S == {j \in D : f[j] <= f[i]}
  <2>1. S \in SUBSET D
    OBVIOUS
  <2>2. Cardinality(S) \in Nat /\ Cardinality(S) <= n /\ (n = Cardinality(S) => S = D)
    BY <2>1, FS_Subset, FS_CardinalityType
  <2>3. S = D
    <3> HIDE DEF S
    <3>1. 100 * Cardinality(S) >= 100 * n
      BY <1>11 DEF S
    <3> QED
      BY <1>1, <2>2, <3>1
  <2> QED
    BY <1>9, <2>3
<1>12. DOMAIN f = D /\ 100 * Reach(v) >= 100 * n
  BY <1>1, <1>10
<1> QED
  BY <1>9, <1>11, <1>12 DEF v, IsNearest

\* p50 <= p95 <= p99 in every summary row: the three are read off one ascending sequence.
THEOREM PercentilesOrdered ==
  ASSUME NEW D \in SUBSET Nat, IsFiniteSet(D), D # {}, NEW f \in [D -> Nat]
  PROVE  /\ Percentile(Sorted(f), 50) <= Percentile(Sorted(f), 95)
         /\ Percentile(Sorted(f), 95) <= Percentile(Sorted(f), 99)
<1> DEFINE s == Sorted(f)
           n == Len(s)
<1>1. /\ n \in Nat \ {0} /\ s \in Seq(Nat)
      /\ \A i, j \in 1 .. n : i <= j => s[i] <= s[j]
  BY SortedOrders, FS_CardinalityType, FS_EmptySet
<1> HIDE DEF s, n
<1>2. \A p \in {50, 95, 99} : Rank(n, p) \in 1 .. n /\ Percentile(s, p) = s[Rank(n, p)]
  <2> TAKE p \in {50, 95, 99}
  <2>1. Rank(n, p) \in 1 .. n
    BY <1>1, RankIsNearest, ZenonT(30)
  <2>2. Min({Rank(n, p), n}) = Rank(n, p)
    BY <1>1, <2>1, MinOfTwo
  <2> QED
    BY <2>1, <2>2 DEF Percentile, n
<1>3. Rank(n, 50) <= Rank(n, 95) /\ Rank(n, 95) <= Rank(n, 99)
  <2>1. Rank(n, 50) \in 1 .. n /\ \A r \in 1 .. n : 100 * r >= 50 * n => Rank(n, 50) <= r
    BY <1>1, RankIsNearest, ZenonT(30)
  <2>2. /\ Rank(n, 95) \in 1 .. n /\ 100 * Rank(n, 95) >= 95 * n
        /\ \A r \in 1 .. n : 100 * r >= 95 * n => Rank(n, 95) <= r
    BY <1>1, RankIsNearest, ZenonT(30)
  <2>3. Rank(n, 99) \in 1 .. n /\ 100 * Rank(n, 99) >= 99 * n
    BY <1>1, RankIsNearest, ZenonT(30)
  <2>4. 100 * Rank(n, 95) >= 50 * n /\ 100 * Rank(n, 99) >= 95 * n
    BY <1>1, <2>2, <2>3
  <2> QED
    BY <2>1, <2>2, <2>3, <2>4
<1> QED
  BY <1>1, <1>2, <1>3 DEF s

------------------------------------------------------------------------------
(* Rates                                                                   *)

\* Rounding to four digits merges no two success rates of a battle, whose iterations the
\* schema caps at 50: verify's equality of rounded rates is equality of success counts.
THEOREM RateInjective ==
  ASSUME NEW n \in 1 .. 50, NEW s \in 0 .. n, NEW t \in 0 .. n, s < t
  PROVE  Rate(s, n) < Rate(t, n)
<1> DEFINE q(x) == (10000 * x) \div n
           r(x) == (10000 * x) % n
<1>1. ASSUME NEW x \in 0 .. n
      PROVE  /\ q(x) \in Int /\ r(x) \in 0 .. n - 1
             /\ 10000 * x = n * q(x) + r(x)
             /\ Rate(x, n) \in {q(x), q(x) + 1}
  <2>1. q(x) \in Int /\ r(x) \in 0 .. n - 1 /\ 10000 * x = n * q(x) + r(x)
    OBVIOUS
  <2> QED
    BY <2>1 DEF Rate
<1>2. q(t) >= q(s) + 2
  <2>1. 10000 * t >= 10000 * s + 10000
    OBVIOUS
  <2>2. n * q(t) + r(t) >= n * q(s) + r(s) + 10000
    BY <1>1, <2>1
  <2>3. ASSUME q(t) <= q(s) + 1
        PROVE  n * q(t) <= n * q(s) + n
    BY <2>3, <1>1
  <2> QED
    BY <1>1, <2>2, <2>3
<1>3. /\ Rate(s, n) \in {q(s), q(s) + 1} /\ q(s) \in Int
      /\ Rate(t, n) \in {q(t), q(t) + 1} /\ q(t) \in Int
  BY <1>1
<1> HIDE DEF q, r
<1> QED
  BY <1>2, <1>3

\* Loosening a tolerance never turns a value that was within it into one that is not.
LEMMA WithinMonotone ==
  ASSUME NEW m, NEW c \in Int, NEW v \in Int, NEW t1 \in Nat, NEW t2 \in Nat, t1 <= t2,
         Within(m, c, v, t1)
  PROVE  Within(m, c, v, t2)
<1>1. CASE m = "success_rate"
  BY <1>1 DEF Within
<1>2. CASE m # "success_rate"
  <2>1. Denominator(c) \in Nat
    BY DEF Denominator, Abs
  <2>2. Abs(v - c) \in Nat
    BY DEF Abs
  <2>3. t1 * Denominator(c) <= t2 * Denominator(c)
    BY <2>1
  <2>4. v # None /\ 100 * Abs(v - c) <= t1 * Denominator(c)
    BY <1>2 DEF Within
  <2>5. t1 * Denominator(c) \in Int /\ t2 * Denominator(c) \in Int
    BY <2>1
  <2>6. 100 * Abs(v - c) <= t2 * Denominator(c)
    <3> HIDE DEF Abs, Denominator
    <3> QED
      BY <2>2, <2>3, <2>4, <2>5
  <2> QED
    BY <1>2, <2>4, <2>6 DEF Within
<1> QED
  BY <1>1, <1>2

\* A summary: a metrics record, with natural values, for each (tool, task) pair.
IsSummary(S) ==
  \A k \in DOMAIN S : DOMAIN S[k] \subseteq DOMAIN Default
                     /\ \A m \in DOMAIN S[k] : S[k][m] \in Nat

IsTolerances(T) == \A m \in DOMAIN T : T[m] \in Nat

\* What each verdict says: "incomplete", that nothing was claimed or something is missing;
\* "match", that something was claimed, nothing is missing and everything is within.
LEMMA VerdictMeans ==
  ASSUME NEW claimed, NEW verified, NEW T
  PROVE  LET verdict == VerdictFromDiffs(CompareSummaries(claimed, verified, T))
             V(k, m) == Get(Get(verified, k, <<>>), m, None)
         IN  /\ verdict = "incomplete" <=>
                  \/ \A k \in DOMAIN claimed : DOMAIN claimed[k] = {}
                  \/ \E k \in DOMAIN claimed : \E m \in DOMAIN claimed[k] : V(k, m) = None
             /\ verdict = "match" <=>
                  /\ \E k \in DOMAIN claimed : DOMAIN claimed[k] # {}
                  /\ \A k \in DOMAIN claimed : \A m \in DOMAIN claimed[k] :
                       V(k, m) # None /\ Within(m, claimed[k][m], V(k, m), Get(T, m, 0))
             /\ verdict \in {"incomplete", "match", "mismatch"}
<1> DEFINE D == CompareSummaries(claimed, verified, T)
           V(k, m) == Get(Get(verified, k, <<>>), m, None)
           W(k, m) == Within(m, claimed[k][m], V(k, m), Get(T, m, 0))
           E(k, m) == [key |-> k, metric |-> m, verified |-> V(k, m), within |-> W(k, m)]
<1>1. /\ VerdictFromDiffs(D) = "match" <=>
           D # {} /\ (\A d \in D : d.verified # None) /\ \A d \in D : d.within
      /\ VerdictFromDiffs(D) = "incomplete" <=> D = {} \/ \E d \in D : d.verified = None
      /\ VerdictFromDiffs(D) \in {"incomplete", "match", "mismatch"}
  BY DEF VerdictFromDiffs
<1>2. D = UNION {{E(k, m) : m \in DOMAIN claimed[k]} : k \in DOMAIN claimed}
  BY DEF CompareSummaries, RowDiffs
<1>3. \A k, m : E(k, m).verified = V(k, m)
  BY Zenon
<1>4. \A k, m : E(k, m).within <=> W(k, m)
  BY Zenon
<1> HIDE DEF D, E, V, W
<1>5. \A d : d \in D <=> \E k \in DOMAIN claimed : \E m \in DOMAIN claimed[k] : d = E(k, m)
  BY <1>2
<1>6. D # {} <=> \E k \in DOMAIN claimed : DOMAIN claimed[k] # {}
  BY <1>5
<1>7. (\A d \in D : d.verified # None) <=>
        \A k \in DOMAIN claimed : \A m \in DOMAIN claimed[k] : V(k, m) # None
  BY <1>3, <1>5
<1>8. (\A d \in D : d.within) <=>
        \A k \in DOMAIN claimed : \A m \in DOMAIN claimed[k] : W(k, m)
  BY <1>4, <1>5, Zenon
<1>9. /\ VerdictFromDiffs(D) = "match" <=>
           /\ \E k \in DOMAIN claimed : DOMAIN claimed[k] # {}
           /\ \A k \in DOMAIN claimed : \A m \in DOMAIN claimed[k] : V(k, m) # None /\ W(k, m)
      /\ VerdictFromDiffs(D) = "incomplete" <=>
           \/ \A k \in DOMAIN claimed : DOMAIN claimed[k] = {}
           \/ \E k \in DOMAIN claimed : \E m \in DOMAIN claimed[k] : V(k, m) = None
  BY <1>1, <1>6, <1>7, <1>8, Zenon
<1> QED
  BY <1>1, <1>9, Zenon DEF D, V, W

LEMMA MatchMeans ==
  ASSUME NEW claimed, NEW verified, NEW T
  PROVE  VerdictFromDiffs(CompareSummaries(claimed, verified, T)) = "match" <=>
           /\ \E k \in DOMAIN claimed : DOMAIN claimed[k] # {}
           /\ \A k \in DOMAIN claimed : \A m \in DOMAIN claimed[k] :
                LET v == Get(Get(verified, k, <<>>), m, None)
                IN  v # None /\ Within(m, claimed[k][m], v, Get(T, m, 0))
<1> QED
  BY VerdictMeans, Zenon

\* A battle that tightens its tolerances only makes verification stricter: what matches
\* under the tighter ones matches under the looser ones (SPEC 4, _load_tolerances).
THEOREM TighteningIsSound ==
  ASSUME NEW claimed, NEW verified, IsSummary(claimed), IsSummary(verified),
         NEW T1, NEW T2, IsTolerances(T1), IsTolerances(T2), DOMAIN T1 = DOMAIN T2,
         \A m \in DOMAIN T1 : T1[m] <= T2[m],
         VerdictFromDiffs(CompareSummaries(claimed, verified, T1)) = "match"
  PROVE  VerdictFromDiffs(CompareSummaries(claimed, verified, T2)) = "match"
<1> DEFINE V(k, m) == Get(Get(verified, k, <<>>), m, None)
<1>1. SUFFICES ASSUME NEW k \in DOMAIN claimed, NEW m \in DOMAIN claimed[k]
               PROVE  V(k, m) # None /\ Within(m, claimed[k][m], V(k, m), Get(T2, m, 0))
  BY MatchMeans
<1>2. V(k, m) # None /\ Within(m, claimed[k][m], V(k, m), Get(T1, m, 0))
  BY MatchMeans
<1>3. claimed[k][m] \in Int
  BY DEF IsSummary
<1>4. V(k, m) \in Int
  BY <1>2 DEF IsSummary, Get
<1>5. Get(T1, m, 0) \in Nat /\ Get(T2, m, 0) \in Nat /\ Get(T1, m, 0) <= Get(T2, m, 0)
  BY DEF Get, IsTolerances
<1> HIDE DEF V
<1> QED
  BY <1>2, <1>3, <1>4, <1>5, WithinMonotone

\* A summary compared with itself matches, under any tolerances: a verifier whose
\* iterations measure what the claimer's did confirms the claim.
THEOREM SelfMatch ==
  ASSUME NEW S, IsSummary(S), \E k \in DOMAIN S : DOMAIN S[k] # {},
         NEW T, IsTolerances(T)
  PROVE  VerdictFromDiffs(CompareSummaries(S, S, T)) = "match"
<1> SUFFICES ASSUME NEW k \in DOMAIN S, NEW m \in DOMAIN S[k]
             PROVE  LET v == Get(Get(S, k, <<>>), m, None)
                    IN  v # None /\ Within(m, S[k][m], v, Get(T, m, 0))
  BY MatchMeans
<1>1. Get(Get(S, k, <<>>), m, None) = S[k][m]
  BY DEF Get
<1>2. S[k][m] \in Nat /\ S[k][m] # None
  BY DEF IsSummary, None
<1>3. Get(T, m, 0) \in Nat
  BY DEF Get, IsTolerances
<1>4. Within(m, S[k][m], S[k][m], Get(T, m, 0))
  <2> DEFINE c == S[k][m]
             t == Get(T, m, 0)
  <2>1. c - c = 0 /\ Abs(0) = 0
    BY <1>2 DEF Abs
  <2>2. Denominator(c) \in Nat
    BY <1>2 DEF Denominator, Abs
  <2>3. t * Denominator(c) >= 0
    <3> HIDE DEF t, c
    <3> QED
      BY <2>2, <1>3 DEF t
  <2> HIDE DEF c, t
  <2>4. 100 * Abs(c - c) <= t * Denominator(c)
    BY <2>1, <2>3
  <2> QED
    BY <1>2, <2>4 DEF Within, c, t
<1> QED
  BY <1>1, <1>2, <1>4

------------------------------------------------------------------------------
(* Summaries of iterations                                                 *)

\* What run.py records of one iteration, a failed one too.
Iteration == [success : BOOLEAN, wall : Nat, rss : Nat, cpu : Nat]

LEMMA ColumnTyped ==
  ASSUME NEW n \in Nat, NEW rs \in [1 .. n -> Iteration]
  PROVE  /\ Len(rs) = n
         /\ Successes(rs) \in SUBSET Nat /\ IsFiniteSet(Successes(rs))
         /\ Cardinality(Successes(rs)) \in 0 .. n
         /\ Column(rs, "wall") \in [Successes(rs) -> Nat]
         /\ Column(rs, "rss") \in [Successes(rs) -> Nat]
         /\ Column(rs, "cpu") \in [Successes(rs) -> Nat]
<1>1. rs \in Seq(Iteration) /\ Len(rs) = n
  OBVIOUS
<1>2. Successes(rs) \in SUBSET (1 .. n)
  BY DEF Successes
<1>3. IsFiniteSet(1 .. n) /\ Cardinality(1 .. n) = IF 1 > n THEN 0 ELSE n - 1 + 1
  BY FS_Interval
<1>4. IsFiniteSet(Successes(rs)) /\ Cardinality(Successes(rs)) <= Cardinality(1 .. n)
  BY <1>2, <1>3, FS_Subset
<1>5. Cardinality(Successes(rs)) \in Nat
  BY <1>4, FS_CardinalityType
<1>6. \A i \in Successes(rs) : rs[i].wall \in Nat /\ rs[i].rss \in Nat /\ rs[i].cpu \in Nat
  BY <1>2 DEF Iteration
<1>7. /\ Column(rs, "wall") \in [Successes(rs) -> Nat]
      /\ Column(rs, "rss") \in [Successes(rs) -> Nat]
      /\ Column(rs, "cpu") \in [Successes(rs) -> Nat]
  BY <1>6 DEF Column
<1> QED
  BY <1>1, <1>2, <1>3, <1>4, <1>5, <1>7

\* The metrics of a row with a successful iteration: run.py measures no throughput.
Metrics ==
  {"success_rate", "wall_clock_ms_p50", "wall_clock_ms_p95", "wall_clock_ms_p99",
   "peak_rss_mb", "cpu_time_ms_p50"}

\* A pair's row: its success rate, and the other metrics just if an iteration succeeded;
\* every metric is a natural number, so none is taken for a missing one.
LEMMA RowTyped ==
  ASSUME NEW n \in Nat \ {0}, NEW rs \in [1 .. n -> Iteration]
  PROVE  /\ DOMAIN Row(rs) = IF Successes(rs) = {} THEN {"success_rate"} ELSE Metrics
         /\ Row(rs)["success_rate"] = Rate(Cardinality(Successes(rs)), n)
         /\ \A m \in DOMAIN Row(rs) : Row(rs)[m] \in Nat
<1> DEFINE S == Successes(rs)
           rate == Rate(Cardinality(S), n)
<1>1. /\ Len(rs) = n /\ S \in SUBSET Nat /\ IsFiniteSet(S) /\ Cardinality(S) \in 0 .. n
      /\ Column(rs, "wall") \in [S -> Nat]
      /\ Column(rs, "rss") \in [S -> Nat]
      /\ Column(rs, "cpu") \in [S -> Nat]
  BY ColumnTyped
<1>2. rate \in Nat
  <2>1. \A c \in 0 .. n : (10000 * c) \div n \in Nat
    OBVIOUS
  <2> HIDE DEF S
  <2> QED
    BY <1>1, <2>1 DEF Rate
<1>3. CASE S = {}
  BY <1>1, <1>2, <1>3 DEF Row
<1>4. CASE S # {}
  <2> DEFINE p50 == Percentile(Sorted(Column(rs, "wall")), 50)
             p95 == Percentile(Sorted(Column(rs, "wall")), 95)
             p99 == Percentile(Sorted(Column(rs, "wall")), 99)
             peak == Max(Range(Column(rs, "rss")))
             cpu == Percentile(Sorted(Column(rs, "cpu")), 50)
  <2>1. p50 \in Nat /\ p95 \in Nat /\ p99 \in Nat /\ cpu \in Nat
    <3> HIDE DEF S
    <3>1. ASSUME NEW f \in [S -> Nat], NEW p \in {50, 95, 99}
          PROVE  Percentile(Sorted(f), p) \in Nat
      <4>1. IsNearest(f, p, Percentile(Sorted(f), p))
        BY <1>1, <1>4, PercentileIsNearest
      <4> QED
        BY <4>1, NearestTyped
    <3> QED
      BY <1>1, <3>1
  <2>2. peak \in Nat
    <3> HIDE DEF S
    <3> QED
      BY <1>1, <1>4, GreatestIsNearest, NearestTyped
  <2>3. Row(rs) = [success_rate      |-> rate,
                   wall_clock_ms_p50 |-> p50,
                   wall_clock_ms_p95 |-> p95,
                   wall_clock_ms_p99 |-> p99,
                   peak_rss_mb       |-> peak,
                   cpu_time_ms_p50   |-> cpu]
    BY <1>1, <1>4 DEF Row
  <2> HIDE DEF p50, p95, p99, peak, cpu, rate
  <2>4. DOMAIN Row(rs) = Metrics /\ Row(rs)["success_rate"] = rate
    BY <2>3 DEF Metrics
  <2>5. \A m \in DOMAIN Row(rs) : Row(rs)[m] \in Nat
    BY <1>2, <2>1, <2>2, <2>3
  <2> QED
    BY <1>4, <2>4, <2>5 DEF rate
<1> QED
  BY <1>3, <1>4

\* The summary of any battle's iterations is one that SelfMatch and TighteningIsSound
\* speak of.
LEMMA SummaryTyped ==
  ASSUME NEW runs, NEW n \in Nat \ {0}, \A k \in DOMAIN runs : runs[k] \in [1 .. n -> Iteration]
  PROVE  /\ IsSummary(BuildSummary(runs))
         /\ \A k \in DOMAIN runs : "success_rate" \in DOMAIN BuildSummary(runs)[k]
<1> SUFFICES ASSUME NEW k \in DOMAIN runs
             PROVE  /\ DOMAIN Row(runs[k]) \subseteq DOMAIN Default
                    /\ "success_rate" \in DOMAIN Row(runs[k])
                    /\ \A m \in DOMAIN Row(runs[k]) : Row(runs[k])[m] \in Nat
  BY DEF IsSummary, BuildSummary
<1> QED
  BY RowTyped DEF Metrics, Default

\* Equally rated means equally often successful, up to the schema's 50 iterations.
LEMMA RatesTell ==
  ASSUME NEW n \in 1 .. 50, NEW s \in 0 .. n, NEW t \in 0 .. n
  PROVE  Rate(s, n) = Rate(t, n) <=> s = t
<1>1. ASSUME NEW a \in 0 .. n, NEW b \in 0 .. n, a < b
      PROVE  Rate(a, n) # Rate(b, n)
  <2>1. Rate(a, n) < Rate(b, n)
    BY <1>1, RateInjective
  <2>2. Rate(a, n) \in Int
    BY DEF Rate
  <2> QED
    BY <2>1, <2>2
<1> QED
  BY <1>1

\* A "match" between two runs of one battle says that every pair succeeded equally often,
\* although only rates rounded to four digits are compared.
THEOREM MatchCountsSuccesses ==
  ASSUME NEW claimed, NEW verified, NEW T, NEW n \in 1 .. 50,
         \A k \in DOMAIN claimed : claimed[k] \in [1 .. n -> Iteration],
         \A k \in DOMAIN verified : verified[k] \in [1 .. n -> Iteration],
         VerdictFromDiffs(CompareSummaries(BuildSummary(claimed), BuildSummary(verified), T))
           = "match"
  PROVE  \A k \in DOMAIN claimed :
           /\ k \in DOMAIN verified
           /\ Cardinality(Successes(claimed[k])) = Cardinality(Successes(verified[k]))
<1> SUFFICES ASSUME NEW k \in DOMAIN claimed
             PROVE  /\ k \in DOMAIN verified
                    /\ Cardinality(Successes(claimed[k])) = Cardinality(Successes(verified[k]))
  OBVIOUS
<1> DEFINE C == BuildSummary(claimed)
           V == BuildSummary(verified)
<1>1. ASSUME NEW rs \in [1 .. n -> Iteration]
      PROVE  /\ "success_rate" \in DOMAIN Row(rs)
             /\ Row(rs)["success_rate"] = Rate(Cardinality(Successes(rs)), n)
             /\ Cardinality(Successes(rs)) \in 0 .. n
  BY RowTyped, ColumnTyped DEF Metrics
<1>2. /\ DOMAIN C = DOMAIN claimed /\ C[k] = Row(claimed[k])
      /\ DOMAIN V = DOMAIN verified
      /\ k \in DOMAIN verified => V[k] = Row(verified[k])
  BY DEF BuildSummary
<1> HIDE DEF C, V
<1>3. LET v == Get(Get(V, k, <<>>), "success_rate", None)
      IN  v # None /\ Within("success_rate", C[k]["success_rate"], v, Get(T, "success_rate", 0))
  <2>1. VerdictFromDiffs(CompareSummaries(C, V, T)) = "match"
    BY DEF C, V
  <2>2. k \in DOMAIN C /\ "success_rate" \in DOMAIN C[k]
    BY <1>1, <1>2
  <2> QED
    BY <2>1, <2>2, MatchMeans
<1>4. k \in DOMAIN verified
  <2> SUFFICES ASSUME k \notin DOMAIN verified PROVE FALSE
    OBVIOUS
  <2>1. Get(V, k, <<>>) = <<>>
    BY <1>2 DEF Get
  <2>2. Get(<<>>, "success_rate", None) = None
    BY DEF Get
  <2> QED
    BY <1>3, <2>1, <2>2
<1>5. C[k]["success_rate"] = V[k]["success_rate"]
  <2>1. Get(Get(V, k, <<>>), "success_rate", None) = V[k]["success_rate"]
    BY <1>1, <1>2, <1>4 DEF Get
  <2> QED
    BY <1>3, <2>1 DEF Within
<1>6. Rate(Cardinality(Successes(claimed[k])), n) = Rate(Cardinality(Successes(verified[k])), n)
  BY <1>1, <1>2, <1>4, <1>5
<1> DEFINE s == Cardinality(Successes(claimed[k]))
           t == Cardinality(Successes(verified[k]))
<1>7. s \in 0 .. n /\ t \in 0 .. n
  BY <1>1, <1>4
<1> HIDE DEF s, t
<1>8. Rate(s, n) = Rate(t, n) <=> s = t
  BY <1>7, RatesTell
<1> QED
  BY <1>4, <1>6, <1>8 DEF s, t

==============================================================================
