------------------------ MODULE HybridSearch_proofs ------------------------
(***************************************************************************)
(* Proofs about Ranking and HybridSearch, for any corpus, any requests,    *)
(* any settings and any number of changes of the index.                    *)
(***************************************************************************)
EXTENDS HybridSearch, FiniteSetTheorems, TLAPS

-----------------------------------------------------------------------------
(* Orders                                                                   *)

\* Induction on the natural numbers, for a set.
LEMMA NatInductive ==
  ASSUME NEW T, 0 \in T, \A n \in Nat : n \in T => n + 1 \in T
  PROVE  \A n \in Nat : n \in T
<1> DEFINE Rest == Nat \ T
<1> SUFFICES ASSUME Rest # {} PROVE FALSE
  OBVIOUS
<1>1. \E x \in Rest : \A y \in Rest : ~(<<y, x>> \in OpToRel(<, Nat))
  BY NatLessThanWellFounded, WFMin
<1>2. PICK x \in Rest : \A y \in Rest : ~(y < x)
  BY <1>1 DEF OpToRel
<1>3. x - 1 \in Nat /\ x - 1 \notin Rest
  BY <1>2
<1> QED
  BY <1>3

\* f lists the members of a finite set, each of them once.
Lists(f, S) ==
  /\ Cardinality(S) \in Nat
  /\ f \in [1 .. Cardinality(S) -> S]
  /\ \A p, q \in 1 .. Cardinality(S) : f[p] = f[q] => p = q
  /\ \A m \in S : \E p \in 1 .. Cardinality(S) : f[p] = m

\* The members of S that come before m.
Ahead(S, key, m) == {n \in S : Before(key, n, m)}

\* Members of a finite set of integers have different numbers of members ahead
\* of them, all below the size of the set.
LEMMA AheadCounts ==
  ASSUME NEW S, IsFiniteSet(S), S \subseteq Int,
         NEW key, \A m \in S : key[m] \in Int
  PROVE  /\ \A m \in S : Cardinality(Ahead(S, key, m)) \in 0 .. Cardinality(S) - 1
         /\ \A m, n \in S : Cardinality(Ahead(S, key, m)) = Cardinality(Ahead(S, key, n)) => m = n
<1>1. ASSUME NEW m \in S
      PROVE  /\ IsFiniteSet(Ahead(S, key, m)) /\ Ahead(S, key, m) \subseteq S
             /\ Cardinality(Ahead(S, key, m)) \in 0 .. Cardinality(S) - 1
  <2>1. Ahead(S, key, m) \in SUBSET S /\ m \notin Ahead(S, key, m)
    BY DEF Ahead, Before
  <2>2. /\ IsFiniteSet(Ahead(S, key, m))
        /\ Cardinality(Ahead(S, key, m)) <= Cardinality(S)
        /\ Cardinality(S) # Cardinality(Ahead(S, key, m))
    BY <2>1, FS_Subset
  <2>3. Cardinality(Ahead(S, key, m)) \in Nat /\ Cardinality(S) \in Nat
    BY <2>2, FS_CardinalityType
  <2> QED
    BY <2>1, <2>2, <2>3
<1>2. ASSUME NEW m \in S, NEW n \in S, Before(key, m, n)
      PROVE  Cardinality(Ahead(S, key, m)) # Cardinality(Ahead(S, key, n))
  <2>1. ASSUME NEW x \in Ahead(S, key, m) PROVE x \in Ahead(S, key, n)
    BY <1>2 DEF Ahead, Before
  <2>2. m \in Ahead(S, key, n) /\ m \notin Ahead(S, key, m)
    BY <1>2 DEF Ahead, Before
  <2>3. Ahead(S, key, m) \in SUBSET Ahead(S, key, n) /\ Ahead(S, key, n) # Ahead(S, key, m)
    BY <2>1, <2>2
  <2> QED
    BY <2>3, <1>1, FS_Subset
<1>3. ASSUME NEW m \in S, NEW n \in S, m # n
      PROVE  Before(key, m, n) \/ Before(key, n, m)
  BY <1>3 DEF Before
<1> QED
  BY <1>1, <1>2, <1>3

\* Ranked lists the set: every place of the order is taken by one member.
LEMMA RankedLists ==
  ASSUME NEW S, IsFiniteSet(S), S \subseteq Int,
         NEW key, \A m \in S : key[m] \in Int
  PROVE  Lists(Ranked(S, key), S)
<1> DEFINE N == Cardinality(S)
           place == [m \in S |-> Cardinality(Ahead(S, key, m)) + 1]
<1>1. N \in Nat
  BY FS_CardinalityType
<1>0. ASSUME NEW m \in S PROVE Cardinality(Ahead(S, key, m)) \in 0 .. N - 1
  BY AheadCounts
<1>2. place \in [S -> 1 .. N]
  BY <1>0, <1>1
<1>3. \A m, n \in S : place[m] = place[n] => m = n
  <2> SUFFICES ASSUME NEW m \in S, NEW n \in S, place[m] = place[n] PROVE m = n
    OBVIOUS
  <2>1. Cardinality(Ahead(S, key, m)) \in Int /\ Cardinality(Ahead(S, key, n)) \in Int
    BY <1>0, <1>1
  <2>2. Cardinality(Ahead(S, key, m)) = Cardinality(Ahead(S, key, n))
    BY <2>1
  <2> QED
    BY <2>2, AheadCounts
<1>4. IsFiniteSet(1 .. N) /\ Cardinality(1 .. N) = N
  BY <1>1, FS_Interval
<1>5. \A p \in 1 .. N : \E m \in S : place[m] = p
  <2> HIDE DEF place
  <2>1. place \in Injection(S, 1 .. N)
    BY <1>2, <1>3 DEF Injection, IsInjective
  <2>2. place \in Surjection(S, 1 .. N)
    BY <2>1, <1>4, FS_Injection
  <2> QED
    BY <2>2 DEF Surjection
<1>6. ASSUME NEW p \in 1 .. N
      PROVE  Ranked(S, key)[p] \in S /\ place[Ranked(S, key)[p]] = p
  <2>1. PICK m \in S : place[m] = p
    BY <1>5
  <2>2. Cardinality(Ahead(S, key, m)) = p - 1
    BY <2>1, <1>0, <1>1
  <2>3. Ranked(S, key)[p] = CHOOSE x \in S : Cardinality(Ahead(S, key, x)) = p - 1
    BY DEF Ranked, Ahead
  <2>4. /\ Ranked(S, key)[p] \in S
        /\ Cardinality(Ahead(S, key, Ranked(S, key)[p])) = p - 1
    BY <2>2, <2>3
  <2> QED
    BY <2>4
<1>7. Ranked(S, key) = [p \in 1 .. N |-> Ranked(S, key)[p]]
  BY DEF Ranked
<1> HIDE DEF place
<1>8. Ranked(S, key) \in [1 .. N -> S]
  BY <1>6, <1>7
<1>9. ASSUME NEW m \in S PROVE \E p \in 1 .. N : Ranked(S, key)[p] = m
  <2>1. place[m] \in 1 .. N
    BY <1>2
  <2> QED
    BY <2>1, <1>6, <1>3
<1> QED
  BY <1>1, <1>6, <1>8, <1>9 DEF Lists

\* t has the entries of s in another order.
Permutes(order, n) ==
  /\ order \in [1 .. n -> 1 .. n]
  /\ \A p, q \in 1 .. n : order[p] = order[q] => p = q
  /\ \A m \in 1 .. n : \E p \in 1 .. n : order[p] = m

Permuted(t, s) ==
  \E order : Permutes(order, Len(s)) /\ t = [p \in 1 .. Len(s) |-> s[order[p]]]

\* sorted() loses nothing and invents nothing.
LEMMA SortPermutes ==
  ASSUME NEW T, NEW s \in Seq(T), NEW key, \A n \in 1 .. Len(s) : key[n] \in Int
  PROVE  Permuted(SortDescending(s, key), s)
<1> DEFINE N == Len(s)
           order == Ranked(1 .. N, key)
<1>1. N \in Nat /\ DOMAIN s = 1 .. N
  OBVIOUS
<1>2. IsFiniteSet(1 .. N) /\ Cardinality(1 .. N) = N
  BY <1>1, FS_Interval
<1>3. Lists(order, 1 .. N)
  <2> HIDE DEF N
  <2> QED
    BY <1>1, <1>2, RankedLists DEF N
<1>4. Permutes(order, N)
  <2> HIDE DEF order, N
  <2> QED
    BY <1>2, <1>3 DEF Lists, Permutes
<1>5. SortDescending(s, key) = [p \in 1 .. N |-> s[order[p]]]
  <2> HIDE DEF order
  <2>1. DOMAIN order = 1 .. N
    BY <1>4 DEF Permutes
  <2> QED
    BY <1>1, <2>1 DEF SortDescending, Pick, order
<1> QED
  BY <1>4, <1>5 DEF Permuted

\* What a permutation keeps.
LEMMA PermutedSeq ==
  ASSUME NEW T, NEW s \in Seq(T), NEW t, Permuted(t, s)
  PROVE  /\ t \in Seq(T) /\ Len(t) = Len(s) /\ Len(s) \in Nat
         /\ \A p \in 1 .. Len(s) : \E n \in 1 .. Len(s) : t[p] = s[n]
         /\ \A n \in 1 .. Len(s) : \E p \in 1 .. Len(s) : t[p] = s[n]
<1>0. PICK n \in Nat : n = Len(s)
  OBVIOUS
<1>1. PICK order : Permutes(order, n) /\ t = [p \in 1 .. n |-> s[order[p]]]
  BY <1>0 DEF Permuted
<1>2. /\ order \in [1 .. n -> 1 .. n]
      /\ \A m \in 1 .. n : \E p \in 1 .. n : order[p] = m
  BY <1>1 DEF Permutes
<1>3. \A p \in 1 .. n : order[p] \in 1 .. n
  BY <1>2
<1>4. \A m \in 1 .. n : s[m] \in T
  BY <1>0
<1>5. t \in [1 .. n -> T]
  BY <1>1, <1>3, <1>4
<1>6. t \in Seq(T) /\ Len(t) = n
  BY <1>5
<1>7. \A p \in 1 .. n : t[p] = s[order[p]]
  BY <1>1
<1>8. \A p \in 1 .. n : \E m \in 1 .. n : t[p] = s[m]
  BY <1>3, <1>7
<1>9. ASSUME NEW m \in 1 .. n PROVE \E p \in 1 .. n : t[p] = s[m]
  <2>1. PICK p \in 1 .. n : order[p] = m
    BY <1>2
  <2> QED
    BY <2>1, <1>7
<1> QED
  BY <1>0, <1>6, <1>8, <1>9

\* Filtering keeps the entries at the given places and no others.
LEMMA KeepSeq ==
  ASSUME NEW T, NEW s \in Seq(T), NEW places \in SUBSET (1 .. Len(s))
  PROVE  /\ Keep(s, places) \in Seq(T) /\ Len(Keep(s, places)) \in 0 .. Len(s)
         /\ \A p \in 1 .. Len(Keep(s, places)) : \E n \in places : Keep(s, places)[p] = s[n]
         /\ \A n \in places : \E p \in 1 .. Len(Keep(s, places)) : Keep(s, places)[p] = s[n]
<1> DEFINE zero == [n \in places |-> 0]
           order == Ranked(places, zero)
           N == Cardinality(places)
<1>0. PICK len \in Nat : len = Len(s)
  OBVIOUS
<1>1. IsFiniteSet(1 .. len) /\ Cardinality(1 .. len) = len
  BY FS_Interval
<1>2. IsFiniteSet(places) /\ N <= len /\ N \in Nat /\ places \subseteq Int
  <2>1. places \in SUBSET (1 .. len)
    BY <1>0
  <2>2. IsFiniteSet(places) /\ Cardinality(places) <= Cardinality(1 .. len)
    BY <1>1, <2>1, FS_Subset
  <2>3. N \in Nat
    BY <2>2, FS_CardinalityType
  <2> QED
    BY <1>1, <2>1, <2>2, <2>3
<1>3. Lists(order, places)
  <2>1. \A m \in places : zero[m] \in Int
    OBVIOUS
  <2> HIDE DEF zero
  <2> QED
    BY <1>2, <2>1, RankedLists
<1>4. /\ order \in [1 .. N -> places]
      /\ \A m \in places : \E p \in 1 .. N : order[p] = m
  <2> HIDE DEF order
  <2> QED
    BY <1>3 DEF Lists
<1>5. Keep(s, places) = [p \in 1 .. N |-> s[order[p]]]
  <2> HIDE DEF order, N
  <2>1. DOMAIN order = 1 .. N
    BY <1>4
  <2> QED
    BY <2>1 DEF Keep, Pick, order
<1> HIDE DEF order, N
<1>a. \A n \in places : s[n] \in T
  OBVIOUS
<1>b. \A p \in 1 .. N : order[p] \in places
  BY <1>4
<1>6. Keep(s, places) \in [1 .. N -> T]
  BY <1>5, <1>a, <1>b
<1>7. Keep(s, places) \in Seq(T) /\ Len(Keep(s, places)) = N
  BY <1>2, <1>6
<1>8. \A p \in 1 .. N : Keep(s, places)[p] = s[order[p]]
  BY <1>5
<1>9. \A p \in 1 .. N : \E n \in places : Keep(s, places)[p] = s[n]
  BY <1>8, <1>b
<1>10. \A n \in places : \E p \in 1 .. N : Keep(s, places)[p] = s[n]
  BY <1>8, <1>4
<1>11. Len(Keep(s, places)) \in 0 .. Len(s)
  BY <1>0, <1>2, <1>7
<1> QED
  BY <1>7, <1>9, <1>10, <1>11

\* A list of the first entries.
LEMMA TakeSeq ==
  ASSUME NEW T, NEW s \in Seq(T), NEW k \in Nat
  PROVE  /\ Take(s, k) \in Seq(T)
         /\ Len(Take(s, k)) \in Nat /\ Len(Take(s, k)) <= k /\ Len(Take(s, k)) <= Len(s)
         /\ \A p \in 1 .. Len(Take(s, k)) : p \in 1 .. Len(s) /\ Take(s, k)[p] = s[p]
         /\ s # <<>> /\ k # 0 => Len(Take(s, k)) # 0
BY DEF Take, AtMost

-----------------------------------------------------------------------------
(* Sums                                                                     *)

\* The recursive function in the definition of Sum
PartialSums(numbers) ==
  LET sum[n \in 0 .. Len(numbers)] == IF n = 0 THEN 0 ELSE sum[n - 1] + numbers[n]
  IN sum

\* F obeys that recursion up to k.
AddsUp(F, numbers, k) ==
  F = [n \in 0 .. k |-> IF n = 0 THEN 0 ELSE F[n - 1] + numbers[n]]

\* The recursion has a solution, and its values are integers.
LEMMA SumDefined ==
  ASSUME NEW numbers \in Seq(Int)
  PROVE  /\ Sum(numbers) = PartialSums(numbers)[Len(numbers)]
         /\ PartialSums(numbers)[0] = 0
         /\ \A n \in 1 .. Len(numbers) : PartialSums(numbers)[n] = PartialSums(numbers)[n - 1] + numbers[n]
         /\ \A n \in 0 .. Len(numbers) : PartialSums(numbers)[n] \in Int
<1> DEFINE Solved == {k \in Nat : \E F : AddsUp(F, numbers, k)}
<1>1. 0 \in Solved
  <2> DEFINE F == [n \in 0 .. 0 |-> 0]
  <2>1. AddsUp(F, numbers, 0)
    BY DEF AddsUp
  <2> QED
    BY <2>1
<1>2. ASSUME NEW k \in Nat, k \in Solved PROVE k + 1 \in Solved
  <2>1. PICK F : AddsUp(F, numbers, k)
    BY <1>2
  <2> DEFINE G == [n \in 0 .. k + 1 |-> IF n = k + 1 THEN F[k] + numbers[k + 1] ELSE F[n]]
  <2>2. ASSUME NEW n \in 0 .. k + 1
        PROVE  G[n] = IF n = 0 THEN 0 ELSE G[n - 1] + numbers[n]
    <3>1. CASE n = k + 1
      BY <3>1
    <3>2. CASE n # k + 1
      <4>1. n \in 0 .. k /\ (n # 0 => n - 1 \in 0 .. k)
        BY <3>2
      <4>2. F[n] = IF n = 0 THEN 0 ELSE F[n - 1] + numbers[n]
        BY <2>1, <4>1 DEF AddsUp
      <4> QED
        BY <4>1, <4>2
    <3> QED
      BY <3>1, <3>2
  <2>3. AddsUp(G, numbers, k + 1)
    <3>1. G = [n \in 0 .. k + 1 |-> G[n]]
      OBVIOUS
    <3> HIDE DEF G
    <3> QED
      BY <3>1, <2>2 DEF AddsUp
  <2> HIDE DEF G
  <2> QED
    BY <2>3
<1>3. \A k \in Nat : k \in Solved
  <2> HIDE DEF Solved
  <2> QED
    BY <1>1, <1>2, NatInductive
<1>4. PICK len \in Nat : len = Len(numbers)
  OBVIOUS
<1> DEFINE P == PartialSums(numbers)
<1>5. AddsUp(P, numbers, len)
  <2>1. \E F : AddsUp(F, numbers, len)
    BY <1>3
  <2> QED
    BY <2>1, <1>4 DEF PartialSums, AddsUp
<1> HIDE DEF P
<1>6. \A n \in 0 .. len : P[n] = IF n = 0 THEN 0 ELSE P[n - 1] + numbers[n]
  BY <1>5 DEF AddsUp
<1> DEFINE Typed == {n \in Nat : n <= len => P[n] \in Int}
<1>7. 0 \in Typed
  BY <1>6
<1>8. ASSUME NEW n \in Nat, n \in Typed PROVE n + 1 \in Typed
  <2> SUFFICES ASSUME n + 1 <= len PROVE P[n + 1] \in Int
    OBVIOUS
  <2>1. n + 1 \in 0 .. len /\ n + 1 # 0 /\ (n + 1) - 1 = n /\ n <= len
    OBVIOUS
  <2>2. P[n + 1] = P[n] + numbers[n + 1]
    BY <2>1, <1>6
  <2>3. P[n] \in Int /\ numbers[n + 1] \in Int
    BY <2>1, <1>8, <1>4
  <2> QED
    BY <2>2, <2>3
<1>9. \A n \in Nat : n \in Typed
  <2> HIDE DEF Typed
  <2> QED
    BY <1>7, <1>8, NatInductive
<1>10. Sum(numbers) = P[len]
  BY <1>4 DEF Sum, PartialSums, P
<1> QED
  BY <1>4, <1>6, <1>9, <1>10 DEF P

\* The sum depends on the numbers alone, and the last one is added last.
LEMMA SumLast ==
  ASSUME NEW n \in Nat, NEW s \in [1 .. n + 1 -> Int]
  PROVE  Sum(s) = Sum([p \in 1 .. n |-> s[p]]) + s[n + 1]
<1> DEFINE front == [p \in 1 .. n |-> s[p]]
           F == PartialSums(front)
           G == PartialSums(s)
<1>1. s \in Seq(Int) /\ Len(s) = n + 1 /\ front \in Seq(Int) /\ Len(front) = n
  OBVIOUS
<1>2. /\ Sum(s) = G[n + 1] /\ G[0] = 0
      /\ \A i \in 1 .. n + 1 : G[i] = G[i - 1] + s[i]
  BY <1>1, SumDefined
<1>3. /\ Sum(front) = F[n] /\ F[0] = 0
      /\ \A i \in 1 .. n : F[i] = F[i - 1] + front[i]
  <2> HIDE DEF front
  <2> QED
    BY <1>1, SumDefined
<1>4. \A i \in 1 .. n : front[i] = s[i]
  OBVIOUS
<1> HIDE DEF F, G, front
<1> DEFINE Same == {i \in Nat : i <= n => G[i] = F[i]}
<1>5. 0 \in Same
  BY <1>2, <1>3
<1>6. ASSUME NEW i \in Nat, i \in Same PROVE i + 1 \in Same
  <2> SUFFICES ASSUME i + 1 <= n PROVE G[i + 1] = F[i + 1]
    OBVIOUS
  <2>1. i + 1 \in 1 .. n /\ i + 1 \in 1 .. n + 1 /\ (i + 1) - 1 = i /\ i <= n
    OBVIOUS
  <2>2. G[i + 1] = G[i] + s[i + 1] /\ F[i + 1] = F[i] + front[i + 1]
    BY <2>1, <1>2, <1>3
  <2> QED
    BY <2>1, <2>2, <1>4, <1>6
<1>7. \A i \in Nat : i \in Same
  <2> HIDE DEF Same
  <2> QED
    BY <1>5, <1>6, NatInductive
<1>8. G[n] = F[n]
  BY <1>7
<1>9. n + 1 \in 1 .. n + 1 /\ (n + 1) - 1 = n
  OBVIOUS
<1>10. G[n + 1] = G[n] + s[n + 1]
  BY <1>2, <1>9
<1> QED
  BY <1>2, <1>3, <1>8, <1>10 DEF front

LEMMA SumInt ==
  ASSUME NEW numbers \in Seq(Int)
  PROVE  Sum(numbers) \in Int
<1>1. Len(numbers) \in 0 .. Len(numbers)
  OBVIOUS
<1> QED
  BY <1>1, SumDefined

LEMMA SumEmpty ==
  Sum(<<>>) = 0
<1>1. <<>> \in Seq(Int) /\ Len(<<>>) = 0
  OBVIOUS
<1> QED
  BY <1>1, SumDefined

\* What changing one number does to the sum.
LEMMA SumUpdate ==
  ASSUME NEW n \in Nat, NEW s \in [1 .. n -> Int], NEW t \in [1 .. n -> Int], NEW k \in 1 .. n,
         \A i \in 1 .. n : i # k => s[i] = t[i]
  PROVE  Sum(s) - s[k] = Sum(t) - t[k]
<1> DEFINE Holds(m, u, v, j) == (\A i \in 1 .. m : i # j => u[i] = v[i]) => Sum(u) - u[j] = Sum(v) - v[j]
           Good == {m \in Nat : \A u, v \in [1 .. m -> Int] : \A j \in 1 .. m : Holds(m, u, v, j)}
<1>1. 0 \in Good
  OBVIOUS
<1>2. ASSUME NEW m \in Nat, m \in Good PROVE m + 1 \in Good
  <2>0. m + 1 \in Nat
    OBVIOUS
  <2> SUFFICES ASSUME NEW u \in [1 .. m + 1 -> Int], NEW v \in [1 .. m + 1 -> Int], NEW j \in 1 .. m + 1
               PROVE  Holds(m + 1, u, v, j)
    <3> HIDE DEF Holds
    <3> QED
      BY <2>0
  <2> SUFFICES ASSUME \A i \in 1 .. m + 1 : i # j => u[i] = v[i]
               PROVE  Sum(u) - u[j] = Sum(v) - v[j]
    OBVIOUS
  <2> DEFINE uf == [p \in 1 .. m |-> u[p]]
             vf == [p \in 1 .. m |-> v[p]]
  <2>1. uf \in [1 .. m -> Int] /\ vf \in [1 .. m -> Int] /\ uf \in Seq(Int) /\ vf \in Seq(Int)
    OBVIOUS
  <2>2. Sum(u) = Sum(uf) + u[m + 1] /\ Sum(v) = Sum(vf) + v[m + 1]
    BY SumLast
  <2>3. Sum(uf) \in Int /\ Sum(vf) \in Int /\ u[m + 1] \in Int /\ v[m + 1] \in Int
    <3>1. Sum(uf) \in Int /\ Sum(vf) \in Int
      <4> HIDE DEF uf, vf
      <4> QED
        BY <2>1, SumInt
    <3> QED
      BY <3>1
  <2>4. CASE j = m + 1
    <3>1. uf = vf
      BY <2>4
    <3>2. Sum(uf) = Sum(vf)
      BY <3>1
    <3> HIDE DEF uf, vf
    <3> QED
      BY <2>2, <2>3, <2>4, <3>2
  <2>5. CASE j # m + 1
    <3>1. j \in 1 .. m /\ uf[j] = u[j] /\ vf[j] = v[j] /\ u[m + 1] = v[m + 1]
      BY <2>5
    <3>0. u[j] \in Int /\ v[j] \in Int
      OBVIOUS
    <3>2. \A i \in 1 .. m : i # j => uf[i] = vf[i]
      OBVIOUS
    <3> HIDE DEF uf, vf
    <3>3. Holds(m, uf, vf, j)
      <4> HIDE DEF Holds
      <4> QED
        BY <1>2, <2>1, <3>1
    <3>4. Sum(uf) - uf[j] = Sum(vf) - vf[j]
      BY <3>2, <3>3
    <3>5. PICK a \in Int : a = Sum(uf)
      BY <2>3
    <3>6. PICK b \in Int : b = Sum(vf)
      BY <2>3
    <3>7. PICK x \in Int : x = u[m + 1] /\ x = v[m + 1]
      BY <2>3, <3>1
    <3>8. PICK y \in Int : y = u[j] /\ y = uf[j]
      BY <3>0, <3>1
    <3>9. PICK z \in Int : z = v[j] /\ z = vf[j]
      BY <3>0, <3>1
    <3>10. Sum(u) = a + x /\ Sum(v) = b + x
      BY <2>2, <3>5, <3>6, <3>7
    <3>11. a - y = b - z
      BY <3>4, <3>5, <3>6, <3>8, <3>9
    <3>12. (a + x) - y = (b + x) - z
      BY <3>11
    <3> QED
      BY <3>8, <3>9, <3>10, <3>12
  <2> QED
    BY <2>4, <2>5
<1>3. \A m \in Nat : m \in Good
  <2> HIDE DEF Good
  <2> QED
    BY <1>1, <1>2, NatInductive
<1> QED
  BY <1>3

\* A permutation of 1 .. n + 1 without the place of n + 1 permutes 1 .. n.
LEMMA PermutationFront ==
  ASSUME NEW n \in Nat, NEW order, Permutes(order, n + 1),
         NEW k \in 1 .. n + 1, order[k] = n + 1
  PROVE  Permutes([p \in 1 .. n |-> IF p = k THEN order[n + 1] ELSE order[p]], n)
<1> DEFINE front == [p \in 1 .. n |-> IF p = k THEN order[n + 1] ELSE order[p]]
<1>1. /\ order \in [1 .. n + 1 -> 1 .. n + 1]
      /\ \A p, q \in 1 .. n + 1 : order[p] = order[q] => p = q
      /\ \A m \in 1 .. n + 1 : \E p \in 1 .. n + 1 : order[p] = m
  BY DEF Permutes
<1>2. \A p \in 1 .. n : p \in 1 .. n + 1 /\ p # n + 1
  OBVIOUS
<1>3. n + 1 \in 1 .. n + 1
  OBVIOUS
<1>4. \A p \in 1 .. n + 1 : p # k => order[p] \in 1 .. n
  <2> SUFFICES ASSUME NEW p \in 1 .. n + 1, p # k PROVE order[p] \in 1 .. n
    OBVIOUS
  <2>1. order[p] \in 1 .. n + 1 /\ order[p] # n + 1
    BY <1>1
  <2> QED
    BY <2>1
<1>5. ASSUME NEW p \in 1 .. n PROVE front[p] \in 1 .. n
  BY <1>2, <1>3, <1>4
<1>6. ASSUME NEW p \in 1 .. n, NEW q \in 1 .. n, front[p] = front[q] PROVE p = q
  BY <1>1, <1>2, <1>3, <1>6
<1>7. ASSUME NEW m \in 1 .. n PROVE \E p \in 1 .. n : front[p] = m
  <2>1. PICK p \in 1 .. n + 1 : order[p] = m
    BY <1>1, <1>2
  <2>2. p # k
    BY <2>1, <1>2
  <2>3. CASE p = n + 1
    BY <2>1, <2>2, <2>3
  <2>4. CASE p # n + 1
    BY <2>1, <2>2, <2>4
  <2> QED
    BY <2>3, <2>4
<1>8. front \in [1 .. n -> 1 .. n]
  BY <1>5
<1> HIDE DEF front
<1>9. Permutes(front, n)
  BY <1>6, <1>7, <1>8 DEF Permutes
<1> QED
  BY <1>9 DEF front

\* The sum does not depend on the order.
LEMMA SumPermuted ==
  ASSUME NEW s \in Seq(Int), NEW t, Permuted(t, s)
  PROVE  Sum(t) = Sum(s)
<1> DEFINE Mixed(m, u, order) == [p \in 1 .. m |-> u[order[p]]]
           Good == {m \in Nat : \A u \in [1 .. m -> Int] : \A order \in [1 .. m -> 1 .. m] :
                                  Permutes(order, m) => Sum(Mixed(m, u, order)) = Sum(u)}
<1>1. 0 \in Good
  <2> SUFFICES ASSUME NEW u \in [1 .. 0 -> Int], NEW order \in [1 .. 0 -> 1 .. 0]
               PROVE  Sum(Mixed(0, u, order)) = Sum(u)
    OBVIOUS
  <2>1. Mixed(0, u, order) = u
    OBVIOUS
  <2> QED
    BY <2>1
<1>2. ASSUME NEW m \in Nat, m \in Good PROVE m + 1 \in Good
  <2> SUFFICES ASSUME NEW u \in [1 .. m + 1 -> Int], NEW order \in [1 .. m + 1 -> 1 .. m + 1],
                      Permutes(order, m + 1)
               PROVE  Sum(Mixed(m + 1, u, order)) = Sum(u)
    <3>1. m + 1 \in Nat
      OBVIOUS
    <3> HIDE DEF Mixed
    <3> QED
      BY <3>1
  <2>1. PICK k \in 1 .. m + 1 : order[k] = m + 1
    BY DEF Permutes
  <2> DEFINE rest == [p \in 1 .. m |-> IF p = k THEN order[m + 1] ELSE order[p]]
             uf == [p \in 1 .. m |-> u[p]]
             w == Mixed(m, uf, rest)
             v == Mixed(m + 1, u, order)
             vf == [p \in 1 .. m |-> v[p]]
  <2>2. Permutes(rest, m)
    BY <2>1, PermutationFront
  <2>3. rest \in [1 .. m -> 1 .. m]
    <3> HIDE DEF rest
    <3> QED
      BY <2>2 DEF Permutes
  <2>4. uf \in [1 .. m -> Int] /\ uf \in Seq(Int)
    OBVIOUS
  <2>5. Sum(w) = Sum(uf)
    <3> HIDE DEF rest, uf, Mixed
    <3> QED
      BY <1>2, <2>2, <2>3, <2>4
  <2>6. Sum(u) = Sum(uf) + u[m + 1]
    BY SumLast
  <2>7. v \in [1 .. m + 1 -> Int] /\ vf \in [1 .. m -> Int] /\ vf \in Seq(Int)
    OBVIOUS
  <2>8. Sum(v) = Sum(vf) + v[m + 1]
    <3> HIDE DEF v
    <3> QED
      BY <2>7, SumLast
  <2>9. w \in [1 .. m -> Int] /\ w \in Seq(Int)
    <3>1. \A p \in 1 .. m : uf[rest[p]] \in Int
      <4> HIDE DEF rest, uf
      <4> QED
        BY <2>3, <2>4
    <3> HIDE DEF rest, uf
    <3> QED
      BY <3>1
  <2>10. \A p \in 1 .. m : w[p] = u[rest[p]]
    <3>1. \A p \in 1 .. m : w[p] = uf[rest[p]] /\ rest[p] \in 1 .. m
      <4> HIDE DEF rest, uf
      <4> QED
        BY <2>3
    <3>2. \A q \in 1 .. m : uf[q] = u[q]
      OBVIOUS
    <3> HIDE DEF rest, uf
    <3> QED
      BY <3>1, <3>2
  <2>a. \A p \in 1 .. m : rest[p] = IF p = k THEN order[m + 1] ELSE order[p]
    OBVIOUS
  <2>b. \A p \in 1 .. m : vf[p] = u[order[p]]
    OBVIOUS
  <2>11. \A p \in 1 .. m : p # k => w[p] = vf[p]
    <3> HIDE DEF w, vf, rest
    <3> QED
      BY <2>10, <2>a, <2>b
  <2>12. v[m + 1] = u[order[m + 1]] /\ v[k] = u[m + 1]
    BY <2>1
  <2>c. v[m + 1] \in Int /\ u[m + 1] \in Int
    OBVIOUS
  <2>13. Sum(w) \in Int /\ Sum(vf) \in Int
    <3> HIDE DEF w, vf
    <3> QED
      BY <2>7, <2>9, SumInt
  <2>14. CASE k = m + 1
    <3> HIDE DEF w, vf, v, uf
    <3>1. \A p \in 1 .. m : w[p] = vf[p]
      BY <2>11, <2>14
    <3>2. w = vf
      BY <3>1, <2>7, <2>9
    <3>3. v[m + 1] = u[m + 1]
      BY <2>12, <2>14
    <3>4. Sum(v) = Sum(uf) + u[m + 1]
      BY <3>2, <3>3, <2>5, <2>8
    <3> QED
      BY <3>4, <2>6 DEF v
  <2>15. CASE k # m + 1
    <3>1. k \in 1 .. m
      BY <2>15
    <3>2. w[k] = v[m + 1] /\ vf[k] = u[m + 1]
      <4> HIDE DEF w, vf, v, rest
      <4> QED
        BY <3>1, <2>1, <2>10, <2>12, <2>a, <2>b
    <3> HIDE DEF w, vf, v, uf
    <3>3. Sum(w) - w[k] = Sum(vf) - vf[k]
      BY <3>1, <2>7, <2>9, <2>11, SumUpdate
    <3>4. PICK a \in Int : a = Sum(w) /\ a = Sum(uf)
      BY <2>5, <2>13
    <3>5. PICK b \in Int : b = Sum(vf)
      BY <2>13
    <3>6. PICK x \in Int : x = v[m + 1] /\ x = w[k]
      BY <2>c, <3>2
    <3>7. PICK y \in Int : y = u[m + 1] /\ y = vf[k]
      BY <2>c, <3>2
    <3>8. a - x = b - y
      BY <3>3, <3>4, <3>5, <3>6, <3>7
    <3>9. Sum(u) = a + y /\ Sum(v) = b + x
      BY <2>6, <2>8, <3>4, <3>5, <3>6, <3>7
    <3>10. a + y = b + x
      BY <3>8
    <3> QED
      BY <3>9, <3>10 DEF v
  <2> QED
    BY <2>14, <2>15
<1>3. \A m \in Nat : m \in Good
  <2> HIDE DEF Good
  <2> QED
    BY <1>1, <1>2, NatInductive
<1>4. PICK len \in Nat : len = Len(s)
  OBVIOUS
<1>5. PICK order : Permutes(order, len) /\ t = Mixed(len, s, order)
  BY <1>4 DEF Permuted
<1>6. order \in [1 .. len -> 1 .. len] /\ s \in [1 .. len -> Int]
  BY <1>4, <1>5 DEF Permutes
<1>7. len \in Good
  BY <1>3
<1> HIDE DEF Mixed
<1> QED
  BY <1>5, <1>6, <1>7

-----------------------------------------------------------------------------
(* What the branches find                                                   *)

LEMMA ChunksFinite ==
  Chunks \subseteq Int /\ IsFiniteSet(Chunks)
<1>1. PICK n \in Nat : n = Len(Corpus)
  BY CorpusAssumption
<1>2. Chunks = 1 .. n
  BY <1>1, CorpusAssumption
<1>3. IsFiniteSet(1 .. n)
  BY FS_Interval
<1> QED
  BY <1>2, <1>3

\* The first k of a set of chunks, in the order of any score.
LEMMA FirstRanked ==
  ASSUME NEW S, S \subseteq Chunks, NEW key, \A c \in S : key[c] \in Int, NEW k \in Nat
  PROVE  Take(Ranked(S, key), k) \in Seq(S) /\ Len(Take(Ranked(S, key), k)) <= k
<1>1. IsFiniteSet(S) /\ S \subseteq Int
  BY ChunksFinite, FS_Subset
<1>2. Lists(Ranked(S, key), S)
  BY <1>1, RankedLists
<1>3. Ranked(S, key) \in Seq(S)
  BY <1>2 DEF Lists
<1> QED
  BY <1>3, TakeSeq

\* The vector store returns points that pass the filters.
LEMMA VectorHitsFound ==
  ASSUME NEW some, some \subseteq Chunks, NEW filters, NEW k \in Nat
  PROVE  /\ VectorHits(some, filters, k) \in Seq({c \in some : Passes(c, filters)})
         /\ Len(VectorHits(some, filters, k)) <= k
<1> DEFINE hits == {c \in some : Passes(c, filters)}
           key == [c \in hits |-> Corpus[c].similarity]
<1>1. hits \subseteq Chunks
  OBVIOUS
<1>2. \A c \in hits : key[c] \in Int
  BY <1>1, CorpusAssumption
<1>3. VectorHits(some, filters, k) = Take(Ranked(hits, key), k)
  BY DEF VectorHits
<1> HIDE DEF hits, key
<1>4. Take(Ranked(hits, key), k) \in Seq(hits) /\ Len(Take(Ranked(hits, key), k)) <= k
  BY <1>1, <1>2, FirstRanked
<1> QED
  BY <1>3, <1>4 DEF hits

\* The lexical search returns rows that pass the filters.
LEMMA LexicalSearchFound ==
  ASSUME NEW live, live \subseteq Chunks, NEW query, NEW filters, NEW k \in Nat
  PROVE  /\ LexicalSearch(live, query, filters, k) \in Seq({c \in live : Passes(c, filters)})
         /\ Len(LexicalSearch(live, query, filters, k)) <= k
<1> DEFINE rows == {c \in live : query.terms \subseteq Corpus[c].text /\ Passes(c, filters)}
           key == [c \in rows |-> Corpus[c].rank]
           good == {c \in live : Passes(c, filters)}
<1>1. rows \subseteq Chunks /\ rows \subseteq good
  OBVIOUS
<1>2. \A c \in rows : key[c] \in Int
  BY <1>1, CorpusAssumption
<1>3. LexicalSearch(live, query, filters, k) = Take(Ranked(rows, key), k)
  BY DEF LexicalSearch
<1> HIDE DEF rows, key
<1>4. Take(Ranked(rows, key), k) \in Seq(rows) /\ Len(Take(Ranked(rows, key), k)) <= k
  BY <1>1, <1>2, FirstRanked
<1> HIDE DEF good
<1>5. Take(Ranked(rows, key), k) \in Seq(good)
  BY <1>1, <1>4
<1> QED
  BY <1>3, <1>4, <1>5 DEF good

LEMMA ExactScoreInt ==
  ASSUME NEW chunk, NEW query, IsFiniteSet(query.exact)
  PROVE  ExactScore(chunk, query) \in Int
<1>1. Cardinality(Symbols(chunk) \cap query.exact) \in Nat
  <2>1. IsFiniteSet(Symbols(chunk) \cap query.exact)
    BY FS_Intersection
  <2> QED
    BY <2>1, FS_CardinalityType
<1>2. Cardinality(chunk.path.words \cap query.exact) \in Nat
  <2>1. IsFiniteSet(chunk.path.words \cap query.exact)
    BY FS_Intersection
  <2> QED
    BY <2>1, FS_CardinalityType
<1>3. AtMost(Cardinality(chunk.path.words \cap query.exact), 2) \in Nat
  BY <1>2 DEF AtMost
<1> QED
  BY <1>1, <1>3 DEF ExactScore

\* So does the metadata search, whichever rows the limit lets through.
LEMMA MetadataSearchFound ==
  ASSUME NEW live, live \subseteq Chunks, NEW query, IsFiniteSet(query.exact),
         NEW filters, NEW k \in Nat, NEW found \in MetadataSearch(live, query, filters, k)
  PROVE  found \in Seq({c \in live : Passes(c, filters)}) /\ Len(found) <= k
<1> DEFINE matches == MetadataMatches(live, query, filters)
           Key(rows) == [c \in rows |-> ExactScore(Corpus[c], query)]
           good == {c \in live : Passes(c, filters)}
<1>1. PICK rows \in SUBSET matches : found = Take(Ranked(rows, Key(rows)), k)
  BY DEF MetadataSearch, kSubset
<1>2. rows \subseteq Chunks /\ rows \subseteq good
  BY DEF MetadataMatches
<1>3. \A c \in rows : Key(rows)[c] \in Int
  BY ExactScoreInt
<1> HIDE DEF matches, Key
<1>4. found \in Seq(rows) /\ Len(found) <= k
  BY <1>1, <1>2, <1>3, FirstRanked
<1> HIDE DEF good
<1>5. found \in Seq(good)
  BY <1>2, <1>4
<1> QED
  BY <1>4, <1>5 DEF good

\* A set of numbers below a bound has a greatest one.
LEMMA MaxExists ==
  ASSUME NEW n \in Nat, NEW S, S \subseteq 0 .. n, S # {}
  PROVE  Max(S) \in S
<1> DEFINE below == {y \in Nat : n - y \in S}
<1>1. below # {} /\ below \subseteq Nat
  <2>1. PICK x \in S : TRUE
    OBVIOUS
  <2>2. n - x \in Nat /\ n - (n - x) = x
    BY <2>1
  <2> QED
    BY <2>1, <2>2
<1>2. \E y \in below : \A z \in below : ~(<<z, y>> \in OpToRel(<, Nat))
  <2> HIDE DEF below
  <2> QED
    BY <1>1, NatLessThanWellFounded, WFMin
<1>3. PICK y \in below : \A z \in below : ~(z < y)
  BY <1>2 DEF OpToRel
<1>4. n - y \in S /\ \A x \in S : n - y >= x
  <2> SUFFICES ASSUME NEW x \in S PROVE n - y >= x
    BY <1>3
  <2>1. n - x \in Nat /\ n - (n - x) = x
    OBVIOUS
  <2>2. n - x \in below
    BY <2>1
  <2>3. ~(n - x < y)
    BY <1>3, <2>2
  <2> QED
    BY <1>3, <2>1, <2>3
<1> QED
  BY <1>4 DEF Max

LEMMA GraphTermsFinite ==
  ASSUME NEW query, IsFiniteSet(query.exact), IsFiniteSet(query.services), IsFiniteSet(query.endpoints)
  PROVE  IsFiniteSet(GraphTerms(query))
<1> DEFINE words == query.services \cup query.exact
           single == [w \in words |-> {w}]
           singles == {{w} : w \in words}
<1>1. IsFiniteSet(words)
  BY FS_Union
<1>2. single \in Surjection(words, singles)
  BY DEF Surjection
<1>3. IsFiniteSet(singles)
  <2> HIDE DEF words, singles, single
  <2> QED
    BY <1>1, <1>2, FS_Surjection
<1>4. GraphTerms(query) = singles \cup query.endpoints
  BY DEF GraphTerms
<1> HIDE DEF singles
<1> QED
  BY <1>3, <1>4, FS_Union

\* The graph search returns rows; filters are not its concern.
LEMMA GraphSearchFound ==
  ASSUME NEW live, live \subseteq Chunks, NEW query,
         IsFiniteSet(query.exact), IsFiniteSet(query.services), IsFiniteSet(query.endpoints),
         NEW k \in Nat, NEW found \in GraphSearch(live, query, k)
  PROVE  found \in Seq(live) /\ Len(found) <= k
<1> DEFINE rows == { row \in UNION {{c} \X Relations(Corpus[c]) : c \in live} :
                       \E term \in GraphTerms(query) : term \subseteq row[2].words }
           Scores(some, c) == {RelationScore(row[2], query) : row \in {r \in some : r[1] = c}}
           chunksOf(some) == {row[1] : row \in some}
           Key(some) == [c \in chunksOf(some) |-> Max(Scores(some, c))]
<1>1. PICK some \in SUBSET rows : found = Take(Ranked(chunksOf(some), Key(some)), k)
  BY DEF GraphSearch, kSubset
<1>2. chunksOf(some) \subseteq live
  OBVIOUS
<1>3. PICK n \in Nat : n = Cardinality(GraphTerms(query))
  BY GraphTermsFinite, FS_CardinalityType
<1>4. ASSUME NEW relation PROVE RelationScore(relation, query) \in 0 .. n + 1
  <2> DEFINE hits == {term \in GraphTerms(query) : term \subseteq relation.words}
  <2>1. hits \in SUBSET GraphTerms(query)
    OBVIOUS
  <2>2. IsFiniteSet(hits) /\ Cardinality(hits) <= n
    <3> HIDE DEF hits
    <3> QED
      BY <2>1, <1>3, GraphTermsFinite, FS_Subset
  <2>3. Cardinality(hits) \in Nat
    BY <2>2, FS_CardinalityType
  <2>4. RelationScore(relation, query) = Cardinality(hits) + (IF relation.type \in {"defines", "implements"} THEN 1 ELSE 0)
    BY DEF RelationScore
  <2> HIDE DEF hits
  <2> QED
    BY <2>2, <2>3, <2>4
<1>5. ASSUME NEW c \in chunksOf(some) PROVE Key(some)[c] \in Int
  <2>1. Scores(some, c) \subseteq 0 .. n + 1 /\ Scores(some, c) # {}
    BY <1>4
  <2>2. n + 1 \in Nat
    OBVIOUS
  <2>3. Max(Scores(some, c)) \in Scores(some, c)
    <3> HIDE DEF Scores
    <3> QED
      BY <2>1, <2>2, MaxExists
  <2>4. Key(some)[c] = Max(Scores(some, c))
    <3> HIDE DEF Scores
    <3> QED
      OBVIOUS
  <2> HIDE DEF Scores, Key
  <2> QED
    BY <2>1, <2>3, <2>4
<1> HIDE DEF rows, chunksOf, Key
<1>6. found \in Seq(chunksOf(some)) /\ Len(found) <= k
  BY <1>1, <1>2, <1>5, FirstRanked
<1> QED
  BY <1>2, <1>6

-----------------------------------------------------------------------------
(* Fusion and reranking                                                     *)

ReasonNames ==
  {"deploy_hash_match", "service_name_match", "endpoint_match", "intent_source", "intent_chunk",
   "metadata_terms", "config_path_match", "api_contract_path_match", "architecture_doc_match",
   "code_path_match", "runtime_log_metadata", "deploy_regression_source", "incident_metadata",
   "runbook_source", "readme_penalty", "wrong_intent_runbook_penalty", "generic_runbook_penalty"}

BoostSet == [reason : ReasonNames, amount : Int]

\* Every reason has a name, and moves a chunk by a whole number.
LEMMA BoostsTyped ==
  ASSUME NEW chunk, NEW query, NEW intent, IsFiniteSet(query.terms)
  PROVE  Boosts(chunk, query, intent) \in Seq(BoostSet)
<1> DEFINE matched == Cardinality(query.terms \cap chunk.terms)
<1>1. matched \in Nat
  <2>1. IsFiniteSet(query.terms \cap chunk.terms)
    BY FS_Intersection
  <2> QED
    BY <2>1, FS_CardinalityType
<1>2. 5 * AtMost(matched, 3) \in Int
  <2> HIDE DEF matched
  <2> QED
    BY <1>1 DEF AtMost
<1>3. ChunkTypeBoost(chunk.type) \in Int
  BY DEF ChunkTypeBoost
<1>4. \A n \in 1 .. 17 : Boosts(chunk, query, intent)[n] \in BoostSet
  BY <1>2, <1>3, SMTT(30) DEF Boosts, On, BoostSet, ReasonNames, matched
<1> QED
  BY <1>4, SMTT(30) DEF Boosts

\* So the boost is a whole number.
LEMMA MetadataBoostInt ==
  ASSUME NEW boosts \in Seq(BoostSet)
  PROVE  MetadataBoost(boosts) \in Int /\ Reasons(boosts) \in SUBSET ReasonNames
<1> DEFINE amounts == [n \in DOMAIN boosts |-> boosts[n].amount]
<1>0. PICK len \in Nat : len = Len(boosts)
  OBVIOUS
<1>1. amounts \in Seq(Int)
  <2>0. \A n \in 1 .. len : boosts[n] \in BoostSet
    BY <1>0
  <2>1. \A n \in 1 .. len : boosts[n].amount \in Int
    BY <2>0 DEF BoostSet
  <2>2. amounts \in [1 .. len -> Int]
    BY <1>0, <2>1
  <2> HIDE DEF amounts
  <2> QED
    BY <2>2
<1>2. Sum(amounts) \in Int
  <2> HIDE DEF amounts
  <2> QED
    BY <1>1, SumInt
<1>3. MetadataBoost(boosts) = AtMost(Sum(amounts), 45)
  BY DEF MetadataBoost
<1> HIDE DEF amounts
<1>4. MetadataBoost(boosts) \in Int
  BY <1>2, <1>3 DEF AtMost
<1>5. Reasons(boosts) \in SUBSET ReasonNames
  <2>1. \A n \in DOMAIN boosts : boosts[n] \in BoostSet
    OBVIOUS
  <2>2. \A n \in DOMAIN boosts : boosts[n].reason \in ReasonNames
    BY <2>1 DEF BoostSet
  <2> QED
    BY <2>2 DEF Reasons
<1> QED
  BY <1>4, <1>5

LEMMA WeightedRrfInt ==
  ASSUME NEW S, NEW found, \A b \in Branches : found[b] \in Seq(S), NEW c
  PROVE  WeightedRrf(found, c) \in Int
<1> DEFINE Rank(b) == CHOOSE n \in DOMAIN found[b] : found[b][n] = c
           Share(b) == IF Contains(found[b], c)
                       THEN (Weight[b] * 10000) \div (AtLeast(RrfK, 1) + Rank(b)) ELSE 0
<1>1. ASSUME NEW b \in Branches PROVE Share(b) \in Int
  <2>1. CASE ~Contains(found[b], c)
    BY <2>1
  <2>2. CASE Contains(found[b], c)
    <3>1. \E n \in DOMAIN found[b] : found[b][n] = c
      BY <2>2 DEF Contains
    <3>2. Rank(b) \in DOMAIN found[b]
      BY <3>1
    <3> HIDE DEF Rank
    <3>3. Rank(b) \in Nat
      BY <3>2
    <3>4. AtLeast(RrfK, 1) \in Nat \ {0}
      BY RankingAssumption DEF AtLeast
    <3>5. Weight[b] * 10000 \in Nat
      BY RankingAssumption
    <3>6. PICK x \in Nat, y \in Nat \ {0} : x = Weight[b] * 10000 /\ y = AtLeast(RrfK, 1) + Rank(b)
      BY <3>3, <3>4, <3>5
    <3>7. x \div y \in Int
      OBVIOUS
    <3> QED
      BY <2>2, <3>6, <3>7
  <2> QED
    BY <2>1, <2>2
<1>2. WeightedRrf(found, c) = Share("vector") + Share("lexical") + Share("metadata") + Share("graph")
  BY DEF WeightedRrf
<1> HIDE DEF Share
<1> QED
  BY <1>1, <1>2 DEF Branches

\* The entries that results may have, for a set of chunks.
Entries(S) == [chunk : S, fused : Int, reasons : SUBSET ReasonNames, rerank : Int]

\* Sorting results gives the same results.
LEMMA ByFusedSeq ==
  ASSUME NEW S, NEW list \in Seq(Entries(S))
  PROVE  ByFused(list) \in Seq(Entries(S)) /\ Len(ByFused(list)) = Len(list)
<1> DEFINE key == [n \in DOMAIN list |-> list[n].fused]
<1>1. \A n \in 1 .. Len(list) : key[n] \in Int
  <2>1. \A n \in DOMAIN list : list[n] \in Entries(S)
    OBVIOUS
  <2>2. \A n \in DOMAIN list : list[n].fused \in Int
    BY <2>1 DEF Entries
  <2> QED
    BY <2>2
<1>2. ByFused(list) = SortDescending(list, key)
  BY DEF ByFused
<1> HIDE DEF key
<1>3. Permuted(ByFused(list), list)
  BY <1>1, <1>2, SortPermutes
<1> QED
  BY <1>3, PermutedSeq

LEMMA ByRerankSeq ==
  ASSUME NEW S, NEW list \in Seq(Entries(S))
  PROVE  ByRerank(list) \in Seq(Entries(S)) /\ Len(ByRerank(list)) = Len(list)
<1> DEFINE key == [n \in DOMAIN list |-> list[n].rerank]
<1>1. \A n \in 1 .. Len(list) : key[n] \in Int
  <2>1. \A n \in DOMAIN list : list[n] \in Entries(S)
    OBVIOUS
  <2>2. \A n \in DOMAIN list : list[n].rerank \in Int
    BY <2>1 DEF Entries
  <2> QED
    BY <2>2
<1>2. ByRerank(list) = SortDescending(list, key)
  BY DEF ByRerank
<1> HIDE DEF key
<1>3. Permuted(ByRerank(list), list)
  BY <1>1, <1>2, SortPermutes
<1> QED
  BY <1>3, PermutedSeq

\* The candidates are what the branches have found.
LEMMA CandidatesFound ==
  ASSUME NEW S, NEW found, \A b \in Branches : found[b] \in Seq(S)
  PROVE  /\ Candidates(found) \in Seq(S)
         /\ (\E b \in Branches : found[b] # <<>>) => Candidates(found) # <<>>
<1> DEFINE all == found["vector"] \o found["lexical"] \o found["metadata"] \o found["graph"]
           first == {n \in DOMAIN all : \A m \in 1 .. n - 1 : all[m] # all[n]}
<1>1. /\ found["vector"] \in Seq(S) /\ found["lexical"] \in Seq(S)
      /\ found["metadata"] \in Seq(S) /\ found["graph"] \in Seq(S)
  BY DEF Branches
<1>2. all \in Seq(S)
  BY <1>1
<1>c. Len(all) = Len(found["vector"]) + Len(found["lexical"]) + Len(found["metadata"]) + Len(found["graph"])
  BY <1>1
<1>3. Candidates(found) = Keep(all, first)
  BY DEF Candidates
<1>a. Len(all) \in Nat /\ DOMAIN all = 1 .. Len(all)
  <2> HIDE DEF all
  <2> QED
    BY <1>2
<1>4. first \in SUBSET (1 .. Len(all))
  <2>1. first \subseteq DOMAIN all
    OBVIOUS
  <2> HIDE DEF all, first
  <2> QED
    BY <2>1, <1>a
<1>b. \A b \in Branches : Len(found[b]) \in Nat /\ (found[b] # <<>> => Len(found[b]) # 0)
  OBVIOUS
<1>5. ASSUME NEW b \in Branches, found[b] # <<>> PROVE 1 \in first
  <2>1. Len(all) # 0
    <3> HIDE DEF all
    <3>1. Len(found[b]) # 0
      BY <1>5, <1>b
    <3>2. PICK v \in Nat, l \in Nat, m \in Nat, g \in Nat :
            /\ v = Len(found["vector"]) /\ l = Len(found["lexical"])
            /\ m = Len(found["metadata"]) /\ g = Len(found["graph"])
      BY <1>b DEF Branches
    <3>3. v # 0 \/ l # 0 \/ m # 0 \/ g # 0
      BY <3>1, <3>2 DEF Branches
    <3>4. Len(all) = v + l + m + g
      BY <3>2, <1>c
    <3> QED
      BY <3>3, <3>4
  <2>2. 1 \in DOMAIN all
    <3> HIDE DEF all
    <3> QED
      BY <2>1, <1>a
  <2>3. 1 .. 1 - 1 = {}
    OBVIOUS
  <2>4. \A m \in 1 .. 1 - 1 : all[m] # all[1]
    <3> HIDE DEF all
    <3> QED
      BY <2>3
  <2> QED
    BY <2>2, <2>4
<1> HIDE DEF all, first
<1>6. /\ Keep(all, first) \in Seq(S)
      /\ \A n \in first : \E p \in 1 .. Len(Keep(all, first)) : Keep(all, first)[p] = all[n]
  BY <1>2, <1>4, KeepSeq
<1>7. ASSUME 1 \in first PROVE Keep(all, first) # <<>>
  BY <1>6, <1>7
<1> QED
  BY <1>3, <1>5, <1>6, <1>7

\* The fused results are entries for what was found; if something was found, and
\* results are asked for, there are some.
LEMMA FusedResults ==
  ASSUME NEW S, NEW found, \A b \in Branches : found[b] \in Seq(S),
         NEW query, IsFiniteSet(query.terms), NEW intent, NEW topK \in Nat
  PROVE  /\ Fused(found, query, intent, topK) \in Seq(Entries(S))
         /\ (\E b \in Branches : found[b] # <<>>) /\ topK # 0 => Fused(found, query, intent, topK) # <<>>
<1> DEFINE Entry(c) == LET boosts == Boosts(Corpus[c], query, intent)
                       IN [chunk |-> c, fused |-> WeightedRrf(found, c) + 100 * MetadataBoost(boosts),
                           reasons |-> Reasons(boosts), rerank |-> 0]
           candidates == Candidates(found)
           list == [n \in DOMAIN candidates |-> Entry(candidates[n])]
<1>1. Fused(found, query, intent, topK) = Take(ByFused(list), topK)
  BY DEF Fused
<1>2. ASSUME NEW c \in S PROVE Entry(c) \in Entries(S)
  <2> DEFINE boosts == Boosts(Corpus[c], query, intent)
  <2>1. boosts \in Seq(BoostSet)
    BY BoostsTyped
  <2> HIDE DEF boosts
  <2>2. MetadataBoost(boosts) \in Int /\ Reasons(boosts) \in SUBSET ReasonNames
    BY <2>1, MetadataBoostInt
  <2>3. WeightedRrf(found, c) \in Int
    BY WeightedRrfInt
  <2>4. WeightedRrf(found, c) + 100 * MetadataBoost(boosts) \in Int
    BY <2>2, <2>3
  <2>5. Entry(c) = [chunk |-> c, fused |-> WeightedRrf(found, c) + 100 * MetadataBoost(boosts),
                    reasons |-> Reasons(boosts), rerank |-> 0]
    BY DEF boosts
  <2> HIDE DEF Entry
  <2> QED
    BY <2>2, <2>4, <2>5 DEF Entries
<1>3. candidates \in Seq(S) /\ ((\E b \in Branches : found[b] # <<>>) => candidates # <<>>)
  BY CandidatesFound
<1> HIDE DEF Entry, candidates
<1>4. list \in Seq(Entries(S)) /\ Len(list) = Len(candidates)
  BY <1>2, <1>3
<1> HIDE DEF list
<1>5. ByFused(list) \in Seq(Entries(S)) /\ Len(ByFused(list)) = Len(candidates)
  BY <1>4, ByFusedSeq
<1>6. Take(ByFused(list), topK) \in Seq(Entries(S))
  BY <1>5, TakeSeq
<1>7. ASSUME \E b \in Branches : found[b] # <<>>, topK # 0
      PROVE  Take(ByFused(list), topK) # <<>>
  <2>1. ByFused(list) # <<>>
    BY <1>3, <1>5, <1>7
  <2>2. Len(Take(ByFused(list), topK)) # 0
    BY <2>1, <1>5, <1>7, TakeSeq
  <2> QED
    BY <2>2
<1> QED
  BY <1>1, <1>6, <1>7

\* The rerankers return the same results with other scores.
LEMMA FallbackSortSeq ==
  ASSUME NEW S, NEW list \in Seq(Entries(S))
  PROVE  FallbackSort(list) \in Seq(Entries(S)) /\ Len(FallbackSort(list)) = Len(list)
<1> DEFINE scored == [n \in DOMAIN list |-> [list[n] EXCEPT !.rerank = list[n].fused]]
<1>0. PICK len \in Nat : len = Len(list)
  OBVIOUS
<1>1. scored \in Seq(Entries(S)) /\ Len(scored) = Len(list)
  <2>1. \A n \in 1 .. len : list[n] \in Entries(S)
    BY <1>0
  <2>2. \A n \in 1 .. len : [list[n] EXCEPT !.rerank = list[n].fused] \in Entries(S)
    BY <2>1 DEF Entries
  <2>3. scored \in [1 .. len -> Entries(S)]
    BY <1>0, <2>2
  <2> HIDE DEF scored
  <2> QED
    BY <1>0, <2>3
<1>2. FallbackSort(list) = ByRerank(scored)
  BY DEF FallbackSort
<1> HIDE DEF scored
<1> QED
  BY <1>1, <1>2, ByRerankSeq

LEMMA ModelSortSeq ==
  ASSUME NEW S, S \subseteq Chunks, NEW list \in Seq(Entries(S)), NEW limit \in Nat
  PROVE  ModelSort(list, limit) \in Seq(Entries(S)) /\ Len(ModelSort(list, limit)) = Len(list)
<1>1. PICK n \in Nat : n = AtMost(limit, Len(list)) /\ n <= Len(list)
  BY DEF AtMost
<1> DEFINE scored == [m \in 1 .. n |-> [list[m] EXCEPT !.rerank = Corpus[list[m].chunk].judged]]
           rest == SubSeq(list, n + 1, Len(list))
<1>2. scored \in Seq(Entries(S)) /\ Len(scored) = n
  <2>1. \A m \in 1 .. n : list[m] \in Entries(S)
    BY <1>1
  <2>2. \A m \in 1 .. n : list[m].chunk \in Chunks
    BY <2>1 DEF Entries
  <2>3. \A m \in 1 .. n : Corpus[list[m].chunk].judged \in Int
    BY <2>2, CorpusAssumption
  <2>4. \A m \in 1 .. n : [list[m] EXCEPT !.rerank = Corpus[list[m].chunk].judged] \in Entries(S)
    BY <2>1, <2>3 DEF Entries
  <2>5. scored \in [1 .. n -> Entries(S)]
    BY <2>4
  <2> HIDE DEF scored
  <2> QED
    BY <2>5
<1>3. rest \in Seq(Entries(S)) /\ Len(rest) = Len(list) - n
  BY <1>1
<1>4. ModelSort(list, limit) = ByRerank(scored) \o ByFused(rest)
  BY <1>1, <1>2 DEF ModelSort
<1> HIDE DEF scored, rest
<1>5. /\ ByRerank(scored) \in Seq(Entries(S)) /\ Len(ByRerank(scored)) = n
      /\ ByFused(rest) \in Seq(Entries(S)) /\ Len(ByFused(rest)) = Len(list) - n
  BY <1>2, <1>3, ByRerankSeq, ByFusedSeq
<1> QED
  BY <1>1, <1>4, <1>5

-----------------------------------------------------------------------------
(* Packing                                                                  *)

PackedKinds == {"deploy", "logs", "code", "incident", "config", "api_doc", "runbook"}

\* The packer has a name for every chunk, whatever its tag.
LEMMA PackedSourceTypes ==
  ASSUME NEW chunk
  PROVE  PackedSourceType(chunk) \in PackedKinds
<1>1. SourceTypeByChunk(chunk) \in PackedKinds \cup {"unknown_text"}
  BY DEF SourceTypeByChunk, PackedKinds
<1> QED
  BY <1>1 DEF PackedSourceType, PackedKinds

\* An item of evidence, of some chunks and with a limit on its text.
Items(S, maxChars) ==
  {item \in [chunk : S, chars : 1 .. maxChars + 3, type : PackedKinds, score : Int] :
     item.type = PackedSourceType(Corpus[item.chunk])}

CharsOf(items) == [n \in DOMAIN items |-> items[n].chars]

\* What holds between the rounds of the packer's loop.
PackInv(p, S, maxItems, maxChars, maxTotal) ==
  /\ p \in [full : BOOLEAN, seen : SUBSET {Place(c) : c \in S}, total : Nat, items : Seq(Items(S, maxChars))]
  /\ Len(p.items) <= maxItems
  /\ ~p.full => Len(p.items) < maxItems
  /\ p.total = Sum(CharsOf(p.items))
  /\ p.total <= maxTotal + 2
  /\ \A n \in DOMAIN p.items : Place(p.items[n].chunk) \in p.seen
  /\ \A m, n \in DOMAIN p.items : Place(p.items[m].chunk) = Place(p.items[n].chunk) => m = n

\* The total of a list that grows by an item.
LEMMA TotalAppend ==
  ASSUME NEW S, NEW maxChars \in Nat, NEW items \in Seq(Items(S, maxChars)), NEW item \in Items(S, maxChars)
  PROVE  /\ CharsOf(items) \in Seq(Int)
         /\ Sum(CharsOf(Append(items, item))) = Sum(CharsOf(items)) + item.chars
<1>1. PICK n \in Nat : n = Len(items)
  OBVIOUS
<1>2. \A m \in 1 .. n : items[m] \in Items(S, maxChars)
  BY <1>1
<1>3. \A m \in 1 .. n : items[m].chars \in Int
  BY <1>2 DEF Items
<1>4. CharsOf(items) \in [1 .. n -> Int]
  BY <1>1, <1>3 DEF CharsOf
<1>5. item.chars \in Int
  BY DEF Items
<1> DEFINE more == Append(items, item)
<1>6. DOMAIN more = 1 .. n + 1 /\ more[n + 1] = item /\ \A m \in 1 .. n : more[m] = items[m]
  BY <1>1
<1> HIDE DEF more
<1>7. CharsOf(more) \in [1 .. n + 1 -> Int]
  BY <1>3, <1>5, <1>6 DEF CharsOf
<1>8. [p \in 1 .. n |-> CharsOf(more)[p]] = CharsOf(items)
  <2>1. \A p \in 1 .. n : CharsOf(more)[p] = CharsOf(items)[p]
    BY <1>1, <1>6 DEF CharsOf
  <2> QED
    BY <1>4, <2>1
<1>9. CharsOf(more)[n + 1] = item.chars
  BY <1>6 DEF CharsOf
<1>10. Sum(CharsOf(more)) = Sum([p \in 1 .. n |-> CharsOf(more)[p]]) + CharsOf(more)[n + 1]
  BY <1>7, SumLast
<1>11. CharsOf(items) \in Seq(Int)
  BY <1>4
<1> QED
  BY <1>8, <1>9, <1>10, <1>11 DEF more

\* The length of a text that is cut.
LEMMA CompactLength ==
  ASSUME NEW chars \in Nat, NEW max \in Int
  PROVE  /\ Compact(chars, max) \in Nat
         /\ max >= 0 => Compact(chars, max) <= max + 2
         /\ chars > 0 /\ max > 1 => Compact(chars, max) > 0
BY DEF Compact

\* One round of the loop keeps to the limits.
LEMMA PackRound ==
  ASSUME NEW S, S \subseteq Chunks, NEW maxItems \in Nat \ {0}, NEW maxChars \in Nat, NEW maxTotal \in Nat,
         NEW p, PackInv(p, S, maxItems, maxChars, maxTotal), NEW entry \in Entries(S)
  PROVE  PackInv(Pack(p, entry, maxItems, maxChars, maxTotal), S, maxItems, maxChars, maxTotal)
<1> DEFINE c == entry.chunk
           text == Compact(Corpus[c].chars, maxChars)
           remaining == maxTotal - p.total
           chars == IF text > remaining THEN Compact(text, remaining) ELSE text
           seen == p.seen \cup {Place(c)}
           item == [chunk |-> c, chars |-> chars, type |-> PackedSourceType(Corpus[c]),
                    score |-> IF entry.rerank # 0 THEN entry.rerank ELSE entry.fused]
           next == [full |-> Len(p.items) + 1 >= maxItems, seen |-> seen, total |-> p.total + chars,
                    items |-> Append(p.items, item)]
           q == Pack(p, entry, maxItems, maxChars, maxTotal)
<1>0. /\ p \in [full : BOOLEAN, seen : SUBSET {Place(d) : d \in S}, total : Nat, items : Seq(Items(S, maxChars))]
      /\ Len(p.items) <= maxItems
      /\ ~p.full => Len(p.items) < maxItems
      /\ p.total = Sum(CharsOf(p.items))
      /\ p.total <= maxTotal + 2
      /\ \A n \in DOMAIN p.items : Place(p.items[n].chunk) \in p.seen
      /\ \A m, n \in DOMAIN p.items : Place(p.items[m].chunk) = Place(p.items[n].chunk) => m = n
  BY DEF PackInv
<1>1. c \in S /\ c \in Chunks /\ Corpus[c].chars \in Nat
  BY CorpusAssumption DEF Entries
<1>2. text \in Nat /\ text <= maxChars + 2
  <2>1. PICK n \in Nat : n = Corpus[c].chars
    BY <1>1
  <2>2. maxChars \in Int /\ maxChars >= 0
    OBVIOUS
  <2>3. Compact(n, maxChars) \in Nat /\ Compact(n, maxChars) <= maxChars + 2
    BY <2>2, CompactLength
  <2> QED
    BY <2>1, <2>3
<1>3. seen \in SUBSET {Place(d) : d \in S}
  BY <1>0, <1>1
<1>4. q = IF p.full \/ Place(c) \in p.seen THEN p
          ELSE IF text = 0 THEN [p EXCEPT !.seen = seen]
          ELSE IF remaining <= 0 \/ chars = 0 THEN [p EXCEPT !.full = TRUE]
          ELSE next
  BY DEF Pack
<1>5. CASE p.full \/ Place(c) \in p.seen
  <2>1. q = p
    BY <1>4, <1>5
  <2> QED
    BY <2>1
<1>6. CASE ~(p.full \/ Place(c) \in p.seen) /\ text = 0
  <2>1. q = [p EXCEPT !.seen = seen]
    BY <1>4, <1>6
  <2> HIDE DEF q, seen, text
  <2>2. /\ q \in [full : BOOLEAN, seen : SUBSET {Place(d) : d \in S}, total : Nat, items : Seq(Items(S, maxChars))]
        /\ q.full = p.full /\ q.total = p.total /\ q.items = p.items /\ q.seen = seen
    BY <2>1, <1>0, <1>3
  <2>3. p.seen \subseteq seen
    BY DEF seen
  <2> QED
    BY <2>2, <2>3, <1>0 DEF PackInv, q
<1>7. CASE ~(p.full \/ Place(c) \in p.seen) /\ text # 0 /\ (remaining <= 0 \/ chars = 0)
  <2>1. q = [p EXCEPT !.full = TRUE]
    BY <1>4, <1>7
  <2> HIDE DEF q
  <2>2. /\ q \in [full : BOOLEAN, seen : SUBSET {Place(d) : d \in S}, total : Nat, items : Seq(Items(S, maxChars))]
        /\ q.full = TRUE /\ q.total = p.total /\ q.items = p.items /\ q.seen = p.seen
    BY <2>1, <1>0
  <2> QED
    BY <2>2, <1>0 DEF PackInv, q
<1>8. CASE ~(p.full \/ Place(c) \in p.seen) /\ text # 0 /\ ~(remaining <= 0 \/ chars = 0)
  <2>1. q = next
    BY <1>4, <1>8
  <2>2. p.total \in Nat /\ remaining \in Int /\ remaining > 0
    BY <1>0, <1>8
  <2>3. chars \in 1 .. maxChars + 3 /\ chars <= remaining + 2
    <3>1. CASE text > remaining
      <4>1. chars = Compact(text, remaining)
        BY <3>1
      <4> HIDE DEF text, remaining
      <4>2. Compact(text, remaining) \in Nat /\ Compact(text, remaining) <= remaining + 2
        <5>1. PICK n \in Nat, r \in Int : n = text /\ r = remaining /\ r >= 0
          BY <1>2, <2>2
        <5>2. Compact(n, r) \in Nat /\ Compact(n, r) <= r + 2
          BY <5>1, CompactLength
        <5> QED
          BY <5>1, <5>2
      <4> HIDE DEF chars
      <4> QED
        BY <3>1, <4>1, <4>2, <1>2, <1>8, <2>2
    <3>2. CASE ~(text > remaining)
      <4>1. chars = text
        BY <3>2
      <4> HIDE DEF text, remaining, chars
      <4> QED
        BY <3>2, <4>1, <1>2, <1>8, <2>2
    <3> QED
      BY <3>1, <3>2
  <2> HIDE DEF text, chars, remaining
  <2>4. item \in Items(S, maxChars)
    <3>1. PackedSourceType(Corpus[c]) \in PackedKinds
      BY <1>1, PackedSourceTypes
    <3>2. (IF entry.rerank # 0 THEN entry.rerank ELSE entry.fused) \in Int
      BY DEF Entries
    <3> HIDE DEF c
    <3> QED
      BY <1>1, <2>3, <3>1, <3>2 DEF Items
  <2>5. item.chunk = c /\ item.chars = chars
    OBVIOUS
  <2> HIDE DEF item, c, seen
  <2>6. PICK n \in Nat : n = Len(p.items)
    BY <1>0
  <2> DEFINE more == Append(p.items, item)
  <2>7. /\ more \in Seq(Items(S, maxChars)) /\ Len(more) = n + 1 /\ DOMAIN more = 1 .. n + 1
        /\ more[n + 1] = item /\ \A m \in 1 .. n : more[m] = p.items[m]
        /\ DOMAIN p.items = 1 .. n
    BY <1>0, <2>4, <2>6
  <2>8. Sum(CharsOf(more)) = p.total + chars
    BY <1>0, <2>4, <2>5, TotalAppend
  <2> HIDE DEF more
  <2>9. /\ q.full = (n + 1 >= maxItems) /\ q.seen = seen /\ q.total = p.total + chars /\ q.items = more
        /\ q = [full |-> (n + 1 >= maxItems), seen |-> seen, total |-> p.total + chars, items |-> more]
    BY <2>1, <2>6 DEF more
  <2> HIDE DEF q, next
  <2>10. q.full \in BOOLEAN /\ q.total \in Nat /\ q.total <= maxTotal + 2
    BY <2>2, <2>3, <2>9 DEF remaining
  <2>11. q \in [full : BOOLEAN, seen : SUBSET {Place(d) : d \in S}, total : Nat, items : Seq(Items(S, maxChars))]
    BY <2>7, <2>9, <2>10, <1>3
  <2>12. Len(q.items) <= maxItems /\ (~q.full => Len(q.items) < maxItems)
    <3>1. n < maxItems
      BY <1>0, <1>8, <2>6
    <3>2. Len(q.items) = n + 1
      BY <2>7, <2>9
    <3>3. ASSUME ~q.full PROVE ~(n + 1 >= maxItems)
      BY <2>9, <3>3, Zenon
    <3>4. ~q.full => Len(q.items) < maxItems
      BY <3>2, <3>3
    <3> QED
      BY <3>1, <3>2, <3>4
  <2>13. \A m \in DOMAIN q.items : Place(q.items[m].chunk) \in q.seen
    <3> SUFFICES ASSUME NEW m \in 1 .. n + 1 PROVE Place(more[m].chunk) \in seen
      BY <2>7, <2>9
    <3>1. CASE m = n + 1
      BY <3>1, <2>5, <2>7 DEF seen
    <3>2. CASE m # n + 1
      BY <3>2, <2>7, <1>0 DEF seen
    <3> QED
      BY <3>1, <3>2
  <2>14. ASSUME NEW m \in 1 .. n PROVE Place(more[m].chunk) # Place(more[n + 1].chunk)
    <3>1. Place(more[m].chunk) \in p.seen
      BY <2>7, <1>0
    <3> QED
      BY <3>1, <2>5, <2>7, <1>8
  <2>15. ASSUME NEW m \in 1 .. n + 1, NEW l \in 1 .. n + 1, Place(more[m].chunk) = Place(more[l].chunk)
         PROVE  m = l
    <3>1. CASE m = n + 1 \/ l = n + 1
      BY <3>1, <2>14, <2>15
    <3>2. CASE m # n + 1 /\ l # n + 1
      <4>1. m \in 1 .. n /\ l \in 1 .. n
        BY <3>2
      <4> QED
        BY <4>1, <2>7, <2>15, <1>0
    <3> QED
      BY <3>1, <3>2
  <2>16. \A m, l \in DOMAIN q.items : Place(q.items[m].chunk) = Place(q.items[l].chunk) => m = l
    BY <2>7, <2>9, <2>15
  <2>17. q.total = Sum(CharsOf(q.items))
    BY <2>8, <2>9
  <2> QED
    BY <2>10, <2>11, <2>12, <2>13, <2>16, <2>17 DEF PackInv, q
<1> QED
  BY <1>5, <1>6, <1>7, <1>8

\* F follows the recursion of Packing up to k.
Packs(F, list, maxItems, maxChars, maxTotal, k) ==
  F = [n \in 0 .. k |-> IF n = 0 THEN NothingPacked
                        ELSE Pack(F[n - 1], list[n], maxItems, maxChars, maxTotal)]

\* The recursion has a solution.
LEMMA PackingDefined ==
  ASSUME NEW T, NEW list \in Seq(T), NEW maxItems, NEW maxChars, NEW maxTotal
  PROVE  /\ Packing(list, maxItems, maxChars, maxTotal)[0] = NothingPacked
         /\ \A n \in 1 .. Len(list) :
              Packing(list, maxItems, maxChars, maxTotal)[n]
                = Pack(Packing(list, maxItems, maxChars, maxTotal)[n - 1], list[n], maxItems, maxChars, maxTotal)
<1> DEFINE Solved == {k \in Nat : \E F : Packs(F, list, maxItems, maxChars, maxTotal, k)}
           Round(p, n) == Pack(p, list[n], maxItems, maxChars, maxTotal)
<1>1. 0 \in Solved
  <2> DEFINE F == [n \in 0 .. 0 |-> NothingPacked]
  <2>1. Packs(F, list, maxItems, maxChars, maxTotal, 0)
    BY DEF Packs
  <2> QED
    BY <2>1
<1>2. ASSUME NEW k \in Nat, k \in Solved PROVE k + 1 \in Solved
  <2>1. PICK F : Packs(F, list, maxItems, maxChars, maxTotal, k)
    BY <1>2
  <2> DEFINE G == [n \in 0 .. k + 1 |-> IF n = k + 1 THEN Round(F[k], k + 1) ELSE F[n]]
  <2>2. ASSUME NEW n \in 0 .. k + 1
        PROVE  G[n] = IF n = 0 THEN NothingPacked ELSE Round(G[n - 1], n)
    <3>1. CASE n = k + 1
      BY <3>1
    <3>2. CASE n # k + 1
      <4>1. n \in 0 .. k /\ (n # 0 => n - 1 \in 0 .. k)
        BY <3>2
      <4>2. F[n] = IF n = 0 THEN NothingPacked ELSE Round(F[n - 1], n)
        BY <2>1, <4>1 DEF Packs
      <4> HIDE DEF Round
      <4> QED
        BY <4>1, <4>2
    <3> QED
      BY <3>1, <3>2
  <2>3. Packs(G, list, maxItems, maxChars, maxTotal, k + 1)
    <3>1. G = [n \in 0 .. k + 1 |-> G[n]]
      OBVIOUS
    <3> HIDE DEF G
    <3> QED
      BY <3>1, <2>2 DEF Packs
  <2> HIDE DEF G
  <2> QED
    BY <2>3
<1>3. \A k \in Nat : k \in Solved
  <2> HIDE DEF Solved
  <2> QED
    BY <1>1, <1>2, NatInductive
<1>4. PICK len \in Nat : len = Len(list)
  OBVIOUS
<1> DEFINE P == Packing(list, maxItems, maxChars, maxTotal)
<1>5. Packs(P, list, maxItems, maxChars, maxTotal, len)
  <2>1. \E F : Packs(F, list, maxItems, maxChars, maxTotal, len)
    BY <1>3
  <2> QED
    BY <2>1, <1>4 DEF Packing, Packs
<1> HIDE DEF P
<1>6. \A n \in 0 .. len : P[n] = IF n = 0 THEN NothingPacked ELSE Pack(P[n - 1], list[n], maxItems, maxChars, maxTotal)
  BY <1>5 DEF Packs
<1> QED
  BY <1>4, <1>6 DEF P

\* Every round keeps to the limits.
LEMMA PackingKeepsLimits ==
  ASSUME NEW S, S \subseteq Chunks, NEW list \in Seq(Entries(S)),
         NEW maxItems \in Nat \ {0}, NEW maxChars \in Nat, NEW maxTotal \in Nat
  PROVE  \A n \in 0 .. Len(list) :
           PackInv(Packing(list, maxItems, maxChars, maxTotal)[n], S, maxItems, maxChars, maxTotal)
<1> DEFINE P == Packing(list, maxItems, maxChars, maxTotal)
           Kept == {n \in Nat : n <= Len(list) => PackInv(P[n], S, maxItems, maxChars, maxTotal)}
<1>1. P[0] = NothingPacked
  BY PackingDefined
<1>2. \A n \in 1 .. Len(list) : P[n] = Pack(P[n - 1], list[n], maxItems, maxChars, maxTotal)
  BY PackingDefined
<1> HIDE DEF P
<1>3. 0 \in Kept
  <2>1. CharsOf(<<>>) = <<>>
    BY DEF CharsOf
  <2>2. Sum(CharsOf(<<>>)) = 0
    BY <2>1, SumEmpty
  <2>3. PackInv(NothingPacked, S, maxItems, maxChars, maxTotal)
    BY <2>2 DEF PackInv, NothingPacked
  <2> QED
    BY <1>1, <2>3
<1>4. ASSUME NEW n \in Nat, n \in Kept PROVE n + 1 \in Kept
  <2> SUFFICES ASSUME n + 1 <= Len(list) PROVE PackInv(P[n + 1], S, maxItems, maxChars, maxTotal)
    OBVIOUS
  <2>1. n + 1 \in 1 .. Len(list) /\ (n + 1) - 1 = n /\ n <= Len(list)
    OBVIOUS
  <2>2. PackInv(P[n], S, maxItems, maxChars, maxTotal)
    BY <1>4, <2>1
  <2>3. P[n + 1] = Pack(P[n], list[n + 1], maxItems, maxChars, maxTotal)
    BY <1>2, <2>1
  <2>4. list[n + 1] \in Entries(S)
    BY <2>1
  <2> QED
    BY <2>2, <2>3, <2>4, PackRound
<1>5. \A n \in Nat : n \in Kept
  <2> HIDE DEF Kept
  <2> QED
    BY <1>3, <1>4, NatInductive
<1> QED
  BY <1>5 DEF P

\* What is packed stays packed.
LEMMA PackedStays ==
  ASSUME NEW T, NEW p, p.items \in Seq(T), p.items # <<>>, "items" \in DOMAIN p,
         NEW entry, NEW maxItems, NEW maxChars, NEW maxTotal
  PROVE  Pack(p, entry, maxItems, maxChars, maxTotal).items # <<>>
<1>1. \A item : Append(p.items, item) # <<>>
  OBVIOUS
<1> QED
  BY <1>1 DEF Pack

\* A first result with a text is packed.
LEMMA FirstIsPacked ==
  ASSUME NEW S, S \subseteq Chunks, NEW entry \in Entries(S), Corpus[entry.chunk].chars > 0,
         NEW maxItems \in Nat \ {0}, NEW maxChars \in Nat \ {0, 1}, NEW maxTotal \in Nat \ {0, 1}
  PROVE  Pack(NothingPacked, entry, maxItems, maxChars, maxTotal).items # <<>>
<1>1. PICK n \in Nat : n = Corpus[entry.chunk].chars /\ n > 0
  BY CorpusAssumption DEF Entries
<1>2. maxChars \in Int /\ maxTotal \in Int /\ maxChars > 1 /\ maxTotal > 1
  OBVIOUS
<1>3. PICK t \in Nat : t = Compact(n, maxChars) /\ t > 0
  BY <1>1, <1>2, CompactLength
<1>4. Compact(t, maxTotal) \in Nat /\ Compact(t, maxTotal) > 0
  BY <1>2, <1>3, CompactLength
<1>5. maxTotal - 0 = maxTotal /\ ~(maxTotal <= 0)
  OBVIOUS
<1>6. \A item : Append(<<>>, item) # <<>>
  OBVIOUS
<1>7. Compact(Corpus[entry.chunk].chars, maxChars) = t
  BY <1>1, <1>3
<1> QED
  BY <1>3, <1>4, <1>5, <1>6, <1>7 DEF Pack, NothingPacked

\* The evidence keeps to the limits of the packer, has one item for each place,
\* and is not empty when there are results and all of them have a text.
LEMMA PackEvidenceLimits ==
  ASSUME NEW S, S \subseteq Chunks, NEW list \in Seq(Entries(S)),
         NEW maxItems \in Nat \ {0}, NEW maxChars \in Nat, NEW maxTotal \in Nat,
         NEW E, E = PackEvidence(list, maxItems, maxChars, maxTotal)
  PROVE  /\ E \in Seq(Items(S, maxChars)) /\ Len(E) <= maxItems
         /\ Sum(CharsOf(E)) <= maxTotal + 2
         /\ \A m, n \in DOMAIN E : Place(E[m].chunk) = Place(E[n].chunk) => m = n
         /\ Len(E) = Len(Packing(list, maxItems, maxChars, maxTotal)[Len(list)].items)
<1> DEFINE p == Packing(list, maxItems, maxChars, maxTotal)[Len(list)]
           items == p.items
           key == [n \in DOMAIN items |-> 7 * items[n].score - Priority[items[n].type]]
<1>1. PackInv(p, S, maxItems, maxChars, maxTotal)
  <2>1. Len(list) \in 0 .. Len(list)
    OBVIOUS
  <2> HIDE DEF p
  <2> QED
    BY <2>1, PackingKeepsLimits DEF p
<1>2. E = SortDescending(items, key)
  BY DEF PackEvidence
<1> HIDE DEF p
<1>3. /\ items \in Seq(Items(S, maxChars)) /\ Len(items) <= maxItems
      /\ Sum(CharsOf(items)) <= maxTotal + 2
      /\ \A m, n \in DOMAIN items : Place(items[m].chunk) = Place(items[n].chunk) => m = n
  BY <1>1 DEF PackInv
<1> HIDE DEF items
<1>4. PICK len \in Nat : len = Len(items)
  BY <1>3
<1>5. \A n \in 1 .. len : items[n] \in Items(S, maxChars)
  BY <1>3, <1>4
<1>6. DOMAIN items = 1 .. len
  BY <1>3, <1>4
<1>7. \A n \in 1 .. Len(items) : key[n] \in Int
  <2>1. ASSUME NEW kind \in PackedKinds PROVE Priority[kind] \in Int
    BY DEF Priority, PackedKinds
  <2>2. \A n \in 1 .. len : items[n].score \in Int /\ items[n].type \in PackedKinds
    BY <1>5 DEF Items
  <2>3. \A n \in 1 .. len : 7 * items[n].score - Priority[items[n].type] \in Int
    BY <2>1, <2>2
  <2> QED
    BY <1>4, <1>6, <2>3
<1> HIDE DEF key
<1>8. Permuted(E, items)
  BY <1>2, <1>3, <1>7, SortPermutes
<1>9. E \in Seq(Items(S, maxChars)) /\ Len(E) = len
  BY <1>3, <1>4, <1>8, PermutedSeq
<1>10. PICK order : Permutes(order, len) /\ E = [n \in 1 .. len |-> items[order[n]]]
  BY <1>4, <1>8 DEF Permuted
<1>11. /\ order \in [1 .. len -> 1 .. len]
       /\ \A m, n \in 1 .. len : order[m] = order[n] => m = n
  BY <1>10 DEF Permutes
<1>12. DOMAIN E = 1 .. len /\ \A n \in 1 .. len : E[n] = items[order[n]] /\ order[n] \in 1 .. len
  BY <1>10, <1>11
<1>13. \A m, n \in DOMAIN E : Place(E[m].chunk) = Place(E[n].chunk) => m = n
  <2> SUFFICES ASSUME NEW m \in 1 .. len, NEW n \in 1 .. len, Place(E[m].chunk) = Place(E[n].chunk)
               PROVE  m = n
    BY <1>12
  <2>1. Place(items[order[m]].chunk) = Place(items[order[n]].chunk)
    BY <1>12
  <2>2. order[m] \in DOMAIN items /\ order[n] \in DOMAIN items
    BY <1>6, <1>12
  <2>3. order[m] = order[n]
    BY <1>3, <2>1, <2>2
  <2> QED
    BY <1>11, <2>3
<1>14. Sum(CharsOf(E)) = Sum(CharsOf(items))
  <2>1. \A n \in 1 .. len : items[n].chars \in Int
    BY <1>5 DEF Items
  <2>2. CharsOf(items) \in [1 .. len -> Int] /\ \A n \in 1 .. len : CharsOf(items)[n] = items[n].chars
    BY <1>6, <2>1 DEF CharsOf
  <2>3. CharsOf(items) \in Seq(Int) /\ Len(CharsOf(items)) = len
    BY <2>2
  <2>4. CharsOf(E) = [n \in 1 .. len |-> CharsOf(items)[order[n]]]
    BY <1>12, <2>2 DEF CharsOf
  <2>5. Permuted(CharsOf(E), CharsOf(items))
    BY <2>3, <2>4, <1>10 DEF Permuted
  <2> QED
    BY <2>3, <2>5, SumPermuted
<1> QED
  BY <1>3, <1>4, <1>9, <1>13, <1>14 DEF items, p

LEMMA PackEvidenceFinds ==
  ASSUME NEW S, S \subseteq Chunks, \A c \in S : Corpus[c].chars > 0,
         NEW list \in Seq(Entries(S)), list # <<>>,
         NEW maxItems \in Nat \ {0}, NEW maxChars \in Nat \ {0, 1}, NEW maxTotal \in Nat \ {0, 1}
  PROVE  PackEvidence(list, maxItems, maxChars, maxTotal) # <<>>
<1> DEFINE P == Packing(list, maxItems, maxChars, maxTotal)
           Filled == {n \in Nat : n + 1 <= Len(list) => P[n + 1].items # <<>>}
<1>0. PICK len \in Nat \ {0} : len = Len(list)
  OBVIOUS
<1>1. P[0] = NothingPacked
  BY PackingDefined
<1>2. \A n \in 1 .. len : P[n] = Pack(P[n - 1], list[n], maxItems, maxChars, maxTotal)
  BY <1>0, PackingDefined
<1>3. \A n \in 0 .. len : PackInv(P[n], S, maxItems, maxChars, maxTotal)
  BY <1>0, PackingKeepsLimits
<1> HIDE DEF P
<1>4. 0 \in Filled
  <2>1. P[1] = Pack(NothingPacked, list[1], maxItems, maxChars, maxTotal)
    BY <1>1, <1>2
  <2>2. list[1] \in Entries(S)
    BY <1>0
  <2>3. Corpus[list[1].chunk].chars > 0
    BY <2>2 DEF Entries
  <2>4. P[1].items # <<>>
    BY <2>1, <2>2, <2>3, FirstIsPacked
  <2> QED
    BY <2>4
<1>5. ASSUME NEW n \in Nat, n \in Filled PROVE n + 1 \in Filled
  <2>1. PICK m \in Nat : m = n + 1
    OBVIOUS
  <2> SUFFICES ASSUME m + 1 <= len PROVE P[m + 1].items # <<>>
    BY <1>0, <2>1
  <2>2. m + 1 \in 1 .. len /\ (m + 1) - 1 = m /\ m \in 0 .. len /\ n + 1 <= Len(list)
    BY <1>0, <2>1
  <2>3. P[m].items # <<>>
    BY <1>5, <2>1, <2>2
  <2>4. P[m] \in [full : BOOLEAN, seen : SUBSET {Place(c) : c \in S}, total : Nat, items : Seq(Items(S, maxChars))]
    BY <1>3, <2>2 DEF PackInv
  <2>5. P[m].items \in Seq(Items(S, maxChars)) /\ "items" \in DOMAIN P[m]
    BY <2>4
  <2>6. P[m + 1] = Pack(P[m], list[m + 1], maxItems, maxChars, maxTotal)
    BY <1>2, <2>2
  <2> QED
    BY <2>3, <2>5, <2>6, PackedStays
<1>6. \A n \in Nat : n \in Filled
  <2> HIDE DEF Filled
  <2> QED
    BY <1>4, <1>5, NatInductive
<1>7. P[len].items # <<>>
  <2>1. PICK n \in Nat : len = n + 1
    <3>1. len - 1 \in Nat /\ len = (len - 1) + 1
      OBVIOUS
    <3> QED
      BY <3>1
  <2>2. n \in Filled
    BY <1>6
  <2> QED
    BY <1>0, <2>1, <2>2
<1>8. PICK E : E = PackEvidence(list, maxItems, maxChars, maxTotal)
  OBVIOUS
<1>9. maxChars \in Nat /\ maxTotal \in Nat
  OBVIOUS
<1>10. Len(E) = Len(P[len].items)
  BY <1>0, <1>8, <1>9, PackEvidenceLimits DEF P
<1>11. Len(P[len].items) # 0
  <2>1. P[len].items \in Seq(Items(S, maxChars))
    BY <1>3 DEF PackInv
  <2> QED
    BY <1>7, <2>1
<1> QED
  BY <1>8, <1>10, <1>11

-----------------------------------------------------------------------------
(* The inductive invariant of a request                                     *)

FoundBy(b) == {branch[b].found[n] : n \in DOMAIN branch[b].found}
FoundChunks == UNION {FoundBy(b) : b \in Branches}

\* The chunks that results and evidence may be of: what was found, and has a tag
\* that _raw_source_types has seen, or none.
Usable == {c \in FoundChunks : Corpus[c].source \in kinds \cup {Nothing}}

AllWait == \A b \in Branches : branch[b].at = "wait"
AllDone == \A b \in Branches : Runs(b) => branch[b].at = "done"

Retrieving == pc \in {"embed", "search", "fallback"}

IndexInv ==
  /\ version \in [Docs -> Versions] /\ changes \in 0 .. MaxChanges
  /\ points \subseteq Chunks /\ lived \subseteq Chunks
  /\ Live \subseteq lived

RequestInv ==
  /\ request \in Requests
  /\ pc \in {"embed", "search", "fallback", "rank", "respond", "llm", "done", "failed"}
  /\ embedded \in BOOLEAN /\ fellBack \in BOOLEAN

\* Hits need not be rows; what a branch has found when it is done was a row.
BranchesInv ==
  /\ branch \in [Branches -> [at : {"wait", "hits", "done"}, found : Seq(Chunks)]]
  /\ \A b \in Branches :
       /\ Len(branch[b].found) <= FetchK
       /\ branch[b].at = "wait" => branch[b].found = <<>>
       /\ branch[b].at = "hits" => b = "vector"
       /\ branch[b].at = "done" => FoundBy(b) \subseteq lived
       /\ b # "graph" => \A c \in FoundBy(b) : Passes(c, request.filters)

\* What the phases of the request say of its branches.
FlowInv ==
  /\ pc = "embed" => ~Exact /\ AllWait
  /\ Exact /\ ~fellBack => ~embedded
  /\ branch["vector"].at # "wait" => embedded
  /\ pc = "fallback" => fellBack /\ branch["vector"].at = "wait"
  /\ ~Retrieving => branch["vector"].at # "hits"
  /\ pc \in {"rank", "respond", "llm", "done"} => AllDone
  /\ pc = "failed" => AllWait \/ AllDone

ResultsInv ==
  /\ results \in Seq(Entries(Usable))
  /\ Retrieving => results = <<>>
  /\ pc \in {"rank", "respond"} /\ FoundChunks # {} => results # <<>>

Modes == {"retrieval_only", "insufficient_evidence", "direct_evidence", "llm_synthesis"}

PackedInv ==
  /\ response.mode \in Modes
  /\ response.evidence \in Seq(Items(Usable, EvidenceLimits[2]))
  /\ Len(response.evidence) <= EvidenceLimits[1]
  /\ Sum(CharsOf(response.evidence)) <= EvidenceLimits[3] + 2
  /\ \A m, n \in DOMAIN response.evidence :
       Place(response.evidence[m].chunk) = Place(response.evidence[n].chunk) => m = n

HasText == FoundChunks # {} /\ \A c \in FoundChunks : Corpus[c].chars > 0

Cites(kind) == \E n \in DOMAIN response.evidence : response.evidence[n].type = kind

\* Some evidence is of a chunk that was indexed as that kind.
CitesTagged(kind) == \E n \in DOMAIN response.evidence : Corpus[response.evidence[n].chunk].source = kind

ResponseInv ==
  /\ Retrieving \/ pc \in {"rank", "respond"} => response = NoResponse
  /\ pc = "llm" => response.mode = "retrieval_only" /\ DOMAIN response = {"evidence", "mode", "missing"}
  /\ pc \in {"llm", "done"} /\ HasText => response.evidence # <<>>
  /\ Intended.name \in IncidentLike =>
       /\ pc = "llm" \/ (pc = "done" /\ response.mode = "llm_synthesis") =>
            Required(Intended) \in kinds /\ (Cites(Required(Intended)) \/ Required(Intended) \in response.missing)
       /\ pc = "done" /\ response.mode = "insufficient_evidence" => ~CitesTagged(Required(Intended))

SearchInv == IndexInv /\ RequestInv /\ BranchesInv /\ FlowInv /\ ResultsInv /\ PackedInv /\ ResponseInv

\* The bounds of a request are positive.
LEMMA BoundsTyped ==
  ASSUME request \in Requests
  PROVE  /\ request.topK \in Nat \ {0}
         /\ TopK \in Nat \ {0} /\ FetchK \in Nat /\ RankLimit \in Nat \ {0}
<1>1. request.topK \in Nat \ {0}
  BY RequestsAssumption
<1>2. TopK \in Nat \ {0}
  BY <1>1, RankingAssumption DEF TopK, AtLeast
<1>3. FetchK \in Nat
  <2>1. ASSUME NEW k \in Nat, NEW m \in Nat PROVE AtLeast(k * m, MinFetch) \in Nat
    <3>1. k * m \in Int
      OBVIOUS
    <3> QED
      BY <3>1, RankingAssumption DEF AtLeast
  <2>2. AtLeast(Multiplier, 4) \in Nat /\ AtLeast(Multiplier, 1) \in Nat
    BY RankingAssumption DEF AtLeast
  <2>3. TopK \in Nat
    BY <1>2
  <2>4. AtLeast(TopK * AtLeast(Multiplier, 4), MinFetch) \in Nat
    BY <2>1, <2>2, <2>3
  <2>5. AtLeast(TopK * 3, MinFetch) \in Nat
    BY <2>1, <2>3
  <2>6. AtLeast(TopK * AtLeast(Multiplier, 1), MinFetch) \in Nat
    BY <2>1, <2>2, <2>3
  <2> QED
    BY <2>4, <2>5, <2>6 DEF FetchK, FetchBudget
<1>4. RankLimit \in Nat \ {0}
  <2>1. Limits.answerItems \in Nat \ {0} /\ Limits.searchItems \in Nat \ {0}
    BY LimitsAssumption
  <2> QED
    BY <1>1, <2>1 DEF RankLimit, AtLeast, AtMost
<1> QED
  BY <1>1, <1>2, <1>3, <1>4

\* What is said of a request does not change as long as the request does not.
LEMMA SameRequest ==
  ASSUME request' = request
  PROVE  /\ Intended' = Intended /\ Exact' = Exact /\ Answering' = Answering
         /\ TopK' = TopK /\ FetchK' = FetchK /\ RankLimit' = RankLimit
  BY DEF Intended, Exact, Answering, TopK, FetchK, RankLimit

LEMMA SameBranches ==
  ASSUME branch' = branch
  PROVE  /\ FoundChunks' = FoundChunks /\ AllWait' = AllWait
         /\ \A b \in Branches : FoundBy(b)' = FoundBy(b)
         /\ kinds' = kinds => Usable' = Usable
  BY DEF FoundChunks, FoundBy, AllWait, Usable

LEMMA SameSearch ==
  ASSUME request' = request, embedded' = embedded, fellBack' = fellBack, branch' = branch
  PROVE  AllDone' = AllDone
<1>1. ASSUME NEW b \in Branches PROVE Runs(b)' = Runs(b)
  BY SameRequest DEF Runs
<1> QED
  BY <1>1 DEF AllDone

\* The index, as long as a step leaves it alone.
LEMMA SameIndex ==
  ASSUME IndexInv, UNCHANGED index
  PROVE  IndexInv' /\ lived' = lived
  BY DEF IndexInv, index, Live

\* The branches, as long as a step leaves them alone and forgets no row.
LEMMA BranchesKept ==
  ASSUME BranchesInv, request' = request, branch' = branch, lived \subseteq lived'
  PROVE  BranchesInv'
<1>1. FetchK' = FetchK /\ \A b \in Branches : FoundBy(b)' = FoundBy(b)
  BY SameRequest, SameBranches
<1>2. branch' \in [Branches -> [at : {"wait", "hits", "done"}, found : Seq(Chunks)]]
  BY DEF BranchesInv
<1>3. ASSUME NEW b \in Branches
      PROVE  /\ Len(branch'[b].found) <= FetchK'
             /\ branch'[b].at = "wait" => branch'[b].found = <<>>
             /\ branch'[b].at = "hits" => b = "vector"
             /\ branch'[b].at = "done" => FoundBy(b)' \subseteq lived'
             /\ b # "graph" => \A c \in FoundBy(b)' : Passes(c, request'.filters)
  BY <1>1 DEF BranchesInv
<1> QED
  BY <1>2, <1>3 DEF BranchesInv

\* Results and evidence, as long as a step leaves them and what was found alone.
LEMMA PackedKept ==
  ASSUME PackedInv, request' = request, branch' = branch, kinds' = kinds, response' = response
  PROVE  PackedInv'
<1>1. Usable' = Usable /\ EvidenceLimits' = EvidenceLimits
  BY SameRequest, SameBranches DEF EvidenceLimits
<1> QED
  BY <1>1 DEF PackedInv

LEMMA ResponseKept ==
  ASSUME ResponseInv, request' = request, branch' = branch, kinds' = kinds, response' = response, pc' = pc
  PROVE  ResponseInv'
<1>1. Intended' = Intended /\ (HasText' <=> HasText) /\ (Retrieving' <=> Retrieving)
  BY SameRequest, SameBranches DEF HasText, Retrieving
<1>2. ASSUME NEW kind PROVE (Cites(kind)' <=> Cites(kind)) /\ (CitesTagged(kind)' <=> CitesTagged(kind))
  BY DEF Cites, CitesTagged
<1> QED
  BY <1>1, <1>2 DEF ResponseInv

\* A step of the index only, which may commit chunks but forgets none.
LEMMA IndexKeeps ==
  ASSUME SearchInv, IndexInv', lived \subseteq lived',
         UNCHANGED <<request, pc, search, ranking, response>>
  PROVE  SearchInv'
<1>1. UNCHANGED <<request, pc, embedded, fellBack, branch, results, kinds, response>>
  BY DEF search, ranking
<1>2. BranchesInv' /\ PackedInv' /\ ResponseInv'
  BY <1>1, BranchesKept, PackedKept, ResponseKept DEF SearchInv
<1>3. RequestInv'
  BY <1>1 DEF SearchInv, RequestInv
<1>4. /\ Exact' = Exact /\ AllWait' = AllWait /\ AllDone' = AllDone
      /\ FoundChunks' = FoundChunks /\ Usable' = Usable /\ Retrieving' = Retrieving
  BY <1>1, SameRequest, SameBranches, SameSearch DEF Retrieving
<1>5. FlowInv' /\ ResultsInv'
  BY <1>1, <1>4 DEF SearchInv, FlowInv, ResultsInv
<1> QED
  BY <1>2, <1>3, <1>5 DEF SearchInv

\* The chunks of a version are chunks, and are live once it is committed.
LEMMA LiveChunks ==
  /\ Live \subseteq Chunks
  /\ \A doc, v : ChunksOf(doc, v) \subseteq Chunks
  BY DEF Live, ChunksOf

LEMMA IndexActions ==
  ASSUME SearchInv, NEW doc, \/ DeletePoints(doc)
                             \/ \E v \in Versions : UpsertPoints(doc, v) \/ Commit(doc, v)
  PROVE  SearchInv'
<1>1. IndexInv
  BY DEF SearchInv
<1>0. ASSUME IndexChanges PROVE changes' \in 0 .. MaxChanges
  BY <1>0, <1>1, LimitsAssumption DEF IndexInv, IndexChanges
<1>2. CASE DeletePoints(doc)
  <2>1. IndexInv' /\ lived \subseteq lived'
    BY <1>0, <1>1, <1>2 DEF DeletePoints, IndexInv, Live
  <2> QED
    BY <1>2, <2>1, IndexKeeps DEF DeletePoints
<1>3. ASSUME NEW v \in Versions, UpsertPoints(doc, v) PROVE SearchInv'
  <2>1. IndexInv' /\ lived \subseteq lived'
    BY <1>0, <1>1, <1>3, LiveChunks DEF UpsertPoints, IndexInv, Live
  <2> QED
    BY <1>3, <2>1, IndexKeeps DEF UpsertPoints
<1>4. ASSUME NEW v \in Versions, Commit(doc, v) PROVE SearchInv'
  <2>1. version' \in [Docs -> Versions] /\ changes' \in 0 .. MaxChanges /\ points' \subseteq Chunks
    BY <1>0, <1>1, <1>4 DEF Commit, IndexInv
  <2>2. lived' = lived \cup ChunksOf(doc, v) /\ lived' \subseteq Chunks
    BY <1>1, <1>4, LiveChunks DEF Commit, IndexInv
  <2>3. Live' \subseteq lived'
    <3> SUFFICES ASSUME NEW c \in Live' PROVE c \in lived'
      OBVIOUS
    <3>1. PICK d \in Docs : c \in ChunksOf(d, version'[d])
      BY DEF Live, ChunksOf
    <3>2. CASE d = doc
      <4>1. version'[d] = v
        BY <1>1, <1>4, <3>2 DEF Commit, IndexInv
      <4> QED
        BY <2>2, <3>1, <3>2, <4>1
    <3>3. CASE d # doc
      <4>1. version'[d] = version[d]
        BY <1>1, <1>4, <3>3 DEF Commit, IndexInv
      <4>2. c \in Live
        BY <3>1, <4>1 DEF Live
      <4> QED
        BY <1>1, <2>2, <4>2 DEF IndexInv
    <3> QED
      BY <3>2, <3>3
  <2>4. IndexInv' /\ lived \subseteq lived'
    BY <2>1, <2>2, <2>3 DEF IndexInv
  <2> QED
    BY <1>4, <2>4, IndexKeeps DEF Commit
<1> QED
  BY <1>2, <1>3, <1>4

\* A request that fails keeps what it has found.
LEMMA FailureKeeps ==
  ASSUME SearchInv, pc' = "failed", AllWait \/ AllDone, branch["vector"].at # "hits",
         UNCHANGED <<index, request, search, ranking, response>>
  PROVE  SearchInv'
<1>1. UNCHANGED <<index, request, embedded, fellBack, branch, results, kinds, response>>
  BY DEF search, ranking
<1>2. IndexInv' /\ BranchesInv' /\ PackedInv'
  BY <1>1, SameIndex, BranchesKept, PackedKept DEF SearchInv
<1>3. RequestInv'
  BY <1>1 DEF SearchInv, RequestInv
<1>4. /\ Exact' = Exact /\ AllWait' = AllWait /\ AllDone' = AllDone
      /\ FoundChunks' = FoundChunks /\ Usable' = Usable /\ ~Retrieving'
  BY <1>1, SameRequest, SameBranches, SameSearch DEF Retrieving
<1>5. FlowInv'
  BY <1>1, <1>4 DEF SearchInv, FlowInv
<1>6. ResultsInv'
  BY <1>1, <1>4 DEF SearchInv, ResultsInv
<1>7. ResponseInv'
  BY <1>4 DEF ResponseInv
<1> QED
  BY <1>2, <1>3, <1>5, <1>6, <1>7 DEF SearchInv

\* The limits of the evidence are numbers.
LEMMA LimitsTyped ==
  /\ \A name \in {"searchItems", "answerItems", "rerankItems"} : Limits[name] \in Nat \ {0}
  /\ \A name \in {"searchChars", "searchTotal", "answerChars", "answerTotal", "directChars", "directTotal"} :
       Limits[name] \in Nat \ {0, 1} /\ Limits[name] \in Nat
  BY LimitsAssumption

LEMMA EmptyTotal ==
  Sum(CharsOf(<<>>)) = 0
<1>1. CharsOf(<<>>) = <<>>
  BY DEF CharsOf
<1> QED
  BY <1>1, SumEmpty

\* No evidence exceeds no limit.
LEMMA NothingResponded ==
  ASSUME request \in Requests, response = NoResponse
  PROVE  PackedInv
<1>1. request.topK \in Nat
  BY RequestsAssumption
<1>2. response.mode = "retrieval_only" /\ response.evidence = <<>>
  BY DEF NoResponse
<1>3. EvidenceLimits[1] \in Nat /\ EvidenceLimits[3] \in Nat
  BY <1>1, <1>2, LimitsTyped DEF EvidenceLimits
<1>4. <<>> \in Seq(Items(Usable, EvidenceLimits[2])) /\ Len(<<>>) = 0 /\ DOMAIN <<>> = {}
  OBVIOUS
<1> QED
  BY <1>2, <1>3, <1>4, EmptyTotal DEF PackedInv, Modes

\* The same of the next state.
LEMMA NothingYetResponded ==
  ASSUME request \in Requests, request' = request, response' = NoResponse
  PROVE  PackedInv'
<1>1. request.topK \in Nat
  BY RequestsAssumption
<1>2. response'.mode = "retrieval_only" /\ response'.evidence = <<>>
  BY DEF NoResponse
<1>3. EvidenceLimits'[1] \in Nat /\ EvidenceLimits'[3] \in Nat
  BY <1>1, <1>2, LimitsTyped DEF EvidenceLimits
<1>4. \A S : <<>> \in Seq(S)
  OBVIOUS
<1>5. Len(<<>>) = 0 /\ DOMAIN <<>> = {}
  OBVIOUS
<1> QED
  BY <1>2, <1>3, <1>4, <1>5, EmptyTotal DEF PackedInv, Modes

\* As long as a request is retrieving, it has neither results nor evidence.
LEMMA RetrievingKeeps ==
  ASSUME SearchInv, Retrieving, Retrieving', request' = request,
         UNCHANGED <<index, ranking, response>>, embedded' \in BOOLEAN, fellBack' \in BOOLEAN,
         BranchesInv', FlowInv'
  PROVE  SearchInv'
<1>1. UNCHANGED <<index, results, kinds>>
  BY DEF ranking
<1>2. IndexInv'
  BY <1>1, SameIndex DEF SearchInv
<1>3. RequestInv'
  BY DEF SearchInv, RequestInv, Retrieving
<1>4. response = NoResponse /\ results = <<>>
  BY DEF SearchInv, ResponseInv, ResultsInv
<1>5. ResultsInv'
  <2>1. \A S : <<>> \in Seq(S)
    OBVIOUS
  <2> QED
    BY <1>1, <1>4, <2>1 DEF ResultsInv, Retrieving
<1>6. ResponseInv'
  BY <1>4 DEF ResponseInv, Retrieving
<1>7. PackedInv'
  BY <1>4, NothingYetResponded DEF SearchInv, RequestInv
<1> QED
  BY <1>2, <1>3, <1>5, <1>6, <1>7 DEF SearchInv

\* The embedding and the fallback leave the branches alone.
LEMMA PreparingKeeps ==
  ASSUME SearchInv, Embed \/ FallBack \/ EmbedFallback
  PROVE  SearchInv'
<1>1. /\ Retrieving /\ Retrieving' /\ request' = request /\ branch' = branch
      /\ UNCHANGED <<index, ranking, response>>
  BY DEF Embed, FallBack, EmbedFallback, Gathered, Retrieving
<1>2. embedded' \in BOOLEAN /\ fellBack' \in BOOLEAN
  BY DEF SearchInv, RequestInv, Embed, FallBack, EmbedFallback
<1>3. BranchesInv'
  BY <1>1, BranchesKept, SameIndex DEF SearchInv
<1>4. FlowInv'
  <2>1. Exact' = Exact
    BY <1>1, SameRequest
  <2>2. CASE Embed
    BY <1>1, <2>1, <2>2 DEF SearchInv, FlowInv, Embed, Retrieving
  <2>3. CASE FallBack
    BY <1>1, <2>1, <2>3 DEF SearchInv, FlowInv, FallBack, ShouldVectorFallback, Retrieving
  <2>4. CASE EmbedFallback
    BY <1>1, <2>1, <2>4 DEF SearchInv, FlowInv, EmbedFallback, Retrieving
  <2> QED
    BY <2>2, <2>3, <2>4
<1> QED
  BY <1>1, <1>2, <1>3, <1>4, RetrievingKeeps

\* A branch that finds what it may find.
LEMMA FindsKeeps ==
  ASSUME SearchInv, NEW b \in Branches, NEW at \in {"hits", "done"}, NEW found \in Seq(Chunks),
         Searching(b), Finds(b, at, found), Len(found) <= FetchK,
         at = "hits" => b = "vector",
         at = "done" => \A n \in DOMAIN found : found[n] \in lived,
         b # "graph" => \A n \in DOMAIN found : Passes(found[n], request.filters)
  PROVE  SearchInv'
<1>1. /\ pc = "search" /\ Runs(b)
      /\ branch' = [branch EXCEPT ![b] = [at |-> at, found |-> found]]
      /\ UNCHANGED <<index, request, pc, embedded, fellBack, ranking, response>>
  BY DEF Searching, Finds
<1>2. branch \in [Branches -> [at : {"wait", "hits", "done"}, found : Seq(Chunks)]]
  BY DEF SearchInv, BranchesInv
<1>3. branch' \in [Branches -> [at : {"wait", "hits", "done"}, found : Seq(Chunks)]]
  <2>1. [at |-> at, found |-> found] \in [at : {"wait", "hits", "done"}, found : Seq(Chunks)]
    OBVIOUS
  <2> QED
    BY <1>1, <1>2, <2>1
<1>4. branch'[b].at = at /\ branch'[b].found = found
  BY <1>1, <1>2
<1>5. \A a \in Branches : a # b => branch'[a] = branch[a]
  BY <1>1, <1>2
<1>6. FetchK' = FetchK /\ Exact' = Exact
  BY <1>1, SameRequest
<1>7. lived' = lived
  BY <1>1, SameIndex DEF SearchInv
<1>8. ASSUME NEW a \in Branches
      PROVE  /\ Len(branch'[a].found) <= FetchK'
             /\ branch'[a].at = "wait" => branch'[a].found = <<>>
             /\ branch'[a].at = "hits" => a = "vector"
             /\ branch'[a].at = "done" => FoundBy(a)' \subseteq lived'
             /\ a # "graph" => \A c \in FoundBy(a)' : Passes(c, request'.filters)
  <2>1. CASE a = b
    <3>1. FoundBy(a)' = {found[n] : n \in DOMAIN found}
      BY <1>4, <2>1 DEF FoundBy
    <3> QED
      BY <1>1, <1>4, <1>6, <1>7, <2>1, <3>1
  <2>2. CASE a # b
    <3>1. branch'[a] = branch[a] /\ FoundBy(a)' = FoundBy(a)
      BY <1>5, <2>2 DEF FoundBy
    <3> QED
      BY <1>1, <1>6, <1>7, <3>1 DEF SearchInv, BranchesInv
  <2> QED
    BY <2>1, <2>2
<1>9. BranchesInv'
  BY <1>3, <1>8 DEF BranchesInv
<1>10. FlowInv'
  <2>1. branch'["vector"].at # "wait" => embedded
    <3>1. CASE b = "vector"
      BY <1>1, <3>1 DEF Runs
    <3>2. CASE b # "vector"
      <4>1. branch'["vector"] = branch["vector"]
        BY <1>5, <3>2 DEF Branches
      <4> QED
        BY <4>1 DEF SearchInv, FlowInv
    <3> QED
      BY <3>1, <3>2
  <2> QED
    BY <1>1, <1>6, <2>1 DEF SearchInv, FlowInv, Retrieving
<1>11. Retrieving /\ Retrieving' /\ embedded' \in BOOLEAN /\ fellBack' \in BOOLEAN
  BY <1>1 DEF Retrieving, SearchInv, RequestInv
<1> QED
  BY <1>1, <1>9, <1>10, <1>11, RetrievingKeeps

\* The members of a list of rows that pass the filters.
LEMMA RowsFound ==
  ASSUME NEW A, A \subseteq Chunks, NEW filters, NEW found \in Seq({c \in A : Passes(c, filters)})
  PROVE  /\ found \in Seq(Chunks)
         /\ \A n \in DOMAIN found : found[n] \in A /\ Passes(found[n], filters)
<1>1. PICK n \in Nat : n = Len(found)
  OBVIOUS
<1>2. found \in [1 .. n -> {c \in A : Passes(c, filters)}]
  BY <1>1
<1>3. \A m \in 1 .. n : found[m] \in A /\ found[m] \in Chunks /\ Passes(found[m], filters)
  BY <1>2
<1>4. found \in [1 .. n -> Chunks]
  BY <1>2, <1>3
<1> QED
  BY <1>2, <1>3, <1>4

\* The hits that are still rows are rows that pass the filters.
LEMMA LoadedHitsFound ==
  ASSUME SearchInv
  PROVE  /\ LoadedHits \in Seq(Chunks) /\ Len(LoadedHits) <= FetchK
         /\ \A n \in DOMAIN LoadedHits : LoadedHits[n] \in lived /\ Passes(LoadedHits[n], request.filters)
<1> DEFINE hits == branch["vector"].found
           places == {n \in DOMAIN hits : hits[n] \in Live}
<1>1. hits \in Seq(Chunks) /\ Len(hits) <= FetchK
  BY DEF SearchInv, BranchesInv, Branches
<1>2. \A n \in DOMAIN hits : Passes(hits[n], request.filters)
  BY DEF SearchInv, BranchesInv, Branches, FoundBy
<1>3. LoadedHits = Keep(hits, places)
  BY DEF LoadedHits
<1>4. PICK len \in Nat : len = Len(hits) /\ DOMAIN hits = 1 .. len
  BY <1>1
<1>5. places \in SUBSET (1 .. Len(hits))
  BY <1>4
<1>6. \A n \in places : hits[n] \in lived /\ Passes(hits[n], request.filters)
  BY <1>2 DEF SearchInv, IndexInv
<1> HIDE DEF hits, places
<1>7. PICK k \in Seq(Chunks) : k = Keep(hits, places)
  BY <1>1, <1>5, KeepSeq
<1>8. Len(k) \in 0 .. Len(hits) /\ \A p \in 1 .. Len(k) : \E n \in places : k[p] = hits[n]
  BY <1>1, <1>5, <1>7, KeepSeq
<1>9. FetchK \in Nat
  BY BoundsTyped DEF SearchInv, RequestInv
<1>10. Len(k) <= FetchK
  BY <1>1, <1>4, <1>8, <1>9
<1>11. DOMAIN k = 1 .. Len(k)
  BY <1>7
<1>12. \A n \in DOMAIN k : k[n] \in lived /\ Passes(k[n], request.filters)
  BY <1>6, <1>8, <1>11
<1> QED
  BY <1>3, <1>7, <1>10, <1>12

\* Every action of a branch finds what it may find.
LEMMA BranchActions ==
  ASSUME SearchInv,
         \/ SearchPoints \/ LoadChunks \/ SearchText \/ SearchMetadata \/ SearchGraph
         \/ \E b \in Branches : BranchFails(b)
  PROVE  SearchInv'
<1> DEFINE f == request.filters
           q == request.query
<1>1. FetchK \in Nat
  BY BoundsTyped DEF SearchInv, RequestInv
<1>2. points \subseteq Chunks /\ Live \subseteq Chunks /\ Live \subseteq lived
  BY LiveChunks DEF SearchInv, IndexInv
<1>3. IsFiniteSet(q.exact) /\ IsFiniteSet(q.services) /\ IsFiniteSet(q.endpoints)
  BY RequestsAssumption DEF SearchInv, RequestInv
<1>4. {"vector", "lexical", "metadata", "graph"} = Branches
  BY DEF Branches
<1>5. ASSUME NEW b \in Branches, NEW found, Searching(b), Finds(b, "done", found), Len(found) <= FetchK,
             found \in Seq({c \in Live : Passes(c, f)})
      PROVE  SearchInv'
  <2>1. found \in Seq(Chunks) /\ \A n \in DOMAIN found : found[n] \in Live /\ Passes(found[n], f)
    BY <1>2, <1>5, RowsFound
  <2> QED
    BY <1>2, <1>5, <2>1, FindsKeeps
<1>6. CASE SearchPoints
  <2>1. PICK found : found = VectorHits(points, f, FetchK)
    OBVIOUS
  <2>2. found \in Seq({c \in points : Passes(c, f)}) /\ Len(found) <= FetchK
    BY <1>1, <1>2, <2>1, VectorHitsFound
  <2>3. found \in Seq(Chunks) /\ \A n \in DOMAIN found : Passes(found[n], f)
    BY <1>2, <2>2, RowsFound
  <2>4. Searching("vector") /\ Finds("vector", "hits", found)
    BY <1>6, <2>1 DEF SearchPoints
  <2> QED
    BY <1>4, <2>2, <2>3, <2>4, FindsKeeps
<1>7. CASE LoadChunks
  BY <1>4, <1>7, LoadedHitsFound, FindsKeeps DEF LoadChunks
<1>8. CASE SearchText
  <2>1. PICK found : found = LexicalSearch(Live, q, f, FetchK)
    OBVIOUS
  <2>2. found \in Seq({c \in Live : Passes(c, f)}) /\ Len(found) <= FetchK
    BY <1>1, <1>2, <2>1, LexicalSearchFound
  <2>3. Searching("lexical") /\ Finds("lexical", "done", found)
    BY <1>8, <2>1 DEF SearchText
  <2> QED
    BY <1>4, <1>5, <2>2, <2>3
<1>9. CASE SearchMetadata
  <2>1. PICK found \in MetadataSearch(Live, q, f, FetchK) : Searching("metadata") /\ Finds("metadata", "done", found)
    BY <1>9 DEF SearchMetadata
  <2>2. found \in Seq({c \in Live : Passes(c, f)}) /\ Len(found) <= FetchK
    BY <1>1, <1>2, <1>3, MetadataSearchFound
  <2> QED
    BY <1>4, <1>5, <2>1, <2>2
<1>10. CASE SearchGraph
  <2>1. PICK found \in GraphSearch(Live, q, FetchK) : Searching("graph") /\ Finds("graph", "done", found)
    BY <1>10 DEF SearchGraph
  <2>2. found \in Seq(Live) /\ Len(found) <= FetchK
    BY <1>1, <1>2, <1>3, GraphSearchFound
  <2>3. found \in Seq(Chunks) /\ \A n \in DOMAIN found : found[n] \in lived
    BY <1>2, <2>2
  <2> QED
    BY <1>4, <2>1, <2>2, <2>3, FindsKeeps
<1>11. ASSUME NEW b \in Branches, BranchFails(b) PROVE SearchInv'
  <2>1. <<>> \in Seq({c \in Live : Passes(c, f)}) /\ Len(<<>>) <= FetchK
    BY <1>1
  <2> QED
    BY <1>5, <1>11, <2>1 DEF BranchFails
<1> QED
  BY <1>6, <1>7, <1>8, <1>9, <1>10, <1>11

\* The fused results are of what was found, and of the kinds that were seen.
LEMMA FuseKeeps ==
  ASSUME SearchInv, Fuse
  PROVE  SearchInv'
<1> DEFINE found == [b \in Branches |-> branch[b].found]
<1>1. /\ Gathered /\ pc' = "rank" /\ results' = Fused(found, request.query, Intended, TopK)
      /\ kinds' = {Corpus[results'[n].chunk].source : n \in DOMAIN results'} \ {Nothing}
      /\ UNCHANGED <<index, request, embedded, fellBack, branch, response>>
  BY DEF Fuse, search
<1>2. ASSUME NEW b \in Branches PROVE branch[b].found \in Seq(FoundChunks)
  <2>1. branch[b].found \in Seq(Chunks)
    BY DEF SearchInv, BranchesInv
  <2>2. PICK n \in Nat : n = Len(branch[b].found) /\ DOMAIN branch[b].found = 1 .. n
    BY <2>1
  <2>3. \A m \in 1 .. n : branch[b].found[m] \in FoundChunks
    BY <2>2 DEF FoundChunks, FoundBy
  <2>4. branch[b].found \in [1 .. n -> FoundChunks]
    BY <2>1, <2>2, <2>3
  <2> QED
    BY <2>4
<1>3. TopK \in Nat /\ TopK # 0 /\ IsFiniteSet(request.query.terms)
  BY BoundsTyped, RequestsAssumption DEF SearchInv, RequestInv
<1>4. \A b \in Branches : found[b] \in Seq(FoundChunks)
  BY <1>2
<1>5. FoundChunks # {} => \E b \in Branches : found[b] # <<>>
  BY DEF FoundChunks, FoundBy
<1> HIDE DEF found
<1>6. results' \in Seq(Entries(FoundChunks)) /\ (FoundChunks # {} => results' # <<>>)
  BY <1>1, <1>3, <1>4, <1>5, FusedResults
<1>7. /\ Exact' = Exact /\ AllWait' = AllWait /\ AllDone' = AllDone
      /\ FoundChunks' = FoundChunks /\ ~Retrieving' /\ Retrieving
  BY <1>1, SameRequest, SameBranches, SameSearch DEF Retrieving, Gathered
<1>8. FoundChunks \subseteq Chunks
  <2>1. \A b \in Branches : branch[b].found \in Seq(Chunks)
    BY DEF SearchInv, BranchesInv
  <2> QED
    BY <2>1 DEF FoundChunks, FoundBy
<1>9. results' \in Seq(Entries(Usable'))
  <2>1. PICK n \in Nat : n = Len(results') /\ DOMAIN results' = 1 .. n
    BY <1>6
  <2>2. \A m \in 1 .. n : results'[m] \in Entries(FoundChunks)
    BY <1>6, <2>1
  <2>3. ASSUME NEW m \in 1 .. n PROVE results'[m] \in Entries(Usable')
    <3>1. results'[m].chunk \in FoundChunks
      BY <2>2 DEF Entries
    <3>2. Corpus[results'[m].chunk].source \in kinds' \cup {Nothing}
      BY <1>1, <2>1
    <3>3. results'[m].chunk \in Usable'
      BY <1>7, <3>1, <3>2 DEF Usable
    <3>4. results'[m] \in Entries(FoundChunks)
      BY <2>2
    <3> QED
      BY <3>3, <3>4 DEF Entries
  <2>4. results' \in [1 .. n -> Entries(Usable')]
    BY <1>6, <2>1, <2>3
  <2> QED
    BY <2>4
<1>10. ResultsInv'
  BY <1>1, <1>6, <1>7, <1>9 DEF ResultsInv
<1>11. IndexInv' /\ BranchesInv'
  BY <1>1, SameIndex, BranchesKept DEF SearchInv
<1>12. RequestInv'
  BY <1>1 DEF SearchInv, RequestInv
<1>13. response = NoResponse
  BY <1>7 DEF SearchInv, ResponseInv
<1>14. PackedInv' /\ ResponseInv'
  <2>1. PackedInv'
    BY <1>1, <1>13, NothingYetResponded DEF SearchInv, RequestInv
  <2>2. ResponseInv'
    BY <1>1, <1>13, <1>7 DEF ResponseInv
  <2> QED
    BY <2>1, <2>2
<1>15. FlowInv'
  <2>1. AllDone
    BY <1>1 DEF Gathered, AllDone
  <2>2. branch["vector"].at # "hits"
    <3>1. branch["vector"].at # "wait" => embedded
      BY DEF SearchInv, FlowInv
    <3>2. Runs("vector") <=> embedded
      BY DEF Runs
    <3>3. "vector" \in Branches
      BY DEF Branches
    <3> QED
      BY <2>1, <3>1, <3>2, <3>3 DEF AllDone
  <2> QED
    BY <1>1, <1>7, <2>1, <2>2 DEF SearchInv, FlowInv
<1> QED
  BY <1>10, <1>11, <1>12, <1>14, <1>15 DEF SearchInv

LEMMA UsableChunks ==
  ASSUME BranchesInv
  PROVE  Usable \subseteq FoundChunks /\ FoundChunks \subseteq Chunks /\ Usable \subseteq Chunks
<1>1. \A b \in Branches : branch[b].found \in Seq(Chunks)
  BY DEF BranchesInv
<1>2. FoundChunks \subseteq Chunks
  BY <1>1 DEF FoundChunks, FoundBy
<1> QED
  BY <1>2 DEF Usable

\* An order of the results, cut to the limit of the reranker.
LEMMA OrderedKeeps ==
  ASSUME SearchInv, pc = "rank", NEW order \in Seq(Entries(Usable)), Len(order) = Len(results), Ordered(order)
  PROVE  SearchInv'
<1>1. /\ results' = Take(order, RankLimit) /\ pc' = "respond"
      /\ UNCHANGED <<index, request, embedded, fellBack, branch, kinds, response>>
  BY DEF Ordered, search
<1>2. RankLimit \in Nat /\ RankLimit # 0
  BY BoundsTyped DEF SearchInv, RequestInv
<1>3. results' \in Seq(Entries(Usable)) /\ (order # <<>> => Len(results') # 0)
  BY <1>1, <1>2, TakeSeq
<1>4. results # <<>> => results' # <<>>
  <2>1. results \in Seq(Entries(Usable))
    BY DEF SearchInv, ResultsInv
  <2>2. results # <<>> => order # <<>>
    BY <2>1
  <2> QED
    BY <1>3, <2>2
<1>5. /\ Exact' = Exact /\ AllWait' = AllWait /\ AllDone' = AllDone
      /\ FoundChunks' = FoundChunks /\ Usable' = Usable /\ ~Retrieving'
  BY <1>1, SameRequest, SameBranches, SameSearch DEF Retrieving
<1>6. IndexInv' /\ BranchesInv' /\ PackedInv'
  BY <1>1, SameIndex, BranchesKept, PackedKept DEF SearchInv
<1>7. RequestInv'
  BY <1>1 DEF SearchInv, RequestInv
<1>8. FlowInv'
  BY <1>1, <1>5 DEF SearchInv, FlowInv, Retrieving
<1>9. ResultsInv'
  BY <1>1, <1>3, <1>4, <1>5 DEF SearchInv, ResultsInv
<1>10. ResponseInv'
  BY <1>1, <1>5 DEF SearchInv, ResponseInv
<1> QED
  BY <1>6, <1>7, <1>8, <1>9, <1>10 DEF SearchInv

\* The actions of the reranker.
LEMMA RerankActions ==
  ASSUME SearchInv, SkipRerank \/ RerankWithoutModel \/ RerankByModel \/ RerankFails
  PROVE  SearchInv'
<1>1. results \in Seq(Entries(Usable)) /\ Usable \subseteq Chunks
  BY UsableChunks DEF SearchInv, ResultsInv
<1>2. ByFused(results) \in Seq(Entries(Usable)) /\ Len(ByFused(results)) = Len(results)
  BY <1>1, ByFusedSeq
<1>3. FallbackSort(results) \in Seq(Entries(Usable)) /\ Len(FallbackSort(results)) = Len(results)
  BY <1>1, FallbackSortSeq
<1>4. CASE SkipRerank
  BY <1>2, <1>4, OrderedKeeps DEF SkipRerank
<1>5. CASE RerankWithoutModel
  BY <1>3, <1>5, OrderedKeeps DEF RerankWithoutModel
<1>6. CASE RerankByModel
  <2>1. PICK limit : limit = IF request.rerank = "local" THEN Len(results) ELSE Limits.rerankItems
    OBVIOUS
  <2>2. limit \in Nat
    BY <1>1, <2>1, LimitsTyped
  <2>3. ModelSort(results, limit) \in Seq(Entries(Usable)) /\ Len(ModelSort(results, limit)) = Len(results)
    BY <1>1, <2>2, ModelSortSeq
  <2>4. pc = "rank" /\ Ordered(ModelSort(results, limit))
    BY <1>6, <2>1 DEF RerankByModel, ModelAsked
  <2> QED
    BY <2>3, <2>4, OrderedKeeps
<1>7. CASE RerankFails
  BY <1>3, <1>7, OrderedKeeps DEF RerankFails, ModelAsked
<1> QED
  BY <1>4, <1>5, <1>6, <1>7

\* The kinds that an incident question may need.
LEMMA RequiredKinds ==
  ASSUME Intended.name \in IncidentLike
  PROVE  Required(Intended) \in {"logs", "deploy", "incident"}
  BY DEF IncidentLike, Required

\* A response with packed evidence.
LEMMA RespondsKeeps ==
  ASSUME SearchInv, pc = "respond", NEW at \in {"llm", "done"}, NEW mode \in Modes \ {"llm_synthesis"},
         NEW evidence, Responds(at, mode, evidence),
         NEW list \in Seq(Entries(Usable)), NEW maxItems \in Nat \ {0}, NEW maxChars \in Nat, NEW maxTotal \in Nat,
         evidence = PackEvidence(list, maxItems, maxChars, maxTotal),
         EvidenceLimits' = <<EvidenceLimits'[1], maxChars, maxTotal>>,
         EvidenceLimits'[1] \in Nat, maxItems <= EvidenceLimits'[1],
         at = "llm" => mode = "retrieval_only",
         HasText => evidence # <<>>,
         Intended.name \in IncidentLike /\ at = "llm"
           => Required(Intended) \in kinds /\ evidence = AnswerEvidence /\ Answering,
         Intended.name \in IncidentLike /\ mode = "insufficient_evidence" => Required(Intended) \notin kinds
  PROVE  SearchInv'
<1>1. /\ response' = [evidence |-> evidence, mode |-> mode,
                      missing |-> IF Answering THEN AnswerWarnings(AnswerEvidence) ELSE {}]
      /\ pc' = at
      /\ UNCHANGED <<index, request, embedded, fellBack, branch, results, kinds>>
  BY DEF Responds, search, ranking
<1>2. response'.evidence = evidence /\ response'.mode = mode
  BY <1>1
<1>3. Usable \subseteq Chunks
  BY UsableChunks DEF SearchInv
<1>4. /\ evidence \in Seq(Items(Usable, maxChars)) /\ Len(evidence) <= maxItems
      /\ Sum(CharsOf(evidence)) <= maxTotal + 2
      /\ \A m, n \in DOMAIN evidence : Place(evidence[m].chunk) = Place(evidence[n].chunk) => m = n
  BY <1>3, PackEvidenceLimits
<1>5. /\ Exact' = Exact /\ Intended' = Intended /\ AllWait' = AllWait /\ AllDone' = AllDone
      /\ FoundChunks' = FoundChunks /\ Usable' = Usable /\ ~Retrieving' /\ ~Retrieving
  BY <1>1, SameRequest, SameBranches, SameSearch DEF Retrieving
<1>6. IndexInv' /\ BranchesInv'
  BY <1>1, SameIndex, BranchesKept DEF SearchInv
<1>7. RequestInv'
  BY <1>1 DEF SearchInv, RequestInv
<1>8. FlowInv'
  BY <1>1, <1>5 DEF SearchInv, FlowInv
<1>9. ResultsInv'
  BY <1>1, <1>5 DEF SearchInv, ResultsInv
<1>10. PackedInv'
  <2>1. EvidenceLimits'[2] = maxChars /\ EvidenceLimits'[3] = maxTotal
    <3>1. \A a, b, c : <<a, b, c>>[2] = b /\ <<a, b, c>>[3] = c
      OBVIOUS
    <3> QED
      BY <3>1
  <2>2. Len(evidence) <= EvidenceLimits'[1]
    <3>1. Len(evidence) \in Nat
      BY <1>4
    <3> QED
      BY <1>4, <3>1
  <2> QED
    BY <1>2, <1>4, <1>5, <2>1, <2>2 DEF PackedInv, Modes
<1>11. ASSUME Intended.name \in IncidentLike, at = "llm"
       PROVE  Required(Intended) \in kinds /\ (Cites(Required(Intended))' \/ Required(Intended) \in response'.missing)
  <2>1. response'.missing = {"logs", "deploy", "incident"} \ {evidence[n].type : n \in DOMAIN evidence}
    BY <1>1, <1>11 DEF AnswerWarnings
  <2>2. Required(Intended) \in {"logs", "deploy", "incident"}
    BY <1>11, RequiredKinds
  <2>3. Cites(Required(Intended))' <=> \E n \in DOMAIN evidence : evidence[n].type = Required(Intended)
    BY <1>2, <1>5 DEF Cites
  <2> QED
    BY <1>11, <2>1, <2>2, <2>3
<1>12. ASSUME Intended.name \in IncidentLike, mode = "insufficient_evidence"
       PROVE  ~CitesTagged(Required(Intended))'
  <2> SUFFICES ASSUME NEW n \in DOMAIN evidence, Corpus[evidence[n].chunk].source = Required(Intended)
               PROVE  FALSE
    BY <1>2, <1>5 DEF CitesTagged
  <2>1. evidence[n] \in Items(Usable, maxChars)
    BY <1>4
  <2>2. evidence[n].chunk \in Usable
    BY <2>1 DEF Items
  <2>3. Required(Intended) # Nothing
    BY <1>12, RequiredKinds, SourceAssumption
  <2>4. Required(Intended) \in kinds
    BY <2>2, <2>3 DEF Usable
  <2> QED
    BY <1>12, <2>4
<1>13. ResponseInv'
  <2>1. HasText' <=> HasText
    BY <1>5 DEF HasText
  <2>2. pc' \in {"llm", "done"} /\ pc' \notin {"rank", "respond"}
    BY <1>1
  <2>3. Intended.name \in IncidentLike =>
          /\ pc' = "llm" \/ (pc' = "done" /\ response'.mode = "llm_synthesis") =>
               Required(Intended) \in kinds /\ (Cites(Required(Intended))' \/ Required(Intended) \in response'.missing)
          /\ pc' = "done" /\ response'.mode = "insufficient_evidence" => ~CitesTagged(Required(Intended))'
    BY <1>1, <1>2, <1>11, <1>12
  <2>4. pc' = "llm" => response'.mode = "retrieval_only" /\ DOMAIN response' = {"evidence", "mode", "missing"}
    BY <1>1, <1>2
  <2>5. HasText => response'.evidence # <<>>
    BY <1>2
  <2> QED
    BY <1>1, <1>5, <2>1, <2>2, <2>3, <2>4, <2>5 DEF ResponseInv
<1> QED
  BY <1>6, <1>7, <1>8, <1>9, <1>10, <1>13 DEF SearchInv

\* The actions that respond, each with the limits of its evidence.
LEMMA ResponseActions ==
  ASSUME SearchInv,
         RespondSearch \/ AnswerInsufficient \/ AnswerDirect \/ AnswerWithEvidence \/ AskLlm
  PROVE  SearchInv'
<1>1. results \in Seq(Entries(Usable)) /\ Usable \subseteq FoundChunks /\ Usable \subseteq Chunks
  BY UsableChunks DEF SearchInv, ResultsInv
<1>2. request.topK \in Nat \ {0}
  BY BoundsTyped DEF SearchInv, RequestInv
<1>3. pc = "respond"
  BY DEF RespondSearch, AnswerInsufficient, AnswerDirect, AnswerWithEvidence, AskLlm, Synthesizing
<1>4. HasText => results # <<>> /\ \A c \in Usable : Corpus[c].chars > 0
  BY <1>1, <1>3 DEF SearchInv, ResultsInv, HasText
<1>5. ASSUME NEW at, NEW mode, NEW evidence, Responds(at, mode, evidence)
      PROVE  response'.mode = mode /\ (Answering' <=> Answering) /\ request' = request
  BY <1>5, SameRequest DEF Responds
<1>6. ASSUME NEW limit \in Nat \ {0}, NEW k \in Nat \ {0}
      PROVE  AtMost(k, limit) \in Nat \ {0} /\ AtMost(k, limit) <= k
  BY DEF AtMost
<1>7. CASE RespondSearch
  <2>1. PICK items \in Nat \ {0} : items = AtMost(request.topK, Limits.searchItems) /\ items <= request.topK
    BY <1>2, <1>6, LimitsTyped
  <2>2. PICK chars \in Nat \ {0, 1} : chars = Limits.searchChars
    BY LimitsTyped
  <2>3. PICK total \in Nat \ {0, 1} : total = Limits.searchTotal
    BY LimitsTyped
  <2>4. SearchEvidence = PackEvidence(results, items, chars, total)
    BY <2>1, <2>2, <2>3 DEF SearchEvidence
  <2>5. HasText => SearchEvidence # <<>>
    BY <1>1, <1>4, <2>4, PackEvidenceFinds
  <2>6. ~Answering /\ Responds("done", "retrieval_only", SearchEvidence)
    BY <1>7 DEF RespondSearch
  <2>7. EvidenceLimits' = <<request.topK, chars, total>>
    BY <1>5, <2>2, <2>3, <2>6 DEF EvidenceLimits
  <2>8. EvidenceLimits'[1] = request.topK
    BY <2>7
  <2> QED
    BY <1>1, <1>2, <1>3, <2>1, <2>4, <2>5, <2>6, <2>7, <2>8, RespondsKeeps DEF Modes
<1>8. ASSUME NEW at \in {"llm", "done"}, NEW mode \in {"retrieval_only", "insufficient_evidence"},
             at = "llm" => mode = "retrieval_only", Answering, Responds(at, mode, AnswerEvidence),
             Intended.name \in IncidentLike =>
               (IF mode = "insufficient_evidence" THEN Required(Intended) \notin kinds
                ELSE Required(Intended) \in kinds)
      PROVE  SearchInv'
  <2>1. PICK items \in Nat \ {0} : items = AtMost(request.topK, Limits.answerItems) /\ items <= request.topK
    BY <1>2, <1>6, LimitsTyped
  <2>2. PICK chars \in Nat \ {0, 1} : chars = Limits.answerChars
    BY LimitsTyped
  <2>3. PICK total \in Nat \ {0, 1} : total = Limits.answerTotal
    BY LimitsTyped
  <2>4. AnswerEvidence = PackEvidence(results, items, chars, total)
    BY <2>1, <2>2, <2>3 DEF AnswerEvidence
  <2>5. HasText => AnswerEvidence # <<>>
    BY <1>1, <1>4, <2>4, PackEvidenceFinds
  <2>6. EvidenceLimits' = <<request.topK, chars, total>>
    BY <1>5, <1>8, <2>2, <2>3 DEF EvidenceLimits
  <2>7. EvidenceLimits'[1] = request.topK
    BY <2>6
  <2>8. mode \in Modes \ {"llm_synthesis"}
    BY DEF Modes
  <2>9. at = "llm" => mode # "insufficient_evidence"
    BY <1>8
  <2> QED
    BY <1>1, <1>2, <1>3, <1>8, <2>1, <2>4, <2>5, <2>6, <2>7, <2>8, <2>9, RespondsKeeps
<1>9. Intended.name \in IncidentLike => (Unanswerable <=> Required(Intended) \notin kinds)
  BY DEF Unanswerable, Supported, IncidentLike
<1>10. CASE AnswerInsufficient
  BY <1>8, <1>9, <1>10 DEF AnswerInsufficient
<1>11. CASE AnswerDirect
  <2>1. Answering /\ DirectEvidence # <<>> /\ Responds("done", "direct_evidence", DirectEvidence)
    BY <1>11 DEF AnswerDirect
  <2>2. PICK items \in Nat \ {0} : items = AtMost(2, Limits.answerItems) /\ items <= 2
    <3>1. 2 \in Nat \ {0} /\ Limits.answerItems \in Nat \ {0}
      BY LimitsTyped
    <3> QED
      BY <1>6, <3>1
  <2>3. PICK chars \in Nat \ {0, 1} : chars = Limits.directChars
    BY LimitsTyped
  <2>4. PICK total \in Nat \ {0, 1} : total = Limits.directTotal
    BY LimitsTyped
  <2>5. PICK places : places = {n \in DOMAIN results : IsDirectLookupCandidate(Corpus[results[n].chunk])}
    OBVIOUS
  <2>6. places \in SUBSET (1 .. Len(results))
    BY <1>1, <2>5
  <2>7. PICK list \in Seq(Entries(Usable)) : list = Keep(results, places)
    BY <1>1, <2>6, KeepSeq
  <2>8. DirectEvidence = PackEvidence(list, items, chars, total)
    BY <2>1, <2>2, <2>3, <2>4, <2>5, <2>7 DEF DirectEvidence
  <2>9. EvidenceLimits' = <<2, chars, total>>
    BY <1>5, <2>1, <2>3, <2>4 DEF EvidenceLimits
  <2>10. EvidenceLimits'[1] = 2
    BY <2>9
  <2> QED
    BY <1>3, <2>1, <2>2, <2>8, <2>9, <2>10, RespondsKeeps DEF Modes
<1>12. CASE AnswerWithEvidence
  BY <1>8, <1>9, <1>12 DEF AnswerWithEvidence, Synthesizing
<1>13. CASE AskLlm
  BY <1>8, <1>9, <1>13 DEF AskLlm, Synthesizing
<1> QED
  BY <1>7, <1>10, <1>11, <1>12, <1>13

\* The answer of the language model, or its failure, keeps the evidence.
LEMMA LlmActions ==
  ASSUME SearchInv, LlmAnswers \/ LlmFails
  PROVE  SearchInv'
<1>1. /\ pc = "llm" /\ pc' = "done"
      /\ UNCHANGED <<index, request, embedded, fellBack, branch, results, kinds>>
  BY DEF LlmAnswers, LlmFails, search, ranking
<1>2. response.mode = "retrieval_only" /\ DOMAIN response = {"evidence", "mode", "missing"}
  BY <1>1 DEF SearchInv, ResponseInv
<1>3. /\ response'.evidence = response.evidence /\ response'.missing = response.missing
      /\ response'.mode \in {"retrieval_only", "llm_synthesis"}
  BY <1>2 DEF LlmAnswers, LlmFails
<1>4. /\ Exact' = Exact /\ Intended' = Intended /\ AllWait' = AllWait /\ AllDone' = AllDone
      /\ FoundChunks' = FoundChunks /\ Usable' = Usable /\ ~Retrieving' /\ ~Retrieving
  BY <1>1, SameRequest, SameBranches, SameSearch DEF Retrieving
<1>5. IndexInv' /\ BranchesInv'
  BY <1>1, SameIndex, BranchesKept DEF SearchInv
<1>6. RequestInv'
  BY <1>1 DEF SearchInv, RequestInv
<1>7. FlowInv'
  BY <1>1, <1>4 DEF SearchInv, FlowInv
<1>8. ResultsInv'
  BY <1>1, <1>4 DEF SearchInv, ResultsInv
<1>9. PackedInv'
  <2>1. EvidenceLimits' = EvidenceLimits
    BY <1>1, <1>2, <1>3, SameRequest DEF EvidenceLimits
  <2> QED
    BY <1>3, <1>4, <2>1 DEF SearchInv, PackedInv, Modes
<1>10. ResponseInv'
  <2>1. HasText' <=> HasText
    BY <1>4 DEF HasText
  <2>2. Cites(Required(Intended))' <=> Cites(Required(Intended))
    BY <1>3, <1>4 DEF Cites
  <2> QED
    BY <1>1, <1>2, <1>3, <1>4, <2>1, <2>2 DEF SearchInv, ResponseInv
<1> QED
  BY <1>5, <1>6, <1>7, <1>8, <1>9, <1>10 DEF SearchInv

\* What fails: the embedding of the query, or the answer of a model.
LEMMA FailingActions ==
  ASSUME SearchInv, EmbedFails \/ RerankMalformed \/ LlmMalformed
  PROVE  SearchInv'
<1>1. pc \in {"embed", "rank", "llm"} /\ pc' = "failed" /\ UNCHANGED <<index, request, search, ranking, response>>
  BY DEF EmbedFails, RerankMalformed, LlmMalformed, ModelAsked
<1>2. AllWait \/ AllDone
  BY <1>1 DEF SearchInv, FlowInv
<1>3. branch["vector"].at # "hits"
  <2>1. "vector" \in Branches
    BY DEF Branches
  <2>2. CASE pc = "embed"
    <3>1. branch["vector"].at = "wait"
      BY <2>1, <2>2 DEF SearchInv, FlowInv, AllWait
    <3> QED
      BY <3>1
  <2>3. CASE pc # "embed"
    BY <1>1, <2>3 DEF SearchInv, FlowInv, Retrieving
  <2> QED
    BY <2>2, <2>3
<1> QED
  BY <1>1, <1>2, <1>3, FailureKeeps

\* The invariant holds when a request arrives.
LEMMA InitSearchInv ==
  ASSUME Init
  PROVE  SearchInv
<1>1. \A b \in Branches : branch[b] = [at |-> "wait", found |-> <<>>]
  BY DEF Init
<1>2. request \in Requests /\ response = NoResponse /\ results = <<>> /\ Retrieving
  BY DEF Init, Retrieving
<1>3. IndexInv
  <2>1. version \in [Docs -> Versions]
    BY DEF Init, Versions
  <2>2. changes \in 0 .. MaxChanges
    BY LimitsAssumption DEF Init
  <2> QED
    BY <2>1, <2>2, LiveChunks DEF Init, IndexInv
<1>4. RequestInv
  BY DEF Init, RequestInv
<1>5. BranchesInv
  <2>1. branch \in [Branches -> [at : {"wait", "hits", "done"}, found : Seq(Chunks)]]
    <3>1. [at |-> "wait", found |-> <<>>] \in [at : {"wait", "hits", "done"}, found : Seq(Chunks)]
      OBVIOUS
    <3> QED
      BY <3>1 DEF Init
  <2>2. FetchK \in Nat
    BY <1>2, BoundsTyped
  <2>3. ASSUME NEW b \in Branches
        PROVE  /\ branch[b].at = "wait" /\ branch[b].found = <<>>
               /\ Len(branch[b].found) <= FetchK /\ FoundBy(b) = {}
    BY <1>1, <2>2 DEF FoundBy
  <2> QED
    BY <2>1, <2>3 DEF BranchesInv
<1>6. FlowInv
  <2>1. AllWait
    BY <1>1 DEF AllWait
  <2>2. branch["vector"].at = "wait"
    BY <1>1 DEF Branches
  <2> QED
    BY <2>1, <2>2 DEF Init, FlowInv, Retrieving
<1>7. ResultsInv
  <2>1. <<>> \in Seq(Entries(Usable))
    OBVIOUS
  <2> QED
    BY <1>2, <2>1 DEF ResultsInv, Retrieving
<1>8. PackedInv
  BY <1>2, NothingResponded
<1>9. ResponseInv
  BY <1>2 DEF ResponseInv, Retrieving
<1> QED
  BY <1>3, <1>4, <1>5, <1>6, <1>7, <1>8, <1>9 DEF SearchInv

\* Every step keeps the invariant.
LEMMA NextSearchInv ==
  ASSUME SearchInv, [Next]_vars
  PROVE  SearchInv'
<1>1. ASSUME NEW doc \in Changing, DeletePoints(doc) PROVE SearchInv'
  BY <1>1, IndexActions
<1>2. ASSUME NEW doc \in Changing, NEW v \in Versions \ {0}, UpsertPoints(doc, v) PROVE SearchInv'
  <2>1. v \in Versions
    OBVIOUS
  <2> QED
    BY <1>2, <2>1, IndexActions
<1>3. ASSUME NEW doc \in Changing, NEW v \in Versions, Commit(doc, v) PROVE SearchInv'
  BY <1>3, IndexActions
<1>4. CASE Embed \/ FallBack \/ EmbedFallback
  BY <1>4, PreparingKeeps
<1>5. CASE \/ SearchPoints \/ LoadChunks \/ SearchText \/ SearchMetadata \/ SearchGraph
           \/ \E b \in Branches : BranchFails(b)
  BY <1>5, BranchActions
<1>6. CASE Fuse
  BY <1>6, FuseKeeps
<1>7. CASE SkipRerank \/ RerankWithoutModel \/ RerankByModel \/ RerankFails
  BY <1>7, RerankActions
<1>8. CASE RespondSearch \/ AnswerInsufficient \/ AnswerDirect \/ AnswerWithEvidence \/ AskLlm
  BY <1>8, ResponseActions
<1>9. CASE LlmAnswers \/ LlmFails
  BY <1>9, LlmActions
<1>10. CASE EmbedFails \/ RerankMalformed \/ LlmMalformed
  BY <1>10, FailingActions
<1>11. CASE UNCHANGED vars
  <2>1. UNCHANGED <<request, pc, search, ranking, response>> /\ UNCHANGED index
    BY <1>11 DEF vars, search, ranking, index
  <2>2. IndexInv' /\ lived \subseteq lived'
    BY <2>1, SameIndex DEF SearchInv
  <2> QED
    BY <2>1, <2>2, IndexKeeps
<1> QED
  BY <1>1, <1>2, <1>3, <1>4, <1>5, <1>6, <1>7, <1>8, <1>9, <1>10, <1>11 DEF Next

-----------------------------------------------------------------------------
(* What a request keeps to, for every corpus, every request and every limit *)

\* The invariant of a request holds in every state of hybrid_search and of the
\* routes that use it.
THEOREM SearchInvariant == Spec => []SearchInv
<1>1. Init => SearchInv
  BY InitSearchInv
<1>2. SearchInv /\ [Next]_vars => SearchInv'
  BY NextSearchInv
<1> QED
  BY <1>1, <1>2, PTL DEF Spec

\* Every branch returns chunks of the corpus and no more than _fetch_budget asks
\* for, and the phases and modes are those of the code.
THEOREM TypeCorrect == Spec => []TypeOK
<1>1. SearchInv => TypeOK
  <2> SUFFICES ASSUME SearchInv PROVE TypeOK
    OBVIOUS
  <2>1. ASSUME NEW b \in Branches
        PROVE  /\ branch[b].at \in {"wait", "hits", "done"}
               /\ ToSet(branch[b].found) \subseteq Chunks
               /\ Len(branch[b].found) <= FetchBudget(AtLeast(request.topK * 3, MinFetch), Intended)
    BY DEF SearchInv, BranchesInv, ToSet, FetchK, TopK
  <2>2. ASSUME NEW n \in DOMAIN results PROVE results[n].chunk \in Chunks
    <3>1. results \in Seq(Entries(Usable)) /\ Usable \subseteq Chunks
      BY UsableChunks DEF SearchInv, ResultsInv
    <3>2. results[n] \in Entries(Usable)
      BY <3>1
    <3> QED
      BY <3>1, <3>2 DEF Entries
  <2> QED
    BY <2>1, <2>2 DEF SearchInv, IndexInv, RequestInv, PackedInv, Modes, TypeOK
<1> QED
  BY <1>1, SearchInvariant, PTL

\* Evidence is a chunk that the database held at some time of the request, and
\* passes the filters unless the graph branch found it: load_chunks_by_ids never
\* lets through a point that is left over in Qdrant, and hybrid_search, the
\* reranker and pack_evidence add nothing.
THEOREM OnlyCurrentEvidence == Spec => []EvidenceIsCurrent
<1>1. SearchInv => EvidenceIsCurrent
  <2> SUFFICES ASSUME SearchInv, NEW item \in Evidence
               PROVE  /\ item.chunk \in lived
                      /\ Passes(item.chunk, request.filters) \/ Contains(branch["graph"].found, item.chunk)
    BY DEF EvidenceIsCurrent
  <2>1. response.evidence \in Seq(Items(Usable, EvidenceLimits[2]))
    BY DEF SearchInv, PackedInv
  <2>2. PICK n \in DOMAIN response.evidence : item = response.evidence[n]
    BY DEF Evidence, ToSet
  <2>3. item \in Items(Usable, EvidenceLimits[2])
    BY <2>1, <2>2
  <2>4. item.chunk \in Usable
    BY <2>3 DEF Items
  <2>5. PICK b \in Branches : item.chunk \in FoundBy(b)
    BY <2>4 DEF Usable, FoundChunks
  <2>6. ~Retrieving
    <3>1. response # NoResponse
      BY <2>2 DEF NoResponse
    <3> QED
      BY <3>1 DEF SearchInv, ResponseInv
  <2>7. branch[b].at = "done"
    <3>1. branch[b].at \in {"wait", "hits", "done"}
      BY DEF SearchInv, BranchesInv
    <3>2. branch[b].at # "hits"
      BY <2>6 DEF SearchInv, BranchesInv, FlowInv
    <3>3. branch[b].at # "wait"
      <4>1. branch[b].found # <<>>
        BY <2>5 DEF FoundBy
      <4> QED
        BY <4>1 DEF SearchInv, BranchesInv
    <3> QED
      BY <3>1, <3>2, <3>3
  <2>8. item.chunk \in lived
    BY <2>5, <2>7 DEF SearchInv, BranchesInv
  <2>9. CASE b = "graph"
    <3>1. branch["graph"].found \in Seq(Chunks)
      BY <2>9 DEF SearchInv, BranchesInv
    <3>2. Contains(branch["graph"].found, item.chunk)
      BY <2>5, <2>9, <3>1 DEF FoundBy, Contains
    <3> QED
      BY <2>8, <3>2
  <2>10. CASE b # "graph"
    BY <2>5, <2>8, <2>10 DEF SearchInv, BranchesInv
  <2> QED
    BY <2>9, <2>10
<1> QED
  BY <1>1, SearchInvariant, PTL

\* pack_evidence keeps to the limits of its route, whatever was found: the number
\* of texts, the length of each and of all, and one text for each place.
THEOREM EvidenceWithinLimits == Spec => []EvidencePacked
<1>1. SearchInv => EvidencePacked
  <2> SUFFICES ASSUME SearchInv PROVE EvidencePacked
    OBVIOUS
  <2>1. PackedInv
    BY DEF SearchInv
  <2>2. Total(response.evidence) = Sum(CharsOf(response.evidence))
    BY DEF Total, CharsOf
  <2>3. ASSUME NEW item \in Evidence PROVE item.chars \in 1 .. EvidenceLimits[2] + 3
    <3>1. PICK n \in DOMAIN response.evidence : item = response.evidence[n]
      BY <2>3 DEF Evidence, ToSet
    <3>2. item \in Items(Usable, EvidenceLimits[2])
      BY <2>1, <3>1 DEF PackedInv
    <3> QED
      BY <3>2 DEF Items
  <2> QED
    BY <2>1, <2>2, <2>3 DEF PackedInv, EvidencePacked
<1> QED
  BY <1>1, SearchInvariant, PTL

\* The model synthesizes an answer to an incident question only when the kind of
\* evidence it needs was retrieved, with a warning when the packing left it out;
\* an answer of insufficient evidence cites no chunk that was indexed as that kind.
THEOREM SynthesisSupported == Spec => []AnswerSupported
<1>1. SearchInv => AnswerSupported
  <2> SUFFICES ASSUME SearchInv, pc = "done", Intended.name \in IncidentLike
               PROVE  LET needed == Required(Intended)
                          cited == \E item \in Evidence : item.type = needed
                      IN /\ response.mode = "llm_synthesis" => needed \in kinds /\ (cited \/ needed \in response.missing)
                         /\ response.mode = "insufficient_evidence"
                              => \A item \in Evidence : Corpus[item.chunk].source # needed
    BY DEF AnswerSupported
  <2>1. Cites(Required(Intended)) <=> \E item \in Evidence : item.type = Required(Intended)
    BY DEF Cites, Evidence, ToSet
  <2>2. CitesTagged(Required(Intended))
          <=> \E item \in Evidence : Corpus[item.chunk].source = Required(Intended)
    BY DEF CitesTagged, Evidence, ToSet
  <2> QED
    BY <2>1, <2>2 DEF SearchInv, ResponseInv
<1> QED
  BY <1>1, SearchInvariant, PTL

\* A request fails before any branch has run or after all of them, never because
\* of one; and it returns evidence whenever some branch has found a chunk, if all
\* that is found has a text.
THEOREM NoBranchIsNeeded == Spec => []OneBranchSuffices
<1>1. SearchInv => OneBranchSuffices
  <2> SUFFICES ASSUME SearchInv PROVE OneBranchSuffices
    OBVIOUS
  <2>1. pc = "failed" => AllWait \/ AllDone
    BY DEF SearchInv, FlowInv
  <2>2. ASSUME pc = "done", NEW b \in Branches, branch[b].found # <<>>,
               \A a \in Branches : \A n \in DOMAIN branch[a].found : Corpus[branch[a].found[n]].chars > 0
        PROVE  response.evidence # <<>>
    <3>1. branch[b].found \in Seq(Chunks)
      BY DEF SearchInv, BranchesInv
    <3>2. 1 \in DOMAIN branch[b].found
      BY <2>2, <3>1
    <3>3. FoundChunks # {}
      <4>1. branch[b].found[1] \in FoundBy(b)
        BY <3>2 DEF FoundBy
      <4> QED
        BY <4>1 DEF FoundChunks
    <3>4. \A c \in FoundChunks : Corpus[c].chars > 0
      BY <2>2 DEF FoundChunks, FoundBy
    <3> QED
      BY <2>2, <3>3, <3>4 DEF SearchInv, ResponseInv, HasText
  <2> QED
    BY <2>1, <2>2 DEF OneBranchSuffices, AllWait, AllDone
<1> QED
  BY <1>1, SearchInvariant, PTL
=============================================================================
