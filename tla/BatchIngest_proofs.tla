------------------------- MODULE BatchIngest_proofs -------------------------
(***************************************************************************)
(* Proofs about BatchIngest and the cutting of texts in Chunking, for      *)
(* batches of any length and any token settings, and about the parsers:    *)
(* which of them keep every line of every document.                        *)
(***************************************************************************)
EXTENDS BatchIngest, FiniteSetTheorems, TLAPS

-----------------------------------------------------------------------------
(* Arithmetic                                                               *)

\* Induction on the natural numbers, for a set.
LEMMA NatInductive ==
  ASSUME NEW T, 0 \in T, \A n \in Nat : n \in T => n + 1 \in T
  PROVE  \A n \in Nat : n \in T
<1> DEFINE Rest == Nat \ T
<1> SUFFICES ASSUME Rest # {} PROVE FALSE
  OBVIOUS
<1>1. \E x \in Rest : \A y \in Rest : ~(<<y, x>> \in OpToRel(<, Nat))
  BY NatLessThanWellFounded, WFMin
<1>2. PICK x \in Rest : \A y \in Rest : ~(y < x)
  BY <1>1 DEF OpToRel
<1>3. x - 1 \in Nat /\ x - 1 \notin Rest
  BY <1>2
<1> QED
  BY <1>3

\* A set of numbers has a least member, and a greatest one when it is bounded.
LEMMA LeastExists ==
  ASSUME NEW S \in SUBSET Nat, S # {}
  PROVE  \E x \in S : \A y \in S : x <= y
<1>1. \E x \in S : \A y \in S : ~(<<y, x>> \in OpToRel(<, Nat))
  BY NatLessThanWellFounded, WFMin
<1>2. PICK x \in S : \A y \in S : ~(y < x)
  BY <1>1 DEF OpToRel
<1> QED
  BY <1>2

LEMMA GreatestExists ==
  ASSUME NEW n \in Nat, NEW S \in SUBSET (0 .. n), S # {}
  PROVE  \E x \in S : \A y \in S : y <= x
<1> DEFINE D == {n - x : x \in S}
<1>1. D \in SUBSET Nat /\ D # {}
  OBVIOUS
<1> HIDE DEF D
<1>2. PICK d \in D : \A e \in D : d <= e
  BY <1>1, LeastExists
<1>3. PICK x \in S : d = n - x
  BY DEF D
<1>4. ASSUME NEW y \in S PROVE y <= x
  <2>1. n - y \in D
    BY DEF D
  <2>2. n - x <= n - y
    BY <1>2, <1>3, <2>1
  <2> QED
    BY <2>2
<1> QED
  BY <1>4

\* The only multiple of d below d is 0.
LEMMA SmallMultiple ==
  ASSUME NEW x \in Int, NEW d \in Nat \ {0}, d * x >= 0, d * x < d
  PROVE  x = 0
<1>1. CASE x >= 1
  <2>1. PICK y \in Nat : x = y + 1
    BY <1>1
  <2>2. d * x = d * y + d
    BY <2>1
  <2>3. d * y >= 0
    OBVIOUS
  <2> QED
    BY <2>2, <2>3
<1>2. CASE x <= -1
  <2>1. PICK y \in Nat : x = -1 - y
    BY <1>2
  <2>2. d * x = -d - d * y
    BY <2>1
  <2>3. d * y >= 0
    OBVIOUS
  <2> QED
    BY <2>2, <2>3
<1> QED
  BY <1>1, <1>2

\* Division is exact up to the remainder.
LEMMA Division ==
  ASSUME NEW w \in Nat, NEW d \in Nat \ {0}
  PROVE  /\ w = d * (w \div d) + (w % d)
         /\ w % d \in 0 .. d - 1 /\ w \div d \in Nat /\ d * (w \div d) \in Nat
OBVIOUS

\* Every number has a multiple of d within d below it.
LEMMA MultipleBelow ==
  ASSUME NEW w \in Nat, NEW d \in Nat \ {0}
  PROVE  \E s \in 0 .. w : s % d = 0 /\ w < s + d
<1> DEFINE q == w \div d
           s == d * q
           r == s % d
           p == s \div d
<1>1. s \in Nat /\ q \in Nat /\ s <= w /\ w < s + d
  BY Division
<1> HIDE DEF q, s
<1>2. s = d * p + r /\ r \in 0 .. d - 1 /\ p \in Nat
  BY <1>1, Division
<1> HIDE DEF r, p
<1>3. d * (q - p) = r
  BY <1>1, <1>2 DEF s
<1>4. q - p = 0
  BY <1>1, <1>2, <1>3, SmallMultiple
<1>5. r = 0
  BY <1>3, <1>4
<1> QED
  BY <1>1, <1>5 DEF r


-----------------------------------------------------------------------------
(* Lists of lines                                                           *)

\* The members of S below m.
Below(S, m) == {n \in S : n < m}

\* f lists the members of S, each of them once and the least first.
ListsUp(f, S) ==
  /\ Cardinality(S) \in Nat
  /\ f \in [1 .. Cardinality(S) -> S]
  /\ \A p, q \in 1 .. Cardinality(S) : p < q => f[p] < f[q]
  /\ \A m \in S : \E p \in 1 .. Cardinality(S) : f[p] = m

\* The more members are below a number, the greater it is.
LEMMA BelowCounts ==
  ASSUME NEW S, IsFiniteSet(S), S \subseteq Int
  PROVE  /\ \A m \in S : Cardinality(Below(S, m)) \in 0 .. Cardinality(S) - 1
         /\ \A m, n \in S : m < n => Cardinality(Below(S, m)) < Cardinality(Below(S, n))
<1>1. ASSUME NEW m \in S
      PROVE  /\ IsFiniteSet(Below(S, m))
             /\ Cardinality(Below(S, m)) \in 0 .. Cardinality(S) - 1
  <2>1. Below(S, m) \in SUBSET S /\ m \notin Below(S, m)
    BY DEF Below
  <2>2. /\ IsFiniteSet(Below(S, m))
        /\ Cardinality(Below(S, m)) <= Cardinality(S)
        /\ Cardinality(S) # Cardinality(Below(S, m))
    BY <2>1, FS_Subset
  <2>3. Cardinality(Below(S, m)) \in Nat /\ Cardinality(S) \in Nat
    BY <2>2, FS_CardinalityType
  <2> QED
    BY <2>1, <2>2, <2>3
<1>2. ASSUME NEW m \in S, NEW n \in S, m < n
      PROVE  Cardinality(Below(S, m)) < Cardinality(Below(S, n))
  <2>0. m \in Int /\ n \in Int /\ S \subseteq Int
    OBVIOUS
  <2>a. ASSUME NEW x \in Below(S, m) PROVE x \in Below(S, n)
    BY <1>2, <2>0 DEF Below
  <2>b. m \in Below(S, n) /\ m \notin Below(S, m)
    BY <1>2, <2>0 DEF Below
  <2>1. Below(S, m) \in SUBSET Below(S, n) /\ m \in Below(S, n) /\ m \notin Below(S, m)
    BY <2>a, <2>b
  <2>2. /\ Cardinality(Below(S, m)) <= Cardinality(Below(S, n))
        /\ Cardinality(Below(S, m)) # Cardinality(Below(S, n))
    BY <2>1, <1>1, FS_Subset
  <2>3. Cardinality(Below(S, m)) \in Nat /\ Cardinality(Below(S, n)) \in Nat
    BY <1>1, FS_CardinalityType
  <2> QED
    BY <2>2, <2>3
<1> QED
  BY <1>1, <1>2

\* Ascending lists the set.
LEMMA AscendingLists ==
  ASSUME NEW S, IsFiniteSet(S), S \subseteq Int
  PROVE  ListsUp(Ascending(S), S)
<1> DEFINE N == Cardinality(S)
           place == [m \in S |-> Cardinality(Below(S, m)) + 1]
<1>1. N \in Nat
  BY FS_CardinalityType
<1>0. ASSUME NEW m \in S PROVE Cardinality(Below(S, m)) \in 0 .. N - 1
  BY BelowCounts
<1>2. place \in [S -> 1 .. N]
  BY <1>0, <1>1
<1>3. \A m, n \in S : m < n => place[m] < place[n]
  <2> SUFFICES ASSUME NEW m \in S, NEW n \in S, m < n PROVE place[m] < place[n]
    OBVIOUS
  <2>1. Cardinality(Below(S, m)) \in Int /\ Cardinality(Below(S, n)) \in Int
    BY <1>0, <1>1
  <2>2. Cardinality(Below(S, m)) < Cardinality(Below(S, n))
    BY BelowCounts
  <2> QED
    BY <2>1, <2>2
<1>a. \A m, n \in S : place[m] = place[n] => m = n
  <2> SUFFICES ASSUME NEW m \in S, NEW n \in S, place[m] = place[n] PROVE m = n
    OBVIOUS
  <2>1. place[m] \in Int /\ place[n] \in Int /\ m \in Int /\ n \in Int
    BY <1>2
  <2> HIDE DEF place
  <2> QED
    BY <2>1, <1>3
<1>4. IsFiniteSet(1 .. N) /\ Cardinality(1 .. N) = N
  BY <1>1, FS_Interval
<1>5. \A p \in 1 .. N : \E m \in S : place[m] = p
  <2> HIDE DEF place
  <2>1. place \in Injection(S, 1 .. N)
    BY <1>2, <1>a DEF Injection, IsInjective
  <2>2. place \in Surjection(S, 1 .. N)
    BY <2>1, <1>4, FS_Injection
  <2> QED
    BY <2>2 DEF Surjection
<1>6. ASSUME NEW p \in 1 .. N
      PROVE  Ascending(S)[p] \in S /\ place[Ascending(S)[p]] = p
  <2>1. PICK m \in S : place[m] = p
    BY <1>5
  <2>2. Cardinality(Below(S, m)) = p - 1
    BY <2>1, <1>0, <1>1
  <2>3. Ascending(S)[p] = CHOOSE x \in S : Cardinality(Below(S, x)) = p - 1
    BY DEF Ascending, Below
  <2>4. /\ Ascending(S)[p] \in S
        /\ Cardinality(Below(S, Ascending(S)[p])) = p - 1
    BY <2>2, <2>3
  <2> QED
    BY <2>4
<1>7. Ascending(S) = [p \in 1 .. N |-> Ascending(S)[p]]
  <2> DEFINE Nth(p) == CHOOSE n \in S : Cardinality({m \in S : m < n}) = p - 1
  <2>1. Ascending(S) = [p \in 1 .. N |-> Nth(p)]
    BY DEF Ascending
  <2> HIDE DEF Nth
  <2> QED
    BY <2>1
<1> HIDE DEF place
<1>8. Ascending(S) \in [1 .. N -> S]
  BY <1>6, <1>7
<1>9. ASSUME NEW m \in S PROVE \E p \in 1 .. N : Ascending(S)[p] = m
  <2>1. place[m] \in 1 .. N
    BY <1>2
  <2> QED
    BY <2>1, <1>6, <1>a
<1>10. ASSUME NEW p \in 1 .. N, NEW q \in 1 .. N, p < q
       PROVE  Ascending(S)[p] < Ascending(S)[q]
  <2>1. PICK m \in S : m = Ascending(S)[p] /\ place[m] = p
    BY <1>6
  <2>2. PICK n \in S : n = Ascending(S)[q] /\ place[n] = q
    BY <1>6
  <2>3. m # n /\ ~(n < m)
    BY <1>1, <1>3, <1>10, <2>1, <2>2
  <2> QED
    BY <2>1, <2>2, <2>3
<1> QED
  BY <1>1, <1>8, <1>9, <1>10 DEF ListsUp

\* For a set of lines: the list is a sequence.
LEMMA AscendingLines ==
  ASSUME NEW n \in Nat, NEW S \in SUBSET (0 .. n)
  PROVE  /\ Ascending(S) \in Seq(S) /\ Len(Ascending(S)) \in Nat
         /\ DOMAIN Ascending(S) = 1 .. Len(Ascending(S))
         /\ \A p \in 1 .. Len(Ascending(S)) : Ascending(S)[p] \in S
         /\ \A p, q \in 1 .. Len(Ascending(S)) : p < q => Ascending(S)[p] < Ascending(S)[q]
         /\ \A m \in S : \E p \in 1 .. Len(Ascending(S)) : Ascending(S)[p] = m
<1>1. IsFiniteSet(0 .. n)
  BY FS_Interval
<1>2. IsFiniteSet(S) /\ S \subseteq Int
  <2>1. IsFiniteSet(S)
    BY <1>1, FS_Subset
  <2> QED
    BY <2>1
<1>3. ListsUp(Ascending(S), S)
  BY <1>2, AscendingLists
<1>4. PICK N \in Nat : N = Cardinality(S)
  BY <1>3 DEF ListsUp
<1>5. /\ Ascending(S) \in [1 .. N -> S]
      /\ \A p, q \in 1 .. N : p < q => Ascending(S)[p] < Ascending(S)[q]
      /\ \A m \in S : \E p \in 1 .. N : Ascending(S)[p] = m
  BY <1>3, <1>4 DEF ListsUp
<1>6. Ascending(S) \in Seq(S) /\ Len(Ascending(S)) = N /\ DOMAIN Ascending(S) = 1 .. N
  BY <1>5
<1>7. \A p \in 1 .. N : Ascending(S)[p] \in S
  BY <1>5
<1> QED
  BY <1>5, <1>6, <1>7

-----------------------------------------------------------------------------
(* Raw chunks                                                               *)

Line == [kind : LineKinds, words : Nat]

\* The lines of a document.
Text(lines) ==
  /\ lines \in Seq(Line)
  /\ \A i \in 1 .. Len(lines) : lines[i].kind = "blank" <=> lines[i].words = 0

\* The recursive function in the definition of WordsIn
PartialWords(lines, from, to) ==
  LET sum[n \in 0 .. to - from + 1] == IF n = 0 THEN 0 ELSE sum[n - 1] + lines[from + n - 1].words
  IN sum

\* F obeys that recursion up to k.
CountsUp(F, lines, from, k) ==
  F = [n \in 0 .. k |-> IF n = 0 THEN 0 ELSE F[n - 1] + lines[from + n - 1].words]

\* The recursion has a solution.
LEMMA CountsDefined ==
  ASSUME NEW lines, NEW from, NEW to, to - from + 1 \in Nat
  PROVE  CountsUp(PartialWords(lines, from, to), lines, from, to - from + 1)
<1> DEFINE Solved == {k \in Nat : \E F : CountsUp(F, lines, from, k)}
<1>1. 0 \in Solved
  <2> DEFINE F == [n \in 0 .. 0 |-> 0]
  <2>1. CountsUp(F, lines, from, 0)
    BY DEF CountsUp
  <2> QED
    BY <2>1
<1>2. ASSUME NEW k \in Nat, k \in Solved PROVE k + 1 \in Solved
  <2>1. PICK F : CountsUp(F, lines, from, k)
    BY <1>2
  <2> DEFINE Words(n) == lines[from + n - 1].words
             G == [n \in 0 .. k + 1 |-> IF n = k + 1 THEN F[k] + Words(k + 1) ELSE F[n]]
  <2>0. F = [n \in 0 .. k |-> IF n = 0 THEN 0 ELSE F[n - 1] + Words(n)]
    BY <2>1 DEF CountsUp
  <2> HIDE DEF Words
  <2>2. ASSUME NEW n \in 0 .. k + 1
        PROVE  G[n] = IF n = 0 THEN 0 ELSE G[n - 1] + Words(n)
    <3>1. CASE n = k + 1
      BY <3>1
    <3>2. CASE n # k + 1
      <4>1. n \in 0 .. k /\ (n # 0 => n - 1 \in 0 .. k)
        BY <3>2
      <4>2. F[n] = IF n = 0 THEN 0 ELSE F[n - 1] + Words(n)
        BY <2>0, <4>1
      <4> QED
        BY <4>1, <4>2
    <3> QED
      BY <3>1, <3>2
  <2>3. CountsUp(G, lines, from, k + 1)
    <3>1. G = [n \in 0 .. k + 1 |-> G[n]]
      OBVIOUS
    <3> HIDE DEF G
    <3>2. G = [n \in 0 .. k + 1 |-> IF n = 0 THEN 0 ELSE G[n - 1] + Words(n)]
      BY <3>1, <2>2
    <3> QED
      BY <3>2 DEF CountsUp, Words
  <2> HIDE DEF G
  <2> QED
    BY <2>3
<1>3. \A k \in Nat : k \in Solved
  <2> HIDE DEF Solved
  <2> QED
    BY <1>1, <1>2, NatInductive
<1>4. \E F : CountsUp(F, lines, from, to - from + 1)
  BY <1>3
<1> QED
  BY <1>4 DEF PartialWords, CountsUp

\* The words of some lines are a number, and at least those of each line.
LEMMA WordsCounted ==
  ASSUME NEW lines \in Seq(Line), NEW from \in Nat \ {0}, NEW to \in Nat,
         from <= to + 1, to <= Len(lines)
  PROVE  /\ WordsIn(lines, from, to) \in Nat
         /\ \A i \in from .. to : lines[i].words <= WordsIn(lines, from, to)
<1> DEFINE P == PartialWords(lines, from, to)
           Words(n) == lines[from + n - 1].words
<1>1. PICK len \in Nat : len = to - from + 1
  OBVIOUS
<1>2. CountsUp(P, lines, from, len)
  <2>1. to - from + 1 \in Nat
    OBVIOUS
  <2> QED
    BY <1>1, <2>1, CountsDefined
<1>3. WordsIn(lines, from, to) = P[len]
  BY <1>1 DEF WordsIn, PartialWords
<1>4. P = [n \in 0 .. len |-> IF n = 0 THEN 0 ELSE P[n - 1] + Words(n)]
  BY <1>2 DEF CountsUp
<1>5. ASSUME NEW n \in 1 .. len PROVE Words(n) \in Nat
  <2>1. from + n - 1 \in 1 .. Len(lines)
    BY <1>1
  <2>2. lines[from + n - 1] \in Line
    BY <2>1
  <2> QED
    BY <2>2 DEF Line
<1> HIDE DEF P, Words
<1>6. P[0] = 0 /\ \A n \in 1 .. len : P[n] = P[n - 1] + Words(n)
  <2>1. ASSUME NEW n \in 0 .. len PROVE P[n] = IF n = 0 THEN 0 ELSE P[n - 1] + Words(n)
    BY <1>4
  <2> QED
    BY <2>1
<1> DEFINE Good == {n \in Nat : n <= len => /\ P[n] \in Nat
                                            /\ \A m \in 1 .. n : Words(m) <= P[n]}
<1>7. 0 \in Good
  BY <1>6
<1>8. ASSUME NEW n \in Nat, n \in Good PROVE n + 1 \in Good
  <2> SUFFICES ASSUME n + 1 <= len
               PROVE  P[n + 1] \in Nat /\ \A m \in 1 .. n + 1 : Words(m) <= P[n + 1]
    OBVIOUS
  <2>1. n + 1 \in 1 .. len /\ (n + 1) - 1 = n /\ n <= len
    OBVIOUS
  <2>2. P[n + 1] = P[n] + Words(n + 1) /\ Words(n + 1) \in Nat
    BY <2>1, <1>5, <1>6
  <2>3. P[n] \in Nat /\ \A m \in 1 .. n : Words(m) <= P[n]
    BY <2>1, <1>8
  <2>4. ASSUME NEW m \in 1 .. n + 1 PROVE Words(m) <= P[n + 1]
    <3>1. Words(m) \in Nat
      BY <2>1, <1>5
    <3>2. CASE m = n + 1
      BY <2>2, <2>3, <3>2
    <3>3. CASE m \in 1 .. n
      BY <2>2, <2>3, <3>1, <3>3
    <3> QED
      BY <3>2, <3>3
  <2> QED
    BY <2>2, <2>3, <2>4
<1>9. len \in Good
  <2> HIDE DEF Good
  <2> QED
    BY <1>7, <1>8, NatInductive
<1>10. ASSUME NEW i \in from .. to PROVE lines[i].words <= P[len]
  <2>1. i - from + 1 \in 1 .. len /\ from + (i - from + 1) - 1 = i
    BY <1>1
  <2>2. Words(i - from + 1) <= P[len]
    BY <1>9, <2>1
  <2> QED
    BY <2>1, <2>2 DEF Words
<1> QED
  BY <1>3, <1>9, <1>10

\* What a parser returns a list of.
RawText == [from : Nat, to : Nat, start : Int, end : Int, words : Nat]

LEMMA RawChunkTyped ==
  ASSUME NEW lines \in Seq(Line), NEW from \in Nat \ {0}, NEW to \in Nat,
         from <= to + 1, to <= Len(lines)
  PROVE  /\ RawChunk(lines, from, to) \in RawText
         /\ RawChunk(lines, from, to).from = from /\ RawChunk(lines, from, to).to = to
         /\ \A i \in from .. to : lines[i].words <= RawChunk(lines, from, to).words
<1>1. WordsIn(lines, from, to) \in Nat /\ \A i \in from .. to : lines[i].words <= WordsIn(lines, from, to)
  BY WordsCounted
<1> QED
  BY <1>1 DEF RawChunk, RawText

\* The chunks hold every line that has words.
Covers(chunks, lines) ==
  \A i \in 1 .. Len(lines) : lines[i].words > 0 =>
    \E k \in 1 .. Len(chunks) : i \in chunks[k].from .. chunks[k].to

\* Leaving out the blank chunks drops no other.
LEMMA NonBlankKeeps ==
  ASSUME NEW chunks \in Seq(RawText)
  PROVE  /\ NonBlank(chunks) \in Seq(RawText)
         /\ \A k \in 1 .. Len(chunks) : chunks[k].words > 0 =>
              \E p \in 1 .. Len(NonBlank(chunks)) : NonBlank(chunks)[p] = chunks[k]
<1> DEFINE full == {k \in DOMAIN chunks : chunks[k].words > 0}
           places == Ascending(full)
<1>1. PICK n \in Nat : n = Len(chunks) /\ DOMAIN chunks = 1 .. n
  OBVIOUS
<1>2. full \in SUBSET (0 .. n) /\ full \subseteq 1 .. n
  BY <1>1
<1>a. \A k \in 1 .. Len(chunks) : chunks[k].words > 0 => k \in full
  BY <1>1
<1>b. NonBlank(chunks) = [p \in DOMAIN places |-> chunks[places[p]]]
  BY DEF NonBlank
<1> HIDE DEF full
<1>3. /\ Len(places) \in Nat /\ DOMAIN places = 1 .. Len(places)
      /\ \A p \in 1 .. Len(places) : places[p] \in full
      /\ \A m \in full : \E p \in 1 .. Len(places) : places[p] = m
  BY <1>2, AscendingLines
<1> HIDE DEF places
<1>4. PICK N \in Nat : N = Len(places)
  BY <1>3
<1>5. NonBlank(chunks) = [p \in 1 .. N |-> chunks[places[p]]]
  BY <1>3, <1>4, <1>b
<1>6. \A p \in 1 .. N : chunks[places[p]] \in RawText
  <2> SUFFICES ASSUME NEW p \in 1 .. N PROVE chunks[places[p]] \in RawText
    OBVIOUS
  <2>1. places[p] \in 1 .. n
    BY <1>2, <1>3, <1>4
  <2> QED
    BY <2>1, <1>1
<1>7. NonBlank(chunks) \in [1 .. N -> RawText]
  BY <1>5, <1>6
<1>8. NonBlank(chunks) \in Seq(RawText) /\ Len(NonBlank(chunks)) = N
  BY <1>7
<1>9. ASSUME NEW k \in 1 .. Len(chunks), chunks[k].words > 0
      PROVE  \E p \in 1 .. N : NonBlank(chunks)[p] = chunks[k]
  <2>1. PICK p \in 1 .. N : places[p] = k
    BY <1>a, <1>9, <1>3, <1>4
  <2> QED
    BY <1>5, <2>1
<1> QED
  BY <1>8, <1>9

-----------------------------------------------------------------------------
(* The parsers                                                              *)

\* The sections hold every line with words, whatever the boundaries are.
LEMMA SectionsCover ==
  ASSUME NEW lines, Text(lines), NEW boundary
  PROVE  /\ Sections(lines, boundary) \in Seq(RawText)
         /\ Covers(Sections(lines, boundary), lines)
<1> DEFINE S == {1} \cup {i \in DOMAIN lines : lines[i].kind \in boundary}
           starts == Ascending(S)
           ends == Append(starts, Len(lines) + 1)
           chunks == [k \in DOMAIN starts |-> RawChunk(lines, starts[k], ends[k + 1] - 1)]
<1>1. lines \in Seq(Line)
  BY DEF Text
<1>2. PICK n \in Nat : n = Len(lines) /\ DOMAIN lines = 1 .. n
  BY <1>1
<1>3. S \in SUBSET (0 .. n + 1) /\ 1 \in S /\ \A m \in S : m \in Nat \ {0} /\ (m = 1 \/ m <= n)
  BY <1>2
<1>4. Sections(lines, boundary) = NonBlank(chunks)
  BY DEF Sections
<1> HIDE DEF S
<1>5. /\ starts \in Seq(S) /\ Len(starts) \in Nat
      /\ DOMAIN starts = 1 .. Len(starts)
      /\ \A p \in 1 .. Len(starts) : starts[p] \in S
      /\ \A p, q \in 1 .. Len(starts) : p < q => starts[p] < starts[q]
      /\ \A m \in S : \E p \in 1 .. Len(starts) : starts[p] = m
  <2>1. n + 1 \in Nat
    OBVIOUS
  <2> QED
    BY <1>3, <2>1, AscendingLines
<1> HIDE DEF starts
<1>6. PICK N \in Nat : N = Len(starts)
  BY <1>5
<1>7. \A k \in 1 .. N : ends[k + 1] = IF k = N THEN n + 1 ELSE starts[k + 1]
  <2> SUFFICES ASSUME NEW k \in 1 .. N
               PROVE  ends[k + 1] = IF k = N THEN n + 1 ELSE starts[k + 1]
    OBVIOUS
  <2>1. k + 1 \in 1 .. N + 1
    OBVIOUS
  <2>2. ends = [p \in 1 .. N + 1 |-> IF p = N + 1 THEN n + 1 ELSE starts[p]]
    BY <1>2, <1>5, <1>6
  <2> HIDE DEF ends
  <2>3. ends[k + 1] = IF k + 1 = N + 1 THEN n + 1 ELSE starts[k + 1]
    BY <2>1, <2>2
  <2> QED
    BY <2>3
<1>8. chunks = [k \in 1 .. N |-> RawChunk(lines, starts[k], ends[k + 1] - 1)]
  BY <1>5, <1>6
<1> HIDE DEF ends, chunks
<1>9. ASSUME NEW k \in 1 .. N
      PROVE  /\ starts[k] \in Nat \ {0} /\ ends[k + 1] - 1 \in Nat
             /\ starts[k] <= (ends[k + 1] - 1) + 1 /\ ends[k + 1] - 1 <= Len(lines)
             /\ ends[k + 1] \in Nat
  <2>1. starts[k] \in Nat \ {0} /\ (starts[k] = 1 \/ starts[k] <= n)
    BY <1>3, <1>5, <1>6
  <2>2. CASE k = N
    BY <1>2, <1>7, <2>1, <2>2
  <2>3. CASE k # N
    <3>1. k + 1 \in 1 .. N /\ k < k + 1
      BY <2>3
    <3>2. /\ starts[k + 1] \in Nat \ {0} /\ (starts[k + 1] = 1 \/ starts[k + 1] <= n)
          /\ starts[k] < starts[k + 1] /\ ends[k + 1] = starts[k + 1]
      BY <1>3, <1>5, <1>6, <1>7, <2>3, <3>1
    <3> QED
      BY <1>2, <2>1, <3>2
  <2> QED
    BY <2>2, <2>3
<1>10. ASSUME NEW k \in 1 .. N
       PROVE  /\ chunks[k] \in RawText
              /\ chunks[k].from = starts[k] /\ chunks[k].to = ends[k + 1] - 1
              /\ \A i \in starts[k] .. ends[k + 1] - 1 : lines[i].words <= chunks[k].words
  <2>1. PICK from \in Nat \ {0} : from = starts[k]
    BY <1>9
  <2>2. PICK to \in Nat : to = ends[k + 1] - 1
    BY <1>9
  <2>3. chunks[k] = RawChunk(lines, from, to)
    BY <1>8, <2>1, <2>2
  <2>4. from <= to + 1 /\ to <= Len(lines)
    BY <1>9, <2>1, <2>2
  <2> DEFINE chunk == RawChunk(lines, from, to)
  <2>5. /\ chunk \in RawText /\ chunk.from = from /\ chunk.to = to
        /\ \A i \in from .. to : lines[i].words <= chunk.words
    BY <1>1, <2>4, RawChunkTyped
  <2> HIDE DEF chunk
  <2> QED
    BY <2>1, <2>2, <2>3, <2>5 DEF chunk
<1>11. chunks \in Seq(RawText) /\ Len(chunks) = N
  <2>1. chunks \in [1 .. N -> RawText]
    BY <1>8, <1>10
  <2> QED
    BY <2>1
<1>12. /\ NonBlank(chunks) \in Seq(RawText)
       /\ \A k \in 1 .. N : chunks[k].words > 0 =>
            \E p \in 1 .. Len(NonBlank(chunks)) : NonBlank(chunks)[p] = chunks[k]
  BY <1>11, NonBlankKeeps
<1>13. ASSUME NEW i \in 1 .. Len(lines), lines[i].words > 0
       PROVE  \E p \in 1 .. Len(NonBlank(chunks)) :
                i \in NonBlank(chunks)[p].from .. NonBlank(chunks)[p].to
  <2> DEFINE L == {m \in S : m <= i}
  <2>0. i \in 1 .. n
    BY <1>2
  <2>1. L \in SUBSET (0 .. n + 1) /\ L # {} /\ n + 1 \in Nat
    <3>1. 1 \in L
      BY <1>3, <2>0
    <3>2. L \subseteq S
      OBVIOUS
    <3> HIDE DEF L
    <3> QED
      BY <1>3, <3>1, <3>2
  <2>2. PICK m \in L : \A y \in L : y <= m
    <3> HIDE DEF L
    <3> QED
      BY <2>1, GreatestExists
  <2>3. PICK k \in 1 .. N : starts[k] = m
    BY <1>5, <1>6
  <2>4. i < ends[k + 1]
    <3>1. CASE k = N
      BY <1>7, <2>0, <3>1
    <3>2. CASE k # N
      <4>1. k + 1 \in 1 .. N /\ k < k + 1
        BY <3>2
      <4>2. ends[k + 1] = starts[k + 1] /\ starts[k + 1] \in S /\ m < starts[k + 1]
        BY <1>5, <1>6, <1>7, <2>3, <3>2, <4>1
      <4>3. starts[k + 1] \in Nat /\ m \in Nat
        BY <1>3, <4>2
      <4>4. starts[k + 1] \notin L
        BY <2>2, <4>2, <4>3
      <4> QED
        BY <4>2, <4>3, <4>4
    <3> QED
      BY <3>1, <3>2
  <2>5. i \in starts[k] .. ends[k + 1] - 1
    BY <1>9, <2>0, <2>3, <2>4
  <2>6. lines[i].words \in Nat
    <3>1. lines[i] \in Line
      BY <1>1, <1>2, <2>0
    <3> QED
      BY <3>1 DEF Line
  <2>7. chunks[k].words > 0 /\ i \in chunks[k].from .. chunks[k].to
    <3>1. chunks[k].words \in Nat /\ lines[i].words <= chunks[k].words
      BY <1>10, <2>5 DEF RawText
    <3> QED
      BY <1>10, <1>13, <2>5, <2>6, <3>1
  <2> QED
    BY <1>12, <2>7
<1> QED
  BY <1>4, <1>12, <1>13 DEF Covers

\* The whole file is one chunk.
LEMMA WholeFileCovers ==
  ASSUME NEW lines, Text(lines)
  PROVE  WholeFile(lines) \in Seq(RawText) /\ Covers(WholeFile(lines), lines)
<1>1. lines \in Seq(Line) /\ Len(lines) \in Nat
  BY DEF Text
<1> DEFINE chunk == RawChunk(lines, 1, Len(lines))
<1>2. chunk \in RawText /\ chunk.from = 1 /\ chunk.to = Len(lines)
  <2>1. 1 \in Nat \ {0} /\ 1 <= Len(lines) + 1 /\ Len(lines) <= Len(lines)
    BY <1>1
  <2> QED
    BY <1>1, <2>1, RawChunkTyped
<1> HIDE DEF chunk
<1>3. WholeFile(lines) = <<chunk>>
  BY DEF WholeFile, chunk
<1> QED
  BY <1>1, <1>2, <1>3 DEF Covers

\* parse_patch changes the places the chunks report and nothing else.
LEMMA PatchCovers ==
  ASSUME NEW lines, Text(lines)
  PROVE  PatchChunks(lines) \in Seq(RawText) /\ Covers(PatchChunks(lines), lines)
<1> DEFINE diffs == Sections(lines, {"decl"})
           Full(chunk) == {i \in chunk.from .. chunk.to : lines[i].words > 0}
           Rows(chunk) == {i \in chunk.from .. chunk.to : \E a, b \in Full(chunk) : a <= i /\ i <= b}
           Height(chunk) == Cardinality(Rows(chunk))
           chunks == [k \in DOMAIN diffs |-> [diffs[k] EXCEPT !.start = 1, !.end = Height(diffs[k])]]
<1>1. PatchChunks(lines) = chunks
  BY DEF PatchChunks
<1>2. diffs \in Seq(RawText) /\ Covers(diffs, lines)
  BY SectionsCover
<1> HIDE DEF diffs, Full
<1>3. ASSUME NEW chunk \in RawText PROVE Height(chunk) \in Int
  <2>1. chunk.from \in Nat /\ chunk.to \in Nat
    BY DEF RawText
  <2>2. IsFiniteSet(chunk.from .. chunk.to) /\ Rows(chunk) \in SUBSET (chunk.from .. chunk.to)
    <3>1. PICK a \in Nat : a = chunk.from
      BY <2>1
    <3>2. PICK b \in Nat : b = chunk.to
      BY <2>1
    <3>3. IsFiniteSet(a .. b)
      BY FS_Interval
    <3> QED
      BY <3>1, <3>2, <3>3
  <2> HIDE DEF Rows
  <2>3. IsFiniteSet(Rows(chunk))
    BY <2>2, FS_Subset
  <2>4. Cardinality(Rows(chunk)) \in Nat
    BY <2>3, FS_CardinalityType
  <2> QED
    BY <2>4
<1> HIDE DEF Height
<1>4. PICK n \in Nat : n = Len(diffs) /\ DOMAIN diffs = 1 .. n
  BY <1>2
<1>5. ASSUME NEW k \in 1 .. n
      PROVE  chunks[k] \in RawText /\ chunks[k].from = diffs[k].from /\ chunks[k].to = diffs[k].to
  <2>1. PICK chunk \in RawText : chunk = diffs[k]
    BY <1>2, <1>4
  <2>2. PICK h \in Int : h = Height(chunk)
    BY <1>3
  <2>3. chunks[k] = [chunk EXCEPT !.start = 1, !.end = h]
    BY <1>4, <2>1, <2>2
  <2> HIDE DEF chunks
  <2>4. chunks[k] = [from |-> chunk.from, to |-> chunk.to, start |-> 1, end |-> h,
                     words |-> chunk.words]
    BY <2>3 DEF RawText
  <2>5. chunk.from \in Nat /\ chunk.to \in Nat /\ chunk.words \in Nat
    BY DEF RawText
  <2> QED
    BY <2>1, <2>4, <2>5 DEF RawText
<1>6. chunks = [k \in 1 .. n |-> chunks[k]]
  BY <1>4
<1> HIDE DEF chunks
<1>7. chunks \in Seq(RawText) /\ Len(chunks) = n
  <2>1. chunks \in [1 .. n -> RawText]
    BY <1>5, <1>6
  <2> QED
    BY <2>1
<1>8. Covers(chunks, lines)
  BY <1>2, <1>4, <1>5, <1>7 DEF Covers
<1> QED
  BY <1>1, <1>7, <1>8

\* The bursts of errors are chunks of the lines.
LEMMA ErrorClustersTyped ==
  ASSUME NEW lines \in Seq(Line)
  PROVE  ErrorClusters(lines) \in Seq(RawText)
<1> DEFINE bursts == {run \in ErrorRuns(lines) : run[2] - run[1] + 1 >= ErrorClusterMin}
           heads == {run[1] : run \in bursts}
           begins == Ascending(heads)
           Least(a, b) == IF a < b THEN a ELSE b
           Run(i) == CHOOSE run \in bursts : run[1] = i
           Last1(i) == Least(Len(lines), Run(i)[2] + 1)
           To(i) == Least(Last1(i), i + ErrorClusterMax - 1)
           chunks == [k \in DOMAIN begins |-> RawChunk(lines, begins[k], To(begins[k]))]
<1>1. ErrorClusters(lines) = chunks
  BY DEF ErrorClusters
<1>2. PICK n \in Nat : n = Len(lines) /\ DOMAIN lines = 1 .. n
  OBVIOUS
<1>3. ASSUME NEW run \in bursts
      PROVE  run[1] \in 1 .. n /\ run[2] \in 1 .. n /\ run[1] <= run[2]
  BY <1>2 DEF ErrorRuns
<1>4. ErrorClusterMax \in Nat \ {0}
  BY ParserAssumption
<1> HIDE DEF bursts
<1>5. heads \in SUBSET (0 .. n) /\ \A i \in heads : i \in 1 .. n
  BY <1>3
<1>6. ASSUME NEW i \in heads PROVE Run(i) \in bursts /\ Run(i)[1] = i
  OBVIOUS
<1> HIDE DEF heads, Run
<1>7. ASSUME NEW i \in heads
      PROVE  i \in Nat \ {0} /\ To(i) \in Nat /\ i <= To(i) + 1 /\ To(i) <= n
  <2>1. Run(i)[2] \in 1 .. n /\ i <= Run(i)[2] /\ i \in 1 .. n
    BY <1>3, <1>6
  <2>2. Last1(i) \in Nat /\ i <= Last1(i) /\ Last1(i) <= n
    BY <1>2, <2>1
  <2> HIDE DEF Last1
  <2> QED
    BY <1>4, <2>1, <2>2
<1> HIDE DEF To
<1>8. /\ Len(begins) \in Nat /\ DOMAIN begins = 1 .. Len(begins)
      /\ \A p \in 1 .. Len(begins) : begins[p] \in heads
  BY <1>5, AscendingLines
<1> HIDE DEF begins
<1>9. PICK N \in Nat : N = Len(begins) /\ DOMAIN begins = 1 .. N
  BY <1>8
<1>10. ASSUME NEW k \in 1 .. N PROVE chunks[k] \in RawText
  <2>1. PICK i \in heads : i = begins[k]
    BY <1>8, <1>9
  <2>2. RawChunk(lines, i, To(i)) \in RawText
    BY <1>2, <1>7, RawChunkTyped
  <2> QED
    BY <1>9, <2>1, <2>2
<1>11. chunks = [k \in 1 .. N |-> chunks[k]]
  BY <1>9
<1> HIDE DEF chunks
<1>12. chunks \in [1 .. N -> RawText]
  BY <1>10, <1>11
<1> QED
  BY <1>1, <1>12

\* A text with words has a first and a last line that is not blank.
LEMMA LinesWithinText ==
  ASSUME NEW lines, Text(lines)
  PROVE  /\ Lead(lines) \in 0 .. Len(lines)
         /\ LastFull(lines) \in 0 .. Len(lines)
         /\ \A i \in 1 .. Len(lines) : lines[i].words > 0 =>
              Lead(lines) < i /\ i <= LastFull(lines)
<1>1. lines \in Seq(Line) /\ \A i \in 1 .. Len(lines) : lines[i].kind = "blank" <=> lines[i].words = 0
  BY DEF Text
<1>2. PICK n \in Nat : n = Len(lines) /\ DOMAIN lines = 1 .. n
  BY <1>1
<1> DEFINE Full(i) == lines[i].kind # "blank"
           full == {i \in 1 .. n : Full(i)}
           blank == {i \in 1 .. n : \A k \in 1 .. i : ~Full(k)}
<1>3. Lead(lines) = Cardinality(blank)
  BY <1>2 DEF Lead
<1>4. LastFull(lines) = CHOOSE i \in 0 .. n : /\ i = 0 \/ Full(i)
                                              /\ \A k \in i + 1 .. n : ~Full(k)
  BY <1>2 DEF LastFull
<1>5. \A i \in 1 .. n : lines[i].words > 0 => i \in full
  BY <1>1, <1>2
<1> HIDE DEF Full
<1>6. full \in SUBSET Nat /\ full \in SUBSET (0 .. n)
  OBVIOUS
<1>7. Lead(lines) \in 0 .. n /\ \A i \in full : Lead(lines) < i
  <2>1. CASE full = {}
    <3>1. blank = 1 .. n
      BY <2>1
    <3>2. Cardinality(1 .. n) = n
      BY FS_Interval
    <3>3. Lead(lines) = n
      <4> HIDE DEF blank
      <4> QED
        BY <1>3, <3>1, <3>2
    <3> HIDE DEF full
    <3> QED
      BY <2>1, <3>3
  <2>2. CASE full # {}
    <3>1. PICK f \in full : \A i \in full : f <= i
      <4> HIDE DEF full
      <4> QED
        BY <1>6, <2>2, LeastExists
    <3>2. f \in 1 .. n /\ Full(f)
      OBVIOUS
    <3>3. ASSUME NEW i \in blank PROVE i \in 1 .. f - 1
      BY <3>2
    <3>4. ASSUME NEW i \in 1 .. f - 1 PROVE i \in blank
      <4>1. ASSUME NEW k \in 1 .. i PROVE ~Full(k)
        BY <3>1, <3>2
      <4> QED
        BY <3>2, <4>1
    <3>5. blank = 1 .. f - 1
      BY <3>3, <3>4
    <3>6. Cardinality(1 .. f - 1) = f - 1
      <4>1. f - 1 \in Int /\ 1 \in Int /\ f >= 1
        BY <3>2
      <4>2. Cardinality(1 .. f - 1) = IF 1 > f - 1 THEN 0 ELSE (f - 1) - 1 + 1
        BY <4>1, FS_Interval
      <4> QED
        BY <4>1, <4>2
    <3>7. Lead(lines) = f - 1
      BY <1>3, <3>5, <3>6
    <3> QED
      BY <3>1, <3>2, <3>7
  <2> QED
    BY <2>1, <2>2
<1>8. \E i \in 0 .. n : (i = 0 \/ Full(i)) /\ \A k \in i + 1 .. n : ~Full(k)
  <2>1. CASE full = {}
    BY <2>1
  <2>2. CASE full # {}
    <3>1. PICK f \in full : \A i \in full : i <= f
      <4> HIDE DEF full
      <4> QED
        BY <1>6, <2>2, GreatestExists
    <3>2. f \in 0 .. n /\ Full(f)
      OBVIOUS
    <3>3. ASSUME NEW k \in f + 1 .. n PROVE ~Full(k)
      BY <3>1, <3>2
    <3> QED
      BY <3>2, <3>3
  <2> QED
    BY <2>1, <2>2
<1> DEFINE last == LastFull(lines)
<1>9. last \in 0 .. n /\ \A k \in last + 1 .. n : ~Full(k)
  BY <1>4, <1>8
<1> HIDE DEF last
<1>10. ASSUME NEW i \in full PROVE i <= last
  BY <1>9
<1> QED
  BY <1>2, <1>5, <1>7, <1>9, <1>10 DEF last

\* The windows of parse_logs follow each other without a gap.
LEMMA LogCovers ==
  ASSUME NEW lines, Text(lines)
  PROVE  LogChunks(lines) \in Seq(RawText) /\ Covers(LogChunks(lines), lines)
<1> DEFINE lead == Lead(lines)
           last == LastFull(lines)
           kept == SubSeq(lines, 1, last)
           S == {i \in lead + 1 .. last : (i - lead - 1) % WindowSize = 0}
           heads == Ascending(S)
           End(i) == IF i + WindowSize - 1 < last THEN i + WindowSize - 1 ELSE last
           windows == [k \in DOMAIN heads |-> RawChunk(kept, heads[k], End(heads[k]))]
           chunks == NonBlank(windows) \o ErrorClusters(kept)
           shifted == [k \in DOMAIN chunks |-> Shift(chunks[k], lead)]
<1>1. LogChunks(lines) = shifted
  BY DEF LogChunks
<1>2. lines \in Seq(Line)
  BY DEF Text
<1>3. PICK n \in Nat : n = Len(lines) /\ DOMAIN lines = 1 .. n
  BY <1>2
<1>4. /\ lead \in 0 .. n /\ last \in 0 .. n
      /\ \A i \in 1 .. n : lines[i].words > 0 => lead < i /\ i <= last
  BY <1>3, LinesWithinText
<1>5. WindowSize \in Nat \ {0}
  BY ParserAssumption
<1> HIDE DEF lead, last
<1>6. kept \in Seq(Line) /\ Len(kept) = last /\ \A i \in 1 .. last : kept[i] = lines[i]
  BY <1>2, <1>3, <1>4
<1> HIDE DEF kept
<1>7. S \in SUBSET (0 .. n) /\ \A i \in S : i \in Nat \ {0} /\ i <= last
  BY <1>4
<1>8. ASSUME NEW i \in S
      PROVE  End(i) \in Nat /\ i <= End(i) /\ End(i) <= Len(kept)
  BY <1>4, <1>5, <1>6, <1>7
<1>9. ASSUME NEW i \in lead + 1 .. last
      PROVE  \E h \in S : i \in h .. End(h)
  <2>1. PICK w \in Nat : w = i - lead - 1
    BY <1>4
  <2>2. PICK s \in 0 .. w : s % WindowSize = 0 /\ w < s + WindowSize
    BY <1>5, MultipleBelow
  <2>3. s + lead + 1 \in lead + 1 .. last /\ (s + lead + 1) - lead - 1 = s
    BY <1>4, <2>1
  <2>4. s + lead + 1 \in S
    BY <2>2, <2>3
  <2>5. i \in s + lead + 1 .. End(s + lead + 1)
    BY <1>4, <1>5, <2>1, <2>2
  <2> QED
    BY <2>4, <2>5
<1> HIDE DEF S, End
<1>10. /\ Len(heads) \in Nat /\ DOMAIN heads = 1 .. Len(heads)
       /\ \A p \in 1 .. Len(heads) : heads[p] \in S
       /\ \A m \in S : \E p \in 1 .. Len(heads) : heads[p] = m
  BY <1>7, AscendingLines
<1> HIDE DEF heads
<1>11. PICK N \in Nat : N = Len(heads) /\ DOMAIN heads = 1 .. N
  BY <1>10
<1>12. ASSUME NEW k \in 1 .. N
       PROVE  /\ windows[k] \in RawText
              /\ windows[k].from = heads[k] /\ windows[k].to = End(heads[k])
              /\ \A i \in heads[k] .. End(heads[k]) : kept[i].words <= windows[k].words
  <2>1. PICK h \in S : h = heads[k]
    BY <1>10, <1>11
  <2>2. PICK to \in Nat : to = End(h)
    BY <1>8
  <2>3. h \in Nat \ {0} /\ h <= to + 1 /\ to <= Len(kept)
    BY <1>7, <1>8, <2>2
  <2>4. windows[k] = RawChunk(kept, h, to)
    BY <1>11, <2>1, <2>2
  <2> DEFINE window == RawChunk(kept, h, to)
  <2>5. /\ window \in RawText /\ window.from = h /\ window.to = to
        /\ \A i \in h .. to : kept[i].words <= window.words
    BY <1>6, <2>3, RawChunkTyped
  <2> HIDE DEF windows, window
  <2> QED
    BY <2>1, <2>2, <2>4, <2>5 DEF window
<1>13. windows = [k \in 1 .. N |-> windows[k]]
  BY <1>11
<1> HIDE DEF windows
<1>14. windows \in Seq(RawText) /\ Len(windows) = N
  <2>1. windows \in [1 .. N -> RawText]
    BY <1>12, <1>13
  <2> QED
    BY <2>1
<1>15. /\ NonBlank(windows) \in Seq(RawText)
       /\ \A k \in 1 .. N : windows[k].words > 0 =>
            \E p \in 1 .. Len(NonBlank(windows)) : NonBlank(windows)[p] = windows[k]
  BY <1>14, NonBlankKeeps
<1>16. ErrorClusters(kept) \in Seq(RawText)
  BY <1>6, ErrorClustersTyped
<1>17. /\ chunks \in Seq(RawText)
       /\ \A p \in 1 .. Len(NonBlank(windows)) : p \in 1 .. Len(chunks) /\ chunks[p] = NonBlank(windows)[p]
  BY <1>15, <1>16
<1> HIDE DEF chunks
<1>18. PICK M \in Nat : M = Len(chunks) /\ DOMAIN chunks = 1 .. M
  BY <1>17
<1>19. ASSUME NEW k \in 1 .. M
       PROVE  /\ shifted[k] \in RawText
              /\ shifted[k].from = chunks[k].from /\ shifted[k].to = chunks[k].to
  <2>1. PICK chunk \in RawText : chunk = chunks[k]
    BY <1>17, <1>18
  <2>2. shifted[k] = [chunk EXCEPT !.start = @ - lead, !.end = @ - lead]
    BY <1>18, <2>1 DEF Shift
  <2> HIDE DEF shifted
  <2>3. shifted[k] = [from |-> chunk.from, to |-> chunk.to, start |-> chunk.start - lead,
                      end |-> chunk.end - lead, words |-> chunk.words]
    BY <2>2 DEF RawText
  <2>4. /\ chunk.from \in Nat /\ chunk.to \in Nat /\ chunk.words \in Nat
        /\ chunk.start - lead \in Int /\ chunk.end - lead \in Int
    BY <1>4 DEF RawText
  <2> QED
    BY <2>1, <2>3, <2>4 DEF RawText
<1>20. shifted = [k \in 1 .. M |-> shifted[k]]
  BY <1>18
<1> HIDE DEF shifted
<1>21. shifted \in Seq(RawText) /\ Len(shifted) = M
  <2>1. shifted \in [1 .. M -> RawText]
    BY <1>19, <1>20
  <2> QED
    BY <2>1
<1>22. ASSUME NEW i \in 1 .. n, lines[i].words > 0
       PROVE  \E k \in 1 .. M : i \in shifted[k].from .. shifted[k].to
  <2>1. i \in lead + 1 .. last /\ kept[i] = lines[i]
    BY <1>4, <1>6, <1>22
  <2>2. PICK h \in S : i \in h .. End(h)
    BY <1>9, <2>1
  <2>3. PICK k \in 1 .. N : heads[k] = h
    BY <1>10, <1>11
  <2>4. kept[i].words <= windows[k].words /\ i \in windows[k].from .. windows[k].to
    BY <1>12, <2>2, <2>3
  <2>5. windows[k].words \in Nat /\ lines[i].words \in Nat
    <3>1. lines[i] \in Line
      BY <1>2, <1>3
    <3>2. windows[k] \in RawText
      BY <1>12
    <3> QED
      BY <3>1, <3>2 DEF Line, RawText
  <2>6. windows[k].words > 0
    BY <1>22, <2>1, <2>4, <2>5
  <2>7. PICK p \in 1 .. Len(NonBlank(windows)) : NonBlank(windows)[p] = windows[k]
    BY <1>15, <2>6
  <2>8. p \in 1 .. M /\ chunks[p] = windows[k]
    BY <1>17, <1>18, <2>7
  <2> QED
    BY <1>19, <2>4, <2>8
<1> QED
  BY <1>1, <1>3, <1>21, <1>22 DEF Covers

\* A top-level definition ends in the file, not before it begins.
LEMMA DefinitionEnds ==
  ASSUME NEW lines \in Seq(Line), NEW i \in 1 .. Len(lines)
  PROVE  DefinitionEnd(lines, i) \in i .. Len(lines)
<1>1. PICK n \in Nat : n = Len(lines)
  OBVIOUS
<1> DEFINE inside == {k \in DOMAIN lines : lines[k].kind \in {"body", "deep"}}
           blank == {k \in DOMAIN lines : lines[k].kind = "blank"}
           J == {j \in i .. n : /\ j = i \/ j \in inside
                                /\ \A k \in i + 1 .. j : k \in inside \cup blank}
<1> HIDE DEF inside, blank
<1>2. i \in J
  BY <1>1
<1>3. PICK j \in J : \A y \in J : y <= j
  <2>1. J \in SUBSET (0 .. n)
    BY <1>1
  <2> HIDE DEF J
  <2> QED
    BY <1>2, <2>1, GreatestExists
<1>4. ASSUME NEW k \in j + 1 .. n, k \in inside
      PROVE  \E m \in j + 1 .. k : m \notin inside \cup blank
  <2> SUFFICES ASSUME \A m \in j + 1 .. k : m \in inside \cup blank PROVE FALSE
    OBVIOUS
  <2>1. k \in i .. n /\ j \in i .. n /\ k > j
    BY <1>1
  <2>2. ASSUME NEW m \in i + 1 .. k PROVE m \in inside \cup blank
    <3>1. CASE m <= j
      BY <3>1, <2>1
    <3>2. CASE m > j
      BY <3>2, <2>1
    <3> QED
      BY <3>1, <3>2, <2>1
  <2>3. k \in J
    BY <1>4, <2>1, <2>2
  <2> QED
    BY <1>3, <2>1, <2>3
<1>5. \E e \in i .. n :
        /\ e = i \/ e \in inside
        /\ \A k \in i + 1 .. e : k \in inside \cup blank
        /\ \A k \in e + 1 .. n :
             k \in inside => \E m \in e + 1 .. k : m \notin inside \cup blank
  BY <1>4
<1>6. DefinitionEnd(lines, i) = CHOOSE e \in i .. n :
        /\ e = i \/ e \in inside
        /\ \A k \in i + 1 .. e : k \in inside \cup blank
        /\ \A k \in e + 1 .. n :
             k \in inside => \E m \in e + 1 .. k : m \notin inside \cup blank
  BY <1>1 DEF DefinitionEnd, inside, blank
<1> QED
  BY <1>1, <1>5, <1>6

\* parse_python returns a list of texts.
LEMMA PythonTyped ==
  ASSUME NEW lines, Text(lines)
  PROVE  PythonChunks(lines) \in Seq(RawText)
<1> DEFINE T == {i \in DOMAIN lines : lines[i].kind = "decl"}
           tops == Ascending(T)
           defs == {i \in DOMAIN lines : lines[i].kind \in {"decl", "deep"}}
           first == CHOOSE i \in defs : \A k \in defs : i <= k
           before == IF defs = {} THEN <<>> ELSE NonBlank(<<RawChunk(lines, 1, first - 1)>>)
           bodies == [k \in DOMAIN tops |-> RawChunk(lines, tops[k], DefinitionEnd(lines, tops[k]))]
           chunks == before \o bodies
<1>1. PythonChunks(lines) = IF chunks = <<>> THEN WholeFile(lines) ELSE chunks
  BY DEF PythonChunks
<1>2. lines \in Seq(Line)
  BY DEF Text
<1>3. PICK n \in Nat : n = Len(lines) /\ DOMAIN lines = 1 .. n
  BY <1>2
<1>4. T \in SUBSET (0 .. n) /\ T \subseteq 1 .. n /\ defs \in SUBSET Nat /\ defs \subseteq 1 .. n
  BY <1>3
<1> HIDE DEF T, defs
<1>5. before \in Seq(RawText)
  <2>1. CASE defs = {}
    BY <2>1
  <2>2. CASE defs # {}
    <3>1. \E i \in defs : \A k \in defs : i <= k
      BY <1>4, <2>2, LeastExists
    <3>2. first \in 1 .. n
      BY <3>1, <1>4
    <3> HIDE DEF first
    <3>3. 1 \in Nat \ {0} /\ first - 1 \in Nat /\ 1 <= (first - 1) + 1 /\ first - 1 <= Len(lines)
      BY <1>3, <3>2
    <3>4. RawChunk(lines, 1, first - 1) \in RawText
      BY <1>2, <3>3, RawChunkTyped
    <3>5. <<RawChunk(lines, 1, first - 1)>> \in Seq(RawText)
      BY <3>4
    <3>6. NonBlank(<<RawChunk(lines, 1, first - 1)>>) \in Seq(RawText)
      BY <3>5, NonBlankKeeps
    <3> QED
      BY <2>2, <3>6
  <2> QED
    BY <2>1, <2>2
<1>6. bodies \in Seq(RawText)
  <2>1. /\ Len(tops) \in Nat /\ DOMAIN tops = 1 .. Len(tops)
        /\ \A p \in 1 .. Len(tops) : tops[p] \in T
    BY <1>4, AscendingLines
  <2> HIDE DEF tops
  <2>2. PICK N \in Nat : N = Len(tops) /\ DOMAIN tops = 1 .. N
    BY <2>1
  <2>3. ASSUME NEW k \in 1 .. N PROVE bodies[k] \in RawText
    <3>1. PICK i \in 1 .. n : i = tops[k]
      BY <1>4, <2>1, <2>2
    <3>2. DefinitionEnd(lines, i) \in i .. n
      BY <1>2, <1>3, DefinitionEnds
    <3>3. PICK e \in i .. n : e = DefinitionEnd(lines, i)
      BY <3>2
    <3>4. i \in Nat \ {0} /\ e \in Nat /\ i <= e + 1 /\ e <= Len(lines)
      BY <1>3
    <3>5. RawChunk(lines, i, e) \in RawText
      BY <1>2, <3>4, RawChunkTyped
    <3> QED
      BY <2>2, <3>1, <3>3, <3>5
  <2>4. bodies = [k \in 1 .. N |-> bodies[k]]
    BY <2>2
  <2> HIDE DEF bodies
  <2>5. bodies \in [1 .. N -> RawText]
    BY <2>3, <2>4
  <2> QED
    BY <2>5
<1> HIDE DEF before, bodies
<1>7. chunks \in Seq(RawText)
  BY <1>5, <1>6
<1> QED
  BY <1>1, <1>7, WholeFileCovers

\* What is rendered of a document that loads is a list of texts.
LEMMA RenderedTyped ==
  ASSUME NEW doc, doc.lines \in Seq(Line), NEW sections \in Seq(Nat), NEW last \in Nat
  PROVE  Rendered(doc, sections, last) \in Seq(RawText)
<1>1. PICK n \in Nat : n = Len(sections) /\ DOMAIN sections = 1 .. n
  OBVIOUS
<1>2. PICK len \in Nat : len = Len(doc.lines)
  OBVIOUS
<1> DEFINE chunks == Rendered(doc, sections, last)
<1>3. chunks = [k \in 1 .. n |-> [from |-> 1, to |-> len, start |-> 1, end |-> last,
                                  words |-> sections[k]]]
  BY <1>1, <1>2 DEF Rendered, SectionChunk
<1>4. \A k \in 1 .. n : sections[k] \in Nat
  BY <1>1
<1> HIDE DEF chunks
<1>5. chunks \in [1 .. n -> RawText]
  BY <1>3, <1>4 DEF RawText
<1>6. chunks \in Seq(RawText)
  BY <1>5
<1> QED
  BY <1>6 DEF chunks

LEMMA FirstOfTyped ==
  ASSUME NEW sections \in Seq(Nat), NEW limit \in Nat
  PROVE  FirstOf(sections, limit) \in Seq(Nat)
BY DEF FirstOf

\* Every parser returns a list of texts, and those that are meant to keep the
\* whole text do.
LEMMA ParserKeeps ==
  ASSUME NEW doc \in Documents
  PROVE  /\ Text(doc.lines) /\ Parse(doc) \in Seq(RawText)
         /\ ParserFor(NormalizeSourceType(doc.type, doc.path), doc.path)
              \in {"logs", "patch", "incident", "declarations", "regex", "file", "markdown"}
            => Covers(Parse(doc), doc.lines)
<1> DEFINE lines == doc.lines
           type == NormalizeSourceType(doc.type, doc.path)
           parser == ParserFor(type, doc.path)
<1>1. doc.lines \in Seq(Line) /\ Text(lines) /\ {doc.keys, doc.paths, doc.schemas} \subseteq Seq(Nat)
  <2>1. /\ doc.lines \in Seq(Line) /\ {doc.keys, doc.paths, doc.schemas} \subseteq Seq(Nat)
        /\ \A i \in DOMAIN doc.lines : doc.lines[i].kind = "blank" <=> doc.lines[i].words = 0
    BY DocumentsAssumption DEF Line
  <2>2. DOMAIN doc.lines = 1 .. Len(doc.lines)
    BY <2>1
  <2> QED
    BY <2>1, <2>2 DEF Text
<1>2. WholeFile(lines) \in Seq(RawText) /\ Covers(WholeFile(lines), lines)
  BY <1>1, WholeFileCovers
<1>3. LogChunks(lines) \in Seq(RawText) /\ Covers(LogChunks(lines), lines)
  BY <1>1, LogCovers
<1>4. PatchChunks(lines) \in Seq(RawText) /\ Covers(PatchChunks(lines), lines)
  BY <1>1, PatchCovers
<1>5. IncidentChunks(lines) \in Seq(RawText) /\ Covers(IncidentChunks(lines), lines)
  BY <1>1, SectionsCover DEF IncidentChunks
<1>6. DeclarationChunks(lines) \in Seq(RawText) /\ Covers(DeclarationChunks(lines), lines)
  BY <1>1, SectionsCover DEF DeclarationChunks
<1>7. RegexLanguageChunks(lines) \in Seq(RawText) /\ Covers(RegexLanguageChunks(lines), lines)
  BY <1>1, SectionsCover DEF RegexLanguageChunks
<1>8. MarkdownChunks(lines) \in Seq(RawText) /\ Covers(MarkdownChunks(lines), lines)
  BY <1>1, SectionsCover DEF MarkdownChunks
<1>9. PythonChunks(lines) \in Seq(RawText)
  BY <1>1, PythonTyped
<1>10. DeployChunks(doc) \in Seq(RawText)
  <2>1. Rendered(doc, doc.keys, 1) \in Seq(RawText)
    BY <1>1, RenderedTyped
  <2>2. NonBlank(Rendered(doc, doc.keys, 1)) \in Seq(RawText)
    BY <2>1, NonBlankKeeps
  <2> QED
    BY <2>2 DEF DeployChunks
<1>11. StructuredChunks(doc, type) \in Seq(RawText)
  <2> DEFINE last == Len(doc.lines)
             first == FirstOf(doc.paths, PathLimit) \o FirstOf(doc.schemas, PathLimit)
             api == Rendered(doc, first, last)
             keys == Rendered(doc, FirstOf(doc.keys, KeyLimit), last)
  <2>0. PathLimit \in Nat /\ KeyLimit \in Nat /\ last \in Nat
    BY <1>1, ParserAssumption
  <2>1. /\ FirstOf(doc.paths, PathLimit) \in Seq(Nat)
        /\ FirstOf(doc.schemas, PathLimit) \in Seq(Nat)
        /\ FirstOf(doc.keys, KeyLimit) \in Seq(Nat)
    BY <1>1, <2>0, FirstOfTyped
  <2>2. first \in Seq(Nat)
    BY <2>1
  <2>3. api \in Seq(RawText) /\ keys \in Seq(RawText)
    <3> HIDE DEF first, last
    <3> QED
      BY <1>1, <2>0, <2>1, <2>2, RenderedTyped
  <2>4. \/ StructuredChunks(doc, type) = api
        \/ StructuredChunks(doc, type) = keys
        \/ StructuredChunks(doc, type) = WholeFile(lines)
    BY DEF StructuredChunks
  <2> HIDE DEF api, keys
  <2> QED
    BY <1>2, <2>3, <2>4
<1>12. <<>> \in Seq(RawText)
  OBVIOUS
<1>13. Parse(doc) = CASE parser = "logs" -> LogChunks(lines)
       [] parser = "patch" -> PatchChunks(lines)
       [] parser = "deploys" -> DeployChunks(doc)
       [] parser = "incident" -> IncidentChunks(lines)
       [] parser = "python" -> IF doc.loads THEN PythonChunks(lines) ELSE WholeFile(lines)
       [] parser = "declarations" -> DeclarationChunks(lines)
       [] parser = "regex" -> RegexLanguageChunks(lines)
       [] parser = "file" -> WholeFile(lines)
       [] parser = "structured" -> StructuredChunks(doc, type)
       [] parser = "markdown" -> MarkdownChunks(lines)
       [] OTHER -> <<>>
  BY DEF Parse
<1> HIDE DEF lines, type, parser
<1>14. Parse(doc) \in Seq(RawText)
  BY <1>2, <1>3, <1>4, <1>5, <1>6, <1>7, <1>8, <1>9, <1>10, <1>11, <1>12, <1>13
<1>15. ASSUME parser \in {"logs", "patch", "incident", "declarations", "regex", "file", "markdown"}
       PROVE  Covers(Parse(doc), lines)
  BY <1>15, <1>2, <1>3, <1>4, <1>5, <1>6, <1>7, <1>8, <1>13
<1> QED
  BY <1>1, <1>14, <1>15 DEF lines, type, parser

-----------------------------------------------------------------------------
(* _build_bounded_fallback_chunks                                           *)

\* The recursive function in the definition of BoundedFallbackChunks
Building(lines) ==
  LET built[i \in 0 .. Len(lines)] ==
        IF i = 0 THEN [chunks |-> <<>>, from |-> 1, stopped |-> FALSE]
        ELSE TakeLine(lines, built[i - 1], i)
  IN built

Begun == [chunks |-> <<>>, from |-> 1, stopped |-> FALSE]

\* F obeys that recursion up to k.
BuildsUp(F, lines, k) ==
  F = [i \in 0 .. k |-> IF i = 0 THEN Begun ELSE TakeLine(lines, F[i - 1], i)]

\* The recursion has a solution.
LEMMA BuildingDefined ==
  ASSUME NEW lines \in Seq(Line)
  PROVE  /\ Building(lines)[0] = Begun
         /\ \A i \in 1 .. Len(lines) : Building(lines)[i] = TakeLine(lines, Building(lines)[i - 1], i)
<1> DEFINE Solved == {k \in Nat : \E F : BuildsUp(F, lines, k)}
<1>1. 0 \in Solved
  <2> DEFINE F == [n \in 0 .. 0 |-> Begun]
  <2>1. BuildsUp(F, lines, 0)
    BY DEF BuildsUp
  <2> QED
    BY <2>1
<1>2. ASSUME NEW k \in Nat, k \in Solved PROVE k + 1 \in Solved
  <2>1. PICK F : BuildsUp(F, lines, k)
    BY <1>2
  <2> DEFINE G == [n \in 0 .. k + 1 |-> IF n = k + 1 THEN TakeLine(lines, F[k], k + 1) ELSE F[n]]
  <2>2. ASSUME NEW n \in 0 .. k + 1
        PROVE  G[n] = IF n = 0 THEN Begun ELSE TakeLine(lines, G[n - 1], n)
    <3>1. CASE n = k + 1
      <4>1. G[n] = TakeLine(lines, F[k], k + 1) /\ n # 0 /\ n - 1 = k /\ G[k] = F[k]
        BY <3>1
      <4> HIDE DEF G
      <4> QED
        BY <3>1, <4>1
    <3>2. CASE n # k + 1
      <4>1. n \in 0 .. k /\ (n # 0 => n - 1 \in 0 .. k)
        BY <3>2
      <4>2. F[n] = IF n = 0 THEN Begun ELSE TakeLine(lines, F[n - 1], n)
        BY <2>1, <4>1 DEF BuildsUp
      <4>3. G[n] = F[n] /\ (n # 0 => G[n - 1] = F[n - 1])
        BY <4>1
      <4> HIDE DEF G
      <4> QED
        BY <4>2, <4>3
    <3> QED
      BY <3>1, <3>2
  <2>3. BuildsUp(G, lines, k + 1)
    <3>1. G = [n \in 0 .. k + 1 |-> G[n]]
      OBVIOUS
    <3> HIDE DEF G
    <3> QED
      BY <3>1, <2>2 DEF BuildsUp
  <2> HIDE DEF G
  <2> QED
    BY <2>3
<1>3. \A k \in Nat : k \in Solved
  <2> HIDE DEF Solved
  <2> QED
    BY <1>1, <1>2, NatInductive
<1>4. PICK len \in Nat : len = Len(lines)
  OBVIOUS
<1> DEFINE B == Building(lines)
<1>5. BuildsUp(B, lines, len)
  <2>1. \E F : BuildsUp(F, lines, len)
    BY <1>3
  <2> QED
    BY <2>1, <1>4 DEF Building, BuildsUp, Begun
<1> HIDE DEF B
<1>6. ASSUME NEW n \in 0 .. len
      PROVE  B[n] = IF n = 0 THEN Begun ELSE TakeLine(lines, B[n - 1], n)
  BY <1>5 DEF BuildsUp
<1> QED
  BY <1>4, <1>6 DEF B

\* The chunks hold the lines before built.from, all of them; the loop has
\* stopped at the limit of chunks or at a line without words.
Built(lines, built, i) ==
  /\ built \in [chunks : Seq(RawText), from : Nat, stopped : BOOLEAN]
  /\ built.from \in 1 .. i + 1
  /\ Len(built.chunks) <= MaxChunks
  /\ ~built.stopped => Len(built.chunks) < MaxChunks
  /\ built.stopped => \/ Len(built.chunks) = MaxChunks
                      \/ built.from <= i /\ lines[built.from].words = 0
  /\ Len(built.chunks) = 0 => built.from = 1
  /\ Len(built.chunks) # 0 => built.chunks[Len(built.chunks)].to = built.from - 1
  /\ \A j \in 1 .. built.from - 1 :
       \E k \in 1 .. Len(built.chunks) : j \in built.chunks[k].from .. built.chunks[k].to

\* A line that is read changes nothing of it.
LEMMA BuiltLater ==
  ASSUME NEW lines, NEW i \in Nat, NEW built, Built(lines, built, i)
  PROVE  Built(lines, built, i + 1)
BY DEF Built

\* Closing the open chunk keeps it; a chunk without words is never closed in
\* vain.
LEMMA CloseKeeps ==
  ASSUME NEW lines \in Seq(Line), NEW i \in Nat, i <= Len(lines), NEW built,
         Built(lines, built, i), ~built.stopped, NEW to \in 1 .. i, built.from <= to
  PROVE  /\ Built(lines, CloseChunk(lines, built, to), i)
         /\ \/ CloseChunk(lines, built, to).from = to + 1
            \/ /\ CloseChunk(lines, built, to) = [built EXCEPT !.stopped = TRUE]
               /\ \A j \in built.from .. to : lines[j].words = 0
<1> DEFINE chunk == RawChunk(lines, built.from, to)
           closed == CloseChunk(lines, built, to)
           n == Len(built.chunks)
<1>1. /\ built.chunks \in Seq(RawText) /\ built.from \in Nat \ {0} /\ n \in Nat
      /\ built.from \in 1 .. i + 1 /\ n < MaxChunks /\ MaxChunks \in Nat
      /\ built \in [chunks : Seq(RawText), from : Nat, stopped : BOOLEAN]
  BY ChunkingAssumption DEF Built
<1>2. /\ chunk \in RawText /\ chunk.from = built.from /\ chunk.to = to
      /\ \A j \in built.from .. to : lines[j].words <= chunk.words
  <2>1. PICK from \in Nat \ {0} : from = built.from
    BY <1>1
  <2>2. to \in Nat /\ from <= to + 1 /\ to <= Len(lines)
    BY <2>1
  <2> QED
    BY <2>1, <2>2, RawChunkTyped
<1>3. closed = IF chunk.words = 0 THEN [built EXCEPT !.stopped = TRUE]
               ELSE [chunks |-> Append(built.chunks, chunk), from |-> to + 1,
                     stopped |-> n + 1 >= MaxChunks]
  BY DEF CloseChunk
<1> HIDE DEF chunk, closed
<1>4. CASE chunk.words = 0
  <2>1. /\ closed \in [chunks : Seq(RawText), from : Nat, stopped : BOOLEAN]
        /\ closed.chunks = built.chunks /\ closed.from = built.from /\ closed.stopped = TRUE
    BY <1>1, <1>3, <1>4
  <2>2. ASSUME NEW j \in built.from .. to PROVE lines[j].words = 0
    <3>1. j \in 1 .. Len(lines)
      BY <1>1
    <3>2. lines[j] \in Line
      BY <3>1
    <3>3. lines[j].words \in Nat /\ lines[j].words <= 0
      BY <1>2, <1>4, <3>2 DEF Line
    <3> QED
      BY <3>3
  <2>3. built.from \in built.from .. to /\ built.from <= i
    BY <1>1
  <2>4. Built(lines, closed, i)
    BY <2>1, <2>2, <2>3 DEF Built
  <2> QED
    BY <1>3, <1>4, <2>2, <2>4 DEF closed
<1>5. CASE chunk.words # 0
  <2> DEFINE chunks == Append(built.chunks, chunk)
  <2>1. /\ chunks \in Seq(RawText) /\ Len(chunks) = n + 1 /\ chunks[n + 1] = chunk
        /\ \A k \in 1 .. n : chunks[k] = built.chunks[k]
    BY <1>1, <1>2
  <2> HIDE DEF chunks
  <2>2. /\ closed \in [chunks : Seq(RawText), from : Nat, stopped : BOOLEAN]
        /\ closed.chunks = chunks /\ closed.from = to + 1
        /\ closed.stopped = (n + 1 >= MaxChunks)
    BY <1>3, <1>5, <2>1 DEF chunks
  <2>3. ASSUME NEW j \in 1 .. to
        PROVE  \E k \in 1 .. n + 1 : j \in chunks[k].from .. chunks[k].to
    <3>1. CASE j < built.from
      <4>1. j \in 1 .. built.from - 1
        BY <1>1, <3>1
      <4>2. PICK k \in 1 .. n : j \in built.chunks[k].from .. built.chunks[k].to
        BY <4>1 DEF Built
      <4>3. k \in 1 .. n + 1 /\ chunks[k] = built.chunks[k]
        BY <1>1, <2>1
      <4> QED
        BY <4>2, <4>3
    <3>2. CASE j >= built.from
      <4>1. j \in chunks[n + 1].from .. chunks[n + 1].to /\ n + 1 \in 1 .. n + 1
        BY <1>1, <1>2, <2>1, <3>2
      <4> QED
        BY <4>1
    <3> QED
      BY <1>1, <3>1, <3>2
  <2>4. Built(lines, closed, i)
    <3>1. closed.from \in 1 .. i + 1 /\ closed.from - 1 = to
      BY <2>2
    <3>2. Len(closed.chunks) = n + 1 /\ closed.chunks[n + 1].to = to /\ n + 1 # 0
      BY <1>1, <1>2, <2>1, <2>2
    <3>3. n + 1 <= MaxChunks /\ (closed.stopped => n + 1 = MaxChunks)
          /\ (~closed.stopped => n + 1 < MaxChunks)
      BY <1>1, <2>2
    <3>4. \A j \in 1 .. closed.from - 1 :
            \E k \in 1 .. n + 1 : j \in closed.chunks[k].from .. closed.chunks[k].to
      BY <2>2, <2>3, <3>1
    <3> HIDE DEF n
    <3> QED
      BY <2>2, <3>1, <3>2, <3>3, <3>4 DEF Built
  <2> QED
    BY <2>2, <2>4 DEF closed
<1> QED
  BY <1>4, <1>5

\* Reading one line keeps it.
LEMMA TakeKeeps ==
  ASSUME NEW lines \in Seq(Line), NEW i \in 1 .. Len(lines), NEW built, Built(lines, built, i - 1)
  PROVE  Built(lines, TakeLine(lines, built, i), i)
<1> DEFINE Full(b, limit) == ~b.stopped /\ CountTokens(WordsIn(lines, b.from, i)) >= limit
           opened == IF built.from < i /\ Full(built, TargetTokens(lines) + 1)
                     THEN CloseChunk(lines, built, i - 1) ELSE built
<1>0. i \in Nat /\ i <= Len(lines) /\ i - 1 \in Nat /\ i - 1 <= Len(lines) /\ (i - 1) + 1 = i
  OBVIOUS
<1>1. Built(lines, opened, i - 1)
  <2>1. CASE built.from < i /\ Full(built, TargetTokens(lines) + 1)
    <3>1. built.from \in Nat \ {0} /\ ~built.stopped
      BY <2>1 DEF Built
    <3>2. i - 1 \in 1 .. i - 1 /\ built.from <= i - 1
      BY <2>1, <3>1
    <3>3. Built(lines, CloseChunk(lines, built, i - 1), i - 1)
      BY <1>0, <3>1, <3>2, CloseKeeps
    <3> QED
      BY <2>1, <3>3
  <2>2. CASE ~(built.from < i /\ Full(built, TargetTokens(lines) + 1))
    BY <2>2
  <2> QED
    BY <2>1, <2>2
<1>2. TakeLine(lines, built, i) =
        IF Full(opened, TargetTokens(lines)) THEN CloseChunk(lines, opened, i) ELSE opened
  BY DEF TakeLine
<1> HIDE DEF opened
<1>3. Built(lines, opened, i)
  BY <1>0, <1>1, BuiltLater
<1>4. CASE Full(opened, TargetTokens(lines))
  <2>1. opened.from \in 1 .. i /\ ~opened.stopped
    BY <1>0, <1>1, <1>4 DEF Built
  <2>2. i \in 1 .. i /\ opened.from <= i
    BY <2>1
  <2>3. Built(lines, CloseChunk(lines, opened, i), i)
    BY <1>0, <1>3, <2>1, <2>2, CloseKeeps
  <2> QED
    BY <1>2, <1>4, <2>3
<1>5. CASE ~Full(opened, TargetTokens(lines))
  <2> HIDE DEF Full
  <2> QED
    BY <1>2, <1>3, <1>5
<1> QED
  BY <1>4, <1>5

\* What the fallback loses: the end of the document, once it has used up
\* max_chunks_per_document or met a chunk without words.
LEMMA FallbackKeeps ==
  ASSUME NEW lines \in Seq(Line)
  PROVE  LET raws == BoundedFallbackChunks(lines)
             kept == IF Len(raws) = 0 THEN 0 ELSE raws[Len(raws)].to
             lost == {i \in 1 .. Len(lines) :
                        /\ lines[i].words > 0
                        /\ \A k \in 1 .. Len(raws) : ~(i \in raws[k].from .. raws[k].to)}
         IN /\ raws \in Seq(RawText)
            /\ \A i \in lost : i > kept
            /\ lost # {} => Len(raws) = MaxChunks \/ lines[kept + 1].words = 0
<1> DEFINE B == Building(lines)
<1>1. PICK n \in Nat : n = Len(lines)
  OBVIOUS
<1>2. B[0] = Begun /\ \A i \in 1 .. n : B[i] = TakeLine(lines, B[i - 1], i)
  BY <1>1, BuildingDefined
<1>3. BoundedFallbackChunks(lines) =
        IF B[n].stopped \/ B[n].from > n THEN B[n].chunks ELSE CloseChunk(lines, B[n], n).chunks
  BY <1>1 DEF BoundedFallbackChunks, Building
<1> HIDE DEF B
<1> DEFINE Good == {i \in Nat : i <= n => Built(lines, B[i], i)}
<1>4. 0 \in Good
  <2>1. MaxChunks \in Nat /\ 0 < MaxChunks
    BY ChunkingAssumption
  <2>2. Begun \in [chunks : Seq(RawText), from : Nat, stopped : BOOLEAN]
    BY DEF Begun
  <2>3. Begun.chunks = <<>> /\ Begun.from = 1 /\ Begun.stopped = FALSE /\ Len(<<>>) = 0
    BY DEF Begun
  <2>4. Built(lines, Begun, 0)
    BY <2>1, <2>2, <2>3 DEF Built
  <2> QED
    BY <1>2, <2>4
<1>5. ASSUME NEW i \in Nat, i \in Good PROVE i + 1 \in Good
  <2> SUFFICES ASSUME i + 1 <= n PROVE Built(lines, B[i + 1], i + 1)
    OBVIOUS
  <2>1. i + 1 \in 1 .. n /\ (i + 1) - 1 = i /\ i <= n
    OBVIOUS
  <2>2. Built(lines, B[i], i) /\ B[i + 1] = TakeLine(lines, B[i], i + 1)
    BY <1>2, <1>5, <2>1
  <2> QED
    BY <1>1, <2>1, <2>2, TakeKeeps
<1>6. Built(lines, B[n], n)
  <2> HIDE DEF Good
  <2>1. n \in Good
    BY <1>4, <1>5, NatInductive
  <2> QED
    BY <2>1 DEF Good
<1> DEFINE last == B[n]
           raws == BoundedFallbackChunks(lines)
           kept == IF Len(raws) = 0 THEN 0 ELSE raws[Len(raws)].to
           lost == {i \in 1 .. n :
                      /\ lines[i].words > 0
                      /\ \A k \in 1 .. Len(raws) : ~(i \in raws[k].from .. raws[k].to)}
\* The facts that follow from Built.
<1>7. ASSUME NEW b, Built(lines, b, n), raws = b.chunks
      PROVE  /\ raws \in Seq(RawText) /\ b.from \in 1 .. n + 1 /\ kept = b.from - 1
             /\ \A i \in lost : i >= b.from
             /\ b.stopped /\ lost # {} => Len(raws) = MaxChunks \/ lines[b.from].words = 0
  <2>1. raws \in Seq(RawText) /\ b.from \in 1 .. n + 1
    BY <1>7 DEF Built
  <2>2. kept = b.from - 1
    BY <1>7, <2>1 DEF Built
  <2>3. \A j \in 1 .. b.from - 1 : \E k \in 1 .. Len(raws) : j \in raws[k].from .. raws[k].to
    BY <1>7 DEF Built
  <2> HIDE DEF raws, kept
  <2>4. ASSUME NEW i \in lost PROVE i >= b.from
    BY <2>1, <2>3
  <2>5. b.stopped => Len(raws) = MaxChunks \/ lines[b.from].words = 0
    BY <1>7 DEF Built
  <2> QED
    BY <2>1, <2>2, <2>4, <2>5
<1> SUFFICES /\ raws \in Seq(RawText)
             /\ \A i \in lost : i > kept
             /\ lost # {} => Len(raws) = MaxChunks \/ lines[kept + 1].words = 0
  BY <1>1
<1> HIDE DEF raws, kept, lost, last
<1>8. CASE last.stopped \/ last.from > n
  <2>1. raws = last.chunks
    BY <1>3, <1>8 DEF raws, last
  <2>2. /\ raws \in Seq(RawText) /\ last.from \in 1 .. n + 1 /\ kept = last.from - 1
        /\ \A i \in lost : i >= last.from
        /\ last.stopped /\ lost # {} => Len(raws) = MaxChunks \/ lines[last.from].words = 0
    BY <1>6, <1>7, <2>1 DEF last
  <2>3. kept + 1 = last.from /\ \A i \in lost : i \in 1 .. n
    BY <2>2 DEF lost
  <2>4. ~last.stopped => lost = {}
    BY <1>8, <2>2, <2>3
  <2> QED
    BY <2>2, <2>3, <2>4
<1>9. CASE ~(last.stopped \/ last.from > n)
  <2> DEFINE closed == CloseChunk(lines, last, n)
  <2>1. raws = closed.chunks
    BY <1>3, <1>9 DEF raws, last
  <2>2. last.from \in 1 .. n + 1
    BY <1>6 DEF Built, last
  <2>3. n \in 1 .. n /\ last.from <= n /\ ~last.stopped
    BY <1>9, <2>2
  <2>4. /\ Built(lines, closed, n)
        /\ \/ closed.from = n + 1
           \/ /\ closed = [last EXCEPT !.stopped = TRUE]
              /\ \A j \in last.from .. n : lines[j].words = 0
    <3>1. Built(lines, last, n)
      BY <1>6 DEF last
    <3> QED
      BY <1>1, <2>3, <3>1, CloseKeeps
  <2> HIDE DEF closed
  <2>5. /\ raws \in Seq(RawText) /\ closed.from \in 1 .. n + 1 /\ kept = closed.from - 1
        /\ \A i \in lost : i >= closed.from
    BY <1>7, <2>1, <2>4
  <2>6. \A i \in lost : i \in 1 .. n /\ lines[i].words > 0
    BY DEF lost
  <2>7. lost = {}
    <3>1. CASE closed.from = n + 1
      BY <2>5, <2>6, <3>1
    <3>2. CASE closed = [last EXCEPT !.stopped = TRUE] /\ \A j \in last.from .. n : lines[j].words = 0
      <4>1. closed.from = last.from
        <5>1. last \in [chunks : Seq(RawText), from : Nat, stopped : BOOLEAN]
          BY <1>6 DEF Built, last
        <5> QED
          BY <3>2, <5>1
      <4>2. ASSUME NEW i \in lost PROVE FALSE
        <5>1. i \in last.from .. n
          BY <2>2, <2>5, <2>6, <4>1
        <5>2. lines[i].words = 0 /\ lines[i].words > 0
          BY <2>6, <3>2, <5>1
        <5> QED
          BY <5>2
      <4> QED
        BY <4>2
    <3> QED
      BY <2>4, <3>1, <3>2
  <2> QED
    BY <2>5, <2>7
<1> QED
  BY <1>8, <1>9

\* The raw chunks of a document are a list of texts.
LEMMA RawListed ==
  ASSUME NEW doc \in Documents
  PROVE  /\ RawChunks(doc) \in Seq(RawText) /\ Len(RawChunks(doc)) \in Nat
         /\ DOMAIN RawChunks(doc) = 1 .. Len(RawChunks(doc))
         /\ \A k \in DOMAIN RawChunks(doc) : RawChunks(doc)[k].words \in Nat
<1>1. Parse(doc) \in Seq(RawText) /\ doc.lines \in Seq(Line)
  BY ParserKeeps DEF Text
<1>2. BoundedFallbackChunks(doc.lines) \in Seq(RawText)
  BY <1>1, FallbackKeeps
<1>3. RawChunks(doc) \in Seq(RawText)
  BY <1>1, <1>2 DEF RawChunks
<1> HIDE DEF RawChunks
<1>4. Len(RawChunks(doc)) \in Nat /\ DOMAIN RawChunks(doc) = 1 .. Len(RawChunks(doc))
  BY <1>3
<1>5. ASSUME NEW k \in DOMAIN RawChunks(doc) PROVE RawChunks(doc)[k].words \in Nat
  <2>1. RawChunks(doc)[k] \in RawText
    BY <1>3
  <2> QED
    BY <2>1 DEF RawText
<1> QED
  BY <1>3, <1>4, <1>5

-----------------------------------------------------------------------------
(* split_text_by_tokens                                                     *)

Width == WordsFor(MaxChunkTokens)
Step  == WordsFor(MaxChunkTokens) - WordsFor(OverlapTokens)

\* Both are positive, and no wider step than a piece is made.
LEMMA Widths == Width \in Nat \ {0} /\ Step \in Nat \ {0} /\ Step <= Width
BY ChunkingAssumption DEF Width, Step, WordsFor

\* A text of at most Width words is within max_chunk_tokens.
LEMMA WidthFits ==
  ASSUME NEW n \in Nat, n <= Width
  PROVE  CountTokens(n) <= MaxChunkTokens
BY ChunkingAssumption DEF Width, WordsFor, CountTokens

\* Every piece of a text lies in it and is within max_chunk_tokens; where it
\* begins tells it from the others.
LEMMA SubTextsFit ==
  ASSUME NEW words \in Nat
  PROVE  /\ \A text \in SubTexts(words) :
              /\ text.at \in 0 .. words /\ text.words \in Nat
              /\ text.at + text.words <= words
              /\ CountTokens(text.words) <= MaxChunkTokens
         /\ \A s, t \in SubTexts(words) : s.at = t.at => s = t
<1>1. CASE CountTokens(words) <= MaxChunkTokens
  BY <1>1, ChunkingAssumption DEF SubTexts, CountTokens
<1>2. CASE words <= Width
  BY <1>2, WidthFits, Widths DEF SubTexts, SplitTextByTokens, Width
<1>3. CASE ~(CountTokens(words) <= MaxChunkTokens) /\ ~(words <= Width)
  <2>1. SubTexts(words) = {[at |-> s, words |-> Smaller(Width, words - s)] :
                             s \in {s \in 0 .. words - 1 : s % Step = 0}}
    BY <1>3, Widths, ChunkingAssumption
       DEF SubTexts, SplitTextByTokens, Width, Step, CountTokens
  <2>2. ASSUME NEW s \in 0 .. words - 1
        PROVE  /\ Smaller(Width, words - s) \in Nat /\ Smaller(Width, words - s) <= Width
               /\ s + Smaller(Width, words - s) <= words
    BY Widths DEF Smaller
  <2>3. ASSUME NEW text \in SubTexts(words)
        PROVE  /\ text.at \in 0 .. words /\ text.words \in Nat
               /\ text.at + text.words <= words
               /\ CountTokens(text.words) <= MaxChunkTokens
    <3>1. PICK s \in 0 .. words - 1 : text = [at |-> s, words |-> Smaller(Width, words - s)]
      BY <2>1
    <3> QED
      BY <2>2, <3>1, WidthFits
  <2> QED
    BY <2>1, <2>3
<1> QED
  BY <1>1, <1>2, <1>3

\* The pieces of a text leave no word out.
LEMMA SubTextsCover ==
  ASSUME NEW words \in Nat, NEW w \in 0 .. words - 1
  PROVE  \E text \in SubTexts(words) : w \in text.at .. text.at + text.words - 1
<1>1. CASE SubTexts(words) = {[at |-> 0, words |-> words]}
  BY <1>1
<1>2. CASE SubTexts(words) = {[at |-> s, words |-> Smaller(Width, words - s)] :
                                s \in {s \in 0 .. words - 1 : s % Step = 0}}
  <2>1. PICK s \in 0 .. w : s % Step = 0 /\ w < s + Step
    <3>1. w \in Nat
      OBVIOUS
    <3> HIDE DEF Step
    <3> QED
      BY <3>1, Widths, MultipleBelow
  <2>2. s \in 0 .. words - 1 /\ w \in s .. s + Smaller(Width, words - s) - 1
    BY <2>1, Widths DEF Smaller
  <2> DEFINE text == [at |-> s, words |-> Smaller(Width, words - s)]
  <2>3. text \in SubTexts(words)
    BY <1>2, <2>1, <2>2
  <2> QED
    BY <2>2, <2>3
<1> QED
  BY <1>1, <1>2 DEF SubTexts, SplitTextByTokens, Width, Step

\* split_text_by_tokens and the chunk loop lose no word of a raw chunk, for any
\* max_chunk_tokens and any overlap that is shorter: the first half of
\* TextIsSearchable.
THEOREM NoWordLost ==
  \A doc \in Documents : \A k \in DOMAIN RawOf[doc] :
    WordsKept(doc, k) = 0 .. RawOf[doc][k].words - 1
<1> SUFFICES ASSUME NEW doc \in Documents, NEW k \in DOMAIN RawOf[doc]
             PROVE  WordsKept(doc, k) = 0 .. RawOf[doc][k].words - 1
  OBVIOUS
<1> DEFINE words == RawOf[doc][k].words
<1>1. /\ RawOf[doc] = RawChunks(doc) /\ PiecesOf[doc] = Pieces(doc)
      /\ k \in DOMAIN RawChunks(doc) /\ words = RawChunks(doc)[k].words /\ words \in Nat
  BY RawListed DEF RawOf, PiecesOf
<1>2. {q \in Pieces(doc) : q.raw = k}
        = {[raw |-> k, at |-> text.at, words |-> text.words] : text \in SubTexts(words)}
  BY <1>1 DEF Pieces
<1> HIDE DEF words
<1>3. ASSUME NEW q \in Pieces(doc), q.raw = k
      PROVE  q.at .. q.at + q.words - 1 \subseteq 0 .. words - 1
  <2>1. PICK text \in SubTexts(words) :
               q = [raw |-> k, at |-> text.at, words |-> text.words]
    BY <1>2, <1>3
  <2>2. text.at \in Nat /\ text.words \in Nat /\ text.at + text.words <= words
    BY <1>1, SubTextsFit
  <2> QED
    BY <1>1, <2>1, <2>2
<1>4. ASSUME NEW w \in 0 .. words - 1
      PROVE  \E q \in Pieces(doc) : q.raw = k /\ w \in q.at .. q.at + q.words - 1
  <2>1. PICK text \in SubTexts(words) : w \in text.at .. text.at + text.words - 1
    BY <1>1, SubTextsCover
  <2> DEFINE q == [raw |-> k, at |-> text.at, words |-> text.words]
  <2>2. q \in Pieces(doc)
    BY <1>2
  <2> QED
    BY <2>1, <2>2
<1>5. WordsKept(doc, k) = 0 .. words - 1
  BY <1>1, <1>3, <1>4 DEF WordsKept
<1> QED
  BY <1>5 DEF words

\* The parsers and the fallback lose no line but the end of a long document, for
\* every text, every window of log lines and every limit on the chunks: the
\* second half of TextIsSearchable.
THEOREM NoLineLost ==
  \A doc \in Documents : KeepsText(doc) /\ LinesLost(doc) # {} =>
    LET raws == RawOf[doc]
        kept == IF raws = <<>> THEN 0 ELSE raws[Len(raws)].to
    IN /\ doc \in Regrouped
       /\ \A i \in LinesLost(doc) : i > kept
       /\ Len(raws) = MaxChunks \/ doc.lines[kept + 1].words = 0
<1> SUFFICES ASSUME NEW doc \in Documents, KeepsText(doc), LinesLost(doc) # {}
             PROVE  LET raws == RawOf[doc]
                        kept == IF raws = <<>> THEN 0 ELSE raws[Len(raws)].to
                    IN /\ doc \in Regrouped
                       /\ \A i \in LinesLost(doc) : i > kept
                       /\ Len(raws) = MaxChunks \/ doc.lines[kept + 1].words = 0
  OBVIOUS
<1> DEFINE raws == RawOf[doc]
           lines == doc.lines
           kept == IF raws = <<>> THEN 0 ELSE raws[Len(raws)].to
           last == IF Len(raws) = 0 THEN 0 ELSE raws[Len(raws)].to
           lost == {i \in 1 .. Len(lines) :
                      /\ lines[i].words > 0
                      /\ \A k \in 1 .. Len(raws) : ~(i \in raws[k].from .. raws[k].to)}
<1>1. /\ raws = RawChunks(doc) /\ raws \in Seq(RawText)
      /\ DOMAIN raws = 1 .. Len(raws) /\ lines \in Seq(Line)
  BY RawListed, ParserKeeps DEF RawOf, Text
<1>2. kept = last
  BY <1>1
<1>3. LinesLost(doc) = lost
  <2>1. DOMAIN lines = 1 .. Len(lines)
    BY <1>1
  <2> HIDE DEF raws
  <2> QED
    BY <1>1, <2>1 DEF LinesLost, LinesKept, raws
<1>4. doc \in Regrouped
  <2> SUFFICES ASSUME doc \notin Regrouped PROVE FALSE
    OBVIOUS
  <2>1. Covers(Parse(doc), lines)
    BY ParserKeeps DEF KeepsText, ParserOf
  <2>2. raws = Parse(doc)
    BY <1>1 DEF RawChunks, Regrouped
  <2> HIDE DEF raws
  <2>3. lost = {}
    BY <2>1, <2>2 DEF Covers
  <2> QED
    BY <1>3, <2>3
<1>5. raws = BoundedFallbackChunks(lines)
  BY <1>1, <1>4 DEF RawChunks, Regrouped
<1> HIDE DEF raws
<1>6. /\ \A i \in lost : i > last
      /\ lost # {} => Len(raws) = MaxChunks \/ lines[last + 1].words = 0
  BY <1>1, <1>5, FallbackKeeps
<1> HIDE DEF lost, kept, last
<1>7. /\ \A i \in LinesLost(doc) : i > kept
      /\ Len(raws) = MaxChunks \/ lines[kept + 1].words = 0
  BY <1>2, <1>3, <1>6
<1> QED
  BY <1>4, <1>7 DEF raws, kept

-----------------------------------------------------------------------------
(* The pieces of a document                                                 *)

\* A document has finitely many pieces, each within max_chunk_tokens.
LEMMA PiecesFinite ==
  ASSUME NEW doc \in Documents
  PROVE  /\ IsFiniteSet(PiecesOf[doc]) /\ Cardinality(PiecesOf[doc]) \in Nat
         /\ \A piece \in PiecesOf[doc] : CountTokens(piece.words) <= MaxChunkTokens
<1> DEFINE raws == RawChunks(doc)
           PiecesAt(k) == {[raw |-> k, at |-> text.at, words |-> text.words] :
                             text \in SubTexts(raws[k].words)}
           family == [k \in 1 .. Len(raws) |-> PiecesAt(k)]
<1>1. /\ Len(raws) \in Nat /\ DOMAIN raws = 1 .. Len(raws)
      /\ \A k \in 1 .. Len(raws) : raws[k].words \in Nat
  BY RawListed
<1>2. PiecesOf[doc] = UNION {PiecesAt(k) : k \in 1 .. Len(raws)}
  BY <1>1 DEF PiecesOf, Pieces
<1> HIDE DEF raws
<1>3. ASSUME NEW k \in 1 .. Len(raws)
      PROVE  /\ IsFiniteSet(PiecesAt(k))
             /\ \A piece \in PiecesAt(k) : CountTokens(piece.words) <= MaxChunkTokens
  <2> DEFINE words == raws[k].words
             place == [piece \in PiecesAt(k) |-> piece.at]
  <2>1. words \in Nat
    BY <1>1
  <2> HIDE DEF words
  <2>2. /\ \A text \in SubTexts(words) :
             text.at \in 0 .. words /\ CountTokens(text.words) <= MaxChunkTokens
        /\ \A s, t \in SubTexts(words) : s.at = t.at => s = t
    BY <2>1, SubTextsFit
  <2>3. PiecesAt(k) = {[raw |-> k, at |-> text.at, words |-> text.words] : text \in SubTexts(words)}
    BY DEF words
  <2> HIDE DEF PiecesAt
  <2>4. \A piece \in PiecesAt(k) : /\ piece.at \in 0 .. words
                                   /\ CountTokens(piece.words) <= MaxChunkTokens
    BY <2>2, <2>3
  <2>5. ASSUME NEW p \in PiecesAt(k), NEW q \in PiecesAt(k), p.at = q.at
        PROVE  p = q
    <3>1. PICK s \in SubTexts(words) : p = [raw |-> k, at |-> s.at, words |-> s.words]
      BY <2>3
    <3>2. PICK t \in SubTexts(words) : q = [raw |-> k, at |-> t.at, words |-> t.words]
      BY <2>3
    <3> QED
      BY <2>2, <2>5, <3>1, <3>2
  <2>6. place \in Injection(PiecesAt(k), 0 .. words)
    BY <2>4, <2>5 DEF Injection, IsInjective
  <2>7. IsFiniteSet(0 .. words)
    BY <2>1, FS_Interval
  <2> QED
    BY <2>4, <2>6, <2>7, FS_Injection
<1> HIDE DEF PiecesAt
<1>4. IsFiniteSet(1 .. Len(raws))
  BY <1>1, FS_Interval
<1>5. family \in Surjection(1 .. Len(raws), {PiecesAt(k) : k \in 1 .. Len(raws)})
  BY DEF Surjection
<1>6. IsFiniteSet({PiecesAt(k) : k \in 1 .. Len(raws)})
  BY <1>4, <1>5, FS_Surjection
<1>7. IsFiniteSet(PiecesOf[doc])
  BY <1>2, <1>3, <1>6, FS_UNION
<1> QED
  BY <1>2, <1>3, <1>7, FS_CardinalityType

-----------------------------------------------------------------------------
(* The invariant                                                            *)

Results == [created : Nat, updated : Nat, unchanged : Nat, invalid : Nat, chunks : Nat,
            errors : Seq(FailureReasons)]

WithError(old, n, errors) == [old EXCEPT !.invalid = n, !.errors = errors]
WithStored(old, n, m, c) == [old EXCEPT !.created = n, !.updated = m, !.chunks = c]

\* Updates of a result are results, with the other fields as they were.
LEMMA ErrorUpdate ==
  ASSUME NEW old \in Results, NEW n \in Nat, NEW errors \in Seq(FailureReasons)
  PROVE  /\ WithError(old, n, errors) \in Results
         /\ WithError(old, n, errors).created = old.created
         /\ WithError(old, n, errors).updated = old.updated
         /\ WithError(old, n, errors).unchanged = old.unchanged
         /\ WithError(old, n, errors).invalid = n
         /\ WithError(old, n, errors).errors = errors
<1> DEFINE E == Seq(FailureReasons)
<1>1. errors \in E
  OBVIOUS
<1>2. Results = [created : Nat, updated : Nat, unchanged : Nat, invalid : Nat, chunks : Nat,
                 errors : E]
  BY DEF Results
<1> HIDE DEF E
<1> QED
  BY <1>1, <1>2 DEF WithError

\* A result stays one when another document is counted as unchanged.
LEMMA UnchangedUpdate ==
  ASSUME NEW old \in Results, NEW n \in Nat,
         NEW new, new = [old EXCEPT !.unchanged = n]
  PROVE  /\ new \in Results /\ new.created = old.created /\ new.updated = old.updated
         /\ new.unchanged = n /\ new.invalid = old.invalid /\ new.errors = old.errors
<1> DEFINE E == Seq(FailureReasons)
<1>1. Results = [created : Nat, updated : Nat, unchanged : Nat, invalid : Nat, chunks : Nat,
                 errors : E]
  BY DEF Results
<1> HIDE DEF E
<1> QED
  BY <1>1

\* The counts of a stored document replace the old ones.
LEMMA StoreUpdate ==
  ASSUME NEW old \in Results, NEW n \in Nat, NEW m \in Nat, NEW c \in Nat
  PROVE  /\ WithStored(old, n, m, c) \in Results
         /\ WithStored(old, n, m, c).created = n
         /\ WithStored(old, n, m, c).updated = m
         /\ WithStored(old, n, m, c).unchanged = old.unchanged
         /\ WithStored(old, n, m, c).invalid = old.invalid
         /\ WithStored(old, n, m, c).errors = old.errors
<1> DEFINE E == Seq(FailureReasons)
<1>1. Results = [created : Nat, updated : Nat, unchanged : Nat, invalid : Nat, chunks : Nat,
                 errors : E]
  BY DEF Results
<1> HIDE DEF E
<1> QED
  BY <1>1 DEF WithStored

\* What TypeOK leaves open: the batch is a list and the result has its six fields.
DataTypes ==
  /\ todo \in Seq(Documents)
  /\ result \in Results

BatchInv ==
  /\ TypeOK
  /\ DataTypes
  /\ EveryDocumentCounted
  /\ PiecesWithinLimits

\* The failure taxonomy is closed.
LEMMA PublicCodes == \A code : PublicCode(code) \in FailureReasons
BY DEF PublicCode, FailureReasons

\* The initial state satisfies the invariant.
LEMMA InitInv == Init => BatchInv
<1> SUFFICES ASSUME Init PROVE BatchInv
  OBVIOUS
<1> USE BatchAssumption
<1>1. received \in Nat /\ todo \in Seq(Documents) /\ Len(todo) = received
  BY DEF Init
<1>2. EmptyResult \in Results
  BY DEF EmptyResult, Results
<1>3. TypeOK
  <2>1. ToSet(todo) \subseteq Documents /\ received \in 1 .. MaxBatch /\ Len(todo) <= received
    BY <1>1 DEF Init, ToSet
  <2>2. store \in [Ids -> Documents \cup {None}] /\ seen \subseteq Ids /\ fresh \in BOOLEAN
    BY DEF Init
  <2>3. /\ {result.created, result.updated, result.unchanged, result.invalid, result.chunks}
             \subseteq Nat
        /\ \A k \in DOMAIN result.errors : result.errors[k] \in FailureReasons
    BY DEF Init, EmptyResult
  <2> QED
    BY <2>1, <2>2, <2>3 DEF TypeOK
<1>4. EveryDocumentCounted
  BY <1>1 DEF Init, EveryDocumentCounted, EmptyResult
<1>5. PiecesWithinLimits
  <2> SUFFICES ASSUME NEW id \in Ids, store[id] # None
               PROVE  /\ Cardinality(PiecesOf[store[id]]) <= MaxChunks
                      /\ \A piece \in PiecesOf[store[id]] :
                           CountTokens(piece.words) <= MaxChunkTokens
    BY DEF PiecesWithinLimits
  <2>1. store[id] \in Earlier /\ store[id] \in Documents
    BY DEF Init
  <2>2. Cardinality(PiecesOf[store[id]]) <= MaxChunks
    BY <2>1, EarlierAssumption DEF PiecesOf
  <2> QED
    BY <2>1, <2>2, PiecesFinite
<1> QED
  BY <1>1, <1>2, <1>3, <1>4, <1>5 DEF BatchInv, DataTypes, Init

\* What every step but the last has in common: the head of the batch is done.
LEMMA ContinueKeeps ==
  ASSUME BatchInv, todo # <<>>, Continue
  PROVE  /\ todo' \in Seq(Documents) /\ ToSet(todo') \subseteq Documents
         /\ Len(todo') = Len(todo) - 1 /\ Len(todo') \in Nat
         /\ Doc \in Documents /\ Doc.id \in Ids
         /\ received' = received /\ fresh' = fresh
BY DEF BatchInv, DataTypes, Continue, Doc, Ids, ToSet

\* One more in the sum of the first two is one more in the sum of all four.
LEMMA Regroup ==
  ASSUME NEW a \in Nat, NEW b \in Nat, NEW c \in Nat, NEW d \in Nat, NEW e \in Nat, NEW f \in Nat,
         a + b = e + f + 1
  PROVE  a + b + c + d = e + f + c + d + 1
OBVIOUS

\* The sums stay right when the document that is done is counted once.
LEMMA CountKeeps ==
  ASSUME BatchInv, NEW new \in Results, result' = new, received' = received,
         Len(todo') = Len(todo) - 1,
         new.created + new.updated + new.unchanged + new.invalid
           = result.created + result.updated + result.unchanged + result.invalid + 1,
         Len(new.errors) = new.invalid
  PROVE  EveryDocumentCounted'
<1>1. received \in Nat /\ Len(todo) \in Nat
  BY DEF BatchInv, TypeOK, DataTypes
<1>2. result.created + result.updated + result.unchanged + result.invalid = received - Len(todo)
  BY DEF BatchInv, EveryDocumentCounted
<1>3. new.created + new.updated + new.unchanged + new.invalid = received - (Len(todo) - 1)
  BY <1>1, <1>2
<1> QED
  BY <1>3 DEF EveryDocumentCounted

\* An error counts the document as invalid and leaves the stores alone.
LEMMA ErrorKeeps ==
  ASSUME BatchInv, todo # <<>>, Continue, NEW code, Error(code), UNCHANGED store,
         seen' \subseteq Ids
  PROVE  BatchInv'
<1> USE DEF BatchInv
<1> DEFINE public == PublicCode(code)
<1>1. /\ todo' \in Seq(Documents) /\ ToSet(todo') \subseteq Documents
      /\ Len(todo') = Len(todo) - 1 /\ Len(todo') \in Nat /\ received' = received /\ fresh' = fresh
  BY ContinueKeeps
<1>2. public \in FailureReasons
  BY PublicCodes
<1>3. result' = [result EXCEPT !.invalid = @ + 1, !.errors = Append(@, public)]
  BY DEF Error
<1> HIDE DEF public
<1>4. /\ result \in Results /\ Len(result.errors) = result.invalid
      /\ result.created \in Nat /\ result.updated \in Nat
      /\ result.unchanged \in Nat /\ result.invalid \in Nat
  BY DEF DataTypes, Results, EveryDocumentCounted
<1> DEFINE errors == Append(result.errors, public)
<1>5. errors \in Seq(FailureReasons) /\ Len(errors) = Len(result.errors) + 1
  BY <1>2, <1>4 DEF Results
<1>6. result' = WithError(result, result.invalid + 1, errors)
  BY <1>3 DEF WithError
<1> HIDE DEF errors
<1>7. PICK new : new = WithError(result, result.invalid + 1, errors)
  OBVIOUS
<1>8. /\ new \in Results /\ new.created = result.created /\ new.updated = result.updated
      /\ new.unchanged = result.unchanged /\ new.invalid = result.invalid + 1
      /\ new.errors = errors
  <2>1. PICK n \in Nat : n = result.invalid + 1
    BY <1>4
  <2>2. new = WithError(result, n, errors)
    BY <1>7, <2>1
  <2>3. /\ WithError(result, n, errors) \in Results
        /\ WithError(result, n, errors).created = result.created
        /\ WithError(result, n, errors).updated = result.updated
        /\ WithError(result, n, errors).unchanged = result.unchanged
        /\ WithError(result, n, errors).invalid = n
        /\ WithError(result, n, errors).errors = errors
    BY <1>4, <1>5, ErrorUpdate
  <2> QED
    BY <2>1, <2>2, <2>3
<1>9. result' = new
  BY <1>6, <1>7
<1>10. TypeOK' /\ DataTypes'
  BY <1>1, <1>8, <1>9 DEF TypeOK, DataTypes, Results
<1>11. EveryDocumentCounted'
  <2>1. /\ new.created + new.updated + new.unchanged + new.invalid
             = result.created + result.updated + result.unchanged + result.invalid + 1
        /\ Len(new.errors) = new.invalid
    BY <1>4, <1>5, <1>8
  <2> QED
    BY <1>1, <1>8, <1>9, <2>1, CountKeeps
<1>12. PiecesWithinLimits'
  BY DEF PiecesWithinLimits
<1> QED
  BY <1>10, <1>11, <1>12

\* BatchInv is inductive: one step per action.
LEMMA NextInv == BatchInv /\ [Next]_vars => BatchInv'
<1> SUFFICES ASSUME BatchInv, [Next]_vars PROVE BatchInv'
  OBVIOUS
<1> USE DEF BatchInv
<1>a. todo # <<>> => Doc \in Documents /\ Doc.id \in Ids /\ (seen \cup {Doc.id}) \subseteq Ids
  BY DEF Doc, DataTypes, TypeOK, Ids
<1>b. /\ received \in Nat /\ Len(todo) \in Nat /\ Len(result.errors) \in Nat /\ result \in Results
      /\ result.created \in Nat /\ result.updated \in Nat
      /\ result.unchanged \in Nat /\ result.invalid \in Nat
      /\ result.created + result.updated + result.unchanged + result.invalid
           = received - Len(todo)
      /\ Len(result.errors) = result.invalid
  BY DEF DataTypes, Results, TypeOK, EveryDocumentCounted
<1>c. /\ result.created \in Nat /\ result.updated \in Nat
      /\ result.unchanged \in Nat /\ result.invalid \in Nat
  BY <1>b
<1>1. CASE SkipInvalid
  BY <1>1, ErrorKeeps DEF SkipInvalid, TypeOK
<1>2. CASE SkipDuplicate
  BY <1>2, ErrorKeeps DEF SkipDuplicate, TypeOK
<1>3. CASE SkipUnchanged
  <2>1. /\ todo' \in Seq(Documents) /\ ToSet(todo') \subseteq Documents
        /\ Len(todo') = Len(todo) - 1 /\ Len(todo') \in Nat /\ received' = received
        /\ fresh' = fresh /\ store' = store /\ seen' \subseteq Ids
    BY <1>3, <1>a, ContinueKeeps DEF SkipUnchanged, Indexing
  <2>2. PICK new : new = [result EXCEPT !.unchanged = result.unchanged + 1]
    OBVIOUS
  <2>3. result' = new
    BY <1>3, <2>2 DEF SkipUnchanged
  <2>4. /\ new \in Results /\ new.created = result.created /\ new.updated = result.updated
        /\ new.unchanged = result.unchanged + 1 /\ new.invalid = result.invalid
        /\ new.errors = result.errors
    <3>1. result.unchanged + 1 \in Nat
      BY <1>b
    <3> QED
      BY <1>b, <2>2, <3>1, UnchangedUpdate
  <2>5. TypeOK' /\ DataTypes'
    BY <2>1, <2>3, <2>4 DEF TypeOK, DataTypes, Results
  <2>6. EveryDocumentCounted'
    <3>1. /\ new.created + new.updated + new.unchanged + new.invalid
               = result.created + result.updated + result.unchanged + result.invalid + 1
          /\ Len(new.errors) = new.invalid
      <4>1. Len(new.errors) = new.invalid
        BY <1>b, <2>4
      <4> QED
        BY <1>c, <2>4, <4>1
    <3> QED
      BY <2>1, <2>3, <2>4, <3>1, CountKeeps
  <2>7. PiecesWithinLimits'
    BY <2>1 DEF PiecesWithinLimits
  <2> QED
    BY <2>5, <2>6, <2>7
<1>4. ASSUME Indexing, NEW code, Refuse(code) PROVE BatchInv'
  BY <1>4, <1>a, ErrorKeeps DEF Indexing, Refuse
<1>5. CASE RefuseUnparsed \/ RefuseTooLong \/ RefuseUnembedded \/ RefuseUnpublished \/ RefuseRaised
  BY <1>4, <1>5 DEF RefuseUnparsed, RefuseTooLong, RefuseUnembedded, RefuseUnpublished, RefuseRaised
<1>6. CASE Store
  <2> DEFINE pieces == Cardinality(PiecesOf[Doc])
             made == IF store[Doc.id] = None THEN result.created + 1 ELSE result.created
             remade == IF store[Doc.id] # None THEN result.updated + 1 ELSE result.updated
  <2>1. /\ todo # <<>> /\ Chunked /\ Continue /\ seen' = seen \cup {Doc.id}
        /\ store' = [store EXCEPT ![Doc.id] = Doc]
    BY <1>6 DEF Store, Indexing
  <2>2. /\ todo' \in Seq(Documents) /\ ToSet(todo') \subseteq Documents
        /\ Len(todo') = Len(todo) - 1 /\ Len(todo') \in Nat /\ received' = received
        /\ fresh' = fresh /\ Doc \in Documents /\ Doc.id \in Ids /\ seen' \subseteq Ids
    BY <1>a, <2>1, ContinueKeeps
  <2>3. /\ pieces \in Nat /\ pieces <= MaxChunks /\ made \in Nat /\ remade \in Nat
        /\ made + remade = result.created + result.updated + 1 /\ result.chunks + pieces \in Nat
    <3>1. pieces \in Nat /\ pieces <= MaxChunks
      BY <2>1, <2>2, PiecesFinite DEF Chunked
    <3>2. made \in Nat /\ remade \in Nat /\ made + remade = result.created + result.updated + 1
      <4>1. CASE store[Doc.id] = None
        BY <1>c, <4>1
      <4>2. CASE store[Doc.id] # None
        BY <1>c, <4>2
      <4> QED
        BY <4>1, <4>2
    <3>3. result.chunks \in Nat
      BY <1>b DEF Results
    <3> QED
      BY <3>1, <3>2, <3>3
  <2>4. result' = WithStored(result, made, remade, result.chunks + pieces)
    BY <1>6 DEF Store, WithStored
  <2> HIDE DEF pieces, made, remade
  <2>5. PICK new : new = WithStored(result, made, remade, result.chunks + pieces)
    OBVIOUS
  <2>a. result' = new
    BY <2>4, <2>5
  <2>b. /\ new \in Results /\ new.created = made /\ new.updated = remade
        /\ new.unchanged = result.unchanged
        /\ new.invalid = result.invalid /\ new.errors = result.errors
    <3>1. result \in Results
      BY <1>b
    <3>2. made \in Nat /\ remade \in Nat /\ result.chunks + pieces \in Nat
      BY <2>3
    <3>3. new = WithStored(result, made, remade, result.chunks + pieces)
      BY <2>5
    <3>4. PICK n \in Nat, m \in Nat, c \in Nat :
            n = made /\ m = remade /\ c = result.chunks + pieces
      BY <3>2
    <3>5. new = WithStored(result, n, m, c)
      BY <3>3, <3>4
    <3>6. /\ WithStored(result, n, m, c) \in Results
          /\ WithStored(result, n, m, c).created = n
          /\ WithStored(result, n, m, c).updated = m
          /\ WithStored(result, n, m, c).unchanged = result.unchanged
          /\ WithStored(result, n, m, c).invalid = result.invalid
          /\ WithStored(result, n, m, c).errors = result.errors
      BY <3>1, StoreUpdate
    <3> QED
      BY <3>4, <3>5, <3>6
  <2>6. store' \in [Ids -> Documents \cup {None}]
    BY <2>1, <2>2 DEF TypeOK
  <2>7. TypeOK' /\ DataTypes'
    BY <2>2, <2>a, <2>b, <2>6 DEF TypeOK, DataTypes, Results
  <2>8. EveryDocumentCounted'
    <3>1. /\ new.created + new.updated + new.unchanged + new.invalid
               = result.created + result.updated + result.unchanged + result.invalid + 1
          /\ Len(new.errors) = new.invalid
      <4>1. Len(new.errors) = new.invalid
        BY <1>b, <2>b
      <4>2. made + remade + result.unchanged + result.invalid
              = result.created + result.updated + result.unchanged + result.invalid + 1
        BY <1>c, <2>3, Regroup
      <4> QED
        BY <2>b, <4>1, <4>2
    <3> QED
      BY <2>2, <2>a, <2>b, <3>1, CountKeeps
  <2>9. PiecesWithinLimits'
    <3> SUFFICES ASSUME NEW id \in Ids, store'[id] # None
                 PROVE  /\ Cardinality(PiecesOf[store'[id]]) <= MaxChunks
                        /\ \A piece \in PiecesOf[store'[id]] :
                             CountTokens(piece.words) <= MaxChunkTokens
      BY DEF PiecesWithinLimits
    <3>1. CASE id = Doc.id
      <4>1. store'[id] = Doc
        BY <2>1, <2>2, <3>1 DEF TypeOK
      <4> QED
        BY <2>2, <2>3, <4>1, PiecesFinite DEF pieces
    <3>2. CASE id # Doc.id
      BY <2>1, <3>2 DEF PiecesWithinLimits, TypeOK
    <3> QED
      BY <3>1, <3>2
  <2> QED
    BY <2>7, <2>8, <2>9
<1>7. CASE InvalidateProject
  BY <1>7 DEF InvalidateProject, TypeOK, DataTypes, EveryDocumentCounted, PiecesWithinLimits
<1>8. CASE UNCHANGED vars
  BY <1>8 DEF vars, TypeOK, DataTypes, EveryDocumentCounted, PiecesWithinLimits
<1> QED
  BY <1>1, <1>2, <1>3, <1>5, <1>6, <1>7, <1>8 DEF Next

-----------------------------------------------------------------------------
(* The theorems                                                             *)

\* Every reachable state of a batch satisfies the invariant.
THEOREM Invariance == Spec => []BatchInv
<1> QED
  BY InitInv, NextInv, PTL DEF Spec

\* The counters stay numbers and every error has a public reason.
THEOREM TypeCorrect == Spec => []TypeOK
<1>1. BatchInv => TypeOK
  BY DEF BatchInv
<1> QED
  BY Invariance, <1>1, PTL

\* index_normalized_documents counts every document once, whichever of them
\* are refused at which stage.
THEOREM AllCounted == Spec => []EveryDocumentCounted
<1>1. BatchInv => EveryDocumentCounted
  BY DEF BatchInv
<1> QED
  BY Invariance, <1>1, PTL

\* What is stored respects max_chunks_per_document and max_chunk_tokens, for
\* every setting of the two and of the overlap.
THEOREM LimitsRespected == Spec => []PiecesWithinLimits
<1>1. BatchInv => PiecesWithinLimits
  BY DEF BatchInv
<1> QED
  BY Invariance, <1>1, PTL

\* A stored document can be found by every word of its text, whatever the batch
\* was and whatever the limits are: only the bounded fallback loses text, and only
\* the end of the document.
THEOREM Searchable == Spec => []TextIsSearchable
<1>1. BatchInv => TextIsSearchable
  <2> SUFFICES ASSUME BatchInv, NEW id \in Ids, store[id] # None, KeepsText(store[id])
               PROVE  LET doc  == store[id]
                          raws == RawOf[doc]
                      IN /\ \A k \in DOMAIN raws : WordsKept(doc, k) = 0 .. raws[k].words - 1
                         /\ LinesLost(doc) # {} =>
                              LET kept == IF raws = <<>> THEN 0 ELSE raws[Len(raws)].to
                              IN /\ doc \in Regrouped
                                 /\ \A i \in LinesLost(doc) : i > kept
                                 /\ Len(raws) = MaxChunks \/ doc.lines[kept + 1].words = 0
    BY DEF TextIsSearchable
  <2>1. PICK doc \in Documents : doc = store[id]
    BY DEF BatchInv, TypeOK
  <2>2. KeepsText(doc)
    BY <2>1
  <2>3. \A k \in DOMAIN RawOf[doc] : WordsKept(doc, k) = 0 .. RawOf[doc][k].words - 1
    BY NoWordLost
  <2>4. LinesLost(doc) # {} =>
          LET raws == RawOf[doc]
              kept == IF raws = <<>> THEN 0 ELSE raws[Len(raws)].to
          IN /\ doc \in Regrouped
             /\ \A i \in LinesLost(doc) : i > kept
             /\ Len(raws) = MaxChunks \/ doc.lines[kept + 1].words = 0
    BY <2>2, NoLineLost
  <2> QED
    BY <2>1, <2>3, <2>4
<1> QED
  BY Invariance, <1>1, PTL
=============================================================================
