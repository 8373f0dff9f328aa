----------------------- MODULE EmbeddingBatcher_proofs -----------------------
(***************************************************************************)
(* Proofs about EmbeddingBatcher, for any number of calls, any sizes and   *)
(* kinds of requests, any max_texts and any number of cancellations.       *)
(***************************************************************************)
EXTENDS EmbeddingBatcher, WellFoundedInduction, SequenceTheorems, TLAPS

-----------------------------------------------------------------------------
(* Concatenations                                                           *)

\* Induction on the natural numbers, for a set: its complement has no least
\* element.
LEMMA SetInduction ==
  ASSUME NEW T, 0 \in T, \A n \in Nat : n \in T => n + 1 \in T
  PROVE  \A n \in Nat : n \in T
<1> DEFINE U == Nat \ T
<1> SUFFICES ASSUME U # {} PROVE FALSE
  OBVIOUS
<1>1. \E x \in U : \A y \in U : ~(<<y, x>> \in OpToRel(<, Nat))
  BY NatLessThanWellFounded, WFMin
<1>2. PICK x \in U : \A y \in U : ~(y < x)
  BY <1>1 DEF OpToRel
<1>3. x - 1 \in Nat /\ x - 1 \notin U
  BY <1>2
<1> QED
  BY <1>3

\* The recursive function in the definition of FlattenSeq
Flatten(seqs) ==
  LET flatten[i \in 1 .. Len(seqs)] ==
        IF i = 1 THEN seqs[i] ELSE flatten[i-1] \o seqs[i]
  IN  flatten

\* F obeys the recursion of FlattenSeq up to n.
Follows(F, seqs, n) ==
  F = [i \in 1 .. n |-> IF i = 1 THEN seqs[i] ELSE F[i-1] \o seqs[i]]

\* The recursion has a solution.
LEMMA FlattenDefined ==
  ASSUME NEW T, NEW seqs \in Seq(Seq(T))
  PROVE  /\ Follows(Flatten(seqs), seqs, Len(seqs))
         /\ \A i \in 1 .. Len(seqs) : Flatten(seqs)[i] \in Seq(T)
<1> DEFINE Solved == {n \in Nat : n <= Len(seqs) => \E F : Follows(F, seqs, n)}
<1>1. 0 \in Solved
  <2>1. Follows([i \in 1 .. 0 |-> <<>>], seqs, 0)
    BY DEF Follows
  <2> QED
    BY <2>1
<1>2. ASSUME NEW n \in Nat, n \in Solved PROVE n + 1 \in Solved
  <2> SUFFICES ASSUME n + 1 <= Len(seqs) PROVE \E F : Follows(F, seqs, n + 1)
    OBVIOUS
  <2>1. PICK F : Follows(F, seqs, n)
    BY <1>2
  <2> DEFINE G == [i \in 1 .. n + 1 |->
                     IF i = n + 1 THEN (IF i = 1 THEN seqs[i] ELSE F[i-1] \o seqs[i]) ELSE F[i]]
  <2>2. ASSUME NEW i \in 1 .. n + 1
        PROVE  G[i] = IF i = 1 THEN seqs[i] ELSE G[i-1] \o seqs[i]
    <3>1. CASE i = n + 1
      BY <3>1
    <3>2. CASE i # n + 1
      <4>1. i \in 1 .. n /\ (i # 1 => i - 1 \in 1 .. n)
        BY <3>2
      <4>2. F[i] = IF i = 1 THEN seqs[i] ELSE F[i-1] \o seqs[i]
        BY <2>1, <4>1 DEF Follows
      <4> QED
        BY <4>1, <4>2
    <3> QED
      BY <3>1, <3>2
  <2>3. Follows(G, seqs, n + 1)
    <3> HIDE DEF G
    <3>1. G = [i \in 1 .. n + 1 |-> G[i]]
      BY DEF G
    <3> QED
      BY <3>1, <2>2 DEF Follows
  <2> QED
    BY <2>3
<1>3. \A n \in Nat : n \in Solved
  <2> HIDE DEF Solved
  <2> QED
    BY <1>1, <1>2, SetInduction
<1>4. Len(seqs) \in Nat /\ \E F : Follows(F, seqs, Len(seqs))
  BY <1>3
<1>5. Follows(Flatten(seqs), seqs, Len(seqs))
  BY <1>4 DEF Flatten, Follows
<1> DEFINE F == Flatten(seqs)
           Typed == {n \in Nat : n \in 1 .. Len(seqs) => F[n] \in Seq(T)}
<1> HIDE DEF F
<1>6. \A i \in 1 .. Len(seqs) : F[i] = IF i = 1 THEN seqs[i] ELSE F[i-1] \o seqs[i]
  BY <1>5 DEF Follows, F
<1>7. 0 \in Typed
  OBVIOUS
<1>8. ASSUME NEW n \in Nat, n \in Typed PROVE n + 1 \in Typed
  <2> SUFFICES ASSUME n + 1 \in 1 .. Len(seqs) PROVE F[n + 1] \in Seq(T)
    OBVIOUS
  <2>1. seqs[n + 1] \in Seq(T)
    OBVIOUS
  <2>2. CASE n = 0
    BY <2>1, <2>2, <1>6
  <2>3. CASE n # 0
    <3>0. n \in 1 .. Len(seqs) /\ n + 1 # 1 /\ (n + 1) - 1 = n
      BY <2>3
    <3>1. F[n] \in Seq(T) /\ F[n + 1] = F[n] \o seqs[n + 1]
      BY <3>0, <1>6, <1>8
    <3> QED
      BY <3>1, <2>1
  <2> QED
    BY <2>2, <2>3
<1>9. \A n \in Nat : n \in Typed
  <2> HIDE DEF Typed
  <2> QED
    BY <1>7, <1>8, SetInduction
<1> QED
  BY <1>5, <1>9 DEF F

\* The concatenation is a sequence, and grows at its end.
LEMMA FlattenAppend ==
  ASSUME NEW T, NEW seqs \in Seq(Seq(T)), NEW last \in Seq(T)
  PROVE  /\ FlattenSeq(seqs) \in Seq(T)
         /\ FlattenSeq(Append(seqs, last)) = FlattenSeq(seqs) \o last
<1> DEFINE n == Len(seqs)
           more == Append(seqs, last)
           F == Flatten(seqs)
           G == Flatten(more)
<1>1. /\ more \in Seq(Seq(T)) /\ Len(more) = n + 1 /\ n \in Nat /\ more[n + 1] = last
      /\ \A i \in 1 .. n : more[i] = seqs[i]
  OBVIOUS
<1>2. FlattenSeq(more) = G[n + 1]
  <2> HIDE DEF more
  <2> QED
    BY <1>1 DEF FlattenSeq, Flatten
<1>3. n # 0 => FlattenSeq(seqs) = F[n]
  BY DEF FlattenSeq, Flatten
<1>4. n = 0 => FlattenSeq(seqs) = <<>>
  BY DEF FlattenSeq
<1>5. \A i \in 1 .. n : F[i] \in Seq(T) /\ F[i] = IF i = 1 THEN seqs[i] ELSE F[i-1] \o seqs[i]
  <2> HIDE DEF F
  <2>1. Follows(F, seqs, n) /\ \A i \in 1 .. n : F[i] \in Seq(T)
    BY FlattenDefined DEF F
  <2> QED
    BY <2>1 DEF Follows
<1>6. \A i \in 1 .. n + 1 : G[i] = IF i = 1 THEN more[i] ELSE G[i-1] \o more[i]
  <2> HIDE DEF G, more
  <2>1. Follows(G, more, n + 1)
    BY <1>1, FlattenDefined DEF G
  <2> QED
    BY <2>1 DEF Follows
<1> HIDE DEF F, G, more, n
<1> DEFINE Same == {k \in Nat : k \in 1 .. n => G[k] = F[k]}
<1>7. 0 \in Same
  OBVIOUS
<1>8. ASSUME NEW k \in Nat, k \in Same PROVE k + 1 \in Same
  <2> SUFFICES ASSUME k + 1 \in 1 .. n PROVE G[k + 1] = F[k + 1]
    OBVIOUS
  <2>1. CASE k = 0
    BY <2>1, <1>1, <1>5, <1>6
  <2>2. CASE k # 0
    <3>1. k \in 1 .. n /\ k + 1 # 1 /\ (k + 1) - 1 = k /\ k + 1 \in 1 .. n + 1
      BY <2>2, <1>1
    <3> QED
      BY <3>1, <1>1, <1>5, <1>6, <1>8
  <2> QED
    BY <2>1, <2>2
<1>9. \A k \in Nat : k \in Same
  <2> HIDE DEF Same
  <2> QED
    BY <1>7, <1>8, SetInduction
<1>10. CASE n = 0
  <2>1. G[1] = last
    BY <1>1, <1>6, <1>10
  <2> QED
    BY <2>1, <1>1, <1>2, <1>4, <1>10 DEF more
<1>11. CASE n # 0
  <2>1. n \in 1 .. n /\ n + 1 \in 1 .. n + 1 /\ (n + 1) - 1 = n /\ n + 1 # 1
    BY <1>1, <1>11
  <2>2. G[n + 1] = F[n] \o last
    BY <2>1, <1>1, <1>6, <1>9
  <2> QED
    BY <2>1, <2>2, <1>2, <1>3, <1>5, <1>11 DEF more
<1> QED
  BY <1>10, <1>11

-----------------------------------------------------------------------------
(* The texts of a batch                                                     *)

Text == Calls \X Nat

\* A request has as many texts as its size says.
LEMMA TextsType ==
  ASSUME NEW c \in Calls
  PROVE  Texts(c) \in Seq(Text) /\ Len(Texts(c)) = Size[c] /\ Size[c] \in Nat
  BY BatcherAssumption DEF Texts, Text

\* The texts of a batch are those of its requests in their order.
LEMMA AllTextsAppend ==
  ASSUME NEW requests \in Seq(Calls), NEW c \in Calls
  PROVE  /\ AllTexts(requests) \in Seq(Text) /\ Len(AllTexts(requests)) \in Nat
         /\ AllTexts(Append(requests, c)) = AllTexts(requests) \o Texts(c)
         /\ Len(AllTexts(Append(requests, c))) = Len(AllTexts(requests)) + Size[c]
<1> DEFINE seqs == [k \in DOMAIN requests |-> Texts(requests[k])]
           more == [k \in DOMAIN Append(requests, c) |-> Texts(Append(requests, c)[k])]
<1>1. seqs \in Seq(Seq(Text)) /\ Texts(c) \in Seq(Text) /\ Len(seqs) = Len(requests)
  <2>1. \A k \in 1 .. Len(requests) : Texts(requests[k]) \in Seq(Text)
    BY TextsType
  <2>2. seqs = [k \in 1 .. Len(requests) |-> Texts(requests[k])]
    OBVIOUS
  <2> QED
    BY <2>1, <2>2, TextsType
<1>2. more = Append(seqs, Texts(c))
  <2>1. more \in Seq(Seq(Text)) /\ Len(more) = Len(requests) + 1
    BY TextsType
  <2>2. \A k \in 1 .. Len(requests) + 1 : more[k] = Append(seqs, Texts(c))[k]
    OBVIOUS
  <2>3. Append(seqs, Texts(c)) \in Seq(Seq(Text)) /\ Len(Append(seqs, Texts(c))) = Len(requests) + 1
    BY <1>1
  <2> HIDE DEF more, seqs
  <2> QED
    BY <2>1, <2>2, <2>3, SeqEqual
<1>3. AllTexts(requests) = FlattenSeq(seqs) /\ AllTexts(Append(requests, c)) = FlattenSeq(more)
  BY DEF AllTexts
<1> HIDE DEF seqs, more
<1>4. /\ AllTexts(requests) \in Seq(Text)
      /\ AllTexts(Append(requests, c)) = AllTexts(requests) \o Texts(c)
  BY <1>1, <1>2, <1>3, FlattenAppend
<1> QED
  BY <1>4, TextsType

\* A batch without its last request has no more texts.
LEMMA FrontHasNoMore ==
  ASSUME NEW requests \in Seq(Calls), requests # <<>>
  PROVE  Len(AllTexts(SubSeq(requests, 1, Len(requests) - 1))) <= Len(AllTexts(requests))
<1> DEFINE front == SubSeq(requests, 1, Len(requests) - 1)
           c == requests[Len(requests)]
<1>1. front \in Seq(Calls) /\ c \in Calls /\ requests = Append(front, c)
  OBVIOUS
<1> HIDE DEF front, c
<1>2. Len(AllTexts(requests)) = Len(AllTexts(front)) + Size[c] /\ Len(AllTexts(front)) \in Nat
  BY <1>1, AllTextsAppend
<1> QED
  BY <1>1, <1>2, TextsType DEF front

\* Cutting a concatenation where it was joined gives its second part.
LEMMA CutTail ==
  ASSUME NEW T, NEW s \in Seq(T), NEW t \in Seq(T)
  PROVE  SubSeq(s \o t, Len(s) + 1, Len(s) + Len(t)) = t
<1> DEFINE u == SubSeq(s \o t, Len(s) + 1, Len(s) + Len(t))
<1>1. Len(s) \in Nat /\ Len(t) \in Nat /\ s \o t \in Seq(T) /\ Len(s \o t) = Len(s) + Len(t)
  OBVIOUS
<1>2. u \in Seq(T) /\ Len(u) = Len(t)
  BY <1>1
<1>3. ASSUME NEW i \in 1 .. Len(t) PROVE u[i] = t[i]
  <2>1. u[i] = (s \o t)[Len(s) + i]
    BY <1>1
  <2>2. (s \o t)[Len(s) + i] = t[i]
    BY <1>1
  <2> QED
    BY <2>1, <2>2
<1> HIDE DEF u
<1>4. u \in Seq(T) /\ t \in Seq(T) /\ Len(u) = Len(t) /\ \A i \in 1 .. Len(u) : u[i] = t[i]
  BY <1>2, <1>3
<1>5. u = t
  BY <1>4, SeqEqual, Zenon
<1> QED
  BY <1>5 DEF u

\* Cutting within the first part of a concatenation needs only that part.
LEMMA CutHead ==
  ASSUME NEW T, NEW s \in Seq(T), NEW t \in Seq(T), NEW from \in Nat, NEW n \in Nat,
         from + n <= Len(s)
  PROVE  SubSeq(s \o t, from + 1, from + n) = SubSeq(s, from + 1, from + n)
<1> DEFINE u == SubSeq(s \o t, from + 1, from + n)
           v == SubSeq(s, from + 1, from + n)
<1>1. Len(s) \in Nat /\ Len(t) \in Nat /\ s \o t \in Seq(T) /\ Len(s \o t) = Len(s) + Len(t)
  OBVIOUS
<1>2. u \in Seq(T) /\ Len(u) = n
  BY <1>1
<1>3. v \in Seq(T) /\ Len(v) = n
  BY <1>1
<1>4. ASSUME NEW i \in 1 .. n PROVE u[i] = v[i]
  <2>1. u[i] = (s \o t)[from + i]
    BY <1>1
  <2>2. (s \o t)[from + i] = s[from + i]
    BY <1>1
  <2>3. v[i] = s[from + i]
    BY <1>1
  <2> QED
    BY <2>1, <2>2, <2>3
<1> HIDE DEF u, v
<1> QED
  BY <1>2, <1>3, <1>4, SeqEqual

\* The slice that _flush cuts out for a request holds the vectors of its texts:
\* the offset has passed exactly the texts of the requests before it.
LEMMA SliceIsOwn ==
  ASSUME NEW requests \in Seq(Calls), NEW k \in DOMAIN requests
  PROVE  Slice(requests, k) = Texts(requests[k])
<1> DEFINE A(n) == AllTexts(SubSeq(requests, 1, n))
           offset == Len(A(k - 1))
           own == Size[requests[k]]
           Cut == {n \in Nat : n \in k .. Len(requests) =>
                     /\ offset + own <= Len(A(n))
                     /\ SubSeq(A(n), offset + 1, offset + own) = Texts(requests[k])}
<1>1. \A n \in 0 .. Len(requests) : SubSeq(requests, 1, n) \in Seq(Calls)
  OBVIOUS
<1>2. ASSUME NEW n \in 1 .. Len(requests)
      PROVE  /\ A(n - 1) \in Seq(Text) /\ Len(A(n - 1)) \in Nat
             /\ A(n) = A(n - 1) \o Texts(requests[n])
             /\ Len(A(n)) = Len(A(n - 1)) + Size[requests[n]]
  <2>1. SubSeq(requests, 1, n) = Append(SubSeq(requests, 1, n - 1), requests[n])
    OBVIOUS
  <2>2. n - 1 \in 0 .. Len(requests) /\ requests[n] \in Calls
    OBVIOUS
  <2> QED
    BY <1>1, <2>1, <2>2, AllTextsAppend
<1>3. k \in 1 .. Len(requests) /\ requests[k] \in Calls
  OBVIOUS
<1> HIDE DEF A
<1>4. 0 \in Cut
  BY <1>3
<1>5. ASSUME NEW n \in Nat, n \in Cut PROVE n + 1 \in Cut
  <2> SUFFICES ASSUME n + 1 \in k .. Len(requests)
               PROVE  /\ offset + own <= Len(A(n + 1))
                      /\ SubSeq(A(n + 1), offset + 1, offset + own) = Texts(requests[k])
    OBVIOUS
  <2>1. /\ n + 1 \in 1 .. Len(requests) /\ (n + 1) - 1 = n /\ requests[n + 1] \in Calls
    BY <1>3
  <2>2. /\ A(n) \in Seq(Text) /\ Len(A(n)) \in Nat
        /\ A(n + 1) = A(n) \o Texts(requests[n + 1])
        /\ Len(A(n + 1)) = Len(A(n)) + Size[requests[n + 1]]
    BY <1>2, <2>1
  <2>3. Texts(requests[n + 1]) \in Seq(Text) /\ Size[requests[n + 1]] \in Nat
        /\ Len(Texts(requests[n + 1])) = Size[requests[n + 1]]
    BY <2>1, TextsType
  <2>4. own \in Nat /\ offset \in Nat
    BY <1>2, <1>3, TextsType
  <2>5. CASE n + 1 = k
    <3>1. offset = Len(A(n)) /\ own = Size[requests[n + 1]]
      BY <2>5, <2>1
    <3>2. SubSeq(A(n) \o Texts(requests[n + 1]), Len(A(n)) + 1,
                 Len(A(n)) + Len(Texts(requests[n + 1]))) = Texts(requests[n + 1])
      BY <2>2, <2>3, CutTail
    <3> HIDE DEF offset, own
    <3>3. SubSeq(A(n + 1), offset + 1, offset + own) = Texts(requests[n + 1])
      BY <3>1, <3>2, <2>2, <2>3
    <3>4. offset + own <= Len(A(n + 1))
      BY <3>1, <2>2, <2>3
    <3> QED
      BY <3>3, <3>4, <2>5
  <2>6. CASE n + 1 # k
    <3>1. n \in k .. Len(requests)
      BY <2>6, <2>1, <1>3
    <3>2. offset + own <= Len(A(n)) /\ SubSeq(A(n), offset + 1, offset + own) = Texts(requests[k])
      BY <3>1, <1>5
    <3> HIDE DEF offset, own
    <3>3. SubSeq(A(n) \o Texts(requests[n + 1]), offset + 1, offset + own)
            = SubSeq(A(n), offset + 1, offset + own)
      BY <3>2, <2>2, <2>3, <2>4, CutHead
    <3>4. Len(A(n)) <= Len(A(n + 1))
      BY <2>2, <2>3
    <3>5. offset + own <= Len(A(n + 1))
      BY <3>2, <3>4, <2>2, <2>3, <2>4
    <3>6. SubSeq(A(n + 1), offset + 1, offset + own) = Texts(requests[k])
      BY <2>2, <3>2, <3>3
    <3> QED
      BY <3>5, <3>6
  <2> QED
    BY <2>5, <2>6
<1>6. Len(requests) \in Cut
  <2>1. \A n \in Nat : n \in Cut
    <3> HIDE DEF Cut
    <3> QED
      BY <1>4, <1>5, SetInduction
  <2> QED
    BY <2>1
<1>7. A(Len(requests)) = AllTexts(requests)
  <2>1. SubSeq(requests, 1, Len(requests)) = requests
    OBVIOUS
  <2> QED
    BY <2>1 DEF A
<1>8. SubSeq(A(Len(requests)), offset + 1, offset + own) = Texts(requests[k])
  BY <1>3, <1>6
<1>9. Slice(requests, k) = SubSeq(AllTexts(requests), offset + 1, offset + own)
  BY DEF Slice, A
<1> QED
  BY <1>7, <1>8, <1>9

-----------------------------------------------------------------------------
(* The invariant                                                            *)

\* What TypeOK leaves open.
DataTypes ==
  /\ pending \in Seq(Calls)
  /\ batch \in [Flushers -> Seq(Calls)]
  /\ DOMAIN future = Calls

\* A batch is in flight exactly while whoever flushed it awaits the provider.
FlightMatches ==
  /\ \A c \in Calls : batch[c] # <<>> <=> call[c] = "flushing"
  /\ batch[Window] # <<>> <=> task = "flushing"

\* A call that has not begun is known to nobody.
IdleIsUnknown ==
  \A c \in Calls : call[c] = "idle" =>
    /\ future[c].status = "none"
    /\ ~Contains(pending, c)
    /\ \A f \in Flushers : ~Contains(batch[f], c)

\* self._pending_texts counts the texts that wait.
CountIsExact == pendingTexts = Len(AllTexts(pending))

\* An answered future holds its caller's vectors, and only an answered caller
\* has returned.
AnswersAreOwn ==
  \A c \in Calls :
    /\ future[c].status = "ok" => future[c].vectors = Texts(c)
    /\ call[c] = "returned" => future[c].status = "ok"

BatcherInv ==
  /\ TypeOK
  /\ DataTypes
  /\ FlightMatches
  /\ IdleIsUnknown
  /\ CountIsExact
  /\ AnswersAreOwn
  /\ BatchesBounded
  /\ OneBatchPerRequest

\* The initial state satisfies the invariant.
LEMMA InitInv == Init => BatcherInv
<1> SUFFICES ASSUME Init PROVE BatcherInv
  OBVIOUS
<1> USE BatcherAssumption DEF Init
<1>1. TypeOK /\ DataTypes
  BY DEF TypeOK, DataTypes, Unset, Flushers
<1>2. FlightMatches /\ IdleIsUnknown /\ AnswersAreOwn
  BY DEF FlightMatches, IdleIsUnknown, AnswersAreOwn, Unset, Contains, Flushers
<1>3. CountIsExact
  <2>1. [k \in DOMAIN pending |-> Texts(pending[k])] = <<>>
    OBVIOUS
  <2> QED
    BY <2>1 DEF CountIsExact, AllTexts, FlattenSeq
<1>4. BatchesBounded /\ OneBatchPerRequest
  BY DEF BatchesBounded, OneBatchPerRequest, Contains
<1> QED
  BY <1>1, <1>2, <1>3, <1>4 DEF BatcherInv

\* What Resolve does: an open future of the batch gets an outcome of the batch
\* at its place, every other future stays.
LEMMA ResolveIs ==
  ASSUME NEW open, NEW requests \in Seq(Calls), NEW outcomes, NEW c \in Calls
  PROVE  \/ /\ Resolve(open, requests, outcomes)[c] = open[c]
            /\ open[c].status = "open" => ~Contains(requests, c)
         \/ /\ open[c].status = "open"
            /\ \E k \in DOMAIN requests :
                 requests[k] = c /\ Resolve(open, requests, outcomes)[c] = outcomes[k]
<1>1. CASE open[c].status = "open" /\ Contains(requests, c)
  <2>1. \E k \in DOMAIN requests : requests[k] = c
    BY <1>1 DEF Contains
  <2> DEFINE k == CHOOSE i \in DOMAIN requests : requests[i] = c
  <2>2. k \in DOMAIN requests /\ requests[k] = c
    BY <2>1
  <2>3. Resolve(open, requests, outcomes)[c] = outcomes[k]
    BY <1>1 DEF Resolve
  <2> QED
    BY <1>1, <2>2, <2>3
<1>2. CASE ~(open[c].status = "open" /\ Contains(requests, c))
  BY <1>2 DEF Resolve
<1> QED
  BY <1>1, <1>2

\* Nothing that waits has no texts.
LEMMA NoTexts == Len(AllTexts(<<>>)) = 0
<1> DEFINE none == <<>>
<1>1. [k \in DOMAIN <<>> |-> Texts(none[k])] = <<>>
  OBVIOUS
<1> QED
  BY <1>1 DEF AllTexts, FlattenSeq

\* What a future holds: a status, and the caller's vectors once answered.
Outcome(c, result) ==
  /\ result.status \in {"none", "open", "cancelled", "failed", "ok"}
  /\ result.status = "ok" => result.vectors = Texts(c)

\* The future of c after a step.
Futures(c) == Outcome(c, future[c])

\* Futures that are resolved with outcomes of the batch: their statuses are
\* statuses, answers are the caller's own, and what was done is not touched.
LEMMA ResolveKeeps ==
  ASSUME NEW open, NEW requests \in Seq(Calls), NEW outcomes,
         \A c \in Calls : Outcome(c, open[c]),
         \A k \in DOMAIN requests : Outcome(requests[k], outcomes[k]),
         future' = Resolve(open, requests, outcomes)
  PROVE  /\ DOMAIN future' = Calls
         /\ \A c \in Calls : Futures(c)' /\ (open[c].status # "open" => future'[c] = open[c])
<1>1. DOMAIN future' = Calls
  BY DEF Resolve
<1>2. ASSUME NEW c \in Calls
      PROVE  Outcome(c, future'[c]) /\ (open[c].status # "open" => future'[c] = open[c])
  <2>1. CASE future'[c] = open[c]
    BY <2>1
  <2>2. CASE /\ open[c].status = "open"
             /\ \E k \in DOMAIN requests : requests[k] = c /\ future'[c] = outcomes[k]
    BY <2>2
  <2> QED
    BY <2>1, <2>2, ResolveIs
<1> QED
  BY <1>1, <1>2 DEF Futures

\* A failed request has an outcome, and so has an answered one.
LEMMA Outcomes ==
  ASSUME NEW c \in Calls
  PROVE  /\ Outcome(c, Unset("failed"))
         /\ Outcome(c, [status |-> "ok", vectors |-> Texts(c)])
BY DEF Outcome, Unset

\* Flushing keeps futures, batches and the count in order, whether the requests
\* go to the provider or are refused.
LEMMA FlushKeeps ==
  ASSUME BatcherInv, NEW f \in Flushers, NEW requests \in Seq(Calls), NEW open,
         Flush(f, requests, open), batch[f] = <<>>,
         DOMAIN open = Calls,
         \A c \in Calls : Outcome(c, open[c]),
         \A c \in Calls : Contains(requests, c) => \A g \in Flushers : ~Contains(batch[g], c),
         requests # <<>> =>
           Len(AllTexts(SubSeq(requests, 1, Len(requests) - 1))) < MaxTexts
  PROVE  /\ pending' = <<>> /\ pendingTexts' = 0 /\ CountIsExact'
         /\ DOMAIN future' = Calls
         /\ \A c \in Calls : Futures(c)' /\ (open[c].status # "open" => future'[c] = open[c])
         /\ \/ UNCHANGED batch
            \/ requests # <<>> /\ batch' = [batch EXCEPT ![f] = requests]
         /\ batch' \in [Flushers -> Seq(Calls)]
         /\ BatchesBounded' /\ OneBatchPerRequest'
<1> USE BatcherAssumption DEF BatcherInv, DataTypes
<1>1. pending' = <<>> /\ pendingTexts' = 0 /\ CountIsExact'
  BY NoTexts DEF Flush, CountIsExact
<1>2. CASE future' = Resolve(open, requests, AllFailed(requests)) /\ UNCHANGED batch
  <2>1. /\ DOMAIN future' = Calls
        /\ \A c \in Calls : Futures(c)' /\ (open[c].status # "open" => future'[c] = open[c])
    <3>1. \A k \in DOMAIN requests :
            requests[k] \in Calls /\ AllFailed(requests)[k] = Unset("failed")
      BY DEF AllFailed
    <3>2. \A k \in DOMAIN requests : Outcome(requests[k], AllFailed(requests)[k])
      BY <3>1, Outcomes
    <3> QED
      BY <1>2, <3>2, ResolveKeeps
  <2>2. BatchesBounded'
    BY <1>2 DEF BatchesBounded
  <2>3. OneBatchPerRequest'
    <3>1. \A c \in Calls : ~Contains(pending', c)
      BY <1>1 DEF Contains
    <3> QED
      BY <1>2, <3>1 DEF OneBatchPerRequest
  <2> QED
    BY <1>1, <1>2, <2>1, <2>2, <2>3
<1>3. CASE /\ requests # <<>> /\ ~Mixed(requests)
           /\ batch' = [batch EXCEPT ![f] = requests]
           /\ future' = open
  <2>1. batch' \in [Flushers -> Seq(Calls)] /\ batch'[f] = requests
        /\ \A g \in Flushers \ {f} : batch'[g] = batch[g]
    BY <1>3
  <2>2. BatchesBounded'
    BY <2>1 DEF BatchesBounded
  <2>4. OneBatchPerRequest'
    <3>1. \A c \in Calls : ~Contains(pending', c)
      BY <1>1 DEF Contains
    <3> QED
      BY <2>1, <3>1 DEF OneBatchPerRequest
  <2> QED
    BY <1>1, <1>3, <2>1, <2>2, <2>4 DEF Futures
<1> QED
  BY <1>2, <1>3 DEF Flush

\* BatcherInv is inductive: one step per action.
LEMMA NextInv == BatcherInv /\ [Next]_vars => BatcherInv'
<1> SUFFICES ASSUME BatcherInv, [Next]_vars PROVE BatcherInv'
  OBVIOUS
<1> USE BatcherAssumption DEF BatcherInv
<1>1. ASSUME NEW c \in Calls, EmbedNothing(c) PROVE BatcherInv'
  <2>1. Texts(c) = <<>>
    BY <1>1 DEF EmbedNothing, Texts
  <2>2. TypeOK' /\ DataTypes'
    BY <1>1 DEF EmbedNothing, TypeOK, DataTypes
  <2>3. FlightMatches' /\ IdleIsUnknown'
    BY <1>1 DEF EmbedNothing, TypeOK, DataTypes, FlightMatches, IdleIsUnknown
  <2>4. AnswersAreOwn'
    BY <1>1, <2>1 DEF EmbedNothing, TypeOK, DataTypes, AnswersAreOwn
  <2>5. CountIsExact' /\ BatchesBounded' /\ OneBatchPerRequest'
    BY <1>1 DEF EmbedNothing, CountIsExact, BatchesBounded, OneBatchPerRequest
  <2> QED
    BY <2>2, <2>3, <2>4, <2>5
<1>2. ASSUME NEW c \in Calls, EmbedWait(c) PROVE BatcherInv'
  <2>1. /\ pending' \in Seq(Calls)
        /\ \A x \in Calls : Contains(pending', x) => Contains(pending, x) \/ x = c
    BY <1>2 DEF EmbedWait, DataTypes, Contains
  <2>2. TypeOK' /\ DataTypes'
    <3>1. pendingTexts' \in 0 .. MaxTexts - 1
      BY <1>2 DEF EmbedWait, TypeOK
    <3> QED
      BY <1>2, <2>1, <3>1 DEF EmbedWait, TypeOK, DataTypes, Unset
  <2>3. FlightMatches'
    BY <1>2 DEF EmbedWait, TypeOK, FlightMatches
  <2>4. IdleIsUnknown'
    BY <1>2, <2>1 DEF EmbedWait, TypeOK, DataTypes, IdleIsUnknown
  <2>5. CountIsExact'
    BY <1>2, AllTextsAppend DEF EmbedWait, DataTypes, CountIsExact
  <2>6. AnswersAreOwn'
    BY <1>2 DEF EmbedWait, TypeOK, DataTypes, AnswersAreOwn, Unset
  <2>7. BatchesBounded'
    BY <1>2 DEF EmbedWait, BatchesBounded
  <2>8. OneBatchPerRequest'
    BY <1>2, <2>1 DEF EmbedWait, OneBatchPerRequest, IdleIsUnknown
  <2> QED
    BY <2>2, <2>3, <2>4, <2>5, <2>6, <2>7, <2>8
<1>3. ASSUME NEW c \in Calls, EmbedFlush(c) PROVE BatcherInv'
  <2> DEFINE requests == Append(pending, c)
             open == [future EXCEPT ![c] = Unset("open")]
  <2>1. /\ call[c] = "idle" /\ UNCHANGED <<task, cancels>>
        /\ Flush(c, requests, open)
        /\ call' = [call EXCEPT ![c] = IF batch'[c] # <<>> THEN "flushing" ELSE "waiting"]
    BY <1>3 DEF EmbedFlush
  <2>2. batch[c] = <<>> /\ c \in Flushers
    BY <2>1 DEF FlightMatches, Flushers
  <2>3. /\ requests \in Seq(Calls) /\ requests # <<>>
        /\ SubSeq(requests, 1, Len(requests) - 1) = pending
        /\ \A x \in Calls : Contains(requests, x) => Contains(pending, x) \/ x = c
    <3>1. requests \in Seq(Calls) /\ requests # <<>>
      <4>1. pending \in Seq(Calls) /\ Len(pending) \in Nat
        BY DEF DataTypes
      <4>2. requests \in Seq(Calls) /\ Len(requests) = Len(pending) + 1
        BY <4>1
      <4> HIDE DEF requests
      <4> QED
        BY <4>1, <4>2
    <3>2. SubSeq(requests, 1, Len(requests) - 1) = pending
      <4>1. /\ requests \in Seq(Calls) /\ Len(requests) - 1 = Len(pending)
            /\ \A i \in 1 .. Len(pending) : requests[i] = pending[i]
        <5>1. pending \in Seq(Calls) /\ Len(pending) \in Nat
          BY DEF DataTypes
        <5>2. requests \in Seq(Calls) /\ Len(requests) = Len(pending) + 1
          BY <5>1
        <5>3. \A i \in 1 .. Len(pending) : requests[i] = pending[i]
          BY <5>1
        <5> QED
          BY <5>1, <5>2, <5>3
      <4> HIDE DEF requests
      <4>2. /\ SubSeq(requests, 1, Len(pending)) \in Seq(Calls)
            /\ Len(SubSeq(requests, 1, Len(pending))) = Len(pending)
            /\ \A i \in 1 .. Len(pending) : SubSeq(requests, 1, Len(pending))[i] = pending[i]
        BY <4>1 DEF DataTypes
      <4> QED
        BY <4>1, <4>2, SeqEqual DEF DataTypes
    <3>3. \A x \in Calls : Contains(requests, x) => Contains(pending, x) \/ x = c
      BY DEF DataTypes, Contains
    <3> QED
      BY <3>1, <3>2, <3>3
  <2>4. Len(AllTexts(SubSeq(requests, 1, Len(requests) - 1))) < MaxTexts
    <3>1. Len(AllTexts(pending)) < MaxTexts
      BY DEF CountIsExact, TypeOK
    <3> HIDE DEF requests
    <3> QED
      BY <2>3, <3>1
  <2>5. /\ DOMAIN open = Calls
        /\ \A x \in Calls : x # c => open[x] = future[x]
        /\ open[c].status = "open"
    BY DEF DataTypes, Unset
  <2>6. \A x \in Calls : Contains(requests, x) => \A g \in Flushers : ~Contains(batch[g], x)
    BY <2>1, <2>3 DEF IdleIsUnknown, OneBatchPerRequest
  <2> HIDE DEF requests, open
  <2>7. \A x \in Calls : Outcome(x, open[x])
    BY <2>5 DEF TypeOK, AnswersAreOwn, Outcome
  <2>8. /\ pending' = <<>> /\ pendingTexts' = 0 /\ CountIsExact'
        /\ DOMAIN future' = Calls
        /\ \A x \in Calls : Futures(x)' /\ (open[x].status # "open" => future'[x] = open[x])
        /\ \/ UNCHANGED batch
           \/ requests # <<>> /\ batch' = [batch EXCEPT ![c] = requests]
        /\ batch' \in [Flushers -> Seq(Calls)]
        /\ BatchesBounded' /\ OneBatchPerRequest'
    BY <2>1, <2>2, <2>3, <2>4, <2>5, <2>6, <2>7, FlushKeeps
  <2>9. /\ \A x \in Calls \ {c} : call'[x] = call[x]
        /\ call'[c] = IF batch'[c] # <<>> THEN "flushing" ELSE "waiting"
        /\ \A g \in Flushers \ {c} : batch'[g] = batch[g]
        /\ \A x \in Calls : Contains(batch'[c], x) => Contains(batch[c], x) \/ Contains(requests, x)
    BY <2>1, <2>2, <2>8 DEF TypeOK, DataTypes
  <2>10. TypeOK' /\ DataTypes'
    <3>1. call' \in [Calls -> {"idle", "waiting", "flushing", "returned", "raised", "cancelled"}]
      BY <2>1 DEF TypeOK
    <3>2. \A g \in Flushers : \A k \in DOMAIN batch'[g] : batch'[g][k] \in Calls
      BY <2>8
    <3> QED
      BY <2>1, <2>8, <3>1, <3>2 DEF TypeOK, DataTypes, Futures, Outcome
  <2>11. FlightMatches'
    BY <2>1, <2>9 DEF FlightMatches, Flushers
  <2>12. IdleIsUnknown'
    <3> SUFFICES ASSUME NEW x \in Calls, call'[x] = "idle"
                 PROVE  /\ future'[x].status = "none"
                        /\ ~Contains(pending', x)
                        /\ \A g \in Flushers : ~Contains(batch'[g], x)
      BY DEF IdleIsUnknown
    <3>1. x # c /\ call[x] = "idle"
      BY <2>9
    <3>2. /\ future[x].status = "none" /\ ~Contains(pending, x)
          /\ \A g \in Flushers : ~Contains(batch[g], x)
      BY <3>1 DEF IdleIsUnknown
    <3>3. future'[x].status = "none"
      BY <3>1, <3>2, <2>5, <2>8
    <3>4. ~Contains(pending', x)
      BY <2>8 DEF Contains
    <3>5. \A g \in Flushers : ~Contains(batch'[g], x)
      BY <3>1, <3>2, <2>2, <2>3, <2>9
    <3> QED
      BY <3>3, <3>4, <3>5
  <2>13. AnswersAreOwn'
    BY <2>5, <2>8, <2>9 DEF AnswersAreOwn, Futures, Outcome
  <2> QED
    BY <2>8, <2>10, <2>11, <2>12, <2>13
<1>4. ASSUME NEW c \in Calls, Return(c) PROVE BatcherInv'
  <2>1. TypeOK' /\ DataTypes' /\ FlightMatches'
    BY <1>4 DEF Return, TypeOK, DataTypes, FlightMatches
  <2>2. IdleIsUnknown' /\ AnswersAreOwn'
    BY <1>4 DEF Return, TypeOK, IdleIsUnknown, AnswersAreOwn
  <2>3. CountIsExact' /\ BatchesBounded' /\ OneBatchPerRequest'
    BY <1>4 DEF Return, CountIsExact, BatchesBounded, OneBatchPerRequest
  <2> QED
    BY <2>1, <2>2, <2>3
<1>5. ASSUME NEW c \in Calls, Cancel(c) PROVE BatcherInv'
  <2>1. /\ batch' \in [Flushers -> Seq(Calls)] /\ c \in Flushers /\ batch'[c] = <<>>
        /\ \A g \in Flushers \ {c} : batch'[g] = batch[g]
        /\ \A g \in Flushers, x \in Calls : Contains(batch'[g], x) => Contains(batch[g], x)
    BY <1>5 DEF Cancel, DataTypes, Flushers, Contains
  <2>2. /\ DOMAIN future' = Calls
        /\ \A x \in Calls \ {c} : future'[x] = future[x]
        /\ future'[c] = future[c] \/ future'[c] = Unset("cancelled")
    BY <1>5 DEF Cancel, DataTypes
  <2>3. TypeOK' /\ DataTypes'
    BY <1>5, <2>1, <2>2 DEF Cancel, TypeOK, DataTypes, Unset
  <2>4. FlightMatches'
    BY <1>5, <2>1 DEF Cancel, TypeOK, FlightMatches, Flushers
  <2>5. IdleIsUnknown' /\ AnswersAreOwn'
    BY <1>5, <2>1, <2>2 DEF Cancel, TypeOK, IdleIsUnknown, AnswersAreOwn, Unset
  <2>6. CountIsExact' /\ BatchesBounded'
    <3>1. CountIsExact'
      BY <1>5 DEF Cancel, CountIsExact
    <3>2. BatchesBounded'
      BY <2>1 DEF BatchesBounded
    <3> QED
      BY <3>1, <3>2
  <2>7. OneBatchPerRequest'
    BY <1>5, <2>1 DEF Cancel, OneBatchPerRequest
  <2> QED
    BY <2>3, <2>4, <2>5, <2>6, <2>7
<1>6. CASE WindowExpires
  <2>1. batch[Window] = <<>> /\ Window \in Flushers
    BY <1>6 DEF WindowExpires, FlightMatches, Flushers
  <2>2. pending # <<>> => Len(AllTexts(SubSeq(pending, 1, Len(pending) - 1))) < MaxTexts
    <3> SUFFICES ASSUME pending # <<>>
                 PROVE  Len(AllTexts(SubSeq(pending, 1, Len(pending) - 1))) < MaxTexts
      OBVIOUS
    <3>1. Len(AllTexts(SubSeq(pending, 1, Len(pending) - 1))) <= Len(AllTexts(pending))
      BY FrontHasNoMore DEF DataTypes
    <3>2. SubSeq(pending, 1, Len(pending) - 1) \in Seq(Calls) /\ pending[1] \in Calls
      BY DEF DataTypes
    <3>3. Len(AllTexts(SubSeq(pending, 1, Len(pending) - 1))) \in Nat
      BY <3>2, AllTextsAppend
    <3> QED
      BY <3>1, <3>3 DEF CountIsExact, TypeOK
  <2>3. \A x \in Calls : Contains(pending, x) => \A g \in Flushers : ~Contains(batch[g], x)
    BY DEF OneBatchPerRequest
  <2>4. \A x \in Calls : Outcome(x, future[x])
    BY DEF TypeOK, AnswersAreOwn, Outcome
  <2>5. /\ pending' = <<>> /\ pendingTexts' = 0 /\ CountIsExact'
        /\ DOMAIN future' = Calls
        /\ \A x \in Calls : Futures(x)' /\ (future[x].status # "open" => future'[x] = future[x])
        /\ \/ UNCHANGED batch
           \/ pending # <<>> /\ batch' = [batch EXCEPT ![Window] = pending]
        /\ batch' \in [Flushers -> Seq(Calls)]
        /\ BatchesBounded' /\ OneBatchPerRequest'
    BY <1>6, <2>1, <2>2, <2>3, <2>4, FlushKeeps DEF WindowExpires, DataTypes
  <2>6. /\ UNCHANGED <<call, cancels>>
        /\ task' = IF batch'[Window] # <<>> THEN "flushing" ELSE "done"
        /\ \A g \in Calls : batch'[g] = batch[g]
        /\ \A g \in Flushers, x \in Calls :
             Contains(batch'[g], x) => Contains(batch[g], x) \/ Contains(pending, x)
    BY <1>6, <2>1, <2>5 DEF WindowExpires, DataTypes, Flushers
  <2>7. TypeOK' /\ DataTypes'
    <3>1. \A g \in Flushers : \A k \in DOMAIN batch'[g] : batch'[g][k] \in Calls
      BY <2>5
    <3> QED
      BY <2>5, <2>6, <3>1 DEF TypeOK, DataTypes, Futures, Outcome
  <2>8. FlightMatches'
    BY <2>6 DEF FlightMatches
  <2>9. IdleIsUnknown'
    <3>1. \A x \in Calls : ~Contains(pending', x)
      BY <2>5 DEF Contains
    <3> QED
      BY <2>5, <2>6, <3>1 DEF IdleIsUnknown
  <2>10. AnswersAreOwn'
    BY <2>5, <2>6 DEF AnswersAreOwn, Futures, Outcome
  <2> QED
    BY <2>5, <2>7, <2>8, <2>9, <2>10
<1>7. ASSUME NEW f \in Flushers, Provider(f) PROVE BatcherInv'
  <2>1. PICK outcomes :
          /\ batch[f] # <<>> /\ FlushReturns(f)
          /\ future' = Resolve(future, batch[f], outcomes)
          /\ \A k \in DOMAIN batch[f] :
               \/ outcomes[k] = Unset("failed")
               \/ outcomes[k] = [status |-> "ok", vectors |-> Texts(batch[f][k])]
    <3>1. CASE ProviderReplies(f)
      <4> DEFINE outcomes == [k \in DOMAIN batch[f] |->
                                [status |-> "ok", vectors |-> Slice(batch[f], k)]]
      <4>1. \A k \in DOMAIN batch[f] :
              outcomes[k] = [status |-> "ok", vectors |-> Texts(batch[f][k])]
        BY SliceIsOwn DEF DataTypes
      <4>2. batch[f] # <<>> /\ FlushReturns(f) /\ future' = Resolve(future, batch[f], outcomes)
        BY <3>1 DEF ProviderReplies
      <4> HIDE DEF outcomes
      <4> QED
        BY <4>1, <4>2
    <3>2. CASE ProviderFails(f)
      <4>1. \A k \in DOMAIN batch[f] : AllFailed(batch[f])[k] = Unset("failed")
        BY DEF AllFailed
      <4> QED
        BY <3>2, <4>1 DEF ProviderFails
    <3> QED
      BY <1>7, <3>1, <3>2 DEF Provider
  <2>2. /\ DOMAIN future' = Calls
        /\ \A x \in Calls : Futures(x)' /\ (future[x].status # "open" => future'[x] = future[x])
    <3>1. batch[f] \in Seq(Calls) /\ DOMAIN future = Calls
      BY DEF DataTypes
    <3>2. \A x \in Calls : Outcome(x, future[x])
      BY DEF TypeOK, AnswersAreOwn, Outcome
    <3>3. \A k \in DOMAIN batch[f] : Outcome(batch[f][k], outcomes[k])
      <4> SUFFICES ASSUME NEW k \in DOMAIN batch[f] PROVE Outcome(batch[f][k], outcomes[k])
        OBVIOUS
      <4>1. batch[f][k] \in Calls
        BY <3>1
      <4>2. \/ outcomes[k] = Unset("failed")
            \/ outcomes[k] = [status |-> "ok", vectors |-> Texts(batch[f][k])]
        BY <2>1
      <4>3. /\ Outcome(batch[f][k], Unset("failed"))
            /\ Outcome(batch[f][k], [status |-> "ok", vectors |-> Texts(batch[f][k])])
        BY <4>1, Outcomes
      <4> QED
        BY <4>2, <4>3
    <3> QED
      BY <2>1, <3>1, <3>2, <3>3, ResolveKeeps
  <2>3. /\ batch' \in [Flushers -> Seq(Calls)] /\ batch'[f] = <<>>
        /\ \A g \in Flushers \ {f} : batch'[g] = batch[g]
        /\ \A g \in Flushers, x \in Calls : Contains(batch'[g], x) => Contains(batch[g], x)
    BY <2>1 DEF FlushReturns, DataTypes, Contains
  <2>4. /\ task' = IF f = Window THEN "done" ELSE task
        /\ call' = [c \in Calls |-> IF c = f THEN "waiting" ELSE call[c]]
        /\ UNCHANGED <<pending, pendingTexts, cancels>>
    BY <2>1 DEF FlushReturns
  <2>5. TypeOK' /\ DataTypes'
    <3>1. \A g \in Flushers : \A k \in DOMAIN batch'[g] : batch'[g][k] \in Calls
      BY <2>3
    <3> QED
      BY <2>2, <2>3, <2>4, <3>1 DEF TypeOK, DataTypes, Futures, Outcome
  <2>6. FlightMatches'
    BY <2>1, <2>3, <2>4 DEF FlightMatches, Flushers
  <2>7. IdleIsUnknown' /\ AnswersAreOwn'
    BY <2>1, <2>2, <2>3, <2>4 DEF IdleIsUnknown, AnswersAreOwn, Futures, Outcome
  <2>8. CountIsExact' /\ BatchesBounded'
    <3>1. CountIsExact'
      BY <2>4 DEF CountIsExact
    <3>2. \A g \in Flushers : batch'[g] = <<>> \/ batch'[g] = batch[g]
      BY <2>3
    <3>3. BatchesBounded'
      BY <3>2 DEF BatchesBounded
    <3> QED
      BY <3>1, <3>3
  <2>9. OneBatchPerRequest'
    BY <2>3, <2>4 DEF OneBatchPerRequest
  <2> QED
    BY <2>5, <2>6, <2>7, <2>8, <2>9
<1>8. CASE UNCHANGED vars
  BY <1>8 DEF vars, TypeOK, DataTypes, FlightMatches, IdleIsUnknown, CountIsExact, AnswersAreOwn,
              BatchesBounded, OneBatchPerRequest
<1> QED
  BY <1>1, <1>2, <1>3, <1>4, <1>5, <1>6, <1>7, <1>8 DEF Next

-----------------------------------------------------------------------------
(* The theorems                                                             *)

\* Every reachable state of the batcher satisfies the invariant.
THEOREM Invariance == Spec => []BatcherInv
<1> QED
  BY InitInv, NextInv, PTL DEF Spec

\* The gathered texts stay below max_texts between two calls, and every
\* pending or flushed request is one of a call.
THEOREM TypeCorrect == Spec => []TypeOK
<1>1. BatcherInv => TypeOK
  BY DEF BatcherInv
<1> QED
  BY Invariance, <1>1, PTL

\* The offset arithmetic of _flush hands every caller the vectors of its own
\* texts, whatever else was in its batch.
THEOREM ReceivesOwnVectors == Spec => []OwnVectors
<1>1. BatcherInv => OwnVectors
  BY DEF BatcherInv, AnswersAreOwn, OwnVectors
<1> QED
  BY Invariance, <1>1, PTL

\* A provider batch exceeds max_texts by less than its last request.
THEOREM BatchesAreBounded == Spec => []BatchesBounded
<1>1. BatcherInv => BatchesBounded
  BY DEF BatcherInv
<1> QED
  BY Invariance, <1>1, PTL

\* No request waits and is at the provider, or is there twice.
THEOREM EmbeddedOnce == Spec => []OneBatchPerRequest
<1>1. BatcherInv => OneBatchPerRequest
  BY DEF BatcherInv
<1> QED
  BY Invariance, <1>1, PTL

\* The done() checks of _flush suffice: no answer, error or cancellation of a
\* future is ever overwritten.
THEOREM OutcomesStay == Spec => ResolvedOnce
<1> DEFINE Kept == \A c \in Calls : future[c].status \in {"ok", "failed", "cancelled"}
                                     => future'[c] = future[c]
<1>1. ASSUME BatcherInv, [Next]_vars PROVE Kept \/ UNCHANGED vars
  <2> SUFFICES ASSUME Next, NEW x \in Calls, future[x].status \in {"ok", "failed", "cancelled"}
               PROVE  future'[x] = future[x]
    BY <1>1
  <2> USE <1>1 DEF BatcherInv, DataTypes
  <2>1. ASSUME NEW c \in Calls, EmbedNothing(c) \/ EmbedWait(c) PROVE future'[x] = future[x]
    BY <2>1 DEF EmbedNothing, EmbedWait, IdleIsUnknown
  <2>2. ASSUME NEW c \in Calls, EmbedFlush(c) PROVE future'[x] = future[x]
    <3> DEFINE requests == Append(pending, c)
               open == [future EXCEPT ![c] = Unset("open")]
    <3>1. x # c /\ open[x] = future[x] /\ requests \in Seq(Calls)
      BY <2>2 DEF EmbedFlush, IdleIsUnknown
    <3>2. future' = open \/ future' = Resolve(open, requests, AllFailed(requests))
      BY <2>2 DEF EmbedFlush, Flush
    <3> HIDE DEF requests, open
    <3> QED
      BY <3>1, <3>2 DEF Resolve
  <2>3. ASSUME NEW c \in Calls, Return(c) \/ Cancel(c) PROVE future'[x] = future[x]
    BY <2>3 DEF Return, Cancel, Done
  <2>4. CASE WindowExpires
    BY <2>4 DEF WindowExpires, Flush, Resolve
  <2>5. ASSUME NEW f \in Flushers, Provider(f) PROVE future'[x] = future[x]
    BY <2>5 DEF Provider, ProviderReplies, ProviderFails, Resolve
  <2> QED
    BY <2>1, <2>2, <2>3, <2>4, <2>5 DEF Next
<1> QED
  BY Invariance, <1>1, PTL DEF Spec, ResolvedOnce
=============================================================================
