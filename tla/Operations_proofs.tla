-------------------------- MODULE Operations_proofs --------------------------
(***************************************************************************)
(* Proofs about Operations and the access checks it composes, for any      *)
(* number of users, processes, requests, workers, retries and faults, and  *)
(* any limit, window and token lifetime.                                   *)
(***************************************************************************)
EXTENDS Operations, FiniteSetTheorems, TLAPS

-----------------------------------------------------------------------------
(* Counting                                                                 *)

\* A finite set of at most n elements can be numbered with 1 .. n.
LEMMA Numbering ==
  ASSUME NEW S, IsFiniteSet(S), NEW n \in Nat, Cardinality(S) <= n
  PROVE  \E f \in [S -> 1 .. n] : \A x, y \in S : f[x] = f[y] => x = y
<1>1. Cardinality(S) \in Nat /\ ExistsBijection(1 .. Cardinality(S), S)
  BY FS_CardinalityType
<1>2. PICK g \in Bijection(1 .. Cardinality(S), S) : TRUE
  BY <1>1 DEF ExistsBijection
<1>3. /\ g \in [1 .. Cardinality(S) -> S]
      /\ \A x \in S : \E i \in 1 .. Cardinality(S) : g[i] = x
  BY <1>2 DEF Bijection, Injection, Surjection
<1> DEFINE f == [x \in S |-> CHOOSE i \in 1 .. Cardinality(S) : g[i] = x]
<1>4. \A x \in S : f[x] \in 1 .. Cardinality(S) /\ g[f[x]] = x
  BY <1>3
<1>5. f \in [S -> 1 .. n]
  <2> HIDE DEF f
  <2>1. \A x \in S : f[x] \in 1 .. n
    BY <1>1, <1>4
  <2> QED
    BY <2>1 DEF f
<1>6. \A x, y \in S : f[x] = f[y] => x = y
  <2> HIDE DEF f
  <2> QED
    BY <1>4
<1> HIDE DEF f
<1> QED
  BY <1>5, <1>6

\* What is covered by finitely many sets of at most n elements has at most n
\* elements for each of them.
LEMMA CoverBound ==
  ASSUME NEW I, IsFiniteSet(I), NEW n \in Nat, NEW F,
         \A i \in I : IsFiniteSet(F[i]) /\ Cardinality(F[i]) <= n,
         NEW A, \A x \in A : \E i \in I : x \in F[i]
  PROVE  IsFiniteSet(A) /\ Cardinality(A) <= n * Cardinality(I)
<1> DEFINE home == [x \in A |-> CHOOSE i \in I : x \in F[i]]
           Numbers(i) == {f \in [F[i] -> 1 .. n] : \A x, y \in F[i] : f[x] = f[y] => x = y}
           number == [i \in I |-> CHOOSE f \in Numbers(i) : TRUE]
           place == [x \in A |-> <<home[x], number[home[x]][x]>>]
<1>1. \A x \in A : home[x] \in I /\ x \in F[home[x]]
  OBVIOUS
<1>2. \A i \in I : number[i] \in Numbers(i)
  <2>1. \A i \in I : Numbers(i) # {}
    BY Numbering
  <2> HIDE DEF Numbers
  <2> QED
    BY <2>1
<1> HIDE DEF home, number
<1>3. \A i \in I : /\ number[i] \in [F[i] -> 1 .. n]
                   /\ \A x, y \in F[i] : number[i][x] = number[i][y] => x = y
  BY <1>2
<1> HIDE DEF Numbers
<1>4. place \in Injection(A, I \X (1 .. n))
  <2>1. \A x \in A : place[x] \in I \X (1 .. n)
    BY <1>1, <1>3
  <2>2. ASSUME NEW x \in A, NEW y \in A, place[x] = place[y] PROVE x = y
    <3>1. home[x] = home[y] /\ number[home[x]][x] = number[home[y]][y]
      BY <2>2
    <3> QED
      BY <3>1, <1>1, <1>3
  <2>3. place \in [A -> I \X (1 .. n)]
    BY <2>1
  <2> HIDE DEF place
  <2> QED
    BY <2>2, <2>3 DEF Injection, IsInjective
<1>5. /\ IsFiniteSet(1 .. n) /\ Cardinality(1 .. n) = n
  BY FS_Interval
<1>6. /\ IsFiniteSet(I \X (1 .. n))
      /\ Cardinality(I \X (1 .. n)) = Cardinality(I) * n
  BY <1>5, FS_Product
<1>7. IsFiniteSet(A) /\ Cardinality(A) <= Cardinality(I) * n
  <2> HIDE DEF place
  <2> QED
    BY <1>4, <1>6, FS_Injection
<1>8. Cardinality(I) \in Nat
  BY FS_CardinalityType
<1> QED
  BY <1>7, <1>8

-----------------------------------------------------------------------------
(* The rate limiter                                                         *)

\* The stores that the configured backend uses
UsedStores == IF plan.backend = "redis" THEN {"redis"} ELSE Processes

LimiterTypes ==
  /\ plan \in Plans
  /\ now \in Nat
  /\ events \in [Keys -> [Stores -> SUBSET (0 .. now)]]
  /\ admitted \in [Keys -> SUBSET (0 .. now)]

\* What was admitted and is still in the window is kept by a store.
WindowCovered ==
  \A k \in Keys : \A x \in admitted[k] :
    x + Window > now => \E s \in UsedStores : x \in events[k][s]

\* What store s has admitted with key k in the window that ends now
InWindow(k, s) == {x \in events[k][s] \cap admitted[k] : x + Window > now}

WindowBounded ==
  \A k \in Keys : \A s \in UsedStores : Cardinality(InWindow(k, s)) <= Limit

LimiterInv == LimiterTypes /\ WindowCovered /\ WindowBounded /\ AdmittedBounded

\* The stores the backend asks: one with Redis, one for each process otherwise.
LEMMA UsedStoresFinite ==
  ASSUME LimiterTypes
  PROVE  /\ IsFiniteSet(UsedStores) /\ UsedStores \subseteq Stores
         /\ Cardinality(UsedStores) =
              IF plan.backend = "redis" THEN 1 ELSE Cardinality(Processes)
  BY AccessAssumption, FS_Singleton DEF UsedStores, Stores

\* Sets of times that have passed are finite, and so are their parts.
LEMMA TimesFinite ==
  ASSUME NEW n \in Nat, NEW S \in SUBSET (0 .. n)
  PROVE  /\ IsFiniteSet(S) /\ Cardinality(S) \in Nat
         /\ \A T \in SUBSET S : IsFiniteSet(T) /\ Cardinality(T) <= Cardinality(S)
<1>1. IsFiniteSet(0 .. n)
  BY FS_Interval
<1>2. IsFiniteSet(S)
  BY <1>1, FS_Subset
<1> QED
  BY <1>2, FS_Subset, FS_CardinalityType

\* Time passes: windows only lose what is in them.
LEMMA TickLimiter ==
  ASSUME LimiterInv, now' = now + 1, UNCHANGED <<plan, events, admitted>>
  PROVE  LimiterInv'
<1> USE AccessAssumption DEF LimiterInv
<1>1. LimiterTypes'
  <2>1. now' \in Nat /\ 0 .. now \subseteq 0 .. now'
    BY DEF LimiterTypes
  <2> QED
    BY <2>1 DEF LimiterTypes
<1>2. WindowCovered'
  BY DEF LimiterTypes, WindowCovered, UsedStores
<1>3. ASSUME NEW k \in Keys, NEW s \in UsedStores
      PROVE  Cardinality(InWindow(k, s)') <= Limit
  <2>1. InWindow(k, s) \in SUBSET (0 .. now)
    BY <1>3, UsedStoresFinite DEF LimiterTypes, InWindow
  <2>2. InWindow(k, s)' \in SUBSET InWindow(k, s)
    BY <1>3 DEF LimiterTypes, InWindow
  <2>3. /\ Cardinality(InWindow(k, s)') \in Nat /\ Cardinality(InWindow(k, s)) \in Nat
        /\ Cardinality(InWindow(k, s)') <= Cardinality(InWindow(k, s))
    BY <2>1, <2>2, TimesFinite DEF LimiterTypes
  <2> QED
    BY <1>3, <2>3 DEF WindowBounded
<1>4. WindowBounded'
  BY <1>3 DEF WindowBounded, UsedStores
<1>5. AdmittedBounded'
  BY DEF AdmittedBounded
<1> QED
  BY <1>1, <1>2, <1>4, <1>5

\* A check keeps the limiter's promise: what it admits is counted with all that
\* the store it asked has admitted in the window.
LEMMA CheckInTurnLimiter ==
  ASSUME LimiterInv, NEW k \in Keys, NEW p \in Processes, NEW ok \in BOOLEAN,
         CheckInTurn(k, p, ok), UNCHANGED plan
  PROVE  LimiterInv'
<1> USE AccessAssumption DEF LimiterInv
<1> DEFINE s == StoreOf(p)
           recent == Recent(k, s, now + 1)
           kept == IF ok \/ plan.backend = "redis" THEN recent \cup {now + 1} ELSE recent
<1>1. s \in UsedStores /\ s \in Stores /\ UsedStores \subseteq Stores /\ UsedStores' = UsedStores
  BY UsedStoresFinite DEF StoreOf, UsedStores
<1>2. /\ ok = (Cardinality(recent) < Limit)
      /\ now' = now + 1
      /\ events' = [events EXCEPT ![k][s] = kept]
      /\ admitted' = IF ok THEN [admitted EXCEPT ![k] = @ \cup {now + 1}] ELSE admitted
  BY DEF CheckInTurn
<1> HIDE DEF s
<1>3. recent = {t \in events[k][s] : t + Window > now + 1} /\ recent \in SUBSET (0 .. now)
  BY <1>1 DEF Recent, LimiterTypes
<1> HIDE DEF recent
<1>4. kept \in SUBSET (0 .. now') /\ now' \in Nat /\ 0 .. now \subseteq 0 .. now'
  BY <1>2, <1>3 DEF LimiterTypes
<1>5. /\ \A j \in Keys, q \in Stores :
           events'[j][q] = IF j = k /\ q = s THEN kept ELSE events[j][q]
      /\ events' \in [Keys -> [Stores -> SUBSET (0 .. now')]]
  BY <1>1, <1>2, <1>4 DEF LimiterTypes
<1>6. /\ \A j \in Keys :
           admitted'[j] = IF j = k /\ ok THEN admitted[j] \cup {now + 1} ELSE admitted[j]
      /\ admitted' \in [Keys -> SUBSET (0 .. now')]
  BY <1>2, <1>4 DEF LimiterTypes
<1>7. LimiterTypes'
  BY <1>4, <1>5, <1>6 DEF LimiterTypes
<1>8. WindowCovered'
  <2> SUFFICES ASSUME NEW j \in Keys, NEW x \in admitted'[j], x + Window > now'
               PROVE  \E q \in UsedStores : x \in events'[j][q]
    BY <1>1 DEF WindowCovered
  <2>1. CASE x = now + 1 /\ j = k /\ ok
    BY <2>1, <1>1, <1>5
  <2>2. CASE x \in admitted[j]
    <3>1. x \in 0 .. now /\ x + Window > now
      BY <2>2, <1>2 DEF LimiterTypes
    <3>2. PICK q \in UsedStores : x \in events[j][q]
      BY <3>1, <2>2 DEF WindowCovered
    <3>3. j = k /\ q = s => x \in kept
      BY <3>1, <3>2, <1>2, <1>3
    <3> QED
      BY <3>2, <3>3, <1>1, <1>5
  <2> QED
    BY <2>1, <2>2, <1>6
<1>9. WindowBounded'
  <2> SUFFICES ASSUME NEW j \in Keys, NEW q \in UsedStores
               PROVE  Cardinality(InWindow(j, q)') <= Limit
    BY <1>1 DEF WindowBounded
  <2>1. InWindow(j, q)' = {x \in events'[j][q] \cap admitted'[j] : x + Window > now + 1}
    BY <1>2 DEF InWindow
  <2>2. InWindow(j, q) \in SUBSET (0 .. now) /\ Cardinality(InWindow(j, q)) <= Limit
    BY <1>1 DEF InWindow, LimiterTypes, WindowBounded
  <2>3. CASE j = k /\ q = s /\ ok
    <3>1. InWindow(j, q)' \in SUBSET (recent \cup {now + 1})
      BY <2>1, <2>3, <1>1, <1>5
    <3>2. IsFiniteSet(recent) /\ Cardinality(recent) \in Nat /\ Cardinality(recent) < Limit
      BY <1>2, <1>3, <2>3, TimesFinite DEF LimiterTypes
    <3>3. /\ IsFiniteSet(recent \cup {now + 1})
          /\ Cardinality(recent \cup {now + 1}) \in Nat
          /\ Cardinality(recent \cup {now + 1}) <= Limit
      <4>1. /\ IsFiniteSet(recent \cup {now + 1})
            /\ Cardinality(recent \cup {now + 1}) =
                 IF now + 1 \in recent THEN Cardinality(recent) ELSE Cardinality(recent) + 1
        BY <3>2, FS_AddElement
      <4> QED
        BY <4>1, <3>2
    <3>4. /\ Cardinality(InWindow(j, q)') <= Cardinality(recent \cup {now + 1})
          /\ Cardinality(InWindow(j, q)') \in Nat
      BY <3>1, <3>3, FS_Subset, FS_CardinalityType
    <3> QED
      BY <3>3, <3>4
  <2>4. CASE ~(j = k /\ q = s /\ ok)
    <3>1. \A x \in InWindow(j, q)' : x \in admitted[j] /\ x \in 0 .. now
      <4> SUFFICES ASSUME NEW x \in InWindow(j, q)' PROVE x \in admitted[j]
        BY DEF LimiterTypes
      <4>1. x \in events'[j][q] /\ x \in admitted'[j]
        BY <2>1
      <4>2. CASE x = now + 1 /\ j = k /\ ok
        <5>1. q # s /\ x \in events[j][q] /\ events[j][q] \in SUBSET (0 .. now)
          BY <4>1, <4>2, <2>4, <1>1, <1>5 DEF LimiterTypes
        <5> QED
          BY <5>1, <4>2 DEF LimiterTypes
      <4> QED
        BY <4>1, <4>2, <1>6
    <3>2. InWindow(j, q)' \in SUBSET InWindow(j, q)
      <4> SUFFICES ASSUME NEW x \in InWindow(j, q)' PROVE x \in InWindow(j, q)
        OBVIOUS
      <4>1. x \in admitted[j] /\ x \in 0 .. now /\ x \in events'[j][q] /\ x + Window > now + 1
        BY <3>1, <2>1
      <4>2. x \in events[j][q]
        <5>1. CASE j = k /\ q = s
          <6>1. x \in recent
            BY <5>1, <4>1, <1>1, <1>5 DEF LimiterTypes
          <6> QED
            BY <5>1, <6>1, <1>3
        <5>2. CASE ~(j = k /\ q = s)
          BY <5>2, <4>1, <1>1, <1>5
        <5> QED
          BY <5>1, <5>2
      <4> QED
        BY <4>1, <4>2 DEF InWindow, LimiterTypes
    <3>3. /\ Cardinality(InWindow(j, q)') \in Nat /\ Cardinality(InWindow(j, q)) \in Nat
          /\ Cardinality(InWindow(j, q)') <= Cardinality(InWindow(j, q))
      BY <3>2, <2>2, TimesFinite DEF LimiterTypes
    <3> QED
      BY <3>3, <2>2
  <2> QED
    BY <2>3, <2>4
<1>10. AdmittedBounded'
  <2> DEFINE stores == IF plan.backend = "redis" THEN 1 ELSE Cardinality(Processes)
             Window_(j, t) == {x \in admitted'[j] : x <= t /\ t < x + Window}
  <2> SUFFICES ASSUME NEW j \in Keys, NEW t \in admitted'[j]
               PROVE  Cardinality(Window_(j, t)) <= Limit * stores
    BY DEF AdmittedBounded
  <2>1. CASE t \in admitted[j]
    <3>1. Window_(j, t) = {x \in admitted[j] : x <= t /\ t < x + Window}
      BY <2>1, <1>6 DEF LimiterTypes
    <3> QED
      BY <2>1, <3>1 DEF AdmittedBounded
  <2>2. CASE t = now + 1
    <3> DEFINE F == [q \in UsedStores |-> InWindow(j, q)']
    <3>1. \A x \in Window_(j, t) : \E q \in UsedStores : x \in F[q]
      <4> SUFFICES ASSUME NEW x \in Window_(j, t)
                   PROVE  \E q \in UsedStores : x \in InWindow(j, q)'
        OBVIOUS
      <4>1. x \in admitted'[j] /\ x + Window > now'
        BY <2>2, <1>2, <1>7 DEF LimiterTypes
      <4>2. PICK q \in UsedStores : x \in events'[j][q]
        BY <4>1, <1>1, <1>8 DEF WindowCovered
      <4> QED
        BY <4>1, <4>2 DEF InWindow
    <3>2. \A q \in UsedStores : IsFiniteSet(F[q]) /\ Cardinality(F[q]) <= Limit
      <4> SUFFICES ASSUME NEW q \in UsedStores
                   PROVE  IsFiniteSet(InWindow(j, q)') /\ Cardinality(InWindow(j, q)') <= Limit
        OBVIOUS
      <4>1. InWindow(j, q)' \in SUBSET (0 .. now')
        BY <1>1, <1>7 DEF InWindow, LimiterTypes
      <4> QED
        BY <4>1, <1>1, <1>4, <1>9, TimesFinite DEF WindowBounded
    <3> HIDE DEF F, Window_
    <3> QED
      BY <3>1, <3>2, UsedStoresFinite, CoverBound
  <2> QED
    BY <2>1, <2>2, <1>6
<1> QED
  BY <1>7, <1>8, <1>9, <1>10

\* An overtaken check forgets nothing of the window that ends now, and what it
\* adds is no time at which a request was admitted in its turn.
LEMMA CheckOvertakenLimiter ==
  ASSUME LimiterInv, NEW k \in Keys, NEW ok \in BOOLEAN, CheckOvertaken(k, ok), UNCHANGED plan
  PROVE  LimiterInv'
<1> USE AccessAssumption DEF LimiterInv
<1>1. PICK at \in 1 .. now :
        /\ plan.backend = "redis" /\ at \notin events[k]["redis"]
        /\ events' = [events EXCEPT ![k]["redis"] = Recent(k, "redis", at) \cup {at}]
        /\ now' = now /\ admitted' = admitted
  BY DEF CheckOvertaken
<1>2. UsedStores = {"redis"} /\ UsedStores' = {"redis"} /\ "redis" \in Stores
  BY <1>1 DEF UsedStores, Stores
<1>3. /\ now \in Nat /\ at \in 0 .. now
      /\ events \in [Keys -> [Stores -> SUBSET (0 .. now)]] /\ admitted \in [Keys -> SUBSET (0 .. now)]
  BY <1>1 DEF LimiterTypes
<1>4. Recent(k, "redis", at) \cup {at} \in SUBSET (0 .. now)
  BY <1>2, <1>3 DEF Recent
<1>5. /\ events' \in [Keys -> [Stores -> SUBSET (0 .. now)]]
      /\ \A j \in Keys : events'[j]["redis"] = IF j = k THEN Recent(k, "redis", at) \cup {at} ELSE events[j]["redis"]
  BY <1>1, <1>2, <1>3, <1>4
<1>6. LimiterTypes'
  BY <1>1, <1>3, <1>5 DEF LimiterTypes
<1>7. WindowCovered'
  <2> SUFFICES ASSUME NEW j \in Keys, NEW x \in admitted[j], x + Window > now
               PROVE  x \in events'[j]["redis"]
    BY <1>1, <1>2 DEF WindowCovered
  <2>1. x \in events[j]["redis"] /\ x \in 0 .. now
    BY <1>2, <1>3 DEF WindowCovered
  <2>2. x + Window > at
    BY <1>3, <2>1
  <2> QED
    BY <1>5, <2>1, <2>2 DEF Recent
<1>8. ASSUME NEW j \in Keys
      PROVE  Cardinality(InWindow(j, "redis")') <= Limit
  <2>1. InWindow(j, "redis") \in SUBSET (0 .. now)
    BY <1>2, <1>3 DEF InWindow
  <2>2. ASSUME NEW x \in InWindow(j, "redis")' PROVE x \in InWindow(j, "redis")
    <3>1. x \in events'[j]["redis"] /\ x \in admitted[j] /\ x + Window > now
      BY <1>1 DEF InWindow
    <3>2. x \in events[j]["redis"]
      BY <1>2, <3>1 DEF WindowCovered
    <3> QED
      BY <3>1, <3>2 DEF InWindow
  <2>3. InWindow(j, "redis")' \in SUBSET InWindow(j, "redis")
    BY <2>2
  <2>4. /\ Cardinality(InWindow(j, "redis")') \in Nat /\ Cardinality(InWindow(j, "redis")) \in Nat
        /\ Cardinality(InWindow(j, "redis")') <= Cardinality(InWindow(j, "redis"))
    BY <1>3, <2>1, <2>3, TimesFinite
  <2>5. Cardinality(InWindow(j, "redis")) <= Limit
    BY <1>2 DEF WindowBounded
  <2> QED
    BY <2>4, <2>5
<1>9. WindowBounded'
  BY <1>2, <1>8 DEF WindowBounded
<1>10. AdmittedBounded'
  BY <1>1 DEF AdmittedBounded
<1> QED
  BY <1>6, <1>7, <1>9, <1>10

LEMMA CheckLimiter ==
  ASSUME LimiterInv, NEW k \in Keys, NEW p \in Processes, NEW ok \in BOOLEAN,
         Check(k, p, ok), UNCHANGED plan
  PROVE  LimiterInv'
  BY CheckInTurnLimiter, CheckOvertakenLimiter DEF Check

-----------------------------------------------------------------------------
(* Requests, runs and messages                                              *)

Token == [version : Nat, exp : Nat]

Stages == {"idle", "taken", "read", "executing", "failing", "settled"}

\* What TypeOK leaves open.
DataTypes ==
  /\ token \in [Users -> Token]
  /\ sent \in [Requests -> [token : Token, valid : Nat]]
  /\ stage \in [Workers -> Stages]
  /\ DOMAIN job = Workers

\* What the checks have established about a request that is past them: no
\* password was changed between its token's login and its arrival, and its
\* user is an admin.
Checked ==
  \A r \in Requests :
    /\ pc[r] # "new" => sent[r].valid <= account[plan.user[r]].version
    /\ pc[r] \notin {"new", "arrived", "refused"} => sent[r].token.version = sent[r].valid
    /\ pc[r] \notin {"new", "arrived", "refused", "authenticated", "admitted"} =>
         plan.bypass \/ account[plan.user[r]].role = "admin"

\* The endpoint has not found another request's run.
Early == {"new", "arrived", "authenticated", "admitted", "allowed", "refused", "absent", "inserted"}

\* A request answers for its own run until it finds another; a run has been
\* committed by the request that made it, and exists before it is worked on.
Targets ==
  \A r \in Requests :
    /\ pc[r] \in Early => target[r] = r /\ runs[r] = "absent"
    /\ pc[r] \in {"found", "committed", "raised"} => runs[target[r]] # "absent"

\* A key that is being inserted is nobody else's.
KeysDistinct ==
  /\ \A r \in Requests : pc[r] = "inserted" =>
       WithKey(r) = {} /\ \A x \in Requests \ {r} : pc[x] = "inserted" => KeyOf(x) # KeyOf(r)
  /\ \A r \in Requests : runs[r] # "absent" => WithKey(r) = {r}

\* Messages are sent by requests that have committed a run.
MessagesHaveRuns ==
  /\ \A m \in queue \cup pending :
       pc[m[1]] \notin Early \cup {"found"} /\ runs[target[m[1]]] # "absent"
  /\ \A w \in Workers : stage[w] # "idle" => pc[job[w][1]] \notin Early \cup {"found"}

OperationsInv ==
  /\ TypeOK
  /\ DataTypes
  /\ LimiterInv
  /\ Checked
  /\ Targets
  /\ KeysDistinct
  /\ MessagesHaveRuns

\* The initial state satisfies the invariant.
LEMMA InitInv == Init => OperationsInv
<1> SUFFICES ASSUME Init PROVE OperationsInv
  OBVIOUS
<1> USE AccessAssumption, OperationsAssumption DEF Init, AccessInit
<1>1. plan \in PlanType
  OBVIOUS
<1>2. TypeOK
  BY <1>1 DEF TypeOK, AccessTypeOK, PlanType, Labels, Statuses, NoToken
<1>3. DataTypes
  BY DEF DataTypes, Token, NoToken, Stages
<1>4. LimiterInv
  <2>1. \A k \in Keys, s \in UsedStores : InWindow(k, s) = {}
    BY DEF InWindow
  <2> QED
    <3>1. LimiterTypes /\ WindowCovered /\ AdmittedBounded
      BY DEF LimiterTypes, WindowCovered, AdmittedBounded
    <3>2. WindowBounded
      <4>1. Cardinality({}) = 0
        BY FS_EmptySet
      <4>2. \A k \in Keys, s \in UsedStores : Cardinality(InWindow(k, s)) = 0
        BY <2>1, <4>1
      <4> QED
        BY <4>2 DEF WindowBounded
    <3> QED
      BY <3>1, <3>2 DEF LimiterInv
<1>5. Checked /\ Targets /\ KeysDistinct /\ MessagesHaveRuns
  BY DEF Checked, Targets, KeysDistinct, MessagesHaveRuns, WithKey
<1> QED
  BY <1>2, <1>3, <1>4, <1>5 DEF OperationsInv

\* A step that leaves the limiter alone keeps what it promises.
LEMMA LimiterUnchanged ==
  ASSUME LimiterInv, UNCHANGED <<plan, now, events, admitted>>
  PROVE  LimiterInv'
  BY DEF LimiterInv, LimiterTypes, WindowCovered, WindowBounded, AdmittedBounded, InWindow,
         UsedStores

Budgets == [faults : Nat, ticks : Nat, logins : Nat, rotations : Nat]

\* A budget that is spent from stays a budget.
LEMMA SpendType ==
  ASSUME budget \in Budgets, NEW what \in {"faults", "ticks", "logins", "rotations"}, Spend(what)
  PROVE  budget' \in Budgets
<1>1. CASE what = "faults"
  BY <1>1 DEF Budgets, Spend
<1>2. CASE what = "ticks"
  BY <1>2 DEF Budgets, Spend
<1>3. CASE what = "logins"
  BY <1>3 DEF Budgets, Spend
<1>4. CASE what = "rotations"
  BY <1>4 DEF Budgets, Spend
<1> QED
  BY <1>1, <1>2, <1>3, <1>4

\* A request that a check moves on keeps its distance from the runs.
LEMMA CheckedLabel ==
  ASSUME pc \in [Requests -> Labels], NEW r \in Requests,
         pc[r] \in {"new", "arrived", "authenticated", "admitted"},
         NEW label \in {"arrived", "authenticated", "admitted", "allowed", "refused"},
         Goto(r, label)
  PROVE  /\ pc' \in [Requests -> Labels]
         /\ \A x \in Requests : pc'[x] = pc[x] \/ (pc[x] \in Early /\ pc'[x] \in Early)
         /\ \A x \in Requests : (pc'[x] = "inserted") <=> (pc[x] = "inserted")
<1>1. pc' = [pc EXCEPT ![r] = label] /\ label \in Labels
  BY DEF Goto, Labels
<1>2. pc' \in [Requests -> Labels]
  BY <1>1
<1>3. \A x \in Requests \ {r} : pc'[x] = pc[x]
  BY <1>1
<1>4. pc'[r] = label
  BY <1>1
<1> QED
  BY <1>2, <1>3, <1>4 DEF Early

\* The checks before the endpoints keep the invariant.
LEMMA AccessStep ==
  ASSUME OperationsInv, AccessNext, UNCHANGED <<runVars, workVars>>
  PROVE  OperationsInv'
<1> USE AccessAssumption, OperationsAssumption DEF OperationsInv, runVars, workVars
<1>0. plan \in PlanType /\ plan' = plan
  BY DEF TypeOK, AccessTypeOK, AccessNext, Tick, Login, BootstrapAdmin, Arrive, Authenticate,
         RateLimit, CheckAccess
<1>1. LimiterInv'
  <2>1. CASE Tick
    BY <2>1, TickLimiter DEF Tick
  <2>2. ASSUME NEW u \in Users, NEW p \in Processes, NEW password \in BOOLEAN,
               Login(u, p, password)
        PROVE  LimiterInv'
    <3>1. <<"login", u>> \in Keys
      BY DEF Keys
    <3> QED
      BY <3>1, <2>2, CheckLimiter DEF Login
  <2>3. ASSUME NEW r \in Requests, NEW ok \in BOOLEAN, RateLimit(r, ok)
        PROVE  LimiterInv'
    <3>1. <<"eval", plan.user[r]>> \in Keys /\ plan.process[r] \in Processes
      BY <1>0 DEF Keys, PlanType
    <3> QED
      BY <3>1, <2>3, CheckLimiter DEF RateLimit
  <2>4. CASE \/ \E u \in Users, update \in BOOLEAN : BootstrapAdmin(u, update)
             \/ \E r \in Requests : Arrive(r) \/ Authenticate(r) \/ CheckAccess(r)
    BY <2>4, LimiterUnchanged DEF BootstrapAdmin, Arrive, Authenticate, CheckAccess
  <2> QED
    BY <2>1, <2>2, <2>3, <2>4 DEF AccessNext
<1> DEFINE Labelled == /\ pc' \in [Requests -> Labels]
                       /\ \A r \in Requests :
                            pc'[r] = pc[r] \/ (pc[r] \in Early /\ pc'[r] \in Early)
                       /\ \A r \in Requests : (pc'[r] = "inserted") <=> (pc[r] = "inserted")
           Accounts == /\ account' \in [Users -> [version : Nat, role : ProjectRoles]]
                       /\ \A u \in Users : token'[u].version <= account'[u].version
           Carried == /\ token' \in [Users -> Token]
                      /\ sent' \in [Requests -> [token : Token, valid : Nat]]
                      /\ \A r \in Requests : sent'[r].token.version <= sent'[r].valid
<1> USE <1>0 DEF TypeOK, AccessTypeOK, DataTypes
<1>c. budget \in Budgets /\ plan.user \in [Requests -> Users]
  BY DEF Budgets, PlanType
<1>2. ASSUME Tick PROVE budget' \in Budgets /\ Labelled /\ Accounts /\ Carried /\ Checked'
  <2>1. budget' \in Budgets
    BY <1>2, <1>c, SpendType DEF Tick
  <2> QED
    BY <1>2, <2>1 DEF Tick, Checked
<1>3. ASSUME NEW u \in Users, NEW p \in Processes, NEW password \in BOOLEAN, Login(u, p, password)
      PROVE  budget' \in Budgets /\ Labelled /\ Accounts /\ Carried /\ Checked'
  <2>1. budget' \in Budgets
    BY <1>3, <1>c, SpendType DEF Login
  <2>2. Labelled /\ Checked'
    BY <1>3 DEF Login, Checked
  <2>3. Accounts /\ token' \in [Users -> Token]
    BY <1>3 DEF Login, Token
  <2> QED
    BY <2>1, <2>2, <2>3, <1>3 DEF Login
<1>4. ASSUME NEW u \in Users, NEW update \in BOOLEAN, BootstrapAdmin(u, update)
      PROVE  budget' \in Budgets /\ Labelled /\ Accounts /\ Carried /\ Checked'
  <2>1. /\ account' \in [Users -> [version : Nat, role : ProjectRoles]]
        /\ \A v \in Users : /\ account'[v].version >= account[v].version
                            /\ account[v].role = "admin" => account'[v].role = "admin"
    BY <1>4 DEF BootstrapAdmin, ProjectRoles
  <2>a. budget' \in Budgets
    BY <1>4, <1>c, SpendType DEF BootstrapAdmin
  <2>2. Labelled /\ Carried
    BY <1>4 DEF BootstrapAdmin
  <2>3. Accounts
    BY <1>4, <2>1 DEF BootstrapAdmin, Token
  <2>4. Checked'
    BY <1>4, <1>c, <2>1 DEF BootstrapAdmin, Checked
  <2> QED
    BY <2>a, <2>2, <2>3, <2>4
<1>5. ASSUME NEW r \in Requests, Arrive(r)
      PROVE  budget' \in Budgets /\ Labelled /\ Accounts /\ Carried /\ Checked'
  <2>1. budget' \in Budgets /\ Labelled /\ Accounts
    BY <1>5, <1>c, CheckedLabel DEF Arrive
  <2>2. plan.user[r] \in Users /\ token[plan.user[r]] \in Token
    BY <1>c
  <2>3. Carried
    BY <1>5, <2>2 DEF Arrive
  <2>4. Checked'
    BY <1>5, <2>2 DEF Arrive, Goto, Checked
  <2> QED
    BY <2>1, <2>3, <2>4
<1>6. ASSUME NEW r \in Requests, Authenticate(r)
      PROVE  budget' \in Budgets /\ Labelled /\ Accounts /\ Carried /\ Checked'
  <2>1. budget' \in Budgets /\ Labelled /\ Accounts /\ Carried
    BY <1>6, <1>c, CheckedLabel DEF Authenticate
  <2>2. plan.user[r] \in Users /\ account[plan.user[r]].version \in Nat
        /\ sent[r].token.version \in Nat /\ sent[r].valid \in Nat
        /\ sent[r].token.version <= sent[r].valid
    BY <1>c DEF Token
  <2>3. TokenValid(r) => sent[r].token.version = sent[r].valid
    <3>1. sent[r].valid <= account[plan.user[r]].version
      BY <1>6 DEF Authenticate, Checked
    <3>2. TokenValid(r) => sent[r].token.version = account[plan.user[r]].version
      BY DEF TokenValid
    <3> HIDE DEF OperationsInv, TypeOK, AccessTypeOK, DataTypes
    <3> QED
      BY <2>2, <3>1, <3>2
  <2>4. Checked'
    BY <1>6, <2>3 DEF Authenticate, Goto, Checked
  <2> QED
    BY <2>1, <2>4
<1>7. ASSUME NEW r \in Requests, NEW ok \in BOOLEAN, RateLimit(r, ok)
      PROVE  budget' \in Budgets /\ Labelled /\ Accounts /\ Carried /\ Checked'
  <2>1. budget' \in Budgets /\ Labelled /\ Accounts /\ Carried
    BY <1>7, <1>c, CheckedLabel DEF RateLimit
  <2>2. Checked'
    BY <1>7 DEF RateLimit, Goto, Checked
  <2> QED
    BY <2>1, <2>2
<1>a. ASSUME NEW r \in Requests, CheckAccess(r)
      PROVE  budget' \in Budgets /\ Labelled /\ Accounts /\ Carried /\ Checked'
  <2>1. budget' \in Budgets /\ Labelled /\ Accounts /\ Carried
    BY <1>a, <1>c, CheckedLabel DEF CheckAccess
  <2>2. Allowed(r, "admin") => plan.bypass \/ account[plan.user[r]].role = "admin"
    <3>1. account[plan.user[r]].role \in ProjectRoles
      BY <1>c
    <3> QED
      BY <3>1 DEF Allowed, role_allows, ROLE_ORDER, ProjectRoles
  <2>3. Checked'
    BY <1>a, <2>2 DEF CheckAccess, Goto, Checked
  <2> QED
    BY <2>1, <2>3
<1>b. budget' \in Budgets /\ Labelled /\ Accounts /\ Carried /\ Checked'
  BY <1>2, <1>3, <1>4, <1>5, <1>6, <1>7, <1>a DEF AccessNext
<1>8. TypeOK' /\ DataTypes'
  BY <1>1, <1>b DEF Budgets, LimiterInv, LimiterTypes
<1>9. Targets' /\ MessagesHaveRuns'
  BY <1>b DEF Targets, MessagesHaveRuns, Messages, Early
<1>10. KeysDistinct'
  <2>1. \A r \in Requests : KeyOf(r)' = KeyOf(r) /\ WithKey(r)' = WithKey(r)
    BY DEF KeyOf, WithKey
  <2> QED
    BY <1>b, <2>1 DEF KeysDistinct
<1> QED
  BY <1>1, <1>b, <1>8, <1>9, <1>10

\* A step after the checks, of a request or of a worker, leaves what the checks
\* have established.
LEMMA PastChecks ==
  ASSUME OperationsInv, UNCHANGED <<plan, now, events, admitted, account, token, sent>>,
         UNCHANGED budget \/ Spend("faults"),
         \/ UNCHANGED pc
         \/ \E r \in Requests, label \in Labels :
              /\ pc[r] \notin {"new", "arrived", "refused", "authenticated", "admitted"}
              /\ Goto(r, label)
  PROVE  /\ AccessTypeOK' /\ pc' \in [Requests -> Labels]
         /\ token' \in [Users -> Token] /\ sent' \in [Requests -> [token : Token, valid : Nat]]
         /\ LimiterInv' /\ Checked'
<1>1. LimiterInv'
  BY LimiterUnchanged DEF OperationsInv
<1>2. budget' \in Budgets
  BY SpendType DEF OperationsInv, TypeOK, AccessTypeOK, Budgets
<1>3. AccessTypeOK'
  BY <1>2 DEF OperationsInv, TypeOK, AccessTypeOK, Budgets
<1>4. pc' \in [Requests -> Labels] /\ Checked'
  <2>1. CASE UNCHANGED pc
    BY <2>1 DEF OperationsInv, TypeOK, Checked
  <2>2. ASSUME NEW r \in Requests, NEW label \in Labels,
               pc[r] \notin {"new", "arrived", "refused", "authenticated", "admitted"},
               Goto(r, label)
        PROVE  pc' \in [Requests -> Labels] /\ Checked'
    BY <2>2 DEF Goto, OperationsInv, TypeOK, Checked
  <2> QED
    BY <2>1, <2>2
<1> QED
  BY <1>1, <1>3, <1>4 DEF OperationsInv, DataTypes

\* A step that creates no run and inserts no key keeps keys distinct.
LEMMA KeysUnchanged ==
  ASSUME KeysDistinct, UNCHANGED plan,
         \A x \in Requests : (runs'[x] = "absent") <=> (runs[x] = "absent"),
         \A x \in Requests : pc'[x] = "inserted" => pc[x] = "inserted"
  PROVE  KeysDistinct'
<1>1. \A x \in Requests : KeyOf(x)' = KeyOf(x) /\ WithKey(x)' = WithKey(x)
  BY DEF KeyOf, WithKey
<1> QED
  BY <1>1 DEF KeysDistinct

\* The step in which r's own run comes into being: its key was r's to insert.
LEMMA RunCreated ==
  ASSUME KeysDistinct, UNCHANGED plan, NEW r \in Requests, pc[r] = "inserted",
         runs[r] = "absent", runs'[r] # "absent",
         \A x \in Requests \ {r} : (runs'[x] = "absent") <=> (runs[x] = "absent"),
         \A x \in Requests : pc'[x] = "inserted" => pc[x] = "inserted" /\ x # r
  PROVE  KeysDistinct'
<1>1. \A x \in Requests : KeyOf(x)' = KeyOf(x)
  BY DEF KeyOf
<1> DEFINE Gains(x) == IF KeyOf(x) = KeyOf(r) THEN WithKey(x) \cup {r} ELSE WithKey(x)
<1>2. \A x \in Requests : WithKey(x)' = Gains(x)
  BY <1>1 DEF WithKey
<1>3. \A x \in Requests : KeyOf(x) = KeyOf(r) => WithKey(x) = {}
  <2>1. \A x \in Requests : KeyOf(x) = KeyOf(r) => WithKey(x) = WithKey(r)
    BY DEF WithKey
  <2> QED
    BY <2>1 DEF KeysDistinct
<1>4. \A x \in Requests : runs[x] # "absent" => x \in WithKey(x)
  BY DEF WithKey
<1>5. ASSUME NEW x \in Requests, pc'[x] = "inserted"
      PROVE  /\ WithKey(x)' = {}
             /\ \A y \in Requests \ {x} : pc'[y] = "inserted" => KeyOf(y)' # KeyOf(x)'
  BY <1>1, <1>2, <1>5 DEF KeysDistinct
<1>6. ASSUME NEW x \in Requests, runs'[x] # "absent" PROVE WithKey(x)' = {x}
  <2>1. CASE x = r
    BY <2>1, <1>2, <1>3
  <2>2. CASE x # r
    BY <2>2, <1>2, <1>3, <1>4, <1>6 DEF KeysDistinct
  <2> QED
    BY <2>1, <2>2
<1> QED
  BY <1>5, <1>6 DEF KeysDistinct

\* What the checks established about requests and tokens
Kept == /\ AccessTypeOK /\ pc \in [Requests -> Labels]
        /\ token \in [Users -> Token] /\ sent \in [Requests -> [token : Token, valid : Nat]]
        /\ LimiterInv /\ Checked

\* The endpoints keep the invariant.
LEMMA EndpointInv ==
  ASSUME OperationsInv, NEW r \in Requests, Endpoint(r)
  PROVE  OperationsInv'
<1> USE OperationsAssumption DEF OperationsInv
<1>0. Kept'
  <2>1. \/ UNCHANGED budget
        \/ Spend("faults")
    BY DEF Endpoint, EvaluateInline, SelectRun, InsertRun, RunInline, CommitRun, Enqueue,
           EnqueueRaises, RecordEnqueueFailure, ApiCrash
  <2>2. PICK from \in SUBSET {"allowed", "absent", "inserted", "found", "committed", "raised"},
             label \in Labels : Request(r, from, label)
    BY DEF Endpoint, EvaluateInline, SelectRun, InsertRun, RunInline, CommitRun, Enqueue,
           EnqueueRaises, RecordEnqueueFailure, ApiCrash, Labels
  <2>3. /\ UNCHANGED <<plan, now, events, admitted, account, token, sent>>
        /\ pc[r] \notin {"new", "arrived", "refused", "authenticated", "admitted"}
        /\ Goto(r, label)
    BY <2>2 DEF Request
  <2> QED
    BY <2>1, <2>3, PastChecks DEF Kept
<1> USE DEF TypeOK, DataTypes, Request, Goto, runVars, workVars
<1>1. ASSUME NEW outcome \in TERMINAL_STATUSES, EvaluateInline(r, outcome) PROVE OperationsInv'
  <2>1. TypeOK' /\ DataTypes'
    BY <1>0, <1>1 DEF EvaluateInline, Kept, Statuses, TERMINAL_STATUSES, Messages
  <2>2. Targets'
    BY <1>1 DEF EvaluateInline, Targets, Early, TERMINAL_STATUSES
  <2>3. KeysDistinct'
    BY <1>1, KeysUnchanged DEF EvaluateInline
  <2>4. MessagesHaveRuns'
    BY <1>1 DEF EvaluateInline, MessagesHaveRuns, Messages, Targets, Early, TERMINAL_STATUSES
  <2> QED
    BY <1>0, <2>1, <2>2, <2>3, <2>4 DEF Kept
<1>2. CASE SelectRun(r)
  <2>1. TypeOK' /\ DataTypes'
    <3>1. target' \in [Requests -> Requests]
      BY <1>2 DEF SelectRun, WithKey
    <3>2. \A w \in Workers : stage[w] # "idle" => target'[job[w][1]] = target[job[w][1]]
      BY <1>2 DEF SelectRun, MessagesHaveRuns, Messages, Early
    <3> QED
      BY <1>0, <1>2, <3>1, <3>2 DEF SelectRun, Kept
  <2>2. Targets'
    BY <1>2 DEF SelectRun, Targets, Early, TERMINAL_STATUSES
  <2>3. KeysDistinct'
    BY <1>2, KeysUnchanged DEF SelectRun
  <2>4. MessagesHaveRuns'
    BY <1>2 DEF SelectRun, MessagesHaveRuns, Messages, Targets, Early, TERMINAL_STATUSES
  <2> QED
    BY <1>0, <2>1, <2>2, <2>3, <2>4 DEF Kept
<1>3. CASE InsertRun(r)
  <2>1. TypeOK' /\ DataTypes'
    BY <1>0, <1>3 DEF InsertRun, Kept, Statuses, TERMINAL_STATUSES, Messages
  <2>2. Targets'
    BY <1>3 DEF InsertRun, Targets, Early, TERMINAL_STATUSES
  <2>3. KeysDistinct'
    <3>1. UNCHANGED <<plan, runs>>
      BY <1>3 DEF InsertRun
    <3>2. \A x \in Requests : KeyOf(x)' = KeyOf(x) /\ WithKey(x)' = WithKey(x)
      BY <3>1 DEF KeyOf, WithKey
    <3>3. /\ \A x \in Requests \ {r} : pc'[x] = pc[x]
          /\ pc'[r] = "inserted" =>
               /\ WithKey(r) = {}
               /\ \A x \in Requests \ {r} : pc[x] = "inserted" => KeyOf(x) # KeyOf(r)
      BY <1>3 DEF InsertRun
    <3> QED
      BY <3>1, <3>2, <3>3 DEF KeysDistinct
  <2>4. MessagesHaveRuns'
    BY <1>3 DEF InsertRun, MessagesHaveRuns, Messages, Targets, Early, TERMINAL_STATUSES
  <2> QED
    BY <1>0, <2>1, <2>2, <2>3, <2>4 DEF Kept
<1>4. CASE RunInline(r)
  <2>1. TypeOK' /\ DataTypes'
    BY <1>0, <1>4 DEF RunInline, Kept, Statuses, TERMINAL_STATUSES, Messages
  <2>2. Targets'
    BY <1>4 DEF RunInline, Targets, Early, TERMINAL_STATUSES
  <2>3. KeysDistinct'
    <3>1. CASE pc[r] = "inserted"
      <4>1. target[r] = r /\ runs[r] = "absent" /\ runs' = [runs EXCEPT ![r] = "completed"]
        BY <1>4, <3>1 DEF RunInline, Targets, Early
      <4> QED
        BY <1>4, <3>1, <4>1, RunCreated DEF RunInline
    <3>2. CASE pc[r] = "found"
      <4>1. runs[target[r]] # "absent" /\ runs' = [runs EXCEPT ![target[r]] = "completed"]
        BY <1>4, <3>2 DEF RunInline, Targets
      <4> QED
        BY <1>4, <4>1, KeysUnchanged DEF RunInline
    <3> QED
      BY <1>4, <3>1, <3>2 DEF RunInline
  <2>4. MessagesHaveRuns'
    BY <1>4 DEF RunInline, MessagesHaveRuns, Messages, Targets, Early, TERMINAL_STATUSES
  <2> QED
    BY <1>0, <2>1, <2>2, <2>3, <2>4 DEF Kept
<1>5. CASE CommitRun(r)
  <2>1. TypeOK' /\ DataTypes'
    BY <1>0, <1>5 DEF CommitRun, Kept, Statuses, TERMINAL_STATUSES, Messages
  <2>2. Targets'
    BY <1>5 DEF CommitRun, Targets, Early, TERMINAL_STATUSES
  <2>3. KeysDistinct'
    <3>1. CASE pc[r] = "inserted"
      <4>1. runs[r] = "absent" /\ runs' = [runs EXCEPT ![r] = "queued"]
        BY <1>5, <3>1 DEF CommitRun, Targets, Early
      <4> QED
        BY <1>5, <3>1, <4>1, RunCreated DEF CommitRun
    <3>2. CASE pc[r] # "inserted"
      BY <1>5, <3>2, KeysUnchanged DEF CommitRun
    <3> QED
      BY <3>1, <3>2
  <2>4. MessagesHaveRuns'
    BY <1>5 DEF CommitRun, MessagesHaveRuns, Messages, Targets, Early, TERMINAL_STATUSES
  <2> QED
    BY <1>0, <2>1, <2>2, <2>3, <2>4 DEF Kept
<1>6. CASE Enqueue(r)
  <2>1. TypeOK' /\ DataTypes'
    BY <1>0, <1>6 DEF Enqueue, Kept, Statuses, TERMINAL_STATUSES, Messages
  <2>2. Targets'
    BY <1>6 DEF Enqueue, Targets, Early, TERMINAL_STATUSES
  <2>3. KeysDistinct'
    BY <1>6, KeysUnchanged DEF Enqueue
  <2>4. MessagesHaveRuns'
    BY <1>6 DEF Enqueue, MessagesHaveRuns, Messages, Targets, Early, TERMINAL_STATUSES
  <2> QED
    BY <1>0, <2>1, <2>2, <2>3, <2>4 DEF Kept
<1>7. ASSUME NEW stored \in BOOLEAN, EnqueueRaises(r, stored) PROVE OperationsInv'
  <2>1. TypeOK' /\ DataTypes'
    BY <1>0, <1>7 DEF EnqueueRaises, Kept, Statuses, TERMINAL_STATUSES, Messages
  <2>2. Targets'
    BY <1>7 DEF EnqueueRaises, Targets, Early, TERMINAL_STATUSES
  <2>3. KeysDistinct'
    BY <1>7, KeysUnchanged DEF EnqueueRaises
  <2>4. MessagesHaveRuns'
    BY <1>7 DEF EnqueueRaises, MessagesHaveRuns, Messages, Targets, Early, TERMINAL_STATUSES
  <2> QED
    BY <1>0, <2>1, <2>2, <2>3, <2>4 DEF Kept
<1>8. CASE RecordEnqueueFailure(r)
  <2>0. /\ runs' \in [Requests -> Statuses] /\ evals' \in [Requests -> Statuses]
        /\ \A x \in Requests : (runs'[x] = "absent") <=> (runs[x] = "absent")
    <3>1. target[r] \in Requests /\ runs[target[r]] # "absent"
      BY <1>8 DEF RecordEnqueueFailure, Targets
    <3>2. CASE plan.type[r] = "evaluator"
      BY <1>8, <3>2 DEF RecordEnqueueFailure, Statuses, TERMINAL_STATUSES
    <3>3. CASE plan.type[r] # "evaluator"
      BY <1>8, <3>1, <3>3 DEF RecordEnqueueFailure, Statuses, TERMINAL_STATUSES
    <3> QED
      BY <3>2, <3>3
  <2>1. TypeOK' /\ DataTypes'
    BY <1>0, <1>8, <2>0 DEF RecordEnqueueFailure, Kept, Messages
  <2>2. Targets'
    BY <1>8 DEF RecordEnqueueFailure, Targets, Early, TERMINAL_STATUSES
  <2>3. KeysDistinct'
    BY <1>8, <2>0, KeysUnchanged DEF RecordEnqueueFailure
  <2>4. MessagesHaveRuns'
    BY <1>8 DEF RecordEnqueueFailure, MessagesHaveRuns, Messages, Targets, Early, TERMINAL_STATUSES
  <2> QED
    BY <1>0, <2>1, <2>2, <2>3, <2>4 DEF Kept
<1>9. CASE ApiCrash(r)
  <2>1. TypeOK' /\ DataTypes'
    BY <1>0, <1>9 DEF ApiCrash, Kept, Statuses, TERMINAL_STATUSES, Messages
  <2>2. Targets'
    BY <1>9 DEF ApiCrash, Targets, Early, TERMINAL_STATUSES
  <2>3. KeysDistinct'
    BY <1>9, KeysUnchanged DEF ApiCrash
  <2>4. MessagesHaveRuns'
    BY <1>9 DEF ApiCrash, MessagesHaveRuns, Messages, Targets, Early, TERMINAL_STATUSES
  <2> QED
    BY <1>0, <2>1, <2>2, <2>3, <2>4 DEF Kept
<1> QED
  BY <1>1, <1>2, <1>3, <1>4, <1>5, <1>6, <1>7, <1>8, <1>9 DEF Endpoint

\* The workers keep the invariant.
LEMMA WorkerInv ==
  ASSUME OperationsInv, NEW w \in Workers, Work(w) \/ Fault(w)
  PROVE  OperationsInv'
<1> USE OperationsAssumption DEF OperationsInv
<1>0. Kept' /\ UNCHANGED <<plan, pc, target>>
  <2>1. UNCHANGED budget \/ Spend("faults")
    BY DEF Work, Fault, Take, Reclaim, ReadRun, StartRun, FinishRun, MarkFailed, Acknowledge,
           RetryRun, GiveUp, MarkRaises, WorkerCrash
  <2>2. UNCHANGED <<plan, now, events, admitted, account, token, pc, sent, target>>
    BY DEF Work, Fault, Take, Reclaim, ReadRun, StartRun, FinishRun, MarkFailed, Acknowledge,
           RetryRun, GiveUp, MarkRaises, WorkerCrash, Step
  <2> QED
    BY <2>1, <2>2, PastChecks DEF Kept
<1>1. stage[w] # "idle" =>
        /\ job[w] \in Messages /\ RunOf(w) \in Requests /\ runs[RunOf(w)] # "absent"
        /\ pc[job[w][1]] \notin Early \cup {"found"}
  BY DEF TypeOK, DataTypes, Messages, RunOf, MessagesHaveRuns
<1> USE <1>0 DEF TypeOK, DataTypes, Step, Stages
<1>a. ASSUME UNCHANGED <<runs, evals>> PROVE Targets' /\ KeysDistinct'
  BY <1>a, KeysUnchanged DEF Targets
<1>2. ASSUME NEW m \in queue, Take(w, m) PROVE OperationsInv'
  <2>1. TypeOK' /\ DataTypes'
    BY <1>2 DEF Take, Kept, Messages, MessagesHaveRuns
  <2>2. MessagesHaveRuns'
    BY <1>2 DEF Take, MessagesHaveRuns
  <2> QED
    BY <1>2, <1>a, <2>1, <2>2 DEF Take, Kept
<1>3. ASSUME NEW m \in pending, Reclaim(w, m) PROVE OperationsInv'
  <2>1. TypeOK' /\ DataTypes'
    BY <1>3 DEF Reclaim, Kept, Messages, MessagesHaveRuns
  <2>2. MessagesHaveRuns'
    BY <1>3 DEF Reclaim, MessagesHaveRuns
  <2> QED
    BY <1>3, <1>a, <2>1, <2>2 DEF Reclaim, Kept
<1>4. CASE ReadRun(w)
  <2>1. TypeOK' /\ DataTypes'
    BY <1>4, <1>1 DEF ReadRun, Kept, Messages
  <2>2. MessagesHaveRuns'
    BY <1>4, <1>1 DEF ReadRun, MessagesHaveRuns
  <2> QED
    BY <1>4, <1>a, <2>1, <2>2 DEF ReadRun, Kept
<1>5. CASE StartRun(w)
  <2>1. TypeOK' /\ DataTypes'
    BY <1>5, <1>1 DEF StartRun, Kept, Messages
  <2>2. MessagesHaveRuns'
    BY <1>5, <1>1 DEF StartRun, MessagesHaveRuns
  <2> QED
    BY <1>5, <1>a, <2>1, <2>2 DEF StartRun, Kept
<1>6. CASE RetryRun(w)
  <2>1. TypeOK' /\ DataTypes'
    BY <1>6, <1>1 DEF RetryRun, Kept, Messages, CanRetry
  <2>2. MessagesHaveRuns'
    BY <1>6, <1>1 DEF RetryRun, MessagesHaveRuns, Messages, RunOf
  <2> QED
    BY <1>6, <1>a, <2>1, <2>2 DEF RetryRun, Kept
<1>7. CASE GiveUp(w)
  <2>1. TypeOK' /\ DataTypes'
    BY <1>7, <1>1 DEF GiveUp, Kept, Messages
  <2>2. MessagesHaveRuns'
    BY <1>7, <1>1 DEF GiveUp, MessagesHaveRuns
  <2> QED
    BY <1>7, <1>a, <2>1, <2>2 DEF GiveUp, Kept
<1>8. CASE MarkRaises(w)
  <2>1. TypeOK' /\ DataTypes'
    BY <1>8, <1>1 DEF MarkRaises, Kept, Messages, RunOf
  <2>2. MessagesHaveRuns'
    BY <1>8, <1>1 DEF MarkRaises, MessagesHaveRuns
  <2> QED
    BY <1>8, <1>a, <2>1, <2>2 DEF MarkRaises, Kept
<1>9. CASE Acknowledge(w)
  <2>1. TypeOK' /\ DataTypes'
    BY <1>9, <1>1 DEF Acknowledge, Kept, Messages
  <2>2. MessagesHaveRuns'
    BY <1>9, <1>1 DEF Acknowledge, MessagesHaveRuns
  <2> QED
    BY <1>9, <1>a, <2>1, <2>2 DEF Acknowledge, Kept
<1>10. CASE WorkerCrash(w)
  <2>1. TypeOK' /\ DataTypes'
    BY <1>10, <1>1 DEF WorkerCrash, Kept, Messages
  <2>2. MessagesHaveRuns'
    BY <1>10, <1>1 DEF WorkerCrash, MessagesHaveRuns
  <2> QED
    BY <1>10, <1>a, <2>1, <2>2 DEF WorkerCrash, Kept
<1>11. ASSUME NEW outcome \in TERMINAL_STATUSES, FinishRun(w, outcome) PROVE OperationsInv'
  <2>1. /\ runs' \in [Requests -> Statuses] /\ evals' \in [Requests -> Statuses]
        /\ \A x \in Requests : (runs'[x] = "absent") <=> (runs[x] = "absent")
    BY <1>11, <1>1 DEF FinishRun, Statuses, TERMINAL_STATUSES
  <2>2. TypeOK' /\ DataTypes'
    BY <1>11, <1>1, <2>1 DEF FinishRun, Kept, Messages
  <2>3. Targets' /\ MessagesHaveRuns'
    BY <1>11, <1>1, <2>1 DEF FinishRun, Targets, MessagesHaveRuns, Messages
  <2>4. KeysDistinct'
    BY <2>1, KeysUnchanged
  <2> QED
    BY <2>2, <2>3, <2>4 DEF Kept
<1>12. CASE MarkFailed(w)
  <2>1. /\ runs' \in [Requests -> Statuses] /\ evals' \in [Requests -> Statuses]
        /\ \A x \in Requests : (runs'[x] = "absent") <=> (runs[x] = "absent")
    BY <1>12, <1>1 DEF MarkFailed, Statuses, TERMINAL_STATUSES
  <2>2. TypeOK' /\ DataTypes'
    BY <1>12, <1>1, <2>1 DEF MarkFailed, Kept, Messages
  <2>3. Targets' /\ MessagesHaveRuns'
    BY <1>12, <1>1, <2>1 DEF MarkFailed, Targets, MessagesHaveRuns, Messages
  <2>4. KeysDistinct'
    BY <2>1, KeysUnchanged
  <2> QED
    BY <2>2, <2>3, <2>4 DEF Kept
<1> QED
  BY <1>2, <1>3, <1>4, <1>5, <1>6, <1>7, <1>8, <1>9, <1>10, <1>11, <1>12 DEF Work, Fault

\* OperationsInv is inductive.
LEMMA NextInv == OperationsInv /\ [Next]_vars => OperationsInv'
<1> SUFFICES ASSUME OperationsInv, [Next]_vars PROVE OperationsInv'
  OBVIOUS
<1>1. CASE UNCHANGED vars
  <2>1. LimiterInv'
    BY <1>1, LimiterUnchanged DEF OperationsInv, vars, accessVars
  <2>2. KeysDistinct'
    BY <1>1, KeysUnchanged DEF OperationsInv, vars, accessVars, runVars
  <2> QED
    BY <1>1, <2>1, <2>2
    DEF OperationsInv, vars, accessVars, runVars, workVars, TypeOK, AccessTypeOK, DataTypes,
        Checked, Targets, MessagesHaveRuns
<1> QED
  BY <1>1, AccessStep, EndpointInv, WorkerInv DEF Next

-----------------------------------------------------------------------------
\* OperationsInv holds in every reachable state.
THEOREM Invariance == Spec => []OperationsInv
  BY InitInv, NextInv, PTL DEF Spec

\* Every variable keeps its type.
THEOREM TypeCorrect == Spec => []TypeOK
<1>1. OperationsInv => TypeOK
  BY DEF OperationsInv
<1> QED
  BY <1>1, Invariance, PTL

\* Whatever requests race for one idempotency key, create_operational_run makes
\* one run of them, and only for an admin whose token was not revoked.
THEOREM OneRunPerKey == Spec => []RunCreation
<1>1. OperationsInv => RunCreation
  BY DEF OperationsInv, RunCreation, KeysDistinct, Targets, Checked, Early
<1> QED
  BY <1>1, Invariance, PTL

\* RateLimiter.check admits no more than the limit in any window: what it
\* admitted is counted in the store that is asked next, and with the memory
\* backend once for each process.
THEOREM LimiterHolds == Spec => []AdmittedBounded
<1>1. OperationsInv => AdmittedBounded
  BY DEF OperationsInv, LimiterInv
<1> QED
  BY <1>1, Invariance, PTL
=============================================================================
