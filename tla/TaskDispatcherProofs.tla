------------------------ MODULE TaskDispatcherProofs ------------------------
(* For any number of dispatchers, jobs and tokens, with any answers, faults  *)
(* and crashes: every safety property that the runs of TaskDispatcher check. *)
EXTENDS TaskDispatcher, FunctionTheorems, FiniteSetTheorems, SequenceTheorems, TLAPS

----------------------------------------------------------------------------
(* The lists of DispatchSelection *)

StrictOrder(S, R) ==
    /\ \A i \in S : <<i, i>> \notin R
    /\ \A i, j, k \in S : <<i, j>> \in R /\ <<j, k>> \in R => <<i, k>> \in R
    /\ \A i, j \in S : i # j => <<i, j>> \in R \/ <<j, i>> \in R

Below(S, R, i) == {k \in S : <<k, i>> \in R}

\* Of two members of a finite strict order one has fewer below it.
LEMMA RankGrows ==
    ASSUME NEW S, IsFiniteSet(S), NEW R, StrictOrder(S, R),
           NEW i \in S, NEW j \in S, <<i, j>> \in R
    PROVE  Cardinality(Below(S, R, i)) < Cardinality(Below(S, R, j))
<1>1. Below(S, R, i) \subseteq Below(S, R, j) /\ i \in Below(S, R, j) /\ i \notin Below(S, R, i)
  BY DEF Below, StrictOrder
<1>2. IsFiniteSet(Below(S, R, i)) /\ IsFiniteSet(Below(S, R, j))
  BY FS_Subset DEF Below
<1>3. Cardinality(Below(S, R, i)) <= Cardinality(Below(S, R, j))
  BY <1>1, <1>2, FS_Subset
<1>4. Cardinality(Below(S, R, i)) # Cardinality(Below(S, R, j))
  BY <1>1, <1>2, FS_Subset
<1> QED
  BY <1>2, <1>3, <1>4, FS_CardinalityType

\* Each position up to the size of the order is the rank of one member.
LEMMA RankReached ==
    ASSUME NEW S, IsFiniteSet(S), NEW R, StrictOrder(S, R), NEW n \in 1..Cardinality(S)
    PROVE  \E i \in S : Cardinality(Below(S, R, i)) = n - 1
<1> DEFINE c == Cardinality(S)
           rank == [i \in S |-> Cardinality(Below(S, R, i)) + 1]
<1>1. c \in Nat
  BY FS_CardinalityType
<1>2. ASSUME NEW i \in S
      PROVE  Cardinality(Below(S, R, i)) \in 0..(c - 1)
  <2>1. Below(S, R, i) \subseteq S /\ i \notin Below(S, R, i)
    BY DEF Below, StrictOrder
  <2>2. IsFiniteSet(Below(S, R, i)) /\ Cardinality(Below(S, R, i)) <= c
        /\ Cardinality(Below(S, R, i)) # c
    BY <2>1, FS_Subset
  <2> QED
    BY <2>2, <1>1, FS_CardinalityType
<1>3. rank \in [S -> 1..c]
  BY <1>1, <1>2
<1>4. \A i, j \in S : rank[i] = rank[j] => i = j
  <2> SUFFICES ASSUME NEW i \in S, NEW j \in S, i # j
               PROVE  rank[i] # rank[j]
    OBVIOUS
  <2>1. Cardinality(Below(S, R, i)) \in Nat /\ Cardinality(Below(S, R, j)) \in Nat
    BY <1>1, <1>2
  <2>2. CASE <<i, j>> \in R
    BY <2>1, <2>2, RankGrows
  <2>3. CASE <<j, i>> \in R
    BY <2>1, <2>3, RankGrows
  <2> QED
    BY <2>2, <2>3 DEF StrictOrder
<1>5. rank \in Injection(S, 1..c)
  BY <1>3, <1>4, Fun_IsInj
<1>6. IsFiniteSet(1..c) /\ Cardinality(1..c) = c
  BY <1>1, FS_Interval
<1>7. rank \in Surjection(S, 1..c)
  BY <1>5, <1>6, FS_Injection
<1>8. \A m \in 1..c : \E i \in S : rank[i] = m
  <2> HIDE DEF rank, c
  <2> QED
    BY <1>7, Fun_SurjectionProperties
<1>9. PICK i \in S : rank[i] = n
  BY <1>8
<1> QED
  BY <1>9, <1>1, <1>2

\* Arranged lists every member of a finite strict order once.
LEMMA ArrangedLists ==
    ASSUME NEW S, IsFiniteSet(S), NEW R, StrictOrder(S, R)
    PROVE  /\ Arranged(S, R) \in [1..Cardinality(S) -> S]
           /\ \A n, m \in 1..Cardinality(S) :
                 Arranged(S, R)[n] = Arranged(S, R)[m] => n = m
           /\ \A i \in S : \E n \in 1..Cardinality(S) : Arranged(S, R)[n] = i
<1> DEFINE c == Cardinality(S)
           Rank(i) == Cardinality(Below(S, R, i))
           A == Arranged(S, R)
<1>1. c \in Nat
  BY FS_CardinalityType
<1>2. A = [n \in 1..c |-> CHOOSE i \in S : Rank(i) = n - 1]
  BY DEF Arranged, Below
<1>3. ASSUME NEW n \in 1..c
      PROVE  A[n] \in S /\ Rank(A[n]) = n - 1
  <2>1. \E i \in S : Rank(i) = n - 1
    BY RankReached
  <2>2. A[n] = CHOOSE i \in S : Rank(i) = n - 1
    BY <1>2
  <2> HIDE DEF A, Rank
  <2> QED
    BY <2>1, <2>2
<1>4. A \in [1..c -> S]
  <2> HIDE DEF Rank
  <2>1. A = [n \in 1..c |-> A[n]]
    BY <1>2
  <2> HIDE DEF A
  <2> QED
    BY <1>3, <2>1
<1>5. \A n, m \in 1..c : A[n] = A[m] => n = m
  <2> HIDE DEF A, Rank
  <2> QED
    BY <1>3, <1>1
<1>6. ASSUME NEW i \in S
      PROVE  \E n \in 1..c : A[n] = i
  <2>1. \A k \in S : Rank(k) \in Nat
    BY FS_Subset, FS_CardinalityType DEF Below
  <2>2. ASSUME NEW k \in S, k # i
        PROVE  Rank(k) # Rank(i)
    <3>1. CASE <<i, k>> \in R
      BY <2>1, <3>1, RankGrows
    <3>2. CASE <<k, i>> \in R
      BY <2>1, <3>2, RankGrows
    <3> QED
      BY <2>2, <3>1, <3>2 DEF StrictOrder
  <2>3. Rank(i) + 1 \in 1..c
    <3>1. Below(S, R, i) \subseteq S /\ i \notin Below(S, R, i)
      BY DEF Below, StrictOrder
    <3>2. Rank(i) <= c /\ Rank(i) # c
      BY <3>1, FS_Subset
    <3> QED
      BY <1>1, <2>1, <3>2
  <2> HIDE DEF A, Rank
  <2>4. A[Rank(i) + 1] = i
    BY <2>1, <2>2, <2>3, <1>3
  <2> QED
    BY <2>3, <2>4
<1> QED
  BY <1>4, <1>5, <1>6

LEMMA AscendingOrder ==
    ASSUME NEW I \in SUBSET Int
    PROVE  StrictOrder(I, {p \in I \X I : p[1] < p[2]})
  BY DEF StrictOrder

\* A non-empty finite set of numbers has a least one.
LEMMA LeastExists ==
    ASSUME NEW I \in SUBSET Int, IsFiniteSet(I), I # {}
    PROVE  Min(I) \in I /\ \A i \in I : Min(I) <= i
<1> DEFINE R == {p \in I \X I : p[1] < p[2]}
<1>1. Cardinality(I) \in Nat \ {0}
  BY FS_CardinalityType, FS_EmptySet
<1>2. PICK m \in I : Cardinality(Below(I, R, m)) = 0
  <2>1. 1 \in 1..Cardinality(I)
    BY <1>1
  <2>2. StrictOrder(I, R)
    BY AscendingOrder
  <2>3. \E m \in I : Cardinality(Below(I, R, m)) = 1 - 1
    <3> HIDE DEF R
    <3> QED
      BY <2>1, <2>2, RankReached
  <2> QED
    BY <2>3
<1>3. Below(I, R, m) = {}
  BY <1>2, FS_Subset, FS_EmptySet DEF Below
<1>4. ASSUME NEW i \in I
      PROVE  m <= i
  <2>1. <<i, m>> \notin R
    BY <1>3 DEF Below
  <2> QED
    BY <2>1
<1> QED
  BY <1>4 DEF Min

LEMMA FirstNumbers ==
    ASSUME NEW n \in Nat
    PROVE  IsFiniteSet(1..n) /\ Cardinality(1..n) = n
  BY FS_Interval

\* Kept keeps exactly the elements at its positions, and repeats none.
LEMMA KeptElements ==
    ASSUME NEW T, NEW s \in Seq(T), NEW I \in SUBSET (DOMAIN s)
    PROVE  /\ Kept(s, I) \in Seq(T)
           /\ Len(Kept(s, I)) = Cardinality(I) /\ Cardinality(I) <= Len(s)
           /\ ToSet(Kept(s, I)) = {s[i] : i \in I}
           /\ IsInjective(s) => IsInjective(Kept(s, I))
<1> DEFINE c == Cardinality(I)
           R == {p \in I \X I : p[1] < p[2]}
           order == Arranged(I, R)
           K == Kept(s, I)
<1>1. I \subseteq 1..Len(s) /\ Len(s) \in Nat
  OBVIOUS
<1>2. IsFiniteSet(I) /\ c \in Nat /\ c <= Len(s)
  <2>1. IsFiniteSet(1..Len(s)) /\ Cardinality(1..Len(s)) = Len(s)
    BY <1>1, FirstNumbers
  <2> QED
    BY <2>1, <1>1, FS_Subset, FS_CardinalityType
<1>3. StrictOrder(I, R)
  BY <1>1, AscendingOrder
<1>4. /\ order \in [1..c -> I]
      /\ \A n, m \in 1..c : order[n] = order[m] => n = m
      /\ \A i \in I : \E n \in 1..c : order[n] = i
  <2> HIDE DEF R
  <2> QED
    BY <1>2, <1>3, ArrangedLists
<1>5. K = [n \in 1..c |-> s[order[n]]]
  BY DEF Kept
<1> HIDE DEF order, K, c
<1>6. \A n \in 1..c : K[n] = s[order[n]] /\ order[n] \in I /\ s[order[n]] \in T
  BY <1>1, <1>4, <1>5
<1>7. K \in [1..c -> T]
  BY <1>5, <1>6
<1>8. K \in Seq(T) /\ Len(K) = c /\ DOMAIN K = 1..c
  BY <1>2, <1>7
<1>9. ToSet(K) = {s[i] : i \in I}
  <2>1. ASSUME NEW x \in ToSet(K)
        PROVE  x \in {s[i] : i \in I}
    BY <1>6, <1>8, <2>1 DEF ToSet
  <2>2. ASSUME NEW i \in I
        PROVE  s[i] \in ToSet(K)
    <3>1. PICK n \in 1..c : order[n] = i
      BY <1>4
    <3>2. K[n] = s[i]
      BY <1>6, <3>1
    <3> QED
      BY <1>8, <3>2 DEF ToSet
  <2> QED
    BY <2>1, <2>2
<1>10. ASSUME IsInjective(s)
       PROVE  IsInjective(K)
  BY <1>1, <1>4, <1>6, <1>8, <1>10 DEF IsInjective
<1> QED
  BY <1>2, <1>8, <1>9, <1>10 DEF K, c

\* selectDispatchJobs looks at every eligible job in a definite order.
LEMMA TurnsOrder ==
    ASSUME NEW T, NEW q \in Seq(T), NEW appOf, NEW open
    PROVE  /\ IsFiniteSet(Eligible(q, appOf, open))
           /\ StrictOrder(Eligible(q, appOf, open), Turns(q, appOf, open))
<1> DEFINE E == Eligible(q, appOf, open)
           P(i) == Peers(q, appOf, open, i)
           round(i) == Round(q, appOf, open, i)
           lead(i) == Min(P(i))
<1>1. E \subseteq 1..Len(q) /\ Len(q) \in Nat
  BY DEF Eligible
<1>2. IsFiniteSet(E)
  BY <1>1, FirstNumbers, FS_Subset
<1>3. ASSUME NEW i \in E
      PROVE  /\ i \in P(i) /\ P(i) \subseteq E /\ IsFiniteSet(P(i))
             /\ round(i) \in Nat /\ lead(i) \in P(i) /\ lead(i) \in Int
  <2>1. i \in P(i) /\ P(i) \subseteq E
    BY DEF Peers
  <2>2. IsFiniteSet(P(i))
    BY <2>1, <1>2, FS_Subset
  <2>3. round(i) \in Nat
    BY <2>2, FS_Subset, FS_CardinalityType DEF Round
  <2>4. lead(i) \in P(i)
    BY <2>1, <2>2, <1>1, LeastExists
  <2> QED
    BY <2>1, <2>2, <2>3, <2>4, <1>1
<1>4. ASSUME NEW i \in E, NEW j \in E, i # j
      PROVE  round(i) # round(j) \/ lead(i) # lead(j)
  <2> SUFFICES ASSUME lead(i) = lead(j)
               PROVE  round(i) # round(j)
    OBVIOUS
  <2>1. P(i) = P(j)
    BY <1>3 DEF Peers
  <2> DEFINE R == {p \in P(i) \X P(i) : p[1] < p[2]}
  <2>2. round(i) = Cardinality(Below(P(i), R, i)) /\ round(j) = Cardinality(Below(P(i), R, j))
    <3>1. Below(P(i), R, i) = {k \in P(i) : k < i} /\ Below(P(i), R, j) = {k \in P(i) : k < j}
      BY <1>3, <2>1 DEF Below
    <3> QED
      BY <3>1, <2>1 DEF Round
  <2>3. StrictOrder(P(i), R)
    BY <1>1, <1>3, AscendingOrder
  <2>4. <<i, j>> \in R \/ <<j, i>> \in R
    BY <1>1, <1>3, <1>4, <2>1
  <2>5. IsFiniteSet(P(i)) /\ i \in P(i) /\ j \in P(i)
    BY <1>3, <2>1
  <2> HIDE DEF R, round, P
  <2>6. CASE <<i, j>> \in R
    BY <2>2, <2>3, <2>5, <2>6, RankGrows, <1>3
  <2>7. CASE <<j, i>> \in R
    BY <2>2, <2>3, <2>5, <2>7, RankGrows, <1>3
  <2> QED
    BY <2>4, <2>6, <2>7
<1>5. Turns(q, appOf, open) =
        {p \in E \X E : \/ round(p[1]) < round(p[2])
                        \/ round(p[1]) = round(p[2]) /\ lead(p[1]) < lead(p[2])}
  BY DEF Turns
<1> DEFINE Turn == {p \in E \X E : \/ round(p[1]) < round(p[2])
                                   \/ round(p[1]) = round(p[2]) /\ lead(p[1]) < lead(p[2])}
<1>6. StrictOrder(E, Turn)
  <2> HIDE DEF E, P, round, lead
  <2>1. \A i \in E : round(i) \in Int /\ lead(i) \in Int
    BY <1>3
  <2>2. \A i \in E : <<i, i>> \notin Turn
    BY <2>1
  <2>3. \A i, j, k \in E : <<i, j>> \in Turn /\ <<j, k>> \in Turn => <<i, k>> \in Turn
    BY <2>1
  <2>4. \A i, j \in E : i # j => <<i, j>> \in Turn \/ <<j, i>> \in Turn
    BY <2>1, <1>4
  <2> HIDE DEF Turn
  <2> QED
    BY <2>2, <2>3, <2>4 DEF StrictOrder
<1> HIDE DEF E, Turn
<1> QED
  BY <1>2, <1>5, <1>6 DEF E, Turn

\* What selectDispatchJobs takes: jobs of the queue whose application is open,
\* none twice, and no more than asked for.
LEMMA RoundRobinSelects ==
    ASSUME NEW T, NEW q \in Seq(T), NEW appOf, NEW open, NEW limit \in Nat
    PROVE  LET r == RoundRobin(q, appOf, open, limit)
           IN  /\ r \in Seq(T) /\ Len(r) <= limit
               /\ \A n \in DOMAIN r : r[n] \in ToSet(q) /\ appOf[r[n]] \in open
               /\ IsInjective(q) => IsInjective(r)
<1> DEFINE E == Eligible(q, appOf, open)
           order == Arranged(E, Turns(q, appOf, open))
           len == IF limit < Cardinality(E) THEN limit ELSE Cardinality(E)
           r == RoundRobin(q, appOf, open, limit)
<1>1. /\ order \in [1..Cardinality(E) -> E]
      /\ \A n, m \in 1..Cardinality(E) : order[n] = order[m] => n = m
  BY TurnsOrder, ArrangedLists
<1>2. Cardinality(E) \in Nat
  BY TurnsOrder, FS_CardinalityType
<1>3. r = [n \in 1..len |-> q[order[n]]]
  BY DEF RoundRobin
<1>4. \A i \in E : i \in 1..Len(q) /\ q[i] \in T /\ q[i] \in ToSet(q) /\ appOf[q[i]] \in open
  BY DEF Eligible, ToSet
<1>d. DOMAIN q = 1..Len(q)
  OBVIOUS
<1> HIDE DEF E, order, r
<1>5. len \in Nat /\ len <= limit /\ \A n \in 1..len : n \in 1..Cardinality(E)
  BY <1>2
<1> HIDE DEF len
<1>6. \A n \in 1..len : r[n] = q[order[n]] /\ order[n] \in E /\ q[order[n]] \in T
  BY <1>1, <1>3, <1>4, <1>5
<1>7. r \in [1..len -> T]
  BY <1>3, <1>6
<1>8. r \in Seq(T) /\ Len(r) = len /\ DOMAIN r = 1..len
  BY <1>5, <1>7
<1>9. \A n \in DOMAIN r : r[n] \in ToSet(q) /\ appOf[r[n]] \in open
  BY <1>4, <1>6, <1>8
<1>10. ASSUME IsInjective(q)
       PROVE  IsInjective(r)
  BY <1>1, <1>4, <1>5, <1>6, <1>8, <1>10, <1>d DEF IsInjective
<1> QED
  BY <1>5, <1>8, <1>9, <1>10 DEF r

\* enqueueReady admits listed jobs that are not queued yet, none twice, within
\* the maximum.
LEMMA AdmittedFits ==
    ASSUME NEW T, NEW q \in Seq(T), NEW inQueue, NEW listing \in Seq(T), NEW max \in Nat
    PROVE  LET a == Admitted(q, inQueue, listing, max)
           IN  /\ a \in Seq(T)
               /\ \A n \in DOMAIN a : a[n] \notin inQueue
               /\ IsInjective(listing) => IsInjective(a)
               /\ max > 0 /\ Len(q) <= max => Len(q) + Len(a) <= max
<1> DEFINE I == {i \in DOMAIN listing : listing[i] \notin inQueue}
           fresh == Kept(listing, I)
           room == IF max = 0 THEN Len(fresh) ELSE IF Len(q) >= max THEN 0 ELSE max - Len(q)
           len == IF room < Len(fresh) THEN room ELSE Len(fresh)
           a == Admitted(q, inQueue, listing, max)
<1>1. fresh \in Seq(T) /\ ToSet(fresh) = {listing[i] : i \in I}
      /\ (IsInjective(listing) => IsInjective(fresh))
  BY KeptElements
<1>2. a = SubSeq(fresh, 1, len)
  BY DEF Admitted, Fresh
<1> HIDE DEF fresh, a
<1>3. Len(fresh) \in Nat /\ Len(q) \in Nat
  BY <1>1
<1>4. len \in 0..Len(fresh) /\ (max > 0 /\ Len(q) <= max => Len(q) + len <= max)
  BY <1>3
<1> HIDE DEF len
<1>5. a \in Seq(T) /\ Len(a) = len /\ \A n \in 1..len : a[n] = fresh[n]
  BY <1>1, <1>2, <1>3, <1>4
<1>6. DOMAIN a = 1..len /\ DOMAIN fresh = 1..Len(fresh)
  BY <1>5, <1>1
<1>7. \A n \in DOMAIN a : a[n] \notin inQueue
  BY <1>1, <1>3, <1>4, <1>5, <1>6 DEF ToSet
<1>8. ASSUME IsInjective(listing)
      PROVE  IsInjective(a)
  BY <1>1, <1>3, <1>4, <1>5, <1>6, <1>8 DEF IsInjective
<1> QED
  BY <1>4, <1>5, <1>7, <1>8 DEF a

\* popReadyForDispatch leaves the jobs that it did not select, in their order.
LEMMA WithoutLeaves ==
    ASSUME NEW T, NEW q \in Seq(T), NEW sel
    PROVE  /\ Without(q, sel) \in Seq(T)
           /\ ToSet(Without(q, sel)) = ToSet(q) \ ToSet(sel)
           /\ IsInjective(q) => IsInjective(Without(q, sel))
           /\ Len(Without(q, sel)) <= Len(q)
<1> DEFINE I == {i \in DOMAIN q : q[i] \notin ToSet(sel)}
<1>1. /\ Kept(q, I) \in Seq(T)
      /\ ToSet(Kept(q, I)) = {q[i] : i \in I}
      /\ IsInjective(q) => IsInjective(Kept(q, I))
      /\ Len(Kept(q, I)) <= Len(q)
  BY KeptElements
<1>2. {q[i] : i \in I} = ToSet(q) \ ToSet(sel)
  BY DEF ToSet
<1>3. Without(q, sel) = Kept(q, I)
  BY DEF Without
<1> HIDE DEF I
<1> QED
  BY <1>1, <1>2, <1>3

\* ListReady returns due jobs, none twice.
LEMMA ListingIsDue ==
    ASSUME NEW l \in Listings
    PROVE  l \in Seq(Jobs) /\ IsInjective(l) /\ ToSet(l) \subseteq Due
<1>1. PICK S \in SUBSET Due : l \in SetToSeqs(S)
  BY DEF Listings, SetToAllKPermutations
<1>2. Cardinality(S) \in Nat
  BY FiniteAssumption, FS_Subset, FS_CardinalityType DEF Due
<1>3. l \in [1..Cardinality(S) -> S]
      /\ \A i, j \in 1..Cardinality(S) : i # j => l[i] # l[j]
  BY <1>1 DEF SetToSeqs
<1>4. l \in Seq(S) /\ DOMAIN l = 1..Cardinality(S)
  BY <1>2, <1>3
<1>5. IsInjective(l)
  BY <1>3, <1>4 DEF IsInjective
<1>6. l \in Seq(Jobs)
  BY <1>4 DEF Due
<1> QED
  BY <1>3, <1>4, <1>5, <1>6 DEF ToSet

----------------------------------------------------------------------------
(* Types *)

PollerRecord == [pc : {"idle", "done", "list", "enqueue", "pop", "reserve", "claim", "spawn"},
                 batch : Nat, found : Seq(Jobs), todo : Seq(Jobs), cur : Jobs \cup {NoJob}]
WorkerRecord == [pc : Working \cup {"idle", "release"}, job : Jobs \cup {NoJob}, attempt : Nat,
                 stage : {"first", "rpcRefresh", "respRefresh"},
                 mark : Terminal \cup {"none", "retry"}]
Row == [status : Statuses, wait : 0..MaxDelay, attempt : Nat, cancel : BOOLEAN]

\* A poller that claims has a job.
PollerOK(p) == p \in PollerRecord /\ (p.pc \in {"claim", "spawn"} => p.cur \in Jobs)

\* A handler at work has a job, and knows how to update its row when it is to.
WorkerOK(w) == /\ w \in WorkerRecord
               /\ w.pc # "idle" => w.job \in Jobs
               /\ w.pc = "mark" => w.mark # "none"

TableTypes ==
    /\ job \in [Jobs -> Row]
    /\ cancelling \in [Jobs -> {"none", "queued", "other"}]
BoundTypes == faults \in 0..MaxFaults /\ crashes \in 0..MaxCrashes
HistoryTypes == calls \in [Jobs -> Nat] /\ stranded \subseteq Jobs
QueueTypes == /\ readyQ \in [Dispatchers -> Seq(Jobs)]
              /\ readySet \in [Dispatchers -> SUBSET Jobs]
SlotTypes == appInFly \in [Dispatchers -> [Apps -> Nat]]
PollerTypes == /\ poller \in [Dispatchers -> [PollerKinds -> PollerRecord]]
               /\ \A d \in Dispatchers, k \in PollerKinds : PollerOK(poller[d][k])
WorkerTypes == /\ worker \in [Dispatchers -> [Tokens -> WorkerRecord]]
               /\ \A d \in Dispatchers, t \in Tokens : WorkerOK(worker[d][t])
StopTypes == stopped \in [Dispatchers -> BOOLEAN]

\* TypeOK and what it leaves out: the queues, the pollers and the slots.
Types == /\ TableTypes /\ BoundTypes /\ HistoryTypes /\ QueueTypes /\ SlotTypes
         /\ PollerTypes /\ WorkerTypes /\ StopTypes

LEMMA TypesSuffice == Types => TypeOK
  BY DEF Types, TypeOK, Row, WorkerRecord, TableTypes, BoundTypes, HistoryTypes, WorkerTypes,
         StopTypes

LEMMA Unchanged ==
    /\ TableTypes /\ UNCHANGED table => TableTypes'
    /\ BoundTypes /\ UNCHANGED bounds => BoundTypes'
    /\ HistoryTypes /\ UNCHANGED history => HistoryTypes'
    /\ QueueTypes /\ UNCHANGED queues => QueueTypes'
    /\ SlotTypes /\ UNCHANGED appInFly => SlotTypes'
    /\ PollerTypes /\ UNCHANGED poller => PollerTypes'
    /\ WorkerTypes /\ UNCHANGED worker => WorkerTypes'
    /\ StopTypes /\ UNCHANGED stopped => StopTypes'
  BY DEF TableTypes, table, BoundTypes, bounds, HistoryTypes, history, QueueTypes, queues,
         SlotTypes, PollerTypes, WorkerTypes, StopTypes, PollerOK, WorkerOK

LEMMA SetPollerIs ==
    ASSUME PollerTypes, NEW d \in Dispatchers, NEW k \in PollerKinds, NEW p, SetPoller(d, k, p)
    PROVE  /\ \A e \in Dispatchers, l \in PollerKinds :
                 poller'[e][l] = IF e = d /\ l = k THEN p ELSE poller[e][l]
           /\ PollerOK(p) => PollerTypes'
<1>1. \A e \in Dispatchers, l \in PollerKinds :
          poller'[e][l] = IF e = d /\ l = k THEN p ELSE poller[e][l]
  BY DEF SetPoller, PollerTypes
<1>2. ASSUME PollerOK(p)
      PROVE  PollerTypes'
  <2>1. poller' \in [Dispatchers -> [PollerKinds -> PollerRecord]]
    BY <1>2 DEF SetPoller, PollerTypes, PollerOK
  <2> QED
    BY <2>1, <1>1, <1>2 DEF PollerTypes, PollerOK
<1> QED
  BY <1>1, <1>2

LEMMA SetWorkerIs ==
    ASSUME WorkerTypes, NEW d \in Dispatchers, NEW t \in Tokens, NEW w, SetWorker(d, t, w)
    PROVE  /\ \A e \in Dispatchers, u \in Tokens :
                 worker'[e][u] = IF e = d /\ u = t THEN w ELSE worker[e][u]
           /\ WorkerOK(w) => WorkerTypes'
<1>1. \A e \in Dispatchers, u \in Tokens :
          worker'[e][u] = IF e = d /\ u = t THEN w ELSE worker[e][u]
  BY DEF SetWorker, WorkerTypes
<1>2. ASSUME WorkerOK(w)
      PROVE  WorkerTypes'
  <2>1. worker' \in [Dispatchers -> [Tokens -> WorkerRecord]]
    BY <1>2 DEF SetWorker, WorkerTypes, WorkerOK
  <2> QED
    BY <2>1, <1>1, <1>2 DEF WorkerTypes, WorkerOK
<1> QED
  BY <1>1, <1>2

LEMMA InitTypes == Init => Types
<1> SUFFICES ASSUME Init PROVE Types
  OBVIOUS
<1>1. NoRow \in Row
  BY DelayAssumption DEF NoRow, Row, Statuses
<1>2. PollerOK(Resting) /\ WorkerOK(Idle)
  BY DEF Resting, PollerRecord, PollerOK, Idle, WorkerRecord, WorkerOK
<1>3. TableTypes /\ BoundTypes /\ HistoryTypes /\ QueueTypes /\ SlotTypes /\ StopTypes
  BY <1>1, BoundsAssumption
     DEF Init, TableTypes, BoundTypes, HistoryTypes, QueueTypes, SlotTypes, StopTypes
<1>4. PollerTypes /\ WorkerTypes
  BY <1>2 DEF Init, PollerTypes, PollerOK, WorkerTypes, WorkerOK
<1> QED
  BY <1>3, <1>4 DEF Types

LEMMA ClientTypes ==
    ASSUME Types, NEW j \in Jobs, Client(j)
    PROVE  Types'
<1>1. TableTypes'
  <2> USE DEF Types, TableTypes, Row
  <2>1. CASE EnqueueJob(j)
    <3> PICK w \in 0..MaxDelay :
          job' = [job EXCEPT ![j] = [NoRow EXCEPT !.status = "queued", !.wait = w]]
      BY <2>1 DEF EnqueueJob
    <3>1. [NoRow EXCEPT !.status = "queued", !.wait = w] \in Row
      BY DEF NoRow, Statuses
    <3> HIDE DEF Row
    <3> QED
      BY <2>1, <3>1 DEF EnqueueJob
  <2>2. CASE CancelRead(j)
    BY <2>2 DEF CancelRead
  <2>3. CASE CancelWrite(j)
    BY <2>3 DEF CancelWrite, Statuses
  <2> QED
    BY <2>1, <2>2, <2>3 DEF Client
<1>2. UNCHANGED <<queues, appInFly, poller, worker, stopped, history, bounds>>
  BY DEF Client, EnqueueJob, CancelRead, CancelWrite
<1> QED
  BY <1>1, <1>2, Unchanged DEF Types

LEMMA TickTypes ==
    ASSUME Types, Tick
    PROVE  Types'
<1>1. TableTypes'
  BY DelayAssumption DEF Tick, Types, TableTypes, Row
<1>2. UNCHANGED <<queues, appInFly, poller, worker, stopped, history, bounds>>
  BY DEF Tick
<1> QED
  BY <1>1, <1>2, Unchanged DEF Types

LEMMA FailTypes ==
    ASSUME BoundTypes, Fail
    PROVE  BoundTypes'
  BY BoundsAssumption DEF Fail, BoundTypes

LEMMA ReturnOK ==
    ASSUME NEW k
    PROVE  PollerOK([Resting EXCEPT !.pc = IF k = "startup" THEN "done" ELSE "idle"])
<1>1. << >> \in Seq(Jobs) /\ (IF k = "startup" THEN "done" ELSE "idle") \in {"done", "idle"}
  OBVIOUS
<1> QED
  BY <1>1 DEF PollerOK, PollerRecord, Resting

LEMMA PollTypes ==
    ASSUME Types, NEW d \in Dispatchers, NEW k \in PollerKinds, Poll(d, k)
    PROVE  Types'
<1> DEFINE p == poller[d][k]
<1>p. PollerOK(p) /\ p \in PollerRecord
  BY DEF Types, PollerTypes, PollerOK
<1>s. \A q : PollerOK(q) /\ SetPoller(d, k, q) => PollerTypes'
  BY SetPollerIs DEF Types
<1>r. Return(d, k) => PollerTypes'
  BY <1>s, ReturnOK DEF Return
<1>f. Fail => BoundTypes'
  BY FailTypes DEF Types
<1> USE Unchanged DEF Types
<1>1. CASE PollBegin(d, k)
  <2>1. Cardinality(Free(d)) \in Nat
    BY FiniteAssumption, FS_Subset, FS_CardinalityType DEF Free
  <2>2. PollerOK([p EXCEPT !.pc = "list", !.batch = Cardinality(Free(d))])
    BY <1>p, <2>1 DEF PollerOK, PollerRecord
  <2> QED
    BY <1>1, <1>s, <2>2 DEF PollBegin
<1>2. CASE PollList(d, k)
  <2>1. \A l \in Listings : PollerOK([p EXCEPT !.pc = "enqueue", !.found = l])
    BY <1>p, ListingIsDue DEF PollerOK, PollerRecord
  <2> QED
    BY <1>2, <1>s, <2>1 DEF PollList
<1>3. CASE PollListFails(d, k)
  BY <1>3, <1>r, <1>f DEF PollListFails
<1>4. CASE PollEnqueue(d, k)
  <2> DEFINE new == Admitted(readyQ[d], readySet[d], p.found, ReadyQueueMax)
  <2>1. new \in Seq(Jobs)
    BY <1>p, CapAssumption, AdmittedFits DEF QueueTypes, PollerRecord
  <2>2. ToSet(new) \subseteq Jobs
    BY <2>1 DEF ToSet
  <2>3. CASE stopped[d]
    BY <1>4, <1>r, <2>3 DEF PollEnqueue
  <2>4. CASE ~stopped[d]
    <3>1. PollerOK([p EXCEPT !.pc = "pop", !.found = << >>])
      <4>1. << >> \in Seq(Jobs)
        OBVIOUS
      <4> QED
        BY <1>p, <4>1 DEF PollerOK, PollerRecord
    <3>2. PollerTypes'
      BY <1>4, <1>r, <1>s, <3>1 DEF PollEnqueue
    <3>3. QueueTypes'
      <4> HIDE DEF new
      <4>1. readyQ[d] \o new \in Seq(Jobs) /\ readySet[d] \cup ToSet(new) \in SUBSET Jobs
        BY <2>1, <2>2 DEF QueueTypes
      <4> QED
        BY <1>4, <2>4, <4>1 DEF PollEnqueue, QueueTypes, new
    <3> QED
      BY <1>4, <3>2, <3>3 DEF PollEnqueue
  <2> QED
    BY <2>3, <2>4
<1>5. CASE PollPop(d, k)
  <2> DEFINE sel == RoundRobin(readyQ[d], AppOf, OpenApps(d), p.batch)
  <2>1. readyQ[d] \in Seq(Jobs) /\ readySet[d] \subseteq Jobs /\ p.batch \in Nat
    BY <1>p DEF QueueTypes, PollerRecord
  <2>2. sel \in Seq(Jobs)
    BY <2>1, RoundRobinSelects
  <2>3. Without(readyQ[d], sel) \in Seq(Jobs)
    BY <2>1, WithoutLeaves
  <2> HIDE DEF sel
  <2>4. PollerOK([p EXCEPT !.pc = "reserve", !.todo = sel])
    BY <1>p, <2>2 DEF PollerOK, PollerRecord
  <2>5. PollerTypes'
    BY <1>5, <1>r, <1>s, <2>4 DEF PollPop, sel
  <2>6. QueueTypes'
    BY <1>5, <2>1, <2>3 DEF PollPop, QueueTypes, sel
  <2> QED
    BY <1>5, <2>5, <2>6 DEF PollPop
<1>6. CASE PollReserve(d, k)
  <2>1. Head(p.todo) \in Jobs /\ Tail(p.todo) \in Seq(Jobs)
    BY <1>p, <1>6 DEF PollReserve, PollerRecord
  <2>2. /\ PollerOK([p EXCEPT !.pc = "claim", !.todo = Tail(@), !.cur = Head(p.todo)])
        /\ PollerOK([p EXCEPT !.todo = Tail(@)])
    BY <1>p, <1>6, <2>1 DEF PollerOK, PollerRecord, PollReserve
  <2>3. PollerTypes'
    BY <1>6, <1>s, <2>2 DEF PollReserve
  <2>4. SlotTypes'
    <3>1. AppOf[Head(p.todo)] \in Apps
      BY <2>1, JobsAssumption
    <3>2. \A a \in Apps : [appInFly EXCEPT ![d][a] = @ + 1] \in [Dispatchers -> [Apps -> Nat]]
      BY DEF SlotTypes
    <3>3. \/ appInFly' = appInFly
          \/ appInFly' = [appInFly EXCEPT ![d][AppOf[Head(p.todo)]] = @ + 1]
      BY <1>6 DEF PollReserve
    <3> QED
      BY <3>1, <3>2, <3>3 DEF SlotTypes
  <2> QED
    BY <1>6, <2>3, <2>4 DEF PollReserve
<1>7. CASE PollReturn(d, k)
  BY <1>7, <1>r DEF PollReturn
<1>8. CASE PollClaim(d, k)
  <2>1. PollerOK([p EXCEPT !.pc = "spawn"])
    BY <1>p, <1>8 DEF PollerOK, PollerRecord, PollClaim
  <2>2. PollerTypes'
    BY <1>8, <1>s, <2>1 DEF PollClaim
  <2>3. TableTypes'
    BY <1>8 DEF PollClaim, TableTypes, Row, Statuses
  <2> QED
    BY <1>8, <2>2, <2>3 DEF PollClaim
<1>9. CASE PollClaimFails(d, k)
  <2>1. p.cur \in Jobs
    BY <1>p, <1>9 DEF PollerOK, PollClaimFails, DropClaim
  <2>2. PollerOK([p EXCEPT !.pc = "reserve", !.cur = NoJob])
    BY <1>p DEF PollerOK, PollerRecord
  <2>3. PollerTypes'
    BY <1>9, <1>s, <2>2 DEF PollClaimFails, DropClaim
  <2>4. SlotTypes'
    BY <1>9, <2>1, JobsAssumption DEF PollClaimFails, DropClaim, Released, SlotTypes
  <2>5. TableTypes'
    BY <1>9, <2>1 DEF PollClaimFails, DropClaim, TableTypes, Row, Statuses
  <2>6. HistoryTypes' /\ BoundTypes'
    BY <1>9, <2>1, <1>f DEF PollClaimFails, DropClaim, HistoryTypes, history
  <2> QED
    BY <1>9, <2>3, <2>4, <2>5, <2>6 DEF PollClaimFails, DropClaim
<1>10. CASE PollSpawn(d, k)
  <2>1. p.cur \in Jobs
    BY <1>p, <1>10 DEF PollerOK, PollSpawn
  <2>2. PollerOK([p EXCEPT !.pc = "reserve", !.cur = NoJob])
    BY <1>p DEF PollerOK, PollerRecord
  <2>3. WorkerOK([Idle EXCEPT !.pc = "get", !.job = p.cur])
    BY <2>1 DEF WorkerOK, WorkerRecord, Idle, Working
  <2>4. PollerTypes'
    BY <1>10, <1>s, <2>2 DEF PollSpawn
  <2>5. WorkerTypes'
    BY <1>10, <2>3, SetWorkerIs DEF PollSpawn, Free
  <2> QED
    BY <1>10, <2>4, <2>5 DEF PollSpawn
<1> QED
  BY <1>1, <1>2, <1>3, <1>4, <1>5, <1>6, <1>7, <1>8, <1>9, <1>10 DEF Poll

LEMMA HandleTypes ==
    ASSUME Types, NEW d \in Dispatchers, NEW t \in Tokens, Handle(d, t)
    PROVE  Types'
<1> DEFINE w == worker[d][t]
<1>w. WorkerOK(w) /\ w \in WorkerRecord /\ (w.pc # "idle" => w.job \in Jobs)
  BY DEF Types, WorkerTypes, WorkerOK
<1>s. \A v : WorkerOK(v) /\ SetWorker(d, t, v) => WorkerTypes'
  BY SetWorkerIs DEF Types
<1>f. Fail => BoundTypes'
  BY FailTypes DEF Types
<1>g. ASSUME w.pc # "idle", NEW pc \in (Working \ {"mark"}) \cup {"release"}, Goto(d, t, pc)
      PROVE  WorkerTypes'
  <2>1. WorkerOK([w EXCEPT !.pc = pc])
    BY <1>w, <1>g DEF WorkerOK, WorkerRecord
  <2> QED
    BY <1>s, <1>g, <2>1 DEF Goto
<1>m. ASSUME w.pc # "idle", NEW mark \in Terminal \cup {"retry"}, Finish(d, t, mark)
      PROVE  WorkerTypes'
  <2>1. WorkerOK([w EXCEPT !.pc = "mark", !.mark = mark])
    BY <1>w, <1>m DEF WorkerOK, WorkerRecord, Working, Terminal
  <2> QED
    BY <1>s, <1>m, <2>1 DEF Finish
<1> USE Unchanged DEF Types
<1>1. CASE HandleGet(d, t)
  <2>1. w.pc # "idle" /\ job[w.job].attempt + 1 \in Nat
    BY <1>1, <1>w DEF HandleGet, TableTypes, Row
  <2>2. WorkerOK([w EXCEPT !.pc = "token", !.attempt = job[w.job].attempt + 1])
    BY <1>w, <2>1 DEF WorkerOK, WorkerRecord, Working
  <2>3. WorkerTypes'
    BY <1>1, <1>s, <1>m, <2>1, <2>2 DEF HandleGet, Terminal
  <2> QED
    BY <1>1, <2>3 DEF HandleGet
<1>2. CASE HandleGetFails(d, t)
  <2>1. WorkerTypes'
    BY <1>2, <1>g DEF HandleGetFails
  <2>2. HistoryTypes'
    BY <1>2, <1>w DEF HandleGetFails, HistoryTypes
  <2> QED
    BY <1>2, <1>f, <2>1, <2>2 DEF HandleGetFails
<1>3. CASE HandleToken(d, t)
  <2>1. WorkerTypes'
    BY <1>3, <1>g, <1>m DEF HandleToken, Working
  <2> QED
    BY <1>3, <1>f, <2>1 DEF HandleToken
<1>4. CASE HandleAttempt(d, t)
  <2>1. WorkerTypes'
    BY <1>4, <1>g, <1>m DEF HandleAttempt, Working
  <2>2. w.job \in Jobs /\ w.attempt \in Nat
    BY <1>4, <1>w DEF HandleAttempt, WorkerRecord
  <2>3. TableTypes'
    BY <1>4, <2>2 DEF HandleAttempt, TableTypes, Row
  <2> QED
    BY <1>4, <1>f, <2>1, <2>3 DEF HandleAttempt
<1>5. CASE HandleCall(d, t)
  <2>1. WorkerTypes'
    BY <1>5, <1>g DEF HandleCall, Working
  <2>2. HistoryTypes'
    BY <1>5, <1>w DEF HandleCall, HistoryTypes
  <2> QED
    BY <1>5, <2>1, <2>2 DEF HandleCall
<1>6. ASSUME NEW r \in Answers, HandleAnswer(d, t, r)
      PROVE  Types'
  <2> DEFINE s == RefreshStage(w.stage, r)
  <2>1. w.pc # "idle" /\ w.attempt + 1 \in Nat
    BY <1>6, <1>w DEF HandleAnswer, WorkerRecord
  <2>2. Verdict(w.job, w.attempt, r) \in Terminal \cup {"retry"}
    BY DEF Verdict, Terminal
  <2>3. s = "none" \/ s \in {"rpcRefresh", "respRefresh"}
    BY DEF RefreshStage
  <2> HIDE DEF s
  <2>4. s # "none" => WorkerOK([w EXCEPT !.pc = "token", !.stage = s, !.attempt = w.attempt + 1])
    BY <1>w, <2>1, <2>3 DEF WorkerOK, WorkerRecord, Working
  <2>5. WorkerTypes'
    BY <1>6, <1>s, <1>m, <2>1, <2>2, <2>4 DEF HandleAnswer, Terminal, s
  <2> QED
    BY <1>6, <2>5 DEF HandleAnswer
<1>7. CASE HandleMark(d, t)
  <2>1. WorkerTypes'
    BY <1>7, <1>g DEF HandleMark
  <2>2. w.job \in Jobs /\ w.mark \in Terminal \cup {"retry"}
    BY <1>7, <1>w DEF HandleMark, WorkerOK, WorkerRecord
  <2>3. TableTypes'
    <3>1. CASE w.mark = "retry"
      <4> PICK n \in 1..MaxDelay :
            job' = [job EXCEPT ![w.job].status = "queued", ![w.job].wait = n]
        BY <1>7, <3>1 DEF HandleMark, Marked
      <4>1. n \in 0..MaxDelay
        BY DelayAssumption
      <4> QED
        BY <1>7, <2>2, <4>1 DEF HandleMark, TableTypes, Row, Statuses
    <3>2. CASE w.mark # "retry"
      BY <1>7, <2>2, <3>2 DEF HandleMark, Marked, TableTypes, Row, Statuses, Terminal
    <3> QED
      BY <3>1, <3>2
  <2> QED
    BY <1>7, <2>1, <2>3 DEF HandleMark
<1>8. CASE HandleMarkFails(d, t)
  <2>1. WorkerTypes'
    BY <1>8, <1>g DEF HandleMarkFails
  <2>2. HistoryTypes'
    BY <1>8, <1>w DEF HandleMarkFails, HistoryTypes
  <2> QED
    BY <1>8, <1>f, <2>1, <2>2 DEF HandleMarkFails
<1>9. CASE HandleRelease(d, t)
  <2>1. w.job \in Jobs
    BY <1>9, <1>w DEF HandleRelease
  <2>2. WorkerOK(Idle)
    BY DEF WorkerOK, WorkerRecord, Idle
  <2>3. WorkerTypes'
    BY <1>9, <1>s, <2>2 DEF HandleRelease
  <2>4. SlotTypes'
    BY <1>9, <2>1, JobsAssumption DEF HandleRelease, Released, SlotTypes
  <2> QED
    BY <1>9, <2>3, <2>4 DEF HandleRelease
<1> QED
  BY <1>1, <1>2, <1>3, <1>4, <1>5, <1>6, <1>7, <1>8, <1>9 DEF Handle

LEMMA StopTypesStep ==
    ASSUME Types, NEW d \in Dispatchers, Stop(d)
    PROVE  Types'
<1>1. StopTypes'
  BY DEF Stop, Types, StopTypes
<1> QED
  BY <1>1, Unchanged DEF Stop, Types

LEMMA CrashTypes ==
    ASSUME Types, NEW d \in Dispatchers, Crash(d)
    PROVE  Types'
<1> USE Unchanged DEF Types, Crash
<1>1. PollerOK(Resting) /\ WorkerOK(Idle)
  BY DEF Resting, PollerRecord, PollerOK, Idle, WorkerRecord, WorkerOK
<1>2. PollerTypes'
  BY <1>1 DEF PollerTypes, PollerOK
<1>3. WorkerTypes'
  BY <1>1 DEF WorkerTypes, WorkerOK
<1>4. QueueTypes' /\ SlotTypes' /\ StopTypes'
  BY DEF QueueTypes, SlotTypes, StopTypes
<1>5. BoundTypes'
  BY BoundsAssumption DEF BoundTypes
<1>6. HistoryTypes'
  BY DEF HistoryTypes
<1> QED
  BY <1>2, <1>3, <1>4, <1>5, <1>6

LEMMA NextTypes ==
    ASSUME Types, [Next]_vars
    PROVE  Types'
<1>1. CASE UNCHANGED vars
  BY <1>1, Unchanged DEF vars, Types
<1> QED
  BY <1>1, ClientTypes, TickTypes, PollTypes, HandleTypes, StopTypesStep, CrashTypes DEF Next

\* The table, the goroutines and the histories hold only values of their types,
\* whatever fails and whenever a process crashes (the rows and records of
\* internal/task/dispatcher.go and contract_store.go).
THEOREM TypeCorrect == Spec => []TypeOK
<1>1. Spec => []Types
  BY InitTypes, NextTypes, PTL DEF Spec
<1> QED
  BY <1>1, TypesSuffice, PTL

----------------------------------------------------------------------------
(* Who answers for a job's row *)

PollerOwns(d, k, j) == poller[d][k].pc = "spawn" /\ poller[d][k].cur = j
WorkerOwns(d, t, j) == worker[d][t].pc \in Working /\ worker[d][t].job = j

\* One goroutine at most answers for a row, which is 'dispatching' meanwhile or
\* cancelled by its client.
OneOwner ==
    \A j \in Jobs, d, e \in Dispatchers :
        /\ \A k, l \in PollerKinds :
              PollerOwns(d, k, j) /\ PollerOwns(e, l, j) => d = e /\ k = l
        /\ \A t, u \in Tokens :
              WorkerOwns(d, t, j) /\ WorkerOwns(e, u, j) => d = e /\ t = u
        /\ \A k \in PollerKinds, t \in Tokens :
              ~(PollerOwns(d, k, j) /\ WorkerOwns(e, t, j))
        /\ \A k \in PollerKinds :
              PollerOwns(d, k, j) => job[j].status \in {"dispatching", "cancelled"}
        /\ \A t \in Tokens :
              WorkerOwns(d, t, j) => job[j].status \in {"dispatching", "cancelled"}

Owned(j) == \E d \in Dispatchers : \/ \E k \in PollerKinds : PollerOwns(d, k, j)
                                   \/ \E t \in Tokens : WorkerOwns(d, t, j)

NoneForgotten == \A j \in Jobs : job[j].status = "dispatching" => Owned(j) \/ j \in stranded

Own == OneOwner /\ NoneForgotten

\* What the steps that change no owner may do to a row.
MayBecome(j) ==
    \/ job'[j].status \in {job[j].status, "cancelled"}
    \/ /\ job[j].status \notin {"dispatching", "cancelled"}
       /\ job'[j].status # "dispatching" \/ j \in stranded'

SameOwners ==
    \A d \in Dispatchers, j \in Jobs :
        /\ \A k \in PollerKinds : PollerOwns(d, k, j)' <=> PollerOwns(d, k, j)
        /\ \A t \in Tokens : WorkerOwns(d, t, j)' <=> WorkerOwns(d, t, j)

LEMMA SameOwnersKeep ==
    ASSUME Own, SameOwners, stranded \subseteq stranded', \A j \in Jobs : MayBecome(j)
    PROVE  Own'
<1>1. OneOwner'
  BY DEF Own, OneOwner, SameOwners, MayBecome
<1>2. \A j \in Jobs : Owned(j)' <=> Owned(j)
  BY DEF SameOwners, Owned
<1>3. NoneForgotten'
  BY <1>2 DEF Own, OneOwner, NoneForgotten, MayBecome, Owned
<1> QED
  BY <1>1, <1>3 DEF Own

LEMMA SameGoroutines == UNCHANGED <<poller, worker>> => SameOwners
  BY DEF SameOwners, PollerOwns, WorkerOwns

LEMMA PollerMoves ==
    ASSUME Types, NEW d \in Dispatchers, NEW k \in PollerKinds, NEW p, SetPoller(d, k, p),
           poller[d][k].pc # "spawn", p.pc # "spawn", UNCHANGED worker
    PROVE  SameOwners
  BY SetPollerIs DEF Types, SameOwners, PollerOwns, WorkerOwns

LEMMA WorkerMoves ==
    ASSUME Types, NEW d \in Dispatchers, NEW t \in Tokens, NEW w, SetWorker(d, t, w),
           \/ worker[d][t].pc \in Working /\ w.pc \in Working /\ w.job = worker[d][t].job
           \/ worker[d][t].pc \notin Working /\ w.pc \notin Working,
           UNCHANGED poller
    PROVE  SameOwners
  BY SetWorkerIs DEF Types, SameOwners, PollerOwns, WorkerOwns

\* A handler that leaves the row of its job is taken off the owners.
LEMMA LeavesRow ==
    ASSUME Types, NEW d \in Dispatchers, NEW t \in Tokens, NEW w, SetWorker(d, t, w),
           w.pc \notin Working, UNCHANGED poller
    PROVE  \A e \in Dispatchers, j \in Jobs :
              /\ \A k \in PollerKinds : PollerOwns(e, k, j)' <=> PollerOwns(e, k, j)
              /\ \A u \in Tokens :
                    WorkerOwns(e, u, j)' <=> WorkerOwns(e, u, j) /\ ~(e = d /\ u = t)
  BY SetWorkerIs DEF Types, PollerOwns, WorkerOwns

\* A handler leaves the row of its job, which it has updated or stranded.
LEMMA WorkerLeaves ==
    ASSUME Types, Own, NEW d \in Dispatchers, NEW t \in Tokens, NEW w, SetWorker(d, t, w),
           worker[d][t].pc \in Working, w.pc \notin Working, UNCHANGED poller,
           stranded \subseteq stranded',
           \A j \in Jobs \ {worker[d][t].job} : job'[j].status = job[j].status,
           job'[worker[d][t].job].status # "dispatching" \/ worker[d][t].job \in stranded'
    PROVE  Own'
<1>1. PICK j0 \in Jobs : j0 = worker[d][t].job /\ WorkerOwns(d, t, j0)
  BY DEF WorkerOwns, Types, WorkerTypes, WorkerOK, Working
<1>2. \A e \in Dispatchers, j \in Jobs :
         /\ \A k \in PollerKinds : PollerOwns(e, k, j)' <=> PollerOwns(e, k, j)
         /\ \A u \in Tokens : WorkerOwns(e, u, j)' <=> WorkerOwns(e, u, j) /\ ~(e = d /\ u = t)
  BY LeavesRow
<1>3. OneOwner'
  <2>1. \A j \in Jobs : j # j0 => job'[j].status = job[j].status
    BY <1>1
  <2>2. \A e \in Dispatchers, k \in PollerKinds : ~PollerOwns(e, k, j0)
    BY <1>1 DEF Own, OneOwner
  <2>3. \A e \in Dispatchers, u \in Tokens : WorkerOwns(e, u, j0) => e = d /\ u = t
    BY <1>1 DEF Own, OneOwner
  <2>4. \A e \in Dispatchers : /\ \A k \in PollerKinds : ~PollerOwns(e, k, j0)'
                               /\ \A u \in Tokens : ~WorkerOwns(e, u, j0)'
    BY <1>1, <1>2, <2>2, <2>3
  <2>5. ASSUME NEW j \in Jobs, NEW e \in Dispatchers
        PROVE  /\ \A k \in PollerKinds :
                     PollerOwns(e, k, j)' => job'[j].status \in {"dispatching", "cancelled"}
               /\ \A u \in Tokens :
                     WorkerOwns(e, u, j)' => job'[j].status \in {"dispatching", "cancelled"}
    BY <1>2, <2>1, <2>4 DEF Own, OneOwner
  <2>6. ASSUME NEW j \in Jobs, NEW e \in Dispatchers, NEW f \in Dispatchers
        PROVE  /\ \A k, l \in PollerKinds :
                     PollerOwns(e, k, j)' /\ PollerOwns(f, l, j)' => e = f /\ k = l
               /\ \A u, v \in Tokens :
                     WorkerOwns(e, u, j)' /\ WorkerOwns(f, v, j)' => e = f /\ u = v
               /\ \A k \in PollerKinds, u \in Tokens :
                     ~(PollerOwns(e, k, j)' /\ WorkerOwns(f, u, j)')
    BY <1>2 DEF Own, OneOwner
  <2> QED
    BY <2>5, <2>6 DEF OneOwner
<1>4. \A j \in Jobs : j # j0 => (Owned(j)' <=> Owned(j))
  BY <1>1, <1>2 DEF Owned, WorkerOwns
<1>5. NoneForgotten'
  BY <1>1, <1>4 DEF Own, NoneForgotten
<1> QED
  BY <1>3, <1>5 DEF Own

LEMMA InitOwn == Init => Own
  BY DEF Init, Own, OneOwner, NoneForgotten, PollerOwns, WorkerOwns, Resting, Idle, NoRow, Working

LEMMA ClientOwn ==
    ASSUME Types, Own, NEW c \in Jobs, Client(c)
    PROVE  Own'
<1> USE DEF Types, TableTypes, Row
<1>1. SameOwners /\ stranded' = stranded
  BY SameGoroutines DEF Client, EnqueueJob, CancelRead, CancelWrite, history
<1>2. \A j \in Jobs : MayBecome(j)
  <2>1. CASE EnqueueJob(c)
    BY <2>1 DEF EnqueueJob, NoRow, MayBecome
  <2>2. CASE CancelRead(c)
    BY <2>2 DEF CancelRead, MayBecome
  <2>3. CASE CancelWrite(c)
    BY <2>3 DEF CancelWrite, MayBecome
  <2> QED
    BY <2>1, <2>2, <2>3 DEF Client
<1> QED
  BY <1>1, <1>2, SameOwnersKeep

LEMMA TickOwn ==
    ASSUME Types, Own, Tick
    PROVE  Own'
<1>1. SameOwners /\ stranded' = stranded
  BY SameGoroutines DEF Tick, history
<1>2. \A j \in Jobs : MayBecome(j)
  BY DEF Tick, MayBecome, Types, TableTypes, Row
<1> QED
  BY <1>1, <1>2, SameOwnersKeep

LEMMA ClaimTakes ==
    ASSUME Types, NEW d \in Dispatchers, NEW k \in PollerKinds, PollClaim(d, k)
    PROVE  \A e \in Dispatchers, j \in Jobs :
              /\ \A l \in PollerKinds :
                    PollerOwns(e, l, j)'
                    <=> PollerOwns(e, l, j) \/ (e = d /\ l = k /\ j = poller[d][k].cur)
              /\ \A u \in Tokens : WorkerOwns(e, u, j)' <=> WorkerOwns(e, u, j)
<1>1. PollerTypes /\ poller[d][k] \in PollerRecord
  BY DEF Types, PollerTypes
<1>2. \A e \in Dispatchers, l \in PollerKinds :
        poller'[e][l] = IF e = d /\ l = k THEN [poller[d][k] EXCEPT !.pc = "spawn"] ELSE poller[e][l]
  BY <1>1, SetPollerIs DEF PollClaim
<1> QED
  BY <1>1, <1>2 DEF PollClaim, PollerOwns, WorkerOwns, PollerRecord

LEMMA ClaimOwn ==
    ASSUME Types, Own, NEW d \in Dispatchers, NEW k \in PollerKinds, PollClaim(d, k)
    PROVE  Own'
<1> DEFINE j0 == poller[d][k].cur
<1>1. j0 \in Jobs /\ job[j0].status = "queued" /\ stranded' = stranded
  BY DEF PollClaim, Claimable, history
<1>2. \A j \in Jobs : job'[j].status = IF j = j0 THEN "dispatching" ELSE job[j].status
  BY <1>1 DEF PollClaim, Types, TableTypes, Row
<1>3. \A e \in Dispatchers, j \in Jobs :
         /\ \A l \in PollerKinds :
               PollerOwns(e, l, j)' <=> PollerOwns(e, l, j) \/ (e = d /\ l = k /\ j = j0)
         /\ \A u \in Tokens : WorkerOwns(e, u, j)' <=> WorkerOwns(e, u, j)
  BY ClaimTakes
<1> HIDE DEF j0
<1>4. \A e \in Dispatchers :
         /\ \A l \in PollerKinds : ~PollerOwns(e, l, j0)
         /\ \A u \in Tokens : ~WorkerOwns(e, u, j0)
  BY <1>1 DEF Own, OneOwner
<1>5. OneOwner'
  BY <1>1, <1>2, <1>3, <1>4 DEF Own, OneOwner
<1>6. NoneForgotten'
  BY <1>1, <1>2, <1>3 DEF Own, NoneForgotten, Owned
<1> QED
  BY <1>5, <1>6 DEF Own

\* The goroutine starts: it takes the job over from its poller.
LEMMA SpawnHands ==
    ASSUME Types, NEW d \in Dispatchers, NEW k \in PollerKinds, PollSpawn(d, k)
    PROVE  \E t \in Tokens :
              /\ worker[d][t].pc = "idle"
              /\ \A e \in Dispatchers, j \in Jobs :
                    /\ \A l \in PollerKinds :
                          PollerOwns(e, l, j)' <=> PollerOwns(e, l, j) /\ ~(e = d /\ l = k)
                    /\ \A u \in Tokens :
                          WorkerOwns(e, u, j)'
                          <=> WorkerOwns(e, u, j) \/ (e = d /\ u = t /\ j = poller[d][k].cur)
<1> DEFINE j0 == poller[d][k].cur
<1> PICK t \in Free(d) : SetWorker(d, t, [Idle EXCEPT !.pc = "get", !.job = j0])
  BY DEF PollSpawn
<1>1. t \in Tokens /\ worker[d][t].pc = "idle"
  BY DEF Free
<1>2. \A e \in Dispatchers, l \in PollerKinds :
        poller'[e][l] = IF e = d /\ l = k THEN [poller[d][k] EXCEPT !.pc = "reserve", !.cur = NoJob]
                        ELSE poller[e][l]
  BY SetPollerIs DEF PollSpawn, Types
<1>3. \A e \in Dispatchers, u \in Tokens :
        worker'[e][u] = IF e = d /\ u = t THEN [Idle EXCEPT !.pc = "get", !.job = j0]
                        ELSE worker[e][u]
  BY <1>1, SetWorkerIs DEF Types
<1>4. poller[d][k] \in PollerRecord
  BY DEF Types, PollerTypes
<1>5. [poller[d][k] EXCEPT !.pc = "reserve", !.cur = NoJob].pc # "spawn"
  BY <1>4 DEF PollerRecord
<1>6. /\ [Idle EXCEPT !.pc = "get", !.job = j0].pc \in Working
      /\ [Idle EXCEPT !.pc = "get", !.job = j0].job = j0
      /\ worker[d][t].pc \notin Working
  BY <1>1 DEF Idle, Working
<1>7. ASSUME NEW e \in Dispatchers, NEW j \in Jobs, NEW l \in PollerKinds
      PROVE  PollerOwns(e, l, j)' <=> PollerOwns(e, l, j) /\ ~(e = d /\ l = k)
  BY <1>2, <1>5 DEF PollerOwns
<1>8. ASSUME NEW e \in Dispatchers, NEW j \in Jobs, NEW u \in Tokens
      PROVE  WorkerOwns(e, u, j)' <=> WorkerOwns(e, u, j) \/ (e = d /\ u = t /\ j = j0)
  BY <1>3, <1>6 DEF WorkerOwns
<1> QED
  BY <1>1, <1>7, <1>8

LEMMA SpawnOwn ==
    ASSUME Types, Own, NEW d \in Dispatchers, NEW k \in PollerKinds, PollSpawn(d, k)
    PROVE  Own'
<1> DEFINE j0 == poller[d][k].cur
<1>1. j0 \in Jobs /\ PollerOwns(d, k, j0) /\ stranded' = stranded /\ job' = job
  BY DEF PollSpawn, Types, PollerTypes, PollerOK, PollerOwns, history, table
<1>2. PICK t \in Tokens :
         /\ worker[d][t].pc = "idle"
         /\ \A e \in Dispatchers, j \in Jobs :
               /\ \A l \in PollerKinds :
                     PollerOwns(e, l, j)' <=> PollerOwns(e, l, j) /\ ~(e = d /\ l = k)
               /\ \A u \in Tokens :
                     WorkerOwns(e, u, j)' <=> WorkerOwns(e, u, j) \/ (e = d /\ u = t /\ j = j0)
  BY SpawnHands
<1>3. \A j \in Jobs : PollerOwns(d, k, j) => j = j0
  BY DEF PollerOwns
<1> HIDE DEF j0
<1>4. OneOwner'
  BY <1>1, <1>2, <1>3 DEF Own, OneOwner
<1>5. \A j \in Jobs : Owned(j) => Owned(j)'
  BY <1>2, <1>3 DEF Owned
<1>6. NoneForgotten'
  BY <1>1, <1>5 DEF Own, NoneForgotten
<1> QED
  BY <1>4, <1>6 DEF Own

\* A claim that misses or fails, and the other steps of a poll, change no owner.
LEMMA MissQuiet ==
    ASSUME Types, NEW d \in Dispatchers, NEW k \in PollerKinds, PollClaimFails(d, k)
    PROVE  SameOwners
<1>1. poller[d][k] \in PollerRecord
  BY DEF Types, PollerTypes
<1> QED
  BY <1>1, PollerMoves DEF PollClaimFails, DropClaim, PollerRecord

LEMMA PollQuiet ==
    ASSUME Types, NEW d \in Dispatchers, NEW k \in PollerKinds, Poll(d, k),
           ~PollClaim(d, k), ~PollSpawn(d, k)
    PROVE  SameOwners
<1>t. poller[d][k] \in PollerRecord
  BY DEF Types, PollerTypes
<1>r. ASSUME Return(d, k), poller[d][k].pc # "spawn", UNCHANGED worker
      PROVE  SameOwners
  BY <1>r, PollerMoves DEF Return, Resting
<1>1. CASE PollBegin(d, k)
  BY <1>1, <1>t, PollerMoves DEF PollBegin, PollerRecord
<1>2. CASE PollList(d, k)
  BY <1>2, <1>t, PollerMoves DEF PollList, PollerRecord
<1>3. CASE PollListFails(d, k)
  BY <1>3, <1>r DEF PollListFails
<1>4. CASE PollEnqueue(d, k)
  BY <1>4, <1>r, <1>t, PollerMoves DEF PollEnqueue, PollerRecord
<1>5. CASE PollPop(d, k)
  BY <1>5, <1>r, <1>t, PollerMoves DEF PollPop, PollerRecord
<1>6. CASE PollReserve(d, k)
  BY <1>6, <1>t, PollerMoves DEF PollReserve, PollerRecord
<1>7. CASE PollReturn(d, k)
  BY <1>7, <1>r DEF PollReturn
<1>8. CASE PollClaimFails(d, k)
  BY <1>8, MissQuiet
<1> QED
  BY <1>1, <1>2, <1>3, <1>4, <1>5, <1>6, <1>7, <1>8 DEF Poll

LEMMA PollOwn ==
    ASSUME Types, Own, NEW d \in Dispatchers, NEW k \in PollerKinds, Poll(d, k)
    PROVE  Own'
<1>1. CASE PollClaim(d, k) \/ PollSpawn(d, k)
  BY <1>1, ClaimOwn, SpawnOwn
<1>2. CASE PollClaimFails(d, k)
  <2>1. SameOwners
    BY <1>2, MissQuiet
  <2>2. stranded \subseteq stranded'
    BY <1>2 DEF PollClaimFails, history
  <2>3. poller[d][k].cur \in Jobs
    BY <1>2 DEF PollClaimFails, DropClaim, Types, PollerTypes, PollerOK
  <2>4. \A j \in Jobs : MayBecome(j)
    BY <1>2, <2>3 DEF PollClaimFails, Claimable, MayBecome, Types, TableTypes, Row
  <2> QED
    BY <2>1, <2>2, <2>4, SameOwnersKeep
<1>3. CASE ~(PollClaim(d, k) \/ PollSpawn(d, k) \/ PollClaimFails(d, k))
  <2>1. UNCHANGED <<job, stranded>>
    BY <1>3 DEF Poll, PollBegin, PollList, PollListFails, PollEnqueue, PollPop, PollReserve,
                PollReturn, table, history
  <2>2. SameOwners
    BY <1>3, PollQuiet
  <2> QED
    BY <2>1, <2>2, SameOwnersKeep DEF MayBecome
<1> QED
  BY <1>1, <1>2, <1>3

\* The final update, and the statements whose failure ends the handler.
Leaves(d, t) == HandleGetFails(d, t) \/ HandleMark(d, t) \/ HandleMarkFails(d, t)

LEMMA HandleQuiet ==
    ASSUME Types, NEW d \in Dispatchers, NEW t \in Tokens, Handle(d, t), ~Leaves(d, t)
    PROVE  SameOwners
<1> DEFINE w == worker[d][t]
<1>t. w \in WorkerRecord /\ (w.pc # "idle" => w.job \in Jobs)
  BY DEF Types, WorkerTypes, WorkerOK
<1>m. ASSUME w.pc \in Working, NEW mark, Finish(d, t, mark), UNCHANGED poller
      PROVE  SameOwners
  BY <1>m, <1>t, WorkerMoves DEF Finish, WorkerRecord, Working
<1>g. ASSUME w.pc \in Working, NEW pc \in Working, Goto(d, t, pc), UNCHANGED poller
      PROVE  SameOwners
  BY <1>g, <1>t, WorkerMoves DEF Goto, WorkerRecord
<1>1. CASE HandleGet(d, t)
  BY <1>1, <1>t, <1>m, WorkerMoves DEF HandleGet, WorkerRecord, Working
<1>2. CASE HandleToken(d, t)
  BY <1>2, <1>m, <1>g DEF HandleToken, Working
<1>3. CASE HandleAttempt(d, t)
  BY <1>3, <1>m, <1>g DEF HandleAttempt, Working
<1>4. CASE HandleCall(d, t)
  BY <1>4, <1>g DEF HandleCall, Working
<1>5. ASSUME NEW r \in Answers, HandleAnswer(d, t, r)
      PROVE  SameOwners
  BY <1>5, <1>t, <1>m, WorkerMoves DEF HandleAnswer, WorkerRecord, Working
<1>6. CASE HandleRelease(d, t)
  BY <1>6, WorkerMoves DEF HandleRelease, Idle, Working
<1> QED
  BY <1>1, <1>2, <1>3, <1>4, <1>5, <1>6 DEF Handle, Leaves

\* A final update sets the status of the handler's row and of no other.
LEMMA MarkSets ==
    ASSUME Types, NEW d \in Dispatchers, NEW t \in Tokens, HandleMark(d, t)
    PROVE  /\ worker[d][t].job \in Jobs
           /\ \E s \in {"queued"} \cup Terminal :
                 \A j \in Jobs :
                    /\ job'[j].status = IF j = worker[d][t].job THEN s ELSE job[j].status
                    /\ job'[j].attempt = job[j].attempt
<1> DEFINE w == worker[d][t]
<1>1. w.job \in Jobs /\ w.mark \in Terminal \cup {"retry"}
  BY DEF HandleMark, Types, WorkerTypes, WorkerOK, WorkerRecord
<1>2. CASE w.mark = "retry"
  <2> PICK n \in 1..MaxDelay :
        job' = [job EXCEPT ![w.job].status = "queued", ![w.job].wait = n]
    BY <1>2 DEF HandleMark, Marked
  <2> QED
    BY <1>1 DEF Types, TableTypes, Row
<1>3. CASE w.mark # "retry"
  <2>1. job' = [job EXCEPT ![w.job].status = w.mark] /\ w.mark \in Terminal
    BY <1>1, <1>3 DEF HandleMark, Marked
  <2> QED
    BY <1>1, <2>1 DEF Types, TableTypes, Row
<1> QED
  BY <1>2, <1>3

LEMMA HandleOwn ==
    ASSUME Types, Own, NEW d \in Dispatchers, NEW t \in Tokens, Handle(d, t)
    PROVE  Own'
<1> DEFINE w == worker[d][t]
<1>t. w \in WorkerRecord /\ (w.pc # "idle" => w.job \in Jobs)
  BY DEF Types, WorkerTypes, WorkerOK
<1>l. ASSUME w.pc \in Working, Goto(d, t, "release"), UNCHANGED poller,
             stranded \subseteq stranded',
             \A j \in Jobs \ {w.job} : job'[j].status = job[j].status,
             job'[w.job].status # "dispatching" \/ w.job \in stranded'
      PROVE  Own'
  <2>1. [w EXCEPT !.pc = "release"].pc \notin Working
    BY <1>t DEF WorkerRecord, Working
  <2> QED
    BY <1>l, <2>1, WorkerLeaves DEF Goto
<1>1. CASE HandleGetFails(d, t)
  BY <1>1, <1>l DEF HandleGetFails, Working, table
<1>2. CASE HandleMark(d, t)
  BY <1>2, <1>l, MarkSets DEF HandleMark, Working, Terminal, history
<1>3. CASE HandleMarkFails(d, t)
  BY <1>3, <1>l DEF HandleMarkFails, Working, table
<1>4. CASE ~Leaves(d, t)
  <2>1. SameOwners
    BY <1>4, HandleQuiet
  <2>2. UNCHANGED stranded
    BY <1>4 DEF Handle, Leaves, HandleGet, HandleToken, HandleAttempt, HandleCall, HandleAnswer,
                HandleRelease, history
  <2>3. CASE HandleAttempt(d, t)
    <3>1. \A j \in Jobs : job'[j].status = job[j].status
      BY <1>t, <2>3 DEF HandleAttempt, Types, TableTypes, Row
    <3> QED
      BY <2>1, <2>2, <3>1, SameOwnersKeep DEF MayBecome
  <2>4. CASE ~HandleAttempt(d, t)
    <3>1. UNCHANGED job
      BY <1>4, <2>4 DEF Handle, Leaves, HandleGet, HandleToken, HandleCall, HandleAnswer,
                        HandleRelease, table
    <3> QED
      BY <2>1, <2>2, <3>1, SameOwnersKeep DEF MayBecome
  <2> QED
    BY <2>3, <2>4
<1> QED
  BY <1>1, <1>2, <1>3, <1>4 DEF Leaves

LEMMA CrashOwn ==
    ASSUME Types, Own, NEW d \in Dispatchers, Crash(d)
    PROVE  Own'
<1>1. \A e \in Dispatchers, j \in Jobs :
         /\ \A k \in PollerKinds : PollerOwns(e, k, j)' <=> PollerOwns(e, k, j) /\ e # d
         /\ \A u \in Tokens : WorkerOwns(e, u, j)' <=> WorkerOwns(e, u, j) /\ e # d
  BY DEF Crash, PollerOwns, WorkerOwns, Types, PollerTypes, WorkerTypes, Resting, Idle, Working
<1>2. OneOwner'
  BY <1>1 DEF Own, OneOwner, Crash, table
<1>3. \A j \in Jobs : Owned(j) => Owned(j)' \/ j \in stranded'
  BY <1>1 DEF Owned, Crash, Holds, PollerOwns, WorkerOwns
<1>4. NoneForgotten'
  BY <1>3 DEF Own, NoneForgotten, Crash, table
<1> QED
  BY <1>2, <1>4 DEF Own

LEMMA NextOwn ==
    ASSUME Types, Own, [Next]_vars
    PROVE  Own'
<1>1. ASSUME UNCHANGED <<poller, worker, job, stranded>>
      PROVE  Own'
  BY <1>1, SameGoroutines, SameOwnersKeep DEF MayBecome
<1>2. CASE UNCHANGED vars
  BY <1>1, <1>2 DEF vars, table, history
<1>3. ASSUME NEW d \in Dispatchers, Stop(d)
      PROVE  Own'
  BY <1>1, <1>3 DEF Stop, table, history
<1> QED
  BY <1>2, <1>3, ClientOwn, TickOwn, PollOwn, HandleOwn, CrashOwn DEF Next

LEMMA OwnersAreOwners ==
    \A j \in Jobs : \A o : o \in Owners(j) <=>
        \/ \E d \in Dispatchers, k \in PollerKinds : o = <<d, k>> /\ PollerOwns(d, k, j)
        \/ \E d \in Dispatchers, t \in Tokens : o = <<d, t>> /\ WorkerOwns(d, t, j)
  BY DEF Owners, PollerOwns, WorkerOwns

LEMMA AlwaysOwn == Spec => [](Types /\ Own)
  BY InitTypes, NextTypes, InitOwn, NextOwn, PTL DEF Spec

\* However many dispatchers poll one table with stale ready queues, one goroutine
\* at most dispatches a job, and none while its row can be claimed: TryClaim
\* updates only queued rows, and a row leaves 'queued' for good until the one
\* goroutine that claimed it puts it back.
THEOREM ClaimsExclude == Spec => []ClaimExclusive
<1>1. Own => ClaimExclusive
  <2> SUFFICES ASSUME Own, NEW j \in Jobs
               PROVE  /\ \A o, p \in Owners(j) : o = p
                      /\ job[j].status = "queued" => Owners(j) = {}
    BY DEF ClaimExclusive
  <2>1. \A o, p \in Owners(j) : o = p
    BY OwnersAreOwners DEF Own, OneOwner
  <2>2. ASSUME job[j].status = "queued", NEW o \in Owners(j)
        PROVE  FALSE
    BY <2>2, OwnersAreOwners DEF Own, OneOwner
  <2> QED
    BY <2>1, <2>2
<1> QED
  BY <1>1, AlwaysOwn, PTL

\* A row is left 'dispatching' without a goroutine only by what strands it: a
\* crash, a lost claim answer, a failed Get or a failed final update.
THEOREM DispatchingStaysOwned == Spec => []DispatchingIsOwned
<1>1. Own => DispatchingIsOwned
  BY OwnersAreOwners DEF Own, NoneForgotten, DispatchingIsOwned, Owned
<1> QED
  BY <1>1, AlwaysOwn, PTL

\* A handler changes the status of the row it answers for and of no other.
LEMMA HandleChanges ==
    ASSUME Types, NEW d \in Dispatchers, NEW t \in Tokens, Handle(d, t), NEW j \in Jobs,
           job'[j].status # job[j].status
    PROVE  WorkerOwns(d, t, j)
<1> DEFINE w == worker[d][t]
<1>t. w \in WorkerRecord /\ (w.pc # "idle" => w.job \in Jobs)
  BY DEF Types, WorkerTypes, WorkerOK
<1>1. HandleAttempt(d, t) \/ HandleMark(d, t)
  BY DEF Handle, HandleGet, HandleGetFails, HandleToken, HandleCall, HandleAnswer,
         HandleMarkFails, HandleRelease, table
<1>2. CASE HandleAttempt(d, t)
  <2>1. \A i \in Jobs : job'[i].status = job[i].status
    BY <1>2, <1>t DEF HandleAttempt, Types, TableTypes, Row
  <2> QED
    BY <2>1
<1>3. CASE HandleMark(d, t)
  <2>1. job'[j] = job[j] \/ j = w.job
    BY <1>3, <1>t DEF HandleMark, Marked, Types, TableTypes
  <2> QED
    BY <1>3, <2>1 DEF WorkerOwns, HandleMark, Working
<1> QED
  BY <1>1, <1>2, <1>3

\* A poller changes the status of queued rows only.
LEMMA PollChanges ==
    ASSUME Types, NEW d \in Dispatchers, NEW k \in PollerKinds, Poll(d, k), NEW j \in Jobs,
           job'[j].status # job[j].status
    PROVE  job[j].status = "queued"
<1>1. PollClaim(d, k) \/ PollClaimFails(d, k)
  BY DEF Poll, PollBegin, PollList, PollListFails, PollEnqueue, PollPop, PollReserve,
         PollReturn, PollSpawn, table
<1>2. poller[d][k].cur \in Jobs
  BY <1>1 DEF PollClaim, PollClaimFails, DropClaim, Types, PollerTypes, PollerOK
<1> QED
  BY <1>1, <1>2 DEF PollClaim, PollClaimFails, Claimable, Types, TableTypes

\* A job that the dispatcher finished keeps its outcome: no other handler has the
\* row, no poll claims it, and only a CancelJob call that browsed the row while it
\* was queued still overwrites it.
THEOREM OutcomesStay == Spec => OutcomeIsFinal
<1>1. ASSUME Types, Own, [Next]_vars
      PROVE  [\A j \in Jobs :
                job[j].status \in {"succeeded", "failed"} /\ cancelling[j] # "queued"
                => job'[j].status = job[j].status]_vars
  <2> SUFFICES ASSUME NEW j \in Jobs, job[j].status \in {"succeeded", "failed"},
                      cancelling[j] # "queued", Next, job'[j].status # job[j].status
               PROVE  FALSE
    BY <1>1
  <2>1. ASSUME NEW c \in Jobs, Client(c)
        PROVE  FALSE
    <3>1. job \in [Jobs -> Row] /\ cancelling \in [Jobs -> {"none", "queued", "other"}]
      BY <1>1 DEF Types, TableTypes
    <3>2. CASE EnqueueJob(c)
      BY <3>1, <3>2 DEF EnqueueJob
    <3>3. CASE CancelRead(c)
      BY <3>3 DEF CancelRead
    <3>4. CASE CancelWrite(c)
      <4>1. CASE cancelling[c] = "queued"
        BY <3>1, <3>4, <4>1 DEF CancelWrite
      <4>2. CASE cancelling[c] # "queued"
        BY <3>1, <3>4, <4>2 DEF CancelWrite, Row
      <4> QED
        BY <4>1, <4>2
    <3> QED
      BY <2>1, <3>2, <3>3, <3>4 DEF Client
  <2>2. ASSUME Tick
        PROVE  FALSE
    BY <1>1, <2>2 DEF Tick, Types, TableTypes, Row
  <2>3. ASSUME NEW d \in Dispatchers, NEW k \in PollerKinds, Poll(d, k)
        PROVE  FALSE
    BY <1>1, <2>3, PollChanges
  <2>4. ASSUME NEW d \in Dispatchers, NEW t \in Tokens, Handle(d, t)
        PROVE  FALSE
    BY <1>1, <2>4, HandleChanges DEF Own, OneOwner
  <2>5. ASSUME NEW d \in Dispatchers, Stop(d) \/ Crash(d)
        PROVE  FALSE
    BY <2>5 DEF Stop, Crash, table
  <2> QED
    BY <2>1, <2>2, <2>3, <2>4, <2>5 DEF Next
<1> QED
  BY <1>1, AlwaysOwn, PTL DEF Spec, OutcomeIsFinal

----------------------------------------------------------------------------
(* Attempts and calls *)

\* What a handler knows of the attempts of its job: the next number is in the
\* budget until it is written, it is the row's number while the job is called,
\* and a call is made only after its number was written.
HandlerPaid(d, t) ==
    LET w == worker[d][t]
    IN  /\ w.pc \in {"token", "attempt"} =>
              /\ w.attempt = job[w.job].attempt + 1
              /\ MaxAttempts[w.job] > 0 => w.attempt <= MaxAttempts[w.job]
        /\ w.pc \in {"call", "wait"} => w.attempt = job[w.job].attempt
        /\ w.pc = "call" => calls[w.job] < job[w.job].attempt

RowPaid(j) ==
    /\ calls[j] <= job[j].attempt
    /\ MaxAttempts[j] > 0 => job[j].attempt <= MaxAttempts[j]
    /\ job[j].status = "absent" => job[j].attempt = 0

Paid == /\ \A j \in Jobs : RowPaid(j)
        /\ \A d \in Dispatchers, t \in Tokens : HandlerPaid(d, t)

\* Steps that count nothing: each goroutine is as before or at a stage of which
\* HandlerPaid says nothing.
Uncounted ==
    /\ \A j \in Jobs : /\ job'[j].attempt = job[j].attempt
                       /\ calls'[j] = calls[j]
                       /\ job'[j].status = "absent" => job[j].status = "absent"
    /\ \A d \in Dispatchers, t \in Tokens :
          \/ worker'[d][t] = worker[d][t]
          \/ worker'[d][t].pc \notin {"token", "attempt", "call", "wait"}

LEMMA UncountedKeeps ==
    ASSUME Types, Paid, Uncounted
    PROVE  Paid'
<1>1. ASSUME NEW j \in Jobs
      PROVE  RowPaid(j)'
  BY DEF Paid, Uncounted, RowPaid
<1>2. ASSUME NEW d \in Dispatchers, NEW t \in Tokens
      PROVE  HandlerPaid(d, t)'
  <2>1. worker[d][t].pc # "idle" => worker[d][t].job \in Jobs
    BY DEF Types, WorkerTypes, WorkerOK
  <2>2. CASE worker'[d][t] = worker[d][t]
    BY <2>1, <2>2 DEF Paid, Uncounted, HandlerPaid
  <2>3. CASE worker'[d][t].pc \notin {"token", "attempt", "call", "wait"}
    BY <2>3 DEF HandlerPaid
  <2> QED
    BY <2>2, <2>3 DEF Uncounted
<1> QED
  BY <1>1, <1>2 DEF Paid

\* A handler's step changes the counts of its own job only, which no other
\* handler works on.
LEMMA OneHandlerCounts ==
    ASSUME Types, Own, Paid, NEW d \in Dispatchers, NEW t \in Tokens, NEW w,
           SetWorker(d, t, w), worker[d][t].pc \in Working,
           \A j \in Jobs \ {worker[d][t].job} : job'[j] = job[j] /\ calls'[j] = calls[j],
           \A j \in Jobs : j = worker[d][t].job => RowPaid(j)', HandlerPaid(d, t)'
    PROVE  Paid'
<1>1. PICK j0 \in Jobs : j0 = worker[d][t].job /\ WorkerOwns(d, t, j0)
  BY DEF WorkerOwns, Types, WorkerTypes, WorkerOK, Working
<1>2. ASSUME NEW j \in Jobs
      PROVE  RowPaid(j)'
  BY <1>1 DEF Paid, RowPaid
<1>3. ASSUME NEW e \in Dispatchers, NEW u \in Tokens, ~(e = d /\ u = t)
      PROVE  HandlerPaid(e, u)'
  <2>1. worker'[e][u] = worker[e][u]
    BY <1>3, SetWorkerIs DEF Types
  <2>2. HandlerPaid(e, u)
    BY DEF Paid
  <2>3. CASE worker[e][u].pc \in Working
    <3>1. worker[e][u].job \in Jobs /\ WorkerOwns(e, u, worker[e][u].job)
      BY <2>3 DEF WorkerOwns, Types, WorkerTypes, WorkerOK, Working
    <3>2. worker[e][u].job # j0
      BY <1>1, <1>3, <3>1 DEF Own, OneOwner
    <3> QED
      BY <1>1, <2>1, <2>2, <3>1, <3>2 DEF HandlerPaid
  <2>4. CASE worker[e][u].pc \notin Working
    BY <2>1, <2>4 DEF HandlerPaid, Working
  <2> QED
    BY <2>3, <2>4
<1>4. \A e \in Dispatchers, u \in Tokens : HandlerPaid(e, u)'
  BY <1>3
<1> QED
  BY <1>2, <1>4 DEF Paid

LEMMA InitPaid == Init => Paid
<1> SUFFICES ASSUME Init PROVE Paid
  OBVIOUS
<1>1. \A j \in Jobs : RowPaid(j)
  BY BudgetAssumption DEF Init, RowPaid, NoRow
<1>2. \A d \in Dispatchers, t \in Tokens : HandlerPaid(d, t)
  BY DEF Init, HandlerPaid, Idle
<1> QED
  BY <1>1, <1>2 DEF Paid

LEMMA ClientPaid ==
    ASSUME Types, Paid, NEW c \in Jobs, Client(c)
    PROVE  Paid'
<1>1. job \in [Jobs -> Row]
  BY DEF Types, TableTypes
<1>2. \A j \in Jobs : /\ job'[j].attempt = job[j].attempt
                      /\ job'[j].status = "absent" => job[j].status = "absent"
  <2>1. CASE EnqueueJob(c)
    <3> PICK n \in 0..MaxDelay :
          job' = [job EXCEPT ![c] = [NoRow EXCEPT !.status = "queued", !.wait = n]]
      BY <2>1 DEF EnqueueJob
    <3>1. job[c].attempt = 0
      BY <2>1 DEF EnqueueJob, Paid, RowPaid
    <3> QED
      BY <1>1, <3>1 DEF NoRow
  <2>2. CASE CancelRead(c)
    BY <2>2 DEF CancelRead
  <2>3. CASE CancelWrite(c)
    BY <1>1, <2>3 DEF CancelWrite, Row
  <2> QED
    BY <2>1, <2>2, <2>3 DEF Client
<1>3. UNCHANGED <<worker, calls>>
  BY DEF Client, EnqueueJob, CancelRead, CancelWrite, history
<1> QED
  BY <1>2, <1>3, UncountedKeeps DEF Uncounted

LEMMA TickPaid ==
    ASSUME Types, Paid, Tick
    PROVE  Paid'
<1>1. \A j \in Jobs : job'[j].attempt = job[j].attempt /\ job'[j].status = job[j].status
  BY DEF Tick, Types, TableTypes, Row
<1>2. UNCHANGED <<worker, calls>>
  BY DEF Tick, history
<1> QED
  BY <1>1, <1>2, UncountedKeeps DEF Uncounted

LEMMA PollPaid ==
    ASSUME Types, Paid, NEW d \in Dispatchers, NEW k \in PollerKinds, Poll(d, k)
    PROVE  Paid'
<1>1. calls' = calls
  BY DEF Poll, PollBegin, PollList, PollListFails, PollEnqueue, PollPop, PollReserve, PollReturn,
         PollClaim, PollClaimFails, DropClaim, PollSpawn, history
<1>2. \A j \in Jobs : /\ job'[j].attempt = job[j].attempt
                      /\ job'[j].status = "absent" => job[j].status = "absent"
  <2>1. CASE PollClaim(d, k) \/ PollClaimFails(d, k)
    <3>1. poller[d][k].cur \in Jobs
      BY <2>1 DEF PollClaim, PollClaimFails, DropClaim, Types, PollerTypes, PollerOK
    <3> QED
      BY <2>1, <3>1 DEF PollClaim, PollClaimFails, Types, TableTypes, Row
  <2>2. CASE ~(PollClaim(d, k) \/ PollClaimFails(d, k))
    BY <2>2 DEF Poll, PollBegin, PollList, PollListFails, PollEnqueue, PollPop, PollReserve,
                PollReturn, PollSpawn, table
  <2> QED
    BY <2>1, <2>2
<1>3. \A e \in Dispatchers, u \in Tokens :
         \/ worker'[e][u] = worker[e][u]
         \/ worker'[e][u].pc \notin {"token", "attempt", "call", "wait"}
  <2>1. CASE PollSpawn(d, k)
    <3> PICK t \in Free(d) :
          SetWorker(d, t, [Idle EXCEPT !.pc = "get", !.job = poller[d][k].cur])
      BY <2>1 DEF PollSpawn
    <3>1. t \in Tokens
      BY DEF Free
    <3>2. [Idle EXCEPT !.pc = "get", !.job = poller[d][k].cur].pc = "get"
      BY DEF Idle
    <3>3. ASSUME NEW e \in Dispatchers, NEW u \in Tokens
          PROVE  worker'[e][u] = IF e = d /\ u = t
                                 THEN [Idle EXCEPT !.pc = "get", !.job = poller[d][k].cur]
                                 ELSE worker[e][u]
      BY <3>1, SetWorkerIs DEF Types
    <3> QED
      BY <3>2, <3>3
  <2>2. CASE ~PollSpawn(d, k)
    BY <2>2 DEF Poll, PollBegin, PollList, PollListFails, PollEnqueue, PollPop, PollReserve,
                PollReturn, PollClaim, PollClaimFails, DropClaim
  <2> QED
    BY <2>1, <2>2
<1> QED
  BY <1>1, <1>2, <1>3, UncountedKeeps DEF Uncounted

LEMMA HandlePaid ==
    ASSUME Types, Own, Paid, NEW d \in Dispatchers, NEW t \in Tokens, Handle(d, t)
    PROVE  Paid'
<1> DEFINE w == worker[d][t]
<1>t. w \in WorkerRecord /\ (w.pc # "idle" => w.job \in Jobs)
  BY DEF Types, WorkerTypes, WorkerOK
<1>b. job \in [Jobs -> Row] /\ calls \in [Jobs -> Nat]
  BY DEF Types, TableTypes, HistoryTypes
<1>h. HandlerPaid(d, t)
  BY DEF Paid
<1>j. PICK j0 : j0 = w.job
  OBVIOUS
<1>a. w.pc # "idle" => RowPaid(j0) /\ MaxAttempts[j0] \in Nat /\ job[j0].attempt \in Nat
  BY <1>t, <1>j, <1>b, BudgetAssumption DEF Paid, Row
<1>s. ASSUME NEW v, SetWorker(d, t, v)
      PROVE  \A e \in Dispatchers, u \in Tokens :
                worker'[e][u] = IF e = d /\ u = t THEN v ELSE worker[e][u]
  BY <1>s, SetWorkerIs DEF Types
<1>u. ASSUME NEW v, SetWorker(d, t, v), v.pc \notin {"token", "attempt", "call", "wait"},
             UNCHANGED calls,
             \A j \in Jobs : /\ job'[j].attempt = job[j].attempt
                             /\ job'[j].status = "absent" => job[j].status = "absent"
      PROVE  Paid'
  BY <1>s, <1>u, UncountedKeeps DEF Uncounted
<1>c. ASSUME w.pc \in Working, NEW v, SetWorker(d, t, v),
             \A j \in Jobs \ {j0} : job'[j] = job[j] /\ calls'[j] = calls[j],
             RowPaid(j0)', HandlerPaid(d, t)'
      PROVE  Paid'
  BY <1>c, <1>j, OneHandlerCounts
<1>m. ASSUME NEW mark, Finish(d, t, mark), UNCHANGED <<job, calls>>
      PROVE  Paid'
  <2>1. [w EXCEPT !.pc = "mark", !.mark = mark].pc = "mark"
    BY <1>t DEF WorkerRecord
  <2> QED
    BY <1>m, <1>u, <2>1 DEF Finish
<1>r. ASSUME Goto(d, t, "release"), UNCHANGED calls,
             \A j \in Jobs : /\ job'[j].attempt = job[j].attempt
                             /\ job'[j].status = "absent" => job[j].status = "absent"
      PROVE  Paid'
  <2>1. [w EXCEPT !.pc = "release"].pc = "release"
    BY <1>t DEF WorkerRecord
  <2> QED
    BY <1>r, <1>u, <2>1 DEF Goto
\* The handler goes for its next attempt.
<1>n. ASSUME w.pc \in Working, NEW v \in WorkerRecord, SetWorker(d, t, v), v.job = j0,
             v.pc = "token", v.attempt = job[j0].attempt + 1, ~AtMax(j0, job[j0].attempt),
             UNCHANGED <<job, calls>>
      PROVE  Paid'
  <2>1. RowPaid(j0) /\ MaxAttempts[j0] \in Nat /\ job[j0].attempt \in Nat
    BY <1>n, <1>a DEF Working
  <2>2. RowPaid(j0)'
    BY <1>n, <2>1 DEF RowPaid
  <2>3. worker'[d][t] = v
    BY <1>n, <1>s
  <2>4. HandlerPaid(d, t)'
    BY <1>n, <2>1, <2>3 DEF HandlerPaid, AtMax
  <2> QED
    BY <1>n, <1>c, <2>2, <2>4
<1> USE DEF table, history
<1>1. CASE HandleGet(d, t)
  <2>1. CASE \E mark : Finish(d, t, mark)
    BY <1>1, <2>1, <1>m DEF HandleGet
  <2>2. CASE /\ ~AtMax(w.job, job[w.job].attempt)
             /\ SetWorker(d, t, [w EXCEPT !.pc = "token", !.attempt = job[w.job].attempt + 1])
    <3> DEFINE v == [w EXCEPT !.pc = "token", !.attempt = job[w.job].attempt + 1]
    <3>1. v \in WorkerRecord /\ v.job = j0 /\ v.pc = "token" /\ v.attempt = job[j0].attempt + 1
      <4>1. job[w.job].attempt + 1 \in Nat /\ w.job = j0
        BY <1>1, <1>a, <1>j DEF HandleGet
      <4>2. v.job = w.job /\ v.pc = "token" /\ v.attempt = job[w.job].attempt + 1
        BY <1>t DEF WorkerRecord
      <4> QED
        BY <1>t, <4>1, <4>2 DEF WorkerRecord, Working
    <3> QED
      BY <1>1, <1>n, <1>j, <2>2, <3>1 DEF HandleGet, Working
  <2> QED
    BY <1>1, <2>1, <2>2 DEF HandleGet
<1>2. CASE HandleGetFails(d, t)
  BY <1>2, <1>r DEF HandleGetFails
<1>3. CASE HandleToken(d, t)
  <2>1. CASE Goto(d, t, "attempt")
    <3> DEFINE v == [w EXCEPT !.pc = "attempt"]
    <3>1. v.job = j0 /\ v.pc = "attempt" /\ v.attempt = w.attempt
      BY <1>t, <1>j DEF WorkerRecord
    <3>2. worker'[d][t] = v
      BY <1>s, <2>1 DEF Goto
    <3>3. HandlerPaid(d, t)'
      BY <1>3, <1>h, <1>j, <3>1, <3>2 DEF HandleToken, HandlerPaid
    <3>4. RowPaid(j0)'
      BY <1>3, <1>a DEF HandleToken, RowPaid
    <3> QED
      BY <1>3, <1>c, <2>1, <3>3, <3>4 DEF HandleToken, Working, Goto
  <2>2. CASE Finish(d, t, "retry")
    BY <1>3, <1>m, <2>2 DEF HandleToken
  <2> QED
    BY <1>3, <2>1, <2>2 DEF HandleToken
<1>4. CASE HandleAttempt(d, t)
  <2> DEFINE written == [job EXCEPT ![w.job].attempt = w.attempt]
  <2>1. /\ j0 \in Jobs /\ RowPaid(j0) /\ MaxAttempts[j0] \in Nat /\ job[j0].attempt \in Nat
        /\ calls[j0] \in Nat
    BY <1>4, <1>t, <1>j, <1>a, <1>b DEF HandleAttempt
  <2>2. w.attempt = job[j0].attempt + 1 /\ (MaxAttempts[j0] > 0 => w.attempt <= MaxAttempts[j0])
    BY <1>4, <1>h, <1>j DEF HandleAttempt, HandlerPaid
  <2>3. job[j0].status # "absent"
    BY <1>4, <1>j, <2>1 DEF Own, OneOwner, WorkerOwns, HandleAttempt, Working
  <2>4. /\ written[j0].attempt = w.attempt /\ written[j0].status = job[j0].status
        /\ \A j \in Jobs \ {j0} : written[j] = job[j]
    BY <1>b, <1>j, <2>1 DEF Row
  <2>5. ASSUME job' = written
        PROVE  RowPaid(j0)' /\ \A j \in Jobs \ {j0} : job'[j] = job[j]
    BY <1>4, <2>1, <2>2, <2>3, <2>4, <2>5 DEF HandleAttempt, RowPaid
  <2>6. CASE Goto(d, t, "call") /\ job' = written
    <3> DEFINE v == [w EXCEPT !.pc = "call"]
    <3>1. v.job = j0 /\ v.pc = "call" /\ v.attempt = w.attempt
      BY <1>t, <1>j DEF WorkerRecord
    <3>2. worker'[d][t] = v
      BY <1>s, <2>6 DEF Goto
    <3>3. job'[j0].attempt = w.attempt /\ calls' = calls /\ calls[j0] <= job[j0].attempt
      BY <1>4, <2>1, <2>4, <2>6 DEF HandleAttempt, RowPaid
    <3>4. HandlerPaid(d, t)'
      BY <2>1, <2>2, <3>1, <3>2, <3>3 DEF HandlerPaid
    <3> QED
      BY <1>4, <1>c, <2>5, <2>6, <3>3, <3>4 DEF HandleAttempt, Working, Goto
  <2>7. CASE Finish(d, t, "retry") /\ job' \in {job, written}
    <3>1. CASE job' = job
      BY <1>4, <1>m, <2>7, <3>1 DEF HandleAttempt
    <3>2. CASE job' = written
      <4>1. worker'[d][t] = [w EXCEPT !.pc = "mark", !.mark = "retry"]
        BY <1>s, <2>7 DEF Finish
      <4>2. HandlerPaid(d, t)'
        BY <1>t, <4>1 DEF HandlerPaid, WorkerRecord
      <4> QED
        BY <1>4, <1>c, <2>5, <2>7, <3>2, <4>2 DEF HandleAttempt, Working, Finish
    <3> QED
      BY <2>7, <3>1, <3>2
  <2> QED
    BY <1>4, <2>6, <2>7 DEF HandleAttempt
<1>5. CASE HandleCall(d, t)
  <2> DEFINE v == [w EXCEPT !.pc = "wait"]
  <2>1. v.job = j0 /\ v.pc = "wait" /\ v.attempt = w.attempt
    BY <1>t, <1>j DEF WorkerRecord
  <2>2. worker'[d][t] = v
    BY <1>5, <1>s DEF HandleCall, Goto
  <2>3. /\ j0 \in Jobs /\ RowPaid(j0) /\ job[j0].attempt \in Nat /\ calls[j0] \in Nat
        /\ calls[j0] < job[j0].attempt /\ w.attempt = job[j0].attempt
    BY <1>5, <1>t, <1>j, <1>a, <1>b, <1>h DEF HandleCall, HandlerPaid
  <2>4. calls'[j0] = calls[j0] + 1 /\ \A j \in Jobs \ {j0} : calls'[j] = calls[j]
    BY <1>5, <1>b, <1>j, <2>3 DEF HandleCall
  <2>5. job' = job
    BY <1>5 DEF HandleCall
  <2>6. RowPaid(j0)'
    BY <2>3, <2>4, <2>5 DEF RowPaid
  <2>7. HandlerPaid(d, t)'
    BY <2>1, <2>2, <2>3, <2>5 DEF HandlerPaid
  <2> QED
    BY <1>5, <1>c, <2>4, <2>5, <2>6, <2>7 DEF HandleCall, Working, Goto
<1>6. ASSUME NEW r \in Answers, HandleAnswer(d, t, r)
      PROVE  Paid'
  <2> DEFINE s == RefreshStage(w.stage, r)
  <2>1. CASE \E mark : Finish(d, t, mark)
    BY <1>6, <2>1, <1>m DEF HandleAnswer
  <2>2. CASE /\ s # "none" /\ ~AtMax(w.job, w.attempt)
             /\ SetWorker(d, t, [w EXCEPT !.pc = "token", !.stage = s,
                                          !.attempt = w.attempt + 1])
    <3> DEFINE v == [w EXCEPT !.pc = "token", !.stage = s, !.attempt = w.attempt + 1]
    <3>1. s # "none" => s \in {"rpcRefresh", "respRefresh"}
      BY DEF RefreshStage
    <3>2. w.attempt = job[j0].attempt
      BY <1>6, <1>h, <1>j DEF HandleAnswer, HandlerPaid
    <3> HIDE DEF s
    <3>3. v \in WorkerRecord /\ v.job = j0 /\ v.pc = "token" /\ v.attempt = job[j0].attempt + 1
      <4>1. w.attempt + 1 \in Nat /\ w.job = j0
        BY <1>t, <1>j DEF WorkerRecord
      <4>2. v.job = w.job /\ v.pc = "token" /\ v.attempt = w.attempt + 1
        BY <1>t DEF WorkerRecord
      <4> QED
        BY <1>t, <2>2, <3>1, <3>2, <4>1, <4>2 DEF WorkerRecord, Working
    <3> QED
      BY <1>6, <1>n, <1>j, <2>2, <3>2, <3>3 DEF HandleAnswer, Working
  <2> QED
    BY <1>6, <2>1, <2>2 DEF HandleAnswer
<1>7. CASE HandleMark(d, t)
  <2>1. w.job \in Jobs /\ w.mark \in Terminal \cup {"retry"}
    BY <1>7, <1>t DEF HandleMark, Types, WorkerTypes, WorkerOK, WorkerRecord
  <2>2. \A j \in Jobs : /\ job'[j].attempt = job[j].attempt
                        /\ job'[j].status = "absent" => job[j].status = "absent"
    <3>1. CASE w.mark = "retry"
      <4> PICK n \in 1..MaxDelay :
            job' = [job EXCEPT ![w.job].status = "queued", ![w.job].wait = n]
        BY <1>7, <3>1 DEF HandleMark, Marked
      <4> QED
        BY <1>b, <2>1 DEF Row
    <3>2. CASE w.mark # "retry"
      <4>1. job' = [job EXCEPT ![w.job].status = w.mark] /\ w.mark \in Terminal
        BY <1>7, <2>1, <3>2 DEF HandleMark, Marked
      <4> QED
        BY <1>b, <2>1, <4>1 DEF Terminal, Row
    <3> QED
      BY <3>1, <3>2
  <2> QED
    BY <1>7, <1>r, <2>2 DEF HandleMark
<1>8. CASE HandleMarkFails(d, t)
  BY <1>8, <1>r DEF HandleMarkFails
<1>9. CASE HandleRelease(d, t)
  BY <1>9, <1>u DEF HandleRelease, Idle
<1> QED
  BY <1>1, <1>2, <1>3, <1>4, <1>5, <1>6, <1>7, <1>8, <1>9 DEF Handle

LEMMA CrashPaid ==
    ASSUME Types, Paid, NEW d \in Dispatchers, Crash(d)
    PROVE  Paid'
<1>1. \A e \in Dispatchers, u \in Tokens :
         \/ worker'[e][u] = worker[e][u]
         \/ worker'[e][u].pc \notin {"token", "attempt", "call", "wait"}
  BY DEF Crash, Types, WorkerTypes, Idle
<1>2. UNCHANGED <<job, calls>>
  BY DEF Crash, table
<1> QED
  BY <1>1, <1>2, UncountedKeeps DEF Uncounted

LEMMA NextPaid ==
    ASSUME Types, Own, Paid, [Next]_vars
    PROVE  Paid'
<1>1. ASSUME UNCHANGED <<worker, job, calls>>
      PROVE  Paid'
  BY <1>1, UncountedKeeps DEF Uncounted
<1>2. CASE UNCHANGED vars
  BY <1>1, <1>2 DEF vars, table, history
<1>3. ASSUME NEW d \in Dispatchers, Stop(d)
      PROVE  Paid'
  BY <1>1, <1>3 DEF Stop, table, history
<1> QED
  BY <1>2, <1>3, ClientPaid, TickPaid, PollPaid, HandlePaid, CrashPaid DEF Next

\* No job is sent to its worker more often than its row records, and the row
\* records no more than MaxAttempts: the attempt is written before the call, one
\* goroutine counts at a time, and the budget is tested on the number it read.
THEOREM CallsArePaid == Spec => []AttemptsBoundCalls
<1>1. Paid => AttemptsBoundCalls
  BY DEF Paid, RowPaid, AttemptsBoundCalls
<1>2. Spec => []Paid
  BY InitPaid, NextPaid, AlwaysOwn, PTL DEF Spec
<1> QED
  BY <1>1, <1>2, PTL

----------------------------------------------------------------------------
(* Application slots *)

\* The slots of application a that dispatcher d has given out: to a poller from
\* the reservation to the goroutine start, to a handler until it ends.
PollerHas(p, a) == p.pc \in {"claim", "spawn"} /\ AppOf[p.cur] = a
WorkerHas(w, a) == w.pc # "idle" /\ AppOf[w.job] = a
PollersWith(d, a) == {k \in PollerKinds : PollerHas(poller[d][k], a)}
WorkersWith(d, a) == {t \in Tokens : WorkerHas(worker[d][t], a)}

Count(d, a) == Cardinality(PollersWith(d, a)) + Cardinality(WorkersWith(d, a))
One(held) == IF held THEN 1 ELSE 0

Counted(d, a) == appInFly[d][a] = Count(d, a) /\ appInFly[d][a] <= PerAppCap

LEMMA PollersFinite == IsFiniteSet(PollerKinds)
<1>1. IsFiniteSet({"loop", "startup"})
  <2>1. IsFiniteSet({"loop"})
    BY FS_Singleton
  <2>2. IsFiniteSet({"loop"} \cup {"startup"})
    BY <2>1, FS_AddElement
  <2>3. {"loop", "startup"} = {"loop"} \cup {"startup"}
    OBVIOUS
  <2> QED
    BY <2>2, <2>3
<1> QED
  BY <1>1, PollersAssumption, FS_Subset

LEMMA CountsAreNat ==
    ASSUME NEW d, NEW a
    PROVE  /\ IsFiniteSet(PollersWith(d, a)) /\ Cardinality(PollersWith(d, a)) \in Nat
           /\ IsFiniteSet(WorkersWith(d, a)) /\ Cardinality(WorkersWith(d, a)) \in Nat
  BY PollersFinite, FiniteAssumption, FS_Subset, FS_CardinalityType DEF PollersWith, WorkersWith

\* A finite set in which at most the membership of x changes.
LEMMA OneMember ==
    ASSUME NEW S, IsFiniteSet(S), NEW T, NEW x, S \ {x} = T \ {x}
    PROVE  Cardinality(T) = Cardinality(S) - One(x \in S) + One(x \in T)
<1>1. Cardinality(S) \in Nat
  BY FS_CardinalityType
<1>2. CASE x \in S /\ x \in T
  <2>1. S = T
    BY <1>2
  <2> QED
    BY <1>1, <1>2, <2>1 DEF One
<1>3. CASE x \in S /\ x \notin T
  <2>1. T = S \ {x}
    BY <1>3
  <2>2. Cardinality(T) = Cardinality(S) - 1
    BY <1>3, <2>1, FS_RemoveElement
  <2> QED
    BY <1>1, <1>3, <2>2 DEF One
<1>4. CASE x \notin S /\ x \in T
  <2>1. T = S \cup {x}
    BY <1>4
  <2>2. Cardinality(T) = Cardinality(S) + 1
    BY <1>4, <2>1, FS_AddElement
  <2> QED
    BY <1>1, <1>4, <2>2 DEF One
<1>5. CASE x \notin S /\ x \notin T
  <2>1. S = T
    BY <1>5
  <2> QED
    BY <1>1, <1>5, <2>1 DEF One
<1> QED
  BY <1>2, <1>3, <1>4, <1>5

LEMMA PollerCount ==
    ASSUME Types, NEW d \in Dispatchers, NEW k \in PollerKinds, NEW p, SetPoller(d, k, p),
           NEW e \in Dispatchers, NEW a
    PROVE  Cardinality(PollersWith(e, a))'
           = IF e = d THEN Cardinality(PollersWith(e, a)) - One(PollerHas(poller[d][k], a))
                                                          + One(PollerHas(p, a))
             ELSE Cardinality(PollersWith(e, a))
<1>1. \A l \in PollerKinds : poller'[e][l] = IF e = d /\ l = k THEN p ELSE poller[e][l]
  BY SetPollerIs DEF Types
<1>2. PICK S, T : S = PollersWith(e, a) /\ T = PollersWith(e, a)'
  OBVIOUS
<1>3. CASE e # d
  BY <1>1, <1>3 DEF PollersWith
<1>4. CASE e = d
  <2>1. S \ {k} = T \ {k}
    BY <1>1, <1>2, <1>4 DEF PollersWith
  <2>2. (k \in S <=> PollerHas(poller[d][k], a)) /\ (k \in T <=> PollerHas(p, a))
    BY <1>1, <1>2, <1>4 DEF PollersWith
  <2>3. Cardinality(T) = Cardinality(S) - One(k \in S) + One(k \in T)
    BY <1>2, <2>1, OneMember, CountsAreNat
  <2> QED
    BY <1>2, <1>4, <2>2, <2>3 DEF One
<1> QED
  BY <1>3, <1>4

LEMMA WorkerCount ==
    ASSUME Types, NEW d \in Dispatchers, NEW t \in Tokens, NEW w, SetWorker(d, t, w),
           NEW e \in Dispatchers, NEW a
    PROVE  Cardinality(WorkersWith(e, a))'
           = IF e = d THEN Cardinality(WorkersWith(e, a)) - One(WorkerHas(worker[d][t], a))
                                                          + One(WorkerHas(w, a))
             ELSE Cardinality(WorkersWith(e, a))
<1>1. \A u \in Tokens : worker'[e][u] = IF e = d /\ u = t THEN w ELSE worker[e][u]
  BY SetWorkerIs DEF Types
<1>2. PICK S, T : S = WorkersWith(e, a) /\ T = WorkersWith(e, a)'
  OBVIOUS
<1>3. CASE e # d
  BY <1>1, <1>3 DEF WorkersWith
<1>4. CASE e = d
  <2>1. S \ {t} = T \ {t}
    BY <1>1, <1>2, <1>4 DEF WorkersWith
  <2>2. (t \in S <=> WorkerHas(worker[d][t], a)) /\ (t \in T <=> WorkerHas(w, a))
    BY <1>1, <1>2, <1>4 DEF WorkersWith
  <2>3. Cardinality(T) = Cardinality(S) - One(t \in S) + One(t \in T)
    BY <1>2, <2>1, OneMember, CountsAreNat
  <2> QED
    BY <1>2, <1>4, <2>2, <2>3 DEF One
<1> QED
  BY <1>3, <1>4

Slots == PerAppCap > 0 => \A d \in Dispatchers, a \in Apps : Counted(d, a)

LEMMA SamePollersAndWorkers ==
    ASSUME Slots, UNCHANGED <<appInFly, poller, worker>>
    PROVE  Slots'
  BY DEF Slots, Counted, Count, PollersWith, WorkersWith

\* A step that takes no slot and gives none back.
LEMMA PollerKeeps ==
    ASSUME Types, Slots, NEW d \in Dispatchers, NEW k \in PollerKinds, NEW p,
           SetPoller(d, k, p), UNCHANGED <<appInFly, worker>>,
           \A a \in Apps : PollerHas(p, a) <=> PollerHas(poller[d][k], a)
    PROVE  Slots'
<1> SUFFICES ASSUME PerAppCap > 0, NEW e \in Dispatchers, NEW a \in Apps
             PROVE  Counted(e, a)'
  BY DEF Slots
<1>1. One(PollerHas(p, a)) = One(PollerHas(poller[d][k], a)) /\ One(PollerHas(p, a)) \in {0, 1}
  BY DEF One
<1>2. Cardinality(PollersWith(e, a))' = Cardinality(PollersWith(e, a))
  BY <1>1, PollerCount, CountsAreNat
<1>3. WorkersWith(e, a)' = WorkersWith(e, a)
  BY DEF WorkersWith
<1>4. Count(e, a)' = Count(e, a)
  BY <1>2, <1>3 DEF Count
<1> QED
  BY <1>4 DEF Slots, Counted

LEMMA WorkerKeeps ==
    ASSUME Types, Slots, NEW d \in Dispatchers, NEW t \in Tokens, NEW w,
           SetWorker(d, t, w), UNCHANGED <<appInFly, poller>>,
           \A a \in Apps : WorkerHas(w, a) <=> WorkerHas(worker[d][t], a)
    PROVE  Slots'
<1> SUFFICES ASSUME PerAppCap > 0, NEW e \in Dispatchers, NEW a \in Apps
             PROVE  Counted(e, a)'
  BY DEF Slots
<1>1. One(WorkerHas(w, a)) = One(WorkerHas(worker[d][t], a)) /\ One(WorkerHas(w, a)) \in {0, 1}
  BY DEF One
<1>2. Cardinality(WorkersWith(e, a))' = Cardinality(WorkersWith(e, a))
  BY <1>1, WorkerCount, CountsAreNat
<1>3. PollersWith(e, a)' = PollersWith(e, a)
  BY DEF PollersWith
<1>4. Count(e, a)' = Count(e, a)
  BY <1>2, <1>3 DEF Count
<1> QED
  BY <1>4 DEF Slots, Counted

\* releaseAppSlot lowers the counter of the job's application, which counts the
\* slot that is given back.
LEMMA ReleaseLowers ==
    ASSUME Types, Slots, PerAppCap > 0, NEW d \in Dispatchers, NEW j \in Jobs,
           appInFly' = Released(d, j), Count(d, AppOf[j]) > 0
    PROVE  \A e \in Dispatchers, a \in Apps :
              appInFly'[e][a] = appInFly[e][a] - (IF e = d /\ a = AppOf[j] THEN 1 ELSE 0)
<1>1. AppOf[j] \in Apps /\ appInFly \in [Dispatchers -> [Apps -> Nat]]
  BY JobsAssumption DEF Types, SlotTypes
<1>2. appInFly[d][AppOf[j]] > 0
  BY <1>1 DEF Slots, Counted
<1>3. appInFly' = [appInFly EXCEPT ![d][AppOf[j]] = IF @ > 1 THEN @ - 1 ELSE 0]
  BY CapAssumption DEF Released
<1>4. (IF appInFly[d][AppOf[j]] > 1 THEN appInFly[d][AppOf[j]] - 1 ELSE 0)
      = appInFly[d][AppOf[j]] - 1
  BY <1>1, <1>2
<1> QED
  BY <1>1, <1>3, <1>4

LEMMA InitSlots == Init => Slots
<1> SUFFICES ASSUME Init, PerAppCap > 0, NEW d \in Dispatchers, NEW a \in Apps
             PROVE  Counted(d, a)
  BY DEF Slots
<1>1. PollersWith(d, a) = {} /\ WorkersWith(d, a) = {}
  BY DEF Init, PollersWith, PollerHas, WorkersWith, WorkerHas, Resting, Idle
<1>2. Count(d, a) = 0
  BY <1>1, FS_EmptySet DEF Count
<1> QED
  BY <1>2, CapAssumption DEF Init, Counted

LEMMA ReserveSlots ==
    ASSUME Types, Slots, NEW d \in Dispatchers, NEW k \in PollerKinds, PollReserve(d, k)
    PROVE  Slots'
<1> DEFINE p == poller[d][k]
<1>1. p \in PollerRecord /\ Head(p.todo) \in Jobs
  BY DEF Types, PollerTypes, PollReserve, PollerRecord
<1>2. PICK j \in Jobs : j = Head(p.todo)
  BY <1>1
<1>3. CASE AppOf[j] \in OpenApps(d)
  <2> DEFINE q == [p EXCEPT !.pc = "claim", !.todo = Tail(@), !.cur = j]
  <2>1. /\ SetPoller(d, k, q) /\ UNCHANGED worker
        /\ appInFly' = IF PerAppCap = 0 THEN appInFly
                       ELSE [appInFly EXCEPT ![d][AppOf[j]] = @ + 1]
    BY <1>2, <1>3 DEF PollReserve
  <2>2. \A a : /\ PollerHas(q, a) <=> a = AppOf[j]
               /\ ~PollerHas(p, a)
    BY <1>1 DEF PollReserve, PollerHas, PollerRecord
  <2>3. SUFFICES ASSUME PerAppCap > 0, NEW e \in Dispatchers, NEW a \in Apps
                 PROVE  Counted(e, a)'
    BY DEF Slots
  <2>4. Cardinality(PollersWith(e, a))' = Cardinality(PollersWith(e, a))
                                          + (IF e = d /\ a = AppOf[j] THEN 1 ELSE 0)
    <3>1. One(PollerHas(p, a)) = 0 /\ One(PollerHas(q, a)) = IF a = AppOf[j] THEN 1 ELSE 0
      BY <2>2 DEF One
    <3> HIDE DEF q
    <3> QED
      BY <2>1, <3>1, PollerCount, CountsAreNat
  <2>5. WorkersWith(e, a)' = WorkersWith(e, a)
    BY <2>1 DEF WorkersWith
  <2>6. Count(e, a)' = Count(e, a) + (IF e = d /\ a = AppOf[j] THEN 1 ELSE 0)
    BY <2>4, <2>5, CountsAreNat DEF Count
  <2>7. appInFly'[e][a] = appInFly[e][a] + (IF e = d /\ a = AppOf[j] THEN 1 ELSE 0)
    <3>1. appInFly \in [Dispatchers -> [Apps -> Nat]] /\ AppOf[j] \in Apps
      BY JobsAssumption DEF Types, SlotTypes
    <3>2. appInFly' = [appInFly EXCEPT ![d][AppOf[j]] = @ + 1]
      BY <2>1, <2>3
    <3> QED
      BY <3>1, <3>2
  <2>8. e = d /\ a = AppOf[j] => appInFly[e][a] < PerAppCap
    BY <1>3, <2>3 DEF OpenApps
  <2>9. appInFly[e][a] = Count(e, a) /\ appInFly[e][a] <= PerAppCap /\ appInFly[e][a] \in Nat
    BY <2>3 DEF Slots, Counted, Types, SlotTypes
  <2> QED
    BY <2>6, <2>7, <2>8, <2>9, CapAssumption DEF Counted
<1>4. CASE AppOf[j] \notin OpenApps(d)
  <2>1. SetPoller(d, k, [p EXCEPT !.todo = Tail(@)]) /\ UNCHANGED <<appInFly, worker>>
    BY <1>2, <1>4 DEF PollReserve
  <2>2. \A a : PollerHas([p EXCEPT !.todo = Tail(@)], a) <=> PollerHas(p, a)
    BY <1>1 DEF PollerHas, PollerRecord
  <2> QED
    BY <2>1, <2>2, PollerKeeps
<1> QED
  BY <1>3, <1>4

LEMMA DropSlots ==
    ASSUME Types, Slots, NEW d \in Dispatchers, NEW k \in PollerKinds, DropClaim(d, k)
    PROVE  Slots'
<1> DEFINE p == poller[d][k]
           q == [p EXCEPT !.pc = "reserve", !.cur = NoJob]
<1>1. p \in PollerRecord /\ p.pc = "claim" /\ p.cur \in Jobs
  BY DEF Types, PollerTypes, PollerOK, DropClaim
<1>2. PICK j \in Jobs : j = p.cur
  BY <1>1
<1>3. SetPoller(d, k, q) /\ UNCHANGED worker /\ appInFly' = Released(d, j)
  BY <1>2 DEF DropClaim
<1>4. \A a : /\ PollerHas(p, a) <=> a = AppOf[j]
             /\ ~PollerHas(q, a)
  BY <1>1, <1>2 DEF PollerHas, PollerRecord
<1> SUFFICES ASSUME PerAppCap > 0, NEW e \in Dispatchers, NEW a \in Apps
             PROVE  Counted(e, a)'
  BY DEF Slots
<1>5. Cardinality(PollersWith(e, a))' = Cardinality(PollersWith(e, a))
                                        - (IF e = d /\ a = AppOf[j] THEN 1 ELSE 0)
  <2>1. One(PollerHas(q, a)) = 0 /\ One(PollerHas(p, a)) = IF a = AppOf[j] THEN 1 ELSE 0
    BY <1>4 DEF One
  <2> HIDE DEF q
  <2> QED
    BY <1>3, <2>1, PollerCount, CountsAreNat
<1>6. WorkersWith(e, a)' = WorkersWith(e, a)
  BY <1>3 DEF WorkersWith
<1>7. Count(e, a)' = Count(e, a) - (IF e = d /\ a = AppOf[j] THEN 1 ELSE 0)
  BY <1>5, <1>6, CountsAreNat DEF Count
<1>8. Count(d, AppOf[j]) > 0
  <2>1. k \in PollersWith(d, AppOf[j])
    BY <1>4 DEF PollersWith
  <2>2. Cardinality(PollersWith(d, AppOf[j])) # 0
    BY <2>1, CountsAreNat, FS_EmptySet
  <2> QED
    BY <2>2, CountsAreNat DEF Count
<1>9. appInFly'[e][a] = appInFly[e][a] - (IF e = d /\ a = AppOf[j] THEN 1 ELSE 0)
  BY <1>3, <1>8, ReleaseLowers
<1>10. appInFly[e][a] = Count(e, a) /\ appInFly[e][a] <= PerAppCap /\ appInFly[e][a] \in Nat
  BY DEF Slots, Counted, Types, SlotTypes
<1> QED
  BY <1>7, <1>9, <1>10, CapAssumption DEF Counted

\* The handler takes the slot over from the poller.
LEMMA SpawnSlots ==
    ASSUME Types, Slots, NEW d \in Dispatchers, NEW k \in PollerKinds, PollSpawn(d, k)
    PROVE  Slots'
<1> DEFINE p == poller[d][k]
           q == [p EXCEPT !.pc = "reserve", !.cur = NoJob]
<1>1. p \in PollerRecord /\ p.pc = "spawn" /\ p.cur \in Jobs /\ UNCHANGED appInFly
  BY DEF Types, PollerTypes, PollerOK, PollSpawn
<1>2. PICK j \in Jobs : j = p.cur
  BY <1>1
<1> DEFINE v == [Idle EXCEPT !.pc = "get", !.job = j]
<1> PICK t \in Free(d) : SetWorker(d, t, v)
  BY <1>2 DEF PollSpawn
<1>3. t \in Tokens /\ worker[d][t].pc = "idle"
  BY DEF Free
<1>4. SetPoller(d, k, q)
  BY DEF PollSpawn
<1>5. \A a : /\ PollerHas(p, a) <=> a = AppOf[j]
             /\ ~PollerHas(q, a)
             /\ WorkerHas(v, a) <=> a = AppOf[j]
             /\ ~WorkerHas(worker[d][t], a)
  BY <1>1, <1>2, <1>3 DEF PollerHas, PollerRecord, WorkerHas, Idle
<1> SUFFICES ASSUME PerAppCap > 0, NEW e \in Dispatchers, NEW a \in Apps
             PROVE  Counted(e, a)'
  BY DEF Slots
<1> DEFINE given == IF e = d /\ a = AppOf[j] THEN 1 ELSE 0
<1>6. /\ One(PollerHas(p, a)) = IF a = AppOf[j] THEN 1 ELSE 0
      /\ One(WorkerHas(v, a)) = IF a = AppOf[j] THEN 1 ELSE 0
      /\ One(PollerHas(q, a)) = 0 /\ One(WorkerHas(worker[d][t], a)) = 0
  BY <1>5 DEF One
<1>7. Cardinality(PollersWith(e, a))' = Cardinality(PollersWith(e, a)) - given
  <2> HIDE DEF q
  <2> QED
    BY <1>4, <1>6, PollerCount, CountsAreNat
<1>8. Cardinality(WorkersWith(e, a))' = Cardinality(WorkersWith(e, a)) + given
  <2> HIDE DEF v
  <2> QED
    BY <1>3, <1>6, WorkerCount, CountsAreNat
<1>9. Count(e, a)' = Count(e, a)
  BY <1>7, <1>8, CountsAreNat DEF Count
<1> QED
  BY <1>1, <1>9 DEF Slots, Counted

LEMMA ReleaseSlots ==
    ASSUME Types, Slots, NEW d \in Dispatchers, NEW t \in Tokens, HandleRelease(d, t)
    PROVE  Slots'
<1> DEFINE w == worker[d][t]
<1>1. w.pc # "idle" /\ w.job \in Jobs
  BY DEF Types, WorkerTypes, WorkerOK, HandleRelease
<1>2. PICK j \in Jobs : j = w.job
  BY <1>1
<1>3. SetWorker(d, t, Idle) /\ UNCHANGED poller /\ appInFly' = Released(d, j)
  BY <1>2 DEF HandleRelease
<1>4. \A a : (WorkerHas(w, a) <=> a = AppOf[j]) /\ ~WorkerHas(Idle, a)
  BY <1>1, <1>2 DEF WorkerHas, Idle
<1> SUFFICES ASSUME PerAppCap > 0, NEW e \in Dispatchers, NEW a \in Apps
             PROVE  Counted(e, a)'
  BY DEF Slots
<1>5. Cardinality(WorkersWith(e, a))' = Cardinality(WorkersWith(e, a))
                                        - (IF e = d /\ a = AppOf[j] THEN 1 ELSE 0)
  <2>1. One(WorkerHas(Idle, a)) = 0 /\ One(WorkerHas(w, a)) = IF a = AppOf[j] THEN 1 ELSE 0
    BY <1>4 DEF One
  <2> QED
    BY <1>3, <2>1, WorkerCount, CountsAreNat
<1>6. PollersWith(e, a)' = PollersWith(e, a)
  BY <1>3 DEF PollersWith
<1>7. Count(e, a)' = Count(e, a) - (IF e = d /\ a = AppOf[j] THEN 1 ELSE 0)
  BY <1>5, <1>6, CountsAreNat DEF Count
<1>8. Count(d, AppOf[j]) > 0
  <2>1. t \in WorkersWith(d, AppOf[j])
    BY <1>4 DEF WorkersWith
  <2>2. Cardinality(WorkersWith(d, AppOf[j])) # 0
    BY <2>1, CountsAreNat, FS_EmptySet
  <2> QED
    BY <2>2, CountsAreNat DEF Count
<1>9. appInFly'[e][a] = appInFly[e][a] - (IF e = d /\ a = AppOf[j] THEN 1 ELSE 0)
  BY <1>3, <1>8, ReleaseLowers
<1>10. appInFly[e][a] = Count(e, a) /\ appInFly[e][a] <= PerAppCap /\ appInFly[e][a] \in Nat
  BY DEF Slots, Counted, Types, SlotTypes
<1> QED
  BY <1>7, <1>9, <1>10, CapAssumption DEF Counted

LEMMA PollSlots ==
    ASSUME Types, Slots, NEW d \in Dispatchers, NEW k \in PollerKinds, Poll(d, k)
    PROVE  Slots'
<1> DEFINE p == poller[d][k]
<1>t. p \in PollerRecord
  BY DEF Types, PollerTypes
<1>n. ASSUME NEW q, SetPoller(d, k, q), UNCHANGED <<appInFly, worker>>,
             p.pc \notin {"claim", "spawn"}, q.pc \notin {"claim", "spawn"}
      PROVE  Slots'
  <2>1. \A a : ~PollerHas(p, a) /\ ~PollerHas(q, a)
    BY <1>n DEF PollerHas
  <2> QED
    BY <1>n, <2>1, PollerKeeps
<1>r. ASSUME Return(d, k), UNCHANGED <<appInFly, worker>>, p.pc \notin {"claim", "spawn"}
      PROVE  Slots'
  BY <1>r, <1>n DEF Return, Resting
<1>1. CASE PollBegin(d, k)
  BY <1>1, <1>t, <1>n DEF PollBegin, PollerRecord
<1>2. CASE PollList(d, k)
  BY <1>2, <1>t, <1>n DEF PollList, PollerRecord
<1>3. CASE PollListFails(d, k)
  BY <1>3, <1>r DEF PollListFails
<1>4. CASE PollEnqueue(d, k)
  BY <1>4, <1>t, <1>n, <1>r DEF PollEnqueue, PollerRecord
<1>5. CASE PollPop(d, k)
  BY <1>5, <1>t, <1>n, <1>r DEF PollPop, PollerRecord
<1>6. CASE PollReturn(d, k)
  BY <1>6, <1>r DEF PollReturn
<1>7. CASE PollClaim(d, k)
  <2>1. \A a : PollerHas([p EXCEPT !.pc = "spawn"], a) <=> PollerHas(p, a)
    BY <1>7, <1>t DEF PollClaim, PollerHas, PollerRecord
  <2> QED
    BY <1>7, <2>1, PollerKeeps DEF PollClaim
<1>8. CASE PollClaimFails(d, k)
  BY <1>8, DropSlots DEF PollClaimFails
<1> QED
  BY <1>1, <1>2, <1>3, <1>4, <1>5, <1>6, <1>7, <1>8, ReserveSlots, SpawnSlots DEF Poll

LEMMA HandleSlots ==
    ASSUME Types, Slots, NEW d \in Dispatchers, NEW t \in Tokens, Handle(d, t)
    PROVE  Slots'
<1> DEFINE w == worker[d][t]
<1>t. w \in WorkerRecord
  BY DEF Types, WorkerTypes
<1>k. ASSUME NEW v, SetWorker(d, t, v), UNCHANGED <<appInFly, poller>>,
             w.pc # "idle", v.pc # "idle", v.job = w.job
      PROVE  Slots'
  <2>1. \A a : WorkerHas(v, a) <=> WorkerHas(w, a)
    BY <1>k DEF WorkerHas
  <2> QED
    BY <1>k, <2>1, WorkerKeeps
<1>m. ASSUME NEW mark, Finish(d, t, mark), UNCHANGED <<appInFly, poller>>, w.pc # "idle"
      PROVE  Slots'
  BY <1>m, <1>k, <1>t DEF Finish, WorkerRecord
<1>g. ASSUME NEW pc, pc # "idle", Goto(d, t, pc), UNCHANGED <<appInFly, poller>>, w.pc # "idle"
      PROVE  Slots'
  BY <1>g, <1>k, <1>t DEF Goto, WorkerRecord
<1>1. CASE HandleGet(d, t)
  <2>1. CASE \E mark : Finish(d, t, mark)
    BY <1>1, <1>m, <2>1 DEF HandleGet
  <2>2. CASE SetWorker(d, t, [w EXCEPT !.pc = "token", !.attempt = job[w.job].attempt + 1])
    BY <1>1, <1>k, <1>t, <2>2 DEF HandleGet, WorkerRecord
  <2> QED
    BY <1>1, <2>1, <2>2 DEF HandleGet
<1>2. CASE HandleGetFails(d, t)
  BY <1>2, <1>g DEF HandleGetFails
<1>3. CASE HandleToken(d, t)
  BY <1>3, <1>g, <1>m DEF HandleToken
<1>4. CASE HandleAttempt(d, t)
  BY <1>4, <1>g, <1>m DEF HandleAttempt
<1>5. CASE HandleCall(d, t)
  BY <1>5, <1>g DEF HandleCall
<1>6. ASSUME NEW r \in Answers, HandleAnswer(d, t, r)
      PROVE  Slots'
  <2>1. CASE \E mark : Finish(d, t, mark)
    BY <1>6, <1>m, <2>1 DEF HandleAnswer
  <2>2. CASE SetWorker(d, t, [w EXCEPT !.pc = "token", !.stage = RefreshStage(w.stage, r),
                                       !.attempt = w.attempt + 1])
    BY <1>6, <1>k, <1>t, <2>2 DEF HandleAnswer, WorkerRecord
  <2> QED
    BY <1>6, <2>1, <2>2 DEF HandleAnswer
<1>7. CASE HandleMark(d, t)
  BY <1>7, <1>g DEF HandleMark
<1>8. CASE HandleMarkFails(d, t)
  BY <1>8, <1>g DEF HandleMarkFails
<1> QED
  BY <1>1, <1>2, <1>3, <1>4, <1>5, <1>6, <1>7, <1>8, ReleaseSlots DEF Handle

LEMMA CrashSlots ==
    ASSUME Types, Slots, NEW d \in Dispatchers, Crash(d)
    PROVE  Slots'
<1> SUFFICES ASSUME PerAppCap > 0, NEW e \in Dispatchers, NEW a \in Apps
             PROVE  Counted(e, a)'
  BY DEF Slots
<1>1. CASE e = d
  <2>1. PollersWith(e, a)' = {} /\ WorkersWith(e, a)' = {} /\ appInFly'[e][a] = 0
    BY <1>1 DEF Crash, PollersWith, PollerHas, WorkersWith, WorkerHas, Resting, Idle,
                Types, PollerTypes, WorkerTypes, SlotTypes
  <2>2. Count(e, a)' = 0
    BY <2>1, FS_EmptySet DEF Count
  <2> QED
    BY <2>1, <2>2, CapAssumption DEF Counted
<1>2. CASE e # d
  <2>1. poller'[e] = poller[e] /\ worker'[e] = worker[e] /\ appInFly'[e] = appInFly[e]
    BY <1>2 DEF Crash, Types, PollerTypes, WorkerTypes, SlotTypes
  <2>2. Count(e, a)' = Count(e, a)
    BY <2>1 DEF Count, PollersWith, WorkersWith
  <2> QED
    BY <2>1, <2>2 DEF Slots, Counted
<1> QED
  BY <1>1, <1>2

LEMMA NextSlots ==
    ASSUME Types, Slots, [Next]_vars
    PROVE  Slots'
<1>1. CASE UNCHANGED vars
  BY <1>1, SamePollersAndWorkers DEF vars
<1>2. CASE (\E j \in Jobs : Client(j)) \/ Tick \/ \E d \in Dispatchers : Stop(d)
  BY <1>2, SamePollersAndWorkers DEF Client, EnqueueJob, CancelRead, CancelWrite, Tick, Stop
<1> QED
  BY <1>1, <1>2, PollSlots, HandleSlots, CrashSlots DEF Next

\* A dispatcher's counter of an application is exactly the number of its
\* goroutines that work for that application, never above the cap: no failed
\* claim, stopped round or handler that returns early keeps a slot or gives one
\* back twice.
THEOREM SlotsAreCounted == Spec => []AppSlotsExact
<1>1. Slots => AppSlotsExact
  BY DEF Slots, AppSlotsExact, Counted, Count, PollersWith, PollerHas, WorkersWith, WorkerHas
<1>2. Spec => []Slots
  <2>1. Spec => []Types
    BY InitTypes, NextTypes, PTL DEF Spec
  <2> QED
    BY InitSlots, NextSlots, <2>1, PTL DEF Spec
<1> QED
  BY <1>1, <1>2, PTL

----------------------------------------------------------------------------
(* The ready queue *)

QueueOK(q, index) ==
    /\ IsInjective(q) /\ ToSet(q) = index
    /\ ReadyQueueMax > 0 => Len(q) <= ReadyQueueMax

\* The queue and its index agree, and a listing that a poller is about to enter
\* has no job twice.
Queued ==
    /\ \A d \in Dispatchers : QueueOK(readyQ[d], readySet[d])
    /\ \A d \in Dispatchers, k \in PollerKinds :
          poller[d][k].pc = "enqueue" => IsInjective(poller[d][k].found)

\* A list without repetition is as long as its set is large.
LEMMA InjectiveLength ==
    ASSUME NEW T, NEW q \in Seq(T), IsInjective(q)
    PROVE  Len(q) = Cardinality(ToSet(q))
<1>1. q \in [1..Len(q) -> ToSet(q)] /\ Len(q) \in Nat /\ DOMAIN q = 1..Len(q)
  BY DEF ToSet
<1>2. q \in Bijection(1..Len(q), ToSet(q))
  <2>1. q \in Surjection(1..Len(q), ToSet(q))
    BY <1>1 DEF Surjection, ToSet
  <2>2. q \in Injection(1..Len(q), ToSet(q))
    BY <1>1 DEF Injection, IsInjective
  <2> QED
    BY <2>1, <2>2 DEF Bijection
<1>3. ExistsBijection(1..Len(q), ToSet(q))
  BY <1>2 DEF ExistsBijection
<1> QED
  BY <1>1, <1>3, FS_CountingElements

\* What is appended without repetition to what it does not hold.
LEMMA AppendedOnce ==
    ASSUME NEW T, NEW q \in Seq(T), NEW a \in Seq(T), IsInjective(q), IsInjective(a),
           \A n \in DOMAIN a : a[n] \notin ToSet(q)
    PROVE  /\ IsInjective(q \o a)
           /\ ToSet(q \o a) = ToSet(q) \cup ToSet(a)
           /\ Len(q \o a) = Len(q) + Len(a)
<1>1. /\ DOMAIN q = 1..Len(q) /\ DOMAIN a = 1..Len(a) /\ DOMAIN (q \o a) = 1..(Len(q) + Len(a))
      /\ Len(q) \in Nat /\ Len(a) \in Nat /\ Len(q \o a) = Len(q) + Len(a)
  OBVIOUS
<1>2. \A n \in 1..(Len(q) + Len(a)) :
         (q \o a)[n] = IF n <= Len(q) THEN q[n] ELSE a[n - Len(q)]
  OBVIOUS
<1>3. \A n \in 1..Len(a) : (q \o a)[n + Len(q)] = a[n]
  BY <1>1, <1>2
<1>4. ToSet(q \o a) = ToSet(q) \cup ToSet(a)
  <2>1. ASSUME NEW n \in 1..(Len(q) + Len(a))
        PROVE  (q \o a)[n] \in ToSet(q) \cup ToSet(a)
    <3>1. CASE n <= Len(q)
      BY <1>1, <1>2, <3>1 DEF ToSet
    <3>2. CASE n > Len(q)
      <4>1. n - Len(q) \in 1..Len(a) /\ (q \o a)[n] = a[n - Len(q)]
        BY <1>1, <1>2, <3>2
      <4> QED
        BY <1>1, <4>1 DEF ToSet
    <3> QED
      BY <1>1, <3>1, <3>2
  <2>2. ASSUME NEW n \in 1..Len(q)
        PROVE  q[n] \in ToSet(q \o a)
    <3>1. n \in 1..(Len(q) + Len(a)) /\ (q \o a)[n] = q[n]
      BY <1>1, <1>2
    <3> QED
      BY <1>1, <3>1 DEF ToSet
  <2>3. ASSUME NEW n \in 1..Len(a)
        PROVE  a[n] \in ToSet(q \o a)
    <3>1. n + Len(q) \in 1..(Len(q) + Len(a)) /\ (q \o a)[n + Len(q)] = a[n]
      BY <1>1, <1>3
    <3> QED
      BY <1>1, <3>1 DEF ToSet
  <2> QED
    BY <1>1, <2>1, <2>2, <2>3 DEF ToSet
<1>5. IsInjective(q \o a)
  <2> SUFFICES ASSUME NEW n \in 1..(Len(q) + Len(a)), NEW m \in 1..(Len(q) + Len(a)),
                      (q \o a)[n] = (q \o a)[m]
               PROVE  n = m
    BY <1>1 DEF IsInjective
  <2>1. CASE n <= Len(q) /\ m <= Len(q)
    BY <1>1, <1>2, <2>1 DEF IsInjective
  <2>2. CASE n > Len(q) /\ m > Len(q)
    <3>1. n - Len(q) \in 1..Len(a) /\ m - Len(q) \in 1..Len(a)
          /\ a[n - Len(q)] = a[m - Len(q)]
      BY <1>1, <1>2, <2>2
    <3>2. n - Len(q) = m - Len(q)
      BY <1>1, <3>1 DEF IsInjective
    <3> QED
      BY <1>1, <3>2
  <2>3. CASE n <= Len(q) /\ m > Len(q)
    <3>1. (q \o a)[n] \in ToSet(q)
      BY <1>1, <1>2, <2>3 DEF ToSet
    <3>2. m - Len(q) \in 1..Len(a) /\ (q \o a)[m] = a[m - Len(q)]
      BY <1>1, <1>2, <2>3
    <3> QED
      BY <1>1, <3>1, <3>2
  <2>4. CASE n > Len(q) /\ m <= Len(q)
    <3>1. (q \o a)[m] \in ToSet(q)
      BY <1>1, <1>2, <2>4 DEF ToSet
    <3>2. n - Len(q) \in 1..Len(a) /\ (q \o a)[n] = a[n - Len(q)]
      BY <1>1, <1>2, <2>4
    <3> QED
      BY <1>1, <3>1, <3>2
  <2> QED
    BY <1>1, <2>1, <2>2, <2>3, <2>4
<1> QED
  BY <1>1, <1>4, <1>5

\* enqueueReady keeps the queue and its index together and within the maximum.
LEMMA EnqueueKeeps ==
    ASSUME NEW q \in Seq(Jobs), NEW index, QueueOK(q, index),
           NEW listing \in Seq(Jobs), IsInjective(listing)
    PROVE  LET new == Admitted(q, index, listing, ReadyQueueMax)
           IN  QueueOK(q \o new, index \cup ToSet(new))
<1> DEFINE new == Admitted(q, index, listing, ReadyQueueMax)
<1>1. /\ new \in Seq(Jobs) /\ IsInjective(new)
      /\ \A n \in DOMAIN new : new[n] \notin index
      /\ ReadyQueueMax > 0 /\ Len(q) <= ReadyQueueMax => Len(q) + Len(new) <= ReadyQueueMax
  BY AdmittedFits, CapAssumption
<1> HIDE DEF new
<1>2. /\ IsInjective(q \o new) /\ ToSet(q \o new) = ToSet(q) \cup ToSet(new)
      /\ Len(q \o new) = Len(q) + Len(new)
  BY <1>1, AppendedOnce DEF QueueOK
<1>3. QueueOK(q \o new, index \cup ToSet(new))
  BY <1>1, <1>2 DEF QueueOK
<1> QED
  BY <1>3 DEF new

\* So does popReadyForDispatch.
LEMMA PopKeeps ==
    ASSUME NEW q \in Seq(Jobs), NEW index, QueueOK(q, index), NEW selected
    PROVE  QueueOK(Without(q, selected), index \ ToSet(selected))
<1>1. /\ ToSet(Without(q, selected)) = ToSet(q) \ ToSet(selected)
      /\ IsInjective(q) => IsInjective(Without(q, selected))
      /\ Len(Without(q, selected)) <= Len(q) /\ Without(q, selected) \in Seq(Jobs)
  BY WithoutLeaves
<1>2. Len(q) \in Nat /\ Len(Without(q, selected)) \in Nat
  BY <1>1
<1> QED
  BY <1>1, <1>2, CapAssumption DEF QueueOK

LEMMA InitQueued == Init => Queued
<1>1. QueueOK(<< >>, {})
  <2>1. DOMAIN << >> = {} /\ Len(<< >>) = 0
    OBVIOUS
  <2> QED
    BY <2>1, CapAssumption DEF QueueOK, IsInjective, ToSet
<1> QED
  BY <1>1 DEF Init, Queued, Resting

LEMMA PollQueued ==
    ASSUME Types, Queued, NEW d \in Dispatchers, NEW k \in PollerKinds, Poll(d, k)
    PROVE  Queued'
<1> DEFINE p == poller[d][k]
<1>t. p \in PollerRecord
  BY DEF Types, PollerTypes
<1>q. readyQ \in [Dispatchers -> Seq(Jobs)] /\ readySet \in [Dispatchers -> SUBSET Jobs]
  BY DEF Types, QueueTypes
<1>s. ASSUME NEW v, SetPoller(d, k, v), v.pc = "enqueue" => IsInjective(v.found)
      PROVE  \A e \in Dispatchers, l \in PollerKinds :
                poller'[e][l].pc = "enqueue" => IsInjective(poller'[e][l].found)
  <2>1. \A e \in Dispatchers, l \in PollerKinds :
          poller'[e][l] = IF e = d /\ l = k THEN v ELSE poller[e][l]
    BY <1>s, SetPollerIs DEF Types
  <2> QED
    BY <1>s, <2>1 DEF Queued
<1>n. ASSUME NEW v, SetPoller(d, k, v), v.pc = "enqueue" => IsInjective(v.found),
             UNCHANGED queues
      PROVE  Queued'
  <2>1. \A e \in Dispatchers, l \in PollerKinds :
          poller'[e][l].pc = "enqueue" => IsInjective(poller'[e][l].found)
    BY <1>n, <1>s
  <2> QED
    BY <1>n, <2>1 DEF Queued, queues
<1>r. ASSUME Return(d, k), UNCHANGED queues
      PROVE  Queued'
  BY <1>r, <1>n DEF Return, Resting
<1>1. CASE PollBegin(d, k)
  BY <1>1, <1>t, <1>n DEF PollBegin, PollerRecord
<1>2. CASE PollList(d, k)
  <2> PICK l \in Listings : SetPoller(d, k, [p EXCEPT !.pc = "enqueue", !.found = l])
    BY <1>2 DEF PollList
  <2>1. IsInjective([p EXCEPT !.pc = "enqueue", !.found = l].found)
    BY <1>t, ListingIsDue DEF PollerRecord
  <2> QED
    BY <1>2, <1>n, <2>1 DEF PollList
<1>3. CASE PollListFails(d, k)
  BY <1>3, <1>r DEF PollListFails
<1>4. CASE PollEnqueue(d, k)
  <2> DEFINE new == Admitted(readyQ[d], readySet[d], p.found, ReadyQueueMax)
  <2>1. CASE stopped[d]
    BY <1>4, <1>r, <2>1 DEF PollEnqueue
  <2>2. CASE ~stopped[d]
    <3>1. QueueOK(readyQ[d] \o new, readySet[d] \cup ToSet(new))
      <4>1. /\ readyQ[d] \in Seq(Jobs) /\ QueueOK(readyQ[d], readySet[d])
            /\ p.found \in Seq(Jobs) /\ IsInjective(p.found)
        BY <1>4, <1>t, <1>q DEF PollEnqueue, Queued, PollerRecord
      <4> QED
        BY <4>1, EnqueueKeeps
    <3>2. \A e \in Dispatchers, l \in PollerKinds :
            poller'[e][l].pc = "enqueue" => IsInjective(poller'[e][l].found)
      BY <1>4, <1>s, <1>t DEF PollEnqueue, Return, Resting, PollerRecord
    <3>3. /\ readyQ' = [readyQ EXCEPT ![d] = @ \o new]
          /\ readySet' = [readySet EXCEPT ![d] = @ \cup ToSet(new)]
      BY <1>4, <2>2 DEF PollEnqueue
    <3> HIDE DEF new
    <3>4. \A e \in Dispatchers : QueueOK(readyQ'[e], readySet'[e])
      BY <1>q, <3>1, <3>3 DEF Queued
    <3> QED
      BY <3>2, <3>4 DEF Queued
  <2> QED
    BY <2>1, <2>2
<1>5. CASE PollPop(d, k)
  <2> DEFINE sel == RoundRobin(readyQ[d], AppOf, OpenApps(d), p.batch)
  <2>1. QueueOK(Without(readyQ[d], sel), readySet[d] \ ToSet(sel))
    <3>1. readyQ[d] \in Seq(Jobs) /\ QueueOK(readyQ[d], readySet[d])
      BY <1>q DEF Queued
    <3> QED
      BY <3>1, PopKeeps
  <2>2. \A e \in Dispatchers, l \in PollerKinds :
          poller'[e][l].pc = "enqueue" => IsInjective(poller'[e][l].found)
    BY <1>5, <1>s, <1>t DEF PollPop, Return, Resting, PollerRecord
  <2>3. /\ readyQ' = [readyQ EXCEPT ![d] = Without(@, sel)]
        /\ readySet' = [readySet EXCEPT ![d] = @ \ ToSet(sel)]
    BY <1>5 DEF PollPop
  <2> HIDE DEF sel
  <2>4. \A e \in Dispatchers : QueueOK(readyQ'[e], readySet'[e])
    BY <1>q, <2>1, <2>3 DEF Queued
  <2> QED
    BY <2>2, <2>4 DEF Queued
<1>6. CASE PollReserve(d, k)
  BY <1>6, <1>t, <1>n DEF PollReserve, PollerRecord
<1>7. CASE PollReturn(d, k)
  BY <1>7, <1>r DEF PollReturn
<1>8. CASE PollClaim(d, k)
  BY <1>8, <1>t, <1>n DEF PollClaim, PollerRecord
<1>9. CASE PollClaimFails(d, k)
  BY <1>9, <1>t, <1>n DEF PollClaimFails, DropClaim, PollerRecord
<1>10. CASE PollSpawn(d, k)
  BY <1>10, <1>t, <1>n DEF PollSpawn, PollerRecord
<1> QED
  BY <1>1, <1>2, <1>3, <1>4, <1>5, <1>6, <1>7, <1>8, <1>9, <1>10 DEF Poll

LEMMA CrashQueued ==
    ASSUME Types, Queued, NEW d \in Dispatchers, Crash(d)
    PROVE  Queued'
<1>1. QueueOK(<< >>, {})
  <2>1. DOMAIN << >> = {} /\ Len(<< >>) = 0
    OBVIOUS
  <2> QED
    BY <2>1, CapAssumption DEF QueueOK, IsInjective, ToSet
<1>2. \A e \in Dispatchers : QueueOK(readyQ'[e], readySet'[e])
  BY <1>1 DEF Crash, Queued, Types, QueueTypes
<1>3. \A e \in Dispatchers, l \in PollerKinds :
         poller'[e][l].pc = "enqueue" => IsInjective(poller'[e][l].found)
  BY DEF Crash, Queued, Types, PollerTypes, Resting
<1> QED
  BY <1>2, <1>3 DEF Queued

LEMMA NextQueued ==
    ASSUME Types, Queued, [Next]_vars
    PROVE  Queued'
<1>1. ASSUME UNCHANGED <<queues, poller>>
      PROVE  Queued'
  BY <1>1 DEF Queued, queues
<1>2. CASE UNCHANGED vars
  BY <1>1, <1>2 DEF vars
<1>3. CASE (\E j \in Jobs : Client(j)) \/ Tick \/ \E d \in Dispatchers : Stop(d)
  BY <1>1, <1>3 DEF Client, EnqueueJob, CancelRead, CancelWrite, Tick, Stop
<1>4. ASSUME NEW d \in Dispatchers, NEW t \in Tokens, Handle(d, t)
      PROVE  Queued'
  BY <1>1, <1>4 DEF Handle, HandleGet, HandleGetFails, HandleToken, HandleAttempt, HandleCall,
                    HandleAnswer, HandleMark, HandleMarkFails, HandleRelease
<1> QED
  BY <1>2, <1>3, <1>4, PollQueued, CrashQueued DEF Next

\* The ready queue and its index hold the same jobs, none twice and no more than
\* the maximum, however the pollers of a process interleave: each of them changes
\* both under readyMu and enters only what the index does not have.
THEOREM QueueStaysConsistent == Spec => []ReadyQueueConsistent
<1>1. Types /\ Queued => ReadyQueueConsistent
  BY InjectiveLength DEF Types, QueueTypes, Queued, QueueOK, ReadyQueueConsistent
<1>2. Spec => [](Types /\ Queued)
  BY InitTypes, NextTypes, InitQueued, NextQueued, PTL DEF Spec
<1> QED
  BY <1>1, <1>2, PTL

----------------------------------------------------------------------------
(* The lifecycle of a job *)

\* What JobLifecycle sees: the status and the attempts of the rows, who calls, the
\* jobs whose row a goroutine answers for, and the cancellations under way.
HeldJobs == {j \in Jobs : Owned(j)}
Leaving  == {j \in Jobs : cancelling[j] = "queued"}

LEMMA HeldIs ==
    /\ {j \in Jobs : \E d \in Dispatchers : Holds(d, j)} = HeldJobs
    /\ {j \in Jobs : \E d \in Dispatchers : Holds(d, j)}' = HeldJobs'
  BY DEF HeldJobs, Owned, Holds, PollerOwns, WorkerOwns

LEMMA SameHeld == SameOwners => HeldJobs' = HeldJobs
  BY DEF SameOwners, HeldJobs, Owned

SameStatus   == \A j \in Jobs : job'[j].status = job[j].status
SameAttempts == \A j \in Jobs : job'[j].attempt = job[j].attempt
StatusIs(c, s) == \A j \in Jobs : job'[j].status = IF j = c THEN s ELSE job[j].status

Unseen == /\ SameStatus /\ SameAttempts /\ calls' = calls /\ HeldJobs' = HeldJobs
          /\ Leaving' = Leaving

\* What becomes of a job, in the terms of JobLifecycle.
Steps == Lifecycle!Next \/ Unseen

LEMMA Stutters ==
    Steps => [Lifecycle!Next]_<<[j \in Jobs |-> job[j].status], [j \in Jobs |-> job[j].attempt],
                                calls, {j \in Jobs : \E d \in Dispatchers : Holds(d, j)},
                                {j \in Jobs : cancelling[j] = "queued"}>>
<1>1. ASSUME Unseen
      PROVE  /\ [j \in Jobs |-> job[j].status]' = [j \in Jobs |-> job[j].status]
             /\ [j \in Jobs |-> job[j].attempt]' = [j \in Jobs |-> job[j].attempt]
             /\ {j \in Jobs : cancelling[j] = "queued"}' = {j \in Jobs : cancelling[j] = "queued"}
  BY <1>1 DEF Unseen, SameStatus, SameAttempts, Leaving
<1> QED
  BY <1>1, HeldIs DEF Steps, Unseen

LEMMA TakeSteps ==
    ASSUME NEW c \in Jobs, job[c].status = "queued", c \notin HeldJobs,
           StatusIs(c, "dispatching"), SameAttempts, calls' = calls, Leaving' = Leaving,
           HeldJobs' \in {HeldJobs, HeldJobs \cup {c}}
    PROVE  Steps
<1>1. Lifecycle!Take(c)
  BY HeldIs DEF Lifecycle!Take, Lifecycle!Become, StatusIs, SameAttempts, Leaving
<1> QED
  BY <1>1 DEF Steps, Lifecycle!Next

LEMMA DropSteps ==
    ASSUME SameStatus, SameAttempts, calls' = calls, Leaving' = Leaving, HeldJobs' \subseteq HeldJobs
    PROVE  Steps
<1>1. Lifecycle!Drop
  BY HeldIs DEF Lifecycle!Drop, SameStatus, SameAttempts, Leaving
<1> QED
  BY <1>1 DEF Steps, Lifecycle!Next

LEMMA ClientSteps ==
    ASSUME Types, Paid, NEW c \in Jobs, Client(c)
    PROVE  Steps
<1> USE DEF Types, TableTypes, Row
<1>1. HeldJobs' = HeldJobs /\ calls' = calls
  BY SameGoroutines, SameHeld DEF Client, EnqueueJob, CancelRead, CancelWrite, history
<1>2. CASE EnqueueJob(c)
  <2>1. job[c].status = "absent" /\ StatusIs(c, "queued") /\ Leaving' = Leaving
    BY <1>2 DEF EnqueueJob, NoRow, StatusIs, Leaving
  <2>2. SameAttempts
    BY <1>2, <2>1 DEF EnqueueJob, NoRow, Paid, RowPaid, SameAttempts
  <2>3. Lifecycle!Submit(c)
    BY <1>1, <2>1, <2>2, HeldIs
    DEF Lifecycle!Submit, Lifecycle!Become, StatusIs, SameAttempts, Leaving
  <2> QED
    BY <2>3 DEF Steps, Lifecycle!Next
<1>3. CASE CancelRead(c)
  <2>1. SameStatus /\ SameAttempts
    BY <1>3 DEF CancelRead, SameStatus, SameAttempts
  <2>2. CASE job[c].status = "queued"
    <3>1. Leaving' = Leaving \cup {c}
      BY <1>3, <2>2 DEF CancelRead, Leaving
    <3>2. Lifecycle!Notice(c)
      BY <1>1, <2>1, <2>2, <3>1, HeldIs DEF Lifecycle!Notice, SameStatus, SameAttempts, Leaving
    <3> QED
      BY <3>2 DEF Steps, Lifecycle!Next
  <2>3. CASE job[c].status # "queued"
    <3>1. Leaving' = Leaving
      BY <1>3, <2>3 DEF CancelRead, Leaving
    <3> QED
      BY <1>1, <2>1, <3>1 DEF Steps, Unseen
  <2> QED
    BY <2>2, <2>3
<1>4. CASE CancelWrite(c)
  <2>1. SameAttempts /\ Leaving' = Leaving \ {c}
    BY <1>4 DEF CancelWrite, SameAttempts, Leaving
  <2>2. CASE c \in Leaving
    <3>1. StatusIs(c, "cancelled")
      BY <1>4, <2>2 DEF CancelWrite, StatusIs, Leaving
    <3>2. Lifecycle!Withdraw(c)
      BY <1>1, <2>1, <2>2, <3>1, HeldIs
      DEF Lifecycle!Withdraw, Lifecycle!Become, StatusIs, SameAttempts, Leaving
    <3> QED
      BY <3>2 DEF Steps, Lifecycle!Next
  <2>3. CASE c \notin Leaving
    <3>1. SameStatus
      BY <1>4, <2>3 DEF CancelWrite, SameStatus, Leaving
    <3> QED
      BY <1>1, <2>1, <2>3, <3>1 DEF Steps, Unseen
  <2> QED
    BY <2>2, <2>3
<1> QED
  BY <1>2, <1>3, <1>4 DEF Client

LEMMA TickSteps ==
    ASSUME Types, Tick
    PROVE  Steps
<1>1. SameStatus /\ SameAttempts /\ Leaving' = Leaving
  BY DEF Tick, SameStatus, SameAttempts, Leaving, Types, TableTypes, Row
<1>2. HeldJobs' = HeldJobs /\ calls' = calls
  BY SameGoroutines, SameHeld DEF Tick, history
<1> QED
  BY <1>1, <1>2 DEF Steps, Unseen

\* A claim takes a job that nobody holds; a claim whose answer is lost leaves it
\* unheld; the goroutine start hands it on.
LEMMA PollSteps ==
    ASSUME Types, Own, NEW d \in Dispatchers, NEW k \in PollerKinds, Poll(d, k)
    PROVE  Steps
<1> DEFINE c == poller[d][k].cur
<1>1. calls' = calls /\ Leaving' = Leaving
  BY DEF Poll, PollBegin, PollList, PollListFails, PollEnqueue, PollPop, PollReserve,
         PollReturn, PollClaim, PollClaimFails, DropClaim, PollSpawn, table, history, Leaving
<1>2. ASSUME NEW j \in Jobs, job[j].status = "queued"
      PROVE  j \notin HeldJobs
  BY <1>2 DEF Own, OneOwner, HeldJobs, Owned
<1>3. ASSUME c \in Jobs, job' = [job EXCEPT ![c].status = "dispatching"]
      PROVE  StatusIs(c, "dispatching") /\ SameAttempts
  BY <1>3 DEF StatusIs, SameAttempts, Types, TableTypes, Row
<1>4. ASSUME job' = job, HeldJobs' = HeldJobs
      PROVE  Steps
  BY <1>1, <1>4 DEF Steps, Unseen, SameStatus, SameAttempts
<1>5. CASE PollClaim(d, k)
  <2>1. /\ c \in Jobs /\ job[c].status = "queued"
        /\ job' = [job EXCEPT ![c].status = "dispatching"]
    BY <1>5 DEF PollClaim, Claimable
  <2>2. \A j \in Jobs : Owned(j)' <=> Owned(j) \/ j = c
    BY <1>5, ClaimTakes DEF Owned
  <2>3. HeldJobs' = HeldJobs \cup {c}
    BY <2>1, <2>2 DEF HeldJobs
  <2> QED
    BY <1>1, <1>2, <1>3, <2>1, <2>3, TakeSteps
<1>6. CASE PollClaimFails(d, k)
  <2>1. HeldJobs' = HeldJobs
    BY <1>6, MissQuiet, SameHeld
  <2>2. CASE job' = job
    BY <1>4, <2>1, <2>2
  <2>3. CASE job' # job
    <3>1. /\ c \in Jobs /\ job[c].status = "queued"
          /\ job' = [job EXCEPT ![c].status = "dispatching"]
      BY <1>6, <2>3 DEF PollClaimFails, DropClaim, Claimable, Types, PollerTypes, PollerOK
    <3> QED
      BY <1>1, <1>2, <1>3, <2>1, <3>1, TakeSteps
  <2> QED
    BY <2>2, <2>3
<1>7. CASE PollSpawn(d, k)
  <2>1. c \in Jobs /\ PollerOwns(d, k, c) /\ \A j \in Jobs : PollerOwns(d, k, j) => j = c
    BY <1>7 DEF PollSpawn, PollerOwns, Types, PollerTypes, PollerOK
  <2>2. PICK t \in Tokens :
           /\ worker[d][t].pc = "idle"
           /\ \A e \in Dispatchers, j \in Jobs :
                 /\ \A l \in PollerKinds :
                       PollerOwns(e, l, j)' <=> PollerOwns(e, l, j) /\ ~(e = d /\ l = k)
                 /\ \A u \in Tokens :
                       WorkerOwns(e, u, j)' <=> WorkerOwns(e, u, j) \/ (e = d /\ u = t /\ j = c)
    BY <1>7, SpawnHands
  <2> HIDE DEF c
  <2>3. \A j \in Jobs : Owned(j)' <=> Owned(j)
    BY <2>1, <2>2 DEF Owned
  <2>4. HeldJobs' = HeldJobs
    BY <2>3 DEF HeldJobs
  <2> QED
    BY <1>4, <1>7, <2>4 DEF PollSpawn, table
<1>8. CASE ~(PollClaim(d, k) \/ PollClaimFails(d, k) \/ PollSpawn(d, k))
  <2>1. job' = job
    BY <1>8 DEF Poll, PollBegin, PollList, PollListFails, PollEnqueue, PollPop, PollReserve,
                PollReturn, table
  <2>2. HeldJobs' = HeldJobs
    BY <1>8, PollQuiet, SameHeld
  <2> QED
    BY <1>4, <2>1, <2>2
<1> QED
  BY <1>5, <1>6, <1>7, <1>8

\* A handler that leaves its row gives the job up.
LEMMA LeavesHeld ==
    ASSUME Types, Own, NEW d \in Dispatchers, NEW t \in Tokens, worker[d][t].pc \in Working,
           Goto(d, t, "release"), UNCHANGED poller
    PROVE  worker[d][t].job \in HeldJobs /\ HeldJobs' = HeldJobs \ {worker[d][t].job}
<1> DEFINE w == worker[d][t]
<1>1. w \in WorkerRecord /\ w.job \in Jobs
  BY DEF Types, WorkerTypes, WorkerOK, Working
<1>2. PICK r : SetWorker(d, t, r) /\ r.pc \notin Working
  <2>1. [w EXCEPT !.pc = "release"].pc \notin Working
    BY <1>1 DEF WorkerRecord, Working
  <2> QED
    BY <2>1 DEF Goto
<1>3. \A e \in Dispatchers, j \in Jobs :
         /\ \A k \in PollerKinds : PollerOwns(e, k, j)' <=> PollerOwns(e, k, j)
         /\ \A u \in Tokens : WorkerOwns(e, u, j)' <=> WorkerOwns(e, u, j) /\ ~(e = d /\ u = t)
  BY <1>2, LeavesRow
<1>4. PICK c \in Jobs : c = w.job
  BY <1>1
<1>5. WorkerOwns(d, t, c) /\ \A j \in Jobs : WorkerOwns(d, t, j) => j = c
  BY <1>4 DEF WorkerOwns
<1>6. Owned(c) /\ ~Owned(c)'
  BY <1>3, <1>5 DEF Own, OneOwner, Owned
<1>7. \A j \in Jobs : j # c => (Owned(j)' <=> Owned(j))
  BY <1>3, <1>5 DEF Owned
<1> QED
  BY <1>4, <1>6, <1>7 DEF HeldJobs

\* The attempt and the call are made by the one that holds the job, the final
\* update gives it up, and so does a failed Get or update, without the status.
LEMMA HandleSteps ==
    ASSUME Types, Own, Paid, NEW d \in Dispatchers, NEW t \in Tokens, Handle(d, t)
    PROVE  Steps
<1> DEFINE w == worker[d][t]
<1>t. w \in WorkerRecord /\ (w.pc # "idle" => w.job \in Jobs)
  BY DEF Types, WorkerTypes, WorkerOK
<1>h. w.pc \in Working => w.job \in HeldJobs
  BY <1>t DEF HeldJobs, Owned, WorkerOwns, Working
<1>1. Leaving' = Leaving
  BY DEF Handle, HandleGet, HandleGetFails, HandleToken, HandleAttempt, HandleCall, HandleAnswer,
         HandleMark, HandleMarkFails, HandleRelease, table, Leaving
<1>2. ASSUME job' = job
      PROVE  SameStatus /\ SameAttempts
  BY <1>2 DEF SameStatus, SameAttempts
<1>3. CASE HandleGetFails(d, t) \/ HandleMarkFails(d, t)
  <2>1. job' = job /\ calls' = calls
    BY <1>3 DEF HandleGetFails, HandleMarkFails, table
  <2>2. HeldJobs' = HeldJobs \ {w.job}
    BY <1>3, LeavesHeld DEF HandleGetFails, HandleMarkFails, Working
  <2> QED
    BY <1>1, <1>2, <2>1, <2>2, DropSteps
<1>4. CASE HandleMark(d, t)
  <2>1. w.job \in HeldJobs /\ HeldJobs' = HeldJobs \ {w.job} /\ calls' = calls
    BY <1>4, LeavesHeld DEF HandleMark, Working, history
  <2>2. w.job \in Jobs /\ \E s \in {"queued"} \cup Terminal : StatusIs(w.job, s) /\ SameAttempts
    BY <1>4, MarkSets DEF StatusIs, SameAttempts
  <2>3. PICK c \in Jobs : c = w.job
    BY <2>2
  <2>4. job[c].status \in {"dispatching", "cancelled"}
    BY <1>4, <2>3 DEF HandleMark, Own, OneOwner, WorkerOwns, Working
  <2> HIDE DEF w
  <2>5. Lifecycle!Settle(c)
    BY <1>1, <2>1, <2>2, <2>3, <2>4, HeldIs
    DEF Lifecycle!Settle, Lifecycle!Become, StatusIs, SameAttempts, Leaving, Terminal
  <2> QED
    BY <2>5 DEF Steps, Lifecycle!Next
<1>5. CASE ~Leaves(d, t)
  <2>1. HeldJobs' = HeldJobs
    BY <1>5, HandleQuiet, SameHeld
  <2>2. CASE HandleAttempt(d, t)
    <3>1. PICK c \in Jobs : c = w.job
      BY <1>t, <2>2 DEF HandleAttempt
    <3>2. /\ c \in HeldJobs /\ calls' = calls
          /\ job' = job \/ job' = [job EXCEPT ![c].attempt = w.attempt]
      BY <1>h, <2>2, <3>1 DEF HandleAttempt, Working, history
    <3>3. w.attempt = job[c].attempt + 1 /\ (MaxAttempts[c] > 0 => w.attempt <= MaxAttempts[c])
      BY <2>2, <3>1 DEF HandleAttempt, Paid, HandlerPaid
    <3>4. job[c].attempt \in Nat /\ MaxAttempts[c] \in Nat
      BY BudgetAssumption DEF Types, TableTypes, Row
    <3>5. CASE job' = job
      BY <1>1, <1>2, <2>1, <3>2, <3>5 DEF Steps, Unseen
    <3>6. CASE job' = [job EXCEPT ![c].attempt = w.attempt]
      <4>1. /\ SameStatus
            /\ \A j \in Jobs : job'[j].attempt = IF j = c THEN job[c].attempt + 1 ELSE job[j].attempt
        BY <3>3, <3>6 DEF SameStatus, Types, TableTypes, Row
      <4>2. MaxAttempts[c] > 0 => job[c].attempt < MaxAttempts[c]
        BY <3>3, <3>4
      <4>3. Lifecycle!Attempt(c)
        BY <1>1, <2>1, <3>2, <4>1, <4>2, HeldIs DEF Lifecycle!Attempt, SameStatus, Leaving
      <4> QED
        BY <4>3 DEF Steps, Lifecycle!Next
    <3> QED
      BY <3>2, <3>5, <3>6
  <2>3. CASE HandleCall(d, t)
    <3>1. PICK c \in Jobs : c = w.job
      BY <1>t, <2>3 DEF HandleCall
    <3>2. c \in HeldJobs /\ job' = job /\ calls' = [calls EXCEPT ![c] = @ + 1]
      BY <1>h, <2>3, <3>1 DEF HandleCall, Working, table
    <3>3. calls[c] < job[c].attempt
      BY <2>3, <3>1 DEF HandleCall, Paid, HandlerPaid
    <3>4. Lifecycle!Call(c)
      BY <1>1, <1>2, <2>1, <3>2, <3>3, HeldIs
      DEF Lifecycle!Call, SameStatus, SameAttempts, Leaving
    <3> QED
      BY <3>4 DEF Steps, Lifecycle!Next
  <2>4. CASE ~(HandleAttempt(d, t) \/ HandleCall(d, t))
    <3>1. job' = job /\ calls' = calls
      BY <1>5, <2>4 DEF Handle, Leaves, HandleGet, HandleToken, HandleAnswer, HandleRelease,
                        table, history
    <3> QED
      BY <1>1, <1>2, <2>1, <3>1 DEF Steps, Unseen
  <2> QED
    BY <2>2, <2>3, <2>4
<1> QED
  BY <1>3, <1>4, <1>5 DEF Leaves

LEMMA CrashSteps ==
    ASSUME Types, NEW d \in Dispatchers, Crash(d)
    PROVE  Steps
<1>1. SameStatus /\ SameAttempts /\ calls' = calls /\ Leaving' = Leaving
  BY DEF Crash, table, SameStatus, SameAttempts, Leaving
<1>2. ASSUME NEW e \in Dispatchers, NEW j \in Jobs
      PROVE  /\ \A k \in PollerKinds : PollerOwns(e, k, j)' => PollerOwns(e, k, j)
             /\ \A t \in Tokens : WorkerOwns(e, t, j)' => WorkerOwns(e, t, j)
  BY DEF Crash, Types, PollerTypes, WorkerTypes, PollerOwns, WorkerOwns, Resting, Idle, Working
<1>3. HeldJobs' \subseteq HeldJobs
  BY <1>2 DEF HeldJobs, Owned
<1> QED
  BY <1>1, <1>3, DropSteps

LEMMA NextSteps ==
    ASSUME Types, Own, Paid, [Next]_vars
    PROVE  Steps
<1>1. ASSUME UNCHANGED <<poller, worker, job, cancelling, calls>>
      PROVE  Steps
  <2>1. HeldJobs' = HeldJobs
    BY <1>1, SameGoroutines, SameHeld
  <2> QED
    BY <1>1, <2>1 DEF Steps, Unseen, SameStatus, SameAttempts, Leaving
<1>2. CASE UNCHANGED vars
  BY <1>1, <1>2 DEF vars, table, history
<1>3. ASSUME NEW d \in Dispatchers, Stop(d)
      PROVE  Steps
  BY <1>1, <1>3 DEF Stop, table, history
<1> QED
  BY <1>2, <1>3, ClientSteps, TickSteps, PollSteps, HandleSteps, CrashSteps DEF Next

\* Whatever the dispatchers do with queues, slots, tokens, refreshes and retries,
\* and whatever fails, what becomes of a job is what JobLifecycle says: one of them
\* holds it at a time, only that one calls its worker, for an attempt recorded
\* before, and only that one settles it.
THEOREM LifecycleImplemented == Spec => ImplementsLifecycle
<1>1. Init => Lifecycle!Init
  BY DEF Init, NoRow, Resting, Idle, Working, Holds, Lifecycle!Init
<1>2. Spec => [](Types /\ Own /\ Paid)
  BY AlwaysOwn, InitPaid, NextPaid, PTL DEF Spec
<1>3. ASSUME Types, Own, Paid, [Next]_vars
      PROVE  [Lifecycle!Next]_<<[j \in Jobs |-> job[j].status], [j \in Jobs |-> job[j].attempt],
                                calls, {j \in Jobs : \E d \in Dispatchers : Holds(d, j)},
                                {j \in Jobs : cancelling[j] = "queued"}>>
  BY <1>3, NextSteps, Stutters
<1> QED
  BY <1>1, <1>2, <1>3, PTL DEF Spec, ImplementsLifecycle, Lifecycle!Spec
=============================================================================
