-------------------------- MODULE TickedEventsProofs --------------------------
(***************************************************************************)
(* Proofs about TickedEvents, for any events, sayings, window and bounds:  *)
(* the log is the timeline, no event is presented more often than a run of *)
(* its tick said it, and what the timeline says is heard.                  *)
(*                                                                         *)
(* They rest on what Fresh returns: of an event said now times, of which   *)
(* was were heard, now - was, or none if fewer.  That is by induction on   *)
(* how much of the saying is looked at, which is put here as the least     *)
(* number it could fail for.                                               *)
(***************************************************************************)
EXTENDS TickedEvents, TLAPS, WellFoundedInduction, FiniteSetTheorems, FunctionTheorems

LEMMA LeastNumber ==
  ASSUME NEW T \in SUBSET Nat, T # {}
  PROVE  \E m \in T : \A k \in T : m <= k
<1> DEFINE R == OpToRel(<, Nat)
<1>1. IsWellFoundedOn(R, Nat)
  BY NatLessThanWellFounded
<1> HIDE DEF R
<1>2. PICK m \in T : \A k \in T : ~(<<k, m>> \in R)
  BY <1>1, WFMin
<1>3. \A k \in T : ~(k < m)
  BY <1>2 DEF R, OpToRel
<1> QED
  BY <1>2, <1>3

(* The same as a principle: a set of numbers that has zero, and the next of  *)
(* each it has, has them all.                                                *)
LEMMA AllNumbers ==
  ASSUME NEW T \in SUBSET Nat, 0 \in T, \A n \in T : n + 1 \in T
  PROVE  T = Nat
<1> SUFFICES ASSUME Nat \ T # {} PROVE FALSE
  OBVIOUS
<1>1. PICK m \in Nat \ T : \A k \in Nat \ T : m <= k
  <2>1. Nat \ T \in SUBSET Nat
    OBVIOUS
  <2> QED
    BY <2>1, LeastNumber
<1>2. m # 0 /\ m - 1 \in Nat
  BY <1>1
<1>3. m - 1 \in T
  BY <1>1, <1>2
<1> QED
  BY <1>1, <1>2, <1>3

-----------------------------------------------------------------------------
(* COUNTING *)

(* Where an event is in the first n places of a saying, and there not before *)
(* its w-th time.                                                            *)
Places(s, n, e)   == {i \in 1..n : s[i] = e}
Later(s, n, e, w) == {i \in 1..n : s[i] = e /\ Cardinality(Places(s, i, e)) > w}

LEMMA PlacesAreFinite ==
  ASSUME NEW s, NEW n \in Nat, NEW e, NEW w
  PROVE  /\ IsFiniteSet(Places(s, n, e)) /\ Cardinality(Places(s, n, e)) \in Nat
         /\ IsFiniteSet(Later(s, n, e, w)) /\ Cardinality(Later(s, n, e, w)) \in Nat
<1>1. IsFiniteSet(1..n)
  BY FS_Interval
<1> QED
  BY <1>1, FS_Subset, FS_CardinalityType DEF Places, Later

LEMMA OnePlaceMore ==
  ASSUME NEW s, NEW n \in Nat, NEW e
  PROVE  Cardinality(Places(s, n + 1, e)) =
           Cardinality(Places(s, n, e)) + (IF s[n + 1] = e THEN 1 ELSE 0)
<1>1. Places(s, n + 1, e) = IF s[n + 1] = e THEN Places(s, n, e) \cup {n + 1} ELSE Places(s, n, e)
  BY DEF Places
<1>2. n + 1 \notin Places(s, n, e)
  BY DEF Places
<1>3. IsFiniteSet(Places(s, n, e)) /\ Cardinality(Places(s, n, e)) \in Nat
  BY PlacesAreFinite
<1>4. Cardinality(Places(s, n, e) \cup {n + 1}) = Cardinality(Places(s, n, e)) + 1
  BY <1>2, <1>3, FS_AddElement
<1> QED
  BY <1>1, <1>3, <1>4

(* An event has as many places past its w-th as it has places past w.        *)
LEMMA LaterPlaces ==
  ASSUME NEW s, NEW e, NEW w \in Nat
  PROVE  \A n \in Nat :
           Cardinality(Later(s, n, e, w)) = Larger(Cardinality(Places(s, n, e)) - w, 0)
<1> DEFINE T == {n \in Nat :
                   Cardinality(Later(s, n, e, w)) = Larger(Cardinality(Places(s, n, e)) - w, 0)}
<1>1. 0 \in T
  <2>1. Later(s, 0, e, w) = {} /\ Places(s, 0, e) = {}
    BY DEF Later, Places
  <2> QED
    BY <2>1, FS_EmptySet DEF Larger
<1>2. ASSUME NEW n \in T PROVE n + 1 \in T
  <2> DEFINE c == Cardinality(Places(s, n, e))
             l == Cardinality(Later(s, n, e, w))
  <2>1. n \in Nat /\ l = Larger(c - w, 0)
    OBVIOUS
  <2>2. c \in Nat /\ l \in Nat /\ IsFiniteSet(Later(s, n, e, w))
    BY <2>1, PlacesAreFinite
  <2>3. Cardinality(Places(s, n + 1, e)) = c + (IF s[n + 1] = e THEN 1 ELSE 0)
    BY <2>1, OnePlaceMore
  <2>4. CASE s[n + 1] = e /\ c + 1 > w
    <3>1. Later(s, n + 1, e, w) = Later(s, n, e, w) \cup {n + 1}
      BY <2>1, <2>3, <2>4 DEF Later
    <3>2. n + 1 \notin Later(s, n, e, w)
      BY <2>1 DEF Later
    <3>3. Cardinality(Later(s, n + 1, e, w)) = l + 1
      BY <2>2, <3>1, <3>2, FS_AddElement
    <3> QED
      BY <2>1, <2>2, <2>3, <2>4, <3>3 DEF Larger
  <2>5. CASE ~(s[n + 1] = e /\ c + 1 > w)
    <3>1. Later(s, n + 1, e, w) = Later(s, n, e, w)
      BY <2>1, <2>3, <2>5 DEF Later
    <3> QED
      BY <2>1, <2>2, <2>3, <2>5, <3>1 DEF Larger
  <2> QED
    BY <2>4, <2>5
<1>3. T = Nat
  <2> HIDE DEF T
  <2>1. T \in SUBSET Nat
    BY DEF T
  <2> QED
    BY <1>1, <1>2, <2>1, AllNumbers
<1> QED
  BY <1>3

LEMMA CountIsPlaces ==
  ASSUME NEW s \in Seq(Event), NEW e
  PROVE  /\ Count(s, e) = Cardinality(Places(s, Len(s), e)) /\ Count(s, e) \in Nat
         /\ Count(<<>>, e) = 0
         /\ \A i \in 1..Len(s) : Nth(s, i) = Cardinality(Places(s, i, s[i]))
<1>1. {i \in DOMAIN s : s[i] = e} = Places(s, Len(s), e)
  BY DEF Places
<1>2. Len(s) \in Nat
  OBVIOUS
<1>3. {i \in DOMAIN <<>> : <<>>[i] = e} = {}
  OBVIOUS
<1>4. ASSUME NEW i \in 1..Len(s) PROVE Nth(s, i) = Cardinality(Places(s, i, s[i]))
  <2>1. {j \in DOMAIN SubSeq(s, 1, i) : SubSeq(s, 1, i)[j] = s[i]} = Places(s, i, s[i])
    BY DEF Places
  <2> QED
    BY <2>1 DEF Nth, Count
<1> QED
  BY <1>1, <1>2, <1>3, <1>4, PlacesAreFinite, FS_EmptySet DEF Count

-----------------------------------------------------------------------------
(* WHAT IS FRESH *)

Rises(f) == \A j, k \in DOMAIN f : j < k => f[j] < f[k]

(* Any places can be put in order: the last of them goes behind the others.  *)
LEMMA AnOrderExists ==
  ASSUME NEW n \in Nat, NEW S \in SUBSET (1..n)
  PROVE  \E f \in [1..Cardinality(S) -> S] : Rises(f)
<1> DEFINE T == {m \in Nat : \A I \in SUBSET (1..m) : \E f \in [1..Cardinality(I) -> I] : Rises(f)}
<1>1. 0 \in T
  <2> SUFFICES ASSUME NEW I \in SUBSET (1..0)
              PROVE  \E f \in [1..Cardinality(I) -> I] : Rises(f)
    OBVIOUS
  <2>1. I = {} /\ Cardinality(I) = 0
    <3>1. 1..0 = {}
      OBVIOUS
    <3>2. I = {}
      BY <3>1
    <3> QED
      BY <3>2, FS_EmptySet
  <2>2. [j \in 1..0 |-> 0] \in [1..Cardinality(I) -> I] /\ Rises([j \in 1..0 |-> 0])
    BY <2>1 DEF Rises
  <2> QED
    BY <2>2
<1>2. ASSUME NEW m \in T PROVE m + 1 \in T
  <2> SUFFICES ASSUME NEW I \in SUBSET (1..m + 1)
              PROVE  \E f \in [1..Cardinality(I) -> I] : Rises(f)
    OBVIOUS
  <2>1. CASE m + 1 \notin I
    <3>1. I \in SUBSET (1..m)
      BY <2>1
    <3> QED
      BY <3>1
  <2>2. CASE m + 1 \in I
    <3> DEFINE J == I \ {m + 1}
               c == Cardinality(J)
    <3>1. J \in SUBSET (1..m)
      OBVIOUS
    <3>2. IsFiniteSet(J) /\ c \in Nat
      <4>1. IsFiniteSet(1..m)
        BY FS_Interval
      <4> QED
        BY <3>1, <4>1, FS_Subset, FS_CardinalityType
    <3>3. Cardinality(I) = c + 1
      <4>1. I = J \cup {m + 1} /\ m + 1 \notin J
        BY <2>2
      <4> HIDE DEF J
      <4> QED
        BY <3>2, <4>1, FS_AddElement
    <3>4. PICK f \in [1..c -> J] : Rises(f)
      BY <3>1
    <3> DEFINE g == [j \in 1..c + 1 |-> IF j = c + 1 THEN m + 1 ELSE f[j]]
    <3>5. g \in [1..Cardinality(I) -> I]
      <4> SUFFICES ASSUME NEW j \in 1..c + 1 PROVE g[j] \in I
        BY <3>3
      <4>1. CASE j = c + 1
        BY <2>2, <4>1
      <4>2. CASE j # c + 1
        <5>1. j \in 1..c
          BY <3>2, <4>2
        <5> QED
          BY <3>4, <4>2, <5>1
      <4> QED
        BY <4>1, <4>2
    <3>6. Rises(g)
      <4> SUFFICES ASSUME NEW j \in 1..c + 1, NEW k \in 1..c + 1, j < k
                  PROVE  g[j] < g[k]
        BY DEF Rises
      <4>1. j \in 1..c /\ g[j] = f[j] /\ f[j] \in 1..m
        <5>1. j \in 1..c /\ j # c + 1
          BY <3>2
        <5>2. f[j] \in J
          BY <3>4, <5>1
        <5> QED
          BY <3>1, <5>1, <5>2
      <4>2. CASE k = c + 1
        BY <4>1, <4>2
      <4>3. CASE k # c + 1
        <5>1. k \in 1..c /\ g[k] = f[k]
          BY <3>2, <4>3
        <5> QED
          BY <3>4, <4>1, <5>1 DEF Rises
      <4> QED
        BY <4>2, <4>3
    <3> QED
      BY <3>5, <3>6
  <2> QED
    BY <2>1, <2>2
<1>3. T = Nat
  <2> HIDE DEF T
  <2>1. T \in SUBSET Nat
    BY DEF T
  <2> QED
    BY <1>1, <1>2, <2>1, AllNumbers
<1> QED
  BY <1>3

(* The order chosen goes through each of them once.                          *)
LEMMA InOrderIsBijective ==
  ASSUME NEW n \in Nat, NEW S \in SUBSET (1..n)
  PROVE  /\ IsFiniteSet(S) /\ Cardinality(S) \in Nat
         /\ InOrder(S) \in [1..Cardinality(S) -> S]
         /\ InOrder(S) \in Bijection(1..Cardinality(S), S)
<1> DEFINE c == Cardinality(S)
<1>1. IsFiniteSet(S) /\ c \in Nat
  <2>1. IsFiniteSet(1..n)
    BY FS_Interval
  <2> QED
    BY <2>1, FS_Subset, FS_CardinalityType
<1>2. InOrder(S) \in [1..c -> S] /\ Rises(InOrder(S))
  <2>1. \E f \in [1..c -> S] : \A j, k \in DOMAIN f : j < k => f[j] < f[k]
    BY AnOrderExists DEF Rises
  <2> QED
    BY <2>1 DEF InOrder, Rises
<1>3. InOrder(S) \in Injection(1..c, S)
  <2> DEFINE f == InOrder(S)
  <2>1. ASSUME NEW j \in 1..c, NEW k \in 1..c, j # k PROVE f[j] # f[k]
    <3>1. f[j] \in Int /\ f[k] \in Int
      <4>1. f[j] \in S /\ f[k] \in S
        BY <1>2
      <4>2. \A x \in S : x \in Int
        OBVIOUS
      <4> HIDE DEF f
      <4> QED
        BY <4>1, <4>2
    <3>2. j < k \/ k < j
      BY <2>1
    <3> HIDE DEF f
    <3> QED
      BY <1>2, <3>1, <3>2 DEF Rises, f
  <2> HIDE DEF f
  <2>2. f \in [1..c -> S]
    BY <1>2 DEF f
  <2> QED
    BY <2>1, <2>2 DEF Injection, IsInjective, f
<1>4. Cardinality(1..c) = c
  BY <1>1, FS_Interval
<1>5. InOrder(S) \in Surjection(1..c, S)
  BY <1>1, <1>3, <1>4, FS_Injection
<1> QED
  BY <1>1, <1>2, <1>3, <1>5 DEF Bijection

(* The reader is given, of each event, as many as are said now and were not  *)
(* given.                                                                    *)
LEMMA FreshCounts ==
  ASSUME NEW was \in Seq(Event), NEW now \in Seq(Event)
  PROVE  /\ Fresh(was, now) \in Seq(Event)
         /\ \A e : Count(Fresh(was, now), e) = Larger(Count(now, e) - Count(was, e), 0)
<1> DEFINE n == Len(now)
           U == Unheard(was, now)
           c == Cardinality(U)
           o == InOrder(U)
<1>1. n \in Nat /\ U \in SUBSET (1..n)
  BY DEF Unheard
<1>2. IsFiniteSet(U) /\ c \in Nat /\ o \in [1..c -> U] /\ o \in Bijection(1..c, U)
  BY <1>1, InOrderIsBijective
<1>3. Fresh(was, now) = [k \in 1..c |-> now[o[k]]]
  <2>1. DOMAIN o = 1..c
    BY <1>2
  <2> QED
    BY <2>1 DEF Fresh
<1>4. Fresh(was, now) \in Seq(Event)
  <2>1. ASSUME NEW k \in 1..c PROVE now[o[k]] \in Event
    <3>1. o[k] \in U
      BY <1>2
    <3> HIDE DEF o
    <3>2. o[k] \in 1..n
      BY <1>1, <3>1
    <3> QED
      BY <3>2
  <2> HIDE DEF o, c
  <2> QED
    BY <1>2, <1>3, <2>1
<1>5. ASSUME NEW e PROVE Count(Fresh(was, now), e) = Larger(Count(now, e) - Count(was, e), 0)
  <2> DEFINE K == {k \in 1..c : now[o[k]] = e}
             L == {i \in U : now[i] = e}
             g == [k \in K |-> o[k]]
  <2>1. Count(Fresh(was, now), e) = Cardinality(K)
    <3>1. DOMAIN Fresh(was, now) = 1..c /\ \A k \in 1..c : Fresh(was, now)[k] = now[o[k]]
      BY <1>3
    <3>2. {k \in DOMAIN Fresh(was, now) : Fresh(was, now)[k] = e} = K
      BY <3>1
    <3> QED
      BY <3>2 DEF Count
  <2>2. g \in Bijection(K, L)
    <3>1. /\ \A j, k \in 1..c : o[j] = o[k] => j = k
          /\ \A i \in U : \E k \in 1..c : o[k] = i
          /\ \A k \in 1..c : o[k] \in U
      <4>1. DOMAIN o = 1..c /\ o \in Injection(1..c, U) /\ o \in Surjection(1..c, U)
        BY <1>2 DEF Bijection
      <4> HIDE DEF o, U, c
      <4>2. \A j, k \in 1..c : o[j] = o[k] => j = k
        BY <4>1 DEF Injection, IsInjective
      <4>3. o \in [1..c -> U] /\ \A i \in U : \E k \in 1..c : o[k] = i
        BY <4>1 DEF Surjection
      <4> QED
        BY <4>2, <4>3
    <3> HIDE DEF o, U, c
    <3>2. g \in [K -> L]
      BY <3>1
    <3>3. g \in Injection(K, L)
      BY <3>1, <3>2 DEF Injection, IsInjective
    <3>4. \A i \in L : \E k \in K : g[k] = i
      <4> SUFFICES ASSUME NEW i \in L PROVE \E k \in K : g[k] = i
        OBVIOUS
      <4>1. PICK k \in 1..c : o[k] = i
        BY <3>1
      <4> QED
        BY <4>1
    <3>5. g \in Surjection(K, L)
      BY <3>2, <3>4 DEF Surjection
    <3> QED
      BY <3>3, <3>5 DEF Bijection
  <2>3. IsFiniteSet(K)
    <3>1. IsFiniteSet(1..c)
      BY <1>2, FS_Interval
    <3> QED
      BY <3>1, FS_Subset
  <2>4. Cardinality(K) = Cardinality(L)
    <3>1. ExistsBijection(K, L)
      BY <2>2 DEF ExistsBijection
    <3> QED
      BY <2>3, <3>1, FS_Bijection
  <2>5. L = Later(now, n, e, Count(was, e))
    <3>1. \A i \in 1..n : Nth(now, i) = Cardinality(Places(now, i, now[i]))
      BY CountIsPlaces
    <3> QED
      BY <3>1 DEF Unheard, Later
  <2>6. Count(was, e) \in Nat /\ Count(now, e) = Cardinality(Places(now, n, e))
    BY CountIsPlaces
  <2>7. Cardinality(L) = Larger(Count(now, e) - Count(was, e), 0)
    <3> HIDE DEF L, n
    <3> QED
      BY <1>1, <2>5, <2>6, LaterPlaces
  <2> QED
    BY <2>1, <2>4, <2>7
<1> QED
  BY <1>4, <1>5

(* What was given before and what is given now are counted together.         *)
LEMMA CountsAdd ==
  ASSUME NEW s \in Seq(Event), NEW r \in Seq(Event), NEW e
  PROVE  Count(s \o r, e) = Count(s, e) + Count(r, e)
<1> DEFINE n == Len(s)
           sum(m) == Cardinality(Places(s \o r, n + m, e))
           a == Cardinality(Places(s, n, e))
           b(m) == Cardinality(Places(r, m, e))
           T == {m \in Nat : m <= Len(r) => sum(m) = a + b(m)}
<1>1. /\ n \in Nat /\ Len(r) \in Nat /\ s \o r \in Seq(Event) /\ Len(s \o r) = n + Len(r)
      /\ \A m \in 1..Len(r) : (s \o r)[n + m] = r[m]
      /\ \A m \in 1..n : (s \o r)[m] = s[m]
  OBVIOUS
<1>2. a \in Nat /\ \A m \in Nat : b(m) \in Nat /\ sum(m) \in Nat
  <2> HIDE DEF n
  <2>1. a \in Nat
    BY <1>1, PlacesAreFinite
  <2>2. ASSUME NEW m \in Nat PROVE b(m) \in Nat
    BY PlacesAreFinite
  <2>3. ASSUME NEW m \in Nat PROVE sum(m) \in Nat
    <3>1. n + m \in Nat
      BY <1>1
    <3> QED
      BY <3>1, PlacesAreFinite
  <2> HIDE DEF a, b, sum
  <2> QED
    BY <2>1, <2>2, <2>3
<1>3. sum(0) = a + b(0)
  <2>1. n + 0 = n
    BY <1>1
  <2> HIDE DEF n
  <2>2. Places(s \o r, n, e) = Places(s, n, e)
    BY <1>1 DEF Places
  <2>3. b(0) = 0
    <3>1. Places(r, 0, e) = {}
      BY DEF Places
    <3> QED
      BY <3>1, FS_EmptySet
  <2> QED
    BY <1>2, <2>1, <2>2, <2>3
<1>4. ASSUME NEW m \in Nat, m + 1 <= Len(r) PROVE sum(m + 1) = a + b(m + 1) <=> sum(m) = a + b(m)
  <2> HIDE DEF n
  <2>1. n + m \in Nat /\ n + (m + 1) = (n + m) + 1 /\ m + 1 \in 1..Len(r)
    BY <1>1, <1>4
  <2> DEFINE d == IF r[m + 1] = e THEN 1 ELSE 0
  <2>2. sum(m + 1) = sum(m) + d
    <3> DEFINE q == s \o r
    <3>1. q[(n + m) + 1] = r[m + 1]
      BY <1>1, <2>1, SMTT(30)
    <3> HIDE DEF q
    <3>2. Cardinality(Places(q, (n + m) + 1, e)) =
            Cardinality(Places(q, n + m, e)) + (IF q[(n + m) + 1] = e THEN 1 ELSE 0)
      BY <2>1, OnePlaceMore
    <3>3. Cardinality(Places(q, n + (m + 1), e)) = Cardinality(Places(q, n + m, e)) + d
      BY <2>1, <3>1, <3>2
    <3> QED
      BY <3>3 DEF q
  <2>3. b(m + 1) = b(m) + d
    BY OnePlaceMore
  <2>4. d \in Nat
    OBVIOUS
  <2>5. a \in Nat /\ b(m) \in Nat /\ sum(m) \in Nat
    BY <1>2
  <2> HIDE DEF d, sum, a, b
  <2> QED
    BY <2>2, <2>3, <2>4, <2>5, SMTT(30)
<1>5. T = Nat
  <2> HIDE DEF sum, a, b
  <2>1. 0 \in T
    BY <1>3
  <2>2. ASSUME NEW m \in T PROVE m + 1 \in T
    BY <1>1, <1>4, <2>2
  <2>3. T \in SUBSET Nat
    OBVIOUS
  <2> HIDE DEF T
  <2> QED
    BY <2>1, <2>2, <2>3, AllNumbers
<1>6. sum(Len(r)) = a + b(Len(r))
  <2> HIDE DEF sum, a, b
  <2>1. Len(r) \in T
    BY <1>1, <1>5
  <2> QED
    BY <1>1, <2>1
<1>7. Count(s \o r, e) = sum(Len(r)) /\ Count(s, e) = a /\ Count(r, e) = b(Len(r))
  BY <1>1, CountIsPlaces
<1> QED
  BY <1>6, <1>7

-----------------------------------------------------------------------------
(* THE RECORDS *)

LEMMA PutAt ==
  ASSUME NEW f, NEW k, NEW v
  PROVE  /\ DOMAIN Put(f, k, v) = DOMAIN f \cup {k}
         /\ \A x : At(Put(f, k, v), x) = IF x = k THEN v ELSE At(f, x)
         /\ \A x \in DOMAIN f \cup {k} : Put(f, k, v)[x] = IF x = k THEN v ELSE f[x]
BY DEF Put, At

LEMMA KeepAt ==
  ASSUME NEW f, NEW t
  PROVE  /\ DOMAIN KeepTo(f, t) = {u \in DOMAIN f : u <= t}
         /\ DOMAIN KeepFrom(f, t) = {u \in DOMAIN f : u >= t}
         /\ \A u \in DOMAIN f : u <= t => KeepTo(f, t)[u] = f[u]
         /\ \A u \in DOMAIN f : u >= t => KeepFrom(f, t)[u] = f[u]
BY DEF KeepTo, KeepFrom, RestrictDomain, Restrict

(* What a tick that was never said yet leaves in the log: whether the last   *)
(* write was of it makes no difference.                                      *)
LEMMA WrittenIsSaid ==
  ASSUME NEW f, NEW t, NEW events \in Seq(Event), t \notin DOMAIN f
  PROVE  /\ DOMAIN Written(f, t, events) \subseteq DOMAIN f \cup {t}
         /\ DOMAIN f \subseteq DOMAIN Written(f, t, events)
         /\ At(Written(f, t, events), t) = events
         /\ \A x \in DOMAIN f : Written(f, t, events)[x] = f[x]
<1>1. (IF writing = t THEN At(f, t) ELSE <<>>) = <<>>
  BY DEF At
<1>2. CASE events = <<>>
  BY <1>2 DEF Written, At
<1>3. CASE events # <<>>
  <2>1. Written(f, t, events) = Put(f, t, <<>> \o events)
    BY <1>1, <1>3 DEF Written
  <2>2. <<>> \o events = events
    OBVIOUS
  <2>3. Written(f, t, events) = Put(f, t, events)
    BY <2>1, <2>2
  <2>4. /\ DOMAIN Put(f, t, events) = DOMAIN f \cup {t} /\ At(Put(f, t, events), t) = events
        /\ \A x \in DOMAIN f : Put(f, t, events)[x] = f[x]
    BY DEF Put, At
  <2> QED
    BY <2>3, <2>4
<1> QED
  BY <1>2, <1>3

-----------------------------------------------------------------------------
(* THE INVARIANT *)

TimesOK ==
  /\ clock \in Nat /\ presented \in Nat /\ presented <= clock /\ clock <= MaxTick
  /\ writing \in Tick \cup {None} /\ moves \in 0..MaxMoves

SayingsOK(f) == DOMAIN f \subseteq Tick /\ \A t \in DOMAIN f : f[t] \in Seq(Event)

CountsOK == told \in [Tick -> [Event -> Nat]] /\ most \in [Tick -> [Event -> Nat]]

(* What was said is kept without a gap up to the clock: a rollback has said *)
(* everything it takes back.                                                *)
SaidToTheClock ==
  /\ \A t \in DOMAIN said : 1 <= t /\ t <= clock
  /\ \A t \in DOMAIN said, u \in Nat : t <= u /\ u <= clock => u \in DOMAIN said
  /\ clock > 0 => clock \in DOMAIN said

LogIsOfTheSaid ==
  /\ DOMAIN log \subseteq DOMAIN said
  /\ \A t \in DOMAIN said : At(log, t) = said[t]

(* What was heard of a tick, and kept, is what its reader was told of it, as *)
(* long as the tick can be said again.                                       *)
HeardIsTold ==
  \A t \in Tick : t \in DOMAIN said \/ t > clock =>
    \A e \in Event : told[t][e] = Count(At(heard, t), e)

SaidIsCounted == \A t \in DOMAIN said, e \in Event : Count(said[t], e) <= most[t][e]

(* Neither record spans more than the window: what is heard ahead of the    *)
(* clock lies within a window of the oldest tick that can be gone back to.  *)
WithinAWindow ==
  /\ \A t, u \in DOMAIN said \cup DOMAIN heard : u <= t + Window
  /\ clock = 0 => \A u \in DOMAIN heard : u <= Window + 1
  /\ \A u \in DOMAIN heard : u >= 1

Records ==
  /\ TimesOK /\ SayingsOK(log) /\ SayingsOK(heard) /\ SayingsOK(said) /\ CountsOK
  /\ SaidToTheClock /\ LogIsOfTheSaid

IInv == Records /\ HeardIsTold /\ SaidIsCounted /\ NeverTwice /\ TruthIsHeard /\ WithinAWindow

LEMMA PrunedAt ==
  ASSUME NEW f, NEW o
  PROVE  /\ DOMAIN Pruned(f, o) = {u \in DOMAIN f : o > 0 => u >= o}
         /\ \A u \in DOMAIN Pruned(f, o) : Pruned(f, o)[u] = f[u]
<1>1. CASE o > 0
  <2>1. Pruned(f, o) = KeepFrom(f, o)
    BY <1>1 DEF Pruned
  <2>2. /\ DOMAIN KeepFrom(f, o) = {u \in DOMAIN f : u >= o}
        /\ \A u \in DOMAIN f : u >= o => KeepFrom(f, o)[u] = f[u]
    BY KeepAt
  <2> QED
    BY <1>1, <2>1, <2>2
<1>2. CASE ~(o > 0)
  BY <1>2 DEF Pruned
<1> QED
  BY <1>1, <1>2

LEMMA InitInv == Init => IInv
<1> SUFFICES ASSUME Init PROVE IInv
  OBVIOUS
<1> USE EventsAssumption DEF Init, Tick
<1>1. DOMAIN <<>> = {}
  OBVIOUS
<1>2. Records
  BY <1>1 DEF Records, TimesOK, SayingsOK, CountsOK, SaidToTheClock, LogIsOfTheSaid
<1>3. HeardIsTold
  <2> SUFFICES ASSUME NEW t \in Tick, NEW e \in Event PROVE told[t][e] = Count(At(heard, t), e)
    BY DEF HeardIsTold
  <2>1. At(heard, t) = <<>>
    BY <1>1 DEF At
  <2>2. Count(<<>>, e) = 0
    <3>1. <<>> \in Seq(Event)
      OBVIOUS
    <3> QED
      BY <3>1, CountIsPlaces
  <2> QED
    BY <2>1, <2>2
<1>4. SaidIsCounted /\ TruthIsHeard /\ WithinAWindow
  BY <1>1 DEF SaidIsCounted, TruthIsHeard, WithinAWindow
<1>5. NeverTwice
  BY DEF NeverTwice
<1> QED
  BY <1>2, <1>3, <1>4, <1>5 DEF IInv

(* A tick is run: what it says is behind what anybody was told, and ahead of *)
(* everything kept.                                                          *)
LEMMA RunTickInv ==
  ASSUME IInv, NEW events \in Said, RunTick(events)
  PROVE  IInv'
<1> DEFINE t == clock + 1
           o == t - Window
           l == Written(log, t, events)
<1> USE EventsAssumption
<1>1. /\ clock \in Nat /\ t \in Nat /\ t \in Tick /\ t \in 1..MaxTick /\ o \in Int /\ o < t
      /\ events \in Seq(Event) /\ clock' = t /\ Window \in Nat
      /\ t \notin DOMAIN said /\ t \notin DOMAIN log
  BY DEF RunTick, IInv, Records, TimesOK, Tick, SaidToTheClock, LogIsOfTheSaid
<1>2. /\ DOMAIN said' = {u \in DOMAIN said \cup {t} : u >= o}
      /\ \A u \in DOMAIN said' : said'[u] = IF u = t THEN events ELSE said[u]
  <2> DEFINE q == Put(said, t, events)
  <2>1. said' = KeepFrom(q, o)
    BY DEF RunTick
  <2>2. DOMAIN q = DOMAIN said \cup {t} /\ \A u \in DOMAIN q : q[u] = IF u = t THEN events ELSE said[u]
    BY DEF Put
  <2> HIDE DEF q
  <2>3. /\ DOMAIN KeepFrom(q, o) = {u \in DOMAIN q : u >= o}
        /\ \A u \in DOMAIN q : u >= o => KeepFrom(q, o)[u] = q[u]
    BY KeepAt
  <2> QED
    BY <2>1, <2>2, <2>3
<1>3. /\ DOMAIN log' = {u \in DOMAIN l : o > 0 => u >= o}
      /\ \A u \in DOMAIN log' : log'[u] = l[u]
  <2>1. log' = Pruned(l, o)
    BY DEF RunTick
  <2> QED
    BY <2>1, PrunedAt
<1>4. /\ DOMAIN heard' = {u \in DOMAIN heard : o > 0 => u >= o}
      /\ \A u \in DOMAIN heard' : heard'[u] = heard[u]
  <2>1. heard' = Pruned(heard, o)
    BY DEF RunTick
  <2> QED
    BY <2>1, PrunedAt
<1>5. /\ DOMAIN l \subseteq DOMAIN log \cup {t} /\ DOMAIN log \subseteq DOMAIN l
      /\ At(l, t) = events /\ \A x \in DOMAIN log : l[x] = log[x]
  BY <1>1, WrittenIsSaid
<1>6. /\ presented' = IF o > 0 THEN Larger(presented, o - 1) ELSE presented
      /\ writing' \in {writing, t} /\ told' = told /\ moves' = moves
      /\ most' = [most EXCEPT ![t] = [e \in Event |-> Larger(most[t][e], Count(events, e))]]
  BY DEF RunTick
<1> HIDE DEF t, o, l
<1>7. Records'
  <2>1. TimesOK'
    <3>1. t <= MaxTick /\ presented \in Nat /\ presented <= t
      BY <1>1 DEF IInv, Records, TimesOK, t
    <3>2. presented' \in Nat /\ presented' <= t
      BY <1>1, <1>6, <3>1 DEF Larger
    <3>3. writing' \in Tick \cup {None} /\ moves' \in 0..MaxMoves
      BY <1>1, <1>6 DEF IInv, Records, TimesOK
    <3> QED
      BY <1>1, <3>1, <3>2, <3>3 DEF TimesOK, Tick
  <2>2. SayingsOK(said)'
    BY <1>1, <1>2 DEF IInv, Records, SayingsOK
  <2>3. SayingsOK(log)'
    <3>1. ASSUME NEW u \in DOMAIN log' PROVE u \in Tick /\ log'[u] \in Seq(Event)
      <4>1. CASE u = t
        BY <1>1, <1>3, <1>5, <4>1 DEF At
      <4>2. CASE u # t
        BY <1>3, <1>5, <4>2 DEF IInv, Records, SayingsOK
      <4> QED
        BY <4>1, <4>2
    <3> QED
      BY <3>1 DEF SayingsOK
  <2>4. SayingsOK(heard)'
    BY <1>4 DEF IInv, Records, SayingsOK
  <2>5. CountsOK'
    <3>1. \A e \in Event : Larger(most[t][e], Count(events, e)) \in Nat
      BY <1>1, CountIsPlaces DEF IInv, Records, CountsOK, Larger
    <3> QED
      BY <1>1, <1>6, <3>1 DEF IInv, Records, CountsOK
  <2>6. SaidToTheClock'
    <3>1. \A u \in DOMAIN said' : 1 <= u /\ u <= t
      BY <1>1, <1>2 DEF IInv, Records, SaidToTheClock, t
    <3>2. \A u \in DOMAIN said', w \in Nat : u <= w /\ w <= t => w \in DOMAIN said'
      <4> SUFFICES ASSUME NEW u \in DOMAIN said', NEW w \in Nat, u <= w, w <= t
                  PROVE  w \in DOMAIN said'
        OBVIOUS
      <4>1. u \in Nat /\ u >= o /\ w >= o
        BY <1>1, <1>2 DEF IInv, Records, SayingsOK, Tick
      <4>2. CASE w = t
        BY <1>1, <1>2, <4>2
      <4>3. CASE w # t
        <5>1. w <= clock /\ u # t
          BY <1>1, <4>1, <4>3 DEF t
        <5>2. u \in DOMAIN said
          BY <1>2, <5>1
        <5>3. w \in DOMAIN said
          BY <5>1, <5>2 DEF IInv, Records, SaidToTheClock
        <5> QED
          BY <1>2, <4>1, <5>3
      <4> QED
        BY <4>2, <4>3
    <3>3. t \in DOMAIN said'
      BY <1>1, <1>2
    <3> QED
      BY <1>1, <3>1, <3>2, <3>3 DEF SaidToTheClock
  <2>7. LogIsOfTheSaid'
    <3>1. DOMAIN log' \subseteq DOMAIN said'
      <4> SUFFICES ASSUME NEW u \in DOMAIN log' PROVE u \in DOMAIN said'
        OBVIOUS
      <4>1. u \in DOMAIN said \cup {t} /\ (o > 0 => u >= o)
        BY <1>3, <1>5 DEF IInv, Records, LogIsOfTheSaid
      <4>2. u \in Nat
        BY <1>1, <4>1 DEF IInv, Records, SayingsOK, Tick
      <4> QED
        BY <1>1, <1>2, <4>1, <4>2
    <3>2. ASSUME NEW u \in DOMAIN said' PROVE At(log', u) = said'[u]
      <4>1. u \in DOMAIN said \cup {t} /\ u >= o
        BY <1>2
      <4>2. At(log', u) = At(l, u)
        BY <1>3, <4>1 DEF At
      <4>3. CASE u = t
        BY <1>2, <1>5, <4>2, <4>3
      <4>4. CASE u # t
        <5>1. u \in DOMAIN said /\ said'[u] = said[u] /\ At(log, u) = said[u]
          BY <1>2, <4>1, <4>4 DEF IInv, Records, LogIsOfTheSaid
        <5>2. At(l, u) = At(log, u)
          BY <1>5, <4>4 DEF At
        <5> QED
          BY <4>2, <5>1, <5>2
      <4> QED
        BY <4>3, <4>4
    <3> QED
      BY <3>1, <3>2 DEF LogIsOfTheSaid
  <2> QED
    BY <2>1, <2>2, <2>3, <2>4, <2>5, <2>6, <2>7 DEF Records
<1>8. HeardIsTold'
  <2> SUFFICES ASSUME NEW u \in Tick, u \in DOMAIN said' \/ u > t, NEW e \in Event
              PROVE  told[u][e] = Count(At(heard', u), e)
    BY <1>1, <1>6 DEF HeardIsTold, Tick
  <2>1. u \in Nat /\ u >= o
    BY <1>1, <1>2 DEF Tick
  <2>2. u \in DOMAIN said \/ u > clock
    BY <1>1, <1>2 DEF Tick, t
  <2>3. At(heard', u) = At(heard, u)
    BY <1>4, <2>1 DEF At
  <2> QED
    BY <2>2, <2>3 DEF IInv, HeardIsTold
<1>9. /\ \A e \in Event : most'[t][e] = Larger(most[t][e], Count(events, e))
      /\ \A u \in Tick : u # t => most'[u] = most[u]
  BY <1>1, <1>6 DEF IInv, Records, CountsOK
<1>10. \A u \in Tick, e \in Event : /\ most[u][e] \in Nat /\ told[u][e] \in Nat
                                 /\ most[u][e] <= most'[u][e]
  <2> SUFFICES ASSUME NEW u \in Tick, NEW e \in Event
              PROVE  /\ most[u][e] \in Nat /\ told[u][e] \in Nat
                     /\ most[u][e] <= most'[u][e]
    OBVIOUS
  <2>1. most[u][e] \in Nat /\ told[u][e] \in Nat
    BY DEF IInv, Records, CountsOK
  <2>2. CASE u = t
    <3>1. Count(events, e) \in Nat
      BY <1>1, CountIsPlaces
    <3> QED
      BY <1>9, <2>1, <2>2, <3>1 DEF Larger
  <2>3. CASE u # t
    BY <1>9, <2>1, <2>3
  <2> QED
    BY <2>1, <2>2, <2>3
<1>11. SaidIsCounted'
  <2> SUFFICES ASSUME NEW u \in DOMAIN said', NEW e \in Event
              PROVE  Count(said'[u], e) <= most'[u][e]
    BY DEF SaidIsCounted
  <2>1. CASE u = t
    <3>1. Count(events, e) \in Nat /\ most[t][e] \in Nat
      BY <1>1, <1>10, CountIsPlaces
    <3> QED
      BY <1>2, <1>9, <2>1, <3>1 DEF Larger
  <2>2. CASE u # t
    <3>1. u \in DOMAIN said /\ said'[u] = said[u] /\ u \in Tick
      BY <1>2, <2>2 DEF IInv, Records, SayingsOK
    <3> QED
      BY <1>9, <2>2, <3>1 DEF IInv, SaidIsCounted
  <2> QED
    BY <2>1, <2>2
<1>12. NeverTwice'
  <2> SUFFICES ASSUME NEW u \in Tick, NEW e \in Event PROVE told[u][e] <= most'[u][e]
    BY <1>6 DEF NeverTwice, Tick
  <2>1. told[u][e] <= most[u][e]
    BY DEF IInv, NeverTwice
  <2>2. CASE u = t
    <3>1. Count(events, e) \in Nat
      BY <1>1, CountIsPlaces
    <3> QED
      BY <1>9, <1>10, <2>1, <2>2, <3>1 DEF Larger
  <2>3. CASE u # t
    BY <1>9, <2>1, <2>3
  <2> QED
    BY <2>2, <2>3
<1>13. TruthIsHeard'
  <2> SUFFICES ASSUME NEW u \in DOMAIN said', u <= presented', NEW e \in Event
              PROVE  told[u][e] >= Count(said'[u], e)
    BY <1>6 DEF TruthIsHeard
  <2>1. u \in Nat /\ u >= o /\ presented \in Nat /\ presented < t
    BY <1>1, <1>2 DEF IInv, Records, TimesOK, SayingsOK, Tick, t
  <2>2. u <= presented
    BY <1>1, <1>6, <2>1 DEF Larger
  <2>3. u \in DOMAIN said /\ said'[u] = said[u]
    BY <1>1, <1>2, <2>1, <2>2
  <2> QED
    BY <2>2, <2>3 DEF IInv, TruthIsHeard
<1>14. WithinAWindow'
  <2>1. /\ clock \in Nat /\ clock' # 0 /\ Window > 0
        /\ \A u \in DOMAIN heard \cup DOMAIN said : u \in Nat
    BY <1>1 DEF IInv, Records, TimesOK, SayingsOK, Tick
  <2>2. \A u \in DOMAIN heard' : u \in DOMAIN heard /\ u >= 1 /\ u >= o
    BY <1>1, <1>4, <2>1 DEF IInv, WithinAWindow
  <2>3. \A u \in DOMAIN said' \cup DOMAIN heard' : u \in Nat /\ t <= u + Window
    BY <1>1, <1>2, <2>1, <2>2 DEF o
  <2>4. \A u \in DOMAIN said' \cup DOMAIN heard' : u <= t + Window
    <3> SUFFICES ASSUME NEW u \in DOMAIN said' \cup DOMAIN heard' PROVE u <= t + Window
      OBVIOUS
    <3>1. CASE u \in DOMAIN said'
      <4>1. u \in Nat /\ u <= t
        BY <1>1, <1>2, <2>3, <3>1 DEF IInv, Records, SaidToTheClock, t
      <4> QED
        BY <1>1, <4>1
    <3>2. CASE u \in DOMAIN heard' /\ clock = 0
      BY <1>1, <2>1, <2>2, <3>2 DEF IInv, WithinAWindow, t
    <3>3. CASE u \in DOMAIN heard' /\ clock # 0
      <4>1. clock \in DOMAIN said
        BY <1>1, <3>3 DEF IInv, Records, SaidToTheClock
      <4>2. u <= clock + Window
        BY <2>2, <3>3, <4>1 DEF IInv, WithinAWindow
      <4> QED
        BY <1>1, <2>1, <2>2, <3>3, <4>2 DEF t
    <3> QED
      BY <3>1, <3>2, <3>3
  <2>5. ASSUME NEW u \in DOMAIN said' \cup DOMAIN heard', NEW w \in DOMAIN said' \cup DOMAIN heard'
        PROVE  w <= u + Window
    <3>1. CASE u = t \/ w = t
      BY <2>3, <2>4, <3>1
    <3>2. CASE u # t /\ w # t
      <4>1. u \in DOMAIN said \cup DOMAIN heard /\ w \in DOMAIN said \cup DOMAIN heard
        BY <1>2, <2>2, <3>2
      <4> QED
        BY <4>1 DEF IInv, WithinAWindow
    <3> QED
      BY <3>1, <3>2
  <2> QED
    BY <2>1, <2>2, <2>5 DEF WithinAWindow
<1> QED
  BY <1>7, <1>8, <1>11, <1>12, <1>13, <1>14 DEF IInv

(* The clock goes back, to a tick from which all was said: what was heard of *)
(* the ticks taken back is kept, as is what their readers were told.         *)
LEMMA RollbackInv ==
  ASSUME IInv, NEW t \in Tick, Rollback(t)
  PROVE  IInv'
<1> USE EventsAssumption
<1>1. /\ clock \in Nat /\ t \in Nat /\ t < clock /\ clock' = t /\ clock <= MaxTick
      /\ presented \in Nat /\ presented' = Smaller(presented, t) /\ writing' = None
      /\ heard' = heard /\ told' = told /\ most' = most /\ t \in Kept
      /\ moves < MaxMoves /\ moves' = moves + 1
  BY DEF Rollback, TruncateAfter, IInv, Records, TimesOK, Tick
<1>2. /\ DOMAIN said' = {u \in DOMAIN said : u <= t}
      /\ \A u \in DOMAIN said' : said'[u] = said[u]
  <2>1. said' = KeepTo(said, t)
    BY DEF Rollback
  <2>2. /\ DOMAIN KeepTo(said, t) = {u \in DOMAIN said : u <= t}
        /\ \A u \in DOMAIN said : u <= t => KeepTo(said, t)[u] = said[u]
    BY KeepAt
  <2> QED
    BY <2>1, <2>2
<1>3. /\ DOMAIN log' = {u \in DOMAIN log : u <= t}
      /\ \A u \in DOMAIN log' : log'[u] = log[u]
  <2>1. log' = KeepTo(log, t)
    BY DEF Rollback, TruncateAfter
  <2>2. /\ DOMAIN KeepTo(log, t) = {u \in DOMAIN log : u <= t}
        /\ \A u \in DOMAIN log : u <= t => KeepTo(log, t)[u] = log[u]
    BY KeepAt
  <2> QED
    BY <2>1, <2>2
<1>4. /\ \A u \in DOMAIN said : u \in Nat /\ 1 <= u /\ u <= clock
      /\ \A u \in DOMAIN said, w \in Nat : u <= w /\ w <= clock => w \in DOMAIN said
  BY DEF IInv, Records, SayingsOK, SaidToTheClock, Tick
<1>5. t > 0 => t \in DOMAIN said
  BY <1>1 DEF Kept
<1>6. \A u \in Nat : t < u /\ u <= clock => u \in DOMAIN said
  <2>1. CASE t \in DOMAIN said
    BY <1>1, <1>4, <2>1
  <2>2. CASE t \notin DOMAIN said
    BY <1>1, <1>4, <2>2 DEF Kept
  <2> QED
    BY <2>1, <2>2
<1>7. Records'
  <2>1. TimesOK'
    <3>1. presented' \in Nat /\ presented' <= t
      BY <1>1 DEF Smaller
    <3>2. moves' \in 0..MaxMoves
      BY <1>1 DEF IInv, Records, TimesOK
    <3> QED
      BY <1>1, <3>1, <3>2 DEF TimesOK, Tick
  <2>2. SayingsOK(said)' /\ SayingsOK(log)' /\ SayingsOK(heard)'
    BY <1>1, <1>2, <1>3 DEF IInv, Records, SayingsOK
  <2>3. CountsOK'
    BY <1>1 DEF IInv, Records, CountsOK
  <2>4. SaidToTheClock'
    BY <1>1, <1>2, <1>4, <1>5 DEF SaidToTheClock
  <2>5. LogIsOfTheSaid'
    <3>1. DOMAIN log' \subseteq DOMAIN said'
      BY <1>2, <1>3 DEF IInv, Records, LogIsOfTheSaid
    <3>2. ASSUME NEW u \in DOMAIN said' PROVE At(log', u) = said'[u]
      <4>1. At(log', u) = At(log, u) /\ said'[u] = said[u] /\ u \in DOMAIN said
        BY <1>2, <1>3 DEF At
      <4> QED
        BY <4>1 DEF IInv, Records, LogIsOfTheSaid
    <3> QED
      BY <3>1, <3>2 DEF LogIsOfTheSaid
  <2> QED
    BY <2>1, <2>2, <2>3, <2>4, <2>5 DEF Records
<1>8. HeardIsTold'
  <2> SUFFICES ASSUME NEW u \in Tick, u \in DOMAIN said' \/ u > t, NEW e \in Event
              PROVE  told[u][e] = Count(At(heard, u), e)
    BY <1>1 DEF HeardIsTold, Tick
  <2>1. u \in DOMAIN said \/ u > clock
    BY <1>1, <1>2, <1>6 DEF Tick
  <2> QED
    BY <2>1 DEF IInv, HeardIsTold
<1>9. SaidIsCounted' /\ NeverTwice'
  BY <1>1, <1>2 DEF IInv, SaidIsCounted, NeverTwice, Tick
<1>10. TruthIsHeard'
  <2> SUFFICES ASSUME NEW u \in DOMAIN said', u <= presented', NEW e \in Event
              PROVE  told[u][e] >= Count(said'[u], e)
    BY <1>1 DEF TruthIsHeard
  <2>1. u \in DOMAIN said /\ said'[u] = said[u] /\ u <= presented
    BY <1>1, <1>2, <1>4 DEF Smaller
  <2> QED
    BY <2>1 DEF IInv, TruthIsHeard
<1>11. WithinAWindow'
  <2>1. \A u \in DOMAIN said' \cup DOMAIN heard' : u \in DOMAIN said \cup DOMAIN heard
    BY <1>1, <1>2
  <2>2. ASSUME clock' = 0, NEW u \in DOMAIN heard' PROVE u <= Window + 1
    <3>1. 1 \in DOMAIN said
      BY <1>1, <1>6, <2>2
    <3>2. u <= 1 + Window
      BY <1>1, <3>1 DEF IInv, WithinAWindow
    <3> QED
      BY <3>2
  <2> QED
    BY <1>1, <2>1, <2>2 DEF IInv, WithinAWindow
<1> QED
  BY <1>7, <1>8, <1>9, <1>10, <1>11 DEF IInv

(* A door begins everything anew.                                            *)
LEMMA DoorInv ==
  ASSUME IInv, Door
  PROVE  IInv'
<1> USE EventsAssumption DEF Tick
<1>1. /\ clock' = 0 /\ log' = <<>> /\ heard' = <<>> /\ presented' = 0 /\ writing' = None
      /\ said' = <<>> /\ moves' = moves + 1 /\ moves < MaxMoves /\ moves \in 0..MaxMoves
      /\ told' = [t \in Tick |-> [e \in Event |-> 0]]
      /\ most' = [t \in Tick |-> [e \in Event |-> 0]]
  BY DEF Door, IInv, Records, TimesOK
<1>2. DOMAIN log' = {} /\ DOMAIN heard' = {} /\ DOMAIN said' = {}
  BY <1>1
<1>3. Records'
  <2>1. TimesOK'
    BY <1>1 DEF TimesOK
  <2>2. SayingsOK(said)' /\ SayingsOK(log)' /\ SayingsOK(heard)'
    BY <1>2 DEF SayingsOK
  <2>3. CountsOK'
    BY <1>1 DEF CountsOK
  <2>4. SaidToTheClock' /\ LogIsOfTheSaid'
    BY <1>1, <1>2 DEF SaidToTheClock, LogIsOfTheSaid
  <2> QED
    BY <2>1, <2>2, <2>3, <2>4 DEF Records
<1>4. HeardIsTold'
  <2> SUFFICES ASSUME NEW t \in Tick, NEW e \in Event PROVE told'[t][e] = Count(At(heard', t), e)
    BY DEF HeardIsTold
  <2>1. At(heard', t) = <<>>
    BY <1>2 DEF At
  <2>2. Count(<<>>, e) = 0
    <3>1. <<>> \in Seq(Event)
      OBVIOUS
    <3> QED
      BY <3>1, CountIsPlaces
  <2> QED
    BY <1>1, <2>1, <2>2
<1>5. SaidIsCounted' /\ TruthIsHeard' /\ WithinAWindow'
  BY <1>2 DEF SaidIsCounted, TruthIsHeard, WithinAWindow
<1>6. NeverTwice'
  BY <1>1 DEF NeverTwice
<1> QED
  BY <1>3, <1>4, <1>5, <1>6 DEF IInv

(* The reader is given what is due: of each event of each tick it comes to   *)
(* have been told the greater of what it was told and what is said.          *)
LEMMA ReadInv ==
  ASSUME IInv, Read
  PROVE  IInv'
<1> DEFINE due == DOMAIN log \cap (presented + 1)..clock
           new == [t \in due |-> Fresh(At(heard, t), log[t])]
<1> USE EventsAssumption
<1>1. /\ clock \in Nat /\ presented \in Nat /\ presented <= clock /\ ~(presented > clock)
      /\ clock <= MaxTick
  BY DEF IInv, Records, TimesOK
<1>2. /\ log' = log /\ presented' = clock /\ writing' = writing
      /\ clock' = clock /\ said' = said /\ most' = most /\ moves' = moves
      /\ heard' = [t \in DOMAIN heard \cup due |->
                      IF t \in due THEN At(heard, t) \o new[t] ELSE heard[t]]
      /\ told' = [t \in Tick |-> [e \in Event |->
                     told[t][e] + (IF t \in due THEN Count(new[t], e) ELSE 0)]]
  BY <1>1 DEF Read
<1>3. \A t \in Tick : At(heard, t) \in Seq(Event)
  <2>1. <<>> \in Seq(Event)
    OBVIOUS
  <2> QED
    BY <2>1 DEF IInv, Records, SayingsOK, At
<1>4. ASSUME NEW t \in due
      PROVE  /\ t \in Tick /\ t \in DOMAIN said /\ log[t] = said[t] /\ said[t] \in Seq(Event)
             /\ new[t] \in Seq(Event)
             /\ \A e \in Event : Count(new[t], e) = Larger(Count(said[t], e) - told[t][e], 0)
  <2>1. t \in Tick /\ t \in DOMAIN said
    BY DEF IInv, Records, LogIsOfTheSaid, SayingsOK
  <2>2. log[t] = said[t] /\ said[t] \in Seq(Event)
    BY <2>1 DEF IInv, Records, LogIsOfTheSaid, SayingsOK, At
  <2>3. new[t] = Fresh(At(heard, t), said[t])
    BY <2>2
  <2>4. /\ Fresh(At(heard, t), said[t]) \in Seq(Event)
        /\ \A e \in Event : Count(Fresh(At(heard, t), said[t]), e) =
             Larger(Count(said[t], e) - Count(At(heard, t), e), 0)
    BY <1>3, <2>1, <2>2, FreshCounts
  <2>5. \A e \in Event : told[t][e] = Count(At(heard, t), e)
    BY <2>1 DEF IInv, HeardIsTold
  <2> QED
    BY <2>1, <2>2, <2>3, <2>4, <2>5
<1> HIDE DEF new
<1>5. ASSUME NEW t \in Tick, NEW e \in Event
      PROVE  /\ told[t][e] \in Nat
             /\ told'[t][e] = IF t \in due THEN Larger(Count(said[t], e), told[t][e]) ELSE told[t][e]
  <2>1. told[t][e] \in Nat
    BY DEF IInv, Records, CountsOK
  <2>2. told'[t][e] = told[t][e] + (IF t \in due THEN Count(new[t], e) ELSE 0)
    BY <1>2
  <2>3. CASE t \in due
    <3>1. Count(said[t], e) \in Nat
      BY <1>4, <2>3, CountIsPlaces
    <3>2. Count(new[t], e) = Larger(Count(said[t], e) - told[t][e], 0)
      BY <1>4, <2>3
    <3> QED
      BY <2>1, <2>2, <2>3, <3>1, <3>2 DEF Larger
  <2>4. CASE t \notin due
    BY <2>1, <2>2, <2>4
  <2> QED
    BY <2>1, <2>3, <2>4
<1>6. \A t \in due, e \in Event : Count(said[t], e) \in Nat
  BY <1>4, CountIsPlaces
<1>7. Records'
  <2>1. TimesOK'
    BY <1>1, <1>2 DEF IInv, Records, TimesOK, Tick
  <2>2. SayingsOK(log)' /\ SayingsOK(said)' /\ SaidToTheClock' /\ LogIsOfTheSaid'
    BY <1>2 DEF IInv, Records, SayingsOK, SaidToTheClock, LogIsOfTheSaid, At, Tick
  <2>3. SayingsOK(heard)'
    <3>1. DOMAIN heard' \subseteq Tick
      BY <1>2, <1>4 DEF IInv, Records, SayingsOK
    <3>2. ASSUME NEW t \in DOMAIN heard' PROVE heard'[t] \in Seq(Event)
      <4>1. CASE t \in due
        <5>1. At(heard, t) \in Seq(Event) /\ new[t] \in Seq(Event)
          BY <1>3, <1>4, <4>1
        <5>2. heard'[t] = At(heard, t) \o new[t]
          BY <1>2, <4>1
        <5> QED
          BY <5>1, <5>2
      <4>2. CASE t \notin due
        <5>1. t \in DOMAIN heard /\ heard'[t] = heard[t]
          BY <1>2, <4>2
        <5> QED
          BY <5>1 DEF IInv, Records, SayingsOK
      <4> QED
        BY <4>1, <4>2
    <3> QED
      BY <3>1, <3>2 DEF SayingsOK, Tick
  <2>4. CountsOK'
    <3>1. \A t \in Tick, e \in Event : told'[t][e] \in Nat
      BY <1>5, <1>6 DEF Larger
    <3>2. told' \in [Tick -> [Event -> Nat]]
      BY <1>2, <3>1
    <3> QED
      BY <1>2, <3>2 DEF IInv, Records, CountsOK, Tick
  <2> QED
    BY <2>1, <2>2, <2>3, <2>4 DEF Records
<1>8. HeardIsTold'
  <2> SUFFICES ASSUME NEW t \in Tick, t \in DOMAIN said \/ t > clock, NEW e \in Event
              PROVE  told'[t][e] = Count(At(heard', t), e)
    BY <1>2 DEF HeardIsTold, Tick
  <2>1. told[t][e] = Count(At(heard, t), e)
    BY DEF IInv, HeardIsTold
  <2>2. CASE t \in due
    <3>1. At(heard, t) \in Seq(Event) /\ new[t] \in Seq(Event)
      BY <1>3, <1>4, <2>2
    <3>2. At(heard', t) = At(heard, t) \o new[t]
      BY <1>2, <2>2 DEF At
    <3>3. Count(At(heard, t) \o new[t], e) = Count(At(heard, t), e) + Count(new[t], e)
      BY <3>1, CountsAdd
    <3>4. told'[t][e] = told[t][e] + Count(new[t], e)
      BY <1>2, <2>2
    <3> QED
      BY <2>1, <3>2, <3>3, <3>4
  <2>3. CASE t \notin due
    <3>1. At(heard', t) = At(heard, t)
      BY <1>2, <2>3 DEF At
    <3> QED
      BY <1>5, <2>1, <2>3, <3>1
  <2> QED
    BY <2>2, <2>3
<1>9. SaidIsCounted'
  BY <1>2 DEF IInv, SaidIsCounted
<1>10. NeverTwice'
  <2> SUFFICES ASSUME NEW t \in Tick, NEW e \in Event PROVE told'[t][e] <= most[t][e]
    BY <1>2 DEF NeverTwice, Tick
  <2>1. told[t][e] <= most[t][e]
    BY DEF IInv, NeverTwice
  <2>2. CASE t \in due
    <3>1. Count(said[t], e) <= most[t][e]
      BY <1>4, <2>2 DEF IInv, SaidIsCounted
    <3> QED
      BY <1>5, <2>1, <2>2, <3>1 DEF Larger
  <2>3. CASE t \notin due
    BY <1>5, <2>1, <2>3
  <2> QED
    BY <2>2, <2>3
<1>11. TruthIsHeard'
  <2> SUFFICES ASSUME NEW t \in DOMAIN said, NEW e \in Event
              PROVE  told'[t][e] >= Count(said[t], e)
    BY <1>2 DEF TruthIsHeard
  <2>1. t \in Tick /\ t \in Nat /\ t <= clock /\ said[t] \in Seq(Event)
    BY DEF IInv, Records, SayingsOK, SaidToTheClock, Tick
  <2>2. Count(said[t], e) \in Nat /\ told[t][e] \in Nat
    BY <1>5, <2>1, CountIsPlaces
  <2>3. CASE t \in due
    BY <1>5, <2>1, <2>2, <2>3 DEF Larger
  <2>4. CASE t \notin due /\ t <= presented
    BY <1>5, <2>1, <2>4 DEF IInv, TruthIsHeard
  <2>5. CASE t \notin due /\ ~(t <= presented)
    <3>1. t \notin DOMAIN log
      BY <1>1, <2>1, <2>5
    <3>2. said[t] = <<>>
      BY <3>1 DEF IInv, Records, LogIsOfTheSaid, At
    <3>3. Count(said[t], e) = 0
      BY <2>1, <3>2, CountIsPlaces
    <3> QED
      BY <1>5, <2>1, <2>2, <2>5, <3>3
  <2> QED
    BY <2>3, <2>4, <2>5
<1>12. WithinAWindow'
  <2>1. \A t \in due : t \in DOMAIN said /\ clock # 0
    BY <1>1, <1>4
  <2>2. \A t \in DOMAIN said' \cup DOMAIN heard' : t \in DOMAIN said \cup DOMAIN heard
    BY <1>2, <2>1
  <2>3. clock = 0 => DOMAIN heard' = DOMAIN heard
    BY <1>2, <2>1
  <2>4. \A t \in DOMAIN heard' : t >= 1
    BY <1>2, <2>1 DEF IInv, Records, SayingsOK, SaidToTheClock, WithinAWindow, Tick
  <2> QED
    BY <1>2, <2>2, <2>3, <2>4 DEF IInv, WithinAWindow
<1> QED
  BY <1>7, <1>8, <1>9, <1>10, <1>11, <1>12 DEF IInv

LEMMA NextInv == IInv /\ [Next]_vars => IInv'
<1> SUFFICES ASSUME IInv, [Next]_vars PROVE IInv'
  OBVIOUS
<1>1. ASSUME NEW events \in Said, RunTick(events) PROVE IInv'
  BY <1>1, RunTickInv
<1>2. ASSUME NEW t \in Tick, Rollback(t) PROVE IInv'
  BY <1>2, RollbackInv
<1>3. CASE Door
  BY <1>3, DoorInv
<1>4. CASE Read
  BY <1>4, ReadInv
<1>5. CASE UNCHANGED vars
  BY <1>5 DEF vars, logVars, IInv, Records, TimesOK, SayingsOK, CountsOK, SaidToTheClock,
       LogIsOfTheSaid, HeardIsTold, SaidIsCounted, NeverTwice, TruthIsHeard, WithinAWindow,
       At, Tick
<1> QED
  BY <1>1, <1>2, <1>3, <1>4, <1>5 DEF Next

THEOREM Invariance == Spec => []IInv
BY InitInv, NextInv, PTL DEF Spec

-----------------------------------------------------------------------------
(* WHAT THE RUNS CHECK *)

(* The log holds what the last run of each tick that is kept said, and       *)
(* nothing of a tick ahead of the clock.                                     *)
THEOREM TimelineIsLogged == Spec => []LogIsTheTimeline
<1>1. IInv => LogIsTheTimeline
  BY DEF IInv, Records, LogIsOfTheSaid, SaidToTheClock, LogIsTheTimeline
<1> QED
  BY <1>1, Invariance, PTL

(* However often a tick is run, rolled back and run again, its reader is     *)
(* told of an event at most as often as one run said it.                     *)
THEOREM NothingIsPresentedTwice == Spec => []NeverTwice
<1>1. IInv => NeverTwice
  BY DEF IInv
<1> QED
  BY <1>1, Invariance, PTL

(* A reader was told all that the timeline says of the ticks it was          *)
(* presented, corrections included.                                          *)
THEOREM CorrectionsAreHeard == Spec => []TruthIsHeard
<1>1. IInv => TruthIsHeard
  BY DEF IInv
<1> QED
  BY <1>1, Invariance, PTL

(* Ticks no further apart than the window are no more than the window holds. *)
LEMMA WindowHolds ==
  ASSUME NEW S \in SUBSET Nat, \A t, u \in S : u <= t + Window
  PROVE  Cardinality(S) <= Window + 1
<1> USE EventsAssumption
<1>0. Window \in Nat
  OBVIOUS
<1>1. CASE S = {}
  BY <1>0, <1>1, FS_EmptySet
<1>2. CASE S # {}
  <2>1. PICK m \in S : \A k \in S : m <= k
    BY <1>2, LeastNumber
  <2>2. m \in Nat /\ S \in SUBSET (m..m + Window)
    BY <1>0, <2>1
  <2>3. IsFiniteSet(m..m + Window) /\ Cardinality(m..m + Window) = Window + 1
    <3> DEFINE r == m + Window
    <3>1. m \in Int /\ r \in Int /\ ~(m > r) /\ r - m + 1 = Window + 1
      BY <1>0, <2>2
    <3> HIDE DEF r
    <3>2. IsFiniteSet(m..r) /\ Cardinality(m..r) = Window + 1
      BY <3>1, FS_Interval
    <3> QED
      BY <3>2 DEF r
  <2> QED
    BY <2>2, <2>3, FS_Subset
<1> QED
  BY <1>1, <1>2

(* Every variable has its type, and neither record outgrows the window,      *)
(* though what was heard is not cut when the clock is set back.              *)
THEOREM Typing == Spec => []TypeOK
<1>1. ASSUME IInv PROVE TypeOK
  <2> USE EventsAssumption
  <2>1. DOMAIN log \subseteq DOMAIN said
    BY <1>1 DEF IInv, Records, LogIsOfTheSaid
  <2>2. DOMAIN log \in SUBSET Nat /\ DOMAIN heard \in SUBSET Nat
    BY <1>1 DEF IInv, Records, SayingsOK, Tick
  <2>3. /\ \A t, u \in DOMAIN log : u <= t + Window
        /\ \A t, u \in DOMAIN heard : u <= t + Window
    BY <1>1, <2>1 DEF IInv, WithinAWindow
  <2>4. Cardinality(DOMAIN log) <= Window + 1 /\ Cardinality(DOMAIN heard) <= Window + 1
    BY <2>2, <2>3, WindowHolds
  <2> QED
    BY <1>1, <2>4 DEF IInv, Records, TimesOK, SayingsOK, TypeOK, Tick
<1> QED
  BY <1>1, Invariance, PTL

===============================================================================
