--------------------------- MODULE RegistriesProofs ---------------------------
(***************************************************************************)
(* Proofs about Registries, for any types, builds and bounds: a step back  *)
(* puts a peer's own types back to what they were, and what a client knows *)
(* of a tick is what its host had there, type by type.                     *)
(***************************************************************************)
EXTENDS Registries, TLAPS, FiniteSetTheorems

(* The types a peer answers for itself: in a session a client's networked ones are *)
(* its host's.                                                                     *)
Own(p) == IF p = Client /\ link # "out" THEN LocalOnly(p) ELSE Registered(p)

(* What a history, the captures it stands for and a world have to do with each other, *)
(* for the types of a set: a captured value is in the history, a resource that was    *)
(* not there is not, nothing is ahead of the clock.                                   *)
Recorded(own, h, a) ==
  \A t \in DOMAIN a : \A T \in own \cap DOMAIN a[t] :
    IF T \in Resource /\ a[t][T] = Absent THEN t \notin DOMAIN h[T]
    ELSE t \in DOMAIN h[T] /\ h[T][t] = a[t][T]
NotAhead(own, h, now) == \A T \in own : DOMAIN h[T] \subseteq 0..now
There(own, w, h, now) ==
  \A T \in own \cap Resource :
    /\ now \in DOMAIN h[T] => w[T] # Absent
    /\ \A t \in DOMAIN h[T] : h[T][t] # Absent
Stands(own, w, h, a, now) == Recorded(own, h, a) /\ NotAhead(own, h, now) /\ There(own, w, h, now)

(* What a capture leaves of a type's history. *)
Saved(T, w, f, g, t) ==
  IF T \in Resource /\ w[T] = Absent THEN g = f
  ELSE /\ DOMAIN g = DOMAIN f \cup {t} /\ g[t] = w[T]
       /\ \A u \in DOMAIN f : u # t => g[u] = f[u]

LEMMA CaptureIs ==
  ASSUME NEW p \in Peer, NEW T \in Registered(p) \cap Type, NEW w, NEW h, NEW t
  PROVE  Saved(T, w, h[T], CaptureAll(p, w, h, t)[T], t)
<1>1. CASE T \in Resource /\ w[T] = Absent
  BY <1>1 DEF CaptureAll, Saved
<1>2. CASE ~(T \in Resource /\ w[T] = Absent)
  <2>1. CaptureAll(p, w, h, t)[T] = Put(h[T], t, w[T])
    BY <1>2 DEF CaptureAll
  <2> QED
    BY <1>2, <2>1 DEF Put, Saved
<1> QED
  BY <1>1, <1>2

(* A capture, now or later. *)
LEMMA CaptureStands ==
  ASSUME NEW p \in Peer, NEW own \in SUBSET (Registered(p) \cap Type), NEW w0, NEW w, NEW h, NEW a,
         NEW n \in Nat, NEW t \in Nat, t >= n, Stands(own, w0, h, a, n),
         \A T \in own \cap Resource : t = n /\ n \in DOMAIN h[T] => w[T] # Absent
  PROVE  Stands(own, w, CaptureAll(p, w, h, t), Put(a, t, Part(p, w)), t)
<1> DEFINE h1 == CaptureAll(p, w, h, t)
           a1 == Put(a, t, Part(p, w))
<1>1. \A T \in own : Saved(T, w, h[T], h1[T], t)
  BY CaptureIs
<1>2. \A T \in own \cap Resource : t \in DOMAIN h[T] => w[T] # Absent
  BY DEF Stands, NotAhead
<1>3. /\ DOMAIN a1 = DOMAIN a \cup {t}
      /\ a1[t] = Part(p, w)
      /\ \A u \in DOMAIN a : u # t => a1[u] = a[u]
  BY DEF Put
<1>4. \A T \in DOMAIN Part(p, w) : Part(p, w)[T] = w[T]
  BY DEF Part, RestrictDomain, Restrict
<1> HIDE DEF h1, a1
<1>7. Recorded(own, h1, a1)
  <2> SUFFICES ASSUME NEW u \in DOMAIN a1, NEW T \in own, T \in DOMAIN a1[u]
               PROVE  IF T \in Resource /\ a1[u][T] = Absent THEN u \notin DOMAIN h1[T]
                      ELSE u \in DOMAIN h1[T] /\ h1[T][u] = a1[u][T]
    BY DEF Recorded
  <2>1. CASE u = t
    <3>1. a1[u][T] = w[T]
      BY <1>3, <1>4, <2>1
    <3> QED
      BY <1>1, <1>2, <2>1, <3>1 DEF Saved
  <2>2. CASE u # t
    <3>1. u \in DOMAIN a /\ a1[u] = a[u]
      BY <1>3, <2>2
    <3>2. IF T \in Resource /\ a[u][T] = Absent THEN u \notin DOMAIN h[T]
          ELSE u \in DOMAIN h[T] /\ h[T][u] = a[u][T]
      BY <3>1 DEF Stands, Recorded
    <3> QED
      BY <1>1, <2>2, <3>1, <3>2 DEF Saved
  <2> QED
    BY <2>1, <2>2
<1>8. NotAhead(own, h1, t)
  <2> SUFFICES ASSUME NEW T \in own, NEW u \in DOMAIN h1[T] PROVE u \in 0..t
    BY DEF NotAhead
  <2>1. u \in DOMAIN h[T] \/ u = t
    BY <1>1 DEF Saved
  <2>2. u \in DOMAIN h[T] => u \in 0..n
    BY DEF Stands, NotAhead
  <2> QED
    BY <2>1, <2>2
<1>9. There(own, w, h1, t)
  <2> SUFFICES ASSUME NEW T \in own, T \in Resource, NEW u \in DOMAIN h1[T]
               PROVE  (u = t => w[T] # Absent) /\ h1[T][u] # Absent
    BY DEF There
  <2>1. u \in DOMAIN h[T] => h[T][u] # Absent
    BY DEF Stands, There
  <2> QED
    BY <1>1, <1>2, <2>1 DEF Saved
<1> QED
  BY <1>7, <1>8, <1>9 DEF Stands, h1, a1

(* A step back. *)
LEMMA CutStands ==
  ASSUME NEW own \in SUBSET Type, NEW w0, NEW w, NEW h, NEW a, NEW n \in Nat, NEW t \in Nat,
         Stands(own, w0, h, a, n),
         \A T \in own \cap Resource : t \in DOMAIN h[T] => w[T] = h[T][t]
  PROVE  Stands(own, w, TruncateAfter(h, t), RestrictDomain(a, LAMBDA u : u <= t), t)
<1> DEFINE h1 == TruncateAfter(h, t)
           a1 == RestrictDomain(a, LAMBDA u : u <= t)
<1>1. \A T \in own : DOMAIN h1[T] = {u \in DOMAIN h[T] : u <= t} /\ \A u \in DOMAIN h1[T] : h1[T][u] = h[T][u]
  BY DEF TruncateAfter, RestrictDomain, Restrict
<1>2. DOMAIN a1 = {u \in DOMAIN a : u <= t} /\ \A u \in DOMAIN a1 : a1[u] = a[u]
  BY DEF RestrictDomain, Restrict
<1> HIDE DEF h1, a1
<1>3. Recorded(own, h1, a1)
  BY <1>1, <1>2 DEF Stands, Recorded
<1>4. NotAhead(own, h1, t)
  <2> SUFFICES ASSUME NEW T \in own, NEW u \in DOMAIN h1[T] PROVE u \in 0..t
    BY DEF NotAhead
  <2>1. u \in 0..n
    BY <1>1 DEF Stands, NotAhead
  <2> QED
    BY <1>1, <2>1
<1>5. There(own, w, h1, t)
  BY <1>1 DEF Stands, There
<1> QED
  BY <1>3, <1>4, <1>5 DEF Stands, h1, a1

(* What is older than the window is forgotten. *)
LEMMA PruneStands ==
  ASSUME NEW own \in SUBSET Type, NEW w, NEW h, NEW a, NEW n \in Nat, DOMAIN a \subseteq Nat,
         Stands(own, w, h, a, n)
  PROVE  Stands(own, w, IF n > Window THEN PruneBefore(h, n - Window) ELSE h,
                RestrictDomain(a, LAMBDA u : u + Window >= n), n)
<1> DEFINE h1 == IF n > Window THEN PruneBefore(h, n - Window) ELSE h
           a1 == RestrictDomain(a, LAMBDA u : u + Window >= n)
<1>0. Window \in Nat
  BY RegistriesAssumption
<1>1. \A T \in own : /\ DOMAIN h1[T] = {u \in DOMAIN h[T] : n > Window => u >= n - Window}
                     /\ \A u \in DOMAIN h1[T] : h1[T][u] = h[T][u]
  BY DEF PruneBefore, RestrictDomain, Restrict
<1>2. DOMAIN a1 = {u \in DOMAIN a : u + Window >= n} /\ \A u \in DOMAIN a1 : a1[u] = a[u]
  BY DEF RestrictDomain, Restrict
<1> HIDE DEF h1, a1
<1>3. Recorded(own, h1, a1)
  <2> SUFFICES ASSUME NEW u \in DOMAIN a1, NEW T \in own, T \in DOMAIN a1[u]
               PROVE  IF T \in Resource /\ a1[u][T] = Absent THEN u \notin DOMAIN h1[T]
                      ELSE u \in DOMAIN h1[T] /\ h1[T][u] = a1[u][T]
    BY DEF Recorded
  <2>1. u \in Nat /\ u + Window >= n /\ u \in DOMAIN a /\ a1[u] = a[u]
    BY <1>2
  <2>2. IF T \in Resource /\ a[u][T] = Absent THEN u \notin DOMAIN h[T]
        ELSE u \in DOMAIN h[T] /\ h[T][u] = a[u][T]
    BY <2>1 DEF Stands, Recorded
  <2>3. u \in DOMAIN h[T] <=> u \in DOMAIN h1[T]
    BY <1>0, <1>1, <2>1
  <2> QED
    BY <1>1, <2>1, <2>2, <2>3
<1>4. NotAhead(own, h1, n) /\ There(own, w, h1, n)
  BY <1>1 DEF Stands, NotAhead, There
<1> QED
  BY <1>3, <1>4 DEF Stands, h1, a1

LEMMA NothingStands ==
  ASSUME NEW own \in SUBSET Type, NEW w, NEW n
  PROVE  Stands(own, w, Cleared, Empty, n)
<1>1. \A T \in Type : DOMAIN Cleared[T] = {}
  BY DEF Cleared, Empty
<1>2. DOMAIN Empty = {}
  BY DEF Empty
<1> QED
  BY <1>1, <1>2 DEF Stands, Recorded, NotAhead, There

(* Nothing is kept of a type that is not registered. *)
Only(types, h, a) ==
  /\ \A T \in Type \ types : DOMAIN h[T] = {}
  /\ DOMAIN a \subseteq Nat /\ \A t \in DOMAIN a : DOMAIN a[t] \subseteq types

LEMMA OnlyStays ==
  ASSUME NEW p \in Peer, NEW w, NEW h, NEW a, Only(Registered(p), h, a), NEW t \in Nat, NEW k
  PROVE  /\ Only(Registered(p), CaptureAll(p, w, h, t), Put(a, t, Part(p, w)))
         /\ Only(Registered(p), TruncateAfter(h, t), RestrictDomain(a, LAMBDA u : u <= t))
         /\ Only(Registered(p), PruneBefore(h, k), RestrictDomain(a, LAMBDA u : u + Window >= t))
         /\ Only(Registered(p), h, RestrictDomain(a, LAMBDA u : u + Window >= t))
         /\ Only(Registered(p), Cleared, Empty)
<1>1. Only(Registered(p), CaptureAll(p, w, h, t), Put(a, t, Part(p, w)))
  <2>1. \A T \in Type \ Registered(p) : CaptureAll(p, w, h, t)[T] = h[T]
    BY DEF CaptureAll
  <2>2. DOMAIN Part(p, w) \subseteq Registered(p)
    BY DEF Part, RestrictDomain, Restrict
  <2> QED
    BY <2>1, <2>2 DEF Only, Put
<1>2. Only(Registered(p), TruncateAfter(h, t), RestrictDomain(a, LAMBDA u : u <= t))
  BY DEF Only, TruncateAfter, RestrictDomain, Restrict
<1>3. Only(Registered(p), PruneBefore(h, k), RestrictDomain(a, LAMBDA u : u + Window >= t))
  BY DEF Only, PruneBefore, RestrictDomain, Restrict
<1>4. Only(Registered(p), h, RestrictDomain(a, LAMBDA u : u + Window >= t))
  BY DEF Only, RestrictDomain, Restrict
<1>5. Only(Registered(p), Cleared, Empty)
  <2>1. (\A T \in Type : DOMAIN Cleared[T] = {}) /\ DOMAIN Empty = {}
    BY DEF Cleared, Empty
  <2> QED
    BY <2>1 DEF Only
<1> QED
  BY <1>1, <1>2, <1>3, <1>4, <1>5

-----------------------------------------------------------------------------
(* REGISTRATION *)

Shape ==
  /\ todo \in [Peer -> Seq(Registration)]
  /\ reg \in [Peer -> [Sort -> Seq(Registration)]]
  /\ tick \in [Peer -> Nat] /\ word.tick \in Nat
  /\ world = [p \in Peer |-> world[p]] /\ past = [p \in Peer |-> past[p]]
  /\ was = [p \in Peer |-> was[p]]

LEMMA TypesOfRegistries ==
  ASSUME NEW r \in [Sort -> Seq(Registration)]
  PROVE  {e.type : e \in Range(r["component"]) \cup Range(r["resource"])} \subseteq Type
<1>1. r["component"] \in Seq(Registration) /\ r["resource"] \in Seq(Registration)
  BY DEF Sort
<1>2. \A e \in Range(r["component"]) \cup Range(r["resource"]) : e \in Registration
  BY <1>1 DEF Range
<1> QED
  BY <1>2 DEF Registration

LEMMA RegisteredAreTypes ==
  ASSUME Shape, NEW p \in Peer
  PROVE  Registered(p) \subseteq Type /\ Own(p) \subseteq Registered(p)
<1>1. reg[p] \in [Sort -> Seq(Registration)]
  BY DEF Shape
<1>2. Registered(p) \subseteq Type
  BY <1>1, TypesOfRegistries DEF Registered, Entries
<1> QED
  BY <1>2 DEF Own, LocalOnly

LEMMA TypesThen ==
  ASSUME Shape', NEW p \in Peer
  PROVE  Own(p)' \subseteq Type
<1>1. reg'[p] \in [Sort -> Seq(Registration)]
  BY DEF Shape
<1>2. Registered(p)' \subseteq Type
  BY <1>1, TypesOfRegistries DEF Registered, Entries
<1> QED
  BY <1>2 DEF Own, LocalOnly

(* What a registration does to one registry: it keeps its types, and what travelled *)
(* travels on.                                                                      *)
LEMMA Registering ==
  ASSUME NEW es \in Seq(Registration), NEW e \in Registration
  PROVE  /\ Append(es, e) \in Seq(Registration) /\ Upgraded(es, e) \in Seq(Registration)
         /\ \A o \in Range(es) : /\ o \in Range(Append(es, e))
                                 /\ e.networked => \E n \in Range(Upgraded(es, e)) :
                                                     n.type = o.type /\ (o.networked => n.networked)
<1>1. Append(es, e) \in Seq(Registration)
  OBVIOUS
<1>2. Upgraded(es, e) \in Seq(Registration)
  <2>0. ASSUME NEW x \in Registration PROVE [e EXCEPT !.kept = x.kept] \in Registration
    BY DEF Registration
  <2>1. \A i \in 1..Len(es) : Upgraded(es, e)[i] \in Registration
    <3> TAKE i \in 1..Len(es)
    <3>1. es[i] \in Registration /\ DOMAIN es = 1..Len(es)
      OBVIOUS
    <3>2. Upgraded(es, e)[i] = IF es[i].type = e.type
                               THEN [e EXCEPT !.kept = es[i].kept] ELSE es[i]
      BY <3>1 DEF Upgraded
    <3> QED
      BY <2>0, <3>1, <3>2
  <2>2. Upgraded(es, e) \in [1..Len(es) -> Registration]
    <3>1. DOMAIN es = 1..Len(es)
      OBVIOUS
    <3>2. Upgraded(es, e) = [i \in 1..Len(es) |-> Upgraded(es, e)[i]]
      BY <3>1 DEF Upgraded
    <3> QED
      BY <2>1, <3>2
  <2> QED
    BY <2>2
<1>3. \A o \in Range(es) : o \in Range(Append(es, e))
  <2> TAKE o \in Range(es)
  <2>1. PICK i \in 1..Len(es) : es[i] = o
    BY DEF Range
  <2>2. Append(es, e)[i] = o /\ i \in DOMAIN Append(es, e)
    BY <2>1
  <2> QED
    BY <2>2 DEF Range
<1>4. e.networked => \A o \in Range(es) : \E n \in Range(Upgraded(es, e)) : n.type = o.type /\ (o.networked => n.networked)
  <2> HAVE e.networked
  <2> TAKE o \in Range(es)
  <2>1. PICK i \in DOMAIN es : es[i] = o
    BY DEF Range
  <2>2. o \in Registration
    BY <2>1
  <2>3. i \in DOMAIN Upgraded(es, e) /\ Upgraded(es, e)[i].type = o.type
    BY <2>1, <2>2 DEF Upgraded, Registration
  <2>4. o.networked => Upgraded(es, e)[i].networked
    BY <2>1, <2>2 DEF Upgraded, Registration
  <2> QED
    BY <2>3, <2>4 DEF Range
<1> QED
  BY <1>1, <1>2, <1>3, <1>4

LEMMA RegisterKeeps ==
  ASSUME Shape, NEW p \in Peer, Register(p)
  PROVE  /\ Shape'
         /\ \A q \in Peer : Registered(q) \subseteq Registered(q)' /\ Networked(q) \subseteq Networked(q)'
<1> DEFINE e == Head(todo[p])
           s == SortOf(e.type)
           es == reg[p][s]
<1>1. e \in Registration /\ Tail(todo[p]) \in Seq(Registration)
  BY DEF Register, Shape, Empty
<1>2. s \in Sort /\ es \in Seq(Registration)
  BY DEF SortOf, Sort, Shape
<1> HIDE DEF e, s
<1>3. \/ reg' = [reg EXCEPT ![p][s] = Append(@, e)]
      \/ reg' = [reg EXCEPT ![p][s] = Upgraded(@, e)] /\ e.networked
  BY DEF Register, IsUpgrade, e, s
<1>4. /\ reg'[p][s] = Append(es, e) \/ (reg'[p][s] = Upgraded(es, e) /\ e.networked)
      /\ \A q \in Peer, r \in Sort : q # p \/ r # s => reg'[q][r] = reg[q][r]
  BY <1>2, <1>3 DEF Shape
<1>5. Append(es, e) \in Seq(Registration) /\ Upgraded(es, e) \in Seq(Registration)
  BY <1>1, <1>2, Registering
<1>6. reg' \in [Peer -> [Sort -> Seq(Registration)]]
  <2>1. PICK new \in Seq(Registration) : reg' = [reg EXCEPT ![p][s] = new]
    BY <1>3, <1>5
  <2> QED
    BY <1>2, <2>1 DEF Shape
<1>7. Shape'
  BY <1>1, <1>6 DEF Shape, Register
<1>8. \A q \in Peer, r \in Sort : \A o \in Range(reg[q][r]) :
         \E n \in Range(reg'[q][r]) : n.type = o.type /\ (o.networked => n.networked)
  <2> TAKE q \in Peer, r \in Sort
  <2>1. CASE q = p /\ r = s
    BY <1>1, <1>2, <1>4, <2>1, Registering
  <2>2. CASE q # p \/ r # s
    BY <1>4, <2>2
  <2> QED
    BY <2>1, <2>2
<1>9. \A q \in Peer : \A o \in Entries(q) : \E n \in Entries(q)' : n.type = o.type /\ (o.networked => n.networked)
  BY <1>8 DEF Entries, Sort
<1>10. \A q \in Peer : Registered(q) \subseteq Registered(q)'
  BY <1>9 DEF Registered
<1>11. \A q \in Peer : Networked(q) \subseteq Networked(q)'
  BY <1>9 DEF Networked
<1> QED
  BY <1>7, <1>10, <1>11

-----------------------------------------------------------------------------
(* GOING BACK *)

Fits(p, own, w, h, a, n) == Stands(own, w, h, a, n) /\ Only(Registered(p), h, a)
At(p) == Fits(p, Own(p), world[p], past[p], was[p], tick[p])

(* Inductive: what a peer captured of its own types is what its history has of them. *)
HistoriesStand == Shape /\ \A p \in Peer : At(p)

LEMMA InitialFits ==
  ASSUME NEW p \in Peer, NEW own \in SUBSET (Registered(p) \cap Type), NEW w, NEW h, NEW a, NEW n \in Nat,
         Fits(p, own, w, h, a, n)
  PROVE  Fits(p, own, w, InitialCapture(p, w, n, h),
              IF InitialCapture(p, w, n, h) = h THEN a ELSE Put(a, 0, Part(p, w)), n)
<1>1. CASE InitialCapture(p, w, n, h) = h
  BY <1>1
<1>2. CASE InitialCapture(p, w, n, h) # h
  <2>1. n = 0 /\ InitialCapture(p, w, n, h) = CaptureAll(p, w, h, 0)
    BY <1>2 DEF InitialCapture
  <2>2. \A T \in own \cap Resource : 0 \in DOMAIN h[T] => w[T] # Absent
    BY <2>1 DEF Fits, Stands, There
  <2>3. Stands(own, w, CaptureAll(p, w, h, 0), Put(a, 0, Part(p, w)), 0)
    BY <2>1, <2>2, CaptureStands DEF Fits
  <2>4. Only(Registered(p), CaptureAll(p, w, h, 0), Put(a, 0, Part(p, w)))
    BY OnlyStays DEF Fits
  <2> QED
    BY <1>2, <2>1, <2>3, <2>4 DEF Fits
<1> QED
  BY <1>1, <1>2

LEMMA SameRegistry ==
  ASSUME reg' = reg, NEW p \in Peer
  PROVE  /\ Registered(p)' = Registered(p) /\ Networked(p)' = Networked(p) /\ LocalOnly(p)' = LocalOnly(p)
         /\ (p = Client => (link' = "out" <=> link = "out")) => Own(p)' = Own(p)
<1>1. Registered(p)' = Registered(p) /\ Networked(p)' = Networked(p)
  BY DEF Registered, Networked, Entries
<1> QED
  BY <1>1 DEF LocalOnly, Own

(* A peer whose world and history a step leaves alone. *)
LEMMA Unmoved ==
  ASSUME Shape, Shape', NEW p \in Peer, At(p),
         world'[p] = world[p], past'[p] = past[p], was'[p] = was[p], tick'[p] = tick[p],
         Registered(p) \subseteq Registered(p)', \A T \in Own(p)' : T \in Own(p) \/ T \notin Registered(p)
  PROVE  At(p)'
<1>1. Own(p)' \subseteq Type
  BY TypesThen
<1>2. \A T \in Own(p)' \ Own(p) : DOMAIN past[p][T] = {} /\ \A t \in DOMAIN was[p] : T \notin DOMAIN was[p][t]
  BY <1>1 DEF At, Fits, Only
<1>3. Recorded(Own(p)', past[p], was[p])
  BY <1>2 DEF Recorded, At, Fits, Stands
<1>4. NotAhead(Own(p)', past[p], tick[p])
  BY <1>2 DEF NotAhead, At, Fits, Stands
<1>5. There(Own(p)', world[p], past[p], tick[p])
  BY <1>2 DEF There, At, Fits, Stands
<1>6. Only(Registered(p), past[p], was[p])'
  BY DEF Only, At, Fits
<1> QED
  BY <1>3, <1>4, <1>5, <1>6 DEF At, Fits, Stands, Recorded, NotAhead, There

LEMMA RegisterStands ==
  ASSUME HistoriesStand, NEW p \in Peer, Register(p)
  PROVE  HistoriesStand'
<1>1. Shape /\ Shape' /\ \A q \in Peer : Registered(q) \subseteq Registered(q)' /\ Networked(q) \subseteq Networked(q)'
  BY RegisterKeeps DEF HistoriesStand
<1>2. ASSUME NEW q \in Peer PROVE At(q)'
  <2>1. \A T \in Own(q)' : T \in Own(q) \/ T \notin Registered(q)
    BY <1>1 DEF Own, LocalOnly, Register
  <2>2. world' = world /\ past' = past /\ was' = was /\ tick' = tick
    BY DEF Register
  <2> QED
    BY <1>1, <2>1, <2>2, Unmoved DEF HistoriesStand
<1> QED
  BY <1>1, <1>2 DEF HistoriesStand

LEMMA OthersStand ==
  ASSUME HistoriesStand, Shape', reg' = reg, NEW p \in Peer,
         world'[p] = world[p], past'[p] = past[p], was'[p] = was[p], tick'[p] = tick[p],
         p = Client => (link' = "out" <=> link = "out")
  PROVE  At(p)'
<1>1. Registered(p)' = Registered(p) /\ Own(p)' = Own(p)
  BY SameRegistry
<1> QED
  BY <1>1, Unmoved DEF HistoriesStand

LEMMA TickStands ==
  ASSUME HistoriesStand, NEW p \in Peer, Tick(p)
  PROVE  HistoriesStand'
<1> DEFINE t     == tick[p] + 1
           first == InitialCapture(p, world[p], tick[p], past[p])
           a1    == InitialWas(p, world[p], tick[p], past[p])
           own   == Own(p)
<1>1. PICK w : LET all == CaptureAll(p, w, first, t)
               IN  /\ world' = [world EXCEPT ![p] = w]
                   /\ tick' = [tick EXCEPT ![p] = t]
                   /\ past' = [past EXCEPT ![p] = IF t > Window THEN PruneBefore(all, t - Window) ELSE all]
                   /\ was' = [was EXCEPT ![p] = RestrictDomain(Put(a1, t, Part(p, w)),
                                                               LAMBDA u : u + Window >= t)]
  BY DEF Tick
<1>2. UNCHANGED <<todo, reg, wire, hosting, link, word>>
  BY DEF Tick
<1> DEFINE all == CaptureAll(p, w, first, t)
           a2  == Put(a1, t, Part(p, w))
<1>3. tick[p] \in Nat /\ t \in Nat /\ t > tick[p] /\ own \subseteq Registered(p) \cap Type
  BY RegisteredAreTypes DEF HistoriesStand, Shape
<1>4. Fits(p, own, world[p], first, a1, tick[p])
  BY <1>3, InitialFits DEF HistoriesStand, At, InitialWas
<1> HIDE DEF first, a1, t, own
<1>5. Stands(own, w, all, a2, t) /\ Only(Registered(p), all, a2)
  <2>1. Stands(own, world[p], first, a1, tick[p]) /\ Only(Registered(p), first, a1)
    BY <1>4 DEF Fits
  <2>2. t >= tick[p] /\ t # tick[p]
    BY <1>3
  <2>3. Stands(own, w, all, a2, t)
    BY <1>3, <2>1, <2>2, CaptureStands
  <2> QED
    BY <1>3, <2>1, <2>3, OnlyStays
<1> HIDE DEF all, a2
<1> DEFINE h == IF t > Window THEN PruneBefore(all, t - Window) ELSE all
           a == RestrictDomain(a2, LAMBDA u : u + Window >= t)
<1>6. Stands(own, w, h, a, t)
  BY <1>3, <1>5, PruneStands DEF Only
<1>7. Only(Registered(p), h, a)
  BY <1>3, <1>5, OnlyStays
<1>8. Shape'
  BY <1>1, <1>2, <1>3 DEF HistoriesStand, Shape
<1>9. world'[p] = w /\ past'[p] = h /\ was'[p] = a /\ tick'[p] = t
  BY <1>1 DEF HistoriesStand, Shape, all, a2
<1> HIDE DEF h, a
<1>10. At(p)'
  <2>1. Own(p)' = own /\ Registered(p)' = Registered(p)
    BY <1>2, SameRegistry DEF own
  <2> QED
    BY <1>6, <1>7, <1>9, <2>1 DEF At, Fits, Stands, Recorded, NotAhead, There
<1>11. ASSUME NEW q \in Peer, q # p PROVE At(q)'
  <2>1. world'[q] = world[q] /\ past'[q] = past[q] /\ was'[q] = was[q] /\ tick'[q] = tick[q]
    BY <1>1, <1>11 DEF HistoriesStand, Shape
  <2> QED
    BY <1>2, <1>8, <2>1, OthersStand
<1> QED
  BY <1>8, <1>10, <1>11 DEF HistoriesStand

LEMMA RewindStands ==
  ASSUME HistoriesStand, NEW p \in Peer, Rewind(p)
  PROVE  HistoriesStand'
<1>1. PICK t \in DOMAIN was[p] :
        /\ world' = [world EXCEPT ![p] = Restored(Registered(p), world[p], past[p], t)]
        /\ past' = [past EXCEPT ![p] = TruncateAfter(past[p], t)]
        /\ was' = [was EXCEPT ![p] = RestrictDomain(was[p], LAMBDA u : u <= t)]
        /\ tick' = [tick EXCEPT ![p] = t]
  BY DEF Rewind
<1>2. UNCHANGED <<todo, reg, wire, hosting, link, word>>
  BY DEF Rewind
<1> DEFINE own == Own(p)
           w   == Restored(Registered(p), world[p], past[p], t)
           h   == TruncateAfter(past[p], t)
           a   == RestrictDomain(was[p], LAMBDA u : u <= t)
<1>3. t \in Nat /\ tick[p] \in Nat /\ own \in SUBSET Type /\ own \subseteq Registered(p)
  BY RegisteredAreTypes DEF HistoriesStand, Shape, At, Fits, Only
<1>4. \A T \in own \cap Resource : t \in DOMAIN past[p][T] => w[T] = past[p][T][t]
  BY <1>3 DEF Restored
<1>5. Stands(own, world[p], past[p], was[p], tick[p]) /\ Only(Registered(p), past[p], was[p])
  BY DEF HistoriesStand, At, Fits
<1> HIDE DEF own, w
<1>6. Stands(own, w, h, a, t)
  BY <1>3, <1>4, <1>5, CutStands
<1>7. Only(Registered(p), h, a)
  BY <1>3, <1>5, OnlyStays
<1>8. world'[p] = w /\ past'[p] = h /\ was'[p] = a /\ tick'[p] = t
  BY <1>1 DEF HistoriesStand, Shape, w
<1>9. Shape'
  BY <1>1, <1>2, <1>3 DEF HistoriesStand, Shape
<1> HIDE DEF h, a
<1>10. At(p)'
  <2>1. Own(p)' = own /\ Registered(p)' = Registered(p)
    BY <1>2, SameRegistry DEF own
  <2> QED
    BY <1>6, <1>7, <1>8, <2>1 DEF At, Fits
<1>11. ASSUME NEW q \in Peer, q # p PROVE At(q)'
  <2>1. world'[q] = world[q] /\ past'[q] = past[q] /\ was'[q] = was[q] /\ tick'[q] = tick[q]
    BY <1>1, <1>11 DEF HistoriesStand, Shape
  <2> QED
    BY <1>2, <1>9, <2>1, OthersStand
<1> QED
  BY <1>9, <1>10, <1>11 DEF HistoriesStand

LEMMA OpenLobbyStands ==
  ASSUME HistoriesStand, OpenLobby
  PROVE  HistoriesStand'
<1> DEFINE w == world[Host]
           h == InitialCapture(Host, w, 0, Cleared)
           a == IF h = Cleared THEN Empty ELSE Put(Empty, 0, Part(Host, w))
           own == Own(Host)
<1>0. Host \in Peer /\ Host # Client
  BY RegistriesAssumption DEF Peer
<1>1. UNCHANGED <<todo, reg, link, word, world>> /\ tick' = [tick EXCEPT ![Host] = 0]
  BY DEF OpenLobby
<1>2. past' = [past EXCEPT ![Host] = h] /\ past'[Host] = h
  BY <1>0 DEF OpenLobby, HistoriesStand, Shape
<1>3. was' = [was EXCEPT ![Host] = a]
  BY <1>2 DEF OpenLobby
<1>4. own \subseteq Registered(Host) \cap Type
  BY <1>0, RegisteredAreTypes DEF HistoriesStand
<1>5. Fits(Host, own, w, Cleared, Empty, 0)
  <2>1. Stands(own, w, Cleared, Empty, 0)
    BY <1>4, NothingStands
  <2>2. Only(Registered(Host), Cleared, Empty)
    BY <1>0, OnlyStays DEF HistoriesStand, At, Fits
  <2> QED
    BY <2>1, <2>2 DEF Fits
<1>6. Fits(Host, own, w, h, a, 0)
  BY <1>0, <1>4, <1>5, InitialFits
<1>7. was'[Host] = a /\ tick'[Host] = 0 /\ world'[Host] = w
  BY <1>0, <1>1, <1>3 DEF HistoriesStand, Shape
<1>8. Shape'
  BY <1>1, <1>2, <1>3 DEF HistoriesStand, Shape
<1> HIDE DEF h, a
<1>9. At(Host)'
  <2>1. Own(Host)' = own /\ Registered(Host)' = Registered(Host)
    BY <1>0, <1>1, SameRegistry DEF own
  <2> QED
    BY <1>2, <1>6, <1>7, <2>1 DEF At, Fits
<1>10. ASSUME NEW q \in Peer, q # Host PROVE At(q)'
  <2>1. world'[q] = world[q] /\ past'[q] = past[q] /\ was'[q] = was[q] /\ tick'[q] = tick[q]
    BY <1>1, <1>2, <1>3, <1>10 DEF HistoriesStand, Shape
  <2> QED
    BY <1>1, <1>8, <2>1, OthersStand
<1> QED
  BY <1>8, <1>9, <1>10 DEF HistoriesStand

(* A client that enters a session or leaves one. *)
LEMMA ClearedStands ==
  ASSUME HistoriesStand, reg' = reg, todo' = todo, word'.tick \in Nat, NEW w,
         tick' = [tick EXCEPT ![Client] = 0], world' = [world EXCEPT ![Client] = w],
         past' = [past EXCEPT ![Client] = Cleared], was' = [was EXCEPT ![Client] = Empty]
  PROVE  HistoriesStand'
<1>0. Client \in Peer
  BY DEF Peer
<1>1. Shape'
  BY DEF HistoriesStand, Shape
<1>2. /\ world'[Client] = w /\ past'[Client] = Cleared /\ was'[Client] = Empty /\ tick'[Client] = 0
  BY <1>0 DEF HistoriesStand, Shape
<1>3. At(Client)'
  <2>1. Own(Client)' \in SUBSET Type
    BY <1>0, <1>1, TypesThen
  <2>2. Stands(Own(Client)', w, Cleared, Empty, 0)
    BY <2>1, NothingStands
  <2>3. Only(Registered(Client), Cleared, Empty)
    BY <1>0, OnlyStays DEF HistoriesStand, At, Fits
  <2>4. Registered(Client)' = Registered(Client)
    BY <1>0, SameRegistry
  <2> QED
    BY <1>2, <2>2, <2>3, <2>4 DEF At, Fits
<1>4. ASSUME NEW q \in Peer, q # Client PROVE At(q)'
  <2>1. world'[q] = world[q] /\ past'[q] = past[q] /\ was'[q] = was[q] /\ tick'[q] = tick[q]
    BY <1>4 DEF HistoriesStand, Shape
  <2> QED
    BY <1>1, <1>4, <2>1, OthersStand
<1> QED
  BY <1>1, <1>3, <1>4 DEF HistoriesStand

(* What a word says, it says of networked types. *)
LEMMA SaysOfNetworked ==
  ASSUME NEW p \in Peer, NEW body
  PROVE  DOMAIN Says(p, body) \subseteq Networked(p)
BY DEF Says, Deserialized

(* What a client is told leaves the types it answers for as they were. *)
LEMMA ToldFits ==
  ASSUME HistoriesStand, link # "out"
  PROVE  LET said == Says(Client, word)
             w == AppliedTo(world[Client], said)
             h == RecordedIn(past[Client], said, word.tick)
         IN  /\ \A T \in Own(Client) : w[T] = world[Client][T] /\ h[T] = past[Client][T]
             /\ Stands(Own(Client), w, h, was[Client], tick[Client])
             /\ Only(Registered(Client), h, was[Client])
<1> DEFINE said == Says(Client, word)
           w == AppliedTo(world[Client], said)
           h == RecordedIn(past[Client], said, word.tick)
<1>0. Client \in Peer
  BY DEF Peer
<1>1. DOMAIN said \subseteq Networked(Client) /\ Networked(Client) \subseteq Registered(Client)
  BY <1>0, SaysOfNetworked DEF Networked, Registered
<1>2. Own(Client) = Registered(Client) \ Networked(Client) /\ Own(Client) \subseteq Type
  BY <1>0, RegisteredAreTypes DEF Own, LocalOnly, HistoriesStand
<1> HIDE DEF said
<1>3. \A T \in Own(Client) : w[T] = world[Client][T] /\ h[T] = past[Client][T]
  BY <1>1, <1>2 DEF AppliedTo, RecordedIn
<1>4. \A T \in Type \ Registered(Client) : h[T] = past[Client][T]
  BY <1>1 DEF RecordedIn
<1>5. Stands(Own(Client), world[Client], past[Client], was[Client], tick[Client])
      /\ Only(Registered(Client), past[Client], was[Client])
  BY <1>0 DEF HistoriesStand, At, Fits
<1> HIDE DEF w, h
<1>6. Stands(Own(Client), w, h, was[Client], tick[Client])
  <2>1. Recorded(Own(Client), h, was[Client])
    BY <1>3, <1>5 DEF Recorded, Stands
  <2>2. NotAhead(Own(Client), h, tick[Client]) /\ There(Own(Client), w, h, tick[Client])
    BY <1>3, <1>5 DEF NotAhead, There, Stands
  <2> QED
    BY <2>1, <2>2 DEF Stands
<1>7. Only(Registered(Client), h, was[Client])
  BY <1>4, <1>5 DEF Only
<1> QED
  BY <1>3, <1>6, <1>7 DEF said, w, h

LEMMA ReceiveStands ==
  ASSUME HistoriesStand, Receive
  PROVE  HistoriesStand'
<1> DEFINE t == word.tick
           said == Says(Client, word)
           w == AppliedTo(world[Client], said)
           h == RecordedIn(past[Client], said, t)
           own == Own(Client)
<1>0. Client \in Peer /\ link # "out"
  BY DEF Peer, Receive
<1>1. UNCHANGED <<todo, reg, link>> /\ word' = NoWord
  BY DEF Receive
<1>2. /\ t \in Nat /\ tick[Client] \in Nat /\ own \subseteq Registered(Client) \cap Type
      /\ word'.tick \in Nat
  BY <1>0, <1>1, RegisteredAreTypes DEF HistoriesStand, Shape, NoWord
<1>3. /\ \A T \in own : w[T] = world[Client][T] /\ h[T] = past[Client][T]
      /\ Stands(own, w, h, was[Client], tick[Client]) /\ Only(Registered(Client), h, was[Client])
  BY <1>0, ToldFits
<1> HIDE DEF said
<1>4. \/ UNCHANGED <<tick, world, past, was>>
      \/ /\ t >= tick[Client]
         /\ tick' = [tick EXCEPT ![Client] = t]
         /\ world' = [world EXCEPT ![Client] = w]
         /\ past' = [past EXCEPT ![Client] = CaptureAll(Client, w, h, t)]
         /\ was' = [was EXCEPT ![Client] = Put(was[Client], t, Part(Client, w))]
      \/ /\ tick' = [tick EXCEPT ![Client] = t]
         /\ world' = [world EXCEPT ![Client] = Restored(LocalOnly(Client), w, h, t)]
         /\ past' = [past EXCEPT ![Client] = TruncateAfter(h, t)]
         /\ was' = [was EXCEPT ![Client] = RestrictDomain(was[Client], LAMBDA u : u <= t)]
  BY DEF Receive, said
<1> HIDE DEF w, h, own, t
<1>5. Shape'
  BY <1>1, <1>2, <1>4 DEF HistoriesStand, Shape
<1>6. ASSUME NEW q \in Peer, q # Client PROVE At(q)'
  <2>1. world'[q] = world[q] /\ past'[q] = past[q] /\ was'[q] = was[q] /\ tick'[q] = tick[q]
    BY <1>4, <1>6 DEF HistoriesStand, Shape
  <2> QED
    BY <1>1, <1>5, <1>6, <2>1, OthersStand
<1>7. Own(Client)' = own /\ Registered(Client)' = Registered(Client)
  BY <1>0, <1>1, SameRegistry DEF own
<1>8. At(Client)'
  <2>1. CASE UNCHANGED <<tick, world, past, was>>
    BY <1>0, <1>1, <1>5, <2>1, OthersStand
  <2>2. CASE /\ t >= tick[Client]
             /\ tick' = [tick EXCEPT ![Client] = t]
             /\ world' = [world EXCEPT ![Client] = w]
             /\ past' = [past EXCEPT ![Client] = CaptureAll(Client, w, h, t)]
             /\ was' = [was EXCEPT ![Client] = Put(was[Client], t, Part(Client, w))]
    <3>1. \A T \in own \cap Resource : t = tick[Client] /\ tick[Client] \in DOMAIN h[T] => w[T] # Absent
      BY <1>3 DEF Stands, There
    <3>2. Stands(own, w, CaptureAll(Client, w, h, t), Put(was[Client], t, Part(Client, w)), t)
      BY <1>0, <1>2, <1>3, <2>2, <3>1, CaptureStands
    <3>3. Only(Registered(Client), CaptureAll(Client, w, h, t), Put(was[Client], t, Part(Client, w)))
      BY <1>0, <1>2, <1>3, OnlyStays
    <3>4. /\ world'[Client] = w /\ past'[Client] = CaptureAll(Client, w, h, t)
          /\ was'[Client] = Put(was[Client], t, Part(Client, w)) /\ tick'[Client] = t
      BY <1>0, <2>2 DEF HistoriesStand, Shape
    <3> QED
      BY <1>7, <3>2, <3>3, <3>4 DEF At, Fits
  <2>3. CASE /\ tick' = [tick EXCEPT ![Client] = t]
             /\ world' = [world EXCEPT ![Client] = Restored(LocalOnly(Client), w, h, t)]
             /\ past' = [past EXCEPT ![Client] = TruncateAfter(h, t)]
             /\ was' = [was EXCEPT ![Client] = RestrictDomain(was[Client], LAMBDA u : u <= t)]
    <3> DEFINE w1 == Restored(LocalOnly(Client), w, h, t)
               a1 == RestrictDomain(was[Client], LAMBDA u : u <= t)
    <3>1. \A T \in own \cap Resource : t \in DOMAIN h[T] => w1[T] = h[T][t]
      BY <1>0, <1>2 DEF Restored, own, Own
    <3> HIDE DEF w1
    <3>2. Stands(own, w1, TruncateAfter(h, t), a1, t)
      BY <1>2, <1>3, <3>1, CutStands
    <3>3. Only(Registered(Client), TruncateAfter(h, t), a1)
      BY <1>0, <1>2, <1>3, OnlyStays
    <3>4. /\ world'[Client] = w1 /\ past'[Client] = TruncateAfter(h, t)
          /\ was'[Client] = a1 /\ tick'[Client] = t
      BY <1>0, <2>3 DEF HistoriesStand, Shape, w1
    <3> HIDE DEF a1
    <3> QED
      BY <1>7, <3>2, <3>3, <3>4 DEF At, Fits
  <2> QED
    BY <1>4, <2>1, <2>2, <2>3
<1> QED
  BY <1>5, <1>6, <1>8 DEF HistoriesStand

LEMMA StandInit == Init => HistoriesStand
<1> SUFFICES ASSUME Init PROVE HistoriesStand
  OBVIOUS
<1>1. Shape
  <2>1. \A p \in Peer : todo[p] \in Seq(Registration)
    BY RegistriesAssumption DEF Init
  <2>2. reg \in [Peer -> [Sort -> Seq(Registration)]]
    BY DEF Init, Empty
  <2>3. todo \in [Peer -> Seq(Registration)]
    BY <2>1 DEF Init
  <2>4. tick \in [Peer -> Nat] /\ word.tick \in Nat
    BY DEF Init, NoWord
  <2> QED
    BY <2>2, <2>3, <2>4 DEF Init, Shape
<1>2. ASSUME NEW p \in Peer PROVE At(p)
  <2>1. past[p] = Cleared /\ was[p] = Empty /\ tick[p] = 0
    BY DEF Init
  <2>2. Own(p) \in SUBSET Type
    BY <1>1, RegisteredAreTypes
  <2>3. Stands(Own(p), world[p], Cleared, Empty, 0)
    BY <2>2, NothingStands
  <2>4. \A T \in Type : DOMAIN Cleared[T] = {}
    BY DEF Cleared, Empty
  <2>5. DOMAIN Empty = {}
    BY DEF Empty
  <2>6. Only(Registered(p), Cleared, Empty)
    BY <2>4, <2>5 DEF Only
  <2> QED
    BY <2>1, <2>3, <2>6 DEF At, Fits
<1> QED
  BY <1>1, <1>2 DEF HistoriesStand

LEMMA StandStep == HistoriesStand /\ [Next]_vars => HistoriesStand'
<1> SUFFICES ASSUME HistoriesStand, [Next]_vars PROVE HistoriesStand'
  OBVIOUS
<1> DEFINE Still == UNCHANGED <<todo, reg, tick, world, past, was>> /\ word'.tick \in Nat
                    /\ (link' = "out" <=> link = "out")
<1>1. ASSUME Still PROVE HistoriesStand'
  <2>1. Shape'
    BY <1>1 DEF HistoriesStand, Shape
  <2> QED
    BY <1>1, <2>1, OthersStand DEF HistoriesStand
<1>2. CASE UNCHANGED vars
  BY <1>1, <1>2 DEF vars, HistoriesStand, Shape
<1>3. CASE \E p \in Peer : Register(p)
  BY <1>3, RegisterStands
<1>4. CASE \E p \in Peer : Tick(p)
  BY <1>4, TickStands
<1>5. CASE \E p \in Peer : Rewind(p)
  BY <1>5, RewindStands
<1>6. CASE OpenLobby
  BY <1>6, OpenLobbyStands
<1>7. CASE Join
  <2>1. word'.tick \in Nat
    BY <1>7 DEF Join, HistoriesStand, Shape
  <2> QED
    BY <1>7, <2>1, ClearedStands DEF Join
<1>8. CASE Compare
  BY <1>1, <1>8 DEF Compare, HistoriesStand, Shape
<1>9. CASE Send
  <2>1. word'.tick \in Nat
    BY <1>9 DEF Send, Body, HistoriesStand, Shape, Peer
  <2> QED
    BY <1>1, <1>9, <2>1 DEF Send
<1>10. CASE Receive
  BY <1>10, ReceiveStands
<1>11. CASE Leave
  <2>1. word'.tick \in Nat
    BY <1>11 DEF Leave, NoWord
  <2> QED
    BY <1>11, <2>1, ClearedStands DEF Leave
<1> QED
  BY <1>2, <1>3, <1>4, <1>5, <1>6, <1>7, <1>8, <1>9, <1>10, <1>11 DEF Next

LEMMA StandAlways == Spec => []HistoriesStand
BY StandInit, StandStep, PTL DEF Spec

(* What was captured comes back when a history puts its types back. *)
LEMMA ComesBack ==
  ASSUME HistoriesStand, NEW p \in Peer, NEW types, NEW w, NEW h, NEW t \in DOMAIN was[p],
         Own(p) \subseteq types, \A T \in Own(p) : w[T] = world[p][T] /\ h[T] = past[p][T]
  PROVE  \A T \in Own(p) \cap DOMAIN was[p][t] :
           Restored(types, w, h, t)[T] =
             IF T \in Resource /\ was[p][t][T] = Absent THEN world[p][T] ELSE was[p][t][T]
<1> TAKE T \in Own(p) \cap DOMAIN was[p][t]
<1>1. IF T \in Resource /\ was[p][t][T] = Absent THEN t \notin DOMAIN past[p][T]
      ELSE t \in DOMAIN past[p][T] /\ past[p][T][t] = was[p][t][T]
  BY DEF HistoriesStand, At, Fits, Stands, Recorded
<1>2. T \in Type /\ T \in types
  BY RegisteredAreTypes DEF HistoriesStand
<1>3. Restored(types, w, h, t)[T] = IF t \in DOMAIN h[T] THEN h[T][t] ELSE w[T]
  BY <1>2 DEF Restored
<1> QED
  BY <1>1, <1>3

BackBy(p) ==
  LET t      == tick'[p]
      sorts  == IF InSession(p) THEN Registered(p) \ Networked(p) ELSE Registered(p)
  IN  t < tick[p] /\ t \in DOMAIN was[p] /\ UNCHANGED <<hosting, link>>
        => \A T \in sorts \cap DOMAIN was[p][t] :
             world'[p][T] = IF T \in Resource /\ was[p][t][T] = Absent
                            THEN world[p][T] ELSE was[p][t][T]

LEMMA RewindGoesBack ==
  ASSUME HistoriesStand, NEW q \in Peer, Rewind(q), NEW p \in Peer
  PROVE  BackBy(p)
<1>1. PICK t \in DOMAIN was[q] :
        /\ world' = [world EXCEPT ![q] = Restored(Registered(q), world[q], past[q], t)]
        /\ tick' = [tick EXCEPT ![q] = t]
  BY DEF Rewind
<1>2. CASE p # q
  <2>1. tick'[p] = tick[p] /\ tick[p] \in Nat
    BY <1>1, <1>2 DEF HistoriesStand, Shape
  <2> QED
    BY <2>1 DEF BackBy
<1>3. CASE p = q
  <2>1. ~InSession(p) /\ Own(p) = Registered(p) /\ Own(p) \subseteq Type
    BY <1>3, RegisteredAreTypes, RegistriesAssumption DEF Rewind, InSession, Own, HistoriesStand, Peer
  <2>3. tick'[p] = t /\ world'[p] = Restored(Registered(p), world[p], past[p], t)
    BY <1>1, <1>3 DEF HistoriesStand, Shape
  <2>4. \A T \in Own(p) \cap DOMAIN was[p][t] :
          world'[p][T] = IF T \in Resource /\ was[p][t][T] = Absent THEN world[p][T] ELSE was[p][t][T]
    <3>1. t \in DOMAIN was[p] /\ Own(p) \subseteq Registered(p)
      BY <1>3, <2>1
    <3>2. \A T \in Own(p) \cap DOMAIN was[p][t] :
            Restored(Registered(p), world[p], past[p], t)[T] =
              IF T \in Resource /\ was[p][t][T] = Absent THEN world[p][T] ELSE was[p][t][T]
      BY <3>1, ComesBack
    <3> QED
      BY <2>3, <3>2
  <2> QED
    BY <2>1, <2>3, <2>4 DEF BackBy
<1> QED
  BY <1>2, <1>3

LEMMA ReceiveGoesBack ==
  ASSUME HistoriesStand, Receive, NEW p \in Peer
  PROVE  BackBy(p)
<1> DEFINE t == word.tick
           said == Says(Client, word)
           w == AppliedTo(world[Client], said)
           h == RecordedIn(past[Client], said, t)
<1>0. Client \in Peer /\ link # "out" /\ tick \in [Peer -> Nat] /\ t \in Nat
  BY DEF Peer, Receive, HistoriesStand, Shape
<1>1. CASE p # Client \/ tick' = tick \/ (t >= tick[Client] /\ tick' = [tick EXCEPT ![Client] = t])
  <2>1. ~(tick'[p] < tick[p])
    <3>1. tick' = tick \/ tick' = [tick EXCEPT ![Client] = t]
      BY DEF Receive
    <3> HIDE DEF t
    <3> QED
      BY <1>0, <1>1, <3>1
  <2> QED
    BY <2>1 DEF BackBy
<1>2. CASE /\ p = Client
           /\ tick' = [tick EXCEPT ![Client] = t]
           /\ world' = [world EXCEPT ![Client] = Restored(LocalOnly(Client), w, h, t)]
  <2>1. tick'[p] = t /\ world'[p] = Restored(LocalOnly(Client), w, h, t)
    BY <1>0, <1>2 DEF HistoriesStand, Shape
  <2>2. \A T \in Own(Client) : w[T] = world[Client][T] /\ h[T] = past[Client][T]
    BY <1>0, ToldFits
  <2>3. Stands(Own(p), world[p], past[p], was[p], tick[p]) /\ Own(p) \subseteq Type
    BY RegisteredAreTypes DEF HistoriesStand, At, Fits
  <2>4. Own(p) = LocalOnly(p)
    BY <1>0, <1>2 DEF Own
  <2> HIDE DEF w, h, t
  <2>5. ASSUME t \in DOMAIN was[p]
        PROVE  \A T \in LocalOnly(p) \cap DOMAIN was[p][t] :
                 world'[p][T] = IF T \in Resource /\ was[p][t][T] = Absent THEN world[p][T] ELSE was[p][t][T]
    <3>1. Own(p) \subseteq LocalOnly(p) /\ t \in DOMAIN was[p]
      BY <2>4, <2>5
    <3>2. \A T \in Own(p) : w[T] = world[p][T] /\ h[T] = past[p][T]
      BY <1>2, <2>2
    <3>3. \A T \in Own(p) \cap DOMAIN was[p][t] :
            Restored(LocalOnly(p), w, h, t)[T] =
              IF T \in Resource /\ was[p][t][T] = Absent THEN world[p][T] ELSE was[p][t][T]
      BY <3>1, <3>2, ComesBack
    <3> QED
      BY <1>2, <2>1, <2>4, <3>3
  <2>6. InSession(p)
    BY <1>0, <1>2, RegistriesAssumption DEF InSession
  <2> QED
    BY <2>1, <2>5, <2>6 DEF BackBy, LocalOnly
<1> QED
  BY <1>1, <1>2 DEF Receive

LEMMA BackStep == HistoriesStand /\ [Next]_vars => [\A p \in Peer : BackBy(p)]_vars
<1> SUFFICES ASSUME HistoriesStand, Next, NEW p \in Peer PROVE BackBy(p)
  OBVIOUS
<1>0. tick \in [Peer -> Nat]
  BY DEF HistoriesStand, Shape
<1>1. CASE tick' = tick
  BY <1>0, <1>1 DEF BackBy
<1>2. CASE \E q \in Peer : Tick(q)
  <2>1. PICK q \in Peer : tick' = [tick EXCEPT ![q] = tick[q] + 1]
    BY <1>2 DEF Tick
  <2>2. ~(tick'[p] < tick[p])
    BY <1>0, <2>1
  <2> QED
    BY <2>2 DEF BackBy
<1>3. CASE \E q \in Peer : Rewind(q)
  BY <1>3, RewindGoesBack
<1>4. CASE hosting' # hosting \/ link' # link
  BY <1>4 DEF BackBy
<1>5. CASE Receive
  BY <1>5, ReceiveGoesBack
<1>6. CASE OpenLobby
  BY <1>4, <1>6 DEF OpenLobby
<1>7. CASE Join
  BY <1>4, <1>7 DEF Join
<1>8. CASE Leave
  BY <1>4, <1>8 DEF Leave
<1>9. CASE (\E q \in Peer : Register(q)) \/ Compare \/ Send
  BY <1>1, <1>9 DEF Register, Compare, Send
<1> QED
  BY <1>2, <1>3, <1>5, <1>6, <1>7, <1>8, <1>9 DEF Next

(* A step back, in a session or out of it, puts every type a peer answers for back  *)
(* to what it was when the tick was captured: rollback_and_resimulate's restore_all *)
(* and the client's restore_local_only, whatever was registered, networked and      *)
(* networked later, and whatever the host's word was.                               *)
THEOREM BackToWhatWas == Spec => GoesBackExactly
<1>1. HistoriesStand /\ [Next]_vars =>
        [\A p \in Peer :
           LET t      == tick'[p]
               sorts  == IF InSession(p) THEN Registered(p) \ Networked(p) ELSE Registered(p)
           IN  t < tick[p] /\ t \in DOMAIN was[p] /\ UNCHANGED <<hosting, link>>
                 => \A T \in sorts \cap DOMAIN was[p][t] :
                      world'[p][T] = IF T \in Resource /\ was[p][t][T] = Absent
                                     THEN world[p][T] ELSE was[p][t][T]]_vars
  BY BackStep DEF BackBy
<1> QED
  BY <1>1, StandAlways, PTL DEF Spec, GoesBackExactly

-----------------------------------------------------------------------------
(* PLACES *)

(* The elements of a set up to each of them; their number is its place. *)
InOrder(N, up) ==
  /\ up \in [N -> SUBSET N] /\ \A i \in N : i \in up[i]
  /\ \A i, j \in N : i # j => (up[i] \subseteq up[j] /\ j \notin up[i])
                               \/ (up[j] \subseteq up[i] /\ i \notin up[j])
Ranked(N, up) ==
  /\ \A i \in N : Cardinality(up[i]) \in 1..Cardinality(N)
  /\ \A i, j \in N : Cardinality(up[i]) = Cardinality(up[j]) => i = j
  /\ \A k \in 1..Cardinality(N) : \E i \in N : Cardinality(up[i]) = k

(* A finite set in an order: its elements have the places from the first to the last. *)
LEMMA Ranks ==
  ASSUME NEW N, IsFiniteSet(N), NEW up, InOrder(N, up)
  PROVE  Ranked(N, up)
<1> USE DEF InOrder
<1> DEFINE n == Cardinality(N)
           f == [i \in N |-> Cardinality(up[i])]
<1>1. n \in Nat
  BY FS_CardinalityType
<1>2. \A i \in N : IsFiniteSet(up[i]) /\ Cardinality(up[i]) \in 1..n
  <2> TAKE i \in N
  <2>1. IsFiniteSet(up[i]) /\ Cardinality(up[i]) <= n
    BY FS_Subset
  <2>2. Cardinality(up[i]) \in Nat /\ Cardinality(up[i]) # 0
    BY <2>1, FS_CardinalityType, FS_EmptySet
  <2> QED
    BY <1>1, <2>1, <2>2
<1>3. \A i, j \in N : up[i] \subseteq up[j] /\ Cardinality(up[i]) = Cardinality(up[j]) => up[i] = up[j]
  BY <1>2, FS_Subset
<1>4. \A i, j \in N : Cardinality(up[i]) = Cardinality(up[j]) => i = j
  BY <1>3
<1>5. f \in Injection(N, 1..n)
  BY <1>2, <1>4 DEF Injection, IsInjective
<1>6. IsFiniteSet(1..n) /\ Cardinality(1..n) = n
  BY <1>1, FS_Interval
<1>7. f \in Surjection(N, 1..n)
  BY <1>5, <1>6, FS_Injection
<1>8. \A k \in 1..n : \E i \in N : Cardinality(up[i]) = k
  BY <1>7 DEF Surjection
<1> QED
  BY <1>2, <1>4, <1>8 DEF Ranked

(* The indices of a mask, in their order. *)
LEMMA IterIs ==
  ASSUME NEW mask \in SUBSET Nat, IsFiniteSet(mask)
  PROVE  /\ \A k \in mask : Place(k, mask) \in DOMAIN Iter(mask) /\ Iter(mask)[Place(k, mask)] = k
         /\ \A i \in DOMAIN Iter(mask) : Iter(mask)[i] \in mask
<1> DEFINE up == [k \in mask |-> {j \in mask : j <= k}]
<1>1. up \in [mask -> SUBSET mask] /\ \A k \in mask : k \in up[k]
  OBVIOUS
<1>2. ASSUME NEW i \in mask, NEW j \in mask, i # j
      PROVE  \/ up[i] \subseteq up[j] /\ j \notin up[i]
             \/ up[j] \subseteq up[i] /\ i \notin up[j]
  <2>1. \A l, m \in mask : m \in up[l] <=> m <= l
    OBVIOUS
  <2>2. up[i] \subseteq mask /\ up[j] \subseteq mask /\ mask \subseteq Nat
    OBVIOUS
  <2> HIDE DEF up
  <2>3. CASE i < j
    <3>1. \A m \in mask : m <= i => m <= j
      BY <2>2, <2>3
    <3>2. ~(j <= i)
      BY <2>2, <2>3
    <3> QED
      BY <2>1, <2>2, <3>1, <3>2
  <2>4. CASE j < i
    <3>1. \A m \in mask : m <= j => m <= i
      BY <2>2, <2>4
    <3>2. ~(i <= j)
      BY <2>2, <2>4
    <3> QED
      BY <2>1, <2>2, <3>1, <3>2
  <2>5. i < j \/ j < i
    BY <1>2, <2>2
  <2> QED
    BY <2>3, <2>4, <2>5
<1>3. \A k \in mask : Place(k, mask) = Cardinality(up[k])
  BY DEF Place
<1> HIDE DEF up
<1>4. Ranked(mask, up)
  <2>1. \A i, j \in mask : i # j => (up[i] \subseteq up[j] /\ j \notin up[i])
                                   \/ (up[j] \subseteq up[i] /\ i \notin up[j])
    <3> TAKE i, j \in mask
    <3> QED
      BY <1>2
  <2>2. InOrder(mask, up)
    BY <1>1, <2>1, Zenon DEF InOrder
  <2> QED
    BY <2>2, Ranks
<1>5. \A i \in 1..Cardinality(mask) : Iter(mask)[i] \in mask /\ Place(Iter(mask)[i], mask) = i
  <2> TAKE i \in 1..Cardinality(mask)
  <2>1. \E k \in mask : Place(k, mask) = i
    BY <1>3, <1>4 DEF Ranked
  <2>2. Iter(mask)[i] = CHOOSE k \in mask : Place(k, mask) = i
    BY DEF Iter
  <2> QED
    BY <2>1, <2>2
<1>6. DOMAIN Iter(mask) = 1..Cardinality(mask)
  BY DEF Iter
<1>7. ASSUME NEW k \in mask PROVE Place(k, mask) \in DOMAIN Iter(mask) /\ Iter(mask)[Place(k, mask)] = k
  <2>1. Place(k, mask) \in 1..Cardinality(mask)
    BY <1>3, <1>4 DEF Ranked
  <2>2. Iter(mask)[Place(k, mask)] \in mask /\ Place(Iter(mask)[Place(k, mask)], mask) = Place(k, mask)
    BY <1>5, <2>1
  <2> QED
    BY <1>3, <1>4, <1>6, <2>1, <2>2 DEF Ranked
<1> QED
  BY <1>5, <1>6, <1>7

(* The wire order names each entry that travels, and no other. *)
LEMMA WireOrderIs ==
  ASSUME NEW es \in Seq(Registration)
  PROVE  /\ \E n \in Nat : DOMAIN WireOrder(es) = 1..n
         /\ \A k \in DOMAIN WireOrder(es) : WireOrder(es)[k] \in Travelling(es)
         /\ \A i \in Travelling(es) : \E k \in DOMAIN WireOrder(es) : WireOrder(es)[k] = i
         /\ WireOrder(es) # Open
<1> DEFINE N == Travelling(es)
           up == [i \in N |-> UpTo(es, i)]
           W == WireOrder(es)
<1>1. N \subseteq 1..Len(es) /\ Len(es) \in Nat /\ \A i \in N : es[i].name \in Nat
  <2>1. DOMAIN es = 1..Len(es) /\ Len(es) \in Nat /\ \A i \in 1..Len(es) : es[i] \in Registration
    OBVIOUS
  <2>2. \A i \in 1..Len(es) : es[i].name \in Nat
    BY <2>1 DEF Registration
  <2> QED
    BY <2>1, <2>2 DEF Travelling
<1>2. IsFiniteSet(N) /\ Cardinality(N) \in Nat
  <2>1. IsFiniteSet(1..Len(es))
    BY <1>1, FS_Interval
  <2>2. IsFiniteSet(N)
    BY <1>1, <2>1, FS_Subset
  <2> QED
    BY <2>2, FS_CardinalityType
<1>3. up \in [N -> SUBSET N] /\ \A i \in N : i \in up[i]
  BY <1>1 DEF UpTo
<1>4. ASSUME NEW i \in N, NEW j \in N, i # j
      PROVE  \/ up[i] \subseteq up[j] /\ j \notin up[i]
             \/ up[j] \subseteq up[i] /\ i \notin up[j]
  <2>1. i \in Nat /\ j \in Nat /\ N \subseteq Nat
    BY <1>1
  <2>2. CASE es[i].name < es[j].name \/ (es[i].name = es[j].name /\ i < j)
    <3>1. \A l \in N : l \in UpTo(es, i) => l \in UpTo(es, j)
      BY <1>1, <2>1, <2>2 DEF UpTo
    <3>2. j \notin UpTo(es, i)
      BY <1>1, <2>1, <2>2 DEF UpTo
    <3> QED
      BY <3>1, <3>2 DEF UpTo
  <2>3. CASE es[j].name < es[i].name \/ (es[i].name = es[j].name /\ j < i)
    <3>1. \A l \in N : l \in UpTo(es, j) => l \in UpTo(es, i)
      BY <1>1, <2>1, <2>3 DEF UpTo
    <3>2. i \notin UpTo(es, j)
      BY <1>1, <2>1, <2>3 DEF UpTo
    <3> QED
      BY <3>1, <3>2 DEF UpTo
  <2> QED
    BY <1>1, <1>4, <2>1, <2>2, <2>3
<1>5. \A i \in N : Cardinality(up[i]) = Cardinality(UpTo(es, i))
  OBVIOUS
<1> HIDE DEF up, N
<1>6. Ranked(N, up)
  <2>1. \A i, j \in N : i # j => (up[i] \subseteq up[j] /\ j \notin up[i])
                                \/ (up[j] \subseteq up[i] /\ i \notin up[j])
    <3> TAKE i, j \in N
    <3> QED
      BY <1>4
  <2>2. InOrder(N, up)
    BY <1>3, <2>1, Zenon DEF InOrder
  <2> QED
    BY <1>2, <2>2, Ranks
<1>7. DOMAIN W = 1..Cardinality(N)
  BY DEF WireOrder, N
<1>8. \A k \in 1..Cardinality(N) : W[k] \in N /\ Cardinality(UpTo(es, W[k])) = k
  <2> TAKE k \in 1..Cardinality(N)
  <2>1. \E i \in N : Cardinality(UpTo(es, i)) = k
    BY <1>5, <1>6 DEF Ranked
  <2>2. W[k] = CHOOSE i \in N : Cardinality(UpTo(es, i)) = k
    BY DEF WireOrder, N
  <2> QED
    BY <2>1, <2>2
<1>9. ASSUME NEW i \in N PROVE \E k \in 1..Cardinality(N) : W[k] = i
  <2> DEFINE k == Cardinality(UpTo(es, i))
  <2>1. k \in 1..Cardinality(N)
    BY <1>5, <1>6 DEF Ranked
  <2>2. W[k] \in N /\ Cardinality(UpTo(es, W[k])) = k
    BY <1>8, <2>1
  <2>3. W[k] = i
    BY <1>5, <1>6, <2>2 DEF Ranked
  <2> QED
    BY <2>1, <2>3
<1>10. ASSUME W = Open PROVE FALSE
  <2>1. 1 \in DOMAIN W /\ W[1] = 0
    BY <1>10 DEF Open
  <2>2. W[1] \in 1..Len(es)
    BY <1>1, <1>7, <1>8, <2>1
  <2> QED
    BY <1>1, <2>1, <2>2
<1> QED
  BY <1>2, <1>7, <1>8, <1>9, <1>10 DEF N

-----------------------------------------------------------------------------
(* NAMES AND WIRES *)

(* What the builds of a peer network. *)
Offered(p) == {f \in UNION {Range(build) : build \in Builds[p]} : f.networked}

(* A name is one type's, in every build of the game: what the assertions of the    *)
(* registrations ask of one app, and the comparison of names between two rests on. *)
NamesIdentify ==
  \A p, q \in Peer : \A f \in Offered(p), g \in Offered(q) :
    SortOf(f.type) = SortOf(g.type) /\ f.name = g.name => f.type = g.type

AsOffered(p, o) == o.networked => \E f \in Offered(p) : f.type = o.type /\ f.name = o.name

FromBuilds ==
  \A p \in Peer :
    /\ \A e \in Range(todo[p]) : AsOffered(p, e)
    /\ \A s \in Sort : \A o \in Range(reg[p][s]) : SortOf(o.type) = s /\ AsOffered(p, o)

WiresRight ==
  /\ wire = [p \in Peer |-> [s \in Sort |-> wire[p][s]]]
  /\ \A p \in Peer, s \in Sort : wire[p][s] = Open \/ wire[p][s] = WireOrder(reg[p][s])

Fixed(p) == \A s \in Sort : wire[p][s] # Open

(* The ticks the client has been told of, or is about to be. *)
Told == heard \cup (IF word = NoWord THEN {} ELSE {word.tick})

Session ==
  /\ link # "out" => hosting /\ \A p \in Peer : Fixed(p)
  /\ link = "agreed" => Matches
  /\ Told # {} => link = "agreed"

Structure == FromBuilds /\ WiresRight /\ Session

(* What a registration leaves of one registry. *)
LEMMA RegisteredFrom ==
  ASSUME NEW es \in Seq(Registration), NEW e \in Registration
  PROVE  /\ \A n \in Range(Append(es, e)) : n \in Range(es) \/ n = e
         /\ \A n \in Range(Upgraded(es, e)) :
              n \in Range(es) \/ (n.type = e.type /\ n.name = e.name /\ n.networked = e.networked)
<1>0. DOMAIN es = 1..Len(es) /\ Len(es) \in Nat
  OBVIOUS
<1>1. \A n \in Range(Append(es, e)) : n \in Range(es) \/ n = e
  <2> TAKE n \in Range(Append(es, e))
  <2>1. PICK i \in 1..(Len(es) + 1) : Append(es, e)[i] = n
    BY DEF Range
  <2>2. CASE i = Len(es) + 1
    BY <2>1, <2>2
  <2>3. CASE i \in 1..Len(es)
    <3>1. Append(es, e)[i] = es[i]
      BY <2>3
    <3> QED
      BY <1>0, <2>1, <2>3, <3>1 DEF Range
  <2> QED
    BY <1>0, <2>1, <2>2, <2>3
<1>2. ASSUME NEW n \in Range(Upgraded(es, e))
      PROVE  n \in Range(es) \/ (n.type = e.type /\ n.name = e.name /\ n.networked = e.networked)
  <2>1. PICK i \in DOMAIN es : Upgraded(es, e)[i] = n
    BY DEF Range, Upgraded
  <2>2. CASE es[i].type = e.type
    <3>1. n = [e EXCEPT !.kept = es[i].kept]
      BY <2>1, <2>2 DEF Upgraded
    <3> QED
      BY <3>1 DEF Registration
  <2>3. CASE es[i].type # e.type
    BY <2>1, <2>3 DEF Upgraded, Range
  <2> QED
    BY <2>2, <2>3
<1> QED
  BY <1>1, <1>2

LEMMA StructureInit == Init => Structure
<1> SUFFICES ASSUME Init PROVE Structure
  OBVIOUS
<1>1. FromBuilds
  <2>1. ASSUME NEW p \in Peer, NEW e \in Range(todo[p]) PROVE AsOffered(p, e)
    <3>1. todo[p] \in Builds[p]
      BY DEF Init
    <3> QED
      BY <3>1 DEF AsOffered, Offered
  <2>2. \A p \in Peer, s \in Sort : Range(reg[p][s]) = {}
    BY DEF Init, Range, Empty
  <2> QED
    BY <2>1, <2>2 DEF FromBuilds
<1>2. WiresRight
  BY DEF Init, WiresRight
<1>3. Session
  BY DEF Init, Session, Told
<1> QED
  BY <1>1, <1>2, <1>3 DEF Structure

LEMMA RegisterStructure ==
  ASSUME Shape, Structure, NEW p \in Peer, Register(p)
  PROVE  Structure' /\ link = "out"
<1> DEFINE e == Head(todo[p])
           s == SortOf(e.type)
           es == reg[p][s]
<1>1. e \in Registration /\ todo[p] \in Seq(Registration) /\ todo[p] # <<>>
  BY DEF Register, Shape, Empty
<1>2. s \in Sort /\ es \in Seq(Registration)
  BY DEF SortOf, Sort, Shape
<1>3. e \in Range(todo[p]) /\ \A x \in Range(Tail(todo[p])) : x \in Range(todo[p])
  <2>1. 1 \in DOMAIN todo[p] /\ e = todo[p][1]
    BY <1>1
  <2>2. ASSUME NEW x \in Range(Tail(todo[p])) PROVE x \in Range(todo[p])
    <3>1. PICK i \in DOMAIN Tail(todo[p]) : Tail(todo[p])[i] = x
      BY DEF Range
    <3>2. i + 1 \in DOMAIN todo[p] /\ todo[p][i + 1] = x
      BY <1>1, <3>1
    <3> QED
      BY <3>2 DEF Range
  <2> QED
    BY <2>1, <2>2 DEF Range
<1>4. AsOffered(p, e) /\ SortOf(e.type) = s
  BY <1>3 DEF Structure, FromBuilds
<1>5. /\ wire[p][s] = Open /\ wire' = wire
      /\ UNCHANGED <<hosting, link, word, heard>> /\ todo' = [todo EXCEPT ![p] = Tail(todo[p])]
  BY DEF Register
<1> HIDE DEF e, s
<1>6. /\ reg'[p][s] = Append(es, e) \/ reg'[p][s] = Upgraded(es, e)
      /\ \A q \in Peer, r \in Sort : q # p \/ r # s => reg'[q][r] = reg[q][r]
  <2>1. reg' = [reg EXCEPT ![p][s] = Append(@, e)] \/ reg' = [reg EXCEPT ![p][s] = Upgraded(@, e)]
    BY DEF Register, e, s
  <2> QED
    BY <1>2, <2>1 DEF Shape
<1>7. \A q \in Peer, r \in Sort : \A n \in Range(reg'[q][r]) : SortOf(n.type) = r /\ AsOffered(q, n)
  <2> TAKE q \in Peer, r \in Sort
  <2> TAKE n \in Range(reg'[q][r])
  <2>1. CASE q = p /\ r = s
    <3>1. n \in Range(es) \/ n = e \/ (n.type = e.type /\ n.name = e.name /\ n.networked = e.networked)
      <4>1. n \in Range(Append(es, e)) \/ n \in Range(Upgraded(es, e))
        BY <1>6, <2>1
      <4> QED
        BY <1>1, <1>2, <4>1, RegisteredFrom
    <3> QED
      BY <1>4, <2>1, <3>1 DEF Structure, FromBuilds, AsOffered
  <2>2. CASE q # p \/ r # s
    BY <1>6, <2>2 DEF Structure, FromBuilds
  <2> QED
    BY <2>1, <2>2
<1>8. \A q \in Peer : \A x \in Range(todo'[q]) : AsOffered(q, x)
  BY <1>3, <1>5 DEF Shape, Structure, FromBuilds
<1>9. FromBuilds'
  BY <1>7, <1>8 DEF FromBuilds, AsOffered
<1>10. WiresRight'
  BY <1>5, <1>6 DEF Structure, WiresRight
<1>11. link = "out"
  BY <1>2, <1>5 DEF Structure, Session, Fixed
<1>12. Session'
  BY <1>5, <1>11 DEF Structure, Session, Told
<1> QED
  BY <1>9, <1>10, <1>11, <1>12 DEF Structure

LEMMA StructureStep == Shape /\ Structure /\ [Next]_vars => Structure'
<1> SUFFICES ASSUME Shape, Structure, [Next]_vars PROVE Structure'
  OBVIOUS
<1>1. ASSUME UNCHANGED <<todo, reg>> PROVE FromBuilds'
  BY <1>1 DEF Structure, FromBuilds
<1>2. ASSUME UNCHANGED <<reg, wire>> PROVE WiresRight' /\ (Matches' <=> Matches) /\ \A p \in Peer : Fixed(p)' <=> Fixed(p)
  BY <1>2 DEF Structure, WiresRight, Matches, Announced, WireNames, Fixed
<1>3. CASE UNCHANGED <<todo, reg, wire, hosting, link>> /\ (Told' # {} => link = "agreed")
  BY <1>1, <1>2, <1>3 DEF Structure, Session
<1>4. CASE UNCHANGED vars
  <2>1. Told' = Told
    BY <1>4 DEF vars, Told
  <2> QED
    BY <1>3, <1>4, <2>1 DEF vars, Structure, Session
<1>5. CASE \E p \in Peer : Register(p)
  BY <1>5, RegisterStructure
<1>6. CASE \E p \in Peer : Tick(p) \/ Rewind(p)
  <2>1. UNCHANGED <<todo, reg, wire, hosting, link, word, heard>>
    BY <1>6 DEF Tick, Rewind
  <2> QED
    BY <1>3, <2>1 DEF Told, Structure, Session
<1>7. CASE OpenLobby
  <2>1. UNCHANGED <<todo, reg, wire, link, word, heard>> /\ hosting'
    BY <1>7 DEF OpenLobby
  <2> QED
    BY <1>1, <1>2, <2>1 DEF Structure, Session, Told
<1>8. CASE Join
  <2>1. UNCHANGED <<todo, reg, hosting, word, heard>> /\ hosting /\ link = "out" /\ link' = "announced"
        /\ wire' = [p \in Peer |-> Frozen(p)]
    BY <1>8 DEF Join
  <2>2. \A p \in Peer, s \in Sort : wire'[p][s] = WireOrder(reg[p][s]) /\ wire'[p][s] # Open
    <3> TAKE p \in Peer, s \in Sort
    <3>1. wire'[p][s] = IF wire[p][s] = Open THEN WireOrder(reg[p][s]) ELSE wire[p][s]
      BY <2>1 DEF Frozen
    <3>2. WireOrder(reg[p][s]) # Open
      BY WireOrderIs DEF Shape
    <3> QED
      BY <3>1, <3>2 DEF Structure, WiresRight
  <2>3. WiresRight'
    BY <2>1, <2>2 DEF WiresRight, Frozen
  <2>4. Session'
    BY <2>1, <2>2 DEF Structure, Session, Fixed, Told
  <2> QED
    BY <1>1, <2>1, <2>3, <2>4 DEF Structure
<1>9. CASE Compare
  <2>1. UNCHANGED <<todo, reg, wire, hosting, word, heard>> /\ link = "announced"
        /\ link' = IF Matches THEN "agreed" ELSE "refused"
    BY <1>9 DEF Compare
  <2> QED
    BY <1>1, <1>2, <2>1 DEF Structure, Session, Told
<1>10. CASE Send
  BY <1>3, <1>10 DEF Send, Told
<1>11. CASE Receive
  BY <1>3, <1>11 DEF Receive, Told
<1>12. CASE Leave
  <2>1. UNCHANGED <<todo, reg, wire, hosting>> /\ link' = "out" /\ word' = NoWord /\ heard' = {}
    BY <1>12 DEF Leave
  <2> QED
    BY <1>1, <1>2, <2>1 DEF Structure, Session, Told
<1> QED
  BY <1>4, <1>5, <1>6, <1>7, <1>8, <1>9, <1>10, <1>11, <1>12 DEF Next

-----------------------------------------------------------------------------
(* THE WORD *)

(* The wire of a peer names every type it networks, and no other. *)
LEMMA WireIs ==
  ASSUME Shape, Structure, NEW p \in Peer, Fixed(p)
  PROVE  /\ \A s \in Sort : \E n \in Nat : DOMAIN wire[p][s] = 1..n
         /\ \A s \in Sort : \A k \in DOMAIN wire[p][s] :
              \E o \in Range(reg[p][s]) : o = reg[p][s][wire[p][s][k]] /\ o.networked
         /\ \A T \in Networked(p) : T \in Type /\ \E k \in DOMAIN wire[p][SortOf(T)] : TypeAt(p, SortOf(T), k) = T
<1>1. ASSUME NEW s \in Sort
      PROVE  /\ \E n \in Nat : DOMAIN wire[p][s] = 1..n
             /\ \A k \in DOMAIN wire[p][s] : wire[p][s][k] \in Travelling(reg[p][s])
             /\ \A i \in Travelling(reg[p][s]) : \E k \in DOMAIN wire[p][s] : wire[p][s][k] = i
  <2>1. wire[p][s] = WireOrder(reg[p][s])
    BY DEF Fixed, Structure, WiresRight
  <2>2. reg[p][s] \in Seq(Registration)
    BY DEF Shape
  <2> QED
    BY <2>1, <2>2, WireOrderIs
<1>2. ASSUME NEW s \in Sort, NEW k \in DOMAIN wire[p][s]
      PROVE  \E o \in Range(reg[p][s]) : o = reg[p][s][wire[p][s][k]] /\ o.networked
  <2>1. wire[p][s][k] \in Travelling(reg[p][s])
    BY <1>1
  <2> QED
    BY <2>1 DEF Travelling, Range
<1>3. ASSUME NEW T \in Networked(p)
      PROVE  T \in Type /\ \E k \in DOMAIN wire[p][SortOf(T)] : TypeAt(p, SortOf(T), k) = T
  <2>1. PICK s \in Sort : \E e \in Range(reg[p][s]) : e.networked /\ e.type = T
    BY DEF Networked, Entries, Sort
  <2>2. PICK e \in Range(reg[p][s]) : e.networked /\ e.type = T
    BY <2>1
  <2>3. PICK i \in DOMAIN reg[p][s] : reg[p][s][i] = e
    BY DEF Range
  <2>4. i \in Travelling(reg[p][s]) /\ SortOf(T) = s
    BY <2>2, <2>3 DEF Travelling, Structure, FromBuilds
  <2>5. PICK k \in DOMAIN wire[p][s] : wire[p][s][k] = i
    BY <1>1, <2>4
  <2>6. T \in Type
    BY RegisteredAreTypes DEF Networked, Registered
  <2> QED
    BY <2>2, <2>3, <2>4, <2>5, <2>6 DEF TypeAt
<1> QED
  BY <1>1, <1>2, <1>3

LEMMA WireIndexIs ==
  ASSUME Shape, Structure, NEW p \in Peer, Fixed(p), NEW T \in Networked(p)
  PROVE  /\ WireIndex(p, T) \in DOMAIN wire[p][SortOf(T)]
         /\ TypeAt(p, SortOf(T), WireIndex(p, T)) = T
<1>1. \E k \in DOMAIN wire[p][SortOf(T)] : TypeAt(p, SortOf(T), k) = T
  BY WireIs
<1> QED
  BY <1>1 DEF WireIndex

(* What is encoded for a wire index is the value saved there. *)
LEMMA EncodedIs ==
  ASSUME Shape, Structure, NEW p \in Peer, Fixed(p), NEW s \in Sort, NEW t
  PROVE  LET mask == Mask(p, s, t)
         IN  /\ mask \in SUBSET Nat /\ IsFiniteSet(mask)
             /\ \A k \in mask : /\ Place(k, mask) \in DOMAIN Iter(mask) /\ Iter(mask)[Place(k, mask)] = k
                                /\ Encoded(p, s, t)[Place(k, mask)] = past[p][TypeAt(p, s, k)][t]
             /\ \A i \in DOMAIN Iter(mask) : /\ Iter(mask)[i] \in mask
                                             /\ Encoded(p, s, t)[i] = past[p][TypeAt(p, s, Iter(mask)[i])][t]
<1> DEFINE mask == Mask(p, s, t)
<1>1. PICK n \in Nat : DOMAIN wire[p][s] = 1..n
  BY WireIs
<1>2. mask \in SUBSET (1..n)
  BY <1>1 DEF Mask
<1>3. mask \in SUBSET Nat /\ IsFiniteSet(mask)
  <2>1. IsFiniteSet(1..n)
    BY FS_Interval
  <2>2. IsFiniteSet(mask)
    BY <1>2, <2>1, FS_Subset
  <2> QED
    BY <1>2, <2>2
<1>4. \A i \in DOMAIN Iter(mask) : Encoded(p, s, t)[i] = past[p][TypeAt(p, s, Iter(mask)[i])][t]
  BY DEF Encoded
<1> HIDE DEF mask
<1>5. /\ \A k \in mask : Place(k, mask) \in DOMAIN Iter(mask) /\ Iter(mask)[Place(k, mask)] = k
      /\ \A i \in DOMAIN Iter(mask) : Iter(mask)[i] \in mask
  BY <1>3, IterIs
<1>6. \A k \in mask : Encoded(p, s, t)[Place(k, mask)] = past[p][TypeAt(p, s, k)][t]
  BY <1>4, <1>5
<1> QED
  BY <1>3, <1>4, <1>5, <1>6 DEF mask

(* A body says of the types of the peer that made it what its history has of them. *)
LEMMA BodySays ==
  ASSUME Shape, Structure, NEW p \in Peer, Fixed(p), NEW t, NEW T \in Networked(p)
  PROVE  LET said == Says(p, Body(p, t))
         IN  /\ HasAt(p, T, t) => T \in DOMAIN said
             /\ T \in DOMAIN said => IF HasAt(p, T, t) THEN said[T] = past[p][T][t]
                                     ELSE T \in Component /\ said[T] = Absent
             /\ T \in Component => T \in DOMAIN said
<1> DEFINE body == Body(p, t)
           s == SortOf(T)
           at == WireIndex(p, T)
           mask == Mask(p, s, t)
<1>1. at \in DOMAIN wire[p][s] /\ TypeAt(p, s, at) = T /\ s \in Sort
  BY WireIndexIs DEF SortOf, Sort
<1>2. at \in mask <=> HasAt(p, T, t)
  BY <1>1 DEF Mask
<1>3. /\ \A k \in mask : /\ Place(k, mask) \in DOMAIN Iter(mask) /\ Iter(mask)[Place(k, mask)] = k
                         /\ Encoded(p, s, t)[Place(k, mask)] = past[p][TypeAt(p, s, k)][t]
      /\ \A i \in DOMAIN Iter(mask) : /\ Iter(mask)[i] \in mask
                                      /\ Encoded(p, s, t)[i] = past[p][TypeAt(p, s, Iter(mask)[i])][t]
  BY <1>1, EncodedIs
<1>4. T \in Type /\ Component \cap Resource = {}
  BY WireIs, RegistriesAssumption
<1>5. CASE T \in Component
  <2>1. s = "component" /\ body.entity.present = mask /\ body.entity.bytes = Encoded(p, s, t)
    BY <1>5 DEF SortOf, Body, Record
  <2>2. Decoded(p, body, T) = IF at \in mask THEN Encoded(p, s, t)[Place(at, mask)] ELSE Absent
    BY <2>1 DEF Decoded
  <2>3. T \in DOMAIN Says(p, body) /\ Says(p, body)[T] = Decoded(p, body, T)
    BY <1>5 DEF Says
  <2> QED
    BY <1>1, <1>2, <1>3, <1>5, <2>2, <2>3
<1>6. CASE T \in Resource
  <2> DEFINE pairs == body.resources
  <2>1. s = "resource" /\ T \notin Component
    BY <1>4, <1>6 DEF SortOf
  <2>2. pairs = [i \in DOMAIN Iter(mask) |-> <<Iter(mask)[i], Encoded(p, s, t)[i]>>]
    BY <2>1 DEF Body, SerializeAll
  <2> HIDE DEF pairs, mask, at, s
  <2>3. \A pair \in Range(pairs) : pair[1] \in mask /\ pair[2] = past[p][TypeAt(p, s, pair[1])][t]
    BY <1>3, <2>2 DEF Range
  <2>4. \A k \in mask : \E pair \in Range(pairs) : pair[1] = k
    <3> TAKE k \in mask
    <3>1. Place(k, mask) \in DOMAIN pairs /\ pairs[Place(k, mask)][1] = k
      BY <1>3, <2>2
    <3> QED
      BY <3>1 DEF Range
  <2>5. T \in DOMAIN Deserialized(p, body) <=> \E pair \in Range(pairs) : pair[1] = at
    BY <1>6 DEF Deserialized, pairs, at
  <2>6. T \in DOMAIN Deserialized(p, body) =>
          Deserialized(p, body)[T] = (CHOOSE pair \in Range(pairs) : pair[1] = at)[2]
    BY <1>6 DEF Deserialized, pairs, at
  <2>7. T \in DOMAIN Deserialized(p, body) => at \in mask /\ Deserialized(p, body)[T] = past[p][T][t]
    <3>1. SUFFICES ASSUME T \in DOMAIN Deserialized(p, body)
                   PROVE  at \in mask /\ Deserialized(p, body)[T] = past[p][T][t]
      OBVIOUS
    <3> DEFINE chosen == CHOOSE pair \in Range(pairs) : pair[1] = at
    <3>2. chosen \in Range(pairs) /\ chosen[1] = at
      BY <2>5, <3>1
    <3> QED
      BY <1>1, <2>3, <2>6, <3>1, <3>2
  <2>8. T \in DOMAIN Says(p, body) <=> T \in DOMAIN Deserialized(p, body)
    BY <2>1 DEF Says
  <2>9. T \in DOMAIN Says(p, body) => Says(p, body)[T] = Deserialized(p, body)[T]
    BY <2>1 DEF Says
  <2> QED
    BY <1>2, <2>1, <2>4, <2>5, <2>7, <2>8, <2>9
<1> QED
  BY <1>4, <1>5, <1>6 DEF Type

(* Once the names are found to be the same, the two read a body alike. *)
LEMMA SameSays ==
  ASSUME NamesIdentify, Shape, Structure, link = "agreed", NEW body
  PROVE  Networked(Client) = Networked(Host) /\ Says(Client, body) = Says(Host, body)
<1>1. Host \in Peer /\ Client \in Peer /\ Fixed(Host) /\ Fixed(Client) /\ Matches
  BY DEF Structure, Session, Peer
<1>2. ASSUME NEW s \in Sort
      PROVE  /\ DOMAIN wire[Host][s] = DOMAIN wire[Client][s]
             /\ \A k \in DOMAIN wire[Host][s] : TypeAt(Host, s, k) = TypeAt(Client, s, k)
  <2>1. WireNames(Host, s) = WireNames(Client, s)
    <3>1. Announced(Host)[s] = Announced(Client)[s]
      BY <1>1 DEF Matches
    <3> QED
      BY <3>1 DEF Announced
  <2>2. DOMAIN wire[Host][s] = DOMAIN wire[Client][s]
    BY <2>1 DEF WireNames
  <2>3. ASSUME NEW k \in DOMAIN wire[Host][s] PROVE TypeAt(Host, s, k) = TypeAt(Client, s, k)
    <3>1. WireNames(Host, s)[k] = WireNames(Client, s)[k]
      BY <2>1
    <3>2. reg[Host][s][wire[Host][s][k]].name = reg[Client][s][wire[Client][s][k]].name
      BY <2>2, <3>1 DEF WireNames
    <3>3. PICK o \in Range(reg[Host][s]) : o = reg[Host][s][wire[Host][s][k]] /\ o.networked
      BY <1>1, WireIs
    <3>4. PICK c \in Range(reg[Client][s]) : c = reg[Client][s][wire[Client][s][k]] /\ c.networked
      BY <1>1, <2>2, WireIs
    <3>5. PICK f \in Offered(Host) : f.type = o.type /\ f.name = o.name
      BY <1>1, <3>3 DEF Structure, FromBuilds, AsOffered
    <3>6. PICK g \in Offered(Client) : g.type = c.type /\ g.name = c.name
      BY <1>1, <3>4 DEF Structure, FromBuilds, AsOffered
    <3>7. SortOf(o.type) = s /\ SortOf(c.type) = s
      BY <1>1 DEF Structure, FromBuilds
    <3>8. f.type = g.type
      BY <1>1, <3>2, <3>3, <3>4, <3>5, <3>6, <3>7 DEF NamesIdentify
    <3> QED
      BY <3>3, <3>4, <3>5, <3>6, <3>8 DEF TypeAt
  <2> QED
    BY <2>2, <2>3
<1>3. ASSUME NEW p \in Peer, Fixed(p), NEW s \in Sort, NEW k \in DOMAIN wire[p][s] PROVE TypeAt(p, s, k) \in Networked(p)
  <2>1. PICK o \in Range(reg[p][s]) : o = reg[p][s][wire[p][s][k]] /\ o.networked
    BY <1>3, WireIs
  <2> QED
    BY <2>1 DEF TypeAt, Networked, Entries, Sort
<1>4. \A T : SortOf(T) \in Sort
  BY DEF SortOf, Sort
<1>5. \A T \in Networked(Host) : T \in Networked(Client)
  <2> TAKE T \in Networked(Host)
  <2>1. WireIndex(Host, T) \in DOMAIN wire[Host][SortOf(T)] /\ TypeAt(Host, SortOf(T), WireIndex(Host, T)) = T
    BY <1>1, WireIndexIs
  <2> QED
    BY <1>1, <1>2, <1>3, <1>4, <2>1
<1>6. \A T \in Networked(Client) : T \in Networked(Host)
  <2> TAKE T \in Networked(Client)
  <2>1. WireIndex(Client, T) \in DOMAIN wire[Client][SortOf(T)] /\ TypeAt(Client, SortOf(T), WireIndex(Client, T)) = T
    BY <1>1, WireIndexIs
  <2> QED
    BY <1>1, <1>2, <1>3, <1>4, <2>1
<1>7. Networked(Client) = Networked(Host)
  BY <1>5, <1>6
<1>8. ASSUME NEW T PROVE WireIndex(Client, T) = WireIndex(Host, T)
  <2>1. /\ DOMAIN wire[Host][SortOf(T)] = DOMAIN wire[Client][SortOf(T)]
        /\ \A k \in DOMAIN wire[Host][SortOf(T)] : TypeAt(Host, SortOf(T), k) = TypeAt(Client, SortOf(T), k)
    BY <1>2, <1>4
  <2>2. \A k : (k \in DOMAIN wire[Host][SortOf(T)] /\ TypeAt(Host, SortOf(T), k) = T)
               <=> (k \in DOMAIN wire[Client][SortOf(T)] /\ TypeAt(Client, SortOf(T), k) = T)
    BY <2>1
  <2> QED
    BY <2>2 DEF WireIndex
<1>9. \A T : Decoded(Client, body, T) = Decoded(Host, body, T)
  BY <1>8 DEF Decoded
<1>10. Deserialized(Client, body) = Deserialized(Host, body)
  <2> DEFINE pairs == Range(body.resources)
             Of(p) == {T \in Networked(p) \cap Resource : \E pair \in pairs : pair[1] = WireIndex(p, T)}
             Value(p, T) == (CHOOSE pair \in pairs : pair[1] = WireIndex(p, T))[2]
  <2>1. \A p : Deserialized(p, body) = [T \in Of(p) |-> Value(p, T)]
    BY DEF Deserialized
  <2>2. Of(Client) = Of(Host)
    BY <1>7, <1>8
  <2>3. \A T : Value(Client, T) = Value(Host, T)
    BY <1>8
  <2> HIDE DEF Of, Value
  <2>4. Deserialized(Client, body) = [T \in Of(Client) |-> Value(Client, T)]
    BY <2>1
  <2>5. Deserialized(Host, body) = [T \in Of(Host) |-> Value(Host, T)]
    BY <2>1
  <2> QED
    BY <2>2, <2>3, <2>4, <2>5
<1> QED
  BY <1>7, <1>9, <1>10 DEF Says

-----------------------------------------------------------------------------
(* WHAT THE CLIENT KNOWS *)

(* Nothing told is ahead of either clock; the words come in order. *)
Ordered ==
  /\ Told \subseteq 0..tick[Host] /\ heard \subseteq 0..tick[Client]
  /\ word # NoWord => \A u \in heard : u <= word.tick

(* The first tick is not captured again once it has been told of. *)
Sent  == tick[Host] = 0 /\ Told # {} => \E T \in Type : 0 \in DOMAIN past[Host][T]
Whole == hosting /\ tick[Host] = 0 /\ (\E T \in Type : 0 \in DOMAIN past[Host][T])
           => \E T \in Component : 0 \in DOMAIN past[Host][T]

WordIsTrue ==
  word # NoWord =>
    \A T \in Networked(Host) :
      word.tick \in DOMAIN past[Host][T] =>
        T \in DOMAIN Says(Host, word) /\ Says(Host, word)[T] = past[Host][T][word.tick]

(* A client that stands at a tick it was told of stands as it was told. *)
WordStands ==
  tick[Client] \in heard =>
    \A T \in Networked(Host) :
      tick[Client] \in DOMAIN past[Host][T] => world[Client][T] = past[Host][T][tick[Client]]

(* Inductive, with the histories and the wires. *)
Knows == Ordered /\ Sent /\ Whole /\ WordIsTrue /\ WordStands /\ ReadAsWritten

LEMMA NothingTold ==
  ASSUME heard' = {}, word' = NoWord, Whole'
  PROVE  Knows'
BY DEF Knows, Ordered, Sent, Told, WordIsTrue, WordStands, ReadAsWritten

LEMMA SaysStays ==
  ASSUME UNCHANGED <<reg, wire, word>>
  PROVE  Says(Host, word)' = Says(Host, word) /\ Networked(Host)' = Networked(Host)
BY DEF Says, Decoded, Deserialized, WireIndex, TypeAt, Networked, Entries

LEMMA ToldMeans == Told = {} <=> heard = {} /\ word = NoWord
BY DEF Told

LEMMA NetworkedAreTypes ==
  ASSUME Shape, NEW p \in Peer
  PROVE  Networked(p) \subseteq Registered(p) \cap Type
BY RegisteredAreTypes DEF Networked, Registered

(* What a tick leaves of a history. *)
LEMMA TickLeaves ==
  ASSUME HistoriesStand, NEW p \in Peer, Tick(p)
  PROVE  LET first == InitialCapture(p, world[p], tick[p], past[p])
         IN  /\ UNCHANGED <<todo, reg, wire, hosting, link, word, heard>>
             /\ tick'[p] = tick[p] + 1
             /\ \A q \in Peer : q # p => tick'[q] = tick[q] /\ past'[q] = past[q] /\ world'[q] = world[q]
             /\ \A T \in Registered(p) : \A u \in DOMAIN past'[p][T] :
                  u # tick[p] + 1 => u \in DOMAIN first[T] /\ past'[p][T][u] = first[T][u]
<1> DEFINE t     == tick[p] + 1
           first == InitialCapture(p, world[p], tick[p], past[p])
<1>1. PICK w : LET all == CaptureAll(p, w, first, t)
               IN  /\ world' = [world EXCEPT ![p] = w]
                   /\ tick' = [tick EXCEPT ![p] = t]
                   /\ past' = [past EXCEPT ![p] = IF t > Window THEN PruneBefore(all, t - Window) ELSE all]
  BY DEF Tick
<1> DEFINE all == CaptureAll(p, w, first, t)
<1> HIDE DEF first
<1>2. past'[p] = IF t > Window THEN PruneBefore(all, t - Window) ELSE all
  BY <1>1 DEF HistoriesStand, Shape
<1>3. ASSUME NEW T \in Registered(p), NEW u \in DOMAIN past'[p][T], u # t
      PROVE  u \in DOMAIN first[T] /\ past'[p][T][u] = first[T][u]
  <2>1. T \in Registered(p) \cap Type
    BY RegisteredAreTypes DEF HistoriesStand
  <2>2. Saved(T, w, first[T], all[T], t)
    BY <2>1, CaptureIs
  <2> HIDE DEF all
  <2>3. u \in DOMAIN all[T] /\ past'[p][T][u] = all[T][u]
    BY <1>2, <1>3, <2>1 DEF PruneBefore, RestrictDomain, Restrict
  <2> QED
    BY <1>3, <2>2, <2>3 DEF Saved
<1>4. \A q \in Peer : q # p => tick'[q] = tick[q] /\ past'[q] = past[q] /\ world'[q] = world[q]
  BY <1>1 DEF HistoriesStand, Shape
<1>5. tick'[p] = t
  BY <1>1 DEF HistoriesStand, Shape
<1>6. UNCHANGED <<todo, reg, wire, hosting, link, word, heard>>
  BY DEF Tick
<1> QED
  BY <1>3, <1>4, <1>5, <1>6 DEF first

LEMMA HostTickKnows ==
  ASSUME HistoriesStand, Structure, Knows, Tick(Host)
  PROVE  Knows'
<1> DEFINE first == InitialCapture(Host, world[Host], tick[Host], past[Host])
<1>0. Host \in Peer /\ Client \in Peer /\ Host # Client /\ tick \in [Peer -> Nat]
  BY RegistriesAssumption DEF Peer, HistoriesStand, Shape
<1>1. /\ UNCHANGED <<todo, reg, wire, hosting, link, word, heard>>
      /\ tick'[Host] = tick[Host] + 1
      /\ tick'[Client] = tick[Client] /\ past'[Client] = past[Client] /\ world'[Client] = world[Client]
      /\ \A T \in Registered(Host) : \A u \in DOMAIN past'[Host][T] :
           u # tick[Host] + 1 => u \in DOMAIN first[T] /\ past'[Host][T][u] = first[T][u]
  BY <1>0, TickLeaves
<1>2. Whole' /\ Sent'
  BY <1>0, <1>1 DEF Whole, Sent
<1>3. CASE Told = {}
  BY <1>1, <1>2, <1>3, ToldMeans, NothingTold
<1>4. CASE Told # {}
  <2>1. first = past[Host]
    <3>1. hosting
      BY <1>4 DEF Structure, Session
    <3>2. tick[Host] = 0 => \E T \in Component : 0 \in DOMAIN past[Host][T]
      BY <1>4, <3>1 DEF Knows, Sent, Whole
    <3> QED
      BY <3>2 DEF InitialCapture
  <2> HIDE DEF first
  <2>2. \A T \in Networked(Host) : \A u \in DOMAIN past'[Host][T] :
          u \in 0..tick[Host] => u \in DOMAIN past[Host][T] /\ past'[Host][T][u] = past[Host][T][u]
    <3> TAKE T \in Networked(Host)
    <3> TAKE u \in DOMAIN past'[Host][T]
    <3> HAVE u \in 0..tick[Host]
    <3>1. T \in Registered(Host) /\ u # tick[Host] + 1
      BY <1>0 DEF Networked, Registered
    <3> QED
      BY <1>1, <2>1, <3>1
  <2>3. Told' = Told /\ Told \subseteq 0..tick[Host] /\ Told \subseteq 0..tick'[Host] /\ heard \subseteq Told
    <3>1. 0..tick[Host] \subseteq 0..tick'[Host]
      BY <1>0, <1>1
    <3> QED
      BY <1>1, <3>1 DEF Told, Knows, Ordered
  <2>4. Ordered'
    BY <1>1, <2>3 DEF Knows, Ordered
  <2>5. WordIsTrue'
    <3> SUFFICES ASSUME word # NoWord, NEW T \in Networked(Host), word.tick \in DOMAIN past'[Host][T]
                 PROVE  T \in DOMAIN Says(Host, word) /\ Says(Host, word)[T] = past'[Host][T][word.tick]
      BY <1>1, SaysStays DEF WordIsTrue
    <3>1. word.tick \in 0..tick[Host]
      BY <2>3 DEF Told
    <3> QED
      BY <2>2, <3>1 DEF Knows, WordIsTrue
  <2>6. Networked(Host)' = Networked(Host)
    BY <1>1, SaysStays
  <2>7. WordStands'
    <3> SUFFICES ASSUME tick[Client] \in heard, NEW T \in Networked(Host), tick[Client] \in DOMAIN past'[Host][T]
                 PROVE  world[Client][T] = past'[Host][T][tick[Client]]
      BY <1>1, <2>6 DEF WordStands
    <3>1. tick[Client] \in 0..tick[Host]
      BY <2>3
    <3> QED
      BY <2>2, <3>1 DEF Knows, WordStands
  <2>8. ReadAsWritten'
    <3> SUFFICES ASSUME NEW T \in Networked(Host), NEW u \in heard,
                        u \in DOMAIN past'[Host][T], u \in DOMAIN past[Client][T]
                 PROVE  past[Client][T][u] = past'[Host][T][u]
      BY <1>1, <2>6 DEF ReadAsWritten
    <3>1. u \in 0..tick[Host]
      BY <2>3
    <3> QED
      BY <2>2, <3>1 DEF Knows, ReadAsWritten
  <2> QED
    BY <1>2, <2>4, <2>5, <2>7, <2>8 DEF Knows
<1> QED
  BY <1>3, <1>4

LEMMA ClientTickKnows ==
  ASSUME NamesIdentify, HistoriesStand, Structure, Knows, Tick(Client)
  PROVE  Knows'
<1> DEFINE first == InitialCapture(Client, world[Client], tick[Client], past[Client])
<1>0. Host \in Peer /\ Client \in Peer /\ Host # Client /\ tick \in [Peer -> Nat]
  BY RegistriesAssumption DEF Peer, HistoriesStand, Shape
<1>1. /\ UNCHANGED <<todo, reg, wire, hosting, link, word, heard>>
      /\ tick'[Client] = tick[Client] + 1
      /\ tick'[Host] = tick[Host] /\ past'[Host] = past[Host] /\ world'[Host] = world[Host]
      /\ \A T \in Registered(Client) : \A u \in DOMAIN past'[Client][T] :
           u # tick[Client] + 1 => u \in DOMAIN first[T] /\ past'[Client][T][u] = first[T][u]
  BY <1>0, TickLeaves
<1>2. Sent' /\ Whole'
  BY <1>1 DEF Knows, Sent, Whole, Told
<1>3. heard \subseteq 0..tick[Client] /\ Networked(Host)' = Networked(Host)
  BY <1>1, SaysStays DEF Knows, Ordered
<1>4. Ordered'
  <2>1. 0..tick[Client] \subseteq 0..tick'[Client]
    BY <1>0, <1>1
  <2> QED
    BY <1>1, <2>1 DEF Knows, Ordered, Told
<1>5. WordIsTrue'
  BY <1>1, SaysStays DEF Knows, WordIsTrue
<1>6. WordStands'
  <2>1. tick'[Client] \notin heard
    BY <1>0, <1>1, <1>3
  <2> QED
    BY <1>1, <2>1 DEF WordStands
<1>7. ReadAsWritten'
  <2> SUFFICES ASSUME NEW T \in Networked(Host), NEW u \in heard,
                      u \in DOMAIN past[Host][T], u \in DOMAIN past'[Client][T]
               PROVE  past'[Client][T][u] = past[Host][T][u]
    BY <1>1, <1>3 DEF ReadAsWritten
  <2>1. link = "agreed" /\ Networked(Client) = Networked(Host)
    BY SameSays DEF Structure, Session, Told, HistoriesStand
  <2>2. T \in Registered(Client) \cap Type
    BY <1>0, <2>1, NetworkedAreTypes DEF HistoriesStand
  <2>3. u \in DOMAIN first[T] /\ past'[Client][T][u] = first[T][u]
    BY <1>0, <1>1, <1>3, <2>2
  <2>4. CASE first = past[Client]
    BY <2>3, <2>4 DEF Knows, ReadAsWritten
  <2>5. CASE first # past[Client]
    <3>1. tick[Client] = 0 /\ first = CaptureAll(Client, world[Client], past[Client], 0)
      BY <2>5 DEF InitialCapture
    <3>2. u = 0
      BY <1>3, <3>1
    <3>3. Saved(T, world[Client], past[Client][T], first[T], 0)
      BY <1>0, <2>2, <3>1, CaptureIs
    <3>4. world[Client][T] = past[Host][T][0]
      BY <3>1, <3>2 DEF Knows, WordStands
    <3>5. 0 \in DOMAIN past[Client][T] => past[Client][T][0] = past[Host][T][0]
      BY <3>2 DEF Knows, ReadAsWritten
    <3> HIDE DEF first
    <3> QED
      BY <2>3, <3>2, <3>3, <3>4, <3>5 DEF Saved
  <2> QED
    BY <2>4, <2>5
<1> QED
  BY <1>2, <1>4, <1>5, <1>6, <1>7 DEF Knows

LEMMA OutsideKnows ==
  ASSUME HistoriesStand, Structure, Knows,
         \/ \E p \in Peer : Register(p) \/ Rewind(p)
         \/ OpenLobby \/ Join \/ Leave
  PROVE  Knows'
<1>0. Host \in Peer /\ Client \in Peer /\ Host # Client
  BY RegistriesAssumption DEF Peer
<1>1. CASE \E p \in Peer : Register(p)
  <2>1. link = "out" /\ UNCHANGED <<tick, past, hosting, word, heard>>
    BY <1>1, RegisterStructure DEF Register, HistoriesStand
  <2>2. heard = {} /\ word = NoWord
    BY <2>1, ToldMeans DEF Structure, Session
  <2>3. Whole'
    BY <2>1 DEF Knows, Whole
  <2> QED
    BY <2>1, <2>2, <2>3, NothingTold
<1>2. CASE \E p \in Peer : Rewind(p)
  <2>1. PICK p \in Peer : Rewind(p)
    BY <1>2
  <2>2. UNCHANGED <<hosting, link, word, heard>> /\ ~InSession(p)
    BY <2>1 DEF Rewind
  <2>3. link = "out"
    BY <2>2 DEF InSession, Structure, Session, Peer
  <2>4. heard = {} /\ word = NoWord
    BY <2>3, ToldMeans DEF Structure, Session
  <2>5. CASE p = Host
    <3>1. ~hosting
      BY <2>2, <2>5 DEF InSession
    <3> QED
      BY <2>2, <2>4, <3>1, NothingTold DEF Whole
  <2>6. CASE p # Host
    <3>1. tick'[Host] = tick[Host] /\ past'[Host] = past[Host]
      BY <1>0, <2>1, <2>6 DEF Rewind, HistoriesStand, Shape
    <3>2. Whole'
      BY <2>2, <3>1 DEF Knows, Whole
    <3> QED
      BY <2>2, <2>4, <3>2, NothingTold
  <2> QED
    BY <2>5, <2>6
<1>3. CASE OpenLobby
  <2>1. UNCHANGED <<reg, world, link, word, heard>> /\ ~hosting
    BY <1>3 DEF OpenLobby
  <2>2. heard = {} /\ word = NoWord
    BY <2>1, ToldMeans DEF Structure, Session
  <2>3. past'[Host] = InitialCapture(Host, world[Host], 0, Cleared)
    BY <1>0, <1>3 DEF OpenLobby, HistoriesStand, Shape
  <2>4. Whole'
    <3>1. \A T \in Type : DOMAIN Cleared[T] = {}
      BY DEF Cleared, Empty
    <3>2. CASE past'[Host] = Cleared
      BY <3>1, <3>2 DEF Whole
    <3>3. CASE past'[Host] # Cleared
      <4>1. /\ past'[Host] = CaptureAll(Host, world[Host], Cleared, 0)
            /\ reg[Host]["component"] # Empty
        BY <2>3, <3>3 DEF InitialCapture
      <4>2. reg[Host]["component"] \in Seq(Registration)
        BY <1>0 DEF HistoriesStand, Shape, Sort
      <4>3. 1 \in DOMAIN reg[Host]["component"]
        BY <4>1, <4>2 DEF Empty
      <4> DEFINE e == reg[Host]["component"][1]
      <4>4. e \in Range(reg[Host]["component"])
        BY <4>3 DEF Range
      <4>5. e.type \in Component
        <5>1. SortOf(e.type) = "component"
          BY <1>0, <4>4 DEF Structure, FromBuilds, Sort
        <5> QED
          BY <5>1 DEF SortOf
      <4>6. e.type \in Registered(Host) \cap Type
        BY <4>4, <4>5 DEF Registered, Entries, Type
      <4>7. Saved(e.type, world[Host], Cleared[e.type], past'[Host][e.type], 0)
        BY <1>0, <4>1, <4>6, CaptureIs
      <4>8. 0 \in DOMAIN past'[Host][e.type]
        BY <4>5, <4>7, RegistriesAssumption DEF Saved
      <4> QED
        BY <4>5, <4>8 DEF Whole
    <3> QED
      BY <3>2, <3>3
  <2> QED
    BY <2>1, <2>2, <2>4, NothingTold
<1>4. CASE Join
  <2>1. link = "out" /\ UNCHANGED <<hosting, word, heard>>
    BY <1>4 DEF Join
  <2>2. heard = {} /\ word = NoWord
    BY <2>1, ToldMeans DEF Structure, Session
  <2>3. tick'[Host] = tick[Host] /\ past'[Host] = past[Host]
    BY <1>0, <1>4 DEF Join, HistoriesStand, Shape
  <2>4. Whole'
    BY <2>1, <2>3 DEF Knows, Whole
  <2> QED
    BY <2>1, <2>2, <2>4, NothingTold
<1>5. CASE Leave
  <2>1. heard' = {} /\ word' = NoWord /\ hosting' = hosting
    BY <1>5 DEF Leave
  <2>2. tick'[Host] = tick[Host] /\ past'[Host] = past[Host]
    BY <1>0, <1>5 DEF Leave, HistoriesStand, Shape
  <2>3. Whole'
    BY <2>1, <2>2 DEF Knows, Whole
  <2> QED
    BY <2>1, <2>3, NothingTold
<1> QED
  BY <1>1, <1>2, <1>3, <1>4, <1>5

LEMMA SendKnows ==
  ASSUME HistoriesStand, Structure, Knows, Send
  PROVE  Knows'
<1>0. Host \in Peer /\ Client \in Peer /\ tick \in [Peer -> Nat] /\ Fixed(Host)
  BY DEF Peer, HistoriesStand, Shape, Structure, Session, Send
<1>1. /\ UNCHANGED <<todo, reg, wire, tick, world, past, hosting, link, heard>>
      /\ word' = Body(Host, tick[Host]) /\ \E T \in Type : tick[Host] \in DOMAIN past[Host][T]
  BY DEF Send
<1>2. Body(Host, tick[Host]).tick = tick[Host]
  BY DEF Body
<1>3. Ordered'
  <2>1. heard \subseteq 0..tick[Host] /\ tick[Host] \in 0..tick[Host]
    BY <1>0 DEF Knows, Ordered, Told
  <2> QED
    BY <1>0, <1>1, <1>2, <2>1 DEF Knows, Ordered, Told
<1>4. Sent' /\ Whole'
  BY <1>1 DEF Knows, Sent, Whole
<1>5. WordIsTrue'
  <2>1. Says(Host, word)' = Says(Host, Body(Host, tick[Host])) /\ Networked(Host)' = Networked(Host)
    BY <1>1 DEF Says, Decoded, Deserialized, WireIndex, TypeAt, Networked, Entries
  <2> DEFINE said == Says(Host, Body(Host, tick[Host]))
  <2>2. ASSUME NEW T \in Networked(Host), tick[Host] \in DOMAIN past[Host][T]
        PROVE  T \in DOMAIN said /\ said[T] = past[Host][T][tick[Host]]
    <3>1. /\ HasAt(Host, T, tick[Host]) => T \in DOMAIN said
          /\ T \in DOMAIN said => IF HasAt(Host, T, tick[Host]) THEN said[T] = past[Host][T][tick[Host]]
                                  ELSE T \in Component /\ said[T] = Absent
          /\ T \in Component => T \in DOMAIN said
      BY <1>0, BodySays DEF HistoriesStand
    <3>2. T \in Own(Host) /\ T \in Type
      BY <1>0, NetworkedAreTypes, RegistriesAssumption DEF Own, HistoriesStand
    <3>3. T \in Resource => past[Host][T][tick[Host]] # Absent
      BY <1>0, <2>2, <3>2 DEF HistoriesStand, At, Fits, Stands, There
    <3> HIDE DEF said
    <3> QED
      BY <2>2, <3>1, <3>2, <3>3 DEF HasAt, Type
  <2> HIDE DEF said
  <2>3. WordIsTrue' <=> (word' # NoWord =>
          \A T \in Networked(Host) : tick[Host] \in DOMAIN past[Host][T] =>
            T \in DOMAIN said /\ said[T] = past[Host][T][tick[Host]])
    BY <1>1, <1>2, <2>1 DEF WordIsTrue, said
  <2> QED
    BY <2>2, <2>3
<1>6. WordStands' /\ ReadAsWritten'
  <2>1. Networked(Host)' = Networked(Host)
    BY <1>1 DEF Networked, Entries
  <2> QED
    BY <1>1, <2>1 DEF Knows, WordStands, ReadAsWritten
<1> QED
  BY <1>3, <1>4, <1>5, <1>6 DEF Knows

(* A word that is taken over: what it says is what the history has at its tick, and *)
(* the other ticks are as they were.                                                *)
LEMMA TakenOver ==
  ASSUME HistoriesStand, Structure, NEW said, DOMAIN said \subseteq Networked(Client),
         NEW T \in Networked(Client), NEW t
  PROVE  LET w == AppliedTo(world[Client], said)
             h == RecordedIn(past[Client], said, t)
         IN  /\ T \in DOMAIN said => w[T] = said[T]
             /\ \A g \in {CaptureAll(Client, w, h, t)[T], TruncateAfter(h, t)[T]} : \A u \in DOMAIN g :
                  /\ u # t => u \in DOMAIN past[Client][T] /\ g[u] = past[Client][T][u]
                  /\ u = t /\ T \in DOMAIN said => g[u] = said[T]
<1> DEFINE w == AppliedTo(world[Client], said)
           h == RecordedIn(past[Client], said, t)
<1>0. Client \in Peer /\ T \in Registered(Client) \cap Type
  BY NetworkedAreTypes DEF Peer, HistoriesStand
<1>1. T \in DOMAIN said => w[T] = said[T]
  BY <1>0 DEF AppliedTo
<1>2. \A u \in DOMAIN h[T] : /\ u # t => u \in DOMAIN past[Client][T] /\ h[T][u] = past[Client][T][u]
                             /\ u = t /\ T \in DOMAIN said => h[T][u] = said[T]
  <2>1. h[T] = IF T \in DOMAIN said THEN Put(past[Client][T], t, said[T]) ELSE past[Client][T]
    BY <1>0 DEF RecordedIn
  <2> QED
    BY <2>1 DEF Put
<1> HIDE DEF w, h
<1>3. Saved(T, w, h[T], CaptureAll(Client, w, h, t)[T], t)
  BY <1>0, CaptureIs
<1>4. \A u \in DOMAIN CaptureAll(Client, w, h, t)[T] :
        /\ u # t => u \in DOMAIN past[Client][T] /\ CaptureAll(Client, w, h, t)[T][u] = past[Client][T][u]
        /\ u = t /\ T \in DOMAIN said => CaptureAll(Client, w, h, t)[T][u] = said[T]
  BY <1>1, <1>2, <1>3 DEF Saved
<1>5. \A u \in DOMAIN TruncateAfter(h, t)[T] : u \in DOMAIN h[T] /\ TruncateAfter(h, t)[T][u] = h[T][u]
  BY <1>0 DEF TruncateAfter, RestrictDomain, Restrict
<1>6. \A u \in DOMAIN TruncateAfter(h, t)[T] :
        /\ u # t => u \in DOMAIN past[Client][T] /\ TruncateAfter(h, t)[T][u] = past[Client][T][u]
        /\ u = t /\ T \in DOMAIN said => TruncateAfter(h, t)[T][u] = said[T]
  BY <1>2, <1>5
<1> QED
  BY <1>1, <1>4, <1>6 DEF w, h

LEMMA ReceiveKnows ==
  ASSUME NamesIdentify, HistoriesStand, Structure, Knows, Receive
  PROVE  Knows'
<1> DEFINE t == word.tick
           said == Says(Client, word)
           w == AppliedTo(world[Client], said)
           h == RecordedIn(past[Client], said, t)
<1>0. /\ Host \in Peer /\ Client \in Peer /\ Host # Client /\ tick \in [Peer -> Nat] /\ t \in Nat
      /\ link = "agreed" /\ word # NoWord /\ Fixed(Client)
  BY RegistriesAssumption DEF Peer, HistoriesStand, Shape, Structure, Session, Receive
<1>1. UNCHANGED <<todo, reg, wire, hosting, link>> /\ word' = NoWord /\ heard' = heard \cup {t}
  BY DEF Receive
<1>2. Networked(Client) = Networked(Host) /\ said = Says(Host, word)
  BY <1>0, SameSays DEF HistoriesStand
<1>3. DOMAIN said \subseteq Networked(Client)
  BY <1>0, SaysOfNetworked
<1>4. \A T \in Networked(Host) : t \in DOMAIN past[Host][T] => T \in DOMAIN said /\ said[T] = past[Host][T][t]
  BY <1>0, <1>2 DEF Knows, WordIsTrue
<1>5. Networked(Host)' = Networked(Host)
  BY <1>1 DEF Networked, Entries
<1> DEFINE Agreeing == Agrees /\ UNCHANGED <<tick, world, past, was>>
           Ahead == /\ tick' = [tick EXCEPT ![Client] = t]
                    /\ world' = [world EXCEPT ![Client] = w]
                    /\ past' = [past EXCEPT ![Client] = CaptureAll(Client, w, h, t)]
           Back == /\ tick' = [tick EXCEPT ![Client] = t]
                   /\ world' = [world EXCEPT ![Client] = Restored(LocalOnly(Client), w, h, t)]
                   /\ past' = [past EXCEPT ![Client] = TruncateAfter(h, t)]
<1>6. Agreeing \/ Ahead \/ Back
  BY DEF Receive
<1>7. tick'[Host] = tick[Host] /\ past'[Host] = past[Host]
  BY <1>0, <1>6 DEF HistoriesStand, Shape
<1>8. Told' = Told /\ Told \subseteq 0..tick[Host]
  BY <1>0, <1>1 DEF Told, Knows, Ordered
<1>9. Sent' /\ Whole'
  BY <1>1, <1>7, <1>8 DEF Knows, Sent, Whole
<1>10. WordIsTrue'
  BY <1>1 DEF WordIsTrue
<1>11. \A u \in heard : u \in 0..t /\ u \in 0..tick[Client]
  BY <1>0 DEF Knows, Ordered
<1>12. CASE Agreeing
  <2>1. t < tick[Client] /\ Body(Client, t) = word /\ UNCHANGED <<tick, world, past>>
    BY <1>12 DEF Agrees, MatchesAt
  <2>2. Ordered'
    <3>1. heard' \subseteq 0..tick[Client]
      BY <1>0, <1>1, <1>11, <2>1
    <3> QED
      BY <1>1, <1>8, <2>1, <3>1 DEF Ordered
  <2>3. WordStands'
    <3> SUFFICES ASSUME tick[Client] \in heard', NEW T \in Networked(Host), tick[Client] \in DOMAIN past[Host][T]
                 PROVE  world[Client][T] = past[Host][T][tick[Client]]
      BY <1>5, <2>1 DEF WordStands
    <3>1. tick[Client] \in heard
      BY <1>0, <1>1, <2>1
    <3> QED
      BY <3>1 DEF Knows, WordStands
  <2>4. ReadAsWritten'
    <3> SUFFICES ASSUME NEW T \in Networked(Host), NEW u \in heard',
                        u \in DOMAIN past[Host][T], u \in DOMAIN past[Client][T]
                 PROVE  past[Client][T][u] = past[Host][T][u]
      BY <1>5, <2>1 DEF ReadAsWritten
    <3>1. CASE u \in heard
      BY <3>1 DEF Knows, ReadAsWritten
    <3>2. CASE u = t
      <4>1. T \in DOMAIN said /\ said[T] = past[Host][T][t]
        BY <1>4, <3>2
      <4>2. T \in DOMAIN said => IF HasAt(Client, T, t) THEN said[T] = past[Client][T][t]
                                 ELSE T \in Component /\ said[T] = Absent
        BY <1>0, <1>2, <2>1, BodySays DEF HistoriesStand
      <4> HIDE DEF said, t
      <4> QED
        BY <3>2, <4>1, <4>2 DEF HasAt
    <3> QED
      BY <1>1, <3>1, <3>2
  <2> QED
    BY <1>9, <1>10, <2>2, <2>3, <2>4 DEF Knows
<1>13. CASE Ahead \/ Back
  <2>1. tick'[Client] = t
    BY <1>0, <1>13
  <2>2. \A T \in Networked(Client) :
          /\ T \in DOMAIN said => world'[Client][T] = said[T]
          /\ \A u \in DOMAIN past'[Client][T] :
               /\ u # t => u \in DOMAIN past[Client][T] /\ past'[Client][T][u] = past[Client][T][u]
               /\ u = t /\ T \in DOMAIN said => past'[Client][T][u] = said[T]
    <3> TAKE T \in Networked(Client)
    <3>1. /\ T \in DOMAIN said => w[T] = said[T]
          /\ \A g \in {CaptureAll(Client, w, h, t)[T], TruncateAfter(h, t)[T]} : \A u \in DOMAIN g :
               /\ u # t => u \in DOMAIN past[Client][T] /\ g[u] = past[Client][T][u]
               /\ u = t /\ T \in DOMAIN said => g[u] = said[T]
      BY <1>3, TakenOver
    <3>2. T \in Type /\ T \notin LocalOnly(Client)
      BY <1>0, NetworkedAreTypes DEF LocalOnly, HistoriesStand
    <3> HIDE DEF said, w, h, t
    <3>3. past'[Client][T] = CaptureAll(Client, w, h, t)[T] \/ past'[Client][T] = TruncateAfter(h, t)[T]
      BY <1>0, <1>13 DEF HistoriesStand, Shape
    <3>4. world'[Client][T] = w[T]
      <4>1. world'[Client] = w \/ world'[Client] = Restored(LocalOnly(Client), w, h, t)
        BY <1>0, <1>13 DEF HistoriesStand, Shape
      <4> QED
        BY <3>2, <4>1 DEF Restored
    <3> QED
      BY <3>1, <3>3, <3>4
  <2>3. Ordered'
    <3>1. heard' \subseteq 0..t
      BY <1>0, <1>1, <1>11
    <3> QED
      BY <1>1, <1>7, <1>8, <2>1, <3>1 DEF Ordered
  <2>4. WordStands'
    <3> SUFFICES ASSUME NEW T \in Networked(Host), t \in DOMAIN past[Host][T]
                 PROVE  world'[Client][T] = past[Host][T][t]
      BY <1>5, <1>7, <2>1 DEF WordStands
    <3> QED
      BY <1>2, <1>4, <2>2
  <2>5. ReadAsWritten'
    <3> SUFFICES ASSUME NEW T \in Networked(Host), NEW u \in heard',
                        u \in DOMAIN past[Host][T], u \in DOMAIN past'[Client][T]
                 PROVE  past'[Client][T][u] = past[Host][T][u]
      BY <1>5, <1>7 DEF ReadAsWritten
    <3>1. CASE u = t
      BY <1>2, <1>4, <2>2, <3>1
    <3>2. CASE u # t
      <4>1. u \in heard /\ u \in DOMAIN past[Client][T] /\ past'[Client][T][u] = past[Client][T][u]
        BY <1>1, <1>2, <2>2, <3>2
      <4> QED
        BY <4>1 DEF Knows, ReadAsWritten
    <3> QED
      BY <3>1, <3>2
  <2> QED
    BY <1>9, <1>10, <2>3, <2>4, <2>5 DEF Knows
<1> QED
  BY <1>6, <1>12, <1>13

LEMMA KnowsInit == Init => Knows
<1> SUFFICES ASSUME Init PROVE Knows
  OBVIOUS
<1>1. heard = {} /\ word = NoWord /\ ~hosting
  BY DEF Init
<1> QED
  BY <1>1 DEF Knows, Ordered, Sent, Whole, Told, WordIsTrue, WordStands, ReadAsWritten

LEMMA KnowsStep ==
  ASSUME NamesIdentify, HistoriesStand, Structure, Knows, [Next]_vars
  PROVE  Knows'
<1>1. CASE UNCHANGED vars
  <2>1. Told' = Told
    BY <1>1 DEF vars, Told
  <2>2. Says(Host, word)' = Says(Host, word) /\ Networked(Host)' = Networked(Host)
    BY <1>1, SaysStays DEF vars
  <2> QED
    BY <1>1, <2>1, <2>2 DEF vars, Knows, Ordered, Sent, Whole, WordIsTrue, WordStands, ReadAsWritten
<1>2. CASE \E p \in Peer : Tick(p)
  BY <1>2, HostTickKnows, ClientTickKnows DEF Peer
<1>3. CASE \/ \E p \in Peer : Register(p) \/ Rewind(p)
           \/ OpenLobby \/ Join \/ Leave
  BY <1>3, OutsideKnows
<1>4. CASE Compare
  <2>1. Told' = Told
    BY <1>4 DEF Compare, Told
  <2>2. Says(Host, word)' = Says(Host, word) /\ Networked(Host)' = Networked(Host)
    BY <1>4, SaysStays DEF Compare
  <2> QED
    BY <1>4, <2>1, <2>2 DEF Compare, Knows, Ordered, Sent, Whole, WordIsTrue, WordStands, ReadAsWritten
<1>5. CASE Send
  BY <1>5, SendKnows
<1>6. CASE Receive
  BY <1>6, ReceiveKnows
<1> QED
  BY <1>1, <1>2, <1>3, <1>4, <1>5, <1>6 DEF Next

(* Where a name is one type's, what a client's history has at a tick it was told of *)
(* is what its host had there, type by type: in whatever order the two registered,  *)
(* whatever else they did, however their names were found to be the same (frozen,   *)
(* check_registry, build_full_body, decode_one, deserialize_and_apply_all), and     *)
(* whether the word was taken over or found to match (prediction_matches).          *)
THEOREM ReadAsItWasWritten == NamesIdentify => (Spec => []ReadAsWritten)
<1> SUFFICES ASSUME NamesIdentify PROVE Spec => []ReadAsWritten
  OBVIOUS
<1>1. Init => HistoriesStand /\ Structure /\ Knows
  BY StandInit, StructureInit, KnowsInit
<1>2. (HistoriesStand /\ Structure /\ Knows) /\ [Next]_vars => (HistoriesStand /\ Structure /\ Knows)'
  BY StandStep, StructureStep, KnowsStep DEF HistoriesStand
<1>3. Knows => ReadAsWritten
  BY DEF Knows
<1> QED
  BY <1>1, <1>2, <1>3, PTL DEF Spec
===============================================================================
