----------------------- MODULE ChecksumExchangeProofs -----------------------
(***************************************************************************)
(* Proofs about ChecksumExchange, for any clients, interval, capacity and  *)
(* bounds: its types, that a drift is found, that the host learns of it,   *)
(* and that no desync is reported of two different sessions' ticks.        *)
(***************************************************************************)
EXTENDS ChecksumExchange, TLAPS

Entry == [tick : Ticks, world : World]

PeerState ==
  [at : {"out", "pending", "loading", "in", "gone"}, clock : Ticks,
   line : {None, 1, 2}, mark : Peer \cup {None}, roster : SUBSET Peer,
   log : Seq(Entry), parked : SUBSET Reports,
   announced : Ticks \cup {None}, desync : Desyncs \cup {None}]

Sessions == [phase : {"stable", "deciding"}, resume : Ticks \cup {None}, awaiting : SUBSET Client]

LEMMA Assumed ==
  /\ Interval \in Nat \ {0} /\ Capacity \in Nat \ {0}
  /\ MaxTick \in Nat /\ MaxJoins \in Nat /\ MaxDrifts \in Nat
  /\ Host \in Peer /\ Client \subseteq Peer /\ Host \notin Client
  /\ None \notin Peer /\ None \notin Nat /\ None \notin Ticks /\ 0 \in Ticks
BY ExchangeAssumption DEF Peer, Ticks

-----------------------------------------------------------------------------
(* THE LOG *)

(* What the log holds once a tick is sampled: at most what it held and the    *)
(* new sample, and always the new one, which is the newest.                   *)
LEMMA RecordedIs ==
  ASSUME NEW log \in Seq(Entry), NEW t \in Ticks, NEW w \in World
  PROVE  /\ Recorded(log, t, w) \in Seq(Entry)
         /\ Recorded(log, t, w) # <<>>
         /\ ToSet(Recorded(log, t, w)) \subseteq ToSet(log) \cup {[tick |-> t, world |-> w]}
         /\ Last(Recorded(log, t, w)) = [tick |-> t, world |-> w]
<1> DEFINE new == [tick |-> t, world |-> w]
           longer == Append(log, new)
           n == Len(log)
<1>1. new \in Entry
  BY DEF Entry
<1>2. n \in Nat /\ DOMAIN log = 1..n /\ Capacity \in Nat \ {0} /\ \A i \in 1..n : log[i] \in Entry
  BY Assumed
<1> HIDE DEF new
<1>3. /\ longer \in Seq(Entry) /\ Len(longer) = n + 1 /\ DOMAIN longer = 1..(n + 1)
      /\ \A i \in 1..n : longer[i] = log[i]
      /\ longer[n + 1] = new
  BY <1>1
<1>4. Recorded(log, t, w) = IF Len(longer) > Capacity THEN Tail(longer) ELSE longer
  BY DEF Recorded, new
<1> HIDE DEF n, longer
<1>5. CASE ~(Len(longer) > Capacity)
  <2>1. Recorded(log, t, w) = longer
    BY <1>4, <1>5
  <2>2. ToSet(longer) \subseteq ToSet(log) \cup {new}
    BY <1>2, <1>3 DEF ToSet
  <2>3. Last(longer) = new /\ longer # <<>>
    BY <1>2, <1>3 DEF Last
  <2> QED
    BY <1>3, <2>1, <2>2, <2>3 DEF new
<1>6. CASE Len(longer) > Capacity
  <2> DEFINE cut == Tail(longer)
  <2>1. Recorded(log, t, w) = cut
    BY <1>4, <1>6
  <2>2. n >= 1
    BY <1>2, <1>3, <1>6
  <2>3. cut \in Seq(Entry) /\ Len(cut) = n /\ DOMAIN cut = 1..n /\ \A i \in 1..n : cut[i] = longer[i + 1]
    BY <1>2, <1>3, <2>2
  <2> HIDE DEF cut
  <2>4. \A i \in 1..n : cut[i] \in ToSet(log) \cup {new}
    <3> TAKE i \in 1..n
    <3>1. CASE i = n
      BY <1>2, <1>3, <2>3, <3>1
    <3>2. CASE i # n
      <4>1. i + 1 \in 1..n
        BY <1>2, <3>2
      <4>2. cut[i] = log[i + 1]
        BY <1>3, <2>3, <4>1
      <4> QED
        BY <1>2, <4>1, <4>2 DEF ToSet
    <3> QED
      BY <3>1, <3>2
  <2>5. ToSet(cut) \subseteq ToSet(log) \cup {new}
    BY <2>3, <2>4 DEF ToSet
  <2>6. Last(cut) = new /\ cut # <<>>
    BY <1>2, <1>3, <2>2, <2>3 DEF Last
  <2> QED
    BY <2>1, <2>3, <2>5, <2>6 DEF new
<1> QED
  BY <1>5, <1>6

LEMMA LogIs ==
  ASSUME NEW log \in Seq(Entry)
  PROVE  /\ ToSet(log) \subseteq Entry
         /\ SampledTicks(log) = {s.tick : s \in ToSet(log)}
         /\ log = <<>> => ToSet(log) = {}
         /\ log # <<>> => Last(log) \in ToSet(log)
<1>1. \A i \in DOMAIN log : log[i] \in Entry
  OBVIOUS
<1>2. log # <<>> => Len(log) \in DOMAIN log
  OBVIOUS
<1>3. log = <<>> => DOMAIN log = {}
  OBVIOUS
<1> QED
  BY <1>1, <1>2, <1>3 DEF ToSet, SampledTicks, Last

LEMMA EmptyLog == ToSet(<<>>) = {} /\ <<>> \in Seq(Entry) /\ SampledTicks(<<>>) = {}
<1>1. <<>> \in Seq(Entry)
  OBVIOUS
<1> QED
  BY <1>1, LogIs

(* A sample is found by its tick.                                            *)
LEMMA AtIs ==
  ASSUME NEW log \in Seq(Entry), NEW t \in SampledTicks(log)
  PROVE  /\ t \in Ticks
         /\ \E s \in ToSet(log) : s.tick = t /\ At(log, t) = s.world /\ s.world \in World
<1>1. /\ ToSet(log) \subseteq Entry
      /\ SampledTicks(log) = {s.tick : s \in ToSet(log)}
  BY LogIs
<1>2. PICK s \in ToSet(log) : s.tick = t
  BY <1>1
<1>3. LET u == CHOOSE u \in ToSet(log) : u.tick = t IN u \in ToSet(log) /\ u.tick = t
  BY <1>2
<1> QED
  BY <1>1, <1>3 DEF At, Entry

(* A tick of a peer: the clock goes on, and at most the log with it.          *)
LEMMA TickedIs ==
  ASSUME NEW q \in PeerState, NEW line \in {None, 1, 2}, q.clock < MaxTick
  PROVE  LET then == Ticked(q, line)
             new  == [tick |-> q.clock + 1, world |-> [line |-> line, mark |-> q.mark]]
         IN  /\ then \in PeerState
             /\ then.clock = q.clock + 1
             /\ then.at = q.at /\ then.roster = q.roster /\ then.parked = q.parked
             /\ then.announced = q.announced /\ then.desync = q.desync
             /\ new \in Entry
             /\ \/ then.log = q.log
                \/ /\ then.log # <<>> /\ Last(then.log) = new
                   /\ ToSet(then.log) \subseteq ToSet(q.log) \cup {new}
<1> DEFINE t == q.clock + 1
           r == [q EXCEPT !.clock = t, !.line = line]
           w == [line |-> line, mark |-> q.mark]
           then == Ticked(q, line)
<1>1. t \in Ticks /\ w \in World /\ q.log \in Seq(Entry)
  BY Assumed DEF Ticks, World, PeerState
<1>2. /\ r \in PeerState /\ r.clock = t /\ r.log = q.log /\ Sample(r) = w
      /\ r.at = q.at /\ r.roster = q.roster /\ r.parked = q.parked
      /\ r.announced = q.announced /\ r.desync = q.desync
  BY <1>1 DEF PeerState, Sample
<1>3. then = r \/ then = [r EXCEPT !.log = Recorded(q.log, t, w)]
  BY <1>2 DEF Ticked, Sample
<1> HIDE DEF then, r, w
<1>4. [tick |-> t, world |-> w] \in Entry
  BY <1>1 DEF Entry
<1>5. CASE then = r
  BY <1>2, <1>4, <1>5 DEF then, w
<1>6. CASE then = [r EXCEPT !.log = Recorded(q.log, t, w)]
  <2> DEFINE l == Recorded(q.log, t, w)
  <2>1. /\ l \in Seq(Entry) /\ l # <<>> /\ ToSet(l) \subseteq ToSet(q.log) \cup {[tick |-> t, world |-> w]}
        /\ Last(l) = [tick |-> t, world |-> w]
    BY <1>1, RecordedIs
  <2> HIDE DEF l
  <2>2. then = [r EXCEPT !.log = l]
    BY <1>6 DEF l
  <2>3. then \in PeerState /\ then.log = l
    BY <1>2, <2>1, <2>2 DEF PeerState
  <2>4. /\ then.clock = r.clock /\ then.at = r.at /\ then.roster = r.roster /\ then.parked = r.parked
        /\ then.announced = r.announced /\ then.desync = r.desync
    BY <1>2, <2>2 DEF PeerState
  <2> QED
    BY <1>2, <1>4, <2>1, <2>3, <2>4 DEF then, w
<1> QED
  BY <1>3, <1>5, <1>6

-----------------------------------------------------------------------------
(* TYPES *)

LEMMA TypesAre == TypeOK <=>
  /\ peers \in [Peer -> PeerState]
  /\ hub \in Peer /\ wire \subseteq Reports /\ missed \subseteq Reports
  /\ session \in Sessions
BY DEF TypeOK, PeerState, Entry, Desyncs, Sessions

LEMMA InitTypes == Init => TypeOK
<1> SUFFICES ASSUME Init PROVE TypeOK
  OBVIOUS
<1>1. Alone \in PeerState /\ Hosting \in PeerState
  BY Assumed, EmptyLog DEF Alone, Hosting, PeerState
<1>2. session \in Sessions
  BY Assumed DEF Init, Sessions
<1> QED
  BY <1>1, <1>2, Assumed, TypesAre DEF Init

LEMMA ReportsAre ==
  ASSUME NEW from \in Peer, NEW to \in Peer, NEW s \in Entry
  PROVE  /\ Report(from, to, s) \in Reports
         /\ Report(from, to, s) = [from |-> from, to |-> to, tick |-> s.tick, world |-> s.world]
BY DEF Report, Reports, Entry

(* What is compared: what waited and what of the arrivals is heard; what of   *)
(* that waits on; and what is latched of a report that differs.               *)
Compared(p, arrivals) == peers[p].parked \cup Heard(p, arrivals)

Waiting(p, arrivals) ==
  {r \in Compared(p, arrivals) : r.tick \notin SampledTicks(peers[p].log) /\ Waits(p, r)}

Found(p, r) == [from |-> r.from, tick |-> r.tick, hub |-> hub,
                left |-> At(peers[p].log, r.tick), right |-> r.world]

LEMMA ComparedAre ==
  ASSUME TypeOK, NEW p \in Peer, NEW arrivals \in SUBSET wire, CompareArrivedChecksums(p, arrivals)
  PROVE  /\ Compared(p, arrivals) \subseteq Reports /\ Waiting(p, arrivals) \subseteq Reports
         /\ Heard(p, arrivals) \subseteq arrivals
         /\ \/ /\ peers[p].desync # None
               /\ peers' = [peers EXCEPT ![p].parked = {}]
               /\ wire' = wire \ arrivals
            \/ /\ peers[p].desync = None
               /\ \A r \in Compared(p, arrivals) : ~Differs(p, r)
               /\ peers' = [peers EXCEPT ![p].parked = Waiting(p, arrivals)]
               /\ wire' = wire \ arrivals
            \/ \E r \in Compared(p, arrivals) :
               /\ peers[p].desync = None /\ Differs(p, r)
               /\ Found(p, r) \in Desyncs
               /\ peers' = [peers EXCEPT ![p].parked = Waiting(p, arrivals), ![p].desync = Found(p, r)]
               /\ wire' = (wire \ arrivals) \cup Answer(p, r)
               /\ Answer(p, r) \subseteq
                    {[from |-> p, to |-> hub, tick |-> r.tick, world |-> At(peers[p].log, r.tick)]}
               /\ Answer(p, r) \subseteq Reports
<1> DEFINE differing == {r \in Compared(p, arrivals) : Differs(p, r)}
<1>1. /\ peers \in [Peer -> PeerState] /\ hub \in Peer /\ wire \subseteq Reports
  BY TypesAre
<1>2. /\ Compared(p, arrivals) \subseteq Reports /\ Waiting(p, arrivals) \subseteq Reports
      /\ Heard(p, arrivals) \subseteq arrivals
  BY <1>1 DEF Heard, PeerState, Compared, Waiting
<1>3. CASE peers[p].desync # None
  BY <1>2, <1>3 DEF CompareArrivedChecksums
<1>4. CASE peers[p].desync = None /\ differing = {}
  BY <1>2, <1>4 DEF CompareArrivedChecksums, Compared, Waiting
<1>5. CASE peers[p].desync = None /\ differing # {}
  <2>1. PICK r \in Earliest(differing) :
          /\ peers' = [peers EXCEPT ![p] = [Latched(p, r) EXCEPT !.parked = Waiting(p, arrivals)]]
          /\ wire' = (wire \ arrivals) \cup Answer(p, r)
    BY <1>5 DEF CompareArrivedChecksums, Compared, Waiting
  <2>2. r \in differing /\ r \in Reports /\ Differs(p, r)
    BY <1>2, <2>1 DEF Earliest
  <2>3. r.tick \in SampledTicks(peers[p].log) /\ At(peers[p].log, r.tick) \in World
    BY <1>1, <2>2, AtIs DEF PeerState, Differs
  <2>4. Found(p, r) \in Desyncs
    BY <1>1, <2>2, <2>3 DEF Desyncs, Reports, Found
  <2>5. Latched(p, r) = [peers[p] EXCEPT !.desync = Found(p, r)]
    BY DEF Latched, Found
  <2>6. /\ Answer(p, r) \subseteq
             {[from |-> p, to |-> hub, tick |-> r.tick, world |-> At(peers[p].log, r.tick)]}
        /\ Answer(p, r) \subseteq Reports
    BY <1>1, <2>2, <2>3 DEF Answer, Report, Reports
  <2>7. peers' = [peers EXCEPT ![p].parked = Waiting(p, arrivals), ![p].desync = Found(p, r)]
    BY <1>1, <2>1, <2>5 DEF PeerState
  <2> QED
    BY <1>2, <1>5, <2>1, <2>2, <2>4, <2>6, <2>7
<1> QED
  BY <1>3, <1>4, <1>5

LEMMA ThereAreDesyncs == \E d \in Desyncs : TRUE
<1>1. [line |-> None, mark |-> None] \in World
  BY DEF World
<1> DEFINE w == [line |-> None, mark |-> None]
<1> HIDE DEF w
<1>2. w \in World
  BY <1>1 DEF w
<1>3. [from |-> Host, tick |-> 0, hub |-> Host, left |-> w, right |-> w] \in Desyncs
  BY <1>2, Assumed DEF Desyncs
<1> QED
  BY <1>3

(* A field set to a value of its range.                                      *)
LEMMA EditedIs ==
  ASSUME NEW q \in PeerState
  PROVE  /\ \A a \in {"out", "pending", "loading", "in", "gone"} : [q EXCEPT !.at = a] \in PeerState
         /\ \A t \in Ticks : [q EXCEPT !.clock = t] \in PeerState
         /\ \A l \in {None, 1, 2} : [q EXCEPT !.line = l] \in PeerState
         /\ \A m \in Peer \cup {None} : [q EXCEPT !.mark = m] \in PeerState
         /\ \A r \in SUBSET Peer : [q EXCEPT !.roster = r] \in PeerState
         /\ [q EXCEPT !.log = <<>>] \in PeerState
         /\ \A k \in SUBSET Reports : [q EXCEPT !.parked = k] \in PeerState
         /\ \A t \in Ticks \cup {None} : [q EXCEPT !.announced = t] \in PeerState
         /\ \A d \in Desyncs \cup {None} : [q EXCEPT !.desync = d] \in PeerState
<1>1. \A a \in {"out", "pending", "loading", "in", "gone"} : [q EXCEPT !.at = a] \in PeerState
  BY DEF PeerState
<1>2. \A t \in Ticks : [q EXCEPT !.clock = t] \in PeerState
  BY DEF PeerState
<1>3. \A l \in {None, 1, 2} : [q EXCEPT !.line = l] \in PeerState
  BY DEF PeerState
<1>4. \A m \in Peer \cup {None} : [q EXCEPT !.mark = m] \in PeerState
  BY DEF PeerState
<1>5. \A r \in SUBSET Peer : [q EXCEPT !.roster = r] \in PeerState
  BY DEF PeerState
<1>6. [q EXCEPT !.log = <<>>] \in PeerState
  BY EmptyLog DEF PeerState
<1>7. \A k \in SUBSET Reports : [q EXCEPT !.parked = k] \in PeerState
  BY DEF PeerState
<1>8. \A t \in Ticks \cup {None} : [q EXCEPT !.announced = t] \in PeerState
  BY DEF PeerState
<1>9. \A d \in Desyncs \cup {None} : [q EXCEPT !.desync = d] \in PeerState
  BY DEF PeerState
<1> QED
  BY <1>1, <1>2, <1>3, <1>4, <1>5, <1>6, <1>7, <1>8, <1>9

LEMMA StepTypes == TypeOK /\ [Next]_vars => TypeOK'
<1> SUFFICES ASSUME TypeOK, [Next]_vars PROVE TypeOK'
  OBVIOUS
<1> DEFINE Typed == /\ peers' \in [Peer -> PeerState]
                    /\ hub' \in Peer /\ wire' \subseteq Reports /\ missed' \subseteq Reports
                    /\ session' \in Sessions
<1>0. /\ peers \in [Peer -> PeerState]
      /\ hub \in Peer /\ wire \subseteq Reports /\ missed \subseteq Reports
      /\ session \in Sessions
  BY TypesAre
<1>a. /\ \A p \in Peer : /\ peers[p] \in PeerState /\ peers[p].clock \in Ticks
                         /\ peers[p].line \in {None, 1, 2} /\ peers[p].mark \in Peer \cup {None}
                         /\ peers[p].roster \in SUBSET Peer /\ peers[p].log \in Seq(Entry)
                         /\ peers[p].parked \in SUBSET Reports
      /\ \A c \in Client : c \in Peer /\ peers[c] \in PeerState
      /\ Host \in Peer /\ session.awaiting \subseteq Client
  BY <1>0, Assumed DEF PeerState, Sessions
<1> SUFFICES Typed
  BY DEF TypeOK, PeerState, Entry, Desyncs, Sessions
<1>1. ASSUME NEW p \in Peer, TickInSession(p) PROVE Typed
  <2>1. LineOf(peers[p].clock + 1) \in {None, 1, 2}
    BY DEF LineOf
  <2>2. peers[p] \in PeerState /\ peers[p].clock < MaxTick
    BY <1>0, <1>a, <1>1 DEF TickInSession
  <2>3. Ticked(peers[p], LineOf(peers[p].clock + 1)) \in PeerState
    BY <2>1, <2>2, TickedIs
  <2> QED
    BY <1>0, <1>a, <1>1, <2>3 DEF TickInSession
<1>2. ASSUME NEW p \in Peer, Drift(p) PROVE Typed
  BY <1>0, <1>a, <1>2, SMTT(30) DEF Drift, PeerState
<1>3. ASSUME NEW p \in Peer, Compare(p) PROVE Typed
  <2>1. PICK arrivals \in SUBSET {r \in wire : r.to = p} :
          /\ CompareArrivedChecksums(p, arrivals)
          /\ missed' = missed \cup (arrivals \ Heard(p, arrivals))
          /\ UNCHANGED <<hub, session, joins, drifts>>
    BY <1>3 DEF Compare
  <2>2. arrivals \in SUBSET wire
    OBVIOUS
  <2> DEFINE waiting == Waiting(p, arrivals)
  <2>3. waiting \subseteq Reports
    BY <2>1, <2>2, ComparedAre
  <2>4. /\ wire' \subseteq Reports
        /\ \E w \in SUBSET Reports, d \in Desyncs :
             peers' = [peers EXCEPT ![p].parked = w] \/ peers' = [peers EXCEPT ![p].parked = w, ![p].desync = d]
    <3>1. CASE peers' = [peers EXCEPT ![p].parked = {}] /\ wire' = wire \ arrivals
      <4>1. PICK d \in Desyncs : TRUE
        BY ThereAreDesyncs
      <4> QED
        BY <1>0, <1>a, <3>1, <4>1
    <3>2. CASE peers' = [peers EXCEPT ![p].parked = waiting] /\ wire' = wire \ arrivals
      <4>1. PICK d \in Desyncs : TRUE
        BY ThereAreDesyncs
      <4> HIDE DEF waiting
      <4> QED
        BY <1>0, <1>a, <2>3, <3>2, <4>1
    <3>3. CASE \E d \in Desyncs, a \in SUBSET Reports :
                 /\ peers' = [peers EXCEPT ![p].parked = waiting, ![p].desync = d]
                 /\ wire' = (wire \ arrivals) \cup a
      <4> HIDE DEF waiting
      <4> QED
        BY <1>0, <1>a, <2>3, <3>3
    <3>4. \/ peers' = [peers EXCEPT ![p].parked = {}] /\ wire' = wire \ arrivals
          \/ peers' = [peers EXCEPT ![p].parked = waiting] /\ wire' = wire \ arrivals
          \/ \E d \in Desyncs, a \in SUBSET Reports :
                 /\ peers' = [peers EXCEPT ![p].parked = waiting, ![p].desync = d]
                 /\ wire' = (wire \ arrivals) \cup a
      <4>1. \/ peers' = [peers EXCEPT ![p].parked = {}] /\ wire' = wire \ arrivals
            \/ peers' = [peers EXCEPT ![p].parked = Waiting(p, arrivals)] /\ wire' = wire \ arrivals
            \/ \E r \in Compared(p, arrivals) :
                 /\ Found(p, r) \in Desyncs /\ Answer(p, r) \subseteq Reports
                 /\ peers' = [peers EXCEPT ![p].parked = Waiting(p, arrivals), ![p].desync = Found(p, r)]
                 /\ wire' = (wire \ arrivals) \cup Answer(p, r)
        <5>1. CompareArrivedChecksums(p, arrivals)
          BY <2>1
        <5> QED
          BY <2>2, <5>1, ComparedAre
      <4>2. ASSUME NEW r \in Compared(p, arrivals),
                   Found(p, r) \in Desyncs, Answer(p, r) \subseteq Reports,
                   peers' = [peers EXCEPT ![p].parked = Waiting(p, arrivals), ![p].desync = Found(p, r)],
                   wire' = (wire \ arrivals) \cup Answer(p, r)
            PROVE  \E d \in Desyncs, a \in SUBSET Reports :
                     /\ peers' = [peers EXCEPT ![p].parked = Waiting(p, arrivals), ![p].desync = d]
                     /\ wire' = (wire \ arrivals) \cup a
        <5>1. Found(p, r) \in Desyncs /\ Answer(p, r) \in SUBSET Reports
          BY <4>2
        <5> QED
          BY <4>2, <5>1, Zenon
      <4> QED
        BY <4>1, <4>2
    <3> HIDE DEF waiting
    <3> QED
      BY <3>1, <3>2, <3>3, <3>4
  <2>5. peers' \in [Peer -> PeerState]
    <3>1. PICK w \in SUBSET Reports, d \in Desyncs :
             peers' = [peers EXCEPT ![p].parked = w] \/ peers' = [peers EXCEPT ![p].parked = w, ![p].desync = d]
      BY <2>4
    <3> DEFINE q == [peers[p] EXCEPT !.parked = w]
               q2 == [q EXCEPT !.desync = d]
    <3>2. q \in PeerState
      BY <1>a, EditedIs
    <3>3. q2 \in PeerState
      BY <3>2, EditedIs
    <3>4. peers' = [peers EXCEPT ![p] = q] \/ peers' = [peers EXCEPT ![p] = q2]
      BY <1>0, <3>1
    <3> HIDE DEF q, q2
    <3> QED
      BY <1>0, <3>2, <3>3, <3>4
  <2> QED
    BY <1>0, <1>a, <2>1, <2>4, <2>5
<1>4. ASSUME NEW c \in Client, TickAlone(c) PROVE Typed
  <2>2. peers[c] \in PeerState /\ peers[c].clock < MaxTick
    BY <1>0, <1>a, <1>4 DEF TickAlone
  <2>3. Ticked(peers[c], None) \in PeerState
    BY <2>2, TickedIs
  <2> QED
    BY <1>0, <1>a, <1>4, <2>3 DEF TickAlone
<1>5. ASSUME NEW c \in Client, Connect(c) PROVE Typed
  <2>1. [peers[c] EXCEPT !.at = "pending"] \in PeerState
    BY <1>a, EditedIs
  <2>2. peers' = [peers EXCEPT ![c] = [peers[c] EXCEPT !.at = "pending"]]
    BY <1>0, <1>a, <1>5 DEF Connect
  <2> QED
    BY <1>0, <1>5, <2>1, <2>2 DEF Connect
<1>6. ASSUME NEW c \in Client, Promoted(c) PROVE Typed
  BY <1>0, <1>a, <1>6 DEF Promoted, PeerState
<1>7. ASSUME NEW c \in Client, Join(c) PROVE Typed
  <2>1. peers[c] \in PeerState /\ peers[hub] \in PeerState
    BY <1>0, <1>a
  <2> DEFINE q == [peers[c] EXCEPT !.at = "in", !.clock = peers[hub].clock,
                                   !.line = peers[hub].line, !.mark = peers[hub].mark]
  <2>2. q \in PeerState
    BY <2>1 DEF PeerState
  <2>3. peers' = [peers EXCEPT ![c] = ForgetSamplesOnJoin(q)]
    BY <1>0, <1>a, <1>7 DEF Join
  <2> HIDE DEF q
  <2>4. ForgetSamplesOnJoin(q) \in PeerState
    BY <2>2, EmptyLog DEF ForgetSamplesOnJoin, PeerState
  <2> QED
    BY <1>0, <1>a, <1>7, <2>3, <2>4 DEF Join
<1>8. ASSUME NEW c \in Client, Accept(c) PROVE Typed
  <2> DEFINE roster == peers[hub].roster \cup {c, hub}
  <2>1. roster \in SUBSET Peer
    BY <1>0, <1>a DEF PeerState
  <2>2. peers' = [p \in Peer |-> IF p \in roster THEN [peers[p] EXCEPT !.roster = roster] ELSE peers[p]]
    BY <1>8 DEF Accept
  <2> HIDE DEF roster
  <2>3. peers' \in [Peer -> PeerState]
    <3>1. \A p \in Peer : [peers[p] EXCEPT !.roster = roster] \in PeerState
      BY <1>a, <2>1, EditedIs
    <3> QED
      BY <1>0, <2>2, <3>1
  <2> QED
    BY <1>0, <1>a, <1>8, <2>3 DEF Accept
<1>9. ASSUME NEW c \in Client, Leave(c) PROVE Typed
  <2> DEFINE q == [ForgetDesyncOnLobbyRemoved(peers[c]) EXCEPT !.at = "out", !.line = None, !.roster = {}]
  <2>1. q \in PeerState
    <3> DEFINE f == [[[[peers[c] EXCEPT !.parked = {}] EXCEPT !.announced = None] EXCEPT !.log = <<>>] EXCEPT !.desync = None]
    <3>1. f \in PeerState
      <4>1. [peers[c] EXCEPT !.parked = {}] \in PeerState
        BY <1>a, EditedIs
      <4>2. [[peers[c] EXCEPT !.parked = {}] EXCEPT !.announced = None] \in PeerState
        BY <4>1, EditedIs
      <4>3. [[[peers[c] EXCEPT !.parked = {}] EXCEPT !.announced = None] EXCEPT !.log = <<>>] \in PeerState
        BY <4>2, EditedIs
      <4> QED
        BY <4>3, EditedIs
    <3>2. ForgetDesyncOnLobbyRemoved(peers[c]) = f
      BY <1>a DEF ForgetDesyncOnLobbyRemoved
    <3> HIDE DEF f
    <3>3. [f EXCEPT !.at = "out"] \in PeerState
      BY <3>1, EditedIs
    <3>4. [[f EXCEPT !.at = "out"] EXCEPT !.line = None] \in PeerState
      BY <3>3, EditedIs
    <3>5. [[[f EXCEPT !.at = "out"] EXCEPT !.line = None] EXCEPT !.roster = {}] \in PeerState
      BY <3>4, EditedIs
    <3> QED
      BY <3>2, <3>5
  <2>2. peers' = [peers EXCEPT ![c] = q, ![hub].roster = @ \ {c}] /\ c # hub
    BY <1>0, <1>a, <1>9 DEF Leave
  <2> HIDE DEF q
  <2>3. peers' \in [Peer -> PeerState]
    <3> DEFINE once == [peers EXCEPT ![c] = q]
    <3>1. once \in [Peer -> PeerState]
      BY <1>0, <1>a, <2>1
    <3>2. [once[hub] EXCEPT !.roster = once[hub].roster \ {c}] \in PeerState
      <4>1. once[hub] \in PeerState /\ once[hub].roster \ {c} \in SUBSET Peer
        BY <1>0, <3>1 DEF PeerState
      <4> HIDE DEF once
      <4> QED
        BY <4>1, EditedIs
    <3>3. peers' = [once EXCEPT ![hub] = [once[hub] EXCEPT !.roster = once[hub].roster \ {c}]]
      BY <1>0, <1>a, <2>2
    <3> HIDE DEF once
    <3> QED
      BY <1>0, <1>a, <2>1, <3>1, <3>2, <3>3
  <2>4. session' \in Sessions
    BY <1>0, <1>a, <1>9 DEF Leave, Sessions
  <2> QED
    BY <1>0, <1>a, <1>9, <2>3, <2>4 DEF Leave
<1>10. ASSUME NEW n \in Client, ChangeHost(n) PROVE Typed
  <2>1. [Alone EXCEPT !.at = "gone", !.clock = peers[Host].clock] \in PeerState
    BY <1>0, <1>a, EmptyLog DEF Alone, PeerState
  <2>2. \A p \in Peer : [peers[p] EXCEPT !.at = "loading"] \in PeerState
    BY <1>0, <1>a DEF PeerState
  <2>3. peers' \in [Peer -> PeerState]
    BY <1>0, <1>a, <1>10, <2>1, <2>2 DEF ChangeHost
  <2>4. session' \in Sessions
    BY <1>10 DEF ChangeHost, Sessions
  <2> QED
    BY <1>0, <1>a, <1>10, <2>3, <2>4 DEF ChangeHost
<1>11. ASSUME NEW c \in Client, TakeVerdict(c) PROVE Typed
  <2> DEFINE q == ForgetReportsPastResume(peers[c], session.resume)
  <2>1. q \in PeerState
    BY <1>0, <1>a DEF ForgetReportsPastResume, PeerState
  <2>2. peers' = [peers EXCEPT ![c] = q] \/ peers' = [peers EXCEPT ![c] = [q EXCEPT !.at = "loading"], ![hub].roster = @ \ {c}]
    BY <1>0, <1>a, <1>11 DEF TakeVerdict
  <2>6. [q EXCEPT !.at = "loading"] \in PeerState
    BY <2>1, EditedIs
  <2> HIDE DEF q
  <2>3. peers' \in [Peer -> PeerState]
    <3> DEFINE once == [peers EXCEPT ![c] = [q EXCEPT !.at = "loading"]]
    <3>1. once \in [Peer -> PeerState]
      BY <1>0, <1>a, <2>6
    <3>2. [once[hub] EXCEPT !.roster = once[hub].roster \ {c}] \in PeerState
      <4>1. once[hub] \in PeerState /\ once[hub].roster \ {c} \in SUBSET Peer
        BY <1>0, <3>1 DEF PeerState
      <4> HIDE DEF once
      <4> QED
        BY <4>1, EditedIs
    <3>3. peers' = [peers EXCEPT ![c] = q] \/ peers' = [once EXCEPT ![hub] = [once[hub] EXCEPT !.roster = once[hub].roster \ {c}]]
      BY <1>0, <1>a, <2>2
    <3> HIDE DEF once
    <3> QED
      BY <1>0, <1>a, <2>1, <3>1, <3>2, <3>3, ZenonT(30)
  <2>4. session' \in Sessions
    BY <1>0, <1>a, <1>11 DEF TakeVerdict, Sessions
  <2>5. missed' \subseteq Reports
    BY <1>0, <1>a, <1>11 DEF TakeVerdict, PeerState
  <2> QED
    BY <1>0, <1>a, <1>11, <2>3, <2>4, <2>5 DEF TakeVerdict
<1>12. CASE AnnounceChecksum
  <2>1. Last(peers[hub].log) \in Entry
    BY <1>0, <1>a, <1>12, LogIs DEF AnnounceChecksum, PeerState
  <2>2. peers' \in [Peer -> PeerState]
    <3>1. Last(peers[hub].log).tick \in Ticks
      BY <2>1 DEF Entry
    <3>2. [peers[hub] EXCEPT !.announced = Last(peers[hub].log).tick] \in PeerState
      BY <1>0, <1>a, <3>1, EditedIs
    <3>3. peers' = [peers EXCEPT ![hub] = [peers[hub] EXCEPT !.announced = Last(peers[hub].log).tick]]
      BY <1>0, <1>12 DEF AnnounceChecksum
    <3> QED
      BY <1>0, <3>2, <3>3
  <2>3. {Report(hub, c, Last(peers[hub].log)) : c \in Listeners} \subseteq Reports
    BY <1>0, <1>a, <2>1, ReportsAre DEF Listeners
  <2> QED
    BY <1>0, <1>a, <1>12, <2>2, <2>3 DEF AnnounceChecksum
<1>13. CASE Decide
  <2>1. PICK resume \in peers[hub].clock..peers[Host].clock :
          /\ session' = [session EXCEPT !.phase = "stable", !.resume = resume]
          /\ peers' = [peers EXCEPT ![hub] =
               [ForgetReportsPastResume(@, resume) EXCEPT
                  !.roster = {hub} \cup {c \in session.awaiting : peers[c].clock <= resume}]]
    BY <1>13 DEF Decide
  <2>2. resume \in Ticks
    BY <1>0, <1>a, <2>1, Assumed DEF Ticks
  <2>3. ForgetReportsPastResume(peers[hub], resume) \in PeerState
    BY <1>0, <1>a, SMTT(30) DEF ForgetReportsPastResume, PeerState
  <2>4. {hub} \cup {c \in session.awaiting : peers[c].clock <= resume} \in SUBSET Peer
    BY <1>0, <1>a DEF Sessions
  <2>5. peers' \in [Peer -> PeerState]
    BY <1>0, <1>a, <2>1, <2>3, <2>4 DEF PeerState
  <2>6. session' \in Sessions
    BY <1>0, <1>a, <2>1, <2>2 DEF Sessions
  <2> QED
    BY <1>0, <1>a, <1>13, <2>5, <2>6 DEF Decide
<1>14. CASE UNCHANGED vars
  BY <1>0, <1>a, <1>14 DEF vars
<1> QED
  BY <1>1, <1>2, <1>3, <1>4, <1>5, <1>6, <1>7, <1>8, <1>9, <1>10, <1>11, <1>12, <1>13, <1>14 DEF Next

(* Every log, report and latch stays in its range, and no clock goes past the bound. *)
THEOREM Typing == Spec => []TypeOK
BY InitTypes, StepTypes, PTL DEF Spec

-----------------------------------------------------------------------------
(* WHAT A STEP DOES TO A PEER *)

LEMMA Typical == TypeOK =>
  /\ peers \in [Peer -> PeerState] /\ hub \in Peer /\ session \in Sessions
  /\ \A p \in Peer : /\ peers[p] \in PeerState /\ peers[p].clock \in Ticks
                     /\ peers[p].line \in {None, 1, 2} /\ peers[p].mark \in Peer \cup {None}
                     /\ peers[p].roster \in SUBSET Peer /\ peers[p].log \in Seq(Entry)
                     /\ peers[p].parked \in SUBSET Reports
                     /\ peers[p].announced \in Ticks \cup {None}
                     /\ peers[p].desync \in Desyncs \cup {None}
  /\ session.awaiting \subseteq Client /\ session.resume \in Ticks \cup {None}
  /\ session.phase \in {"stable", "deciding"}
  /\ wire \subseteq Reports /\ missed \subseteq Reports
  /\ \A c \in Client : c \in Peer
  /\ Host \in Peer /\ Host \notin Client /\ None \notin Ticks
BY TypesAre, Assumed DEF PeerState, Sessions

(* The clock and the log of p stay, start again empty, or go on by a tick.    *)
Stays(p) == peers'[p].log = peers[p].log /\ peers'[p].clock = peers[p].clock

Restarts(p) == peers'[p].log = <<>> /\ peers'[p].clock \in Ticks

GoesOn(p) ==
  /\ peers[p].clock < MaxTick
  /\ \E line \in {None, 1, 2} :
       /\ peers'[p] = Ticked(peers[p], line)
       /\ peers[p].at = "in" => line = LineOf(peers[p].clock + 1) /\ ~Held /\ p \notin session.awaiting
  /\ peers[p].at \in {"in", "out"}
  /\ hub' = hub /\ session' = session /\ wire' = wire /\ missed' = missed
  /\ \A q \in Peer \ {p} : peers'[q] = peers[q]

LEMMA ComparesAre ==
  ASSUME TypeOK, NEW p \in Peer, Compare(p)
  PROVE  /\ \A q \in Peer \ {p} : peers'[q] = peers[q]
         /\ peers'[p].log = peers[p].log /\ peers'[p].clock = peers[p].clock
         /\ peers'[p].at = peers[p].at /\ peers'[p].roster = peers[p].roster
         /\ peers'[p].announced = peers[p].announced
         /\ peers[p].at \in {"pending", "loading", "in"}
         /\ hub' = hub /\ session' = session
         /\ \E arrivals \in SUBSET {r \in wire : r.to = p} :
              /\ arrivals # {} \/ peers[p].parked # {}
              /\ missed' = missed \cup (arrivals \ Heard(p, arrivals))
              /\ Compared(p, arrivals) \subseteq Reports /\ Heard(p, arrivals) \subseteq arrivals
              /\ \/ /\ peers[p].desync # None /\ peers'[p].desync = peers[p].desync
                    /\ peers'[p].parked = {} /\ wire' = wire \ arrivals
                 \/ /\ peers[p].desync = None /\ peers'[p].desync = None
                    /\ \A r \in Compared(p, arrivals) : ~Differs(p, r)
                    /\ peers'[p].parked = Waiting(p, arrivals) /\ wire' = wire \ arrivals
                 \/ \E r \in Compared(p, arrivals) :
                    /\ peers[p].desync = None /\ Differs(p, r)
                    /\ Found(p, r) \in Desyncs /\ peers'[p].desync = Found(p, r)
                    /\ peers'[p].parked = Waiting(p, arrivals)
                    /\ wire' = (wire \ arrivals) \cup Answer(p, r)
                    /\ Answer(p, r) \subseteq
                         {[from |-> p, to |-> hub, tick |-> r.tick, world |-> At(peers[p].log, r.tick)]}
                    /\ Answer(p, r) \subseteq Reports
<1>1. PICK arrivals \in SUBSET {r \in wire : r.to = p} :
        /\ arrivals # {} \/ peers[p].parked # {}
        /\ peers[p].at \in {"pending", "loading", "in"}
        /\ CompareArrivedChecksums(p, arrivals)
        /\ missed' = missed \cup (arrivals \ Heard(p, arrivals))
        /\ UNCHANGED <<hub, session, joins, drifts>>
  BY DEF Compare
<1>2. arrivals \in SUBSET wire
  OBVIOUS
<1>3. peers[p] \in PeerState /\ peers \in [Peer -> PeerState]
  BY Typical
<1>4. Compared(p, arrivals) \subseteq Reports /\ Heard(p, arrivals) \subseteq arrivals
  BY <1>1, <1>2, ComparedAre
<1> DEFINE Kept == /\ \A q \in Peer \ {p} : peers'[q] = peers[q]
                   /\ peers'[p].log = peers[p].log /\ peers'[p].clock = peers[p].clock
                   /\ peers'[p].at = peers[p].at /\ peers'[p].roster = peers[p].roster
                   /\ peers'[p].announced = peers[p].announced
<1>5. CASE /\ peers[p].desync # None
           /\ peers' = [peers EXCEPT ![p].parked = {}]
           /\ wire' = wire \ arrivals
  <2>1. Kept /\ peers'[p].desync = peers[p].desync /\ peers'[p].parked = {}
    BY <1>3, <1>5 DEF PeerState
  <2> QED
    BY <1>1, <1>4, <1>5, <2>1
<1>6. CASE /\ peers[p].desync = None
           /\ \A r \in Compared(p, arrivals) : ~Differs(p, r)
           /\ peers' = [peers EXCEPT ![p].parked = Waiting(p, arrivals)]
           /\ wire' = wire \ arrivals
  <2>1. Kept /\ peers'[p].desync = None /\ peers'[p].parked = Waiting(p, arrivals)
    BY <1>3, <1>6 DEF PeerState
  <2> QED
    BY <1>1, <1>4, <1>6, <2>1
<1>7. CASE \E r \in Compared(p, arrivals) :
               /\ peers[p].desync = None /\ Differs(p, r)
               /\ Found(p, r) \in Desyncs
               /\ peers' = [peers EXCEPT ![p].parked = Waiting(p, arrivals), ![p].desync = Found(p, r)]
               /\ wire' = (wire \ arrivals) \cup Answer(p, r)
               /\ Answer(p, r) \subseteq
                    {[from |-> p, to |-> hub, tick |-> r.tick, world |-> At(peers[p].log, r.tick)]}
               /\ Answer(p, r) \subseteq Reports
  <2>1. PICK r \in Compared(p, arrivals) :
               /\ peers[p].desync = None /\ Differs(p, r)
               /\ Found(p, r) \in Desyncs
               /\ peers' = [peers EXCEPT ![p].parked = Waiting(p, arrivals), ![p].desync = Found(p, r)]
               /\ wire' = (wire \ arrivals) \cup Answer(p, r)
               /\ Answer(p, r) \subseteq
                    {[from |-> p, to |-> hub, tick |-> r.tick, world |-> At(peers[p].log, r.tick)]}
               /\ Answer(p, r) \subseteq Reports
    BY <1>7
  <2>2. Kept /\ peers'[p].desync = Found(p, r) /\ peers'[p].parked = Waiting(p, arrivals)
    BY <1>3, <2>1 DEF PeerState
  <2> QED
    BY <1>1, <1>4, <2>1, <2>2
<1> QED
  BY <1>1, <1>2, <1>5, <1>6, <1>7, ComparedAre

(* What a verdict makes of the peer that takes it, and of the new host.       *)
LEMMA VerdictIs ==
  ASSUME TypeOK, NEW c \in Client, TakeVerdict(c)
  PROVE  /\ c \in Peer /\ c \in session.awaiting /\ ~Held
         /\ peers'[c].log = peers[c].log /\ peers'[c].clock = peers[c].clock
         /\ peers'[c].desync = peers[c].desync /\ peers'[c].announced = peers[c].announced
         /\ peers'[c].parked = {r \in peers[c].parked : r.tick <= session.resume}
         /\ missed' = missed \cup {r \in peers[c].parked : r.tick > session.resume}
         /\ session' = [session EXCEPT !.awaiting = @ \ {c}]
         /\ hub' = hub /\ wire' = wire
         /\ \/ /\ c \in peers[hub].roster
               /\ peers'[c].at = peers[c].at
               /\ \A p \in Peer : peers'[p].roster = peers[p].roster
            \/ /\ peers'[c].at = "loading"
               /\ \A p \in Peer : peers'[p].roster = IF p = hub THEN peers[p].roster \ {c} ELSE peers[p].roster
         /\ \A p \in Peer \ {c} :
              /\ peers'[p].log = peers[p].log /\ peers'[p].clock = peers[p].clock
              /\ peers'[p].desync = peers[p].desync /\ peers'[p].announced = peers[p].announced
              /\ peers'[p].parked = peers[p].parked /\ peers'[p].at = peers[p].at
<1> DEFINE q == ForgetReportsPastResume(peers[c], session.resume)
<1>1. peers \in [Peer -> PeerState] /\ c \in Peer /\ peers[c] \in PeerState /\ hub \in Peer
  BY Typical
<1>2. /\ q.log = peers[c].log /\ q.clock = peers[c].clock /\ q.desync = peers[c].desync
      /\ q.announced = peers[c].announced /\ q.at = peers[c].at /\ q.roster = peers[c].roster
      /\ q.parked = {r \in peers[c].parked : r.tick <= session.resume}
  BY <1>1 DEF ForgetReportsPastResume, PeerState
<1>3. q \in PeerState
  <2>1. {r \in peers[c].parked : r.tick <= session.resume} \in SUBSET Reports
    BY Typical
  <2> QED
    BY <1>1, <2>1, EditedIs DEF ForgetReportsPastResume
<1>4. \/ c \in peers[hub].roster /\ peers' = [peers EXCEPT ![c] = q]
      \/ peers' = [peers EXCEPT ![c] = [q EXCEPT !.at = "loading"], ![hub].roster = @ \ {c}]
  BY DEF TakeVerdict
<1>5. /\ c \in session.awaiting /\ ~Held
      /\ missed' = missed \cup {r \in peers[c].parked : r.tick > session.resume}
      /\ session' = [session EXCEPT !.awaiting = @ \ {c}]
      /\ hub' = hub /\ wire' = wire
  BY DEF TakeVerdict
<1> HIDE DEF q
<1>6. CASE c \in peers[hub].roster /\ peers' = [peers EXCEPT ![c] = q]
  BY <1>1, <1>2, <1>5, <1>6
<1>7. CASE peers' = [peers EXCEPT ![c] = [q EXCEPT !.at = "loading"], ![hub].roster = @ \ {c}]
  <2>1. q.roster \ {c} = [q EXCEPT !.at = "loading"].roster \ {c}
    BY <1>3 DEF PeerState
  <2>2. [q EXCEPT !.at = "loading"] \in PeerState
    BY <1>3, EditedIs
  <2> DEFINE l == [q EXCEPT !.at = "loading"]
  <2>3. /\ l.at = "loading" /\ l.log = q.log /\ l.clock = q.clock /\ l.desync = q.desync
        /\ l.announced = q.announced /\ l.roster = q.roster /\ l.parked = q.parked
    BY <1>3 DEF PeerState
  <2> HIDE DEF l
  <2>4. peers' = [peers EXCEPT ![c] = l, ![hub].roster = @ \ {c}] /\ l \in PeerState
    BY <1>7, <2>2 DEF l
  <2> QED
    BY <1>1, <1>2, <1>5, <2>3, <2>4, ZenonT(30) DEF PeerState
<1> QED
  BY <1>4, <1>6, <1>7

(* What p holds besides its place in the session, its clock, its log, its     *)
(* roster and what it parked.                                                *)
Same(p) ==
  /\ peers'[p].log = peers[p].log /\ peers'[p].clock = peers[p].clock
  /\ peers'[p].desync = peers[p].desync /\ peers'[p].announced = peers[p].announced
  /\ peers'[p].parked = peers[p].parked

LEMMA JoinIs ==
  ASSUME TypeOK, NEW c \in Client, Join(c)
  PROVE  /\ c \in Peer /\ peers[c].at = "loading" /\ ~Held
         /\ peers'[c].at = "in" /\ peers'[c].log = <<>> /\ peers'[c].clock = peers[hub].clock
         /\ peers'[c].parked = {} /\ peers'[c].announced = None
         /\ peers'[c].roster = peers[c].roster /\ peers'[c].desync = peers[c].desync
         /\ \A p \in Peer \ {c} : peers'[p] = peers[p]
         /\ UNCHANGED <<hub, session, wire, missed>>
<1>1. peers \in [Peer -> PeerState] /\ c \in Peer /\ peers[c] \in PeerState
  BY Typical
<1> QED
  BY <1>1 DEF Join, ForgetSamplesOnJoin, PeerState

LEMMA AcceptIs ==
  ASSUME TypeOK, NEW c \in Client, Accept(c)
  PROVE  /\ c \in Peer /\ c # hub /\ peers[c].at = "in" /\ c \notin session.awaiting /\ ~Held
         /\ \A p \in Peer : Same(p) /\ peers'[p].at = peers[p].at
         /\ \A p \in Peer :
              peers'[p].roster = IF p \in peers[hub].roster \cup {c, hub} THEN peers[hub].roster \cup {c, hub}
                                                                          ELSE peers[p].roster
         /\ UNCHANGED <<hub, session, wire, missed>>
<1>1. /\ peers \in [Peer -> PeerState] /\ c \in Peer /\ peers[c] \in PeerState
      /\ \A p \in Peer : peers[p] \in PeerState
  BY Typical
<1> DEFINE roster == peers[hub].roster \cup {c, hub}
<1>2. peers' = [p \in Peer |-> IF p \in roster THEN [peers[p] EXCEPT !.roster = roster] ELSE peers[p]]
  BY DEF Accept
<1> HIDE DEF roster
<1>3. /\ \A p \in Peer : Same(p) /\ peers'[p].at = peers[p].at
      /\ \A p \in Peer : peers'[p].roster = IF p \in roster THEN roster ELSE peers[p].roster
  BY <1>1, <1>2 DEF PeerState, Same
<1> QED
  BY <1>1, <1>3 DEF Accept, roster

LEMMA LeaveIs ==
  ASSUME TypeOK, NEW c \in Client, Leave(c)
  PROVE  /\ c \in Peer /\ c # hub /\ ~Held
         /\ peers'[c].at = "out" /\ peers'[c].log = <<>> /\ peers'[c].clock = peers[c].clock
         /\ peers'[c].parked = {} /\ peers'[c].announced = None
         /\ peers'[c].roster = {} /\ peers'[c].desync = None
         /\ \A p \in Peer \ {c} :
              Same(p) /\ peers'[p].at = peers[p].at
              /\ peers'[p].roster = IF p = hub THEN peers[p].roster \ {c} ELSE peers[p].roster
         /\ session' = [session EXCEPT !.awaiting = @ \ {c}]
         /\ wire' = {r \in wire : c \notin {r.to, r.from}}
         /\ UNCHANGED <<hub, missed>>
<1>1. /\ peers \in [Peer -> PeerState] /\ c \in Peer /\ peers[c] \in PeerState /\ hub \in Peer
      /\ \A p \in Peer : peers[p] \in PeerState
  BY Typical
<1> DEFINE q == [ForgetDesyncOnLobbyRemoved(peers[c]) EXCEPT !.at = "out", !.line = None, !.roster = {}]
<1>2. /\ q.at = "out" /\ q.log = <<>> /\ q.clock = peers[c].clock /\ q.parked = {} /\ q.announced = None
      /\ q.roster = {} /\ q.desync = None
  BY <1>1 DEF ForgetDesyncOnLobbyRemoved, PeerState
<1>3. peers' = [peers EXCEPT ![c] = q, ![hub].roster = @ \ {c}] /\ c # hub
  BY <1>1 DEF Leave
<1> HIDE DEF q
<1>4. \A p \in Peer \ {c} :
              Same(p) /\ peers'[p].at = peers[p].at
              /\ peers'[p].roster = IF p = hub THEN peers[p].roster \ {c} ELSE peers[p].roster
  BY <1>1, <1>3 DEF PeerState, Same
<1>5. peers'[c] = q
  BY <1>1, <1>3
<1> QED
  BY <1>1, <1>2, <1>3, <1>4, <1>5 DEF Leave

LEMMA ChangeHostIs ==
  ASSUME TypeOK, NEW n \in Client, ChangeHost(n)
  PROVE  /\ n \in Peer /\ n # Host /\ hub = Host /\ hub' = n
         /\ peers[n].at = "in" /\ n \in peers[n].roster /\ peers'[n] = peers[n]
         /\ session' = [phase |-> "deciding", resume |-> None,
                        awaiting |-> {c \in Client \ {n} : peers[c].at = "in" /\ c \in peers[c].roster}]
         /\ peers'[Host].at = "gone" /\ peers'[Host].roster = {} /\ peers'[Host].log = <<>>
         /\ peers'[Host].parked = {} /\ peers'[Host].announced = None /\ peers'[Host].desync = None
         /\ peers'[Host].clock = peers[Host].clock
         /\ \A p \in Client :
              Same(p) /\ peers'[p].roster = peers[p].roster
              /\ peers'[p].at = IF peers[p].at = "in" /\ p \notin peers[p].roster THEN "loading" ELSE peers[p].at
         /\ wire' = {} /\ missed' = missed
<1>1. /\ peers \in [Peer -> PeerState] /\ n \in Peer /\ Host \in Peer /\ Host \notin Client
      /\ \A p \in Peer : peers[p] \in PeerState
      /\ \A p \in Client : p \in Peer /\ p # Host
  BY Typical
<1>2. /\ hub = Host /\ hub' = n
      /\ peers[n].at = "in" /\ n \in peers[n].roster
      /\ wire' = {} /\ missed' = missed
      /\ session' = [phase |-> "deciding", resume |-> None,
                     awaiting |-> {c \in Client \ {n} : peers[c].at = "in" /\ c \in peers[c].roster}]
  BY DEF ChangeHost, Established
<1>3. /\ peers'[Host] = [Alone EXCEPT !.at = "gone", !.clock = peers[Host].clock]
      /\ \A p \in Client : peers'[p] = IF peers[p].at = "in" /\ p \notin peers[p].roster
                                       THEN [peers[p] EXCEPT !.at = "loading"] ELSE peers[p]
  BY <1>1 DEF ChangeHost, Established
<1>4. \A p \in Client :
              Same(p) /\ peers'[p].roster = peers[p].roster
              /\ peers'[p].at = IF peers[p].at = "in" /\ p \notin peers[p].roster THEN "loading" ELSE peers[p].at
  BY <1>1, <1>3, ZenonT(30) DEF PeerState, Same
<1>5. /\ peers'[Host].at = "gone" /\ peers'[Host].roster = {} /\ peers'[Host].log = <<>>
      /\ peers'[Host].parked = {} /\ peers'[Host].announced = None /\ peers'[Host].desync = None
      /\ peers'[Host].clock = peers[Host].clock
  BY <1>3 DEF Alone
<1> QED
  BY <1>1, <1>2, <1>3, <1>4, <1>5

LEMMA AnnounceIs ==
  ASSUME TypeOK, AnnounceChecksum
  PROVE  /\ peers[hub].log # <<>> /\ Last(peers[hub].log) \in Entry
         /\ Last(peers[hub].log) \in ToSet(peers[hub].log)
         /\ peers'[hub] = [peers[hub] EXCEPT !.announced = Last(peers[hub].log).tick]
         /\ peers'[hub].announced = Last(peers[hub].log).tick
         /\ peers'[hub].log = peers[hub].log /\ peers'[hub].clock = peers[hub].clock
         /\ peers'[hub].desync = peers[hub].desync /\ peers'[hub].parked = peers[hub].parked
         /\ peers'[hub].at = peers[hub].at /\ peers'[hub].roster = peers[hub].roster
         /\ \A p \in Peer \ {hub} : peers'[p] = peers[p]
         /\ wire' = wire \cup {Report(hub, c, Last(peers[hub].log)) : c \in Listeners}
         /\ UNCHANGED <<hub, session, missed>>
<1>1. /\ peers \in [Peer -> PeerState] /\ hub \in Peer /\ peers[hub] \in PeerState
      /\ peers[hub].log \in Seq(Entry)
  BY Typical
<1>2. peers' = [peers EXCEPT ![hub].announced = Last(peers[hub].log).tick]
  BY DEF AnnounceChecksum
<1>3. /\ peers'[hub] = [peers[hub] EXCEPT !.announced = Last(peers[hub].log).tick]
      /\ \A p \in Peer \ {hub} : peers'[p] = peers[p]
  BY <1>1, <1>2
<1> DEFINE t == Last(peers[hub].log).tick
<1> HIDE DEF t
<1>4. peers'[hub] = [peers[hub] EXCEPT !.announced = t]
  BY <1>3 DEF t
<1>5. /\ peers'[hub].announced = t
      /\ peers'[hub].log = peers[hub].log /\ peers'[hub].clock = peers[hub].clock
      /\ peers'[hub].desync = peers[hub].desync /\ peers'[hub].parked = peers[hub].parked
      /\ peers'[hub].at = peers[hub].at /\ peers'[hub].roster = peers[hub].roster
  BY <1>1, <1>4 DEF PeerState
<1> QED
  BY <1>1, <1>3, <1>5, LogIs DEF AnnounceChecksum, t

LEMMA DecideIs ==
  ASSUME TypeOK, Decide
  PROVE  /\ Held
         /\ UNCHANGED <<hub, wire, missed>>
         /\ \A p \in Peer \ {hub} : peers'[p] = peers[p]
         /\ peers'[hub].log = peers[hub].log /\ peers'[hub].clock = peers[hub].clock
         /\ peers'[hub].desync = peers[hub].desync /\ peers'[hub].announced = peers[hub].announced
         /\ peers'[hub].at = peers[hub].at
         /\ \E resume \in Ticks :
              /\ peers[hub].clock <= resume
              /\ LateReporters \/ \A c \in session.awaiting : peers[c].clock <= resume
              /\ session' = [session EXCEPT !.phase = "stable", !.resume = resume]
              /\ peers'[hub].parked = {r \in peers[hub].parked : r.tick <= resume}
              /\ peers'[hub].roster = {hub} \cup {c \in session.awaiting : peers[c].clock <= resume}
<1>1. /\ peers \in [Peer -> PeerState] /\ hub \in Peer /\ peers[hub] \in PeerState
      /\ peers[hub].clock \in Ticks /\ peers[Host].clock \in Ticks
      /\ peers[hub].parked \in SUBSET Reports
  BY Typical
<1>2. PICK resume \in peers[hub].clock..peers[Host].clock :
        /\ LateReporters \/ \A c \in session.awaiting : peers[c].clock <= resume
        /\ session' = [session EXCEPT !.phase = "stable", !.resume = resume]
        /\ peers' = [peers EXCEPT ![hub] =
             [ForgetReportsPastResume(@, resume) EXCEPT
                !.roster = {hub} \cup {c \in session.awaiting : peers[c].clock <= resume}]]
  BY DEF Decide
<1>3. resume \in Ticks /\ peers[hub].clock <= resume
  BY <1>1, <1>2, Assumed DEF Ticks
<1> DEFINE roster == {hub} \cup {c \in session.awaiting : peers[c].clock <= resume}
           kept == {r \in peers[hub].parked : r.tick <= resume}
<1> HIDE DEF roster
<1>4. ForgetReportsPastResume(peers[hub], resume) = [peers[hub] EXCEPT !.parked = kept]
  BY <1>1 DEF ForgetReportsPastResume, PeerState
<1> HIDE DEF kept
<1>5. peers'[hub] = [[peers[hub] EXCEPT !.parked = kept] EXCEPT !.roster = roster]
  BY <1>1, <1>2, <1>4 DEF roster
<1>6. /\ peers'[hub].log = peers[hub].log /\ peers'[hub].clock = peers[hub].clock
      /\ peers'[hub].desync = peers[hub].desync /\ peers'[hub].announced = peers[hub].announced
      /\ peers'[hub].at = peers[hub].at
      /\ peers'[hub].parked = kept /\ peers'[hub].roster = roster
  BY <1>1, <1>5 DEF PeerState
<1>7. \A p \in Peer \ {hub} : peers'[p] = peers[p]
  BY <1>1, <1>2
<1>8. Held /\ UNCHANGED <<hub, wire, missed>>
  BY DEF Decide, Held
<1> QED
  BY <1>2, <1>3, <1>6, <1>7, <1>8 DEF roster, kept

(* What only moves a peer on its way, or makes its world its own.             *)
LEMMA MoveIs ==
  ASSUME TypeOK, NEW p \in Peer, Drift(p) \/ (p \in Client /\ (Connect(p) \/ Promoted(p)))
  PROVE  /\ \A q \in Peer : Same(q) /\ peers'[q].roster = peers[q].roster
         /\ \A q \in Peer \ {p} : peers'[q].at = peers[q].at
         /\ \/ peers'[p].at = peers[p].at
            \/ peers[p].at = "out" /\ peers'[p].at = "pending"
            \/ peers[p].at = "pending" /\ peers'[p].at = "loading"
         /\ UNCHANGED <<hub, session, wire, missed>>
<1>1. /\ peers \in [Peer -> PeerState] /\ \A q \in Peer : peers[q] \in PeerState
  BY Typical
<1>2. /\ \A q \in Peer : Same(q) /\ peers'[q].roster = peers[q].roster
      /\ \A q \in Peer \ {p} : peers'[q].at = peers[q].at
  BY <1>1 DEF Drift, Connect, Promoted, PeerState, Same
<1> QED
  BY <1>1, <1>2 DEF Drift, Connect, Promoted, PeerState

LEMMA TicksAre ==
  ASSUME TypeOK, NEW p \in Peer, TickInSession(p) \/ (p \in Client /\ TickAlone(p))
  PROVE  GoesOn(p)
<1>1. peers \in [Peer -> PeerState]
  BY Typical
<1> QED
  BY <1>1 DEF TickInSession, TickAlone, GoesOn, LineOf

LEMMA LogsGo ==
  ASSUME TypeOK, [Next]_vars
  PROVE  \A p \in Peer : Stays(p) \/ Restarts(p) \/ GoesOn(p)
<1>0. /\ peers \in [Peer -> PeerState] /\ hub \in Peer
      /\ \A p \in Peer : peers[p] \in PeerState /\ peers[p].clock \in Ticks
      /\ \A c \in Client : c \in Peer
      /\ Host \in Peer
  BY Typical
<1> DEFINE Goes == \A p \in Peer : Stays(p) \/ Restarts(p) \/ GoesOn(p)
<1>1. ASSUME NEW p \in Peer, TickInSession(p) PROVE Goes
  <2>1. GoesOn(p)
    BY <1>1, TicksAre
  <2> QED
    BY <2>1 DEF Stays, GoesOn
<1>2. ASSUME NEW p \in Peer, Drift(p) PROVE Goes
  BY <1>0, <1>2 DEF Drift, PeerState, Stays
<1>3. ASSUME NEW p \in Peer, Compare(p) PROVE Goes
  BY <1>3, ComparesAre DEF Stays
<1>4. ASSUME NEW c \in Client, TickAlone(c) PROVE Goes
  <2>1. GoesOn(c)
    BY <1>0, <1>4, TicksAre
  <2> QED
    BY <2>1 DEF Stays, GoesOn
<1>5. ASSUME NEW c \in Client, Connect(c) \/ Promoted(c) PROVE Goes
  BY <1>0, <1>5 DEF Connect, Promoted, PeerState, Stays
<1>6. ASSUME NEW c \in Client, Join(c) PROVE Goes
  <2>1. Restarts(c)
    BY <1>0, <1>6 DEF Join, ForgetSamplesOnJoin, Restarts, PeerState
  <2>2. \A q \in Peer \ {c} : peers'[q] = peers[q]
    BY <1>0, <1>6 DEF Join
  <2> QED
    BY <2>1, <2>2 DEF Stays
<1>7. ASSUME NEW c \in Client, Accept(c) PROVE Goes
  BY <1>0, <1>7 DEF Accept, PeerState, Stays
<1>8. ASSUME NEW c \in Client, Leave(c) PROVE Goes
  <2>1. Restarts(c)
    BY <1>0, <1>8 DEF Leave, ForgetDesyncOnLobbyRemoved, Restarts, PeerState
  <2>2. \A q \in Peer \ {c} : Stays(q)
    BY <1>0, <1>8 DEF Leave, Stays, PeerState
  <2> QED
    BY <2>1, <2>2
<1>9. ASSUME NEW n \in Client, ChangeHost(n) PROVE Goes
  <2>1. Restarts(Host)
    BY <1>0, <1>9 DEF ChangeHost, Alone, Restarts
  <2>2. \A q \in Peer \ {Host} : Stays(q)
    BY <1>0, <1>9 DEF ChangeHost, Stays, PeerState
  <2> QED
    BY <2>1, <2>2
<1>10. ASSUME NEW c \in Client, TakeVerdict(c) PROVE Goes
  BY <1>10, VerdictIs DEF Stays
<1>11. CASE AnnounceChecksum
  BY <1>0, <1>11 DEF AnnounceChecksum, PeerState, Stays
<1>12. CASE Decide
  BY <1>0, <1>12 DEF Decide, ForgetReportsPastResume, PeerState, Stays
<1>13. CASE UNCHANGED vars
  BY <1>13 DEF vars, Stays
<1> QED
  BY <1>1, <1>2, <1>3, <1>4, <1>5, <1>6, <1>7, <1>8, <1>9, <1>10, <1>11, <1>12, <1>13 DEF Next

(* No log holds two samples of a tick, nor one of a tick yet to come.         *)
Orderly(log, clock) ==
  \A s \in ToSet(log) : s.tick <= clock /\ \A u \in ToSet(log) : s.tick = u.tick => s = u

LogsAreOrderly == \A p \in Peer : Orderly(peers[p].log, peers[p].clock)

LEMMA AtOnce ==
  ASSUME NEW log \in Seq(Entry), NEW clock, Orderly(log, clock), NEW s \in ToSet(log)
  PROVE  s.tick \in SampledTicks(log) /\ At(log, s.tick) = s.world
<1>1. s.tick \in SampledTicks(log)
  BY LogIs
<1> QED
  BY <1>1, AtIs DEF Orderly

LEMMA TickedOrderly ==
  ASSUME NEW q \in PeerState, NEW line \in {None, 1, 2}, q.clock < MaxTick, Orderly(q.log, q.clock)
  PROVE  Orderly(Ticked(q, line).log, Ticked(q, line).clock)
<1> DEFINE then == Ticked(q, line)
           t == q.clock + 1
           new == [tick |-> t, world |-> [line |-> line, mark |-> q.mark]]
<1>1. /\ then.clock = t /\ new \in Entry
      /\ \/ then.log = q.log
         \/ ToSet(then.log) \subseteq ToSet(q.log) \cup {new}
  BY TickedIs
<1>2. /\ q.clock \in Nat /\ q.log \in Seq(Entry)
      /\ new.tick = t
  BY Assumed DEF PeerState, Ticks
<1>3. \A s \in ToSet(q.log) : s.tick \in Nat
  <2>1. \A s \in Entry : s.tick \in Nat
    BY Assumed DEF Entry, Ticks
  <2> QED
    BY <1>2, <2>1, LogIs
<1> HIDE DEF then, new
<1>4. \A s \in ToSet(q.log) : s.tick <= t /\ s.tick # t
  BY <1>2, <1>3 DEF Orderly
<1>5. new.tick <= t
  BY <1>2
<1> QED
  BY <1>1, <1>2, <1>4, <1>5 DEF Orderly, then

LEMMA InitOrderly == Init => LogsAreOrderly
BY EmptyLog DEF Init, LogsAreOrderly, Orderly, Alone, Hosting

LEMMA StepOrderly ==
  ASSUME TypeOK, LogsAreOrderly, [Next]_vars
  PROVE  LogsAreOrderly'
<1> SUFFICES ASSUME NEW p \in Peer PROVE Orderly(peers'[p].log, peers'[p].clock)
  BY DEF LogsAreOrderly
<1>1. CASE Stays(p)
  BY <1>1 DEF Stays, LogsAreOrderly
<1>2. CASE Restarts(p)
  BY <1>2, EmptyLog DEF Restarts, Orderly
<1>3. CASE GoesOn(p)
  BY <1>3, Typical, TickedOrderly DEF GoesOn, LogsAreOrderly
<1> QED
  BY <1>1, <1>2, <1>3, LogsGo

-----------------------------------------------------------------------------
(* A DRIFT IS FOUND *)

Newest == Last(peers[hub].log)

Announcing == peers[hub].log # <<>> /\ peers[hub].announced = Newest.tick

(* Only the host announces, and only what it has run.                        *)
AnnouncedIsPast ==
  /\ \A p \in Peer \ {hub} : peers[p].announced = None
  /\ peers[hub].announced # None => peers[hub].announced <= peers[hub].clock

(* What can have become of a report to c: it is on its way, was missed or     *)
(* waits; or c has found a desync; or it is of a tick c has run, and c no     *)
(* longer has it, or has the same of it.                                     *)
ToldOf(c, r) ==
  \/ r \in wire \cup missed \cup peers[c].parked
  \/ peers[c].desync # None
  \/ /\ r.tick <= peers[c].clock
     /\ r.tick \notin SampledTicks(peers[c].log) \/ At(peers[c].log, r.tick) = r.world

NewsIsTold ==
  Announcing => \A c \in Client \ {hub} : peers[c].at = "in" => ToldOf(c, Report(hub, c, Newest))

(* Until the host changes nothing is decided, and afterwards the resume tick is. *)
Ruled ==
  /\ hub = Host => session = [phase |-> "stable", resume |-> None, awaiting |-> {}]
  /\ hub # Host => (Held <=> session.resume = None)

DriftInv == TypeOK /\ Ruled /\ LogsAreOrderly /\ AnnouncedIsPast /\ NewsIsTold

LEMMA InitDrift == Init => DriftInv
<1> SUFFICES ASSUME Init PROVE DriftInv
  OBVIOUS
<1>1. TypeOK /\ LogsAreOrderly
  BY InitTypes, InitOrderly
<1>2. \A p \in Peer : peers[p].announced = None /\ peers[p].log = <<>>
  BY DEF Init, Alone, Hosting
<1>4. Ruled
  BY DEF Init, Ruled
<1>3. AnnouncedIsPast /\ NewsIsTold
  BY <1>1, <1>2, Typical DEF AnnouncedIsPast, NewsIsTold, Announcing
<1> QED
  BY <1>1, <1>3, <1>4 DEF DriftInv

LEMMA DriftFound == DriftInv => DriftIsFound
<1> SUFFICES ASSUME DriftInv, Announcing, NEW c \in Client \ {hub}, peers[c].at = "in",
                    Settled(Report(hub, c, Newest)), Differs(c, Report(hub, c, Newest)),
                    peers[c].desync = None
             PROVE  FALSE
  BY DEF DriftIsFound, Announcing, Newest
<1> DEFINE r == Report(hub, c, Newest)
<1>1. r.to = c /\ ToldOf(c, r)
  BY DEF DriftInv, NewsIsTold, Report
<1> HIDE DEF r
<1>2. /\ r \notin wire \cup missed
      /\ r \notin peers[c].parked \/ r.tick \notin SampledTicks(peers[c].log)
      /\ r.tick \in SampledTicks(peers[c].log) /\ At(peers[c].log, r.tick) # r.world
  BY <1>1 DEF r, Settled, Differs
<1> QED
  BY <1>1, <1>2 DEF ToldOf

LEMMA StepRuled ==
  ASSUME TypeOK, Ruled, [Next]_vars
  PROVE  Ruled'
<1>0. hub \in Peer /\ session \in Sessions /\ None \notin Ticks /\ \A c \in Client : c \in Peer
  BY Typical
<1> DEFINE Kept == hub' = hub /\ session' = session
<1>k. Kept => Ruled'
  BY DEF Ruled, Held
<1> HIDE DEF Kept
<1>1. ASSUME NEW p \in Peer, TickInSession(p) PROVE Kept
  BY <1>1 DEF TickInSession, Kept
<1>2. ASSUME NEW c \in Client, TickAlone(c) PROVE Kept
  BY <1>2 DEF TickAlone, Kept
<1>3. ASSUME NEW p \in Peer, Drift(p) \/ (p \in Client /\ (Connect(p) \/ Promoted(p))) PROVE Kept
  BY <1>3, MoveIs DEF Kept
<1>4. ASSUME NEW p \in Peer, Compare(p) PROVE Kept
  BY <1>4, ComparesAre DEF Kept
<1>5. ASSUME NEW c \in Client, Join(c) PROVE Kept
  BY <1>5, JoinIs DEF Kept
<1>6. ASSUME NEW c \in Client, Accept(c) PROVE Kept
  BY <1>6, AcceptIs DEF Kept
<1>7. ASSUME NEW c \in Client, Leave(c) \/ TakeVerdict(c) PROVE Ruled'
  <2>1. hub' = hub /\ session' = [session EXCEPT !.awaiting = @ \ {c}]
    BY <1>7, LeaveIs, VerdictIs
  <2>2. session'.phase = session.phase /\ session'.resume = session.resume
    BY <1>0, <2>1 DEF Sessions
  <2>3. session.awaiting = {} => session' = session
    BY <1>0, <2>1 DEF Sessions
  <2> QED
    BY <2>1, <2>2, <2>3 DEF Ruled, Held
<1>8. ASSUME NEW n \in Client, ChangeHost(n) PROVE Ruled'
  BY <1>8, ChangeHostIs DEF Ruled, Held
<1>9. CASE AnnounceChecksum
  BY <1>9, <1>k, AnnounceIs DEF Kept
<1>10. CASE Decide
  <2>1. PICK resume \in Ticks : session' = [session EXCEPT !.phase = "stable", !.resume = resume]
    BY <1>10, DecideIs
  <2>2. session'.phase = "stable" /\ session'.resume = resume
    BY <1>0, <2>1 DEF Sessions
  <2>3. hub' = hub /\ Held
    BY <1>10, DecideIs
  <2> QED
    BY <1>0, <2>2, <2>3 DEF Ruled, Held
<1>11. CASE UNCHANGED vars
  BY <1>11, <1>k DEF vars, Kept
<1> QED
  BY <1>0, <1>k, <1>1, <1>2, <1>3, <1>4, <1>5, <1>6, <1>7, <1>8, <1>9, <1>10, <1>11 DEF Next

LEMMA StepAnnounced ==
  ASSUME TypeOK, LogsAreOrderly, AnnouncedIsPast, [Next]_vars
  PROVE  AnnouncedIsPast'
<1>0. /\ hub \in Peer /\ \A c \in Client : c \in Peer
      /\ \A p \in Peer : /\ peers[p] \in PeerState /\ peers[p].clock \in Nat /\ peers[p].log \in Seq(Entry)
                         /\ peers[p].announced \in Ticks \cup {None}
      /\ Ticks \subseteq Nat
  BY Typical, Assumed DEF Ticks
<1> DEFINE Kept == /\ hub' = hub
                   /\ \A p \in Peer : peers'[p].announced \in {peers[p].announced, None}
                   /\ peers'[hub].clock = peers[hub].clock \/ peers'[hub].announced = None
<1>k. Kept => AnnouncedIsPast'
  BY <1>0 DEF AnnouncedIsPast
<1> HIDE DEF Kept
<1>1. ASSUME NEW p \in Peer, NEW line \in {None, 1, 2}, peers[p].clock < MaxTick, hub' = hub,
             peers' = [peers EXCEPT ![p] = Ticked(peers[p], line)]
      PROVE  AnnouncedIsPast'
  <2>1. Ticked(peers[p], line).clock = peers[p].clock + 1 /\ Ticked(peers[p], line).announced = peers[p].announced
    BY <1>0, <1>1, TickedIs
  <2>2. /\ peers'[p].clock = peers[p].clock + 1 /\ peers'[p].announced = peers[p].announced
        /\ \A q \in Peer \ {p} : peers'[q] = peers[q]
    BY <1>1, <2>1, Typical
  <2>3. \A a \in Ticks : a <= peers[p].clock => a <= peers[p].clock + 1
    BY <1>0
  <2> QED
    BY <1>0, <1>1, <2>2, <2>3, ZenonT(30) DEF AnnouncedIsPast
<1>2. ASSUME NEW p \in Peer, TickInSession(p) PROVE AnnouncedIsPast'
  BY <1>1, <1>2 DEF TickInSession, LineOf
<1>3. ASSUME NEW c \in Client, TickAlone(c) PROVE AnnouncedIsPast'
  BY <1>0, <1>1, <1>3 DEF TickAlone
<1>4. ASSUME NEW p \in Peer, Drift(p) \/ (p \in Client /\ (Connect(p) \/ Promoted(p))) PROVE Kept
  BY <1>0, <1>4, MoveIs DEF Kept, Same
<1>5. ASSUME NEW p \in Peer, Compare(p) PROVE Kept
  BY <1>0, <1>5, ComparesAre DEF Kept
<1>6. ASSUME NEW c \in Client, Join(c) PROVE Kept
  BY <1>0, <1>6, JoinIs DEF Kept
<1>7. ASSUME NEW c \in Client, Accept(c) PROVE Kept
  BY <1>0, <1>7, AcceptIs DEF Kept, Same
<1>8. ASSUME NEW c \in Client, Leave(c) PROVE Kept
  BY <1>0, <1>8, LeaveIs DEF Kept, Same
<1>9. ASSUME NEW n \in Client, ChangeHost(n) PROVE AnnouncedIsPast'
  <2>1. /\ hub = Host /\ hub' = n /\ n # Host /\ peers'[Host].announced = None
        /\ \A p \in Client : peers'[p].announced = peers[p].announced
    BY <1>9, ChangeHostIs DEF Same
  <2>2. \A p \in Client : p # Host
    BY Assumed
  <2>3. \A p \in Peer : peers'[p].announced = None
    BY <2>1, <2>2 DEF AnnouncedIsPast, Peer
  <2> QED
    BY <1>0, <2>1, <2>3 DEF AnnouncedIsPast
<1>10. ASSUME NEW c \in Client, TakeVerdict(c) PROVE Kept
  BY <1>0, <1>10, VerdictIs DEF Kept
<1>11. CASE AnnounceChecksum
  <2>1. Last(peers[hub].log).tick <= peers[hub].clock
    BY <1>0, <1>11, AnnounceIs DEF LogsAreOrderly, Orderly
  <2> QED
    BY <1>0, <1>11, <2>1, AnnounceIs DEF AnnouncedIsPast
<1>12. CASE Decide
  BY <1>0, <1>k, <1>12, DecideIs DEF Kept
<1>13. CASE UNCHANGED vars
  BY <1>k, <1>13 DEF vars, Kept
<1> QED
  BY <1>0, <1>k, <1>2, <1>3, <1>4, <1>5, <1>6, <1>7, <1>8, <1>9, <1>10, <1>11, <1>12, <1>13 DEF Next

(* What keeps c as it is, and loses no report to it, keeps it told.           *)
LEMMA StillTold ==
  ASSUME NEW c \in Peer, NEW r, ToldOf(c, r),
         peers'[c].log = peers[c].log, peers'[c].clock = peers[c].clock,
         peers[c].desync # None => peers'[c].desync # None,
         r \in wire \cup missed \cup peers[c].parked => r \in wire' \cup missed' \cup peers'[c].parked
  PROVE  ToldOf(c, r)'
BY DEF ToldOf

(* A tick of c: what it has of an earlier tick it had, and as it was.         *)
LEMMA OldSamples ==
  ASSUME TypeOK, LogsAreOrderly, NEW c \in Peer, GoesOn(c), NEW t \in Ticks, t <= peers[c].clock
  PROVE  /\ t <= peers'[c].clock
         /\ peers'[c].desync = peers[c].desync /\ peers'[c].parked = peers[c].parked
         /\ peers'[c].at = peers[c].at /\ peers'[c].roster = peers[c].roster
         /\ t \in SampledTicks(peers'[c].log) =>
              t \in SampledTicks(peers[c].log) /\ At(peers'[c].log, t) = At(peers[c].log, t)
<1>1. PICK line \in {None, 1, 2} : peers'[c] = Ticked(peers[c], line) /\ peers[c].clock < MaxTick
  BY DEF GoesOn
<1> DEFINE next == peers[c].clock + 1
           new == [tick |-> next, world |-> [line |-> line, mark |-> peers[c].mark]]
<1>2. /\ peers[c] \in PeerState /\ peers[c].clock \in Nat /\ peers[c].log \in Seq(Entry) /\ t \in Nat
  BY Typical, Assumed DEF Ticks
<1>3. /\ peers'[c] \in PeerState /\ peers'[c].clock = next /\ peers'[c].parked = peers[c].parked
      /\ peers'[c].desync = peers[c].desync
      /\ peers'[c].at = peers[c].at /\ peers'[c].roster = peers[c].roster
      /\ peers'[c].log = peers[c].log \/ ToSet(peers'[c].log) \subseteq ToSet(peers[c].log) \cup {new}
  <2> DEFINE q == peers[c]
             then == Ticked(q, line)
  <2>1. /\ then \in PeerState /\ then.clock = next /\ then.parked = q.parked
        /\ then.desync = q.desync /\ then.at = q.at /\ then.roster = q.roster
        /\ then.log = q.log \/ ToSet(then.log) \subseteq ToSet(q.log) \cup {new}
    BY <1>1, <1>2, TickedIs
  <2>2. peers'[c] = then
    BY <1>1
  <2> HIDE DEF then
  <2> QED
    BY <2>1, <2>2
<1>4. new.tick = next
  OBVIOUS
<1> HIDE DEF new
<1>5. t <= next /\ t # next
  BY <1>2
<1>6. ASSUME t \in SampledTicks(peers'[c].log)
      PROVE  t \in SampledTicks(peers[c].log) /\ At(peers'[c].log, t) = At(peers[c].log, t)
  <2>1. peers'[c].log \in Seq(Entry)
    BY <1>3 DEF PeerState
  <2>2. PICK s \in ToSet(peers'[c].log) : s.tick = t /\ At(peers'[c].log, t) = s.world
    BY <1>6, <2>1, AtIs
  <2>3. s \in ToSet(peers[c].log)
    BY <1>3, <1>4, <1>5, <2>2
  <2> QED
    BY <1>2, <2>2, <2>3, AtOnce DEF LogsAreOrderly
<1> QED
  BY <1>3, <1>5, <1>6

LEMMA ToldOnATick ==
  ASSUME TypeOK, LogsAreOrderly, NEW c \in Peer, NEW r \in Reports, ToldOf(c, r), GoesOn(c)
  PROVE  ToldOf(c, r)'
<1>1. wire' = wire /\ missed' = missed
  BY DEF GoesOn
<1>2. r.tick \in Ticks /\ 0 \in Ticks
  BY Assumed DEF Reports
<1>3. peers[c].clock \in Ticks /\ peers[c].clock <= peers[c].clock
  BY Typical, Assumed DEF Ticks
<1>4. peers'[c].desync = peers[c].desync /\ peers'[c].parked = peers[c].parked
  BY <1>3, OldSamples
<1>5. CASE r.tick <= peers[c].clock
  BY <1>1, <1>2, <1>4, <1>5, OldSamples DEF ToldOf
<1>6. CASE r \in wire \cup missed \cup peers[c].parked \/ peers[c].desync # None
  BY <1>1, <1>4, <1>6 DEF ToldOf
<1> QED
  BY <1>5, <1>6 DEF ToldOf

LEMMA StepTold ==
  ASSUME DriftInv, TypeOK', LogsAreOrderly', AnnouncedIsPast', [Next]_vars
  PROVE  NewsIsTold'
<1> SUFFICES ASSUME Announcing', NEW c \in Client, c # hub', peers'[c].at = "in"
             PROVE  ToldOf(c, Report(hub, c, Newest))'
  BY DEF NewsIsTold
<1>0. /\ TypeOK /\ LogsAreOrderly /\ AnnouncedIsPast /\ NewsIsTold /\ Ruled
      /\ hub \in Peer /\ c \in Peer /\ \A d \in Client : d \in Peer
      /\ \A p \in Peer : /\ peers[p] \in PeerState /\ peers[p].clock \in Nat /\ peers[p].log \in Seq(Entry)
                         /\ peers[p].announced \in Ticks \cup {None}
      /\ Ticks \subseteq Nat /\ None \notin Ticks
  BY Typical, Assumed DEF Ticks, DriftInv
<1>r. PICK r : r = Report(hub, c, Newest)
  OBVIOUS
<1> DEFINE Goal == ToldOf(c, Report(hub, c, Newest))'
           Unmoved == hub' = hub /\ peers'[hub].log = peers[hub].log /\ peers'[hub].announced = peers[hub].announced
           Keeps == /\ peers[c].at = "in"
                    /\ peers'[c].log = peers[c].log /\ peers'[c].clock = peers[c].clock
                    /\ peers[c].desync # None => peers'[c].desync # None
           Carried == r \in wire \cup missed \cup peers[c].parked => r \in wire' \cup missed' \cup peers'[c].parked
<1>n. peers[hub].log # <<>> => r \in Reports /\ r.to = c /\ r.from = hub /\ r.tick = Newest.tick
  <2> SUFFICES ASSUME peers[hub].log # <<>> PROVE r \in Reports /\ r.to = c /\ r.from = hub /\ r.tick = Newest.tick
    OBVIOUS
  <2>1. Newest \in Entry
    BY <1>0, LogIs DEF Newest
  <2> QED
    BY <1>0, <1>r, <2>1, ReportsAre
<1>u. Unmoved => /\ Announcing /\ Report(hub, c, Newest)' = r
                 /\ c # hub /\ (peers[c].at = "in" => ToldOf(c, r))
  BY <1>0, <1>r DEF Announcing, Newest, NewsIsTold
<1> HIDE DEF Goal
<1>g. Unmoved => (Goal <=> ToldOf(c, r)')
  BY <1>u DEF Goal
<1> HIDE DEF Unmoved
<1>k. Unmoved /\ Keeps /\ Carried => Goal
  BY <1>0, <1>u, <1>g, StillTold
<1>t. ASSUME Unmoved, GoesOn(c), peers[c].at = "in" PROVE Goal
  BY <1>0, <1>n, <1>t, <1>u, <1>g, ToldOnATick DEF Announcing
<1>a. r \in wire \cup missed \cup peers[c].parked \/ ~(r \in wire \cup missed \cup peers[c].parked)
  OBVIOUS
<1>1. ASSUME NEW p \in Peer, GoesOn(p) PROVE Goal
  <2>1. PICK line \in {None, 1, 2} : peers'[p] = Ticked(peers[p], line) /\ peers[p].clock < MaxTick
    BY <1>1 DEF GoesOn
  <2> DEFINE q == peers[p]
             then == Ticked(q, line)
             new == [tick |-> q.clock + 1, world |-> [line |-> line, mark |-> q.mark]]
  <2>2. /\ then.announced = q.announced /\ then.at = q.at
        /\ then.log = q.log \/ Last(then.log) = new
    BY <1>0, <2>1, TickedIs
  <2>3. new.tick = q.clock + 1
    OBVIOUS
  <2>4. peers'[p] = then
    BY <2>1
  <2> HIDE DEF then, new
  <2>5. /\ \A d \in Peer \ {p} : peers'[d] = peers[d]
        /\ hub' = hub /\ wire' = wire /\ missed' = missed
    BY <1>1 DEF GoesOn
  <2>6. CASE p # hub
    <3>1. Unmoved
      BY <1>0, <2>5, <2>6 DEF Unmoved
    <3>2. CASE p = c
      BY <1>1, <1>t, <2>2, <2>4, <3>1, <3>2
    <3>3. CASE p # c
      <4>1. Keeps /\ Carried
        BY <1>0, <2>5, <3>3
      <4> QED
        BY <1>k, <3>1, <4>1
    <3> QED
      BY <3>2, <3>3
  <2>7. CASE p = hub
    <3>1. CASE then.log = q.log
      <4>1. Unmoved
        BY <2>2, <2>4, <2>5, <2>7, <3>1 DEF Unmoved
      <4>2. Keeps /\ Carried
        BY <1>0, <2>5, <2>7
      <4> QED
        BY <1>k, <4>1, <4>2
    <3>2. CASE Last(then.log) = new
      <4>1. peers'[hub].announced = peers[hub].clock + 1
        BY <2>3, <2>4, <2>5, <2>7, <3>2 DEF Announcing, Newest
      <4>2. peers[hub].announced = peers[hub].clock + 1
        BY <2>2, <2>4, <2>7, <4>1
      <4>3. peers[hub].announced \in Nat /\ peers[hub].announced # None
        BY <1>0, <4>2, Assumed
      <4>4. peers[hub].announced <= peers[hub].clock
        BY <1>0, <4>3 DEF AnnouncedIsPast
      <4> QED
        BY <1>0, <4>2, <4>4
    <3> QED
      BY <2>2, <3>1, <3>2
  <2> QED
    BY <2>6, <2>7
<1>2. ASSUME NEW p \in Peer, Drift(p) \/ (p \in Client /\ (Connect(p) \/ Promoted(p))) PROVE Goal
  <2>1. Unmoved /\ Keeps /\ Carried
    BY <1>0, <1>2, MoveIs DEF Unmoved, Same
  <2> QED
    BY <1>k, <2>1
<1>3. ASSUME NEW p \in Peer, Compare(p) PROVE Goal
  <2>1. /\ \A q \in Peer \ {p} : peers'[q] = peers[q]
        /\ peers'[p].log = peers[p].log /\ peers'[p].clock = peers[p].clock
        /\ peers'[p].at = peers[p].at /\ peers'[p].announced = peers[p].announced
        /\ hub' = hub
    BY <1>0, <1>3, ComparesAre
  <2>2. Unmoved
    BY <1>0, <2>1 DEF Unmoved
  <2>3. /\ r \in Reports /\ r.to = c /\ ToldOf(c, r) /\ c # hub
        /\ peers[c].at = "in"
    BY <1>0, <1>n, <1>u, <2>1, <2>2 DEF Announcing
  <2>4. PICK arrivals \in SUBSET {a \in wire : a.to = p} :
          /\ missed' = missed \cup (arrivals \ Heard(p, arrivals))
          /\ \/ /\ peers[p].desync # None /\ peers'[p].desync = peers[p].desync
                /\ wire' = wire \ arrivals
             \/ /\ peers[p].desync = None /\ peers'[p].desync = None
                /\ \A a \in Compared(p, arrivals) : ~Differs(p, a)
                /\ peers'[p].parked = Waiting(p, arrivals) /\ wire' = wire \ arrivals
             \/ \E a \in Compared(p, arrivals) :
                  /\ peers[p].desync = None
                  /\ Found(p, a) \in Desyncs /\ peers'[p].desync = Found(p, a)
                  /\ wire' = (wire \ arrivals) \cup Answer(p, a)
    BY <1>0, <1>3, ComparesAre, SMTT(30)
  <2>5. CASE p # c
    <3>1. r \notin arrivals
      BY <2>3, <2>4, <2>5
    <3>2. Keeps /\ Carried
      BY <1>0, <2>1, <2>3, <2>4, <2>5, <3>1
    <3> QED
      BY <1>k, <2>2, <3>2
  <2>6. CASE p = c /\ peers'[c].desync # None
    BY <1>g, <2>2, <2>6 DEF ToldOf
  <2>7. CASE p = c /\ peers'[c].desync = None
    <3>1. /\ missed' = missed \cup (arrivals \ Heard(c, arrivals)) /\ wire' = wire \ arrivals
          /\ \A a \in Compared(c, arrivals) : ~Differs(c, a)
          /\ peers'[c].parked = Waiting(c, arrivals)
          /\ peers[c].desync = None
      BY <2>4, <2>7, NoneIsNoDesync
    <3>2. CASE r \in Compared(c, arrivals)
      <4>1. r.tick \in Nat /\ peers[c].log \in Seq(Entry) /\ Orderly(peers[c].log, peers[c].clock)
        BY <1>0, <2>3 DEF LogsAreOrderly, Reports
      <4>2. CASE r.tick \in SampledTicks(peers[c].log)
        <5>1. At(peers[c].log, r.tick) = r.world
          BY <3>1, <3>2, <4>2 DEF Differs
        <5>2. r.tick <= peers[c].clock
          BY <4>1, <4>2, AtIs DEF Orderly
        <5> QED
          BY <1>g, <2>1, <2>2, <2>7, <5>1, <5>2 DEF ToldOf
      <4>3. CASE r.tick \notin SampledTicks(peers[c].log) /\ Waits(c, r)
        BY <1>g, <2>2, <3>1, <3>2, <4>3 DEF ToldOf, Waiting
      <4>4. CASE r.tick \notin SampledTicks(peers[c].log) /\ ~Waits(c, r)
        <5> DEFINE last == Last(peers[c].log)
        <5>1. peers[c].log # <<>> /\ ~(r.tick > last.tick)
          BY <2>3, <4>4 DEF Waits
        <5>2. last \in ToSet(peers[c].log) /\ last \in Entry
          BY <4>1, <5>1, LogIs
        <5>3. last.tick \in Nat /\ last.tick <= peers[c].clock
          BY <1>0, <4>1, <5>2 DEF Orderly, Entry
        <5> HIDE DEF last
        <5>4. r.tick <= peers[c].clock
          BY <1>0, <4>1, <5>1, <5>3
        <5> QED
          BY <1>g, <2>1, <2>2, <2>7, <4>4, <5>4 DEF ToldOf
      <4> QED
        BY <4>2, <4>3, <4>4
    <3>3. CASE r \notin Compared(c, arrivals)
      <4>1. r \in wire \cup missed => r \in wire' \cup missed'
        BY <3>1, <3>3 DEF Compared
      <4>2. r \notin peers[c].parked
        BY <3>3 DEF Compared
      <4>3. Keeps /\ Carried
        BY <2>1, <2>3, <2>7, <3>1, <4>1, <4>2
      <4> QED
        BY <1>k, <2>2, <4>3
    <3> QED
      BY <3>2, <3>3
  <2> QED
    BY <2>5, <2>6, <2>7
<1>4. ASSUME NEW d \in Client, Join(d) PROVE Goal
  <2>1. d # hub
    BY <1>0, <1>4, JoinIs DEF Announcing
  <2>2. Unmoved
    BY <1>0, <1>4, <2>1, JoinIs DEF Unmoved
  <2>3. CASE d = c
    <3>1. Announcing /\ r.tick = peers[hub].announced /\ r.tick \in Ticks
      BY <1>n, <1>u, <2>2 DEF Announcing, Reports
    <3>2. r.tick <= peers[hub].clock
      BY <1>0, <3>1 DEF AnnouncedIsPast
    <3>3. /\ peers'[c].clock = peers[hub].clock /\ peers'[c].log = <<>>
      BY <1>0, <1>4, <2>3, JoinIs
    <3> QED
      BY <1>g, <2>2, <3>2, <3>3, EmptyLog DEF ToldOf
  <2>4. CASE d # c
    <3>1. Keeps /\ Carried
      BY <1>0, <1>4, <2>4, JoinIs
    <3> QED
      BY <1>k, <2>2, <3>1
  <2> QED
    BY <2>3, <2>4
<1>5. ASSUME NEW d \in Client, Accept(d) PROVE Goal
  <2>1. Unmoved /\ Keeps /\ Carried
    BY <1>0, <1>5, AcceptIs DEF Unmoved, Same
  <2> QED
    BY <1>k, <2>1
<1>6. ASSUME NEW d \in Client, Leave(d) PROVE Goal
  <2>1. d # c /\ d # hub /\ Same(c) /\ Same(hub) /\ hub' = hub /\ peers'[c].at = peers[c].at
    BY <1>0, <1>6, LeaveIs
  <2>2. Unmoved
    BY <2>1 DEF Unmoved, Same
  <2>3. r.to = c /\ r.from = hub
    BY <1>n, <1>u, <2>2 DEF Announcing
  <2>4. wire' = {a \in wire : d \notin {a.to, a.from}} /\ missed' = missed
    BY <1>0, <1>6, LeaveIs
  <2>5. Keeps /\ Carried
    BY <2>1, <2>3, <2>4 DEF Same
  <2> QED
    BY <1>k, <2>2, <2>5
<1>7. ASSUME NEW n \in Client, ChangeHost(n) PROVE Goal
  <2>1. hub' = n /\ n \in Peer /\ n # hub /\ peers'[n] = peers[n]
    BY <1>0, <1>7, ChangeHostIs
  <2>2. peers[n].announced = None
    BY <1>0, <2>1 DEF AnnouncedIsPast
  <2>3. peers[n].log # <<>> /\ Last(peers[n].log).tick = None
    BY <2>1, <2>2 DEF Announcing, Newest
  <2>4. Last(peers[n].log) \in Entry
    BY <1>0, <2>1, <2>3, LogIs
  <2> QED
    BY <1>0, <2>3, <2>4 DEF Entry
<1>8. ASSUME NEW d \in Client, TakeVerdict(d) PROVE Goal
  <2>1. /\ d \in session.awaiting /\ ~Held /\ hub' = hub /\ wire' = wire
        /\ \A p \in Peer : peers'[p].log = peers[p].log /\ peers'[p].clock = peers[p].clock
                           /\ peers'[p].desync = peers[p].desync /\ peers'[p].announced = peers[p].announced
    BY <1>0, <1>8, VerdictIs
  <2>2. Unmoved
    BY <1>0, <2>1 DEF Unmoved
  <2>3. session.resume \in Nat
    <3>1. session.resume \in Ticks \cup {None} /\ hub # Host
      BY <1>0, <2>1, Typical DEF Ruled
    <3> QED
      BY <1>0, <2>1, <3>1 DEF Ruled
  <2>4. peers[c].at = "in"
    BY <1>0, <1>8, VerdictIs
  <2>5. r \in Reports
    BY <1>n, <1>u, <2>2 DEF Announcing
  <2>6. Carried
    <3>1. missed \subseteq missed'
      BY <1>8, <1>0, VerdictIs
    <3>2. CASE d = c
      <4>1. r.tick \in Nat
        BY <1>0, <2>5 DEF Reports
      <4>2. r.tick <= session.resume \/ r.tick > session.resume
        BY <2>3, <4>1
      <4>3. /\ peers'[c].parked = {a \in peers[c].parked : a.tick <= session.resume}
            /\ missed' = missed \cup {a \in peers[c].parked : a.tick > session.resume}
        BY <1>0, <1>8, <3>2, VerdictIs
      <4> QED
        BY <2>1, <4>2, <4>3
    <3>3. CASE d # c
      BY <1>0, <1>8, <2>1, <3>1, <3>3, VerdictIs
    <3> QED
      BY <3>2, <3>3
  <2>7. Keeps
    BY <1>0, <2>1, <2>4
  <2> QED
    BY <1>k, <2>2, <2>6, <2>7
<1>9. CASE AnnounceChecksum
  <2>1. /\ hub' = hub /\ peers'[hub].log = peers[hub].log
        /\ wire' = wire \cup {Report(hub, d, Newest) : d \in Listeners}
        /\ \A p \in Peer \ {hub} : peers'[p] = peers[p]
    BY <1>0, <1>9, AnnounceIs DEF Newest
  <2>2. c \in Listeners
    BY <1>0, <2>1 DEF Listeners
  <2>3. r \in wire'
    BY <1>r, <2>1, <2>2
  <2>4. Report(hub, c, Newest)' = r
    BY <1>r, <2>1 DEF Newest
  <2> QED
    BY <2>3, <2>4 DEF Goal, ToldOf
<1>10. CASE Decide
  <2>1. Unmoved /\ Keeps /\ Carried
    BY <1>0, <1>10, DecideIs DEF Unmoved
  <2> QED
    BY <1>k, <2>1 DEF Goal
<1>11. CASE UNCHANGED vars
  <2>1. Unmoved /\ Keeps /\ Carried
    BY <1>11 DEF Unmoved, vars
  <2> QED
    BY <1>k, <2>1 DEF Goal
<1>12. Goal
  BY <1>0, <1>1, <1>2, <1>3, <1>4, <1>5, <1>6, <1>7, <1>8, <1>9, <1>10, <1>11, TicksAre DEF Next, Goal
<1> QED
  BY <1>12 DEF Goal

LEMMA StepDrift == DriftInv /\ [Next]_vars => DriftInv'
<1> SUFFICES ASSUME DriftInv, [Next]_vars PROVE DriftInv'
  OBVIOUS
<1>0. TypeOK /\ Ruled /\ LogsAreOrderly /\ AnnouncedIsPast
  BY DEF DriftInv
<1>1. TypeOK'
  BY <1>0, StepTypes
<1>2. Ruled' /\ LogsAreOrderly' /\ AnnouncedIsPast'
  BY <1>0, StepRuled, StepOrderly, StepAnnounced
<1>3. NewsIsTold'
  BY <1>1, <1>2, StepTold
<1> QED
  BY <1>1, <1>2, <1>3 DEF DriftInv

(* Whatever the order in which reports arrive, peers join, leave and change hosts, *)
(* and whether a report may reach a peer before its lobby or not: a client that    *)
(* sampled another world than its host has said so, once the host's newest sample  *)
(* is announced and heard.  Neither parking nor the bound of the log hides it.     *)
THEOREM DriftsAreFound == Spec => []DriftIsFound
<1>1. Spec => []DriftInv
  BY InitDrift, StepDrift, PTL DEF Spec
<1> QED
  BY <1>1, DriftFound, PTL

-----------------------------------------------------------------------------
(* NO FALSE ALARM *)

Sitting(p) == p = hub \/ p \in session.awaiting

(* Where the peers of the session are: the host is in it, who awaits a verdict  *)
(* is, and has run nothing past the resume; while the change of host is being   *)
(* decided nobody else is, and otherwise whom the host hears is.               *)
Whereabouts ==
  /\ peers[hub].at = "in" /\ hub \notin session.awaiting
  /\ \A c \in session.awaiting :
       peers[c].at = "in" /\ (session.resume # None => peers[c].clock <= session.resume)
  /\ Held => \A p \in Peer : peers[p].at = "in" => Sitting(p)
  /\ ~Held => \A p \in peers[hub].roster : peers[p].at = "in"

(* Who hears nobody keeps nothing: out of the session, and while joining it     *)
(* unless a verdict sent the peer back.                                        *)
Silence ==
  \A p \in Peer :
    /\ peers[p].roster # {} => /\ p \in peers[p].roster /\ peers[p].at \in {"loading", "in"}
                               /\ peers[p].at = "loading" => hub # Host /\ ~Held
    /\ peers[p].roster = {} => peers[p].parked = {}

InSession(p) == peers[p].at = "in" \/ peers[p].roster # {}

(* What a peer of the session has sampled it has run on the session's rulings. *)
LogsAreRuled == \A p \in Peer : InSession(p) => \A s \in ToSet(peers[p].log) : s.world.line = LineOf(s.tick)

(* So is what is on its way; while the change of host is being decided, from    *)
(* who will be asked how far it has come, which is that far.                   *)
WireIsRuled ==
  \A r \in wire :
    /\ r.world.line = LineOf(r.tick)
    /\ peers[r.to].at \in {"loading", "in"}
    /\ Held => Sitting(r.from) /\ r.tick <= peers[r.from].clock

(* And what waits, but for what a verdict on its way will have the peer forget. *)
ParkedIsRuled ==
  \A p \in Peer : \A r \in peers[p].parked :
    \/ r.world.line = LineOf(r.tick)
    \/ p \in session.awaiting /\ session.resume # None /\ r.tick > session.resume

SoundInv ==
  /\ TypeOK /\ Ruled /\ LogsAreOrderly
  /\ Whereabouts /\ Silence /\ LogsAreRuled /\ WireIsRuled /\ ParkedIsRuled /\ NoFalseAlarm

LEMMA InitSound == Init => SoundInv
<1> SUFFICES ASSUME Init PROVE SoundInv
  OBVIOUS
<1>1. TypeOK /\ LogsAreOrderly /\ Ruled
  BY InitTypes, InitOrderly DEF Init, Ruled
<1>2. /\ \A p \in Peer : /\ peers[p].log = <<>> /\ peers[p].roster = {} /\ peers[p].parked = {}
                         /\ peers[p].desync = None
      /\ peers[Host].at = "in" /\ hub = Host /\ session.awaiting = {} /\ wire = {} /\ ~Held
  BY Assumed DEF Init, Alone, Hosting, Held
<1>3. Whereabouts /\ Silence /\ LogsAreRuled /\ WireIsRuled /\ ParkedIsRuled /\ NoFalseAlarm
  BY <1>2, Assumed, EmptyLog DEF Whereabouts, Silence, LogsAreRuled, WireIsRuled, ParkedIsRuled, NoFalseAlarm
<1> QED
  BY <1>1, <1>3 DEF SoundInv

(* What a step does to the session: a line of rulings is only ever added.      *)
LEMMA SessionGoes ==
  ASSUME TypeOK, Ruled
  PROVE  /\ \A c \in Client : Leave(c) \/ TakeVerdict(c) =>
              /\ session'.phase = session.phase /\ session'.resume = session.resume
              /\ session'.awaiting = session.awaiting \ {c} /\ ~Held /\ ~Held'
              /\ \A t : LineOf(t)' = LineOf(t)
         /\ \A n \in Client : ChangeHost(n) =>
              /\ session.resume = None /\ session'.resume = None /\ ~Held /\ Held'
              /\ session.awaiting = {} /\ session'.awaiting \subseteq Client \ {n}
              /\ \A t : LineOf(t)' = LineOf(t)
         /\ UNCHANGED session => (Held' = Held) /\ \A t : LineOf(t)' = LineOf(t)
<1>0. session \in Sessions
  BY Typical
<1>1. ASSUME NEW c \in Client, Leave(c) \/ TakeVerdict(c)
      PROVE  /\ session'.phase = session.phase /\ session'.resume = session.resume
             /\ session'.awaiting = session.awaiting \ {c} /\ ~Held /\ ~Held'
             /\ \A t : LineOf(t)' = LineOf(t)
  <2>1. session' = [session EXCEPT !.awaiting = @ \ {c}] /\ ~Held
    BY <1>1, LeaveIs, VerdictIs
  <2>2. session'.phase = session.phase /\ session'.resume = session.resume
        /\ session'.awaiting = session.awaiting \ {c}
    BY <1>0, <2>1 DEF Sessions
  <2> QED
    BY <2>1, <2>2 DEF Held, LineOf
<1>2. ASSUME NEW n \in Client, ChangeHost(n)
      PROVE  /\ session.resume = None /\ session'.resume = None /\ ~Held /\ Held'
             /\ session.awaiting = {} /\ session'.awaiting \subseteq Client \ {n}
             /\ \A t : LineOf(t)' = LineOf(t)
  <2>1. /\ session = [phase |-> "stable", resume |-> None, awaiting |-> {}]
        /\ session' = [phase |-> "deciding", resume |-> None,
                       awaiting |-> {c \in Client \ {n} : peers[c].at = "in" /\ c \in peers[c].roster}]
    BY <1>2, ChangeHostIs DEF Ruled
  <2>2. /\ session.resume = None /\ session.phase = "stable" /\ session.awaiting = {}
        /\ session'.resume = None /\ session'.phase = "deciding" /\ session'.awaiting \subseteq Client \ {n}
    BY <2>1
  <2> QED
    BY <2>2 DEF Held, LineOf
<1>3. UNCHANGED session => (Held' = Held) /\ \A t : LineOf(t)' = LineOf(t)
  BY DEF Held, LineOf
<1> QED
  BY <1>1, <1>2, <1>3

LEMMA DecideSession ==
  ASSUME TypeOK, Ruled, ~LateReporters, Decide
  PROVE  /\ Held /\ ~Held' /\ session.resume = None /\ hub # Host
         /\ session'.resume \in Ticks /\ session'.resume # None
         /\ session'.awaiting = session.awaiting
         /\ peers[hub].clock <= session'.resume
         /\ \A c \in session.awaiting : peers[c].clock <= session'.resume
         /\ peers'[hub].parked = {r \in peers[hub].parked : r.tick <= session'.resume}
         /\ peers'[hub].roster = {hub} \cup session.awaiting
         /\ \A t \in Ticks : LineOf(t) = 1 /\ (t <= session'.resume => LineOf(t)' = 1)
<1>0. session \in Sessions /\ None \notin Ticks
  BY Typical
<1>1. PICK resume \in Ticks :
              /\ peers[hub].clock <= resume
              /\ LateReporters \/ \A c \in session.awaiting : peers[c].clock <= resume
              /\ session' = [session EXCEPT !.phase = "stable", !.resume = resume]
              /\ peers'[hub].parked = {r \in peers[hub].parked : r.tick <= resume}
              /\ peers'[hub].roster = {hub} \cup {c \in session.awaiting : peers[c].clock <= resume}
  BY DecideIs
<1>2. session'.phase = "stable" /\ session'.resume = resume /\ session'.awaiting = session.awaiting
  BY <1>0, <1>1 DEF Sessions
<1>3. Held /\ hub # Host /\ session.resume = None
  <2>1. Held
    BY DecideIs
  <2> QED
    BY <2>1 DEF Ruled, Held
<1>4. \A t \in Ticks : LineOf(t) = 1 /\ (t <= session'.resume => LineOf(t)' = 1)
  BY <1>0, <1>2, <1>3, Assumed DEF LineOf, Ticks
<1> QED
  BY <1>0, <1>1, <1>2, <1>3, <1>4 DEF Held

LEMMA UpTo == \A i, j, k \in Ticks : i <= j /\ j <= k => i <= k
BY Assumed DEF Ticks

LEMMA StepWhereabouts ==
  ASSUME TypeOK, Ruled, Whereabouts, Silence, ~LateReporters, [Next]_vars
  PROVE  Whereabouts'
<1>0. /\ hub \in Peer /\ session.awaiting \subseteq Client /\ \A c \in Client : c \in Peer /\ c # Host
      /\ \A p \in Peer : peers[p] \in PeerState /\ peers[p].clock \in Nat /\ peers[p].roster \in SUBSET Peer
      /\ Host \in Peer
  BY Typical, Assumed DEF Ticks
<1>s. UNCHANGED session => Held' = Held
  BY DEF Held
<1> DEFINE Kept == /\ UNCHANGED <<hub, session>>
                   /\ \A p \in Peer : /\ peers'[p].at = peers[p].at \/ {peers'[p].at, peers[p].at} \subseteq {"out", "pending", "loading"}
                                      /\ p \in session.awaiting => peers'[p].clock = peers[p].clock
                   /\ peers'[hub].roster = peers[hub].roster
<1>k. Kept => Whereabouts'
  BY <1>0, <1>s DEF Whereabouts, Sitting
<1> HIDE DEF Kept
<1>1. ASSUME NEW p \in Peer, GoesOn(p) PROVE Kept
  <2>1. PICK line \in {None, 1, 2} : /\ peers'[p] = Ticked(peers[p], line) /\ peers[p].clock < MaxTick
                                     /\ peers[p].at = "in" => p \notin session.awaiting
    BY <1>1 DEF GoesOn
  <2>2. peers'[p].at = peers[p].at /\ peers'[p].roster = peers[p].roster
    <3> DEFINE then == Ticked(peers[p], line)
    <3>1. then.at = peers[p].at /\ then.roster = peers[p].roster
      BY <1>0, <2>1, TickedIs
    <3> QED
      BY <2>1, <3>1
  <2>3. p \notin session.awaiting
    BY <2>1 DEF Whereabouts
  <2>4. /\ hub' = hub /\ session' = session
        /\ \A q \in Peer \ {p} : peers'[q] = peers[q]
    BY <1>1 DEF GoesOn
  <2> QED
    BY <1>0, <2>2, <2>3, <2>4 DEF Kept
<1>2. ASSUME NEW p \in Peer, Drift(p) \/ (p \in Client /\ (Connect(p) \/ Promoted(p))) PROVE Kept
  BY <1>0, <1>2, MoveIs DEF Kept, Same
<1>3. ASSUME NEW p \in Peer, Compare(p) PROVE Kept
  <2>1. /\ \A q \in Peer \ {p} : peers'[q] = peers[q]
        /\ peers'[p].clock = peers[p].clock
        /\ peers'[p].at = peers[p].at /\ peers'[p].roster = peers[p].roster
        /\ hub' = hub /\ session' = session
    BY <1>3, ComparesAre
  <2> QED
    BY <1>0, <2>1 DEF Kept
<1>4. ASSUME NEW c \in Client, Join(c) PROVE Whereabouts'
  <2>1. /\ c \in Peer /\ peers[c].at = "loading" /\ ~Held /\ peers'[c].at = "in"
        /\ \A p \in Peer \ {c} : peers'[p] = peers[p]
        /\ UNCHANGED <<hub, session>> /\ peers'[c].roster = peers[c].roster
    BY <1>4, JoinIs
  <2> QED
    BY <1>0, <1>s, <2>1 DEF Whereabouts
<1>5. ASSUME NEW c \in Client, Accept(c) PROVE Whereabouts'
  <2>1. /\ c \in Peer /\ peers[c].at = "in" /\ ~Held
        /\ \A p \in Peer : peers'[p].at = peers[p].at /\ peers'[p].clock = peers[p].clock
        /\ UNCHANGED <<hub, session>> /\ peers'[hub].roster = peers[hub].roster \cup {c, hub}
    BY <1>0, <1>5, AcceptIs DEF Same
  <2> QED
    BY <1>0, <1>s, <2>1 DEF Whereabouts
<1>6. ASSUME NEW c \in Client, Leave(c) PROVE Whereabouts'
  <2>1. /\ session'.resume = session.resume
        /\ session'.awaiting = session.awaiting \ {c} /\ ~Held /\ ~Held'
    BY <1>6, SessionGoes
  <2>2. /\ c # hub /\ hub' = hub
        /\ \A p \in Peer \ {c} : peers'[p].at = peers[p].at /\ peers'[p].clock = peers[p].clock
        /\ peers'[hub].roster = peers[hub].roster \ {c}
    BY <1>0, <1>6, LeaveIs, ZenonT(30) DEF Same
  <2> QED
    BY <1>0, <2>1, <2>2 DEF Whereabouts
<1>7. ASSUME NEW n \in Client, ChangeHost(n) PROVE Whereabouts'
  <2>1. /\ session'.resume = None /\ Held'
    BY <1>7, SessionGoes
  <2>2. /\ n \in Peer /\ n # Host /\ hub = Host /\ hub' = n
        /\ peers[n].at = "in" /\ n \in peers[n].roster
        /\ session' = [phase |-> "deciding", resume |-> None,
                       awaiting |-> {c \in Client \ {n} : peers[c].at = "in" /\ c \in peers[c].roster}]
        /\ peers'[Host].at = "gone"
        /\ \A p \in Client :
             peers'[p].at = IF peers[p].at = "in" /\ p \notin peers[p].roster THEN "loading" ELSE peers[p].at
    BY <1>7, ChangeHostIs
  <2>3. session'.awaiting = {c \in Client \ {n} : peers[c].at = "in" /\ c \in peers[c].roster}
    BY <2>2
  <2>4. \A p \in Peer : p = Host \/ p \in Client
    BY DEF Peer
  <2>5. \A p \in Peer : peers'[p].at = "in" => p = n \/ p \in session'.awaiting
    BY <2>2, <2>3, <2>4
  <2>6. peers'[n].at = "in" /\ n \notin session'.awaiting
        /\ \A c \in session'.awaiting : peers'[c].at = "in"
    BY <2>2, <2>3
  <2> QED
    BY <2>1, <2>2, <2>5, <2>6 DEF Whereabouts, Sitting
<1>8. ASSUME NEW c \in Client, TakeVerdict(c) PROVE Whereabouts'
  <2>1. /\ session'.resume = session.resume
        /\ session'.awaiting = session.awaiting \ {c} /\ ~Held /\ ~Held'
    BY <1>8, SessionGoes
  <2>2. /\ c \in session.awaiting /\ hub' = hub /\ c \in Peer
        /\ \A p \in Peer \ {c} : peers'[p].at = peers[p].at
        /\ \A p \in Peer : peers'[p].clock = peers[p].clock
        /\ \/ peers'[c].at = peers[c].at /\ peers'[hub].roster = peers[hub].roster
           \/ peers'[hub].roster = peers[hub].roster \ {c}
    BY <1>0, <1>8, VerdictIs
  <2> QED
    BY <1>0, <2>1, <2>2 DEF Whereabouts
<1>9. CASE AnnounceChecksum
  <2>1. Kept
    BY <1>0, <1>9, AnnounceIs DEF Kept
  <2> QED
    BY <1>k, <2>1
<1>10. CASE Decide
  <2>1. /\ Held /\ ~Held'
        /\ session'.awaiting = session.awaiting
        /\ \A c \in session.awaiting : peers[c].clock <= session'.resume
        /\ peers'[hub].roster = {hub} \cup session.awaiting
    BY <1>10, DecideSession
  <2>2. /\ hub' = hub /\ \A p \in Peer : peers'[p].at = peers[p].at /\ peers'[p].clock = peers[p].clock
    BY <1>0, <1>10, DecideIs
  <2> QED
    BY <1>0, <2>1, <2>2 DEF Whereabouts
<1>11. CASE UNCHANGED vars
  <2>1. Kept
    BY <1>11 DEF vars, Kept
  <2> QED
    BY <1>k, <2>1
<1> QED
  BY <1>0, <1>k, <1>1, <1>2, <1>3, <1>4, <1>5, <1>6, <1>7, <1>8, <1>9, <1>10, <1>11, TicksAre DEF Next

LEMMA StepSilence ==
  ASSUME TypeOK, Ruled, Whereabouts, Silence, WireIsRuled, [Next]_vars
  PROVE  Silence'
<1>0. /\ hub \in Peer /\ session.awaiting \subseteq Client /\ \A c \in Client : c \in Peer /\ c # Host
      /\ \A p \in Peer : peers[p] \in PeerState /\ peers[p].roster \in SUBSET Peer
      /\ Host \in Peer
  BY Typical, Assumed
<1>s. UNCHANGED session => Held' = Held
  BY DEF Held
<1> DEFINE Kept == /\ UNCHANGED <<hub, session>>
                   /\ \A p \in Peer : /\ peers'[p].at = peers[p].at \/ (peers[p].at \in {"out", "pending"})
                                      /\ peers'[p].roster = peers[p].roster
                                      /\ peers[p].parked = {} => peers'[p].parked = {}
<1>k. Kept => Silence'
  BY <1>0, <1>s DEF Silence
<1> HIDE DEF Kept
<1>1. ASSUME NEW p \in Peer, GoesOn(p) PROVE Kept
  <2>1. PICK line \in {None, 1, 2} : /\ peers'[p] = Ticked(peers[p], line) /\ peers[p].clock < MaxTick
    BY <1>1 DEF GoesOn
  <2>2. peers'[p].at = peers[p].at /\ peers'[p].roster = peers[p].roster /\ peers'[p].parked = peers[p].parked
    <3> DEFINE then == Ticked(peers[p], line)
    <3>1. then.at = peers[p].at /\ then.roster = peers[p].roster /\ then.parked = peers[p].parked
      BY <1>0, <2>1, TickedIs
    <3> QED
      BY <2>1, <3>1
  <2> QED
    BY <1>1, <2>2 DEF GoesOn, Kept
<1>2. ASSUME NEW p \in Peer, Drift(p) \/ (p \in Client /\ (Connect(p) \/ Promoted(p))) PROVE Kept
  BY <1>0, <1>2, MoveIs DEF Kept, Same
<1>3. ASSUME NEW p \in Peer, Compare(p) PROVE Silence'
  <2>1. /\ \A q \in Peer \ {p} : peers'[q] = peers[q]
        /\ peers'[p].at = peers[p].at /\ peers'[p].roster = peers[p].roster
        /\ hub' = hub /\ session' = session
    BY <1>3, ComparesAre
  <2>2. peers[p].roster = {} => peers'[p].parked = {}
    <3> SUFFICES ASSUME peers[p].roster = {} PROVE peers'[p].parked = {}
      OBVIOUS
    <3>1. PICK arrivals \in SUBSET {r \in wire : r.to = p} :
             peers'[p].parked = {} \/ peers'[p].parked = Waiting(p, arrivals)
      BY <1>3, ComparesAre
    <3>2. peers[p].parked = {}
      BY DEF Silence
    <3>3. Heard(p, arrivals) = {}
      <4>1. \A r \in arrivals : r \in wire /\ r.to = p
        OBVIOUS
      <4>2. \A r \in arrivals : peers[p].at # "pending"
        BY <4>1 DEF WireIsRuled
      <4> QED
        BY <4>2 DEF Heard
    <3> QED
      BY <3>1, <3>2, <3>3 DEF Waiting, Compared
  <2> QED
    BY <1>0, <1>s, <2>1, <2>2 DEF Silence
<1>4. ASSUME NEW c \in Client, Join(c) PROVE Silence'
  <2>1. /\ c \in Peer /\ peers[c].at = "loading" /\ ~Held /\ peers'[c].at = "in"
        /\ \A p \in Peer \ {c} : peers'[p] = peers[p] /\ peers'[c].parked = {}
        /\ UNCHANGED <<hub, session>> /\ peers'[c].roster = peers[c].roster
    BY <1>4, JoinIs
  <2>2. peers'[c].parked = {}
    BY <1>4, JoinIs
  <2> QED
    BY <1>0, <1>s, <2>1, <2>2 DEF Silence
<1>5. ASSUME NEW c \in Client, Accept(c) PROVE Silence'
  <2> DEFINE roster == peers[hub].roster \cup {c, hub}
  <2>1. /\ c \in Peer /\ peers[c].at = "in" /\ ~Held
        /\ \A p \in Peer : peers'[p].at = peers[p].at /\ peers'[p].parked = peers[p].parked
        /\ \A p \in Peer : peers'[p].roster = IF p \in roster THEN roster ELSE peers[p].roster
        /\ UNCHANGED <<hub, session>>
    BY <1>0, <1>5, AcceptIs DEF Same
  <2>2. \A p \in roster : peers[p].at = "in"
    BY <2>1 DEF Whereabouts
  <2>3. roster # {}
    OBVIOUS
  <2> HIDE DEF roster
  <2> QED
    BY <1>0, <1>s, <2>1, <2>2, <2>3 DEF Silence
<1>6. ASSUME NEW c \in Client, Leave(c) PROVE Silence'
  <2>1. ~Held /\ ~Held'
    BY <1>6, SessionGoes
  <2>2. /\ c # hub /\ hub' = hub /\ c \in Peer
        /\ \A p \in Peer \ {c} : peers'[p].at = peers[p].at /\ peers'[p].parked = peers[p].parked
        /\ \A p \in Peer \ {c} : peers'[p].roster = IF p = hub THEN peers[p].roster \ {c} ELSE peers[p].roster
        /\ peers'[c].roster = {} /\ peers'[c].parked = {}
    BY <1>0, <1>6, LeaveIs, ZenonT(30) DEF Same
  <2>3. peers[hub].roster # {} => hub \in peers[hub].roster \ {c}
    BY <1>0, <2>2 DEF Silence
  <2> QED
    BY <1>0, <2>1, <2>2, <2>3, ZenonT(30) DEF Silence
<1>7. ASSUME NEW n \in Client, ChangeHost(n) PROVE Silence'
  <2>1. /\ hub = Host /\ ~Held
    BY <1>7, SessionGoes, ChangeHostIs
  <2>2. /\ peers'[Host].roster = {} /\ peers'[Host].parked = {}
        /\ \A p \in Client :
             /\ peers'[p].roster = peers[p].roster /\ peers'[p].parked = peers[p].parked
             /\ peers'[p].at = IF peers[p].at = "in" /\ p \notin peers[p].roster THEN "loading" ELSE peers[p].at
    BY <1>7, ChangeHostIs DEF Same
  <2>4. \A p \in Peer : p = Host \/ p \in Client
    BY DEF Peer
  <2>5. \A p \in Client : peers[p].roster # {} => peers'[p].at = "in" /\ p \in peers[p].roster
    BY <1>0, <2>1, <2>2 DEF Silence
  <2> QED
    BY <1>0, <2>1, <2>2, <2>4, <2>5 DEF Silence
<1>8. ASSUME NEW c \in Client, TakeVerdict(c) PROVE Silence'
  <2>1. ~Held /\ ~Held' /\ hub # Host
    BY <1>8, SessionGoes, VerdictIs DEF Ruled
  <2>2. /\ c \in session.awaiting /\ hub' = hub /\ c \in Peer
        /\ \A p \in Peer \ {c} : peers'[p].at = peers[p].at /\ peers'[p].parked = peers[p].parked
        /\ peers'[c].at \in {"loading", peers[c].at}
        /\ peers'[c].parked = {r \in peers[c].parked : r.tick <= session.resume}
        /\ \/ \A p \in Peer : peers'[p].roster = peers[p].roster
           \/ \A p \in Peer : peers'[p].roster = IF p = hub THEN peers[p].roster \ {c} ELSE peers[p].roster
    BY <1>0, <1>8, VerdictIs
  <2>3. c # hub /\ peers[c].at = "in"
    BY <2>2 DEF Whereabouts
  <2>4. peers[hub].roster # {} => hub \in peers[hub].roster \ {c}
    BY <1>0, <2>3 DEF Silence
  <2>5. peers[c].parked = {} => peers'[c].parked = {}
    BY <2>2
  <2> QED
    BY <1>0, <2>1, <2>2, <2>3, <2>4, <2>5, ZenonT(30) DEF Silence
<1>9. CASE AnnounceChecksum
  <2>1. Kept
    BY <1>0, <1>9, AnnounceIs DEF Kept
  <2> QED
    BY <1>k, <2>1
<1>10. CASE Decide
  <2>1. \E resume : peers'[hub].roster = {hub} \cup {c \in session.awaiting : peers[c].clock <= resume}
    BY <1>10, DecideIs
  <2>2. Held /\ hub' = hub /\ peers'[hub].at = peers[hub].at /\ \A p \in Peer \ {hub} : peers'[p] = peers[p]
    BY <1>10, DecideIs
  <2>3. hub \in peers'[hub].roster /\ peers[hub].at = "in"
    BY <2>1 DEF Whereabouts
  <2> QED
    BY <1>0, <2>2, <2>3 DEF Silence
<1>11. CASE UNCHANGED vars
  <2>1. Kept
    BY <1>11 DEF vars, Kept
  <2> QED
    BY <1>k, <2>1
<1> QED
  BY <1>0, <1>k, <1>1, <1>2, <1>3, <1>4, <1>5, <1>6, <1>7, <1>8, <1>9, <1>10, <1>11, TicksAre DEF Next

(* Who compares a report hears somebody, and has sampled on the session's rulings. *)
LEMMA ComparesInSession ==
  ASSUME TypeOK, Silence, WireIsRuled, NEW p \in Peer, NEW arrivals \in SUBSET {r \in wire : r.to = p},
         NEW r \in Compared(p, arrivals)
  PROVE  peers[p].roster # {} /\ InSession(p) /\ (r \in wire \/ r \in peers[p].parked)
<1>1. CASE r \in peers[p].parked
  BY <1>1 DEF Silence, InSession
<1>2. CASE r \in Heard(p, arrivals)
  <2>1. r \in wire /\ r.to = p
    BY <1>2 DEF Heard
  <2>2. peers[p].at # "pending"
    BY <2>1 DEF WireIsRuled
  <2>3. r.from \in peers[p].roster
    BY <1>2, <2>2 DEF Heard
  <2> QED
    BY <2>1, <2>3 DEF InSession
<1> QED
  BY <1>1, <1>2 DEF Compared

(* What a peer of the session has of a tick it has run on the tick's ruling.  *)
LEMMA SampledIsRuled ==
  ASSUME TypeOK, LogsAreOrderly, LogsAreRuled, NEW p \in Peer, InSession(p),
         NEW t \in SampledTicks(peers[p].log)
  PROVE  At(peers[p].log, t).line = LineOf(t) /\ t <= peers[p].clock /\ t \in Ticks
<1>1. peers[p].log \in Seq(Entry)
  BY Typical
<1>2. PICK s \in ToSet(peers[p].log) : s.tick = t /\ At(peers[p].log, t) = s.world
  BY <1>1, AtIs
<1> QED
  BY <1>1, <1>2, AtIs DEF LogsAreRuled, LogsAreOrderly, Orderly

LEMMA StepLogsRuled ==
  ASSUME TypeOK, Ruled, LogsAreOrderly, Whereabouts, Silence, LogsAreRuled, ~LateReporters, [Next]_vars
  PROVE  LogsAreRuled'
<1>0. /\ hub \in Peer /\ session.awaiting \subseteq Client /\ \A c \in Client : c \in Peer /\ c # Host
      /\ \A p \in Peer : peers[p] \in PeerState /\ peers[p].clock \in Nat /\ peers[p].log \in Seq(Entry)
      /\ Host \in Peer /\ Ticks \subseteq Nat
  BY Typical, Assumed DEF Ticks
<1>s. UNCHANGED session => \A t : LineOf(t)' = LineOf(t)
  BY DEF LineOf
<1> DEFINE Kept == /\ \A t : LineOf(t)' = LineOf(t)
                   /\ \A p \in Peer : \/ peers'[p].log = <<>>
                                      \/ peers'[p].log = peers[p].log /\ (InSession(p)' => InSession(p))
<1>k. Kept => LogsAreRuled'
  BY EmptyLog DEF LogsAreRuled
<1> HIDE DEF Kept
<1>1. ASSUME NEW p \in Peer, GoesOn(p) PROVE LogsAreRuled'
  <2>1. PICK line \in {None, 1, 2} : /\ peers'[p] = Ticked(peers[p], line) /\ peers[p].clock < MaxTick
                                     /\ peers[p].at = "in" => line = LineOf(peers[p].clock + 1)
    BY <1>1 DEF GoesOn
  <2> DEFINE then == Ticked(peers[p], line)
             new == [tick |-> peers[p].clock + 1, world |-> [line |-> line, mark |-> peers[p].mark]]
  <2>2. /\ then.at = peers[p].at /\ then.roster = peers[p].roster
        /\ then.log = peers[p].log \/ ToSet(then.log) \subseteq ToSet(peers[p].log) \cup {new}
    BY <1>0, <2>1, TickedIs
  <2>3. new.tick = peers[p].clock + 1 /\ new.world.line = line
    OBVIOUS
  <2> HIDE DEF then, new
  <2>4. /\ session' = session /\ \A q \in Peer \ {p} : peers'[q] = peers[q]
        /\ peers[p].at \in {"in", "out"}
    BY <1>1 DEF GoesOn
  <2>5. \A t : LineOf(t)' = LineOf(t)
    BY <1>s, <2>4
  <2>6. ASSUME InSession(p)', NEW s \in ToSet(then.log) PROVE s.world.line = LineOf(s.tick)
    <3>1. InSession(p)
      BY <2>1, <2>2, <2>6 DEF InSession, then
    <3>2. peers[p].at = "in"
      BY <2>4, <3>1 DEF InSession, Silence
    <3>3. CASE s \in ToSet(peers[p].log)
      BY <3>1, <3>3 DEF LogsAreRuled
    <3>4. CASE s = new
      BY <2>1, <2>3, <3>2, <3>4
    <3> QED
      BY <2>2, <2>6, <3>3, <3>4
  <2>7. peers'[p] = then
    BY <2>1 DEF then
  <2>8. ASSUME NEW q \in Peer, InSession(q)', NEW s \in ToSet(peers'[q].log) PROVE s.world.line = LineOf(s.tick)'
    <3>1. CASE q = p
      BY <2>5, <2>6, <2>7, <2>8, <3>1
    <3>2. CASE q # p
      BY <2>4, <2>5, <2>8, <3>2 DEF InSession, LogsAreRuled
    <3> QED
      BY <3>1, <3>2
  <2> QED
    BY <2>8 DEF LogsAreRuled
<1>2. ASSUME NEW p \in Peer, Drift(p) \/ (p \in Client /\ (Connect(p) \/ Promoted(p))) PROVE Kept
  <2>1. /\ \A q \in Peer : peers'[q].log = peers[q].log /\ peers'[q].roster = peers[q].roster
        /\ \A q \in Peer : peers'[q].at = "in" => peers[q].at = "in"
        /\ UNCHANGED session
    BY <1>0, <1>2, MoveIs DEF Same
  <2> QED
    BY <1>s, <2>1 DEF Kept, InSession
<1>3. ASSUME NEW p \in Peer, Compare(p) PROVE Kept
  <2>1. /\ \A q \in Peer \ {p} : peers'[q] = peers[q]
        /\ peers'[p].at = peers[p].at /\ peers'[p].roster = peers[p].roster
        /\ hub' = hub /\ session' = session /\ peers'[p].log = peers[p].log
    BY <1>3, ComparesAre
  <2> QED
    BY <1>s, <2>1 DEF Kept, InSession
<1>4. ASSUME NEW c \in Client, Join(c) PROVE Kept
  <2>1. /\ \A p \in Peer \ {c} : peers'[p] = peers[p]
        /\ session' = session /\ peers'[c].log = <<>>
    BY <1>4, JoinIs
  <2> QED
    BY <1>s, <2>1 DEF Kept, InSession
<1>5. ASSUME NEW c \in Client, Accept(c) PROVE Kept
  <2> DEFINE roster == peers[hub].roster \cup {c, hub}
  <2>1. /\ c \in Peer /\ peers[c].at = "in" /\ ~Held
        /\ \A p \in Peer : peers'[p].at = peers[p].at /\ peers'[p].log = peers[p].log
        /\ \A p \in Peer : peers'[p].roster = IF p \in roster THEN roster ELSE peers[p].roster
        /\ UNCHANGED <<hub, session>>
    BY <1>0, <1>5, AcceptIs DEF Same
  <2>2. \A p \in roster : peers[p].at = "in"
    BY <2>1 DEF Whereabouts
  <2> HIDE DEF roster
  <2>3. \A p \in Peer : InSession(p)' => InSession(p)
    BY <2>1, <2>2 DEF InSession
  <2> QED
    BY <1>s, <2>1, <2>3 DEF Kept
<1>6. ASSUME NEW c \in Client, Leave(c) PROVE Kept
  <2>1. \A t : LineOf(t)' = LineOf(t)
    BY <1>6, SessionGoes
  <2>2. /\ \A p \in Peer \ {c} : /\ peers'[p].at = peers[p].at /\ peers'[p].log = peers[p].log
                                 /\ peers'[p].roster \subseteq peers[p].roster
        /\ peers'[c].log = <<>>
    BY <1>0, <1>6, LeaveIs, ZenonT(30) DEF Same
  <2> QED
    BY <2>1, <2>2 DEF Kept, InSession
<1>7. ASSUME NEW n \in Client, ChangeHost(n) PROVE Kept
  <2>1. \A t : LineOf(t)' = LineOf(t)
    BY <1>7, SessionGoes
  <2>2. /\ peers'[Host].log = <<>>
        /\ \A p \in Client : /\ peers'[p].roster = peers[p].roster /\ peers'[p].log = peers[p].log
                             /\ peers'[p].at = "in" => peers[p].at = "in"
    BY <1>7, ChangeHostIs DEF Same
  <2>3. \A p \in Peer : p = Host \/ p \in Client
    BY DEF Peer
  <2> QED
    BY <2>1, <2>2, <2>3 DEF Kept, InSession
<1>8. ASSUME NEW c \in Client, TakeVerdict(c) PROVE Kept
  <2>1. \A t : LineOf(t)' = LineOf(t)
    BY <1>8, SessionGoes
  <2>2. /\ c \in session.awaiting /\ c \in Peer
        /\ \A p \in Peer \ {c} : peers'[p].at = peers[p].at
        /\ \A p \in Peer : peers'[p].log = peers[p].log /\ peers'[p].roster \subseteq peers[p].roster
    BY <1>0, <1>8, VerdictIs
  <2>3. peers[c].at = "in"
    BY <2>2 DEF Whereabouts
  <2> QED
    BY <2>1, <2>2, <2>3 DEF Kept, InSession
<1>9. CASE AnnounceChecksum
  <2>1. /\ \A p \in Peer : peers'[p].at = peers[p].at /\ peers'[p].log = peers[p].log /\ peers'[p].roster = peers[p].roster
        /\ session' = session
    BY <1>0, <1>9, AnnounceIs
  <2> QED
    BY <1>k, <1>s, <2>1 DEF Kept, InSession
<1>10. CASE Decide
  <2>1. /\ Held
        /\ peers[hub].clock <= session'.resume /\ session'.resume \in Ticks
        /\ \A c \in session.awaiting : peers[c].clock <= session'.resume
        /\ \A t \in Ticks : LineOf(t) = 1 /\ (t <= session'.resume => LineOf(t)' = 1)
    BY <1>10, DecideSession
  <2>2. \A p \in Peer : peers'[p].at = peers[p].at /\ peers'[p].log = peers[p].log
    BY <1>0, <1>10, DecideIs
  <2>3. \A p \in Peer \ {hub} : peers'[p].roster = peers[p].roster
    BY <1>0, <1>10, DecideIs
  <2>4. ASSUME NEW p \in Peer, InSession(p)', NEW s \in ToSet(peers'[p].log) PROVE s.world.line = LineOf(s.tick)'
    <3>1. peers[p].at = "in"
      BY <1>0, <2>1, <2>2, <2>3, <2>4 DEF InSession, Silence, Whereabouts
    <3>2. peers[p].clock <= session'.resume
      BY <2>1, <3>1 DEF Whereabouts, Sitting
    <3>3. s \in ToSet(peers[p].log) /\ s \in Entry /\ s.tick \in Ticks
      BY <1>0, <2>2, <2>4, LogIs DEF Entry
    <3>4. s.world.line = LineOf(s.tick) /\ s.tick <= peers[p].clock
      BY <3>1, <3>3 DEF LogsAreRuled, InSession, LogsAreOrderly, Orderly
    <3>5. s.tick <= session'.resume
      BY <2>1, <3>2, <3>3, <3>4, Typical, UpTo
    <3> QED
      BY <2>1, <3>3, <3>4, <3>5
  <2> QED
    BY <2>4 DEF LogsAreRuled
<1>11. CASE UNCHANGED vars
  <2>1. Kept
    BY <1>11, <1>s DEF vars, Kept, InSession
  <2> QED
    BY <1>k, <2>1
<1> QED
  BY <1>0, <1>k, <1>1, <1>2, <1>3, <1>4, <1>5, <1>6, <1>7, <1>8, <1>9, <1>10, <1>11, TicksAre DEF Next

LEMMA StepWireRuled ==
  ASSUME TypeOK, Ruled, LogsAreOrderly, Whereabouts, Silence, LogsAreRuled, WireIsRuled,
         ~LateReporters, ~EarlyReports, [Next]_vars
  PROVE  WireIsRuled'
<1>0. /\ hub \in Peer /\ session.awaiting \subseteq Client /\ \A c \in Client : c \in Peer /\ c # Host
      /\ \A p \in Peer : peers[p] \in PeerState /\ peers[p].clock \in Nat /\ peers[p].log \in Seq(Entry)
      /\ Host \in Peer /\ Ticks \subseteq Nat
      /\ \A r \in wire : r.from \in Peer /\ r.to \in Peer /\ r.tick \in Ticks
  BY Typical, Assumed DEF Ticks, Reports
<1>s. UNCHANGED session => Held' = Held /\ \A t : LineOf(t)' = LineOf(t)
  BY DEF LineOf, Held
<1> DEFINE Ok(r) == /\ r.world.line = LineOf(r.tick)'
                    /\ peers'[r.to].at \in {"loading", "in"}
                    /\ Held' => Sitting(r.from)' /\ r.tick <= peers'[r.from].clock
           Kept == /\ UNCHANGED <<hub, session>> /\ wire' \subseteq wire
                   /\ \A p \in Peer : /\ peers[p].at \in {"loading", "in"} => peers'[p].at \in {"loading", "in"}
                                      /\ Held /\ peers[p].at = "in" => peers'[p].clock = peers[p].clock
<1>o. (\A r \in wire' : Ok(r)) => WireIsRuled'
  BY DEF WireIsRuled
<1>i. \A p \in Peer : Sitting(p) => peers[p].at = "in"
  BY DEF Whereabouts, Sitting
<1>k. ASSUME Kept PROVE WireIsRuled'
  <2> SUFFICES ASSUME NEW r \in wire' PROVE Ok(r)
    BY <1>o
  <2>1. r \in wire
    BY <1>k
  <2>2. r.world.line = LineOf(r.tick)' /\ peers'[r.to].at \in {"loading", "in"}
    BY <1>0, <1>s, <1>k, <2>1 DEF WireIsRuled
  <2>3. ASSUME Held' PROVE Sitting(r.from)' /\ r.tick <= peers'[r.from].clock
    <3>1. Held /\ Sitting(r.from) /\ r.tick <= peers[r.from].clock
      BY <1>s, <1>k, <2>1, <2>3 DEF WireIsRuled
    <3>2. peers'[r.from].clock = peers[r.from].clock
      BY <1>0, <1>i, <1>k, <2>1, <3>1
    <3>3. Sitting(r.from)' = Sitting(r.from)
      BY <1>k DEF Sitting
    <3> QED
      BY <3>1, <3>2, <3>3
  <2> QED
    BY <2>2, <2>3
<1> HIDE DEF Kept, Ok
<1>1. ASSUME NEW p \in Peer, GoesOn(p) PROVE Kept
  <2>1. PICK line \in {None, 1, 2} : /\ peers'[p] = Ticked(peers[p], line) /\ peers[p].clock < MaxTick
                                     /\ peers[p].at = "in" => ~Held
    BY <1>1 DEF GoesOn
  <2>2. peers'[p].at = peers[p].at
    <3> DEFINE then == Ticked(peers[p], line)
    <3>1. then.at = peers[p].at
      BY <1>0, <2>1, TickedIs
    <3> QED
      BY <2>1, <3>1
  <2>4. /\ hub' = hub /\ session' = session /\ wire' = wire
        /\ \A q \in Peer \ {p} : peers'[q] = peers[q]
    BY <1>1 DEF GoesOn
  <2> QED
    BY <2>1, <2>2, <2>4 DEF Kept
<1>2. ASSUME NEW p \in Peer, Drift(p) \/ (p \in Client /\ (Connect(p) \/ Promoted(p))) PROVE Kept
  BY <1>0, <1>2, MoveIs DEF Kept, Same
<1>3. ASSUME NEW p \in Peer, Compare(p) PROVE WireIsRuled'
  <2>1. /\ \A q \in Peer \ {p} : peers'[q] = peers[q]
        /\ peers'[p].at = peers[p].at /\ peers'[p].roster = peers[p].roster
        /\ hub' = hub /\ session' = session /\ peers'[p].clock = peers[p].clock
    BY <1>3, ComparesAre
  <2>2. /\ \A q \in Peer : peers'[q].at = peers[q].at /\ peers'[q].clock = peers[q].clock
        /\ \A q \in Peer : Sitting(q)' = Sitting(q)
    BY <2>1 DEF Sitting
  <2>3. PICK arrivals \in SUBSET {r \in wire : r.to = p} :
          \/ wire' \subseteq wire
          \/ \E r \in Compared(p, arrivals) :
               /\ Differs(p, r)
               /\ wire' = (wire \ arrivals) \cup Answer(p, r)
               /\ Answer(p, r) \subseteq
                         {[from |-> p, to |-> hub, tick |-> r.tick, world |-> At(peers[p].log, r.tick)]}
    BY <1>3, ComparesAre
  <2>4. ASSUME NEW r \in wire PROVE Ok(r)
    BY <1>0, <1>s, <2>1, <2>2, <2>4 DEF WireIsRuled, Ok
  <2>5. ASSUME NEW r \in Compared(p, arrivals), Differs(p, r),
               NEW a, a = [from |-> p, to |-> hub, tick |-> r.tick, world |-> At(peers[p].log, r.tick)]
        PROVE  Ok(a)
    <3> DEFINE w == At(peers[p].log, r.tick)
    <3>1. a.from = p /\ a.to = hub /\ a.tick = r.tick /\ a.world = w
      BY <2>5
    <3>2. peers[p].roster # {} /\ InSession(p)
      BY ComparesInSession
    <3>3. w.line = LineOf(r.tick) /\ r.tick <= peers[p].clock
      BY <2>5, <3>2, SampledIsRuled DEF Differs
    <3>4. Held => Sitting(p)
      BY <1>0, <3>2 DEF Silence, Whereabouts
    <3>5. peers[hub].at = "in"
      BY DEF Whereabouts
    <3> HIDE DEF w
    <3> QED
      BY <1>0, <1>s, <2>1, <2>2, <3>1, <3>3, <3>4, <3>5 DEF Ok
  <2> QED
    BY <1>o, <2>3, <2>4, <2>5
<1>4. ASSUME NEW c \in Client, Join(c) PROVE Kept
  <2>1. /\ \A p \in Peer \ {c} : peers'[p] = peers[p]
        /\ session' = session /\ hub' = hub /\ wire' = wire /\ peers'[c].at = "in" /\ ~Held
    BY <1>4, JoinIs
  <2> QED
    BY <2>1 DEF Kept
<1>5. ASSUME NEW c \in Client, Accept(c) PROVE Kept
  BY <1>5, AcceptIs DEF Kept, Same
<1>6. ASSUME NEW c \in Client, Leave(c) PROVE WireIsRuled'
  <2>1. ~Held' /\ \A t : LineOf(t)' = LineOf(t)
    BY <1>6, SessionGoes
  <2>2. /\ \A p \in Peer \ {c} : peers'[p].at = peers[p].at
        /\ wire' = {r \in wire : c \notin {r.to, r.from}}
    BY <1>0, <1>6, LeaveIs
  <2>3. ASSUME NEW r \in wire' PROVE Ok(r)
    <3>1. r \in wire /\ r.to # c /\ r.to \in Peer
      BY <1>0, <2>2, <2>3
    <3> QED
      BY <2>1, <2>2, <3>1 DEF Ok, WireIsRuled
  <2> QED
    BY <1>o, <2>3
<1>7. ASSUME NEW n \in Client, ChangeHost(n) PROVE WireIsRuled'
  <2>1. wire' = {}
    BY <1>7, ChangeHostIs
  <2> QED
    BY <1>o, <2>1
<1>8. ASSUME NEW c \in Client, TakeVerdict(c) PROVE WireIsRuled'
  <2>1. ~Held' /\ \A t : LineOf(t)' = LineOf(t)
    BY <1>8, SessionGoes
  <2>2. /\ \A p \in Peer \ {c} : peers'[p].at = peers[p].at
        /\ peers'[c].at \in {"loading", peers[c].at}
        /\ wire' = wire
    BY <1>0, <1>8, VerdictIs
  <2>3. ASSUME NEW r \in wire' PROVE Ok(r)
    BY <1>0, <2>1, <2>2, <2>3 DEF Ok, WireIsRuled
  <2> QED
    BY <1>o, <2>3
<1>9. CASE AnnounceChecksum
  <2> DEFINE newest == Last(peers[hub].log)
  <2>1. /\ newest \in ToSet(peers[hub].log) /\ newest \in Entry
        /\ \A p \in Peer : peers'[p].at = peers[p].at /\ peers'[p].clock = peers[p].clock
        /\ session' = session /\ hub' = hub
        /\ wire' = wire \cup {Report(hub, c, newest) : c \in Listeners}
    BY <1>0, <1>9, AnnounceIs
  <2>2. \A q \in Peer : Sitting(q)' = Sitting(q)
    BY <2>1 DEF Sitting
  <2>3. peers[hub].at = "in" /\ Sitting(hub)
    BY DEF Whereabouts, Sitting
  <2>4. newest.world.line = LineOf(newest.tick) /\ newest.tick <= peers[hub].clock
    BY <1>0, <2>1, <2>3 DEF LogsAreRuled, InSession, LogsAreOrderly, Orderly
  <2> HIDE DEF newest
  <2>5. ASSUME NEW r \in wire PROVE Ok(r)
    BY <1>0, <1>s, <2>1, <2>2, <2>5 DEF WireIsRuled, Ok
  <2>6. ASSUME NEW c \in Listeners, NEW r, r = Report(hub, c, newest) PROVE Ok(r)
    <3>1. c \in Peer /\ peers[c].at \in {"loading", "in"}
      BY <1>0 DEF Listeners
    <3>2. r.from = hub /\ r.to = c /\ r.tick = newest.tick /\ r.world = newest.world
      BY <2>6 DEF Report
    <3> QED
      BY <1>0, <1>s, <2>1, <2>2, <2>3, <2>4, <3>1, <3>2 DEF Ok
  <2> QED
    BY <1>o, <2>1, <2>5, <2>6
<1>10. CASE Decide
  <2>1. /\ Held /\ ~Held'
        /\ peers[hub].clock <= session'.resume /\ session'.resume \in Ticks
        /\ \A c \in session.awaiting : peers[c].clock <= session'.resume
        /\ \A t \in Ticks : LineOf(t) = 1 /\ (t <= session'.resume => LineOf(t)' = 1)
    BY <1>10, DecideSession
  <2>2. wire' = wire /\ \A p \in Peer : peers'[p].at = peers[p].at
    BY <1>0, <1>10, DecideIs
  <2>3. ASSUME NEW r \in wire' PROVE Ok(r)
    <3>1. /\ r \in wire /\ r.tick \in Ticks /\ r.from \in Peer /\ r.to \in Peer
          /\ r.world.line = LineOf(r.tick) /\ peers[r.to].at \in {"loading", "in"}
          /\ Sitting(r.from) /\ r.tick <= peers[r.from].clock
      BY <1>0, <2>1, <2>2, <2>3 DEF WireIsRuled
    <3>2. peers[r.from].clock <= session'.resume /\ peers[r.from].clock \in Ticks
      BY <2>1, <3>1, Typical DEF Sitting
    <3>3. r.tick <= session'.resume
      BY <2>1, <3>1, <3>2, UpTo
    <3> QED
      BY <2>1, <2>2, <3>1, <3>3 DEF Ok
  <2> QED
    BY <1>o, <2>3
<1>11. CASE UNCHANGED vars
  <2>1. Kept
    BY <1>11 DEF vars, Kept
  <2> QED
    BY <1>k, <2>1
<1> QED
  BY <1>0, <1>k, <1>1, <1>2, <1>3, <1>4, <1>5, <1>6, <1>7, <1>8, <1>9, <1>10, <1>11, TicksAre DEF Next

LEMMA StepParkedRuled ==
  ASSUME TypeOK, Ruled, Whereabouts, Silence, WireIsRuled, ParkedIsRuled, ~LateReporters, [Next]_vars
  PROVE  ParkedIsRuled'
<1>0. /\ hub \in Peer /\ session.awaiting \subseteq Client /\ \A c \in Client : c \in Peer /\ c # Host
      /\ \A p \in Peer : peers[p] \in PeerState /\ peers[p].parked \subseteq Reports
      /\ Host \in Peer
      /\ \A r \in Reports : r.tick \in Ticks
  BY Typical, Assumed DEF Reports
<1>s. UNCHANGED session => \A t : LineOf(t)' = LineOf(t)
  BY DEF LineOf
<1> DEFINE Kept == /\ session' = session
                   /\ \A p \in Peer : peers'[p].parked \subseteq peers[p].parked \cup wire
<1>k. ASSUME Kept PROVE ParkedIsRuled'
  <2>1. ASSUME NEW p \in Peer, NEW r \in peers'[p].parked
        PROVE  \/ r.world.line = LineOf(r.tick)'
               \/ p \in session'.awaiting /\ session'.resume # None /\ r.tick > session'.resume
    BY <1>k, <1>s, <2>1 DEF ParkedIsRuled, WireIsRuled
  <2> QED
    BY <2>1 DEF ParkedIsRuled
<1> HIDE DEF Kept
<1>1. ASSUME NEW p \in Peer, GoesOn(p) PROVE Kept
  <2>1. PICK line \in {None, 1, 2} : /\ peers'[p] = Ticked(peers[p], line) /\ peers[p].clock < MaxTick
    BY <1>1 DEF GoesOn
  <2>2. peers'[p].parked = peers[p].parked
    <3> DEFINE then == Ticked(peers[p], line)
    <3>1. then.parked = peers[p].parked
      BY <1>0, <2>1, TickedIs
    <3> QED
      BY <2>1, <3>1
  <2>4. session' = session /\ \A q \in Peer \ {p} : peers'[q] = peers[q]
    BY <1>1 DEF GoesOn
  <2> QED
    BY <2>2, <2>4 DEF Kept
<1>2. ASSUME NEW p \in Peer, Drift(p) \/ (p \in Client /\ (Connect(p) \/ Promoted(p))) PROVE Kept
  BY <1>0, <1>2, MoveIs DEF Kept, Same
<1>3. ASSUME NEW p \in Peer, Compare(p) PROVE Kept
  <2>1. /\ \A q \in Peer \ {p} : peers'[q] = peers[q]
        /\ session' = session
    BY <1>3, ComparesAre
  <2>2. PICK arrivals \in SUBSET {r \in wire : r.to = p} :
          /\ peers'[p].parked = {} \/ peers'[p].parked = Waiting(p, arrivals)
          /\ Heard(p, arrivals) \subseteq arrivals
    BY <1>3, ComparesAre
  <2>3. Waiting(p, arrivals) \subseteq peers[p].parked \cup wire
    BY <2>2 DEF Waiting, Compared
  <2> QED
    BY <2>1, <2>2, <2>3 DEF Kept
<1>4. ASSUME NEW c \in Client, Join(c) PROVE Kept
  <2>1. /\ \A p \in Peer \ {c} : peers'[p] = peers[p]
        /\ session' = session /\ peers'[c].parked = {}
    BY <1>4, JoinIs
  <2> QED
    BY <2>1 DEF Kept
<1>5. ASSUME NEW c \in Client, Accept(c) PROVE Kept
  BY <1>5, AcceptIs DEF Kept, Same
<1>6. ASSUME NEW c \in Client, Leave(c) PROVE ParkedIsRuled'
  <2>1. /\ \A t : LineOf(t)' = LineOf(t)
        /\ session'.resume = session.resume /\ session'.awaiting = session.awaiting \ {c}
    BY <1>6, SessionGoes
  <2>2. /\ \A p \in Peer \ {c} : peers'[p].parked = peers[p].parked
        /\ peers'[c].parked = {}
    BY <1>0, <1>6, LeaveIs DEF Same
  <2>3. ASSUME NEW p \in Peer, NEW r \in peers'[p].parked
        PROVE  \/ r.world.line = LineOf(r.tick)'
               \/ p \in session'.awaiting /\ session'.resume # None /\ r.tick > session'.resume
    <3>1. p # c /\ r \in peers[p].parked
      BY <2>2, <2>3
    <3> QED
      BY <2>1, <3>1 DEF ParkedIsRuled
  <2> QED
    BY <2>3 DEF ParkedIsRuled
<1>7. ASSUME NEW n \in Client, ChangeHost(n) PROVE ParkedIsRuled'
  <2>1. /\ \A t : LineOf(t)' = LineOf(t)
        /\ session.awaiting = {}
    BY <1>7, SessionGoes
  <2>2. /\ peers'[Host].parked = {}
        /\ \A p \in Client : peers'[p].parked = peers[p].parked
    BY <1>7, ChangeHostIs DEF Same
  <2>3. \A p \in Peer : p = Host \/ p \in Client
    BY DEF Peer
  <2>4. ASSUME NEW p \in Peer, NEW r \in peers'[p].parked PROVE r.world.line = LineOf(r.tick)'
    <3>1. r \in peers[p].parked
      BY <2>2, <2>3, <2>4
    <3> QED
      BY <2>1, <3>1 DEF ParkedIsRuled
  <2> QED
    BY <2>4 DEF ParkedIsRuled
<1>8. ASSUME NEW c \in Client, TakeVerdict(c) PROVE ParkedIsRuled'
  <2>1. /\ \A t : LineOf(t)' = LineOf(t) /\ ~Held
        /\ session'.resume = session.resume /\ session'.awaiting = session.awaiting \ {c}
    BY <1>8, SessionGoes
  <2>2. /\ \A p \in Peer \ {c} : peers'[p].parked = peers[p].parked
        /\ peers'[c].parked = {r \in peers[c].parked : r.tick <= session.resume}
        /\ c \in session.awaiting /\ c \in Peer
    BY <1>0, <1>8, VerdictIs
  <2>3. session.resume \in Ticks
    <3>1. session.resume \in Ticks \cup {None} /\ hub # Host
      BY <2>2, Typical DEF Ruled
    <3> QED
      BY <2>1, <3>1 DEF Ruled
  <2>4. ASSUME NEW p \in Peer, NEW r \in peers'[p].parked
        PROVE  \/ r.world.line = LineOf(r.tick)'
               \/ p \in session'.awaiting /\ session'.resume # None /\ r.tick > session'.resume
    <3>1. r \in peers[p].parked /\ r.tick \in Ticks
      BY <1>0, <2>2, <2>4
    <3>2. CASE p # c
      BY <2>1, <3>1, <3>2 DEF ParkedIsRuled
    <3>3. CASE p = c
      <4>1. r.tick <= session.resume
        BY <2>2, <2>4, <3>3
      <4>2. ~(r.tick > session.resume)
        BY <2>3, <3>1, <4>1, Assumed DEF Ticks
      <4> QED
        BY <2>1, <3>1, <4>2 DEF ParkedIsRuled
    <3> QED
      BY <3>2, <3>3
  <2> QED
    BY <2>4 DEF ParkedIsRuled
<1>9. CASE AnnounceChecksum
  <2>1. Kept
    BY <1>0, <1>9, AnnounceIs DEF Kept
  <2> QED
    BY <1>k, <2>1
<1>10. CASE Decide
  <2>1. /\ Held /\ session.resume = None
        /\ session'.resume \in Ticks /\ session'.resume # None /\ session'.awaiting = session.awaiting
        /\ peers'[hub].parked = {r \in peers[hub].parked : r.tick <= session'.resume}
        /\ \A t \in Ticks : LineOf(t) = 1 /\ (t <= session'.resume => LineOf(t)' = 1)
    BY <1>10, DecideSession
  <2>2. \A p \in Peer \ {hub} : peers'[p] = peers[p]
    BY <1>0, <1>10, DecideIs
  <2>3. ASSUME NEW p \in Peer, NEW r \in peers'[p].parked
        PROVE  \/ r.world.line = LineOf(r.tick)'
               \/ p \in session'.awaiting /\ session'.resume # None /\ r.tick > session'.resume
    <3>1. r \in peers[p].parked /\ r.tick \in Ticks /\ (p = hub => r.tick <= session'.resume)
      BY <1>0, <2>1, <2>2, <2>3
    <3>2. r.world.line = LineOf(r.tick)
      BY <2>1, <3>1 DEF ParkedIsRuled
    <3>3. CASE r.tick <= session'.resume
      BY <2>1, <3>1, <3>2, <3>3
    <3>4. CASE ~(r.tick <= session'.resume)
      <4>1. r.tick > session'.resume
        BY <2>1, <3>1, <3>4, Assumed DEF Ticks
      <4>2. peers[p].roster # {} /\ p # hub
        BY <3>1, <3>4 DEF Silence
      <4>3. peers[p].at = "in"
        BY <2>1, <4>2 DEF Silence
      <4>4. p \in session.awaiting
        BY <2>1, <4>2, <4>3 DEF Whereabouts, Sitting
      <4> QED
        BY <2>1, <4>1, <4>4
    <3> QED
      BY <3>3, <3>4
  <2> QED
    BY <2>3 DEF ParkedIsRuled
<1>11. CASE UNCHANGED vars
  <2>1. Kept
    BY <1>11 DEF vars, Kept
  <2> QED
    BY <1>k, <2>1
<1> QED
  BY <1>0, <1>k, <1>1, <1>2, <1>3, <1>4, <1>5, <1>6, <1>7, <1>8, <1>9, <1>10, <1>11, TicksAre DEF Next

(* Only comparing latches; everything else keeps what was found, or forgets it. *)
LEMMA OnlyComparingFinds ==
  ASSUME TypeOK, [Next]_vars, \A p \in Peer : ~Compare(p)
  PROVE  \A p \in Peer : peers'[p].desync \in {peers[p].desync, None}
<1>0. /\ hub \in Peer /\ \A c \in Client : c \in Peer
      /\ \A p \in Peer : peers[p] \in PeerState /\ (p = Host \/ p \in Client)
  BY Typical DEF Peer
<1> DEFINE Goal == \A p \in Peer : peers'[p].desync \in {peers[p].desync, None}
<1>1. ASSUME NEW p \in Peer, GoesOn(p) PROVE Goal
  <2>1. PICK line \in {None, 1, 2} : /\ peers'[p] = Ticked(peers[p], line) /\ peers[p].clock < MaxTick
    BY <1>1 DEF GoesOn
  <2>2. peers'[p].desync = peers[p].desync
    <3> DEFINE then == Ticked(peers[p], line)
    <3>1. then.desync = peers[p].desync
      BY <1>0, <2>1, TickedIs
    <3> QED
      BY <2>1, <3>1
  <2>4. \A q \in Peer \ {p} : peers'[q] = peers[q]
    BY <1>1 DEF GoesOn
  <2> QED
    BY <2>2, <2>4
<1>2. ASSUME NEW p \in Peer, Drift(p) \/ (p \in Client /\ (Connect(p) \/ Promoted(p))) PROVE Goal
  BY <1>0, <1>2, MoveIs DEF Same
<1>4. ASSUME NEW c \in Client, Join(c) PROVE Goal
  BY <1>0, <1>4, JoinIs
<1>5. ASSUME NEW c \in Client, Accept(c) PROVE Goal
  BY <1>0, <1>5, AcceptIs DEF Same
<1>6. ASSUME NEW c \in Client, Leave(c) PROVE Goal
  BY <1>0, <1>6, LeaveIs DEF Same
<1>7. ASSUME NEW n \in Client, ChangeHost(n) PROVE Goal
  BY <1>0, <1>7, ChangeHostIs DEF Same
<1>8. ASSUME NEW c \in Client, TakeVerdict(c) PROVE Goal
  BY <1>0, <1>8, VerdictIs
<1>9. CASE AnnounceChecksum
  BY <1>0, <1>9, AnnounceIs
<1>10. CASE Decide
  BY <1>0, <1>10, DecideIs
<1>11. CASE UNCHANGED vars
  BY <1>11 DEF vars
<1> QED
  BY <1>0, <1>1, <1>2, <1>4, <1>5, <1>6, <1>7, <1>8, <1>9, <1>10, <1>11, TicksAre DEF Next

LEMMA StepNoFalseAlarm ==
  ASSUME TypeOK, LogsAreOrderly, Whereabouts, Silence, LogsAreRuled, WireIsRuled, ParkedIsRuled,
         NoFalseAlarm, [Next]_vars
  PROVE  NoFalseAlarm'
<1>1. CASE \A p \in Peer : ~Compare(p)
  <2>1. \A p \in Peer : peers'[p].desync \in {peers[p].desync, None}
    BY <1>1, OnlyComparingFinds
  <2> QED
    BY <2>1 DEF NoFalseAlarm
<1>2. ASSUME NEW p \in Peer, Compare(p) PROVE NoFalseAlarm'
  <2>1. \A q \in Peer \ {p} : peers'[q] = peers[q]
    BY <1>2, ComparesAre
  <2>2. PICK arrivals \in SUBSET {r \in wire : r.to = p} :
          /\ Compared(p, arrivals) \subseteq Reports
          /\ \/ peers'[p].desync \in {peers[p].desync, None}
             \/ \E r \in Compared(p, arrivals) : Differs(p, r) /\ peers'[p].desync = Found(p, r)
    BY <1>2, ComparesAre
  <2>3. ASSUME NEW r \in Compared(p, arrivals), Differs(p, r), peers'[p].desync = Found(p, r)
        PROVE  peers'[p].desync.left.line = peers'[p].desync.right.line
    <3>1. InSession(p) /\ (r \in wire \/ r \in peers[p].parked)
      BY ComparesInSession
    <3>2. /\ At(peers[p].log, r.tick).line = LineOf(r.tick)
          /\ r.tick <= peers[p].clock /\ r.tick \in Ticks
      BY <2>3, <3>1, SampledIsRuled DEF Differs
    <3>3. r.world.line = LineOf(r.tick)
      <4>1. CASE r \in wire
        BY <4>1 DEF WireIsRuled
      <4>2. CASE r \in peers[p].parked /\ ~(r.world.line = LineOf(r.tick))
        <5>1. p \in session.awaiting /\ session.resume # None /\ r.tick > session.resume
          BY <4>2 DEF ParkedIsRuled
        <5>2. peers[p].clock <= session.resume
          BY <5>1 DEF Whereabouts
        <5>3. session.resume \in Ticks /\ peers[p].clock \in Ticks
          BY <5>1, Typical
        <5>4. r.tick <= session.resume
          BY <3>2, <5>2, <5>3, UpTo
        <5> QED
          BY <3>2, <5>1, <5>3, <5>4, Assumed DEF Ticks
      <4> QED
        BY <3>1, <4>1, <4>2
    <3>4. /\ peers'[p].desync.left = At(peers[p].log, r.tick)
          /\ peers'[p].desync.right = r.world
      BY <2>3 DEF Found
    <3> QED
      BY <3>2, <3>3, <3>4
  <2>4. ASSUME peers'[p].desync # None PROVE peers'[p].desync.left.line = peers'[p].desync.right.line
    BY <2>2, <2>3, <2>4 DEF NoFalseAlarm
  <2> QED
    BY <2>1, <2>4 DEF NoFalseAlarm
<1> QED
  BY <1>1, <1>2

LEMMA StepSound ==
  ASSUME ~EarlyReports, ~LateReporters
  PROVE  SoundInv /\ [Next]_vars => SoundInv'
<1> SUFFICES ASSUME SoundInv, [Next]_vars PROVE SoundInv'
  OBVIOUS
<1>0. /\ TypeOK /\ Ruled /\ LogsAreOrderly
      /\ Whereabouts /\ Silence /\ LogsAreRuled /\ WireIsRuled /\ ParkedIsRuled /\ NoFalseAlarm
  BY DEF SoundInv
<1>1. TypeOK' /\ Ruled' /\ LogsAreOrderly'
  BY <1>0, StepTypes, StepRuled, StepOrderly
<1>2. Whereabouts' /\ Silence'
  BY <1>0, StepWhereabouts, StepSilence
<1>3. LogsAreRuled' /\ WireIsRuled' /\ ParkedIsRuled'
  BY <1>0, StepLogsRuled, StepWireRuled, StepParkedRuled
<1>4. NoFalseAlarm'
  BY <1>0, StepNoFalseAlarm
<1> QED
  BY <1>1, <1>2, <1>3, <1>4 DEF SoundInv

(* Where no report comes before its lobby and no survivor is sent back past the *)
(* resume, a desync is only ever reported of two runs of the same tick on the   *)
(* same rulings, however reports are delayed, parked, and answered over joins,  *)
(* leaves and the change of host.                                             *)
THEOREM NothingElseIsReported ==
  ASSUME ~EarlyReports, ~LateReporters
  PROVE  Spec => []NoFalseAlarm
<1>1. SoundInv => NoFalseAlarm
  BY DEF SoundInv
<1>2. SoundInv /\ [Next]_vars => SoundInv'
  BY StepSound
<1> QED
  BY <1>1, <1>2, InitSound, PTL DEF Spec

-----------------------------------------------------------------------------
(* THE HOST LEARNS *)

(* What a report says of the host's world the host has run, and has it still    *)
(* as it was said, or has it no longer.                                        *)
HubsWord(r) ==
  r.from = hub => /\ r.tick <= peers[hub].clock
                  /\ r.tick \in SampledTicks(peers[hub].log) => At(peers[hub].log, r.tick) = r.world

(* Reports go from the host and to it; a client only keeps those of a host.     *)
WordIsKept ==
  /\ \A r \in wire : HubsWord(r) /\ (r.from = hub <=> r.to # hub)
  /\ \A p \in Peer : \A r \in peers[p].parked : HubsWord(r) /\ r.from \in {Host, hub} \ {p}

AnswerTo(c, d) == [from |-> c, to |-> hub, tick |-> d.tick, world |-> d.left]

(* What c found of its host's world the host knows too, or is being told, or has *)
(* missed, or has no longer.                                                   *)
Known(c, d) ==
  /\ d.from \in {Host, hub}
  /\ d.from = hub =>
       /\ d.left # d.right /\ d.tick <= peers[hub].clock
       /\ d.tick \in SampledTicks(peers[hub].log) =>
            /\ At(peers[hub].log, d.tick) = d.right
            /\ peers[hub].desync # None \/ AnswerTo(c, d) \in wire \cup missed

FoundIsKnown == \A c \in Client \ {hub} : peers[c].desync # None => Known(c, peers[c].desync)

LearnInv == SoundInv /\ WordIsKept /\ FoundIsKnown

LEMMA InitLearn == Init => LearnInv
<1> SUFFICES ASSUME Init PROVE LearnInv
  OBVIOUS
<1>1. /\ \A p \in Peer : peers[p].parked = {} /\ peers[p].desync = None
      /\ wire = {}
  BY DEF Init, Alone, Hosting
<1>2. \A c \in Client : c \in Peer
  BY Assumed
<1> QED
  BY <1>1, <1>2, InitSound DEF LearnInv, WordIsKept, FoundIsKnown

LEMMA HostHasLearned == LearnInv => HostLearns
<1> SUFFICES ASSUME LearnInv, NEW c \in Client \ {hub},
                    peers[c].desync # None, peers[c].desync.from = hub,
                    peers[c].desync.tick \in SampledTicks(peers[hub].log),
                    Report(c, hub, [tick |-> peers[c].desync.tick, world |-> peers[c].desync.left]) \notin wire \cup missed
             PROVE  peers[hub].desync # None
  BY DEF HostLearns
<1>1. Known(c, peers[c].desync)
  BY DEF LearnInv, FoundIsKnown
<1>2. AnswerTo(c, peers[c].desync) \notin wire \cup missed
  BY DEF AnswerTo, Report
<1> QED
  BY <1>1, <1>2 DEF Known

(* The host as a step leaves it: the same, or gone on by a tick.              *)
HostStays == hub' = hub /\ peers'[hub].clock = peers[hub].clock /\ peers'[hub].log = peers[hub].log

LEMMA WordStands ==
  ASSUME TypeOK, LogsAreOrderly, HostStays \/ GoesOn(hub), NEW r, HubsWord(r), r.tick \in Ticks
  PROVE  HubsWord(r)' /\ hub' = hub
<1>1. CASE HostStays
  BY <1>1 DEF HostStays, HubsWord
<1>2. CASE GoesOn(hub)
  <2>1. hub' = hub /\ hub \in Peer
    BY <1>2, Typical DEF GoesOn
  <2>2. CASE r.from = hub
    BY <1>2, <2>1, <2>2, OldSamples DEF HubsWord
  <2>3. CASE r.from # hub
    BY <2>1, <2>3 DEF HubsWord
  <2> QED
    BY <2>1, <2>2, <2>3
<1> QED
  BY <1>1, <1>2

LEMMA StillKnown ==
  ASSUME TypeOK, LogsAreOrderly, HostStays \/ GoesOn(hub), NEW c, NEW d, Known(c, d), d.tick \in Ticks,
         peers[hub].desync # None => peers'[hub].desync # None,
         AnswerTo(c, d) \in wire \cup missed => AnswerTo(c, d) \in wire' \cup missed'
  PROVE  Known(c, d)'
<1>0. hub' = hub /\ hub \in Peer
  BY Typical DEF HostStays, GoesOn
<1>1. AnswerTo(c, d)' = AnswerTo(c, d)
  BY <1>0 DEF AnswerTo
<1>2. CASE HostStays
  BY <1>0, <1>1, <1>2 DEF HostStays, Known
<1>3. CASE GoesOn(hub) /\ d.from = hub
  <2>1. d.tick <= peers[hub].clock
    BY <1>3 DEF Known
  <2>2. /\ d.tick <= peers'[hub].clock
        /\ d.tick \in SampledTicks(peers'[hub].log) =>
              d.tick \in SampledTicks(peers[hub].log) /\ At(peers'[hub].log, d.tick) = At(peers[hub].log, d.tick)
    BY <1>0, <1>3, <2>1, OldSamples
  <2> QED
    BY <1>0, <1>1, <2>2 DEF Known
<1>4. CASE d.from # hub
  BY <1>0, <1>4 DEF Known
<1> QED
  BY <1>2, <1>3, <1>4

LEMMA HostGoes ==
  ASSUME TypeOK, Whereabouts, [Next]_vars, \A n \in Client : ~ChangeHost(n)
  PROVE  /\ HostStays \/ GoesOn(hub)
         /\ peers[hub].desync # None => peers'[hub].desync # None
<1>0. /\ hub \in Peer /\ \A c \in Client : c \in Peer
      /\ peers[hub] \in PeerState /\ peers[hub].at = "in"
  BY Typical DEF Whereabouts
<1> DEFINE Kept == HostStays /\ (peers[hub].desync # None => peers'[hub].desync # None)
<1>1. ASSUME NEW p \in Peer, GoesOn(p)
      PROVE  /\ HostStays \/ GoesOn(hub)
             /\ peers[hub].desync # None => peers'[hub].desync # None
  <2>1. CASE p = hub
    <3>1. PICK line \in {None, 1, 2} : peers'[p] = Ticked(peers[p], line) /\ peers[p].clock < MaxTick
      BY <1>1 DEF GoesOn
    <3> DEFINE then == Ticked(peers[p], line)
    <3>2. then.desync = peers[p].desync
      BY <1>0, <2>1, <3>1, TickedIs
    <3> QED
      BY <1>1, <2>1, <3>1, <3>2
  <2>2. CASE p # hub
    <3>1. hub' = hub /\ peers'[hub] = peers[hub]
      BY <1>0, <1>1, <2>2 DEF GoesOn
    <3> QED
      BY <3>1 DEF HostStays
  <2> QED
    BY <2>1, <2>2
<1>2. ASSUME NEW p \in Peer, Drift(p) \/ (p \in Client /\ (Connect(p) \/ Promoted(p))) PROVE Kept
  BY <1>0, <1>2, MoveIs DEF Same, HostStays
<1>3. ASSUME NEW p \in Peer, Compare(p) PROVE Kept
  <2>1. /\ \A q \in Peer \ {p} : peers'[q] = peers[q]
        /\ peers'[p].log = peers[p].log /\ peers'[p].clock = peers[p].clock /\ hub' = hub
    BY <1>3, ComparesAre
  <2>2. \/ peers[p].desync # None /\ peers'[p].desync = peers[p].desync
        \/ peers[p].desync = None
    BY <1>3, ComparesAre
  <2> QED
    BY <1>0, <2>1, <2>2 DEF HostStays
<1>4. ASSUME NEW c \in Client, Join(c) PROVE Kept
  BY <1>0, <1>4, JoinIs DEF HostStays
<1>5. ASSUME NEW c \in Client, Accept(c) PROVE Kept
  BY <1>0, <1>5, AcceptIs DEF Same, HostStays
<1>6. ASSUME NEW c \in Client, Leave(c) PROVE Kept
  BY <1>0, <1>6, LeaveIs DEF Same, HostStays
<1>8. ASSUME NEW c \in Client, TakeVerdict(c) PROVE Kept
  BY <1>0, <1>8, VerdictIs DEF HostStays
<1>9. AnnounceChecksum => Kept
  BY <1>0, AnnounceIs DEF HostStays
<1>10. Decide => Kept
  BY <1>0, DecideIs DEF HostStays
<1>11. UNCHANGED vars => Kept
  BY DEF vars, HostStays
<1> QED
  BY <1>0, <1>1, <1>2, <1>3, <1>4, <1>5, <1>6, <1>8, <1>9, <1>10, <1>11, TicksAre DEF Next

(* Where what is on its way and what waits comes from.                        *)
LEMMA WireGoes ==
  ASSUME TypeOK, Whereabouts, [Next]_vars, \A n \in Client : ~ChangeHost(n)
  PROVE  /\ \A r \in wire' :
              \/ r \in wire
              \/ \E p \in Peer \ {hub} : r.from = p /\ r.to = hub
              \/ /\ r.from = hub /\ r.to # hub /\ peers[hub].log # <<>> /\ HostStays
                 /\ r.tick = Last(peers[hub].log).tick /\ r.world = Last(peers[hub].log).world
         /\ \A p \in Peer : \A r \in peers'[p].parked :
              \/ r \in peers[p].parked
              \/ p # hub /\ r \in wire /\ r.to = p
<1>0. /\ hub \in Peer /\ \A c \in Client : c \in Peer
      /\ \A p \in Peer : peers[p] \in PeerState
  BY Typical
<1> DEFINE Kept == /\ wire' \subseteq wire /\ \A p \in Peer : peers'[p].parked \subseteq peers[p].parked
           Goal == /\ \A r \in wire' :
                        \/ r \in wire
                        \/ \E p \in Peer \ {hub} : r.from = p /\ r.to = hub
                        \/ /\ r.from = hub /\ r.to # hub /\ peers[hub].log # <<>> /\ HostStays
                           /\ r.tick = Last(peers[hub].log).tick /\ r.world = Last(peers[hub].log).world
                   /\ \A p \in Peer : \A r \in peers'[p].parked :
                        \/ r \in peers[p].parked
                        \/ p # hub /\ r \in wire /\ r.to = p
<1>k. Kept => Goal
  OBVIOUS
<1>1. ASSUME NEW p \in Peer, GoesOn(p) PROVE Kept
  <2>1. PICK line \in {None, 1, 2} : peers'[p] = Ticked(peers[p], line) /\ peers[p].clock < MaxTick
    BY <1>1 DEF GoesOn
  <2> DEFINE then == Ticked(peers[p], line)
  <2>2. then.parked = peers[p].parked
    BY <1>0, <2>1, TickedIs
  <2>3. wire' = wire /\ \A q \in Peer \ {p} : peers'[q] = peers[q]
    BY <1>1 DEF GoesOn
  <2> QED
    BY <2>1, <2>2, <2>3
<1>2. ASSUME NEW p \in Peer, Drift(p) \/ (p \in Client /\ (Connect(p) \/ Promoted(p))) PROVE Kept
  BY <1>0, <1>2, MoveIs DEF Same
<1>3. ASSUME NEW p \in Peer, Compare(p) PROVE Goal
  <2>1. \A q \in Peer \ {p} : peers'[q] = peers[q]
    BY <1>3, ComparesAre
  <2>2. PICK arrivals \in SUBSET {r \in wire : r.to = p} :
          /\ peers'[p].parked = {} \/ peers'[p].parked = Waiting(p, arrivals)
          /\ Heard(p, arrivals) \subseteq arrivals
          /\ \/ wire' \subseteq wire
             \/ \E r : /\ wire' = (wire \ arrivals) \cup Answer(p, r)
                       /\ Answer(p, r) \subseteq
                            {[from |-> p, to |-> hub, tick |-> r.tick, world |-> At(peers[p].log, r.tick)]}
    BY <1>3, ComparesAre
  <2>3. ASSUME NEW r \in peers'[p].parked PROVE r \in peers[p].parked \/ (p # hub /\ r \in wire /\ r.to = p)
    <3>1. r \in Compared(p, arrivals) /\ p # hub
      BY <2>2, <2>3 DEF Waiting, Waits
    <3> QED
      BY <2>2, <3>1 DEF Compared
  <2>4. ASSUME NEW r \in wire' PROVE r \in wire \/ \E q \in Peer \ {hub} : r.from = q /\ r.to = hub
    <3>1. PICK a : r \in wire \/ (r \in Answer(p, a)
            /\ Answer(p, a) \subseteq
                 {[from |-> p, to |-> hub, tick |-> a.tick, world |-> At(peers[p].log, a.tick)]})
      BY <2>2, <2>4
    <3>2. CASE r \in Answer(p, a) /\ r \notin wire
      <4>1. p # hub
        BY <3>2 DEF Answer
      <4> QED
        BY <3>1, <3>2, <4>1
    <3> QED
      BY <3>1, <3>2
  <2> QED
    BY <2>1, <2>3, <2>4
<1>4. ASSUME NEW c \in Client, Join(c) PROVE Kept
  BY <1>0, <1>4, JoinIs
<1>5. ASSUME NEW c \in Client, Accept(c) PROVE Kept
  BY <1>0, <1>5, AcceptIs DEF Same
<1>6. ASSUME NEW c \in Client, Leave(c) PROVE Kept
  BY <1>0, <1>6, LeaveIs DEF Same
<1>8. ASSUME NEW c \in Client, TakeVerdict(c) PROVE Kept
  BY <1>0, <1>8, VerdictIs
<1>9. ASSUME AnnounceChecksum PROVE Goal
  <2>1. /\ peers[hub].log # <<>>
        /\ wire' = wire \cup {Report(hub, c, Last(peers[hub].log)) : c \in Listeners}
        /\ \A p \in Peer : peers'[p].parked = peers[p].parked
        /\ HostStays
    BY <1>0, <1>9, AnnounceIs DEF HostStays
  <2>2. \A c \in Listeners : c # hub
    BY DEF Listeners
  <2>3. ASSUME NEW c \in Listeners, NEW r, r = Report(hub, c, Last(peers[hub].log))
        PROVE  /\ r.from = hub /\ r.to # hub
               /\ r.tick = Last(peers[hub].log).tick /\ r.world = Last(peers[hub].log).world
    BY <2>2, <2>3 DEF Report
  <2> QED
    BY <2>1, <2>3
<1>10. ASSUME Decide PROVE Kept
  <2>1. /\ wire' = wire /\ \A p \in Peer \ {hub} : peers'[p] = peers[p]
        /\ \E resume : peers'[hub].parked = {r \in peers[hub].parked : r.tick <= resume}
    BY <1>10, DecideIs
  <2> QED
    BY <2>1
<1>11. UNCHANGED vars => Kept
  BY DEF vars
<1> QED
  BY <1>0, <1>k, <1>1, <1>2, <1>3, <1>4, <1>5, <1>6, <1>8, <1>9, <1>10, <1>11, TicksAre DEF Next

LEMMA StepWord ==
  ASSUME SoundInv, WordIsKept, [Next]_vars
  PROVE  WordIsKept'
<1>0. /\ TypeOK /\ LogsAreOrderly /\ Whereabouts /\ Ruled
      /\ hub \in Peer /\ Host \in Peer
      /\ \A r \in wire : r \in Reports
      /\ \A p \in Peer : \A r \in peers[p].parked : r \in Reports
      /\ \A r \in Reports : r.tick \in Ticks
  BY Typical DEF SoundInv, Reports
<1>1. ASSUME NEW n \in Client, ChangeHost(n) PROVE WordIsKept'
  <2>1. /\ n # Host /\ hub = Host /\ hub' = n /\ wire' = {} /\ peers'[Host].parked = {}
        /\ \A p \in Client : peers'[p].parked = peers[p].parked
    BY <1>0, <1>1, ChangeHostIs DEF Same
  <2>2. \A p \in Peer : p = Host \/ p \in Client
    BY DEF Peer
  <2>3. ASSUME NEW p \in Peer, NEW r \in peers'[p].parked PROVE HubsWord(r)' /\ r.from \in {Host, n} \ {p}
    <3>1. r \in peers[p].parked
      BY <2>1, <2>2, <2>3
    <3>2. r.from = Host /\ p # Host
      BY <2>1, <3>1 DEF WordIsKept
    <3> QED
      BY <2>1, <3>2 DEF HubsWord
  <2> QED
    BY <2>1, <2>3 DEF WordIsKept
<1>2. CASE \A n \in Client : ~ChangeHost(n)
  <2>1. HostStays \/ GoesOn(hub)
    BY <1>0, <1>2, HostGoes
  <2>2. hub' = hub
    BY <2>1 DEF HostStays, GoesOn
  <2>3. ASSUME NEW r \in wire' PROVE HubsWord(r)' /\ (r.from = hub <=> r.to # hub)
    <3>1. CASE r \in wire
      BY <1>0, <2>1, <3>1, WordStands DEF WordIsKept
    <3>2. CASE \E p \in Peer \ {hub} : r.from = p /\ r.to = hub
      BY <2>2, <3>2 DEF HubsWord
    <3>3. CASE /\ r.from = hub /\ r.to # hub /\ peers[hub].log # <<>> /\ HostStays
               /\ r.tick = Last(peers[hub].log).tick /\ r.world = Last(peers[hub].log).world
      <4>1. peers[hub].log \in Seq(Entry) /\ Last(peers[hub].log) \in ToSet(peers[hub].log)
        BY <1>0, <3>3, Typical, LogIs
      <4>2. Orderly(peers[hub].log, peers[hub].clock)
        BY <1>0 DEF LogsAreOrderly
      <4>3. r.tick <= peers[hub].clock /\ At(peers[hub].log, r.tick) = r.world
        BY <3>3, <4>1, <4>2, AtOnce DEF Orderly
      <4> QED
        BY <3>3, <4>3 DEF HubsWord, HostStays
    <3> QED
      BY <1>0, <1>2, <3>1, <3>2, <3>3, WireGoes
  <2>4. ASSUME NEW p \in Peer, NEW r \in peers'[p].parked PROVE HubsWord(r)' /\ r.from \in {Host, hub} \ {p}
    <3>1. CASE r \in peers[p].parked
      BY <1>0, <2>1, <3>1, WordStands DEF WordIsKept
    <3>2. CASE p # hub /\ r \in wire /\ r.to = p
      BY <1>0, <2>1, <3>2, WordStands DEF WordIsKept
    <3> QED
      BY <1>0, <1>2, <3>1, <3>2, WireGoes
  <2> QED
    BY <2>2, <2>3, <2>4 DEF WordIsKept
<1> QED
  BY <1>1, <1>2

(* Only a leaver takes what is on its way along.                              *)
LEMMA SentStays ==
  ASSUME TypeOK, [Next]_vars, \A n \in Client : ~ChangeHost(n), \A p \in Peer : ~Compare(p),
         NEW r \in wire \cup missed
  PROVE  r \in wire' \cup missed' \/ \E c \in Client : Leave(c) /\ c \in {r.to, r.from}
<1> DEFINE Kept == wire \subseteq wire' /\ missed \subseteq missed'
<1>1. ASSUME NEW p \in Peer, GoesOn(p) PROVE Kept
  BY <1>1 DEF GoesOn
<1>2. ASSUME NEW p \in Peer, Drift(p) \/ (p \in Client /\ (Connect(p) \/ Promoted(p))) PROVE Kept
  BY <1>2, MoveIs
<1>4. ASSUME NEW c \in Client, Join(c) PROVE Kept
  BY <1>4, JoinIs
<1>5. ASSUME NEW c \in Client, Accept(c) PROVE Kept
  BY <1>5, AcceptIs
<1>6. ASSUME NEW c \in Client, Leave(c)
      PROVE  r \in wire' \cup missed' \/ (Leave(c) /\ c \in {r.to, r.from})
  <2>1. wire' = {a \in wire : c \notin {a.to, a.from}} /\ missed' = missed
    BY <1>6, LeaveIs
  <2> QED
    BY <1>6, <2>1
<1>8. ASSUME NEW c \in Client, TakeVerdict(c) PROVE Kept
  BY <1>8, VerdictIs
<1>9. AnnounceChecksum => Kept
  BY AnnounceIs
<1>10. Decide => Kept
  BY DecideIs
<1>11. UNCHANGED vars => Kept
  BY DEF vars
<1>12. \A c \in Client : c \in Peer
  BY Typical
<1> QED
  BY <1>1, <1>2, <1>4, <1>5, <1>6, <1>8, <1>9, <1>10, <1>11, <1>12, TicksAre DEF Next

LEMMA StepKnown ==
  ASSUME SoundInv, WordIsKept, FoundIsKnown, [Next]_vars
  PROVE  FoundIsKnown'
<1>0. /\ TypeOK /\ LogsAreOrderly /\ Whereabouts /\ Ruled /\ Silence /\ WireIsRuled
      /\ hub \in Peer /\ Host \in Peer /\ \A c \in Client : c \in Peer
      /\ \A p \in Peer : peers[p].desync # None => peers[p].desync.tick \in Ticks
      /\ None \notin Desyncs
  BY Typical, NoneIsNoDesync DEF SoundInv, Desyncs
<1>1. ASSUME NEW n \in Client, ChangeHost(n) PROVE FoundIsKnown'
  <2>1. /\ n # Host /\ hub = Host /\ hub' = n
        /\ \A p \in Client : peers'[p].desync = peers[p].desync
    BY <1>0, <1>1, ChangeHostIs DEF Same
  <2>2. ASSUME NEW c \in Client, c # n, peers'[c].desync # None PROVE Known(c, peers[c].desync)'
    <3>1. c # hub /\ peers[c].desync # None
      BY <2>1, <2>2, Assumed
    <3>2. peers[c].desync.from = Host
      BY <2>1, <3>1 DEF FoundIsKnown, Known
    <3>3. PICK d : d = peers[c].desync
      OBVIOUS
    <3>4. peers'[c].desync = d /\ d.from = Host
      BY <2>1, <3>2, <3>3
    <3>5. Known(c, d)'
      BY <2>1, <3>4 DEF Known
    <3> QED
      BY <3>4, <3>5
  <2> QED
    BY <2>1, <2>2 DEF FoundIsKnown
<1>2. ASSUME \A n \in Client : ~ChangeHost(n), NEW c \in Client, c # hub', peers'[c].desync # None
      PROVE  Known(c, peers[c].desync)'
  <2>1. /\ HostStays \/ GoesOn(hub)
        /\ peers[hub].desync # None => peers'[hub].desync # None
    BY <1>0, <1>2, HostGoes
  <2>2. hub' = hub /\ c # hub
    BY <1>2, <2>1 DEF HostStays, GoesOn
  <2>3. PICK d : d = peers'[c].desync
    OBVIOUS
  <2>4. SUFFICES Known(c, d)'
    BY <2>3
  <2>5. PICK a : a = AnswerTo(c, d)
    OBVIOUS
  <2>6. a.from = c /\ a.to = hub /\ a.tick = d.tick /\ a.world = d.left
    BY <2>5 DEF AnswerTo
  <2>7. ASSUME peers[c].desync = d, a \in wire \cup missed => a \in wire' \cup missed' PROVE Known(c, d)'
    <3>1. Known(c, d) /\ d.tick \in Ticks
      BY <1>0, <1>2, <2>2, <2>3, <2>7 DEF FoundIsKnown
    <3> QED
      BY <1>0, <2>1, <2>5, <2>7, <3>1, StillKnown
  <2>8. CASE \A p \in Peer : ~Compare(p)
    <3>1. peers[c].desync = d
      BY <1>0, <1>2, <2>3, <2>8, OnlyComparingFinds
    <3>2. ASSUME a \in wire \cup missed PROVE a \in wire' \cup missed'
      <4>1. \A e \in Client : ~(Leave(e) /\ e \in {a.to, a.from})
        <5> SUFFICES ASSUME NEW e \in Client, Leave(e) PROVE e # c /\ e # hub
          BY <2>6
        <5> QED
          BY <1>0, <1>2, LeaveIs
      <4> QED
        BY <1>0, <1>2, <2>8, <3>2, <4>1, SentStays
    <3> QED
      BY <2>7, <3>1, <3>2
  <2>9. ASSUME NEW p \in Peer, Compare(p) PROVE Known(c, d)'
    <3>1. /\ \A q \in Peer \ {p} : peers'[q] = peers[q]
          /\ peers'[p].log = peers[p].log /\ peers'[p].clock = peers[p].clock
          /\ peers[p].at \in {"pending", "loading", "in"}
      BY <1>0, <2>9, ComparesAre
    <3>h. HostStays
      BY <1>0, <2>2, <3>1 DEF HostStays
    <3>2. PICK arrivals \in SUBSET {r \in wire : r.to = p} :
            /\ missed' = missed \cup (arrivals \ Heard(p, arrivals))
            /\ Compared(p, arrivals) \subseteq Reports
            /\ \/ peers[p].desync # None /\ peers'[p].desync = peers[p].desync /\ wire' = wire \ arrivals
               \/ /\ peers[p].desync = None /\ peers'[p].desync = None
                  /\ \A r \in Compared(p, arrivals) : ~Differs(p, r)
                  /\ wire' = wire \ arrivals
               \/ \E r \in Compared(p, arrivals) :
                  /\ peers[p].desync = None /\ Differs(p, r)
                  /\ Found(p, r) \in Desyncs /\ peers'[p].desync = Found(p, r)
                  /\ wire' = (wire \ arrivals) \cup Answer(p, r)
      BY <1>0, <2>9, ComparesAre
    <3>3. CASE p # hub /\ peers[c].desync = d
      <4>1. a \notin arrivals
        BY <2>6, <3>3
      <4>2. a \in wire \cup missed => a \in wire' \cup missed'
        BY <3>2, <4>1
      <4> QED
        BY <2>7, <3>3, <4>2
    <3>4. CASE p = hub
      <4>1. peers[c].desync = d
        BY <1>0, <2>2, <2>3, <3>1, <3>4
      <4>2. CASE a \in wire \cup missed => a \in wire' \cup missed'
        BY <2>7, <4>1, <4>2
      <4>3. CASE a \in Heard(hub, arrivals) /\ ~(d.from = hub /\ d.tick \in SampledTicks(peers[hub].log))
        <5>1. Known(c, d)
          BY <1>2, <2>2, <2>3, <4>1 DEF FoundIsKnown
        <5> QED
          BY <3>h, <4>3, <5>1 DEF Known, HostStays
      <4>4. CASE a \in Heard(hub, arrivals) /\ d.from = hub /\ d.tick \in SampledTicks(peers[hub].log)
        <5>1. Known(c, d)
          BY <1>2, <2>2, <2>3, <4>1 DEF FoundIsKnown
        <5>2. Differs(hub, a)
          BY <2>6, <4>4, <5>1 DEF Differs, Known
        <5>3. a \in Compared(hub, arrivals)
          BY <4>4 DEF Compared
        <5>4. peers'[hub].desync # None
          BY <1>0, <3>2, <3>4, <5>2, <5>3
        <5> QED
          BY <3>h, <5>1, <5>4 DEF Known, HostStays
      <4>5. ~(a \in wire \cup missed => a \in wire' \cup missed') => a \in Heard(hub, arrivals)
        BY <3>2, <3>4
      <4> QED
        BY <4>2, <4>3, <4>4, <4>5
    <3>5. CASE p # hub /\ peers[c].desync # d
      <4>1. p = c
        BY <1>0, <2>3, <3>1, <3>5
      <4>2. PICK r \in Compared(c, arrivals) :
              /\ Differs(c, r) /\ d = Found(c, r)
              /\ Answer(c, r) \subseteq wire'
        BY <1>2, <2>3, <3>2, <3>5, <4>1
      <4>3. d.from = r.from /\ d.tick = r.tick /\ d.left = At(peers[c].log, r.tick) /\ d.right = r.world
        BY <4>2 DEF Found
      <4>4. peers[c].roster # {} /\ (r \in wire \/ r \in peers[c].parked)
        BY <1>0, <3>2, <4>1, ComparesInSession
      <4>5. peers[c].at \in {"loading", "in"}
        BY <1>0, <4>4 DEF Silence
      <4>6. HubsWord(r) /\ r.from \in {Host, hub}
        <5>1. CASE r \in peers[c].parked
          BY <1>0, <5>1 DEF WordIsKept
        <5>2. CASE r \in wire /\ r \notin peers[c].parked
          <6>1. r.to = c
            BY <4>1, <4>2, <5>2 DEF Compared, Heard
          <6> QED
            BY <2>2, <5>2, <6>1 DEF WordIsKept
        <5> QED
          BY <4>4, <5>1, <5>2
      <4>7. a \in Answer(c, r)
        BY <2>2, <2>5, <4>3, <4>5 DEF Answer, Report, AnswerTo
      <4>8. d.left # d.right
        BY <4>2, <4>3 DEF Differs
      <4>9. AnswerTo(c, d)' = a
        BY <2>2, <2>5 DEF AnswerTo
      <4> QED
        BY <3>h, <4>2, <4>3, <4>6, <4>7, <4>8, <4>9 DEF Known, HostStays, HubsWord
    <3> QED
      BY <3>3, <3>4, <3>5
  <2> QED
    BY <2>8, <2>9
<1> QED
  BY <1>1, <1>2 DEF FoundIsKnown

(* Under the same conditions, what a client has found of its host's world the   *)
(* host has found as well, once the client's answer has been heard and if the    *)
(* host still has its sample of that tick: leaving, joining again and the change *)
(* of host never leave the host believing that all is well.                     *)
THEOREM HostIsTold ==
  ASSUME ~EarlyReports, ~LateReporters
  PROVE  Spec => []HostLearns
<1>1. LearnInv /\ [Next]_vars => LearnInv'
  <2> SUFFICES ASSUME LearnInv, [Next]_vars PROVE LearnInv'
    OBVIOUS
  <2>1. SoundInv'
    BY StepSound DEF LearnInv
  <2>2. WordIsKept' /\ FoundIsKnown'
    BY StepWord, StepKnown DEF LearnInv
  <2> QED
    BY <2>1, <2>2 DEF LearnInv
<1> QED
  BY <1>1, InitLearn, HostHasLearned, PTL DEF Spec

=============================================================================
