---------------------------- MODULE LockstepProofs ----------------------------
(***************************************************************************)
(* Proofs about Lockstep, for any clients, buffers, windows and bounds:    *)
(* its types, that every peer runs the host's rulings, that nothing a      *)
(* client is to be told is left out, that the session is paused as the     *)
(* host asked, that each action runs once, that what the host waits for is *)
(* told or on its way, that no action is lost, and that every peer runs a  *)
(* tick with the roster the host ran it with.                              *)
(***************************************************************************)
EXTENDS LockstepInvariants, TLAPS, FiniteSetTheorems, WellFoundedInduction

LEMMA LeastNumber ==
  ASSUME NEW T \in SUBSET Nat, T # {}
  PROVE  \E m \in T : \A k \in T : m <= k
<1> DEFINE R == OpToRel(<, Nat)
<1>1. IsWellFoundedOn(R, Nat)
  BY NatLessThanWellFounded, Zenon
<1> HIDE DEF R
<1>2. PICK m \in T : \A k \in T : ~(<<k, m>> \in R)
  BY <1>1, WFMin, Zenon
<1>3. \A k \in T : ~(k < m)
  BY <1>2, Zenon DEF R, OpToRel
<1> QED
  BY <1>2, <1>3

LEMMA MinIs ==
  ASSUME NEW S \in SUBSET Nat, S # {}
  PROVE  Min(S) \in S /\ \A k \in S : Min(S) <= k
BY LeastNumber, Zenon DEF Min

LEMMA MaxIs ==
  ASSUME NEW n \in Nat, NEW S \in SUBSET (1..n), S # {}
  PROVE  Max(S) \in S /\ \A k \in S : k <= Max(S)
<1> DEFINE T == {n - i : i \in S}
<1>1. T \in SUBSET Nat /\ T # {}
  <2>1. PICK i \in S : TRUE
    BY Zenon
  <2>2. n - i \in T
    OBVIOUS
  <2>3. \A k \in S : n - k \in Nat
    OBVIOUS
  <2> QED
    BY <2>2, <2>3
<1>2. PICK m \in T : \A k \in T : m <= k
  BY <1>1, LeastNumber, Zenon
<1>3. PICK i \in S : m = n - i
  BY <1>2
<1>4. ASSUME NEW k \in S PROVE i >= k
  <2>1. n - k \in T
    OBVIOUS
  <2>2. n - i <= n - k
    BY <1>2, <1>3, <2>1, Zenon
  <2>3. n \in Int /\ i \in Int /\ k \in Int
    OBVIOUS
  <2> HIDE DEF T
  <2> QED
    BY <2>2, <2>3
<1> QED
  BY <1>3, <1>4, Zenon DEF Max

-----------------------------------------------------------------------------
(* RECORDS *)

LEMMA PutIs ==
  ASSUME NEW f, NEW k, NEW v
  PROVE  /\ DOMAIN Put(f, k, v) = DOMAIN f \cup {k}
         /\ Put(f, k, v)[k] = v
         /\ \A x \in DOMAIN f : x # k => Put(f, k, v)[x] = f[x]
         /\ \A x, d : Lookup(Put(f, k, v), x, d) = IF x = k THEN v ELSE Lookup(f, x, d)
BY DEF Put, Lookup

LEMMA KeepFromIs ==
  ASSUME NEW f, NEW t
  PROVE  /\ DOMAIN KeepFrom(f, t) = {u \in DOMAIN f : u >= t}
         /\ \A u \in DOMAIN KeepFrom(f, t) : KeepFrom(f, t)[u] = f[u]
BY DEF KeepFrom, RestrictDomain, Restrict

LEMMA ActedIs ==
  ASSUME NEW f
  PROVE  /\ DOMAIN Acted(f) = {p \in DOMAIN f : f[p] # <<>>}
         /\ \A p \in DOMAIN Acted(f) : Acted(f)[p] = f[p]
         /\ Acted(f) = [p \in DOMAIN Acted(f) |-> Acted(f)[p]]
BY DEF Acted, RestrictValues, Restrict

(* Two entries that name the same actions are the same to who runs them.     *)
LEMMA SameActed ==
  ASSUME NEW f, NEW g,
         \A p : (p \in DOMAIN f /\ f[p] # <<>>) <=> (p \in DOMAIN g /\ g[p] # <<>>),
         \A p \in DOMAIN f : f[p] # <<>> => g[p] = f[p]
  PROVE  Acted(f) = Acted(g)
<1>1. DOMAIN Acted(f) = DOMAIN Acted(g)
  BY ActedIs, Zenon
<1>2. \A p \in DOMAIN Acted(f) : Acted(f)[p] = Acted(g)[p]
  BY <1>1, ActedIs, ZenonT(30)
<1>3. /\ Acted(f) = [p \in DOMAIN Acted(f) |-> Acted(f)[p]]
      /\ Acted(g) = [p \in DOMAIN Acted(g) |-> Acted(g)[p]]
  BY ActedIs, Zenon
<1> QED
  BY <1>1, <1>2, <1>3

(* Filling in for who has said nothing changes nothing.                      *)
LEMMA FilledActs ==
  ASSUME NEW t, NEW players
  PROVE  Acted(Filled(t, players)) = Acted(players)
<1> DEFINE f == Filled(t, players)
<1>1. /\ DOMAIN players \subseteq DOMAIN f
      /\ \A p \in DOMAIN f : f[p] = IF p \in DOMAIN players THEN players[p] ELSE <<>>
  BY DEF Filled, Lookup
<1> HIDE DEF f
<1>2. Acted(players) = Acted(f)
  BY <1>1, SameActed
<1> QED
  BY <1>2 DEF f

LEMMA PlayersAre ==
  /\ \A f \in Players : DOMAIN f \in SUBSET Peer /\ f \in [DOMAIN f -> Seq(Nat)]
  /\ \A D \in SUBSET Peer : \A f \in [D -> Seq(Nat)] : f \in Players
  /\ Empty \in Players /\ DOMAIN Empty = {}
<1>1. \A f \in Players : DOMAIN f \in SUBSET Peer /\ f \in [DOMAIN f -> Seq(Nat)]
  BY DEF Players
<1>2. \A D \in SUBSET Peer : \A f \in [D -> Seq(Nat)] : f \in Players
  BY DEF Players
<1>3. Empty \in [{} -> Seq(Nat)] /\ DOMAIN Empty = {}
  BY DEF Empty
<1>4. {} \in SUBSET Peer
  OBVIOUS
<1>5. Empty \in Players
  BY <1>2, <1>3, <1>4, Zenon
<1> QED
  BY <1>1, <1>2, <1>3, <1>5, Zenon

LEMMA PutPlayers ==
  ASSUME NEW f \in Players, NEW p \in Peer, NEW a \in Seq(Nat)
  PROVE  Put(f, p, a) \in Players
<1>1. DOMAIN f \cup {p} \in SUBSET Peer /\ f \in [DOMAIN f -> Seq(Nat)]
  BY PlayersAre
<1>2. Put(f, p, a) \in [DOMAIN f \cup {p} -> Seq(Nat)]
  BY <1>1 DEF Put
<1> QED
  BY <1>1, <1>2, PlayersAre, Zenon

LEMMA FilledPlayers ==
  ASSUME NEW t, NEW f \in Players
  PROVE  Filled(t, f) \in Players
<1> DEFINE D == DOMAIN f \cup {c \in Client : Required(c, t)}
<1>1. D \in SUBSET Peer /\ f \in [DOMAIN f -> Seq(Nat)]
  BY PlayersAre DEF Peer
<1>2. <<>> \in Seq(Nat)
  OBVIOUS
<1>3. Filled(t, f) \in [D -> Seq(Nat)]
  BY <1>1, <1>2 DEF Filled, Lookup
<1> QED
  BY <1>1, <1>3, PlayersAre, Zenon

-----------------------------------------------------------------------------
(* RULINGS APPLIED *)

(* The tracker with the rulings applied then holds them too.                 *)
LEMMA RulingsApplied ==
  ASSUME NEW ticks, NEW ms, NEW history, HoldTheHistory(ticks, ms, history)
  PROVE  /\ DOMAIN ApplyRulings(ticks, ms) = DOMAIN ticks \cup {ms[i].tick : i \in DOMAIN ms}
         /\ \A t \in DOMAIN ApplyRulings(ticks, ms) :
              /\ ApplyRulings(ticks, ms)[t] \in Players
              /\ Holds(ApplyRulings(ticks, ms)[t], t, history)
<1>0. /\ \A t \in DOMAIN ticks : ticks[t] \in Players
      /\ ms \in Seq(RulingMsg)
      /\ \A t \in DOMAIN ticks : Acted(ticks[t]) = history[t].players
      /\ \A i \in DOMAIN ms : Acted(ms[i].players) = history[ms[i].tick].players
  BY DEF HoldTheHistory, Holds
<1> DEFINE f == ApplyRulings(ticks, ms)
           was(t) == Lookup(ticks, t, Empty)
           named(t) == {p \in Peer : Naming(ms, t, p) # {}}
           last(t, p) == ms[Max(Naming(ms, t, p))]
<1>1. /\ DOMAIN f = DOMAIN ticks \cup {ms[i].tick : i \in DOMAIN ms}
      /\ \A t \in DOMAIN f : f[t] = [p \in DOMAIN was(t) \cup named(t) |->
                               IF p \in named(t) THEN last(t, p).players[p] ELSE was(t)[p]]
  BY DEF ApplyRulings
<1>2. ASSUME NEW t, NEW p \in named(t)
      PROVE  \E i \in DOMAIN ms : /\ last(t, p) = ms[i] /\ ms[i].tick = t
                                  /\ p \in DOMAIN ms[i].players
  <2> DEFINE S == Naming(ms, t, p)
  <2>1. S \in SUBSET (1..Len(ms)) /\ Len(ms) \in Nat /\ S # {}
    BY <1>0 DEF Naming
  <2>2. Max(S) \in S
    BY <2>1, MaxIs, Zenon
  <2> QED
    BY <2>2, Zenon DEF Naming
<1>3. ASSUME NEW t PROVE was(t) \in Players
  BY <1>0, PlayersAre DEF Lookup
<1>4. ASSUME NEW i \in DOMAIN ms PROVE ms[i].players \in Players
  <2>1. ms[i] \in RulingMsg
    BY <1>0
  <2> QED
    BY <2>1 DEF RulingMsg
<1> HIDE DEF f, was, named, last
<1>5. ASSUME NEW t \in DOMAIN f PROVE f[t] \in Players
  <2> DEFINE D == DOMAIN was(t) \cup named(t)
  <2>1. D \in SUBSET Peer
    BY <1>3, PlayersAre DEF named
  <2>0. f[t] = [p \in D |-> IF p \in named(t) THEN last(t, p).players[p] ELSE was(t)[p]]
    BY <1>1
  <2>2. ASSUME NEW p \in D PROVE f[t][p] \in Seq(Nat)
    <3>0. f[t][p] = IF p \in named(t) THEN last(t, p).players[p] ELSE was(t)[p]
      BY <2>0
    <3>1. CASE p \in named(t)
      <4>1. PICK i \in DOMAIN ms : last(t, p) = ms[i] /\ p \in DOMAIN ms[i].players
        BY <1>2, <3>1
      <4>2. ms[i].players[p] \in Seq(Nat)
        BY <1>4, <4>1, PlayersAre
      <4> QED
        BY <3>0, <3>1, <4>1, <4>2
    <3>2. CASE p \notin named(t)
      <4>1. was(t)[p] \in Seq(Nat)
        BY <1>3, <2>2, <3>2, PlayersAre
      <4> QED
        BY <3>0, <3>2, <4>1
    <3> QED
      BY <3>1, <3>2
  <2>3. f[t] \in [D -> Seq(Nat)]
    BY <2>0, <2>2, Zenon
  <2> QED
    BY <2>1, <2>3, PlayersAre, Zenon
<1>6. ASSUME NEW t \in DOMAIN f PROVE Acted(f[t]) = history[t].players
  <2> DEFINE r == history[t].players
  <2>0. /\ t \in DOMAIN ticks => Acted(ticks[t]) = r
        /\ \A i \in DOMAIN ms : ms[i].tick = t => Acted(ms[i].players) = r
    BY <1>0
  <2> HIDE DEF r
  <2>1. PICK g \in Players : /\ Acted(g) = r
                             /\ \/ t \in DOMAIN ticks /\ g = was(t)
                                \/ \E i \in DOMAIN ms : ms[i].tick = t /\ g = ms[i].players
    <3>1. CASE t \in DOMAIN ticks
      BY <1>3, <2>0, <3>1 DEF was, Lookup
    <3>2. CASE \E i \in DOMAIN ms : ms[i].tick = t
      BY <1>4, <2>0, <3>2
    <3> QED
      BY <1>1, <3>1, <3>2
  <2>2. ASSUME NEW h, Acted(h) = r
        PROVE  /\ \A p : (p \in DOMAIN h /\ h[p] # <<>>) <=> (p \in DOMAIN g /\ g[p] # <<>>)
               /\ \A p \in DOMAIN h : h[p] # <<>> => g[p] = h[p]
    <3>1. DOMAIN r = {p \in DOMAIN h : h[p] # <<>>} /\ \A p \in DOMAIN r : r[p] = h[p]
      BY <2>2, ActedIs, Zenon
    <3>2. DOMAIN r = {p \in DOMAIN g : g[p] # <<>>} /\ \A p \in DOMAIN r : r[p] = g[p]
      BY <2>1, ActedIs, Zenon
    <3> QED
      BY <3>1, <3>2, Zenon
  <2> DEFINE D == DOMAIN was(t) \cup named(t)
  <2>3. /\ DOMAIN f[t] = D
        /\ \A p \in D : f[t][p] = IF p \in named(t) THEN last(t, p).players[p] ELSE was(t)[p]
    <3>1. f[t] = [p \in D |-> IF p \in named(t) THEN last(t, p).players[p] ELSE was(t)[p]]
      BY <1>1
    <3> QED
      BY <3>1
  <2>4. \A p \in DOMAIN g : p \in D
    <3>1. CASE t \in DOMAIN ticks /\ g = was(t)
      BY <3>1
    <3>2. ASSUME NEW i \in DOMAIN ms, ms[i].tick = t, g = ms[i].players, NEW p \in DOMAIN g
          PROVE  p \in named(t)
      <4>1. p \in Peer
        BY <2>1, PlayersAre
      <4>2. i \in Naming(ms, t, p)
        BY <3>2 DEF Naming
      <4> QED
        BY <4>1, <4>2 DEF named
    <3> QED
      BY <2>1, <3>1, <3>2
  <2>5. ASSUME NEW p \in D
        PROVE  \E h : Acted(h) = r /\ p \in DOMAIN h /\ f[t][p] = h[p]
    <3>1. CASE p \in named(t)
      <4>1. PICK i \in DOMAIN ms : /\ last(t, p) = ms[i] /\ ms[i].tick = t
                                   /\ p \in DOMAIN ms[i].players
        BY <1>2, <3>1
      <4>2. Acted(ms[i].players) = r /\ f[t][p] = ms[i].players[p]
        BY <2>0, <2>3, <3>1, <4>1
      <4> QED
        BY <4>1, <4>2
    <3>2. CASE p \notin named(t)
      <4>1. p \in DOMAIN was(t) /\ f[t][p] = was(t)[p]
        BY <2>3, <2>5, <3>2
      <4>2. t \in DOMAIN ticks
        BY <4>1, PlayersAre DEF was, Lookup
      <4>3. was(t) = ticks[t]
        BY <4>2 DEF was, Lookup
      <4> QED
        BY <2>0, <4>1, <4>2, <4>3
    <3> QED
      BY <3>1, <3>2
  <2>6. Acted(f[t]) = Acted(g)
    <3> DEFINE e == f[t]
    <3>1. DOMAIN e = D /\ \A p \in DOMAIN g : p \in D
      BY <2>3, <2>4
    <3>2. \A p \in D : \E h : Acted(h) = r /\ p \in DOMAIN h /\ e[p] = h[p]
      BY <2>5
    <3> HIDE DEF e, D
    <3>3. \A p \in D : e[p] # <<>> => p \in DOMAIN g /\ g[p] = e[p]
      BY <2>2, <3>2
    <3>4. \A p \in DOMAIN g : g[p] # <<>> => e[p] # <<>>
      BY <2>2, <3>1, <3>2
    <3>5. Acted(e) = Acted(g)
      BY <3>1, <3>3, <3>4, SameActed
    <3> QED
      BY <3>5 DEF e
  <2> QED
    BY <2>1, <2>6 DEF r
<1> QED
  BY <1>1, <1>5, <1>6 DEF f, Holds

LEMMA SystemApplied ==
  ASSUME NEW rules, NEW ms \in Seq(RulingMsg)
  PROVE  /\ DOMAIN rules \subseteq DOMAIN ApplySystem(rules, ms)
         /\ \A t \in DOMAIN ApplySystem(rules, ms) :
              \/ t \in DOMAIN rules /\ ApplySystem(rules, ms)[t] = rules[t]
              \/ \E i \in DOMAIN ms : ms[i].tick = t /\ ApplySystem(rules, ms)[t] = ms[i].system
         /\ \A i \in DOMAIN ms : ms[i].system # <<>> => ms[i].tick \in DOMAIN ApplySystem(rules, ms)
<1> DEFINE f == ApplySystem(rules, ms)
           said == {t \in {ms[i].tick : i \in DOMAIN ms} : Saying(ms, t) # {}}
<1>1. /\ DOMAIN f = DOMAIN rules \cup said
      /\ \A t \in DOMAIN f : f[t] = IF t \in said THEN ms[Max(Saying(ms, t))].system ELSE rules[t]
  BY DEF ApplySystem
<1>2. ASSUME NEW t \in said PROVE Max(Saying(ms, t)) \in Saying(ms, t)
  <2>1. Saying(ms, t) \in SUBSET (1..Len(ms)) /\ Len(ms) \in Nat /\ Saying(ms, t) # {}
    BY DEF Saying
  <2> QED
    BY <2>1, MaxIs, Zenon
<1>3. \A i \in DOMAIN ms : ms[i].system # <<>> => ms[i].tick \in said
  BY DEF Saying
<1> HIDE DEF f
<1>4. ASSUME NEW t \in DOMAIN f
      PROVE  \/ t \in DOMAIN rules /\ f[t] = rules[t]
             \/ \E i \in DOMAIN ms : ms[i].tick = t /\ f[t] = ms[i].system
  BY <1>1, <1>2, Zenon DEF Saying
<1> QED
  BY <1>1, <1>3, <1>4 DEF f

-----------------------------------------------------------------------------
(* TYPES *)

-----------------------------------------------------------------------------
(* A TICK OF THE HOST *)

LEMMA SequencesOfSets ==
  ASSUME NEW S, IsFiniteSet(S)
  PROVE  SetToSeq(S) \in Seq(S)
<1> DEFINE n == Cardinality(S)
<1>1. n \in Nat /\ ExistsBijection(1..n, S)
  BY FS_CardinalityType
<1>2. \E f \in [1..n -> S] : IsInjective(f)
  BY <1>1 DEF ExistsBijection, Bijection, Injection
<1>3. SetToSeq(S) \in [1..n -> S]
  BY <1>2 DEF SetToSeq
<1> QED
  BY <1>1, <1>3

LEMMA StagedIs ==
  ASSUME HostTypes, NEW t \in Nat
  PROVE  Staged(t) \in Seq(SysAct)
<1> DEFINE js == SetToSeq(Joining(t))
           joins1 == [i \in 1..Len(js) |-> Joined(js[i])]
           asks == IF Pausing THEN <<Pause>> ELSE IF Resuming THEN <<Resume>> ELSE <<>>
<1>1. js \in Seq(Peer)
  <2>1. Joining(t) \in SUBSET Peer
    BY DEF Joining
  <2>2. IsFiniteSet(Peer)
    BY PeerAssumption, FS_AddElement DEF Peer
  <2>3. js \in Seq(Joining(t))
    BY <2>1, <2>2, FS_Subset, SequencesOfSets
  <2> HIDE DEF js
  <2> QED
    BY <2>1, <2>3
<1>2. joins1 \in Seq(SysAct)
  <2> HIDE DEF js
  <2>1. \A i \in 1..Len(js) : Joined(js[i]) \in SysAct
    BY <1>1 DEF Joined, SysAct
  <2> QED
    BY <1>1, <2>1
<1>3. asks \in Seq(SysAct)
  <2>1. Pause \in SysAct /\ Resume \in SysAct
    BY DEF Pause, Resume, SysAct
  <2> QED
    BY <2>1
<1>4. departures \in Seq(SysAct)
  BY DEF HostTypes
<1>5. Staged(t) = departures \o joins1 \o asks
  BY DEF Staged
<1> HIDE DEF joins1, asks
<1> QED
  BY <1>2, <1>3, <1>4, <1>5

LEMMA HostTickRuns ==
  ASSUME TInv, HostTick
  PROVE  \E players, staged : HostRuns(players, staged)
<1> DEFINE next == clock[Host] + 1
           staged == StageInto(SystemOf(Host, next), Staged(next))
<1>1. /\ clock[Host] \in Nat /\ next \in Nat /\ next <= MaxTick /\ Host \in Peer
      /\ WaitedOn(next) = {} /\ lastBroadcast = clock[Host]
  BY DEF TInv, HostTypes, NothingIsOwed, HostTick, Peer
<1>2. SystemOf(Host, next) \in Seq(SysAct) /\ Staged(next) \in Seq(SysAct)
  <2>1. <<>> \in Seq(SysAct)
    OBVIOUS
  <2> QED
    BY <1>1, <2>1, StagedIs, Zenon DEF TInv, LogTypes, SystemOf, Lookup
<1>3. staged \in Seq(SysAct) /\ (staged = <<>> => SystemOf(Host, next) = <<>>)
  BY <1>2 DEF StageInto
<1>4. PICK acts \in MayTake(Host) :
        LET players == IF acts = <<>> THEN Entry(Host, next)
                       ELSE Put(Entry(Host, next), Host, acts)
            ticks == Put(tracker[Host], next, players)
            rules == Put(system[Host], next, staged)
            through == BroadcastThrough(next, [t \in (lastBroadcast + 1)..next |->
                                                 Lookup(ticks, t, Empty)])
            rulings == [i \in 1..(through - lastBroadcast) |->
                          LET t == lastBroadcast + i
                          IN  Ruling(t, Filled(t, Lookup(ticks, t, Empty)), Lookup(rules, t, <<>>))]
        IN  /\ RunTick(Host, next, players, staged)
            /\ IF Connected = {}
               THEN lastBroadcast' = Max2(lastBroadcast, next) /\ UNCHANGED inbox
               ELSE lastBroadcast' = through /\ inbox' = Broadcast(inbox, rulings)
            /\ tracker' = [tracker EXCEPT ![Host] = KeepFrom(
                 IF players = Empty THEN tracker[Host] ELSE ticks, HostFloor(next))]
            /\ system' = [system EXCEPT ![Host] = KeepFrom(
                 IF staged = <<>> THEN system[Host] ELSE rules, HostFloor(next))]
            /\ pendingJoin' = KeptJoins(next)
  BY Zenon DEF HostTick
<1> DEFINE players == IF acts = <<>> THEN Entry(Host, next) ELSE Put(Entry(Host, next), Host, acts)
           ticks == Put(tracker[Host], next, players)
           rules == Put(system[Host], next, staged)
           entry == [t \in (lastBroadcast + 1)..next |-> Lookup(ticks, t, Empty)]
           through == BroadcastThrough(next, entry)
           rulings == [i \in 1..(through - lastBroadcast) |->
                         LET t == lastBroadcast + i
                         IN  Ruling(t, Filled(t, Lookup(ticks, t, Empty)), Lookup(rules, t, <<>>))]
<1>5. Entry(Host, next) \in Players
  BY <1>1, PlayersAre DEF TInv, LogTypes, Entry, Lookup
<1>6. players \in Players /\ DOMAIN Entry(Host, next) \subseteq DOMAIN players
  <2>1. CASE acts = <<>>
    BY <1>5, <2>1
  <2>2. CASE acts # <<>>
    <3>1. acts = <<Len(sent[Host]) + 1>>
      BY <1>4, <2>2 DEF MayTake
    <3>2. sent[Host] \in Seq(Nat)
      BY <1>1 DEF TInv, HistoryTypes
    <3>3. acts \in Seq(Nat)
      BY <3>1, <3>2
    <3> DEFINE e == Entry(Host, next)
    <3>4. players = Put(e, Host, acts) /\ e \in Players
      BY <1>5, <2>2
    <3> HIDE DEF players, e
    <3>5. Put(e, Host, acts) \in Players
      BY <1>1, <3>3, <3>4, PutPlayers
    <3>6. DOMAIN Put(e, Host, acts) = DOMAIN e \cup {Host}
      BY PutIs, Zenon
    <3>7. players \in Players /\ DOMAIN e \subseteq DOMAIN players
      BY <3>4, <3>5, <3>6
    <3> QED
      BY <3>7 DEF e
  <2> QED
    BY <2>1, <2>2
<1> HIDE DEF players
<1>7. /\ Lookup(ticks, next, Empty) = players /\ Lookup(rules, next, <<>>) = staged
      /\ DOMAIN ticks = DOMAIN tracker[Host] \cup {next} /\ DOMAIN rules = DOMAIN system[Host] \cup {next}
      /\ \A t : t # next => Lookup(ticks, t, Empty) = Entry(Host, t) /\ Lookup(rules, t, <<>>) = SystemOf(Host, t)
  <2> HIDE DEF staged, next
  <2>1. /\ DOMAIN ticks = DOMAIN tracker[Host] \cup {next}
        /\ \A t : Lookup(ticks, t, Empty) = IF t = next THEN players ELSE Lookup(tracker[Host], t, Empty)
    BY DEF Put, Lookup
  <2>2. /\ DOMAIN rules = DOMAIN system[Host] \cup {next}
        /\ \A t : Lookup(rules, t, <<>>) = IF t = next THEN staged ELSE Lookup(system[Host], t, <<>>)
    BY DEF Put, Lookup
  <2> HIDE DEF ticks, rules
  <2> QED
    BY <2>1, <2>2 DEF Entry, SystemOf
<1>8. through = next
  <2> DEFINE now == next
  <2>1. Complete(next, entry[next])
    <3>1. entry[next] = players
      BY <1>1, <1>7
    <3>2. \A c \in Client : Required(c, next) => c \in DOMAIN Entry(Host, next) \/ InGrace(c, next)
      BY <1>1 DEF WaitedOn
    <3> HIDE DEF entry
    <3> QED
      BY <1>6, <3>1, <3>2 DEF Complete
  <2>2. lastBroadcast..next = {clock[Host], next} /\ clock[Host] # next /\ clock[Host] + 1 = next
    BY <1>1
  <2> HIDE DEF next, entry
  <2>3. \A t \in lastBroadcast..next :
          (/\ \A u \in (lastBroadcast + 1)..t : Complete(u, entry[u])
           /\ t = next \/ ~Complete(t + 1, entry[t + 1])) => t = next
    BY <2>1, <2>2
  <2>4. /\ next \in lastBroadcast..next
        /\ \A u \in (lastBroadcast + 1)..next : Complete(u, entry[u])
    <3>1. \A u \in (lastBroadcast + 1)..next : u = next
      BY <1>1, <2>2
    <3> QED
      BY <2>1, <2>2, <3>1
  <2> QED
    BY <2>3, <2>4 DEF BroadcastThrough
<1>9. /\ lastBroadcast' = next
      /\ inbox' = [c \in Client |-> IF c \in Connected
                     THEN Append(inbox[c], Ruling(next, Filled(next, players), staged))
                     ELSE inbox[c]]
  <2> DEFINE new == Ruling(next, Filled(next, players), staged)
  <2>1. inbox \in [Client -> Seq(Msg)]
    BY DEF TInv, NetTypes
  <2>2. CASE Connected = {}
    <3>1. lastBroadcast' = Max2(lastBroadcast, next) /\ inbox' = inbox
      BY <1>4, <2>2
    <3>2. lastBroadcast' = next
      BY <1>1, <3>1 DEF Max2
    <3>3. inbox' = [c \in Client |-> IF c \in Connected THEN Append(inbox[c], new) ELSE inbox[c]]
      BY <2>1, <2>2, <3>1
    <3> QED
      BY <3>2, <3>3
  <2>3. CASE Connected # {}
    <3>1. lastBroadcast' = through /\ inbox' = Broadcast(inbox, rulings)
      BY <1>4, <2>3 DEF players
    <3>2. rulings = <<new>>
      <4>1. next - lastBroadcast = 1 /\ lastBroadcast + 1 = next
        BY <1>1
      <4>2. rulings = [i \in 1..1 |-> LET t == lastBroadcast + i
                         IN  Ruling(t, Filled(t, Lookup(ticks, t, Empty)), Lookup(rules, t, <<>>))]
        BY <1>8, <4>1, Zenon
      <4> HIDE DEF next, ticks, rules, staged, rulings
      <4>3. DOMAIN rulings = 1..1 /\ rulings[1] = new
        BY <1>7, <4>1, <4>2
      <4> QED
        BY <4>2, <4>3
    <3> HIDE DEF rulings, through, new
    <3>3. \A c \in Client : inbox[c] \o rulings = Append(inbox[c], new)
      BY <2>1, <3>2
    <3> QED
      BY <1>8, <3>1, <3>3, Zenon DEF Broadcast, new
  <2> QED
    BY <2>2, <2>3
<1>10. /\ clock' = [clock EXCEPT ![Host] = next] /\ roster' = [roster EXCEPT ![Host] = roster'[Host]]
       /\ ran' = [ran EXCEPT ![Host] =
            Put(ran[Host], next, Ran(players, staged, roster'[Host], paused'[Host]))]
  <2>1. RunTick(Host, next, players, staged)
    BY <1>4 DEF players
  <2>2. roster \in [Peer -> SUBSET Peer] /\ paused \in [Peer -> BOOLEAN]
    BY DEF TInv, LogTypes, FlagTypes
  <2>3. /\ roster' = [roster EXCEPT ![Host] = RosterAfter(roster[Host], staged)]
        /\ paused' = [paused EXCEPT ![Host] = PausedAfter(paused[Host], staged)]
        /\ clock' = [clock EXCEPT ![Host] = next]
        /\ ran' = [ran EXCEPT ![Host] = Put(ran[Host], next,
              Ran(players, staged, RosterAfter(roster[Host], staged), PausedAfter(paused[Host], staged)))]
    BY <2>1 DEF RunTick
  <2> HIDE DEF staged, next
  <2>4. roster'[Host] = RosterAfter(roster[Host], staged)
    BY <1>1, <2>2, <2>3
  <2>5. paused'[Host] = PausedAfter(paused[Host], staged)
    BY <1>1, <2>2, <2>3
  <2> QED
    BY <2>3, <2>4, <2>5, Zenon
<1>11. /\ tracker'[Host] = KeepFrom(IF players = Empty THEN tracker[Host] ELSE ticks, HostFloor(next))
       /\ system'[Host] = KeepFrom(IF staged = <<>> THEN system[Host] ELSE rules, HostFloor(next))
       /\ pendingJoin' = KeptJoins(next)
  <2>1. DOMAIN tracker = Peer /\ DOMAIN system = Peer
    BY DEF TInv, LogTypes
  <2> QED
    BY <1>1, <1>4, <2>1 DEF players
<1>12. /\ HostFloor(next) \in Nat /\ HostFloor(next) <= next
       /\ \A c \in DOMAIN pendingJoin' : c \in DOMAIN pendingJoin /\ pendingJoin'[c] = pendingJoin[c]
                                        /\ HostFloor(next) <= pendingJoin[c] + 1
  <2> DEFINE kept == KeptJoins(next)
             S == {kept[c] + 1 : c \in DOMAIN kept} \cup {next}
  <2>1. DOMAIN kept \subseteq DOMAIN pendingJoin /\ \A c \in DOMAIN kept : kept[c] = pendingJoin[c]
    BY DEF KeptJoins, RestrictValues, Restrict
  <2>2. \A c \in DOMAIN kept : kept[c] \in Nat
    BY <2>1 DEF TInv, HostTypes
  <2>3. S \in SUBSET Nat /\ S # {}
    BY <1>1, <2>2
  <2>4. HostFloor(next) = Min(S)
    BY DEF HostFloor
  <2>5. HostFloor(next) \in S /\ \A k \in S : HostFloor(next) <= k
    BY <2>3, <2>4, MinIs
  <2> QED
    BY <1>11, <2>1, <2>3, <2>5
<1>13. /\ DOMAIN tracker'[Host] \subseteq DOMAIN tracker[Host] \cup {next}
       /\ DOMAIN system'[Host] \subseteq DOMAIN system[Host] \cup {next}
       /\ \A t \in DOMAIN tracker'[Host] : tracker'[Host][t] \in Players
       /\ \A t \in DOMAIN system'[Host] : system'[Host][t] \in Seq(SysAct)
  <2>1. /\ \A t \in DOMAIN tracker[Host] : tracker[Host][t] \in Players
        /\ \A t \in DOMAIN system[Host] : system[Host][t] \in Seq(SysAct)
    BY <1>1 DEF TInv, LogTypes
  <2> HIDE DEF staged, next
  <2>2. \A t \in DOMAIN ticks : ticks[t] \in Players
    BY <1>6, <2>1 DEF Put
  <2>3. \A t \in DOMAIN rules : rules[t] \in Seq(SysAct)
    BY <1>3, <2>1 DEF Put
  <2> DEFINE f == IF players = Empty THEN tracker[Host] ELSE ticks
             g == IF staged = <<>> THEN system[Host] ELSE rules
  <2>4. DOMAIN f \subseteq DOMAIN tracker[Host] \cup {next} /\ \A t \in DOMAIN f : f[t] \in Players
    BY <1>7, <2>1, <2>2
  <2>5. DOMAIN g \subseteq DOMAIN system[Host] \cup {next} /\ \A t \in DOMAIN g : g[t] \in Seq(SysAct)
    BY <1>7, <2>1, <2>3
  <2>6. tracker'[Host] = KeepFrom(f, HostFloor(next)) /\ system'[Host] = KeepFrom(g, HostFloor(next))
    BY <1>11
  <2> HIDE DEF f, g
  <2>7. \A h : /\ DOMAIN KeepFrom(h, HostFloor(next)) \subseteq DOMAIN h
               /\ \A u \in DOMAIN KeepFrom(h, HostFloor(next)) : KeepFrom(h, HostFloor(next))[u] = h[u]
    BY KeepFromIs, Zenon
  <2>8. /\ DOMAIN tracker'[Host] \subseteq DOMAIN f
        /\ \A u \in DOMAIN tracker'[Host] : tracker'[Host][u] = f[u]
    BY <2>6, <2>7
  <2>9. /\ DOMAIN system'[Host] \subseteq DOMAIN g
        /\ \A u \in DOMAIN system'[Host] : system'[Host][u] = g[u]
    BY <2>6, <2>7
  <2> QED
    BY <2>4, <2>5, <2>8, <2>9
<1>14. ASSUME NEW t \in Nat, HostFloor(next) <= t
       PROVE  /\ Entry(Host, t)' = IF t = next THEN players ELSE Entry(Host, t)
              /\ SystemOf(Host, t)' = IF t = next THEN staged ELSE SystemOf(Host, t)
  <2>1. t >= HostFloor(next)
    BY <1>12, <1>14
  <2>2. Entry(Host, t)' = Lookup(tracker'[Host], t, Empty) /\ SystemOf(Host, t)' = Lookup(system'[Host], t, <<>>)
    BY DEF Entry, SystemOf
  <2>3. \A f, d : Lookup(KeepFrom(f, HostFloor(next)), t, d) = Lookup(f, t, d)
    BY <2>1, KeepFromIs, Zenon DEF Lookup
  <2>4. Lookup(tracker'[Host], t, Empty) = Lookup(IF players = Empty THEN tracker[Host] ELSE ticks, t, Empty)
    BY <1>11, <2>3
  <2>5. Lookup(system'[Host], t, <<>>) = Lookup(IF staged = <<>> THEN system[Host] ELSE rules, t, <<>>)
    BY <1>11, <2>3
  <2>6. players = Empty => Entry(Host, next) = Empty
    <3> SUFFICES ASSUME players = Empty PROVE Entry(Host, next) = Empty
      OBVIOUS
    <3>1. DOMAIN Entry(Host, next) = {}
      BY <1>6, PlayersAre, Zenon
    <3>2. Entry(Host, next) \in [{} -> Seq(Nat)] /\ Empty \in [{} -> Seq(Nat)]
      BY <1>5, <3>1, PlayersAre
    <3> QED
      BY <3>2
  <2>7. Lookup(tracker[Host], t, Empty) = Entry(Host, t) /\ Lookup(system[Host], t, <<>>) = SystemOf(Host, t)
    BY DEF Entry, SystemOf
  <2> HIDE DEF ticks, rules, staged, next
  <2> QED
    BY <1>3, <1>7, <2>2, <2>4, <2>5, <2>6, <2>7
<1>15. \A c \in DOMAIN pendingJoin' : \A t \in (pendingJoin[c] + 1)..next :
         /\ Entry(Host, t)' = IF t = next THEN players ELSE Entry(Host, t)
         /\ SystemOf(Host, t)' = IF t = next THEN staged ELSE SystemOf(Host, t)
  <2> SUFFICES ASSUME NEW c \in DOMAIN pendingJoin', NEW t \in (pendingJoin[c] + 1)..next
               PROVE  t \in Nat /\ HostFloor(next) <= t
    BY <1>14
  <2>1. pendingJoin[c] \in Nat
    BY <1>12 DEF TInv, HostTypes
  <2> QED
    BY <1>1, <1>12, <2>1
<1> HIDE DEF staged
<1>16. HostRuns(players, staged)
  BY <1>1, <1>3, <1>6, <1>9, <1>10, <1>11, <1>13, <1>15 DEF HostRuns
<1> QED
  BY <1>16

-----------------------------------------------------------------------------
(* THE INVARIANT *)

LEMMA Constants ==
  /\ Host \in Peer /\ Host \notin Client /\ Client \subseteq Peer /\ None \notin Nat
  /\ MaxTick \in Nat /\ HostBuffers \subseteq Nat \ {0} /\ Buffers \subseteq Nat /\ MenuClock \subseteq Nat
  /\ StartBuffer \in Buffers
BY BufferAssumption, PeerAssumption, BoundAssumption DEF Peer

LEMMA InitInv == Init => IInv
<1> SUFFICES ASSUME Init PROVE IInv
  OBVIOUS
<1> USE Constants DEF Init
<1>0. DOMAIN Empty = {} /\ clock[Host] = 0 /\ <<>> \in Seq(SysAct) /\ <<>> \in Seq(Nat)
      /\ <<>> \in Seq(Batch) /\ <<>> \in Seq(Shake) /\ <<>> \in Seq(Msg) /\ <<>> \in Seq(RulingMsg)
  BY DEF Empty
<1>1. HostTypes /\ NothingIsOwed
  <2>1. clock \in [Peer -> Nat]
    <3>1. MenuClock \cup {0} \subseteq Nat
      OBVIOUS
    <3>2. clock \in [Peer -> MenuClock \cup {0}]
      OBVIOUS
    <3> QED
      BY <3>1, <3>2, Zenon
  <2>2. joinedAt \in [Peer -> Nat \cup {None}]
    OBVIOUS
  <2> QED
    BY <1>0, <2>1, <2>2 DEF HostTypes, NothingIsOwed
<1>2. FlagTypes
  BY Zenon DEF FlagTypes
<1>3. LogTypes
  BY <1>0 DEF LogTypes
<1>4. ClientTypes
  BY <1>0 DEF ClientTypes
<1>5. NetTypes
  BY <1>0 DEF NetTypes
<1>6. HistoryTypes
  BY <1>0 DEF HistoryTypes
<1>7. Truth
  <2>1. RulingsAreTrue
    BY DEF RulingsAreTrue
  <2>2. HostKeeps
    BY <1>0 DEF HostKeeps
  <2>3. TrackersAreTrue /\ SameRulings
    BY <1>0 DEF TrackersAreTrue, SameRulings
  <2> QED
    BY <2>1, <2>2, <2>3 DEF Truth
<1> QED
  BY <1>1, <1>2, <1>3, <1>4, <1>5, <1>6, <1>7 DEF IInv, TInv

LEMMA HostTickInv == IInv /\ HostTick => IInv'
<1> SUFFICES ASSUME IInv, HostTick PROVE IInv'
  OBVIOUS
<1> USE Constants
<1>1. PICK players, staged : HostRuns(players, staged)
  BY HostTickRuns DEF IInv
<1> DEFINE next == clock[Host] + 1
           new == Ruling(next, Filled(next, players), staged)
<1>2. /\ next <= MaxTick /\ players \in Players /\ staged \in Seq(SysAct)
      /\ clock' = [clock EXCEPT ![Host] = next] /\ lastBroadcast' = next
      /\ ran' = [ran EXCEPT ![Host] =
           Put(ran[Host], next, Ran(players, staged, roster'[Host], paused'[Host]))]
      /\ inbox' = [c \in Client |-> IF c \in Connected THEN Append(inbox[c], new) ELSE inbox[c]]
      /\ pendingJoin' = KeptJoins(next)
  BY <1>1 DEF HostRuns
<1>3. /\ DOMAIN tracker'[Host] \subseteq DOMAIN tracker[Host] \cup {next}
      /\ DOMAIN system'[Host] \subseteq DOMAIN system[Host] \cup {next}
      /\ \A t \in DOMAIN tracker'[Host] : tracker'[Host][t] \in Players
      /\ \A t \in DOMAIN system'[Host] : system'[Host][t] \in Seq(SysAct)
      /\ \A c \in DOMAIN pendingJoin' : \A t \in (pendingJoin[c] + 1)..next :
           /\ Entry(Host, t)' = IF t = next THEN players ELSE Entry(Host, t)
           /\ SystemOf(Host, t)' = IF t = next THEN staged ELSE SystemOf(Host, t)
  BY <1>1 DEF HostRuns
<1>4. /\ announced' = announced \cup Joining(next) /\ departures' = <<>> /\ asked' = {}
      /\ joinedAt' = joinedAt /\ hostBuffer' = hostBuffer /\ resumeStaged' = FALSE
      /\ UNCHANGED <<clientVars, batches, handshake>>
      /\ \E k : tracker' = [tracker EXCEPT ![Host] = k]
      /\ \E k : system' = [system EXCEPT ![Host] = k]
      /\ \E k : sent' = [sent EXCEPT ![Host] = IF k = <<>> THEN @ ELSE Append(@, next)]
  BY Zenon DEF HostTick, Stage
<1>5. \E ps, as : RunTick(Host, next, ps, as)
  BY DEF HostTick
<1>6. /\ clock \in [Peer -> Nat] /\ clock[Host] \in Nat /\ next \in Nat /\ next \in 1..MaxTick
      /\ DOMAIN tracker = Peer /\ DOMAIN system = Peer /\ DOMAIN ran = Peer
      /\ DOMAIN ran[Host] = 1..clock[Host] /\ clock'[Host] = next
  BY <1>2 DEF IInv, TInv, HostTypes, LogTypes, HistoryTypes
<1>7. /\ \A p \in Client : tracker'[p] = tracker[p] /\ system'[p] = system[p] /\ ran'[p] = ran[p]
                         /\ clock'[p] = clock[p]
      /\ DOMAIN tracker' = Peer /\ DOMAIN system' = Peer /\ DOMAIN ran' = Peer
  BY <1>2, <1>4, <1>6
<1>8. /\ DOMAIN ran'[Host] = 1..next
      /\ \A t \in 1..clock[Host] : ran'[Host][t] = ran[Host][t]
      /\ ran'[Host][next].players = Acted(players) /\ ran'[Host][next].system = staged
  <2> DEFINE r == Ran(players, staged, roster'[Host], paused'[Host])
  <2>1. r.players = Acted(players) /\ r.system = staged
    BY DEF Ran, Acted
  <2> HIDE DEF r
  <2>2. ran'[Host] = Put(ran[Host], next, r)
    BY <1>2, <1>6 DEF r
  <2>3. DOMAIN ran'[Host] = DOMAIN ran[Host] \cup {next} /\ ran'[Host][next] = r
        /\ \A t \in DOMAIN ran[Host] : t # next => ran'[Host][t] = ran[Host][t]
    BY <2>2 DEF Put
  <2>4. DOMAIN ran[Host] \cup {next} = 1..next /\ \A t \in DOMAIN ran[Host] : t # next
    BY <1>6
  <2> QED
    BY <1>6, <2>1, <2>3, <2>4
<1>9. new \in RulingMsg
  BY <1>2, <1>6, FilledPlayers DEF RulingMsg, Ruling
<1>10. TInv'
  <2>1. HostTypes' /\ NothingIsOwed'
    <3>1. clock' \in [Peer -> Nat] /\ clock'[Host] <= MaxTick
      BY <1>2, <1>6
    <3>2. announced' \subseteq Peer /\ departures' \in Seq(SysAct) /\ asked' \subseteq {"pause", "resume"}
      BY <1>4 DEF IInv, TInv, HostTypes, Joining
    <3>3. /\ DOMAIN pendingJoin' \subseteq DOMAIN pendingJoin
          /\ \A c \in DOMAIN pendingJoin' : pendingJoin'[c] = pendingJoin[c]
      BY <1>2 DEF KeptJoins, RestrictValues, Restrict
    <3>4. \A c \in DOMAIN pendingJoin' : pendingJoin'[c] \in Nat /\ pendingJoin'[c] <= clock'[Host]
      BY <1>6, <3>3 DEF IInv, TInv, HostTypes
    <3> QED
      BY <1>2, <1>4, <1>6, <3>1, <3>2, <3>3, <3>4 DEF IInv, TInv, HostTypes, NothingIsOwed
  <2>2. FlagTypes'
    <3>1. PICK ps, as : RunTick(Host, next, ps, as)
      BY <1>5, Zenon
    <3>2. paused' = [paused EXCEPT ![Host] = PausedAfter(paused[Host], as)]
      BY <3>1 DEF RunTick
    <3>3. PausedAfter(paused[Host], as) \in BOOLEAN
      BY Zenon DEF PausedAfter, IInv, TInv, FlagTypes
    <3> QED
      BY <1>4, <3>2, <3>3, Zenon DEF IInv, TInv, FlagTypes
  <2>3. LogTypes'
    <3>1. roster' \in [Peer -> SUBSET Peer]
      <4>1. PICK ps, as : RunTick(Host, next, ps, as)
        BY <1>5, Zenon
      <4>2. roster' = [roster EXCEPT ![Host] = RosterAfter(roster[Host], as)]
        BY <4>1 DEF RunTick
      <4>3. RosterAfter(roster[Host], as) \in SUBSET Peer
        BY Zenon DEF RosterAfter
      <4> QED
        BY <4>2, <4>3, Zenon DEF IInv, TInv, LogTypes
    <3>2. DOMAIN tracker'[Host] \subseteq Nat /\ DOMAIN system'[Host] \subseteq Nat
      BY <1>3, <1>6 DEF IInv, TInv, LogTypes
    <3>3. ASSUME NEW p \in Peer
          PROVE  /\ DOMAIN tracker'[p] \subseteq Nat /\ DOMAIN system'[p] \subseteq Nat
                 /\ \A t \in DOMAIN tracker'[p] : tracker'[p][t] \in Players
                 /\ \A t \in DOMAIN system'[p] : system'[p][t] \in Seq(SysAct)
      <4>1. CASE p = Host
        BY <1>3, <3>2, <4>1
      <4>2. CASE p # Host
        <5>1. p \in Client
          BY <4>2 DEF Peer
        <5> QED
          BY <1>7, <5>1 DEF IInv, TInv, LogTypes
      <4> QED
        BY <4>1, <4>2
    <3> QED
      BY <1>7, <3>1, <3>3 DEF LogTypes
  <2>4. ClientTypes'
    BY <1>4 DEF IInv, TInv, ClientTypes, clientVars
  <2>5. NetTypes'
    <3>1. inbox \in [Client -> Seq(Msg)] /\ new \in Msg /\ new.type = "ruling"
      BY <1>9 DEF IInv, TInv, NetTypes, Msg, RulingMsg
    <3> HIDE DEF new
    <3>2. inbox' \in [Client -> Seq(Msg)]
      BY <1>2, <3>1
    <3>3. ASSUME NEW c \in Client, NEW i \in DOMAIN inbox'[c], inbox'[c][i].type = "snapshot"
          PROVE  inbox'[c][i].tick <= MaxTick
      <4>1. i \in DOMAIN inbox[c] /\ inbox'[c][i] = inbox[c][i]
        BY <1>2, <3>1, <3>3
      <4> QED
        BY <3>3, <4>1 DEF IInv, TInv, NetTypes
    <3> QED
      BY <1>4, <3>2, <3>3 DEF IInv, TInv, NetTypes
  <2>6. HistoryTypes'
    <3>1. sent' \in [Peer -> Seq(Nat)]
      BY <1>4, <1>6 DEF IInv, TInv, HistoryTypes
    <3>2. \A p \in Peer : DOMAIN ran'[p] \subseteq 1..MaxTick
      BY <1>2, <1>6, <1>7, <1>8 DEF IInv, TInv, HistoryTypes, Peer
    <3> QED
      BY <1>6, <1>7, <1>8, <3>1, <3>2 DEF IInv, TInv, HistoryTypes
  <2> QED
    BY <2>1, <2>2, <2>3, <2>4, <2>5, <2>6 DEF TInv
<1>11. \A m : IsTrue(m, clock[Host], ran[Host]) => IsTrue(m, next, ran'[Host])
  BY <1>6, <1>8 DEF IsTrue
<1>12. IsTrue(new, next, ran'[Host])
  <2>1. new.tick = next /\ new.players = Filled(next, players) /\ new.system = staged
    BY DEF Ruling
  <2>2. Acted(Filled(next, players)) = Acted(players)
    BY FilledActs
  <2> HIDE DEF new
  <2> QED
    BY <1>6, <1>8, <2>1, <2>2 DEF IsTrue
<1>13. RulingsAreTrue'
  <2>1. inbox \in [Client -> Seq(Msg)] /\ stash' = stash
    BY <1>4 DEF IInv, TInv, NetTypes, clientVars
  <2>2. ASSUME NEW c \in Client, NEW i \in DOMAIN inbox'[c]
        PROVE  IsTrue(inbox'[c][i], next, ran'[Host])
    <3>1. (i \in DOMAIN inbox[c] /\ inbox'[c][i] = inbox[c][i]) \/ inbox'[c][i] = new
      <4> HIDE DEF new
      <4> QED
        BY <1>2, <2>1, <2>2
    <3> HIDE DEF new
    <3>2. i \in DOMAIN inbox[c] => IsTrue(inbox[c][i], clock[Host], ran[Host])
      BY DEF IInv, Truth, RulingsAreTrue
    <3> QED
      BY <1>11, <1>12, <3>1, <3>2
  <2>3. ASSUME NEW c \in Client, NEW i \in DOMAIN stash'[c]
        PROVE  IsTrue(stash'[c][i], next, ran'[Host])
    <3>1. IsTrue(stash[c][i], clock[Host], ran[Host]) /\ stash'[c][i] = stash[c][i]
      BY <2>1, <2>3 DEF IInv, Truth, RulingsAreTrue
    <3> QED
      BY <1>11, <3>1
  <2> QED
    BY <1>6, <2>2, <2>3 DEF RulingsAreTrue
<1>14. HostKeeps'
  <2> SUFFICES ASSUME NEW c \in DOMAIN pendingJoin', NEW t \in (pendingJoin'[c] + 1)..next
              PROVE  /\ Acted(Entry(Host, t)') = ran'[Host][t].players
                     /\ SystemOf(Host, t)' = ran'[Host][t].system
    BY <1>6 DEF HostKeeps
  <2>1. c \in DOMAIN pendingJoin /\ pendingJoin'[c] = pendingJoin[c] /\ pendingJoin[c] \in Nat
    BY <1>2 DEF KeptJoins, RestrictValues, Restrict, IInv, TInv, HostTypes
  <2>2. /\ Entry(Host, t)' = IF t = next THEN players ELSE Entry(Host, t)
        /\ SystemOf(Host, t)' = IF t = next THEN staged ELSE SystemOf(Host, t)
    BY <1>3, <2>1
  <2>3. CASE t = next
    BY <1>8, <2>2, <2>3
  <2>4. CASE t # next
    <3>1. t \in (pendingJoin[c] + 1)..clock[Host] /\ t \in 1..clock[Host]
      BY <1>6, <2>1, <2>4
    <3> QED
      BY <1>8, <2>1, <2>2, <2>4, <3>1 DEF IInv, Truth, HostKeeps
  <2> QED
    BY <2>3, <2>4
<1>15. TrackersAreTrue'
  <2> SUFFICES ASSUME NEW c \in Client
              PROVE  /\ \A t \in DOMAIN tracker'[c] : /\ t \in 1..clock'[Host]
                                                     /\ Acted(tracker'[c][t]) = ran'[Host][t].players
                                                     /\ SystemOf(c, t)' = ran'[Host][t].system
                     /\ \A t \in DOMAIN system'[c] : t \in 1..clock'[Host] /\ system'[c][t] = ran'[Host][t].system
    BY DEF TrackersAreTrue
  <2>1. tracker'[c] = tracker[c] /\ system'[c] = system[c] /\ \A t : SystemOf(c, t)' = SystemOf(c, t)
    BY <1>7 DEF SystemOf
  <2>2. \A t \in 1..clock[Host] : t \in 1..clock'[Host] /\ ran'[Host][t] = ran[Host][t]
    BY <1>6, <1>8
  <2> QED
    BY <2>1, <2>2 DEF IInv, Truth, TrackersAreTrue
<1>16. SameRulings'
  <2> SUFFICES ASSUME NEW c \in Client, NEW t \in DOMAIN ran'[c]
              PROVE  /\ t \in DOMAIN ran'[Host] /\ ran'[c][t].players = ran'[Host][t].players
                     /\ ran'[c][t].system = ran'[Host][t].system
    BY DEF SameRulings
  <2>1. /\ t \in DOMAIN ran[Host] /\ ran[c][t].players = ran[Host][t].players
        /\ ran[c][t].system = ran[Host][t].system /\ ran'[c] = ran[c]
    BY <1>7 DEF IInv, Truth, SameRulings
  <2>2. t \in 1..clock[Host] /\ t \in 1..next
    BY <1>6, <2>1
  <2> QED
    BY <1>8, <2>1, <2>2
<1> QED
  BY <1>10, <1>13, <1>14, <1>15, <1>16 DEF IInv, Truth

-----------------------------------------------------------------------------
(* THE OTHER STEPS *)

(* What a step leaves that touches no tracker, no ruling on its way and      *)
(* nothing that was run.                                                     *)
LEMMA TruthKept ==
  ASSUME Truth, UNCHANGED <<tracker, system, inbox, stash, ran>>, clock'[Host] = clock[Host],
         \A c \in DOMAIN pendingJoin' : c \in DOMAIN pendingJoin /\ pendingJoin'[c] = pendingJoin[c]
  PROVE  Truth'
<1>1. RulingsAreTrue'
  BY DEF Truth, RulingsAreTrue
<1>2. HostKeeps'
  BY DEF Truth, HostKeeps, Entry, SystemOf
<1>3. TrackersAreTrue'
  BY DEF Truth, TrackersAreTrue, SystemOf
<1>4. SameRulings'
  BY DEF Truth, SameRulings
<1> QED
  BY <1>1, <1>2, <1>3, <1>4 DEF Truth

LEMMA ResizeInv ==
  ASSUME IInv, ResizeHost \/ \E c \in Client : Resize(c)
  PROVE  IInv'
<1> USE Constants DEF vars, hostVars, pauseVars, clientVars, netVars, worldVars
<1>1. CASE ResizeHost
  <2>1. /\ UNCHANGED <<joinedAt, announced, departures, pendingJoin, lastBroadcast, pauseVars,
                       clientVars, netVars, worldVars>>
        /\ hostBuffer' \in HostBuffers
    BY <1>1 DEF ResizeHost
  <2>2. TInv'
    BY <2>1, Zenon DEF IInv, TInv, HostTypes, NothingIsOwed, FlagTypes, LogTypes, ClientTypes, NetTypes, HistoryTypes
  <2> QED
    BY <2>1, <2>2, TruthKept DEF IInv
<1>2. CASE \E c \in Client : Resize(c)
  <2>0. PICK c \in Client : Resize(c)
    BY <1>2
  <2>1. /\ UNCHANGED <<hostVars, pauseVars, stage, given, stash, lastScheduled, joins, netVars, worldVars>>
        /\ buffer' \in [Client -> Buffers]
    <3>1. PICK b \in Buffers : buffer' = [buffer EXCEPT ![c] = b]
      BY <2>0, Zenon DEF Resize
    <3> QED
      BY <2>0, <3>1 DEF Resize, IInv, TInv, ClientTypes
  <2>2. TInv'
    BY <2>1, Zenon DEF IInv, TInv, HostTypes, NothingIsOwed, FlagTypes, LogTypes, ClientTypes, NetTypes, HistoryTypes
  <2> QED
    BY <2>1, <2>2, TruthKept DEF IInv
<1> QED
  BY <1>1, <1>2

LEMMA AskInv ==
  ASSUME IInv, NEW what \in {"pause", "resume"}, Ask(what)
  PROVE  IInv'
<1> USE Constants DEF vars, hostVars, pauseVars, clientVars, netVars, worldVars
<1>1. /\ UNCHANGED <<hostVars, resumeStaged, clientVars, netVars, worldVars>>
      /\ asked' \subseteq {"pause", "resume"}
  BY DEF Ask, IInv, TInv, HostTypes
<1>2. TInv'
  BY <1>1, Zenon DEF IInv, TInv, HostTypes, NothingIsOwed, FlagTypes, LogTypes, ClientTypes, NetTypes, HistoryTypes
<1>3. Truth'
  BY <1>1, TruthKept DEF IInv
<1> QED
  BY <1>2, <1>3 DEF IInv

(* A held pass stages for the tick that waits, which nobody has run.         *)
LEMMA HostHeldPassInv == IInv /\ HostHeldPass => IInv'
<1> SUFFICES ASSUME IInv, HostHeldPass PROVE IInv'
  OBVIOUS
<1> USE Constants
<1> DEFINE next == clock[Host] + 1
           new == StageInto(SystemOf(Host, next), Staged(next))
<1>1. /\ announced' = announced \cup Joining(next) /\ departures' = <<>> /\ asked' = {}
      /\ UNCHANGED <<joinedAt, hostBuffer, clientVars, netVars, clock, tracker, roster, paused, ran, sent,
                     pendingJoin, lastBroadcast>>
      /\ resumeStaged' = (resumeStaged \/ Resuming)
      /\ system' = system \/ system' = [system EXCEPT ![Host] = Put(@, next, new)]
  BY DEF HostHeldPass, Stage
<1>2. clock[Host] \in Nat /\ next \in Nat /\ DOMAIN system = Peer
  BY DEF IInv, TInv, HostTypes, LogTypes
<1>3. new \in Seq(SysAct)
  <2>1. <<>> \in Seq(SysAct)
    OBVIOUS
  <2>2. SystemOf(Host, next) \in Seq(SysAct) /\ Staged(next) \in Seq(SysAct)
    BY <1>2, <2>1, StagedIs, Zenon DEF IInv, TInv, LogTypes, SystemOf, Lookup
  <2> QED
    BY <2>2 DEF StageInto
<1> HIDE DEF new
<1>4. /\ DOMAIN system' = Peer /\ \A p \in Client : system'[p] = system[p]
      /\ DOMAIN system'[Host] \subseteq DOMAIN system[Host] \cup {next}
      /\ \A t \in DOMAIN system'[Host] : system'[Host][t] \in Seq(SysAct)
      /\ \A t \in 1..clock[Host] : SystemOf(Host, t)' = SystemOf(Host, t)
  <2>1. CASE system' = system
    BY <1>2, <2>1 DEF IInv, TInv, LogTypes, SystemOf
  <2>2. CASE system' = [system EXCEPT ![Host] = Put(@, next, new)]
    <3>1. system'[Host] = Put(system[Host], next, new) /\ DOMAIN system' = Peer
      BY <1>2, <2>2
    <3>2. \A p \in Client : system'[p] = system[p]
      BY <1>2, <2>2
    <3>3. \A t \in DOMAIN system[Host] : system[Host][t] \in Seq(SysAct)
      BY DEF IInv, TInv, LogTypes
    <3>4. \A t \in DOMAIN system'[Host] : system'[Host][t] \in Seq(SysAct)
      BY <1>3, <3>1, <3>3 DEF Put
    <3>5. \A t \in 1..clock[Host] : SystemOf(Host, t)' = SystemOf(Host, t)
      BY <1>2, <3>1 DEF SystemOf, Lookup, Put
    <3>6. DOMAIN system'[Host] \subseteq DOMAIN system[Host] \cup {next}
      BY <3>1 DEF Put
    <3> QED
      BY <3>1, <3>2, <3>4, <3>5, <3>6
  <2> QED
    BY <1>1, <2>1, <2>2
<1>5. TInv'
  <2>1. HostTypes' /\ NothingIsOwed'
    BY <1>1 DEF IInv, TInv, HostTypes, NothingIsOwed, Joining
  <2>2. FlagTypes'
    BY <1>1 DEF IInv, TInv, FlagTypes, Resuming
  <2>3. LogTypes'
    BY <1>1, <1>2, <1>4 DEF IInv, TInv, LogTypes, Peer
  <2>4. ClientTypes' /\ NetTypes' /\ HistoryTypes'
    BY <1>1 DEF IInv, TInv, ClientTypes, NetTypes, HistoryTypes, clientVars, netVars
  <2> QED
    BY <2>1, <2>2, <2>3, <2>4 DEF TInv
<1>6. Truth'
  <2>1. RulingsAreTrue' /\ SameRulings'
    BY <1>1 DEF IInv, Truth, RulingsAreTrue, SameRulings, clientVars, netVars
  <2>2. HostKeeps'
    <3> SUFFICES ASSUME NEW c \in DOMAIN pendingJoin, NEW t \in (pendingJoin[c] + 1)..clock[Host]
                PROVE  /\ Acted(Entry(Host, t)) = ran[Host][t].players
                       /\ SystemOf(Host, t)' = ran[Host][t].system
      BY <1>1 DEF HostKeeps, Entry
    <3>1. t \in 1..clock[Host]
      BY <1>2 DEF IInv, TInv, HostTypes
    <3> QED
      BY <1>4, <3>1 DEF IInv, Truth, HostKeeps
  <2>3. TrackersAreTrue'
    BY <1>1, <1>4 DEF IInv, Truth, TrackersAreTrue, SystemOf
  <2> QED
    BY <2>1, <2>2, <2>3 DEF Truth
<1> QED
  BY <1>5, <1>6 DEF IInv

(* A batch is filed under a tick nobody has run.                             *)
LEMMA HostReceiveBatchInv ==
  ASSUME IInv, NEW c \in Client, HostReceiveBatch(c)
  PROVE  IInv'
<1> USE Constants
<1> DEFINE batch == Head(batches[c])
           t == batch.tick
           new == Scheduled(Entry(Host, t), c, batch.actions)
<1>1. /\ batches[c] # <<>> /\ batches' = [batches EXCEPT ![c] = Tail(@)]
      /\ tracker' = IF Accepts(c, t) THEN [tracker EXCEPT ![Host] = Put(@, t, new)] ELSE tracker
      /\ UNCHANGED <<hostVars, pauseVars, clientVars, handshake, inbox, clock, system, roster,
                     paused, ran, sent>>
  BY DEF HostReceiveBatch
<1>2. batches[c] \in Seq(Batch) /\ batch \in Batch /\ t \in Nat /\ batch.actions \in Seq(Nat)
  <2>1. batches[c] \in Seq(Batch)
    BY DEF IInv, TInv, NetTypes
  <2>2. batch \in Batch
    BY <1>1, <2>1
  <2> QED
    BY <2>1, <2>2 DEF Batch
<1>3. clock[Host] \in Nat /\ DOMAIN tracker = Peer /\ (Accepts(c, t) => t > clock[Host])
  BY <1>2 DEF IInv, TInv, HostTypes, NothingIsOwed, LogTypes, Accepts, RuledThrough, Max2
<1>4. new \in Players
  <2>1. Entry(Host, t) \in Players
    BY <1>2, PlayersAre DEF IInv, TInv, LogTypes, Entry, Lookup
  <2>2. \A e \in Players : Lookup(e, c, <<>>) \in Seq(Nat)
    <3>1. <<>> \in Seq(Nat)
      OBVIOUS
    <3> QED
      BY <3>1, PlayersAre DEF Lookup
  <2> HIDE DEF t, batch
  <2> DEFINE e == Entry(Host, t)
             a == Lookup(e, c, <<>>) \o batch.actions
  <2>3. a \in Seq(Nat)
    BY <1>2, <2>1, <2>2
  <2>4. new = Put(e, c, a)
    BY DEF Scheduled
  <2> HIDE DEF e, a, new
  <2>5. e \in Players
    BY <2>1 DEF e
  <2> QED
    BY <2>3, <2>4, <2>5, PutPlayers
<1> HIDE DEF new, t
<1>5. /\ DOMAIN tracker' = Peer /\ \A p \in Client : tracker'[p] = tracker[p]
      /\ DOMAIN tracker'[Host] \subseteq DOMAIN tracker[Host] \cup {t}
      /\ \A u \in DOMAIN tracker'[Host] : tracker'[Host][u] \in Players
      /\ \A u \in 1..clock[Host] : Entry(Host, u)' = Entry(Host, u)
  <2>1. CASE ~Accepts(c, t)
    BY <1>1, <1>3, <2>1 DEF IInv, TInv, LogTypes, Entry
  <2>2. CASE Accepts(c, t)
    <3>1. tracker'[Host] = Put(tracker[Host], t, new) /\ DOMAIN tracker' = Peer
      BY <1>1, <1>3, <2>2
    <3>2. \A p \in Client : tracker'[p] = tracker[p]
      BY <1>1, <1>3, <2>2
    <3>3. \A u \in DOMAIN tracker[Host] : tracker[Host][u] \in Players
      BY DEF IInv, TInv, LogTypes
    <3>4. \A u \in DOMAIN tracker'[Host] : tracker'[Host][u] \in Players
      BY <1>4, <3>1, <3>3 DEF Put
    <3>5. \A u \in 1..clock[Host] : Entry(Host, u)' = Entry(Host, u)
      BY <1>2, <1>3, <2>2, <3>1 DEF Entry, Lookup, Put
    <3>6. DOMAIN tracker'[Host] \subseteq DOMAIN tracker[Host] \cup {t}
      BY <3>1 DEF Put
    <3> QED
      BY <3>1, <3>2, <3>4, <3>5, <3>6
  <2> QED
    BY <2>1, <2>2
<1>6. TInv'
  <2>1. LogTypes'
    BY <1>1, <1>2, <1>5 DEF IInv, TInv, LogTypes, Peer
  <2>2. NetTypes'
    <3>1. Tail(batches[c]) \in Seq(Batch)
      BY <1>1, <1>2
    <3> QED
      BY <1>1, <3>1 DEF IInv, TInv, NetTypes
  <2>3. HostTypes' /\ NothingIsOwed' /\ FlagTypes' /\ ClientTypes' /\ HistoryTypes'
    BY <1>1, Zenon DEF IInv, TInv, HostTypes, NothingIsOwed, FlagTypes, ClientTypes, HistoryTypes, hostVars,
         pauseVars, clientVars
  <2> QED
    BY <2>1, <2>2, <2>3 DEF TInv
<1>7. Truth'
  <2>1. RulingsAreTrue' /\ SameRulings'
    BY <1>1 DEF IInv, Truth, RulingsAreTrue, SameRulings, clientVars
  <2>2. HostKeeps'
    <3> SUFFICES ASSUME NEW d \in DOMAIN pendingJoin, NEW u \in (pendingJoin[d] + 1)..clock[Host]
                PROVE  /\ Acted(Entry(Host, u)') = ran[Host][u].players
                       /\ SystemOf(Host, u) = ran[Host][u].system
      BY <1>1 DEF HostKeeps, SystemOf, hostVars
    <3>1. u \in 1..clock[Host]
      BY <1>3 DEF IInv, TInv, HostTypes
    <3> QED
      BY <1>5, <3>1 DEF IInv, Truth, HostKeeps
  <2>3. TrackersAreTrue'
    BY <1>1, <1>5 DEF IInv, Truth, TrackersAreTrue, SystemOf
  <2> QED
    BY <2>1, <2>2, <2>3 DEF Truth
<1> QED
  BY <1>6, <1>7 DEF IInv

(* What one client does to itself is true if what it holds afterwards is.    *)
LEMMA OneClientMoves ==
  ASSUME Truth, NEW c \in Client,
         clock'[Host] = clock[Host], ran'[Host] = ran[Host], tracker'[Host] = tracker[Host],
         system'[Host] = system[Host],
         \A d \in DOMAIN pendingJoin' : d \in DOMAIN pendingJoin /\ pendingJoin'[d] = pendingJoin[d],
         \A d \in Client \ {c} : /\ tracker'[d] = tracker[d] /\ system'[d] = system[d]
                                 /\ ran'[d] = ran[d] /\ stash'[d] = stash[d] /\ inbox'[d] = inbox[d],
         \A i \in DOMAIN inbox'[c] : IsTrue(inbox'[c][i], clock[Host], ran[Host]),
         \A i \in DOMAIN stash'[c] : IsTrue(stash'[c][i], clock[Host], ran[Host]),
         \A t \in DOMAIN tracker'[c] : /\ t \in 1..clock[Host]
                                       /\ Acted(tracker'[c][t]) = ran[Host][t].players
                                       /\ Lookup(system'[c], t, <<>>) = ran[Host][t].system,
         \A t \in DOMAIN system'[c] : t \in 1..clock[Host] /\ system'[c][t] = ran[Host][t].system,
         \A t \in DOMAIN ran'[c] : /\ t \in DOMAIN ran[Host]
                                   /\ ran'[c][t].players = ran[Host][t].players
                                   /\ ran'[c][t].system = ran[Host][t].system
  PROVE  Truth'
<1>1. RulingsAreTrue'
  <2> SUFFICES ASSUME NEW d \in Client
               PROVE  /\ \A i \in DOMAIN inbox'[d] : IsTrue(inbox'[d][i], clock[Host], ran[Host])
                      /\ \A i \in DOMAIN stash'[d] : IsTrue(stash'[d][i], clock[Host], ran[Host])
    BY DEF RulingsAreTrue
  <2>1. CASE d = c
    BY <2>1
  <2>2. CASE d # c
    BY <2>2 DEF Truth, RulingsAreTrue
  <2> QED
    BY <2>1, <2>2
<1>2. HostKeeps'
  BY DEF Truth, HostKeeps, Entry, SystemOf
<1>3. TrackersAreTrue'
  <2> SUFFICES ASSUME NEW d \in Client
               PROVE  /\ \A t \in DOMAIN tracker'[d] : /\ t \in 1..clock[Host]
                                                       /\ Acted(tracker'[d][t]) = ran[Host][t].players
                                                       /\ Lookup(system'[d], t, <<>>) = ran[Host][t].system
                      /\ \A t \in DOMAIN system'[d] : t \in 1..clock[Host] /\ system'[d][t] = ran[Host][t].system
    BY DEF TrackersAreTrue, SystemOf
  <2>1. CASE d = c
    BY <2>1
  <2>2. CASE d # c
    BY <2>2 DEF Truth, TrackersAreTrue, SystemOf
  <2> QED
    BY <2>1, <2>2
<1>4. SameRulings'
  <2> SUFFICES ASSUME NEW d \in Client, NEW t \in DOMAIN ran'[d]
               PROVE  /\ t \in DOMAIN ran[Host] /\ ran'[d][t].players = ran[Host][t].players
                      /\ ran'[d][t].system = ran[Host][t].system
    BY DEF SameRulings
  <2>1. CASE d = c
    BY <2>1
  <2>2. CASE d # c
    BY <2>2 DEF Truth, SameRulings
  <2> QED
    BY <2>1, <2>2
<1> QED
  BY <1>1, <1>2, <1>3, <1>4 DEF Truth

(* Taking the first message leaves true ones.                                *)
LEMMA TailIsTrue ==
  ASSUME NEW ms, ms # <<>>, NEW S, ms \in Seq(S), NEW now, NEW history,
         \A i \in DOMAIN ms : IsTrue(ms[i], now, history)
  PROVE  /\ \A i \in DOMAIN Tail(ms) : i + 1 \in DOMAIN ms /\ Tail(ms)[i] = ms[i + 1]
         /\ \A i \in DOMAIN Tail(ms) : IsTrue(Tail(ms)[i], now, history)
         /\ IsTrue(Head(ms), now, history) /\ Head(ms) \in S /\ Tail(ms) \in Seq(S)
<1>1. Len(ms) \in Nat /\ Len(ms) >= 1 /\ DOMAIN ms = 1..Len(ms)
  OBVIOUS
<1>2. \A i \in DOMAIN Tail(ms) : i + 1 \in DOMAIN ms /\ Tail(ms)[i] = ms[i + 1]
  BY <1>1
<1>3. Head(ms) = ms[1] /\ 1 \in DOMAIN ms /\ ms[1] \in S /\ Tail(ms) \in Seq(S)
  BY <1>1
<1> QED
  BY <1>2, <1>3

(* Rulings that are the host's leave a tracker with the host's.              *)
LEMMA ApplyIsTrue ==
  ASSUME IInv, NEW c \in Client, NEW ms \in Seq(RulingMsg),
         \A i \in DOMAIN ms : IsTrue(ms[i], clock[Host], ran[Host]),
         Apply(c, ms), roster' = roster
  PROVE  /\ LogTypes'
         /\ \A p \in Peer \ {c} : tracker'[p] = tracker[p] /\ system'[p] = system[p]
         /\ \A t \in DOMAIN tracker'[c] : /\ t \in 1..clock[Host]
                                          /\ Acted(tracker'[c][t]) = ran[Host][t].players
                                          /\ Lookup(system'[c], t, <<>>) = ran[Host][t].system
         /\ \A t \in DOMAIN system'[c] : t \in 1..clock[Host] /\ system'[c][t] = ran[Host][t].system
         /\ DOMAIN tracker'[c] = DOMAIN tracker[c] \cup {ms[i].tick : i \in DOMAIN ms}
<1> USE Constants
<1> DEFINE f == ApplyRulings(tracker[c], ms)
           g == ApplySystem(system[c], ms)
<1>1. /\ DOMAIN tracker = Peer /\ DOMAIN system = Peer /\ c \in Peer
      /\ tracker' = [tracker EXCEPT ![c] = f] /\ system' = [system EXCEPT ![c] = g]
  BY DEF IInv, TInv, LogTypes, Apply
<1>2. /\ \A t \in DOMAIN tracker[c] : /\ tracker[c][t] \in Players /\ t \in 1..clock[Host]
                                      /\ Acted(tracker[c][t]) = ran[Host][t].players
                                      /\ Lookup(system[c], t, <<>>) = ran[Host][t].system
      /\ \A t \in DOMAIN system[c] : /\ system[c][t] \in Seq(SysAct) /\ t \in 1..clock[Host]
                                     /\ system[c][t] = ran[Host][t].system
  BY <1>1 DEF IInv, TInv, LogTypes, Truth, TrackersAreTrue, SystemOf
<1>3. \A i \in DOMAIN ms : /\ ms[i].tick \in 1..clock[Host] /\ Acted(ms[i].players) = ran[Host][ms[i].tick].players
                          /\ ms[i].system = ran[Host][ms[i].tick].system /\ ms[i].system \in Seq(SysAct)
  <2> SUFFICES ASSUME NEW i \in DOMAIN ms
               PROVE  /\ ms[i].tick \in 1..clock[Host] /\ Acted(ms[i].players) = ran[Host][ms[i].tick].players
                      /\ ms[i].system = ran[Host][ms[i].tick].system /\ ms[i].system \in Seq(SysAct)
    OBVIOUS
  <2>1. ms[i] \in RulingMsg
    OBVIOUS
  <2>2. ms[i].type = "ruling" /\ ms[i].system \in Seq(SysAct)
    BY <2>1 DEF RulingMsg
  <2> QED
    BY <2>2 DEF IsTrue
<1>4. /\ DOMAIN f = DOMAIN tracker[c] \cup {ms[i].tick : i \in DOMAIN ms}
      /\ \A t \in DOMAIN f : f[t] \in Players
      /\ \A t \in DOMAIN f : Acted(f[t]) = ran[Host][t].players
  <2> DEFINE T == tracker[c]
             h == ran[Host]
  <2>1. HoldTheHistory(T, ms, h)
    BY <1>2, <1>3 DEF HoldTheHistory, Holds
  <2> HIDE DEF T, h
  <2>2. /\ DOMAIN ApplyRulings(T, ms) = DOMAIN T \cup {ms[i].tick : i \in DOMAIN ms}
        /\ \A t \in DOMAIN ApplyRulings(T, ms) :
              /\ ApplyRulings(T, ms)[t] \in Players
              /\ Holds(ApplyRulings(T, ms)[t], t, h)
    BY <2>1, RulingsApplied, Zenon
  <2> QED
    BY <2>2 DEF T, h, Holds
<1>5. /\ DOMAIN system[c] \subseteq DOMAIN g
      /\ \A t \in DOMAIN g : \/ t \in DOMAIN system[c] /\ g[t] = system[c][t]
                             \/ \E i \in DOMAIN ms : ms[i].tick = t /\ g[t] = ms[i].system
      /\ \A i \in DOMAIN ms : ms[i].system # <<>> => ms[i].tick \in DOMAIN g
  BY SystemApplied
<1> HIDE DEF f, g
<1>6. \A t \in DOMAIN g : /\ t \in 1..clock[Host] /\ g[t] = ran[Host][t].system
                         /\ g[t] \in Seq(SysAct)
  BY <1>2, <1>3, <1>5
<1>7. ASSUME NEW t \in DOMAIN f
      PROVE  /\ t \in 1..clock[Host] /\ Acted(f[t]) = ran[Host][t].players
             /\ Lookup(g, t, <<>>) = ran[Host][t].system
  <2>1. t \in 1..clock[Host]
    BY <1>2, <1>3, <1>4
  <2>2. Acted(f[t]) = ran[Host][t].players
    BY <1>4
  <2>3. CASE t \in DOMAIN g
    BY <1>6, <2>1, <2>2, <2>3 DEF Lookup
  <2>4. CASE t \notin DOMAIN g
    <3>1. t \notin DOMAIN system[c]
      BY <1>5, <2>4
    <3>2. CASE t \in DOMAIN tracker[c]
      BY <1>2, <2>1, <2>2, <2>4, <3>1, <3>2 DEF Lookup
    <3>3. CASE \E i \in DOMAIN ms : ms[i].tick = t
      BY <1>3, <1>5, <2>1, <2>2, <2>4, <3>3 DEF Lookup
    <3> QED
      BY <1>4, <3>2, <3>3
  <2> QED
    BY <2>3, <2>4
<1>8. /\ tracker'[c] = f /\ system'[c] = g /\ DOMAIN tracker' = Peer /\ DOMAIN system' = Peer
      /\ \A p \in Peer \ {c} : tracker'[p] = tracker[p] /\ system'[p] = system[p]
  BY <1>1
<1>9. LogTypes'
  <2>1. ASSUME NEW p \in Peer
        PROVE  /\ DOMAIN tracker'[p] \subseteq Nat /\ DOMAIN system'[p] \subseteq Nat
               /\ \A t \in DOMAIN tracker'[p] : tracker'[p][t] \in Players
               /\ \A t \in DOMAIN system'[p] : system'[p][t] \in Seq(SysAct)
    <3>1. CASE p = c
      <4>1. 1..clock[Host] \subseteq Nat
        BY DEF IInv, TInv, HostTypes
      <4> QED
        BY <1>4, <1>6, <1>7, <1>8, <3>1, <4>1
    <3>2. CASE p # c
      BY <1>8, <3>2 DEF IInv, TInv, LogTypes
    <3> QED
      BY <3>1, <3>2
  <2> QED
    BY <1>8, <2>1 DEF IInv, TInv, LogTypes
<1> QED
  BY <1>4, <1>6, <1>7, <1>8, <1>9, Zenon

LEMMA ReceiveRulingInv ==
  ASSUME IInv, NEW c \in Client, ReceiveRuling(c)
  PROVE  IInv'
<1> USE Constants
<1> DEFINE m == Head(inbox[c])
<1>1. /\ inbox[c] # <<>> /\ m.type = "ruling" /\ inbox' = [inbox EXCEPT ![c] = Tail(@)]
      /\ UNCHANGED <<hostVars, pauseVars, stage, given, lastScheduled, buffer, joins, batches,
                     handshake, clock, roster, paused, ran, sent>>
      /\ \/ Apply(c, <<m>>) /\ UNCHANGED stash
         \/ stash' = [stash EXCEPT ![c] = Append(@, m)] /\ UNCHANGED <<tracker, system>>
  BY DEF ReceiveRuling
<1>2. /\ inbox \in [Client -> Seq(Msg)] /\ stash \in [Client -> Seq(RulingMsg)]
      /\ DOMAIN tracker = Peer /\ DOMAIN system = Peer
      /\ \A i \in DOMAIN inbox[c] : IsTrue(inbox[c][i], clock[Host], ran[Host])
      /\ \A i \in DOMAIN stash[c] : IsTrue(stash[c][i], clock[Host], ran[Host])
      /\ \A t \in DOMAIN tracker[c] : tracker[c][t] \in Players
      /\ \A t \in DOMAIN system[c] : system[c][t] \in Seq(SysAct)
      /\ DOMAIN tracker[c] \subseteq Nat /\ DOMAIN system[c] \subseteq Nat
  BY DEF IInv, TInv, LogTypes, ClientTypes, NetTypes, Truth, RulingsAreTrue
<1>3. /\ \A i \in DOMAIN Tail(inbox[c]) : i + 1 \in DOMAIN inbox[c] /\ Tail(inbox[c])[i] = inbox[c][i + 1]
      /\ \A i \in DOMAIN Tail(inbox[c]) : IsTrue(Tail(inbox[c])[i], clock[Host], ran[Host])
      /\ IsTrue(m, clock[Host], ran[Host]) /\ m \in Msg /\ Tail(inbox[c]) \in Seq(Msg)
  <2>1. inbox[c] \in Seq(Msg)
    BY <1>2
  <2> QED
    BY <1>1, <1>2, <2>1, TailIsTrue
<1>4. m \in RulingMsg
  BY <1>1, <1>3 DEF Msg
<1> HIDE DEF m
<1>5. NetTypes'
  <2>1. inbox' \in [Client -> Seq(Msg)]
    BY <1>1, <1>2, <1>3
  <2>2. ASSUME NEW d \in Client, NEW i \in DOMAIN inbox'[d], inbox'[d][i].type = "snapshot"
        PROVE  inbox'[d][i].tick <= MaxTick
    <3>1. \E j \in DOMAIN inbox[d] : inbox'[d][i] = inbox[d][j]
      <4>1. CASE d = c
        <5>1. inbox'[c] = Tail(inbox[c])
          BY <1>1, <1>2
        <5> QED
          BY <1>3, <2>2, <4>1, <5>1
      <4>2. CASE d # c
        BY <1>1, <1>2, <2>2, <4>2
      <4> QED
        BY <4>1, <4>2
    <3> QED
      BY <2>2, <3>1 DEF IInv, TInv, NetTypes
  <2> QED
    BY <1>1, <2>1, <2>2 DEF IInv, TInv, NetTypes
<1>6. HostTypes' /\ NothingIsOwed' /\ FlagTypes' /\ HistoryTypes'
  BY <1>1, Zenon DEF IInv, TInv, HostTypes, NothingIsOwed, FlagTypes, HistoryTypes, hostVars, pauseVars
<1>7. \A i \in DOMAIN inbox'[c] : IsTrue(inbox'[c][i], clock[Host], ran[Host])
  <2>1. inbox'[c] = Tail(inbox[c])
    BY <1>1, <1>2
  <2> QED
    BY <1>3, <2>1
<1>8. CASE stash' = [stash EXCEPT ![c] = Append(@, m)] /\ UNCHANGED <<tracker, system>>
  <2>1. stash'[c] = Append(stash[c], m) /\ \A d \in Client \ {c} : stash'[d] = stash[d]
    BY <1>2, <1>8
  <2>2. \A i \in DOMAIN stash'[c] : IsTrue(stash'[c][i], clock[Host], ran[Host])
    <3>1. stash[c] \in Seq(RulingMsg)
      BY <1>2
    <3> QED
      BY <1>2, <1>3, <2>1, <3>1
  <2>3. stash' \in [Client -> Seq(RulingMsg)]
    BY <1>2, <1>4, <1>8
  <2>4. TInv'
    BY <1>1, <1>5, <1>6, <1>8, <2>3 DEF IInv, TInv, LogTypes, ClientTypes
  <2>5. \A d \in Client \ {c} : inbox'[d] = inbox[d]
    BY <1>1, <1>2
  <2>6. /\ \A t \in DOMAIN tracker'[c] : /\ t \in 1..clock[Host]
                                         /\ Acted(tracker'[c][t]) = ran[Host][t].players
                                         /\ Lookup(system'[c], t, <<>>) = ran[Host][t].system
        /\ \A t \in DOMAIN system'[c] : t \in 1..clock[Host] /\ system'[c][t] = ran[Host][t].system
    BY <1>8 DEF IInv, Truth, TrackersAreTrue, SystemOf
  <2>7. Truth'
    BY <1>1, <1>7, <1>8, <2>1, <2>2, <2>5, <2>6, OneClientMoves DEF IInv, Truth, SameRulings, hostVars
  <2> QED
    BY <2>4, <2>7 DEF IInv
<1>9. CASE Apply(c, <<m>>) /\ UNCHANGED stash
  <2> DEFINE ms == <<m>>
  <2>1. ms \in Seq(RulingMsg) /\ \A i \in DOMAIN ms : IsTrue(ms[i], clock[Host], ran[Host])
    BY <1>3, <1>4
  <2>2. Apply(c, ms) /\ UNCHANGED stash /\ roster' = roster
    BY <1>1, <1>9
  <2> HIDE DEF ms
  <2>3. /\ LogTypes'
        /\ \A p \in Peer \ {c} : tracker'[p] = tracker[p] /\ system'[p] = system[p]
        /\ \A t \in DOMAIN tracker'[c] : /\ t \in 1..clock[Host]
                                         /\ Acted(tracker'[c][t]) = ran[Host][t].players
                                         /\ Lookup(system'[c], t, <<>>) = ran[Host][t].system
        /\ \A t \in DOMAIN system'[c] : t \in 1..clock[Host] /\ system'[c][t] = ran[Host][t].system
    BY <2>1, <2>2, ApplyIsTrue
  <2>4. TInv'
    BY <1>1, <1>5, <1>6, <2>2, <2>3 DEF IInv, TInv, ClientTypes
  <2>5. \A d \in Client \ {c} : inbox'[d] = inbox[d] /\ tracker'[d] = tracker[d] /\ system'[d] = system[d]
    BY <1>1, <1>2, <2>3
  <2>6. tracker'[Host] = tracker[Host] /\ system'[Host] = system[Host]
    BY <2>3
  <2>7. \A t \in DOMAIN ran'[c] : /\ t \in DOMAIN ran[Host] /\ ran'[c][t].players = ran[Host][t].players
                                 /\ ran'[c][t].system = ran[Host][t].system
    BY <1>1 DEF IInv, Truth, SameRulings
  <2>8. Truth /\ UNCHANGED <<clock, ran, stash, pendingJoin>>
    BY <1>1, <2>2 DEF IInv, hostVars
  <2>9. Truth'
    BY <1>2, <1>7, <2>3, <2>5, <2>6, <2>7, <2>8, OneClientMoves
  <2> QED
    BY <2>4, <2>9 DEF IInv
<1> QED
  BY <1>1, <1>8, <1>9

LEMMA ReplayStashInv ==
  ASSUME IInv, NEW c \in Client, ReplayStash(c)
  PROVE  IInv'
<1> USE Constants
<1>1. /\ Apply(c, stash[c]) /\ stash' = [stash EXCEPT ![c] = <<>>] /\ roster' = roster
      /\ UNCHANGED <<hostVars, pauseVars, stage, given, lastScheduled, buffer, joins, netVars,
                     clock, roster, paused, ran, sent>>
  BY DEF ReplayStash
<1>2. /\ stash \in [Client -> Seq(RulingMsg)] /\ stash[c] \in Seq(RulingMsg)
      /\ \A i \in DOMAIN inbox[c] : IsTrue(inbox[c][i], clock[Host], ran[Host])
      /\ \A i \in DOMAIN stash[c] : IsTrue(stash[c][i], clock[Host], ran[Host])
  BY DEF IInv, TInv, ClientTypes, Truth, RulingsAreTrue
<1>3. /\ LogTypes'
      /\ \A p \in Peer \ {c} : tracker'[p] = tracker[p] /\ system'[p] = system[p]
      /\ \A t \in DOMAIN tracker'[c] : /\ t \in 1..clock[Host]
                                       /\ Acted(tracker'[c][t]) = ran[Host][t].players
                                       /\ Lookup(system'[c], t, <<>>) = ran[Host][t].system
      /\ \A t \in DOMAIN system'[c] : t \in 1..clock[Host] /\ system'[c][t] = ran[Host][t].system
  BY <1>1, <1>2, ApplyIsTrue
<1>4. stash'[c] = <<>> /\ \A d \in Client \ {c} : stash'[d] = stash[d]
  BY <1>1, <1>2
<1>5. TInv'
  <2>1. stash' \in [Client -> Seq(RulingMsg)]
    <3>1. <<>> \in Seq(RulingMsg)
      OBVIOUS
    <3> QED
      BY <1>1, <1>2, <3>1
  <2>2. ClientTypes'
    BY <1>1, <2>1 DEF IInv, TInv, ClientTypes
  <2>3. HostTypes' /\ NothingIsOwed' /\ FlagTypes' /\ NetTypes' /\ HistoryTypes'
    BY <1>1, Zenon DEF IInv, TInv, HostTypes, NothingIsOwed, FlagTypes, NetTypes, HistoryTypes, hostVars,
         pauseVars, netVars
  <2> QED
    BY <1>3, <2>2, <2>3 DEF TInv
<1>6. \A d \in Client \ {c} : tracker'[d] = tracker[d] /\ system'[d] = system[d]
  BY <1>3
<1>7. tracker'[Host] = tracker[Host] /\ system'[Host] = system[Host]
  BY <1>3
<1>8. \A i \in DOMAIN stash'[c] : IsTrue(stash'[c][i], clock[Host], ran[Host])
  BY <1>4
<1>9. Truth'
  BY <1>1, <1>2, <1>3, <1>4, <1>6, <1>7, <1>8, OneClientMoves DEF IInv, Truth, SameRulings, hostVars, netVars
<1> QED
  BY <1>5, <1>9 DEF IInv

LEMMA TailTypes ==
  ASSUME NetTypes, NEW c \in Client, inbox[c] # <<>>, inbox' = [inbox EXCEPT ![c] = Tail(@)],
         batches' = batches, handshake' \in [Client -> Seq(Shake)]
  PROVE  NetTypes' /\ inbox'[c] = Tail(inbox[c]) /\ \A d \in Client \ {c} : inbox'[d] = inbox[d]
<1>1. inbox \in [Client -> Seq(Msg)] /\ inbox[c] \in Seq(Msg)
  BY DEF NetTypes
<1>2. /\ Tail(inbox[c]) \in Seq(Msg)
      /\ \A i \in DOMAIN Tail(inbox[c]) : i + 1 \in DOMAIN inbox[c] /\ Tail(inbox[c])[i] = inbox[c][i + 1]
  <2>1. Len(inbox[c]) \in Nat /\ Len(inbox[c]) >= 1 /\ DOMAIN inbox[c] = 1..Len(inbox[c])
    BY <1>1
  <2> QED
    BY <1>1, <2>1
<1>3. inbox'[c] = Tail(inbox[c]) /\ \A d \in Client \ {c} : inbox'[d] = inbox[d]
  BY <1>1
<1>4. inbox' \in [Client -> Seq(Msg)]
  BY <1>1, <1>2
<1>5. ASSUME NEW d \in Client, NEW i \in DOMAIN inbox'[d], inbox'[d][i].type = "snapshot"
      PROVE  inbox'[d][i].tick <= MaxTick
  <2>1. \E j \in DOMAIN inbox[d] : inbox'[d][i] = inbox[d][j]
    <3>1. CASE d = c
      BY <1>2, <1>3, <1>5, <3>1
    <3>2. CASE d # c
      BY <1>3, <1>5, <3>2
    <3> QED
      BY <3>1, <3>2
  <2> QED
    BY <1>5, <2>1 DEF NetTypes
<1> QED
  BY <1>3, <1>4, <1>5 DEF NetTypes

(* What a message taken from a client's inbox leaves true.                   *)
LEMMA TakenIsTrue ==
  ASSUME Truth, NetTypes, NEW c \in Client, inbox[c] # <<>>, inbox' = [inbox EXCEPT ![c] = Tail(@)],
         UNCHANGED <<clock, tracker, system, stash, ran, pendingJoin>>
  PROVE  Truth'
<1>1. /\ inbox[c] \in Seq(Msg) /\ inbox'[c] = Tail(inbox[c]) /\ \A d \in Client \ {c} : inbox'[d] = inbox[d]
  BY DEF NetTypes
<1>2. \A i \in DOMAIN inbox[c] : IsTrue(inbox[c][i], clock[Host], ran[Host])
  BY DEF Truth, RulingsAreTrue
<1>3. \A i \in DOMAIN Tail(inbox[c]) : IsTrue(Tail(inbox[c])[i], clock[Host], ran[Host])
  BY <1>1, <1>2, TailIsTrue
<1>4. RulingsAreTrue'
  <2> SUFFICES ASSUME NEW d \in Client
               PROVE  /\ \A i \in DOMAIN inbox'[d] : IsTrue(inbox'[d][i], clock[Host], ran[Host])
                      /\ \A i \in DOMAIN stash[d] : IsTrue(stash[d][i], clock[Host], ran[Host])
    BY DEF RulingsAreTrue
  <2>1. CASE d = c
    BY <1>1, <1>3, <2>1 DEF Truth, RulingsAreTrue
  <2>2. CASE d # c
    BY <1>1, <2>2 DEF Truth, RulingsAreTrue
  <2> QED
    BY <2>1, <2>2
<1>5. HostKeeps' /\ TrackersAreTrue' /\ SameRulings'
  BY DEF Truth, HostKeeps, TrackersAreTrue, SameRulings, Entry, SystemOf
<1> QED
  BY <1>4, <1>5 DEF Truth

LEMMA ReceiveParticipantsInv ==
  ASSUME IInv, NEW c \in Client, ReceiveParticipants(c)
  PROVE  IInv'
<1> USE Constants
<1> DEFINE m == Head(inbox[c])
           new == roster[c] \cup SeededBy(m.joins, clock[c])
<1>1. /\ inbox[c] # <<>> /\ m.type = "participants" /\ inbox' = [inbox EXCEPT ![c] = Tail(@)]
      /\ roster' = [roster EXCEPT ![c] = new]
      /\ UNCHANGED <<hostVars, pauseVars, clientVars, batches, handshake, clock, tracker, system,
                     paused, ran, sent>>
  BY DEF ReceiveParticipants
<1>2. m.joins \subseteq Peer \X Nat
  <2>1. inbox[c] \in Seq(Msg)
    BY DEF IInv, TInv, NetTypes
  <2>2. m \in Msg
    BY <1>1, <2>1
  <2> HIDE DEF m
  <2> QED
    BY <1>1, <2>2 DEF Msg, RulingMsg
<1> HIDE DEF m
<1>3. roster' \in [Peer -> SUBSET Peer]
  <2>1. SeededBy(m.joins, clock[c]) \subseteq Peer
    BY <1>2 DEF SeededBy
  <2>2. roster \in [Peer -> SUBSET Peer]
    BY DEF IInv, TInv, LogTypes
  <2>3. new \in SUBSET Peer
    BY <2>1, <2>2
  <2> HIDE DEF new
  <2> QED
    BY <1>1, <2>2, <2>3
<1>4. NetTypes /\ NetTypes'
  BY <1>1, TailTypes DEF IInv, TInv, NetTypes
<1>5. TInv'
  <2>1. HostTypes' /\ NothingIsOwed' /\ FlagTypes' /\ ClientTypes' /\ HistoryTypes'
    BY <1>1, Zenon DEF IInv, TInv, HostTypes, NothingIsOwed, FlagTypes, ClientTypes, HistoryTypes, hostVars,
         pauseVars, clientVars
  <2>2. LogTypes'
    BY <1>1, <1>3 DEF IInv, TInv, LogTypes
  <2> QED
    BY <1>4, <2>1, <2>2 DEF TInv
<1>6. Truth'
  BY <1>1, <1>4, TakenIsTrue, Zenon DEF IInv, hostVars, clientVars
<1> QED
  BY <1>5, <1>6 DEF IInv

LEMMA ReceiveSnapshotInv ==
  ASSUME IInv, NEW c \in Client, ReceiveSnapshot(c)
  PROVE  IInv'
<1> USE Constants
<1> DEFINE m == Head(inbox[c])
<1>1. /\ inbox[c] # <<>> /\ m.type = "snapshot" /\ inbox' = [inbox EXCEPT ![c] = Tail(@)]
      /\ stage' = [stage EXCEPT ![c] = "given"] /\ given' = [given EXCEPT ![c] = m.tick]
      /\ lastScheduled' = [lastScheduled EXCEPT ![c] = None]
      /\ UNCHANGED <<hostVars, pauseVars, stash, buffer, joins, batches, handshake, worldVars>>
  BY DEF ReceiveSnapshot
<1>2. m.tick \in 0..MaxTick
  <2>1. inbox[c] \in Seq(Msg)
    BY DEF IInv, TInv, NetTypes
  <2>2. m \in Msg /\ m = inbox[c][1] /\ 1 \in DOMAIN inbox[c]
    BY <1>1, <2>1
  <2>3. m.tick <= MaxTick
    BY <1>1, <2>2 DEF IInv, TInv, NetTypes
  <2> HIDE DEF m
  <2>4. m.tick \in Nat
    BY <1>1, <2>2 DEF Msg, RulingMsg
  <2> QED
    BY <2>3, <2>4
<1> HIDE DEF m
<1>3. NetTypes /\ NetTypes'
  BY <1>1, TailTypes, Zenon DEF IInv, TInv, NetTypes
<1>4. TInv'
  <2>1. HostTypes' /\ NothingIsOwed' /\ FlagTypes' /\ LogTypes' /\ HistoryTypes'
    BY <1>1, Zenon DEF IInv, TInv, HostTypes, NothingIsOwed, FlagTypes, LogTypes, HistoryTypes, hostVars,
         pauseVars, worldVars
  <2>2. ClientTypes'
    <3>1. m.tick \in Nat
      BY <1>2
    <3>2. given' \in [Client -> Nat \cup {None}] /\ lastScheduled' \in [Client -> Nat \cup {None}]
      BY <1>1, <3>1 DEF IInv, TInv, ClientTypes
    <3>3. \A d \in Client : /\ stage'[d] = "given" => given'[d] \in 0..MaxTick
                            /\ stage'[d] = "loaded" => lastScheduled'[d] \in Nat
      BY <1>1, <1>2 DEF IInv, TInv, ClientTypes
    <3>4. stage' \in [Client -> {"out", "asking", "given", "loaded"}]
      BY <1>1 DEF IInv, TInv, ClientTypes
    <3> QED
      BY <1>1, <3>2, <3>3, <3>4 DEF IInv, TInv, ClientTypes
  <2> QED
    BY <1>3, <2>1, <2>2 DEF TInv
<1>5. Truth'
  BY <1>1, <1>3, TakenIsTrue, Zenon DEF IInv, hostVars, worldVars
<1> QED
  BY <1>4, <1>5 DEF IInv

LEMMA ApplySnapshotInv ==
  ASSUME IInv, NEW c \in Client, ApplySnapshot(c)
  PROVE  IInv'
<1> USE Constants
<1>1. /\ stage[c] = "given" /\ stage' = [stage EXCEPT ![c] = "loaded"] /\ given' = [given EXCEPT ![c] = None]
      /\ clock' = [clock EXCEPT ![c] = given[c]]
      /\ tracker' = [tracker EXCEPT ![c] = Empty] /\ ran' = [ran EXCEPT ![c] = Empty]
      /\ lastScheduled' = [lastScheduled EXCEPT ![c] = given[c]]
      /\ handshake' = [handshake EXCEPT ![c] = Append(@, [type |-> "loaded", buffer |-> buffer[c]])]
      /\ UNCHANGED <<hostVars, pauseVars, stash, buffer, joins, batches, inbox, system, roster, paused, sent>>
  BY DEF ApplySnapshot
<1>2. given[c] \in 0..MaxTick /\ given[c] \in Nat
  BY <1>1 DEF IInv, TInv, ClientTypes
<1>3. /\ clock'[Host] = clock[Host] /\ ran'[Host] = ran[Host] /\ tracker'[Host] = tracker[Host]
      /\ \A d \in Client \ {c} : tracker'[d] = tracker[d] /\ ran'[d] = ran[d]
      /\ tracker'[c] = Empty /\ ran'[c] = Empty /\ DOMAIN Empty = {}
      /\ clock'[c] = given[c] /\ \A d \in Client \ {c} : clock'[d] = clock[d]
      /\ DOMAIN tracker' = Peer /\ DOMAIN ran' = Peer
  BY <1>1 DEF IInv, TInv, HostTypes, LogTypes, HistoryTypes, Empty
<1>4. TInv'
  <2>1. HostTypes' /\ NothingIsOwed'
    <3>1. clock' \in [Peer -> Nat]
      BY <1>1, <1>2 DEF IInv, TInv, HostTypes
    <3> QED
      BY <1>1, <1>3, <3>1 DEF IInv, TInv, HostTypes, NothingIsOwed, hostVars, pauseVars
  <2>2. FlagTypes'
    BY <1>1 DEF IInv, TInv, FlagTypes, pauseVars
  <2>3. LogTypes'
    <3>1. ASSUME NEW p \in Peer
          PROVE  DOMAIN tracker'[p] \subseteq Nat /\ \A t \in DOMAIN tracker'[p] : tracker'[p][t] \in Players
      <4>1. tracker'[p] = tracker[p] \/ tracker'[p] = Empty
        BY <1>3 DEF Peer
      <4> QED
        BY <1>3, <4>1 DEF IInv, TInv, LogTypes
    <3> QED
      BY <1>1, <1>3, <3>1 DEF IInv, TInv, LogTypes
  <2>4. ClientTypes'
    <3>1. given' \in [Client -> Nat \cup {None}] /\ lastScheduled' \in [Client -> Nat \cup {None}]
      BY <1>1, <1>2 DEF IInv, TInv, ClientTypes
    <3>2. \A d \in Client : /\ stage'[d] = "given" => given'[d] \in 0..MaxTick
                            /\ stage'[d] = "loaded" => lastScheduled'[d] \in Nat
      BY <1>1, <1>2 DEF IInv, TInv, ClientTypes
    <3>3. stage' \in [Client -> {"out", "asking", "given", "loaded"}]
      BY <1>1 DEF IInv, TInv, ClientTypes
    <3> QED
      BY <1>1, <3>1, <3>2, <3>3 DEF IInv, TInv, ClientTypes
  <2>5. NetTypes'
    <3>1. [type |-> "loaded", buffer |-> buffer[c]] \in Shake
      BY Zenon DEF IInv, TInv, ClientTypes, Shake
    <3>2. handshake' \in [Client -> Seq(Shake)]
      BY <1>1, <3>1 DEF IInv, TInv, NetTypes
    <3> QED
      BY <1>1, <3>2 DEF IInv, TInv, NetTypes
  <2>6. HistoryTypes'
    BY <1>1, <1>2, <1>3 DEF IInv, TInv, HistoryTypes, Peer
  <2> QED
    BY <2>1, <2>2, <2>3, <2>4, <2>5, <2>6 DEF TInv
<1>5. Truth'
  <2>1. /\ \A i \in DOMAIN inbox'[c] : IsTrue(inbox'[c][i], clock[Host], ran[Host])
        /\ \A i \in DOMAIN stash'[c] : IsTrue(stash'[c][i], clock[Host], ran[Host])
    BY <1>1 DEF IInv, Truth, RulingsAreTrue
  <2>2. \A t \in DOMAIN system'[c] : t \in 1..clock[Host] /\ system'[c][t] = ran[Host][t].system
    BY <1>1 DEF IInv, Truth, TrackersAreTrue
  <2>3. Truth /\ UNCHANGED <<system, stash, inbox, pendingJoin>> /\ DOMAIN tracker'[c] = {} /\ DOMAIN ran'[c] = {}
    BY <1>1, <1>3 DEF IInv, hostVars
  <2> QED
    BY <1>3, <2>1, <2>2, <2>3, OneClientMoves
<1> QED
  BY <1>4, <1>5 DEF IInv

LEMMA ConnectInv ==
  ASSUME IInv, NEW c \in Client, Connect(c)
  PROVE  IInv'
<1> USE Constants
<1>1. /\ stage[c] = "out" /\ stage' = [stage EXCEPT ![c] = "asking"]
      /\ ran' = [ran EXCEPT ![c] = Empty]
      /\ handshake' = [handshake EXCEPT ![c] = <<[type |-> "request"]>>]
      /\ UNCHANGED <<hostVars, pauseVars, given, stash, lastScheduled, buffer, batches, inbox,
                     tracker, system, roster, paused, sent>>
  BY DEF Connect
<1>2. PICK t \in MenuClock : clock' = [clock EXCEPT ![c] = t]
  BY Zenon DEF Connect
<1>3. /\ clock'[Host] = clock[Host] /\ ran'[Host] = ran[Host]
      /\ \A d \in Client \ {c} : ran'[d] = ran[d] /\ clock'[d] = clock[d]
      /\ ran'[c] = Empty /\ DOMAIN Empty = {} /\ clock'[c] = t /\ DOMAIN ran' = Peer
  BY <1>1, <1>2 DEF IInv, TInv, HostTypes, HistoryTypes, Empty
<1>4. TInv'
  <2>1. HostTypes' /\ NothingIsOwed'
    <3>1. clock' \in [Peer -> Nat]
      BY <1>2 DEF IInv, TInv, HostTypes
    <3> QED
      BY <1>1, <1>3, <3>1 DEF IInv, TInv, HostTypes, NothingIsOwed, hostVars, pauseVars
  <2>2. FlagTypes' /\ LogTypes'
    BY <1>1 DEF IInv, TInv, FlagTypes, LogTypes, pauseVars
  <2>3. ClientTypes'
    <3>1. stage' \in [Client -> {"out", "asking", "given", "loaded"}]
      BY <1>1 DEF IInv, TInv, ClientTypes
    <3>2. \A d \in Client : /\ stage'[d] = "given" => given[d] \in 0..MaxTick
                            /\ stage'[d] = "loaded" => lastScheduled[d] \in Nat
      BY <1>1 DEF IInv, TInv, ClientTypes
    <3> QED
      BY <1>1, <3>1, <3>2 DEF IInv, TInv, ClientTypes
  <2>4. NetTypes'
    <3>1. [type |-> "request"] \in Shake
      BY DEF Shake
    <3>2. handshake' \in [Client -> Seq(Shake)]
      BY <1>1, <3>1 DEF IInv, TInv, NetTypes
    <3> QED
      BY <1>1, <3>2 DEF IInv, TInv, NetTypes
  <2>5. HistoryTypes'
    BY <1>1, <1>3, Zenon DEF IInv, TInv, HistoryTypes, Peer
  <2> QED
    BY <2>1, <2>2, <2>3, <2>4, <2>5 DEF TInv
<1>5. Truth'
  <2>1. /\ \A i \in DOMAIN inbox'[c] : IsTrue(inbox'[c][i], clock[Host], ran[Host])
        /\ \A i \in DOMAIN stash'[c] : IsTrue(stash'[c][i], clock[Host], ran[Host])
    BY <1>1 DEF IInv, Truth, RulingsAreTrue
  <2>2. /\ \A u \in DOMAIN tracker'[c] : /\ u \in 1..clock[Host]
                                         /\ Acted(tracker'[c][u]) = ran[Host][u].players
                                         /\ Lookup(system'[c], u, <<>>) = ran[Host][u].system
        /\ \A u \in DOMAIN system'[c] : u \in 1..clock[Host] /\ system'[c][u] = ran[Host][u].system
    BY <1>1 DEF IInv, Truth, TrackersAreTrue, SystemOf
  <2>3. Truth /\ UNCHANGED <<tracker, system, stash, inbox, pendingJoin>> /\ DOMAIN ran'[c] = {}
    BY <1>1, <1>3 DEF IInv, hostVars
  <2> QED
    BY <1>3, <2>1, <2>2, <2>3, OneClientMoves
<1> QED
  BY <1>4, <1>5 DEF IInv

(* A client that goes leaves nothing behind that is not true.                *)
LEMMA GoneInv ==
  ASSUME IInv, NEW c \in Client, Depart(c), Disconnect(c)
  PROVE  IInv'
<1> USE Constants
<1>1. /\ joinedAt' = [joinedAt EXCEPT ![c] = None]
      /\ announced' = announced \/ announced' = announced \ {c}
      /\ departures' = departures \/ departures' = Append(departures, Left(c))
      /\ pendingJoin' = RestrictDomain(pendingJoin, LAMBDA d : d # c)
      /\ UNCHANGED <<lastBroadcast, hostBuffer>>
  BY DEF Depart
<1>2. /\ stage' = [stage EXCEPT ![c] = "out"] /\ given' = [given EXCEPT ![c] = None]
      /\ stash' = [stash EXCEPT ![c] = <<>>]
      /\ lastScheduled' = [lastScheduled EXCEPT ![c] = None]
      /\ buffer' = [buffer EXCEPT ![c] = StartBuffer]
      /\ tracker' = [tracker EXCEPT ![c] = Empty] /\ system' = [system EXCEPT ![c] = Empty]
      /\ roster' = [roster EXCEPT ![c] = {}] /\ paused' = [paused EXCEPT ![c] = FALSE]
      /\ batches' = [batches EXCEPT ![c] = <<>>] /\ handshake' = [handshake EXCEPT ![c] = <<>>]
      /\ inbox' = [inbox EXCEPT ![c] = <<>>]
      /\ UNCHANGED <<pauseVars, joins, clock, ran, sent>>
  BY DEF Disconnect
<1>3. \A d \in DOMAIN pendingJoin' : d \in DOMAIN pendingJoin /\ pendingJoin'[d] = pendingJoin[d]
  BY <1>1 DEF RestrictDomain, Restrict
<1>4. /\ tracker'[Host] = tracker[Host] /\ system'[Host] = system[Host]
      /\ \A d \in Client \ {c} : /\ tracker'[d] = tracker[d] /\ system'[d] = system[d]
                                 /\ stash'[d] = stash[d] /\ inbox'[d] = inbox[d]
      /\ tracker'[c] = Empty /\ system'[c] = Empty /\ stash'[c] = <<>> /\ inbox'[c] = <<>>
      /\ DOMAIN Empty = {} /\ DOMAIN tracker' = Peer /\ DOMAIN system' = Peer
  BY <1>2 DEF IInv, TInv, LogTypes, ClientTypes, NetTypes, Empty
<1>5. TInv'
  <2>1. HostTypes' /\ NothingIsOwed'
    <3>1. Left(c) \in SysAct
      BY DEF Left, SysAct
    <3>2. departures' \in Seq(SysAct)
      <4>1. departures \in Seq(SysAct)
        BY DEF IInv, TInv, HostTypes
      <4>2. \A l \in SysAct : Append(departures, l) \in Seq(SysAct)
        BY <4>1
      <4> QED
        BY <1>1, <3>1, <4>1, <4>2, Zenon
    <3>3. joinedAt' \in [Peer -> Nat \cup {None}] /\ announced' \subseteq Peer
      BY <1>1 DEF IInv, TInv, HostTypes
    <3> QED
      BY <1>1, <1>2, <1>3, <3>2, <3>3, Zenon DEF IInv, TInv, HostTypes, NothingIsOwed, pauseVars
  <2>2. FlagTypes'
    BY <1>2 DEF IInv, TInv, FlagTypes, pauseVars
  <2>3. LogTypes'
    <3>1. ASSUME NEW p \in Peer
          PROVE  /\ DOMAIN tracker'[p] \subseteq Nat /\ DOMAIN system'[p] \subseteq Nat
                 /\ \A t \in DOMAIN tracker'[p] : tracker'[p][t] \in Players
                 /\ \A t \in DOMAIN system'[p] : system'[p][t] \in Seq(SysAct)
      <4>1. /\ tracker'[p] = tracker[p] \/ tracker'[p] = Empty
            /\ system'[p] = system[p] \/ system'[p] = Empty
        BY <1>4 DEF Peer
      <4> QED
        BY <1>4, <4>1 DEF IInv, TInv, LogTypes
    <3>2. roster' \in [Peer -> SUBSET Peer]
      BY <1>2 DEF IInv, TInv, LogTypes
    <3> QED
      BY <1>4, <3>1, <3>2 DEF LogTypes
  <2>4. ClientTypes'
    <3>1. <<>> \in Seq(RulingMsg)
      OBVIOUS
    <3>2. /\ stage' \in [Client -> {"out", "asking", "given", "loaded"}]
          /\ stash' \in [Client -> Seq(RulingMsg)] /\ buffer' \in [Client -> Buffers]
      BY <1>2, <3>1 DEF IInv, TInv, ClientTypes
    <3>3. given' \in [Client -> Nat \cup {None}] /\ lastScheduled' \in [Client -> Nat \cup {None}]
      BY <1>2 DEF IInv, TInv, ClientTypes
    <3>4. \A d \in Client : /\ stage'[d] = "given" => given'[d] \in 0..MaxTick
                            /\ stage'[d] = "loaded" => lastScheduled'[d] \in Nat
      BY <1>2 DEF IInv, TInv, ClientTypes
    <3> QED
      BY <3>2, <3>3, <3>4 DEF ClientTypes
  <2>5. NetTypes'
    <3>1. <<>> \in Seq(Batch) /\ <<>> \in Seq(Shake) /\ <<>> \in Seq(Msg)
      OBVIOUS
    <3>2. /\ batches' \in [Client -> Seq(Batch)] /\ handshake' \in [Client -> Seq(Shake)]
          /\ inbox' \in [Client -> Seq(Msg)]
      BY <1>2, <3>1 DEF IInv, TInv, NetTypes
    <3>3. \A d \in Client : \A i \in DOMAIN inbox'[d] :
            inbox'[d][i].type = "snapshot" => inbox'[d][i].tick <= MaxTick
      <4> SUFFICES ASSUME NEW d \in Client, NEW i \in DOMAIN inbox'[d], inbox'[d][i].type = "snapshot"
                   PROVE  inbox'[d][i].tick <= MaxTick
        OBVIOUS
      <4>1. DOMAIN inbox'[c] = {}
        BY <1>4
      <4>2. d # c
        BY <4>1
      <4> QED
        BY <1>4, <4>2 DEF IInv, TInv, NetTypes
    <3> QED
      BY <3>2, <3>3 DEF NetTypes
  <2>6. HistoryTypes'
    BY <1>2 DEF IInv, TInv, HistoryTypes
  <2> QED
    BY <2>1, <2>2, <2>3, <2>4, <2>5, <2>6 DEF TInv
<1>6. Truth'
  <2>1. \A t \in DOMAIN ran'[c] : /\ t \in DOMAIN ran[Host] /\ ran'[c][t].players = ran[Host][t].players
                                 /\ ran'[c][t].system = ran[Host][t].system
    BY <1>2 DEF IInv, Truth, SameRulings
  <2>2. Truth /\ UNCHANGED <<clock, ran>>
    BY <1>2 DEF IInv
  <2>3. /\ DOMAIN tracker'[c] = {} /\ DOMAIN system'[c] = {}
        /\ DOMAIN inbox'[c] = {} /\ DOMAIN stash'[c] = {}
    BY <1>4
  <2> QED
    BY <1>3, <1>4, <2>1, <2>2, <2>3, OneClientMoves
<1> QED
  BY <1>5, <1>6 DEF IInv

(* Who asks for a snapshot is owed what is ruled from there on.              *)
LEMMA AnswerRequestInv ==
  ASSUME IInv, NEW c \in Client, AnswerRequest(c)
  PROVE  IInv'
<1> USE Constants
<1>1. /\ handshake[c] # <<>> /\ handshake' = [handshake EXCEPT ![c] = Tail(@)]
      /\ UNCHANGED <<joinedAt, announced, departures, lastBroadcast, hostBuffer, pauseVars, clientVars,
                     batches, worldVars>>
      /\ \/ UNCHANGED <<pendingJoin, inbox>>
         \/ /\ pendingJoin' = Put(pendingJoin, c, Lookup(pendingJoin, c, clock[Host]))
            /\ inbox' = [inbox EXCEPT ![c] = Append(@, Snapshot(clock[Host]))]
  BY DEF AnswerRequest
<1>2. handshake' \in [Client -> Seq(Shake)]
  <2>1. handshake \in [Client -> Seq(Shake)] /\ handshake[c] \in Seq(Shake)
    BY DEF IInv, TInv, NetTypes
  <2>2. Tail(handshake[c]) \in Seq(Shake)
    BY <1>1, <2>1
  <2> QED
    BY <1>1, <2>1, <2>2
<1>3. FlagTypes' /\ LogTypes' /\ ClientTypes' /\ HistoryTypes'
  BY <1>1, Zenon DEF IInv, TInv, FlagTypes, LogTypes, ClientTypes, HistoryTypes, pauseVars, clientVars, worldVars
<1>4. CASE UNCHANGED <<pendingJoin, inbox>>
  <2>1. HostTypes' /\ NothingIsOwed' /\ NetTypes'
    BY <1>1, <1>2, <1>4, Zenon DEF IInv, TInv, HostTypes, NothingIsOwed, NetTypes, pauseVars, worldVars
  <2>2. Truth'
    BY <1>1, <1>4, TruthKept DEF IInv, worldVars, clientVars
  <2> QED
    BY <1>3, <2>1, <2>2 DEF IInv, TInv
<1>5. CASE /\ pendingJoin' = Put(pendingJoin, c, Lookup(pendingJoin, c, clock[Host]))
           /\ inbox' = [inbox EXCEPT ![c] = Append(@, Snapshot(clock[Host]))]
  <2> DEFINE new == Snapshot(clock[Host])
  <2>0. clock[Host] \in Nat /\ clock[Host] <= MaxTick /\ inbox \in [Client -> Seq(Msg)]
    BY DEF IInv, TInv, HostTypes, NetTypes
  <2>1. new \in Msg /\ new.type = "snapshot" /\ new.tick <= MaxTick
    BY <2>0 DEF Snapshot, Msg
  <2>2. inbox' = [inbox EXCEPT ![c] = Append(@, new)]
    BY <1>5
  <2> HIDE DEF new
  <2>3. ASSUME NEW d \in Client, NEW i \in DOMAIN inbox'[d]
        PROVE  (i \in DOMAIN inbox[d] /\ inbox'[d][i] = inbox[d][i]) \/ inbox'[d][i] = new
    BY <2>0, <2>2, <2>3
  <2>4. NetTypes'
    <3>1. inbox' \in [Client -> Seq(Msg)]
      BY <2>0, <2>1, <2>2
    <3> QED
      BY <1>1, <1>2, <2>1, <2>3, <3>1, Zenon DEF IInv, TInv, NetTypes
  <2>5. /\ DOMAIN pendingJoin' = DOMAIN pendingJoin \cup {c}
        /\ \A d \in DOMAIN pendingJoin : pendingJoin'[d] = pendingJoin[d]
        /\ c \notin DOMAIN pendingJoin => pendingJoin'[c] = clock[Host]
    BY <1>5 DEF Put, Lookup
  <2>6. HostTypes' /\ NothingIsOwed'
    BY <1>1, <2>0, <2>5 DEF IInv, TInv, HostTypes, NothingIsOwed, pauseVars, worldVars
  <2>7. RulingsAreTrue'
    <3>1. UNCHANGED <<clock, ran, stash>>
      BY <1>1 DEF worldVars, clientVars
    <3>2. IsTrue(new, clock[Host], ran[Host])
      BY <2>1 DEF IsTrue
    <3>3. \A d \in Client : \A i \in DOMAIN inbox'[d] : IsTrue(inbox'[d][i], clock[Host], ran[Host])
      BY <2>3, <3>2 DEF IInv, Truth, RulingsAreTrue
    <3> QED
      BY <3>1, <3>3 DEF IInv, Truth, RulingsAreTrue
  <2>8. HostKeeps'
    <3> SUFFICES ASSUME NEW d \in DOMAIN pendingJoin', NEW t \in (pendingJoin'[d] + 1)..clock[Host]
                 PROVE  Acted(Entry(Host, t)) = ran[Host][t].players /\ SystemOf(Host, t) = ran[Host][t].system
      BY <1>1 DEF HostKeeps, Entry, SystemOf, worldVars
    <3>1. CASE d \in DOMAIN pendingJoin
      BY <2>5, <3>1 DEF IInv, Truth, HostKeeps
    <3>2. CASE d \notin DOMAIN pendingJoin
      BY <2>0, <2>5, <3>2
    <3> QED
      BY <3>1, <3>2
  <2>9. TrackersAreTrue' /\ SameRulings'
    BY <1>1 DEF IInv, Truth, TrackersAreTrue, SameRulings, SystemOf, worldVars
  <2> QED
    BY <1>3, <2>4, <2>6, <2>7, <2>8, <2>9 DEF IInv, TInv, Truth
<1> QED
  BY <1>1, <1>4, <1>5

(* What who is let in is sent of the past.                                   *)
LEMMA CaughtUp ==
  ASSUME IInv, NEW c \in Client
  PROVE  /\ CatchUp(c) \in Seq(Msg)
         /\ \A i \in DOMAIN CatchUp(c) : /\ CatchUp(c)[i].type = "ruling"
                                         /\ IsTrue(CatchUp(c)[i], clock[Host], ran[Host])
<1> USE Constants
<1>0. clock[Host] \in Nat
  BY DEF IInv, TInv, HostTypes
<1> DEFINE from == Lookup(pendingJoin, c, clock[Host]) + 1
           n == clock[Host] + 1 - from
           ruling(i) == Ruling(from + i - 1, Entry(Host, from + i - 1), SystemOf(Host, from + i - 1))
<1>1. CatchUp(c) = [i \in 1..n |-> ruling(i)]
  BY DEF CatchUp
<1>2. /\ from \in 1..(clock[Host] + 1)
      /\ c \notin DOMAIN pendingJoin => from = clock[Host] + 1
      /\ c \in DOMAIN pendingJoin => from = pendingJoin[c] + 1
  BY <1>0 DEF IInv, TInv, HostTypes, Lookup
<1>3. n \in Nat
  BY <1>0, <1>2
<1>4. ASSUME NEW i \in 1..n
      PROVE  /\ ruling(i) \in RulingMsg /\ ruling(i).type = "ruling"
             /\ IsTrue(ruling(i), clock[Host], ran[Host])
  <2> DEFINE t == from + i - 1
  <2>1. t \in 1..clock[Host] /\ t \in Nat /\ c \in DOMAIN pendingJoin /\ t \in (pendingJoin[c] + 1)..clock[Host]
    BY <1>0, <1>2
  <2>2. /\ Acted(Entry(Host, t)) = ran[Host][t].players
        /\ SystemOf(Host, t) = ran[Host][t].system
    BY <2>1 DEF IInv, Truth, HostKeeps
  <2>3. Entry(Host, t) \in Players
    BY PlayersAre DEF IInv, TInv, LogTypes, Entry, Lookup
  <2>4. SystemOf(Host, t) \in Seq(SysAct)
    <3>1. <<>> \in Seq(SysAct)
      OBVIOUS
    <3> QED
      BY <3>1 DEF IInv, TInv, LogTypes, SystemOf, Lookup
  <2>5. ruling(i) = Ruling(t, Entry(Host, t), SystemOf(Host, t))
    OBVIOUS
  <2> HIDE DEF t, ruling
  <2>6. Ruling(t, Entry(Host, t), SystemOf(Host, t)) \in RulingMsg
    BY <2>1, <2>3, <2>4 DEF Ruling, RulingMsg
  <2>7. IsTrue(Ruling(t, Entry(Host, t), SystemOf(Host, t)), clock[Host], ran[Host])
    BY <2>1, <2>2 DEF Ruling, IsTrue
  <2>8. Ruling(t, Entry(Host, t), SystemOf(Host, t)).type = "ruling"
    BY DEF Ruling
  <2> QED
    BY <2>5, <2>6, <2>7, <2>8
<1> HIDE DEF n, ruling
<1>5. CatchUp(c) \in Seq(RulingMsg)
  BY <1>1, <1>3, <1>4
<1> QED
  BY <1>1, <1>3, <1>4, <1>5 DEF Msg

(* Who is let in is told what the host ran since its snapshot, as it ran it. *)
LEMMA AcceptLoadedInv ==
  ASSUME IInv, NEW c \in Client, AcceptLoaded(c)
  PROVE  IInv'
<1> USE Constants
<1> DEFINE at == Acceptance(Head(handshake[c]).buffer)
           members == {<<p, joinedAt[p]>> : p \in {q \in Peer : joinedAt[q] # None}}
           newcomer == Participants({<<c, at>>})
           all == Participants(members \cup {<<c, at>>})
           told == <<all, newcomer>> \o CatchUp(c)
<1>1. /\ handshake[c] # <<>> /\ Head(handshake[c]).type = "loaded"
      /\ handshake' = [handshake EXCEPT ![c] = Tail(@)]
      /\ UNCHANGED <<announced, departures, lastBroadcast, hostBuffer, pauseVars, clientVars, batches, worldVars>>
      /\ \/ UNCHANGED <<joinedAt, pendingJoin, inbox>>
         \/ /\ joinedAt' = [joinedAt EXCEPT ![c] = at]
            /\ inbox' = [Broadcast(inbox, <<newcomer>>) EXCEPT ![c] =
                            inbox[c] \o <<all, newcomer>> \o CatchUp(c)]
            /\ pendingJoin' = RestrictDomain(pendingJoin, LAMBDA d : d # c)
  BY Zenon DEF AcceptLoaded
<1>2. handshake' \in [Client -> Seq(Shake)] /\ at \in Nat
  <2>1. handshake \in [Client -> Seq(Shake)] /\ handshake[c] \in Seq(Shake)
    BY DEF IInv, TInv, NetTypes
  <2>2. Tail(handshake[c]) \in Seq(Shake) /\ Head(handshake[c]) \in Shake
    BY <1>1, <2>1
  <2>3. handshake' \in [Client -> Seq(Shake)]
    BY <1>1, <2>1, <2>2
  <2> DEFINE h == Head(handshake[c])
  <2>4. h \in Shake /\ h.type = "loaded"
    BY <1>1, <2>2
  <2> HIDE DEF h
  <2>5. h.buffer \in Nat
    BY <2>4 DEF Shake
  <2>6. /\ clock[Host] \in Nat /\ lastBroadcast \in Nat /\ hostBuffer \in Nat
    BY DEF IInv, TInv, HostTypes, NothingIsOwed
  <2>7. \A b \in Nat : Acceptance(b) \in Nat
    BY <2>6 DEF Acceptance, RuledThrough, Max2
  <2> QED
    BY <2>3, <2>5, <2>7, Zenon DEF h
<1>3. FlagTypes' /\ LogTypes' /\ ClientTypes' /\ HistoryTypes'
  BY <1>1, Zenon DEF IInv, TInv, FlagTypes, LogTypes, ClientTypes, HistoryTypes, pauseVars, clientVars, worldVars
<1>4. CASE UNCHANGED <<joinedAt, pendingJoin, inbox>>
  <2>1. HostTypes' /\ NothingIsOwed' /\ NetTypes'
    BY <1>1, <1>2, <1>4, Zenon DEF IInv, TInv, HostTypes, NothingIsOwed, NetTypes, pauseVars, worldVars
  <2>2. Truth'
    BY <1>1, <1>4, TruthKept DEF IInv, worldVars, clientVars
  <2> QED
    BY <1>3, <2>1, <2>2 DEF IInv, TInv
<1>5. CASE /\ joinedAt' = [joinedAt EXCEPT ![c] = at]
           /\ inbox' = [Broadcast(inbox, <<newcomer>>) EXCEPT ![c] =
                           inbox[c] \o <<all, newcomer>> \o CatchUp(c)]
           /\ pendingJoin' = RestrictDomain(pendingJoin, LAMBDA d : d # c)
  <2>0. /\ clock[Host] \in Nat /\ clock[Host] <= MaxTick /\ inbox \in [Client -> Seq(Msg)]
        /\ joinedAt \in [Peer -> Nat \cup {None}] /\ c \in Peer
    BY DEF IInv, TInv, HostTypes, NetTypes
  <2>1. newcomer \in Msg /\ newcomer.type = "participants" /\ all \in Msg /\ all.type = "participants"
    <3>1. members \subseteq Peer \X Nat /\ {<<c, at>>} \subseteq Peer \X Nat
      BY <1>2, <2>0
    <3> HIDE DEF members, at
    <3>2. members \cup {<<c, at>>} \in SUBSET (Peer \X Nat) /\ {<<c, at>>} \in SUBSET (Peer \X Nat)
      BY <3>1
    <3>3. \A w \in SUBSET (Peer \X Nat) : Participants(w) \in Msg /\ Participants(w).type = "participants"
      BY DEF Participants, Msg
    <3> QED
      BY <3>2, <3>3
  <2>2. /\ CatchUp(c) \in Seq(Msg)
        /\ \A i \in DOMAIN CatchUp(c) : /\ CatchUp(c)[i].type = "ruling"
                                        /\ IsTrue(CatchUp(c)[i], clock[Host], ran[Host])
    BY CaughtUp
  <2> HIDE DEF newcomer, all, at
  <2>3. /\ inbox'[c] = inbox[c] \o <<all, newcomer>> \o CatchUp(c)
        /\ \A d \in Client \ {c} : inbox'[d] = inbox[d] \/ inbox'[d] = inbox[d] \o <<newcomer>>
        /\ DOMAIN inbox' = Client
    BY <1>5, <2>0, Zenon DEF Broadcast
  <2>4. ASSUME NEW d \in Client
        PROVE  /\ inbox'[d] \in Seq(Msg)
               /\ \A i \in DOMAIN inbox'[d] :
                    \/ \E j \in DOMAIN inbox[d] : inbox'[d][i] = inbox[d][j]
                    \/ inbox'[d][i].type = "participants"
                    \/ inbox'[d][i].type = "ruling" /\ IsTrue(inbox'[d][i], clock[Host], ran[Host])
    <3> DEFINE old == inbox[d]
               new == CatchUp(c)
    <3>0. old \in Seq(Msg) /\ new \in Seq(Msg)
      BY <2>0, <2>2
    <3>1. CASE d = c
      <4>1. inbox'[d] = old \o <<all, newcomer>> \o new
        BY <2>3, <3>1, Zenon
      <4>2. /\ \A i \in DOMAIN new : /\ new[i].type = "ruling"
                                     /\ IsTrue(new[i], clock[Host], ran[Host])
        BY <2>2
      <4> HIDE DEF old, new
      <4> DEFINE r == old \o <<all, newcomer>> \o new
      <4>3. r \in Seq(Msg) /\ Len(r) = Len(old) + 2 + Len(new) /\ Len(old) \in Nat /\ Len(new) \in Nat
        BY <2>1, <3>0
      <4>4. \A i \in DOMAIN r : \/ \E j \in DOMAIN old : r[i] = old[j]
                               \/ r[i] = all \/ r[i] = newcomer
                               \/ \E j \in DOMAIN new : r[i] = new[j]
        <5> SUFFICES ASSUME NEW i \in DOMAIN r
                     PROVE  \/ \E j \in DOMAIN old : r[i] = old[j]
                            \/ r[i] = all \/ r[i] = newcomer
                            \/ \E j \in DOMAIN new : r[i] = new[j]
          BY Zenon
        <5>1. i \in Nat /\ 1 <= i /\ i <= Len(old) + 2 + Len(new)
          BY <4>3
        <5>2. CASE i <= Len(old)
          BY <3>0, <4>3, <5>1, <5>2
        <5>3. CASE i = Len(old) + 1 \/ i = Len(old) + 2
          BY <3>0, <4>3, <5>1, <5>3
        <5>4. CASE i > Len(old) + 2
          <6>1. i - Len(old) - 2 \in DOMAIN new
            BY <3>0, <4>3, <5>1, <5>4
          <6>2. r[i] = new[i - Len(old) - 2]
            BY <3>0, <4>3, <5>1, <5>4
          <6> QED
            BY <6>1, <6>2, Zenon
        <5> QED
          BY <4>3, <5>1, <5>2, <5>3, <5>4
      <4> HIDE DEF r
      <4>6. \A i \in DOMAIN r :
              \/ \E j \in DOMAIN old : r[i] = old[j]
              \/ r[i].type = "participants"
              \/ r[i].type = "ruling" /\ IsTrue(r[i], clock[Host], ran[Host])
        BY <2>1, <4>2, <4>4
      <4> QED
        BY <4>1, <4>3, <4>6, Zenon DEF r, old
    <3>2. CASE d # c
      <4>1. inbox'[d] = old \/ inbox'[d] = old \o <<newcomer>>
        BY <2>3, <3>2
      <4> HIDE DEF old
      <4>2. CASE inbox'[d] = old
        BY <3>0, <4>2 DEF old
      <4>3. CASE inbox'[d] = old \o <<newcomer>>
        <5> DEFINE r == old \o <<newcomer>>
        <5>1. r \in Seq(Msg) /\ \A i \in DOMAIN r : (i \in DOMAIN old /\ r[i] = old[i]) \/ r[i] = newcomer
          BY <2>1, <3>0
        <5> HIDE DEF r
        <5> QED
          BY <2>1, <4>3, <5>1, Zenon DEF r, old
      <4> QED
        BY <4>1, <4>2, <4>3
    <3> QED
      BY <3>1, <3>2
  <2>5. NetTypes'
    <3>1. inbox' \in [Client -> Seq(Msg)]
      <4>1. inbox' = [d \in Client |-> inbox'[d]]
        BY <1>5, <2>0, Zenon DEF Broadcast
      <4> QED
        BY <2>4, <4>1
    <3>2. ASSUME NEW d \in Client, NEW i \in DOMAIN inbox'[d], inbox'[d][i].type = "snapshot"
          PROVE  inbox'[d][i].tick <= MaxTick
      BY <2>4, <3>2, Zenon DEF IInv, TInv, NetTypes
    <3> QED
      BY <1>1, <1>2, <3>1, <3>2 DEF IInv, TInv, NetTypes
  <2>6. \A d \in DOMAIN pendingJoin' : d \in DOMAIN pendingJoin /\ pendingJoin'[d] = pendingJoin[d]
    BY <1>5 DEF RestrictDomain, Restrict
  <2>7. HostTypes' /\ NothingIsOwed'
    <3>1. joinedAt' \in [Peer -> Nat \cup {None}]
      BY <1>2, <1>5, <2>0 DEF at
    <3> QED
      BY <1>1, <2>6, <3>1, Zenon DEF IInv, TInv, HostTypes, NothingIsOwed, pauseVars, worldVars
  <2>8. RulingsAreTrue'
    <3>1. UNCHANGED <<clock, ran, stash>>
      BY <1>1 DEF worldVars, clientVars
    <3>2. ASSUME NEW d \in Client, NEW i \in DOMAIN inbox'[d]
          PROVE  IsTrue(inbox'[d][i], clock[Host], ran[Host])
      <4>1. CASE \E j \in DOMAIN inbox[d] : inbox'[d][i] = inbox[d][j]
        BY <4>1 DEF IInv, Truth, RulingsAreTrue
      <4>2. CASE inbox'[d][i].type = "participants"
        BY <4>2 DEF IsTrue
      <4> QED
        BY <2>4, <4>1, <4>2
    <3> QED
      BY <3>1, <3>2 DEF IInv, Truth, RulingsAreTrue
  <2>9. HostKeeps' /\ TrackersAreTrue' /\ SameRulings'
    BY <1>1, <2>6 DEF IInv, Truth, HostKeeps, TrackersAreTrue, SameRulings, Entry, SystemOf, worldVars
  <2> QED
    BY <1>3, <2>5, <2>7, <2>8, <2>9 DEF IInv, TInv, Truth
<1> QED
  BY <1>1, <1>4, <1>5, Zenon

LEMMA FlushIs ==
  ASSUME NEW last \in Nat, NEW at \in Nat, NEW acts \in Seq(Nat)
  PROVE  Flush(last, at, acts) \in Seq(Batch)
<1> DEFINE n == IF at > last + 1 THEN at - last - 1 ELSE 0
           fill == [i \in 1..n |-> [tick |-> last + i, actions |-> <<>>]]
           word == [tick |-> at, actions |-> acts]
<1>1. n \in Nat
  OBVIOUS
<1>2. fill \in Seq(Batch)
  <2> HIDE DEF n
  <2>1. <<>> \in Seq(Nat)
    OBVIOUS
  <2> DEFINE empty(i) == [tick |-> last + i, actions |-> <<>>]
  <2>2. \A i \in 1..n : empty(i) \in Batch
    BY <1>1, <2>1 DEF Batch
  <2>3. fill = [i \in 1..n |-> empty(i)]
    OBVIOUS
  <2> HIDE DEF empty, fill
  <2> QED
    BY <1>1, <2>2, <2>3
<1>3. word \in Batch
  BY DEF Batch
<1>4. Flush(last, at, acts) = fill \o <<word>>
  BY DEF Flush
<1> HIDE DEF fill, word
<1> QED
  BY <1>2, <1>3, <1>4

(* A client that runs a tick runs the host's ruling on it.                   *)
LEMMA ClientPassInv ==
  ASSUME IInv, NEW c \in Client, ClientPass(c)
  PROVE  IInv'
<1> USE Constants
<1> DEFINE next == clock[c] + 1
           at == next + buffer[c]
           players == tracker[c][next]
           actions == SystemOf(c, next)
           r == RosterAfter(roster[c], actions)
           held == PausedAfter(paused[c], actions)
<1>1. /\ stage[c] = "loaded" /\ next \in DOMAIN tracker[c]
      /\ clock' = [clock EXCEPT ![c] = next]
      /\ roster' = [roster EXCEPT ![c] = r] /\ paused' = [paused EXCEPT ![c] = held]
      /\ ran' = [ran EXCEPT ![c] = Put(@, next, Ran(players, actions, r, held))]
      /\ lastScheduled' = [lastScheduled EXCEPT ![c] = Max2(@, at)]
      /\ tracker' = [tracker EXCEPT ![c] = RestrictDomain(@, LAMBDA t : t + TrustWindow >= next)]
      /\ system' = [system EXCEPT ![c] = RestrictDomain(@, LAMBDA t : t + TrustWindow >= next)]
      /\ UNCHANGED <<hostVars, pauseVars, stage, given, stash, buffer, joins, handshake, inbox>>
  BY DEF ClientPass, MayRun, RunTick
<1>2. PICK acts \in MayTake(c) :
        /\ batches' = [batches EXCEPT ![c] = @ \o Flush(lastScheduled[c], at, acts)]
        /\ sent' = [sent EXCEPT ![c] = IF acts = <<>> THEN @ ELSE Append(@, at)]
  BY Zenon DEF ClientPass
<1>3. /\ clock[c] \in Nat /\ buffer[c] \in Nat /\ at \in Nat /\ lastScheduled[c] \in Nat
      /\ DOMAIN tracker = Peer /\ DOMAIN system = Peer /\ DOMAIN ran = Peer
      /\ clock[Host] \in Nat /\ clock[Host] <= MaxTick
      /\ DOMAIN tracker[c] \subseteq Nat /\ DOMAIN system[c] \subseteq Nat
  BY <1>1, SMTT(30) DEF IInv, TInv, HostTypes, LogTypes, ClientTypes, HistoryTypes
<1>4. /\ next \in 1..clock[Host] /\ Acted(players) = ran[Host][next].players
      /\ actions = ran[Host][next].system
  BY <1>1 DEF IInv, Truth, TrackersAreTrue
<1>5. acts \in Seq(Nat)
  <2>1. sent[c] \in Seq(Nat) /\ <<>> \in Seq(Nat)
    BY DEF IInv, TInv, HistoryTypes
  <2>2. acts = <<>> \/ acts = <<Len(sent[c]) + 1>>
    BY DEF MayTake
  <2>3. Len(sent[c]) + 1 \in Nat
    BY <2>1
  <2>4. \A k \in Nat : <<k>> \in Seq(Nat)
    OBVIOUS
  <2> QED
    BY <2>1, <2>2, <2>3, <2>4, Zenon
<1>6. r \in SUBSET Peer /\ held \in BOOLEAN
  BY Zenon DEF RosterAfter, PausedAfter, IInv, TInv, FlagTypes
<1> HIDE DEF r, held
<1>7. /\ ran'[Host] = ran[Host] /\ clock'[Host] = clock[Host]
      /\ tracker'[Host] = tracker[Host] /\ system'[Host] = system[Host]
      /\ \A d \in Client \ {c} : /\ ran'[d] = ran[d] /\ clock'[d] = clock[d]
                                 /\ tracker'[d] = tracker[d] /\ system'[d] = system[d]
      /\ clock'[c] = next /\ DOMAIN tracker' = Peer /\ DOMAIN system' = Peer /\ DOMAIN ran' = Peer
  BY <1>1, <1>3 DEF IInv, TInv, HostTypes
<1>8. /\ DOMAIN tracker'[c] = {t \in DOMAIN tracker[c] : t + TrustWindow >= next}
      /\ DOMAIN system'[c] = {t \in DOMAIN system[c] : t + TrustWindow >= next}
      /\ \A t \in DOMAIN tracker'[c] : tracker'[c][t] = tracker[c][t]
      /\ \A t \in DOMAIN system'[c] : system'[c][t] = system[c][t]
  <2>1. /\ tracker'[c] = RestrictDomain(tracker[c], LAMBDA t : t + TrustWindow >= next)
        /\ system'[c] = RestrictDomain(system[c], LAMBDA t : t + TrustWindow >= next)
    BY <1>1, <1>3
  <2> HIDE DEF next
  <2> QED
    BY <2>1 DEF RestrictDomain, Restrict
<1>9. /\ DOMAIN ran'[c] = DOMAIN ran[c] \cup {next}
      /\ ran'[c][next].players = Acted(players) /\ ran'[c][next].system = actions
      /\ \A t \in DOMAIN ran[c] : t # next => ran'[c][t] = ran[c][t]
  <2> DEFINE w == Ran(players, actions, r, held)
  <2>1. w.players = Acted(players) /\ w.system = actions
    BY DEF Ran, Acted
  <2>2. ran'[c] = Put(ran[c], next, w)
    BY <1>1, <1>3
  <2> HIDE DEF w, next, players, actions
  <2>3. DOMAIN ran'[c] = DOMAIN ran[c] \cup {next} /\ ran'[c][next] = w
        /\ \A t \in DOMAIN ran[c] : t # next => ran'[c][t] = ran[c][t]
    BY <2>2 DEF Put
  <2> QED
    BY <2>1, <2>3
<1> HIDE DEF players, actions
<1>10. TInv'
  <2>1. HostTypes' /\ NothingIsOwed'
    <3>1. clock' \in [Peer -> Nat]
      BY <1>1, <1>3 DEF IInv, TInv, HostTypes
    <3> QED
      BY <1>1, <1>7, <3>1 DEF IInv, TInv, HostTypes, NothingIsOwed, hostVars, pauseVars
  <2>2. FlagTypes'
    BY <1>1, <1>6 DEF IInv, TInv, FlagTypes, pauseVars
  <2>3. LogTypes'
    <3>1. ASSUME NEW p \in Peer
          PROVE  /\ DOMAIN tracker'[p] \subseteq Nat /\ DOMAIN system'[p] \subseteq Nat
                 /\ \A t \in DOMAIN tracker'[p] : tracker'[p][t] \in Players
                 /\ \A t \in DOMAIN system'[p] : system'[p][t] \in Seq(SysAct)
      <4>1. CASE p = c
        BY <1>8, <4>1 DEF IInv, TInv, LogTypes
      <4>2. CASE p # c
        <5>1. tracker'[p] = tracker[p] /\ system'[p] = system[p]
          BY <1>7, <4>2 DEF Peer
        <5> QED
          BY <5>1 DEF IInv, TInv, LogTypes
      <4> QED
        BY <4>1, <4>2
    <3>2. roster' \in [Peer -> SUBSET Peer]
      BY <1>1, <1>6 DEF IInv, TInv, LogTypes
    <3> QED
      BY <1>7, <3>1, <3>2 DEF LogTypes
  <2>4. ClientTypes'
    <3>1. Max2(lastScheduled[c], at) \in Nat
      BY <1>3 DEF Max2
    <3> HIDE DEF at
    <3>2. lastScheduled' \in [Client -> Nat \cup {None}]
      BY <1>1, <3>1 DEF IInv, TInv, ClientTypes
    <3>3. \A d \in Client : stage[d] = "loaded" => lastScheduled'[d] \in Nat
      BY <1>1, <3>1 DEF IInv, TInv, ClientTypes
    <3> QED
      BY <1>1, <3>2, <3>3 DEF IInv, TInv, ClientTypes
  <2>5. NetTypes'
    <3>1. Flush(lastScheduled[c], at, acts) \in Seq(Batch)
      BY <1>3, <1>5, FlushIs, Zenon
    <3> HIDE DEF at
    <3> DEFINE f == Flush(lastScheduled[c], at, acts)
    <3>2. batches' = [batches EXCEPT ![c] = @ \o f] /\ f \in Seq(Batch)
      BY <1>2, <3>1
    <3> HIDE DEF f
    <3>3. batches' \in [Client -> Seq(Batch)]
      BY <3>2 DEF IInv, TInv, NetTypes
    <3> QED
      BY <1>1, <3>3 DEF IInv, TInv, NetTypes
  <2>6. HistoryTypes'
    <3>1. sent' \in [Peer -> Seq(Nat)]
      BY <1>2, <1>3 DEF IInv, TInv, HistoryTypes
    <3>2. next \in 1..MaxTick
      BY <1>3, <1>4
    <3>3. \A p \in Peer : DOMAIN ran'[p] \subseteq 1..MaxTick
      <4>1. \A p \in Peer : DOMAIN ran[p] \subseteq 1..MaxTick
        BY DEF IInv, TInv, HistoryTypes
      <4>2. DOMAIN ran'[c] = DOMAIN ran[c] \cup {next} /\ \A p \in Peer : p # c => ran'[p] = ran[p]
        BY <1>7, <1>9 DEF Peer
      <4> HIDE DEF next
      <4> QED
        BY <3>2, <4>1, <4>2
    <3>4. \A d \in Client : clock'[d] \in MenuClock \cup 0..MaxTick
      <4>1. next \in 0..MaxTick
        BY <3>2
      <4> QED
        BY <1>7, <4>1, Zenon DEF IInv, TInv, HistoryTypes
    <3> QED
      BY <1>7, <3>1, <3>3, <3>4 DEF IInv, TInv, HistoryTypes
  <2> QED
    BY <2>1, <2>2, <2>3, <2>4, <2>5, <2>6 DEF TInv
<1>11. Truth'
  <2>1. /\ \A i \in DOMAIN inbox'[c] : IsTrue(inbox'[c][i], clock[Host], ran[Host])
        /\ \A i \in DOMAIN stash'[c] : IsTrue(stash'[c][i], clock[Host], ran[Host])
    BY <1>1 DEF IInv, Truth, RulingsAreTrue
  <2>2. \A t \in DOMAIN system'[c] : t \in 1..clock[Host] /\ system'[c][t] = ran[Host][t].system
    BY <1>8 DEF IInv, Truth, TrackersAreTrue
  <2>3. ASSUME NEW t \in DOMAIN tracker'[c]
        PROVE  /\ t \in 1..clock[Host] /\ Acted(tracker'[c][t]) = ran[Host][t].players
               /\ Lookup(system'[c], t, <<>>) = ran[Host][t].system
    <3>1. /\ t \in DOMAIN tracker[c] /\ t + TrustWindow >= next /\ tracker'[c][t] = tracker[c][t]
      BY <1>8
    <3>2. Lookup(system'[c], t, <<>>) = Lookup(system[c], t, <<>>)
      <4> HIDE DEF next
      <4> QED
        BY <1>8, <3>1 DEF Lookup
    <3> QED
      BY <3>1, <3>2 DEF IInv, Truth, TrackersAreTrue, SystemOf
  <2>4. ASSUME NEW t \in DOMAIN ran'[c]
        PROVE  /\ t \in DOMAIN ran[Host] /\ ran'[c][t].players = ran[Host][t].players
               /\ ran'[c][t].system = ran[Host][t].system
    <3>1. CASE t = next
      <4>1. next \in DOMAIN ran[Host]
        BY <1>4 DEF IInv, TInv, HistoryTypes
      <4> QED
        BY <1>4, <1>9, <3>1, <4>1
    <3>2. CASE t # next
      BY <1>9, <2>4, <3>2 DEF IInv, Truth, SameRulings
    <3> QED
      BY <3>1, <3>2
  <2>5. Truth /\ UNCHANGED <<stash, inbox, pendingJoin>>
    BY <1>1 DEF IInv, hostVars
  <2> QED
    BY <1>7, <2>1, <2>2, <2>3, <2>4, <2>5, OneClientMoves
<1> QED
  BY <1>10, <1>11 DEF IInv

-----------------------------------------------------------------------------
(* THE SESSION *)

LEMMA NextInv == IInv /\ [Next]_vars => IInv'
<1> SUFFICES ASSUME IInv, [Next]_vars PROVE IInv'
  OBVIOUS
<1>1. CASE UNCHANGED vars
  <2> USE <1>1 DEF vars, hostVars, pauseVars, clientVars, netVars, worldVars
  <2>1. TInv'
    BY DEF IInv, TInv, HostTypes, NothingIsOwed, FlagTypes, LogTypes, ClientTypes, NetTypes, HistoryTypes
  <2>2. Truth'
    BY TruthKept DEF IInv
  <2> QED
    BY <2>1, <2>2 DEF IInv
<1>2. CASE HostTick
  BY <1>2, HostTickInv
<1>3. CASE HostHeldPass
  BY <1>3, HostHeldPassInv
<1>4. CASE ResizeHost
  BY <1>4, ResizeInv
<1>5. ASSUME NEW what \in {"pause", "resume"}, Ask(what) PROVE IInv'
  BY <1>5, AskInv
<1>6. ASSUME NEW c \in Client, HostStep(c) PROVE IInv'
  BY <1>6, HostReceiveBatchInv, AnswerRequestInv, AcceptLoadedInv DEF HostStep
<1>7. ASSUME NEW c \in Client, ClientStep(c) PROVE IInv'
  BY <1>7, ReceiveRulingInv, ReplayStashInv, ReceiveParticipantsInv, ReceiveSnapshotInv,
     ApplySnapshotInv, ClientPassInv DEF ClientStep
<1>8. ASSUME NEW c \in Client, Connect(c) \/ Leave(c) \/ Kick(c) \/ Resize(c) PROVE IInv'
  BY <1>8, ConnectInv, GoneInv, ResizeInv DEF Leave, Kick
<1> QED
  BY <1>1, <1>2, <1>3, <1>4, <1>5, <1>6, <1>7, <1>8 DEF Next

THEOREM Invariance == Spec => []IInv
<1>1. Init => IInv
  BY InitInv
<1>2. IInv /\ [Next]_vars => IInv'
  BY NextInv
<1> QED
  BY <1>1, <1>2, PTL DEF Spec

(* Every peer runs every tick with the host's ruling on it: whoever joins,   *)
(* leaves, is kicked, is told twice, or hears of a tick before its own.      *)
THEOREM SameRulingsEverywhere == Spec => []SameRulings
<1>1. IInv => SameRulings
  BY DEF IInv, Truth
<1> QED
  BY <1>1, Invariance, PTL

(* The session's state is of its types.                                      *)
THEOREM Typing == Spec => []TypeOK
<1>1. IInv => TypeOK
  <2> SUFFICES ASSUME IInv PROVE TypeOK
    OBVIOUS
  <2> USE Constants
  <2>1. clock \in [Peer -> MenuClock \cup 0..MaxTick]
    <3>1. clock[Host] \in 0..MaxTick
      BY DEF IInv, TInv, HostTypes
    <3> QED
      BY <3>1 DEF IInv, TInv, HostTypes, HistoryTypes, Peer
  <2>2. \A p \in Peer : /\ \A t \in DOMAIN tracker[p] : DOMAIN tracker[p][t] \subseteq Peer
                       /\ IsLog(ran[p]) /\ roster[p] \subseteq Peer
    BY PlayersAre DEF IInv, TInv, LogTypes, HistoryTypes, IsLog
  <2>3. lastBroadcast \in 0..MaxTick
    BY DEF IInv, TInv, HostTypes, NothingIsOwed
  <2> QED
    BY <2>1, <2>2, <2>3 DEF IInv, TInv, HostTypes, FlagTypes, ClientTypes, TypeOK
<1> QED
  BY <1>1, Invariance, PTL

-----------------------------------------------------------------------------
(* NOTHING IS LEFT OUT                                                       *)
(*                                                                           *)
(* A ruling a client has to run is in its tracker, its stash or its inbox,   *)
(* from the tick of the snapshot it was given on; and it is given one once.  *)

LEMMA ToldInit == Init => Told
<1> SUFFICES ASSUME Init, NEW c \in Client
             PROVE  /\ HandedOnce(stage[c], handshake[c], inbox[c])
                    /\ MissesNothing(stage[c], inbox[c], stash[c], clock[c], given[c], tracker[c], clock[Host])
  BY DEF Told
<1>1. stage[c] = "out" /\ handshake[c] = <<>> /\ inbox[c] = <<>>
  BY DEF Init
<1> QED
  BY <1>1 DEF HandedOnce, MissesNothing

(* Messages added that are no snapshot leave what was coming, and who was    *)
(* handed what.                                                              *)
LEMMA AddedTo ==
  ASSUME NEW box \in Seq(Msg), NEW more \in Seq(Msg), \A i \in DOMAIN more : more[i].type # "snapshot"
  PROVE  /\ \A at, shakes : (at = "out" => more = <<>>) /\ HandedOnce(at, shakes, box)
                           => HandedOnce(at, shakes, box \o more)
         /\ \A held, t : Coming(t, box, held) => Coming(t, box \o more, held)
         /\ \A at, held, from, gave, log, now :
              MissesNothing(at, box, held, from, gave, log, now)
              => MissesNothing(at, box \o more, held, from, gave, log, now)
<1> DEFINE new == box \o more
<1>1. /\ DOMAIN box \subseteq DOMAIN new /\ \A i \in DOMAIN box : new[i] = box[i]
      /\ \A i \in DOMAIN new : i \in DOMAIN box \/ new[i].type # "snapshot"
  <2>1. /\ DOMAIN box = 1..Len(box) /\ DOMAIN more = 1..Len(more) /\ Len(box) \in Nat /\ Len(more) \in Nat
        /\ DOMAIN new = 1..(Len(box) + Len(more))
        /\ \A i \in DOMAIN new : new[i] = IF i <= Len(box) THEN box[i] ELSE more[i - Len(box)]
    OBVIOUS
  <2> HIDE DEF new
  <2>2. \A i \in DOMAIN new : i \in Nat /\ (i > Len(box) => i - Len(box) \in DOMAIN more)
    BY <2>1
  <2>3. \A i \in DOMAIN new : i > Len(box) => new[i].type # "snapshot"
    BY <2>1, <2>2
  <2>4. \A i \in DOMAIN new : i <= Len(box) => i \in DOMAIN box /\ new[i] = box[i]
    BY <2>1, <2>2
  <2>5. DOMAIN box \subseteq DOMAIN new /\ \A i \in DOMAIN box : new[i] = box[i]
    BY <2>1
  <2> QED
    BY <2>1, <2>2, <2>3, <2>4, <2>5
<1>2. more = <<>> => new = box
  OBVIOUS
<1> HIDE DEF new
<1>3. \A held, t : Coming(t, box, held) => Coming(t, new, held)
  BY <1>1 DEF Coming
<1>4. ASSUME NEW at, NEW shakes, at = "out" => more = <<>>, HandedOnce(at, shakes, box)
      PROVE  HandedOnce(at, shakes, new)
  <2>1. at = "out" => new = <<>> /\ shakes = <<>>
    BY <1>2, <1>4 DEF HandedOnce
  <2>2. \A i \in DOMAIN shakes : shakes[i].type = "request" =>
          i = 1 /\ at = "asking" /\ \A j \in DOMAIN new : new[j].type # "snapshot"
    BY <1>1, <1>4 DEF HandedOnce
  <2>3. \A i, j \in DOMAIN new : new[i].type = "snapshot" /\ new[j].type = "snapshot" => i = j /\ at = "asking"
    BY <1>1, <1>4 DEF HandedOnce
  <2> QED
    BY <2>1, <2>2, <2>3 DEF HandedOnce
<1>5. ASSUME NEW at, NEW held, NEW from, NEW gave, NEW log, NEW now,
             MissesNothing(at, box, held, from, gave, log, now)
      PROVE  MissesNothing(at, new, held, from, gave, log, now)
  <2>1. /\ at = "loaded" => \A t \in (from + 1)..now : t \in DOMAIN log \/ Coming(t, new, held)
        /\ at = "given" => \A t \in (gave + 1)..now : Coming(t, new, held)
    BY <1>3, <1>5 DEF MissesNothing
  <2>2. \A i \in DOMAIN new : new[i].type = "snapshot" =>
          \A t \in (new[i].tick + 1)..now : Coming(t, new, held)
    <3> SUFFICES ASSUME NEW i \in DOMAIN new, new[i].type = "snapshot", NEW t \in (new[i].tick + 1)..now
                 PROVE  Coming(t, new, held)
      OBVIOUS
    <3>1. i \in DOMAIN box /\ new[i] = box[i]
      BY <1>1
    <3> QED
      BY <1>3, <1>5, <3>1 DEF MissesNothing
  <2> QED
    BY <2>1, <2>2 DEF MissesNothing
<1> QED
  BY <1>3, <1>4, <1>5 DEF new

(* What is still there when the first message is taken.                      *)
LEMMA TakenFrom ==
  ASSUME NEW box \in Seq(Msg), box # <<>>
  PROVE  /\ \A held, t : \/ Head(box).type # "ruling" \/ Head(box).tick # t
                        => (Coming(t, box, held) => Coming(t, Tail(box), held))
         /\ \A at, shakes : at # "out" /\ HandedOnce(at, shakes, box) => HandedOnce(at, shakes, Tail(box))
         /\ \A at, shakes : /\ at # "out" /\ HandedOnce(at, shakes, box) /\ Head(box).type = "snapshot"
                           => \A i \in DOMAIN Tail(box) : Tail(box)[i].type # "snapshot"
         /\ \A i \in DOMAIN Tail(box) : \E j \in DOMAIN box : Tail(box)[i] = box[j]
<1> DEFINE rest == Tail(box)
<1>1. /\ DOMAIN box = 1..Len(box) /\ Len(box) \in Nat /\ Len(box) >= 1 /\ Head(box) = box[1]
      /\ DOMAIN rest = 1..(Len(box) - 1) /\ \A i \in DOMAIN rest : rest[i] = box[i + 1]
  OBVIOUS
<1> HIDE DEF rest
<1>2. /\ \A i \in DOMAIN rest : i \in Nat /\ i + 1 # 1 /\ i + 1 \in DOMAIN box /\ rest[i] = box[i + 1]
      /\ \A j \in DOMAIN box : j = 1 \/ (j - 1 \in DOMAIN rest /\ rest[j - 1] = box[j])
      /\ 1 \in DOMAIN box
  BY <1>1
<1>3. ASSUME NEW held, NEW t, Head(box).type # "ruling" \/ Head(box).tick # t, Coming(t, box, held)
      PROVE  Coming(t, rest, held)
  <2>1. CASE \E i \in DOMAIN held : held[i].tick = t
    BY <2>1 DEF Coming
  <2>2. CASE \E i \in DOMAIN box : box[i].type = "ruling" /\ box[i].tick = t
    <3>1. PICK i \in DOMAIN box : box[i].type = "ruling" /\ box[i].tick = t
      BY <2>2
    <3>2. i # 1
      BY <1>1, <1>3, <3>1
    <3>3. i - 1 \in DOMAIN rest /\ rest[i - 1] = box[i]
      BY <1>2, <3>2
    <3> QED
      BY <3>1, <3>3 DEF Coming
  <2> QED
    BY <1>3, <2>1, <2>2 DEF Coming
<1>4. ASSUME NEW at, NEW shakes, at # "out", HandedOnce(at, shakes, box)
      PROVE  /\ HandedOnce(at, shakes, rest)
             /\ Head(box).type = "snapshot" => \A i \in DOMAIN rest : rest[i].type # "snapshot"
  <2>1. \A i \in DOMAIN shakes : shakes[i].type = "request" =>
          i = 1 /\ at = "asking" /\ \A j \in DOMAIN rest : rest[j].type # "snapshot"
    BY <1>2, <1>4 DEF HandedOnce
  <2>2. \A i, j \in DOMAIN rest : rest[i].type = "snapshot" /\ rest[j].type = "snapshot" => i = j /\ at = "asking"
    <3> SUFFICES ASSUME NEW i \in DOMAIN rest, NEW j \in DOMAIN rest,
                        rest[i].type = "snapshot", rest[j].type = "snapshot"
                 PROVE  i = j /\ at = "asking"
      OBVIOUS
    <3>1. PICK a \in DOMAIN box : a = i + 1 /\ rest[i] = box[a]
      BY <1>2
    <3>2. PICK b \in DOMAIN box : b = j + 1 /\ rest[j] = box[b]
      BY <1>2
    <3>3. a = b /\ at = "asking"
      BY <1>4, <3>1, <3>2 DEF HandedOnce
    <3> QED
      BY <1>2, <3>1, <3>2, <3>3
  <2>3. Head(box).type = "snapshot" => \A i \in DOMAIN rest : rest[i].type # "snapshot"
    BY <1>1, <1>2, <1>4, Zenon DEF HandedOnce
  <2> QED
    BY <1>4, <2>1, <2>2, <2>3 DEF HandedOnce
<1>5. \A i \in DOMAIN rest : \E j \in DOMAIN box : rest[i] = box[j]
  BY <1>2
<1> QED
  BY <1>3, <1>4, <1>5 DEF rest

LEMMA OneIsTold ==
  ASSUME Told, NEW c \in Client, clock'[Host] = clock[Host],
         \A d \in Client \ {c} :
           /\ stage'[d] = stage[d] /\ handshake'[d] = handshake[d] /\ inbox'[d] = inbox[d]
           /\ stash'[d] = stash[d] /\ clock'[d] = clock[d] /\ given'[d] = given[d] /\ tracker'[d] = tracker[d],
         HandedOnce(stage'[c], handshake'[c], inbox'[c]),
         MissesNothing(stage'[c], inbox'[c], stash'[c], clock'[c], given'[c], tracker'[c], clock[Host])
  PROVE  Told'
<1> SUFFICES ASSUME NEW d \in Client
             PROVE  /\ HandedOnce(stage'[d], handshake'[d], inbox'[d])
                    /\ MissesNothing(stage'[d], inbox'[d], stash'[d], clock'[d], given'[d], tracker'[d], clock[Host])
  BY DEF Told
<1>1. CASE d = c
  BY <1>1
<1>2. CASE d # c
  BY <1>2 DEF Told
<1> QED
  BY <1>1, <1>2

(* What a step leaves that touches nothing of a client's.                    *)
LEMMA ToldKept ==
  ASSUME Told, UNCHANGED <<stage, handshake, inbox, stash, clock, given>>,
         \A c \in Client : tracker'[c] = tracker[c]
  PROVE  Told'
BY DEF Told

LEMMA HostTickTold == IInv /\ Told /\ HostTick => Told'
<1> SUFFICES ASSUME IInv, Told, HostTick PROVE Told'
  OBVIOUS
<1> USE Constants
<1>1. PICK players, staged : HostRuns(players, staged)
  BY HostTickRuns DEF IInv
<1> DEFINE next == clock[Host] + 1
           new == Ruling(next, Filled(next, players), staged)
<1>2. /\ clock' = [clock EXCEPT ![Host] = next] /\ players \in Players /\ staged \in Seq(SysAct)
      /\ inbox' = [c \in Client |-> IF c \in Connected THEN Append(inbox[c], new) ELSE inbox[c]]
  BY <1>1 DEF HostRuns
<1>3. /\ UNCHANGED <<clientVars, batches, handshake>>
      /\ \E k : tracker' = [tracker EXCEPT ![Host] = k]
  BY Zenon DEF HostTick
<1>4. /\ clock[Host] \in Nat /\ clock \in [Peer -> Nat] /\ inbox \in [Client -> Seq(Msg)] /\ DOMAIN tracker = Peer
      /\ clock'[Host] = next /\ \A c \in Client : clock'[c] = clock[c] /\ tracker'[c] = tracker[c]
  BY <1>2, <1>3 DEF IInv, TInv, HostTypes, NetTypes, LogTypes
<1>5. new \in Msg /\ new.type = "ruling" /\ new.tick = next
  <2>1. new \in RulingMsg
    BY <1>2, <1>4, FilledPlayers DEF RulingMsg, Ruling
  <2> QED
    BY <2>1 DEF Msg, Ruling
<1> HIDE DEF new
<1> SUFFICES ASSUME NEW c \in Client
             PROVE  /\ HandedOnce(stage[c], handshake[c], inbox'[c])
                    /\ MissesNothing(stage[c], inbox'[c], stash[c], clock[c], given[c], tracker[c], next)
  BY <1>3, <1>4 DEF Told, clientVars
<1>6. /\ HandedOnce(stage[c], handshake[c], inbox[c])
      /\ MissesNothing(stage[c], inbox[c], stash[c], clock[c], given[c], tracker[c], clock[Host])
  BY DEF Told
<1>7. CASE stage[c] = "out"
  <2>1. inbox'[c] = inbox[c] /\ inbox[c] = <<>>
    BY <1>2, <1>6, <1>7 DEF Connected, HandedOnce
  <2> QED
    BY <1>6, <1>7, <2>1 DEF MissesNothing
<1>8. CASE stage[c] # "out"
  <2> DEFINE box == inbox[c]
             more == <<new>>
  <2>1. box \in Seq(Msg) /\ more \in Seq(Msg) /\ \A i \in DOMAIN more : more[i].type # "snapshot"
    BY <1>4, <1>5
  <2>2. inbox'[c] = box \o more
    BY <1>2, <1>4, <1>8 DEF Connected
  <2> HIDE DEF box, more
  <2>3. /\ HandedOnce(stage[c], handshake[c], box \o more)
        /\ MissesNothing(stage[c], box \o more, stash[c], clock[c], given[c], tracker[c], clock[Host])
    BY <1>6, <1>8, <2>1, AddedTo DEF box
  <2>4. Coming(next, box \o more, stash[c])
    <3>1. Len(box) + 1 \in DOMAIN (box \o more) /\ (box \o more)[Len(box) + 1] = new
      BY <2>1 DEF more
    <3> QED
      BY <1>5, <3>1 DEF Coming
  <2>5. ASSUME NEW n, NEW t \in (n + 1)..next
        PROVE  t = next \/ t \in (n + 1)..clock[Host]
    BY <1>4
  <2>6. MissesNothing(stage[c], box \o more, stash[c], clock[c], given[c], tracker[c], next)
    <3> DEFINE all == box \o more
    <3>1. MissesNothing(stage[c], all, stash[c], clock[c], given[c], tracker[c], clock[Host]) /\ Coming(next, all, stash[c])
      BY <2>3, <2>4
    <3>2. \A n : \A t \in (n + 1)..next : t = next \/ t \in (n + 1)..clock[Host]
      BY <2>5
    <3> HIDE DEF all, next
    <3>3. stage[c] = "loaded" => \A t \in (clock[c] + 1)..next : t \in DOMAIN tracker[c] \/ Coming(t, all, stash[c])
      BY <3>1, <3>2 DEF MissesNothing
    <3>4. stage[c] = "given" => \A t \in (given[c] + 1)..next : Coming(t, all, stash[c])
      BY <3>1, <3>2 DEF MissesNothing
    <3>5. ASSUME NEW i \in DOMAIN all, all[i].type = "snapshot", NEW t \in (all[i].tick + 1)..next
          PROVE  Coming(t, all, stash[c])
      <4>1. t = next \/ t \in (all[i].tick + 1)..clock[Host]
        BY <3>2, <3>5
      <4> QED
        BY <3>1, <3>5, <4>1 DEF MissesNothing
    <3>6. MissesNothing(stage[c], all, stash[c], clock[c], given[c], tracker[c], next)
      BY <3>3, <3>4, <3>5 DEF MissesNothing
    <3> QED
      BY <3>6 DEF all, next
  <2> QED
    BY <2>2, <2>3, <2>6
<1> QED
  BY <1>7, <1>8

LEMMA HeldPassTold == IInv /\ Told /\ HostHeldPass => Told'
BY ToldKept DEF HostHeldPass, clientVars, netVars

LEMMA ReceiveBatchTold ==
  ASSUME IInv, Told, NEW c \in Client, HostReceiveBatch(c)
  PROVE  Told'
<1> USE Constants
<1>1. \E k : tracker' = [tracker EXCEPT ![Host] = k] \/ tracker' = tracker
  BY Zenon DEF HostReceiveBatch
<1>2. \A d \in Client : tracker'[d] = tracker[d]
  BY <1>1 DEF IInv, TInv, LogTypes
<1> QED
  BY <1>2, ToldKept DEF HostReceiveBatch, clientVars

LEMMA ResizeTold == Told /\ (ResizeHost \/ \E c \in Client : Resize(c)) => Told'
BY ToldKept DEF ResizeHost, Resize, clientVars, netVars, worldVars

LEMMA AskTold == ASSUME Told, NEW what, Ask(what) PROVE Told'
BY ToldKept DEF Ask, clientVars, netVars, worldVars

LEMMA AnswerRequestTold ==
  ASSUME IInv, Told, NEW c \in Client, AnswerRequest(c)
  PROVE  Told'
<1> USE Constants
<1> DEFINE box == inbox[c]
           new == Snapshot(clock[Host])
           rest == Tail(handshake[c])
<1>1. /\ handshake[c] # <<>> /\ Head(handshake[c]).type = "request"
      /\ handshake' = [handshake EXCEPT ![c] = rest]
      /\ UNCHANGED <<clientVars, worldVars>>
      /\ inbox' = inbox \/ inbox' = [inbox EXCEPT ![c] = Append(@, new)]
  BY DEF AnswerRequest
<1>2. /\ HandedOnce(stage[c], handshake[c], box)
      /\ MissesNothing(stage[c], box, stash[c], clock[c], given[c], tracker[c], clock[Host])
      /\ handshake[c] \in Seq(Shake) /\ box \in Seq(Msg) /\ clock[Host] \in Nat
      /\ inbox \in [Client -> Seq(Msg)] /\ handshake \in [Client -> Seq(Shake)]
  BY DEF Told, IInv, TInv, NetTypes, HostTypes
<1>3. /\ stage[c] = "asking" /\ \A j \in DOMAIN box : box[j].type # "snapshot"
      /\ \A i \in DOMAIN rest : rest[i].type # "request"
  <2>1. /\ 1 \in DOMAIN handshake[c] /\ handshake[c][1] = Head(handshake[c])
        /\ \A i \in DOMAIN rest : /\ i + 1 \in DOMAIN handshake[c] /\ i + 1 # 1
                                  /\ rest[i] = handshake[c][i + 1]
    BY <1>1, <1>2
  <2>2. stage[c] = "asking" /\ \A j \in DOMAIN box : box[j].type # "snapshot"
    BY <1>1, <1>2, <2>1 DEF HandedOnce
  <2>3. \A i \in DOMAIN handshake[c] : handshake[c][i].type = "request" => i = 1
    BY <1>2 DEF HandedOnce
  <2> HIDE DEF rest
  <2> QED
    BY <2>1, <2>2, <2>3
<1>4. new.type = "snapshot" /\ new.tick = clock[Host] /\ new \in Msg
  BY <1>2 DEF Snapshot, Msg
<1> HIDE DEF new
<1>5. PICK after : /\ inbox'[c] = after
                   /\ after = box \/ after = Append(box, new)
  BY <1>1, <1>2
<1>6. \A i \in DOMAIN after : (i \in DOMAIN box /\ after[i] = box[i]) \/ (i = Len(box) + 1 /\ after[i] = new)
  <2>1. CASE after = box
    BY <2>1
  <2>2. CASE after = Append(box, new)
    <3> DEFINE ext == Append(box, new)
    <3>1. ASSUME NEW i \in DOMAIN ext
          PROVE  (i \in DOMAIN box /\ ext[i] = box[i]) \/ (i = Len(box) + 1 /\ ext[i] = new)
      <4>1. box \in Seq(Msg) /\ new \in Msg
        BY <1>2, <1>4
      <4> HIDE DEF box
      <4>2. DOMAIN box = 1..Len(box) /\ Len(box) \in Nat
        BY <4>1
      <4>3. DOMAIN ext = 1..(Len(box) + 1) /\ ext[Len(box) + 1] = new /\ \A j \in 1..Len(box) : ext[j] = box[j]
        BY <4>1
      <4> HIDE DEF ext
      <4>4. \A j \in DOMAIN ext : j \in 1..Len(box) \/ j = Len(box) + 1
        BY <4>2, <4>3
      <4>5. CASE i \in 1..Len(box)
        BY <4>2, <4>3, <4>5
      <4>6. CASE i = Len(box) + 1
        BY <4>3, <4>6
      <4> QED
        BY <4>4, <4>5, <4>6
    <3> HIDE DEF ext, box
    <3>2. after = ext
      BY <2>2 DEF ext, box
    <3> QED
      BY <3>1, <3>2
  <2> QED
    BY <1>5, <2>1, <2>2
<1> HIDE DEF box, rest
<1>8. HandedOnce(stage[c], rest, after)
  BY <1>3, <1>6 DEF HandedOnce
<1>9. MissesNothing(stage[c], after, stash[c], clock[c], given[c], tracker[c], clock[Host])
  <2>1. ASSUME NEW i \in DOMAIN after, after[i].type = "snapshot", NEW t \in (after[i].tick + 1)..clock[Host]
        PROVE  Coming(t, after, stash[c])
    <3>1. after[i] = new
      BY <1>3, <1>6, <2>1
    <3>2. FALSE
      BY <1>2, <1>4, <2>1, <3>1
    <3> QED
      BY <3>2
  <2> QED
    BY <1>3, <2>1 DEF MissesNothing
<1>10. UNCHANGED <<stage, stash, clock, given, tracker>>
  BY <1>1 DEF clientVars, worldVars
<1>11. /\ handshake'[c] = rest
       /\ \A d \in Client \ {c} : handshake'[d] = handshake[d] /\ inbox'[d] = inbox[d]
  BY <1>1, <1>2
<1> QED
  BY <1>5, <1>8, <1>9, <1>10, <1>11, OneIsTold

LEMMA AcceptLoadedTold ==
  ASSUME IInv, Told, NEW c \in Client, AcceptLoaded(c)
  PROVE  Told'
<1> USE Constants
<1> DEFINE at == Acceptance(Head(handshake[c]).buffer)
           members == {<<p, joinedAt[p]>> : p \in {q \in Peer : joinedAt[q] # None}}
           newcomer == Participants({<<c, at>>})
           all == Participants(members \cup {<<c, at>>})
           more == <<all, newcomer>> \o CatchUp(c)
           rest == Tail(handshake[c])
<1>1. /\ handshake[c] # <<>> /\ handshake' = [handshake EXCEPT ![c] = rest]
      /\ UNCHANGED <<clientVars, worldVars>>
      /\ \/ inbox' = inbox
         \/ inbox' = [Broadcast(inbox, <<newcomer>>) EXCEPT ![c] = inbox[c] \o <<all, newcomer>> \o CatchUp(c)]
  BY Zenon DEF AcceptLoaded
<1>2. /\ HandedOnce(stage[c], handshake[c], inbox[c])
      /\ handshake[c] \in Seq(Shake) /\ inbox \in [Client -> Seq(Msg)] /\ handshake \in [Client -> Seq(Shake)]
  BY DEF Told, IInv, TInv, NetTypes
<1>3. stage[c] # "out" /\ HandedOnce(stage[c], rest, inbox[c])
  <2>1. /\ \A i \in DOMAIN rest : i + 1 \in DOMAIN handshake[c] /\ i + 1 # 1 /\ rest[i] = handshake[c][i + 1]
    BY <1>1, <1>2
  <2>2. stage[c] # "out"
    BY <1>1, <1>2 DEF HandedOnce
  <2> HIDE DEF rest
  <2>3. \A i \in DOMAIN rest : rest[i].type # "request"
    BY <1>2, <2>1 DEF HandedOnce
  <2> QED
    BY <1>2, <2>2, <2>3 DEF HandedOnce
<1> HIDE DEF rest
<1>4. \A d \in Client : inbox'[d] = inbox[d] \/ (stage[d] # "out" /\ \E xs \in Seq(Msg) :
        /\ \A i \in DOMAIN xs : xs[i].type # "snapshot"
        /\ inbox'[d] = inbox[d] \o xs)
  <2>1. CASE inbox' = inbox
    BY <2>1
  <2>2. CASE inbox' = [Broadcast(inbox, <<newcomer>>) EXCEPT ![c] = inbox[c] \o <<all, newcomer>> \o CatchUp(c)]
    <3>1. newcomer \in Msg /\ newcomer.type # "snapshot" /\ all \in Msg /\ all.type # "snapshot"
      <4>1. at \in Nat
        <5>1. handshake[c][1] \in Shake /\ Head(handshake[c]) = handshake[c][1] /\ handshake[c][1].type = "loaded"
          BY <1>1, <1>2 DEF AcceptLoaded
        <5>2. Head(handshake[c]).buffer \in Nat
          <6> DEFINE h == handshake[c][1]
          <6>1. h \in Shake /\ h.type = "loaded" /\ Head(handshake[c]) = h
            BY <5>1
          <6> HIDE DEF h
          <6>2. h.buffer \in Nat
            BY <6>1 DEF Shake
          <6> QED
            BY <6>1, <6>2
        <5>3. clock[Host] \in Nat /\ lastBroadcast \in Nat /\ hostBuffer \in Nat
          BY DEF IInv, TInv, HostTypes, NothingIsOwed
        <5>4. \A b \in Nat : Acceptance(b) \in Nat
          BY <5>3 DEF Acceptance, RuledThrough, Max2
        <5> QED
          BY <5>2, <5>4
      <4>2. members \subseteq Peer \X Nat /\ {<<c, at>>} \subseteq Peer \X Nat
        BY <4>1 DEF IInv, TInv, HostTypes
      <4> HIDE DEF members, at
      <4>3. members \cup {<<c, at>>} \in SUBSET (Peer \X Nat) /\ {<<c, at>>} \in SUBSET (Peer \X Nat)
        BY <4>2
      <4>4. \A w \in SUBSET (Peer \X Nat) : Participants(w) \in Msg /\ Participants(w).type # "snapshot"
        BY DEF Participants, Msg
      <4> QED
        BY <4>3, <4>4
    <3>2. CatchUp(c) \in Seq(Msg) /\ \A i \in DOMAIN CatchUp(c) : CatchUp(c)[i].type # "snapshot"
      BY <1>2, CaughtUp
    <3> HIDE DEF all, newcomer
    <3> DEFINE up == CatchUp(c)
    <3>3. up \in Seq(Msg) /\ \A i \in DOMAIN up : up[i].type # "snapshot"
      BY <3>2
    <3>4. inbox'[c] = inbox[c] \o <<all, newcomer>> \o up
      BY <1>2, <2>2 DEF Broadcast
    <3> HIDE DEF up
    <3>5. inbox'[c] = inbox[c] \o (<<all, newcomer>> \o up) /\ <<all, newcomer>> \o up \in Seq(Msg)
      BY <1>2, <3>1, <3>3, <3>4
    <3>6. \A i \in DOMAIN (<<all, newcomer>> \o up) : (<<all, newcomer>> \o up)[i].type # "snapshot"
      <4> DEFINE xs == <<all, newcomer>> \o up
      <4>1. /\ DOMAIN up = 1..Len(up) /\ Len(up) \in Nat /\ DOMAIN xs = 1..(2 + Len(up))
            /\ xs[1] = all /\ xs[2] = newcomer /\ \A i \in DOMAIN up : xs[i + 2] = up[i]
        BY <3>1, <3>3
      <4> HIDE DEF xs
      <4>2. ASSUME NEW i \in DOMAIN xs PROVE xs[i].type # "snapshot"
        <5>1. i = 1 \/ i = 2 \/ (i - 2 \in DOMAIN up /\ i = (i - 2) + 2)
          BY <4>1
        <5>2. i - 2 \in DOMAIN up => xs[(i - 2) + 2] = up[i - 2]
          BY <4>1
        <5> QED
          BY <3>1, <3>3, <4>1, <5>1, <5>2
      <4> QED
        BY <4>2 DEF xs
    <3>7. \A d \in Client \ {c} : inbox'[d] = inbox[d] \/ (stage[d] # "out" /\ inbox'[d] = inbox[d] \o <<newcomer>>)
      BY <1>2, <2>2, Zenon DEF Broadcast, Connected
    <3>8. <<newcomer>> \in Seq(Msg) /\ \A i \in DOMAIN <<newcomer>> : <<newcomer>>[i].type # "snapshot"
      BY <3>1
    <3> QED
      BY <1>3, <3>5, <3>6, <3>7, <3>8, Zenon
  <2> QED
    BY <1>1, <2>1, <2>2, Zenon
<1>5. ASSUME NEW d \in Client
      PROVE  /\ HandedOnce(stage[d], handshake'[d], inbox'[d])
             /\ MissesNothing(stage[d], inbox'[d], stash[d], clock[d], given[d], tracker[d], clock[Host])
  <2>1. HandedOnce(stage[d], handshake'[d], inbox[d])
    <3>1. CASE d = c
      BY <1>1, <1>2, <1>3, <3>1
    <3>2. CASE d # c
      BY <1>1, <1>2, <3>2 DEF Told
    <3> QED
      BY <3>1, <3>2
  <2>2. MissesNothing(stage[d], inbox[d], stash[d], clock[d], given[d], tracker[d], clock[Host])
    BY DEF Told
  <2>3. CASE inbox'[d] = inbox[d]
    BY <2>1, <2>2, <2>3
  <2>4. ASSUME NEW xs \in Seq(Msg), stage[d] # "out", \A i \in DOMAIN xs : xs[i].type # "snapshot",
               inbox'[d] = inbox[d] \o xs
        PROVE  /\ HandedOnce(stage[d], handshake'[d], inbox'[d])
               /\ MissesNothing(stage[d], inbox'[d], stash[d], clock[d], given[d], tracker[d], clock[Host])
    <3> DEFINE box == inbox[d]
    <3>1. box \in Seq(Msg)
      BY <1>2
    <3> HIDE DEF box
    <3>2. /\ HandedOnce(stage[d], handshake'[d], box \o xs)
          /\ MissesNothing(stage[d], box \o xs, stash[d], clock[d], given[d], tracker[d], clock[Host])
      BY <2>1, <2>2, <2>4, <3>1, AddedTo, Zenon DEF box
    <3> QED
      BY <2>4, <3>2 DEF box
  <2> QED
    BY <1>4, <2>3, <2>4, Zenon
<1> QED
  BY <1>1, <1>5 DEF Told, clientVars, worldVars

LEMMA GoneTold ==
  ASSUME IInv, Told, NEW c \in Client, Disconnect(c)
  PROVE  Told'
<1> USE Constants
<1>1. /\ stage' = [stage EXCEPT ![c] = "out"] /\ given' = [given EXCEPT ![c] = None]
      /\ stash' = [stash EXCEPT ![c] = <<>>] /\ tracker' = [tracker EXCEPT ![c] = Empty]
      /\ handshake' = [handshake EXCEPT ![c] = <<>>] /\ inbox' = [inbox EXCEPT ![c] = <<>>]
      /\ clock' = clock
  BY DEF Disconnect
<1>2. /\ stage'[c] = "out" /\ handshake'[c] = <<>> /\ inbox'[c] = <<>>
      /\ \A d \in Client \ {c} :
           /\ stage'[d] = stage[d] /\ handshake'[d] = handshake[d] /\ inbox'[d] = inbox[d]
           /\ stash'[d] = stash[d] /\ given'[d] = given[d] /\ tracker'[d] = tracker[d]
  BY <1>1 DEF IInv, TInv, LogTypes, ClientTypes, NetTypes
<1>3. /\ HandedOnce(stage'[c], handshake'[c], inbox'[c])
      /\ MissesNothing(stage'[c], inbox'[c], stash'[c], clock'[c], given'[c], tracker'[c], clock[Host])
  BY <1>2 DEF HandedOnce, MissesNothing
<1> QED
  BY <1>1, <1>2, <1>3, OneIsTold

LEMMA ConnectTold ==
  ASSUME IInv, Told, NEW c \in Client, Connect(c)
  PROVE  Told'
<1> USE Constants
<1>1. /\ stage[c] = "out" /\ stage' = [stage EXCEPT ![c] = "asking"]
      /\ handshake' = [handshake EXCEPT ![c] = <<[type |-> "request"]>>]
      /\ UNCHANGED <<given, stash, inbox, tracker>>
      /\ \E t \in MenuClock : clock' = [clock EXCEPT ![c] = t]
  BY Zenon DEF Connect
<1>2. /\ stage'[c] = "asking" /\ handshake'[c] = <<[type |-> "request"]>> /\ inbox'[c] = <<>>
      /\ clock'[Host] = clock[Host]
      /\ \A d \in Client \ {c} : stage'[d] = stage[d] /\ handshake'[d] = handshake[d] /\ clock'[d] = clock[d]
  BY <1>1 DEF IInv, TInv, HostTypes, ClientTypes, NetTypes, Told, HandedOnce
<1>3. HandedOnce(stage'[c], handshake'[c], inbox'[c])
  <2>1. \A i \in DOMAIN handshake'[c] : i = 1
    BY <1>2
  <2> QED
    BY <1>2, <2>1 DEF HandedOnce
<1>4. MissesNothing(stage'[c], inbox'[c], stash'[c], clock'[c], given'[c], tracker'[c], clock[Host])
  BY <1>2 DEF MissesNothing
<1> QED
  BY <1>1, <1>2, <1>3, <1>4, OneIsTold

(* A ruling taken is stashed, or in the tracker.                             *)
LEMMA ReceiveRulingTold ==
  ASSUME IInv, Told, NEW c \in Client, ReceiveRuling(c)
  PROVE  Told'
<1> USE Constants
<1> DEFINE box == inbox[c]
           m == Head(box)
<1>1. /\ box # <<>> /\ m.type = "ruling" /\ inbox' = [inbox EXCEPT ![c] = Tail(@)]
      /\ UNCHANGED <<stage, given, handshake, clock>>
      /\ \/ stage[c] = "loaded" /\ Apply(c, <<m>>) /\ UNCHANGED <<stash, roster>>
         \/ stage[c] # "loaded" /\ stash' = [stash EXCEPT ![c] = Append(@, m)] /\ UNCHANGED tracker
  BY DEF ReceiveRuling
<1>2. /\ inbox \in [Client -> Seq(Msg)] /\ box \in Seq(Msg) /\ stash \in [Client -> Seq(RulingMsg)]
      /\ DOMAIN tracker = Peer
      /\ HandedOnce(stage[c], handshake[c], box)
      /\ MissesNothing(stage[c], box, stash[c], clock[c], given[c], tracker[c], clock[Host])
  BY DEF IInv, TInv, NetTypes, ClientTypes, LogTypes, Told
<1>3. /\ m \in RulingMsg
      /\ \A i \in DOMAIN <<m>> : IsTrue(<<m>>[i], clock[Host], ran[Host])
  <2>1. /\ 1 \in DOMAIN box /\ m = box[1]
    BY <1>1, <1>2
  <2>2. m \in Msg
    BY <1>2, <2>1
  <2>3. IsTrue(m, clock[Host], ran[Host])
    BY <2>1 DEF IInv, Truth, RulingsAreTrue
  <2> HIDE DEF m
  <2>4. m \in RulingMsg
    BY <1>1, <2>2 DEF Msg
  <2> QED
    BY <2>3, <2>4
<1>4. stage[c] # "out"
  BY <1>1, <1>2 DEF HandedOnce
<1>5. /\ inbox'[c] = Tail(box)
      /\ \A d \in Client \ {c} : inbox'[d] = inbox[d] /\ stash'[d] = stash[d] /\ tracker'[d] = tracker[d]
  BY <1>1, <1>2 DEF Apply
<1> HIDE DEF box, m
<1>6. /\ \A held, t : m.type # "ruling" \/ m.tick # t => (Coming(t, box, held) => Coming(t, Tail(box), held))
      /\ HandedOnce(stage[c], handshake[c], Tail(box))
      /\ \A i \in DOMAIN Tail(box) : \E j \in DOMAIN box : Tail(box)[i] = box[j]
  BY <1>1, <1>2, <1>4, TakenFrom DEF m
<1>7. CASE stage[c] = "loaded" /\ Apply(c, <<m>>) /\ UNCHANGED <<stash, roster>>
  <2>1. DOMAIN tracker'[c] = DOMAIN tracker[c] \cup {m.tick}
    <3> DEFINE ms == <<m>>
    <3>1. ms \in Seq(RulingMsg) /\ \A i \in DOMAIN ms : IsTrue(ms[i], clock[Host], ran[Host])
      BY <1>3
    <3>2. Apply(c, ms) /\ roster' = roster
      BY <1>7
    <3>3. {ms[i].tick : i \in DOMAIN ms} = {m.tick}
      OBVIOUS
    <3> HIDE DEF ms
    <3>4. DOMAIN tracker'[c] = DOMAIN tracker[c] \cup {ms[i].tick : i \in DOMAIN ms}
      BY <3>1, <3>2, ApplyIsTrue
    <3> QED
      BY <3>3, <3>4
  <2>2. \A i \in DOMAIN Tail(box) : Tail(box)[i].type # "snapshot"
    BY <1>2, <1>6, <1>7 DEF HandedOnce
  <2>3. \A t \in (clock[c] + 1)..clock[Host] : t \in DOMAIN tracker'[c] \/ Coming(t, Tail(box), stash[c])
    BY <1>2, <1>6, <1>7, <2>1 DEF MissesNothing
  <2>4. MissesNothing(stage[c], Tail(box), stash[c], clock[c], given[c], tracker'[c], clock[Host])
    BY <1>7, <2>2, <2>3 DEF MissesNothing
  <2> QED
    BY <1>1, <1>5, <1>6, <1>7, <2>4, OneIsTold, Zenon
<1>8. CASE stage[c] # "loaded" /\ stash' = [stash EXCEPT ![c] = Append(@, m)] /\ UNCHANGED tracker
  <2>1. stash[c] \in Seq(RulingMsg) /\ stash'[c] = Append(stash[c], m)
    BY <1>2, <1>8
  <2>2. /\ \A i \in DOMAIN stash[c] : i \in DOMAIN stash'[c] /\ stash'[c][i] = stash[c][i]
        /\ \E i \in DOMAIN stash'[c] : stash'[c][i] = m
    BY <1>3, <2>1, SMTT(30)
  <2>3. ASSUME NEW t, Coming(t, box, stash[c]) PROVE Coming(t, Tail(box), stash'[c])
    <3>1. CASE m.tick = t
      BY <2>2, <3>1 DEF Coming
    <3>2. CASE m.tick # t
      <4>1. Coming(t, Tail(box), stash[c])
        BY <1>6, <2>3, <3>2
      <4> QED
        BY <2>2, <4>1 DEF Coming
    <3> QED
      BY <3>1, <3>2
  <2>4. ASSUME NEW i \in DOMAIN Tail(box), Tail(box)[i].type = "snapshot",
               NEW t \in (Tail(box)[i].tick + 1)..clock[Host]
        PROVE  Coming(t, Tail(box), stash'[c])
    <3>1. PICK j \in DOMAIN box : Tail(box)[i] = box[j]
      BY <1>6
    <3> QED
      BY <1>2, <2>3, <2>4, <3>1 DEF MissesNothing
  <2>5. MissesNothing(stage[c], Tail(box), stash'[c], clock[c], given[c], tracker[c], clock[Host])
    BY <1>2, <1>8, <2>3, <2>4 DEF MissesNothing
  <2> QED
    BY <1>1, <1>5, <1>6, <1>8, <2>5, OneIsTold, Zenon
<1> QED
  BY <1>1, <1>7, <1>8 DEF m, box

LEMMA ReplayStashTold ==
  ASSUME IInv, Told, NEW c \in Client, ReplayStash(c)
  PROVE  Told'
<1> USE Constants
<1>1. /\ stage[c] = "loaded" /\ Apply(c, stash[c]) /\ stash' = [stash EXCEPT ![c] = <<>>] /\ roster' = roster
      /\ UNCHANGED <<stage, given, handshake, inbox, clock>>
  BY DEF ReplayStash, netVars
<1>2. /\ stash \in [Client -> Seq(RulingMsg)] /\ stash[c] \in Seq(RulingMsg) /\ DOMAIN tracker = Peer
      /\ \A i \in DOMAIN stash[c] : IsTrue(stash[c][i], clock[Host], ran[Host])
      /\ HandedOnce(stage[c], handshake[c], inbox[c])
      /\ MissesNothing(stage[c], inbox[c], stash[c], clock[c], given[c], tracker[c], clock[Host])
  BY DEF IInv, TInv, ClientTypes, LogTypes, Truth, RulingsAreTrue, Told
<1>3. /\ DOMAIN tracker'[c] = DOMAIN tracker[c] \cup {stash[c][i].tick : i \in DOMAIN stash[c]}
      /\ \A p \in Peer \ {c} : tracker'[p] = tracker[p]
  BY <1>1, <1>2, ApplyIsTrue
<1>4. stash'[c] = <<>> /\ \A d \in Client \ {c} : stash'[d] = stash[d] /\ tracker'[d] = tracker[d]
  BY <1>1, <1>2, <1>3
<1>5. \A t \in (clock[c] + 1)..clock[Host] : t \in DOMAIN tracker'[c] \/ Coming(t, inbox[c], <<>>)
  BY <1>1, <1>2, <1>3 DEF MissesNothing, Coming
<1>6. \A i \in DOMAIN inbox[c] : inbox[c][i].type # "snapshot"
  BY <1>1, <1>2 DEF HandedOnce
<1>7. MissesNothing(stage[c], inbox[c], <<>>, clock[c], given[c], tracker'[c], clock[Host])
  BY <1>1, <1>5, <1>6 DEF MissesNothing
<1> QED
  BY <1>1, <1>2, <1>4, <1>7, OneIsTold

(* What is no ruling is taken from nobody.                                   *)
LEMMA TakenTold ==
  ASSUME IInv, Told, NEW c \in Client, inbox[c] # <<>>, inbox' = [inbox EXCEPT ![c] = Tail(@)],
         Head(inbox[c]).type # "ruling"
  PROVE  /\ HandedOnce(stage[c], handshake[c], inbox'[c])
         /\ \A d \in Client \ {c} : inbox'[d] = inbox[d]
         /\ \A t : Coming(t, inbox[c], stash[c]) => Coming(t, inbox'[c], stash[c])
         /\ \A i \in DOMAIN inbox'[c] : \E j \in DOMAIN inbox[c] : inbox'[c][i] = inbox[c][j]
         /\ Head(inbox[c]).type = "snapshot" => \A i \in DOMAIN inbox'[c] : inbox'[c][i].type # "snapshot"
<1>1. /\ inbox[c] \in Seq(Msg) /\ inbox'[c] = Tail(inbox[c]) /\ \A d \in Client \ {c} : inbox'[d] = inbox[d]
      /\ HandedOnce(stage[c], handshake[c], inbox[c]) /\ stage[c] # "out"
  BY DEF IInv, TInv, NetTypes, Told, HandedOnce
<1>2. /\ \A held, t : \/ Head(inbox[c]).type # "ruling" \/ Head(inbox[c]).tick # t
                     => (Coming(t, inbox[c], held) => Coming(t, Tail(inbox[c]), held))
      /\ HandedOnce(stage[c], handshake[c], Tail(inbox[c]))
      /\ Head(inbox[c]).type = "snapshot" => \A i \in DOMAIN Tail(inbox[c]) : Tail(inbox[c])[i].type # "snapshot"
      /\ \A i \in DOMAIN Tail(inbox[c]) : \E j \in DOMAIN inbox[c] : Tail(inbox[c])[i] = inbox[c][j]
  BY <1>1, TakenFrom, Zenon
<1> QED
  BY <1>1, <1>2, Zenon

LEMMA ReceiveParticipantsTold ==
  ASSUME IInv, Told, NEW c \in Client, ReceiveParticipants(c)
  PROVE  Told'
<1>1. /\ inbox[c] # <<>> /\ Head(inbox[c]).type = "participants" /\ inbox' = [inbox EXCEPT ![c] = Tail(@)]
      /\ UNCHANGED <<stage, given, stash, handshake, clock, tracker>>
  BY DEF ReceiveParticipants, clientVars
<1>2. /\ HandedOnce(stage[c], handshake[c], inbox'[c])
      /\ \A d \in Client \ {c} : inbox'[d] = inbox[d]
      /\ \A t : Coming(t, inbox[c], stash[c]) => Coming(t, inbox'[c], stash[c])
      /\ \A i \in DOMAIN inbox'[c] : \E j \in DOMAIN inbox[c] : inbox'[c][i] = inbox[c][j]
  BY <1>1, TakenTold, Zenon
<1>3. MissesNothing(stage[c], inbox[c], stash[c], clock[c], given[c], tracker[c], clock[Host])
  BY DEF Told
<1>4. ASSUME NEW i \in DOMAIN inbox'[c], inbox'[c][i].type = "snapshot",
             NEW t \in (inbox'[c][i].tick + 1)..clock[Host]
      PROVE  Coming(t, inbox'[c], stash[c])
  BY <1>2, <1>3, <1>4 DEF MissesNothing
<1>5. MissesNothing(stage[c], inbox'[c], stash[c], clock[c], given[c], tracker[c], clock[Host])
  BY <1>2, <1>3, <1>4 DEF MissesNothing
<1> QED
  BY <1>1, <1>2, <1>5, OneIsTold

LEMMA ReceiveSnapshotTold ==
  ASSUME IInv, Told, NEW c \in Client, ReceiveSnapshot(c)
  PROVE  Told'
<1> USE Constants
<1> DEFINE m == Head(inbox[c])
<1>1. /\ inbox[c] # <<>> /\ m.type = "snapshot" /\ inbox' = [inbox EXCEPT ![c] = Tail(@)]
      /\ stage' = [stage EXCEPT ![c] = "given"] /\ given' = [given EXCEPT ![c] = m.tick]
      /\ UNCHANGED <<stash, handshake, clock, tracker>>
  BY DEF ReceiveSnapshot, worldVars
<1>2. /\ HandedOnce(stage[c], handshake[c], inbox'[c])
      /\ \A d \in Client \ {c} : inbox'[d] = inbox[d]
      /\ \A t : Coming(t, inbox[c], stash[c]) => Coming(t, inbox'[c], stash[c])
      /\ \A i \in DOMAIN inbox'[c] : inbox'[c][i].type # "snapshot"
  BY <1>1, TakenTold, Zenon
<1>3. /\ stage'[c] = "given" /\ given'[c] = m.tick
      /\ \A d \in Client \ {c} : stage'[d] = stage[d] /\ given'[d] = given[d]
      /\ inbox[c] \in Seq(Msg)
  BY <1>1 DEF IInv, TInv, ClientTypes, NetTypes
<1>4. 1 \in DOMAIN inbox[c] /\ inbox[c][1] = m
  BY <1>1, <1>3
<1>5. /\ HandedOnce(stage[c], handshake[c], inbox[c])
      /\ MissesNothing(stage[c], inbox[c], stash[c], clock[c], given[c], tracker[c], clock[Host])
  BY DEF Told
<1> HIDE DEF m
<1>6. HandedOnce("given", handshake[c], inbox'[c])
  <2>1. \A i \in DOMAIN handshake[c] : handshake[c][i].type # "request"
    BY <1>1, <1>4, <1>5 DEF HandedOnce
  <2> QED
    BY <1>2, <2>1 DEF HandedOnce
<1>7. \A t \in (m.tick + 1)..clock[Host] : Coming(t, inbox'[c], stash[c])
  BY <1>1, <1>2, <1>4, <1>5 DEF MissesNothing
<1>8. MissesNothing("given", inbox'[c], stash[c], clock[c], m.tick, tracker[c], clock[Host])
  BY <1>2, <1>7 DEF MissesNothing
<1> QED
  BY <1>1, <1>2, <1>3, <1>6, <1>8, OneIsTold

LEMMA ApplySnapshotTold ==
  ASSUME IInv, Told, NEW c \in Client, ApplySnapshot(c)
  PROVE  Told'
<1> USE Constants
<1> DEFINE word == [type |-> "loaded", buffer |-> buffer[c]]
<1>1. /\ stage[c] = "given" /\ stage' = [stage EXCEPT ![c] = "loaded"] /\ given' = [given EXCEPT ![c] = None]
      /\ clock' = [clock EXCEPT ![c] = given[c]] /\ tracker' = [tracker EXCEPT ![c] = Empty]
      /\ handshake' = [handshake EXCEPT ![c] = Append(@, word)]
      /\ UNCHANGED <<stash, inbox>>
  BY DEF ApplySnapshot
<1>2. /\ stage'[c] = "loaded" /\ clock'[c] = given[c] /\ handshake'[c] = Append(handshake[c], word)
      /\ clock'[Host] = clock[Host]
      /\ \A d \in Client \ {c} : /\ stage'[d] = stage[d] /\ given'[d] = given[d] /\ clock'[d] = clock[d]
                                 /\ handshake'[d] = handshake[d] /\ tracker'[d] = tracker[d]
      /\ handshake[c] \in Seq(Shake)
  BY <1>1 DEF IInv, TInv, HostTypes, LogTypes, ClientTypes, NetTypes
<1>3. /\ HandedOnce("given", handshake[c], inbox[c])
      /\ MissesNothing("given", inbox[c], stash[c], clock[c], given[c], tracker[c], clock[Host])
  BY <1>1 DEF Told
<1>4. /\ \A i \in DOMAIN handshake[c] : handshake[c][i].type # "request"
      /\ \A i \in DOMAIN inbox[c] : inbox[c][i].type # "snapshot"
  BY <1>3 DEF HandedOnce
<1>5. \A i \in DOMAIN handshake'[c] : handshake'[c][i].type # "request"
  <2>1. word.type = "loaded" /\ word \in Shake
    BY Zenon DEF Shake, IInv, TInv, ClientTypes
  <2> HIDE DEF word
  <2>2. \A i \in DOMAIN handshake'[c] : handshake'[c][i] = word \/ (i \in DOMAIN handshake[c] /\ handshake'[c][i] = handshake[c][i])
    BY <1>2, <2>1
  <2> QED
    BY <1>4, <2>1, <2>2
<1>6. HandedOnce("loaded", handshake'[c], inbox[c])
  BY <1>4, <1>5 DEF HandedOnce
<1>7. MissesNothing("loaded", inbox[c], stash[c], given[c], given'[c], tracker'[c], clock[Host])
  BY <1>3, <1>4 DEF MissesNothing
<1> QED
  BY <1>1, <1>2, <1>6, <1>7, OneIsTold, Zenon

LEMMA ClientPassTold ==
  ASSUME IInv, Told, NEW c \in Client, ClientPass(c)
  PROVE  Told'
<1> USE Constants
<1> DEFINE next == clock[c] + 1
<1>1. /\ stage[c] = "loaded" /\ clock' = [clock EXCEPT ![c] = next]
      /\ tracker' = [tracker EXCEPT ![c] = RestrictDomain(@, LAMBDA t : t + TrustWindow >= next)]
      /\ UNCHANGED <<stage, given, stash, handshake, inbox>>
  BY DEF ClientPass, MayRun, RunTick
<1>2. /\ clock[c] \in Nat /\ clock[Host] \in Nat /\ TrustWindow \in Nat
      /\ clock'[Host] = clock[Host] /\ clock'[c] = next
      /\ \A d \in Client \ {c} : clock'[d] = clock[d] /\ tracker'[d] = tracker[d]
      /\ HandedOnce(stage[c], handshake[c], inbox[c])
      /\ MissesNothing(stage[c], inbox[c], stash[c], clock[c], given[c], tracker[c], clock[Host])
  BY <1>1, BoundAssumption, Zenon DEF IInv, TInv, HostTypes, LogTypes, Told
<1>3. DOMAIN tracker'[c] = {t \in DOMAIN tracker[c] : t + TrustWindow >= next}
  <2>1. tracker'[c] = RestrictDomain(tracker[c], LAMBDA t : t + TrustWindow >= next)
    BY <1>1 DEF IInv, TInv, LogTypes
  <2> HIDE DEF next
  <2> QED
    BY <2>1 DEF RestrictDomain, Restrict
<1>4. ASSUME NEW t \in (next + 1)..clock[Host]
      PROVE  t \in DOMAIN tracker'[c] \/ Coming(t, inbox[c], stash[c])
  <2>1. t \in (clock[c] + 1)..clock[Host] /\ t + TrustWindow >= next
    BY <1>2
  <2> QED
    BY <1>1, <1>2, <1>3, <2>1, Zenon DEF MissesNothing
<1> HIDE DEF next
<1>5. MissesNothing(stage[c], inbox[c], stash[c], next, given[c], tracker'[c], clock[Host])
  BY <1>1, <1>2, <1>4, Zenon DEF MissesNothing
<1> QED
  BY <1>1, <1>2, <1>5, OneIsTold, Zenon

LEMMA NextTold == IInv /\ Told /\ [Next]_vars => Told'
<1> SUFFICES ASSUME IInv, Told, [Next]_vars PROVE Told'
  OBVIOUS
<1>1. CASE UNCHANGED vars
  BY <1>1, ToldKept DEF vars, clientVars, netVars, worldVars
<1>2. CASE HostTick
  BY <1>2, HostTickTold
<1>3. CASE HostHeldPass
  BY <1>3, HeldPassTold
<1>4. CASE ResizeHost
  BY <1>4, ResizeTold
<1>5. ASSUME NEW what \in {"pause", "resume"}, Ask(what) PROVE Told'
  BY <1>5, AskTold
<1>6. ASSUME NEW c \in Client, HostStep(c) PROVE Told'
  BY <1>6, ReceiveBatchTold, AnswerRequestTold, AcceptLoadedTold DEF HostStep
<1>7. ASSUME NEW c \in Client, ClientStep(c) PROVE Told'
  BY <1>7, ReceiveRulingTold, ReplayStashTold, ReceiveParticipantsTold, ReceiveSnapshotTold,
     ApplySnapshotTold, ClientPassTold DEF ClientStep
<1>8. ASSUME NEW c \in Client, Connect(c) \/ Leave(c) \/ Kick(c) \/ Resize(c) PROVE Told'
  BY <1>8, ConnectTold, GoneTold, ResizeTold DEF Leave, Kick
<1> QED
  BY <1>1, <1>2, <1>3, <1>4, <1>5, <1>6, <1>7, <1>8 DEF Next

(* What is held and what is on the way are both found in the two put         *)
(* together.                                                                 *)
LEMMA BothParts ==
  ASSUME NEW box \in Seq(Msg), NEW held \in Seq(Msg)
  PROVE  /\ \A i \in DOMAIN box : i \in DOMAIN (box \o held) /\ (box \o held)[i] = box[i]
         /\ \A i \in DOMAIN held : /\ Len(box) + i \in DOMAIN (box \o held)
                                  /\ (box \o held)[Len(box) + i] = held[i]
<1> DEFINE both == box \o held
<1>1. /\ DOMAIN box = 1..Len(box) /\ DOMAIN held = 1..Len(held) /\ Len(box) \in Nat /\ Len(held) \in Nat
      /\ DOMAIN both = 1..(Len(box) + Len(held))
      /\ \A i \in DOMAIN both : both[i] = IF i <= Len(box) THEN box[i] ELSE held[i - Len(box)]
  OBVIOUS
<1> HIDE DEF both
<1>2. \A i \in DOMAIN box : i \in DOMAIN both /\ both[i] = box[i]
  BY <1>1
<1>3. ASSUME NEW i \in DOMAIN held
      PROVE  Len(box) + i \in DOMAIN both /\ both[Len(box) + i] = held[i]
  <2>1. /\ i \in Nat /\ Len(box) + i \in DOMAIN both /\ ~(Len(box) + i <= Len(box))
        /\ (Len(box) + i) - Len(box) = i
    BY <1>1
  <2> QED
    BY <1>1, <2>1
<1> QED
  BY <1>2, <1>3 DEF both

(* Whoever has loaded can go on: every tick the host has run and it has not  *)
(* is in its tracker, its stash or on the way, wherever its snapshot fell    *)
(* between the rulings.                                                      *)
THEOREM NothingIsLeftOut == Spec => []NoHoles
<1>1. Init => Told
  BY ToldInit
<1>2. IInv /\ Told /\ [Next]_vars => Told'
  BY NextTold
<1>3. IInv /\ Told => NoHoles
  <2> SUFFICES ASSUME IInv, Told, NEW c \in Client, stage[c] = "loaded", NEW t \in (clock[c] + 1)..clock[Host]
               PROVE  t \in DOMAIN tracker[c] \cup OnTheWay(c)
    BY DEF NoHoles
  <2>1. t \in DOMAIN tracker[c] \/ Coming(t, inbox[c], stash[c])
    BY DEF Told, MissesNothing
  <2>2. inbox[c] \in Seq(Msg) /\ stash[c] \in Seq(RulingMsg) /\ stash[c] \in Seq(Msg)
    BY DEF IInv, TInv, NetTypes, ClientTypes, Msg
  <2> DEFINE both == inbox[c] \o stash[c]
  <2>3. ASSUME NEW i \in DOMAIN both, both[i].type = "ruling", both[i].tick = t
        PROVE  t \in OnTheWay(c)
    BY <2>3, Zenon DEF OnTheWay, ToSet
  <2>4. CASE \E i \in DOMAIN inbox[c] : inbox[c][i].type = "ruling" /\ inbox[c][i].tick = t
    <3>1. PICK i \in DOMAIN inbox[c] : inbox[c][i].type = "ruling" /\ inbox[c][i].tick = t
      BY <2>4
    <3>2. i \in DOMAIN both /\ both[i] = inbox[c][i]
      BY <2>2, BothParts, Zenon
    <3> QED
      BY <2>3, <3>1, <3>2, Zenon
  <2>5. CASE \E i \in DOMAIN stash[c] : stash[c][i].tick = t
    <3>1. PICK i \in DOMAIN stash[c] : stash[c][i].tick = t
      BY <2>5
    <3>2. stash[c][i] \in RulingMsg
      BY <2>2
    <3>3. stash[c][i].type = "ruling"
      BY <3>2 DEF RulingMsg
    <3>4. Len(inbox[c]) + i \in DOMAIN both /\ both[Len(inbox[c]) + i] = stash[c][i]
      BY <2>2, BothParts, Zenon
    <3> QED
      BY <2>3, <3>1, <3>3, <3>4, Zenon
  <2> QED
    BY <2>1, <2>4, <2>5 DEF Coming
<1> QED
  BY <1>1, <1>2, <1>3, Invariance, PTL DEF Spec

-----------------------------------------------------------------------------
(* THE PAUSE *)

(* Actions about players leave the pause as it was.                          *)
LEMMA OthersDoNotPause ==
  ASSUME NEW old, NEW s \in Seq(SysAct), NEW a \in Seq(SysAct),
         \A i \in DOMAIN a : a[i].kind \in {"joined", "left"}
  PROVE  PausedAfter(old, s \o a) = PausedAfter(old, s)
<1> DEFINE both == s \o a
<1>1. /\ DOMAIN s = 1..Len(s) /\ DOMAIN a = 1..Len(a) /\ Len(s) \in Nat /\ Len(a) \in Nat
      /\ DOMAIN both = 1..(Len(s) + Len(a))
      /\ \A i \in DOMAIN both : both[i] = IF i <= Len(s) THEN s[i] ELSE a[i - Len(s)]
  OBVIOUS
<1> HIDE DEF both
<1>2. ASSUME NEW i \in DOMAIN both, ~(i <= Len(s)) PROVE both[i].kind \in {"joined", "left"}
  <2>1. i - Len(s) \in DOMAIN a
    BY <1>1, <1>2
  <2> QED
    BY <1>1, <1>2, <2>1
<1>3. \A i \in DOMAIN both : i <= Len(s) => i \in DOMAIN s /\ both[i] = s[i]
  BY <1>1
<1>4. \A i \in DOMAIN s : i \in DOMAIN both /\ i <= Len(s)
  BY <1>1
<1>5. AboutPause(both) = AboutPause(s)
  BY <1>2, <1>3, <1>4 DEF AboutPause
<1>6. CASE AboutPause(s) = {}
  BY <1>5, <1>6 DEF PausedAfter, both
<1>7. CASE AboutPause(s) # {}
  <2>1. AboutPause(s) \in SUBSET (1..Len(s))
    BY <1>1 DEF AboutPause
  <2>2. Max(AboutPause(s)) \in AboutPause(s)
    BY <1>1, <1>7, <2>1, MaxIs, Zenon
  <2>3. both[Max(AboutPause(s))] = s[Max(AboutPause(s))]
    BY <1>3, <1>4, <2>2 DEF AboutPause
  <2> QED
    BY <1>5, <1>7, <2>3 DEF PausedAfter, both
<1> QED
  BY <1>6, <1>7

(* A pause or a resume that comes last decides.                              *)
LEMMA LastDecides ==
  ASSUME NEW old, NEW s \in Seq(SysAct), NEW a \in {Pause, Resume}
  PROVE  PausedAfter(old, s \o <<a>>) = (a.kind = "pause")
<1> DEFINE both == s \o <<a>>
           n == Len(s) + 1
<1>1. /\ Len(s) \in Nat /\ n \in Nat /\ 1 <= n /\ DOMAIN both = 1..n /\ both[n] = a
      /\ a.kind \in {"pause", "resume"}
  BY DEF Pause, Resume
<1> HIDE DEF both, n
<1>2. n \in AboutPause(both) /\ AboutPause(both) \in SUBSET (1..n) /\ AboutPause(both) # {}
  <2>1. AboutPause(both) \subseteq 1..n
    BY <1>1 DEF AboutPause
  <2>2. n \in DOMAIN both /\ both[n].kind \in {"pause", "resume"}
    BY <1>1
  <2>3. n \in AboutPause(both)
    BY <2>2 DEF AboutPause
  <2> QED
    BY <2>1, <2>3
<1>3. Max(AboutPause(both)) \in AboutPause(both) /\ n <= Max(AboutPause(both))
  BY <1>1, <1>2, MaxIs, Zenon
<1>4. Max(AboutPause(both)) = n
  BY <1>1, <1>2, <1>3
<1> QED
  BY <1>1, <1>2, <1>4 DEF PausedAfter, both

(* What a pass stages says of the pause what was asked, and nothing more.    *)
LEMMA StagedPauses ==
  ASSUME HostTypes, \A i \in DOMAIN departures : departures[i].kind = "left",
         NEW old, NEW s \in Seq(SysAct), NEW t \in Nat
  PROVE  /\ Pausing => PausedAfter(old, StageInto(s, Staged(t))) = TRUE
         /\ Resuming => PausedAfter(old, StageInto(s, Staged(t))) = FALSE
         /\ ~Pausing /\ ~Resuming => PausedAfter(old, StageInto(s, Staged(t))) = PausedAfter(old, s)
<1> DEFINE js == SetToSeq(Joining(t))
           joins1 == [i \in 1..Len(js) |-> Joined(js[i])]
           asks == IF Pausing THEN <<Pause>> ELSE IF Resuming THEN <<Resume>> ELSE <<>>
           about == departures \o joins1
<1>1. js \in Seq(Peer)
  <2>1. Joining(t) \in SUBSET Peer
    BY DEF Joining
  <2>2. IsFiniteSet(Peer)
    BY PeerAssumption, FS_AddElement DEF Peer
  <2>3. js \in Seq(Joining(t))
    BY <2>1, <2>2, FS_Subset, SequencesOfSets
  <2> HIDE DEF js
  <2> QED
    BY <2>1, <2>3
<1>2. joins1 \in Seq(SysAct) /\ \A i \in DOMAIN joins1 : joins1[i].kind = "joined"
  <2> HIDE DEF js
  <2>1. \A i \in 1..Len(js) : Joined(js[i]) \in SysAct /\ Joined(js[i]).kind = "joined"
    BY <1>1 DEF Joined, SysAct
  <2> QED
    BY <1>1, <2>1
<1>3. Pause \in SysAct /\ Resume \in SysAct /\ Pause.kind = "pause" /\ Resume.kind = "resume"
  BY DEF Pause, Resume, SysAct
<1>4. departures \in Seq(SysAct)
  BY DEF HostTypes
<1> HIDE DEF joins1
<1>5. about \in Seq(SysAct) /\ \A i \in DOMAIN about : about[i].kind \in {"joined", "left"}
  <2>1. about \in Seq(SysAct)
    BY <1>2, <1>4
  <2>2. /\ Len(departures) \in Nat /\ DOMAIN departures = 1..Len(departures)
        /\ Len(joins1) \in Nat /\ DOMAIN joins1 = 1..Len(joins1)
        /\ DOMAIN about = 1..(Len(departures) + Len(joins1))
        /\ \A i \in DOMAIN about : about[i] = IF i <= Len(departures) THEN departures[i]
                                              ELSE joins1[i - Len(departures)]
    BY <1>2, <1>4
  <2> HIDE DEF about
  <2>3. ASSUME NEW i \in DOMAIN about PROVE about[i].kind \in {"joined", "left"}
    <3>1. CASE i <= Len(departures)
      <4>1. i \in DOMAIN departures
        BY <2>2, <3>1
      <4> QED
        BY <2>2, <3>1, <4>1
    <3>2. CASE ~(i <= Len(departures))
      <4>1. i - Len(departures) \in DOMAIN joins1
        BY <2>2, <3>2
      <4> QED
        BY <1>2, <2>2, <3>2, <4>1
    <3> QED
      BY <3>1, <3>2
  <2> QED
    BY <2>1, <2>3
<1>6. Staged(t) = about \o asks
  BY DEF Staged, joins1
<1>7. StageInto(s, Staged(t)) = (s \o about) \o asks
  <2> HIDE DEF about, asks
  <2>1. asks \in Seq(SysAct)
    BY <1>3 DEF asks
  <2> QED
    BY <1>5, <1>6, <2>1 DEF StageInto
<1>8. PausedAfter(old, s \o about) = PausedAfter(old, s) /\ s \o about \in Seq(SysAct)
  <2> HIDE DEF about
  <2> QED
    BY <1>5, OthersDoNotPause
<1> HIDE DEF about
<1>9. Pausing => PausedAfter(old, StageInto(s, Staged(t))) = TRUE
  BY <1>3, <1>7, <1>8, LastDecides, Zenon
<1>10. Resuming => PausedAfter(old, StageInto(s, Staged(t))) = FALSE
  <2> SUFFICES ASSUME Resuming PROVE PausedAfter(old, StageInto(s, Staged(t))) = FALSE
    OBVIOUS
  <2>1. ~Pausing
    BY DEF Resuming
  <2>2. asks = <<Resume>>
    BY <2>1
  <2>3. PausedAfter(old, (s \o about) \o <<Resume>>) = (Resume.kind = "pause")
    BY <1>8, LastDecides, Zenon
  <2>4. (Resume.kind = "pause") = FALSE
    BY <1>3
  <2> QED
    BY <1>7, <2>2, <2>3, <2>4, Zenon
<1>11. ~Pausing /\ ~Resuming => PausedAfter(old, StageInto(s, Staged(t))) = PausedAfter(old, s)
  <2>1. (s \o about) \o <<>> = s \o about
    BY <1>8
  <2> QED
    BY <1>7, <1>8, <2>1
<1> QED
  BY <1>9, <1>10, <1>11

(* What a pass stages comes to what was asked last.                          *)
LEMMA StagedAsAsked ==
  ASSUME IInv, PauseInOrder,
         NEW staged, staged = StageInto(StagedForNext, Staged(clock[Host] + 1))
  PROVE  PausedAfter(paused[Host], staged) <=> lastAsked = "pause"
<1>1. clock[Host] + 1 \in Nat /\ HostTypes /\ paused[Host] \in BOOLEAN
  BY Constants DEF IInv, TInv, HostTypes, FlagTypes
<1>2. StagedForNext \in Seq(SysAct)
  <2>1. <<>> \in Seq(SysAct)
    OBVIOUS
  <2> QED
    BY Constants, <2>1 DEF IInv, TInv, LogTypes, StagedForNext, SystemOf, Lookup
<1>3. /\ Pausing => PausedAfter(paused[Host], staged) = TRUE
      /\ Resuming => PausedAfter(paused[Host], staged) = FALSE
      /\ ~Pausing /\ ~Resuming => PausedAfter(paused[Host], staged) = PausedAfter(paused[Host], StagedForNext)
  BY <1>1, <1>2, StagedPauses, Zenon DEF PauseInOrder
<1>4. CASE asked = {}
  BY <1>3, <1>4 DEF PauseInOrder, Pausing, Resuming
<1>5. CASE asked = {"pause"} /\ lastAsked = "pause"
  BY <1>3, <1>5 DEF PauseInOrder, Pausing
<1>6. CASE asked = {"resume"} /\ lastAsked = "resume"
  BY <1>3, <1>6 DEF PauseInOrder, Pausing, Resuming
<1> QED
  BY <1>4, <1>5, <1>6, Zenon DEF PauseInOrder

LEMMA NothingStaged ==
  \A old : AboutPause(<<>>) = {} /\ PausedAfter(old, <<>>) = old
<1>1. DOMAIN <<>> = {}
  OBVIOUS
<1> QED
  BY <1>1 DEF AboutPause, PausedAfter

LEMMA HostTickPauses == IInv /\ PauseInOrder /\ HostTick => PauseInOrder'
<1> SUFFICES ASSUME IInv, PauseInOrder, HostTick PROVE PauseInOrder'
  OBVIOUS
<1> DEFINE next == clock[Host] + 1
           staged == StageInto(StagedForNext, Staged(next))
<1>1. /\ asked' = {} /\ departures' = <<>> /\ lastAsked' = lastAsked
      /\ paused' = [paused EXCEPT ![Host] = PausedAfter(paused[Host], staged)]
      /\ clock' = [clock EXCEPT ![Host] = next]
  BY DEF HostTick, Stage, RunTick, StagedForNext
<1>2. clock[Host] \in Nat /\ clock'[Host] = clock[Host] + 1
      /\ paused'[Host] = PausedAfter(paused[Host], staged)
  BY <1>1, Constants DEF IInv, TInv, HostTypes, FlagTypes
<1>3. PICK players, rules : HostRuns(players, rules)
  BY HostTickRuns DEF IInv
<1>4. \A t \in DOMAIN system'[Host] : t \in Nat /\ t <= clock'[Host]
  <2>1. DOMAIN system'[Host] \subseteq DOMAIN system[Host] \cup {next} /\ DOMAIN system[Host] \subseteq Nat
    BY <1>3, Constants DEF HostRuns, IInv, TInv, LogTypes
  <2> QED
    BY <1>2, <2>1 DEF PauseInOrder
<1>5. StagedForNext' = <<>>
  <2>1. ~(clock'[Host] + 1 <= clock'[Host])
    BY <1>2
  <2>2. clock'[Host] + 1 \notin DOMAIN system'[Host]
    BY <1>4, <2>1
  <2> QED
    BY <2>2 DEF StagedForNext, SystemOf, Lookup
<1>6. PausedAfter(paused'[Host], StagedForNext') = paused'[Host]
  BY <1>5, NothingStaged
<1>7. PausedAfter(paused[Host], staged) <=> lastAsked = "pause"
  BY StagedAsAsked
<1> HIDE DEF staged
<1> QED
  BY <1>1, <1>2, <1>4, <1>6, <1>7 DEF PauseInOrder

LEMMA HeldPassPauses == IInv /\ PauseInOrder /\ HostHeldPass => PauseInOrder'
<1> SUFFICES ASSUME IInv, PauseInOrder, HostHeldPass PROVE PauseInOrder'
  OBVIOUS
<1> DEFINE next == clock[Host] + 1
           staged == StageInto(StagedForNext, Staged(next))
<1>1. /\ asked' = {} /\ departures' = <<>> /\ lastAsked' = lastAsked
      /\ paused' = paused /\ clock' = clock
      /\ system' = IF Staged(next) = <<>> THEN system
                   ELSE [system EXCEPT ![Host] = Put(system[Host], next, staged)]
  BY DEF HostHeldPass, Stage, StagedForNext
<1>2. PausedAfter(paused[Host], staged) <=> lastAsked = "pause"
  BY StagedAsAsked
<1>0. DOMAIN system = Peer /\ Host \in Peer /\ StagedForNext \in Seq(SysAct)
  <2>1. <<>> \in Seq(SysAct)
    OBVIOUS
  <2> QED
    BY Constants, <2>1 DEF IInv, TInv, LogTypes, StagedForNext, SystemOf, Lookup
<1>3. /\ StagedForNext' = staged
      /\ DOMAIN system'[Host] \subseteq DOMAIN system[Host] \cup {next}
  <2>1. CASE Staged(next) = <<>>
    <3>1. staged = StagedForNext
      BY <1>0, <2>1 DEF StageInto
    <3> QED
      BY <1>1, <2>1, <3>1 DEF StagedForNext, SystemOf
  <2>2. CASE Staged(next) # <<>>
    <3> HIDE DEF staged, next
    <3>1. system'[Host] = Put(system[Host], next, staged)
      BY <1>0, <1>1, <2>2
    <3>2. next \in DOMAIN system'[Host] /\ system'[Host][next] = staged
          /\ DOMAIN system'[Host] = DOMAIN system[Host] \cup {next}
      BY <3>1 DEF Put
    <3>3. StagedForNext' = Lookup(system'[Host], next, <<>>)
      BY <1>1 DEF StagedForNext, SystemOf, next
    <3> QED
      BY <3>2, <3>3 DEF Lookup
  <2> QED
    BY <2>1, <2>2
<1>4. \A t \in DOMAIN system'[Host] : t <= clock'[Host] + 1
  <2>1. clock[Host] \in Nat
    BY Constants DEF IInv, TInv, HostTypes
  <2> QED
    BY <1>1, <1>3, <2>1 DEF PauseInOrder
<1> HIDE DEF staged
<1> QED
  BY <1>1, <1>2, <1>3, <1>4 DEF PauseInOrder

(* A request is made when what was asked before has run.                     *)
LEMMA AskPauses ==
  ASSUME IInv, PauseInOrder, ~Hasty, NEW what \in {"pause", "resume"}, Ask(what)
  PROVE  PauseInOrder'
<1>1. /\ ~Outstanding /\ what # lastAsked /\ asked' = asked \cup {what} /\ lastAsked' = what
      /\ UNCHANGED <<departures, paused, clock, system>>
  BY DEF Ask, hostVars, worldVars
<1>2. asked = {} /\ clock[Host] \in Nat /\ paused[Host] \in BOOLEAN
  BY <1>1, Constants DEF Outstanding, IInv, TInv, HostTypes, FlagTypes
<1>3. StagedForNext = <<>>
  <2>1. clock[Host] + 1 \notin DOMAIN system[Host]
    BY <1>1, <1>2 DEF Outstanding
  <2> QED
    BY <2>1 DEF StagedForNext, SystemOf, Lookup
<1>4. paused[Host] <=> lastAsked = "pause"
  BY <1>2, <1>3, NothingStaged DEF PauseInOrder
<1>5. paused[Host] <=> what = "resume"
  BY <1>1, <1>4 DEF PauseInOrder
<1>6. StagedForNext' = StagedForNext
  BY <1>1 DEF StagedForNext, SystemOf
<1> QED
  BY <1>1, <1>2, <1>3, <1>5, <1>6, NothingStaged DEF PauseInOrder

(* The other steps leave the host's part of it alone, but for who departs.   *)
LEMMA PauseKept ==
  ASSUME PauseInOrder, UNCHANGED <<asked, lastAsked>>,
         \A i \in DOMAIN departures' : departures'[i].kind = "left",
         clock'[Host] = clock[Host], system'[Host] = system[Host], paused'[Host] = paused[Host]
  PROVE  PauseInOrder'
<1>1. StagedForNext' = StagedForNext
  BY DEF StagedForNext, SystemOf
<1> QED
  BY <1>1 DEF PauseInOrder

LEMMA PauseStep ==
  ASSUME IInv, PauseInOrder, ~Hasty, [Next]_vars PROVE PauseInOrder'
<1> USE Constants
<1>0. /\ DOMAIN clock = Peer /\ DOMAIN system = Peer /\ DOMAIN paused = Peer
      /\ departures \in Seq(SysAct) /\ \A i \in DOMAIN departures : departures[i].kind = "left"
      /\ \A c \in Client : c # Host
  BY DEF IInv, TInv, HostTypes, LogTypes, FlagTypes, PauseInOrder
<1> USE DEF hostVars, pauseVars, clientVars, netVars, worldVars
<1>1. CASE UNCHANGED vars
  BY <1>0, <1>1, PauseKept DEF vars
<1>2. CASE HostTick
  BY <1>2, HostTickPauses
<1>3. CASE HostHeldPass
  BY <1>3, HeldPassPauses
<1>4. CASE ResizeHost
  BY <1>0, <1>4, PauseKept DEF ResizeHost
<1>5. ASSUME NEW what \in {"pause", "resume"}, Ask(what) PROVE PauseInOrder'
  BY <1>5, AskPauses
<1>6. ASSUME NEW c \in Client, HostStep(c) PROVE PauseInOrder'
  BY <1>0, <1>6, PauseKept DEF HostStep, HostReceiveBatch, AnswerRequest, AcceptLoaded
<1>7. ASSUME NEW c \in Client, ClientStep(c) PROVE PauseInOrder'
  <2>1. /\ UNCHANGED <<asked, lastAsked, departures>>
        /\ clock'[Host] = clock[Host] /\ system'[Host] = system[Host] /\ paused'[Host] = paused[Host]
    <3>1. CASE ReceiveRuling(c)
      BY <1>0, <3>1 DEF ReceiveRuling, Apply
    <3>2. CASE ReplayStash(c)
      BY <1>0, <3>2 DEF ReplayStash, Apply
    <3>3. CASE ReceiveParticipants(c)
      BY <3>3 DEF ReceiveParticipants
    <3>4. CASE ReceiveSnapshot(c)
      BY <3>4 DEF ReceiveSnapshot
    <3>5. CASE ApplySnapshot(c)
      BY <1>0, <3>5 DEF ApplySnapshot
    <3>6. CASE ClientPass(c)
      BY <1>0, <3>6 DEF ClientPass, RunTick
    <3> QED
      BY <1>7, <3>1, <3>2, <3>3, <3>4, <3>5, <3>6 DEF ClientStep
  <2> QED
    BY <1>0, <2>1, PauseKept
<1>8. ASSUME NEW c \in Client, Connect(c) \/ Resize(c) PROVE PauseInOrder'
  BY <1>0, <1>8, PauseKept DEF Connect, Resize
<1>9. ASSUME NEW c \in Client, Depart(c), Disconnect(c) PROVE PauseInOrder'
  <2>1. \A i \in DOMAIN departures' : departures'[i].kind = "left"
    <3>1. CASE departures' = departures
      BY <1>0, <3>1
    <3>2. CASE departures' = Append(departures, Left(c))
      <4> DEFINE d == departures'
      <4>1. /\ DOMAIN d = 1..(Len(departures) + 1) /\ Len(departures) \in Nat
            /\ \A i \in DOMAIN d : d[i] = IF i <= Len(departures) THEN departures[i] ELSE Left(c)
        BY <1>0, <3>2
      <4> HIDE DEF d
      <4>2. \A i \in DOMAIN d : d[i].kind = "left"
        BY <1>0, <4>1 DEF Left
      <4> QED
        BY <4>2 DEF d
    <3> QED
      BY <1>9, <3>1, <3>2 DEF Depart
  <2> QED
    BY <1>0, <1>9, <2>1, PauseKept, Zenon DEF Disconnect
<1> QED
  BY <1>1, <1>2, <1>3, <1>4, <1>5, <1>6, <1>7, <1>8, <1>9 DEF Next, Leave, Kick

(* When all it asked has run, the host is paused or not as it last asked: a  *)
(* request waits with what a held tick has staged, and none is left behind   *)
(* or put before one that came earlier.                                      *)
THEOREM PausesAsAsked == ~Hasty => (Spec => []PausedAsAsked)
<1> SUFFICES ASSUME ~Hasty PROVE Spec => []PausedAsAsked
  OBVIOUS
<1>1. Init => PauseInOrder
  <2> SUFFICES ASSUME Init PROVE PauseInOrder
    OBVIOUS
  <2>1. DOMAIN Empty = {} /\ DOMAIN <<>> = {} /\ Host \in Peer
    BY Constants DEF Empty
  <2>2. system[Host] = Empty /\ departures = <<>> /\ paused[Host] = FALSE
    BY <2>1 DEF Init
  <2>3. StagedForNext = <<>>
    BY <2>1, <2>2 DEF StagedForNext, SystemOf, Lookup
  <2> QED
    BY <2>1, <2>2, <2>3, NothingStaged, Zenon DEF Init, PauseInOrder
<1>2. IInv /\ PauseInOrder /\ [Next]_vars => PauseInOrder'
  BY PauseStep
<1>3. IInv /\ PauseInOrder => PausedAsAsked
  <2> SUFFICES ASSUME IInv, PauseInOrder, ~Outstanding PROVE paused[Host] <=> lastAsked = "pause"
    BY DEF PausedAsAsked
  <2>1. clock[Host] + 1 \notin DOMAIN system[Host]
    <3>1. clock[Host] \in Nat
      BY Constants DEF IInv, TInv, HostTypes
    <3> QED
      BY <3>1 DEF Outstanding
  <2>2. StagedForNext = <<>>
    BY <2>1 DEF StagedForNext, SystemOf, Lookup
  <2> QED
    BY <2>2, NothingStaged DEF PauseInOrder, Outstanding
<1> QED
  BY <1>1, <1>2, <1>3, Invariance, PTL DEF Spec

-----------------------------------------------------------------------------
(* THE ACTIONS *)

(* An action taken is scheduled, and is none that was.                       *)
LEMMA TakenAreScheduled ==
  ASSUME NEW log \in Seq(Nat), NEW t \in Nat, NEW acts, NEW new,
         acts = <<>> \/ acts = <<Len(log) + 1>>,
         new = IF acts = <<>> THEN log ELSE Append(log, t)
  PROVE  /\ ScheduledIn(new, t, acts)
         /\ \A u, a : ScheduledIn(log, u, a) => ScheduledIn(new, u, a)
         /\ \A u, a : ScheduledIn(log, u, a) => Apart(a, acts)
<1>1. CASE acts = <<>>
  <2>1. DOMAIN acts = {} /\ new = log
    BY <1>1
  <2> QED
    BY <2>1 DEF ScheduledIn, Apart
<1>2. CASE acts # <<>>
  <2> DEFINE n == Len(log) + 1
  <2>1. /\ acts = <<n>> /\ DOMAIN acts = {1} /\ acts[1] = n
        /\ n \in Nat /\ DOMAIN log = 1..Len(log) /\ n \notin DOMAIN log
    BY <1>2
  <2>2. /\ new = Append(log, t) /\ DOMAIN new = 1..n /\ n \in DOMAIN new /\ new[n] = t
        /\ \A k \in DOMAIN log : k \in DOMAIN new /\ new[k] = log[k]
    BY <1>2
  <2> HIDE DEF n
  <2> QED
    BY <2>1, <2>2 DEF ScheduledIn, Apart
<1> QED
  BY <1>1, <1>2

LEMMA ApartBothWays == ASSUME NEW s, NEW u, Apart(s, u) PROVE Apart(u, s)
BY DEF Apart

LEMMA TakenIs ==
  ASSUME NEW p \in Peer, sent[p] \in Seq(Nat), NEW acts \in MayTake(p)
  PROVE  (acts = <<>> \/ acts = <<Len(sent[p]) + 1>>) /\ acts \in Seq(Nat)
<1> DEFINE m == Len(sent[p]) + 1
<1>1. acts \in {<<>>, <<m>>}
  BY DEF MayTake
<1>2. m \in Nat
  OBVIOUS
<1> HIDE DEF m
<1>3. <<>> \in Seq(Nat) /\ <<m>> \in Seq(Nat)
  BY <1>2
<1>4. acts \in Seq(Nat)
  BY <1>1, <1>3, Zenon
<1> QED
  BY <1>1, <1>4 DEF m

(* Two lots of actions for a tick that share none are one lot.               *)
LEMMA JoinedAreScheduled ==
  ASSUME NEW log, NEW t, NEW s \in Seq(Nat), NEW u \in Seq(Nat),
         ScheduledIn(log, t, s), ScheduledIn(log, t, u), Apart(s, u)
  PROVE  /\ ScheduledIn(log, t, s \o u)
         /\ \A a : Apart(a, s) /\ Apart(a, u) => Apart(a, s \o u)
<1> DEFINE both == s \o u
<1>1. /\ DOMAIN s = 1..Len(s) /\ DOMAIN u = 1..Len(u) /\ Len(s) \in Nat /\ Len(u) \in Nat
      /\ DOMAIN both = 1..(Len(s) + Len(u))
      /\ \A i \in DOMAIN both : both[i] = IF i <= Len(s) THEN s[i] ELSE u[i - Len(s)]
  OBVIOUS
<1> HIDE DEF both
<1>2. ASSUME NEW i \in DOMAIN both
      PROVE  \/ i <= Len(s) /\ i \in DOMAIN s /\ both[i] = s[i]
             \/ ~(i <= Len(s)) /\ i - Len(s) \in DOMAIN u /\ both[i] = u[i - Len(s)]
  BY <1>1
<1>3. ASSUME NEW i \in DOMAIN both, NEW j \in DOMAIN both, both[i] = both[j]
      PROVE  i = j
  <2>0. i \in Nat /\ j \in Nat /\ Len(s) \in Nat
    BY <1>1
  <2>1. CASE i <= Len(s) /\ j <= Len(s)
    BY <1>2, <1>3, <2>1 DEF ScheduledIn
  <2>2. CASE ~(i <= Len(s)) /\ ~(j <= Len(s))
    <3>1. i - Len(s) = j - Len(s)
      BY <1>2, <1>3, <2>2 DEF ScheduledIn
    <3> QED
      BY <2>0, <3>1
  <2>3. CASE i <= Len(s) /\ ~(j <= Len(s))
    BY <1>2, <1>3, <2>3 DEF Apart
  <2>4. CASE ~(i <= Len(s)) /\ j <= Len(s)
    BY <1>2, <1>3, <2>4 DEF Apart
  <2> QED
    BY <2>1, <2>2, <2>3, <2>4
<1>4. \A k \in DOMAIN both : both[k] \in DOMAIN log /\ log[both[k]] = t
  BY <1>2 DEF ScheduledIn
<1>5. \A a : Apart(a, s) /\ Apart(a, u) => Apart(a, both)
  BY <1>2 DEF Apart
<1> QED
  BY <1>3, <1>4, <1>5, Zenon DEF ScheduledIn, both

(* What a tick of the host does with the actions: it runs what it was told   *)
(* and its own, and keeps what it was told of later ticks.                   *)
LEMMA HostTickActs ==
  ASSUME TInv, HostTick
  PROVE  \E acts \in MayTake(Host), players \in Players :
           LET next == clock[Host] + 1
           IN  /\ players = IF acts = <<>> THEN Entry(Host, next) ELSE Put(Entry(Host, next), Host, acts)
               /\ sent' = [sent EXCEPT ![Host] = IF acts = <<>> THEN sent[Host] ELSE Append(sent[Host], next)]
               /\ clock'[Host] = next /\ next \in Nat /\ batches' = batches /\ UNCHANGED joinedAt
               /\ \A t \in DOMAIN ran'[Host] :
                    \/ t = next /\ ran'[Host][t].players = Acted(players)
                    \/ t \in DOMAIN ran[Host] /\ ran'[Host][t] = ran[Host][t]
               /\ ran'[Host][next].players = Acted(players)
               /\ \A t \in DOMAIN ran[Host] : t # next => ran'[Host][t] = ran[Host][t]
               /\ \A t \in DOMAIN tracker'[Host] :
                    t > next => t \in DOMAIN tracker[Host] /\ tracker'[Host][t] = tracker[Host][t]
               /\ \A t \in DOMAIN tracker[Host] :
                    t > next => t \in DOMAIN tracker'[Host] /\ tracker'[Host][t] = tracker[Host][t]
<1> DEFINE next == clock[Host] + 1
           staged == StageInto(SystemOf(Host, next), Staged(next))
<1>1. /\ clock[Host] \in Nat /\ next \in Nat /\ Host \in Peer /\ DOMAIN clock = Peer
      /\ DOMAIN tracker = Peer /\ DOMAIN ran = Peer /\ sent \in [Peer -> Seq(Nat)]
      /\ DOMAIN tracker[Host] \subseteq Nat
  BY Constants DEF TInv, HostTypes, LogTypes, HistoryTypes
<1>2. PICK acts \in MayTake(Host) :
        LET players == IF acts = <<>> THEN Entry(Host, next) ELSE Put(Entry(Host, next), Host, acts)
            ticks == Put(tracker[Host], next, players)
        IN  /\ RunTick(Host, next, players, staged)
            /\ sent' = [sent EXCEPT ![Host] = IF acts = <<>> THEN sent[Host] ELSE Append(sent[Host], next)]
            /\ tracker' = [tracker EXCEPT ![Host] =
                 KeepFrom(IF players = Empty THEN tracker[Host] ELSE ticks, HostFloor(next))]
  BY Zenon DEF HostTick
<1> DEFINE players == IF acts = <<>> THEN Entry(Host, next) ELSE Put(Entry(Host, next), Host, acts)
           f == IF players = Empty THEN tracker[Host] ELSE Put(tracker[Host], next, players)
<1>3. players \in Players
  <2>1. Entry(Host, next) \in Players
    BY <1>1, PlayersAre DEF TInv, LogTypes, Entry, Lookup
  <2>2. acts \in Seq(Nat)
    BY <1>1, TakenIs
  <2> HIDE DEF next
  <2> QED
    BY <1>1, <2>1, <2>2, PutPlayers
<1>4. PICK r, held : ran' = [ran EXCEPT ![Host] = Put(ran[Host], next, Ran(players, staged, r, held))]
  BY <1>2, Zenon DEF RunTick
<1> DEFINE new == Ran(players, staged, r, held)
<1>5. new.players = Acted(players)
  BY DEF Ran, Acted
<1>6. clock'[Host] = next /\ batches' = batches /\ UNCHANGED joinedAt
  BY <1>1, <1>2 DEF HostTick, RunTick, Stage
<1>7. tracker'[Host] = KeepFrom(f, HostFloor(next))
  BY <1>1, <1>2
<1>u. HostFloor(next) \in Nat /\ HostFloor(next) <= next
  <2> DEFINE kept == KeptJoins(next)
             S == {kept[c] + 1 : c \in DOMAIN kept} \cup {next}
  <2>1. DOMAIN kept \subseteq DOMAIN pendingJoin /\ \A c \in DOMAIN kept : kept[c] = pendingJoin[c]
    BY DEF KeptJoins, RestrictValues, Restrict
  <2>2. \A c \in DOMAIN kept : kept[c] \in Nat
    BY <2>1 DEF TInv, HostTypes
  <2>3. S \in SUBSET Nat /\ S # {} /\ next \in S
    BY <1>1, <2>2
  <2>4. HostFloor(next) = Min(S)
    BY DEF HostFloor
  <2>5. HostFloor(next) \in S /\ \A k \in S : HostFloor(next) <= k
    BY <2>3, <2>4, MinIs
  <2> HIDE DEF S
  <2> QED
    BY <2>3, <2>5, Zenon
<1> HIDE DEF players, staged, new, next
<1>8. /\ ran'[Host] = Put(ran[Host], next, new)
      /\ DOMAIN ran'[Host] = DOMAIN ran[Host] \cup {next} /\ ran'[Host][next] = new
      /\ \A t \in DOMAIN ran[Host] : t # next => ran'[Host][t] = ran[Host][t]
  <2>1. ran'[Host] = Put(ran[Host], next, new)
    BY <1>1, <1>4 DEF new
  <2> QED
    BY <2>1 DEF Put
<1>9. /\ \A t : t # next => ((t \in DOMAIN f) <=> (t \in DOMAIN tracker[Host]))
      /\ \A t \in DOMAIN tracker[Host] : t # next => f[t] = tracker[Host][t]
  BY DEF Put
<1> HIDE DEF f
<1>10. /\ DOMAIN tracker'[Host] = {u \in DOMAIN f : u >= HostFloor(next)}
       /\ \A u \in DOMAIN tracker'[Host] : tracker'[Host][u] = f[u]
  <2>1. \A h : /\ DOMAIN KeepFrom(h, HostFloor(next)) = {u \in DOMAIN h : u >= HostFloor(next)}
               /\ \A u \in DOMAIN KeepFrom(h, HostFloor(next)) : KeepFrom(h, HostFloor(next))[u] = h[u]
    BY KeepFromIs, Zenon
  <2> QED
    BY <1>7, <2>1
<1>11. /\ \A t \in DOMAIN tracker'[Host] :
            t > next => t \in DOMAIN tracker[Host] /\ tracker'[Host][t] = tracker[Host][t]
       /\ \A t \in DOMAIN tracker[Host] :
            t > next => t \in DOMAIN tracker'[Host] /\ tracker'[Host][t] = tracker[Host][t]
  <2>1. next \in Nat /\ \A t : t > next => t # next
    BY <1>1 DEF next
  <2>2. \A t \in DOMAIN tracker[Host] : t > next => t >= HostFloor(next)
    BY <1>1, <1>u, <2>1
  <2> QED
    BY <1>9, <1>10, <2>1, <2>2
<1>12. players = IF acts = <<>> THEN Entry(Host, next) ELSE Put(Entry(Host, next), Host, acts)
  BY DEF players
<1> QED
  BY <1>1, <1>2, <1>3, <1>5, <1>6, <1>8, <1>11, <1>12, Zenon DEF next

LEMMA HostTickNumbers == IInv /\ Numbered /\ HostTick => Numbered'
<1> SUFFICES ASSUME IInv, Numbered, HostTick PROVE Numbered'
  OBVIOUS
<1> DEFINE next == clock[Host] + 1
<1>1. PICK acts \in MayTake(Host), players \in Players :
        /\ players = IF acts = <<>> THEN Entry(Host, next) ELSE Put(Entry(Host, next), Host, acts)
        /\ sent' = [sent EXCEPT ![Host] = IF acts = <<>> THEN sent[Host] ELSE Append(sent[Host], next)]
        /\ clock'[Host] = next /\ next \in Nat /\ batches' = batches
        /\ \A t \in DOMAIN ran'[Host] :
             \/ t = next /\ ran'[Host][t].players = Acted(players)
             \/ t \in DOMAIN ran[Host] /\ ran'[Host][t] = ran[Host][t]
        /\ \A t \in DOMAIN tracker'[Host] :
             t > next => t \in DOMAIN tracker[Host] /\ tracker'[Host][t] = tracker[Host][t]
  BY HostTickActs DEF IInv
<1>2. /\ sent \in [Peer -> Seq(Nat)] /\ Host \in Peer /\ clock[Host] \in Nat
      /\ DOMAIN tracker[Host] \subseteq Nat
      /\ \A t \in DOMAIN tracker[Host] : DOMAIN tracker[Host][t] \subseteq Peer
  BY Constants, PlayersAre DEF IInv, TInv, HostTypes, LogTypes, HistoryTypes
<1>3. acts = <<>> \/ acts = <<Len(sent[Host]) + 1>>
  BY DEF MayTake
<1>4. /\ sent'[Host] = IF acts = <<>> THEN sent[Host] ELSE Append(sent[Host], next)
      /\ \A p \in Peer : p # Host => sent'[p] = sent[p]
  BY <1>1, <1>2
<1>5. /\ ScheduledIn(sent'[Host], next, acts)
      /\ \A p \in Peer : \A u, a : ScheduledIn(sent[p], u, a) => ScheduledIn(sent'[p], u, a)
  <2>1. sent[Host] \in Seq(Nat) /\ next \in Nat
    BY <1>1, <1>2
  <2>2. /\ ScheduledIn(sent'[Host], next, acts)
        /\ \A u, a : ScheduledIn(sent[Host], u, a) => ScheduledIn(sent'[Host], u, a)
    BY <1>3, <1>4, <2>1, TakenAreScheduled, Zenon
  <2> QED
    BY <1>4, <2>2
<1> HIDE DEF next
<1>6. ASSUME NEW p \in DOMAIN players
      PROVE  p \in Peer /\ ScheduledIn(sent'[p], next, players[p])
  <2>0. p \in Peer
    BY <1>1, PlayersAre
  <2>1. CASE acts # <<>> /\ p = Host
    <3>1. players[p] = acts
      BY <1>1, <2>1 DEF Put
    <3> QED
      BY <1>5, <2>0, <2>1, <3>1
  <2>2. CASE ~(acts # <<>> /\ p = Host)
    <3>1. p \in DOMAIN Entry(Host, next) /\ players[p] = Entry(Host, next)[p]
      <4>1. CASE acts = <<>>
        BY <1>1, <4>1
      <4>2. CASE acts # <<>>
        BY <1>1, <2>2, <4>2 DEF Put
      <4> QED
        BY <4>1, <4>2
    <3>2. next \in DOMAIN tracker[Host] /\ Entry(Host, next) = tracker[Host][next]
      BY <3>1, PlayersAre DEF Entry, Lookup
    <3>3. next > clock[Host]
      BY <1>2 DEF next
    <3>4. ScheduledIn(sent[p], next, players[p])
      BY <3>1, <3>2, <3>3 DEF Numbered, AwaitedAsScheduled
    <3> QED
      BY <1>5, <2>0, <3>4
  <2> QED
    BY <2>1, <2>2
<1>7. RunAsScheduled'
  <2> SUFFICES ASSUME NEW t \in DOMAIN ran'[Host], NEW p \in DOMAIN ran'[Host][t].players
               PROVE  p \in Peer /\ ScheduledIn(sent'[p], t, ran'[Host][t].players[p])
    BY DEF RunAsScheduled
  <2>1. CASE t = next /\ ran'[Host][t].players = Acted(players)
    <3>1. p \in DOMAIN players /\ ran'[Host][t].players[p] = players[p]
      <4>1. /\ DOMAIN Acted(players) = {q \in DOMAIN players : players[q] # <<>>}
            /\ \A q \in DOMAIN Acted(players) : Acted(players)[q] = players[q]
        BY ActedIs, Zenon
      <4> DEFINE h == Acted(players)
      <4>2. DOMAIN h \subseteq DOMAIN players /\ \A q \in DOMAIN h : h[q] = players[q]
        BY <4>1
      <4>3. ran'[Host][t].players = h
        BY <2>1
      <4> HIDE DEF h
      <4> QED
        BY <4>2, <4>3
    <3> QED
      BY <1>6, <2>1, <3>1
  <2>2. CASE t \in DOMAIN ran[Host] /\ ran'[Host][t] = ran[Host][t]
    BY <1>5, <2>2 DEF Numbered, RunAsScheduled
  <2> QED
    BY <1>1, <2>1, <2>2
<1>8. ASSUME NEW t \in DOMAIN tracker'[Host], t > clock'[Host]
      PROVE  t \in DOMAIN tracker[Host] /\ tracker'[Host][t] = tracker[Host][t] /\ t > clock[Host]
  <2>1. t > next
    BY <1>1, <1>8
  <2>2. t \in DOMAIN tracker[Host] /\ tracker'[Host][t] = tracker[Host][t]
    BY <1>1, <2>1
  <2>3. t \in Nat /\ next = clock[Host] + 1
    BY <1>2, <2>2 DEF next
  <2> QED
    BY <1>2, <2>1, <2>2, <2>3
<1>9. AwaitedAsScheduled'
  BY <1>2, <1>5, <1>8 DEF Numbered, AwaitedAsScheduled
<1>10. BatchesAsScheduled'
  <2>1. \A c \in Client : \A u, a : ScheduledIn(sent[c], u, a) => ScheduledIn(sent'[c], u, a)
    BY <1>5, Constants
  <2>2. \A c \in Client : \A i \in DOMAIN batches[c] : \A t \in DOMAIN tracker'[Host] :
          t > clock'[Host] /\ c \in DOMAIN tracker'[Host][t] =>
            Apart(batches[c][i].actions, tracker'[Host][t][c])
    BY <1>8 DEF Numbered, BatchesAsScheduled
  <2> QED
    BY <1>1, <2>1, <2>2, Zenon DEF Numbered, BatchesAsScheduled
<1> QED
  BY <1>7, <1>9, <1>10 DEF Numbered

(* A batch is joined to what the tick holds, and is on its way no more.      *)
LEMMA ReceiveBatchNumbers ==
  ASSUME IInv, Numbered, NEW c \in Client, HostReceiveBatch(c) PROVE Numbered'
<1> DEFINE batch == Head(batches[c])
           was == Entry(Host, batch.tick)
           old == Lookup(was, c, <<>>)
           put == old \o batch.actions
<1>0. /\ DOMAIN tracker = Peer /\ Host \in Peer /\ clock[Host] \in Nat /\ lastBroadcast = clock[Host]
      /\ batches \in [Client -> Seq(Batch)] /\ batches[c] # <<>>
      /\ \A t \in DOMAIN tracker[Host] : tracker[Host][t] \in Players
  BY Constants, Zenon DEF IInv, TInv, HostTypes, NothingIsOwed, LogTypes, NetTypes, HostReceiveBatch
<1>1. /\ tracker' = IF Accepts(c, batch.tick)
                    THEN [tracker EXCEPT ![Host] =
                            Put(tracker[Host], batch.tick, Scheduled(Entry(Host, batch.tick), c, batch.actions))]
                    ELSE tracker
      /\ batches' = [batches EXCEPT ![c] = Tail(batches[c])]
      /\ UNCHANGED <<clock, ran, sent>>
  BY DEF HostReceiveBatch
<1> DEFINE n == Len(batches[c])
<1>2. /\ n \in Nat /\ DOMAIN batches[c] = 1..n /\ 1 \in DOMAIN batches[c] /\ batch = batches[c][1]
      /\ DOMAIN batches'[c] = 1..(n - 1)
      /\ \A i \in DOMAIN batches'[c] : /\ i + 1 \in DOMAIN batches[c] /\ i + 1 # 1
                                       /\ batches'[c][i] = batches[c][i + 1]
      /\ \A i, j \in DOMAIN batches'[c] : i # j => i + 1 # j + 1
  <2>1. batches'[c] = Tail(batches[c]) /\ batches[c] \in Seq(Batch)
    BY <1>0, <1>1
  <2> QED
    BY <1>0, <2>1
<1>3. \A d \in Client \ {c} : batches'[d] = batches[d]
  BY <1>0, <1>1
<1>4. batch \in Batch /\ batch.tick \in Nat /\ batch.actions \in Seq(Nat)
  <2>1. batches[c][1] \in Batch
    BY <1>0, <1>2
  <2> QED
    BY <1>2, <2>1 DEF Batch
<1> HIDE DEF batch, n
<1>5. \A d \in Client : \A i \in DOMAIN batches'[d] : \E k \in DOMAIN batches[d] :
        batches'[d][i] = batches[d][k] /\ (d = c => k # 1)
  BY <1>2, <1>3
<1>6. ASSUME NEW d \in Client, NEW i \in DOMAIN batches'[d]
      PROVE  /\ ScheduledIn(sent[d], batches'[d][i].tick, batches'[d][i].actions)
             /\ \A j \in DOMAIN batches'[d] : i # j => Apart(batches'[d][i].actions, batches'[d][j].actions)
             /\ \A t \in DOMAIN tracker[Host] : t > clock[Host] /\ d \in DOMAIN tracker[Host][t] =>
                  Apart(batches'[d][i].actions, tracker[Host][t][d])
             /\ d = c => Apart(batches'[d][i].actions, batch.actions)
  <2>1. CASE d = c
    <3>1. i + 1 \in DOMAIN batches[c] /\ i + 1 # 1 /\ batches'[c][i] = batches[c][i + 1]
      BY <1>2, <2>1
    <3>2. \A j \in DOMAIN batches'[c] : i # j =>
            /\ j + 1 \in DOMAIN batches[c] /\ i + 1 # j + 1 /\ batches'[c][j] = batches[c][j + 1]
      BY <1>2, <2>1
    <3> DEFINE k == i + 1
    <3>3. k \in DOMAIN batches[c] /\ k # 1 /\ batches'[c][i] = batches[c][k]
      BY <3>1
    <3>4. \A j \in DOMAIN batches'[c] : i # j =>
            \E m \in DOMAIN batches[c] : k # m /\ batches'[c][j] = batches[c][m]
      BY <3>2
    <3> HIDE DEF k
    <3> QED
      BY <1>2, <2>1, <3>3, <3>4, Zenon DEF Numbered, BatchesAsScheduled
  <2>2. CASE d # c
    BY <1>3, <2>2 DEF Numbered, BatchesAsScheduled
  <2> QED
    BY <2>1, <2>2
<1>7. RunAsScheduled'
  BY <1>1 DEF Numbered, RunAsScheduled
<1>8. CASE ~Accepts(c, batch.tick)
  <2>1. tracker' = tracker
    BY <1>1, <1>8 DEF batch
  <2>2. BatchesAsScheduled'
    BY <1>1, <1>6, <2>1 DEF BatchesAsScheduled
  <2> QED
    BY <1>1, <1>7, <2>1, <2>2 DEF Numbered, AwaitedAsScheduled
<1>9. CASE Accepts(c, batch.tick)
  <2>0. batch.tick > clock[Host]
    BY <1>0, <1>4, <1>9 DEF Accepts, RuledThrough, Max2
  <2>1. tracker'[Host] = Put(tracker[Host], batch.tick, Put(was, c, put))
    BY <1>0, <1>1, <1>9 DEF Scheduled, batch
  <2>2. was \in Players /\ old \in Seq(Nat)
    BY <1>0, PlayersAre DEF Entry, Lookup
  <2>3. /\ Host \notin DOMAIN was
        /\ \A p \in DOMAIN was : ScheduledIn(sent[p], batch.tick, was[p])
        /\ \A d \in Client : \A i \in DOMAIN batches[d] :
             d \in DOMAIN was => Apart(batches[d][i].actions, was[d])
    <3>1. CASE batch.tick \in DOMAIN tracker[Host]
      <4>1. was = tracker[Host][batch.tick]
        BY <3>1 DEF Entry, Lookup
      <4> QED
        BY <2>0, <3>1, <4>1 DEF Numbered, AwaitedAsScheduled, BatchesAsScheduled
    <3>2. CASE batch.tick \notin DOMAIN tracker[Host]
      <4>1. DOMAIN was = {}
        BY <3>2, PlayersAre DEF Entry, Lookup
      <4> QED
        BY <4>1
    <3> QED
      BY <3>1, <3>2
  <2>4. /\ ScheduledIn(sent[c], batch.tick, old) /\ Apart(batch.actions, old)
        /\ \A i \in DOMAIN batches[c] : Apart(batches[c][i].actions, old)
    <3>1. CASE c \in DOMAIN was
      BY <1>2, <2>3, <3>1 DEF Lookup
    <3>2. CASE c \notin DOMAIN was
      <4>1. DOMAIN old = {}
        BY <3>2 DEF Lookup
      <4> QED
        BY <4>1 DEF ScheduledIn, Apart
    <3> QED
      BY <3>1, <3>2
  <2>5. Apart(old, batch.actions)
    BY <2>4 DEF Apart
  <2>6. ScheduledIn(sent[c], batch.tick, batch.actions)
    BY <1>2 DEF Numbered, BatchesAsScheduled
  <2> HIDE DEF old
  <2>7. /\ ScheduledIn(sent[c], batch.tick, put)
        /\ \A a : Apart(a, old) /\ Apart(a, batch.actions) => Apart(a, put)
    BY <1>4, <2>2, <2>4, <2>5, <2>6, JoinedAreScheduled
  <2> HIDE DEF put, was
  <2>8. /\ DOMAIN tracker'[Host] = DOMAIN tracker[Host] \cup {batch.tick}
        /\ tracker'[Host][batch.tick] = Put(was, c, put)
        /\ \A t \in DOMAIN tracker[Host] : t # batch.tick => tracker'[Host][t] = tracker[Host][t]
    BY <2>1 DEF Put
  <2>9. /\ DOMAIN Put(was, c, put) = DOMAIN was \cup {c} /\ Put(was, c, put)[c] = put
        /\ \A p \in DOMAIN was : p # c => Put(was, c, put)[p] = was[p]
    BY DEF Put
  <2>10. AwaitedAsScheduled'
    <3> SUFFICES ASSUME NEW t \in DOMAIN tracker'[Host], t > clock[Host]
                 PROVE  /\ Host \notin DOMAIN tracker'[Host][t]
                        /\ \A p \in DOMAIN tracker'[Host][t] : ScheduledIn(sent[p], t, tracker'[Host][t][p])
      BY <1>1 DEF AwaitedAsScheduled
    <3>1. CASE t = batch.tick
      BY <2>3, <2>7, <2>8, <2>9, <3>1, Constants
    <3>2. CASE t # batch.tick
      BY <2>8, <3>2 DEF Numbered, AwaitedAsScheduled
    <3> QED
      BY <3>1, <3>2
  <2>11. BatchesAsScheduled'
    <3> SUFFICES ASSUME NEW d \in Client, NEW i \in DOMAIN batches'[d],
                        NEW t \in DOMAIN tracker'[Host], t > clock[Host], d \in DOMAIN tracker'[Host][t]
                 PROVE  Apart(batches'[d][i].actions, tracker'[Host][t][d])
      BY <1>1, <1>6 DEF BatchesAsScheduled
    <3>1. CASE t # batch.tick
      BY <1>6, <2>8, <3>1
    <3>2. CASE t = batch.tick /\ d # c
      <4>1. d \in DOMAIN was /\ tracker'[Host][t][d] = was[d]
        BY <2>8, <2>9, <3>2
      <4>2. PICK k \in DOMAIN batches[d] : batches'[d][i] = batches[d][k]
        BY <1>5
      <4> QED
        BY <2>3, <4>1, <4>2
    <3>3. CASE t = batch.tick /\ d = c
      <4>1. tracker'[Host][t][d] = put
        BY <2>8, <2>9, <3>3
      <4>2. PICK k \in DOMAIN batches[c] : batches'[c][i] = batches[c][k]
        BY <1>5, <3>3
      <4>3. Apart(batches'[c][i].actions, old) /\ Apart(batches'[c][i].actions, batch.actions)
        BY <1>6, <2>4, <3>3, <4>2
      <4> QED
        BY <2>7, <3>3, <4>1, <4>3
    <3> QED
      BY <3>1, <3>2, <3>3
  <2> QED
    BY <1>7, <2>10, <2>11 DEF Numbered
<1> QED
  BY <1>8, <1>9

LEMMA FlushedAre ==
  ASSUME NEW log, NEW last \in Nat, NEW at \in Nat, NEW acts \in Seq(Nat), ScheduledIn(log, at, acts)
  PROVE  Flush(last, at, acts) \in Seq(Batch) /\ Carry(Flush(last, at, acts), log, acts)
<1> DEFINE n == IF at > last + 1 THEN at - last - 1 ELSE 0
           fill == [i \in 1..n |-> [tick |-> last + i, actions |-> <<>>]]
           word == [tick |-> at, actions |-> acts]
           out == fill \o <<word>>
<1>1. n \in Nat
  OBVIOUS
<1>2. fill \in Seq(Batch) /\ Len(fill) = n /\ \A i \in 1..n : DOMAIN fill[i].actions = {}
  <2> HIDE DEF n
  <2>1. <<>> \in Seq(Nat) /\ DOMAIN <<>> = {}
    OBVIOUS
  <2> DEFINE empty(i) == [tick |-> last + i, actions |-> <<>>]
  <2>2. \A i \in 1..n : empty(i) \in Batch /\ DOMAIN empty(i).actions = {}
    BY <1>1, <2>1 DEF Batch
  <2>3. fill = [i \in 1..n |-> empty(i)]
    OBVIOUS
  <2> HIDE DEF empty, fill
  <2> QED
    BY <1>1, <2>2, <2>3
<1>3. Flush(last, at, acts) = out /\ Flush(last, at, acts) \in Seq(Batch)
  BY FlushIs, Zenon DEF Flush
<1>4. word.tick = at /\ word.actions = acts
  OBVIOUS
<1> HIDE DEF fill, word, n
<1>5. /\ DOMAIN out = 1..(n + 1) /\ Len(out) = n + 1
      /\ \A i \in DOMAIN out : out[i] = IF i <= n THEN fill[i] ELSE word
  BY <1>1, <1>2
<1> HIDE DEF out
<1>6. ASSUME NEW i \in DOMAIN out
      PROVE  /\ ScheduledIn(log, out[i].tick, out[i].actions)
             /\ DOMAIN out[i].actions # {} => i = Len(out) /\ out[i].actions = acts
  <2>1. CASE i <= n
    <3>1. DOMAIN out[i].actions = {}
      BY <1>1, <1>2, <1>5, <2>1
    <3> QED
      BY <3>1 DEF ScheduledIn
  <2>2. CASE ~(i <= n)
    <3>1. i = n + 1 /\ out[i] = word
      BY <1>1, <1>5, <2>2
    <3> QED
      BY <1>4, <1>5, <3>1
  <2> QED
    BY <2>1, <2>2
<1>7. Carry(out, log, acts)
  BY <1>6 DEF Carry
<1> QED
  BY <1>3, <1>7

(* A pass of a client schedules what it takes once, and its fillings nothing. *)
LEMMA ClientPassNumbers ==
  ASSUME IInv, Numbered, NEW c \in Client, ClientPass(c) PROVE Numbered'
<1> DEFINE next == clock[c] + 1
           at == next + buffer[c]
           last == lastScheduled[c]
<1>0. /\ c \in Peer /\ Host \in Peer /\ c # Host /\ clock[c] \in Nat /\ buffer[c] \in Nat
      /\ DOMAIN clock = Peer /\ DOMAIN tracker = Peer /\ DOMAIN ran = Peer
      /\ sent \in [Peer -> Seq(Nat)] /\ batches \in [Client -> Seq(Batch)]
      /\ (stage[c] = "loaded" => last \in Nat)
  BY Constants, Zenon DEF IInv, TInv, HostTypes, LogTypes, HistoryTypes, NetTypes, ClientTypes
<1>1. PICK acts \in MayTake(c) :
        /\ batches' = [batches EXCEPT ![c] = batches[c] \o Flush(last, at, acts)]
        /\ sent' = [sent EXCEPT ![c] = IF acts = <<>> THEN sent[c] ELSE Append(sent[c], at)]
  BY Zenon DEF ClientPass
<1>2. /\ clock'[Host] = clock[Host] /\ tracker'[Host] = tracker[Host] /\ ran'[Host] = ran[Host]
      /\ stage[c] = "loaded"
  BY <1>0 DEF ClientPass, RunTick, MayRun
<1>3. last \in Nat /\ at \in Nat
  BY <1>0, <1>2
<1>4. (acts = <<>> \/ acts = <<Len(sent[c]) + 1>>) /\ acts \in Seq(Nat)
  BY <1>0, TakenIs
<1> HIDE DEF next, at, last
<1>5. /\ sent'[c] = IF acts = <<>> THEN sent[c] ELSE Append(sent[c], at)
      /\ \A p \in Peer : p # c => sent'[p] = sent[p]
  BY <1>0, <1>1
<1>6. /\ ScheduledIn(sent'[c], at, acts)
      /\ \A u, a : ScheduledIn(sent[c], u, a) =>
           ScheduledIn(sent'[c], u, a) /\ Apart(a, acts) /\ Apart(acts, a)
  <2> DEFINE log == sent[c]
             new == sent'[c]
  <2>1. /\ log \in Seq(Nat) /\ new = IF acts = <<>> THEN log ELSE Append(log, at)
        /\ acts = <<>> \/ acts = <<Len(log) + 1>>
    BY <1>0, <1>4, <1>5
  <2> HIDE DEF log, new
  <2>2. /\ ScheduledIn(new, at, acts)
        /\ \A u, a : ScheduledIn(log, u, a) => ScheduledIn(new, u, a)
        /\ \A u, a : ScheduledIn(log, u, a) => Apart(a, acts)
    BY <1>3, <2>1, TakenAreScheduled, Zenon
  <2>3. \A a : Apart(a, acts) => Apart(acts, a)
    BY ApartBothWays
  <2> QED
    BY <2>2, <2>3 DEF log, new
<1>7. \A p \in Peer : \A u, a : ScheduledIn(sent[p], u, a) => ScheduledIn(sent'[p], u, a)
  BY <1>5, <1>6
<1>8. RunAsScheduled' /\ AwaitedAsScheduled'
  <2>1. RunAsScheduled'
    BY <1>2, <1>7 DEF Numbered, RunAsScheduled
  <2>2. \A t \in DOMAIN tracker[Host] : DOMAIN tracker[Host][t] \subseteq Peer
    BY Constants, PlayersAre DEF IInv, TInv, LogTypes
  <2>3. AwaitedAsScheduled'
    BY <1>2, <1>7, <2>2 DEF Numbered, AwaitedAsScheduled
  <2> QED
    BY <2>1, <2>3
<1> DEFINE fl == Flush(last, at, acts)
           new == batches[c] \o fl
           n == Len(batches[c])
<1>9. /\ fl \in Seq(Batch)
      /\ \A i \in DOMAIN fl : /\ ScheduledIn(sent'[c], fl[i].tick, fl[i].actions)
                              /\ DOMAIN fl[i].actions # {} => i = Len(fl) /\ fl[i].actions = acts
  <2> DEFINE log == sent'[c]
  <2>1. ScheduledIn(log, at, acts)
    BY <1>6
  <2> HIDE DEF log
  <2>2. fl \in Seq(Batch) /\ Carry(fl, log, acts)
    BY <1>3, <1>4, <2>1, FlushedAre
  <2> HIDE DEF fl
  <2> QED
    BY <2>2 DEF log, Carry
<1> HIDE DEF fl
<1>10. /\ n \in Nat /\ DOMAIN batches[c] = 1..n /\ DOMAIN fl = 1..Len(fl) /\ Len(fl) \in Nat
       /\ DOMAIN new = 1..(n + Len(fl))
       /\ \A i \in DOMAIN new : new[i] = IF i <= n THEN batches[c][i] ELSE fl[i - n]
  BY <1>0, <1>9
<1>11. batches'[c] = new /\ \A d \in Client : d # c => batches'[d] = batches[d]
  BY <1>0, <1>1, Zenon DEF fl
<1> HIDE DEF new, n
<1>12. ASSUME NEW i \in DOMAIN new
       PROVE  \/ i <= n /\ i \in DOMAIN batches[c] /\ new[i] = batches[c][i]
              \/ ~(i <= n) /\ i - n \in DOMAIN fl /\ new[i] = fl[i - n]
  BY <1>10
(* An entry's actions, when they are of the flush, are empty or what was     *)
(* taken, in the last of its batches.                                        *)
<1>13. ASSUME NEW i \in DOMAIN new, ~(i <= n), NEW k \in DOMAIN new[i].actions
       PROVE  new[i].actions = acts /\ i = n + Len(fl)
  <2>1. i - n \in DOMAIN fl /\ new[i] = fl[i - n]
    BY <1>12, <1>13
  <2>2. i - n = Len(fl) /\ fl[i - n].actions = acts
    BY <1>9, <1>13, <2>1
  <2>3. i \in Nat
    BY <1>10
  <2> QED
    BY <1>10, <2>1, <2>2, <2>3
<1>14. \A i \in DOMAIN new : ScheduledIn(sent'[c], new[i].tick, new[i].actions)
  <2> SUFFICES ASSUME NEW i \in DOMAIN new PROVE ScheduledIn(sent'[c], new[i].tick, new[i].actions)
    OBVIOUS
  <2>1. CASE i <= n /\ i \in DOMAIN batches[c] /\ new[i] = batches[c][i]
    BY <1>6, <2>1 DEF Numbered, BatchesAsScheduled
  <2>2. CASE i - n \in DOMAIN fl /\ new[i] = fl[i - n]
    BY <1>9, <2>2
  <2> QED
    BY <1>12, <2>1, <2>2
<1>15. ASSUME NEW i \in DOMAIN new, NEW j \in DOMAIN new, i # j
       PROVE  Apart(new[i].actions, new[j].actions)
  <2> SUFFICES ASSUME NEW k \in DOMAIN new[i].actions, NEW m \in DOMAIN new[j].actions
               PROVE  new[i].actions[k] # new[j].actions[m]
    BY DEF Apart
  <2>1. CASE i <= n /\ j <= n
    BY <1>12, <1>15, <2>1 DEF Numbered, BatchesAsScheduled, Apart
  <2>2. CASE i <= n /\ ~(j <= n)
    <3>1. new[j].actions = acts
      BY <1>13, <2>2
    <3>2. ScheduledIn(sent[c], new[i].tick, new[i].actions)
      BY <1>12, <2>2 DEF Numbered, BatchesAsScheduled
    <3>3. Apart(new[i].actions, acts)
      BY <1>6, <3>2
    <3> QED
      BY <3>1, <3>3 DEF Apart
  <2>3. CASE ~(i <= n) /\ j <= n
    <3>1. new[i].actions = acts
      BY <1>13, <2>3
    <3>2. ScheduledIn(sent[c], new[j].tick, new[j].actions)
      BY <1>12, <2>3 DEF Numbered, BatchesAsScheduled
    <3>3. Apart(acts, new[j].actions)
      BY <1>6, <3>2
    <3> QED
      BY <3>1, <3>3 DEF Apart
  <2>4. CASE ~(i <= n) /\ ~(j <= n)
    BY <1>13, <1>15, <2>4
  <2> QED
    BY <2>1, <2>2, <2>3, <2>4
<1>16. ASSUME NEW i \in DOMAIN new, NEW t \in DOMAIN tracker[Host], t > clock[Host], c \in DOMAIN tracker[Host][t]
       PROVE  Apart(new[i].actions, tracker[Host][t][c])
  <2>1. CASE i <= n
    BY <1>12, <1>16, <2>1 DEF Numbered, BatchesAsScheduled
  <2>2. CASE ~(i <= n)
    <3>1. ScheduledIn(sent[c], t, tracker[Host][t][c])
      BY <1>16 DEF Numbered, AwaitedAsScheduled
    <3>2. Apart(acts, tracker[Host][t][c])
      BY <1>6, <3>1
    <3>3. \A k \in DOMAIN new[i].actions : new[i].actions = acts
      BY <1>13, <2>2
    <3> QED
      BY <3>2, <3>3 DEF Apart
  <2> QED
    BY <2>1, <2>2
<1>17. BatchesAsScheduled'
  <2> SUFFICES ASSUME NEW d \in Client, NEW i \in DOMAIN batches'[d]
               PROVE  /\ ScheduledIn(sent'[d], batches'[d][i].tick, batches'[d][i].actions)
                      /\ \A j \in DOMAIN batches'[d] : i # j => Apart(batches'[d][i].actions, batches'[d][j].actions)
                      /\ \A t \in DOMAIN tracker[Host] : t > clock[Host] /\ d \in DOMAIN tracker[Host][t] =>
                           Apart(batches'[d][i].actions, tracker[Host][t][d])
    BY <1>2 DEF BatchesAsScheduled
  <2>1. CASE d = c
    BY <1>11, <1>14, <1>15, <1>16, <2>1
  <2>2. CASE d # c
    BY <1>7, <1>11, <2>2, Constants DEF Numbered, BatchesAsScheduled
  <2> QED
    BY <2>1, <2>2
<1> QED
  BY <1>8, <1>17 DEF Numbered

(* The other steps leave the host's actions alone; who is gone sends nothing. *)
LEMMA NumbersKept ==
  ASSUME Numbered, UNCHANGED sent, clock'[Host] = clock[Host], tracker'[Host] = tracker[Host],
         ran'[Host] = ran[Host], \A c \in Client : batches'[c] \in {batches[c], <<>>}
  PROVE  Numbered'
<1>1. RunAsScheduled' /\ AwaitedAsScheduled'
  BY DEF Numbered, RunAsScheduled, AwaitedAsScheduled
<1>2. BatchesAsScheduled'
  <2> SUFFICES ASSUME NEW c \in Client, NEW i \in DOMAIN batches'[c]
               PROVE  /\ ScheduledIn(sent[c], batches'[c][i].tick, batches'[c][i].actions)
                      /\ \A j \in DOMAIN batches'[c] : i # j => Apart(batches'[c][i].actions, batches'[c][j].actions)
                      /\ \A t \in DOMAIN tracker[Host] : t > clock[Host] /\ c \in DOMAIN tracker[Host][t] =>
                           Apart(batches'[c][i].actions, tracker[Host][t][c])
    BY DEF BatchesAsScheduled
  <2>1. batches'[c] = batches[c]
    <3>1. DOMAIN <<>> = {}
      OBVIOUS
    <3> QED
      BY <3>1
  <2> QED
    BY <2>1 DEF Numbered, BatchesAsScheduled
<1> QED
  BY <1>1, <1>2 DEF Numbered

LEMMA NumbersStep ==
  ASSUME IInv, Numbered, [Next]_vars PROVE Numbered'
<1> USE Constants
<1>0. /\ DOMAIN clock = Peer /\ DOMAIN tracker = Peer /\ DOMAIN ran = Peer
      /\ DOMAIN batches = Client /\ \A c \in Client : c # Host
  BY DEF IInv, TInv, HostTypes, LogTypes, NetTypes, HistoryTypes
<1> USE DEF hostVars, pauseVars, clientVars, netVars, worldVars
<1>1. CASE UNCHANGED vars
  BY <1>0, <1>1, NumbersKept DEF vars
<1>2. CASE HostTick
  BY <1>2, HostTickNumbers
<1>3. CASE HostHeldPass
  BY <1>0, <1>3, NumbersKept DEF HostHeldPass
<1>4. CASE ResizeHost
  BY <1>0, <1>4, NumbersKept DEF ResizeHost
<1>5. ASSUME NEW what \in {"pause", "resume"}, Ask(what) PROVE Numbered'
  BY <1>0, <1>5, NumbersKept DEF Ask
<1>6. ASSUME NEW c \in Client, HostStep(c) PROVE Numbered'
  <2>1. CASE HostReceiveBatch(c)
    BY <2>1, ReceiveBatchNumbers
  <2>2. CASE AnswerRequest(c)
    BY <1>0, <2>2, NumbersKept DEF AnswerRequest
  <2>3. CASE AcceptLoaded(c)
    BY <1>0, <2>3, NumbersKept DEF AcceptLoaded
  <2> QED
    BY <1>6, <2>1, <2>2, <2>3 DEF HostStep
<1>7. ASSUME NEW c \in Client, ClientStep(c) PROVE Numbered'
  <2>1. CASE ReceiveRuling(c)
    BY <1>0, <2>1, NumbersKept DEF ReceiveRuling, Apply
  <2>2. CASE ReplayStash(c)
    BY <1>0, <2>2, NumbersKept DEF ReplayStash, Apply
  <2>3. CASE ReceiveParticipants(c)
    BY <1>0, <2>3, NumbersKept DEF ReceiveParticipants
  <2>4. CASE ReceiveSnapshot(c)
    BY <1>0, <2>4, NumbersKept DEF ReceiveSnapshot
  <2>5. CASE ApplySnapshot(c)
    BY <1>0, <2>5, NumbersKept DEF ApplySnapshot
  <2>6. CASE ClientPass(c)
    BY <2>6, ClientPassNumbers
  <2> QED
    BY <1>7, <2>1, <2>2, <2>3, <2>4, <2>5, <2>6 DEF ClientStep
<1>8. ASSUME NEW c \in Client, Connect(c) \/ Resize(c) PROVE Numbered'
  BY <1>0, <1>8, NumbersKept DEF Connect, Resize
<1>9. ASSUME NEW c \in Client, Depart(c), Disconnect(c) PROVE Numbered'
  BY <1>0, <1>9, NumbersKept DEF Disconnect
<1> QED
  BY <1>1, <1>2, <1>3, <1>4, <1>5, <1>6, <1>7, <1>8, <1>9 DEF Next, Leave, Kick

LEMMA NumbersInvariant == Spec => []Numbered
<1>1. Init => Numbered
  <2> SUFFICES ASSUME Init PROVE Numbered
    OBVIOUS
  <2>1. DOMAIN Empty = {} /\ DOMAIN <<>> = {} /\ Host \in Peer
    BY Constants DEF Empty
  <2>2. /\ ran[Host] = Empty /\ tracker[Host] = Empty /\ \A c \in Client : batches[c] = <<>>
    BY <2>1 DEF Init
  <2> QED
    BY <2>1, <2>2 DEF Numbered, RunAsScheduled, AwaitedAsScheduled, BatchesAsScheduled
<1>2. IInv /\ Numbered /\ [Next]_vars => Numbered'
  BY NumbersStep
<1> QED
  BY <1>1, <1>2, Invariance, PTL DEF Spec

(* No action runs twice, on one tick or on two: batches that fill a grown    *)
(* buffer are empty, those of a tick are joined and not repeated, and what   *)
(* comes late is dropped.                                                    *)
THEOREM EachActionOnce == Spec => []ActionsRunOnce
<1>1. IInv /\ Numbered => ActionsRunOnce
  <2> SUFFICES ASSUME IInv, Numbered, NEW p \in Peer,
                      NEW t \in DOMAIN ran[Host], p \in DOMAIN ran[Host][t].players,
                      NEW u \in DOMAIN ran[Host], p \in DOMAIN ran[Host][u].players,
                      NEW i \in DOMAIN ActionsOf(p, t), NEW j \in DOMAIN ActionsOf(p, u),
                      ActionsOf(p, t)[i] = ActionsOf(p, u)[j]
               PROVE  t = u /\ i = j
    BY DEF ActionsRunOnce
  <2>1. ScheduledIn(sent[p], t, ActionsOf(p, t)) /\ ScheduledIn(sent[p], u, ActionsOf(p, u))
    BY DEF Numbered, RunAsScheduled, ActionsOf, Lookup
  <2>2. t = u
    BY <2>1 DEF ScheduledIn
  <2> QED
    BY <2>1, <2>2 DEF ScheduledIn
<1> QED
  BY <1>1, NumbersInvariant, Invariance, PTL

-----------------------------------------------------------------------------
(* WHO IS LET IN                                                             *)

LEMMA TailIs ==
  ASSUME NEW S, NEW s \in Seq(S), s # <<>>
  PROVE  \A i \in DOMAIN Tail(s) : i + 1 \in DOMAIN s /\ Tail(s)[i] = s[i + 1]
OBVIOUS

LEMMA SentByAcceptance ==
  ASSUME IInv, Told, NEW d \in Client, AcceptLoaded(d), NEW c \in Client, NEW i \in DOMAIN inbox'[c]
  PROVE  Kept(c, inbox'[c][i]) \/ FromHost(c, inbox'[c][i])
<1> USE Constants
<1> DEFINE at == Acceptance(Head(handshake[d]).buffer)
           members == {<<p, joinedAt[p]>> : p \in {q \in Peer : joinedAt[q] # None}}
           newcomer == Participants({<<d, at>>})
           all == Participants(members \cup {<<d, at>>})
           up == CatchUp(d)
<1>0. inbox \in [Client -> Seq(Msg)] /\ joinedAt \in [Peer -> Nat \cup {None}] /\ d \in Peer
  BY Zenon DEF IInv, TInv, HostTypes, NetTypes
<1>1. CASE inbox' = inbox
  BY <1>1 DEF Kept
<1>2. CASE inbox' # inbox
  <2>1. /\ joinedAt[d] = None /\ joinedAt' = [joinedAt EXCEPT ![d] = at]
        /\ inbox' = [Broadcast(inbox, <<newcomer>>) EXCEPT ![d] = inbox[d] \o <<all, newcomer>> \o up]
        /\ handshake[d] # <<>> /\ Head(handshake[d]).type = "loaded"
    BY <1>2, Zenon DEF AcceptLoaded
  <2>2. at \in Nat
    <3> DEFINE h == Head(handshake[d])
    <3>1. h \in Shake /\ h.type = "loaded"
      BY <2>1 DEF IInv, TInv, NetTypes
    <3> HIDE DEF h
    <3>2. h.buffer \in Nat
      BY <3>1 DEF Shake
    <3>3. clock[Host] \in Nat /\ lastBroadcast \in Nat /\ hostBuffer \in Nat
      BY DEF IInv, TInv, HostTypes, NothingIsOwed
    <3>4. \A b \in Nat : Acceptance(b) \in Nat
      BY <3>3 DEF Acceptance, RuledThrough, Max2
    <3> QED
      BY <3>2, <3>4 DEF h
  <2>3. joinedAt'[d] # None
    BY <1>0, <2>1, <2>2
  <2>4. newcomer.type = "participants" /\ all.type = "participants" /\ ~NamesHost(newcomer)
    BY DEF Participants, NamesHost
  <2> HIDE DEF at, all, newcomer
  <2>5. CASE c # d
    <3>1. inbox'[c] = inbox[c] \/ inbox'[c] = inbox[c] \o <<newcomer>>
      BY <1>0, <2>1, <2>5 DEF Broadcast
    <3>2. CASE inbox'[c] = inbox[c]
      BY <3>2 DEF Kept
    <3>3. CASE inbox'[c] = inbox[c] \o <<newcomer>>
      <4> DEFINE box == inbox[c]
      <4>1. /\ Len(box) \in Nat /\ DOMAIN box = 1..Len(box) /\ DOMAIN (box \o <<newcomer>>) = 1..(Len(box) + 1)
            /\ \A j \in DOMAIN (box \o <<newcomer>>) :
                 (box \o <<newcomer>>)[j] = IF j <= Len(box) THEN box[j] ELSE newcomer
        BY <1>0
      <4> HIDE DEF box
      <4>2. (i \in DOMAIN box /\ inbox'[c][i] = box[i]) \/ inbox'[c][i] = newcomer
        BY <3>3, <4>1 DEF box
      <4> QED
        BY <2>4, <4>2 DEF Kept, FromHost, box
    <3> QED
      BY <3>1, <3>2, <3>3, Zenon
  <2>6. CASE c = d
    <3>1. up \in Seq(Msg) /\ \A j \in DOMAIN up : up[j].type = "ruling"
      BY CaughtUp
    <3> HIDE DEF up
    <3> DEFINE box == inbox[c]
               new == box \o <<all, newcomer>> \o up
    <3>2. inbox'[c] = new
      BY <1>0, <2>1, <2>6 DEF Broadcast
    <3>3. /\ Len(box) \in Nat /\ DOMAIN box = 1..Len(box) /\ Len(up) \in Nat /\ DOMAIN up = 1..Len(up)
          /\ DOMAIN new = 1..(Len(box) + 2 + Len(up))
          /\ \A j \in DOMAIN new :
               new[j] = IF j <= Len(box) THEN box[j]
                        ELSE IF j <= Len(box) + 2 THEN <<all, newcomer>>[j - Len(box)]
                        ELSE up[j - (Len(box) + 2)]
      BY <1>0, <3>1
    <3> HIDE DEF box, new
    <3>4. i \in DOMAIN new /\ i \in Nat
      BY <3>2, <3>3
    <3>5. CASE i <= Len(box)
      BY <3>2, <3>3, <3>4, <3>5 DEF Kept, box
    <3>6. CASE ~(i <= Len(box)) /\ i <= Len(box) + 2
      <4>1. i - Len(box) = 1 \/ i - Len(box) = 2
        BY <3>3, <3>4, <3>6
      <4>2. new[i] = all \/ new[i] = newcomer
        BY <3>3, <3>4, <3>6, <4>1
      <4> QED
        BY <2>3, <2>4, <2>6, <3>2, <4>2 DEF FromHost
    <3>7. CASE ~(i <= Len(box) + 2)
      <4>1. i - (Len(box) + 2) \in DOMAIN up
        BY <3>3, <3>4, <3>7
      <4>2. new[i] = up[i - (Len(box) + 2)]
        BY <3>3, <3>4, <3>7
      <4> QED
        BY <3>1, <3>2, <4>1, <4>2 DEF FromHost
    <3> QED
      BY <3>5, <3>6, <3>7
  <2> QED
    BY <2>5, <2>6
<1> QED
  BY <1>1, <1>2

(* In a step a client hears nothing but this, and the host's clock goes on.  *)
LEMMA WhatIsSent ==
  ASSUME IInv, Told, [Next]_vars
  PROVE  /\ \A c \in Client : \A i \in DOMAIN inbox'[c] : Kept(c, inbox'[c][i]) \/ FromHost(c, inbox'[c][i])
         /\ clock'[Host] \in Nat /\ clock[Host] <= clock'[Host]
<1> USE Constants
<1>0. /\ inbox \in [Client -> Seq(Msg)] /\ DOMAIN clock = Peer /\ clock[Host] \in Nat
      /\ \A c \in Client : c # Host
  BY DEF IInv, TInv, HostTypes, NetTypes
<1>1. \A c \in Client : inbox'[c] = inbox[c] =>
        \A i \in DOMAIN inbox'[c] : Kept(c, inbox'[c][i]) \/ FromHost(c, inbox'[c][i])
  BY DEF Kept
<1>2. ASSUME NEW c \in Client, inbox[c] # <<>>, inbox' = [inbox EXCEPT ![c] = Tail(@)]
      PROVE  \A d \in Client : \A i \in DOMAIN inbox'[d] : Kept(d, inbox'[d][i]) \/ FromHost(d, inbox'[d][i])
  <2>1. inbox'[c] = Tail(inbox[c]) /\ \A d \in Client : d # c => inbox'[d] = inbox[d]
    BY <1>0, <1>2
  <2>2. \A i \in DOMAIN inbox'[c] : i + 1 \in DOMAIN inbox[c] /\ inbox'[c][i] = inbox[c][i + 1]
    BY <1>0, <1>2, <2>1, TailIs
  <2> QED
    BY <1>1, <2>1, <2>2, Zenon DEF Kept
<1> USE DEF hostVars, pauseVars, clientVars, netVars, worldVars
<1>3. CASE HostTick
  <2>1. PICK players, staged : HostRuns(players, staged)
    BY <1>3, HostTickRuns DEF IInv
  <2> DEFINE next == clock[Host] + 1
             new == Ruling(next, Filled(next, players), staged)
  <2>2. /\ new.type = "ruling" /\ clock'[Host] = next
        /\ \A c \in Client : inbox'[c] = inbox[c] \/ inbox'[c] = Append(inbox[c], new)
    BY <1>0, <2>1 DEF HostRuns, Ruling
  <2> HIDE DEF new
  <2>3. ASSUME NEW c \in Client, inbox'[c] = Append(inbox[c], new), NEW i \in DOMAIN inbox'[c]
        PROVE  Kept(c, inbox'[c][i]) \/ FromHost(c, inbox'[c][i])
    <3> DEFINE box == inbox[c]
    <3>1. /\ Len(box) \in Nat /\ DOMAIN box = 1..Len(box) /\ DOMAIN Append(box, new) = 1..(Len(box) + 1)
          /\ \A j \in DOMAIN Append(box, new) :
               Append(box, new)[j] = IF j <= Len(box) THEN box[j] ELSE new
      BY <1>0
    <3> HIDE DEF box
    <3>2. (i \in DOMAIN box /\ inbox'[c][i] = box[i]) \/ inbox'[c][i] = new
      BY <2>3, <3>1 DEF box
    <3> QED
      BY <2>2, <3>2 DEF Kept, FromHost, box
  <2> QED
    BY <1>0, <1>1, <2>2, <2>3
<1>4. ASSUME NEW d \in Client, AnswerRequest(d)
      PROVE  \A c \in Client : \A i \in DOMAIN inbox'[c] : Kept(c, inbox'[c][i]) \/ FromHost(c, inbox'[c][i])
  <2> DEFINE new == Snapshot(clock[Host])
  <2>1. /\ new.type = "snapshot" /\ new.tick = clock[Host]
        /\ \A c \in Client : inbox'[c] = inbox[c] \/ inbox'[c] = Append(inbox[c], new)
    BY <1>0, <1>4 DEF AnswerRequest, Snapshot
  <2> HIDE DEF new
  <2>3. ASSUME NEW c \in Client, inbox'[c] = Append(inbox[c], new), NEW i \in DOMAIN inbox'[c]
        PROVE  Kept(c, inbox'[c][i]) \/ FromHost(c, inbox'[c][i])
    <3> DEFINE box == inbox[c]
    <3>1. /\ Len(box) \in Nat /\ DOMAIN box = 1..Len(box) /\ DOMAIN Append(box, new) = 1..(Len(box) + 1)
          /\ \A j \in DOMAIN Append(box, new) :
               Append(box, new)[j] = IF j <= Len(box) THEN box[j] ELSE new
      BY <1>0
    <3> HIDE DEF box
    <3>2. (i \in DOMAIN box /\ inbox'[c][i] = box[i]) \/ inbox'[c][i] = new
      BY <2>3, <3>1 DEF box
    <3> QED
      BY <2>1, <3>2 DEF Kept, FromHost, box
  <2> QED
    BY <1>1, <2>1, <2>3, Zenon
<1>5. ASSUME NEW d \in Client, HostStep(d)
      PROVE  /\ \A c \in Client : \A i \in DOMAIN inbox'[c] : Kept(c, inbox'[c][i]) \/ FromHost(c, inbox'[c][i])
             /\ clock' = clock
  <2>1. CASE HostReceiveBatch(d)
    BY <1>1, <2>1 DEF HostReceiveBatch
  <2>2. CASE AnswerRequest(d)
    BY <1>4, <2>2, Zenon DEF AnswerRequest
  <2>3. CASE AcceptLoaded(d)
    <3>1. clock' = clock
      BY <2>3 DEF AcceptLoaded
    <3> QED
      BY <2>3, <3>1, SentByAcceptance
  <2> QED
    BY <1>5, <2>1, <2>2, <2>3 DEF HostStep
<1>6. ASSUME NEW d \in Client, ClientStep(d)
      PROVE  /\ \A c \in Client : \A i \in DOMAIN inbox'[c] : Kept(c, inbox'[c][i]) \/ FromHost(c, inbox'[c][i])
             /\ clock'[Host] = clock[Host]
  <2>1. CASE ReceiveRuling(d)
    BY <1>2, <2>1, Zenon DEF ReceiveRuling
  <2>2. CASE ReplayStash(d)
    BY <1>1, <2>2 DEF ReplayStash
  <2>3. CASE ReceiveParticipants(d)
    BY <1>2, <2>3, Zenon DEF ReceiveParticipants
  <2>4. CASE ReceiveSnapshot(d)
    BY <1>2, <2>4, Zenon DEF ReceiveSnapshot
  <2>5. CASE ApplySnapshot(d)
    BY <1>0, <1>1, <2>5 DEF ApplySnapshot
  <2>6. CASE ClientPass(d)
    BY <1>0, <1>1, <2>6 DEF ClientPass, RunTick
  <2> QED
    BY <1>6, <2>1, <2>2, <2>3, <2>4, <2>5, <2>6 DEF ClientStep
<1>7. ASSUME NEW d \in Client, Disconnect(d)
      PROVE  /\ \A c \in Client : \A i \in DOMAIN inbox'[c] : Kept(c, inbox'[c][i]) \/ FromHost(c, inbox'[c][i])
             /\ clock' = clock
  <2>1. inbox'[d] = <<>> /\ clock' = clock /\ \A c \in Client : c # d => inbox'[c] = inbox[c]
    BY <1>0, <1>7 DEF Disconnect
  <2> QED
    BY <1>1, <2>1
<1>8. CASE UNCHANGED vars
  BY <1>0, <1>1, <1>8 DEF vars
<1>9. CASE HostHeldPass \/ ResizeHost
  BY <1>0, <1>1, <1>9 DEF HostHeldPass, ResizeHost
<1>10. ASSUME NEW what, Ask(what)
       PROVE  UNCHANGED <<inbox, clock>>
  BY <1>10 DEF Ask
<1>11. ASSUME NEW c \in Client, Connect(c) \/ Resize(c)
       PROVE  inbox' = inbox /\ clock'[Host] = clock[Host]
  BY <1>0, <1>11 DEF Connect, Resize
<1> QED
  BY <1>0, <1>1, <1>3, <1>5, <1>6, <1>7, <1>8, <1>9, <1>10, <1>11 DEF Next, Leave, Kick

LEMMA JoinersStep ==
  ASSUME IInv, Told, JoinersHaveLoaded, [Next]_vars PROVE JoinersHaveLoaded'
<1> USE Constants
<1>0. /\ DOMAIN joinedAt = Peer /\ DOMAIN stage = Client /\ DOMAIN handshake = Client
      /\ handshake \in [Client -> Seq(Shake)]
  BY DEF IInv, TInv, HostTypes, ClientTypes, NetTypes
<1> USE DEF hostVars, pauseVars, clientVars, netVars, worldVars
<1> DEFINE Good(c, at, shakes, now) ==
             /\ at[c] # None => now[c] = "loaded"
             /\ \A i \in DOMAIN shakes[c] : shakes[c][i].type = "loaded" => now[c] = "loaded"
<1>1. ASSUME UNCHANGED <<joinedAt, stage, handshake>> PROVE JoinersHaveLoaded'
  BY <1>1 DEF JoinersHaveLoaded
<1>2. ASSUME NEW c \in Client, \A d \in Client : d # c => Good(d, joinedAt', handshake', stage'),
             Good(c, joinedAt', handshake', stage')
      PROVE  JoinersHaveLoaded'
  BY <1>2 DEF JoinersHaveLoaded
<1>3. ASSUME NEW c \in Client,
             \A d \in Client : d # c => /\ joinedAt'[d] = joinedAt[d] /\ stage'[d] = stage[d]
                                        /\ handshake'[d] = handshake[d]
      PROVE  \A d \in Client : d # c => Good(d, joinedAt', handshake', stage')
  BY <1>3 DEF JoinersHaveLoaded
<1>4. ASSUME NEW c \in Client, AnswerRequest(c) \/ AcceptLoaded(c) PROVE JoinersHaveLoaded'
  <2>1. /\ handshake[c] # <<>> /\ handshake' = [handshake EXCEPT ![c] = Tail(@)] /\ stage' = stage
        /\ \A d \in Client : d # c => joinedAt'[d] = joinedAt[d]
        /\ joinedAt'[c] = joinedAt[c] \/ Head(handshake[c]).type = "loaded"
    BY <1>0, <1>4 DEF AnswerRequest, AcceptLoaded
  <2>2. /\ handshake'[c] = Tail(handshake[c]) /\ \A d \in Client : d # c => handshake'[d] = handshake[d]
        /\ 1 \in DOMAIN handshake[c] /\ handshake[c][1] = Head(handshake[c])
        /\ \A i \in DOMAIN handshake'[c] : i + 1 \in DOMAIN handshake[c] /\ handshake'[c][i] = handshake[c][i + 1]
    <3>1. handshake'[c] = Tail(handshake[c]) /\ \A d \in Client : d # c => handshake'[d] = handshake[d]
      BY <1>0, <2>1
    <3>2. \A i \in DOMAIN Tail(handshake[c]) : i + 1 \in DOMAIN handshake[c] /\ Tail(handshake[c])[i] = handshake[c][i + 1]
      BY <1>0, <2>1, TailIs
    <3>3. 1 \in DOMAIN handshake[c] /\ handshake[c][1] = Head(handshake[c])
      BY <1>0, <2>1
    <3> QED
      BY <3>1, <3>2, <3>3
  <2>3. joinedAt'[c] # None => stage[c] = "loaded"
    BY <2>1, <2>2 DEF JoinersHaveLoaded
  <2>4. \A i \in DOMAIN handshake'[c] : handshake'[c][i].type = "loaded" => stage[c] = "loaded"
    BY <2>2 DEF JoinersHaveLoaded
  <2> QED
    BY <1>2, <1>3, <2>1, <2>2, <2>3, <2>4
<1>5. ASSUME NEW c \in Client, ReceiveSnapshot(c) PROVE JoinersHaveLoaded'
  <2>1. /\ inbox[c] # <<>> /\ Head(inbox[c]).type = "snapshot" /\ UNCHANGED <<joinedAt, handshake>>
        /\ stage'[c] = "given" /\ \A d \in Client : d # c => stage'[d] = stage[d]
    BY <1>0, <1>5 DEF ReceiveSnapshot
  <2>2. 1 \in DOMAIN inbox[c] /\ inbox[c][1] = Head(inbox[c])
    BY <2>1 DEF IInv, TInv, NetTypes
  <2>3. stage[c] = "asking"
    BY <2>1, <2>2 DEF Told, HandedOnce
  <2>4. joinedAt[c] = None /\ \A i \in DOMAIN handshake[c] : handshake[c][i].type # "loaded"
    BY <2>3 DEF JoinersHaveLoaded
  <2> QED
    BY <1>2, <1>3, <2>1, <2>4
<1>6. ASSUME NEW c \in Client, ApplySnapshot(c) PROVE JoinersHaveLoaded'
  <2>1. /\ UNCHANGED joinedAt /\ stage'[c] = "loaded"
        /\ \A d \in Client : d # c => stage'[d] = stage[d] /\ handshake'[d] = handshake[d]
    BY <1>0, <1>6 DEF ApplySnapshot
  <2> QED
    BY <1>2, <1>3, <2>1
<1>7. ASSUME NEW c \in Client, Depart(c), Disconnect(c) PROVE JoinersHaveLoaded'
  <2>1. /\ joinedAt'[c] = None /\ handshake'[c] = <<>>
        /\ \A d \in Client : d # c =>
             joinedAt'[d] = joinedAt[d] /\ stage'[d] = stage[d] /\ handshake'[d] = handshake[d]
    BY <1>0, <1>7 DEF Depart, Disconnect
  <2> QED
    BY <1>2, <1>3, <2>1
<1>8. ASSUME NEW c \in Client, Connect(c) PROVE JoinersHaveLoaded'
  <2>1. /\ joinedAt' = joinedAt /\ stage[c] = "out" /\ handshake'[c] = <<[type |-> "request"]>>
        /\ \A d \in Client : d # c => stage'[d] = stage[d] /\ handshake'[d] = handshake[d]
    BY <1>0, <1>8 DEF Connect
  <2>2. joinedAt[c] = None
    BY <2>1 DEF JoinersHaveLoaded
  <2>3. \A i \in DOMAIN handshake'[c] : handshake'[c][i].type # "loaded"
    <3>1. \A i \in DOMAIN handshake'[c] : handshake'[c][i] = [type |-> "request"]
      BY <2>1
    <3>2. [type |-> "request"].type # "loaded"
      OBVIOUS
    <3> QED
      BY <3>1, <3>2
  <2> QED
    BY <1>2, <1>3, <2>1, <2>2, <2>3
<1> HIDE DEF Good
<1>9. CASE UNCHANGED vars \/ HostTick \/ HostHeldPass \/ ResizeHost \/ (\E what \in {"pause", "resume"} : Ask(what))
  BY <1>1, <1>9 DEF vars, HostTick, HostHeldPass, ResizeHost, Ask, Stage
<1>10. ASSUME NEW c \in Client,
              HostReceiveBatch(c) \/ ReceiveRuling(c) \/ ReplayStash(c) \/ ReceiveParticipants(c) \/ ClientPass(c) \/ Resize(c)
       PROVE  JoinersHaveLoaded'
  BY <1>1, <1>10, Zenon DEF HostReceiveBatch, ReceiveRuling, ReplayStash, ReceiveParticipants, ClientPass, Resize
<1> QED
  BY <1>4, <1>5, <1>6, <1>7, <1>8, <1>9, <1>10 DEF Next, HostStep, ClientStep, Leave, Kick

LEMMA SnapshotsStep ==
  ASSUME IInv, Told, SnapshotsArePast, [Next]_vars PROVE SnapshotsArePast'
<1> USE Constants
<1>0. DOMAIN stage = Client /\ DOMAIN given = Client /\ clock[Host] \in Nat /\ inbox \in [Client -> Seq(Msg)]
  BY DEF IInv, TInv, HostTypes, ClientTypes, NetTypes
<1>1. /\ \A c \in Client : \A i \in DOMAIN inbox'[c] : Kept(c, inbox'[c][i]) \/ FromHost(c, inbox'[c][i])
      /\ clock'[Host] \in Nat /\ clock[Host] <= clock'[Host]
  BY WhatIsSent
<1>2. ASSUME NEW c \in Client, NEW i \in DOMAIN inbox'[c], inbox'[c][i].type = "snapshot"
      PROVE  inbox'[c][i].tick <= clock'[Host]
  <2>1. CASE Kept(c, inbox'[c][i])
    <3>1. PICK j \in DOMAIN inbox[c] : inbox'[c][i] = inbox[c][j]
      BY <2>1 DEF Kept
    <3>2. inbox[c][j] \in Msg /\ inbox[c][j].type = "snapshot"
      BY <1>0, <1>2, <3>1
    <3> DEFINE m == inbox[c][j]
    <3>3. m.tick \in Nat
      <4>1. m \in Msg /\ m.type = "snapshot"
        BY <3>2
      <4> HIDE DEF m
      <4> QED
        BY <4>1 DEF Msg, RulingMsg
    <3>4. m.tick <= clock[Host]
      BY <3>2 DEF SnapshotsArePast
    <3> HIDE DEF m
    <3>5. m.tick <= clock'[Host]
      BY <1>0, <1>1, <3>3, <3>4
    <3> QED
      BY <3>1, <3>5 DEF m
  <2>2. CASE FromHost(c, inbox'[c][i])
    BY <1>0, <1>1, <1>2, <2>2 DEF FromHost
  <2> QED
    BY <1>1, <2>1, <2>2
<1>3. \A c \in Client : stage'[c] = "given" /\ stage[c] = "given" /\ given'[c] = given[c] => given'[c] <= clock'[Host]
  <2> SUFFICES ASSUME NEW c \in Client, stage[c] = "given" PROVE given[c] <= clock'[Host]
    OBVIOUS
  <2>1. given[c] \in Nat /\ given[c] <= clock[Host]
    BY DEF IInv, TInv, ClientTypes, SnapshotsArePast
  <2> QED
    BY <1>0, <1>1, <2>1
<1> USE DEF hostVars, pauseVars, clientVars, netVars, worldVars
<1>4. ASSUME NEW c \in Client, stage'[c] = "given" PROVE (stage[c] = "given" /\ given'[c] = given[c]) \/ ReceiveSnapshot(c)
  <2>1. CASE UNCHANGED vars \/ HostTick \/ HostHeldPass \/ ResizeHost \/ (\E what \in {"pause", "resume"} : Ask(what))
    BY <1>4, <2>1 DEF vars, HostTick, HostHeldPass, ResizeHost, Ask, Stage
  <2>2. ASSUME NEW d \in Client, HostStep(d) PROVE UNCHANGED <<stage, given>>
    BY <2>2 DEF HostStep, HostReceiveBatch, AnswerRequest, AcceptLoaded
  <2>3. ASSUME NEW d \in Client, ReceiveRuling(d) \/ ReplayStash(d) \/ ReceiveParticipants(d) \/ ClientPass(d) \/ Resize(d)
        PROVE  UNCHANGED <<stage, given>>
    BY <2>3, Zenon DEF ReceiveRuling, ReplayStash, ReceiveParticipants, ClientPass, Resize
  <2>4. ASSUME NEW d \in Client, ApplySnapshot(d) PROVE stage[c] = "given" /\ given'[c] = given[c]
    BY <1>0, <1>4, <2>4 DEF ApplySnapshot
  <2>5. ASSUME NEW d \in Client, Disconnect(d) PROVE stage[c] = "given" /\ given'[c] = given[c]
    BY <1>0, <1>4, <2>5 DEF Disconnect
  <2>6. ASSUME NEW d \in Client, Connect(d) PROVE stage[c] = "given" /\ given'[c] = given[c]
    BY <1>0, <1>4, <2>6 DEF Connect
  <2>7. ASSUME NEW d \in Client, ReceiveSnapshot(d), d # c PROVE stage[c] = "given" /\ given'[c] = given[c]
    BY <1>0, <1>4, <2>7 DEF ReceiveSnapshot
  <2> QED
    BY <1>4, <2>1, <2>2, <2>3, <2>4, <2>5, <2>6, <2>7 DEF Next, ClientStep, Leave, Kick
<1>5. ASSUME NEW c \in Client, ReceiveSnapshot(c) PROVE given'[c] <= clock'[Host]
  <2>1. /\ inbox[c] # <<>> /\ Head(inbox[c]).type = "snapshot" /\ clock' = clock /\ given'[c] = Head(inbox[c]).tick
    BY <1>0, <1>5 DEF ReceiveSnapshot
  <2>2. 1 \in DOMAIN inbox[c] /\ inbox[c][1] = Head(inbox[c])
    BY <1>0, <2>1
  <2> QED
    BY <2>1, <2>2 DEF SnapshotsArePast
<1> QED
  BY <1>2, <1>3, <1>4, <1>5 DEF SnapshotsArePast

(* A stranger makes no pass: it has no host on its roster.                   *)
LEMMA StrangersStep ==
  ASSUME IInv, Told, LetIn, [Next]_vars PROVE StrangersAreSilent'
<1> USE Constants
<1>0. /\ DOMAIN stage = Client /\ DOMAIN given = Client /\ clock[Host] \in Nat /\ inbox \in [Client -> Seq(Msg)]
      /\ DOMAIN joinedAt = Peer /\ DOMAIN roster = Peer /\ DOMAIN batches = Client /\ DOMAIN lastScheduled = Client
      /\ \A c \in Client : c # Host
  BY DEF IInv, TInv, HostTypes, ClientTypes, LogTypes, NetTypes
<1>1. /\ \A c \in Client : \A i \in DOMAIN inbox'[c] : Kept(c, inbox'[c][i]) \/ FromHost(c, inbox'[c][i])
      /\ clock'[Host] \in Nat /\ clock[Host] <= clock'[Host]
  BY WhatIsSent
<1> SUFFICES ASSUME NEW c \in Client, joinedAt'[c] = None
             PROVE  /\ batches'[c] = <<>> /\ Host \notin roster'[c]
                    /\ \A i \in DOMAIN inbox'[c] : inbox'[c][i].type = "participants" => ~NamesHost(inbox'[c][i])
                    /\ stage'[c] = "loaded" => lastScheduled'[c] <= clock'[Host]
  BY DEF StrangersAreSilent
<1>2. joinedAt[c] = None =>
        \A i \in DOMAIN inbox'[c] : inbox'[c][i].type = "participants" => ~NamesHost(inbox'[c][i])
  <2> SUFFICES ASSUME joinedAt[c] = None, NEW i \in DOMAIN inbox'[c], inbox'[c][i].type = "participants"
               PROVE  ~NamesHost(inbox'[c][i])
    OBVIOUS
  <2>1. CASE Kept(c, inbox'[c][i])
    BY <2>1 DEF Kept, LetIn, StrangersAreSilent
  <2>2. CASE FromHost(c, inbox'[c][i])
    BY <2>2 DEF FromHost
  <2> QED
    BY <1>1, <2>1, <2>2
<1>3. joinedAt[c] = None /\ stage[c] = "loaded" => lastScheduled[c] <= clock'[Host]
  <2> SUFFICES ASSUME joinedAt[c] = None, stage[c] = "loaded" PROVE lastScheduled[c] <= clock'[Host]
    OBVIOUS
  <2>1. lastScheduled[c] \in Nat /\ lastScheduled[c] <= clock[Host]
    BY DEF LetIn, StrangersAreSilent, IInv, TInv, ClientTypes
  <2> QED
    BY <1>0, <1>1, <2>1
<1>4. joinedAt[c] = None => batches[c] = <<>> /\ Host \notin roster[c]
  BY DEF LetIn, StrangersAreSilent
<1> USE DEF hostVars, pauseVars, clientVars, netVars, worldVars
(* A step that leaves the client's own part alone.                           *)
<1>5. ASSUME joinedAt[c] = None, batches'[c] = batches[c], roster'[c] = roster[c],
             stage'[c] = "loaded" => stage[c] = "loaded" /\ lastScheduled'[c] = lastScheduled[c]
      PROVE  /\ batches'[c] = <<>> /\ Host \notin roster'[c]
             /\ stage'[c] = "loaded" => lastScheduled'[c] <= clock'[Host]
  BY <1>3, <1>4, <1>5
<1>6. CASE HostTick
  <2>1. PICK players, staged : HostRuns(players, staged)
    BY <1>6, HostTickRuns DEF IInv
  <2>2. /\ UNCHANGED <<joinedAt, batches, stage, lastScheduled>>
        /\ roster'[c] = roster[c]
    BY <1>0, <1>6 DEF HostTick, Stage, RunTick
  <2> QED
    BY <1>2, <1>5, <2>2
<1>7. CASE UNCHANGED vars \/ HostHeldPass \/ ResizeHost \/ (\E what \in {"pause", "resume"} : Ask(what))
  <2>1. UNCHANGED <<joinedAt, batches, stage, lastScheduled, roster>>
    BY <1>7 DEF vars, HostHeldPass, ResizeHost, Ask, Stage
  <2> QED
    BY <1>2, <1>5, <2>1
<1>8. ASSUME NEW d \in Client, AnswerRequest(d) \/ ReceiveRuling(d) \/ ReplayStash(d) \/ Resize(d)
      PROVE  UNCHANGED <<joinedAt, batches, stage, lastScheduled, roster>>
  BY <1>8 DEF AnswerRequest, ReceiveRuling, ReplayStash, Resize
<1>9. ASSUME NEW d \in Client, HostReceiveBatch(d)
      PROVE  UNCHANGED <<joinedAt, stage, lastScheduled, roster>> /\ batches'[c] = batches[c]
  <2>1. UNCHANGED <<joinedAt, stage, lastScheduled, roster>> /\ batches[d] # <<>>
        /\ \A e \in Client : e # d => batches'[e] = batches[e]
    BY <1>0, <1>9 DEF HostReceiveBatch
  <2>2. d # c
    BY <1>4, <2>1
  <2> QED
    BY <2>1, <2>2
<1>10. ASSUME NEW d \in Client, AcceptLoaded(d)
       PROVE  joinedAt[c] = None /\ UNCHANGED <<batches, stage, lastScheduled, roster>>
  <2>1. joinedAt' = joinedAt \/ joinedAt' = [joinedAt EXCEPT ![d] = Acceptance(Head(handshake[d]).buffer)]
    BY <1>10 DEF AcceptLoaded
  <2>2. UNCHANGED <<batches, stage, lastScheduled, roster>>
    BY <1>10 DEF AcceptLoaded
  <2>3. ASSUME joinedAt' # joinedAt PROVE joinedAt'[d] \in Nat
    <3> DEFINE h == Head(handshake[d])
    <3>1. h \in Shake /\ h.type = "loaded"
      BY <1>10 DEF AcceptLoaded, IInv, TInv, NetTypes
    <3> HIDE DEF h
    <3>2. h.buffer \in Nat
      BY <3>1 DEF Shake
    <3>3. clock[Host] \in Nat /\ lastBroadcast \in Nat /\ hostBuffer \in Nat
      BY DEF IInv, TInv, HostTypes, NothingIsOwed
    <3>4. \A b \in Nat : Acceptance(b) \in Nat
      BY <3>3 DEF Acceptance, RuledThrough, Max2
    <3>5. joinedAt'[d] = Acceptance(h.buffer)
      BY <1>0, <2>1, <2>3 DEF h
    <3> QED
      BY <3>2, <3>4, <3>5
  <2>4. joinedAt[c] = None
    <3>1. CASE joinedAt' = joinedAt
      BY <3>1
    <3>2. CASE joinedAt' # joinedAt
      <4>1. d # c
        BY <2>3, <3>2
      <4> QED
        BY <1>0, <2>1, <4>1
    <3> QED
      BY <3>1, <3>2
  <2> QED
    BY <2>2, <2>4
<1>11. ASSUME NEW d \in Client, Connect(d) \/ ReceiveSnapshot(d)
       PROVE  UNCHANGED <<joinedAt, batches, roster>>
              /\ (stage'[c] = "loaded" => stage[c] = "loaded" /\ lastScheduled'[c] = lastScheduled[c])
  BY <1>0, <1>11 DEF Connect, ReceiveSnapshot
<1>12. ASSUME NEW d \in Client, ReceiveParticipants(d)
       PROVE  /\ UNCHANGED <<joinedAt, batches, stage, lastScheduled>> /\ Host \notin roster'[c]
  <2>1. /\ UNCHANGED <<joinedAt, batches, stage, lastScheduled>>
        /\ inbox[d] # <<>> /\ Head(inbox[d]).type = "participants"
        /\ roster' = [roster EXCEPT ![d] = @ \cup SeededBy(Head(inbox[d]).joins, clock[d])]
    BY <1>12 DEF ReceiveParticipants
  <2>2. CASE d # c
    BY <1>0, <1>4, <2>1, <2>2
  <2>3. CASE d = c
    <3>1. 1 \in DOMAIN inbox[c] /\ inbox[c][1] = Head(inbox[c])
      BY <1>0, <2>1, <2>3
    <3>2. ~NamesHost(Head(inbox[c]))
      BY <2>1, <2>3, <3>1 DEF LetIn, StrangersAreSilent
    <3>3. Host \notin SeededBy(Head(inbox[c]).joins, clock[c])
      BY <3>2 DEF NamesHost, SeededBy
    <3> QED
      BY <1>0, <1>4, <2>1, <2>3, <3>3
  <2> QED
    BY <2>1, <2>2, <2>3
<1>13. ASSUME NEW d \in Client, ApplySnapshot(d)
       PROVE  UNCHANGED <<joinedAt, batches, roster>>
              /\ (stage'[c] = "loaded" => lastScheduled'[c] <= clock'[Host])
  <2>1. /\ UNCHANGED <<joinedAt, batches, roster>> /\ clock'[Host] = clock[Host]
        /\ stage[d] = "given" /\ stage' = [stage EXCEPT ![d] = "loaded"]
        /\ lastScheduled' = [lastScheduled EXCEPT ![d] = given[d]]
    BY <1>0, <1>13 DEF ApplySnapshot
  <2>2. CASE d = c
    BY <1>0, <2>1, <2>2 DEF LetIn, SnapshotsArePast
  <2>3. CASE d # c
    BY <1>0, <1>3, <2>1, <2>3
  <2> QED
    BY <2>1, <2>2, <2>3
<1>14. ASSUME NEW d \in Client, ClientPass(d)
       PROVE  /\ UNCHANGED <<joinedAt, stage>>
              /\ batches'[c] = batches[c] /\ roster'[c] = roster[c] /\ lastScheduled'[c] = lastScheduled[c]
  <2>1. UNCHANGED <<joinedAt, stage>> /\ Host \in roster[d]
    BY <1>14 DEF ClientPass, MayRun
  <2>2. d # c
    BY <1>4, <2>1
  <2>3. batches'[c] = batches[c] /\ roster'[c] = roster[c] /\ lastScheduled'[c] = lastScheduled[c]
    BY <1>0, <1>14, <2>2 DEF ClientPass, RunTick
  <2> QED
    BY <2>1, <2>3
<1>15. ASSUME NEW d \in Client, Depart(d), Disconnect(d)
       PROVE  /\ batches'[c] = <<>> /\ Host \notin roster'[c]
              /\ \A i \in DOMAIN inbox'[c] : inbox'[c][i].type = "participants" => ~NamesHost(inbox'[c][i])
              /\ stage'[c] = "loaded" => lastScheduled'[c] <= clock'[Host]
  <2>1. CASE d = c
    <3>1. batches'[c] = <<>> /\ roster'[c] = {} /\ inbox'[c] = <<>> /\ stage'[c] = "out"
      BY <1>0, <1>15, <2>1 DEF Disconnect
    <3> QED
      BY <3>1
  <2>2. CASE d # c
    <3>1. /\ joinedAt'[c] = joinedAt[c] /\ batches'[c] = batches[c] /\ roster'[c] = roster[c]
          /\ stage'[c] = stage[c] /\ lastScheduled'[c] = lastScheduled[c]
      BY <1>0, <1>15, <2>2 DEF Disconnect, Depart
    <3> QED
      BY <1>2, <1>5, <3>1
  <2> QED
    BY <2>1, <2>2
<1>16. ASSUME NEW d \in Client, HostStep(d) \/ ClientStep(d) \/ Connect(d) \/ Resize(d)
       PROVE  /\ joinedAt[c] = None /\ batches'[c] = <<>> /\ Host \notin roster'[c]
              /\ stage'[c] = "loaded" => lastScheduled'[c] <= clock'[Host]
  <2>1. CASE AnswerRequest(d) \/ ReceiveRuling(d) \/ ReplayStash(d) \/ Resize(d)
    BY <1>5, <1>8, <2>1
  <2>2. CASE HostReceiveBatch(d)
    BY <1>5, <1>9, <2>2
  <2>3. CASE AcceptLoaded(d)
    BY <1>5, <1>10, <2>3
  <2>4. CASE Connect(d) \/ ReceiveSnapshot(d)
    BY <1>5, <1>11, <2>4
  <2>5. CASE ReceiveParticipants(d)
    <3>1. stage'[c] = "loaded" => lastScheduled'[c] <= clock'[Host]
      BY <1>3, <1>12, <2>5
    <3> QED
      BY <1>4, <1>12, <2>5, <3>1
  <2>6. CASE ApplySnapshot(d)
    BY <1>4, <1>13, <2>6
  <2>7. CASE ClientPass(d)
    BY <1>5, <1>14, <2>7
  <2> QED
    BY <1>16, <2>1, <2>2, <2>3, <2>4, <2>5, <2>6, <2>7 DEF HostStep, ClientStep
<1> QED
  BY <1>2, <1>6, <1>7, <1>15, <1>16 DEF Next, Leave, Kick

LEMMA LetInInvariant == Spec => [](IInv /\ Told /\ LetIn)
<1>1. Init => LetIn
  <2> SUFFICES ASSUME Init PROVE LetIn
    OBVIOUS
  <2>1. \A c \in Client : /\ joinedAt[c] = None /\ stage[c] = "out" /\ handshake[c] = <<>> /\ inbox[c] = <<>>
                          /\ batches[c] = <<>> /\ roster[c] = {}
    BY Constants DEF Init
  <2> QED
    BY <2>1 DEF LetIn, JoinersHaveLoaded, SnapshotsArePast, StrangersAreSilent
<1>2. IInv /\ Told /\ LetIn /\ [Next]_vars => LetIn'
  BY JoinersStep, SnapshotsStep, StrangersStep DEF LetIn
<1>3. Init => Told
  BY ToldInit
<1>4. IInv /\ Told /\ [Next]_vars => Told'
  BY NextTold
<1> QED
  BY <1>1, <1>2, <1>3, <1>4, Invariance, PTL DEF Spec

-----------------------------------------------------------------------------
(* WHAT THE HOST WAITS FOR                                                   *)

(* A flush past the last one says a word on each tick between, in order; the *)
(* actions are on the last.                                                  *)
LEMMA FlushTicks ==
  ASSUME NEW last \in Nat, NEW at \in Nat, at > last, NEW acts \in Seq(Nat)
  PROVE  /\ DOMAIN Flush(last, at, acts) = 1..(at - last) /\ Len(Flush(last, at, acts)) = at - last
         /\ \A i \in 1..(at - last) :
              /\ Flush(last, at, acts)[i].tick = last + i
              /\ i = at - last => Flush(last, at, acts)[i].actions = acts
<1> DEFINE n == at - last - 1
           fill == [i \in 1..n |-> [tick |-> last + i, actions |-> <<>>]]
           word == [tick |-> at, actions |-> acts]
           out == fill \o <<word>>
<1>1. n \in Nat /\ n + 1 = at - last /\ n = IF at > last + 1 THEN at - last - 1 ELSE 0
  OBVIOUS
<1>2. Flush(last, at, acts) = out
  BY <1>1 DEF Flush
<1>3. word.tick = at /\ word.actions = acts
  OBVIOUS
<1> HIDE DEF n
<1>4. fill \in Seq(Batch) /\ Len(fill) = n /\ \A i \in 1..n : fill[i].tick = last + i
  <2> DEFINE empty(i) == [tick |-> last + i, actions |-> <<>>]
  <2>1. <<>> \in Seq(Nat)
    OBVIOUS
  <2>2. \A i \in 1..n : empty(i) \in Batch /\ empty(i).tick = last + i
    BY <1>1, <2>1 DEF Batch
  <2>3. fill = [i \in 1..n |-> empty(i)]
    OBVIOUS
  <2> HIDE DEF empty, fill
  <2> QED
    BY <1>1, <2>2, <2>3
<1> HIDE DEF fill, word
<1>5. /\ DOMAIN out = 1..(n + 1) /\ Len(out) = n + 1
      /\ \A i \in DOMAIN out : out[i] = IF i <= n THEN fill[i] ELSE word
  BY <1>1, <1>4
<1> HIDE DEF out
<1>6. ASSUME NEW i \in 1..(n + 1)
      PROVE  out[i].tick = last + i /\ (i = n + 1 => out[i].actions = acts)
  <2>1. CASE i <= n
    <3>1. i \in 1..n /\ i # n + 1
      BY <1>1, <2>1
    <3> QED
      BY <1>4, <1>5, <2>1, <3>1, Zenon
  <2>2. CASE ~(i <= n)
    <3>1. i = n + 1 /\ out[i] = word
      BY <1>1, <1>5, <2>2
    <3>2. last + i = at
      BY <1>1, <3>1
    <3> QED
      BY <1>3, <3>1, <3>2
  <2> QED
    BY <2>1, <2>2
<1> QED
  BY <1>1, <1>2, <1>5, <1>6

(* A pass of a client schedules up to its buffer, and that is not beyond the *)
(* host's horizon: it runs only what the host has run.                       *)
LEMMA PassIs ==
  ASSUME IInv, NEW c \in Client, ClientPass(c)
  PROVE  LET at == clock[c] + 1 + buffer[c]
         IN  /\ stage[c] = "loaded" /\ lastScheduled[c] \in Nat /\ at \in Nat /\ buffer[c] \in Buffers
             /\ clock[c] \in Nat /\ clock[c] + 1 <= clock[Host] /\ clock'[c] = clock[c] + 1
             /\ \E acts \in MayTake(c) :
                  /\ acts \in Seq(Nat)
                  /\ batches'[c] = batches[c] \o Flush(lastScheduled[c], at, acts)
                  /\ sent'[c] = IF acts = <<>> THEN sent[c] ELSE Append(sent[c], at)
             /\ lastScheduled'[c] = Max2(lastScheduled[c], at)
             /\ \A d \in Client : d # c => /\ batches'[d] = batches[d] /\ sent'[d] = sent[d]
                                           /\ lastScheduled'[d] = lastScheduled[d] /\ clock'[d] = clock[d]
             /\ clock'[Host] = clock[Host] /\ tracker'[Host] = tracker[Host] /\ ran'[Host] = ran[Host]
             /\ UNCHANGED <<joinedAt, stage, joins, buffer>>
<1> DEFINE at == clock[c] + 1 + buffer[c]
<1>0. /\ c \in Peer /\ Host \in Peer /\ c # Host /\ clock[c] \in Nat /\ clock[Host] \in Nat
      /\ buffer[c] \in Buffers /\ buffer[c] \in Nat
      /\ DOMAIN clock = Peer /\ DOMAIN tracker = Peer /\ DOMAIN ran = Peer /\ DOMAIN lastScheduled = Client
      /\ sent \in [Peer -> Seq(Nat)] /\ batches \in [Client -> Seq(Batch)]
      /\ (stage[c] = "loaded" => lastScheduled[c] \in Nat)
      /\ \A d \in Client : d \in Peer
  BY Constants, Zenon DEF IInv, TInv, HostTypes, LogTypes, HistoryTypes, NetTypes, ClientTypes
<1>1. at \in Nat
  BY <1>0
<1>2. PICK acts \in MayTake(c) :
        /\ batches' = [batches EXCEPT ![c] = batches[c] \o Flush(lastScheduled[c], at, acts)]
        /\ sent' = [sent EXCEPT ![c] = IF acts = <<>> THEN sent[c] ELSE Append(sent[c], at)]
  BY Zenon DEF ClientPass
<1>3. acts \in Seq(Nat)
  BY <1>0, TakenIs
<1>4. /\ stage[c] = "loaded" /\ clock[c] + 1 \in DOMAIN tracker[c]
      /\ clock' = [clock EXCEPT ![c] = clock[c] + 1]
      /\ lastScheduled' = [lastScheduled EXCEPT ![c] = Max2(lastScheduled[c], at)]
      /\ UNCHANGED <<joinedAt, stage, joins, buffer>>
  BY DEF ClientPass, MayRun, RunTick, hostVars
<1>5. tracker'[Host] = tracker[Host] /\ ran'[Host] = ran[Host]
  BY <1>0 DEF ClientPass, RunTick
<1>6. clock[c] + 1 <= clock[Host]
  <2>1. clock[c] + 1 \in 1..clock[Host]
    BY <1>4 DEF IInv, Truth, TrackersAreTrue
  <2> QED
    BY <1>0, <2>1
<1>7. /\ clock'[c] = clock[c] + 1 /\ clock'[Host] = clock[Host]
      /\ \A d \in Client : d # c => clock'[d] = clock[d]
  BY <1>0, <1>4
<1>8. /\ lastScheduled'[c] = Max2(lastScheduled[c], at)
      /\ \A d \in Client : d # c => lastScheduled'[d] = lastScheduled[d]
  BY <1>0, <1>4
<1>9. /\ batches'[c] = batches[c] \o Flush(lastScheduled[c], at, acts)
      /\ \A d \in Client : d # c => batches'[d] = batches[d]
  BY <1>0, <1>2, Zenon
<1>10. /\ sent'[c] = IF acts = <<>> THEN sent[c] ELSE Append(sent[c], at)
       /\ \A d \in Client : d # c => sent'[d] = sent[d]
  BY <1>0, <1>2
<1> HIDE DEF at
<1> QED
  BY <1>0, <1>1, <1>3, <1>4, <1>5, <1>6, <1>7, <1>8, <1>9, <1>10, Zenon DEF at

(* What the host does with a batch: it takes the first of them, and joins it *)
(* to what it holds of the tick unless it drops it.                          *)
LEMMA BatchIs ==
  ASSUME IInv, NEW c \in Client, HostReceiveBatch(c)
  PROVE  LET head == batches[c][1]
             was == Lookup(tracker[Host], head.tick, Empty)
         IN  /\ batches[c] \in Seq(Batch) /\ batches[c] # <<>> /\ batches'[c] = Tail(batches[c])
             /\ head.tick \in Nat /\ head.actions \in Seq(Nat)
             /\ \A d \in Client : d # c => batches'[d] = batches[d]
             /\ UNCHANGED <<joinedAt, stage, joins, buffer, lastScheduled, clock, sent, ran>>
             /\ IF joinedAt[c] # None /\ head.tick > clock[Host] /\ head.tick <= clock[Host] + Horizon
                THEN tracker'[Host] = Put(tracker[Host], head.tick,
                       Put(was, c, Lookup(was, c, <<>>) \o head.actions))
                ELSE tracker'[Host] = tracker[Host]
<1>0. /\ DOMAIN tracker = Peer /\ Host \in Peer /\ clock[Host] \in Nat /\ lastBroadcast = clock[Host]
      /\ batches \in [Client -> Seq(Batch)] /\ batches[c] # <<>>
  BY Constants DEF IInv, TInv, HostTypes, NothingIsOwed, LogTypes, NetTypes, HostReceiveBatch
<1> DEFINE head == batches[c][1]
<1>1. Head(batches[c]) = head /\ head \in Batch
  BY <1>0
<1>2. head.tick \in Nat /\ head.actions \in Seq(Nat)
  BY <1>1 DEF Batch
<1>3. RuledThrough = clock[Host]
  BY <1>0 DEF RuledThrough, Max2
<1>4. /\ batches' = [batches EXCEPT ![c] = Tail(batches[c])]
      /\ tracker' = IF Accepts(c, head.tick)
                    THEN [tracker EXCEPT ![Host] =
                            Put(tracker[Host], head.tick, Scheduled(Entry(Host, head.tick), c, head.actions))]
                    ELSE tracker
      /\ UNCHANGED <<joinedAt, stage, joins, buffer, lastScheduled, clock, sent, ran>>
  BY <1>1 DEF HostReceiveBatch, hostVars, clientVars
<1> HIDE DEF head
<1>5. Accepts(c, head.tick) <=> joinedAt[c] # None /\ head.tick > clock[Host] /\ head.tick <= clock[Host] + Horizon
  BY <1>3 DEF Accepts
<1>6. IF Accepts(c, head.tick)
      THEN tracker'[Host] = Put(tracker[Host], head.tick, Scheduled(Entry(Host, head.tick), c, head.actions))
      ELSE tracker'[Host] = tracker[Host]
  BY <1>0, <1>4
<1>7. batches'[c] = Tail(batches[c]) /\ \A d \in Client : d # c => batches'[d] = batches[d]
  BY <1>0, <1>4
<1> QED
  BY <1>0, <1>2, <1>4, <1>5, <1>6, <1>7 DEF Scheduled, Entry, head

(* A batch that arrives says the host what was on its way; only a dropped    *)
(* one is said no more, and it was for a tick that has run.                  *)
LEMMA BatchAnswers ==
  ASSUME IInv, LetIn, HorizonReaches, Answered, NEW c \in Client, HostReceiveBatch(c)
  PROVE  Answered'
<1> DEFINE head == batches[c][1]
           was == Lookup(tracker[Host], head.tick, Empty)
           new == Put(was, c, Lookup(was, c, <<>>) \o head.actions)
           in == joinedAt[c] # None /\ head.tick > clock[Host] /\ head.tick <= clock[Host] + Horizon
<1>1. /\ batches[c] \in Seq(Batch) /\ batches[c] # <<>> /\ batches'[c] = Tail(batches[c])
      /\ head.tick \in Nat
      /\ \A d \in Client : d # c => batches'[d] = batches[d]
      /\ UNCHANGED <<joinedAt, lastScheduled, clock>>
      /\ IF in THEN tracker'[Host] = Put(tracker[Host], head.tick, new) ELSE tracker'[Host] = tracker[Host]
  BY BatchIs
<1>2. clock[Host] \in Nat /\ Horizon \in Nat /\ lastScheduled \in [Client -> Nat \cup {None}]
  BY Constants DEF IInv, TInv, HostTypes, ClientTypes, HorizonReaches
<1>3. /\ DOMAIN was \subseteq DOMAIN new /\ c \in DOMAIN new
  BY DEF Put
<1> HIDE DEF new
<1>4. \A t : DOMAIN Lookup(tracker[Host], t, Empty) \subseteq DOMAIN Lookup(tracker'[Host], t, Empty)
  <2>1. CASE in
    <3>1. \A t : Lookup(tracker'[Host], t, Empty) = IF t = head.tick THEN new ELSE Lookup(tracker[Host], t, Empty)
      BY <1>1, <2>1, PutIs DEF Put, Lookup
    <3> QED
      BY <1>3, <3>1
  <2>2. CASE ~in
    BY <1>1, <2>2
  <2> QED
    BY <2>1, <2>2
<1>5. in => c \in DOMAIN Lookup(tracker'[Host], head.tick, Empty)
  BY <1>1, <1>3 DEF Put, Lookup
<1>6. \A i \in DOMAIN batches[c] : i = 1 \/ \E j \in DOMAIN batches'[c] : batches'[c][j] = batches[c][i]
  <2> SUFFICES ASSUME NEW i \in DOMAIN batches[c], i # 1
               PROVE  \E j \in DOMAIN batches'[c] : batches'[c][j] = batches[c][i]
    OBVIOUS
  <2> DEFINE n == Len(batches[c])
  <2>1. n \in Nat /\ DOMAIN batches[c] = 1..n /\ DOMAIN Tail(batches[c]) = 1..(n - 1)
        /\ \A j \in 1..(n - 1) : Tail(batches[c])[j] = batches[c][j + 1]
    BY <1>1
  <2> HIDE DEF n
  <2>2. i - 1 \in 1..(n - 1) /\ (i - 1) + 1 = i
    BY <2>1
  <2>3. Tail(batches[c])[i - 1] = batches[c][i]
    BY <2>1, <2>2
  <2> QED
    BY <1>1, <2>1, <2>2, <2>3
<1> SUFFICES ASSUME NEW d \in Client, joinedAt[d] # None, NEW t \in (clock[Host] + 1)..lastScheduled[d]
             PROVE  Heard(d, t, tracker'[Host], batches'[d])
  <2>1. \A d \in Client : joinedAt[d] # None => lastScheduled[d] <= clock[Host] + Horizon
    BY DEF Answered
  <2> QED
    BY <1>1, <2>1 DEF Answered
<1>7. Heard(d, t, tracker[Host], batches[d]) /\ lastScheduled[d] <= clock[Host] + Horizon
  BY DEF Answered
<1>8. CASE d # c
  BY <1>1, <1>4, <1>7, <1>8 DEF Heard
<1>9. CASE d = c /\ c \in DOMAIN Lookup(tracker[Host], t, Empty)
  BY <1>4, <1>9 DEF Heard
<1>10. CASE d = c /\ \E i \in DOMAIN batches[c] : batches[c][i].tick = t
  <2>1. PICK i \in DOMAIN batches[c] : batches[c][i].tick = t
    BY <1>10
  <2>2. CASE i = 1
    <3>1. joinedAt[c] # None /\ t > clock[Host] /\ t <= clock[Host] + Horizon
      <4>1. lastScheduled[c] \in Nat
        BY <1>10 DEF LetIn, JoinersHaveLoaded, IInv, TInv, ClientTypes
      <4>2. t \in Nat /\ t > clock[Host] /\ t <= lastScheduled[c] /\ lastScheduled[c] <= clock[Host] + Horizon
        BY <1>2, <1>7, <1>10, <4>1
      <4> QED
        BY <1>2, <1>10, <4>1, <4>2
    <3>2. in
      BY <2>1, <2>2, <3>1
    <3> QED
      BY <1>5, <1>10, <2>1, <2>2, <3>2 DEF Heard
  <2>3. CASE i # 1
    BY <1>6, <1>10, <2>1, <2>3 DEF Heard
  <2> QED
    BY <2>2, <2>3
<1> QED
  BY <1>7, <1>8, <1>9, <1>10 DEF Heard

LEMMA PassAnswers ==
  ASSUME IInv, HorizonReaches, Answered, NEW c \in Client, ClientPass(c)
  PROVE  Answered'
<1> DEFINE at == clock[c] + 1 + buffer[c]
           last == lastScheduled[c]
<1>1. /\ last \in Nat /\ at \in Nat /\ buffer[c] \in Buffers /\ clock[c] \in Nat /\ clock[c] + 1 <= clock[Host]
      /\ lastScheduled'[c] = Max2(last, at)
      /\ \A d \in Client : d # c => batches'[d] = batches[d] /\ lastScheduled'[d] = lastScheduled[d]
      /\ clock'[Host] = clock[Host] /\ tracker'[Host] = tracker[Host] /\ UNCHANGED joinedAt
  BY PassIs, Zenon
<1>2. PICK acts \in Seq(Nat) : batches'[c] = batches[c] \o Flush(last, at, acts)
  BY PassIs, Zenon
<1>3. clock[Host] \in Nat /\ Horizon \in Nat /\ buffer[c] <= Horizon /\ buffer[c] \in Nat
      /\ batches[c] \in Seq(Batch)
  BY <1>1, Constants, Zenon DEF IInv, TInv, HostTypes, NetTypes, HorizonReaches
<1>4. at <= clock[Host] + Horizon
  BY <1>1, <1>3
<1> DEFINE fl == Flush(last, at, acts)
           new == batches[c] \o fl
           n == Len(batches[c])
<1>5. fl \in Seq(Batch)
  BY <1>1, FlushIs, Zenon
<1>6. \A t \in (last + 1)..at : \E i \in DOMAIN fl : fl[i].tick = t
  <2> SUFFICES ASSUME NEW t \in (last + 1)..at PROVE \E i \in DOMAIN fl : fl[i].tick = t
    OBVIOUS
  <2> HIDE DEF at, last
  <2>1. at > last /\ t - last \in 1..(at - last) /\ last + (t - last) = t
    BY <1>1
  <2>2. DOMAIN fl = 1..(at - last) /\ \A i \in 1..(at - last) : fl[i].tick = last + i
    BY <1>1, <2>1, FlushTicks
  <2> HIDE DEF fl
  <2> QED
    BY <2>1, <2>2
<1> HIDE DEF fl, at, last
<1>7. /\ n \in Nat /\ DOMAIN batches[c] = 1..n /\ DOMAIN fl = 1..Len(fl) /\ Len(fl) \in Nat
      /\ DOMAIN new = 1..(n + Len(fl))
      /\ \A i \in 1..n : new[i] = batches[c][i]
      /\ \A i \in 1..Len(fl) : new[n + i] = fl[i]
  BY <1>3, <1>5
<1>8. batches'[c] = new
  BY <1>2 DEF fl
<1> HIDE DEF new, n
<1>9. /\ \A i \in DOMAIN batches[c] : i \in DOMAIN new /\ new[i] = batches[c][i]
      /\ \A i \in DOMAIN fl : n + i \in DOMAIN new /\ new[n + i] = fl[i]
  BY <1>7
<1>10. ASSUME joinedAt[c] # None
       PROVE  /\ Max2(last, at) <= clock[Host] + Horizon
              /\ \A t \in (clock[Host] + 1)..Max2(last, at) : Heard(c, t, tracker[Host], new)
  <2>1. last <= clock[Host] + Horizon
    BY <1>10 DEF Answered, last
  <2>2. Max2(last, at) <= clock[Host] + Horizon
    BY <1>4, <2>1 DEF Max2
  <2> SUFFICES ASSUME NEW t \in (clock[Host] + 1)..Max2(last, at)
               PROVE  Heard(c, t, tracker[Host], new)
    BY <2>2
  <2>3. t \in (clock[Host] + 1)..last \/ t \in (last + 1)..at
    BY <1>1, <1>3 DEF Max2
  <2>4. CASE t \in (clock[Host] + 1)..last
    <3>1. Heard(c, t, tracker[Host], batches[c])
      BY <1>10, <2>4 DEF Answered, last
    <3>2. ASSUME NEW i \in DOMAIN batches[c], batches[c][i].tick = t
          PROVE  \E k \in DOMAIN new : new[k].tick = t
      BY <1>9, <3>2
    <3> QED
      BY <3>1, <3>2 DEF Heard
  <2>5. CASE t \in (last + 1)..at
    <3>1. PICK i \in DOMAIN fl : fl[i].tick = t
      BY <1>6, <2>5
    <3> QED
      BY <1>9, <3>1 DEF Heard
  <2> QED
    BY <2>3, <2>4, <2>5
<1> QED
  BY <1>1, <1>8, <1>10 DEF Answered

(* What else can happen leaves the word of those who stay as it was.         *)
LEMMA AnsweredKept ==
  ASSUME Answered, clock'[Host] = clock[Host], tracker'[Host] = tracker[Host],
         \A c \in Client : joinedAt'[c] # None =>
           /\ joinedAt[c] # None /\ lastScheduled'[c] = lastScheduled[c] /\ batches'[c] = batches[c]
  PROVE  Answered'
BY DEF Answered

LEMMA TickAnswers == IInv /\ LetIn /\ HorizonReaches /\ Answered /\ HostTick => Answered'
<1> SUFFICES ASSUME IInv, LetIn, HorizonReaches, Answered, HostTick PROVE Answered'
  OBVIOUS
<1> DEFINE next == clock[Host] + 1
<1>1. /\ clock'[Host] = next /\ batches' = batches /\ UNCHANGED joinedAt
      /\ \A t \in DOMAIN tracker[Host] :
           t > next => t \in DOMAIN tracker'[Host] /\ tracker'[Host][t] = tracker[Host][t]
  BY HostTickActs DEF IInv
<1>2. UNCHANGED lastScheduled /\ clock[Host] \in Nat /\ Horizon \in Nat /\ DOMAIN Empty = {}
  BY Constants, PlayersAre DEF HostTick, IInv, TInv, HostTypes, HorizonReaches, clientVars
<1> SUFFICES ASSUME NEW c \in Client, joinedAt[c] # None
             PROVE  /\ lastScheduled[c] <= next + Horizon
                    /\ \A t \in (next + 1)..lastScheduled[c] : Heard(c, t, tracker'[Host], batches[c])
  BY <1>1, <1>2 DEF Answered
<1>3. lastScheduled[c] \in Nat
  BY DEF LetIn, JoinersHaveLoaded, IInv, TInv, ClientTypes
<1>4. /\ lastScheduled[c] <= clock[Host] + Horizon
      /\ \A t \in (clock[Host] + 1)..lastScheduled[c] : Heard(c, t, tracker[Host], batches[c])
  BY DEF Answered
<1>5. lastScheduled[c] <= next + Horizon
  BY <1>2, <1>3, <1>4
<1>6. ASSUME NEW t \in (next + 1)..lastScheduled[c] PROVE Heard(c, t, tracker'[Host], batches[c])
  <2>1. t \in (clock[Host] + 1)..lastScheduled[c] /\ t > next
    BY <1>2, <1>3
  <2>2. Heard(c, t, tracker[Host], batches[c])
    BY <1>4, <2>1
  <2> HIDE DEF next
  <2> QED
    BY <1>1, <1>2, <2>1, <2>2 DEF Heard, Lookup
<1> QED
  BY <1>5, <1>6

LEMMA AnsweredStep ==
  ASSUME IInv, Told, LetIn, HorizonReaches, Answered, [Next]_vars PROVE Answered'
<1> USE Constants
<1>0. /\ DOMAIN clock = Peer /\ DOMAIN tracker = Peer /\ DOMAIN joinedAt = Peer /\ DOMAIN stage = Client
      /\ DOMAIN batches = Client /\ DOMAIN lastScheduled = Client /\ \A c \in Client : c # Host
  BY DEF IInv, TInv, HostTypes, LogTypes, NetTypes, ClientTypes
<1> USE DEF hostVars, pauseVars, clientVars, netVars, worldVars
<1>1. CASE UNCHANGED vars
  BY <1>1, AnsweredKept DEF vars
<1>2. CASE HostTick
  BY <1>2, TickAnswers
<1>3. CASE HostHeldPass \/ ResizeHost \/ \E what \in {"pause", "resume"} : Ask(what)
  BY <1>0, <1>3, AnsweredKept DEF HostHeldPass, Stage, ResizeHost, Ask
<1>4. ASSUME NEW c \in Client, AcceptLoaded(c) PROVE Answered'
  <2>1. /\ UNCHANGED <<clock, tracker, lastScheduled, batches, stage>> /\ handshake[c] # <<>>
        /\ Head(handshake[c]).type = "loaded"
        /\ \A d \in Client : d # c => joinedAt'[d] = joinedAt[d]
        /\ (joinedAt[c] # None => joinedAt'[c] = joinedAt[c])
    BY <1>0, <1>4 DEF AcceptLoaded
  <2>2. CASE joinedAt[c] # None
    <3>1. \A d \in Client : joinedAt'[d] = joinedAt[d]
      BY <2>1, <2>2
    <3> QED
      BY <2>1, <3>1, AnsweredKept
  <2>3. CASE joinedAt[c] = None
    <3>1. 1 \in DOMAIN handshake[c] /\ handshake[c][1] = Head(handshake[c])
      BY <2>1 DEF IInv, TInv, NetTypes
    <3>2. stage[c] = "loaded"
      BY <2>1, <3>1 DEF LetIn, JoinersHaveLoaded
    <3>3. lastScheduled[c] \in Nat /\ lastScheduled[c] <= clock[Host] /\ clock[Host] \in Nat /\ Horizon \in Nat
      BY <2>3, <3>2 DEF LetIn, StrangersAreSilent, IInv, TInv, HostTypes, ClientTypes, HorizonReaches
    <3>4. /\ lastScheduled[c] <= clock[Host] + Horizon
          /\ \A t \in (clock[Host] + 1)..lastScheduled[c] : Heard(c, t, tracker[Host], batches[c])
      BY <3>3
    <3> QED
      BY <2>1, <3>4 DEF Answered
  <2> QED
    BY <2>2, <2>3
<1>5. ASSUME NEW c \in Client, HostStep(c) PROVE Answered'
  <2>1. CASE HostReceiveBatch(c)
    BY <2>1, BatchAnswers
  <2>2. CASE AnswerRequest(c)
    BY <1>0, <2>2, AnsweredKept DEF AnswerRequest
  <2> QED
    BY <1>4, <1>5, <2>1, <2>2 DEF HostStep
(* Who takes or applies a snapshot has not been let in.                      *)
<1>6. ASSUME NEW c \in Client, ReceiveSnapshot(c) \/ ApplySnapshot(c) PROVE Answered'
  <2>1. stage[c] # "loaded"
    <3>1. CASE ApplySnapshot(c)
      BY <3>1 DEF ApplySnapshot
    <3>2. CASE ReceiveSnapshot(c)
      <4>1. inbox[c] # <<>> /\ Head(inbox[c]).type = "snapshot"
        BY <3>2 DEF ReceiveSnapshot
      <4>2. 1 \in DOMAIN inbox[c] /\ inbox[c][1] = Head(inbox[c])
        BY <4>1 DEF IInv, TInv, NetTypes
      <4> QED
        BY <4>1, <4>2 DEF Told, HandedOnce
    <3> QED
      BY <1>6, <3>1, <3>2
  <2>2. joinedAt[c] = None
    BY <2>1 DEF LetIn, JoinersHaveLoaded
  <2>3. /\ UNCHANGED <<joinedAt, batches>> /\ clock'[Host] = clock[Host] /\ tracker'[Host] = tracker[Host]
        /\ \A d \in Client : d # c => lastScheduled'[d] = lastScheduled[d]
    BY <1>0, <1>6 DEF ReceiveSnapshot, ApplySnapshot
  <2>4. \A d \in Client : joinedAt'[d] # None =>
          joinedAt[d] # None /\ lastScheduled'[d] = lastScheduled[d] /\ batches'[d] = batches[d]
    BY <2>2, <2>3
  <2> QED
    BY <2>3, <2>4, AnsweredKept
<1>7. ASSUME NEW c \in Client, ClientStep(c) PROVE Answered'
  <2>1. CASE ReceiveRuling(c) \/ ReplayStash(c) \/ ReceiveParticipants(c)
    BY <1>0, <2>1, AnsweredKept DEF ReceiveRuling, ReplayStash, ReceiveParticipants, Apply
  <2>2. CASE ClientPass(c)
    BY <2>2, PassAnswers
  <2> QED
    BY <1>6, <1>7, <2>1, <2>2 DEF ClientStep
<1>8. ASSUME NEW c \in Client, Connect(c) \/ Resize(c) PROVE Answered'
  BY <1>0, <1>8, AnsweredKept DEF Connect, Resize
<1>9. ASSUME NEW c \in Client, Depart(c), Disconnect(c) PROVE Answered'
  <2>1. /\ joinedAt'[c] = None /\ UNCHANGED clock /\ tracker'[Host] = tracker[Host]
        /\ \A d \in Client : d # c => /\ joinedAt'[d] = joinedAt[d] /\ lastScheduled'[d] = lastScheduled[d]
                                      /\ batches'[d] = batches[d]
    BY <1>0, <1>9 DEF Depart, Disconnect
  <2>2. \A d \in Client : joinedAt'[d] # None =>
          joinedAt[d] # None /\ lastScheduled'[d] = lastScheduled[d] /\ batches'[d] = batches[d]
    BY <2>1
  <2> QED
    BY <2>1, <2>2, AnsweredKept
<1> QED
  BY <1>1, <1>2, <1>3, <1>5, <1>7, <1>8, <1>9 DEF Next, Leave, Kick

LEMMA AnsweredInvariant == HorizonReaches => (Spec => [](IInv /\ Told /\ LetIn /\ Answered))
<1> SUFFICES ASSUME HorizonReaches PROVE Spec => [](IInv /\ Told /\ LetIn /\ Answered)
  OBVIOUS
<1>1. Init => Answered
  BY Constants DEF Init, Answered
<1>2. IInv /\ Told /\ LetIn /\ Answered /\ [Next]_vars => Answered'
  BY AnsweredStep
<1> QED
  BY <1>1, <1>2, LetInInvariant, PTL DEF Spec

(* Every tick a participant has scheduled past, and the host is still to     *)
(* run, is told or on its way: the fillings of a grown buffer leave no hole, *)
(* and no batch that counts is dropped for being too far ahead.              *)
THEOREM WaitsAreHeard == HorizonReaches => (Spec => []WaitsAreAnswered)
<1> SUFFICES ASSUME HorizonReaches PROVE Spec => []WaitsAreAnswered
  OBVIOUS
<1>1. IInv /\ Answered => WaitsAreAnswered
  <2> SUFFICES ASSUME IInv, Answered, NEW c \in Client, stage[c] = "loaded", joinedAt[c] # None,
                      NEW t \in (Max2(joinedAt[c] + hostBuffer, clock[Host]) + 1)..lastScheduled[c]
               PROVE  c \in DOMAIN Entry(Host, t) \/ \E i \in DOMAIN batches[c] : batches[c][i].tick = t
    BY DEF WaitsAreAnswered
  <2>1. /\ clock[Host] \in Nat /\ joinedAt[c] + hostBuffer \in Nat /\ lastScheduled[c] \in Nat
    BY Constants DEF IInv, TInv, HostTypes, ClientTypes, Assumptions, BufferAssumption
  <2>2. t \in (clock[Host] + 1)..lastScheduled[c]
    BY <2>1 DEF Max2
  <2>3. Heard(c, t, tracker[Host], batches[c])
    BY <2>2 DEF Answered
  <2> QED
    BY <2>3 DEF Heard, Entry
<1>2. Spec => [](IInv /\ Answered)
  <2>1. Spec => [](IInv /\ Told /\ LetIn /\ Answered)
    BY AnsweredInvariant
  <2> QED
    BY <2>1, PTL
<1> QED
  BY <1>1, <1>2, PTL

-----------------------------------------------------------------------------
(* NO ACTION IS LOST                                                         *)

LEMMA WindowIs ==
  ASSUME WindowIsBounded
  PROVE  Window \in Nat /\ \A b \in HostBuffers : b <= Window
<1>1. \E m \in HostBuffers : \A b \in HostBuffers : m >= b
  BY Constants DEF WindowIsBounded
<1>2. Window \in HostBuffers /\ \A b \in HostBuffers : Window >= b
  BY <1>1 DEF Window, Max
<1> QED
  BY <1>2, Constants

LEMMA WordsKept ==
  ASSUME NEW c \in Client, WellCarried(c), SameWords(c), sent[c] \in Seq(Nat)
  PROVE  WellCarried(c)'
<1>1. WordsInOrder(c)'
  BY DEF WellCarried, WordsInOrder, SameWords
<1>2. ASSUME NEW i \in DOMAIN sent[c] PROVE ActionIsCarried(c, i)'
  <2>1. sent[c][i] \in Nat /\ ActionIsCarried(c, i)
    BY DEF WellCarried
  <2>2. ActionsOf(c, sent[c][i])' = ActionsOf(c, sent[c][i])
    BY DEF ActionsOf, SameWords
  <2>3. sent'[c][i] = sent[c][i]
    BY DEF SameWords
  <2>4. /\ sent'[c][i] <= lastScheduled'[c]
        /\ \A k \in DOMAIN batches'[c] : batches'[c][k].tick = sent'[c][i] => In(i, batches'[c][k].actions)
    BY <2>1, <2>3 DEF ActionIsCarried, SameWords
  <2>5. sent'[c][i] \in (joinedAt'[c] + Window + 1)..clock'[Host] => In(i, ActionsOf(c, sent[c][i])')
    BY <2>1, <2>2, <2>3 DEF ActionIsCarried, SameWords
  <2>6. sent'[c][i] > clock'[Host] /\ c \in DOMAIN Entry(Host, sent[c][i])' => In(i, Entry(Host, sent[c][i])'[c])
    BY <2>1, <2>3 DEF ActionIsCarried, SameWords
  <2> QED
    BY <2>3, <2>4, <2>5, <2>6 DEF ActionIsCarried, ActionsOf, Entry
<1>3. sent'[c] = sent[c]
  BY DEF SameWords
<1> QED
  BY <1>1, <1>2, <1>3 DEF WellCarried

(* A pass of a client puts its words after those on their way.               *)
LEMMA PassCarries ==
  ASSUME IInv, LetIn, InOrder, WindowIsBounded, NEW c \in Client, ClientPass(c), joinedAt[c] # None
  PROVE  WellCarried(c)'
<1> DEFINE at == clock[c] + 1 + buffer[c]
           last == lastScheduled[c]
           N == clock[Host]
           box == batches[c]
           n == Len(box)
           log == sent[c]
<1>1. /\ stage[c] = "loaded" /\ last \in Nat /\ at \in Nat /\ buffer[c] \in Buffers /\ clock[c] \in Nat
      /\ lastScheduled'[c] = Max2(last, at)
      /\ clock'[Host] = N /\ tracker'[Host] = tracker[Host] /\ ran'[Host] = ran[Host] /\ UNCHANGED joinedAt
  BY PassIs, Zenon
<1>2. PICK acts \in MayTake(c) :
        /\ acts \in Seq(Nat) /\ batches'[c] = box \o Flush(last, at, acts)
        /\ sent'[c] = IF acts = <<>> THEN log ELSE Append(log, at)
  BY PassIs, Zenon
<1>3. N \in Nat /\ box \in Seq(Batch) /\ log \in Seq(Nat) /\ joinedAt[c] \in Nat /\ Window \in Nat /\ c \in Peer
  BY WindowIs, Constants DEF IInv, TInv, HostTypes, NetTypes, HistoryTypes
<1>4. acts = <<>> \/ acts = <<Len(log) + 1>>
  BY <1>3, TakenIs
<1>5. at > last
  <2>1. last <= clock[c] + buffer[c] /\ buffer[c] \in Nat
    BY <1>1, Constants, Zenon DEF InOrder, SchedulesOnward
  <2> QED
    BY <1>1, <2>1
<1> DEFINE fl == Flush(last, at, acts)
           new == box \o fl
           k == at - last
<1>6. /\ fl \in Seq(Batch) /\ Len(fl) = k /\ k \in Nat
      /\ \A i \in 1..k : fl[i].tick = last + i /\ (i = k => fl[i].actions = acts)
  <2> HIDE DEF at, last, fl
  <2>1. at - last \in Nat
    BY <1>1, <1>5
  <2> QED
    BY <1>1, <1>2, <1>5, <2>1, FlushIs, FlushTicks, Zenon DEF fl
<1>7. last + k = at
  BY <1>1
<1>8. joinedAt'[c] = joinedAt[c] /\ lastScheduled'[c] = at /\ batches'[c] = new
  BY <1>1, <1>2, <1>5 DEF Max2
<1>9. \A t : Entry(Host, t)' = Entry(Host, t) /\ ActionsOf(c, t)' = ActionsOf(c, t)
  BY <1>1 DEF Entry, ActionsOf
<1>10. WordsInOrder(c) /\ \A i \in DOMAIN log : ActionIsCarried(c, i)
  BY DEF InOrder, WellCarried
<1>11. /\ \A i \in DOMAIN box : box[i].tick + n = last + i
       /\ \A t \in Nat : t > N /\ c \in DOMAIN Entry(Host, t) => t + n <= last
       /\ N > joinedAt[c] + Window => N + n <= last
  BY <1>10 DEF WordsInOrder
<1> HIDE DEF at, last, fl, k, N, box
<1>b. box \in Seq(Batch) /\ fl \in Seq(Batch) /\ Len(fl) = k
  BY <1>3, <1>6
<1>12. /\ n \in Nat /\ DOMAIN box = 1..n /\ DOMAIN new = 1..(n + k) /\ Len(new) = n + k
       /\ \A i \in DOMAIN new : new[i] = IF i <= n THEN box[i] ELSE fl[i - n]
  BY <1>b
<1> HIDE DEF n, new
<1>13. ASSUME NEW i \in DOMAIN new
       PROVE  \/ i <= n /\ i \in DOMAIN box /\ new[i] = box[i]
              \/ ~(i <= n) /\ i - n \in 1..k /\ new[i] = fl[i - n]
  BY <1>6, <1>12
<1>14. \A i \in DOMAIN box : box[i].tick \in Nat
  <2>1. \A i \in DOMAIN box : box[i] \in Batch
    BY <1>b
  <2> QED
    BY <2>1 DEF Batch
<1>a. n \in Nat /\ k \in Nat /\ last \in Nat /\ at \in Nat /\ at > last /\ last + k = at
  BY <1>1, <1>5, <1>6, <1>7, <1>12
(* The ticks of the box, and of what is flushed.                             *)
<1>15. ASSUME NEW i \in DOMAIN new
       PROVE  /\ new[i].tick + (n + k) = at + i
              /\ i <= n => i \in DOMAIN box /\ new[i] = box[i]
              /\ ~(i <= n) => new[i].tick > last
              /\ new[i].tick = at => new[i].actions = acts
  <2>1. CASE i <= n /\ i \in DOMAIN box /\ new[i] = box[i]
    <3>1. box[i].tick + n = last + i /\ box[i].tick \in Nat /\ i \in Nat
      BY <1>11, <1>12, <1>14, <2>1
    <3> DEFINE e == box[i].tick
    <3>2. e \in Nat /\ i \in Nat /\ e + n = last + i /\ i <= n
      BY <2>1, <3>1
    <3> HIDE DEF e
    <3>3. e + (n + k) = at + i /\ e <= last /\ e # at
      BY <1>a, <3>2
    <3> QED
      BY <2>1, <3>3 DEF e
  <2>2. CASE ~(i <= n) /\ i - n \in 1..k /\ new[i] = fl[i - n]
    <3>1. new[i].tick = last + (i - n) /\ (i - n = k => new[i].actions = acts)
      BY <1>6, <2>2
    <3>2. i \in Nat
      BY <1>12
    <3> DEFINE e == new[i].tick
    <3>3. e = last + (i - n) /\ i - n \in 1..k
      BY <2>2, <3>1
    <3> HIDE DEF e
    <3>4. e = at => i - n = k
      BY <1>a, <3>2, <3>3
    <3>5. e + (n + k) = at + i /\ e > last
      BY <1>a, <3>2, <3>3
    <3> QED
      BY <2>2, <3>1, <3>4, <3>5 DEF e
  <2> QED
    BY <1>13, <2>1, <2>2
<1>16. WordsInOrder(c)'
  <2>1. \A t \in Nat : t > N /\ c \in DOMAIN Entry(Host, t) => t + (n + k) <= at
    BY <1>1, <1>6, <1>7, <1>11, <1>12
  <2>2. N > joinedAt[c] + Window => N + (n + k) <= at
    BY <1>1, <1>3, <1>6, <1>7, <1>11, <1>12 DEF N
  <2> QED
    BY <1>1, <1>8, <1>9, <1>12, <1>15, <2>1, <2>2 DEF WordsInOrder
<1>17. ASSUME NEW i \in DOMAIN log PROVE log[i] \in Nat /\ log[i] <= at
         /\ (log[i] \in (joinedAt[c] + Window + 1)..N => In(i, ActionsOf(c, log[i])))
         /\ (log[i] > N /\ c \in DOMAIN Entry(Host, log[i]) => In(i, Entry(Host, log[i])[c]))
         /\ \A m \in DOMAIN new : new[m].tick = log[i] => In(i, new[m].actions)
  <2>1. ActionIsCarried(c, i) /\ log[i] \in Nat
    BY <1>3, <1>10
  <2>2. /\ log[i] <= last
        /\ (log[i] \in (joinedAt[c] + Window + 1)..N => In(i, ActionsOf(c, log[i])))
        /\ (log[i] > N /\ c \in DOMAIN Entry(Host, log[i]) => In(i, Entry(Host, log[i])[c]))
        /\ \A m \in DOMAIN box : box[m].tick = log[i] => In(i, box[m].actions)
    BY <2>1 DEF ActionIsCarried, last, N, box
  <2>3. ASSUME NEW m \in DOMAIN new, new[m].tick = log[i] PROVE In(i, new[m].actions)
    <3>1. m <= n
      BY <1>1, <1>15, <2>1, <2>2, <2>3
    <3> QED
      BY <1>15, <2>2, <2>3, <3>1
  <2>4. log[i] <= at
    BY <1>1, <1>5, <2>1, <2>2
  <2> QED
    BY <2>1, <2>2, <2>3, <2>4
<1>18. ASSUME NEW i \in DOMAIN sent'[c] PROVE ActionIsCarried(c, i)'
  <2>1. CASE i \in DOMAIN log /\ sent'[c][i] = log[i]
    BY <1>1, <1>8, <1>9, <1>17, <2>1 DEF ActionIsCarried, N
  <2>2. CASE ~(i \in DOMAIN log /\ sent'[c][i] = log[i])
    <3>1. acts = <<Len(log) + 1>> /\ i = Len(log) + 1 /\ sent'[c][i] = at
      <4> HIDE DEF log
      <4>1. acts # <<>> /\ sent'[c] = Append(log, at)
        BY <1>2, <2>2
      <4>2. /\ Len(log) \in Nat /\ DOMAIN log = 1..Len(log) /\ DOMAIN Append(log, at) = 1..(Len(log) + 1)
            /\ \A j \in DOMAIN log : Append(log, at)[j] = log[j]
            /\ Append(log, at)[Len(log) + 1] = at
        BY <1>1, <1>3
      <4> QED
        BY <1>4, <2>2, <4>1, <4>2
    <3>2. In(i, acts)
      <4> DEFINE x == Len(log) + 1
      <4>1. acts = <<x>> /\ i = x
        BY <3>1
      <4> HIDE DEF x
      <4>2. 1 \in DOMAIN acts /\ acts[1] = i
        BY <4>1
      <4> QED
        BY <4>2 DEF In
    <3>3. ~(at \in (joinedAt[c] + Window + 1)..N)
      <4> SUFFICES ASSUME at \in (joinedAt[c] + Window + 1)..N PROVE FALSE
        OBVIOUS
      <4>1. N \in Nat /\ at <= N /\ N > joinedAt[c] + Window
        BY <1>1, <1>3 DEF N
      <4>2. N + n <= last
        BY <1>11, <4>1
      <4> QED
        BY <1>1, <1>5, <1>12, <4>1, <4>2
    <3>4. ~(at > N /\ c \in DOMAIN Entry(Host, at))
      BY <1>1, <1>5, <1>11, <1>12
    <3>5. \A m \in DOMAIN new : new[m].tick = at => In(i, new[m].actions)
      BY <1>15, <3>2
    <3>6. at <= at
      BY <1>1
    <3>7. /\ sent'[c][i] <= lastScheduled'[c]
          /\ \A m \in DOMAIN batches'[c] : batches'[c][m].tick = sent'[c][i] => In(i, batches'[c][m].actions)
      BY <1>8, <3>1, <3>5, <3>6
    <3>8. ~(sent'[c][i] \in (joinedAt'[c] + Window + 1)..clock'[Host])
      BY <1>1, <1>8, <3>1, <3>3
    <3>9. ~(sent'[c][i] > clock'[Host] /\ c \in DOMAIN Lookup(tracker'[Host], sent'[c][i], Empty))
      BY <1>1, <1>8, <3>1, <3>4 DEF Entry
    <3> QED
      BY <3>7, <3>8, <3>9 DEF ActionIsCarried, Entry
  <2> QED
    BY <2>1, <2>2
<1> QED
  BY <1>16, <1>18 DEF WellCarried

(* The host takes the first of a client's words. If it drops it, the tick    *)
(* has run; if not, it had none of the client's for that tick before.        *)
LEMMA BatchCarries ==
  ASSUME IInv, LetIn, HorizonReaches, Answered, WindowIsBounded,
         NEW c \in Client, WellCarried(c), HostReceiveBatch(c), joinedAt[c] # None
  PROVE  WellCarried(c)'
<1> DEFINE box == batches[c]
           head == box[1]
           h == head.tick
           word == head.actions
           was == Lookup(tracker[Host], h, Empty)
           new == Put(was, c, Lookup(was, c, <<>>) \o word)
           in == h > clock[Host] /\ h <= clock[Host] + Horizon
           n == Len(box)
           N == clock[Host]
           last == lastScheduled[c]
           log == sent[c]
<1>1. /\ box \in Seq(Batch) /\ box # <<>> /\ batches'[c] = Tail(box) /\ h \in Nat /\ word \in Seq(Nat)
      /\ UNCHANGED <<joinedAt, lastScheduled, clock, sent, ran>>
      /\ in => tracker'[Host] = Put(tracker[Host], h, new)
      /\ ~in => tracker'[Host] = tracker[Host]
  <2>1. IF joinedAt[c] # None /\ in THEN tracker'[Host] = Put(tracker[Host], h, new) ELSE tracker'[Host] = tracker[Host]
    BY BatchIs
  <2> QED
    BY <2>1, BatchIs
<1>2. /\ N \in Nat /\ Horizon \in Nat /\ last \in Nat /\ log \in Seq(Nat) /\ joinedAt[c] \in Nat /\ Window \in Nat
  BY Constants, WindowIs DEF IInv, TInv, HostTypes, ClientTypes, HistoryTypes, HorizonReaches, LetIn, JoinersHaveLoaded
<1>3. /\ n \in Nat /\ DOMAIN box = 1..n /\ 1 \in DOMAIN box
      /\ DOMAIN Tail(box) = 1..(n - 1) /\ Len(Tail(box)) = n - 1 /\ n - 1 \in Nat
      /\ \A i \in DOMAIN Tail(box) : i \in Nat /\ i + 1 \in DOMAIN box /\ Tail(box)[i] = box[i + 1]
  <2> HIDE DEF box
  <2> QED
    BY <1>1
<1>4. WordsInOrder(c) /\ \A i \in DOMAIN log : ActionIsCarried(c, i)
  BY DEF WellCarried
<1>5. /\ \A i \in DOMAIN box : box[i].tick + n = last + i
      /\ \A t \in Nat : t > N /\ c \in DOMAIN Entry(Host, t) => t + n <= last
      /\ N > joinedAt[c] + Window => N + n <= last
  BY <1>4 DEF WordsInOrder
<1>6. h + n = last + 1
  BY <1>3, <1>5
<1>7. last <= N + Horizon
  BY DEF Answered
<1>8. ~in => h <= N
  <2> HIDE DEF n, N, last, h
  <2> QED
    BY <1>1, <1>2, <1>3, <1>6, <1>7 DEF N
<1> HIDE DEF new, was, h, head, n, N, last
<1>9. in => c \notin DOMAIN Entry(Host, h)
  BY <1>1, <1>2, <1>3, <1>5, <1>6 DEF N
<1>10. in => c \in DOMAIN new /\ new[c] = word
  <2> SUFFICES ASSUME in PROVE c \in DOMAIN new /\ new[c] = word
    OBVIOUS
  <2>1. c \notin DOMAIN was
    BY <1>9 DEF Entry, was
  <2> HIDE DEF word
  <2>2. Lookup(was, c, <<>>) \o word = word
    BY <1>1, <2>1 DEF Lookup
  <2> QED
    BY <2>2 DEF new, Put
<1>11. \A t : Entry(Host, t)' = IF in /\ t = h THEN new ELSE Entry(Host, t)
  BY <1>1 DEF Entry, Lookup, Put
<1>12. \A t : ActionsOf(c, t)' = ActionsOf(c, t)
  BY <1>1 DEF ActionsOf
<1> HIDE DEF in, box, word
<1>13. ASSUME NEW i \in DOMAIN Tail(box)
       PROVE  Tail(box)[i].tick + (n - 1) = last + i
  <2> DEFINE e == Tail(box)[i].tick
  <2>1. e + n = last + (i + 1) /\ i \in Nat
    BY <1>3, <1>5
  <2>2. e \in Nat
    <3>1. Tail(box)[i] \in Batch
      BY <1>1, <1>3
    <3> QED
      BY <3>1 DEF Batch
  <2> HIDE DEF e
  <2>3. e + (n - 1) = last + i
    BY <1>2, <1>3, <2>1, <2>2
  <2> QED
    BY <2>3 DEF e
<1>14. ASSUME NEW t \in Nat, t > N, c \in DOMAIN Entry(Host, t)' PROVE t + (n - 1) <= last
  <2>1. CASE in /\ t = h
    BY <1>1, <1>2, <1>3, <1>6, <2>1
  <2>2. CASE ~(in /\ t = h)
    <3>1. t + n <= last
      BY <1>5, <1>11, <1>14, <2>2
    <3> QED
      BY <1>2, <1>3, <3>1
  <2> QED
    BY <2>1, <2>2
<1>15. N > joinedAt[c] + Window => N + (n - 1) <= last
  BY <1>2, <1>3, <1>5
<1>16. lastScheduled'[c] = last /\ joinedAt'[c] = joinedAt[c] /\ clock'[Host] = N /\ batches'[c] = Tail(box)
       /\ sent'[c] = log
  BY <1>1 DEF last, N
<1>17. WordsInOrder(c)'
  BY <1>3, <1>13, <1>14, <1>15, <1>16, Zenon DEF WordsInOrder
<1>18. ASSUME NEW i \in DOMAIN log PROVE ActionIsCarried(c, i)'
  <2>0. PICK s : s = log[i]
    OBVIOUS
  <2>1. s \in Nat
    BY <1>2, <2>0
  <2>2. /\ s <= last
        /\ s \in (joinedAt[c] + Window + 1)..N => In(i, ActionsOf(c, s))
        /\ s > N /\ c \in DOMAIN Entry(Host, s) => In(i, Entry(Host, s)[c])
        /\ \A k \in DOMAIN box : box[k].tick = s => In(i, box[k].actions)
    BY <1>4, <2>0 DEF ActionIsCarried, last, N, box
  <2>3. \A k \in DOMAIN Tail(box) : Tail(box)[k].tick = s => In(i, Tail(box)[k].actions)
    BY <1>3, <2>2
  <2>4. ASSUME s > N, c \in DOMAIN Entry(Host, s)' PROVE In(i, Entry(Host, s)'[c])
    <3>1. CASE in /\ s = h
      <4>1. In(i, word)
        BY <1>3, <2>2, <3>1 DEF h, head, word
      <4> QED
        BY <1>10, <1>11, <3>1, <4>1
    <3>2. CASE ~(in /\ s = h)
      BY <1>11, <2>2, <2>4, <3>2
    <3> QED
      BY <3>1, <3>2
  <2>5. s \in (joinedAt[c] + Window + 1)..N => In(i, ActionsOf(c, s)')
    BY <1>12, <2>2
  <2>6. sent'[c][i] = s
    BY <1>16, <2>0
  <2> QED
    BY <1>16, <2>2, <2>3, <2>4, <2>5, <2>6 DEF ActionIsCarried, Entry, ActionsOf
<1> QED
  BY <1>16, <1>17, <1>18 DEF WellCarried

(* A tick of the host runs what it has of an established participant, and it *)
(* has its word: it has waited for it.                                       *)
LEMMA TickCarries ==
  ASSUME IInv, LetIn, WindowIsBounded, NEW c \in Client, WellCarried(c), HostTick, joinedAt[c] # None
  PROVE  WellCarried(c)'
<1> DEFINE N == clock[Host]
           next == N + 1
           n == Len(batches[c])
           last == lastScheduled[c]
           log == sent[c]
<1>1. PICK acts \in MayTake(Host), players \in Players :
        /\ players = IF acts = <<>> THEN Entry(Host, next) ELSE Put(Entry(Host, next), Host, acts)
        /\ sent' = [sent EXCEPT ![Host] = IF acts = <<>> THEN sent[Host] ELSE Append(sent[Host], next)]
        /\ clock'[Host] = next /\ next \in Nat /\ batches' = batches /\ UNCHANGED joinedAt
        /\ ran'[Host][next].players = Acted(players)
        /\ \A t \in DOMAIN ran[Host] : t # next => ran'[Host][t] = ran[Host][t]
        /\ \A t \in DOMAIN tracker'[Host] :
             t > next => t \in DOMAIN tracker[Host] /\ tracker'[Host][t] = tracker[Host][t]
        /\ \A t \in DOMAIN tracker[Host] :
             t > next => t \in DOMAIN tracker'[Host] /\ tracker'[Host][t] = tracker[Host][t]
  BY HostTickActs DEF IInv
<1>2. /\ N \in Nat /\ last \in Nat /\ log \in Seq(Nat) /\ joinedAt[c] \in Nat /\ Window \in Nat
      /\ n \in Nat /\ hostBuffer \in Nat /\ hostBuffer <= Window /\ c # Host
      /\ sent \in [Peer -> Seq(Nat)] /\ c \in Peer /\ DOMAIN ran[Host] = 1..N
      /\ batches[c] \in Seq(Batch)
  <2>1. batches[c] \in Seq(Batch)
    BY DEF IInv, TInv, NetTypes
  <2> QED
    BY <2>1, Constants, WindowIs DEF IInv, TInv, HostTypes, ClientTypes, HistoryTypes, LetIn, JoinersHaveLoaded
<1>3. UNCHANGED lastScheduled
  BY DEF HostTick, clientVars
<1>4. WaitedOn(next) = {}
  BY DEF HostTick
<1>5. sent'[c] = log
  BY <1>1, <1>2
<1>6. WordsInOrder(c) /\ \A i \in DOMAIN log : ActionIsCarried(c, i)
  BY DEF WellCarried
<1>7. /\ \A i \in DOMAIN batches[c] : batches[c][i].tick + n = last + i
      /\ \A t \in Nat : t > N /\ c \in DOMAIN Entry(Host, t) => t + n <= last
      /\ N > joinedAt[c] + Window => N + n <= last
  BY <1>6 DEF WordsInOrder
<1>8. next > joinedAt[c] + Window => c \in DOMAIN Entry(Host, next)
  <2> SUFFICES ASSUME next > joinedAt[c] + Window PROVE c \in DOMAIN Entry(Host, next)
    OBVIOUS
  <2>1. ~(next <= joinedAt[c] + hostBuffer) /\ next >= joinedAt[c]
    BY <1>2
  <2>2. Required(c, next) /\ ~InGrace(c, next)
    BY <2>1 DEF Required, InGrace
  <2> QED
    BY <1>4, <2>2 DEF WaitedOn
<1>9. \A t \in Nat : t > next => Entry(Host, t)' = Entry(Host, t)
  BY <1>1 DEF Entry, Lookup
<1>n. next \in Nat /\ next > N
  BY <1>2
<1>10. WordsInOrder(c)'
  <2>1. \A t \in Nat : t > next /\ c \in DOMAIN Entry(Host, t)' => t + n <= last
    BY <1>2, <1>7, <1>9
  <2>2. next > joinedAt[c] + Window => next + n <= last
    <3> HIDE DEF next, n, last, N
    <3> QED
      BY <1>7, <1>8, <1>n
  <2> HIDE DEF next
  <2> QED
    BY <1>1, <1>3, <1>7, <2>1, <2>2 DEF WordsInOrder
<1> HIDE DEF next, N, last, n
<1>11. ASSUME c \in DOMAIN Entry(Host, next), NEW i, In(i, Entry(Host, next)[c])
       PROVE  In(i, Lookup(Acted(players), c, <<>>))
  <2>1. c \in DOMAIN players /\ players[c] = Entry(Host, next)[c]
    BY <1>1, <1>2, <1>11 DEF Put
  <2>2. players[c] # <<>>
    <3>1. DOMAIN <<>> = {}
      OBVIOUS
    <3> QED
      BY <1>11, <2>1, <3>1 DEF In
  <2>3. c \in DOMAIN Acted(players) /\ Acted(players)[c] = players[c]
    BY <2>1, <2>2, ActedIs, Zenon
  <2> QED
    BY <1>11, <2>1, <2>3 DEF Lookup
<1>12. ASSUME NEW i \in DOMAIN log PROVE ActionIsCarried(c, i)'
  <2>0. PICK s : s = log[i]
    OBVIOUS
  <2>1. s \in Nat
    BY <1>2, <2>0
  <2>2. /\ s <= last
        /\ s \in (joinedAt[c] + Window + 1)..N => In(i, ActionsOf(c, s))
        /\ s > N /\ c \in DOMAIN Entry(Host, s) => In(i, Entry(Host, s)[c])
        /\ \A k \in DOMAIN batches[c] : batches[c][k].tick = s => In(i, batches[c][k].actions)
    BY <1>6, <2>0 DEF ActionIsCarried, last, N
  <2>3. ASSUME s \in (joinedAt[c] + Window + 1)..next PROVE In(i, Lookup(ran'[Host][s].players, c, <<>>))
    <3>1. CASE s = next
      <4>1. next > joinedAt[c] + Window
        BY <1>2, <1>n, <2>3, <3>1
      <4>2. In(i, Entry(Host, next)[c]) /\ c \in DOMAIN Entry(Host, next)
        BY <1>8, <1>n, <2>2, <3>1, <4>1
      <4> QED
        BY <1>1, <1>11, <3>1, <4>2
    <3>2. CASE s # next
      <4>1. s \in (joinedAt[c] + Window + 1)..N /\ s \in DOMAIN ran[Host]
        BY <1>2, <2>1, <2>3, <3>2 DEF next
      <4>2. ran'[Host][s] = ran[Host][s]
        BY <1>1, <3>2, <4>1
      <4> QED
        BY <2>2, <4>1, <4>2 DEF ActionsOf
    <3> QED
      BY <3>1, <3>2
  <2>4. s > next /\ c \in DOMAIN Entry(Host, s)' => In(i, Entry(Host, s)'[c])
    <3>1. s > next => s > N
      BY <1>2, <1>n, <2>1
    <3> QED
      BY <1>9, <2>1, <2>2, <3>1
  <2>5. sent'[c][i] = s
    BY <1>5, <2>0
  <2> QED
    BY <1>1, <1>3, <2>2, <2>3, <2>4, <2>5 DEF ActionIsCarried, Entry, ActionsOf, last
<1> QED
  BY <1>5, <1>10, <1>12 DEF WellCarried

(* What one client does, or is done for it, changes no other's words.        *)
LEMMA OthersWords ==
  ASSUME IInv, DOMAIN joins = Client, NEW c \in Client, NEW d \in Client, d # c,
         HostStep(c) \/ ClientStep(c) \/ Connect(c) \/ Resize(c) \/ (Depart(c) /\ Disconnect(c))
  PROVE  SameWords(d) /\ stage'[d] = stage[d] /\ joins'[d] = joins[d] /\ buffer'[d] = buffer[d]
         /\ clock'[d] = clock[d]
<1> USE Constants
<1>0. /\ DOMAIN clock = Peer /\ DOMAIN tracker = Peer /\ DOMAIN joinedAt = Peer /\ DOMAIN stage = Client
      /\ DOMAIN batches = Client /\ DOMAIN lastScheduled = Client /\ c # Host /\ d # Host
      /\ DOMAIN sent = Peer /\ DOMAIN ran = Peer /\ DOMAIN buffer = Client /\ d \in Peer
  BY Zenon DEF IInv, TInv, HostTypes, LogTypes, NetTypes, ClientTypes, HistoryTypes
<1> USE DEF hostVars, pauseVars, clientVars, netVars, worldVars
<1>1. ASSUME joinedAt'[d] = joinedAt[d], lastScheduled'[d] = lastScheduled[d], batches'[d] = batches[d],
             sent'[d] = sent[d], clock'[Host] = clock[Host], ran'[Host] = ran[Host],
             tracker'[Host] = tracker[Host]
      PROVE  SameWords(d)
  <2>1. \A t \in Nat : Entry(Host, t)' = Entry(Host, t)
    BY <1>1 DEF Entry
  <2> QED
    BY <1>1, <2>1 DEF SameWords
<1>2. CASE HostReceiveBatch(c)
  <2> DEFINE h == batches[c][1].tick
             was == Lookup(tracker[Host], h, Empty)
  <2>1. PICK new : new = Put(was, c, Lookup(was, c, <<>>) \o batches[c][1].actions)
    OBVIOUS
  <2>2. /\ \A e \in Client : e # c => batches'[e] = batches[e]
        /\ UNCHANGED <<joinedAt, stage, joins, buffer, lastScheduled, clock, sent, ran>>
        /\ tracker'[Host] = Put(tracker[Host], h, new) \/ tracker'[Host] = tracker[Host]
    BY <1>2, <2>1, BatchIs
  <2>3. (d \in DOMAIN new <=> d \in DOMAIN was) /\ (d \in DOMAIN was => new[d] = was[d])
    BY <2>1 DEF Put
  <2>4. CASE tracker'[Host] = tracker[Host]
    BY <1>1, <2>2, <2>4
  <2>5. CASE tracker'[Host] = Put(tracker[Host], h, new)
    <3>1. \A t \in Nat : Entry(Host, t)' = IF t = h THEN new ELSE Entry(Host, t)
      BY <2>5 DEF Entry, Lookup, Put
    <3>2. was = Entry(Host, h)
      BY DEF Entry
    <3> HIDE DEF was, h
    <3> QED
      BY <2>2, <2>3, <3>1, <3>2 DEF SameWords
  <2> QED
    BY <2>2, <2>4, <2>5
<1>3. CASE AnswerRequest(c)
  BY <1>0, <1>1, <1>3 DEF AnswerRequest
<1>4. CASE AcceptLoaded(c)
  BY <1>0, <1>1, <1>4 DEF AcceptLoaded
<1>5. CASE ReceiveRuling(c) \/ ReplayStash(c)
  BY <1>0, <1>1, <1>5 DEF ReceiveRuling, ReplayStash, Apply
<1>6. CASE ReceiveParticipants(c) \/ Resize(c) \/ Connect(c)
  <2>1. /\ joins'[d] = joins[d] /\ buffer'[d] = buffer[d] /\ ran'[Host] = ran[Host] /\ clock'[d] = clock[d]
    BY <1>0, <1>6 DEF ReceiveParticipants, Resize, Connect
  <2> QED
    BY <1>0, <1>1, <1>6, <2>1 DEF ReceiveParticipants, Resize, Connect
<1>7. CASE ReceiveSnapshot(c) \/ ApplySnapshot(c)
  <2>1. ran'[Host] = ran[Host] /\ tracker'[Host] = tracker[Host]
    BY <1>0, <1>7 DEF ReceiveSnapshot, ApplySnapshot
  <2> QED
    BY <1>0, <1>1, <1>7, <2>1 DEF ReceiveSnapshot, ApplySnapshot
<1>8. CASE ClientPass(c)
  <2>1. /\ \A e \in Client : e # c => /\ batches'[e] = batches[e] /\ sent'[e] = sent[e]
                                      /\ lastScheduled'[e] = lastScheduled[e] /\ clock'[e] = clock[e]
        /\ clock'[Host] = clock[Host] /\ tracker'[Host] = tracker[Host] /\ ran'[Host] = ran[Host]
        /\ UNCHANGED <<joinedAt, stage, joins, buffer>>
    BY <1>8, PassIs, Zenon
  <2> QED
    BY <1>1, <2>1
<1>9. CASE Depart(c) /\ Disconnect(c)
  BY <1>0, <1>1, <1>9 DEF Depart, Disconnect
<1> QED
  BY <1>2, <1>3, <1>4, <1>5, <1>6, <1>7, <1>8, <1>9 DEF HostStep, ClientStep

(* A snapshot finds its client still asking.                                 *)
LEMMA AskingIsGiven ==
  ASSUME IInv, Told, NEW c \in Client, ReceiveSnapshot(c) PROVE stage[c] = "asking"
<1>1. inbox[c] # <<>> /\ Head(inbox[c]).type = "snapshot"
  BY DEF ReceiveSnapshot
<1>2. 1 \in DOMAIN inbox[c] /\ inbox[c][1] = Head(inbox[c])
  BY <1>1 DEF IInv, TInv, NetTypes
<1> QED
  BY <1>1, <1>2 DEF Told, HandedOnce

LEMMA ConnectsStep ==
  ASSUME IInv, Told, MaxJoins = 1, ConnectsOnce, [Next]_vars PROVE ConnectsOnce'
<1> USE Constants
<1>0. DOMAIN stage = Client
  BY DEF IInv, TInv, ClientTypes
<1> USE DEF hostVars, pauseVars, clientVars, netVars, worldVars
<1>1. ASSUME UNCHANGED <<stage, joins>> PROVE ConnectsOnce'
  BY <1>1 DEF ConnectsOnce
<1>2. ASSUME NEW c \in Client, stage'[c] # "out" => joins'[c] = 1, joins' \in [Client -> {0, 1}],
             \A d \in Client : d # c => joins'[d] = joins[d] /\ stage'[d] = stage[d]
      PROVE  ConnectsOnce'
  BY <1>2 DEF ConnectsOnce
<1>j. DOMAIN joins = Client /\ joins \in [Client -> {0, 1}]
  BY DEF ConnectsOnce
<1>3. ASSUME NEW c \in Client, HostStep(c) \/ ClientStep(c) \/ Resize(c) \/ (Depart(c) /\ Disconnect(c))
      PROVE  ConnectsOnce'
  <2>1. joins' = joins /\ (stage' = stage \/ stage[c] # "out" \/ stage'[c] = "out")
    <3>1. CASE HostStep(c)
      BY <3>1 DEF HostStep, HostReceiveBatch, AnswerRequest, AcceptLoaded
    <3>2. CASE ReceiveRuling(c) \/ ReplayStash(c) \/ ReceiveParticipants(c) \/ Resize(c)
      BY <3>2 DEF ReceiveRuling, ReplayStash, ReceiveParticipants, Resize
    <3>3. CASE ApplySnapshot(c) \/ ClientPass(c)
      BY <3>3, Zenon DEF ApplySnapshot, ClientPass
    <3>4. CASE ReceiveSnapshot(c)
      BY <3>4, AskingIsGiven, Zenon DEF ReceiveSnapshot
    <3>5. CASE Depart(c) /\ Disconnect(c)
      BY <1>0, <3>5 DEF Disconnect
    <3> QED
      BY <1>3, <3>1, <3>2, <3>3, <3>4, <3>5 DEF ClientStep
  <2>2. \A d \in Client : d # c => joins'[d] = joins[d] /\ stage'[d] = stage[d]
    BY <1>3, <1>j, OthersWords
  <2>3. joins' \in [Client -> {0, 1}] /\ (stage'[c] # "out" => joins'[c] = 1)
    BY <2>1 DEF ConnectsOnce
  <2> QED
    BY <1>2, <2>2, <2>3
<1>4. ASSUME NEW c \in Client, Connect(c) PROVE ConnectsOnce'
  <2>1. joins[c] < 1 /\ joins' = [joins EXCEPT ![c] = joins[c] + 1] /\ joins[c] \in {0, 1}
    BY <1>4, <1>j DEF Connect
  <2>2. joins[c] + 1 = 1
    BY <2>1
  <2>3. joins' \in [Client -> {0, 1}] /\ joins'[c] = 1
    <3> DEFINE n == joins[c] + 1
    <3>1. joins' = [joins EXCEPT ![c] = n] /\ n = 1
      BY <2>1, <2>2
    <3> HIDE DEF n
    <3> QED
      BY <1>j, <3>1
  <2>4. \A d \in Client : d # c => joins'[d] = joins[d] /\ stage'[d] = stage[d]
    BY <1>4, <1>j, OthersWords
  <2> QED
    BY <1>2, <2>3, <2>4
<1>5. CASE UNCHANGED vars \/ HostTick \/ HostHeldPass \/ ResizeHost \/ (\E what \in {"pause", "resume"} : Ask(what))
  BY <1>1, <1>5 DEF vars, HostTick, HostHeldPass, ResizeHost, Ask, Stage
<1> QED
  BY <1>3, <1>4, <1>5 DEF Next, Leave, Kick

LEMMA SchedulesStep ==
  ASSUME IInv, ~Shrinks, ConnectsOnce, SchedulesOnward, [Next]_vars PROVE SchedulesOnward'
<1> USE Constants
<1>0. /\ DOMAIN clock = Peer /\ DOMAIN stage = Client /\ DOMAIN lastScheduled = Client /\ DOMAIN joins = Client
      /\ buffer \in [Client -> Buffers] /\ \A c \in Client : c # Host /\ buffer[c] \in Nat /\ clock[c] \in Nat
  BY Zenon DEF IInv, TInv, HostTypes, ClientTypes, ConnectsOnce
<1> USE DEF hostVars, pauseVars, clientVars, netVars, worldVars
<1>1. ASSUME UNCHANGED <<stage, lastScheduled, buffer>>, \A c \in Client : clock'[c] = clock[c]
      PROVE  SchedulesOnward'
  BY <1>1 DEF SchedulesOnward
<1>2. ASSUME NEW c \in Client, stage'[c] = "loaded" => lastScheduled'[c] <= clock'[c] + buffer'[c],
             HostStep(c) \/ ClientStep(c) \/ Connect(c) \/ Resize(c) \/ (Depart(c) /\ Disconnect(c))
      PROVE  SchedulesOnward'
  <2>1. \A d \in Client : d # c =>
          /\ stage'[d] = stage[d] /\ lastScheduled'[d] = lastScheduled[d]
          /\ clock'[d] = clock[d] /\ buffer'[d] = buffer[d]
    BY <1>0, <1>2, OthersWords DEF SameWords
  <2> QED
    BY <1>2, <2>1 DEF SchedulesOnward
<1>3. ASSUME NEW c \in Client, HostStep(c) PROVE SchedulesOnward'
  BY <1>1, <1>3 DEF HostStep, HostReceiveBatch, AnswerRequest, AcceptLoaded
<1>4. ASSUME NEW c \in Client, ClientStep(c) PROVE SchedulesOnward'
  <2>1. CASE ReceiveRuling(c) \/ ReplayStash(c) \/ ReceiveParticipants(c)
    BY <1>1, <2>1 DEF ReceiveRuling, ReplayStash, ReceiveParticipants
  <2>2. CASE ReceiveSnapshot(c)
    <3>1. stage'[c] # "loaded"
      BY <1>0, <2>2 DEF ReceiveSnapshot
    <3> QED
      BY <1>2, <1>4, <3>1
  <2>3. CASE ApplySnapshot(c)
    <3>1. /\ stage[c] = "given" /\ clock'[c] = given[c] /\ lastScheduled'[c] = given[c] /\ buffer' = buffer
      BY <1>0, <2>3 DEF ApplySnapshot
    <3>2. given[c] \in Nat
      BY <3>1 DEF IInv, TInv, ClientTypes
    <3>3. lastScheduled'[c] <= clock'[c] + buffer'[c]
      BY <1>0, <3>1, <3>2
    <3> QED
      BY <1>2, <1>4, <3>3
  <2>4. CASE ClientPass(c)
    <3> DEFINE at == clock[c] + 1 + buffer[c]
    <3>1. /\ stage[c] = "loaded" /\ lastScheduled[c] \in Nat /\ lastScheduled'[c] = Max2(lastScheduled[c], at)
          /\ clock'[c] = clock[c] + 1 /\ buffer' = buffer
      BY <2>4, PassIs, Zenon
    <3>2. lastScheduled[c] <= clock[c] + buffer[c]
      BY <3>1 DEF SchedulesOnward
    <3>3. Max2(lastScheduled[c], at) = at /\ at = (clock[c] + 1) + buffer[c] /\ at <= at
      BY <1>0, <3>1, <3>2 DEF Max2
    <3>4. lastScheduled'[c] <= clock'[c] + buffer'[c]
      BY <3>1, <3>3
    <3> QED
      BY <1>2, <1>4, <3>4
  <2> QED
    BY <1>4, <2>1, <2>2, <2>3, <2>4 DEF ClientStep
<1>5. ASSUME NEW c \in Client, Connect(c) PROVE SchedulesOnward'
  <2>1. stage'[c] # "loaded"
    BY <1>0, <1>5 DEF Connect
  <2> QED
    BY <1>2, <1>5, <2>1
<1>6. ASSUME NEW c \in Client, Resize(c) PROVE SchedulesOnward'
  <2>1. PICK b \in Buffers : b > buffer[c] /\ buffer' = [buffer EXCEPT ![c] = b]
    BY <1>6, Zenon DEF Resize
  <2>2. UNCHANGED <<stage, lastScheduled, clock>> /\ buffer'[c] = b /\ b \in Nat
    BY <1>0, <1>6, <2>1 DEF Resize
  <2>3. ASSUME stage[c] = "loaded" PROVE lastScheduled[c] <= clock[c] + b
    <3>1. lastScheduled[c] \in Nat /\ lastScheduled[c] <= clock[c] + buffer[c]
      BY <2>3 DEF SchedulesOnward, IInv, TInv, ClientTypes
    <3> QED
      BY <1>0, <2>1, <2>2, <3>1
  <2> QED
    BY <1>2, <1>6, <2>2, <2>3
<1>7. ASSUME NEW c \in Client, Depart(c), Disconnect(c) PROVE SchedulesOnward'
  <2>1. stage'[c] # "loaded"
    BY <1>0, <1>7 DEF Disconnect
  <2> QED
    BY <1>2, <1>7, <2>1
<1>8. CASE HostTick
  <2>1. \A c \in Client : clock'[c] = clock[c]
    BY <1>0, <1>8 DEF HostTick, RunTick
  <2> QED
    BY <1>1, <1>8, <2>1 DEF HostTick
<1>9. CASE UNCHANGED vars \/ HostHeldPass \/ ResizeHost \/ (\E what \in {"pause", "resume"} : Ask(what))
  BY <1>1, <1>9 DEF vars, HostHeldPass, ResizeHost, Ask
<1> QED
  BY <1>3, <1>4, <1>5, <1>6, <1>7, <1>8, <1>9 DEF Next, Leave, Kick

(* A client that has yet to be let in schedules nothing, and nothing of it   *)
(* is taken; one that has gone does not begin again.                         *)
LEMMA BeginnersStep ==
  ASSUME IInv, Told, LetIn, MaxJoins = 1, ConnectsOnce, BeginnersAreUnheard, [Next]_vars
  PROVE  BeginnersAreUnheard'
<1> USE Constants
<1>0. /\ DOMAIN clock = Peer /\ DOMAIN tracker = Peer /\ DOMAIN joinedAt = Peer /\ DOMAIN stage = Client
      /\ DOMAIN joins = Client /\ DOMAIN sent = Peer /\ clock[Host] \in Nat
      /\ \A c \in Client : c # Host /\ c \in Peer /\ joins[c] \in {0, 1}
  BY DEF IInv, TInv, HostTypes, LogTypes, ClientTypes, HistoryTypes, ConnectsOnce
<1> USE DEF hostVars, pauseVars, clientVars, netVars, worldVars
<1> SUFFICES ASSUME NEW d \in Client, Beginner(d)' PROVE Unheard(d)'
  BY DEF BeginnersAreUnheard
<1>1. ASSUME Beginner(d), SameWords(d) PROVE Unheard(d)'
  <2>1. Unheard(d)
    BY <1>1 DEF BeginnersAreUnheard
  <2> QED
    BY <1>1, <2>1 DEF Unheard, SameWords
<1>2. ASSUME UNCHANGED <<clock, joinedAt, lastScheduled, batches, sent>>, ran'[Host] = ran[Host], tracker'[Host] = tracker[Host]
      PROVE  SameWords(d)
  <2>1. \A t \in Nat : Entry(Host, t)' = Entry(Host, t)
    BY <1>2 DEF Entry
  <2> QED
    BY <1>2, <2>1 DEF SameWords
<1>3. ASSUME UNCHANGED <<clock, sent>>, tracker'[Host] = tracker[Host], Beginner(d) PROVE Unheard(d)'
  <2>1. Unheard(d) /\ \A t \in Nat : Entry(Host, t)' = Entry(Host, t)
    BY <1>3 DEF BeginnersAreUnheard, Entry
  <2> QED
    BY <1>3, <2>1 DEF Unheard
<1>4. ASSUME NEW c \in Client, c # d,
             HostStep(c) \/ ClientStep(c) \/ Connect(c) \/ Resize(c) \/ (Depart(c) /\ Disconnect(c))
      PROVE  Unheard(d)'
  <2>1. SameWords(d) /\ stage'[d] = stage[d] /\ joins'[d] = joins[d]
    BY <1>0, <1>4, OthersWords
  <2>2. Beginner(d)
    BY <2>1 DEF Beginner, SameWords
  <2> QED
    BY <1>1, <2>1, <2>2
<1>5. ASSUME HostStep(d) PROVE Unheard(d)'
  <2>1. CASE HostReceiveBatch(d)
    <3>1. batches[d] # <<>> /\ joinedAt' = joinedAt
      BY <2>1 DEF HostReceiveBatch
    <3>2. joinedAt[d] = None
      BY <3>1 DEF Beginner
    <3> QED
      BY <3>1, <3>2 DEF LetIn, StrangersAreSilent
  <2>2. CASE AnswerRequest(d)
    BY <1>3, <2>2 DEF AnswerRequest, Beginner
  <2>3. CASE AcceptLoaded(d)
    <3>1. UNCHANGED <<clock, sent, tracker, joins, stage>> /\ (joinedAt[d] # None => joinedAt' = joinedAt)
      BY <2>3 DEF AcceptLoaded
    <3>2. Beginner(d)
      BY <3>1 DEF Beginner
    <3> QED
      BY <1>3, <3>1, <3>2
  <2> QED
    BY <1>5, <2>1, <2>2, <2>3 DEF HostStep
<1>6. ASSUME ClientStep(d) PROVE Unheard(d)'
  <2>1. CASE ReceiveRuling(d) \/ ReplayStash(d) \/ ReceiveParticipants(d)
    BY <1>0, <1>3, <2>1 DEF ReceiveRuling, ReplayStash, ReceiveParticipants, Beginner, Apply
  <2>2. CASE ReceiveSnapshot(d)
    <3>1. stage[d] = "asking" /\ UNCHANGED <<clock, sent, tracker, joins, joinedAt>>
      BY <2>2, AskingIsGiven, Zenon DEF ReceiveSnapshot
    <3> QED
      BY <1>3, <3>1 DEF Beginner
  <2>3. CASE ApplySnapshot(d)
    <3>1. stage[d] = "given" /\ UNCHANGED <<sent, joins, joinedAt>> /\ clock'[Host] = clock[Host]
          /\ tracker'[Host] = tracker[Host]
      BY <1>0, <2>3 DEF ApplySnapshot
    <3>2. Beginner(d)
      BY <3>1 DEF Beginner
    <3>3. Unheard(d) /\ \A t \in Nat : Entry(Host, t)' = Entry(Host, t)
      BY <3>1, <3>2 DEF BeginnersAreUnheard, Entry
    <3> QED
      BY <3>1, <3>3 DEF Unheard
  <2>4. CASE ClientPass(d)
    <3>1. Host \in roster[d] /\ joinedAt' = joinedAt
      BY <2>4 DEF ClientPass, MayRun
    <3> QED
      BY <3>1 DEF Beginner, LetIn, StrangersAreSilent
  <2> QED
    BY <1>6, <2>1, <2>2, <2>3, <2>4 DEF ClientStep
<1>7. ASSUME Connect(d) PROVE Unheard(d)'
  <2>1. joins[d] < 1 /\ UNCHANGED <<sent, joinedAt, tracker>> /\ clock'[Host] = clock[Host]
    BY <1>0, <1>7 DEF Connect
  <2>2. joins[d] = 0
    BY <1>0, <2>1
  <2>3. Beginner(d)
    BY <2>1, <2>2 DEF Beginner
  <2>4. Unheard(d) /\ \A t \in Nat : Entry(Host, t)' = Entry(Host, t)
    BY <2>1, <2>3 DEF BeginnersAreUnheard, Entry
  <2> QED
    BY <2>1, <2>4 DEF Unheard
<1>8. CASE Resize(d)
  BY <1>3, <1>8 DEF Resize, Beginner
<1>9. ASSUME stage[d] # "out", Depart(d), Disconnect(d) PROVE Unheard(d)'
  <2>1. joins[d] = 1 /\ joins' = joins /\ stage'[d] = "out"
    BY <1>0, <1>9 DEF ConnectsOnce, Disconnect
  <2> QED
    BY <2>1 DEF Beginner
<1>10. CASE HostTick
  <2> DEFINE next == clock[Host] + 1
  <2>1. /\ clock'[Host] = next /\ sent'[d] = sent[d] /\ UNCHANGED <<joinedAt, stage, joins>>
        /\ \A t \in DOMAIN tracker'[Host] :
             t > next => t \in DOMAIN tracker[Host] /\ tracker'[Host][t] = tracker[Host][t]
        /\ \A t \in DOMAIN tracker[Host] :
             t > next => t \in DOMAIN tracker'[Host] /\ tracker'[Host][t] = tracker[Host][t]
    <3>1. UNCHANGED <<joinedAt, stage, joins>>
      BY <1>10 DEF HostTick, Stage
    <3> QED
      BY <1>0, <1>10, <3>1, HostTickActs DEF IInv
  <2>2. Unheard(d)
    BY <2>1 DEF Beginner, BeginnersAreUnheard
  <2>3. \A t \in Nat : t > next => t > clock[Host] /\ Entry(Host, t)' = Entry(Host, t)
    <3>1. \A t \in Nat : t > next => t > clock[Host]
      BY <1>0
    <3> QED
      BY <2>1, <3>1 DEF Entry, Lookup
  <2> HIDE DEF next
  <2> QED
    BY <2>1, <2>2, <2>3 DEF Unheard
<1>11. CASE UNCHANGED vars \/ HostHeldPass \/ ResizeHost \/ (\E what \in {"pause", "resume"} : Ask(what))
  BY <1>3, <1>11 DEF vars, HostHeldPass, ResizeHost, Ask, Beginner, Stage
<1> QED
  BY <1>4, <1>5, <1>6, <1>7, <1>8, <1>9, <1>10, <1>11 DEF Next, Leave, Kick

(* Who is let in has scheduled nothing yet, and is heard of nowhere.         *)
LEMMA AcceptCarries ==
  ASSUME IInv, Told, LetIn, InOrder, WindowIsBounded, NEW c \in Client, AcceptLoaded(c), joinedAt'[c] # None
  PROVE  WellCarried(c)'
<1>1. /\ UNCHANGED <<clock, tracker, ran, sent, batches, lastScheduled, stage>>
      /\ handshake[c] # <<>> /\ Head(handshake[c]).type = "loaded"
      /\ IF joinedAt[c] # None THEN joinedAt' = joinedAt
         ELSE joinedAt' = [joinedAt EXCEPT ![c] = Acceptance(Head(handshake[c]).buffer)]
  BY DEF AcceptLoaded, worldVars, clientVars
<1>2. clock[Host] \in Nat /\ Window \in Nat /\ DOMAIN joinedAt = Peer /\ c \in Peer /\ sent[c] \in Seq(Nat)
  BY WindowIs, Constants DEF IInv, TInv, HostTypes, HistoryTypes
<1>3. CASE joinedAt[c] # None
  <2>1. \A t \in Nat : Entry(Host, t)' = Entry(Host, t)
    BY <1>1 DEF Entry
  <2>2. SameWords(c)
    BY <1>1, <1>3, <2>1 DEF SameWords
  <2>3. WellCarried(c)
    BY <1>3 DEF InOrder
  <2> QED
    BY <1>2, <2>2, <2>3, WordsKept
<1>4. CASE joinedAt[c] = None
  <2> DEFINE h == Head(handshake[c])
  <2>1. h \in Shake /\ h.type = "loaded" /\ 1 \in DOMAIN handshake[c] /\ handshake[c][1] = h
    BY <1>1 DEF IInv, TInv, NetTypes
  <2>2. stage[c] = "loaded" /\ batches[c] = <<>>
    BY <1>4, <2>1 DEF LetIn, JoinersHaveLoaded, StrangersAreSilent
  <2>3. sent[c] = <<>> /\ \A t \in Nat : t > clock[Host] => c \notin DOMAIN Entry(Host, t)
    BY <1>4, <2>2 DEF InOrder, BeginnersAreUnheard, Beginner, Unheard
  <2>4. joinedAt'[c] = Acceptance(h.buffer)
    BY <1>1, <1>2, <1>4
  <2> HIDE DEF h
  <2>5. joinedAt'[c] \in Nat /\ joinedAt'[c] > clock[Host]
    <3>1. h.buffer \in Nat
      BY <2>1 DEF Shake
    <3>2. clock[Host] \in Nat /\ lastBroadcast = clock[Host] /\ hostBuffer \in Nat
      BY Constants DEF IInv, TInv, HostTypes, NothingIsOwed
    <3>3. \A b \in Nat : Acceptance(b) \in Nat /\ Acceptance(b) > clock[Host]
      BY <3>2 DEF Acceptance, RuledThrough, Max2
    <3> QED
      BY <2>4, <3>1, <3>3
  <2>6. DOMAIN <<>> = {}
    OBVIOUS
  <2>7. ~(clock[Host] > joinedAt'[c] + Window)
    BY <1>2, <2>5
  <2>8. \A t \in Nat : Entry(Host, t)' = Entry(Host, t)
    BY <1>1 DEF Entry
  <2>9. WordsInOrder(c)'
    BY <1>1, <2>2, <2>3, <2>6, <2>7, <2>8 DEF WordsInOrder
  <2> QED
    BY <1>1, <2>3, <2>6, <2>9 DEF WellCarried
<1> QED
  BY <1>3, <1>4

LEMMA OrderStep ==
  ASSUME IInv, Told, LetIn, Answered, InOrder, ~Shrinks, MaxJoins = 1, HorizonReaches, WindowIsBounded,
         [Next]_vars
  PROVE  InOrder'
<1> USE Constants
<1>0. /\ DOMAIN joins = Client /\ DOMAIN joinedAt = Peer /\ DOMAIN tracker = Peer /\ DOMAIN clock = Peer
      /\ DOMAIN sent = Peer /\ DOMAIN ran = Peer
      /\ \A c \in Client : sent[c] \in Seq(Nat) /\ c # Host
  BY DEF InOrder, ConnectsOnce, IInv, TInv, HostTypes, LogTypes, HistoryTypes
<1>1. ConnectsOnce' /\ SchedulesOnward' /\ BeginnersAreUnheard'
  BY ConnectsStep, SchedulesStep, BeginnersStep DEF InOrder
<1> USE DEF hostVars, pauseVars, clientVars, netVars, worldVars
<1> SUFFICES ASSUME NEW d \in Client, joinedAt'[d] # None PROVE WellCarried(d)'
  BY <1>1 DEF InOrder
<1>2. joinedAt[d] # None => WellCarried(d)
  BY DEF InOrder
<1>3. ASSUME SameWords(d) PROVE WellCarried(d)'
  BY <1>0, <1>2, <1>3, WordsKept DEF SameWords
<1>4. ASSUME UNCHANGED <<joinedAt, lastScheduled, sent, batches>>, clock'[Host] = clock[Host],
             ran'[Host] = ran[Host], tracker'[Host] = tracker[Host]
      PROVE  SameWords(d)
  <2>1. \A t \in Nat : Entry(Host, t)' = Entry(Host, t)
    BY <1>4 DEF Entry
  <2> QED
    BY <1>4, <2>1 DEF SameWords
<1>5. ASSUME NEW c \in Client, c # d,
             HostStep(c) \/ ClientStep(c) \/ Connect(c) \/ Resize(c) \/ (Depart(c) /\ Disconnect(c))
      PROVE  WellCarried(d)'
  BY <1>0, <1>3, <1>5, OthersWords
<1>6. CASE HostStep(d)
  <2>1. CASE HostReceiveBatch(d)
    <3>1. joinedAt[d] # None
      BY <2>1 DEF HostReceiveBatch
    <3> QED
      BY <1>2, <2>1, <3>1, BatchCarries
  <2>2. CASE AnswerRequest(d)
    BY <1>3, <1>4, <2>2 DEF AnswerRequest
  <2>3. CASE AcceptLoaded(d)
    BY <2>3, AcceptCarries
  <2> QED
    BY <1>6, <2>1, <2>2, <2>3 DEF HostStep
<1>7. CASE ClientStep(d)
  <2>1. CASE ReceiveRuling(d) \/ ReplayStash(d) \/ ReceiveParticipants(d)
    BY <1>0, <1>3, <1>4, <2>1 DEF ReceiveRuling, ReplayStash, ReceiveParticipants, Apply
  <2>2. CASE ReceiveSnapshot(d) \/ ApplySnapshot(d)
    <3>1. stage[d] # "loaded" /\ joinedAt' = joinedAt
      BY <2>2, AskingIsGiven DEF ReceiveSnapshot, ApplySnapshot
    <3> QED
      BY <3>1 DEF LetIn, JoinersHaveLoaded
  <2>3. CASE ClientPass(d)
    <3>1. joinedAt[d] # None
      BY <2>3 DEF ClientPass
    <3> QED
      BY <2>3, <3>1, PassCarries
  <2> QED
    BY <1>7, <2>1, <2>2, <2>3 DEF ClientStep
<1>8. CASE Connect(d) \/ Resize(d)
  BY <1>0, <1>3, <1>4, <1>8 DEF Connect, Resize
<1>9. ASSUME Depart(d), Disconnect(d) PROVE WellCarried(d)'
  BY <1>0, <1>9 DEF Depart
<1>10. CASE HostTick
  <2>1. joinedAt[d] # None
    BY <1>10 DEF HostTick, Stage
  <2> QED
    BY <1>2, <1>10, <2>1, TickCarries
<1>11. CASE UNCHANGED vars \/ HostHeldPass \/ ResizeHost \/ (\E what \in {"pause", "resume"} : Ask(what))
  BY <1>3, <1>4, <1>11 DEF vars, HostHeldPass, ResizeHost, Ask, Stage
<1> QED
  BY <1>5, <1>6, <1>7, <1>8, <1>9, <1>10, <1>11 DEF Next, Leave, Kick

(* An action of a participant past its first window has run on the tick it   *)
(* was scheduled for: the host has waited for the batch that carries it, and *)
(* the batches arrive in the order of their ticks.  A client that shrinks    *)
(* its buffer may schedule for a tick it has already said its word on, which *)
(* may have run; and a client that connects again does not send again what   *)
(* was lost with its link.                                                   *)
THEOREM ActionsReachTheirTick ==
  ASSUME ~Shrinks, MaxJoins = 1, HorizonReaches, WindowIsBounded
  PROVE  Spec => []NoActionLost
<1>1. Init => InOrder
  <2> SUFFICES ASSUME Init PROVE InOrder
    OBVIOUS
  <2>1. /\ joins = [c \in Client |-> 0] /\ stage = [c \in Client |-> "out"]
        /\ \A c \in Client : joinedAt[c] = None /\ sent[c] = <<>>
        /\ tracker[Host] = Empty /\ DOMAIN Empty = {}
    BY Constants, PlayersAre DEF Init
  <2>2. ConnectsOnce
    BY <2>1 DEF ConnectsOnce
  <2>3. SchedulesOnward
    BY <2>1 DEF SchedulesOnward
  <2>4. BeginnersAreUnheard
    BY <2>1 DEF BeginnersAreUnheard, Unheard, Entry, Lookup
  <2> QED
    BY <2>1, <2>2, <2>3, <2>4 DEF InOrder
<1>2. IInv /\ Told /\ LetIn /\ Answered /\ InOrder /\ [Next]_vars => InOrder'
  BY OrderStep
<1>3. IInv /\ InOrder => NoActionLost
  <2> SUFFICES ASSUME InOrder, NEW c \in Client, joinedAt[c] # None, NEW i \in DOMAIN sent[c],
                      sent[c][i] \in (joinedAt[c] + Window + 1)..clock[Host]
               PROVE  \E k \in DOMAIN ActionsOf(c, sent[c][i]) : ActionsOf(c, sent[c][i])[k] = i
    BY DEF NoActionLost, Window
  <2> QED
    BY DEF InOrder, WellCarried, ActionIsCarried, In
<1>4. Spec => [](IInv /\ Told /\ LetIn /\ Answered)
  BY AnsweredInvariant
<1> QED
  BY <1>1, <1>2, <1>3, <1>4, PTL DEF Spec

-----------------------------------------------------------------------------
(* THE ROSTERS                                                               *)
(*                                                                           *)
(* First the host alone, whose roster follows from what it has staged; then  *)
(* what a client is told of who joins, which comes before it could be past   *)
(* the tick; then what each client stands on.                                *)

(* A set laid out as a sequence has each of its members.                     *)
LEMMA SequenceHasAll ==
  ASSUME NEW S, IsFiniteSet(S)
  PROVE  /\ SetToSeq(S) \in Seq(S)
         /\ \A x \in S : \E i \in 1..Len(SetToSeq(S)) : SetToSeq(S)[i] = x
<1> DEFINE n == Cardinality(S)
           js == SetToSeq(S)
<1>1. n \in Nat /\ ExistsBijection(1..n, S)
  BY FS_CardinalityType
<1>2. \E f \in [1..n -> S] : IsInjective(f)
  BY <1>1 DEF ExistsBijection, Bijection, Injection
<1>3. js \in [1..n -> S] /\ IsInjective(js)
  BY <1>2 DEF SetToSeq
<1>4. IsFiniteSet(1..n) /\ Cardinality(1..n) = n
  BY <1>1, FS_Interval
<1> HIDE DEF js, n
<1>5. js \in Injection(1..n, S) /\ Cardinality(S) = n
  BY <1>3 DEF Injection, n
<1>6. js \in Surjection(1..n, S)
  BY <1>4, <1>5, FS_Injection
<1>7. js \in Seq(S) /\ Len(js) = n
  BY <1>1, <1>3
<1> QED
  BY <1>6, <1>7 DEF Surjection, js

(* The actions about a player, of two runs of actions put together.          *)
LEMMA AboutBoth ==
  ASSUME NEW s \in Seq(SysAct), NEW a \in Seq(SysAct), NEW p
  PROVE  /\ \A i \in About(s, p) : i \in About(s \o a, p) /\ (s \o a)[i] = s[i] /\ i \in 1..Len(s)
         /\ \A i \in About(a, p) : Len(s) + i \in About(s \o a, p) /\ (s \o a)[Len(s) + i] = a[i]
         /\ \A i \in About(s \o a, p) : i \in About(s, p) \/ (i > Len(s) /\ i - Len(s) \in About(a, p))
         /\ About(s \o a, p) \in SUBSET (1..(Len(s) + Len(a)))
         /\ About(s, p) \in SUBSET (1..Len(s)) /\ About(a, p) \in SUBSET (1..Len(a))
<1> DEFINE both == s \o a
<1>1. /\ DOMAIN s = 1..Len(s) /\ DOMAIN a = 1..Len(a) /\ Len(s) \in Nat /\ Len(a) \in Nat
      /\ DOMAIN both = 1..(Len(s) + Len(a))
      /\ \A i \in DOMAIN both : both[i] = IF i <= Len(s) THEN s[i] ELSE a[i - Len(s)]
  OBVIOUS
<1> HIDE DEF both
<1>2. \A i \in DOMAIN s : i \in DOMAIN both /\ both[i] = s[i]
  BY <1>1
<1>3. ASSUME NEW i \in DOMAIN a PROVE Len(s) + i \in DOMAIN both /\ both[Len(s) + i] = a[i]
  <2>1. Len(s) + i \in DOMAIN both /\ ~(Len(s) + i <= Len(s)) /\ (Len(s) + i) - Len(s) = i
    BY <1>1
  <2> QED
    BY <1>1, <2>1
<1>4. ASSUME NEW i \in DOMAIN both, ~(i <= Len(s)) PROVE i > Len(s) /\ i - Len(s) \in DOMAIN a /\ both[i] = a[i - Len(s)]
  BY <1>1, <1>4
<1>5. \A i \in DOMAIN both : i <= Len(s) => i \in DOMAIN s /\ both[i] = s[i]
  BY <1>1
<1>6. \A i \in About(s, p) : i \in About(both, p) /\ both[i] = s[i] /\ i \in 1..Len(s)
  BY <1>1, <1>2 DEF About
<1>7. \A i \in About(a, p) : Len(s) + i \in About(both, p) /\ both[Len(s) + i] = a[i]
  BY <1>3 DEF About
<1>8. \A i \in About(both, p) : i \in About(s, p) \/ (i > Len(s) /\ i - Len(s) \in About(a, p))
  BY <1>4, <1>5 DEF About
<1>9. /\ About(both, p) \in SUBSET (1..(Len(s) + Len(a)))
      /\ About(s, p) \in SUBSET (1..Len(s)) /\ About(a, p) \in SUBSET (1..Len(a))
  BY <1>1 DEF About
<1> QED
  BY <1>6, <1>7, <1>8, <1>9 DEF both

(* The roster after two runs of actions is that after the one and the other. *)
LEMMA RosterAfterBoth ==
  ASSUME NEW s \in Seq(SysAct), NEW a \in Seq(SysAct), NEW old
  PROVE  /\ RosterAfter(old, s \o a) = RosterAfter(RosterAfter(old, s), a)
         /\ \A p : About(s \o a, p) # {} <=> About(s, p) # {} \/ About(a, p) # {}
<1> DEFINE both == s \o a
<1>1. Len(s) \in Nat /\ Len(a) \in Nat
  OBVIOUS
<1>2. ASSUME NEW p PROVE About(both, p) # {} <=> About(s, p) # {} \/ About(a, p) # {}
  BY AboutBoth
<1>3. ASSUME NEW p \in Peer
      PROVE  (p \in RosterAfter(old, both)) = (p \in RosterAfter(RosterAfter(old, s), a))
  <2> DEFINE A == About(a, p)
             S == About(s, p)
             B == About(both, p)
  <2>1. /\ \A i \in S : i \in B /\ both[i] = s[i] /\ i \in 1..Len(s)
        /\ \A i \in A : Len(s) + i \in B /\ both[Len(s) + i] = a[i]
        /\ \A i \in B : i \in S \/ (i > Len(s) /\ i - Len(s) \in A)
        /\ B \in SUBSET (1..(Len(s) + Len(a))) /\ S \in SUBSET (1..Len(s)) /\ A \in SUBSET (1..Len(a))
    BY AboutBoth
  <2>2. /\ p \in RosterAfter(old, both) <=> IF B = {} THEN p \in old ELSE both[Max(B)].kind = "joined"
        /\ p \in RosterAfter(old, s) <=> IF S = {} THEN p \in old ELSE s[Max(S)].kind = "joined"
        /\ p \in RosterAfter(RosterAfter(old, s), a) <=>
             IF A = {} THEN p \in RosterAfter(old, s) ELSE a[Max(A)].kind = "joined"
    BY Zenon DEF RosterAfter
  <2> HIDE DEF A, S, B, both
  <2>3. CASE A = {}
    <3>1. B = S
      BY <2>1, <2>3, Zenon
    <3>2. CASE S = {}
      BY <2>2, <2>3, <3>1, <3>2
    <3>3. CASE S # {}
      <4>1. Max(S) \in S
        BY <1>1, <2>1, <3>3, MaxIs, Zenon
      <4>2. both[Max(S)] = s[Max(S)]
        BY <2>1, <4>1
      <4> QED
        BY <2>2, <2>3, <3>1, <3>3, <4>2
    <3> QED
      BY <3>2, <3>3
  <2>4. CASE A # {}
    <3>1. Max(A) \in A /\ \A k \in A : k <= Max(A)
      BY <1>1, <2>1, <2>4, MaxIs, Zenon
    <3>2. Len(s) + Max(A) \in B /\ B # {}
      BY <2>1, <3>1
    <3>3. Len(s) + Len(a) \in Nat
      BY <1>1
    <3>4. Max(B) \in B /\ \A k \in B : k <= Max(B)
      BY <2>1, <3>2, <3>3, MaxIs, Zenon
    <3>5. Max(A) \in 1..Len(a) /\ Max(B) \in 1..(Len(s) + Len(a))
      BY <2>1, <3>1, <3>4, Zenon
    <3>6. Len(s) + Max(A) <= Max(B)
      BY <3>2, <3>4
    <3>7. Max(B) \notin S
      <4>1. ~(Max(B) <= Len(s))
        BY <1>1, <3>5, <3>6
      <4> QED
        BY <1>1, <2>1, <3>5, <4>1
    <3>8. Max(B) - Len(s) \in A
      BY <2>1, <3>4, <3>7, Zenon
    <3>9. Max(B) - Len(s) <= Max(A)
      BY <3>1, <3>8
    <3>10. Max(B) = Len(s) + Max(A)
      BY <1>1, <3>5, <3>6, <3>9
    <3>11. both[Max(B)] = a[Max(A)]
      BY <2>1, <3>1, <3>10, Zenon
    <3> QED
      BY <2>2, <2>4, <3>2, <3>11
  <2> QED
    BY <2>3, <2>4
<1>4. RosterAfter(old, both) \subseteq Peer /\ RosterAfter(RosterAfter(old, s), a) \subseteq Peer
  BY DEF RosterAfter
<1> QED
  BY <1>2, <1>3, <1>4, Zenon

(* Rosters that differ only in players the actions are about come together.  *)
LEMMA RostersMeet ==
  ASSUME NEW r, NEW q, NEW a, \A p \in Peer : (p \in r <=> p \in q) \/ About(a, p) # {}
  PROVE  RosterAfter(r, a) = RosterAfter(q, a)
BY DEF RosterAfter

LEMMA NobodyMoves ==
  ASSUME NEW old \in SUBSET Peer, NEW a, \A i \in DOMAIN a : a[i].kind \notin {"joined", "left"}
  PROVE  RosterAfter(old, a) = old /\ \A p : About(a, p) = {}
<1>1. \A p : About(a, p) = {}
  BY DEF About
<1> QED
  BY <1>1 DEF RosterAfter

LEMMA LeaverIsOff ==
  ASSUME NEW old \in SUBSET Peer, NEW c
  PROVE  RosterAfter(old, <<Left(c)>>) = old \ {c} /\ About(<<Left(c)>>, c) # {}
<1> DEFINE a == <<Left(c)>>
<1>1. DOMAIN a = {1} /\ a[1].kind = "left" /\ a[1].who = c
  BY DEF Left
<1> HIDE DEF a
<1>2. About(a, c) = {1} /\ \A p : p # c => About(a, p) = {}
  BY <1>1 DEF About
<1>3. Max(About(a, c)) = 1
  <2>1. {1} \in SUBSET (1..1) /\ {1} # {} /\ 1 \in Nat
    OBVIOUS
  <2>2. Max({1}) \in {1}
    BY <2>1, MaxIs
  <2> QED
    BY <1>2, <2>2
<1> QED
  BY <1>1, <1>2, <1>3 DEF RosterAfter, a

LEMMA JoinersAreOn ==
  ASSUME NEW old \in SUBSET Peer, NEW a \in Seq(SysAct), \A i \in DOMAIN a : a[i].kind = "joined"
  PROVE  /\ RosterAfter(old, a) = old \cup {a[i].who : i \in DOMAIN a}
         /\ \A p : About(a, p) # {} <=> p \in {a[i].who : i \in DOMAIN a}
<1>1. \A p : About(a, p) = {i \in DOMAIN a : a[i].who = p}
  BY DEF About
<1>2. \A i \in DOMAIN a : a[i].who \in Peer
  <2>1. \A x \in SysAct : x.kind = "joined" => x.who \in Peer
    BY DEF SysAct
  <2>2. \A i \in DOMAIN a : a[i] \in SysAct
    OBVIOUS
  <2> QED
    BY <2>1, <2>2
<1>3. ASSUME NEW p, About(a, p) # {} PROVE a[Max(About(a, p))].kind = "joined"
  <2>1. About(a, p) \in SUBSET (1..Len(a)) /\ Len(a) \in Nat
    BY DEF About
  <2>2. Max(About(a, p)) \in About(a, p)
    BY <1>3, <2>1, MaxIs, Zenon
  <2> QED
    BY <1>1, <2>2
<1>4. \A p : About(a, p) # {} <=> p \in {a[i].who : i \in DOMAIN a}
  BY <1>1, Zenon
<1> QED
  BY <1>2, <1>3, <1>4, Zenon DEF RosterAfter

(* A pass puts who is due on the roster, after what was staged and who has   *)
(* left.                                                                     *)
LEMMA StagedMoves ==
  ASSUME HostTypes, NEW s \in Seq(SysAct), NEW old \in SUBSET Peer, NEW t \in Nat
  PROVE  /\ RosterAfter(old, StageInto(s, Staged(t))) = RosterAfter(old, s \o departures) \cup Joining(t)
         /\ \A p : About(StageInto(s, Staged(t)), p) # {} <=>
                     About(s \o departures, p) # {} \/ p \in Joining(t)
<1> DEFINE js == SetToSeq(Joining(t))
           joins1 == [i \in 1..Len(js) |-> Joined(js[i])]
           asks == IF Pausing THEN <<Pause>> ELSE IF Resuming THEN <<Resume>> ELSE <<>>
           gone == s \o departures
<1>1. js \in Seq(Peer) /\ \A x : x \in Joining(t) <=> \E i \in 1..Len(js) : js[i] = x
  <2>1. Joining(t) \in SUBSET Peer
    BY DEF Joining
  <2>2. IsFiniteSet(Peer)
    BY PeerAssumption, FS_AddElement DEF Peer
  <2>3. js \in Seq(Joining(t)) /\ \A x \in Joining(t) : \E i \in 1..Len(js) : js[i] = x
    BY <2>1, <2>2, FS_Subset, SequenceHasAll, Zenon
  <2> HIDE DEF js
  <2>4. \A i \in 1..Len(js) : js[i] \in Joining(t)
    BY <2>3
  <2> QED
    BY <2>1, <2>3, <2>4
<1>2. /\ joins1 \in Seq(SysAct) /\ DOMAIN joins1 = 1..Len(js)
      /\ \A i \in DOMAIN joins1 : joins1[i].kind = "joined" /\ joins1[i].who = js[i]
  <2> HIDE DEF js
  <2>1. \A i \in 1..Len(js) :
          Joined(js[i]) \in SysAct /\ Joined(js[i]).kind = "joined" /\ Joined(js[i]).who = js[i]
    BY <1>1 DEF Joined, SysAct
  <2> QED
    BY <1>1, <2>1
<1>3. asks \in Seq(SysAct) /\ \A i \in DOMAIN asks : asks[i].kind \notin {"joined", "left"}
  <2>1. Pause \in SysAct /\ Resume \in SysAct /\ Pause.kind = "pause" /\ Resume.kind = "resume"
    BY DEF Pause, Resume, SysAct
  <2>2. \A a \in {Pause, Resume} : DOMAIN <<a>> = {1} /\ <<a>>[1] = a
    OBVIOUS
  <2>3. DOMAIN <<>> = {}
    OBVIOUS
  <2> QED
    BY <2>1, <2>2, <2>3
<1>4. departures \in Seq(SysAct)
  BY DEF HostTypes
<1>5. Staged(t) = departures \o joins1 \o asks
  BY DEF Staged
<1> HIDE DEF joins1, asks
<1>6. StageInto(s, Staged(t)) = (gone \o joins1) \o asks /\ gone \in Seq(SysAct) /\ gone \o joins1 \in Seq(SysAct)
  BY <1>2, <1>3, <1>4, <1>5 DEF StageInto
<1> HIDE DEF gone, js
<1>7. \A q : RosterAfter(q, gone) \in SUBSET Peer /\ RosterAfter(q, gone \o joins1) \in SUBSET Peer
  BY DEF RosterAfter
<1>8. /\ RosterAfter(RosterAfter(old, gone), joins1) = RosterAfter(old, gone) \cup {joins1[i].who : i \in DOMAIN joins1}
      /\ \A p : About(joins1, p) # {} <=> p \in {joins1[i].who : i \in DOMAIN joins1}
  BY <1>2, <1>7, JoinersAreOn, Zenon
<1>9. {joins1[i].who : i \in DOMAIN joins1} = Joining(t)
  BY <1>1, <1>2
<1>10. /\ RosterAfter(RosterAfter(old, gone \o joins1), asks) = RosterAfter(old, gone \o joins1)
       /\ \A p : About(asks, p) = {}
  BY <1>3, <1>7, NobodyMoves, Zenon
<1>11. /\ RosterAfter(old, gone \o joins1) = RosterAfter(RosterAfter(old, gone), joins1)
       /\ \A p : About(gone \o joins1, p) # {} <=> About(gone, p) # {} \/ About(joins1, p) # {}
  BY <1>2, <1>6, RosterAfterBoth, Zenon
<1>12. /\ RosterAfter(old, (gone \o joins1) \o asks) = RosterAfter(RosterAfter(old, gone \o joins1), asks)
       /\ \A p : About((gone \o joins1) \o asks, p) # {} <=> About(gone \o joins1, p) # {} \/ About(asks, p) # {}
  BY <1>3, <1>6, RosterAfterBoth, Zenon
<1>13. RosterAfter(old, StageInto(s, Staged(t))) = RosterAfter(old, gone) \cup Joining(t)
  BY <1>6, <1>8, <1>9, <1>10, <1>11, <1>12, Zenon
<1>14. \A p : About(StageInto(s, Staged(t)), p) # {} <=> About(gone, p) # {} \/ p \in Joining(t)
  BY <1>6, <1>8, <1>9, <1>10, <1>11, <1>12, Zenon
<1> QED
  BY <1>13, <1>14 DEF gone

LEMMA PendingIs ==
  ASSUME IInv
  PROVE  /\ SystemOf(Host, clock[Host] + 1) \in Seq(SysAct) /\ departures \in Seq(SysAct)
         /\ Pending \in Seq(SysAct) /\ clock[Host] \in Nat /\ roster[Host] \in SUBSET Peer
         /\ joinedAt \in [Peer -> Nat \cup {None}] /\ DOMAIN system = Peer /\ Host \in Peer
<1>1. SystemOf(Host, clock[Host] + 1) \in Seq(SysAct)
  <2>1. <<>> \in Seq(SysAct)
    OBVIOUS
  <2> QED
    BY Constants, <2>1 DEF IInv, TInv, LogTypes, SystemOf, Lookup
<1>2. departures \in Seq(SysAct)
  BY DEF IInv, TInv, HostTypes
<1>3. Pending \in Seq(SysAct)
  BY <1>1, <1>2 DEF Pending
<1> QED
  BY <1>1, <1>2, <1>3, Constants DEF IInv, TInv, HostTypes, LogTypes

LEMMA HostRostersInit == Init => HostRosters
<1> SUFFICES ASSUME Init PROVE HostRosters
  OBVIOUS
<1>1. /\ clock[Host] = 0 /\ roster[Host] = {} /\ joinedAt[Host] = 0 /\ DOMAIN system[Host] = {}
      /\ announced = {} /\ departures = <<>> /\ DOMAIN Empty = {}
  BY Constants DEF Init, Empty
<1>2. Pending = <<>>
  BY <1>1 DEF Pending, SystemOf, Lookup
<1>3. \A i \in DOMAIN <<>> : <<>>[i].kind \notin {"joined", "left"}
  OBVIOUS
<1>4. RosterAfter(roster[Host], Pending) = announced
  BY <1>1, <1>2, <1>3, NobodyMoves, Zenon
<1> QED
  BY <1>1, <1>4 DEF HostRosters, RostersFollow, AnnouncedAreOn, RosterAt

LEMMA HostTickGoesOn ==
  ASSUME IInv, HostTick
  PROVE  \E staged : HostGoesOn(staged)
<1> USE Constants
<1> DEFINE next == clock[Host] + 1
           staged == StageInto(SystemOf(Host, next), Staged(next))
<1>1. PICK players : RunTick(Host, next, players, staged)
  BY DEF HostTick
<1>2. /\ DOMAIN clock = Peer /\ DOMAIN roster = Peer /\ DOMAIN ran = Peer /\ \A c \in Client : c # Host
  BY DEF IInv, TInv, HostTypes, LogTypes, HistoryTypes
<1> DEFINE r == RosterAfter(roster[Host], staged)
           new == Ran(players, staged, r, PausedAfter(paused[Host], staged))
<1> HIDE DEF staged
<1>3. /\ clock' = [clock EXCEPT ![Host] = next] /\ roster' = [roster EXCEPT ![Host] = r]
      /\ ran' = [ran EXCEPT ![Host] = Put(ran[Host], next, new)]
  BY <1>1 DEF RunTick
<1>4. new.system = staged /\ new.roster = r
  BY DEF Ran
<1> HIDE DEF new, r
<1>5. ran'[Host] = Put(ran[Host], next, new) /\ DOMAIN ran' = Peer /\ roster'[Host] = r
      /\ \A c \in Client : ran'[c] = ran[c]
  BY <1>2, <1>3
<1>6. ran'[Host][next] = new /\ \A t \in DOMAIN ran[Host] : t # next => ran'[Host][t] = ran[Host][t]
  BY <1>5 DEF Put
<1>7. announced' = announced \cup Joining(next) /\ departures' = <<>> /\ UNCHANGED joinedAt
  BY DEF HostTick, Stage
<1>8. PICK players2, staged2 : HostRuns(players2, staged2)
  BY HostTickRuns DEF IInv
<1>9. DOMAIN system'[Host] \subseteq DOMAIN system[Host] \cup {next}
  BY <1>8 DEF HostRuns
<1>10. HostGoesOn(staged)
  BY <1>2, <1>3, <1>4, <1>5, <1>6, <1>7, <1>9 DEF HostGoesOn, staged, r
<1> QED
  BY <1>10

LEMMA HostTickRosters ==
  ASSUME IInv, HostRosters, HostTick
  PROVE  HostRosters' /\ HostRemembers
<1>0. PICK now, next : now = clock[Host] /\ next = clock[Host] + 1
  OBVIOUS
<1>1. PICK staged : HostGoesOn(staged)
  BY HostTickGoesOn
<1>2. /\ now \in Nat /\ next \in Nat /\ clock'[Host] = next /\ UNCHANGED joinedAt
      /\ DOMAIN ran[Host] = 1..now /\ roster'[Host] = RosterAfter(roster[Host], staged)
      /\ ran'[Host][next].system = staged /\ ran'[Host][next].roster = roster'[Host]
      /\ \A t \in 1..now : ran'[Host][t] = ran[Host][t]
      /\ announced' = announced \cup Joining(next) /\ departures' = <<>>
      /\ DOMAIN system'[Host] \subseteq DOMAIN system[Host] \cup {next}
      /\ staged = StageInto(SystemOf(Host, next), Staged(next)) /\ next = now + 1
  <2>1. /\ now \in Nat /\ DOMAIN ran[Host] = 1..now /\ DOMAIN clock = Peer /\ DOMAIN roster = Peer
        /\ DOMAIN ran = Peer /\ Host \in Peer
    BY <1>0, Constants DEF IInv, TInv, HostTypes, LogTypes, HistoryTypes
  <2>2. next \in Nat /\ (\A t \in 1..now : t # next)
    BY <1>0, <2>1
  <2> QED
    BY <1>0, <1>1, <2>1, <2>2 DEF HostGoesOn
<1>3. /\ RosterAfter(roster[Host], staged) = RosterAfter(roster[Host], Pending) \cup Joining(next)
      /\ \A p : About(staged, p) # {} <=> About(Pending, p) # {} \/ p \in Joining(next)
  <2>1. SystemOf(Host, next) \in Seq(SysAct) /\ roster[Host] \in SUBSET Peer /\ HostTypes /\ next \in Nat
    BY <1>0, <1>2, PendingIs DEF IInv, TInv
  <2>2. Pending = SystemOf(Host, next) \o departures
    BY <1>0 DEF Pending
  <2>3. /\ RosterAfter(roster[Host], StageInto(SystemOf(Host, next), Staged(next)))
             = RosterAfter(roster[Host], SystemOf(Host, next) \o departures) \cup Joining(next)
        /\ \A p : About(StageInto(SystemOf(Host, next), Staged(next)), p) # {} <=>
                    About(SystemOf(Host, next) \o departures, p) # {} \/ p \in Joining(next)
    <3>1. PICK s : s = SystemOf(Host, next)
      OBVIOUS
    <3>2. PICK old : old = roster[Host]
      OBVIOUS
    <3> QED
      BY <2>1, <3>1, <3>2, StagedMoves, Zenon
  <2> QED
    BY <1>2, <2>2, <2>3, Zenon
<1>4. \A t \in 0..now : RosterAt(t)' = RosterAt(t)
  <2>1. \A t \in 0..now : t = 0 \/ t \in 1..now
    BY <1>0, <1>2
  <2> QED
    BY <1>0, <1>2, <2>1 DEF RosterAt
<1>5. RosterAt(next)' = roster'[Host]
  BY <1>0, <1>2 DEF RosterAt
<1>6. RostersFollow'
  <2>1. ASSUME NEW t \in 0..next, t + 1 <= next
        PROVE  RosterAt(t + 1)' = RosterAfter(RosterAt(t)', ran'[Host][t + 1].system)
    <3>1. CASE t = now
      <4>1. RosterAt(t)' = roster[Host]
        BY <1>0, <1>2, <1>4, <3>1 DEF HostRosters, RostersFollow
      <4>2. t + 1 = next
        BY <1>2, <3>1
      <4>3. RosterAt(t + 1)' = roster'[Host]
        BY <1>5, <4>2
      <4>4. ran'[Host][t + 1].system = staged
        BY <1>0, <1>2, <4>2
      <4> QED
        BY <1>0, <1>2, <4>1, <4>3, <4>4
    <3>2. CASE t # now
      <4>1. t \in 0..now /\ t + 1 \in 0..now /\ t + 1 \in 1..now /\ t + 1 <= now
        BY <1>2, <2>1, <3>2
      <4>2. RosterAt(t + 1) = RosterAfter(RosterAt(t), ran[Host][t + 1].system)
        BY <1>0, <4>1 DEF HostRosters, RostersFollow
      <4>3. RosterAt(t + 1)' = RosterAt(t + 1) /\ RosterAt(t)' = RosterAt(t)
        BY <1>4, <4>1
      <4> QED
        BY <1>0, <1>2, <4>1, <4>2, <4>3
    <3> QED
      BY <3>1, <3>2
  <2> QED
    BY <1>0, <1>2, <1>5, <2>1 DEF RostersFollow
<1>7. AnnouncedAreOn'
  <2>1. \A t \in DOMAIN system'[Host] : t <= next
    <3>1. \A t \in DOMAIN system[Host] : t <= next
      BY <1>0 DEF HostRosters, AnnouncedAreOn
    <3> QED
      BY <1>0, <1>2, <3>1
  <2>2. Pending' = <<>>
    <3>1. next + 1 \notin DOMAIN system'[Host]
      BY <1>0, <1>2, <2>1
    <3>2. SystemOf(Host, clock[Host] + 1)' = <<>>
      BY <1>0, <1>2, <3>1 DEF SystemOf, Lookup
    <3> QED
      BY <1>0, <1>2, <3>2 DEF Pending
  <2>3. roster'[Host] = announced'
    BY <1>0, <1>2, <1>3 DEF HostRosters, AnnouncedAreOn
  <2>4. RosterAfter(roster'[Host], <<>>) = announced'
    <3>1. \A i \in DOMAIN <<>> : <<>>[i].kind \notin {"joined", "left"}
      OBVIOUS
    <3>2. roster'[Host] \in SUBSET Peer
      BY <1>0, <1>2 DEF RosterAfter
    <3> QED
      BY <2>3, <3>1, <3>2, NobodyMoves, Zenon
  <2>5. \A p \in announced' : joinedAt[p] # None /\ joinedAt[p] <= next
    <3>1. \A p \in Joining(next) : joinedAt[p] # None /\ joinedAt[p] <= next
      BY DEF Joining
    <3>2. \A p \in announced : joinedAt[p] # None /\ joinedAt[p] <= next
      BY <1>0 DEF HostRosters, AnnouncedAreOn
    <3> QED
      BY <1>0, <1>2, <3>1, <3>2
  <2>6. \A p \in announced' : joinedAt[p] # None /\ joinedAt[p] <= next + 1 /\ joinedAt[p] # next + 1
    <3>1. \A p \in announced' : joinedAt[p] \in Nat
      <4>1. announced' \subseteq Peer
        BY <2>3, <1>2 DEF RosterAfter
      <4> QED
        BY <2>5, <4>1, PendingIs
    <3> QED
      BY <1>0, <1>2, <2>5, <3>1
  <2>7. \A t \in DOMAIN system'[Host] : t <= next + 1
    <3>1. DOMAIN system'[Host] \subseteq Nat
      BY <1>0, <1>2, Constants DEF IInv, TInv, LogTypes
    <3> QED
      BY <1>0, <1>2, <2>1, <3>1
  <2>8. joinedAt[Host] = 0
    BY DEF HostRosters, AnnouncedAreOn
  <2> QED
    BY <1>0, <1>2, <2>2, <2>4, <2>6, <2>7, <2>8 DEF AnnouncedAreOn
<1>8. ASSUME NEW t \in 0..now, NEW p \in Peer, Foretold(p, t) PROVE Foretold(p, t)'
  <2>1. t < next /\ t \in Nat
    BY <1>0, <1>2
  <2>2. About(ran'[Host][t + 1].system, p) # {}
    <3>1. CASE t < now
      <4>1. t + 1 \in 1..now
        BY <1>0, <1>2, <3>1
      <4> QED
        BY <1>0, <1>2, <1>8, <3>1, <4>1, Zenon DEF Foretold
    <3>2. CASE t = now
      <4>1. About(Pending, p) # {} \/ p \in Joining(next)
        BY <1>0, <1>2, <1>8, <3>2 DEF Foretold
      <4> QED
        BY <1>0, <1>2, <1>3, <3>2, <4>1
    <3> QED
      BY <1>0, <1>2, <3>1, <3>2
  <2> QED
    BY <1>0, <1>2, <2>1, <2>2 DEF Foretold
<1>9. clock[Host] <= next
  BY <1>0, <1>2
<1> QED
  BY <1>0, <1>2, <1>4, <1>6, <1>7, <1>8, <1>9 DEF HostRosters, HostRemembers

(* A step that leaves the host's clock and log as they are keeps the rosters *)
(* that were.                                                                *)
LEMMA HostStaysAt ==
  ASSUME IInv, HostRosters, clock'[Host] = clock[Host], ran'[Host] = ran[Host], roster'[Host] = roster[Host],
         \A p \in Peer : About(Pending, p) # {} \/ p \in Joining(clock[Host] + 1) =>
                           About(Pending', p) # {} \/ p \in Joining(clock[Host] + 1)'
  PROVE  RostersFollow' /\ HostRemembers
<1>1. clock[Host] \in Nat
  BY PendingIs
<1>2. \A t : RosterAt(t)' = RosterAt(t)
  BY DEF RosterAt
<1>3. RostersFollow'
  BY <1>2 DEF HostRosters, RostersFollow
<1>4. \A t, p : Foretold(p, t) /\ p \in Peer => Foretold(p, t)'
  BY DEF Foretold
<1> QED
  BY <1>1, <1>2, <1>3, <1>4 DEF HostRemembers

LEMMA HostUnmoved ==
  ASSUME IInv, HostRosters, UNCHANGED <<joinedAt, announced, departures>>, clock'[Host] = clock[Host],
         ran'[Host] = ran[Host], roster'[Host] = roster[Host], system'[Host] = system[Host]
  PROVE  HostRosters' /\ HostRemembers
<1>1. Pending' = Pending /\ \A t : Joining(t)' = Joining(t)
  BY DEF Pending, SystemOf, Joining
<1>2. Joining(clock[Host] + 1)' = Joining(clock[Host] + 1)
  BY DEF Joining
<1>3. RostersFollow' /\ HostRemembers
  BY <1>1, <1>2, HostStaysAt
<1>4. AnnouncedAreOn'
  BY <1>1 DEF HostRosters, AnnouncedAreOn
<1> QED
  BY <1>3, <1>4 DEF HostRosters

LEMMA HeldPassRosters ==
  ASSUME IInv, HostRosters, HostHeldPass
  PROVE  HostRosters' /\ HostRemembers
<1>0. PICK next : next = clock[Host] + 1
  OBVIOUS
<1> DEFINE staged == StageInto(SystemOf(Host, next), Staged(next))
<1>1. /\ announced' = announced \cup Joining(next) /\ departures' = <<>> /\ UNCHANGED joinedAt
      /\ roster' = roster /\ clock' = clock /\ ran' = ran
      /\ system' = IF Staged(next) = <<>> THEN system
                   ELSE [system EXCEPT ![Host] = Put(system[Host], next, staged)]
  BY <1>0 DEF HostHeldPass, Stage
<1>2. /\ next \in Nat /\ SystemOf(Host, next) \in Seq(SysAct) /\ roster[Host] \in SUBSET Peer
      /\ HostTypes /\ DOMAIN system = Peer /\ Host \in Peer /\ Pending = SystemOf(Host, next) \o departures
  BY <1>0, PendingIs DEF IInv, TInv, Pending
<1>3. /\ RosterAfter(roster[Host], staged) = RosterAfter(roster[Host], Pending) \cup Joining(next)
      /\ \A p : About(staged, p) # {} <=> About(Pending, p) # {} \/ p \in Joining(next)
  <2>1. PICK s : s = SystemOf(Host, next)
    OBVIOUS
  <2>2. PICK old : old = roster[Host]
    OBVIOUS
  <2> QED
    BY <1>2, <2>1, <2>2, StagedMoves, Zenon
<1>4. staged \in Seq(SysAct)
  <2>1. Staged(next) \in Seq(SysAct)
    BY <1>2, StagedIs
  <2> QED
    BY <1>2, <2>1 DEF StageInto
<1>5. SystemOf(Host, next)' = staged /\ DOMAIN system'[Host] \subseteq DOMAIN system[Host] \cup {next}
  <2>1. CASE Staged(next) = <<>>
    <3>1. staged = SystemOf(Host, next)
      BY <1>2, <2>1 DEF StageInto
    <3> QED
      BY <1>1, <2>1, <3>1 DEF SystemOf
  <2>2. CASE Staged(next) # <<>>
    <3> HIDE DEF staged
    <3>1. system'[Host] = Put(system[Host], next, staged)
      BY <1>1, <1>2, <2>2
    <3>2. next \in DOMAIN system'[Host] /\ system'[Host][next] = staged
          /\ DOMAIN system'[Host] = DOMAIN system[Host] \cup {next}
      BY <3>1 DEF Put
    <3>3. SystemOf(Host, next)' = Lookup(system'[Host], next, <<>>)
      BY DEF SystemOf
    <3> QED
      BY <3>2, <3>3 DEF Lookup
  <2> QED
    BY <2>1, <2>2
<1> HIDE DEF staged
<1>6. Pending' = staged
  <2>1. Pending' = SystemOf(Host, next)' \o departures'
    BY <1>0, <1>1 DEF Pending
  <2> QED
    BY <1>1, <1>4, <1>5, <2>1
<1>7. RostersFollow' /\ HostRemembers
  <2>1. \A p : About(Pending, p) # {} \/ p \in Joining(next) => About(Pending', p) # {}
    BY <1>3, <1>6
  <2> QED
    BY <1>0, <1>1, <2>1, HostStaysAt
<1>8. AnnouncedAreOn'
  <2>1. \A t \in DOMAIN system'[Host] : t <= next
    BY <1>0, <1>2, <1>5 DEF HostRosters, AnnouncedAreOn
  <2>2. RosterAfter(roster[Host], Pending') = announced'
    BY <1>1, <1>3, <1>6 DEF HostRosters, AnnouncedAreOn
  <2>3. ASSUME NEW p \in announced'
        PROVE  joinedAt[p] # None /\ joinedAt[p] <= next /\ (joinedAt[p] = next => About(Pending', p) # {})
    <3>1. CASE p \in announced
      BY <1>0, <1>3, <1>6, <3>1 DEF HostRosters, AnnouncedAreOn
    <3>2. CASE p \in Joining(next)
      BY <1>3, <1>6, <3>2 DEF Joining
    <3> QED
      BY <1>1, <3>1, <3>2
  <2> QED
    BY <1>0, <1>1, <2>1, <2>2, <2>3 DEF AnnouncedAreOn, HostRosters
<1> QED
  BY <1>7, <1>8 DEF HostRosters

LEMMA GoneRosters ==
  ASSUME IInv, HostRosters, NEW c \in Client, Depart(c), Disconnect(c)
  PROVE  HostRosters' /\ HostRemembers
<1> USE Constants
<1>1. /\ joinedAt' = [joinedAt EXCEPT ![c] = None] /\ UNCHANGED <<clock, ran>>
      /\ roster'[Host] = roster[Host] /\ system'[Host] = system[Host] /\ c # Host /\ c \in Peer
      /\ joinedAt \in [Peer -> Nat \cup {None}]
  BY PendingIs DEF Depart, Disconnect, IInv, TInv, LogTypes
<1>2. CASE joinedAt[c] = None
  <2>1. joinedAt' = joinedAt /\ UNCHANGED <<departures, announced>>
    BY <1>1, <1>2 DEF Depart
  <2> QED
    BY <1>1, <2>1, HostUnmoved
<1>3. CASE joinedAt[c] # None
  <2>1. departures' = Append(departures, Left(c)) /\ announced' = announced \ {c}
    BY <1>3 DEF Depart
  <2>2. Left(c) \in SysAct /\ <<Left(c)>> \in Seq(SysAct)
    BY <1>1 DEF Left, SysAct
  <2>3. Pending' = Pending \o <<Left(c)>>
    <3>1. SystemOf(Host, clock[Host] + 1)' = SystemOf(Host, clock[Host] + 1)
      BY <1>1 DEF SystemOf
    <3>2. ASSUME NEW s \in Seq(SysAct), NEW d \in Seq(SysAct), NEW l \in SysAct
          PROVE  s \o Append(d, l) = (s \o d) \o <<l>>
      OBVIOUS
    <3>3. Pending' = SystemOf(Host, clock[Host] + 1) \o Append(departures, Left(c))
      BY <2>1, <3>1, Zenon DEF Pending
    <3>4. SystemOf(Host, clock[Host] + 1) \o Append(departures, Left(c))
            = (SystemOf(Host, clock[Host] + 1) \o departures) \o <<Left(c)>>
      BY <2>2, <3>2, PendingIs
    <3> QED
      BY <3>3, <3>4, Zenon DEF Pending
  <2>4. /\ RosterAfter(roster[Host], Pending') = RosterAfter(RosterAfter(roster[Host], Pending), <<Left(c)>>)
        /\ \A p : About(Pending', p) # {} <=> About(Pending, p) # {} \/ About(<<Left(c)>>, p) # {}
    BY <2>2, <2>3, PendingIs, RosterAfterBoth, Zenon
  <2>5. /\ RosterAfter(announced, <<Left(c)>>) = announced \ {c} /\ About(<<Left(c)>>, c) # {}
    <3>1. announced \in SUBSET Peer
      BY DEF HostRosters, AnnouncedAreOn, RosterAfter
    <3> QED
      BY <3>1, LeaverIsOff
  <2>6. \A p \in Peer : About(Pending, p) # {} \/ p \in Joining(clock[Host] + 1) =>
                          About(Pending', p) # {} \/ p \in Joining(clock[Host] + 1)'
    <3>1. ASSUME NEW p \in Peer, p # c, p \in Joining(clock[Host] + 1) PROVE p \in Joining(clock[Host] + 1)'
      BY <1>1, <2>1, <3>1 DEF Joining
    <3> QED
      BY <2>4, <2>5, <3>1
  <2>7. RostersFollow' /\ HostRemembers
    BY <1>1, <2>6, HostStaysAt
  <2>8. AnnouncedAreOn'
    <3>1. RosterAfter(roster'[Host], Pending') = announced'
      BY <1>1, <2>1, <2>4, <2>5 DEF HostRosters, AnnouncedAreOn
    <3>2. \A p \in announced' : p \in announced /\ p # c /\ joinedAt'[p] = joinedAt[p]
      <4>1. announced \subseteq Peer
        BY DEF HostRosters, AnnouncedAreOn, RosterAfter
      <4> QED
        BY <1>1, <2>1, <4>1
    <3>3. joinedAt'[Host] = 0
      BY <1>1 DEF HostRosters, AnnouncedAreOn
    <3> QED
      BY <1>1, <2>4, <3>1, <3>2, <3>3 DEF HostRosters, AnnouncedAreOn
  <2> QED
    BY <2>7, <2>8 DEF HostRosters
<1> QED
  BY <1>2, <1>3

LEMMA AcceptanceIs ==
  ASSUME IInv, NEW c \in Client, AcceptLoaded(c)
  PROVE  (UNCHANGED <<joinedAt, inbox>>) \/ \E at : LetsIn(c, at)
<1> USE Constants
<1> DEFINE h == Head(handshake[c])
<1>1. CASE joinedAt[c] # None
  BY <1>1 DEF AcceptLoaded
<1>2. CASE joinedAt[c] = None
  <2>1. handshake[c] # <<>> /\ h.type = "loaded" /\ handshake[c] \in Seq(Shake)
    BY DEF AcceptLoaded, IInv, TInv, NetTypes
  <2>2. h \in Shake
    BY <2>1
  <2> HIDE DEF h
  <2>3. h.buffer \in Nat
    BY <2>1, <2>2 DEF Shake
  <2>4. /\ clock[Host] \in Nat /\ lastBroadcast \in Nat /\ hostBuffer \in Nat /\ hostBuffer >= 1
    BY DEF IInv, TInv, HostTypes, NothingIsOwed
  <2>5. \A b \in Nat : Acceptance(b) \in Nat /\ Acceptance(b) > clock[Host] + 1
    BY <2>4 DEF Acceptance, RuledThrough, Max2
  <2>6. LetsIn(c, Acceptance(h.buffer))
    BY <1>2, <2>3, <2>5, Zenon DEF AcceptLoaded, LetsIn, h
  <2> QED
    BY <2>6
<1> QED
  BY <1>1, <1>2

LEMMA AcceptRosters ==
  ASSUME IInv, HostRosters, NEW c \in Client, AcceptLoaded(c)
  PROVE  HostRosters' /\ HostRemembers
<1> USE Constants
<1>1. UNCHANGED <<announced, departures, clock, system, roster, ran>>
  BY DEF AcceptLoaded, worldVars
<1>2. CASE UNCHANGED joinedAt
  BY <1>1, <1>2, HostUnmoved
<1>3. ASSUME NEW at, LetsIn(c, at) PROVE HostRosters' /\ HostRemembers
  <2>1. /\ joinedAt[c] = None /\ joinedAt' = [joinedAt EXCEPT ![c] = at]
        /\ joinedAt \in [Peer -> Nat \cup {None}] /\ c # Host /\ c \in Peer
    BY <1>3, PendingIs DEF LetsIn
  <2>2. \A p \in Peer : joinedAt[p] # None => joinedAt'[p] = joinedAt[p]
    BY <2>1
  <2>3. Pending' = Pending /\ \A p \in Peer : p \in Joining(clock[Host] + 1) => p \in Joining(clock[Host] + 1)'
    BY <1>1, <2>2 DEF Pending, SystemOf, Joining
  <2>4. RostersFollow' /\ HostRemembers
    BY <1>1, <2>3, HostStaysAt
  <2>5. \A p \in announced : joinedAt'[p] = joinedAt[p]
    <3>1. announced \subseteq Peer
      BY DEF HostRosters, AnnouncedAreOn, RosterAfter
    <3> QED
      BY <2>2, <3>1 DEF HostRosters, AnnouncedAreOn
  <2>6. AnnouncedAreOn'
    BY <1>1, <2>1, <2>3, <2>5 DEF HostRosters, AnnouncedAreOn
  <2> QED
    BY <2>4, <2>6 DEF HostRosters
<1> QED
  BY <1>2, <1>3, AcceptanceIs

LEMMA HostRostersStep ==
  ASSUME IInv, HostRosters, [Next]_vars
  PROVE  HostRosters' /\ HostRemembers
<1> USE Constants
<1>0. /\ DOMAIN clock = Peer /\ DOMAIN ran = Peer /\ DOMAIN roster = Peer /\ DOMAIN system = Peer
      /\ \A c \in Client : c # Host
  BY DEF IInv, TInv, HostTypes, LogTypes, HistoryTypes
<1> USE DEF hostVars, pauseVars, clientVars, netVars, worldVars
<1>1. CASE UNCHANGED vars
  BY <1>1, HostUnmoved DEF vars
<1>2. CASE HostTick
  BY <1>2, HostTickRosters
<1>3. CASE HostHeldPass
  BY <1>3, HeldPassRosters
<1>4. CASE ResizeHost \/ \E what \in {"pause", "resume"} : Ask(what)
  BY <1>4, HostUnmoved DEF ResizeHost, Ask
<1>5. ASSUME NEW c \in Client, HostReceiveBatch(c) \/ AnswerRequest(c)
      PROVE  HostRosters' /\ HostRemembers
  BY <1>5, HostUnmoved DEF HostReceiveBatch, AnswerRequest
<1>6. ASSUME NEW c \in Client, ClientStep(c) \/ Connect(c) \/ Resize(c)
      PROVE  HostRosters' /\ HostRemembers
  <2>1. UNCHANGED <<joinedAt, announced, departures>>
    BY <1>6, Zenon DEF ClientStep, ReceiveRuling, ReplayStash, ReceiveParticipants, ReceiveSnapshot, ApplySnapshot,
                ClientPass, Connect, Resize
  <2>2. clock'[Host] = clock[Host] /\ ran'[Host] = ran[Host]
    BY <1>0, <1>6, Zenon DEF ClientStep, ReceiveRuling, ReplayStash, ReceiveParticipants, ReceiveSnapshot, ApplySnapshot,
                      ClientPass, Connect, Resize, RunTick
  <2>3. roster'[Host] = roster[Host] /\ system'[Host] = system[Host]
    BY <1>0, <1>6, Zenon DEF ClientStep, ReceiveRuling, ReplayStash, ReceiveParticipants, ReceiveSnapshot, ApplySnapshot,
                      ClientPass, Connect, Resize, RunTick, Apply
  <2> QED
    BY <2>1, <2>2, <2>3, HostUnmoved
<1>7. ASSUME NEW c \in Client, Depart(c), Disconnect(c) PROVE HostRosters' /\ HostRemembers
  BY <1>7, GoneRosters
<1>8. ASSUME NEW c \in Client, AcceptLoaded(c) PROVE HostRosters' /\ HostRemembers
  BY <1>8, AcceptRosters
<1> QED
  BY <1>1, <1>2, <1>3, <1>4, <1>5, <1>6, <1>7, <1>8 DEF Next, HostStep, Leave, Kick

LEMMA AgreesStay ==
  ASSUME IInv, HostRemembers, NEW r, NEW t, Agrees(r, t)
  PROVE  Agrees(r, t)'
<1>1. t \in 0..clock[Host] /\ clock[Host] \in Nat
  BY PendingIs DEF Agrees
<1>2. t \in 0..clock'[Host]
  BY <1>1 DEF HostRemembers
<1>3. RosterAt(t)' = RosterAt(t) /\ \A p \in Peer : Foretold(p, t) => Foretold(p, t)'
  BY <1>1 DEF HostRemembers
<1> QED
  BY <1>2, <1>3 DEF Agrees

(* Who has joined by now is who is on the roster, but for what is pending.   *)
LEMMA SeedsOfNow ==
  ASSUME IInv, HostRosters
  PROVE  Agrees(JoinedBy(clock[Host]), clock[Host])
<1>0. PICK now : now = clock[Host]
  OBVIOUS
<1>1. now \in Nat /\ joinedAt \in [Peer -> Nat \cup {None}] /\ None \notin Nat
  BY <1>0, PendingIs, Constants
<1>2. ASSUME NEW p \in Peer, About(Pending, p) = {}, p \notin Joining(now + 1)
      PROVE  p \in JoinedBy(now) <=> p \in RosterAt(now)
  <2>1. p \in roster[Host] <=> p \in announced
    <3>1. RosterAfter(roster[Host], Pending) = announced
      BY DEF HostRosters, AnnouncedAreOn
    <3> QED
      BY <1>2, <3>1 DEF RosterAfter
  <2>2. p \in JoinedBy(now) => p \in announced
    <3>1. ASSUME joinedAt[p] # None, joinedAt[p] <= now PROVE joinedAt[p] <= now + 1
      BY <1>1, <3>1
    <3> QED
      BY <1>2, <3>1 DEF JoinedBy, Joining
  <2>3. p \in announced => p \in JoinedBy(now)
    <3>1. ASSUME p \in announced PROVE joinedAt[p] # None /\ joinedAt[p] <= now
      <4>1. joinedAt[p] # None /\ joinedAt[p] <= now + 1 /\ joinedAt[p] # now + 1
        BY <1>0, <1>2, <3>1 DEF HostRosters, AnnouncedAreOn
      <4>2. joinedAt[p] \in Nat
        BY <1>1, <4>1
      <4> QED
        BY <1>1, <4>1, <4>2
    <3> QED
      BY <3>1 DEF JoinedBy
  <2>4. roster[Host] = RosterAt(now)
    BY <1>0 DEF HostRosters, RostersFollow
  <2> QED
    BY <2>1, <2>2, <2>3, <2>4
<1>3. ~(now < now) /\ now \in 0..now
  BY <1>1
<1>4. \A p : Foretold(p, now) <=> About(Pending, p) # {} \/ p \in Joining(now + 1)
  BY <1>0, <1>3 DEF Foretold
<1>5. Agrees(JoinedBy(now), now)
  BY <1>0, <1>2, <1>3, <1>4 DEF Agrees
<1> QED
  BY <1>0, <1>5

(* Whoever goes on from such a roster comes to the host's.                   *)
LEMMA AgreedGoOn ==
  ASSUME IInv, HostRosters, NEW r, NEW t, Agrees(r, t), t + 1 <= clock[Host]
  PROVE  /\ RosterAfter(r, ran[Host][t + 1].system) = RosterAt(t + 1)
         /\ Agrees(RosterAt(t + 1), t + 1)
<1>1. clock[Host] \in Nat /\ t \in 0..clock[Host] /\ t < clock[Host] /\ t + 1 \in 0..clock[Host]
  <2>1. clock[Host] \in Nat /\ t \in 0..clock[Host]
    BY PendingIs DEF Agrees
  <2> QED
    BY <2>1
<1>2. \A p \in Peer : (p \in r <=> p \in RosterAt(t)) \/ About(ran[Host][t + 1].system, p) # {}
  BY <1>1 DEF Agrees, Foretold
<1>3. RosterAfter(r, ran[Host][t + 1].system) = RosterAfter(RosterAt(t), ran[Host][t + 1].system)
  BY <1>2, RostersMeet
<1>4. RosterAt(t + 1) = RosterAfter(RosterAt(t), ran[Host][t + 1].system)
  BY <1>1 DEF HostRosters, RostersFollow
<1> QED
  BY <1>1, <1>3, <1>4 DEF Agrees

-----------------------------------------------------------------------------
(* Who is let in later comes later.                                          *)

LEMMA AheadStay ==
  ASSUME NEW box \in Seq(Msg),
         NEW now, NEW at, NEW gave, NEW held, NEW log, NewcomersAhead(box, now, at, gave, held, log),
         NEW now2, NEW at2, NEW gave2, NEW held2, NEW log2,
         \A a \in Nat : Before(a, now, at, gave, held, log) => Before(a, now2, at2, gave2, held2, log2)
  PROVE  NewcomersAhead(box, now2, at2, gave2, held2, log2)
<1>1. ASSUME NEW i \in DOMAIN box, Newcomers(box[i]), NEW j \in box[i].joins PROVE j[2] \in Nat
  <2>1. box[i] \in Msg /\ box[i].type = "participants"
    BY <1>1 DEF Newcomers
  <2>2. box[i].joins \subseteq Peer \X Nat
    BY <2>1 DEF Msg, RulingMsg
  <2> QED
    BY <2>2
<1> QED
  BY <1>1 DEF NewcomersAhead

LEMMA AheadTaken ==
  ASSUME NEW box \in Seq(Msg), box # <<>>,
         NEW now, NEW at, NEW gave, NEW held, NEW log, NewcomersAhead(box, now, at, gave, held, log),
         NEW now2, NEW at2, NEW gave2, NEW held2, NEW log2,
         \A a \in Nat : /\ Before(a, now, at, gave, held, log)
                        /\ Dated(Head(box)) => Head(box).tick < a
                        => Before(a, now2, at2, gave2, held2, log2)
  PROVE  NewcomersAhead(Tail(box), now2, at2, gave2, held2, log2)
<1> DEFINE rest == Tail(box)
<1>1. /\ \A i \in DOMAIN rest : i \in Nat /\ i >= 1 /\ i + 1 \in DOMAIN box /\ rest[i] = box[i + 1]
      /\ 1 \in DOMAIN box /\ Head(box) = box[1] /\ \A i \in DOMAIN box : box[i] \in Msg
  OBVIOUS
<1> HIDE DEF rest
<1>2. ASSUME NEW i \in DOMAIN rest, Newcomers(rest[i]), NEW j \in rest[i].joins
      PROVE  /\ Before(j[2], now2, at2, gave2, held2, log2)
             /\ \A k \in DOMAIN rest : k < i /\ Dated(rest[k]) => rest[k].tick < j[2]
  <2>1. box[i + 1] \in Msg /\ box[i + 1].type = "participants" /\ rest[i] = box[i + 1] /\ i + 1 \in DOMAIN box
    BY <1>1, <1>2 DEF Newcomers
  <2>2. box[i + 1].joins \subseteq Peer \X Nat
    BY <2>1 DEF Msg, RulingMsg
  <2>3. j[2] \in Nat
    BY <1>2, <2>1, <2>2
  <2>4. /\ Before(j[2], now, at, gave, held, log)
        /\ \A k \in DOMAIN box : k < i + 1 /\ Dated(box[k]) => box[k].tick < j[2]
    BY <1>2, <2>1 DEF NewcomersAhead
  <2>5. Dated(Head(box)) => Head(box).tick < j[2]
    <3>1. 1 < i + 1
      BY <1>1
    <3> QED
      BY <1>1, <2>4, <3>1
  <2>6. ASSUME NEW k \in DOMAIN rest, k < i, Dated(rest[k]) PROVE rest[k].tick < j[2]
    <3>1. k + 1 \in DOMAIN box /\ k + 1 < i + 1 /\ rest[k] = box[k + 1]
      BY <1>1, <2>6
    <3> QED
      BY <2>4, <2>6, <3>1
  <2> QED
    BY <2>3, <2>4, <2>5, <2>6
<1>3. NewcomersAhead(rest, now2, at2, gave2, held2, log2)
  BY <1>2 DEF NewcomersAhead
<1> QED
  BY <1>3 DEF rest

LEMMA AheadAdded ==
  ASSUME NEW box \in Seq(Msg), NEW more \in Seq(Msg), NEW n \in Nat,
         NEW now \in Nat, NEW at, NEW gave, NEW held, NEW log, NewcomersAhead(box, now, at, gave, held, log),
         now <= n, at = "given" => gave \in Nat /\ gave <= n,
         \A k \in DOMAIN box : Dated(box[k]) => box[k].tick \in Nat /\ box[k].tick <= n,
         \A k \in DOMAIN held : held[k].tick \in Nat /\ held[k].tick <= n,
         \A t \in DOMAIN log : t \in Nat /\ t <= n,
         \A i \in DOMAIN more : Newcomers(more[i]) =>
           /\ \A j \in more[i].joins : j[2] \in Nat /\ j[2] > n
           /\ \A k \in DOMAIN more : k < i => ~Dated(more[k])
  PROVE  NewcomersAhead(box \o more, now, at, gave, held, log)
<1> DEFINE all == box \o more
<1>1. /\ Len(box) \in Nat /\ DOMAIN box = 1..Len(box) /\ Len(more) \in Nat /\ DOMAIN more = 1..Len(more)
      /\ DOMAIN all = 1..(Len(box) + Len(more))
      /\ \A i \in DOMAIN all : all[i] = IF i <= Len(box) THEN box[i] ELSE more[i - Len(box)]
  OBVIOUS
<1> HIDE DEF all
<1>2. ASSUME NEW i \in DOMAIN all, Newcomers(all[i]), NEW j \in all[i].joins
      PROVE  /\ Before(j[2], now, at, gave, held, log)
             /\ \A k \in DOMAIN all : k < i /\ Dated(all[k]) => all[k].tick < j[2]
  <2>1. CASE i <= Len(box)
    <3>1. i \in DOMAIN box /\ all[i] = box[i]
      BY <1>1, <2>1
    <3>2. \A k \in DOMAIN all : k < i => k \in DOMAIN box /\ all[k] = box[k]
      BY <1>1, <2>1
    <3> QED
      BY <1>2, <3>1, <3>2 DEF NewcomersAhead
  <2>2. CASE ~(i <= Len(box))
    <3>1. i - Len(box) \in DOMAIN more /\ all[i] = more[i - Len(box)]
      BY <1>1, <2>2
    <3>2. j[2] \in Nat /\ j[2] > n /\ \A k \in DOMAIN more : k < i - Len(box) => ~Dated(more[k])
      BY <1>2, <3>1
    <3>3. Before(j[2], now, at, gave, held, log)
      BY <3>2 DEF Before
    <3>4. ASSUME NEW k \in DOMAIN all, k < i, Dated(all[k]) PROVE all[k].tick < j[2]
      <4>1. CASE k <= Len(box)
        <5>1. k \in DOMAIN box /\ all[k] = box[k]
          BY <1>1, <4>1
        <5> QED
          BY <3>2, <3>4, <5>1
      <4>2. CASE ~(k <= Len(box))
        <5>1. k - Len(box) \in DOMAIN more /\ all[k] = more[k - Len(box)] /\ k - Len(box) < i - Len(box)
          BY <1>1, <3>4, <4>2
        <5> QED
          BY <3>2, <3>4, <5>1
      <4> QED
        BY <4>1, <4>2
    <3> QED
      BY <3>3, <3>4
  <2> QED
    BY <2>1, <2>2
<1> QED
  BY <1>2, Zenon DEF NewcomersAhead, all

-----------------------------------------------------------------------------
(* What a step is to a client.                                               *)

LEMMA HearsNothing ==
  ASSUME IInv, NEW c \in Client, StandsStill(c), inbox'[c] = inbox[c]
  PROVE  OnlyHears(c)
<1>1. inbox[c] \in Seq(Msg)
  BY DEF IInv, TInv, NetTypes
<1>2. inbox[c] = inbox[c] \o <<>> /\ <<>> \in Seq(Msg) /\ DOMAIN <<>> = {}
  BY <1>1
<1>3. Passing(<<>>)
  BY <1>2 DEF Passing
<1> QED
  BY <1>2, <1>3, Zenon DEF OnlyHears

LEMMA HearsOne ==
  ASSUME IInv, NEW c \in Client, StandsStill(c), NEW m \in Msg, inbox'[c] = inbox[c] \o <<m>>,
         m.type = "ruling" \/ (m.type = "participants" /\ ~NamesHost(m) /\ \A j \in m.joins : j[2] > clock[Host])
  PROVE  OnlyHears(c)
<1>1. <<m>> \in Seq(Msg) /\ DOMAIN <<m>> = {1} /\ <<m>>[1] = m
  OBVIOUS
<1>2. m.type = "participants" => \A j \in m.joins : j[2] \in Nat
  BY DEF Msg, RulingMsg
<1>3. Passing(<<m>>)
  BY <1>1, <1>2 DEF Passing
<1> QED
  BY <1>1, <1>3, Zenon DEF OnlyHears

LEMMA TickIsHeard ==
  ASSUME IInv, NEW c \in Client, HostTick
  PROVE  OnlyHears(c)
<1> USE Constants
<1>1. PICK players, staged : HostRuns(players, staged)
  BY HostTickRuns DEF IInv
<1> DEFINE next == clock[Host] + 1
           new == Ruling(next, Filled(next, players), staged)
<1>2. PICK staged2 : HostGoesOn(staged2)
  BY HostTickGoesOn
<1>3. /\ players \in Players /\ staged \in Seq(SysAct) /\ clock[Host] \in Nat /\ inbox \in [Client -> Seq(Msg)]
      /\ inbox'[c] = Append(inbox[c], new) \/ inbox'[c] = inbox[c]
      /\ \E k : tracker' = [tracker EXCEPT ![Host] = k]
      /\ UNCHANGED clientVars /\ c # Host
      /\ DOMAIN clock = Peer /\ DOMAIN roster = Peer /\ DOMAIN tracker = Peer
  <2>1. inbox'[c] = Append(inbox[c], new) \/ inbox'[c] = inbox[c]
    BY <1>1 DEF HostRuns
  <2> QED
    BY <1>1, <2>1, PendingIs, Zenon DEF HostRuns, HostTick, IInv, TInv, NetTypes, HostTypes, LogTypes
<1>4. StandsStill(c)
  BY <1>2, <1>3 DEF HostGoesOn, StandsStill, clientVars
<1>5. new \in Msg /\ new.type = "ruling"
  <2>1. new \in RulingMsg
    BY <1>3, FilledPlayers DEF RulingMsg, Ruling
  <2> QED
    BY <2>1 DEF Msg, Ruling
<1> HIDE DEF new
<1>6. Append(inbox[c], new) = inbox[c] \o <<new>>
  <2>1. inbox[c] \in Seq(Msg)
    BY <1>3
  <2>2. ASSUME NEW box \in Seq(Msg), NEW m \in Msg PROVE Append(box, m) = box \o <<m>>
    OBVIOUS
  <2> QED
    BY <1>5, <2>1, <2>2
<1> QED
  BY <1>3, <1>4, <1>5, <1>6, HearsOne, HearsNothing, Zenon

LEMMA AcceptanceIsHeard ==
  ASSUME IInv, NEW c \in Client, NEW d \in Client, AcceptLoaded(d), c # d \/ UNCHANGED <<joinedAt, inbox>>
  PROVE  OnlyHears(c)
<1> USE Constants
<1>1. UNCHANGED <<clientVars, worldVars>>
  BY DEF AcceptLoaded
<1>2. CASE UNCHANGED <<joinedAt, inbox>>
  <2>1. StandsStill(c)
    BY <1>1, <1>2 DEF StandsStill, clientVars, worldVars
  <2> QED
    BY <1>2, <2>1, HearsNothing
<1>3. ASSUME NEW at, LetsIn(d, at), c # d PROVE OnlyHears(c)
  <2> DEFINE m == Participants({<<d, at>>})
  <2>1. /\ joinedAt' = [joinedAt EXCEPT ![d] = at] /\ at \in Nat /\ at > clock[Host]
        /\ inbox'[c] = inbox[c] \o <<m>> \/ inbox'[c] = inbox[c]
        /\ joinedAt \in [Peer -> Nat \cup {None}]
    <3>1. inbox \in [Client -> Seq(Msg)] /\ clock[Host] \in Nat
      BY PendingIs DEF IInv, TInv, NetTypes
    <3>2. at > clock[Host]
      BY <1>3, <3>1 DEF LetsIn
    <3>3. inbox'[c] = inbox[c] \o <<m>> \/ inbox'[c] = inbox[c]
      BY <1>3, <3>1, Zenon DEF LetsIn, Broadcast
    <3> QED
      BY <1>3, <3>2, <3>3, PendingIs, Zenon DEF LetsIn
  <2>2. StandsStill(c)
    BY <1>1, <1>3, <2>1 DEF StandsStill, clientVars, worldVars
  <2>3. m \in Msg /\ m.type = "participants" /\ ~NamesHost(m) /\ \A j \in m.joins : j[2] > clock[Host]
    BY <2>1 DEF Msg, Participants, NamesHost
  <2> QED
    BY <2>1, <2>2, <2>3, HearsOne, HearsNothing, Zenon
<1> QED
  BY <1>2, <1>3, AcceptanceIs

(* A step is one of the client's own, an answer to it, or nothing but news.  *)
LEMMA ClientSees ==
  ASSUME IInv, [Next]_vars, NEW c \in Client
  PROVE  \/ OnlyHears(c)
         \/ AnswerRequest(c) /\ joinedAt[c] = None
         \/ AcceptLoaded(c) /\ \E at : LetsIn(c, at)
         \/ ReceiveRuling(c) \/ ReplayStash(c) \/ ReceiveParticipants(c) \/ ReceiveSnapshot(c)
         \/ ApplySnapshot(c) \/ ClientPass(c) \/ Connect(c)
         \/ Depart(c) /\ Disconnect(c)
<1> USE Constants
<1>0. /\ DOMAIN clock = Peer /\ DOMAIN ran = Peer /\ DOMAIN roster = Peer /\ DOMAIN tracker = Peer
      /\ DOMAIN stage = Client /\ DOMAIN given = Client /\ DOMAIN stash = Client /\ DOMAIN inbox = Client
      /\ DOMAIN joinedAt = Peer /\ c # Host
  BY DEF IInv, TInv, HostTypes, LogTypes, HistoryTypes, ClientTypes, NetTypes
<1> USE DEF hostVars, pauseVars, clientVars, netVars, worldVars
<1>1. CASE UNCHANGED vars
  <2>1. StandsStill(c) /\ inbox'[c] = inbox[c]
    BY <1>1 DEF vars, StandsStill
  <2> QED
    BY <2>1, HearsNothing
<1>2. CASE HostTick
  BY <1>2, TickIsHeard
<1>3. CASE HostHeldPass \/ ResizeHost \/ \E what \in {"pause", "resume"} : Ask(what)
  <2>1. StandsStill(c) /\ inbox'[c] = inbox[c]
    BY <1>3 DEF HostHeldPass, ResizeHost, Ask, Stage, StandsStill
  <2> QED
    BY <2>1, HearsNothing
<1>4. ASSUME NEW d \in Client, HostReceiveBatch(d) \/ Resize(d) PROVE OnlyHears(c)
  <2>1. StandsStill(c) /\ inbox'[c] = inbox[c]
    BY <1>0, <1>4 DEF HostReceiveBatch, Resize, StandsStill
  <2> QED
    BY <2>1, HearsNothing
<1>5. ASSUME NEW d \in Client, AnswerRequest(d), d # c \/ joinedAt[d] # None PROVE OnlyHears(c)
  <2>1. StandsStill(c) /\ inbox'[c] = inbox[c]
    BY <1>0, <1>5 DEF AnswerRequest, StandsStill
  <2> QED
    BY <2>1, HearsNothing
<1>6. ASSUME NEW d \in Client, AcceptLoaded(d)
      PROVE  OnlyHears(c) \/ (d = c /\ AcceptLoaded(c) /\ \E at : LetsIn(c, at))
  <2>1. (UNCHANGED <<joinedAt, inbox>>) \/ \E at : LetsIn(d, at)
    BY <1>6, AcceptanceIs
  <2>2. CASE d # c \/ UNCHANGED <<joinedAt, inbox>>
    BY <1>6, <2>2, AcceptanceIsHeard
  <2> QED
    BY <1>6, <2>1, <2>2
<1>7. ASSUME NEW d \in Client, d # c,
             \/ ReceiveRuling(d) \/ ReplayStash(d) \/ ReceiveParticipants(d) \/ ReceiveSnapshot(d)
             \/ ApplySnapshot(d) \/ ClientPass(d) \/ Connect(d) \/ (Depart(d) /\ Disconnect(d))
      PROVE  OnlyHears(c)
  <2>1. CASE ReceiveRuling(d) \/ ReplayStash(d)
    <3>1. StandsStill(c) /\ inbox'[c] = inbox[c]
      BY <1>0, <1>7, <2>1 DEF ReceiveRuling, ReplayStash, Apply, StandsStill
    <3> QED
      BY <3>1, HearsNothing
  <2>2. CASE ReceiveParticipants(d) \/ ReceiveSnapshot(d) \/ ApplySnapshot(d)
    <3>1. StandsStill(c) /\ inbox'[c] = inbox[c]
      BY <1>0, <1>7, <2>2 DEF ReceiveParticipants, ReceiveSnapshot, ApplySnapshot, StandsStill
    <3> QED
      BY <3>1, HearsNothing
  <2>3. CASE ClientPass(d)
    <3>1. StandsStill(c) /\ inbox'[c] = inbox[c]
      BY <1>0, <1>7, <2>3 DEF ClientPass, RunTick, StandsStill
    <3> QED
      BY <3>1, HearsNothing
  <2>4. CASE Connect(d) \/ (Depart(d) /\ Disconnect(d))
    <3>1. StandsStill(c) /\ inbox'[c] = inbox[c]
      BY <1>0, <1>7, <2>4 DEF Connect, Depart, Disconnect, StandsStill
    <3> QED
      BY <3>1, HearsNothing
  <2> QED
    BY <1>7, <2>1, <2>2, <2>3, <2>4
<1> QED
  BY <1>1, <1>2, <1>3, <1>4, <1>5, <1>6, <1>7 DEF Next, HostStep, ClientStep, Leave, Kick

-----------------------------------------------------------------------------
(* Nobody is ahead of the host, or of who is to join.                        *)

(* What a client has been told is of the host's past.                        *)
LEMMA HeardIsPast ==
  ASSUME IInv, LetIn, NEW c \in Client
  PROVE  /\ inbox[c] \in Seq(Msg) /\ clock[Host] \in Nat /\ clock[c] \in Nat
         /\ \A k \in DOMAIN inbox[c] :
              Dated(inbox[c][k]) => inbox[c][k].tick \in Nat /\ inbox[c][k].tick <= clock[Host]
         /\ stash[c] \in Seq(RulingMsg)
         /\ \A k \in DOMAIN stash[c] : stash[c][k].tick \in Nat /\ stash[c][k].tick <= clock[Host]
         /\ \A t \in DOMAIN tracker[c] : t \in Nat /\ t <= clock[Host]
         /\ stage[c] = "given" => given[c] \in Nat /\ given[c] <= clock[Host]
<1> USE Constants
<1>1. /\ inbox[c] \in Seq(Msg) /\ clock[Host] \in Nat /\ clock[c] \in Nat /\ stash[c] \in Seq(RulingMsg)
      /\ given[c] \in Nat \cup {None} /\ (stage[c] = "given" => given[c] \in 0..MaxTick)
  BY DEF IInv, TInv, HostTypes, ClientTypes, NetTypes
<1>2. \A k \in DOMAIN inbox[c] : inbox[c][k] \in Msg /\ IsTrue(inbox[c][k], clock[Host], ran[Host])
  BY <1>1 DEF IInv, Truth, RulingsAreTrue
<1>3. \A k \in DOMAIN stash[c] : stash[c][k] \in RulingMsg /\ IsTrue(stash[c][k], clock[Host], ran[Host])
  BY <1>1 DEF IInv, Truth, RulingsAreTrue
<1>4. ASSUME NEW k \in DOMAIN inbox[c], Dated(inbox[c][k])
      PROVE  inbox[c][k].tick \in Nat /\ inbox[c][k].tick <= clock[Host]
  <2>1. CASE inbox[c][k].type = "ruling"
    <3>1. inbox[c][k].tick \in 1..clock[Host]
      BY <1>2, <2>1 DEF IsTrue
    <3> QED
      BY <1>1, <3>1
  <2>2. CASE inbox[c][k].type = "snapshot"
    <3>1. inbox[c][k].tick \in Nat
      BY <1>2, <2>2 DEF Msg, RulingMsg
    <3> QED
      BY <2>2, <3>1 DEF LetIn, SnapshotsArePast
  <2> QED
    BY <1>4, <2>1, <2>2 DEF Dated
<1>5. ASSUME NEW k \in DOMAIN stash[c] PROVE stash[c][k].tick \in Nat /\ stash[c][k].tick <= clock[Host]
  <2>1. stash[c][k].tick \in 1..clock[Host]
    BY <1>3 DEF IsTrue, RulingMsg
  <2> QED
    BY <1>1, <2>1
<1>6. ASSUME NEW t \in DOMAIN tracker[c] PROVE t \in Nat /\ t <= clock[Host]
  <2>1. t \in 1..clock[Host]
    BY DEF IInv, Truth, TrackersAreTrue
  <2> QED
    BY <1>1, <2>1
<1>7. stage[c] = "given" => given[c] \in Nat /\ given[c] <= clock[Host]
  BY <1>1 DEF LetIn, SnapshotsArePast
<1> QED
  BY <1>1, <1>4, <1>5, <1>6, <1>7

LEMMA HearsAhead ==
  ASSUME IInv, LetIn, NEW c \in Client, clock[c] <= clock[Host], Ahead(c),
         stage'[c] = stage[c], clock'[c] = clock[c], given'[c] = given[c],
         stash'[c] = stash[c], tracker'[c] = tracker[c],
         NEW more \in Seq(Msg), inbox'[c] = inbox[c] \o more,
         \A i \in DOMAIN more : Newcomers(more[i]) =>
           /\ \A j \in more[i].joins : j[2] \in Nat /\ j[2] > clock[Host]
           /\ \A k \in DOMAIN more : k < i => ~Dated(more[k])
  PROVE  Ahead(c)'
<1>1. NewcomersAhead(inbox[c] \o more, clock[c], stage[c], given[c], stash[c], tracker[c])
  <2>1. PICK n, now, log : n = clock[Host] /\ now = clock[c] /\ log = tracker[c]
    OBVIOUS
  <2>2. PICK box, at, gave, held : box = inbox[c] /\ at = stage[c] /\ gave = given[c] /\ held = stash[c]
    OBVIOUS
  <2>3. /\ box \in Seq(Msg) /\ n \in Nat /\ now \in Nat /\ now <= n
        /\ NewcomersAhead(box, now, at, gave, held, log)
        /\ \A k \in DOMAIN box : Dated(box[k]) => box[k].tick \in Nat /\ box[k].tick <= n
        /\ \A k \in DOMAIN held : held[k].tick \in Nat /\ held[k].tick <= n
        /\ \A t \in DOMAIN log : t \in Nat /\ t <= n
        /\ at = "given" => gave \in Nat /\ gave <= n
        /\ \A i \in DOMAIN more : Newcomers(more[i]) =>
             /\ \A j \in more[i].joins : j[2] \in Nat /\ j[2] > n
             /\ \A k \in DOMAIN more : k < i => ~Dated(more[k])
    BY <2>1, <2>2, HeardIsPast DEF Ahead
  <2>4. NewcomersAhead(box \o more, now, at, gave, held, log)
    BY <2>3, AheadAdded, Zenon
  <2> QED
    BY <2>1, <2>2, <2>4
<1> QED
  BY <1>1 DEF Ahead

LEMMA OnlyHearsAhead ==
  ASSUME IInv, LetIn, NEW c \in Client, clock[c] <= clock[Host], Ahead(c), OnlyHears(c)
  PROVE  Ahead(c)'
<1>1. PICK more \in Seq(Msg) : Passing(more) /\ inbox'[c] = inbox[c] \o more
  BY DEF OnlyHears
<1>2. \A i \in DOMAIN more : Newcomers(more[i]) =>
        /\ \A j \in more[i].joins : j[2] \in Nat /\ j[2] > clock[Host]
        /\ \A k \in DOMAIN more : k < i => ~Dated(more[k])
  BY <1>1 DEF Passing, Newcomers
<1> QED
  BY <1>1, <1>2, HearsAhead, Zenon DEF OnlyHears, StandsStill

LEMMA AnsweredAhead ==
  ASSUME IInv, LetIn, NEW c \in Client, clock[c] <= clock[Host], Ahead(c), AnswerRequest(c), joinedAt[c] = None
  PROVE  /\ Ahead(c)' /\ StandsStill(c) /\ inbox'[c] = inbox[c] \o <<Snapshot(clock[Host])>>
         /\ Snapshot(clock[Host]) \in Msg /\ clock'[Host] = clock[Host]
<1>1. inbox[c] \in Seq(Msg) /\ clock[Host] \in Nat /\ inbox \in [Client -> Seq(Msg)]
  BY HeardIsPast DEF IInv, TInv, NetTypes
<1>2. PICK m : m = Snapshot(clock[Host])
  OBVIOUS
<1>3. m \in Msg /\ m.type = "snapshot"
  BY <1>1, <1>2 DEF Snapshot, Msg
<1>4. inbox'[c] = inbox[c] \o <<m>>
  <2>1. inbox'[c] = Append(inbox[c], m)
    BY <1>1, <1>2 DEF AnswerRequest
  <2>2. ASSUME NEW box \in Seq(Msg), NEW x \in Msg PROVE Append(box, x) = box \o <<x>>
    OBVIOUS
  <2> QED
    BY <1>1, <1>3, <2>1, <2>2
<1>5. StandsStill(c) /\ clock'[Host] = clock[Host]
  BY DEF AnswerRequest, StandsStill, clientVars, worldVars
<1>6. <<m>> \in Seq(Msg) /\ DOMAIN <<m>> = {1} /\ <<m>>[1] = m
  BY <1>3
<1>7. Ahead(c)'
  BY <1>3, <1>4, <1>5, <1>6, HearsAhead, Zenon DEF Newcomers, StandsStill
<1> QED
  BY <1>2, <1>3, <1>4, <1>5, <1>7

(* What a client is told as it is let in: who is there, itself, and the      *)
(* rulings it has missed.                                                    *)
LEMMA LetInHears ==
  ASSUME IInv, HostRosters, NEW c \in Client, NEW at, LetsIn(c, at)
  PROVE  \E more \in Seq(Msg) :
           /\ inbox'[c] = inbox[c] \o more /\ 1 \in DOMAIN more
           /\ more[1].type = "participants" /\ more[1].joins = Members \cup {<<c, at>>}
           /\ \A i \in DOMAIN more : i # 1 =>
                ~Names(more[i]) /\ more[i].type # "snapshot"
           /\ \A i \in DOMAIN more : Newcomers(more[i]) =>
                /\ \A j \in more[i].joins : j[2] \in Nat /\ j[2] > clock[Host]
                /\ \A k \in DOMAIN more : k < i => ~Dated(more[k])
<1> USE Constants
<1> DEFINE all == Participants(Members \cup {<<c, at>>})
           newcomer == Participants({<<c, at>>})
<1>1. /\ inbox \in [Client -> Seq(Msg)] /\ joinedAt \in [Peer -> Nat \cup {None}] /\ clock[Host] \in Nat
      /\ c \in Peer /\ c # Host /\ joinedAt[Host] = 0
  BY PendingIs DEF IInv, TInv, NetTypes, HostRosters, AnnouncedAreOn
<1>2. at \in Nat /\ at > clock[Host]
  <2>1. at \in Nat /\ at > clock[Host] + 1
    BY DEF LetsIn
  <2> QED
    BY <1>1, <2>1
<1>3. Members \subseteq Peer \X Nat /\ <<c, at>> \in Peer \X Nat /\ <<Host, 0>> \in Members
  <2>1. <<Host, joinedAt[Host]>> \in Members
    BY <1>1 DEF Members
  <2>2. \A q \in Peer : joinedAt[q] # None => <<q, joinedAt[q]>> \in Peer \X Nat
    BY <1>1
  <2> QED
    BY <1>1, <1>2, <2>1, <2>2 DEF Members
<1>4. /\ all \in Msg /\ newcomer \in Msg /\ all.type = "participants" /\ newcomer.type = "participants"
      /\ all.joins = Members \cup {<<c, at>>} /\ newcomer.joins = {<<c, at>>}
  BY <1>3 DEF Participants, Msg
<1>5. inbox'[c] = inbox[c] \o (<<all, newcomer>> \o CatchUp(c)) /\ CatchUp(c) \in Seq(Msg)
      /\ \A i \in DOMAIN CatchUp(c) : CatchUp(c)[i].type = "ruling"
  <2>1. inbox'[c] = inbox[c] \o <<all, newcomer>> \o CatchUp(c)
    BY <1>1 DEF LetsIn, Broadcast, Members
  <2>2. CatchUp(c) \in Seq(Msg) /\ \A i \in DOMAIN CatchUp(c) : CatchUp(c)[i].type = "ruling"
    BY CaughtUp
  <2>3. ASSUME NEW s \in Seq(Msg), NEW a \in Msg, NEW b \in Msg, NEW u \in Seq(Msg)
        PROVE  s \o <<a, b>> \o u = s \o (<<a, b>> \o u)
    OBVIOUS
  <2> HIDE DEF all, newcomer
  <2> QED
    BY <1>1, <1>4, <2>1, <2>2, <2>3
<1> HIDE DEF all, newcomer
<1>6. PICK cu : cu = CatchUp(c)
  OBVIOUS
<1>7. cu \in Seq(Msg) /\ (\A i \in DOMAIN cu : cu[i].type = "ruling") /\ inbox'[c] = inbox[c] \o (<<all, newcomer>> \o cu)
  BY <1>5, <1>6
<1> DEFINE more == <<all, newcomer>> \o cu
<1>8. /\ more \in Seq(Msg) /\ DOMAIN more = 1..(2 + Len(cu)) /\ Len(cu) \in Nat
      /\ more[1] = all /\ more[2] = newcomer
      /\ \A i \in DOMAIN more : i # 1 /\ i # 2 => i - 2 \in DOMAIN cu /\ more[i] = cu[i - 2]
  <2>1. ASSUME NEW a \in Msg, NEW b \in Msg, NEW u \in Seq(Msg)
        PROVE  LET s == <<a, b>> \o u
               IN  /\ s \in Seq(Msg) /\ DOMAIN s = 1..(2 + Len(u)) /\ Len(u) \in Nat /\ s[1] = a /\ s[2] = b
                   /\ \A i \in DOMAIN s : i # 1 /\ i # 2 => i - 2 \in DOMAIN u /\ s[i] = u[i - 2]
    OBVIOUS
  <2> QED
    BY <1>4, <1>7, <2>1
<1> HIDE DEF more
<1>9. \A i \in DOMAIN more : i # 1 /\ i # 2 => more[i].type = "ruling"
  BY <1>7, <1>8
<1>10. NamesHost(all) /\ ~NamesHost(newcomer)
  BY <1>1, <1>3, <1>4 DEF NamesHost
<1>11. \A j \in newcomer.joins : j[2] = at
  BY <1>4
<1>12. ASSUME NEW i \in DOMAIN more, Newcomers(more[i])
       PROVE  i = 2 /\ (\A j \in more[i].joins : j[2] \in Nat /\ j[2] > clock[Host])
              /\ \A k \in DOMAIN more : k < i => ~Dated(more[k])
  <2>1. i = 2
    BY <1>8, <1>9, <1>10, <1>12 DEF Newcomers
  <2>2. \A k \in DOMAIN more : k < 2 => k = 1
    BY <1>8
  <2> QED
    BY <1>2, <1>4, <1>8, <1>11, <2>1, <2>2 DEF Dated
<1>13. \A i \in DOMAIN more : i # 1 => ~Names(more[i]) /\ more[i].type # "snapshot"
  BY <1>4, <1>8, <1>9, <1>10 DEF Names
<1>14. 1 \in DOMAIN more /\ more[1].type = "participants" /\ more[1].joins = Members \cup {<<c, at>>}
  BY <1>4, <1>8
<1>15. inbox'[c] = inbox[c] \o more
  BY <1>7 DEF more
<1> QED
  BY <1>8, <1>12, <1>13, <1>14, <1>15, Zenon

LEMMA AcceptedAhead ==
  ASSUME IInv, LetIn, HostRosters, NEW c \in Client, clock[c] <= clock[Host], Ahead(c),
         AcceptLoaded(c), NEW at, LetsIn(c, at)
  PROVE  Ahead(c)'
<1>1. PICK more \in Seq(Msg) :
        /\ inbox'[c] = inbox[c] \o more
        /\ \A i \in DOMAIN more : Newcomers(more[i]) =>
             /\ \A j \in more[i].joins : j[2] \in Nat /\ j[2] > clock[Host]
             /\ \A k \in DOMAIN more : k < i => ~Dated(more[k])
  BY LetInHears, Zenon
<1>2. /\ stage'[c] = stage[c] /\ clock'[c] = clock[c] /\ given'[c] = given[c]
      /\ stash'[c] = stash[c] /\ tracker'[c] = tracker[c]
  BY DEF AcceptLoaded, clientVars, worldVars
<1> QED
  BY <1>1, <1>2, HearsAhead, Zenon

(* What a client takes out of its inbox it has then heard.                   *)
LEMMA TakesAhead ==
  ASSUME IInv, NEW c \in Client, Ahead(c), inbox[c] # <<>>, inbox'[c] = Tail(inbox[c]),
         \A a \in Nat :
           /\ Before(a, clock[c], stage[c], given[c], stash[c], tracker[c])
           /\ Dated(Head(inbox[c])) => Head(inbox[c]).tick < a
           => Before(a, clock'[c], stage'[c], given'[c], stash'[c], tracker'[c])
  PROVE  Ahead(c)'
<1>1. inbox[c] \in Seq(Msg)
  BY DEF IInv, TInv, NetTypes
<1>2. PICK box, now, at, gave, held, log :
        /\ box = inbox[c] /\ now = clock[c] /\ at = stage[c] /\ gave = given[c]
        /\ held = stash[c] /\ log = tracker[c]
  OBVIOUS
<1>3. PICK now2, at2, gave2, held2, log2 :
        /\ now2 = clock'[c] /\ at2 = stage'[c] /\ gave2 = given'[c]
        /\ held2 = stash'[c] /\ log2 = tracker'[c]
  OBVIOUS
<1>4. /\ box \in Seq(Msg) /\ box # <<>> /\ NewcomersAhead(box, now, at, gave, held, log)
      /\ \A a \in Nat : /\ Before(a, now, at, gave, held, log)
                        /\ Dated(Head(box)) => Head(box).tick < a
                        => Before(a, now2, at2, gave2, held2, log2)
  BY <1>1, <1>2, <1>3 DEF Ahead
<1>5. NewcomersAhead(Tail(box), now2, at2, gave2, held2, log2)
  BY <1>4, AheadTaken
<1> QED
  BY <1>2, <1>3, <1>5 DEF Ahead

LEMMA MovesAhead ==
  ASSUME IInv, NEW c \in Client, Ahead(c), inbox'[c] = inbox[c],
         \A a \in Nat : Before(a, clock[c], stage[c], given[c], stash[c], tracker[c])
                        => Before(a, clock'[c], stage'[c], given'[c], stash'[c], tracker'[c])
  PROVE  Ahead(c)'
<1>1. inbox[c] \in Seq(Msg)
  BY DEF IInv, TInv, NetTypes
<1>2. PICK box, now, at, gave, held, log :
        /\ box = inbox[c] /\ now = clock[c] /\ at = stage[c] /\ gave = given[c]
        /\ held = stash[c] /\ log = tracker[c]
  OBVIOUS
<1>3. PICK now2, at2, gave2, held2, log2 :
        /\ now2 = clock'[c] /\ at2 = stage'[c] /\ gave2 = given'[c]
        /\ held2 = stash'[c] /\ log2 = tracker'[c]
  OBVIOUS
<1>4. /\ box \in Seq(Msg) /\ NewcomersAhead(box, now, at, gave, held, log)
      /\ \A a \in Nat : Before(a, now, at, gave, held, log)
                        => Before(a, now2, at2, gave2, held2, log2)
  BY <1>1, <1>2, <1>3 DEF Ahead
<1>5. NewcomersAhead(box, now2, at2, gave2, held2, log2)
  BY <1>4, AheadStay
<1> QED
  BY <1>2, <1>3, <1>5 DEF Ahead

(* What a ruling, or a stash of them, adds to a tracker.                     *)
LEMMA AppliedTicks ==
  ASSUME IInv, NEW c \in Client, NEW ms \in Seq(RulingMsg),
         \A i \in DOMAIN ms : IsTrue(ms[i], clock[Host], ran[Host]),
         Apply(c, ms), roster' = roster
  PROVE  \A t \in DOMAIN tracker'[c] : t \in DOMAIN tracker[c] \/ \E i \in DOMAIN ms : t = ms[i].tick
<1>1. DOMAIN tracker'[c] = DOMAIN tracker[c] \cup {ms[i].tick : i \in DOMAIN ms}
  BY ApplyIsTrue
<1> QED
  BY <1>1

LEMMA RulingAhead ==
  ASSUME IInv, NEW c \in Client, Ahead(c), ReceiveRuling(c)
  PROVE  Ahead(c)' /\ clock'[c] = clock[c]
<1> DEFINE m == Head(inbox[c])
<1>1. /\ inbox[c] # <<>> /\ inbox'[c] = Tail(inbox[c]) /\ m.type = "ruling" /\ inbox[c] \in Seq(Msg)
      /\ stash[c] \in Seq(RulingMsg) /\ stash \in [Client -> Seq(RulingMsg)]
      /\ clock'[c] = clock[c] /\ stage'[c] = stage[c] /\ given'[c] = given[c] /\ roster' = roster
      /\ DOMAIN inbox[c] = 1..Len(inbox[c]) /\ m = inbox[c][1] /\ 1 \in DOMAIN inbox[c]
  BY DEF ReceiveRuling, IInv, TInv, NetTypes, ClientTypes
<1>2. IsTrue(m, clock[Host], ran[Host]) /\ m \in RulingMsg
  <2>1. m \in Msg
    BY <1>1
  <2> QED
    BY <1>1, <2>1 DEF IInv, Truth, RulingsAreTrue, Msg
<1> HIDE DEF m
<1>3. /\ \A k \in DOMAIN stash'[c] : stash'[c][k].tick = m.tick \/ \E l \in DOMAIN stash[c] : stash'[c][k] = stash[c][l]
      /\ \A t \in DOMAIN tracker'[c] : t \in DOMAIN tracker[c] \/ t = m.tick
  <2>1. CASE stage[c] = "loaded"
    <3>1. Apply(c, <<m>>) /\ stash' = stash
      BY <2>1 DEF ReceiveRuling, m
    <3>2. <<m>> \in Seq(RulingMsg) /\ DOMAIN <<m>> = {1} /\ <<m>>[1] = m
      BY <1>2
    <3>3. \A t \in DOMAIN tracker'[c] : t \in DOMAIN tracker[c] \/ \E i \in DOMAIN <<m>> : t = <<m>>[i].tick
      BY <1>1, <1>2, <3>1, <3>2, AppliedTicks, Zenon
    <3> QED
      BY <3>1, <3>2, <3>3
  <2>2. CASE stage[c] # "loaded"
    <3>1. stash'[c] = Append(stash[c], m) /\ tracker' = tracker
      BY <1>1, <2>2 DEF ReceiveRuling, m
    <3>2. ASSUME NEW s \in Seq(RulingMsg), NEW x \in RulingMsg
          PROVE  \A k \in DOMAIN Append(s, x) : Append(s, x)[k] = x \/ (k \in DOMAIN s /\ Append(s, x)[k] = s[k])
      OBVIOUS
    <3>3. \A k \in DOMAIN stash'[c] : stash'[c][k] = m \/ (k \in DOMAIN stash[c] /\ stash'[c][k] = stash[c][k])
      BY <1>1, <1>2, <3>1, <3>2
    <3> QED
      BY <3>1, <3>3
  <2> QED
    BY <2>1, <2>2
<1>4. ASSUME NEW a \in Nat, Before(a, clock[c], stage[c], given[c], stash[c], tracker[c]),
             Dated(m) => m.tick < a
      PROVE  Before(a, clock'[c], stage'[c], given'[c], stash'[c], tracker'[c])
  <2>1. m.tick < a
    BY <1>1, <1>4 DEF Dated
  <2> QED
    BY <1>1, <1>3, <1>4, <2>1, Zenon DEF Before
<1> QED
  BY <1>1, <1>4, TakesAhead DEF m

LEMMA ReplayAhead ==
  ASSUME IInv, NEW c \in Client, Ahead(c), ReplayStash(c)
  PROVE  Ahead(c)' /\ clock'[c] = clock[c]
<1>1. /\ inbox'[c] = inbox[c] /\ stash[c] \in Seq(RulingMsg) /\ stash'[c] = <<>> /\ Apply(c, stash[c])
      /\ clock'[c] = clock[c] /\ stage'[c] = stage[c] /\ given'[c] = given[c] /\ roster' = roster
      /\ \A i \in DOMAIN stash[c] : IsTrue(stash[c][i], clock[Host], ran[Host])
  BY DEF ReplayStash, netVars, IInv, TInv, ClientTypes, Truth, RulingsAreTrue
<1>2. \A t \in DOMAIN tracker'[c] : t \in DOMAIN tracker[c] \/ \E i \in DOMAIN stash[c] : t = stash[c][i].tick
  BY <1>1, AppliedTicks
<1>3. DOMAIN stash'[c] = {}
  BY <1>1
<1>4. \A a \in Nat : Before(a, clock[c], stage[c], given[c], stash[c], tracker[c])
                     => Before(a, clock'[c], stage'[c], given'[c], stash'[c], tracker'[c])
  BY <1>1, <1>2, <1>3 DEF Before
<1> QED
  BY <1>1, <1>4, MovesAhead

LEMMA ParticipantsAhead ==
  ASSUME IInv, NEW c \in Client, Ahead(c), ReceiveParticipants(c)
  PROVE  Ahead(c)' /\ clock'[c] = clock[c]
<1>1. /\ inbox[c] # <<>> /\ inbox'[c] = Tail(inbox[c]) /\ clock'[c] = clock[c] /\ stage'[c] = stage[c]
      /\ given'[c] = given[c] /\ stash'[c] = stash[c] /\ tracker'[c] = tracker[c]
  BY DEF ReceiveParticipants, clientVars, IInv, TInv, NetTypes
<1> QED
  BY <1>1, TakesAhead

LEMMA SnapshotAhead ==
  ASSUME IInv, NEW c \in Client, Ahead(c), ReceiveSnapshot(c)
  PROVE  Ahead(c)' /\ clock'[c] = clock[c]
<1>1. /\ inbox[c] # <<>> /\ inbox'[c] = Tail(inbox[c]) /\ clock'[c] = clock[c]
      /\ given'[c] = Head(inbox[c]).tick /\ stash'[c] = stash[c] /\ tracker'[c] = tracker[c]
      /\ Dated(Head(inbox[c]))
  BY DEF ReceiveSnapshot, worldVars, IInv, TInv, NetTypes, ClientTypes, Dated
<1>2. \A a \in Nat : /\ Before(a, clock[c], stage[c], given[c], stash[c], tracker[c])
                     /\ Dated(Head(inbox[c])) => Head(inbox[c]).tick < a
                     => Before(a, clock'[c], stage'[c], given'[c], stash'[c], tracker'[c])
  BY <1>1 DEF Before
<1> QED
  BY <1>1, <1>2, TakesAhead

LEMMA ApplySnapshotAhead ==
  ASSUME IInv, LetIn, NEW c \in Client, Ahead(c), ApplySnapshot(c)
  PROVE  Ahead(c)' /\ clock'[c] <= clock[Host] /\ clock'[Host] = clock[Host]
<1> USE Constants
<1>1. /\ stage[c] = "given" /\ inbox' = inbox /\ clock'[c] = given[c] /\ stage'[c] = "loaded"
      /\ stash' = stash /\ tracker'[c] = Empty /\ DOMAIN Empty = {} /\ clock'[Host] = clock[Host]
  BY DEF ApplySnapshot, IInv, TInv, HostTypes, LogTypes, ClientTypes, Empty
<1>2. \A a \in Nat : Before(a, clock[c], stage[c], given[c], stash[c], tracker[c])
                     => Before(a, clock'[c], stage'[c], given'[c], stash'[c], tracker'[c])
  BY <1>1 DEF Before
<1>3. clock'[c] <= clock[Host]
  BY <1>1 DEF LetIn, SnapshotsArePast
<1> QED
  BY <1>1, <1>2, <1>3, MovesAhead

LEMMA PassAhead ==
  ASSUME IInv, LetIn, NEW c \in Client, Ahead(c), ClientPass(c)
  PROVE  Ahead(c)' /\ clock'[c] <= clock[Host] /\ clock'[Host] = clock[Host]
<1> USE Constants
<1>1. PICK next : next = clock[c] + 1
  OBVIOUS
<1>2. /\ clock'[c] = next /\ clock'[Host] = clock[Host] /\ stage[c] = "loaded" /\ stage'[c] = stage[c]
      /\ inbox' = inbox /\ given' = given /\ stash' = stash /\ next \in DOMAIN tracker[c]
      /\ clock[Host] \in Nat
  BY <1>1 DEF ClientPass, MayRun, RunTick, IInv, TInv, HostTypes, LogTypes
<1>3. DOMAIN tracker'[c] \subseteq DOMAIN tracker[c]
  <2>1. DOMAIN tracker = Peer /\ c \in Peer
    BY DEF IInv, TInv, LogTypes
  <2>2. tracker' = [tracker EXCEPT ![c] = RestrictDomain(tracker[c], LAMBDA t : t + TrustWindow >= clock[c] + 1)]
    BY DEF ClientPass
  <2>3. tracker'[c] = RestrictDomain(tracker[c], LAMBDA t : t + TrustWindow >= clock[c] + 1)
    BY <2>1, <2>2
  <2> QED
    BY <2>3 DEF RestrictDomain, Restrict
<1>4. \A a \in Nat : Before(a, clock[c], stage[c], given[c], stash[c], tracker[c])
                     => Before(a, clock'[c], stage'[c], given'[c], stash'[c], tracker'[c])
  BY <1>2, <1>3 DEF Before
<1>5. next \in Nat /\ next <= clock[Host]
  BY <1>2, HeardIsPast
<1> QED
  BY <1>2, <1>4, <1>5, MovesAhead

LEMMA InStepInit == MenuClock \subseteq {0} /\ Init => InStep
<1> SUFFICES ASSUME MenuClock \subseteq {0}, Init, NEW c \in Client PROVE clock[c] <= clock[Host] /\ Ahead(c)
  BY DEF InStep
<1>1. clock[c] = 0 /\ clock[Host] = 0
  <2>1. clock \in [Peer -> MenuClock \cup {0}] /\ clock[Host] = 0 /\ c \in Peer
    BY Constants DEF Init
  <2>2. clock[c] \in MenuClock \cup {0}
    BY <2>1
  <2> QED
    BY <2>1, <2>2, Zenon
<1>2. inbox[c] = <<>> /\ DOMAIN <<>> = {}
  BY DEF Init
<1> QED
  BY <1>1, <1>2 DEF Ahead, NewcomersAhead

LEMMA InStepStep ==
  ASSUME MenuClock \subseteq {0}, IInv, Told, LetIn, HostRosters, InStep, [Next]_vars
  PROVE  InStep'
<1> USE Constants
<1> SUFFICES ASSUME NEW c \in Client PROVE clock'[c] <= clock'[Host] /\ Ahead(c)'
  BY DEF InStep
<1>1. /\ clock[c] <= clock[Host] /\ Ahead(c) /\ clock[Host] <= clock'[Host] /\ clock'[Host] \in Nat
      /\ clock[Host] \in Nat /\ clock[c] \in Nat /\ clock \in [Peer -> Nat] /\ inbox \in [Client -> Seq(Msg)]
  BY HostRostersStep, HeardIsPast, Zenon DEF InStep, HostRemembers, IInv, TInv, HostTypes, NetTypes
<1>2. clock'[c] = clock[c] => clock'[c] <= clock'[Host]
  BY <1>1
<1>3. CASE OnlyHears(c)
  BY <1>1, <1>2, <1>3, OnlyHearsAhead, Zenon DEF OnlyHears, StandsStill
<1>4. CASE AnswerRequest(c) /\ joinedAt[c] = None
  BY <1>1, <1>2, <1>4, AnsweredAhead DEF StandsStill
<1>5. CASE AcceptLoaded(c) /\ \E at : LetsIn(c, at)
  BY <1>1, <1>2, <1>5, AcceptedAhead, Zenon DEF AcceptLoaded, worldVars
<1>6. CASE ReceiveRuling(c) \/ ReplayStash(c) \/ ReceiveParticipants(c) \/ ReceiveSnapshot(c)
  BY <1>1, <1>2, <1>6, RulingAhead, ReplayAhead, ParticipantsAhead, SnapshotAhead
<1>7. CASE ApplySnapshot(c)
  BY <1>1, <1>7, ApplySnapshotAhead
<1>8. CASE ClientPass(c)
  BY <1>1, <1>8, PassAhead
<1>9. CASE Connect(c) \/ (Depart(c) /\ Disconnect(c))
  <2>1. inbox'[c] = <<>>
    BY <1>1, <1>9 DEF Connect, Disconnect, Told, HandedOnce
  <2>2. clock'[c] <= clock'[Host]
    BY <1>1, <1>2, <1>9 DEF Connect, Disconnect
  <2>3. DOMAIN <<>> = {}
    OBVIOUS
  <2> QED
    BY <2>1, <2>2, <2>3 DEF Ahead, NewcomersAhead
<1> QED
  BY <1>3, <1>4, <1>5, <1>6, <1>7, <1>8, <1>9, ClientSees

-----------------------------------------------------------------------------
LEMMA SeedAdded ==
  ASSUME NEW box \in Seq(Msg), NEW more \in Seq(Msg), NEW r, NEW now, SeedIn(box, r, now),
         \A i \in DOMAIN more : ~Names(more[i])
  PROVE  SeedIn(box \o more, r, now)
<1> DEFINE all == box \o more
<1>1. /\ Len(box) \in Nat /\ DOMAIN box = 1..Len(box) /\ Len(more) \in Nat /\ DOMAIN more = 1..Len(more)
      /\ DOMAIN all = 1..(Len(box) + Len(more))
      /\ \A i \in DOMAIN all : all[i] = IF i <= Len(box) THEN box[i] ELSE more[i - Len(box)]
  OBVIOUS
<1> HIDE DEF all
<1>2. ASSUME NEW i \in DOMAIN all, Names(all[i]) PROVE i \in DOMAIN box /\ all[i] = box[i]
  <2>1. CASE i <= Len(box)
    BY <1>1, <2>1
  <2>2. CASE ~(i <= Len(box))
    <3>1. i - Len(box) \in DOMAIN more /\ all[i] = more[i - Len(box)]
      BY <1>1, <2>2
    <3> QED
      BY <1>2, <3>1
  <2> QED
    BY <2>1, <2>2
<1>3. SeedIn(all, r, now)
  BY <1>2 DEF SeedIn
<1> QED
  BY <1>3 DEF all

LEMMA SeedTaken ==
  ASSUME NEW box \in Seq(Msg), box # <<>>, NEW r, NEW now, SeedIn(box, r, now)
  PROVE  /\ SeedIn(Tail(box), r, now)
         /\ Names(Head(box)) => \A i \in DOMAIN Tail(box) : ~Names(Tail(box)[i])
<1> DEFINE rest == Tail(box)
<1>1. /\ \A i \in DOMAIN rest : i \in Nat /\ i >= 1 /\ i + 1 \in DOMAIN box /\ rest[i] = box[i + 1]
      /\ 1 \in DOMAIN box /\ Head(box) = box[1]
  OBVIOUS
<1> HIDE DEF rest
<1>2. SeedIn(rest, r, now)
  <2>1. ASSUME NEW i \in DOMAIN rest, Names(rest[i]), NEW k \in DOMAIN rest, Names(rest[k]) PROVE k = i
    <3>1. k + 1 = i + 1
      BY <1>1, <2>1 DEF SeedIn
    <3> QED
      BY <1>1, <3>1
  <2> QED
    BY <1>1, <2>1 DEF SeedIn
<1>3. ASSUME Names(Head(box)), NEW i \in DOMAIN rest PROVE ~Names(rest[i])
  <2>1. i + 1 # 1
    BY <1>1
  <2> QED
    BY <1>1, <1>3, <2>1 DEF SeedIn
<1> QED
  BY <1>2, <1>3 DEF rest

LEMMA SeedStays ==
  ASSUME IInv, HostRemembers, NEW box, NEW r, NEW now, SeedIn(box, r, now)
  PROVE  SeedIn(box, r, now)'
<1>1. ASSUME NEW i \in DOMAIN box, Names(box[i]) PROVE Agrees(SeededBy(box[i].joins, now), now)'
  <2>1. PICK seed : seed = SeededBy(box[i].joins, now)
    OBVIOUS
  <2>2. Agrees(seed, now)
    BY <1>1, <2>1 DEF SeedIn
  <2>3. Agrees(seed, now)'
    BY <2>2, AgreesStay
  <2> QED
    BY <2>1, <2>3 DEF SeededBy
<1>2. \A i : Names(box[i])' = Names(box[i])
  BY DEF Names, NamesHost
<1> QED
  BY <1>1, <1>2 DEF SeedIn

(* What a client stands on stays good.                                       *)
LEMMA RosterStays ==
  ASSUME IInv, HostRemembers, NEW c \in Client, RosterOf(c), joinedAt'[c] = None => roster[c] = {},
         roster'[c] = roster[c], clock'[c] = clock[c]
  PROVE  RosterOf(c)'
<1>1. PICK r, now : r = roster[c] /\ now = clock[c]
  OBVIOUS
<1>2. r # {} => Agrees(r, now)'
  BY <1>1, AgreesStay DEF RosterOf
<1> QED
  BY <1>1, <1>2 DEF RosterOf

LEMMA RanStays ==
  ASSUME IInv, HostRemembers, NEW c \in Client, RanAsHost(c), ran'[c] = ran[c] \/ DOMAIN ran'[c] = {}
  PROVE  RanAsHost(c)'
<1>1. clock[Host] \in Nat
  BY PendingIs
<1>2. ASSUME NEW t \in 1..clock[Host] PROVE t \in 1..clock'[Host] /\ RosterAt(t)' = RosterAt(t)
  BY <1>1 DEF HostRemembers
<1> QED
  BY <1>2 DEF RanAsHost

(* While a client is between its snapshot and its acceptance, who had joined *)
(* by the tick of its snapshot does not change: nobody of them leaves.       *)
LEMMA JoinedStay ==
  ASSUME ~LeaveMidJoin, IInv, Told, [Next]_vars,
         NEW c \in Client, joinedAt[c] = None, NEW t \in 0..clock[Host], GivenAt(c, t)
  PROVE  JoinedBy(t)' = JoinedBy(t)
<1> USE Constants
<1>1. clock[Host] \in Nat /\ joinedAt \in [Peer -> Nat \cup {None}]
  BY PendingIs
<1>2. MidJoin(c)
  <2>1. HandedOnce(stage[c], handshake[c], inbox[c])
    BY DEF Told
  <2>2. DOMAIN <<>> = {}
    OBVIOUS
  <2>3. stage[c] # "out"
    BY <2>1, <2>2 DEF HandedOnce, GivenAt
  <2>4. \A i \in DOMAIN handshake[c] : handshake[c][i].type # "request"
    BY <2>1 DEF HandedOnce, GivenAt
  <2> QED
    BY <2>3, <2>4 DEF MidJoin
<1>3. CASE UNCHANGED joinedAt
  BY <1>3 DEF JoinedBy
<1>4. ASSUME NEW d \in Client, NEW at, LetsIn(d, at) PROVE JoinedBy(t)' = JoinedBy(t)
  <2>1. at \in Nat /\ at > clock[Host] + 1 /\ joinedAt[d] = None /\ joinedAt' = [joinedAt EXCEPT ![d] = at]
    BY <1>4 DEF LetsIn
  <2>2. ~(at <= t)
    BY <1>1, <2>1
  <2> QED
    BY <1>1, <2>1, <2>2 DEF JoinedBy
<1>5. ASSUME NEW d \in Client, AcceptLoaded(d) PROVE JoinedBy(t)' = JoinedBy(t)
  BY <1>3, <1>4, <1>5, AcceptanceIs
<1>6. ASSUME NEW d \in Client, Leave(d) \/ Kick(d) PROVE JoinedBy(t)' = JoinedBy(t)
  <2>1. joinedAt' = [joinedAt EXCEPT ![d] = None] /\ (joinedAt[d] = None \/ ~MidJoin(c))
    BY <1>6 DEF Leave, Kick, Depart, WaitedOn, Required
  <2>2. joinedAt' = joinedAt
    BY <1>1, <1>2, <2>1
  <2> QED
    BY <1>3, <2>2
<1>7. CASE UNCHANGED vars \/ HostTick \/ HostHeldPass \/ ResizeHost \/ \E what \in {"pause", "resume"} : Ask(what)
  <2>1. UNCHANGED joinedAt
    BY <1>7 DEF vars, HostTick, HostHeldPass, Stage, ResizeHost, Ask, hostVars
  <2> QED
    BY <1>3, <2>1
<1>8. ASSUME NEW d \in Client,
             HostReceiveBatch(d) \/ AnswerRequest(d) \/ ClientStep(d) \/ Connect(d) \/ Resize(d)
      PROVE  JoinedBy(t)' = JoinedBy(t)
  <2>1. UNCHANGED joinedAt
    BY <1>8, Zenon DEF HostReceiveBatch, AnswerRequest, ClientStep, ReceiveRuling, ReplayStash, ReceiveParticipants,
                ReceiveSnapshot, ApplySnapshot, ClientPass, Connect, Resize, hostVars
  <2> QED
    BY <1>3, <2>1
<1> QED
  BY <1>5, <1>6, <1>7, <1>8 DEF Next, HostStep

LEMMA SeedToComeStays ==
  ASSUME ~LeaveMidJoin, IInv, Told, LetIn, InStep, HostRemembers, [Next]_vars, NEW c \in Client, SeedToCome(c),
         joinedAt'[c] = None => joinedAt[c] = None /\ \A t : GivenAt(c, t)' => GivenAt(c, t)
  PROVE  SeedToCome(c)'
<1> SUFFICES ASSUME joinedAt'[c] = None, NEW t \in 0..clock'[Host], GivenAt(c, t)'
             PROVE  Agrees(JoinedBy(t), t)'
  BY DEF SeedToCome
<1>1. joinedAt[c] = None /\ GivenAt(c, t)
  OBVIOUS
<1>2. t \in 0..clock[Host]
  <2>1. clock[Host] \in Nat /\ clock'[Host] \in Nat /\ clock[c] <= clock[Host] /\ inbox[c] \in Seq(Msg)
    BY HeardIsPast DEF HostRemembers, InStep
  <2>2. t <= clock[Host]
    BY <1>1, <2>1, HeardIsPast DEF GivenAt, Dated
  <2> QED
    BY <2>1, <2>2
<1>3. JoinedBy(t)' = JoinedBy(t)
  BY <1>1, <1>2, JoinedStay
<1>4. PICK r : r = JoinedBy(t)
  OBVIOUS
<1>5. Agrees(r, t)'
  BY <1>1, <1>2, <1>4, AgreesStay DEF SeedToCome
<1> QED
  BY <1>3, <1>4, <1>5 DEF Agrees

LEMMA HearsAgreed ==
  ASSUME ~LeaveMidJoin, Stepping, NEW c \in Client, Agreed(c), OnlyHears(c)
  PROVE  Agreed(c)'
<1>1. PICK more \in Seq(Msg) : Passing(more) /\ inbox'[c] = inbox[c] \o more
  BY DEF OnlyHears
<1>2. /\ inbox[c] \in Seq(Msg) /\ StandsStill(c)
      /\ \A i \in DOMAIN more : ~Names(more[i]) /\ more[i].type # "snapshot"
  BY <1>1, HeardIsPast DEF Stepping, OnlyHears, Passing, Names
<1>3. RosterOf(c)' /\ RanAsHost(c)'
  BY <1>2, RosterStays, RanStays DEF Agreed, StandsStill, Stepping, RosterOf
<1>4. SeedIn(inbox[c], roster[c], clock[c])'
  <2>1. PICK box, r, now : box = inbox[c] /\ r = roster[c] /\ now = clock[c]
    OBVIOUS
  <2>2. box \in Seq(Msg) /\ SeedIn(box, r, now)
    BY <1>2, <2>1 DEF Agreed
  <2>3. SeedIn(box \o more, r, now)
    BY <1>2, <2>2, SeedAdded
  <2>4. PICK all : all = box \o more
    BY Zenon
  <2>5. SeedIn(all, r, now)'
    BY <2>3, <2>4, SeedStays DEF Stepping
  <2> QED
    BY <1>1, <1>2, <2>1, <2>4, <2>5 DEF StandsStill
<1>5. SeedToCome(c)'
  <2>1. ASSUME NEW i \in DOMAIN inbox'[c], inbox'[c][i].type = "snapshot"
        PROVE  \E k \in DOMAIN inbox[c] : inbox[c][k] = inbox'[c][i]
    <3>1. ASSUME NEW s \in Seq(Msg), NEW u \in Seq(Msg), NEW k \in DOMAIN (s \o u)
          PROVE  \/ k \in DOMAIN s /\ (s \o u)[k] = s[k]
                 \/ k - Len(s) \in DOMAIN u /\ (s \o u)[k] = u[k - Len(s)]
      OBVIOUS
    <3> QED
      BY <1>1, <1>2, <2>1, <3>1
  <2>2. \A t : GivenAt(c, t)' => GivenAt(c, t)
    BY <1>2, <2>1 DEF GivenAt, StandsStill
  <2> QED
    BY <1>2, <2>2, SeedToComeStays DEF Agreed, StandsStill, Stepping
<1> QED
  BY <1>3, <1>4, <1>5 DEF Agreed

LEMMA AnswerAgreed ==
  ASSUME ~LeaveMidJoin, Stepping, NEW c \in Client, Agreed(c), AnswerRequest(c), joinedAt[c] = None
  PROVE  Agreed(c)'
<1>1. PICK m : m = Snapshot(clock[Host])
  OBVIOUS
<1>2. /\ inbox'[c] = inbox[c] \o <<m>> /\ StandsStill(c) /\ inbox[c] \in Seq(Msg) /\ m \in Msg
      /\ m.type = "snapshot" /\ m.tick = clock[Host] /\ joinedAt' = joinedAt /\ clock' = clock
      /\ clock[Host] \in Nat
  BY <1>1, AnsweredAhead, HeardIsPast, Zenon DEF Stepping, InStep, Snapshot, AnswerRequest, worldVars
<1>3. RosterOf(c)' /\ RanAsHost(c)'
  BY <1>2, RosterStays, RanStays DEF Agreed, StandsStill, Stepping, RosterOf
<1>4. <<m>> \in Seq(Msg) /\ DOMAIN <<m>> = {1} /\ <<m>>[1] = m
  BY <1>2
<1>5. SeedIn(inbox[c], roster[c], clock[c])'
  <2>1. PICK box, r, now : box = inbox[c] /\ r = roster[c] /\ now = clock[c]
    OBVIOUS
  <2>2. box \in Seq(Msg) /\ SeedIn(box, r, now) /\ \A i \in DOMAIN <<m>> : ~Names(<<m>>[i])
    BY <1>2, <1>4, <2>1 DEF Agreed, Names
  <2>3. SeedIn(box \o <<m>>, r, now)
    BY <1>4, <2>2, SeedAdded, Zenon
  <2>4. PICK all : all = box \o <<m>>
    BY Zenon
  <2>5. SeedIn(all, r, now)'
    BY <2>3, <2>4, SeedStays DEF Stepping
  <2> QED
    BY <1>2, <2>1, <2>4, <2>5 DEF StandsStill
<1>6. SeedToCome(c)'
  <2> SUFFICES ASSUME NEW t \in 0..clock[Host], GivenAt(c, t)' PROVE Agrees(JoinedBy(t), t)'
    BY <1>2 DEF SeedToCome
  <2>1. GivenAt(c, t) \/ t = clock[Host]
    <3>1. ASSUME NEW i \in DOMAIN inbox'[c] PROVE inbox'[c][i] = m \/ \E k \in DOMAIN inbox[c] : inbox[c][k] = inbox'[c][i]
      <4>1. ASSUME NEW s \in Seq(Msg), NEW x \in Msg, NEW k \in DOMAIN (s \o <<x>>)
            PROVE  (s \o <<x>>)[k] = x \/ (k \in DOMAIN s /\ (s \o <<x>>)[k] = s[k])
        OBVIOUS
      <4> QED
        BY <1>2, <3>1, <4>1
    <3> QED
      BY <1>2, <3>1, Zenon DEF GivenAt, StandsStill
  <2>2. PICK r : r = JoinedBy(t)
    OBVIOUS
  <2>3. Agrees(r, t)
    BY <2>1, <2>2, SeedsOfNow DEF Agreed, SeedToCome, Stepping
  <2>4. Agrees(r, t)'
    BY <2>3, AgreesStay DEF Stepping
  <2>5. JoinedBy(t)' = JoinedBy(t)
    BY <1>2 DEF JoinedBy
  <2> QED
    BY <2>2, <2>4, <2>5 DEF Agrees
<1> QED
  BY <1>3, <1>5, <1>6 DEF Agreed

LEMMA AcceptAgreed ==
  ASSUME Stepping, NEW c \in Client, Agreed(c), AcceptLoaded(c), NEW at, LetsIn(c, at)
  PROVE  Agreed(c)'
<1> USE Constants
<1>1. PICK more \in Seq(Msg) :
        /\ inbox'[c] = inbox[c] \o more /\ 1 \in DOMAIN more
        /\ more[1].type = "participants" /\ more[1].joins = Members \cup {<<c, at>>}
        /\ \A i \in DOMAIN more : i # 1 => ~Names(more[i]) /\ more[i].type # "snapshot"
        /\ \A i \in DOMAIN more : Newcomers(more[i]) =>
             /\ \A j \in more[i].joins : j[2] \in Nat /\ j[2] > clock[Host]
             /\ \A k \in DOMAIN more : k < i => ~Dated(more[k])
  BY LetInHears, Zenon DEF Stepping
<1>2. /\ at \in Nat /\ at > clock[Host] + 1 /\ joinedAt[c] = None /\ joinedAt'[c] = at
      /\ joinedAt \in [Peer -> Nat \cup {None}] /\ UNCHANGED <<stage, clock, roster, ran>>
      /\ clock[Host] \in Nat /\ clock[c] \in Nat /\ clock[c] <= clock[Host] /\ inbox[c] \in Seq(Msg)
  BY PendingIs, HeardIsPast, Zenon DEF LetsIn, AcceptLoaded, clientVars, worldVars, Stepping, InStep
<1>3. roster[c] = {} /\ RosterOf(c)' /\ RanAsHost(c)'
  <2>1. roster[c] = {}
    BY <1>2 DEF Agreed, RosterOf
  <2> QED
    BY <1>2, <2>1, RosterStays, RanStays DEF Agreed, Stepping
<1>4. \A i \in DOMAIN inbox[c] : ~Names(inbox[c][i])
  BY <1>2 DEF Stepping, LetIn, StrangersAreSilent, Names
<1>5. SeededBy(Members \cup {<<c, at>>}, clock[c]) = JoinedBy(clock[c])
  <2>1. ~(at <= clock[c])
    BY <1>2
  <2>2. \A j \in Members : j = <<j[1], joinedAt[j[1]]>> /\ j[1] \in Peer /\ joinedAt[j[1]] # None
    BY DEF Members
  <2>3. \A p \in Peer : joinedAt[p] # None => <<p, joinedAt[p]>> \in Members
    BY DEF Members
  <2>4. \A p, t : <<p, t>>[1] = p /\ <<p, t>>[2] = t
    OBVIOUS
  <2>5. ASSUME NEW p \in SeededBy(Members \cup {<<c, at>>}, clock[c]) PROVE p \in JoinedBy(clock[c])
    <3>1. PICK j \in Members \cup {<<c, at>>} : j[2] <= clock[c] /\ p = j[1]
      BY DEF SeededBy
    <3>2. j \in Members
      BY <2>1, <2>4, <3>1
    <3>3. joinedAt[p] = j[2]
      BY <2>2, <2>4, <3>1, <3>2
    <3> QED
      BY <2>2, <3>1, <3>2, <3>3 DEF JoinedBy
  <2>6. ASSUME NEW p \in JoinedBy(clock[c]) PROVE p \in SeededBy(Members \cup {<<c, at>>}, clock[c])
    <3>1. <<p, joinedAt[p]>> \in Members /\ joinedAt[p] <= clock[c]
      BY <2>3 DEF JoinedBy
    <3> QED
      BY <2>4, <3>1 DEF SeededBy
  <2> QED
    BY <2>5, <2>6, Zenon
<1>6. stage[c] = "loaded"
  <2>1. handshake[c] # <<>> /\ Head(handshake[c]).type = "loaded" /\ handshake[c] \in Seq(Shake)
    BY DEF AcceptLoaded, Stepping, IInv, TInv, NetTypes
  <2>2. 1 \in DOMAIN handshake[c] /\ handshake[c][1] = Head(handshake[c])
    BY <2>1
  <2> QED
    BY <2>1, <2>2 DEF Stepping, LetIn, JoinersHaveLoaded
<1>7. Agrees(JoinedBy(clock[c]), clock[c])
  <2>1. clock[c] \in 0..clock[Host]
    BY <1>2
  <2>2. GivenAt(c, clock[c])
    BY <1>6 DEF GivenAt
  <2> QED
    BY <1>2, <2>1, <2>2 DEF Agreed, SeedToCome
<1>8. SeedIn(inbox[c], roster[c], clock[c])'
  <2>1. PICK box, r, now, seed, who :
          box = inbox[c] /\ r = roster[c] /\ now = clock[c] /\ seed = JoinedBy(clock[c])
          /\ who = Members \cup {<<c, at>>}
    BY Zenon
  <2> DEFINE all == box \o more
  <2>2. box \in Seq(Msg) /\ r = {} /\ Agrees(seed, now) /\ seed = SeededBy(who, now)
    BY <1>2, <1>3, <1>5, <1>7, <2>1
  <2>3. \A i \in DOMAIN all : Names(all[i]) => i = Len(box) + 1
    <3>1. ASSUME NEW i \in DOMAIN all
          PROVE  \/ i \in DOMAIN box /\ all[i] = box[i]
                 \/ i = Len(box) + 1
                 \/ i - Len(box) \in DOMAIN more /\ i - Len(box) # 1 /\ all[i] = more[i - Len(box)]
      BY <2>2
    <3> HIDE DEF all
    <3> QED
      BY <1>1, <1>4, <2>1, <3>1, Zenon
  <2>4. Len(box) + 1 \in DOMAIN all => all[Len(box) + 1] = more[1]
    BY <1>1, <2>2
  <2> HIDE DEF all
  <2>5. Len(box) + 1 \in DOMAIN all => Agrees(SeededBy(all[Len(box) + 1].joins, now), now)
    BY <1>1, <2>1, <2>2, <2>4, Zenon
  <2>6. SeedIn(all, r, now)
    BY <2>2, <2>3, <2>5 DEF SeedIn
  <2>7. PICK whole : whole = all
    OBVIOUS
  <2>8. SeedIn(whole, r, now)'
    BY <2>6, <2>7, SeedStays DEF Stepping
  <2> QED
    BY <1>1, <1>2, <2>1, <2>7, <2>8 DEF all
<1>9. SeedToCome(c)'
  BY <1>2 DEF SeedToCome
<1> QED
  BY <1>3, <1>8, <1>9 DEF Agreed

(* A message taken out that says nothing of who is there, or none.           *)
LEMMA TakesAgreed ==
  ASSUME ~LeaveMidJoin, Stepping, NEW c \in Client, Agreed(c),
         stage'[c] = stage[c], given'[c] = given[c], clock'[c] = clock[c], ran'[c] = ran[c],
         joinedAt'[c] = joinedAt[c], roster'[c] = roster[c],
         inbox'[c] = inbox[c] \/ (inbox[c] # <<>> /\ inbox'[c] = Tail(inbox[c]))
  PROVE  Agreed(c)'
<1>1. inbox[c] \in Seq(Msg)
  BY HeardIsPast DEF Stepping
<1>2. RosterOf(c)' /\ RanAsHost(c)'
  BY RosterStays, RanStays DEF Agreed, Stepping, RosterOf
<1>3. SeedIn(inbox[c], roster[c], clock[c])'
  <2>1. PICK box, r, now, rest : box = inbox[c] /\ r = roster[c] /\ now = clock[c] /\ rest = inbox'[c]
    OBVIOUS
  <2>2. SeedIn(rest, r, now)
    <3>1. box \in Seq(Msg) /\ SeedIn(box, r, now)
      BY <1>1, <2>1 DEF Agreed
    <3> QED
      BY <2>1, <3>1, SeedTaken
  <2>3. SeedIn(rest, r, now)'
    BY <2>2, SeedStays DEF Stepping
  <2> QED
    BY <2>1, <2>3
<1>4. SeedToCome(c)'
  <2>1. ASSUME NEW i \in DOMAIN inbox'[c] PROVE \E k \in DOMAIN inbox[c] : inbox[c][k] = inbox'[c][i]
    <3>1. CASE inbox'[c] = inbox[c]
      BY <2>1, <3>1
    <3>2. CASE inbox[c] # <<>> /\ inbox'[c] = Tail(inbox[c])
      BY <1>1, <2>1, <3>2, TakenFrom
    <3> QED
      BY <3>1, <3>2
  <2>2. \A t : GivenAt(c, t)' => GivenAt(c, t)
    BY <2>1 DEF GivenAt
  <2> QED
    BY <2>2, SeedToComeStays DEF Agreed, Stepping
<1> QED
  BY <1>2, <1>3, <1>4 DEF Agreed

LEMMA RulingsAgreed ==
  ASSUME ~LeaveMidJoin, Stepping, NEW c \in Client, Agreed(c), ReceiveRuling(c) \/ ReplayStash(c)
  PROVE  Agreed(c)'
<1>1. inbox \in [Client -> Seq(Msg)]
  BY DEF Stepping, IInv, TInv, NetTypes
<1>2. /\ stage' = stage /\ given' = given /\ clock' = clock /\ ran' = ran
      /\ joinedAt' = joinedAt /\ roster' = roster
      /\ inbox'[c] = inbox[c] \/ (inbox[c] # <<>> /\ inbox'[c] = Tail(inbox[c]))
  BY <1>1 DEF ReceiveRuling, ReplayStash, hostVars, netVars
<1> QED
  BY <1>2, TakesAgreed

LEMMA ParticipantsAgreed ==
  ASSUME ~LeaveMidJoin, Stepping, NEW c \in Client, Agreed(c), ReceiveParticipants(c)
  PROVE  Agreed(c)'
<1> DEFINE m == Head(inbox[c])
           seed == SeededBy(m.joins, clock[c])
<1>1. /\ inbox[c] # <<>> /\ inbox'[c] = Tail(inbox[c]) /\ m.type = "participants" /\ inbox[c] \in Seq(Msg)
      /\ clock'[c] = clock[c] /\ stage'[c] = stage[c] /\ given'[c] = given[c] /\ ran'[c] = ran[c]
      /\ joinedAt'[c] = joinedAt[c] /\ roster'[c] = roster[c] \cup seed
      /\ 1 \in DOMAIN inbox[c] /\ inbox[c][1] = m
  <2>1. /\ inbox \in [Client -> Seq(Msg)] /\ roster \in [Peer -> SUBSET Peer] /\ c \in Peer
        /\ inbox[c] # <<>> /\ m.type = "participants"
        /\ roster' = [roster EXCEPT ![c] = roster[c] \cup seed] /\ inbox' = [inbox EXCEPT ![c] = Tail(inbox[c])]
        /\ UNCHANGED <<clock, stage, given, ran, joinedAt>>
    BY Constants DEF ReceiveParticipants, Stepping, IInv, TInv, NetTypes, LogTypes, hostVars, clientVars
  <2>2. inbox[c] \in Seq(Msg)
    BY <2>1
  <2> HIDE DEF seed
  <2> QED
    BY <2>1, <2>2
<1> HIDE DEF m
<1>2. CASE ~Names(m)
  <2>1. seed = {}
    <3>1. Newcomers(m)
      BY <1>1, <1>2 DEF Names, Newcomers
    <3>2. \A j \in m.joins : clock[c] < j[2]
      BY <1>1, <3>1 DEF Stepping, InStep, Ahead, NewcomersAhead, Before
    <3>3. m \in Msg
      BY <1>1
    <3>4. m.joins \subseteq Peer \X Nat
      BY <1>1, <3>3 DEF Msg, RulingMsg
    <3>5. clock[c] \in Nat
      BY HeardIsPast DEF Stepping
    <3>6. \A j \in m.joins : ~(j[2] <= clock[c])
      <4>1. \A j \in m.joins : j[2] \in Nat
        BY <3>4
      <4> QED
        BY <3>2, <3>5, <4>1
    <3> QED
      BY <3>6 DEF SeededBy
  <2> QED
    BY <1>1, <2>1, TakesAgreed
<1>3. CASE Names(m)
  <2>1. PICK box, r, now, new, rest :
          box = inbox[c] /\ r = roster[c] /\ now = clock[c] /\ new = seed /\ rest = Tail(inbox[c])
    BY Zenon
  <2>2. box \in Seq(Msg) /\ box # <<>> /\ SeedIn(box, r, now) /\ Names(Head(box))
    BY <1>1, <1>3, <2>1 DEF Agreed, m
  <2>3. r = {} /\ Agrees(new, now)
    BY <1>1, <1>3, <2>1, <2>2 DEF SeedIn
  <2>4. \A i \in DOMAIN rest : ~Names(rest[i])
    BY <2>1, <2>2, SeedTaken, Zenon
  <2>5. joinedAt[c] # None
    BY <1>1, <1>3 DEF Stepping, LetIn, StrangersAreSilent, Names
  <2>6. Agrees(new, now)'
    BY <2>3, AgreesStay DEF Stepping
  <2>7. RosterOf(c)'
    <3>1. roster'[c] = new
      BY <1>1, <2>1, <2>3
    <3> QED
      BY <1>1, <2>1, <2>5, <2>6, <3>1, Zenon DEF RosterOf
  <2>8. SeedIn(inbox[c], roster[c], clock[c])'
    BY <1>1, <2>1, <2>4 DEF SeedIn, Names, NamesHost
  <2>9. SeedToCome(c)' /\ RanAsHost(c)'
    BY <1>1, <2>5, RanStays DEF SeedToCome, Agreed, Stepping
  <2> QED
    BY <2>7, <2>8, <2>9 DEF Agreed
<1> QED
  BY <1>2, <1>3

LEMMA SnapshotAgreed ==
  ASSUME ~LeaveMidJoin, Stepping, NEW c \in Client, Agreed(c), ReceiveSnapshot(c)
  PROVE  Agreed(c)'
<1>1. /\ inbox[c] # <<>> /\ inbox'[c] = Tail(inbox[c]) /\ Head(inbox[c]).type = "snapshot"
      /\ inbox[c] \in Seq(Msg) /\ clock'[c] = clock[c] /\ stage'[c] = "given"
      /\ given'[c] = Head(inbox[c]).tick /\ ran'[c] = ran[c] /\ joinedAt'[c] = joinedAt[c]
      /\ roster'[c] = roster[c] /\ 1 \in DOMAIN inbox[c] /\ inbox[c][1] = Head(inbox[c])
  BY DEF ReceiveSnapshot, Stepping, IInv, TInv, NetTypes, ClientTypes, hostVars, worldVars
<1>2. RosterOf(c)' /\ RanAsHost(c)'
  BY <1>1, RosterStays, RanStays DEF Agreed, Stepping, RosterOf
<1>3. SeedIn(inbox[c], roster[c], clock[c])'
  <2>1. PICK box, r, now, rest : box = inbox[c] /\ r = roster[c] /\ now = clock[c] /\ rest = Tail(inbox[c])
    BY Zenon
  <2>2. SeedIn(rest, r, now)
    <3>1. box \in Seq(Msg) /\ box # <<>> /\ SeedIn(box, r, now)
      BY <1>1, <2>1 DEF Agreed
    <3> QED
      BY <2>1, <3>1, SeedTaken
  <2>3. SeedIn(rest, r, now)'
    BY <2>2, SeedStays DEF Stepping
  <2> QED
    BY <1>1, <2>1, <2>3
<1>4. SeedToCome(c)'
  <2>1. \A i \in DOMAIN inbox'[c] : \E k \in DOMAIN inbox[c] : inbox[c][k] = inbox'[c][i]
    BY <1>1, TakenFrom
  <2>2. \A t : GivenAt(c, t)' => GivenAt(c, t)
    BY <1>1, <2>1 DEF GivenAt
  <2> QED
    BY <1>1, <2>2, SeedToComeStays DEF Agreed, Stepping
<1> QED
  BY <1>2, <1>3, <1>4 DEF Agreed

LEMMA LoadedAgreed ==
  ASSUME ~LeaveMidJoin, Stepping, NEW c \in Client, Agreed(c), ApplySnapshot(c)
  PROVE  Agreed(c)'
<1> USE Constants
<1>1. /\ stage[c] = "given" /\ stage'[c] = "loaded" /\ clock'[c] = given[c] /\ inbox' = inbox
      /\ roster' = roster /\ joinedAt' = joinedAt /\ DOMAIN ran'[c] = {}
  BY DEF ApplySnapshot, Stepping, IInv, TInv, HostTypes, ClientTypes, HistoryTypes, hostVars, Empty
<1>2. joinedAt[c] = None
  BY <1>1 DEF Stepping, LetIn, JoinersHaveLoaded
<1>3. roster[c] = {} /\ \A i \in DOMAIN inbox[c] : ~Names(inbox[c][i])
  BY <1>2 DEF Agreed, RosterOf, Stepping, LetIn, StrangersAreSilent, Names
<1>4. RosterOf(c)' /\ SeedIn(inbox[c], roster[c], clock[c])'
  BY <1>1, <1>3 DEF RosterOf, SeedIn, Names, NamesHost
<1>5. RanAsHost(c)'
  BY <1>1 DEF RanAsHost
<1>6. SeedToCome(c)'
  <2>1. \A t : GivenAt(c, t)' => GivenAt(c, t)
    BY <1>1 DEF GivenAt
  <2> QED
    BY <1>2, <2>1, SeedToComeStays DEF Agreed, Stepping
<1> QED
  BY <1>4, <1>5, <1>6 DEF Agreed

(* A client's tick comes to the host's roster, whatever it stood on.         *)
LEMMA PassAgreed ==
  ASSUME Stepping, NEW c \in Client, Agreed(c), ClientPass(c)
  PROVE  Agreed(c)'
<1> USE Constants
<1>1. PICK now, next, r, log : now = clock[c] /\ next = clock[c] + 1 /\ r = roster[c] /\ log = ran[c]
  OBVIOUS
<1>2. /\ Host \in r /\ next \in DOMAIN tracker[c] /\ inbox' = inbox /\ joinedAt' = joinedAt /\ stage' = stage
      /\ clock'[c] = next /\ clock'[Host] = clock[Host] /\ ran'[Host] = ran[Host]
      /\ roster'[c] = RosterAfter(r, SystemOf(c, next)) /\ clock[Host] \in Nat /\ now \in Nat
      /\ \E x : ran'[c] = Put(log, next, x) /\ x.roster = roster'[c]
  <2>1. /\ DOMAIN clock = Peer /\ DOMAIN roster = Peer /\ DOMAIN ran = Peer /\ c # Host
        /\ clock[Host] \in Nat /\ now \in Nat
    BY <1>1, HeardIsPast DEF Stepping, IInv, TInv, HostTypes, LogTypes, HistoryTypes
  <2>2. /\ Host \in r /\ next \in DOMAIN tracker[c] /\ inbox' = inbox /\ joinedAt' = joinedAt /\ stage' = stage
        /\ RunTick(c, next, tracker[c][next], SystemOf(c, next))
    BY <1>1 DEF ClientPass, MayRun, hostVars
  <2>3. PICK x : /\ ran' = [ran EXCEPT ![c] = Put(ran[c], next, x)]
                 /\ x.roster = RosterAfter(roster[c], SystemOf(c, next))
                 /\ clock' = [clock EXCEPT ![c] = next]
                 /\ roster' = [roster EXCEPT ![c] = RosterAfter(roster[c], SystemOf(c, next))]
    BY <2>2, Zenon DEF RunTick, Ran
  <2> QED
    BY <1>1, <2>1, <2>2, <2>3
<1>3. joinedAt[c] # None
  BY <1>1, <1>2 DEF Stepping, LetIn, StrangersAreSilent
<1>4. next \in 1..clock[Host] /\ SystemOf(c, next) = ran[Host][next].system
  BY <1>2 DEF Stepping, IInv, Truth, TrackersAreTrue
<1>5. Agrees(r, now)
  BY <1>1, <1>2 DEF Agreed, RosterOf
<1>6. RosterAfter(r, ran[Host][next].system) = RosterAt(next) /\ Agrees(RosterAt(next), next)
  <2>1. now + 1 = next /\ now + 1 <= clock[Host]
    BY <1>1, <1>2, <1>4
  <2>2. RosterAfter(r, ran[Host][now + 1].system) = RosterAt(now + 1) /\ Agrees(RosterAt(now + 1), now + 1)
    BY <1>5, <2>1, AgreedGoOn DEF Stepping
  <2> QED
    BY <2>1, <2>2
<1>7. PICK q : q = RosterAt(next)
  OBVIOUS
<1>8. roster'[c] = q /\ Agrees(q, next)' /\ \A t : RosterAt(t)' = RosterAt(t)
  BY <1>2, <1>4, <1>6, <1>7, AgreesStay DEF Stepping, RosterAt
<1>9. RosterOf(c)'
  BY <1>2, <1>3, <1>8 DEF RosterOf
<1>10. \A i \in DOMAIN inbox[c] : ~Names(inbox[c][i])
  BY <1>1, <1>2 DEF Agreed, SeedIn
<1>11. SeedIn(inbox[c], roster[c], clock[c])'
  BY <1>2, <1>10 DEF SeedIn, Names, NamesHost
<1>12. SeedToCome(c)'
  BY <1>2, <1>3 DEF SeedToCome
<1>13. RanAsHost(c)'
  <2>1. PICK x : ran'[c] = Put(log, next, x) /\ x.roster = q
    BY <1>2, <1>8
  <2>2. ASSUME NEW t \in DOMAIN ran'[c] PROVE t \in 1..clock'[Host] /\ ran'[c][t].roster = RosterAt(t)'
    <3>1. CASE t = next
      <4>1. ran'[c][t] = x
        BY <2>1, <3>1 DEF Put
      <4> QED
        BY <1>2, <1>4, <1>7, <1>8, <2>1, <3>1, <4>1
    <3>2. CASE t # next
      <4>1. t \in DOMAIN log /\ ran'[c][t] = log[t]
        BY <2>1, <2>2, <3>2 DEF Put
      <4> QED
        BY <1>1, <1>2, <1>8, <4>1 DEF Agreed, RanAsHost
    <3> QED
      BY <3>1, <3>2
  <2> QED
    BY <2>2 DEF RanAsHost
<1> QED
  BY <1>9, <1>11, <1>12, <1>13 DEF Agreed

LEMMA ConnectAgreed ==
  ASSUME Stepping, NEW c \in Client, Agreed(c), Connect(c)
  PROVE  Agreed(c)'
<1> USE Constants
<1>1. /\ stage[c] = "out" /\ stage'[c] = "asking" /\ inbox' = inbox /\ roster' = roster /\ joinedAt' = joinedAt
      /\ DOMAIN ran'[c] = {}
  BY DEF Connect, Stepping, IInv, TInv, ClientTypes, HistoryTypes, hostVars, Empty
<1>2. joinedAt[c] = None /\ roster[c] = {} /\ inbox[c] = <<>> /\ DOMAIN <<>> = {}
  BY <1>1 DEF Stepping, LetIn, JoinersHaveLoaded, Agreed, RosterOf, Told, HandedOnce
<1> QED
  BY <1>1, <1>2 DEF Agreed, RosterOf, SeedIn, SeedToCome, RanAsHost, GivenAt

LEMMA GoneAgreed ==
  ASSUME Stepping, NEW c \in Client, Agreed(c), Depart(c), Disconnect(c)
  PROVE  Agreed(c)'
<1> USE Constants
<1>1. stage'[c] = "out" /\ inbox'[c] = <<>> /\ roster'[c] = {} /\ ran' = ran /\ DOMAIN <<>> = {}
  BY DEF Disconnect, Stepping, IInv, TInv, ClientTypes, NetTypes, LogTypes
<1>2. RanAsHost(c)'
  BY <1>1, RanStays DEF Agreed, Stepping
<1> QED
  BY <1>1, <1>2 DEF Agreed, RosterOf, SeedIn, SeedToCome, GivenAt

LEMMA AgreedInit == Init => \A c \in Client : Agreed(c)
<1> SUFFICES ASSUME Init, NEW c \in Client PROVE Agreed(c)
  OBVIOUS
<1>1. roster[c] = {} /\ inbox[c] = <<>> /\ stage[c] = "out" /\ DOMAIN ran[c] = {} /\ DOMAIN <<>> = {}
  BY Constants DEF Init, Empty
<1> QED
  BY <1>1 DEF Agreed, RosterOf, SeedIn, SeedToCome, RanAsHost, GivenAt

LEMMA AgreedStep ==
  ASSUME ~LeaveMidJoin, Stepping, NEW c \in Client, Agreed(c)
  PROVE  Agreed(c)'
<1>1. IInv /\ [Next]_vars
  BY DEF Stepping
<1> QED
  BY <1>1, ClientSees, HearsAgreed, AnswerAgreed, AcceptAgreed, RulingsAgreed, ParticipantsAgreed, SnapshotAgreed,
     LoadedAgreed, PassAgreed, ConnectAgreed, GoneAgreed

LEMMA RostersInvariant ==
  MenuClock \subseteq {0} /\ ~LeaveMidJoin =>
    (Spec => [](IInv /\ Told /\ LetIn /\ HostRosters /\ InStep /\ \A c \in Client : Agreed(c)))
<1> SUFFICES ASSUME MenuClock \subseteq {0}, ~LeaveMidJoin
             PROVE  Spec => [](IInv /\ Told /\ LetIn /\ HostRosters /\ InStep /\ \A c \in Client : Agreed(c))
  OBVIOUS
<1> DEFINE RInv == HostRosters /\ InStep /\ \A c \in Client : Agreed(c)
<1>1. Init => RInv
  BY HostRostersInit, InStepInit, AgreedInit
<1>2. IInv /\ Told /\ LetIn /\ RInv /\ [Next]_vars => RInv'
  <2> SUFFICES ASSUME IInv, Told, LetIn, RInv, [Next]_vars PROVE RInv'
    OBVIOUS
  <2>1. HostRosters' /\ HostRemembers /\ InStep'
    BY HostRostersStep, InStepStep
  <2>2. Stepping
    BY <2>1 DEF Stepping
  <2> QED
    BY <2>1, <2>2, AgreedStep
<1> HIDE DEF RInv
<1>3. Spec => []RInv
  BY <1>1, <1>2, LetInInvariant, PTL DEF Spec
<1> QED
  BY <1>3, LetInInvariant, PTL DEF RInv

(* A participant has the host's roster at every tick it runs, whether it was  *)
(* told who is there, was told of them one by one, or heard of a departure    *)
(* it had never seen join: apply_received_participants seeds who joined by    *)
(* its clock, and the joins and departures in the rulings do the rest.  It    *)
(* takes that a client's clock is at zero when it connects, and that nobody   *)
(* leaves while a client has its snapshot and is not in.                      *)
THEOREM SameRosters ==
  MenuClock \subseteq {0} /\ ~LeaveMidJoin => (Spec => []RosterAgreement)
<1> SUFFICES ASSUME MenuClock \subseteq {0}, ~LeaveMidJoin PROVE Spec => []RosterAgreement
  OBVIOUS
<1>1. IInv /\ (\A c \in Client : Agreed(c)) => RosterAgreement
  <2> SUFFICES ASSUME IInv, \A c \in Client : Agreed(c),
                      NEW c \in Client, NEW t \in DOMAIN ran[c], t \in DOMAIN ran[Host]
               PROVE  ran[c][t].roster = ran[Host][t].roster
    BY DEF RosterAgreement
  <2>1. ran[c][t].roster = RosterAt(t) /\ t \in 1..clock[Host] /\ clock[Host] \in Nat
    BY PendingIs DEF Agreed, RanAsHost
  <2>2. t # 0
    BY <2>1
  <2> QED
    BY <2>1, <2>2 DEF RosterAt
<1> QED
  BY <1>1, RostersInvariant, PTL

=============================================================================
