-------------------------- MODULE SnapshotStreamProofs --------------------------
(***************************************************************************)
(* Proofs about SnapshotStream, for any components, resources, values,     *)
(* rings, histories and bounds: what a client rebuilds was sent, resources *)
(* the host removed apart, what the host deltas on is held, and no newer   *)
(* word is passed over.                                                    *)
(***************************************************************************)
EXTENDS SnapshotStream, TLAPS, FiniteSetTheorems, WellFoundedInduction

(* A type carried on every packet is the default of SendRates.               *)
NothingIsRated == \A p \in Component : Rate[p] = 1

(* The client keeps at least as many bodies as the host keeps baselines: 64  *)
(* of AuthoritativeHistory against 32 of DeltaPolicy.                        *)
KeepsTheRing == Ring <= Keep

-----------------------------------------------------------------------------
(* THE INVARIANT *)

(* A packet of this connection: a body, or what it says over an earlier one's. *)
IsSent(m, last, at, world) ==
  \E s \in 1..last :
    \/ m = Full(s, at[s], world[at[s]])
    \/ \E b \in 1..(s - 1) : m = DeltaOn(b, s, at[s], Delta(world[at[b]], world[at[s]], s))

HostTypes ==
  /\ tick \in 0..MaxTick /\ word \in [0..tick -> Body] /\ passesHeld \in 0..(HeldEvery - 1)
  /\ listed \in BOOLEAN /\ nackedFull \in BOOLEAN
  /\ seq \in 0..MaxSeq /\ sent \in [1..seq -> 0..tick] /\ lastAck \in 1..MaxSeq \cup {None}

ClientTypes ==
  /\ isClient \in BOOLEAN /\ nack \in BOOLEAN /\ DOMAIN bodies \subseteq 1..MaxSeq
  /\ \A s \in DOMAIN bodies : bodies[s] \in [tick : 0..tick, body : Body]
  /\ pending \in [tick : 0..tick, seq : 1..MaxSeq, body : Body] \cup {None}
  /\ applied \in [tick : 0..tick, body : Body] \cup {None}
  /\ appliedSeq \in 1..MaxSeq \cup {None} /\ lastSentAck \in 1..MaxSeq \cup {None}

LinkTypes ==
  /\ up \subseteq [ack : 1..MaxSeq \cup {None}, nack : BOOLEAN]
  /\ link \in BOOLEAN /\ awaiting \in BOOLEAN /\ faults \in 0..MaxFaults

(* The last packets, one after the other, as they were sent.                 *)
RingIsRecent ==
  /\ ring \in Seq([seq : 1..seq, tick : 0..tick, body : Body]) /\ Len(ring) <= Ring /\ Len(ring) <= seq
  /\ \A i \in DOMAIN ring : LET s == seq - Len(ring) + i
                            IN  ring[i] = [seq |-> s, tick |-> sent[s], body |-> word[sent[s]]]

(* Both ends start anew before the link does.                                *)
EndsForget ==
  /\ link => listed /\ ~awaiting
  /\ ~link => down = {} /\ up = {}
  /\ ~listed => seq = 0 /\ lastAck = None
  /\ awaiting => bodies = <<>> /\ pending = None /\ appliedSeq = None
  /\ ~isClient => up = {} /\ lastAck = None /\ appliedSeq = None

DownIsSent == \A m \in down : IsSent(m, seq, sent, word)

BodiesAreTimed == link => \A s \in DOMAIN bodies : s \in 1..seq /\ bodies[s].tick = sent[s]

(* A packet the client has acknowledged, or would: it is held, or its place  *)
(* was wanted for as many newer ones as are kept.                            *)
HeldOrPast(s) == s \in 1..seq /\ (s \in DOMAIN bodies \/ s + Keep <= seq)

AcksAreHeld ==
  link => /\ pending # None => HeldOrPast(pending.seq)
          /\ appliedSeq # None => HeldOrPast(appliedSeq)
          /\ lastAck # None => HeldOrPast(lastAck)
          /\ \A m \in up : m.ack # None => HeldOrPast(m.ack)

KeptAreFew == Cardinality(DOMAIN bodies) <= Keep

PendingIsNews == pending # None /\ applied # None => pending.tick > applied.tick

IInv == /\ HostTypes /\ ClientTypes /\ LinkTypes /\ RingIsRecent /\ EndsForget /\ DownIsSent
        /\ BodiesAreTimed /\ AcksAreHeld /\ KeptAreFew /\ PendingIsNews

-----------------------------------------------------------------------------
(* NUMBERS, SEQUENCES AND RECORDS *)

LEMMA LeastNumber ==
  ASSUME NEW T \in SUBSET Nat, T # {}
  PROVE  Min(T) \in T /\ \A k \in T : Min(T) <= k
<1> DEFINE R == OpToRel(<, Nat)
<1>1. IsWellFoundedOn(R, Nat)
  BY NatLessThanWellFounded
<1> HIDE DEF R
<1>2. PICK m \in T : \A k \in T : ~(<<k, m>> \in R)
  BY <1>1, WFMin
<1>3. \A k \in T : ~(k < m)
  BY <1>2 DEF R, OpToRel
<1>4. \A k \in T : m <= k
  BY <1>3
<1> QED
  BY <1>4 DEF Min

LEMMA SeqOfThese ==
  ASSUME NEW S, NEW T, NEW s \in Seq(S), \A i \in DOMAIN s : s[i] \in T
  PROVE  s \in Seq(T)
OBVIOUS

(* Of more numbers than are kept the least is far from the last.             *)
LEMMA LeastIsPast ==
  ASSUME NEW q \in Nat, NEW T \in SUBSET (1..q), NEW k \in Nat, Cardinality(T) > k
  PROVE  T # {} /\ Min(T) + k <= q
<1> DEFINE m == Min(T)
<1>1. IsFiniteSet(T) /\ Cardinality(T) \in Nat
  <2>1. IsFiniteSet(1..q)
    BY FS_Interval
  <2> QED
    BY <2>1, FS_Subset, FS_CardinalityType
<1>2. T # {}
  BY <1>1, FS_EmptySet
<1>3. m \in T /\ \A x \in T : m <= x
  BY <1>2, LeastNumber
<1> HIDE DEF m
<1>4. m \in 1..q /\ T \in SUBSET (m..q)
  BY <1>3
<1>5. IsFiniteSet(m..q) /\ Cardinality(m..q) = q - m + 1
  BY <1>4, FS_Interval
<1>6. Cardinality(T) <= q - m + 1
  <2> DEFINE U == m..q
  <2>1. IsFiniteSet(U) /\ T \in SUBSET U /\ Cardinality(U) = q - m + 1
    BY <1>4, <1>5
  <2> HIDE DEF U
  <2>2. Cardinality(T) <= Cardinality(U)
    BY <2>1, FS_Subset
  <2> QED
    BY <2>1, <2>2
<1>7. m + k <= q
  <2> DEFINE c == Cardinality(T)
  <2>1. c \in Nat /\ m \in Nat /\ c <= q - m + 1 /\ c > k
    BY <1>1, <1>4, <1>6
  <2> HIDE DEF c
  <2> QED
    BY <2>1
<1> QED
  BY <1>2, <1>7 DEF m

-----------------------------------------------------------------------------
(* DELTAS AND PACKETS *)

(* What is rebuilt from a body is a body.                                    *)
LEMMA RebuiltIsBody ==
  ASSUME NEW base \in Body, NEW old \in Body, NEW body \in Body, NEW s
  PROVE  Rebuilt(base, Delta(old, body, s)) \in Body
BY DEF Rebuilt, Delta, Body

(* With every component on every packet, what a delta says of a part it puts *)
(* right over any body; the rest, and a resource that is gone, it leaves.    *)
LEMMA DeltaSays ==
  ASSUME NothingIsRated, NEW base \in Body, NEW old \in Body, NEW body \in Body, NEW s \in Nat, NEW p \in Part
  PROVE  Rebuilt(base, Delta(old, body, s))[p] =
           IF old[p] = body[p] \/ (body[p] = Absent /\ p \notin Component) THEN base[p] ELSE body[p]
<1> DEFINE d == Delta(old, body, s)
<1>1. Carries(p, s)
  BY DEF NothingIsRated, Carries
<1>2. p \in DOMAIN d.changed <=> body[p] # Absent /\ old[p] # body[p]
  BY <1>1 DEF Delta
<1>3. p \in DOMAIN d.changed => d.changed[p] = body[p]
  BY DEF Delta
<1>4. p \in d.gone <=> p \in Component /\ old[p] # Absent /\ body[p] = Absent
  BY DEF Delta
<1> HIDE DEF d
<1>5. Rebuilt(base, d)[p] =
        IF p \in DOMAIN d.changed THEN d.changed[p] ELSE IF p \in d.gone THEN Absent ELSE base[p]
  BY DEF Rebuilt
<1> QED
  BY <1>2, <1>3, <1>4, <1>5 DEF d

(* A packet stays one that was sent while the session goes on.               *)
LEMMA SentStays ==
  ASSUME NEW q \in Nat, NEW q2 \in Nat, q <= q2, NEW at, NEW at2, NEW world, NEW world2,
         \A s \in 1..q : at2[s] = at[s] /\ world2[at[s]] = world[at[s]],
         NEW m, IsSent(m, q, at, world)
  PROVE  IsSent(m, q2, at2, world2)
<1>1. PICK s \in 1..q :
        \/ m = Full(s, at[s], world[at[s]])
        \/ \E b \in 1..(s - 1) : m = DeltaOn(b, s, at[s], Delta(world[at[b]], world[at[s]], s))
  BY DEF IsSent
<1>2. s \in 1..q2 /\ at2[s] = at[s] /\ world2[at2[s]] = world[at[s]]
  OBVIOUS
<1>3. CASE m = Full(s, at[s], world[at[s]])
  BY <1>2, <1>3 DEF IsSent
<1>4. CASE \E b \in 1..(s - 1) : m = DeltaOn(b, s, at[s], Delta(world[at[b]], world[at[s]], s))
  <2>1. PICK b \in 1..(s - 1) : m = DeltaOn(b, s, at[s], Delta(world[at[b]], world[at[s]], s))
    BY <1>4
  <2>2. b \in 1..(s - 1) /\ at2[b] = at[b] /\ world2[at2[b]] = world[at[b]]
    <3>1. b \in 1..q
      OBVIOUS
    <3> QED
      BY <3>1
  <2>3. m = DeltaOn(b, s, at2[s], Delta(world2[at2[b]], world2[at2[s]], s))
    BY <1>2, <2>1, <2>2
  <2> QED
    BY <1>2, <2>2, <2>3 DEF IsSent
<1> QED
  BY <1>1, <1>3, <1>4

-----------------------------------------------------------------------------
(* THE HOST *)

LEMMA PushedIs ==
  ASSUME NEW S, ring \in Seq(S), NEW b \in S, Len(ring) <= Ring
  PROVE  /\ Pushed(b) \in Seq(S) /\ Len(Pushed(b)) <= Ring /\ Len(Pushed(b)) <= Len(ring) + 1
         /\ \A i \in DOMAIN Pushed(b) :
              \/ i = Len(Pushed(b)) /\ Pushed(b)[i] = b
              \/ /\ i + (Len(ring) + 1 - Len(Pushed(b))) \in DOMAIN ring
                 /\ Pushed(b)[i] = ring[i + (Len(ring) + 1 - Len(Pushed(b)))]
<1> DEFINE longer == Append(ring, b)
<1>1. /\ longer \in Seq(S) /\ Len(longer) = Len(ring) + 1 /\ Len(ring) \in Nat /\ DOMAIN ring = 1..Len(ring)
      /\ longer[Len(ring) + 1] = b /\ \A i \in 1..Len(ring) : longer[i] = ring[i]
  OBVIOUS
<1>2. Ring \in Nat \ {0}
  BY StreamAssumption
<1>3. Pushed(b) = IF Len(longer) > Ring THEN Tail(longer) ELSE longer
  BY DEF Pushed
<1> HIDE DEF longer
<1>4. CASE Len(longer) > Ring
  <2>1. Pushed(b) = Tail(longer)
    BY <1>3, <1>4
  <2>2. /\ Tail(longer) \in Seq(S) /\ Len(Tail(longer)) = Len(ring)
        /\ DOMAIN Tail(longer) = 1..Len(ring) /\ \A i \in 1..Len(ring) : Tail(longer)[i] = longer[i + 1]
    BY <1>1
  <2> QED
    BY <1>1, <1>2, <2>1, <2>2
<1>5. CASE ~(Len(longer) > Ring)
  <2>1. Pushed(b) = longer /\ DOMAIN longer = 1..(Len(ring) + 1)
    BY <1>1, <1>3, <1>5
  <2> QED
    BY <1>1, <1>2, <1>5, <2>1
<1> QED
  BY <1>4, <1>5

(* What the packet is that is sent: a body or what it says over one of the   *)
(* ring.                                                                     *)
Packet(m, s, t, body) ==
  \/ m = Full(s, t, body)
  \/ \E i \in DOMAIN ring : m = DeltaOn(ring[i].seq, s, t, Delta(ring[i].body, body, s))

LEMMA PacketIs ==
  ASSUME IInv, listed, NEW t, NEW body, Send(t, body)
  PROVE  /\ seq < MaxSeq /\ seq' = seq + 1 /\ nackedFull' \in BOOLEAN
         /\ ring' = Pushed([seq |-> seq + 1, tick |-> t, body |-> body])
         /\ sent' = Put(sent, seq + 1, t)
         /\ \/ down' = down
            \/ \E m : link /\ down' = down \cup {m} /\ Packet(m, seq + 1, t, body)
<1>1. nackedFull \in BOOLEAN /\ seq \in Nat
  BY DEF IInv, HostTypes
<1>2. /\ seq < MaxSeq /\ seq' = seq + 1 /\ nackedFull' \in BOOLEAN
      /\ ring' = Pushed([seq |-> seq + 1, tick |-> t, body |-> body]) /\ sent' = Put(sent, seq + 1, t)
  BY <1>1 DEF Send
<1>3. CASE ~link
  BY <1>2, <1>3 DEF Send
<1>4. CASE link
  <2>1. CASE Baseline = {} \/ (seq + 1) % KeyframeEvery = 0 \/ nackedFull
    <3>1. down' = down \cup {Full(seq + 1, t, body)}
      BY <1>1, <1>4, <2>1 DEF Send
    <3> QED
      BY <1>2, <1>4, <3>1 DEF Packet
  <2>2. CASE Baseline # {} /\ ~((seq + 1) % KeyframeEvery = 0) /\ ~nackedFull
    <3> DEFINE b == CHOOSE x \in Baseline : TRUE
    <3>1. b \in Baseline
      BY <2>2
    <3>2. down' = down \cup {DeltaOn(b.seq, seq + 1, t, Delta(b.body, body, seq + 1))}
      BY <1>1, <1>4, <2>2 DEF Send
    <3> HIDE DEF b
    <3>3. PICK i \in DOMAIN ring : b = ring[i]
      BY <3>1 DEF Baseline, BaselineOf, ToSet
    <3> QED
      BY <1>2, <1>4, <3>2, <3>3 DEF Packet
  <2> QED
    BY <2>1, <2>2
<1> QED
  BY <1>3, <1>4

(* A pass of the host, on a tick it has run or is in: whether it is told or  *)
(* not, the ring holds the last packets and what is on the link was sent.    *)
LEMMA HostPass ==
  ASSUME IInv, NEW t \in {tick, tick + 1}, t \in 0..MaxTick, NEW body \in Body,
         tick' = t, word' \in [0..t -> Body], word'[t] = body, \A u \in 0..tick : word'[u] = word[u],
         passesHeld' \in 0..(HeldEvery - 1),
         Broadcast(t, body) \/ UNCHANGED <<seq, nackedFull, ring, sent, down>>,
         UNCHANGED <<listed, lastAck, clientVars, up, link, awaiting, faults>>
  PROVE  /\ IInv' /\ bodies' = bodies /\ link' = link /\ seq' \in Nat /\ seq' >= seq
         /\ \A s \in 1..seq : sent'[s] = sent[s] /\ word'[sent[s]] = word[sent[s]]
<1>1. /\ tick \in Nat /\ tick <= t /\ t \in Nat /\ seq \in Nat /\ seq <= MaxSeq /\ MaxSeq \in Nat
      /\ word \in [0..tick -> Body] /\ sent \in [1..seq -> 0..tick]
  <2>1. /\ tick \in 0..MaxTick /\ seq \in 0..MaxSeq /\ word \in [0..tick -> Body] /\ sent \in [1..seq -> 0..tick]
    BY DEF IInv, HostTypes
  <2>2. MaxSeq \in Nat /\ MaxTick \in Nat
    BY StreamAssumption
  <2> QED
    BY <2>1, <2>2
<1>2. /\ seq' \in 0..MaxSeq /\ seq <= seq' /\ sent' \in [1..seq' -> 0..t] /\ nackedFull' \in BOOLEAN
      /\ \A s \in 1..seq : sent'[s] = sent[s] /\ word'[sent'[s]] = word[sent[s]]
  <2>1. CASE UNCHANGED <<seq, nackedFull, ring, sent, down>>
    <3>1. sent' \in [1..seq' -> 0..t]
      BY <1>1, <2>1
    <3> QED
      BY <1>1, <2>1, <3>1 DEF IInv, HostTypes
  <2>2. CASE Broadcast(t, body) /\ ~UNCHANGED <<seq, nackedFull, ring, sent, down>>
    <3>1. listed /\ Send(t, body)
      BY <2>2 DEF Broadcast
    <3>2. seq < MaxSeq /\ seq' = seq + 1 /\ nackedFull' \in BOOLEAN /\ sent' = Put(sent, seq + 1, t)
      BY <3>1, PacketIs
    <3>3. /\ DOMAIN sent' = 1..(seq + 1) /\ sent'[seq + 1] = t
          /\ \A s \in 1..seq : sent'[s] = sent[s]
      <4> DEFINE last == seq + 1
      <4>1. DOMAIN sent \cup {last} = 1..last /\ \A s \in 1..seq : s \in DOMAIN sent /\ s # last
        BY <1>1
      <4>2. sent' = Put(sent, last, t)
        BY <3>2
      <4> HIDE DEF last
      <4>3. DOMAIN sent' = 1..last /\ sent'[last] = t /\ \A s \in 1..seq : sent'[s] = sent[s]
        BY <4>1, <4>2 DEF Put
      <4> QED
        BY <4>3 DEF last
    <3>4. sent' = [s \in DOMAIN sent' |-> sent'[s]]
      BY <3>2 DEF Put
    <3>5. \A s \in 1..(seq + 1) : sent'[s] \in 0..t
      BY <1>1, <3>3
    <3>6. sent' \in [1..(seq + 1) -> 0..t]
      BY <3>3, <3>4, <3>5
    <3>7. seq' \in 0..MaxSeq /\ seq <= seq'
      BY <1>1, <3>2
    <3>8. \A s \in 1..seq : word'[sent'[s]] = word[sent[s]]
      BY <1>1, <3>3
    <3> QED
      BY <3>2, <3>3, <3>6, <3>7, <3>8
  <2> QED
    BY <2>1, <2>2
<1>3. HostTypes'
  BY <1>2 DEF IInv, HostTypes
<1>4. ClientTypes'
  <2>1. \A x : x \in 0..tick => x \in 0..t
    BY <1>1
  <2>2. /\ bodies' = bodies /\ pending' = pending /\ applied' = applied
        /\ isClient' = isClient /\ nack' = nack /\ appliedSeq' = appliedSeq /\ lastSentAck' = lastSentAck
    BY DEF clientVars
  <2> QED
    BY <2>1, <2>2 DEF IInv, ClientTypes
<1>5. LinkTypes'
  BY DEF IInv, LinkTypes
<1>6. RingIsRecent'
  <2>1. CASE UNCHANGED <<seq, nackedFull, ring, sent, down>>
    <3>1. \A i \in DOMAIN ring : seq - Len(ring) + i \in 1..seq
      BY <1>1 DEF IInv, RingIsRecent
    <3>2. \A s \in 1..seq : sent[s] \in 0..tick
      BY <1>1
    <3> DEFINE R == [seq : 1..seq, tick : 0..t, body : Body]
    <3>3. \A i \in DOMAIN ring : ring[i] \in R
      <4>1. \A i \in DOMAIN ring : ring[i] \in [seq : 1..seq, tick : 0..tick, body : Body]
        BY DEF IInv, RingIsRecent
      <4>2. \A x : x \in 0..tick => x \in 0..t
        BY <1>1
      <4> QED
        BY <4>1, <4>2
    <3>4. ring \in Seq(R)
      <4> HIDE DEF R
      <4> QED
        BY <3>3, SeqOfThese DEF IInv, RingIsRecent
    <3>5. \A i \in DOMAIN ring' :
            LET s == seq' - Len(ring') + i IN ring'[i] = [seq |-> s, tick |-> sent'[s], body |-> word'[sent'[s]]]
      <4> SUFFICES ASSUME NEW i \in DOMAIN ring
                   PROVE  LET s == seq - Len(ring) + i
                          IN  ring[i] = [seq |-> s, tick |-> sent'[s], body |-> word'[sent'[s]]]
        BY <2>1
      <4> DEFINE s == seq - Len(ring) + i
      <4>1. s \in 1..seq
        BY <3>1
      <4>2. ring[i] = [seq |-> s, tick |-> sent[s], body |-> word[sent[s]]]
        BY DEF IInv, RingIsRecent
      <4> HIDE DEF s
      <4>3. sent'[s] = sent[s] /\ word'[sent'[s]] = word[sent[s]]
        BY <1>2, <4>1
      <4>4. ring[i] = [seq |-> s, tick |-> sent'[s], body |-> word'[sent'[s]]]
        BY <4>2, <4>3
      <4> QED
        BY <4>4 DEF s
    <3>6. ring' \in Seq([seq : 1..seq', tick : 0..tick', body : Body])
      BY <2>1, <3>4
    <3>7. Len(ring') <= Ring /\ Len(ring') <= seq'
      BY <2>1 DEF IInv, RingIsRecent
    <3> QED
      BY <3>5, <3>6, <3>7 DEF RingIsRecent
  <2>2. CASE Broadcast(t, body) /\ ~UNCHANGED <<seq, nackedFull, ring, sent, down>>
    <3> DEFINE last == seq + 1
               b == [seq |-> last, tick |-> t, body |-> body]
               r == Pushed(b)
               R == [seq : 1..last, tick : 0..t, body : Body]
    <3>1. listed /\ Send(t, body)
      BY <2>2 DEF Broadcast
    <3>2. seq' = last /\ sent' = Put(sent, last, t) /\ ring' = r
      BY <3>1, PacketIs
    <3>3. sent'[last] = t
      <4> HIDE DEF last
      <4> QED
        BY <3>2 DEF Put
    <3>4. ring \in Seq(R) /\ b \in R /\ Len(ring) <= Ring /\ Len(ring) <= seq /\ Len(ring) \in Nat
      <4>1. \A i \in DOMAIN ring : ring[i] \in [seq : 1..seq, tick : 0..tick, body : Body]
        BY DEF IInv, RingIsRecent
      <4>2. \A x : (x \in 0..tick => x \in 0..t) /\ (x \in 1..seq => x \in 1..last)
        BY <1>1
      <4>3. \A i \in DOMAIN ring : ring[i] \in R
        BY <4>1, <4>2
      <4>4. b \in R
        BY <1>1
      <4>5. ring \in Seq([seq : 1..seq, tick : 0..tick, body : Body]) /\ Len(ring) <= Ring /\ Len(ring) <= seq
        BY DEF IInv, RingIsRecent
      <4> HIDE DEF R, b
      <4>6. ring \in Seq(R)
        BY <4>3, <4>5, SeqOfThese
      <4> QED
        BY <4>4, <4>5, <4>6
    <3> HIDE DEF R
    <3>5. /\ r \in Seq(R) /\ Len(r) <= Ring /\ Len(r) <= Len(ring) + 1
          /\ \A i \in DOMAIN r :
               \/ i = Len(r) /\ r[i] = b
               \/ /\ i + (Len(ring) + 1 - Len(r)) \in DOMAIN ring
                  /\ r[i] = ring[i + (Len(ring) + 1 - Len(r))]
      BY <3>4, PushedIs
    <3>6. ASSUME NEW i \in DOMAIN r
          PROVE  LET s == last - Len(r) + i IN r[i] = [seq |-> s, tick |-> sent'[s], body |-> word'[sent'[s]]]
      <4>1. Len(r) \in Nat /\ i \in 1..Len(r)
        BY <3>5
      <4>2. CASE i = Len(r) /\ r[i] = b
        <5> HIDE DEF r
        <5>1. last - Len(r) + i = last
          BY <1>1, <4>1, <4>2
        <5> QED
          BY <3>3, <4>2, <5>1
      <4>3. CASE i + (Len(ring) + 1 - Len(r)) \in DOMAIN ring /\ r[i] = ring[i + (Len(ring) + 1 - Len(r))]
        <5> DEFINE j == i + (Len(ring) + 1 - Len(r))
        <5> HIDE DEF r
        <5>1. last - Len(r) + i = seq - Len(ring) + j /\ seq - Len(ring) + j \in 1..seq
          <6> DEFINE a == Len(ring)
                     n == Len(r)
          <6>1. j \in 1..a
            BY <3>4, <4>3
          <6>2. a \in Nat /\ a <= seq /\ n \in Nat /\ i \in Nat /\ seq \in Nat
            BY <1>1, <3>4, <4>1
          <6>3. j = i + (a + 1 - n) /\ last = seq + 1
            OBVIOUS
          <6> HIDE DEF a, n, j, last
          <6>4. last - n + i = seq - a + j /\ seq - a + j \in 1..seq
            BY <6>1, <6>2, <6>3
          <6> QED
            BY <6>4 DEF a, n
        <5>2. j \in DOMAIN ring /\ r[i] = ring[j]
          BY <4>3
        <5> HIDE DEF j, last
        <5> DEFINE s == seq - Len(ring) + j
        <5>3. ring[j] = [seq |-> s, tick |-> sent[s], body |-> word[sent[s]]]
          BY <5>2 DEF IInv, RingIsRecent
        <5>4. sent'[s] = sent[s] /\ word'[sent'[s]] = word[sent[s]]
          BY <1>2, <5>1
        <5>5. last - Len(r) + i = s
          BY <5>1
        <5> HIDE DEF s
        <5> QED
          BY <5>2, <5>3, <5>4, <5>5
      <4> QED
        BY <3>5, <4>2, <4>3
    <3> HIDE DEF r, b
    <3>7. Len(r) <= last
      BY <1>1, <3>4, <3>5
    <3>8. \A i \in DOMAIN ring' :
            LET s == seq' - Len(ring') + i IN ring'[i] = [seq |-> s, tick |-> sent'[s], body |-> word'[sent'[s]]]
      BY <3>2, <3>6
    <3>9. ring' \in Seq([seq : 1..seq', tick : 0..tick', body : Body])
      BY <3>2, <3>5 DEF R
    <3> QED
      BY <3>2, <3>5, <3>7, <3>8, <3>9 DEF RingIsRecent
  <2> QED
    BY <2>1, <2>2
<1>7. EndsForget'
  <2>1. CASE UNCHANGED <<seq, nackedFull, ring, sent, down>>
    BY <2>1 DEF IInv, EndsForget, clientVars
  <2>2. CASE listed /\ Send(t, body)
    <3>1. ~link => down' = down
      BY <2>2 DEF Send
    <3> QED
      BY <2>2, <3>1 DEF IInv, EndsForget, clientVars
  <2> QED
    BY <2>1, <2>2 DEF Broadcast
<1>8. DownIsSent'
  <2>1. ASSUME NEW m \in down PROVE IsSent(m, seq', sent', word')
    <3>1. IsSent(m, seq, sent, word)
      BY DEF IInv, DownIsSent
    <3>2. seq \in Nat /\ seq' \in Nat /\ seq <= seq'
      BY <1>1, <1>2
    <3>3. \A s \in 1..seq : sent'[s] = sent[s] /\ word'[sent[s]] = word[sent[s]]
      BY <1>2
    <3> QED
      BY <3>1, <3>2, <3>3, SentStays
  <2>2. CASE UNCHANGED <<seq, nackedFull, ring, sent, down>>
    BY <2>1, <2>2 DEF DownIsSent
  <2>3. CASE Broadcast(t, body) /\ ~UNCHANGED <<seq, nackedFull, ring, sent, down>>
    <3>1. listed /\ Send(t, body)
      BY <2>3 DEF Broadcast
    <3>2. seq' = seq + 1 /\ sent' = Put(sent, seq + 1, t)
      BY <3>1, PacketIs
    <3>3. sent'[seq'] = t /\ word'[sent'[seq']] = body /\ seq' \in 1..seq'
      <4>1. sent' = Put(sent, seq', t) /\ seq' \in 1..seq'
        BY <1>1, <3>2
      <4>2. sent'[seq'] = t
        BY <4>1 DEF Put
      <4> QED
        BY <4>1, <4>2
    <3>4. IsSent(Full(seq', t, body), seq', sent', word')
      BY <3>3 DEF IsSent
    <3>5. ASSUME NEW i \in DOMAIN ring
          PROVE  IsSent(DeltaOn(ring[i].seq, seq', t, Delta(ring[i].body, body, seq')), seq', sent', word')
      <4> DEFINE s == seq - Len(ring) + i
      <4>1. ring[i] = [seq |-> s, tick |-> sent[s], body |-> word[sent[s]]]
        BY DEF IInv, RingIsRecent
      <4>2. s \in 1..seq
        BY <1>1 DEF IInv, RingIsRecent
      <4> HIDE DEF s
      <4>3. ring[i].seq = s /\ ring[i].body = word'[sent'[s]] /\ s \in 1..(seq' - 1)
        BY <1>1, <1>2, <3>2, <4>1, <4>2
      <4>4. DeltaOn(ring[i].seq, seq', t, Delta(ring[i].body, body, seq'))
              = DeltaOn(s, seq', sent'[seq'], Delta(word'[sent'[s]], word'[sent'[seq']], seq'))
        BY <3>3, <4>3
      <4> QED
        BY <3>3, <4>3, <4>4 DEF IsSent
    <3>6. down' = down \/ \E m : link /\ down' = down \cup {m} /\ Packet(m, seq', t, body)
      BY <3>1, <3>2, PacketIs
    <3>7. \A m : Packet(m, seq', t, body) => IsSent(m, seq', sent', word')
      BY <3>4, <3>5 DEF Packet
    <3> QED
      BY <2>1, <3>6, <3>7 DEF DownIsSent
  <2> QED
    BY <2>2, <2>3
<1>9. BodiesAreTimed' /\ AcksAreHeld' /\ KeptAreFew' /\ PendingIsNews'
  <2>0. /\ bodies' = bodies /\ pending' = pending /\ applied' = applied /\ appliedSeq' = appliedSeq
        /\ link' = link /\ lastAck' = lastAck /\ up' = up
    BY DEF clientVars
  <2>1. BodiesAreTimed'
    BY <1>1, <1>2, <2>0 DEF IInv, BodiesAreTimed
  <2>2. \A s : HeldOrPast(s) => HeldOrPast(s)'
    BY <1>1, <1>2, <2>0, StreamAssumption DEF HeldOrPast
  <2>3. AcksAreHeld'
    BY <2>0, <2>2 DEF IInv, AcksAreHeld
  <2> QED
    BY <2>0, <2>1, <2>3 DEF IInv, KeptAreFew, PendingIsNews
<1>10. bodies' = bodies /\ link' = link
  BY DEF clientVars
<1>11. IInv'
  BY <1>3, <1>4, <1>5, <1>6, <1>7, <1>8, <1>9 DEF IInv
<1> QED
  BY <1>1, <1>2, <1>10, <1>11

LEMMA HostTickStep ==
  ASSUME IInv, NEW body \in Body, HostTick(body)
  PROVE  /\ IInv' /\ bodies' = bodies /\ link' = link /\ seq' \in Nat /\ seq' >= seq
         /\ \A s \in 1..seq : sent'[s] = sent[s] /\ word'[sent[s]] = word[sent[s]]
<1> DEFINE t == tick + 1
<1>1. tick \in Nat /\ MaxTick \in Nat /\ word \in [0..tick -> Body]
  BY StreamAssumption DEF IInv, HostTypes
<1>2. /\ tick < MaxTick /\ tick' = t /\ word' = Put(word, t, body) /\ passesHeld' = 0
      /\ Broadcast(t, body) \/ UNCHANGED <<seq, nackedFull, ring, sent, down>>
      /\ UNCHANGED <<listed, lastAck, clientVars, up, link, awaiting, faults>>
  BY DEF HostTick
<1>3. t \in {tick, tick + 1} /\ t \in 0..MaxTick /\ 0 \in 0..(HeldEvery - 1)
  BY <1>1, <1>2, StreamAssumption
<1>4. 0..tick \cup {t} = 0..t /\ \A u \in 0..tick : u # t
  BY <1>1
<1> HIDE DEF t
<1>5. word' \in [0..t -> Body] /\ word'[t] = body /\ \A u \in 0..tick : word'[u] = word[u]
  BY <1>1, <1>2, <1>4 DEF Put
<1> QED
  BY <1>2, <1>3, <1>5, HostPass

LEMMA HostHeldPassStep ==
  ASSUME IInv, HostHeldPass
  PROVE  /\ IInv' /\ bodies' = bodies /\ link' = link /\ seq' \in Nat /\ seq' >= seq
         /\ \A s \in 1..seq : sent'[s] = sent[s] /\ word'[sent[s]] = word[sent[s]]
<1> DEFINE body == word[tick]
<1>1. tick \in Nat /\ tick \in 0..MaxTick /\ word \in [0..tick -> Body] /\ body \in Body
  BY DEF IInv, HostTypes
<1>2. passesHeld' \in 0..(HeldEvery - 1)
  <2>1. passesHeld \in Nat /\ HeldEvery \in Nat \ {0} /\ passesHeld' = (passesHeld + 1) % HeldEvery
    BY StreamAssumption DEF IInv, HostTypes, HostHeldPass
  <2> QED
    BY <2>1
<1>3. /\ tick' = tick /\ word' = word
      /\ Broadcast(tick, body) \/ UNCHANGED <<seq, nackedFull, ring, sent, down>>
      /\ UNCHANGED <<listed, lastAck, clientVars, up, link, awaiting, faults>>
  BY DEF HostHeldPass
<1> HIDE DEF body
<1>4. word'[tick] = body /\ word' \in [0..tick -> Body] /\ \A u \in 0..tick : word'[u] = word[u]
  BY <1>1, <1>3 DEF body
<1> QED
  BY <1>1, <1>2, <1>3, <1>4, HostPass

LEMMA HostReceiveStep ==
  ASSUME IInv, NEW m \in up, HostReceive(m)
  PROVE  IInv'
<1>1. /\ m.ack # None /\ listed /\ lastAck' \in {m.ack, lastAck}
      /\ nackedFull' = (nackedFull \/ m.nack)
      /\ UNCHANGED <<hostVars, listed, seq, ring, sent, clientVars, linkVars>>
  BY DEF HostReceive, RecordAck
<1>2. m.ack \in 1..MaxSeq \cup {None} /\ m.nack \in BOOLEAN
  BY DEF IInv, LinkTypes
<1>3. HostTypes'
  BY <1>1, <1>2 DEF IInv, HostTypes, hostVars
<1>4. ClientTypes' /\ LinkTypes' /\ RingIsRecent' /\ DownIsSent' /\ BodiesAreTimed' /\ KeptAreFew' /\ PendingIsNews'
  BY <1>1 DEF IInv, ClientTypes, LinkTypes, RingIsRecent, DownIsSent, BodiesAreTimed, KeptAreFew,
              PendingIsNews, hostVars, clientVars, linkVars
<1>5. isClient
  BY DEF IInv, EndsForget
<1>6. EndsForget'
  BY <1>1, <1>5 DEF IInv, EndsForget, clientVars, linkVars
<1>7. \A s : HeldOrPast(s)' <=> HeldOrPast(s)
  BY <1>1 DEF HeldOrPast, clientVars
<1>8. AcksAreHeld'
  BY <1>1, <1>7 DEF IInv, AcksAreHeld, clientVars, linkVars
<1> QED
  BY <1>3, <1>4, <1>6, <1>8 DEF IInv

-----------------------------------------------------------------------------
(* THE CLIENT *)

LEMMA RecordedIs ==
  ASSUME NEW q \in Nat, DOMAIN bodies \in SUBSET (1..q), Cardinality(DOMAIN bodies) <= Keep,
         NEW s \in 1..q, NEW t, NEW body
  PROVE  /\ DOMAIN Recorded(s, t, body) \subseteq DOMAIN bodies \cup {s}
         /\ \A x \in DOMAIN Recorded(s, t, body) :
              Recorded(s, t, body)[x] = IF x = s THEN [tick |-> t, body |-> body] ELSE bodies[x]
         /\ Cardinality(DOMAIN Recorded(s, t, body)) <= Keep
         /\ \A x \in DOMAIN bodies \cup {s} : x \in DOMAIN Recorded(s, t, body) \/ x + Keep <= q
<1> DEFINE all == Put(bodies, s, [tick |-> t, body |-> body])
           T   == DOMAIN bodies \cup {s}
           r   == Recorded(s, t, body)
<1>1. DOMAIN all = T /\ \A x \in T : all[x] = IF x = s THEN [tick |-> t, body |-> body] ELSE bodies[x]
  BY DEF Put
<1>2. r = IF Cardinality(DOMAIN all) > Keep THEN RestrictDomain(all, LAMBDA x : x # Min(DOMAIN all)) ELSE all
  BY DEF Recorded
<1>3. Keep \in Nat /\ T \in SUBSET (1..q)
  BY StreamAssumption
<1>4. IsFiniteSet(T) /\ Cardinality(T) \in Nat /\ Cardinality(T) <= Keep + 1
  <2>1. IsFiniteSet(1..q)
    BY FS_Interval
  <2>2. IsFiniteSet(DOMAIN bodies) /\ Cardinality(DOMAIN bodies) \in Nat
    BY <2>1, FS_Subset, FS_CardinalityType
  <2>3. Cardinality(T) = IF s \in DOMAIN bodies THEN Cardinality(DOMAIN bodies) ELSE Cardinality(DOMAIN bodies) + 1
    BY <2>2, FS_AddElement
  <2>4. IsFiniteSet(T)
    BY <2>2, FS_AddElement
  <2> QED
    BY <1>3, <2>2, <2>3, <2>4
<1> HIDE DEF all, T, r
<1>5. CASE Cardinality(T) > Keep
  <2> DEFINE least == Min(T)
  <2>1. T # {} /\ least + Keep <= q
    BY <1>3, <1>5, LeastIsPast
  <2>2. least \in T
    BY <1>3, <2>1, LeastNumber
  <2>3. DOMAIN r = T \ {least} /\ \A x \in T \ {least} : r[x] = all[x]
    <3>1. r = RestrictDomain(all, LAMBDA x : x # least)
      BY <1>1, <1>2, <1>5
    <3> HIDE DEF least
    <3> QED
      BY <1>1, <3>1 DEF RestrictDomain, Restrict
  <2> HIDE DEF least
  <2>4. Cardinality(T \ {least}) = Cardinality(T) - 1
    BY <1>4, <2>2, FS_RemoveElement
  <2>5. Cardinality(DOMAIN r) <= Keep
    BY <1>3, <1>4, <2>3, <2>4
  <2> QED
    BY <1>1, <2>1, <2>3, <2>5 DEF r, T
<1>6. CASE ~(Cardinality(T) > Keep)
  <2>1. r = all
    BY <1>1, <1>2, <1>6
  <2>2. Cardinality(DOMAIN r) <= Keep
    BY <1>1, <1>3, <1>4, <1>6, <2>1
  <2> QED
    BY <1>1, <2>1, <2>2 DEF r, T
<1> QED
  BY <1>5, <1>6

(* What a client makes of a packet: it cannot rebuild it and asks for a body, *)
(* or it keeps what it rebuilt.                                              *)
LEMMA ReceivedIs ==
  ASSUME IInv, NEW m \in down, ClientReceive(m)
  PROVE  /\ link /\ m.seq \in 1..seq /\ m.tick = sent[m.seq]
         /\ UNCHANGED <<hostVars, peerVars, isClient, applied, appliedSeq, lastSentAck, linkVars>>
         /\ \/ nack' = TRUE /\ UNCHANGED <<bodies, pending>>
            \/ \E body \in BodyOf(m) :
                 /\ body \in Body /\ nack' = nack /\ bodies' = Recorded(m.seq, m.tick, body)
                 /\ pending' = IF IsNews(m.tick) THEN [tick |-> m.tick, seq |-> m.seq, body |-> body] ELSE pending
<1>1. link /\ IsSent(m, seq, sent, word)
  BY DEF IInv, EndsForget, DownIsSent
<1>2. PICK s \in 1..seq :
        \/ m = Full(s, sent[s], word[sent[s]])
        \/ \E b \in 1..(s - 1) : m = DeltaOn(b, s, sent[s], Delta(word[sent[b]], word[sent[s]], s))
  BY <1>1 DEF IsSent
<1>3. m.seq = s /\ m.tick = sent[s]
  BY <1>2 DEF Full, DeltaOn
<1>4. \A x \in 1..seq : sent[x] \in 0..tick /\ word[sent[x]] \in Body
  BY DEF IInv, HostTypes
<1>5. ASSUME NEW body \in BodyOf(m) PROVE body \in Body
  <2>1. CASE m = Full(s, sent[s], word[sent[s]])
    <3>1. m.kind = "full" /\ m.body = word[sent[s]]
      BY <2>1 DEF Full
    <3> QED
      BY <1>4, <1>5, <3>1 DEF BodyOf
  <2>2. CASE \E b \in 1..(s - 1) : m = DeltaOn(b, s, sent[s], Delta(word[sent[b]], word[sent[s]], s))
    <3>1. PICK b \in 1..(s - 1) : m = DeltaOn(b, s, sent[s], Delta(word[sent[b]], word[sent[s]], s))
      BY <2>2
    <3>2. m.kind # "full" /\ m.base = b /\ m.delta = Delta(word[sent[b]], word[sent[s]], s)
      BY <3>1 DEF DeltaOn
    <3>3. b \in DOMAIN bodies /\ body = Rebuilt(bodies[b].body, m.delta)
      BY <1>5, <3>2 DEF BodyOf
    <3>4. bodies[b].body \in Body
      BY <3>3 DEF IInv, ClientTypes
    <3>5. b \in 1..seq
      <4>1. seq \in Nat
        BY DEF IInv, HostTypes
      <4> QED
        BY <4>1
    <3> QED
      BY <1>4, <3>2, <3>3, <3>4, <3>5, RebuiltIsBody
  <2> QED
    BY <1>2, <2>1, <2>2
<1>6. UNCHANGED <<hostVars, peerVars, isClient, applied, appliedSeq, lastSentAck, linkVars>>
  BY DEF ClientReceive
<1>7. CASE BodyOf(m) = {}
  BY <1>1, <1>3, <1>6, <1>7 DEF ClientReceive
<1>8. CASE BodyOf(m) # {}
  <2> DEFINE body == CHOOSE b \in BodyOf(m) : TRUE
  <2>1. body \in BodyOf(m)
    BY <1>8
  <2>2. /\ nack' = nack /\ bodies' = Recorded(m.seq, m.tick, body)
        /\ pending' = IF IsNews(m.tick) THEN [tick |-> m.tick, seq |-> m.seq, body |-> body] ELSE pending
    BY <1>8 DEF ClientReceive
  <2> HIDE DEF body
  <2> QED
    BY <1>1, <1>3, <1>5, <1>6, <2>1, <2>2
<1> QED
  BY <1>7, <1>8

LEMMA ClientReceiveStep ==
  ASSUME IInv, NEW m \in down, ClientReceive(m)
  PROVE  IInv'
<1>1. /\ link /\ m.seq \in 1..seq /\ m.tick = sent[m.seq]
      /\ UNCHANGED <<hostVars, peerVars, isClient, applied, appliedSeq, lastSentAck, linkVars>>
  BY ReceivedIs
<1>2. HostTypes' /\ LinkTypes' /\ RingIsRecent' /\ DownIsSent'
  BY <1>1 DEF IInv, HostTypes, LinkTypes, RingIsRecent, DownIsSent, hostVars, peerVars, linkVars
<1>3. seq \in 1..MaxSeq /\ m.seq \in 1..MaxSeq /\ m.tick \in 0..tick /\ seq \in Nat
  BY <1>1, StreamAssumption DEF IInv, HostTypes
<1>4. CASE nack' = TRUE /\ UNCHANGED <<bodies, pending>>
  <2>1. ClientTypes' /\ BodiesAreTimed' /\ KeptAreFew' /\ PendingIsNews'
    BY <1>1, <1>4 DEF IInv, ClientTypes, BodiesAreTimed, KeptAreFew, PendingIsNews, hostVars, peerVars, linkVars
  <2>2. EndsForget' /\ AcksAreHeld'
    BY <1>1, <1>4 DEF IInv, EndsForget, AcksAreHeld, HeldOrPast, hostVars, peerVars, linkVars
  <2> QED
    BY <1>2, <2>1, <2>2 DEF IInv
<1>5. ASSUME NEW body \in BodyOf(m), body \in Body, nack' = nack, bodies' = Recorded(m.seq, m.tick, body),
             pending' = IF IsNews(m.tick) THEN [tick |-> m.tick, seq |-> m.seq, body |-> body] ELSE pending
      PROVE  IInv'
  <2>1. /\ DOMAIN bodies' \subseteq DOMAIN bodies \cup {m.seq}
        /\ \A x \in DOMAIN bodies' :
             bodies'[x] = IF x = m.seq THEN [tick |-> m.tick, body |-> body] ELSE bodies[x]
        /\ Cardinality(DOMAIN bodies') <= Keep
        /\ \A x \in DOMAIN bodies \cup {m.seq} : x \in DOMAIN bodies' \/ x + Keep <= seq
    <3>1. DOMAIN bodies \in SUBSET (1..seq) /\ Cardinality(DOMAIN bodies) <= Keep
      BY <1>1 DEF IInv, BodiesAreTimed, KeptAreFew
    <3> QED
      BY <1>1, <1>3, <1>5, <3>1, RecordedIs
  <2>2. pending' \in [tick : 0..tick, seq : 1..MaxSeq, body : Body] \cup {None}
    BY <1>3, <1>5 DEF IInv, ClientTypes
  <2>3. ClientTypes'
    <3>1. DOMAIN bodies' \subseteq 1..MaxSeq
      BY <1>3, <2>1 DEF IInv, ClientTypes
    <3>2. \A x \in DOMAIN bodies' : bodies'[x] \in [tick : 0..tick, body : Body]
      BY <1>3, <1>5, <2>1 DEF IInv, ClientTypes
    <3> QED
      BY <1>1, <1>5, <2>2, <3>1, <3>2 DEF IInv, ClientTypes, hostVars
  <2>4. BodiesAreTimed'
    BY <1>1, <2>1 DEF IInv, BodiesAreTimed, peerVars, linkVars
  <2>5. PendingIsNews'
    <3>1. CASE pending' = pending
      BY <1>1, <3>1 DEF IInv, PendingIsNews
    <3>2. CASE IsNews(m.tick) /\ pending' = [tick |-> m.tick, seq |-> m.seq, body |-> body]
      BY <1>1, <3>2 DEF PendingIsNews, IsNews
    <3> QED
      BY <1>5, <3>1, <3>2
  <2>6. EndsForget'
    BY <1>1 DEF IInv, EndsForget, peerVars, linkVars
  <2>7. \A s : HeldOrPast(s) => HeldOrPast(s)'
    BY <1>1, <2>1 DEF HeldOrPast, peerVars
  <2>8. HeldOrPast(m.seq)'
    BY <1>1, <2>1 DEF HeldOrPast, peerVars
  <2>9. AcksAreHeld'
    <3>1. ASSUME NEW s, pending' # None, pending'.seq = s PROVE HeldOrPast(s)'
      <4>1. CASE pending' = pending
        BY <1>1, <2>7, <3>1, <4>1 DEF IInv, AcksAreHeld
      <4>2. CASE pending' = [tick |-> m.tick, seq |-> m.seq, body |-> body]
        BY <2>8, <3>1, <4>2
      <4> QED
        BY <1>5, <4>1, <4>2
    <3>2. pending' # None =>
            pending'.seq \in 1..seq' /\ (pending'.seq \in DOMAIN bodies' \/ pending'.seq + Keep <= seq')
      BY <3>1 DEF HeldOrPast
    <3>3. /\ appliedSeq' # None => HeldOrPast(appliedSeq)'
          /\ lastAck' # None => HeldOrPast(lastAck)'
          /\ \A x \in up' : x.ack # None => HeldOrPast(x.ack)'
      BY <1>1, <2>7 DEF IInv, AcksAreHeld, peerVars, linkVars
    <3> QED
      BY <3>2, <3>3 DEF AcksAreHeld, HeldOrPast
  <2> QED
    BY <1>2, <2>1, <2>3, <2>4, <2>5, <2>6, <2>9 DEF IInv, KeptAreFew
<1> QED
  BY <1>4, <1>5, ReceivedIs

LEMMA ClientPassStep ==
  ASSUME IInv, NEW held \in BOOLEAN, NEW pressing \in BOOLEAN, ClientPass(held, pressing)
  PROVE  IInv'
<1>1. /\ UNCHANGED <<hostVars, peerVars, isClient, bodies, down, link, awaiting, faults>>
      /\ pending' = None
      /\ \/ applied' = applied /\ appliedSeq' = appliedSeq
         \/ /\ pending # None /\ isClient
            /\ applied' = [tick |-> pending.tick, body |-> pending.body] /\ appliedSeq' = pending.seq
  BY DEF ClientPass, ApplyPending
<1>2. /\ \/ up' = up /\ nack' = nack /\ lastSentAck' = lastSentAck
         \/ /\ isClient /\ nack' = FALSE /\ lastSentAck' = appliedSeq'
            /\ up' = IF link THEN up \cup {[ack |-> appliedSeq', nack |-> nack]} ELSE up
  BY DEF ClientPass, SendLocalInput
<1>3. /\ applied' \in [tick : 0..tick, body : Body] \cup {None}
      /\ appliedSeq' \in 1..MaxSeq \cup {None}
  <2>1. CASE applied' = applied /\ appliedSeq' = appliedSeq
    BY <2>1 DEF IInv, ClientTypes
  <2>2. CASE /\ pending # None /\ isClient
             /\ applied' = [tick |-> pending.tick, body |-> pending.body] /\ appliedSeq' = pending.seq
    <3>1. pending \in [tick : 0..tick, seq : 1..MaxSeq, body : Body]
      BY <2>2 DEF IInv, ClientTypes
    <3> QED
      BY <2>2, <3>1
  <2> QED
    BY <1>1, <2>1, <2>2
<1>4. nack' \in BOOLEAN /\ lastSentAck' \in 1..MaxSeq \cup {None}
  BY <1>2, <1>3 DEF IInv, ClientTypes
<1>5. ClientTypes'
  BY <1>1, <1>3, <1>4 DEF IInv, ClientTypes, hostVars
<1>6. LinkTypes'
  <2>1. nack \in BOOLEAN
    BY DEF IInv, ClientTypes
  <2>2. [ack |-> appliedSeq', nack |-> nack] \in [ack : 1..MaxSeq \cup {None}, nack : BOOLEAN]
    BY <1>3, <2>1
  <2>3. up' \subseteq up \cup {[ack |-> appliedSeq', nack |-> nack]}
    BY <1>2
  <2>4. up' \subseteq [ack : 1..MaxSeq \cup {None}, nack : BOOLEAN]
    BY <2>2, <2>3 DEF IInv, LinkTypes
  <2> QED
    BY <1>1, <2>4 DEF IInv, LinkTypes
<1>7. HostTypes' /\ RingIsRecent' /\ DownIsSent' /\ BodiesAreTimed' /\ KeptAreFew' /\ PendingIsNews'
  BY <1>1 DEF IInv, HostTypes, RingIsRecent, DownIsSent, BodiesAreTimed, KeptAreFew, PendingIsNews,
              hostVars, peerVars
<1>8. EndsForget'
  <2>1. ~link => up' = up
    BY <1>2
  <2>2. ~isClient => up' = up /\ appliedSeq' = appliedSeq
    BY <1>1, <1>2
  <2>3. awaiting => appliedSeq' = appliedSeq
    BY <1>1 DEF IInv, EndsForget
  <2> QED
    BY <1>1, <2>1, <2>2, <2>3 DEF IInv, EndsForget, peerVars
<1>9. AcksAreHeld'
  <2>1. \A s : HeldOrPast(s)' <=> HeldOrPast(s)
    BY <1>1 DEF HeldOrPast, peerVars
  <2>2. link /\ appliedSeq' # None => HeldOrPast(appliedSeq')
    BY <1>1 DEF IInv, AcksAreHeld
  <2>3. \A m \in up' : m \in up \/ (link /\ m.ack = appliedSeq')
    BY <1>2
  <2> QED
    BY <1>1, <2>1, <2>2, <2>3 DEF IInv, AcksAreHeld, peerVars
<1> QED
  BY <1>5, <1>6, <1>7, <1>8, <1>9 DEF IInv

LEMMA StarveStep ==
  ASSUME IInv, Starve
  PROVE  IInv'
<1>1. /\ nack' = TRUE /\ faults' = faults + 1 /\ faults < MaxFaults
      /\ UNCHANGED <<hostVars, peerVars, isClient, bodies, pending, applied, appliedSeq, lastSentAck,
                     down, up, link, awaiting>>
  BY DEF Starve
<1>2. faults' \in 0..MaxFaults
  BY <1>1, StreamAssumption DEF IInv, LinkTypes
<1>3. HostTypes' /\ ClientTypes' /\ LinkTypes' /\ RingIsRecent'
  BY <1>1, <1>2 DEF IInv, HostTypes, ClientTypes, LinkTypes, RingIsRecent, hostVars, peerVars
<1>4. DownIsSent' /\ BodiesAreTimed' /\ KeptAreFew' /\ PendingIsNews'
  BY <1>1 DEF IInv, DownIsSent, BodiesAreTimed, KeptAreFew, PendingIsNews, hostVars, peerVars
<1>5. EndsForget' /\ AcksAreHeld'
  BY <1>1 DEF IInv, EndsForget, AcksAreHeld, HeldOrPast, hostVars, peerVars
<1> QED
  BY <1>3, <1>4, <1>5 DEF IInv

-----------------------------------------------------------------------------
(* THE DOORS AND THE LINK *)

LEMMA NothingIsKept ==
  /\ DOMAIN <<>> = {} /\ Cardinality(DOMAIN <<>>) = 0 /\ Keep >= 0 /\ Ring >= 0
  /\ \A S : <<>> \in Seq(S)
<1>1. DOMAIN <<>> = {}
  OBVIOUS
<1> QED
  BY <1>1, FS_EmptySet, StreamAssumption

LEMMA AdoptStep ==
  ASSUME IInv, Adopt
  PROVE  IInv'
<1>1. /\ ~isClient /\ isClient' = TRUE /\ bodies' = <<>> /\ pending' = None /\ applied' = None
      /\ appliedSeq' = None /\ nack' = FALSE /\ lastSentAck' = None
      /\ UNCHANGED <<hostVars, peerVars, linkVars>>
  BY DEF Adopt
<1>2. HostTypes' /\ LinkTypes' /\ RingIsRecent' /\ DownIsSent'
  BY <1>1 DEF IInv, HostTypes, LinkTypes, RingIsRecent, DownIsSent, hostVars, peerVars, linkVars
<1>3. ClientTypes' /\ BodiesAreTimed' /\ KeptAreFew' /\ PendingIsNews'
  BY <1>1, NothingIsKept DEF ClientTypes, BodiesAreTimed, KeptAreFew, PendingIsNews
<1>4. up = {} /\ lastAck = None
  BY <1>1 DEF IInv, EndsForget
<1>5. EndsForget' /\ AcksAreHeld'
  BY <1>1, <1>4 DEF IInv, EndsForget, AcksAreHeld, peerVars, linkVars
<1> QED
  BY <1>2, <1>3, <1>5 DEF IInv

LEMMA LoseLinkStep ==
  ASSUME IInv, LoseLink
  PROVE  IInv'
<1>1. /\ link /\ listed /\ isClient /\ ~awaiting /\ faults < MaxFaults
      /\ link' = FALSE /\ down' = {} /\ up' = {} /\ faults' = faults + 1
      /\ UNCHANGED <<hostVars, peerVars, clientVars, awaiting>>
  BY DEF LoseLink
<1>2. faults' \in 0..MaxFaults
  BY <1>1, StreamAssumption DEF IInv, LinkTypes
<1>3. HostTypes' /\ ClientTypes' /\ LinkTypes' /\ RingIsRecent'
  BY <1>1, <1>2 DEF IInv, HostTypes, ClientTypes, LinkTypes, RingIsRecent, hostVars, peerVars, clientVars
<1>4. DownIsSent' /\ BodiesAreTimed' /\ KeptAreFew' /\ PendingIsNews'
  BY <1>1 DEF IInv, DownIsSent, BodiesAreTimed, KeptAreFew, PendingIsNews, clientVars
<1>5. EndsForget' /\ AcksAreHeld'
  BY <1>1 DEF IInv, EndsForget, AcksAreHeld, peerVars, clientVars
<1> QED
  BY <1>3, <1>4, <1>5 DEF IInv

LEMMA HostForgetsStep ==
  ASSUME IInv, HostForgets
  PROVE  IInv'
<1>1. /\ ~link /\ listed /\ listed' = FALSE /\ seq' = 0 /\ lastAck' = None /\ nackedFull' = FALSE
      /\ ring' = <<>> /\ sent' = <<>> /\ UNCHANGED <<hostVars, clientVars, linkVars>>
  BY DEF HostForgets
<1>2. HostTypes'
  <2>1. tick \in Nat /\ 0 \in 0..MaxSeq
    BY StreamAssumption DEF IInv, HostTypes
  <2>2. 1..0 = {} /\ <<>> \in [{} -> 0..tick]
    OBVIOUS
  <2> QED
    BY <1>1, <2>1, <2>2 DEF IInv, HostTypes, hostVars
<1>3. ClientTypes' /\ LinkTypes' /\ KeptAreFew' /\ PendingIsNews'
  BY <1>1 DEF IInv, ClientTypes, LinkTypes, KeptAreFew, PendingIsNews, hostVars, clientVars, linkVars
<1>4. RingIsRecent'
  <2>1. Len(<<>>) = 0
    OBVIOUS
  <2> QED
    BY <1>1, <2>1, NothingIsKept DEF RingIsRecent
<1>5. down = {}
  BY <1>1 DEF IInv, EndsForget
<1>6. DownIsSent' /\ BodiesAreTimed' /\ EndsForget' /\ AcksAreHeld'
  BY <1>1, <1>5 DEF IInv, DownIsSent, BodiesAreTimed, EndsForget, AcksAreHeld, clientVars, linkVars
<1> QED
  BY <1>2, <1>3, <1>4, <1>6 DEF IInv

LEMMA ClientForgetsStep ==
  ASSUME IInv, ClientForgets
  PROVE  IInv'
<1>1. /\ ~link /\ awaiting' = TRUE /\ appliedSeq' = None /\ lastSentAck' = None /\ nack' = FALSE
      /\ pending' = None /\ bodies' = <<>>
      /\ UNCHANGED <<hostVars, peerVars, isClient, applied, down, up, link, faults>>
  BY DEF ClientForgets, ForgetTheOldLink
<1>2. HostTypes' /\ RingIsRecent' /\ DownIsSent'
  BY <1>1 DEF IInv, HostTypes, RingIsRecent, DownIsSent, hostVars, peerVars
<1>3. ClientTypes' /\ BodiesAreTimed' /\ KeptAreFew' /\ PendingIsNews'
  BY <1>1, NothingIsKept DEF IInv, ClientTypes, BodiesAreTimed, KeptAreFew, PendingIsNews, hostVars
<1>4. LinkTypes' /\ EndsForget' /\ AcksAreHeld'
  BY <1>1 DEF IInv, LinkTypes, EndsForget, AcksAreHeld, peerVars
<1> QED
  BY <1>2, <1>3, <1>4 DEF IInv

LEMMA RelinkStep ==
  ASSUME IInv, Relink
  PROVE  IInv'
<1>1. /\ ~link /\ ~listed /\ awaiting /\ link' = TRUE /\ listed' = TRUE /\ awaiting' = FALSE
      /\ UNCHANGED <<hostVars, seq, lastAck, nackedFull, ring, sent, clientVars, down, up, faults>>
  BY DEF Relink
<1>2. bodies = <<>> /\ pending = None /\ appliedSeq = None /\ lastAck = None /\ up = {} /\ down = {}
  BY <1>1 DEF IInv, EndsForget
<1>3. HostTypes' /\ RingIsRecent' /\ ClientTypes' /\ LinkTypes' /\ KeptAreFew' /\ PendingIsNews'
  BY <1>1 DEF IInv, HostTypes, RingIsRecent, ClientTypes, LinkTypes, KeptAreFew, PendingIsNews, hostVars, clientVars
<1>4. DownIsSent' /\ BodiesAreTimed' /\ EndsForget' /\ AcksAreHeld'
  BY <1>1, <1>2, NothingIsKept DEF IInv, DownIsSent, BodiesAreTimed, EndsForget, AcksAreHeld, clientVars
<1> QED
  BY <1>3, <1>4 DEF IInv

-----------------------------------------------------------------------------
(* INVARIANCE *)

LEMMA InitIInv == ASSUME Init PROVE IInv
<1>1. /\ tick = 0 /\ word \in [{0} -> Body] /\ passesHeld = 0
      /\ listed = TRUE /\ seq = 0 /\ lastAck = None /\ nackedFull = FALSE /\ ring = <<>>
      /\ isClient = FALSE /\ bodies = <<>> /\ pending = None /\ applied = None
      /\ appliedSeq = None /\ nack = FALSE /\ lastSentAck = None
      /\ down = {} /\ up = {} /\ link = TRUE /\ awaiting = FALSE /\ sent = <<>> /\ faults = 0
  BY WorldsAssumption DEF Init
<1>2. 0..0 = {0} /\ 1..0 = {} /\ <<>> \in [{} -> {0}] /\ Len(<<>>) = 0 /\ \A S : <<>> \in Seq(S)
  OBVIOUS
<1>3. 0 \in 0..MaxTick /\ 0 \in 0..MaxSeq /\ 0 \in 0..MaxFaults /\ 0 \in 0..(HeldEvery - 1)
  BY StreamAssumption
<1>4. HostTypes
  BY <1>1, <1>2, <1>3 DEF HostTypes
<1>5. ClientTypes /\ LinkTypes /\ KeptAreFew /\ BodiesAreTimed
  BY <1>1, <1>3, NothingIsKept DEF ClientTypes, LinkTypes, KeptAreFew, BodiesAreTimed
<1>6. RingIsRecent
  BY <1>1, <1>2, NothingIsKept DEF RingIsRecent
<1>7. EndsForget /\ DownIsSent /\ AcksAreHeld /\ PendingIsNews
  BY <1>1 DEF EndsForget, DownIsSent, AcksAreHeld, PendingIsNews
<1> QED
  BY <1>4, <1>5, <1>6, <1>7 DEF IInv

LEMMA NextIInv ==
  ASSUME IInv, [Next]_vars
  PROVE  IInv'
<1>1. CASE UNCHANGED vars
  <2>1. UNCHANGED <<hostVars, peerVars, clientVars, linkVars>>
    BY <1>1 DEF vars
  <2>2. HostTypes' /\ RingIsRecent'
    BY <2>1 DEF IInv, HostTypes, RingIsRecent, hostVars, peerVars
  <2>3. ClientTypes' /\ LinkTypes' /\ KeptAreFew' /\ PendingIsNews'
    BY <2>1 DEF IInv, ClientTypes, LinkTypes, KeptAreFew, PendingIsNews, hostVars, clientVars, linkVars
  <2>4. EndsForget' /\ DownIsSent' /\ BodiesAreTimed'
    BY <2>1 DEF IInv, EndsForget, DownIsSent, BodiesAreTimed, hostVars, peerVars, clientVars, linkVars
  <2>5. AcksAreHeld'
    BY <2>1 DEF IInv, AcksAreHeld, HeldOrPast, peerVars, clientVars, linkVars
  <2> QED
    BY <2>2, <2>3, <2>4, <2>5 DEF IInv
<1>2. ASSUME NEW body \in Worlds, HostTick(body) PROVE IInv'
  BY <1>2, HostTickStep, WorldsAssumption
<1>3. CASE HostHeldPass
  BY <1>3, HostHeldPassStep
<1>4. ASSUME NEW m \in up, HostReceive(m) PROVE IInv'
  BY <1>4, HostReceiveStep
<1>5. ASSUME NEW m \in down, ClientReceive(m) PROVE IInv'
  BY <1>5, ClientReceiveStep
<1>6. ASSUME NEW held \in BOOLEAN, NEW pressing \in BOOLEAN, ClientPass(held, pressing) PROVE IInv'
  BY <1>6, ClientPassStep
<1>7. CASE Starve
  BY <1>7, StarveStep
<1>8. CASE Adopt
  BY <1>8, AdoptStep
<1>9. CASE LoseLink
  BY <1>9, LoseLinkStep
<1>10. CASE HostForgets
  BY <1>10, HostForgetsStep
<1>11. CASE ClientForgets
  BY <1>11, ClientForgetsStep
<1>12. CASE Relink
  BY <1>12, RelinkStep
<1> QED
  BY <1>1, <1>2, <1>3, <1>4, <1>5, <1>6, <1>7, <1>8, <1>9, <1>10, <1>11, <1>12 DEF Next

(* The conjunction of what the host remembers of a client, what the client   *)
(* keeps, and what is on the link between them.                              *)
THEOREM Invariance == Spec => []IInv
<1>1. Init => IInv
  BY InitIInv
<1>2. IInv /\ [Next]_vars => IInv'
  BY NextIInv
<1> QED
  BY <1>1, <1>2, PTL DEF Spec

-----------------------------------------------------------------------------
(* THE THEOREMS *)

(* Every variable has its type: the ring and the bodies are within their     *)
(* bounds, whatever was lost, repeated or late (server.rs:520, client.rs).   *)
THEOREM Typing == Spec => []TypeOK
<1>1. IInv => TypeOK
  <2> SUFFICES ASSUME IInv PROVE TypeOK
    OBVIOUS
  <2>1. ring \in Seq([seq : 1..seq, tick : 0..tick, body : Body]) /\ Len(ring) <= Ring
    BY DEF IInv, RingIsRecent
  <2>2. ASSUME NEW m \in down PROVE m.seq \in 1..seq /\ m.tick \in 0..tick
    <3>1. PICK s \in 1..seq :
            \/ m = Full(s, sent[s], word[sent[s]])
            \/ \E b \in 1..(s - 1) : m = DeltaOn(b, s, sent[s], Delta(word[sent[b]], word[sent[s]], s))
      BY DEF IInv, DownIsSent, IsSent
    <3>2. m.seq = s /\ m.tick = sent[s]
      BY <3>1 DEF Full, DeltaOn
    <3> QED
      BY <3>2 DEF IInv, HostTypes
  <2>3. Cardinality(DOMAIN bodies) <= Keep
    BY DEF IInv, KeptAreFew
  <2>4. HostTypes /\ ClientTypes /\ LinkTypes
    BY DEF IInv
  <2> QED
    BY <2>1, <2>2, <2>3, <2>4 DEF TypeOK, HostTypes, ClientTypes, LinkTypes
<1> QED
  BY <1>1, Invariance, PTL

(* What packet s says, but that a resource it does not have may be as an     *)
(* earlier packet had it.                                                    *)
Tells(body, s, at, world) ==
  \A p \in Part :
    \/ body[p] = world[at[s]][p]
    \/ /\ p \in Resource /\ world[at[s]][p] = Absent
       /\ \E b \in 1..(s - 1) : body[p] = world[at[b]][p]

LEMMA TellsStill ==
  ASSUME NEW s \in Nat, NEW at, NEW at2, NEW world, NEW world2, NEW body, Tells(body, s, at, world),
         \A x \in 1..s : at2[x] = at[x] /\ world2[at2[x]] = world[at[x]], s # 0
  PROVE  Tells(body, s, at2, world2)
<1>1. world2[at2[s]] = world[at[s]] /\ \A b \in 1..(s - 1) : world2[at2[b]] = world[at[b]]
  OBVIOUS
<1> QED
  BY <1>1 DEF Tells

(* What a packet of this connection rebuilds to, from bodies that are those  *)
(* that were sent.                                                           *)
LEMMA RebuiltTells ==
  ASSUME NothingIsRated, IInv, RebuiltIsSent, NEW m \in down, NEW body \in BodyOf(m)
  PROVE  Tells(body, m.seq, sent, word)
<1>1. link /\ IsSent(m, seq, sent, word)
  BY DEF IInv, EndsForget, DownIsSent
<1>2. PICK s \in 1..seq :
        \/ m = Full(s, sent[s], word[sent[s]])
        \/ \E b \in 1..(s - 1) : m = DeltaOn(b, s, sent[s], Delta(word[sent[b]], word[sent[s]], s))
  BY <1>1 DEF IsSent
<1>3. CASE m = Full(s, sent[s], word[sent[s]])
  <2>1. m.kind = "full" /\ m.body = word[sent[s]] /\ m.seq = s
    BY <1>3 DEF Full
  <2> QED
    BY <2>1 DEF BodyOf, Tells
<1>4. CASE \E b \in 1..(s - 1) : m = DeltaOn(b, s, sent[s], Delta(word[sent[b]], word[sent[s]], s))
  <2>1. PICK b \in 1..(s - 1) : m = DeltaOn(b, s, sent[s], Delta(word[sent[b]], word[sent[s]], s))
    BY <1>4
  <2>2. m.kind # "full" /\ m.base = b /\ m.seq = s /\ m.delta = Delta(word[sent[b]], word[sent[s]], s)
    BY <2>1 DEF DeltaOn
  <2>3. b \in DOMAIN bodies /\ body = Rebuilt(bodies[b].body, m.delta)
    BY <2>2 DEF BodyOf
  <2>4. seq \in Nat /\ s \in Nat /\ b \in 1..seq
    <3>1. seq \in Nat
      BY DEF IInv, HostTypes
    <3> QED
      BY <3>1
  <2> DEFINE base == bodies[b].body
             old  == word[sent[b]]
             new  == word[sent[s]]
  <2>5. old \in Body /\ new \in Body /\ base \in Body
    BY <2>3, <2>4 DEF IInv, HostTypes, ClientTypes
  <2>6. Tells(base, b, sent, word)
    BY <1>1, <2>3 DEF RebuiltIsSent, Tells
  <2>7. body = Rebuilt(base, Delta(old, new, s))
    BY <2>2, <2>3
  <2> SUFFICES ASSUME NEW p \in Part
               PROVE  \/ body[p] = new[p]
                      \/ /\ p \in Resource /\ new[p] = Absent
                         /\ \E x \in 1..(s - 1) : body[p] = word[sent[x]][p]
    BY <2>2 DEF Tells
  <2>8. \/ base[p] = old[p]
        \/ /\ p \in Resource /\ old[p] = Absent
           /\ \E x \in 1..(b - 1) : base[p] = word[sent[x]][p]
    BY <2>6 DEF Tells
  <2>9. p \notin Component => p \in Resource
    BY DEF Part
  <2> HIDE DEF base, new
  <2>10. body[p] = IF old[p] = new[p] \/ (new[p] = Absent /\ p \notin Component) THEN base[p] ELSE new[p]
    BY <2>4, <2>5, <2>7, DeltaSays
  <2>11. CASE old[p] = new[p]
    <3>1. \A x \in 1..(b - 1) : x \in 1..(s - 1)
      BY <2>4
    <3> QED
      BY <2>8, <2>10, <2>11, <3>1
  <2>12. CASE old[p] # new[p] /\ new[p] = Absent /\ p \notin Component
    BY <2>8, <2>9, <2>10, <2>12
  <2>13. CASE old[p] # new[p] /\ ~(new[p] = Absent /\ p \notin Component)
    BY <2>10, <2>13
  <2> QED
    BY <2>11, <2>12, <2>13
<1> QED
  BY <1>2, <1>3, <1>4

LEMMA NextRebuilt ==
  ASSUME NothingIsRated, IInv, RebuiltIsSent, [Next]_vars
  PROVE  RebuiltIsSent'
<1>0. sent \in [1..seq -> 0..tick] /\ seq \in Nat
  BY DEF IInv, HostTypes
<1>1. ASSUME bodies' = bodies, link' = link, UNCHANGED <<sent, word>> PROVE RebuiltIsSent'
  BY <1>1 DEF RebuiltIsSent
<1>2. ASSUME ~link' \/ bodies' = <<>> PROVE RebuiltIsSent'
  BY <1>2, NothingIsKept DEF RebuiltIsSent
<1>3. CASE UNCHANGED vars
  BY <1>1, <1>3 DEF vars, hostVars, peerVars, clientVars, linkVars
<1>4. CASE HostHeldPass \/ \E body \in Worlds : HostTick(body)
  <2>1. /\ IInv' /\ bodies' = bodies /\ link' = link /\ seq' \in Nat /\ seq' >= seq
        /\ \A s \in 1..seq : sent'[s] = sent[s] /\ word'[sent[s]] = word[sent[s]]
    BY <1>4, HostTickStep, HostHeldPassStep, WorldsAssumption
  <2>2. DOMAIN sent' = 1..seq'
    BY <2>1 DEF IInv, HostTypes
  <2>3. \A s \in DOMAIN sent : s \in DOMAIN sent' /\ sent'[s] = sent[s] /\ word'[sent'[s]] = word[sent[s]]
    BY <1>0, <2>1, <2>2
  <2> QED
    <3> SUFFICES ASSUME link, NEW s \in DOMAIN bodies
                 PROVE  s \in DOMAIN sent' /\ bodies[s].tick = sent'[s] /\ Tells(bodies[s].body, s, sent', word')
      BY <2>1 DEF RebuiltIsSent, Tells
    <3>1. s \in DOMAIN sent /\ bodies[s].tick = sent[s] /\ Tells(bodies[s].body, s, sent, word)
      BY DEF RebuiltIsSent, Tells
    <3>2. s \in Nat /\ s # 0 /\ \A x \in 1..s : x \in DOMAIN sent
      BY <1>0, <3>1
    <3> QED
      BY <2>3, <3>1, <3>2, TellsStill
<1>5. ASSUME NEW m \in up, HostReceive(m) PROVE RebuiltIsSent'
  BY <1>1, <1>5 DEF HostReceive, hostVars, clientVars, linkVars
<1>6. ASSUME NEW m \in down, ClientReceive(m) PROVE RebuiltIsSent'
  <2>1. /\ link /\ m.seq \in 1..seq /\ m.tick = sent[m.seq]
        /\ UNCHANGED <<hostVars, peerVars, isClient, applied, appliedSeq, lastSentAck, linkVars>>
    BY <1>6, ReceivedIs
  <2>2. CASE bodies' = bodies
    BY <1>1, <2>1, <2>2 DEF hostVars, peerVars, linkVars
  <2>3. ASSUME NEW body \in BodyOf(m), bodies' = Recorded(m.seq, m.tick, body) PROVE RebuiltIsSent'
    <3>1. DOMAIN bodies \in SUBSET (1..seq) /\ Cardinality(DOMAIN bodies) <= Keep
      BY <2>1 DEF IInv, BodiesAreTimed, KeptAreFew
    <3>2. /\ DOMAIN bodies' \subseteq DOMAIN bodies \cup {m.seq}
          /\ \A x \in DOMAIN bodies' :
               bodies'[x] = IF x = m.seq THEN [tick |-> m.tick, body |-> body] ELSE bodies[x]
      <4> DEFINE s == m.seq
      <4>1. s \in 1..seq /\ seq \in Nat
        BY <1>0, <2>1
      <4>2. bodies' = Recorded(s, m.tick, body)
        BY <2>3
      <4> HIDE DEF s
      <4>3. /\ DOMAIN bodies' \subseteq DOMAIN bodies \cup {s}
            /\ \A x \in DOMAIN bodies' :
                 bodies'[x] = IF x = s THEN [tick |-> m.tick, body |-> body] ELSE bodies[x]
        BY <3>1, <4>1, <4>2, RecordedIs, SMTT(30)
      <4> QED
        BY <4>3 DEF s
    <3>3. Tells(body, m.seq, sent, word)
      BY <2>3, RebuiltTells
    <3>4. sent' = sent /\ word' = word
      BY <2>1 DEF hostVars, peerVars
    <3>5. m.seq \in DOMAIN sent
      BY <1>0, <2>1
    <3>6. ASSUME NEW x \in DOMAIN bodies'
          PROVE  x \in DOMAIN sent /\ bodies'[x].tick = sent[x] /\ Tells(bodies'[x].body, x, sent, word)
      <4>1. CASE x = m.seq
        BY <2>1, <3>2, <3>3, <3>5, <4>1
      <4>2. CASE x # m.seq
        BY <2>1, <3>2, <4>2 DEF RebuiltIsSent, Tells
      <4> QED
        BY <4>1, <4>2
    <3> QED
      BY <3>4, <3>6 DEF RebuiltIsSent, Tells
  <2> QED
    BY <1>6, <2>2, <2>3, ReceivedIs
<1>7. ASSUME NEW held \in BOOLEAN, NEW pressing \in BOOLEAN, ClientPass(held, pressing) PROVE RebuiltIsSent'
  BY <1>1, <1>7 DEF ClientPass, hostVars, peerVars
<1>8. CASE Starve
  BY <1>1, <1>8 DEF Starve, hostVars, peerVars
<1>9. CASE Adopt \/ LoseLink \/ ClientForgets
  BY <1>2, <1>9 DEF Adopt, LoseLink, ClientForgets, ForgetTheOldLink
<1>10. CASE HostForgets
  BY <1>2, <1>10 DEF HostForgets, linkVars
<1>11. CASE Relink
  BY <1>2, <1>11 DEF Relink, IInv, EndsForget, clientVars
<1> QED
  BY <1>3, <1>4, <1>5, <1>6, <1>7, <1>8, <1>9, <1>10, <1>11 DEF Next

(* A body a client rebuilt is the body the host sent under that seq, but for *)
(* resources the host did not have then and had before: as long as no type   *)
(* is left out of a delta (delta.rs:6, delta.rs:221, delta.rs:317).          *)
THEOREM RebuildsAreSent == ASSUME NothingIsRated PROVE Spec => []RebuiltIsSent
<1>1. Init => IInv /\ RebuiltIsSent
  BY InitIInv, NothingIsKept DEF Init, RebuiltIsSent
<1>2. IInv /\ RebuiltIsSent /\ [Next]_vars => IInv' /\ RebuiltIsSent'
  BY NextIInv, NextRebuilt
<1> QED
  BY <1>1, <1>2, PTL DEF Spec

(* What the host would delta on next, the client holds, when it keeps as     *)
(* many bodies as the host keeps baselines: both forget by seq, and what the *)
(* ring still has is newer than what the client may have dropped.            *)
THEOREM BaselinesAreHeld == ASSUME KeepsTheRing PROVE Spec => []BaselineIsHeld
<1>1. IInv => BaselineIsHeld
  <2> SUFFICES ASSUME IInv, link, listed, BaselineOf(lastAck) # {} PROVE lastAck \in DOMAIN bodies
    BY DEF BaselineIsHeld
  <2>1. PICK i \in DOMAIN ring : ring[i].seq = lastAck
    BY DEF BaselineOf, ToSet
  <2>2. /\ ring \in Seq([seq : 1..seq, tick : 0..tick, body : Body]) /\ Len(ring) <= Ring /\ Len(ring) \in Nat
        /\ i \in 1..Len(ring) /\ lastAck = seq - Len(ring) + i /\ Len(ring) <= seq /\ seq \in Nat
    <3> DEFINE s == seq - Len(ring) + i
    <3>1. ring[i] = [seq |-> s, tick |-> sent[s], body |-> word[sent[s]]]
      BY DEF IInv, RingIsRecent
    <3> HIDE DEF s
    <3>2. lastAck = s
      BY <2>1, <3>1
    <3>3. ring \in Seq([seq : 1..seq, tick : 0..tick, body : Body]) /\ Len(ring) <= Ring /\ Len(ring) <= seq
      BY DEF IInv, RingIsRecent
    <3>4. Len(ring) \in Nat /\ i \in 1..Len(ring)
      BY <3>3
    <3>5. seq \in Nat
      BY DEF IInv, HostTypes
    <3> QED
      BY <3>2, <3>3, <3>4, <3>5 DEF s
  <2>3. lastAck \in 1..seq
    BY <2>1, <2>2
  <2>4. lastAck # None
    BY <2>3, NoneAssumption
  <2>5. HeldOrPast(lastAck)
    BY <2>4 DEF IInv, AcksAreHeld
  <2>6. ~(lastAck + Keep <= seq)
    <3> DEFINE n == Len(ring)
    <3>1. n \in Nat /\ n <= Ring /\ i \in 1..n /\ lastAck = seq - n + i /\ seq \in Nat
      BY <2>2
    <3>2. Ring \in Nat /\ Keep \in Nat /\ Ring <= Keep
      BY StreamAssumption DEF KeepsTheRing
    <3> HIDE DEF n
    <3> QED
      BY <3>1, <3>2
  <2> QED
    BY <2>5, <2>6 DEF HeldOrPast
<1> QED
  BY <1>1, Invariance, PTL

LEMMA NextFreshest ==
  ASSUME IInv, FreshestIsApplied, [Next]_vars
  PROVE  FreshestIsApplied'
<1>0. /\ pending \in [tick : 0..tick, seq : 1..MaxSeq, body : Body] \cup {None}
      /\ applied \in [tick : 0..tick, body : Body] \cup {None}
      /\ \A s \in DOMAIN bodies : bodies[s].tick \in Nat
      /\ pending # None => pending.tick \in Nat
      /\ applied # None => applied.tick \in Nat
  <2>1. tick \in Nat /\ 0..tick \subseteq Nat
    BY DEF IInv, HostTypes
  <2> QED
    BY <2>1 DEF IInv, ClientTypes
<1>1. ASSUME UNCHANGED <<isClient, bodies, pending, applied>> PROVE FreshestIsApplied'
  BY <1>1 DEF FreshestIsApplied
<1>2. ASSUME bodies' = <<>> PROVE FreshestIsApplied'
  BY <1>2, NothingIsKept DEF FreshestIsApplied
<1>3. CASE UNCHANGED vars
  BY <1>1, <1>3 DEF vars, clientVars
<1>4. CASE HostHeldPass \/ \E body \in Worlds : HostTick(body)
  BY <1>1, <1>4 DEF HostHeldPass, HostTick, clientVars
<1>5. ASSUME NEW m \in up, HostReceive(m) PROVE FreshestIsApplied'
  BY <1>1, <1>5 DEF HostReceive, clientVars
<1>6. ASSUME NEW m \in down, ClientReceive(m) PROVE FreshestIsApplied'
  <2>1. /\ link /\ m.seq \in 1..seq /\ m.tick = sent[m.seq] /\ isClient' = isClient /\ applied' = applied
    BY <1>6, ReceivedIs
  <2>2. CASE UNCHANGED <<bodies, pending>>
    BY <1>1, <2>1, <2>2
  <2>3. ASSUME NEW body \in BodyOf(m), body \in Body, bodies' = Recorded(m.seq, m.tick, body),
               pending' = IF IsNews(m.tick) THEN [tick |-> m.tick, seq |-> m.seq, body |-> body] ELSE pending
        PROVE  FreshestIsApplied'
    <3>0. seq \in Nat /\ m.tick \in Nat
      BY <2>1 DEF IInv, HostTypes
    <3>1. DOMAIN bodies \in SUBSET (1..seq) /\ Cardinality(DOMAIN bodies) <= Keep
      BY <2>1 DEF IInv, BodiesAreTimed, KeptAreFew
    <3>2. /\ DOMAIN bodies' \subseteq DOMAIN bodies \cup {m.seq}
          /\ \A x \in DOMAIN bodies' :
               bodies'[x] = IF x = m.seq THEN [tick |-> m.tick, body |-> body] ELSE bodies[x]
      BY <2>1, <2>3, <3>0, <3>1, RecordedIs
    <3>3. \A x \in DOMAIN bodies' : bodies'[x].tick = m.tick \/ (x \in DOMAIN bodies /\ bodies'[x] = bodies[x])
      BY <3>2
    <3>4. CASE IsNews(m.tick)
      <4>1. pending' = [tick |-> m.tick, seq |-> m.seq, body |-> body]
        BY <2>3, <3>4
      <4>2. pending' # None
        BY <2>1, <2>3, <3>0, <4>1, NoneAssumption
      <4>3. pending'.tick = m.tick
        BY <4>1
      <4>4. ASSUME isClient, NEW x \in DOMAIN bodies, bodies[x].tick <= m.tick \/ bodies[x].tick > m.tick
            PROVE  (applied # None /\ bodies[x].tick <= applied.tick) \/ bodies[x].tick <= m.tick
        BY <1>0, <3>0, <3>4, <4>4 DEF FreshestIsApplied, IsNews
      <4> QED
        BY <1>0, <2>1, <3>0, <3>3, <4>2, <4>3, <4>4 DEF FreshestIsApplied
    <3>5. CASE ~IsNews(m.tick)
      <4>1. pending' = pending
        BY <2>3, <3>5
      <4>2. \/ applied # None /\ m.tick <= applied.tick
            \/ pending # None /\ m.tick <= pending.tick
        BY <1>0, <3>0, <3>5 DEF IsNews
      <4> QED
        BY <2>1, <3>3, <4>1, <4>2 DEF FreshestIsApplied
    <3> QED
      BY <3>4, <3>5
  <2> QED
    BY <1>6, <2>2, <2>3, ReceivedIs
<1>7. ASSUME NEW held \in BOOLEAN, NEW pressing \in BOOLEAN, ClientPass(held, pressing) PROVE FreshestIsApplied'
  <2>1. isClient' = isClient /\ bodies' = bodies /\ pending' = None
    BY <1>7 DEF ClientPass, ApplyPending
  <2>2. CASE isClient /\ pending # None
    <3>1. applied' = [tick |-> pending.tick, body |-> pending.body]
      BY <1>7, <2>2 DEF ClientPass, ApplyPending
    <3>2. pending.tick \in Nat /\ pending.body \in Body
      <4>1. pending \in [tick : 0..tick, seq : 1..MaxSeq, body : Body]
        BY <1>0, <2>2
      <4> QED
        BY <1>0, <2>2, <4>1
    <3>3. applied' # None /\ applied'.tick = pending.tick
      BY <3>1, <3>2, NoneAssumption
    <3>4. applied # None => applied.tick < pending.tick
      BY <1>0, <2>2 DEF IInv, PendingIsNews
    <3>5. ASSUME NEW s \in DOMAIN bodies PROVE bodies[s].tick <= pending.tick
      BY <1>0, <2>2, <3>2, <3>4 DEF FreshestIsApplied
    <3> QED
      BY <2>1, <3>3, <3>5 DEF FreshestIsApplied
  <2>3. CASE ~isClient
    BY <2>1, <2>3 DEF FreshestIsApplied
  <2>4. CASE isClient /\ pending = None
    <3>1. applied' = applied
      BY <1>7, <2>4 DEF ClientPass, ApplyPending
    <3> QED
      BY <2>1, <2>4, <3>1 DEF FreshestIsApplied
  <2> QED
    BY <2>2, <2>3, <2>4
<1>8. CASE Starve \/ LoseLink \/ HostForgets \/ Relink
  BY <1>1, <1>8 DEF Starve, LoseLink, HostForgets, Relink, clientVars
<1>9. CASE Adopt \/ ClientForgets
  BY <1>2, <1>9 DEF Adopt, ClientForgets, ForgetTheOldLink
<1> QED
  BY <1>3, <1>4, <1>5, <1>6, <1>7, <1>8, <1>9 DEF Next

(* No word a client has heard is newer than the one it applied or is about   *)
(* to, in whatever order packets come (client.rs: receive_snapshot).         *)
THEOREM FreshestApplied == Spec => []FreshestIsApplied
<1>1. Init => IInv /\ FreshestIsApplied
  BY InitIInv DEF Init, FreshestIsApplied
<1>2. IInv /\ FreshestIsApplied /\ [Next]_vars => IInv' /\ FreshestIsApplied'
  BY NextIInv, NextFreshest
<1> QED
  BY <1>1, <1>2, PTL DEF Spec
=============================================================================
