---------------------------- MODULE SnapshotStream ----------------------------
(***************************************************************************)
(* The stream of snapshots from a host to one of its clients (crate        *)
(* bevy_ticked_networking: server.rs, delta.rs, the receiving half of      *)
(* client.rs) and the acknowledgements that come back.  A packet is a full *)
(* body or what changed since a packet the client acknowledged; the client *)
(* rebuilds the full body from its copy of that packet.  The link loses,   *)
(* duplicates and reorders; the connection may be lost and made again.     *)
(*                                                                         *)
(* Everything the host keeps about a client is keyed by its uuid, and no   *)
(* client's state is read for another: one client is modelled.  A          *)
(* Component is one of one entity; a despawned entity is one whose         *)
(* components are all Absent.  A delta says which components are gone, and *)
(* not which resources.  The class Always, which carries a component that  *)
(* did not change, rebuilds nothing differently and is left out.           *)
(* The clock of the host only goes forward, so no id changes hands and     *)
(* the lists of the reborn are empty.                                      *)
(***************************************************************************)
EXTENDS Integers, Sequences, FiniteSets, FiniteSetsExt, Functions, SequencesExt

CONSTANTS
  Component, Resource, \* what a body is of
  Value, Absent,
  Ring,          \* DeltaPolicy::max_unacked_baselines
  Keep,          \* AuthoritativeHistory::max_ticks, the bodies a client keeps
  KeyframeEvery, \* DeltaPolicy::keyframe_every
  SendEvery,     \* SendEvery
  HeldEvery,     \* HELD_BROADCAST_EVERY
  Rate,          \* SendRates: a component is carried on every Rate[p]-th packet
  Worlds,        \* bound: the worlds the host may have at a tick
  MaxTick, MaxSeq, MaxFaults,  \* bounds
  None           \* no tick, no seq, no packet

ASSUME StreamAssumption ==
  /\ {Ring, Keep, KeyframeEvery, SendEvery, HeldEvery} \subseteq Nat \ {0}
  /\ Rate \in [Component -> Nat \ {0}] /\ Component \cap Resource = {}
  /\ MaxTick \in Nat /\ MaxSeq \in Nat /\ MaxFaults \in Nat
  /\ Absent \notin Value

Part == Component \cup Resource
Body == [Part -> Value \cup {Absent}]

ASSUME WorldsAssumption == Worlds \subseteq Body

ASSUME NoneAssumption ==
  None \notin Nat \cup [tick : Nat, body : Body] \cup [tick : Nat, seq : Nat, body : Body]

VARIABLES
  tick,        \* CurrentTick of the host
  word,        \* history: the host's world at each tick
  passesHeld,  \* PassesHeld, modulo HeldEvery
  listed,      \* the client is in SnapshotRecipientList
  seq,         \* SnapshotSeq of the client
  lastAck,     \* LastAck of the client
  nackedFull,  \* NackedFull holds the client
  ring,        \* Baselines of the client, newest last
  isClient,    \* the client has LocalClientPlayer
  bodies,      \* AuthoritativeHistory::bodies: seq -> its tick and body
  pending,     \* PendingSnapshot
  applied,     \* AppliedSnapshotTick, with the body that was applied
  appliedSeq,  \* LastAppliedSeq
  nack,        \* NackFull
  lastSentAck, \* LastSentAck
  down, up,    \* the packets that have been put on the link, either way
  link,        \* whether the connection stands
  awaiting,    \* the client's lobby is AwaitingHost, for the same host
  sent,        \* history: the tick of each packet of this connection
  faults       \* bound: connections lost and silences

hostVars   == <<tick, word, passesHeld>>
peerVars   == <<listed, seq, lastAck, nackedFull, ring, sent>>
clientVars == <<isClient, bodies, pending, applied, appliedSeq, nack, lastSentAck>>
linkVars   == <<down, up, link, awaiting, faults>>
vars == <<hostVars, peerVars, clientVars, linkVars>>

Put(f, k, v) == [x \in DOMAIN f \cup {k} |-> IF x = k THEN v ELSE f[x]]

(* Option<Tick> comparisons: None is below every tick. *)
Newer(t, o) == o = None \/ t > o

-----------------------------------------------------------------------------
(* DELTAS *)

(* SendRates::carries: resources have no rate. *)
Carries(p, s) == p \in Component => s % Rate[p] = 0

(* Mutant: a component that is gone is not said to be, as a resource is not. *)
DeltaSaysNoneGone(base, body, s) ==
  LET carried == {p \in Part : body[p] # Absent /\ base[p] # body[p]}
  IN  [changed |-> [p \in carried |-> body[p]], gone |-> {}]

(* build_delta: what body says that base did not, but for a resource that is gone. *)
Delta(base, body, s) ==
  LET carried == {p \in Part : body[p] # Absent /\ (base[p] = Absent \/ (base[p] # body[p] /\ Carries(p, s)))}
  IN  [changed |-> [p \in carried |-> body[p]],
       gone    |-> {p \in Component : base[p] # Absent /\ body[p] = Absent}]

(* apply_delta: the change wins, then the baseline, minus what was removed. *)
Rebuilt(base, delta) ==
  [p \in Part |-> IF p \in DOMAIN delta.changed THEN delta.changed[p]
                  ELSE IF p \in delta.gone THEN Absent ELSE base[p]]

Full(s, t, body)         == [kind |-> "full", seq |-> s, tick |-> t, body |-> body]
DeltaOn(b, s, t, delta)  == [kind |-> "delta", base |-> b, seq |-> s, tick |-> t, delta |-> delta]

-----------------------------------------------------------------------------
Init ==
  /\ tick = 0 /\ word \in [{0} -> Worlds] /\ passesHeld = 0
  /\ listed = TRUE /\ seq = 0 /\ lastAck = None /\ nackedFull = FALSE /\ ring = <<>>
  /\ isClient = FALSE /\ bodies = <<>> /\ pending = None /\ applied = None
  /\ appliedSeq = None /\ nack = FALSE /\ lastSentAck = None
  /\ down = {} /\ up = {} /\ link = TRUE /\ awaiting = FALSE /\ sent = <<>> /\ faults = 0

-----------------------------------------------------------------------------
(* THE HOST *)

(* Baselines::get *)
BaselineOf(s) == {b \in ToSet(ring) : b.seq = s}

(* The baseline a packet s may be a delta on: acknowledged, and still in the ring. *)
Baseline == IF lastAck = None THEN {} ELSE BaselineOf(lastAck)

(* Baselines::push *)
Pushed(b) ==
  LET longer == Append(ring, b) IN IF Len(longer) > Ring THEN Tail(longer) ELSE longer

(* BroadcastSnapshotCommand, for this recipient: a keyframe asks nobody whether *)
(* the client wants one, so a nack stays for the packet after it.               *)
Send(t, body) ==
  LET s        == seq + 1
      keyframe == s % KeyframeEvery = 0
      mayDelta == ~keyframe /\ ~nackedFull /\ Baseline # {}
      packet   == IF mayDelta
                  THEN LET b == CHOOSE b \in Baseline : TRUE
                       IN  DeltaOn(b.seq, s, t, Delta(b.body, body, s))
                  ELSE Full(s, t, body)
  IN  /\ seq < MaxSeq
      /\ seq' = s
      /\ nackedFull' = (nackedFull /\ keyframe)
      /\ ring' = Pushed([seq |-> s, tick |-> t, body |-> body])
      /\ sent' = Put(sent, s, t)
      /\ down' = IF link THEN down \cup {packet} ELSE down

(* broadcast_snapshot at tick t: only to who is listening. *)
Broadcast(t, body) ==
  IF listed THEN Send(t, body) ELSE UNCHANGED <<seq, nackedFull, ring, sent, down>>

(* A pass of the tick loop: the world moves on, and is told every SendEvery ticks. *)
HostTick(body) ==
  /\ tick < MaxTick
  /\ tick' = tick + 1 /\ word' = Put(word, tick + 1, body) /\ passesHeld' = 0
  /\ IF (tick + 1) % SendEvery = 0 THEN Broadcast(tick + 1, body)
     ELSE UNCHANGED <<seq, nackedFull, ring, sent, down>>
  /\ UNCHANGED <<listed, lastAck, clientVars, up, link, awaiting, faults>>

(* A pass with the clock held: the first and every HeldEvery-th is told again. *)
HostHeldPass ==
  /\ tick % SendEvery = 0
  /\ passesHeld' = (passesHeld + 1) % HeldEvery
  /\ IF passesHeld = 0 THEN Broadcast(tick, word[tick])
     ELSE UNCHANGED <<seq, nackedFull, ring, sent, down>>
  /\ UNCHANGED <<tick, word, listed, lastAck, clientVars, up, link, awaiting, faults>>

(* record_ack: the newest one counts, in whatever order they come. *)
RecordAck(m) ==
  /\ lastAck' = IF Newer(m.ack, lastAck) THEN m.ack ELSE lastAck
  /\ nackedFull' = (nackedFull \/ m.nack)

(* forward_received_inputs: a packet without an acknowledgement says nothing here. *)
HostReceive(m) ==
  /\ m \in up /\ m.ack # None /\ listed
  /\ RecordAck(m)
  /\ UNCHANGED <<hostVars, listed, seq, ring, sent, clientVars, linkVars>>

-----------------------------------------------------------------------------
(* THE CLIENT *)

(* record_body: the bodies of the highest seqs are kept. *)
Recorded(s, t, body) ==
  LET all == Put(bodies, s, [tick |-> t, body |-> body])
  IN  IF Cardinality(DOMAIN all) > Keep THEN RestrictDomain(all, LAMBDA x : x # Min(DOMAIN all)) ELSE all

(* Mutant: rebuilt against the newest body held. *)
BodyHeldNewest(m) == IF m.kind = "full" THEN {m.body}
  ELSE {Rebuilt(bodies[s].body, m.delta) : s \in {x \in DOMAIN bodies : x = Max(DOMAIN bodies)}}

(* The body of a packet, if it can be rebuilt. *)
BodyOf(m) == IF m.kind = "full" THEN {m.body}
  ELSE {Rebuilt(bodies[b].body, m.delta) : b \in {m.base} \cap DOMAIN bodies}

(* Mutant: the last packet to arrive is the one that waits. *)
IsNewsToTheApplied(t) == applied = None \/ t > applied.tick

(* newest_seen: what was applied and what waits to be. *)
IsNews(t) == /\ applied = None \/ t > applied.tick
             /\ pending = None \/ t > pending.tick

(* receive_snapshot *)
ClientReceive(m) ==
  /\ m \in down
  /\ IF BodyOf(m) = {}
     THEN nack' = TRUE /\ UNCHANGED <<bodies, pending>>
     ELSE LET body == CHOOSE b \in BodyOf(m) : TRUE
          IN  /\ bodies' = Recorded(m.seq, m.tick, body)
              /\ pending' = IF IsNews(m.tick) THEN [tick |-> m.tick, seq |-> m.seq, body |-> body] ELSE pending
              /\ UNCHANGED nack
  /\ UNCHANGED <<hostVars, peerVars, isClient, applied, appliedSeq, lastSentAck, linkVars>>

(* handle_server_snapshot: what waits is taken; a peer without a role drops it. *)
ApplyPending ==
  LET takes == pending # None /\ isClient
  IN  /\ pending' = None
      /\ applied' = IF takes THEN [tick |-> pending.tick, body |-> pending.body] ELSE applied
      /\ appliedSeq' = IF takes THEN pending.seq ELSE appliedSeq

(* send_local_input at the end of the pass: a held clock speaks only to ask for *)
(* a full body, a client at rest only to acknowledge something new.             *)
SendLocalInput(held, pressing) ==
  LET news  == appliedSeq' # None /\ appliedSeq' # lastSentAck
      sends == isClient /\ IF held THEN nack ELSE pressing \/ news \/ nack
  IN  IF sends
      THEN /\ up' = IF link THEN up \cup {[ack |-> appliedSeq', nack |-> nack]} ELSE up
           /\ nack' = FALSE /\ lastSentAck' = appliedSeq'
      ELSE UNCHANGED <<up, nack, lastSentAck>>

(* A pass of the client's tick loop. *)
ClientPass(held, pressing) ==
  /\ awaiting => held
  /\ ApplyPending
  /\ SendLocalInput(held, pressing)
  /\ UNCHANGED <<hostVars, peerVars, isClient, bodies, down, link, awaiting, faults>>

(* watch_for_starvation: the host has not been heard for too long. *)
Starve ==
  /\ isClient /\ applied # None /\ ~awaiting /\ ~nack /\ faults < MaxFaults
  /\ nack' = TRUE /\ faults' = faults + 1
  /\ UNCHANGED <<hostVars, peerVars, isClient, bodies, pending, applied, appliedSeq, lastSentAck,
                 down, up, link, awaiting>>

(* The role is adopted, after the data channel is up: a door of the session, at *)
(* which everything learnt about a host is forgotten.                           *)
Adopt ==
  /\ ~isClient
  /\ isClient' = TRUE /\ bodies' = <<>> /\ pending' = None /\ applied' = None
  /\ appliedSeq' = None /\ nack' = FALSE /\ lastSentAck' = None
  /\ UNCHANGED <<hostVars, peerVars, linkVars>>

-----------------------------------------------------------------------------
(* THE CONNECTION *)

(* What was under way is lost; either end finds out in its own time. *)
LoseLink ==
  /\ link /\ listed /\ isClient /\ ~awaiting /\ faults < MaxFaults
  /\ link' = FALSE /\ down' = {} /\ up' = {} /\ faults' = faults + 1
  /\ UNCHANGED <<hostVars, peerVars, clientVars, awaiting>>

(* Mutant: the acknowledgement outlives the connection. *)
HostForgetsButTheAck ==
  /\ ~link /\ listed
  /\ listed' = FALSE /\ seq' = 0 /\ nackedFull' = FALSE /\ ring' = <<>> /\ sent' = <<>>
  /\ UNCHANGED <<lastAck, hostVars, clientVars, linkVars>>

(* PeerLeft, on the removal of the LobbyClient: each PerPeer forgets it. *)
HostForgets ==
  /\ ~link /\ listed
  /\ listed' = FALSE /\ seq' = 0 /\ lastAck' = None /\ nackedFull' = FALSE /\ ring' = <<>>
  /\ sent' = <<>>
  /\ UNCHANGED <<hostVars, clientVars, linkVars>>

(* forget_the_old_link *)
ForgetTheOldLink ==
  /\ appliedSeq' = None /\ lastSentAck' = None /\ nack' = FALSE /\ pending' = None
  /\ bodies' = <<>>

(* The lobby waits for its host to come back: HostLinkReset. *)
ClientForgets ==
  /\ ~link /\ ~awaiting
  /\ awaiting' = TRUE
  /\ ForgetTheOldLink
  /\ UNCHANGED <<hostVars, peerVars, isClient, applied, down, up, link, faults>>

(* A new connection to the same host, once both ends know the old one is gone. *)
Relink ==
  /\ ~link /\ ~listed /\ awaiting
  /\ link' = TRUE /\ listed' = TRUE /\ awaiting' = FALSE
  /\ UNCHANGED <<hostVars, seq, lastAck, nackedFull, ring, sent, clientVars, down, up, faults>>

Next ==
  \/ \E body \in Worlds : HostTick(body)
  \/ HostHeldPass
  \/ \E m \in up : HostReceive(m)
  \/ \E m \in down : ClientReceive(m)
  \/ \E held, pressing \in BOOLEAN : ClientPass(held, pressing)
  \/ Starve \/ Adopt
  \/ LoseLink \/ HostForgets \/ ClientForgets \/ Relink

Spec == Init /\ [][Next]_vars

-----------------------------------------------------------------------------
(* PROPERTIES *)

(* Every variable has its type; the ring and the bodies are within their bounds. *)
TypeOK ==
  /\ tick \in 0..MaxTick /\ word \in [0..tick -> Body] /\ passesHeld \in 0..(HeldEvery - 1)
  /\ listed \in BOOLEAN /\ seq \in 0..MaxSeq /\ lastAck \in 1..MaxSeq \cup {None} /\ nackedFull \in BOOLEAN
  /\ ring \in Seq([seq : 1..seq, tick : 0..tick, body : Body]) /\ Len(ring) <= Ring
  /\ isClient \in BOOLEAN /\ DOMAIN bodies \subseteq 1..MaxSeq /\ Cardinality(DOMAIN bodies) <= Keep
  /\ \A s \in DOMAIN bodies : bodies[s] \in [tick : 0..tick, body : Body]
  /\ pending \in [tick : 0..tick, seq : 1..MaxSeq, body : Body] \cup {None}
  /\ applied \in [tick : 0..tick, body : Body] \cup {None}
  /\ appliedSeq \in 1..MaxSeq \cup {None} /\ lastSentAck \in 1..MaxSeq \cup {None} /\ nack \in BOOLEAN
  /\ up \subseteq [ack : 1..MaxSeq \cup {None}, nack : BOOLEAN]
  /\ \A m \in down : m.seq \in 1..seq /\ m.tick \in 0..tick
  /\ link \in BOOLEAN /\ awaiting \in BOOLEAN /\ sent \in [1..seq -> 0..tick] /\ faults \in 0..MaxFaults

(* A body a client rebuilt is the body the host sent under that seq on this    *)
(* connection, whatever was lost, repeated, late or left from the last one     *)
(* (delta.rs:6: the recipient rebuilds the full body from its copy of the      *)
(* baseline): every component, despawned entities with them, and every         *)
(* resource the host had.  A resource it did not have may still be there, as   *)
(* an earlier packet of this connection had it.                                *)
RebuiltIsSent ==
  link => \A s \in DOMAIN bodies :
    /\ s \in DOMAIN sent /\ bodies[s].tick = sent[s]
    /\ \A p \in Part :
         \/ bodies[s].body[p] = word[sent[s]][p]
         \/ /\ p \in Resource /\ word[sent[s]][p] = Absent
            /\ \E b \in 1..(s - 1) : bodies[s].body[p] = word[sent[b]][p]

(* The rebuilt body is the full body (delta.rs:9-10).  Of resources the host    *)
(* removed it is not: build_delta has no place for them.                        *)
RebuiltIsTheFullBody ==
  link => \A s \in DOMAIN bodies : bodies[s].body = word[sent[s]]

(* The packet the host builds its next delta on is one the client still holds: *)
(* a delta against a body that is gone comes only from a packet that is late.  *)
BaselineIsHeld ==
  link /\ listed /\ BaselineOf(lastAck) # {} => lastAck \in DOMAIN bodies

(* No word the client heard is newer than what it applied or is about to apply: *)
(* of packets that arrive in any order, none but an older one is passed over.   *)
FreshestIsApplied ==
  isClient => \A s \in DOMAIN bodies :
    \/ applied # None /\ bodies[s].tick <= applied.tick
    \/ pending # None /\ bodies[s].tick <= pending.tick

(* A rated part is up to date on the packets that carry it (delta.rs:33,        *)
(* delta.rs:118: a type is carried only every nth delta).                       *)
RatedArrives ==
  link => \A s \in DOMAIN bodies : \A p \in Component :
    Carries(p, s) => bodies[s].body[p] = word[sent[s]][p]
==============================================================================
