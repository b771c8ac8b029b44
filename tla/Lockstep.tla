------------------------------- MODULE Lockstep -------------------------------
(***************************************************************************)
(* The lockstep session (crate bevy_ticked_lockstep_networking) without a  *)
(* change of host: the host rules each tick's actions and every peer runs  *)
(* the same rulings.  Clients schedule ahead, the host waits for them, the *)
(* rulings are broadcast; clients join from a snapshot while the session   *)
(* runs, leave, are kicked for stalling; the host pauses and resumes.      *)
(*                                                                         *)
(* A frame is PreUpdate (receive), the tick loop, Update (joins); a world  *)
(* is &mut inside each, so a system is a step, a pass of the tick loop is  *)
(* one step, and a frame is any sequence of them its order allows.  The    *)
(* messages of one type between two peers arrive in order and are not      *)
(* lost; the host reads batches of actions and the join handshake in       *)
(* different systems, so those two are queues of their own.                *)
(***************************************************************************)
EXTENDS Naturals, Sequences, FiniteSets, FiniteSetsExt, Functions, SequencesExt

CONSTANTS
  Host, Client,
  MaxTick,      \* bound on the host's clock
  HostBuffers,  \* what the controller may make of LockstepConfig::host_tick_buffer
  StartBuffer,  \* the configured client_tick_buffer
  Buffers,      \* what the controllers may make of it
  Horizon,      \* LockstepConfig::action_horizon
  JoinWindow,   \* PENDING_JOIN_WINDOW_TICKS
  TrustWindow,  \* HostMigrationPolicy::trust_window, what a client's tracker keeps
  MaxActions,   \* bound on the actions each peer takes
  MaxJoins,     \* bound on the times each client connects
  MaxRequests,  \* bound on the pauses and resumes the host asks for
  MenuClock,    \* where a client's clock may stand when it connects
  LeaveMidJoin, \* whether a participant may go while another client is joining
  Shrinks,      \* whether a client's buffer may shrink
  Kicks,        \* StallPolicy::kick_after, whether there is a limit
  Hasty,        \* whether the host asks again before what it asked has been run
  None          \* no tick

ASSUME BufferAssumption == HostBuffers \subseteq Nat \ {0} /\ HostBuffers # {} /\ StartBuffer \in Buffers /\ Buffers \subseteq Nat
ASSUME PeerAssumption == Host \notin Client /\ IsFiniteSet(Client) /\ None \notin Nat
ASSUME BoundAssumption ==
  MaxActions \in [Client \cup {Host} -> Nat] /\ MenuClock \subseteq Nat
  /\ MaxTick \in Nat /\ JoinWindow \in Nat /\ TrustWindow \in Nat
ASSUME FlagAssumption == {LeaveMidJoin, Shrinks, Kicks, Hasty} \subseteq BOOLEAN

Peer == Client \cup {Host}

VARIABLES
  clock,         \* CurrentTick of each peer
  tracker,       \* ActionTracker::ticks: tick -> player -> its actions
  system,        \* ActionTracker::system: tick -> the session's own actions
  roster,        \* LockstepRoster
  paused,        \* LockstepPaused
  joinedAt,      \* LockstepLobbyParticipant::joined_at_tick on the host, or None
  announced,     \* AnnouncedJoins
  departures,    \* PendingSystemActions
  pendingJoin,   \* PendingClientJoins
  lastBroadcast, \* LastBroadcastTick
  hostBuffer,    \* host_tick_buffer, the grace window
  asked,         \* KeptSessionRequests: what the host asked and has not staged
  resumeStaged,  \* ResumeStaged
  stage,         \* where a client is: out, asking, given a snapshot, or loaded
  given,         \* the tick of the snapshot a client was given
  stash,         \* StashedAuthoritativeTicks
  lastScheduled, \* LastScheduledTick
  buffer,        \* client_tick_buffer
  batches, handshake, \* client to host: ClientScheduledActions; request, ClientLoaded
  inbox,         \* host to client: rulings, participants, the snapshot
  ran,           \* history: what each peer ran, tick by tick, since it joined
  sent,          \* history: the tick each action of a player was scheduled for
  joins, requests, lastAsked  \* bounds, and the last pause or resume asked for

hostVars   == <<joinedAt, announced, departures, pendingJoin, lastBroadcast, hostBuffer>>
pauseVars  == <<asked, resumeStaged, requests, lastAsked>>
clientVars == <<stage, given, stash, lastScheduled, buffer, joins>>
netVars    == <<batches, handshake, inbox>>
worldVars  == <<clock, tracker, system, roster, paused, ran, sent>>
vars == <<hostVars, pauseVars, clientVars, netVars, worldVars>>

-----------------------------------------------------------------------------
(* Partial functions. *)

Empty == <<>>
Put(f, k, v) == [x \in DOMAIN f \cup {k} |-> IF x = k THEN v ELSE f[x]]
Lookup(f, k, default) == IF k \in DOMAIN f THEN f[k] ELSE default
KeepFrom(f, t) == RestrictDomain(f, LAMBDA u : u >= t)

Max2(a, b) == IF a > b THEN a ELSE b

(* SystemAction *)
Joined(p) == [kind |-> "joined", who |-> p]
Left(p)   == [kind |-> "left", who |-> p]
Pause     == [kind |-> "pause"]
Resume    == [kind |-> "resume"]

(* AuthoritativeTick: the host's whole ruling on one tick. *)
Ruling(t, players, sys) == [type |-> "ruling", tick |-> t, players |-> players, system |-> sys]

(* ParticipantJoined, one for the lobby and one per participant for a client *)
(* that is accepted, which are sent packed and arrive together; and          *)
(* JoinSnapshotResponse.                                                     *)
Participants(who) == [type |-> "participants", joins |-> who]
Snapshot(t)         == [type |-> "snapshot", tick |-> t]

Connected == {c \in Client : stage[c] # "out"}

(* LobbyMessage: to every client of the lobby. *)
Broadcast(box, messages) ==
  [c \in Client |-> IF c \in Connected THEN box[c] \o messages ELSE box[c]]

-----------------------------------------------------------------------------
Init ==
  /\ clock \in [Peer -> MenuClock \cup {0}] /\ clock[Host] = 0
  /\ tracker = [p \in Peer |-> Empty] /\ system = [p \in Peer |-> Empty]
  /\ roster = [p \in Peer |-> {}] /\ paused = [p \in Peer |-> FALSE]
  /\ joinedAt = [p \in Peer |-> IF p = Host THEN 0 ELSE None]
  /\ announced = {} /\ departures = <<>> /\ pendingJoin = Empty /\ lastBroadcast = 0
  /\ hostBuffer \in HostBuffers
  /\ asked = {} /\ resumeStaged = FALSE /\ requests = 0 /\ lastAsked = "resume"
  /\ stage = [c \in Client |-> "out"] /\ given = [c \in Client |-> None]
  /\ stash = [c \in Client |-> <<>>] /\ lastScheduled = [c \in Client |-> None]
  /\ buffer = [c \in Client |-> StartBuffer] /\ joins = [c \in Client |-> 0]
  /\ batches = [c \in Client |-> <<>>] /\ handshake = [c \in Client |-> <<>>]
  /\ inbox = [c \in Client |-> <<>>]
  /\ ran = [p \in Peer |-> Empty] /\ sent = [p \in Peer |-> <<>>]

-----------------------------------------------------------------------------
(* THE HOST RULES *)

(* participant_is_required_for_tick, past its initial buffer window. *)
Required(c, t) == joinedAt[c] # None /\ t >= joinedAt[c]
(* Mutant: the buffer window is a tick too long. *)
InGraceLonger(c, t) == t <= joinedAt[c] + hostBuffer + 1

InGrace(c, t)  == t <= joinedAt[c] + hostBuffer

Entry(p, t) == Lookup(tracker[p], t, Empty)

(* sync_lockstep_pause_state and track_stall: who the host waits on before t. *)
WaitedOn(t) == {c \in Client : Required(c, t) /\ ~InGrace(c, t) /\ c \notin DOMAIN Entry(Host, t)}

(* stage_system_actions: departures, the joins whose agreed tick this is, and *)
(* a pause or a resume.                                                       *)
Joining(t) == {p \in Peer : joinedAt[p] # None /\ joinedAt[p] <= t /\ p \notin announced}
Pausing    == "pause" \in asked /\ ~paused[Host]
Resuming   == ~Pausing /\ "resume" \in asked /\ paused[Host]

Staged(t) ==
  LET joiners == SetToSeq(Joining(t))
  IN  departures \o [i \in 1..Len(joiners) |-> Joined(joiners[i])]
      \o (IF Pausing THEN <<Pause>> ELSE IF Resuming THEN <<Resume>> ELSE <<>>)

SystemOf(p, t) == Lookup(system[p], t, <<>>)

(* Mutant: what is staged for a tick takes the place of what was.            *)
StageOver(was, actions) == IF actions = <<>> THEN was ELSE actions

(* stage_into_tracker: a tick that has waited may have been staged before.   *)
StageInto(was, actions) == was \o actions

Stage ==
  /\ announced' = announced \cup Joining(clock[Host] + 1)
  /\ departures' = <<>> /\ asked' = {}
  /\ UNCHANGED <<joinedAt, hostBuffer, requests, lastAsked>>

(* host_hold_when_paused, once the pass has staged. *)
SessionHeld == paused[Host] /\ ~resumeStaged /\ ~Resuming

(* apply_system_actions, of each in turn: the last about a player, or about  *)
(* the pause, decides.                                                       *)
About(actions, p) ==
  {i \in DOMAIN actions : actions[i].kind \in {"joined", "left"} /\ actions[i].who = p}
AboutPause(actions) == {i \in DOMAIN actions : actions[i].kind \in {"pause", "resume"}}

RosterAfter(old, actions) ==
  {p \in Peer : IF About(actions, p) = {} THEN p \in old
                ELSE actions[Max(About(actions, p))].kind = "joined"}
PausedAfter(old, actions) ==
  IF AboutPause(actions) = {} THEN old ELSE actions[Max(AboutPause(actions))].kind = "pause"

(* What a peer ran at a tick: the actions of the players who took any, the   *)
(* session's own, and the roster and pause the game saw.                     *)
Ran(players, actions, r, held) ==
  [players |-> RestrictValues(players, LAMBDA a : a # <<>>), system |-> actions,
   roster |-> r, paused |-> held]

(* Run tick t on peer p from its tracker, whose entry for t is players. *)
RunTick(p, t, players, actions) ==
  LET r    == RosterAfter(roster[p], actions)
      held == PausedAfter(paused[p], actions)
  IN  /\ clock' = [clock EXCEPT ![p] = t]
      /\ roster' = [roster EXCEPT ![p] = r] /\ paused' = [paused EXCEPT ![p] = held]
      /\ ran' = [ran EXCEPT ![p] = Put(@, t, Ran(players, actions, r, held))]

(* broadcast_authoritative_actions: the ticks that are complete go out, the  *)
(* participants in their buffer window with nothing filled in.               *)
(* CompleteButGrace is a mutant: it waits for a joiner's first word.         *)
CompleteButGrace(t, players) == \A c \in Client : Required(c, t) => c \in DOMAIN players
Complete(t, players) == \A c \in Client : Required(c, t) => c \in DOMAIN players \/ InGrace(c, t)
Filled(t, players) ==
  [p \in DOMAIN players \cup {c \in Client : Required(c, t)} |-> Lookup(players, p, <<>>)]

BroadcastThrough(now, entry) ==
  CHOOSE t \in lastBroadcast..now :
    /\ \A u \in (lastBroadcast + 1)..t : Complete(u, entry[u])
    /\ t = now \/ ~Complete(t + 1, entry[t + 1])

(* cleanup_old_tracker_entries, on the host. *)
KeptJoins(now) == RestrictValues(pendingJoin, LAMBDA t : t + JoinWindow >= now)
HostFloor(now) ==
  LET kept == KeptJoins(now) IN Min({kept[c] + 1 : c \in DOMAIN kept} \cup {now})

(* What a player may have done since its last flush: nothing, or its next    *)
(* action, numbered.                                                         *)
MayTake(p) == {<<>>} \cup (IF Len(sent[p]) < MaxActions[p]
                           THEN {<<Len(sent[p]) + 1>>} ELSE {})

(* A pass of the host's tick loop that runs the next tick, with the actions  *)
(* the host has taken going straight into it.                                *)
HostTick ==
  LET next == clock[Host] + 1
      staged == StageInto(SystemOf(Host, next), Staged(next))
  IN  /\ next <= MaxTick /\ WaitedOn(next) = {} /\ ~SessionHeld
      /\ \E acts \in MayTake(Host) :
           LET players == IF acts = <<>> THEN Entry(Host, next)
                          ELSE Put(Entry(Host, next), Host, acts)
               ticks == Put(tracker[Host], next, players)
               rules == Put(system[Host], next, staged)
               through == BroadcastThrough(next, [t \in (lastBroadcast + 1)..next |->
                                                    Lookup(ticks, t, Empty)])
               rulings == [i \in 1..(through - lastBroadcast) |->
                             LET t == lastBroadcast + i
                             IN  Ruling(t, Filled(t, Lookup(ticks, t, Empty)), Lookup(rules, t, <<>>))]
           IN  /\ RunTick(Host, next, players, staged)
               /\ sent' = [sent EXCEPT ![Host] = IF acts = <<>> THEN @ ELSE Append(@, next)]
               /\ IF Connected = {}
                  THEN lastBroadcast' = Max2(lastBroadcast, next) /\ UNCHANGED inbox
                  ELSE lastBroadcast' = through /\ inbox' = Broadcast(inbox, rulings)
               /\ tracker' = [tracker EXCEPT ![Host] = KeepFrom(
                    IF players = Empty THEN @ ELSE ticks, HostFloor(next))]
               /\ system' = [system EXCEPT ![Host] = KeepFrom(
                    IF staged = <<>> THEN @ ELSE rules, HostFloor(next))]
               /\ pendingJoin' = KeptJoins(next)
      /\ resumeStaged' = FALSE
      /\ Stage
      /\ UNCHANGED <<clientVars, batches, handshake>>

(* A pass that is held, by a participant or by the pause: it only stages. *)
HostHeldPass ==
  LET next == clock[Host] + 1
  IN  /\ next <= MaxTick /\ (WaitedOn(next) # {} \/ SessionHeld)
      /\ Stage
      /\ system' = IF Staged(next) = <<>> THEN system
                   ELSE [system EXCEPT ![Host] =
                           Put(@, next, StageInto(SystemOf(Host, next), Staged(next)))]
      /\ resumeStaged' = (resumeStaged \/ Resuming)
      /\ UNCHANGED <<clientVars, netVars, clock, tracker, roster, paused, ran, sent,
                     pendingJoin, lastBroadcast>>

(* receive_client_actions: late, too far ahead or from no participant, a     *)
(* batch is dropped; the rest are joined to what the tick already holds.     *)
RuledThrough == Max2(clock[Host], lastBroadcast)
Accepts(c, t) == joinedAt[c] # None /\ t > RuledThrough /\ t <= RuledThrough + Horizon

Scheduled(entry, p, actions) == Put(entry, p, Lookup(entry, p, <<>>) \o actions)

HostReceiveBatch(c) ==
  /\ batches[c] # <<>>
  /\ LET batch == Head(batches[c])
     IN  tracker' = IF Accepts(c, batch.tick)
                    THEN [tracker EXCEPT ![Host] =
                            Put(@, batch.tick, Scheduled(Entry(Host, batch.tick), c, batch.actions))]
                    ELSE tracker
  /\ batches' = [batches EXCEPT ![c] = Tail(@)]
  /\ UNCHANGED <<hostVars, pauseVars, clientVars, handshake, inbox, clock, system, roster,
                 paused, ran, sent>>

-----------------------------------------------------------------------------
(* THE HOST LETS CLIENTS IN AND OUT *)

(* receive_join_snapshot_requests, and the game's snapshot sent. *)
AnswerRequest(c) ==
  /\ handshake[c] # <<>> /\ Head(handshake[c]).type = "request"
  /\ handshake' = [handshake EXCEPT ![c] = Tail(@)]
  /\ IF joinedAt[c] # None
     THEN UNCHANGED <<pendingJoin, inbox>>
     ELSE /\ pendingJoin' = Put(pendingJoin, c, Lookup(pendingJoin, c, clock[Host]))
          /\ inbox' = [inbox EXCEPT ![c] = Append(@, Snapshot(clock[Host]))]
  /\ UNCHANGED <<joinedAt, announced, departures, lastBroadcast, hostBuffer, pauseVars, clientVars,
                 batches, worldVars>>

(* broadcast_buffered_authoritative_actions_to_loaded_clients: what the host *)
(* has run since the client's snapshot, as its tracker holds it.             *)
CatchUp(c) ==
  LET from == Lookup(pendingJoin, c, clock[Host]) + 1
  IN  [i \in 1..(clock[Host] + 1 - from) |->
         Ruling(from + i - 1, Entry(Host, from + i - 1), SystemOf(Host, from + i - 1))]

(* activate_loaded_client_participants and the three systems after it, which *)
(* run in the same frame: the client gets the roster and the ticks it missed, *)
(* every client hears of it.                                                  *)
Acceptance(size) == RuledThrough + 1 + Max2(hostBuffer, size)

AcceptLoaded(c) ==
  /\ handshake[c] # <<>> /\ Head(handshake[c]).type = "loaded"
  /\ handshake' = [handshake EXCEPT ![c] = Tail(@)]
  /\ IF joinedAt[c] # None
     THEN UNCHANGED <<joinedAt, pendingJoin, inbox>>
     ELSE LET at == Acceptance(Head(handshake[c]).buffer)
              members == {<<p, joinedAt[p]>> : p \in {q \in Peer : joinedAt[q] # None}}
              newcomer == Participants({<<c, at>>})
          IN  /\ joinedAt' = [joinedAt EXCEPT ![c] = at]
              /\ inbox' = [Broadcast(inbox, <<newcomer>>) EXCEPT ![c] =
                   inbox[c] \o <<Participants(members \cup {<<c, at>>}), newcomer>> \o CatchUp(c)]
              /\ pendingJoin' = RestrictDomain(pendingJoin, LAMBDA d : d # c)
  /\ UNCHANGED <<announced, departures, lastBroadcast, hostBuffer, pauseVars, clientVars, batches,
                 worldVars>>

(* queue_departure and forget_departed_client_joins, when the client's       *)
(* connection is gone.                                                       *)
(* DepartButKept is a mutant: who has left is still a participant.           *)
DepartButKept(c) ==
  /\ IF joinedAt[c] = None THEN UNCHANGED <<departures, announced>>
     ELSE departures' = Append(departures, Left(c)) /\ announced' = announced \ {c}
  /\ pendingJoin' = RestrictDomain(pendingJoin, LAMBDA d : d # c)
  /\ UNCHANGED <<joinedAt, lastBroadcast, hostBuffer>>

Depart(c) ==
  /\ joinedAt' = [joinedAt EXCEPT ![c] = None]
  /\ IF joinedAt[c] = None THEN UNCHANGED <<departures, announced>>
     ELSE departures' = Append(departures, Left(c)) /\ announced' = announced \ {c}
  /\ pendingJoin' = RestrictDomain(pendingJoin, LAMBDA d : d # c)
  /\ UNCHANGED <<lastBroadcast, hostBuffer>>

(* The client's lobby is gone, and what it held of the session with it: the  *)
(* two resets on a removed lobby.  What was in flight goes with the link.    *)
Disconnect(c) ==
  /\ stage' = [stage EXCEPT ![c] = "out"] /\ given' = [given EXCEPT ![c] = None]
  /\ stash' = [stash EXCEPT ![c] = <<>>]
  /\ lastScheduled' = [lastScheduled EXCEPT ![c] = None]
  /\ buffer' = [buffer EXCEPT ![c] = StartBuffer]
  /\ tracker' = [tracker EXCEPT ![c] = Empty] /\ system' = [system EXCEPT ![c] = Empty]
  /\ roster' = [roster EXCEPT ![c] = {}] /\ paused' = [paused EXCEPT ![c] = FALSE]
  /\ batches' = [batches EXCEPT ![c] = <<>>] /\ handshake' = [handshake EXCEPT ![c] = <<>>]
  /\ inbox' = [inbox EXCEPT ![c] = <<>>]
  /\ UNCHANGED <<pauseVars, joins, clock, ran, sent>>

(* A client whose request for a snapshot was answered, and which is not let in. *)
MidJoin(c) ==
  /\ stage[c] # "out" /\ joinedAt[c] = None
  /\ \A i \in DOMAIN handshake[c] : handshake[c][i].type # "request"

Leave(c) ==
  /\ stage[c] # "out"
  /\ LeaveMidJoin \/ joinedAt[c] = None \/ \A d \in Client \ {c} : ~MidJoin(d)
  /\ Depart(c) /\ Disconnect(c)

(* kick_stalled_participants: who the host waits on, once it has waited long. *)
Kick(c) ==
  /\ Kicks /\ stage[c] # "out"
  /\ clock[Host] < MaxTick /\ c \in WaitedOn(clock[Host] + 1)
  /\ LeaveMidJoin \/ \A d \in Client \ {c} : ~MidJoin(d)
  /\ Depart(c) /\ Disconnect(c)

(* The host asks for a pause or a resume; a Hasty one does not wait for what *)
(* it asked before to have run.                                              *)
Outstanding == asked # {} \/ \E t \in DOMAIN system[Host] : t > clock[Host]

Ask(what) ==
  /\ requests < MaxRequests /\ (Hasty \/ ~Outstanding)
  /\ what # lastAsked
  /\ asked' = asked \cup {what} /\ lastAsked' = what /\ requests' = requests + 1
  /\ UNCHANGED <<hostVars, resumeStaged, clientVars, netVars, worldVars>>

-----------------------------------------------------------------------------
(* A CLIENT *)

(* A client opens its lobby and asks for a snapshot, its clock wherever it   *)
(* stood: request_join_snapshot_on_client_join.                              *)
Connect(c) ==
  /\ stage[c] = "out" /\ joins[c] < MaxJoins
  /\ stage' = [stage EXCEPT ![c] = "asking"] /\ joins' = [joins EXCEPT ![c] = @ + 1]
  /\ \E t \in MenuClock : clock' = [clock EXCEPT ![c] = t]
  /\ ran' = [ran EXCEPT ![c] = Empty]
  /\ handshake' = [handshake EXCEPT ![c] = <<[type |-> "request"]>>]
  /\ UNCHANGED <<hostVars, pauseVars, given, stash, lastScheduled, buffer, batches, inbox,
                 tracker, system, roster, paused, sent>>

(* Mutant: a ruling heard again is joined to itself. *)
MergeRulings(ticks, ms) ==
  FoldLeft(LAMBDA f, m :
             LET was == Lookup(f, m.tick, Empty)
             IN  Put(f, m.tick, [p \in DOMAIN was \cup DOMAIN m.players |->
                                   Lookup(was, p, <<>>) \o Lookup(m.players, p, <<>>)]), ticks, ms)

(* apply_authoritative_tick, of each ruling in turn: of the players it names *)
(* it takes the place of what was there, and so the last one stands.         *)
Naming(ms, t, p) == {i \in DOMAIN ms : ms[i].tick = t /\ p \in DOMAIN ms[i].players}
ApplyRulings(ticks, ms) ==
  [t \in DOMAIN ticks \cup {ms[i].tick : i \in DOMAIN ms} |->
     LET was   == Lookup(ticks, t, Empty)
         named == {p \in Peer : Naming(ms, t, p) # {}}
     IN  [p \in DOMAIN was \cup named |->
            IF p \in named THEN ms[Max(Naming(ms, t, p))].players[p] ELSE was[p]]]

(* A ruling that says nothing of the session leaves what was there.          *)
Saying(ms, t) == {i \in DOMAIN ms : ms[i].tick = t /\ ms[i].system # <<>>}
ApplySystem(rules, ms) ==
  LET said == {t \in {ms[i].tick : i \in DOMAIN ms} : Saying(ms, t) # {}}
  IN  [t \in DOMAIN rules \cup said |-> IF t \in said THEN ms[Max(Saying(ms, t))].system ELSE rules[t]]

Apply(c, ms) ==
  /\ tracker' = [tracker EXCEPT ![c] = ApplyRulings(@, ms)]
  /\ system' = [system EXCEPT ![c] = ApplySystem(@, ms)]

(* receive_authoritative_actions, after what was stashed has been replayed. *)
ReceiveRuling(c) ==
  /\ inbox[c] # <<>> /\ Head(inbox[c]).type = "ruling"
  /\ IF stage[c] = "loaded"
     THEN stash[c] = <<>> /\ Apply(c, <<Head(inbox[c])>>) /\ UNCHANGED stash
     ELSE stash' = [stash EXCEPT ![c] = Append(@, Head(inbox[c]))] /\ UNCHANGED <<tracker, system>>
  /\ inbox' = [inbox EXCEPT ![c] = Tail(@)]
  /\ UNCHANGED <<hostVars, pauseVars, stage, given, lastScheduled, buffer, joins, batches,
                 handshake, clock, roster, paused, ran, sent>>

(* replay_stashed_authoritative_actions *)
ReplayStash(c) ==
  /\ stage[c] = "loaded" /\ stash[c] # <<>>
  /\ Apply(c, stash[c]) /\ stash' = [stash EXCEPT ![c] = <<>>]
  /\ UNCHANGED <<hostVars, pauseVars, stage, given, lastScheduled, buffer, joins, netVars,
                 clock, roster, paused, ran, sent>>

(* apply_received_participants: who joined before this peer's clock is put   *)
(* on the roster here, the others by the tick they join on.                  *)
(* SeededBefore is a mutant: it leaves out who joined at this very tick.     *)
SeededBefore(who, now) == {j[1] : j \in {k \in who : k[2] < now}}
SeededBy(who, now) == {j[1] : j \in {k \in who : k[2] <= now}}

ReceiveParticipants(c) ==
  /\ inbox[c] # <<>> /\ Head(inbox[c]).type = "participants"
  /\ roster' = [roster EXCEPT ![c] = @ \cup SeededBy(Head(inbox[c]).joins, clock[c])]
  /\ inbox' = [inbox EXCEPT ![c] = Tail(@)]
  /\ UNCHANGED <<hostVars, pauseVars, clientVars, batches, handshake, clock, tracker, system,
                 paused, ran, sent>>

(* receive_join_snapshot_responses *)
ReceiveSnapshot(c) ==
  /\ inbox[c] # <<>> /\ Head(inbox[c]).type = "snapshot"
  /\ stage' = [stage EXCEPT ![c] = "given"]
  /\ given' = [given EXCEPT ![c] = Head(inbox[c]).tick]
  /\ lastScheduled' = [lastScheduled EXCEPT ![c] = None]
  /\ inbox' = [inbox EXCEPT ![c] = Tail(@)]
  /\ UNCHANGED <<hostVars, pauseVars, stash, buffer, joins, batches, handshake, worldVars>>

(* The game applies the snapshot, which moves its clock and empties its      *)
(* tracker, and send_client_loaded_after_snapshot_applied tells the host.    *)
ApplySnapshot(c) ==
  /\ stage[c] = "given"
  /\ stage' = [stage EXCEPT ![c] = "loaded"] /\ given' = [given EXCEPT ![c] = None]
  /\ clock' = [clock EXCEPT ![c] = given[c]]
  /\ tracker' = [tracker EXCEPT ![c] = Empty]
  /\ ran' = [ran EXCEPT ![c] = Empty]
  /\ lastScheduled' = [lastScheduled EXCEPT ![c] = given[c]]
  /\ handshake' = [handshake EXCEPT ![c] = Append(@, [type |-> "loaded", buffer |-> buffer[c]])]
  /\ UNCHANGED <<hostVars, pauseVars, stash, buffer, joins, batches, inbox, system, roster,
                 paused, sent>>

(* flush_pending_actions, on a client: its actions for the tick its buffer   *)
(* names, and empty batches for the ticks a grown buffer has skipped.        *)
(* FlushUnfilled and FlushAgain are mutants: no batch for a skipped tick, and *)
(* the actions on every one of them.                                          *)
FlushUnfilled(last, at, actions) == <<[tick |-> at, actions |-> actions]>>
FlushAgain(last, at, actions) ==
  [i \in 1..(IF at > last THEN at - last ELSE 1) |->
     [tick |-> IF at > last THEN last + i ELSE at, actions |-> actions]]

Flush(last, at, actions) ==
  [i \in 1..(IF at > last + 1 THEN at - last - 1 ELSE 0) |-> [tick |-> last + i, actions |-> <<>>]]
    \o <<[tick |-> at, actions |-> actions]>>

(* A pass of a client's tick loop: it holds until it has loaded, has the     *)
(* host on its roster and the next tick's ruling, then flushes and runs it.  *)
(* MayRunUnknowing is a mutant: it does not wait for the roster.             *)
MayRunUnknowing(c) ==
  stage[c] = "loaded" /\ stash[c] = <<>> /\ clock[c] + 1 \in DOMAIN tracker[c]

MayRun(c) ==
  /\ stage[c] = "loaded" /\ stash[c] = <<>>
  /\ Host \in roster[c] /\ clock[c] + 1 \in DOMAIN tracker[c]

ClientPass(c) ==
  LET next == clock[c] + 1
      at == next + buffer[c]
  IN  /\ MayRun(c)
      /\ \E acts \in MayTake(c) :
           /\ batches' = [batches EXCEPT ![c] = @ \o Flush(lastScheduled[c], at, acts)]
           /\ sent' = [sent EXCEPT ![c] = IF acts = <<>> THEN @ ELSE Append(@, at)]
      /\ lastScheduled' = [lastScheduled EXCEPT ![c] = Max2(@, at)]
      /\ RunTick(c, next, tracker[c][next], SystemOf(c, next))
      /\ tracker' = [tracker EXCEPT ![c] = RestrictDomain(@, LAMBDA t : t + TrustWindow >= next)]
      /\ system' = [system EXCEPT ![c] = RestrictDomain(@, LAMBDA t : t + TrustWindow >= next)]
      /\ UNCHANGED <<hostVars, pauseVars, stage, given, stash, buffer, joins, handshake, inbox>>

(* adapt_tick_buffer and size_buffer_from_margin: the buffer grows at once by *)
(* any amount, and shrinks by a tick.                                         *)
Resize(c) ==
  /\ stage[c] # "out"
  /\ \E b \in Buffers :
       /\ b > buffer[c] \/ (Shrinks /\ b = buffer[c] - 1)
       /\ buffer' = [buffer EXCEPT ![c] = b]
  /\ UNCHANGED <<hostVars, pauseVars, stage, given, stash, lastScheduled, joins, netVars, worldVars>>

(* The same controller on the host, for the window it gives a client.        *)
ResizeHost ==
  /\ \E b \in HostBuffers : (b > hostBuffer \/ b = hostBuffer - 1) /\ hostBuffer' = b
  /\ UNCHANGED <<joinedAt, announced, departures, pendingJoin, lastBroadcast, pauseVars,
                 clientVars, netVars, worldVars>>

-----------------------------------------------------------------------------
HostStep(c) ==
  \/ HostReceiveBatch(c) \/ AnswerRequest(c) \/ AcceptLoaded(c)

ClientStep(c) ==
  \/ ReceiveRuling(c) \/ ReplayStash(c) \/ ReceiveParticipants(c) \/ ReceiveSnapshot(c)
  \/ ApplySnapshot(c) \/ ClientPass(c)

Next ==
  \/ HostTick
  \/ HostHeldPass
  \/ ResizeHost
  \/ \E what \in {"pause", "resume"} : Ask(what)
  \/ \E c \in Client : \/ HostStep(c) \/ ClientStep(c)
                       \/ Connect(c) \/ Leave(c) \/ Kick(c) \/ Resize(c)

Spec == Init /\ [][Next]_vars

(* What the frames of the peers and the link justify, and less than they do: *)
(* while a frame of some peer has something to do, or something sent has not *)
(* arrived, the session takes some such step.  Nobody need connect, leave,   *)
(* ask, or see a buffer resized.                                             *)
FrameStep == HostTick \/ HostHeldPass \/ \E c \in Client : HostStep(c) \/ ClientStep(c)

FairSpec == Spec /\ WF_vars(FrameStep)

-----------------------------------------------------------------------------
(* PROPERTIES *)

IsLog(f) == DOMAIN f \subseteq 1..MaxTick

TypeOK ==
  /\ clock \in [Peer -> MenuClock \cup 0..MaxTick]
  /\ \A p \in Peer : /\ \A t \in DOMAIN tracker[p] : DOMAIN tracker[p][t] \subseteq Peer
                     /\ IsLog(ran[p]) /\ roster[p] \subseteq Peer
  /\ paused \in [Peer -> BOOLEAN]
  /\ announced \subseteq Peer /\ DOMAIN pendingJoin \subseteq Client
  /\ lastBroadcast \in 0..MaxTick
  /\ asked \subseteq {"pause", "resume"} /\ resumeStaged \in BOOLEAN
  /\ stage \in [Client -> {"out", "asking", "given", "loaded"}]
  /\ hostBuffer \in HostBuffers /\ buffer \in [Client -> Buffers]

(* Every peer runs a tick with the host's whole ruling on it, though clients *)
(* hear of a tick before it is theirs to run, twice on a join, and from two  *)
(* systems: the actions, the session's own actions and the pause agree.      *)
SameRulings ==
  \A c \in Client : \A t \in DOMAIN ran[c] :
    /\ t \in DOMAIN ran[Host]
    /\ ran[c][t].players = ran[Host][t].players
    /\ ran[c][t].system = ran[Host][t].system

(* Every tick a joiner runs, it runs with the roster the host ran it with.   *)
RosterAgreement ==
  \A c \in Client : \A t \in DOMAIN ran[c] : t \in DOMAIN ran[Host] =>
    ran[c][t].roster = ran[Host][t].roster

(* An action is run once, however the batches that carry it merge, fill, are *)
(* repeated or come late.                                                    *)
ActionsOf(p, t) == Lookup(ran[Host][t].players, p, <<>>)
ActionsRunOnce ==
  \A p \in Peer : \A t, u \in {x \in DOMAIN ran[Host] : p \in DOMAIN ran[Host][x].players} :
    \A i \in DOMAIN ActionsOf(p, t), j \in DOMAIN ActionsOf(p, u) :
      ActionsOf(p, t)[i] = ActionsOf(p, u)[j] => t = u /\ i = j

(* The action of an established participant is never lost: the host waits    *)
(* for the tick it was scheduled for, so it has run it there.                *)
NoActionLost ==
  \A c \in Client : joinedAt[c] # None =>
    \A i \in DOMAIN sent[c] :
      sent[c][i] \in (joinedAt[c] + Max(HostBuffers) + 1)..clock[Host] =>
        \E k \in DOMAIN ActionsOf(c, sent[c][i]) : ActionsOf(c, sent[c][i])[k] = i

(* No hole in what the host waits for: every tick a participant has scheduled *)
(* past, and the host will want its word on, is told or on the way, however   *)
(* its buffer grew and wherever its first flush began.                        *)
WaitsAreAnswered ==
  \A c \in Client : stage[c] = "loaded" /\ joinedAt[c] # None =>
    \A t \in (Max2(joinedAt[c] + hostBuffer, clock[Host]) + 1)..lastScheduled[c] :
      c \in DOMAIN Entry(Host, t) \/ \E i \in DOMAIN batches[c] : batches[c][i].tick = t

(* No hole in what a participant is told: every tick it has not run and the  *)
(* host has is in its tracker, its stash or on the way, so it never waits on *)
(* a tick that will not be sent.                                             *)
OnTheWay(c) == {m.tick : m \in {n \in ToSet(inbox[c] \o stash[c]) : n.type = "ruling"}}
NoHoles ==
  \A c \in Client : stage[c] = "loaded" /\ joinedAt[c] # None =>
    \A t \in (clock[c] + 1)..clock[Host] : t \in DOMAIN tracker[c] \cup OnTheWay(c)

(* When all the host asked has run, the session is as it last asked.         *)
PausedAsAsked == ~Outstanding => (paused[Host] <=> lastAsked = "pause")

(* The session goes on to its last tick unless the host has paused it:       *)
(* nobody's silence, departure or half-finished join stops it for good.      *)
Progress == []<>(clock[Host] = MaxTick \/ paused[Host])

(* Who is let in catches up with the host, or is gone.                       *)
JoinersCatchUp ==
  \A c \in Client : joinedAt[c] # None ~> (clock[c] = clock[Host] \/ joinedAt[c] = None)
===============================================================================
