---------------------------- MODULE EnsembleSession ----------------------------
(***************************************************************************)
(* One peer between its menu, playing alone, hosting and being a client:   *)
(* the bridge's role adoption and handshake (crate                         *)
(* bevy_ticked_networking_ensemble: session.rs, handshake.rs, lib.rs), the *)
(* doors of bevy_ticked_networking's session.rs and the registry of what   *)
(* each door resets (src/session.rs).                                      *)
(*                                                                         *)
(* A frame is: what the transport received, PreUpdate, StateTransition,    *)
(* the tick loop, Update.  The bridge's systems of Update are two chains   *)
(* with no order between them; each is one step, in either order.          *)
(*                                                                         *)
(* A host the peer is a client of is an epoch: a lobby's host, and after a *)
(* host change the next one.  What a door only ever resets as a whole (the *)
(* link and the clock) is one field, pending, beside the fields the        *)
(* bridge reads.  uuids, registries and worlds are named by whose they are.*)
(***************************************************************************)
EXTENDS Integers, Sequences, FiniteSets, FiniteSetsExt, SequencesExt

CONSTANTS
  Client,    \* the peers that may join a lobby this peer hosts
  Slots,     \* the spawner slots a host hands out, 1..255 in the code
  HostKind,  \* what a host may be, see Host below
  Timeout,   \* HandshakeTimeout, in frames
  HandBack,  \* whether a lobby may go from under a solo game before it gives a role
  LossAtTheDoor, \* whether the link may go between a role and its door
  MaxEpoch, MaxFaults, MaxNews, \* bounds: hosts met, links lost, what happens in one frame
  None

ASSUME SessionAssumption ==
  /\ Slots \subseteq Nat \ {0} /\ Timeout \in Nat \ {0} /\ {HandBack, LossAtTheDoor} \subseteq BOOLEAN
  /\ {MaxEpoch, MaxFaults, MaxNews} \subseteq Nat
  /\ HostKind \subseteq {"match", "mismatch", "silent", "full"}
ASSUME NoneAssumption ==
  /\ None \notin Nat /\ None \notin Client /\ Client \cap Nat = {}
  /\ None \notin {"offline", "solo", "host", "client", "reconnect", "successor", "newHost"}

VARIABLES
  app,      \* the peer's World, see App
  host,     \* the host of the lobby this peer joins: its epoch, its kind, what it has said
  told,     \* the clients that have announced their registries from their present seat
  inbox,    \* what this frame's ReceivePackets and the player's messages hold
  phase,    \* where the frame is
  chains,   \* the chains of Update still to run
  settled,  \* how many whole frames have passed since the lobby last changed, up to 2
  compared, \* history: the hosts whose registries were compared and match
  synced,   \* history: a snapshot was put in place since the host was last out of reach
  faults, news

vars == <<app, host, told, inbox, phase, chains, settled, compared, synced, faults, news>>

(* TickedSession, and what the role resources describe *)
Session == {"offline", "solo", "host", "client"}

Epochs == 1..MaxEpoch

(* SpawnerSlot::AUTHORITY, and the owner of what this peer built itself *)
Mine == 0

NoSlots == [c \in Client |-> None]
NoSeats == [c \in Client |-> "none"]
EmptyInbox == [registry |-> <<>>, welcome |-> None, snapshot |-> None, change |-> None, asks |-> {}]

(* The resources, the lobby entity and the clients' entities of an app that has just started. *)
FreshApp ==
  [role |-> "offline",   \* LocalServerPlayer, LocalClientPlayer, LocalSoloPlayer
   fresh |-> FALSE,      \* the role resource was added since the doors last looked
   asked |-> None,       \* NextState
   state |-> "offline",  \* State<TickedSession>
   handed |-> FALSE,     \* SoloHandedToLobby
   visiting |-> FALSE,   \* Visiting
   mismatch |-> FALSE,   \* RegistryMismatch
   timedOut |-> FALSE,   \* HandshakeTimedOut
   verified |-> None,    \* RegistryVerified, and of which host
   welcome |-> None,     \* PendingWelcome, and from which host
   slot |-> None,        \* LocalSpawnerSlot, and which host gave it
   wait |-> 0,           \* HandshakeWait
   pending |-> None,     \* PendingSnapshot, and from which host
   world |-> {},         \* whose entities stand
   holds |-> {},         \* TickHolds, of the session's reasons
   game |-> FALSE,       \* a game's own session resource has been written
   lobby |-> "none",     \* Lobby or PendingLobby, with or without Host
   awaiting |-> None,    \* AwaitingHost
   seats |-> NoSeats,    \* LobbyClient, marked TickedPeerVerified or not
   slots |-> NoSlots]    \* SpawnerSlots

Init ==
  /\ app = FreshApp
  /\ host = [epoch |-> 0, kind |-> "silent", said |-> {}]
  /\ told = {} /\ inbox = EmptyInbox /\ phase = "receive" /\ chains = {}
  /\ settled = 2 /\ compared = {} /\ synced = FALSE /\ faults = 0 /\ news = 0

-----------------------------------------------------------------------------
(* THE REGISTRY OF WHAT A SESSION OWNS, AND THE DOORS *)

ResetSessionState(p) ==
  [p EXCEPT !.wait = 0, !.pending = None, !.slots = NoSlots, !.handed = FALSE,
            !.holds = @ \ {"AwaitingSync", "AwaitingHost"}]

(* Mutant: what the host said outlives the session. *)
EndSessionStateMutant(p) == [p EXCEPT !.verified = None, !.visiting = FALSE, !.game = FALSE]

EndSessionState(p) ==
  [p EXCEPT !.verified = None, !.welcome = None, !.visiting = FALSE, !.game = FALSE]

DisposeWorld(p) == [p EXCEPT !.world = {}]

(* Mutant: the local player's slot outlives the role. *)
LeaveRoleMutant(p) == ResetSessionState(p)

LeaveRole(p) == [ResetSessionState(p) EXCEPT !.slot = None]

LeaveClientRole(p) == DisposeWorld(LeaveRole(p))

Leave(p) == EndSessionState(DisposeWorld(LeaveRole(p)))

EnterSolo(p) == ResetSessionState(p)

EnterHost(p) == [ResetSessionState(p) EXCEPT !.slot = Mine]

(* A welcome is for a client whose join door has run. *)
ApplyWelcome(p) ==
  IF p.role = "client" /\ p.state = "client" /\ p.welcome # None
  THEN [p EXCEPT !.slot = p.welcome, !.welcome = None]
  ELSE p

(* enter_client, and apply_welcome after it.  What arrived between the role and *)
(* the door is kept through the reset, unless the last host may have sent it.   *)
EnterClient(p, arrived) ==
  ApplyWelcome(DisposeWorld([ResetSessionState(p) EXCEPT !.pending = arrived,
                                                         !.holds = @ \cup {"AwaitingSync"}]))

Arrived(p) == IF p.state = "client" THEN None ELSE p.pending

Exit(p) ==
  CASE p.state = "offline"          -> p
    [] p.state \in {"solo", "host"} -> LeaveRole(p)
    [] p.state = "client"           -> LeaveClientRole(p)

Enter(p, arrived) ==
  CASE p.state = "offline" -> Leave(p)
    [] p.state = "solo"    -> EnterSolo(p)
    [] p.state = "host"    -> EnterHost(p)
    [] p.state = "client"  -> EnterClient(p, arrived)

(* The state follows the roles; a role added again, or a request for the state *)
(* the roles describe, is a re-entry; any other request is overruled.          *)
FollowsTheRoles(p) ==
  \/ p.role # p.state
  \/ p.asked = p.role
  \/ p.role # "offline" /\ p.fresh

Doors(p) ==
  LET q == [p EXCEPT !.fresh = FALSE, !.asked = None]
  IN  IF FollowsTheRoles(p)
      THEN Enter([Exit(q) EXCEPT !.state = p.role], Arrived(p))
      ELSE q

-----------------------------------------------------------------------------
(* LOBBIES AND ROLES *)

InSession(p) == p.state # "offline" \/ p.lobby # "none"

(* may_spawn_tracked *)
MaySpawn(p) == p.role = "host" \/ (p.role # "client" /\ p.lobby = "none")

Unverified(p) == [p EXCEPT !.seats = [c \in Client |-> IF @[c] = "verified" THEN "seated" ELSE @[c]]]

EndTickedSession(p) == Unverified([p EXCEPT !.role = "offline"])

ForgetTheHost(p) ==
  [p EXCEPT !.mismatch = FALSE, !.timedOut = FALSE, !.verified = None, !.welcome = None]

(* Mutant: a client that goes keeps its slot. *)
DepartedMutant(p, gone) ==
  [p EXCEPT !.seats = [c \in Client |-> IF c \in gone THEN "none" ELSE @[c]]]

(* A LobbyClient goes: forget_departed_client, and forget_peer behind it. *)
Departed(p, gone) ==
  [p EXCEPT !.seats = [c \in Client |-> IF c \in gone THEN "none" ELSE @[c]],
            !.slots = [c \in Client |-> IF c \in gone THEN None ELSE @[c]]]

(* The lobby's entity is despawned, its clients and what it awaited with it. *)
LobbyDespawned(p) ==
  [Departed(p, Client) EXCEPT !.lobby = "none", !.awaiting = None, !.holds = @ \ {"AwaitingHost"}]

(* Mutant: snapshots are forwarded to any client, compared or not. *)
ForwardSnapshotMutant(p, snapshot) ==
  IF snapshot # None /\ p.role = "client" THEN [p EXCEPT !.pending = snapshot] ELSE p

ForwardSnapshot(p, snapshot) ==
  IF snapshot # None /\ p.verified # None /\ p.role = "client"
  THEN [p EXCEPT !.pending = snapshot]
  ELSE p

(* follow_host_change, with the restart_session it ends in *)
FollowHostChange(p, change) ==
  IF change = None THEN p
  ELSE IF p.role \notin {"host", "client"} THEN ForgetTheHost(p)
  ELSE [Unverified(ForgetTheHost(p)) EXCEPT !.role = change, !.asked = change, !.fresh = TRUE]

EndSession(p) ==
  IF "EndSession" \in inbox.asks THEN EndTickedSession(LobbyDespawned(p)) ELSE p

StartSolo(p) ==
  IF "StartSolo" \in inbox.asks /\ p.state = "offline" /\ p.role \notin {"host", "client"} /\ p.lobby = "none"
  THEN [p EXCEPT !.role = "solo", !.fresh = TRUE]
  ELSE p

HandSoloToALobby(p) ==
  IF p.role = "solo" /\ p.lobby # "none" THEN [p EXCEPT !.handed = TRUE] ELSE p

(* The role is taken when the backend knows who this peer is, which it does for *)
(* a lobby of its own once it stands and for one it joins before it is promoted. *)
AdoptRole(p) ==
  IF p.role \in {"host", "client"} \/ p.mismatch \/ p.timedOut \/ p.lobby \notin {"hosting", "joined"}
  THEN p
  ELSE [p EXCEPT !.role = IF p.lobby = "hosting" THEN "host" ELSE "client", !.fresh = TRUE]

ReleaseRole(p) ==
  IF p.lobby # "none" THEN p
  ELSE IF p.role \in {"host", "client"} THEN EndTickedSession(p)
  ELSE [p EXCEPT !.handed = FALSE]

ForgetMismatch(p) ==
  IF p.lobby # "none" THEN p ELSE [p EXCEPT !.mismatch = FALSE, !.timedOut = FALSE]

EndAVisitWithoutARole(p) ==
  IF p.state # "offline" \/ p.role # "offline" \/ p.lobby # "none" THEN [p EXCEPT !.visiting = TRUE]
  ELSE IF p.visiting THEN [p EXCEPT !.asked = "offline"]
  ELSE p

-----------------------------------------------------------------------------
(* THE HANDSHAKE *)

(* Mutant: the slots of the others are not looked at. *)
AssignedMutant(p, c) == IF p.slots[c] # None THEN p.slots[c] ELSE Min(Slots)

(* SpawnerSlots::assign *)
Assigned(p, c) ==
  LET free == Slots \ {p.slots[d] : d \in Client}
  IN  IF p.slots[c] # None THEN p.slots[c] ELSE IF free = {} THEN None ELSE Min(free)

VerifyClient(p, c) ==
  IF p.seats[c] = "none" \/ Assigned(p, c) = None THEN p
  ELSE [p EXCEPT !.slots[c] = Assigned(p, c), !.seats[c] = "verified"]

(* One announcement: a host verifies or refuses its sender, a client its host.   *)
(* Once a mismatch is latched the announcements that are left are not looked at. *)
Compared(p, said) ==
  IF p.mismatch THEN p
  ELSE IF p.lobby \in {"asking", "hosting"}
  THEN IF said.matches /\ said.sender \in Client THEN VerifyClient(p, said.sender) ELSE p
  ELSE IF said.matches THEN [p EXCEPT !.verified = said.sender]
  ELSE EndTickedSession([p EXCEPT !.mismatch = TRUE])

CheckRegistry(p) == FoldLeft(Compared, p, inbox.registry)

ReceiveWelcome(p) == IF inbox.welcome = None THEN p ELSE [p EXCEPT !.welcome = inbox.welcome]

(* Mutant: the time out is latched and the role kept. *)
RefuseAfterTimeoutMutant(p) ==
  IF p.role # "client" \/ p.verified # None \/ (p.lobby = "joined" /\ p.awaiting # None)
  THEN [p EXCEPT !.wait = 0]
  ELSE IF p.wait + 1 < Timeout THEN [p EXCEPT !.wait = @ + 1]
  ELSE [p EXCEPT !.wait = 0, !.timedOut = TRUE]

(* The wait is of the client role, and a lobby out of its host's reach does not count. *)
RefuseAfterTimeout(p) ==
  IF p.role # "client" \/ p.verified # None THEN [p EXCEPT !.wait = 0]
  ELSE IF p.lobby = "joined" /\ p.awaiting # None THEN p
  ELSE IF p.wait + 1 < Timeout THEN [p EXCEPT !.wait = @ + 1]
  ELSE EndTickedSession([p EXCEPT !.wait = 0, !.timedOut = TRUE])

-----------------------------------------------------------------------------
(* WHAT A FRAME RECEIVES: the lobby crate, the signalling server, the link, the player *)

Receives == phase = "receive" /\ news < MaxNews /\ news' = news + 1

(* The role is gone, the door to come. *)
Leaving == app.role = "offline" /\ app.state # "offline"

Joining == app.lobby \in {"joining", "joined"}

(* A host is one of the same build, which announces its registries, verifies this *)
(* peer and welcomes it; one of another build; one that never announces; or one   *)
(* of the same build whose slots are all taken, which says no more.               *)
NoHost == [host EXCEPT !.kind = "silent", !.said = {}]
NewHost(kind) == [epoch |-> host.epoch + 1, kind |-> kind, said |-> {}]

(* The player asks for a lobby, and the game writes down what it asked for. *)
AskForALobby ==
  /\ Receives /\ app.lobby = "none" /\ settled > 0 /\ "EndSession" \notin inbox.asks
  /\ \/ /\ app' = [app EXCEPT !.lobby = "asking", !.game = TRUE]
        /\ UNCHANGED host
     \/ /\ host.epoch < MaxEpoch
        /\ app' = [app EXCEPT !.lobby = "joining", !.game = TRUE]
        /\ \E kind \in HostKind : host' = NewHost(kind)
  /\ settled' = 0
  /\ UNCHANGED <<told, inbox, phase, chains, compared, synced, faults>>

Promoted ==
  /\ Receives /\ app.lobby \in {"asking", "joining"}
  /\ app' = [app EXCEPT !.lobby = IF @ = "asking" THEN "hosting" ELSE "joined"]
  /\ UNCHANGED <<host, told, inbox, phase, chains, settled, compared, synced, faults>>

(* The lobby goes: never, here, in the frame in which the peer is leaving a session *)
(* it was refused, nor, unless HandBack, from under a game played alone.            *)
LobbyGoes ==
  /\ Receives /\ app.lobby # "none" /\ settled > 0 /\ ~Leaving
  /\ HandBack \/ (app.role # "solo" /\ "StartSolo" \notin inbox.asks)
  /\ app' = LobbyDespawned(app)
  /\ host' = NoHost /\ told' = {} /\ settled' = 0
  /\ UNCHANGED <<inbox, phase, chains, compared, synced, faults>>

(* hold_while_the_host_is_out_of_reach; a wait for the same host forgets the old link. *)
HostOutOfReach(p, why) ==
  [p EXCEPT !.awaiting = why, !.holds = @ \cup {"AwaitingHost"},
            !.pending = IF why = "reconnect" THEN None ELSE @]

LoseHost(why) ==
  /\ Receives /\ app.lobby = "joined" /\ app.awaiting = None /\ faults < MaxFaults
  /\ LossAtTheDoor \/ app.role = app.state
  /\ app' = HostOutOfReach(app, why)
  /\ faults' = faults + 1 /\ settled' = 0 /\ synced' = FALSE
  /\ UNCHANGED <<host, told, inbox, phase, chains, compared>>

(* Mutant: the clock goes on before the host is heard again. *)
HostBackMutant(p) == [p EXCEPT !.awaiting = None, !.holds = @ \ {"AwaitingHost"}]

(* resync_when_the_host_is_back *)
HostBack(p) ==
  [p EXCEPT !.awaiting = None,
            !.holds = (@ \ {"AwaitingHost"}) \cup
                      IF p.awaiting = "reconnect" /\ p.role = "client" THEN {"AwaitingSync"} ELSE {}]

FindHost ==
  /\ Receives /\ app.awaiting \in {"reconnect", "newHost"} /\ settled > 0
  /\ app' = HostBack(app)
  /\ host' = [host EXCEPT !.said = {}]
  /\ UNCHANGED <<told, inbox, phase, chains, settled, compared, synced, faults>>

(* The successor is named: this peer, or another that it is to reach. *)
ChangeHost ==
  /\ Receives /\ app.awaiting = "successor" /\ settled > 0
  /\ \/ /\ app' = [HostBack(app) EXCEPT !.lobby = "hosting"]
        /\ inbox' = [inbox EXCEPT !.change = "host"]
        /\ UNCHANGED host
     \/ /\ host.epoch < MaxEpoch
        /\ app' = [app EXCEPT !.awaiting = "newHost"]
        /\ inbox' = [inbox EXCEPT !.change = "client"]
        /\ \E kind \in HostKind : host' = NewHost(kind)
  /\ settled' = 0
  /\ UNCHANGED <<told, phase, chains, compared, synced, faults>>

Reached == Receives /\ Joining /\ app.awaiting = None

(* announce_registry at the host, when its transport has verified this peer *)
HostSays ==
  /\ Reached /\ host.kind # "silent" /\ "registry" \notin host.said
  /\ inbox' = [inbox EXCEPT !.registry =
                 Append(@, [sender |-> host.epoch, matches |-> host.kind # "mismatch"])]
  /\ host' = [host EXCEPT !.said = @ \cup {"registry"}]
  /\ UNCHANGED <<app, told, phase, chains, settled, compared, synced, faults>>

(* The welcome follows on the same reliable channel. *)
HostWelcomes ==
  /\ Reached /\ host.kind = "match" /\ "registry" \in host.said /\ "welcome" \notin host.said
  /\ inbox' = [inbox EXCEPT !.welcome = host.epoch]
  /\ host' = [host EXCEPT !.said = @ \cup {"welcome"}]
  /\ UNCHANGED <<app, told, phase, chains, settled, compared, synced, faults>>

(* Snapshots are unreliable and overtake the rest.  A full host lists nobody new; *)
(* the others may be of a build that does not wait for a match.                   *)
SnapshotArrives ==
  /\ Reached /\ host.kind # "full" /\ inbox.snapshot = None
  /\ inbox' = [inbox EXCEPT !.snapshot = host.epoch]
  /\ UNCHANGED <<app, host, told, phase, chains, settled, compared, synced, faults>>

(* A client reaches this peer after the door into hosting has run. *)
ClientJoins(c) ==
  /\ Receives /\ app.lobby = "hosting" /\ app.role = "host" /\ app.state = "host" /\ app.seats[c] = "none"
  /\ app' = [app EXCEPT !.seats[c] = "seated"]
  /\ told' = told \ {c}
  /\ UNCHANGED <<host, inbox, phase, chains, settled, compared, synced, faults>>

ClientSays(c) ==
  /\ Receives /\ app.seats[c] # "none" /\ c \notin told
  /\ \E matches \in BOOLEAN :
       inbox' = [inbox EXCEPT !.registry = Append(@, [sender |-> c, matches |-> matches])]
  /\ told' = told \cup {c}
  /\ UNCHANGED <<app, host, phase, chains, settled, compared, synced, faults>>

ClientGoes(c) ==
  /\ Receives /\ app.seats[c] # "none"
  /\ app' = Departed(app, {c})
  /\ UNCHANGED <<host, told, inbox, phase, chains, settled, compared, synced, faults>>

(* The player leaves, or starts to play alone, not both in one frame. *)
PlayerAsks(what) ==
  /\ Receives /\ inbox.asks = {} /\ settled > 0 /\ ~Leaving
  /\ inbox' = [inbox EXCEPT !.asks = @ \cup {what}]
  /\ UNCHANGED <<app, host, told, phase, chains, settled, compared, synced, faults>>

-----------------------------------------------------------------------------
(* THE FRAME *)

(* PreUpdate: the two systems after ReceivePackets have no order between them. *)
PreUpdate ==
  /\ phase = "receive"
  /\ \/ app' = FollowHostChange(ForwardSnapshot(app, inbox.snapshot), inbox.change)
     \/ app' = ForwardSnapshot(FollowHostChange(app, inbox.change), inbox.snapshot)
  /\ inbox' = [inbox EXCEPT !.snapshot = None, !.change = None]
  /\ phase' = "transition"
  /\ UNCHANGED <<host, told, chains, settled, compared, synced, faults, news>>

StateTransition ==
  /\ phase = "transition"
  /\ app' = Doors(app)
  /\ phase' = "loop"
  /\ UNCHANGED <<host, told, inbox, chains, settled, compared, synced, faults, news>>

(* handle_server_snapshot: the first snapshot releases the clock. *)
SnapshotApplied(p) ==
  IF p.role = "client" /\ p.pending # None
  THEN [p EXCEPT !.pending = None, !.world = @ \cup {p.pending}, !.holds = @ \ {"AwaitingSync"}]
  ELSE [p EXCEPT !.pending = None]

(* A pass: the snapshot, and a tick unless it is held, in which a game of the *)
(* authority's may spawn.                                                     *)
LoopPass ==
  /\ phase = "loop"
  /\ LET p == SnapshotApplied(app)
     IN  \/ app' = p
         \/ /\ p.holds = {} /\ InSession(p) /\ MaySpawn(p)
            /\ app' = [p EXCEPT !.world = @ \cup {Mine}]
  /\ synced' = (synced \/ (app.role = "client" /\ app.pending # None))
  /\ phase' = "update" /\ chains' = {"session", "handshake"}
  /\ UNCHANGED <<host, told, inbox, settled, compared, faults, news>>

(* No tick is due. *)
NoPass ==
  /\ phase = "loop"
  /\ phase' = "update" /\ chains' = {"session", "handshake"}
  /\ UNCHANGED <<app, host, told, inbox, settled, compared, synced, faults, news>>

(* The chain of TickedEnsembleSessionPlugin::build. *)
SessionChain ==
  /\ phase = "update" /\ "session" \in chains
  /\ LET lobbies == ReleaseRole(AdoptRole(HandSoloToALobby(StartSolo(EndSession(app)))))
     IN  app' = EndAVisitWithoutARole(ForgetMismatch(lobbies))
  /\ told' = IF app'.lobby = "none" THEN {} ELSE told
  /\ host' = IF app'.lobby = "none" THEN NoHost ELSE host
  /\ inbox' = [inbox EXCEPT !.asks = {}]
  /\ settled' = IF settled < 2 THEN settled + 1 ELSE 2
  /\ chains' = chains \ {"session"}
  /\ UNCHANGED <<phase, compared, synced, faults, news>>

(* The chain of handshake::plugin. *)
HandshakeChain ==
  /\ phase = "update" /\ "handshake" \in chains
  /\ app' = RefuseAfterTimeout(ApplyWelcome(ReceiveWelcome(CheckRegistry(app))))
  /\ compared' = compared \cup {said.sender : said \in {s \in ToSet(inbox.registry) : s.matches /\ s.sender \notin Client}}
  /\ inbox' = [inbox EXCEPT !.registry = <<>>, !.welcome = None]
  /\ chains' = chains \ {"handshake"}
  /\ UNCHANGED <<host, told, phase, settled, synced, faults, news>>

NextFrame ==
  /\ phase = "update" /\ chains = {}
  /\ phase' = "receive" /\ news' = 0
  /\ UNCHANGED <<app, host, told, inbox, chains, settled, compared, synced, faults>>

Frame ==
  PreUpdate \/ StateTransition \/ LoopPass \/ NoPass \/ SessionChain \/ HandshakeChain \/ NextFrame

Environment ==
  \/ AskForALobby \/ Promoted \/ LobbyGoes \/ FindHost \/ ChangeHost
  \/ \E why \in {"reconnect", "successor"} : LoseHost(why)
  \/ HostSays \/ HostWelcomes \/ SnapshotArrives
  \/ \E c \in Client : ClientJoins(c) \/ ClientSays(c) \/ ClientGoes(c)
  \/ \E what \in {"StartSolo", "EndSession"} : PlayerAsks(what)

Next == Frame \/ Environment

Spec == Init /\ [][Next]_vars

(* Frames and ticks go on; what is reliable is delivered, snapshots keep coming, and a host  *)
(* out of reach is found or given up on.  What a lobby or a player does is not fair. *)
FairSpec ==
  /\ Spec /\ WF_vars(Frame) /\ SF_vars(LoopPass)
  /\ SF_vars(HostSays) /\ SF_vars(SnapshotArrives)
  /\ SF_vars(FindHost \/ ChangeHost \/ (app.awaiting # None /\ LobbyGoes))

-----------------------------------------------------------------------------
App ==
  [role : Session, fresh : BOOLEAN, asked : Session \cup {None}, state : Session,
   handed : BOOLEAN, visiting : BOOLEAN, mismatch : BOOLEAN, timedOut : BOOLEAN,
   verified : Epochs \cup Client \cup {None}, welcome : Epochs \cup {None},
   slot : Epochs \cup {None, Mine}, wait : 0..Timeout,
   pending : Epochs \cup {None}, world : SUBSET (Epochs \cup {Mine}),
   holds : SUBSET {"AwaitingSync", "AwaitingHost"}, game : BOOLEAN,
   lobby : {"none", "asking", "joining", "hosting", "joined"},
   awaiting : {None, "reconnect", "successor", "newHost"},
   seats : [Client -> {"none", "seated", "verified"}],
   slots : [Client -> Slots \cup {None}]]

Inbox ==
  [registry : Seq([sender : Epochs \cup Client, matches : BOOLEAN]),
   welcome : Epochs \cup {None}, snapshot : Epochs \cup {None},
   change : {None, "host", "client"}, asks : SUBSET {"StartSolo", "EndSession"}]

TypeOK ==
  /\ app \in App /\ inbox \in Inbox
  /\ host \in [epoch : 0..MaxEpoch, kind : HostKind \cup {"silent"}, said : SUBSET {"registry", "welcome"}]
  /\ told \subseteq Client /\ compared \subseteq Epochs /\ synced \in BOOLEAN
  /\ phase \in {"receive", "transition", "loop", "update"} /\ chains \subseteq {"session", "handshake"}
  /\ settled \in 0..2 /\ faults \in 0..MaxFaults /\ news \in 0..MaxNews

(* No world is built from the words of a host whose registries this peer has not *)
(* compared with its own and found to match (check_registry and the gate in      *)
(* forward_received_snapshots, against every order of what arrives), and a       *)
(* client's world is the present host's and nobody else's.                       *)
OnlyTheComparedHostsWord ==
  /\ app.world \ {Mine} \subseteq compared
  /\ app.state = "client" /\ phase \in {"loop", "update"} => app.world \subseteq {host.epoch}

(* A client plays only in its host's world: no tick of it runs before that world *)
(* is there, none while its host is out of reach, and none after that before the *)
(* host has been heard again.  (In the frame in which the lobby goes the hold is *)
(* gone with it and the doors are still to run.)                                 *)
ClientTicksInItsHostsWorld ==
  [][phase = "loop" /\ phase' = "update" /\ app'.state = "client" /\ app'.holds = {} /\ Joining
     => app'.world = {host.epoch} /\ app'.awaiting = None /\ synced']_vars

(* The slot a client mints in is the one its present host gave it, and a peer     *)
(* that mints as the authority has none or the authority's.                       *)
SlotOfItsHost ==
  phase \in {"loop", "update"} =>
    app.slot \in CASE app.state = "client" -> {None, host.epoch}
                   [] app.state = "host"   -> {Mine}
                   [] OTHER                -> {None}

(* A host's slots are those of its verified clients: one that goes gives its slot *)
(* back, one that never matched has none, and none outlives a session.            *)
SlotsFollowSeats ==
  app.role = "host" /\ app.state = "host" =>
    \A c \in Client : app.slots[c] # None <=> app.seats[c] = "verified"

(* No two clients hold one slot of a host (SpawnerSlots::assign), through every    *)
(* order of joining, announcing and going: both would mint the same network ids.  *)
OneHolderEach ==
  \A c, d \in Client : c # d /\ app.slots[c] # None => app.slots[c] # app.slots[d]

(* The three seen together: a slot is one peer's at a time, on both ends of the   *)
(* link.                                                                          *)
SlotsInStep == SlotOfItsHost /\ SlotsFollowSeats /\ OneHolderEach

(* Back in its menu, an app that has been through any sessions is a fresh one,     *)
(* whatever it was when the lobby, the link or the player ended them.              *)
AtRest ==
  /\ phase = "receive" /\ settled = 2 /\ ~app.visiting /\ app.asked = None
  /\ app.role = "offline" /\ app.state = "offline" /\ app.lobby = "none"

FreshAfterLeaving == AtRest => [app EXCEPT !.fresh = FALSE] = FreshApp

(* A client is not held for its host's world for ever: the world comes, or the     *)
(* session ends and says why.                                                      *)
NotHeldForEver == "AwaitingSync" \in app.holds ~> "AwaitingSync" \notin app.holds

=============================================================================
