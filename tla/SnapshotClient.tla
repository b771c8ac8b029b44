---------------------------- MODULE SnapshotClient ----------------------------
(***************************************************************************)
(* A client that predicts ahead of its host and is corrected by the host's *)
(* snapshots (crate bevy_ticked_networking: client.rs, snapshot.rs,        *)
(* pause.rs).  A pass of its tick loop takes the newest snapshot, if there *)
(* is one: accepts it as what was predicted, or puts the host's world in   *)
(* place and runs the ticks after it again; steers how far it leads the    *)
(* host; follows the host's pause; and runs a tick unless the clock is     *)
(* held.                                                                   *)
(*                                                                         *)
(* The stream the snapshots come by is SnapshotStream: what arrives is the *)
(* host's world of a tick, and never older than what was taken before.     *)
(*                                                                         *)
(* The simulation is a small game with one thing of each sort that the     *)
(* snapshots treat differently: a networked value the host may change at   *)
(* any tick, a local-only value that is rolled back but never sent, an     *)
(* allocator of ids, and tracked entities a player spawns (fire) and       *)
(* despawns (burst).                                                       *)
(***************************************************************************)
EXTENDS Lifetimes, Sequences, FiniteSets, FiniteSetsExt, Functions, SequencesExt

CONSTANTS
  Id,            \* the ids the allocator may mint, 1..n
  Inputs,        \* what a player may press: a subset of {"idle", "fire", "burst"}
  LocMod,        \* the local-only value counts modulo this
  Targets,       \* what target_replay_distance may be made by the margins reported
  Budget,        \* MaxTicksPerFrame
  SnapTicks,     \* SNAP_TICKS
  SnapBackTicks, \* SNAP_BACK_TICKS
  Streak,        \* SNAP_BACK_STREAK
  Steered,       \* whether there is a rate to trim (TickSource::Hz)
  PausesAhead,   \* whether a pause may reach a client that has predicted past it
  MaxHostTick, MaxClock, MaxPauses  \* bounds

ASSUME ClientAssumption ==
  /\ Id = 1..Cardinality(Id) /\ Inputs \subseteq {"idle", "fire", "burst"} /\ "idle" \in Inputs
  /\ {LocMod, Budget, SnapTicks, SnapBackTicks, Streak} \subseteq Nat \ {0}
  /\ Targets \subseteq Nat \ {0} /\ Targets # {}
  /\ Steered \in BOOLEAN /\ PausesAhead \in BOOLEAN
  /\ {MaxHostTick, MaxClock, MaxPauses} \subseteq Nat

VARIABLES
  hostTick, \* CurrentTick of the host
  word,     \* the host's world at each tick, as its snapshots say it
  hostPause,\* SessionPause on the host: the tick it holds at, or None
  pauses,   \* bound: pauses asked for
  pending,  \* PendingSnapshot: its tick, or None
  applied,  \* AppliedSnapshotTick
  client    \* the client's world, its holds and its lead: see Client0

hostVars == <<hostTick, word, hostPause, pauses>>
vars == <<hostVars, pending, applied, client>>

Put(f, k, v) == [x \in DOMAIN f \cup {k} |-> IF x = k THEN v ELSE f[x]]
KeepTo(f, t) == RestrictDomain(f, LAMBDA u : u <= t)
Lookup(f, k, default) == IF k \in DOMAIN f THEN f[k] ELSE default

(* The networked resources and components but for existence. *)
Net == [val : 0..1, next : 1..(Cardinality(Id) + 1), pause : OptTick]

(* The host's world of a tick, as a snapshot carries it. *)
Word == [net : Net, ids : SUBSET Id]

(* The client: its clock, the networked and the local-only state, which ids are  *)
(* live, their lifetimes, the histories of the two kinds of state, the local      *)
(* inputs by tick; TickHolds, AwaitingReplay, ClientTickBuffer; and whether a     *)
(* spawn ever minted an id that was live.  It has joined and awaits the world.    *)
Client0(t) ==
  [clock |-> 0, net |-> [val |-> 0, next |-> 1, pause |-> None], loc |-> 0, live |-> {},
   life |-> [i \in Id |-> Unseen], netAt |-> <<>>, locAt |-> <<>>, queue |-> <<>>,
   holds |-> {"AwaitingSync"}, awaiting |-> None, target |-> t, streak |-> 0, settling |-> 0,
   twin |-> FALSE]

AliveIds(c, t) == {i \in Id : AliveAt(c.life[i], t)}

-----------------------------------------------------------------------------
(* THE SIMULATION, as game and core run it *)

(* One tick of the game on the client at c.clock, with the input of that tick. *)
Simulated(c, input) ==
  LET fires  == input = "fire" /\ c.net.next \in Id
      bursts == input = "burst"
  IN  [c EXCEPT !.net.next = IF fires THEN @ + 1 ELSE @,
                !.live = IF fires THEN @ \cup {c.net.next} ELSE IF bursts THEN {} ELSE @,
                !.twin = @ \/ (fires /\ c.net.next \in c.live),
                !.loc = (@ + c.net.val + (IF fires THEN 1 ELSE 0)) % LocMod]

(* capture_all at t: both histories, and who is alive. *)
Captured(c, t) ==
  [c EXCEPT !.netAt = Put(@, t, c.net), !.locAt = Put(@, t, c.loc),
            !.life = [i \in Id |-> CaptureLife(@[i], i \in c.live, t)]]

(* One tick: the clock moves on, the game runs, the world is captured. *)
Ticked(c) ==
  LET t == c.clock + 1
  IN  Captured(Simulated([c EXCEPT !.clock = t], Lookup(c.queue, t, "idle")), t)

Release(c, why) == [c EXCEPT !.holds = @ \ {why}]
Hold(c, why)    == [c EXCEPT !.holds = @ \cup {why}]

(* replay_bounded: towards end, Budget ticks at most; what is left awaits the next *)
(* pass with the clock held.                                                       *)
Replayed(c, end) ==
  LET stop == Min({end, c.clock + Budget})
      r    == FoldLeft(LAMBDA w, i : Ticked(w), c, [i \in 1..(stop - c.clock) |-> i])
  IN  IF stop < end THEN [Hold(r, "Replaying") EXCEPT !.awaiting = end]
      ELSE [Release(r, "Replaying") EXCEPT !.awaiting = None]

(* truncate_all_after *)
Truncated(c, t) ==
  [c EXCEPT !.netAt = KeepTo(@, t), !.locAt = KeepTo(@, t),
            !.life = [i \in Id |-> TruncateLife(@[i], t)]]

(* Mutant: a spawn after the tick it goes back to stays. *)
ExistenceKept(c, t) == [c EXCEPT !.live = @ \cup AliveIds(c, t)]

(* restore_existence *)
ExistenceRestored(c, t) ==
  [c EXCEPT !.live = {i \in Id : (i \in @ /\ ~KnownDeadAt(c.life[i], t)) \/ AliveAt(c.life[i], t)}]

(* restore_local_only: what has no history at t keeps its value. *)
LocalRestored(c, t) == [c EXCEPT !.loc = Lookup(c.locAt, t, @)]

(* rollback_to_tick *)
RolledBack(c, t) ==
  LET e == LocalRestored(ExistenceRestored(c, t), t)
  IN  [e EXCEPT !.net = Lookup(c.netAt, t, @), !.clock = t]

(* apply_full_body: what the host does not have is tombstoned unless it was born *)
(* after t; what it has is spawned or revived; the rest of its word is put in    *)
(* place and in the history; the clock is set.                                   *)
BodyApplied(c, t) ==
  LET gone == {i \in c.live \ word[t].ids : ~(Seen(c.life[i]) /\ c.life[i].born > t)}
  IN  [c EXCEPT !.live = (@ \ gone) \cup word[t].ids,
                !.life = [i \in Id |-> IF i \in word[t].ids THEN NoteAlive(@[i], t)
                                       ELSE IF i \in gone THEN SetDied(@[i], t) ELSE @[i]],
                !.net = word[t].net, !.netAt = Put(@, t, word[t].net), !.clock = t]

(* forget_local_inputs_after *)
InputsForgotten(c, t) == [c EXCEPT !.queue = KeepTo(@, t)]

-----------------------------------------------------------------------------
Init ==
  /\ hostTick = 0 /\ hostPause = None /\ pauses = 0
  /\ word = [t \in {0} |-> [net |-> [val |-> 0, next |-> 1, pause |-> None], ids |-> {}]]
  /\ pending = None /\ applied = None
  /\ \E t \in Targets : client = Client0(t)

-----------------------------------------------------------------------------
(* THE HOST *)

(* host_apply_requests: the pause is at the tick this pass still runs, the first is *)
(* kept, and a resume asked for together with a pause is dropped.                   *)
PauseAfter(asked, resumed) ==
  IF asked /\ hostPause = None THEN hostTick + 1
  ELSE IF resumed /\ ~asked THEN None ELSE hostPause

(* What the game may do to the host's world in a tick: a value changes, something *)
(* is spawned (a player's fire among others), something is gone.                  *)
HostGame(w) ==
  {w, [w EXCEPT !.net.val = 1 - @]}
  \cup {[w EXCEPT !.net.next = @ + 1, !.ids = @ \cup {i}] : i \in Id \cap {w.net.next}}
  \cup {[w EXCEPT !.ids = @ \ {i}] : i \in w.ids}

(* A pass of the host's tick loop: the requests, host_hold_at_pause, the tick. *)
HostPass(asked, resumed) ==
  LET p    == PauseAfter(asked, resumed)
      held == p # None /\ hostTick >= p
  IN  /\ asked => pauses < MaxPauses
      /\ pauses' = IF asked THEN pauses + 1 ELSE pauses
      /\ hostPause' = p
      /\ IF held THEN UNCHANGED <<hostTick, word>>
         ELSE /\ hostTick < MaxHostTick
              /\ hostTick' = hostTick + 1
              /\ \E w \in HostGame(word[hostTick]) :
                   word' = Put(word, hostTick + 1, [w EXCEPT !.net.pause = p])
      /\ UNCHANGED <<pending, applied, client>>

(* receive_snapshot, of whatever the link delivers: SnapshotStream shows that what  *)
(* is put down is the host's world of its tick and newer than what was there.       *)
Receive(t) ==
  /\ t > applied /\ t > pending
  /\ word[t].net.pause # None /\ ~PausesAhead => client.clock <= t
  /\ pending' = t
  /\ UNCHANGED <<hostVars, applied, client>>

-----------------------------------------------------------------------------
(* THE LEAD *)

(* converge_lead: what to do about the lead at snapshot t, given whether the margin  *)
(* reported shows the same excess: the client with its streak and settling, the tick *)
(* to stop at, and whether that is a snap back.                                      *)
Converged(c, from, t, excess) ==
  LET error  == (from - t) - c.target
      streak == IF from >= c.settling /\ error >= SnapBackTicks /\ excess THEN c.streak + 1 ELSE 0
      end    == IF error <= -SnapTicks THEN from + (c.target - (from - t))
                ELSE IF Steered THEN from
                ELSE IF error > 1 THEN from - 1
                ELSE IF error < 0 THEN from + 1
                ELSE from
  IN  IF streak >= Streak
      THEN [client |-> [c EXCEPT !.streak = 0, !.settling = t + 2 * c.target],
            end |-> t + c.target, back |-> TRUE]
      ELSE [client |-> [c EXCEPT !.streak = streak], end |-> end, back |-> FALSE]

(* observe: a margin was reported, and is not that of a clock just moved. *)
Observed(c, from, target) == IF from >= c.settling THEN [c EXCEPT !.target = target] ELSE c

-----------------------------------------------------------------------------
(* THE CLIENT *)

(* Mutant: the local half keeps the value of the last predicted tick. *)
RewoundButLocal(c, t) == Truncated(ExistenceRestored(c, t), t)

(* The world at t, as the snapshot and the local history have it, and nothing after. *)
Rewound(c, t) == Truncated(LocalRestored(ExistenceRestored(c, t), t), t)

(* prediction_matches *)
Matches(c, t) ==
  /\ c.live = word[t].ids
  /\ t \in DOMAIN c.netAt /\ c.netAt[t] = word[t].net

(* accept_identical *)
Accepted(c, t, target, excess) ==
  IF c.net.pause # None THEN c
  ELSE LET from == c.clock
           lead == Converged(Observed(c, from, target), from, t, excess)
       IN  IF lead.back
           THEN Replayed(InputsForgotten(Truncated(RolledBack(lead.client, t), t), lead.end), lead.end)
           ELSE IF lead.end > from THEN Replayed(lead.client, lead.end) ELSE lead.client

(* Mutant: behind the authority the snapshot is put in place, and no more. *)
LeadNotAcquired(c, t) == Release([Captured(c, t) EXCEPT !.streak = 0], "AwaitingSync")

(* At or behind the authority: a lead is acquired outright. *)
LeadAcquired(c, t) ==
  Replayed(Release([Captured(c, t) EXCEPT !.streak = 0], "AwaitingSync"), t + c.target)

(* Behind the client: roll back, and run what was predicted again. *)
Corrected(c, from, t, excess) ==
  LET lead == Converged(Rewound(c, t), from, t, excess)
  IN  Replayed(IF lead.back THEN InputsForgotten(lead.client, lead.end) ELSE lead.client, lead.end)

(* handle_server_snapshot, of a snapshot for t that is not what was predicted. *)
Taken(c, t, target, excess) ==
  LET from == c.clock
      sync == "AwaitingSync" \in c.holds
      a    == BodyApplied(c, t)
      o    == IF sync THEN a ELSE Observed(a, from, target)
  IN  IF a.net.pause # None THEN Release(a, "AwaitingSync")
      ELSE IF t >= from THEN LeadAcquired(o, t)
      ELSE IF sync THEN Release(Captured(o, t), "AwaitingSync")
      ELSE Corrected(o, from, t, excess)

(* handle_server_snapshot *)
Handled(c, target, excess) ==
  IF pending = None
  THEN IF c.awaiting # None THEN Replayed(c, c.awaiting) ELSE c
  ELSE LET n == [Release(c, "Replaying") EXCEPT !.awaiting = None]
       IN  IF "AwaitingSync" \notin n.holds /\ pending < n.clock /\ Matches(n, pending)
           THEN Accepted(n, pending, target, excess)
           ELSE Taken(n, pending, target, excess)

(* client_follow_pause *)
FollowPause(c) ==
  LET p == c.net.pause
  IN  IF p = None \/ c.clock < p THEN Release(c, "SessionPause")
      ELSE Hold(IF c.clock > p THEN Truncated(RolledBack(c, p), p) ELSE c, "SessionPause")

(* The tick of a pass, with what the player pressed for it; MaxClock is a bound. *)
RunTick(c, input) ==
  IF c.holds = {} /\ c.clock < MaxClock
  THEN Ticked([c EXCEPT !.queue = Put(@, c.clock + 1, input)])
  ELSE c

(* A pass of the client's tick loop. *)
ClientPass(input, target, excess) ==
  /\ client' = RunTick(FollowPause(Handled(client, target, excess)), input)
  /\ applied' = IF pending = None THEN applied ELSE pending
  /\ pending' = None
  /\ UNCHANGED hostVars

ClientPasses ==
  \E input \in Inputs, target \in Targets \cup {client.target}, excess \in BOOLEAN :
    ClientPass(input, target, excess)

Next ==
  \/ \E asked, resumed \in BOOLEAN : HostPass(asked, resumed)
  \/ \E t \in DOMAIN word : Receive(t)
  \/ ClientPasses

Spec == Init /\ [][Next]_vars

-----------------------------------------------------------------------------
(* PROPERTIES *)

(* Every variable has its type. *)
TypeOK ==
  /\ hostTick \in 0..MaxHostTick /\ hostPause \in 1..(MaxHostTick + 1) \cup {None} /\ pauses \in 0..MaxPauses
  /\ word \in [0..hostTick -> Word] /\ \A t \in DOMAIN word : word[t].ids \subseteq 1..(word[t].net.next - 1)
  /\ pending \in 0..hostTick \cup {None} /\ applied \in 0..hostTick \cup {None}
  /\ client.clock \in 0..MaxClock /\ client.loc \in 0..(LocMod - 1) /\ client.live \subseteq Id
  /\ \A i \in Id : client.life[i] \in Lifetime
  /\ DOMAIN client.locAt \subseteq DOMAIN client.netAt
  /\ client.holds \subseteq {"AwaitingSync", "Replaying", "SessionPause"}
  /\ client.awaiting \in 0..MaxClock \cup {None} /\ client.target \in Targets
  /\ client.streak \in 0..(Streak - 1)

(* The world of a tick, as the client's histories have it. *)
WorldAt(c, t) == [c EXCEPT !.net = Lookup(c.netAt, t, @), !.loc = Lookup(c.locAt, t, @), !.live = AliveIds(c, t)]

SameWorld(a, b) == a.net = b.net /\ a.loc = b.loc /\ a.live = b.live

(* What the client shows is the host's word of the newest tick it heard and what    *)
(* its game makes of that word with its own inputs, tick by tick, and nothing else: *)
(* no part of a discarded prediction is left in it (client.rs:704-716).             *)
PredictedFromTheWord ==
  applied # None =>
    /\ applied \in DOMAIN client.netAt => WorldAt(client, applied).net = word[applied].net
    /\ AliveIds(client, applied) = word[applied].ids
    /\ \A u \in (applied + 1)..client.clock :
         /\ {u - 1, u} \subseteq DOMAIN client.netAt
         /\ SameWorld(WorldAt(client, u),
                      Simulated(WorldAt(client, u - 1), Lookup(client.queue, u, "idle")))
    /\ SameWorld(client, WorldAt(client, client.clock))

(* No two entities have one id, however often a spawn is predicted, undone, *)
(* confirmed and predicted again.                                           *)
NoTwins == ~client.twin

(* A client that is not told to stand still has its lead when its pass ends, or is  *)
(* replaying towards it: what it presses next is for a tick the host has yet to run *)
(* (client.rs:640-672).                                                             *)
LeadsTheHost ==
  applied # None /\ client.net.pause = None =>
    IF client.awaiting # None THEN client.awaiting > applied
    ELSE client.clock >= Min({applied + Min(Targets) + 1, MaxClock})

(* A client that heard of a pause stands at its tick, and one that heard of its end *)
(* does not stand still for it (pause.rs:14-21).                                    *)
HeldAtPause ==
  applied # None =>
    /\ client.net.pause # None => client.clock = client.net.pause
    /\ "SessionPause" \in client.holds <=> client.net.pause # None

(* The clock is held for a replay too long for one frame as long as there is one to *)
(* go on with, and no longer: it is never left held for a replay nobody finishes    *)
(* (client.rs:488-508).                                                             *)
ReplayIsAwaited ==
  /\ "Replaying" \in client.holds <=> client.awaiting # None
  /\ client.awaiting # None => client.awaiting > client.clock

(* A client that is told of a pause has forgotten what it predicted past it: it     *)
(* rolls back to the paused tick if it had predicted past it, forgets that          *)
(* prediction, and holds (pause.rs:17-18).                                          *)
PredictionForgotten ==
  "SessionPause" \in client.holds => SameWorld(client, WorldAt(client, client.clock))

(* What the client shows is in the newest word or was spawned by its prediction     *)
(* after it (snapshot.rs:284-286, client.rs:706): a despawn the client predicted    *)
(* does not make a thing of what the host no longer has.                            *)
WordOnExistence ==
  applied # None => \A i \in client.live : i \in word[applied].ids \/ client.life[i].born > applied
==============================================================================
