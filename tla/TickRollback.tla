----------------------------- MODULE TickRollback -----------------------------
(***************************************************************************)
(* One peer's tick and its rollback (crate bevy_ticked): the clock, the    *)
(* tracked entities, the tombstones, the id allocator, the lifetimes and   *)
(* the capture histories, and the operations that move them: a tick, a     *)
(* replay, a manual scrub, a spawn, the two despawns, the prune.           *)
(*                                                                         *)
(* A tick runs with &mut World, so nothing interleaves with it from        *)
(* outside; inside it, and between two ticks, the game spawns and despawns *)
(* in any order, which is why a tick is BeginTick, any number of game      *)
(* steps, and EndTick.                                                     *)
(*                                                                         *)
(* One spawner slot and one stream are modelled: ids are the sequence      *)
(* numbers 1, 2, ... of that stream.  A Kind is a bundle type; it stands   *)
(* also for the registered state the bundle puts on an entity, so a world  *)
(* that restores the wrong occupant is told from one that does not.        *)
(***************************************************************************)
EXTENDS Lifetimes, FiniteSets

CONSTANTS
  MaxId,        \* bound on the ids minted
  Kind,         \* the bundle types a game spawns
  MaxHandle,    \* bound on the Bevy entities the world holds at once
  MaxTick,      \* bound on the clock
  Window,       \* HistoryBufferTicks
  Scrub,        \* whether the game scrubs: StepBackward and ResetToTick
  ResumeScrubbed, \* whether a scrubbed world then plays on over its old future
  SpawnBetween, \* whether the game spawns between ticks, or only inside them
  Nothing, Gone, NotCaptured

ASSUME BoundsAssumption ==
  MaxId \in Nat /\ MaxHandle \in Nat /\ MaxTick \in Nat /\ Window \in Nat \ {0}
ASSUME ModeAssumption == {Scrub, ResumeScrubbed, SpawnBetween} \subseteq BOOLEAN

VARIABLES
  tick,          \* CurrentTick
  phase,         \* "sim" inside TickedSimulation, else "idle", or "scrubbed"
                 \* from a scrub to the next tick or replay
  replayEnd,     \* the tick a replay in progress is heading for, or None
  entity,        \* [Handle -> the tracked entity, live or tombstoned, or Gone]
  index,         \* TrackedEntityIndex::by_id, id -> handle or Gone
  tombs,         \* TrackedEntityIndex::tombstones, id -> handle or Gone
  life,          \* TrackedEntityLifetimes::by_id
  reborn,        \* TrackedEntityLifetimes::reborn, id -> tick or None
  lastCaptured,  \* TrackedEntityLifetimes::last_captured
  next,          \* TrackedIdAllocator, the next sequence
  initialDone,   \* InitialCapture::done
  hist           \* the captured histories: tick -> capture or NotCaptured

vars == <<tick, phase, replayEnd, entity, index, tombs, life, reborn,
          lastCaptured, next, initialDone, hist>>

Tick   == 0..MaxTick
Id     == 1..MaxId
Handle == 1..MaxHandle

(* A tracked entity: its id, the bundle type it was minted as (SpawnedAs,    *)
(* Nothing on a rebuilt one), its registered state (Nothing on a husk), what *)
(* the game's On<Add> observer last dressed it for, and the tick of its      *)
(* Tombstone, None while it is live.                                         *)
Entity == [id : Id, as : Kind \cup {Nothing}, what : Kind \cup {Nothing},
           dress : Kind \cup {Nothing}, diedAt : OptTick]

(* What one capture holds: the registered state of every id, and the         *)
(* allocator, which is a ticked resource.  The histories have no entry both   *)
(* for an id that is not there (Gone) and for one without state (Nothing);    *)
(* only the properties tell the two apart.                                    *)
Captured == [what : [Id -> Kind \cup {Nothing, Gone}], next : Nat \ {0}]

ASSUME SentinelAssumption ==
  /\ Nothing \notin Kind /\ Gone \notin Kind \cup {Nothing}
  /\ Gone \notin Handle /\ Gone \notin Entity
  /\ NotCaptured \notin Captured \cup [Id -> Kind \cup {Nothing, Gone}]

TypeOK ==
  /\ tick \in Tick /\ phase \in {"idle", "scrubbed", "sim"} /\ replayEnd \in Tick \cup {None}
  /\ entity \in [Handle -> Entity \cup {Gone}]
  /\ index \in [Id -> Handle \cup {Gone}] /\ tombs \in [Id -> Handle \cup {Gone}]
  /\ life \in [Id -> Lifetime] /\ reborn \in [Id -> OptTick]
  /\ lastCaptured \in OptTick /\ next \in Nat \ {0} /\ initialDone \in BOOLEAN
  /\ hist \in [Tick -> Captured \cup {NotCaptured}]

-----------------------------------------------------------------------------
(* Reading the world. *)

Exists(h) == entity[h] # Gone
Live(h)   == Exists(h) /\ entity[h].diedAt = None
LiveOf(i) == {h \in Handle : Live(h) /\ entity[h].id = i}
LiveIds   == {i \in Id : LiveOf(i) # {}}

(* The registered state of the world, as a capture records it. *)
WorldState == [i \in Id |-> IF LiveOf(i) = {} THEN Gone
                            ELSE entity[CHOOSE h \in LiveOf(i) : TRUE].what]

(* The tombstone the index offers for i, filtered by whether it still exists. *)
TombstoneOf(i) == IF tombs[i] # Gone /\ Exists(tombs[i]) THEN tombs[i] ELSE Gone

(* Handles for new entities.  Bevy's generations keep a freed handle from    *)
(* naming a later entity, so one the index still names is not given out.     *)
FreeHandles == {h \in Handle : ~Exists(h) /\ \A i \in Id : h \notin {index[i], tombs[i]}}

-----------------------------------------------------------------------------
Init ==
  /\ tick = 0 /\ phase = "idle" /\ replayEnd = None
  /\ entity = [h \in Handle |-> Gone]
  /\ index = [i \in Id |-> Gone] /\ tombs = [i \in Id |-> Gone]
  /\ life = [i \in Id |-> Unseen] /\ reborn = [i \in Id |-> None]
  /\ lastCaptured = None /\ next = 1 /\ initialDone = FALSE
  /\ hist = [t \in Tick |-> NotCaptured]

(* Mutant: a revived tombstone is always taken for the replay of its spawn. *)
NeverChangedHands(e, k) == FALSE

(* A tombstone minted as another bundle type: the id now is another thing. *)
ChangedHands(e, k) == e.as # k

(* TrackedSpawner::spawn: mint the next id; revive its tombstone with the    *)
(* new bundle on it, emptied and dressed again if the id changed hands, or   *)
(* spawn a fresh entity.                                                     *)
SpawnReviving(k, h) ==
  LET changedHands == ChangedHands(entity[h], k)
  IN  /\ entity' = [entity EXCEPT ![h] =
           [id |-> next, as |-> k, what |-> k,
            dress |-> IF changedHands THEN k ELSE @.dress, diedAt |-> None]]
      /\ index' = [index EXCEPT ![next] = h]
      /\ tombs' = [tombs EXCEPT ![next] = Gone]
      /\ life' = [life EXCEPT ![next] = NoteAlive(@, tick)]
      /\ reborn' = IF changedHands
                   THEN [reborn EXCEPT ![next] = IF @ < tick THEN tick ELSE @]
                   ELSE reborn

SpawnFresh(k) ==
  \E h \in FreeHandles :
    /\ \A g \in FreeHandles : h <= g
    /\ entity' = [entity EXCEPT ![h] =
         [id |-> next, as |-> k, what |-> k, dress |-> k, diedAt |-> None]]
    /\ index' = [index EXCEPT ![next] = h]
    /\ UNCHANGED <<tombs, life, reborn>>

(* Where the game spawns: inside the simulation, or setting the session up   *)
(* before anything was captured; SpawnBetween lifts the restriction.         *)
MaySpawn == phase = "sim" \/ SpawnBetween \/ (tick = 0 /\ hist[0] = NotCaptured)

Spawn(k) ==
  /\ MaySpawn /\ next \in Id
  /\ next' = next + 1
  /\ IF TombstoneOf(next) # Gone THEN SpawnReviving(k, TombstoneOf(next)) ELSE SpawnFresh(k)
  /\ UNCHANGED <<tick, phase, replayEnd, lastCaptured, initialDone, hist>>

(* tombstone(): the entity as it is left, given what its lifetime became. *)
Buried(e, t, l) == [e EXCEPT !.diedAt = IF l.died # None THEN l.died ELSE t]

(* despawn_ticked on a live tracked entity. *)
DespawnTicked(h) ==
  LET i == entity[h].id
      l == NoteDead(life[i], tick, lastCaptured)
  IN  /\ Live(h)
      /\ entity' = [entity EXCEPT ![h] = Buried(@, tick, l)]
      /\ index' = [index EXCEPT ![i] = IF @ = h THEN Gone ELSE @]
      /\ tombs' = [tombs EXCEPT ![i] = h]
      /\ life' = [life EXCEPT ![i] = l]
      /\ UNCHANGED <<tick, phase, replayEnd, reborn, lastCaptured, next, initialDone, hist>>

(* A plain despawn: the entity is destroyed, the observers record the death  *)
(* and unindex it.                                                           *)
PlainDespawn(h) ==
  LET i == entity[h].id
  IN  /\ Live(h)
      /\ entity' = [entity EXCEPT ![h] = Gone]
      /\ index' = [index EXCEPT ![i] = IF @ = h THEN Gone ELSE @]
      /\ life' = [life EXCEPT ![i] = NoteDead(@, tick, lastCaptured)]
      /\ UNCHANGED <<tick, phase, replayEnd, tombs, reborn, lastCaptured, next,
                     initialDone, hist>>

-----------------------------------------------------------------------------
(* Mutant: the allocator is captured one short. *)
CaptureAllocatorShort == [what |-> WorldState, next |-> next - 1]

(* capture_all: components, resources, then existence. *)
CaptureNow == [what |-> WorldState, next |-> next]

CaptureAll ==
  /\ life' = [i \in Id |-> CaptureLife(life[i], i \in LiveIds, tick)]
  /\ lastCaptured' = IF lastCaptured > tick THEN lastCaptured ELSE tick

(* ensure_initial_capture: tick 0 of the session, once there is a world. *)
InitialCapture ==
  /\ phase # "sim" /\ ~initialDone /\ LiveIds # {}
  /\ initialDone' = TRUE
  /\ IF tick = 0 /\ hist[0] = NotCaptured
     THEN CaptureAll /\ hist' = [hist EXCEPT ![0] = CaptureNow]
     ELSE UNCHANGED <<life, lastCaptured, hist>>
  /\ UNCHANGED <<tick, phase, replayEnd, entity, index, tombs, reborn, next>>

(* advance_one_tick up to the simulation. *)
BeginTick ==
  /\ phase = "idle" \/ (ResumeScrubbed /\ phase = "scrubbed")
  /\ tick < MaxTick
  /\ tick' = tick + 1 /\ phase' = "sim"
  /\ UNCHANGED <<replayEnd, entity, index, tombs, life, reborn, lastCaptured, next,
                 initialDone, hist>>

(* The first tick an ordinary tick keeps; a prune at 0 is skipped. *)
PruneTick == IF tick > Window THEN tick - Window ELSE 0

(* Mutant: the reaper goes by the clock, not by the window. *)
ReapedByTheClock(p) == {h \in Handle : Exists(h) /\ entity[h].diedAt # None
                                       /\ entity[h].diedAt < tick /\ tombs[entity[h].id] = h}

(* reap_before: the tombstones the window has passed, destroyed and forgotten. *)
Reaped(p) == {h \in Handle : Exists(h) /\ entity[h].diedAt # None
                             /\ entity[h].diedAt < p /\ tombs[entity[h].id] = h}

(* advance_one_tick after the simulation: capture, then prune_all_before. *)
EndTick ==
  LET p == PruneTick
  IN  /\ phase = "sim" /\ replayEnd = None
      /\ phase' = "idle"
      /\ life' = [i \in Id |-> PruneLife(CaptureLife(life[i], i \in LiveIds, tick), p)]
      /\ lastCaptured' = IF lastCaptured > tick THEN lastCaptured ELSE tick
      /\ hist' = [t \in Tick |-> IF t < p THEN NotCaptured
                                 ELSE IF t = tick THEN CaptureNow ELSE hist[t]]
      /\ reborn' = [i \in Id |-> IF reborn[i] < p THEN None ELSE reborn[i]]
      /\ entity' = [h \in Handle |-> IF h \in Reaped(p) THEN Gone ELSE entity[h]]
      /\ tombs' = [i \in Id |-> IF tombs[i] \in Reaped(p) THEN Gone ELSE tombs[i]]
      /\ UNCHANGED <<tick, replayEnd, index, next, initialDone>>

(* A replayed tick: captured, never pruned, and the next one follows at once. *)
EndReplayedTick ==
  /\ phase = "sim" /\ replayEnd # None
  /\ CaptureAll
  /\ hist' = [hist EXCEPT ![tick] = CaptureNow]
  /\ IF tick < replayEnd
     THEN tick' = tick + 1 /\ UNCHANGED <<phase, replayEnd>>
     ELSE phase' = "idle" /\ replayEnd' = None /\ UNCHANGED tick
  /\ UNCHANGED <<entity, index, tombs, reborn, next, initialDone>>

-----------------------------------------------------------------------------
(* restore_all(t). *)

(* restore_existence: the live entities known dead at t are tombstoned, the  *)
(* tombstones alive at t revived, and the ids alive at t with no entity left *)
(* rebuilt from the histories on new handles.                                *)
Burying(t)  == {h \in Handle : Live(h) /\ KnownDeadAt(life[entity[h].id], t)}
Reviving(t) == {h \in Handle : Exists(h) /\ ~Live(h) /\ tombs[entity[h].id] = h
                               /\ AliveAt(life[entity[h].id], t)}
Missing(t)  == {i \in Id : AliveAt(life[i], t) /\ LiveOf(i) = {}
                           /\ \A h \in Reviving(t) : entity[h].id # i}

Placements(S, T) == {f \in [S -> T] : \A a, b \in S : a # b => f[a] # f[b]}

(* The registered state restore_component leaves on a live entity of id i.   *)
StateAt(t, i) == IF hist[t].what[i] = Gone THEN Nothing ELSE hist[t].what[i]

RestoredLife(t) ==
  [i \in Id |->
     IF \E h \in Burying(t) : entity[h].id = i THEN NoteDead(life[i], t, lastCaptured)
     ELSE IF \E h \in Reviving(t) : entity[h].id = i THEN NoteAlive(life[i], t)
     ELSE life[i]]

RestoredEntity(t, h) ==
  LET e == entity[h]
  IN  IF h \in Burying(t) THEN Buried(e, t, RestoredLife(t)[e.id])
      ELSE IF Live(h) \/ h \in Reviving(t)
      THEN [e EXCEPT !.diedAt = None, !.what = StateAt(t, e.id)]
      ELSE e

Rebuilt(t, i) ==
  LET what == StateAt(t, i)
  IN  [id |-> i, as |-> Nothing, what |-> what, dress |-> what, diedAt |-> None]

(* index and tombs name what became of each entity; place says where the     *)
(* rebuilt ones went.                                                        *)
RestoreWorldAt(t, place) ==
  LET newAt(h) == {i \in Missing(t) : place[i] = h}
      revivedAt(i) == {h \in Reviving(t) : entity[h].id = i}
      buriedAt(i) == {h \in Burying(t) : entity[h].id = i}
  IN  /\ entity' = [h \in Handle |->
            IF newAt(h) # {} THEN Rebuilt(t, CHOOSE i \in newAt(h) : TRUE)
            ELSE IF Exists(h) THEN RestoredEntity(t, h) ELSE Gone]
      /\ index' = [i \in Id |-> IF i \in Missing(t) THEN place[i]
                                ELSE IF revivedAt(i) # {} THEN CHOOSE h \in revivedAt(i) : TRUE
                                ELSE IF index[i] \in buriedAt(i) THEN Gone ELSE index[i]]
      /\ tombs' = [i \in Id |-> IF revivedAt(i) # {} THEN Gone
                                ELSE IF buriedAt(i) # {} THEN CHOOSE h \in buriedAt(i) : TRUE
                                ELSE tombs[i]]
      /\ next' = hist[t].next

RestoreWorld(t) ==
  LET places == Placements(Missing(t), FreeHandles)
  IN  /\ places # {}
      /\ RestoreWorldAt(t, CHOOSE f \in places : TRUE)

(* What the callers of a rewind respect: they rewind to a recorded tick.     *)
CanRewind(t) == phase # "sim" /\ t <= tick /\ hist[t] # NotCaptured

(* StepBackward and ResetToTick(t) for t <= CurrentTick: restore_to, which   *)
(* forgets nothing but the event logs.                                       *)
ScrubTo(t) ==
  /\ Scrub /\ CanRewind(t)
  /\ RestoreWorld(t)
  /\ life' = RestoredLife(t)
  /\ tick' = t /\ phase' = "scrubbed"
  /\ UNCHANGED <<replayEnd, reborn, lastCaptured, initialDone, hist>>

(* rollback_and_resimulate(t, end) up to its first tick: restore, forget     *)
(* everything after t, and start the replay.                                 *)
Rollback(t, end) ==
  /\ CanRewind(t) /\ t <= end /\ end <= MaxTick
  /\ RestoreWorld(t)
  /\ life' = [i \in Id |-> TruncateLife(RestoredLife(t)[i], t)]
  /\ lastCaptured' = IF lastCaptured > t THEN t ELSE lastCaptured
  /\ reborn' = [i \in Id |-> IF reborn[i] > t THEN None ELSE reborn[i]]
  /\ hist' = [u \in Tick |-> IF u > t THEN NotCaptured ELSE hist[u]]
  /\ IF t < end THEN tick' = t + 1 /\ phase' = "sim" /\ replayEnd' = end
                ELSE tick' = t /\ phase' = "idle" /\ UNCHANGED replayEnd
  /\ UNCHANGED initialDone

-----------------------------------------------------------------------------
Game ==
  \/ \E k \in Kind : Spawn(k)
  \/ \E h \in Handle : DespawnTicked(h)
  \/ \E h \in Handle : PlainDespawn(h)

Next ==
  \/ Game
  \/ InitialCapture
  \/ BeginTick
  \/ EndTick
  \/ EndReplayedTick
  \/ \E t \in Tick : ScrubTo(t)
  \/ \E t, end \in Tick : Rollback(t, end)

Spec == Init /\ [][Next]_vars

-----------------------------------------------------------------------------
(* PROPERTIES *)

(* The abstract world a rewind promises: the registered state of every       *)
(* tracked id.  A live entity that lost its state is Nothing, an id with no  *)
(* live entity is Gone, so existence is part of it.                          *)
Rewindable == INSTANCE RewindableWorld
  WITH World <- [Id -> Kind \cup {Nothing, Gone}],
       now   <- tick,
       world <- WorldState,
       past  <- [t \in Tick |-> IF hist[t] = NotCaptured THEN NotCaptured ELSE hist[t].what]

(* Every rewind puts back exactly the world captured at its tick: restore_all *)
(* together with truncate_all_after, capture_all and prune_all_before         *)
(* implement the rewindable world.                                            *)
RewindIsExact == Rewindable!AbstractSpec

(* The lifetimes never contradict the component histories: for every retained *)
(* capture, alive_at says exactly which ids that capture holds.  It is what   *)
(* lets restore_existence decide existence without looking at components.     *)
LifetimesMatchHistory ==
  \A t \in Tick, i \in Id :
    hist[t] # NotCaptured /\ t <= tick => (AliveAt(life[i], t) <=> hist[t].what[i] # Gone)

(* The index names the live entity of every id and the tombstone of every id  *)
(* that has one, and nothing else: observers, tombstone, revive and the       *)
(* reaper keep it so whatever order they run in.                              *)
IndexMatchesWorld ==
  /\ \A i \in Id : index[i] # Gone => index[i] \in LiveOf(i)
  /\ \A i \in Id : tombs[i] # Gone =>
       Exists(tombs[i]) /\ ~Live(tombs[i]) /\ entity[tombs[i]].id = i
  /\ \A h \in Handle : Exists(h) =>
       h = IF Live(h) THEN index[entity[h].id] ELSE tombs[entity[h].id]

(* An id is one entity, live or tombstoned: no rewind, rebuild or re-minting  *)
(* leaves two entities claiming it.                                           *)
OneEntityPerId ==
  \A g, h \in Handle : Exists(g) /\ Exists(h) /\ entity[g].id = entity[h].id => g = h

(* No live id, now or in any retained capture, is one the allocator of that   *)
(* moment could mint again.                                                   *)
NoIdMintedTwice ==
  /\ \A i \in LiveIds : i < next
  /\ \A t \in Tick, i \in Id :
       hist[t] # NotCaptured /\ hist[t].what[i] # Gone => i < hist[t].next

(* What the game's spawn observer hung on a live entity is for what the       *)
(* entity is: reset and redress run exactly when an id changed hands, so no   *)
(* occupant wears the clothes of the one before it.                           *)
DressedForWhatItIs == \A h \in Handle : Live(h) => entity[h].dress = entity[h].what

(* No live entity has lost its registered state (registry.rs: "There are no  *)
(* husks any more").                                                          *)
NoHusks == \A h \in Handle : Live(h) => entity[h].what # Nothing

(* A lifetime starts at a capture that holds the id (lifetimes.rs: "The first *)
(* captured tick the id existed at").                                         *)
BornWhenCaptured ==
  \A i \in Id : life[i].born \in {t \in 0..tick : hist[t] # NotCaptured} =>
               hist[life[i].born].what[i] # Gone

(* The reaper destroys a tombstone only when no retained capture can ask for  *)
(* it back: the prune of the histories, of the lifetimes and of the           *)
(* tombstones agree on where the window begins.                               *)
ReapedIsUnreachable ==
  [][\A h \in Handle :
       Exists(h) /\ ~Live(h) /\ entity'[h] = Gone =>
         \A t \in Tick : hist'[t] # NotCaptured => hist'[t].what[entity[h].id] = Gone]_vars
===============================================================================
