-------------------------- MODULE TickRollbackProofs --------------------------
(***************************************************************************)
(* Proofs about TickRollback, for any number of ids, entities, ticks and   *)
(* bundle types and any window, of a game that spawns inside the           *)
(* simulation and plays on from a scrub by replaying (ReplaysOnly): the    *)
(* type invariant, and, from one inductive invariant, that the lifetimes   *)
(* match the histories, that the index matches the world, that an id is    *)
(* one entity, that no id is minted twice, that an entity is dressed for   *)
(* what it is, that the reaper takes nothing a capture can ask back, and   *)
(* that every rewind is exact, the refinement of RewindableWorld. What the *)
(* operators on one lifetime do comes first.                               *)
(***************************************************************************)
EXTENDS TickRollback, TLAPS

-----------------------------------------------------------------------------
(* One lifetime, for any ticks.                                              *)

(* An id with no birth has no death either. *)
WellFormed(l) == l \in Lifetime /\ (~Seen(l) => l.died = None)

(* Every operation returns a well-formed lifetime. *)
LEMMA NoteAliveClosed ==
  ASSUME NEW l, WellFormed(l), NEW t \in Nat
  PROVE  WellFormed(NoteAlive(l, t))
BY DEF WellFormed, Lifetime, OptTick, None, Seen, NoteAlive

LEMMA NoteDeadClosed ==
  ASSUME NEW l, WellFormed(l), NEW t \in Nat, NEW c \in OptTick
  PROVE  WellFormed(NoteDead(l, t, c))
BY DEF WellFormed, Lifetime, OptTick, None, Seen, NoteDead

LEMMA CaptureClosed ==
  ASSUME NEW l, WellFormed(l), NEW t \in Nat, NEW live \in BOOLEAN
  PROVE  WellFormed(CaptureLife(l, live, t))
BY NoteAliveClosed DEF WellFormed, Lifetime, OptTick, None, Seen, CaptureLife

LEMMA TruncateClosed ==
  ASSUME NEW l, WellFormed(l), NEW t \in Nat
  PROVE  WellFormed(TruncateLife(l, t))
BY DEF WellFormed, Lifetime, OptTick, None, Seen, Unseen, TruncateLife

LEMMA PruneClosed ==
  ASSUME NEW l, WellFormed(l), NEW t \in Nat
  PROVE  WellFormed(PruneLife(l, t))
BY DEF WellFormed, Lifetime, OptTick, None, Seen, Unseen, PruneLife

(* A death noted at t never moves a birth, and changes nothing before t, nor *)
(* at t once t has been captured.                                            *)
LEMMA NoteDeadKeepsThePast ==
  ASSUME NEW l, WellFormed(l), NEW t \in Nat, NEW c \in OptTick
  PROVE  /\ NoteDead(l, t, c).born = l.born
         /\ \A u \in Nat : u < t \/ (u = t /\ t <= c) =>
              (AliveAt(NoteDead(l, t, c), u) <=> AliveAt(l, u))
BY DEF WellFormed, Lifetime, OptTick, None, Seen, NoteDead, AliveAt

(* Noting alive what is alive at t changes nothing. *)
LEMMA NoteAliveOfTheLiving ==
  ASSUME NEW l, WellFormed(l), NEW t \in Nat, AliveAt(l, t)
  PROVE  NoteAlive(l, t) = l
BY DEF WellFormed, Lifetime, OptTick, None, Seen, NoteAlive, AliveAt

(* A capture at t of an id whose record agrees with the world: alive at t    *)
(* exactly when live, and as before at every earlier tick.                   *)
LEMMA CaptureIsExact ==
  ASSUME NEW l, WellFormed(l), NEW t \in Nat, NEW live \in BOOLEAN,
         l.born <= t, l.died <= t,
         live => l.died = None,
         ~live /\ Seen(l) => l.died # None
  PROVE  /\ AliveAt(CaptureLife(l, live, t), t) <=> live
         /\ \A u \in Nat : u < t => (AliveAt(CaptureLife(l, live, t), u) <=> AliveAt(l, u))
         /\ CaptureLife(l, live, t).died = l.died
         /\ CaptureLife(l, live, t).born = IF live /\ ~Seen(l) THEN t ELSE l.born
BY DEF WellFormed, Lifetime, OptTick, None, Seen, CaptureLife, NoteAlive, AliveAt

(* Pruning before p loses no answer about p or later. *)
LEMMA PruneKeepsTheWindow ==
  ASSUME NEW l, WellFormed(l), NEW p \in Nat
  PROVE  /\ \A u \in Nat : p <= u => (AliveAt(PruneLife(l, p), u) <=> AliveAt(l, u))
         /\ PruneLife(l, p) = Unseen \/ PruneLife(l, p) = l
         /\ l.died = None => PruneLife(l, p) = l
BY DEF WellFormed, Lifetime, OptTick, None, Seen, Unseen, PruneLife, AliveAt

(* Truncating after t loses no answer about t or earlier, and what is left   *)
(* was born and, if dead, died by then.                                      *)
LEMMA TruncateKeepsThePast ==
  ASSUME NEW l, WellFormed(l), NEW t \in Nat
  PROVE  LET k == TruncateLife(l, t)
         IN  /\ \A u \in Nat : u <= t => (AliveAt(k, u) <=> AliveAt(l, u))
             /\ k.born <= t /\ k.died <= t
             /\ Seen(k) => Seen(l) /\ k.born = l.born
             /\ AliveAt(l, t) => k.died = None
             /\ ~AliveAt(l, t) /\ Seen(k) => k.died # None
BY DEF WellFormed, Lifetime, OptTick, None, Seen, Unseen, TruncateLife, AliveAt

-----------------------------------------------------------------------------
(* The two restrictions under which a rewind keeps its promises; each one    *)
(* dropped is a violated run of the project.                                 *)
ReplaysOnly == ~SpawnBetween /\ ~ResumeScrubbed

(* The clock and the captures: nothing is captured past last_captured, which *)
(* is before the tick being simulated, the tick itself between two ticks,    *)
(* and at or after it in a scrubbed world.                                   *)
ClockMatchesCaptures ==
  /\ \A t \in Tick : hist[t] # NotCaptured => t <= lastCaptured
  /\ phase = "sim" => lastCaptured < tick
  /\ phase = "idle" => lastCaptured = None \/ (lastCaptured = tick /\ hist[tick] # NotCaptured)
  /\ phase = "scrubbed" => tick <= lastCaptured /\ hist[tick] # NotCaptured

(* The latest death a lifetime can hold outside a scrub.                     *)
LastDeath == IF phase = "sim" \/ lastCaptured = None THEN tick ELSE tick + 1

(* A lifetime and the entity it describes: outside a scrub the known ids     *)
(* that are not live have died, by now, and the live ones have not; in a     *)
(* scrubbed world the live ones are those alive at its tick.                 *)
LifetimesMatchWorld ==
  /\ \A i \in Id : WellFormed(life[i])
  /\ phase # "scrubbed" =>
       \A i \in Id :
         /\ life[i].born <= tick /\ life[i].died <= LastDeath
         /\ i \in LiveIds => life[i].died = None
         /\ i \notin LiveIds /\ Seen(life[i]) => life[i].died # None
  /\ phase = "idle" /\ lastCaptured # None => \A i \in LiveIds : Seen(life[i])
  /\ phase = "scrubbed" => \A i \in LiveIds : AliveAt(life[i], tick)

(* An id the record knows was minted: the allocator is past it, today and in *)
(* every capture since its birth.                                            *)
KnownIsMinted ==
  /\ phase # "scrubbed" => \A i \in Id : Seen(life[i]) => i < next
  /\ \A t \in Tick, i \in Id :
       hist[t] # NotCaptured /\ t <= tick /\ Seen(life[i]) /\ life[i].born <= t =>
         i < hist[t].next

IInv ==
  /\ TypeOK
  /\ ClockMatchesCaptures
  /\ LifetimesMatchWorld
  /\ LifetimesMatchHistory
  /\ IndexMatchesWorld
  /\ OneEntityPerId
  /\ NoIdMintedTwice
  /\ KnownIsMinted

-----------------------------------------------------------------------------
(* TYPES *)

(* The place the rebuilt entities go to is one the world has.                *)
LEMMA RestorePlace ==
  ASSUME NEW t \in Tick, RestoreWorld(t)
  PROVE  \E place \in Placements(Missing(t), FreeHandles) : RestoreWorldAt(t, place)
BY DEF RestoreWorld

(* What a buried, a restored or a rebuilt entity is.                         *)
LEMMA RestoreTyped ==
  ASSUME TypeOK, \A i \in Id : WellFormed(life[i]),
         NEW t \in Tick, hist[t] # NotCaptured,
         NEW place \in Placements(Missing(t), FreeHandles), RestoreWorldAt(t, place)
  PROVE  /\ entity' \in [Handle -> Entity \cup {Gone}]
         /\ index' \in [Id -> Handle \cup {Gone}]
         /\ tombs' \in [Id -> Handle \cup {Gone}]
         /\ next' \in Nat \ {0}
         /\ \A i \in Id : WellFormed(RestoredLife(t)[i])
         /\ RestoredLife(t) \in [Id -> Lifetime]
<1>1. t \in Nat /\ hist[t] \in Captured
  BY DEF TypeOK, Tick
<1>2. \A i \in Id : StateAt(t, i) \in Kind \cup {Nothing}
  BY <1>1 DEF StateAt, Captured
<1>3. \A i \in Id : WellFormed(RestoredLife(t)[i])
  <2> SUFFICES ASSUME NEW i \in Id PROVE WellFormed(RestoredLife(t)[i])
    OBVIOUS
  <2>1. WellFormed(NoteAlive(life[i], t)) /\ WellFormed(NoteDead(life[i], t, lastCaptured))
    BY <1>1, NoteAliveClosed, NoteDeadClosed DEF TypeOK
  <2> QED
    BY <2>1 DEF RestoredLife
<1>4. RestoredLife(t) \in [Id -> Lifetime]
  BY <1>3 DEF RestoredLife, WellFormed
<1>5. ASSUME NEW h \in Handle PROVE entity'[h] \in Entity \cup {Gone}
  <2> DEFINE newAt == {i \in Missing(t) : place[i] = h}
             i == CHOOSE i \in newAt : TRUE
  <2>1. entity'[h] = IF newAt # {} THEN Rebuilt(t, i)
                     ELSE IF Exists(h) THEN RestoredEntity(t, h) ELSE Gone
    BY <1>5 DEF RestoreWorldAt
  <2>2. newAt # {} => i \in Id
    BY DEF Missing
  <2>3. newAt # {} => Rebuilt(t, i) \in Entity
    BY <2>2, <1>2 DEF Rebuilt, Entity, OptTick, None
  <2>4. Exists(h) => RestoredEntity(t, h) \in Entity
    <3> SUFFICES ASSUME Exists(h) PROVE RestoredEntity(t, h) \in Entity
      OBVIOUS
    <3>1. entity[h] \in Entity
      BY <1>5 DEF TypeOK, Exists
    <3>2. Buried(entity[h], t, RestoredLife(t)[entity[h].id]) \in Entity
      BY <3>1, <1>1, <1>3 DEF Buried, Entity, WellFormed, Lifetime, OptTick
    <3>3. [entity[h] EXCEPT !.diedAt = None, !.what = StateAt(t, entity[h].id)] \in Entity
      BY <3>1, <1>2 DEF Entity, OptTick
    <3> QED
      BY <3>1, <3>2, <3>3 DEF RestoredEntity
  <2> QED
    BY <2>1, <2>3, <2>4
<1>6. entity' \in [Handle -> Entity \cup {Gone}]
  BY <1>5 DEF RestoreWorldAt
<1>7. index' \in [Id -> Handle \cup {Gone}]
  BY DEF RestoreWorldAt, TypeOK, Placements, FreeHandles, Reviving
<1>8. tombs' \in [Id -> Handle \cup {Gone}]
  BY DEF RestoreWorldAt, TypeOK, Burying, Reviving
<1>9. next' \in Nat \ {0}
  BY <1>1 DEF RestoreWorldAt, Captured
<1> QED
  BY <1>3, <1>4, <1>6, <1>7, <1>8, <1>9

(* A capture holds an id exactly when the id is live.                        *)
LEMMA CaptureHoldsTheLive ==
  ASSUME TypeOK
  PROVE  /\ CaptureNow \in Captured /\ CaptureNow # NotCaptured
         /\ \A i \in Id : CaptureNow.what[i] # Gone <=> i \in LiveIds
         /\ CaptureNow.next = next
<1>1. ASSUME NEW i \in Id
      PROVE  /\ WorldState[i] \in Kind \cup {Nothing, Gone}
             /\ WorldState[i] # Gone <=> i \in LiveIds
  <2> DEFINE h == CHOOSE g \in LiveOf(i) : TRUE
  <2>1. WorldState[i] = IF LiveOf(i) = {} THEN Gone ELSE entity[h].what
    BY DEF WorldState
  <2>2. LiveOf(i) # {} => h \in Handle /\ Exists(h)
    BY DEF LiveOf, Live
  <2>3. LiveOf(i) # {} => entity[h].what \in Kind \cup {Nothing}
    BY <2>2 DEF TypeOK, Exists, Entity
  <2>4. i \in LiveIds <=> LiveOf(i) # {}
    BY <1>1 DEF LiveIds
  <2> QED
    BY <2>1, <2>3, <2>4, SentinelAssumption
<1>2. WorldState \in [Id -> Kind \cup {Nothing, Gone}]
  BY <1>1 DEF WorldState
<1> QED
  BY <1>1, <1>2, SentinelAssumption DEF CaptureNow, Captured, TypeOK

(* Each step preserves the types. *)
LEMMA TypeStep ==
  ASSUME TypeOK, \A i \in Id : WellFormed(life[i]), [Next]_vars
  PROVE  TypeOK' /\ \A i \in Id : WellFormed(life'[i])
<1> USE DEF Tick
<1>0. tick \in Nat /\ MaxTick \in Nat
  BY BoundsAssumption DEF TypeOK
<1>c. CaptureNow \in Captured
  BY CaptureHoldsTheLive
<1>1. ASSUME NEW k \in Kind, Spawn(k)
      PROVE  TypeOK' /\ \A i \in Id : WellFormed(life'[i])
  <2>1. next \in Id /\ next' = next + 1
    BY <1>1 DEF Spawn
  <2>2. WellFormed(NoteAlive(life[next], tick)) /\ NoteAlive(life[next], tick) \in Lifetime
    BY <2>1, <1>0, NoteAliveClosed DEF TypeOK, WellFormed
  <2>3. CASE TombstoneOf(next) # Gone
    <3> DEFINE h == TombstoneOf(next)
    <3>1. h \in Handle /\ entity[h] \in Entity
      BY <2>1, <2>3 DEF TombstoneOf, Exists, TypeOK
    <3>2. SpawnReviving(k, h)
      BY <1>1, <2>3 DEF Spawn
    <3>3. entity' \in [Handle -> Entity \cup {Gone}]
      BY <3>1, <3>2, <2>1, <1>1 DEF SpawnReviving, TypeOK, Entity, OptTick
    <3>4. life' \in [Id -> Lifetime] /\ \A i \in Id : WellFormed(life'[i])
      BY <3>2, <2>1, <2>2 DEF SpawnReviving, TypeOK
    <3>5. reborn' \in [Id -> OptTick]
      BY <3>2, <1>0 DEF SpawnReviving, TypeOK, OptTick
    <3>6. index' \in [Id -> Handle \cup {Gone}] /\ tombs' \in [Id -> Handle \cup {Gone}]
      BY <3>1, <3>2 DEF SpawnReviving, TypeOK
    <3> QED
      BY <3>3, <3>4, <3>5, <3>6, <2>1, <1>1 DEF Spawn, TypeOK
  <2>4. CASE TombstoneOf(next) = Gone
    <3>1. PICK h \in FreeHandles :
            /\ entity' = [entity EXCEPT ![h] =
                 [id |-> next, as |-> k, what |-> k, dress |-> k, diedAt |-> None]]
            /\ index' = [index EXCEPT ![next] = h]
            /\ UNCHANGED <<tombs, life, reborn>>
      BY <1>1, <2>4 DEF Spawn, SpawnFresh
    <3>2. entity' \in [Handle -> Entity \cup {Gone}] /\ index' \in [Id -> Handle \cup {Gone}]
      BY <3>1, <2>1, <1>1 DEF TypeOK, Entity, OptTick, FreeHandles
    <3> QED
      BY <3>1, <3>2, <2>1, <1>1 DEF Spawn, TypeOK
  <2> QED
    BY <2>3, <2>4
<1>2. ASSUME NEW h \in Handle, DespawnTicked(h) \/ PlainDespawn(h)
      PROVE  TypeOK' /\ \A i \in Id : WellFormed(life'[i])
  <2> DEFINE i == entity[h].id
             l == NoteDead(life[i], tick, lastCaptured)
  <2>1. entity[h] \in Entity /\ i \in Id
    BY <1>2 DEF DespawnTicked, PlainDespawn, Live, Exists, TypeOK, Entity
  <2>2. WellFormed(l) /\ l \in Lifetime
    BY <2>1, <1>0, NoteDeadClosed DEF TypeOK, WellFormed
  <2>3. Buried(entity[h], tick, l) \in Entity
    BY <2>1, <2>2, <1>0 DEF Buried, Entity, Lifetime, OptTick
  <2>4. CASE DespawnTicked(h)
    BY <2>1, <2>2, <2>3, <2>4 DEF DespawnTicked, TypeOK
  <2>5. CASE PlainDespawn(h)
    BY <2>1, <2>2, <2>5 DEF PlainDespawn, TypeOK
  <2> QED
    BY <1>2, <2>4, <2>5
<1>3. /\ \A i \in Id : WellFormed(CaptureLife(life[i], i \in LiveIds, tick))
      /\ \A i \in Id : CaptureLife(life[i], i \in LiveIds, tick) \in Lifetime
      /\ \A i \in Id, p \in Nat :
           /\ WellFormed(PruneLife(CaptureLife(life[i], i \in LiveIds, tick), p))
           /\ PruneLife(CaptureLife(life[i], i \in LiveIds, tick), p) \in Lifetime
  <2>1. ASSUME NEW i \in Id
        PROVE  WellFormed(CaptureLife(life[i], i \in LiveIds, tick))
    <3>1. (i \in LiveIds) \in BOOLEAN /\ WellFormed(life[i])
      BY <2>1
    <3> QED
      BY <3>1, <1>0, CaptureClosed, Zenon
  <2>2. ASSUME NEW i \in Id, NEW p \in Nat
        PROVE  WellFormed(PruneLife(CaptureLife(life[i], i \in LiveIds, tick), p))
    BY <2>1, <2>2, PruneClosed
  <2> QED
    BY <2>1, <2>2 DEF WellFormed
<1>4. CASE InitialCapture
  BY <1>0, <1>3, <1>4, <1>c DEF InitialCapture, CaptureAll, TypeOK, OptTick
<1>5. CASE BeginTick
  BY <1>0, <1>5 DEF BeginTick, TypeOK
<1>6. CASE EndTick
  <2>1. PruneTick \in Nat
    BY <1>0, BoundsAssumption DEF PruneTick
  <2>2. life' \in [Id -> Lifetime] /\ \A i \in Id : WellFormed(life'[i])
    BY <1>3, <1>6, <2>1 DEF EndTick
  <2>3. hist' \in [Tick -> Captured \cup {NotCaptured}]
    BY <1>6, <1>c DEF EndTick, TypeOK
  <2>4. reborn' \in [Id -> OptTick]
    BY <1>6 DEF EndTick, TypeOK, OptTick
  <2> QED
    BY <1>0, <1>6, <2>2, <2>3, <2>4 DEF EndTick, TypeOK, OptTick
<1>7. CASE EndReplayedTick
  <2>1. life' \in [Id -> Lifetime] /\ \A i \in Id : WellFormed(life'[i])
    BY <1>3, <1>7 DEF EndReplayedTick, CaptureAll
  <2>2. tick' \in Tick /\ replayEnd' \in Tick \cup {None} /\ phase' \in {"idle", "sim"}
    BY <1>0, <1>7 DEF EndReplayedTick, TypeOK
  <2> QED
    BY <1>0, <1>7, <1>c, <2>1, <2>2 DEF EndReplayedTick, CaptureAll, TypeOK, OptTick
<1>8. ASSUME NEW t \in Tick, ScrubTo(t)
      PROVE  TypeOK' /\ \A i \in Id : WellFormed(life'[i])
  <2>1. PICK place \in Placements(Missing(t), FreeHandles) : RestoreWorldAt(t, place)
    BY <1>8, RestorePlace DEF ScrubTo
  <2> QED
    BY <1>8, <2>1, RestoreTyped DEF ScrubTo, CanRewind, TypeOK
<1>9. ASSUME NEW t \in Tick, NEW end \in Tick, Rollback(t, end)
      PROVE  TypeOK' /\ \A i \in Id : WellFormed(life'[i])
  <2>1. PICK place \in Placements(Missing(t), FreeHandles) : RestoreWorldAt(t, place)
    BY <1>9, RestorePlace DEF Rollback
  <2>2. \A i \in Id : WellFormed(TruncateLife(RestoredLife(t)[i], t))
    BY <1>9, <2>1, RestoreTyped, TruncateClosed DEF Rollback, CanRewind
  <2>3. life' \in [Id -> Lifetime] /\ \A i \in Id : WellFormed(life'[i])
    BY <1>9, <2>2 DEF Rollback, WellFormed
  <2>4. hist' \in [Tick -> Captured \cup {NotCaptured}]
    BY <1>9 DEF Rollback, TypeOK
  <2>5. reborn' \in [Id -> OptTick]
    BY <1>9 DEF Rollback, TypeOK, OptTick
  <2>6. tick' \in Tick /\ replayEnd' \in Tick \cup {None} /\ phase' \in {"idle", "sim"}
    BY <1>0, <1>9 DEF Rollback, TypeOK
  <2>7. lastCaptured' \in OptTick /\ initialDone' \in BOOLEAN
    BY <1>0, <1>9 DEF Rollback, TypeOK, OptTick
  <2>8. /\ entity' \in [Handle -> Entity \cup {Gone}]
        /\ index' \in [Id -> Handle \cup {Gone}] /\ tombs' \in [Id -> Handle \cup {Gone}]
        /\ next' \in Nat \ {0}
    BY <1>9, <2>1, RestoreTyped DEF Rollback, CanRewind
  <2> QED
    BY <2>3, <2>4, <2>5, <2>6, <2>7, <2>8 DEF TypeOK
<1>10. CASE UNCHANGED vars
  BY <1>10 DEF vars, TypeOK, WellFormed
<1> QED
  BY <1>1, <1>2, <1>4, <1>5, <1>6, <1>7, <1>8, <1>9, <1>10 DEF Next, Game

LEMMA TypeInit ==
  ASSUME Init
  PROVE  TypeOK /\ \A i \in Id : WellFormed(life[i])
<1>1. WellFormed(Unseen)
  BY DEF WellFormed, Unseen, Lifetime, Seen, OptTick
<1>2. 0 \in Tick
  BY BoundsAssumption DEF Tick
<1>3. life \in [Id -> Lifetime] /\ \A i \in Id : WellFormed(life[i])
  BY <1>1 DEF Init, WellFormed
<1>4. tick \in Tick /\ phase \in {"idle", "scrubbed", "sim"} /\ replayEnd \in Tick \cup {None}
  BY <1>2 DEF Init
<1>5. /\ entity \in [Handle -> Entity \cup {Gone}]
      /\ index \in [Id -> Handle \cup {Gone}] /\ tombs \in [Id -> Handle \cup {Gone}]
      /\ hist \in [Tick -> Captured \cup {NotCaptured}]
  BY DEF Init
<1>6. reborn \in [Id -> OptTick] /\ lastCaptured \in OptTick /\ next \in Nat \ {0}
  BY DEF Init, OptTick
<1>7. initialDone \in BOOLEAN
  BY DEF Init
<1> QED
  BY <1>3, <1>4, <1>5, <1>6, <1>7 DEF TypeOK

(* The types hold in every state, whatever the game does.                    *)
THEOREM Typing == Spec => []TypeOK
<1> DEFINE Inv == TypeOK /\ \A i \in Id : WellFormed(life[i])
<1>1. Init => Inv
  BY TypeInit
<1>2. Inv /\ [Next]_vars => Inv'
  BY TypeStep
<1> QED
  BY <1>1, <1>2, PTL DEF Spec

-----------------------------------------------------------------------------
(* THE INDUCTIVE INVARIANT *)

LEMMA InvInit == Init => IInv
<1> SUFFICES ASSUME Init PROVE IInv
  OBVIOUS
<1>1. TypeOK /\ \A i \in Id : WellFormed(life[i])
  BY TypeInit
<1>2. \A h \in Handle : ~Exists(h)
  BY DEF Init, Exists
<1>3. LiveIds = {}
  BY <1>2 DEF LiveIds, LiveOf, Live
<1>4. ClockMatchesCaptures /\ NoIdMintedTwice /\ LifetimesMatchHistory
  BY <1>3 DEF Init, ClockMatchesCaptures, NoIdMintedTwice, LifetimesMatchHistory
<1>5. \A i \in Id : life[i].born = None /\ life[i].died = None /\ ~Seen(life[i])
  BY DEF Init, Unseen, Seen
<1>6. LifetimesMatchWorld
  BY <1>1, <1>3, <1>5 DEF Init, LifetimesMatchWorld, LastDeath, None
<1>7. KnownIsMinted
  BY <1>5 DEF Init, KnownIsMinted
<1>8. IndexMatchesWorld /\ OneEntityPerId
  BY <1>2 DEF Init, IndexMatchesWorld, OneEntityPerId
<1> QED
  BY <1>1, <1>4, <1>6, <1>7, <1>8 DEF IInv

(* A spawn mints an id the record does not know: revived or fresh, its life  *)
(* starts now, after every capture.                                          *)
LEMMA SpawnStep ==
  ASSUME IInv, ReplaysOnly, NEW k \in Kind, Spawn(k)
  PROVE  IInv'
<1> DEFINE n == next
<1>t. TypeOK /\ tick \in Nat /\ \A i \in Id : WellFormed(life[i])
  BY DEF IInv, TypeOK, Tick, LifetimesMatchWorld
<1>t2. TypeOK' /\ \A i \in Id : WellFormed(life'[i])
  BY <1>t, TypeStep DEF Next, Game
<1>s. /\ n \in Id /\ next' = n + 1 /\ n \in Nat
      /\ UNCHANGED <<tick, phase, replayEnd, lastCaptured, initialDone, hist>>
  BY <1>t DEF Spawn, TypeOK
<1>1. phase # "scrubbed"
  BY DEF Spawn, MaySpawn, ReplaysOnly, IInv, ClockMatchesCaptures
<1>2. ~Seen(life[n]) /\ life[n].died = None
  BY <1>1, <1>s, <1>t DEF IInv, KnownIsMinted, WellFormed
<1>3. LiveOf(n) = {}
  BY <1>s DEF IInv, NoIdMintedTwice, LiveIds
<1>4. \A t \in Tick : hist[t] # NotCaptured => t < tick
  BY <1>1, <1>t DEF Spawn, MaySpawn, ReplaysOnly, IInv, ClockMatchesCaptures, Tick, TypeOK, OptTick, None
<1>5. PICK h \in Handle :
        /\ \A g \in Handle \ {h} : entity'[g] = entity[g]
        /\ entity'[h].id = n /\ entity'[h].diedAt = None /\ entity'[h] # Gone
        /\ Exists(h) => entity[h].id = n /\ ~Live(h) /\ tombs[n] = h
        /\ ~Exists(h) => tombs[n] = Gone
        /\ \A i \in Id \ {n} : index[i] # h /\ tombs[i] # h
        /\ index' = [index EXCEPT ![n] = h]
        /\ tombs' = [tombs EXCEPT ![n] = Gone]
        /\ life' \in {life, [life EXCEPT ![n] = NoteAlive(@, tick)]}
  <2>1. CASE TombstoneOf(n) # Gone
    <3> DEFINE h == tombs[n]
    <3>1. TombstoneOf(n) = h /\ h \in Handle /\ Exists(h)
      BY <2>1, <1>s, <1>t DEF TombstoneOf, TypeOK
    <3>2. entity[h].id = n /\ ~Live(h)
      BY <3>1, <1>s, SentinelAssumption DEF IInv, IndexMatchesWorld
    <3>3. SpawnReviving(k, h)
      BY <2>1, <3>1 DEF Spawn
    <3>4. entity'[h].id = n /\ entity'[h].diedAt = None /\ entity'[h] \in Entity
      BY <3>1, <3>3, <1>s, <1>t DEF SpawnReviving, TypeOK, Entity, OptTick, Exists
    <3>5. \A i \in Id \ {n} : index[i] # h /\ tombs[i] # h
      BY <3>1, <3>2, SentinelAssumption DEF IInv, IndexMatchesWorld, LiveOf
    <3>6. \A g \in Handle \ {h} : entity'[g] = entity[g]
      BY <3>1, <3>3, <1>t DEF SpawnReviving, TypeOK
    <3> QED
      BY <3>1, <3>2, <3>3, <3>4, <3>5, <3>6, SentinelAssumption DEF SpawnReviving
  <2>2. CASE TombstoneOf(n) = Gone
    <3>1. PICK h \in FreeHandles :
            /\ entity' = [entity EXCEPT ![h] =
                 [id |-> n, as |-> k, what |-> k, dress |-> k, diedAt |-> None]]
            /\ index' = [index EXCEPT ![n] = h]
            /\ UNCHANGED <<tombs, life, reborn>>
      BY <2>2 DEF Spawn, SpawnFresh
    <3>2. tombs[n] = Gone
      BY <2>2, <1>s DEF TombstoneOf, IInv, IndexMatchesWorld
    <3>3. tombs' = [tombs EXCEPT ![n] = Gone]
      BY <3>1, <3>2, <1>t DEF TypeOK
    <3>4. entity'[h].id = n /\ entity'[h].diedAt = None /\ entity'[h] \in Entity
      BY <3>1, <1>s, <1>t DEF TypeOK, Entity, OptTick, FreeHandles
    <3>5. \A g \in Handle \ {h} : entity'[g] = entity[g]
      BY <3>1, <1>t DEF TypeOK
    <3> QED
      BY <3>1, <3>2, <3>3, <3>4, <3>5, SentinelAssumption DEF FreeHandles
  <2> QED
    BY <2>1, <2>2
<1>6. \A g \in Handle : Live(g)' <=> g = h \/ Live(g)
  BY <1>5 DEF Live, Exists
<1>7. \A g \in Handle : Exists(g)' <=> g = h \/ Exists(g)
  BY <1>5 DEF Exists
<1>8. \A i \in Id : LiveOf(i)' = IF i = n THEN {h} ELSE LiveOf(i)
  <2> SUFFICES ASSUME NEW i \in Id, NEW g \in Handle
               PROVE  g \in LiveOf(i)' <=> g \in IF i = n THEN {h} ELSE LiveOf(i)
    BY DEF LiveOf
  <2> QED
    BY <1>3, <1>5, <1>6, <1>s DEF LiveOf, Live
<1>9. LiveIds' = LiveIds \cup {n}
  BY <1>8, <1>s DEF LiveIds
<1>10. /\ life'[n].died = None /\ (Seen(life'[n]) => life'[n].born = tick)
       /\ \A i \in Id \ {n} : life'[i] = life[i]
  BY <1>2, <1>5, <1>s, <1>t DEF NoteAlive, TypeOK, None, Lifetime
<1>11. ClockMatchesCaptures'
  BY <1>s DEF IInv, ClockMatchesCaptures
<1>12. LifetimesMatchWorld'
  <2>1. phase' # "scrubbed"
    BY <1>1, <1>s
  <2>2. LastDeath' = LastDeath
    BY <1>s DEF LastDeath
  <2>3. LastDeath \in Nat /\ LastDeath >= tick
    BY <1>t DEF LastDeath
  <2>4. \A i \in Id :
          /\ life'[i].born <= tick /\ life'[i].died <= LastDeath
          /\ i \in LiveIds' => life'[i].died = None
          /\ i \notin LiveIds' /\ Seen(life'[i]) => life'[i].died # None
    BY <1>1, <1>9, <1>10, <1>t, <2>3 DEF IInv, LifetimesMatchWorld, Seen, None
  <2>5. ~(phase' = "idle" /\ lastCaptured' # None)
    BY <1>4, <1>s, <1>t DEF IInv, ClockMatchesCaptures, TypeOK, Tick, None
  <2> QED
    BY <1>t2, <1>s, <2>1, <2>2, <2>4, <2>5 DEF LifetimesMatchWorld
<1>13. LifetimesMatchHistory'
  <2> SUFFICES ASSUME NEW t \in Tick, NEW i \in Id, hist[t] # NotCaptured, t <= tick
               PROVE  AliveAt(life'[i], t) <=> hist[t].what[i] # Gone
    BY <1>s DEF LifetimesMatchHistory
  <2>1. AliveAt(life[i], t) <=> hist[t].what[i] # Gone
    BY DEF IInv, LifetimesMatchHistory
  <2>2. CASE i = n
    BY <2>1, <2>2, <1>2, <1>4, <1>10, <1>t DEF AliveAt, Tick
  <2> QED
    BY <2>1, <2>2, <1>10
<1>14. IndexMatchesWorld'
  <2>1. \A i \in Id : index'[i] # Gone => index'[i] \in LiveOf(i)'
    BY <1>5, <1>8, <1>t DEF IInv, IndexMatchesWorld, TypeOK
  <2>2. ASSUME NEW i \in Id, tombs'[i] # Gone
        PROVE  (Exists(tombs[i]) /\ ~Live(tombs[i]) /\ entity[tombs[i]].id = i)'
    <3>1. i # n /\ tombs'[i] = tombs[i] /\ tombs[i] \in Handle
      BY <2>2, <1>5, <1>t DEF TypeOK
    <3>2. Exists(tombs[i]) /\ ~Live(tombs[i]) /\ entity[tombs[i]].id = i /\ tombs[i] # h
      BY <2>2, <3>1, <1>5 DEF IInv, IndexMatchesWorld
    <3> QED
      BY <3>1, <3>2, <1>5 DEF Live, Exists
  <2>3. \A g \in Handle : Exists(g)' =>
          g = IF Live(g)' THEN index'[entity'[g].id] ELSE tombs'[entity'[g].id]
    <3> SUFFICES ASSUME NEW g \in Handle, Exists(g)'
                 PROVE  g = IF Live(g)' THEN index'[entity'[g].id] ELSE tombs'[entity'[g].id]
      OBVIOUS
    <3>1. CASE g = h
      BY <3>1, <1>5, <1>6, <1>s, <1>t DEF TypeOK
    <3>2. CASE g # h
      <4>1. /\ Exists(g) /\ entity'[g] = entity[g] /\ (Live(g)' <=> Live(g))
            /\ entity[g].id \in Id
        BY <3>2, <1>5, <1>6, <1>7, <1>t DEF TypeOK, Entity, Exists
      <4>2. g = IF Live(g) THEN index[entity[g].id] ELSE tombs[entity[g].id]
        BY <4>1 DEF IInv, IndexMatchesWorld
      <4>3. entity[g].id # n
        BY <4>1, <4>2, <3>2, <1>3, <1>5, SentinelAssumption DEF LiveOf
      <4> QED
        BY <4>1, <4>2, <4>3, <1>5, <1>t DEF TypeOK
    <3> QED
      BY <3>1, <3>2
  <2> QED
    BY <2>1, <2>2, <2>3 DEF IndexMatchesWorld
<1>15. OneEntityPerId'
  <2>1. \A g \in Handle : Exists(g) /\ entity[g].id = n => g = h
    BY <1>3, <1>5, <1>s, SentinelAssumption DEF IInv, IndexMatchesWorld, LiveOf
  <2> QED
    BY <2>1, <1>5, <1>7 DEF IInv, OneEntityPerId
<1>16. NoIdMintedTwice'
  <2>1. \A i \in LiveIds' : i < next'
    BY <1>9, <1>s, <1>t DEF IInv, NoIdMintedTwice, Id, LiveIds
  <2> QED
    BY <2>1, <1>s DEF IInv, NoIdMintedTwice
<1>17. KnownIsMinted'
  <2>1. \A i \in Id : Seen(life'[i]) => i < next'
    BY <1>1, <1>10, <1>s DEF IInv, KnownIsMinted, Id
  <2>2. ASSUME NEW t \in Tick, NEW i \in Id,
               hist[t] # NotCaptured, t <= tick, Seen(life'[i]), life'[i].born <= t
        PROVE  i < hist[t].next
    BY <2>2, <1>4, <1>10, <1>t DEF IInv, KnownIsMinted, Tick
  <2> QED
    BY <2>1, <2>2, <1>s DEF KnownIsMinted
<1> QED
  BY <1>t2, <1>11, <1>12, <1>13, <1>14, <1>15, <1>16, <1>17 DEF IInv

(* A despawn of either kind ends a life at a tick no capture has seen.       *)
LEMMA DespawnStep ==
  ASSUME IInv, NEW h \in Handle, DespawnTicked(h) \/ PlainDespawn(h)
  PROVE  IInv'
<1> DEFINE n == entity[h].id
           l == NoteDead(life[n], tick, lastCaptured)
<1>t. /\ TypeOK /\ tick \in Nat /\ lastCaptured \in OptTick
      /\ \A i \in Id : WellFormed(life[i])
  BY DEF IInv, TypeOK, Tick, LifetimesMatchWorld
<1>t2. TypeOK' /\ \A i \in Id : WellFormed(life'[i])
  BY <1>t, TypeStep DEF Next, Game
<1>s. /\ Live(h) /\ entity[h] \in Entity /\ n \in Id
      /\ UNCHANGED <<tick, phase, replayEnd, lastCaptured, next, initialDone, hist>>
      /\ life' = [life EXCEPT ![n] = l]
      /\ index' = [index EXCEPT ![n] = IF @ = h THEN Gone ELSE @]
      /\ tombs' = tombs \/ (tombs' = [tombs EXCEPT ![n] = h] /\ DespawnTicked(h))
      /\ tombs' = tombs => PlainDespawn(h)
  BY <1>t, SentinelAssumption
  DEF DespawnTicked, PlainDespawn, Live, Exists, TypeOK, Entity, IInv, IndexMatchesWorld
<1>1. index[n] = h /\ tombs[n] = Gone /\ \A i \in Id \ {n} : index[i] # h /\ tombs[i] # h
  BY <1>s, <1>t, SentinelAssumption
  DEF IInv, IndexMatchesWorld, OneEntityPerId, LiveOf, Live, Exists, TypeOK
<1>2. \A g \in Handle \ {h} : entity'[g] = entity[g] /\ (Live(g)' <=> Live(g)) /\ (Exists(g)' <=> Exists(g))
  BY <1>t DEF DespawnTicked, PlainDespawn, Live, Exists, TypeOK
<1>3. /\ ~Live(h)'
      /\ DespawnTicked(h) => Exists(h)' /\ entity'[h].id = n /\ tombs' = [tombs EXCEPT ![n] = h]
      /\ ~DespawnTicked(h) => ~Exists(h)' /\ tombs' = tombs
  <2>1. CASE DespawnTicked(h)
    <3>1. Buried(entity[h], tick, l).diedAt # None /\ Buried(entity[h], tick, l).id = n
      BY <1>s, <1>t DEF Buried, Entity, None
    <3>2. entity'[h] = Buried(entity[h], tick, l)
      BY <2>1, <1>t DEF DespawnTicked, TypeOK
    <3>3. WellFormed(l) /\ Buried(entity[h], tick, l) \in Entity
      BY <1>s, <1>t, NoteDeadClosed DEF Buried, Entity, WellFormed, Lifetime, OptTick
    <3>4. tombs' = [tombs EXCEPT ![n] = h]
      BY <2>1 DEF DespawnTicked
    <3> QED
      BY <2>1, <3>1, <3>2, <3>3, <3>4, SentinelAssumption DEF Live, Exists
  <2>2. CASE ~DespawnTicked(h)
    BY <2>2, <1>s, <1>t DEF PlainDespawn, Live, Exists, TypeOK
  <2> QED
    BY <2>1, <2>2
<1>4. \A i \in Id : LiveOf(i)' = LiveOf(i) \ {h}
  <2> SUFFICES ASSUME NEW i \in Id, NEW g \in Handle
               PROVE  g \in LiveOf(i)' <=> g \in LiveOf(i) \ {h}
    BY DEF LiveOf
  <2> QED
    BY <1>2, <1>3 DEF LiveOf
<1>5. LiveIds' = LiveIds \ {n}
  <2>1. \A i \in Id : h \in LiveOf(i) => i = n
    BY DEF LiveOf
  <2>2. LiveOf(n) = {h}
    BY <1>s DEF IInv, OneEntityPerId, LiveOf, Live
  <2> QED
    BY <1>4, <2>1, <2>2 DEF LiveIds
<1>6. /\ life'[n].born = life[n].born /\ (Seen(life'[n]) <=> Seen(life[n]))
      /\ \A i \in Id \ {n} : life'[i] = life[i]
      /\ life'[n] = l
  BY <1>s, <1>t, NoteDeadKeepsThePast DEF Seen, TypeOK
<1>11. ClockMatchesCaptures'
  BY <1>s DEF IInv, ClockMatchesCaptures
<1>12. LifetimesMatchWorld'
  <2>1. LastDeath' = LastDeath /\ LastDeath \in Nat
    BY <1>s, <1>t DEF LastDeath
  <2>2. ASSUME phase # "scrubbed"
        PROVE  /\ life'[n].born <= tick /\ life'[n].died <= LastDeath
               /\ Seen(life'[n]) => life'[n].died # None
    <3>1. life[n].born <= tick /\ life[n].died = None
      BY <2>2, <1>s DEF IInv, LifetimesMatchWorld, LiveIds, LiveOf
    <3>2. IF lastCaptured >= tick THEN LastDeath = tick + 1 ELSE LastDeath >= tick
      BY <2>2, <1>t DEF LastDeath, IInv, ClockMatchesCaptures, TypeOK, OptTick, None
    <3> QED
      BY <3>1, <3>2, <2>1, <1>s, <1>t, <1>6 DEF NoteDead, WellFormed, Lifetime, OptTick, None, Seen
  <2>3. phase # "scrubbed" =>
          \A i \in Id :
            /\ life'[i].born <= tick /\ life'[i].died <= LastDeath
            /\ i \in LiveIds' => life'[i].died = None
            /\ i \notin LiveIds' /\ Seen(life'[i]) => life'[i].died # None
    BY <2>2, <1>5, <1>6 DEF IInv, LifetimesMatchWorld
  <2>4. phase = "idle" /\ lastCaptured # None => \A i \in LiveIds' : Seen(life'[i])
    BY <1>5, <1>6 DEF IInv, LifetimesMatchWorld, LiveIds
  <2>5. phase = "scrubbed" => \A i \in LiveIds' : AliveAt(life'[i], tick)
    BY <1>5, <1>6 DEF IInv, LifetimesMatchWorld, LiveIds
  <2> QED
    BY <1>t2, <1>s, <2>1, <2>3, <2>4, <2>5 DEF LifetimesMatchWorld
<1>13. LifetimesMatchHistory'
  <2> SUFFICES ASSUME NEW t \in Tick, NEW i \in Id, hist[t] # NotCaptured, t <= tick
               PROVE  AliveAt(life'[i], t) <=> AliveAt(life[i], t)
    BY <1>s DEF IInv, LifetimesMatchHistory
  <2>1. t \in Nat /\ (t < tick \/ (t = tick /\ tick <= lastCaptured))
    BY <1>t DEF IInv, ClockMatchesCaptures, Tick
  <2> QED
    BY <2>1, <1>s, <1>t, <1>6, NoteDeadKeepsThePast
<1>14. IndexMatchesWorld'
  <2>1. \A i \in Id : index'[i] # Gone => index'[i] \in LiveOf(i)'
    BY <1>1, <1>4, <1>s, <1>t DEF IInv, IndexMatchesWorld, TypeOK
  <2>2. ASSUME NEW i \in Id, tombs'[i] # Gone
        PROVE  (Exists(tombs[i]) /\ ~Live(tombs[i]) /\ entity[tombs[i]].id = i)'
    <3>1. CASE tombs'[i] = h
      BY <3>1, <2>2, <1>1, <1>3, <1>s, <1>t, SentinelAssumption DEF TypeOK, Live
    <3>2. CASE tombs'[i] # h
      <4>1. tombs'[i] = tombs[i] /\ tombs[i] \in Handle \ {h}
        BY <3>2, <2>2, <1>s, <1>t DEF TypeOK
      <4> QED
        BY <4>1, <2>2, <1>2 DEF IInv, IndexMatchesWorld, Live, Exists
    <3> QED
      BY <3>1, <3>2
  <2>3. ASSUME NEW g \in Handle, Exists(g)'
        PROVE  g = IF Live(g)' THEN index'[entity'[g].id] ELSE tombs'[entity'[g].id]
    <3>1. CASE g = h
      BY <3>1, <2>3, <1>3, <1>s, <1>t DEF TypeOK
    <3>2. CASE g # h
      <4>1. Exists(g) /\ entity'[g] = entity[g] /\ (Live(g)' <=> Live(g)) /\ entity[g].id \in Id
        BY <3>2, <2>3, <1>2, <1>t DEF TypeOK, Entity, Exists
      <4>2. entity[g].id # n
        BY <4>1, <3>2, <1>s DEF IInv, OneEntityPerId, Live
      <4> QED
        BY <4>1, <4>2, <1>s, <1>t DEF IInv, IndexMatchesWorld, TypeOK
    <3> QED
      BY <3>1, <3>2
  <2> QED
    BY <2>1, <2>2, <2>3 DEF IndexMatchesWorld
<1>15. OneEntityPerId'
  BY <1>2, <1>3, <1>s DEF IInv, OneEntityPerId, Live
<1>16. NoIdMintedTwice'
  <2>1. \A i \in LiveIds' : i < next'
    BY <1>5, <1>s DEF IInv, NoIdMintedTwice
  <2> QED
    BY <2>1, <1>s DEF IInv, NoIdMintedTwice
<1>17. KnownIsMinted'
  BY <1>6, <1>s DEF IInv, KnownIsMinted, Seen
<1> QED
  BY <1>t2, <1>11, <1>12, <1>13, <1>14, <1>15, <1>16, <1>17 DEF IInv

(* A tick begins: no capture is at it yet.                                   *)
LEMMA BeginStep ==
  ASSUME IInv, ReplaysOnly, BeginTick
  PROVE  IInv'
<1>t. TypeOK /\ tick \in Nat /\ lastCaptured \in OptTick /\ \A i \in Id : WellFormed(life[i])
  BY DEF IInv, TypeOK, Tick, LifetimesMatchWorld
<1>t2. TypeOK' /\ \A i \in Id : WellFormed(life'[i])
  BY <1>t, TypeStep DEF Next
<1>s. /\ phase = "idle" /\ phase' = "sim" /\ tick' = tick + 1
      /\ UNCHANGED <<replayEnd, entity, index, tombs, life, reborn, lastCaptured, next,
                     initialDone, hist>>
  BY DEF BeginTick, ReplaysOnly
<1>1. lastCaptured <= tick /\ \A t \in Tick : hist[t] # NotCaptured => t <= tick
  BY <1>s, <1>t DEF IInv, ClockMatchesCaptures, None, OptTick, Tick
<1>2. LiveIds' = LiveIds /\ LastDeath' = tick + 1 /\ LastDeath <= tick + 1
  BY <1>s, <1>t DEF LiveIds, LiveOf, Live, Exists, LastDeath
<1>3. ClockMatchesCaptures'
  BY <1>1, <1>s, <1>t DEF IInv, ClockMatchesCaptures, OptTick, None
<1>4. LifetimesMatchWorld'
  BY <1>2, <1>s, <1>t, <1>t2 DEF IInv, LifetimesMatchWorld, WellFormed, Lifetime, OptTick, None, LastDeath
<1>5. LifetimesMatchHistory' /\ KnownIsMinted'
  BY <1>1, <1>s DEF IInv, LifetimesMatchHistory, KnownIsMinted
<1>6. IndexMatchesWorld' /\ OneEntityPerId'
  BY <1>s DEF IInv, IndexMatchesWorld, OneEntityPerId, LiveOf, Live, Exists
<1>7. NoIdMintedTwice'
  BY <1>2, <1>s DEF IInv, NoIdMintedTwice
<1> QED
  BY <1>t2, <1>3, <1>4, <1>5, <1>6, <1>7 DEF IInv

(* A capture records the living: every id alive at its tick exactly when     *)
(* live, with nothing changed before.                                        *)
LEMMA CapturedLives ==
  ASSUME IInv, phase # "scrubbed", LastDeath = tick, NEW i \in Id
  PROVE  LET l == CaptureLife(life[i], i \in LiveIds, tick)
         IN  /\ WellFormed(l)
             /\ AliveAt(l, tick) <=> i \in LiveIds
             /\ \A u \in Nat : u < tick => (AliveAt(l, u) <=> AliveAt(life[i], u))
             /\ l.died = life[i].died
             /\ l.born = IF i \in LiveIds /\ ~Seen(life[i]) THEN tick ELSE life[i].born
<1>1. /\ tick \in Nat /\ WellFormed(life[i]) /\ (i \in LiveIds) \in BOOLEAN
      /\ life[i].born <= tick /\ life[i].died <= tick
      /\ i \in LiveIds => life[i].died = None
      /\ i \notin LiveIds /\ Seen(life[i]) => life[i].died # None
  BY DEF IInv, TypeOK, Tick, LifetimesMatchWorld
<1>2. WellFormed(CaptureLife(life[i], i \in LiveIds, tick))
  BY <1>1, CaptureClosed, Zenon
<1> QED
  BY <1>1, <1>2, CaptureIsExact, ZenonT(30)

(* The capture of tick 0 that precedes the first tick.                       *)
LEMMA InitialCaptureStep ==
  ASSUME IInv, InitialCapture
  PROVE  IInv'
<1>t. TypeOK /\ tick \in Nat /\ lastCaptured \in OptTick /\ \A i \in Id : WellFormed(life[i])
  BY DEF IInv, TypeOK, Tick, LifetimesMatchWorld
<1>t2. TypeOK' /\ \A i \in Id : WellFormed(life'[i])
  BY <1>t, TypeStep DEF Next
<1>s. phase # "sim" /\ UNCHANGED <<tick, phase, replayEnd, entity, index, tombs, reborn, next>>
  BY DEF InitialCapture
<1>w. IndexMatchesWorld' /\ OneEntityPerId' /\ LiveIds' = LiveIds
  BY <1>s DEF IInv, IndexMatchesWorld, OneEntityPerId, LiveIds, LiveOf, Live, Exists
<1>1. CASE tick = 0 /\ hist[0] = NotCaptured
  <2>1. phase = "idle" /\ lastCaptured = None
    BY <1>1, <1>s, <1>t DEF IInv, ClockMatchesCaptures, TypeOK
  <2>2. \A t \in Tick : hist[t] = NotCaptured
    BY <2>1 DEF IInv, ClockMatchesCaptures, Tick, None
  <2>3. /\ lastCaptured' = 0 /\ hist' = [hist EXCEPT ![0] = CaptureNow]
        /\ life' = [i \in Id |-> CaptureLife(life[i], i \in LiveIds, tick)]
    BY <1>1, <2>1 DEF InitialCapture, CaptureAll, None
  <2>4. 0 \in Tick /\ hist'[0] = CaptureNow /\ \A t \in Tick \ {0} : hist'[t] = NotCaptured
    BY <2>2, <2>3, <1>1, <1>t DEF TypeOK
  <2>5. LastDeath = tick /\ LastDeath' = 1
    BY <2>1, <2>3, <1>1, <1>s DEF LastDeath, None
  <2>6. \A i \in Id :
          /\ AliveAt(life'[i], 0) <=> i \in LiveIds
          /\ life'[i].died = life[i].died
          /\ life'[i].born = IF i \in LiveIds /\ ~Seen(life[i]) THEN 0 ELSE life[i].born
    BY <2>1, <2>3, <2>5, <1>1, CapturedLives
  <2>7. ClockMatchesCaptures'
    BY <2>1, <2>3, <2>4, <1>1, <1>s, CaptureHoldsTheLive, <1>t DEF ClockMatchesCaptures
  <2>8. LifetimesMatchWorld'
    <3>1. \A i \in Id : /\ life[i].born <= 0 /\ life[i].died <= 0
                        /\ i \in LiveIds => life[i].died = None
                        /\ i \notin LiveIds /\ Seen(life[i]) => life[i].died # None
      BY <2>1, <2>5, <1>1 DEF IInv, LifetimesMatchWorld
    <3>2. \A i \in Id : /\ life'[i].born <= 0 /\ life'[i].died <= 1
                        /\ i \in LiveIds => life'[i].died = None /\ Seen(life'[i])
                        /\ i \notin LiveIds /\ Seen(life'[i]) => life'[i].died # None
      BY <3>1, <2>6, <1>t DEF WellFormed, Lifetime, OptTick, None, Seen
    <3>3. phase' = "idle" /\ tick' = 0 /\ LastDeath' = 1 /\ LiveIds' = LiveIds
      BY <1>1, <1>s, <1>w, <2>1, <2>5
    <3> QED
      BY <3>2, <3>3, <1>t2 DEF LifetimesMatchWorld, LiveIds
  <2>9. LifetimesMatchHistory'
    BY <2>4, <2>6, <1>t, CaptureHoldsTheLive DEF LifetimesMatchHistory
  <2>10. NoIdMintedTwice'
    BY <2>4, <1>s, <1>w, <1>t, CaptureHoldsTheLive DEF IInv, NoIdMintedTwice
  <2>11. KnownIsMinted'
    <3>1. \A i \in Id : Seen(life'[i]) => i < next
      BY <2>6, <2>1 DEF IInv, KnownIsMinted, NoIdMintedTwice, Seen
    <3> QED
      BY <3>1, <2>4, <1>s, <1>t, CaptureHoldsTheLive DEF KnownIsMinted
  <2> QED
    BY <1>t2, <1>w, <2>7, <2>8, <2>9, <2>10, <2>11 DEF IInv
<1>2. CASE ~(tick = 0 /\ hist[0] = NotCaptured)
  <2>1. UNCHANGED <<life, lastCaptured, hist>>
    BY <1>2 DEF InitialCapture
  <2>2. LastDeath' = LastDeath
    BY <2>1, <1>s DEF LastDeath
  <2> QED
    BY <1>t2, <2>1, <2>2, <1>s, <1>w
    DEF IInv, ClockMatchesCaptures, LifetimesMatchWorld, LifetimesMatchHistory,
        NoIdMintedTwice, KnownIsMinted
<1> QED
  BY <1>1, <1>2

(* An ordinary tick ends: captured, and everything the window has passed     *)
(* forgotten, which no retained capture can tell.                            *)
LEMMA EndStep ==
  ASSUME IInv, EndTick
  PROVE  IInv'
<1> DEFINE p == PruneTick
           c(i) == CaptureLife(life[i], i \in LiveIds, tick)
<1>t. TypeOK /\ tick \in Nat /\ lastCaptured \in OptTick /\ \A i \in Id : WellFormed(life[i])
  BY DEF IInv, TypeOK, Tick, LifetimesMatchWorld
<1>t2. TypeOK' /\ \A i \in Id : WellFormed(life'[i])
  BY <1>t, TypeStep DEF Next
<1>s. /\ phase = "sim" /\ phase' = "idle" /\ lastCaptured < tick /\ lastCaptured' = tick
      /\ UNCHANGED <<tick, replayEnd, index, next, initialDone>>
      /\ \A i \in Id : life'[i] = PruneLife(c(i), p)
      /\ p \in Nat /\ p <= tick
  BY <1>t, BoundsAssumption
  DEF EndTick, PruneTick, IInv, ClockMatchesCaptures, OptTick, None
<1>1. /\ \A t \in Tick : hist'[t] # NotCaptured => t = tick \/ (p <= t /\ t < tick /\ hist'[t] = hist[t])
      /\ hist'[tick] = CaptureNow
  BY <1>s, <1>t, BoundsAssumption DEF EndTick, IInv, ClockMatchesCaptures, OptTick, None, Tick, TypeOK
<1>2. /\ LastDeath = tick /\ LastDeath' = tick + 1
  BY <1>s, <1>t DEF LastDeath, None
<1>3. ASSUME NEW i \in Id
      PROVE  /\ life'[i] = Unseen \/ (life'[i].died = life[i].died
                  /\ life'[i].born = IF i \in LiveIds /\ ~Seen(life[i]) THEN tick ELSE life[i].born)
             /\ i \in LiveIds => life'[i] # Unseen
             /\ AliveAt(life'[i], tick) <=> i \in LiveIds
             /\ \A u \in Nat : p <= u /\ u < tick => (AliveAt(life'[i], u) <=> AliveAt(life[i], u))
  <2>1. /\ WellFormed(c(i)) /\ (AliveAt(c(i), tick) <=> i \in LiveIds)
        /\ \A u \in Nat : u < tick => (AliveAt(c(i), u) <=> AliveAt(life[i], u))
        /\ c(i).died = life[i].died
        /\ c(i).born = IF i \in LiveIds /\ ~Seen(life[i]) THEN tick ELSE life[i].born
    BY <1>s, <1>2, CapturedLives
  <2>2. /\ \A u \in Nat : p <= u => (AliveAt(life'[i], u) <=> AliveAt(c(i), u))
        /\ life'[i] = Unseen \/ life'[i] = c(i)
    BY <2>1, <1>s, PruneKeepsTheWindow
  <2>3. ~AliveAt(Unseen, tick)
    BY DEF AliveAt, Unseen, Seen
  <2> HIDE DEF c
  <2> QED
    BY <2>1, <2>2, <2>3, <1>s, <1>t
<1>4. \A h \in Handle : entity'[h] = IF h \in Reaped(p) THEN Gone ELSE entity[h]
  BY DEF EndTick
<1>5. \A i \in Id : tombs'[i] = IF tombs[i] \in Reaped(p) THEN Gone ELSE tombs[i]
  BY DEF EndTick
<1>6. \A h \in Handle : h \in Reaped(p) => Exists(h) /\ ~Live(h)
  BY DEF Reaped, Live
<1>7. \A h \in Handle : Live(h)' <=> Live(h)
  BY <1>4, <1>6 DEF Live, Exists
<1>8. \A h \in Handle : Exists(h)' <=> Exists(h) /\ h \notin Reaped(p)
  BY <1>4 DEF Exists
<1>9. \A i \in Id : LiveOf(i)' = LiveOf(i)
  <2> SUFFICES ASSUME NEW i \in Id, NEW g \in Handle
               PROVE  g \in LiveOf(i)' <=> g \in LiveOf(i)
    BY DEF LiveOf
  <2> QED
    BY <1>4, <1>6, <1>7 DEF LiveOf
<1>10. LiveIds' = LiveIds
  BY <1>9 DEF LiveIds
<1>11. ClockMatchesCaptures'
  BY <1>1, <1>s, <1>t, CaptureHoldsTheLive DEF ClockMatchesCaptures, Tick
<1>12. LifetimesMatchWorld'
  <2>1. \A i \in Id :
          /\ life'[i].born <= tick /\ life'[i].died <= tick + 1
          /\ i \in LiveIds => life'[i].died = None /\ Seen(life'[i])
          /\ i \notin LiveIds /\ Seen(life'[i]) => life'[i].died # None
    <3> SUFFICES ASSUME NEW i \in Id
                 PROVE  /\ life'[i].born <= tick /\ life'[i].died <= tick + 1
                        /\ i \in LiveIds => life'[i].died = None /\ Seen(life'[i])
                        /\ i \notin LiveIds /\ Seen(life'[i]) => life'[i].died # None
      OBVIOUS
    <3>1. /\ life[i].born <= tick /\ life[i].died <= tick
          /\ i \in LiveIds => life[i].died = None
          /\ i \notin LiveIds /\ Seen(life[i]) => life[i].died # None
      BY <1>s, <1>2 DEF IInv, LifetimesMatchWorld
    <3>2. Unseen.born = None /\ Unseen.died = None
      BY DEF Unseen
    <3>3. life[i].died \in OptTick /\ life[i].born \in OptTick
      BY <1>t DEF WellFormed, Lifetime
    <3> QED
      BY <3>1, <3>2, <3>3, <1>3, <1>t DEF Seen, None, OptTick
  <2> QED
    BY <2>1, <1>2, <1>10, <1>s, <1>t2 DEF LifetimesMatchWorld, LiveIds
<1>13. LifetimesMatchHistory'
  <2> SUFFICES ASSUME NEW t \in Tick, NEW i \in Id, hist'[t] # NotCaptured
               PROVE  AliveAt(life'[i], t) <=> hist'[t].what[i] # Gone
    BY DEF LifetimesMatchHistory
  <2>1. CASE t = tick
    BY <2>1, <1>1, <1>3, <1>t, CaptureHoldsTheLive
  <2>2. CASE t # tick
    <3>1. t \in Nat /\ p <= t /\ t < tick /\ t <= tick /\ hist'[t] = hist[t]
      BY <2>2, <1>1, <1>t DEF Tick
    <3> QED
      BY <3>1, <1>3 DEF IInv, LifetimesMatchHistory
  <2> QED
    BY <2>1, <2>2
<1>14. IndexMatchesWorld'
  <2>1. \A i \in Id : index'[i] # Gone => index'[i] \in LiveOf(i)'
    BY <1>9, <1>s DEF IInv, IndexMatchesWorld
  <2>2. ASSUME NEW i \in Id, tombs'[i] # Gone
        PROVE  (Exists(tombs[i]) /\ ~Live(tombs[i]) /\ entity[tombs[i]].id = i)'
    <3>1. tombs'[i] = tombs[i] /\ tombs[i] \in Handle /\ tombs[i] \notin Reaped(p)
      BY <2>2, <1>5, <1>t DEF TypeOK
    <3> QED
      BY <3>1, <2>2, <1>4, <1>7, <1>8 DEF IInv, IndexMatchesWorld, Live, Exists
  <2>3. ASSUME NEW g \in Handle, Exists(g)'
        PROVE  g = IF Live(g)' THEN index'[entity'[g].id] ELSE tombs'[entity'[g].id]
    <3>1. Exists(g) /\ entity'[g] = entity[g] /\ (Live(g)' <=> Live(g)) /\ entity[g].id \in Id
            /\ g \notin Reaped(p)
      BY <2>3, <1>4, <1>7, <1>8, <1>t DEF TypeOK, Entity, Exists
    <3> QED
      BY <3>1, <1>5, <1>s DEF IInv, IndexMatchesWorld
  <2> QED
    BY <2>1, <2>2, <2>3 DEF IndexMatchesWorld
<1>15. OneEntityPerId'
  BY <1>4, <1>8 DEF IInv, OneEntityPerId
<1>16. NoIdMintedTwice'
  BY <1>1, <1>10, <1>s, <1>t, CaptureHoldsTheLive DEF IInv, NoIdMintedTwice
<1>17. KnownIsMinted'
  <2>1. \A i \in Id : Seen(life'[i]) =>
          /\ i < next
          /\ (Seen(life[i]) /\ life'[i].born = life[i].born) \/ life'[i].born = tick
    BY <1>3, <1>s DEF IInv, KnownIsMinted, NoIdMintedTwice, Seen, Unseen
  <2> QED
    BY <2>1, <1>1, <1>s, <1>t, CaptureHoldsTheLive DEF IInv, KnownIsMinted, Tick
<1> QED
  BY <1>t2, <1>11, <1>12, <1>13, <1>14, <1>15, <1>16, <1>17 DEF IInv

(* A replayed tick ends: captured, and the next one may begin at once.       *)
LEMMA EndReplayedStep ==
  ASSUME IInv, EndReplayedTick
  PROVE  IInv'
<1>t. TypeOK /\ tick \in Nat /\ lastCaptured \in OptTick /\ \A i \in Id : WellFormed(life[i])
  BY DEF IInv, TypeOK, Tick, LifetimesMatchWorld
<1>t2. TypeOK' /\ \A i \in Id : WellFormed(life'[i])
  BY <1>t, TypeStep DEF Next
<1>s. /\ phase = "sim" /\ lastCaptured < tick /\ lastCaptured' = tick
      /\ UNCHANGED <<entity, index, tombs, reborn, next, initialDone>>
      /\ (phase' = "sim" /\ tick' = tick + 1) \/ (phase' = "idle" /\ tick' = tick)
      /\ hist' = [hist EXCEPT ![tick] = CaptureNow]
  BY <1>t DEF EndReplayedTick, CaptureAll, IInv, ClockMatchesCaptures, OptTick, None
<1>1. /\ \A t \in Tick : hist'[t] # NotCaptured => t = tick \/ (t < tick /\ hist'[t] = hist[t])
      /\ hist'[tick] = CaptureNow
  BY <1>s, <1>t DEF IInv, ClockMatchesCaptures, OptTick, None, Tick, TypeOK
<1>2. LastDeath = tick /\ LastDeath' = tick + 1
  BY <1>s, <1>t DEF LastDeath, None
<1>3. ASSUME NEW i \in Id
      PROVE  /\ life'[i].died = life[i].died
             /\ life'[i].born = IF i \in LiveIds /\ ~Seen(life[i]) THEN tick ELSE life[i].born
             /\ AliveAt(life'[i], tick) <=> i \in LiveIds
             /\ \A u \in Nat : u < tick => (AliveAt(life'[i], u) <=> AliveAt(life[i], u))
  <2>1. life'[i] = CaptureLife(life[i], i \in LiveIds, tick)
    BY DEF EndReplayedTick, CaptureAll
  <2> QED
    BY <2>1, <1>2, <1>s, CapturedLives
<1>10. LiveIds' = LiveIds
  BY <1>s DEF LiveIds, LiveOf, Live, Exists
<1>11. ClockMatchesCaptures'
  BY <1>1, <1>s, <1>t, CaptureHoldsTheLive DEF ClockMatchesCaptures, Tick
<1>12. LifetimesMatchWorld'
  <2>1. \A i \in Id :
          /\ life'[i].born <= tick /\ life'[i].died <= tick
          /\ i \in LiveIds => life'[i].died = None /\ Seen(life'[i])
          /\ i \notin LiveIds /\ Seen(life'[i]) => life'[i].died # None
    BY <1>2, <1>3, <1>s, <1>t DEF IInv, LifetimesMatchWorld, Seen, None
  <2>2. \A i \in Id : life'[i].born \in OptTick /\ life'[i].died \in OptTick
    BY <1>t2 DEF WellFormed, Lifetime
  <2>3. /\ phase' # "scrubbed" /\ tick <= tick' /\ tick <= LastDeath' /\ tick' \in Nat
        /\ LastDeath' \in Nat
    BY <1>2, <1>s, <1>t
  <2>4. \A i \in Id : life'[i].born <= tick' /\ life'[i].died <= LastDeath'
    BY <2>1, <2>2, <2>3, <1>t DEF OptTick, None
  <2> QED
    BY <2>1, <2>3, <2>4, <1>10, <1>t2 DEF LifetimesMatchWorld, LiveIds
<1>13. LifetimesMatchHistory'
  <2> SUFFICES ASSUME NEW t \in Tick, NEW i \in Id, hist'[t] # NotCaptured
               PROVE  AliveAt(life'[i], t) <=> hist'[t].what[i] # Gone
    BY DEF LifetimesMatchHistory
  <2>1. CASE t = tick
    BY <2>1, <1>1, <1>3, <1>t, CaptureHoldsTheLive
  <2>2. CASE t # tick
    <3>1. t \in Nat /\ t < tick /\ t <= tick /\ hist'[t] = hist[t]
      BY <2>2, <1>1, <1>t DEF Tick
    <3> QED
      BY <3>1, <1>3 DEF IInv, LifetimesMatchHistory
  <2> QED
    BY <2>1, <2>2
<1>14. IndexMatchesWorld' /\ OneEntityPerId'
  BY <1>s DEF IInv, IndexMatchesWorld, OneEntityPerId, LiveOf, Live, Exists
<1>16. NoIdMintedTwice'
  BY <1>1, <1>10, <1>s, <1>t, CaptureHoldsTheLive DEF IInv, NoIdMintedTwice
<1>17. KnownIsMinted'
  <2>1. \A i \in Id : Seen(life'[i]) =>
          i < next /\ ((Seen(life[i]) /\ life'[i].born = life[i].born) \/ life'[i].born = tick)
    BY <1>3, <1>s DEF IInv, KnownIsMinted, NoIdMintedTwice, Seen
  <2> QED
    BY <2>1, <1>1, <1>s, <1>t, CaptureHoldsTheLive DEF IInv, KnownIsMinted, Tick
<1> QED
  BY <1>t2, <1>11, <1>12, <1>13, <1>14, <1>16, <1>17 DEF IInv

(* What a rewind makes of the world: the ids alive at t, each one entity,    *)
(* and the record of everything up to t as it was.                           *)
LEMMA RestoredWorld ==
  ASSUME IInv, NEW t \in Tick, CanRewind(t),
         NEW place \in Placements(Missing(t), FreeHandles), RestoreWorldAt(t, place)
  PROVE  /\ \A i \in Id : i \in LiveIds' <=> AliveAt(life[i], t)
         /\ IndexMatchesWorld' /\ OneEntityPerId'
         /\ \A h \in Handle : Live(h)' => entity'[h].what = StateAt(t, entity'[h].id)
         /\ \A i \in Id : /\ RestoredLife(t)[i].born = life[i].born
                          /\ AliveAt(life[i], t) => RestoredLife(t)[i] = life[i]
                          /\ \A u \in Nat : u <= t =>
                               (AliveAt(RestoredLife(t)[i], u) <=> AliveAt(life[i], u))
<1>t. /\ TypeOK /\ tick \in Nat /\ t \in Nat /\ t <= tick /\ lastCaptured \in OptTick
      /\ \A i \in Id : WellFormed(life[i])
      /\ phase # "sim" /\ hist[t] # NotCaptured /\ t <= lastCaptured
  BY DEF IInv, TypeOK, Tick, LifetimesMatchWorld, CanRewind, ClockMatchesCaptures
<1>1. \A i \in LiveIds : Seen(life[i])
  BY <1>t DEF IInv, TypeOK, LifetimesMatchWorld, AliveAt, None, OptTick, LiveIds
<1>2. \A h \in Handle : Exists(h) => entity[h].id \in Id /\ entity[h] \in Entity
  BY <1>t DEF TypeOK, Entity, Exists
<1>3. \A h \in Handle : h \in Burying(t) <=> Live(h) /\ ~AliveAt(life[entity[h].id], t)
  BY <1>1, <1>2 DEF Burying, KnownDeadAt, LiveIds, LiveOf, Live
<1>4. \A h \in Handle :
        h \in Reviving(t) <=> Exists(h) /\ ~Live(h) /\ AliveAt(life[entity[h].id], t)
  BY DEF Reviving, IInv, IndexMatchesWorld
<1>5. \A i \in Missing(t), h \in Handle : ~(Exists(h) /\ entity[h].id = i)
  BY <1>4 DEF Missing, LiveOf, Live
<1>6. \A i \in Id : AliveAt(life[i], t) =>
        i \in Missing(t) \/ \E h \in Handle : Exists(h) /\ entity[h].id = i
  BY DEF Missing, LiveOf, Live, Reviving
<1>p. /\ place \in [Missing(t) -> FreeHandles]
      /\ \A a, b \in Missing(t) : place[a] = place[b] => a = b
      /\ \A i \in Missing(t) : place[i] \in Handle /\ ~Exists(place[i]) /\ i \in Id
                               /\ AliveAt(life[i], t)
  BY DEF Placements, FreeHandles, Missing
<1>u. \A g, h \in Handle : Exists(g) /\ Exists(h) /\ entity[g].id = entity[h].id => g = h
  BY DEF IInv, OneEntityPerId
<1>7. ASSUME NEW i \in Missing(t)
      PROVE  entity'[place[i]] = Rebuilt(t, i)
  <2> DEFINE newAt == {j \in Missing(t) : place[j] = place[i]}
  <2>1. newAt = {i}
    BY <1>p
  <2>2. entity'[place[i]] = IF newAt # {} THEN Rebuilt(t, CHOOSE j \in newAt : TRUE)
                            ELSE IF Exists(place[i]) THEN RestoredEntity(t, place[i]) ELSE Gone
    BY <1>p DEF RestoreWorldAt
  <2>3. (CHOOSE j \in newAt : TRUE) = i
    BY <2>1
  <2> QED
    BY <2>1, <2>2, <2>3
<1>8. ASSUME NEW h \in Handle, \A i \in Missing(t) : place[i] # h
      PROVE  entity'[h] = IF Exists(h) THEN RestoredEntity(t, h) ELSE Gone
  <2> DEFINE newAt == {j \in Missing(t) : place[j] = h}
  <2>1. newAt = {}
    BY <1>8
  <2>2. entity'[h] = IF newAt # {} THEN Rebuilt(t, CHOOSE j \in newAt : TRUE)
                     ELSE IF Exists(h) THEN RestoredEntity(t, h) ELSE Gone
    BY DEF RestoreWorldAt
  <2> QED
    BY <2>1, <2>2
<1>r. \A i \in Id : WellFormed(RestoredLife(t)[i])
  BY <1>t, RestoreTyped
<1>9. entity' \in [Handle -> Entity \cup {Gone}]
  BY <1>t, RestoreTyped
<1>10. ASSUME NEW h \in Handle, Exists(h)
       PROVE  /\ Exists(h)' /\ entity'[h].id = entity[h].id
              /\ Live(h)' <=> AliveAt(life[entity[h].id], t)
              /\ Live(h)' => entity'[h].what = StateAt(t, entity[h].id)
  <2> DEFINE e == entity[h]
             k == RestoredLife(t)[e.id]
  <2>1. entity'[h] = RestoredEntity(t, h)
    BY <1>10, <1>8, <1>p
  <2>2. e \in Entity /\ e.id \in Id /\ WellFormed(k)
    BY <1>10, <1>2, <1>r
  <2>3. CASE h \in Burying(t)
    <3>1. entity'[h] = [e EXCEPT !.diedAt = IF k.died # None THEN k.died ELSE t]
      BY <2>1, <2>3 DEF RestoredEntity, Buried
    <3>2. entity'[h] \in Entity /\ entity'[h].id = e.id /\ entity'[h].diedAt # None
      BY <3>1, <2>2, <1>t DEF Entity, OptTick, None, WellFormed, Lifetime
    <3> QED
      BY <3>2, <2>3, <1>3, SentinelAssumption DEF Exists, Live
  <2>4. CASE h \notin Burying(t) /\ (Live(h) \/ h \in Reviving(t))
    <3>1. entity'[h] = [e EXCEPT !.diedAt = None, !.what = StateAt(t, e.id)]
      BY <2>1, <2>4 DEF RestoredEntity
    <3>2. entity'[h].id = e.id /\ entity'[h].diedAt = None /\ entity'[h].what = StateAt(t, e.id)
      BY <3>1, <2>2 DEF Entity
    <3>3. StateAt(t, e.id) \in Kind \cup {Nothing}
      BY <1>t, <2>2 DEF StateAt, TypeOK, Captured
    <3>4. entity'[h] \in Entity
      BY <3>1, <3>3, <2>2 DEF Entity, OptTick
    <3>5. entity'[h] # Gone
      BY <3>4, SentinelAssumption
    <3> QED
      BY <3>2, <3>5, <2>4, <1>3, <1>4 DEF Exists, Live
  <2>5. CASE h \notin Burying(t) /\ ~(Live(h) \/ h \in Reviving(t))
    <3>1. entity'[h] = e
      BY <2>1, <2>5 DEF RestoredEntity
    <3> QED
      BY <3>1, <2>5, <1>4, <1>10 DEF Exists, Live
  <2> QED
    BY <2>3, <2>4, <2>5
<1>11. ASSUME NEW i \in Missing(t)
       PROVE  /\ Exists(place[i])' /\ Live(place[i])' /\ entity'[place[i]].id = i
              /\ entity'[place[i]].what = StateAt(t, i)
  <2>1. StateAt(t, i) \in Kind \cup {Nothing}
    BY <1>t, <1>p DEF StateAt, TypeOK, Captured
  <2>2. Rebuilt(t, i) \in Entity /\ Rebuilt(t, i).id = i /\ Rebuilt(t, i).diedAt = None
        /\ Rebuilt(t, i).what = StateAt(t, i)
    BY <2>1, <1>p DEF Rebuilt, Entity, OptTick
  <2> QED
    BY <2>2, <1>7, <1>p, SentinelAssumption DEF Live, Exists
<1>12. \A h \in Handle : Exists(h)' => Exists(h) \/ \E i \in Missing(t) : place[i] = h
  BY <1>8 DEF Exists
<1>13. ASSUME NEW h \in Handle, Exists(h)'
       PROVE  /\ entity'[h].id \in Id
              /\ Live(h)' <=> AliveAt(life[entity'[h].id], t)
              /\ Live(h)' => entity'[h].what = StateAt(t, entity'[h].id)
  BY <1>13, <1>2, <1>10, <1>11, <1>12, <1>p
<1>14. OneEntityPerId'
  <2> SUFFICES ASSUME NEW g \in Handle, NEW h \in Handle, Exists(g)', Exists(h)',
                      entity'[g].id = entity'[h].id
               PROVE  g = h
    BY DEF OneEntityPerId
  <2>1. CASE Exists(g) /\ Exists(h)
    BY <2>1, <1>10, <1>u
  <2>2. CASE \E i \in Missing(t) : place[i] = g \/ place[i] = h
    BY <2>2, <1>5, <1>10, <1>11, <1>12
  <2> QED
    BY <2>1, <2>2, <1>12
<1>15. \A i \in Id : i \in LiveIds' <=> AliveAt(life[i], t)
  <2> SUFFICES ASSUME NEW i \in Id
               PROVE  (\E h \in Handle : Live(h)' /\ entity'[h].id = i) <=> AliveAt(life[i], t)
    BY DEF LiveIds, LiveOf
  <2>1. ASSUME NEW h \in Handle, Live(h)', entity'[h].id = i
        PROVE  AliveAt(life[i], t)
    BY <2>1, <1>13 DEF Live
  <2>2. ASSUME AliveAt(life[i], t)
        PROVE  \E h \in Handle : Live(h)' /\ entity'[h].id = i
    <3>1. CASE i \in Missing(t)
      BY <3>1, <1>11, <1>p
    <3>2. CASE i \notin Missing(t)
      <4>1. PICK h \in Handle : Exists(h) /\ entity[h].id = i
        BY <2>2, <3>2, <1>6
      <4> QED
        BY <4>1, <2>2, <1>10
    <3> QED
      BY <3>1, <3>2
  <2> QED
    BY <2>1, <2>2
<1>16. ASSUME NEW i \in Id
       PROVE  /\ i \in Missing(t) => index'[i] = place[i] /\ tombs'[i] = tombs[i]
              /\ \A h \in Reviving(t) : entity[h].id = i => index'[i] = h /\ tombs'[i] = Gone
              /\ \A h \in Burying(t) : entity[h].id = i => index'[i] = Gone /\ tombs'[i] = h
              /\ (\A h \in Burying(t) \cup Reviving(t) : entity[h].id # i) =>
                   tombs'[i] = tombs[i] /\ (i \notin Missing(t) => index'[i] = index[i])
  <2> DEFINE revived == {h \in Reviving(t) : entity[h].id = i}
             buried == {h \in Burying(t) : entity[h].id = i}
  <2>1. /\ index'[i] = IF i \in Missing(t) THEN place[i]
                       ELSE IF revived # {} THEN CHOOSE h \in revived : TRUE
                       ELSE IF index[i] \in buried THEN Gone ELSE index[i]
        /\ tombs'[i] = IF revived # {} THEN Gone
                       ELSE IF buried # {} THEN CHOOSE h \in buried : TRUE ELSE tombs[i]
    BY DEF RestoreWorldAt
  <2>2. Reviving(t) \subseteq Handle /\ Burying(t) \subseteq Handle
    BY DEF Reviving, Burying
  <2>3. ASSUME i \in Missing(t) PROVE revived = {} /\ buried = {}
    BY <2>2, <2>3, <1>3, <1>4, <1>5 DEF Live
  <2>4. ASSUME NEW h \in Reviving(t), entity[h].id = i
        PROVE  revived = {h} /\ i \notin Missing(t)
    BY <2>2, <2>4, <1>4, <1>5, <1>u
  <2>5. ASSUME NEW h \in Burying(t), entity[h].id = i
        PROVE  revived = {} /\ buried = {h} /\ index[i] = h /\ i \notin Missing(t)
    BY <2>2, <2>5, <1>3, <1>4, <1>5, <1>u DEF Live, IInv, IndexMatchesWorld
  <2>6. ASSUME \A h \in Burying(t) \cup Reviving(t) : entity[h].id # i
        PROVE  revived = {} /\ buried = {}
    BY <2>6
  <2> HIDE DEF revived, buried
  <2>7. ASSUME i \in Missing(t) PROVE index'[i] = place[i] /\ tombs'[i] = tombs[i]
    BY <2>1, <2>3, <2>7
  <2>8. ASSUME NEW h \in Reviving(t), entity[h].id = i
        PROVE  index'[i] = h /\ tombs'[i] = Gone
    BY <2>1, <2>4, <2>8
  <2>9. ASSUME NEW h \in Burying(t), entity[h].id = i
        PROVE  index'[i] = Gone /\ tombs'[i] = h
    BY <2>1, <2>5, <2>9
  <2>10. ASSUME \A h \in Burying(t) \cup Reviving(t) : entity[h].id # i
         PROVE  tombs'[i] = tombs[i] /\ (i \notin Missing(t) => index'[i] = index[i])
    BY <2>1, <2>6, <2>10
  <2> QED
    BY <2>7, <2>8, <2>9, <2>10
<1>17. IndexMatchesWorld'
  <2>0. Reviving(t) \subseteq Handle /\ Burying(t) \subseteq Handle
    BY DEF Reviving, Burying
  <2>1. ASSUME NEW i \in Id, index'[i] # Gone
        PROVE  index'[i] \in LiveOf(i)'
    <3> SUFFICES index'[i] \in Handle /\ Live(index[i])' /\ entity'[index'[i]].id = i
      BY DEF LiveOf
    <3>1. CASE i \in Missing(t)
      BY <3>1, <1>11, <1>16, <1>p DEF Live, Exists
    <3>2. CASE \E h \in Reviving(t) : entity[h].id = i
      <4>1. PICK h \in Reviving(t) : entity[h].id = i
        BY <3>2
      <4> QED
        BY <4>1, <2>0, <1>4, <1>10, <1>16 DEF Live, Exists
    <3>3. CASE i \notin Missing(t) /\ \A h \in Reviving(t) : entity[h].id # i
      <4>1. \A h \in Burying(t) \cup Reviving(t) : entity[h].id # i
        BY <3>3, <2>1, <1>16
      <4>2. index'[i] = index[i] /\ index[i] \in Handle /\ Live(index[i]) /\ entity[index[i]].id = i
        BY <4>1, <3>3, <2>1, <1>16 DEF IInv, IndexMatchesWorld, LiveOf
      <4>3. AliveAt(life[i], t)
        BY <4>1, <4>2, <1>3
      <4> QED
        BY <4>2, <4>3, <1>10 DEF Live, Exists
    <3> QED
      BY <3>1, <3>2, <3>3
  <2>2. ASSUME NEW i \in Id, tombs'[i] # Gone
        PROVE  (Exists(tombs[i]) /\ ~Live(tombs[i]) /\ entity[tombs[i]].id = i)'
    <3>1. CASE \E h \in Burying(t) : entity[h].id = i
      <4>1. PICK h \in Burying(t) : entity[h].id = i
        BY <3>1
      <4> QED
        BY <4>1, <2>0, <1>3, <1>10, <1>16 DEF Live, Exists
    <3>2. CASE \A h \in Burying(t) : entity[h].id # i
      <4>1. \A h \in Burying(t) \cup Reviving(t) : entity[h].id # i
        BY <3>2, <2>2, <1>16
      <4>2. /\ tombs'[i] = tombs[i] /\ tombs[i] \in Handle /\ Exists(tombs[i])
            /\ ~Live(tombs[i]) /\ entity[tombs[i]].id = i
        BY <4>1, <2>2, <1>16, <1>t DEF IInv, IndexMatchesWorld, TypeOK
      <4>3. ~AliveAt(life[i], t)
        BY <4>1, <4>2, <1>4
      <4> QED
        BY <4>2, <4>3, <1>10 DEF Live, Exists
    <3> QED
      BY <3>1, <3>2
  <2>3. ASSUME NEW h \in Handle, Exists(h)'
        PROVE  h = IF Live(h)' THEN index'[entity'[h].id] ELSE tombs'[entity'[h].id]
    <3>1. CASE \E i \in Missing(t) : place[i] = h
      BY <3>1, <1>11, <1>16, <1>p
    <3>2. CASE Exists(h)
      <4> DEFINE i == entity[h].id
      <4>1. i \in Id /\ entity'[h].id = i /\ (Live(h)' <=> AliveAt(life[i], t))
            /\ i \notin Missing(t)
        BY <3>2, <1>2, <1>5, <1>10
      <4>2. h = IF Live(h) THEN index[i] ELSE tombs[i]
        BY <3>2 DEF IInv, IndexMatchesWorld
      <4>3. CASE h \in Burying(t)
        BY <4>1, <4>3, <1>3, <1>16
      <4>4. CASE h \in Reviving(t)
        BY <4>1, <4>4, <1>4, <1>16
      <4>5. CASE h \notin Burying(t) \cup Reviving(t)
        <5>1. \A g \in Burying(t) \cup Reviving(t) : entity[g].id # i
          BY <4>5, <3>2, <2>0, <1>3, <1>4, <1>u DEF Live
        <5>2. index'[i] = index[i] /\ tombs'[i] = tombs[i]
          BY <5>1, <4>1, <1>16
        <5>3. Live(h)' <=> Live(h)
          BY <4>1, <4>5, <3>2, <1>3, <1>4
        <5> QED
          BY <5>2, <5>3, <4>1, <4>2
      <4> QED
        BY <4>3, <4>4, <4>5
    <3> QED
      BY <2>3, <3>1, <3>2, <1>12
  <2> QED
    BY <2>1, <2>2, <2>3 DEF IndexMatchesWorld
<1>18. ASSUME NEW i \in Id
       PROVE  /\ RestoredLife(t)[i].born = life[i].born
              /\ AliveAt(life[i], t) => RestoredLife(t)[i] = life[i]
              /\ \A u \in Nat : u <= t => (AliveAt(RestoredLife(t)[i], u) <=> AliveAt(life[i], u))
  <2>1. RestoredLife(t)[i] = IF \E h \in Burying(t) : entity[h].id = i
                             THEN NoteDead(life[i], t, lastCaptured)
                             ELSE IF \E h \in Reviving(t) : entity[h].id = i
                             THEN NoteAlive(life[i], t) ELSE life[i]
    BY DEF RestoredLife
  <2>2. CASE \E h \in Burying(t) : entity[h].id = i
    <3>1. ~AliveAt(life[i], t)
      BY <2>2, <1>3 DEF Burying
    <3>2. \A u \in Nat : u <= t => u < t \/ (u = t /\ t <= lastCaptured)
      BY <1>t
    <3> QED
      BY <2>1, <2>2, <3>1, <3>2, <1>t, NoteDeadKeepsThePast
  <2>3. CASE ~\E h \in Burying(t) : entity[h].id = i
    <3>1. (\E h \in Reviving(t) : entity[h].id = i) => AliveAt(life[i], t)
      BY <1>4 DEF Reviving
    <3> QED
      BY <2>1, <2>3, <3>1, <1>t, NoteAliveOfTheLiving
  <2> QED
    BY <2>2, <2>3
<1> QED
  BY <1>13, <1>14, <1>15, <1>17, <1>18 DEF Live

(* What the captures of a rewind's tick and before say of the restored world. *)
LEMMA RestoredIsMinted ==
  ASSUME IInv, NEW t \in Tick, CanRewind(t), NEW i \in Id
  PROVE  /\ AliveAt(life[i], t) => i < hist[t].next
         /\ AliveAt(life[i], t) <=> hist[t].what[i] # Gone
         /\ Seen(life[i]) /\ life[i].born <= t => i < hist[t].next
BY DEF CanRewind, IInv, LifetimesMatchHistory, NoIdMintedTwice, KnownIsMinted

(* A scrub changes the world and the clock, and keeps the record of the      *)
(* past, though no longer of the future.                                     *)
LEMMA ScrubStep ==
  ASSUME IInv, NEW t \in Tick, ScrubTo(t)
  PROVE  IInv'
<1>t. /\ TypeOK /\ tick \in Nat /\ t \in Nat /\ t <= tick /\ lastCaptured \in OptTick
      /\ \A i \in Id : WellFormed(life[i])
      /\ hist[t] # NotCaptured /\ t <= lastCaptured /\ CanRewind(t)
  BY DEF IInv, TypeOK, Tick, LifetimesMatchWorld, CanRewind, ClockMatchesCaptures, ScrubTo
<1>t2. TypeOK' /\ \A i \in Id : WellFormed(life'[i])
  BY <1>t, TypeStep DEF Next
<1>s. /\ tick' = t /\ phase' = "scrubbed" /\ life' = RestoredLife(t)
      /\ UNCHANGED <<replayEnd, reborn, lastCaptured, initialDone, hist>>
  BY DEF ScrubTo
<1>1. PICK place \in Placements(Missing(t), FreeHandles) : RestoreWorldAt(t, place)
  BY RestorePlace DEF ScrubTo
<1>2. /\ \A i \in Id : i \in LiveIds' <=> AliveAt(life[i], t)
      /\ IndexMatchesWorld' /\ OneEntityPerId'
      /\ \A i \in Id : /\ life'[i].born = life[i].born
                       /\ AliveAt(life[i], t) => life'[i] = life[i]
                       /\ \A u \in Nat : u <= t => (AliveAt(life'[i], u) <=> AliveAt(life[i], u))
  BY <1>t, <1>1, <1>s, RestoredWorld
<1>3. next' = hist[t].next
  BY <1>1 DEF RestoreWorldAt
<1>4. ClockMatchesCaptures'
  BY <1>s, <1>t DEF IInv, ClockMatchesCaptures
<1>5. LifetimesMatchWorld'
  BY <1>2, <1>s, <1>t2 DEF LifetimesMatchWorld, LiveIds
<1>6. LifetimesMatchHistory'
  <2> SUFFICES ASSUME NEW u \in Tick, NEW i \in Id, hist[u] # NotCaptured, u <= t
               PROVE  AliveAt(life'[i], u) <=> hist[u].what[i] # Gone
    BY <1>s DEF LifetimesMatchHistory
  <2>1. u \in Nat /\ u <= tick
    BY <1>t DEF Tick
  <2> QED
    BY <2>1, <1>2 DEF IInv, LifetimesMatchHistory
<1>7. NoIdMintedTwice'
  <2>1. \A i \in LiveIds' : i < next'
    BY <1>2, <1>3, <1>t, RestoredIsMinted DEF LiveIds
  <2> QED
    BY <2>1, <1>s DEF IInv, NoIdMintedTwice
<1>8. KnownIsMinted'
  <2>1. ASSUME NEW u \in Tick, NEW i \in Id, hist[u] # NotCaptured, u <= t,
               Seen(life'[i]), life'[i].born <= u
        PROVE  i < hist[u].next
    <3>1. Seen(life[i]) /\ life[i].born <= u /\ u <= tick
      BY <2>1, <1>2, <1>t DEF Seen, Tick
    <3> QED
      BY <3>1, <2>1 DEF IInv, KnownIsMinted
  <2> QED
    BY <2>1, <1>s DEF KnownIsMinted
<1> QED
  BY <1>t2, <1>2, <1>4, <1>5, <1>6, <1>7, <1>8 DEF IInv

(* A rollback goes back and forgets what came after.                         *)
LEMMA RollbackStep ==
  ASSUME IInv, NEW t \in Tick, NEW end \in Tick, Rollback(t, end)
  PROVE  IInv'
<1>t. /\ TypeOK /\ tick \in Nat /\ t \in Nat /\ t <= tick /\ lastCaptured \in OptTick
      /\ \A i \in Id : WellFormed(life[i])
      /\ hist[t] # NotCaptured /\ t <= lastCaptured /\ CanRewind(t)
  BY DEF IInv, TypeOK, Tick, LifetimesMatchWorld, CanRewind, ClockMatchesCaptures, Rollback
<1>t2. TypeOK' /\ \A i \in Id : WellFormed(life'[i])
  BY <1>t, TypeStep DEF Next
<1>1. PICK place \in Placements(Missing(t), FreeHandles) : RestoreWorldAt(t, place)
  BY RestorePlace DEF Rollback
<1>s. /\ (tick' = t + 1 /\ phase' = "sim") \/ (tick' = t /\ phase' = "idle")
      /\ \A i \in Id : life'[i] = TruncateLife(RestoredLife(t)[i], t)
      /\ lastCaptured' = t
      /\ hist' = [u \in Tick |-> IF u > t THEN NotCaptured ELSE hist[u]]
      /\ next' = hist[t].next
  BY <1>1, <1>t DEF Rollback, RestoreWorldAt, OptTick, None
<1>h. \A u \in Tick : hist'[u] # NotCaptured => u \in Nat /\ u <= t /\ u <= tick /\ hist'[u] = hist[u]
  BY <1>s, <1>t DEF Tick
<1>h2. hist'[t] = hist[t]
  BY <1>s, <1>t
<1>w. /\ \A i \in Id : i \in LiveIds' <=> AliveAt(life[i], t)
      /\ IndexMatchesWorld' /\ OneEntityPerId'
      /\ \A i \in Id : /\ RestoredLife(t)[i].born = life[i].born
                       /\ AliveAt(RestoredLife(t)[i], t) <=> AliveAt(life[i], t)
                       /\ \A u \in Nat : u <= t =>
                            (AliveAt(RestoredLife(t)[i], u) <=> AliveAt(life[i], u))
                       /\ WellFormed(RestoredLife(t)[i])
  BY <1>t, <1>1, RestoredWorld, RestoreTyped
<1>2. ASSUME NEW i \in Id
      PROVE  /\ \A u \in Nat : u <= t => (AliveAt(life'[i], u) <=> AliveAt(life[i], u))
             /\ life'[i].born <= t /\ life'[i].died <= t
             /\ Seen(life'[i]) => Seen(life[i]) /\ life'[i].born = life[i].born
             /\ AliveAt(life[i], t) => life'[i].died = None /\ Seen(life'[i])
             /\ ~AliveAt(life[i], t) /\ Seen(life'[i]) => life'[i].died # None
  <2> DEFINE k == RestoredLife(t)[i]
  <2>1. /\ \A u \in Nat : u <= t => (AliveAt(life'[i], u) <=> AliveAt(k, u))
        /\ life'[i].born <= t /\ life'[i].died <= t
        /\ Seen(life'[i]) => Seen(k) /\ life'[i].born = k.born
        /\ AliveAt(k, t) => life'[i].died = None
        /\ ~AliveAt(k, t) /\ Seen(life'[i]) => life'[i].died # None
    BY <1>s, <1>t, <1>w, TruncateKeepsThePast
  <2>2. AliveAt(k, t) => AliveAt(life'[i], t)
    BY <2>1, <1>t
  <2>3. AliveAt(life'[i], t) => Seen(life'[i])
    BY DEF AliveAt
  <2> QED
    BY <2>1, <2>2, <2>3, <1>w DEF Seen
<1>4. ClockMatchesCaptures'
  <2>1. \A u \in Tick : hist'[u] # NotCaptured => u <= lastCaptured'
    BY <1>s, <1>h
  <2>2. CASE tick' = t + 1 /\ phase' = "sim"
    BY <2>1, <2>2, <1>s, <1>t DEF ClockMatchesCaptures
  <2>3. CASE tick' = t /\ phase' = "idle"
    BY <2>1, <2>3, <1>s, <1>t, <1>h2 DEF ClockMatchesCaptures
  <2> QED
    BY <2>2, <2>3, <1>s
<1>5. LifetimesMatchWorld'
  <2>1. phase' # "scrubbed" /\ tick' \in Nat /\ t <= tick' /\ LastDeath' \in Nat /\ t <= LastDeath'
    BY <1>s, <1>t DEF LastDeath
  <2>2. \A i \in Id : life'[i].born \in OptTick /\ life'[i].died \in OptTick
    BY <1>t2 DEF WellFormed, Lifetime
  <2>3. \A i \in Id : life'[i].born <= tick' /\ life'[i].died <= LastDeath'
    BY <1>2, <2>1, <2>2, <1>t DEF OptTick, None
  <2> QED
    BY <1>2, <1>w, <2>1, <2>3, <1>t2 DEF LifetimesMatchWorld, LiveIds
<1>6. LifetimesMatchHistory'
  BY <1>2, <1>h DEF IInv, LifetimesMatchHistory
<1>7. NoIdMintedTwice'
  <2>1. \A i \in LiveIds' : i < next'
    BY <1>w, <1>s, <1>t, RestoredIsMinted DEF LiveIds
  <2> QED
    BY <2>1, <1>h DEF IInv, NoIdMintedTwice
<1>8. KnownIsMinted'
  <2>1. \A i \in Id : Seen(life'[i]) => i < next'
    BY <1>2, <1>s, <1>t, RestoredIsMinted
  <2> QED
    BY <2>1, <1>2, <1>h DEF IInv, KnownIsMinted
<1> QED
  BY <1>t2, <1>w, <1>4, <1>5, <1>6, <1>7, <1>8 DEF IInv

LEMMA InvStutter ==
  ASSUME IInv, UNCHANGED vars
  PROVE  IInv'
<1>1. UNCHANGED <<LiveIds, LastDeath>> /\ \A i \in Id : LiveOf(i)' = LiveOf(i)
  BY DEF vars, LiveIds, LiveOf, Live, Exists, LastDeath
<1> QED
  BY <1>1 DEF vars, IInv, TypeOK, ClockMatchesCaptures, LifetimesMatchWorld,
     LifetimesMatchHistory, IndexMatchesWorld, OneEntityPerId, NoIdMintedTwice,
     KnownIsMinted, Live, Exists

(* The inductive invariant of a game that only replays.                      *)
THEOREM Invariance == ReplaysOnly => (Spec => []IInv)
<1> SUFFICES ASSUME ReplaysOnly PROVE Spec => []IInv
  OBVIOUS
<1>1. IInv /\ [Next]_vars => IInv'
  <2> SUFFICES ASSUME IInv, [Next]_vars PROVE IInv'
    OBVIOUS
  <2>1. ASSUME NEW k \in Kind, Spawn(k) PROVE IInv'
    BY <2>1, SpawnStep
  <2>2. ASSUME NEW h \in Handle, DespawnTicked(h) \/ PlainDespawn(h) PROVE IInv'
    BY <2>2, DespawnStep
  <2>3. CASE InitialCapture
    BY <2>3, InitialCaptureStep
  <2>4. CASE BeginTick
    BY <2>4, BeginStep
  <2>5. CASE EndTick
    BY <2>5, EndStep
  <2>6. CASE EndReplayedTick
    BY <2>6, EndReplayedStep
  <2>7. ASSUME NEW t \in Tick, ScrubTo(t) PROVE IInv'
    BY <2>7, ScrubStep
  <2>8. ASSUME NEW t \in Tick, NEW end \in Tick, Rollback(t, end) PROVE IInv'
    BY <2>8, RollbackStep
  <2>9. CASE UNCHANGED vars
    BY <2>9, InvStutter
  <2> QED
    BY <2>1, <2>2, <2>3, <2>4, <2>5, <2>6, <2>7, <2>8, <2>9 DEF Next, Game
<1> QED
  BY <1>1, InvInit, PTL DEF Spec

(* The lifetimes say exactly which ids every retained capture holds.         *)
THEOREM LifetimesAreExact == ReplaysOnly => (Spec => []LifetimesMatchHistory)
<1>1. IInv => LifetimesMatchHistory
  BY DEF IInv
<1> QED
  BY <1>1, Invariance, PTL

(* The index is the world's, and an id is one entity, live or tombstoned.    *)
THEOREM IndexIsExact == ReplaysOnly => (Spec => [](IndexMatchesWorld /\ OneEntityPerId))
<1>1. IInv => IndexMatchesWorld /\ OneEntityPerId
  BY DEF IInv
<1> QED
  BY <1>1, Invariance, PTL

(* The allocator never mints an id that is live, now or in any capture.      *)
THEOREM IdsAreMintedOnce == ReplaysOnly => (Spec => []NoIdMintedTwice)
<1>1. IInv => NoIdMintedTwice
  BY DEF IInv
<1> QED
  BY <1>1, Invariance, PTL

-----------------------------------------------------------------------------
(* WHAT THE ENTITIES WEAR, AND WHAT THE REAPER TAKES *)

(* A retained capture that holds an id.                                      *)
Held(t, i) == hist[t] # NotCaptured /\ hist[t].what[i] # Gone
HeldOf(t, h) == Held(t, entity[h].id)

(* An id is one occupant at a time: what an entity was minted as, what it is *)
(* dressed for and what the retained captures say of its id are one type, or *)
(* unknown to a rebuilt one; the captures agree with each other, and a live  *)
(* entity's state is what it is dressed for.                                 *)
OccupantsAgree ==
  /\ \A h \in Handle : Exists(h) => entity[h].as \in {Nothing, entity[h].dress}
  /\ DressedForWhatItIs
  /\ \A h \in Handle, t \in Tick :
       Exists(h) /\ HeldOf(t, h) => hist[t].what[entity[h].id] = entity[h].dress
  /\ \A t, u \in Tick, i \in Id : Held(t, i) /\ Held(u, i) => hist[t].what[i] = hist[u].what[i]

(* A tombstone's tick is after every capture up to now that holds its id.    *)
TombstonesArePast ==
  \A h \in Handle, t \in Tick :
    Exists(h) /\ ~Live(h) /\ t <= tick /\ HeldOf(t, h) => t < entity[h].diedAt

(* The invariant of a tick and of its occupants together.                    *)
OInv == IInv /\ OccupantsAgree /\ TombstonesArePast

(* An id about to be minted is in no retained capture.                       *)
LEMMA MintedIsUnheld ==
  ASSUME IInv, ReplaysOnly, NEW k \in Kind, Spawn(k)
  PROVE  next \in Id /\ LiveOf(next) = {} /\ \A t \in Tick : ~Held(t, next)
<1>t. TypeOK /\ tick \in Nat /\ next \in Id
  BY DEF IInv, TypeOK, Tick, Spawn
<1>1. phase # "scrubbed"
  BY DEF Spawn, MaySpawn, ReplaysOnly, IInv, ClockMatchesCaptures
<1>2. \A t \in Tick : hist[t] # NotCaptured => t <= tick
  BY <1>1, <1>t DEF Spawn, MaySpawn, ReplaysOnly, IInv, ClockMatchesCaptures, Tick, TypeOK, OptTick, None
<1>3. ~Seen(life[next])
  BY <1>1, <1>t DEF IInv, KnownIsMinted, TypeOK
<1>4. \A t \in Tick : ~Held(t, next)
  BY <1>2, <1>3, <1>t DEF Held, IInv, LifetimesMatchHistory, AliveAt
<1>5. LiveOf(next) = {}
  BY <1>t DEF IInv, NoIdMintedTwice, LiveIds, TypeOK
<1> QED
  BY <1>t, <1>4, <1>5

(* What a spawn leaves on the entity it revives or makes.                    *)
LEMMA SpawnedOccupant ==
  ASSUME IInv, OccupantsAgree, NEW k \in Kind, Spawn(k)
  PROVE  \E h \in Handle :
           /\ \A g \in Handle \ {h} : entity'[g] = entity[g]
           /\ entity'[h] \in Entity /\ entity'[h].id = next /\ entity'[h].diedAt = None
           /\ entity'[h].as = k /\ entity'[h].dress = k /\ entity'[h].what = k
<1>t. TypeOK /\ next \in Id /\ UNCHANGED <<tick, hist>>
  BY DEF IInv, TypeOK, Spawn
<1>1. CASE TombstoneOf(next) # Gone
  <2> DEFINE h == tombs[next]
  <2>1. TombstoneOf(next) = h /\ h \in Handle /\ Exists(h) /\ SpawnReviving(k, h)
    BY <1>1, <1>t DEF TombstoneOf, TypeOK, Spawn
  <2>2. entity[h] \in Entity /\ entity[h].as \in {Nothing, entity[h].dress}
    BY <2>1, <1>t DEF TypeOK, Exists, OccupantsAgree
  <2> DEFINE worn == IF entity[h].as # k THEN k ELSE entity[h].dress
  <2>3. worn = k
    BY <2>2, SentinelAssumption
  <2>4. entity' = [entity EXCEPT ![h] =
           [id |-> next, as |-> k, what |-> k, dress |-> worn, diedAt |-> None]]
    BY <2>1, <2>2 DEF SpawnReviving, ChangedHands
  <2> HIDE DEF worn
  <2>5. entity'[h] = [id |-> next, as |-> k, what |-> k, dress |-> k, diedAt |-> None]
    BY <2>1, <2>3, <2>4, <1>t DEF TypeOK
  <2>6. \A g \in Handle \ {h} : entity'[g] = entity[g]
    BY <2>4, <1>t DEF TypeOK
  <2> QED
    BY <2>1, <2>5, <2>6, <1>t DEF Entity, OptTick
<1>2. CASE TombstoneOf(next) = Gone
  <2>1. PICK h \in FreeHandles :
          entity' = [entity EXCEPT ![h] =
            [id |-> next, as |-> k, what |-> k, dress |-> k, diedAt |-> None]]
    BY <1>2 DEF Spawn, SpawnFresh
  <2>2. h \in Handle /\ entity'[h] = [id |-> next, as |-> k, what |-> k, dress |-> k, diedAt |-> None]
        /\ \A g \in Handle \ {h} : entity'[g] = entity[g]
    BY <2>1, <1>t DEF FreeHandles, TypeOK
  <2> QED
    BY <2>2, <1>t DEF Entity, OptTick
<1> QED
  BY <1>1, <1>2

LEMMA SpawnOccupies ==
  ASSUME OInv, ReplaysOnly, NEW k \in Kind, Spawn(k)
  PROVE  OccupantsAgree' /\ TombstonesArePast'
<1>0. IInv /\ OccupantsAgree /\ TombstonesArePast /\ UNCHANGED <<tick, hist>>
  BY DEF OInv, Spawn
<1>1. PICK h \in Handle :
        /\ \A g \in Handle \ {h} : entity'[g] = entity[g]
        /\ entity'[h] \in Entity /\ entity'[h].id = next /\ entity'[h].diedAt = None
        /\ entity'[h].as = k /\ entity'[h].dress = k /\ entity'[h].what = k
  BY <1>0, SpawnedOccupant
<1>2. \A t \in Tick : ~Held(t, next)
  BY <1>0, MintedIsUnheld
<1>3. Exists(h)' /\ Live(h)'
  BY <1>1, SentinelAssumption DEF Exists, Live
<1>4. \A g \in Handle \ {h} : (Exists(g)' <=> Exists(g)) /\ (Live(g)' <=> Live(g))
  BY <1>1 DEF Exists, Live
<1>5. \A t \in Tick, i \in Id : Held(t, i)' <=> Held(t, i)
  BY <1>0 DEF Held
<1>6. \A g \in Handle : Exists(g)' => entity'[g].as \in {Nothing, entity'[g].dress}
  BY <1>0, <1>1, <1>4 DEF OccupantsAgree
<1>7. \A g \in Handle : Live(g)' => entity'[g].dress = entity'[g].what
  BY <1>0, <1>1, <1>4 DEF OccupantsAgree, DressedForWhatItIs
<1>8. ASSUME NEW g \in Handle, NEW t \in Tick, Exists(g)', HeldOf(t, g)'
      PROVE  /\ hist'[t].what[entity'[g].id] = entity'[g].dress
             /\ ~Live(g)' /\ t <= tick' => t < entity'[g].diedAt
  <2>1. Held(t, entity'[g].id) 
    BY <1>0, <1>8 DEF Held, HeldOf
  <2>2. g # h
    BY <2>1, <1>1, <1>2
  <2> QED
    BY <2>1, <2>2, <1>0, <1>1, <1>4, <1>8 DEF OccupantsAgree, TombstonesArePast, HeldOf
<1>9. OccupantsAgree'
  BY <1>0, <1>5, <1>6, <1>7, <1>8 DEF OccupantsAgree, DressedForWhatItIs
<1>10. TombstonesArePast'
  BY <1>8 DEF TombstonesArePast
<1> QED
  BY <1>9, <1>10

(* What a live entity becomes when it is despawned: nothing, or a tombstone  *)
(* past every capture that holds it.                                         *)
LEMMA DespawnOccupies ==
  ASSUME OInv, NEW h \in Handle, DespawnTicked(h) \/ PlainDespawn(h)
  PROVE  OccupantsAgree' /\ TombstonesArePast'
<1> DEFINE n == entity[h].id
           l == NoteDead(life[n], tick, lastCaptured)
<1>t. /\ IInv /\ OccupantsAgree /\ TombstonesArePast /\ TypeOK
      /\ tick \in Nat /\ lastCaptured \in OptTick
      /\ \A i \in Id : WellFormed(life[i])
  BY DEF OInv, IInv, TypeOK, Tick, LifetimesMatchWorld
<1>s. Live(h) /\ Exists(h) /\ entity[h] \in Entity /\ n \in Id /\ UNCHANGED <<tick, hist>>
  BY <1>t DEF DespawnTicked, PlainDespawn, Live, Exists, TypeOK, Entity
<1>1. \A g \in Handle \ {h} : entity'[g] = entity[g] /\ (Live(g)' <=> Live(g)) /\ (Exists(g)' <=> Exists(g))
  BY <1>t DEF DespawnTicked, PlainDespawn, Live, Exists, TypeOK
<1>2. \A t \in Tick, i \in Id : Held(t, i)' <=> Held(t, i)
  BY <1>s DEF Held
<1>3. ASSUME Exists(h)'
      PROVE  /\ ~Live(h)' /\ entity'[h].id = n /\ entity'[h].as = entity[h].as
             /\ entity'[h].dress = entity[h].dress
             /\ entity'[h].diedAt = IF l.died # None THEN l.died ELSE tick
  <2>1. DespawnTicked(h)
    BY <1>3, <1>t DEF PlainDespawn, Exists, TypeOK
  <2>2. entity'[h] = [entity[h] EXCEPT !.diedAt = IF l.died # None THEN l.died ELSE tick]
    BY <2>1, <1>t DEF DespawnTicked, Buried, TypeOK
  <2>3. entity'[h].diedAt = IF l.died # None THEN l.died ELSE tick
    BY <2>2, <1>s DEF Entity
  <2>4. entity'[h].diedAt # None
    BY <2>3, <1>t DEF None
  <2> QED
    BY <2>2, <2>3, <2>4, <1>s DEF Entity, Live
<1>4. ~Live(h)'
  BY <1>3 DEF Live
<1>5. ASSUME NEW t \in Tick, t <= tick, Held(t, n)
      PROVE  l.died # None /\ t < l.died
  <2>1. t \in Nat /\ AliveAt(life[n], t)
    BY <1>5, <1>s, <1>t DEF Held, Tick, IInv, LifetimesMatchHistory
  <2>2. t < tick \/ (t = tick /\ tick <= lastCaptured)
    BY <2>1, <1>5, <1>t DEF Held, IInv, ClockMatchesCaptures, OptTick, None
  <2>3. AliveAt(l, t)
    BY <2>1, <2>2, <1>s, <1>t, NoteDeadKeepsThePast
  <2>4. l.died # None
    BY <2>1, <1>5, <1>s, <1>t DEF NoteDead, AliveAt, Seen, WellFormed, Lifetime, OptTick, None
  <2> QED
    BY <2>3, <2>4 DEF AliveAt
<1> HIDE DEF l
<1>6. ASSUME NEW g \in Handle, Exists(g)'
      PROVE  /\ Exists(g) /\ entity'[g].id = entity[g].id
             /\ entity'[g].as = entity[g].as /\ entity'[g].dress = entity[g].dress
             /\ Live(g)' => entity'[g] = entity[g] /\ Live(g)
  BY <1>1, <1>3, <1>s, <1>6
<1>7. OccupantsAgree'
  <2>1. \A g \in Handle : Exists(g)' => entity'[g].as \in {Nothing, entity'[g].dress}
    BY <1>6, <1>t DEF OccupantsAgree
  <2>2. \A g \in Handle : Live(g)' => entity'[g].dress = entity'[g].what
    BY <1>6, <1>t DEF OccupantsAgree, DressedForWhatItIs, Live
  <2>3. ASSUME NEW g \in Handle, NEW t \in Tick, Exists(g)', HeldOf(t, g)'
        PROVE  hist'[t].what[entity'[g].id] = entity'[g].dress
    <3>1. Held(t, entity[g].id)
      BY <2>3, <1>6, <1>s DEF Held, HeldOf
    <3> QED
      BY <3>1, <2>3, <1>6, <1>s, <1>t DEF OccupantsAgree, HeldOf
  <2> QED
    BY <2>1, <2>2, <2>3, <1>2, <1>s, <1>t DEF OccupantsAgree, DressedForWhatItIs
<1>8. TombstonesArePast'
  <2> SUFFICES ASSUME NEW g \in Handle, NEW t \in Tick,
                      Exists(g)', ~Live(g)', t <= tick, HeldOf(t, g)'
               PROVE  t < entity'[g].diedAt
    BY <1>s DEF TombstonesArePast
  <2>1. Held(t, entity[g].id)
    BY <1>6, <1>s DEF Held, HeldOf
  <2>2. CASE g = h
    BY <2>1, <2>2, <1>3, <1>5
  <2>3. CASE g # h
    BY <2>1, <2>3, <1>1, <1>t DEF TombstonesArePast, HeldOf
  <2> QED
    BY <2>2, <2>3
<1> QED
  BY <1>7, <1>8

(* A capture of the world agrees with its entities, and holds no tombstone.  *)
LEMMA CapturedOccupants ==
  ASSUME OInv, NEW i \in Id
  PROVE  /\ CaptureNow # NotCaptured
         /\ \A h \in Handle : Exists(h) /\ entity[h].id = i /\ CaptureNow.what[i] # Gone =>
              Live(h) /\ CaptureNow.what[i] = entity[h].dress
         /\ \A t \in Tick : Held(t, i) /\ CaptureNow.what[i] # Gone =>
              hist[t].what[i] = CaptureNow.what[i]
<1>t. IInv /\ OccupantsAgree /\ TypeOK
  BY DEF OInv, IInv
<1>0. CaptureNow # NotCaptured /\ (CaptureNow.what[i] # Gone <=> i \in LiveIds)
  BY <1>t, CaptureHoldsTheLive
<1> DEFINE g == CHOOSE h \in LiveOf(i) : TRUE
<1>1. CaptureNow.what[i] = IF LiveOf(i) = {} THEN Gone ELSE entity[g].what
  BY DEF CaptureNow, WorldState
<1>2. LiveOf(i) # {} => g \in Handle /\ Live(g) /\ Exists(g) /\ entity[g].id = i
  BY DEF LiveOf, Live
<1> HIDE DEF g
<1>3. CaptureNow.what[i] # Gone =>
        /\ g \in Handle /\ Live(g) /\ Exists(g) /\ entity[g].id = i
        /\ CaptureNow.what[i] = entity[g].dress
  BY <1>0, <1>1, <1>2, <1>t DEF LiveIds, OccupantsAgree, DressedForWhatItIs
<1>4. \A h \in Handle : Exists(h) /\ entity[h].id = i /\ CaptureNow.what[i] # Gone => h = g
  BY <1>3, <1>t DEF IInv, OneEntityPerId
<1>5. \A t \in Tick : Held(t, i) /\ CaptureNow.what[i] # Gone =>
        hist[t].what[i] = CaptureNow.what[i]
  BY <1>3, <1>t DEF OccupantsAgree, HeldOf
<1> QED
  BY <1>0, <1>3, <1>4, <1>5

(* A capture at the tick, with captures forgotten or kept, and entities at   *)
(* most taken away: everything still agrees.                                 *)
LEMMA CaptureAgrees ==
  ASSUME OInv, tick \in Tick,
         \A t \in Tick : hist'[t] \in {NotCaptured, hist[t]} \/ (t = tick /\ hist'[t] = CaptureNow),
         \A t \in Tick : hist'[t] # NotCaptured => t <= tick,
         \A h \in Handle : entity'[h] \in {Gone, entity[h]}
  PROVE  OccupantsAgree' /\ TombstonesArePast'
<1>t. /\ IInv /\ OccupantsAgree /\ TombstonesArePast /\ TypeOK
      /\ \A h \in Handle : Exists(h) => entity[h].id \in Id
  BY DEF OInv, IInv, TypeOK, Exists, Entity
<1>1. \A h \in Handle : Exists(h)' => Exists(h) /\ entity'[h] = entity[h]
  BY DEF Exists
<1>2. \A h \in Handle : Live(h)' => Live(h)
  BY <1>1 DEF Live
<1>3. \A t \in Tick, i \in Id : Held(t, i)' =>
        \/ hist'[t].what[i] = hist[t].what[i] /\ Held(t, i)
        \/ t = tick /\ hist'[t].what[i] = CaptureNow.what[i] /\ CaptureNow.what[i] # Gone
  BY DEF Held
<1>4. \A h \in Handle, t \in Tick : Exists(h)' /\ HeldOf(t, h)' =>
        /\ hist'[t].what[entity'[h].id] = entity'[h].dress
        /\ ~Live(h) => Held(t, entity[h].id)
  BY <1>1, <1>3, <1>t, CapturedOccupants DEF OccupantsAgree, HeldOf
<1>5. \A t, u \in Tick, i \in Id : Held(t, i)' /\ Held(u, i)' =>
        hist'[t].what[i] = hist'[u].what[i]
  BY <1>3, <1>t, CapturedOccupants DEF OccupantsAgree
<1>6. OccupantsAgree'
  <2>1. \A h \in Handle : Exists(h)' => entity'[h].as \in {Nothing, entity'[h].dress}
    BY <1>1, <1>t DEF OccupantsAgree
  <2>2. \A h \in Handle : Live(h)' => entity'[h].dress = entity'[h].what
    BY <1>1, <1>2, <1>t DEF OccupantsAgree, DressedForWhatItIs, Live
  <2> QED
    BY <2>1, <2>2, <1>4, <1>5 DEF OccupantsAgree, DressedForWhatItIs
<1>7. TombstonesArePast'
  <2> SUFFICES ASSUME NEW h \in Handle, NEW t \in Tick,
                      Exists(h)', ~Live(h)', t <= tick', HeldOf(t, h)'
               PROVE  t < entity'[h].diedAt
    BY DEF TombstonesArePast
  <2>1. Exists(h) /\ ~Live(h) /\ entity'[h] = entity[h]
    BY <1>1 DEF Live, Exists
  <2>2. t <= tick
    BY DEF HeldOf, Held
  <2>3. Held(t, entity[h].id)
    BY <2>1, <1>4
  <2> QED
    BY <2>1, <2>2, <2>3, <1>t DEF TombstonesArePast, HeldOf
<1> QED
  BY <1>6, <1>7

(* What a rewind leaves on an entity: a restored one wears what its tick's   *)
(* capture says it is, a rebuilt one is dressed for it, and one buried is    *)
(* past every capture up to that tick that holds it.                         *)
LEMMA RestoredOccupant ==
  ASSUME OInv, NEW t \in Tick, CanRewind(t),
         NEW place \in Placements(Missing(t), FreeHandles), RestoreWorldAt(t, place),
         NEW h \in Handle, Exists(h)'
  PROVE  /\ entity'[h].id \in Id
         /\ entity'[h].as \in {Nothing, entity'[h].dress}
         /\ Live(h)' => entity'[h].dress = entity'[h].what
         /\ \A u \in Tick : Held(u, entity'[h].id) =>
              /\ hist[u].what[entity'[h].id] = entity'[h].dress
              /\ ~Live(h)' /\ u <= t => u < entity'[h].diedAt
<1>t. /\ IInv /\ OccupantsAgree /\ TombstonesArePast /\ TypeOK
      /\ tick \in Nat /\ t \in Nat /\ t <= tick /\ hist[t] # NotCaptured
      /\ \A i \in Id : WellFormed(RestoredLife(t)[i])
  BY RestoreTyped DEF OInv, IInv, TypeOK, Tick, CanRewind, LifetimesMatchWorld
<1>h. \A u \in Tick, i \in Id : u <= tick => (Held(u, i) <=> hist[u] # NotCaptured /\ AliveAt(life[i], u))
  BY <1>t DEF Held, IInv, LifetimesMatchHistory
<1>w. /\ \A i \in Id : i \in LiveIds' <=> AliveAt(life[i], t)
      /\ \A i \in Id, u \in Nat : u <= t => (AliveAt(RestoredLife(t)[i], u) <=> AliveAt(life[i], u))
  BY <1>t, RestoredWorld
<1> DEFINE newAt == {i \in Missing(t) : place[i] = h}
           m == CHOOSE i \in newAt : TRUE
<1>1. entity'[h] = IF newAt # {} THEN Rebuilt(t, m)
                   ELSE IF Exists(h) THEN RestoredEntity(t, h) ELSE Gone
  BY DEF RestoreWorldAt
<1>2. newAt # {} => m \in Id /\ AliveAt(life[m], t)
  BY DEF Missing
<1> HIDE DEF newAt, m
<1>3. CASE newAt # {}
  <2>1. Held(t, m) /\ m \in Id
    BY <1>2, <1>3, <1>h, <1>t
  <2>2. StateAt(t, m) = hist[t].what[m]
    BY <2>1 DEF StateAt, Held
  <2>3. entity'[h] = [id |-> m, as |-> Nothing, what |-> hist[t].what[m],
                      dress |-> hist[t].what[m], diedAt |-> None]
    BY <1>1, <1>3, <2>2 DEF Rebuilt
  <2>4. \A u \in Tick : Held(u, m) => hist[u].what[m] = hist[t].what[m]
    BY <2>1, <1>t DEF OccupantsAgree
  <2>5. Live(h)'
    BY <2>3 DEF Live, Exists
  <2> QED
    BY <2>1, <2>3, <2>4, <2>5
<1>4. CASE newAt = {}
  <2> DEFINE e == entity[h]
             k == RestoredLife(t)[e.id]
  <2>1. Exists(h) /\ e \in Entity /\ e.id \in Id /\ entity'[h] = RestoredEntity(t, h)
    BY <1>1, <1>4, <1>t DEF Exists, TypeOK, Entity
  <2>2. e.as \in {Nothing, e.dress} /\ \A u \in Tick : Held(u, e.id) => hist[u].what[e.id] = e.dress
    BY <2>1, <1>t DEF OccupantsAgree, HeldOf
  <2>3. WellFormed(k) /\ k \in Lifetime
    BY <2>1, <1>t DEF WellFormed
  <2>4. CASE h \in Burying(t)
    <3>1. entity'[h] = [e EXCEPT !.diedAt = IF k.died # None THEN k.died ELSE t]
      BY <2>1, <2>4 DEF RestoredEntity, Buried
    <3>2. /\ entity'[h].id = e.id /\ entity'[h].as = e.as /\ entity'[h].dress = e.dress
          /\ entity'[h].diedAt = IF k.died # None THEN k.died ELSE t
      BY <3>1, <2>1 DEF Entity
    <3>3. ~Live(h)'
      BY <3>2, <1>t DEF Live, None
    <3>4. ~AliveAt(life[e.id], t)
      BY <2>4 DEF Burying, KnownDeadAt
    <3> HIDE DEF k
    <3>5. ASSUME NEW u \in Tick, u <= t, Held(u, e.id)
          PROVE  u < entity'[h].diedAt
      <4>1. u \in Nat /\ AliveAt(life[e.id], u) /\ u # t
        BY <3>4, <3>5, <2>1, <1>h, <1>t DEF Tick
      <4>2. AliveAt(k, u)
        BY <4>1, <3>5, <2>1, <1>w DEF k
      <4> QED
        BY <4>1, <4>2, <3>2, <3>5, <1>t DEF AliveAt
    <3> QED
      BY <3>2, <3>3, <3>5, <2>1, <2>2
  <2>5. CASE h \notin Burying(t) /\ (Live(h) \/ h \in Reviving(t))
    <3>1. entity'[h] = [e EXCEPT !.diedAt = None, !.what = StateAt(t, e.id)]
      BY <2>1, <2>5 DEF RestoredEntity
    <3>2. /\ entity'[h].id = e.id /\ entity'[h].as = e.as /\ entity'[h].dress = e.dress
          /\ entity'[h].diedAt = None /\ entity'[h].what = StateAt(t, e.id)
      BY <3>1, <2>1 DEF Entity
    <3>3. Live(h)' /\ e.id \in LiveIds'
      BY <3>2, <2>1 DEF Live, Exists, LiveIds, LiveOf
    <3>4. Held(t, e.id)
      BY <3>3, <2>1, <1>w, <1>h, <1>t
    <3>5. StateAt(t, e.id) = hist[t].what[e.id]
      BY <3>4 DEF StateAt, Held
    <3> QED
      BY <3>2, <3>3, <3>4, <3>5, <2>1, <2>2
  <2>6. CASE h \notin Burying(t) /\ ~(Live(h) \/ h \in Reviving(t))
    <3>1. entity'[h] = e /\ ~Live(h) /\ ~Live(h)'
      BY <2>1, <2>6 DEF RestoredEntity, Live, Exists
    <3>2. ASSUME NEW u \in Tick, u <= t, Held(u, e.id) PROVE u < e.diedAt
      <4>1. u <= tick
        BY <3>2, <1>t DEF Tick
      <4>2. HeldOf(u, h)
        BY <3>2 DEF HeldOf
      <4> QED
        BY <4>1, <4>2, <3>1, <2>1, <1>t DEF TombstonesArePast
    <3> QED
      BY <3>1, <3>2, <2>1, <2>2
  <2> QED
    BY <2>4, <2>5, <2>6
<1> QED
  BY <1>3, <1>4

(* A rewind to t that keeps the captures up to t, and of the later ones      *)
(* those a scrub may still go forward to.                                    *)
LEMMA RestoredAgrees ==
  ASSUME OInv, NEW t \in Tick, CanRewind(t), RestoreWorld(t),
         \A u \in Tick : hist'[u] \in {NotCaptured, hist[u]},
         \A u \in Tick : hist'[u] # NotCaptured /\ u <= tick' => u <= t
  PROVE  OccupantsAgree' /\ TombstonesArePast'
<1>0. PICK place \in Placements(Missing(t), FreeHandles) : RestoreWorldAt(t, place)
  BY RestorePlace
<1>1. \A u \in Tick, i \in Id : Held(u, i)' => Held(u, i) /\ hist'[u] = hist[u]
  BY DEF Held
<1>2. ASSUME NEW h \in Handle, Exists(h)'
      PROVE  /\ entity'[h].as \in {Nothing, entity'[h].dress}
             /\ Live(h)' => entity'[h].dress = entity'[h].what
             /\ \A u \in Tick : HeldOf(u, h)' =>
                  /\ hist'[u].what[entity'[h].id] = entity'[h].dress
                  /\ ~Live(h)' /\ u <= tick' => u < entity'[h].diedAt
  <2>1. /\ entity'[h].id \in Id
        /\ entity'[h].as \in {Nothing, entity'[h].dress}
        /\ Live(h)' => entity'[h].dress = entity'[h].what
        /\ \A u \in Tick : Held(u, entity'[h].id) =>
             /\ hist[u].what[entity'[h].id] = entity'[h].dress
             /\ ~Live(h)' /\ u <= t => u < entity'[h].diedAt
    BY <1>0, <1>2, RestoredOccupant
  <2>2. \A u \in Tick : HeldOf(u, h)' =>
          /\ Held(u, entity'[h].id) /\ hist'[u] = hist[u]
          /\ u <= tick' => u <= t
    BY DEF HeldOf, Held
  <2> QED
    BY <2>1, <2>2
<1>3. OccupantsAgree'
  <2>1. \A h \in Handle : Live(h)' => entity'[h].dress = entity'[h].what
    BY <1>2 DEF Live
  <2>2. \A u, v \in Tick, i \in Id : Held(u, i)' /\ Held(v, i)' =>
          hist'[u].what[i] = hist'[v].what[i]
    BY <1>1 DEF OInv, OccupantsAgree
  <2> QED
    BY <1>2, <2>1, <2>2 DEF OccupantsAgree, DressedForWhatItIs
<1>4. TombstonesArePast'
  BY <1>2 DEF TombstonesArePast
<1> QED
  BY <1>3, <1>4

(* Every step keeps the occupants and their tombstones in order.             *)
LEMMA OccupantsStep ==
  ASSUME OInv, ReplaysOnly, [Next]_vars
  PROVE  OccupantsAgree' /\ TombstonesArePast'
<1>t. /\ IInv /\ OccupantsAgree /\ TombstonesArePast /\ TypeOK
      /\ tick \in Tick /\ tick \in Nat /\ lastCaptured \in OptTick
  BY DEF OInv, IInv, TypeOK, Tick
<1>c. phase # "scrubbed" => \A u \in Tick : hist[u] # NotCaptured => u <= tick
  BY <1>t DEF IInv, ClockMatchesCaptures, TypeOK, Tick, OptTick, None
<1>1. ASSUME NEW k \in Kind, Spawn(k) PROVE OccupantsAgree' /\ TombstonesArePast'
  BY <1>1, SpawnOccupies
<1>2. ASSUME NEW h \in Handle, DespawnTicked(h) \/ PlainDespawn(h)
      PROVE  OccupantsAgree' /\ TombstonesArePast'
  BY <1>2, DespawnOccupies
<1>u. ASSUME UNCHANGED <<tick, hist, entity>>
      PROVE  OccupantsAgree' /\ TombstonesArePast'
  BY <1>u, <1>t DEF OccupantsAgree, TombstonesArePast, DressedForWhatItIs, HeldOf, Held, Live, Exists
<1>3. CASE InitialCapture
  <2>1. CASE tick = 0 /\ hist[0] = NotCaptured
    <3>1. phase # "scrubbed" /\ hist' = [hist EXCEPT ![0] = CaptureNow] /\ UNCHANGED <<tick, entity>>
      BY <2>1, <1>3, <1>t DEF InitialCapture, IInv, ClockMatchesCaptures
    <3>2. \A u \in Tick : hist'[u] \in {NotCaptured, hist[u]} \/ (u = tick /\ hist'[u] = CaptureNow)
      BY <3>1, <2>1, <1>t DEF TypeOK
    <3>3. \A u \in Tick : hist'[u] # NotCaptured => u <= tick
      BY <3>2, <3>1, <1>c, <1>t
    <3> QED
      BY <3>1, <3>2, <3>3, <1>t, CaptureAgrees
  <2>2. CASE ~(tick = 0 /\ hist[0] = NotCaptured)
    BY <2>2, <1>3, <1>u DEF InitialCapture
  <2> QED
    BY <2>1, <2>2
<1>4. CASE BeginTick
  <2>1. phase = "idle" /\ tick' = tick + 1 /\ UNCHANGED <<hist, entity>>
    BY <1>4 DEF BeginTick, ReplaysOnly
  <2>2. \A u \in Tick : hist[u] # NotCaptured => u <= tick
    BY <2>1, <1>c
  <2>3. OccupantsAgree'
    BY <2>1, <1>t DEF OccupantsAgree, DressedForWhatItIs, HeldOf, Held, Live, Exists
  <2>4. TombstonesArePast'
    BY <2>1, <2>2, <1>t DEF TombstonesArePast, HeldOf, Held, Live, Exists
  <2> QED
    BY <2>3, <2>4
<1>5. CASE EndTick
  <2>1. /\ phase = "sim" /\ UNCHANGED tick
        /\ hist' = [u \in Tick |-> IF u < PruneTick THEN NotCaptured
                                   ELSE IF u = tick THEN CaptureNow ELSE hist[u]]
        /\ \A h \in Handle : entity'[h] \in {Gone, entity[h]}
    BY <1>5 DEF EndTick
  <2>2. \A u \in Tick : hist'[u] \in {NotCaptured, hist[u]} \/ (u = tick /\ hist'[u] = CaptureNow)
    BY <2>1
  <2>3. \A u \in Tick : hist[u] # NotCaptured => u <= tick
    BY <2>1, <1>c
  <2>4. \A u \in Tick : hist'[u] # NotCaptured => u <= tick
    BY <2>2, <2>3, <1>t
  <2> QED
    BY <2>1, <2>2, <2>4, <1>t, CaptureAgrees
<1>6. CASE EndReplayedTick
  <2>1. /\ phase = "sim" /\ hist' = [hist EXCEPT ![tick] = CaptureNow] /\ UNCHANGED entity
        /\ lastCaptured < tick
    BY <1>6, <1>t DEF EndReplayedTick, IInv, ClockMatchesCaptures
  <2>2. \A u \in Tick : hist'[u] \in {NotCaptured, hist[u]} \/ (u = tick /\ hist'[u] = CaptureNow)
    BY <2>1, <1>t DEF TypeOK
  <2>3. \A u \in Tick : hist'[u] # NotCaptured => u <= tick
    BY <2>1, <2>2, <1>c, <1>t
  <2> QED
    BY <2>1, <2>2, <2>3, <1>t, CaptureAgrees
<1>7. ASSUME NEW t \in Tick, ScrubTo(t) PROVE OccupantsAgree' /\ TombstonesArePast'
  <2>1. CanRewind(t) /\ RestoreWorld(t) /\ tick' = t /\ UNCHANGED hist
    BY <1>7 DEF ScrubTo
  <2> QED
    BY <2>1, RestoredAgrees
<1>8. ASSUME NEW t \in Tick, NEW end \in Tick, Rollback(t, end)
      PROVE  OccupantsAgree' /\ TombstonesArePast'
  <2>1. /\ CanRewind(t) /\ RestoreWorld(t)
        /\ hist' = [u \in Tick |-> IF u > t THEN NotCaptured ELSE hist[u]]
    BY <1>8 DEF Rollback
  <2>2. \A u \in Tick : hist'[u] \in {NotCaptured, hist[u]} /\ (hist'[u] # NotCaptured => u <= t)
    BY <2>1 DEF Tick
  <2> QED
    BY <2>1, <2>2, RestoredAgrees
<1>9. CASE UNCHANGED vars
  BY <1>9, <1>u DEF vars
<1> QED
  BY <1>1, <1>2, <1>3, <1>4, <1>5, <1>6, <1>7, <1>8, <1>9 DEF Next, Game

(* The occupants and the tombstones stay in order in a game that only        *)
(* replays: the invariant the two theorems below follow from.                *)
THEOREM Occupancy == ReplaysOnly => (Spec => []OInv)
<1> SUFFICES ASSUME ReplaysOnly PROVE Spec => []OInv
  OBVIOUS
<1>1. Init => OccupantsAgree /\ TombstonesArePast
  BY DEF Init, OccupantsAgree, TombstonesArePast, DressedForWhatItIs, Held, Live, Exists
<1>2. OInv /\ [Next]_vars => OccupantsAgree' /\ TombstonesArePast'
  BY OccupantsStep
<1>3. IInv /\ OccupantsAgree /\ TombstonesArePast <=> OInv
  BY DEF OInv
<1> QED
  BY <1>1, <1>2, <1>3, Invariance, PTL DEF Spec

(* What the game's observer hung on a live entity is for what the entity is, *)
(* however often its id was revived, rebuilt and changed hands.              *)
THEOREM DressIsRight == ReplaysOnly => (Spec => []DressedForWhatItIs)
<1>1. OInv => DressedForWhatItIs
  BY DEF OInv, OccupantsAgree
<1> QED
  BY <1>1, Occupancy, PTL

(* The reaper destroys no tombstone a retained capture can ask back.         *)
THEOREM ReapingIsSafe == ReplaysOnly => (Spec => ReapedIsUnreachable)
<1> SUFFICES ASSUME ReplaysOnly PROVE Spec => ReapedIsUnreachable
  OBVIOUS
<1> DEFINE Safe == \A h \in Handle :
      Exists(h) /\ ~Live(h) /\ entity'[h] = Gone =>
        \A t \in Tick : hist'[t] # NotCaptured => hist'[t].what[entity[h].id] = Gone
<1>1. OInv /\ [Next]_vars => [Safe]_vars
  <2> SUFFICES ASSUME OInv, Next, NEW h \in Handle, Exists(h), ~Live(h), entity'[h] = Gone,
                      NEW t \in Tick, hist'[t] # NotCaptured
               PROVE  hist'[t].what[entity[h].id] = Gone
    OBVIOUS
  <2>t. /\ IInv /\ TombstonesArePast /\ TypeOK /\ tick \in Nat
        /\ entity[h] \in Entity /\ entity[h].id \in Id
    BY DEF OInv, IInv, TypeOK, Tick, Exists, Entity
  <2>1. CASE EndTick
    <3>1. /\ phase = "sim" /\ h \in Reaped(PruneTick)
          /\ t >= PruneTick /\ hist'[t] = IF t = tick THEN CaptureNow ELSE hist[t]
          /\ PruneTick \in Nat /\ PruneTick <= tick
      BY <2>1, <2>t, BoundsAssumption DEF EndTick, Exists, PruneTick, Tick
    <3>2. entity[h].diedAt < t
      BY <3>1, <2>t DEF Reaped, Entity, OptTick, None, Tick
    <3>3. CASE t = tick
      <4>1. CaptureNow.what[entity[h].id] # Gone => Live(h)
        BY <2>t, CapturedOccupants
      <4> QED
        BY <3>1, <3>3, <4>1
    <3>4. CASE t # tick
      <4>1. t <= tick /\ hist'[t] = hist[t]
        BY <3>1, <3>4, <2>t DEF IInv, ClockMatchesCaptures, TypeOK, Tick, OptTick, None
      <4>2. ~HeldOf(t, h)
        BY <4>1, <3>2, <2>t DEF TombstonesArePast, Entity, OptTick, Tick, None
      <4> QED
        BY <4>1, <4>2 DEF HeldOf, Held
    <3> QED
      BY <3>3, <3>4
  <2>2. CASE ~EndTick
    <3>1. \/ \E k \in Kind : Spawn(k)
          \/ \E g \in Handle : DespawnTicked(g) \/ PlainDespawn(g)
          \/ UNCHANGED entity
          \/ \E u \in Tick : CanRewind(u) /\ RestoreWorld(u)
      BY <2>2 DEF Next, Game, InitialCapture, BeginTick, EndReplayedTick, ScrubTo, Rollback
    <3>2. ASSUME NEW k \in Kind, Spawn(k) PROVE FALSE
      <4>1. PICK g \in Handle : /\ \A f \in Handle \ {g} : entity'[f] = entity[f]
                                /\ entity'[g] \in Entity
        BY <3>2, SpawnedOccupant DEF OInv
      <4> QED
        BY <4>1, SentinelAssumption DEF Exists
    <3>3. ASSUME NEW g \in Handle, DespawnTicked(g) \/ PlainDespawn(g) PROVE FALSE
      BY <3>3, <2>t DEF DespawnTicked, PlainDespawn, TypeOK, Live, Exists
    <3>4. ASSUME NEW u \in Tick, CanRewind(u), RestoreWorld(u) PROVE FALSE
      <4>1. PICK place \in Placements(Missing(u), FreeHandles) : RestoreWorldAt(u, place)
        BY <3>4, RestorePlace
      <4> DEFINE newAt == {i \in Missing(u) : place[i] = h}
      <4>2. newAt = {}
        BY DEF Placements, FreeHandles
      <4>3. entity'[h] = RestoredEntity(u, h)
        BY <4>1, <4>2 DEF RestoreWorldAt
      <4>4. entity'[h] = [entity[h] EXCEPT !.diedAt = None, !.what = StateAt(u, entity[h].id)]
            \/ entity'[h] = entity[h]
        BY <4>3 DEF RestoredEntity, Burying
      <4>5. StateAt(u, entity[h].id) \in Kind \cup {Nothing}
        BY <3>4, <2>t DEF CanRewind, StateAt, TypeOK, Captured
      <4>6. entity'[h] \in Entity
        BY <4>4, <4>5, <2>t DEF Entity, OptTick
      <4> QED
        BY <4>6, SentinelAssumption
    <3> QED
      BY <3>1, <3>2, <3>3, <3>4 DEF Exists
  <2> QED
    BY <2>1, <2>2
<1> QED
  BY <1>1, Occupancy, PTL DEF Spec, ReapedIsUnreachable

-----------------------------------------------------------------------------
(* THE REFINEMENT *)

Past == [t \in Tick |-> IF hist[t] = NotCaptured THEN NotCaptured ELSE hist[t].what]
Worlds == [Id -> Kind \cup {Nothing, Gone}]

(* The registered state of an id is that of its live entity.                 *)
LEMMA NextWorldTyped ==
  ASSUME TypeOK'
  PROVE  WorldState' \in Worlds
<1>1. ASSUME NEW i \in Id
      PROVE  WorldState'[i] \in Kind \cup {Nothing, Gone}
  <2> DEFINE h == CHOOSE g \in LiveOf(i)' : TRUE
  <2>1. WorldState'[i] = IF LiveOf(i)' = {} THEN Gone ELSE entity'[h].what
    BY DEF WorldState
  <2>2. LiveOf(i)' # {} => h \in Handle /\ entity'[h] # Gone
    BY DEF LiveOf, Live, Exists
  <2>3. LiveOf(i)' # {} => entity'[h].what \in Kind \cup {Nothing}
    BY <2>2 DEF TypeOK, Entity
  <2> QED
    BY <2>1, <2>3
<1> QED
  BY <1>1 DEF WorldState, Worlds

(* A rewind makes the world the one captured at its tick.                    *)
LEMMA RestoredState ==
  ASSUME IInv, NEW t \in Tick, CanRewind(t), RestoreWorld(t)
  PROVE  WorldState' = hist[t].what
<1>1. PICK place \in Placements(Missing(t), FreeHandles) : RestoreWorldAt(t, place)
  BY RestorePlace
<1>2. \A i \in Id : i \in LiveIds' <=> hist[t].what[i] # Gone
  BY <1>1, RestoredWorld, RestoredIsMinted
<1>3. \A h \in Handle : entity'[h] # Gone /\ entity'[h].diedAt = None =>
        entity'[h].what = StateAt(t, entity'[h].id)
  BY <1>1, RestoredWorld DEF Live, Exists
<1>4. ASSUME NEW i \in Id
      PROVE  WorldState'[i] = hist[t].what[i]
  <2>1. CASE i \in LiveIds'
    <3> DEFINE h == CHOOSE g \in LiveOf(i)' : TRUE
    <3>1. LiveOf(i)' # {}
      BY <2>1 DEF LiveIds
    <3>2. WorldState'[i] = entity'[h].what
      BY <3>1 DEF WorldState
    <3>3. h \in Handle /\ entity'[h] # Gone /\ entity'[h].diedAt = None /\ entity'[h].id = i
      BY <3>1 DEF LiveOf, Live, Exists
    <3> HIDE DEF h
    <3>4. entity'[h].what = StateAt(t, i)
      BY <3>3, <1>3
    <3> QED
      BY <3>2, <3>4, <2>1, <1>2 DEF StateAt
  <2>2. CASE i \notin LiveIds'
    <3>1. LiveOf(i)' = {}
      BY <2>2 DEF LiveIds
    <3> QED
      BY <3>1, <2>2, <1>2 DEF WorldState
  <2> QED
    BY <2>1, <2>2
<1>5. hist[t].what \in Worlds
  BY DEF CanRewind, IInv, TypeOK, Captured, Worlds
<1> QED
  BY <1>4, <1>5 DEF WorldState, Worlds

(* A rewind puts back exactly the world captured at its tick, whatever was   *)
(* spawned, despawned, replayed and pruned before.                           *)
THEOREM RewindsAreExact == ReplaysOnly => (Spec => RewindIsExact)
<1> SUFFICES ASSUME ReplaysOnly PROVE Spec => RewindIsExact
  OBVIOUS
<1>1. Init => Rewindable!AbstractInit
  <2> SUFFICES ASSUME Init PROVE Rewindable!AbstractInit
    OBVIOUS
  <2>1. WorldState \in Worlds
    BY TypeInit, CaptureHoldsTheLive DEF CaptureNow, Captured, Worlds
  <2>2. tick = 0 /\ \A t \in Tick : hist[t] = NotCaptured
    BY DEF Init
  <2> QED
    BY <2>1, <2>2 DEF Rewindable!AbstractInit, Rewindable!Ticks, Worlds
<1>2. IInv /\ [Next]_vars => [Rewindable!AbstractNext]_Rewindable!abstractVars
  <2> SUFFICES ASSUME IInv, [Next]_vars
               PROVE  [Rewindable!AbstractNext]_Rewindable!abstractVars
    OBVIOUS
  <2>t. TypeOK /\ TypeOK' /\ WorldState' \in Worlds /\ tick \in Tick /\ tick' \in Tick
    BY TypeStep, NextWorldTyped DEF IInv, LifetimesMatchWorld, TypeOK
  <2>1. ASSUME UNCHANGED <<tick, hist>>
        PROVE  Rewindable!Change
    BY <2>1, <2>t DEF Rewindable!Change, Worlds
  <2>2. ASSUME UNCHANGED entity PROVE UNCHANGED WorldState
    BY <2>2 DEF WorldState, LiveOf, Live, Exists
  <2>3. ASSUME BeginTick PROVE Rewindable!Begin
    BY <2>3, <2>2, <2>t DEF BeginTick, Rewindable!Begin, Rewindable!Ticks
  <2>c. CaptureNow.what = WorldState /\ CaptureNow # NotCaptured
    BY CaptureHoldsTheLive DEF CaptureNow, IInv
  <2>4. ASSUME NEW p \in Tick, p <= tick, UNCHANGED WorldState, tick' \in {tick, tick + 1},
               hist' = [t \in Tick |-> IF t < p THEN NotCaptured
                                       ELSE IF t = tick THEN CaptureNow ELSE hist[t]]
        PROVE  Rewindable!Capture
    <3>1. \A t \in Tick : hist'[t] = IF t < p THEN NotCaptured
                                     ELSE IF t = tick THEN CaptureNow ELSE hist[t]
      BY <2>4
    <3>2. \A t \in Tick : Past'[t] = IF t < p THEN NotCaptured
                                     ELSE IF t = tick THEN WorldState ELSE Past[t]
      BY <3>1, <2>c DEF Past
    <3>3. Past' = Rewindable!Forget([Past EXCEPT ![tick] = WorldState],
                                    {t \in Tick : t >= p \/ t = tick})
      BY <3>2, <2>4, <2>t DEF Past, Rewindable!Forget, Rewindable!Ticks, Tick
    <3> QED
      BY <3>3, <2>4 DEF Past, Rewindable!Capture, Rewindable!Ticks
  <2>h. hist = [t \in Tick |-> hist[t]] /\ \A t \in Tick : ~(t < 0)
    BY <2>t DEF TypeOK, Tick
  <2>5. ASSUME InitialCapture, hist' # hist PROVE Rewindable!Capture
    <3>1. /\ tick = 0 /\ hist' = [hist EXCEPT ![0] = CaptureNow]
          /\ UNCHANGED <<tick, entity>>
      BY <2>5 DEF InitialCapture
    <3>2. hist' = [t \in Tick |-> IF t < 0 THEN NotCaptured
                                  ELSE IF t = tick THEN CaptureNow ELSE hist[t]]
      BY <3>1, <2>h, <2>t
    <3>3. 0 \in Tick /\ 0 <= tick
      BY <3>1, <2>t
    <3> QED
      BY <3>1, <3>2, <3>3, <2>2, <2>4
  <2>6. ASSUME EndTick \/ EndReplayedTick PROVE Rewindable!Capture
    <3>1. CASE EndTick
      <4>1. PruneTick \in Tick /\ PruneTick <= tick
        BY <2>t, BoundsAssumption DEF PruneTick, Tick
      <4>2. /\ hist' = [t \in Tick |-> IF t < PruneTick THEN NotCaptured
                                       ELSE IF t = tick THEN CaptureNow ELSE hist[t]]
            /\ UNCHANGED tick /\ \A h \in Handle : entity'[h] = IF h \in Reaped(PruneTick) THEN Gone ELSE entity[h]
        BY <3>1 DEF EndTick
      <4>3. \A i \in Id : LiveOf(i)' = LiveOf(i)
        BY <4>2 DEF LiveOf, Live, Exists, Reaped
      <4>4. ASSUME NEW i \in Id PROVE WorldState'[i] = WorldState[i]
        <5> DEFINE h == CHOOSE g \in LiveOf(i) : TRUE
        <5>0. WorldState'[i] = IF LiveOf(i)' = {} THEN Gone
                               ELSE entity'[CHOOSE g \in LiveOf(i)' : TRUE].what
          BY DEF WorldState
        <5>1. WorldState'[i] = IF LiveOf(i) = {} THEN Gone ELSE entity'[h].what
          BY <4>3, <5>0
        <5>2. WorldState[i] = IF LiveOf(i) = {} THEN Gone ELSE entity[h].what
          BY DEF WorldState
        <5>3. LiveOf(i) # {} => h \in Handle /\ Live(h)
          BY DEF LiveOf
        <5> HIDE DEF h
        <5>4. LiveOf(i) # {} => entity'[h] = entity[h]
          BY <5>3, <4>2 DEF Reaped, Live
        <5> QED
          BY <5>1, <5>2, <5>4
      <4>5. UNCHANGED WorldState
        BY <4>4 DEF WorldState
      <4> QED
        BY <4>1, <4>2, <4>5, <2>4
    <3>2. CASE EndReplayedTick
      <4>1. /\ hist' = [hist EXCEPT ![tick] = CaptureNow]
            /\ tick' \in {tick, tick + 1} /\ UNCHANGED entity
        BY <3>2 DEF EndReplayedTick
      <4>2. hist' = [t \in Tick |-> IF t < 0 THEN NotCaptured
                                    ELSE IF t = tick THEN CaptureNow ELSE hist[t]]
        BY <4>1, <2>h, <2>t
      <4>3. 0 \in Tick /\ 0 <= tick
        BY <2>t, BoundsAssumption DEF Tick
      <4> QED
        BY <4>1, <4>2, <4>3, <2>2, <2>4
    <3> QED
      BY <2>6, <3>1, <3>2
  <2>r. ASSUME NEW t \in Tick, CanRewind(t), RestoreWorld(t)
        PROVE  WorldState' = Past[t] /\ Past[t] # NotCaptured /\ t <= tick
    <3>1. WorldState' = hist[t].what /\ hist[t] # NotCaptured /\ t <= tick
      BY <2>r, RestoredState DEF CanRewind
    <3>2. hist[t].what # NotCaptured
      BY <3>1, <2>r, <2>t, SentinelAssumption DEF TypeOK, Captured
    <3> QED
      BY <3>1, <3>2 DEF Past
  <2>7. ASSUME NEW t \in Tick, ScrubTo(t) PROVE Rewindable!Rewind
    <3>1. CanRewind(t) /\ RestoreWorld(t) /\ tick' = t /\ hist' = hist
      BY <2>7 DEF ScrubTo
    <3>2. WorldState' = Past[t] /\ Past[t] # NotCaptured /\ t <= tick
      BY <3>1, <2>r
    <3> QED
      BY <3>1, <3>2 DEF Past, Rewindable!Rewind, Rewindable!Ticks
  <2>8. ASSUME NEW t \in Tick, NEW end \in Tick, Rollback(t, end) PROVE Rewindable!Rewind
    <3>1. /\ CanRewind(t) /\ RestoreWorld(t) /\ tick' \in {t, t + 1}
          /\ hist' = [u \in Tick |-> IF u > t THEN NotCaptured ELSE hist[u]]
      BY <2>8 DEF Rollback
    <3>2. WorldState' = Past[t] /\ Past[t] # NotCaptured /\ t <= tick
      BY <3>1, <2>r
    <3>3. Past' = Rewindable!Forget(Past, {u \in Tick : u <= t})
      BY <3>1 DEF Past, Rewindable!Forget, Rewindable!Ticks, Tick
    <3> QED
      BY <3>1, <3>2, <3>3 DEF Past, Rewindable!Rewind, Rewindable!Ticks
  <2>9. Game \/ (InitialCapture /\ hist' = hist) \/ UNCHANGED vars => UNCHANGED <<tick, hist>>
    BY DEF Game, Spawn, DespawnTicked, PlainDespawn, InitialCapture, vars
  <2> QED
    BY <2>1, <2>3, <2>5, <2>6, <2>7, <2>8, <2>9
    DEF Next, Rewindable!AbstractNext
<1> QED
  BY <1>1, <1>2, Invariance, PTL DEF Spec, RewindIsExact, Rewindable!AbstractSpec
===============================================================================
