--------------------------- MODULE RewindableWorld ---------------------------
(***************************************************************************)
(* What the rollback of bevy_ticked promises, and nothing about how: a     *)
(* clock, a world (for every tracked id its registered state, or Absent),  *)
(* and the past, the worlds captured at ticks not yet forgotten.  A rewind *)
(* to a tick puts back exactly the world captured there.                   *)
(***************************************************************************)
EXTENDS Integers

CONSTANTS
  World,       \* every world there can be: functions from ids to states
  NotCaptured  \* the past at a tick that holds no capture, itself not a world

VARIABLES
  now,    \* the tick the world is at
  world,  \* the world itself
  past    \* past[t]: the world captured at t, or NotCaptured

abstractVars == <<now, world, past>>

Ticks == DOMAIN past

Forget(old, keep) == [t \in Ticks |-> IF t \in keep THEN old[t] ELSE NotCaptured]

AbstractInit ==
  /\ now = 0
  /\ world \in World
  /\ \A t \in Ticks : past[t] = NotCaptured

(* The game changes the world, in a tick or between two. *)
Change == world' \in World /\ UNCHANGED <<now, past>>

(* A tick starts. *)
Begin == now + 1 \in Ticks /\ now' = now + 1 /\ UNCHANGED <<world, past>>

(* A tick is captured; the past before the window may be forgotten, and the  *)
(* next tick of a replay starts in the same step.                            *)
Capture ==
  /\ \E from \in Ticks :
       past' = Forget([past EXCEPT ![now] = world], {t \in Ticks : t >= from \/ t = now})
  /\ now' \in {now, now + 1}
  /\ UNCHANGED world

(* A rewind, which may forget what came after and may begin a replay. *)
Rewind ==
  \E t \in Ticks :
    /\ t <= now /\ past[t] # NotCaptured
    /\ world' = past[t]
    /\ now' \in {t, t + 1}
    /\ past' \in {past, Forget(past, {u \in Ticks : u <= t})}

AbstractNext == Change \/ Begin \/ Capture \/ Rewind

AbstractSpec == AbstractInit /\ [][AbstractNext]_abstractVars
==============================================================================
