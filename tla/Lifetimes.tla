------------------------------ MODULE Lifetimes ------------------------------
(***************************************************************************)
(* The record a peer keeps of when each tracked id was alive (struct       *)
(* Lifetime, TrackedEntityLifetimes::by_id): the first captured tick the   *)
(* id existed at and the first one it no longer existed at.  Pure          *)
(* operators on one lifetime or on the whole table; the state machines     *)
(* that use them are TickRollback (one peer's clock, its rewinds and its   *)
(* pruning) and ClientExistence (a client told of existence by snapshots). *)
(*                                                                         *)
(* The table is total on the ids of the model: an id with no entry has the *)
(* lifetime Unseen.  None stands for Option::None wherever a tick may be   *)
(* missing; it is below every tick, so last_captured can be compared as is.*)
(***************************************************************************)
EXTENDS Integers

None == -1

(* Option<Tick> *)
OptTick == Nat \cup {None}

Lifetime == [born : OptTick, died : OptTick]

(* No entry in by_id. *)
Unseen == [born |-> None, died |-> None]

Seen(l) == l.born # None

(* alive_at(tick) = Some(true) *)
AliveAt(l, t) == Seen(l) /\ l.born <= t /\ (l.died = None \/ t < l.died)

(* Mutant: what is not born yet is not known dead, the husk of old. *)
OnlyDiedIsDead(l, t) == l.died # None /\ l.died <= t

(* alive_at(tick) = Some(false): known, and not alive then. *)
KnownDeadAt(l, t) == Seen(l) /\ ~AliveAt(l, t)

(* note_alive: born at t if never seen or if its recorded death is past, and *)
(* born no later than t otherwise.                                           *)
NoteAlive(l, t) ==
  IF ~Seen(l) \/ (l.died # None /\ l.died <= t)
  THEN [born |-> t, died |-> None]
  ELSE [l EXCEPT !.born = IF @ > t THEN t ELSE @]

(* note_dead: a death noted once t has been captured is a death at t + 1. *)
NoteDead(l, t, lastCaptured) ==
  LET died == IF lastCaptured >= t THEN t + 1 ELSE t
  IN  IF Seen(l) /\ (l.died = None \/ l.died > died) /\ l.born <= died
      THEN [l EXCEPT !.died = died]
      ELSE l

(* set_died: the authority's word, whatever was captured here. *)
SetDied(l, t) ==
  IF Seen(l) /\ l.born < t THEN [l EXCEPT !.died = t] ELSE Unseen

(* capture: everything live is alive at t, everything known and absent died. *)
CaptureLife(l, isLive, t) ==
  IF isLive THEN NoteAlive(l, t)
  ELSE IF Seen(l) /\ l.died = None /\ l.born <= t THEN [l EXCEPT !.died = t]
  ELSE l

(* Mutant: a death in the discarded future is kept. *)
TruncateBirthsOnly(l, t) == IF l.born > t THEN Unseen ELSE l

(* truncate_after: an id born after t never was, a death after t has not been. *)
TruncateLife(l, t) ==
  IF l.born > t THEN Unseen
  ELSE IF l.died > t THEN [l EXCEPT !.died = None]
  ELSE l

(* prune_before: ids that died before t are forgotten. *)
PruneLife(l, t) == IF l.died # None /\ l.died < t THEN Unseen ELSE l
==============================================================================
