----------------------------- MODULE TickedEvents -----------------------------
(***************************************************************************)
(* The log of one type of ticked event on one peer (src/events.rs): what   *)
(* each tick said, how far a reader has been given it, and what it has     *)
(* been given.  A tick that is run again replaces what it said; a rollback *)
(* rewinds how far the reader is; and the reader is given only what it was *)
(* not given for that tick before.                                         *)
(*                                                                         *)
(* The clock is moved by its loop (a tick, and the pruning that ends the   *)
(* pass), by rollbacks that tell the logs (rollback_and_resimulate,        *)
(* handle_server_snapshot, client_follow_pause: all but the last replay    *)
(* from there, tick by tick), and by a door of the session.  A clock set   *)
(* back without the logs hearing of it is not modelled: rollback_to_tick   *)
(* does it on its own, and handle_server_snapshot when the snapshot says   *)
(* that the session is paused and it returns before it truncates.          *)
(***************************************************************************)
EXTENDS Integers, Sequences, FiniteSets, Functions

CONSTANTS
  Event,
  Said,      \* what a tick may say: a set of sequences of events
  Window,    \* HistoryBufferTicks
  MaxTick,   \* bound
  MaxMoves,  \* bound: times the clock is set back
  None

ASSUME EventsAssumption ==
  /\ Said \subseteq Seq(Event) /\ {Window, MaxTick, MaxMoves} \subseteq Nat /\ Window > 0
  /\ None \notin Nat

VARIABLES
  clock,     \* CurrentTick
  log,       \* TickedEvents::log
  presented, \* TickedEvents::presented
  heard,     \* TickedEvents::heard
  writing,   \* TickedEvents::writing
  said,      \* history: what the last run of each tick still in the window said
  most,      \* history: the most any run of a tick said of an event
  told,      \* history: how often a reader was given an event for a tick
  moves      \* bound

logVars  == <<log, presented, heard, writing>>
vars == <<clock, logVars, said, most, told, moves>>

Tick == 0..MaxTick

At(f, k) == IF k \in DOMAIN f THEN f[k] ELSE <<>>
Put(f, k, v) == [x \in DOMAIN f \cup {k} |-> IF x = k THEN v ELSE f[x]]
KeepTo(f, t) == RestrictDomain(f, LAMBDA u : u <= t)
KeepFrom(f, t) == RestrictDomain(f, LAMBDA u : u >= t)
Count(s, e) == Cardinality({i \in DOMAIN s : s[i] = e})
Larger(a, b) == IF a > b THEN a ELSE b
Smaller(a, b) == IF a < b THEN a ELSE b

-----------------------------------------------------------------------------
(* THE LOG *)

(* TickedEvents::write, of each event of a tick in turn: the first begins it anew *)
(* unless the last write was of that tick too.                                    *)
Written(l, t, events) ==
  IF events = <<>> THEN l
  ELSE Put(l, t, (IF writing = t THEN At(l, t) ELSE <<>>) \o events)

(* Mutant: what the reader was given goes with what was said. *)
TruncateHeardToo(t) ==
  /\ log' = KeepTo(log, t) /\ presented' = Smaller(presented, t) /\ writing' = None
  /\ heard' = KeepTo(heard, t)

(* Mutant: the tick after the one gone back to is kept too, and is left if its next *)
(* run says nothing.                                                                *)
TruncateOneShort(t) ==
  /\ log' = KeepTo(log, t + 1) /\ presented' = Smaller(presented, t) /\ writing' = None
  /\ UNCHANGED heard

(* Mutant: the watermark stays. *)
TruncateLogOnly(t) ==
  /\ log' = KeepTo(log, t) /\ writing' = None
  /\ UNCHANGED <<presented, heard>>

(* TickedEvents::truncate_after *)
TruncateAfter(t) ==
  /\ log' = KeepTo(log, t) /\ presented' = Smaller(presented, t) /\ writing' = None
  /\ UNCHANGED heard

(* What is new of what a tick says to a reader that was given was: of each event, *)
(* as many as there are now and were not given, in the order they were said.      *)
Nth(s, i) == Count(SubSeq(s, 1, i), s[i])

Unheard(was, now) == {i \in DOMAIN now : Nth(now, i) > Count(was, now[i])}

InOrder(S) == CHOOSE f \in [1..Cardinality(S) -> S] : \A j, k \in DOMAIN f : j < k => f[j] < f[k]

Fresh(was, now) ==
  LET order == InOrder(Unheard(was, now))
  IN  [k \in DOMAIN order |-> now[order[k]]]

-----------------------------------------------------------------------------
Init ==
  /\ clock = 0 /\ log = <<>> /\ presented = 0 /\ heard = <<>> /\ writing = None
  /\ said = <<>> /\ told = [t \in Tick |-> [e \in Event |-> 0]]
  /\ most = [t \in Tick |-> [e \in Event |-> 0]] /\ moves = 0

(* prune_before, of one of the two records. *)
Pruned(f, oldest) == IF oldest > 0 THEN KeepFrom(f, oldest) ELSE f

(* A tick of the simulation at clock + 1, and prune_ticked_events. *)
RunTick(events) ==
  LET t      == clock + 1
      oldest == t - Window
      l      == Written(log, t, events)
  IN  /\ clock < MaxTick
      /\ clock' = t
      /\ log' = Pruned(l, oldest)
      /\ heard' = Pruned(heard, oldest)
      /\ presented' = IF oldest > 0 THEN Larger(presented, oldest - 1) ELSE presented
      /\ writing' = IF events = <<>> THEN writing ELSE t
      /\ said' = KeepFrom(Put(said, t, events), oldest)
      /\ most' = [most EXCEPT ![t] = [e \in Event |-> Larger(@[e], Count(events, e))]]
      /\ UNCHANGED <<told, moves>>

(* The ticks that can be gone back to: what is captured is kept as long as the log. *)
Kept == IF clock = 0 \/ 1 \in DOMAIN said THEN DOMAIN said \cup {0} ELSE DOMAIN said

(* A rollback, within what the histories still hold, and the log is told of it. *)
Rollback(t) ==
  /\ t < clock /\ t \in Kept /\ moves < MaxMoves
  /\ clock' = t /\ moves' = moves + 1
  /\ TruncateAfter(t)
  /\ said' = KeepTo(said, t)
  /\ UNCHANGED <<most, told>>

(* A door of the session: TickedEventRegistry::clear_all and the clock at zero. *)
Door ==
  /\ clock > 0 /\ moves < MaxMoves
  /\ clock' = 0 /\ log' = <<>> /\ heard' = <<>> /\ presented' = 0 /\ writing' = None
  /\ said' = <<>> /\ moves' = moves + 1
  /\ told' = [t \in Tick |-> [e \in Event |-> 0]]
  /\ most' = [t \in Tick |-> [e \in Event |-> 0]]

(* drain_unpresented, by the one reader, in Update: whenever a frame ends.  Behind *)
(* the watermark everything begins anew.                                           *)
Read ==
  LET stale == presented > clock
      l     == IF stale THEN KeepTo(log, clock) ELSE log
      was   == IF stale THEN <<>> ELSE heard
      from  == IF stale THEN 1 ELSE presented + 1
      due   == DOMAIN l \cap from..clock
      new   == [t \in due |-> Fresh(At(was, t), l[t])]
  IN  /\ presented # clock
      /\ log' = l
      /\ heard' = [t \in DOMAIN was \cup due |-> IF t \in due THEN At(was, t) \o new[t] ELSE was[t]]
      /\ presented' = clock
      /\ writing' = IF stale THEN None ELSE writing
      /\ told' = [t \in Tick |-> [e \in Event |-> told[t][e] + (IF t \in due THEN Count(new[t], e) ELSE 0)]]
      /\ UNCHANGED <<clock, said, most, moves>>

Next ==
  \/ \E events \in Said : RunTick(events)
  \/ \E t \in Tick : Rollback(t)
  \/ Door \/ Read

Spec == Init /\ [][Next]_vars

-----------------------------------------------------------------------------
(* PROPERTIES *)

(* Every variable has its type, and neither record outgrows the window. *)
TypeOK ==
  /\ clock \in Tick /\ presented \in Tick /\ writing \in Tick \cup {None}
  /\ DOMAIN log \subseteq Tick /\ \A t \in DOMAIN log : log[t] \in Seq(Event)
  /\ DOMAIN heard \subseteq Tick /\ \A t \in DOMAIN heard : heard[t] \in Seq(Event)
  /\ Cardinality(DOMAIN log) <= Window + 1 /\ Cardinality(DOMAIN heard) <= Window + 1
  /\ moves \in 0..MaxMoves

(* The log holds what the last run of each tick said, and nothing a discarded run *)
(* said (events.rs:128-133, events.rs:296-303).                                   *)
LogIsTheTimeline ==
  /\ \A t \in DOMAIN said : At(log, t) = said[t]
  /\ \A t \in DOMAIN log : t <= clock

(* No event is presented more often than a run of its tick said it, however often *)
(* the tick was run and rolled back (events.rs:1, events.rs:27-34).               *)
NeverTwice == \A t \in Tick, e \in Event : told[t][e] <= most[t][e]

(* What a reader that is up to date was given is all that the timeline said since *)
(* the window began: a correction is heard, though the guess was heard before it  *)
(* (events.rs:31-34), unless no frame was read for a whole window.                *)
TruthIsHeard ==
  \A t \in DOMAIN said : t <= presented =>
    \A e \in Event : told[t][e] >= Count(said[t], e)
==============================================================================
