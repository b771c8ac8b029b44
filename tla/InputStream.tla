------------------------------ MODULE InputStream ------------------------------
(***************************************************************************)
(* One client's inputs on their way to the host of a snapshot session:     *)
(* pressed for the client's tick, sent with the few ticks before it        *)
(* (send_local_input, client.rs), lost, doubled or overtaken by the        *)
(* transport, filed by the host under the tick they are for and, when they *)
(* come too late for it, under the host's next (collect_network_inputs,    *)
(* server.rs), and read when the host runs that tick (InputQueue).         *)
(*                                                                         *)
(* The two clocks are not tied: the client's is ahead by its lead, which   *)
(* it may lose (Leap), have too much of (SnapBack) and begin anew by a     *)
(* join (Rejoin, NewSession).  A press is known by the tick it is for and  *)
(* by how many snap backs came before it.                                  *)
(***************************************************************************)
EXTENDS Integers, FiniteSets, FiniteSetsExt, Functions, SequencesExt

CONSTANTS
  Red,       \* INPUT_REDUNDANCY: ticks a packet carries
  Window,    \* HistoryBufferTicks
  MaxLead,   \* MAX_INPUT_LEAD_TICKS
  Lead,      \* the client's target lead
  MaxTick,   \* bound on the client's clock; the host's is behind it or no further
  MaxBehind, \* bound: how far behind the host the client may fall
  MaxFlight, \* bound: packets on their way
  MaxTurns   \* bound: leaps, snap backs and joins

ASSUME InputsAssumption ==
  /\ {Red, Window, MaxLead, Lead, MaxTick, MaxBehind, MaxFlight, MaxTurns} \subseteq Nat
  /\ Red > 0 /\ Window >= Red - 1 /\ Lead <= MaxLead

VARIABLES
  clock,    \* client: CurrentTick
  mine,     \* client: InputQueue, its own presses: tick -> press
  epoch,    \* names the presses: how many turns the client's clock has made
  net,      \* packets on their way to the host
  tick,     \* host: CurrentTick
  queue,    \* host: InputQueue, this client's inputs: tick -> press
  newest,   \* host: NewestInputTick; zero before any
  used,     \* history: the tick whose press the host used last; zero before any
  filed,    \* history: the presses the host accepted
  lost,     \* history: the packets lost, with the presses of theirs the host did not get
  owed      \* history: the presses that stand: tick -> press

client  == <<clock, mine, epoch>>
host    == <<tick, queue, newest>>
history == <<used, filed, lost, owed>>
vars    == <<client, net, host, history>>

Tick  == 0..MaxTick
Press == [for : Tick, no : 0..MaxTurns]

Put(f, k, v) == [x \in DOMAIN f \cup {k} |-> IF x = k THEN v ELSE f[x]]
KeepTo(f, t) == RestrictDomain(f, LAMBDA u : u <= t)
KeepFrom(f, t) == RestrictDomain(f, LAMBDA u : u >= t)
Later(a, b) == IF a > b THEN a ELSE b

(* prune_input_queue, at the end of a tick. *)
Pruned(q, t) == IF t > Window THEN KeepFrom(q, t - Window) ELSE q

-----------------------------------------------------------------------------
(* THE CLIENT *)

(* Mutant: the oldest tick of the packet is left out. *)
CarriedOneShort(q, t) == {q[u] : u \in DOMAIN q \cap (t - Red + 2)..t}

(* The presses send_local_input puts in the packet of tick t. *)
Carried(q, t) == {q[u] : u \in DOMAIN q \cap (t - Red + 1)..t}

(* A tick of the client: the game's press, the packet, the pruning. *)
ClientTick ==
  LET t == clock + 1
      p == [for |-> t, no |-> epoch]
      q == Put(mine, t, p)
  IN  /\ clock < MaxTick /\ Cardinality(net) < MaxFlight
      /\ clock' = t
      /\ mine' = Pruned(q, t)
      /\ net' = net \cup {[at |-> t, no |-> epoch, presses |-> Carried(q, t)]}
      /\ owed' = Put(owed, t, p)
      /\ UNCHANGED <<epoch, host, used, filed, lost>>

(* handle_server_snapshot, behind the host: a lead is acquired outright, without a *)
(* press for the ticks between.                                                    *)
Leap ==
  /\ clock <= tick /\ tick + Lead <= MaxTick /\ epoch < MaxTurns
  /\ \E snapshot \in Later(clock, 1)..tick : clock' = snapshot + Lead
  /\ mine' = Pruned(mine, clock') /\ epoch' = epoch + 1
  /\ owed' = KeepTo(owed, clock - Red + 1)
  /\ UNCHANGED <<net, host, used, filed, lost>>

(* snap_back: an excess of lead is given back, and the presses of the ticks past the *)
(* new end are forgotten (forget_local_inputs_after).                                *)
SnapBack(end) ==
  /\ end < clock /\ end >= tick /\ epoch < MaxTurns
  /\ clock' = end /\ mine' = KeepTo(mine, end) /\ epoch' = epoch + 1
  /\ owed' = KeepTo(owed, end)
  /\ UNCHANGED <<net, host, used, filed, lost>>

-----------------------------------------------------------------------------
(* THE HOST *)

(* What collect_network_inputs refuses. *)
Refused(p) == p.for + Window < tick \/ p.for > tick + MaxLead

(* Mutant: a late press is filed under its own tick only. *)
FiledNoFill(q, seen, p) == Put(q, p.for, p)

(* The queue after collect_network_inputs took a press: under its tick, and under the *)
(* next to run if that has passed and no newer was seen.                              *)
Filed(q, seen, p) ==
  LET at == Put(q, p.for, p)
  IN  IF p.for > seen /\ p.for <= tick THEN Put(at, tick + 1, p) ELSE at

(* forward_received_inputs: a packet's presses in ascending order, each through        *)
(* collect_network_inputs; again if the transport doubles it.                          *)
Arrive(m, again) ==
  LET refused == {p \in m.presses : Refused(p)}
      taken == SetToSortSeq(m.presses \ refused, LAMBDA a, b : a.for < b.for)
      after == FoldLeft(LAMBDA h, p : [queue  |-> Filed(h.queue, h.newest, p),
                                       newest |-> Later(h.newest, p.for)],
                        [queue |-> queue, newest |-> newest], taken)
  IN  /\ net' = IF again THEN net ELSE net \ {m}
      /\ queue' = after.queue /\ newest' = after.newest
      /\ filed' = filed \cup ToSet(taken)
      /\ lost' = IF again \/ refused = {} THEN lost
                 ELSE lost \cup {[m EXCEPT !.presses = refused]}
      /\ UNCHANGED <<client, tick, used, owed>>

(* The unreliable transport loses a packet. *)
Lose(m) ==
  /\ net' = net \ {m} /\ lost' = lost \cup {m}
  /\ UNCHANGED <<client, host, used, filed, owed>>

(* The history that the window still reaches. *)
Recent(t) ==
  /\ filed' = {p \in filed : p.for + Window >= t}
  /\ lost' = {m \in lost : \E p \in m.presses : p.for + Window >= t}
  /\ owed' = KeepFrom(owed, t - Window)

(* The tick whose press tick t uses: the one InputQueue::at_tick has for it, or the one *)
(* used last, the held key that consumers fall back to.                                *)
UsedAt(t) == IF t \in DOMAIN queue THEN queue[t].for ELSE used

(* A tick of the host: the simulation reads the client's input, the queue is pruned. *)
HostTick ==
  /\ tick < MaxTick /\ tick < clock + MaxBehind
  /\ tick' = tick + 1
  /\ used' = UsedAt(tick')
  /\ queue' = Pruned(queue, tick')
  /\ Recent(tick')
  /\ UNCHANGED <<client, net, newest>>

-----------------------------------------------------------------------------
(* JOINS *)

(* PerPeer::forget, and SessionReset, of the queue and the mark. *)
Forgotten == queue' = <<>> /\ newest' = 0

(* The client is let go of and joins again, with the host's clock at t: its packets   *)
(* went with the link, and it leads again from the first snapshot.                    *)
Joins(t) ==
  /\ epoch < MaxTurns
  /\ Forgotten
  /\ tick' = t /\ clock' = t + Lead /\ clock' <= MaxTick
  /\ mine' = <<>> /\ epoch' = epoch + 1 /\ net' = {}
  /\ used' = 0 /\ filed' = {} /\ lost' = {} /\ owed' = <<>>

Rejoin == Joins(tick)

(* The host went through a door of the session, and the client joined the new one. *)
NewSession == tick > 0 /\ Joins(0)

-----------------------------------------------------------------------------
Init ==
  /\ tick = 0 /\ clock = Lead /\ mine = <<>> /\ epoch = 0 /\ net = {}
  /\ queue = <<>> /\ newest = 0
  /\ used = 0 /\ filed = {} /\ lost = {} /\ owed = <<>>

Next ==
  \/ ClientTick \/ Leap \/ HostTick \/ Rejoin \/ NewSession
  \/ \E end \in Tick : SnapBack(end)
  \/ \E m \in net : Lose(m)
  \/ \E m \in net, again \in BOOLEAN : Arrive(m, again)

Spec == Init /\ [][Next]_vars

-----------------------------------------------------------------------------
(* PROPERTIES *)

(* Every variable has its type, and neither queue outgrows its window: what a client *)
(* sends cannot fill the host's (server.rs:270-287, input.rs:196-206).               *)
TypeOK ==
  /\ clock \in Tick /\ tick \in Tick /\ newest \in Tick /\ used \in Tick
  /\ epoch \in 0..MaxTurns
  /\ \A q \in {mine, queue, owed} : \A t \in DOMAIN q : t \in 0..(MaxTick + 1) /\ q[t] \in Press
  /\ filed \subseteq Press /\ newest <= tick + MaxLead
  /\ DOMAIN queue \subseteq (tick - Window)..(tick + Later(MaxLead, 1))
  /\ DOMAIN mine \subseteq (clock - Window)..clock

(* The host never uses the press of an earlier tick after that of a later one, though *)
(* packets overtake each other and come twice (server.rs:262-268).                    *)
UsedInOrder == [][tick' = tick + 1 => used' >= used]_vars

(* What the host's next tick will use is the newest press that has come for it or     *)
(* for a tick before it: a press that came in time is used for its own tick, and one  *)
(* that came late for the next, so that a change of direction is never skipped        *)
(* (server.rs:250-268).  Not said of a late one when a press for a tick further ahead *)
(* was seen before it: then it is taken for a straggler.                              *)
NewestIsUsed ==
  LET due   == {p.for : p \in {q \in filed : q.for <= tick + 1}}
      ahead == newest > tick + 1 /\ tick + 1 \notin due
  IN  due # {} /\ ~ ahead => UsedAt(tick + 1) = Max(due)

(* A press the host has none of was in as many lost packets as a packet holds ticks:  *)
(* "up to two consecutive packet losses cost nothing" (client.rs:1133-1135).          *)
FewLossesCostNothing ==
  \A t \in DOMAIN owed :
    /\ t <= clock - Red + 1
    /\ \A p \in filed : p.for # t
    /\ \A m \in net : owed[t] \notin m.presses
    => Cardinality({m \in lost : owed[t] \in m.presses}) >= Red

(* Of the presses that came for a tick, the one made last is held for it: "The host   *)
(* keeps the newest input it holds for a tick ... and every one of those ticks is     *)
(* sent afresh" (client.rs:752-755).  The code keeps the one that came last.          *)
FreshPressIsHeld ==
  \A t \in DOMAIN queue : queue[t].for = t =>
    \A p \in filed : p.for = t => p.no <= queue[t].no
=============================================================================
