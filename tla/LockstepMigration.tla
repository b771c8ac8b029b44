---------------------------- MODULE LockstepMigration ----------------------------
(***************************************************************************)
(* A lockstep session that outlives its host (migration.rs of the crate    *)
(* bevy_ticked_lockstep_networking).  The old host rules ticks and goes,   *)
(* with rulings sent to some and not yet to others.  One client is named   *)
(* host; every survivor holds its clock, reaches the new host, and reports *)
(* the rulings it holds.  The new host decides the last tick the old one   *)
(* is taken to have ruled, fills in who lacks a ruling up to it, and rules *)
(* from the tick after it.                                                 *)
(*                                                                         *)
(* Every peer joined at tick zero and takes an action on every tick it     *)
(* runs, numbered by that tick.  Links are reliable and ordered, and what  *)
(* is on its way to or from the old host is lost when a peer learns it is  *)
(* gone.  A batch reaches the old host at once: it may rule late, which is *)
(* the same.  Who must join again does it as in Lockstep, and is not       *)
(* followed here.                                                          *)
(***************************************************************************)
EXTENDS Naturals, Sequences, FiniteSets, FiniteSetsExt, Functions, SequencesExt

CONSTANTS
  Old, New,      \* the host that goes, and the client named in its place
  Survivor,      \* the other clients
  Buffer,        \* client_tick_buffer
  Grace,         \* host_tick_buffer
  Horizon,       \* LockstepConfig::action_horizon
  TrustWindow,   \* HostMigrationPolicy::trust_window
  MaxTick,       \* bound on the clocks
  MaxDrops,      \* bound: survivors whose link to the new host fails
  Timeouts,      \* whether report_timeout may pass before all have reported
  EarlyHandover  \* whether the old host may go while a buffer window is open

Peer == Survivor \cup {New}

ASSUME MigrationAssumption ==
  /\ Old \notin Peer /\ New \notin Survivor
  /\ {Buffer, Grace, Horizon, TrustWindow, MaxTick, MaxDrops} \subseteq Nat /\ Grace >= Buffer
  /\ {Timeouts, EarlyHandover} \subseteq BOOLEAN

VARIABLES
  clock,         \* CurrentTick
  tracker,       \* ActionTracker: tick -> the players' actions, and who leaves
  unruled,       \* UnruledLocalActions: tick -> actions
  last,          \* LastScheduledTick; zero before the first flush
  mode,          \* LockstepMigration, and whether the peer is still in the session
  floor,         \* LockstepMigration::Resuming's resume_after + 1; zero otherwise
  inbox,         \* host to client: rulings and the verdict
  parked,        \* ParkedVerdict: none or one
  toHost,        \* client to the new host: rulings, reports and batches
  old,           \* the old host: its tracker, what it has ruled, whether it is there
  participants,  \* LockstepLobbyParticipant of the clients, on the new host
  collected,     \* MigrationCollection: rulings and reports
  lastBroadcast, \* LastBroadcastTick of the new host
  departures,    \* PendingSystemActions of the new host
  resumeAfter,   \* LastMigration, on the new host; zero before
  ran,           \* history: what each peer ran, tick by tick
  sent,          \* history: the tick each action was scheduled for
  kept,          \* history: the actions a peer held unruled past the resume
  drops          \* bound

clientVars == <<unruled, last, floor, parked, sent>>
hostVars   == <<participants, collected, lastBroadcast, departures, resumeAfter>>
netVars    == <<inbox, toHost>>
vars == <<clock, tracker, mode, clientVars, hostVars, netVars, old, ran, kept, drops>>

-----------------------------------------------------------------------------
Put(f, k, v) == [x \in DOMAIN f \cup {k} |-> IF x = k THEN v ELSE f[x]]
KeepTo(f, t) == RestrictDomain(f, LAMBDA u : u <= t)
KeepAfter(f, t) == RestrictDomain(f, LAMBDA u : u > t)
Later(a, b) == IF a > b THEN a ELSE b
Actions(f, k) == IF k \in DOMAIN f THEN f[k] ELSE <<>>

(* A tick as a tracker holds it: what the players do, and who leaves. *)
NoEntry == [players |-> <<>>, left |-> {}]
Entry(f, t) == IF t \in DOMAIN f THEN f[t] ELSE NoEntry
Ruling(t, e) == [type |-> "ruling", tick |-> t, entry |-> e]

(* insert_actions_into_tracker *)
Inserted(f, t, p, acts) ==
  Put(f, t, [Entry(f, t) EXCEPT !.players = Put(@, p, Actions(@, p) \o acts)])

(* ActionTracker::newest_tick, or the clock. *)
Newest(p) == Max(DOMAIN tracker[p] \cup {clock[p]})

(* The new host has decided, and rules. *)
Hosting == mode[New] = "hosting"

Init ==
  /\ clock = [p \in Peer |-> 0] /\ tracker = [p \in Peer |-> <<>>]
  /\ unruled = [p \in Peer |-> <<>>] /\ last = [p \in Peer |-> 0]
  /\ mode = [p \in Peer |-> "playing"] /\ floor = [p \in Peer |-> 0]
  /\ inbox = [p \in Peer |-> <<>>] /\ parked = [p \in Peer |-> {}]
  /\ toHost = [p \in Survivor |-> <<>>]
  /\ old = [here |-> TRUE, ruled |-> 0, tracker |-> <<>>]
  /\ participants = Survivor /\ collected = [rulings |-> <<>>, reports |-> <<>>]
  /\ lastBroadcast = 0 /\ departures = {} /\ resumeAfter = 0
  /\ ran = [p \in Peer |-> <<>>] /\ sent = [p \in Peer |-> <<>>]
  /\ kept = [p \in Peer |-> {}] /\ drops = 0

-----------------------------------------------------------------------------
(* THE OLD HOST *)

(* The old host runs its next tick and broadcasts the ruling, once it has the word of *)
(* every client past its buffer window.                                               *)
OldRules ==
  LET t == old.ruled + 1
  IN  /\ old.here /\ t < MaxTick
      /\ t > Grace => \A p \in Peer : p \in DOMAIN Entry(old.tracker, t).players
      /\ old' = [old EXCEPT !.ruled = t]
      /\ inbox' = [p \in Peer |-> Append(inbox[p], Ruling(t, [Entry(old.tracker, t) EXCEPT
                     !.players = [q \in Peer |-> Actions(@, q)]]))]
      /\ UNCHANGED <<clock, tracker, mode, clientVars, hostVars, toHost, ran, kept, drops>>

(* It goes. *)
OldGoes ==
  /\ old.here
  /\ EarlyHandover \/ \A p \in Peer : Newest(p) >= Grace
  /\ old' = [old EXCEPT !.here = FALSE]
  /\ UNCHANGED <<clock, tracker, mode, clientVars, hostVars, netVars, ran, kept, drops>>

-----------------------------------------------------------------------------
(* A CLIENT *)

(* receive_authoritative_actions *)
ReceiveRuling(p) ==
  /\ inbox[p] # <<>> /\ Head(inbox[p]).type = "ruling"
  /\ LET m == Head(inbox[p])
         e == Entry(tracker[p], m.tick)
     IN  tracker' = [tracker EXCEPT ![p] = Put(@, m.tick,
           [players |-> m.entry.players @@ e.players,
            left    |-> IF m.entry.left = {} THEN e.left ELSE m.entry.left])]
  /\ inbox' = [inbox EXCEPT ![p] = Tail(@)]
  /\ UNCHANGED <<clock, mode, clientVars, hostVars, toHost, old, ran, kept, drops>>

(* The batches of flush_pending_actions: the ticks it skips, then its own. *)
Flush(l, at, acts) ==
  [i \in 1..(IF l > 0 /\ at > l + 1 THEN at - l - 1 ELSE 0) |-> [tick |-> l + i, actions |-> <<>>]]
    \o <<[tick |-> at, actions |-> acts]>>

Batch(b) == [type |-> "batch", tick |-> b.tick, actions |-> b.actions]

(* What a peer ran at a tick: the actions of who took any, and who left. *)
Ran(e) == [players |-> RestrictValues(e.players, LAMBDA a : a # <<>>), left |-> e.left]

(* cleanup_old_tracker_entries, on a client: what a ruling it holds covers is ruled. *)
StillUnruled(u, newest) == KeepAfter(u, newest)

(* cleanup_old_tracker_entries: the ticks that are kept. *)
Retained(f, t, window) == RestrictDomain(f, LAMBDA u : u + window >= t)

(* A pass of a client's tick loop. *)
ClientPass(p) ==
  LET next == clock[p] + 1
      at   == Later(next + Buffer, floor[p])
      acts == <<next>>
      said == Flush(last[p], at, acts)
  IN  /\ mode[p] = "playing"
      /\ next \in DOMAIN tracker[p]
      /\ clock' = [clock EXCEPT ![p] = next]
      /\ ran' = [ran EXCEPT ![p] = Put(@, next, Ran(tracker[p][next]))]
      /\ last' = [last EXCEPT ![p] = Later(@, at)]
      /\ sent' = [sent EXCEPT ![p] = Put(@, next, at)]
      /\ IF floor[p] > 0
         THEN toHost' = [toHost EXCEPT ![p] = @ \o [i \in DOMAIN said |-> Batch(said[i])]] /\ UNCHANGED old
         ELSE old' = (IF old.here
                      THEN [old EXCEPT !.tracker = FoldLeft(LAMBDA f, b : Inserted(f, b.tick, p, b.actions), @, said)]
                      ELSE old) /\ UNCHANGED toHost
      /\ unruled' = [unruled EXCEPT ![p] = StillUnruled(Put(@, at, Actions(@, at) \o acts), Newest(p))]
      /\ tracker' = [tracker EXCEPT ![p] = Retained(@, next, TrustWindow)]
      /\ UNCHANGED <<mode, floor, parked, hostVars, inbox, kept, drops>>

(* begin_migration, on a client: the link to the old host is gone. *)
BeginReporting(p) ==
  /\ p \in Survivor /\ ~old.here /\ mode[p] = "playing" /\ floor[p] = 0
  /\ mode' = [mode EXCEPT ![p] = "reporting"]
  /\ inbox' = [inbox EXCEPT ![p] = <<>>]
  /\ UNCHANGED <<clock, tracker, clientVars, hostVars, toHost, old, ran, kept, drops>>

(* report_to_new_host, once it is reached. *)
Report(p) ==
  /\ mode[p] = "reporting" /\ mode[New] # "playing"
  /\ mode' = [mode EXCEPT ![p] = "reported"]
  /\ toHost' = [toHost EXCEPT ![p] =
       <<[type |-> "rulings", held |-> tracker[p]],
         [type |-> "report", current |-> clock[p], newest |-> Newest(p)]>>]
  /\ UNCHANGED <<clock, tracker, clientVars, hostVars, inbox, old, ran, kept, drops>>

(* apply_migration_verdict parks what has arrived, after the rulings of its frame. *)
ReceiveVerdict(p) ==
  /\ inbox[p] # <<>> /\ Head(inbox[p]).type = "verdict"
  /\ parked' = [parked EXCEPT ![p] = {Head(inbox[p])}]
  /\ inbox' = [inbox EXCEPT ![p] = Tail(@)]
  /\ UNCHANGED <<clock, tracker, unruled, last, floor, sent, mode, hostVars, toHost, old, ran, kept, drops>>

(* What the old host ruled past the resume never happened. *)
Cut(f, now, t) == KeepTo(f, t)

(* Mutant: the ticks are said again, without what was done on them. *)
SaidAgainEmpty(u, t, through) == [i \in 1..(through - t) |-> [tick |-> t + i, actions |-> <<>>]]

(* Every tick that was said to the old host past the resume, said again. *)
SaidAgain(u, t, through) ==
  [i \in 1..(through - t) |-> [tick |-> t + i, actions |-> Actions(u, t + i)]]

(* apply_migration_verdict: Continue, once the rulings it refers to are here. *)
Continue(p, v) ==
  LET t       == v.after
      through == Later(last[p], t + 1 + Buffer)
      said    == SaidAgain(unruled[p], t, through)
  IN  /\ v.continues
      /\ \A u \in (clock[p] + 1)..t : u \in DOMAIN tracker[p]
      /\ tracker' = [tracker EXCEPT ![p] = Cut(@, clock[p], t)]
      /\ toHost' = [toHost EXCEPT ![p] = @ \o [i \in DOMAIN said |-> Batch(said[i])]]
      /\ unruled' = [unruled EXCEPT ![p] = KeepAfter(@, t)]
      /\ last' = [last EXCEPT ![p] = through]
      /\ floor' = [floor EXCEPT ![p] = t + 1]
      /\ mode' = [mode EXCEPT ![p] = "playing"]
      /\ kept' = [kept EXCEPT ![p] = UNION {ToSet(unruled[p][u]) : u \in DOMAIN KeepAfter(unruled[p], t)}]

(* Rejoin, and restart_join. *)
StartOver(p, v) ==
  /\ ~v.continues
  /\ tracker' = [tracker EXCEPT ![p] = <<>>] /\ unruled' = [unruled EXCEPT ![p] = <<>>]
  /\ last' = [last EXCEPT ![p] = 0] /\ mode' = [mode EXCEPT ![p] = "joining"]
  /\ UNCHANGED <<toHost, floor, kept>>

ApplyVerdict(p) ==
  /\ mode[p] = "reported"
  /\ \E v \in parked[p] : Continue(p, v) \/ StartOver(p, v)
  /\ parked' = [parked EXCEPT ![p] = {}]
  /\ UNCHANGED <<clock, sent, hostVars, inbox, old, ran, drops>>

-----------------------------------------------------------------------------
(* THE NEW HOST *)

(* begin_migration, on the peer that is named host. *)
BeginCollecting ==
  /\ ~old.here /\ mode[New] = "playing"
  /\ mode' = [mode EXCEPT ![New] = "collecting"]
  /\ inbox' = [inbox EXCEPT ![New] = <<>>]
  /\ lastBroadcast' = Newest(New)
  /\ UNCHANGED <<clock, tracker, clientVars, participants, collected, departures, resumeAfter, toHost,
                 old, ran, kept, drops>>


(* receive_client_actions: nothing while collecting, nothing that is ruled, nothing *)
(* past the horizon, nothing of who is no participant.                              *)
RuledThrough == Later(clock[New], lastBroadcast)
Accepts(p, t) == p \in participants /\ t > RuledThrough /\ t <= RuledThrough + Horizon

TakeBatch(p, m) ==
  /\ m.type = "batch"
  /\ tracker' = IF Accepts(p, m.tick) /\ Hosting
                THEN [tracker EXCEPT ![New] = Inserted(@, m.tick, p, m.actions)] ELSE tracker
  /\ UNCHANGED <<collected, inbox>>

(* collect_migration_reports: the first copy of a ruling stands; who reports when the *)
(* session has resumed is told to join again.                                         *)
Rejoin == [type |-> "verdict", after |-> resumeAfter, continues |-> FALSE]

TakeRulings(p, m) ==
  /\ m.type = "rulings"
  /\ collected' = IF mode[New] = "collecting" /\ p \in participants
                  THEN [collected EXCEPT !.rulings = @ @@ m.held] ELSE collected
  /\ UNCHANGED <<tracker, inbox>>

TakeReport(p, m) ==
  /\ m.type = "report"
  /\ IF mode[New] = "collecting"
     THEN /\ collected' = IF p \in participants THEN [collected EXCEPT !.reports = Put(@, p, m)] ELSE collected
          /\ UNCHANGED inbox
     ELSE inbox' = [inbox EXCEPT ![p] = Append(@, Rejoin)] /\ UNCHANGED collected
  /\ UNCHANGED tracker

HostReceive(p) ==
  /\ toHost[p] # <<>>
  /\ LET m == Head(toHost[p]) IN TakeBatch(p, m) \/ TakeRulings(p, m) \/ TakeReport(p, m)
  /\ toHost' = [toHost EXCEPT ![p] = Tail(@)]
  /\ UNCHANGED <<clock, mode, clientVars, participants, lastBroadcast, departures, resumeAfter, old,
                 ran, kept, drops>>

(* The clients with a seat in the new host's lobby. *)
Seats == {p \in Survivor : mode[p] \in {"reported", "joining"} \/ (mode[p] = "playing" /\ floor[p] > 0)}

(* The furthest ruled tick that can be assembled without a gap. *)
Assembled(own) ==
  Max({t \in own..(own + TrustWindow) : \A u \in (own + 1)..t : u \in DOMAIN collected.rulings})

(* Mutant: a survivor is sent what it lacks from the tick after its next. *)
MissingOneShort(r, t) == (Later(r.newest, r.current) + 2)..t

(* The ticks a survivor lacks. *)
Missing(r, t) == (Later(r.newest, r.current) + 1)..t

(* Who left in the rulings up to the resume: nobody, before there is a new host. *)
RosterAt == Peer \cup {Old}

(* Mutant: everything unruled is filed, ruled since or not. *)
FiledAll(f, u, t) == FoldSet(LAMBDA k, g : Inserted(g, k, New, u[k]), f, DOMAIN u)

(* What the new host had scheduled as a client goes into the ticks it rules. *)
FiledPast(f, u, t) == FoldSet(LAMBDA k, g : Inserted(g, k, New, u[k]), f, DOMAIN KeepAfter(u, t))

(* decide_resume_tick *)
Decide ==
  LET own   == Newest(New)
      t     == Assembled(own)
      held  == KeepTo(collected.rulings, t)
      known == tracker[New] @@ KeepAfter(held, own)
      reports == collected.reports
      goesOn(p) == /\ reports[p].current <= t
                   /\ \A u \in Missing(reports[p], t) : u \in DOMAIN known
                   /\ p \in RosterAt
      heard == DOMAIN reports \cap Seats
      going == {p \in heard : goesOn(p)}
      fill(p) == LET from == Min(Missing(reports[p], t) \cup {t + 1})
                 IN  [i \in 1..(t + 1 - from) |-> Ruling(from + i - 1, known[from + i - 1])]
      verdict(p) == [type |-> "verdict", after |-> t, continues |-> p \in going]
  IN  /\ mode[New] = "collecting"
      /\ Timeouts \/ participants \subseteq DOMAIN reports
      /\ tracker' = [tracker EXCEPT ![New] = FiledPast(known, unruled[New], t)]
      /\ unruled' = [unruled EXCEPT ![New] = <<>>]
      /\ kept' = [kept EXCEPT ![New] = UNION {ToSet(unruled[New][u]) : u \in DOMAIN KeepAfter(unruled[New], t)}]
      /\ lastBroadcast' = t /\ resumeAfter' = t
      /\ departures' = departures \cup (RosterAt \ (going \cup {New}))
      /\ participants' = participants \cap going
      /\ collected' = [rulings |-> <<>>, reports |-> <<>>]
      /\ inbox' = [p \in Peer |-> inbox[p] \o (IF p \notin heard THEN <<>>
                                               ELSE (IF p \in going THEN fill(p) ELSE <<>>) \o <<verdict(p)>>)]
      /\ mode' = [mode EXCEPT ![New] = "hosting"]
      /\ UNCHANGED <<clock, last, floor, parked, sent, toHost, old, ran, drops>>

(* A pass of the new host's loop through what its predecessor ruled: its own actions go *)
(* into the first tick it rules, and nothing is broadcast.                              *)
CatchUp ==
  LET next == clock[New] + 1
      at   == lastBroadcast + 1
  IN  /\ Hosting /\ next <= lastBroadcast /\ next \in DOMAIN tracker[New]
      /\ clock' = [clock EXCEPT ![New] = next]
      /\ ran' = [ran EXCEPT ![New] = Put(@, next, Ran(tracker[New][next]))]
      /\ tracker' = [tracker EXCEPT ![New] = Retained(Inserted(@, at, New, <<next>>), next, TrustWindow)]
      /\ last' = [last EXCEPT ![New] = at]
      /\ sent' = [sent EXCEPT ![New] = Put(@, next, at)]
      /\ UNCHANGED <<mode, unruled, floor, parked, hostVars, netVars, old, kept, drops>>

(* A pass that rules: every participant past its window has spoken, departures are *)
(* staged, and the ruling goes to every seat.                                      *)
Rule ==
  LET next == clock[New] + 1
      f    == Inserted(tracker[New], next, New, <<next>>)
      e    == [players |-> f[next].players @@ [p \in participants |-> <<>>], left |-> departures]
  IN  /\ Hosting /\ next > lastBroadcast /\ next <= MaxTick
      /\ next > Grace => \A p \in participants : p \in DOMAIN Entry(tracker[New], next).players
      /\ clock' = [clock EXCEPT ![New] = next]
      /\ ran' = [ran EXCEPT ![New] = Put(@, next, Ran(e))]
      /\ tracker' = [tracker EXCEPT ![New] = Retained(Put(f, next, e), next,
                       IF next <= resumeAfter THEN TrustWindow ELSE 0)]
      /\ last' = [last EXCEPT ![New] = next]
      /\ sent' = [sent EXCEPT ![New] = Put(@, next, next)]
      /\ departures' = {}
      /\ lastBroadcast' = next
      /\ inbox' = [p \in Peer |-> IF p \in Seats /\ mode[p] # "joining"
                                  THEN Append(inbox[p], Ruling(next, e)) ELSE inbox[p]]
      /\ UNCHANGED <<mode, unruled, floor, parked, participants, collected, resumeAfter, toHost, old,
                     kept, drops>>

(* A survivor's link to the new host fails, and its participant leaves. *)
Drop(p) ==
  /\ p \in Seats /\ mode[p] # "joining" /\ drops < MaxDrops
  /\ mode' = [mode EXCEPT ![p] = "gone"]
  /\ participants' = participants \ {p}
  /\ departures' = IF p \in participants THEN departures \cup {p} ELSE departures
  /\ inbox' = [inbox EXCEPT ![p] = <<>>] /\ toHost' = [toHost EXCEPT ![p] = <<>>]
  /\ drops' = drops + 1
  /\ UNCHANGED <<clock, tracker, clientVars, collected, lastBroadcast, resumeAfter, old, ran, kept>>

-----------------------------------------------------------------------------
Next ==
  \/ OldRules \/ OldGoes \/ BeginCollecting \/ Decide \/ CatchUp \/ Rule
  \/ \E p \in Peer : ReceiveRuling(p) \/ ClientPass(p)
  \/ \E p \in Survivor : \/ BeginReporting(p) \/ Report(p) \/ ReceiveVerdict(p) \/ ApplyVerdict(p)
                         \/ HostReceive(p) \/ Drop(p)

Spec == Init /\ [][Next]_vars

(* What the frames of the peers and the links do: nobody need lose its link. *)
FrameStep ==
  \/ BeginCollecting \/ Decide \/ CatchUp \/ Rule
  \/ \E p \in Peer : ReceiveRuling(p) \/ ClientPass(p)
  \/ \E p \in Survivor : \/ BeginReporting(p) \/ Report(p) \/ ReceiveVerdict(p) \/ ApplyVerdict(p)
                         \/ HostReceive(p)

-----------------------------------------------------------------------------
(* PROPERTIES *)

(* Who is in the session: everyone until the new host decides, then who goes on. *)
Standing == IF Hosting THEN participants \cup {New} ELSE Peer

(* Every variable has its type; a client keeps of its own only what no ruling it holds *)
(* covers, and of the rulings what the window says.                                    *)
TypeOK ==
  /\ clock \in [Peer -> 0..MaxTick]
  /\ mode \in [Peer -> {"playing", "reporting", "reported", "collecting", "hosting", "joining", "gone"}]
  /\ participants \subseteq Survivor /\ departures \subseteq Peer \cup {Old}
  /\ \A p \in Peer : \A t \in DOMAIN tracker[p] : tracker[p][t].left \subseteq Peer \cup {Old}
  /\ \A p \in Standing : \A t \in DOMAIN tracker[p] : t + TrustWindow >= clock[p]
  /\ lastBroadcast \in 0..MaxTick /\ resumeAfter \in 0..MaxTick
  /\ \A p \in Peer : Cardinality(parked[p]) <= 1

(* No two peers of the session run a tick with different rulings on it, whichever host *)
(* ruled it and whoever it was filled in from (migration.rs:17-29).                    *)
SameRulings ==
  \A p, q \in Standing : \A t \in DOMAIN ran[p] \cap DOMAIN ran[q] : ran[p][t] = ran[q][t]

(* What a peer had scheduled past the resume, and the old host never ruled on, is ruled *)
(* on by the new one, on the tick it was for, and once (migration.rs:24-29).            *)
KeptActionsAreRuled ==
  Hosting => \A p \in Standing : \A a \in kept[p] :
    sent[p][a] <= clock[New] =>
      Cardinality({i \in DOMAIN Actions(ran[New][sent[p][a]].players, p) :
                     Actions(ran[New][sent[p][a]].players, p)[i] = a}) = 1

(* No action of a peer that goes on is lost: "never into a tick the old host ruled: a    *)
(* survivor catching up to where the session resumed would otherwise schedule into ticks *)
(* that are final, and the new host would drop the batch as late" (actions.rs:148-151).  *)
NoActionLost ==
  Hosting => \A p \in Standing : \A a \in DOMAIN sent[p] :
    (sent[p][a] <= clock[New] /\ (p = New \/ floor[p] > 0)
       /\ \A i \in DOMAIN Actions(toHost, p) : toHost[p][i].type # "batch" \/ a \notin ToSet(toHost[p][i].actions))
      => a \in ToSet(Actions(ran[New][sent[p][a]].players, p))

(* Once the old host has gone, nothing stops but where it should: while a frame of some *)
(* peer has nothing to do and nothing is on its way, the new host has ruled to the last *)
(* tick and everyone still in the session has run it (migration.rs:19-29).  As no step  *)
(* can be taken for ever, the session resumes.                                          *)
NobodyIsStuck ==
  ~ old.here /\ ~ ENABLED FrameStep => \A p \in Standing : clock[p] = MaxTick
=================================================================================
