---------------------------- MODULE ChecksumExchange ----------------------------
(***************************************************************************)
(* Noticing a desync in a lockstep session, and telling the peers: the     *)
(* bounded log of world hashes (src/checksum.rs, and checksum_log.rs of    *)
(* bevy_ticked_lockstep_networking) and the exchange of them               *)
(* (checksum_exchange.rs), over joins, leaves and one change of host.      *)
(*                                                                         *)
(* A hash is abstracted to what can make two of one tick differ: whose     *)
(* rulings the tick ran on (line: the first host's, the second's, or a     *)
(* world a peer ran alone) and who has drifted from it (mark).             *)
(***************************************************************************)
EXTENDS Integers, Sequences, FiniteSets, FiniteSetsExt, SequencesExt

CONSTANTS
  Host, Client,     \* the peer that hosts first, the others
  Interval,         \* ChecksumLog::interval
  Capacity,         \* ChecksumLog::capacity
  SampleAlone,      \* whether peers sample without a lobby
  EarlyReports,     \* whether a report may arrive before the lobby is promoted
  LateReporters,    \* whether a survivor past the resume may be told to join again
  MaxTick, MaxJoins, MaxDrifts, \* bounds
  None

ASSUME ExchangeAssumption ==
  /\ {Interval, Capacity} \subseteq Nat \ {0}
  /\ {SampleAlone, EarlyReports, LateReporters} \subseteq BOOLEAN
  /\ {MaxTick, MaxJoins, MaxDrifts} \subseteq Nat
  /\ Host \notin Client /\ None \notin Client \cup {Host} \cup Nat

VARIABLES
  peers,   \* what each peer holds, see Alone
  hub,     \* the host
  session, \* the change of host: "stable" or "deciding", the last tick of the first line, who awaits a verdict
  wire,    \* the reports on their way; a lost one is never taken off
  missed,  \* history: the reports that arrived and were not compared
  joins, drifts

vars == <<peers, hub, session, wire, missed, joins, drifts>>

Peer == Client \cup {Host}

Ticks == 0..MaxTick

(* A peer without a lobby.  WorldHash::sample of its world is <<line, mark>>. *)
Alone ==
  [at |-> "out",       \* the lobby: out, pending, loading (until the join snapshot), in, gone
   clock |-> 0,        \* CurrentTick
   line |-> None, mark |-> None,
   roster |-> {},      \* the LockstepLobbyParticipants of its lobby
   log |-> <<>>,       \* ChecksumLog::samples
   parked |-> {},      \* PendingChecksumReports
   announced |-> None, \* LastAnnouncedChecksum
   desync |-> None]    \* Desync

Hosting == [Alone EXCEPT !.at = "in", !.line = 1]

Init ==
  /\ peers = [p \in Peer |-> IF p = Host THEN Hosting ELSE Alone]
  /\ hub = Host /\ session = [phase |-> "stable", resume |-> None, awaiting |-> {}]
  /\ wire = {} /\ missed = {} /\ joins = 0 /\ drifts = 0

-----------------------------------------------------------------------------
(* THE LOG *)

(* WorldHash::sample *)
Sample(p) == [line |-> p.line, mark |-> p.mark]

(* ChecksumLog::record *)
Recorded(log, tick, world) ==
  LET longer == Append(log, [tick |-> tick, world |-> world])
  IN  IF Len(longer) > Capacity THEN Tail(longer) ELSE longer

SampledTicks(log) == {log[i].tick : i \in DOMAIN log}

(* ChecksumLog::at *)
At(log, tick) == (CHOOSE s \in ToSet(log) : s.tick = tick).world

(* A tick of p, run in the world of line. *)
Ticked(p, line) ==
  LET q == [p EXCEPT !.clock = @ + 1, !.line = line]
      sampled == q.clock % Interval = 0 /\ (SampleAlone \/ q.at \in {"loading", "in"})
  IN  IF sampled THEN [q EXCEPT !.log = Recorded(@, q.clock, Sample(q))] ELSE q

-----------------------------------------------------------------------------
(* THE SESSION, as the exchange sees it *)

Held == session.phase = "deciding"

(* Whose ruling a tick of the session is. *)
LineOf(tick) == IF session.resume # None /\ tick > session.resume THEN 2 ELSE 1

RuledThrough == IF session.resume = None THEN peers[hub].clock ELSE Max({session.resume, peers[hub].clock})

TickInSession(p) ==
  /\ peers[p].at = "in" /\ peers[p].clock < MaxTick
  /\ ~Held /\ p \notin session.awaiting
  /\ p = hub \/ peers[p].clock < RuledThrough
  /\ peers' = [peers EXCEPT ![p] = Ticked(@, LineOf(@.clock + 1))]
  /\ UNCHANGED <<hub, session, wire, missed, joins, drifts>>

TickAlone(p) ==
  /\ peers[p].at = "out" /\ SampleAlone /\ peers[p].clock < MaxTick /\ joins < MaxJoins
  /\ peers' = [peers EXCEPT ![p] = Ticked(@, None)]
  /\ UNCHANGED <<hub, session, wire, missed, joins, drifts>>

(* A peer's simulation goes its own way, from here on. *)
Drift(p) ==
  /\ peers[p].at = "in" /\ peers[p].mark = None /\ drifts < MaxDrifts
  /\ peers' = [peers EXCEPT ![p].mark = p]
  /\ drifts' = drifts + 1
  /\ UNCHANGED <<hub, session, wire, missed, joins>>

Connect(c) ==
  /\ peers[c].at = "out" /\ joins < MaxJoins
  /\ peers' = [peers EXCEPT ![c].at = "pending"]
  /\ joins' = joins + 1
  /\ UNCHANGED <<hub, session, wire, missed, drifts>>

Promoted(c) ==
  /\ peers[c].at = "pending"
  /\ peers' = [peers EXCEPT ![c].at = "loading"]
  /\ UNCHANGED <<hub, session, wire, missed, joins, drifts>>

ForgetSamplesOnJoin(p) == [p EXCEPT !.log = <<>>, !.parked = {}, !.announced = None]

(* The join snapshot: the host's world and clock replace the joiner's. *)
Join(c) ==
  /\ peers[c].at = "loading" /\ ~Held
  /\ peers' = [peers EXCEPT ![c] =
       ForgetSamplesOnJoin([@ EXCEPT !.at = "in", !.clock = peers[hub].clock,
                                     !.line = peers[hub].line, !.mark = peers[hub].mark])]
  /\ UNCHANGED <<hub, session, wire, missed, joins, drifts>>

(* The host has heard that c has loaded, and says so to every participant. *)
Accept(c) ==
  /\ peers[c].at = "in" /\ c # hub /\ c \notin peers[hub].roster \cup session.awaiting /\ ~Held
  /\ LET roster == peers[hub].roster \cup {c, hub}
     IN  peers' = [p \in Peer |-> IF p \in roster THEN [peers[p] EXCEPT !.roster = roster] ELSE peers[p]]
  /\ UNCHANGED <<hub, session, wire, missed, joins, drifts>>

ForgetDesyncOnLobbyRemoved(p) ==
  [p EXCEPT !.parked = {}, !.announced = None, !.log = <<>>, !.desync = None]

Leave(c) ==
  /\ c # hub /\ peers[c].at \in {"pending", "loading", "in"} /\ ~Held
  /\ peers' = [peers EXCEPT
       ![c] = [ForgetDesyncOnLobbyRemoved(@) EXCEPT !.at = "out", !.line = None, !.roster = {}],
       ![hub].roster = @ \ {c}]
  /\ session' = [session EXCEPT !.awaiting = @ \ {c}]
  /\ wire' = {r \in wire : c \notin {r.to, r.from}}
  /\ UNCHANGED <<hub, missed, joins, drifts>>

-----------------------------------------------------------------------------
(* THE EXCHANGE *)

Report(from, to, sample) == [from |-> from, to |-> to, tick |-> sample.tick, world |-> sample.world]

(* The clients a LobbyMessage of the host's reaches. *)
Listeners ==
  {c \in Client \ {hub} : peers[c].at \in {"loading", "in"} \/ (EarlyReports /\ peers[c].at = "pending")}

AnnounceChecksum ==
  LET newest == Last(peers[hub].log)
  IN  /\ peers[hub].desync = None /\ peers[hub].log # <<>>
      /\ peers[hub].announced # newest.tick
      /\ peers' = [peers EXCEPT ![hub].announced = newest.tick]
      /\ wire' = wire \cup {Report(hub, c, newest) : c \in Listeners}
      /\ UNCHANGED <<hub, session, missed, joins, drifts>>

(* Only a participant's report is compared; a peer that has no lobby yet cannot tell. *)
Heard(p, arrivals) == {r \in arrivals : peers[p].at = "pending" \/ r.from \in peers[p].roster}

(* Mutant: only what has just arrived is looked at, and nothing is parked. *)
WaitsMutant(p, r) == FALSE

(* A report that waits: for a tick past the newest sample, and never at the host. *)
Waits(p, r) == p # hub /\ (peers[p].log = <<>> \/ r.tick > Last(peers[p].log).tick)

Differs(p, r) == r.tick \in SampledTicks(peers[p].log) /\ At(peers[p].log, r.tick) # r.world

Earliest(reports) == {r \in reports : \A s \in reports : r.tick <= s.tick}

Latched(p, r) ==
  [peers[p] EXCEPT !.desync = [from |-> r.from, tick |-> r.tick, hub |-> hub,
                               left |-> At(peers[p].log, r.tick), right |-> r.world]]

(* A client tells its host what it saw. *)
Answer(p, r) ==
  IF p # hub /\ peers[p].at \in {"loading", "in"}
  THEN {Report(p, hub, [tick |-> r.tick, world |-> At(peers[p].log, r.tick)])}
  ELSE {}

CompareArrivedChecksums(p, arrivals) ==
  LET reports   == peers[p].parked \cup Heard(p, arrivals)
      differing == {r \in reports : Differs(p, r)}
      waiting   == {r \in reports : r.tick \notin SampledTicks(peers[p].log) /\ Waits(p, r)}
  IN  IF peers[p].desync # None
      THEN /\ peers' = [peers EXCEPT ![p].parked = {}]
           /\ wire' = wire \ arrivals
      ELSE IF differing = {}
      THEN /\ peers' = [peers EXCEPT ![p].parked = waiting]
           /\ wire' = wire \ arrivals
      ELSE \E r \in Earliest(differing) :
           /\ peers' = [peers EXCEPT ![p] = [Latched(p, r) EXCEPT !.parked = waiting]]
           /\ wire' = (wire \ arrivals) \cup Answer(p, r)

Compare(p) ==
  \E arrivals \in SUBSET {r \in wire : r.to = p} :
    /\ arrivals # {} \/ peers[p].parked # {}
    /\ peers[p].at \in {"pending", "loading", "in"}
    /\ CompareArrivedChecksums(p, arrivals)
    /\ missed' = missed \cup (arrivals \ Heard(p, arrivals))
    /\ UNCHANGED <<hub, session, joins, drifts>>

-----------------------------------------------------------------------------
(* A CHANGE OF HOST *)

Established(c) == peers[c].at = "in" /\ c \in peers[c].roster

(* The host goes, one that was established takes over; who was joining starts again. *)
ChangeHost(n) ==
  /\ hub = Host /\ Established(n)
  /\ hub' = n
  /\ session' = [phase |-> "deciding", resume |-> None,
                 awaiting |-> {c \in Client \ {n} : peers[c].at = "in" /\ Established(c)}]
  /\ peers' = [p \in Peer |->
       IF p = Host THEN [Alone EXCEPT !.at = "gone", !.clock = peers[p].clock]
       ELSE IF peers[p].at = "in" /\ ~Established(p) THEN [peers[p] EXCEPT !.at = "loading"]
       ELSE peers[p]]
  /\ wire' = {}
  /\ UNCHANGED <<missed, joins, drifts>>

(* Mutant: the reports parked by the change of host are kept. *)
ForgetReportsPastResumeMutant(p, resume) == p

ForgetReportsPastResume(p, resume) == [p EXCEPT !.parked = {r \in @ : r.tick <= resume}]

(* decide_resume_tick: between what the new host has run and what the old one ruled. *)
Decide ==
  /\ session.phase = "deciding"
  /\ \E resume \in peers[hub].clock..peers[Host].clock :
       /\ LateReporters \/ \A c \in session.awaiting : peers[c].clock <= resume
       /\ session' = [session EXCEPT !.phase = "stable", !.resume = resume]
       /\ peers' = [peers EXCEPT ![hub] =
            [ForgetReportsPastResume(@, resume) EXCEPT
               !.roster = {hub} \cup {c \in session.awaiting : peers[c].clock <= resume}]]
  /\ UNCHANGED <<hub, wire, missed, joins, drifts>>

(* apply_migration_verdict: go on, or join again for one past the resume or unheard. *)
TakeVerdict(c) ==
  /\ c \in session.awaiting /\ ~Held
  /\ LET past == {r \in peers[c].parked : r.tick > session.resume}
         q == ForgetReportsPastResume(peers[c], session.resume)
     IN  /\ missed' = missed \cup past
         /\ \/ /\ c \in peers[hub].roster
               /\ peers' = [peers EXCEPT ![c] = q]
            \/ peers' = [peers EXCEPT ![c] = [q EXCEPT !.at = "loading"], ![hub].roster = @ \ {c}]
  /\ session' = [session EXCEPT !.awaiting = @ \ {c}]
  /\ UNCHANGED <<hub, wire, joins, drifts>>

-----------------------------------------------------------------------------
Next ==
  \/ \E p \in Peer : TickInSession(p) \/ Drift(p) \/ Compare(p)
  \/ \E c \in Client :
       TickAlone(c) \/ Connect(c) \/ Promoted(c) \/ Join(c) \/ Accept(c) \/ Leave(c)
       \/ ChangeHost(c) \/ TakeVerdict(c)
  \/ AnnounceChecksum \/ Decide

Spec == Init /\ [][Next]_vars

-----------------------------------------------------------------------------
World == [line : {None, 1, 2}, mark : Peer \cup {None}]
Reports == [from : Peer, to : Peer, tick : Ticks, world : World]
Desyncs == [from : Peer, tick : Ticks, hub : Peer, left : World, right : World]

ASSUME NoneIsNoDesync == None \notin Desyncs

TypeOK ==
  /\ peers \in [Peer -> [at : {"out", "pending", "loading", "in", "gone"}, clock : Ticks,
                         line : {None, 1, 2}, mark : Peer \cup {None}, roster : SUBSET Peer,
                         log : Seq([tick : Ticks, world : World]), parked : SUBSET Reports,
                         announced : Ticks \cup {None},
                         desync : Desyncs \cup {None}]]
  /\ hub \in Peer /\ wire \subseteq Reports /\ missed \subseteq Reports
  /\ session \in [phase : {"stable", "deciding"}, resume : Ticks \cup {None}, awaiting : SUBSET Client]

(* A desync is only ever reported between two peers that ran the same tick on the    *)
(* same rulings: never against a world run alone, nor against what a host that is    *)
(* gone ruled (forget_samples_on_join, forget_reports_past_resume, and who is heard). *)
NoFalseAlarm ==
  \A p \in Peer : peers[p].desync # None => peers[p].desync.left.line = peers[p].desync.right.line

(* A report that was heard and has nothing more to wait for. *)
Settled(r) ==
  /\ r \notin wire \cup missed
  /\ r \notin peers[r.to].parked \/ r.tick \notin SampledTicks(peers[r.to].log)

(* Once the newest sample of the host has been announced and has been heard, a client *)
(* that sampled another world at that tick has said so: parking, the cadence and the  *)
(* bound of the log never let a divergence pass for agreement (announce_checksum,     *)
(* compare_arrived_checksums).                                                        *)
DriftIsFound ==
  LET newest == Last(peers[hub].log)
  IN  ~Held /\ peers[hub].log # <<>> /\ peers[hub].announced = newest.tick =>
        \A c \in Client \ {hub} :
          /\ peers[c].at = "in" /\ c \notin session.awaiting
          /\ Settled(Report(hub, c, newest)) /\ Differs(c, Report(hub, c, newest))
          => peers[c].desync # None

(* What a client found of its host's world its host knows too, once the answer has    *)
(* been heard and while the host still has the sample.                                *)
HostLearns ==
  \A c \in Client \ {hub} :
    LET found == peers[c].desync
    IN  /\ found # None /\ found.from = hub /\ peers[c].at = "in" /\ ~Held
        /\ found.tick \in SampledTicks(peers[hub].log)
        /\ Report(c, hub, [tick |-> found.tick, world |-> found.left]) \notin wire \cup missed
        => peers[hub].desync # None

=============================================================================
