-------------------------- MODULE LockstepInvariants --------------------------
(***************************************************************************)
(* What LockstepProofs proves of Lockstep step by step: the types, the     *)
(* inductive invariants behind each theorem and the names they are stated  *)
(* with, in the order the proofs take them.                                *)
(***************************************************************************)
EXTENDS Lockstep

(* The actions of the players who took any: what Ran keeps of an entry.      *)
Acted(players) == RestrictValues(players, LAMBDA a : a # <<>>)

SysAct  == [kind : {"joined", "left"}, who : Peer] \cup [kind : {"pause", "resume"}]
Players == UNION {[D -> Seq(Nat)] : D \in SUBSET Peer}
RulingMsg == [type : {"ruling"}, tick : Nat, players : Players, system : Seq(SysAct)]
Msg     == RulingMsg \cup [type : {"participants"}, joins : SUBSET (Peer \X Nat)]
                     \cup [type : {"snapshot"}, tick : Nat]
Batch   == [tick : Nat, actions : Seq(Nat)]
Shake   == [type : {"request"}] \cup [type : {"loaded"}, buffer : Nat]

(* A tracker and some rulings that hold the actions a history does.          *)
Holds(players, t, history) == Acted(players) = history[t].players

HoldTheHistory(ticks, ms, history) ==
  /\ \A t \in DOMAIN ticks : ticks[t] \in Players /\ Holds(ticks[t], t, history)
  /\ ms \in Seq(RulingMsg)
  /\ \A i \in DOMAIN ms : Holds(ms[i].players, ms[i].tick, history)

HostTypes ==
  /\ clock \in [Peer -> Nat] /\ clock[Host] <= MaxTick
  /\ joinedAt \in [Peer -> Nat \cup {None}] /\ announced \subseteq Peer
  /\ departures \in Seq(SysAct) /\ hostBuffer \in HostBuffers
  /\ DOMAIN pendingJoin \subseteq Client
  /\ \A c \in DOMAIN pendingJoin : pendingJoin[c] \in Nat /\ pendingJoin[c] <= clock[Host]
  /\ asked \subseteq {"pause", "resume"}

(* What the host runs has gone out: it waits until a tick is complete.       *)
NothingIsOwed == lastBroadcast = clock[Host]

FlagTypes == paused \in [Peer -> BOOLEAN] /\ resumeStaged \in BOOLEAN

LogTypes ==
  /\ DOMAIN tracker = Peer /\ DOMAIN system = Peer /\ roster \in [Peer -> SUBSET Peer]
  /\ \A p \in Peer : /\ DOMAIN tracker[p] \subseteq Nat /\ DOMAIN system[p] \subseteq Nat
                     /\ \A t \in DOMAIN tracker[p] : tracker[p][t] \in Players
                     /\ \A t \in DOMAIN system[p] : system[p][t] \in Seq(SysAct)

ClientTypes ==
  /\ stage \in [Client -> {"out", "asking", "given", "loaded"}]
  /\ given \in [Client -> Nat \cup {None}] /\ lastScheduled \in [Client -> Nat \cup {None}]
  /\ \A c \in Client : /\ stage[c] = "given" => given[c] \in 0..MaxTick
                       /\ stage[c] = "loaded" => lastScheduled[c] \in Nat
  /\ buffer \in [Client -> Buffers] /\ stash \in [Client -> Seq(RulingMsg)]

NetTypes ==
  /\ batches \in [Client -> Seq(Batch)] /\ handshake \in [Client -> Seq(Shake)]
  /\ inbox \in [Client -> Seq(Msg)]
  /\ \A c \in Client : \A i \in DOMAIN inbox[c] :
       inbox[c][i].type = "snapshot" => inbox[c][i].tick <= MaxTick

HistoryTypes ==
  /\ DOMAIN ran = Peer /\ sent \in [Peer -> Seq(Nat)] /\ DOMAIN ran[Host] = 1..clock[Host]
  /\ \A p \in Peer : DOMAIN ran[p] \subseteq 1..MaxTick
  /\ \A c \in Client : clock[c] \in MenuClock \cup 0..MaxTick

TInv == HostTypes /\ NothingIsOwed /\ FlagTypes /\ LogTypes /\ ClientTypes /\ NetTypes /\ HistoryTypes

(* What a peer has, and nobody sent yet, is the host's ruling.               *)
IsTrue(m, now, history) ==
  m.type = "ruling" =>
    /\ m.tick \in 1..now
    /\ Acted(m.players) = history[m.tick].players
    /\ m.system = history[m.tick].system

RulingsAreTrue ==
  \A c \in Client : /\ \A i \in DOMAIN inbox[c] : IsTrue(inbox[c][i], clock[Host], ran[Host])
                    /\ \A i \in DOMAIN stash[c] : IsTrue(stash[c][i], clock[Host], ran[Host])

(* The host keeps what it ran as long as somebody may be told of it.         *)
HostKeeps ==
  \A c \in DOMAIN pendingJoin : \A t \in (pendingJoin[c] + 1)..clock[Host] :
    Acted(Entry(Host, t)) = ran[Host][t].players /\ SystemOf(Host, t) = ran[Host][t].system

TrackersAreTrue ==
  \A c \in Client :
    /\ \A t \in DOMAIN tracker[c] : /\ t \in 1..clock[Host]
                                    /\ Acted(tracker[c][t]) = ran[Host][t].players
                                    /\ SystemOf(c, t) = ran[Host][t].system
    /\ \A t \in DOMAIN system[c] : t \in 1..clock[Host] /\ system[c][t] = ran[Host][t].system

Truth == RulingsAreTrue /\ HostKeeps /\ TrackersAreTrue /\ SameRulings

Assumptions == BufferAssumption /\ PeerAssumption /\ BoundAssumption

(* What a tick of the host does: it runs players' actions and the session's, *)
(* keeps them for who may be told, and tells who is connected.               *)
HostRuns(players, staged) ==
  LET next == clock[Host] + 1
  IN  /\ next <= MaxTick /\ players \in Players /\ staged \in Seq(SysAct)
      /\ clock' = [clock EXCEPT ![Host] = next] /\ lastBroadcast' = next
      /\ ran' = [ran EXCEPT ![Host] =
           Put(ran[Host], next, Ran(players, staged, roster'[Host], paused'[Host]))]
      /\ inbox' = [c \in Client |-> IF c \in Connected
                     THEN Append(inbox[c], Ruling(next, Filled(next, players), staged))
                     ELSE inbox[c]]
      /\ DOMAIN tracker'[Host] \subseteq DOMAIN tracker[Host] \cup {next}
      /\ DOMAIN system'[Host] \subseteq DOMAIN system[Host] \cup {next}
      /\ \A t \in DOMAIN tracker'[Host] : tracker'[Host][t] \in Players
      /\ \A t \in DOMAIN system'[Host] : system'[Host][t] \in Seq(SysAct)
      /\ pendingJoin' = KeptJoins(next)
      /\ \A c \in DOMAIN pendingJoin' : \A t \in (pendingJoin[c] + 1)..next :
           /\ Entry(Host, t)' = IF t = next THEN players ELSE Entry(Host, t)
           /\ SystemOf(Host, t)' = IF t = next THEN staged ELSE SystemOf(Host, t)

IInv == TInv /\ Truth

Coming(t, box, held) ==
  \/ \E i \in DOMAIN box : box[i].type = "ruling" /\ box[i].tick = t
  \/ \E i \in DOMAIN held : held[i].tick = t

HandedOnce(at, shakes, box) ==
  /\ at = "out" => box = <<>> /\ shakes = <<>>
  /\ \A i \in DOMAIN shakes : shakes[i].type = "request" =>
       i = 1 /\ at = "asking" /\ \A j \in DOMAIN box : box[j].type # "snapshot"
  /\ \A i, j \in DOMAIN box : box[i].type = "snapshot" /\ box[j].type = "snapshot" => i = j /\ at = "asking"

MissesNothing(at, box, held, from, gave, log, now) ==
  /\ at = "loaded" => \A t \in (from + 1)..now : t \in DOMAIN log \/ Coming(t, box, held)
  /\ at = "given" => \A t \in (gave + 1)..now : Coming(t, box, held)
  /\ \A i \in DOMAIN box : box[i].type = "snapshot" =>
       \A t \in (box[i].tick + 1)..now : Coming(t, box, held)

Told ==
  \A c \in Client :
    /\ HandedOnce(stage[c], handshake[c], inbox[c])
    /\ MissesNothing(stage[c], inbox[c], stash[c], clock[c], given[c], tracker[c], clock[Host])

(* What is staged for the tick to come, by the passes that were held.        *)
StagedForNext == SystemOf(Host, clock[Host] + 1)

(* What was asked, what is staged and what has run come to what was asked    *)
(* last, a request at a time.                                                *)
PauseInOrder ==
  /\ \A t \in DOMAIN system[Host] : t <= clock[Host] + 1
  /\ \A i \in DOMAIN departures : departures[i].kind = "left"
  /\ lastAsked \in {"pause", "resume"} /\ asked \subseteq {lastAsked}
  /\ asked # {} => AboutPause(StagedForNext) = {} /\ (paused[Host] <=> lastAsked = "resume")
  /\ asked = {} => (PausedAfter(paused[Host], StagedForNext) <=> lastAsked = "pause")

(* Actions of a player, each once, that its log has scheduled for a tick.    *)
ScheduledIn(log, t, actions) ==
  /\ \A i, j \in DOMAIN actions : actions[i] = actions[j] => i = j
  /\ \A k \in DOMAIN actions : actions[k] \in DOMAIN log /\ log[actions[k]] = t

Apart(s, u) == \A i \in DOMAIN s, j \in DOMAIN u : s[i] # u[j]

RunAsScheduled ==
  \A t \in DOMAIN ran[Host] : \A p \in DOMAIN ran[Host][t].players :
    p \in Peer /\ ScheduledIn(sent[p], t, ran[Host][t].players[p])

(* What the host has been told of ticks to come; its own actions are for the *)
(* tick it runs.                                                             *)
AwaitedAsScheduled ==
  \A t \in DOMAIN tracker[Host] : t > clock[Host] =>
    /\ Host \notin DOMAIN tracker[Host][t]
    /\ \A p \in DOMAIN tracker[Host][t] : ScheduledIn(sent[p], t, tracker[Host][t][p])

(* A batch on its way repeats nothing: no other batch, and nothing told.     *)
BatchesAsScheduled ==
  \A c \in Client : \A i \in DOMAIN batches[c] :
    /\ ScheduledIn(sent[c], batches[c][i].tick, batches[c][i].actions)
    /\ \A j \in DOMAIN batches[c] : i # j => Apart(batches[c][i].actions, batches[c][j].actions)
    /\ \A t \in DOMAIN tracker[Host] : t > clock[Host] /\ c \in DOMAIN tracker[Host][t] =>
         Apart(batches[c][i].actions, tracker[Host][t][c])

Numbered == RunAsScheduled /\ AwaitedAsScheduled /\ BatchesAsScheduled

(* Batches that carry the actions taken in the last of them, and no others.  *)
Carry(out, log, acts) ==
  \A i \in DOMAIN out :
    /\ ScheduledIn(log, out[i].tick, out[i].actions)
    /\ DOMAIN out[i].actions # {} => i = Len(out) /\ out[i].actions = acts

(* The participants of a message name the host.                              *)
NamesHost(m) == \E j \in m.joins : j[1] = Host

(* A client that tells the host it has loaded, and one that is let in, has.  *)
JoinersHaveLoaded ==
  \A c \in Client :
    /\ joinedAt[c] # None => stage[c] = "loaded"
    /\ \A i \in DOMAIN handshake[c] : handshake[c][i].type = "loaded" => stage[c] = "loaded"

SnapshotsArePast ==
  \A c \in Client :
    /\ \A i \in DOMAIN inbox[c] : inbox[c][i].type = "snapshot" => inbox[c][i].tick <= clock[Host]
    /\ stage[c] = "given" => given[c] <= clock[Host]

(* Who has not been let in knows no host, and has scheduled nothing.         *)
StrangersAreSilent ==
  \A c \in Client : joinedAt[c] = None =>
    /\ batches[c] = <<>> /\ Host \notin roster[c]
    /\ \A i \in DOMAIN inbox[c] : inbox[c][i].type = "participants" => ~NamesHost(inbox[c][i])
    /\ stage[c] = "loaded" => lastScheduled[c] <= clock[Host]

LetIn == JoinersHaveLoaded /\ SnapshotsArePast /\ StrangersAreSilent

(* What may have come into a client's inbox in a step.                       *)
FromHost(c, m) ==
  \/ m.type = "ruling"
  \/ m.type = "snapshot" /\ m.tick = clock[Host]
  \/ m.type = "participants" /\ (joinedAt'[c] # None \/ ~NamesHost(m))

Kept(c, m) == \E j \in DOMAIN inbox[c] : m = inbox[c][j]

(* A client's buffer is never past what the host accepts ahead of its clock: *)
(* LockstepConfig::action_horizon is more than the largest the tuner sizes.  *)
HorizonReaches == Horizon \in Nat /\ \A b \in Buffers : b <= Horizon

(* The host has c's word on tick t, or it is on its way.                     *)
Heard(c, t, log, box) ==
  c \in DOMAIN Lookup(log, t, Empty) \/ \E i \in DOMAIN box : box[i].tick = t

Answered ==
  \A c \in Client : joinedAt[c] # None =>
    /\ lastScheduled[c] <= clock[Host] + Horizon
    /\ \A t \in (clock[Host] + 1)..lastScheduled[c] : Heard(c, t, tracker[Host], batches[c])

Window == Max(HostBuffers)
WindowIsBounded == \E m \in HostBuffers : \A b \in HostBuffers : b <= m

In(n, actions) == \E k \in DOMAIN actions : actions[k] = n

ConnectsOnce == joins \in [Client -> {0, 1}] /\ \A c \in Client : stage[c] # "out" => joins[c] = 1

(* A buffer that only grows schedules each pass past the last.               *)
SchedulesOnward == \A c \in Client : stage[c] = "loaded" => lastScheduled[c] <= clock[c] + buffer[c]

(* Of a client that is yet to be let in the host holds nothing.              *)
Beginner(c) == joinedAt[c] = None /\ (joins[c] = 0 \/ stage[c] # "out")
Unheard(c) == sent[c] = <<>> /\ \A t \in Nat : t > clock[Host] => c \notin DOMAIN Entry(Host, t)
BeginnersAreUnheard == \A c \in Client : Beginner(c) => Unheard(c)

(* The batches on their way are the last ticks scheduled, in order, and the  *)
(* ticks the host has heard of, or has waited for, come before them.         *)
WordsInOrder(c) ==
  /\ \A i \in DOMAIN batches[c] : batches[c][i].tick + Len(batches[c]) = lastScheduled[c] + i
  /\ \A t \in Nat : t > clock[Host] /\ c \in DOMAIN Entry(Host, t) =>
       t + Len(batches[c]) <= lastScheduled[c]
  /\ clock[Host] > joinedAt[c] + Window => clock[Host] + Len(batches[c]) <= lastScheduled[c]

(* An action is in every batch, entry and history of the tick it is for.     *)
ActionIsCarried(c, i) ==
  /\ sent[c][i] <= lastScheduled[c]
  /\ sent[c][i] \in (joinedAt[c] + Window + 1)..clock[Host] => In(i, ActionsOf(c, sent[c][i]))
  /\ sent[c][i] > clock[Host] /\ c \in DOMAIN Entry(Host, sent[c][i]) =>
       In(i, Entry(Host, sent[c][i])[c])
  /\ \A k \in DOMAIN batches[c] : batches[c][k].tick = sent[c][i] => In(i, batches[c][k].actions)

WellCarried(c) == WordsInOrder(c) /\ \A i \in DOMAIN sent[c] : ActionIsCarried(c, i)

InOrder ==
  /\ ConnectsOnce /\ SchedulesOnward /\ BeginnersAreUnheard
  /\ \A c \in Client : joinedAt[c] # None => WellCarried(c)

(* What keeps the order of a client's words: nothing about them changes.     *)
SameWords(c) ==
  /\ joinedAt'[c] = joinedAt[c] /\ lastScheduled'[c] = lastScheduled[c] /\ batches'[c] = batches[c]
  /\ sent'[c] = sent[c] /\ clock'[Host] = clock[Host] /\ ran'[Host] = ran[Host]
  /\ \A t \in Nat : /\ c \in DOMAIN Entry(Host, t)' <=> c \in DOMAIN Entry(Host, t)
                    /\ c \in DOMAIN Entry(Host, t) => Entry(Host, t)'[c] = Entry(Host, t)[c]

-----------------------------------------------------------------------------
(* THE ROSTERS *)

(* The roster the host ran a tick with.                                      *)
RosterAt(t) == IF t = 0 THEN {} ELSE ran[Host][t].roster

(* What the host will run at its next tick, as far as it is staged or has    *)
(* left.                                                                     *)
Pending == SystemOf(Host, clock[Host] + 1) \o departures

(* The tick after t says whether p is on the roster, or it will.             *)
Foretold(p, t) ==
  IF t < clock[Host] THEN About(ran[Host][t + 1].system, p) # {}
  ELSE About(Pending, p) # {} \/ p \in Joining(clock[Host] + 1)

(* A roster with which to go on from t: what it has wrong the next tick puts *)
(* right.                                                                    *)
Agrees(r, t) ==
  t \in 0..clock[Host] /\ \A p \in Peer : (p \in r <=> p \in RosterAt(t)) \/ Foretold(p, t)

RostersFollow ==
  /\ roster[Host] = RosterAt(clock[Host])
  /\ \A t \in 0..clock[Host] : t + 1 <= clock[Host] =>
       RosterAt(t + 1) = RosterAfter(RosterAt(t), ran[Host][t + 1].system)

(* Who was announced is who is on the roster once what is pending has run.   *)
AnnouncedAreOn ==
  /\ joinedAt[Host] = 0
  /\ \A t \in DOMAIN system[Host] : t <= clock[Host] + 1
  /\ RosterAfter(roster[Host], Pending) = announced
  /\ \A p \in announced : /\ joinedAt[p] # None /\ joinedAt[p] <= clock[Host] + 1
                          /\ joinedAt[p] = clock[Host] + 1 => About(Pending, p) # {}

HostRosters == RostersFollow /\ AnnouncedAreOn

(* A tick of the host, as far as the rosters go.                             *)
HostGoesOn(staged) ==
  LET next == clock[Host] + 1
  IN  /\ staged = StageInto(SystemOf(Host, next), Staged(next))
      /\ clock' = [clock EXCEPT ![Host] = next] /\ UNCHANGED joinedAt
      /\ roster' = [roster EXCEPT ![Host] = RosterAfter(roster[Host], staged)]
      /\ DOMAIN ran' = DOMAIN ran /\ \A c \in Client : ran'[c] = ran[c]
      /\ ran'[Host][next].system = staged /\ ran'[Host][next].roster = roster'[Host]
      /\ \A t \in DOMAIN ran[Host] : t # next => ran'[Host][t] = ran[Host][t]
      /\ announced' = announced \cup Joining(next) /\ departures' = <<>>
      /\ DOMAIN system'[Host] \subseteq DOMAIN system[Host] \cup {next}

(* A step keeps the rosters that were, and what was foretold.                *)
HostRemembers ==
  /\ clock'[Host] \in Nat /\ clock[Host] <= clock'[Host]
  /\ \A t \in 0..clock[Host] :
       RosterAt(t)' = RosterAt(t) /\ \A p \in Peer : Foretold(p, t) => Foretold(p, t)'

(* What an acceptance does.                                                  *)
LetsIn(c, at) ==
  /\ at \in Nat /\ at > clock[Host] + 1 /\ joinedAt[c] = None /\ joinedAt' = [joinedAt EXCEPT ![c] = at]
  /\ LET newcomer == Participants({<<c, at>>})
         members == {<<p, joinedAt[p]>> : p \in {q \in Peer : joinedAt[q] # None}}
     IN  inbox' = [Broadcast(inbox, <<newcomer>>) EXCEPT ![c] =
                     inbox[c] \o <<Participants(members \cup {<<c, at>>}), newcomer>> \o CatchUp(c)]

(* Who has joined by a tick, as the host has it now.                         *)
JoinedBy(t) == {p \in Peer : joinedAt[p] # None /\ joinedAt[p] <= t}

Names(m) == m.type = "participants" /\ NamesHost(m)
Newcomers(m) == m.type = "participants" /\ ~NamesHost(m)
Dated(m) == m.type \in {"ruling", "snapshot"}

(* A client that stands before tick a, with all it has heard.                *)
Before(a, now, at, gave, held, log) ==
  /\ now < a /\ (at = "given" => gave < a)
  /\ \A k \in DOMAIN held : held[k].tick < a
  /\ \A t \in DOMAIN log : t < a

(* What a client is told of who joins comes before it can be past the tick.  *)
NewcomersAhead(box, now, at, gave, held, log) ==
  \A i \in DOMAIN box : Newcomers(box[i]) => \A j \in box[i].joins :
    /\ Before(j[2], now, at, gave, held, log)
    /\ \A k \in DOMAIN box : k < i /\ Dated(box[k]) => box[k].tick < j[2]

(* What comes in is a ruling, or says who joins after the host's clock.      *)
Passing(more) ==
  \A i \in DOMAIN more :
    /\ more[i].type # "snapshot"
    /\ more[i].type = "participants" =>
         /\ ~NamesHost(more[i]) /\ \A j \in more[i].joins : j[2] \in Nat /\ j[2] > clock[Host]
         /\ \A k \in DOMAIN more : k < i => ~Dated(more[k])

StandsStill(c) ==
  /\ stage'[c] = stage[c] /\ clock'[c] = clock[c] /\ given'[c] = given[c] /\ roster'[c] = roster[c]
  /\ stash'[c] = stash[c] /\ tracker'[c] = tracker[c] /\ ran'[c] = ran[c] /\ joinedAt'[c] = joinedAt[c]

OnlyHears(c) ==
  StandsStill(c) /\ \E more \in Seq(Msg) : Passing(more) /\ inbox'[c] = inbox[c] \o more

Ahead(c) == NewcomersAhead(inbox[c], clock[c], stage[c], given[c], stash[c], tracker[c])

InStep == \A c \in Client : clock[c] <= clock[Host] /\ Ahead(c)

Members == {<<p, joinedAt[p]>> : p \in {q \in Peer : joinedAt[q] # None}}

(* Whose snapshot is of tick t: it goes on from there once it has loaded.    *)
GivenAt(c, t) ==
  \/ stage[c] = "loaded" /\ clock[c] = t
  \/ stage[c] = "given" /\ given[c] = t
  \/ \E i \in DOMAIN inbox[c] : inbox[c][i].type = "snapshot" /\ inbox[c][i].tick = t

(* The one message in a client's inbox that says who is there.               *)
SeedIn(box, r, now) ==
  \A i \in DOMAIN box : Names(box[i]) =>
    /\ r = {} /\ Agrees(SeededBy(box[i].joins, now), now)
    /\ \A k \in DOMAIN box : Names(box[k]) => k = i

RosterOf(c) ==
  /\ joinedAt[c] = None => roster[c] = {}
  /\ roster[c] # {} => Agrees(roster[c], clock[c])

SeedToCome(c) ==
  joinedAt[c] = None => \A t \in 0..clock[Host] : GivenAt(c, t) => Agrees(JoinedBy(t), t)

RanAsHost(c) == \A t \in DOMAIN ran[c] : t \in 1..clock[Host] /\ ran[c][t].roster = RosterAt(t)

Agreed(c) == RosterOf(c) /\ SeedIn(inbox[c], roster[c], clock[c]) /\ SeedToCome(c) /\ RanAsHost(c)

(* What each step is taken from.                                             *)
Stepping == IInv /\ Told /\ LetIn /\ HostRosters /\ HostRemembers /\ InStep /\ [Next]_vars

=============================================================================
