# A verification of bevy_ticked

TLA+ models of `bevy_ticked`, a fixed-tick simulation with rollback for Bevy, of its
snapshot networking, its lockstep networking and the bridge between a lobby and a
session; the TLC runs that check them; and TLAPS proofs of what matters most about
nine of the models. `PROJECT.json` is the index: components, runs, the mutant each
property is known to catch, the source lines each definition stands for, the
hazards, the theorems. Paths below are relative to the repository; a file without a
directory is in the crate the section is about.

## 1. The system

Four layers. Each keeps its state in Bevy resources and is a set of systems; a
system that takes `&mut World` runs alone, so the atomic steps are systems, passes
of the tick loop and, between peers, messages.

| Part | State | Operations | Correct when |
|---|---|---|---|
| **Tick and rollback** `src/lib.rs`, `rollback.rs`, `registry.rs`, `resource_registry.rs`, `world_actions.rs` | `CurrentTick`, histories by tick, `InitialCapture` | tick (simulate, capture, prune), `rollback_and_resimulate`, `StepBackward`, `ResetToTick`, `restore_all`, `truncate_all_after` | a rewind puts back exactly the world captured at its tick |
| **Registries and the wire** `src/registry.rs`, `resource_registry.rs`, `networked_registry.rs`, `snapshot.rs`, `handshake.rs` | what is registered, networked, under which name; the frozen wire order | register, freeze, announce, compare, encode, decode, restore the local half, reset | a value is read as the type it was written as; a rewind leaves no type out |
| **Existence** `src/lifetimes.rs`, `tracked_index.rs`, `tracked_entity.rs` | lifetimes `born`/`died`, tombstones, the id index, the allocator, `SpawnedAs` | spawn, revive, ticked and plain despawn, reap, rebuild | lifetimes, histories, index and world agree; an id is one entity, minted once per timeline; local dressing belongs to the occupant |
| **Ticked events** `src/events.rs` | log by tick, watermark, what was heard | write, drain, truncate, prune | each fact is heard, and as often as it was said, also over replays |
| **Clock and holds** `src/time.rs`, `tick.rs` | accumulator, `TickHolds` | expend, hold, release, step by hand | a held clock runs no tick; lost time is counted |
| **Checksums** `src/checksum.rs`, `checksum_log.rs`, `checksum_exchange.rs` | bounded log of hashes, parked reports, the latch | sample, announce, compare, answer | a divergence is found, and nothing else is reported |
| **Snapshot networking** `crates/bevy_ticked_networking` | server: seq, acks, baselines, inputs; client: waiting snapshot, bodies by seq, lead, replay in progress, pause | broadcast full or delta, ack, nack; receive, fast path, rollback and replay, snap back | a client's rebuilt body is the one that was sent; it never goes back to an older word; what it shows is that word and its own inputs |
| **Ensemble bridge** `crates/bevy_ticked_networking_ensemble` | roles, verification marks, spawner slots, pending welcome | adopt, release, verify, welcome, time out | no world from a host that was not compared; no state outlives its session |
| **Lockstep** `crates/bevy_ticked_lockstep_networking` | tracker of actions by tick, roster, pending joins, buffers, stall, migration | flush, receive, rule, broadcast, join, leave, pause, migrate | every peer runs the same ticks with the same actions and roster; nothing is lost or run twice; nobody waits for ever |
| Presentation, physics adapter, test harness, examples, vendored code | - | - | not part of the core |

How they meet. The tick loop calls capture and prune around the simulation; a
rollback restores existence first, then components and resources, the allocator
among them, which is why a replay mints the same ids. The snapshot client calls
the same restore and truncate with the host's body in place of the history, and
takes its bodies from the snapshot stream. The bridge decides when a role begins
and ends, and every such door resets what the layers below have registered.
Lockstep never rolls back: it holds the tick loop (`WaitingForPeers`,
`SessionPause`) until the ruling of the next tick is there.

Hard parts: existence over any sequence of rewinds; packets and messages that are
lost, doubled, late or from a connection that is gone; the order of the systems of
a frame (`PreUpdate`, the loop, `Update`) against what other peers send; a join that
runs beside the ticks; buffers and clocks that change while what was scheduled by
them is under way; a host that goes in the middle of any of these. The full list, at
its lines, is in `PROJECT.json` under `hazards`.

## 2. The modules

| Module | What it is |
|---|---|
| `Lifetimes` | pure: one id's lifetime and the operations on it |
| `RewindableWorld` | abstract: a clock, a world and a past; a rewind puts back the past |
| `TickRollback` | one peer: tick, replay, scrub, spawn, despawns, capture, restore, prune, reap; implements `RewindableWorld` |
| `Registries` | a host's and a client's registries: what is captured, put back, compared and read from a body |
| `TickedEvents` | the log of one type of event and its reader |
| `HostClock` | a host's frames: time, passes, the session pause and the automatic pauses |
| `SnapshotStream` | a host, one client and the connection: deltas, acknowledgements, faults |
| `SnapshotClient` | a predicting client: apply, fast path, replay, lead, pause; over `Lifetimes` |
| `InputStream` | one client's inputs from the press to the tick that uses them |
| `EnsembleSession` | one peer through lobbies: roles, doors, handshake, slots |
| `Lockstep` | a lockstep host and its clients: rulings, joins, departures, pauses |
| `LockstepMigration` | a lockstep session that changes its host |
| `ChecksumExchange` | noticing a desync and telling the peers |
| `TickRollbackProofs`, `TickedEventsProofs`, `HostClockProofs`, `SnapshotStreamProofs`, `LockstepProofs`, `ChecksumExchangeProofs`, `EnsembleSessionProofs`, `RegistriesProofs` | lemmas and theorems |
| `LockstepInvariants` | the types and inductive invariants `LockstepProofs` proves |
| `MC...` | instances for TLC; each `.cfg` is of the `MC` module its name begins with |

`TickRollback`, `SnapshotClient` and their proofs share `Lifetimes`. Where two
components meet and are checked apart, the module of the one says what it takes from
the other: `SnapshotClient` receives the host's world of a tick, newer than the last,
which is what `SnapshotStream` shows of the packets; `ChecksumExchange` and
`LockstepMigration` take a join as one step, which `Lockstep` has in full.

Operators marked `Mutant:` stand beside the operator they alter. No specification
uses them; they are there to show that the property they are listed with sees the bug.

### TickRollback

A tick is `BeginTick`, any number of game steps, `EndTick`; a replayed tick ends
in `EndReplayedTick`, which starts the next at once. The game's steps are
`Spawn(k)` (`TrackedSpawner`: revive the id's tombstone or spawn fresh),
`DespawnTicked(h)` and `PlainDespawn(h)`. `ScrubTo(t)` is `restore_to`;
`Rollback(t, end)` is `rollback_and_resimulate` up to its first tick. Both contain
the whole of `restore_all`: bury, revive, rebuild, restore components, restore the
allocator.

Abstractions. A `Kind` stands for a bundle type and for the registered state it
puts on an entity, so a restore of the wrong occupant is seen; mutation of
components inside a tick is not modelled, since `restore_component` treats every
value alike. `entity` is the set of Bevy entities, by handles; a freed handle is
reused only when the index no longer names it, which is Bevy's generations. One
spawner slot and one stream: sequences of different slots and streams do not meet.
`dress` is what a game's `On<Add>` observer last hung on the entity.

`CanRewind` is the callers' duty: a rewind goes to a captured tick not after the
clock. `SpawnBetween` lets the game spawn between ticks, `ResumeScrubbed` lets a
scrubbed world tick on over its old future; with both off (`ReplaysOnly` in the
proofs) every property holds, and each one on breaks a sentence of the documentation
(section 5).

### Registries

A peer's `reg` is the sequence its plugins registered, of components and of resources, and
`wire` the order of the networked ones, fixed by the first announcement (`frozen`). `Builds`
gives the sequences each peer's plugins may register in; `Register` is one call, refused as
`register_inner` refuses, and `Late` of them may come while the app runs. A world is one
value per type. `Tick`, `Rewind`, `OpenLobby`, `Join`, `Compare`, `Send`, `Receive`, `Leave`
call the registries as the tick, a rollback, the doors, the handshake, the host's broadcast
and `handle_server_snapshot` do: `capture_all`, `restore_all`, `restore_local_only`,
`truncate`, `prune`, `clear` and `reset_all`; a body is a mask of wire indices and the values
in their order, with no type on them, and is read by the reader's own order. `was` is what
the registered part of a world was at each capture.

One entity stands for all, as every function here takes them one by one. How many ticks are
replayed after a rewind is `SnapshotClient`'s, deltas are `SnapshotStream`'s, the messages of
the handshake `EnsembleSession`'s. Two lists of names with one hash, and bytes that do not
decode, are left out.

### TickedEvents

`RunTick(events)` is a tick that writes and the prune that ends its pass, `Rollback`
a rollback that tells the log (`truncate_after`), `Door` the clearing at a session's
door, `Read` `drain_unpresented` in a frame's `Update`, at any moment. `said`, `most`
and `told` are histories: what the last run of a tick said, the most any run said of
an event, how often the reader was given it. What is new to a reader (`Fresh`) is
counted, event by event, as the code counts. Types do not meet. A clock set back
without the log being told is left out, see section 5.

### HostClock

A frame is `BeginFrame(d)` (messages age, real time), `DetectRealGap`,
`PauseWhenBehind`, `DropDisallowed` in `PreUpdate`, `EnterLoop`, `Pass`es while the
accumulator has a timestep and the frame's budget is not used up, `LeaveLoop`, and
`Update`, in which the player asks (`Ask`), the game holds (`Hold`) or switches the
automatic pauses (`Switch`). Participants' requests, changes of focus and steps by
hand may come at any point of `PreUpdate`. A pass is `host_apply_requests`,
`host_hold_at_pause`, the tick if nothing holds it, and the broadcast with its cadence.
Bevy's messages are two buffers, `fresh` and `stale`, which age only after a fixed
step (`due`), so a request may be dropped unread. A duration is a count of units.

### SnapshotStream

`HostTick` and `HostHeldPass` are passes of the host with `broadcast_snapshot` in
them: the sequence number, whether the packet may be a delta (keyframe, nack,
baseline), the ring of baselines. `HostReceive` records an acknowledgement.
`ClientReceive` rebuilds, or nacks; `ClientPass` applies what waits and sends the
input packet, which carries the acknowledgement; `Starve` is the watchdog's nack,
`Adopt` a door. `down` and `up` are every packet ever put on this connection: one may
be received at any time, again, or never. `LoseLink`, `HostForgets`, `ClientForgets`
and `Relink` are a connection lost and made again; both ends know before there is a
new one, which is what the transport reports. A body is of components, of one entity, and
of resources: a delta says which components are gone, a rate leaves components out, and
neither is so of resources. Everything is keyed by uuid, so one
client is enough. A body is a function from parts to values.

### SnapshotClient

`HostPass` is the host's game and pause; `Receive(t)` what the stream delivers;
`ClientPass` one pass of the client's loop, the whole of `handle_server_snapshot`
(`Accepted`, the fast path; `LeadAcquired`; `Corrected`, rollback and replay),
`client_follow_pause` and the tick. The client is one record, so that each function
of `client.rs` is an operator from client to client. The game has one thing of each
sort the snapshots treat differently: a networked value, a local-only value that is
rolled back, an allocator, tracked entities a player spawns. A replay longer than
`Budget` goes on in the next pass with the clock held. The fast path compares the
ids that live now with the snapshot's, not those that lived at its tick, as the code
does. The list of the reborn, relayed inputs and the interpolated mode are left out.

### InputStream

`ClientTick` presses and sends the last `Red` ticks; `Arrive` files a packet's presses
(`collect_network_inputs`: refuse, file, fill the next tick with a late one), `Lose`
loses it; `HostTick` uses a press and prunes; `Leap` and `SnapBack` move the client's
clock as the lead does; `Rejoin` and `NewSession` forget. A press is its tick and how
many turns the clock had made.

### EnsembleSession

A frame is what it received, `PreUpdate`, `StateTransition` (the doors), the loop, and
two chains of `Update` with no order between them, each one step. `app` is the peer's
world, with one field per resource the bridge reads. A host is an epoch and a kind: of
the same build (`match`), of another (`mismatch`), one that never speaks (`silent`), one
whose slots are taken (`full`). What a door resets is `ResetSessionState` and
`EndSessionState`, from the registrations.

Assumed of the environment: after a change of lobby at least one whole frame passes
before the next (`settled`); a lobby does not go, and the player does not ask, in the
frame in which a session is already being left (`Leaving`); solo play is not started in
the frame a lobby goes; with `HandBack` and `LossAtTheDoor` off, a lobby does not go from
under a solo game before it gives a role, nor the link between a role and its door. The
last two are lifted in section 5.

### Lockstep

Per peer `clock`, `tracker`, `system`, `roster`, `paused`; on the host the
participants (`joinedAt`), `announced`, `departures`, `pendingJoin`,
`lastBroadcast`, `hostBuffer`; per client its join `stage`, `stash`,
`lastScheduled`, `buffer`; three queues per client for the messages.

| Action | Code |
|---|---|
| `HostTick`, `HostHeldPass` | a pass of the tick loop on the host: stage the session's actions, wait, run, flush, broadcast, clean up |
| `HostReceiveBatch`, `AnswerRequest`, `AcceptLoaded` | `receive_client_actions`; the snapshot; the acceptance, its participants and its catch-up |
| `Connect`, `ReceiveRuling`, `ReceiveParticipants`, `ReceiveSnapshot`, `ApplySnapshot`, `ReplayStash` | the client's side of a join and its stream |
| `ClientPass` | a pass of the tick loop on a client: run the next ruling if it may, flush |
| `Leave`, `Kick` | a client goes, or is kicked while it is waited on |
| `Ask`, `Resize`, `ResizeHost` | pause and resume requests; the adaptive buffers, by any size allowed |

`ran` and `sent` are history variables: what each peer ran at each tick with
which roster, and which tick each action was scheduled for.

What is assumed or left out:

- The link of a host and a client is reliable and in order per message type, as
  `SendMode::Reliable` gives. The participants sent at one acceptance arrive in one
  frame (they are packed); a roster that arrives split is not modelled.
- Leaving is one step on both sides.
- A client connects with its clock at 0 (`MenuClock = {0}`). The crate does not set
  it; a game that connects from a clock that already ran seeds participants whose
  join it has not run.
- `LeaveMidJoin = FALSE`: no participant goes while a client has been answered its
  request and is not let in (`MidJoin`). Nothing in the code says so. With that and
  `Shrinks = FALSE` in the runs; section 5 lifts them.
- `Hasty = FALSE`: the host asks for a pause or a resume only once the last one has
  run. A pause asked while a resume is staged, or the reverse, is judged against
  `LockstepPaused` as it stands (`session.rs:218-228`) and dropped.
- A snapshot carries the roster's tick but not `LockstepPaused`; a joiner of a paused
  session learns of the pause only with the tick that ends it. `PausedAsAsked` is of
  the host.
- `JoinWindow` is longer than a run, so no pending join expires. `TrustWindow = 0`
  keeps the least of the past: more kept is only safer without a change of host.
- `Horizon = 3` exceeds every buffer, as 128 exceeds the ceiling of the buffers in
  the code.
- When a kick comes is not modelled by time: it may come whenever the client is
  waited on. Solo play without a lobby is not modelled.

### LockstepMigration

The old host rules (`OldRules`) and goes, with each client's inbox filled as far as it
is; one client collects reports (`BeginCollecting`, `HostReceive`), decides the resume
tick (`Decide`), catches up on what its predecessor ruled (`CatchUp`) and rules (`Rule`);
the survivors report, park the verdict, go on or join again. Every peer joined at tick 0;
pauses, joins under way at the change, the re-join itself and a second change are not
modelled. A batch reaches the old host at once: it may rule late, which is the same.
The cut of rulings past the resume matters only when the trust window is smaller than
the buffer, as in the run.

### ChecksumExchange

A hash is what can make two hashes of a tick differ: on whose rulings the tick ran
(`line`) and who drifted (`mark`). `AnnounceChecksum`, `Compare` with the reports that
arrive in a frame, in any order and any of them lost, the latch and the answer; over
joins, leaves, and `ChangeHost`, `Decide`, `TakeVerdict`. `SampleAlone` is sampling
without a lobby. The sections of a hash and peers that disagree about the interval are
not modelled.

## 3. The runs

| Run | Instance | Shows |
|---|---|---|
| `replay` | 2 ids, 3 handles, 2 kinds, clock 3, window 2, scrubs and replays | every rewind is exact (`TickRollback` implements `RewindableWorld`); lifetimes against histories, no id minted twice, dressing, reaping |
| `registries` | 3 component and 3 resource types, a client of the same names in another order or of other names, the last registration late, clock 3, window 2, 2 joins | what was compared is enough to read every value as it was written; a step back puts every type of the peer's own back |
| `events` | window 2, clock 4, 2 moves of the clock | the log is the timeline, nothing is presented twice, corrections are heard |
| `clock` | frames of 1, 5 and 7 units with ticks of 2 and a budget of 2 ticks, 4 turns of the player, fair | lost time is counted, a pause somebody asked for stands, an automatic one ends |
| `stream` | 1 component of 2 values and 1 resource, 3 worlds, ring 2, 2 bodies kept, a keyframe every 3, 4 packets, 1 fault | a rebuilt body is the one sent but for resources the host no longer has, the baseline is held, the freshest word is applied |
| `client` | 2 ids, replay budget 2, targets 1 and 2, host to 3, client to 5, 1 pause | what is shown is the word and the client's own inputs, no twins, the lead is kept |
| `inputs` | packets of 2 ticks, window 2, lead 1, clock 4, 2 in flight, 1 turn | the newest press is used, and a loss too few costs nothing |
| `session` | 2 clients, 2 slots, hosts of 3 kinds, 2 epochs, 1 fault, 2 events a frame, fair | only the compared host's word, slots in step and one client's each, fresh after leaving, ticks only in the host's world, not held for ever |
| `actions` | 1 client that joins, leaves and is kicked, clock 5, buffers 1-2 on both sides, an action each | same rulings and rosters everywhere; each action once; no established participant's action lost; no hole in what a participant is told or the host waits for |
| `progress` | 1 client, clock 5, 2 requests, no kicks, fair | a pause is as asked; the session goes on; a joiner catches up or is gone |
| `migration` | 2 survivors and a new host, clock 4, trust window 1, 1 drop, time-outs | same rulings across the change, what was kept is ruled once, nobody is stuck |
| `checksums` | 2 clients, every tick sampled, a log of 1, clock 2, 2 joins, 1 drift | no false alarm, a drift is found |

Bounds. Each was chosen so that the case its properties are about happens. The window
is smaller than the clock wherever there is one, so that prune, reap and the edge of
what is kept are reached; there is one handle more than ids, so that a stale and a fresh
entity of one id can coexist; the ring and the bodies kept are full before the packets
end; the replay budget is smaller than the lead, so that replays span passes; frame
lengths lie under a tick, over the budget and over the gap. A lockstep joiner is accepted
for the tick after `clock + max(hostBuffer, buffer)` and has `hostBuffer` ticks of grace;
with buffers of 1 the host waits for its first batch from tick 4, so a clock of 5 has
ticks in which it waits. Two joins that overlap with each other and with a departure need
two clients and a clock of 3; with actions too that is 6.5 million states, and `RosterAgreement`
and `NoHoles` are proved for any number of clients, so the run has one. Larger instances
checked by hand: `Lockstep` with two clients, clock 3, buffers of 1 and no actions (those two
invariants, symmetric clients, 372 thousand states), `ChecksumExchange` with two clients and a
log of 2 (1.4 million). `stream` has three worlds: the component
beside the resource, the component with another value alone, the resource alone, so that
each changes, goes and comes back; `session` has
two clients and two slots, so that one is let in, leaves or is refused while the other holds
a slot and its announcement waits.

`CHECK_DEADLOCK FALSE` throughout: at its last tick a bounded world stops. Symmetry is of
values, kinds, clients and survivors, and only where every property is an invariant or does
not tell them apart; the runs with liveness have none.

Fairness. `Lockstep!FairSpec` adds `WF_vars(FrameStep)`: some peer's frame goes on as long
as one can. A frame loop gives each peer more; the properties need no more, since every
step a frame can take is progress of a bounded kind. Joining, leaving, asking and resizing
are not fair, and `Progress` is checked with `Kicks = FALSE`: no live peer needs to be
kicked for the session to go on. `HostClock!FairSpec` is `WF_vars(Frame)`, the app's own
loop; `AutomaticPauseEnds` supposes calm frames from some time on, which no code can give.
`EnsembleSession!FairSpec` has the frame's systems weakly fair, a pass of the loop strongly
(a frame need not have a tick due, but time passes), what is reliable delivered, snapshots
arriving again and again, and a host out of reach found or given up on, which is the
lobby's time-out. `NotHeldForEver` thus supposes that a client's host goes on sending: one
that is paused at a tick it does not send, with `SendEvery` above 1, does not (section 5,
`PauseIsTold`). What a lobby or a player does is not fair. `NobodyIsStuck` of
`LockstepMigration` needs no fairness: it says that where no frame has a step left, the
session is at its end, and no step can be taken for ever.

Every property has a mutant, an operator beside the one it replaces and marked as such,
that breaks the code in a plausible way (a grace window one too long, a merge in place of
a replacement, a door that leaves a slot behind, an acknowledgement that outlives its
connection) and makes TLC find the property violated.

`HeldAtPause` and `ReplayIsAwaited` of `SnapshotClient` and `UsedInOrder` of `InputStream` are
stated in the module and were checked by hand, not in a run; `HostLearns` of `ChecksumExchange`
and `IndexMatchesWorld` of `TickRollback` are proved, and were checked the same way.

## 4. Findings

None is kept as a run. What the code does otherwise than a sentence of the repository says
is in the next section, each with the constants under which TLC shows it.

## 5. Refuted

These are stated in the modules, with the sentence they come from, and TLC finds each
violated under the constants given (all others as in the run of the module).

| Property | With | What the code does |
|---|---|---|
| `TickRollback!RewindIsExact` | `ResumeScrubbed` TRUE | a scrubbed world that ticks on keeps the lifetimes of its abandoned future (`lib.rs:566` against `ARCHITECTURE.md:27-29`): a later rewind puts back another world than was captured |
| `NoHusks` | `SpawnBetween` TRUE | an entity spawned between ticks and rewound past has no lifetime: it stays and loses its components (`lifetimes.rs:539` against `registry.rs:412`) |
| `BornWhenCaptured` | `SpawnBetween` TRUE | a revival between ticks is recorded as born at a tick captured without it (`lifetimes.rs:370` against `:51`) |
| `Registries!ReadAsWritten` | `Builds <- SharedNames` | a resource that was rolled back already is networked under a name another has, which nothing refuses (`resource_registry.rs:208-222` against `:233`, "a wire name must be unique"): the hashes agree and, registered in another order, each is read as the other |
| `HostClock!AskedPauseStays` | as the run | an automatic pause in force swallows a request and lifts it with itself (`pause.rs:121-122`) |
| `RequestsAreHeard` | as the run | a request grows too old while no pass runs (`pause.rs:96-97`) |
| `PauseIsTold` | `SendEvery` 2 | a pause at a tick that is not sent is never told (`server.rs:364`) |
| `LossIsNoticed` | `MaxTicks` 4 | with a budget above what virtual time lets through, time is lost before the loop and nothing counts it ("when and only when", `pause.rs:401-403`); the warning there suggests raising `MaxTicksPerFrame` |
| `SnapshotStream!RatedArrives` | `Rate <- EverySecond`, `SendEvery` 1, `KeyframeEvery` 8, `MaxTick` 4, `MaxFaults` 0 | the baseline kept is the host's whole body, also where a rate left a part out of the packet: the part is not sent later (`delta.rs:33`, `:118`) |
| `RebuiltIsTheFullBody` | as the run | a delta names the components removed and the entities despawned, but `build_delta` has no place for a resource the host removed, and `apply_delta` starts from all the baseline's: the rebuilt body still has it, where a full body of that tick leaves it out (`delta.rs:221-236`, `:317-321` against `:9`, "the recipient rebuilds the full body"). A full body that leaves a resource out says nothing about it either (`snapshot.rs:77`), so no removal of a resource is told; but `prediction_matches` compares the lists (`client.rs:844`) |
| `SnapshotClient!WordOnExistence` | `Inputs` with `"burst"`, `MaxPauses` 0 | a predicted despawn keeps an id alive that the host no longer has (`snapshot.rs:284-286`, `client.rs:706`) |
| `PredictionForgotten`, `NoTwins`, `PredictedFromTheWord` | `PausesAhead` TRUE, `MaxHostTick` 2, `MaxClock` 4 | a pause behind the clock puts the body and the clock in place and returns before it truncates; the rollback of `client_follow_pause` is not reached (`client.rs:622` against `pause.rs:17-18`) |
| `InputStream!FreshPressIsHeld` | `MaxTurns` 1 | a straggler from before a snap back replaces the press made after it: the one that came last is kept, not the one made last (`client.rs:752-755`) |
| `EnsembleSession!SlotsInStep`, `OnlyTheComparedHostsWord` | `HandBack` TRUE | a solo game handed to a lobby that goes before a role keeps its slot, and `RegistryVerified` with it: the snapshots of the next lobby's host are forwarded before it is compared (`lib.rs:168`) |
| `ClientTicksInItsHostsWorld` | `LossAtTheDoor` TRUE | the door releases the hold of a link lost after the role was taken |
| `NotHeldForEver` | `HostKind` with `"full"` for `"silent"` | a client a full host does not list waits for its world without end (`handshake.rs:44`) |
| `Lockstep!RosterAgreement` | `LeaveMidJoin` TRUE, 2 clients, `MaxTick` 3, all buffers 1, `MaxActions <- Nobody` | who leaves while another joins is missing from the joiner's roster for the ticks between its snapshot and the leave (`participants.rs:78` against `resources.rs:58-59`, `tests/part2.rs:443`) |
| `NoActionLost` | `Shrinks` TRUE, as `actions` | after a buffer shrinks two batches name one tick; the host may rule between them and the second is lost (`actions.rs:260` against `adaptive_buffer.rs:35-39`, `authoritative.rs:275-277`) |
| `LockstepMigration!NoActionLost` | `MaxDrops` 0, `Timeouts` FALSE | what a survivor flushes while it catches up may name a tick that is ruled (`actions.rs:148-151`) |
| `NobodyIsStuck` | `EarlyHandover` TRUE, `MaxDrops` 0 | the cut of the old host's rulings runs after the frame's rulings were received: a participant inside its buffer window loses one of the new host's (`migration.rs:540`) |
| `ChecksumExchange!NoFalseAlarm` | `LateReporters` TRUE; or `EarlyReports` TRUE | a survivor past the resume joins again with the log of the discarded ticks, which `restart_join` does not clear; a report from before the promotion is compared with a world run alone |

Two of `TickedEvents`: a clock set back without the log being told (`rollback_to_tick`
alone, and a snapshot that says the session is paused) refutes `NeverTwice`
(`events.rs:174`); with the clock told, the branch that handles a watermark past the clock
is never taken.

Seen on the way, and not stated as properties. A late press is passed over if a press for a
tick further ahead was seen before it. A host stalled for longer than the input window
refuses what a legitimate client sent in time (`server.rs:283-284`). `SessionPause` is reset by
the client and offline doors only: a session hosted from a solo game may begin paused at an
old tick, with `AutoPaused` reset. A focus lost and regained before a pass leaves
`HostUnfocused` for ever (`pause.rs:147`), so the focus is not part of `AutomaticPauseEnds`.
`pauses.last()` relabels a pause asked for twice. A first sync during a pause captures
nothing. The first snapshot may be applied, and a tick run, before the welcome of the same
frame: the client mints without its slot (`tracked_entity.rs:157-158`). An announcement
processed after a hosting lobby went in the same frame marks the former host as verified; a
mismatch heard while a solo game is handed to a lobby ends the solo game; back-to-back
lobbies without a frame between keep the latch and the role. After a change of host nobody
tells the new one of a desync found before, the latch survives a re-join, and reports that
reach a new host before its verdict are dropped.

## 6. Proofs

For every value of the constants, under the named assumptions that TLC evaluates on every
run. Where a theorem needs more, it is a hypothesis in its statement and given below.

**`TickRollbackProofs`.** `Typing` in every mode. Under `ReplaysOnly` (no scrub is resumed,
nothing is spawned between ticks): `Invariance`, that `IInv` is inductive, and from it
`LifetimesAreExact`, `IndexIsExact`, `IdsAreMintedOnce` and `RewindsAreExact`, the
refinement of `RewindableWorld`. `LifetimesMatchHistory` is what makes a rewind exact and is
not inductive: what a capture adds to it depends on how the lifetimes stand to the live
world, what a truncation keeps of it on where the last capture is, and what a replay mints
on which ids the record knows. `IInv` adds those: `ClockMatchesCaptures` (nothing is
captured past `last_captured`, and where that is in each phase), `LifetimesMatchWorld` (a
known id is live or has died, by now), `KnownIsMinted` (the allocator is past every known
id, today and in every capture since its birth). There is a lemma per action. The
operators on one lifetime are treated once, at the head of `TickRollbackProofs`. The rewind is the long
one: which ids are live after it (buried, revived, rebuilt, kept), then scrub and rollback
from it. `DressIsRight` and `ReapingIsSafe` add `OInv`: an id is one occupant at a time, so
that what an entity was minted as, what it is dressed for and what every retained capture
that holds its id says of it agree (`OccupantsAgree`), and a tombstone's tick is after every
capture up to now that holds its id (`TombstonesArePast`), so that what is reaped is in no
capture kept.

**`TickedEventsProofs`.** `Typing`, and `TimelineIsLogged`, `NothingIsPresentedTwice`,
`CorrectionsAreHeard`, without hypotheses. `IInv` says that the records are of the kept
ticks, that counts are of what was said (`SaidIsCounted`), that the log is what was said
past the window's edge (`LogIsOfTheSaid`) and that what was heard is what was told
(`HeardIsTold`). What a read adds is `Fresh`, a sequence over an ordered set: that it has an
event as often as there are places not heard yet is proved by well-founded induction on the
places, and that is what makes the counts of `NeverTwice` and `TruthIsHeard` come out.

**`HostClockProofs`.** `Typing`; `AskedPausesStand`, from `OwnResumesMeetOwnPauses`: an own
resume that waits in a buffer meets an automatic pause or a request that waits with it; and
`LossNoticed`, under `LetsTheBudgetThrough` (virtual time lets at least the budget through,
the default), from `NothingGoesUncounted`, which follows the accumulator through a frame.

**`SnapshotStreamProofs`.** `Typing` and `FreshestApplied` without hypotheses;
`RebuildsAreSent` under `NothingIsRated` (every type on every packet, the default of
`SendRates`; section 5 has what a rate does): a rebuilt body has the components of the one
sent and every resource that one has; a resource that one has not may be as an earlier
packet of the connection had it (section 5), and as nothing else; `BaselinesAreHeld` under `KeepsTheRing` (the
client keeps at least as many bodies as the host keeps baselines: 64 against 32). The
invariant says what is on the link (`DownIsSent`: every packet of this connection is a body
that was sent, or what that body says over another that was), what the ring holds
(`RingIsRecent`: the last packets, one after the other), that both ends forget before the
link is made again (`EndsForget`) and, for the baselines, `AcksAreHeld`: a seq the client
acknowledged, in whatever place the acknowledgement is, is held or its place was wanted for
as many newer ones as are kept. What a delta puts right over any body, and what it leaves (`DeltaSays`), that a body rebuilt
on one that tells of its packet tells of the next (`RebuiltTells`: what it has left of a
resource that is gone was in a packet before, by the same on the baseline), that forgetting the least seq keeps it so (`RecordedIs`, from
`LeastIsPast`) and that a packet stays one that was sent (`SentStays`) are lemmas.

**`LockstepProofs`.** `Typing`, `SameRulingsEverywhere` and `NothingIsLeftOut`, without
hypotheses: any buffers, horizons, trust windows, requests, resizes and departures.
`SameRulings` needs `RulingsAreTrue` (a ruling on its way, in a stash or in a catch-up is what
the host ran), `TrackersAreTrue` (of a tick the host ran a client's tracker has that ruling
or nothing) and `HostKeeps` (the host keeps what a pending join will need). `NoHoles` needs
`HandedOnce` and `MissesNothing`: every connected client is sent each ruling from its
snapshot on, even before it is accepted, and a catch-up has the rest. `PausesAsAsked`, under
`~Hasty`, from `PauseInOrder`: what is staged for the next tick, what is asked and the pause
as it stands come to what was asked last. `EachActionOnce`, without hypotheses, from
`Numbered`: what has run, what the host holds of ticks to come and what is on its way are
actions of that player's log for that tick, each once, and the batches share none with each
other or with what they will be joined to.
`WaitsAreHeard`, under `HorizonReaches` (no client buffer is past the host's
`action_horizon`: 96 against 128, `plugin.rs:37-39`), from `Answered`, about every tick past
the host's clock, and `LetIn`: who has not been let in has no host on its roster, so makes no
pass and has scheduled nothing past the host's clock. `ActionsReachTheirTick`, under that,
`WindowIsBounded`, `~Shrinks` and `MaxJoins = 1`, from `InOrder`: the batches on their way are
the last ticks scheduled, in order, and what the host has heard of, or waited for, comes
before them (`WordsInOrder`); so a batch that carries an action meets a tick that has not
run, and the action is in each entry and history of that tick from then on
(`ActionIsCarried`). A buffer that shrinks schedules on a tick already spoken for, which may
have run (section 5), and who connects again does not send again what its link lost.
`SameRosters` (`RosterAgreement`), under `~LeaveMidJoin` and `MenuClock \subseteq {0}` and for
any join window, since a joiner is seeded from who is a participant at its acceptance, not
from the roster of its snapshot's tick: so a seed need only be right but for players that the
next tick's ruling says join or leave (`Agrees`), and running that ruling makes it the host's
roster (`AgreedGoOn`). On the host, who has joined by now differs from the roster only by what
is staged, has left or is due (`HostRosters`, `SeedsOfNow`); that stays so of the snapshot's
tick as nobody of them leaves (`JoinedStay`). A client sees no name before it can have passed
the tick of its join (`InStep`), so those who join later come by the rulings alone, and the
one message that seeds it finds its roster empty (`SeedIn`). With a participant that leaves
in between, or a client that connects with a clock that ran, it is false: section 5 has the
first, section 2 (Lockstep) the second.

**`RegistriesProofs`.** `BackToWhatWas` (`GoesBackExactly`), without hypotheses. The types a
peer answers for are all it registered, or in a session a client's local ones (`Own`); for
those the inductive invariant `HistoriesStand` says that every capture the window keeps is in
the histories as it was (`Recorded`), that nothing in them is ahead of the clock (`NotAhead`),
that no history holds a resource that was not there (`There`), and that nothing else is in
them (`Only`). A type that is registered late or networked late joins with an empty history
or the one it has, and the host's word touches no type of `Own` (`ToldFits`).
`ReadAsItWasWritten` (`ReadAsWritten`), under `NamesIdentify`: of one sort of registry, a
networked name is one type's in all the builds. The registries assert that of one build
("a wire name is a type's identity on the wire and must be unique", `registry.rs:231`;
`resource_registry.rs:233`), but for the upgrade of section 5; of two builds nothing can, as
a hash of names is all they exchange, and it is what a name is for. The builds of the run
keep to it, `SharedNames` does not, and with those the invariant is false.
Three parts. Elements in an order have the places from the first to the last, each once
(`Ranks`, by cardinalities), so the networked entries and the indices of a mask do (`WireOrderIs`, `IterIs`). `Structure`: an entry is of its build, a wire order is that of the registry and, once
fixed, stays it, and a client that agreed has its host's names at every place. So the two
read a body alike (`SameSays`), and reading what one encoded gives what was saved
(`SaysWhatWas`). `Knows`: nothing told is ahead of either clock, and words come in
order (`Ordered`); the word under way says what the host still has of its tick
(`WordIsTrue`), which it does not capture again, the first one neither (`Sent`, `Whole`); and
a client that stands at a tick it was told of stands as it was told, so that what it captures
next, or captures there again, is so too (`WordStands`).

**`ChecksumExchangeProofs`.** `Typing` and `DriftsAreFound` in every mode; `NothingElseIsReported`
and `HostIsTold` under `~EarlyReports` and `~LateReporters` (section 5 has what each of them
on does). `DriftIsFound` speaks of a report that has been heard, and is inductive once it says
what becomes of every report: it is on its way, missed, parked, or of a tick the client no
longer has or has the same of (`ToldOf`), which needs that no log has two samples of a tick
(`LogsAreOrderly`). `NoFalseAlarm` needs where everybody is (`Whereabouts`: while a change of host is
decided only those who await it are in the session, and none of them is past the resume) and
that what is sampled, on its way or parked is of the session's rulings (`LogsAreRuled`,
`WireIsRuled`, `ParkedIsRuled`), but for what a verdict will have its receiver forget.
`HostLearns` adds `WordIsKept` (what is said of the host's world is as the host has it) and
`FoundIsKnown` (what a client found is on its way to the host or has been heard).

**`EnsembleSessionProofs`.** `Typing` in every mode, and four results in three layers, each
inductive on top of the one before. What an operator of the model does to a peer's world is
a lemma of its own (`ResetIs`, `ExitIs`, `DoorsAre`, `ForwardIs`, ...), and so is each
action (`LobbyGoesIs`, `TurnStep`, `SessionStep`, ...); the lemmas about the invariants use
nothing else. `Lasting` holds without hypotheses: where in a frame what may still be waiting
(`FrameOrder`), that a role is of a lobby and the state of a role, but for what the doors to
come will end (`RolesFollowLobbies`, `StateFollowsRoles`), and that a word said, a world or
a latch is remembered by something that makes those doors run (`Remembered`,
`KeptIsRemembered`, `Clean`). `LeftIsFresh` follows from it. `HeldToItsHost`, under
`~HandBack`, adds of whom each thing is: a word of another host than the present one is
about to be forgotten by the change of hosts or by a door (`StaleGoes`), what waits to be
applied is of a host that was compared (`Arrives`), and so the world and the slot of a
client that plays on are its present host's (`ItsWorld`, `ItsSlot`): `NoWorldOfAnother` and
`OneSlotOneHolder`. That no two clients of a host hold one slot is inductive by itself
(`OneHolder`, `OneHolderKept`), with no hypothesis: an assignment takes a slot nobody holds
(`AssignedIs`), the announcements of a frame are handled one after the other, each on the
slots the last one left (`KeepsHolders`, `HoldersOnAndOn`), and all else only gives slots
back. `HeldUntilHeard`, under `~LossAtTheDoor` too, says of a client whose
host is out of reach that it is held or about to be (`OutOfReach`), and of one that is not
held for its world that it has it (`Synced`), which is `TicksInItsHostsWorld`. Each
hypothesis is a case section 5 shows to go wrong. The announcements of a frame are handled
one after the other, a fold: that such a fold exists for every number of them, with the
steps between (`FoldsExist`, `ChecksInTurn`), is proved from the least number without one.

What stays with TLC. Liveness under fairness and `ENABLED` (`Progress`, `JoinersCatchUp`,
`AutomaticPauseEnds`, `NotHeldForEver`, `NobodyIsStuck`) are out of the prover's reach.
What a fold comes to for every length can be proved only by hand for that fold, as above,
and was not for a packet of presses or a replay of several ticks.
`SnapshotClient`, `InputStream` and `LockstepMigration` are model-checked only. No module declares a
`RECURSIVE` operator.

## 7. Plan

1. `LockstepMigration`: `SameRulings` across the change of host.
2. `SnapshotClient` and `InputStream`: their invariants, with a fold's effect by hand.
3. Models: lifetimes of entities spawned between ticks, the list of the reborn on the
   client, a second change of host.

## 8. Not modelled

Presentation (interpolation, smoothing, diagnostics) and the estimators of the adaptive
buffers are floating point without control; the encoding of one value, hashes and compression are data;
the physics adapter is its engine; the test harness, examples and vendored code are not
the system. The participants' grants of a pause policy, a client's soft hold, the overlay
and the practice presets of the local session, and a host's rate of correction are not
followed.
