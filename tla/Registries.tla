------------------------------ MODULE Registries ------------------------------
(***************************************************************************)
(* The registries of a host and a client, and what hangs on them           *)
(* (registry.rs, resource_registry.rs; networked_registry.rs, snapshot.rs, *)
(* handshake.rs).  A registry is what a peer's plugins made of it: which   *)
(* types are captured and put back, which of them travel, and under which  *)
(* name.  A value travels with no type: only its place says what it is,    *)
(* and places are ranks among the networked names, fixed the first time a  *)
(* peer announces them.                                                    *)
(*                                                                         *)
(* One tracked entity stands for all, as the registries take them one by   *)
(* one; existence is Lifetimes and its users', deltas are SnapshotStream's,*)
(* the messages of the handshake EnsembleSession's.  A replay is the ticks *)
(* that follow a rewind: how many, and when, is SnapshotClient's.  Names   *)
(* are numbers, as only their order is used, and no two lists of names     *)
(* have one hash.                                                          *)
(***************************************************************************)
EXTENDS Naturals, Sequences, FiniteSets, Functions

CONSTANTS
  Host, Client,
  Component, Resource, \* the Rust types
  Builds,    \* of each peer: the sequences of registrations its plugins may make
  Late,      \* how many of them may come while the app runs
  Alone,     \* bound: the peers that play outside a session
  Window,    \* HistoryBufferTicks
  Lead,      \* bound: how far a client in a session is ahead of its host
  MaxTick, MaxWrites, MaxJoins \* bounds on a clock, on what each game writes, on the joins

Peer == {Host, Client}
Type == Component \cup Resource

(* Kinds of registry: TickedComponentRegistry, TickedResourceRegistry. *)
Sort == {"component", "resource"}
SortOf(T) == IF T \in Component THEN "component" ELSE "resource"

(* A registration: the type, its wire name, whether it travels, whether a leave *)
(* lets it be.                                                                  *)
Registration == [type : Type, name : Nat, networked : BOOLEAN, kept : BOOLEAN]

(* What a plugin may call: register_ticked_component or _resource, its variant  *)
(* that a leave does not reset, and the networked ones, under a name.           *)
Local(T)        == [type |-> T, name |-> 0, networked |-> FALSE, kept |-> FALSE]
Kept(T)         == [type |-> T, name |-> 0, networked |-> FALSE, kept |-> TRUE]
AsNetworked(T, n) == [type |-> T, name |-> n, networked |-> TRUE, kept |-> FALSE]

ASSUME RegistriesAssumption ==
  /\ Host # Client /\ Component \cap Resource = {}
  /\ \A p \in Peer : \A build \in Builds[p] : build \in Seq(Registration)
  /\ Alone \subseteq Peer /\ {Late, Window, Lead, MaxTick, MaxWrites, MaxJoins} \subseteq Nat

VARIABLES
  todo,   \* what a peer's plugins have yet to register
  reg,    \* RegistryInner::entries, of both registries
  wire,   \* Frozen::entries: the registration index at each wire index, or Open
  tick,   \* CurrentTick
  world,  \* the value of each type, or Absent
  past,   \* WorldActions, ResourceActions: tick -> value, of each type
  hosting,\* whether the host has opened its lobby
  link,   \* of the client: "out", "announced", "agreed" or "refused"
  word,   \* the snapshot under way, or NoWord
  heard,  \* the ticks the client has been told of in this session
  was,    \* history: the registered part of the world at each capture
  writes, joins \* bounds

vars == <<todo, reg, wire, tick, world, past, hosting, link, word, heard, was, writes, joins>>

Absent     == <<>>
Default(T) == <<T, 0>>
New(T)     == <<T, 1>>
Open       == <<0>>
NoWord     == [tick |-> 0, entity |-> [present |-> {}, bytes |-> <<>>], resources |-> <<Open>>]
Empty      == <<>>

Put(f, k, v)   == [x \in DOMAIN f \cup {k} |-> IF x = k THEN v ELSE f[x]]
TypesOf(es)    == {e.type : e \in Range(es)}

Entries(p)     == Range(reg[p]["component"]) \cup Range(reg[p]["resource"])
Registered(p)  == {e.type : e \in Entries(p)}
Networked(p)   == {e.type : e \in {x \in Entries(p) : x.networked}}

-----------------------------------------------------------------------------
(* REGISTRATION *)

(* register_inner of either registry: a type once, a networked name once. *)
IsNew(es, e) ==
  /\ e.type \notin TypesOf(es)
  /\ e.networked => \A o \in Range(es) : o.networked => o.name # e.name

(* register_inner of the resources: what is rolled back already may be networked *)
(* too, once.  Its name is not compared with the others'.                        *)
IsUpgrade(es, e) ==
  /\ e.type \in Resource /\ e.networked
  /\ \E o \in Range(es) : o.type = e.type /\ ~o.networked

Upgraded(es, e) ==
  [i \in DOMAIN es |-> IF es[i].type = e.type
                       THEN [e EXCEPT !.kept = es[i].kept] ELSE es[i]]

(* A plugin registers a type.  Anything else the registries refuse with a panic. *)
Register(p) ==
  /\ todo[p] # Empty
  /\ LET e == Head(todo[p])
         s == SortOf(e.type)
     IN  /\ wire[p][s] = Open
         /\ \/ IsNew(reg[p][s], e) /\ reg' = [reg EXCEPT ![p][s] = Append(@, e)]
            \/ IsUpgrade(reg[p][s], e) /\ reg' = [reg EXCEPT ![p][s] = Upgraded(@, e)]
  /\ todo' = [todo EXCEPT ![p] = Tail(@)]
  /\ UNCHANGED <<wire, tick, world, past, hosting, link, word, heard, was, writes, joins>>

(* Frozen: the networked entries by name, those of one name as registered. *)
Travelling(es) == {i \in DOMAIN es : es[i].networked}
UpTo(es, i) ==
  {j \in Travelling(es) : es[j].name < es[i].name \/ (es[j].name = es[i].name /\ j <= i)}
WireOrder(es) ==
  [k \in 1..Cardinality(Travelling(es)) |->
     CHOOSE i \in Travelling(es) : Cardinality(UpTo(es, i)) = k]

Frozen(p) == [s \in Sort |-> IF wire[p][s] = Open THEN WireOrder(reg[p][s]) ELSE wire[p][s]]

(* wire_names, and what wire_hash is a hash of. *)
WireNames(p, s) == [k \in DOMAIN wire[p][s] |-> reg[p][s][wire[p][s][k]].name]

(* wire_entry, wire_index_of *)
TypeAt(p, s, k) == reg[p][s][wire[p][s][k]].type
WireIndex(p, T) == CHOOSE k \in DOMAIN wire[p][SortOf(T)] : TypeAt(p, SortOf(T), k) = T

(* TickedRegistryHandshake::of *)
Announced(p) == [s \in Sort |-> WireNames(p, s)]

(* Mutant: the resources are not compared. *)
MatchesComponents == Announced(Host)["component"] = Announced(Client)["component"]

(* TickedRegistryHandshake::matches *)
Matches == Announced(Host) = Announced(Client)

-----------------------------------------------------------------------------
(* HISTORY *)

(* capture_all of both registries: a component that is not there is captured as *)
(* not there, a resource that is not there is not captured.                     *)
CaptureAll(p, w, h, t) ==
  [T \in Type |-> IF T \in Registered(p) /\ (T \in Resource => w[T] # Absent)
                  THEN Put(h[T], t, w[T]) ELSE h[T]]

(* The part of a world the registries answer for. *)
Part(p, w) == RestrictDomain(w, LAMBDA T : T \in Registered(p))

(* restore, for each of the types: what has nothing saved at t is left as it is. *)
Restored(types, w, h, t) ==
  [T \in Type |-> IF T \in types /\ t \in DOMAIN h[T] THEN h[T][t] ELSE w[T]]

(* truncate_all_after, prune_all_before, clear_all *)
TruncateAfter(h, t) == [T \in Type |-> RestrictDomain(h[T], LAMBDA u : u <= t)]
PruneBefore(h, t)   == [T \in Type |-> RestrictDomain(h[T], LAMBDA u : u >= t)]
Cleared             == [T \in Type |-> Empty]

(* capture_initial_state: tick 0, once there is an entity to capture. *)
InitialCapture(p, w, t, h) ==
  IF /\ t = 0 /\ reg[p]["component"] # Empty
     /\ \E T \in Component : w[T] # Absent
     /\ \A T \in Component : 0 \notin DOMAIN h[T]
  THEN CaptureAll(p, w, h, 0) ELSE h

InitialWas(p, w, t, h) == IF InitialCapture(p, w, t, h) = h THEN was[p] ELSE Put(was[p], 0, Part(p, w))

(* Mutant: the resources that never travel are not put back. *)
LocalComponents(p) == Component \cap (Registered(p) \ Networked(p))

(* Those restore_local_only puts back. *)
LocalOnly(p) == Registered(p) \ Networked(p)

(* dispose_world and reset_all: the entities go, a registered resource that is *)
(* there is its default again unless it is kept.                               *)
Disposed(p, w) ==
  LET kept == {e.type : e \in {x \in Entries(p) : x.kept}}
  IN  [T \in Type |-> CASE T \in Component -> Absent
                        [] T \in (Resource \cap Registered(p)) \ kept /\ w[T] # Absent -> Default(T)
                        [] OTHER -> w[T]]

-----------------------------------------------------------------------------
(* THE WIRE *)

HasAt(p, T, t) == t \in DOMAIN past[p][T] /\ past[p][T][t] # Absent

(* TypeMask::iter: the wire indices of a mask, ascending. *)
Place(k, mask) == Cardinality({j \in mask : j <= k})
Iter(mask)     == [i \in 1..Cardinality(mask) |-> CHOOSE k \in mask : Place(k, mask) = i]

(* present_at: the mask of the wire indices with a value saved. *)
Mask(p, s, t) == {k \in DOMAIN wire[p][s] : HasAt(p, TypeAt(p, s, k), t)}

(* encode_one at every index of a mask: the values one after the other. *)
Encoded(p, s, t) ==
  LET ks == Iter(Mask(p, s, t)) IN [i \in DOMAIN ks |-> past[p][TypeAt(p, s, ks[i])][t]]

(* serialize_all of the resources: each with its index. *)
SerializeAll(p, t) ==
  LET ks == Iter(Mask(p, "resource", t))
  IN  [i \in DOMAIN ks |-> <<ks[i], Encoded(p, "resource", t)[i]>>]

(* EntityRecord: the values follow in the order of the mask, with nothing between them. *)
Record(p, t) == [present |-> Mask(p, "component", t), bytes |-> Encoded(p, "component", t)]

(* build_full_body *)
Body(p, t) == [tick |-> t, entity |-> Record(p, t), resources |-> SerializeAll(p, t)]

(* matches_at: what is saved encodes to what the body has. *)
MatchesAt(p, body) == Body(p, body.tick) = body

(* decode_one at every index of the mask: what is next in the bytes is taken for the *)
(* type this peer has there.  finish_tick: what the mask leaves out is not there.    *)
Decoded(p, body, T) ==
  LET at == WireIndex(p, T)
  IN  IF at \in body.entity.present
      THEN body.entity.bytes[Place(at, body.entity.present)] ELSE Absent

(* deserialize_and_apply_all: of a resource the body leaves out it says nothing. *)
Deserialized(p, body) ==
  [T \in {T \in Networked(p) \cap Resource : \E pair \in Range(body.resources) : pair[1] = WireIndex(p, T)}
     |-> (CHOOSE pair \in Range(body.resources) : pair[1] = WireIndex(p, T))[2]]

(* What a body says of this peer's types. *)
Says(p, body) ==
  [T \in (Networked(p) \cap Component) \cup DOMAIN Deserialized(p, body) |->
     IF T \in Component THEN Decoded(p, body, T) ELSE Deserialized(p, body)[T]]

(* apply_full_body, on the world and on the histories *)
AppliedTo(w, said) == [T \in Type |-> IF T \in DOMAIN said THEN said[T] ELSE w[T]]
RecordedIn(h, said, t) == [T \in Type |-> IF T \in DOMAIN said THEN Put(h[T], t, said[T]) ELSE h[T]]

-----------------------------------------------------------------------------
Init ==
  /\ todo \in [Peer -> UNION {Builds[p] : p \in Peer}] /\ \A p \in Peer : todo[p] \in Builds[p]
  /\ reg = [p \in Peer |-> [s \in Sort |-> Empty]]
  /\ wire = [p \in Peer |-> [s \in Sort |-> Open]]
  /\ tick = [p \in Peer |-> 0]
  /\ world = [p \in Peer |-> [T \in Type |-> Default(T)]]
  /\ past = [p \in Peer |-> Cleared]
  /\ hosting = FALSE /\ link = "out" /\ word = NoWord /\ heard = {}
  /\ was = [p \in Peer |-> Empty] /\ writes = [p \in Peer |-> 0] /\ joins = 0

Built(p)  == Len(todo[p]) <= Late
InSession(p) == IF p = Host THEN hosting ELSE link # "out"

(* A client's clock is held until it has heard of its host's world. *)
MayTick(p) ==
  /\ Built(p) /\ tick[p] < MaxTick
  /\ IF ~InSession(p) THEN p \in Alone
     ELSE p = Client => link = "agreed" /\ heard # {} /\ tick[Client] < tick[Host] + Lead

(* advance_one_tick: the game writes what it writes, the tick is captured, what is *)
(* older than the window is forgotten.                                             *)
Tick(p) ==
  /\ MayTick(p)
  /\ \E w \in {world[p]} \cup
          UNION {{[world[p] EXCEPT ![T] = v] : v \in {New(T), Absent}} : T \in Registered(p)} :
       LET t     == tick[p] + 1
           first == InitialCapture(p, world[p], tick[p], past[p])
           all   == CaptureAll(p, w, first, t)
       IN  /\ w # world[p] => writes[p] < MaxWrites
           /\ writes' = [writes EXCEPT ![p] = IF w = world[p] THEN @ ELSE @ + 1]
           /\ world' = [world EXCEPT ![p] = w]
           /\ tick' = [tick EXCEPT ![p] = t]
           /\ past' = [past EXCEPT ![p] = IF t > Window THEN PruneBefore(all, t - Window) ELSE all]
           /\ was' = [was EXCEPT ![p] =
                        RestrictDomain(Put(InitialWas(p, world[p], tick[p], past[p]), t, Part(p, w)),
                                       LAMBDA u : u + Window >= t)]
  /\ UNCHANGED <<todo, reg, wire, hosting, link, word, heard, joins>>

(* rollback_and_resimulate, by a peer that is alone. *)
Rewind(p) ==
  /\ ~InSession(p)
  /\ \E t \in {u \in DOMAIN was[p] : u < tick[p]} :
       /\ world' = [world EXCEPT ![p] = Restored(Registered(p), @, past[p], t)]
       /\ past' = [past EXCEPT ![p] = TruncateAfter(@, t)]
       /\ was' = [was EXCEPT ![p] = RestrictDomain(@, LAMBDA u : u <= t)]
       /\ tick' = [tick EXCEPT ![p] = t]
  /\ UNCHANGED <<todo, reg, wire, hosting, link, word, heard, writes, joins>>

(* enter_host: the world is kept, its past is not. *)
OpenLobby ==
  /\ Built(Host) /\ ~hosting /\ hosting' = TRUE
  /\ tick' = [tick EXCEPT ![Host] = 0]
  /\ past' = [past EXCEPT ![Host] = InitialCapture(Host, world[Host], 0, Cleared)]
  /\ was' = [was EXCEPT ![Host] =
               IF past'[Host] = Cleared THEN Empty ELSE Put(Empty, 0, Part(Host, world[Host]))]
  /\ UNCHANGED <<todo, reg, wire, world, link, word, heard, writes, joins>>

(* enter_client, and the two announcements. *)
Join ==
  /\ Built(Client) /\ hosting /\ link = "out" /\ joins < MaxJoins
  /\ link' = "announced" /\ joins' = joins + 1
  /\ wire' = [p \in Peer |-> Frozen(p)]
  /\ tick' = [tick EXCEPT ![Client] = 0]
  /\ world' = [world EXCEPT ![Client] = Disposed(Client, @)]
  /\ past' = [past EXCEPT ![Client] = Cleared]
  /\ was' = [was EXCEPT ![Client] = Empty]
  /\ UNCHANGED <<todo, reg, hosting, word, heard, writes>>

(* check_registry, on both sides. *)
Compare ==
  /\ link = "announced"
  /\ link' = IF Matches THEN "agreed" ELSE "refused"
  /\ UNCHANGED <<todo, reg, wire, tick, world, past, hosting, word, heard, was, writes, joins>>

(* BroadcastSnapshotCommand: to a client that is verified; one that is under way is lost. *)
Send ==
  /\ link = "agreed" /\ tick[Host] \notin heard
  /\ \E T \in Type : tick[Host] \in DOMAIN past[Host][T]
  /\ word' = Body(Host, tick[Host])
  /\ UNCHANGED <<todo, reg, wire, tick, world, past, hosting, link, heard, was, writes, joins>>

(* prediction_matches *)
Agrees == heard # {} /\ word.tick < tick[Client] /\ MatchesAt(Client, word)

Receive ==
  /\ link = "agreed" /\ word # NoWord
  /\ LET t    == word.tick
         said == Says(Client, word)
         w    == AppliedTo(world[Client], said)
         h    == RecordedIn(past[Client], said, t)
     IN  /\ heard' = heard \cup {t}
         /\ \/ Agrees /\ UNCHANGED <<tick, world, past, was>>
            \/ /\ t >= tick[Client]
               /\ tick' = [tick EXCEPT ![Client] = t]
               /\ world' = [world EXCEPT ![Client] = w]
               /\ past' = [past EXCEPT ![Client] = CaptureAll(Client, w, h, t)]
               /\ was' = [was EXCEPT ![Client] = Put(@, t, Part(Client, w))]
            \/ /\ t < tick[Client] /\ ~Agrees
               /\ tick' = [tick EXCEPT ![Client] = t]
               /\ world' = [world EXCEPT ![Client] = Restored(LocalOnly(Client), w, h, t)]
               /\ past' = [past EXCEPT ![Client] = TruncateAfter(h, t)]
               /\ was' = [was EXCEPT ![Client] = RestrictDomain(@, LAMBDA u : u <= t)]
  /\ word' = NoWord
  /\ UNCHANGED <<todo, reg, wire, hosting, link, writes, joins>>

(* leave_client_role, leave *)
Leave ==
  /\ link # "out" /\ link' = "out" /\ word' = NoWord /\ heard' = {}
  /\ tick' = [tick EXCEPT ![Client] = 0]
  /\ world' = [world EXCEPT ![Client] = Disposed(Client, @)]
  /\ past' = [past EXCEPT ![Client] = Cleared]
  /\ was' = [was EXCEPT ![Client] = Empty]
  /\ UNCHANGED <<todo, reg, wire, hosting, writes, joins>>

Next ==
  \/ \E p \in Peer : Register(p) \/ Tick(p) \/ Rewind(p)
  \/ OpenLobby \/ Join \/ Compare \/ Send \/ Receive \/ Leave

Spec == Init /\ [][Next]_vars

-----------------------------------------------------------------------------
(* What the client's history holds at a tick it was told of is what the host     *)
(* captured then, type by type: no value is read as another type's, whatever     *)
(* order the two registered in and whatever else they registered.  A component   *)
(* the host did not have is one the client does not have; a resource the host    *)
(* did not have is left to the client.                                           *)
ReadAsWritten ==
  \A T \in Networked(Host) :
    \A t \in heard \cap DOMAIN past[Host][T] \cap DOMAIN past[Client][T] :
      past[Client][T][t] = past[Host][T][t]

(* A step back in a session or out of it puts every registered type back to what *)
(* it was when the tick was captured, but for those the host's word is about; a  *)
(* resource that was not there then is left as it is.                            *)
GoesBackExactly ==
  [][\A p \in Peer :
       LET t      == tick'[p]
           sorts  == IF InSession(p) THEN Registered(p) \ Networked(p) ELSE Registered(p)
       IN  t < tick[p] /\ t \in DOMAIN was[p] /\ UNCHANGED <<hosting, link>>
             => \A T \in sorts \cap DOMAIN was[p][t] :
                  world'[p][T] = IF T \in Resource /\ was[p][t][T] = Absent
                                 THEN world[p][T] ELSE was[p][t][T]]_vars
===============================================================================
