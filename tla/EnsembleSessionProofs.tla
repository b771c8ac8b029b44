------------------------- MODULE EnsembleSessionProofs -------------------------
(***************************************************************************)
(* Proofs about EnsembleSession, for any clients, slots, kinds of hosts,   *)
(* time-out and bounds: a peer that left a session is as a fresh one, no   *)
(* world is built on the word of a host that was not compared, a slot is   *)
(* one peer's at a time, and a client ticks only in its host's world.      *)
(***************************************************************************)
EXTENDS EnsembleSession, TLAPS, WellFoundedInduction

LEMMA Assumed ==
  /\ Timeout \in Nat \ {0} /\ MaxEpoch \in Nat /\ MaxFaults \in Nat /\ MaxNews \in Nat
  /\ Slots \subseteq Nat \ {0} /\ None \notin Nat /\ None \notin Client
  /\ Epochs \subseteq Nat \ {0} /\ Client \cap Nat = {} /\ None \notin Slots
  /\ None \notin Session /\ None \notin {"reconnect", "successor", "newHost"} /\ None \notin Epochs
<1>1. Epochs \subseteq Nat \ {0}
  BY SessionAssumption DEF Epochs
<1> QED
  BY <1>1, SessionAssumption, NoneAssumption DEF Session

-----------------------------------------------------------------------------
(* ANNOUNCEMENTS, ONE AFTER THE OTHER *)

LEMMA LeastNumber ==
  ASSUME NEW T \in SUBSET Nat, T # {}
  PROVE  \E m \in T : \A k \in T : m <= k
<1> DEFINE R == OpToRel(<, Nat)
<1>1. IsWellFoundedOn(R, Nat)
  BY NatLessThanWellFounded
<1> HIDE DEF R
<1>2. PICK m \in T : \A k \in T : ~(<<k, m>> \in R)
  BY <1>1, WFMin
<1>3. \A k \in T : ~(k < m)
  BY <1>2 DEF R, OpToRel
<1> QED
  BY <1>2, <1>3

LEMMA AllNumbers ==
  ASSUME NEW T \in SUBSET Nat, 0 \in T, \A n \in T : n + 1 \in T
  PROVE  T = Nat
<1> SUFFICES ASSUME Nat \ T # {} PROVE FALSE
  OBVIOUS
<1>1. PICK m \in Nat \ T : \A k \in Nat \ T : m <= k
  <2>1. Nat \ T \in SUBSET Nat
    OBVIOUS
  <2> QED
    BY <2>1, LeastNumber
<1>2. m # 0 /\ m - 1 \in Nat
  BY <1>1
<1>3. m - 1 \in T
  BY <1>1, <1>2
<1> QED
  BY <1>1, <1>2, <1>3

(* What a fold over the first k places is, on every set of them. *)
Folds(f, p, s, k) ==
  f = [t \in SUBSET (1..k) |-> IF t = {} THEN p ELSE Compared(f[t \ {Max(t)}], s[Max(t)])]

LEMMA GreatestIs ==
  ASSUME NEW k \in Nat, NEW t \in SUBSET (1..(k + 1)), k + 1 \in t
  PROVE  Max(t) = k + 1
<1>1. \A y \in t : k + 1 >= y
  OBVIOUS
<1>2. \A x \in t : (\A y \in t : x >= y) => x = k + 1
  OBVIOUS
<1>3. Max(t) \in t /\ \A y \in t : Max(t) >= y
  BY <1>1, Zenon DEF Max
<1> QED
  BY <1>2, <1>3

LEMMA FoldsExist ==
  ASSUME NEW p, NEW s, NEW n \in Nat
  PROVE  \E f : Folds(f, p, s, n)
<1> DEFINE T == {k \in Nat : \E f : Folds(f, p, s, k)}
<1>1. 0 \in T
  <2> DEFINE f == [t \in SUBSET (1..0) |-> p]
  <2>1. f = [t \in SUBSET (1..0) |-> IF t = {} THEN p ELSE Compared(f[t \ {Max(t)}], s[Max(t)])]
    OBVIOUS
  <2> QED
    BY <2>1 DEF Folds
<1>2. ASSUME NEW k \in T PROVE k + 1 \in T
  <2>1. PICK f : Folds(f, p, s, k)
    OBVIOUS
  <2> DEFINE g == [t \in SUBSET (1..(k + 1)) |->
                     IF k + 1 \in t THEN Compared(f[t \ {k + 1}], s[k + 1]) ELSE f[t]]
  <2>2. ASSUME NEW t \in SUBSET (1..(k + 1))
        PROVE  g[t] = IF t = {} THEN p ELSE Compared(g[t \ {Max(t)}], s[Max(t)])
    <3>1. CASE k + 1 \in t
      <4>1. Max(t) = k + 1 /\ t # {} /\ t \ {k + 1} \in SUBSET (1..(k + 1)) /\ k + 1 \notin t \ {k + 1}
        BY <3>1, GreatestIs
      <4> QED
        BY <3>1, <4>1
    <3>2. CASE k + 1 \notin t
      <4>1. t \in SUBSET (1..k) /\ t \ {Max(t)} \in SUBSET (1..(k + 1)) /\ k + 1 \notin t \ {Max(t)}
        <5>1. \A x \in t : x \in 1..k
          BY <3>2
        <5> QED
          BY <3>2, <5>1
      <4>2. f[t] = IF t = {} THEN p ELSE Compared(f[t \ {Max(t)}], s[Max(t)])
        BY <2>1, <4>1 DEF Folds
      <4> QED
        BY <3>2, <4>1, <4>2
    <3> QED
      BY <3>1, <3>2
  <2>3. g = [t \in SUBSET (1..(k + 1)) |-> IF t = {} THEN p ELSE Compared(g[t \ {Max(t)}], s[Max(t)])]
    <3>1. g = [t \in SUBSET (1..(k + 1)) |-> g[t]]
      OBVIOUS
    <3> HIDE DEF g
    <3> QED
      BY <2>2, <3>1
  <2> HIDE DEF g
  <2> QED
    BY <2>3 DEF Folds
<1>3. T = Nat
  <2> HIDE DEF T
  <2>1. T \in SUBSET Nat
    BY DEF T
  <2> QED
    BY <1>1, <1>2, <2>1, AllNumbers
<1> QED
  BY <1>3

LEMMA ChecksInTurn ==
  ASSUME NEW p, NEW n \in Nat, DOMAIN inbox.registry = 1..n
  PROVE  \E g : /\ g[0] = p /\ CheckRegistry(p) = g[n]
                /\ \A i \in 1..n : g[i] = Compared(g[i - 1], inbox.registry[i])
<1> DEFINE s == inbox.registry
<1> DEFINE it == CHOOSE f : Folds(f, p, s, n)
<1>1. CheckRegistry(p) = it[1..n]
  BY DEF CheckRegistry, FoldLeft, MapThenFoldSet, Folds
<1>2. Folds(it, p, s, n)
  BY FoldsExist
<1> HIDE DEF it
<1> DEFINE g == [i \in 0..n |-> it[1..i]]
<1>3. g[0] = p
  <2>1. 1..0 = {} /\ {} \in SUBSET (1..n)
    OBVIOUS
  <2> QED
    BY <1>2, <2>1 DEF Folds
<1>4. ASSUME NEW i \in 1..n PROVE g[i] = Compared(g[i - 1], s[i])
  <2>1. 1..i \in SUBSET (1..n) /\ 1..i # {} /\ (1..i) \ {i} = 1..(i - 1) /\ i - 1 \in 0..n /\ i \in 0..n
    <3>1. i \in Nat /\ 1 <= i /\ i <= n
      OBVIOUS
    <3>2. \A x : x \in (1..i) \ {i} <=> x \in 1..(i - 1)
      BY <3>1
    <3>3. (1..i) \ {i} = 1..(i - 1)
      BY <3>2, Zenon
    <3>4. 1..i \in SUBSET (1..n) /\ i \in 1..i /\ i - 1 \in 0..n /\ i \in 0..n
      BY <3>1
    <3> QED
      BY <3>3, <3>4
  <2>2. Max(1..i) = i
    BY DEF Max
  <2> QED
    BY <1>2, <2>1, <2>2 DEF Folds
<1>5. g[n] = it[1..n]
  OBVIOUS
<1> HIDE DEF g
<1> QED
  BY <1>1, <1>3, <1>4, <1>5

-----------------------------------------------------------------------------
(* WHAT EACH SYSTEM DOES TO THE PEER *)

SameRole(p, q)  == q.role = p.role /\ q.fresh = p.fresh /\ q.asked = p.asked /\ q.state = p.state
SameLatch(p, q) == q.mismatch = p.mismatch /\ q.timedOut = p.timedOut
SameWord(p, q)  == q.verified = p.verified /\ q.welcome = p.welcome
SameVisit(p, q) == q.visiting = p.visiting /\ q.game = p.game /\ q.handed = p.handed
SameBody(p, q)  == q.slot = p.slot /\ q.wait = p.wait /\ q.pending = p.pending /\ q.world = p.world
SameLobby(p, q) == q.lobby = p.lobby /\ q.awaiting = p.awaiting
SameSeats(p, q) == q.seats = p.seats /\ q.slots = p.slots

LEMMA Blanks ==
  /\ 0 \in 0..Timeout
  /\ NoSlots \in [Client -> Slots \cup {None}] /\ \A c \in Client : NoSlots[c] = None
  /\ NoSeats \in [Client -> {"none", "seated", "verified"}] /\ \A c \in Client : NoSeats[c] = "none"
BY Assumed DEF NoSlots, NoSeats

SameResets(p, q) ==
  /\ SameRole(p, q) /\ SameLatch(p, q) /\ SameWord(p, q) /\ SameLobby(p, q)
  /\ q.visiting = p.visiting /\ q.game = p.game /\ q.seats = p.seats

LEMMA ResetIs ==
  ASSUME NEW p \in App, NEW q, q = ResetSessionState(p)
  PROVE  /\ q \in App /\ SameResets(p, q)
         /\ q.wait = 0 /\ q.pending = None /\ q.slots = NoSlots /\ ~q.handed /\ q.holds = {}
         /\ q.slot = p.slot /\ q.world = p.world
<1> DEFINE h == p.holds \ {"AwaitingSync", "AwaitingHost"}
<1>1. h \in SUBSET {"AwaitingSync", "AwaitingHost"} /\ h = {}
  BY DEF App
<1>2. q = [p EXCEPT !.wait = 0, !.pending = None, !.slots = NoSlots, !.handed = FALSE, !.holds = h]
  BY DEF ResetSessionState
<1>3. 0 \in 0..Timeout /\ NoSlots \in [Client -> Slots \cup {None}]
  BY Blanks
<1> HIDE DEF h
<1>4. q \in App
  <2>1. PICK s \in [Client -> Slots \cup {None}] : s = NoSlots
    BY <1>3
  <2>2. PICK n \in 0..Timeout : n = 0
    BY <1>3
  <2>3. PICK a : a = [p EXCEPT !.wait = n, !.pending = None]
    OBVIOUS
  <2>4. a \in App
    BY <2>3 DEF App
  <2>5. PICK b : b = [a EXCEPT !.slots = s]
    OBVIOUS
  <2>6. b \in App
    BY <2>4, <2>5 DEF App
  <2>7. PICK c : c = [b EXCEPT !.handed = FALSE]
    OBVIOUS
  <2>8. c \in App
    BY <2>6, <2>7 DEF App
  <2>9. PICK d : d = [c EXCEPT !.holds = h]
    OBVIOUS
  <2>10. d \in App
    BY <1>1, <2>8, <2>9 DEF App
  <2>11. q = d
    BY <1>2, <2>1, <2>2, <2>3, <2>5, <2>7, <2>9
  <2> QED
    BY <2>10, <2>11
<1> QED
  BY <1>1, <1>2, <1>4 DEF App, SameResets, SameRole, SameLatch, SameWord, SameLobby

LEMMA ExitIs ==
  ASSUME NEW p \in App, NEW q, q = Exit(p)
  PROVE  /\ q \in App /\ SameResets(p, q)
         /\ p.state = "offline" => q = p
         /\ p.state # "offline" => q.slot = None
         /\ q.world \subseteq p.world
<1>1. p.state \in {"offline", "solo", "host", "client"}
  BY DEF App, Session
<1>2. CASE p.state = "offline"
  BY <1>2 DEF Exit, SameResets, SameRole, SameLatch, SameWord, SameLobby
<1>3. CASE p.state # "offline"
  <2>1. PICK r : r = ResetSessionState(p)
    OBVIOUS
  <2>2. r \in App /\ SameResets(p, r) /\ r.world = p.world
    BY <2>1, ResetIs
  <2>3. q = [r EXCEPT !.slot = None] \/ q = [[r EXCEPT !.slot = None] EXCEPT !.world = {}]
    BY <1>1, <1>3, <2>1 DEF Exit, LeaveClientRole, LeaveRole, DisposeWorld
  <2>4. CASE q = [r EXCEPT !.slot = None]
    <3>1. q \in App
      BY <2>2, <2>4 DEF App
    <3> QED
      BY <1>3, <2>2, <2>4, <3>1 DEF App, SameResets, SameRole, SameLatch, SameWord, SameLobby
  <2>5. CASE q = [[r EXCEPT !.slot = None] EXCEPT !.world = {}]
    <3>1. q \in App
      BY <2>2, <2>5 DEF App
    <3> QED
      BY <1>3, <2>2, <2>5, <3>1 DEF App, SameResets, SameRole, SameLatch, SameWord, SameLobby
  <2> QED
    BY <2>3, <2>4, <2>5
<1> QED
  BY <1>2, <1>3

(* The doors, where they do not turn: what they take off is what was asked of them. *)
LEMMA ShutDoorsAre ==
  ASSUME NEW p \in App, NEW q, q = Doors(p), ~FollowsTheRoles(p)
  PROVE  /\ q \in App
         /\ q.role = p.role /\ q.state = p.role /\ p.state = p.role /\ ~q.fresh /\ q.asked = None
         /\ SameLatch(p, q) /\ SameWord(p, q) /\ SameVisit(p, q) /\ SameBody(p, q)
         /\ SameLobby(p, q) /\ SameSeats(p, q) /\ q.holds = p.holds
<1>1. q = [p EXCEPT !.fresh = FALSE, !.asked = None] /\ p.state = p.role
  BY DEF Doors, FollowsTheRoles
<1>2. q \in App
  BY <1>1 DEF App
<1> QED
  BY <1>1, <1>2 DEF App, SameLatch, SameWord, SameVisit, SameBody, SameLobby, SameSeats

LEMMA DoorsAre ==
  ASSUME NEW p \in App, NEW q, q = Doors(p), FollowsTheRoles(p)
  PROVE  /\ q \in App
         /\ q.role = p.role /\ q.state = p.role /\ ~q.fresh /\ q.asked = None
         /\ SameLatch(p, q) /\ SameLobby(p, q) /\ q.seats = p.seats
         /\ q.wait = 0 /\ q.slots = NoSlots /\ ~q.handed
         /\ p.role = "offline" => /\ q.verified = None /\ q.welcome = None /\ ~q.visiting /\ ~q.game
                                  /\ q.world = {} /\ q.slot = None /\ q.pending = None /\ q.holds = {}
         /\ p.role # "offline" => q.verified = p.verified /\ q.visiting = p.visiting /\ q.game = p.game
         /\ p.role \in {"solo", "host"} => /\ q.welcome = p.welcome /\ q.pending = None /\ q.holds = {}
                                           /\ q.world \subseteq p.world
         /\ p.role = "solo" => q.slot = None \/ (p.state = "offline" /\ q.slot = p.slot)
         /\ p.role = "host" => q.slot = Mine
         /\ p.role = "client" => /\ q.world = {} /\ q.holds = {"AwaitingSync"} /\ q.welcome = None
                                 /\ q.pending = IF p.state = "client" THEN None ELSE p.pending
                                 /\ q.slot \in {None, p.welcome} \/ (p.state = "offline" /\ q.slot = p.slot)
<1>1. PICK a : a = [p EXCEPT !.fresh = FALSE, !.asked = None]
  OBVIOUS
<1>2. /\ a \in App /\ a.role = p.role /\ a.state = p.state /\ ~a.fresh /\ a.asked = None
      /\ SameLatch(p, a) /\ SameWord(p, a) /\ SameVisit(p, a) /\ SameBody(p, a) /\ SameLobby(p, a) /\ SameSeats(p, a)
  BY <1>1 DEF App, SameLatch, SameWord, SameVisit, SameBody, SameLobby, SameSeats
<1>3. PICK b : b = Exit(a)
  OBVIOUS
<1>4. /\ b \in App /\ SameResets(a, b) /\ (a.state = "offline" => b = a) /\ (a.state # "offline" => b.slot = None)
      /\ b.world \subseteq a.world
  BY <1>2, <1>3, ExitIs
<1>5. PICK c : c = [b EXCEPT !.state = p.role]
  OBVIOUS
<1>6. /\ c \in App /\ c.state = p.role /\ c.role = p.role /\ ~c.fresh /\ c.asked = None
      /\ SameLatch(p, c) /\ SameWord(p, c) /\ SameLobby(p, c) /\ c.seats = p.seats
      /\ c.visiting = p.visiting /\ c.game = p.game /\ c.world \subseteq p.world
      /\ c.slot = None \/ (p.state = "offline" /\ c.slot = p.slot)
  <2>1. c \in App
    BY <1>4, <1>5 DEF App
  <2> QED
    BY <1>2, <1>4, <1>5, <2>1 DEF App, SameResets, SameRole, SameLatch, SameWord, SameVisit, SameBody, SameLobby, SameSeats
<1>7. q = Enter(c, Arrived(p))
  BY <1>1, <1>3, <1>5 DEF Doors
<1>8. p.role \in {"offline", "solo", "host", "client"}
  BY DEF App, Session
<1>9. PICK r : r = ResetSessionState(c)
  OBVIOUS
<1>10. /\ r \in App /\ SameResets(c, r)
       /\ r.wait = 0 /\ r.pending = None /\ r.slots = NoSlots /\ ~r.handed /\ r.holds = {}
       /\ r.slot = c.slot /\ r.world = c.world
  BY <1>6, <1>9, ResetIs
<1>11. CASE p.role = "offline"
  <2>1. q = [[[r EXCEPT !.slot = None] EXCEPT !.world = {}]
               EXCEPT !.verified = None, !.welcome = None, !.visiting = FALSE, !.game = FALSE]
    BY <1>6, <1>7, <1>9, <1>11 DEF Enter, Leave, LeaveRole, DisposeWorld, EndSessionState
  <2>2. q \in App
    <3>1. PICK d : d = [[r EXCEPT !.slot = None] EXCEPT !.world = {}]
      OBVIOUS
    <3>2. d \in App
      <4>1. r \in App
        BY <1>10
      <4> QED
        BY <3>1, <4>1 DEF App
    <3>3. q = [d EXCEPT !.verified = None, !.welcome = None, !.visiting = FALSE, !.game = FALSE]
      BY <2>1, <3>1
    <3> QED
      BY <3>2, <3>3, ZenonT(40) DEF App
  <2> QED
    BY <1>6, <1>10, <1>11, <2>1, <2>2 DEF App, SameResets, SameRole, SameLatch, SameWord, SameLobby
<1>12. CASE p.role = "solo"
  <2>1. q = r
    BY <1>6, <1>7, <1>9, <1>12 DEF Enter, EnterSolo
  <2> QED
    BY <1>6, <1>10, <1>12, <2>1 DEF SameResets, SameRole, SameLatch, SameWord, SameLobby
<1>13. CASE p.role = "host"
  <2>1. q = [r EXCEPT !.slot = Mine]
    BY <1>6, <1>7, <1>9, <1>13 DEF Enter, EnterHost
  <2>2. q \in App
    BY <1>10, <2>1 DEF App
  <2> QED
    BY <1>6, <1>10, <1>13, <2>1, <2>2 DEF App, SameResets, SameRole, SameLatch, SameWord, SameLobby
<1>14. CASE p.role = "client"
  <2>1. PICK d : d = [[r EXCEPT !.pending = Arrived(p), !.holds = @ \cup {"AwaitingSync"}] EXCEPT !.world = {}]
    OBVIOUS
  <2>2. Arrived(p) = (IF p.state = "client" THEN None ELSE p.pending) /\ Arrived(p) \in Epochs \cup {None}
    BY DEF Arrived, App
  <2>3. d \in App
    <3>1. PICK h : h = r.holds \cup {"AwaitingSync"}
      OBVIOUS
    <3>2. h \in SUBSET {"AwaitingSync", "AwaitingHost"}
      BY <1>10, <3>1
    <3>3. PICK a1 : a1 = Arrived(p)
      OBVIOUS
    <3>4. d = [r EXCEPT !.pending = a1, !.holds = h, !.world = {}] /\ r \in App /\ a1 \in Epochs \cup {None}
      BY <1>10, <2>1, <2>2, <3>1, <3>3 DEF App
    <3> QED
      BY <3>2, <3>4 DEF App
  <2>4. /\ SameResets(r, d) /\ d.wait = 0 /\ d.slots = NoSlots /\ ~d.handed /\ d.slot = c.slot /\ d.world = {}
        /\ d.pending = Arrived(p) /\ d.holds = {"AwaitingSync"}
    BY <1>10, <2>1 DEF App, SameResets, SameRole, SameLatch, SameWord, SameLobby
  <2>5. q = ApplyWelcome(d)
    BY <1>6, <1>7, <1>9, <1>14, <2>1 DEF Enter, EnterClient, DisposeWorld
  <2>6. d.role = "client" /\ d.state = "client" /\ SameWord(p, d)
    BY <1>6, <1>10, <1>14, <2>4 DEF SameResets, SameRole, SameWord
  <2>7. CASE d.welcome = None
    <3>1. q = d
      BY <2>5, <2>7 DEF ApplyWelcome
    <3> QED
      BY <1>6, <1>10, <1>14, <2>2, <2>3, <2>4, <2>7, <3>1 DEF SameResets, SameRole, SameLatch, SameWord, SameLobby
  <2>8. CASE d.welcome # None
    <3>1. q = [d EXCEPT !.slot = d.welcome, !.welcome = None]
      BY <2>5, <2>6, <2>8 DEF ApplyWelcome
    <3>2. q \in App
      BY <2>3, <2>8, <3>1 DEF App
    <3> QED
      BY <1>6, <1>10, <1>14, <2>2, <2>3, <2>4, <2>6, <3>1, <3>2 DEF App, SameResets, SameRole, SameLatch, SameWord, SameLobby
  <2> QED
    BY <2>7, <2>8
<1> QED
  BY <1>8, <1>11, <1>12, <1>13, <1>14

(* PreUpdate, in either order of its two systems. *)
LEMMA ForwardIs ==
  ASSUME NEW p \in App, NEW x \in Epochs \cup {None}, NEW q, q = ForwardSnapshot(p, x)
  PROVE  /\ q \in App
         /\ SameRole(p, q) /\ SameLatch(p, q) /\ SameWord(p, q) /\ SameVisit(p, q) /\ SameLobby(p, q) /\ SameSeats(p, q)
         /\ q.slot = p.slot /\ q.wait = p.wait /\ q.world = p.world /\ q.holds = p.holds
         /\ q.pending = IF x # None /\ p.verified # None /\ p.role = "client" THEN x ELSE p.pending
<1>1. CASE x # None /\ p.verified # None /\ p.role = "client"
  <2>1. q = [p EXCEPT !.pending = x]
    BY <1>1 DEF ForwardSnapshot
  <2>2. q \in App
    BY <2>1 DEF App
  <2> QED
    BY <1>1, <2>1, <2>2 DEF App, SameRole, SameLatch, SameWord, SameVisit, SameLobby, SameSeats
<1>2. CASE ~(x # None /\ p.verified # None /\ p.role = "client")
  <2>1. q = p
    BY <1>2, Zenon DEF ForwardSnapshot
  <2> QED
    BY <1>2, <2>1 DEF SameRole, SameLatch, SameWord, SameVisit, SameLobby, SameSeats
<1> QED
  BY <1>1, <1>2, Zenon

LEMMA UnverifiedIs ==
  ASSUME NEW p \in App, NEW q, q = Unverified(p)
  PROVE  /\ q \in App
         /\ SameRole(p, q) /\ SameLatch(p, q) /\ SameWord(p, q) /\ SameVisit(p, q) /\ SameBody(p, q) /\ SameLobby(p, q)
         /\ q.holds = p.holds /\ q.slots = p.slots
         /\ \A c \in Client : q.seats[c] = IF p.seats[c] = "verified" THEN "seated" ELSE p.seats[c]
<1>1. PICK s : s = [c \in Client |-> IF p.seats[c] = "verified" THEN "seated" ELSE p.seats[c]]
  OBVIOUS
<1>2. s \in [Client -> {"none", "seated", "verified"}]
  BY <1>1 DEF App
<1>3. q = [p EXCEPT !.seats = s]
  BY <1>1 DEF Unverified
<1>4. q \in App
  BY <1>2, <1>3 DEF App
<1>5. \A c \in Client : s[c] = IF p.seats[c] = "verified" THEN "seated" ELSE p.seats[c]
  BY <1>1
<1> QED
  BY <1>3, <1>4, <1>5 DEF App, SameRole, SameLatch, SameWord, SameVisit, SameBody, SameLobby

LEMMA ForgetIs ==
  ASSUME NEW p \in App, NEW q, q = ForgetTheHost(p)
  PROVE  /\ q \in App
         /\ SameRole(p, q) /\ SameVisit(p, q) /\ SameBody(p, q) /\ SameLobby(p, q) /\ SameSeats(p, q) /\ q.holds = p.holds
         /\ ~q.mismatch /\ ~q.timedOut /\ q.verified = None /\ q.welcome = None
<1>1. PICK a : a = [p EXCEPT !.mismatch = FALSE, !.timedOut = FALSE]
  OBVIOUS
<1>2. a \in App
  BY <1>1 DEF App
<1>3. q = [a EXCEPT !.verified = None, !.welcome = None]
  BY <1>1 DEF ForgetTheHost
<1>4. q \in App
  BY <1>2, <1>3 DEF App
<1> QED
  BY <1>1, <1>3, <1>2, <1>4 DEF App, SameRole, SameVisit, SameBody, SameLobby, SameSeats

(* A change of hosts: the new one has said nothing, and a role is taken anew. *)
LEMMA FollowIs ==
  ASSUME NEW p \in App, NEW x \in {None, "host", "client"}, NEW q, q = FollowHostChange(p, x)
  PROVE  /\ q \in App
         /\ SameVisit(p, q) /\ SameBody(p, q) /\ SameLobby(p, q) /\ q.holds = p.holds /\ q.slots = p.slots
         /\ q.state = p.state
         /\ x = None => SameRole(p, q) /\ SameLatch(p, q) /\ SameWord(p, q) /\ SameSeats(p, q)
         /\ x # None => ~q.mismatch /\ ~q.timedOut /\ q.verified = None /\ q.welcome = None
         /\ p.role \notin {"host", "client"} => SameRole(p, q) /\ SameSeats(p, q)
         /\ x # None /\ p.role \in {"host", "client"} => q.role = x /\ q.asked = x /\ q.fresh
         /\ \A c \in Client : q.seats[c] = "none" <=> p.seats[c] = "none"
<1>1. CASE x = None
  <2>1. q = p
    BY <1>1 DEF FollowHostChange
  <2> QED
    BY <1>1, <2>1 DEF SameRole, SameLatch, SameWord, SameVisit, SameBody, SameLobby, SameSeats
<1>2. CASE x # None /\ p.role \notin {"host", "client"}
  <2>1. q = ForgetTheHost(p)
    BY <1>2, Zenon DEF FollowHostChange
  <2> QED
    BY <1>2, <2>1, ForgetIs DEF SameRole, SameSeats
<1>3. CASE x # None /\ p.role \in {"host", "client"}
  <2>1. PICK a : a = ForgetTheHost(p)
    OBVIOUS
  <2>2. PICK b : b = Unverified(a)
    OBVIOUS
  <2>3. /\ a \in App
        /\ SameRole(p, a) /\ SameVisit(p, a) /\ SameBody(p, a) /\ SameLobby(p, a) /\ SameSeats(p, a) /\ a.holds = p.holds
        /\ ~a.mismatch /\ ~a.timedOut /\ a.verified = None /\ a.welcome = None
    BY <2>1, ForgetIs
  <2>4. /\ b \in App
        /\ SameRole(a, b) /\ SameLatch(a, b) /\ SameWord(a, b) /\ SameVisit(a, b) /\ SameBody(a, b) /\ SameLobby(a, b)
        /\ b.holds = a.holds /\ b.slots = a.slots
        /\ \A c \in Client : b.seats[c] = IF a.seats[c] = "verified" THEN "seated" ELSE a.seats[c]
    BY <2>2, <2>3, UnverifiedIs
  <2>5. q = [b EXCEPT !.role = x, !.asked = x, !.fresh = TRUE]
    BY <1>3, <2>1, <2>2, Zenon DEF FollowHostChange
  <2>6. q \in App
    <3>1. PICK d : d = [b EXCEPT !.role = x, !.asked = x]
      OBVIOUS
    <3>2. x \in Session /\ b \in App
      BY <1>3, <2>4 DEF Session
    <3>3. d \in App
      BY <3>1, <3>2 DEF App
    <3>4. q = [d EXCEPT !.fresh = TRUE]
      BY <2>5, <3>1
    <3> QED
      BY <3>3, <3>4 DEF App
  <2>7. /\ q.role = x /\ q.asked = x /\ q.fresh /\ q.state = b.state
        /\ SameLatch(b, q) /\ SameWord(b, q) /\ SameVisit(b, q) /\ SameBody(b, q) /\ SameLobby(b, q) /\ SameSeats(b, q)
        /\ q.holds = b.holds
    BY <2>4, <2>5, <2>6 DEF App, SameLatch, SameWord, SameVisit, SameBody, SameLobby, SameSeats
  <2>8. \A c \in Client : q.seats[c] = "none" <=> p.seats[c] = "none"
    BY <2>3, <2>4, <2>7 DEF SameSeats
  <2>9. /\ SameVisit(p, q) /\ SameBody(p, q) /\ SameLobby(p, q) /\ q.holds = p.holds /\ q.slots = p.slots
        /\ q.state = p.state
    BY <2>3, <2>4, <2>7 DEF SameRole, SameVisit, SameBody, SameLobby, SameSeats
  <2>10. ~q.mismatch /\ ~q.timedOut /\ q.verified = None /\ q.welcome = None
    BY <2>3, <2>4, <2>7 DEF SameLatch, SameWord
  <2> QED
    BY <1>3, <2>6, <2>7, <2>8, <2>9, <2>10
<1> QED
  BY <1>1, <1>2, <1>3, Zenon

LEMMA PreUpdateIs ==
  ASSUME NEW p \in App, NEW x \in Epochs \cup {None}, NEW y \in {None, "host", "client"}, NEW q,
         q = FollowHostChange(ForwardSnapshot(p, x), y) \/ q = ForwardSnapshot(FollowHostChange(p, y), x)
  PROVE  /\ q \in App
         /\ SameVisit(p, q) /\ SameLobby(p, q) /\ q.holds = p.holds /\ q.slots = p.slots /\ q.state = p.state
         /\ q.slot = p.slot /\ q.wait = p.wait /\ q.world = p.world
         /\ y = None => SameRole(p, q) /\ SameLatch(p, q) /\ SameWord(p, q) /\ SameSeats(p, q)
         /\ y # None => ~q.mismatch /\ ~q.timedOut /\ q.verified = None /\ q.welcome = None
         /\ p.role \notin {"host", "client"} => SameRole(p, q) /\ SameSeats(p, q)
         /\ y # None /\ p.role \in {"host", "client"} => q.role = y /\ q.asked = y /\ q.fresh
         /\ \A c \in Client : q.seats[c] = "none" <=> p.seats[c] = "none"
         /\ q.pending = p.pending \/ (q.pending = x /\ x # None /\ p.verified # None /\ p.role = "client")
         /\ y = None => q.pending = IF x # None /\ p.verified # None /\ p.role = "client" THEN x ELSE p.pending
<1>1. CASE q = FollowHostChange(ForwardSnapshot(p, x), y)
  <2>1. PICK a : a = ForwardSnapshot(p, x)
    OBVIOUS
  <2>2. /\ a \in App
        /\ SameRole(p, a) /\ SameLatch(p, a) /\ SameWord(p, a) /\ SameVisit(p, a) /\ SameLobby(p, a) /\ SameSeats(p, a)
        /\ a.slot = p.slot /\ a.wait = p.wait /\ a.world = p.world /\ a.holds = p.holds
        /\ a.pending = IF x # None /\ p.verified # None /\ p.role = "client" THEN x ELSE p.pending
    BY <2>1, ForwardIs
  <2>3. q = FollowHostChange(a, y)
    BY <1>1, <2>1
  <2>4. /\ q \in App
        /\ SameVisit(a, q) /\ SameBody(a, q) /\ SameLobby(a, q) /\ q.holds = a.holds /\ q.slots = a.slots
        /\ q.state = a.state
        /\ y = None => SameRole(a, q) /\ SameLatch(a, q) /\ SameWord(a, q) /\ SameSeats(a, q)
        /\ y # None => ~q.mismatch /\ ~q.timedOut /\ q.verified = None /\ q.welcome = None
        /\ a.role \notin {"host", "client"} => SameRole(a, q) /\ SameSeats(a, q)
        /\ y # None /\ a.role \in {"host", "client"} => q.role = y /\ q.asked = y /\ q.fresh
        /\ \A c \in Client : q.seats[c] = "none" <=> a.seats[c] = "none"
    BY <2>2, <2>3, FollowIs
  <2> QED
    BY <2>2, <2>4 DEF SameRole, SameLatch, SameWord, SameVisit, SameBody, SameLobby, SameSeats
<1>2. CASE q = ForwardSnapshot(FollowHostChange(p, y), x)
  <2>1. PICK a : a = FollowHostChange(p, y)
    OBVIOUS
  <2>2. /\ a \in App
        /\ SameVisit(p, a) /\ SameBody(p, a) /\ SameLobby(p, a) /\ a.holds = p.holds /\ a.slots = p.slots
        /\ a.state = p.state
        /\ y = None => SameRole(p, a) /\ SameLatch(p, a) /\ SameWord(p, a) /\ SameSeats(p, a)
        /\ y # None => ~a.mismatch /\ ~a.timedOut /\ a.verified = None /\ a.welcome = None
        /\ p.role \notin {"host", "client"} => SameRole(p, a) /\ SameSeats(p, a)
        /\ y # None /\ p.role \in {"host", "client"} => a.role = y /\ a.asked = y /\ a.fresh
        /\ \A c \in Client : a.seats[c] = "none" <=> p.seats[c] = "none"
    BY <2>1, FollowIs
  <2>3. q = ForwardSnapshot(a, x)
    BY <1>2, <2>1
  <2>4. /\ q \in App
        /\ SameRole(a, q) /\ SameLatch(a, q) /\ SameWord(a, q) /\ SameVisit(a, q) /\ SameLobby(a, q) /\ SameSeats(a, q)
        /\ q.slot = a.slot /\ q.wait = a.wait /\ q.world = a.world /\ q.holds = a.holds
        /\ q.pending = IF x # None /\ a.verified # None /\ a.role = "client" THEN x ELSE a.pending
    BY <2>2, <2>3, ForwardIs
  <2> QED
    BY <2>2, <2>4 DEF SameRole, SameLatch, SameWord, SameVisit, SameBody, SameLobby, SameSeats
<1> QED
  BY <1>1, <1>2

-----------------------------------------------------------------------------
(* THE CHAIN OF THE SESSION *)

(* What the session's chain never touches. *)
SameKept(p, q) ==
  /\ q.state = p.state /\ SameWord(p, q) /\ SameBody(p, q) /\ q.game = p.game

LEMMA EndTickedIs ==
  ASSUME NEW p \in App, NEW q, q = EndTickedSession(p)
  PROVE  /\ q \in App /\ q.role = "offline"
         /\ SameKept(p, q) /\ SameLatch(p, q) /\ SameVisit(p, q) /\ SameLobby(p, q)
         /\ q.fresh = p.fresh /\ q.asked = p.asked /\ q.holds = p.holds /\ q.slots = p.slots
         /\ \A c \in Client : q.seats[c] = IF p.seats[c] = "verified" THEN "seated" ELSE p.seats[c]
<1>1. PICK a : a = [p EXCEPT !.role = "offline"]
  OBVIOUS
<1>2. a \in App /\ a.role = "offline"
  <2>1. "offline" \in Session
    BY DEF Session
  <2>2. a \in App
    BY <1>1, <2>1 DEF App
  <2> QED
    BY <1>1, <2>2 DEF App
<1>3. /\ a.fresh = p.fresh /\ a.asked = p.asked /\ a.state = p.state
      /\ SameLatch(p, a) /\ SameWord(p, a) /\ SameVisit(p, a) /\ SameBody(p, a) /\ SameLobby(p, a)
      /\ a.holds = p.holds /\ SameSeats(p, a)
  BY <1>1 DEF App, SameLatch, SameWord, SameVisit, SameBody, SameLobby, SameSeats
<1>4. q = Unverified(a)
  BY <1>1 DEF EndTickedSession
<1>5. /\ q \in App
      /\ SameRole(a, q) /\ SameLatch(a, q) /\ SameWord(a, q) /\ SameVisit(a, q) /\ SameBody(a, q) /\ SameLobby(a, q)
      /\ q.holds = a.holds /\ q.slots = a.slots
      /\ \A c \in Client : q.seats[c] = IF a.seats[c] = "verified" THEN "seated" ELSE a.seats[c]
  BY <1>2, <1>4, UnverifiedIs
<1>6. \A c \in Client : q.seats[c] = IF p.seats[c] = "verified" THEN "seated" ELSE p.seats[c]
  BY <1>3, <1>5 DEF SameSeats
<1>7. q.slots = p.slots /\ q.holds = p.holds /\ SameLobby(p, q) /\ SameVisit(p, q) /\ SameLatch(p, q)
  BY <1>3, <1>5 DEF SameSeats, SameLobby, SameVisit, SameLatch
<1> QED
  BY <1>2, <1>3, <1>5, <1>6, <1>7 DEF SameKept, SameRole, SameWord, SameVisit, SameBody

LEMMA DepartedIs ==
  ASSUME NEW p \in App, NEW gone, NEW q, q = Departed(p, gone)
  PROVE  /\ q \in App
         /\ SameRole(p, q) /\ SameLatch(p, q) /\ SameWord(p, q) /\ SameVisit(p, q) /\ SameBody(p, q) /\ SameLobby(p, q)
         /\ q.holds = p.holds
         /\ \A c \in Client : q.seats[c] = IF c \in gone THEN "none" ELSE p.seats[c]
         /\ \A c \in Client : q.slots[c] = IF c \in gone THEN None ELSE p.slots[c]
<1>1. PICK s : s = [c \in Client |-> IF c \in gone THEN "none" ELSE p.seats[c]]
  OBVIOUS
<1>2. PICK t : t = [c \in Client |-> IF c \in gone THEN None ELSE p.slots[c]]
  OBVIOUS
<1>3. s \in [Client -> {"none", "seated", "verified"}] /\ t \in [Client -> Slots \cup {None}]
  <2>1. p.seats \in [Client -> {"none", "seated", "verified"}] /\ p.slots \in [Client -> Slots \cup {None}]
    BY DEF App
  <2> QED
    BY <1>1, <1>2, <2>1
<1>4. q = [p EXCEPT !.seats = s, !.slots = t]
  BY <1>1, <1>2 DEF Departed
<1>5. q \in App
  <2>1. PICK a : a = [p EXCEPT !.seats = s]
    OBVIOUS
  <2>2. a \in App
    BY <1>3, <2>1 DEF App
  <2>3. q = [a EXCEPT !.slots = t]
    BY <1>4, <2>1
  <2> QED
    BY <1>3, <2>2, <2>3 DEF App
<1>6. /\ \A c \in Client : s[c] = IF c \in gone THEN "none" ELSE p.seats[c]
      /\ \A c \in Client : t[c] = IF c \in gone THEN None ELSE p.slots[c]
  BY <1>1, <1>2
<1> QED
  BY <1>4, <1>5, <1>6 DEF App, SameRole, SameLatch, SameWord, SameVisit, SameBody, SameLobby

LEMMA DespawnedIs ==
  ASSUME NEW p \in App, NEW q, q = LobbyDespawned(p)
  PROVE  /\ q \in App
         /\ SameRole(p, q) /\ SameLatch(p, q) /\ SameWord(p, q) /\ SameVisit(p, q) /\ SameBody(p, q)
         /\ q.lobby = "none" /\ q.awaiting = None /\ q.holds = p.holds \ {"AwaitingHost"}
         /\ \A c \in Client : q.seats[c] = "none" /\ q.slots[c] = None
<1>1. PICK a : a = Departed(p, Client)
  OBVIOUS
<1>2. /\ a \in App
      /\ SameRole(p, a) /\ SameLatch(p, a) /\ SameWord(p, a) /\ SameVisit(p, a) /\ SameBody(p, a) /\ SameLobby(p, a)
      /\ a.holds = p.holds
      /\ \A c \in Client : a.seats[c] = IF c \in Client THEN "none" ELSE p.seats[c]
      /\ \A c \in Client : a.slots[c] = IF c \in Client THEN None ELSE p.slots[c]
  BY <1>1, DepartedIs
<1>3. PICK h : h = a.holds \ {"AwaitingHost"}
  OBVIOUS
<1>4. h \in SUBSET {"AwaitingSync", "AwaitingHost"} /\ h = p.holds \ {"AwaitingHost"}
  BY <1>2, <1>3 DEF App
<1>5. PICK b : b = [a EXCEPT !.lobby = "none", !.awaiting = None]
  OBVIOUS
<1>6. b \in App
  <2>1. a \in App
    BY <1>2
  <2> QED
    BY <1>5, <2>1 DEF App
<1>7. q = [b EXCEPT !.holds = h]
  BY <1>1, <1>3, <1>5 DEF LobbyDespawned
<1>8. q \in App
  BY <1>4, <1>6, <1>7 DEF App
<1>9. /\ SameRole(a, q) /\ SameLatch(a, q) /\ SameWord(a, q) /\ SameVisit(a, q) /\ SameBody(a, q) /\ SameSeats(a, q)
      /\ q.lobby = "none" /\ q.awaiting = None /\ q.holds = h
  BY <1>2, <1>5, <1>7 DEF App, SameRole, SameLatch, SameWord, SameVisit, SameBody, SameSeats
<1> QED
  BY <1>2, <1>4, <1>8, <1>9 DEF SameRole, SameLatch, SameWord, SameVisit, SameBody, SameSeats

(* The player leaves, if asked to. *)
LEMMA EndSessionIs ==
  ASSUME NEW p \in App, NEW q, q = EndSession(p)
  PROVE  /\ q \in App /\ SameKept(p, q) /\ SameLatch(p, q) /\ SameVisit(p, q)
         /\ q.fresh = p.fresh /\ q.asked = p.asked
         /\ "EndSession" \notin inbox.asks => q = p
         /\ "EndSession" \in inbox.asks => /\ q.role = "offline" /\ q.lobby = "none" /\ q.awaiting = None
                                           /\ q.holds = p.holds \ {"AwaitingHost"}
                                           /\ \A c \in Client : q.seats[c] = "none" /\ q.slots[c] = None
<1>1. CASE "EndSession" \notin inbox.asks
  <2>1. q = p
    BY <1>1, Zenon DEF EndSession
  <2> QED
    BY <1>1, <2>1 DEF SameKept, SameLatch, SameWord, SameVisit, SameBody
<1>2. CASE "EndSession" \in inbox.asks
  <2>1. PICK a : a = LobbyDespawned(p)
    OBVIOUS
  <2>2. /\ a \in App
        /\ SameRole(p, a) /\ SameLatch(p, a) /\ SameWord(p, a) /\ SameVisit(p, a) /\ SameBody(p, a)
        /\ a.lobby = "none" /\ a.awaiting = None /\ a.holds = p.holds \ {"AwaitingHost"}
        /\ \A c \in Client : a.seats[c] = "none" /\ a.slots[c] = None
    BY <2>1, DespawnedIs
  <2>3. q = EndTickedSession(a)
    BY <1>2, <2>1, Zenon DEF EndSession
  <2>4. /\ q \in App /\ q.role = "offline"
        /\ SameKept(a, q) /\ SameLatch(a, q) /\ SameVisit(a, q) /\ SameLobby(a, q)
        /\ q.fresh = a.fresh /\ q.asked = a.asked /\ q.holds = a.holds /\ q.slots = a.slots
        /\ \A c \in Client : q.seats[c] = IF a.seats[c] = "verified" THEN "seated" ELSE a.seats[c]
    BY <2>2, <2>3, EndTickedIs
  <2>5. \A c \in Client : q.seats[c] = "none" /\ q.slots[c] = None
    BY <2>2, <2>4
  <2>6. /\ q.fresh = p.fresh /\ q.asked = p.asked /\ SameLatch(p, q) /\ SameVisit(p, q)
        /\ q.lobby = "none" /\ q.awaiting = None /\ q.holds = p.holds \ {"AwaitingHost"}
    BY <2>2, <2>4 DEF SameLobby, SameRole, SameLatch, SameVisit
  <2> QED
    BY <1>2, <2>2, <2>4, <2>5, <2>6 DEF SameKept, SameRole, SameWord, SameVisit, SameBody
<1> QED
  BY <1>1, <1>2, Zenon

Starts(p) == "StartSolo" \in inbox.asks /\ p.state = "offline" /\ p.role \notin {"host", "client"} /\ p.lobby = "none"

LEMMA StartSoloIs ==
  ASSUME NEW p \in App, NEW q, q = StartSolo(p)
  PROVE  /\ q \in App /\ SameKept(p, q) /\ SameLatch(p, q) /\ SameVisit(p, q) /\ SameLobby(p, q) /\ SameSeats(p, q)
         /\ q.holds = p.holds /\ q.asked = p.asked
         /\ q.role = IF Starts(p) THEN "solo" ELSE p.role
         /\ q.fresh = IF Starts(p) THEN TRUE ELSE p.fresh
<1>1. CASE ~Starts(p)
  <2>1. q = p
    BY <1>1, Zenon DEF StartSolo, Starts
  <2> QED
    BY <1>1, <2>1 DEF SameKept, SameLatch, SameWord, SameVisit, SameBody, SameLobby, SameSeats
<1>2. CASE Starts(p)
  <2>1. q = [p EXCEPT !.role = "solo", !.fresh = TRUE]
    BY <1>2, Zenon DEF StartSolo, Starts
  <2>2. q \in App
    <3>1. PICK a : a = [p EXCEPT !.role = "solo"]
      OBVIOUS
    <3>2. a \in App
      <4>1. "solo" \in Session
        BY DEF Session
      <4> QED
        BY <3>1, <4>1 DEF App
    <3>3. q = [a EXCEPT !.fresh = TRUE]
      BY <2>1, <3>1
    <3> QED
      BY <3>2, <3>3, ZenonT(40) DEF App
  <2>3. /\ SameKept(p, q) /\ SameLatch(p, q) /\ SameVisit(p, q) /\ SameLobby(p, q) /\ SameSeats(p, q)
        /\ q.holds = p.holds /\ q.asked = p.asked /\ q.role = "solo" /\ q.fresh = TRUE
    BY <2>1, <2>2 DEF App, SameKept, SameLatch, SameWord, SameVisit, SameBody, SameLobby, SameSeats
  <2> QED
    BY <1>2, <2>2, <2>3
<1> QED
  BY <1>1, <1>2, Zenon

LEMMA HandSoloIs ==
  ASSUME NEW p \in App, NEW q, q = HandSoloToALobby(p)
  PROVE  /\ q \in App /\ SameKept(p, q) /\ SameLatch(p, q) /\ SameRole(p, q) /\ SameLobby(p, q) /\ SameSeats(p, q)
         /\ q.holds = p.holds /\ q.visiting = p.visiting
         /\ q.handed = IF p.role = "solo" /\ p.lobby # "none" THEN TRUE ELSE p.handed
<1>1. CASE ~(p.role = "solo" /\ p.lobby # "none")
  <2>1. q = p
    BY <1>1, Zenon DEF HandSoloToALobby
  <2> QED
    BY <1>1, <2>1 DEF SameKept, SameLatch, SameRole, SameWord, SameBody, SameLobby, SameSeats
<1>2. CASE p.role = "solo" /\ p.lobby # "none"
  <2>1. q = [p EXCEPT !.handed = TRUE]
    BY <1>2, Zenon DEF HandSoloToALobby
  <2>2. q \in App
    BY <2>1, ZenonT(40) DEF App
  <2>3. /\ SameKept(p, q) /\ SameLatch(p, q) /\ SameRole(p, q) /\ SameLobby(p, q) /\ SameSeats(p, q)
        /\ q.holds = p.holds /\ q.visiting = p.visiting /\ q.handed = TRUE
    BY <2>1, <2>2 DEF App, SameKept, SameLatch, SameRole, SameWord, SameBody, SameLobby, SameSeats
  <2> QED
    BY <1>2, <2>2, <2>3
<1> QED
  BY <1>1, <1>2, Zenon

Adopts(p) == p.role \notin {"host", "client"} /\ ~p.mismatch /\ ~p.timedOut /\ p.lobby \in {"hosting", "joined"}

LEMMA AdoptIs ==
  ASSUME NEW p \in App, NEW q, q = AdoptRole(p)
  PROVE  /\ q \in App /\ SameKept(p, q) /\ SameLatch(p, q) /\ SameVisit(p, q) /\ SameLobby(p, q) /\ SameSeats(p, q)
         /\ q.holds = p.holds /\ q.asked = p.asked
         /\ q.role = IF Adopts(p) THEN IF p.lobby = "hosting" THEN "host" ELSE "client" ELSE p.role
         /\ q.fresh = IF Adopts(p) THEN TRUE ELSE p.fresh
<1>1. CASE ~Adopts(p)
  <2>1. q = p
    BY <1>1, Zenon DEF AdoptRole, Adopts
  <2> QED
    BY <1>1, <2>1 DEF SameKept, SameLatch, SameWord, SameVisit, SameBody, SameLobby, SameSeats
<1>2. CASE Adopts(p)
  <2>1. PICK r : r = IF p.lobby = "hosting" THEN "host" ELSE "client"
    OBVIOUS
  <2>2. q = [p EXCEPT !.role = r, !.fresh = TRUE]
    BY <1>2, <2>1, Zenon DEF AdoptRole, Adopts
  <2>3. r \in Session
    BY <2>1 DEF Session
  <2>4. q \in App
    <3>1. PICK a : a = [p EXCEPT !.role = r]
      OBVIOUS
    <3>2. a \in App
      BY <2>3, <3>1 DEF App
    <3>3. q = [a EXCEPT !.fresh = TRUE]
      BY <2>2, <3>1
    <3> QED
      BY <3>2, <3>3, ZenonT(40) DEF App
  <2>5. /\ SameKept(p, q) /\ SameLatch(p, q) /\ SameVisit(p, q) /\ SameLobby(p, q) /\ SameSeats(p, q)
        /\ q.holds = p.holds /\ q.asked = p.asked /\ q.role = r /\ q.fresh = TRUE
    BY <2>2, <2>4 DEF App, SameKept, SameLatch, SameWord, SameVisit, SameBody, SameLobby, SameSeats
  <2> QED
    BY <1>2, <2>1, <2>4, <2>5
<1> QED
  BY <1>1, <1>2, Zenon

LEMMA ReleaseIs ==
  ASSUME NEW p \in App, NEW q, q = ReleaseRole(p)
  PROVE  /\ q \in App /\ SameKept(p, q) /\ SameLatch(p, q) /\ SameLobby(p, q)
         /\ q.holds = p.holds /\ q.asked = p.asked /\ q.fresh = p.fresh /\ q.visiting = p.visiting /\ q.slots = p.slots
         /\ q.role = IF p.lobby = "none" /\ p.role \in {"host", "client"} THEN "offline" ELSE p.role
         /\ q.handed = IF p.lobby = "none" /\ p.role \notin {"host", "client"} THEN FALSE ELSE p.handed
         /\ p.lobby # "none" => q.seats = p.seats
         /\ \A c \in Client : q.seats[c] = "none" <=> p.seats[c] = "none"
<1>1. CASE p.lobby # "none"
  <2>1. q = p
    BY <1>1, Zenon DEF ReleaseRole
  <2> QED
    BY <1>1, <2>1 DEF SameKept, SameLatch, SameWord, SameVisit, SameBody, SameLobby
<1>2. CASE p.lobby = "none" /\ p.role \in {"host", "client"}
  <2>1. q = EndTickedSession(p)
    BY <1>2, Zenon DEF ReleaseRole
  <2>2. /\ q \in App /\ q.role = "offline"
        /\ SameKept(p, q) /\ SameLatch(p, q) /\ SameVisit(p, q) /\ SameLobby(p, q)
        /\ q.fresh = p.fresh /\ q.asked = p.asked /\ q.holds = p.holds /\ q.slots = p.slots
        /\ \A c \in Client : q.seats[c] = IF p.seats[c] = "verified" THEN "seated" ELSE p.seats[c]
    BY <2>1, EndTickedIs
  <2>3. \A c \in Client : q.seats[c] = "none" <=> p.seats[c] = "none"
    BY <2>2
  <2> QED
    BY <1>2, <2>2, <2>3 DEF SameVisit
<1>3. CASE p.lobby = "none" /\ p.role \notin {"host", "client"}
  <2>1. q = [p EXCEPT !.handed = FALSE]
    BY <1>3, Zenon DEF ReleaseRole
  <2>2. q \in App
    BY <2>1, ZenonT(40) DEF App
  <2>3. /\ SameKept(p, q) /\ SameLatch(p, q) /\ SameLobby(p, q) /\ SameRole(p, q) /\ SameSeats(p, q)
        /\ q.holds = p.holds /\ q.visiting = p.visiting /\ q.handed = FALSE
    BY <2>1, <2>2 DEF App, SameKept, SameLatch, SameRole, SameWord, SameBody, SameLobby, SameSeats
  <2> QED
    BY <1>3, <2>2, <2>3 DEF SameRole, SameSeats
<1> QED
  BY <1>1, <1>2, <1>3, Zenon

(* forget_mismatch and the end of a visit that never had a role. *)
LEMMA ForgetMismatchIs ==
  ASSUME NEW p \in App, NEW q, q = ForgetMismatch(p)
  PROVE  /\ q \in App /\ SameKept(p, q) /\ SameRole(p, q) /\ SameVisit(p, q) /\ SameLobby(p, q) /\ SameSeats(p, q)
         /\ q.holds = p.holds
         /\ p.lobby # "none" => SameLatch(p, q)
         /\ p.lobby = "none" => ~q.mismatch /\ ~q.timedOut
<1>1. CASE p.lobby # "none"
  <2>1. q = p
    BY <1>1, Zenon DEF ForgetMismatch
  <2> QED
    BY <1>1, <2>1 DEF SameKept, SameRole, SameLatch, SameWord, SameVisit, SameBody, SameLobby, SameSeats
<1>2. CASE p.lobby = "none"
  <2>1. q = [p EXCEPT !.mismatch = FALSE, !.timedOut = FALSE]
    BY <1>2, Zenon DEF ForgetMismatch
  <2>2. q \in App
    BY <2>1, ZenonT(40) DEF App
  <2>3. /\ SameKept(p, q) /\ SameRole(p, q) /\ SameVisit(p, q) /\ SameLobby(p, q) /\ SameSeats(p, q)
        /\ q.holds = p.holds /\ q.mismatch = FALSE /\ q.timedOut = FALSE
    BY <2>1, <2>2 DEF App, SameKept, SameRole, SameWord, SameVisit, SameBody, SameLobby, SameSeats
  <2> QED
    BY <1>2, <2>2, <2>3
<1> QED
  BY <1>1, <1>2, Zenon

Visits(p) == p.state # "offline" \/ p.role # "offline" \/ p.lobby # "none"

LEMMA EndAVisitIs ==
  ASSUME NEW p \in App, NEW q, q = EndAVisitWithoutARole(p)
  PROVE  /\ q \in App /\ SameKept(p, q) /\ SameLatch(p, q) /\ SameLobby(p, q) /\ SameSeats(p, q)
         /\ q.holds = p.holds /\ q.handed = p.handed /\ q.role = p.role /\ q.fresh = p.fresh
         /\ q.visiting = (Visits(p) \/ p.visiting)
         /\ q.asked = IF ~Visits(p) /\ p.visiting THEN "offline" ELSE p.asked
<1>1. CASE Visits(p)
  <2>1. q = [p EXCEPT !.visiting = TRUE]
    BY <1>1, Zenon DEF EndAVisitWithoutARole, Visits
  <2>2. q \in App
    BY <2>1, ZenonT(40) DEF App
  <2>3. /\ SameKept(p, q) /\ SameLatch(p, q) /\ SameRole(p, q) /\ SameLobby(p, q) /\ SameSeats(p, q)
        /\ q.holds = p.holds /\ q.handed = p.handed /\ q.visiting = TRUE
    BY <2>1, <2>2 DEF App, SameKept, SameLatch, SameRole, SameWord, SameBody, SameLobby, SameSeats
  <2> QED
    BY <1>1, <2>2, <2>3 DEF SameRole
<1>2. CASE ~Visits(p) /\ p.visiting
  <2>1. q = [p EXCEPT !.asked = "offline"]
    BY <1>2, Zenon DEF EndAVisitWithoutARole, Visits
  <2>2. q \in App
    <3>1. "offline" \in Session
      BY DEF Session
    <3> QED
      BY <2>1, <3>1 DEF App
  <2>3. /\ SameKept(p, q) /\ SameLatch(p, q) /\ SameLobby(p, q) /\ SameSeats(p, q) /\ q.role = p.role /\ q.fresh = p.fresh
        /\ q.holds = p.holds /\ q.handed = p.handed /\ q.visiting = p.visiting /\ q.asked = "offline"
    BY <2>1, <2>2 DEF App, SameKept, SameLatch, SameWord, SameBody, SameLobby, SameSeats
  <2> QED
    BY <1>2, <2>2, <2>3
<1>3. CASE ~Visits(p) /\ ~p.visiting
  <2>1. q = p
    BY <1>3, Zenon DEF EndAVisitWithoutARole, Visits
  <2>2. p.visiting \in BOOLEAN
    BY DEF App
  <2> QED
    BY <1>3, <2>1, <2>2 DEF SameKept, SameLatch, SameWord, SameBody, SameLobby, SameSeats
<1> QED
  BY <1>1, <1>2, <1>3, Zenon

Ends == "EndSession" \in inbox.asks

(* The role the session's chain leaves, by whether a lobby is left. *)
RoleInALobby(p) == IF Adopts(p) THEN IF p.lobby = "hosting" THEN "host" ELSE "client" ELSE p.role
RoleAlone(p) ==
  IF "StartSolo" \in inbox.asks /\ p.state = "offline" /\ (Ends \/ p.role \notin {"host", "client"}) THEN "solo"
  ELSE IF Ends \/ p.role \in {"host", "client"} THEN "offline" ELSE p.role

SessionEffect(p, q) ==
  /\ q \in App /\ SameKept(p, q)
  /\ q.lobby = IF Ends THEN "none" ELSE p.lobby
  /\ q.awaiting = IF Ends THEN None ELSE p.awaiting
  /\ q.holds = IF Ends THEN p.holds \ {"AwaitingHost"} ELSE p.holds
  /\ Ends => \A c \in Client : q.seats[c] = "none" /\ q.slots[c] = None
  /\ ~Ends => q.slots = p.slots /\ \A c \in Client : q.seats[c] = "none" <=> p.seats[c] = "none"
  /\ q.lobby # "none" => /\ SameLatch(p, q) /\ q.seats = p.seats
                         /\ q.role = RoleInALobby(p) /\ (q.fresh <=> Adopts(p) \/ p.fresh)
                         /\ q.handed <=> p.role = "solo" \/ p.handed
  /\ q.lobby = "none" => /\ ~q.mismatch /\ ~q.timedOut
                         /\ q.role = RoleAlone(p) /\ (q.fresh => p.fresh \/ q.role = "solo")
                         /\ q.role = "solo" => q.fresh \/ p.role = "solo"
                         /\ p.handed /\ q.handed => p.role \in {"host", "client"}
                         /\ q.handed => p.handed
  /\ q.visiting <=> Visits(q) \/ p.visiting
  /\ q.asked = IF ~Visits(q) /\ p.visiting THEN "offline" ELSE p.asked

LEMMA SessionChainIs ==
  ASSUME NEW p \in App, NEW q,
         q = EndAVisitWithoutARole(ForgetMismatch(ReleaseRole(AdoptRole(HandSoloToALobby(StartSolo(EndSession(p)))))))
  PROVE  SessionEffect(p, q)
<1>1. PICK a : a = EndSession(p)
  OBVIOUS
<1>2. PICK b : b = StartSolo(a)
  OBVIOUS
<1>3. PICK c : c = HandSoloToALobby(b)
  OBVIOUS
<1>4. PICK d : d = AdoptRole(c)
  OBVIOUS
<1>5. PICK e : e = ReleaseRole(d)
  OBVIOUS
<1>6. PICK f : f = ForgetMismatch(e)
  OBVIOUS
<1>7. q = EndAVisitWithoutARole(f)
  BY <1>1, <1>2, <1>3, <1>4, <1>5, <1>6
<1>8. /\ a \in App /\ SameKept(p, a) /\ SameLatch(p, a) /\ SameVisit(p, a)
      /\ a.fresh = p.fresh /\ a.asked = p.asked
      /\ ~Ends => a = p
      /\ Ends => /\ a.role = "offline" /\ a.lobby = "none" /\ a.awaiting = None
                 /\ a.holds = p.holds \ {"AwaitingHost"}
                 /\ \A k \in Client : a.seats[k] = "none" /\ a.slots[k] = None
  BY <1>1, EndSessionIs DEF Ends
<1>9. /\ b \in App /\ SameKept(a, b) /\ SameLatch(a, b) /\ SameVisit(a, b) /\ SameLobby(a, b) /\ SameSeats(a, b)
      /\ b.holds = a.holds /\ b.asked = a.asked
      /\ b.role = IF Starts(a) THEN "solo" ELSE a.role
      /\ b.fresh = IF Starts(a) THEN TRUE ELSE a.fresh
  BY <1>2, <1>8, StartSoloIs
<1>10. /\ c \in App /\ SameKept(b, c) /\ SameLatch(b, c) /\ SameRole(b, c) /\ SameLobby(b, c) /\ SameSeats(b, c)
       /\ c.holds = b.holds /\ c.visiting = b.visiting
       /\ c.handed = IF b.role = "solo" /\ b.lobby # "none" THEN TRUE ELSE b.handed
  BY <1>3, <1>9, HandSoloIs
<1>11. /\ d \in App /\ SameKept(c, d) /\ SameLatch(c, d) /\ SameVisit(c, d) /\ SameLobby(c, d) /\ SameSeats(c, d)
       /\ d.holds = c.holds /\ d.asked = c.asked
       /\ d.role = IF Adopts(c) THEN IF c.lobby = "hosting" THEN "host" ELSE "client" ELSE c.role
       /\ d.fresh = IF Adopts(c) THEN TRUE ELSE c.fresh
  BY <1>4, <1>10, AdoptIs
<1>12. /\ e \in App /\ SameKept(d, e) /\ SameLatch(d, e) /\ SameLobby(d, e)
       /\ e.holds = d.holds /\ e.asked = d.asked /\ e.fresh = d.fresh /\ e.visiting = d.visiting /\ e.slots = d.slots
       /\ e.role = IF d.lobby = "none" /\ d.role \in {"host", "client"} THEN "offline" ELSE d.role
       /\ e.handed = IF d.lobby = "none" /\ d.role \notin {"host", "client"} THEN FALSE ELSE d.handed
       /\ d.lobby # "none" => e.seats = d.seats
       /\ \A k \in Client : e.seats[k] = "none" <=> d.seats[k] = "none"
  <2>1. d \in App
    BY <1>11
  <2> QED
    BY <1>5, <2>1, ReleaseIs, ZenonT(40)
<1>13. /\ f \in App /\ SameKept(e, f) /\ SameRole(e, f) /\ SameVisit(e, f) /\ SameLobby(e, f) /\ SameSeats(e, f)
       /\ f.holds = e.holds
       /\ e.lobby # "none" => SameLatch(e, f)
       /\ e.lobby = "none" => ~f.mismatch /\ ~f.timedOut
  BY <1>6, <1>12, ForgetMismatchIs
<1>14. /\ q \in App /\ SameKept(f, q) /\ SameLatch(f, q) /\ SameLobby(f, q) /\ SameSeats(f, q)
       /\ q.holds = f.holds /\ q.handed = f.handed /\ q.role = f.role /\ q.fresh = f.fresh
       /\ q.visiting = (Visits(f) \/ f.visiting)
       /\ q.asked = IF ~Visits(f) /\ f.visiting THEN "offline" ELSE f.asked
  BY <1>7, <1>13, EndAVisitIs
<1>15. SameKept(p, q)
  BY <1>8, <1>9, <1>10, <1>11, <1>12, <1>13, <1>14 DEF SameKept, SameWord, SameBody
<1>16. SameLobby(a, q) /\ q.holds = a.holds /\ SameLobby(a, b) /\ SameLobby(a, c) /\ SameLobby(a, d)
  BY <1>9, <1>10, <1>11, <1>12, <1>13, <1>14 DEF SameLobby
<1>17. q.slots = a.slots /\ (\A k \in Client : q.seats[k] = "none" <=> a.seats[k] = "none") /\ (a.lobby # "none" => q.seats = a.seats)
  BY <1>9, <1>10, <1>11, <1>12, <1>13, <1>14, <1>16 DEF SameSeats, SameLobby
<1>18. q.lobby # "none" => SameLatch(a, q)
  BY <1>9, <1>10, <1>11, <1>12, <1>13, <1>14, <1>16 DEF SameLatch, SameLobby
<1>19. q.lobby = "none" => ~q.mismatch /\ ~q.timedOut
  BY <1>12, <1>13, <1>14, <1>16 DEF SameLatch, SameLobby
<1>20. q.visiting <=> Visits(q) \/ p.visiting
  <2>1. f.visiting = p.visiting
    BY <1>8, <1>9, <1>10, <1>11, <1>12, <1>13 DEF SameVisit
  <2>2. Visits(f) <=> Visits(q)
    BY <1>14 DEF Visits, SameKept, SameLobby
  <2> QED
    BY <1>14, <2>1, <2>2
<1>21. q.asked = IF ~Visits(q) /\ p.visiting THEN "offline" ELSE p.asked
  <2>1. f.visiting = p.visiting /\ f.asked = p.asked
    BY <1>8, <1>9, <1>10, <1>11, <1>12, <1>13 DEF SameVisit, SameRole
  <2>2. Visits(f) <=> Visits(q)
    BY <1>14 DEF Visits, SameKept, SameLobby
  <2> QED
    BY <1>14, <2>1, <2>2
<1>22. q.role = e.role /\ q.fresh = e.fresh /\ q.handed = e.handed
  BY <1>13, <1>14 DEF SameRole, SameVisit
<1>23. c.role = b.role /\ c.fresh = b.fresh /\ SameLatch(a, c) /\ c.handed = IF b.role = "solo" /\ b.lobby # "none" THEN TRUE ELSE a.handed
  BY <1>9, <1>10 DEF SameRole, SameVisit, SameLatch
<1>24. q.lobby # "none" => /\ q.role = RoleInALobby(p) /\ (q.fresh <=> Adopts(p) \/ p.fresh)
                           /\ q.handed <=> p.role = "solo" \/ p.handed
  <2> SUFFICES ASSUME q.lobby # "none"
               PROVE  /\ q.role = RoleInALobby(p) /\ (q.fresh <=> Adopts(p) \/ p.fresh)
                      /\ q.handed <=> p.role = "solo" \/ p.handed
    OBVIOUS
  <2>1. a = p /\ p.lobby # "none"
    BY <1>8, <1>16 DEF SameLobby
  <2>2. b.role = p.role /\ b.fresh = p.fresh /\ b.lobby # "none"
    BY <1>9, <1>16, <2>1 DEF Starts, SameLobby
  <2>3. Adopts(c) <=> Adopts(p)
    BY <1>16, <1>23, <2>1, <2>2 DEF Adopts, SameLatch, SameLobby
  <2>4. e.role = d.role /\ e.fresh = d.fresh /\ e.handed = d.handed /\ d.handed = c.handed
    BY <1>11, <1>12, <1>16, <2>1 DEF SameLobby, SameVisit
  <2>5. d.role = RoleInALobby(p) /\ (d.fresh <=> Adopts(p) \/ p.fresh)
    BY <1>11, <1>16, <1>23, <2>1, <2>2, <2>3 DEF RoleInALobby, SameLobby
  <2>6. c.handed = IF p.role = "solo" THEN TRUE ELSE p.handed
    BY <1>23, <2>1, <2>2
  <2> QED
    BY <1>22, <2>4, <2>5, <2>6
<1>25. q.lobby = "none" => /\ q.role = RoleAlone(p) /\ (q.fresh => p.fresh \/ q.role = "solo")
                           /\ q.role = "solo" => q.fresh \/ p.role = "solo"
                           /\ p.handed /\ q.handed => p.role \in {"host", "client"}
                           /\ q.handed => p.handed
  <2> SUFFICES ASSUME q.lobby = "none"
               PROVE  /\ q.role = RoleAlone(p) /\ (q.fresh => p.fresh \/ q.role = "solo")
                      /\ q.role = "solo" => q.fresh \/ p.role = "solo"
                      /\ p.handed /\ q.handed => p.role \in {"host", "client"}
                      /\ q.handed => p.handed
    OBVIOUS
  <2>1. a.lobby = "none" /\ b.lobby = "none" /\ c.lobby = "none" /\ d.lobby = "none"
    BY <1>16 DEF SameLobby
  <2>2. a.role = (IF Ends THEN "offline" ELSE p.role) /\ a.fresh = p.fresh /\ a.state = p.state /\ a.handed = p.handed
    BY <1>8 DEF SameKept, SameVisit
  <2>3. Starts(a) <=> "StartSolo" \in inbox.asks /\ p.state = "offline" /\ (Ends \/ p.role \notin {"host", "client"})
    BY <2>1, <2>2 DEF Starts
  <2>4. ~Adopts(c)
    BY <2>1 DEF Adopts
  <2>5. d.role = b.role /\ d.fresh = b.fresh /\ d.handed = a.handed
    BY <1>11, <1>23, <2>1, <2>4 DEF SameVisit
  <2>6. e.role = RoleAlone(p)
    BY <1>9, <1>12, <2>1, <2>2, <2>3, <2>5 DEF RoleAlone
  <2>7. (e.fresh => p.fresh \/ e.role = "solo") /\ (e.role = "solo" => e.fresh \/ p.role = "solo")
    BY <1>9, <1>12, <2>1, <2>2, <2>5
  <2>8. e.handed => p.handed /\ p.role \in {"host", "client"}
    BY <1>9, <1>12, <2>1, <2>2, <2>3, <2>5
  <2> QED
    BY <1>22, <2>6, <2>7, <2>8
<1>26. /\ q.lobby = IF Ends THEN "none" ELSE p.lobby
       /\ q.awaiting = IF Ends THEN None ELSE p.awaiting
       /\ q.holds = IF Ends THEN p.holds \ {"AwaitingHost"} ELSE p.holds
  BY <1>8, <1>16 DEF SameLobby
<1>27. /\ Ends => \A k \in Client : q.seats[k] = "none" /\ q.slots[k] = None
       /\ ~Ends => q.slots = p.slots /\ \A k \in Client : q.seats[k] = "none" <=> p.seats[k] = "none"
       /\ q.lobby # "none" => SameLatch(p, q) /\ q.seats = p.seats
  <2>1. q.lobby # "none" => ~Ends
    BY <1>26
  <2> QED
    BY <1>8, <1>16, <1>17, <1>18, <2>1 DEF SameLobby
<1>28. q \in App
  BY <1>14
<1> QED
  BY <1>15, <1>19, <1>20, <1>21, <1>24, <1>25, <1>26, <1>27, <1>28, Zenon DEF SessionEffect

-----------------------------------------------------------------------------
(* THE CHAIN OF THE HANDSHAKE *)

(* What the handshake never touches. *)
SameShaken(p, q) ==
  /\ q.fresh = p.fresh /\ q.asked = p.asked /\ q.state = p.state /\ SameVisit(p, q) /\ SameLobby(p, q)
  /\ q.pending = p.pending /\ q.world = p.world /\ q.holds = p.holds

(* The seats after some announcements: a client is as it was, or newly verified. *)
SeatsOrVerified(p, q) ==
  \A c \in Client : \/ q.seats[c] = p.seats[c] /\ q.slots[c] = p.slots[c]
                    \/ p.seats[c] # "none" /\ q.seats[c] = "verified" /\ q.slots[c] # None

(* A slot is one client's, and stays that. *)
OneHolder(p)      == \A c, d \in Client : c # d /\ p.slots[c] # None => p.slots[c] # p.slots[d]
KeepsHolders(p, q) == OneHolder(p) => OneHolder(q)

LEMMA SameHolders ==
  ASSUME NEW p, NEW q, q.slots = p.slots
  PROVE  KeepsHolders(p, q)
BY DEF KeepsHolders, OneHolder

LEMMA HoldersOnAndOn ==
  ASSUME NEW p, NEW a, NEW q, KeepsHolders(p, a), KeepsHolders(a, q)
  PROVE  KeepsHolders(p, q)
BY DEF KeepsHolders

(* Who holds a slot is given it again, who does not one that nobody holds. *)
LEMMA AssignedIs ==
  ASSUME NEW p \in App, NEW c \in Client
  PROVE  /\ Assigned(p, c) \in Slots \cup {None}
         /\ p.slots[c] # None => Assigned(p, c) = p.slots[c]
         /\ p.slots[c] = None /\ Assigned(p, c) # None => \A d \in Client : p.slots[d] # Assigned(p, c)
<1>1. PICK free : free = Slots \ {p.slots[d] : d \in Client}
  OBVIOUS
<1>2. Assigned(p, c) = IF p.slots[c] # None THEN p.slots[c] ELSE IF free = {} THEN None ELSE Min(free)
  BY <1>1 DEF Assigned
<1>3. p.slots[c] \in Slots \cup {None}
  BY DEF App
<1>4. ASSUME free # {} PROVE Min(free) \in Slots /\ Min(free) \in free
  <2>1. free \in SUBSET Nat /\ free \subseteq Slots
    BY <1>1, Assumed
  <2>2. PICK m \in free : \A k \in free : m <= k
    BY <1>4, <2>1, LeastNumber
  <2>3. Min(free) \in free
    BY <2>2, Zenon DEF Min
  <2> QED
    BY <2>1, <2>3
<1>5. \A d \in Client : p.slots[d] \notin free
  BY <1>1
<1> QED
  BY <1>2, <1>3, <1>4, <1>5

LEMMA VerifyIs ==
  ASSUME NEW p \in App, NEW c \in Client, NEW q, q = VerifyClient(p, c)
  PROVE  /\ q \in App /\ SameRole(p, q) /\ SameShaken(p, q) /\ SameLatch(p, q) /\ SameWord(p, q) /\ SameBody(p, q)
         /\ SeatsOrVerified(p, q) /\ KeepsHolders(p, q)
<1>1. CASE p.seats[c] = "none" \/ Assigned(p, c) = None
  <2>1. q = p
    BY <1>1, Zenon DEF VerifyClient
  <2> QED
    BY <2>1 DEF SameRole, SameShaken, SameLatch, SameWord, SameBody, SameVisit, SameLobby, SeatsOrVerified,
      KeepsHolders
<1>2. CASE ~(p.seats[c] = "none" \/ Assigned(p, c) = None)
  <2>1. PICK m : m = Assigned(p, c)
    OBVIOUS
  <2>2. m \in Slots /\ m # None
    BY <1>2, <2>1, AssignedIs
  <2>3. PICK t : t = [p.slots EXCEPT ![c] = m]
    OBVIOUS
  <2>4. PICK s : s = [p.seats EXCEPT ![c] = "verified"]
    OBVIOUS
  <2>5. p.seats \in [Client -> {"none", "seated", "verified"}] /\ p.slots \in [Client -> Slots \cup {None}]
    BY DEF App
  <2>6. s \in [Client -> {"none", "seated", "verified"}] /\ t \in [Client -> Slots \cup {None}]
    BY <2>2, <2>3, <2>4, <2>5
  <2>7. q = [p EXCEPT !.slots[c] = m, !.seats[c] = "verified"]
    BY <1>2, <2>1, Zenon DEF VerifyClient
  <2>8. PICK a : a = [p EXCEPT !.slots = t]
    OBVIOUS
  <2>9. a \in App
    BY <2>6, <2>8 DEF App
  <2>10. q = [a EXCEPT !.seats = s]
    BY <2>3, <2>4, <2>7, <2>8 DEF App
  <2>11. q \in App
    BY <2>6, <2>9, <2>10 DEF App
  <2>12. /\ SameRole(p, q) /\ SameShaken(p, q) /\ SameLatch(p, q) /\ SameWord(p, q) /\ SameBody(p, q)
         /\ q.seats = s /\ q.slots = t
    BY <2>8, <2>9, <2>10, <2>11 DEF App, SameRole, SameShaken, SameLatch, SameWord, SameBody, SameVisit, SameLobby
  <2>13. SeatsOrVerified(p, q)
    BY <1>2, <2>2, <2>3, <2>4, <2>5, <2>12 DEF SeatsOrVerified
  <2>14. KeepsHolders(p, q)
    <3> SUFFICES ASSUME OneHolder(p), NEW a1 \in Client, NEW d \in Client, a1 # d, t[a1] # None
                 PROVE  t[a1] # t[d]
      BY <2>12 DEF KeepsHolders, OneHolder
    <3>1. \A k \in Client : t[k] = IF k = c THEN m ELSE p.slots[k]
      BY <2>3, <2>5
    <3>2. \A k \in Client : k # c => p.slots[k] # m
      BY <2>1, <2>2, AssignedIs DEF OneHolder
    <3> QED
      BY <3>1, <3>2 DEF OneHolder
  <2> QED
    BY <2>11, <2>12, <2>13, <2>14
<1> QED
  BY <1>1, <1>2, Zenon

(* Whose announcements wait to be looked at, and whose match. *)
Senders == {inbox.registry[i].sender : i \in DOMAIN inbox.registry}
Matched == {inbox.registry[i].sender : i \in {j \in DOMAIN inbox.registry : inbox.registry[j].matches}}

Hosting(p) == p.lobby \in {"asking", "hosting"}

SameToAll(p, q) ==
  /\ SameShaken(p, q) /\ q.welcome = p.welcome /\ SameBody(p, q) /\ q.timedOut = p.timedOut
  /\ KeepsHolders(p, q)
  /\ \A c \in Client : q.seats[c] = "none" <=> p.seats[c] = "none"

AtTheHost(p, q) ==
  q.role = p.role /\ q.mismatch = p.mismatch /\ q.verified = p.verified /\ SeatsOrVerified(p, q)

(* At a client the last match counts, and the first mismatch is the end. *)
AtTheClient(p, q, matched) ==
  /\ q.slots = p.slots /\ q.verified \in {p.verified} \cup matched
  /\ \/ q.role = p.role /\ q.mismatch = p.mismatch /\ q.seats = p.seats
     \/ ~p.mismatch /\ q.mismatch /\ q.role = "offline"

LEMMA ComparedIs ==
  ASSUME NEW p \in App, NEW said \in [sender : Epochs \cup Client, matches : BOOLEAN], NEW q, q = Compared(p, said)
  PROVE  /\ q \in App /\ SameToAll(p, q)
         /\ Hosting(p) => AtTheHost(p, q)
         /\ ~Hosting(p) => AtTheClient(p, q, IF said.matches THEN {said.sender} ELSE {})
<1>1. CASE q = p
  BY <1>1, SameHolders DEF SameToAll, AtTheHost, AtTheClient, SameShaken, SameBody, SameVisit, SameLobby, SeatsOrVerified
<1>2. CASE Hosting(p) /\ said.sender \in Client /\ q = VerifyClient(p, said.sender)
  <2>1. /\ q \in App /\ SameRole(p, q) /\ SameShaken(p, q) /\ SameLatch(p, q) /\ SameWord(p, q) /\ SameBody(p, q)
        /\ SeatsOrVerified(p, q) /\ KeepsHolders(p, q)
    BY <1>2, VerifyIs
  <2>2. \A c \in Client : q.seats[c] = "none" <=> p.seats[c] = "none"
    BY <2>1 DEF SeatsOrVerified
  <2> QED
    BY <1>2, <2>1, <2>2 DEF SameToAll, AtTheHost, SameRole, SameLatch, SameWord
<1>3. CASE ~Hosting(p) /\ said.matches /\ q = [p EXCEPT !.verified = said.sender]
  <2>1. PICK m \in Epochs \cup Client : m = said.sender
    OBVIOUS
  <2>2. q = [p EXCEPT !.verified = m]
    BY <1>3, <2>1
  <2>3. q \in App
    BY <2>2 DEF App
  <2>4. SameRole(p, q) /\ SameShaken(p, q) /\ SameLatch(p, q) /\ q.welcome = p.welcome /\ SameBody(p, q) /\ SameSeats(p, q) /\ q.verified = m
    BY <2>2, <2>3 DEF App, SameRole, SameShaken, SameLatch, SameBody, SameSeats, SameVisit, SameLobby
  <2> QED
    BY <1>3, <2>1, <2>3, <2>4, SameHolders DEF SameToAll, AtTheClient, SameRole, SameLatch, SameSeats
<1>4. CASE ~Hosting(p) /\ ~p.mismatch /\ ~said.matches /\ q = EndTickedSession([p EXCEPT !.mismatch = TRUE])
  <2>1. PICK a : a = [p EXCEPT !.mismatch = TRUE]
    OBVIOUS
  <2>2. a \in App
    BY <2>1 DEF App
  <2>3. SameRole(p, a) /\ SameShaken(p, a) /\ SameWord(p, a) /\ SameBody(p, a) /\ SameSeats(p, a) /\ a.timedOut = p.timedOut /\ a.mismatch
    BY <2>1, <2>2 DEF App, SameRole, SameShaken, SameWord, SameBody, SameSeats, SameVisit, SameLobby
  <2>4. q = EndTickedSession(a)
    BY <1>4, <2>1
  <2>5. /\ q \in App /\ q.role = "offline"
        /\ SameKept(a, q) /\ SameLatch(a, q) /\ SameVisit(a, q) /\ SameLobby(a, q)
        /\ q.fresh = a.fresh /\ q.asked = a.asked /\ q.holds = a.holds /\ q.slots = a.slots
        /\ \A c \in Client : q.seats[c] = IF a.seats[c] = "verified" THEN "seated" ELSE a.seats[c]
    BY <2>2, <2>4, EndTickedIs
  <2>6. \A c \in Client : q.seats[c] = "none" <=> p.seats[c] = "none"
    BY <2>3, <2>5 DEF SameSeats
  <2>7. SameShaken(p, q) /\ SameWord(p, q) /\ SameBody(p, q) /\ q.slots = p.slots /\ q.timedOut = p.timedOut /\ q.mismatch
    BY <2>3, <2>5 DEF SameRole, SameShaken, SameKept, SameWord, SameBody, SameSeats, SameLatch, SameVisit, SameLobby
  <2>8. KeepsHolders(p, q)
    BY <2>5, <2>7, SameHolders
  <2> QED
    BY <1>4, <2>5, <2>6, <2>7, <2>8 DEF SameToAll, AtTheClient, SameWord
<1>5. \/ q = p
      \/ Hosting(p) /\ said.sender \in Client /\ q = VerifyClient(p, said.sender)
      \/ ~Hosting(p) /\ said.matches /\ q = [p EXCEPT !.verified = said.sender]
      \/ ~Hosting(p) /\ ~p.mismatch /\ ~said.matches /\ q = EndTickedSession([p EXCEPT !.mismatch = TRUE])
  BY Zenon DEF Compared, Hosting
<1> QED
  BY <1>1, <1>2, <1>3, <1>4, <1>5, Zenon

RegistryEffect(p, q) ==
  /\ q \in App /\ SameToAll(p, q)
  /\ Hosting(p) => AtTheHost(p, q)
  /\ ~Hosting(p) => AtTheClient(p, q, Matched)
  /\ Senders = {} => q = p

LEMMA CheckRegistryIs ==
  ASSUME NEW p \in App, inbox \in Inbox, NEW q, q = CheckRegistry(p)
  PROVE  RegistryEffect(p, q)
<1>1. PICK s : s = inbox.registry
  OBVIOUS
<1>2. s \in Seq([sender : Epochs \cup Client, matches : BOOLEAN])
  BY <1>1 DEF Inbox
<1>3. PICK n \in Nat : n = Len(s)
  BY <1>2
<1>4. DOMAIN s = 1..n /\ \A i \in 1..n : s[i] \in [sender : Epochs \cup Client, matches : BOOLEAN]
  <2>1. PICK S : S = [sender : Epochs \cup Client, matches : BOOLEAN]
    OBVIOUS
  <2>2. s \in Seq(S)
    BY <1>2, <2>1
  <2>3. DOMAIN s = 1..n /\ \A i \in 1..n : s[i] \in S
    BY <1>3, <2>2
  <2> QED
    BY <2>1, <2>3
<1>5. PICK g : /\ g[0] = p /\ CheckRegistry(p) = g[n]
               /\ \A i \in 1..n : g[i] = Compared(g[i - 1], s[i])
  <2>1. DOMAIN s = 1..n
    BY <1>4
  <2> QED
    BY <1>1, <2>1, ChecksInTurn
<1>6. q = g[n]
  BY <1>5
<1> DEFINE Done(r) == /\ r \in App /\ SameToAll(p, r)
                      /\ Hosting(p) => AtTheHost(p, r)
                      /\ ~Hosting(p) => AtTheClient(p, r, Matched)
<1>7. Done(p)
  BY SameHolders DEF SameToAll, AtTheHost, AtTheClient, SameShaken, SameBody, SameVisit, SameLobby, SeatsOrVerified
<1>8. ASSUME NEW i \in 1..n, Done(g[i - 1]) PROVE Done(g[i])
  <2>1. PICK a : a = g[i - 1]
    OBVIOUS
  <2>2. PICK b : b = g[i]
    OBVIOUS
  <2>3. PICK said \in [sender : Epochs \cup Client, matches : BOOLEAN] : said = s[i]
    BY <1>4
  <2>4. a \in App /\ SameToAll(p, a) /\ (Hosting(p) => AtTheHost(p, a)) /\ (~Hosting(p) => AtTheClient(p, a, Matched))
    BY <1>8, <2>1
  <2>5. b = Compared(a, said)
    BY <1>5, <2>1, <2>2, <2>3
  <2>6. /\ b \in App /\ SameToAll(a, b)
        /\ Hosting(a) => AtTheHost(a, b)
        /\ ~Hosting(a) => AtTheClient(a, b, IF said.matches THEN {said.sender} ELSE {})
    BY <2>4, <2>5, ComparedIs
  <2>7. Hosting(a) <=> Hosting(p)
    BY <2>4 DEF Hosting, SameToAll, SameShaken, SameLobby
  <2>8. said.matches => said.sender \in Matched
    BY <1>1, <1>4, <2>3 DEF Matched
  <2>9. SameToAll(p, b)
    BY <2>4, <2>6, HoldersOnAndOn DEF SameToAll, SameShaken, SameBody, SameVisit, SameLobby
  <2>10. ASSUME Hosting(p) PROVE AtTheHost(p, b)
    <3>1. AtTheHost(p, a) /\ AtTheHost(a, b)
      BY <2>4, <2>6, <2>7, <2>10
    <3>2. SeatsOrVerified(p, b)
      BY <3>1 DEF AtTheHost, SeatsOrVerified
    <3> QED
      BY <3>1, <3>2 DEF AtTheHost
  <2>11. ASSUME ~Hosting(p) PROVE AtTheClient(p, b, Matched)
    <3>1. AtTheClient(p, a, Matched) /\ AtTheClient(a, b, IF said.matches THEN {said.sender} ELSE {})
      BY <2>4, <2>6, <2>7, <2>11
    <3>2. b.slots = p.slots /\ b.verified \in {p.verified} \cup Matched
      BY <2>8, <3>1 DEF AtTheClient
    <3>3. \/ b.role = p.role /\ b.mismatch = p.mismatch /\ b.seats = p.seats
          \/ ~p.mismatch /\ b.mismatch /\ b.role = "offline"
      BY <3>1 DEF AtTheClient
    <3> QED
      BY <3>2, <3>3 DEF AtTheClient
  <2> QED
    BY <2>2, <2>6, <2>9, <2>10, <2>11
<1>9. Done(g[n])
  <2> HIDE DEF Done
  <2> DEFINE T == {i \in Nat : i <= n => Done(g[i])}
  <2>1. 0 \in T
    BY <1>5, <1>7
  <2>2. ASSUME NEW i \in T PROVE i + 1 \in T
    <3> SUFFICES ASSUME i + 1 <= n PROVE Done(g[i + 1])
      OBVIOUS
    <3>1. i \in Nat /\ i + 1 \in 1..n /\ (i + 1) - 1 = i /\ Done(g[i])
      OBVIOUS
    <3> QED
      BY <1>8, <3>1
  <2>3. T = Nat
    <3> HIDE DEF T
    <3>1. T \in SUBSET Nat
      BY DEF T
    <3> QED
      BY <2>1, <2>2, <3>1, AllNumbers
  <2> QED
    BY <2>3
<1>10. Senders = {} => q = p
  <2> SUFFICES ASSUME n # 0 PROVE Senders # {}
    BY <1>5, <1>6
  <2>1. 1 \in DOMAIN s
    BY <1>4
  <2> QED
    BY <1>1, <2>1 DEF Senders
<1> QED
  BY <1>6, <1>9, <1>10 DEF RegistryEffect

LEMMA ReceiveWelcomeIs ==
  ASSUME NEW p \in App, inbox \in Inbox, NEW q, q = ReceiveWelcome(p)
  PROVE  /\ q \in App /\ SameRole(p, q) /\ SameShaken(p, q) /\ SameLatch(p, q) /\ SameBody(p, q) /\ SameSeats(p, q)
         /\ q.verified = p.verified
         /\ q.welcome = IF inbox.welcome = None THEN p.welcome ELSE inbox.welcome
<1>1. CASE inbox.welcome = None
  <2>1. q = p
    BY <1>1, Zenon DEF ReceiveWelcome
  <2> QED
    BY <1>1, <2>1 DEF SameRole, SameShaken, SameLatch, SameBody, SameSeats, SameVisit, SameLobby
<1>2. CASE inbox.welcome # None
  <2>1. PICK m : m = inbox.welcome
    OBVIOUS
  <2>2. m \in Epochs
    BY <1>2, <2>1 DEF Inbox
  <2>3. q = [p EXCEPT !.welcome = m]
    BY <1>2, <2>1, Zenon DEF ReceiveWelcome
  <2>4. q \in App
    BY <2>2, <2>3 DEF App
  <2>5. /\ SameRole(p, q) /\ SameShaken(p, q) /\ SameLatch(p, q) /\ SameBody(p, q) /\ SameSeats(p, q)
        /\ q.verified = p.verified /\ q.welcome = m
    BY <2>3, <2>4 DEF App, SameRole, SameShaken, SameLatch, SameBody, SameSeats, SameVisit, SameLobby
  <2> QED
    BY <1>2, <2>1, <2>4, <2>5
<1> QED
  BY <1>1, <1>2

LEMMA ApplyWelcomeIs ==
  ASSUME NEW p \in App, NEW q, q = ApplyWelcome(p)
  PROVE  /\ q \in App /\ SameRole(p, q) /\ SameShaken(p, q) /\ SameLatch(p, q) /\ SameSeats(p, q)
         /\ q.verified = p.verified /\ q.wait = p.wait
         /\ \/ q.slot = p.slot /\ q.welcome = p.welcome
            \/ p.role = "client" /\ p.state = "client" /\ p.welcome # None /\ q.slot = p.welcome /\ q.welcome = None
<1>1. CASE ~(p.role = "client" /\ p.state = "client" /\ p.welcome # None)
  <2>1. q = p
    BY <1>1, Zenon DEF ApplyWelcome
  <2> QED
    BY <2>1 DEF SameRole, SameShaken, SameLatch, SameSeats, SameVisit, SameLobby
<1>2. CASE p.role = "client" /\ p.state = "client" /\ p.welcome # None
  <2>1. PICK m : m = p.welcome
    OBVIOUS
  <2>2. m \in Epochs
    BY <1>2, <2>1 DEF App
  <2>3. q = [p EXCEPT !.slot = m, !.welcome = None]
    BY <1>2, <2>1, Zenon DEF ApplyWelcome
  <2>4. q \in App
    <3>1. PICK a : a = [p EXCEPT !.slot = m]
      OBVIOUS
    <3>2. a \in App
      BY <2>2, <3>1 DEF App
    <3>3. q = [a EXCEPT !.welcome = None]
      BY <2>3, <3>1
    <3> QED
      BY <3>2, <3>3 DEF App
  <2>5. /\ SameRole(p, q) /\ SameShaken(p, q) /\ SameLatch(p, q) /\ SameSeats(p, q)
        /\ q.verified = p.verified /\ q.wait = p.wait /\ q.slot = m /\ q.welcome = None
    BY <2>3, <2>4 DEF App, SameRole, SameShaken, SameLatch, SameSeats, SameVisit, SameLobby
  <2> QED
    BY <1>2, <2>1, <2>4, <2>5
<1> QED
  BY <1>1, <1>2

(* The wait for a match: what it counts to, and what it ends in. *)
LEMMA RefuseIs ==
  ASSUME NEW p \in App, NEW q, q = RefuseAfterTimeout(p)
  PROVE  /\ q \in App /\ SameShaken(p, q) /\ SameWord(p, q) /\ q.slot = p.slot /\ q.slots = p.slots
         /\ q.mismatch = p.mismatch
         /\ q.wait # 0 => q.role = "client" /\ (p.wait # 0 \/ p.lobby # "joined" \/ p.awaiting = None)
         /\ \A c \in Client : q.seats[c] = "none" <=> p.seats[c] = "none"
         /\ \/ q.role = p.role /\ q.timedOut = p.timedOut /\ q.seats = p.seats
            \/ p.role = "client" /\ q.role = "offline" /\ q.timedOut
<1>1. CASE p.role # "client" \/ p.verified # None
  <2>1. q = [p EXCEPT !.wait = 0]
    BY <1>1, Zenon DEF RefuseAfterTimeout
  <2>2. q \in App
    <3>1. PICK n \in 0..Timeout : n = 0
      BY Blanks
    <3>2. q = [p EXCEPT !.wait = n]
      BY <2>1, <3>1
    <3> QED
      BY <3>2 DEF App
  <2>3. /\ SameRole(p, q) /\ SameShaken(p, q) /\ SameWord(p, q) /\ SameLatch(p, q) /\ SameSeats(p, q)
        /\ q.slot = p.slot /\ q.wait = 0
    BY <2>1, <2>2 DEF App, SameRole, SameShaken, SameWord, SameLatch, SameSeats, SameVisit, SameLobby
  <2> QED
    BY <2>2, <2>3 DEF SameRole, SameLatch, SameSeats
<1>2. CASE p.role = "client" /\ p.verified = None /\ p.lobby = "joined" /\ p.awaiting # None
  <2>1. q = p
    BY <1>2, Zenon DEF RefuseAfterTimeout
  <2> QED
    BY <1>2, <2>1 DEF SameShaken, SameWord, SameVisit, SameLobby
<1>3. CASE p.role = "client" /\ p.verified = None /\ ~(p.lobby = "joined" /\ p.awaiting # None) /\ p.wait + 1 < Timeout
  <2>1. PICK n : n = p.wait + 1
    OBVIOUS
  <2>2. n \in 0..Timeout
    <3>1. p.wait \in 0..Timeout
      BY DEF App
    <3>2. Timeout \in Nat
      BY Assumed
    <3> QED
      BY <1>3, <2>1, <3>1, <3>2
  <2>3. q = [p EXCEPT !.wait = n]
    BY <1>3, <2>1, Zenon DEF RefuseAfterTimeout
  <2>4. q \in App
    BY <2>2, <2>3 DEF App
  <2>5. /\ SameRole(p, q) /\ SameShaken(p, q) /\ SameWord(p, q) /\ SameLatch(p, q) /\ SameSeats(p, q)
        /\ q.slot = p.slot
    BY <2>3, <2>4 DEF App, SameRole, SameShaken, SameWord, SameLatch, SameSeats, SameVisit, SameLobby
  <2> QED
    BY <1>3, <2>4, <2>5 DEF SameRole, SameLatch, SameSeats
<1>4. CASE p.role = "client" /\ p.verified = None /\ ~(p.lobby = "joined" /\ p.awaiting # None) /\ ~(p.wait + 1 < Timeout)
  <2>1. PICK a : a = [p EXCEPT !.wait = 0, !.timedOut = TRUE]
    OBVIOUS
  <2>2. a \in App
    <3>1. PICK n \in 0..Timeout : n = 0
      BY Blanks
    <3>2. a = [p EXCEPT !.wait = n, !.timedOut = TRUE]
      BY <2>1, <3>1
    <3> QED
      BY <3>2 DEF App
  <2>3. /\ SameRole(p, a) /\ SameShaken(p, a) /\ SameWord(p, a) /\ SameSeats(p, a)
        /\ a.slot = p.slot /\ a.mismatch = p.mismatch /\ a.timedOut /\ a.wait = 0
    BY <2>1, <2>2 DEF App, SameRole, SameShaken, SameWord, SameSeats, SameVisit, SameLobby
  <2>4. q = EndTickedSession(a)
    BY <1>4, <2>1, Zenon DEF RefuseAfterTimeout
  <2>5. /\ q \in App /\ q.role = "offline"
        /\ SameKept(a, q) /\ SameLatch(a, q) /\ SameVisit(a, q) /\ SameLobby(a, q)
        /\ q.fresh = a.fresh /\ q.asked = a.asked /\ q.holds = a.holds /\ q.slots = a.slots
        /\ \A c \in Client : q.seats[c] = IF a.seats[c] = "verified" THEN "seated" ELSE a.seats[c]
    BY <2>2, <2>4, EndTickedIs
  <2>6. \A c \in Client : q.seats[c] = "none" <=> p.seats[c] = "none"
    BY <2>3, <2>5 DEF SameSeats
  <2>7. SameShaken(p, q) /\ SameWord(p, q)
    BY <2>3, <2>5 DEF SameRole, SameShaken, SameKept, SameWord, SameBody, SameVisit, SameLobby
  <2>8. q.slot = p.slot /\ q.slots = p.slots /\ q.mismatch = p.mismatch /\ q.timedOut /\ q.wait = 0
    BY <2>3, <2>5 DEF SameKept, SameBody, SameSeats, SameLatch
  <2> QED
    BY <1>4, <2>5, <2>6, <2>7, <2>8
<1> QED
  BY <1>1, <1>2, <1>3, <1>4, Zenon

Word(p) == IF inbox.welcome = None THEN p.welcome ELSE inbox.welcome

SeatsOrVerifiedSlots(p, q) ==
  \A c \in Client : q.slots[c] = p.slots[c] \/ (p.seats[c] # "none" /\ q.slots[c] # None)

HandshakeEffect(p, q) ==
  /\ q \in App /\ SameShaken(p, q) /\ KeepsHolders(p, q)
  /\ \A c \in Client : q.seats[c] = "none" <=> p.seats[c] = "none"
  /\ Hosting(p) => q.verified = p.verified /\ SeatsOrVerifiedSlots(p, q)
  /\ ~Hosting(p) => q.verified \in {p.verified} \cup Matched /\ q.slots = p.slots
  /\ \/ q.slot = p.slot /\ q.welcome = Word(p)
     \/ p.role = "client" /\ p.state = "client" /\ q.slot = Word(p) /\ q.welcome = None /\ Word(p) # None
  /\ q.role = p.role \/ (q.role = "offline" /\ (q.mismatch \/ q.timedOut))
  /\ q.role # p.role /\ p.role # "client" => ~Hosting(p)
  /\ p.role = "host" /\ q.role = "host" => IF Hosting(p) THEN SeatsOrVerified(p, q) ELSE SameSeats(p, q)
  /\ (p.mismatch => q.mismatch) /\ (p.timedOut => q.timedOut)
  /\ (q.mismatch => p.mismatch \/ Senders # {}) /\ (q.timedOut => p.timedOut \/ p.role = "client")
  /\ q.wait # 0 => q.role = "client" /\ (p.wait # 0 \/ p.lobby # "joined" \/ p.awaiting = None)

LEMMA HandshakeChainIs ==
  ASSUME NEW p \in App, inbox \in Inbox, NEW q,
         q = RefuseAfterTimeout(ApplyWelcome(ReceiveWelcome(CheckRegistry(p))))
  PROVE  HandshakeEffect(p, q)
<1>1. PICK a : a = CheckRegistry(p)
  OBVIOUS
<1>2. PICK b : b = ReceiveWelcome(a)
  OBVIOUS
<1>3. PICK c : c = ApplyWelcome(b)
  OBVIOUS
<1>4. q = RefuseAfterTimeout(c)
  BY <1>1, <1>2, <1>3
<1>5. /\ a \in App /\ SameToAll(p, a)
      /\ Hosting(p) => AtTheHost(p, a)
      /\ ~Hosting(p) => AtTheClient(p, a, Matched)
      /\ Senders = {} => a = p
  BY <1>1, CheckRegistryIs DEF RegistryEffect
<1>6. /\ b \in App /\ SameRole(a, b) /\ SameShaken(a, b) /\ SameLatch(a, b) /\ SameBody(a, b) /\ SameSeats(a, b)
      /\ b.verified = a.verified
      /\ b.welcome = IF inbox.welcome = None THEN a.welcome ELSE inbox.welcome
  BY <1>2, <1>5, ReceiveWelcomeIs
<1>7. /\ c \in App /\ SameRole(b, c) /\ SameShaken(b, c) /\ SameLatch(b, c) /\ SameSeats(b, c)
      /\ c.verified = b.verified /\ c.wait = b.wait
      /\ \/ c.slot = b.slot /\ c.welcome = b.welcome
         \/ b.role = "client" /\ b.state = "client" /\ b.welcome # None /\ c.slot = b.welcome /\ c.welcome = None
  BY <1>3, <1>6, ApplyWelcomeIs
<1>8. /\ q \in App /\ SameShaken(c, q) /\ SameWord(c, q) /\ q.slot = c.slot /\ q.slots = c.slots
      /\ q.mismatch = c.mismatch
      /\ q.wait # 0 => q.role = "client" /\ (c.wait # 0 \/ c.lobby # "joined" \/ c.awaiting = None)
      /\ \A k \in Client : q.seats[k] = "none" <=> c.seats[k] = "none"
      /\ \/ q.role = c.role /\ q.timedOut = c.timedOut /\ q.seats = c.seats
         \/ c.role = "client" /\ q.role = "offline" /\ q.timedOut
  BY <1>4, <1>7, RefuseIs
<1>9. SameShaken(p, q) /\ (\A k \in Client : q.seats[k] = "none" <=> p.seats[k] = "none")
  <2>1. SameShaken(p, a) /\ \A k \in Client : a.seats[k] = "none" <=> p.seats[k] = "none"
    BY <1>5 DEF SameToAll
  <2>2. c.seats = a.seats
    BY <1>6, <1>7 DEF SameSeats
  <2>3. SameShaken(p, q)
    BY <1>6, <1>7, <1>8, <2>1 DEF SameShaken, SameVisit, SameLobby
  <2> QED
    BY <1>8, <2>1, <2>2, <2>3
<1>10. q.verified = a.verified /\ q.slots = a.slots /\ c.seats = a.seats /\ c.role = a.role /\ q.mismatch = a.mismatch /\ c.timedOut = p.timedOut
  BY <1>5, <1>6, <1>7, <1>8 DEF SameWord, SameSeats, SameRole, SameLatch, SameToAll
<1>11. Hosting(p) => q.verified = p.verified /\ SeatsOrVerifiedSlots(p, q)
  BY <1>5, <1>10 DEF AtTheHost, SeatsOrVerified, SeatsOrVerifiedSlots
<1>12. ~Hosting(p) => q.verified \in {p.verified} \cup Matched /\ q.slots = p.slots
  BY <1>5, <1>10 DEF AtTheClient
<1>13. a.role = p.role \/ (a.role = "offline" /\ a.mismatch)
  BY <1>5 DEF AtTheHost, AtTheClient
<1>14. \/ q.slot = p.slot /\ q.welcome = Word(p)
       \/ p.role = "client" /\ p.state = "client" /\ q.slot = Word(p) /\ q.welcome = None /\ Word(p) # None
  <2>1. a.welcome = p.welcome /\ a.slot = p.slot /\ a.state = p.state
    BY <1>5 DEF SameToAll, SameShaken, SameBody
  <2>2. b.welcome = Word(p) /\ b.slot = p.slot /\ b.state = p.state /\ b.role = a.role
    BY <1>6, <2>1 DEF Word, SameRole, SameBody
  <2>3. q.slot = c.slot /\ q.welcome = c.welcome
    BY <1>8 DEF SameWord
  <2> QED
    BY <1>7, <1>13, <2>2, <2>3
<1>15. q.role = p.role \/ (q.role = "offline" /\ (q.mismatch \/ q.timedOut))
  BY <1>8, <1>10, <1>13
<1>16. q.role # p.role /\ p.role # "client" => ~Hosting(p)
  BY <1>5, <1>8, <1>10 DEF AtTheHost
<1>17. p.role = "host" /\ q.role = "host" => IF Hosting(p) THEN SeatsOrVerified(p, q) ELSE SameSeats(p, q)
  <2> SUFFICES ASSUME p.role = "host", q.role = "host"
               PROVE  IF Hosting(p) THEN SeatsOrVerified(p, q) ELSE SameSeats(p, q)
    OBVIOUS
  <2>1. a.role # "client"
    BY <1>13
  <2>2. q.seats = a.seats /\ q.role = a.role
    BY <1>8, <1>10, <2>1
  <2>3. CASE Hosting(p)
    BY <1>5, <1>10, <2>2, <2>3 DEF AtTheHost, SeatsOrVerified
  <2>4. CASE ~Hosting(p)
    <3>1. AtTheClient(p, a, Matched)
      BY <1>5, <2>4
    <3>2. a.seats = p.seats \/ (~p.mismatch /\ a.mismatch /\ a.role = "offline")
      BY <3>1 DEF AtTheClient
    <3> QED
      BY <1>10, <2>2, <2>4, <3>1, <3>2 DEF SameSeats, AtTheClient
  <2> QED
    BY <2>3, <2>4
<1>18. (p.mismatch => q.mismatch) /\ (p.timedOut => q.timedOut)
  BY <1>5, <1>8, <1>10 DEF AtTheHost, AtTheClient
<1>19. (q.mismatch => p.mismatch \/ Senders # {}) /\ (q.timedOut => p.timedOut \/ p.role = "client")
  BY <1>5, <1>8, <1>10, <1>13 DEF AtTheHost, AtTheClient
<1>20. q \in App /\ (q.wait # 0 => q.role = "client" /\ (p.wait # 0 \/ p.lobby # "joined" \/ p.awaiting = None))
  <2>1. c.lobby = p.lobby /\ c.awaiting = p.awaiting /\ c.wait = p.wait
    BY <1>5, <1>6, <1>7 DEF SameToAll, SameShaken, SameLobby, SameBody
  <2> QED
    BY <1>8, <2>1
<1>21. KeepsHolders(p, q)
  BY <1>5, <1>10 DEF SameToAll, KeepsHolders, OneHolder
<1> QED
  BY <1>9, <1>11, <1>12, <1>14, <1>15, <1>16, <1>17, <1>18, <1>19, <1>20, <1>21, Zenon DEF HandshakeEffect

-----------------------------------------------------------------------------
(* WHAT EACH ACTION DOES *)

(* The types, and that a lobby that is joined has a host. *)
Typed == TypeOK /\ (Joining => host.epoch > 0)

(* What nothing that arrives touches. *)
Same(p, q) ==
  /\ SameRole(p, q) /\ SameLatch(p, q) /\ SameWord(p, q)
  /\ q.visiting = p.visiting /\ q.handed = p.handed /\ q.slot = p.slot /\ q.wait = p.wait /\ q.world = p.world

Unmoved == phase = "receive" /\ phase' = phase /\ chains' = chains /\ compared' = compared /\ Same(app, app')

SameInbox == inbox' = inbox /\ Senders' = Senders

LEMMA HostIsAnEpoch ==
  ASSUME Typed, Joining
  PROVE  host.epoch \in Epochs
BY Assumed DEF Typed, TypeOK, Epochs

LEMMA SaidIs ==
  ASSUME inbox \in Inbox, NEW said \in [sender : Epochs \cup Client, matches : BOOLEAN],
         inbox' = [inbox EXCEPT !.registry = Append(@, said)]
  PROVE  /\ Senders' = Senders \cup {said.sender}
         /\ inbox'.welcome = inbox.welcome /\ inbox'.snapshot = inbox.snapshot
         /\ inbox'.change = inbox.change /\ inbox'.asks = inbox.asks
<1>1. PICK s \in Seq([sender : Epochs \cup Client, matches : BOOLEAN]) : s = inbox.registry
  BY DEF Inbox
<1>2. inbox'.registry = Append(s, said)
  BY <1>1 DEF Inbox
<1>3. Senders' = Senders \cup {said.sender}
  <2>1. PICK S : S = [sender : Epochs \cup Client, matches : BOOLEAN]
    OBVIOUS
  <2>2. PICK t : t = Append(s, said)
    OBVIOUS
  <2>3. s \in Seq(S) /\ said \in S
    BY <2>1
  <2>4. PICK n \in Nat : n = Len(s)
    BY <2>3
  <2>5. DOMAIN s = 1..n /\ DOMAIN t = 1..(n + 1) /\ t[n + 1] = said /\ \A i \in 1..n : t[i] = s[i]
    BY <2>2, <2>3, <2>4
  <2>6. \A i : i \in DOMAIN t <=> i \in DOMAIN s \/ i = n + 1
    BY <2>4, <2>5
  <2>7. \A x : x \in {t[i].sender : i \in DOMAIN t} <=> x \in {s[i].sender : i \in DOMAIN s} \/ x = said.sender
    BY <2>5, <2>6
  <2>8. {t[i].sender : i \in DOMAIN t} = {s[i].sender : i \in DOMAIN s} \cup {said.sender}
    BY <2>7
  <2> QED
    BY <1>1, <1>2, <2>2, <2>8, SMTT(30) DEF Senders
<1> QED
  BY <1>3 DEF Inbox

LEMMA HostBackIs ==
  ASSUME NEW p \in App, NEW q, q = HostBack(p)
  PROVE  /\ q \in App /\ Same(p, q) /\ SameSeats(p, q) /\ q.lobby = p.lobby /\ q.game = p.game
         /\ q.awaiting = None /\ q.pending = p.pending
         /\ q.holds = (p.holds \ {"AwaitingHost"}) \cup
                       (IF p.awaiting = "reconnect" /\ p.role = "client" THEN {"AwaitingSync"} ELSE {})
<1>1. PICK h : h = (p.holds \ {"AwaitingHost"}) \cup
                       (IF p.awaiting = "reconnect" /\ p.role = "client" THEN {"AwaitingSync"} ELSE {})
  OBVIOUS
<1>2. h \in SUBSET {"AwaitingSync", "AwaitingHost"}
  BY <1>1 DEF App
<1>3. q = [p EXCEPT !.awaiting = None, !.holds = h]
  BY <1>1 DEF HostBack
<1>4. q \in App
  <2>1. PICK a : a = [p EXCEPT !.awaiting = None]
    OBVIOUS
  <2>2. a \in App
    BY <2>1 DEF App
  <2>3. q = [a EXCEPT !.holds = h]
    BY <1>3, <2>1
  <2> QED
    BY <1>2, <2>2, <2>3 DEF App
<1>5. /\ Same(p, q) /\ SameSeats(p, q) /\ q.lobby = p.lobby /\ q.game = p.game
      /\ q.awaiting = None /\ q.pending = p.pending /\ q.holds = h
  BY <1>3, <1>4 DEF App, Same, SameRole, SameLatch, SameWord, SameSeats
<1> QED
  BY <1>1, <1>4, <1>5

LEMMA AskIs ==
  ASSUME Typed, AskForALobby
  PROVE  /\ app' \in App /\ Unmoved /\ SameInbox /\ SameSeats(app, app')
         /\ app'.pending = app.pending /\ app'.holds = app.holds /\ app'.awaiting = app.awaiting
         /\ app.lobby = "none" /\ settled > 0 /\ ~Ends /\ settled' = 0 /\ synced' = synced
         /\ \/ app'.lobby = "asking" /\ host' = host
            \/ app'.lobby = "joining" /\ host'.epoch = host.epoch + 1
<1>1. app \in App
  BY DEF Typed, TypeOK
<1>2. PICK l \in {"asking", "joining"} : app' = [app EXCEPT !.lobby = l, !.game = TRUE]
  BY DEF AskForALobby
<1>3. app' \in App
  BY <1>1, <1>2 DEF App
<1>4. /\ Same(app, app') /\ SameSeats(app, app') /\ app'.lobby = l
      /\ app'.pending = app.pending /\ app'.holds = app.holds /\ app'.awaiting = app.awaiting
  BY <1>1, <1>2, <1>3 DEF App, Same, SameRole, SameLatch, SameWord, SameSeats
<1>5. Unmoved
  BY <1>4 DEF AskForALobby, Receives, Unmoved
<1>6. SameInbox
  BY DEF AskForALobby, SameInbox, Senders
<1>7. app.lobby = "none" /\ settled > 0 /\ ~Ends /\ settled' = 0 /\ synced' = synced
  BY DEF AskForALobby, Ends
<1>8. \/ app'.lobby = "asking" /\ host' = host
      \/ app'.lobby = "joining" /\ host'.epoch = host.epoch + 1
  <2>1. CASE app' = [app EXCEPT !.lobby = "asking", !.game = TRUE] /\ UNCHANGED host
    BY <1>1, <2>1 DEF App
  <2>2. CASE app' = [app EXCEPT !.lobby = "joining", !.game = TRUE] /\ \E kind \in HostKind : host' = NewHost(kind)
    <3>1. app'.lobby = "joining"
      BY <1>1, <2>2 DEF App
    <3>2. host'.epoch = host.epoch + 1
      BY <2>2 DEF NewHost
    <3> QED
      BY <3>1, <3>2
  <2> QED
    BY <2>1, <2>2 DEF AskForALobby
<1> QED
  BY <1>3, <1>4, <1>5, <1>6, <1>7, <1>8

LEMMA PromotedIs ==
  ASSUME Typed, Promoted
  PROVE  /\ app' \in App /\ Unmoved /\ SameInbox /\ SameSeats(app, app') /\ app'.game = app.game
         /\ app'.pending = app.pending /\ app'.holds = app.holds /\ app'.awaiting = app.awaiting
         /\ settled' = settled /\ synced' = synced /\ host' = host
         /\ \/ app.lobby = "asking" /\ app'.lobby = "hosting"
            \/ app.lobby = "joining" /\ app'.lobby = "joined"
<1>1. app \in App
  BY DEF Typed, TypeOK
<1>2. PICK l \in {"hosting", "joined"} : app' = [app EXCEPT !.lobby = l] /\ l = IF app.lobby = "asking" THEN "hosting" ELSE "joined"
  BY DEF Promoted
<1>3. app' \in App
  BY <1>1, <1>2 DEF App
<1>4. /\ Same(app, app') /\ SameSeats(app, app') /\ app'.lobby = l /\ app'.game = app.game
      /\ app'.pending = app.pending /\ app'.holds = app.holds /\ app'.awaiting = app.awaiting
  BY <1>1, <1>2, <1>3 DEF App, Same, SameRole, SameLatch, SameWord, SameSeats
<1>5. Unmoved
  BY <1>4 DEF Promoted, Receives, Unmoved
<1>6. SameInbox
  BY DEF Promoted, SameInbox, Senders
<1>7. app.lobby \in {"asking", "joining"} /\ settled' = settled /\ synced' = synced /\ host' = host
  BY DEF Promoted
<1> QED
  BY <1>2, <1>3, <1>4, <1>5, <1>6, <1>7

LEMMA LobbyGoesIs ==
  ASSUME Typed, LobbyGoes
  PROVE  /\ app' \in App /\ Unmoved /\ SameInbox /\ app'.game = app.game
         /\ \A c \in Client : app'.seats[c] = "none" /\ app'.slots[c] = None
         /\ app'.pending = app.pending /\ app'.holds = app.holds \ {"AwaitingHost"} /\ app'.awaiting = None
         /\ app.lobby # "none" /\ app'.lobby = "none" /\ settled > 0 /\ settled' = 0
         /\ ~Leaving /\ (HandBack \/ (app.role # "solo" /\ "StartSolo" \notin inbox.asks))
         /\ synced' = synced /\ host'.epoch = host.epoch
<1>1. app \in App
  BY DEF Typed, TypeOK
<1>2. app' = LobbyDespawned(app)
  BY DEF LobbyGoes
<1>3. /\ app' \in App
      /\ SameRole(app, app') /\ SameLatch(app, app') /\ SameWord(app, app') /\ SameVisit(app, app') /\ SameBody(app, app')
      /\ app'.lobby = "none" /\ app'.awaiting = None /\ app'.holds = app.holds \ {"AwaitingHost"}
      /\ \A c \in Client : app'.seats[c] = "none" /\ app'.slots[c] = None
  BY <1>1, <1>2, DespawnedIs
<1>4. Unmoved
  BY <1>3 DEF LobbyGoes, Receives, Unmoved, Same, SameVisit, SameBody
<1>5. SameInbox
  BY DEF LobbyGoes, SameInbox, Senders
<1>6. host'.epoch = host.epoch
  BY DEF LobbyGoes, NoHost, Typed, TypeOK
<1>7. /\ app.lobby # "none" /\ settled > 0 /\ settled' = 0 /\ synced' = synced
      /\ ~Leaving /\ (HandBack \/ (app.role # "solo" /\ "StartSolo" \notin inbox.asks))
  BY DEF LobbyGoes
<1> QED
  BY <1>3, <1>4, <1>5, <1>6, <1>7 DEF SameVisit, SameBody

LEMMA LoseHostIs ==
  ASSUME Typed, NEW why \in {"reconnect", "successor"}, LoseHost(why)
  PROVE  /\ app' \in App /\ Unmoved /\ SameInbox /\ SameSeats(app, app') /\ app'.game = app.game
         /\ app'.lobby = app.lobby /\ app.lobby = "joined" /\ app.awaiting = None /\ app'.awaiting = why
         /\ app'.holds = app.holds \cup {"AwaitingHost"} /\ app'.pending \in {None, app.pending}
         /\ LossAtTheDoor \/ app.role = app.state
         /\ settled' = 0 /\ ~synced' /\ host' = host
<1>1. app \in App
  BY DEF Typed, TypeOK
<1>2. PICK h : h = app.holds \cup {"AwaitingHost"}
  OBVIOUS
<1>3. h \in SUBSET {"AwaitingSync", "AwaitingHost"}
  BY <1>1, <1>2 DEF App
<1>4. PICK n : n = IF why = "reconnect" THEN None ELSE app.pending
  OBVIOUS
<1>5. n \in Epochs \cup {None} /\ n \in {None, app.pending}
  BY <1>1, <1>4 DEF App
<1>6. app' = [app EXCEPT !.awaiting = why, !.holds = h, !.pending = n]
  BY <1>2, <1>4 DEF LoseHost, HostOutOfReach
<1>7. app' \in App
  <2>1. PICK a : a = [app EXCEPT !.awaiting = why]
    OBVIOUS
  <2>2. a \in App
    BY <1>1, <2>1 DEF App
  <2>3. PICK b : b = [a EXCEPT !.holds = h]
    OBVIOUS
  <2>4. b \in App
    BY <1>3, <2>2, <2>3 DEF App
  <2>5. app' = [b EXCEPT !.pending = n]
    BY <1>6, <2>1, <2>3
  <2> QED
    BY <1>5, <2>4, <2>5 DEF App
<1>8. /\ Same(app, app') /\ SameSeats(app, app') /\ app'.lobby = app.lobby /\ app'.game = app.game
      /\ app'.awaiting = why /\ app'.holds = h /\ app'.pending = n
  BY <1>1, <1>6, <1>7 DEF App, Same, SameRole, SameLatch, SameWord, SameSeats
<1>9. Unmoved
  BY <1>8 DEF LoseHost, Receives, Unmoved
<1>10. SameInbox
  BY DEF LoseHost, SameInbox, Senders
<1>11. /\ app.lobby = "joined" /\ app.awaiting = None /\ (LossAtTheDoor \/ app.role = app.state)
       /\ settled' = 0 /\ ~synced' /\ host' = host
  BY DEF LoseHost
<1> QED
  BY <1>2, <1>5, <1>7, <1>8, <1>9, <1>10, <1>11

LEMMA FindHostIs ==
  ASSUME Typed, FindHost
  PROVE  /\ app' \in App /\ Unmoved /\ SameInbox /\ SameSeats(app, app') /\ app'.game = app.game
         /\ app'.lobby = app.lobby /\ app.awaiting \in {"reconnect", "newHost"} /\ app'.awaiting = None
         /\ app'.pending = app.pending
         /\ app'.holds = (app.holds \ {"AwaitingHost"}) \cup
                         (IF app.awaiting = "reconnect" /\ app.role = "client" THEN {"AwaitingSync"} ELSE {})
         /\ settled > 0 /\ settled' = settled /\ synced' = synced /\ host'.epoch = host.epoch
<1>1. app \in App
  BY DEF Typed, TypeOK
<1>2. app' = HostBack(app)
  BY DEF FindHost
<1>3. /\ app' \in App /\ Same(app, app') /\ SameSeats(app, app') /\ app'.lobby = app.lobby /\ app'.game = app.game
      /\ app'.awaiting = None /\ app'.pending = app.pending
      /\ app'.holds = (app.holds \ {"AwaitingHost"}) \cup
                       (IF app.awaiting = "reconnect" /\ app.role = "client" THEN {"AwaitingSync"} ELSE {})
  BY <1>1, <1>2, HostBackIs
<1>4. Unmoved
  BY <1>3 DEF FindHost, Receives, Unmoved
<1>5. SameInbox
  BY DEF FindHost, SameInbox, Senders
<1>6. host'.epoch = host.epoch
  BY DEF FindHost, Typed, TypeOK
<1>7. app.awaiting \in {"reconnect", "newHost"} /\ settled > 0 /\ settled' = settled /\ synced' = synced
  BY DEF FindHost
<1> QED
  BY <1>3, <1>4, <1>5, <1>6, <1>7

LEMMA ChangeHostIs ==
  ASSUME Typed, ChangeHost
  PROVE  /\ app' \in App /\ Unmoved /\ SameSeats(app, app') /\ app'.game = app.game /\ app'.pending = app.pending
         /\ Senders' = Senders /\ inbox'.welcome = inbox.welcome /\ inbox'.snapshot = inbox.snapshot /\ inbox'.asks = inbox.asks
         /\ app.awaiting = "successor" /\ settled > 0 /\ settled' = 0 /\ synced' = synced
         /\ \/ /\ inbox'.change = "host" /\ app'.lobby = "hosting" /\ app'.awaiting = None
               /\ app'.holds = app.holds \ {"AwaitingHost"} /\ host' = host
            \/ /\ inbox'.change = "client" /\ app'.lobby = app.lobby /\ app'.awaiting = "newHost"
               /\ app'.holds = app.holds /\ host'.epoch = host.epoch + 1
<1>1. app \in App /\ inbox \in Inbox
  BY DEF Typed, TypeOK
<1>2. app.awaiting = "successor" /\ settled > 0 /\ settled' = 0 /\ synced' = synced /\ Receives
  BY DEF ChangeHost
<1>3. /\ Senders' = Senders /\ inbox'.welcome = inbox.welcome /\ inbox'.snapshot = inbox.snapshot /\ inbox'.asks = inbox.asks
      /\ inbox'.registry = inbox.registry
  <2>1. PICK x \in {"host", "client"} : inbox' = [inbox EXCEPT !.change = x]
    BY DEF ChangeHost
  <2> QED
    BY <1>1, <2>1 DEF Inbox, Senders
<1>4. CASE /\ app' = [HostBack(app) EXCEPT !.lobby = "hosting"]
           /\ inbox' = [inbox EXCEPT !.change = "host"]
           /\ UNCHANGED host
  <2>1. PICK a : a = HostBack(app)
    OBVIOUS
  <2>2. /\ a \in App /\ Same(app, a) /\ SameSeats(app, a) /\ a.lobby = app.lobby /\ a.game = app.game
        /\ a.awaiting = None /\ a.pending = app.pending
        /\ a.holds = (app.holds \ {"AwaitingHost"}) \cup
                       (IF app.awaiting = "reconnect" /\ app.role = "client" THEN {"AwaitingSync"} ELSE {})
    BY <1>1, <2>1, HostBackIs
  <2>3. app' = [a EXCEPT !.lobby = "hosting"]
    BY <1>4, <2>1
  <2>4. app' \in App
    BY <2>2, <2>3 DEF App
  <2>5. /\ Same(a, app') /\ SameSeats(a, app') /\ app'.lobby = "hosting" /\ app'.game = a.game
        /\ app'.awaiting = a.awaiting /\ app'.pending = a.pending /\ app'.holds = a.holds
    BY <2>2, <2>3, <2>4 DEF App, Same, SameRole, SameLatch, SameWord, SameSeats
  <2>6. Same(app, app') /\ SameSeats(app, app')
    BY <2>2, <2>5 DEF Same, SameRole, SameLatch, SameWord, SameSeats
  <2>7. Unmoved
    BY <1>2, <2>6 DEF ChangeHost, Receives, Unmoved
  <2>8. app'.holds = app.holds \ {"AwaitingHost"}
    BY <1>2, <2>2, <2>5
  <2>9. inbox'.change = "host"
    BY <1>1, <1>4 DEF Inbox
  <2> QED
    BY <1>2, <1>3, <1>4, <2>2, <2>4, <2>5, <2>6, <2>7, <2>8, <2>9
<1>5. CASE /\ app' = [app EXCEPT !.awaiting = "newHost"]
           /\ inbox' = [inbox EXCEPT !.change = "client"]
           /\ \E kind \in HostKind : host' = NewHost(kind)
  <2>1. app' \in App
    BY <1>1, <1>5 DEF App
  <2>2. /\ Same(app, app') /\ SameSeats(app, app') /\ app'.lobby = app.lobby /\ app'.game = app.game
        /\ app'.awaiting = "newHost" /\ app'.pending = app.pending /\ app'.holds = app.holds
    BY <1>1, <1>5, <2>1 DEF App, Same, SameRole, SameLatch, SameWord, SameSeats
  <2>3. Unmoved
    BY <1>2, <2>2 DEF ChangeHost, Receives, Unmoved
  <2>4. inbox'.change = "client"
    BY <1>1, <1>5 DEF Inbox
  <2>5. host'.epoch = host.epoch + 1
    BY <1>5 DEF NewHost
  <2> QED
    BY <1>2, <1>3, <2>1, <2>2, <2>3, <2>4, <2>5
<1> QED
  BY <1>4, <1>5 DEF ChangeHost

LEMMA HostSaysIs ==
  ASSUME Typed, HostSays
  PROVE  /\ app' = app /\ Unmoved /\ Joining /\ app.awaiting = None
         /\ Senders' = Senders \cup {host.epoch} /\ inbox'.welcome = inbox.welcome /\ inbox'.snapshot = inbox.snapshot
         /\ inbox'.change = inbox.change /\ inbox'.asks = inbox.asks
         /\ settled' = settled /\ synced' = synced /\ host'.epoch = host.epoch
<1>1. app \in App /\ inbox \in Inbox
  BY DEF Typed, TypeOK
<1>2. app' = app
  BY DEF HostSays
<1>3. Unmoved
  BY <1>2 DEF HostSays, Receives, Reached, Unmoved, Same, SameRole, SameLatch, SameWord
<1>4. /\ Senders' = Senders \cup {host.epoch} /\ inbox'.welcome = inbox.welcome /\ inbox'.snapshot = inbox.snapshot
      /\ inbox'.change = inbox.change /\ inbox'.asks = inbox.asks
  <2>1. PICK said : said = [sender |-> host.epoch, matches |-> host.kind # "mismatch"]
    OBVIOUS
  <2>2. inbox' = [inbox EXCEPT !.registry = Append(@, said)]
    BY <2>1 DEF HostSays
  <2>3. said \in [sender : Epochs \cup Client, matches : BOOLEAN]
    BY <2>1, HostIsAnEpoch DEF HostSays, Reached
  <2> QED
    BY <1>1, <2>1, <2>2, <2>3, SaidIs
<1>5. host'.epoch = host.epoch
  BY DEF HostSays, Typed, TypeOK
<1>6. Joining /\ app.awaiting = None /\ settled' = settled /\ synced' = synced
  BY DEF HostSays, Reached
<1> QED
  BY <1>2, <1>3, <1>4, <1>5, <1>6

LEMMA HostWelcomesIs ==
  ASSUME Typed, HostWelcomes
  PROVE  /\ app' = app /\ Unmoved /\ Joining /\ app.awaiting = None
         /\ Senders' = Senders /\ inbox'.welcome = host.epoch /\ inbox'.snapshot = inbox.snapshot
         /\ inbox'.change = inbox.change /\ inbox'.asks = inbox.asks
         /\ settled' = settled /\ synced' = synced /\ host'.epoch = host.epoch
<1>1. app \in App /\ inbox \in Inbox
  BY DEF Typed, TypeOK
<1>2. app' = app
  BY DEF HostWelcomes
<1>3. Unmoved
  BY <1>2 DEF HostWelcomes, Receives, Reached, Unmoved, Same, SameRole, SameLatch, SameWord
<1>4. /\ Senders' = Senders /\ inbox'.welcome = host.epoch /\ inbox'.snapshot = inbox.snapshot
      /\ inbox'.change = inbox.change /\ inbox'.asks = inbox.asks
  <2>1. inbox' = [inbox EXCEPT !.welcome = host.epoch]
    BY DEF HostWelcomes
  <2> QED
    BY <1>1, <2>1 DEF Inbox, Senders
<1>5. host'.epoch = host.epoch
  BY DEF HostWelcomes, Typed, TypeOK
<1>6. Joining /\ app.awaiting = None /\ settled' = settled /\ synced' = synced
  BY DEF HostWelcomes, Reached
<1> QED
  BY <1>2, <1>3, <1>4, <1>5, <1>6

LEMMA SnapshotArrivesIs ==
  ASSUME Typed, SnapshotArrives
  PROVE  /\ app' = app /\ Unmoved /\ Joining /\ app.awaiting = None
         /\ Senders' = Senders /\ inbox'.welcome = inbox.welcome /\ inbox'.snapshot = host.epoch
         /\ inbox'.change = inbox.change /\ inbox'.asks = inbox.asks
         /\ settled' = settled /\ synced' = synced /\ host' = host
<1>1. app \in App /\ inbox \in Inbox
  BY DEF Typed, TypeOK
<1>2. app' = app
  BY DEF SnapshotArrives
<1>3. Unmoved
  BY <1>2 DEF SnapshotArrives, Receives, Reached, Unmoved, Same, SameRole, SameLatch, SameWord
<1>4. /\ Senders' = Senders /\ inbox'.welcome = inbox.welcome /\ inbox'.snapshot = host.epoch
      /\ inbox'.change = inbox.change /\ inbox'.asks = inbox.asks
  <2>1. inbox' = [inbox EXCEPT !.snapshot = host.epoch]
    BY DEF SnapshotArrives
  <2> QED
    BY <1>1, <2>1 DEF Inbox, Senders
<1>5. host' = host
  BY DEF SnapshotArrives, Typed, TypeOK
<1>6. Joining /\ app.awaiting = None /\ settled' = settled /\ synced' = synced
  BY DEF SnapshotArrives, Reached
<1> QED
  BY <1>2, <1>3, <1>4, <1>5, <1>6

LEMMA ClientJoinsIs ==
  ASSUME Typed, NEW c \in Client, ClientJoins(c)
  PROVE  /\ app' \in App /\ Unmoved /\ SameInbox /\ app'.game = app.game /\ SameLobby(app, app')
         /\ app'.pending = app.pending /\ app'.holds = app.holds /\ app'.slots = app.slots
         /\ app.lobby = "hosting" /\ app.role = "host" /\ app.state = "host" /\ app.seats[c] = "none"
         /\ \A d \in Client : app'.seats[d] = IF d = c THEN "seated" ELSE app.seats[d]
         /\ settled' = settled /\ synced' = synced /\ host' = host
<1>1. app \in App
  BY DEF Typed, TypeOK
<1>2. PICK s : s = [app.seats EXCEPT ![c] = "seated"]
  OBVIOUS
<1>3. s \in [Client -> {"none", "seated", "verified"}] /\ \A d \in Client : s[d] = IF d = c THEN "seated" ELSE app.seats[d]
  <2>1. app.seats \in [Client -> {"none", "seated", "verified"}]
    BY <1>1 DEF App
  <2> QED
    BY <1>2, <2>1
<1>4. app' = [app EXCEPT !.seats = s]
  BY <1>1, <1>2 DEF ClientJoins, App
<1>5. app' \in App
  BY <1>1, <1>3, <1>4 DEF App
<1>6. /\ Same(app, app') /\ app'.seats = s /\ app'.slots = app.slots /\ SameLobby(app, app') /\ app'.game = app.game
      /\ app'.pending = app.pending /\ app'.holds = app.holds
  BY <1>1, <1>4, <1>5 DEF App, Same, SameRole, SameLatch, SameWord, SameLobby
<1>7. Unmoved
  BY <1>6 DEF ClientJoins, Receives, Unmoved
<1>8. SameInbox
  BY DEF ClientJoins, SameInbox, Senders
<1>9. /\ app.lobby = "hosting" /\ app.role = "host" /\ app.state = "host" /\ app.seats[c] = "none"
      /\ settled' = settled /\ synced' = synced /\ host' = host
  BY DEF ClientJoins
<1> QED
  BY <1>3, <1>5, <1>6, <1>7, <1>8, <1>9

LEMMA ClientSaysIs ==
  ASSUME Typed, NEW c \in Client, ClientSays(c)
  PROVE  /\ app' = app /\ Unmoved /\ app.seats[c] # "none"
         /\ Senders' = Senders \cup {c} /\ inbox'.welcome = inbox.welcome /\ inbox'.snapshot = inbox.snapshot
         /\ inbox'.change = inbox.change /\ inbox'.asks = inbox.asks
         /\ settled' = settled /\ synced' = synced /\ host' = host
<1>1. app \in App /\ inbox \in Inbox
  BY DEF Typed, TypeOK
<1>2. app' = app
  BY DEF ClientSays
<1>3. Unmoved
  BY <1>2 DEF ClientSays, Receives, Reached, Unmoved, Same, SameRole, SameLatch, SameWord
<1>4. /\ Senders' = Senders \cup {c} /\ inbox'.welcome = inbox.welcome /\ inbox'.snapshot = inbox.snapshot
      /\ inbox'.change = inbox.change /\ inbox'.asks = inbox.asks
  <2>1. PICK matches \in BOOLEAN : inbox' = [inbox EXCEPT !.registry = Append(@, [sender |-> c, matches |-> matches])]
    BY DEF ClientSays
  <2>2. PICK said \in [sender : Epochs \cup Client, matches : BOOLEAN] : said = [sender |-> c, matches |-> matches]
    OBVIOUS
  <2>3. inbox' = [inbox EXCEPT !.registry = Append(@, said)] /\ said.sender = c
    BY <2>1, <2>2
  <2> QED
    BY <1>1, <2>2, <2>3, SaidIs
<1>5. host' = host
  BY DEF ClientSays, Typed, TypeOK
<1>6. app.seats[c] # "none" /\ settled' = settled /\ synced' = synced
  BY DEF ClientSays, Reached
<1> QED
  BY <1>2, <1>3, <1>4, <1>5, <1>6

LEMMA ClientGoesIs ==
  ASSUME Typed, NEW c \in Client, ClientGoes(c)
  PROVE  /\ app' \in App /\ Unmoved /\ SameInbox /\ app'.game = app.game /\ SameLobby(app, app')
         /\ app'.pending = app.pending /\ app'.holds = app.holds
         /\ \A d \in Client : app'.seats[d] = IF d = c THEN "none" ELSE app.seats[d]
         /\ \A d \in Client : app'.slots[d] = IF d = c THEN None ELSE app.slots[d]
         /\ settled' = settled /\ synced' = synced /\ host' = host
<1>1. app \in App
  BY DEF Typed, TypeOK
<1>2. app' = Departed(app, {c})
  BY DEF ClientGoes
<1>3. /\ app' \in App
      /\ SameRole(app, app') /\ SameLatch(app, app') /\ SameWord(app, app') /\ SameVisit(app, app') /\ SameBody(app, app')
      /\ SameLobby(app, app') /\ app'.holds = app.holds
      /\ \A d \in Client : app'.seats[d] = IF d \in {c} THEN "none" ELSE app.seats[d]
      /\ \A d \in Client : app'.slots[d] = IF d \in {c} THEN None ELSE app.slots[d]
  BY <1>1, <1>2, DepartedIs
<1>4. Unmoved
  BY <1>3 DEF ClientGoes, Receives, Unmoved, Same, SameVisit, SameBody
<1>5. SameInbox
  BY DEF ClientGoes, SameInbox, Senders
<1>6. settled' = settled /\ synced' = synced /\ host' = host
  BY DEF ClientGoes
<1>7. /\ \A d \in Client : app'.seats[d] = IF d = c THEN "none" ELSE app.seats[d]
      /\ \A d \in Client : app'.slots[d] = IF d = c THEN None ELSE app.slots[d]
  BY <1>3
<1> QED
  BY <1>3, <1>4, <1>5, <1>6, <1>7 DEF SameVisit, SameBody

LEMMA PlayerAsksIs ==
  ASSUME Typed, NEW what \in {"StartSolo", "EndSession"}, PlayerAsks(what)
  PROVE  /\ app' = app /\ Unmoved /\ inbox.asks = {} /\ settled > 0 /\ ~Leaving
         /\ Senders' = Senders /\ inbox'.welcome = inbox.welcome /\ inbox'.snapshot = inbox.snapshot
         /\ inbox'.change = inbox.change /\ inbox'.asks = {what}
         /\ settled' = settled /\ synced' = synced /\ host' = host
<1>1. app \in App /\ inbox \in Inbox
  BY DEF Typed, TypeOK
<1>2. app' = app
  BY DEF PlayerAsks
<1>3. Unmoved
  BY <1>2 DEF PlayerAsks, Receives, Reached, Unmoved, Same, SameRole, SameLatch, SameWord
<1>4. /\ Senders' = Senders /\ inbox'.welcome = inbox.welcome /\ inbox'.snapshot = inbox.snapshot
      /\ inbox'.change = inbox.change /\ inbox'.asks = {what}
  <2>1. inbox' = [inbox EXCEPT !.asks = @ \cup {what}] /\ inbox.asks = {}
    BY DEF PlayerAsks
  <2>2. inbox' = [inbox EXCEPT !.asks = {what}]
    BY <2>1
  <2> QED
    BY <1>1, <2>2 DEF Inbox, Senders
<1>5. host' = host
  BY DEF PlayerAsks, Typed, TypeOK
<1>6. inbox.asks = {} /\ settled > 0 /\ ~Leaving /\ settled' = settled /\ synced' = synced
  BY DEF PlayerAsks, Reached
<1> QED
  BY <1>2, <1>3, <1>4, <1>5, <1>6

(* What the steps of a frame leave alone. *)
SameFrame == host' = host /\ settled' = settled /\ compared' = compared

LEMMA PreUpdateStep ==
  ASSUME Typed, PreUpdate
  PROVE  /\ phase = "receive" /\ phase' = "transition" /\ chains' = chains /\ SameFrame /\ synced' = synced
         /\ Senders' = Senders /\ inbox'.welcome = inbox.welcome /\ inbox'.asks = inbox.asks
         /\ inbox'.snapshot = None /\ inbox'.change = None
         /\ app' \in App
         /\ SameVisit(app, app') /\ SameLobby(app, app') /\ app'.holds = app.holds /\ app'.slots = app.slots
         /\ app'.state = app.state /\ app'.slot = app.slot /\ app'.wait = app.wait /\ app'.world = app.world
         /\ inbox.change = None => /\ SameRole(app, app') /\ SameLatch(app, app') /\ SameWord(app, app') /\ SameSeats(app, app')
                                   /\ app'.pending = IF inbox.snapshot # None /\ app.verified # None /\ app.role = "client"
                                                     THEN inbox.snapshot ELSE app.pending
         /\ inbox.change # None => ~app'.mismatch /\ ~app'.timedOut /\ app'.verified = None /\ app'.welcome = None
         /\ app.role \notin {"host", "client"} => SameRole(app, app') /\ SameSeats(app, app')
         /\ inbox.change # None /\ app.role \in {"host", "client"} =>
              app'.role = inbox.change /\ app'.asked = inbox.change /\ app'.fresh
         /\ \A c \in Client : app'.seats[c] = "none" <=> app.seats[c] = "none"
         /\ \/ app'.pending = app.pending
            \/ app'.pending = inbox.snapshot /\ inbox.snapshot # None /\ app.verified # None /\ app.role = "client"
<1>1. app \in App /\ inbox \in Inbox
  BY DEF Typed, TypeOK
<1>2. PICK x \in Epochs \cup {None} : x = inbox.snapshot
  BY <1>1 DEF Inbox
<1>3. PICK y \in {None, "host", "client"} : y = inbox.change
  BY <1>1 DEF Inbox
<1>4. PICK q : q = app'
  OBVIOUS
<1>5. q = FollowHostChange(ForwardSnapshot(app, x), y) \/ q = ForwardSnapshot(FollowHostChange(app, y), x)
  BY <1>2, <1>3, <1>4 DEF PreUpdate
<1>6. /\ q \in App
      /\ SameVisit(app, q) /\ SameLobby(app, q) /\ q.holds = app.holds /\ q.slots = app.slots /\ q.state = app.state
      /\ q.slot = app.slot /\ q.wait = app.wait /\ q.world = app.world
      /\ y = None => SameRole(app, q) /\ SameLatch(app, q) /\ SameWord(app, q) /\ SameSeats(app, q)
      /\ y # None => ~q.mismatch /\ ~q.timedOut /\ q.verified = None /\ q.welcome = None
      /\ app.role \notin {"host", "client"} => SameRole(app, q) /\ SameSeats(app, q)
      /\ y # None /\ app.role \in {"host", "client"} => q.role = y /\ q.asked = y /\ q.fresh
      /\ \A c \in Client : q.seats[c] = "none" <=> app.seats[c] = "none"
      /\ q.pending = app.pending \/ (q.pending = x /\ x # None /\ app.verified # None /\ app.role = "client")
      /\ y = None => q.pending = IF x # None /\ app.verified # None /\ app.role = "client" THEN x ELSE app.pending
  BY <1>1, <1>5, PreUpdateIs
<1>7. inbox' = [inbox EXCEPT !.snapshot = None, !.change = None]
  BY DEF PreUpdate
<1>8. /\ Senders' = Senders /\ inbox'.welcome = inbox.welcome /\ inbox'.asks = inbox.asks
      /\ inbox'.snapshot = None /\ inbox'.change = None
  BY <1>1, <1>7 DEF Inbox, Senders
<1>9. phase = "receive" /\ phase' = "transition" /\ chains' = chains /\ SameFrame /\ synced' = synced
  BY DEF PreUpdate, SameFrame
<1> QED
  BY <1>2, <1>3, <1>4, <1>6, <1>8, <1>9

DoorStep ==
  /\ phase = "transition" /\ phase' = "loop" /\ chains' = chains /\ SameFrame /\ synced' = synced /\ SameInbox
  /\ app' \in App /\ app'.role = app.role /\ app'.state = app.role /\ ~app'.fresh /\ app'.asked = None
  /\ SameLatch(app, app') /\ SameLobby(app, app') /\ app'.seats = app.seats

LEMMA ShutStep ==
  ASSUME Typed, StateTransition, ~FollowsTheRoles(app)
  PROVE  /\ DoorStep /\ app.state = app.role
         /\ SameWord(app, app') /\ SameVisit(app, app') /\ SameBody(app, app')
         /\ app'.slots = app.slots /\ app'.holds = app.holds
<1>1. app \in App /\ app' = Doors(app)
  BY DEF Typed, TypeOK, StateTransition
<1>2. PICK q : q = app'
  OBVIOUS
<1>3. /\ q \in App
      /\ q.role = app.role /\ q.state = app.role /\ app.state = app.role /\ ~q.fresh /\ q.asked = None
      /\ SameLatch(app, q) /\ SameWord(app, q) /\ SameVisit(app, q) /\ SameBody(app, q)
      /\ SameLobby(app, q) /\ SameSeats(app, q) /\ q.holds = app.holds
  BY <1>1, <1>2, ShutDoorsAre
<1>4. phase = "transition" /\ phase' = "loop" /\ chains' = chains /\ SameFrame /\ synced' = synced /\ SameInbox
  BY DEF StateTransition, SameFrame, SameInbox, Senders
<1> QED
  BY <1>2, <1>3, <1>4 DEF DoorStep, SameSeats

LEMMA TurnStep ==
  ASSUME Typed, StateTransition, FollowsTheRoles(app)
  PROVE  /\ DoorStep
         /\ app'.wait = 0 /\ (\A c \in Client : app'.slots[c] = None) /\ ~app'.handed
         /\ app.role = "offline" =>
              /\ app'.verified = None /\ app'.welcome = None /\ ~app'.visiting /\ ~app'.game
              /\ app'.world = {} /\ app'.slot = None /\ app'.pending = None /\ app'.holds = {}
         /\ app.role # "offline" => app'.verified = app.verified /\ app'.visiting = app.visiting /\ app'.game = app.game
         /\ app.role \in {"solo", "host"} =>
              app'.welcome = app.welcome /\ app'.pending = None /\ app'.holds = {} /\ app'.world \subseteq app.world
         /\ app.role = "solo" => app'.slot = None \/ (app.state = "offline" /\ app'.slot = app.slot)
         /\ app.role = "host" => app'.slot = Mine
         /\ app.role = "client" =>
              /\ app'.world = {} /\ app'.holds = {"AwaitingSync"} /\ app'.welcome = None
              /\ app'.pending = IF app.state = "client" THEN None ELSE app.pending
              /\ app'.slot \in {None, app.welcome} \/ (app.state = "offline" /\ app'.slot = app.slot)
<1>1. app \in App /\ app' = Doors(app)
  BY DEF Typed, TypeOK, StateTransition
<1>2. PICK q : q = app'
  OBVIOUS
<1>3. /\ q \in App
      /\ q.role = app.role /\ q.state = app.role /\ ~q.fresh /\ q.asked = None
      /\ SameLatch(app, q) /\ SameLobby(app, q) /\ q.seats = app.seats
      /\ q.wait = 0 /\ q.slots = NoSlots /\ ~q.handed
      /\ app.role = "offline" => /\ q.verified = None /\ q.welcome = None /\ ~q.visiting /\ ~q.game
                                 /\ q.world = {} /\ q.slot = None /\ q.pending = None /\ q.holds = {}
      /\ app.role # "offline" => q.verified = app.verified /\ q.visiting = app.visiting /\ q.game = app.game
      /\ app.role \in {"solo", "host"} => /\ q.welcome = app.welcome /\ q.pending = None /\ q.holds = {}
                                          /\ q.world \subseteq app.world
      /\ app.role = "solo" => q.slot = None \/ (app.state = "offline" /\ q.slot = app.slot)
      /\ app.role = "host" => q.slot = Mine
      /\ app.role = "client" => /\ q.world = {} /\ q.holds = {"AwaitingSync"} /\ q.welcome = None
                                /\ q.pending = IF app.state = "client" THEN None ELSE app.pending
                                /\ q.slot \in {None, app.welcome} \/ (app.state = "offline" /\ q.slot = app.slot)
  BY <1>1, <1>2, DoorsAre
<1>4. phase = "transition" /\ phase' = "loop" /\ chains' = chains /\ SameFrame /\ synced' = synced /\ SameInbox
  BY DEF StateTransition, SameFrame, SameInbox, Senders
<1>5. \A c \in Client : q.slots[c] = None
  BY <1>3, Blanks
<1> QED
  BY <1>2, <1>3, <1>4, <1>5 DEF DoorStep

LEMMA SnapshotAppliedIs ==
  ASSUME NEW p \in App, NEW q, q = SnapshotApplied(p)
  PROVE  /\ q \in App /\ SameRole(p, q) /\ SameLatch(p, q) /\ SameWord(p, q) /\ SameVisit(p, q) /\ SameLobby(p, q)
         /\ SameSeats(p, q) /\ q.slot = p.slot /\ q.wait = p.wait /\ q.pending = None
         /\ p.role = "client" /\ p.pending # None => q.world = p.world \cup {p.pending} /\ q.holds = p.holds \ {"AwaitingSync"}
         /\ ~(p.role = "client" /\ p.pending # None) => q.world = p.world /\ q.holds = p.holds
<1>1. PICK a : a = [p EXCEPT !.pending = None]
  OBVIOUS
<1>2. a \in App
  BY <1>1 DEF App
<1>3. /\ SameRole(p, a) /\ SameLatch(p, a) /\ SameWord(p, a) /\ SameVisit(p, a) /\ SameLobby(p, a)
      /\ SameSeats(p, a) /\ a.slot = p.slot /\ a.wait = p.wait /\ a.pending = None
      /\ a.world = p.world /\ a.holds = p.holds
  BY <1>1, <1>2 DEF App, SameRole, SameLatch, SameWord, SameVisit, SameLobby, SameSeats
<1>4. CASE ~(p.role = "client" /\ p.pending # None)
  <2>1. q = a
    BY <1>1, <1>4, Zenon DEF SnapshotApplied
  <2> QED
    BY <1>2, <1>3, <1>4, <2>1
<1>5. CASE p.role = "client" /\ p.pending # None
  <2>1. PICK w : w = p.world \cup {p.pending}
    OBVIOUS
  <2>2. PICK h : h = p.holds \ {"AwaitingSync"}
    OBVIOUS
  <2>3. w \in SUBSET (Epochs \cup {Mine}) /\ h \in SUBSET {"AwaitingSync", "AwaitingHost"}
    <3>1. p.pending \in Epochs /\ p.world \in SUBSET (Epochs \cup {Mine}) /\ p.holds \in SUBSET {"AwaitingSync", "AwaitingHost"}
      BY <1>5 DEF App
    <3> QED
      BY <2>1, <2>2, <3>1
  <2>4. q = [p EXCEPT !.pending = None, !.world = w, !.holds = h]
    BY <1>5, <2>1, <2>2 DEF SnapshotApplied
  <2>5. PICK b : b = [a EXCEPT !.world = w]
    OBVIOUS
  <2>6. b \in App
    BY <1>2, <2>3, <2>5 DEF App
  <2>7. q = [b EXCEPT !.holds = h]
    BY <1>1, <2>4, <2>5
  <2>8. q \in App
    BY <2>3, <2>6, <2>7 DEF App
  <2>9. /\ SameRole(a, q) /\ SameLatch(a, q) /\ SameWord(a, q) /\ SameVisit(a, q) /\ SameLobby(a, q)
        /\ SameSeats(a, q) /\ q.slot = a.slot /\ q.wait = a.wait /\ q.pending = a.pending /\ q.world = w /\ q.holds = h
    BY <1>2, <2>5, <2>7, <2>8 DEF App, SameRole, SameLatch, SameWord, SameVisit, SameLobby, SameSeats
  <2> QED
    BY <1>3, <1>5, <2>1, <2>2, <2>8, <2>9 DEF SameRole, SameLatch, SameWord, SameVisit, SameLobby, SameSeats
<1> QED
  BY <1>4, <1>5

LEMMA LoopPassStep ==
  ASSUME Typed, LoopPass
  PROVE  /\ phase = "loop" /\ phase' = "update" /\ chains' = {"session", "handshake"} /\ SameFrame /\ SameInbox
         /\ app' \in App /\ SameRole(app, app') /\ SameLatch(app, app') /\ SameWord(app, app') /\ SameVisit(app, app')
         /\ SameLobby(app, app') /\ SameSeats(app, app') /\ app'.slot = app.slot /\ app'.wait = app.wait
         /\ app'.pending = None
         /\ app.role = "client" /\ app.pending # None =>
              app'.world = app.world \cup {app.pending} /\ app'.holds = app.holds \ {"AwaitingSync"}
         /\ ~(app.role = "client" /\ app.pending # None) => app'.holds = app.holds
         /\ ~(app.role = "client" /\ app.pending # None) =>
              \/ app'.world = app.world
              \/ app'.world = app.world \cup {Mine} /\ InSession(app) /\ MaySpawn(app)
         /\ synced' <=> synced \/ (app.role = "client" /\ app.pending # None)
<1>1. app \in App
  BY DEF Typed, TypeOK
<1>2. PICK p : p = SnapshotApplied(app)
  OBVIOUS
<1>3. /\ p \in App /\ SameRole(app, p) /\ SameLatch(app, p) /\ SameWord(app, p) /\ SameVisit(app, p) /\ SameLobby(app, p)
      /\ SameSeats(app, p) /\ p.slot = app.slot /\ p.wait = app.wait /\ p.pending = None
      /\ app.role = "client" /\ app.pending # None => p.world = app.world \cup {app.pending} /\ p.holds = app.holds \ {"AwaitingSync"}
      /\ ~(app.role = "client" /\ app.pending # None) => p.world = app.world /\ p.holds = app.holds
  BY <1>1, <1>2, SnapshotAppliedIs
<1>4. phase = "loop" /\ phase' = "update" /\ chains' = {"session", "handshake"} /\ SameFrame /\ SameInbox
  BY DEF LoopPass, SameFrame, SameInbox, Senders
<1>5. synced' <=> synced \/ (app.role = "client" /\ app.pending # None)
  BY DEF LoopPass
<1>6. CASE app' = p
  BY <1>3, <1>4, <1>5, <1>6
<1>7. CASE InSession(p) /\ MaySpawn(p) /\ app' = [p EXCEPT !.world = @ \cup {Mine}]
  <2>1. PICK w : w = p.world \cup {Mine}
    OBVIOUS
  <2>2. w \in SUBSET (Epochs \cup {Mine})
    <3>1. p.world \in SUBSET (Epochs \cup {Mine})
      BY <1>3 DEF App
    <3> QED
      BY <2>1, <3>1
  <2>3. PICK q : q = app'
    OBVIOUS
  <2>4. p \in App /\ q = [p EXCEPT !.world = w]
    BY <1>3, <1>7, <2>1, <2>3
  <2>5. q \in App
    BY <2>2, <2>4 DEF App
  <2>6. /\ SameRole(p, q) /\ SameLatch(p, q) /\ SameWord(p, q) /\ SameVisit(p, q) /\ SameLobby(p, q)
        /\ SameSeats(p, q) /\ q.slot = p.slot /\ q.wait = p.wait /\ q.pending = p.pending /\ q.world = w /\ q.holds = p.holds
    BY <2>4, <2>5 DEF App, SameRole, SameLatch, SameWord, SameVisit, SameLobby, SameSeats
  <2>7. InSession(app) /\ MaySpawn(app) /\ app.role # "client"
    BY <1>3, <1>7 DEF InSession, MaySpawn, SameRole, SameLobby
  <2>8. /\ SameRole(app, q) /\ SameLatch(app, q) /\ SameWord(app, q) /\ SameVisit(app, q) /\ SameLobby(app, q) /\ SameSeats(app, q)
    BY <1>3, <2>6 DEF SameRole, SameLatch, SameWord, SameVisit, SameLobby, SameSeats
  <2> QED
    BY <1>3, <1>4, <1>5, <2>1, <2>3, <2>5, <2>6, <2>7, <2>8
<1> QED
  BY <1>2, <1>6, <1>7 DEF LoopPass

LEMMA SessionStep ==
  ASSUME Typed, SessionChain
  PROVE  /\ phase = "update" /\ phase' = phase /\ "session" \in chains /\ chains' = chains \ {"session"}
         /\ compared' = compared /\ synced' = synced /\ host'.epoch = host.epoch
         /\ settled' \in 1..2 /\ (settled = 0 => settled' = 1)
         /\ Senders' = Senders /\ inbox'.welcome = inbox.welcome /\ inbox'.snapshot = inbox.snapshot
         /\ inbox'.change = inbox.change /\ inbox'.asks = {}
         /\ SessionEffect(app, app')
<1>1. app \in App /\ inbox \in Inbox /\ settled \in 0..2
  BY DEF Typed, TypeOK
<1>2. PICK q : q = app'
  OBVIOUS
<1>3. q = EndAVisitWithoutARole(ForgetMismatch(ReleaseRole(AdoptRole(HandSoloToALobby(StartSolo(EndSession(app)))))))
  BY <1>2 DEF SessionChain
<1>4. SessionEffect(app, q)
  BY <1>1, <1>3, SessionChainIs
<1>5. inbox' = [inbox EXCEPT !.asks = {}]
  BY DEF SessionChain
<1>6. /\ Senders' = Senders /\ inbox'.welcome = inbox.welcome /\ inbox'.snapshot = inbox.snapshot
      /\ inbox'.change = inbox.change /\ inbox'.asks = {}
  BY <1>1, <1>5 DEF Inbox, Senders
<1>7. host'.epoch = host.epoch
  BY DEF SessionChain, NoHost, Typed, TypeOK
<1>8. settled' \in 1..2 /\ (settled = 0 => settled' = 1)
  BY <1>1 DEF SessionChain
<1>9. /\ phase = "update" /\ phase' = phase /\ "session" \in chains /\ chains' = chains \ {"session"}
      /\ compared' = compared /\ synced' = synced
  BY DEF SessionChain
<1> QED
  BY <1>2, <1>4, <1>6, <1>7, <1>8, <1>9

LEMMA HandshakeStep ==
  ASSUME Typed, HandshakeChain
  PROVE  /\ phase = "update" /\ phase' = phase /\ "handshake" \in chains /\ chains' = chains \ {"handshake"}
         /\ settled' = settled /\ synced' = synced /\ host' = host
         /\ compared \subseteq compared' /\ Matched \subseteq compared' \cup Client
         /\ Matched \subseteq Senders
         /\ Senders' = {} /\ inbox'.welcome = None /\ inbox'.snapshot = inbox.snapshot
         /\ inbox'.change = inbox.change /\ inbox'.asks = inbox.asks
         /\ HandshakeEffect(app, app')
<1>1. app \in App /\ inbox \in Inbox
  BY DEF Typed, TypeOK
<1>2. PICK q : q = app'
  OBVIOUS
<1>3. q = RefuseAfterTimeout(ApplyWelcome(ReceiveWelcome(CheckRegistry(app))))
  BY <1>2 DEF HandshakeChain
<1>4. HandshakeEffect(app, q)
  BY <1>1, <1>3, HandshakeChainIs
<1>5. inbox' = [inbox EXCEPT !.registry = <<>>, !.welcome = None]
  BY DEF HandshakeChain
<1>6. /\ Senders' = {} /\ inbox'.welcome = None /\ inbox'.snapshot = inbox.snapshot
      /\ inbox'.change = inbox.change /\ inbox'.asks = inbox.asks
  BY <1>1, <1>5 DEF Inbox, Senders
<1>7. Matched \subseteq Senders
  BY DEF Matched, Senders
<1>8. compared \subseteq compared' /\ Matched \subseteq compared' \cup Client
  <2>1. compared' = compared \cup {said.sender : said \in {s \in ToSet(inbox.registry) : s.matches /\ s.sender \notin Client}}
    BY DEF HandshakeChain
  <2>2. ASSUME NEW i \in DOMAIN inbox.registry, inbox.registry[i].matches, inbox.registry[i].sender \notin Client
        PROVE  inbox.registry[i].sender \in compared'
    <3>1. inbox.registry[i] \in ToSet(inbox.registry)
      BY DEF ToSet
    <3> QED
      BY <2>1, <2>2, <3>1
  <2> QED
    BY <2>1, <2>2 DEF Matched
<1>9. /\ phase = "update" /\ phase' = phase /\ "handshake" \in chains /\ chains' = chains \ {"handshake"}
      /\ settled' = settled /\ synced' = synced /\ host' = host
  BY DEF HandshakeChain
<1> QED
  BY <1>2, <1>4, <1>6, <1>7, <1>8, <1>9

(* No tick, and the next frame: nothing of the peer's changes. *)
LEMMA IdleStep ==
  ASSUME Typed, NoPass \/ NextFrame
  PROVE  /\ app' = app /\ SameFrame /\ SameInbox /\ synced' = synced
         /\ \/ phase = "loop" /\ phase' = "update" /\ chains' = {"session", "handshake"}
            \/ phase = "update" /\ chains = {} /\ chains' = {} /\ phase' = "receive"
BY DEF NoPass, NextFrame, SameFrame, SameInbox, Senders

-----------------------------------------------------------------------------
(* TYPES *)

LEMMA InboxSlots ==
  ASSUME inbox \in Inbox, NEW w \in Epochs \cup {None}, NEW x \in Epochs \cup {None},
         NEW y \in {None, "host", "client"}, NEW a \in SUBSET {"StartSolo", "EndSession"}
  PROVE  /\ [inbox EXCEPT !.welcome = w] \in Inbox /\ [inbox EXCEPT !.snapshot = x] \in Inbox
         /\ [inbox EXCEPT !.change = y] \in Inbox /\ [inbox EXCEPT !.asks = a] \in Inbox
         /\ [inbox EXCEPT !.snapshot = x, !.change = y] \in Inbox
BY DEF Inbox

LEMMA InboxSays ==
  ASSUME inbox \in Inbox, NEW r \in Seq([sender : Epochs \cup Client, matches : BOOLEAN])
  PROVE  [inbox EXCEPT !.registry = r] \in Inbox
<1>1. PICK S : S = Seq([sender : Epochs \cup Client, matches : BOOLEAN])
  OBVIOUS
<1>2. r \in S
  BY <1>1
<1>3. Inbox = [registry : S, welcome : Epochs \cup {None}, snapshot : Epochs \cup {None},
               change : {None, "host", "client"}, asks : SUBSET {"StartSolo", "EndSession"}]
  BY <1>1 DEF Inbox
<1> QED
  BY <1>2, <1>3

LEMMA TypedInit ==
  ASSUME Init
  PROVE  Typed
<1>1. app \in App
  <2>1. /\ NoSlots \in [Client -> Slots \cup {None}] /\ NoSeats \in [Client -> {"none", "seated", "verified"}]
        /\ 0 \in 0..Timeout /\ "offline" \in Session
    BY Blanks DEF Session
  <2> QED
    BY <2>1 DEF Init, FreshApp, App
<1>2. inbox \in Inbox
  <2>1. <<>> \in Seq([sender : Epochs \cup Client, matches : BOOLEAN])
    OBVIOUS
  <2> QED
    BY <2>1 DEF Init, EmptyInbox, Inbox
<1>3. host \in [epoch : 0..MaxEpoch, kind : HostKind \cup {"silent"}, said : SUBSET {"registry", "welcome"}]
  BY Assumed DEF Init
<1>4. /\ told \subseteq Client /\ compared \subseteq Epochs /\ synced \in BOOLEAN
      /\ phase \in {"receive", "transition", "loop", "update"} /\ chains \subseteq {"session", "handshake"}
      /\ settled \in 0..2 /\ faults \in 0..MaxFaults /\ news \in 0..MaxNews
  <2>1. MaxFaults \in Nat /\ MaxNews \in Nat
    BY Assumed
  <2>2. /\ told = {} /\ compared = {} /\ synced = FALSE /\ phase = "receive" /\ chains = {}
        /\ settled = 2 /\ faults = 0 /\ news = 0
    BY DEF Init
  <2>3. settled \in 0..2 /\ faults \in 0..MaxFaults /\ news \in 0..MaxNews
    BY <2>1, <2>2
  <2>4. told \subseteq Client /\ compared \subseteq Epochs /\ chains \subseteq {"session", "handshake"}
    BY <2>2
  <2>5. synced \in BOOLEAN /\ phase \in {"receive", "transition", "loop", "update"}
    BY <2>2, Zenon
  <2> QED
    BY <2>3, <2>4, <2>5
<1>5. ~Joining
  BY DEF Init, FreshApp, Joining
<1> QED
  BY <1>1, <1>2, <1>3, <1>4, <1>5 DEF Typed, TypeOK

Hosts == [epoch : 0..MaxEpoch, kind : HostKind \cup {"silent"}, said : SUBSET {"registry", "welcome"}]

LEMMA HostsKept ==
  ASSUME Typed, Next
  PROVE  host' \in Hosts
<1>1. host \in Hosts /\ MaxEpoch \in Nat
  BY Assumed DEF Typed, TypeOK, Hosts
<1>2. NoHost \in Hosts
  BY <1>1 DEF NoHost, Hosts
<1>3. ASSUME NEW kind \in HostKind, host.epoch < MaxEpoch PROVE NewHost(kind) \in Hosts
  BY <1>1, <1>3 DEF NewHost, Hosts
<1>4. \A s \in SUBSET {"registry", "welcome"} : [host EXCEPT !.said = s] \in Hosts
  BY <1>1 DEF Hosts
<1>5. host.said \in SUBSET {"registry", "welcome"}
  BY <1>1 DEF Hosts
<1>6. CASE UNCHANGED host
  BY <1>1, <1>6
<1>7. CASE AskForALobby \/ ChangeHost
  BY <1>1, <1>3, <1>7 DEF AskForALobby, ChangeHost
<1>8. CASE LobbyGoes \/ SessionChain
  BY <1>1, <1>2, <1>8 DEF LobbyGoes, SessionChain
<1>9. CASE FindHost \/ HostSays \/ HostWelcomes
  <2>1. PICK s \in SUBSET {"registry", "welcome"} : host' = [host EXCEPT !.said = s]
    <3>1. CASE FindHost
      BY <3>1 DEF FindHost
    <3>2. CASE HostSays
      BY <1>5, <3>2 DEF HostSays
    <3>3. CASE HostWelcomes
      BY <1>5, <3>3 DEF HostWelcomes
    <3> QED
      BY <1>9, <3>1, <3>2, <3>3
  <2> QED
    BY <1>4, <2>1
<1>10. CASE Promoted \/ SnapshotArrives \/ PreUpdate \/ StateTransition \/ LoopPass \/ NoPass \/ HandshakeChain \/ NextFrame
  BY <1>6, <1>10 DEF Promoted, SnapshotArrives, PreUpdate, StateTransition, LoopPass, NoPass, HandshakeChain, NextFrame
<1>11. CASE \E why \in {"reconnect", "successor"} : LoseHost(why)
  BY <1>6, <1>11 DEF LoseHost
<1>12. CASE \E c \in Client : ClientJoins(c) \/ ClientSays(c) \/ ClientGoes(c)
  BY <1>6, <1>12 DEF ClientJoins, ClientSays, ClientGoes
<1>13. CASE \E what \in {"StartSolo", "EndSession"} : PlayerAsks(what)
  BY <1>6, <1>13 DEF PlayerAsks
<1> QED
  BY <1>7, <1>8, <1>9, <1>10, <1>11, <1>12, <1>13 DEF Next, Frame, Environment

LEMMA InboxKept ==
  ASSUME Typed, Next
  PROVE  inbox' \in Inbox
<1>1. inbox \in Inbox
  BY DEF Typed, TypeOK
<1>2. CASE UNCHANGED inbox
  BY <1>1, <1>2
<1>3. CASE AskForALobby \/ Promoted \/ LobbyGoes \/ FindHost \/ StateTransition \/ LoopPass \/ NoPass \/ NextFrame
  BY <1>2, <1>3 DEF AskForALobby, Promoted, LobbyGoes, FindHost, StateTransition, LoopPass, NoPass, NextFrame
<1>4. CASE ChangeHost
  <2>1. PICK y \in {None, "host", "client"} : inbox' = [inbox EXCEPT !.change = y]
    BY <1>4 DEF ChangeHost
  <2> QED
    BY <1>1, <2>1, InboxSlots
<1>5. CASE \E why \in {"reconnect", "successor"} : LoseHost(why)
  BY <1>2, <1>5 DEF LoseHost
<1>6. CASE HostSays
  <2>1. PICK said : said = [sender |-> host.epoch, matches |-> host.kind # "mismatch"]
    OBVIOUS
  <2>2. said \in [sender : Epochs \cup Client, matches : BOOLEAN]
    BY <1>6, <2>1, HostIsAnEpoch DEF HostSays, Reached
  <2>3. PICK S : S = [sender : Epochs \cup Client, matches : BOOLEAN]
    OBVIOUS
  <2>4. inbox.registry \in Seq(S) /\ said \in S
    BY <1>1, <2>2, <2>3 DEF Inbox
  <2>5. Append(inbox.registry, said) \in Seq(S)
    BY <2>4
  <2>6. inbox' = [inbox EXCEPT !.registry = Append(inbox.registry, said)]
    BY <1>6, <2>1 DEF HostSays
  <2> QED
    BY <1>1, <2>3, <2>5, <2>6, InboxSays
<1>7. CASE HostWelcomes
  <2>1. inbox' = [inbox EXCEPT !.welcome = host.epoch] /\ host.epoch \in Epochs
    BY <1>7, HostIsAnEpoch DEF HostWelcomes, Reached
  <2> QED
    BY <1>1, <2>1, InboxSlots
<1>8. CASE SnapshotArrives
  <2>1. inbox' = [inbox EXCEPT !.snapshot = host.epoch] /\ host.epoch \in Epochs
    BY <1>8, HostIsAnEpoch DEF SnapshotArrives, Reached
  <2> QED
    BY <1>1, <2>1, InboxSlots
<1>9. ASSUME NEW c \in Client, ClientJoins(c) \/ ClientSays(c) \/ ClientGoes(c)
      PROVE  inbox' \in Inbox
  <2>1. CASE ClientJoins(c) \/ ClientGoes(c)
    BY <1>2, <2>1 DEF ClientJoins, ClientGoes
  <2>2. CASE ClientSays(c)
    <3>1. PICK matches \in BOOLEAN : inbox' = [inbox EXCEPT !.registry = Append(@, [sender |-> c, matches |-> matches])]
      BY <2>2 DEF ClientSays
    <3>2. PICK said \in [sender : Epochs \cup Client, matches : BOOLEAN] : said = [sender |-> c, matches |-> matches]
      OBVIOUS
    <3>3. PICK S : S = [sender : Epochs \cup Client, matches : BOOLEAN]
      OBVIOUS
    <3>4. inbox.registry \in Seq(S) /\ said \in S
      BY <1>1, <3>2, <3>3 DEF Inbox
    <3>5. Append(inbox.registry, said) \in Seq(S)
      BY <3>4
    <3>6. inbox' = [inbox EXCEPT !.registry = Append(inbox.registry, said)]
      BY <3>1, <3>2
    <3> QED
      BY <1>1, <3>3, <3>5, <3>6, InboxSays
  <2> QED
    BY <1>9, <2>1, <2>2
<1>10. ASSUME NEW what \in {"StartSolo", "EndSession"}, PlayerAsks(what)
       PROVE  inbox' \in Inbox
  <2>1. inbox' = [inbox EXCEPT !.asks = @ \cup {what}] /\ inbox.asks = {}
    BY <1>10 DEF PlayerAsks
  <2>2. inbox' = [inbox EXCEPT !.asks = {what}]
    BY <2>1
  <2> QED
    BY <1>1, <2>2, InboxSlots
<1>11. CASE PreUpdate
  <2>1. inbox' = [inbox EXCEPT !.snapshot = None, !.change = None]
    BY <1>11 DEF PreUpdate
  <2> QED
    BY <1>1, <2>1, InboxSlots
<1>12. CASE SessionChain
  <2>1. inbox' = [inbox EXCEPT !.asks = {}]
    BY <1>12 DEF SessionChain
  <2> QED
    BY <1>1, <2>1, InboxSlots
<1>13. CASE HandshakeChain
  <2>1. inbox' = [inbox EXCEPT !.registry = <<>>, !.welcome = None]
    BY <1>13 DEF HandshakeChain
  <2>2. PICK a : a = [inbox EXCEPT !.registry = <<>>]
    OBVIOUS
  <2>3. a \in Inbox
    <3>1. <<>> \in Seq([sender : Epochs \cup Client, matches : BOOLEAN])
      OBVIOUS
    <3> QED
      BY <1>1, <2>2, <3>1, InboxSays
  <2>4. inbox' = [a EXCEPT !.welcome = None]
    BY <2>1, <2>2
  <2> QED
    BY <2>3, <2>4 DEF Inbox
<1> QED
  BY <1>3, <1>4, <1>5, <1>6, <1>7, <1>8, <1>9, <1>10, <1>11, <1>12, <1>13 DEF Next, Frame, Environment

LEMMA AppKept ==
  ASSUME Typed, Next
  PROVE  app' \in App
<1>1. app \in App
  BY DEF Typed, TypeOK
<1>2. CASE AskForALobby
  BY <1>2, AskIs
<1>3. CASE Promoted
  BY <1>3, PromotedIs
<1>4. CASE LobbyGoes
  BY <1>4, LobbyGoesIs
<1>5. CASE \E why \in {"reconnect", "successor"} : LoseHost(why)
  BY <1>5, LoseHostIs
<1>6. CASE FindHost
  BY <1>6, FindHostIs
<1>7. CASE ChangeHost
  BY <1>7, ChangeHostIs
<1>8. CASE HostSays \/ HostWelcomes \/ SnapshotArrives \/ NoPass \/ NextFrame
  BY <1>1, <1>8 DEF HostSays, HostWelcomes, SnapshotArrives, NoPass, NextFrame
<1>9. ASSUME NEW c \in Client, ClientJoins(c) \/ ClientSays(c) \/ ClientGoes(c)
      PROVE  app' \in App
  BY <1>1, <1>9, ClientJoinsIs, ClientGoesIs, ClientSaysIs
<1>10. CASE \E what \in {"StartSolo", "EndSession"} : PlayerAsks(what)
  BY <1>1, <1>10 DEF PlayerAsks
<1>11. CASE PreUpdate
  BY <1>11, PreUpdateStep
<1>12. CASE StateTransition
  BY <1>12, ShutStep, TurnStep DEF DoorStep
<1>13. CASE LoopPass
  BY <1>13, LoopPassStep
<1>14. CASE SessionChain
  BY <1>14, SessionStep DEF SessionEffect
<1>15. CASE HandshakeChain
  BY <1>15, HandshakeStep DEF HandshakeEffect
<1> QED
  BY <1>2, <1>3, <1>4, <1>5, <1>6, <1>7, <1>8, <1>9, <1>10, <1>11, <1>12, <1>13, <1>14, <1>15 DEF Next, Frame, Environment

LEMMA RestKept ==
  ASSUME Typed, Next
  PROVE  /\ told' \subseteq Client /\ compared' \subseteq Epochs /\ synced' \in BOOLEAN
         /\ phase' \in {"receive", "transition", "loop", "update"} /\ chains' \subseteq {"session", "handshake"}
         /\ settled' \in 0..2 /\ faults' \in 0..MaxFaults /\ news' \in 0..MaxNews
<1>1. /\ told \subseteq Client /\ compared \subseteq Epochs /\ synced \in BOOLEAN
      /\ phase \in {"receive", "transition", "loop", "update"} /\ chains \subseteq {"session", "handshake"}
      /\ settled \in 0..2 /\ faults \in 0..MaxFaults /\ news \in 0..MaxNews
      /\ MaxFaults \in Nat /\ MaxNews \in Nat
  BY Assumed DEF Typed, TypeOK
<1>2. CASE Environment
  <2>1. \A c \in Client : ClientJoins(c) \/ ClientSays(c) \/ ClientGoes(c) =>
          /\ told' \subseteq Client /\ UNCHANGED <<phase, chains, settled, compared, synced, faults>>
          /\ news < MaxNews /\ news' = news + 1
    BY <1>1 DEF ClientJoins, ClientSays, ClientGoes, Receives
  <2>2. \A what \in {"StartSolo", "EndSession"} : PlayerAsks(what) =>
          /\ UNCHANGED <<told, phase, chains, settled, compared, synced, faults>>
          /\ news < MaxNews /\ news' = news + 1
    BY DEF PlayerAsks, Receives
  <2>3. \A why \in {"reconnect", "successor"} : LoseHost(why) =>
          /\ UNCHANGED <<told, phase, chains, compared>> /\ settled' = 0 /\ synced' = FALSE
          /\ faults < MaxFaults /\ faults' = faults + 1
          /\ news < MaxNews /\ news' = news + 1
    BY DEF LoseHost, Receives
  <2>4. AskForALobby \/ Promoted \/ LobbyGoes \/ FindHost \/ ChangeHost \/ HostSays \/ HostWelcomes \/ SnapshotArrives =>
          /\ told' \in {told, {}} /\ UNCHANGED <<phase, chains, compared, synced, faults>> /\ settled' \in {0, settled}
          /\ news < MaxNews /\ news' = news + 1
    BY DEF AskForALobby, Promoted, LobbyGoes, FindHost, ChangeHost, HostSays, HostWelcomes, SnapshotArrives, Receives, Reached
  <2>5. /\ told' \subseteq Client /\ phase' = phase /\ chains' = chains /\ compared' = compared
        /\ synced' \in {FALSE, synced} /\ settled' \in {0, settled}
        /\ faults' = faults \/ (faults < MaxFaults /\ faults' = faults + 1)
        /\ news < MaxNews /\ news' = news + 1
    <3>1. CASE \E c \in Client : ClientJoins(c) \/ ClientSays(c) \/ ClientGoes(c)
      BY <2>1, <3>1
    <3>2. CASE \E what \in {"StartSolo", "EndSession"} : PlayerAsks(what)
      BY <1>1, <2>2, <3>2
    <3>3. CASE \E why \in {"reconnect", "successor"} : LoseHost(why)
      BY <1>1, <2>3, <3>3
    <3>4. CASE AskForALobby \/ Promoted \/ LobbyGoes \/ FindHost \/ ChangeHost \/ HostSays \/ HostWelcomes \/ SnapshotArrives
      BY <1>1, <2>4, <3>4
    <3> QED
      BY <1>2, <3>1, <3>2, <3>3, <3>4 DEF Environment
  <2>6. news' \in 0..MaxNews /\ faults' \in 0..MaxFaults /\ settled' \in 0..2
    BY <1>1, <2>5
  <2> QED
    BY <1>1, <2>5, <2>6
<1>3. CASE PreUpdate \/ StateTransition \/ NoPass \/ NextFrame
  BY <1>1, <1>3 DEF PreUpdate, StateTransition, NoPass, NextFrame
<1>4. CASE LoopPass
  BY <1>1, <1>4 DEF LoopPass
<1>5. CASE SessionChain
  BY <1>1, <1>5 DEF SessionChain
<1>6. CASE HandshakeChain
  <2>1. compared' \subseteq Epochs
    <3>1. \A i \in DOMAIN inbox.registry : inbox.registry[i].sender \in Epochs \cup Client
      <4>1. PICK S : S = [sender : Epochs \cup Client, matches : BOOLEAN]
        OBVIOUS
      <4>2. inbox.registry \in Seq(S)
        BY <4>1 DEF Typed, TypeOK, Inbox
      <4>3. \A i \in DOMAIN inbox.registry : inbox.registry[i] \in S
        BY <4>2
      <4> QED
        BY <4>1, <4>3
    <3>2. compared' = compared \cup {said.sender : said \in {s \in ToSet(inbox.registry) : s.matches /\ s.sender \notin Client}}
      BY <1>6 DEF HandshakeChain
    <3> QED
      BY <1>1, <3>1, <3>2 DEF ToSet
  <2> QED
    BY <1>1, <1>6, <2>1 DEF HandshakeChain
<1> QED
  BY <1>2, <1>3, <1>4, <1>5, <1>6 DEF Next, Frame

(* A lobby is joined with a host, and loses it with the lobby. *)
LEMMA JoiningKept ==
  ASSUME Typed, Next
  PROVE  Joining' => host'.epoch > 0
<1>1. host.epoch \in Nat /\ (Joining => host.epoch > 0)
  BY Assumed DEF Typed, TypeOK
<1>2. CASE AskForALobby
  BY <1>1, <1>2, AskIs DEF Joining
<1>3. CASE Promoted
  BY <1>1, <1>3, PromotedIs DEF Joining
<1>4. CASE LobbyGoes
  BY <1>1, <1>4, LobbyGoesIs DEF Joining
<1>5. CASE \E why \in {"reconnect", "successor"} : LoseHost(why)
  BY <1>1, <1>5, LoseHostIs DEF Joining
<1>6. CASE FindHost
  BY <1>1, <1>6, FindHostIs DEF Joining
<1>7. CASE ChangeHost
  BY <1>1, <1>7, ChangeHostIs DEF Joining
<1>8. CASE HostSays \/ HostWelcomes
  BY <1>1, <1>8, HostSaysIs, HostWelcomesIs DEF Joining
<1>9. CASE SnapshotArrives \/ NoPass \/ NextFrame
  BY <1>1, <1>9 DEF SnapshotArrives, NoPass, NextFrame, Joining
<1>10. ASSUME NEW c \in Client, ClientJoins(c) \/ ClientSays(c) \/ ClientGoes(c)
       PROVE  Joining' => host'.epoch > 0
  BY <1>1, <1>10, ClientJoinsIs, ClientGoesIs, ClientSaysIs DEF Joining, SameLobby
<1>11. CASE \E what \in {"StartSolo", "EndSession"} : PlayerAsks(what)
  BY <1>1, <1>11 DEF PlayerAsks, Joining
<1>12. CASE PreUpdate
  BY <1>1, <1>12, PreUpdateStep DEF SameFrame, SameLobby, Joining
<1>13. CASE StateTransition
  BY <1>1, <1>13, ShutStep, TurnStep DEF DoorStep, SameFrame, SameLobby, Joining
<1>14. CASE LoopPass
  BY <1>1, <1>14, LoopPassStep DEF SameFrame, SameLobby, Joining
<1>15. CASE SessionChain
  BY <1>1, <1>15, SessionStep DEF SessionEffect, Joining
<1>16. CASE HandshakeChain
  BY <1>1, <1>16, HandshakeStep DEF HandshakeEffect, SameShaken, SameLobby, Joining
<1> QED
  BY <1>2, <1>3, <1>4, <1>5, <1>6, <1>7, <1>8, <1>9, <1>10, <1>11, <1>12, <1>13, <1>14, <1>15, <1>16 DEF Next, Frame, Environment

LEMMA TypedKept ==
  ASSUME Typed, [Next]_vars
  PROVE  Typed'
<1>1. CASE Next
  BY <1>1, HostsKept, InboxKept, AppKept, RestKept, JoiningKept DEF Typed, TypeOK, Hosts
<1>2. CASE UNCHANGED vars
  <2>1. UNCHANGED <<app, host, told, inbox, phase, chains, settled, compared, synced, faults, news>>
    BY <1>2 DEF vars
  <2>2. TypeOK' /\ (Joining' => host'.epoch > 0)
    BY <2>1 DEF Typed, TypeOK, Joining
  <2> QED
    BY <2>2 DEF Typed
<1> QED
  BY <1>1, <1>2

(* Every variable stays of its type, whatever a peer goes through. *)
THEOREM Typing == Spec => []TypeOK
<1>1. Init => Typed
  BY TypedInit
<1>2. Typed /\ [Next]_vars => Typed'
  BY TypedKept
<1>3. Typed => TypeOK
  BY DEF Typed
<1> QED
  BY <1>1, <1>2, <1>3, PTL DEF Spec

-----------------------------------------------------------------------------
(* THE INVARIANTS *)

(* What the frame received comes from clients, or from a host. *)
FromClients == Senders \cap Client # {}
FromHost == inbox.welcome # None \/ inbox.snapshot # None \/ ~(Senders \subseteq Client)

(* Where the frame is: the chains of Update are still to run. *)
Handshaking == phase # "update" \/ "handshake" \in chains
Following == phase # "update" \/ "session" \in chains

(* The order of a frame: what it received is looked at once, and from the doors *)
(* to the chain of the session the state is that of the role.                   *)
FrameOrder ==
  /\ phase # "update" => chains = {}
  /\ phase # "receive" => inbox.snapshot = None /\ inbox.change = None
  /\ ~Handshaking => Senders = {} /\ inbox.welcome = None
  /\ ~Following => inbox.asks = {} /\ settled > 0
  /\ phase = "loop" \/ (phase = "update" /\ "session" \in chains) => ~app.fresh /\ app.asked = None
  /\ phase = "loop" => app.state = app.role

(* A role is of a lobby, of one that went in this frame, or of one that changes hands. *)
RolesFollowLobbies ==
  /\ app.role = "client" => \/ app.lobby = "joined"
                            \/ app.lobby = "none" /\ settled = 0
                            \/ app.lobby = "hosting" /\ inbox.change = "host"
  /\ app.role = "host" => app.lobby = "hosting" \/ (app.lobby = "none" /\ settled = 0)
  /\ app.awaiting # None => app.lobby = "joined"
  /\ inbox.change = "host" => app.lobby = "hosting" /\ settled = 0 /\ app.role # "host"
  /\ inbox.change = "client" => app.awaiting = "newHost" /\ settled = 0

(* After the doors a role only ends, or comes with a lobby or from the menu. *)
StateFollowsRoles ==
  phase \in {"update", "receive"} /\ app.role # app.state =>
    \/ app.role = "offline" /\ (phase = "update" => app.mismatch \/ app.timedOut \/ app.lobby = "none")
    \/ "session" \notin chains /\ app.fresh /\ app.state \in {"offline", "solo"}

(* Seats are a host's, and so is what a client says. *)
SeatsAreHosts ==
  /\ \A c \in Client : app.seats[c] # "none" => app.lobby = "hosting" /\ app.role = "host" /\ app.state = "host"
  /\ FromClients => /\ app.state = "host" /\ app.role \in {"host", "offline"} /\ inbox.change = None
                    /\ phase # "update" => app.role = "host"
  /\ app.state = "host" /\ app.role = "host" => ~app.fresh /\ app.asked # "host"

(* What a host said is the present host's, and of a lobby that stands or just went. *)
FromThisHost ==
  /\ inbox.welcome \in {None, host.epoch} /\ inbox.snapshot \in {None, host.epoch}
  /\ Senders \subseteq Client \cup {host.epoch}
  /\ FromHost /\ phase = "receive" => inbox.change = None /\ (settled = 0 \/ (Joining /\ app.awaiting = None))
  /\ FromHost /\ Following /\ app.lobby = "none" => settled = 0

(* The doors to come end the session. *)
Ending == app.role = "offline" /\ (app.state # "offline" \/ app.asked = "offline")

(* A visit is remembered until the doors have ended it. *)
Remembered ==
  /\ phase = "receive" /\ app.lobby # "none" /\ settled > 0 => app.visiting /\ app.asked # "offline"
  /\ phase = "update" /\ ~Following /\ (app.lobby # "none" \/ app.role # "offline" \/ app.state # "offline") =>
       app.visiting /\ (app.lobby # "none" => app.asked # "offline")
  /\ Following /\ settled = 0 /\ app.lobby = "none" => app.visiting /\ (phase # "update" => ~Ending)
  /\ Ends /\ app.lobby # "none" => app.visiting /\ (phase # "update" => ~Ending)

(* A host's word is kept, and a refusal latched. *)
Said == app.verified # None \/ app.welcome # None
Latched == app.mismatch \/ app.timedOut

(* Without a lobby, what is left of a session is left to the doors. *)
KeptIsRemembered ==
  app.lobby = "none" =>
    /\ Said \/ app.game => app.visiting \/ app.state # "offline" \/ app.role # "offline"
    /\ FromHost => app.visiting
    /\ Latched /\ (phase = "receive" \/ ~Following) => app.visiting \/ app.state # "offline" \/ app.role # "offline"

(* Before its door a client is held or has waited only for a host within reach. *)
BeforeTheDoor ==
  app.role = "client" /\ app.state # "client" /\ ("AwaitingSync" \in app.holds \/ app.wait # 0) =>
    /\ phase = "update" => app.awaiting = None /\ "AwaitingSync" \notin app.holds
    /\ phase = "receive" => inbox.change = None /\ (app.awaiting = None \/ settled = 0)

(* Each resource is one state's, and goes when the state does. *)
Clean ==
  /\ app.state = "offline" => app.world = {} /\ app.slot = None
  /\ app.pending # None => app.state = "client" \/ (phase = "transition" /\ app.role = "client")
  /\ "AwaitingHost" \in app.holds => app.awaiting # None
  /\ "AwaitingSync" \in app.holds => app.state = "client" \/ app.role = "client"
  /\ app.wait # 0 => app.state = "client" \/ app.role = "client"
  /\ app.handed => app.state = "solo"
  /\ \A c \in Client : app.slots[c] # None => app.state = "host"

Lasting ==
  /\ FrameOrder /\ RolesFollowLobbies /\ StateFollowsRoles /\ SeatsAreHosts /\ FromThisHost
  /\ Remembered /\ KeptIsRemembered /\ BeforeTheDoor /\ Clean

(* What the leaves need to know of the kinds of things. *)
PeerKinds ==
  /\ app.role \in {"offline", "solo", "host", "client"} /\ app.state \in {"offline", "solo", "host", "client"}
  /\ app.lobby \in {"none", "asking", "joining", "hosting", "joined"}
  /\ app.awaiting \in {None, "reconnect", "successor", "newHost"}
  /\ phase \in {"receive", "transition", "loop", "update"} /\ chains \subseteq {"session", "handshake"}
  /\ settled \in 0..2 /\ inbox.change \in {None, "host", "client"}
  /\ host.epoch \in Nat /\ (Joining => host.epoch > 0)

NoneIsNone ==
  /\ None \notin {"offline", "solo", "host", "client", "reconnect", "successor", "newHost"}
  /\ host.epoch # None /\ host.epoch \notin Client /\ None \notin Client

LEMMA KindsAre ==
  ASSUME Typed
  PROVE  PeerKinds
<1>1. app \in App /\ inbox \in Inbox
  BY DEF Typed, TypeOK
<1>2. /\ app.role \in {"offline", "solo", "host", "client"} /\ app.state \in {"offline", "solo", "host", "client"}
      /\ app.lobby \in {"none", "asking", "joining", "hosting", "joined"}
      /\ app.awaiting \in {None, "reconnect", "successor", "newHost"}
  BY <1>1 DEF App, Session
<1>3. inbox.change \in {None, "host", "client"}
  BY <1>1 DEF Inbox
<1>4. host.epoch \in Nat
  BY Assumed DEF Typed, TypeOK
<1>5. phase \in {"receive", "transition", "loop", "update"} /\ chains \subseteq {"session", "handshake"} /\ settled \in 0..2
  BY DEF Typed, TypeOK
<1> QED
  BY <1>2, <1>3, <1>4, <1>5 DEF PeerKinds, Typed

LEMMA NoneIsNoneOfThem ==
  ASSUME Typed
  PROVE  NoneIsNone
<1>1. host.epoch \in Nat
  BY KindsAre DEF PeerKinds
<1>2. None \notin {"offline", "solo", "host", "client", "reconnect", "successor", "newHost"}
  BY NoneAssumption
<1> QED
  BY <1>1, <1>2, Assumed DEF NoneIsNone

LEMMA FrameOrderKept ==
  ASSUME Typed, Lasting, Next
  PROVE  FrameOrder'
<1>1. PeerKinds /\ NoneIsNone
  BY KindsAre, NoneIsNoneOfThem
<1> USE DEF Unmoved, Same, SameInbox, SameFrame, SameRole, SameLatch, SameWord, SameVisit, SameBody,
           SameLobby, SameSeats, Lasting, FrameOrder, Handshaking, Following, PeerKinds, NoneIsNone
<1>2. CASE AskForALobby
  BY <1>1, <1>2, AskIs
<1>3. CASE Promoted
  BY <1>1, <1>3, PromotedIs
<1>4. CASE LobbyGoes
  BY <1>1, <1>4, LobbyGoesIs
<1>5. ASSUME NEW why \in {"reconnect", "successor"}, LoseHost(why) PROVE FrameOrder'
  BY <1>1, <1>5, LoseHostIs
<1>6. CASE FindHost
  BY <1>1, <1>6, FindHostIs
<1>7. CASE ChangeHost
  BY <1>1, <1>7, ChangeHostIs
<1>8. CASE HostSays
  BY <1>1, <1>8, HostSaysIs
<1>9. CASE HostWelcomes
  BY <1>1, <1>9, HostWelcomesIs
<1>10. CASE SnapshotArrives
  BY <1>1, <1>10, SnapshotArrivesIs
<1>11. ASSUME NEW c \in Client, ClientJoins(c) PROVE FrameOrder'
  BY <1>1, <1>11, ClientJoinsIs
<1>12. ASSUME NEW c \in Client, ClientSays(c) PROVE FrameOrder'
  BY <1>1, <1>12, ClientSaysIs
<1>13. ASSUME NEW c \in Client, ClientGoes(c) PROVE FrameOrder'
  BY <1>1, <1>13, ClientGoesIs
<1>14. ASSUME NEW what \in {"StartSolo", "EndSession"}, PlayerAsks(what) PROVE FrameOrder'
  BY <1>1, <1>14, PlayerAsksIs
<1>15. CASE PreUpdate
  BY <1>1, <1>15, PreUpdateStep
<1>16. CASE StateTransition /\ ~FollowsTheRoles(app)
  BY <1>1, <1>16, ShutStep DEF DoorStep
<1>17. CASE StateTransition /\ FollowsTheRoles(app)
  BY <1>1, <1>17, TurnStep DEF DoorStep
<1>18. CASE LoopPass
  BY <1>1, <1>18, LoopPassStep
<1>19. CASE NoPass \/ NextFrame
  BY <1>1, <1>19, IdleStep
<1>20. CASE SessionChain
  BY <1>1, <1>20, SessionStep DEF SessionEffect, SameKept
<1>21. CASE HandshakeChain
  BY <1>1, <1>21, HandshakeStep DEF HandshakeEffect, SameShaken
<1> QED
  BY <1>2, <1>3, <1>4, <1>5, <1>6, <1>7, <1>8, <1>9, <1>10, <1>11, <1>12, <1>13, <1>14, <1>15, <1>16, <1>17,
     <1>18, <1>19, <1>20, <1>21 DEF Next, Frame, Environment

LEMMA RolesFollowLobbiesKept ==
  ASSUME Typed, Lasting, Next
  PROVE  RolesFollowLobbies'
<1>1. PeerKinds /\ NoneIsNone
  BY KindsAre, NoneIsNoneOfThem
<1> USE DEF Unmoved, Same, SameInbox, SameFrame, SameRole, SameLatch, SameWord, SameVisit, SameBody,
           SameLobby, SameSeats, Lasting, FrameOrder, Handshaking, Following, RolesFollowLobbies, Joining,
           RoleInALobby, RoleAlone, Adopts, PeerKinds, NoneIsNone
<1>2. CASE AskForALobby
  BY <1>1, <1>2, AskIs
<1>3. CASE Promoted
  BY <1>1, <1>3, PromotedIs
<1>4. CASE LobbyGoes
  BY <1>1, <1>4, LobbyGoesIs
<1>5. ASSUME NEW why \in {"reconnect", "successor"}, LoseHost(why) PROVE RolesFollowLobbies'
  BY <1>1, <1>5, LoseHostIs
<1>6. CASE FindHost
  BY <1>1, <1>6, FindHostIs
<1>7. CASE ChangeHost
  BY <1>1, <1>7, ChangeHostIs
<1>8. CASE HostSays
  BY <1>1, <1>8, HostSaysIs
<1>9. CASE HostWelcomes
  BY <1>1, <1>9, HostWelcomesIs
<1>10. CASE SnapshotArrives
  BY <1>1, <1>10, SnapshotArrivesIs
<1>11. ASSUME NEW c \in Client, ClientJoins(c) PROVE RolesFollowLobbies'
  BY <1>1, <1>11, ClientJoinsIs
<1>12. ASSUME NEW c \in Client, ClientSays(c) PROVE RolesFollowLobbies'
  BY <1>1, <1>12, ClientSaysIs
<1>13. ASSUME NEW c \in Client, ClientGoes(c) PROVE RolesFollowLobbies'
  BY <1>1, <1>13, ClientGoesIs
<1>14. ASSUME NEW what \in {"StartSolo", "EndSession"}, PlayerAsks(what) PROVE RolesFollowLobbies'
  BY <1>1, <1>14, PlayerAsksIs
<1>15. CASE PreUpdate
  BY <1>1, <1>15, PreUpdateStep
<1>16. CASE StateTransition /\ ~FollowsTheRoles(app)
  BY <1>1, <1>16, ShutStep DEF DoorStep
<1>17. CASE StateTransition /\ FollowsTheRoles(app)
  BY <1>1, <1>17, TurnStep DEF DoorStep
<1>18. CASE LoopPass
  BY <1>1, <1>18, LoopPassStep
<1>19. CASE NoPass \/ NextFrame
  BY <1>1, <1>19, IdleStep
<1>20. CASE SessionChain
  BY <1>1, <1>20, SessionStep DEF SessionEffect, SameKept
<1>21. CASE HandshakeChain
  BY <1>1, <1>21, HandshakeStep DEF HandshakeEffect, SameShaken
<1> QED
  BY <1>2, <1>3, <1>4, <1>5, <1>6, <1>7, <1>8, <1>9, <1>10, <1>11, <1>12, <1>13, <1>14, <1>15, <1>16, <1>17,
     <1>18, <1>19, <1>20, <1>21 DEF Next, Frame, Environment

LEMMA StateFollowsRolesKept ==
  ASSUME Typed, Lasting, Next
  PROVE  StateFollowsRoles'
<1>1. PeerKinds /\ NoneIsNone
  BY KindsAre, NoneIsNoneOfThem
<1> USE DEF Unmoved, Same, SameInbox, SameFrame, SameRole, SameLatch, SameWord, SameVisit, SameBody,
           SameLobby, SameSeats, Lasting, FrameOrder, Handshaking, Following, RolesFollowLobbies,
           StateFollowsRoles, Joining, RoleInALobby, RoleAlone, Adopts, PeerKinds, NoneIsNone
<1>2. CASE AskForALobby
  BY <1>1, <1>2, AskIs
<1>3. CASE Promoted
  BY <1>1, <1>3, PromotedIs
<1>4. CASE LobbyGoes
  BY <1>1, <1>4, LobbyGoesIs
<1>5. ASSUME NEW why \in {"reconnect", "successor"}, LoseHost(why) PROVE StateFollowsRoles'
  BY <1>1, <1>5, LoseHostIs
<1>6. CASE FindHost
  BY <1>1, <1>6, FindHostIs
<1>7. CASE ChangeHost
  BY <1>1, <1>7, ChangeHostIs
<1>8. CASE HostSays
  BY <1>1, <1>8, HostSaysIs
<1>9. CASE HostWelcomes
  BY <1>1, <1>9, HostWelcomesIs
<1>10. CASE SnapshotArrives
  BY <1>1, <1>10, SnapshotArrivesIs
<1>11. ASSUME NEW c \in Client, ClientJoins(c) PROVE StateFollowsRoles'
  BY <1>1, <1>11, ClientJoinsIs
<1>12. ASSUME NEW c \in Client, ClientSays(c) PROVE StateFollowsRoles'
  BY <1>1, <1>12, ClientSaysIs
<1>13. ASSUME NEW c \in Client, ClientGoes(c) PROVE StateFollowsRoles'
  BY <1>1, <1>13, ClientGoesIs
<1>14. ASSUME NEW what \in {"StartSolo", "EndSession"}, PlayerAsks(what) PROVE StateFollowsRoles'
  BY <1>1, <1>14, PlayerAsksIs
<1>15. CASE PreUpdate
  BY <1>1, <1>15, PreUpdateStep
<1>16. CASE StateTransition /\ ~FollowsTheRoles(app)
  BY <1>1, <1>16, ShutStep DEF DoorStep
<1>17. CASE StateTransition /\ FollowsTheRoles(app)
  BY <1>1, <1>17, TurnStep DEF DoorStep
<1>18. CASE LoopPass
  BY <1>1, <1>18, LoopPassStep
<1>19. CASE NoPass \/ NextFrame
  BY <1>1, <1>19, IdleStep
<1>20. CASE SessionChain
  BY <1>1, <1>20, SessionStep DEF SessionEffect, SameKept
<1>21. CASE HandshakeChain
  BY <1>1, <1>21, HandshakeStep DEF HandshakeEffect, SameShaken
<1> QED
  BY <1>2, <1>3, <1>4, <1>5, <1>6, <1>7, <1>8, <1>9, <1>10, <1>11, <1>12, <1>13, <1>14, <1>15, <1>16, <1>17,
     <1>18, <1>19, <1>20, <1>21 DEF Next, Frame, Environment

LEMMA SeatsAreHostsKept ==
  ASSUME Typed, Lasting, Next
  PROVE  SeatsAreHosts'
<1>1. PeerKinds /\ NoneIsNone
  BY KindsAre, NoneIsNoneOfThem
<1> USE DEF Unmoved, Same, SameInbox, SameFrame, SameRole, SameLatch, SameWord, SameVisit, SameBody,
           SameLobby, SameSeats, Lasting, FrameOrder, Handshaking, Following, RolesFollowLobbies,
           StateFollowsRoles, SeatsAreHosts, FromClients, Joining, RoleInALobby, RoleAlone, Adopts,
           FollowsTheRoles, Hosting, PeerKinds, NoneIsNone
<1>2. CASE AskForALobby
  BY <1>1, <1>2, AskIs
<1>3. CASE Promoted
  BY <1>1, <1>3, PromotedIs
<1>4. CASE LobbyGoes
  BY <1>1, <1>4, LobbyGoesIs
<1>5. ASSUME NEW why \in {"reconnect", "successor"}, LoseHost(why) PROVE SeatsAreHosts'
  BY <1>1, <1>5, LoseHostIs
<1>6. CASE FindHost
  BY <1>1, <1>6, FindHostIs
<1>7. CASE ChangeHost
  BY <1>1, <1>7, ChangeHostIs
<1>8. CASE HostSays
  BY <1>1, <1>8, HostSaysIs
<1>9. CASE HostWelcomes
  BY <1>1, <1>9, HostWelcomesIs
<1>10. CASE SnapshotArrives
  BY <1>1, <1>10, SnapshotArrivesIs
<1>11. ASSUME NEW c \in Client, ClientJoins(c) PROVE SeatsAreHosts'
  BY <1>1, <1>11, ClientJoinsIs
<1>12. ASSUME NEW c \in Client, ClientSays(c) PROVE SeatsAreHosts'
  BY <1>1, <1>12, ClientSaysIs
<1>13. ASSUME NEW c \in Client, ClientGoes(c) PROVE SeatsAreHosts'
  BY <1>1, <1>13, ClientGoesIs
<1>14. ASSUME NEW what \in {"StartSolo", "EndSession"}, PlayerAsks(what) PROVE SeatsAreHosts'
  BY <1>1, <1>14, PlayerAsksIs
<1>15. CASE PreUpdate
  BY <1>1, <1>15, PreUpdateStep
<1>16. CASE StateTransition /\ ~FollowsTheRoles(app)
  BY <1>1, <1>16, ShutStep DEF DoorStep
<1>17. CASE StateTransition /\ FollowsTheRoles(app)
  BY <1>1, <1>17, TurnStep DEF DoorStep
<1>18. CASE LoopPass
  BY <1>1, <1>18, LoopPassStep
<1>19. CASE NoPass \/ NextFrame
  BY <1>1, <1>19, IdleStep
<1>20. CASE SessionChain
  BY <1>1, <1>20, SessionStep DEF SessionEffect, SameKept
<1>21. CASE HandshakeChain
  BY <1>1, <1>21, HandshakeStep DEF HandshakeEffect, SameShaken
<1> QED
  BY <1>2, <1>3, <1>4, <1>5, <1>6, <1>7, <1>8, <1>9, <1>10, <1>11, <1>12, <1>13, <1>14, <1>15, <1>16, <1>17,
     <1>18, <1>19, <1>20, <1>21 DEF Next, Frame, Environment

LEMMA FromThisHostKept ==
  ASSUME Typed, Lasting, Next
  PROVE  FromThisHost'
<1>1. PeerKinds /\ NoneIsNone
  BY KindsAre, NoneIsNoneOfThem
<1> USE DEF Unmoved, Same, SameInbox, SameFrame, SameRole, SameLatch, SameWord, SameVisit, SameBody,
           SameLobby, SameSeats, Lasting, FrameOrder, Handshaking, Following, RolesFollowLobbies,
           FromThisHost, FromHost, Joining, PeerKinds, NoneIsNone
<1>2. CASE AskForALobby
  BY <1>1, <1>2, AskIs
<1>3. CASE Promoted
  BY <1>1, <1>3, PromotedIs
<1>4. CASE LobbyGoes
  BY <1>1, <1>4, LobbyGoesIs
<1>5. ASSUME NEW why \in {"reconnect", "successor"}, LoseHost(why) PROVE FromThisHost'
  BY <1>1, <1>5, LoseHostIs
<1>6. CASE FindHost
  BY <1>1, <1>6, FindHostIs
<1>7. CASE ChangeHost
  BY <1>1, <1>7, ChangeHostIs
<1>8. CASE HostSays
  BY <1>1, <1>8, HostSaysIs
<1>9. CASE HostWelcomes
  BY <1>1, <1>9, HostWelcomesIs
<1>10. CASE SnapshotArrives
  BY <1>1, <1>10, SnapshotArrivesIs
<1>11. ASSUME NEW c \in Client, ClientJoins(c) PROVE FromThisHost'
  BY <1>1, <1>11, ClientJoinsIs
<1>12. ASSUME NEW c \in Client, ClientSays(c) PROVE FromThisHost'
  BY <1>1, <1>12, ClientSaysIs
<1>13. ASSUME NEW c \in Client, ClientGoes(c) PROVE FromThisHost'
  BY <1>1, <1>13, ClientGoesIs
<1>14. ASSUME NEW what \in {"StartSolo", "EndSession"}, PlayerAsks(what) PROVE FromThisHost'
  BY <1>1, <1>14, PlayerAsksIs
<1>15. CASE PreUpdate
  BY <1>1, <1>15, PreUpdateStep
<1>16. CASE StateTransition /\ ~FollowsTheRoles(app)
  BY <1>1, <1>16, ShutStep DEF DoorStep
<1>17. CASE StateTransition /\ FollowsTheRoles(app)
  BY <1>1, <1>17, TurnStep DEF DoorStep
<1>18. CASE LoopPass
  BY <1>1, <1>18, LoopPassStep
<1>19. CASE NoPass \/ NextFrame
  BY <1>1, <1>19, IdleStep
<1>20. CASE SessionChain
  BY <1>1, <1>20, SessionStep DEF SessionEffect, SameKept
<1>21. CASE HandshakeChain
  BY <1>1, <1>21, HandshakeStep DEF HandshakeEffect, SameShaken
<1> QED
  BY <1>2, <1>3, <1>4, <1>5, <1>6, <1>7, <1>8, <1>9, <1>10, <1>11, <1>12, <1>13, <1>14, <1>15, <1>16, <1>17,
     <1>18, <1>19, <1>20, <1>21 DEF Next, Frame, Environment

LEMMA RememberedKept ==
  ASSUME Typed, Lasting, Next
  PROVE  Remembered'
<1>1. PeerKinds /\ NoneIsNone
  BY KindsAre, NoneIsNoneOfThem
<1> USE DEF Unmoved, Same, SameInbox, SameFrame, SameRole, SameLatch, SameWord, SameVisit, SameBody,
           SameLobby, SameSeats, Lasting, FrameOrder, Handshaking, Following, RolesFollowLobbies,
           StateFollowsRoles, Remembered, Ending, Ends, Visits, RoleInALobby, RoleAlone, Adopts, Leaving,
           FollowsTheRoles, PeerKinds, NoneIsNone
<1>2. CASE AskForALobby
  BY <1>1, <1>2, AskIs
<1>3. CASE Promoted
  BY <1>1, <1>3, PromotedIs
<1>4. CASE LobbyGoes
  BY <1>1, <1>4, LobbyGoesIs
<1>5. ASSUME NEW why \in {"reconnect", "successor"}, LoseHost(why) PROVE Remembered'
  BY <1>1, <1>5, LoseHostIs
<1>6. CASE FindHost
  BY <1>1, <1>6, FindHostIs
<1>7. CASE ChangeHost
  BY <1>1, <1>7, ChangeHostIs
<1>8. CASE HostSays
  BY <1>1, <1>8, HostSaysIs
<1>9. CASE HostWelcomes
  BY <1>1, <1>9, HostWelcomesIs
<1>10. CASE SnapshotArrives
  BY <1>1, <1>10, SnapshotArrivesIs
<1>11. ASSUME NEW c \in Client, ClientJoins(c) PROVE Remembered'
  BY <1>1, <1>11, ClientJoinsIs
<1>12. ASSUME NEW c \in Client, ClientSays(c) PROVE Remembered'
  BY <1>1, <1>12, ClientSaysIs
<1>13. ASSUME NEW c \in Client, ClientGoes(c) PROVE Remembered'
  BY <1>1, <1>13, ClientGoesIs
<1>14. ASSUME NEW what \in {"StartSolo", "EndSession"}, PlayerAsks(what) PROVE Remembered'
  BY <1>1, <1>14, PlayerAsksIs
<1>15. CASE PreUpdate
  BY <1>1, <1>15, PreUpdateStep
<1>16. CASE StateTransition /\ ~FollowsTheRoles(app)
  BY <1>1, <1>16, ShutStep DEF DoorStep
<1>17. CASE StateTransition /\ FollowsTheRoles(app)
  BY <1>1, <1>17, TurnStep DEF DoorStep
<1>18. CASE LoopPass
  BY <1>1, <1>18, LoopPassStep
<1>19. CASE NoPass \/ NextFrame
  BY <1>1, <1>19, IdleStep
<1>20. CASE SessionChain
  BY <1>1, <1>20, SessionStep DEF SessionEffect, SameKept
<1>21. CASE HandshakeChain
  BY <1>1, <1>21, HandshakeStep DEF HandshakeEffect, SameShaken
<1> QED
  BY <1>2, <1>3, <1>4, <1>5, <1>6, <1>7, <1>8, <1>9, <1>10, <1>11, <1>12, <1>13, <1>14, <1>15, <1>16, <1>17,
     <1>18, <1>19, <1>20, <1>21 DEF Next, Frame, Environment

LEMMA KeptIsRememberedKept ==
  ASSUME Typed, Lasting, Next
  PROVE  KeptIsRemembered'
<1>1. PeerKinds /\ NoneIsNone
  BY KindsAre, NoneIsNoneOfThem
<1> USE DEF Unmoved, Same, SameInbox, SameFrame, SameRole, SameLatch, SameWord, SameVisit, SameBody,
           SameLobby, SameSeats, Lasting, FrameOrder, Handshaking, Following, RolesFollowLobbies,
           StateFollowsRoles, SeatsAreHosts, FromClients, FromThisHost, Remembered, KeptIsRemembered, Said,
           Latched, FromHost, Ending, Ends, Visits, RoleInALobby, RoleAlone, Adopts, Leaving, Joining,
           FollowsTheRoles, Hosting, Word, PeerKinds, NoneIsNone
<1>2. CASE AskForALobby
  BY <1>1, <1>2, AskIs
<1>3. CASE Promoted
  BY <1>1, <1>3, PromotedIs
<1>4. CASE LobbyGoes
  BY <1>1, <1>4, LobbyGoesIs
<1>5. ASSUME NEW why \in {"reconnect", "successor"}, LoseHost(why) PROVE KeptIsRemembered'
  BY <1>1, <1>5, LoseHostIs
<1>6. CASE FindHost
  BY <1>1, <1>6, FindHostIs
<1>7. CASE ChangeHost
  BY <1>1, <1>7, ChangeHostIs
<1>8. CASE HostSays
  BY <1>1, <1>8, HostSaysIs
<1>9. CASE HostWelcomes
  BY <1>1, <1>9, HostWelcomesIs
<1>10. CASE SnapshotArrives
  BY <1>1, <1>10, SnapshotArrivesIs
<1>11. ASSUME NEW c \in Client, ClientJoins(c) PROVE KeptIsRemembered'
  BY <1>1, <1>11, ClientJoinsIs
<1>12. ASSUME NEW c \in Client, ClientSays(c) PROVE KeptIsRemembered'
  BY <1>1, <1>12, ClientSaysIs
<1>13. ASSUME NEW c \in Client, ClientGoes(c) PROVE KeptIsRemembered'
  BY <1>1, <1>13, ClientGoesIs
<1>14. ASSUME NEW what \in {"StartSolo", "EndSession"}, PlayerAsks(what) PROVE KeptIsRemembered'
  BY <1>1, <1>14, PlayerAsksIs
<1>15. CASE PreUpdate
  BY <1>1, <1>15, PreUpdateStep
<1>16. CASE StateTransition /\ ~FollowsTheRoles(app)
  BY <1>1, <1>16, ShutStep DEF DoorStep
<1>17. CASE StateTransition /\ FollowsTheRoles(app)
  BY <1>1, <1>17, TurnStep DEF DoorStep
<1>18. CASE LoopPass
  BY <1>1, <1>18, LoopPassStep
<1>19. CASE NoPass \/ NextFrame
  BY <1>1, <1>19, IdleStep
<1>20. CASE SessionChain
  BY <1>1, <1>20, SessionStep DEF SessionEffect, SameKept
<1>21. CASE HandshakeChain
  BY <1>1, <1>21, HandshakeStep DEF HandshakeEffect, SameShaken
<1> QED
  BY <1>2, <1>3, <1>4, <1>5, <1>6, <1>7, <1>8, <1>9, <1>10, <1>11, <1>12, <1>13, <1>14, <1>15, <1>16, <1>17,
     <1>18, <1>19, <1>20, <1>21 DEF Next, Frame, Environment

LEMMA BeforeTheDoorKept ==
  ASSUME Typed, Lasting, Next
  PROVE  BeforeTheDoor'
<1>1. PeerKinds /\ NoneIsNone
  BY KindsAre, NoneIsNoneOfThem
<1> USE DEF Unmoved, Same, SameInbox, SameFrame, SameRole, SameLatch, SameWord, SameVisit, SameBody,
           SameLobby, SameSeats, Lasting, FrameOrder, Handshaking, Following, RolesFollowLobbies,
           StateFollowsRoles, BeforeTheDoor, Clean, RoleInALobby, RoleAlone, Adopts, PeerKinds, NoneIsNone
<1>2. CASE AskForALobby
  BY <1>1, <1>2, AskIs
<1>3. CASE Promoted
  BY <1>1, <1>3, PromotedIs
<1>4. CASE LobbyGoes
  BY <1>1, <1>4, LobbyGoesIs
<1>5. ASSUME NEW why \in {"reconnect", "successor"}, LoseHost(why) PROVE BeforeTheDoor'
  BY <1>1, <1>5, LoseHostIs
<1>6. CASE FindHost
  BY <1>1, <1>6, FindHostIs
<1>7. CASE ChangeHost
  BY <1>1, <1>7, ChangeHostIs
<1>8. CASE HostSays
  BY <1>1, <1>8, HostSaysIs
<1>9. CASE HostWelcomes
  BY <1>1, <1>9, HostWelcomesIs
<1>10. CASE SnapshotArrives
  BY <1>1, <1>10, SnapshotArrivesIs
<1>11. ASSUME NEW c \in Client, ClientJoins(c) PROVE BeforeTheDoor'
  BY <1>1, <1>11, ClientJoinsIs
<1>12. ASSUME NEW c \in Client, ClientSays(c) PROVE BeforeTheDoor'
  BY <1>1, <1>12, ClientSaysIs
<1>13. ASSUME NEW c \in Client, ClientGoes(c) PROVE BeforeTheDoor'
  BY <1>1, <1>13, ClientGoesIs
<1>14. ASSUME NEW what \in {"StartSolo", "EndSession"}, PlayerAsks(what) PROVE BeforeTheDoor'
  BY <1>1, <1>14, PlayerAsksIs
<1>15. CASE PreUpdate
  BY <1>1, <1>15, PreUpdateStep
<1>16. CASE StateTransition /\ ~FollowsTheRoles(app)
  BY <1>1, <1>16, ShutStep DEF DoorStep
<1>17. CASE StateTransition /\ FollowsTheRoles(app)
  BY <1>1, <1>17, TurnStep DEF DoorStep
<1>18. CASE LoopPass
  BY <1>1, <1>18, LoopPassStep
<1>19. CASE NoPass \/ NextFrame
  BY <1>1, <1>19, IdleStep
<1>20. CASE SessionChain
  BY <1>1, <1>20, SessionStep DEF SessionEffect, SameKept
<1>21. CASE HandshakeChain
  BY <1>1, <1>21, HandshakeStep DEF HandshakeEffect, SameShaken
<1> QED
  BY <1>2, <1>3, <1>4, <1>5, <1>6, <1>7, <1>8, <1>9, <1>10, <1>11, <1>12, <1>13, <1>14, <1>15, <1>16, <1>17,
     <1>18, <1>19, <1>20, <1>21 DEF Next, Frame, Environment

LEMMA CleanKept ==
  ASSUME Typed, Lasting, Next
  PROVE  Clean'
<1>1. PeerKinds /\ NoneIsNone
  BY KindsAre, NoneIsNoneOfThem
<1> USE DEF Unmoved, Same, SameInbox, SameFrame, SameRole, SameLatch, SameWord, SameVisit, SameBody,
           SameLobby, SameSeats, Lasting, FrameOrder, Handshaking, Following, RolesFollowLobbies,
           StateFollowsRoles, SeatsAreHosts, FromThisHost, FromHost, BeforeTheDoor, Clean, InSession,
           MaySpawn, RoleInALobby, RoleAlone, Adopts, FollowsTheRoles, Hosting, SeatsOrVerifiedSlots,
           PeerKinds, NoneIsNone
<1>2. CASE AskForALobby
  BY <1>1, <1>2, AskIs
<1>3. CASE Promoted
  BY <1>1, <1>3, PromotedIs
<1>4. CASE LobbyGoes
  BY <1>1, <1>4, LobbyGoesIs
<1>5. ASSUME NEW why \in {"reconnect", "successor"}, LoseHost(why) PROVE Clean'
  BY <1>1, <1>5, LoseHostIs
<1>6. CASE FindHost
  BY <1>1, <1>6, FindHostIs
<1>7. CASE ChangeHost
  BY <1>1, <1>7, ChangeHostIs
<1>8. CASE HostSays
  BY <1>1, <1>8, HostSaysIs
<1>9. CASE HostWelcomes
  BY <1>1, <1>9, HostWelcomesIs
<1>10. CASE SnapshotArrives
  BY <1>1, <1>10, SnapshotArrivesIs
<1>11. ASSUME NEW c \in Client, ClientJoins(c) PROVE Clean'
  BY <1>1, <1>11, ClientJoinsIs
<1>12. ASSUME NEW c \in Client, ClientSays(c) PROVE Clean'
  BY <1>1, <1>12, ClientSaysIs
<1>13. ASSUME NEW c \in Client, ClientGoes(c) PROVE Clean'
  BY <1>1, <1>13, ClientGoesIs
<1>14. ASSUME NEW what \in {"StartSolo", "EndSession"}, PlayerAsks(what) PROVE Clean'
  BY <1>1, <1>14, PlayerAsksIs
<1>15. CASE PreUpdate
  BY <1>1, <1>15, PreUpdateStep
<1>16. CASE StateTransition /\ ~FollowsTheRoles(app)
  BY <1>1, <1>16, ShutStep DEF DoorStep
<1>17. CASE StateTransition /\ FollowsTheRoles(app)
  BY <1>1, <1>17, TurnStep DEF DoorStep
<1>18. CASE LoopPass
  BY <1>1, <1>18, LoopPassStep
<1>19. CASE NoPass \/ NextFrame
  BY <1>1, <1>19, IdleStep
<1>20. CASE SessionChain
  BY <1>1, <1>20, SessionStep DEF SessionEffect, SameKept
<1>21. CASE HandshakeChain
  BY <1>1, <1>21, HandshakeStep DEF HandshakeEffect, SameShaken
<1> QED
  BY <1>2, <1>3, <1>4, <1>5, <1>6, <1>7, <1>8, <1>9, <1>10, <1>11, <1>12, <1>13, <1>14, <1>15, <1>16, <1>17,
     <1>18, <1>19, <1>20, <1>21 DEF Next, Frame, Environment

(* What an app that has just started has. *)
LEMMA FreshIs ==
  ASSUME Init
  PROVE  /\ phase = "receive" /\ chains = {} /\ settled = 2 /\ compared = {} /\ ~synced
         /\ Senders = {} /\ inbox.welcome = None /\ inbox.snapshot = None /\ inbox.change = None /\ inbox.asks = {}
         /\ app.role = "offline" /\ ~app.fresh /\ app.asked = None /\ app.state = "offline"
         /\ ~app.handed /\ ~app.visiting /\ ~app.mismatch /\ ~app.timedOut /\ app.verified = None /\ app.welcome = None
         /\ app.slot = None /\ app.wait = 0 /\ app.pending = None /\ app.world = {} /\ app.holds = {} /\ ~app.game
         /\ app.lobby = "none" /\ app.awaiting = None
         /\ \A c \in Client : app.seats[c] = "none" /\ app.slots[c] = None
<1>1. inbox = [registry |-> <<>>, welcome |-> None, snapshot |-> None, change |-> None, asks |-> {}]
  BY DEF Init, EmptyInbox
<1>2. Senders = {}
  <2>1. DOMAIN inbox.registry = {}
    BY <1>1
  <2> QED
    BY <2>1 DEF Senders
<1>3. app.seats = NoSeats /\ app.slots = NoSlots
  BY DEF Init, FreshApp
<1>4. \A c \in Client : app.seats[c] = "none" /\ app.slots[c] = None
  BY <1>3, Blanks
<1> QED
  BY <1>1, <1>2, <1>4 DEF Init, FreshApp

LEMMA LastingInit ==
  ASSUME Init
  PROVE  Lasting
<1>1. NoneIsNone
  BY TypedInit, NoneIsNoneOfThem
<1>2. FrameOrder /\ RolesFollowLobbies /\ StateFollowsRoles /\ SeatsAreHosts
  BY <1>1, FreshIs DEF FrameOrder, Handshaking, RolesFollowLobbies, StateFollowsRoles, SeatsAreHosts, FromClients, NoneIsNone
<1>3. FromThisHost
  BY FreshIs DEF FromThisHost, FromHost
<1>4. Remembered /\ KeptIsRemembered
  BY FreshIs DEF Remembered, KeptIsRemembered, Said, Latched, FromHost, Following, Ends
<1>5. BeforeTheDoor /\ Clean
  BY FreshIs DEF BeforeTheDoor, Clean
<1> QED
  BY <1>2, <1>3, <1>4, <1>5 DEF Lasting

LEMMA SameLasting ==
  ASSUME Lasting, UNCHANGED vars
  PROVE  Lasting'
<1>1. UNCHANGED <<app, host, told, inbox, phase, chains, settled, compared, synced, faults, news>>
  BY DEF vars
<1>2. Senders' = Senders
  BY <1>1 DEF Senders
<1>3. FrameOrder' /\ RolesFollowLobbies' /\ StateFollowsRoles' /\ SeatsAreHosts'
  BY <1>1, <1>2 DEF Lasting, FrameOrder, Handshaking, Following, RolesFollowLobbies, StateFollowsRoles, SeatsAreHosts, FromClients
<1>4. FromThisHost' /\ Remembered' /\ KeptIsRemembered'
  BY <1>1, <1>2 DEF Lasting, FromThisHost, FromHost, Joining, Remembered, Ending, Ends, KeptIsRemembered, Said, Latched, Following
<1>5. BeforeTheDoor' /\ Clean'
  BY <1>1 DEF Lasting, BeforeTheDoor, Clean
<1> QED
  BY <1>3, <1>4, <1>5 DEF Lasting

LEMMA LastingKept ==
  ASSUME Typed, Lasting, [Next]_vars
  PROVE  Lasting'
<1>1. CASE Next
  BY <1>1, FrameOrderKept, RolesFollowLobbiesKept, StateFollowsRolesKept, SeatsAreHostsKept, FromThisHostKept,
     RememberedKept, KeptIsRememberedKept, BeforeTheDoorKept, CleanKept DEF Lasting
<1>2. CASE UNCHANGED vars
  BY <1>2, SameLasting
<1> QED
  BY <1>1, <1>2

LEMMA RestIsFresh ==
  ASSUME Typed, Lasting
  PROVE  FreshAfterLeaving
<1> SUFFICES ASSUME AtRest PROVE [app EXCEPT !.fresh = FALSE] = FreshApp
  BY DEF FreshAfterLeaving
<1>1. app \in App
  BY DEF Typed, TypeOK
<1>2. /\ app.role = "offline" /\ app.asked = None /\ app.state = "offline" /\ ~app.visiting /\ app.lobby = "none"
      /\ phase = "receive"
  BY DEF AtRest
<1>3. NoneIsNone
  BY NoneIsNoneOfThem
<1>4. app.verified = None /\ app.welcome = None /\ ~app.game /\ ~app.mismatch /\ ~app.timedOut
  BY <1>2 DEF Lasting, KeptIsRemembered, Said, Latched
<1>5. app.awaiting = None
  BY <1>2 DEF Lasting, RolesFollowLobbies
<1>6. app.world = {} /\ app.slot = None /\ app.pending = None /\ app.wait = 0 /\ ~app.handed
  BY <1>2 DEF Lasting, Clean
<1>7. app.holds = {}
  <2>1. app.holds \subseteq {"AwaitingSync", "AwaitingHost"}
    BY <1>1 DEF App
  <2>2. "AwaitingSync" \notin app.holds /\ "AwaitingHost" \notin app.holds
    BY <1>2, <1>5 DEF Lasting, Clean
  <2> QED
    BY <2>1, <2>2
<1>8. app.seats = NoSeats /\ app.slots = NoSlots
  <2>1. app.seats \in [Client -> {"none", "seated", "verified"}] /\ app.slots \in [Client -> Slots \cup {None}]
    BY <1>1 DEF App
  <2>2. \A c \in Client : app.seats[c] = "none" /\ app.slots[c] = None
    BY <1>2 DEF Lasting, Clean, SeatsAreHosts
  <2> QED
    BY <2>1, <2>2 DEF NoSeats, NoSlots
<1>9. PICK p : p = [app EXCEPT !.fresh = FALSE]
  OBVIOUS
<1>10. p \in App
  BY <1>1, <1>9 DEF App
<1>11. /\ p.role = "offline" /\ p.fresh = FALSE /\ p.asked = None /\ p.state = "offline"
       /\ p.handed = FALSE /\ p.visiting = FALSE /\ p.mismatch = FALSE /\ p.timedOut = FALSE
       /\ p.verified = None /\ p.welcome = None /\ p.slot = None /\ p.wait = 0 /\ p.pending = None
       /\ p.world = {} /\ p.holds = {} /\ p.game = FALSE /\ p.lobby = "none" /\ p.awaiting = None
       /\ p.seats = NoSeats /\ p.slots = NoSlots
  BY <1>1, <1>2, <1>4, <1>5, <1>6, <1>7, <1>8, <1>9 DEF App
<1>12. p = FreshApp
  BY <1>10, <1>11 DEF App, FreshApp
<1> QED
  BY <1>9, <1>12

(* Back in its menu, an app that has been through any sessions is a fresh one:     *)
(* whatever lobby it asked for, whatever its host said, wherever the link went and *)
(* in whichever order the two chains of a frame ran, the doors and the bridge have *)
(* taken everything back (the registry of resets in src/session.rs, ReleaseRole,   *)
(* ForgetMismatch and the end of a visit that never had a role).                   *)
THEOREM LeftIsFresh == Spec => []FreshAfterLeaving
<1>1. Init => Typed /\ Lasting
  BY TypedInit, LastingInit
<1>2. Typed /\ Lasting /\ [Next]_vars => Typed' /\ Lasting'
  BY TypedKept, LastingKept
<1>3. Typed /\ Lasting => FreshAfterLeaving
  BY RestIsFresh
<1> QED
  BY <1>1, <1>2, <1>3, PTL DEF Spec

-----------------------------------------------------------------------------
(* From here on with no game played alone handed back by a lobby that goes before a role. *)

(* A word is of another host than the present. *)
Stale(x) == x # None /\ x # host.epoch

(* Without a lobby nothing a host said outlives the frame. *)
NothingIsKept ==
  app.lobby = "none" =>
    /\ phase \in {"receive", "transition"} /\ settled > 0 /\ Said => Ending
    /\ phase = "loop" /\ settled > 0 => ~Said
    /\ phase = "update" /\ Following /\ Said => settled = 0 \/ app.state = "host"
    /\ phase = "update" /\ ~Following /\ (Said \/ FromHost \/ FromClients) => Ending

(* A word that is stale is forgotten by the change of hosts or ended by the doors. *)
StaleGoes ==
  \A x \in {app.verified, app.welcome} : Stale(x) =>
    /\ phase = "receive" => inbox.change # None \/ Ending
    /\ phase = "transition" => Ending
    /\ phase # "loop"
    /\ phase = "update" => app.state = "host" /\ (app.role = "offline" \/ (Following /\ app.lobby = "none"))

(* A game starts alone with nothing said, and not as another ends. *)
AloneIsFresh ==
  /\ ~({"StartSolo", "EndSession"} \subseteq inbox.asks)
  /\ "StartSolo" \in inbox.asks => settled > 0 \/ app.lobby # "none"
  /\ app.lobby = "none" /\ app.role = "solo" => settled > 0 /\ ~Said /\ ~FromHost /\ ~FromClients

(* A world is of compared hosts, and so is a word that was verified. *)
ComparedOnly ==
  /\ app.world \ {Mine} \subseteq compared
  /\ app.verified \in compared \cup Client \cup {None}

(* A snapshot that waits is of a compared host, and of the present but for a change or a door to come. *)
Arrives ==
  app.role = "client" /\ app.pending # None =>
    /\ app.pending \in compared
    /\ inbox.change = None /\ ~(app.state = "client" /\ app.fresh) => app.pending = host.epoch

(* The client plays on: no change of hosts, no door is to come. *)
Present == app.state = "client" /\ app.role = "client" /\ inbox.change = None /\ ~app.fresh

(* A client's world and slot are its host's, after the doors and as long as it plays on. *)
ItsWorld ==
  (phase \in {"loop", "update"} /\ app.state = "client") \/ Present => app.world \subseteq {host.epoch}
ItsSlot ==
  /\ (phase \in {"loop", "update"} /\ app.state = "client") \/ Present => app.slot \in {None, host.epoch}
  /\ app.state = "host" => app.slot = Mine
  /\ app.state \in {"offline", "solo"} => app.slot = None

HeldToItsHost ==
  /\ NothingIsKept /\ StaleGoes /\ AloneIsFresh /\ ComparedOnly /\ Arrives /\ ItsWorld /\ ItsSlot /\ SlotsFollowSeats

LEMMA NothingIsKeptKept ==
  ASSUME Typed, Lasting, ~HandBack, HeldToItsHost, Next
  PROVE  NothingIsKept'
<1>1. PeerKinds /\ NoneIsNone
  BY KindsAre, NoneIsNoneOfThem
<1> USE DEF Unmoved, Same, SameInbox, SameFrame, SameRole, SameLatch, SameWord, SameVisit, SameBody,
           SameLobby, SameSeats, Lasting, HeldToItsHost, FrameOrder, Handshaking, Following,
           RolesFollowLobbies, StateFollowsRoles, SeatsAreHosts, FromThisHost, FromHost, FromClients, Joining,
           RoleInALobby, RoleAlone, Adopts, Ends, Remembered, KeptIsRemembered, NothingIsKept, AloneIsFresh,
           Said, Ending, Leaving, Visits, FollowsTheRoles, Hosting, Word, PeerKinds, NoneIsNone
<1>2. CASE AskForALobby
  BY <1>1, <1>2, AskIs
<1>3. CASE Promoted
  BY <1>1, <1>3, PromotedIs
<1>4. CASE LobbyGoes
  BY <1>1, <1>4, LobbyGoesIs
<1>5. ASSUME NEW why \in {"reconnect", "successor"}, LoseHost(why) PROVE NothingIsKept'
  BY <1>1, <1>5, LoseHostIs
<1>6. CASE FindHost
  BY <1>1, <1>6, FindHostIs
<1>7. CASE ChangeHost
  BY <1>1, <1>7, ChangeHostIs
<1>8. CASE HostSays
  BY <1>1, <1>8, HostSaysIs
<1>9. CASE HostWelcomes
  BY <1>1, <1>9, HostWelcomesIs
<1>10. CASE SnapshotArrives
  BY <1>1, <1>10, SnapshotArrivesIs
<1>11. ASSUME NEW c \in Client, ClientJoins(c) PROVE NothingIsKept'
  BY <1>1, <1>11, ClientJoinsIs
<1>12. ASSUME NEW c \in Client, ClientSays(c) PROVE NothingIsKept'
  BY <1>1, <1>12, ClientSaysIs
<1>13. ASSUME NEW c \in Client, ClientGoes(c) PROVE NothingIsKept'
  BY <1>1, <1>13, ClientGoesIs
<1>14. ASSUME NEW what \in {"StartSolo", "EndSession"}, PlayerAsks(what) PROVE NothingIsKept'
  BY <1>1, <1>14, PlayerAsksIs
<1>15. CASE PreUpdate
  BY <1>1, <1>15, PreUpdateStep
<1>16. CASE StateTransition /\ ~FollowsTheRoles(app)
  BY <1>1, <1>16, ShutStep DEF DoorStep
<1>17. CASE StateTransition /\ FollowsTheRoles(app)
  BY <1>1, <1>17, TurnStep DEF DoorStep
<1>18. CASE LoopPass
  BY <1>1, <1>18, LoopPassStep
<1>19. CASE NoPass \/ NextFrame
  BY <1>1, <1>19, IdleStep
<1>20. CASE SessionChain
  BY <1>1, <1>20, SessionStep DEF SessionEffect, SameKept
<1>21. CASE HandshakeChain
  BY <1>1, <1>21, HandshakeStep DEF HandshakeEffect, SameShaken
<1> QED
  BY <1>2, <1>3, <1>4, <1>5, <1>6, <1>7, <1>8, <1>9, <1>10, <1>11, <1>12, <1>13, <1>14, <1>15, <1>16, <1>17,
     <1>18, <1>19, <1>20, <1>21 DEF Next, Frame, Environment

LEMMA StaleGoesKept ==
  ASSUME Typed, Lasting, ~HandBack, HeldToItsHost, Next
  PROVE  StaleGoes'
<1>1. PeerKinds /\ NoneIsNone
  BY KindsAre, NoneIsNoneOfThem
<1> USE DEF Unmoved, Same, SameInbox, SameFrame, SameRole, SameLatch, SameWord, SameVisit, SameBody,
           SameLobby, SameSeats, Lasting, HeldToItsHost, FrameOrder, Handshaking, Following,
           RolesFollowLobbies, StateFollowsRoles, SeatsAreHosts, FromThisHost, FromHost, FromClients, Joining,
           RoleInALobby, RoleAlone, Adopts, Ends, Remembered, NothingIsKept, StaleGoes, Stale, Said, Ending,
           Leaving, FollowsTheRoles, Hosting, Word, PeerKinds, NoneIsNone
<1>2. CASE AskForALobby
  BY <1>1, <1>2, AskIs
<1>3. CASE Promoted
  BY <1>1, <1>3, PromotedIs
<1>4. CASE LobbyGoes
  BY <1>1, <1>4, LobbyGoesIs
<1>5. ASSUME NEW why \in {"reconnect", "successor"}, LoseHost(why) PROVE StaleGoes'
  BY <1>1, <1>5, LoseHostIs
<1>6. CASE FindHost
  BY <1>1, <1>6, FindHostIs
<1>7. CASE ChangeHost
  BY <1>1, <1>7, ChangeHostIs
<1>8. CASE HostSays
  BY <1>1, <1>8, HostSaysIs
<1>9. CASE HostWelcomes
  BY <1>1, <1>9, HostWelcomesIs
<1>10. CASE SnapshotArrives
  BY <1>1, <1>10, SnapshotArrivesIs
<1>11. ASSUME NEW c \in Client, ClientJoins(c) PROVE StaleGoes'
  BY <1>1, <1>11, ClientJoinsIs
<1>12. ASSUME NEW c \in Client, ClientSays(c) PROVE StaleGoes'
  BY <1>1, <1>12, ClientSaysIs
<1>13. ASSUME NEW c \in Client, ClientGoes(c) PROVE StaleGoes'
  BY <1>1, <1>13, ClientGoesIs
<1>14. ASSUME NEW what \in {"StartSolo", "EndSession"}, PlayerAsks(what) PROVE StaleGoes'
  BY <1>1, <1>14, PlayerAsksIs
<1>15. CASE PreUpdate
  BY <1>1, <1>15, PreUpdateStep
<1>16. CASE StateTransition /\ ~FollowsTheRoles(app)
  BY <1>1, <1>16, ShutStep DEF DoorStep
<1>17. CASE StateTransition /\ FollowsTheRoles(app)
  BY <1>1, <1>17, TurnStep DEF DoorStep
<1>18. CASE LoopPass
  BY <1>1, <1>18, LoopPassStep
<1>19. CASE NoPass \/ NextFrame
  BY <1>1, <1>19, IdleStep
<1>20. CASE SessionChain
  BY <1>1, <1>20, SessionStep DEF SessionEffect, SameKept
<1>21. CASE HandshakeChain
  BY <1>1, <1>21, HandshakeStep DEF HandshakeEffect, SameShaken
<1> QED
  BY <1>2, <1>3, <1>4, <1>5, <1>6, <1>7, <1>8, <1>9, <1>10, <1>11, <1>12, <1>13, <1>14, <1>15, <1>16, <1>17,
     <1>18, <1>19, <1>20, <1>21 DEF Next, Frame, Environment

LEMMA AloneIsFreshKept ==
  ASSUME Typed, Lasting, ~HandBack, HeldToItsHost, Next
  PROVE  AloneIsFresh'
<1>1. PeerKinds /\ NoneIsNone
  BY KindsAre, NoneIsNoneOfThem
<1> USE DEF Unmoved, Same, SameInbox, SameFrame, SameRole, SameLatch, SameWord, SameVisit, SameBody,
           SameLobby, SameSeats, Lasting, HeldToItsHost, FrameOrder, Handshaking, Following,
           RolesFollowLobbies, StateFollowsRoles, SeatsAreHosts, FromThisHost, FromHost, FromClients, Joining,
           RoleInALobby, RoleAlone, Adopts, Ends, Remembered, NothingIsKept, AloneIsFresh, Said, Ending,
           Leaving, FollowsTheRoles, Hosting, Word, PeerKinds, NoneIsNone
<1>2. CASE AskForALobby
  BY <1>1, <1>2, AskIs
<1>3. CASE Promoted
  BY <1>1, <1>3, PromotedIs
<1>4. CASE LobbyGoes
  BY <1>1, <1>4, LobbyGoesIs
<1>5. ASSUME NEW why \in {"reconnect", "successor"}, LoseHost(why) PROVE AloneIsFresh'
  BY <1>1, <1>5, LoseHostIs
<1>6. CASE FindHost
  BY <1>1, <1>6, FindHostIs
<1>7. CASE ChangeHost
  BY <1>1, <1>7, ChangeHostIs
<1>8. CASE HostSays
  BY <1>1, <1>8, HostSaysIs
<1>9. CASE HostWelcomes
  BY <1>1, <1>9, HostWelcomesIs
<1>10. CASE SnapshotArrives
  BY <1>1, <1>10, SnapshotArrivesIs
<1>11. ASSUME NEW c \in Client, ClientJoins(c) PROVE AloneIsFresh'
  BY <1>1, <1>11, ClientJoinsIs
<1>12. ASSUME NEW c \in Client, ClientSays(c) PROVE AloneIsFresh'
  BY <1>1, <1>12, ClientSaysIs
<1>13. ASSUME NEW c \in Client, ClientGoes(c) PROVE AloneIsFresh'
  BY <1>1, <1>13, ClientGoesIs
<1>14. ASSUME NEW what \in {"StartSolo", "EndSession"}, PlayerAsks(what) PROVE AloneIsFresh'
  BY <1>1, <1>14, PlayerAsksIs
<1>15. CASE PreUpdate
  BY <1>1, <1>15, PreUpdateStep
<1>16. CASE StateTransition /\ ~FollowsTheRoles(app)
  BY <1>1, <1>16, ShutStep DEF DoorStep
<1>17. CASE StateTransition /\ FollowsTheRoles(app)
  BY <1>1, <1>17, TurnStep DEF DoorStep
<1>18. CASE LoopPass
  BY <1>1, <1>18, LoopPassStep
<1>19. CASE NoPass \/ NextFrame
  BY <1>1, <1>19, IdleStep
<1>20. CASE SessionChain
  BY <1>1, <1>20, SessionStep DEF SessionEffect, SameKept
<1>21. CASE HandshakeChain
  BY <1>1, <1>21, HandshakeStep DEF HandshakeEffect, SameShaken
<1> QED
  BY <1>2, <1>3, <1>4, <1>5, <1>6, <1>7, <1>8, <1>9, <1>10, <1>11, <1>12, <1>13, <1>14, <1>15, <1>16, <1>17,
     <1>18, <1>19, <1>20, <1>21 DEF Next, Frame, Environment

LEMMA ComparedOnlyKept ==
  ASSUME Typed, Lasting, ~HandBack, HeldToItsHost, Next
  PROVE  ComparedOnly'
<1>1. PeerKinds /\ NoneIsNone
  BY KindsAre, NoneIsNoneOfThem
<1> USE DEF Unmoved, Same, SameInbox, SameFrame, SameRole, SameLatch, SameWord, SameVisit, SameBody,
           SameLobby, SameSeats, Lasting, HeldToItsHost, FrameOrder, Handshaking, Following,
           RolesFollowLobbies, StateFollowsRoles, SeatsAreHosts, FromThisHost, FromHost, FromClients, Joining,
           RoleInALobby, RoleAlone, Adopts, Ends, Clean, ComparedOnly, Arrives, Hosting, PeerKinds, NoneIsNone
<1>2. CASE AskForALobby
  BY <1>1, <1>2, AskIs
<1>3. CASE Promoted
  BY <1>1, <1>3, PromotedIs
<1>4. CASE LobbyGoes
  BY <1>1, <1>4, LobbyGoesIs
<1>5. ASSUME NEW why \in {"reconnect", "successor"}, LoseHost(why) PROVE ComparedOnly'
  BY <1>1, <1>5, LoseHostIs
<1>6. CASE FindHost
  BY <1>1, <1>6, FindHostIs
<1>7. CASE ChangeHost
  BY <1>1, <1>7, ChangeHostIs
<1>8. CASE HostSays
  BY <1>1, <1>8, HostSaysIs
<1>9. CASE HostWelcomes
  BY <1>1, <1>9, HostWelcomesIs
<1>10. CASE SnapshotArrives
  BY <1>1, <1>10, SnapshotArrivesIs
<1>11. ASSUME NEW c \in Client, ClientJoins(c) PROVE ComparedOnly'
  BY <1>1, <1>11, ClientJoinsIs
<1>12. ASSUME NEW c \in Client, ClientSays(c) PROVE ComparedOnly'
  BY <1>1, <1>12, ClientSaysIs
<1>13. ASSUME NEW c \in Client, ClientGoes(c) PROVE ComparedOnly'
  BY <1>1, <1>13, ClientGoesIs
<1>14. ASSUME NEW what \in {"StartSolo", "EndSession"}, PlayerAsks(what) PROVE ComparedOnly'
  BY <1>1, <1>14, PlayerAsksIs
<1>15. CASE PreUpdate
  BY <1>1, <1>15, PreUpdateStep
<1>16. CASE StateTransition /\ ~FollowsTheRoles(app)
  BY <1>1, <1>16, ShutStep DEF DoorStep
<1>17. CASE StateTransition /\ FollowsTheRoles(app)
  BY <1>1, <1>17, TurnStep DEF DoorStep
<1>18. CASE LoopPass
  BY <1>1, <1>18, LoopPassStep
<1>19. CASE NoPass \/ NextFrame
  BY <1>1, <1>19, IdleStep
<1>20. CASE SessionChain
  BY <1>1, <1>20, SessionStep DEF SessionEffect, SameKept
<1>21. CASE HandshakeChain
  BY <1>1, <1>21, HandshakeStep DEF HandshakeEffect, SameShaken
<1> QED
  BY <1>2, <1>3, <1>4, <1>5, <1>6, <1>7, <1>8, <1>9, <1>10, <1>11, <1>12, <1>13, <1>14, <1>15, <1>16, <1>17,
     <1>18, <1>19, <1>20, <1>21 DEF Next, Frame, Environment

LEMMA ArrivesKept ==
  ASSUME Typed, Lasting, ~HandBack, HeldToItsHost, Next
  PROVE  Arrives'
<1>1. PeerKinds /\ NoneIsNone
  BY KindsAre, NoneIsNoneOfThem
<1> USE DEF Unmoved, Same, SameInbox, SameFrame, SameRole, SameLatch, SameWord, SameVisit, SameBody,
           SameLobby, SameSeats, Lasting, HeldToItsHost, FrameOrder, Handshaking, Following,
           RolesFollowLobbies, StateFollowsRoles, SeatsAreHosts, FromThisHost, FromHost, FromClients, Joining,
           RoleInALobby, RoleAlone, Adopts, Ends, Clean, StaleGoes, Stale, Ending, ComparedOnly, Arrives,
           FollowsTheRoles, PeerKinds, NoneIsNone
<1>2. CASE AskForALobby
  BY <1>1, <1>2, AskIs
<1>3. CASE Promoted
  BY <1>1, <1>3, PromotedIs
<1>4. CASE LobbyGoes
  BY <1>1, <1>4, LobbyGoesIs
<1>5. ASSUME NEW why \in {"reconnect", "successor"}, LoseHost(why) PROVE Arrives'
  BY <1>1, <1>5, LoseHostIs
<1>6. CASE FindHost
  BY <1>1, <1>6, FindHostIs
<1>7. CASE ChangeHost
  BY <1>1, <1>7, ChangeHostIs
<1>8. CASE HostSays
  BY <1>1, <1>8, HostSaysIs
<1>9. CASE HostWelcomes
  BY <1>1, <1>9, HostWelcomesIs
<1>10. CASE SnapshotArrives
  BY <1>1, <1>10, SnapshotArrivesIs
<1>11. ASSUME NEW c \in Client, ClientJoins(c) PROVE Arrives'
  BY <1>1, <1>11, ClientJoinsIs
<1>12. ASSUME NEW c \in Client, ClientSays(c) PROVE Arrives'
  BY <1>1, <1>12, ClientSaysIs
<1>13. ASSUME NEW c \in Client, ClientGoes(c) PROVE Arrives'
  BY <1>1, <1>13, ClientGoesIs
<1>14. ASSUME NEW what \in {"StartSolo", "EndSession"}, PlayerAsks(what) PROVE Arrives'
  BY <1>1, <1>14, PlayerAsksIs
<1>15. CASE PreUpdate
  BY <1>1, <1>15, PreUpdateStep
<1>16. CASE StateTransition /\ ~FollowsTheRoles(app)
  BY <1>1, <1>16, ShutStep DEF DoorStep
<1>17. CASE StateTransition /\ FollowsTheRoles(app)
  BY <1>1, <1>17, TurnStep DEF DoorStep
<1>18. CASE LoopPass
  BY <1>1, <1>18, LoopPassStep
<1>19. CASE NoPass \/ NextFrame
  BY <1>1, <1>19, IdleStep
<1>20. CASE SessionChain
  BY <1>1, <1>20, SessionStep DEF SessionEffect, SameKept
<1>21. CASE HandshakeChain
  BY <1>1, <1>21, HandshakeStep DEF HandshakeEffect, SameShaken
<1> QED
  BY <1>2, <1>3, <1>4, <1>5, <1>6, <1>7, <1>8, <1>9, <1>10, <1>11, <1>12, <1>13, <1>14, <1>15, <1>16, <1>17,
     <1>18, <1>19, <1>20, <1>21 DEF Next, Frame, Environment

LEMMA ItsWorldKept ==
  ASSUME Typed, Lasting, ~HandBack, HeldToItsHost, Next
  PROVE  ItsWorld'
<1>1. PeerKinds /\ NoneIsNone
  BY KindsAre, NoneIsNoneOfThem
<1> USE DEF Unmoved, Same, SameInbox, SameFrame, SameRole, SameLatch, SameWord, SameVisit, SameBody,
           SameLobby, SameSeats, Lasting, HeldToItsHost, FrameOrder, Handshaking, Following,
           RolesFollowLobbies, StateFollowsRoles, SeatsAreHosts, FromThisHost, FromHost, FromClients, Joining,
           RoleInALobby, RoleAlone, Adopts, Ends, Clean, Arrives, ItsWorld, Present, FollowsTheRoles,
           InSession, MaySpawn, PeerKinds, NoneIsNone
<1>2. CASE AskForALobby
  BY <1>1, <1>2, AskIs
<1>3. CASE Promoted
  BY <1>1, <1>3, PromotedIs
<1>4. CASE LobbyGoes
  BY <1>1, <1>4, LobbyGoesIs
<1>5. ASSUME NEW why \in {"reconnect", "successor"}, LoseHost(why) PROVE ItsWorld'
  BY <1>1, <1>5, LoseHostIs
<1>6. CASE FindHost
  BY <1>1, <1>6, FindHostIs
<1>7. CASE ChangeHost
  BY <1>1, <1>7, ChangeHostIs
<1>8. CASE HostSays
  BY <1>1, <1>8, HostSaysIs
<1>9. CASE HostWelcomes
  BY <1>1, <1>9, HostWelcomesIs
<1>10. CASE SnapshotArrives
  BY <1>1, <1>10, SnapshotArrivesIs
<1>11. ASSUME NEW c \in Client, ClientJoins(c) PROVE ItsWorld'
  BY <1>1, <1>11, ClientJoinsIs
<1>12. ASSUME NEW c \in Client, ClientSays(c) PROVE ItsWorld'
  BY <1>1, <1>12, ClientSaysIs
<1>13. ASSUME NEW c \in Client, ClientGoes(c) PROVE ItsWorld'
  BY <1>1, <1>13, ClientGoesIs
<1>14. ASSUME NEW what \in {"StartSolo", "EndSession"}, PlayerAsks(what) PROVE ItsWorld'
  BY <1>1, <1>14, PlayerAsksIs
<1>15. CASE PreUpdate
  BY <1>1, <1>15, PreUpdateStep
<1>16. CASE StateTransition /\ ~FollowsTheRoles(app)
  BY <1>1, <1>16, ShutStep DEF DoorStep
<1>17. CASE StateTransition /\ FollowsTheRoles(app)
  BY <1>1, <1>17, TurnStep DEF DoorStep
<1>18. CASE LoopPass
  BY <1>1, <1>18, LoopPassStep
<1>19. CASE NoPass \/ NextFrame
  BY <1>1, <1>19, IdleStep
<1>20. CASE SessionChain
  BY <1>1, <1>20, SessionStep DEF SessionEffect, SameKept
<1>21. CASE HandshakeChain
  BY <1>1, <1>21, HandshakeStep DEF HandshakeEffect, SameShaken
<1> QED
  BY <1>2, <1>3, <1>4, <1>5, <1>6, <1>7, <1>8, <1>9, <1>10, <1>11, <1>12, <1>13, <1>14, <1>15, <1>16, <1>17,
     <1>18, <1>19, <1>20, <1>21 DEF Next, Frame, Environment

LEMMA ItsSlotKept ==
  ASSUME Typed, Lasting, ~HandBack, HeldToItsHost, Next
  PROVE  ItsSlot'
<1>1. PeerKinds /\ NoneIsNone
  BY KindsAre, NoneIsNoneOfThem
<1> USE DEF Unmoved, Same, SameInbox, SameFrame, SameRole, SameLatch, SameWord, SameVisit, SameBody,
           SameLobby, SameSeats, Lasting, HeldToItsHost, FrameOrder, Handshaking, Following,
           RolesFollowLobbies, StateFollowsRoles, SeatsAreHosts, FromThisHost, FromHost, FromClients, Joining,
           RoleInALobby, RoleAlone, Adopts, Ends, Clean, StaleGoes, Stale, Ending, ItsSlot, Present,
           FollowsTheRoles, Word, PeerKinds, NoneIsNone
<1>2. CASE AskForALobby
  BY <1>1, <1>2, AskIs
<1>3. CASE Promoted
  BY <1>1, <1>3, PromotedIs
<1>4. CASE LobbyGoes
  BY <1>1, <1>4, LobbyGoesIs
<1>5. ASSUME NEW why \in {"reconnect", "successor"}, LoseHost(why) PROVE ItsSlot'
  BY <1>1, <1>5, LoseHostIs
<1>6. CASE FindHost
  BY <1>1, <1>6, FindHostIs
<1>7. CASE ChangeHost
  BY <1>1, <1>7, ChangeHostIs
<1>8. CASE HostSays
  BY <1>1, <1>8, HostSaysIs
<1>9. CASE HostWelcomes
  BY <1>1, <1>9, HostWelcomesIs
<1>10. CASE SnapshotArrives
  BY <1>1, <1>10, SnapshotArrivesIs
<1>11. ASSUME NEW c \in Client, ClientJoins(c) PROVE ItsSlot'
  BY <1>1, <1>11, ClientJoinsIs
<1>12. ASSUME NEW c \in Client, ClientSays(c) PROVE ItsSlot'
  BY <1>1, <1>12, ClientSaysIs
<1>13. ASSUME NEW c \in Client, ClientGoes(c) PROVE ItsSlot'
  BY <1>1, <1>13, ClientGoesIs
<1>14. ASSUME NEW what \in {"StartSolo", "EndSession"}, PlayerAsks(what) PROVE ItsSlot'
  BY <1>1, <1>14, PlayerAsksIs
<1>15. CASE PreUpdate
  BY <1>1, <1>15, PreUpdateStep
<1>16. CASE StateTransition /\ ~FollowsTheRoles(app)
  BY <1>1, <1>16, ShutStep DEF DoorStep
<1>17. CASE StateTransition /\ FollowsTheRoles(app)
  BY <1>1, <1>17, TurnStep DEF DoorStep
<1>18. CASE LoopPass
  BY <1>1, <1>18, LoopPassStep
<1>19. CASE NoPass \/ NextFrame
  BY <1>1, <1>19, IdleStep
<1>20. CASE SessionChain
  BY <1>1, <1>20, SessionStep DEF SessionEffect, SameKept
<1>21. CASE HandshakeChain
  BY <1>1, <1>21, HandshakeStep DEF HandshakeEffect, SameShaken
<1> QED
  BY <1>2, <1>3, <1>4, <1>5, <1>6, <1>7, <1>8, <1>9, <1>10, <1>11, <1>12, <1>13, <1>14, <1>15, <1>16, <1>17,
     <1>18, <1>19, <1>20, <1>21 DEF Next, Frame, Environment

LEMMA SlotsFollowSeatsKept ==
  ASSUME Typed, Lasting, ~HandBack, HeldToItsHost, Next
  PROVE  SlotsFollowSeats'
<1>1. PeerKinds /\ NoneIsNone
  BY KindsAre, NoneIsNoneOfThem
<1> USE DEF Unmoved, Same, SameInbox, SameFrame, SameRole, SameLatch, SameWord, SameVisit, SameBody,
           SameLobby, SameSeats, Lasting, HeldToItsHost, FrameOrder, Handshaking, Following,
           RolesFollowLobbies, StateFollowsRoles, SeatsAreHosts, FromThisHost, FromHost, FromClients, Joining,
           RoleInALobby, RoleAlone, Adopts, Ends, Clean, SlotsFollowSeats, FollowsTheRoles, Hosting,
           SeatsOrVerified, PeerKinds, NoneIsNone
<1>2. CASE AskForALobby
  BY <1>1, <1>2, AskIs
<1>3. CASE Promoted
  BY <1>1, <1>3, PromotedIs
<1>4. CASE LobbyGoes
  BY <1>1, <1>4, LobbyGoesIs
<1>5. ASSUME NEW why \in {"reconnect", "successor"}, LoseHost(why) PROVE SlotsFollowSeats'
  BY <1>1, <1>5, LoseHostIs
<1>6. CASE FindHost
  BY <1>1, <1>6, FindHostIs
<1>7. CASE ChangeHost
  BY <1>1, <1>7, ChangeHostIs
<1>8. CASE HostSays
  BY <1>1, <1>8, HostSaysIs
<1>9. CASE HostWelcomes
  BY <1>1, <1>9, HostWelcomesIs
<1>10. CASE SnapshotArrives
  BY <1>1, <1>10, SnapshotArrivesIs
<1>11. ASSUME NEW c \in Client, ClientJoins(c) PROVE SlotsFollowSeats'
  BY <1>1, <1>11, ClientJoinsIs
<1>12. ASSUME NEW c \in Client, ClientSays(c) PROVE SlotsFollowSeats'
  BY <1>1, <1>12, ClientSaysIs
<1>13. ASSUME NEW c \in Client, ClientGoes(c) PROVE SlotsFollowSeats'
  BY <1>1, <1>13, ClientGoesIs
<1>14. ASSUME NEW what \in {"StartSolo", "EndSession"}, PlayerAsks(what) PROVE SlotsFollowSeats'
  BY <1>1, <1>14, PlayerAsksIs
<1>15. CASE PreUpdate
  BY <1>1, <1>15, PreUpdateStep
<1>16. CASE StateTransition /\ ~FollowsTheRoles(app)
  BY <1>1, <1>16, ShutStep DEF DoorStep
<1>17. CASE StateTransition /\ FollowsTheRoles(app)
  BY <1>1, <1>17, TurnStep DEF DoorStep
<1>18. CASE LoopPass
  BY <1>1, <1>18, LoopPassStep
<1>19. CASE NoPass \/ NextFrame
  BY <1>1, <1>19, IdleStep
<1>20. CASE SessionChain
  BY <1>1, <1>20, SessionStep DEF SessionEffect, SameKept
<1>21. CASE HandshakeChain
  BY <1>1, <1>21, HandshakeStep DEF HandshakeEffect, SameShaken
<1> QED
  BY <1>2, <1>3, <1>4, <1>5, <1>6, <1>7, <1>8, <1>9, <1>10, <1>11, <1>12, <1>13, <1>14, <1>15, <1>16, <1>17,
     <1>18, <1>19, <1>20, <1>21 DEF Next, Frame, Environment

(* A slot is one client's at a time: in any session, whatever its host. *)
LEMMA OneHolderKept ==
  ASSUME Typed, OneHolder(app), Next
  PROVE  OneHolder(app)'
<1> USE DEF OneHolder, SameSeats
<1>2. CASE AskForALobby
  BY <1>2, AskIs
<1>3. CASE Promoted
  BY <1>3, PromotedIs
<1>4. CASE LobbyGoes
  BY <1>4, LobbyGoesIs
<1>5. ASSUME NEW why \in {"reconnect", "successor"}, LoseHost(why) PROVE OneHolder(app)'
  BY <1>5, LoseHostIs
<1>6. CASE FindHost
  BY <1>6, FindHostIs
<1>7. CASE ChangeHost
  BY <1>7, ChangeHostIs
<1>8. CASE HostSays
  BY <1>8, HostSaysIs
<1>9. CASE HostWelcomes
  BY <1>9, HostWelcomesIs
<1>10. CASE SnapshotArrives
  BY <1>10, SnapshotArrivesIs
<1>11. ASSUME NEW c \in Client, ClientJoins(c) PROVE OneHolder(app)'
  BY <1>11, ClientJoinsIs
<1>12. ASSUME NEW c \in Client, ClientSays(c) PROVE OneHolder(app)'
  BY <1>12, ClientSaysIs
<1>13. ASSUME NEW c \in Client, ClientGoes(c) PROVE OneHolder(app)'
  BY <1>13, ClientGoesIs
<1>14. ASSUME NEW what \in {"StartSolo", "EndSession"}, PlayerAsks(what) PROVE OneHolder(app)'
  BY <1>14, PlayerAsksIs
<1>15. CASE PreUpdate
  BY <1>15, PreUpdateStep
<1>16. CASE StateTransition /\ ~FollowsTheRoles(app)
  BY <1>16, ShutStep DEF DoorStep
<1>17. CASE StateTransition /\ FollowsTheRoles(app)
  BY <1>17, TurnStep DEF DoorStep
<1>18. CASE LoopPass
  BY <1>18, LoopPassStep
<1>19. CASE NoPass \/ NextFrame
  BY <1>19, IdleStep
<1>20. CASE SessionChain
  BY <1>20, SessionStep DEF SessionEffect, SameKept
<1>21. CASE HandshakeChain
  BY <1>21, HandshakeStep DEF HandshakeEffect, KeepsHolders
<1> QED
  BY <1>2, <1>3, <1>4, <1>5, <1>6, <1>7, <1>8, <1>9, <1>10, <1>11, <1>12, <1>13, <1>14, <1>15, <1>16, <1>17,
     <1>18, <1>19, <1>20, <1>21 DEF Next, Frame, Environment

LEMMA HeldInit ==
  ASSUME Init
  PROVE  HeldToItsHost
<1>1. NoneIsNone
  BY TypedInit, NoneIsNoneOfThem
<1>2. NothingIsKept /\ AloneIsFresh
  BY FreshIs DEF NothingIsKept, AloneIsFresh, Said, FromHost, FromClients, Following
<1>3. StaleGoes /\ ComparedOnly
  BY FreshIs DEF StaleGoes, Stale, ComparedOnly
<1>4. Arrives /\ ItsWorld /\ ItsSlot /\ SlotsFollowSeats
  BY <1>1, FreshIs DEF Arrives, ItsWorld, ItsSlot, Present, SlotsFollowSeats, NoneIsNone
<1> QED
  BY <1>2, <1>3, <1>4 DEF HeldToItsHost

LEMMA SameHeld ==
  ASSUME HeldToItsHost, UNCHANGED vars
  PROVE  HeldToItsHost'
<1>1. UNCHANGED <<app, host, told, inbox, phase, chains, settled, compared, synced, faults, news>>
  BY DEF vars
<1>2. Senders' = Senders
  BY <1>1 DEF Senders
<1>3. NothingIsKept' /\ AloneIsFresh'
  BY <1>1, <1>2 DEF HeldToItsHost, NothingIsKept, AloneIsFresh, Said, Ending, FromHost, FromClients, Following
<1>4. StaleGoes' /\ ComparedOnly'
  BY <1>1 DEF HeldToItsHost, StaleGoes, Stale, ComparedOnly, Ending, Following
<1>5. Arrives' /\ ItsWorld' /\ ItsSlot' /\ SlotsFollowSeats'
  BY <1>1 DEF HeldToItsHost, Arrives, ItsWorld, ItsSlot, Present, SlotsFollowSeats
<1> QED
  BY <1>3, <1>4, <1>5 DEF HeldToItsHost

LEMMA HeldKept ==
  ASSUME ~HandBack, Typed, Lasting, HeldToItsHost, [Next]_vars
  PROVE  HeldToItsHost'
<1>1. CASE Next
  BY <1>1, NothingIsKeptKept, StaleGoesKept, AloneIsFreshKept, ComparedOnlyKept, ArrivesKept, ItsWorldKept,
     ItsSlotKept, SlotsFollowSeatsKept DEF HeldToItsHost
<1>2. CASE UNCHANGED vars
  BY <1>2, SameHeld
<1> QED
  BY <1>1, <1>2

(* As long as no lobby goes from under a game played alone before it gave a role,   *)
(* no world is built from the words of a host that was not compared and found to    *)
(* match, and a client's world is its present host's: whatever order announcements, *)
(* welcomes and snapshots arrive in, and however often the host changes between     *)
(* them (check_registry and the gate in forward_received_snapshots).                *)
THEOREM NoWorldOfAnother == ASSUME ~HandBack PROVE Spec => []OnlyTheComparedHostsWord
<1>1. Init => Typed /\ Lasting /\ HeldToItsHost
  BY TypedInit, LastingInit, HeldInit
<1>2. Typed /\ Lasting /\ HeldToItsHost /\ [Next]_vars => Typed' /\ Lasting' /\ HeldToItsHost'
  BY TypedKept, LastingKept, HeldKept
<1>3. HeldToItsHost => OnlyTheComparedHostsWord
  BY DEF HeldToItsHost, ComparedOnly, ItsWorld, OnlyTheComparedHostsWord
<1> QED
  BY <1>1, <1>2, <1>3, PTL DEF Spec

(* Under the same condition a slot is one peer's at a time on both ends of the link: *)
(* a client mints in the slot its present host gave it or in none, a host's slots    *)
(* are those of its verified clients, and no two clients hold one (apply_welcome,    *)
(* enter_client and leave_role, SpawnerSlots::assign and forget_departed_client).    *)
THEOREM OneSlotOneHolder == ASSUME ~HandBack PROVE Spec => []SlotsInStep
<1>1. Init => Typed /\ Lasting /\ HeldToItsHost /\ OneHolder(app)
  <2>1. Init => OneHolder(app)
    BY FreshIs DEF OneHolder
  <2> QED
    BY <2>1, TypedInit, LastingInit, HeldInit
<1>2. /\ Typed /\ Lasting /\ HeldToItsHost /\ OneHolder(app) /\ [Next]_vars
      => Typed' /\ Lasting' /\ HeldToItsHost' /\ OneHolder(app)'
  <2>1. OneHolder(app) /\ UNCHANGED vars => OneHolder(app)'
    BY DEF vars, OneHolder
  <2> QED
    BY <2>1, TypedKept, LastingKept, HeldKept, OneHolderKept
<1>3. Typed /\ HeldToItsHost /\ OneHolder(app) => SlotsInStep
  <2> SUFFICES ASSUME Typed, HeldToItsHost, OneHolder(app) PROVE SlotsInStep
    OBVIOUS
  <2>1. app.state \in {"offline", "solo", "host", "client"}
    BY KindsAre DEF PeerKinds
  <2>2. SlotOfItsHost
    BY <2>1 DEF HeldToItsHost, ItsSlot, SlotOfItsHost
  <2>3. OneHolderEach
    BY DEF OneHolder, OneHolderEach
  <2> QED
    BY <2>2, <2>3 DEF HeldToItsHost, SlotsInStep
<1> QED
  BY <1>1, <1>2, <1>3, PTL DEF Spec

-----------------------------------------------------------------------------
(* And from here on with no link lost between a role and its door. *)

(* A client whose host is out of reach is held, or is yet to be. *)
OutOfReach ==
  /\ app.awaiting # None => inbox.snapshot = None \/ settled = 0
  /\ app.awaiting # None /\ app.role = "client" /\ app.state # "client" => inbox.snapshot = None /\ app.pending = None
  /\ Present /\ app.awaiting # None =>
       "AwaitingHost" \in app.holds \/ ("AwaitingSync" \in app.holds /\ app.pending = None /\ inbox.snapshot = None)
  /\ Present /\ app.awaiting = "newHost" =>
       "AwaitingSync" \in app.holds /\ app.pending = None /\ inbox.snapshot = None

(* A client that is not held for its world has it. *)
Synced ==
  Present /\ Joining /\ "AwaitingSync" \notin app.holds =>
    app.world = {host.epoch} /\ (app.awaiting = None => synced)

HeldUntilHeard == OutOfReach /\ Synced

LEMMA OutOfReachKept ==
  ASSUME Typed, Lasting, ~HandBack, ~LossAtTheDoor, HeldToItsHost, HeldUntilHeard, Next
  PROVE  OutOfReach'
<1>1. PeerKinds /\ NoneIsNone
  BY KindsAre, NoneIsNoneOfThem
<1> USE DEF Unmoved, Same, SameInbox, SameFrame, SameRole, SameLatch, SameWord, SameVisit, SameBody,
           SameLobby, SameSeats, Lasting, HeldToItsHost, HeldUntilHeard, FrameOrder, Handshaking, Following,
           RolesFollowLobbies, StateFollowsRoles, FromThisHost, FromHost, Joining, RoleInALobby, RoleAlone,
           Adopts, Ends, Clean, OutOfReach, Present, FollowsTheRoles, PeerKinds, NoneIsNone
<1>2. CASE AskForALobby
  BY <1>1, <1>2, AskIs
<1>3. CASE Promoted
  BY <1>1, <1>3, PromotedIs
<1>4. CASE LobbyGoes
  BY <1>1, <1>4, LobbyGoesIs
<1>5. ASSUME NEW why \in {"reconnect", "successor"}, LoseHost(why) PROVE OutOfReach'
  BY <1>1, <1>5, LoseHostIs
<1>6. CASE FindHost
  BY <1>1, <1>6, FindHostIs
<1>7. CASE ChangeHost
  BY <1>1, <1>7, ChangeHostIs
<1>8. CASE HostSays
  BY <1>1, <1>8, HostSaysIs
<1>9. CASE HostWelcomes
  BY <1>1, <1>9, HostWelcomesIs
<1>10. CASE SnapshotArrives
  BY <1>1, <1>10, SnapshotArrivesIs
<1>11. ASSUME NEW c \in Client, ClientJoins(c) PROVE OutOfReach'
  BY <1>1, <1>11, ClientJoinsIs
<1>12. ASSUME NEW c \in Client, ClientSays(c) PROVE OutOfReach'
  BY <1>1, <1>12, ClientSaysIs
<1>13. ASSUME NEW c \in Client, ClientGoes(c) PROVE OutOfReach'
  BY <1>1, <1>13, ClientGoesIs
<1>14. ASSUME NEW what \in {"StartSolo", "EndSession"}, PlayerAsks(what) PROVE OutOfReach'
  BY <1>1, <1>14, PlayerAsksIs
<1>15. CASE PreUpdate
  BY <1>1, <1>15, PreUpdateStep
<1>16. CASE StateTransition /\ ~FollowsTheRoles(app)
  BY <1>1, <1>16, ShutStep DEF DoorStep
<1>17. CASE StateTransition /\ FollowsTheRoles(app)
  BY <1>1, <1>17, TurnStep DEF DoorStep
<1>18. CASE LoopPass
  BY <1>1, <1>18, LoopPassStep
<1>19. CASE NoPass \/ NextFrame
  BY <1>1, <1>19, IdleStep
<1>20. CASE SessionChain
  BY <1>1, <1>20, SessionStep DEF SessionEffect, SameKept
<1>21. CASE HandshakeChain
  BY <1>1, <1>21, HandshakeStep DEF HandshakeEffect, SameShaken
<1> QED
  BY <1>2, <1>3, <1>4, <1>5, <1>6, <1>7, <1>8, <1>9, <1>10, <1>11, <1>12, <1>13, <1>14, <1>15, <1>16, <1>17,
     <1>18, <1>19, <1>20, <1>21 DEF Next, Frame, Environment

LEMMA SyncedKept ==
  ASSUME Typed, Lasting, ~HandBack, ~LossAtTheDoor, HeldToItsHost, HeldUntilHeard, Next
  PROVE  Synced'
<1>1. PeerKinds /\ NoneIsNone
  BY KindsAre, NoneIsNoneOfThem
<1> USE DEF Unmoved, Same, SameInbox, SameFrame, SameRole, SameLatch, SameWord, SameVisit, SameBody,
           SameLobby, SameSeats, Lasting, HeldToItsHost, HeldUntilHeard, FrameOrder, Handshaking, Following,
           RolesFollowLobbies, StateFollowsRoles, FromThisHost, FromHost, Joining, RoleInALobby, RoleAlone,
           Adopts, Ends, Clean, Arrives, ItsWorld, OutOfReach, Synced, Present, FollowsTheRoles, InSession,
           MaySpawn, PeerKinds, NoneIsNone
<1>2. CASE AskForALobby
  BY <1>1, <1>2, AskIs
<1>3. CASE Promoted
  BY <1>1, <1>3, PromotedIs
<1>4. CASE LobbyGoes
  BY <1>1, <1>4, LobbyGoesIs
<1>5. ASSUME NEW why \in {"reconnect", "successor"}, LoseHost(why) PROVE Synced'
  BY <1>1, <1>5, LoseHostIs
<1>6. CASE FindHost
  BY <1>1, <1>6, FindHostIs
<1>7. CASE ChangeHost
  BY <1>1, <1>7, ChangeHostIs
<1>8. CASE HostSays
  BY <1>1, <1>8, HostSaysIs
<1>9. CASE HostWelcomes
  BY <1>1, <1>9, HostWelcomesIs
<1>10. CASE SnapshotArrives
  BY <1>1, <1>10, SnapshotArrivesIs
<1>11. ASSUME NEW c \in Client, ClientJoins(c) PROVE Synced'
  BY <1>1, <1>11, ClientJoinsIs
<1>12. ASSUME NEW c \in Client, ClientSays(c) PROVE Synced'
  BY <1>1, <1>12, ClientSaysIs
<1>13. ASSUME NEW c \in Client, ClientGoes(c) PROVE Synced'
  BY <1>1, <1>13, ClientGoesIs
<1>14. ASSUME NEW what \in {"StartSolo", "EndSession"}, PlayerAsks(what) PROVE Synced'
  BY <1>1, <1>14, PlayerAsksIs
<1>15. CASE PreUpdate
  BY <1>1, <1>15, PreUpdateStep
<1>16. CASE StateTransition /\ ~FollowsTheRoles(app)
  BY <1>1, <1>16, ShutStep DEF DoorStep
<1>17. CASE StateTransition /\ FollowsTheRoles(app)
  BY <1>1, <1>17, TurnStep DEF DoorStep
<1>18. CASE LoopPass
  BY <1>1, <1>18, LoopPassStep
<1>19. CASE NoPass \/ NextFrame
  BY <1>1, <1>19, IdleStep
<1>20. CASE SessionChain
  BY <1>1, <1>20, SessionStep DEF SessionEffect, SameKept
<1>21. CASE HandshakeChain
  BY <1>1, <1>21, HandshakeStep DEF HandshakeEffect, SameShaken
<1> QED
  BY <1>2, <1>3, <1>4, <1>5, <1>6, <1>7, <1>8, <1>9, <1>10, <1>11, <1>12, <1>13, <1>14, <1>15, <1>16, <1>17,
     <1>18, <1>19, <1>20, <1>21 DEF Next, Frame, Environment

LEMMA HeldUntilInit ==
  ASSUME Init
  PROVE  HeldUntilHeard
<1>1. ~Present
  BY FreshIs DEF Present
<1>2. app.awaiting = None
  BY FreshIs
<1> QED
  BY <1>1, <1>2 DEF HeldUntilHeard, OutOfReach, Synced

LEMMA SameHeldUntil ==
  ASSUME HeldUntilHeard, UNCHANGED vars
  PROVE  HeldUntilHeard'
<1>1. UNCHANGED <<app, host, told, inbox, phase, chains, settled, compared, synced, faults, news>>
  BY DEF vars
<1>2. OutOfReach'
  BY <1>1 DEF HeldUntilHeard, OutOfReach, Present
<1>3. Synced'
  BY <1>1 DEF HeldUntilHeard, Synced, Present, Joining
<1> QED
  BY <1>2, <1>3 DEF HeldUntilHeard

LEMMA HeldUntilKept ==
  ASSUME ~HandBack, ~LossAtTheDoor, Typed, Lasting, HeldToItsHost, HeldUntilHeard, [Next]_vars
  PROVE  HeldUntilHeard'
<1>1. CASE Next
  BY <1>1, OutOfReachKept, SyncedKept DEF HeldUntilHeard
<1>2. CASE UNCHANGED vars
  BY <1>2, SameHeldUntil
<1> QED
  BY <1>1, <1>2

(* From the loop to the update a frame only runs its pass, or makes none. *)
LEMMA LoopIsPassed ==
  ASSUME Next, phase = "loop", phase' = "update"
  PROVE  LoopPass \/ NoPass
BY DEF Next, Frame, Environment, AskForALobby, Promoted, LobbyGoes, LoseHost, FindHost, ChangeHost, HostSays,
   HostWelcomes, SnapshotArrives, ClientJoins, ClientSays, ClientGoes, PlayerAsks, PreUpdate, StateTransition,
   SessionChain, HandshakeChain, NextFrame

(* The pass of a frame, made or not, leaves a client that plays one that plays. *)
LEMMA PassStays ==
  ASSUME Typed, Lasting, LoopPass \/ NoPass, app'.state = "client"
  PROVE  Present'
<1>1. app.state = app.role /\ ~app.fresh /\ inbox.change = None
  <2>1. phase = "loop"
    BY DEF LoopPass, NoPass
  <2> QED
    BY <2>1 DEF Lasting, FrameOrder
<1>2. inbox' = inbox
  BY DEF LoopPass, NoPass
<1>3. CASE LoopPass
  BY <1>1, <1>2, <1>3, LoopPassStep DEF SameRole, Present
<1>4. CASE NoPass
  BY <1>1, <1>2, <1>4 DEF NoPass, Present
<1> QED
  BY <1>3, <1>4

(* Under these conditions a client whose clock runs ticks in its host's world: what *)
(* stands there is the work of the host it follows now and of no other, that host   *)
(* is within reach, and a snapshot was put in place since it last was not: through  *)
(* every lost link, return, migration and change of hosts (the AwaitingSync hold    *)
(* that enter_client takes and the first snapshot releases, and the AwaitingHost    *)
(* hold of hold_while_the_host_is_out_of_reach).                                    *)
THEOREM TicksInItsHostsWorld ==
  ASSUME ~HandBack, ~LossAtTheDoor
  PROVE  Spec => ClientTicksInItsHostsWorld
<1>1. Init => Typed /\ Lasting /\ HeldToItsHost /\ HeldUntilHeard
  BY TypedInit, LastingInit, HeldInit, HeldUntilInit
<1>2. /\ Typed /\ Lasting /\ HeldToItsHost /\ HeldUntilHeard /\ [Next]_vars
      => Typed' /\ Lasting' /\ HeldToItsHost' /\ HeldUntilHeard'
  BY TypedKept, LastingKept, HeldKept, HeldUntilKept
<1>3. Typed /\ Lasting /\ HeldToItsHost /\ HeldUntilHeard /\ [Next]_vars
      => [phase = "loop" /\ phase' = "update" /\ app'.state = "client" /\ app'.holds = {} /\ Joining
          => app'.world = {host.epoch} /\ app'.awaiting = None /\ synced']_vars
  <2> SUFFICES ASSUME Typed, Lasting, HeldToItsHost, HeldUntilHeard, Next,
                      phase = "loop", phase' = "update", app'.state = "client", app'.holds = {}, Joining
               PROVE  app'.world = {host.epoch} /\ app'.awaiting = None /\ synced'
    OBVIOUS
  <2>1. LoopPass \/ NoPass
    BY LoopIsPassed
  <2>2. Present'
    BY <2>1, PassStays
  <2>3. host' = host
    BY <2>1 DEF LoopPass, NoPass
  <2>4. Joining'
    <3>1. CASE LoopPass
      BY <3>1, LoopPassStep DEF SameLobby, Joining
    <3>2. CASE NoPass
      BY <3>2 DEF NoPass, Joining
    <3> QED
      BY <2>1, <3>1, <3>2
  <2>5. OutOfReach' /\ Synced'
    BY OutOfReachKept, SyncedKept
  <2>6. app'.awaiting = None
    BY <2>2, <2>5 DEF OutOfReach
  <2> QED
    BY <2>2, <2>3, <2>4, <2>5, <2>6 DEF Synced
<1> QED
  BY <1>1, <1>2, <1>3, PTL DEF Spec, ClientTicksInItsHostsWorld

=============================================================================
