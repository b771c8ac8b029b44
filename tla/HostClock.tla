---------------------------- MODULE HostClock ----------------------------
(* The clock of a host, frame by frame: real time is turned into passes of the
   tick loop, a long frame or several make the host pause the session on its
   own, and the player, the participants and the game ask for pauses and
   resumes through Bevy's messages. Time is counted in units smaller than a
   tick. A frame is

     First        BeginFrame                      messages age, time advances
     PreUpdate    DetectRealGap, PauseWhenBehind, DropDisallowed, and in any
                  place among them Request, FocusChange and the steps by hand
     the loop     EnterLoop, Pass, LeaveLoop
     Update       Ask, Hold, Switch                                           *)
EXTENDS Integers, FiniteSets

CONSTANTS
  FrameLengths,     \* what a frame may take
  Step,             \* the timestep of Time<Ticked>
  FixedStep,        \* the timestep of Time<Fixed>
  MaxDelta,         \* Time<Virtual>::max_delta
  MaxTicks,         \* MaxTicksPerFrame
  Gap,              \* PausePolicy::auto_pause_after_real_gap
  Threshold,        \* PausePolicy::auto_pause_when_behind_frames
  SendEvery,        \* broadcasts are of ticks that are a multiple of it
  HeldEvery,        \* HELD_BROADCAST_EVERY
  Window,           \* HistoryBufferTicks
  ByHand,           \* the manual steps the player takes
  Focus,            \* PausePolicy::auto_pause_on_focus_loss, and a window
  None,
  MaxTick,          \* bound: from this tick on a frame begins only under a pause
  MaxTurns          \* bound: requests, holds, switches, focus changes and steps by hand

Automatic == {"HostUnfocused", "HostStalled", "HostTooSlow"}
Asked     == {"Host", "Participant"}
Reasons   == Automatic \cup Asked
Budget    == Step * MaxTicks
Ticks     == 0..(MaxTick + 2 * MaxTicks + 2)

ASSUME Bounds ==
  /\ Step \in Nat \ {0} /\ FixedStep \in Nat \ {0} /\ MaxTicks \in Nat \ {0}
  /\ Threshold \in Nat \ {0} /\ SendEvery \in Nat \ {0} /\ HeldEvery \in Nat \ {0}
  /\ Gap \in Nat /\ Window \in Nat /\ MaxDelta \in Nat /\ FrameLengths \subseteq Nat \ {0}
  /\ ByHand \subseteq {"forward", "back"} /\ Focus \in BOOLEAN /\ MaxTick \in Nat
  /\ MaxTurns \in Nat /\ None \notin Reasons

VARIABLES
  phase,        \* where the frame is
  length,       \* Time<Real>::delta of this frame
  owed,         \* overstep of Time<Ticked>
  fixedOwed,    \* overstep of Time<Fixed>
  ran,          \* passes of this frame
  tick,         \* CurrentTick
  pause,        \* SessionPause: None or at which tick and why
  past,         \* its history, by tick
  auto,         \* AutoPaused
  allowed,      \* PausePolicy::automatic_pauses
  behind,       \* HostBehind, up to Threshold
  manual,       \* the game's own hold
  held,         \* the hold for SessionPause
  passesHeld,   \* PassesHeld
  focused,      \* the window
  fresh, stale, \* PauseSession and ResumeSession: this update's and the last's
  due,          \* whether the messages age at the next frame
  told,         \* history: the pause the last snapshot carried
  wanted,       \* history: somebody asked for a pause, and nobody for a resume since
  lost,         \* history: what this frame was not run for
  unheard,      \* history: a request grew too old to be read
  turns         \* bound

vars == <<phase, length, owed, fixedOwed, ran, tick, pause, past, auto, allowed,
          behind, manual, held, passesHeld, focused, fresh, stale, due, told,
          wanted, lost, unheard, turns>>

clock == <<owed, fixedOwed, ran, tick, past, held, passesHeld, told, lost>>
mail  == <<stale, due, unheard>>

-----------------------------------------------------------------------------
(* Messages. Of the pauses in a buffer only the last counts, and of the
   resumes whether there is one; who wrote them is kept for the properties. *)
Empty == [pause |-> None, asks |-> FALSE, resumes |-> {}]

Mails == [pause: Reasons \cup {None}, asks: BOOLEAN, resumes: SUBSET {"asked", "own"}]

WritePause(box, reason) ==
  [box EXCEPT !.pause = reason, !.asks = @ \/ reason \in Asked]

WriteResume(box, who) == [box EXCEPT !.resumes = @ \cup {who}]

(* What a reader that drains finds. *)
Drained ==
  [pause |-> IF fresh.pause # None THEN fresh.pause ELSE stale.pause,
   asks |-> fresh.asks \/ stale.asks,
   resumes |-> fresh.resumes \cup stale.resumes]

-----------------------------------------------------------------------------
Min2(a, b) == IF a < b THEN a ELSE b

FlagsOK ==
  /\ allowed \in BOOLEAN /\ manual \in BOOLEAN /\ held \in BOOLEAN /\ focused \in BOOLEAN
  /\ due \in BOOLEAN /\ wanted \in BOOLEAN /\ unheard \in BOOLEAN

TypeOK ==
  /\ phase \in {"pre", "watched", "counted", "ready", "loop", "update"}
  /\ length \in FrameLengths \cup {0}
  /\ owed \in 0..(Step + MaxDelta) /\ fixedOwed \in 0..(FixedStep - 1)
  /\ ran \in 0..MaxTicks /\ tick \in Ticks
  /\ pause \in [at: Ticks, reason: Reasons] \cup {None}
  /\ \A t \in Ticks: past[t] \in [at: Ticks, reason: Reasons] \cup {None}
  /\ auto \in Automatic \cup {None} /\ behind \in 0..Threshold
  /\ FlagsOK
  /\ passesHeld \in 0..HeldEvery /\ fresh \in Mails /\ stale \in Mails
  /\ told \in [at: Ticks, reason: Reasons] \cup {None} /\ lost \in Nat /\ turns \in 0..MaxTurns

Init ==
  /\ phase = "update" /\ length = 0
  /\ owed = 0 /\ fixedOwed = 0 /\ ran = 0 /\ tick = 0
  /\ pause = None /\ past = [t \in Ticks |-> None] /\ auto = None
  /\ allowed = TRUE /\ behind = 0 /\ manual = FALSE /\ held = FALSE
  /\ passesHeld = 0 /\ focused = TRUE
  /\ fresh = Empty /\ stale = Empty /\ due = FALSE
  /\ told = None
  /\ wanted = FALSE /\ lost = 0 /\ unheard = FALSE /\ turns = 0

(* First. Messages age only in the frame after a fixed step, and what nobody
   has read by its second update is gone. At the last tick the host runs no
   further unless it is paused there. *)
BeginFrame(d) ==
  /\ UNCHANGED turns
  /\ phase = "update"
  /\ tick < MaxTick \/ pause # None
  /\ phase' = "pre" /\ length' = d
  /\ IF due
       THEN /\ stale' = fresh /\ fresh' = Empty
            /\ unheard' = (unheard \/ stale # Empty)
       ELSE UNCHANGED <<stale, fresh, unheard>>
  /\ due' = FALSE /\ lost' = 0 /\ ran' = 0
  /\ UNCHANGED <<owed, fixedOwed, tick, pause, past, auto, allowed, behind, manual,
                 held, passesHeld, focused, told, wanted>>

InPreUpdate == phase \in {"pre", "watched", "counted", "ready"}

(* Raise and take back an automatic pause. The mutants do not note whose it is,
   and do not look at what is in force. *)
RaiseUnmarked(reason) ==
  /\ fresh' = WritePause(fresh, reason) /\ UNCHANGED auto

Raise(reason) ==
  /\ fresh' = WritePause(fresh, reason) /\ auto' = reason

IsOwnUnchecked(reason) == auto = reason /\ pause # None

IsOwn(reason) == auto = reason /\ pause # None /\ pause.reason = reason

TakeBack(reason) ==
  IF IsOwn(reason)
    THEN fresh' = WriteResume(fresh, "own") /\ auto' = None
    ELSE UNCHANGED <<fresh, auto>>

DetectRealGap ==
  /\ UNCHANGED turns
  /\ phase = "pre" /\ phase' = "watched"
  /\ IF length > Gap
       THEN IF pause = None /\ allowed THEN Raise("HostStalled") ELSE UNCHANGED <<fresh, auto>>
       ELSE TakeBack("HostStalled")
  /\ UNCHANGED <<length, pause, allowed, behind, manual, focused, wanted>>
  /\ UNCHANGED clock /\ UNCHANGED mail

(* Mutant: a frame may take a tick more than the loop runs. *)
TooLongByATick == length > Budget + Step

TooLong == length > Budget

PauseWhenBehind ==
  /\ UNCHANGED turns
  /\ phase = "watched" /\ phase' = "counted"
  /\ behind' = IF TooLong THEN Min2(behind + 1, Threshold) ELSE 0
  /\ IF behind' >= Threshold
       THEN IF pause = None /\ allowed THEN Raise("HostTooSlow") ELSE UNCHANGED <<fresh, auto>>
       ELSE TakeBack("HostTooSlow")
  /\ UNCHANGED <<length, pause, allowed, manual, focused, wanted>>
  /\ UNCHANGED clock /\ UNCHANGED mail

DropDisallowed ==
  /\ UNCHANGED turns
  /\ phase = "counted" /\ phase' = "ready"
  /\ IF ~allowed /\ pause # None /\ pause.reason \in Automatic
       THEN fresh' = WriteResume(fresh, "own") /\ auto' = None
       ELSE UNCHANGED <<fresh, auto>>
  /\ UNCHANGED <<length, pause, allowed, behind, manual, focused, wanted>>
  /\ UNCHANGED clock /\ UNCHANGED mail

(* What the player, the window and the game do is bounded. *)
Turn == turns < MaxTurns /\ turns' = turns + 1

(* A participant's request, where the policy lets any participant pause. *)
Request ==
  /\ Turn
  /\ InPreUpdate
  /\ \/ fresh' = WritePause(fresh, "Participant")
     \/ fresh' = WriteResume(fresh, "asked")
  /\ UNCHANGED <<phase, length, pause, auto, allowed, behind, manual, focused, wanted>>
  /\ UNCHANGED clock /\ UNCHANGED mail

(* The window loses or regains the focus. *)
FocusChange ==
  /\ Turn
  /\ Focus /\ InPreUpdate
  /\ focused' = ~focused
  /\ IF focused
       THEN IF pause = None /\ allowed THEN Raise("HostUnfocused") ELSE UNCHANGED <<fresh, auto>>
       ELSE TakeBack("HostUnfocused")
  /\ UNCHANGED <<phase, length, pause, allowed, behind, manual, wanted>>
  /\ UNCHANGED clock /\ UNCHANGED mail

-----------------------------------------------------------------------------
(* One pass of the loop: the requests are applied, the hold follows the pause,
   the tick runs and is captured unless the clock is held or has just been
   set back, and a snapshot of it goes out. *)
HostApplyRequests(box) ==
  /\ pause' =
       IF box.pause # None /\ pause = None
         THEN [at |-> tick + 1, reason |-> box.pause]
       ELSE IF box.resumes # {} /\ box.pause = None THEN None ELSE pause
  /\ wanted' = IF box.asks THEN TRUE
               ELSE IF "asked" \in box.resumes /\ box.pause = None THEN FALSE ELSE wanted
  /\ fresh' = Empty /\ stale' = Empty

HostHoldAtPause == held' = (pause' # None /\ tick >= pause'.at)

AdvanceTick(once) ==
  IF (held' \/ manual) /\ ~once
    THEN UNCHANGED <<tick, past>>
    ELSE /\ tick' = tick + 1
         /\ past' = [t \in Ticks |-> IF t = tick + 1 THEN pause'
                                   ELSE IF t + Window < tick + 1 THEN None ELSE past[t]]

BroadcastSnapshot ==
  LET multiple == tick' % SendEvery = 0
      heldNow  == held' \/ manual
      skipped  == heldNow /\ passesHeld > 0 /\ passesHeld % HeldEvery # 0
  IN  /\ passesHeld' = IF ~multiple THEN passesHeld
                       ELSE IF ~heldNow THEN 0
                       ELSE IF passesHeld = HeldEvery THEN 1 ELSE passesHeld + 1
      /\ told' = IF multiple /\ ~skipped THEN past'[tick'] ELSE told

LoopPass(once) ==
  /\ HostApplyRequests(Drained)
  /\ HostHoldAtPause
  /\ AdvanceTick(once)
  /\ BroadcastSnapshot

(* A step forward by hand is a pass that runs the tick although the clock is
   held. A step back puts the world of the tick before in place, this resource
   with it, and then makes a pass that does not run a tick. *)
StepForward ==
  /\ Turn
  /\ "forward" \in ByHand /\ InPreUpdate /\ tick < MaxTick
  /\ LoopPass(TRUE)
  /\ UNCHANGED <<phase, length, owed, fixedOwed, ran, auto, allowed, behind, manual,
                 focused, due, lost, unheard>>

StepBackward ==
  LET before == past[tick - 1]
      box    == Drained
  IN  /\ Turn
      /\ "back" \in ByHand /\ InPreUpdate /\ tick > 0 /\ Window > 0
      /\ pause' = IF box.pause # None /\ before = None
                    THEN [at |-> tick, reason |-> box.pause]
                  ELSE IF box.resumes # {} /\ box.pause = None THEN None ELSE before
      /\ wanted' = IF box.asks THEN TRUE
                   ELSE IF "asked" \in box.resumes /\ box.pause = None THEN FALSE ELSE wanted
      /\ fresh' = Empty /\ stale' = Empty
      /\ tick' = tick - 1 /\ held' = (pause' # None /\ tick - 1 >= pause'.at)
      /\ UNCHANGED past
      /\ BroadcastSnapshot
      /\ UNCHANGED <<phase, length, owed, fixedOwed, ran, auto, allowed, behind, manual,
                     focused, due, lost, unheard>>

-----------------------------------------------------------------------------
(* The fixed loop, after which messages may age, and the accumulator. *)
EnterLoop ==
  LET virtual == Min2(length, MaxDelta)
  IN  /\ UNCHANGED turns
      /\ phase = "ready" /\ phase' = "loop"
      /\ fixedOwed' = (fixedOwed + virtual) % FixedStep
      /\ due' = (due \/ fixedOwed + virtual >= FixedStep)
      /\ owed' = owed + virtual
      /\ lost' = length - virtual
      /\ UNCHANGED <<length, ran, tick, pause, past, auto, allowed, behind, manual, held,
                     passesHeld, focused, fresh, stale, told, wanted, unheard>>

(* A pass the accumulator has a timestep for; the last one the frame may run
   throws away what is left. *)
Pass ==
  LET last == ran + 1 >= MaxTicks
      left == owed - Step
  IN  /\ UNCHANGED turns
      /\ phase = "loop" /\ owed >= Step
      /\ LoopPass(FALSE)
      /\ ran' = ran + 1
      /\ owed' = IF last THEN 0 ELSE left
      /\ lost' = IF last THEN lost + left ELSE lost
      /\ phase' = IF last THEN "update" ELSE "loop"
      /\ UNCHANGED <<length, fixedOwed, auto, allowed, behind, manual, focused, due, unheard>>

LeaveLoop ==
  /\ UNCHANGED turns
  /\ phase = "loop" /\ owed < Step /\ phase' = "update"
  /\ UNCHANGED <<length, pause, auto, allowed, behind, manual, focused, fresh, wanted>>
  /\ UNCHANGED clock /\ UNCHANGED mail

(* Update: the player asks; the game takes or gives back a hold of its own, and
   turns automatic pauses off or on. *)
Ask ==
  /\ Turn
  /\ phase = "update"
  /\ \/ fresh' = WritePause(fresh, "Host")
     \/ fresh' = WriteResume(fresh, "asked")
  /\ UNCHANGED <<phase, length, pause, auto, allowed, behind, manual, focused, wanted>>
  /\ UNCHANGED clock /\ UNCHANGED mail

Hold ==
  /\ Turn
  /\ phase = "update" /\ manual' = ~manual
  /\ UNCHANGED <<phase, length, pause, auto, allowed, behind, focused, fresh, wanted>>
  /\ UNCHANGED clock /\ UNCHANGED mail

Switch ==
  /\ Turn
  /\ phase = "update" /\ allowed' = ~allowed
  /\ UNCHANGED <<phase, length, pause, auto, behind, manual, focused, fresh, wanted>>
  /\ UNCHANGED clock /\ UNCHANGED mail

Frame ==
  \/ \E d \in FrameLengths: BeginFrame(d)
  \/ DetectRealGap \/ PauseWhenBehind \/ DropDisallowed
  \/ EnterLoop \/ Pass \/ LeaveLoop

Next ==
  \/ Frame
  \/ Request \/ FocusChange \/ StepForward \/ StepBackward
  \/ Ask \/ Hold \/ Switch

Spec     == Init /\ [][Next]_vars
FairSpec == Spec /\ WF_vars(Frame)

-----------------------------------------------------------------------------
(* A pause that somebody asked for is lifted only when somebody asks, or when a
   step back by hand returns to before it: nothing the host does of its own for a
   long frame, a slow one or the focus reaches it, whatever automatic pause came
   before it or was in force while the request waited (pause.rs:121-122). *)
LiftedOnlyIfAsked ==
  [][pause # None /\ pause.reason \in Asked /\ pause' = None /\ tick' >= tick
       => "asked" \in Drained.resumes]_vars

(* Once the frames are calm again, a pause the host made for a long frame or for
   slow ones ends by itself, in the middle of any requests, holds and switches,
   unless somebody has asked for a pause by then (pause.rs:135-136, 140-141). *)
OnItsOwn == pause # None /\ pause.reason \in {"HostStalled", "HostTooSlow"} /\ ~wanted

Calm == length <= Gap /\ length <= Budget

AutomaticPauseEnds == <>[]Calm => (OnItsOwn ~> ~OnItsOwn)

(* Whenever a frame is not run for as much as a tick of its time, in the loop or
   before it, HostBehind counts it: the clock of the host does not fall behind
   real time unnoticed (pause.rs:401-403). It leans on how much of a frame reaches
   the loop at all: MaxDelta is no less than the budget. *)
LossIsNoticed == phase = "update" /\ lost >= Step => behind > 0

(* Clients hear of the pause the host holds at. *)
PauseIsTold == held ~> (told # None \/ ~held)

(* Two that the code does not keep. A request is read by a pass before Bevy drops
   it (pause.rs:96-97); while somebody wants the session paused, it is. *)
RequestsAreHeard == ~unheard

AskedPauseStays == wanted => pause # None

=============================================================================
