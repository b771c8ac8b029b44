--------------------------- MODULE HostClockProofs ---------------------------
(* Proofs about HostClock, for any lengths of frames, steps, budgets, windows
   and cadences and any bound: the type invariant, with the bound its ticks
   stay in; that a pause somebody asked for is lifted only by a request; and
   that a host whose virtual clock lets a budget through falls behind real
   time by a tick only if HostBehind counts it.                              *)
EXTENDS HostClock, TLAPS

Pauses == [at: Ticks, reason: Reasons] \cup {None}

(* How far the clock gets: past the bound only in the loop of a frame, and
   never with a pause in force or remembered past it.                        *)
StaysNearTheBound ==
  /\ InPreUpdate => ran = 0
  /\ InPreUpdate \/ (phase = "loop" /\ ran = 0) =>
       tick <= MaxTick + 1 /\ (pause = None => tick <= MaxTick)
  /\ phase = "loop" => tick <= MaxTick + 1 + ran /\ ran < MaxTicks
  /\ phase = "loop" /\ ran > 0 => fresh = Empty /\ stale = Empty
  /\ pause # None => tick <= MaxTick + 1 /\ pause.at <= MaxTick + 1
  /\ \A t \in Ticks: past[t] # None => past[t].at <= MaxTick + 1
  /\ tick <= MaxTick + 1 + MaxTicks

TInv ==
  /\ TypeOK
  /\ StaysNearTheBound
  /\ phase # "loop" => owed < Step

-----------------------------------------------------------------------------
(* What is written into a box is a box, and so is what a reader drains. *)
LEMMA MailTyping ==
  ASSUME NEW box \in Mails
  PROVE  /\ \A reason \in Reasons: WritePause(box, reason) \in Mails
         /\ \A who \in {"asked", "own"}: WriteResume(box, who) \in Mails
         /\ Empty \in Mails
<1>1. ASSUME NEW reason \in Reasons PROVE WritePause(box, reason) \in Mails
  BY <1>1 DEF WritePause, Mails
<1>2. ASSUME NEW who \in {"asked", "own"} PROVE WriteResume(box, who) \in Mails
  <2>1. box.resumes \cup {who} \in SUBSET {"asked", "own"}
    BY DEF Mails
  <2> QED
    BY <2>1 DEF WriteResume, Mails
<1>3. Empty \in Mails
  BY DEF Empty, Mails
<1> QED
  BY <1>1, <1>2, <1>3

LEMMA DrainedTyping == ASSUME TypeOK PROVE Drained \in Mails
<1>1. fresh \in Mails /\ stale \in Mails
  BY DEF TypeOK
<1>2. fresh.pause \in Reasons \cup {None} /\ stale.pause \in Reasons \cup {None}
  BY <1>1 DEF Mails
<1>3. fresh.asks \in BOOLEAN /\ stale.asks \in BOOLEAN
  BY <1>1 DEF Mails
<1>4. fresh.resumes \in SUBSET {"asked", "own"} /\ stale.resumes \in SUBSET {"asked", "own"}
  BY <1>1 DEF Mails
<1>5. fresh.resumes \cup stale.resumes \in SUBSET {"asked", "own"}
  BY <1>4
<1> QED
  BY <1>2, <1>3, <1>5 DEF Drained, Mails

LEMMA Typed ==
  ASSUME TypeOK
  PROVE  /\ fresh \in Mails /\ stale \in Mails /\ pause \in Pauses /\ told \in Pauses
         /\ allowed \in BOOLEAN /\ manual \in BOOLEAN /\ held \in BOOLEAN /\ focused \in BOOLEAN
         /\ due \in BOOLEAN /\ wanted \in BOOLEAN /\ unheard \in BOOLEAN
         /\ tick \in Nat /\ ran \in Nat /\ owed \in Nat /\ fixedOwed \in Nat /\ length \in Nat
         /\ Step \in Nat \ {0} /\ MaxTicks \in Nat \ {0} /\ MaxTick \in Nat /\ MaxDelta \in Nat
BY Bounds DEF TypeOK, FlagsOK, Ticks, Pauses

-----------------------------------------------------------------------------
(* A pass of the loop, by itself or by hand. *)
LEMMA PassTyping ==
  ASSUME TInv, NEW once \in BOOLEAN, LoopPass(once), tick <= MaxTick + 1 + MaxTicks
  PROVE  /\ pause' \in Pauses /\ told' \in Pauses
         /\ \A t \in Ticks: past'[t] \in Pauses
         /\ fresh' = Empty /\ stale' = Empty
         /\ wanted' \in BOOLEAN /\ held' \in BOOLEAN /\ passesHeld' \in 0..HeldEvery
         /\ tick' \in {tick, tick + 1} /\ tick' \in Ticks
<1> USE Bounds DEF TInv
<1>1. tick \in Ticks /\ tick + 1 \in Ticks
  BY Typed DEF TypeOK, Ticks
<1>2. Drained \in Mails
  BY DrainedTyping
<1>3. pause' \in Pauses
  <2>1. Drained.pause \in Reasons \cup {None}
    BY <1>2 DEF Mails
  <2> QED
    BY <1>1, <2>1, Typed DEF LoopPass, HostApplyRequests, Pauses
<1>4. wanted' \in BOOLEAN
  BY Typed DEF LoopPass, HostApplyRequests
<1>5. held' \in BOOLEAN
  BY DEF LoopPass, HostHoldAtPause
<1>6. tick' \in {tick, tick + 1} /\ tick' \in Ticks
  BY <1>1 DEF LoopPass, AdvanceTick
<1>7. \A t \in Ticks: past'[t] \in Pauses
  BY <1>3 DEF LoopPass, AdvanceTick, TypeOK, Pauses
<1>8. told' \in Pauses
  BY <1>6, <1>7, Typed DEF LoopPass, BroadcastSnapshot
<1>9. passesHeld' \in 0..HeldEvery
  BY DEF LoopPass, BroadcastSnapshot, TypeOK
<1> QED
  BY <1>3, <1>4, <1>5, <1>6, <1>7, <1>8, <1>9 DEF LoopPass, HostApplyRequests

(* After a pass that found the clock no further than the bound, or no further
   than the loop has taken it and nothing asked for, no pause is past it.    *)
LEMMA PassBound ==
  ASSUME TInv, NEW once \in BOOLEAN, LoopPass(once),
         tick <= MaxTick + 1 + MaxTicks,
         \/ tick <= MaxTick + 1 /\ (pause = None => tick <= MaxTick)
         \/ fresh = Empty /\ stale = Empty,
         once => tick < MaxTick
  PROVE  /\ pause' # None => tick' <= MaxTick + 1 /\ pause'.at <= MaxTick + 1
         /\ \A t \in Ticks: past'[t] # None => past'[t].at <= MaxTick + 1
<1> USE Bounds DEF TInv
<1>1. tick \in Nat /\ MaxTick \in Nat
  BY Typed
<1>2. ASSUME pause' # None PROVE tick' <= MaxTick + 1 /\ pause'.at <= MaxTick + 1
  <2>1. CASE pause = None
    <3>1. Drained.pause # None /\ pause' = [at |-> tick + 1, reason |-> Drained.pause]
      BY <1>2, <2>1 DEF LoopPass, HostApplyRequests
    <3>2. ~(fresh = Empty /\ stale = Empty)
      BY <3>1 DEF Drained, Empty
    <3>3. tick <= MaxTick
      BY <2>1, <3>2
    <3> QED
      BY <1>1, <3>1, <3>3, PassTyping
  <2>2. CASE pause # None
    <3>1. pause' = pause
      BY <1>2, <2>2 DEF LoopPass, HostApplyRequests
    <3>2. pause.at \in Nat /\ pause.at <= MaxTick + 1 /\ tick <= MaxTick + 1
      BY <2>2 DEF TypeOK, StaysNearTheBound, Ticks
    <3>3. CASE held' \/ manual
      BY <1>1, <3>1, <3>2, <3>3 DEF LoopPass, AdvanceTick
    <3>4. CASE ~held'
      <4>1. ~(tick >= pause.at)
        BY <1>2, <3>1, <3>4 DEF LoopPass, HostHoldAtPause
      <4> QED
        BY <1>1, <3>1, <3>2, <4>1, PassTyping
    <3> QED
      BY <3>3, <3>4
  <2> QED
    BY <2>1, <2>2
<1>3. ASSUME NEW t \in Ticks, past'[t] # None PROVE past'[t].at <= MaxTick + 1
  BY <1>2, <1>3 DEF LoopPass, AdvanceTick, StaysNearTheBound
<1> QED
  BY <1>2, <1>3

-----------------------------------------------------------------------------
LEMMA TInit == Init => TInv
<1> SUFFICES ASSUME Init PROVE TInv
  OBVIOUS
<1>1. 0 \in Ticks /\ \A t \in Ticks: past[t] = None
  BY Bounds DEF Init, Ticks
<1>2. Empty \in Mails
  BY DEF Empty, Mails
<1>f. FlagsOK
  BY DEF Init, FlagsOK
<1>3. TypeOK
  BY <1>1, <1>2, <1>f, Bounds DEF Init, TypeOK
<1>4. StaysNearTheBound
  BY <1>1, Bounds DEF Init, StaysNearTheBound, InPreUpdate
<1> QED
  BY <1>3, <1>4, Bounds DEF TInv, Init

(* The actions of a frame that leave the clock, the pause and its history alone. *)
LEMMA TQuiet ==
  ASSUME TInv,
         DetectRealGap \/ PauseWhenBehind \/ DropDisallowed \/ Request \/ FocusChange
           \/ Ask \/ Hold \/ Switch
  PROVE  TInv'
<1> USE Bounds DEF TInv, clock, mail
<1> DEFINE Same == UNCHANGED <<owed, fixedOwed, ran, tick, past, held, passesHeld, told, lost,
                               stale, due, unheard, length, pause>>
           FreshTyped == fresh' \in Mails /\ auto' \in Automatic \cup {None}
<1>a. fresh \in Mails /\ auto \in Automatic \cup {None} /\ Automatic \subseteq Reasons
  BY DEF TypeOK, Reasons
<1>b. \A r \in Automatic: (Raise(r) => FreshTyped) /\ (TakeBack(r) => FreshTyped)
  BY <1>a, MailTyping DEF Raise, TakeBack
<1>c. {"HostStalled", "HostTooSlow", "HostUnfocused"} \subseteq Automatic
  BY DEF Automatic
<1>1. CASE DetectRealGap
  <2>1. Same /\ FreshTyped /\ phase = "pre" /\ phase' = "watched"
        /\ UNCHANGED <<allowed, behind, manual, focused, wanted, turns>>
    BY <1>1, <1>a, <1>b, <1>c DEF DetectRealGap
  <2>f. FlagsOK'
    BY <2>1 DEF FlagsOK, TypeOK
  <2> QED
    BY <2>1, <2>f DEF TypeOK, StaysNearTheBound, InPreUpdate
<1>2. CASE PauseWhenBehind
  <2>1. Same /\ FreshTyped /\ phase = "watched" /\ phase' = "counted" /\ behind' \in 0..Threshold
        /\ UNCHANGED <<allowed, manual, focused, wanted, turns>>
    BY <1>2, <1>a, <1>b, <1>c DEF PauseWhenBehind, Min2, TypeOK
  <2>f. FlagsOK'
    BY <2>1 DEF FlagsOK, TypeOK
  <2> QED
    BY <2>1, <2>f DEF TypeOK, StaysNearTheBound, InPreUpdate
<1>3. CASE DropDisallowed
  <2>1. Same /\ FreshTyped /\ phase = "counted" /\ phase' = "ready"
        /\ UNCHANGED <<allowed, behind, manual, focused, wanted, turns>>
    BY <1>3, <1>a, MailTyping DEF DropDisallowed
  <2>f. FlagsOK'
    BY <2>1 DEF FlagsOK, TypeOK
  <2> QED
    BY <2>1, <2>f DEF TypeOK, StaysNearTheBound, InPreUpdate
<1>4. CASE Request \/ Ask
  <2>a. {"Host", "Participant"} \subseteq Reasons
    BY DEF Reasons, Asked
  <2>b. FreshTyped
    BY <1>4, <1>a, <2>a, MailTyping DEF Request, Ask
  <2>1. Same /\ FreshTyped /\ phase # "loop" /\ phase' = phase /\ turns' \in 0..MaxTurns
        /\ UNCHANGED <<allowed, behind, manual, focused, wanted>>
    BY <1>4, <2>b DEF Request, Ask, Turn, TypeOK, InPreUpdate
  <2>f. FlagsOK'
    BY <2>1 DEF FlagsOK, TypeOK
  <2> QED
    BY <2>1, <2>f DEF TypeOK, StaysNearTheBound, InPreUpdate
<1>5. CASE FocusChange
  <2>1. Same /\ FreshTyped /\ phase # "loop" /\ phase' = phase /\ turns' \in 0..MaxTurns
        /\ focused' \in BOOLEAN /\ UNCHANGED <<allowed, behind, manual, wanted>>
    BY <1>5, <1>a, <1>b, <1>c DEF FocusChange, Turn, TypeOK, InPreUpdate
  <2>f. FlagsOK'
    BY <2>1 DEF FlagsOK, TypeOK
  <2> QED
    BY <2>1, <2>f DEF TypeOK, StaysNearTheBound, InPreUpdate
<1>6. CASE Hold \/ Switch
  <2>1. Same /\ FreshTyped /\ phase = "update" /\ phase' = phase /\ UNCHANGED <<behind, focused, wanted>>
    BY <1>6, <1>a DEF Hold, Switch
  <2>2. turns' \in 0..MaxTurns
    BY <1>6 DEF Hold, Switch, Turn, TypeOK
  <2>3. FlagsOK'
    <3>1. manual' \in BOOLEAN /\ allowed' \in BOOLEAN
      BY <1>6 DEF Hold, Switch, TypeOK, FlagsOK
    <3> QED
      BY <2>1, <3>1 DEF FlagsOK, TypeOK
  <2> QED
    BY <2>1, <2>2, <2>3 DEF TypeOK, StaysNearTheBound, InPreUpdate
<1> QED
  BY <1>1, <1>2, <1>3, <1>4, <1>5, <1>6

(* The frame's own steps around the loop. *)
LEMMA TFrame ==
  ASSUME TInv, (\E d \in FrameLengths: BeginFrame(d)) \/ EnterLoop \/ LeaveLoop
  PROVE  TInv'
<1> USE Bounds DEF TInv
<1>a. fresh \in Mails /\ stale \in Mails /\ Empty \in Mails
  BY Typed DEF Empty, Mails
<1>1. ASSUME NEW d \in FrameLengths, BeginFrame(d) PROVE TInv'
  <2>1. /\ UNCHANGED <<owed, fixedOwed, tick, pause, past, auto, allowed, behind, manual, held,
                       passesHeld, focused, told, wanted, turns>>
        /\ phase' = "pre" /\ length' = d /\ due' = FALSE /\ lost' = 0 /\ ran' = 0
        /\ tick < MaxTick \/ pause # None
    BY <1>1 DEF BeginFrame
  <2>2. fresh' \in Mails /\ stale' \in Mails /\ unheard' \in BOOLEAN
    BY <1>1, <1>a, Typed DEF BeginFrame
  <2>f. FlagsOK'
    BY <2>1, <2>2 DEF FlagsOK, TypeOK
  <2>3. TypeOK'
    BY <2>1, <2>2, <2>f DEF TypeOK
  <2>4. StaysNearTheBound'
    BY <2>1, Typed DEF StaysNearTheBound, InPreUpdate
  <2> QED
    BY <1>1, <2>1, <2>3, <2>4 DEF BeginFrame
<1>2. CASE EnterLoop
  <2>1. /\ UNCHANGED <<length, ran, tick, pause, past, auto, allowed, behind, manual, held,
                       passesHeld, focused, fresh, stale, told, wanted, unheard, turns>>
        /\ phase = "ready" /\ phase' = "loop"
    BY <1>2 DEF EnterLoop
  <2>2. owed < Step
    BY <2>1
  <2>3. owed' \in 0..(Step + MaxDelta) /\ lost' \in Nat
    BY <1>2, <2>2, Typed DEF EnterLoop, Min2, TypeOK
  <2>4. fixedOwed' \in 0..(FixedStep - 1) /\ due' \in BOOLEAN
    <3> DEFINE virtual == Min2(length, MaxDelta)
    <3>1. fixedOwed + virtual \in Nat
      BY Typed DEF Min2
    <3> HIDE DEF virtual
    <3>2. (fixedOwed + virtual) % FixedStep \in 0..(FixedStep - 1)
      BY <3>1
    <3> QED
      BY <1>2, <3>2, Typed DEF EnterLoop, virtual
  <2>f. FlagsOK'
    BY <2>1, <2>4 DEF FlagsOK, TypeOK
  <2>5. TypeOK'
    BY <2>1, <2>3, <2>4, <2>f DEF TypeOK
  <2>6. StaysNearTheBound'
    BY <2>1, Typed DEF StaysNearTheBound, InPreUpdate
  <2> QED
    BY <2>1, <2>5, <2>6
<1>3. CASE LeaveLoop
  <2>1. /\ UNCHANGED <<length, pause, auto, allowed, behind, manual, focused, fresh, wanted, owed,
                       fixedOwed, ran, tick, past, held, passesHeld, told, lost, stale, due,
                       unheard, turns>>
        /\ phase = "loop" /\ owed < Step /\ phase' = "update"
    BY <1>3 DEF LeaveLoop, clock, mail
  <2>f. FlagsOK'
    BY <2>1 DEF FlagsOK, TypeOK
  <2> QED
    BY <2>1, <2>f DEF TypeOK, StaysNearTheBound, InPreUpdate
<1> QED
  BY <1>1, <1>2, <1>3

(* The steps that make a pass. *)
LEMMA TPass ==
  ASSUME TInv, Pass \/ StepForward
  PROVE  TInv'
<1> USE Bounds DEF TInv
<1>a. Empty \in Mails
  BY DEF Empty, Mails
<1>b. tick \in Nat /\ ran \in Nat /\ owed \in Nat /\ lost \in Nat /\ tick <= MaxTick + 1 + MaxTicks
  BY Typed DEF TypeOK, StaysNearTheBound
<1>1. CASE Pass
  <2>1. /\ phase = "loop" /\ owed >= Step /\ LoopPass(FALSE) /\ ran' = ran + 1 /\ ran < MaxTicks
        /\ UNCHANGED <<length, fixedOwed, auto, allowed, behind, manual, focused, due, unheard, turns>>
    BY <1>1 DEF Pass, StaysNearTheBound
  <2>2. /\ phase' \in {"loop", "update"}
        /\ phase' = "loop" => ran' < MaxTicks
        /\ owed' \in 0..(Step + MaxDelta) /\ lost' \in Nat
        /\ phase' # "loop" => owed' < Step
    BY <1>1, <1>b, Typed DEF Pass, TypeOK
  <2>3. \/ tick <= MaxTick + 1 /\ (pause = None => tick <= MaxTick)
        \/ fresh = Empty /\ stale = Empty
    BY <2>1, <1>b DEF StaysNearTheBound
  <2>4. /\ pause' # None => tick' <= MaxTick + 1 /\ pause'.at <= MaxTick + 1
        /\ \A t \in Ticks: past'[t] # None => past'[t].at <= MaxTick + 1
    BY <2>1, <2>3, <1>b, PassBound
  <2>p. /\ pause' \in Pauses /\ told' \in Pauses
        /\ \A t \in Ticks: past'[t] \in Pauses
        /\ fresh' = Empty /\ stale' = Empty
        /\ wanted' \in BOOLEAN /\ held' \in BOOLEAN /\ passesHeld' \in 0..HeldEvery
        /\ tick' \in {tick, tick + 1} /\ tick' \in Ticks
    BY <2>1, <1>b, PassTyping
  <2>f. FlagsOK'
    BY <2>1, <2>p DEF FlagsOK, TypeOK
  <2>r. ran' \in 0..MaxTicks /\ phase' \in {"loop", "update"}
    <3>1. ran' = ran + 1 /\ ran < MaxTicks
      BY <2>1
    <3>2. ran' \in 0..MaxTicks
      BY <3>1, <1>b
    <3> QED
      BY <3>2, <2>2
  <2>u. UNCHANGED <<length, fixedOwed, auto, behind, turns>>
    BY <2>1
  <2>5. TypeOK'
    BY <2>2, <2>p, <2>f, <2>r, <2>u, <1>a DEF TypeOK, Pauses
  <2>6. StaysNearTheBound'
    <3>1. tick' <= MaxTick + 1 + ran'
      BY <2>1, <2>p, <1>b, Typed DEF StaysNearTheBound
    <3>2. phase' # "loop" => phase' = "update"
      BY <2>r
    <3>3. tick' <= MaxTick + 1 + MaxTicks
      <4>1. tick + 1 <= MaxTick + 1 + MaxTicks
        BY <2>1, <1>b, Typed DEF StaysNearTheBound
      <4> QED
        BY <4>1, <2>p, <1>b, Typed
    <3>4. ran' > 0 /\ ran' # 0
      BY <2>1, <1>b
    <3> QED
      BY <2>2, <2>4, <2>p, <3>1, <3>2, <3>3, <3>4 DEF StaysNearTheBound, InPreUpdate
  <2> QED
    BY <2>2, <2>5, <2>6
<1>2. CASE StepForward
  <2>1. /\ InPreUpdate /\ tick < MaxTick /\ LoopPass(TRUE)
        /\ UNCHANGED <<phase, length, owed, fixedOwed, ran, auto, allowed, behind, manual, focused,
                       due, lost, unheard>>
    BY <1>2 DEF StepForward
  <2>t. turns' \in 0..MaxTurns
    BY <1>2 DEF StepForward, Turn, TypeOK
  <2>s. tick <= MaxTick + 1 /\ tick <= MaxTick
    BY <2>1, <1>b, Typed
  <2>2. /\ pause' # None => tick' <= MaxTick + 1 /\ pause'.at <= MaxTick + 1
        /\ \A t \in Ticks: past'[t] # None => past'[t].at <= MaxTick + 1
    BY <2>1, <2>s, <1>b, PassBound
  <2>p. /\ pause' \in Pauses /\ told' \in Pauses
        /\ \A t \in Ticks: past'[t] \in Pauses
        /\ fresh' = Empty /\ stale' = Empty
        /\ wanted' \in BOOLEAN /\ held' \in BOOLEAN /\ passesHeld' \in 0..HeldEvery
        /\ tick' \in {tick, tick + 1} /\ tick' \in Ticks
    BY <2>1, <1>b, PassTyping
  <2>f. FlagsOK'
    BY <2>1, <2>p DEF FlagsOK, TypeOK
  <2>3. TypeOK'
    BY <2>1, <2>p, <2>f, <2>t, <1>a DEF TypeOK, Pauses
  <2>4. tick' <= MaxTick
    BY <2>1, <2>p, <1>b, Typed
  <2>5. StaysNearTheBound'
    BY <2>1, <2>2, <2>4, <2>p, <1>b, Typed DEF StaysNearTheBound, InPreUpdate
  <2> QED
    BY <2>1, <2>3, <2>5 DEF InPreUpdate
<1> QED
  BY <1>1, <1>2

LEMMA TBack == ASSUME TInv, StepBackward PROVE TInv'
<1> USE Bounds DEF TInv
<1> DEFINE before == past[tick - 1]
<1>a. Empty \in Mails /\ Drained \in Mails
  BY DrainedTyping DEF Empty, Mails
<1>1. /\ InPreUpdate /\ tick > 0 /\ tick' = tick - 1 /\ turns' \in 0..MaxTurns
      /\ fresh' = Empty /\ stale' = Empty
      /\ UNCHANGED <<phase, length, owed, fixedOwed, ran, auto, allowed, behind, manual, focused,
                     due, lost, unheard, past>>
  BY DEF StepBackward, Turn, TypeOK
<1>2. tick \in Nat /\ tick <= MaxTick + 1 /\ tick \in Ticks /\ tick - 1 \in Ticks
  BY <1>1, Typed DEF StaysNearTheBound, TypeOK, Ticks
<1>3. before \in Pauses /\ (before # None => before.at <= MaxTick + 1)
  BY <1>2 DEF TypeOK, StaysNearTheBound, Pauses
<1>4. pause' \in Pauses /\ (pause' # None => pause'.at <= MaxTick + 1)
  <2>1. Drained.pause \in Reasons \cup {None}
    BY <1>a DEF Mails
  <2> QED
    BY <1>2, <1>3, <2>1 DEF StepBackward, Pauses
<1>5. wanted' \in BOOLEAN /\ held' \in BOOLEAN
  BY Typed DEF StepBackward
<1>6. passesHeld' \in 0..HeldEvery /\ told' \in Pauses
  BY <1>1, <1>2, Typed DEF StepBackward, BroadcastSnapshot, TypeOK, Pauses
<1>f. FlagsOK'
  BY <1>1, <1>5 DEF FlagsOK, TypeOK
<1>7. TypeOK'
  BY <1>f, <1>a, <1>1, <1>2, <1>4, <1>5, <1>6 DEF TypeOK, Pauses
<1>8. StaysNearTheBound'
  BY <1>1, <1>2, <1>4, Typed DEF StaysNearTheBound, InPreUpdate
<1> QED
  BY <1>1, <1>7, <1>8 DEF InPreUpdate

(* Every variable keeps its type, whatever is asked and stepped by hand, and
   the clock stays near the bound a frame begins within.                     *)
LEMMA TypingInvariance == Spec => []TInv
<1>1. TInv /\ [Next]_vars => TInv'
  <2>1. TInv /\ Next => TInv'
    BY TQuiet, TFrame, TPass, TBack DEF Next, Frame
  <2>2. TInv /\ UNCHANGED vars => TInv'
    BY DEF vars, TInv, TypeOK, FlagsOK, StaysNearTheBound, InPreUpdate
  <2> QED
    BY <2>1, <2>2
<1> QED
  BY <1>1, TInit, PTL DEF Spec

THEOREM Typing == Spec => []TypeOK
<1>1. TInv => TypeOK
  BY DEF TInv
<1> QED
  BY <1>1, TypingInvariance, PTL

-----------------------------------------------------------------------------
(* A resume of the host's own waits to be read only while a pause of its own is
   in force: every pass drains both boxes before it changes what is in force. *)
OwnResumesMeetOwnPauses ==
  "own" \in Drained.resumes => pause # None /\ pause.reason \in Automatic

LEMMA DrainedResumes == Drained.resumes = fresh.resumes \cup stale.resumes
BY DEF Drained

LEMMA WrittenResumes ==
  ASSUME NEW box \in Mails
  PROVE  /\ \A reason: WritePause(box, reason).resumes = box.resumes
         /\ \A who: WriteResume(box, who).resumes = box.resumes \cup {who}
         /\ Empty.resumes = {}
BY DEF WritePause, WriteResume, Mails, Empty

LEMMA OwnResumes ==
  ASSUME TypeOK, OwnResumesMeetOwnPauses, [Next]_vars
  PROVE  OwnResumesMeetOwnPauses'
<1> DEFINE Kept == fresh'.resumes = fresh.resumes /\ stale' = stale /\ pause' = pause
           Resumed == /\ fresh'.resumes = fresh.resumes \cup {"own"} /\ stale' = stale
                      /\ pause' = pause /\ pause # None /\ pause.reason \in Automatic
<1>a. fresh \in Mails /\ stale \in Mails
  BY DEF TypeOK
<1>b. Drained'.resumes = fresh'.resumes \cup stale'.resumes
  BY DEF Drained
<1>1. ASSUME Kept \/ Resumed PROVE OwnResumesMeetOwnPauses'
  BY <1>1, <1>b, DrainedResumes DEF OwnResumesMeetOwnPauses
<1>2. ASSUME fresh' = Empty /\ stale' = Empty PROVE OwnResumesMeetOwnPauses'
  BY <1>2, <1>b, <1>a, WrittenResumes DEF OwnResumesMeetOwnPauses
<1>3. ASSUME NEW r \in Automatic, Raise(r) \/ TakeBack(r), stale' = stale, pause' = pause
      PROVE  OwnResumesMeetOwnPauses'
  BY <1>1, <1>3, <1>a, WrittenResumes DEF Raise, TakeBack, IsOwn
<1>4. ASSUME fresh' = fresh, stale' = stale, pause' = pause PROVE OwnResumesMeetOwnPauses'
  BY <1>1, <1>4
<1>5. ASSUME NEW d \in FrameLengths, BeginFrame(d) PROVE OwnResumesMeetOwnPauses'
  <2>1. CASE due
    <3>1. stale' = fresh /\ fresh' = Empty /\ pause' = pause
      BY <1>5, <2>1 DEF BeginFrame
    <3> QED
      BY <3>1, <1>a, <1>b, WrittenResumes, DrainedResumes DEF OwnResumesMeetOwnPauses
  <2>2. CASE ~due
    BY <1>5, <1>4, <2>2 DEF BeginFrame
  <2> QED
    BY <2>1, <2>2
<1>c. {"HostStalled", "HostTooSlow", "HostUnfocused"} \subseteq Automatic
  BY DEF Automatic
<1>6. CASE DetectRealGap
  BY <1>6, <1>c, <1>3, <1>4 DEF DetectRealGap, mail
<1>7. CASE PauseWhenBehind
  BY <1>7, <1>c, <1>3, <1>4 DEF PauseWhenBehind, mail
<1>8. CASE DropDisallowed
  BY <1>8, <1>a, <1>1, <1>4, WrittenResumes DEF DropDisallowed, mail
<1>9. CASE FocusChange
  BY <1>9, <1>c, <1>3, <1>4 DEF FocusChange, mail
<1>10. CASE Request \/ Ask
  <2>1. /\ stale' = stale /\ pause' = pause
        /\ \/ fresh'.resumes = fresh.resumes
           \/ fresh'.resumes = fresh.resumes \cup {"asked"}
    BY <1>10, <1>a, WrittenResumes DEF Request, Ask, mail
  <2> QED
    BY <2>1, <1>b, DrainedResumes DEF OwnResumesMeetOwnPauses
<1>11. CASE Pass \/ StepForward \/ StepBackward
  BY <1>11, <1>2 DEF Pass, StepForward, StepBackward, LoopPass, HostApplyRequests
<1>12. CASE EnterLoop \/ LeaveLoop \/ Hold \/ Switch \/ UNCHANGED vars
  BY <1>12, <1>4 DEF EnterLoop, LeaveLoop, Hold, Switch, vars, mail
<1> QED
  BY <1>5, <1>6, <1>7, <1>8, <1>9, <1>10, <1>11, <1>12 DEF Next, Frame

(* A pause somebody asked for is lifted only by a resume somebody asked for, or
   when the clock is set back by hand: only a pass lifts a pause, it does so for
   a resume it drained, and none of the host's own waits under that pause.   *)
LEMMA LiftedByARequest ==
  ASSUME TypeOK, OwnResumesMeetOwnPauses, [Next]_vars,
         pause # None, pause.reason \in Asked, pause' = None, tick' >= tick
  PROVE  "asked" \in Drained.resumes
<1>1. pause' # pause
  OBVIOUS
<1>2. tick \in Int
  BY Typed
<1>3. Pass \/ StepForward
  <2>1. ~StepBackward
    <3>1. StepBackward => tick' = tick - 1
      BY DEF StepBackward
    <3> QED
      BY <3>1, <1>2
  <2> QED
    BY <1>1, <2>1 DEF Next, Frame, BeginFrame, DetectRealGap, PauseWhenBehind, DropDisallowed,
      EnterLoop, LeaveLoop, Request, FocusChange, Ask, Hold, Switch, vars
<1>4. Drained.resumes # {}
  BY <1>3 DEF Pass, StepForward, LoopPass, HostApplyRequests
<1>5. "own" \notin Drained.resumes
  BY DEF OwnResumesMeetOwnPauses, Asked, Automatic
<1>6. Drained.resumes \subseteq {"asked", "own"}
  BY DrainedTyping DEF Mails
<1> QED
  BY <1>4, <1>5, <1>6

THEOREM AskedPausesStand == Spec => LiftedOnlyIfAsked
<1>1. Init => OwnResumesMeetOwnPauses
  BY DEF Init, OwnResumesMeetOwnPauses, Drained, Empty
<1>2. TypeOK /\ OwnResumesMeetOwnPauses /\ [Next]_vars => OwnResumesMeetOwnPauses'
  BY OwnResumes
<1>3. TypeOK /\ OwnResumesMeetOwnPauses /\ [Next]_vars =>
        [pause # None /\ pause.reason \in Asked /\ pause' = None /\ tick' >= tick
           => "asked" \in Drained.resumes]_vars
  BY LiftedByARequest
<1> QED
  BY <1>1, <1>2, <1>3, Typing, PTL DEF Spec, LiftedOnlyIfAsked

-----------------------------------------------------------------------------
(* The virtual clock lets a frame of a whole budget through, or all of it but
   less than a tick. With the default MaxTicksPerFrame, timestep and max_delta
   it does exactly.                                                          *)
LetsTheBudgetThrough == MaxDelta + Step > Budget

(* In the loop, what is owed, what has been run and what was cut off are the
   frame's length and less than a tick besides; and a frame of more than the
   budget has been counted.                                                  *)
NothingGoesUncounted ==
  /\ phase \in {"counted", "ready", "loop", "update"} /\ TooLong => behind > 0
  /\ phase = "loop" => /\ lost = length - Min2(length, MaxDelta)
                       /\ owed + Step * ran + lost < length + Step

LInv == TInv /\ NothingGoesUncounted /\ LossIsNoticed

LEMMA LossInvariance ==
  ASSUME LetsTheBudgetThrough, LInv, [Next]_vars, TInv'
  PROVE  NothingGoesUncounted' /\ LossIsNoticed'
<1> USE Bounds DEF LInv
<1>t. /\ Step \in Nat \ {0} /\ MaxTicks \in Nat \ {0} /\ MaxDelta \in Nat /\ Threshold \in Nat \ {0}
      /\ length \in Nat /\ owed \in Nat /\ ran \in Nat /\ lost \in Nat /\ behind \in Nat
      /\ Budget \in Nat
  BY Typed DEF TInv, TypeOK, Budget
<1>1. ASSUME NEW d \in FrameLengths, BeginFrame(d) PROVE NothingGoesUncounted' /\ LossIsNoticed'
  BY <1>1 DEF BeginFrame, NothingGoesUncounted, LossIsNoticed
<1>2. CASE PauseWhenBehind
  <2>1. phase' = "counted" /\ length' = length /\ (TooLong => behind' > 0)
    BY <1>2, <1>t DEF PauseWhenBehind, Min2
  <2> QED
    BY <2>1 DEF NothingGoesUncounted, LossIsNoticed, TooLong
<1>3. CASE EnterLoop
  <2>1. /\ phase = "ready" /\ phase' = "loop" /\ UNCHANGED <<length, behind, ran>> /\ ran = 0
        /\ owed < Step /\ owed' = owed + Min2(length, MaxDelta)
        /\ lost' = length - Min2(length, MaxDelta)
    BY <1>3 DEF EnterLoop, TInv, StaysNearTheBound, InPreUpdate
  <2>2. Min2(length, MaxDelta) \in Nat /\ Step * ran' = 0
    BY <1>t, <2>1 DEF Min2
  <2>3. owed' + Step * ran' + lost' < length' + Step
    BY <1>t, <2>1, <2>2
  <2> QED
    BY <2>1, <2>3 DEF NothingGoesUncounted, LossIsNoticed, TooLong
<1>4. CASE Pass
  <2> DEFINE left == owed - Step
  <2>1. /\ phase = "loop" /\ owed >= Step /\ ran' = ran + 1 /\ ran < MaxTicks
        /\ UNCHANGED <<length, behind>>
    BY <1>4 DEF Pass, TInv, StaysNearTheBound
  <2>2. Step * (ran + 1) = Step * ran + Step /\ Step * ran \in Nat
    BY <1>t
  <2>3. owed + Step * ran + lost < length + Step
    BY <2>1 DEF NothingGoesUncounted
  <2>4. CASE ran + 1 >= MaxTicks
    <3>1. owed' = 0 /\ lost' = lost + left /\ phase' = "update"
      BY <1>4, <2>4 DEF Pass
    <3>2. ran + 1 = MaxTicks
      BY <1>t, <2>1, <2>4
    <3>3. Step * ran + Step = Budget
      BY <2>2, <3>2 DEF Budget
    <3>4. lost' >= Step => length > Budget
      BY <1>t, <2>1, <2>2, <2>3, <3>1, <3>3
    <3> QED
      BY <2>1, <3>1, <3>4 DEF NothingGoesUncounted, LossIsNoticed, TooLong
  <2>5. CASE ~(ran + 1 >= MaxTicks)
    <3>1. owed' = left /\ lost' = lost /\ phase' = "loop"
      BY <1>4, <2>5 DEF Pass
    <3>2. owed' + Step * ran' + lost' < length' + Step
      BY <1>t, <2>1, <2>2, <2>3, <3>1
    <3> QED
      BY <2>1, <3>1, <3>2 DEF NothingGoesUncounted, LossIsNoticed, TooLong
  <2> QED
    BY <2>4, <2>5
<1>5. CASE LeaveLoop
  <2>1. /\ phase = "loop" /\ phase' = "update" /\ UNCHANGED <<length, lost, behind>>
        /\ lost = length - Min2(length, MaxDelta)
    BY <1>5 DEF LeaveLoop, clock, NothingGoesUncounted
  <2>2. lost >= Step => length > Budget
    BY <1>t, <2>1 DEF Min2, LetsTheBudgetThrough
  <2> QED
    BY <2>1, <2>2 DEF NothingGoesUncounted, LossIsNoticed, TooLong
<1>6. CASE \/ DetectRealGap \/ DropDisallowed \/ Request \/ FocusChange \/ StepForward
           \/ StepBackward \/ Ask \/ Hold \/ Switch \/ UNCHANGED vars
  <2>1. /\ UNCHANGED <<length, lost, behind, owed, ran>>
        /\ phase' = phase \/ phase' = "watched" \/ (phase = "counted" /\ phase' = "ready")
    BY <1>6 DEF DetectRealGap, DropDisallowed, Request, FocusChange, StepForward, StepBackward,
      Ask, Hold, Switch, vars, clock
  <2> QED
    BY <2>1 DEF NothingGoesUncounted, LossIsNoticed, TooLong
<1> QED
  BY <1>1, <1>2, <1>3, <1>4, <1>5, <1>6 DEF Next, Frame

(* The clock of the host never falls behind real time by a tick that HostBehind
   does not count, however long the frames are, if the virtual clock lets a
   budget through.                                                           *)
THEOREM LossNoticed == ASSUME LetsTheBudgetThrough PROVE Spec => []LossIsNoticed
<1>1. Init => NothingGoesUncounted /\ LossIsNoticed
  BY Bounds DEF Init, NothingGoesUncounted, LossIsNoticed, TooLong, Budget
<1>2. TInv /\ TInv' /\ NothingGoesUncounted /\ LossIsNoticed /\ [Next]_vars
        => (NothingGoesUncounted /\ LossIsNoticed)'
  BY LossInvariance DEF LInv
<1> QED
  BY <1>1, <1>2, TypingInvariance, PTL DEF Spec

=============================================================================
