-------------------------------- MODULE LedTask --------------------------------
(***************************************************************************)
(* led_task (src/src/led_control.rs): renders frames of the current effect *)
(* on a 50 ms ticker and, between frames, executes the commands received   *)
(* on LED_CHANNEL.                                                         *)
(*                                                                         *)
(* `shown` is what the strip displays: an effect name stands for a frame   *)
(* of that effect, a colour for a solid fill.  `lag` counts the ticker     *)
(* periods that have elapsed and not been consumed: next() is ready when   *)
(* it is positive and consumes one, which is how the Ticker catches up.    *)
(***************************************************************************)
EXTENDS LedChannel

CONSTANT MaxLag              \* bound on lag: no more periods are counted

ASSUME LagAssumption == MaxLag \in Nat \ {0}

VARIABLES effect,            \* the selected Effect
          enabled,           \* activity gate, set by SetEnabled
          overridden,        \* a status colour replaces the animation
          shown,             \* what the LEDs display
          lag                \* elapsed, unconsumed frame intervals

ledVars == <<effect, enabled, overridden, shown, lag>>
vars == <<queue, ledVars>>

Effect == {"Palette", "Rainbow", "Pulse", "LarsonScanner", "Off"}

\* Effect::next.
NextOf == [Palette |-> "Rainbow", Rainbow |-> "Pulse", Pulse |-> "LarsonScanner",
           LarsonScanner |-> "Off", Off |-> "Palette"]

\* The commands that fill the strip with one colour, and the colour.
StatusColor == [ShowWifiConnecting |-> "yellow", ShowWifiConnected |-> "green",
                ShowWifiOff |-> "red", ShowOtaInProgress |-> "blue",
                ShowOtaSuccess |-> "black"]

StatusCommand == {"ShowWifiConnecting", "ShowWifiConnected", "ShowWifiOff",
                  "ShowOtaInProgress", "ShowOtaSuccess"}

Solid == {"yellow", "green", "red", "blue", "black"}
Shown == Effect \cup Solid

TypeOK ==
  /\ ChannelTypeOK
  /\ effect \in Effect
  /\ enabled \in BOOLEAN
  /\ overridden \in BOOLEAN
  /\ shown \in Shown
  /\ lag \in 0..MaxLag

\* LedControl::new blanks the strip; led_task starts on the rainbow.
Init ==
  /\ queue = << >>
  /\ effect = "Rainbow"
  /\ enabled = TRUE
  /\ overridden = FALSE
  /\ shown = "black"
  /\ lag = 0
-------------------------------------------------------------------------------
\* Mutant: the status colours do not pause the animation.
MutAnimateOverStatus == enabled /\ effect # "Off"

Running == enabled /\ effect # "Off" /\ ~overridden

\* Mutant: ticker.reset() forgotten.
MutKeepLag == UNCHANGED lag

ResetTicker == lag' = 0

\* Mutant: the strip is not blanked when nothing is animated.
MutKeepLastFrame == UNCHANGED shown

Blank == shown' = "black"

\* The end of the loop body, reached after every command.
Settle ==
  \/ overridden' /\ UNCHANGED <<shown, lag>>
  \/ Running' /\ ResetTicker /\ UNCHANGED shown
  \/ ~overridden' /\ ~Running' /\ Blank /\ UNCHANGED lag

\* Mutant: a tap selects the next effect behind the status colour.
MutKeepOverride ==
  /\ Receive("NextEffect")
  /\ effect' = NextOf[effect]
  /\ UNCHANGED <<enabled, overridden>>
  /\ Settle

NextEffect ==
  /\ Receive("NextEffect")
  /\ overridden' = FALSE
  /\ effect' = NextOf[effect]
  /\ UNCHANGED enabled
  /\ Settle

SetEnabled(newEnabled) ==
  /\ Receive(IF newEnabled THEN "SetEnabled(true)" ELSE "SetEnabled(false)")
  /\ enabled' = newEnabled
  /\ UNCHANGED <<effect, overridden>>
  /\ Settle

ShowStatus(cmd) ==
  /\ Receive(cmd)
  /\ overridden' = TRUE
  /\ shown' = StatusColor[cmd]
  /\ UNCHANGED <<effect, enabled, lag>>

ResumeAnimation ==
  /\ Receive("ResumeAnimation")
  /\ overridden' = FALSE
  /\ UNCHANGED <<effect, enabled>>
  /\ Settle

HandleCommand ==
  \/ NextEffect
  \/ \E newEnabled \in BOOLEAN : SetEnabled(newEnabled)
  \/ \E cmd \in StatusCommand : ShowStatus(cmd)
  \/ ResumeAnimation

\* Mutant: the ticker is polled before the channel.
MutTickerFirst == Running /\ lag > 0

\* select() polls the channel first, so a frame is only due when no command waits.
FrameDue == Running /\ queue = << >> /\ lag > 0

\* Mutant: two effects dispatch to one renderer.
MutFrameOf == IF effect = "Palette" THEN "Rainbow" ELSE effect

\* The renderer an effect dispatches to, named as the effect.
FrameOf == effect

RenderFrame ==
  /\ FrameDue
  /\ shown' = FrameOf
  /\ lag' = lag - 1
  /\ UNCHANGED <<queue, effect, enabled, overridden>>

\* What one poll of led_task does.
LedStep == HandleCommand \/ RenderFrame

\* Environment: the clock, and the tasks that send.  No task sends SetEnabled(false).
FrameIntervalElapses ==
  /\ lag < MaxLag
  /\ lag' = lag + 1
  /\ UNCHANGED <<queue, effect, enabled, overridden, shown>>

SentCommand == Command \ {"SetEnabled(false)"}

SomeTaskSends == \E cmd \in SentCommand : Send(cmd) /\ UNCHANGED ledVars

Next == LedStep \/ FrameIntervalElapses \/ SomeTaskSends

\* The executor keeps polling a task that was woken, and time passes.
Spec == Init /\ [][Next]_vars /\ WF_vars(LedStep) /\ WF_vars(FrameIntervalElapses)
-------------------------------------------------------------------------------
\* The strip never shows a stale picture: a status colour stays solid whatever the ticker
\* does, and with nothing to animate (effect Off) the strip is dark, whichever command
\* or sequence of commands led there (led_control.rs:350-358).
StripMatchesMode ==
  /\ overridden => shown \in Solid
  /\ ~overridden /\ ~(enabled /\ effect # "Off") => shown = "black"

\* While a status colour is held, only another status command changes the strip: the
\* frames the ticker still owes and SetEnabled(true) from the sensor leave it alone.
StatusHeld ==
  [][overridden /\ overridden' /\ shown' # shown =>
       queue # << >> /\ Head(queue) \in StatusCommand /\ shown' = StatusColor[Head(queue)]]_vars

\* Whenever the animation starts again, the frames missed while it was paused are
\* forgotten: no burst of catch-up frames (comment at led_control.rs:353-354).
NoCatchUpBurst == [][~Running /\ Running' => lag' = 0]_vars

\* A full channel does not stay full: no sender waits for ever behind the animation,
\* even when rendering a frame takes longer than a frame interval.
SendersUnblocked == Len(queue) = ChannelCapacity ~> Len(queue) < ChannelCapacity

\* Once no more commands come, the strip settles on what the last one asked for: the
\* selected animation, a held status colour, or darkness.
StripSettles ==
  <>[][~SomeTaskSends]_vars =>
    <>[](/\ queue = << >>
         /\ Running => shown = effect)
===============================================================================
