---------------------------- MODULE LedTask_proofs ----------------------------
(***************************************************************************)
(* What the strip shows agrees with the mode of led_task, for every channel*)
(* capacity and every number of owed frames.                               *)
(***************************************************************************)
EXTENDS LedTask, TLAPS

IInv == TypeOK /\ StripMatchesMode

LEMMA InitIInv == Init => IInv
<1> SUFFICES ASSUME Init PROVE IInv
  OBVIOUS
<1>1. ChannelTypeOK
  BY CapacityAssumption DEF Init, ChannelTypeOK
<1>2. lag \in 0..MaxLag
  BY LagAssumption DEF Init
<1>3. effect \in Effect /\ shown \in Shown
  BY DEF Init, Effect, Shown, Solid
<1>4. enabled \in BOOLEAN /\ overridden \in BOOLEAN /\ StripMatchesMode
  BY Zenon DEF Init, StripMatchesMode
<1> QED
  BY <1>1, <1>2, <1>3, <1>4 DEF IInv, TypeOK

\* Receiving any command leaves a queue of commands.
LEMMA HandleCommandKeepsQueue ==
  ASSUME IInv, HandleCommand
  PROVE  ChannelTypeOK'
BY CapacityAssumption DEF Receive, ChannelTypeOK, IInv, TypeOK, HandleCommand, NextEffect,
   SetEnabled, ShowStatus, ResumeAnimation

\* The end of the loop body brings the strip in line with the mode just entered.
LEMMA SettleMatchesMode ==
  ASSUME IInv, Settle, overridden' => overridden,
         overridden' \in BOOLEAN, enabled' \in BOOLEAN, effect' \in Effect
  PROVE  shown' \in Shown /\ lag' \in 0..MaxLag /\ StripMatchesMode'
BY LagAssumption DEF IInv, TypeOK, StripMatchesMode, Settle, Running, ResetTicker, Blank,
   Shown, Solid

LEMMA StepIInv == IInv /\ [Next]_vars => IInv'
<1> SUFFICES ASSUME IInv, [Next]_vars PROVE IInv'
  OBVIOUS
<1> USE LagAssumption
<1>1. CASE NextEffect
  <2>1. ChannelTypeOK'
    BY <1>1, HandleCommandKeepsQueue DEF HandleCommand
  <2>2. effect' \in Effect /\ enabled' \in BOOLEAN /\ overridden' = FALSE
    BY <1>1 DEF NextEffect, IInv, TypeOK, Effect, NextOf
  <2>3. shown' \in Shown /\ lag' \in 0..MaxLag /\ StripMatchesMode'
    BY <1>1, <2>2, SettleMatchesMode DEF NextEffect
  <2> QED
    BY <2>1, <2>2, <2>3 DEF IInv, TypeOK
<1>2. CASE \E newEnabled \in BOOLEAN : SetEnabled(newEnabled)
  <2>1. ChannelTypeOK'
    BY <1>2, HandleCommandKeepsQueue DEF HandleCommand
  <2>2. effect' \in Effect /\ enabled' \in BOOLEAN /\ overridden' = overridden
    BY <1>2 DEF SetEnabled, IInv, TypeOK
  <2>3. shown' \in Shown /\ lag' \in 0..MaxLag /\ StripMatchesMode'
    BY <1>2, <2>2, SettleMatchesMode DEF SetEnabled, IInv, TypeOK
  <2> QED
    BY <2>1, <2>2, <2>3 DEF IInv, TypeOK
<1>3. CASE \E cmd \in StatusCommand : ShowStatus(cmd)
  <2>1. ChannelTypeOK'
    BY <1>3, HandleCommandKeepsQueue DEF HandleCommand
  <2>2. shown' \in Solid
    BY <1>3 DEF ShowStatus, StatusCommand, StatusColor, Solid
  <2> QED
    BY <1>3, <2>1, <2>2 DEF ShowStatus, IInv, TypeOK, StripMatchesMode, Shown
<1>4. CASE ResumeAnimation
  <2>1. ChannelTypeOK'
    BY <1>4, HandleCommandKeepsQueue DEF HandleCommand
  <2>2. effect' \in Effect /\ enabled' \in BOOLEAN /\ overridden' = FALSE
    BY <1>4 DEF ResumeAnimation, IInv, TypeOK
  <2>3. shown' \in Shown /\ lag' \in 0..MaxLag /\ StripMatchesMode'
    BY <1>4, <2>2, SettleMatchesMode DEF ResumeAnimation
  <2> QED
    BY <2>1, <2>2, <2>3 DEF IInv, TypeOK
<1>5. CASE RenderFrame
  <2>1. ChannelTypeOK'
    BY <1>5 DEF RenderFrame, IInv, TypeOK, ChannelTypeOK
  <2> QED
    BY <1>5, <2>1 DEF RenderFrame, FrameDue, FrameOf, Running, IInv, TypeOK, StripMatchesMode,
       Shown
<1>6. CASE FrameIntervalElapses
  <2>1. ChannelTypeOK'
    BY <1>6 DEF FrameIntervalElapses, IInv, TypeOK, ChannelTypeOK
  <2> QED
    BY <1>6, <2>1 DEF FrameIntervalElapses, IInv, TypeOK, StripMatchesMode
<1>7. CASE SomeTaskSends
  <2>1. ChannelTypeOK'
    BY <1>7, CapacityAssumption DEF Send, ChannelTypeOK, SomeTaskSends, SentCommand,
       IInv, TypeOK
  <2> QED
    BY <1>7, <2>1 DEF SomeTaskSends, ledVars, IInv, TypeOK, StripMatchesMode
<1>8. CASE UNCHANGED vars
  <2>1. ChannelTypeOK'
    BY <1>8 DEF vars, IInv, TypeOK, ChannelTypeOK
  <2> QED
    BY <1>8, <2>1 DEF vars, ledVars, IInv, TypeOK, StripMatchesMode
<1> QED
  BY <1>1, <1>2, <1>3, <1>4, <1>5, <1>6, <1>7, <1>8 DEF Next, LedStep, HandleCommand

\* The variables keep their types; in particular the channel never holds more commands
\* than its capacity, whatever the tasks send.
THEOREM TypeCorrect == Spec => []TypeOK
<1>1. IInv => TypeOK
  BY DEF IInv
<1> QED
  BY <1>1, InitIInv, StepIInv, PTL DEF Spec

\* Status colours stay solid and a cube without animation is dark, always.
THEOREM StripCorrect == Spec => []StripMatchesMode
<1>1. IInv => StripMatchesMode
  BY DEF IInv
<1> QED
  BY <1>1, InitIInv, StepIInv, PTL DEF Spec

\* A step that changes a held colour is a status command.
LEMMA HeldStep ==
  ASSUME Next, overridden, overridden', shown' # shown
  PROVE  /\ queue # << >> /\ Head(queue) \in StatusCommand
         /\ shown' = StatusColor[Head(queue)]
<1>1. ~NextEffect /\ ~ResumeAnimation
  BY DEF NextEffect, ResumeAnimation
<1>2. ~\E newEnabled \in BOOLEAN : SetEnabled(newEnabled)
  BY DEF SetEnabled, Settle, Running
<1>3. ~RenderFrame /\ ~FrameIntervalElapses /\ ~SomeTaskSends
  BY DEF RenderFrame, FrameDue, Running, FrameIntervalElapses, SomeTaskSends, ledVars
<1>4. PICK cmd \in StatusCommand : ShowStatus(cmd)
  BY <1>1, <1>2, <1>3 DEF Next, LedStep, HandleCommand
<1> QED
  BY <1>4 DEF ShowStatus, Receive

\* A held status colour is changed by a status command only, never by a frame.
THEOREM StatusIsHeld == Spec => StatusHeld
<1>1. [Next]_vars =>
        [overridden /\ overridden' /\ shown' # shown =>
           queue # << >> /\ Head(queue) \in StatusCommand
             /\ shown' = StatusColor[Head(queue)]]_vars
  BY HeldStep
<1> QED
  BY <1>1, PTL DEF Spec, StatusHeld

\* A step that starts the animation forgets the frames owed.
LEMMA RestartStep ==
  ASSUME IInv, Next, ~Running, Running'
  PROVE  lag' = 0
<1>1. Settle \/ (\E cmd \in StatusCommand : ShowStatus(cmd)) \/ RenderFrame
        \/ FrameIntervalElapses \/ SomeTaskSends
  BY DEF Next, LedStep, HandleCommand, NextEffect, SetEnabled, ResumeAnimation
<1>2. CASE Settle
  BY <1>2 DEF Settle, Running, ResetTicker
<1>3. CASE \E cmd \in StatusCommand : ShowStatus(cmd)
  BY <1>3 DEF ShowStatus, Running
<1>4. CASE RenderFrame \/ FrameIntervalElapses \/ SomeTaskSends
  BY <1>4 DEF RenderFrame, FrameIntervalElapses, SomeTaskSends, ledVars, Running
<1> QED
  BY <1>1, <1>2, <1>3, <1>4

\* Whatever restarts the animation, no frame is owed to the time it was paused.
THEOREM NoBurst == Spec => NoCatchUpBurst
<1>1. IInv /\ [Next]_vars => [~Running /\ Running' => lag' = 0]_vars
  BY RestartStep
<1> QED
  BY <1>1, InitIInv, StepIInv, PTL DEF Spec, NoCatchUpBurst
===============================================================================
