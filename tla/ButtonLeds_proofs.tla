-------------------------- MODULE ButtonLeds_proofs --------------------------
(***************************************************************************)
(* button_task never reacts twice to one press, by itself and beside       *)
(* led_task, and led_task keeps beside it what it keeps alone: for every   *)
(* channel capacity and every number of owed frames.                       *)
(***************************************************************************)
EXTENDS ButtonLeds, LedTask_proofs

\* A reaction that is being prepared, or an edge wait for a press that has fired, stems
\* from a press that came after the last reaction.
PressBehindReaction ==
  /\ bpc \in {"timing", "sendNext"} => fresh
  /\ bpc = "waitFall" /\ edge = "fired" => fresh
  /\ bpc = "waitFall" => edge \in {"fall", "fired"}
  /\ edge = "fall" => bpc = "waitFall"

ButtonInv == ButtonTypeOK /\ PressBehindReaction

LEMMA ButtonStarts == Button!Init => ButtonInv
<1> SUFFICES ASSUME Button!Init PROVE ButtonInv
  OBVIOUS
<1>1. Button!ChannelTypeOK
  BY CapacityAssumption DEF Button!Init, Button!ChannelTypeOK
<1> QED
  BY <1>1 DEF Button!Init, ButtonInv, ButtonTypeOK, Button!TypeOK, PressBehindReaction

LEMMA StepButtonInv == ButtonInv /\ [Button!Next]_(Button!vars) => ButtonInv'
<1> SUFFICES ASSUME ButtonInv, [Button!Next]_(Button!vars) PROVE ButtonInv'
  OBVIOUS
<1> USE DEF ButtonInv, ButtonTypeOK, Button!TypeOK, PressBehindReaction, Button!WaitFor,
            Button!LongPressTimer, Button!AfterToggle
<1>1. CASE Button!StrapCheck \/ Button!StrapArm \/ Button!StrapReleased
  <2>1. Button!ChannelTypeOK'
    BY <1>1 DEF Button!StrapCheck, Button!StrapArm, Button!StrapReleased,
       Button!ChannelTypeOK
  <2> QED
    BY <1>1, <2>1 DEF Button!StrapCheck, Button!StrapArm, Button!StrapReleased
<1>2. CASE Button!PressSeen \/ Button!ReleaseInTime \/ Button!HeldTooLong \/ Button!Released
  <2>1. Button!ChannelTypeOK'
    BY <1>2 DEF Button!PressSeen, Button!ReleaseInTime, Button!HeldTooLong,
       Button!Released, Button!ChannelTypeOK
  <2> QED
    BY <1>2, <2>1 DEF Button!PressSeen, Button!ReleaseInTime, Button!HeldTooLong,
       Button!Released
<1>3. CASE Button!SendNext
  <2>1. Button!ChannelTypeOK'
    BY <1>3, CapacityAssumption DEF Button!Send, Button!ChannelTypeOK, Button!SendNext,
       Button!Command
  <2> QED
    BY <1>3, <2>1 DEF Button!SendNext
<1>4. CASE Button!Down \/ Button!Up \/ Button!TimerExpires \/ Button!WifiTaskTakes
  <2>1. Button!ChannelTypeOK'
    BY <1>4 DEF Button!Down, Button!Up, Button!TimerExpires, Button!WifiTaskTakes,
       Button!ChannelTypeOK
  <2> QED
    BY <1>4, <2>1 DEF Button!Down, Button!Up, Button!TimerExpires, Button!WifiTaskTakes
<1>5. CASE Button!LedTaskReceives
  <2>1. Button!ChannelTypeOK'
    BY <1>5, CapacityAssumption DEF Button!Receive, Button!ChannelTypeOK,
       Button!LedTaskReceives
  <2> QED
    BY <1>5, <2>1 DEF Button!LedTaskReceives, Button!buttonVars
<1>6. CASE Button!OtherTaskSends
  <2>1. Button!ChannelTypeOK'
    BY <1>6, CapacityAssumption DEF Button!Send, Button!ChannelTypeOK,
       Button!OtherTaskSends, Button!Command
  <2> QED
    BY <1>6, <2>1 DEF Button!OtherTaskSends, Button!buttonVars
<1>7. CASE UNCHANGED Button!vars
  BY <1>7 DEF Button!vars, Button!buttonVars, Button!ChannelTypeOK
<1> QED
  BY <1>1, <1>2, <1>3, <1>4, <1>5, <1>6, <1>7 DEF Button!Next, Button!ButtonStep

\* A step that reacts finds a fresh press behind it.
LEMMA ReactionIsFresh ==
  ASSUME ButtonInv, Button!Next, (bpc = "sendNext" /\ bpc' # bpc) \/ (~toggle /\ toggle')
  PROVE  fresh
<1>1. bpc = "sendNext" \/ Button!HeldTooLong
  BY DEF Button!Next, Button!ButtonStep, Button!StrapCheck, Button!StrapArm,
     Button!StrapReleased, Button!PressSeen, Button!ReleaseInTime, Button!SendNext,
     Button!Released, Button!Down, Button!Up, Button!TimerExpires, Button!WifiTaskTakes,
     Button!LedTaskReceives, Button!OtherTaskSends, Button!buttonVars
<1> QED
  BY <1>1 DEF Button!HeldTooLong, ButtonInv, PressBehindReaction
-------------------------------------------------------------------------------
\* What led_task does is to button_task a command received, or nothing.
LEMMA LedMovesInButton == LedMoves => [Button!Next]_(Button!vars)
<1> SUFFICES ASSUME LedMoves PROVE [Button!Next]_(Button!vars)
  OBVIOUS
<1>1. CASE HandleCommand
  <2>1. PICK cmd \in Command : Receive(cmd)
    BY <1>1 DEF HandleCommand, NextEffect, SetEnabled, ShowStatus, ResumeAnimation, Command,
       StatusCommand
  <2>2. Button!LedTaskReceives
    BY <2>1 DEF LedMoves, Button!LedTaskReceives, Receive, Button!Receive, Command,
       Button!Command, buttonVars, Button!buttonVars
  <2> QED
    BY <2>2 DEF Button!Next
<1>2. CASE RenderFrame
  BY <1>2 DEF RenderFrame, LedMoves, buttonVars, Button!vars, Button!buttonVars
<1> QED
  BY <1>1, <1>2 DEF LedMoves, LedStep

\* Every step of the two tasks and their surroundings is one of ButtonTask.
LEMMA CubeStepInButton == [CubeNext]_cubeVars => [Button!Next]_(Button!vars)
<1> SUFFICES ASSUME [CubeNext]_cubeVars PROVE [Button!Next]_(Button!vars)
  OBVIOUS
<1>1. CASE LedMoves
  BY <1>1, LedMovesInButton
<1>2. CASE TimePasses \/ UNCHANGED cubeVars
  BY <1>2 DEF TimePasses, FrameIntervalElapses, cubeVars, vars, buttonVars, Button!vars,
     Button!buttonVars
<1>3. CASE ButtonMoves \/ ButtonEnvironment
  BY <1>3 DEF ButtonMoves, ButtonEnvironment, Button!Next
<1>4. CASE OthersSend
  <2>1. Button!OtherTaskSends
    BY <1>4 DEF OthersSend, SentCommand, Send, Button!Send, Command, Button!Command,
       Button!OtherTaskSends, buttonVars, Button!buttonVars
  <2> QED
    BY <2>1 DEF Button!Next
<1> QED
  BY <1>1, <1>2, <1>3, <1>4 DEF CubeNext

\* Every step of the two tasks and their surroundings is one of LedTask.
LEMMA CubeStepInLed == [CubeNext]_cubeVars => [Next]_vars
<1> SUFFICES ASSUME [CubeNext]_cubeVars PROVE [Next]_vars
  OBVIOUS
<1>1. CASE LedMoves \/ TimePasses
  BY <1>1 DEF LedMoves, TimePasses, Next
<1>2. CASE ButtonMoves
  <2>1. CASE Button!SendNext
    <3>1. Send("NextEffect") /\ UNCHANGED ledVars
      BY <1>2, <2>1 DEF ButtonMoves, Button!SendNext, Button!Send, Send
    <3> QED
      BY <3>1 DEF Next, SomeTaskSends, SentCommand, Command
  <2>2. CASE ~Button!SendNext
    BY <1>2, <2>2 DEF ButtonMoves, Button!ButtonStep, Button!StrapCheck, Button!StrapArm,
       Button!StrapReleased, Button!PressSeen, Button!ReleaseInTime, Button!HeldTooLong,
       Button!Released, vars
  <2> QED
    BY <2>1, <2>2
<1>3. CASE ButtonEnvironment
  BY <1>3 DEF ButtonEnvironment, Button!Down, Button!Up, Button!TimerExpires,
     Button!WifiTaskTakes, vars
<1>4. CASE OthersSend
  BY <1>4 DEF OthersSend, SomeTaskSends, Next
<1>5. CASE UNCHANGED cubeVars
  BY <1>5 DEF cubeVars, vars
<1> QED
  BY <1>1, <1>2, <1>3, <1>4, <1>5 DEF CubeNext
-------------------------------------------------------------------------------
\* The variables of button_task keep their types, the channel its bound, also in a cube
\* whose led_task does more than receive.
THEOREM ButtonTypeCorrect == CubeSpec => []ButtonTypeOK
<1>1. ButtonInv => ButtonTypeOK
  BY DEF ButtonInv
<1>2. CubeInit => ButtonInv
  BY ButtonStarts DEF CubeInit
<1>3. ButtonInv /\ [CubeNext]_cubeVars => ButtonInv'
  BY CubeStepInButton, StepButtonInv
<1> QED
  BY <1>1, <1>2, <1>3, PTL DEF CubeSpec

\* No press is counted twice, neither as an effect change and a toggle nor as two of them,
\* however the pin, late polls, the timer, led_task and a full channel interleave
\* (main.rs:90-98).
THEOREM NoDoubleReaction == CubeSpec => OnePressOneReaction
<1>1. CubeInit => ButtonInv
  BY ButtonStarts DEF CubeInit
<1>2. ButtonInv /\ [CubeNext]_cubeVars => ButtonInv'
  BY CubeStepInButton, StepButtonInv
<1>3. ButtonInv /\ [CubeNext]_cubeVars =>
        [(bpc = "sendNext" /\ bpc' # bpc) \/ (~toggle /\ toggle') => fresh]_(Button!vars)
  BY CubeStepInButton, ReactionIsFresh
<1> QED
  BY <1>1, <1>2, <1>3, PTL DEF CubeSpec, OnePressOneReaction, Button!OnePressOneReaction

\* Beside a real button_task, too, the strip agrees with the mode (led_control.rs:350-358),
\* no frame overwrites a held status colour (led_control.rs:291), and no frames are owed
\* when the animation starts again (led_control.rs:355).
THEOREM LedCorrectBesideButton ==
  CubeSpec => [](TypeOK /\ StripMatchesMode) /\ StatusHeld /\ NoCatchUpBurst
<1>1. CubeInit => IInv
  BY InitIInv DEF CubeInit
<1>2. IInv /\ [CubeNext]_cubeVars => IInv'
  BY CubeStepInLed, StepIInv
<1>3. IInv => TypeOK /\ StripMatchesMode
  BY DEF IInv
<1>4. [CubeNext]_cubeVars =>
        [overridden /\ overridden' /\ shown' # shown =>
           queue # << >> /\ Head(queue) \in StatusCommand
             /\ shown' = StatusColor[Head(queue)]]_vars
  BY CubeStepInLed, HeldStep
<1>5. IInv /\ [CubeNext]_cubeVars => [~Running /\ Running' => lag' = 0]_vars
  BY CubeStepInLed, RestartStep
<1> QED
  BY <1>1, <1>2, <1>3, <1>4, <1>5, PTL DEF CubeSpec, StatusHeld, NoCatchUpBurst
===============================================================================
