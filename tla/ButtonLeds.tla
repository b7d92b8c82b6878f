------------------------------ MODULE ButtonLeds ------------------------------
(***************************************************************************)
(* led_task and button_task over LED_CHANNEL: a tap of the button selects  *)
(* the next effect, through a channel that the other tasks use as well.    *)
(***************************************************************************)
EXTENDS LedTask

VARIABLES bpc, level, edge, timer, toggle, fresh             \* ButtonTask

Button == INSTANCE ButtonTask

buttonVars == <<bpc, level, edge, timer, toggle, fresh>>
cubeVars == <<vars, buttonVars>>

CubeInit == Init /\ Button!Init
-------------------------------------------------------------------------------
LedMoves == LedStep /\ UNCHANGED buttonVars

TimePasses == FrameIntervalElapses /\ UNCHANGED buttonVars

ButtonMoves == Button!ButtonStep /\ UNCHANGED ledVars

\* The user, the long-press timer, and wifi_task at the other end of WIFI_TOGGLE.
ButtonEnvironment ==
  /\ Button!Down \/ Button!Up \/ Button!TimerExpires \/ Button!WifiTaskTakes
  /\ UNCHANGED ledVars

\* sensor_task, wifi_task and ota_task.
OthersSend ==
  /\ \E cmd \in SentCommand \ {"NextEffect"} : Send(cmd)
  /\ UNCHANGED <<ledVars, buttonVars>>

CubeNext == LedMoves \/ TimePasses \/ ButtonMoves \/ ButtonEnvironment \/ OthersSend

\* As in the two modules.
CubeFairness ==
  /\ WF_cubeVars(LedMoves) /\ WF_cubeVars(TimePasses)
  /\ WF_cubeVars(ButtonMoves)
  /\ WF_cubeVars(Button!TimerExpires /\ UNCHANGED ledVars)

CubeSpec == CubeInit /\ [][CubeNext]_cubeVars /\ CubeFairness
-------------------------------------------------------------------------------
\* The variables of button_task keep their types.
ButtonTypeOK == Button!TypeOK

\* Between two reactions the button went down: no press is counted twice, however presses,
\* late polls, the timer and a full channel interleave (main.rs:90-98).
OnePressOneReaction == Button!OnePressOneReaction

\* A press whose falling edge was seen is answered, by an effect change or a toggle, once
\* the other tasks leave room: also if its release was not seen, or never comes.
SeenPressIsAnswered == Button!SeenPressIsAnswered

\* A tap whose release was seen changes the effect and brings the animation back, whatever
\* the strip shows and however full the other tasks left the channel
\* (led_control.rs:315-325), once they stop sending.
TapChangesEffect ==
  <>[][~OthersSend]_cubeVars =>
    \A e \in Effect : bpc = "sendNext" /\ effect = e ~> effect # e /\ ~overridden
===============================================================================
