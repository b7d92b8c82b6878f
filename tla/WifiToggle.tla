------------------------------ MODULE WifiToggle ------------------------------
(***************************************************************************)
(* button_task and wifi_task over WIFI_TOGGLE and LED_CHANNEL: does Wi-Fi  *)
(* follow the user, who does not wait for one long press to be carried     *)
(* out before the next?                                                    *)
(*                                                                         *)
(* Tasks, driver and channel are quick here (QuickTasks), which makes it   *)
(* as hard as possible to lose a press.                                    *)
(***************************************************************************)
EXTENDS WifiTask

VARIABLES bpc, level, edge, timer, fresh,                    \* ButtonTask
          asked              \* history: an odd number of long presses was made

Button == INSTANCE ButtonTask

pressVars == <<bpc, level, edge, timer, fresh>>
toggleVars == <<vars, pressVars, asked>>

ToggleInit == Init /\ Button!Init /\ asked = FALSE
-------------------------------------------------------------------------------
WifiMoves ==
  /\ WifiStep \/ JoinSucceeds \/ JoinFails \/ ApDrops \/ LinkChanges \/ LeaseArrives
  /\ UNCHANGED <<pressVars, asked>>

LedMoves == LedTaskReceives /\ UNCHANGED <<pressVars, asked>>

\* Of all that wifi_task goes through with a press pending, only the second for which it
\* shows red (main.rs:229) is long enough for another press to become a long one.
QuickTasks == toggle => wpc = "redHold"

\* button_task finds a press held too long, and signals WIFI_TOGGLE.
LongPressMade ==
  /\ QuickTasks
  /\ Button!HeldTooLong /\ LongPress
  /\ asked' = ~asked

ButtonMoves ==
  \/ LongPressMade
  \/ /\ Button!ButtonStep /\ UNCHANGED toggle
     /\ UNCHANGED <<wifiActive, wifiVars, asked>>

UserMoves ==
  /\ Button!Down \/ Button!Up
  /\ UNCHANGED <<wifiActive, wifiVars, asked>>

\* LONG_PRESS_DURATION ends.
TimerExpires ==
  /\ QuickTasks
  /\ Button!TimerExpires
  /\ UNCHANGED <<wifiActive, wifiVars, asked>>

ToggleNext == WifiMoves \/ LedMoves \/ ButtonMoves \/ UserMoves \/ TimerExpires

ToggleSpec == ToggleInit /\ [][ToggleNext]_toggleVars
-------------------------------------------------------------------------------
===============================================================================
