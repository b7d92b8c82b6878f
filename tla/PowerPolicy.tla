------------------------------ MODULE PowerPolicy ------------------------------
(***************************************************************************)
(* sensor_task and wifi_task together: when may the CPU enter deep sleep?  *)
(* The two share WIFI_ACTIVE and LED_CHANNEL; deep sleep ends both, and    *)
(* with them whatever Wi-Fi was doing.                                     *)
(***************************************************************************)
EXTENDS SensorTask

VARIABLES wpc, toggle, station, dropEvent, link, ip, wanted, unseenDrop    \* WifiTask

Wifi == INSTANCE WifiTask

wifiVars == <<wpc, toggle, station, dropEvent, link, ip, wanted, unseenDrop>>
policyVars == <<vars, wifiVars>>

PolicyInit == Init /\ Wifi!Init

\* Deep sleep switches the radio off and forgets the state of wifi_task.
WifiLost ==
  /\ wpc' = "mainWait"
  /\ station' = "stopped"
  /\ ip' = "none"
  /\ toggle' = FALSE /\ dropEvent' = FALSE /\ link' = FALSE
  /\ wanted' = FALSE /\ unseenDrop' = FALSE

SensorMoves ==
  /\ Boot \/ SensorStep
  /\ IF pc' = "asleep" THEN WifiLost ELSE UNCHANGED wifiVars

HardwareMoves ==
  /\ Detect \/ WakeByPin \/ WakeByTimer
  /\ UNCHANGED wifiVars

Awake == pc \notin {"boot", "asleep"}

WifiMoves == Awake /\ Wifi!WifiStep /\ UNCHANGED sensorVars

WifiEnvironment == Awake /\ Wifi!Environment /\ UNCHANGED sensorVars

PolicyNext == SensorMoves \/ HardwareMoves \/ WifiMoves \/ WifiEnvironment

PolicyFairness ==
  /\ WF_policyVars(SensorMoves)
  /\ WF_policyVars((WakeByPin \/ WakeByTimer) /\ UNCHANGED wifiVars)
  /\ WF_policyVars(WifiMoves)
  /\ WF_policyVars(Awake /\ (Wifi!JoinSucceeds \/ Wifi!JoinFails) /\ UNCHANGED sensorVars)
  /\ WF_policyVars(Awake /\ Wifi!LinkChanges /\ UNCHANGED sensorVars)
  /\ WF_policyVars(Awake /\ Wifi!LedTaskReceives /\ UNCHANGED sensorVars)

PolicySpec == PolicyInit /\ [][PolicyNext]_policyVars /\ PolicyFairness
-------------------------------------------------------------------------------
\* Deep sleep never cuts off a radio that has been started: from the completion of
\* start_async to that of stop_async, reconnections included, the countdown waits
\* (main.rs:56-57, 146-148).
SleepNeverCutsRadio ==
  [][Awake /\ pc' = "asleep" => station \in {"stopped", "starting"}]_policyVars

\* A sleep that Wi-Fi deferred comes once the user has turned Wi-Fi off, whatever wifi_task
\* was waiting for, unless motion came first: the countdown that ran out meanwhile is
\* deferred, not lost (main.rs:146-148).
SleepFollowsWifiOff ==
  <>[](~wanted /\ ~toggle) => (ticks # None ~> pc = "asleep" \/ phase = "actPending")
-------------------------------------------------------------------------------
\* What WifiTask says of wifi_task, beside the sensor_task that shares its channel and may
\* put the CPU to sleep under it.

\* The variables of wifi_task keep their types.
WifiTypeOK == Wifi!TypeOK

\* WIFI_ACTIVE covers the radio from the completion of start_async to that of stop_async,
\* also where a deep sleep and a boot come in between (main.rs:56-57).
RunningRadioIsFlagged == Wifi!RunningRadioIsFlagged

\* Since the last boot Wi-Fi was turned on and off by latched presses and by nothing else:
\* each one that wifi_task took turned it over once (main.rs:183-232).
WifiFollowsPresses == Wifi!WifiFollowsPresses

\* sensor_task does not compete with wifi_task for room in the channel for ever.
SensorQuiet == <>[][~SendEnabled]_policyVars

\* A latched press is taken in the end, whatever await it meets and however often the user
\* presses again, or the CPU falls asleep.
PressIsTaken == SensorQuiet => Wifi!PressIsTaken

\* A press turns Wi-Fi off from wherever it is, without an AP, a link or a lease, and the
\* animation is resumed (main.rs:224-232).
PressTurnsOff == SensorQuiet => Wifi!PressTurnsOff

\* Once the AP accepts the station and keeps it, Wi-Fi comes up and stays up, if wifi_task
\* saw every drop before (main.rs:206).
ReconnectsAfterDrop == SensorQuiet => Wifi!ReconnectsAfterDrop
===============================================================================
