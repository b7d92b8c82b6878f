------------------------------ MODULE SensorTask ------------------------------
(***************************************************************************)
(* sensor_task (main.rs:105-161) with the power state of the CPU: booting, *)
(* running, or in deep sleep (sleep_control.rs), and the ADXL362 in linked *)
(* mode that drives INT2.                                                  *)
(*                                                                         *)
(* In linked mode the accelerometer has one detector on at a time; a       *)
(* detection raises INT2, and reading STATUS lowers it and turns the other *)
(* detector on.  wait_for_rising_edge sees an edge only while its future   *)
(* is armed: from the poll that enters select() to the poll that leaves it.*)
(* The control points are the awaits, and "loop" is the stretch between    *)
(* leaving one select() and arming the next.                               *)
(***************************************************************************)
EXTENDS LedChannel

CONSTANTS InactivityTicks,   \* INACTIVITY_SLEEP_TICKS, 300 in the firmware
          None               \* inactivity_ticks = None

ASSUME TicksAssumption == InactivityTicks \in Nat /\ None \notin Nat

VARIABLES pc,                \* where main or sensor_task stands; "asleep" is deep sleep
          ticks,             \* inactivity_ticks
          edge,              \* the rising-edge wait on INT2
          phase,             \* detector of the accelerometer
          wakeCause,         \* reset reason and wakeup cause read by classify_wakeup
          wifiActive         \* WIFI_ACTIVE, written by wifi_task

sensorVars == <<pc, ticks, edge, phase, wakeCause>>
vars == <<queue, sensorVars, wifiActive>>

WakeReason == {"ColdBoot", "Activity", "TimerElapsed"}

\* Detectors that watch, and detections that wait to be read.
Phase == {"waitAct", "waitInact", "actPending", "inactPending"}

\* INT2 is high while a detection has not been read.
Int2 == phase \in {"actPending", "inactPending"}

TypeOK ==
  /\ ChannelTypeOK
  /\ pc \in {"boot", "start", "startSend", "loop", "waiting", "actSend", "asleep"}
  /\ ticks \in (0..InactivityTicks) \cup {None}
  /\ edge \in {"unarmed", "armed", "fired"}
  /\ phase \in Phase
  /\ wakeCause \in WakeReason
  /\ wifiActive \in BOOLEAN

\* Power-on.
Init ==
  /\ queue = << >>
  /\ pc = "boot"
  /\ ticks = None
  /\ edge = "unarmed"
  /\ phase = "waitAct"
  /\ wakeCause = "ColdBoot"
  /\ wifiActive = FALSE
-------------------------------------------------------------------------------
ClassifyWakeup == wakeCause

\* enter_deep_sleep: RAM, and with it every task and queue, is lost.
EnterDeepSleep ==
  /\ pc' = "asleep"
  /\ queue' = << >>
  /\ ticks' = None
  /\ edge' = "unarmed"
  /\ wifiActive' = FALSE
  /\ UNCHANGED <<phase, wakeCause>>

\* main up to the spawn of sensor_task.  Initialising the accelerometer resets it, which
\* forgets a detection that woke the CPU; which detector it then starts with is left open.
Boot ==
  /\ pc = "boot"
  /\ \/ ClassifyWakeup = "TimerElapsed" /\ EnterDeepSleep
     \/ /\ ClassifyWakeup # "TimerElapsed"
        /\ pc' = "start"
        /\ phase' \in {"waitAct", "waitInact"}
        /\ UNCHANGED <<queue, ticks, edge, wakeCause, wifiActive>>

\* read_status: the detection is acknowledged and the other detector takes over.
ReadStatus == phase' = CASE phase = "actPending"   -> "waitInact"
                         [] phase = "inactPending" -> "waitAct"
                         [] OTHER                  -> phase

\* The first poll of sensor_task: a level that rose before it was armed.
CheckInt2AtStart ==
  /\ pc = "start"
  /\ IF Int2 THEN ReadStatus ELSE UNCHANGED phase
  /\ pc' = IF phase = "actPending" THEN "startSend" ELSE "loop"
  /\ UNCHANGED <<queue, ticks, edge, wakeCause, wifiActive>>

SendEnabled ==
  /\ pc \in {"startSend", "actSend"}
  /\ Send("SetEnabled(true)")
  /\ pc' = "loop"
  /\ UNCHANGED <<ticks, edge, phase, wakeCause, wifiActive>>

\* Entering select(): the edge wait is armed afresh.
Arm ==
  /\ pc = "loop"
  /\ pc' = "waiting"
  /\ edge' = "armed"
  /\ UNCHANGED <<queue, ticks, phase, wakeCause, wifiActive>>

\* Mutant: activity does not cancel the countdown.
MutKeepCountdown == ticks

CountdownAfterActivity == None

Int2Rose ==
  /\ pc = "waiting"
  /\ edge = "fired"
  /\ ReadStatus
  /\ edge' = "unarmed"
  /\ \/ /\ phase = "actPending"
        /\ ticks' = CountdownAfterActivity
        /\ pc' = "actSend"
     \/ /\ phase = "inactPending"
        /\ ticks' = InactivityTicks
        /\ pc' = "loop"
  /\ UNCHANGED <<queue, wakeCause, wifiActive>>

\* Mutant: a countdown that ends while Wi-Fi is on is dropped.
MutDropDeferred(left) == IF left = 0 THEN None ELSE left - 1

\* Mutant: the countdown is not stopped at zero.
MutRunPastZero(left) == left - 1

\* The countdown stops at zero; there it waits for Wi-Fi to be off.
CountDown(left) == IF left = 0 THEN 0 ELSE left - 1

MayDeepSleep == ticks = 0 /\ ~wifiActive

\* The 100 ms ticker; select() prefers an edge that has fired.
Tick ==
  /\ pc = "waiting"
  /\ edge # "fired"
  /\ IF MayDeepSleep THEN EnterDeepSleep
     ELSE /\ ticks' = IF ticks = None THEN None ELSE CountDown(ticks)
          /\ pc' = "loop"
          /\ edge' = "unarmed"
          /\ UNCHANGED <<queue, phase, wakeCause, wifiActive>>

SensorStep == CheckInt2AtStart \/ SendEnabled \/ Arm \/ Int2Rose \/ Tick
-------------------------------------------------------------------------------
\* Environment.

\* The accelerometer detects in any power state of the CPU once it is initialised.
Detect ==
  /\ \/ phase = "waitAct" /\ phase' = "actPending"
     \/ phase = "waitInact" /\ phase' = "inactPending"
  /\ pc # "boot" \/ wakeCause # "ColdBoot"
  /\ edge' = IF edge = "armed" THEN "fired" ELSE edge
  /\ UNCHANGED <<queue, pc, ticks, wakeCause, wifiActive>>

\* Mutant: WakeupLevel::Low.
MutPinWakesLow == ~Int2

PinWakes == Int2

WakeByPin ==
  /\ pc = "asleep"
  /\ PinWakes
  /\ pc' = "boot"
  /\ wakeCause' = "Activity"
  /\ UNCHANGED <<queue, ticks, edge, phase, wifiActive>>

WakeByTimer ==
  /\ pc = "asleep"
  /\ ~PinWakes
  /\ pc' = "boot"
  /\ wakeCause' = "TimerElapsed"
  /\ UNCHANGED <<queue, ticks, edge, phase, wifiActive>>

LedTaskReceives == \E cmd \in Command : Receive(cmd) /\ UNCHANGED <<sensorVars, wifiActive>>

\* wifi_task powers Wi-Fi up and down whenever the user asks.
WifiTaskToggles ==
  /\ pc \notin {"boot", "asleep"}
  /\ wifiActive' = ~wifiActive
  /\ UNCHANGED <<queue, sensorVars>>

Next ==
  \/ Boot \/ SensorStep
  \/ Detect \/ WakeByPin \/ WakeByTimer
  \/ LedTaskReceives \/ WifiTaskToggles

\* The executor polls what is ready, the wake-up timer and the wake-up pin work, and
\* led_task keeps receiving; motion and the user owe nothing.
Fairness ==
  /\ WF_vars(Boot) /\ WF_vars(SensorStep)
  /\ WF_vars(WakeByPin \/ WakeByTimer)
  /\ WF_vars(LedTaskReceives)

Spec == Init /\ [][Next]_vars /\ Fairness
-------------------------------------------------------------------------------
\* A countdown to deep sleep runs only while the last event that sensor_task has read is
\* inactivity (main.rs:133-141): between the reading of a motion and that of the next
\* inactivity no tick, later detection or full channel leaves or brings back a countdown.
\* A motion that is detected and not read stops nothing: actPending is allowed, and a
\* countdown may then run out and the CPU sleep, with INT2 high (AssertedInt2IsServiced).
CountdownNeedsInactivity == ticks # None => phase \in {"waitAct", "actPending"}

\* The CPU never sleeps with the accelerometer waiting for inactivity: motion would then
\* not raise INT2 and only the timer, which goes straight back to sleep, would wake it.
MotionCanWake == pc = "asleep" => phase \in {"waitAct", "actPending"}

\* Motion ends deep sleep: INT2 high while asleep leads to a boot that starts the tasks,
\* also when INT2 rose before the CPU was asleep (sleep_control.rs:42-43, level wake-up).
MotionWakes == pc = "asleep" /\ Int2 ~> pc = "start"

\* main.rs:119-120: a level that is already asserted is not missed because its edge is past.
AssertedInt2IsServiced ==
  <>[]~wifiActive => (pc = "waiting" /\ Int2 ~> ~Int2 \/ pc = "asleep")
===============================================================================
