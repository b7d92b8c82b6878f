--------------------------- MODULE PowerPolicy_proofs ---------------------------
(***************************************************************************)
(* The countdown to deep sleep and the accelerometer's detectors agree,    *)
(* for sensor_task by itself and beside wifi_task, and deep sleep never    *)
(* cuts off a started radio: for every channel capacity and countdown,     *)
(* whatever the user, the access point and the cube do.                    *)
(***************************************************************************)
EXTENDS PowerPolicy, TLAPS

\* No countdown exists before the loop of sensor_task, after an activity, or in deep
\* sleep, and a boot that only re-enters deep sleep leaves the detector as it was.
Quiet ==
  /\ pc \in {"boot", "start", "startSend", "actSend", "asleep"} => ticks = None
  /\ pc = "boot" /\ wakeCause = "TimerElapsed" => phase \in {"waitAct", "actPending"}

IInv == TypeOK /\ CountdownNeedsInactivity /\ MotionCanWake /\ Quiet

LEMMA InitIInv == Init => IInv
<1> SUFFICES ASSUME Init PROVE IInv
  OBVIOUS
<1>1. ChannelTypeOK
  BY CapacityAssumption DEF Init, ChannelTypeOK
<1> QED
  BY <1>1 DEF Init, IInv, TypeOK, CountdownNeedsInactivity, MotionCanWake, Quiet,
     Phase, WakeReason

\* Entering deep sleep keeps the invariant wherever the detector watches for activity.
LEMMA SleepKeepsIInv ==
  ASSUME IInv, EnterDeepSleep, phase \in {"waitAct", "actPending"}
  PROVE  IInv'
<1>1. ChannelTypeOK'
  BY CapacityAssumption DEF ChannelTypeOK, EnterDeepSleep
<1> QED
  BY <1>1 DEF EnterDeepSleep, IInv, TypeOK, CountdownNeedsInactivity, MotionCanWake, Quiet,
     Phase, WakeReason

LEMMA StepIInv == IInv /\ [Next]_vars => IInv'
<1> SUFFICES ASSUME IInv, [Next]_vars PROVE IInv'
  OBVIOUS
<1> USE TicksAssumption
<1>1. CASE Boot
  <2>1. CASE ClassifyWakeup = "TimerElapsed" /\ EnterDeepSleep
    BY <1>1, <2>1, SleepKeepsIInv DEF Boot, IInv, Quiet, ClassifyWakeup
  <2>2. CASE ClassifyWakeup # "TimerElapsed" /\ UNCHANGED queue
    <3>1. ChannelTypeOK'
      BY <2>2 DEF IInv, TypeOK, ChannelTypeOK
    <3> QED
      BY <1>1, <2>2, <3>1 DEF Boot, EnterDeepSleep, IInv, TypeOK, CountdownNeedsInactivity,
         MotionCanWake, Quiet, Phase, WakeReason
  <2> QED
    BY <1>1, <2>1, <2>2 DEF Boot
<1>2. CASE CheckInt2AtStart
  <2>1. ChannelTypeOK'
    BY <1>2 DEF CheckInt2AtStart, IInv, TypeOK, ChannelTypeOK
  <2> QED
    BY <1>2, <2>1 DEF CheckInt2AtStart, ReadStatus, Int2, IInv, TypeOK,
       CountdownNeedsInactivity, MotionCanWake, Quiet, Phase, WakeReason
<1>3. CASE SendEnabled
  <2>1. ChannelTypeOK'
    BY <1>3, CapacityAssumption DEF Send, ChannelTypeOK, SendEnabled, IInv, TypeOK, Command
  <2> QED
    BY <1>3, <2>1 DEF SendEnabled, IInv, TypeOK, CountdownNeedsInactivity, MotionCanWake,
       Quiet, Phase, WakeReason
<1>4. CASE Arm
  <2>1. ChannelTypeOK'
    BY <1>4 DEF Arm, IInv, TypeOK, ChannelTypeOK
  <2> QED
    BY <1>4, <2>1 DEF Arm, IInv, TypeOK, CountdownNeedsInactivity, MotionCanWake, Quiet,
       Phase, WakeReason
<1>5. CASE Int2Rose
  <2>1. ChannelTypeOK'
    BY <1>5 DEF Int2Rose, IInv, TypeOK, ChannelTypeOK
  <2>2. CASE phase = "actPending"
    BY <1>5, <2>1, <2>2 DEF Int2Rose, ReadStatus, CountdownAfterActivity, IInv, TypeOK,
       CountdownNeedsInactivity, MotionCanWake, Quiet, Phase, WakeReason
  <2>3. CASE phase = "inactPending"
    BY <1>5, <2>1, <2>3 DEF Int2Rose, ReadStatus, IInv, TypeOK, CountdownNeedsInactivity,
       MotionCanWake, Quiet, Phase, WakeReason
  <2> QED
    BY <1>5, <2>2, <2>3 DEF Int2Rose
<1>6. CASE Tick
  <2>1. CASE MayDeepSleep
    <3>1. phase \in {"waitAct", "actPending"}
      BY <2>1 DEF MayDeepSleep, IInv, CountdownNeedsInactivity
    <3> QED
      BY <1>6, <2>1, <3>1, SleepKeepsIInv DEF Tick
  <2>2. CASE ~MayDeepSleep
    <3>1. ChannelTypeOK'
      BY <1>6, <2>2 DEF Tick, IInv, TypeOK, ChannelTypeOK
    <3>2. ticks' \in (0..InactivityTicks) \cup {None} /\ (ticks' # None => ticks # None)
      BY <1>6, <2>2 DEF Tick, CountDown, IInv, TypeOK
    <3> QED
      BY <1>6, <2>2, <3>1, <3>2 DEF Tick, IInv, TypeOK, CountdownNeedsInactivity,
         MotionCanWake, Quiet, Phase, WakeReason
  <2> QED
    BY <2>1, <2>2
<1>7. CASE Detect
  <2>1. ChannelTypeOK'
    BY <1>7 DEF Detect, IInv, TypeOK, ChannelTypeOK
  <2> QED
    BY <1>7, <2>1 DEF Detect, IInv, TypeOK, CountdownNeedsInactivity, MotionCanWake, Quiet,
       Phase, WakeReason
<1>8. CASE WakeByPin \/ WakeByTimer
  <2>1. ChannelTypeOK'
    BY <1>8 DEF WakeByPin, WakeByTimer, IInv, TypeOK, ChannelTypeOK
  <2> QED
    BY <1>8, <2>1 DEF WakeByPin, WakeByTimer, IInv, TypeOK, CountdownNeedsInactivity,
       MotionCanWake, Quiet, Phase, WakeReason
<1>9. CASE LedTaskReceives
  <2>1. ChannelTypeOK'
    BY <1>9, CapacityAssumption DEF Receive, ChannelTypeOK, LedTaskReceives, IInv, TypeOK
  <2> QED
    BY <1>9, <2>1 DEF LedTaskReceives, sensorVars, IInv, TypeOK, CountdownNeedsInactivity,
       MotionCanWake, Quiet, Phase, WakeReason
<1>10. CASE WifiTaskToggles
  <2>1. ChannelTypeOK'
    BY <1>10 DEF WifiTaskToggles, IInv, TypeOK, ChannelTypeOK
  <2> QED
    BY <1>10, <2>1 DEF WifiTaskToggles, sensorVars, IInv, TypeOK, CountdownNeedsInactivity,
       MotionCanWake, Quiet, Phase, WakeReason
<1>11. CASE UNCHANGED vars
  <2>1. ChannelTypeOK'
    BY <1>11 DEF vars, IInv, TypeOK, ChannelTypeOK
  <2> QED
    BY <1>11, <2>1 DEF vars, sensorVars, IInv, TypeOK, CountdownNeedsInactivity,
       MotionCanWake, Quiet, Phase, WakeReason
<1> QED
  BY <1>1, <1>2, <1>3, <1>4, <1>5, <1>6, <1>7, <1>8, <1>9, <1>10, <1>11 DEF Next, SensorStep

\* In every reachable state the variables have their types: the countdown never passes
\* zero and LED_CHANNEL never holds more than its capacity.
THEOREM TypeCorrect == Spec => []TypeOK
<1>1. IInv => TypeOK
  BY DEF IInv
<1> QED
  BY <1>1, InitIInv, StepIInv, PTL DEF Spec

\* A countdown to deep sleep is running only while the last event read is inactivity, that
\* is, the accelerometer watches for activity or has detected some that is not read yet.
THEOREM ReadingStopsCountdown == Spec => []CountdownNeedsInactivity
<1>1. IInv => CountdownNeedsInactivity
  BY DEF IInv
<1> QED
  BY <1>1, InitIInv, StepIInv, PTL DEF Spec

\* Whenever the CPU is in deep sleep the accelerometer can wake it on motion.
THEOREM SleepIsWakeable == Spec => []MotionCanWake
<1>1. IInv => MotionCanWake
  BY DEF IInv
<1> QED
  BY <1>1, InitIInv, StepIInv, PTL DEF Spec
-------------------------------------------------------------------------------
\* The specification of wifi_task once more, with what is proved about it. Its definitions
\* read as those of Wifi; the prover takes them for others.
WifiProofs == INSTANCE WifiTask_proofs

\* WIFI_ACTIVE is set where the radio can run, and Wi-Fi follows the latched presses.
WifiInv == WifiProofs!IInv /\ WifiProofs!WifiFollowsPresses

\* A step of wifi_task or of its surroundings is a step of WifiTask.
LEMMA WifiSteps == Wifi!WifiStep \/ Wifi!Environment => WifiProofs!Next
BY Zenon DEF WifiProofs!Next, WifiProofs!Environment, Wifi!Environment,
   Wifi!WifiStep, WifiProofs!WifiStep, Wifi!LongPress, WifiProofs!LongPress,
   Wifi!JoinSucceeds, WifiProofs!JoinSucceeds, Wifi!JoinFails, WifiProofs!JoinFails,
   Wifi!ApDrops, WifiProofs!ApDrops, Wifi!LinkChanges, WifiProofs!LinkChanges,
   Wifi!LeaseArrives, WifiProofs!LeaseArrives, Wifi!LedTaskReceives,
   WifiProofs!LedTaskReceives, Wifi!TurnOn, WifiProofs!TurnOn,
   Wifi!SendConnecting, WifiProofs!SendConnecting, Wifi!Started, WifiProofs!Started,
   Wifi!Connected, WifiProofs!Connected, Wifi!ConnectFailed, WifiProofs!ConnectFailed,
   Wifi!RetryAfterDelay, WifiProofs!RetryAfterDelay, Wifi!LinkIsUp, WifiProofs!LinkIsUp,
   Wifi!LeaseSeen, WifiProofs!LeaseSeen, Wifi!DhcpTimesOut, WifiProofs!DhcpTimesOut,
   Wifi!SendConnected, WifiProofs!SendConnected, Wifi!Dropped, WifiProofs!Dropped,
   Wifi!TurnOff, WifiProofs!TurnOff, Wifi!Disconnected, WifiProofs!Disconnected,
   Wifi!Stopped, WifiProofs!Stopped, Wifi!SendOff, WifiProofs!SendOff, Wifi!RedHeld,
   WifiProofs!RedHeld, Wifi!SendResume, WifiProofs!SendResume, Wifi!driverVars,
   WifiProofs!driverVars, Wifi!netVars, WifiProofs!netVars, Wifi!history,
   WifiProofs!history, Wifi!wifiVars, WifiProofs!wifiVars, Wifi!TakeToggle,
   WifiProofs!TakeToggle, Wifi!Send, WifiProofs!Send, Wifi!Receive, WifiProofs!Receive,
   Wifi!Command, WifiProofs!Command, Wifi!Goto, WifiProofs!Goto, Wifi!EnterSelect,
   WifiProofs!EnterSelect, Wifi!AfterDrop, WifiProofs!AfterDrop, Wifi!Interruptible,
   WifiProofs!Interruptible

\* wifi_task keeps its invariant by its own steps.
LEMMA WifiStepKeeps ==
  ASSUME WifiInv, Wifi!WifiStep \/ Wifi!Environment
  PROVE  WifiInv'
<1>1. WifiProofs!CapacityAssumption
  BY CapacityAssumption DEF WifiProofs!CapacityAssumption
<1>2. WifiProofs!Next
  BY WifiSteps
<1> QED
  BY <1>1, <1>2, WifiProofs!StepIInv, WifiProofs!StepFollows DEF WifiInv

\* And leaves sensor_task its own: all they share is the channel and WIFI_ACTIVE.
LEMMA WifiKeepsIInv ==
  ASSUME IInv, WifiInv, Wifi!WifiStep \/ Wifi!Environment, UNCHANGED sensorVars
  PROVE  IInv'
<1>1. WifiProofs!TypeOK'
  BY WifiStepKeeps DEF WifiInv, WifiProofs!IInv
<1>2. ChannelTypeOK' /\ wifiActive' \in BOOLEAN
  BY <1>1 DEF WifiProofs!TypeOK, WifiProofs!ChannelTypeOK, WifiProofs!Command, ChannelTypeOK,
     Command
<1> QED
  BY <1>2 DEF IInv, TypeOK, CountdownNeedsInactivity, MotionCanWake, Quiet, sensorVars

\* Entering deep sleep clears the flag together with all that wifi_task was doing; no other
\* step of sensor_task, of the accelerometer or of the timer touches either.
LEMMA SensorKeepsWifi ==
  ASSUME WifiInv, IInv', SensorMoves \/ HardwareMoves
  PROVE  WifiInv'
<1> USE DEF WifiInv, WifiProofs!IInv, WifiProofs!WifiFollowsPresses, WifiProofs!TypeOK,
            WifiProofs!RunningRadioIsFlagged, WifiProofs!FlaggedFromStartToStop,
            WifiProofs!OnPath, WifiProofs!OffPath
<1>1. WifiProofs!ChannelTypeOK'
  BY DEF IInv, TypeOK, ChannelTypeOK, Command, WifiProofs!ChannelTypeOK, WifiProofs!Command
<1>2. wifiActive' \in BOOLEAN
  BY DEF IInv, TypeOK
<1>3. CASE pc' = "asleep" /\ SensorMoves
  BY <1>1, <1>2, <1>3 DEF SensorMoves, WifiLost
<1>4. CASE UNCHANGED <<wifiVars, wifiActive>>
  BY <1>1, <1>4 DEF wifiVars
<1>5. CASE HardwareMoves \/ (SensorMoves /\ pc' # "asleep")
  BY <1>4, <1>5 DEF HardwareMoves, Detect, WakeByPin, WakeByTimer, SensorMoves, Boot,
     EnterDeepSleep, SensorStep, CheckInt2AtStart, SendEnabled, Arm, Int2Rose, Tick
<1> QED
  BY <1>3, <1>5

\* Both tasks keep both invariants.
LEMMA PolicyStep == IInv /\ WifiInv /\ [PolicyNext]_policyVars => IInv' /\ WifiInv'
<1> SUFFICES ASSUME IInv, WifiInv, [PolicyNext]_policyVars PROVE IInv' /\ WifiInv'
  OBVIOUS
<1>1. CASE SensorMoves \/ HardwareMoves
  <2>1. IInv'
    BY <1>1, StepIInv DEF SensorMoves, HardwareMoves, Next
  <2> QED
    BY <1>1, <2>1, SensorKeepsWifi
<1>2. CASE WifiMoves \/ WifiEnvironment
  BY <1>2, WifiStepKeeps, WifiKeepsIInv DEF WifiMoves, WifiEnvironment
<1>3. CASE UNCHANGED policyVars
  <2>1. IInv' /\ UNCHANGED <<queue, wifiVars, wifiActive>>
    BY <1>3, StepIInv DEF policyVars, vars
  <2> QED
    BY <2>1 DEF wifiVars, WifiInv, WifiProofs!IInv, WifiProofs!WifiFollowsPresses,
       WifiProofs!TypeOK, WifiProofs!ChannelTypeOK, WifiProofs!RunningRadioIsFlagged,
       WifiProofs!FlaggedFromStartToStop, WifiProofs!OnPath, WifiProofs!OffPath
<1> QED
  BY <1>1, <1>2, <1>3 DEF PolicyNext

\* Both start in a state of their invariants.
LEMMA PolicyStarts == PolicyInit => IInv /\ WifiInv
<1>1. WifiProofs!CapacityAssumption
  BY CapacityAssumption DEF WifiProofs!CapacityAssumption
<1>2. PolicyInit => WifiProofs!IInv /\ WifiProofs!WifiFollowsPresses
  BY <1>1, WifiProofs!InitIInv DEF PolicyInit, Wifi!Init, WifiProofs!Init,
     WifiProofs!WifiFollowsPresses, WifiProofs!OnPath
<1> QED
  BY <1>2, InitIInv DEF PolicyInit, WifiInv

\* The invariant of wifi_task says of the policy's variables what the policy's properties do.
LEMMA WifiInvInPolicy == WifiInv => WifiTypeOK /\ RunningRadioIsFlagged /\ WifiFollowsPresses
<1> SUFFICES ASSUME WifiInv
             PROVE  WifiTypeOK /\ RunningRadioIsFlagged /\ WifiFollowsPresses
  OBVIOUS
<1>1. WifiTypeOK
  BY DEF WifiInv, WifiProofs!IInv, WifiProofs!TypeOK, WifiProofs!ChannelTypeOK,
     WifiProofs!Command, WifiProofs!OnPath, WifiProofs!OffPath, WifiTypeOK, Wifi!TypeOK,
     Wifi!ChannelTypeOK, Wifi!Command, Wifi!OnPath, Wifi!OffPath
<1>2. RunningRadioIsFlagged /\ WifiFollowsPresses
  BY DEF WifiInv, WifiProofs!IInv, WifiProofs!RunningRadioIsFlagged,
     WifiProofs!WifiFollowsPresses, WifiProofs!OnPath, Wifi!RunningRadioIsFlagged,
     Wifi!WifiFollowsPresses, Wifi!OnPath, RunningRadioIsFlagged, WifiFollowsPresses
<1> QED
  BY <1>1, <1>2

\* The variables of wifi_task keep their types beside the sensor_task that puts the CPU to
\* sleep under it.
THEOREM WifiTypesBesideSensor == PolicySpec => []WifiTypeOK
BY WifiInvInPolicy, PolicyStarts, PolicyStep, PTL DEF PolicySpec

\* WIFI_ACTIVE is set from the completion of start_async to that of stop_async, also when
\* a deep sleep and a boot come in between (main.rs:183, 227).
THEOREM FlagCoversRadio == PolicySpec => []RunningRadioIsFlagged
BY WifiInvInPolicy, PolicyStarts, PolicyStep, PTL DEF PolicySpec

\* Wi-Fi is on or off as the long presses latched since the last boot ask for; a press that
\* a pending one absorbs is not latched (main.rs:69, 183-232).
THEOREM LatchedPressesDecide == PolicySpec => []WifiFollowsPresses
BY WifiInvInPolicy, PolicyStarts, PolicyStep, PTL DEF PolicySpec

\* Only a tick that finds WIFI_ACTIVE clear puts a running CPU to sleep.
LEMMA OnlyTickSleeps ==
  ASSUME PolicyNext, Awake, pc' = "asleep"
  PROVE  ~wifiActive
<1>1. ~WifiMoves /\ ~WifiEnvironment /\ ~HardwareMoves
  BY DEF Awake, WifiMoves, WifiEnvironment, HardwareMoves, Detect, WakeByPin, WakeByTimer,
     sensorVars
<1>2. SensorStep
  BY <1>1 DEF PolicyNext, SensorMoves, Boot, Awake
<1> QED
  BY <1>2 DEF SensorStep, CheckInt2AtStart, SendEnabled, Arm, Int2Rose, Tick, MayDeepSleep

\* From the completion of start_async to that of stop_async the CPU stays awake, however
\* sensor_task and wifi_task interleave.
THEOREM SleepSparesRadio == PolicySpec => SleepNeverCutsRadio
<1>1. WifiInv /\ [PolicyNext]_policyVars =>
        [Awake /\ pc' = "asleep" => station \in {"stopped", "starting"}]_policyVars
  BY OnlyTickSleeps DEF WifiInv, WifiProofs!IInv, WifiProofs!TypeOK,
     WifiProofs!RunningRadioIsFlagged
<1> QED
  BY <1>1, PolicyStarts, PolicyStep, PTL DEF PolicySpec, SleepNeverCutsRadio

\* Beside the wifi_task that really writes WIFI_ACTIVE, too, a countdown runs only while the
\* last event read is inactivity (a motion that is not read leaves it running), the CPU never
\* sleeps with the accelerometer waiting for inactivity, and the variables of sensor_task
\* keep their types.
THEOREM SensorCorrectBesideWifi ==
  PolicySpec => [](TypeOK /\ CountdownNeedsInactivity /\ MotionCanWake)
<1>1. IInv => TypeOK /\ CountdownNeedsInactivity /\ MotionCanWake
  BY DEF IInv
<1> QED
  BY <1>1, PolicyStarts, PolicyStep, PTL DEF PolicySpec
===============================================================================
