---------------------------- MODULE WifiTask_proofs ----------------------------
(***************************************************************************)
(* WIFI_ACTIVE covers the running radio, and Wi-Fi is up exactly when the  *)
(* latched presses ask for it, for every channel capacity.                 *)
(***************************************************************************)
EXTENDS WifiTask, TLAPS

\* From the first connect_async to the completion of stop_async the flag is set.
FlaggedFromStartToStop ==
  wpc \in {"connecting", "retryWait", "linkWait", "dhcpWait", "sendConnected", "online",
           "disconnecting", "stopping"} => wifiActive

IInv == TypeOK /\ RunningRadioIsFlagged /\ FlaggedFromStartToStop

LEMMA InitIInv == Init => IInv
<1> SUFFICES ASSUME Init PROVE IInv
  OBVIOUS
<1>1. ChannelTypeOK
  BY CapacityAssumption DEF Init, ChannelTypeOK
<1>2. {toggle, wifiActive, dropEvent, link, wanted, unseenDrop} \subseteq BOOLEAN
  BY Zenon DEF Init
<1> QED
  BY <1>1, <1>2 DEF Init, IInv, TypeOK, OffPath, OnPath, RunningRadioIsFlagged,
     FlaggedFromStartToStop

\* Every step leaves a queue of commands that fits the channel.
LEMMA QueueTyped == TypeOK /\ [Next]_vars => ChannelTypeOK'
<1> SUFFICES ASSUME TypeOK, [Next]_vars PROVE ChannelTypeOK'
  OBVIOUS
<1>1. CASE SendConnecting \/ SendConnected \/ SendOff \/ SendResume
  BY <1>1, CapacityAssumption DEF Send, ChannelTypeOK, SendConnecting, SendConnected,
     SendOff, SendResume, TypeOK, Command
<1>2. CASE LedTaskReceives
  BY <1>2, CapacityAssumption DEF Receive, ChannelTypeOK, LedTaskReceives, TypeOK
<1>3. CASE UNCHANGED queue
  BY <1>3 DEF TypeOK, ChannelTypeOK
<1> QED
  BY <1>1, <1>2, <1>3 DEF Next, WifiStep, Environment, TurnOn, Started, Connected,
     ConnectFailed, RetryAfterDelay, LinkIsUp, LeaseSeen, DhcpTimesOut, Dropped, TurnOff,
     Disconnected, Stopped, RedHeld, LongPress, JoinSucceeds, JoinFails, ApDrops,
     LinkChanges, LeaseArrives, vars

LEMMA StepIInv == IInv /\ [Next]_vars => IInv'
<1> SUFFICES ASSUME IInv, [Next]_vars PROVE IInv'
  OBVIOUS
<1> USE DEF IInv, TypeOK, OnPath, OffPath, RunningRadioIsFlagged, FlaggedFromStartToStop,
            driverVars, netVars, history, Goto, TakeToggle
<1>0. ChannelTypeOK'
  BY QueueTyped
<1>1. CASE TurnOn
  BY <1>0, <1>1 DEF TurnOn
<1>2. CASE SendConnecting
  BY <1>0, <1>2 DEF SendConnecting
<1>3. CASE Started
  BY <1>0, <1>3 DEF Started, EnterSelect
<1>4. CASE Connected \/ ConnectFailed
  BY <1>0, <1>4 DEF Connected, ConnectFailed, EnterSelect
<1>5. CASE RetryAfterDelay
  BY <1>0, <1>5 DEF RetryAfterDelay, EnterSelect
<1>6. CASE LinkIsUp \/ LeaseSeen \/ DhcpTimesOut
  BY <1>0, <1>6 DEF LinkIsUp, LeaseSeen, DhcpTimesOut
<1>7. CASE SendConnected
  BY <1>0, <1>7 DEF SendConnected, EnterSelect
<1>8. CASE Dropped
  BY <1>0, <1>8 DEF Dropped, AfterDrop
<1>9. CASE TurnOff
  BY <1>0, <1>9 DEF TurnOff, Interruptible
<1>10. CASE Disconnected
  BY <1>0, <1>10 DEF Disconnected
<1>11. CASE Stopped
  BY <1>0, <1>11 DEF Stopped
<1>12. CASE SendOff \/ RedHeld \/ SendResume
  BY <1>0, <1>12 DEF SendOff, RedHeld, SendResume
<1>13. CASE LongPress
  BY <1>0, <1>13 DEF LongPress
<1>14. CASE JoinSucceeds \/ JoinFails \/ ApDrops
  BY <1>0, <1>14 DEF JoinSucceeds, JoinFails, ApDrops
<1>15. CASE LinkChanges \/ LeaseArrives
  BY <1>0, <1>15 DEF LinkChanges, LeaseArrives
<1>16. CASE LedTaskReceives
  BY <1>0, <1>16 DEF LedTaskReceives, wifiVars
<1>17. CASE UNCHANGED vars
  BY <1>0, <1>17 DEF vars, wifiVars
<1> QED
  BY <1>1, <1>2, <1>3, <1>4, <1>5, <1>6, <1>7, <1>8, <1>9, <1>10, <1>11, <1>12, <1>13,
     <1>14, <1>15, <1>16, <1>17 DEF Next, WifiStep, Environment

\* The variables keep their types; the channel never overflows.
THEOREM TypeCorrect == Spec => []TypeOK
<1>1. IInv => TypeOK
  BY DEF IInv
<1> QED
  BY <1>1, InitIInv, StepIInv, PTL DEF Spec

\* WIFI_ACTIVE is set whenever the radio runs, however presses, failures to join, drops
\* and retries interleave.
THEOREM RadioIsFlagged == Spec => []RunningRadioIsFlagged
<1>1. IInv => RunningRadioIsFlagged
  BY DEF IInv
<1> QED
  BY <1>1, InitIInv, StepIInv, PTL DEF Spec

\* A press that is not pending flips both sides; taking it moves Wi-Fi to the other path.
LEMMA StepFollows == IInv /\ WifiFollowsPresses /\ [Next]_vars => WifiFollowsPresses'
<1> USE DEF WifiFollowsPresses, OnPath, OffPath, Goto, TakeToggle, driverVars, netVars, history
<1> SUFFICES ASSUME TypeOK, WifiFollowsPresses, [Next]_vars PROVE WifiFollowsPresses'
  BY DEF IInv
<1> USE DEF TypeOK
<1>1. CASE TurnOn
  <2>1. wpc \notin OnPath /\ wpc' \in OnPath
    BY <1>1 DEF TurnOn
  <2>2. toggle = TRUE /\ toggle' = FALSE /\ wanted' = wanted
    BY <1>1 DEF TurnOn
  <2>3. wanted = TRUE
    BY <2>1, <2>2
  <2> QED
    BY <2>1, <2>2, <2>3
<1>2. CASE SendConnecting \/ LinkIsUp \/ LeaseSeen \/ DhcpTimesOut
  BY <1>2 DEF SendConnecting, LinkIsUp, LeaseSeen, DhcpTimesOut
<1>3. CASE Started \/ Connected \/ ConnectFailed \/ RetryAfterDelay \/ SendConnected
  BY <1>3 DEF Started, Connected, ConnectFailed, RetryAfterDelay, SendConnected, EnterSelect
<1>4. CASE Dropped
  BY <1>4 DEF Dropped, AfterDrop
<1>5. CASE TurnOff
  BY <1>5 DEF TurnOff, Interruptible
<1>6. CASE Disconnected \/ Stopped \/ SendOff \/ RedHeld \/ SendResume
  BY <1>6 DEF Disconnected, Stopped, SendOff, RedHeld, SendResume
<1>7. CASE LongPress
  <2>1. wpc' = wpc /\ toggle' = TRUE
    BY <1>7 DEF LongPress
  <2>2. CASE toggle = TRUE
    BY <1>7, <2>1, <2>2 DEF LongPress
  <2>3. CASE toggle = FALSE
    <3>1. wanted' = ~wanted
      BY <1>7, <2>3 DEF LongPress
    <3>2. wanted \in BOOLEAN
      OBVIOUS
    <3>3. CASE wanted = TRUE
      BY <2>1, <2>3, <3>1, <3>3
    <3>4. CASE wanted = FALSE
      BY <2>1, <2>3, <3>1, <3>4
    <3> QED
      BY <3>2, <3>3, <3>4
  <2> QED
    BY <2>2, <2>3
<1>8. CASE UNCHANGED <<wpc, toggle, wanted>>
  BY <1>8
<1> QED
  BY <1>1, <1>2, <1>3, <1>4, <1>5, <1>6, <1>7, <1>8 DEF Next, WifiStep, Environment,
     JoinSucceeds, JoinFails, ApDrops, LinkChanges, LeaseArrives, LedTaskReceives,
     wifiVars, vars

\* Wi-Fi is on its way up or up exactly when an odd number of the presses that were latched
\* has been taken.
THEOREM PressesDecide == Spec => []WifiFollowsPresses
<1>1. Init => WifiFollowsPresses
  BY DEF Init, WifiFollowsPresses, OnPath
<1> QED
  BY <1>1, StepFollows, InitIInv, StepIInv, PTL DEF Spec
===============================================================================
