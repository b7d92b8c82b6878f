-------------------------- MODULE StatusColors_proofs --------------------------
(***************************************************************************)
(* No status colour is left behind: for every channel capacity, whatever   *)
(* the other tasks send, and whatever becomes of Wi-Fi and the transfers.  *)
(* And what each of the three tasks keeps alone, it keeps beside the other *)
(* two: each of their steps is a step of its own specification, and no     *)
(* step of another task disturbs more of its state than the channel.       *)
(***************************************************************************)
EXTENDS StatusColors, TLAPS

\* The commands that leave a status colour as it is.
Neutral == {"SetEnabled(true)", "SetEnabled(false)"}

\* A status colour will be on when led_task has read the queue: one is on and nothing in
\* the queue ends it, or one is in the queue and nothing behind it ends it.
WillBeOn ==
  \/ overridden /\ \A i \in 1..Len(queue) : queue[i] \in Neutral
  \/ \E i \in 1..Len(queue) :
       queue[i] \in Led!StatusCommand /\ \A j \in i + 1 .. Len(queue) : queue[j] \in Neutral

\* Whoever has nothing to show has sent the resume behind its last colour, and behind any
\* colour of the other, for both must have nothing to show.
IInv == ChannelTypeOK /\ (NothingToShow => ~WillBeOn)

\* A resume ends whatever the queue holds.
LEMMA ResumeEnds ==
  ASSUME ChannelTypeOK, Send("ResumeAnimation")
  PROVE  ChannelTypeOK' /\ ~WillBeOn'
<1>1. queue \in Seq(Command) /\ queue' = Append(queue, "ResumeAnimation")
  BY DEF ChannelTypeOK, Send
<1>2. /\ Len(queue') = Len(queue) + 1 /\ Len(queue) \in Nat
      /\ queue'[Len(queue')] = "ResumeAnimation"
  BY <1>1
<1>3. "ResumeAnimation" \notin Neutral /\ "ResumeAnimation" \notin Led!StatusCommand
  BY DEF Neutral, Led!StatusCommand
<1>4. ChannelTypeOK'
  BY CapacityAssumption DEF Send, ChannelTypeOK, Command
<1> QED
  BY <1>2, <1>3, <1>4 DEF WillBeOn

\* What button_task and sensor_task send leaves a status colour as it is, or ends it.
LEMMA OthersEndOrKeep ==
  ASSUME ChannelTypeOK, NEW cmd \in OtherCommand, Send(cmd), UNCHANGED overridden
  PROVE  ChannelTypeOK' /\ (WillBeOn' => WillBeOn)
<1>1. queue \in Seq(Command) /\ queue' = Append(queue, cmd)
  BY DEF ChannelTypeOK, Send
<1>2. cmd \in {"NextEffect", "SetEnabled(true)"} /\ cmd \in Command
  BY OtherAssumption DEF Command
<1>3. /\ Len(queue') = Len(queue) + 1 /\ Len(queue) \in Nat
      /\ queue'[Len(queue')] = cmd
      /\ \A i \in 1..Len(queue) : queue'[i] = queue[i]
  BY <1>1, <1>2
<1>4. cmd \notin Led!StatusCommand
  BY <1>2 DEF Led!StatusCommand
<1>5. ChannelTypeOK'
  BY <1>2, CapacityAssumption DEF Send, ChannelTypeOK
<1> QED
  BY <1>3, <1>4, <1>5 DEF WillBeOn

\* led_task does what the queue says.
LEMMA LedKeeps ==
  ASSUME ChannelTypeOK, Led!HandleCommand
  PROVE  ChannelTypeOK' /\ (WillBeOn' => WillBeOn)
<1>1. PICK cmd : Receive(cmd)
  BY DEF Led!HandleCommand, Led!NextEffect, Led!SetEnabled, Led!ShowStatus,
     Led!ResumeAnimation, Receive, Led!Receive
<1>2. queue \in Seq(Command) /\ queue # << >> /\ queue' = Tail(queue) /\ queue[1] = Head(queue)
  BY <1>1 DEF ChannelTypeOK, Receive
<1>3. /\ Len(queue) \in Nat \ {0} /\ Len(queue') = Len(queue) - 1
      /\ \A i \in 1..Len(queue') : queue'[i] = queue[i + 1]
  BY <1>2
<1>4. ChannelTypeOK'
  BY <1>1, CapacityAssumption DEF Receive, ChannelTypeOK
<1>5. \/ overridden' = FALSE
      \/ queue[1] \in Neutral /\ overridden' = overridden
      \/ queue[1] \in Led!StatusCommand
  BY <1>2 DEF Led!HandleCommand, Led!NextEffect, Led!SetEnabled, Led!ShowStatus,
     Led!ResumeAnimation, Led!Receive, Neutral
<1> SUFFICES ASSUME WillBeOn' PROVE WillBeOn
  BY <1>4
<1>6. CASE overridden' /\ \A i \in 1..Len(queue') : queue'[i] \in Neutral
  <2>1. \A j \in 2..Len(queue) : queue[j] \in Neutral
    <3>1. ASSUME NEW j \in 2..Len(queue) PROVE queue[j] \in Neutral
      <4>1. j - 1 \in 1..Len(queue') /\ queue'[j - 1] = queue[j]
        BY <1>3
      <4> QED
        BY <1>6, <4>1
    <3> QED
      BY <3>1
  <2>2. CASE queue[1] \in Neutral /\ overridden' = overridden
    BY <1>3, <1>6, <2>1, <2>2 DEF WillBeOn
  <2>3. CASE queue[1] \in Led!StatusCommand
    BY <1>3, <2>1, <2>3 DEF WillBeOn
  <2> QED
    BY <1>5, <1>6, <2>2, <2>3
<1>7. ASSUME NEW i \in 1..Len(queue'), queue'[i] \in Led!StatusCommand,
             \A j \in i + 1 .. Len(queue') : queue'[j] \in Neutral
      PROVE  WillBeOn
  <2>1. i + 1 \in 1..Len(queue) /\ queue[i + 1] \in Led!StatusCommand
    BY <1>3, <1>7
  <2>2. ASSUME NEW j \in i + 2 .. Len(queue) PROVE queue[j] \in Neutral
    <3>1. j - 1 \in i + 1 .. Len(queue') /\ queue'[j - 1] = queue[j]
      BY <1>3
    <3> QED
      BY <1>7, <3>1
  <2> QED
    BY <2>1, <2>2 DEF WillBeOn
<1> QED
  BY <1>6, <1>7 DEF WillBeOn

LEMMA InitIInv == Init => IInv
<1> SUFFICES ASSUME Init PROVE IInv
  OBVIOUS
<1>1. queue = << >> /\ overridden = FALSE
  BY DEF Init, Led!Init
<1>2. ChannelTypeOK
  BY <1>1, CapacityAssumption DEF ChannelTypeOK
<1> QED
  BY <1>1, <1>2 DEF IInv, WillBeOn

LEMMA StepIInv == IInv /\ [Next]_vars => IInv'
<1> SUFFICES ASSUME IInv, [Next]_vars PROVE IInv'
  OBVIOUS
<1> USE DEF IInv
<1>1. CASE LedMoves
  <2>1. ChannelTypeOK' /\ (WillBeOn' => WillBeOn)
    BY <1>1, LedKeeps DEF LedMoves
  <2>2. NothingToShow' = NothingToShow
    BY <1>1 DEF LedMoves, NothingToShow, wifiVars, otaVars
  <2> QED
    BY <2>1, <2>2
<1>2. CASE OthersSend
  <2>1. ChannelTypeOK' /\ (WillBeOn' => WillBeOn)
    BY <1>2, OthersEndOrKeep DEF OthersSend, ledVars
  <2>2. NothingToShow' = NothingToShow
    BY <1>2 DEF OthersSend, NothingToShow, wifiVars, otaVars
  <2> QED
    BY <2>1, <2>2
<1>3. CASE Restart
  <2>1. queue' = << >> /\ overridden' = FALSE
    BY <1>3 DEF Restart, RamLost, Ota!SoftwareReset, Ota!Restart
  <2> QED
    BY <2>1, CapacityAssumption DEF ChannelTypeOK, WillBeOn
<1>4. CASE WifiMoves
  <2>1. CASE Wifi!SendResume
    BY <2>1, ResumeEnds DEF Wifi!SendResume, Wifi!Send, Send
  <2>2. CASE ~Wifi!SendResume
    <3>1. ~NothingToShow'
      BY <1>4, <2>2 DEF WifiMoves, NothingToShow, Wifi!WifiStep, Wifi!Goto, Wifi!TakeToggle,
         Wifi!EnterSelect, Wifi!TurnOn, Wifi!SendConnecting, Wifi!Started, Wifi!Connected,
         Wifi!ConnectFailed, Wifi!RetryAfterDelay, Wifi!LinkIsUp, Wifi!LeaseSeen,
         Wifi!DhcpTimesOut, Wifi!SendConnected, Wifi!Dropped, Wifi!AfterDrop, Wifi!TurnOff,
         Wifi!Disconnected, Wifi!Stopped, Wifi!SendOff, Wifi!RedHeld
    <3>2. CASE UNCHANGED queue
      BY <3>1, <3>2 DEF ChannelTypeOK
    <3>3. CASE \E cmd \in Command : Send(cmd)
      BY <3>1, <3>3, CapacityAssumption DEF Send, ChannelTypeOK
    <3> QED
      BY <1>4, <2>2, <3>2, <3>3 DEF WifiMoves, Wifi!WifiStep, Wifi!TurnOn,
         Wifi!SendConnecting, Wifi!Started, Wifi!Connected, Wifi!ConnectFailed,
         Wifi!RetryAfterDelay, Wifi!LinkIsUp, Wifi!LeaseSeen, Wifi!DhcpTimesOut,
         Wifi!SendConnected, Wifi!Dropped, Wifi!TurnOff, Wifi!Disconnected, Wifi!Stopped,
         Wifi!SendOff, Wifi!RedHeld, Wifi!Send, Send, Command
  <2> QED
    BY <2>1, <2>2
<1>5. CASE OtaMoves
  <2>1. CASE Ota!SendResume
    BY <2>1, ResumeEnds DEF Ota!SendResume, Ota!Send, Send
  <2>2. CASE Ota!SendInProgress \/ Ota!SendSuccess
    <3>1. ~NothingToShow'
      BY <2>2 DEF NothingToShow, Ota!SendInProgress, Ota!SendSuccess, Ota!Goto
    <3>2. \E cmd \in Command : Send(cmd)
      BY <2>2 DEF Ota!SendInProgress, Ota!SendSuccess, Ota!Send, Send, Command
    <3> QED
      BY <3>1, <3>2, CapacityAssumption DEF Send, ChannelTypeOK
  <2>3. CASE ~Ota!SendResume /\ ~Ota!SendInProgress /\ ~Ota!SendSuccess
    <3>1. UNCHANGED <<queue, overridden, wpc>>
      BY <1>5, <2>3 DEF OtaMoves, ledVars, wifiVars, Ota!OtaStep, Ota!Start,
         Ota!MarkCurrentSlotValid, Ota!Listen, Ota!AcceptFails, Ota!Accepted,
         Ota!ReadLength, Ota!WriteChunk, Ota!ReceiveFails, Ota!ImageTooLarge,
         Ota!ActivateNextPartition, Ota!SetStateNew, Ota!SoftwareReset
    <3>2. NothingToShow' => NothingToShow
      BY <1>5, <2>3, <3>1 DEF OtaMoves, NothingToShow, Ota!OtaStep, Ota!Goto, Ota!Start,
         Ota!MarkCurrentSlotValid, Ota!Listen, Ota!AcceptFails, Ota!Accepted,
         Ota!ReadLength, Ota!WriteChunk, Ota!ReceiveFails, Ota!ImageTooLarge,
         Ota!ActivateNextPartition, Ota!SetStateNew, Ota!SoftwareReset
    <3> QED
      BY <3>1, <3>2 DEF WillBeOn, ChannelTypeOK
  <2> QED
    BY <2>1, <2>2, <2>3
<1>6. CASE LongPress \/ JoinEnds \/ ApDrops \/ NetMoves \/ HostMoves \/ ConnectionEnds \/ UNCHANGED vars
  <2>1. UNCHANGED <<queue, overridden, wpc, pc>>
    BY <1>6 DEF LongPress, JoinEnds, ApDrops, NetMoves, HostMoves, ConnectionEnds, ledVars,
       wifiVars, otaVars, vars, Wifi!LongPress, Wifi!JoinSucceeds, Wifi!JoinFails,
       Wifi!ApDrops, Wifi!LinkChanges, Wifi!LeaseArrives, Ota!HostConnects, Ota!HostWrites,
       Ota!HostExits, Ota!ConnectionEnds
  <2> QED
    BY <2>1 DEF WillBeOn, NothingToShow, ChannelTypeOK
<1> QED
  BY <1>1, <1>2, <1>3, <1>4, <1>5, <1>6 DEF Next

\* Whenever Wi-Fi is off, no transfer is left and the queue is read, the animation is back.
THEOREM NoColorIsLeft == Spec => []NoStuckStatus
<1>1. IInv => NoStuckStatus
  BY DEF IInv, NoStuckStatus, WillBeOn
<1> QED
  BY <1>1, InitIInv, StepIInv, PTL DEF Spec
-------------------------------------------------------------------------------
\* The specifications of the three tasks once more, with what is proved about each. Their
\* definitions read as those of Led, Wifi and Ota; the prover takes them for others.
LedProofs == INSTANCE LedTask_proofs WITH lag <- 0, MaxLag <- 1
WifiProofs == INSTANCE WifiTask_proofs
OtaProofs == INSTANCE OtaTask_proofs WITH FlashFaults <- {}, RollbackBootloader <- FALSE

\* The parameters are as the modules of the parts assume them.
LEMMA PartAssumptions ==
  /\ LedProofs!CapacityAssumption /\ LedProofs!LagAssumption
  /\ WifiProofs!CapacityAssumption
  /\ OtaProofs!CapacityAssumption /\ OtaProofs!SizeAssumption /\ OtaProofs!FaultAssumption
BY CapacityAssumption, TransferAssumption
   DEF LedProofs!CapacityAssumption, LedProofs!LagAssumption, WifiProofs!CapacityAssumption,
       OtaProofs!CapacityAssumption, OtaProofs!SizeAssumption, OtaProofs!FaultAssumption

\* led_task's step is a step of the specification that its proofs are about.
LEMMA LedSteps == Led!HandleCommand => LedProofs!HandleCommand
BY Zenon DEF
   Led!HandleCommand, LedProofs!HandleCommand, Led!NextEffect, LedProofs!NextEffect,
   Led!SetEnabled, LedProofs!SetEnabled, Led!StatusCommand, LedProofs!StatusCommand,
   Led!ShowStatus, LedProofs!ShowStatus, Led!ResumeAnimation, LedProofs!ResumeAnimation,
   Led!Receive, LedProofs!Receive, Led!NextOf, LedProofs!NextOf, Led!Settle,
   LedProofs!Settle, Led!StatusColor, LedProofs!StatusColor, Led!Running,
   LedProofs!Running, Led!ResetTicker, LedProofs!ResetTicker, Led!Blank, LedProofs!Blank

\* A step of wifi_task or of its surroundings is a step of WifiTask.
LEMMA WifiSteps ==
  Wifi!WifiStep \/ Wifi!LongPress \/ Wifi!JoinSucceeds \/ Wifi!JoinFails \/ Wifi!ApDrops
    \/ Wifi!LinkChanges \/ Wifi!LeaseArrives => WifiProofs!Next
BY Zenon DEF WifiProofs!Next, WifiProofs!Environment,
   Wifi!WifiStep, WifiProofs!WifiStep, Wifi!LongPress, WifiProofs!LongPress,
   Wifi!JoinSucceeds, WifiProofs!JoinSucceeds, Wifi!JoinFails, WifiProofs!JoinFails,
   Wifi!ApDrops, WifiProofs!ApDrops, Wifi!LinkChanges, WifiProofs!LinkChanges,
   Wifi!LeaseArrives, WifiProofs!LeaseArrives, Wifi!TurnOn, WifiProofs!TurnOn,
   Wifi!SendConnecting, WifiProofs!SendConnecting, Wifi!Started, WifiProofs!Started,
   Wifi!Connected, WifiProofs!Connected, Wifi!ConnectFailed, WifiProofs!ConnectFailed,
   Wifi!RetryAfterDelay, WifiProofs!RetryAfterDelay, Wifi!LinkIsUp, WifiProofs!LinkIsUp,
   Wifi!LeaseSeen, WifiProofs!LeaseSeen, Wifi!DhcpTimesOut, WifiProofs!DhcpTimesOut,
   Wifi!SendConnected, WifiProofs!SendConnected, Wifi!Dropped, WifiProofs!Dropped,
   Wifi!TurnOff, WifiProofs!TurnOff, Wifi!Disconnected, WifiProofs!Disconnected,
   Wifi!Stopped, WifiProofs!Stopped, Wifi!SendOff, WifiProofs!SendOff, Wifi!RedHeld,
   WifiProofs!RedHeld, Wifi!SendResume, WifiProofs!SendResume, Wifi!driverVars,
   WifiProofs!driverVars, Wifi!netVars, WifiProofs!netVars, Wifi!history,
   WifiProofs!history, Wifi!TakeToggle, WifiProofs!TakeToggle, Wifi!Send,
   WifiProofs!Send, Wifi!Goto, WifiProofs!Goto, Wifi!EnterSelect, WifiProofs!EnterSelect,
   Wifi!AfterDrop, WifiProofs!AfterDrop, Wifi!Interruptible, WifiProofs!Interruptible

\* A step of ota_task, of its host or of the connection is a step of OtaTask.
LEMMA OtaSteps ==
  Ota!OtaStep \/ Ota!HostConnects \/ Ota!HostWrites \/ Ota!HostExits \/ Ota!ConnectionEnds
    => OtaProofs!Next
BY Zenon DEF OtaProofs!Next,
   Ota!OtaStep, OtaProofs!OtaStep, Ota!HostConnects, OtaProofs!HostConnects,
   Ota!HostWrites, OtaProofs!HostWrites, Ota!HostExits, OtaProofs!HostExits,
   Ota!ConnectionEnds, OtaProofs!ConnectionEnds, Ota!Start, OtaProofs!Start,
   Ota!MarkCurrentSlotValid, OtaProofs!MarkCurrentSlotValid, Ota!Listen,
   OtaProofs!Listen, Ota!AcceptFails, OtaProofs!AcceptFails, Ota!Accepted,
   OtaProofs!Accepted, Ota!SendInProgress, OtaProofs!SendInProgress, Ota!ReadLength,
   OtaProofs!ReadLength, Ota!WriteChunk, OtaProofs!WriteChunk, Ota!ReceiveFails,
   OtaProofs!ReceiveFails, Ota!ImageTooLarge, OtaProofs!ImageTooLarge,
   Ota!ActivateNextPartition, OtaProofs!ActivateNextPartition, Ota!SetStateNew,
   OtaProofs!SetStateNew, Ota!SendSuccess, OtaProofs!SendSuccess, Ota!SoftwareReset,
   OtaProofs!SoftwareReset, Ota!SendResume, OtaProofs!SendResume, Ota!Suspended,
   OtaProofs!Suspended, Ota!flashVars, OtaProofs!flashVars, Ota!hostVars,
   OtaProofs!hostVars, Ota!Goto, OtaProofs!Goto, Ota!Unmarked, OtaProofs!Unmarked,
   Ota!SetState, OtaProofs!SetState, Ota!Send, OtaProofs!Send, Ota!ChunkArrived,
   OtaProofs!ChunkArrived, Ota!Fits, OtaProofs!Fits, Ota!NextSlot, OtaProofs!NextSlot,
   Ota!Word, OtaProofs!Word, Ota!Chunk, OtaProofs!Chunk, Ota!Want, OtaProofs!Want,
   Ota!Complete, OtaProofs!Complete, Ota!Select, OtaProofs!Select, Ota!Restart,
   OtaProofs!Restart, Ota!AfterClose, OtaProofs!AfterClose, Ota!Otadata,
   OtaProofs!Otadata, Ota!OtherSlot, OtaProofs!OtherSlot

\* led_task keeps its invariant by its own steps; the others only send to its channel, and
\* a restart gives it its first state again.
LEMMA LedPart ==
  ASSUME ChannelTypeOK', LedProofs!IInv, [Next]_vars
  PROVE  LedProofs!IInv'
<1>c. LedProofs!ChannelTypeOK'
  BY DEF ChannelTypeOK, Command, LedProofs!ChannelTypeOK, LedProofs!Command
<1>1. CASE LedMoves
  <2>1. LedProofs!Next
    BY <1>1, LedSteps DEF LedMoves, LedProofs!Next, LedProofs!LedStep
  <2> QED
    BY <2>1, PartAssumptions, LedProofs!StepIInv
<1>2. CASE UNCHANGED ledVars
  BY <1>c, <1>2 DEF ledVars,
     LedProofs!IInv, LedProofs!TypeOK, LedProofs!StripMatchesMode, LedProofs!Effect,
     LedProofs!Shown, LedProofs!Solid
<1>3. CASE RamLost
  BY <1>c, <1>3 DEF RamLost,
     LedProofs!IInv, LedProofs!TypeOK, LedProofs!StripMatchesMode, LedProofs!Effect,
     LedProofs!Shown, LedProofs!Solid
<1> QED
  BY <1>1, <1>2, <1>3 DEF Next, OthersSend, LongPress, WifiMoves, JoinEnds, ApDrops, NetMoves,
     OtaMoves, HostMoves, ConnectionEnds, Restart, vars

\* The radio is flagged where it can run, and Wi-Fi follows the long presses.
WifiInv == WifiProofs!IInv /\ WifiProofs!WifiFollowsPresses

\* wifi_task keeps its invariant, through restarts too, and the others do not touch it.
LEMMA WifiPart ==
  ASSUME ChannelTypeOK', WifiInv, [Next]_vars
  PROVE  WifiInv'
<1>c. WifiProofs!ChannelTypeOK'
  BY DEF ChannelTypeOK, Command, WifiProofs!ChannelTypeOK, WifiProofs!Command
<1>1. CASE LongPress \/ WifiMoves \/ JoinEnds \/ ApDrops \/ NetMoves
  <2>1. WifiProofs!Next
    BY <1>1, WifiSteps DEF LongPress, WifiMoves, JoinEnds, ApDrops, NetMoves
  <2> QED
    BY <2>1, PartAssumptions, WifiProofs!StepIInv, WifiProofs!StepFollows DEF WifiInv
<1>2. CASE UNCHANGED wifiVars
  BY <1>c, <1>2 DEF wifiVars, WifiInv,
     WifiProofs!IInv, WifiProofs!WifiFollowsPresses, WifiProofs!TypeOK,
     WifiProofs!RunningRadioIsFlagged, WifiProofs!FlaggedFromStartToStop,
     WifiProofs!OnPath, WifiProofs!OffPath
<1>3. CASE RamLost
  BY <1>c, <1>3 DEF RamLost, WifiInv,
     WifiProofs!IInv, WifiProofs!WifiFollowsPresses, WifiProofs!TypeOK,
     WifiProofs!RunningRadioIsFlagged, WifiProofs!FlaggedFromStartToStop,
     WifiProofs!OnPath, WifiProofs!OffPath
<1> QED
  BY <1>1, <1>2, <1>3 DEF Next, LedMoves, OthersSend, OtaMoves, HostMoves, ConnectionEnds,
     Restart, vars

\* What is in the slots, in otadata and under way at each point of a transfer.
OtaInv == OtaProofs!IInv /\ OtaProofs!Transfer

\* ota_task keeps its invariant, and the others do not touch it.
LEMMA OtaPart ==
  ASSUME ChannelTypeOK', OtaInv, [Next]_vars
  PROVE  OtaInv'
<1>c. OtaProofs!ChannelTypeOK'
  BY DEF ChannelTypeOK, Command, OtaProofs!ChannelTypeOK, OtaProofs!Command
<1>1. CASE OtaMoves \/ HostMoves \/ ConnectionEnds \/ Restart
  <2>1. OtaProofs!Next
    BY <1>1, OtaSteps DEF OtaMoves, HostMoves, ConnectionEnds, Restart, Ota!OtaStep
  <2> QED
    BY <2>1, PartAssumptions, OtaProofs!StepIInv, OtaProofs!StepTransfer DEF OtaInv
<1>2. CASE UNCHANGED otaVars
  BY <1>c, <1>2 DEF otaVars, OtaInv,
     OtaProofs!IInv, OtaProofs!Transfer, OtaProofs!TypeOK, OtaProofs!Fresh,
     OtaProofs!Safe, OtaProofs!Announced, OtaProofs!Progress, OtaProofs!Installed,
     OtaProofs!OtaSlot, OtaProofs!Word, OtaProofs!Slot, OtaProofs!SelectsRunning,
     OtaProofs!SelectedIsComplete, OtaProofs!SafeFallback, OtaProofs!Marked,
     OtaProofs!NextSlot, OtaProofs!Holds, OtaProofs!IsComplete, OtaProofs!Uncommitted,
     OtaProofs!Unmarked, OtaProofs!OtherSlot
<1> QED
  BY <1>1, <1>2 DEF Next, LedMoves, OthersSend, LongPress, WifiMoves, JoinEnds, ApDrops,
     NetMoves, vars

\* Every task starts in a state of its invariant.
LEMMA PartsInit == Init => LedProofs!IInv /\ WifiInv /\ OtaInv
<1>1. Init => LedProofs!IInv
  BY PartAssumptions, LedProofs!InitIInv DEF Init, Led!Init, LedProofs!Init
<1>2. Init => WifiInv
  BY PartAssumptions, WifiProofs!InitIInv
     DEF Init, Wifi!Init, WifiProofs!Init, WifiInv, WifiProofs!WifiFollowsPresses,
         WifiProofs!OnPath
<1>3. Ota!Init => OtaProofs!Init
  BY DEF Ota!Init, OtaProofs!Init, Ota!OtaSlot, OtaProofs!OtaSlot, Ota!Word, OtaProofs!Word
<1>4. Init => OtaInv
  BY <1>3, PartAssumptions, OtaProofs!InitIInv, OtaProofs!InitTransfer DEF Init, OtaInv
<1> QED
  BY <1>1, <1>2, <1>4

\* The invariants of the parts, with the channel they share.
PartsInv == IInv /\ LedProofs!IInv /\ WifiInv /\ OtaInv

\* No step of any task, host or user ends one of them.
LEMMA PartsStep == PartsInv /\ [Next]_vars => PartsInv'
BY StepIInv, LedPart, WifiPart, OtaPart DEF PartsInv, IInv

\* Beside the other tasks, on one channel and one executor, each task keeps what it keeps
\* alone: the strip shows what led_task's mode says (led_control.rs:281), no radio runs
\* without WIFI_ACTIVE (main.rs:183), Wi-Fi is on or off as the long presses ask for
\* (main.rs:69), otadata selects a complete image, and a failed transfer leaves the selection
\* as it was (ota.rs:52). The restart after a transfer meets the other tasks anywhere.
THEOREM PartsStayCorrect ==
  Spec => [](/\ Led!StripMatchesMode
             /\ Wifi!RunningRadioIsFlagged /\ Wifi!WifiFollowsPresses
             /\ Ota!SelectedIsComplete /\ Ota!FailureLeavesSelection)
<1>1. LedProofs!IInv => Led!StripMatchesMode
  BY DEF LedProofs!IInv, LedProofs!StripMatchesMode, LedProofs!Solid, Led!StripMatchesMode,
     Led!Solid
<1>2. WifiInv => Wifi!RunningRadioIsFlagged /\ Wifi!WifiFollowsPresses
  BY DEF WifiInv, WifiProofs!IInv, WifiProofs!RunningRadioIsFlagged,
     WifiProofs!WifiFollowsPresses, WifiProofs!OnPath, Wifi!RunningRadioIsFlagged,
     Wifi!WifiFollowsPresses, Wifi!OnPath
<1>3. OtaInv => Ota!SelectedIsComplete /\ Ota!FailureLeavesSelection
  BY DEF OtaInv, OtaProofs!IInv, OtaProofs!Safe, OtaProofs!SelectsRunning,
     OtaProofs!SelectedIsComplete, OtaProofs!IsComplete, OtaProofs!Holds, OtaProofs!Word,
     Ota!SelectedIsComplete, Ota!IsComplete, Ota!Holds, Ota!Word, Ota!FailureLeavesSelection
<1>4. Init => PartsInv
  BY InitIInv, PartsInit DEF PartsInv
<1>5. PartsInv => /\ Led!StripMatchesMode
                  /\ Wifi!RunningRadioIsFlagged /\ Wifi!WifiFollowsPresses
                  /\ Ota!SelectedIsComplete /\ Ota!FailureLeavesSelection
  BY <1>1, <1>2, <1>3 DEF PartsInv
<1> QED
  BY <1>4, <1>5, PartsStep, PTL DEF Spec

\* The selected image is replaced in one step, by a complete one (ota_update.md:27-30), also
\* while led_task and wifi_task run between the writes, Wi-Fi goes down under the transfer,
\* or what it left in the socket outlives the Wi-Fi session.
THEOREM UpdateIsAtomicBesideOthers == Spec => Ota!UpdateIsAtomic
<1>1. Init => Ota!Store!Init
  BY DEF Init, Ota!Init, Ota!Store!Init, Ota!ImageIn
<1>2. [OtaProofs!Store!Next]_(OtaProofs!Store!vars) => [Ota!Store!Next]_(Ota!Store!vars)
  BY Zenon DEF
     Ota!Store!Next, OtaProofs!Store!Next, Ota!Store!vars, OtaProofs!Store!vars,
     Ota!Store!Install, OtaProofs!Store!Install, Ota!Store!Keep, OtaProofs!Store!Keep,
     Ota!Store!Restart, OtaProofs!Store!Restart, Ota!ImageIn, OtaProofs!ImageIn,
     Ota!IsComplete, OtaProofs!IsComplete, Ota!Holds, OtaProofs!Holds, Ota!Word,
     OtaProofs!Word, Ota!Unmarked, OtaProofs!Unmarked
<1>3. ASSUME PartsInv, [Next]_vars PROVE [Ota!Store!Next]_(Ota!Store!vars)
  <2>1. CASE OtaMoves \/ HostMoves \/ ConnectionEnds \/ Restart
    <3>1. OtaProofs!Next
      BY <2>1, OtaSteps DEF OtaMoves, HostMoves, ConnectionEnds, Restart, Ota!OtaStep
    <3>2. [OtaProofs!Store!Next]_(OtaProofs!Store!vars)
      BY <1>3, <3>1, PartAssumptions, OtaProofs!StepStore DEF PartsInv, OtaInv
    <3> QED
      BY <1>2, <3>2
  <2>2. CASE UNCHANGED otaVars
    BY <2>2 DEF otaVars, Ota!Store!vars, Ota!ImageIn, Ota!IsComplete, Ota!Holds, Ota!Unmarked
  <2> QED
    BY <1>3, <2>1, <2>2 DEF Next, LedMoves, OthersSend, LongPress, WifiMoves, JoinEnds,
       ApDrops, NetMoves, vars
<1>4. Init => PartsInv
  BY InitIInv, PartsInit DEF PartsInv
<1> QED
  BY <1>1, <1>3, <1>4, PartsStep, PTL DEF Spec, Ota!UpdateIsAtomic, Ota!Store!Spec

\* And the restart at the end of a transfer starts the image that was received, from the slot
\* that did not run, wherever the other tasks are when it ends them.
THEOREM SuccessBootsBesideOthers == Spec => Ota!SuccessBootsNewImage
<1>1. ASSUME PartsInv, [Next]_vars, pc = "rebootDelay", pc' = "off"
      PROVE  booted' # booted /\ Ota!Holds(booted', image)
  <2>1. OtaMoves \/ HostMoves \/ ConnectionEnds \/ Restart
    BY <1>1 DEF Next, LedMoves, OthersSend, LongPress, WifiMoves, JoinEnds, ApDrops, NetMoves,
       vars, otaVars
  <2>2. OtaProofs!Next
    BY <2>1, OtaSteps DEF OtaMoves, HostMoves, ConnectionEnds, Restart, Ota!OtaStep
  <2>3. OtaProofs!Transfer
    BY <1>1 DEF PartsInv, OtaInv
  <2>4. booted' # booted /\ OtaProofs!Holds(booted', image)
    BY <1>1, <2>2, <2>3, PartAssumptions, OtaProofs!RestartBoots
  <2> QED
    BY <2>4 DEF Ota!Holds, OtaProofs!Holds, Ota!Word, OtaProofs!Word
<1>2. Init => PartsInv
  BY InitIInv, PartsInit DEF PartsInv
<1>3. PartsInv /\ [Next]_vars =>
        [pc = "rebootDelay" /\ pc' = "off"
           => booted' # booted /\ Ota!Holds(booted', image)]_(Ota!vars)
  BY <1>1
<1> QED
  BY <1>2, <1>3, PartsStep, PTL DEF Spec, Ota!SuccessBootsNewImage
===============================================================================
