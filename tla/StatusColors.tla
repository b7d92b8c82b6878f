------------------------------ MODULE StatusColors ------------------------------
(***************************************************************************)
(* led_task, wifi_task and ota_task together: two tasks put status colours *)
(* on the LEDs through one channel, and each ends its own by the same      *)
(* ResumeAnimation.  button_task and sensor_task send to the channel too.  *)
(*                                                                         *)
(* The tasks share the executor: while ota_task does not suspend, no other *)
(* task moves.  Wi-Fi carries the host's connection; when it goes down the *)
(* connection stays open until its timeout, perhaps past the next Wi-Fi    *)
(* session.  A restart ends everything at once.                            *)
(*                                                                         *)
(* Frames are the subject of LedTask, and power and flash failures that of *)
(* OtaTask: here no ticker period elapses and nothing of the kind fails.   *)
(***************************************************************************)
EXTENDS LedChannel, Integers

CONSTANTS SlotSize, ChunkSize, Image, Endings,               \* OtaTask
          OtherCommand       \* what button_task and sensor_task send

ASSUME OtherAssumption == OtherCommand \subseteq {"NextEffect", "SetEnabled(true)"}

\* What OtaTask assumes of its parameters.
ASSUME TransferAssumption ==
  /\ SlotSize \in Nat \ {0} /\ ChunkSize \in Nat \ {0}
  /\ Image \subseteq Nat \ {0}
  /\ Endings \subseteq {"reset", "timeout", "fin"}

VARIABLES effect, enabled, overridden, shown,                  \* LedTask
          wpc, toggle, wifiActive, station, dropEvent, link, ip, wanted, unseenDrop,
          pc, socket, image, unsent, buffered, received,       \* OtaTask
          slots, selected, fallback, imgState, booted

Led == INSTANCE LedTask WITH lag <- 0, MaxLag <- 1
Wifi == INSTANCE WifiTask
Ota == INSTANCE OtaTask WITH FlashFaults <- {}, RollbackBootloader <- FALSE

ledVars == <<effect, enabled, overridden, shown>>
wifiVars == <<wpc, toggle, wifiActive, station, dropEvent, link, ip, wanted, unseenDrop>>
otaVars == <<pc, socket, image, unsent, buffered, received, slots, selected, fallback,
             imgState, booted>>
vars == <<queue, ledVars, wifiVars, otaVars>>

Init == Led!Init /\ Wifi!Init /\ Ota!Init
-------------------------------------------------------------------------------
LedMoves ==
  /\ Ota!Suspended /\ Led!HandleCommand
  /\ UNCHANGED <<wifiVars, otaVars>>

\* button_task and sensor_task.
OthersSend ==
  /\ Ota!Suspended
  /\ \E cmd \in OtherCommand : Send(cmd)
  /\ UNCHANGED <<ledVars, wifiVars, otaVars>>

LongPress ==
  /\ Ota!Suspended /\ Wifi!LongPress
  /\ UNCHANGED <<ledVars, otaVars>>

WifiMoves ==
  /\ Ota!Suspended /\ Wifi!WifiStep
  /\ UNCHANGED <<ledVars, otaVars>>

\* The driver answers whatever the tasks do.
JoinEnds ==
  /\ Wifi!JoinSucceeds \/ Wifi!JoinFails
  /\ UNCHANGED <<ledVars, otaVars>>

ApDrops ==
  /\ Wifi!ApDrops
  /\ UNCHANGED <<ledVars, otaVars>>

NetMoves ==
  /\ Ota!Suspended
  /\ Wifi!LinkChanges \/ Wifi!LeaseArrives
  /\ UNCHANGED <<ledVars, otaVars>>

\* main spawns ota_task when the first long press turns Wi-Fi on.
OtaMoves ==
  /\ pc = "off" => wpc # "mainWait"
  /\ pc # "rebootDelay"
  /\ Ota!OtaStep
  /\ UNCHANGED <<ledVars, wifiVars>>

\* The host reaches the device only over Wi-Fi.
Reachable == link /\ ip # "none"

HostMoves ==
  /\ Reachable
  /\ Ota!HostConnects \/ Ota!HostWrites \/ Ota!HostExits
  /\ UNCHANGED <<ledVars, wifiVars>>

ConnectionEnds ==
  /\ Ota!ConnectionEnds
  /\ UNCHANGED <<ledVars, wifiVars>>

\* A restart: main starts over, with a dark strip and Wi-Fi off.
RamLost ==
  /\ effect' = "Rainbow" /\ enabled' = TRUE /\ overridden' = FALSE /\ shown' = "black"
  /\ wpc' = "mainWait" /\ toggle' = FALSE /\ wifiActive' = FALSE
  /\ station' = "stopped" /\ dropEvent' = FALSE
  /\ link' = FALSE /\ ip' = "none"
  /\ wanted' = FALSE /\ unseenDrop' = FALSE

Restart == Ota!SoftwareReset /\ RamLost

Next ==
  \/ LedMoves \/ OthersSend \/ LongPress
  \/ WifiMoves \/ JoinEnds \/ ApDrops \/ NetMoves
  \/ OtaMoves \/ HostMoves \/ ConnectionEnds \/ Restart

\* As in the modules, but strong for the tasks that ota_task keeps from the executor: a
\* task that was woken stays woken meanwhile, and is polled in the next round.
Fairness ==
  /\ SF_vars(LedMoves) /\ SF_vars(WifiMoves) /\ SF_vars(NetMoves)
  /\ WF_vars(OtaMoves \/ Restart)
  /\ WF_vars(JoinEnds)
  /\ WF_vars((HostMoves /\ unsent' < unsent) \/ ConnectionEnds)

Spec == Init /\ [][Next]_vars /\ Fairness
-------------------------------------------------------------------------------
\* Neither Wi-Fi nor a transfer has anything to show.
NothingToShow ==
  /\ wpc \in {"mainWait", "idle"}
  /\ pc \in {"off", "marking", "accept", "listening"}

\* No order in which the two tasks' colours and resumes reach the channel leaves a status
\* colour on when Wi-Fi is off and no transfer is left: the animation is always back
\* (ota_update.md:21-22).
NoStuckStatus == NothingToShow /\ queue = << >> => ~overridden

\* ota_task gives the executor back again and again: it is not caught in accept(), where a
\* host that stops early leaves it after its transfer (ota.rs:30-39; the run OtaSpins).
ExecutorTurns == []<>Ota!Suspended

\* Once the user leaves Wi-Fi off and the cube alone, the status colours end for good, also
\* that of a transfer which Wi-Fi cut off and which notices only at its timeout; unless a
\* host that stopped early has ota_task spin, with the ResumeAnimation unread in the channel
\* and the blue on for ever.
StatusEnds ==
  ExecutorTurns /\ <>[]~wanted /\ <>[][~OthersSend]_vars => <>[]~overridden

\* ota_update.md:18-20: the LEDs "stop the current animation and turn solid yellow while
\* connecting": the animation does not come back before a connection or another press.
Connecting == wpc \in {"connecting", "retryWait", "linkWait", "dhcpWait"}

YellowWhileConnecting ==
  [][Connecting /\ Connecting' /\ overridden /\ shown = "yellow" => overridden']_vars
===============================================================================
