------------------------------ MODULE LedChannel ------------------------------
(***************************************************************************)
(* LED_CHANNEL: the bounded FIFO that carries LedCommands from every task  *)
(* that wants to show something to led_task, the sole owner of the LEDs.   *)
(*                                                                         *)
(* `LED_CHANNEL.send(c).await` completes when there is room.  A task that  *)
(* waits for room is a task whose control point is the send and whose step *)
(* is not enabled, so no separate set of waiting senders is kept; the      *)
(* order in which waiting senders get a freed place is left open, as the   *)
(* channel wakes them without an order.                                    *)
(***************************************************************************)
EXTENDS Naturals, Sequences

CONSTANT ChannelCapacity     \* 4 in the firmware

ASSUME CapacityAssumption == ChannelCapacity \in Nat \ {0}

VARIABLE queue               \* commands sent and not yet received

Command == {"NextEffect", "SetEnabled(true)", "SetEnabled(false)",
            "ShowWifiConnecting", "ShowWifiConnected", "ShowWifiOff",
            "ShowOtaInProgress", "ShowOtaSuccess", "ResumeAnimation"}

ChannelTypeOK == queue \in Seq(Command) /\ Len(queue) <= ChannelCapacity

\* Mutant: a send that does not wait for room.
MutUnboundedSend(cmd) == queue' = Append(queue, cmd)

\* The step in which an awaited send completes.
Send(cmd) ==
  /\ Len(queue) < ChannelCapacity
  /\ queue' = Append(queue, cmd)

\* The step in which led_task takes the oldest command.
Receive(cmd) ==
  /\ queue # << >>
  /\ cmd = Head(queue)
  /\ queue' = Tail(queue)
===============================================================================
