------------------------------- MODULE WifiTask -------------------------------
(***************************************************************************)
(* wifi_task (main.rs:172-271) with the tail of main that waits for the    *)
(* first long press: brings Wi-Fi up and down on WIFI_TOGGLE, reconnects,  *)
(* obtains an address, and reports its progress on LED_CHANNEL.            *)
(*                                                                         *)
(* The control points are the awaits.  A select() that is entered with a   *)
(* long press pending takes it at once, since its first future has only    *)
(* just started; one that is suspended prefers its first future.  Time is  *)
(* abstract: a timer may expire whenever its await is reached.             *)
(*                                                                         *)
(* External: the Wi-Fi driver (`station`, `dropEvent`), the network stack  *)
(* run by net_task (`link`, `ip`), and the user.                           *)
(***************************************************************************)
EXTENDS LedChannel

VARIABLES wpc,               \* where main, then wifi_task, stands
          toggle,            \* WIFI_TOGGLE holds a long press
          wifiActive,        \* WIFI_ACTIVE
          station,           \* the radio
          dropEvent,         \* StaDisconnected raised and not consumed
          link,              \* is_link_up, as last seen by net_task
          ip,                \* the IPv4 configuration
          wanted,            \* history: an odd number of long presses was latched; one
                             \* that a pending press absorbs does not count
          unseenDrop         \* history: the AP dropped the station out of wifi_task's sight

driverVars == <<station, dropEvent>>
netVars == <<link, ip>>
history == <<wanted, unseenDrop>>
wifiVars == <<wpc, toggle, station, dropEvent, link, ip, wanted, unseenDrop>>
vars == <<queue, wifiActive, wifiVars>>

\* Wi-Fi is up, or on its way up.
OnPath == {"sendConnecting", "starting", "connecting", "retryWait", "linkWait",
           "dhcpWait", "sendConnected", "online"}

OffPath == {"mainWait", "disconnecting", "stopping", "sendOff", "redHold",
            "sendResume", "idle"}

TypeOK ==
  /\ ChannelTypeOK
  /\ wpc \in OnPath \cup OffPath
  /\ station \in {"stopped", "starting", "idle", "joining", "associated"}
  /\ ip \in {"none", "dhcp", "static"}
  /\ {toggle, wifiActive, dropEvent, link, wanted, unseenDrop} \subseteq BOOLEAN

Init ==
  /\ queue = << >>
  /\ wpc = "mainWait"
  /\ toggle = FALSE
  /\ wifiActive = FALSE
  /\ station = "stopped"
  /\ dropEvent = FALSE
  /\ link = FALSE
  /\ ip = "none"
  /\ wanted = FALSE
  /\ unseenDrop = FALSE
-------------------------------------------------------------------------------
Goto(from, to) == wpc = from /\ wpc' = to

\* A suspended WIFI_TOGGLE.wait() completes.
TakeToggle(from, to) == toggle /\ toggle' = FALSE /\ Goto(from, to)

\* Entering select(.., WIFI_TOGGLE.wait()).
EnterSelect(from, to) ==
  \/ TakeToggle(from, "disconnecting")
  \/ ~toggle /\ UNCHANGED toggle /\ Goto(from, to)

\* main, and the bottom of wifi_task's loop: the next long press turns Wi-Fi on.
TurnOn ==
  /\ \E from \in {"mainWait", "idle"} : TakeToggle(from, "sendConnecting")
  /\ UNCHANGED <<queue, wifiActive, driverVars, netVars, history>>

\* ShowWifiConnecting is queued; start_async begins, also when the radio is started.
SendConnecting ==
  /\ Send("ShowWifiConnecting")
  /\ Goto("sendConnecting", "starting")
  /\ station' = IF station = "stopped" THEN "starting" ELSE station
  /\ UNCHANGED <<toggle, wifiActive, dropEvent, netVars, history>>

\* start_async completes, Wi-Fi is flagged active, and connect_async begins.
Started ==
  /\ EnterSelect("starting", "connecting")
  /\ station' = "joining"
  /\ dropEvent' = FALSE /\ unseenDrop' = FALSE
  /\ wifiActive' = TRUE
  /\ UNCHANGED <<queue, netVars, wanted>>

\* connect_async succeeds; wait_for_ip starts by switching the stack to DHCP.
Connected ==
  /\ station = "associated"
  /\ EnterSelect("connecting", "linkWait")
  /\ ip' = "none"
  /\ UNCHANGED <<queue, wifiActive, driverVars, link, history>>

ConnectFailed ==
  /\ station = "idle"
  /\ EnterSelect("connecting", "retryWait")
  /\ UNCHANGED <<queue, wifiActive, driverVars, netVars, history>>

RetryAfterDelay ==
  /\ EnterSelect("retryWait", "connecting")
  /\ station' = "joining"
  /\ dropEvent' = FALSE /\ unseenDrop' = FALSE
  /\ UNCHANGED <<queue, wifiActive, netVars, wanted>>

LinkIsUp ==
  /\ link
  /\ Goto("linkWait", "dhcpWait")
  /\ UNCHANGED <<queue, toggle, wifiActive, driverVars, netVars, history>>

\* The poll of config_v4, every 500 ms.
LeaseSeen ==
  /\ ip # "none"
  /\ Goto("dhcpWait", "sendConnected")
  /\ UNCHANGED <<queue, toggle, wifiActive, driverVars, netVars, history>>

\* DHCP_TIMEOUT expires between two polls: a lease that came since is not looked at.
DhcpTimesOut ==
  /\ Goto("dhcpWait", "sendConnected")
  /\ ip' = "static"
  /\ UNCHANGED <<queue, toggle, wifiActive, driverVars, link, history>>

\* ShowWifiConnected is queued and wait_for_event(StaDisconnected) begins; whether the
\* driver forgets a disconnection raised before the wait is left open.
SendConnected ==
  /\ Send("ShowWifiConnected")
  /\ \/ dropEvent /\ Goto("sendConnected", "sendConnecting") /\ UNCHANGED toggle
     \/ EnterSelect("sendConnected", "online")
  /\ dropEvent' = FALSE
  /\ UNCHANGED <<wifiActive, station, netVars, history>>

\* Mutants: a drop is ignored, or stops Wi-Fi.
MutForgetDrop == "online"
MutStopOnDrop == "disconnecting"

AfterDrop == "sendConnecting"

\* The AP dropped us: start over.
Dropped ==
  /\ dropEvent
  /\ Goto("online", AfterDrop)
  /\ dropEvent' = FALSE
  /\ UNCHANGED <<queue, toggle, wifiActive, station, netVars, history>>

\* Mutant: wait_for_ip is not raced against WIFI_TOGGLE.
MutUninterruptible == {"connecting", "retryWait", "online"}

\* The awaits of a select() with WIFI_TOGGLE.wait().
Interruptible == {"connecting", "retryWait", "linkWait", "dhcpWait", "online"}

TurnOff ==
  /\ \E from \in Interruptible :
       /\ TakeToggle(from, "disconnecting")
       /\ from = "online" => ~dropEvent
  /\ UNCHANGED <<queue, wifiActive, driverVars, netVars, history>>

\* Mutant: WIFI_ACTIVE is cleared before the radio is stopped.
MutInactiveEarly ==
  /\ Goto("disconnecting", "stopping")
  /\ wifiActive' = FALSE
  /\ UNCHANGED <<queue, toggle, driverVars, netVars, history>>

\* disconnect_async completes; a cancelled connect_async may still associate.
Disconnected ==
  /\ Goto("disconnecting", "stopping")
  /\ station' = IF station = "associated" THEN "idle" ELSE station
  /\ UNCHANGED <<queue, toggle, wifiActive, dropEvent, netVars, history>>

\* stop_async completes.
Stopped ==
  /\ Goto("stopping", "sendOff")
  /\ station' = "stopped"
  /\ dropEvent' = FALSE /\ unseenDrop' = FALSE
  /\ wifiActive' = FALSE
  /\ UNCHANGED <<queue, toggle, netVars, wanted>>

SendOff ==
  /\ Send("ShowWifiOff")
  /\ Goto("sendOff", "redHold")
  /\ UNCHANGED <<toggle, wifiActive, driverVars, netVars, history>>

RedHeld ==
  /\ Goto("redHold", "sendResume")
  /\ UNCHANGED <<queue, toggle, wifiActive, driverVars, netVars, history>>

\* Mutant: the red is held and not ended.
MutKeepRed ==
  /\ Goto("sendResume", "idle")
  /\ UNCHANGED <<queue, toggle, wifiActive, driverVars, netVars, history>>

SendResume ==
  /\ Send("ResumeAnimation")
  /\ Goto("sendResume", "idle")
  /\ UNCHANGED <<toggle, wifiActive, driverVars, netVars, history>>

WifiStep ==
  \/ TurnOn \/ SendConnecting \/ Started \/ Connected \/ ConnectFailed \/ RetryAfterDelay
  \/ LinkIsUp \/ LeaseSeen \/ DhcpTimesOut \/ SendConnected \/ Dropped
  \/ TurnOff \/ Disconnected \/ Stopped \/ SendOff \/ RedHeld \/ SendResume
-------------------------------------------------------------------------------
\* Environment.

\* button_task signals WIFI_TOGGLE: a latch, so a press that was not taken yet absorbs it.
LongPress ==
  /\ toggle' = TRUE
  /\ wanted' = IF toggle THEN wanted ELSE ~wanted
  /\ UNCHANGED <<queue, wpc, wifiActive, driverVars, netVars, unseenDrop>>

JoinSucceeds ==
  /\ station = "joining"
  /\ station' = "associated"
  /\ UNCHANGED <<queue, wpc, toggle, wifiActive, dropEvent, netVars, history>>

JoinFails ==
  /\ station = "joining"
  /\ station' = "idle"
  /\ UNCHANGED <<queue, wpc, toggle, wifiActive, dropEvent, netVars, history>>

ApDrops ==
  /\ station = "associated"
  /\ station' = "idle"
  /\ dropEvent' = TRUE
  /\ unseenDrop' = (wpc # "online")
  /\ UNCHANGED <<queue, wpc, toggle, wifiActive, netVars, wanted>>

\* net_task follows the state of the radio; losing the link loses the lease.
LinkChanges ==
  /\ link # (station = "associated")
  /\ link' = ~link
  /\ ip' = IF link /\ ip = "dhcp" THEN "none" ELSE ip
  /\ UNCHANGED <<queue, wpc, toggle, wifiActive, driverVars, history>>

\* "none" is the stack in DHCP mode without a lease.
LeaseArrives ==
  /\ link /\ station = "associated" /\ ip = "none"
  /\ ip' = "dhcp"
  /\ UNCHANGED <<queue, wpc, toggle, wifiActive, driverVars, link, history>>

LedTaskReceives == \E cmd \in Command : Receive(cmd) /\ UNCHANGED <<wifiActive, wifiVars>>

Environment ==
  \/ LongPress \/ JoinSucceeds \/ JoinFails \/ ApDrops
  \/ LinkChanges \/ LeaseArrives \/ LedTaskReceives

Next == WifiStep \/ Environment

\* The executor polls wifi_task, net_task and led_task when they are woken, timers expire,
\* and the driver ends every attempt to join; nothing makes an AP answer.
Fairness ==
  /\ WF_vars(WifiStep)
  /\ WF_vars(JoinSucceeds \/ JoinFails)
  /\ WF_vars(LinkChanges)
  /\ WF_vars(LedTaskReceives)

Spec == Init /\ [][Next]_vars /\ Fairness
-------------------------------------------------------------------------------
\* Wi-Fi is on, or on its way up, exactly when the long presses that were latched so far add
\* up to "on": no failure to join, drop, timeout or retry turns it on or off by itself, no
\* latched press is taken twice, and a pending one is the only difference.  A press that
\* comes while another one is pending is not latched and not counted here: it is lost
\* (EveryPressToggles in WifiToggle).
WifiFollowsPresses == wpc \in OnPath <=> (wanted # toggle)

\* The radio never runs unflagged: from the moment start_async has completed to the moment
\* stop_async has, WIFI_ACTIVE keeps the CPU awake (main.rs:56-57), retries included.
RunningRadioIsFlagged == station \in {"idle", "joining", "associated"} => wifiActive

\* A long press turns Wi-Fi off from wherever it is, also without an AP, a link or a
\* lease, and the animation is resumed (main.rs:224-232).
PressTurnsOff == ~wanted ~> wpc \in {"mainWait", "idle"} \/ wanted

\* However often the user presses, a latched press is taken in the end: every await of
\* wifi_task either races it or ends by itself.
PressIsTaken == toggle ~> ~toggle

ApStaysUp == <>[][~ApDrops /\ ~JoinFails]_vars

Online == wpc = "online" /\ station = "associated"

\* Once the AP accepts the station and keeps it, Wi-Fi comes up and stays up, however often
\* the AP dropped the station before, as long as wifi_task saw it (main.rs:206).
ReconnectsAfterDrop == ApStaysUp => (wanted ~> Online \/ ~wanted \/ unseenDrop)

\* main.rs:206: "Stay connected until toggled off, or the AP drops us (then reconnect)":
\* the same, whenever the AP dropped the station.
EveryDropReconnects == ApStaysUp => (wanted ~> Online \/ ~wanted)
===============================================================================
