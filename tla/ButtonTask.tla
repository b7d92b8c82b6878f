------------------------------ MODULE ButtonTask ------------------------------
(***************************************************************************)
(* button_task (main.rs:81-102): a short press selects the next effect, a  *)
(* press longer than LONG_PRESS_DURATION toggles Wi-Fi.                    *)
(*                                                                         *)
(* An edge wait is armed when its future is first polled, is fired by the  *)
(* interrupt, and is acted upon when the executor polls the task: what the *)
(* pin does between the interrupt and that poll reaches nobody.            *)
(***************************************************************************)
EXTENDS LedChannel

VARIABLES bpc,               \* where button_task stands
          level,             \* the pin; low is pressed
          edge,              \* the edge wait: armed for one edge, or fired
          timer,             \* the timer of with_timeout
          toggle,            \* WIFI_TOGGLE
          fresh              \* history: the button went down since the last reaction

buttonVars == <<bpc, level, edge, timer, toggle, fresh>>
vars == <<queue, buttonVars>>

TypeOK ==
  /\ ChannelTypeOK
  /\ bpc \in {"strapCheck", "strapArm", "strapWait", "waitFall", "timing", "sendNext",
              "waitRelease"}
  /\ level \in {"high", "low"}
  /\ edge \in {"none", "rise", "fall", "fired"}
  /\ timer \in {"off", "running", "over"}
  /\ toggle \in BOOLEAN
  /\ fresh \in BOOLEAN

\* GPIO9 is a strapping pin: it may read low after a reset.
Init ==
  /\ queue = << >>
  /\ bpc = "strapCheck"
  /\ level \in {"high", "low"}
  /\ edge = "none"
  /\ timer = "off"
  /\ toggle = FALSE
  /\ fresh = FALSE
-------------------------------------------------------------------------------
WaitFor(newEdge, newPc) == edge' = newEdge /\ bpc' = newPc

StrapCheck ==
  /\ bpc = "strapCheck"
  /\ IF level = "low" THEN bpc' = "strapArm" /\ UNCHANGED edge
     ELSE WaitFor("fall", "waitFall")
  /\ UNCHANGED <<queue, level, timer, toggle, fresh>>

StrapArm ==
  /\ bpc = "strapArm"
  /\ WaitFor("rise", "strapWait")
  /\ UNCHANGED <<queue, level, timer, toggle, fresh>>

StrapReleased ==
  /\ bpc = "strapWait"
  /\ edge = "fired"
  /\ WaitFor("none", "strapCheck")
  /\ UNCHANGED <<queue, level, timer, toggle, fresh>>

\* Mutant: the wait for the release has no timeout.
MutNoTimeout == "off"

LongPressTimer == "running"

PressSeen ==
  /\ bpc = "waitFall"
  /\ edge = "fired"
  /\ WaitFor("rise", "timing")
  /\ timer' = LongPressTimer
  /\ UNCHANGED <<queue, level, toggle, fresh>>

\* with_timeout polls the edge first.
ReleaseInTime ==
  /\ bpc = "timing"
  /\ edge = "fired"
  /\ WaitFor("none", "sendNext")
  /\ timer' = "off"
  /\ UNCHANGED <<queue, level, toggle, fresh>>

SendNext ==
  /\ bpc = "sendNext"
  /\ Send("NextEffect")
  /\ WaitFor("fall", "waitFall")
  /\ fresh' = FALSE
  /\ UNCHANGED <<level, timer, toggle>>

\* Mutant: the release after a long press is handled as one that came in time.
MutCountRelease == "timing"

AfterToggle == "waitRelease"

HeldTooLong ==
  /\ bpc = "timing"
  /\ edge # "fired" /\ timer = "over"
  /\ toggle' = TRUE
  /\ WaitFor("rise", AfterToggle)
  /\ timer' = "off"
  /\ fresh' = FALSE
  /\ UNCHANGED <<queue, level>>

Released ==
  /\ bpc = "waitRelease"
  /\ edge = "fired"
  /\ WaitFor("fall", "waitFall")
  /\ UNCHANGED <<queue, level, timer, toggle, fresh>>

ButtonStep ==
  \/ StrapCheck \/ StrapArm \/ StrapReleased
  \/ PressSeen \/ ReleaseInTime \/ SendNext \/ HeldTooLong \/ Released
-------------------------------------------------------------------------------
\* Environment: the user, the timer, and the tasks at the other ends.
Down ==
  /\ level = "high"
  /\ level' = "low"
  /\ edge' = IF edge = "fall" THEN "fired" ELSE edge
  /\ fresh' = TRUE
  /\ UNCHANGED <<queue, bpc, timer, toggle>>

Up ==
  /\ level = "low"
  /\ level' = "high"
  /\ edge' = IF edge = "rise" THEN "fired" ELSE edge
  /\ UNCHANGED <<queue, bpc, timer, toggle, fresh>>

TimerExpires ==
  /\ timer = "running"
  /\ timer' = "over"
  /\ UNCHANGED <<queue, bpc, level, edge, toggle, fresh>>

WifiTaskTakes ==
  /\ toggle
  /\ toggle' = FALSE
  /\ UNCHANGED <<queue, bpc, level, edge, timer, fresh>>

LedTaskReceives == \E cmd \in Command : Receive(cmd) /\ UNCHANGED buttonVars

OtherTaskSends ==
  \E cmd \in Command \ {"NextEffect"} : Send(cmd) /\ UNCHANGED buttonVars

Next ==
  \/ ButtonStep
  \/ Down \/ Up \/ TimerExpires \/ WifiTaskTakes \/ LedTaskReceives \/ OtherTaskSends

\* The executor polls button_task and led_task when they are woken, and the timer runs.
\* The user owes nothing, and no order among waiting senders is assumed.
Fairness ==
  /\ WF_vars(ButtonStep)
  /\ WF_vars(TimerExpires)
  /\ WF_vars(LedTaskReceives)

Spec == Init /\ [][Next]_vars /\ Fairness
-------------------------------------------------------------------------------
\* Every reaction has a press of its own: between two reactions (a NextEffect sent or
\* WIFI_TOGGLE signalled) the button went down, however presses, releases, the timer and
\* a full channel interleave; one press is never counted twice (main.rs:94-95).
OnePressOneReaction ==
  [][(bpc = "sendNext" /\ bpc' # bpc) \/ (~toggle /\ toggle') => fresh]_vars

\* A press whose falling edge was seen is answered, by an effect change or by a toggle,
\* also when its release was not seen, the user never lets go, or the other tasks have
\* left the channel full.
SeenPressIsAnswered ==
  <>[][~OtherTaskSends]_vars => (bpc = "timing" ~> bpc \in {"waitFall", "waitRelease"})
===============================================================================
