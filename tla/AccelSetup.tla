------------------------------ MODULE AccelSetup ------------------------------
(***************************************************************************)
(* main configures the accelerometer at every start (main.rs:336-371), deep*)
(* sleep included.  The accelerometer keeps its power meanwhile, and may   *)
(* still hold, and run with, whatever an earlier session or an earlier     *)
(* firmware left in it: half of a configuration, if that one failed.       *)
(***************************************************************************)
EXTENDS Adxl362

VARIABLES session,           \* "earlier", "setup", "running", or "panicked"
          done               \* how many of MainCalls have returned Ok

setupVars == <<vars, session, done>>

MotionConditions == {"act", "inact"}

\* Mutant: the measurement is started before the interrupt is mapped.
MutMainCalls == <<
  [op |-> "init"],
  [op |-> "configure_filter", arg |-> [odr |-> "Hz100", range |-> "G2", noise |-> "Normal"]],
  [op |-> "configure_activity",
   arg |-> [threshold |-> 200, time |-> 3, referenced |-> TRUE]],
  [op |-> "configure_inactivity",
   arg |-> [threshold |-> 50, time |-> 300, referenced |-> TRUE]],
  [op |-> "enable_linked_mode"],
  [op |-> "set_active", arg |-> TRUE],
  [op |-> "configure_interrupt2", arg |-> MotionConditions] >>

\* What main asks of the driver, in order.
MainCalls == <<
  [op |-> "init"],
  [op |-> "configure_filter", arg |-> [odr |-> "Hz100", range |-> "G2", noise |-> "Normal"]],
  [op |-> "configure_activity",
   arg |-> [threshold |-> 200, time |-> 3, referenced |-> TRUE]],
  [op |-> "configure_inactivity",
   arg |-> [threshold |-> 50, time |-> 300, referenced |-> TRUE]],
  [op |-> "enable_linked_mode"],
  [op |-> "configure_interrupt2", arg |-> MotionConditions],
  [op |-> "set_active", arg |-> TRUE] >>

\* They are calls with arguments of the types the driver takes.
ASSUME MainCallsAssumption == \A i \in 1..Len(MainCalls) : MainCalls[i] \in Request

SetupInit ==
  /\ Init
  /\ session = "earlier"
  /\ done = 0

\* What an earlier firmware did: any calls.
EarlierCalls ==
  /\ session = "earlier"
  /\ Next
  /\ UNCHANGED <<session, done>>

\* The CPU starts, at any moment.
Start ==
  /\ session' = "setup"
  /\ done' = 0
  /\ UNCHANGED vars

\* Each call is unwrapped: an error panics, and nothing runs until the next start.
MainCall ==
  /\ session = "setup"
  /\ Call(MainCalls[done + 1])
  /\ IF result' # "ok" THEN session' = "panicked" /\ UNCHANGED done
     ELSE /\ done' = done + 1
          /\ session' = IF done' = Len(MainCalls) THEN "running" ELSE "setup"

SetupNext == EarlierCalls \/ Start \/ MainCall

SetupSpec == SetupInit /\ [][SetupNext]_setupVars
-------------------------------------------------------------------------------
Motion(threshold, time) ==
  [enabled |-> TRUE, threshold |-> threshold, time |-> time, referenced |-> TRUE]

\* Once main gets past the setup, the accelerometer has exactly the configuration the
\* tasks rely on (linked mode, both detections on INT2 and active high, nothing else
\* routed), whatever an earlier session left in the registers.
RunningIsConfigured ==
  session = "running" =>
    ConfigInForce = [odr |-> "Hz100", range |-> "G2", noise |-> "Normal", measuring |-> TRUE,
                     act |-> Motion(200, 3), inact |-> Motion(50, 300), linked |-> TRUE,
                     int1 |-> {}, int2 |-> MotionConditions]

\* The accelerometer never measures with half of the new configuration: from the reset on
\* it stays in standby until every other setting is in force, also when a call fails in
\* between, so no detection is made, and lost, before INT2 can report it.
NeverMeasuresHalfConfigured ==
  session \in {"setup", "panicked"} /\ done >= 1 /\ ConfigInForce.measuring =>
    ConfigInForce.linked /\ ConfigInForce.int2 = MotionConditions
===============================================================================
