------------------------------ MODULE AccelConfig ------------------------------
(***************************************************************************)
(* What the Adxl362 driver promises its caller: the accelerometer has a    *)
(* configuration of independent settings; a call that returns Ok has given *)
(* its own settings the values asked for, a call that returns an error may *)
(* have disturbed its own settings, and no call touches any other.         *)
(***************************************************************************)
EXTENDS Naturals

CONSTANT Request             \* the calls, with their arguments

VARIABLES config,            \* the settings in force
          request,           \* the last call
          result             \* what it returned: "ok", "spi" or "invalidId"

\* A detector as a reset leaves it.
NoDetector == [enabled |-> FALSE, threshold |-> 0, time |-> 0, referenced |-> FALSE]

Default == [odr |-> "Hz100", range |-> "G2", noise |-> "Normal", measuring |-> FALSE,
            act |-> NoDetector, inact |-> NoDetector, linked |-> FALSE,
            int1 |-> {}, int2 |-> {}]

Setting == DOMAIN Default

Detector(arg) == [enabled |-> TRUE, threshold |-> arg.threshold, time |-> arg.time,
                  referenced |-> arg.referenced]

\* The settings a call owns, with the values it asks for.
Asked(req) ==
  CASE req.op = "init"                 -> Default
    [] req.op = "configure_filter"     -> [odr |-> req.arg.odr, range |-> req.arg.range,
                                           noise |-> req.arg.noise]
    [] req.op = "set_active"           -> [measuring |-> req.arg]
    [] req.op = "configure_activity"   -> [act |-> Detector(req.arg)]
    [] req.op = "configure_inactivity" -> [inact |-> Detector(req.arg)]
    [] req.op = "enable_linked_mode"   -> [linked |-> TRUE]
    [] req.op = "configure_interrupt1" -> [int1 |-> req.arg]
    [] req.op = "configure_interrupt2" -> [int2 |-> req.arg]

Init == config = Default

Agree(f, g, S) == \A s \in S : f[s] = g[s]

Call(req) ==
  /\ request' = req
  /\ Agree(config', config, Setting \ DOMAIN Asked(req))
  /\ result' = "ok" => Agree(config', Asked(req), DOMAIN Asked(req))

Next == \E req \in Request : Call(req)

Spec == Init /\ [][Next]_<<config, request, result>>
===============================================================================
