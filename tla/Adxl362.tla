-------------------------------- MODULE Adxl362 --------------------------------
(***************************************************************************)
(* The Adxl362 driver (src/src/adxl362): every call is a sequence of SPI   *)
(* transactions on the registers of the accelerometer and stops at the     *)
(* first that fails.  The driver owns the bus (&mut self), so nothing      *)
(* comes between the transactions of a call, and a value read for a read-  *)
(* modify-write is the one still there when it is written back.            *)
(*                                                                         *)
(* A control register is the set of the bits that are set, a data register *)
(* its number.                                                             *)
(***************************************************************************)
EXTENDS Integers, Sequences

CONSTANTS Rates, Ranges, Noises,           \* arguments of configure_filter
          ActThresholds, InactThresholds,  \* 11-bit thresholds
          ActTimes, InactTimes,            \* an u8 and an u16
          IntMaps                          \* sets of conditions routed to a pin

VARIABLES regs,              \* the registers the driver writes
          request,           \* the last call
          result             \* what it returned

vars == <<regs, request, result>>

\* The bits of each rate, range and noise mode, and the fields they are in.
OdrBits == [Hz12_5 |-> {}, Hz25 |-> {0}, Hz50 |-> {1}, Hz100 |-> {0, 1},
            Hz200 |-> {2}, Hz400 |-> {0, 2}]
RangeBits == [G2 |-> {}, G4 |-> {6}, G8 |-> {7}]
NoiseBits == [Normal |-> {}, LowNoise |-> {4}, UltraLowNoise |-> {5}]

OdrField == {0, 1, 2}
RangeField == {6, 7}
NoiseField == {4, 5}

MeasureField == {0, 1}
MeasureOn == {1}
MeasureStandby == {}

ActEn == 0
ActRef == 1
InactEn == 2
InactRef == 3
LinkLoopField == {4, 5}
Linked == {4}

IntBit == [data_ready |-> 0, act |-> 4, inact |-> 5, awake |-> 6, active_low |-> 7]

\* InterruptConfig::bits.
IntBits(conditions) == {IntBit[c] : c \in conditions}

Bit == 0..7
U8 == 0..255
U16 == 0..(256 * 256 - 1)
Threshold == 0..2047

ASSUME ParameterAssumption ==
  /\ Rates \subseteq DOMAIN OdrBits
  /\ Ranges \subseteq DOMAIN RangeBits
  /\ Noises \subseteq DOMAIN NoiseBits
  /\ ActThresholds \subseteq Threshold /\ InactThresholds \subseteq Threshold
  /\ ActTimes \subseteq U8 /\ InactTimes \subseteq U16
  /\ IntMaps \subseteq SUBSET DOMAIN IntBit

DetectorArg(thresholds, times) ==
  [threshold : thresholds, time : times, referenced : BOOLEAN]

Request ==
       [op : {"init", "enable_linked_mode"}]
  \cup [op : {"configure_filter"}, arg : [odr : Rates, range : Ranges, noise : Noises]]
  \cup [op : {"set_active"}, arg : BOOLEAN]
  \cup [op : {"configure_activity"}, arg : DetectorArg(ActThresholds, ActTimes)]
  \cup [op : {"configure_inactivity"}, arg : DetectorArg(InactThresholds, InactTimes)]
  \cup [op : {"configure_interrupt1", "configure_interrupt2"}, arg : IntMaps]

ControlRegister == {"ACT_INACT_CTL", "INTMAP1", "INTMAP2", "FILTER_CTL", "POWER_CTL"}

DataRegister == {"THRESH_ACT_L", "THRESH_ACT_H", "TIME_ACT", "THRESH_INACT_L",
                 "THRESH_INACT_H", "TIME_INACT_L", "TIME_INACT_H"}

TypeOK ==
  /\ DOMAIN regs = ControlRegister \cup DataRegister
  /\ \A r \in ControlRegister : regs[r] \subseteq Bit
  /\ \A r \in DataRegister : regs[r] \in U8
  /\ result \in {"ok", "spi", "invalidId"}

\* The registers after a reset: 100 Hz, 2 g and half bandwidth, all else zero.
ResetRegs ==
  [r \in ControlRegister \cup DataRegister |->
     IF r = "FILTER_CTL" THEN {0, 1, 4} ELSE IF r \in ControlRegister THEN {} ELSE 0]

Init ==
  /\ regs = ResetRegs
  /\ request = [op |-> "init"]
  /\ result = "ok"
-------------------------------------------------------------------------------
Write(register, value) == [register |-> register, value |-> value]

\* Mutant: the lower part is not masked.
MutLow(n) == n

\* A threshold is split over two registers, the upper one of three bits; so is a time.
Low(n) == n % 256
ThresholdHigh(n) == (n \div 256) % 8
High(n) == n \div 256

\* Mutant: the reference bit of an earlier call is not cleared.
MutEnable(bit, refBit, referenced) ==
  regs["ACT_INACT_CTL"] \cup {bit} \cup (IF referenced THEN {refBit} ELSE {})

\* ACT_INACT_CTL with one detector enabled; the other one and LINKLOOP are kept.
Enable(bit, refBit, referenced) ==
  (regs["ACT_INACT_CTL"] \ {refBit}) \cup {bit} \cup (IF referenced THEN {refBit} ELSE {})

\* The writes of a call, in order; each register is written at most once.
Writes(req) ==
  CASE req.op = "configure_filter" ->
         << Write("FILTER_CTL", RangeBits[req.arg.range] \cup OdrBits[req.arg.odr]),
            Write("POWER_CTL", (regs["POWER_CTL"] \ NoiseField) \cup NoiseBits[req.arg.noise]) >>
    [] req.op = "set_active" ->
         << Write("POWER_CTL", (regs["POWER_CTL"] \ MeasureField)
                                 \cup (IF req.arg THEN MeasureOn ELSE MeasureStandby)) >>
    [] req.op = "configure_activity" ->
         << Write("THRESH_ACT_L", Low(req.arg.threshold)),
            Write("THRESH_ACT_H", ThresholdHigh(req.arg.threshold)),
            Write("TIME_ACT", req.arg.time),
            Write("ACT_INACT_CTL", Enable(ActEn, ActRef, req.arg.referenced)) >>
    [] req.op = "configure_inactivity" ->
         << Write("THRESH_INACT_L", Low(req.arg.threshold)),
            Write("THRESH_INACT_H", ThresholdHigh(req.arg.threshold)),
            Write("TIME_INACT_L", Low(req.arg.time)),
            Write("TIME_INACT_H", High(req.arg.time)),
            Write("ACT_INACT_CTL", Enable(InactEn, InactRef, req.arg.referenced)) >>
    [] req.op = "enable_linked_mode" ->
         << Write("ACT_INACT_CTL", (regs["ACT_INACT_CTL"] \ LinkLoopField) \cup Linked) >>
    [] req.op = "configure_interrupt1" -> << Write("INTMAP1", IntBits(req.arg)) >>
    [] req.op = "configure_interrupt2" -> << Write("INTMAP2", IntBits(req.arg)) >>

\* The registers after the first n of the writes.
Applied(writes, n) ==
  [r \in DOMAIN regs |->
     IF \E i \in 1..n : writes[i].register = r
     THEN writes[CHOOSE i \in 1..n : writes[i].register = r].value
     ELSE regs[r]]

\* A configuring call: all its writes, or those up to the transaction that failed, whether
\* or not the device took the write that is reported to have failed.
Configure(req) ==
  /\ req.op # "init"
  /\ request' = req
  /\ \E n \in 0..Len(Writes(req)) :
       /\ regs' = Applied(Writes(req), n)
       /\ \/ result' = "spi"
          \/ n = Len(Writes(req)) /\ result' = "ok"

\* Mutant: the device is not reset.
MutReset == [regs EXCEPT !["POWER_CTL"] = MeasureStandby]

Reset == ResetRegs

\* init: standby, soft reset, then the identification, which may fail as well.
InitDevice(req) ==
  /\ req.op = "init"
  /\ request' = req
  /\ \/ regs' \in {regs, [regs EXCEPT !["POWER_CTL"] = MeasureStandby]} /\ result' = "spi"
     \/ regs' = Reset /\ result' \in {"spi", "invalidId", "ok"}

Call(req) == InitDevice(req) \/ Configure(req)

Next == \E req \in Request : Call(req)

Spec == Init /\ [][Next]_vars
-------------------------------------------------------------------------------
\* What the registers mean.
Decode(bits, value) == CHOOSE name \in DOMAIN bits : bits[name] = value

DetectorIs(enBit, refBit, threshold, time) ==
  [enabled |-> enBit \in regs["ACT_INACT_CTL"], threshold |-> threshold, time |-> time,
   referenced |-> refBit \in regs["ACT_INACT_CTL"]]

Routed(value) == {c \in DOMAIN IntBit : IntBit[c] \in value}

ConfigInForce ==
  [odr       |-> Decode(OdrBits, regs["FILTER_CTL"] \cap OdrField),
   range     |-> Decode(RangeBits, regs["FILTER_CTL"] \cap RangeField),
   noise     |-> Decode(NoiseBits, regs["POWER_CTL"] \cap NoiseField),
   measuring |-> regs["POWER_CTL"] \cap MeasureField = MeasureOn,
   act       |-> DetectorIs(ActEn, ActRef, regs["THRESH_ACT_L"] + 256 * regs["THRESH_ACT_H"],
                            regs["TIME_ACT"]),
   inact     |-> DetectorIs(InactEn, InactRef,
                            regs["THRESH_INACT_L"] + 256 * regs["THRESH_INACT_H"],
                            regs["TIME_INACT_L"] + 256 * regs["TIME_INACT_H"]),
   linked    |-> regs["ACT_INACT_CTL"] \cap LinkLoopField = Linked,
   int1      |-> Routed(regs["INTMAP1"]),
   int2      |-> Routed(regs["INTMAP2"])]

Abstract == INSTANCE AccelConfig WITH config <- ConfigInForce

\* The driver implements the settings it promises: in whatever order calls are made and
\* fail, a successful call gives its settings the values asked for, and no call disturbs
\* a setting that shares a register with its own (adxl362/mod.rs:211-310).
SettingsAreIndependent == Abstract!Spec
===============================================================================
