--------------------------- MODULE AccelSetup_proofs ---------------------------
(***************************************************************************)
(* The register-level driver implements independent settings, and main's   *)
(* seven calls always end in the configuration the tasks rely on: for all  *)
(* arguments the driver accepts, all failures of the bus and all restarts. *)
(***************************************************************************)
EXTENDS AccelSetup, TLAPS

Register == ControlRegister \cup DataRegister

\* A register holds what it held, or what one of the writes put there.
LEMMA OldOrWritten ==
  ASSUME NEW writes, NEW n \in Nat, NEW r \in DOMAIN regs
  PROVE  \/ Applied(writes, n)[r] = regs[r]
         \/ \E i \in 1..n : writes[i].register = r /\ Applied(writes, n)[r] = writes[i].value
BY DEF Applied

\* A register that is written once holds what was written.
LEMMA Written ==
  ASSUME NEW writes, NEW n \in Nat, NEW i \in 1..n, NEW r \in DOMAIN regs,
         \A j \in 1..n : writes[j].register = r <=> j = i
  PROVE  Applied(writes, n)[r] = writes[i].value
BY DEF Applied

\* A threshold and a time are split over two registers without loss.
LEMMA ThresholdSplits ==
  ASSUME NEW n \in Threshold
  PROVE  /\ Low(n) \in U8 /\ ThresholdHigh(n) \in U8
         /\ Low(n) + 256 * ThresholdHigh(n) = n
<1>1. n \in Nat /\ n < 2048
  BY DEF Threshold
<1>2. n \div 256 \in Int /\ n % 256 \in 0..255 /\ n = 256 * (n \div 256) + (n % 256)
  BY <1>1
<1>3. n \div 256 \in 0..7
  BY <1>1, <1>2
<1>4. \A m \in 0..7 : m % 8 = m
  OBVIOUS
<1> QED
  BY <1>2, <1>3, <1>4 DEF Low, ThresholdHigh, U8

LEMMA TimeSplits ==
  ASSUME NEW n \in U16
  PROVE  Low(n) \in U8 /\ High(n) \in U8 /\ Low(n) + 256 * High(n) = n
<1> DEFINE top == 256 * 256 - 1
<1>0. n \in 0..top /\ top \in Nat
  <2>1. n \in 0..top
    BY Zenon DEF U16
  <2>2. top \in Nat
    OBVIOUS
  <2> QED
    BY <2>1, <2>2
<1> HIDE DEF top
<1>1. n \in Nat /\ n < 256 * 256
  <2>1. n \in Nat /\ n <= top
    BY <1>0
  <2> QED
    BY <2>1 DEF top
<1>2. n \div 256 \in Int /\ n % 256 \in 0..255 /\ n = 256 * (n \div 256) + (n % 256)
  BY <1>1
<1>3. n \div 256 \in 0..255
  BY <1>1, <1>2
<1> QED
  BY <1>2, <1>3 DEF Low, High, U8

\* The bits of an interrupt map name its conditions.
LEMMA IntBitsRoutes ==
  ASSUME NEW conditions \in SUBSET DOMAIN IntBit
  PROVE  /\ IntBits(conditions) \subseteq Bit
         /\ Routed(IntBits(conditions)) = conditions
<1>1. DOMAIN IntBit = {"data_ready", "act", "inact", "awake", "active_low"}
  BY DEF IntBit
<1>2. \A c, d \in DOMAIN IntBit : IntBit[c] \in Bit /\ (IntBit[c] = IntBit[d] => c = d)
  BY <1>1 DEF IntBit, Bit
<1> QED
  BY <1>2 DEF IntBits, Routed
-------------------------------------------------------------------------------
\* The calls, and the arguments of each.
LEMMA Operations ==
  ASSUME NEW req \in Request
  PROVE  req.op \in {"init", "configure_filter", "set_active", "configure_activity",
                    "configure_inactivity", "enable_linked_mode",
                    "configure_interrupt1", "configure_interrupt2"}
BY DEF Request

LEMMA FilterArguments ==
  ASSUME NEW req \in Request, req.op = "configure_filter"
  PROVE  /\ req.arg.odr \in DOMAIN OdrBits
         /\ req.arg.range \in DOMAIN RangeBits
         /\ req.arg.noise \in DOMAIN NoiseBits
BY ParameterAssumption DEF Request

LEMMA ActiveArgument ==
  ASSUME NEW req \in Request, req.op = "set_active"
  PROVE  req.arg \in BOOLEAN
BY DEF Request

LEMMA ActivityArguments ==
  ASSUME NEW req \in Request, req.op = "configure_activity"
  PROVE  /\ req.arg.threshold \in Threshold
         /\ req.arg.time \in U8
         /\ req.arg.referenced \in BOOLEAN
<1>1. req.arg \in DetectorArg(ActThresholds, ActTimes)
  BY DEF Request
<1>2. /\ req.arg.threshold \in ActThresholds
      /\ req.arg.time \in ActTimes
      /\ req.arg.referenced \in BOOLEAN
  BY <1>1 DEF DetectorArg
<1> QED
  BY <1>2, ParameterAssumption

LEMMA InactivityArguments ==
  ASSUME NEW req \in Request, req.op = "configure_inactivity"
  PROVE  /\ req.arg.threshold \in Threshold
         /\ req.arg.time \in U16
         /\ req.arg.referenced \in BOOLEAN
<1>1. req.arg \in DetectorArg(InactThresholds, InactTimes)
  BY DEF Request
<1>2. /\ req.arg.threshold \in InactThresholds
      /\ req.arg.time \in InactTimes
      /\ req.arg.referenced \in BOOLEAN
  BY <1>1 DEF DetectorArg
<1> QED
  BY <1>2, ParameterAssumption

LEMMA InterruptArgument ==
  ASSUME NEW req \in Request, req.op \in {"configure_interrupt1", "configure_interrupt2"}
  PROVE  req.arg \in SUBSET DOMAIN IntBit
BY ParameterAssumption DEF Request

\* Every call writes registers of the device, each with a value it can hold.
Typed(write) ==
  \/ write.register \in ControlRegister /\ write.value \subseteq Bit
  \/ write.register \in DataRegister /\ write.value \in U8

LEMMA WritesTyped ==
  ASSUME TypeOK, NEW req \in Request, req.op # "init", NEW i \in 1..Len(Writes(req))
  PROVE  Typed(Writes(req)[i])
<1>c. /\ regs["ACT_INACT_CTL"] \subseteq Bit
      /\ regs["POWER_CTL"] \subseteq Bit
  BY DEF TypeOK, ControlRegister
<1>1. CASE req.op = "configure_filter"
  <2>1. /\ OdrBits[req.arg.odr] \subseteq Bit
        /\ RangeBits[req.arg.range] \subseteq Bit
        /\ NoiseBits[req.arg.noise] \subseteq Bit
    BY <1>1, FilterArguments DEF OdrBits, RangeBits, NoiseBits, Bit
  <2> QED
    BY <1>1, <1>c, <2>1 DEF Writes, Write, Typed, ControlRegister
<1>2. CASE req.op = "set_active"
  <2>1. MeasureOn \subseteq Bit /\ MeasureStandby \subseteq Bit
    BY DEF MeasureOn, MeasureStandby, Bit
  <2> QED
    BY <1>2, <1>c, <2>1 DEF Writes, Write, Typed, ControlRegister
<1>3. CASE req.op = "configure_activity"
  <2>1. /\ Low(req.arg.threshold) \in U8 /\ ThresholdHigh(req.arg.threshold) \in U8
        /\ req.arg.time \in U8
    BY <1>3, ActivityArguments, ThresholdSplits
  <2>2. Enable(ActEn, ActRef, req.arg.referenced) \subseteq Bit
    BY <1>c DEF Enable, ActEn, ActRef, Bit
  <2> QED
    BY <1>3, <2>1, <2>2 DEF Writes, Write, Typed, ControlRegister, DataRegister
<1>4. CASE req.op = "configure_inactivity"
  <2>1. /\ Low(req.arg.threshold) \in U8 /\ ThresholdHigh(req.arg.threshold) \in U8
        /\ Low(req.arg.time) \in U8 /\ High(req.arg.time) \in U8
    BY <1>4, InactivityArguments, ThresholdSplits, TimeSplits
  <2>2. Enable(InactEn, InactRef, req.arg.referenced) \subseteq Bit
    BY <1>c DEF Enable, InactEn, InactRef, Bit
  <2> QED
    BY <1>4, <2>1, <2>2 DEF Writes, Write, Typed, ControlRegister, DataRegister
<1>5. CASE req.op = "enable_linked_mode"
  <2>1. Linked \subseteq Bit
    BY DEF Linked, Bit
  <2> QED
    BY <1>5, <1>c, <2>1 DEF Writes, Write, Typed, ControlRegister
<1>6. CASE req.op \in {"configure_interrupt1", "configure_interrupt2"}
  <2>1. IntBits(req.arg) \subseteq Bit
    BY <1>6, InterruptArgument, IntBitsRoutes
  <2>2. CASE req.op = "configure_interrupt1"
    BY <2>1, <2>2 DEF Writes, Write, Typed, ControlRegister
  <2>3. CASE req.op = "configure_interrupt2"
    BY <2>1, <2>3 DEF Writes, Write, Typed, ControlRegister
  <2> QED
    BY <1>6, <2>2, <2>3
<1> QED
  BY <1>1, <1>2, <1>3, <1>4, <1>5, <1>6, Operations

\* A reset leaves every register with a value it can hold.
LEMMA ResetTyped ==
  /\ DOMAIN ResetRegs = Register
  /\ \A r \in ControlRegister : ResetRegs[r] \subseteq Bit
  /\ \A r \in DataRegister : ResetRegs[r] \in U8
BY DEF ResetRegs, Register, ControlRegister, DataRegister, Bit, U8

LEMMA InitTypeOK == Init => TypeOK
BY ResetTyped DEF Init, TypeOK, Register

LEMMA CallTypeOK ==
  ASSUME TypeOK, NEW req \in Request, Call(req)
  PROVE  TypeOK'
<1>0. ControlRegister \cap DataRegister = {} /\ "POWER_CTL" \in ControlRegister
  BY DEF ControlRegister, DataRegister
<1>1. CASE Configure(req)
  <2>1. PICK n \in 0..Len(Writes(req)) :
          regs' = Applied(Writes(req), n) /\ result' \in {"spi", "ok"}
    BY <1>1 DEF Configure
  <2>2. DOMAIN regs' = DOMAIN regs
    BY <2>1 DEF Applied
  <2>3. ASSUME NEW r \in DOMAIN regs
        PROVE  \/ regs'[r] = regs[r]
               \/ r \in ControlRegister /\ regs'[r] \subseteq Bit
               \/ r \in DataRegister /\ regs'[r] \in U8
    <3>1. CASE regs'[r] = regs[r]
      BY <3>1
    <3>2. CASE \E i \in 1..n : Writes(req)[i].register = r /\ regs'[r] = Writes(req)[i].value
      <4>1. PICK i \in 1..n : Writes(req)[i].register = r /\ regs'[r] = Writes(req)[i].value
        BY <3>2
      <4>2. i \in 1..Len(Writes(req)) /\ req.op # "init"
        BY <1>1, <2>1 DEF Configure
      <4> QED
        BY <4>1, <4>2, WritesTyped DEF Typed
    <3>3. n \in Nat
      OBVIOUS
    <3> QED
      BY <2>1, <3>1, <3>2, <3>3, OldOrWritten
  <2> QED
    BY <1>0, <2>1, <2>2, <2>3 DEF TypeOK
<1>2. CASE InitDevice(req)
  <2>1. CASE regs' \in {regs, [regs EXCEPT !["POWER_CTL"] = MeasureStandby]}
    BY <1>0, <1>2, <2>1 DEF InitDevice, TypeOK, MeasureStandby
  <2>2. CASE regs' = Reset
    BY <1>2, <2>2, ResetTyped DEF InitDevice, TypeOK, Reset, Register
  <2> QED
    BY <1>2, <2>1, <2>2 DEF InitDevice
<1> QED
  BY <1>1, <1>2 DEF Call
-------------------------------------------------------------------------------
Kept(registers) == \A r \in registers : regs'[r] = regs[r]

KeptField(register, field) == regs'[register] \cap field = regs[register] \cap field

ActField == {ActEn, ActRef}
InactField == {InactEn, InactRef}

\* Which registers, and which bits of a shared one, a setting is read from.
LEMMA SettingsRead ==
  /\ Kept({"FILTER_CTL"}) => ConfigInForce'.odr = ConfigInForce.odr
                             /\ ConfigInForce'.range = ConfigInForce.range
  /\ KeptField("POWER_CTL", NoiseField) => ConfigInForce'.noise = ConfigInForce.noise
  /\ KeptField("POWER_CTL", MeasureField) => ConfigInForce'.measuring = ConfigInForce.measuring
  /\ Kept({"THRESH_ACT_L", "THRESH_ACT_H", "TIME_ACT"})
       /\ KeptField("ACT_INACT_CTL", ActField) => ConfigInForce'.act = ConfigInForce.act
  /\ Kept({"THRESH_INACT_L", "THRESH_INACT_H", "TIME_INACT_L", "TIME_INACT_H"})
       /\ KeptField("ACT_INACT_CTL", InactField) => ConfigInForce'.inact = ConfigInForce.inact
  /\ KeptField("ACT_INACT_CTL", LinkLoopField) => ConfigInForce'.linked = ConfigInForce.linked
  /\ Kept({"INTMAP1"}) => ConfigInForce'.int1 = ConfigInForce.int1
  /\ Kept({"INTMAP2"}) => ConfigInForce'.int2 = ConfigInForce.int2
<1>1. Kept({"FILTER_CTL"}) => ConfigInForce'.odr = ConfigInForce.odr
                             /\ ConfigInForce'.range = ConfigInForce.range
  BY DEF Kept, ConfigInForce
<1>2. KeptField("POWER_CTL", NoiseField) => ConfigInForce'.noise = ConfigInForce.noise
  BY DEF KeptField, ConfigInForce
<1>3. KeptField("POWER_CTL", MeasureField) => ConfigInForce'.measuring = ConfigInForce.measuring
  BY DEF KeptField, ConfigInForce
<1>4. Kept({"THRESH_ACT_L", "THRESH_ACT_H", "TIME_ACT"})
       /\ KeptField("ACT_INACT_CTL", ActField) => ConfigInForce'.act = ConfigInForce.act
  <2>1. KeptField("ACT_INACT_CTL", ActField) =>
          /\ ActEn \in regs'["ACT_INACT_CTL"] <=> ActEn \in regs["ACT_INACT_CTL"]
          /\ ActRef \in regs'["ACT_INACT_CTL"] <=> ActRef \in regs["ACT_INACT_CTL"]
    BY DEF KeptField, ActField
  <2> QED
    BY <2>1 DEF Kept, ConfigInForce, DetectorIs
<1>5. Kept({"THRESH_INACT_L", "THRESH_INACT_H", "TIME_INACT_L", "TIME_INACT_H"})
       /\ KeptField("ACT_INACT_CTL", InactField) => ConfigInForce'.inact = ConfigInForce.inact
  <2>1. KeptField("ACT_INACT_CTL", InactField) =>
          /\ InactEn \in regs'["ACT_INACT_CTL"] <=> InactEn \in regs["ACT_INACT_CTL"]
          /\ InactRef \in regs'["ACT_INACT_CTL"] <=> InactRef \in regs["ACT_INACT_CTL"]
    BY DEF KeptField, InactField
  <2> QED
    BY <2>1 DEF Kept, ConfigInForce, DetectorIs
<1>6. KeptField("ACT_INACT_CTL", LinkLoopField) => ConfigInForce'.linked = ConfigInForce.linked
  BY DEF KeptField, ConfigInForce
<1>7. /\ Kept({"INTMAP1"}) => ConfigInForce'.int1 = ConfigInForce.int1
      /\ Kept({"INTMAP2"}) => ConfigInForce'.int2 = ConfigInForce.int2
  BY DEF Kept, ConfigInForce
<1> QED
  BY <1>1, <1>2, <1>3, <1>4, <1>5, <1>6, <1>7

\* The settings outside `own` are as before.
Undisturbed(own) == \A s \in Abstract!Setting \ own : ConfigInForce'[s] = ConfigInForce[s]

LEMMA SettingNames ==
  /\ Abstract!Setting = {"odr", "range", "noise", "measuring", "act", "inact", "linked",
                         "int1", "int2"}
  /\ DOMAIN ConfigInForce = Abstract!Setting
BY DEF Abstract!Setting, Abstract!Default, ConfigInForce

\* Every value is decoded as the name it encodes.
LEMMA DecodeUnique ==
  ASSUME NEW bits, NEW name \in DOMAIN bits,
         \A other \in DOMAIN bits : bits[other] = bits[name] => other = name
  PROVE  Decode(bits, bits[name]) = name
BY DEF Decode

LEMMA EncodingsDecode ==
  /\ \A a \in DOMAIN OdrBits : Decode(OdrBits, OdrBits[a]) = a
  /\ \A a \in DOMAIN RangeBits : Decode(RangeBits, RangeBits[a]) = a
  /\ \A a \in DOMAIN NoiseBits : Decode(NoiseBits, NoiseBits[a]) = a
<1>1. /\ \A a, b \in DOMAIN OdrBits : OdrBits[a] = OdrBits[b] => a = b
      /\ \A a, b \in DOMAIN RangeBits : RangeBits[a] = RangeBits[b] => a = b
      /\ \A a, b \in DOMAIN NoiseBits : NoiseBits[a] = NoiseBits[b] => a = b
  BY DEF OdrBits, RangeBits, NoiseBits
<1>2. \A a \in DOMAIN OdrBits : Decode(OdrBits, OdrBits[a]) = a
  BY <1>1, DecodeUnique
<1>3. \A a \in DOMAIN RangeBits : Decode(RangeBits, RangeBits[a]) = a
  BY <1>1, DecodeUnique
<1>4. \A a \in DOMAIN NoiseBits : Decode(NoiseBits, NoiseBits[a]) = a
  BY <1>1, DecodeUnique
<1> QED
  BY <1>2, <1>3, <1>4

\* The fields of the two filter registers do not overlap.
LEMMA EncodingsFit ==
  /\ \A a \in DOMAIN OdrBits : OdrBits[a] \subseteq OdrField
  /\ \A a \in DOMAIN RangeBits : RangeBits[a] \subseteq RangeField
  /\ \A a \in DOMAIN NoiseBits : NoiseBits[a] \subseteq NoiseField
  /\ OdrField \cap RangeField = {} /\ NoiseField \cap MeasureField = {}
BY DEF OdrBits, RangeBits, NoiseBits, OdrField, RangeField, NoiseField, MeasureField

\* configure_filter sets rate, range and noise mode, and leaves the measurement as it is.
LEMMA FilterCall ==
  ASSUME TypeOK, NEW req \in Request, req.op = "configure_filter",
         NEW n \in 0..Len(Writes(req)), regs' = Applied(Writes(req), n)
  PROVE  /\ Undisturbed({"odr", "range", "noise"})
         /\ n = Len(Writes(req)) => /\ ConfigInForce'.odr = req.arg.odr
                                    /\ ConfigInForce'.range = req.arg.range
                                    /\ ConfigInForce'.noise = req.arg.noise
<1> DEFINE filter == RangeBits[req.arg.range] \cup OdrBits[req.arg.odr]
           power == (regs["POWER_CTL"] \ NoiseField) \cup NoiseBits[req.arg.noise]
<1>1. Writes(req) = << Write("FILTER_CTL", filter), Write("POWER_CTL", power) >>
  BY DEF Writes
<1> HIDE DEF filter, power
<1>2. {"FILTER_CTL", "POWER_CTL"} \subseteq DOMAIN regs /\ DOMAIN regs = Register
  BY DEF TypeOK, Register, ControlRegister
<1>3. Kept(Register \ {"FILTER_CTL", "POWER_CTL"})
  BY <1>1, <1>2, OldOrWritten DEF Kept, Write
<1>4. regs'["POWER_CTL"] \in {regs["POWER_CTL"], power}
  BY <1>1, <1>2, OldOrWritten DEF Write
<1>5. KeptField("POWER_CTL", MeasureField)
  <2>1. power \cap MeasureField = regs["POWER_CTL"] \cap MeasureField
    BY FilterArguments, EncodingsFit DEF power
  <2> QED
    BY <1>4, <2>1 DEF KeptField
<1>6. Undisturbed({"odr", "range", "noise"})
  BY <1>3, <1>5, SettingsRead, SettingNames
     DEF Undisturbed, Kept, KeptField, Register, ControlRegister, DataRegister
<1>7. ASSUME n = Len(Writes(req))
      PROVE  /\ ConfigInForce'.odr = req.arg.odr
             /\ ConfigInForce'.range = req.arg.range
             /\ ConfigInForce'.noise = req.arg.noise
  <2>1. /\ n \in Nat /\ 1 \in 1..n /\ 2 \in 1..n
        /\ \A j \in 1..n : Writes(req)[j].register = "FILTER_CTL" <=> j = 1
        /\ \A j \in 1..n : Writes(req)[j].register = "POWER_CTL" <=> j = 2
    BY <1>1, <1>7 DEF Write
  <2>2. Writes(req)[1].value = filter /\ Writes(req)[2].value = power
    BY <1>1 DEF Write
  <2>3. regs'["FILTER_CTL"] = filter
    BY <1>2, <2>1, <2>2, Written
  <2>4. regs'["POWER_CTL"] = power
    BY <1>2, <2>1, <2>2, Written
  <2>5. /\ filter \cap OdrField = OdrBits[req.arg.odr]
        /\ filter \cap RangeField = RangeBits[req.arg.range]
        /\ power \cap NoiseField = NoiseBits[req.arg.noise]
    BY FilterArguments, EncodingsFit DEF filter, power
  <2>6. /\ ConfigInForce'.odr = Decode(OdrBits, filter \cap OdrField)
        /\ ConfigInForce'.range = Decode(RangeBits, filter \cap RangeField)
        /\ ConfigInForce'.noise = Decode(NoiseBits, power \cap NoiseField)
    BY <2>3, <2>4 DEF ConfigInForce
  <2> QED
    BY <2>5, <2>6, FilterArguments, EncodingsDecode
<1> QED
  BY <1>6, <1>7

\* set_active starts or stops the measurement, and leaves the noise mode as it is.
LEMMA ActiveCall ==
  ASSUME TypeOK, NEW req \in Request, req.op = "set_active",
         NEW n \in 0..Len(Writes(req)), regs' = Applied(Writes(req), n)
  PROVE  /\ Undisturbed({"measuring"})
         /\ n = Len(Writes(req)) => ConfigInForce'.measuring = req.arg
<1> DEFINE power == (regs["POWER_CTL"] \ MeasureField)
                      \cup (IF req.arg THEN MeasureOn ELSE MeasureStandby)
<1>1. Writes(req) = << Write("POWER_CTL", power) >>
  BY DEF Writes
<1> HIDE DEF power
<1>2. "POWER_CTL" \in DOMAIN regs /\ DOMAIN regs = Register
  BY DEF TypeOK, Register, ControlRegister
<1>3. Kept(Register \ {"POWER_CTL"})
  BY <1>1, <1>2, OldOrWritten DEF Kept, Write
<1>4. regs'["POWER_CTL"] \in {regs["POWER_CTL"], power}
  BY <1>1, <1>2, OldOrWritten DEF Write
<1>5. KeptField("POWER_CTL", NoiseField)
  <2>1. power \cap NoiseField = regs["POWER_CTL"] \cap NoiseField
    BY DEF power, NoiseField, MeasureField, MeasureOn, MeasureStandby
  <2> QED
    BY <1>4, <2>1 DEF KeptField
<1>6. Undisturbed({"measuring"})
  <2>1. /\ KeptField("ACT_INACT_CTL", ActField) /\ KeptField("ACT_INACT_CTL", InactField)
        /\ KeptField("ACT_INACT_CTL", LinkLoopField)
    BY <1>3 DEF Kept, KeptField, Register, ControlRegister
  <2> QED
    BY <1>3, <1>5, <2>1, SettingsRead, SettingNames
       DEF Undisturbed, Kept, Register, ControlRegister, DataRegister
<1>7. ASSUME n = Len(Writes(req)) PROVE ConfigInForce'.measuring = req.arg
  <2>1. /\ n \in Nat /\ 1 \in 1..n
        /\ \A j \in 1..n : Writes(req)[j].register = "POWER_CTL" <=> j = 1
    BY <1>1, <1>7 DEF Write
  <2>2. Writes(req)[1].value = power
    BY <1>1 DEF Write
  <2>3. regs'["POWER_CTL"] = power
    BY <1>2, <2>1, <2>2, Written
  <2>4. power \cap MeasureField = MeasureOn <=> req.arg
    BY DEF power, MeasureField, MeasureOn, MeasureStandby
  <2>5. ConfigInForce'.measuring = (power \cap MeasureField = MeasureOn)
    BY <2>3 DEF ConfigInForce
  <2> QED
    BY <2>4, <2>5, ActiveArgument
<1> QED
  BY <1>6, <1>7

\* configure_activity and configure_inactivity each set a detector, and leave the other one
\* and the linked mode as they are.
LEMMA ActivityCall ==
  ASSUME TypeOK, NEW req \in Request, req.op = "configure_activity",
         NEW n \in 0..Len(Writes(req)), regs' = Applied(Writes(req), n)
  PROVE  /\ Undisturbed({"act"})
         /\ n = Len(Writes(req)) => ConfigInForce'.act = Abstract!Detector(req.arg)
<1> DEFINE ctl == Enable(ActEn, ActRef, req.arg.referenced)
           own == {"THRESH_ACT_L", "THRESH_ACT_H", "TIME_ACT", "ACT_INACT_CTL"}
<1>1. Writes(req) = << Write("THRESH_ACT_L", Low(req.arg.threshold)),
                         Write("THRESH_ACT_H", ThresholdHigh(req.arg.threshold)),
                         Write("TIME_ACT", req.arg.time),
                         Write("ACT_INACT_CTL", ctl) >>
  BY DEF Writes
<1> HIDE DEF ctl
<1>2. own \subseteq DOMAIN regs /\ DOMAIN regs = Register
  BY DEF TypeOK, Register, ControlRegister, DataRegister
<1>3. Kept(Register \ own)
  BY <1>1, <1>2, OldOrWritten DEF Kept, Write
<1>4. regs'["ACT_INACT_CTL"] \in {regs["ACT_INACT_CTL"], ctl}
  BY <1>1, <1>2, OldOrWritten DEF Write
<1>5. KeptField("ACT_INACT_CTL", InactField) /\ KeptField("ACT_INACT_CTL", LinkLoopField)
  <2>1. /\ ctl \cap InactField = regs["ACT_INACT_CTL"] \cap InactField
        /\ ctl \cap LinkLoopField = regs["ACT_INACT_CTL"] \cap LinkLoopField
    BY DEF ctl, Enable, ActEn, ActRef, InactEn, InactRef, ActField, InactField, LinkLoopField
  <2> QED
    BY <1>4, <2>1 DEF KeptField
<1>6. Undisturbed({"act"})
  <2>1. KeptField("POWER_CTL", NoiseField) /\ KeptField("POWER_CTL", MeasureField)
    BY <1>3 DEF Kept, KeptField, Register, ControlRegister
  <2> QED
    BY <1>3, <1>5, <2>1, SettingsRead, SettingNames
       DEF Undisturbed, Kept, Register, ControlRegister, DataRegister
<1>7. ASSUME n = Len(Writes(req))
      PROVE  ConfigInForce'.act = Abstract!Detector(req.arg)
  <2>1. /\ n \in Nat /\ 1 \in 1..n /\ 2 \in 1..n /\ 3 \in 1..n /\ 4 \in 1..n
        /\ \A j \in 1..n : Writes(req)[j].register = "THRESH_ACT_L" <=> j = 1
        /\ \A j \in 1..n : Writes(req)[j].register = "THRESH_ACT_H" <=> j = 2
        /\ \A j \in 1..n : Writes(req)[j].register = "TIME_ACT" <=> j = 3
        /\ \A j \in 1..n : Writes(req)[j].register = "ACT_INACT_CTL" <=> j = 4
    BY <1>1, <1>7 DEF Write
  <2>2. /\ Writes(req)[1].value = Low(req.arg.threshold)
        /\ Writes(req)[2].value = ThresholdHigh(req.arg.threshold)
        /\ Writes(req)[3].value = req.arg.time
        /\ Writes(req)[4].value = ctl
    BY <1>1 DEF Write
  <2> HIDE DEF own
  <2>0. /\ "THRESH_ACT_L" \in DOMAIN regs
        /\ "THRESH_ACT_H" \in DOMAIN regs
        /\ "TIME_ACT" \in DOMAIN regs
        /\ "ACT_INACT_CTL" \in DOMAIN regs
    BY <1>2 DEF own
  <2>3. /\ regs'["THRESH_ACT_L"] = Low(req.arg.threshold)
        /\ regs'["THRESH_ACT_H"] = ThresholdHigh(req.arg.threshold)
        /\ regs'["TIME_ACT"] = req.arg.time
        /\ regs'["ACT_INACT_CTL"] = ctl
    <3>1. regs'["THRESH_ACT_L"] = Low(req.arg.threshold)
      BY <2>0, <2>1, <2>2, Written
    <3>2. regs'["THRESH_ACT_H"] = ThresholdHigh(req.arg.threshold)
      BY <2>0, <2>1, <2>2, Written
    <3>3. regs'["TIME_ACT"] = req.arg.time
      BY <2>0, <2>1, <2>2, Written
    <3>4. regs'["ACT_INACT_CTL"] = ctl
      BY <2>0, <2>1, <2>2, Written
    <3> QED
      BY <3>1, <3>2, <3>3, <3>4
  <2>4. /\ regs'["THRESH_ACT_L"] + 256 * regs'["THRESH_ACT_H"] = req.arg.threshold
        /\ regs'["TIME_ACT"] = req.arg.time
    BY <2>3, ActivityArguments, ThresholdSplits
  <2>5. /\ ActEn \in ctl
        /\ ActRef \in ctl <=> req.arg.referenced
    BY DEF ctl, Enable, ActEn, ActRef, InactEn, InactRef
  <2>6. ConfigInForce'.act =
          [enabled |-> TRUE, threshold |-> req.arg.threshold, time |-> req.arg.time,
           referenced |-> ActRef \in ctl]
    BY <2>3, <2>4, <2>5 DEF ConfigInForce, DetectorIs
  <2>7. (ActRef \in ctl) = req.arg.referenced
    BY <2>5, ActivityArguments
  <2> QED
    BY <2>6, <2>7, Zenon DEF Abstract!Detector
<1> QED
  BY <1>6, <1>7

LEMMA InactivityCall ==
  ASSUME TypeOK, NEW req \in Request, req.op = "configure_inactivity",
         NEW n \in 0..Len(Writes(req)), regs' = Applied(Writes(req), n)
  PROVE  /\ Undisturbed({"inact"})
         /\ n = Len(Writes(req)) => ConfigInForce'.inact = Abstract!Detector(req.arg)
<1> DEFINE ctl == Enable(InactEn, InactRef, req.arg.referenced)
           own == {"THRESH_INACT_L", "THRESH_INACT_H", "TIME_INACT_L", "TIME_INACT_H",
                   "ACT_INACT_CTL"}
<1>1. Writes(req) = << Write("THRESH_INACT_L", Low(req.arg.threshold)),
                         Write("THRESH_INACT_H", ThresholdHigh(req.arg.threshold)),
                         Write("TIME_INACT_L", Low(req.arg.time)),
                         Write("TIME_INACT_H", High(req.arg.time)),
                         Write("ACT_INACT_CTL", ctl) >>
  BY DEF Writes
<1> HIDE DEF ctl
<1>2. own \subseteq DOMAIN regs /\ DOMAIN regs = Register
  BY DEF TypeOK, Register, ControlRegister, DataRegister
<1>3. Kept(Register \ own)
  BY <1>1, <1>2, OldOrWritten DEF Kept, Write
<1>4. regs'["ACT_INACT_CTL"] \in {regs["ACT_INACT_CTL"], ctl}
  BY <1>1, <1>2, OldOrWritten DEF Write
<1>5. KeptField("ACT_INACT_CTL", ActField) /\ KeptField("ACT_INACT_CTL", LinkLoopField)
  <2>1. /\ ctl \cap ActField = regs["ACT_INACT_CTL"] \cap ActField
        /\ ctl \cap LinkLoopField = regs["ACT_INACT_CTL"] \cap LinkLoopField
    BY DEF ctl, Enable, ActEn, ActRef, InactEn, InactRef, ActField, InactField, LinkLoopField
  <2> QED
    BY <1>4, <2>1 DEF KeptField
<1>6. Undisturbed({"inact"})
  <2>1. KeptField("POWER_CTL", NoiseField) /\ KeptField("POWER_CTL", MeasureField)
    BY <1>3 DEF Kept, KeptField, Register, ControlRegister
  <2> QED
    BY <1>3, <1>5, <2>1, SettingsRead, SettingNames
       DEF Undisturbed, Kept, Register, ControlRegister, DataRegister
<1>7. ASSUME n = Len(Writes(req))
      PROVE  ConfigInForce'.inact = Abstract!Detector(req.arg)
  <2>1. /\ n \in Nat /\ 1 \in 1..n /\ 2 \in 1..n /\ 3 \in 1..n /\ 4 \in 1..n /\ 5 \in 1..n
        /\ \A j \in 1..n : Writes(req)[j].register = "THRESH_INACT_L" <=> j = 1
        /\ \A j \in 1..n : Writes(req)[j].register = "THRESH_INACT_H" <=> j = 2
        /\ \A j \in 1..n : Writes(req)[j].register = "TIME_INACT_L" <=> j = 3
        /\ \A j \in 1..n : Writes(req)[j].register = "TIME_INACT_H" <=> j = 4
        /\ \A j \in 1..n : Writes(req)[j].register = "ACT_INACT_CTL" <=> j = 5
    BY <1>1, <1>7 DEF Write
  <2>2. /\ Writes(req)[1].value = Low(req.arg.threshold)
        /\ Writes(req)[2].value = ThresholdHigh(req.arg.threshold)
        /\ Writes(req)[3].value = Low(req.arg.time)
        /\ Writes(req)[4].value = High(req.arg.time)
        /\ Writes(req)[5].value = ctl
    BY <1>1 DEF Write
  <2> HIDE DEF own
  <2>0. /\ "THRESH_INACT_L" \in DOMAIN regs
        /\ "THRESH_INACT_H" \in DOMAIN regs
        /\ "TIME_INACT_L" \in DOMAIN regs
        /\ "TIME_INACT_H" \in DOMAIN regs
        /\ "ACT_INACT_CTL" \in DOMAIN regs
    BY <1>2 DEF own
  <2>3. /\ regs'["THRESH_INACT_L"] = Low(req.arg.threshold)
        /\ regs'["THRESH_INACT_H"] = ThresholdHigh(req.arg.threshold)
        /\ regs'["TIME_INACT_L"] = Low(req.arg.time)
        /\ regs'["TIME_INACT_H"] = High(req.arg.time)
        /\ regs'["ACT_INACT_CTL"] = ctl
    <3>1. regs'["THRESH_INACT_L"] = Low(req.arg.threshold)
      BY <2>0, <2>1, <2>2, Written
    <3>2. regs'["THRESH_INACT_H"] = ThresholdHigh(req.arg.threshold)
      BY <2>0, <2>1, <2>2, Written
    <3>3. regs'["TIME_INACT_L"] = Low(req.arg.time)
      BY <2>0, <2>1, <2>2, Written
    <3>4. regs'["TIME_INACT_H"] = High(req.arg.time)
      BY <2>0, <2>1, <2>2, Written
    <3>5. regs'["ACT_INACT_CTL"] = ctl
      BY <2>0, <2>1, <2>2, Written
    <3> QED
      BY <3>1, <3>2, <3>3, <3>4, <3>5
  <2>4. /\ regs'["THRESH_INACT_L"] + 256 * regs'["THRESH_INACT_H"] = req.arg.threshold
        /\ regs'["TIME_INACT_L"] + 256 * regs'["TIME_INACT_H"] = req.arg.time
    BY <2>3, InactivityArguments, ThresholdSplits, TimeSplits
  <2>5. /\ InactEn \in ctl
        /\ InactRef \in ctl <=> req.arg.referenced
    BY DEF ctl, Enable, ActEn, ActRef, InactEn, InactRef
  <2>6. ConfigInForce'.inact =
          [enabled |-> TRUE, threshold |-> req.arg.threshold, time |-> req.arg.time,
           referenced |-> InactRef \in ctl]
    BY <2>3, <2>4, <2>5 DEF ConfigInForce, DetectorIs
  <2>7. (InactRef \in ctl) = req.arg.referenced
    BY <2>5, InactivityArguments
  <2> QED
    BY <2>6, <2>7, Zenon DEF Abstract!Detector
<1> QED
  BY <1>6, <1>7

\* enable_linked_mode keeps both detectors.
LEMMA LinkedCall ==
  ASSUME TypeOK, NEW req \in Request, req.op = "enable_linked_mode",
         NEW n \in 0..Len(Writes(req)), regs' = Applied(Writes(req), n)
  PROVE  /\ Undisturbed({"linked"})
         /\ n = Len(Writes(req)) => ConfigInForce'.linked = TRUE
<1> DEFINE ctl == (regs["ACT_INACT_CTL"] \ LinkLoopField) \cup Linked
<1>1. Writes(req) = << Write("ACT_INACT_CTL", ctl) >>
  BY DEF Writes
<1> HIDE DEF ctl
<1>2. "ACT_INACT_CTL" \in DOMAIN regs /\ DOMAIN regs = Register
  BY DEF TypeOK, Register, ControlRegister
<1>3. Kept(Register \ {"ACT_INACT_CTL"})
  BY <1>1, <1>2, OldOrWritten DEF Kept, Write
<1>4. regs'["ACT_INACT_CTL"] \in {regs["ACT_INACT_CTL"], ctl}
  BY <1>1, <1>2, OldOrWritten DEF Write
<1>5. KeptField("ACT_INACT_CTL", ActField) /\ KeptField("ACT_INACT_CTL", InactField)
  <2>1. /\ ctl \cap ActField = regs["ACT_INACT_CTL"] \cap ActField
        /\ ctl \cap InactField = regs["ACT_INACT_CTL"] \cap InactField
    BY DEF ctl, ActEn, ActRef, InactEn, InactRef, ActField, InactField, LinkLoopField, Linked
  <2> QED
    BY <1>4, <2>1 DEF KeptField
<1>6. Undisturbed({"linked"})
  <2>1. KeptField("POWER_CTL", NoiseField) /\ KeptField("POWER_CTL", MeasureField)
    BY <1>3 DEF Kept, KeptField, Register, ControlRegister
  <2> QED
    BY <1>3, <1>5, <2>1, SettingsRead, SettingNames
       DEF Undisturbed, Kept, Register, ControlRegister, DataRegister
<1>7. ASSUME n = Len(Writes(req)) PROVE ConfigInForce'.linked = TRUE
  <2>1. /\ n \in Nat /\ 1 \in 1..n
        /\ \A j \in 1..n : Writes(req)[j].register = "ACT_INACT_CTL" <=> j = 1
    BY <1>1, <1>7 DEF Write
  <2>2. Writes(req)[1].value = ctl
    BY <1>1 DEF Write
  <2>3. regs'["ACT_INACT_CTL"] = ctl
    BY <1>2, <2>1, <2>2, Written
  <2>4. ctl \cap LinkLoopField = Linked
    BY DEF ctl, LinkLoopField, Linked
  <2> QED
    BY <2>3, <2>4 DEF ConfigInForce
<1> QED
  BY <1>6, <1>7

\* A call that writes one register owns it, and a map has two of them.
LEMMA InterruptCall ==
  ASSUME TypeOK, NEW req \in Request,
         NEW register, NEW setting,
         \/ req.op = "configure_interrupt1" /\ register = "INTMAP1" /\ setting = "int1"
         \/ req.op = "configure_interrupt2" /\ register = "INTMAP2" /\ setting = "int2",
         NEW n \in 0..Len(Writes(req)), regs' = Applied(Writes(req), n)
  PROVE  /\ Undisturbed({setting})
         /\ n = Len(Writes(req)) => ConfigInForce'[setting] = req.arg
<1>1. Writes(req) = << Write(register, IntBits(req.arg)) >>
  BY DEF Writes
<1>2. register \in DOMAIN regs /\ DOMAIN regs = Register
  BY DEF TypeOK, Register, ControlRegister
<1>3. Kept(Register \ {register})
  BY <1>1, <1>2, OldOrWritten DEF Kept, Write
<1>4. Undisturbed({setting})
  <2>1. /\ KeptField("POWER_CTL", NoiseField) /\ KeptField("POWER_CTL", MeasureField)
        /\ KeptField("ACT_INACT_CTL", ActField) /\ KeptField("ACT_INACT_CTL", InactField)
        /\ KeptField("ACT_INACT_CTL", LinkLoopField)
    BY <1>3 DEF Kept, KeptField, Register, ControlRegister
  <2> QED
    BY <1>3, <2>1, SettingsRead, SettingNames
       DEF Undisturbed, Kept, Register, ControlRegister, DataRegister
<1>5. ASSUME n = Len(Writes(req)) PROVE ConfigInForce'[setting] = req.arg
  <2>1. /\ n \in Nat /\ 1 \in 1..n
        /\ \A j \in 1..n : Writes(req)[j].register = register <=> j = 1
    BY <1>1, <1>5 DEF Write
  <2>2. Writes(req)[1].value = IntBits(req.arg)
    BY <1>1 DEF Write
  <2>3. regs'[register] = IntBits(req.arg)
    BY <1>2, <2>1, <2>2, Written
  <2>4. ConfigInForce'[setting] = Routed(IntBits(req.arg))
    BY <2>3 DEF ConfigInForce
  <2> QED
    BY <2>4, InterruptArgument, IntBitsRoutes
<1> QED
  BY <1>4, <1>5

\* A device that was reset has the default settings.
LEMMA ResetIsDefault == regs = ResetRegs => ConfigInForce = Abstract!Default
<1> SUFFICES ASSUME regs = ResetRegs PROVE ConfigInForce = Abstract!Default
  OBVIOUS
<1>1. /\ regs["FILTER_CTL"] = {0, 1, 4}
      /\ regs["POWER_CTL"] = {} /\ regs["ACT_INACT_CTL"] = {}
      /\ regs["INTMAP1"] = {} /\ regs["INTMAP2"] = {}
      /\ \A r \in DataRegister : regs[r] = 0
  BY DEF ResetRegs, ControlRegister, DataRegister
<1>2. /\ "Hz100" \in DOMAIN OdrBits /\ OdrBits["Hz100"] = {0, 1, 4} \cap OdrField
      /\ "G2" \in DOMAIN RangeBits /\ RangeBits["G2"] = {0, 1, 4} \cap RangeField
      /\ "Normal" \in DOMAIN NoiseBits /\ NoiseBits["Normal"] = {} \cap NoiseField
  BY DEF OdrBits, RangeBits, NoiseBits, OdrField, RangeField, NoiseField
<1>3. /\ Decode(OdrBits, regs["FILTER_CTL"] \cap OdrField) = "Hz100"
      /\ Decode(RangeBits, regs["FILTER_CTL"] \cap RangeField) = "G2"
      /\ Decode(NoiseBits, regs["POWER_CTL"] \cap NoiseField) = "Normal"
  BY <1>1, <1>2, EncodingsDecode
<1>4. /\ (regs["POWER_CTL"] \cap MeasureField = MeasureOn) = FALSE
      /\ (regs["ACT_INACT_CTL"] \cap LinkLoopField = Linked) = FALSE
  BY <1>1 DEF MeasureOn, Linked
<1>5. Routed({}) = {}
  BY DEF Routed
<1>6. /\ DetectorIs(ActEn, ActRef, regs["THRESH_ACT_L"] + 256 * regs["THRESH_ACT_H"],
                    regs["TIME_ACT"]) = Abstract!NoDetector
      /\ DetectorIs(InactEn, InactRef, regs["THRESH_INACT_L"] + 256 * regs["THRESH_INACT_H"],
                    regs["TIME_INACT_L"] + 256 * regs["TIME_INACT_H"]) = Abstract!NoDetector
  <2>1. /\ regs["THRESH_ACT_L"] + 256 * regs["THRESH_ACT_H"] = 0
        /\ regs["THRESH_INACT_L"] + 256 * regs["THRESH_INACT_H"] = 0
        /\ regs["TIME_ACT"] = 0
        /\ regs["TIME_INACT_L"] + 256 * regs["TIME_INACT_H"] = 0
    BY <1>1 DEF DataRegister
  <2>2. /\ (ActEn \in regs["ACT_INACT_CTL"]) = FALSE
        /\ (ActRef \in regs["ACT_INACT_CTL"]) = FALSE
        /\ (InactEn \in regs["ACT_INACT_CTL"]) = FALSE
        /\ (InactRef \in regs["ACT_INACT_CTL"]) = FALSE
    BY <1>1
  <2>3. DetectorIs(ActEn, ActRef, 0, 0) = Abstract!NoDetector
    BY <2>2, Zenon DEF DetectorIs, Abstract!NoDetector
  <2>4. DetectorIs(InactEn, InactRef, 0, 0) = Abstract!NoDetector
    BY <2>2, Zenon DEF DetectorIs, Abstract!NoDetector
  <2>5. DetectorIs(ActEn, ActRef, regs["THRESH_ACT_L"] + 256 * regs["THRESH_ACT_H"],
                   regs["TIME_ACT"]) = Abstract!NoDetector
    BY <2>1, <2>3
  <2>6. DetectorIs(InactEn, InactRef, regs["THRESH_INACT_L"] + 256 * regs["THRESH_INACT_H"],
                   regs["TIME_INACT_L"] + 256 * regs["TIME_INACT_H"]) = Abstract!NoDetector
    BY <2>1, <2>4
  <2> QED
    BY <2>5, <2>6
<1>7. Routed(regs["INTMAP1"]) = {} /\ Routed(regs["INTMAP2"]) = {}
  BY <1>1, <1>5
<1> QED
  BY <1>3, <1>4, <1>6, <1>7, Zenon DEF ConfigInForce, Abstract!Default

LEMMA ResetIsDefaultNext == regs' = ResetRegs => ConfigInForce' = Abstract!Default
<1>1. (regs = ResetRegs => ConfigInForce = Abstract!Default)'
  BY ResetIsDefault, PTL
<1> QED
  BY <1>1 DEF ResetRegs

LEMMA InitImplements == Init => Abstract!Init
BY ResetIsDefault DEF Init, Abstract!Init

\* A call of the driver is a call of the device it promises: one case per operation.
LEMMA CallImplements ==
  ASSUME TypeOK, NEW req \in Request, Call(req)
  PROVE  Abstract!Call(req)
<1>1. CASE InitDevice(req)
  <2>1. Abstract!Asked(req) = Abstract!Default /\ req.op = "init" /\ request' = req
    BY <1>1 DEF InitDevice, Abstract!Asked
  <2>2. Abstract!Setting \ DOMAIN Abstract!Asked(req) = {}
    BY <2>1 DEF Abstract!Setting
  <2>3. result' = "ok" => ConfigInForce' = Abstract!Default
    BY <1>1, ResetIsDefaultNext DEF InitDevice, Reset
  <2> QED
    BY <2>1, <2>2, <2>3 DEF Abstract!Call, Abstract!Agree
<1>2. CASE Configure(req)
  <2> DEFINE own == DOMAIN Abstract!Asked(req)
  <2>1. PICK n \in 0..Len(Writes(req)) :
          /\ regs' = Applied(Writes(req), n)
          /\ result' = "ok" => n = Len(Writes(req))
    BY <1>2 DEF Configure
  <2>2. req.op # "init" /\ request' = req
    BY <1>2 DEF Configure
  <2>3. SUFFICES /\ Undisturbed(own)
                 /\ n = Len(Writes(req)) =>
                      \A s \in own : ConfigInForce'[s] = Abstract!Asked(req)[s]
    BY <2>1, <2>2 DEF Undisturbed, Abstract!Call, Abstract!Agree
  <2>4. CASE req.op = "configure_filter"
    <3>1. Abstract!Asked(req) = [odr |-> req.arg.odr, range |-> req.arg.range,
                                 noise |-> req.arg.noise]
      BY <2>4 DEF Abstract!Asked
    <3>2. own = {"odr", "range", "noise"}
      BY <3>1
    <3> QED
      BY <2>1, <2>4, <3>1, <3>2, FilterCall
  <2>5. CASE req.op = "set_active"
    <3>1. Abstract!Asked(req) = [measuring |-> req.arg] /\ own = {"measuring"}
      BY <2>5 DEF Abstract!Asked
    <3> QED
      BY <2>1, <2>5, <3>1, ActiveCall
  <2>6. CASE req.op = "configure_activity"
    <3>1. Abstract!Asked(req) = [act |-> Abstract!Detector(req.arg)] /\ own = {"act"}
      BY <2>6 DEF Abstract!Asked
    <3> QED
      BY <2>1, <2>6, <3>1, ActivityCall
  <2>7. CASE req.op = "configure_inactivity"
    <3>1. Abstract!Asked(req) = [inact |-> Abstract!Detector(req.arg)] /\ own = {"inact"}
      BY <2>7 DEF Abstract!Asked
    <3> QED
      BY <2>1, <2>7, <3>1, InactivityCall
  <2>8. CASE req.op = "enable_linked_mode"
    <3>1. Abstract!Asked(req) = [linked |-> TRUE]
      BY <2>8 DEF Abstract!Asked
    <3>2. own = {"linked"} /\ Abstract!Asked(req)["linked"] = TRUE
      BY <3>1
    <3> HIDE DEF own
    <3>3. /\ Undisturbed({"linked"})
          /\ n = Len(Writes(req)) => ConfigInForce'["linked"] = TRUE
      BY <2>1, <2>8, LinkedCall
    <3> QED
      BY <3>2, <3>3, Zenon
  <2>9. CASE req.op = "configure_interrupt1"
    <3>1. Abstract!Asked(req) = [int1 |-> req.arg] /\ own = {"int1"}
      BY <2>9 DEF Abstract!Asked
    <3>2. /\ Undisturbed({"int1"})
          /\ n = Len(Writes(req)) => ConfigInForce'["int1"] = req.arg
      BY <2>1, <2>9, InterruptCall
    <3> QED
      BY <3>1, <3>2
  <2>10. CASE req.op = "configure_interrupt2"
    <3>1. Abstract!Asked(req) = [int2 |-> req.arg] /\ own = {"int2"}
      BY <2>10 DEF Abstract!Asked
    <3>2. /\ Undisturbed({"int2"})
          /\ n = Len(Writes(req)) => ConfigInForce'["int2"] = req.arg
      BY <2>1, <2>10, InterruptCall
    <3> QED
      BY <3>1, <3>2
  <2> QED
    BY <2>2, <2>4, <2>5, <2>6, <2>7, <2>8, <2>9, <2>10, Operations
<1> QED
  BY <1>1, <1>2 DEF Call
-------------------------------------------------------------------------------
\* THEOREM: in whatever order calls are made and fail, the driver keeps its settings
\* independent (adxl362/mod.rs:211-310): the registers implement AccelConfig.
THEOREM DriverImplementsConfig == Spec => SettingsAreIndependent
<1>1. TypeOK /\ [Next]_vars => TypeOK'
  <2>1. CASE UNCHANGED vars
    BY <2>1 DEF vars, TypeOK
  <2> QED
    BY <2>1, CallTypeOK DEF Next
<1>2. TypeOK /\ [Next]_vars => [Abstract!Next]_<<ConfigInForce, request, result>>
  <2>1. CASE UNCHANGED vars
    BY <2>1 DEF vars, ConfigInForce, DetectorIs
  <2> QED
    BY <2>1, CallImplements DEF Next, Abstract!Next
<1> QED
  BY InitTypeOK, InitImplements, <1>1, <1>2, PTL
     DEF Spec, SettingsAreIndependent, Abstract!Spec
-------------------------------------------------------------------------------
\* The settings that the i-th of main's calls gives a value, and the values.
AskedBy(i) == Abstract!Asked(MainCalls[i])
Owned(i) == DOMAIN AskedBy(i)

\* Of the first k calls, the i-th is the last to give `setting` a value.
Decides(i, setting, k) == setting \in Owned(i) /\ \A j \in (i + 1)..k : setting \notin Owned(j)

\* A setting in S has the value of the last call that returned Ok and owns it.
Settled(S) ==
  \A setting \in S, i \in 1..done :
     Decides(i, setting, done) => ConfigInForce[setting] = AskedBy(i)[setting]

\* The inductive invariant: what has been set stays set, whatever the registers held at
\* the start; only the settings of the call that panicked may have any value.
IInv ==
  /\ TypeOK
  /\ session \in {"earlier", "setup", "running", "panicked"}
  /\ done \in 0..Len(MainCalls)
  /\ session = "earlier" => done = 0
  /\ session \in {"setup", "panicked"} => done < Len(MainCalls)
  /\ session = "running" => done = Len(MainCalls)
  /\ session # "panicked" => Settled(Abstract!Setting)
  /\ session = "panicked" => Settled(Abstract!Setting \ Owned(done + 1))

LEMMA InitIInv == SetupInit => IInv
BY InitTypeOK DEF SetupInit, IInv, Settled, MainCalls

\* A call that returned decides its own settings, and none of the others.
LEMMA CallSettles ==
  ASSUME NEW k \in 0..(Len(MainCalls) - 1), done = k, Settled(Abstract!Setting),
         Abstract!Call(MainCalls[k + 1])
  PROVE  /\ done' = k => Settled(Abstract!Setting \ Owned(k + 1))'
         /\ done' = k + 1 /\ result' = "ok" => Settled(Abstract!Setting)'
<1>1. \A s \in Abstract!Setting \ Owned(k + 1) : ConfigInForce'[s] = ConfigInForce[s]
  BY DEF Abstract!Call, Abstract!Agree, Owned, AskedBy
<1>2. result' = "ok" =>
        \A s \in Owned(k + 1) : ConfigInForce'[s] = AskedBy(k + 1)[s]
  BY DEF Abstract!Call, Abstract!Agree, Owned, AskedBy
<1>3. done' = k => Settled(Abstract!Setting \ Owned(k + 1))'
  BY <1>1 DEF Settled
<1>4. ASSUME done' = k + 1, result' = "ok",
             NEW s \in Abstract!Setting, NEW i \in 1..(k + 1), Decides(i, s, k + 1)
      PROVE  ConfigInForce'[s] = AskedBy(i)[s]
  <2>1. CASE i = k + 1
    BY <1>2, <1>4, <2>1 DEF Decides
  <2>2. CASE i \in 1..k
    <3>1. s \notin Owned(k + 1) /\ Decides(i, s, k)
      BY <1>4, <2>2 DEF Decides
    <3> QED
      BY <1>1, <2>2, <3>1 DEF Settled
  <2> QED
    BY <2>1, <2>2
<1> QED
  BY <1>3, <1>4 DEF Settled

LEMMA StepIInv == IInv /\ [SetupNext]_setupVars => IInv'
<1> SUFFICES ASSUME IInv, [SetupNext]_setupVars PROVE IInv'
  OBVIOUS
<1>0. Len(MainCalls) = 7
  BY DEF MainCalls
<1>1. CASE EarlierCalls
  <2>1. TypeOK'
    BY <1>1, CallTypeOK DEF EarlierCalls, Next, IInv
  <2> QED
    BY <1>1, <2>1 DEF EarlierCalls, IInv, Settled
<1>2. CASE Start
  <2>1. TypeOK' /\ session' = "setup" /\ done' = 0
    BY <1>2 DEF Start, vars, IInv, TypeOK
  <2> QED
    BY <1>0, <2>1 DEF IInv, Settled
<1>3. CASE MainCall
  <2> DEFINE req == MainCalls[done + 1]
  <2>1. /\ session = "setup" /\ done \in 0..(Len(MainCalls) - 1)
        /\ Len(MainCalls) \in Nat /\ Settled(Abstract!Setting) /\ TypeOK
    BY <1>3 DEF MainCall, IInv, MainCalls
  <2>2. req \in Request /\ Call(req)
    BY <1>3, <2>1, MainCallsAssumption DEF MainCall
  <2>3. TypeOK' /\ Abstract!Call(req)
    BY <2>1, <2>2, CallTypeOK, CallImplements
  <2>4. /\ done' = done => Settled(Abstract!Setting \ Owned(done + 1))'
        /\ done' = done + 1 /\ result' = "ok" => Settled(Abstract!Setting)'
    BY <2>1, <2>3, CallSettles
  <2>5. CASE result' = "ok"
    BY <1>3, <2>1, <2>3, <2>4, <2>5 DEF MainCall, IInv
  <2>6. CASE result' # "ok"
    <3>1. session' = "panicked" /\ done' = done
      BY <1>3, <2>6 DEF MainCall
    <3>2. Settled(Abstract!Setting \ Owned(done + 1))'
      BY <2>4, <3>1
    <3> QED
      BY <2>1, <2>3, <3>1, <3>2 DEF IInv
  <2> QED
    BY <2>5, <2>6
<1>4. CASE UNCHANGED setupVars
  <2>1. TypeOK' /\ session' = session /\ done' = done
    BY <1>4 DEF setupVars, vars, IInv, TypeOK
  <2>2. ConfigInForce' = ConfigInForce
    BY <1>4 DEF setupVars, vars, ConfigInForce, DetectorIs
  <2> QED
    BY <2>1, <2>2 DEF IInv, Settled
<1> QED
  BY <1>1, <1>2, <1>3, <1>4 DEF SetupNext

\* What main's calls ask for.
LEMMA MainAsks ==
  /\ Len(MainCalls) = 7
  /\ AskedBy(1) = Abstract!Default
  /\ AskedBy(2) = [odr |-> "Hz100", range |-> "G2", noise |-> "Normal"]
  /\ AskedBy(3) = [act |-> Motion(200, 3)]
  /\ AskedBy(4) = [inact |-> Motion(50, 300)]
  /\ AskedBy(5) = [linked |-> TRUE]
  /\ AskedBy(6) = [int2 |-> MotionConditions]
  /\ AskedBy(7) = [measuring |-> TRUE]
BY DEF AskedBy, MainCalls, Abstract!Asked, Abstract!Detector, Motion

LEMMA MainOwns ==
  /\ Owned(1) = Abstract!Setting
  /\ Owned(2) = {"odr", "range", "noise"}
  /\ Owned(3) = {"act"}
  /\ Owned(4) = {"inact"}
  /\ Owned(5) = {"linked"}
  /\ Owned(6) = {"int2"}
  /\ Owned(7) = {"measuring"}
BY MainAsks DEF Owned, Abstract!Setting

\* A configuration is the record of its settings.
LEMMA ConfigFields ==
  ConfigInForce =
    [odr |-> ConfigInForce["odr"], range |-> ConfigInForce["range"],
     noise |-> ConfigInForce["noise"], measuring |-> ConfigInForce["measuring"],
     act |-> ConfigInForce["act"], inact |-> ConfigInForce["inact"],
     linked |-> ConfigInForce["linked"],
     int1 |-> ConfigInForce["int1"], int2 |-> ConfigInForce["int2"]]
BY DEF ConfigInForce

\* Each setting is decided by one of the seven calls, int1 by the reset.
LEMMA AllSettled ==
  ASSUME done = 7, Settled(Abstract!Setting)
  PROVE  /\ ConfigInForce["odr"] = "Hz100"
         /\ ConfigInForce["range"] = "G2"
         /\ ConfigInForce["noise"] = "Normal"
         /\ ConfigInForce["measuring"] = TRUE
         /\ ConfigInForce["act"] = Motion(200, 3)
         /\ ConfigInForce["inact"] = Motion(50, 300)
         /\ ConfigInForce["linked"] = TRUE
         /\ ConfigInForce["int1"] = {}
         /\ ConfigInForce["int2"] = MotionConditions
<1>1. /\ Decides(2, "odr", 7) /\ Decides(2, "range", 7) /\ Decides(2, "noise", 7)
      /\ Decides(3, "act", 7) /\ Decides(4, "inact", 7) /\ Decides(5, "linked", 7)
      /\ Decides(6, "int2", 7) /\ Decides(7, "measuring", 7) /\ Decides(1, "int1", 7)
  BY MainOwns, SettingNames DEF Decides
<1>2. \A setting \in Abstract!Setting, i \in 1..7 :
        Decides(i, setting, 7) => ConfigInForce[setting] = AskedBy(i)[setting]
  BY DEF Settled
<1>3. /\ ConfigInForce["odr"] = AskedBy(2)["odr"]
      /\ ConfigInForce["range"] = AskedBy(2)["range"]
      /\ ConfigInForce["noise"] = AskedBy(2)["noise"]
      /\ ConfigInForce["act"] = AskedBy(3)["act"]
      /\ ConfigInForce["inact"] = AskedBy(4)["inact"]
      /\ ConfigInForce["linked"] = AskedBy(5)["linked"]
      /\ ConfigInForce["int2"] = AskedBy(6)["int2"]
      /\ ConfigInForce["measuring"] = AskedBy(7)["measuring"]
      /\ ConfigInForce["int1"] = AskedBy(1)["int1"]
  BY <1>1, <1>2, SettingNames
<1>4. AskedBy(1)["int1"] = {}
  BY MainAsks DEF Abstract!Default
<1>5. AskedBy(5)["linked"] = TRUE /\ AskedBy(7)["measuring"] = TRUE
  BY MainAsks
<1>6. /\ AskedBy(2)["odr"] = "Hz100" /\ AskedBy(2)["range"] = "G2"
      /\ AskedBy(2)["noise"] = "Normal" /\ AskedBy(3)["act"] = Motion(200, 3)
      /\ AskedBy(4)["inact"] = Motion(50, 300) /\ AskedBy(6)["int2"] = MotionConditions
  BY MainAsks
<1>7. /\ ConfigInForce["linked"] = TRUE /\ ConfigInForce["measuring"] = TRUE
      /\ ConfigInForce["int1"] = {}
  BY <1>3, <1>4, <1>5, Zenon
<1>8. /\ ConfigInForce["odr"] = "Hz100" /\ ConfigInForce["range"] = "G2"
      /\ ConfigInForce["noise"] = "Normal"
  BY <1>3, <1>6, Zenon
<1>9. /\ ConfigInForce["act"] = Motion(200, 3) /\ ConfigInForce["inact"] = Motion(50, 300)
      /\ ConfigInForce["int2"] = MotionConditions
  BY <1>3, <1>6, Zenon
<1> QED
  BY <1>7, <1>8, <1>9, Zenon

LEMMA IInvConfigured == IInv => RunningIsConfigured
<1> SUFFICES ASSUME IInv, session = "running"
             PROVE  ConfigInForce =
                      [odr |-> "Hz100", range |-> "G2", noise |-> "Normal",
                       measuring |-> TRUE, act |-> Motion(200, 3), inact |-> Motion(50, 300),
                       linked |-> TRUE, int1 |-> {}, int2 |-> MotionConditions]
  BY DEF RunningIsConfigured
<1>1. done = 7 /\ Settled(Abstract!Setting)
  BY MainAsks DEF IInv
<1> QED
  BY <1>1, AllSettled, ConfigFields, Zenon

\* The reset decides the measurement until the last call; when that one has failed, the
\* linked mode and the interrupt are already settled.
LEMMA IInvNeverHalf == IInv => NeverMeasuresHalfConfigured
<1> SUFFICES ASSUME IInv, session \in {"setup", "panicked"}, done >= 1, ConfigInForce.measuring
             PROVE  ConfigInForce.linked /\ ConfigInForce.int2 = MotionConditions
  BY DEF NeverMeasuresHalfConfigured
<1>1. done \in 1..6
  BY MainAsks DEF IInv
<1>2. Settled(Abstract!Setting \ Owned(done + 1))
  BY DEF IInv, Settled
<1>3. CASE done \in 1..5
  <2>1. Decides(1, "measuring", done) /\ "measuring" \notin Owned(done + 1)
    BY <1>3, MainOwns, SettingNames DEF Decides
  <2>2. ConfigInForce["measuring"] = AskedBy(1)["measuring"]
    BY <1>1, <1>2, <2>1, SettingNames DEF Settled
  <2>3. AskedBy(1)["measuring"] = FALSE
    BY MainAsks DEF Abstract!Default
  <2> QED
    BY <2>2, <2>3
<1>4. CASE done = 6
  <2>1. /\ Decides(5, "linked", done) /\ Decides(6, "int2", done)
        /\ {"linked", "int2"} \subseteq Abstract!Setting \ Owned(done + 1)
    BY <1>4, MainOwns, SettingNames DEF Decides
  <2>2. /\ ConfigInForce["linked"] = AskedBy(5)["linked"]
        /\ ConfigInForce["int2"] = AskedBy(6)["int2"]
    BY <1>2, <1>4, <2>1 DEF Settled
  <2>3. AskedBy(5)["linked"] = TRUE /\ AskedBy(6)["int2"] = MotionConditions
    BY MainAsks
  <2> QED
    BY <2>2, <2>3
<1> QED
  BY <1>1, <1>3, <1>4

\* THEOREM: main's configuration is in force whenever its tasks run, whatever an earlier
\* firmware, an earlier failure or a restart left in the accelerometer (main.rs:336-371).
THEOREM RunningConfigured == SetupSpec => []RunningIsConfigured
BY InitIInv, StepIInv, IInvConfigured, PTL DEF SetupSpec

\* THEOREM: between the reset and the last call the accelerometer stays in standby.
THEOREM NeverHalfConfigured == SetupSpec => []NeverMeasuresHalfConfigured
BY InitIInv, StepIInv, IInvNeverHalf, PTL DEF SetupSpec

\* THEOREM: every register keeps to its width, beside main as well.
THEOREM RegistersTyped == SetupSpec => []TypeOK
<1>1. IInv => TypeOK
  BY DEF IInv
<1> QED
  BY InitIInv, StepIInv, <1>1, PTL DEF SetupSpec

\* THEOREM: main, its restarts included, is a client the promise of the driver holds for.
THEOREM MainImplementsConfig == SetupSpec => SettingsAreIndependent
<1>1. SetupInit => Abstract!Init
  BY InitImplements DEF SetupInit
<1>2. IInv /\ [SetupNext]_setupVars => [Abstract!Next]_<<ConfigInForce, request, result>>
  <2> SUFFICES ASSUME IInv, [SetupNext]_setupVars
               PROVE  [Abstract!Next]_<<ConfigInForce, request, result>>
    OBVIOUS
  <2>1. CASE EarlierCalls
    BY <2>1, CallImplements DEF EarlierCalls, Next, IInv, Abstract!Next
  <2>2. CASE MainCall
    <3>1. done + 1 \in 1..Len(MainCalls)
      BY <2>2, MainAsks DEF MainCall, IInv
    <3> QED
      BY <2>2, <3>1, MainCallsAssumption, CallImplements DEF MainCall, IInv, Abstract!Next
  <2>3. CASE UNCHANGED vars
    BY <2>3 DEF vars, ConfigInForce, DetectorIs
  <2> QED
    BY <2>1, <2>2, <2>3 DEF SetupNext, Start, setupVars
<1> QED
  BY InitIInv, StepIInv, <1>1, <1>2, PTL
     DEF SetupSpec, SettingsAreIndependent, Abstract!Spec
===============================================================================
