------------------------------- MODULE INA260 -------------------------------
(***************************************************************************)
(* Adafruit_INA260: the driver of the voltage sensor of the server, one    *)
(* bus transaction per step, against a chip that measures, may not answer  *)
(* and may lose its supply at any moment.                                  *)
(*                                                                         *)
(* A call points the chip at a register, fetches its two bytes and, when   *)
(* it sets something, stores them back with its slice changed.  Readings   *)
(* and settings are in units of the registers, the alert limit in quarters *)
(* of a milliampere.  _buffer is written before it is read, and _cached    *)
(* read by nobody: both are left out.                                      *)
(***************************************************************************)
EXTENDS BusRegister

CONSTANTS
  Values,        \* [setting -> what a caller may set it to]
  Samples,       \* [measurement register -> what the chip may measure]
  Chips,         \* <<manufacturer, die>> of what may sit at the address
  MaxCalls,      \* bound: public calls
  MaxFaults,     \* bound: transactions that are not acknowledged
  MaxRestarts,   \* bound: losses of supply of the chip
  Unknown,       \* a setting the caller can say nothing about
  NoCall         \* no call is running; none has returned

VARIABLES
  chip,          \* the chip: the registers that keep what they hold
  pointer,       \* the chip: the register its next bytes come from
  device,        \* i2c_dev # NULL
  registers,     \* Config, MaskEnable and AlertLimit # NULL
  call,          \* the call that is running
  returned,      \* the last call that returned
  known,         \* history: what each setting was last set to
  calls, faults, restarts

vars == <<chip, pointer, device, registers, call, returned, known,
          calls, faults, restarts>>

Measurements == {"CURRENT", "BUSVOLTAGE", "POWER"}
Stored == {"CONFIG", "MASK_ENABLE", "ALERT_LIMIT", "MFG_UID", "DIE_UID"}
Registers == Stored \cup Measurements
RegBits == 2 * ByteBits

-----------------------------------------------------------------------------
(* The slices of the driver's functions. *)
Mode == Slice("CONFIG", 3, 0)
AveragingCount == Slice("CONFIG", 3, 9)
CurrentConversionTime == Slice("CONFIG", 3, 3)
VoltageConversionTime == Slice("CONFIG", 3, 6)
ConversionReady == Slice("MASK_ENABLE", 1, 3)
AlertType == Slice("MASK_ENABLE", 6, 10)
AlertLimit == Slice("ALERT_LIMIT", 16, 0)
AlertPolarity == Slice("MASK_ENABLE", 1, 1)
AlertLatch == Slice("MASK_ENABLE", 1, 0)
AlertFunctionFlag == Slice("MASK_ENABLE", 1, 4)
DeviceId == Slice("DIE_UID", 12, 4)
ResetBit == Slice("CONFIG", 1, 15)

Setting ==
  [mode |-> Mode, averagingCount |-> AveragingCount,
   currentConversionTime |-> CurrentConversionTime,
   voltageConversionTime |-> VoltageConversionTime, alertType |-> AlertType,
   alertLimit |-> AlertLimit, alertPolarity |-> AlertPolarity,
   alertLatch |-> AlertLatch]
Settings == DOMAIN Setting

(* The other calls that read and return. *)
Reading ==
  [readCurrent |-> Whole("CURRENT"), readBusVoltage |-> Whole("BUSVOLTAGE"),
   readPower |-> Whole("POWER"), conversionReady |-> ConversionReady,
   alertFunctionFlag |-> AlertFunctionFlag]

(* setAlertLimit(): limit / 1.25, cut to an integer towards zero. *)
LimitUnits(limit) == IF limit >= 0 THEN limit \div 5 ELSE -((-limit) \div 5)

(* The word a caller's setting becomes. *)
Asked(s, value) == ToWord(IF s = "alertLimit" THEN LimitUnits(value) ELSE value)

(* What begin() takes for the right chip. *)
Manufacturer == ToWord(21577)    \* 0x5449
Device == ToWord(551)            \* 0x227

(* Mutant of RightChip: one of the two is enough. *)
RightChipEither(part, word) == part = "manufacturer" \/ word = Device

(* Does the id just read let begin() go on? *)
RightChip(part, word) ==
  word = (IF part = "manufacturer" THEN Manufacturer ELSE Device)

-----------------------------------------------------------------------------
(* The chip. *)
DefaultSetting ==
  [mode |-> 7, averagingCount |-> 0, currentConversionTime |-> 4,
   voltageConversionTime |-> 4, alertType |-> 0, alertLimit |-> 0,
   alertPolarity |-> 0, alertLatch |-> 0]

Default(r) ==
  UNION {Shl(ToWord(DefaultSetting[s]), Setting[s].shift) :
           s \in {s \in Settings : Setting[s].reg = r}}

AfterReset(regs) ==
  [r \in Stored |-> IF r \in {"MFG_UID", "DIE_UID"} THEN regs[r] ELSE Default(r)]

(* The widths of the chip and of C, what a caller may set and what the chip  *)
(* measures; what it starts with fits into the slices.                       *)
ASSUME ChipAssumption ==
  /\ ByteBits >= 8 /\ IntBits >= 16 /\ RegBits < ValueBits
  /\ {MaxCalls, MaxFaults, MaxRestarts} \subseteq Nat
  /\ \A s \in Settings : Values[s] \subseteq Int
  /\ \A r \in Measurements : Samples[r] \subseteq Words(RegBits)
  /\ Chips \subseteq Words(RegBits) \X Words(RegBits)
  /\ \A s \in Settings : ToWord(DefaultSetting[s]) \subseteq Low(Setting[s].bits)

(* The flags are the chip's own, and the bit of the reset resets. *)
FlagBits == {ConversionReady.shift, AlertFunctionFlag.shift}
AfterStore(regs, r, word) ==
  IF r = "CONFIG" /\ ResetBit.shift \in word THEN AfterReset(regs)
  ELSE [regs EXCEPT ![r] = IF r = "MASK_ENABLE"
                             THEN word \ FlagBits ELSE word]

(* Two bytes on the bus, the higher first. *)
Bytes(word) == <<Shr(word, ByteBits), word \cap Low(ByteBits)>>
WordOf(bytes) ==
  UNION {Shl(bytes[k], (Len(bytes) - k) * ByteBits) : k \in DOMAIN bytes}

(* It measures and signals all the time: what it may answer of a register. *)
Answers(r) ==
  CASE r \in Measurements -> Samples[r]
    [] r = "MASK_ENABLE" -> {chip[r] \cup f : f \in SUBSET FlagBits}
    [] OTHER -> {chip[r]}

(* The supply of the chip comes back: nothing that was set is left, and the *)
(* pointer, which matters to a fetch only, may be anywhere.                 *)
ChipRestart ==
  /\ restarts < MaxRestarts
  /\ restarts' = restarts + 1
  /\ chip' = AfterReset(chip)
  /\ \E r \in Registers :
       pointer' = IF call # NoCall /\ call.at = "fetch" THEN r ELSE pointer
  /\ call' = IF call = NoCall THEN NoCall ELSE [call EXCEPT !.restarted = TRUE]
  /\ known' = [s \in Settings |-> Unknown]
  /\ UNCHANGED <<device, registers, returned, calls, faults>>

-----------------------------------------------------------------------------
(* The driver. *)
Init ==
  /\ \E id \in Chips :
       chip = AfterReset([r \in Stored |-> IF r = "MFG_UID" THEN id[1] ELSE id[2]])
  /\ pointer = "CONFIG"
  /\ device = FALSE
  /\ registers = FALSE
  /\ call = NoCall
  /\ returned = NoCall
  /\ known = [s \in Settings |-> Unknown]
  /\ calls = 0
  /\ faults = 0
  /\ restarts = 0

(* A call of the public function api begins with part, at a transaction. *)
Enter(api, part, at, slice, value) ==
  /\ call = NoCall
  /\ calls < MaxCalls
  /\ calls' = calls + 1
  /\ call' = [api |-> api, part |-> part, at |-> at, slice |-> slice,
              value |-> value, word |-> {}, fault |-> FALSE,
              misread |-> FALSE, restarted |-> FALSE]
  /\ returned' = NoCall
  /\ UNCHANGED <<chip, pointer, registers, known, faults, restarts>>

begin == Enter("begin", "detect", "detect", Whole("MFG_UID"), 0) /\ device' = TRUE

reset ==
  /\ registers
  /\ Enter("reset", "set", "point", ResetBit, 1)
  /\ UNCHANGED device

Set ==
  /\ registers
  /\ \E s \in Settings : \E value \in Values[s] :
       Enter(s, "set", "point", Setting[s], value)
  /\ UNCHANGED device

Get ==
  /\ registers
  /\ \E s \in Settings : Enter(s, "get", "point", Setting[s], 0)
  /\ UNCHANGED device

(* Without begin() a measurement has no device to ask, and fails. *)
Read ==
  /\ \E name \in DOMAIN Reading :
       /\ registers \/ Reading[name].reg \in Measurements
       /\ Enter(name, "get", "point", Reading[name], 0)
  /\ UNCHANGED device

(* One transaction of the running call, and whether the chip answers. *)
Transaction(at, ok) ==
  /\ call # NoCall
  /\ call.at = at
  /\ ok => device
  /\ ok \/ ~device \/ faults < MaxFaults
  /\ faults' = IF ok \/ ~device THEN faults ELSE faults + 1
  /\ UNCHANGED <<device, calls, restarts>>

Return(result, fault) ==
  /\ call' = NoCall
  /\ returned' = [api |-> call.api, part |-> call.part, slice |-> call.slice,
                  result |-> result, fault |-> fault, restarted |-> call.restarted]

(* The caller reads (int16_t) of the current, and its slice of the others. *)
Result(word) ==
  IF call.api = "readCurrent" THEN Low(RegBits) \cap word
  ELSE Extracted(word, call.slice)

(* read() has made a word of what came. *)
Got(word, fault) ==
  \/ /\ call.part \in {"manufacturer", "device"}
     /\ ~RightChip(call.part, Extracted(word, call.slice))
     /\ Return({}, fault)
     /\ UNCHANGED registers
  \/ /\ call.part = "manufacturer"
     /\ RightChip(call.part, Extracted(word, call.slice))
     /\ call' = [call EXCEPT !.part = "device", !.slice = DeviceId,
                             !.at = "point", !.fault = fault]
     /\ UNCHANGED <<registers, returned>>
  \/ /\ call.part = "device"
     /\ RightChip(call.part, Extracted(word, call.slice))
     /\ registers' = TRUE
     /\ call' = [call EXCEPT !.part = "set", !.slice = ResetBit, !.value = 1,
                             !.at = "point", !.fault = fault]
     /\ UNCHANGED returned
  \/ /\ call.part = "get"
     /\ Return(Result(word), fault)
     /\ UNCHANGED registers
  \/ /\ call.part = "set"
     /\ call' = [call EXCEPT !.word = word, !.at = "store", !.fault = fault,
                             !.misread = fault \/ call.restarted]
     /\ UNCHANGED <<registers, returned>>

(* detected(): does anything answer at the address? *)
Detect ==
  /\ \E ok \in BOOLEAN :
       /\ Transaction("detect", ok)
       /\ IF ok
            THEN /\ call' = [call EXCEPT !.part = "manufacturer", !.at = "point"]
                 /\ UNCHANGED returned
            ELSE Return({}, TRUE)
  /\ UNCHANGED <<chip, pointer, registers, known>>

(* The address byte of write_then_read(). *)
Point ==
  /\ \E ok \in BOOLEAN :
       /\ Transaction("point", ok)
       /\ IF Transmits(1, ok)
            THEN /\ pointer' = call.slice.reg
                 /\ call' = [call EXCEPT !.at = "fetch"]
                 /\ UNCHANGED <<registers, returned>>
            ELSE /\ Got(ReadValue(FALSE, <<>>), TRUE)
                 /\ UNCHANGED pointer
  /\ UNCHANGED <<chip, known>>

(* The two bytes of the register, all of them or none. *)
Fetch ==
  /\ \E ok \in BOOLEAN, word \in Answers(pointer) :
       /\ Transaction("fetch", ok)
       /\ LET came == Transmits(2, ok)
          IN  Got(ReadValue(came, Bytes(word)), call.fault \/ ~came)
  /\ UNCHANGED <<chip, pointer, known>>

(* What the caller knows after its word was stored, or perhaps not. *)
Learnt(ok) ==
  LET misread(s) == \/ call.slice.reg = "CONFIG"
                    \/ Setting[s].reg = call.slice.reg /\ s # call.api
  IN  [s \in Settings |->
         IF call.slice = ResetBit THEN IF ok THEN DefaultSetting[s] ELSE Unknown
         ELSE IF call.misread /\ misread(s) THEN Unknown
         ELSE IF s # call.api THEN known[s]
         ELSE IF ok THEN call.value ELSE Unknown]

(* Mutant of DataOf: the value of the caller as it is. *)
DataOfUnscaled == ToWord(call.value)

DataOf == IF call.api \in Settings THEN Asked(call.api, call.value)
          ELSE ToWord(call.value)

(* The address and the two bytes of a set; what is not acknowledged may    *)
(* still have been taken.                                                  *)
Store ==
  /\ \E ok, taken \in BOOLEAN :
       /\ Transaction("store", ok)
       /\ ok => taken
       /\ LET word == Inserted(call.word, call.slice, DataOf)
              sent == WordOf(ToBuffer(word, 2))
              came == Transmits(3, ok)
          IN  /\ chip' = IF taken THEN AfterStore(chip, call.slice.reg, sent)
                         ELSE chip
              /\ known' = Learnt(came)
              /\ Return(IF call.api = "begin" THEN {0} ELSE {},
                        call.fault \/ ~came)
       /\ pointer' = IF taken THEN call.slice.reg ELSE pointer
  /\ UNCHANGED registers

DriverStep == Detect \/ Point \/ Fetch \/ Store

Next ==
  \/ begin \/ reset \/ Set \/ Get \/ Read
  \/ Detect \/ Point \/ Fetch \/ Store
  \/ ChipRestart

Spec == Init /\ [][Next]_vars

-----------------------------------------------------------------------------
(* Properties *)

CallType ==
  [api : Settings \cup DOMAIN Reading \cup {"begin", "reset"},
   part : {"detect", "manufacturer", "device", "get", "set"},
   at : {"detect", "point", "fetch", "store"},
   slice : {Setting[s] : s \in Settings} \cup {Reading[n] : n \in DOMAIN Reading}
             \cup {Whole("MFG_UID"), DeviceId, ResetBit},
   value : Int, word : Words(ValueBits), fault : BOOLEAN, misread : BOOLEAN,
   restarted : BOOLEAN]

(* Registers of the chip are of two bytes whatever the driver stores, and  *)
(* the driver reads no more than an uint32_t.                              *)
TypeOK ==
  /\ chip \in [Stored -> Words(RegBits)]
  /\ pointer \in Registers
  /\ device \in BOOLEAN
  /\ registers \in BOOLEAN
  /\ registers => device
  /\ call = NoCall \/ call \in CallType
  /\ returned = NoCall \/ returned.result \in Words(ValueBits)
  /\ DOMAIN known = Settings
  /\ calls \in 0..MaxCalls
  /\ faults \in 0..MaxFaults
  /\ restarts \in 0..MaxRestarts

Field(word, slice) == {b \in Low(slice.bits) : b + slice.shift \in word}

(* The chip has every setting as it was last set, whatever was set in the  *)
(* same register since and whatever went wrong, as long as no register was *)
(* set from a read that failed, no store is in doubt and the chip kept its *)
(* supply.                                                                 *)
SettingsHeld ==
  \A s \in Settings : known[s] # Unknown =>
    Field(chip[Setting[s].reg], Setting[s]) =
      Low(Setting[s].bits) \cap Asked(s, known[s])

(* The number of a word of the two bytes of a register. *)
Digit(word, b) == IF b \in word THEN 1 ELSE 0
Nibble(word, b) ==
  Digit(word, b) + 2 * Digit(word, b + 1) + 4 * Digit(word, b + 2) + 8 * Digit(word, b + 3)
Number(word) ==
  Nibble(word, 0) + 16 * Nibble(word, 4) + 256 * Nibble(word, 8) + 4096 * Nibble(word, 12)

Clean == returned # NoCall /\ ~returned.fault /\ ~returned.restarted

(* What a call reads is what the chip has, if its transactions came         *)
(* through: a setting as it was set, of an alert limit that is not negative *)
(* less than a unit of the register lower, and of a measurement one that    *)
(* the chip made of that quantity.                                          *)
ReadBack ==
  Clean /\ returned.part = "get" =>
    IF returned.api \in Settings
      THEN LET set == known[returned.api]
               got == Number(returned.result)
           IN  set # Unknown =>
                 /\ returned.result \subseteq Low(16)
                 /\ IF returned.api # "alertLimit" THEN got = set
                    ELSE set >= 0 => 5 * got <= set /\ set < 5 * (got + 1)
      ELSE \A r \in Measurements :
             returned.slice = Whole(r) => returned.result \in Samples[r]

(* begin() reports success for an INA260 only, and makes no registers for  *)
(* another chip.                                                           *)
OnlyRightChip ==
  registers \/ (returned # NoCall /\ returned.api = "begin" /\ returned.result # {})
    => /\ chip["MFG_UID"] = Manufacturer
       /\ Field(chip["DIE_UID"], DeviceId) = Device

(* A voltage or a power that could not be read is beyond all the chip can  *)
(* measure: what the server broadcasts of it can be told from a voltage.   *)
FailureVisible ==
  returned # NoCall /\ returned.api \in {"readBusVoltage", "readPower"}
    /\ returned.fault => ~(returned.result \subseteq Low(RegBits))
=============================================================================
