---------------------------- MODULE INA260Proofs ----------------------------
(***************************************************************************)
(* Theorems about the INA260 driver, for any values a caller sets, any     *)
(* readings and identities of the chip, and any sequence of calls, of      *)
(* transactions that fail and of losses of the chip's supply.              *)
(***************************************************************************)
EXTENDS INA260, TLAPS

Widths ==
  /\ ByteBits \in Nat /\ ByteBits >= 8
  /\ IntBits \in Nat /\ IntBits >= 16
  /\ ValueBits \in Nat /\ RegBits \in Nat
  /\ RegBits = ByteBits + ByteBits
  /\ IntBits <= ValueBits /\ RegBits < ValueBits /\ RegBits >= 16

LEMMA WidthFacts == Widths
BY WidthAssumption, ChipAssumption DEF Widths, RegBits

-----------------------------------------------------------------------------
(* The slices. *)

LEMMA SettingsAre ==
  Settings = {"mode", "averagingCount", "currentConversionTime",
              "voltageConversionTime", "alertType", "alertLimit",
              "alertPolarity", "alertLatch"}
BY DEF Settings, Setting

(* Every setting is a slice of a register of 16 bits: none holds the bit of   *)
(* the reset or a flag of the chip, and only the alert limit is as wide as   *)
(* an int may be.                                                            *)
LEMMA SettingShape ==
  ASSUME NEW s \in Settings
  PROVE  /\ Setting[s].reg \in {"CONFIG", "MASK_ENABLE", "ALERT_LIMIT"}
         /\ Setting[s].bits \in 1 .. 16 /\ Setting[s].shift \in 0 .. 15
         /\ Setting[s].shift + Setting[s].bits <= 16
         /\ Setting[s].reg = "CONFIG" => Setting[s].shift + Setting[s].bits <= 12
         /\ Setting[s].reg = "MASK_ENABLE" =>
              Setting[s].shift >= 10 \/ Setting[s].shift + Setting[s].bits <= 2
         /\ Setting[s].reg # "ALERT_LIMIT" => Setting[s].bits <= 6
         /\ Setting[s].reg = "ALERT_LIMIT" => s = "alertLimit"
         /\ Setting[s] # ResetBit
BY SettingsAre
   DEF Setting, Slice, Mode, AveragingCount, CurrentConversionTime,
       VoltageConversionTime, AlertType, AlertLimit, AlertPolarity, AlertLatch, ResetBit

(* No two settings share a bit. *)
LEMMA SettingsApart ==
  ASSUME NEW s \in Settings, NEW t \in Settings, s # t, Setting[s].reg = Setting[t].reg
  PROVE  \/ Setting[s].shift + Setting[s].bits <= Setting[t].shift
         \/ Setting[t].shift + Setting[t].bits <= Setting[s].shift
BY SettingsAre
   DEF Setting, Slice, Mode, AveragingCount, CurrentConversionTime,
       VoltageConversionTime, AlertType, AlertLimit, AlertPolarity, AlertLatch

LEMMA ReadingShape ==
  /\ DOMAIN Reading = {"readCurrent", "readBusVoltage", "readPower",
                       "conversionReady", "alertFunctionFlag"}
  /\ \A n \in DOMAIN Reading : Reading[n].reg \in Registers
  /\ Reading["readBusVoltage"] = Whole("BUSVOLTAGE")
  /\ Reading["readPower"] = Whole("POWER")
  /\ Reading["readCurrent"] = Whole("CURRENT")
BY DEF Reading, Whole, Slice, ConversionReady, AlertFunctionFlag, Registers, Stored,
       Measurements

LEMMA OtherSlices ==
  /\ ResetBit.reg = "CONFIG" /\ ResetBit.bits = 1 /\ ResetBit.shift = 15
  /\ DeviceId.reg = "DIE_UID" /\ DeviceId.bits = 12 /\ DeviceId.shift = 4
  /\ \A r \in Registers : /\ Whole(r).reg = r /\ Whole(r).bits = ValueBits
                          /\ Whole(r).shift = 0
  /\ FlagBits = {3, 4}
BY DEF ResetBit, DeviceId, Whole, Slice, FlagBits, ConversionReady, AlertFunctionFlag

-----------------------------------------------------------------------------
(* Words. *)

LEMMA MaskHoldsSlice ==
  ASSUME NEW n \in Nat
  PROVE  /\ n <= ValueBits => Low(n) \subseteq Mask(n)
         /\ Mask(n) \subseteq Ones
         /\ n < IntBits => Mask(n) = Low(n)
         /\ Mask(ValueBits) = Ones
BY WidthFacts DEF Widths, Mask, Low, Ones

(* The union of two bytes, the higher first. *)
LEMMA TwoBytes ==
  ASSUME NEW bytes, DOMAIN bytes = 1 .. 2, Len(bytes) = 2
  PROVE  /\ WordOf(bytes) = Shl(bytes[1], ByteBits) \cup Shl(bytes[2], 0)
         /\ FromBuffer(bytes) = WordOf(bytes)
<1>1. (2 - 1) * ByteBits = ByteBits /\ (2 - 2) * ByteBits = 0
  BY WidthFacts DEF Widths
<1>2. DOMAIN bytes = {1, 2}
  OBVIOUS
<1>3. WordOf(bytes) = UNION {Shl(bytes[k], (2 - k) * ByteBits) : k \in {1, 2}}
  BY <1>2 DEF WordOf
<1>4. UNION {Shl(bytes[k], (2 - k) * ByteBits) : k \in {1, 2}}
        = Shl(bytes[1], (2 - 1) * ByteBits) \cup Shl(bytes[2], (2 - 2) * ByteBits)
  BY Zenon
<1> QED
  BY <1>1, <1>3, <1>4 DEF WordOf, FromBuffer

(* Two bytes of a word put together. *)
LEMMA BytesTogether ==
  ASSUME NEW word \in Words(ValueBits), NEW high, NEW low,
         high \subseteq Nat,
         \A b \in Nat : b + ByteBits < ValueBits =>
           (b \in high <=> b + ByteBits < RegBits /\ b + ByteBits \in word),
         low = word \cap Low(ByteBits)
  PROVE  Shl(high, ByteBits) \cup Shl(low, 0) = word \cap Low(RegBits)
<1> USE WidthFacts DEF Widths
<1>1. Shl(low, 0) = word \cap Low(ByteBits)
  BY DEF Shl, Low, Ones
<1>2. ASSUME NEW c \in Nat
      PROVE  c \in Shl(high, ByteBits) <=> c \in word /\ c >= ByteBits /\ c < RegBits
  <2>1. CASE c < ByteBits
    BY <2>1 DEF Shl
  <2>2. CASE c >= ByteBits
    <3>1. c - ByteBits \in Nat /\ (c - ByteBits) + ByteBits = c
      BY <2>2
    <3>2. c \in Shl(high, ByteBits) <=> c - ByteBits \in high /\ c \in Ones
      BY <3>1 DEF Shl
    <3>3. c \in Ones <=> c < ValueBits
      BY DEF Ones
    <3> QED
      BY <2>2, <3>1, <3>2, <3>3
  <2> QED
    BY <2>1, <2>2
<1>3. Shl(high, ByteBits) \subseteq Nat /\ word \subseteq Nat
  BY DEF Shl, Ones, Words, Low
<1> QED
  BY <1>1, <1>2, <1>3 DEF Low

(* The two bytes sent of a word are its lower two. *)
LEMMA SentIsLow ==
  ASSUME NEW word \in Words(ValueBits)
  PROVE  WordOf(ToBuffer(word, 2)) = word \cap Low(RegBits)
<1> DEFINE bytes == ToBuffer(word, 2)
<1> USE WidthFacts DEF Widths
<1>1. (2 - 1) * ByteBits = ByteBits /\ (2 - 2) * ByteBits = 0
  OBVIOUS
<1>2. /\ DOMAIN bytes = 1 .. 2 /\ Len(bytes) = 2
      /\ bytes[1] = {b \in Low(ByteBits) : b + (2 - 1) * ByteBits \in word}
      /\ bytes[2] = {b \in Low(ByteBits) : b + (2 - 2) * ByteBits \in word}
  BY DEF ToBuffer, ByteAt
<1> HIDE DEF bytes
<1>3. /\ bytes[1] = {b \in Low(ByteBits) : b + ByteBits \in word}
      /\ bytes[2] = word \cap Low(ByteBits)
  BY <1>1, <1>2 DEF Low
<1>4. Shl(bytes[1], ByteBits) \cup Shl(bytes[2], 0) = word \cap Low(RegBits)
  <2>1. bytes[1] \subseteq Nat
    BY <1>3 DEF Low
  <2>2. ASSUME NEW b \in Nat
        PROVE  b \in bytes[1] <=> b + ByteBits < RegBits /\ b + ByteBits \in word
    BY <1>3 DEF Low
  <2> QED
    BY <1>3, <2>1, <2>2, BytesTogether
<1> QED
  BY <1>2, <1>4, TwoBytes DEF bytes

(* What is fetched of a register is what it holds. *)
LEMMA FetchedIsWord ==
  ASSUME NEW word \in Words(RegBits)
  PROVE  FromBuffer(Bytes(word)) = word
<1> DEFINE bytes == Bytes(word)
<1> USE WidthFacts DEF Widths
<1>1. /\ DOMAIN bytes = 1 .. 2 /\ Len(bytes) = 2
      /\ bytes[1] = {b \in Ones : b + ByteBits \in word}
      /\ bytes[2] = word \cap Low(ByteBits)
  BY DEF Bytes, Shr
<1> HIDE DEF bytes
<1>2. word \in Words(ValueBits) /\ word \cap Low(RegBits) = word
  <2>1. word \subseteq Low(RegBits)
    BY DEF Words
  <2>2. Low(RegBits) \subseteq Low(ValueBits)
    BY DEF Low
  <2> QED
    BY <2>1, <2>2 DEF Words
<1>3. Shl(bytes[1], ByteBits) \cup Shl(bytes[2], 0) = word \cap Low(RegBits)
  <2>1. bytes[1] \subseteq Nat
    BY <1>1 DEF Ones
  <2>2. ASSUME NEW b \in Nat, b + ByteBits < ValueBits
        PROVE  b \in bytes[1] <=> b + ByteBits < RegBits /\ b + ByteBits \in word
    <3>1. b \in Ones
      BY <2>2 DEF Ones
    <3>2. b + ByteBits \in word => b + ByteBits < RegBits
      BY DEF Words, Low
    <3> QED
      BY <1>1, <3>1, <3>2
  <2> QED
    BY <1>1, <1>2, <2>1, <2>2, BytesTogether
<1> QED
  BY <1>1, <1>2, <1>3, TwoBytes DEF bytes

(* A slice that is written holds the data, and no other place changes. *)
LEMMA InsertedOwn ==
  ASSUME NEW word, NEW data, NEW slice,
         slice.bits \in Nat, slice.shift \in Nat, slice.shift + slice.bits <= ValueBits
  PROVE  Field(Inserted(word, slice, data), slice) = Low(slice.bits) \cap data
<1>1. Low(slice.bits) \subseteq Mask(slice.bits) /\ Mask(slice.bits) \subseteq Ones
  BY MaskHoldsSlice, WidthFacts DEF Widths
<1>2. ASSUME NEW b \in Low(slice.bits)
      PROVE  b + slice.shift \in Inserted(word, slice, data) <=> b \in data
  <2>1. b + slice.shift \in Ones
    BY WidthFacts DEF Widths, Low, Ones
  <2>2. b + slice.shift \in Shl(Mask(slice.bits), slice.shift)
    BY <1>1, <2>1 DEF Shl
  <2>3. b + slice.shift \in Shl(data \cap Mask(slice.bits), slice.shift) <=> b \in data
    <3>1. ASSUME NEW c \in Mask(slice.bits), c + slice.shift = b + slice.shift
          PROVE  c = b
      BY <1>1, <3>1 DEF Ones, Low
    <3> QED
      BY <1>1, <2>1, <3>1 DEF Shl
  <2> QED
    BY <2>2, <2>3 DEF Inserted
<1> QED
  BY <1>2 DEF Field

LEMMA InsertedElsewhere ==
  ASSUME NEW word, NEW data, NEW slice,
         slice.bits \in Nat, slice.shift \in Nat, slice.bits < IntBits,
         NEW b \in Nat, b < slice.shift \/ b >= slice.shift + slice.bits
  PROVE  b \in Inserted(word, slice, data) <=> b \in word
<1>1. Mask(slice.bits) = Low(slice.bits)
  BY MaskHoldsSlice
<1>2. b \notin Shl(Mask(slice.bits), slice.shift)
  BY <1>1 DEF Shl, Low
<1>3. b \notin Shl(data \cap Mask(slice.bits), slice.shift)
  BY <1>1 DEF Shl, Low
<1> QED
  BY <1>2, <1>3 DEF Inserted

LEMMA InsertedType ==
  ASSUME NEW word \in Words(ValueBits), NEW data, NEW slice
  PROVE  Inserted(word, slice, data) \in Words(ValueBits)
BY DEF Inserted, Shl, Words, Ones, Low

LEMMA ExtractedType ==
  ASSUME NEW word, NEW slice
  PROVE  Extracted(word, slice) \in Words(ValueBits)
BY DEF Extracted, Shr, Words, Ones, Low

(* A register that could not be read reads as no register does. *)
LEMMA OnesIsNoId ==
  /\ Extracted(Ones, Whole("MFG_UID")) # Manufacturer
  /\ Extracted(Ones, DeviceId) # Device
  /\ \A r \in Registers : Extracted(Ones, Whole(r)) = Ones
  /\ ~(Ones \subseteq Low(RegBits))
<1> USE WidthFacts, MaskHoldsSlice, OtherSlices DEF Widths
<1>1. \A r \in Registers : Extracted(Ones, Whole(r)) = Ones
  <2>1. Shr(Ones, 0) = Ones
    BY DEF Shr, Ones
  <2> QED
    BY <2>1 DEF Extracted
<1>2. 1 \in Ones /\ 1 \notin Manufacturer
  BY DEF Ones, Manufacturer, ToWord, Binary
<1>3. 3 \in Extracted(Ones, DeviceId) /\ 3 \notin Device
  <2>1. 3 \in Shr(Ones, 4)
    BY DEF Shr, Ones
  <2>2. 3 \in Mask(12)
    BY DEF Low
  <2>3. 3 \notin Device
    BY DEF Device, ToWord, Binary
  <2> QED
    BY <2>1, <2>2, <2>3 DEF Extracted
<1>4. RegBits \in Ones /\ RegBits \notin Low(RegBits)
  BY DEF Ones, Low
<1>5. "MFG_UID" \in Registers
  BY DEF Registers, Stored
<1> QED
  BY <1>1, <1>2, <1>3, <1>4, <1>5

-----------------------------------------------------------------------------
(* The defaults. *)

LEMMA DefaultFits ==
  ASSUME NEW s \in Settings, NEW c \in ToWord(DefaultSetting[s])
  PROVE  c \in Nat /\ c < Setting[s].bits
<1>1. ToWord(DefaultSetting[s]) \subseteq Low(Setting[s].bits)
  BY ChipAssumption
<1>2. c \in Low(Setting[s].bits)
  BY <1>1
<1>3. Setting[s].bits \in 1 .. 16
  BY SettingShape
<1> QED
  BY <1>2, <1>3 DEF Low

(* What a default puts into its register is its slice, and nothing else.     *)
LEMMA DefaultPlaces ==
  ASSUME NEW r \in Stored, NEW b
  PROVE  b \in Default(r) <=>
           /\ b \in Nat
           /\ \E s \in Settings : /\ Setting[s].reg = r
                                  /\ b - Setting[s].shift \in ToWord(DefaultSetting[s])
<1> USE WidthFacts DEF Widths
<1>1. ASSUME NEW s \in Settings
      PROVE  b \in Shl(ToWord(DefaultSetting[s]), Setting[s].shift)
               <=> b \in Nat /\ b - Setting[s].shift \in ToWord(DefaultSetting[s])
  <2>2. /\ Setting[s].bits \in 1 .. 16 /\ Setting[s].shift \in 0 .. 15
        /\ Setting[s].shift + Setting[s].bits <= 16
    BY SettingShape
  <2>3. ASSUME NEW c \in ToWord(DefaultSetting[s])
        PROVE  /\ c \in Nat /\ c + Setting[s].shift \in Ones
               /\ (c + Setting[s].shift) - Setting[s].shift = c
    <3>1. c \in Nat /\ c < Setting[s].bits
      BY DefaultFits
    <3> QED
      BY <2>2, <3>1 DEF Ones
  <2>4. ASSUME b \in Nat, b - Setting[s].shift \in ToWord(DefaultSetting[s])
        PROVE  b = (b - Setting[s].shift) + Setting[s].shift
    BY <2>2, <2>4
  <2>5. b \in Ones => b \in Nat
    BY DEF Ones
  <2> QED
    BY <2>3, <2>4, <2>5 DEF Shl
<1>2. b \in Default(r) <=> \E s \in Settings : Setting[s].reg = r
                             /\ b \in Shl(ToWord(DefaultSetting[s]), Setting[s].shift)
  BY DEF Default
<1> QED
  BY <1>1, <1>2

LEMMA DefaultType ==
  ASSUME NEW r \in Stored
  PROVE  /\ Default(r) \in Words(RegBits)
         /\ r = "CONFIG" => 15 \notin Default(r)
<1> USE WidthFacts DEF Widths
<1>1. ASSUME NEW b \in Default(r)
      PROVE  b \in Nat /\ b < 16 /\ (r = "CONFIG" => b < 12)
  <2>1. PICK s \in Settings : /\ Setting[s].reg = r
                              /\ b - Setting[s].shift \in ToWord(DefaultSetting[s])
    BY <1>1, DefaultPlaces
  <2>2. b \in Nat
    BY <1>1, DefaultPlaces
  <2>3. b - Setting[s].shift < Setting[s].bits
    BY <2>1, DefaultFits
  <2> QED
    BY <2>1, <2>2, <2>3, SettingShape
<1> QED
  BY <1>1 DEF Words, Low

(* Every setting starts as the driver takes it to. *)
LEMMA DefaultHeld ==
  ASSUME NEW s \in Settings
  PROVE  Field(Default(Setting[s].reg), Setting[s])
           = Low(Setting[s].bits) \cap Asked(s, DefaultSetting[s])
<1>1. Asked(s, DefaultSetting[s]) = ToWord(DefaultSetting[s])
  <2>1. DefaultSetting["alertLimit"] = 0 /\ LimitUnits(0) = 0
    BY DEF DefaultSetting, LimitUnits
  <2> QED
    BY <2>1 DEF Asked
<1>2. Setting[s].reg \in Stored
  BY SettingShape DEF Stored
<1>3. ASSUME NEW b \in Low(Setting[s].bits)
      PROVE  b + Setting[s].shift \in Default(Setting[s].reg) <=> b \in ToWord(DefaultSetting[s])
  <2>1. /\ b \in Nat /\ b < Setting[s].bits
        /\ Setting[s].bits \in Nat /\ Setting[s].shift \in Nat
    BY SettingShape DEF Low
  <2>2. ASSUME NEW t \in Settings, Setting[t].reg = Setting[s].reg,
               (b + Setting[s].shift) - Setting[t].shift \in ToWord(DefaultSetting[t])
        PROVE  t = s
    <3>1. /\ (b + Setting[s].shift) - Setting[t].shift >= 0
          /\ (b + Setting[s].shift) - Setting[t].shift < Setting[t].bits
      BY <2>2, DefaultFits
    <3>2. Setting[t].bits \in Nat /\ Setting[t].shift \in Nat
      BY SettingShape
    <3> QED
      BY <2>1, <2>2, <3>1, <3>2, SettingsApart
  <2>3. (b + Setting[s].shift) - Setting[s].shift = b /\ b + Setting[s].shift \in Nat
    BY <2>1
  <2> QED
    BY <1>2, <2>2, <2>3, DefaultPlaces
<1> QED
  BY <1>1, <1>3 DEF Field

-----------------------------------------------------------------------------
(* Calls. *)

(* Where a call may be, and of what slice it is. *)
Shaped(c) ==
  /\ c \in CallType
  /\ c.part = "detect" <=> c.at = "detect"
  /\ c.at = "store" => c.part = "set"
  /\ c.part \in {"detect", "manufacturer", "device"} => c.api = "begin"
  /\ c.part \in {"detect", "manufacturer"} => c.slice = Whole("MFG_UID")
  /\ c.part = "device" => c.slice = DeviceId
  /\ c.part = "get" => \/ c.api \in Settings /\ c.slice = Setting[c.api]
                       \/ c.api \in DOMAIN Reading /\ c.slice = Reading[c.api]
  /\ c.part = "get" => ~c.fault
  /\ c.part = "set" =>
       \/ c.api \in Settings /\ c.slice = Setting[c.api]
       \/ c.api \in {"begin", "reset"} /\ c.slice = ResetBit /\ c.value = 1

CallShape ==
  /\ call # NoCall => Shaped(call) /\ (call.api = "begin" => device)
  /\ call # NoCall => returned = NoCall

ChipTypeInv == TypeOK /\ CallShape

LEMMA NamesApart ==
  /\ Settings \cap DOMAIN Reading = {}
  /\ "begin" \notin Settings \cup DOMAIN Reading
  /\ "reset" \notin Settings \cup DOMAIN Reading
BY SettingsAre, ReadingShape

(* The settings of a register. *)
SettingsOf(r) == {s \in Settings : Setting[s].reg = r}

(* Why a setting that is known is held: a store changes its own slice of a  *)
(* word that has the other settings as the chip has them, unless the word   *)
(* was misread or the chip restarted, and then the others are not known.    *)
HeldInv ==
  /\ SettingsHeld
  /\ ResetBit.shift \notin chip["CONFIG"]
  /\ call # NoCall /\ call.restarted => \A s \in Settings : known[s] = Unknown
  /\ call # NoCall /\ call.at = "fetch" /\ ~call.restarted => pointer = call.slice.reg
  /\ call # NoCall /\ call.at = "store" /\ ~call.misread =>
       /\ call.slice.reg = "CONFIG" => ResetBit.shift \notin call.word
       /\ ~call.restarted => \A s \in SettingsOf(call.slice.reg) :
            Field(call.word, Setting[s]) = Field(chip[call.slice.reg], Setting[s])

(* ReadBack of the words themselves: a setting that is read is the word the *)
(* caller asked for, a measurement one the chip made of that quantity.      *)
ReadBackWord ==
  Clean /\ returned.part = "get" =>
    IF returned.api \in Settings
      THEN known[returned.api] # Unknown =>
             returned.result = Low(Setting[returned.api].bits)
                                 \cap Asked(returned.api, known[returned.api])
      ELSE \A r \in Measurements :
             returned.slice = Whole(r) => returned.result \in Samples[r]

(* What a chip with these two ids may answer when its supply has come back.  *)
FreshAnswers(r, id) ==
  CASE r \in Measurements -> Samples[r]
    [] r = "MASK_ENABLE" -> {Default(r) \cup f : f \in SUBSET FlagBits}
    [] r = "MFG_UID" -> {id[1]}
    [] r = "DIE_UID" -> {id[2]}
    [] OTHER -> {Default(r)}

(* No chip but an INA260 shows the ids of one in any of its registers: the   *)
(* manufacturer's would be a voltage of 27 V or a current of 27 A.           *)
NoLookalike ==
  \A r \in Registers, id \in Chips : \A word \in FreshAnswers(r, id) :
    /\ Extracted(word, Whole("MFG_UID")) = Manufacturer => id[1] = Manufacturer
    /\ Extracted(word, DeviceId) = Device => Field(id[2], DeviceId) = Device

(* Why begin() knows the chip: what it fetches comes from the register it    *)
(* pointed to, or from a chip that restarted and no lookalike.               *)
IdInv ==
  /\ <<chip["MFG_UID"], chip["DIE_UID"]>> \in Chips
  /\ call # NoCall /\ call.at = "fetch" =>
       pointer = call.slice.reg \/ (restarts > 0 /\ chip = AfterReset(chip))
  /\ call # NoCall /\ call.api = "begin" /\ call.part = "set" => registers
  /\ returned # NoCall /\ returned.api = "begin" /\ returned.result # {} => registers
  /\ NoLookalike \/ restarts = 0 =>
       /\ call # NoCall /\ call.part = "device" => chip["MFG_UID"] = Manufacturer
       /\ registers => /\ chip["MFG_UID"] = Manufacturer
                       /\ Field(chip["DIE_UID"], DeviceId) = Device

Apis == Settings \cup DOMAIN Reading \cup {"begin", "reset"}
Slices == {Setting[s] : s \in Settings} \cup {Reading[n] : n \in DOMAIN Reading}
            \cup {Whole("MFG_UID"), DeviceId, ResetBit}

LEMMA CallTypeIs ==
  CallType = [api : Apis, part : {"detect", "manufacturer", "device", "get", "set"},
              at : {"detect", "point", "fetch", "store"}, slice : Slices, value : Int,
              word : Words(ValueBits), fault : BOOLEAN, misread : BOOLEAN,
              restarted : BOOLEAN]
BY DEF CallType, Apis, Slices

(* Every slice of a call is of a register of the chip. *)
LEMMA SliceType ==
  ASSUME NEW c, Shaped(c)
  PROVE  /\ c.slice.reg \in Registers
         /\ c.part = "set" => c.slice.reg \in {"CONFIG", "MASK_ENABLE", "ALERT_LIMIT"}
<1>1. c.slice \in Slices
  BY CallTypeIs DEF Shaped
<1>2. "MFG_UID" \in Registers /\ "DIE_UID" \in Registers /\ "CONFIG" \in Registers
      /\ "MASK_ENABLE" \in Registers /\ "ALERT_LIMIT" \in Registers
  BY DEF Registers, Stored
<1>3. \A s \in Settings : Setting[s].reg \in Registers
  BY <1>2, SettingShape
<1>4. c.slice.reg \in Registers
  BY <1>1, <1>2, <1>3, ReadingShape, OtherSlices DEF Slices
<1>5. c.part = "set" => c.slice.reg \in {"CONFIG", "MASK_ENABLE", "ALERT_LIMIT"}
  BY SettingShape, OtherSlices DEF Shaped
<1> QED
  BY <1>4, <1>5

(* The call that a public function begins. *)
Begun(api, part, at, slice, value) ==
  [api |-> api, part |-> part, at |-> at, slice |-> slice, value |-> value,
   word |-> {}, fault |-> FALSE, misread |-> FALSE, restarted |-> FALSE]

LEMMA BegunShape ==
  /\ Shaped(Begun("begin", "detect", "detect", Whole("MFG_UID"), 0))
  /\ Shaped(Begun("reset", "set", "point", ResetBit, 1))
  /\ \A s \in Settings : \A value \in Int :
       Shaped(Begun(s, "set", "point", Setting[s], value))
  /\ \A s \in Settings : Shaped(Begun(s, "get", "point", Setting[s], 0))
  /\ \A n \in DOMAIN Reading : Shaped(Begun(n, "get", "point", Reading[n], 0))
<1>1. ASSUME NEW api \in Apis, NEW part \in {"detect", "get", "set"},
             NEW at \in {"detect", "point"}, NEW slice \in Slices, NEW value \in Int
      PROVE  Begun(api, part, at, slice, value) \in CallType
  <2>1. {} \in Words(ValueBits)
    BY DEF Words
  <2> QED
    BY <2>1, CallTypeIs DEF Begun
<1>2. /\ Settings \subseteq Apis /\ DOMAIN Reading \subseteq Apis
      /\ "begin" \in Apis /\ "reset" \in Apis
      /\ \A s \in Settings : Setting[s] \in Slices
      /\ \A n \in DOMAIN Reading : Reading[n] \in Slices
      /\ Whole("MFG_UID") \in Slices /\ ResetBit \in Slices
  BY DEF Apis, Slices
<1>3. Shaped(Begun("begin", "detect", "detect", Whole("MFG_UID"), 0))
  BY <1>1, <1>2 DEF Shaped, Begun
<1>4. Shaped(Begun("reset", "set", "point", ResetBit, 1))
  BY <1>1, <1>2 DEF Shaped, Begun
<1>5. \A s \in Settings : \A value \in Int :
        Shaped(Begun(s, "set", "point", Setting[s], value))
  BY <1>1, <1>2 DEF Shaped, Begun
<1>6. \A s \in Settings : Shaped(Begun(s, "get", "point", Setting[s], 0))
  BY <1>1, <1>2 DEF Shaped, Begun
<1>7. \A n \in DOMAIN Reading : Shaped(Begun(n, "get", "point", Reading[n], 0))
  BY <1>1, <1>2 DEF Shaped, Begun
<1> QED
  BY <1>3, <1>4, <1>5, <1>6, <1>7

(* Every call begins with one of these. *)
LEMMA EnterIs ==
  ASSUME begin \/ reset \/ Set \/ Get \/ Read, TypeOK
  PROVE  /\ Shaped(call') /\ call'.at \in {"detect", "point"}
         /\ call'.api = "begin" => call'.part = "detect" /\ device'
         /\ call'.part # "device" /\ ~call'.restarted
         /\ call = NoCall /\ returned' = NoCall
         /\ calls < MaxCalls /\ calls' = calls + 1
         /\ device' = device \/ device' = TRUE
         /\ UNCHANGED <<chip, pointer, registers, known, faults, restarts>>
<1>1. ASSUME NEW api, NEW part, NEW at, NEW slice, NEW value,
             Enter(api, part, at, slice, value)
      PROVE  /\ call' = Begun(api, part, at, slice, value)
             /\ call = NoCall /\ returned' = NoCall
             /\ calls < MaxCalls /\ calls' = calls + 1
             /\ UNCHANGED <<chip, pointer, registers, known, faults, restarts>>
  BY <1>1 DEF Enter, Begun
<1>2. ASSUME NEW api, NEW part, NEW at, NEW slice, NEW value
      PROVE  LET b == Begun(api, part, at, slice, value)
             IN  b.api = api /\ b.part = part /\ b.at = at /\ ~b.restarted
  BY DEF Begun
<1>3. CASE begin
  BY <1>1, <1>2, <1>3, BegunShape DEF begin
<1>4. CASE reset
  <2>1. Enter("reset", "set", "point", ResetBit, 1) /\ UNCHANGED device
    BY <1>4 DEF reset
  <2>2. Shaped(Begun("reset", "set", "point", ResetBit, 1))
    BY BegunShape
  <2> QED
    BY <1>1, <1>2, <2>1, <2>2
<1>5. CASE Set
  <2>1. PICK s \in Settings :
          \E value \in Values[s] :
            Enter(s, "set", "point", Setting[s], value) /\ UNCHANGED device
    BY <1>5 DEF Set
  <2>2. PICK value \in Values[s] :
          Enter(s, "set", "point", Setting[s], value) /\ UNCHANGED device
    BY <2>1
  <2>3. value \in Int
    BY ChipAssumption
  <2> QED
    BY <1>1, <1>2, <2>2, <2>3, BegunShape, NamesApart
<1>6. CASE Get
  <2>1. PICK s \in Settings : Enter(s, "get", "point", Setting[s], 0) /\ UNCHANGED device
    BY <1>6 DEF Get
  <2> QED
    BY <1>1, <1>2, <2>1, BegunShape, NamesApart
<1>7. CASE Read
  <2>1. PICK n \in DOMAIN Reading :
          Enter(n, "get", "point", Reading[n], 0) /\ UNCHANGED device
    BY <1>7 DEF Read
  <2> QED
    BY <1>1, <1>2, <2>1, BegunShape, NamesApart
<1> QED
  BY <1>3, <1>4, <1>5, <1>6, <1>7

(* What came of a register that was fetched, or not. *)
LEMMA CameType ==
  ASSUME ChipTypeInv, NEW r \in Registers, NEW word \in Answers(r), NEW came \in BOOLEAN
  PROVE  /\ word \in Words(RegBits)
         /\ ReadValue(came, Bytes(word)) = IF came THEN word ELSE Ones
         /\ ReadValue(came, Bytes(word)) \in Words(ValueBits)
<1>1. word \in Words(RegBits)
  <2>1. CASE r \in Measurements
    <3>1. Samples[r] \subseteq Words(RegBits)
      BY <2>1, ChipAssumption
    <3>2. r # "MASK_ENABLE"
      BY <2>1 DEF Measurements
    <3>3. Answers(r) = Samples[r]
      BY <2>1, <3>2 DEF Answers
    <3> QED
      BY <3>1, <3>3
  <2>2. CASE r \in Stored /\ r # "MASK_ENABLE"
    BY <2>2 DEF Answers, ChipTypeInv, TypeOK, Stored, Measurements
  <2>3. CASE r = "MASK_ENABLE"
    <3>1. PICK f \in SUBSET FlagBits : word = chip[r] \cup f
      BY <2>3 DEF Answers, Measurements
    <3>2. chip[r] \in Words(RegBits)
      BY <2>3 DEF ChipTypeInv, TypeOK, Stored
    <3>3. f \subseteq Low(RegBits)
      BY WidthFacts, OtherSlices DEF Widths, Low
    <3> QED
      BY <3>1, <3>2, <3>3 DEF Words
  <2> QED
    BY <2>1, <2>2, <2>3 DEF Registers
<1>2. word \in Words(ValueBits) /\ Ones \in Words(ValueBits)
  BY <1>1, WidthFacts DEF Widths, Words, Low, Ones
<1>3. ReadValue(came, Bytes(word)) = IF came THEN word ELSE Ones
  BY <1>1, FetchedIsWord DEF ReadValue
<1> QED
  BY <1>1, <1>2, <1>3

LEMMA FiveFields ==
  ASSUME NEW Api, NEW Part, NEW At, NEW Of, NEW Value, NEW Word, NEW Bool,
         NEW c \in [api : Api, part : Part, at : At, slice : Of, value : Value,
                    word : Word, fault : Bool, misread : Bool, restarted : Bool],
         NEW part \in Part, NEW at \in At, NEW slice \in Of, NEW value \in Value,
         NEW fault \in Bool
  PROVE  [c EXCEPT !.part = part, !.slice = slice, !.value = value, !.at = at,
                   !.fault = fault]
           \in [api : Api, part : Part, at : At, slice : Of, value : Value,
                word : Word, fault : Bool, misread : Bool, restarted : Bool]
BY ZenonT(60)

LEMMA OnToReset ==
  ASSUME NEW c \in CallType, NEW slice \in Slices, NEW fault \in BOOLEAN
  PROVE  [c EXCEPT !.part = "set", !.slice = slice, !.value = 1, !.at = "point",
                   !.fault = fault] \in CallType
<1>1. /\ "set" \in {"detect", "manufacturer", "device", "get", "set"}
      /\ "point" \in {"detect", "point", "fetch", "store"} /\ 1 \in Int
  OBVIOUS
<1> QED
  BY <1>1, CallTypeIs, FiveFields, Zenon

(* What the driver makes of it keeps the shape of the call. *)
LEMMA GotShape ==
  ASSUME ChipTypeInv, call # NoCall, call.at \in {"point", "fetch"}, UNCHANGED device,
         NEW word \in Words(ValueBits), NEW fault \in BOOLEAN, Got(word, fault)
  PROVE  /\ call' = NoCall \/ call' \in CallType
         /\ returned' = NoCall \/ returned'.result \in Words(ValueBits)
         /\ registers' \in BOOLEAN /\ (registers' => device')
         /\ CallShape'
<1>1. /\ Shaped(call) /\ call \in CallType /\ returned = NoCall
      /\ call.api = "begin" => device
      /\ registers \in BOOLEAN /\ (registers => device)
  BY DEF ChipTypeInv, TypeOK, CallShape, Shaped
<1>2. call.part \in {"manufacturer", "device", "get", "set"}
  BY <1>1, CallTypeIs DEF Shaped
<1>3. DeviceId \in Slices /\ ResetBit \in Slices
  BY DEF Slices
<1>4. ASSUME NEW result \in Words(ValueBits), Return(result, fault), UNCHANGED registers
      PROVE  /\ call' = NoCall
             /\ returned'.result \in Words(ValueBits)
             /\ registers' \in BOOLEAN /\ (registers' => device')
             /\ CallShape'
  BY <1>1, <1>4 DEF Return, CallShape
<1>5. ASSUME Shaped(call'), call'.api = "begin" => device, UNCHANGED returned
      PROVE  CallShape'
  BY <1>1, <1>5 DEF CallShape, Shaped
<1>6. CASE call.part \in {"manufacturer", "device"}
             /\ ~RightChip(call.part, Extracted(word, call.slice))
  <2>1. {} \in Words(ValueBits)
    BY DEF Words
  <2>2. Return({}, fault) /\ UNCHANGED registers
    BY <1>6 DEF Got
  <2> QED
    BY <1>4, <2>1, <2>2
<1>7. CASE call.part = "manufacturer" /\ RightChip(call.part, Extracted(word, call.slice))
  <2>1. /\ call' = [call EXCEPT !.part = "device", !.slice = DeviceId,
                                !.at = "point", !.fault = fault]
        /\ UNCHANGED <<registers, returned>>
    BY <1>7 DEF Got
  <2>2. Shaped(call') /\ call'.api = "begin" /\ call.api = "begin"
    BY <1>1, <1>3, <1>7, <2>1, CallTypeIs DEF Shaped
  <2> QED
    BY <1>1, <1>5, <2>1, <2>2 DEF Shaped
<1>8. CASE call.part = "device" /\ RightChip(call.part, Extracted(word, call.slice))
  <2>1. /\ call' = [call EXCEPT !.part = "set", !.slice = ResetBit, !.value = 1,
                                !.at = "point", !.fault = fault]
        /\ registers' = TRUE /\ UNCHANGED returned
    BY <1>8 DEF Got
  <2>2. call.api = "begin"
    BY <1>1, <1>8 DEF Shaped
  <2>3. call' \in CallType
    BY <1>1, <1>3, <2>1, OnToReset
  <2>4. /\ call'.api = "begin" /\ call'.part = "set" /\ call'.at = "point"
        /\ call'.slice = ResetBit /\ call'.value = 1
    BY <1>1, <2>1, <2>2, CallTypeIs
  <2>5. Shaped(call')
    BY <2>3, <2>4 DEF Shaped
  <2>6. CallShape'
    BY <1>1, <1>5, <2>1, <2>2, <2>5
  <2>7. registers' \in BOOLEAN /\ (registers' => device')
    BY <1>1, <2>1, <2>2, Zenon
  <2>8. returned' = NoCall
    BY <1>1, <2>1
  <2> QED
    BY <2>3, <2>6, <2>7, <2>8
<1>9. CASE call.part = "get"
  <2>1. Return(Result(word), fault) /\ UNCHANGED registers
    BY <1>9 DEF Got
  <2>2. Result(word) \in Words(ValueBits)
    BY ExtractedType, WidthFacts DEF Result, Words, Low, Widths
  <2> QED
    BY <1>4, <2>1, <2>2
<1>10. CASE call.part = "set"
  <2>1. /\ call' = [call EXCEPT !.word = word, !.at = "store", !.fault = fault,
                                !.misread = fault \/ call.restarted]
        /\ UNCHANGED <<registers, returned>>
    BY <1>10 DEF Got
  <2>2. (fault \/ call.restarted) \in BOOLEAN
    BY <1>1, CallTypeIs
  <2>3. Shaped(call') /\ call'.api = call.api
    BY <1>1, <1>10, <2>1, <2>2, CallTypeIs DEF Shaped
  <2> QED
    BY <1>1, <1>5, <2>1, <2>3 DEF Shaped
<1> QED
  BY <1>2, <1>6, <1>7, <1>8, <1>9, <1>10

LEMMA InaStarts == Init => ChipTypeInv
<1> SUFFICES ASSUME Init PROVE ChipTypeInv
  OBVIOUS
<1>1. chip \in [Stored -> Words(RegBits)]
  <2>1. PICK id \in Chips :
          chip = AfterReset([r \in Stored |-> IF r = "MFG_UID" THEN id[1] ELSE id[2]])
    BY DEF Init
  <2>2. id[1] \in Words(RegBits) /\ id[2] \in Words(RegBits)
    BY ChipAssumption
  <2> QED
    BY <2>1, <2>2, DefaultType DEF AfterReset
<1>2. MaxCalls \in Nat /\ MaxFaults \in Nat /\ MaxRestarts \in Nat
  BY ChipAssumption
<1>3. calls \in 0 .. MaxCalls /\ faults \in 0 .. MaxFaults /\ restarts \in 0 .. MaxRestarts
  BY <1>2 DEF Init
<1>4. pointer \in Registers /\ DOMAIN known = Settings
  BY DEF Init, Registers, Stored
<1>5. /\ device = FALSE /\ registers = FALSE /\ call = NoCall /\ returned = NoCall
  BY DEF Init
<1> QED
  BY <1>1, <1>3, <1>4, <1>5 DEF ChipTypeInv, TypeOK, CallShape

(* The chip. *)

LEMMA AfterResetType ==
  ASSUME NEW regs \in [Stored -> Words(RegBits)]
  PROVE  /\ AfterReset(regs) \in [Stored -> Words(RegBits)]
         /\ AfterReset(AfterReset(regs)) = AfterReset(regs)
         /\ \A r \in Stored : AfterReset(regs)[r] =
              IF r \in {"MFG_UID", "DIE_UID"} THEN regs[r] ELSE Default(r)
<1>1. \A r \in Stored : Default(r) \in Words(RegBits)
  BY DefaultType
<1> QED
  BY <1>1 DEF AfterReset

LEMMA AfterStoreType ==
  ASSUME NEW regs \in [Stored -> Words(RegBits)], NEW word \in Words(RegBits),
         NEW r \in {"CONFIG", "MASK_ENABLE", "ALERT_LIMIT"}
  PROVE  AfterStore(regs, r, word) \in [Stored -> Words(RegBits)]
<1>1. r \in Stored /\ word \ FlagBits \in Words(RegBits)
  BY DEF Stored, Words
<1> QED
  BY <1>1, AfterResetType DEF AfterStore

LEMMA SentType ==
  ASSUME NEW word \in Words(ValueBits)
  PROVE  WordOf(ToBuffer(word, 2)) \in Words(RegBits)
BY SentIsLow DEF Words

LEMMA TransactionIs ==
  ASSUME TypeOK, NEW at, NEW ok \in BOOLEAN, Transaction(at, ok)
  PROVE  /\ call # NoCall /\ call.at = at
         /\ faults' \in 0 .. MaxFaults
         /\ UNCHANGED <<device, calls, restarts>>
<1>1. faults \in 0 .. MaxFaults /\ MaxFaults \in Nat
  BY ChipAssumption DEF TypeOK
<1> QED
  BY <1>1 DEF Transaction

-----------------------------------------------------------------------------
(* The types. *)

LEMMA EnterKeepsType ==
  ASSUME ChipTypeInv, begin \/ reset \/ Set \/ Get \/ Read
  PROVE  ChipTypeInv'
<1>1. TypeOK
  BY DEF ChipTypeInv
<1>2. /\ Shaped(call') /\ (call'.api = "begin" => device')
      /\ returned' = NoCall /\ calls < MaxCalls /\ calls' = calls + 1
      /\ device' = device \/ device' = TRUE
      /\ UNCHANGED <<chip, pointer, registers, known, faults, restarts>>
  BY <1>1, EnterIs
<1>3. calls' \in 0 .. MaxCalls
  <2>1. calls \in 0 .. MaxCalls /\ MaxCalls \in Nat
    BY <1>1, ChipAssumption DEF TypeOK
  <2> QED
    BY <1>2, <2>1
<1>4. call' \in CallType
  BY <1>2 DEF Shaped
<1>5. device' \in BOOLEAN /\ (registers' => device')
  <2>1. device \in BOOLEAN /\ (registers => device)
    BY <1>1 DEF TypeOK
  <2>2. registers' = registers
    BY <1>2
  <2>3. CASE device' = device
    BY <2>1, <2>2, <2>3
  <2>4. CASE device' = TRUE
    BY <2>4
  <2> QED
    BY <1>2, <2>3, <2>4
<1>6. CallShape'
  BY <1>2 DEF CallShape, Shaped
<1> QED
  BY <1>1, <1>2, <1>3, <1>4, <1>5, <1>6 DEF ChipTypeInv, TypeOK

LEMMA DetectKeepsType ==
  ASSUME ChipTypeInv, Detect
  PROVE  ChipTypeInv'
<1>1. PICK ok \in BOOLEAN :
        /\ Transaction("detect", ok)
        /\ IF ok
             THEN /\ call' = [call EXCEPT !.part = "manufacturer", !.at = "point"]
                  /\ UNCHANGED returned
             ELSE Return({}, TRUE)
  BY DEF Detect
<1>2. /\ TypeOK /\ CallShape
      /\ UNCHANGED <<chip, pointer, registers, known>>
  BY DEF ChipTypeInv, Detect
<1>3. /\ call # NoCall /\ call.at = "detect" /\ faults' \in 0 .. MaxFaults
      /\ UNCHANGED <<device, calls, restarts>>
  BY <1>1, <1>2, TransactionIs
<1>4. /\ Shaped(call) /\ call \in CallType /\ call.api = "begin" /\ device
      /\ call.part = "detect" /\ call.slice = Whole("MFG_UID") /\ returned = NoCall
  BY <1>2, <1>3 DEF CallShape, Shaped
<1>5. /\ call' = NoCall \/ call' \in CallType
      /\ returned' = NoCall \/ returned'.result \in Words(ValueBits)
      /\ CallShape'
  <2>1. CASE ok
    <3>1. call' \in CallType
      BY <1>1, <1>4, <2>1, CallTypeIs
    <3>2. /\ call'.part = "manufacturer" /\ call'.at = "point" /\ call'.api = "begin"
          /\ call'.slice = Whole("MFG_UID")
      BY <1>1, <1>4, <2>1, CallTypeIs
    <3>3. Shaped(call')
      BY <3>1, <3>2 DEF Shaped
    <3>4. returned' = NoCall
      BY <1>1, <1>4, <2>1
    <3> QED
      BY <1>3, <1>4, <3>1, <3>3, <3>4 DEF CallShape
  <2>2. CASE ~ok
    <3>1. Return({}, TRUE)
      BY <1>1, <2>2
    <3>2. {} \in Words(ValueBits)
      BY DEF Words
    <3> QED
      BY <3>1, <3>2 DEF Return, CallShape
  <2> QED
    BY <2>1, <2>2
<1> QED
  BY <1>2, <1>3, <1>5 DEF ChipTypeInv, TypeOK

LEMMA PointKeepsType ==
  ASSUME ChipTypeInv, Point
  PROVE  ChipTypeInv'
<1>1. PICK ok \in BOOLEAN :
        /\ Transaction("point", ok)
        /\ IF Transmits(1, ok)
             THEN /\ pointer' = call.slice.reg
                  /\ call' = [call EXCEPT !.at = "fetch"]
                  /\ UNCHANGED <<registers, returned>>
             ELSE /\ Got(ReadValue(FALSE, <<>>), TRUE)
                  /\ UNCHANGED pointer
  BY DEF Point
<1>2. TypeOK /\ CallShape /\ UNCHANGED <<chip, known>>
  BY DEF ChipTypeInv, Point
<1>3. /\ call # NoCall /\ call.at = "point" /\ faults' \in 0 .. MaxFaults
      /\ UNCHANGED <<device, calls, restarts>>
  BY <1>1, <1>2, TransactionIs
<1>4. /\ pointer' \in Registers
      /\ registers' \in BOOLEAN /\ (registers' => device')
      /\ call' = NoCall \/ call' \in CallType
      /\ returned' = NoCall \/ returned'.result \in Words(ValueBits)
      /\ CallShape'
  <2>1. CASE Transmits(1, ok)
    <3>1. /\ pointer' = call.slice.reg /\ call' = [call EXCEPT !.at = "fetch"]
          /\ UNCHANGED <<registers, returned>>
      BY <1>1, <2>1
    <3>2. /\ Shaped(call) /\ call \in CallType /\ returned = NoCall
          /\ call.api = "begin" => device
      BY <1>2, <1>3 DEF CallShape, Shaped
    <3>3. call' \in CallType
      BY <3>1, <3>2, CallTypeIs
    <3>4. Shaped(call') /\ call'.api = call.api
      BY <1>3, <3>1, <3>2, <3>3, CallTypeIs DEF Shaped
    <3>5. CallShape'
      BY <1>3, <3>1, <3>2, <3>4 DEF CallShape
    <3> QED
      BY <1>2, <1>3, <3>1, <3>2, <3>3, <3>5, SliceType DEF TypeOK
  <2>2. CASE ~Transmits(1, ok)
    <3>1. Got(Ones, TRUE) /\ UNCHANGED pointer
      BY <1>1, <2>2 DEF ReadValue
    <3>2. Ones \in Words(ValueBits)
      BY DEF Words, Low, Ones
    <3> QED
      BY <1>2, <1>3, <3>1, <3>2, GotShape DEF TypeOK
  <2> QED
    BY <2>1, <2>2
<1> QED
  BY <1>2, <1>3, <1>4 DEF ChipTypeInv, TypeOK

(* What Fetch is of. *)
LEMMA FetchIs ==
  ASSUME ChipTypeInv, Fetch
  PROVE  \E word \in Answers(pointer), came \in BOOLEAN :
           /\ call # NoCall /\ call.at = "fetch" /\ faults' \in 0 .. MaxFaults
           /\ UNCHANGED <<chip, pointer, known, device, calls, restarts>>
           /\ Got(IF came THEN word ELSE Ones, call.fault \/ ~came)
           /\ word \in Words(RegBits)
<1>1. PICK ok \in BOOLEAN, word \in Answers(pointer) :
        /\ Transaction("fetch", ok)
        /\ Got(ReadValue(Transmits(2, ok), Bytes(word)), call.fault \/ ~Transmits(2, ok))
  BY DEF Fetch
<1>2. Transmits(2, ok) \in BOOLEAN
  BY DEF Transmits
<1>3. pointer \in Registers /\ TypeOK /\ UNCHANGED <<chip, pointer, known>>
  BY DEF ChipTypeInv, TypeOK, Fetch
<1>4. /\ call # NoCall /\ call.at = "fetch" /\ faults' \in 0 .. MaxFaults
      /\ UNCHANGED <<device, calls, restarts>>
  BY <1>1, <1>3, TransactionIs
<1>5. /\ word \in Words(RegBits)
      /\ ReadValue(Transmits(2, ok), Bytes(word)) = IF Transmits(2, ok) THEN word ELSE Ones
  BY <1>2, <1>3, CameType
<1> QED
  BY <1>1, <1>2, <1>3, <1>4, <1>5

LEMMA FetchKeepsType ==
  ASSUME ChipTypeInv, Fetch
  PROVE  ChipTypeInv'
<1>1. PICK word \in Answers(pointer), came \in BOOLEAN :
        /\ call # NoCall /\ call.at = "fetch" /\ faults' \in 0 .. MaxFaults
        /\ UNCHANGED <<chip, pointer, known, device, calls, restarts>>
        /\ Got(IF came THEN word ELSE Ones, call.fault \/ ~came)
        /\ word \in Words(RegBits)
  BY FetchIs
<1>2. (IF came THEN word ELSE Ones) \in Words(ValueBits)
  BY <1>1, WidthFacts DEF Widths, Words, Low, Ones
<1>3. (call.fault \/ ~came) \in BOOLEAN
  OBVIOUS
<1>4. /\ call' = NoCall \/ call' \in CallType
      /\ returned' = NoCall \/ returned'.result \in Words(ValueBits)
      /\ registers' \in BOOLEAN /\ (registers' => device')
      /\ CallShape'
  BY <1>1, <1>2, <1>3, GotShape
<1> QED
  BY <1>1, <1>4 DEF ChipTypeInv, TypeOK
(* What Store does, and of what. *)
StoreOf(ok, taken, word) ==
  /\ ok => taken
  /\ word = Inserted(call.word, call.slice, DataOf)
  /\ chip' = IF taken THEN AfterStore(chip, call.slice.reg, word \cap Low(RegBits))
             ELSE chip
  /\ known' = Learnt(Transmits(3, ok))
  /\ Return(IF call.api = "begin" THEN {0} ELSE {}, call.fault \/ ~Transmits(3, ok))

LEMMA StoreIs ==
  ASSUME ChipTypeInv, Store
  PROVE  /\ call # NoCall /\ call.at = "store" /\ faults' \in 0 .. MaxFaults
         /\ pointer' = pointer \/ pointer' = call.slice.reg
         /\ UNCHANGED <<registers, device, calls, restarts>>
         /\ Shaped(call) /\ call \in CallType /\ call.part = "set"
         /\ call.slice.reg \in {"CONFIG", "MASK_ENABLE", "ALERT_LIMIT"}
         /\ \E ok, taken \in BOOLEAN, word \in Words(ValueBits) : StoreOf(ok, taken, word)
<1>1. PICK ok \in BOOLEAN, taken \in BOOLEAN :
        /\ Transaction("store", ok)
        /\ ok => taken
        /\ LET word == Inserted(call.word, call.slice, DataOf)
               sent == WordOf(ToBuffer(word, 2))
               came == Transmits(3, ok)
           IN  /\ chip' = IF taken THEN AfterStore(chip, call.slice.reg, sent)
                          ELSE chip
               /\ known' = Learnt(came)
               /\ Return(IF call.api = "begin" THEN {0} ELSE {},
                         call.fault \/ ~came)
        /\ pointer' = IF taken THEN call.slice.reg ELSE pointer
  BY DEF Store
<1>2. TypeOK /\ CallShape /\ UNCHANGED registers
  BY DEF ChipTypeInv, Store
<1>3. /\ call # NoCall /\ call.at = "store" /\ faults' \in 0 .. MaxFaults
      /\ UNCHANGED <<device, calls, restarts>>
  BY <1>1, <1>2, TransactionIs
<1>4. Shaped(call) /\ call \in CallType /\ call.part = "set"
  BY <1>2, <1>3 DEF CallShape, Shaped
<1>5. call.slice.reg \in {"CONFIG", "MASK_ENABLE", "ALERT_LIMIT"}
  BY <1>4, SliceType
<1> DEFINE word == Inserted(call.word, call.slice, DataOf)
<1>6. word \in Words(ValueBits)
  <2>1. call.word \in Words(ValueBits)
    BY <1>4, CallTypeIs
  <2> QED
    BY <2>1, InsertedType
<1>7. WordOf(ToBuffer(word, 2)) = word \cap Low(RegBits)
  BY <1>6, SentIsLow
<1>8. StoreOf(ok, taken, word)
  BY <1>1, <1>7 DEF StoreOf
<1>9. pointer' = pointer \/ pointer' = call.slice.reg
  BY <1>1
<1> HIDE DEF word
<1> QED
  BY <1>2, <1>3, <1>4, <1>5, <1>6, <1>8, <1>9

LEMMA StoreKeepsType ==
  ASSUME ChipTypeInv, Store
  PROVE  ChipTypeInv'
<1>1. PICK ok \in BOOLEAN, taken \in BOOLEAN, word \in Words(ValueBits) :
        StoreOf(ok, taken, word)
  BY StoreIs
<1>2. TypeOK
  BY DEF ChipTypeInv
<1>3. chip' \in [Stored -> Words(RegBits)]
  <2>1. word \cap Low(RegBits) \in Words(RegBits)
    BY DEF Words
  <2>2. chip \in [Stored -> Words(RegBits)]
    BY <1>2 DEF TypeOK
  <2>3. AfterStore(chip, call.slice.reg, word \cap Low(RegBits)) \in [Stored -> Words(RegBits)]
    BY <2>1, <2>2, StoreIs, AfterStoreType
  <2> QED
    BY <1>1, <2>2, <2>3 DEF StoreOf
<1>4. pointer' \in Registers
  <2>1. call.slice.reg \in Registers
    BY StoreIs, SliceType
  <2> QED
    BY <1>2, <2>1, StoreIs DEF TypeOK
<1>5. DOMAIN known' = Settings
  BY <1>1 DEF StoreOf, Learnt
<1>6. /\ call' = NoCall /\ returned'.result \in Words(ValueBits)
  <2>1. {0} \in Words(ValueBits) /\ {} \in Words(ValueBits)
    BY WidthFacts DEF Widths, Words, Low
  <2> QED
    BY <1>1, <2>1 DEF StoreOf, Return
<1>7. CallShape'
  BY <1>6 DEF CallShape
<1> QED
  BY <1>2, <1>3, <1>4, <1>5, <1>6, <1>7, StoreIs DEF ChipTypeInv, TypeOK

LEMMA RestartKeepsType ==
  ASSUME ChipTypeInv, ChipRestart
  PROVE  ChipTypeInv'
<1>1. /\ TypeOK /\ CallShape
      /\ restarts < MaxRestarts /\ restarts' = restarts + 1
      /\ chip' = AfterReset(chip)
      /\ call' = IF call = NoCall THEN NoCall ELSE [call EXCEPT !.restarted = TRUE]
      /\ known' = [s \in Settings |-> Unknown]
      /\ UNCHANGED <<device, registers, returned, calls, faults>>
  BY DEF ChipTypeInv, ChipRestart
<1>2. pointer' \in Registers
  BY <1>1 DEF ChipRestart, TypeOK
<1>3. restarts' \in 0 .. MaxRestarts
  <2>1. restarts \in 0 .. MaxRestarts /\ MaxRestarts \in Nat
    BY <1>1, ChipAssumption DEF TypeOK
  <2> QED
    BY <1>1, <2>1
<1>4. chip' \in [Stored -> Words(RegBits)]
  BY <1>1, AfterResetType DEF TypeOK
<1>5. (call' = NoCall \/ call' \in CallType) /\ CallShape'
  <2>1. CASE call = NoCall
    BY <1>1, <2>1 DEF CallShape
  <2>2. CASE call # NoCall
    <3>1. Shaped(call) /\ call \in CallType /\ returned = NoCall
          /\ (call.api = "begin" => device)
      BY <1>1, <2>2 DEF CallShape, Shaped
    <3>2. call' = [call EXCEPT !.restarted = TRUE]
      BY <1>1, <2>2
    <3>3. call' \in CallType
      BY <3>1, <3>2, CallTypeIs
    <3>4. Shaped(call') /\ call'.api = call.api
      BY <3>1, <3>2, <3>3, CallTypeIs DEF Shaped
    <3> QED
      BY <1>1, <3>1, <3>3, <3>4 DEF CallShape
  <2> QED
    BY <2>1, <2>2
<1>6. DOMAIN known' = Settings
  BY <1>1
<1> QED
  BY <1>1, <1>2, <1>3, <1>4, <1>5, <1>6 DEF ChipTypeInv, TypeOK

LEMMA InaKeepsType ==
  ASSUME ChipTypeInv, [Next]_vars
  PROVE  ChipTypeInv'
<1>1. CASE UNCHANGED vars
  BY <1>1 DEF vars, ChipTypeInv, TypeOK, CallShape
<1> QED
  BY <1>1, EnterKeepsType, DetectKeepsType, PointKeepsType, FetchKeepsType,
     StoreKeepsType, RestartKeepsType DEF Next

(* The variables keep their types and the call in progress its shape.        *)
LEMMA InaTyped == Spec => []ChipTypeInv
<1>1. Init => ChipTypeInv
  BY InaStarts
<1>2. ChipTypeInv /\ [Next]_vars => ChipTypeInv'
  BY InaKeepsType
<1> QED
  BY <1>1, <1>2, PTL DEF Spec

(* Registers of the chip are of two bytes, and the driver reads no more than *)
(* an uint32_t, whatever is set and whatever goes wrong.                     *)
THEOREM InaTypeCorrect == Spec => []TypeOK
<1>1. ChipTypeInv => TypeOK
  BY DEF ChipTypeInv
<1> QED
  BY <1>1, InaTyped, PTL
-----------------------------------------------------------------------------
(* What a call returns. *)

LEMMA GotFailure ==
  ASSUME ChipTypeInv, FailureVisible, call # NoCall, call.at \in {"point", "fetch"},
         NEW word, NEW fault \in BOOLEAN, Got(word, fault),
         call.part = "get" /\ fault => word = Ones
  PROVE  FailureVisible'
<1>1. Shaped(call) /\ returned = NoCall
  BY DEF ChipTypeInv, CallShape
<1>2. ASSUME NEW result, Return(result, fault),
             call.api \in {"readBusVoltage", "readPower"} /\ fault
               => ~(result \subseteq Low(RegBits))
      PROVE  FailureVisible'
  BY <1>2 DEF Return, FailureVisible
<1>3. CASE UNCHANGED returned
  BY <1>1, <1>3 DEF FailureVisible
<1>4. CASE call.part \in {"manufacturer", "device"} /\ Return({}, fault)
  BY <1>1, <1>2, <1>4 DEF Shaped
<1>5. CASE call.part = "get" /\ Return(Result(word), fault)
  <2>1. ASSUME call.api \in {"readBusVoltage", "readPower"}, fault
        PROVE  Result(word) = Ones
    <3>1. call.slice = Reading[call.api]
      BY <1>1, <1>5, <2>1, NamesApart, ReadingShape DEF Shaped
    <3>2. PICK r \in Registers : call.slice = Whole(r)
      BY <2>1, <3>1, ReadingShape DEF Registers, Measurements
    <3> QED
      BY <1>5, <2>1, <3>2, OnesIsNoId DEF Result
  <2> QED
    BY <1>2, <1>5, <2>1, OnesIsNoId
<1> QED
  BY <1>3, <1>4, <1>5 DEF Got

(* A voltage or a power that could not be read is beyond all the chip can    *)
(* measure, so the server's broadcast of it is no voltage.                   *)
THEOREM InaFailureVisible == Spec => []FailureVisible
<1>1. Init => FailureVisible
  BY DEF Init, FailureVisible
<1>2. ASSUME ChipTypeInv, FailureVisible, [Next]_vars PROVE FailureVisible'
  <2>1. CASE UNCHANGED vars
    BY <1>2, <2>1 DEF vars, FailureVisible
  <2>2. CASE begin \/ reset \/ Set \/ Get \/ Read
    <3>1. returned' = NoCall
      BY <1>2, <2>2, EnterIs DEF ChipTypeInv
    <3> QED
      BY <3>1 DEF FailureVisible
  <2>3. CASE Detect
    <3>1. PICK ok \in BOOLEAN : Transaction("detect", ok)
            /\ (UNCHANGED returned \/ Return({}, TRUE))
      BY <2>3 DEF Detect
    <3>2. call # NoCall /\ call.at = "detect"
      BY <3>1 DEF Transaction
    <3>3. call.api = "begin"
      BY <1>2, <3>2 DEF ChipTypeInv, CallShape, Shaped
    <3>4. CASE UNCHANGED returned
      BY <1>2, <3>4 DEF FailureVisible
    <3>5. CASE Return({}, TRUE)
      BY <3>3, <3>5 DEF Return, FailureVisible
    <3> QED
      BY <3>1, <3>4, <3>5
  <2>4. CASE Point
    <3>1. PICK ok \in BOOLEAN : Transaction("point", ok)
            /\ (UNCHANGED returned \/ Got(Ones, TRUE))
      BY <2>4 DEF Point, ReadValue
    <3>2. call # NoCall /\ call.at = "point"
      BY <3>1 DEF Transaction
    <3> QED
      BY <1>2, <3>1, <3>2, GotFailure DEF FailureVisible
  <2>5. CASE Fetch
    <3>1. PICK word \in Answers(pointer), came \in BOOLEAN :
            /\ call # NoCall /\ call.at = "fetch"
            /\ Got(IF came THEN word ELSE Ones, call.fault \/ ~came)
      BY <1>2, <2>5, FetchIs
    <3>2. call.part = "get" => ~call.fault
      BY <1>2, <3>1 DEF ChipTypeInv, CallShape, Shaped
    <3> DEFINE got == IF came THEN word ELSE Ones
    <3>3. call.part = "get" /\ (call.fault \/ ~came) => got = Ones
      BY <3>2
    <3>4. (call.fault \/ ~came) \in BOOLEAN
      OBVIOUS
    <3> HIDE DEF got
    <3>5. Got(got, call.fault \/ ~came)
      BY <3>1 DEF got
    <3> QED
      BY <1>2, <3>1, <3>3, <3>4, <3>5, GotFailure
  <2>6. CASE Store
    <3>1. PICK ok \in BOOLEAN, taken \in BOOLEAN, word \in Words(ValueBits) :
            StoreOf(ok, taken, word)
      BY <1>2, <2>6, StoreIs
    <3>2. Shaped(call) /\ call.part = "set"
      BY <1>2, <2>6, StoreIs
    <3>3. call.api \notin {"readBusVoltage", "readPower"}
      BY <3>2, NamesApart, ReadingShape DEF Shaped
    <3> QED
      BY <3>1, <3>3 DEF StoreOf, Return, FailureVisible
  <2>7. CASE ChipRestart
    BY <1>2, <2>7 DEF ChipRestart, FailureVisible
  <2> QED
    BY <1>2, <2>1, <2>2, <2>3, <2>4, <2>5, <2>6, <2>7 DEF Next
<1>3. ChipTypeInv /\ FailureVisible /\ [Next]_vars => FailureVisible'
  BY <1>2
<1> QED
  BY <1>1, <1>3, InaTyped, PTL DEF Spec
-----------------------------------------------------------------------------
(* Settings in registers. *)

(* What is sent of a word, and the flags of the chip, leave settings alone.  *)
LEMMA SentField ==
  ASSUME NEW s \in Settings, NEW word
  PROVE  /\ Field(word \cap Low(RegBits), Setting[s]) = Field(word, Setting[s])
         /\ \A f \in SUBSET FlagBits : Setting[s].reg = "MASK_ENABLE" =>
              /\ Field(word \ f, Setting[s]) = Field(word, Setting[s])
              /\ Field(word \cup f, Setting[s]) = Field(word, Setting[s])
<1>1. ASSUME NEW b \in Low(Setting[s].bits)
      PROVE  /\ b + Setting[s].shift \in Low(RegBits)
             /\ Setting[s].reg = "MASK_ENABLE" => b + Setting[s].shift \notin FlagBits
  BY SettingShape, OtherSlices, WidthFacts DEF Low, Widths
<1> QED
  BY <1>1 DEF Field

(* A store that resets nothing changes the settings of its register to those *)
(* of the word, and no other.                                                *)
LEMMA StoredField ==
  ASSUME NEW regs \in [Stored -> Words(RegBits)], NEW word \in Words(ValueBits),
         NEW r \in {"CONFIG", "MASK_ENABLE", "ALERT_LIMIT"},
         r = "CONFIG" => 15 \notin word,
         NEW s \in Settings
  PROVE  Field(AfterStore(regs, r, word \cap Low(RegBits))[Setting[s].reg], Setting[s])
           = IF Setting[s].reg = r THEN Field(word, Setting[s])
             ELSE Field(regs[Setting[s].reg], Setting[s])
<1>1. AfterStore(regs, r, word \cap Low(RegBits)) =
        [regs EXCEPT ![r] = IF r = "MASK_ENABLE" THEN (word \cap Low(RegBits)) \ FlagBits
                            ELSE word \cap Low(RegBits)]
  BY OtherSlices DEF AfterStore
<1>2. r \in Stored /\ Setting[s].reg \in Stored
  BY SettingShape DEF Stored
<1>3. CASE Setting[s].reg # r
  BY <1>1, <1>2, <1>3
<1>4. CASE Setting[s].reg = r /\ r # "MASK_ENABLE"
  BY <1>1, <1>2, <1>4, SentField
<1>5. CASE Setting[s].reg = r /\ r = "MASK_ENABLE"
  <2>1. AfterStore(regs, r, word \cap Low(RegBits))[r] = (word \cap Low(RegBits)) \ FlagBits
    BY <1>1, <1>2, <1>5
  <2>2. Field((word \cap Low(RegBits)) \ FlagBits, Setting[s])
          = Field(word \cap Low(RegBits), Setting[s])
    BY <1>5, SentField
  <2> QED
    BY <1>5, <2>1, <2>2, SentField
<1> QED
  BY <1>3, <1>4, <1>5

(* Neither resets what is stored of CONFIG, nor leaves the bit of the reset. *)
LEMMA StoredConfig ==
  ASSUME NEW regs \in [Stored -> Words(RegBits)], NEW word \in Words(ValueBits),
         NEW r \in {"CONFIG", "MASK_ENABLE", "ALERT_LIMIT"}, 15 \notin regs["CONFIG"]
  PROVE  15 \notin AfterStore(regs, r, word \cap Low(RegBits))["CONFIG"]
<1>1. 15 \notin AfterReset(regs)["CONFIG"]
  <2>1. "CONFIG" \in Stored
    BY DEF Stored
  <2> QED
    BY <2>1, AfterResetType, DefaultType
<1>2. "CONFIG" \in Stored /\ r \in Stored
  BY DEF Stored
<1> QED
  BY <1>1, <1>2, OtherSlices DEF AfterStore

(* A setting that is inserted is held, and every other as it was. *)
LEMMA InsertedField ==
  ASSUME NEW s \in Settings, NEW word, NEW data
  PROVE  Field(Inserted(word, Setting[s], data), Setting[s]) = Low(Setting[s].bits) \cap data
<1>1. /\ Setting[s].bits \in Nat /\ Setting[s].shift \in Nat
      /\ Setting[s].shift + Setting[s].bits <= ValueBits
  BY SettingShape, WidthFacts DEF Widths
<1> QED
  BY <1>1, InsertedOwn

LEMMA OtherField ==
  ASSUME NEW s \in Settings, NEW word, NEW data,
         NEW t \in Settings, t # s, Setting[t].reg = Setting[s].reg
  PROVE  Field(Inserted(word, Setting[s], data), Setting[t]) = Field(word, Setting[t])
<1>1. /\ Setting[s].bits \in Nat /\ Setting[s].shift \in Nat
      /\ Setting[t].bits \in Nat /\ Setting[t].shift \in Nat
      /\ Setting[s].bits < IntBits
  BY SettingShape, WidthFacts DEF Widths
<1>2. ASSUME NEW b \in Low(Setting[t].bits)
      PROVE  b + Setting[t].shift \in Inserted(word, Setting[s], data)
               <=> b + Setting[t].shift \in word
  <2>1. b + Setting[t].shift \in Nat /\ b < Setting[t].bits
    BY <1>1 DEF Low
  <2>2. \/ b + Setting[t].shift < Setting[s].shift
        \/ b + Setting[t].shift >= Setting[s].shift + Setting[s].bits
    BY <1>1, <2>1, SettingsApart DEF Low
  <2> QED
    BY <1>1, <2>1, <2>2, InsertedElsewhere
<1> QED
  BY <1>2 DEF Field

LEMMA NoResetInserted ==
  ASSUME NEW s \in Settings, NEW word, NEW data, Setting[s].reg = "CONFIG"
  PROVE  15 \in Inserted(word, Setting[s], data) <=> 15 \in word
<1>1. /\ Setting[s].bits \in Nat /\ Setting[s].shift \in Nat
      /\ Setting[s].bits < IntBits /\ 15 >= Setting[s].shift + Setting[s].bits
  BY SettingShape, WidthFacts DEF Widths
<1> QED
  BY <1>1, InsertedElsewhere

(* The word of a reset resets. *)
LEMMA ResetIsSent ==
  ASSUME NEW word
  PROVE  15 \in Inserted(word, ResetBit, ToWord(1)) \cap Low(RegBits)
<1>1. 0 \in ToWord(1)
  <2>1. (1 \div 2^0) % 2 = 1
    OBVIOUS
  <2>2. 0 \in Low(IntBits)
    BY WidthFacts DEF Widths, Low
  <2> QED
    BY <2>1, <2>2 DEF ToWord, Binary
<1>2. 0 \in Mask(1) /\ 15 \in Ones /\ 15 \in Low(RegBits)
  BY WidthFacts, MaskHoldsSlice DEF Widths, Low, Ones
<1>3. 15 \in Shl(ToWord(1) \cap Mask(1), 15)
  BY <1>1, <1>2 DEF Shl
<1> QED
  BY <1>2, <1>3, OtherSlices DEF Inserted
-----------------------------------------------------------------------------
(* Settings that are held. *)

HeldAt(regs, s, value) ==
  Field(regs[Setting[s].reg], Setting[s]) = Low(Setting[s].bits) \cap Asked(s, value)

LEMMA HeldIs ==
  SettingsHeld <=> \A s \in Settings : known[s] # Unknown => HeldAt(chip, s, known[s])
BY DEF SettingsHeld, HeldAt

LEMMA ResetHolds ==
  ASSUME NEW regs \in [Stored -> Words(RegBits)], NEW s \in Settings
  PROVE  HeldAt(AfterReset(regs), s, DefaultSetting[s])
<1>1. Setting[s].reg \in Stored /\ Setting[s].reg \notin {"MFG_UID", "DIE_UID"}
  BY SettingShape DEF Stored
<1>2. AfterReset(regs)[Setting[s].reg] = Default(Setting[s].reg)
  BY <1>1, AfterResetType
<1> QED
  BY <1>2, DefaultHeld DEF HeldAt

(* What is learnt of a setting. *)
LEMMA LearntIs ==
  ASSUME NEW ok \in BOOLEAN, NEW s \in Settings
  PROVE  /\ call.slice = ResetBit => Learnt(ok)[s] = IF ok THEN DefaultSetting[s] ELSE Unknown
         /\ call.slice # ResetBit =>
              /\ call.misread /\ call.slice.reg = "CONFIG" => Learnt(ok)[s] = Unknown
              /\ ~(call.misread /\ call.slice.reg = "CONFIG") =>
                   /\ s = call.api => Learnt(ok)[s] = IF ok THEN call.value ELSE Unknown
                   /\ s # call.api /\ Setting[s].reg = call.slice.reg /\ call.misread =>
                        Learnt(ok)[s] = Unknown
                   /\ s # call.api /\ ~(Setting[s].reg = call.slice.reg /\ call.misread) =>
                        Learnt(ok)[s] = known[s]
BY DEF Learnt

LEMMA StoreHolds ==
  ASSUME ChipTypeInv, HeldInv, Store
  PROVE  HeldInv'
<1>1. PICK ok \in BOOLEAN, taken \in BOOLEAN, word \in Words(ValueBits) :
        StoreOf(ok, taken, word)
  BY StoreIs
<1>2. /\ call # NoCall /\ call.at = "store" /\ Shaped(call) /\ call \in CallType
      /\ call.part = "set"
      /\ call.slice.reg \in {"CONFIG", "MASK_ENABLE", "ALERT_LIMIT"}
  BY StoreIs
<1>3. chip \in [Stored -> Words(RegBits)] /\ call.word \in Words(ValueBits)
  BY <1>2, CallTypeIs DEF ChipTypeInv, TypeOK
<1> DEFINE r == call.slice.reg
           came == Transmits(3, ok)
           stored == AfterStore(chip, r, word \cap Low(RegBits))
<1>4. /\ came \in BOOLEAN /\ (came => ok) /\ (ok => taken)
      /\ word = Inserted(call.word, call.slice, DataOf)
      /\ chip' = IF taken THEN stored ELSE chip
      /\ known' = Learnt(came) /\ call' = NoCall
  BY <1>1 DEF StoreOf, Transmits, Return
<1>5. 15 \notin chip["CONFIG"] /\ 15 \notin chip'["CONFIG"]
  <2>1. 15 \notin chip["CONFIG"]
    BY OtherSlices DEF HeldInv
  <2> QED
    BY <1>2, <1>3, <1>4, <2>1, StoredConfig
<1>6. ASSUME NEW s \in Settings, known'[s] # Unknown
      PROVE  HeldAt(chip', s, known'[s])
  <2>1. known[s] # Unknown => HeldAt(chip, s, known[s])
    BY HeldIs DEF HeldInv
  <2> HIDE DEF r, came, stored
  <2>2. CASE call.slice = ResetBit
    <3>1. came /\ taken /\ known'[s] = DefaultSetting[s]
      BY <1>4, <1>6, <2>2, LearntIs
    <3>2. DataOf = ToWord(1)
      BY <1>2, <2>2, SettingShape, NamesApart DEF Shaped, DataOf
    <3>3. 15 \in word \cap Low(RegBits)
      BY <1>4, <2>2, <3>2, ResetIsSent
    <3>4. stored = AfterReset(chip)
      BY <2>2, <3>3, OtherSlices DEF stored, r, AfterStore
    <3> QED
      BY <1>3, <1>4, <3>1, <3>4, ResetHolds
  <2>3. CASE call.slice # ResetBit
    <3>1. call.api \in Settings /\ call.slice = Setting[call.api]
      BY <1>2, <2>3 DEF Shaped
    <3>2. DataOf = Asked(call.api, call.value)
      BY <3>1 DEF DataOf
    <3> DEFINE data == Asked(call.api, call.value)
    <3>0. word = Inserted(call.word, Setting[call.api], data)
      BY <1>4, <3>1, <3>2, Zenon
    <3> HIDE DEF data
    <3>3. ~(call.misread /\ r = "CONFIG")
      BY <1>4, <1>6, <2>3, LearntIs DEF r
    <3>4. r = "CONFIG" => 15 \notin word
      <4>1. r = "CONFIG" => 15 \notin call.word
        BY <1>2, <3>3, CallTypeIs, OtherSlices DEF HeldInv, r
      <4> QED
        BY <3>0, <3>1, <4>1, NoResetInserted DEF r
    <3>5. Field(stored[Setting[s].reg], Setting[s])
            = IF Setting[s].reg = r THEN Field(word, Setting[s])
              ELSE Field(chip[Setting[s].reg], Setting[s])
      BY <1>2, <1>3, <3>4, StoredField DEF stored, r
    <3>6. CASE s = call.api
      <4>1. came /\ taken /\ known'[s] = call.value
        BY <1>4, <1>6, <2>3, <3>3, <3>6, LearntIs DEF r
      <4>2. Field(word, Setting[s]) = Low(Setting[s].bits) \cap Asked(s, call.value)
        BY <3>0, <3>1, <3>6, InsertedField DEF data
      <4> QED
        BY <1>4, <3>1, <3>5, <3>6, <4>1, <4>2 DEF HeldAt, r
    <3>7. CASE s # call.api
      <4>1. known'[s] = known[s] /\ (Setting[s].reg = r => ~call.misread)
        BY <1>4, <1>6, <2>3, <3>3, <3>7, LearntIs DEF r
      <4>2. HeldAt(chip, s, known[s]) /\ ~call.restarted
        BY <1>2, <1>6, <2>1, <4>1 DEF HeldInv
      <4>3. Field(stored[Setting[s].reg], Setting[s]) = Field(chip[Setting[s].reg], Setting[s])
        <5>1. CASE Setting[s].reg = r
          <6>1. Field(call.word, Setting[s]) = Field(chip[r], Setting[s])
            BY <1>2, <4>1, <4>2, <5>1 DEF HeldInv, SettingsOf, r
          <6>2. Field(word, Setting[s]) = Field(call.word, Setting[s])
            BY <3>0, <3>1, <3>7, <5>1, OtherField DEF r
          <6> QED
            BY <3>5, <5>1, <6>1, <6>2
        <5>2. CASE Setting[s].reg # r
          BY <3>5, <5>2
        <5> QED
          BY <5>1, <5>2
      <4> QED
        BY <1>4, <4>1, <4>2, <4>3 DEF HeldAt
    <3> QED
      BY <3>6, <3>7
  <2> QED
    BY <2>2, <2>3
<1>7. SettingsHeld'
  BY <1>6, HeldIs DEF SettingsHeld, HeldAt
<1> QED
  BY <1>4, <1>5, <1>7, OtherSlices DEF HeldInv
LEMMA AnswersHold ==
  ASSUME NEW r \in {"CONFIG", "MASK_ENABLE", "ALERT_LIMIT"}, NEW word \in Answers(r)
  PROVE  /\ r = "CONFIG" => word = chip[r]
         /\ \A s \in SettingsOf(r) : Field(word, Setting[s]) = Field(chip[r], Setting[s])
<1>1. CASE r # "MASK_ENABLE"
  BY <1>1 DEF Answers, Measurements
<1>2. CASE r = "MASK_ENABLE"
  <2>1. PICK f \in SUBSET FlagBits : word = chip[r] \cup f
    BY <1>2 DEF Answers, Measurements
  <2> QED
    BY <1>2, <2>1, SentField DEF SettingsOf
<1> QED
  BY <1>1, <1>2

(* The invariant of a call that is elsewhere than at a fetch or a store. *)
LEMMA HeldBetween ==
  ASSUME HeldInv, UNCHANGED <<chip, known>>,
         call' # NoCall => /\ call'.at \notin {"fetch", "store"}
                           /\ call'.restarted => call # NoCall /\ call.restarted
  PROVE  HeldInv'
<1>1. SettingsHeld'
  BY DEF HeldInv, SettingsHeld
<1>2. ResetBit.shift \notin chip'["CONFIG"]
  BY DEF HeldInv
<1>3. call' # NoCall /\ call'.restarted => \A s \in Settings : known'[s] = Unknown
  BY DEF HeldInv
<1> QED
  BY <1>1, <1>2, <1>3 DEF HeldInv

LEMMA GotHolds ==
  ASSUME ChipTypeInv, HeldInv, call # NoCall, call.at \in {"point", "fetch"},
         UNCHANGED <<chip, known>>, NEW word, NEW fault \in BOOLEAN, Got(word, fault),
         call.part = "set" /\ ~fault /\ ~call.restarted => word \in Answers(call.slice.reg)
  PROVE  HeldInv'
<1>1. Shaped(call) /\ call \in CallType
  BY DEF ChipTypeInv, CallShape, Shaped
<1>2. CASE call.part = "set"
  <2>1. call' = [call EXCEPT !.word = word, !.at = "store", !.fault = fault,
                             !.misread = fault \/ call.restarted]
    BY <1>2 DEF Got
  <2>2. /\ call'.at = "store" /\ call'.word = word /\ call'.slice = call.slice
        /\ call'.restarted = call.restarted
        /\ call'.misread = (fault \/ call.restarted)
    BY <1>1, <2>1, CallTypeIs
  <2>3. call.slice.reg \in {"CONFIG", "MASK_ENABLE", "ALERT_LIMIT"}
    BY <1>1, <1>2, SliceType
  <2>4. SettingsHeld' /\ ResetBit.shift \notin chip'["CONFIG"]
    BY DEF HeldInv, SettingsHeld
  <2>5. call'.restarted => \A s \in Settings : known'[s] = Unknown
    BY <2>2 DEF HeldInv
  <2>6. ASSUME ~call'.misread
        PROVE  /\ call'.slice.reg = "CONFIG" => ResetBit.shift \notin call'.word
               /\ \A s \in SettingsOf(call'.slice.reg) :
                    Field(call'.word, Setting[s]) = Field(chip'[call'.slice.reg], Setting[s])
    <3>1. word \in Answers(call.slice.reg)
      BY <1>2, <2>2, <2>6
    <3> QED
      BY <2>2, <2>3, <3>1, AnswersHold DEF HeldInv
  <2> QED
    BY <2>2, <2>4, <2>5, <2>6 DEF HeldInv
<1>3. CASE call.part # "set"
  <2>1. \/ call' = NoCall
        \/ call' = [call EXCEPT !.part = "device", !.slice = DeviceId,
                                !.at = "point", !.fault = fault]
        \/ call' = [call EXCEPT !.part = "set", !.slice = ResetBit, !.value = 1,
                                !.at = "point", !.fault = fault]
    BY <1>3 DEF Got, Return
  <2>2. call' # NoCall => call'.at = "point" /\ call'.restarted = call.restarted
    BY <1>1, <2>1, CallTypeIs
  <2> QED
    BY <2>2, HeldBetween
<1> QED
  BY <1>2, <1>3

LEMMA InaHoldsOn ==
  ASSUME ChipTypeInv, HeldInv, [Next]_vars
  PROVE  HeldInv'
<1>1. CASE UNCHANGED vars
  BY <1>1 DEF vars, HeldInv, SettingsHeld
<1>2. CASE begin \/ reset \/ Set \/ Get \/ Read
  BY <1>2, EnterIs, HeldBetween DEF ChipTypeInv
<1>3. CASE Detect
  <2>1. PICK ok \in BOOLEAN :
          /\ Transaction("detect", ok)
          /\ IF ok THEN call' = [call EXCEPT !.part = "manufacturer", !.at = "point"]
             ELSE call' = NoCall
    BY <1>3 DEF Detect, Return
  <2>2. call # NoCall /\ call \in CallType
    BY <2>1 DEF Transaction, ChipTypeInv, TypeOK
  <2>3. call' # NoCall => call'.at = "point" /\ call'.restarted = call.restarted
    BY <2>1, <2>2, CallTypeIs
  <2> QED
    BY <1>3, <2>2, <2>3, HeldBetween DEF Detect
<1>4. CASE Point
  <2>1. PICK ok \in BOOLEAN :
          /\ Transaction("point", ok)
          /\ IF Transmits(1, ok)
               THEN /\ pointer' = call.slice.reg
                    /\ call' = [call EXCEPT !.at = "fetch"]
               ELSE Got(Ones, TRUE)
    BY <1>4 DEF Point, ReadValue
  <2>2. /\ call # NoCall /\ call.at = "point" /\ call \in CallType
        /\ UNCHANGED <<chip, known>>
    BY <1>4, <2>1 DEF Transaction, ChipTypeInv, TypeOK, Point
  <2>3. CASE Transmits(1, ok)
    <3>1. /\ call'.at = "fetch" /\ call'.restarted = call.restarted
          /\ call'.slice = call.slice /\ pointer' = call'.slice.reg
      BY <2>1, <2>2, <2>3, CallTypeIs
    <3>2. SettingsHeld' /\ ResetBit.shift \notin chip'["CONFIG"]
      BY <2>2 DEF HeldInv, SettingsHeld
    <3>3. call'.restarted => \A s \in Settings : known'[s] = Unknown
      BY <2>2, <3>1 DEF HeldInv
    <3> QED
      BY <3>1, <3>2, <3>3 DEF HeldInv
  <2>4. CASE ~Transmits(1, ok)
    <3>1. Got(Ones, TRUE)
      BY <2>1, <2>4
    <3> QED
      BY <2>2, <3>1, GotHolds
  <2> QED
    BY <2>3, <2>4
<1>5. CASE Fetch
  <2>1. PICK word \in Answers(pointer), came \in BOOLEAN :
          /\ call # NoCall /\ call.at = "fetch"
          /\ UNCHANGED <<chip, known>>
          /\ Got(IF came THEN word ELSE Ones, call.fault \/ ~came)
    BY <1>5, FetchIs
  <2> DEFINE got == IF came THEN word ELSE Ones
             fault == call.fault \/ ~came
  <2>2. ~fault /\ ~call.restarted => got \in Answers(call.slice.reg)
    BY <2>1 DEF HeldInv
  <2>3. fault \in BOOLEAN /\ Got(got, fault)
    BY <2>1
  <2> HIDE DEF got, fault
  <2> QED
    BY <2>1, <2>2, <2>3, GotHolds
<1>6. CASE Store
  BY <1>6, StoreHolds
<1>7. CASE ChipRestart
  <2>1. /\ chip' = AfterReset(chip) /\ known' = [s \in Settings |-> Unknown]
        /\ call' = IF call = NoCall THEN NoCall ELSE [call EXCEPT !.restarted = TRUE]
    BY <1>7 DEF ChipRestart
  <2>2. \A s \in Settings : known'[s] = Unknown
    BY <2>1
  <2>3. SettingsHeld'
    BY <2>2 DEF SettingsHeld
  <2>4. ResetBit.shift \notin chip'["CONFIG"]
    <3>1. "CONFIG" \in Stored /\ chip \in [Stored -> Words(RegBits)]
      BY DEF Stored, ChipTypeInv, TypeOK
    <3> QED
      BY <2>1, <3>1, AfterResetType, DefaultType, OtherSlices
  <2>5. call' # NoCall =>
          /\ call # NoCall /\ call'.restarted /\ call'.at = call.at
          /\ call'.slice = call.slice /\ call'.word = call.word
          /\ call'.misread = call.misread
    BY <2>1, CallTypeIs DEF ChipTypeInv, TypeOK
  <2> QED
    BY <2>2, <2>3, <2>4, <2>5 DEF HeldInv
<1> QED
  BY <1>1, <1>2, <1>3, <1>4, <1>5, <1>6, <1>7 DEF Next

LEMMA InaHeld == Spec => []HeldInv
<1>1. Init => HeldInv
  <2> SUFFICES ASSUME Init PROVE HeldInv
    OBVIOUS
  <2>1. call = NoCall /\ \A s \in Settings : known[s] = Unknown
    BY DEF Init
  <2>2. ResetBit.shift \notin chip["CONFIG"]
    <3>1. PICK id \in Chips :
            chip = AfterReset([r \in Stored |-> IF r = "MFG_UID" THEN id[1] ELSE id[2]])
      BY DEF Init
    <3>2. "CONFIG" \in Stored
      BY DEF Stored
    <3> QED
      BY <3>1, <3>2, DefaultType, OtherSlices DEF AfterReset
  <2> QED
    BY <2>1, <2>2 DEF HeldInv, SettingsHeld
<1>2. ChipTypeInv /\ HeldInv /\ [Next]_vars => HeldInv'
  BY InaHoldsOn
<1> QED
  BY <1>1, <1>2, InaTyped, PTL DEF Spec

(* The chip has every setting as it was last set, whatever was set in the    *)
(* same register since and whatever went wrong, unless a register was set    *)
(* from a read that failed, a store is in doubt, or the chip lost its        *)
(* supply.                                                                   *)
THEOREM InaSettingsHeld == Spec => []SettingsHeld
<1>1. HeldInv => SettingsHeld
  BY DEF HeldInv
<1> QED
  BY <1>1, InaHeld, PTL
-----------------------------------------------------------------------------
(* What is read back. *)

LEMMA NoShift ==
  ASSUME NEW word \in SUBSET Ones
  PROVE  Shr(word, 0) = word
<1>1. \A b \in Ones : b + 0 = b
  BY DEF Ones
<1> QED
  BY <1>1 DEF Shr

LEMMA ExtractedWhole ==
  ASSUME NEW word \in Words(RegBits), NEW r \in Registers
  PROVE  Extracted(word, Whole(r)) = word
<1>1. word \subseteq Ones
  BY WidthFacts DEF Widths, Words, Low, Ones
<1>2. Shr(word, 0) = word
  BY <1>1, NoShift
<1> QED
  BY <1>1, <1>2, OtherSlices, MaskHoldsSlice, WidthFacts DEF Extracted, Widths

(* What is read of a setting is its slice of the register. *)
LEMMA ExtractedField ==
  ASSUME ByteBits = 8, NEW word \in Words(RegBits), NEW s \in Settings
  PROVE  Extracted(word, Setting[s]) = Field(word, Setting[s])
<1>1. /\ Setting[s].bits \in 1 .. 16 /\ Setting[s].shift \in 0 .. 15
      /\ Setting[s].shift + Setting[s].bits <= 16
      /\ Setting[s].bits <= 6 \/ s = "alertLimit"
  BY SettingShape
<1>2. RegBits = 16 /\ word \subseteq Low(16) /\ Low(16) \subseteq Ones
  BY WidthFacts DEF Widths, Words, Low, Ones
<1>3. Low(Setting[s].bits) \subseteq Ones
  BY <1>1, <1>2 DEF Low
<1>4. CASE Setting[s].bits < IntBits
  <2>1. Mask(Setting[s].bits) = Low(Setting[s].bits)
    BY <1>1, <1>4, MaskHoldsSlice
  <2> QED
    BY <1>3, <2>1 DEF Extracted, Field, Shr
<1>5. CASE Setting[s].bits >= IntBits
  <2>1. Setting[s].bits = 16 /\ Setting[s].shift = 0
    BY <1>1, <1>5, WidthFacts DEF Widths
  <2>2. Mask(Setting[s].bits) = Ones
    BY <1>5, <2>1, WidthFacts DEF Mask, Widths
  <2>3. Extracted(word, Setting[s]) = word
    <3>1. Shr(word, 0) = word /\ word \cap Ones = word
      BY <1>2, NoShift
    <3> QED
      BY <2>1, <2>2, <3>1 DEF Extracted
  <2>4. Field(word, Setting[s]) = word
    BY <1>2, <2>1 DEF Field, Low
  <2> QED
    BY <2>3, <2>4
<1> QED
  BY <1>1, <1>4, <1>5, WidthFacts DEF Widths

LEMMA GotReadsBack ==
  ASSUME ByteBits = 8, ChipTypeInv, SettingsHeld, ReadBackWord,
         call # NoCall, call.at \in {"point", "fetch"}, UNCHANGED known,
         NEW word, NEW fault \in BOOLEAN, Got(word, fault),
         ~fault /\ ~call.restarted => word \in Words(RegBits) /\ word \in Answers(call.slice.reg)
  PROVE  ReadBackWord'
<1>1. Shaped(call) /\ returned = NoCall
  BY DEF ChipTypeInv, CallShape
<1>2. CASE UNCHANGED returned
  BY <1>1, <1>2 DEF ReadBackWord, Clean
<1>3. CASE call.part \in {"manufacturer", "device"} /\ Return({}, fault)
  <2>1. returned'.part # "get"
    BY <1>3 DEF Return
  <2> QED
    BY <2>1 DEF ReadBackWord
<1>4. CASE call.part = "get" /\ Return(Result(word), fault)
  <2> SUFFICES ASSUME Clean' PROVE ReadBackWord'
    BY DEF ReadBackWord
  <2>1. /\ returned'.api = call.api /\ returned'.slice = call.slice
        /\ returned'.result = Result(word) /\ returned'.part = "get"
        /\ ~fault /\ ~call.restarted
    BY <1>4 DEF Return, Clean
  <2>2. word \in Words(RegBits) /\ word \in Answers(call.slice.reg)
    BY <2>1
  <2>3. ASSUME call.api \in Settings, known[call.api] # Unknown
        PROVE  Result(word) = Low(Setting[call.api].bits) \cap Asked(call.api, known[call.api])
    <3>1. call.slice = Setting[call.api] /\ call.api # "readCurrent"
      BY <1>1, <1>4, <2>3, NamesApart, ReadingShape DEF Shaped
    <3>2. Result(word) = Field(word, Setting[call.api])
      BY <2>2, <2>3, <3>1, ExtractedField DEF Result
    <3>3. Field(word, Setting[call.api]) = Field(chip[Setting[call.api].reg], Setting[call.api])
      BY <2>2, <2>3, <3>1, SettingShape, AnswersHold DEF SettingsOf
    <3> QED
      BY <2>3, <3>2, <3>3 DEF SettingsHeld
  <2>4. ASSUME NEW r \in Measurements, call.slice = Whole(r)
        PROVE  Result(word) \in Samples[r]
    <3>1. r \in Registers /\ call.slice.reg = r
      BY <2>4, OtherSlices DEF Registers
    <3>2. word \in Samples[r]
      <4>1. r # "MASK_ENABLE"
        BY DEF Measurements
      <4>2. Answers(r) = Samples[r]
        BY <4>1 DEF Answers
      <4> QED
        BY <2>2, <3>1, <4>2
    <3>3. Low(RegBits) \cap word = word
      BY <2>2 DEF Words
    <3>4. Result(word) = word
      BY <2>2, <2>4, <3>1, <3>3, ExtractedWhole DEF Result
    <3> QED
      BY <3>2, <3>4
  <2> QED
    BY <2>1, <2>3, <2>4 DEF ReadBackWord
<1> QED
  BY <1>2, <1>3, <1>4 DEF Got

(* What a call reads is what the chip has, if its transactions came through: *)
(* the word of a setting as it was set, and of a measurement one the chip    *)
(* made of that quantity, on a bus of bytes of eight bits.                   *)
THEOREM InaReadsBack ==
  ASSUME ByteBits = 8
  PROVE  Spec => []ReadBackWord
<1>1. Init => ReadBackWord
  BY DEF Init, ReadBackWord, Clean
<1>2. ASSUME ChipTypeInv, HeldInv, ReadBackWord, [Next]_vars PROVE ReadBackWord'
  <2>1. ASSUME UNCHANGED <<known, returned>> PROVE ReadBackWord'
    BY <1>2, <2>1 DEF ReadBackWord, Clean
  <2>2. ASSUME NEW result, NEW fault, Return(result, fault), call.part # "get"
        PROVE  ReadBackWord'
    <3>1. returned'.part # "get"
      BY <2>2 DEF Return
    <3> QED
      BY <3>1 DEF ReadBackWord
  <2>3. CASE begin \/ reset \/ Set \/ Get \/ Read
    <3>1. returned' = NoCall
      BY <1>2, <2>3, EnterIs DEF ChipTypeInv
    <3> QED
      BY <3>1 DEF ReadBackWord, Clean
  <2>4. CASE Detect
    <3>1. PICK ok \in BOOLEAN : Transaction("detect", ok)
            /\ (UNCHANGED returned \/ Return({}, TRUE))
      BY <2>4 DEF Detect
    <3>2. call # NoCall /\ call.at = "detect"
      BY <3>1 DEF Transaction
    <3>3. call.part = "detect"
      BY <1>2, <3>2 DEF ChipTypeInv, CallShape, Shaped
    <3> QED
      BY <2>1, <2>2, <2>4, <3>1, <3>3 DEF Detect
  <2>5. CASE Point
    <3>1. PICK ok \in BOOLEAN : Transaction("point", ok)
            /\ (UNCHANGED returned \/ Got(Ones, TRUE))
      BY <2>5 DEF Point, ReadValue
    <3>2. call # NoCall /\ call.at = "point" /\ UNCHANGED known
      BY <2>5, <3>1 DEF Transaction, Point
    <3> QED
      BY <1>2, <2>1, <3>1, <3>2, GotReadsBack DEF HeldInv
  <2>6. CASE Fetch
    <3>1. PICK word \in Answers(pointer), came \in BOOLEAN :
            /\ call # NoCall /\ call.at = "fetch"
            /\ UNCHANGED known
            /\ Got(IF came THEN word ELSE Ones, call.fault \/ ~came)
            /\ word \in Words(RegBits)
      BY <1>2, <2>6, FetchIs
    <3> DEFINE got == IF came THEN word ELSE Ones
               fault == call.fault \/ ~came
    <3>2. ~fault /\ ~call.restarted =>
            got \in Words(RegBits) /\ got \in Answers(call.slice.reg)
      BY <1>2, <3>1 DEF HeldInv
    <3>3. fault \in BOOLEAN /\ Got(got, fault)
      BY <3>1
    <3> HIDE DEF got, fault
    <3> QED
      BY <1>2, <3>1, <3>2, <3>3, GotReadsBack DEF HeldInv
  <2>7. CASE Store
    <3>1. PICK ok \in BOOLEAN, taken \in BOOLEAN, word \in Words(ValueBits) :
            StoreOf(ok, taken, word)
      BY <1>2, <2>7, StoreIs
    <3>2. call.part # "get"
      BY <1>2, <2>7, StoreIs
    <3> QED
      BY <2>2, <3>1, <3>2 DEF StoreOf
  <2>8. CASE ChipRestart
    <3>1. UNCHANGED returned /\ \A s \in Settings : known'[s] = Unknown
      BY <2>8 DEF ChipRestart
    <3> QED
      BY <1>2, <3>1 DEF ReadBackWord, Clean
  <2>9. CASE UNCHANGED vars
    BY <2>1, <2>9 DEF vars
  <2> QED
    BY <1>2, <2>3, <2>4, <2>5, <2>6, <2>7, <2>8, <2>9 DEF Next
<1>3. ChipTypeInv /\ HeldInv /\ ReadBackWord /\ [Next]_vars => ReadBackWord'
  BY <1>2
<1> QED
  BY <1>1, <1>3, InaTyped, InaHeld, PTL DEF Spec
-----------------------------------------------------------------------------
(* The numbers that are read back. *)

(* The last digit of a number, and the rest of it. *)
LEMMA LastDigit ==
  ASSUME NEW word, NEW b, NEW m \in Nat, NEW half \in Nat, half = m \div 2,
         b \in word <=> m % 2 = 1
  PROVE  m = Digit(word, b) + 2 * half
<1>1. m % 2 \in {0, 1} /\ m = (m % 2) + 2 * (m \div 2)
  OBVIOUS
<1>2. Digit(word, b) = m % 2
  BY <1>1 DEF Digit
<1> QED
  BY <1>1, <1>2

(* A number is halved sixteen times.                                          *)
LEMMA NumberByHalves ==
  ASSUME NEW word, NEW q \in [0 .. 16 -> Nat], q[16] = 0,
         \A b \in 0 .. 15 : q[b] = Digit(word, b) + 2 * q[b + 1]
  PROVE  Number(word) = q[0]
<1>1. \A b \in 0 .. 15 : Digit(word, b) \in Nat
  BY DEF Digit
<1>2. /\ q[0] = Nibble(word, 0) + 16 * q[4] /\ q[4] = Nibble(word, 4) + 16 * q[8]
      /\ q[8] = Nibble(word, 8) + 16 * q[12] /\ q[12] = Nibble(word, 12)
  BY <1>1 DEF Nibble
<1>3. /\ Nibble(word, 0) \in Nat /\ Nibble(word, 4) \in Nat
      /\ Nibble(word, 8) \in Nat /\ Nibble(word, 12) \in Nat
  BY <1>1 DEF Nibble
<1> QED
  BY <1>2, <1>3 DEF Number

(* A quotient is known by its remainder. *)
LEMMA QuotientIs ==
  ASSUME NEW n \in Nat, NEW c \in Nat \ {0}, NEW q \in Nat, NEW r \in Nat,
         n = c * q + r, r < c
  PROVE  n \div c = q
OBVIOUS

(* Dividing by twice as much is halving the quotient.                        *)
LEMMA HalvedOnce ==
  ASSUME NEW n \in Nat, NEW c \in Nat \ {0}
  PROVE  n \div c \in Nat /\ n \div (2 * c) = (n \div c) \div 2
<1> DEFINE q == n \div c
           r == n % c
           h == q \div 2
           e == q % 2
<1>1. q \in Nat /\ r \in Nat /\ r < c /\ n = c * q + r
  OBVIOUS
<1>2. h \in Nat /\ e \in {0, 1} /\ q = 2 * h + e
  BY <1>1
<1> HIDE DEF q, r, h, e
<1>3. c * q = (2 * c) * h + c * e
  BY <1>1, <1>2
<1>4. c * e \in Nat /\ c * e <= c
  BY <1>2
<1> DEFINE d == 2 * c
           x == c * e
           s == x + r
<1>5. s \in Nat /\ s < d /\ d \in Nat \ {0}
  <2> HIDE DEF x
  <2>1. x \in Nat /\ x <= c
    BY <1>4 DEF x
  <2> QED
    BY <1>1, <2>1
<1>7. n = d * h + s
  <2> DEFINE y == d * h
             z == c * q
  <2>1. z = y + x /\ y \in Int /\ x \in Int /\ z \in Int /\ n = z + r
    BY <1>1, <1>2, <1>3
  <2> HIDE DEF y, z, x
  <2> QED
    BY <1>1, <2>1 DEF y
<1> HIDE DEF d, s, x
<1>6. n \div d = h
  BY <1>2, <1>5, <1>7, QuotientIs
<1> QED
  BY <1>1, <1>6 DEF q, h, d

LEMMA PowerTwice == \A b \in 0 .. 15 : 2^b \in Nat \ {0} /\ 2^(b + 1) = 2 * 2^b
<1> DEFINE P(b) == 2^b \in Nat \ {0} /\ 2^(b + 1) = 2 * 2^b
<1>1. P(0) /\ P(1) /\ P(2) /\ P(3)
  OBVIOUS
<1>2. P(4) /\ P(5) /\ P(6) /\ P(7)
  OBVIOUS
<1>3. P(8) /\ P(9) /\ P(10) /\ P(11)
  OBVIOUS
<1>4. P(12) /\ P(13) /\ P(14) /\ P(15)
  OBVIOUS
<1> HIDE DEF P
<1>5. \A b \in 0 .. 15 : P(b)
  BY <1>1, <1>2, <1>3, <1>4
<1> QED
  BY <1>5 DEF P

(* A number halved b times, and once more.                                   *)
LEMMA Halved ==
  ASSUME NEW n \in Nat, NEW b \in 0 .. 15
  PROVE  n \div 2^b \in Nat /\ n \div 2^(b + 1) = (n \div 2^b) \div 2
<1> DEFINE c == 2^b
<1>1. c \in Nat \ {0} /\ 2^(b + 1) = 2 * c
  BY PowerTwice
<1> HIDE DEF c
<1>2. n \div c \in Nat /\ n \div 2^(b + 1) = (n \div c) \div 2
  BY <1>1, HalvedOnce
<1> QED
  BY <1>2 DEF c

(* What a word of sixteen bits stands for. *)
Short == {n \in Nat : n < 65536}

LEMMA ShortIs ==
  ASSUME NEW n \in Short
  PROVE  n \in Nat /\ n \div 2^0 = n /\ n \div 2^16 = 0
<1>1. n \in Nat /\ n < 65536
  BY DEF Short
<1>2. n \div 2^0 = n
  BY <1>1
<1>3. n \div 2^16 = 0
  BY <1>1
<1> QED
  BY <1>1, <1>2, <1>3

LEMMA ShortHas ==
  ASSUME NEW n \in Nat, n < 65536
  PROVE  n \in Short
BY DEF Short

(* The number whose binary form a word is.                                   *)
LEMMA NumberIs ==
  ASSUME NEW n \in Short, NEW word,
         \A b \in 0 .. 15 : b \in word <=> (n \div 2^b) % 2 = 1
  PROVE  Number(word) = n
<1> DEFINE q == [b \in 0 .. 16 |-> n \div 2^b]
<1>1. n \in Nat /\ n \div 2^0 = n /\ n \div 2^16 = 0
  BY ShortIs
<1>2. q \in [0 .. 16 -> Nat]
  BY <1>1, Halved
<1>3. \A b \in 0 .. 15 : q[b] = Digit(word, b) + 2 * q[b + 1]
  <2> TAKE b \in 0 .. 15
  <2>1. q[b] = n \div 2^b /\ q[b + 1] = n \div 2^(b + 1)
    OBVIOUS
  <2>2. q[b] \in Nat /\ q[b + 1] \in Nat
    <3> HIDE DEF q
    <3> QED
      BY <1>2
  <2>3. q[b + 1] = q[b] \div 2
    BY <1>1, <2>1, Halved
  <2>4. b \in word <=> q[b] % 2 = 1
    BY <2>1
  <2> HIDE DEF q
  <2> QED
    BY <2>2, <2>3, <2>4, LastDigit
<1>4. q[0] = n /\ q[16] = 0
  BY <1>1
<1> HIDE DEF q
<1> QED
  BY <1>2, <1>3, <1>4, NumberByHalves

LEMMA SmallQuotient ==
  ASSUME NEW n \in Nat, NEW c \in Nat, n < c
  PROVE  n \div c = 0
OBVIOUS

(* Where the slices of the driver end. *)
LEMMA Powers ==
  ASSUME NEW b \in 0 .. 15
  PROVE  /\ 2^b \in Nat /\ (b >= 1 => 2^b >= 2)
         /\ b >= 3 => 2^b >= 8
         /\ b >= 6 => 2^b >= 64
<1> DEFINE P(c) == /\ 2^c \in Nat /\ (c >= 1 => 2^c >= 2)
                   /\ c >= 3 => 2^c >= 8
                   /\ c >= 6 => 2^c >= 64
<1>1. P(0) /\ P(1) /\ P(2) /\ P(3)
  OBVIOUS
<1>2. P(4) /\ P(5) /\ P(6) /\ P(7)
  OBVIOUS
<1>3. P(8) /\ P(9) /\ P(10) /\ P(11)
  OBVIOUS
<1>4. P(12) /\ P(13) /\ P(14) /\ P(15)
  OBVIOUS
<1> HIDE DEF P
<1>5. P(b)
  BY <1>1, <1>2, <1>3, <1>4
<1> QED
  BY <1>5 DEF P

LEMMA BelowPower ==
  ASSUME NEW v \in Nat, NEW bits, NEW b \in 0 .. 15, b >= bits,
         \/ bits = 1 /\ v <= 1
         \/ bits = 3 /\ v <= 7
         \/ bits = 6 /\ v <= 63
  PROVE  v < 2^b
<1> DEFINE c == 2^b
<1>1. c \in Nat /\ (b >= 1 => c >= 2) /\ (b >= 3 => c >= 8) /\ (b >= 6 => c >= 64)
  BY Powers
<1> HIDE DEF c
<1>2. v < c
  BY <1>1
<1> QED
  BY <1>2 DEF c

LEMMA NoHighDigit ==
  ASSUME NEW n \in Nat, NEW b \in 0 .. 15, n < 2^b
  PROVE  (n \div 2^b) % 2 # 1
<1>1. n \div 2^b = 0
  BY Powers, SmallQuotient
<1> QED
  BY <1>1

(* The largest number a slice holds; of the alert limit, in quarters, what   *)
(* an int16_t of units holds.                                                *)
Largest ==
  [mode |-> 7, averagingCount |-> 7, currentConversionTime |-> 7,
   voltageConversionTime |-> 7, alertType |-> 63, alertLimit |-> 163839,
   alertPolarity |-> 1, alertLatch |-> 1]

(* The enumerations of the driver have no larger members, and a limit is one *)
(* that its conversion to int16_t can represent.                             *)
InRange ==
  \A s \in Settings : \A v \in Values[s] :
    v <= Largest[s] /\ (s # "alertLimit" => v >= 0)

(* What is known of a setting is what a caller may set, or its default.      *)
AllowedInv ==
  /\ \A s \in Settings : known[s] \in Values[s] \cup {DefaultSetting[s], Unknown}
  /\ call # NoCall /\ call.part = "set" /\ call.api \in Settings =>
       call.value \in Values[call.api]

(* The units that a caller's value stands for. *)
Units(s, value) == IF s = "alertLimit" THEN LimitUnits(value) ELSE value

(* They fit into the slice, so that its word stands for them. *)
LEMMA UnitsFit ==
  ASSUME InRange, NEW s \in Settings, NEW v \in Values[s] \cup {DefaultSetting[s]}, v >= 0
  PROVE  /\ v \in Nat /\ Units(s, v) \in Short
         /\ \A b \in 0 .. 15 : b >= Setting[s].bits => Units(s, v) < 2^b
         /\ s = "alertLimit" => 5 * Units(s, v) <= v /\ v < 5 * (Units(s, v) + 1)
<1>1. v \in Nat /\ v <= Largest[s]
  <2>1. Values[s] \subseteq Int
    BY ChipAssumption
  <2>2. DefaultSetting[s] \in Nat /\ DefaultSetting[s] <= Largest[s]
    BY SettingsAre DEF DefaultSetting, Largest
  <2>3. Largest[s] \in Nat
    BY SettingsAre DEF Largest
  <2> QED
    BY <2>1, <2>2, <2>3 DEF InRange
<1>2. CASE s = "alertLimit"
  <2>1. Units(s, v) = v \div 5
    BY <1>1, <1>2 DEF Units, LimitUnits
  <2>2. v <= 163839
    BY <1>1, <1>2 DEF Largest
  <2>3. v \div 5 \in Short /\ 5 * (v \div 5) <= v /\ v < 5 * ((v \div 5) + 1)
    <3>1. /\ v \div 5 \in Nat /\ v \div 5 < 65536
          /\ 5 * (v \div 5) <= v /\ v < 5 * ((v \div 5) + 1)
      BY <1>1, <2>2
    <3>2. v \div 5 \in Short
      BY <3>1, ShortHas
    <3> QED
      BY <3>1, <3>2
  <2>4. Setting[s].bits = 16
    BY <1>2 DEF Setting, AlertLimit, Slice
  <2> QED
    BY <1>1, <2>1, <2>3, <2>4
<1>3. CASE s # "alertLimit"
  <2>1. Units(s, v) = v
    BY <1>3 DEF Units
  <2>2. \/ Setting[s].bits = 1 /\ Largest[s] = 1
        \/ Setting[s].bits = 3 /\ Largest[s] = 7
        \/ Setting[s].bits = 6 /\ Largest[s] = 63
    BY <1>3, SettingsAre DEF Setting, Largest, Slice, Mode, AveragingCount,
       CurrentConversionTime, VoltageConversionTime, AlertType, AlertPolarity, AlertLatch
  <2>3. \/ Setting[s].bits = 1 /\ v <= 1
        \/ Setting[s].bits = 3 /\ v <= 7
        \/ Setting[s].bits = 6 /\ v <= 63
    BY <1>1, <2>2
  <2>4. ASSUME NEW b \in 0 .. 15, b >= Setting[s].bits PROVE v < 2^b
    BY <1>1, <2>3, <2>4, BelowPower
  <2>5. v \in Short
    <3>1. v < 65536
      BY <1>1, <2>3
    <3> QED
      BY <1>1, <3>1, ShortHas
  <2> QED
    BY <1>1, <1>3, <2>1, <2>4, <2>5
<1> QED
  BY <1>2, <1>3

(* What is read back of a setting is the number of units that was asked for. *)
LEMMA NumberAsked ==
  ASSUME InRange, NEW s \in Settings, NEW v \in Values[s] \cup {DefaultSetting[s]}, v >= 0
  PROVE  Number(Low(Setting[s].bits) \cap Asked(s, v)) = Units(s, v)
<1> DEFINE n == Units(s, v)
           word == Low(Setting[s].bits) \cap Asked(s, v)
<1>1. n \in Short /\ n \in Nat /\ \A b \in 0 .. 15 : b >= Setting[s].bits => n < 2^b
  BY UnitsFit, ShortIs
<1>2. Asked(s, v) = Binary(n)
  BY <1>1 DEF Asked, Units, ToWord
<1>3. \A b \in 0 .. 15 : b \in word <=> (n \div 2^b) % 2 = 1
  <2> TAKE b \in 0 .. 15
  <2>1. b \in Low(IntBits)
    BY WidthFacts DEF Widths, Low
  <2>2. b \in Asked(s, v) <=> (n \div 2^b) % 2 = 1
    BY <1>2, <2>1 DEF Binary
  <2>3. b \in Low(Setting[s].bits) <=> b < Setting[s].bits
    BY SettingShape DEF Low
  <2>4. b >= Setting[s].bits => (n \div 2^b) % 2 # 1
    BY <1>1, NoHighDigit
  <2> HIDE DEF n
  <2> QED
    BY <2>2, <2>3, <2>4, SettingShape
<1> HIDE DEF n, word
<1> QED
  BY <1>1, <1>3, NumberIs DEF n, word

LEMMA GotAllowed ==
  ASSUME ChipTypeInv, AllowedInv, call # NoCall, call.at \in {"point", "fetch"},
         UNCHANGED known, NEW word, NEW fault, Got(word, fault)
  PROVE  AllowedInv'
<1>1. Shaped(call) /\ call \in CallType
  BY DEF ChipTypeInv, CallShape, Shaped
<1>2. CASE call' = NoCall
  BY <1>2 DEF AllowedInv
<1>3. CASE call.part = "manufacturer" /\ call' = [call EXCEPT !.part = "device",
             !.slice = DeviceId, !.at = "point", !.fault = fault]
  <2>1. call'.part = "device"
    BY <1>1, <1>3, CallTypeIs
  <2> QED
    BY <2>1 DEF AllowedInv
<1>4. CASE call.part = "device" /\ call' = [call EXCEPT !.part = "set", !.slice = ResetBit,
             !.value = 1, !.at = "point", !.fault = fault]
  <2>1. call'.api = call.api /\ call.api = "begin"
    BY <1>1, <1>4, CallTypeIs DEF Shaped
  <2> QED
    BY <2>1, NamesApart DEF AllowedInv
<1>5. CASE call.part = "set" /\ call' = [call EXCEPT !.word = word, !.at = "store",
             !.fault = fault, !.misread = fault \/ call.restarted]
  <2>1. call'.api = call.api /\ call'.value = call.value
    BY <1>1, <1>5, CallTypeIs
  <2> QED
    BY <1>5, <2>1 DEF AllowedInv
<1> QED
  BY <1>2, <1>3, <1>4, <1>5 DEF Got, Return

LEMMA InaAllowsOn ==
  ASSUME ChipTypeInv, AllowedInv, [Next]_vars
  PROVE  AllowedInv'
<1>1. CASE UNCHANGED vars
  BY <1>1 DEF vars, AllowedInv
<1>2. CASE begin \/ reset \/ Set \/ Get \/ Read
  <2>1. UNCHANGED known
    BY <1>2, EnterIs DEF ChipTypeInv
  <2>2. ASSUME NEW api, NEW part, NEW at, NEW slice, NEW value,
               Enter(api, part, at, slice, value),
               part = "set" /\ api \in Settings => value \in Values[api]
        PROVE  AllowedInv'
    <3>1. call'.api = api /\ call'.part = part /\ call'.value = value
      BY <2>2 DEF Enter
    <3> QED
      BY <2>1, <2>2, <3>1 DEF AllowedInv
  <2>3. CASE Set
    <3>1. PICK s \in Settings :
            \E value \in Values[s] : Enter(s, "set", "point", Setting[s], value)
      BY <2>3 DEF Set
    <3> QED
      BY <2>2, <3>1
  <2>4. CASE begin \/ reset
    BY <2>2, <2>4, NamesApart DEF begin, reset
  <2>5. CASE Get \/ Read
    BY <2>2, <2>5 DEF Get, Read
  <2> QED
    BY <1>2, <2>3, <2>4, <2>5
<1>3. CASE Detect
  <2>1. PICK ok \in BOOLEAN :
          /\ Transaction("detect", ok)
          /\ IF ok THEN call' = [call EXCEPT !.part = "manufacturer", !.at = "point"]
             ELSE call' = NoCall
    BY <1>3 DEF Detect, Return
  <2>2. call # NoCall /\ call \in CallType
    BY <2>1 DEF Transaction, ChipTypeInv, TypeOK
  <2>3. call' # NoCall => call'.part = "manufacturer"
    BY <2>1, <2>2, CallTypeIs
  <2> QED
    BY <1>3, <2>3 DEF Detect, AllowedInv
<1>4. CASE Point
  <2>1. PICK ok \in BOOLEAN :
          /\ Transaction("point", ok)
          /\ \/ call' = [call EXCEPT !.at = "fetch"]
             \/ Got(Ones, TRUE)
    BY <1>4 DEF Point, ReadValue
  <2>2. call # NoCall /\ call.at = "point" /\ call \in CallType /\ UNCHANGED known
    BY <1>4, <2>1 DEF Transaction, ChipTypeInv, TypeOK, Point
  <2>3. CASE call' = [call EXCEPT !.at = "fetch"]
    <3>1. call'.part = call.part /\ call'.api = call.api /\ call'.value = call.value
      BY <2>2, <2>3, CallTypeIs
    <3> QED
      BY <2>2, <3>1 DEF AllowedInv
  <2> QED
    BY <2>1, <2>2, <2>3, GotAllowed
<1>5. CASE Fetch
  <2>1. PICK word \in Answers(pointer), came \in BOOLEAN :
          /\ call # NoCall /\ call.at = "fetch" /\ UNCHANGED known
          /\ Got(IF came THEN word ELSE Ones, call.fault \/ ~came)
    BY <1>5, FetchIs
  <2> QED
    BY <2>1, GotAllowed
<1>6. CASE Store
  <2>1. PICK ok \in BOOLEAN, taken \in BOOLEAN, word \in Words(ValueBits) :
          StoreOf(ok, taken, word)
    BY <1>6, StoreIs
  <2>2. call' = NoCall /\ known' = Learnt(Transmits(3, ok)) /\ Transmits(3, ok) \in BOOLEAN
    BY <2>1 DEF StoreOf, Return, Transmits
  <2>3. call # NoCall /\ call.part = "set"
    BY <1>6, StoreIs
  <2>4. ASSUME NEW s \in Settings
        PROVE  Learnt(Transmits(3, ok))[s] \in Values[s] \cup {DefaultSetting[s], Unknown}
    BY <2>2, <2>3, LearntIs DEF AllowedInv
  <2> QED
    BY <2>2, <2>4 DEF AllowedInv
<1>7. CASE ChipRestart
  <2>1. \A s \in Settings : known'[s] = Unknown
    BY <1>7 DEF ChipRestart
  <2>2. call' # NoCall => call # NoCall /\ call'.part = call.part /\ call'.api = call.api
                            /\ call'.value = call.value
    BY <1>7, CallTypeIs DEF ChipRestart, ChipTypeInv, TypeOK
  <2> QED
    BY <2>1, <2>2 DEF AllowedInv
<1> QED
  BY <1>1, <1>2, <1>3, <1>4, <1>5, <1>6, <1>7 DEF Next

(* What a call reads is what was set, in numbers: of a setting the very      *)
(* value, of an alert limit less than a unit below it, and of a measurement  *)
(* a word the chip made of that quantity; for values in the driver's         *)
(* enumerations, on a bus of bytes of eight bits.                            *)
THEOREM InaReadsBackNumbers ==
  ASSUME ByteBits = 8, InRange
  PROVE  Spec => []ReadBack
<1>1. Init => AllowedInv
  BY DEF Init, AllowedInv
<1>2. ChipTypeInv /\ AllowedInv /\ [Next]_vars => AllowedInv'
  BY InaAllowsOn
<1>3. ASSUME AllowedInv, ReadBackWord PROVE ReadBack
  <2> SUFFICES ASSUME Clean, returned.part = "get" PROVE ReadBack
    BY DEF ReadBack
  <2>1. ASSUME returned.api \in Settings, known[returned.api] # Unknown
        PROVE  LET set == known[returned.api]
                   got == Number(returned.result)
               IN  /\ returned.result \subseteq Low(16)
                   /\ IF returned.api # "alertLimit" THEN got = set
                      ELSE set >= 0 => 5 * got <= set /\ set < 5 * (got + 1)
    <3> DEFINE s == returned.api
               set == known[s]
    <3>1. /\ returned.result = Low(Setting[s].bits) \cap Asked(s, set)
          /\ set \in Values[s] \cup {DefaultSetting[s]}
      BY <1>3, <2>1 DEF ReadBackWord, AllowedInv
    <3>2. returned.result \subseteq Low(16)
      BY <2>1, <3>1, SettingShape DEF Low
    <3>3. s # "alertLimit" => set >= 0
      <4>1. DefaultSetting[s] >= 0
        BY <2>1, SettingsAre DEF DefaultSetting
      <4> QED
        BY <2>1, <3>1, <4>1 DEF InRange
    <3>4. set >= 0 => Number(returned.result) = Units(s, set)
      BY <2>1, <3>1, NumberAsked
    <3>5. s # "alertLimit" => Units(s, set) = set
      BY DEF Units
    <3>6. s = "alertLimit" /\ set >= 0 =>
            5 * Units(s, set) <= set /\ set < 5 * (Units(s, set) + 1)
      BY <2>1, <3>1, UnitsFit
    <3> HIDE DEF s, set
    <3> QED
      BY <3>2, <3>3, <3>4, <3>5, <3>6 DEF s, set
  <2> QED
    BY <1>3, <2>1 DEF ReadBack, ReadBackWord
<1>4. Spec => []ReadBackWord
  BY InaReadsBack
<1>5. AllowedInv /\ ReadBackWord => ReadBack
  BY <1>3
<1> QED
  BY <1>1, <1>2, <1>4, <1>5, InaTyped, PTL DEF Spec
-----------------------------------------------------------------------------
(* The right chip. *)

LEMMA IdField ==
  ASSUME NEW word
  PROVE  Extracted(word, DeviceId) = Field(word, DeviceId)
<1>1. Mask(12) = Low(12)
  <2>1. 12 \in Nat /\ 12 < IntBits
    BY WidthFacts DEF Widths
  <2> QED
    BY <2>1, MaskHoldsSlice
<1>2. Low(12) \subseteq Ones
  BY WidthFacts DEF Widths, Low, Ones
<1> QED
  BY <1>1, <1>2, OtherSlices DEF Extracted, Shr, Field

(* The ids of the chip never change. *)
LEMMA IdsStay ==
  ASSUME ChipTypeInv, [Next]_vars
  PROVE  chip'["MFG_UID"] = chip["MFG_UID"] /\ chip'["DIE_UID"] = chip["DIE_UID"]
<1>1. /\ chip \in [Stored -> Words(RegBits)] /\ "MFG_UID" \in Stored /\ "DIE_UID" \in Stored
  BY DEF ChipTypeInv, TypeOK, Stored
<1>2. /\ AfterReset(chip)["MFG_UID"] = chip["MFG_UID"]
      /\ AfterReset(chip)["DIE_UID"] = chip["DIE_UID"]
  BY <1>1, AfterResetType
<1>3. CASE Store
  <2>1. PICK ok \in BOOLEAN, taken \in BOOLEAN, word \in Words(ValueBits) :
          StoreOf(ok, taken, word)
    BY <1>3, StoreIs
  <2>2. call.slice.reg \in {"CONFIG", "MASK_ENABLE", "ALERT_LIMIT"}
    BY <1>3, StoreIs
  <2>3. chip' = chip \/ chip' = AfterStore(chip, call.slice.reg, word \cap Low(RegBits))
    BY <2>1 DEF StoreOf
  <2>4. ASSUME NEW w, NEW r \in {"CONFIG", "MASK_ENABLE", "ALERT_LIMIT"}
        PROVE  /\ AfterStore(chip, r, w)["MFG_UID"] = chip["MFG_UID"]
               /\ AfterStore(chip, r, w)["DIE_UID"] = chip["DIE_UID"]
    BY <1>1, <1>2 DEF AfterStore
  <2> QED
    BY <2>2, <2>3, <2>4
<1>4. CASE ChipRestart
  BY <1>2, <1>4 DEF ChipRestart
<1>5. CASE UNCHANGED vars
  BY <1>5 DEF vars
<1>6. CASE begin \/ reset \/ Set \/ Get \/ Read
  <2>1. TypeOK
    BY DEF ChipTypeInv
  <2>2. UNCHANGED chip
    BY <1>6, <2>1, EnterIs
  <2> QED
    BY <2>2
<1>7. CASE Detect \/ Point \/ Fetch
  BY <1>7 DEF Detect, Point, Fetch
<1> QED
  BY <1>3, <1>4, <1>5, <1>6, <1>7 DEF Next

(* What comes of a fetch looks like an id only if the chip has it. *)
LEMMA FetchedId ==
  ASSUME ChipTypeInv, IdInv, call # NoCall, call.at = "fetch",
         NoLookalike \/ restarts = 0,
         NEW word \in Answers(pointer), word \in Words(RegBits), NEW came \in BOOLEAN
  PROVE  LET got == IF came THEN word ELSE Ones
         IN  /\ call.slice = Whole("MFG_UID") /\ Extracted(got, Whole("MFG_UID")) = Manufacturer
                  => chip["MFG_UID"] = Manufacturer
             /\ call.slice = DeviceId /\ Extracted(got, DeviceId) = Device
                  => Field(chip["DIE_UID"], DeviceId) = Device
<1>1. CASE ~came
  BY <1>1, OnesIsNoId
<1>2. CASE pointer = call.slice.reg
  <2>1. ASSUME call.slice = Whole("MFG_UID"), Extracted(word, Whole("MFG_UID")) = Manufacturer
        PROVE  chip["MFG_UID"] = Manufacturer
    <3>1. "MFG_UID" \in Registers
      BY DEF Registers, Stored
    <3>2. pointer = "MFG_UID"
      BY <1>2, <2>1, <3>1, OtherSlices
    <3>3. word = chip["MFG_UID"]
      BY <3>2 DEF Answers, Measurements
    <3> QED
      BY <2>1, <3>1, <3>3, ExtractedWhole
  <2>2. ASSUME call.slice = DeviceId, Extracted(word, DeviceId) = Device
        PROVE  Field(chip["DIE_UID"], DeviceId) = Device
    <3>1. pointer = "DIE_UID"
      BY <1>2, <2>2, OtherSlices
    <3>2. word = chip["DIE_UID"]
      BY <3>1 DEF Answers, Measurements
    <3> QED
      BY <2>2, <3>2, IdField
  <2> QED
    BY <1>1, <2>1, <2>2
<1>3. CASE pointer # call.slice.reg
  <2>1. restarts > 0 /\ chip = AfterReset(chip)
    BY <1>3 DEF IdInv
  <2>2. NoLookalike
    BY <2>1
  <2> DEFINE id == <<chip["MFG_UID"], chip["DIE_UID"]>>
  <2>3. id \in Chips /\ pointer \in Registers
    BY DEF IdInv, ChipTypeInv, TypeOK
  <2>4. \A r \in Stored : chip[r] = IF r \in {"MFG_UID", "DIE_UID"} THEN chip[r] ELSE Default(r)
    BY <2>1, AfterResetType DEF ChipTypeInv, TypeOK
  <2>5. id[1] = chip["MFG_UID"] /\ id[2] = chip["DIE_UID"]
    OBVIOUS
  <2> HIDE DEF id
  <2>6. word \in FreshAnswers(pointer, id)
    <3>1. CASE pointer \in Measurements
      <4>1. pointer # "MASK_ENABLE"
        BY <3>1 DEF Measurements
      <4>2. Answers(pointer) = Samples[pointer] /\ FreshAnswers(pointer, id) = Samples[pointer]
        BY <3>1, <4>1 DEF Answers, FreshAnswers, Measurements
      <4> QED
        BY <4>2
    <3>2. CASE pointer \in Stored
      BY <2>4, <2>5, <3>2 DEF Answers, FreshAnswers, Measurements, Stored
    <3> QED
      BY <2>3, <3>1, <3>2 DEF Registers
  <2>7. /\ Extracted(word, Whole("MFG_UID")) = Manufacturer => id[1] = Manufacturer
        /\ Extracted(word, DeviceId) = Device => Field(id[2], DeviceId) = Device
    BY <2>2, <2>3, <2>6 DEF NoLookalike
  <2> QED
    BY <1>1, <2>5, <2>7
<1> QED
  BY <1>2, <1>3

LEMMA GotKnows ==
  ASSUME ChipTypeInv, IdInv, call # NoCall, call.at \in {"point", "fetch"},
         UNCHANGED <<chip, restarts>>, NEW word, NEW fault, Got(word, fault),
         NoLookalike \/ restarts = 0 =>
           /\ call.slice = Whole("MFG_UID") /\ Extracted(word, Whole("MFG_UID")) = Manufacturer
                => chip["MFG_UID"] = Manufacturer
           /\ call.slice = DeviceId /\ Extracted(word, DeviceId) = Device
                => Field(chip["DIE_UID"], DeviceId) = Device
  PROVE  IdInv'
<1>1. Shaped(call) /\ call \in CallType /\ returned = NoCall
  BY DEF ChipTypeInv, CallShape, Shaped
<1>2. <<chip'["MFG_UID"], chip'["DIE_UID"]>> \in Chips
  BY DEF IdInv
<1>3. ASSUME NEW result, Return(result, fault), UNCHANGED registers,
             call.api = "begin" => result = {}
      PROVE  IdInv'
  <2>1. call' = NoCall /\ returned'.api = call.api /\ returned'.result = result
    BY <1>3 DEF Return
  <2> QED
    BY <1>2, <1>3, <2>1 DEF IdInv
<1>4. CASE call.part \in {"manufacturer", "device"}
             /\ ~RightChip(call.part, Extracted(word, call.slice))
  BY <1>3, <1>4 DEF Got
<1>5. CASE call.part = "manufacturer" /\ RightChip(call.part, Extracted(word, call.slice))
  <2>1. /\ call' = [call EXCEPT !.part = "device", !.slice = DeviceId,
                                !.at = "point", !.fault = fault]
        /\ UNCHANGED <<registers, returned>>
    BY <1>5 DEF Got
  <2>2. call'.part = "device" /\ call'.at = "point"
    BY <1>1, <2>1, CallTypeIs
  <2>3. call.slice = Whole("MFG_UID") /\ Extracted(word, Whole("MFG_UID")) = Manufacturer
    BY <1>1, <1>5 DEF Shaped, RightChip
  <2> QED
    BY <1>1, <1>2, <2>1, <2>2, <2>3 DEF IdInv
<1>6. CASE call.part = "device" /\ RightChip(call.part, Extracted(word, call.slice))
  <2>1. /\ call' = [call EXCEPT !.part = "set", !.slice = ResetBit, !.value = 1,
                                !.at = "point", !.fault = fault]
        /\ registers' = TRUE /\ UNCHANGED returned
    BY <1>6 DEF Got
  <2>2. call'.part = "set" /\ call'.at = "point"
    BY <1>1, <2>1, CallTypeIs
  <2>3. call.slice = DeviceId /\ Extracted(word, DeviceId) = Device
    BY <1>1, <1>6 DEF Shaped, RightChip
  <2>4. NoLookalike \/ restarts = 0 => /\ chip["MFG_UID"] = Manufacturer
                                       /\ Field(chip["DIE_UID"], DeviceId) = Device
    BY <1>6, <2>3 DEF IdInv
  <2> QED
    BY <1>1, <1>2, <2>1, <2>2, <2>4 DEF IdInv
<1>7. CASE call.part = "get"
  <2>1. Return(Result(word), fault) /\ UNCHANGED registers /\ call.api # "begin"
    BY <1>1, <1>7, NamesApart DEF Got, Shaped
  <2> QED
    BY <1>3, <2>1
<1>8. CASE call.part = "set"
  <2>1. /\ call' = [call EXCEPT !.word = word, !.at = "store", !.fault = fault,
                                !.misread = fault \/ call.restarted]
        /\ UNCHANGED <<registers, returned>>
    BY <1>8 DEF Got
  <2>2. call'.part = "set" /\ call'.at = "store" /\ call'.api = call.api
    BY <1>1, <1>8, <2>1, CallTypeIs
  <2> QED
    BY <1>1, <1>2, <1>8, <2>1, <2>2 DEF IdInv
<1> QED
  BY <1>4, <1>5, <1>6, <1>7, <1>8 DEF Got
LEMMA IdsAre ==
  ASSUME IdInv, ChipTypeInv, [Next]_vars
  PROVE  <<chip'["MFG_UID"], chip'["DIE_UID"]>> \in Chips
BY IdsStay DEF IdInv

(* A step that makes no registers and returns no success of begin().         *)
LEMMA IdsBetween ==
  ASSUME ChipTypeInv, IdInv, [Next]_vars, UNCHANGED registers,
         restarts \in Nat, restarts' = restarts \/ restarts' = restarts + 1,
         call' # NoCall => /\ call'.part = "device" => call # NoCall /\ call.part = "device"
                           /\ call'.api = "begin" /\ call'.part = "set" =>
                                call # NoCall /\ call.api = "begin" /\ call.part = "set"
                           /\ call'.at = "fetch" =>
                                \/ pointer' = call'.slice.reg
                                \/ restarts' > 0 /\ chip' = AfterReset(chip'),
         returned' # NoCall /\ returned'.api = "begin" /\ returned'.result # {} => registers
  PROVE  IdInv'
<1>1. /\ chip'["MFG_UID"] = chip["MFG_UID"] /\ chip'["DIE_UID"] = chip["DIE_UID"]
      /\ <<chip'["MFG_UID"], chip'["DIE_UID"]>> \in Chips
  BY IdsStay, IdsAre
<1>2. NoLookalike \/ restarts' = 0 => NoLookalike \/ restarts = 0
  OBVIOUS
<1>3. NoLookalike \/ restarts' = 0 =>
        /\ call' # NoCall /\ call'.part = "device" => chip'["MFG_UID"] = Manufacturer
        /\ registers' => /\ chip'["MFG_UID"] = Manufacturer
                         /\ Field(chip'["DIE_UID"], DeviceId) = Device
  BY <1>1, <1>2 DEF IdInv
<1>4. call' # NoCall /\ call'.api = "begin" /\ call'.part = "set" => registers'
  BY DEF IdInv
<1> QED
  BY <1>1, <1>3, <1>4 DEF IdInv

LEMMA InaKnowsOn ==
  ASSUME ChipTypeInv, IdInv, [Next]_vars
  PROVE  IdInv'
<1>1. restarts \in Nat
  BY ChipAssumption DEF ChipTypeInv, TypeOK
<1>2. CASE UNCHANGED vars
  BY <1>2 DEF vars, IdInv
<1>3. CASE begin \/ reset \/ Set \/ Get \/ Read
  <2>1. TypeOK
    BY DEF ChipTypeInv
  <2>2. /\ call'.at \in {"detect", "point"} /\ call'.part # "device"
        /\ (call'.api = "begin" => call'.part = "detect") /\ returned' = NoCall
        /\ UNCHANGED <<registers, restarts>>
    BY <1>3, <2>1, EnterIs
  <2> QED
    BY <1>1, <2>2, IdsBetween
<1>4. CASE Detect
  <2>1. PICK ok \in BOOLEAN :
          /\ Transaction("detect", ok)
          /\ IF ok THEN /\ call' = [call EXCEPT !.part = "manufacturer", !.at = "point"]
                        /\ UNCHANGED returned
             ELSE Return({}, TRUE)
    BY <1>4 DEF Detect
  <2>2. /\ call # NoCall /\ call \in CallType /\ returned = NoCall
        /\ UNCHANGED <<registers, restarts>>
    BY <1>4, <2>1 DEF Transaction, ChipTypeInv, TypeOK, CallShape, Detect
  <2>3. CASE ok
    <3>1. call'.part = "manufacturer" /\ call'.at = "point" /\ returned' = NoCall
      BY <2>1, <2>2, <2>3, CallTypeIs
    <3> QED
      BY <1>1, <2>2, <3>1, IdsBetween
  <2>4. CASE ~ok
    <3>1. call' = NoCall /\ returned'.result = {}
      BY <2>1, <2>4 DEF Return
    <3> QED
      BY <1>1, <2>2, <3>1, IdsBetween
  <2> QED
    BY <2>3, <2>4
<1>5. CASE Point
  <2>1. PICK ok \in BOOLEAN :
          /\ Transaction("point", ok)
          /\ IF Transmits(1, ok)
               THEN /\ pointer' = call.slice.reg
                    /\ call' = [call EXCEPT !.at = "fetch"]
                    /\ UNCHANGED <<registers, returned>>
               ELSE Got(Ones, TRUE)
    BY <1>5 DEF Point, ReadValue
  <2>2. /\ call # NoCall /\ call.at = "point" /\ call \in CallType /\ returned = NoCall
        /\ UNCHANGED <<chip, restarts>>
    BY <1>5, <2>1 DEF Transaction, ChipTypeInv, TypeOK, CallShape, Point
  <2>3. CASE Transmits(1, ok)
    <3>1. /\ call'.part = call.part /\ call'.api = call.api
          /\ pointer' = call'.slice.reg /\ returned' = NoCall /\ UNCHANGED registers
      BY <2>1, <2>2, <2>3, CallTypeIs
    <3> QED
      BY <1>1, <2>2, <3>1, IdsBetween
  <2>4. CASE ~Transmits(1, ok)
    <3>1. Got(Ones, TRUE)
      BY <2>1, <2>4
    <3> QED
      BY <2>2, <3>1, OnesIsNoId, GotKnows
  <2> QED
    BY <2>3, <2>4
<1>6. CASE Fetch
  <2>1. PICK word \in Answers(pointer), came \in BOOLEAN :
          /\ call # NoCall /\ call.at = "fetch"
          /\ UNCHANGED <<chip, restarts>>
          /\ Got(IF came THEN word ELSE Ones, call.fault \/ ~came)
          /\ word \in Words(RegBits)
    BY <1>6, FetchIs, Zenon DEF Fetch, Transaction
  <2> DEFINE got == IF came THEN word ELSE Ones
             fault == call.fault \/ ~came
  <2>2. NoLookalike \/ restarts = 0 =>
          /\ call.slice = Whole("MFG_UID") /\ Extracted(got, Whole("MFG_UID")) = Manufacturer
               => chip["MFG_UID"] = Manufacturer
          /\ call.slice = DeviceId /\ Extracted(got, DeviceId) = Device
               => Field(chip["DIE_UID"], DeviceId) = Device
    BY <2>1, FetchedId
  <2>3. Got(got, fault)
    BY <2>1
  <2> HIDE DEF got, fault
  <2> QED
    BY <2>1, <2>2, <2>3, GotKnows
<1>7. CASE Store
  <2>1. PICK ok \in BOOLEAN, taken \in BOOLEAN, word \in Words(ValueBits) :
          StoreOf(ok, taken, word)
    BY <1>7, StoreIs
  <2>2. /\ call # NoCall /\ call.part = "set" /\ UNCHANGED <<registers, restarts>>
    BY <1>7, StoreIs
  <2>3. call' = NoCall /\ returned'.api = call.api
    BY <2>1 DEF StoreOf, Return
  <2>4. returned'.api = "begin" => registers
    BY <2>2, <2>3 DEF IdInv
  <2> QED
    BY <1>1, <2>2, <2>3, <2>4, IdsBetween
<1>8. CASE ChipRestart
  <2>1. /\ chip' = AfterReset(chip) /\ restarts' = restarts + 1
        /\ call' = IF call = NoCall THEN NoCall ELSE [call EXCEPT !.restarted = TRUE]
        /\ UNCHANGED <<registers, returned>>
    BY <1>8 DEF ChipRestart
  <2>2. chip' = AfterReset(chip') /\ restarts' > 0
    BY <1>1, <2>1, AfterResetType DEF ChipTypeInv, TypeOK
  <2>3. call' # NoCall => call # NoCall /\ call'.part = call.part /\ call'.api = call.api
    BY <2>1, CallTypeIs DEF ChipTypeInv, TypeOK
  <2>4. returned' # NoCall /\ returned'.api = "begin" /\ returned'.result # {} => registers
    BY <2>1 DEF IdInv
  <2> QED
    BY <1>1, <2>1, <2>2, <2>3, <2>4, IdsBetween
<1> QED
  BY <1>2, <1>3, <1>4, <1>5, <1>6, <1>7, <1>8 DEF Next

LEMMA InaKnows == Spec => []IdInv
<1>1. Init => IdInv
  <2> SUFFICES ASSUME Init PROVE IdInv
    OBVIOUS
  <2>1. PICK id \in Chips :
          chip = AfterReset([r \in Stored |-> IF r = "MFG_UID" THEN id[1] ELSE id[2]])
    BY DEF Init
  <2>2. "MFG_UID" \in Stored /\ "DIE_UID" \in Stored
    BY DEF Stored
  <2>3. chip["MFG_UID"] = id[1] /\ chip["DIE_UID"] = id[2]
    BY <2>1, <2>2 DEF AfterReset
  <2>4. id = <<id[1], id[2]>>
    BY ChipAssumption
  <2>5. call = NoCall /\ returned = NoCall /\ registers = FALSE
    BY DEF Init
  <2> QED
    BY <2>3, <2>4, <2>5 DEF IdInv
<1>2. ChipTypeInv /\ IdInv /\ [Next]_vars => IdInv'
  BY InaKnowsOn
<1> QED
  BY <1>1, <1>2, InaTyped, PTL DEF Spec

(* begin() reports success for an INA260 only, and makes no registers for    *)
(* another chip, if no other chip shows the ids of one in a register that    *)
(* is fetched from by mistake because the chip restarted.                    *)
THEOREM InaOnlyRightChip ==
  ASSUME NoLookalike
  PROVE  Spec => []OnlyRightChip
<1>1. IdInv => OnlyRightChip
  BY DEF IdInv, OnlyRightChip
<1> QED
  BY <1>1, InaKnows, PTL

(* And whatever any chip shows, as long as it keeps its supply.              *)
THEOREM InaOnlyRightChipPowered == Spec => [](restarts = 0 => OnlyRightChip)
<1>1. IdInv => (restarts = 0 => OnlyRightChip)
  BY DEF IdInv, OnlyRightChip
<1> QED
  BY <1>1, InaKnows, PTL
=============================================================================
