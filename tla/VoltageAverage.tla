--------------------------- MODULE VoltageAverage ---------------------------
(***************************************************************************)
(* The running average of the battery voltage in the fridge controllers    *)
(* (master-arduino and backporch-arduino).  Two modes of the controller    *)
(* share one counter, one sum and one average, with windows of different   *)
(* length and with different gains of the voltage divider.                 *)
(*                                                                         *)
(* A voltage is an integer, gain * raw.  The quotient sum / window is kept *)
(* exact by counting it in units of 1 / AverageUnit of a volt step, where  *)
(* AverageUnit is a common multiple of the two windows; float rounding is  *)
(* left out.                                                               *)
(***************************************************************************)
EXTENDS Integers

CONSTANTS
  FridgeWindow,    \* avgCount of the "fridge" mode, 100
  MeasureWindow,   \* avgCount of the "measure" mode, 30
  FridgeGain,      \* volts per step of the converter in "fridge" mode
  MeasureGain,     \* the same in "measure" mode; the two differ in the code
  RawMax,          \* largest reading of analogRead, 1023
  RawLevels        \* the readings the divider may produce

ASSUME WindowAssumption ==
  /\ FridgeWindow \in Nat \ {0}
  /\ MeasureWindow \in Nat \ {0}
  /\ MeasureWindow + 1 < FridgeWindow      \* 31 < 100

ASSUME GainAssumption ==
  /\ FridgeGain \in Nat
  /\ MeasureGain \in Nat
  /\ FridgeGain <= MeasureGain             \* 5.78 (6.000) and 6.097
  /\ RawMax \in Nat
  /\ RawLevels \subseteq 0 .. RawMax

VARIABLES
  averageVoltCounter,   \* samples in the window so far
  voltageSumUp,         \* their sum
  averageVoltage,       \* the last published average, in 1 / AverageUnit
  batteryVoltage        \* the last sample

averageVars == <<averageVoltCounter, voltageSumUp, averageVoltage, batteryVoltage>>

Window(mode) == IF mode = "fridge" THEN FridgeWindow ELSE MeasureWindow
Gain(mode)   == IF mode = "fridge" THEN FridgeGain ELSE MeasureGain

AverageUnit == FridgeWindow * MeasureWindow

(* sum / Window(mode), in units of 1 / AverageUnit. *)
Average(sum, mode) ==
  sum * (IF mode = "fridge" THEN MeasureWindow ELSE FridgeWindow)

AverageInit ==
  /\ averageVoltCounter = 0
  /\ voltageSumUp = 0
  /\ averageVoltage = 0
  /\ batteryVoltage = 0

(* The guard "averageVoltCounter <= avgCount". *)
Counting(mode) == averageVoltCounter <= Window(mode)

(* Mutant of PublishAverage: the sum is not reset. *)
PublishAverageKeepSum(mode, sample) ==
  /\ Counting(mode)
  /\ averageVoltCounter + 1 = Window(mode)
  /\ averageVoltage' = Average(voltageSumUp + sample, mode)
  /\ averageVoltCounter' = 0
  /\ voltageSumUp' = voltageSumUp + sample

(* The window is full with this sample: publish its mean and start afresh.  *)
PublishAverage(mode, sample) ==
  /\ Counting(mode)
  /\ averageVoltCounter + 1 = Window(mode)
  /\ averageVoltage' = Average(voltageSumUp + sample, mode)
  /\ averageVoltCounter' = 0
  /\ voltageSumUp' = 0

(* Mutant of Accumulate: decisions see the sample instead of the average. *)
AccumulateUnaveraged(mode, sample) ==
  /\ Counting(mode)
  /\ averageVoltCounter + 1 # Window(mode)
  /\ averageVoltCounter' = averageVoltCounter + 1
  /\ voltageSumUp' = voltageSumUp + sample
  /\ averageVoltage' = sample * AverageUnit

(* Any other counted sample is added up. *)
Accumulate(mode, sample) ==
  /\ Counting(mode)
  /\ averageVoltCounter + 1 # Window(mode)
  /\ averageVoltCounter' = averageVoltCounter + 1
  /\ voltageSumUp' = voltageSumUp + sample
  /\ UNCHANGED averageVoltage

(* A counter beyond the window of this mode: the sample is read and dropped. *)
DropSample(mode) ==
  /\ ~Counting(mode)
  /\ UNCHANGED <<averageVoltCounter, voltageSumUp, averageVoltage>>

(* READ BATTERY VOLTAGE and AVERAGE VOLTAGE of one pass in the given mode.   *)
ReadVoltage(mode, raw) ==
  /\ batteryVoltage' = Gain(mode) * raw
  /\ \/ PublishAverage(mode, batteryVoltage')
     \/ Accumulate(mode, batteryVoltage')
     \/ DropSample(mode)
=============================================================================
