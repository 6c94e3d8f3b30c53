----------------------- MODULE FridgeControllerProofs -----------------------
(***************************************************************************)
(* Theorems about the fridge controller, for every length of the clock,    *)
(* every setting of the thresholds, windows, gains and tones, and every    *)
(* sequence of commands the operator may type.                             *)
(***************************************************************************)
EXTENDS FridgeController, TLAPS

-----------------------------------------------------------------------------
(* The clock. *)

(* The counter stays a counter.                                              *)
LEMMA AdvanceType ==
  ASSUME NEW t \in Millis, NEW d \in 0 .. Wrap
  PROVE  Advance(t, d) \in Millis
BY WrapAssumption DEF Advance, Millis

(* A saturated age stays one.  *)
LEMMA CapType ==
  ASSUME NEW age \in Nat
  PROVE  Cap(age) \in 0 .. AgeCap
BY SettingsAssumption DEF Cap, AgeCap

(* Whatever the wraps of the counter, what it shows since `start` is never   *)
(* more than the true age of `start`, and this is kept as time passes.       *)
LEMMA AgeBoundsTimer ==
  ASSUME NEW t \in Millis, NEW start \in Millis, NEW age \in 0 .. AgeCap,
         NEW d \in 0 .. Wrap,
         start <= t => Cap(t - start) <= age
  PROVE  start <= Advance(t, d) => Cap(Advance(t, d) - start) <= Cap(age + d)
BY WrapAssumption, SettingsAssumption DEF Advance, Millis, Cap, AgeCap

-----------------------------------------------------------------------------
(* The averages. *)

(* Sums and products of naturals are naturals. *)
LEMMA NatArithmetic ==
  ASSUME NEW a \in Nat, NEW b \in Nat
  PROVE  a + b \in Nat /\ a * b \in Nat
OBVIOUS

(* A sample is a natural number.  *)
LEMMA SampleType ==
  ASSUME NEW mode, NEW raw \in RawLevels
  PROVE  Gain(mode) * raw \in Nat
<1>1. Gain(mode) \in Nat /\ raw \in Nat
  BY GainAssumption DEF Gain
<1> QED
  BY <1>1, NatArithmetic

(* Counter, sum and average remain natural numbers in both modes.            *)
LEMMA ReadVoltageType ==
  ASSUME TypeOK, NEW mode, NEW raw \in RawLevels, ReadVoltage(mode, raw)
  PROVE  /\ averageVoltCounter' \in Nat
         /\ voltageSumUp' \in Nat
         /\ averageVoltage' \in Nat
         /\ batteryVoltage' \in Nat
<1>1. batteryVoltage' \in Nat
  BY SampleType DEF ReadVoltage
<1>2. voltageSumUp + batteryVoltage' \in Nat
  BY <1>1, NatArithmetic DEF TypeOK
<1>3. Average(voltageSumUp + batteryVoltage', mode) \in Nat
  BY <1>2, NatArithmetic, WindowAssumption DEF Average
<1> QED
  BY <1>1, <1>2, <1>3
  DEF TypeOK, ReadVoltage, PublishAverage, Accumulate, DropSample

-----------------------------------------------------------------------------
(* Type correctness.                                                         *)

(* One step further in a tune is still in the tune, or at its end.           *)
LEMMA TuneStep ==
  ASSUME NEW s \in 0 .. OffTuneEnd + 1, Playing(s) \/ AtTuneEnd(s)
  PROVE  /\ s + 1 \in 0 .. OffTuneEnd + 1
         /\ Playing(s) => Playing(s + 1) \/ AtTuneEnd(s + 1)
BY ToneAssumption
DEF Playing, AtTuneEnd, OnTuneStart, OnTuneEnd, OffTuneStart, OffTuneEnd

(* The buzzer stays within its tunes.                                        *)
LEMMA BuzzerType ==
  ASSUME TypeOK, NEW stripOn \in BOOLEAN, BuzzerPass(stripOn)
  PROVE  /\ buzzerState' \in 0 .. OffTuneEnd + 1
         /\ lastLoopPStrip' \in BOOLEAN
         /\ sounding' \in BOOLEAN
<1>1. buzzerState \in 0 .. OffTuneEnd + 1 /\ sounding \in BOOLEAN
  BY DEF TypeOK
<1>2. AfterEdge(stripOn) \in 0 .. OffTuneEnd + 1
  BY <1>1, ToneAssumption
  DEF AfterEdge, OnTuneStart, OnTuneEnd, OffTuneStart, OffTuneEnd
<1> QED
  BY <1>1, <1>2, TuneStep DEF BuzzerPass

(* Time passing keeps the clock and the age in their types.                  *)
LEMMA ElapseType ==
  ASSUME TypeOK, NEW d \in 0 .. Wrap, Elapse(d)
  PROVE  now' \in Millis /\ onAge' \in 0 .. AgeCap
<1>1. onAge + d \in Nat
  BY WrapAssumption, SettingsAssumption DEF TypeOK, AgeCap
<1> QED
  BY <1>1, AdvanceType, CapType DEF Elapse, TypeOK

(* A pass keeps the variables of the loop in their types. *)
LEMMA PassType ==
  ASSUME TypeOK, NEW busy \in 0 .. MaxBusy, Pass(busy)
  PROVE  /\ pc' \in {"outer", "inner"}
         /\ command' \in Commands
         /\ rx' \in Commands \cup {NoInput}
         /\ now' \in Millis
         /\ oldLoopTime' \in Millis
         /\ Cap(onAge + busy) \in 0 .. AgeCap
<1>1. busy \in 0 .. Wrap /\ onAge + busy \in Nat
  BY WrapAssumption, SettingsAssumption DEF TypeOK, AgeCap
<1> QED
  BY <1>1, AdvanceType, CapType DEF TypeOK, Pass

(* Switching the strip keeps its variables in their types. *)
LEMMA SwitchType ==
  ASSUME TypeOK,
         NEW t1 \in 0 .. MaxBusy, NEW t2 \in 0 .. MaxBusy, NEW t3 \in 0 .. MaxBusy,
         t2 <= t3, SwitchFridge(t1, t2, t3)
  PROVE  /\ relay' \in {"on", "off"}
         /\ fridgeWaitTimerStart' \in Millis
         /\ onAge' \in 0 .. AgeCap
<1>1. Advance(now, t2) \in Millis
  BY AdvanceType, WrapAssumption, SettingsAssumption DEF TypeOK
<1>2. t3 - t2 \in Nat /\ onAge + t3 \in Nat
  BY SettingsAssumption DEF TypeOK, AgeCap
<1>3. Cap(t3 - t2) \in 0 .. AgeCap /\ Cap(onAge + t3) \in 0 .. AgeCap
  BY <1>2, CapType
<1> QED
  BY <1>1, <1>3 DEF TypeOK, SwitchFridge, TimerStart

(* Every step keeps every variable in its type. *)
LEMMA TypeStep ==
  ASSUME TypeOK, [Next]_vars
  PROVE  TypeOK'
<1>1. ASSUME NEW d \in 0 .. MaxBusy, Elapse(d),
             pc' \in {"outer", "inner"}, command' \in Commands, rx' \in Commands \cup {NoInput},
             UNCHANGED <<oldLoopTime, relay, fridgeWaitTimerStart>>,
             UNCHANGED <<averageVars, buzzerVars>>
      PROVE  TypeOK'
  <2>1. d \in 0 .. Wrap
    BY WrapAssumption, SettingsAssumption
  <2> QED
    BY <1>1, <2>1, ElapseType DEF TypeOK, averageVars, buzzerVars
<1>2. CASE KeepCommand
  BY <1>1, <1>2 DEF KeepCommand, TypeOK
<1>3. CASE AwaitCommand
  BY <1>1, <1>3 DEF AwaitCommand, TypeOK, NoInput
<1>4. CASE Interrupt
  BY <1>1, <1>4 DEF Interrupt, TypeOK, NoInput
<1>5. ASSUME NEW raw \in RawLevels,
             NEW t1 \in 0 .. MaxBusy, NEW t2 \in 0 .. MaxBusy, NEW t3 \in 0 .. MaxBusy,
             t2 <= t3, FridgePass(raw, t1, t2, t3)
      PROVE  TypeOK'
  BY <1>5, PassType, ReadVoltageType, SwitchType, BuzzerType DEF FridgePass, TypeOK
<1>6. ASSUME NEW raw \in RawLevels, NEW busy \in 0 .. MaxBusy, MeasurePass(raw, busy)
      PROVE  TypeOK'
  BY <1>6, PassType, ReadVoltageType DEF MeasurePass, TypeOK, buzzerVars
<1>7. ASSUME NEW busy \in 0 .. MaxBusy, OtherPass(busy)
      PROVE  TypeOK'
  BY <1>7, PassType DEF OtherPass, TypeOK, averageVars, buzzerVars
<1>8. CASE Tick
  <2>1. 1 \in 0 .. Wrap
    BY WrapAssumption
  <2> QED
    BY <1>8, <2>1, ElapseType DEF Tick, TypeOK, averageVars, buzzerVars
<1>9. ASSUME NEW c \in TypedCommands, Type(c)
      PROVE  TypeOK'
  BY <1>9, SettingsAssumption DEF Type, TypeOK, averageVars, buzzerVars, Commands
<1>10. CASE UNCHANGED vars
  BY <1>10 DEF TypeOK, vars, controlVars, averageVars, buzzerVars
<1> QED
  BY <1>2, <1>3, <1>4, <1>5, <1>6, <1>7, <1>8, <1>9, <1>10 DEF Next, Sketch, ControlPass

(* The variables start in their types. *)
LEMMA TypeInit ==
  ASSUME Init
  PROVE  TypeOK
<1>1. 0 \in Millis
  BY WrapAssumption DEF Millis
<1>2. AgeCap \in 0 .. AgeCap
  BY SettingsAssumption DEF AgeCap
<1>3. 0 \in 0 .. OffTuneEnd + 1
  BY ToneAssumption DEF OffTuneEnd, OffTuneStart, OnTuneEnd
<1> QED
  BY <1>1, <1>2, <1>3 DEF Init, AverageInit, BuzzerInit, TypeOK, Commands, NoInput

(* Type correctness: whatever is typed and however the clock wraps, no       *)
(* variable leaves its type.                                                 *)
THEOREM TypeCorrect == Spec => []TypeOK
<1>1. Init => TypeOK
  BY TypeInit
<1>2. TypeOK /\ [Next]_vars => TypeOK'
  BY TypeStep
<1> QED
  BY <1>1, <1>2, PTL DEF Spec

-----------------------------------------------------------------------------
(* The switch.                                                               *)

(* A product grows with its first factor. *)
LEMMA ProductMonotone ==
  ASSUME NEW a \in Nat, NEW b \in Nat, NEW c \in Nat, a <= b
  PROVE  a * c <= b * c
OBVIOUS

(* No average is above the upper and below the lower threshold: the tests    *)
(* that turn the strip on and off never both hold in a pass.                 *)
LEMMA ThresholdsExclude ==
  ASSUME NEW average \in Nat, AboveUpper(average)
  PROVE  ~BelowLower(average)
<1>1. AverageUnit \in Nat
  BY NatArithmetic, WindowAssumption DEF AverageUnit
<1>2. LowerThreshold * AverageUnit <= UpperThreshold * AverageUnit
  BY <1>1, ProductMonotone, SettingsAssumption
<1>3. LowerThreshold * AverageUnit \in Nat /\ UpperThreshold * AverageUnit \in Nat
  BY <1>1, NatArithmetic, SettingsAssumption
<1> QED
  BY <1>2, <1>3 DEF AboveUpper, BelowLower

(* A timer that has run for long enough, read d1 ticks into a pass, leaves   *)
(* the true age saturated at the end of it.                                  *)
LEMMA LongEnoughIsOld ==
  ASSUME NEW t \in Millis, NEW start \in Millis, NEW age \in 0 .. AgeCap,
         NEW d1 \in 0 .. Wrap, NEW d3 \in 0 .. Wrap, d1 <= d3,
         start <= t => Cap(t - start) <= age,
         LongEnoughOn(FridgeTimer(Advance(t, d1), start))
  PROVE  Cap(age + d3) = AgeCap
<1>1. start <= Advance(t, d1) => Cap(Advance(t, d1) - start) <= Cap(age + d1)
  BY AgeBoundsTimer
<1>2. Advance(t, d1) \in Millis
  BY AdvanceType
<1> QED
  BY <1>1, <1>2, WrapAssumption, SettingsAssumption
  DEF Millis, LongEnoughOn, FridgeTimer, Cap, AgeCap

TurnsOn(t2, t3) ==
  /\ relay = "off" /\ relay' = "on"
  /\ AboveUpper(averageVoltage')
  /\ fridgeWaitTimerStart' = Advance(now, t2)
  /\ onAge' = Cap(t3 - t2)

TurnsOff ==
  /\ relay = "on" /\ relay' = "off"
  /\ BelowLower(averageVoltage')
  /\ UNCHANGED fridgeWaitTimerStart
  /\ onAge' = AgeCap

(* A pass in "fridge" mode turns the strip on, or turns it off with its age  *)
(* saturated, or leaves it as it is.                                         *)
LEMMA SwitchOutcome ==
  ASSUME TypeOK, TimerWithinAge, averageVoltage' \in Nat,
         NEW t1 \in 0 .. MaxBusy, NEW t2 \in 0 .. MaxBusy, NEW t3 \in 0 .. MaxBusy,
         t1 <= t2, t2 <= t3, SwitchFridge(t1, t2, t3)
  PROVE  \/ TurnsOn(t2, t3)
         \/ TurnsOff /\ onAge' = Cap(onAge + t3)
         \/ UNCHANGED <<relay, fridgeWaitTimerStart>> /\ onAge' = Cap(onAge + t3)
<1>1. t1 \in 0 .. Wrap /\ t3 \in 0 .. Wrap /\ t1 <= t3
  BY WrapAssumption, SettingsAssumption
<1>2. CASE AboveUpper(averageVoltage')
  BY <1>2, ThresholdsExclude DEF SwitchFridge, TimerStart, TurnsOn, TypeOK
<1>3. CASE ~AboveUpper(averageVoltage')
  <2>1. CASE BelowLower(averageVoltage') /\ LongEnoughOn(FridgeTimer(Advance(now, t1), fridgeWaitTimerStart))
    <3>1. Cap(onAge + t3) = AgeCap
      BY <1>1, <2>1, LongEnoughIsOld DEF TypeOK, TimerWithinAge
    <3> QED
      BY <1>3, <2>1, <3>1 DEF SwitchFridge, TimerStart, TurnsOff, TypeOK
  <2>2. CASE ~(BelowLower(averageVoltage') /\ LongEnoughOn(FridgeTimer(Advance(now, t1), fridgeWaitTimerStart)))
    BY <1>3, <2>2 DEF SwitchFridge, TimerStart
  <2> QED
    BY <2>1, <2>2
<1> QED
  BY <1>2, <1>3

(* Time passing alone keeps the timer within the age.                        *)
LEMMA TimerElapses ==
  ASSUME TypeOK, TimerWithinAge, NEW d \in 0 .. Wrap,
         now' = Advance(now, d), onAge' = Cap(onAge + d), UNCHANGED fridgeWaitTimerStart
  PROVE  TimerWithinAge'
<1>1. fridgeWaitTimerStart <= Advance(now, d) =>
        Cap(Advance(now, d) - fridgeWaitTimerStart) <= Cap(onAge + d)
  BY AgeBoundsTimer DEF TypeOK, TimerWithinAge
<1> QED
  BY <1>1 DEF TimerWithinAge

(* So does a pass that restarts the timer: start and end of the interval     *)
(* are the same distance from the start of the pass on both clocks.          *)
LEMMA TimerRestarts ==
  ASSUME NEW t \in Millis, NEW d2 \in 0 .. MaxBusy, NEW d3 \in 0 .. MaxBusy,
         d2 <= d3, Advance(t, d2) <= Advance(t, d3)
  PROVE  Advance(t, d3) - Advance(t, d2) = d3 - d2
BY WrapAssumption, SettingsAssumption DEF Millis, Advance

(* A step of the controller is, for the strip, one of these: *)
StripStep ==
  \/ \E t2, t3 \in 0 .. MaxBusy :
       t2 <= t3 /\ TurnsOn(t2, t3) /\ now' = Advance(now, t3)
  \/ \E d \in 0 .. Wrap :
       /\ UNCHANGED relay \/ TurnsOff
       /\ UNCHANGED fridgeWaitTimerStart
       /\ now' = Advance(now, d)
       /\ onAge' = Cap(onAge + d)
  \/ UNCHANGED <<relay, fridgeWaitTimerStart, now, onAge>>

(* Only a pass in "fridge" mode touches the strip. *)
LEMMA StepOfStrip ==
  ASSUME TypeOK, TimerWithinAge, [Next]_vars
  PROVE  StripStep
<1>0. /\ 0 .. MaxBusy \subseteq 0 .. Wrap
      /\ 1 \in 0 .. Wrap
  BY WrapAssumption, SettingsAssumption
<1>1. CASE KeepCommand
  BY <1>0, <1>1 DEF KeepCommand, Elapse, StripStep
<1>2. CASE AwaitCommand
  BY <1>0, <1>2 DEF AwaitCommand, Elapse, StripStep
<1>3. CASE Interrupt
  BY <1>0, <1>3 DEF Interrupt, Elapse, StripStep
<1>4. ASSUME NEW raw \in RawLevels,
             NEW t1 \in 0 .. MaxBusy, NEW t2 \in 0 .. MaxBusy, NEW t3 \in 0 .. MaxBusy,
             t1 <= t2, t2 <= t3, FridgePass(raw, t1, t2, t3)
      PROVE  StripStep
  <2>1. averageVoltage' \in Nat
    BY <1>4, ReadVoltageType DEF FridgePass
  <2>2. now' = Advance(now, t3)
    BY <1>4 DEF FridgePass, Pass
  <2>3. SwitchFridge(t1, t2, t3)
    BY <1>4 DEF FridgePass
  <2>4. \/ TurnsOn(t2, t3)
        \/ TurnsOff /\ onAge' = Cap(onAge + t3)
        \/ UNCHANGED <<relay, fridgeWaitTimerStart>> /\ onAge' = Cap(onAge + t3)
    BY <1>4, <2>1, <2>3, SwitchOutcome
  <2>5. TurnsOff => UNCHANGED fridgeWaitTimerStart
    BY DEF TurnsOff
  <2> QED
    BY <1>0, <1>4, <2>2, <2>4, <2>5 DEF StripStep
<1>5. ASSUME NEW raw \in RawLevels, NEW busy \in 0 .. MaxBusy, MeasurePass(raw, busy)
      PROVE  StripStep
  BY <1>0, <1>5 DEF MeasurePass, Pass, StripStep
<1>6. ASSUME NEW busy \in 0 .. MaxBusy, OtherPass(busy)
      PROVE  StripStep
  BY <1>0, <1>6 DEF OtherPass, Pass, StripStep
<1>7. CASE Tick
  BY <1>0, <1>7 DEF Tick, Elapse, StripStep
<1>8. ASSUME NEW c \in TypedCommands, Type(c)
      PROVE  StripStep
  BY <1>8 DEF Type, StripStep
<1>9. CASE UNCHANGED vars
  BY <1>9 DEF vars, controlVars, StripStep
<1> QED
  BY <1>1, <1>2, <1>3, <1>4, <1>5, <1>6, <1>7, <1>8, <1>9 DEF Next, Sketch, ControlPass

(* The timer stays within the age across every step.                         *)
LEMMA TimerStep ==
  ASSUME TypeOK, TimerWithinAge, StripStep
  PROVE  TimerWithinAge'
<1>1. ASSUME NEW t2 \in 0 .. MaxBusy, NEW t3 \in 0 .. MaxBusy,
             t2 <= t3, TurnsOn(t2, t3), now' = Advance(now, t3)
      PROVE  TimerWithinAge'
  <2>1. Advance(now, t2) <= Advance(now, t3) => Advance(now, t3) - Advance(now, t2) = t3 - t2
    BY <1>1, TimerRestarts DEF TypeOK
  <2>2. Cap(t3 - t2) \in 0 .. AgeCap
    BY <1>1, CapType, SettingsAssumption
  <2> QED
    BY <1>1, <2>1, <2>2, SettingsAssumption DEF TimerWithinAge, TurnsOn, AgeCap
<1>2. ASSUME NEW d \in 0 .. Wrap, now' = Advance(now, d), onAge' = Cap(onAge + d),
             UNCHANGED fridgeWaitTimerStart
      PROVE  TimerWithinAge'
  BY <1>2, TimerElapses
<1>3. CASE UNCHANGED <<relay, fridgeWaitTimerStart, now, onAge>>
  BY <1>3 DEF TimerWithinAge
<1> QED
  BY <1>1, <1>2, <1>3 DEF StripStep

(* The timer invariant together with the types it needs is inductive.        *)
SwitchInv == TypeOK /\ TimerWithinAge

(* It holds in every reachable state. *)
LEMMA SwitchInvariant == Spec => []SwitchInv
<1>1. Init => SwitchInv
  <2>1. ASSUME Init
        PROVE  TimerWithinAge
    BY <2>1, SettingsAssumption DEF Init, TimerWithinAge, Cap, AgeCap
  <2> QED
    BY <2>1, TypeInit DEF SwitchInv
<1>2. SwitchInv /\ [Next]_vars => SwitchInv'
  BY TypeStep, StepOfStrip, TimerStep DEF SwitchInv
<1> QED
  BY <1>1, <1>2, PTL DEF Spec

(* The fridge timer never claims more than the true on-time, whatever the    *)
(* wraps of millis() between the turn-on and now.                            *)
THEOREM TimerNeverAhead == Spec => []TimerWithinAge
<1>1. SwitchInv => TimerWithinAge
  BY DEF SwitchInv
<1> QED
  BY <1>1, SwitchInvariant, PTL

(* Once turned on, the fridge is left on for longer than MinOnTime.          *)
THEOREM LeftOnLongEnough == Spec => MinimumOnTime
<1>1. ASSUME SwitchInv, [Next]_vars, relay = "on", relay' = "off"
      PROVE  onAge' > MinOnTime
  <2>1. StripStep
    BY <1>1, StepOfStrip DEF SwitchInv
  <2>2. TurnsOff
    BY <1>1, <2>1 DEF StripStep, TurnsOn
  <2> QED
    BY <2>2, SettingsAssumption DEF TurnsOff, AgeCap
<1>2. SwitchInv /\ [Next]_vars =>
        [relay = "on" /\ relay' = "off" => onAge' > MinOnTime]_vars
  BY <1>1
<1> QED
  BY <1>2, SwitchInvariant, PTL DEF Spec, MinimumOnTime

(* The age of the abstract switch only grows while the strip is left alone.  *)
LEMMA AgeGrows ==
  ASSUME NEW age \in 0 .. AgeCap, NEW d \in Nat
  PROVE  Cap(age + d) \in age .. MinOnTime + 1
BY SettingsAssumption DEF Cap, AgeCap

(* The controller implements the switch with hysteresis and a minimum        *)
(* on-time, in every mode and under any typing.                              *)
THEOREM Implementation == Spec => ImplementsSwitch
<1>1. ASSUME Init
      PROVE  Switch!SwitchInit
  BY <1>1, SettingsAssumption DEF Init, AverageInit, Switch!SwitchInit, AgeCap
<1>2. ASSUME SwitchInv, SwitchInv', [Next]_vars
      PROVE  [Switch!SwitchNext]_(Switch!switchVars)
  <2>1. StripStep
    BY <1>2, StepOfStrip DEF SwitchInv
  <2>2. ASSUME NEW t2 \in 0 .. MaxBusy, NEW t3 \in 0 .. MaxBusy, t2 <= t3, TurnsOn(t2, t3)
        PROVE  Switch!TurnOn
    <3>1. onAge' \in 0 .. MinOnTime + 1
      BY <1>2 DEF SwitchInv, TypeOK, AgeCap
    <3> QED
      BY <2>2, <3>1 DEF TurnsOn, Switch!TurnOn, AboveUpper
  <2>3. ASSUME TurnsOff
        PROVE  Switch!TurnOff
    BY <2>3 DEF TurnsOff, Switch!TurnOff, BelowLower, AgeCap
  <2>4. ASSUME NEW d \in 0 .. Wrap, UNCHANGED relay, onAge' = Cap(onAge + d)
        PROVE  Switch!Hold
    <3>1. onAge' \in onAge .. MinOnTime + 1
      BY <1>2, <2>4, AgeGrows, WrapAssumption DEF SwitchInv, TypeOK
    <3> QED
      BY <1>2, <2>4, <3>1 DEF SwitchInv, TypeOK, Switch!Hold
  <2>5. ASSUME UNCHANGED <<relay, fridgeWaitTimerStart, now, onAge>>
        PROVE  Switch!Hold
    <3>1. onAge' \in onAge .. MinOnTime + 1
      BY <1>2, <2>5, SettingsAssumption DEF SwitchInv, TypeOK, AgeCap
    <3> QED
      BY <1>2, <2>5, <3>1 DEF SwitchInv, TypeOK, Switch!Hold
  <2> QED
    BY <2>1, <2>2, <2>3, <2>4, <2>5 DEF StripStep, Switch!SwitchNext
<1>3. SwitchInv /\ SwitchInv' /\ [Next]_vars => [Switch!SwitchNext]_(Switch!switchVars)
  BY <1>2
<1> QED
  BY <1>1, <1>3, SwitchInvariant, PTL DEF Spec, ImplementsSwitch, Switch!SwitchSpec

-----------------------------------------------------------------------------
(* The averages stay within what the divider can deliver.                    *)

(* No sample exceeds the top voltage, in either mode. *)
LEMMA SampleBound ==
  ASSUME NEW mode, NEW raw \in RawLevels
  PROVE  TopVoltage \in Nat /\ Gain(mode) * raw <= TopVoltage
<1>1. /\ Gain(mode) \in Nat /\ Gain(mode) <= MeasureGain /\ MeasureGain \in Nat
      /\ raw \in Nat /\ raw <= RawMax /\ RawMax \in Nat
  BY GainAssumption DEF Gain
<1>2. Gain(mode) * raw <= MeasureGain * raw
  BY <1>1, ProductMonotone
<1>3. raw * MeasureGain <= RawMax * MeasureGain
  BY <1>1, ProductMonotone
<1>4. raw * MeasureGain = MeasureGain * raw /\ RawMax * MeasureGain = MeasureGain * RawMax
  BY <1>1
<1>5. Gain(mode) * raw \in Nat /\ MeasureGain * raw \in Nat /\ MeasureGain * RawMax \in Nat
  BY <1>1, NatArithmetic
<1> QED
  BY <1>2, <1>3, <1>4, <1>5 DEF TopVoltage

(* One more sample raises the bound on the sum by one top voltage. *)
LEMMA SumBound ==
  ASSUME NEW counter \in Nat, NEW sum \in Nat, NEW sample \in Nat, NEW top \in Nat,
         sum <= counter * top, sample <= top
  PROVE  sum + sample <= (counter + 1) * top
OBVIOUS

(* The mean of w samples, in units of 1 / (w * v), is within the bound.      *)
LEMMA MeanBound ==
  ASSUME NEW sum \in Nat, NEW w \in Nat, NEW v \in Nat, NEW top \in Nat,
         sum <= w * top
  PROVE  /\ sum * v <= (w * v) * top
         /\ sum * v <= (v * w) * top
<1>1. w * top \in Nat
  BY NatArithmetic
<1>2. sum * v <= (w * top) * v
  BY <1>1, ProductMonotone
<1>3. (w * top) * v = (w * v) * top /\ (w * top) * v = (v * w) * top
  OBVIOUS
<1> QED
  BY <1>2, <1>3

(* A sample taken in either mode keeps counter, sum and average in bounds.   *)
LEMMA AverageStep ==
  ASSUME TypeOK, AverageWithinSamples,
         NEW mode \in {"fridge", "measure"}, NEW raw \in RawLevels, ReadVoltage(mode, raw)
  PROVE  AverageWithinSamples'
<1> DEFINE sample == Gain(mode) * raw
<1>1. /\ sample \in Nat /\ TopVoltage \in Nat /\ sample <= TopVoltage
      /\ batteryVoltage' = sample
  BY SampleType, SampleBound DEF ReadVoltage
<1>2. /\ averageVoltCounter \in Nat /\ voltageSumUp \in Nat
      /\ voltageSumUp <= averageVoltCounter * TopVoltage
      /\ averageVoltCounter < FridgeWindow
  BY DEF TypeOK, AverageWithinSamples
<1>3. voltageSumUp + sample <= (averageVoltCounter + 1) * TopVoltage
  BY <1>1, <1>2, SumBound
<1> HIDE DEF sample
<1>4. CASE PublishAverage(mode, sample)
  <2>1. /\ voltageSumUp + sample \in Nat /\ Window(mode) \in Nat
        /\ voltageSumUp + sample <= Window(mode) * TopVoltage
    BY <1>1, <1>2, <1>3, <1>4, NatArithmetic, WindowAssumption DEF PublishAverage, Window
  <2>2. CASE mode = "fridge"
    BY <1>1, <1>4, <2>1, <2>2, MeanBound, WindowAssumption
    DEF PublishAverage, Average, AverageUnit, AverageWithinSamples, Window, TopVoltage
  <2>3. CASE mode = "measure"
    BY <1>1, <1>4, <2>1, <2>3, MeanBound, WindowAssumption
    DEF PublishAverage, Average, AverageUnit, AverageWithinSamples, Window, TopVoltage
  <2> QED
    BY <2>2, <2>3
<1>5. CASE Accumulate(mode, sample)
  <2>1. averageVoltCounter + 1 < FridgeWindow
    BY <1>2, <1>5, WindowAssumption DEF Accumulate, Counting, Window
  <2> QED
    BY <1>3, <1>5, <2>1 DEF Accumulate, AverageWithinSamples, TopVoltage
<1>6. CASE DropSample(mode)
  BY <1>6 DEF DropSample, AverageWithinSamples, TopVoltage
<1> QED
  BY <1>1, <1>4, <1>5, <1>6 DEF ReadVoltage

(* Only the sampling passes touch the averages. *)
LEMMA StepOfAverage ==
  ASSUME [Next]_vars
  PROVE  \/ UNCHANGED averageVars
         \/ \E mode \in {"fridge", "measure"}, raw \in RawLevels : ReadVoltage(mode, raw)
<1>1. ASSUME NEW raw \in RawLevels, NEW t1, NEW t2, NEW t3, FridgePass(raw, t1, t2, t3)
      PROVE  ReadVoltage("fridge", raw)
  BY <1>1 DEF FridgePass
<1>2. ASSUME NEW raw \in RawLevels, NEW busy, MeasurePass(raw, busy)
      PROVE  ReadVoltage("measure", raw)
  BY <1>2 DEF MeasurePass
<1>3. ASSUME KeepCommand \/ AwaitCommand \/ Interrupt \/ Tick
      PROVE  UNCHANGED averageVars
  BY <1>3 DEF KeepCommand, AwaitCommand, Interrupt, Tick
<1>4. ASSUME NEW busy, OtherPass(busy)
      PROVE  UNCHANGED averageVars
  BY <1>4 DEF OtherPass, averageVars
<1>5. ASSUME NEW c, Type(c)
      PROVE  UNCHANGED averageVars
  BY <1>5 DEF Type
<1>6. ASSUME UNCHANGED vars
      PROVE  UNCHANGED averageVars
  BY <1>6 DEF vars
<1> QED
  BY <1>1, <1>2, <1>3, <1>4, <1>5, <1>6 DEF Next, Sketch, ControlPass

(* No published average exceeds what the divider can deliver, whatever the   *)
(* changes of mode in mid-window.                                            *)
THEOREM AverageBounded == Spec => []AverageWithinSamples
<1>1. Init => AverageWithinSamples
  <2>1. 0 <= AverageUnit * TopVoltage /\ 0 <= 0 * TopVoltage
    BY NatArithmetic, WindowAssumption, GainAssumption DEF AverageUnit, TopVoltage
  <2> QED
    BY <2>1, WindowAssumption DEF Init, AverageInit, AverageWithinSamples
<1>2. TypeOK /\ AverageWithinSamples /\ [Next]_vars => AverageWithinSamples'
  <2> SUFFICES ASSUME TypeOK, AverageWithinSamples, [Next]_vars
               PROVE  AverageWithinSamples'
    OBVIOUS
  <2>1. CASE UNCHANGED averageVars
    BY <2>1 DEF averageVars, AverageWithinSamples, TopVoltage
  <2> QED
    BY <2>1, StepOfAverage, AverageStep
<1> QED
  BY <1>1, <1>2, TypeCorrect, PTL DEF Spec

-----------------------------------------------------------------------------
(* The buzzer knows the strip. *)

(* Only a pass in "fridge" mode touches the strip or the buzzer, and it runs *)
(* the buzzer's section on the strip as it leaves it.                        *)
LEMMA StepOfBuzzer ==
  ASSUME [Next]_vars
  PROVE  (UNCHANGED buzzerVars /\ UNCHANGED relay) \/ BuzzerPass(relay' = "on")
<1>1. ASSUME NEW raw, NEW t1, NEW t2, NEW t3, FridgePass(raw, t1, t2, t3)
      PROVE  BuzzerPass(relay' = "on")
  BY <1>1 DEF FridgePass
<1>2. ASSUME NEW raw, NEW busy, MeasurePass(raw, busy)
      PROVE  UNCHANGED buzzerVars /\ UNCHANGED relay
  BY <1>2 DEF MeasurePass, buzzerVars
<1>3. ASSUME KeepCommand \/ AwaitCommand \/ Interrupt \/ Tick
      PROVE  UNCHANGED buzzerVars /\ UNCHANGED relay
  BY <1>3 DEF KeepCommand, AwaitCommand, Interrupt, Tick
<1>4. ASSUME NEW busy, OtherPass(busy)
      PROVE  UNCHANGED buzzerVars /\ UNCHANGED relay
  BY <1>4 DEF OtherPass, buzzerVars
<1>5. ASSUME NEW c, Type(c)
      PROVE  UNCHANGED buzzerVars /\ UNCHANGED relay
  BY <1>5 DEF Type
<1>6. ASSUME UNCHANGED vars
      PROVE  UNCHANGED buzzerVars /\ UNCHANGED relay
  BY <1>6 DEF vars, controlVars
<1> QED
  BY <1>1, <1>2, <1>3, <1>4, <1>5, <1>6 DEF Next, Sketch, ControlPass

(* Between passes the buzzer's memory of the strip is right, and a sounding  *)
(* buzzer has its silencing step ahead, whatever modes run in between.       *)
THEOREM BuzzerFollowsStrip == Spec => []BuzzerConsistent
<1>1. Init => BuzzerConsistent
  BY DEF Init, BuzzerInit, BuzzerConsistent
<1>2. TypeOK /\ BuzzerConsistent /\ [Next]_vars => BuzzerConsistent'
  <2> SUFFICES ASSUME TypeOK, BuzzerConsistent, [Next]_vars
               PROVE  BuzzerConsistent'
    OBVIOUS
  <2>1. CASE UNCHANGED buzzerVars /\ UNCHANGED relay
    BY <2>1 DEF buzzerVars, BuzzerConsistent, Playing, AtTuneEnd
  <2>2. CASE BuzzerPass(relay' = "on")
    <3> DEFINE s == AfterEdge(relay' = "on")
    <3>1. lastLoopPStrip' = (relay' = "on")
      BY <2>2 DEF BuzzerPass
    <3>2. s \in 0 .. OffTuneEnd + 1
      BY ToneAssumption
      DEF TypeOK, AfterEdge, OnTuneStart, OnTuneEnd, OffTuneStart, OffTuneEnd
    <3>3. \/ Playing(s) /\ buzzerState' = s + 1
          \/ ~sounding'
          \/ ~Playing(s) /\ ~AtTuneEnd(s) /\ buzzerState' = s /\ sounding' = sounding
      BY <2>2 DEF BuzzerPass
    <3>4. ~Playing(s) /\ ~AtTuneEnd(s) => s = buzzerState
      <4>1. Playing(OnTuneStart) /\ Playing(OffTuneStart)
        BY ToneAssumption DEF Playing, OnTuneStart, OnTuneEnd, OffTuneStart, OffTuneEnd
      <4> QED
        BY <4>1 DEF AfterEdge
    <3> HIDE DEF s
    <3>5. sounding' => Playing(buzzerState') \/ AtTuneEnd(buzzerState')
      BY <3>2, <3>3, <3>4, TuneStep DEF BuzzerConsistent
    <3> QED
      BY <3>1, <3>5 DEF BuzzerConsistent, Playing, AtTuneEnd
  <2> QED
    BY <2>1, <2>2, StepOfBuzzer
<1> QED
  BY <1>1, <1>2, TypeCorrect, PTL DEF Spec

-----------------------------------------------------------------------------
(* The "on" tune, when nothing is measured in "measure" mode. *)

OneWindow == "measure" \notin TypedCommands /\ 3 * ToneLength < FridgeWindow

(* A tune that is under way began with the window, at an average above the   *)
(* upper threshold, and the strip is on whenever the average is there.       *)
TuneInv ==
  /\ "measure" \notin {command, rx}
  /\ AboveUpper(averageVoltage) => relay = "on"
  /\ OnTuneUnderWay => AboveUpper(averageVoltage) /\ buzzerState = averageVoltCounter + 2

(* Strip, buzzer and average move in a "fridge" pass only. *)
LEMMA StepOfFridgeMode ==
  ASSUME OneWindow, TuneInv, [Next]_vars
  PROVE  /\ "measure" \notin {command', rx'}
         /\ \/ UNCHANGED <<relay, averageVars, buzzerVars>>
            \/ \E raw \in RawLevels, t1, t2, t3 \in 0 .. MaxBusy :
                 /\ ReadVoltage("fridge", raw)
                 /\ SwitchFridge(t1, t2, t3)
                 /\ BuzzerPass(relay' = "on")
<1> USE DEF TuneInv
<1>1. ASSUME KeepCommand \/ Tick
      PROVE  UNCHANGED <<command, rx, relay, averageVars, buzzerVars>>
  BY <1>1 DEF KeepCommand, Tick
<1>2. ASSUME AwaitCommand \/ Interrupt
      PROVE  "measure" \notin {command', rx'} /\ UNCHANGED <<relay, averageVars, buzzerVars>>
  BY <1>2 DEF AwaitCommand, Interrupt, NoInput
<1>3. ASSUME NEW raw \in RawLevels,
             NEW t1 \in 0 .. MaxBusy, NEW t2 \in 0 .. MaxBusy, NEW t3 \in 0 .. MaxBusy,
             FridgePass(raw, t1, t2, t3)
      PROVE  /\ UNCHANGED <<command, rx>> /\ ReadVoltage("fridge", raw)
             /\ SwitchFridge(t1, t2, t3) /\ BuzzerPass(relay' = "on")
  BY <1>3 DEF FridgePass, Pass
<1>4. ASSUME NEW raw, NEW busy, MeasurePass(raw, busy)
      PROVE  FALSE
  BY <1>4 DEF MeasurePass
<1>5. ASSUME NEW busy, OtherPass(busy)
      PROVE  UNCHANGED <<command, rx, relay, averageVars, buzzerVars>>
  BY <1>5 DEF OtherPass, Pass
<1>6. ASSUME NEW c \in TypedCommands, Type(c)
      PROVE  "measure" \notin {command', rx'} /\ UNCHANGED <<relay, averageVars, buzzerVars>>
  BY <1>6 DEF Type, OneWindow
<1>7. ASSUME UNCHANGED vars
      PROVE  UNCHANGED <<command, rx, relay, averageVars, buzzerVars>>
  BY <1>7 DEF vars, controlVars
<1> QED
  BY <1>1, <1>2, <1>3, <1>4, <1>5, <1>6, <1>7 DEF Next, Sketch, ControlPass

(* A pass during the tune comes before the window is full: the average and   *)
(* the strip stay and the tune goes on.                                      *)
LEMMA PassInTune ==
  ASSUME OneWindow, TypeOK, TuneInv, BuzzerConsistent, OnTuneUnderWay,
         NEW raw \in RawLevels,
         NEW t1 \in 0 .. MaxBusy, NEW t2 \in 0 .. MaxBusy, NEW t3 \in 0 .. MaxBusy,
         ReadVoltage("fridge", raw), SwitchFridge(t1, t2, t3), BuzzerPass(relay' = "on")
  PROVE  /\ relay' = "on" /\ averageVoltage' = averageVoltage
         /\ averageVoltCounter' = averageVoltCounter + 1
         /\ buzzerState' = buzzerState + 1
<1>1. averageVoltCounter + 1 < FridgeWindow /\ averageVoltCounter \in Nat
  BY ToneAssumption, WindowAssumption
  DEF OneWindow, TypeOK, TuneInv, OnTuneUnderWay, OnTuneStart, OnTuneEnd
<1>2. averageVoltage' = averageVoltage /\ averageVoltCounter' = averageVoltCounter + 1
  BY <1>1, WindowAssumption
  DEF ReadVoltage, PublishAverage, Accumulate, DropSample, Counting, Window
<1>3. relay = "on" /\ AboveUpper(averageVoltage') /\ ~BelowLower(averageVoltage')
  BY <1>2, ThresholdsExclude DEF TuneInv, TypeOK
<1>4. relay' = "on"
  BY <1>3 DEF SwitchFridge
<1>5. AfterEdge(TRUE) = buzzerState
  BY <1>3 DEF AfterEdge, BuzzerConsistent
<1>6. Playing(buzzerState) \/ AtTuneEnd(buzzerState)
  BY ToneAssumption DEF TypeOK, OnTuneUnderWay, Playing, AtTuneEnd, OnTuneStart, OnTuneEnd
<1>7. buzzerState' = buzzerState + 1
  <2>1. BuzzerPass(TRUE)
    BY <1>4
  <2> QED
    BY <1>5, <1>6, <2>1 DEF BuzzerPass
<1> QED
  BY <1>2, <1>4, <1>7

(* A pass outside the tune begins it only with a new average.                *)
LEMMA PassBeforeTune ==
  ASSUME OneWindow, TypeOK, TuneInv, BuzzerConsistent, AverageWithinSamples, ~OnTuneUnderWay,
         NEW raw \in RawLevels,
         NEW t1 \in 0 .. MaxBusy, NEW t2 \in 0 .. MaxBusy, NEW t3 \in 0 .. MaxBusy,
         ReadVoltage("fridge", raw), SwitchFridge(t1, t2, t3), BuzzerPass(relay' = "on")
  PROVE  /\ AboveUpper(averageVoltage') => relay' = "on"
         /\ OnTuneUnderWay' => /\ AboveUpper(averageVoltage')
                               /\ buzzerState' = averageVoltCounter' + 2
<1>1. AboveUpper(averageVoltage') => ~BelowLower(averageVoltage')
  BY ReadVoltageType, ThresholdsExclude
<1>2. AboveUpper(averageVoltage') => relay' = "on"
  BY <1>1 DEF SwitchFridge, TypeOK
<1>3. relay = "off" /\ relay' = "on" => AboveUpper(averageVoltage') /\ averageVoltCounter' = 0
  <2> SUFFICES ASSUME relay = "off", relay' = "on"
               PROVE  AboveUpper(averageVoltage') /\ averageVoltCounter' = 0
    OBVIOUS
  <2>1. AboveUpper(averageVoltage')
    BY DEF SwitchFridge
  <2>2. averageVoltage' # averageVoltage
    BY <2>1 DEF TuneInv
  <2>3. averageVoltCounter' = 0
    BY <2>2 DEF ReadVoltage, PublishAverage, Accumulate, DropSample
  <2> QED
    BY <2>1, <2>3
<1>4. CASE relay = "off" /\ relay' = "on"
  <2>1. BuzzerPass(TRUE)
    BY <1>4
  <2>2. AfterEdge(TRUE) = OnTuneStart
    BY <1>4 DEF AfterEdge, BuzzerConsistent
  <2>3. Playing(OnTuneStart) /\ ~AtTuneEnd(OnTuneStart) /\ OnTuneStart + 1 = 2
    BY ToneAssumption DEF Playing, AtTuneEnd, OnTuneStart, OnTuneEnd, OffTuneEnd, OffTuneStart
  <2>4. buzzerState' = 2
    BY <2>1, <2>2, <2>3 DEF BuzzerPass
  <2> QED
    BY <1>2, <1>3, <1>4, <2>4
<1>5. CASE relay = "on" \/ relay' # "on"
  <2>1. AfterEdge(relay' = "on") \in {buzzerState, OffTuneStart}
    BY <1>5 DEF AfterEdge, BuzzerConsistent
  <2>2. AfterEdge(relay' = "on") \in Nat /\ AfterEdge(relay' = "on") \notin OnTuneStart .. OnTuneEnd
    BY <2>1, ToneAssumption DEF TypeOK, OnTuneUnderWay, OnTuneStart, OnTuneEnd, OffTuneStart
  <2>3. \/ buzzerState' = AfterEdge(relay' = "on")
        \/ /\ buzzerState' = AfterEdge(relay' = "on") + 1
           /\ Playing(AfterEdge(relay' = "on")) \/ AtTuneEnd(AfterEdge(relay' = "on"))
    BY DEF BuzzerPass
  <2>4. ~OnTuneUnderWay'
    BY <2>2, <2>3, ToneAssumption
    DEF OnTuneUnderWay, Playing, AtTuneEnd, OnTuneStart, OnTuneEnd, OffTuneStart, OffTuneEnd
  <2> QED
    BY <1>2, <2>4
<1> QED
  BY <1>4, <1>5 DEF TypeOK

(* The "on" tune is played to its end: OnTunePlayedWhole, for any commands   *)
(* but "measure", which may publish an average in the middle of the tune,    *)
(* and any tone that fits a third of the window (10 passes against 100).     *)
THEOREM OnTuneWhole ==
  ASSUME OneWindow
  PROVE  Spec => OnTunePlayedWhole
<1> DEFINE Inv == TypeOK /\ BuzzerConsistent /\ AverageWithinSamples
<1>1. Init => TuneInv
  <2>1. UpperThreshold * AverageUnit \in Nat
    BY SettingsAssumption, WindowAssumption, NatArithmetic DEF AverageUnit
  <2>2. Init => ~AboveUpper(averageVoltage)
    BY <2>1 DEF Init, AverageInit, AboveUpper
  <2> QED
    BY <2>2, ToneAssumption
    DEF Init, BuzzerInit, TuneInv, NoInput, OnTuneUnderWay, OnTuneStart, OnTuneEnd
<1>2. ASSUME Inv, TuneInv, [Next]_vars
      PROVE  TuneInv' /\ (OnTuneUnderWay => buzzerState' \in {buzzerState, buzzerState + 1})
  <2>1. "measure" \notin {command', rx'}
    BY <1>2, StepOfFridgeMode
  <2>2. CASE UNCHANGED <<relay, averageVars, buzzerVars>>
    BY <1>2, <2>1, <2>2 DEF TuneInv, averageVars, buzzerVars, AboveUpper, OnTuneUnderWay
  <2>3. ASSUME NEW raw \in RawLevels,
               NEW t1 \in 0 .. MaxBusy, NEW t2 \in 0 .. MaxBusy, NEW t3 \in 0 .. MaxBusy,
               ReadVoltage("fridge", raw), SwitchFridge(t1, t2, t3), BuzzerPass(relay' = "on")
        PROVE  TuneInv' /\ (OnTuneUnderWay => buzzerState' \in {buzzerState, buzzerState + 1})
    <3>1. CASE OnTuneUnderWay
      <4>1. /\ relay' = "on" /\ averageVoltage' = averageVoltage
            /\ averageVoltCounter' = averageVoltCounter + 1
            /\ buzzerState' = buzzerState + 1
        BY <1>2, <2>3, <3>1, PassInTune
      <4>2. AboveUpper(averageVoltage') /\ buzzerState' = averageVoltCounter' + 2
        BY <1>2, <3>1, <4>1 DEF TuneInv, TypeOK
      <4> QED
        BY <2>1, <4>1, <4>2 DEF TuneInv, AboveUpper
    <3>2. CASE ~OnTuneUnderWay
      <4>1. /\ AboveUpper(averageVoltage') => relay' = "on"
            /\ OnTuneUnderWay' => /\ AboveUpper(averageVoltage')
                                  /\ buzzerState' = averageVoltCounter' + 2
        BY <1>2, <2>3, <3>2, PassBeforeTune
      <4> QED
        BY <2>1, <3>2, <4>1 DEF TuneInv, AboveUpper
    <3> QED
      BY <3>1, <3>2
  <2> QED
    BY <1>2, <2>2, <2>3, StepOfFridgeMode
<1>3. Inv /\ TuneInv /\ [Next]_vars => TuneInv'
  BY <1>2
<1>4. Inv /\ TuneInv /\ [Next]_vars =>
        [OnTuneUnderWay => buzzerState' \in {buzzerState, buzzerState + 1}]_vars
  BY <1>2
<1> QED
  BY <1>1, <1>3, <1>4, TypeCorrect, BuzzerFollowsStrip, AverageBounded, PTL
  DEF Spec, OnTunePlayedWhole
=============================================================================
