-------------------------- MODULE FridgeController --------------------------
(***************************************************************************)
(* The fridge controller of the main house (master-arduino) and of the     *)
(* back porch (backporch-arduino): one program with two sets of settings.  *)
(*                                                                         *)
(* loop() asks for a command and then runs the "inner" real-time loop,     *)
(* which polls the serial line and, once per LoopInterval, runs a pass in  *)
(* the mode the command names.  A pass is one action: the sketch is single *)
(* threaded and nothing else writes its variables.  What does interleave   *)
(* with it is the operator typing and time passing; a pass reads millis()  *)
(* up to four times, so the durations between its readings are parameters. *)
(***************************************************************************)
EXTENDS MillisClock, VoltageAverage, PowerStripBuzzer

CONSTANTS
  LoopInterval,      \* controlLoopInterval, 120
  MinOnTime,         \* 180000 in the test that turns the fridge off
  MaxBusy,           \* longest time one pass or one dialogue takes
  UpperThreshold,    \* fridgeUpperVoltageThreshold, in steps of a volt
  LowerThreshold,    \* fridgeLowerVoltageThreshold
  DefaultSwitch,     \* keep the last command instead of waiting for one
  TypedCommands      \* what the operator may type

(* "m" and "f" mean "measure" and "fridge"; whatever is none of the known    *)
(* words is "other".                                                         *)
Commands == {"fridge", "measure", "idle", "stop", "other"}
NoInput == "none"

ASSUME SettingsAssumption ==
  /\ LoopInterval \in Nat \ {0}
  /\ MinOnTime \in Nat
  /\ MaxBusy \in Nat
  /\ MaxBusy < Wrap
  /\ UpperThreshold \in Nat
  /\ LowerThreshold \in Nat
  /\ LowerThreshold <= UpperThreshold
  /\ DefaultSwitch \in BOOLEAN
  /\ TypedCommands \subseteq Commands

VARIABLES
  pc,                    \* "outer" in loop(), "inner" in the real-time loop
  command,
  rx,                    \* what Serial.readString() would return, or NoInput
  now,                   \* millis()
  oldLoopTime,           \* start of the last pass
  relay,                 \* level of PWR_STRIP, "on" for HIGH
  fridgeWaitTimerStart,  \* millis() when the fridge was last turned on
  onAge                  \* history: true time since the fridge was turned on,
                         \*   counted up to MinOnTime + 1

controlVars == <<pc, command, rx, now, oldLoopTime, relay, fridgeWaitTimerStart, onAge>>
vars == <<controlVars, averageVars, buzzerVars>>

AgeCap == MinOnTime + 1
Cap(age) == IF age < AgeCap THEN age ELSE AgeCap

Init ==
  /\ pc = "outer"
  /\ command = "fridge"
  /\ rx = NoInput
  /\ now = 0
  /\ oldLoopTime = 0
  /\ relay = "off"
  /\ fridgeWaitTimerStart = 0
  /\ onAge = AgeCap
  /\ AverageInit
  /\ BuzzerInit

(* d ticks go by without the strip being turned on. *)
Elapse(d) ==
  /\ now' = Advance(now, d)
  /\ onAge' = Cap(onAge + d)

-----------------------------------------------------------------------------
(* loop(): the dialogue with the operator.                                   *)

(* getOperatorInput with defaultSwitch set keeps the command; the inner loop *)
(* is entered unless that command is "stop".                                 *)
KeepCommand ==
  /\ pc = "outer"
  /\ DefaultSwitch
  /\ command # "stop"
  /\ pc' = "inner"
  /\ \E d \in 0 .. MaxBusy : Elapse(d)
  /\ UNCHANGED <<command, rx, oldLoopTime, relay, fridgeWaitTimerStart>>
  /\ UNCHANGED <<averageVars, buzzerVars>>

(* Mutant of AwaitCommand: the test of defaultSwitch is inverted. *)
AwaitCommandInverted ==
  /\ pc = "outer"
  /\ DefaultSwitch
  /\ rx # NoInput
  /\ command' = rx
  /\ rx' = NoInput
  /\ pc' = IF command' = "stop" THEN "outer" ELSE "inner"
  /\ \E d \in 0 .. MaxBusy : Elapse(d)
  /\ UNCHANGED <<oldLoopTime, relay, fridgeWaitTimerStart>>
  /\ UNCHANGED <<averageVars, buzzerVars>>

(* Without it the sketch waits for a line and takes it as the new command. *)
AwaitCommand ==
  /\ pc = "outer"
  /\ ~DefaultSwitch
  /\ rx # NoInput
  /\ command' = rx
  /\ rx' = NoInput
  /\ pc' = IF command' = "stop" THEN "outer" ELSE "inner"
  /\ \E d \in 0 .. MaxBusy : Elapse(d)
  /\ UNCHANGED <<oldLoopTime, relay, fridgeWaitTimerStart>>
  /\ UNCHANGED <<averageVars, buzzerVars>>

(* The head of the inner loop finds operator input: it leaves the loop with  *)
(* that input as the command.                                                *)
Interrupt ==
  /\ pc = "inner"
  /\ rx # NoInput
  /\ command' = rx
  /\ rx' = NoInput
  /\ pc' = "outer"
  /\ \E d \in 0 .. MaxBusy : Elapse(d)
  /\ UNCHANGED <<oldLoopTime, relay, fridgeWaitTimerStart>>
  /\ UNCHANGED <<averageVars, buzzerVars>>

-----------------------------------------------------------------------------
(* The passes of the real-time loop.                                         *)

Due == Since(now, oldLoopTime) >= LoopInterval

(* Start and end of a pass that ends `busy` ticks after it started: the time *)
(* stamp and where control goes.  The loop is left after an unknown command  *)
(* and when the pass overran its interval.                                   *)
Pass(busy) ==
  /\ pc = "inner"
  /\ rx = NoInput
  /\ Due
  /\ oldLoopTime' = now
  /\ now' = Advance(now, busy)
  /\ pc' = IF command = "other" \/ busy > LoopInterval THEN "outer" ELSE "inner"
  /\ UNCHANGED <<command, rx>>

(* The three settings of the switch, each in its own test of the code.       *)
AboveUpper(average) == average > UpperThreshold * AverageUnit
BelowLower(average) == average < LowerThreshold * AverageUnit

(* Mutant of TimerStart: turning the strip on does not restart the timer. *)
TimerStartKept(turnOn, t) == fridgeWaitTimerStart

(* fridgeWaitTimerStart after the test that turns the strip on, t ticks into *)
(* the pass.                                                                 *)
TimerStart(turnOn, t) == IF turnOn THEN Advance(now, t) ELSE fridgeWaitTimerStart

(* Mutant of FridgeTimer: the guard compares the wrong way round. *)
FridgeTimerSwapped(currentTime, start) ==
  IF start < currentTime THEN 0 ELSE currentTime - start

(* fridgeTimer: how long the fridge has been on, as the code computes it.    *)
FridgeTimer(currentTime, start) ==
  IF start > currentTime THEN 0 ELSE currentTime - start

(* Mutant of LongEnoughOn: off by one. *)
LongEnoughOnGe(fridgeTimer) == fridgeTimer >= MinOnTime

LongEnoughOn(fridgeTimer) == fridgeTimer > MinOnTime

(* SWITCH FRIDGE BASED ON VOLTAGE.  currentTime is read t1 and, if the strip *)
(* is turned on, the start of the timer t2 ticks into a pass of t3 ticks.    *)
SwitchFridge(t1, t2, t3) ==
  LET turnOn  == AboveUpper(averageVoltage') /\ relay = "off"
      start   == TimerStart(turnOn, t2)
      timer   == FridgeTimer(Advance(now, t1), start)
      turnOff == BelowLower(averageVoltage') /\ LongEnoughOn(timer)
  IN /\ fridgeWaitTimerStart' = start
     /\ relay' = IF turnOff THEN "off" ELSE IF turnOn THEN "on" ELSE relay
     /\ onAge' = IF turnOn THEN Cap(t3 - t2) ELSE Cap(onAge + t3)

FridgePass(raw, t1, t2, t3) ==
  /\ command = "fridge"
  /\ Pass(t3)
  /\ ReadVoltage("fridge", raw)
  /\ SwitchFridge(t1, t2, t3)
  /\ BuzzerPass(relay' = "on")

MeasurePass(raw, busy) ==
  /\ command = "measure"
  /\ Pass(busy)
  /\ ReadVoltage("measure", raw)
  /\ onAge' = Cap(onAge + busy)
  /\ UNCHANGED <<relay, fridgeWaitTimerStart, buzzerVars>>

(* "idle", or an unknown command: nothing but messages. *)
OtherPass(busy) ==
  /\ command \in {"idle", "other"}
  /\ Pass(busy)
  /\ onAge' = Cap(onAge + busy)
  /\ UNCHANGED <<relay, fridgeWaitTimerStart, averageVars, buzzerVars>>

ControlPass ==
  \/ \E raw \in RawLevels : \E t1, t2, t3 \in 0 .. MaxBusy :
       t1 <= t2 /\ t2 <= t3 /\ FridgePass(raw, t1, t2, t3)
  \/ \E raw \in RawLevels, busy \in 0 .. MaxBusy : MeasurePass(raw, busy)
  \/ \E busy \in 0 .. MaxBusy : OtherPass(busy)

-----------------------------------------------------------------------------
(* The environment. *)

(* The sketch has nothing to do: it polls, or spins in loop() after "stop",  *)
(* or waits for a command.                                                   *)
Waiting ==
  \/ pc = "inner" /\ rx = NoInput /\ ~Due
  \/ pc = "outer" /\ DefaultSwitch /\ command = "stop"
  \/ pc = "outer" /\ ~DefaultSwitch /\ rx = NoInput

Tick ==
  /\ Waiting
  /\ Elapse(1)
  /\ UNCHANGED <<pc, command, rx, oldLoopTime, relay, fridgeWaitTimerStart>>
  /\ UNCHANGED <<averageVars, buzzerVars>>

(* The operator sends a line.  One that is typed before an earlier one was   *)
(* read is appended to it, and no command has that text.                     *)
Type(c) ==
  /\ rx' = IF rx = NoInput THEN c ELSE "other"
  /\ UNCHANGED <<pc, command, now, oldLoopTime, relay, fridgeWaitTimerStart, onAge>>
  /\ UNCHANGED <<averageVars, buzzerVars>>

Sketch == KeepCommand \/ AwaitCommand \/ Interrupt \/ ControlPass

Next == Sketch \/ Tick \/ (\E c \in TypedCommands : Type(c))

Spec == Init /\ [][Next]_vars

(* The processor runs and the clock ticks; the operator owes nothing.        *)
FairSpec == Spec /\ WF_vars(Sketch) /\ WF_vars(Tick)

-----------------------------------------------------------------------------
TypeOK ==
  /\ pc \in {"outer", "inner"}
  /\ command \in Commands
  /\ rx \in Commands \cup {NoInput}
  /\ now \in Millis
  /\ oldLoopTime \in Millis
  /\ relay \in {"on", "off"}
  /\ fridgeWaitTimerStart \in Millis
  /\ onAge \in 0 .. AgeCap
  /\ averageVoltCounter \in Nat
  /\ voltageSumUp \in Nat
  /\ averageVoltage \in Nat
  /\ batteryVoltage \in Nat
  /\ buzzerState \in 0 .. OffTuneEnd + 1
  /\ lastLoopPStrip \in BOOLEAN
  /\ sounding \in BOOLEAN

-----------------------------------------------------------------------------
(* Safety. *)

(* Once turned on, the fridge is left on for longer than MinOnTime of true   *)
(* time, whatever the wraps of millis() and the order of the readings of the *)
(* clock within a pass ("won't turn off ... during the first minutes").      *)
MinimumOnTime == [][relay = "on" /\ relay' = "off" => onAge' > MinOnTime]_vars

(* The invariant behind it: the fridge timer never claims more than the true *)
(* on-time.  Across a wrap it claims less, never more.                       *)
TimerWithinAge ==
  fridgeWaitTimerStart <= now => Cap(now - fridgeWaitTimerStart) <= onAge

(* The controller implements the abstract switch: the average, the strip and *)
(* its age move as FridgeSwitch allows, in every mode and under any typing.  *)
Switch == INSTANCE FridgeSwitch WITH
  Upper <- UpperThreshold * AverageUnit,
  Lower <- LowerThreshold * AverageUnit,
  Dwell <- MinOnTime,
  voltage <- averageVoltage

ImplementsSwitch == Switch!SwitchSpec

TopVoltage == MeasureGain * RawMax

(* The sum never holds more than the samples the counter has counted, so no  *)
(* published average exceeds what the divider can deliver, and a change of   *)
(* mode in mid-window never pushes the counter past the fridge's window.     *)
AverageWithinSamples ==
  /\ averageVoltCounter < FridgeWindow
  /\ voltageSumUp <= averageVoltCounter * TopVoltage
  /\ averageVoltage <= AverageUnit * TopVoltage

(* The buzzer's memory of the strip is right between passes, so no edge is   *)
(* missed or invented when other modes run in between; and while the buzzer  *)
(* sounds the silencing step of its tune is still ahead.                     *)
BuzzerConsistent ==
  /\ lastLoopPStrip <=> (relay = "on")
  /\ sounding => Playing(buzzerState) \/ AtTuneEnd(buzzerState)

OnTuneUnderWay == buzzerState \in OnTuneStart .. OnTuneEnd

(* Left in "fridge" mode, no decision cuts the "on" tune short: the window   *)
(* between two averages is longer than a tune.  (The "off" tune may be cut:  *)
(* the strip goes off when its minimum on-time ends, in mid-window.)         *)
OnTunePlayedWhole ==
  [][OnTuneUnderWay => buzzerState' \in {buzzerState, buzzerState + 1}]_vars

-----------------------------------------------------------------------------
(* Liveness, under FairSpec. *)

(* What the operator types is eventually read ("Type 'stop' to stop control  *)
(* loop and wait for new command").                                          *)
InputEventuallyRead == (rx # NoInput) ~> (rx = NoInput)

(* The operator leaves the controller in a mode.                             *)
Undisturbed(mode) == command = mode /\ rx = NoInput

(* Left in "fridge" mode it publishes a new average again and again, across  *)
(* every wrap of millis() and every overrun of a pass.                       *)
AverageRefreshed ==
  <>[]Undisturbed("fridge") =>
    /\ []<>(averageVoltCounter = 0)
    /\ []<>(averageVoltCounter # 0)

(* Left in "fridge" mode the buzzer does not sound for ever.                 *)
BuzzerFallsSilent == <>[]Undisturbed("fridge") => []<>~sounding

(* The battery reads below the lower threshold in "fridge" mode. *)
Discharged ==
  Undisturbed("fridge") /\ BelowLower(batteryVoltage * AverageUnit)

(* "fridge will turn off when this lower threshold is reached": on a battery *)
(* that stays low the fridge does not stay on.                               *)
DischargedTurnsOff == <>[]Discharged => <>[](relay = "off")

(* The turn-on happened so close to the wrap that the fridge timer may never *)
(* be seen beyond MinOnTime: fewer ticks than separate two passes are left.  *)
TurnedOnNearWrap ==
  fridgeWaitTimerStart + MinOnTime + LoopInterval + 3 * MaxBusy >= Wrap

(* On a battery that stays low the fridge does go off, unless it was turned  *)
(* on near the wrap: nothing but the wrap keeps it on.                       *)
DischargedTurnsOffAwayFromWrap ==
  <>[]Discharged => <>[](relay = "off" \/ TurnedOnNearWrap)
=============================================================================
