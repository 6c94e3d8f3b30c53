----------------------------- MODULE Anemometer -----------------------------
(***************************************************************************)
(* loop() of the anemometer sketch, the data logger: reports fall due at   *)
(* whole multiples of dataLoopLength on the clock, the sums are reset one  *)
(* by one, and the interrupt is attached again in the first iteration that *)
(* finds the pin low and no pulse counted.  The rows it writes are         *)
(* DataLog's; showing and writing a report is one step here.               *)
(***************************************************************************)
EXTENDS PulseCounter

CONSTANTS
  dataLoopLength,  \* 10000
  MaxSetup,        \* ticks setup() may take: some 3000, with its delay(2500)
  MaxIdle          \* ticks an iteration of loop() may take without its report

(* An iteration with a report ends before the next one falls due, the first  *)
(* one too.  Without a report it polls and looks at the pin, which takes the *)
(* board microseconds; a report prints, fills the LCD and writes to the      *)
(* card.                                                                     *)
ASSUME LoopAssumption ==
  /\ dataLoopLength \in Nat \ {0}
  /\ MaxIdle \in Nat \ {0}
  /\ MaxIdle <= MaxIteration
  /\ MaxSetup \in Nat
  /\ MaxSetup + MaxIteration + MaxIdle <= dataLoopLength

VARIABLES
  pc,              \* the next access of loop() to a shared variable
  loopTime,        \* dataLoopCount * dataLoopLength, modulo Wrap
  sinceReport,     \* history: true ticks since the last report fell due, up to
                   \*   dataLoopLength
  wrapped          \* history: loopTime has gone round

loopVars == <<pc, loopTime, sinceReport, wrapped>>
vars == <<pulseVars, loopVars>>

ReportSection == {"speed", "count", "cul", "start"}

(* setup() leaves the interrupt detached; the first iteration that finds the *)
(* pin low attaches it.                                                      *)
Init ==
  /\ PulseInit
  /\ now \in Millis /\ now <= MaxSetup
  /\ attached = FALSE
  /\ pc = "loop"
  /\ loopTime = 0
  /\ sinceReport = dataLoopLength
  /\ wrapped = FALSE

(* A step of loop() from one pc to another. *)
LoopStep(from, to) ==
  /\ pc = from
  /\ pc' = to
  /\ UNCHANGED <<now, pin, sTime, sinceRise>>

(* Mutants of NextLoopTime: dataLoopCount is not incremented; the product is *)
(* one of a type that does not overflow.                                     *)
NextLoopTimeKept == loopTime
NextLoopTimeUnbounded == loopTime + dataLoopLength

(* loopTime once dataLoopCount has been incremented. *)
NextLoopTime == (loopTime + dataLoopLength) % Wrap

(* The time stamp, the test and, when a report is due, the detach. *)
Poll ==
  /\ pc = "loop"
  /\ IF now >= loopTime
       THEN /\ LoopStep("loop", "speed")
            /\ loopTime' = NextLoopTime
            /\ wrapped' = (wrapped \/ loopTime + dataLoopLength >= Wrap)
            /\ sinceReport' = 0
            /\ detachInterrupt
       ELSE /\ LoopStep("loop", "check")
            /\ UNCHANGED <<loopTime, wrapped, sinceReport, attached>>
  /\ lag' = 0
  /\ UNCHANGED <<start, culPulseTime, avgWindCount, cPulse, per, windowAge>>

(* getAvgWindSpeedMS reads its two arguments. *)
ReadAverage ==
  /\ ~ArgumentsRead
  /\ LoopStep("speed", "speed")
  /\ ReadArgument
  /\ UNCHANGED <<attached, start, culPulseTime, avgWindCount, lag, windowAge, loopTime, sinceReport, wrapped>>

(* The speed is computed and the count reset. *)
ResetCount ==
  /\ ArgumentsRead
  /\ LoopStep("speed", "cul")
  /\ avgWindCount' = 0
  /\ cPulse' = Unread
  /\ per' = Unread
  /\ UNCHANGED <<attached, start, culPulseTime, lag, windowAge, loopTime, sinceReport, wrapped>>

(* Mutant of ResetTime: the sum of the intervals is kept. *)
ResetTimeKept ==
  /\ LoopStep("cul", "start")
  /\ UNCHANGED <<attached, start, culPulseTime, avgWindCount, cPulse, per, lag, windowAge, loopTime, sinceReport, wrapped>>

ResetTime ==
  /\ LoopStep("cul", "start")
  /\ culPulseTime' = 0
  /\ UNCHANGED <<attached, start, avgWindCount, cPulse, per, lag, windowAge, loopTime, sinceReport, wrapped>>

Restart ==
  /\ LoopStep("start", "save")
  /\ start' = TRUE
  /\ windowAge' = 0
  /\ UNCHANGED <<attached, culPulseTime, avgWindCount, cPulse, per, lag, loopTime, sinceReport, wrapped>>

(* updateLCD and saveData; what is left of the iteration is as short as one  *)
(* without a report.                                                         *)
Show ==
  /\ LoopStep("save", "check")
  /\ lag' = 0
  /\ UNCHANGED <<attached, start, culPulseTime, avgWindCount, cPulse, per, windowAge, loopTime, sinceReport, wrapped>>

(* Mutant of Reattach: the interrupt is attached only on a high pin with     *)
(* pulses counted.                                                           *)
ReattachSwapped ==
  /\ LoopStep("check", "loop")
  /\ attached' = (attached \/ (pin = "high" /\ avgWindCount # 0))
  /\ UNCHANGED <<start, culPulseTime, avgWindCount, cPulse, per, lag, windowAge, loopTime, sinceReport, wrapped>>

Reattach ==
  /\ LoopStep("check", "loop")
  /\ attached' = (attached \/ (pin = "low" /\ avgWindCount = 0))
  /\ UNCHANGED <<start, culPulseTime, avgWindCount, cPulse, per, lag, windowAge, loopTime, sinceReport, wrapped>>

Loop == Poll \/ ReadAverage \/ ResetCount \/ ResetTime \/ Restart \/ Show \/ Reattach

(* Is loop() outside a report? *)
Idle == pc \in {"loop", "check"}

TimePasses ==
  /\ Tick
  /\ Idle => lag < MaxIdle
  /\ sinceReport' = UpTo(dataLoopLength, sinceReport + 1)
  /\ UNCHANGED <<pc, loopTime, wrapped>>

Turn == (Rise \/ Fall) /\ UNCHANGED loopVars

Next == Loop \/ TimePasses \/ Turn

Spec == Init /\ [][Next]_vars

(* The processor runs loop() and the clock ticks; the wind owes nothing.     *)
FairSpec == Spec /\ WF_vars(Loop) /\ WF_vars(TimePasses)

-----------------------------------------------------------------------------
TypeOK ==
  /\ PulseTypeOK
  /\ pc \in ReportSection \cup {"loop", "save", "check"}
  /\ Idle => lag <= MaxIdle
  /\ loopTime \in Millis
  /\ sinceReport \in 0 .. dataLoopLength
  /\ wrapped \in BOOLEAN

(* A report takes the window at once: although the average reads the sums    *)
(* one access at a time and the sums are reset one by one, it shows the sum  *)
(* and the number of the same turns, and nothing that was counted is lost or *)
(* reported twice between two windows.                                       *)
Reporting == pc \in ReportSection
Window == INSTANCE WindWindow WITH
  sum <- IF Reporting THEN 0 ELSE culPulseTime,
  count <- IF Reporting THEN 0 ELSE avgWindCount,
  age <- IF Reporting THEN 0 ELSE windowAge,
  report <- IF pc = "speed" THEN <<culPulseTime, avgWindCount>> ELSE <<>>,
  shown <- IF ArgumentsRead THEN <<cPulse, per>> ELSE <<>>
ReportsAtOnce == Window!WindowSpec

ReportStarts == pc = "loop" /\ pc' = "speed"

(* How late the last report was at most: the first one waits for setup().    *)
Lateness == MaxIdle + (IF loopTime = dataLoopLength THEN MaxSetup ELSE 0)

(* "length of loop to report average speed", "10s avg speed": a report is    *)
(* found due a dataLoopLength after the one before, less what that one came  *)
(* late, until dataLoopCount * dataLoopLength overflows for the first time,  *)
(* however long the reports themselves take.  Then loopTime is behind the    *)
(* clock for as many reports as it takes to catch up, and they come in a     *)
(* burst, one per iteration.                                                 *)
ReportsSpacedBeforeWrap ==
  [][ReportStarts /\ ~wrapped => sinceReport + Lateness >= dataLoopLength]_vars

(* Reports keep coming, across every wrap of both counters. *)
ReportsKeepComing == []<>(pc = "save")

(* A detached interrupt is attached again once the relay is left open.       *)
Reattached == <>[](pin = "low") => []<>attached
=============================================================================
