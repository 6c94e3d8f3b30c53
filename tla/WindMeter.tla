------------------------------ MODULE WindMeter ------------------------------
(***************************************************************************)
(* loop() of the wind-measuring sketch: every ReportLength ticks it shuts  *)
(* the measurement off, computes the average speed twice (in mph and in    *)
(* m/s), resets the sums one by one and attaches the interrupt again.      *)
(***************************************************************************)
EXTENDS PulseCounter

CONSTANT ReportLength    \* 10000

(* Two reports are less than a turn of millis() apart.  *)
ASSUME ReportAssumption ==
  /\ ReportLength \in Nat
  /\ ReportLength + MaxIteration < Wrap

VARIABLES
  pc,            \* the next access of loop() to a shared variable
  dataTimer,     \* when the last report ended
  sinceReport    \* history: true ticks since then, up to ReportLength + 1

loopVars == <<pc, dataTimer, sinceReport>>
vars == <<pulseVars, loopVars>>

ReportSection == {"mph", "ms", "cul", "count", "start"}

Init ==
  /\ PulseInit
  /\ now = 0
  /\ attached = TRUE
  /\ pc = "loop"
  /\ dataTimer = 0
  /\ sinceReport = 0

(* A step of loop() from one pc to another. *)
LoopStep(from, to) ==
  /\ pc = from
  /\ pc' = to
  /\ UNCHANGED <<now, pin, sTime, sinceRise>>

Due == Since(now, dataTimer) > ReportLength

(* The time stamp, the test and, when a report is due, the detach. *)
Poll ==
  /\ LoopStep("loop", IF Due THEN "mph" ELSE "loop")
  /\ IF Due THEN detachInterrupt ELSE UNCHANGED attached
  /\ lag' = 0
  /\ UNCHANGED <<start, culPulseTime, avgWindCount, cPulse, per, windowAge, dataTimer, sinceReport>>

(* getAvgWindSpeed and getAvgWindMS read their two arguments each.           *)
ReadAverages ==
  /\ pc \in {"mph", "ms"}
  /\ ~ArgumentsRead
  /\ LoopStep(pc, pc)
  /\ ReadArgument
  /\ UNCHANGED <<attached, start, culPulseTime, avgWindCount, lag, windowAge, dataTimer, sinceReport>>

(* The speed is computed; the next call reads the arguments afresh.          *)
UseAverages ==
  /\ pc \in {"mph", "ms"}
  /\ ArgumentsRead
  /\ LoopStep(pc, IF pc = "mph" THEN "ms" ELSE "cul")
  /\ cPulse' = Unread
  /\ per' = Unread
  /\ UNCHANGED <<attached, start, culPulseTime, avgWindCount, lag, windowAge, dataTimer, sinceReport>>

ResetTime ==
  /\ LoopStep("cul", "count")
  /\ culPulseTime' = 0
  /\ UNCHANGED <<attached, start, avgWindCount, cPulse, per, lag, windowAge, dataTimer, sinceReport>>

ResetCount ==
  /\ LoopStep("count", "start")
  /\ avgWindCount' = 0
  /\ UNCHANGED <<attached, start, culPulseTime, cPulse, per, lag, windowAge, dataTimer, sinceReport>>

(* Mutant of Restart: the first pulse after a report ends an interval. *)
RestartUnmarked ==
  /\ LoopStep("start", "attach")
  /\ windowAge' = 0
  /\ UNCHANGED <<attached, start, culPulseTime, avgWindCount, cPulse, per, lag, dataTimer, sinceReport>>

Restart ==
  /\ LoopStep("start", "attach")
  /\ start' = TRUE
  /\ windowAge' = 0
  /\ UNCHANGED <<attached, culPulseTime, avgWindCount, cPulse, per, lag, dataTimer, sinceReport>>

(* Mutant of Attach: the timer of the reports is not reset.  *)
AttachKeepTimer ==
  /\ LoopStep("attach", "loop")
  /\ attached' = TRUE
  /\ sinceReport' = 0
  /\ UNCHANGED <<start, culPulseTime, avgWindCount, cPulse, per, lag, windowAge, dataTimer>>

Attach ==
  /\ LoopStep("attach", "loop")
  /\ attached' = TRUE
  /\ dataTimer' = now
  /\ sinceReport' = 0
  /\ UNCHANGED <<start, culPulseTime, avgWindCount, cPulse, per, lag, windowAge>>

Loop == Poll \/ ReadAverages \/ UseAverages \/ ResetTime \/ ResetCount \/ Restart \/ Attach

TimePasses ==
  /\ Tick
  /\ sinceReport' = UpTo(ReportLength + 1, sinceReport + 1)
  /\ UNCHANGED <<pc, dataTimer>>

Turn == (Rise \/ Fall) /\ UNCHANGED loopVars

Next == Loop \/ TimePasses \/ Turn

Spec == Init /\ [][Next]_vars

(* The processor runs loop() and the clock ticks; the wind owes nothing.     *)
FairSpec == Spec /\ WF_vars(Loop) /\ WF_vars(TimePasses)

-----------------------------------------------------------------------------
TypeOK ==
  /\ PulseTypeOK
  /\ pc \in ReportSection \cup {"loop", "attach"}
  /\ dataTimer \in Millis
  /\ sinceReport \in 0 .. ReportLength + 1

(* A report starts only when more than ReportLength of true time has passed  *)
(* since the last one, across every wrap of millis().                        *)
ReportsSpaced == [][pc = "loop" /\ pc' = "mph" => sinceReport > ReportLength]_vars

(* Reports keep coming, across every wrap of millis(). *)
ReportsKeepComing == []<>(pc = "attach")

Reporting == pc \in ReportSection

(* A report takes the window at once: although the two averages read the     *)
(* sums one access at a time and the sums are reset one by one, both show    *)
(* the sum and the number of the same turns, and nothing that was counted is *)
(* lost or reported twice between two windows.                               *)
Window == INSTANCE WindWindow WITH
  sum <- IF Reporting THEN 0 ELSE culPulseTime,
  count <- IF Reporting THEN 0 ELSE avgWindCount,
  age <- IF Reporting THEN 0 ELSE windowAge,
  report <- IF pc \in {"mph", "ms"} THEN <<culPulseTime, avgWindCount>> ELSE <<>>,
  shown <- IF ArgumentsRead THEN <<cPulse, per>> ELSE <<>>
ReportsAtOnce == Window!WindowSpec

(* "shut off wind speed measurement when in this loop": no pulse is counted  *)
(* between the detach and the attach.                                        *)
ShutOffWhileReporting ==
  [][Reporting => avgWindCount' <= avgWindCount]_vars
=============================================================================
