----------------------------- MODULE WindWindow -----------------------------
(***************************************************************************)
(* What the wind sketches promise about a window of measurement: turns are *)
(* counted one at a time, an interval each, and a report takes the sum and *)
(* the number of the intervals at once, with everything counted since the  *)
(* report before and nothing counted twice.  What is shown is the report.  *)
(* No interval is shorter than the fastest turn or longer than the window. *)
(***************************************************************************)
EXTENDS Integers

CONSTANTS
  MinGap,      \* ticks between two turns at the fastest
  TimeCap      \* bound on the times that are told apart

VARIABLES
  sum, count,  \* the intervals of this window and their number
  age,         \* ticks of this window in which turns may have been counted
  report,      \* sum and number the report took, <<>> between reports
  shown        \* sum and number a speed is computed from, or <<>>

windowVars == <<sum, count, age, report, shown>>

Capped(t) == IF t < TimeCap THEN t ELSE TimeCap

WindowInit ==
  /\ sum = 0 /\ count = 0 /\ age = 0
  /\ report = <<>>
  /\ shown = <<>>

(* A turn ends an interval. *)
Turn ==
  /\ report = <<>>
  /\ sum' \in Capped(sum + MinGap) .. age
  /\ count' = count + 1
  /\ UNCHANGED <<age, report, shown>>

Pass ==
  /\ age' = Capped(age + 1)
  /\ UNCHANGED <<sum, count, report, shown>>

(* A report takes the window; the next begins. *)
Report ==
  /\ report = <<>>
  /\ report' = <<sum, count>>
  /\ sum' = 0 /\ count' = 0 /\ age' = 0
  /\ UNCHANGED shown

(* A speed is about to be computed from the report. *)
Show ==
  /\ report # <<>> /\ shown = <<>>
  /\ shown' = report
  /\ UNCHANGED <<sum, count, age, report>>

(* It has been; perhaps it was the last of this report. *)
Hide ==
  /\ shown # <<>>
  /\ shown' = <<>>
  /\ report' \in {report, <<>>}
  /\ UNCHANGED <<sum, count, age>>

WindowNext == Turn \/ Pass \/ Report \/ Show \/ Hide

WindowSpec == WindowInit /\ [][WindowNext]_windowVars
=============================================================================
