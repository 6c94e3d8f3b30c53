---------------------------- MODULE MillisClock ----------------------------
(***************************************************************************)
(* The millisecond counter every sketch reads with millis().  It is an     *)
(* unsigned counter of the Arduino core that starts at 0 at power-up and   *)
(* wraps (after 2^32 ms, "50 days till wrap" in the controller's own       *)
(* comment).  Wrap is a parameter so that the wrap happens in a small      *)
(* instance; durations are given in whole ticks of the counter.            *)
(***************************************************************************)
EXTENDS Integers

CONSTANT Wrap            \* number of values of the counter, 2^32 on the board

ASSUME WrapAssumption == Wrap \in Nat \ {0}

(* What millis() can return. *)
Millis == 0 .. Wrap - 1

(* Mutant of Advance: a counter that never wraps. *)
AdvanceForever(t, d) == t + d

(* The counter d ticks after it showed t, for d no longer than a whole turn. *)
Advance(t, d) == IF t + d < Wrap THEN t + d ELSE t + d - Wrap

(* Mutant of Since: the difference is clamped at 0 instead of wrapping. *)
SinceClamped(t, start) == IF start <= t THEN t - start ELSE 0

(* C's unsigned subtraction t - start: the ticks from start to t, modulo     *)
(* Wrap.  It is right across one wrap of the counter.                        *)
Since(t, start) == IF start <= t THEN t - start ELSE t - start + Wrap
=============================================================================
