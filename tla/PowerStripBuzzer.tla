-------------------------- MODULE PowerStripBuzzer --------------------------
(***************************************************************************)
(* BUZZER SECTION of the fridge controllers: a tune of three tones is      *)
(* played, one step per pass, when the power strip goes on and another     *)
(* when it goes off.  buzzerState is the position in the tunes:            *)
(*    0               nothing played since power-up                        *)
(*    1 .. OnTuneEnd-1    the "on" tune sounds; OnTuneEnd silences it      *)
(*    OffTuneStart .. OffTuneEnd-1  the "off" tune; OffTuneEnd silences it *)
(* The pitch is left out: only whether the buzzer sounds is kept.          *)
(***************************************************************************)
EXTENDS Integers

CONSTANT ToneLength       \* passes each of the three tones lasts, 10

ASSUME ToneAssumption == ToneLength \in Nat \ {0}

VARIABLES
  buzzerState,
  lastLoopPStrip,         \* was the strip on in the last pass?
  sounding                \* tone() without a later noTone()

buzzerVars == <<buzzerState, lastLoopPStrip, sounding>>

OnTuneStart  == 1
OnTuneEnd    == 3 * ToneLength + 1      \* 31
OffTuneStart == OnTuneEnd + 2           \* 33
OffTuneEnd   == OffTuneStart + 3 * ToneLength   \* 63

BuzzerInit ==
  /\ buzzerState = 0
  /\ lastLoopPStrip = FALSE
  /\ sounding = FALSE

(* Where the tunes stand once an edge of the strip has been noticed. *)
AfterEdge(stripOn) ==
  IF stripOn /\ ~lastLoopPStrip THEN OnTuneStart
  ELSE IF ~stripOn /\ lastLoopPStrip THEN OffTuneStart
  ELSE buzzerState

(* Mutant of AtTuneEnd: the end of the "off" tune is forgotten. *)
AtTuneEndOnOnly(s) == s = OnTuneEnd

Playing(s) == s \in OnTuneStart .. OnTuneEnd - 1 \/ s \in OffTuneStart .. OffTuneEnd - 1
AtTuneEnd(s) == s \in {OnTuneEnd, OffTuneEnd}

(* Mutant of BuzzerPass: lastLoopPStrip is not cleared when the strip goes off. *)
BuzzerPassNotCleared(stripOn) ==
  LET s == AfterEdge(stripOn) IN
  /\ lastLoopPStrip' = (stripOn \/ lastLoopPStrip)
  /\ \/ Playing(s)   /\ sounding' = TRUE  /\ buzzerState' = s + 1
     \/ AtTuneEnd(s) /\ sounding' = FALSE /\ buzzerState' = s + 1
     \/ ~Playing(s) /\ ~AtTuneEnd(s) /\ buzzerState' = s /\ UNCHANGED sounding

(* The section as a whole, run at the end of a pass in "fridge" mode.  *)
BuzzerPass(stripOn) ==
  LET s == AfterEdge(stripOn) IN
  /\ lastLoopPStrip' = stripOn
  /\ \/ Playing(s)   /\ sounding' = TRUE  /\ buzzerState' = s + 1
     \/ AtTuneEnd(s) /\ sounding' = FALSE /\ buzzerState' = s + 1
     \/ ~Playing(s) /\ ~AtTuneEnd(s) /\ buzzerState' = s /\ UNCHANGED sounding
=============================================================================
