---------------------------- MODULE PulseCounter ----------------------------
(***************************************************************************)
(* The interrupt routine of the two wind sketches (anemometer and          *)
(* wind-measuring) and the volatile variables it shares with loop().  The  *)
(* relay of the anemometer closes once per turn; anemometerISR adds the    *)
(* time since the last closing to culPulseTime and counts it.              *)
(*                                                                         *)
(* anemometerISR is one action (interrupts are off while it runs); loop()  *)
(* is not, and every access it makes to a shared variable is an action of  *)
(* the sketch's own module.  Times are whole ticks of millis().  pulseTime *)
(* is left out: it is computed and never shown.                            *)
(***************************************************************************)
EXTENDS MillisClock

CONSTANTS
  DetachWorks,   \* does detachInterrupt(interruptPin) reach the interrupt?
  MinGap,        \* the fastest wind: ticks between two turns
  MaxIteration,  \* ticks one iteration of loop() may take, of anemometer: one report
  MaxCount,      \* bound on the pulses of one window
  TimeCap        \* bound on the sums of times that are told apart

ASSUME PulseAssumption ==
  /\ DetachWorks \in BOOLEAN
  /\ MinGap \in Nat \ {0}
  /\ MaxIteration \in Nat \ {0}
  /\ MaxCount \in Nat
  /\ TimeCap \in Nat
  /\ MaxCount * MinGap <= TimeCap

VARIABLES
  now,             \* millis()
  pin,             \* level of interruptPin
  attached,        \* is anemometerISR attached to the pin?
  sTime,           \* time of the last pulse the routine has seen
  start,           \* no pulse seen in this window yet
  culPulseTime,    \* sum of the intervals counted in this window
  avgWindCount,    \* their number
  cPulse, per,     \* arguments of getAvgWindSpeed, Unread before they are read
  lag,             \* ticks since this iteration of loop() began, of
                   \*   anemometer: or since its report ended
  sinceRise,       \* environment: ticks since the last rise, up to MinGap
  windowAge        \* history: ticks since this window began, up to TimeCap

sharedVars == <<attached, sTime, start, culPulseTime, avgWindCount>>
pulseVars == <<now, pin, sharedVars, cPulse, per, lag, sinceRise, windowAge>>

Unread == -1
UpTo(bound, t) == IF t < bound THEN t ELSE bound

PulseInit ==
  /\ pin \in {"low", "high"}
  /\ sTime = 0
  /\ start = TRUE
  /\ culPulseTime = 0
  /\ avgWindCount = 0
  /\ cPulse = Unread
  /\ per = Unread
  /\ lag = 0
  /\ sinceRise = MinGap
  /\ windowAge = 0

-----------------------------------------------------------------------------
(* Mutant of Interval: the test that suppresses the bounce of the relay is   *)
(* lost.                                                                     *)
IntervalWithBounce == ~start /\ now >= sTime

(* "start != true and cTime > sTime": this pulse ends an interval.           *)
Interval == ~start /\ now > sTime

anemometerISR ==
  /\ IF Interval
       THEN /\ culPulseTime' = UpTo(TimeCap, culPulseTime + (now - sTime))
            /\ avgWindCount' = avgWindCount + 1
       ELSE UNCHANGED <<culPulseTime, avgWindCount>>
  /\ sTime' = now
  /\ start' = FALSE
  /\ UNCHANGED attached

(* The relay closes: a new turn, or a bounce within the same tick.           *)
Rise ==
  /\ pin = "low"
  /\ sinceRise = 0 \/ sinceRise = MinGap
  /\ avgWindCount < MaxCount
  /\ pin' = "high"
  /\ sinceRise' = 0
  /\ IF attached THEN anemometerISR ELSE UNCHANGED sharedVars
  /\ UNCHANGED <<now, cPulse, per, lag, windowAge>>

Fall ==
  /\ pin = "high"
  /\ pin' = "low"
  /\ UNCHANGED <<now, sharedVars, cPulse, per, lag, sinceRise, windowAge>>

(* Time passes, while the iteration of loop() may still take longer.         *)
Tick ==
  /\ lag < MaxIteration
  /\ now' = Advance(now, 1)
  /\ lag' = lag + 1
  /\ sinceRise' = UpTo(MinGap, sinceRise + 1)
  /\ windowAge' = UpTo(TimeCap, windowAge + 1)
  /\ UNCHANGED <<pin, sharedVars, cPulse, per>>

-----------------------------------------------------------------------------
(* What loop() does to the shared variables, one access each.                *)

(* detachInterrupt(interruptPin) passes the pin, not the number of its       *)
(* interrupt: on boards where the two differ it detaches nothing.            *)
detachInterrupt == attached' = (attached /\ ~DetachWorks)

(* One of the two arguments of getAvgWindSpeed is read, in either order.     *)
ReadArgument ==
  \/ cPulse = Unread /\ cPulse' = culPulseTime /\ UNCHANGED per
  \/ per = Unread /\ per' = avgWindCount /\ UNCHANGED cPulse

ArgumentsRead == cPulse # Unread /\ per # Unread

-----------------------------------------------------------------------------
PulseTypeOK ==
  /\ now \in Millis
  /\ pin \in {"low", "high"}
  /\ attached \in BOOLEAN
  /\ sTime \in Millis
  /\ start \in BOOLEAN
  /\ culPulseTime \in 0 .. TimeCap
  /\ avgWindCount \in 0 .. MaxCount
  /\ cPulse \in 0 .. TimeCap \cup {Unread}
  /\ per \in 0 .. MaxCount \cup {Unread}
  /\ lag \in 0 .. MaxIteration
  /\ sinceRise \in 0 .. MinGap
  /\ windowAge \in 0 .. TimeCap

(* The speed reported is that of turns which took place in this window: the  *)
(* intervals summed up are as many as were counted, none is shorter than the *)
(* fastest turn (so no speed is infinite), and together they are no longer   *)
(* than the window.                                                          *)
MeanOfThisWindow ==
  ArgumentsRead => per * MinGap <= cPulse /\ cPulse <= windowAge
=============================================================================
