------------------------- MODULE PulseCounterProofs -------------------------
(***************************************************************************)
(* Lemmas about the interrupt routine of the wind sketches and about the   *)
(* clock it reads, for the theorems of WindMeterProofs and                 *)
(* AnemometerProofs: what one pulse and one tick do to the sums of a       *)
(* window, and what the report may make of them.                           *)
(***************************************************************************)
EXTENDS PulseCounter, TLAPS

(* What is counted: no interval is shorter than the fastest turn, and all of *)
(* them together no longer than the window.                                  *)
Counted ==
  /\ avgWindCount * MinGap <= culPulseTime
  /\ culPulseTime <= windowAge

Empty == culPulseTime = 0 /\ avgWindCount = 0

(* A window in which pulses may be counted: either none was seen, or the     *)
(* routine has seen every pulse since the last one it knows of, and the time *)
(* since then still fits in the window.                                      *)
OpenWindow ==
  /\ Counted
  /\ start => Empty
  /\ ~start =>
       /\ attached
       /\ sinceRise = UpTo(MinGap, Since(now, sTime))
       /\ UpTo(TimeCap, culPulseTime + Since(now, sTime)) <= windowAge

(* The arguments of the averages are unread, or read of a window that is     *)
(* over.                                                                     *)
ArgumentsOfWindow ==
  /\ cPulse # Unread => cPulse = culPulseTime
  /\ per # Unread => per = avgWindCount

NoneRead == cPulse = Unread /\ per = Unread

-----------------------------------------------------------------------------
(* The clock. *)

LEMMA TickOfClock ==
  ASSUME NEW t \in Millis, NEW s \in Millis
  PROVE  /\ Advance(t, 1) \in Millis
         /\ Since(t, s) \in Millis
         /\ Since(t, t) = 0
         /\ s <= t => Since(t, s) = t - s
         /\ t < s => Since(t, s) = t - s + Wrap
         /\ t + 1 < Wrap => Advance(t, 1) = t + 1
         /\ t + 1 = Wrap => Advance(t, 1) = 0
         /\ Since(t, s) + 1 < Wrap =>
              Since(Advance(t, 1), s) = Since(t, s) + 1
         /\ Since(Advance(t, 1), s) <= Since(t, s) + 1
BY WrapAssumption DEF Advance, Since, Millis

LEMMA UpToType ==
  ASSUME NEW bound \in Nat, NEW t \in Nat
  PROVE  UpTo(bound, t) \in 0 .. bound /\ UpTo(bound, t) <= t
BY DEF UpTo

LEMMA UpToNothing ==
  ASSUME NEW bound \in Nat, NEW t \in 0 .. bound
  PROVE  UpTo(bound, t + 0) = UpTo(bound, t)
BY DEF UpTo

(* The bounds alone, without what relates them. *)
LEMMA Bounds ==
  /\ MinGap \in Nat \ {0} /\ MaxIteration \in Nat \ {0}
  /\ MaxCount \in Nat /\ TimeCap \in Nat
  /\ Wrap \in Nat \ {0}
BY PulseAssumption, WrapAssumption

(* MaxCount intervals of the fastest wind are told apart. *)
LEMMA CapOfCount ==
  ASSUME NEW n \in 0 .. MaxCount
  PROVE  n * MinGap \in Nat /\ n * MinGap <= TimeCap
<1>1. n * MinGap \in Nat /\ MaxCount * MinGap \in Nat
  BY PulseAssumption
<1>2. (MaxCount - n) * MinGap >= 0
  BY PulseAssumption
<1>3. n * MinGap <= MaxCount * MinGap
  BY <1>1, <1>2, PulseAssumption
<1> QED
  BY <1>1, <1>3, PulseAssumption

(* One interval more. *)
LEMMA OneMore ==
  ASSUME NEW n \in Nat
  PROVE  (n + 1) * MinGap = n * MinGap + MinGap /\ n * MinGap \in Nat
BY PulseAssumption

-----------------------------------------------------------------------------
(* The steps of the environment. *)

LEMMA PulseStarts ==
  ASSUME PulseInit, attached \in BOOLEAN, now \in Millis
  PROVE  PulseTypeOK /\ OpenWindow /\ NoneRead
<1>1. PulseTypeOK
  BY PulseAssumption, WrapAssumption DEF PulseInit, PulseTypeOK, Millis
<1>2. 0 * MinGap = 0
  BY PulseAssumption
<1> QED
  BY <1>1, <1>2 DEF PulseInit, OpenWindow, Counted, Empty, NoneRead

(* A pulse leaves every variable of its type. *)
LEMMA RiseType ==
  ASSUME PulseTypeOK, Rise
  PROVE  PulseTypeOK'
<1> USE Bounds DEF PulseTypeOK
<1>1. /\ sTime' \in Millis /\ start' \in BOOLEAN /\ attached' \in BOOLEAN
      /\ culPulseTime' \in 0 .. TimeCap
      /\ avgWindCount' \in 0 .. MaxCount
  <2>1. CASE attached /\ Interval
    <3>1. now - sTime \in Nat
      BY <2>1 DEF Interval, Millis
    <3>2. culPulseTime' = UpTo(TimeCap, culPulseTime + (now - sTime))
      BY <2>1 DEF Rise, anemometerISR
    <3>3. culPulseTime + (now - sTime) \in Nat
      BY <3>1
    <3>4. culPulseTime' \in 0 .. TimeCap
      BY <3>2, <3>3 DEF UpTo
    <3>5. avgWindCount' = avgWindCount + 1 /\ sTime' = now /\ start' = FALSE /\ attached' = attached
      BY <2>1 DEF Rise, anemometerISR
    <3>6. avgWindCount' \in 0 .. MaxCount
      BY <3>5 DEF Rise
    <3> QED
      BY <3>4, <3>5, <3>6
  <2>2. CASE attached /\ ~Interval
    BY <2>2 DEF Rise, anemometerISR
  <2>3. CASE ~attached
    BY <2>3 DEF Rise, sharedVars
  <2> QED
    BY <2>1, <2>2, <2>3
<1> QED
  BY <1>1 DEF Rise

(* An interval the routine counts is at least one turn of the fastest wind:  *)
(* a bounce comes in the tick of the rise before it.                         *)
LEMMA IntervalIsTurn ==
  ASSUME PulseTypeOK, OpenWindow, Rise, Interval
  PROVE  now - sTime \in Nat /\ now - sTime >= MinGap /\ Since(now, sTime) = now - sTime
<1> USE PulseAssumption, WrapAssumption DEF PulseTypeOK, Millis
<1>1. now > sTime /\ ~start
  BY DEF Interval
<1>2. Since(now, sTime) = now - sTime
  BY <1>1 DEF Since
<1>3. sinceRise = UpTo(MinGap, now - sTime)
  BY <1>1, <1>2 DEF OpenWindow
<1>4. sinceRise = 0 \/ sinceRise = MinGap
  BY DEF Rise
<1> QED
  BY <1>1, <1>2, <1>3, <1>4 DEF UpTo

(* What a pulse adds to an open window: nothing, or one interval. *)
LEMMA RiseCounts ==
  ASSUME PulseTypeOK, OpenWindow, Rise
  PROVE  \/ UNCHANGED <<culPulseTime, avgWindCount>>
         \/ /\ culPulseTime' \in UpTo(TimeCap, culPulseTime + MinGap) .. windowAge
            /\ avgWindCount' = avgWindCount + 1
<1> USE Bounds
<1>1. CASE ~(attached /\ Interval)
  BY <1>1 DEF Rise, anemometerISR, sharedVars
<1>2. CASE attached /\ Interval
  <2>1. /\ culPulseTime' = UpTo(TimeCap, culPulseTime + (now - sTime))
        /\ avgWindCount' = avgWindCount + 1
    BY <1>2 DEF Rise, anemometerISR
  <2>2. now - sTime \in Nat /\ now - sTime >= MinGap /\ Since(now, sTime) = now - sTime
    BY <1>2, IntervalIsTurn
  <2>3. culPulseTime \in Nat /\ windowAge \in Nat
    BY DEF PulseTypeOK
  <2>4. culPulseTime' <= windowAge /\ culPulseTime' \in Nat
    BY <1>2, <2>1, <2>2, <2>3 DEF OpenWindow, Interval, UpTo
  <2>5. UpTo(TimeCap, culPulseTime + MinGap) <= culPulseTime'
        /\ UpTo(TimeCap, culPulseTime + MinGap) \in Nat
    BY <2>1, <2>2, <2>3 DEF UpTo
  <2> QED
    BY <2>1, <2>3, <2>4, <2>5
<1> QED
  BY <1>1, <1>2

(* A pulse keeps the account of an open window. *)
LEMMA RiseKeepsWindow ==
  ASSUME PulseTypeOK, OpenWindow, Rise
  PROVE  OpenWindow'
<1> USE Bounds
<1>1. CASE ~attached
  <2>1. start /\ start' /\ UNCHANGED <<culPulseTime, avgWindCount, windowAge>>
    BY <1>1 DEF OpenWindow, Rise, sharedVars, PulseTypeOK
  <2> QED
    BY <2>1 DEF OpenWindow, Counted, Empty
<1>2. CASE attached
  <2>1. /\ sTime' = now /\ now' = now /\ sinceRise' = 0
        /\ start' = FALSE /\ attached' /\ windowAge' = windowAge
    BY <1>2 DEF Rise, anemometerISR
  <2>2. Since(now', sTime') = 0
    BY <2>1, TickOfClock DEF PulseTypeOK
  <2>3. sinceRise' = UpTo(MinGap, Since(now', sTime'))
    BY <2>1, <2>2 DEF UpTo
  <2>4. Counted'
    <3>1. CASE ~Interval
      BY <1>2, <2>1, <3>1 DEF Rise, anemometerISR, OpenWindow, Counted
    <3>2. CASE Interval
      <4>1. /\ culPulseTime' = UpTo(TimeCap, culPulseTime + (now - sTime))
            /\ avgWindCount' = avgWindCount + 1
            /\ avgWindCount' \in 0 .. MaxCount
        BY <1>2, <3>2 DEF Rise, anemometerISR, PulseTypeOK
      <4>2. now - sTime \in Nat /\ now - sTime >= MinGap /\ Since(now, sTime) = now - sTime
        BY <3>2, IntervalIsTurn
      <4>3. culPulseTime' <= windowAge'
        BY <2>1, <3>2, <4>1, <4>2 DEF OpenWindow, Interval
      <4>4. avgWindCount' * MinGap \in Nat /\ avgWindCount' * MinGap <= TimeCap
        BY <4>1, CapOfCount
      <4>5. /\ avgWindCount' * MinGap = avgWindCount * MinGap + MinGap
            /\ avgWindCount * MinGap \in Nat
        BY <4>1, OneMore DEF PulseTypeOK
      <4>6. avgWindCount' * MinGap <= culPulseTime + (now - sTime)
        BY <4>2, <4>5 DEF OpenWindow, Counted, PulseTypeOK
      <4>7. avgWindCount' * MinGap <= culPulseTime'
        BY <4>1, <4>4, <4>6 DEF UpTo
      <4> QED
        BY <4>3, <4>7 DEF Counted
    <3> QED
      BY <2>2, <3>1, <3>2, Zenon
  <2>5. culPulseTime' \in 0 .. TimeCap /\ windowAge' \in 0 .. TimeCap
    BY RiseType DEF PulseTypeOK
  <2>6. culPulseTime' <= windowAge'
    BY <2>4 DEF Counted
  <2>7. UpTo(TimeCap, culPulseTime' + Since(now', sTime')) <= windowAge'
    <3>1. UpTo(TimeCap, culPulseTime' + 0) = UpTo(TimeCap, culPulseTime')
      BY <2>5, UpToNothing
    <3>2. UpTo(TimeCap, culPulseTime') <= windowAge'
      BY <2>5, <2>6 DEF UpTo
    <3> QED
      BY <2>2, <3>1, <3>2, Zenon
  <2> QED
    BY <2>1, <2>3, <2>4, <2>7 DEF OpenWindow
<1> QED
  BY <1>1, <1>2

LEMMA TickType ==
  ASSUME PulseTypeOK, Tick
  PROVE  PulseTypeOK'
<1>1. now' \in Millis
  BY TickOfClock DEF PulseTypeOK, Tick
<1>2. sinceRise' \in 0 .. MinGap /\ windowAge' \in 0 .. TimeCap
  BY PulseAssumption, UpToType DEF PulseTypeOK, Tick
<1> QED
  BY <1>1, <1>2, PulseAssumption DEF PulseTypeOK, Tick, sharedVars

(* So does a tick, as long as the clock does not come round to the last      *)
(* pulse again.                                                              *)
LEMMA TickKeepsWindow ==
  ASSUME PulseTypeOK, OpenWindow, Tick,
         ~start => Since(now, sTime) + 1 < Wrap
  PROVE  OpenWindow'
<1> USE PulseAssumption, WrapAssumption
<1>1. /\ UNCHANGED <<attached, sTime, start, culPulseTime, avgWindCount>>
      /\ now' = Advance(now, 1)
      /\ sinceRise' = UpTo(MinGap, sinceRise + 1)
      /\ windowAge' = UpTo(TimeCap, windowAge + 1)
  BY DEF Tick, sharedVars
<1>2. windowAge <= windowAge'
  BY <1>1 DEF UpTo, PulseTypeOK
<1>3. windowAge' \in 0 .. TimeCap
  BY TickType DEF PulseTypeOK
<1>4. avgWindCount * MinGap \in Int
  BY DEF PulseTypeOK
<1>5. Counted'
  BY <1>1, <1>2, <1>3, <1>4 DEF OpenWindow, Counted, PulseTypeOK
<1>6. CASE start
  BY <1>1, <1>5, <1>6 DEF OpenWindow, Empty
<1>7. CASE ~start
  <2>1. Since(now, sTime) \in Nat /\ Since(now', sTime') = Since(now, sTime) + 1
    BY <1>1, <1>7, TickOfClock DEF PulseTypeOK, Millis
  <2>2. sinceRise' = UpTo(MinGap, Since(now', sTime'))
    BY <1>1, <1>7, <2>1 DEF OpenWindow, UpTo
  <2>3. UpTo(TimeCap, culPulseTime' + Since(now', sTime')) <= windowAge'
    BY <1>1, <1>7, <2>1 DEF OpenWindow, UpTo, PulseTypeOK
  <2> QED
    BY <1>1, <1>5, <1>7, <2>2, <2>3 DEF OpenWindow
<1> QED
  BY <1>6, <1>7 DEF PulseTypeOK

(* The sums are kept while the interrupt is detached, and the window ages.   *)
LEMMA DetachedKeepsSums ==
  ASSUME PulseTypeOK, ~attached, Rise \/ Fall \/ Tick
  PROVE  /\ UNCHANGED <<attached, start, culPulseTime, avgWindCount, cPulse, per>>
         /\ windowAge <= windowAge'
         /\ PulseTypeOK'
<1>1. CASE Rise
  BY <1>1, RiseType DEF Rise, sharedVars, PulseTypeOK
<1>2. CASE Fall
  BY <1>2 DEF Fall, sharedVars, PulseTypeOK
<1>3. CASE Tick
  BY <1>3, TickType, PulseAssumption DEF Tick, sharedVars, PulseTypeOK, UpTo
<1> QED
  BY <1>1, <1>2, <1>3

(* What is read of a window that is over is the mean of that window. *)
LEMMA MeanFromSums ==
  ASSUME Counted, ArgumentsOfWindow
  PROVE  MeanOfThisWindow
BY DEF Counted, ArgumentsOfWindow, MeanOfThisWindow, ArgumentsRead

(* A pair is not the empty report. *)
LEMMA PairIsReport ==
  ASSUME NEW a, NEW b
  PROVE  <<a, b>> # <<>>
OBVIOUS
=============================================================================
