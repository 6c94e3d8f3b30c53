-------------------------- MODULE AnemometerProofs --------------------------
(***************************************************************************)
(* Theorems about loop() of the anemometer sketch, for any wind and any    *)
(* distance of the reports that leaves room for a report and an iteration. *)
(***************************************************************************)
EXTENDS Anemometer, PulseCounterProofs

(* Until loopTime goes round for the first time a report is late by an       *)
(* iteration without a report at most, and the first one by setup() too; it  *)
(* has ended when the next one falls due, which is a dataLoopLength after    *)
(* this one was.                                                             *)
ReportsOnTime ==
  ~wrapped =>
    /\ Idle /\ loopTime = 0 => now <= MaxSetup + lag
    /\ Idle /\ loopTime # 0 => now <= loopTime + lag
    /\ ~Idle => now + (MaxIteration - lag) <= loopTime
    /\ loopTime = 0 => sinceReport = dataLoopLength
    /\ loopTime # 0 => sinceReport >= (now - loopTime) + (dataLoopLength - Lateness)

SpacingInv == TypeOK /\ ReportsOnTime

(* The counter and the distance of the reports are whole multiples of g:     *)
(* 16 divides both 2^32 and 10000.                                           *)
Multiple(n, g) == \E k \in Int : n = g * k
Grain(g) == Multiple(Wrap, g) /\ Multiple(dataLoopLength, g)

(* Iterations without a report are so short (8 ms where 16 is the grain) that *)
(* one of them finds the last report before a wrap of millis() due, unless a *)
(* report, which may be of any length, ends too late for that.               *)
QuickIterations == \E g \in Nat \ {0} : Grain(g) /\ 2 * MaxIdle <= g

LoopTimeOnGrain == \A g \in Nat \ {0} : Grain(g) => Multiple(loopTime, g)

(* The last pulse came in this iteration, or this iteration began before a   *)
(* report was due and in the turn of the clock of the last pulse, or just    *)
(* after that turn.                                                          *)
PulseOfThisTurn ==
  \/ Since(now, sTime) <= lag
  \/ /\ lag <= now /\ now - lag < loopTime
     /\ sTime <= now \/ sTime >= Wrap - MaxIdle

(* The windows the sums are right of: those shorter than what is told apart, *)
(* and all of them if iterations without a report are quick.                 *)
Trusted == windowAge < TimeCap \/ QuickIterations

(* What the sums hold, place by place. *)
WindowAt ==
  /\ pc \notin {"loop", "check"} => ~attached
  /\ pc = "save" => start
  /\ Trusted /\ pc \in {"loop", "check", "save"} => OpenWindow
  /\ QuickIterations /\ pc \in {"loop", "check"} /\ ~start => PulseOfThisTurn
  /\ Trusted /\ pc = "speed" => Counted
  /\ pc = "speed" => ArgumentsOfWindow
  /\ pc # "speed" => NoneRead
  /\ pc \in {"cul", "start"} => avgWindCount = 0
  /\ pc = "start" => culPulseTime = 0

MeanInv == TypeOK /\ LoopTimeOnGrain /\ WindowAt

-----------------------------------------------------------------------------
(* Multiples of g. *)

LEMMA MultipleSum ==
  ASSUME NEW g \in Nat \ {0}, NEW m \in Int, NEW n \in Int,
         Multiple(m, g), Multiple(n, g)
  PROVE  Multiple(m + n, g)
<1>1. PICK i \in Int : m = g * i
  BY DEF Multiple
<1>2. PICK j \in Int : n = g * j
  BY DEF Multiple
<1>3. m + n = g * (i + j) /\ i + j \in Int
  BY <1>1, <1>2
<1> QED
  BY <1>3 DEF Multiple

(* The remainder of a multiple by a multiple is one. *)
LEMMA MultipleRest ==
  ASSUME NEW g \in Nat \ {0}, NEW n \in Nat,
         Multiple(n, g), Multiple(Wrap, g)
  PROVE  Multiple(n % Wrap, g)
<1> USE WrapAssumption
<1>1. PICK i \in Int : n = g * i
  BY DEF Multiple
<1>2. PICK j \in Int : Wrap = g * j
  BY DEF Multiple
<1> DEFINE q == n \div Wrap
<1>3. q \in Int /\ n % Wrap = n - Wrap * q
  BY Z3
<1>4. n % Wrap = g * i - (g * j) * q
  BY <1>1, <1>2, <1>3
<1> HIDE DEF q
<1>5. g * i - (g * j) * q = g * (i - j * q) /\ i - j * q \in Int
  BY <1>3, Z3
<1> QED
  BY <1>4, <1>5 DEF Multiple

(* Between two different multiples there is room for g. *)
LEMMA MultipleGap ==
  ASSUME NEW g \in Nat \ {0}, NEW m \in Int, NEW n \in Int,
         Multiple(m, g), Multiple(n, g), m < n
  PROVE  m + g <= n
<1>1. PICK i \in Int : m = g * i
  BY DEF Multiple
<1>2. PICK j \in Int : n = g * j
  BY DEF Multiple
<1>3. i < j
  <2>1. SUFFICES ASSUME i >= j PROVE FALSE
    OBVIOUS
  <2>2. g * (i - j) >= 0
    BY <2>1, Z3
  <2>3. g * (i - j) = g * i - g * j
    BY Z3
  <2> QED
    BY <1>1, <1>2, <2>2, <2>3
<1>4. g * (j - i - 1) >= 0
  BY <1>3, Z3
<1>5. g * (j - i - 1) = g * j - g * i - g
  BY Z3
<1> QED
  BY <1>1, <1>2, <1>4, <1>5

-----------------------------------------------------------------------------
(* dataLoopCount * dataLoopLength goes round as an unsigned long does. *)
LEMMA NextLoopTimeType ==
  ASSUME TypeOK
  PROVE  /\ NextLoopTime \in Millis
         /\ loopTime + dataLoopLength < Wrap => NextLoopTime = loopTime + dataLoopLength
<1>1. loopTime \in Nat /\ dataLoopLength \in Nat /\ Wrap \in Nat \ {0}
  BY LoopAssumption, WrapAssumption DEF TypeOK, Millis
<1>2. loopTime + dataLoopLength \in Nat
  BY <1>1
<1>3. ASSUME NEW n \in Nat
      PROVE  n % Wrap \in 0 .. Wrap - 1 /\ (n < Wrap => n % Wrap = n)
  BY <1>1, Z3
<1> QED
  BY <1>2, <1>3 DEF NextLoopTime, Millis

LEMMA AnemometerStarts ==
  ASSUME Init
  PROVE  TypeOK /\ ReportsOnTime /\ LoopTimeOnGrain /\ WindowAt
<1>1. PulseTypeOK /\ OpenWindow /\ NoneRead
  BY PulseStarts DEF Init
<1>2. TypeOK
  <2>1. loopTime \in Millis
    BY WrapAssumption DEF Init, Millis
  <2>2. sinceReport \in 0 .. dataLoopLength
    BY LoopAssumption DEF Init
  <2>3. Idle => lag <= MaxIdle
    BY LoopAssumption DEF Init, PulseInit
  <2> QED
    BY <1>1, <2>1, <2>2, <2>3 DEF Init, TypeOK
<1>3. ReportsOnTime
  BY LoopAssumption, WrapAssumption DEF Init, PulseInit, ReportsOnTime, Idle, Millis
<1>4. LoopTimeOnGrain
  <2>1. ASSUME NEW g \in Nat \ {0} PROVE 0 = g * 0
    OBVIOUS
  <2> QED
    BY <2>1 DEF Init, LoopTimeOnGrain, Multiple
<1>5. WindowAt
  BY <1>1 DEF Init, WindowAt, PulseInit
<1> QED
  BY <1>2, <1>3, <1>4, <1>5

LEMMA LoopType ==
  ASSUME TypeOK, Loop
  PROVE  TypeOK'
<1> USE Bounds, LoopAssumption DEF TypeOK, PulseTypeOK, ReportSection, LoopStep, Idle
<1>1. CASE Poll
  <2>1. attached' \in BOOLEAN /\ wrapped' \in BOOLEAN
    BY <1>1, PulseAssumption, Zenon DEF Poll, detachInterrupt
  <2>2. loopTime' \in Millis
    BY <1>1, NextLoopTimeType DEF Poll
  <2> QED
    BY <1>1, <2>1, <2>2 DEF Poll
<1>2. CASE ReadAverage
  BY <1>2 DEF ReadAverage, ReadArgument
<1>3. CASE ResetCount
  BY <1>3 DEF ResetCount, Unread
<1>4. CASE ResetTime
  BY <1>4 DEF ResetTime
<1>5. CASE Restart
  BY <1>5 DEF Restart
<1>6. CASE Show
  BY <1>6 DEF Show
<1>7. CASE Reattach
  BY <1>7 DEF Reattach
<1> QED
  BY <1>1, <1>2, <1>3, <1>4, <1>5, <1>6, <1>7 DEF Loop

LEMMA AnemometerTypeKept ==
  ASSUME TypeOK, [Next]_vars
  PROVE  TypeOK'
<1>1. CASE Loop
  BY <1>1, LoopType
<1>2. CASE TimePasses
  <2>1. sinceReport' \in 0 .. dataLoopLength
    BY <1>2, LoopAssumption DEF TimePasses, TypeOK, UpTo
  <2>2. Idle' => lag' <= MaxIdle
    BY <1>2, LoopAssumption, Bounds DEF TimePasses, Tick, TypeOK, PulseTypeOK, Idle
  <2> QED
    BY <1>2, <2>1, <2>2, TickType DEF TimePasses, TypeOK
<1>3. CASE Turn
  <2>1. UNCHANGED lag
    BY <1>3 DEF Turn, Rise, Fall
  <2> QED
    BY <1>3, <2>1, RiseType DEF Turn, TypeOK, PulseTypeOK, Fall, loopVars, sharedVars, Idle
<1>4. CASE UNCHANGED vars
  BY <1>4 DEF vars, pulseVars, loopVars, sharedVars, TypeOK, PulseTypeOK, Idle
<1> QED
  BY <1>1, <1>2, <1>3, <1>4 DEF Next

-----------------------------------------------------------------------------
(* The reports before the first wrap of loopTime. *)

LEMMA OnTimeKept ==
  ASSUME SpacingInv, [Next]_vars
  PROVE  ReportsOnTime'
<1>1. /\ now \in Nat /\ loopTime \in Nat /\ lag \in 0 .. MaxIteration
      /\ sinceReport \in 0 .. dataLoopLength
      /\ MaxIteration \in Nat /\ MaxIdle \in Nat /\ MaxSetup \in Nat
      /\ dataLoopLength \in Nat \ {0}
      /\ MaxSetup + MaxIteration + MaxIdle <= dataLoopLength
      /\ Idle => lag <= MaxIdle
  BY LoopAssumption, Bounds DEF SpacingInv, TypeOK, PulseTypeOK, Millis
<1>2. CASE Poll
  <2>1. CASE now >= loopTime
    <3>1. SUFFICES ASSUME ~wrapped' PROVE ReportsOnTime'
      BY DEF ReportsOnTime
    <3>2. ~wrapped /\ loopTime + dataLoopLength < Wrap
      <4>1. ~wrapped /\ ~(loopTime + dataLoopLength >= Wrap)
        BY <1>2, <2>1, <3>1, Zenon DEF Poll
      <4> QED
        BY <1>1, <4>1, Bounds
    <3>3. /\ loopTime' = loopTime + dataLoopLength
          /\ sinceReport' = 0 /\ lag' = 0 /\ now' = now
      BY <1>2, <2>1, <3>2, NextLoopTimeType DEF Poll, LoopStep, SpacingInv
    <3>4. Idle /\ ~Idle'
      BY <1>2, <2>1 DEF Poll, LoopStep, Idle
    <3> QED
      BY <1>1, <3>2, <3>3, <3>4 DEF SpacingInv, ReportsOnTime, Lateness
  <2>2. CASE ~(now >= loopTime)
    <3>1. Idle /\ Idle'
      BY <1>2, <2>2 DEF Poll, LoopStep, Idle
    <3> QED
      BY <1>1, <1>2, <2>2, <3>1 DEF Poll, LoopStep, SpacingInv, ReportsOnTime, Lateness
  <2> QED
    BY <2>1, <2>2
<1>3. CASE TimePasses
  <2>1. /\ lag' = lag + 1 /\ lag < MaxIteration
        /\ UNCHANGED <<loopTime, wrapped>> /\ Idle' = Idle
        /\ sinceReport' = UpTo(dataLoopLength, sinceReport + 1)
        /\ now' = now + 1 \/ now' = 0
    BY <1>3, TickOfClock, WrapAssumption
       DEF TimePasses, Tick, Advance, Millis, SpacingInv, TypeOK, PulseTypeOK, Idle
  <2>2. Idle => lag < MaxIdle
    BY <1>3 DEF TimePasses
  <2>3. now' = 0 => now + 1 = Wrap /\ loopTime < Wrap
    BY <1>3, TickOfClock, WrapAssumption
       DEF TimePasses, Tick, Advance, Millis, SpacingInv, TypeOK, PulseTypeOK
  <2> QED
    BY <1>1, <2>1, <2>2, <2>3, WrapAssumption DEF SpacingInv, ReportsOnTime, UpTo, Lateness
<1>4. CASE Turn \/ UNCHANGED vars
  <2>1. UNCHANGED <<now, lag, loopTime, sinceReport, wrapped, pc>>
    BY <1>4 DEF Turn, Rise, Fall, loopVars, vars, pulseVars
  <2> QED
    BY <2>1 DEF SpacingInv, ReportsOnTime, Idle, Lateness
<1>5. CASE ReadAverage \/ ResetCount \/ ResetTime \/ Restart \/ Reattach
  <2>1. UNCHANGED <<now, lag, loopTime, sinceReport, wrapped>> /\ Idle' = Idle
    BY <1>5 DEF ReadAverage, ResetCount, ResetTime, Restart, Reattach, LoopStep, Idle
  <2> QED
    BY <2>1 DEF SpacingInv, ReportsOnTime, Lateness
<1>6. CASE Show
  <2>1. UNCHANGED <<now, loopTime, sinceReport, wrapped>> /\ lag' = 0 /\ ~Idle /\ Idle'
    BY <1>6 DEF Show, LoopStep, Idle
  <2> QED
    BY <1>1, <2>1 DEF SpacingInv, ReportsOnTime, Lateness
<1> QED
  BY <1>2, <1>3, <1>4, <1>5, <1>6 DEF Next, Loop

(* Only Poll starts a report, and finds it due. *)
LEMMA ReportStartsDue ==
  ASSUME [Next]_vars, ReportStarts
  PROVE  Poll /\ now >= loopTime
<1>1. Poll
  BY DEF ReportStarts, Next, Loop, ReadAverage, ResetCount, ResetTime, Restart, Show,
     Reattach, LoopStep, TimePasses, Turn, loopVars, vars
<1> QED
  BY <1>1 DEF Poll, LoopStep, ReportStarts

LEMMA ReportIsSpaced ==
  ASSUME SpacingInv, [Next]_vars
  PROVE  ReportStarts /\ ~wrapped => sinceReport + Lateness >= dataLoopLength
<1>1. SUFFICES ASSUME ReportStarts, ~wrapped PROVE sinceReport + Lateness >= dataLoopLength
  OBVIOUS
<1>2. now >= loopTime
  BY <1>1, ReportStartsDue
<1> QED
  BY <1>1, <1>2, LoopAssumption, Bounds
     DEF SpacingInv, ReportsOnTime, Lateness, TypeOK, PulseTypeOK, Millis

-----------------------------------------------------------------------------
(* loopTime and the end of the counter. *)

LEMMA GrainKept ==
  ASSUME TypeOK, LoopTimeOnGrain, [Next]_vars
  PROVE  LoopTimeOnGrain'
<1>1. loopTime' \in {loopTime, NextLoopTime}
  BY DEF Next, Loop, Poll, ReadAverage, ResetCount, ResetTime, Restart, Show, Reattach,
     TimePasses, Turn, loopVars, vars
<1>2. ASSUME NEW g \in Nat \ {0}, Grain(g)
      PROVE  Multiple(NextLoopTime, g)
  <2>1. loopTime \in Nat /\ dataLoopLength \in Nat
    BY LoopAssumption, WrapAssumption DEF TypeOK, Millis
  <2>2. Multiple(loopTime + dataLoopLength, g) /\ loopTime + dataLoopLength \in Nat
    BY <1>2, <2>1, MultipleSum DEF LoopTimeOnGrain, Grain
  <2> QED
    BY <1>2, <2>2, MultipleRest DEF Grain, NextLoopTime
<1>3. ASSUME NEW g \in Nat \ {0}, Grain(g)
      PROVE  Multiple(loopTime', g)
  <2>1. CASE loopTime' = loopTime
    BY <1>3, <2>1 DEF LoopTimeOnGrain
  <2>2. CASE loopTime' = NextLoopTime
    BY <1>2, <1>3, <2>2
  <2> QED
    BY <1>1, <2>1, <2>2
<1> QED
  BY <1>3 DEF LoopTimeOnGrain

LEMMA RoomForIterations ==
  ASSUME TypeOK, LoopTimeOnGrain, QuickIterations
  PROVE  loopTime + 2 * MaxIdle <= Wrap
<1>1. PICK g \in Nat \ {0} : Grain(g) /\ 2 * MaxIdle <= g
  BY DEF QuickIterations
<1>2. loopTime \in Int /\ Wrap \in Int /\ loopTime < Wrap
  BY WrapAssumption DEF TypeOK, Millis
<1>3. loopTime + g <= Wrap
  BY <1>1, <1>2, MultipleGap DEF LoopTimeOnGrain, Grain
<1> QED
  BY <1>1, <1>2, <1>3, LoopAssumption

(* A tick does not bring the clock round to the last pulse again. *)
LEMMA TickAfterPulse ==
  ASSUME MeanInv, TimePasses, QuickIterations, pc \in {"loop", "check"}, ~start
  PROVE  Since(now, sTime) + 1 < Wrap /\ PulseOfThisTurn'
<1>1. /\ now \in Millis /\ sTime \in Millis /\ loopTime \in Millis
      /\ lag \in Nat /\ lag < MaxIdle /\ MaxIdle \in Nat /\ Wrap \in Nat
  BY Bounds, LoopAssumption DEF MeanInv, TypeOK, PulseTypeOK, TimePasses, Idle
<1>2. loopTime + 2 * MaxIdle <= Wrap
  BY RoomForIterations DEF MeanInv
<1>3. /\ UNCHANGED <<sTime, loopTime, pc, start>>
      /\ now' = Advance(now, 1) /\ lag' = lag + 1
  BY DEF TimePasses, Tick, sharedVars
<1>4. PulseOfThisTurn
  BY DEF MeanInv, WindowAt
<1>5. CASE Since(now, sTime) <= lag
  <2>1. Since(now, sTime) \in Nat /\ Since(now, sTime) + 1 < Wrap
    BY <1>1, <1>2, <1>5, TickOfClock DEF Millis
  <2>2. Since(now', sTime') = Since(now, sTime) + 1
    BY <1>1, <1>3, <2>1, TickOfClock
  <2> QED
    BY <1>1, <1>3, <1>5, <2>1, <2>2 DEF PulseOfThisTurn
<1>6. CASE /\ lag <= now /\ now - lag < loopTime
           /\ sTime <= now \/ sTime >= Wrap - MaxIdle
  <2>1. now + 1 < Wrap - MaxIdle
    BY <1>1, <1>2, <1>6 DEF Millis
  <2>2. now' = now + 1
    <3>1. Advance(now, 1) = now + 1
      BY <1>1, <2>1, TickOfClock DEF Millis
    <3> QED
      BY <1>3, <3>1, Zenon
  <2>3. Since(now, sTime) + 1 < Wrap
    <3>1. CASE sTime <= now
      BY <1>1, <2>1, <3>1, TickOfClock DEF Millis
    <3>2. CASE now < sTime
      BY <1>1, <1>6, <2>1, <3>2, TickOfClock DEF Millis
    <3> QED
      BY <1>1, <3>1, <3>2 DEF Millis
  <2>4. PulseOfThisTurn'
    BY <1>1, <1>3, <1>6, <2>1, <2>2 DEF PulseOfThisTurn, Millis
  <2> QED
    BY <2>3, <2>4
<1> QED
  BY <1>4, <1>5, <1>6 DEF PulseOfThisTurn

-----------------------------------------------------------------------------
(* What the steps of loop() do to the window, if the detach works. *)
LEMMA LoopKeepsWindow ==
  ASSUME MeanInv, Loop, DetachWorks
  PROVE  WindowAt'
<1>1. TypeOK /\ WindowAt
  BY DEF MeanInv
<1>2. CASE Poll
  <2>1. /\ pc = "loop" /\ lag' = 0
        /\ UNCHANGED <<now, sTime, start, culPulseTime, avgWindCount, cPulse, per,
                       windowAge, sinceRise>>
    BY <1>2 DEF Poll, LoopStep
  <2>2. Trusted' <=> Trusted
    BY <2>1 DEF Trusted
  <2>3. CASE now >= loopTime
    <3>1. pc' = "speed" /\ ~attached'
      BY <1>2, <2>3 DEF Poll, LoopStep, detachInterrupt
    <3> QED
      BY <1>1, <2>1, <2>2, <3>1
         DEF WindowAt, OpenWindow, Counted, NoneRead, ArgumentsOfWindow
  <2>4. CASE ~(now >= loopTime)
    <3>1. pc' = "check" /\ UNCHANGED <<attached, loopTime>>
      BY <1>2, <2>4 DEF Poll, LoopStep
    <3>2. Trusted /\ pc = "loop" => OpenWindow'
      BY <1>1, <2>1, <3>1 DEF WindowAt, OpenWindow, Counted, Empty
    <3>3. QuickIterations /\ ~start' => PulseOfThisTurn'
      <4>1. SUFFICES ASSUME QuickIterations, ~start PROVE PulseOfThisTurn'
        BY <2>1
      <4>2. /\ now \in Nat /\ now < Wrap /\ sTime \in Nat /\ Wrap \in Nat
            /\ lag \in 0 .. MaxIdle /\ MaxIdle \in Nat
            /\ loopTime \in Nat /\ now < loopTime
        BY <1>1, <2>1, <2>4, Bounds, LoopAssumption DEF TypeOK, PulseTypeOK, Millis, Idle
      <4>3. Since(now, sTime) <= lag => sTime <= now \/ sTime >= Wrap - MaxIdle
        BY <4>2 DEF Since
      <4>4. sTime <= now \/ sTime >= Wrap - MaxIdle
        BY <1>1, <2>1, <4>1, <4>3 DEF WindowAt, PulseOfThisTurn
      <4>5. lag' <= now' /\ now' - lag' < loopTime'
        BY <2>1, <3>1, <4>2
      <4> QED
        BY <2>1, <4>4, <4>5 DEF PulseOfThisTurn
    <3> QED
      BY <1>1, <2>1, <2>2, <3>1, <3>2, <3>3 DEF WindowAt, NoneRead
  <2> QED
    BY <2>3, <2>4
<1>3. CASE ReadAverage
  BY <1>1, <1>3 DEF ReadAverage, ReadArgument, LoopStep, WindowAt, Trusted, Counted, ArgumentsOfWindow
<1>4. CASE ResetCount
  BY <1>1, <1>4 DEF ResetCount, LoopStep, WindowAt, NoneRead
<1>5. CASE ResetTime
  BY <1>1, <1>5 DEF ResetTime, LoopStep, WindowAt, NoneRead
<1>6. CASE Restart
  <2>1. /\ culPulseTime' = 0 /\ avgWindCount' = 0 /\ windowAge' = 0 /\ start'
        /\ pc' = "save" /\ ~attached' /\ UNCHANGED <<cPulse, per>> /\ pc = "start"
    BY <1>1, <1>6 DEF Restart, LoopStep, WindowAt
  <2>2. 0 * MinGap = 0
    BY Bounds
  <2>3. OpenWindow'
    BY <2>1, <2>2 DEF OpenWindow, Counted, Empty
  <2> QED
    BY <1>1, <2>1, <2>3 DEF WindowAt, NoneRead
<1>7. CASE Show
  BY <1>1, <1>7 DEF Show, LoopStep, WindowAt, Trusted, NoneRead, OpenWindow, Counted, Empty
<1>8. CASE Reattach
  <2>1. attached => attached'
    BY <1>8 DEF Reattach
  <2>2. /\ pc = "check" /\ pc' = "loop"
        /\ UNCHANGED <<now, sTime, start, culPulseTime, avgWindCount, cPulse, per,
                       lag, windowAge, sinceRise, loopTime>>
    BY <1>8 DEF Reattach, LoopStep
  <2> QED
    BY <1>1, <2>1, <2>2 DEF WindowAt, Trusted, NoneRead, OpenWindow, Counted, Empty, PulseOfThisTurn
<1> QED
  BY <1>2, <1>3, <1>4, <1>5, <1>6, <1>7, <1>8 DEF Loop

(* A tick within a window that is trusted does not reach the last pulse. *)
LEMMA TickOfTrusted ==
  ASSUME MeanInv, TimePasses, Trusted', TimeCap <= Wrap \/ QuickIterations,
         pc \in {"loop", "check"}, ~start
  PROVE  Since(now, sTime) + 1 < Wrap
<1>1. CASE QuickIterations
  BY <1>1, TickAfterPulse
<1>2. CASE ~QuickIterations
  <2>1. /\ windowAge \in 0 .. TimeCap /\ TimeCap \in Nat /\ Wrap \in Nat
        /\ culPulseTime \in Nat /\ Since(now, sTime) \in Nat
    BY Bounds, TickOfClock DEF MeanInv, TypeOK, PulseTypeOK, Millis
  <2>2. windowAge' < TimeCap /\ windowAge' = UpTo(TimeCap, windowAge + 1)
    BY <1>2 DEF Trusted, TimePasses, Tick
  <2>3. windowAge + 1 < TimeCap
    BY <2>1, <2>2 DEF UpTo
  <2>4. OpenWindow
    BY <2>1, <2>3 DEF MeanInv, WindowAt, Trusted
  <2>5. UpTo(TimeCap, culPulseTime + Since(now, sTime)) <= windowAge
    BY <2>4 DEF OpenWindow
  <2>6. TimeCap <= Wrap
    BY <1>2
  <2> QED
    BY <2>1, <2>3, <2>5, <2>6 DEF UpTo
<1> QED
  BY <1>1, <1>2

(* What the environment does to the window. *)
LEMMA EnvironmentKeepsWindow ==
  ASSUME MeanInv, TimePasses \/ Turn, TimeCap <= Wrap \/ QuickIterations
  PROVE  WindowAt'
<1>1. PulseTypeOK /\ TypeOK /\ WindowAt
  BY DEF MeanInv, TypeOK
<1>2. UNCHANGED <<pc, loopTime>> /\ (Rise \/ Fall \/ Tick)
  BY DEF TimePasses, Turn, loopVars
<1>3. Trusted' => Trusted
  <2>1. windowAge' = windowAge \/ windowAge' = UpTo(TimeCap, windowAge + 1)
    BY <1>2 DEF Rise, Fall, Tick
  <2>2. windowAge' < TimeCap => windowAge < TimeCap
    BY <1>1, <2>1, Bounds DEF UpTo, PulseTypeOK
  <2> QED
    BY <2>2 DEF Trusted
<1>4. CASE pc \in {"loop", "check"}
  <2>1. CASE Rise
    <3>1. OpenWindow => OpenWindow'
      BY <1>1, <2>1, RiseKeepsWindow
    <3>2. UNCHANGED <<now, attached, cPulse, per, lag>>
      BY <1>1, <2>1 DEF Rise, anemometerISR, sharedVars
    <3>3. attached => sTime' = now
      BY <2>1 DEF Rise, anemometerISR
    <3>4. ~attached => UNCHANGED <<sTime, start>>
      BY <2>1 DEF Rise, sharedVars
    <3>5. QuickIterations /\ ~start' => PulseOfThisTurn'
      <4>1. CASE attached
        <5>1. Since(now', sTime') = 0 /\ lag' >= 0
          BY <1>1, <3>2, <3>3, <4>1, TickOfClock, Bounds DEF PulseTypeOK
        <5> QED
          BY <5>1 DEF PulseOfThisTurn
      <4>2. CASE ~attached
        BY <1>1, <1>2, <1>4, <3>2, <3>4, <4>2 DEF WindowAt, PulseOfThisTurn
      <4> QED
        BY <4>1, <4>2
    <3> QED
      BY <1>1, <1>2, <1>3, <1>4, <3>1, <3>2, <3>5 DEF WindowAt, NoneRead
  <2>2. CASE Fall
    BY <1>1, <1>2, <1>3, <1>4, <2>2
       DEF Fall, sharedVars, WindowAt, OpenWindow, Counted, Empty, NoneRead, PulseOfThisTurn
  <2>3. CASE Tick
    <3>1. TimePasses
      BY <1>1, <2>3 DEF Turn, Rise, Fall, Tick, PulseTypeOK
    <3>2. UNCHANGED <<attached, start, cPulse, per>>
      BY <2>3 DEF Tick, sharedVars
    <3>3. Trusted' => OpenWindow'
      <4>1. SUFFICES ASSUME Trusted' PROVE OpenWindow'
        OBVIOUS
      <4>2. OpenWindow
        BY <1>1, <1>3, <1>4, <4>1 DEF WindowAt
      <4>3. ~start => Since(now, sTime) + 1 < Wrap
        BY <1>4, <3>1, <4>1, TickOfTrusted
      <4> QED
        BY <1>1, <2>3, <4>2, <4>3, TickKeepsWindow
    <3>4. QuickIterations /\ ~start' => PulseOfThisTurn'
      BY <1>4, <3>1, <3>2, TickAfterPulse
    <3> QED
      BY <1>1, <1>2, <1>4, <3>2, <3>3, <3>4 DEF WindowAt, NoneRead
  <2> QED
    BY <1>2, <2>1, <2>2, <2>3
<1>5. CASE pc \notin {"loop", "check"}
  <2>1. /\ UNCHANGED <<attached, start, culPulseTime, avgWindCount, cPulse, per>>
        /\ windowAge <= windowAge'
        /\ PulseTypeOK'
    BY <1>1, <1>2, <1>5, DetachedKeepsSums DEF WindowAt
  <2>2. Counted => Counted'
    <3>1. avgWindCount * MinGap \in Int
      BY <1>1, Bounds DEF PulseTypeOK
    <3> QED
      BY <1>1, <2>1, <3>1 DEF Counted, PulseTypeOK
  <2>3. pc = "save" /\ OpenWindow => OpenWindow'
    BY <1>1, <2>1, <2>2 DEF WindowAt, OpenWindow, Empty
  <2> QED
    BY <1>1, <1>2, <1>3, <1>5, <2>1, <2>2, <2>3 DEF WindowAt, NoneRead, ArgumentsOfWindow
<1> QED
  BY <1>4, <1>5

LEMMA MeanKept ==
  ASSUME DetachWorks, TimeCap <= Wrap \/ QuickIterations, MeanInv, [Next]_vars
  PROVE  MeanInv'
<1>1. TypeOK' /\ LoopTimeOnGrain'
  BY AnemometerTypeKept, GrainKept DEF MeanInv
<1>2. WindowAt'
  <2>1. CASE UNCHANGED vars
    BY <2>1 DEF MeanInv, vars, pulseVars, sharedVars, loopVars, WindowAt, Trusted,
       OpenWindow, Counted, Empty, NoneRead, ArgumentsOfWindow, PulseOfThisTurn
  <2> QED
    BY <2>1, LoopKeepsWindow, EnvironmentKeepsWindow DEF Next
<1> QED
  BY <1>1, <1>2 DEF MeanInv

LEMMA MeanInvSaysMean == MeanInv /\ Trusted => MeanOfThisWindow
<1> SUFFICES ASSUME MeanInv, Trusted PROVE MeanOfThisWindow
  OBVIOUS
<1>1. CASE pc = "speed"
  BY <1>1, MeanFromSums DEF MeanInv, WindowAt
<1>2. CASE pc # "speed"
  BY <1>2 DEF MeanInv, WindowAt, NoneRead, MeanOfThisWindow, ArgumentsRead
<1> QED
  BY <1>1, <1>2

-----------------------------------------------------------------------------
(* The variables of loop() and of the interrupt routine keep their types, and *)
(* the sums their bounds.                                                    *)
THEOREM AnemometerTypeCorrect == Spec => []TypeOK
<1>1. Init => TypeOK
  BY AnemometerStarts
<1>2. TypeOK /\ [Next]_vars => TypeOK'
  BY AnemometerTypeKept
<1> QED
  BY <1>1, <1>2, PTL DEF Spec

(* Until dataLoopCount * dataLoopLength overflows for the first time, a      *)
(* report is found due a dataLoopLength after the one before, less what that *)
(* one came late: setup() if it was the first, and one iteration without a   *)
(* report, however long the reports take.                                    *)
THEOREM AnemometerReportsSpaced == Spec => ReportsSpacedBeforeWrap
<1>1. Init => SpacingInv
  BY AnemometerStarts DEF SpacingInv
<1>2. SpacingInv /\ [Next]_vars => SpacingInv'
  BY AnemometerTypeKept, OnTimeKept DEF SpacingInv
<1>3. SpacingInv /\ [Next]_vars =>
        [ReportStarts /\ ~wrapped => sinceReport + Lateness >= dataLoopLength]_vars
  BY ReportIsSpaced
<1> QED
  BY <1>1, <1>2, <1>3, PTL DEF Spec, ReportsSpacedBeforeWrap

(* Where detachInterrupt reaches the interrupt, the mean of a window shorter *)
(* than TimeCap, which may be a whole turn of millis(), is that of turns of  *)
(* this window, however long the iterations of loop() are.                   *)
THEOREM AnemometerMeanOfShortWindow ==
  ASSUME DetachWorks, TimeCap <= Wrap
  PROVE  Spec => [](windowAge < TimeCap => MeanOfThisWindow)
<1>1. Init => MeanInv
  BY AnemometerStarts DEF MeanInv
<1>2. MeanInv /\ [Next]_vars => MeanInv'
  BY MeanKept
<1>3. MeanInv => (windowAge < TimeCap => MeanOfThisWindow)
  BY MeanInvSaysMean DEF Trusted
<1> QED
  BY <1>1, <1>2, <1>3, PTL DEF Spec

(* If iterations without a report are quick, no interval counted began a     *)
(* whole turn of millis() before it seems to, and the mean of every window   *)
(* is that of its turns, however long the wind pauses and however long the   *)
(* reports take.                                                             *)
THEOREM AnemometerMeanOfThisWindow ==
  ASSUME DetachWorks, QuickIterations
  PROVE  Spec => []MeanOfThisWindow
<1>1. Init => MeanInv
  BY AnemometerStarts DEF MeanInv
<1>2. MeanInv /\ [Next]_vars => MeanInv'
  BY MeanKept
<1>3. MeanInv => MeanOfThisWindow
  BY MeanInvSaysMean DEF Trusted
<1> QED
  BY <1>1, <1>2, <1>3, PTL DEF Spec
-----------------------------------------------------------------------------
(* Reports take the window at once. *)

(* Nothing of the window changes. *)
LEMMA WindowStays ==
  ASSUME UNCHANGED <<cPulse, per>>,
         pc = "speed" <=> pc' = "speed",
         Reporting <=> Reporting',
         pc = "speed" \/ ~Reporting => UNCHANGED <<culPulseTime, avgWindCount>>,
         ~Reporting => UNCHANGED windowAge
  PROVE  [Window!WindowNext]_(Window!windowVars)
BY DEF Window!windowVars, ArgumentsRead

LEMMA LoopAtOnce ==
  ASSUME DetachWorks, QuickIterations, MeanInv, MeanInv', Loop
  PROVE  [Window!WindowNext]_(Window!windowVars)
<1> USE DEF ReportSection, Reporting, LoopStep
<1>1. CASE Poll /\ ~(now >= loopTime)
  BY <1>1, WindowStays DEF Poll
<1>2. CASE Poll /\ now >= loopTime
  <2>1. /\ pc = "loop" /\ pc' = "speed" /\ NoneRead /\ NoneRead'
        /\ UNCHANGED <<culPulseTime, avgWindCount>>
    BY <1>2 DEF Poll, MeanInv, WindowAt, NoneRead
  <2>2. Window!Report
    BY <2>1 DEF Window!Report, NoneRead, ArgumentsRead
  <2> QED
    BY <2>2 DEF Window!WindowNext
<1>3. CASE ReadAverage
  <2>1. /\ pc' = "speed" /\ pc = "speed" /\ ~ArgumentsRead
        /\ UNCHANGED <<culPulseTime, avgWindCount, windowAge>>
    BY <1>3 DEF ReadAverage
  <2>2. CASE ArgumentsRead'
    <3>1. cPulse' = culPulseTime /\ per' = avgWindCount
      BY <2>1, <2>2 DEF MeanInv, WindowAt, ArgumentsOfWindow, ArgumentsRead
    <3>2. <<culPulseTime, avgWindCount>> # <<>>
      BY PairIsReport
    <3>3. Window!Show
      BY <2>1, <2>2, <3>1, <3>2 DEF Window!Show
    <3> QED
      BY <3>3 DEF Window!WindowNext
  <2>3. CASE ~ArgumentsRead'
    BY <2>1, <2>3 DEF Window!windowVars
  <2> QED
    BY <2>2, <2>3
<1>4. CASE ResetCount
  <2>1. pc = "speed" /\ pc' = "cul" /\ ArgumentsRead /\ ~ArgumentsRead'
    BY <1>4 DEF ResetCount, ArgumentsRead
  <2>2. <<cPulse, per>> # <<>>
    BY PairIsReport
  <2>3. Window!Hide
    BY <2>1, <2>2 DEF Window!Hide
  <2> QED
    BY <2>3 DEF Window!WindowNext
<1>5. CASE ResetTime
  BY <1>5, WindowStays DEF ResetTime
<1>6. CASE Restart
  <2>1. /\ pc = "start" /\ pc' = "save" /\ windowAge' = 0 /\ NoneRead /\ NoneRead'
        /\ culPulseTime' = 0 /\ avgWindCount' = 0
    BY <1>6 DEF Restart, MeanInv, WindowAt, NoneRead
  <2> QED
    BY <2>1 DEF Window!windowVars, ArgumentsRead, NoneRead
<1>7. CASE Show
  BY <1>7, WindowStays DEF Show
<1>8. CASE Reattach
  BY <1>8, WindowStays DEF Reattach
<1> QED
  BY <1>1, <1>2, <1>3, <1>4, <1>5, <1>6, <1>7, <1>8 DEF Loop

LEMMA EnvironmentAtOnce ==
  ASSUME QuickIterations, MeanInv, TimePasses \/ Turn
  PROVE  [Window!WindowNext]_(Window!windowVars)
<1>1. PulseTypeOK /\ WindowAt /\ pc' = pc /\ TypeOK
  BY DEF MeanInv, TypeOK, TimePasses, Turn, loopVars
<1>2. CASE TimePasses
  <2>1. /\ windowAge' = UpTo(TimeCap, windowAge + 1)
        /\ UNCHANGED <<culPulseTime, avgWindCount, cPulse, per>>
    BY <1>2 DEF TimePasses, Tick, sharedVars
  <2>2. CASE Reporting
    BY <1>1, <2>1, <2>2, WindowStays DEF Reporting
  <2>3. CASE ~Reporting
    <3>1. Window!Pass
      BY <1>1, <2>1, <2>3
         DEF Window!Pass, Window!Capped, UpTo, Reporting, ReportSection, ArgumentsRead
    <3> QED
      BY <3>1 DEF Window!WindowNext
  <2> QED
    BY <2>2, <2>3
<1>3. CASE Turn
  <2>1. (Rise \/ Fall) /\ UNCHANGED <<windowAge, cPulse, per>>
    BY <1>3 DEF Turn, Rise, Fall
  <2>2. CASE UNCHANGED <<culPulseTime, avgWindCount>>
    BY <1>1, <2>1, <2>2, WindowStays DEF Reporting
  <2>3. CASE ~UNCHANGED <<culPulseTime, avgWindCount>>
    <3>1. Rise /\ attached
      BY <2>1, <2>3 DEF Rise, Fall, sharedVars
    <3>2. pc \in {"loop", "check"} /\ OpenWindow
      BY <1>1, <3>1 DEF WindowAt, Trusted
    <3>3. /\ culPulseTime' \in UpTo(TimeCap, culPulseTime + MinGap) .. windowAge
          /\ avgWindCount' = avgWindCount + 1
      BY <1>1, <2>3, <3>1, <3>2, RiseCounts
    <3>4. Window!Turn
      BY <1>1, <2>1, <3>2, <3>3
         DEF Window!Turn, Window!Capped, UpTo, Reporting, ReportSection, ArgumentsRead
    <3> QED
      BY <3>4 DEF Window!WindowNext
  <2> QED
    BY <2>2, <2>3
<1> QED
  BY <1>2, <1>3

(* If detachInterrupt reaches the interrupt and iterations without a report   *)
(* are quick, a report of any length takes the sums of its window at once,   *)
(* however its accesses interleave with the pulses, the ticks and the wraps  *)
(* of the clock.                                                             *)
THEOREM AnemometerReportsAtOnce ==
  ASSUME DetachWorks, QuickIterations
  PROVE  Spec => ReportsAtOnce
<1>1. Init => MeanInv
  BY AnemometerStarts DEF MeanInv
<1>2. MeanInv /\ [Next]_vars => MeanInv'
  BY MeanKept
<1>3. ASSUME Init PROVE Window!WindowInit
  BY <1>3 DEF Init, PulseInit, Window!WindowInit, Reporting, ReportSection, ArgumentsRead
<1>4. MeanInv /\ MeanInv' /\ [Next]_vars => [Window!WindowNext]_(Window!windowVars)
  <2>1. ASSUME UNCHANGED vars PROVE [Window!WindowNext]_(Window!windowVars)
    BY <2>1, WindowStays DEF vars, pulseVars, sharedVars, loopVars, Reporting
  <2> QED
    BY <2>1, LoopAtOnce, EnvironmentAtOnce DEF Next
<1> QED
  BY <1>1, <1>2, <1>3, <1>4, PTL DEF Spec, ReportsAtOnce, Window!WindowSpec
=============================================================================
