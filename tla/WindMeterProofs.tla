--------------------------- MODULE WindMeterProofs ---------------------------
(***************************************************************************)
(* Theorems about the wind-measuring sketch, for any wind, any report      *)
(* length shorter than a turn of millis() and any time an iteration of     *)
(* loop() may take.                                                        *)
(***************************************************************************)
EXTENDS WindMeter, PulseCounterProofs

(* Between two reports the timer of the reports shows true time.             *)
TimerShowsAge ==
  pc = "loop" =>
    /\ sinceReport = UpTo(ReportLength + 1, Since(now, dataTimer))
    /\ Since(now, dataTimer) <= ReportLength + lag

SpacingInv == TypeOK /\ TimerShowsAge

(* What the sums hold, place by place.  Outside the report section the       *)
(* window is open, and its last pulse is younger than its last report; in    *)
(* the report section nothing is counted, and the arguments are read of the  *)
(* sums before these are reset one by one.                                   *)
WindowAt ==
  /\ attached <=> pc = "loop"
  /\ pc \in {"loop", "attach"} => OpenWindow
  /\ pc \in {"loop", "attach"} /\ ~start =>
       Since(now, sTime) <= Since(now, dataTimer)
  /\ pc = "attach" => start
  /\ pc \in {"mph", "ms"} => Counted /\ ArgumentsOfWindow
  /\ pc \notin {"mph", "ms"} => NoneRead
  /\ pc \in {"count", "start"} => culPulseTime = 0
  /\ pc = "start" => avgWindCount = 0

MeanInv == SpacingInv /\ WindowAt

-----------------------------------------------------------------------------
LEMMA WindStarts == Init => SpacingInv /\ WindowAt
<1> SUFFICES ASSUME Init PROVE SpacingInv /\ WindowAt
  OBVIOUS
<1>1. 0 \in Millis /\ Since(0, 0) = 0
  BY WrapAssumption DEF Millis, Since
<1>2. PulseTypeOK /\ OpenWindow /\ NoneRead
  BY <1>1, PulseStarts DEF Init
<1>3. TypeOK
  BY <1>1, <1>2, ReportAssumption DEF Init, TypeOK
<1>4. TimerShowsAge
  BY <1>1, ReportAssumption DEF Init, TimerShowsAge, PulseInit, UpTo
<1>5. WindowAt
  BY <1>2 DEF Init, WindowAt, PulseInit
<1> QED
  BY <1>3, <1>4, <1>5 DEF SpacingInv

(* loop() leaves every variable of its type. *)
LEMMA LoopType ==
  ASSUME TypeOK, Loop
  PROVE  TypeOK'
<1> USE Bounds, ReportAssumption DEF TypeOK, PulseTypeOK, ReportSection, LoopStep
<1>1. CASE Poll
  <2>1. attached' \in BOOLEAN
    BY <1>1, PulseAssumption, Zenon DEF Poll, Due, detachInterrupt
  <2>2. pc' \in {"mph", "loop"}
    BY <1>1, Zenon DEF Poll
  <2> QED
    BY <1>1, <2>1, <2>2 DEF Poll
<1>2. CASE ReadAverages
  BY <1>2 DEF ReadAverages, ReadArgument
<1>3. CASE UseAverages
  BY <1>3 DEF UseAverages, Unread
<1>4. CASE ResetTime
  BY <1>4 DEF ResetTime
<1>5. CASE ResetCount
  BY <1>5 DEF ResetCount
<1>6. CASE Restart
  BY <1>6 DEF Restart
<1>7. CASE Attach
  BY <1>7 DEF Attach
<1> QED
  BY <1>1, <1>2, <1>3, <1>4, <1>5, <1>6, <1>7 DEF Loop

LEMMA WindTypeKept ==
  ASSUME TypeOK, [Next]_vars
  PROVE  TypeOK'
<1>1. CASE Loop
  BY <1>1, LoopType
<1>2. CASE TimePasses
  <2>1. sinceReport' \in 0 .. ReportLength + 1
    BY <1>2, ReportAssumption DEF TimePasses, TypeOK, UpTo
  <2> QED
    BY <1>2, <2>1, TickType DEF TimePasses, TypeOK
<1>3. CASE Turn
  BY <1>3, RiseType DEF Turn, TypeOK, PulseTypeOK, Fall, loopVars, sharedVars
<1>4. CASE UNCHANGED vars
  BY <1>4 DEF vars, pulseVars, loopVars, sharedVars, TypeOK, PulseTypeOK
<1> QED
  BY <1>1, <1>2, <1>3, <1>4 DEF Next

(* A tick between two reports is a tick of the timer of the reports. *)
LEMMA TickOfTimer ==
  ASSUME SpacingInv, TimePasses, pc = "loop"
  PROVE  /\ Since(now, dataTimer) \in Nat
         /\ Since(now, dataTimer) + 1 < Wrap
         /\ Since(now', dataTimer') = Since(now, dataTimer) + 1
<1>1. Since(now, dataTimer) \in Nat
  BY TickOfClock DEF SpacingInv, TypeOK, PulseTypeOK, Millis
<1>2. Since(now, dataTimer) <= ReportLength + lag /\ lag < MaxIteration
  BY DEF SpacingInv, TimerShowsAge, TimePasses, Tick
<1>3. Since(now, dataTimer) + 1 < Wrap
  BY <1>1, <1>2, ReportAssumption, Bounds DEF SpacingInv, TypeOK, PulseTypeOK
<1>4. now' = Advance(now, 1) /\ dataTimer' = dataTimer
  BY DEF TimePasses, Tick
<1> QED
  BY <1>1, <1>3, <1>4, TickOfClock DEF SpacingInv, TypeOK, PulseTypeOK

LEMMA SpacingKept ==
  ASSUME SpacingInv, [Next]_vars
  PROVE  SpacingInv'
<1>1. TypeOK'
  BY WindTypeKept DEF SpacingInv
<1>2. TimerShowsAge'
  <2>1. CASE Poll
    BY <2>1, ReportAssumption, TickOfClock
       DEF Poll, LoopStep, Due, SpacingInv, TimerShowsAge, TypeOK, PulseTypeOK, Millis
  <2>2. CASE Attach
    <3>1. Since(now', dataTimer') = 0
      BY <2>2, TickOfClock DEF Attach, LoopStep, SpacingInv, TypeOK, PulseTypeOK
    <3> QED
      BY <2>2, <3>1, ReportAssumption, Bounds
         DEF Attach, SpacingInv, TimerShowsAge, UpTo, TypeOK, PulseTypeOK
  <2>3. CASE ReadAverages \/ UseAverages \/ ResetTime \/ ResetCount \/ Restart
    BY <2>3 DEF ReadAverages, UseAverages, ResetTime, ResetCount, Restart,
       LoopStep, TimerShowsAge
  <2>4. CASE TimePasses
    <3>1. SUFFICES ASSUME pc = "loop" PROVE TimerShowsAge'
      BY <2>4 DEF TimePasses, TimerShowsAge
    <3>2. sinceReport = UpTo(ReportLength + 1, Since(now, dataTimer))
      BY <3>1 DEF SpacingInv, TimerShowsAge
    <3>3. lag' = lag + 1 /\ sinceReport' = UpTo(ReportLength + 1, sinceReport + 1)
      BY <2>4 DEF TimePasses, Tick
    <3>4. sinceReport' = UpTo(ReportLength + 1, Since(now, dataTimer) + 1)
      BY <2>4, <3>1, <3>2, <3>3, TickOfTimer, ReportAssumption DEF UpTo
    <3>5. Since(now, dataTimer) + 1 <= ReportLength + lag'
      BY <2>4, <3>1, <3>3, TickOfTimer, ReportAssumption
         DEF SpacingInv, TimerShowsAge, TypeOK, PulseTypeOK
    <3> QED
      BY <2>4, <3>1, <3>4, <3>5, TickOfTimer DEF TimerShowsAge
  <2>5. CASE Turn
    <3>1. UNCHANGED <<pc, dataTimer, sinceReport, now, lag>>
      BY <2>5 DEF Turn, Rise, Fall, loopVars
    <3> QED
      BY <3>1 DEF SpacingInv, TimerShowsAge
  <2>6. CASE UNCHANGED vars
    BY <2>6 DEF vars, pulseVars, loopVars, SpacingInv, TimerShowsAge
  <2> QED
    BY <2>1, <2>2, <2>3, <2>4, <2>5, <2>6 DEF Next, Loop
<1> QED
  BY <1>1, <1>2 DEF SpacingInv

(* A report starts only when more than ReportLength has really passed. *)
LEMMA ReportIsDue ==
  ASSUME SpacingInv, [Next]_vars
  PROVE  pc = "loop" /\ pc' = "mph" => sinceReport > ReportLength
<1>1. SUFFICES ASSUME pc = "loop", pc' = "mph" PROVE sinceReport > ReportLength
  OBVIOUS
<1>2. Poll
  BY <1>1 DEF Next, Loop, ReadAverages, UseAverages, ResetTime, ResetCount, Restart,
     Attach, LoopStep, TimePasses, Turn, loopVars, vars
<1>3. Since(now, dataTimer) > ReportLength
  BY <1>1, <1>2 DEF Poll, LoopStep, Due
<1>4. Since(now, dataTimer) \in Nat
  BY TickOfClock DEF SpacingInv, TypeOK, PulseTypeOK, Millis
<1> QED
  BY <1>1, <1>3, <1>4, ReportAssumption DEF SpacingInv, TimerShowsAge, UpTo

-----------------------------------------------------------------------------
(* What the steps of loop() do to the window, if the detach works. *)
LEMMA LoopKeepsWindow ==
  ASSUME MeanInv, Loop, DetachWorks
  PROVE  WindowAt'
<1> USE DEF MeanInv, WindowAt, LoopStep
<1>1. CASE Poll
  BY <1>1 DEF Poll, detachInterrupt, OpenWindow, Counted, Empty, NoneRead, ArgumentsOfWindow
<1>2. CASE ReadAverages
  BY <1>2 DEF ReadAverages, ReadArgument, Counted, ArgumentsOfWindow
<1>3. CASE UseAverages
  BY <1>3 DEF UseAverages, Counted, ArgumentsOfWindow, NoneRead
<1>4. CASE ResetTime
  BY <1>4 DEF ResetTime, NoneRead
<1>5. CASE ResetCount
  BY <1>5 DEF ResetCount, NoneRead
<1>6. CASE Restart
  <2>1. culPulseTime' = 0 /\ avgWindCount' = 0 /\ windowAge' = 0 /\ start'
    BY <1>6 DEF Restart
  <2>2. 0 * MinGap = 0
    BY Bounds
  <2>3. OpenWindow'
    BY <2>1, <2>2 DEF OpenWindow, Counted, Empty
  <2> QED
    BY <1>6, <2>1, <2>3 DEF Restart, NoneRead
<1>7. CASE Attach
  BY <1>7 DEF Attach, NoneRead, OpenWindow, Counted, Empty
<1> QED
  BY <1>1, <1>2, <1>3, <1>4, <1>5, <1>6, <1>7 DEF Loop

(* What the environment does to it. *)
LEMMA EnvironmentKeepsWindow ==
  ASSUME MeanInv, TimePasses \/ Turn
  PROVE  WindowAt'
<1>1. PulseTypeOK /\ TypeOK /\ WindowAt
  BY DEF MeanInv, SpacingInv, TypeOK
<1>2. UNCHANGED <<pc, dataTimer>> /\ (Rise \/ Fall \/ Tick)
  BY DEF TimePasses, Turn, loopVars
<1>3. CASE pc = "loop"
  <2>1. CASE Rise
    <3>1. OpenWindow'
      BY <1>1, <1>3, <2>1, RiseKeepsWindow DEF WindowAt
    <3>2. sTime' = now /\ UNCHANGED <<now, attached, cPulse, per>>
      BY <1>1, <1>3, <2>1 DEF Rise, anemometerISR, WindowAt
    <3>3. Since(now', sTime') = 0 /\ Since(now', dataTimer') >= 0
      BY <1>1, <1>2, <3>2, TickOfClock DEF TypeOK, PulseTypeOK, Millis
    <3> QED
      BY <1>1, <1>2, <1>3, <3>1, <3>2, <3>3 DEF WindowAt, NoneRead
  <2>2. CASE Fall
    BY <1>1, <1>2, <1>3, <2>2 DEF Fall, sharedVars, WindowAt, OpenWindow, Counted, Empty, NoneRead
  <2>3. CASE Tick
    <3>1. TimePasses
      BY <1>1, <2>3 DEF Turn, Rise, Fall, Tick, PulseTypeOK
    <3>2. /\ Since(now, dataTimer) + 1 < Wrap
          /\ Since(now', dataTimer') = Since(now, dataTimer) + 1
          /\ Since(now, dataTimer) \in Nat
      BY <1>3, <3>1, TickOfTimer DEF MeanInv
    <3>3. Since(now, sTime) \in Nat
      BY <1>1, TickOfClock DEF PulseTypeOK, Millis
    <3>4. ~start => Since(now, sTime) <= Since(now, dataTimer)
      BY <1>1, <1>3 DEF WindowAt
    <3>5. ~start => Since(now, sTime) + 1 < Wrap
      BY <3>2, <3>3, <3>4, Bounds
    <3>6. OpenWindow'
      BY <1>1, <1>3, <2>3, <3>5, TickKeepsWindow DEF WindowAt
    <3>7. UNCHANGED <<attached, sTime, start, cPulse, per>> /\ now' = Advance(now, 1)
      BY <2>3 DEF Tick, sharedVars
    <3>8. ~start' => Since(now', sTime') <= Since(now', dataTimer')
      <4>1. SUFFICES ASSUME ~start PROVE Since(now', sTime') <= Since(now', dataTimer')
        BY <3>7
      <4>2. Since(now', sTime') = Since(now, sTime) + 1
        BY <1>1, <3>5, <3>7, <4>1, TickOfClock DEF PulseTypeOK
      <4> QED
        BY <3>2, <3>3, <3>4, <4>1, <4>2
    <3> QED
      BY <1>1, <1>2, <1>3, <3>6, <3>7, <3>8 DEF WindowAt, NoneRead
  <2> QED
    BY <1>2, <2>1, <2>2, <2>3
<1>4. CASE pc # "loop"
  <2>1. /\ UNCHANGED <<attached, start, culPulseTime, avgWindCount, cPulse, per>>
        /\ windowAge <= windowAge'
        /\ PulseTypeOK'
    BY <1>1, <1>2, <1>4, DetachedKeepsSums DEF WindowAt
  <2>2. Counted => Counted'
    <3>1. avgWindCount * MinGap \in Int
      BY <1>1, Bounds DEF PulseTypeOK
    <3> QED
      BY <1>1, <2>1, <3>1 DEF Counted, PulseTypeOK
  <2>3. pc = "attach" => OpenWindow'
    BY <1>1, <2>1, <2>2 DEF WindowAt, OpenWindow, Empty
  <2> QED
    BY <1>1, <1>2, <1>4, <2>1, <2>2, <2>3 DEF WindowAt, NoneRead, ArgumentsOfWindow
<1> QED
  BY <1>3, <1>4

LEMMA MeanKept ==
  ASSUME DetachWorks, MeanInv, [Next]_vars
  PROVE  MeanInv'
<1>1. SpacingInv'
  BY SpacingKept DEF MeanInv
<1>2. WindowAt'
  <2>1. CASE UNCHANGED vars
    BY <2>1 DEF MeanInv, vars, pulseVars, sharedVars, loopVars, WindowAt, OpenWindow,
       Counted, Empty, NoneRead, ArgumentsOfWindow
  <2> QED
    BY <2>1, LoopKeepsWindow, EnvironmentKeepsWindow DEF Next
<1> QED
  BY <1>1, <1>2 DEF MeanInv

(* In the report section the arguments are those of a window that is over;   *)
(* anywhere else none is read.                                               *)
LEMMA MeanInvSaysMean == MeanInv => MeanOfThisWindow
<1> SUFFICES ASSUME MeanInv PROVE MeanOfThisWindow
  OBVIOUS
<1>1. CASE pc \in {"mph", "ms"}
  BY <1>1, MeanFromSums DEF MeanInv, WindowAt
<1>2. CASE pc \notin {"mph", "ms"}
  BY <1>2 DEF MeanInv, WindowAt, NoneRead, MeanOfThisWindow, ArgumentsRead
<1> QED
  BY <1>1, <1>2

-----------------------------------------------------------------------------
(* The variables of loop() and of the interrupt routine keep their types, and *)
(* the sums their bounds.                                                    *)
THEOREM WindTypeCorrect == Spec => []TypeOK
<1>1. Init => TypeOK
  BY WindStarts DEF SpacingInv
<1>2. TypeOK /\ [Next]_vars => TypeOK'
  BY WindTypeKept
<1> QED
  BY <1>1, <1>2, PTL DEF Spec

(* A report of the wind starts only when more than ReportLength of true time *)
(* has passed since the one before, across every wrap of millis(): what      *)
(* millis() - dataTimer shows between two reports is their true distance.    *)
THEOREM WindReportsSpaced == Spec => ReportsSpaced
<1>1. Init => SpacingInv
  BY WindStarts
<1>2. SpacingInv /\ [Next]_vars => SpacingInv'
  BY SpacingKept
<1>3. SpacingInv /\ [Next]_vars => [pc = "loop" /\ pc' = "mph" => sinceReport > ReportLength]_vars
  BY ReportIsDue
<1> QED
  BY <1>1, <1>2, <1>3, PTL DEF Spec, ReportsSpaced

(* Where detachInterrupt reaches the interrupt, the two averages of a report *)
(* are those of one window: as many intervals as were counted, none shorter  *)
(* than the fastest turn, all of them within the window.                     *)
THEOREM WindMeanOfThisWindow ==
  ASSUME DetachWorks
  PROVE  Spec => []MeanOfThisWindow
<1>1. Init => MeanInv
  BY WindStarts DEF MeanInv
<1>2. MeanInv /\ [Next]_vars => MeanInv'
  BY MeanKept
<1>3. MeanInv => MeanOfThisWindow
  BY MeanInvSaysMean
<1> QED
  BY <1>1, <1>2, <1>3, PTL DEF Spec
-----------------------------------------------------------------------------
(* Reports take the window at once. *)

(* Nothing of the window changes. *)
LEMMA WindowStays ==
  ASSUME UNCHANGED <<cPulse, per>>,
         pc \in {"mph", "ms"} <=> pc' \in {"mph", "ms"},
         Reporting <=> Reporting',
         pc \in {"mph", "ms"} \/ ~Reporting => UNCHANGED <<culPulseTime, avgWindCount>>,
         ~Reporting => UNCHANGED windowAge
  PROVE  [Window!WindowNext]_(Window!windowVars)
BY DEF Window!windowVars, ArgumentsRead

LEMMA LoopAtOnce ==
  ASSUME DetachWorks, MeanInv, MeanInv', Loop
  PROVE  [Window!WindowNext]_(Window!windowVars)
<1> USE DEF ReportSection, Reporting, LoopStep
<1>1. CASE Poll /\ ~Due
  BY <1>1, WindowStays DEF Poll
<1>2. CASE Poll /\ Due
  <2>1. /\ pc = "loop" /\ pc' = "mph" /\ NoneRead /\ NoneRead'
        /\ UNCHANGED <<culPulseTime, avgWindCount>>
    BY <1>2 DEF Poll, MeanInv, WindowAt, NoneRead
  <2>2. Window!Report
    BY <2>1 DEF Window!Report, NoneRead, ArgumentsRead
  <2> QED
    BY <2>2 DEF Window!WindowNext
<1>3. CASE ReadAverages
  <2>1. /\ pc' = pc /\ pc \in {"mph", "ms"} /\ ~ArgumentsRead
        /\ UNCHANGED <<culPulseTime, avgWindCount, windowAge>>
    BY <1>3 DEF ReadAverages
  <2>2. CASE ArgumentsRead'
    <3>1. cPulse' = culPulseTime /\ per' = avgWindCount
      BY <2>1, <2>2 DEF MeanInv, WindowAt, ArgumentsOfWindow, ArgumentsRead
    <3>2. <<culPulseTime, avgWindCount>> # <<>>
      BY PairIsReport
    <3>3. Window!Show
      BY <2>1, <2>2, <3>1, <3>2 DEF Window!Show
    <3> QED
      BY <3>3 DEF Window!WindowNext
  <2>3. CASE ~ArgumentsRead'
    BY <2>1, <2>3 DEF Window!windowVars
  <2> QED
    BY <2>2, <2>3
<1>4. CASE UseAverages
  <2>1. /\ pc \in {"mph", "ms"} /\ pc' = (IF pc = "mph" THEN "ms" ELSE "cul")
        /\ ArgumentsRead /\ ~ArgumentsRead'
        /\ UNCHANGED <<culPulseTime, avgWindCount, windowAge>>
    BY <1>4 DEF UseAverages, ArgumentsRead
  <2>2. <<cPulse, per>> # <<>>
    BY PairIsReport
  <2>3. Window!Hide
    BY <2>1, <2>2 DEF Window!Hide
  <2> QED
    BY <2>3 DEF Window!WindowNext
<1>5. CASE ResetTime
  BY <1>5, WindowStays DEF ResetTime
<1>6. CASE ResetCount
  BY <1>6, WindowStays DEF ResetCount
<1>7. CASE Restart
  <2>1. /\ pc = "start" /\ pc' = "attach" /\ windowAge' = 0 /\ NoneRead /\ NoneRead'
        /\ culPulseTime' = 0 /\ avgWindCount' = 0
    BY <1>7 DEF Restart, MeanInv, WindowAt, NoneRead
  <2> QED
    BY <2>1 DEF Window!windowVars, ArgumentsRead, NoneRead
<1>8. CASE Attach
  BY <1>8, WindowStays DEF Attach
<1> QED
  BY <1>1, <1>2, <1>3, <1>4, <1>5, <1>6, <1>7, <1>8 DEF Loop

LEMMA EnvironmentAtOnce ==
  ASSUME DetachWorks, MeanInv, TimePasses \/ Turn
  PROVE  [Window!WindowNext]_(Window!windowVars)
<1>1. PulseTypeOK /\ WindowAt /\ pc' = pc
  BY DEF MeanInv, SpacingInv, TypeOK, TimePasses, Turn, loopVars
<1>2. CASE TimePasses
  <2>1. /\ windowAge' = UpTo(TimeCap, windowAge + 1)
        /\ UNCHANGED <<culPulseTime, avgWindCount, cPulse, per>>
    BY <1>2 DEF TimePasses, Tick, sharedVars
  <2>2. CASE Reporting
    BY <1>1, <2>1, <2>2, WindowStays DEF Reporting
  <2>3. CASE ~Reporting
    <3>1. Window!Pass
      BY <1>1, <2>1, <2>3
         DEF Window!Pass, Window!Capped, UpTo, Reporting, ArgumentsRead
    <3> QED
      BY <3>1 DEF Window!WindowNext
  <2> QED
    BY <2>2, <2>3
<1>3. CASE Turn
  <2>1. (Rise \/ Fall) /\ UNCHANGED <<windowAge, cPulse, per>>
    BY <1>3 DEF Turn, Rise, Fall
  <2>2. CASE UNCHANGED <<culPulseTime, avgWindCount>>
    BY <1>1, <2>1, <2>2, WindowStays DEF Reporting
  <2>3. CASE ~UNCHANGED <<culPulseTime, avgWindCount>>
    <3>1. Rise /\ attached
      BY <2>1, <2>3 DEF Rise, Fall, sharedVars
    <3>2. pc = "loop" /\ OpenWindow
      BY <1>1, <3>1 DEF WindowAt
    <3>3. /\ culPulseTime' \in UpTo(TimeCap, culPulseTime + MinGap) .. windowAge
          /\ avgWindCount' = avgWindCount + 1
      BY <1>1, <2>3, <3>1, <3>2, RiseCounts
    <3>4. Window!Turn
      BY <1>1, <2>1, <3>2, <3>3
         DEF Window!Turn, Window!Capped, UpTo, Reporting, ReportSection, ArgumentsRead
    <3> QED
      BY <3>4 DEF Window!WindowNext
  <2> QED
    BY <2>2, <2>3
<1> QED
  BY <1>2, <1>3

(* Where detachInterrupt reaches the interrupt, a report takes the sums of    *)
(* its window at once, however its accesses interleave with the pulses.      *)
THEOREM WindReportsAtOnce ==
  ASSUME DetachWorks
  PROVE  Spec => ReportsAtOnce
<1>1. Init => MeanInv
  BY WindStarts DEF MeanInv
<1>2. MeanInv /\ [Next]_vars => MeanInv'
  BY MeanKept
<1>3. ASSUME Init PROVE Window!WindowInit
  BY <1>3 DEF Init, PulseInit, Window!WindowInit, Reporting, ReportSection, ArgumentsRead
<1>4. MeanInv /\ MeanInv' /\ [Next]_vars => [Window!WindowNext]_(Window!windowVars)
  <2>1. ASSUME UNCHANGED vars PROVE [Window!WindowNext]_(Window!windowVars)
    BY <2>1, WindowStays DEF vars, pulseVars, sharedVars, loopVars, Reporting
  <2> QED
    BY <2>1, LoopAtOnce, EnvironmentAtOnce DEF Next
<1> QED
  BY <1>1, <1>2, <1>3, <1>4, PTL DEF Spec, ReportsAtOnce, Window!WindowSpec

(* Where detachInterrupt reaches the interrupt, measurement is shut off while *)
(* a report is made, as the comment of loop() says.                          *)
THEOREM WindShutOff ==
  ASSUME DetachWorks
  PROVE  Spec => ShutOffWhileReporting
<1>1. Init => MeanInv
  BY WindStarts DEF MeanInv
<1>2. MeanInv /\ [Next]_vars => MeanInv'
  BY MeanKept
<1>3. MeanInv /\ [Next]_vars => [Reporting => avgWindCount' <= avgWindCount]_vars
  <2> SUFFICES ASSUME MeanInv, Next, Reporting PROVE avgWindCount' <= avgWindCount
    BY DEF vars
  <2>1. avgWindCount \in Nat /\ ~attached
    BY DEF MeanInv, SpacingInv, TypeOK, PulseTypeOK, WindowAt, Reporting, ReportSection
  <2>2. avgWindCount' \in {avgWindCount, 0}
    <3>1. CASE Loop
      BY <3>1 DEF Loop, Poll, ReadAverages, UseAverages, ResetTime, ResetCount, Restart, Attach
    <3>2. CASE TimePasses \/ Turn
      BY <2>1, <3>2 DEF TimePasses, Tick, Turn, Rise, Fall, sharedVars
    <3> QED
      BY <3>1, <3>2 DEF Next
  <2> QED
    BY <2>1, <2>2
<1> QED
  BY <1>1, <1>2, <1>3, PTL DEF Spec, ShutOffWhileReporting
=============================================================================
