--------------------------- MODULE PanTiltProofs ---------------------------
(***************************************************************************)
(* The sweep stays within the travel of its servos, moves the tilt servo   *)
(* in small steps only, and sweeps each column where the one before should *)
(* have been.                                                              *)
(***************************************************************************)
EXTENDS PanTilt, TLAPS

(* The scale of the servos, written out. *)
LEMMA Scale ==
  ASSUME NEW a \in Int
  PROVE  map_angle(a) = ((a + 135) * 180) \div 270
<1> QED
  BY DEF map_angle, map, Reach, Travel

(* Every angle of the sweep is a command that the servos can obey. *)
LEMMA MapAngleInTravel ==
  ASSUME NEW a \in -Limit .. Limit
  PROVE  map_angle(a) \in 0 .. Travel
<1>1. a \in Int /\ -90 <= a /\ a <= 90
  BY DEF Limit
<1>2. ((a + 135) * 180) \div 270 \in 0 .. 180
  BY <1>1
<1> QED
  BY <1>1, <1>2, Scale DEF Travel

(* A step of ten degrees of the sky or less is a small move. *)
LEMMA SmallStep ==
  ASSUME NEW a \in -Limit .. Limit, NEW b \in -Limit .. Limit,
         a - b \in -DownStep .. DownStep
  PROVE  map_angle(a) - map_angle(b) \in -LongestMove .. LongestMove
<1>1. a \in Int /\ b \in Int /\ -90 <= a /\ -90 <= b
  BY DEF Limit
<1>2. ((a + 135) * 180) \div 270 - ((b + 135) * 180) \div 270 \in -7 .. 7
  BY <1>1 DEF DownStep
<1> QED
  BY <1>1, <1>2, Scale DEF LongestMove

-----------------------------------------------------------------------------
(* The tilt servo stands where the inner loop was one step earlier, and each *)
(* of the two loops begins where the other one ends: without this the bounds *)
(* of TypeOK are not inductive.                                              *)
TiltFollows ==
  /\ pc = "up" =>
       \/ tiltpos = -Limit /\ tilt = map_angle(-Limit)
       \/ tiltpos - UpStep \in Angles(UpStep) /\ tilt = map_angle(tiltpos - UpStep)
  /\ pc = "down" =>
       \/ tiltpos = Limit /\ tilt = map_angle(Limit)
       \/ tiltpos + DownStep \in Angles(DownStep) /\ tilt = map_angle(tiltpos + DownStep)

SweepInv == TypeOK /\ TiltFollows /\ SweptOneBehind

(* An inner loop leaves its servo at the limit it was moving to. *)
LEMMA TiltAtLimit ==
  ASSUME TypeOK, TiltFollows
  PROVE  /\ pc = "up" /\ tiltpos > Limit => tilt = map_angle(Limit)
         /\ pc = "down" /\ tiltpos < -Limit => tilt = map_angle(-Limit)
<1>1. ASSUME pc = "up", tiltpos > Limit PROVE tiltpos - UpStep = Limit
  BY <1>1 DEF TypeOK, TiltFollows, Angles, Limit, UpStep, DownStep
<1>2. ASSUME pc = "down", tiltpos < -Limit PROVE tiltpos + DownStep = -Limit
  BY <1>2 DEF TypeOK, TiltFollows, Angles, Limit, UpStep, DownStep
<1>3. ASSUME pc = "up", tiltpos > Limit PROVE tilt = map_angle(tiltpos - UpStep)
  BY <1>3 DEF TiltFollows, Limit
<1>4. ASSUME pc = "down", tiltpos < -Limit PROVE tilt = map_angle(tiltpos + DownStep)
  BY <1>4 DEF TiltFollows, Limit
<1> QED
  BY <1>1, <1>2, <1>3, <1>4

LEMMA SweepStarts == Init => SweepInv
<1> SUFFICES ASSUME Init PROVE SweepInv
  OBVIOUS
<1>1. -Limit \in -Limit .. Limit /\ -Limit \in Angles(PanStep)
  BY DEF Angles, Limit, PanStep
<1>2. map_angle(-Limit) \in 0 .. Travel
  BY <1>1, MapAngleInTravel
<1>3. TypeOK
  BY <1>1, <1>2 DEF Init, TypeOK, Limit, UpStep, DownStep
<1>4. TiltFollows /\ SweptOneBehind
  BY <1>1 DEF Init, TiltFollows, SweptOneBehind
<1> QED
  BY <1>3, <1>4 DEF SweepInv

LEMMA SweepStep == SweepInv /\ [Next]_vars => SweepInv'
<1> SUFFICES ASSUME SweepInv, [Next]_vars PROVE SweepInv'
  OBVIOUS
<1> USE DEF SweepInv
<1>1. CASE TiltUp
  <2>1. tiltpos \in Angles(UpStep)
    BY <1>1 DEF TypeOK, TiltFollows, TiltUp, Angles, Limit, UpStep, DownStep
  <2>2. tiltpos \in -Limit .. Limit
    BY <2>1 DEF Angles
  <2>3. tilt' \in 0 .. Travel
    BY <1>1, <2>2, MapAngleInTravel DEF TiltUp
  <2>4. TypeOK'
    BY <1>1, <2>2, <2>3 DEF TypeOK, TiltUp, Limit, UpStep, DownStep
  <2>5. tiltpos' - UpStep = tiltpos
    BY <1>1, <2>2 DEF TiltUp, Limit, UpStep
  <2>6. TiltFollows'
    BY <1>1, <2>1, <2>5 DEF TiltFollows, TiltUp, Angles
  <2>7. SweptOneBehind'
    BY <1>1 DEF SweptOneBehind, TiltUp
  <2> QED
    BY <2>4, <2>6, <2>7
<1>2. CASE Top
  <2>1. TypeOK'
    BY <1>2 DEF TypeOK, Top, Limit, UpStep, DownStep
  <2>2. TiltFollows'
    BY <1>2, TiltAtLimit DEF TiltFollows, Top
  <2>3. SweptOneBehind'
    BY <1>2 DEF SweptOneBehind, Top
  <2> QED
    BY <2>1, <2>2, <2>3
<1>3. CASE TiltDown
  <2>1. tiltpos \in Angles(DownStep)
    BY <1>3 DEF TypeOK, TiltFollows, TiltDown, Angles, Limit, UpStep, DownStep
  <2>2. tiltpos \in -Limit .. Limit
    BY <2>1 DEF Angles
  <2>3. tilt' \in 0 .. Travel
    BY <1>3, <2>2, MapAngleInTravel DEF TiltDown
  <2>4. TypeOK'
    BY <1>3, <2>2, <2>3 DEF TypeOK, TiltDown, Limit, UpStep, DownStep
  <2>5. tiltpos' + DownStep = tiltpos
    BY <1>3, <2>2 DEF TiltDown, Limit, DownStep
  <2>6. TiltFollows'
    BY <1>3, <2>1, <2>5 DEF TiltFollows, TiltDown, Angles
  <2>7. SweptOneBehind'
    BY <1>3 DEF SweptOneBehind, TiltDown
  <2> QED
    BY <2>4, <2>6, <2>7
<1>4. CASE Pan
  <2>1. panpos \in Angles(PanStep) /\ panpos \in -Limit .. Limit
    BY DEF TypeOK, Angles
  <2>2. pan' \in 0 .. Travel
    BY <1>4, <2>1, MapAngleInTravel DEF Pan
  <2>3. /\ panpos' \in Angles(PanStep)
        /\ \/ panpos' = panpos + PanStep
           \/ panpos' = -Limit /\ panpos = Limit
    BY <1>4, <2>1 DEF Pan, NextColumn, Angles, Limit, PanStep
  <2>4. TypeOK'
    BY <1>4, <2>2, <2>3 DEF TypeOK, Pan, Limit, UpStep, DownStep
  <2>5. TiltFollows'
    BY <1>4, TiltAtLimit DEF TiltFollows, Pan
  <2>6. SweptOneBehind'
    BY <1>4, <2>1, <2>3 DEF SweptOneBehind, Pan
  <2> QED
    BY <2>4, <2>5, <2>6
<1>5. CASE UNCHANGED vars
  BY <1>5 DEF vars, TypeOK, TiltFollows, SweptOneBehind
<1> QED
  BY <1>1, <1>2, <1>3, <1>4, <1>5 DEF Next

LEMMA SweepHolds == Spec => []SweepInv
<1> QED
  BY SweepStarts, SweepStep, PTL DEF Spec

-----------------------------------------------------------------------------
(* No angle the sketch computes is beyond what its loops mean it to be, and  *)
(* no command beyond the travel of a servo.                                  *)
THEOREM SweepTypeCorrect == Spec => []TypeOK
<1>1. SweepInv => TypeOK
  BY DEF SweepInv
<1> QED
  BY <1>1, SweepHolds, PTL

(* In every column the pan servo stands where the column before was meant to *)
(* be, and in the first one where it stood at the start or at the end.       *)
THEOREM SweepOneBehind == Spec => []SweptOneBehind
<1>1. SweepInv => SweptOneBehind
  BY DEF SweepInv
<1> QED
  BY <1>1, SweepHolds, PTL

(* The tilt servo never jumps, and rests at its lowest when the pan servo is *)
(* moved.                                                                    *)
THEOREM SweepWithoutJumps == Spec => SmallMoves
<1> DEFINE Small == /\ tilt' - tilt \in -LongestMove .. LongestMove
                    /\ pan' # pan => tilt = map_angle(-Limit)
<1>1. SweepInv /\ [Next]_vars => [Small]_vars
  <2> SUFFICES ASSUME SweepInv, Next PROVE Small
    OBVIOUS
  <2> USE DEF SweepInv
  <2>1. tilt \in Int
    BY DEF TypeOK, Travel
  <2>2. CASE TiltUp
    <3>1. PICK b \in -Limit .. Limit :
            tilt = map_angle(b) /\ tiltpos - b \in -DownStep .. DownStep
      BY <2>2 DEF TypeOK, TiltFollows, TiltUp, Angles, Limit, UpStep, DownStep
    <3>2. tiltpos \in -Limit .. Limit
      BY <2>2 DEF TypeOK, TiltFollows, TiltUp, Angles, Limit, UpStep, DownStep
    <3> QED
      BY <2>2, <3>1, <3>2, SmallStep DEF TiltUp
  <2>3. CASE TiltDown
    <3>1. PICK b \in -Limit .. Limit :
            tilt = map_angle(b) /\ tiltpos - b \in -DownStep .. DownStep
      BY <2>3 DEF TypeOK, TiltFollows, TiltDown, Angles, Limit, UpStep, DownStep
    <3>2. tiltpos \in -Limit .. Limit
      BY <2>3 DEF TypeOK, TiltFollows, TiltDown, Angles, Limit, UpStep, DownStep
    <3> QED
      BY <2>3, <3>1, <3>2, SmallStep DEF TiltDown
  <2>4. CASE Top
    BY <2>1, <2>4 DEF Top, LongestMove
  <2>5. CASE Pan
    BY <2>1, <2>5, TiltAtLimit DEF Pan, LongestMove
  <2> QED
    BY <2>2, <2>3, <2>4, <2>5 DEF Next
<1> QED
  BY <1>1, SweepHolds, PTL DEF Spec, SmallMoves
=============================================================================
