------------------------------ MODULE PanTilt ------------------------------
(***************************************************************************)
(* The sweep of the pyranometer's two servos: column by column, up in      *)
(* small steps, down in larger ones, and only then on to the next column.  *)
(* Angles are in degrees of the sky, commands in degrees of the servos.    *)
(***************************************************************************)
EXTENDS Integers

Limit    == 90    \* the sweep is from -Limit to Limit
PanStep  == 10
UpStep   == 5
DownStep == 10
Reach    == 135   \* what the servos can reach
Travel   == 180   \* the largest command of a servo

VARIABLES
  pc,          \* in which of the two inner loops is loop()?
  panpos, tiltpos,
  pan, tilt    \* what the servos were last told

vars == <<pc, panpos, tiltpos, pan, tilt>>

(* map() of the Arduino library. *)
map(x, inMin, inMax, outMin, outMax) ==
  ((x - inMin) * (outMax - outMin)) \div (inMax - inMin) + outMin

(* tilt_map_angle and pan_map_angle are the same. *)
map_angle(angle) == map(angle, -Reach, Reach, 0, Travel)

Init ==
  /\ pc = "up"
  /\ panpos = -Limit
  /\ tiltpos = -Limit
  /\ pan = map_angle(-Limit)
  /\ tilt = map_angle(-Limit)

TiltUp ==
  /\ pc = "up"
  /\ tiltpos <= Limit
  /\ tilt' = map_angle(tiltpos)
  /\ tiltpos' = tiltpos + UpStep
  /\ UNCHANGED <<pc, panpos, pan>>

(* "take analog measurement", "then go back". *)
Top ==
  /\ pc = "up"
  /\ tiltpos > Limit
  /\ pc' = "down"
  /\ tiltpos' = Limit
  /\ UNCHANGED <<panpos, pan, tilt>>

TiltDown ==
  /\ pc = "down"
  /\ tiltpos >= -Limit
  /\ tilt' = map_angle(tiltpos)
  /\ tiltpos' = tiltpos - DownStep
  /\ UNCHANGED <<pc, panpos, pan>>

(* The next column, or the first one when loop() begins again. *)
NextColumn == IF panpos + PanStep <= Limit THEN panpos + PanStep ELSE -Limit

Pan ==
  /\ pc = "down"
  /\ tiltpos < -Limit
  /\ pc' = "up"
  /\ pan' = map_angle(panpos)
  /\ panpos' = NextColumn
  /\ tiltpos' = -Limit
  /\ UNCHANGED tilt

Next == TiltUp \/ Top \/ TiltDown \/ Pan

Spec == Init /\ [][Next]_vars

-----------------------------------------------------------------------------
(* The angles that steps from the lowest one reach. *)
Angles(step) == {a \in -Limit .. Limit : (a + Limit) % step = 0}

TypeOK ==
  /\ pc \in {"up", "down"}
  /\ panpos \in Angles(PanStep)
  /\ tiltpos \in -Limit - DownStep .. Limit + UpStep
  /\ pan \in 0 .. Travel
  /\ tilt \in 0 .. Travel

(* The pan servo is moved at the end of a column: column panpos is swept, and *)
(* would be measured, in the direction of the column before, and the first   *)
(* one where the servo stood at the start or in the last.                    *)
SweptOneBehind ==
  \E before \in Angles(PanStep) :
    /\ pan = map_angle(before)
    /\ \/ panpos = before + PanStep
       \/ panpos = -Limit /\ before \in {-Limit, Limit}

(* A step of the way down, in degrees of the servo, rounded up. *)
LongestMove == 7

(* No move of the tilt servo is longer than that, from the end of one way to *)
(* the begin of the next neither, and it is at its lowest when the pan servo *)
(* moves.                                                                    *)
SmallMoves ==
  [][/\ tilt' - tilt \in -LongestMove .. LongestMove
     /\ pan' # pan => tilt = map_angle(-Limit)]_vars
=============================================================================
