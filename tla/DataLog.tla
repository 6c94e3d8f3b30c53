------------------------------ MODULE DataLog ------------------------------
(***************************************************************************)
(* The files the anemometer writes to its SD card, over power-ups and      *)
(* losses of power.  setup() picks a file name no file has yet (barn.csv,  *)
(* barn_0.csv, barn_1.csv ...), writes a header row to it, and every       *)
(* report appends a row.  A file is known by its place in that order; the  *)
(* contents of a row are its session, the power-up it was written in.      *)
(***************************************************************************)
EXTENDS Integers

CONSTANTS
  NameLimit,     \* the last name of at most 8 characters; later ones fail
  MaxSessions    \* bound on the power-ups

ASSUME LogAssumption == NameLimit \in Nat /\ MaxSessions \in Nat

Names == 0 .. NameLimit
NoName == -1    \* "barn", before it has been given a number and ".csv"

VARIABLES
  stage,       \* "off", "setup" before the header is written, "loop"
  session,     \* number of power-ups so far
  card,        \* did SD.begin find the card in this session?
  filenameSD,  \* place of the chosen name; NameLimit + 1 for one too long
  files,       \* the files on the card
  rows         \* the sessions whose rows a file holds

vars == <<stage, session, card, filenameSD, files, rows>>

Init ==
  /\ stage = "off"
  /\ session = 0
  /\ card = FALSE
  /\ filenameSD = NoName
  /\ files = {}
  /\ rows = [f \in Names |-> {}]

-----------------------------------------------------------------------------
(* Mutant of changeFileNameIfExists: an existing file is avoided only once.  *)
changeFileNameOnce == IF 0 \in files THEN 1 ELSE 0

(* The first name, in order, that no file has. *)
changeFileNameIfExists ==
  CHOOSE n \in 0 .. NameLimit + 1 :
    n \notin files /\ \A k \in 0 .. n - 1 : k \in files

(* setup() up to the choice of the name.  Without a card it returns early    *)
(* and the sketch runs on with nothing to write to.                          *)
PowerUp(found) ==
  /\ stage = "off"
  /\ session < MaxSessions
  /\ session' = session + 1
  /\ card' = found
  /\ filenameSD' = IF found THEN changeFileNameIfExists ELSE NoName
  /\ stage' = IF found THEN "setup" ELSE "loop"
  /\ UNCHANGED <<files, rows>>

(* Mutant of Writable: the length of the name is no matter. *)
WritableAnyName == card

Writable == card /\ filenameSD \in Names

(* saveData opens the file, creating it if need be, and appends a row. *)
RowSaved ==
  /\ Writable
  /\ files' = files \cup {filenameSD}
  /\ rows' = [rows EXCEPT ![filenameSD] = @ \cup {session}]

(* "Error writing to file !": the card is out, or the name too long. *)
RowLost == UNCHANGED <<files, rows>>

(* The header in setup() or the row of a report in loop().                   *)
saveData ==
  /\ stage \in {"setup", "loop"}
  /\ stage' = "loop"
  /\ RowSaved \/ RowLost
  /\ UNCHANGED <<session, card, filenameSD>>

(* The power goes at any moment; in the middle of a write the file may have  *)
(* been created and the row not yet written.                                 *)
PowerLoss ==
  /\ stage \in {"setup", "loop"}
  /\ stage' = "off"
  /\ \/ UNCHANGED files
     \/ Writable /\ files' = files \cup {filenameSD}
  /\ UNCHANGED <<session, card, filenameSD, rows>>

Next == (\E found \in BOOLEAN : PowerUp(found)) \/ saveData \/ PowerLoss

Spec == Init /\ [][Next]_vars

-----------------------------------------------------------------------------
TypeOK ==
  /\ stage \in {"off", "setup", "loop"}
  /\ session \in 0 .. MaxSessions
  /\ card \in BOOLEAN
  /\ filenameSD \in Names \cup {NameLimit + 1, NoName}
  /\ files \in SUBSET Names
  /\ rows \in [Names -> SUBSET (1 .. MaxSessions)]

(* No power-up appends to the file of another, and the files are in the      *)
(* order of the power-ups: whatever fails in between, "barn_" with a higher  *)
(* number is the later measurement.                                          *)
LogInOrder ==
  \A f, g \in Names : \A s \in rows[f], t \in rows[g] :
    /\ f = g => s = t
    /\ f < g => s < t
=============================================================================
