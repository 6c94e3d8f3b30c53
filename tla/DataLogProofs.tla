--------------------------- MODULE DataLogProofs ---------------------------
(***************************************************************************)
(* Theorems about the SD card log, for any number of names and power-ups,  *)
(* and any sequence of power cuts and failures of the card.                *)
(***************************************************************************)
EXTENDS DataLog, TLAPS

(* The sketch is running and has a file to write to. *)
Logging == stage # "off" /\ Writable

(* The names in use are the first m, and the session's own is the last of    *)
(* them, or the next if it has written nothing yet.                          *)
NamesInOrder(m) ==
  /\ files = 0 .. m - 1
  /\ Logging => filenameSD = m \/ filenameSD = m - 1

NamesInUse == \E m \in 0 .. NameLimit + 1 : NamesInOrder(m)

RowsInFiles == \A f \in Names : rows[f] # {} => f \in files
RowsSoFar   == \A f \in Names : \A s \in rows[f] : s <= session

(* The rows of this session are in its own file, and no others are. *)
RowsInOwnFile ==
  Logging => \A f \in Names : \A s \in rows[f] : s = session <=> f = filenameSD

Started == stage # "off" => session # 0

LogInv ==
  /\ TypeOK /\ NamesInUse /\ RowsInFiles
  /\ Started /\ RowsSoFar /\ RowsInOwnFile /\ LogInOrder

-----------------------------------------------------------------------------
(* changeFileNameIfExists finds the first free name when those in use have   *)
(* no gap.                                                                   *)
LEMMA FirstFreeName ==
  ASSUME NEW m \in 0 .. NameLimit + 1, files = 0 .. m - 1
  PROVE  changeFileNameIfExists = m
<1> DEFINE Free(n) == n \notin files /\ \A k \in 0 .. n - 1 : k \in files
<1>1. Free(m)
  BY LogAssumption
<1>2. ASSUME NEW n \in 0 .. NameLimit + 1, Free(n)
      PROVE  n = m
  <2>1. ~(n < m)
    BY <1>2, LogAssumption
  <2>2. ~(m < n)
    <3>1. SUFFICES ASSUME m < n PROVE FALSE
      OBVIOUS
    <3>2. m \in 0 .. n - 1
      BY <3>1, LogAssumption
    <3> QED
      BY <3>2, <1>2, LogAssumption
  <2> QED
    BY <2>1, <2>2, LogAssumption
<1> HIDE DEF Free
<1>3. m = CHOOSE n \in 0 .. NameLimit + 1 : Free(n)
  BY <1>1, <1>2
<1> QED
  BY <1>3 DEF Free, changeFileNameIfExists

LEMMA LogStarts == Init => LogInv
<1> SUFFICES ASSUME Init PROVE LogInv
  OBVIOUS
<1> USE LogAssumption DEF Init, Names, NoName
<1>1. TypeOK
  <2>1. rows \in [Names -> SUBSET (1 .. MaxSessions)]
    OBVIOUS
  <2>2. files \in SUBSET Names /\ session \in 0 .. MaxSessions
    OBVIOUS
  <2> QED
    BY <2>1, <2>2 DEF TypeOK
<1>2. NamesInUse
  <2>1. NamesInOrder(0)
    BY DEF NamesInOrder, Logging
  <2> QED
    BY <2>1 DEF NamesInUse
<1> QED
  BY <1>1, <1>2 DEF LogInv, RowsInFiles, RowsSoFar, RowsInOwnFile, Logging, LogInOrder, Started

-----------------------------------------------------------------------------
(* A new session: no row is its own, and its name is free. *)
LEMMA LogAfterPowerUp ==
  ASSUME LogInv, NEW found \in BOOLEAN, PowerUp(found)
  PROVE  LogInv'
<1> USE LogAssumption DEF LogInv, PowerUp
<1>1. PICK m \in 0 .. NameLimit + 1 : NamesInOrder(m)
  BY DEF NamesInUse
<1>2. changeFileNameIfExists = m
  BY <1>1, FirstFreeName DEF NamesInOrder
<1>3. TypeOK'
  BY <1>2 DEF TypeOK, Names
<1>4. NamesInUse'
  <2>1. NamesInOrder(m)'
    BY <1>1, <1>2 DEF NamesInOrder, Logging, Writable
  <2> QED
    BY <2>1 DEF NamesInUse
<1>5. RowsInFiles' /\ LogInOrder'
  BY DEF RowsInFiles, LogInOrder
<1>6. \A f \in Names : \A s \in rows[f] : s \in Nat /\ s < session'
  BY DEF RowsSoFar, TypeOK
<1>7. RowsSoFar'
  BY <1>6 DEF RowsSoFar, TypeOK
<1>8. RowsInOwnFile'
  <2>1. SUFFICES ASSUME Logging', NEW f \in Names, NEW s \in rows[f]
                 PROVE  s # session' /\ f # filenameSD'
    BY DEF RowsInOwnFile
  <2>2. found
    BY <2>1 DEF Logging, Writable
  <2>3. f \in 0 .. m - 1
    BY <1>1 DEF RowsInFiles, NamesInOrder
  <2> QED
    BY <1>2, <1>6, <2>2, <2>3 DEF TypeOK
<1> QED
  BY <1>3, <1>4, <1>5, <1>7, <1>8 DEF Started, TypeOK

(* A step that leaves the rows alone and creates no file but the session's. *)
LEMMA LogWithoutRow ==
  ASSUME LogInv, UNCHANGED <<session, card, filenameSD, rows>>,
         stage # "off", stage' \in {"off", "loop"},
         UNCHANGED files \/ (Writable /\ files' = files \cup {filenameSD})
  PROVE  LogInv'
<1> USE LogAssumption DEF LogInv
<1>1. PICK m \in 0 .. NameLimit + 1 : NamesInOrder(m)
  BY DEF NamesInUse
<1>2. TypeOK'
  BY DEF TypeOK, Writable
<1>3. NamesInUse'
  <2>1. CASE files' = files
    BY <1>1, <2>1 DEF NamesInUse, NamesInOrder, Logging, Writable
  <2>2. CASE Writable /\ files' = files \cup {filenameSD}
    <3>1. filenameSD = m \/ filenameSD = m - 1
      BY <1>1, <2>2 DEF NamesInOrder, Logging
    <3>2. filenameSD \in 0 .. NameLimit
      BY <2>2 DEF Writable, Names
    <3>3. files' = 0 .. (filenameSD + 1) - 1
      BY <1>1, <2>2, <3>1, <3>2 DEF NamesInOrder
    <3>4. NamesInOrder(filenameSD + 1)'
      BY <3>2, <3>3 DEF NamesInOrder
    <3>5. filenameSD + 1 \in 0 .. NameLimit + 1
      BY <3>2
    <3> QED
      BY <3>4, <3>5 DEF NamesInUse, NamesInOrder
  <2> QED
    BY <2>1, <2>2
<1>4. RowsInFiles' /\ RowsSoFar' /\ LogInOrder'
  BY DEF RowsInFiles, RowsSoFar, LogInOrder
<1>5. RowsInOwnFile'
  BY DEF RowsInOwnFile, Logging, Writable
<1> QED
  BY <1>2, <1>3, <1>4, <1>5 DEF Started

(* A row of this session goes to the end of the log: its file has the last   *)
(* name, and every other row is of an earlier session.                       *)
LEMMA LogWithRow ==
  ASSUME LogInv, RowSaved, stage # "off", stage' = "loop",
         UNCHANGED <<session, card, filenameSD>>
  PROVE  LogInv'
<1> USE LogAssumption DEF LogInv
<1>1. filenameSD \in Names /\ filenameSD \in 0 .. NameLimit /\ Logging
  BY DEF RowSaved, Writable, Logging, Names
<1>2. PICK m \in 0 .. NameLimit + 1 : NamesInOrder(m)
  BY DEF NamesInUse
<1>3. filenameSD = m \/ filenameSD = m - 1
  BY <1>1, <1>2 DEF NamesInOrder
<1>4. /\ session \in Nat /\ session \in 0 .. MaxSessions
      /\ rows \in [Names -> SUBSET (1 .. MaxSessions)]
  BY DEF TypeOK
<1>5. session # 0
  BY DEF Started
<1>6. files' = files \cup {filenameSD} /\ rows' = [rows EXCEPT ![filenameSD] = @ \cup {session}]
  BY DEF RowSaved
<1>7. /\ \A f \in Names : f # filenameSD => rows'[f] = rows[f]
      /\ rows'[filenameSD] = rows[filenameSD] \cup {session}
  BY <1>1, <1>4, <1>6
<1>8. \A f \in Names : f # filenameSD => \A s \in rows[f] : f < filenameSD /\ s < session
  <2>1. SUFFICES ASSUME NEW f \in Names, f # filenameSD, NEW s \in rows[f]
                 PROVE  f < filenameSD /\ s < session
    OBVIOUS
  <2>2. f \in 0 .. m - 1
    BY <1>2 DEF RowsInFiles, NamesInOrder
  <2>3. f < filenameSD
    BY <1>1, <1>2, <1>3, <2>1, <2>2
  <2>4. s \in Nat /\ s <= session /\ s # session
    BY <1>1, <1>4, <2>1 DEF RowsSoFar, RowsInOwnFile
  <2> QED
    BY <1>4, <2>3, <2>4
<1>9. \A s \in rows'[filenameSD] : s = session
  BY <1>1, <1>7 DEF RowsInOwnFile
<1>10. TypeOK'
  BY <1>1, <1>4, <1>5, <1>6 DEF TypeOK, Names
<1>11. NamesInUse'
  <2>1. files' = 0 .. (filenameSD + 1) - 1
    BY <1>1, <1>2, <1>3, <1>6 DEF NamesInOrder
  <2>2. NamesInOrder(filenameSD + 1)'
    BY <1>1, <2>1 DEF NamesInOrder
  <2> QED
    BY <1>1, <2>2 DEF NamesInUse, NamesInOrder
<1>12. RowsInFiles'
  BY <1>6, <1>7 DEF RowsInFiles
<1>13. RowsSoFar'
  BY <1>4, <1>7, <1>9 DEF RowsSoFar
<1>14. RowsInOwnFile'
  BY <1>1, <1>4, <1>7, <1>8, <1>9 DEF RowsInOwnFile, TypeOK
<1>15. LogInOrder'
  <2>1. SUFFICES ASSUME NEW f \in Names, NEW g \in Names,
                        NEW s \in rows'[f], NEW t \in rows'[g]
                 PROVE  (f = g => s = t) /\ (f < g => s < t)
    BY DEF LogInOrder
  <2>2. CASE f # filenameSD /\ g # filenameSD
    BY <1>7, <2>1, <2>2 DEF LogInOrder
  <2>3. CASE f = filenameSD /\ g = filenameSD
    <3>1. s = session /\ t = session
      BY <1>9, <2>1, <2>3
    <3>2. ~(f < g)
      BY <2>3, <1>1
    <3> QED
      BY <3>1, <3>2
  <2>4. CASE f # filenameSD /\ g = filenameSD
    <3>1. f < g /\ s < session /\ t = session
      BY <1>7, <1>8, <1>9, <2>1, <2>4
    <3> QED
      BY <3>1, <1>1 DEF Names
  <2>5. CASE f = filenameSD /\ g # filenameSD
    <3>1. g < f
      BY <1>7, <1>8, <2>1, <2>5
    <3> QED
      BY <3>1, <1>1 DEF Names
  <2> QED
    BY <2>2, <2>3, <2>4, <2>5
<1> QED
  BY <1>10, <1>11, <1>12, <1>13, <1>14, <1>15 DEF Started

LEMMA LogStep == LogInv /\ [Next]_vars => LogInv'
<1> SUFFICES ASSUME LogInv, [Next]_vars PROVE LogInv'
  OBVIOUS
<1>1. CASE \E found \in BOOLEAN : PowerUp(found)
  BY <1>1, LogAfterPowerUp
<1>2. CASE saveData
  <2>1. /\ stage # "off" /\ stage' = "loop"
        /\ UNCHANGED <<session, card, filenameSD>>
    BY <1>2 DEF saveData
  <2>2. CASE RowSaved
    BY <2>1, <2>2, LogWithRow
  <2>3. CASE RowLost
    BY <2>1, <2>3, LogWithoutRow DEF RowLost
  <2> QED
    BY <1>2, <2>2, <2>3 DEF saveData
<1>3. CASE PowerLoss
  <2>1. /\ stage # "off" /\ stage' = "off"
        /\ UNCHANGED <<session, card, filenameSD, rows>>
        /\ UNCHANGED files \/ (Writable /\ files' = files \cup {filenameSD})
    BY <1>3 DEF PowerLoss
  <2> QED
    BY <2>1, LogWithoutRow
<1>4. CASE UNCHANGED vars
  BY <1>4 DEF vars, LogInv, TypeOK, NamesInUse, NamesInOrder, Logging, Writable, RowsInFiles,
              RowsSoFar, RowsInOwnFile, LogInOrder, Started
<1> QED
  BY <1>1, <1>2, <1>3, <1>4 DEF Next

-----------------------------------------------------------------------------
(* The log stays well-typed: in particular changeFileNameIfExists always     *)
(* finds a name, at the latest the one that is too long.                     *)
THEOREM LogTypeCorrect == Spec => []TypeOK
<1>1. LogInv => TypeOK
  BY DEF LogInv
<1> QED
  BY LogStarts, LogStep, <1>1, PTL DEF Spec

(* saveData never appends to the file of another power-up, and a higher      *)
(* number is always a later measurement, whatever the card and the power do. *)
THEOREM SessionsInOrder == Spec => []LogInOrder
<1>1. LogInv => LogInOrder
  BY DEF LogInv
<1> QED
  BY LogStarts, LogStep, <1>1, PTL DEF Spec
=============================================================================
