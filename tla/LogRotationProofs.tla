--------------------------- MODULE LogRotationProofs ---------------------------
(***************************************************************************)
(* Theorems about LogRotation, for any number of threads that launch       *)
(* servers and of directories.                                             *)
(***************************************************************************)
EXTENDS LogRotation, TLAPS

\* Nothing but ends of the launcher and failed launches has disturbed a rotation.
Calm == upsets \cap {"inUse", "overlap"} = {}

\* Where a single, calm rotation is: the directory it has come to is free, so
\* that each one above moves away before the next needs its number.
Room(r) ==
    /\ doing[r] = "age" => turn[r] + 1 \notin DOMAIN dirs
    /\ doing[r] = "age" /\ turn[r] >= Oldest => Oldest \notin DOMAIN dirs
    /\ doing[r] = "create" => 1 \notin DOMAIN dirs
    /\ doing[r] = "move" => 1 \in DOMAIN dirs /\ dirs[1] = 0
    /\ doing[r] = "launch" => logFile = 0

Alone == \A r, q \in Rotators : doing[r] # "idle" /\ doing[q] # "idle" => r = q

RoomForLog ==
    Calm => /\ Alone
            /\ Rotating => ~serverUp
            /\ inUse = 0
            /\ DOMAIN dirs \subseteq 1..Oldest
            /\ \A r \in Rotators : Room(r)

\* The directories before a rotation, in it with those above t moved, and with
\* the new directory 1.
Before ==
    /\ logFile = sessions
    /\ \A i \in Numbers : i \in DOMAIN dirs <=> i <= Oldest /\ i <= sessions
    /\ \A i \in DOMAIN dirs : dirs[i] = sessions - i

Shifted(t) ==
    /\ logFile = sessions
    /\ \A i \in Numbers : i \in DOMAIN dirs <=> \/ i < Oldest /\ i <= sessions /\ i <= t
                                                \/ i <= Oldest /\ i - 1 <= sessions /\ i > t + 1
    /\ \A i \in DOMAIN dirs : dirs[i] = IF i <= t THEN sessions - i ELSE sessions + 1 - i

Created(log) ==
    /\ \A i \in Numbers : i \in DOMAIN dirs <=> i <= Oldest /\ i - 1 <= sessions
    /\ \A i \in DOMAIN dirs : dirs[i] = IF i = 1 THEN log ELSE sessions + 1 - i

InOrder ==
    upsets = {} =>
        /\ ~Rotating => Before
        /\ \A r \in Rotators :
            /\ doing[r] = "delete" => Before
            /\ doing[r] = "age" => Shifted(turn[r])
            /\ doing[r] = "create" => Shifted(0)
            /\ doing[r] = "move" => logFile = sessions /\ Created(0)
            /\ doing[r] = "launch" => Created(sessions)

IInv == RotationTypeOK /\ RoomForLog /\ InOrder

USE LogRotationAssumption

-----------------------------------------------------------------------------
(* What each step does, pointwise.                                         *)

\* One thread goes on and the others stay where they are.
LEMMA Going ==
    ASSUME RotationTypeOK, NEW r \in Rotators, NEW place, NEW i, Proceeds(r, place, i)
    PROVE  /\ DOMAIN doing' = Rotators /\ DOMAIN turn' = Rotators
           /\ doing' = [doing EXCEPT ![r] = place]
           /\ turn' = [turn EXCEPT ![r] = i]
           /\ doing'[r] = place /\ turn'[r] = i
           /\ \A q \in Rotators : q # r => doing'[q] = doing[q] /\ turn'[q] = turn[q]
  BY DEF RotationTypeOK, Proceeds

\* In a calm rotation all other threads are idle.
LEMMA Single ==
    ASSUME RoomForLog, Calm, NEW r \in Rotators, doing[r] # "idle"
    PROVE  /\ \A q \in Rotators : q # r => doing[q] = "idle"
           /\ Rotating /\ ~serverUp /\ inUse = 0
           /\ DOMAIN dirs \subseteq 1..Oldest
           /\ Room(r)
  BY DEF RoomForLog, Alone, Rotating

\* A directory that Age moves goes to the next number, the others stay.
LEMMA Aging ==
    ASSUME RotationTypeOK, NEW r \in Rotators, Age(r)
    PROVE  LET i == turn[r] IN
           /\ i \in 1..Aged
           /\ i \in DOMAIN dirs /\ i + 1 \notin DOMAIN dirs /\ i # inUse =>
                /\ DOMAIN dirs' = (DOMAIN dirs \ {i}) \cup {i + 1}
                /\ dirs'[i + 1] = dirs[i]
                /\ \A j \in DOMAIN dirs \ {i} : dirs'[j] = dirs[j]
           /\ ~(i \in DOMAIN dirs /\ i + 1 \notin DOMAIN dirs /\ i # inUse) => dirs' = dirs
<1> DEFINE i == turn[r]
<1>1. i \in 1..Aged
  BY DEF RotationTypeOK, Age
<1> HIDE DEF i
<1>2. ASSUME i \in DOMAIN dirs, i + 1 \notin DOMAIN dirs, i # inUse
      PROVE  /\ DOMAIN dirs' = (DOMAIN dirs \ {i}) \cup {i + 1}
             /\ dirs'[i + 1] = dirs[i]
             /\ \A j \in DOMAIN dirs \ {i} : dirs'[j] = dirs[j]
  <2>1. dirs' = [j \in (DOMAIN dirs \ {i}) \cup {i + 1} |->
                    IF j = i + 1 THEN dirs[i] ELSE dirs[j]]
    BY <1>2 DEF Age, i
  <2> QED BY <1>2, <2>1
<1>3. ASSUME ~(i \in DOMAIN dirs /\ i + 1 \notin DOMAIN dirs /\ i # inUse)
      PROVE  dirs' = dirs
  BY <1>3 DEF Age, i
<1> QED BY <1>1, <1>2, <1>3 DEF i

\* After it the directory of this turn is free, in a calm rotation.
LEMMA AgedCalmly ==
    ASSUME RotationTypeOK, RoomForLog, Calm, NEW r \in Rotators, Age(r)
    PROVE  /\ turn[r] \notin DOMAIN dirs'
           /\ DOMAIN dirs' \subseteq 1..Oldest
           /\ turn[r] > Oldest => Oldest \notin DOMAIN dirs'
<1>1. doing[r] = "age" /\ Room(r) /\ inUse = 0 /\ DOMAIN dirs \subseteq 1..Oldest
  BY Single DEF Age
<1>2. turn[r] \in 1..Aged /\ turn[r] + 1 \notin DOMAIN dirs
  BY <1>1, Aging DEF Room
<1>3. turn[r] >= Oldest => Oldest \notin DOMAIN dirs
  BY <1>1 DEF Room
<1>4. CASE turn[r] \in DOMAIN dirs
  <2>1. DOMAIN dirs' = (DOMAIN dirs \ {turn[r]}) \cup {turn[r] + 1}
    <3>1. turn[r] # inUse
      BY <1>1, <1>2
    <3> QED BY <1>2, <1>4, <3>1, Aging
  <2>2. turn[r] < Oldest
    BY <1>1, <1>2, <1>3, <1>4
  <2> QED BY <1>1, <1>2, <2>1, <2>2
<1>5. CASE turn[r] \notin DOMAIN dirs
  <2>1. dirs' = dirs
    BY <1>5, Aging
  <2> QED BY <1>1, <1>2, <1>3, <1>5, <2>1
<1> QED BY <1>4, <1>5

-----------------------------------------------------------------------------
(* The directories are numbered by age.                                    *)

\* Directories below the turn are where they were, those above have moved.
LEMMA AgeShifts ==
    ASSUME RotationTypeOK, RoomForLog, Calm, NEW r \in Rotators, Age(r),
           NEW i, i = turn[r], Shifted(i)
    PROVE  Shifted(i - 1)'
<1>1. doing[r] = "age" /\ inUse = 0 /\ sessions \in Nat
  BY Single DEF Age, RotationTypeOK
<1>2. i \in 1..Aged /\ logFile' = logFile /\ sessions' = sessions
  BY Aging DEF Age
<1>3. i + 1 \notin DOMAIN dirs
  BY <1>1, Single DEF Room
<1>4. DOMAIN dirs \subseteq Numbers
  BY DEF RotationTypeOK
<1>5. /\ \A j \in Numbers : j \in DOMAIN dirs' <=> \/ j < Oldest /\ j <= sessions /\ j <= i - 1
                                                   \/ j <= Oldest /\ j - 1 <= sessions /\ j > i
      /\ \A j \in DOMAIN dirs' : dirs'[j] = IF j <= i - 1 THEN sessions - j ELSE sessions + 1 - j
  <2>1. /\ \A j \in Numbers : j \in DOMAIN dirs <=> \/ j < Oldest /\ j <= sessions /\ j <= i
                                                    \/ j <= Oldest /\ j - 1 <= sessions /\ j > i + 1
        /\ \A j \in DOMAIN dirs : dirs[j] = IF j <= i THEN sessions - j ELSE sessions + 1 - j
    BY DEF Shifted
  <2>2. i \in Numbers /\ i + 1 \in Numbers
    BY <1>2 DEF Numbers
  <2>3. CASE i \in DOMAIN dirs
    <3>1. /\ DOMAIN dirs' = (DOMAIN dirs \ {i}) \cup {i + 1}
          /\ dirs'[i + 1] = dirs[i]
          /\ \A j \in DOMAIN dirs \ {i} : dirs'[j] = dirs[j]
      <4>1. i # inUse
        BY <1>1, <1>2
      <4> QED BY <1>3, <2>3, <4>1, Aging
    <3>2. i < Oldest /\ i <= sessions
      BY <1>1, <1>2, <2>1, <2>2, <2>3
    <3>3. ASSUME NEW j \in Numbers
          PROVE  j \in DOMAIN dirs' <=> \/ j < Oldest /\ j <= sessions /\ j <= i - 1
                                        \/ j <= Oldest /\ j - 1 <= sessions /\ j > i
      BY <1>1, <1>2, <2>1, <3>1, <3>2 DEF Numbers
    <3>4. ASSUME NEW j \in DOMAIN dirs'
          PROVE  dirs'[j] = IF j <= i - 1 THEN sessions - j ELSE sessions + 1 - j
      <4>1. j \in Numbers
        BY <1>4, <2>2, <3>1
      <4> QED BY <1>1, <1>2, <2>1, <3>1, <3>2, <4>1 DEF Numbers
    <3> QED BY <3>3, <3>4
  <2>4. CASE i \notin DOMAIN dirs
    <3>1. dirs' = dirs
      BY <2>4, Aging
    <3>2. i >= Oldest \/ i > sessions
      BY <1>1, <1>2, <2>1, <2>2, <2>4
    <3>3. ASSUME NEW j \in Numbers
          PROVE  j \in DOMAIN dirs' <=> \/ j < Oldest /\ j <= sessions /\ j <= i - 1
                                        \/ j <= Oldest /\ j - 1 <= sessions /\ j > i
      BY <1>1, <1>2, <1>3, <2>1, <2>2, <2>4, <3>1, <3>2 DEF Numbers
    <3>4. ASSUME NEW j \in DOMAIN dirs'
          PROVE  dirs'[j] = IF j <= i - 1 THEN sessions - j ELSE sessions + 1 - j
      <4>1. j \in Numbers /\ j # i
        BY <1>4, <2>4, <3>1
      <4> QED BY <1>1, <1>2, <2>1, <3>1, <4>1 DEF Numbers
    <3> QED BY <3>3, <3>4
  <2> QED BY <2>3, <2>4
<1>6. i - 1 + 1 = i
  BY <1>2
<1>7. logFile = sessions
  BY DEF Shifted
<1> QED BY <1>2, <1>5, <1>6, <1>7 DEF Shifted

-----------------------------------------------------------------------------
(* The steps of a rotation.                                                *)

\* A rotation begins.
LEMMA BeginStep ==
    ASSUME IInv, NEW r \in Rotators, BeginRotation(r)
    PROVE  IInv'
<1>1. Proceeds(r, "delete", 0) /\ doing[r] = "idle"
  BY DEF BeginRotation
<1>2. UNCHANGED <<dirs, logFile, sessions, serverUp, inUse>>
  BY DEF BeginRotation
<1>3. RotationTypeOK'
  BY <1>1, <1>2, Going DEF IInv, RotationTypeOK, BeginRotation
<1>4. Calm' => Calm /\ ~Rotating /\ ~serverUp
  BY DEF BeginRotation, Calm, IInv, RotationTypeOK
<1>5. RoomForLog'
  <2> SUFFICES ASSUME Calm' PROVE RoomForLog'
    BY DEF RoomForLog
  <2>1. \A q \in Rotators : q # r => doing'[q] = "idle"
    BY <1>1, <1>4, Going DEF Rotating, IInv
  <2>2. \A q \in Rotators : Room(q)'
    BY <1>1, <2>1, Going DEF Room, IInv
  <2>3. inUse' = 0 /\ DOMAIN dirs' \subseteq 1..Oldest /\ ~serverUp'
    BY <1>2, <1>4 DEF RoomForLog, IInv
  <2> QED BY <2>1, <2>2, <2>3 DEF RoomForLog, Alone, Rotating
<1>6. InOrder'
  <2> SUFFICES ASSUME upsets' = {} PROVE InOrder'
    BY DEF InOrder
  <2>1. upsets = {} /\ ~Rotating
    BY DEF BeginRotation
  <2>2. Before'
    BY <1>2, <2>1 DEF InOrder, IInv, Before
  <2>3. \A q \in Rotators : doing'[q] = IF q = r THEN "delete" ELSE "idle"
    BY <1>1, <2>1, Going DEF Rotating, IInv
  <2>4. Rotating'
    BY <2>3 DEF Rotating
  <2> QED BY <2>2, <2>3, <2>4 DEF InOrder
<1> QED BY <1>3, <1>5, <1>6 DEF IInv

\* The rest of a rotation: what has to be shown of a step of one thread to
\* another place of the rotation.
LEMMA GoesOn ==
    ASSUME IInv, NEW r \in Rotators, NEW place \in {"age", "create", "move", "launch"}, NEW i,
           doing[r] # "idle", Proceeds(r, place, i),
           UNCHANGED <<serverUp, inUse, upsets>>,
           RotationTypeOK',
           Calm => DOMAIN dirs' \subseteq 1..Oldest /\ Room(r)',
           upsets = {} =>
               /\ place = "age" => Shifted(i)'
               /\ place = "create" => Shifted(0)'
               /\ place = "move" => logFile' = sessions' /\ Created(0)'
               /\ place = "launch" => Created(sessions)'
    PROVE  IInv'
<1>1. Calm' <=> Calm
  BY DEF Calm
<1>2. doing'[r] = place /\ turn'[r] = i
  BY Going DEF IInv
<1>3. Calm => \A q \in Rotators : q # r => doing'[q] = "idle"
  BY Going, Single DEF IInv
<1>4. RoomForLog'
  <2> SUFFICES ASSUME Calm PROVE RoomForLog'
    BY <1>1 DEF RoomForLog
  <2>1. \A q \in Rotators : q # r => Room(q)'
    BY <1>3 DEF Room
  <2>2. inUse' = 0 /\ ~serverUp'
    BY Single DEF IInv
  <2> QED BY <1>3, <2>1, <2>2 DEF RoomForLog, Alone, Rotating
<1>5. InOrder'
  <2> SUFFICES ASSUME upsets = {} PROVE InOrder'
    BY DEF InOrder
  <2>1. \A q \in Rotators : q # r => doing'[q] = "idle"
    BY <1>3 DEF Calm
  <2>2. Rotating'
    BY <1>2 DEF Rotating
  <2>3. place = "age" => Shifted(turn[r])'
    BY <1>2 DEF Shifted
  <2> QED BY <1>2, <2>1, <2>2, <2>3 DEF InOrder
<1> QED BY <1>4, <1>5 DEF IInv

\* The oldest directory is deleted.
LEMMA DeleteStep ==
    ASSUME IInv, NEW r \in Rotators, DeleteOldest(r)
    PROVE  IInv'
<1>1. /\ doing[r] = "delete" /\ Proceeds(r, "age", Aged)
      /\ UNCHANGED <<logFile, sessions, serverUp, inUse, upsets>>
  BY DEF DeleteOldest
<1>2. /\ DOMAIN dirs' \subseteq DOMAIN dirs
      /\ \A j \in DOMAIN dirs' : dirs'[j] = dirs[j]
      /\ inUse # Oldest => DOMAIN dirs' = DOMAIN dirs \ {Oldest}
  BY DEF DeleteOldest, OthersThan
<1>3. RotationTypeOK'
  <2>1. /\ DOMAIN dirs' \subseteq Numbers
        /\ \A j \in DOMAIN dirs' : dirs'[j] \in 0..sessions'
    BY <1>1, <1>2 DEF IInv, RotationTypeOK
  <2> QED BY <1>1, <2>1, Going DEF IInv, RotationTypeOK
<1>4. Calm => DOMAIN dirs' \subseteq 1..Oldest /\ Room(r)'
  <2> SUFFICES ASSUME Calm PROVE DOMAIN dirs' \subseteq 1..Oldest /\ Room(r)'
    OBVIOUS
  <2>1. inUse = 0 /\ DOMAIN dirs \subseteq 1..Oldest
    BY <1>1, Single DEF IInv
  <2>2. doing'[r] = "age" /\ turn'[r] = Aged
    BY <1>1, Going DEF IInv
  <2> QED BY <1>2, <2>1, <2>2 DEF Room
<1>5. upsets = {} => Shifted(Aged)'
  <2> SUFFICES ASSUME upsets = {} PROVE Shifted(Aged)'
    OBVIOUS
  <2>1. Before /\ inUse = 0 /\ sessions \in Nat
    BY <1>1, Single DEF IInv, InOrder, Calm, RotationTypeOK
  <2>2. DOMAIN dirs \subseteq Numbers
    BY DEF IInv, RotationTypeOK
  <2>3. DOMAIN dirs' = DOMAIN dirs \ {Oldest} /\ Oldest \in Numbers
    BY <1>2, <2>1 DEF Numbers
  <2>4. ASSUME NEW j \in Numbers
        PROVE  j \in DOMAIN dirs' <=> \/ j < Oldest /\ j <= sessions /\ j <= Aged
                                      \/ j <= Oldest /\ j - 1 <= sessions /\ j > Aged + 1
    BY <2>1, <2>3 DEF Before, Numbers
  <2>5. ASSUME NEW j \in DOMAIN dirs'
        PROVE  dirs'[j] = IF j <= Aged THEN sessions - j ELSE sessions + 1 - j
    <3>1. j \in Numbers /\ j <= Oldest
      BY <1>2, <2>1, <2>2 DEF Before
    <3> QED BY <1>2, <2>1, <3>1 DEF Before, Numbers
  <2> QED BY <1>1, <2>1, <2>4, <2>5 DEF Shifted, Before
<1> QED BY <1>1, <1>3, <1>4, <1>5, GoesOn

\* One directory moves, or none does.
LEMMA AgeStep ==
    ASSUME IInv, NEW r \in Rotators, Age(r)
    PROVE  IInv'
<1>0. PICK i : i = turn[r]
  OBVIOUS
<1>1. /\ doing[r] = "age" /\ i \in 1..Aged
      /\ UNCHANGED <<logFile, sessions, serverUp, inUse, upsets>>
  BY <1>0, Aging DEF Age, IInv
<1>2. IF i > 1 THEN Proceeds(r, "age", i - 1) ELSE Proceeds(r, "create", 0)
  BY <1>0 DEF Age
<1>3. /\ DOMAIN dirs' \subseteq Numbers
      /\ \A j \in DOMAIN dirs' : dirs'[j] \in 0..sessions'
  <2>1. /\ DOMAIN dirs \subseteq Numbers
        /\ \A j \in DOMAIN dirs : dirs[j] \in 0..sessions
    BY DEF IInv, RotationTypeOK
  <2>2. i + 1 \in Numbers
    BY <1>1 DEF Numbers
  <2>3. CASE i \in DOMAIN dirs /\ i + 1 \notin DOMAIN dirs /\ i # inUse
    <3>1. /\ DOMAIN dirs' = (DOMAIN dirs \ {i}) \cup {i + 1}
          /\ dirs'[i + 1] = dirs[i]
          /\ \A j \in DOMAIN dirs \ {i} : dirs'[j] = dirs[j]
      BY <1>0, <2>3, Aging DEF IInv
    <3> QED BY <1>1, <2>1, <2>2, <2>3, <3>1
  <2>4. CASE ~(i \in DOMAIN dirs /\ i + 1 \notin DOMAIN dirs /\ i # inUse)
    <3>1. dirs' = dirs
      BY <1>0, <2>4, Aging DEF IInv
    <3> QED BY <1>1, <2>1, <3>1
  <2> QED BY <2>3, <2>4
<1>4. Calm => /\ i \notin DOMAIN dirs'
              /\ DOMAIN dirs' \subseteq 1..Oldest
              /\ i > Oldest => Oldest \notin DOMAIN dirs'
  BY <1>0, AgedCalmly DEF IInv
<1>5. upsets = {} => Shifted(i - 1)'
  <2>1. upsets = {} => Calm /\ Shifted(i)
    BY <1>0, <1>1 DEF IInv, InOrder, Calm
  <2> QED BY <1>0, <2>1, AgeShifts DEF IInv
<1>6. CASE i > 1
  <2>1. doing'[r] = "age" /\ turn'[r] = i - 1
    BY <1>2, <1>6, Going DEF IInv
  <2>2. RotationTypeOK'
    BY <1>1, <1>2, <1>3, <1>6, Going DEF IInv, RotationTypeOK
  <2>3. Calm => Room(r)'
    BY <1>1, <1>4, <2>1 DEF Room
  <2> QED BY <1>1, <1>2, <1>4, <1>5, <1>6, <2>2, <2>3, GoesOn
<1>7. CASE ~(i > 1)
  <2>1. i = 1
    BY <1>1, <1>7
  <2>2. Proceeds(r, "create", 0) /\ doing'[r] = "create"
    BY <1>2, <1>7, Going DEF IInv
  <2>3. RotationTypeOK'
    BY <1>1, <1>3, <2>2, Going DEF IInv, RotationTypeOK
  <2>4. Calm => Room(r)'
    BY <1>4, <2>1, <2>2 DEF Room
  <2>5. upsets = {} => Shifted(0)'
    BY <1>5, <2>1
  <2> QED BY <1>1, <1>4, <2>2, <2>3, <2>4, <2>5, GoesOn
<1> QED BY <1>6, <1>7

\* Directory 1 is created.
LEMMA CreateStep ==
    ASSUME IInv, NEW r \in Rotators, CreateYoungest(r)
    PROVE  IInv'
<1>1. /\ doing[r] = "create" /\ Proceeds(r, "move", 0)
      /\ UNCHANGED <<logFile, sessions, serverUp, inUse, upsets>>
  BY DEF CreateYoungest
<1>2. /\ DOMAIN dirs' = DOMAIN dirs \cup {1}
      /\ \A j \in DOMAIN dirs : dirs'[j] = dirs[j]
      /\ 1 \notin DOMAIN dirs => dirs'[1] = 0
  BY DEF CreateYoungest
<1>3. RotationTypeOK'
  <2>1. /\ DOMAIN dirs' \subseteq Numbers
        /\ \A j \in DOMAIN dirs' : dirs'[j] \in 0..sessions'
    BY <1>1, <1>2 DEF IInv, RotationTypeOK, Numbers
  <2> QED BY <1>1, <2>1, Going DEF IInv, RotationTypeOK
<1>4. Calm => 1 \notin DOMAIN dirs /\ DOMAIN dirs \subseteq 1..Oldest
  BY <1>1, Single DEF IInv, Room
<1>5. doing'[r] = "move"
  BY <1>1, Going DEF IInv
<1>6. Calm => DOMAIN dirs' \subseteq 1..Oldest /\ Room(r)'
  BY <1>2, <1>4, <1>5 DEF Room
<1>7. upsets = {} => logFile' = sessions' /\ Created(0)'
  <2> SUFFICES ASSUME upsets = {} PROVE logFile' = sessions' /\ Created(0)'
    OBVIOUS
  <2>1. Shifted(0) /\ 1 \notin DOMAIN dirs /\ sessions \in Nat
    BY <1>1, <1>4 DEF IInv, InOrder, Calm, RotationTypeOK
  <2>2. DOMAIN dirs \subseteq Numbers
    BY DEF IInv, RotationTypeOK
  <2>3. ASSUME NEW j \in Numbers
        PROVE  j \in DOMAIN dirs' <=> j <= Oldest /\ j - 1 <= sessions
    BY <1>2, <2>1 DEF Shifted, Numbers
  <2>4. ASSUME NEW j \in DOMAIN dirs'
        PROVE  dirs'[j] = IF j = 1 THEN 0 ELSE sessions + 1 - j
    <3>1. CASE j = 1
      BY <1>2, <2>1, <3>1
    <3>2. CASE j # 1
      BY <1>2, <2>1, <2>2, <3>2 DEF Shifted, Numbers
    <3> QED BY <3>1, <3>2
  <2> QED BY <1>1, <2>1, <2>3, <2>4 DEF Created, Shifted
<1> QED BY <1>1, <1>3, <1>6, <1>7, GoesOn

\* The log moves into it.
LEMMA MoveStep ==
    ASSUME IInv, NEW r \in Rotators, MoveLog(r)
    PROVE  IInv'
<1> DEFINE moves == logFile # 0 /\ ~serverUp /\ 1 \in DOMAIN dirs /\ dirs[1] = 0
<1>1. /\ doing[r] = "move" /\ Proceeds(r, "launch", 0)
      /\ UNCHANGED <<sessions, serverUp, inUse, upsets>>
  BY DEF MoveLog
<1>2. IF moves THEN dirs' = [dirs EXCEPT ![1] = logFile] /\ logFile' = 0
               ELSE UNCHANGED <<dirs, logFile>>
  BY DEF MoveLog
<1>3. /\ DOMAIN dirs' = DOMAIN dirs
      /\ \A j \in DOMAIN dirs : dirs'[j] = IF moves /\ j = 1 THEN logFile ELSE dirs[j]
      /\ logFile' = IF moves THEN 0 ELSE logFile
  <2>1. CASE moves
    BY <1>2, <2>1
  <2>2. CASE ~moves
    BY <1>2, <2>2
  <2> QED BY <2>1, <2>2
<1>4. RotationTypeOK'
  <2>1. /\ DOMAIN dirs' \subseteq Numbers
        /\ \A j \in DOMAIN dirs' : dirs'[j] \in 0..sessions'
        /\ logFile' \in 0..sessions'
    BY <1>1, <1>3 DEF IInv, RotationTypeOK
  <2> HIDE DEF moves
  <2> QED BY <1>1, <2>1, Going DEF IInv, RotationTypeOK
<1>5. Calm => /\ ~serverUp /\ 1 \in DOMAIN dirs /\ dirs[1] = 0
              /\ DOMAIN dirs \subseteq 1..Oldest
  BY <1>1, Single DEF IInv, Room
<1>6. Calm => logFile' = 0 /\ dirs'[1] = logFile
  BY <1>3, <1>5
<1>7. doing'[r] = "launch"
  BY <1>1, Going DEF IInv
<1>8. Calm => DOMAIN dirs' \subseteq 1..Oldest /\ Room(r)'
  BY <1>3, <1>5, <1>6, <1>7 DEF Room
<1>9. upsets = {} => Created(sessions)'
  <2> SUFFICES ASSUME upsets = {} PROVE Created(sessions)'
    OBVIOUS
  <2>1. logFile = sessions /\ Created(0) /\ dirs'[1] = logFile
    BY <1>1, <1>6 DEF IInv, InOrder, Calm
  <2>2. ASSUME NEW j \in DOMAIN dirs'
        PROVE  dirs'[j] = IF j = 1 THEN sessions ELSE sessions + 1 - j
    <3>1. CASE j = 1
      BY <2>1, <3>1
    <3>2. CASE j # 1
      BY <1>3, <2>1, <3>2 DEF Created
    <3> QED BY <3>1, <3>2
  <2> QED BY <1>1, <1>3, <2>1, <2>2 DEF Created
<1> QED BY <1>1, <1>4, <1>8, <1>9, GoesOn

\* The server starts.
LEMMA LaunchStep ==
    ASSUME IInv, NEW r \in Rotators, LaunchServer(r)
    PROVE  IInv'
<1>1. /\ doing[r] = "launch" /\ Proceeds(r, "idle", 0) /\ sessions < MaxSessions
      /\ sessions' = sessions + 1 /\ logFile' = sessions + 1 /\ serverUp' = TRUE
      /\ UNCHANGED <<dirs, inUse, upsets>>
  BY DEF LaunchServer
<1>2. sessions \in Nat
  BY DEF IInv, RotationTypeOK
<1>3. RotationTypeOK'
  <2>1. \A j \in DOMAIN dirs' : dirs'[j] \in 0..sessions'
    BY <1>1, <1>2 DEF IInv, RotationTypeOK
  <2> QED BY <1>1, <1>2, <2>1, Going DEF IInv, RotationTypeOK
<1>4. Calm => \A q \in Rotators : doing'[q] = "idle"
  BY <1>1, Going, Single DEF IInv
<1>5. RoomForLog'
  <2> SUFFICES ASSUME Calm PROVE RoomForLog'
    BY <1>1 DEF RoomForLog, Calm
  <2>1. inUse' = 0 /\ DOMAIN dirs' \subseteq 1..Oldest
    BY <1>1, Single DEF IInv
  <2>2. \A q \in Rotators : Room(q)'
    BY <1>4 DEF Room
  <2> QED BY <1>4, <2>1, <2>2 DEF RoomForLog, Alone, Rotating
<1>6. InOrder'
  <2> SUFFICES ASSUME upsets = {} PROVE InOrder'
    BY <1>1 DEF InOrder
  <2>1. Created(sessions)
    BY <1>1 DEF IInv, InOrder
  <2>2. DOMAIN dirs \subseteq Numbers
    BY DEF IInv, RotationTypeOK
  <2>3. ASSUME NEW j \in Numbers
        PROVE  j \in DOMAIN dirs' <=> j <= Oldest /\ j <= sessions + 1
    BY <1>1, <1>2, <2>1 DEF Created, Numbers
  <2>4. ASSUME NEW j \in DOMAIN dirs'
        PROVE  dirs'[j] = sessions + 1 - j
    BY <1>1, <1>2, <2>1, <2>2 DEF Created, Numbers
  <2>5. Before'
    <3>1. \A j \in Numbers : j \in DOMAIN dirs' <=> j <= Oldest /\ j <= sessions'
      BY <1>1, <2>3
    <3>2. \A j \in DOMAIN dirs' : dirs'[j] = sessions' - j
      BY <1>1, <1>2, <2>2, <2>4 DEF Numbers
    <3> QED BY <1>1, <3>1, <3>2 DEF Before
  <2>6. \A q \in Rotators : doing'[q] = "idle"
    BY <1>4 DEF Calm
  <2> QED BY <2>5, <2>6 DEF InOrder
<1> QED BY <1>3, <1>5, <1>6 DEF IInv

-----------------------------------------------------------------------------
(* The other steps.                                                        *)

\* A launch that gives no server, and the end of the launcher: the directories
\* stay as they are, and the next rotation has to cope with them.
LEMMA BreakOffStep ==
    ASSUME IInv, \/ \E r \in Rotators : LaunchNothing(r)
                 \/ LauncherEnds
    PROVE  IInv'
<1>1. /\ UNCHANGED <<dirs, logFile, sessions, serverUp, inUse>>
      /\ upsets' \in {upsets \cup {"failed"}, upsets \cup {"ended"}}
  BY DEF LaunchNothing, LauncherEnds
<1>2. /\ doing' \in [Rotators -> {"idle", "delete", "age", "create", "move", "launch"}]
      /\ turn' \in [Rotators -> 0..Aged]
      /\ \A q \in Rotators : doing'[q] = "age" <=> turn'[q] > 0
      /\ \A q \in Rotators : doing'[q] = "idle" \/ (doing'[q] = doing[q] /\ turn'[q] = turn[q])
  <2>1. CASE \E r \in Rotators : LaunchNothing(r)
    <3>1. PICK r \in Rotators : LaunchNothing(r)
      BY <2>1
    <3> QED BY <3>1, Going DEF LaunchNothing, IInv, RotationTypeOK
  <2>2. CASE LauncherEnds
    <3>1. doing' = [q \in Rotators |-> "idle"] /\ turn' = [q \in Rotators |-> 0]
      BY <2>2 DEF LauncherEnds
    <3>2. 0 \in 0..Aged /\ ~(0 > 0)
      OBVIOUS
    <3>3. \A q \in Rotators : doing'[q] = "idle" /\ turn'[q] = 0
      BY <3>1
    <3>4. /\ doing' \in [Rotators -> {"idle", "delete", "age", "create", "move", "launch"}]
          /\ turn' \in [Rotators -> 0..Aged]
      BY <3>1, <3>2
    <3> QED BY <3>2, <3>3, <3>4
  <2> QED BY <2>1, <2>2
<1>3. RotationTypeOK'
  BY <1>1, <1>2 DEF IInv, RotationTypeOK
<1>4. Calm' <=> Calm
  BY <1>1 DEF Calm
<1>5. RoomForLog'
  <2> SUFFICES ASSUME Calm PROVE RoomForLog'
    BY <1>4 DEF RoomForLog
  <2>1. \A q \in Rotators : Room(q)'
    BY <1>1, <1>2 DEF IInv, RoomForLog, Room
  <2>2. Alone' /\ (Rotating' => Rotating)
    BY <1>2 DEF IInv, RoomForLog, Alone, Rotating
  <2> QED BY <1>1, <2>1, <2>2 DEF IInv, RoomForLog
<1>6. InOrder'
  BY <1>1 DEF InOrder
<1> QED BY <1>3, <1>5, <1>6 DEF IInv

\* What happens outside of the launcher.
LEMMA OutsideStep ==
    ASSUME IInv, \/ ServerEnds
                 \/ \E i \in Numbers : Use(i)
                 \/ Leave
                 \/ UNCHANGED rotationVars
    PROVE  IInv'
<1>1. /\ UNCHANGED <<doing, turn, dirs, logFile, sessions>>
      /\ upsets \subseteq upsets' /\ upsets' \subseteq upsets \cup {"inUse"}
      /\ serverUp' => serverUp
      /\ "inUse" \notin upsets' => inUse' \in {0, inUse}
  BY DEF ServerEnds, Use, Leave, rotationVars
<1>2. serverUp' \in BOOLEAN /\ inUse' \in 0..(Aged + 1)
  <2>1. serverUp \in BOOLEAN /\ inUse \in 0..(Aged + 1)
    BY DEF IInv, RotationTypeOK
  <2>2. \A i \in Numbers : i \in 0..(Aged + 1)
    BY DEF Numbers
  <2>3. 0 \in 0..(Aged + 1)
    OBVIOUS
  <2> QED BY <2>1, <2>2, <2>3 DEF ServerEnds, Use, Leave, rotationVars
<1>3. RotationTypeOK'
  BY <1>1, <1>2 DEF IInv, RotationTypeOK
<1>4. Calm' => Calm /\ "inUse" \notin upsets'
  BY <1>1 DEF Calm
<1>5. RoomForLog'
  <2> SUFFICES ASSUME Calm' PROVE RoomForLog'
    BY DEF RoomForLog
  <2>1. RoomForLog /\ Calm
    BY <1>4 DEF IInv
  <2>2. Alone' /\ (Rotating' => Rotating) /\ \A r \in Rotators : Room(r)'
    BY <1>1, <2>1 DEF RoomForLog, Alone, Rotating, Room
  <2> QED BY <1>1, <1>4, <2>1, <2>2 DEF RoomForLog
<1>6. InOrder'
  <2> SUFFICES ASSUME upsets' = {} PROVE InOrder'
    BY DEF InOrder
  <2>1. upsets = {}
    BY <1>1
  <2> QED BY <1>1, <2>1 DEF IInv, InOrder, Before, Shifted, Created, Rotating
<1> QED BY <1>3, <1>5, <1>6 DEF IInv

-----------------------------------------------------------------------------
\* Nothing has happened yet.
LEMMA InitHolds == RotationInit => IInv
<1> SUFFICES ASSUME RotationInit PROVE IInv
  OBVIOUS
<1>1. DOMAIN dirs = {} /\ \A r \in Rotators : doing[r] = "idle"
  BY DEF RotationInit
<1>2. RotationTypeOK
  <2>1. /\ doing = [r \in Rotators |-> "idle"] /\ turn = [r \in Rotators |-> 0]
        /\ sessions = 0 /\ logFile = 0 /\ inUse = 0 /\ serverUp = FALSE /\ upsets = {}
    BY DEF RotationInit
  <2>2. 0 \in 0..Aged /\ 0 \in 0..MaxSessions /\ 0 \in 0..(Aged + 1) /\ 0 \in 0..0 /\ ~(0 > 0)
    OBVIOUS
  <2>3. /\ doing \in [Rotators -> {"idle", "delete", "age", "create", "move", "launch"}]
        /\ turn \in [Rotators -> 0..Aged]
        /\ \A r \in Rotators : doing[r] = "age" <=> turn[r] > 0
    BY <2>1, <2>2
  <2> QED BY <1>1, <2>1, <2>2, <2>3 DEF RotationTypeOK
<1>3. RoomForLog
  BY <1>1 DEF RotationInit, RoomForLog, Alone, Rotating, Room
<1>4. Before
  <2>1. \A i \in Numbers : ~(i <= 0)
    BY DEF Numbers
  <2> QED BY <1>1, <2>1 DEF RotationInit, Before
<1>5. InOrder
  BY <1>1, <1>4 DEF InOrder
<1> QED BY <1>2, <1>3, <1>5 DEF IInv

\* The invariant is inductive.
LEMMA StepHolds == IInv /\ [RotationNext]_rotationVars => IInv'
<1> SUFFICES ASSUME IInv, [RotationNext]_rotationVars PROVE IInv'
  OBVIOUS
<1>1. ASSUME NEW r \in Rotators, BeginRotation(r) PROVE IInv'
  BY <1>1, BeginStep
<1>2. ASSUME NEW r \in Rotators, DeleteOldest(r) PROVE IInv'
  BY <1>2, DeleteStep
<1>3. ASSUME NEW r \in Rotators, Age(r) PROVE IInv'
  BY <1>3, AgeStep
<1>4. ASSUME NEW r \in Rotators, CreateYoungest(r) PROVE IInv'
  BY <1>4, CreateStep
<1>5. ASSUME NEW r \in Rotators, MoveLog(r) PROVE IInv'
  BY <1>5, MoveStep
<1>6. ASSUME NEW r \in Rotators, LaunchServer(r) PROVE IInv'
  BY <1>6, LaunchStep
<1>7. CASE (\E r \in Rotators : LaunchNothing(r)) \/ LauncherEnds
  BY <1>7, BreakOffStep
<1>8. CASE ServerEnds \/ (\E i \in Numbers : Use(i)) \/ Leave \/ UNCHANGED rotationVars
  BY <1>8, OutsideStep
<1> QED BY <1>1, <1>2, <1>3, <1>4, <1>5, <1>6, <1>7, <1>8 DEF RotationNext

\* The invariant holds in every state.
LEMMA Invariant == RotationSpec => []IInv
<1> QED BY InitHolds, StepHolds, PTL DEF RotationSpec

\* RotateLogs and the launches keep the directories and the log within their
\* types, for any number of threads that launch and any disturbance.
THEOREM RotationTypeCorrect == RotationSpec => []RotationTypeOK
<1>1. IInv => RotationTypeOK
  BY DEF IInv
<1> QED BY <1>1, Invariant, PTL

\* After rotations that nothing has disturbed, directory i has the log of the
\* i-th session before the last, up to Oldest: RotateLogs' loop from the highest
\* number down leaves no gap and takes nothing twice.
THEOREM NumberedByAgeAlways == RotationSpec => []NumberedByAge
<1>1. IInv => NumberedByAge
  <2> SUFFICES ASSUME IInv, upsets = {}, ~Rotating
               PROVE  /\ logFile = sessions
                      /\ DOMAIN dirs = {i \in 1..Oldest : i <= sessions}
                      /\ \A i \in DOMAIN dirs : dirs[i] = sessions - i
    BY DEF NumberedByAge
  <2>1. Before /\ DOMAIN dirs \subseteq Numbers
    BY DEF IInv, InOrder, RotationTypeOK
  <2>2. 1..Oldest \subseteq Numbers /\ \A i \in Numbers : i <= Oldest => i \in 1..Oldest
    BY DEF Numbers
  <2> QED BY <2>1, <2>2 DEF Before
<1> QED BY <1>1, Invariant, PTL

-----------------------------------------------------------------------------
(* What a step takes away.                                                 *)

\* A log that is neither beside the directories nor in one of them is gone.
LEMMA Kept ==
    ASSUME NEW s \in Logs,
           \/ s = logFile /\ logFile' = logFile
           \/ \E i \in DOMAIN dirs : s = dirs[i] /\ \E j \in DOMAIN dirs' : dirs'[j] = dirs[i]
           \/ s = logFile /\ \E j \in DOMAIN dirs' : dirs'[j] = logFile
    PROVE  s \in Logs'
  BY DEF Logs

\* One step loses a log only with the oldest directory, or as the launch that
\* finds the log still in its place, after a disturbance.
LEMMA LossStep ==
    ASSUME IInv, [RotationNext]_rotationVars, NEW s \in Logs \ Logs'
    PROVE  \/ Oldest \in DOMAIN dirs /\ dirs[Oldest] = s
           \/ s = logFile /\ upsets \cap {"inUse", "overlap"} # {}
<1> DEFINE Explained == \/ Oldest \in DOMAIN dirs /\ dirs[Oldest] = s
                        \/ s = logFile /\ upsets \cap {"inUse", "overlap"} # {}
<1> HIDE DEF Explained
<1>1. s = logFile \/ \E i \in DOMAIN dirs : s = dirs[i]
  BY DEF Logs
<1>2. ASSUME UNCHANGED <<dirs, logFile>> PROVE Explained
  BY <1>2 DEF Logs
<1>3. ASSUME NEW r \in Rotators, DeleteOldest(r) PROVE Explained
  <2>1. logFile' = logFile /\ \A j \in DOMAIN dirs \ {Oldest} : j \in DOMAIN dirs' /\ dirs'[j] = dirs[j]
    BY <1>3 DEF DeleteOldest, OthersThan
  <2>2. s # logFile /\ \A j \in DOMAIN dirs \ {Oldest} : s # dirs[j]
    BY <2>1, Kept
  <2> QED BY <1>1, <2>2 DEF Explained
<1>4. ASSUME NEW r \in Rotators, Age(r) PROVE Explained
  <2>1. logFile' = logFile
    BY <1>4 DEF Age
  <2>2. \A j \in DOMAIN dirs : \E k \in DOMAIN dirs' : dirs'[k] = dirs[j]
    BY <1>4, Aging DEF IInv
  <2> QED BY <1>1, <2>1, <2>2, Kept
<1>5. ASSUME NEW r \in Rotators, CreateYoungest(r) PROVE Explained
  <2>1. logFile' = logFile /\ \A j \in DOMAIN dirs : j \in DOMAIN dirs' /\ dirs'[j] = dirs[j]
    BY <1>5 DEF CreateYoungest
  <2> QED BY <1>1, <2>1, Kept
<1>6. ASSUME NEW r \in Rotators, MoveLog(r) PROVE Explained
  <2>1. CASE UNCHANGED <<dirs, logFile>>
    BY <1>2, <2>1
  <2>2. CASE 1 \in DOMAIN dirs /\ dirs[1] = 0 /\ dirs' = [dirs EXCEPT ![1] = logFile]
    <3>1. 1 \in DOMAIN dirs' /\ dirs'[1] = logFile
      BY <2>2
    <3>2. \A j \in DOMAIN dirs \ {1} : j \in DOMAIN dirs' /\ dirs'[j] = dirs[j]
      BY <2>2
    <3>3. s # 0
      BY DEF Logs
    <3> QED BY <1>1, <2>2, <3>1, <3>2, <3>3, Kept
  <2> QED BY <1>6, <2>1, <2>2 DEF MoveLog
<1>7. ASSUME NEW r \in Rotators, LaunchServer(r) PROVE Explained
  <2>1. dirs' = dirs /\ doing[r] = "launch"
    BY <1>7 DEF LaunchServer
  <2>2. s = logFile /\ s # 0
    BY <1>1, <2>1, Kept DEF Logs
  <2>3. ~Calm
    BY <2>1, <2>2, Single DEF IInv, Room
  <2> QED BY <2>2, <2>3 DEF Explained, Calm
<1>8. ASSUME \/ \E r \in Rotators : BeginRotation(r) \/ LaunchNothing(r)
             \/ ServerEnds
             \/ \E i \in Numbers : Use(i)
             \/ Leave
             \/ LauncherEnds
             \/ UNCHANGED rotationVars
      PROVE  Explained
  BY <1>2, <1>8 DEF BeginRotation, LaunchNothing, ServerEnds, Use, Leave, LauncherEnds, rotationVars
<1>9. Explained
  BY <1>3, <1>4, <1>5, <1>6, <1>7, <1>8 DEF RotationNext
<1> QED BY <1>9 DEF Explained

\* No log disappears but with the oldest directory or over one that could not be
\* moved, whatever ends or fails in RotateLogs and StartServerProcess.
THEOREM LossExplainedAlways == RotationSpec => LossExplained
<1>1. IInv /\ [RotationNext]_rotationVars =>
          [\A s \in Logs \ Logs' :
              \/ Oldest \in DOMAIN dirs /\ dirs[Oldest] = s
              \/ s = logFile /\ upsets \cap {"inUse", "overlap"} # {}]_rotationVars
  BY LossStep
<1> QED BY <1>1, Invariant, PTL DEF RotationSpec, LossExplained

================================================================================
