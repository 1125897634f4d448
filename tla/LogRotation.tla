------------------------------ MODULE LogRotation ------------------------------
(***************************************************************************)
(* Rotation of the logs before every launch (RotateLogs, nwnserver.cpp).   *)
(* Each call of Windows is a step; the first launch has a thread of its    *)
(* own, so that two rotations may overlap, and any call may fail: a        *)
(* directory in use can be neither deleted nor moved.  A log is the number *)
(* of the session that wrote it, and nwnx.txt stands for all four files.   *)
(***************************************************************************)
EXTENDS Integers

CONSTANTS
    Rotators,     \* threads that launch servers
    Oldest,       \* 9, the directory that is deleted
    Aged,         \* 99, the last one that is moved
    MaxSessions   \* bound: servers that are started

ASSUME LogRotationAssumption ==
    /\ Oldest \in Nat \ {0}
    /\ Aged \in Nat /\ Oldest < Aged
    /\ MaxSessions \in Nat

VARIABLES
    doing,     \* where each thread is
    turn,      \* its oldDirNo
    dirs,      \* directories that exist: the log in each, 0 for none
    logFile,   \* the log beside them, 0 for none
    sessions,
    serverUp,  \* a server runs and has its log open
    inUse,     \* a directory that another program has open, 0 for none
    upsets     \* what has disturbed a rotation

rotationVars == <<doing, turn, dirs, logFile, sessions, serverUp, inUse, upsets>>

Numbers == 1..(Aged + 1)
Rotating == \E r \in Rotators : doing[r] # "idle"

RotationTypeOK ==
    /\ doing \in [Rotators -> {"idle", "delete", "age", "create", "move", "launch"}]
    /\ turn \in [Rotators -> 0..Aged]
    /\ \A r \in Rotators : doing[r] = "age" <=> turn[r] > 0
    /\ DOMAIN dirs \subseteq Numbers
    /\ \A i \in DOMAIN dirs : dirs[i] \in 0..sessions
    /\ logFile \in 0..sessions
    /\ sessions \in 0..MaxSessions
    /\ serverUp \in BOOLEAN
    /\ inUse \in 0..(Aged + 1)
    /\ upsets \subseteq {"overlap", "inUse", "ended", "failed"}

RotationInit ==
    /\ doing = [r \in Rotators |-> "idle"]
    /\ turn = [r \in Rotators |-> 0]
    /\ dirs = [i \in {} |-> 0]
    /\ logFile = 0
    /\ sessions = 0
    /\ serverUp = FALSE
    /\ inUse = 0
    /\ upsets = {}

-----------------------------------------------------------------------------
Proceeds(r, place, i) ==
    /\ doing' = [doing EXCEPT ![r] = place]
    /\ turn' = [turn EXCEPT ![r] = i]

OthersThan(i) == [j \in DOMAIN dirs \ {i} |-> dirs[j]]

\* StartAndInject is called, by the first launch or by a watchdog.
BeginRotation(r) ==
    /\ doing[r] = "idle"
    /\ sessions < MaxSessions
    /\ upsets' = IF Rotating \/ serverUp THEN upsets \cup {"overlap"} ELSE upsets
    /\ Proceeds(r, "delete", 0)
    /\ UNCHANGED <<dirs, logFile, sessions, serverUp, inUse>>

\* SHFileOperation deletes the oldest directory and all that is in it.
DeleteOldest(r) ==
    /\ doing[r] = "delete"
    /\ dirs' = IF inUse = Oldest THEN dirs ELSE OthersThan(Oldest)
    /\ Proceeds(r, "age", Aged)
    /\ UNCHANGED <<logFile, sessions, serverUp, inUse, upsets>>

\* Mutant of Age: the loop ends before directory 1.
AgeButTheLast(r) ==
    LET i == turn[r] IN
    /\ doing[r] = "age"
    /\ dirs' = IF i \in DOMAIN dirs /\ i + 1 \notin DOMAIN dirs /\ i # inUse
               THEN [j \in (DOMAIN dirs \ {i}) \cup {i + 1} |-> IF j = i + 1 THEN dirs[i] ELSE dirs[j]]
               ELSE dirs
    /\ IF i > 2 THEN Proceeds(r, "age", i - 1) ELSE Proceeds(r, "create", 0)
    /\ UNCHANGED <<logFile, sessions, serverUp, inUse, upsets>>

\* Mutant of Age: the number is not counted down to the end.
AgeTooLong(r) ==
    LET i == turn[r] IN
    /\ doing[r] = "age"
    /\ UNCHANGED dirs
    /\ Proceeds(r, IF i > 0 THEN "age" ELSE "create", i - 1)
    /\ UNCHANGED <<logFile, sessions, serverUp, inUse, upsets>>

\* MoveFile from one number to the next, which does not replace a directory.
Age(r) ==
    LET i == turn[r] IN
    /\ doing[r] = "age"
    /\ dirs' = IF i \in DOMAIN dirs /\ i + 1 \notin DOMAIN dirs /\ i # inUse
               THEN [j \in (DOMAIN dirs \ {i}) \cup {i + 1} |-> IF j = i + 1 THEN dirs[i] ELSE dirs[j]]
               ELSE dirs
    /\ IF i > 1 THEN Proceeds(r, "age", i - 1) ELSE Proceeds(r, "create", 0)
    /\ UNCHANGED <<logFile, sessions, serverUp, inUse, upsets>>

\* Mutant of CreateYoungest: there is none to move the log to.
CreateNone(r) ==
    /\ doing[r] = "create"
    /\ Proceeds(r, "move", 0)
    /\ UNCHANGED <<dirs, logFile, sessions, serverUp, inUse, upsets>>

CreateYoungest(r) ==
    /\ doing[r] = "create"
    /\ dirs' = [j \in DOMAIN dirs \cup {1} |-> IF j \in DOMAIN dirs THEN dirs[j] ELSE 0]
    /\ Proceeds(r, "move", 0)
    /\ UNCHANGED <<logFile, sessions, serverUp, inUse, upsets>>

\* The log moves as well, unless a server has it open or the name is taken.
MoveLog(r) ==
    /\ doing[r] = "move"
    /\ IF logFile # 0 /\ ~serverUp /\ 1 \in DOMAIN dirs /\ dirs[1] = 0
       THEN /\ dirs' = [dirs EXCEPT ![1] = logFile]
            /\ logFile' = 0
       ELSE UNCHANGED <<dirs, logFile>>
    /\ Proceeds(r, "launch", 0)
    /\ UNCHANGED <<sessions, serverUp, inUse, upsets>>

\* StartServerProcess: nwnx.dll opens its log for writing, which empties it.
LaunchServer(r) ==
    /\ doing[r] = "launch"
    /\ sessions < MaxSessions
    /\ sessions' = sessions + 1
    /\ logFile' = sessions + 1
    /\ serverUp' = TRUE
    /\ Proceeds(r, "idle", 0)
    /\ UNCHANGED <<dirs, inUse, upsets>>

\* ... or there is no server, or no nwnx.dll in it.
LaunchNothing(r) ==
    /\ doing[r] = "launch"
    /\ upsets' = upsets \cup {"failed"}
    /\ Proceeds(r, "idle", 0)
    /\ UNCHANGED <<dirs, logFile, sessions, serverUp, inUse>>

-----------------------------------------------------------------------------
ServerEnds ==
    /\ serverUp
    /\ serverUp' = FALSE
    /\ UNCHANGED <<doing, turn, dirs, logFile, sessions, inUse, upsets>>

\* Somebody reads old logs.
Use(i) ==
    /\ inUse = 0
    /\ i \in DOMAIN dirs
    /\ inUse' = i
    /\ upsets' = upsets \cup {"inUse"}
    /\ UNCHANGED <<doing, turn, dirs, logFile, sessions, serverUp>>

Leave ==
    /\ inUse # 0
    /\ inUse' = 0
    /\ UNCHANGED <<doing, turn, dirs, logFile, sessions, serverUp, upsets>>

\* The launcher ends, in the middle of it.
LauncherEnds ==
    /\ Rotating
    /\ doing' = [r \in Rotators |-> "idle"]
    /\ turn' = [r \in Rotators |-> 0]
    /\ upsets' = upsets \cup {"ended"}
    /\ UNCHANGED <<dirs, logFile, sessions, serverUp, inUse>>

RotationNext ==
    \/ \E r \in Rotators :
        \/ BeginRotation(r) \/ DeleteOldest(r) \/ Age(r) \/ CreateYoungest(r)
        \/ MoveLog(r) \/ LaunchServer(r) \/ LaunchNothing(r)
    \/ ServerEnds
    \/ \E i \in Numbers : Use(i)
    \/ Leave
    \/ LauncherEnds

RotationSpec == RotationInit /\ [][RotationNext]_rotationVars

-----------------------------------------------------------------------------
\* Directory 1 has the log of the session before this one, and so on up to the
\* oldest, and there is no other directory: unless a rotation was disturbed.
NumberedByAge ==
    upsets = {} /\ ~Rotating =>
        /\ logFile = sessions
        /\ DOMAIN dirs = {i \in 1..Oldest : i <= sessions}
        /\ \A i \in DOMAIN dirs : dirs[i] = sessions - i

Logs == ({logFile} \cup {dirs[i] : i \in DOMAIN dirs}) \ {0}

\* A log disappears in one of two ways: with the oldest directory, or because a
\* launch empties it after it could not be moved, which takes a directory in use
\* or another rotation beside this one.  A launcher that ends half way and a
\* launch that fails lose nothing else.
LossExplained ==
    [][\A s \in Logs \ Logs' :
           \/ Oldest \in DOMAIN dirs /\ dirs[Oldest] = s
           \/ s = logFile /\ upsets \cap {"inUse", "overlap"} # {}]_rotationVars

=============================================================================
