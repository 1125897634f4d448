-------------------------------- MODULE MCParts --------------------------------
(* Five parts of the system that share no state: the Chat plugin, the        *)
(* rotation of the logs, and of SQLite the locks, the free pages and the     *)
(* pager.  A behaviour is one of one of them, the others stay as they are at *)
(* the start.                                                                *)
EXTENDS Chat, LogRotation, SharedFile, FreePages, Pager, TLC

VARIABLE part

M(from, mode, text) == [from |-> from, mode |-> mode, text |-> text]

MCKinds == {M("player", "talk", "short"), M("player", "silent", "long"),
            M("creature", "talk", "short"), M("server", "server", "short"),
            M("server", "talk", "short"), M("player", "talk", "none")}

MCSymmetry == Permutations(Data)

MCInit ==
    /\ part \in {"chat", "logs", "locks", "free pages", "pager"}
    /\ ChatInit
    /\ part = "chat" \/ found = Signatures
    /\ RotationInit
    /\ SharedFileInit
    /\ FreePagesInit
    /\ PagerInit

\* What is claimed of the locks and of the free pages is claimed until one of
\* the known lapses, so a behaviour ends with the first one.
MCNext ==
    /\ \/ /\ part = "chat"
          /\ ChatNext
          /\ UNCHANGED <<rotationVars, sharedFileVars, freePagesVars, pagerVars>>
       \/ /\ part = "logs"
          /\ RotationNext
          /\ UNCHANGED <<chatVars, sharedFileVars, freePagesVars, pagerVars>>
       \/ /\ part = "locks" /\ lapses = {}
          /\ SharedFileNext
          /\ UNCHANGED <<chatVars, rotationVars, freePagesVars, pagerVars>>
       \/ /\ part = "free pages" /\ forgotten = {}
          /\ FreePagesNext
          /\ UNCHANGED <<chatVars, rotationVars, sharedFileVars, pagerVars>>
       \/ /\ part = "pager"
          /\ PagerNext
          /\ UNCHANGED <<chatVars, rotationVars, sharedFileVars, freePagesVars>>
    /\ UNCHANGED part

MCSpec == MCInit /\ [][MCNext]_<<part, chatVars, rotationVars, sharedFileVars, freePagesVars, pagerVars>>

=============================================================================
