---------------------------- MODULE ServerProcess ----------------------------
(***************************************************************************)
(* The server process as nwnserver.cpp of the launcher sees it.  The one   *)
(* global PROCESS_INFORMATION "pi" names the process that was created      *)
(* last; every later call (inject, resume, is it active, kill) goes        *)
(* through it, whichever thread makes the call.  Processes are numbered in *)
(* the order CreateProcessW made them; pi = 0 is the zeroed global.        *)
(***************************************************************************)
EXTENDS Naturals

CONSTANT MaxLaunch   \* bound: CreateProcessW succeeds at most this often

ASSUME MaxLaunchAssumption == MaxLaunch \in Nat \ {0}

VARIABLES
    pi,      \* the global process handle: 0 or the last process created
    procs    \* life cycle of every process number

serverVars == <<pi, procs>>

Pid == 1 .. MaxLaunch

(* "none": not created yet.  "suspended": created, main thread not resumed. *)
(* "loading": runs, does not answer the network yet.  "ready": answers.     *)
(* "hung": runs, never answers.  "dead": has an exit code.                  *)
ProcState == {"none", "suspended", "loading", "ready", "hung", "dead"}

\* GetExitCodeProcess says STILL_ACTIVE for each of these.
Alive == {"suspended", "loading", "ready", "hung"}

ServerTypeOK ==
    /\ pi \in 0 .. MaxLaunch
    /\ procs \in [Pid -> ProcState]

ServerInit ==
    /\ pi = 0
    /\ procs = [p \in Pid |-> "none"]

-----------------------------------------------------------------------------
\* Any process the handle names and that has no exit code yet.  A suspended
\* process counts; the zero handle does not.
CheckProcessActive == pi \in Pid /\ procs[pi] \in Alive

\* CreateProcessW(CREATE_SUSPENDED) fills pi.
CreateProcess ==
    \E p \in Pid :
        /\ procs[p] = "none"
        /\ \A q \in Pid : q < p => procs[q] # "none"
        /\ procs' = [procs EXCEPT ![p] = "suspended"]
        /\ pi' = p

\* CreateProcessW fails: the handle is what it was, or zero.
CreateFails ==
    /\ pi' \in {pi, 0}
    /\ UNCHANGED procs

\* Some process has its socket open.
Listening == \E p \in Pid : procs[p] \in Alive \ {"suspended"}

\* The calls between creation and ResumeThread need a live target.
CanInject == CheckProcessActive

\* ResumeThread(pi->hThread): the process that pi names now, which need not
\* be the one this thread created.
ResumeProcess ==
    /\ procs' = [p \in Pid |-> IF p = pi /\ procs[p] = "suspended"
                              THEN "loading" ELSE procs[p]]
    /\ UNCHANGED pi

\* The code takes 0, the previous suspend count of a thread that was running
\* already, for an error; on an invalid handle it is -1, which it takes for
\* success.  Windows does not say which of the two a dead process gives.
ResumeComplains ==
    IF pi \notin Pid THEN {FALSE}
    ELSE IF procs[pi] = "dead" THEN BOOLEAN
    ELSE {procs[pi] # "suspended"}

\* Mutant: the process handle was not kept, TerminateProcess does nothing.
KillNothing == UNCHANGED serverVars

\* TerminateProcess(pi.hProcess, -1); a no-op on a process that is gone.
KillServerProcess ==
    /\ procs' = [p \in Pid |-> IF p = pi THEN "dead" ELSE procs[p]]
    /\ UNCHANGED pi

-----------------------------------------------------------------------------
\* What the server does by itself.
FinishLoading(p) ==
    /\ procs[p] = "loading"
    /\ procs' = [procs EXCEPT ![p] = "ready"]
    /\ UNCHANGED pi

Crash(p) ==
    /\ procs[p] \in {"loading", "ready", "hung"}
    /\ procs' = [procs EXCEPT ![p] = "dead"]
    /\ UNCHANGED pi

Hang(p) ==
    /\ procs[p] \in {"loading", "ready"}
    /\ procs' = [procs EXCEPT ![p] = "hung"]
    /\ UNCHANGED pi
=============================================================================
