------------------------------ MODULE Watchdogs ------------------------------
(***************************************************************************)
(* The launcher NWNX2.exe: the dialog (one GUI thread that handles posted  *)
(* messages in order), the thread that starts the server once, and the     *)
(* process and gamespy watchdog threads.  The two watchdogs are meant to   *)
(* keep out of each other's way through the doSleep flags, which only the  *)
(* GUI thread writes, when it gets to the message.                         *)
(*                                                                         *)
(* A step of a thread touches one piece of shared state: a flag, the       *)
(* message queue, the socket or the server process.  Sleep is a step that  *)
(* takes any time, except where LaunchWithin10s or PromptReplies is TRUE.  *)
(***************************************************************************)
EXTENDS ServerProcess, Sequences

CONSTANTS
    PThreads,        \* threads available to the process watchdog
    GThreads,        \* threads available to the gamespy watchdog
    Starter,         \* the thread that runs StartServerDummyThread
    Configs,         \* sets of watchdogs the command line may switch on
    GamespyRetries,  \* m_intGamespyRetries of the configuration
    LaunchMayFail,   \* CreateProcessW or the injection may fail
    LaunchWithin10s, \* the first launch has ended, or shows its message box,
                     \* before a watchdog's Sleep(10000) ends
    PromptReplies,   \* a ready server answers every probe within UDP_WAIT
    MaxFailures,     \* bound: crashes, hangs and failed launches together
    MaxEdits,        \* bound: operations of the user on the dialog
    MaxQueue,        \* bound: messages posted and not handled yet
    MaxDatagrams     \* bound: probes, and answers, waiting in a socket

Watchdog == {"process", "gamespy"}
Workers == PThreads \cup GThreads
Threads == Workers \cup {Starter}

ASSUME WatchdogsAssumption ==
    /\ PThreads \cap GThreads = {}
    /\ Starter \notin Workers
    /\ Configs \subseteq SUBSET Watchdog
    /\ GamespyRetries \in Nat
    /\ LaunchMayFail \in BOOLEAN
    /\ LaunchWithin10s \in BOOLEAN
    /\ PromptReplies \in BOOLEAN
    /\ MaxFailures \in Nat
    /\ MaxEdits \in Nat
    /\ MaxQueue \in Nat
    /\ MaxDatagrams \in Nat

VARIABLES
    pc,         \* where each thread is
    wstate,     \* watchdogState, local to each gamespy thread
    retries,    \* retries, local to each gamespy thread
    running,    \* WatchdogThreadData.threadRunning of each watchdog
    asleep,     \* WatchdogThreadData.doSleep of each watchdog
    enabled,    \* m_boolWatchdogProcess, m_boolWatchdogGamespy
    interval,   \* WatchdogThreadData.interval in seconds: 0, or 1 for any >= 1
    allowed,    \* WatchdogThreadDataExtra.retries
    queue,      \* messages posted to the dialog and not handled yet
    counter,    \* the three counters the dialog shows
    probes,     \* status requests in the server's socket
    inbox,      \* answers in the gamespy watchdog's socket
    failures,   \* failures so far (bounded)
    edits       \* user operations so far (bounded)

threadVars == <<pc, wstate, retries>>
flagVars == <<running, asleep, enabled, interval, allowed>>
dialogVars == <<queue, counter>>
netVars == <<probes, inbox>>
boundVars == <<failures, edits>>
vars == <<threadVars, flagVars, dialogVars, netVars, boundVars, serverVars>>

-----------------------------------------------------------------------------
\* State words.

PPc == {"off", "settle", "loop", "begin", "check", "clear",
        "create", "inject", "resume", "box", "report", "pause", "test", "oversleep"}
GPc == {"off", "settle", "loop", "begin", "send", "recv", "judge", "check", "kill",
        "mourn", "create", "inject", "resume", "box", "test", "oversleep"}
Pc == PPc \cup GPc
Launching == {"create", "inject", "resume"}

Message == {"P_CHECKING", "P_NONE", "G_CHECKING", "G_NONE",
            "P_RESTARTED", "G_RESTARTED", "G_LOCKUP"}
Count == {"process", "gamespy", "lockup"}

ThreadsOf(w) == IF w = "process" THEN PThreads ELSE GThreads

TypeOK ==
    /\ ServerTypeOK
    /\ pc \in [Threads -> Pc]
    /\ \A t \in PThreads : pc[t] \in PPc
    /\ \A t \in GThreads : pc[t] \in GPc
    /\ pc[Starter] \in Launching \cup {"box", "off"}
    /\ wstate \in [GThreads -> {"NONE", "WAITING", "RESTARTING"}]
    /\ retries \in [GThreads -> 0 .. GamespyRetries + 1]
    /\ running \in [Watchdog -> BOOLEAN]
    /\ asleep \in [Watchdog -> BOOLEAN]
    /\ enabled \in [Watchdog -> BOOLEAN]
    /\ interval \in [Watchdog -> 0 .. 1]
    /\ allowed \in 0 .. GamespyRetries
    /\ queue \in Seq(Message)
    /\ counter \in [Count -> Nat]
    /\ probes \in 0 .. MaxDatagrams
    /\ inbox \in 0 .. MaxDatagrams
    /\ failures \in 0 .. MaxFailures
    /\ edits \in 0 .. MaxEdits

\* OnInitDialog: the watchdogs the configuration switches on get a thread
\* each, then the starter thread launches the server.  The constructor left
\* doSleep false.
Init ==
    /\ ServerInit
    /\ \E on \in Configs :
         /\ enabled = [w \in Watchdog |-> w \in on]
         /\ running = enabled
         /\ \E first \in [Watchdog -> Workers] :
              /\ \A w \in Watchdog : first[w] \in ThreadsOf(w)
              /\ pc = [t \in Threads |->
                         IF t = Starter THEN "create"
                         ELSE IF \E w \in on : t = first[w] THEN "settle" ELSE "off"]
    /\ wstate = [g \in GThreads |-> "NONE"]
    /\ retries = [g \in GThreads |-> 0]
    /\ asleep = [w \in Watchdog |-> FALSE]
    /\ interval = [w \in Watchdog |-> 1]
    /\ allowed = GamespyRetries
    /\ queue = <<>>
    /\ counter = [c \in Count |-> 0]
    /\ probes = 0
    /\ inbox = 0
    /\ failures = 0
    /\ edits = 0

-----------------------------------------------------------------------------
\* Helpers.

Goto(t, from, to) == pc[t] = from /\ pc' = [pc EXCEPT ![t] = to]

\* PostMessage: at the end of the GUI thread's queue.
Post(m) ==
    /\ Len(queue) < MaxQueue
    /\ queue' = Append(queue, m)
    /\ UNCHANGED counter

Fail == failures < MaxFailures /\ failures' = failures + 1

\* What waits in the server's socket is lost with the last process.
DropProbes == probes' = IF Listening' THEN probes ELSE 0

\* Sleep takes an unsigned number of milliseconds: interval 0 minus what the
\* thread already slept wraps to 49.7 days, after which nothing is modelled.
AfterSleep(w, next) == IF interval[w] = 0 THEN "oversleep" ELSE next

-----------------------------------------------------------------------------
\* StartAndInject, run by any of the threads.  RotateLogs comes first and is
\* not part of this module.

\* Mutants: the gamespy watchdog reports like the process watchdog; the
\* process watchdog's thread ends with its first launch, like the starter.
AfterLaunchReports(t) == IF t = Starter THEN "off" ELSE "report"
AfterLaunchEnds(t) == IF t \in GThreads THEN "test" ELSE "off"

AfterLaunch(t) ==
    IF t \in PThreads THEN "report" ELSE IF t \in GThreads THEN "test" ELSE "off"

\* CreateProcessW.  When it fails the calls on the handle fail too:
\* StartServerProcess shows a message box and returns after it.
LaunchCreate(t) ==
    /\ UNCHANGED <<dialogVars, wstate, retries, flagVars, netVars, edits>>
    /\ \/ /\ Goto(t, "create", "inject")
          /\ CreateProcess
          /\ UNCHANGED failures
       \/ /\ LaunchMayFail
          /\ Goto(t, "create", "box")
          /\ Fail
          /\ CreateFails

\* VirtualAllocEx, WriteProcessMemory, CreateRemoteThread(LoadLibraryW) and
\* the wait for it, all on the process that pi names.  Each failure shows a
\* message box, returns early and leaves the process suspended.
LaunchInject(t) ==
    /\ UNCHANGED <<dialogVars, wstate, retries, flagVars, netVars, edits, serverVars>>
    /\ \/ /\ CanInject
          /\ Goto(t, "inject", "resume")
          /\ UNCHANGED failures
       \/ /\ ~CanInject
          /\ Goto(t, "inject", "box")
          /\ UNCHANGED failures
       \/ /\ LaunchMayFail
          /\ Goto(t, "inject", "box")
          /\ Fail

LaunchResume(t) ==
    /\ \E boxed \in ResumeComplains :
         Goto(t, "resume", IF boxed THEN "box" ELSE AfterLaunch(t))
    /\ ResumeProcess
    /\ UNCHANGED <<dialogVars, wstate, retries, flagVars, netVars, boundVars>>

Launch(t) == LaunchCreate(t) \/ LaunchInject(t) \/ LaunchResume(t)

\* MessageBoxA blocks the thread that launches until the user clicks OK.
CloseBox(t) ==
    /\ Goto(t, "box", AfterLaunch(t))
    /\ UNCHANGED <<dialogVars, wstate, retries, flagVars, netVars, boundVars, serverVars>>

-----------------------------------------------------------------------------
\* Both watchdog threads.

\* Sleep(10000): give server time to become ready.
Settle(t) ==
    /\ LaunchWithin10s => pc[Starter] \notin Launching
    /\ Goto(t, "settle", "loop")
    /\ UNCHANGED <<dialogVars, wstate, retries, flagVars, netVars, boundVars, serverVars>>

\* Mutant: a watchdog that leaves does not wake the other one.
TestRunningSilent(t, w, none) ==
    /\ Goto(t, "test", IF running[w] THEN "loop" ELSE "off")
    /\ UNCHANGED <<dialogVars, wstate, retries, flagVars, netVars, boundVars, serverVars>>

\* The end of an iteration: leave if the watchdog was stopped meanwhile.
TestRunning(t, w, none) ==
    /\ UNCHANGED <<wstate, retries, flagVars, netVars, boundVars, serverVars>>
    /\ \/ /\ running[w]
          /\ Goto(t, "test", "loop")
          /\ UNCHANGED dialogVars
       \/ /\ ~running[w]
          /\ Goto(t, "test", "off")
          /\ Post(none)

-----------------------------------------------------------------------------
\* watchdogProcessThread.

PLoop(t) ==
    /\ Goto(t, "loop", IF asleep["process"] THEN "pause" ELSE "begin")
    /\ UNCHANGED <<dialogVars, wstate, retries, flagVars, netVars, boundVars, serverVars>>

PBegin(t) ==
    /\ Goto(t, "begin", "check")
    /\ Post("P_CHECKING")
    /\ UNCHANGED <<wstate, retries, flagVars, netVars, boundVars, serverVars>>

PCheck(t) ==
    /\ Goto(t, "check", IF CheckProcessActive THEN "clear" ELSE "create")
    /\ UNCHANGED <<dialogVars, wstate, retries, flagVars, netVars, boundVars, serverVars>>

PClear(t) ==
    /\ Goto(t, "clear", "pause")
    /\ Post("P_NONE")
    /\ UNCHANGED <<wstate, retries, flagVars, netVars, boundVars, serverVars>>

\* After a restart the thread posts only WM_SERVERRESTARTED_PROCESS.
PReport(t) ==
    /\ Goto(t, "report", "pause")
    /\ Post("P_RESTARTED")
    /\ UNCHANGED <<wstate, retries, flagVars, netVars, boundVars, serverVars>>

\* Sleep(interval - 250).
PPause(t) ==
    /\ Goto(t, "pause", AfterSleep("process", "test"))
    /\ UNCHANGED <<dialogVars, wstate, retries, flagVars, netVars, boundVars, serverVars>>

PStep(t) ==
    \/ Settle(t) \/ PLoop(t) \/ PBegin(t) \/ PCheck(t) \/ PClear(t)
    \/ Launch(t) \/ PReport(t) \/ PPause(t) \/ TestRunning(t, "process", "P_NONE")

-----------------------------------------------------------------------------
\* watchdogGamespyThread.

GLoop(t) ==
    /\ Goto(t, "loop", IF asleep["gamespy"] THEN "test"
                       ELSE IF wstate[t] = "NONE" THEN "begin" ELSE "send")
    /\ UNCHANGED <<dialogVars, wstate, retries, flagVars, netVars, boundVars, serverVars>>

GBegin(t) ==
    /\ Goto(t, "begin", "send")
    /\ Post("G_CHECKING")
    /\ wstate' = [wstate EXCEPT ![t] = "WAITING"]
    /\ retries' = [retries EXCEPT ![t] = 0]
    /\ UNCHANGED <<flagVars, netVars, boundVars, serverVars>>

\* sendMessage: the datagram is kept while some process holds the port.
GSend(t) ==
    /\ Goto(t, "send", "recv")
    /\ probes' = IF Listening /\ probes < MaxDatagrams THEN probes + 1 ELSE probes
    /\ UNCHANGED <<dialogVars, wstate, retries, flagVars, inbox, boundVars, serverVars>>

\* A ready server that has not answered the last probe yet.
Overdue == probes > 0 /\ \E p \in Pid : procs[p] = "ready"

\* getMessage after UDP_WAIT: nothing there counts as a missed answer, any
\* datagram, however old, as an answer.  retries stops one above the largest
\* number it is compared with.
GRecv(t) ==
    /\ PromptReplies => ~Overdue
    /\ \/ /\ inbox = 0
          /\ Goto(t, "recv", "judge")
          /\ retries' = [retries EXCEPT ![t] =
                           IF retries[t] > GamespyRetries THEN retries[t] ELSE retries[t] + 1]
          /\ UNCHANGED <<inbox, wstate, dialogVars>>
       \/ /\ inbox > 0
          /\ Goto(t, "recv", AfterSleep("gamespy", "judge"))
          /\ inbox' = inbox - 1
          /\ wstate' = [wstate EXCEPT ![t] = "NONE"]
          /\ Post("G_NONE")
          /\ retries' = [retries EXCEPT ![t] = 0]
    /\ UNCHANGED <<flagVars, probes, boundVars, serverVars>>

GJudge(t) ==
    LET restart == retries[t] > allowed /\ wstate[t] # "RESTARTING" IN
    /\ Goto(t, "judge", IF restart THEN "check" ELSE "test")
    /\ wstate' = IF restart THEN [wstate EXCEPT ![t] = "RESTARTING"] ELSE wstate
    /\ UNCHANGED <<dialogVars, retries, flagVars, netVars, boundVars, serverVars>>

\* Mutant: a dead server is left to the process watchdog.
GCheckHungOnly(t) ==
    /\ Goto(t, "check", IF CheckProcessActive THEN "kill" ELSE "test")
    /\ UNCHANGED <<dialogVars, wstate, retries, flagVars, netVars, boundVars, serverVars>>

GCheck(t) ==
    /\ Goto(t, "check", IF CheckProcessActive THEN "kill" ELSE "mourn")
    /\ UNCHANGED <<dialogVars, wstate, retries, flagVars, netVars, boundVars, serverVars>>

GKill(t) ==
    /\ Goto(t, "kill", "create")
    /\ KillServerProcess
    /\ Post("G_LOCKUP")
    /\ DropProbes
    /\ UNCHANGED <<wstate, retries, flagVars, inbox, boundVars>>

GMourn(t) ==
    /\ Goto(t, "mourn", "create")
    /\ Post("G_RESTARTED")
    /\ UNCHANGED <<wstate, retries, flagVars, netVars, boundVars, serverVars>>

GStep(t) ==
    \/ Settle(t) \/ GLoop(t) \/ GBegin(t) \/ GSend(t) \/ GRecv(t) \/ GJudge(t)
    \/ GCheck(t) \/ GKill(t) \/ GMourn(t) \/ Launch(t)
    \/ TestRunning(t, "gamespy", "G_NONE")

StarterStep == Launch(Starter)

-----------------------------------------------------------------------------
\* The GUI thread: CNWNX2Dlg's handlers, one posted message at a time.

Effect(m) ==
    CASE m = "P_CHECKING" -> /\ asleep' = [asleep EXCEPT !["gamespy"] = TRUE]
                             /\ UNCHANGED counter
      [] m = "P_NONE"     -> /\ asleep' = [asleep EXCEPT !["gamespy"] = FALSE]
                             /\ UNCHANGED counter
      [] m = "G_CHECKING" -> /\ asleep' = [asleep EXCEPT !["process"] = TRUE]
                             /\ UNCHANGED counter
      [] m = "G_NONE"     -> /\ asleep' = [asleep EXCEPT !["process"] = FALSE]
                             /\ UNCHANGED counter
      [] m = "P_RESTARTED" -> /\ counter' = [counter EXCEPT !["process"] = @ + 1]
                              /\ UNCHANGED asleep
      [] m = "G_RESTARTED" -> /\ counter' = [counter EXCEPT !["gamespy"] = @ + 1]
                              /\ UNCHANGED asleep
      [] m = "G_LOCKUP"    -> /\ counter' = [counter EXCEPT !["lockup"] = @ + 1]
                              /\ UNCHANGED asleep

Handle ==
    /\ queue # <<>>
    /\ Effect(Head(queue))
    /\ queue' = Tail(queue)
    /\ UNCHANGED <<threadVars, running, enabled, interval, allowed, netVars, boundVars, serverVars>>

-----------------------------------------------------------------------------
\* The user at the dialog (the GUI thread runs these handlers as well).

\* StartThread: nothing when the flag says a thread runs already; otherwise a
\* new thread, whether or not an old one has seen that it should leave.
StartThread(w) ==
    /\ running' = [running EXCEPT ![w] = TRUE]
    /\ IF running[w]
       THEN UNCHANGED <<pc, wstate>>
       ELSE \E t \in ThreadsOf(w) :
              /\ Goto(t, "off", "settle")
              /\ wstate' = [g \in GThreads |-> IF g = t THEN "NONE" ELSE wstate[g]]

\* StopThread clears the flag and does not wait for the thread.
StopThread(w) ==
    /\ running' = [running EXCEPT ![w] = FALSE]
    /\ UNCHANGED <<pc, wstate>>

\* OnWatchdogProcess, OnWatchdogGamespy: the user has ticked or cleared the box.
ToggleWatchdog(w) ==
    /\ edits < MaxEdits
    /\ edits' = edits + 1
    /\ \/ /\ ~enabled[w] /\ interval[w] >= 1
          /\ enabled' = [enabled EXCEPT ![w] = TRUE]
          /\ StartThread(w)
       \/ /\ enabled[w] \/ interval[w] < 1
          /\ enabled' = [enabled EXCEPT ![w] = FALSE]
          /\ StopThread(w)
    /\ UNCHANGED <<retries, asleep, interval, allowed, dialogVars, netVars, failures, serverVars>>

\* OnChangeUpdateintervallProcess, OnChangeUpdateintervallGamespy: called for
\* every keystroke, so clearing the field sets interval 0 for a moment.
ChangeInterval(w) ==
    /\ edits < MaxEdits
    /\ edits' = edits + 1
    /\ interval' = [interval EXCEPT ![w] = 1 - @]
    /\ \/ /\ interval'[w] < 1
          /\ enabled' = [enabled EXCEPT ![w] = FALSE]
          /\ StopThread(w)
       \/ /\ interval'[w] >= 1
          /\ UNCHANGED <<enabled, running, pc, wstate>>
    /\ UNCHANGED <<retries, asleep, allowed, dialogVars, netVars, failures, serverVars>>

\* OnChangeGamespyRetries: 0 also stops the watchdog.
ChangeRetries(n) ==
    /\ edits < MaxEdits
    /\ edits' = edits + 1
    /\ allowed' = n
    /\ \/ /\ n = 0
          /\ enabled' = [enabled EXCEPT !["gamespy"] = FALSE]
          /\ StopThread("gamespy")
       \/ /\ n > 0
          /\ UNCHANGED <<enabled, running, pc, wstate>>
    /\ UNCHANGED <<retries, asleep, interval, dialogVars, netVars, failures, serverVars>>

-----------------------------------------------------------------------------
\* The server: it answers what it is asked, and it fails.

Answer ==
    /\ Overdue
    /\ probes' = probes - 1
    /\ inbox' = IF inbox < MaxDatagrams THEN inbox + 1 ELSE inbox
    /\ UNCHANGED <<threadVars, flagVars, dialogVars, boundVars, serverVars>>

ServerLoads ==
    /\ \E p \in Pid : FinishLoading(p)
    /\ UNCHANGED <<threadVars, flagVars, dialogVars, netVars, boundVars>>

ServerFails ==
    /\ Fail
    /\ \E p \in Pid : Crash(p) \/ Hang(p)
    /\ DropProbes
    /\ UNCHANGED <<threadVars, flagVars, dialogVars, inbox, edits>>

-----------------------------------------------------------------------------
Edit ==
    \/ \E w \in Watchdog : ToggleWatchdog(w) \/ ChangeInterval(w)
    \/ \E n \in 0 .. GamespyRetries : ChangeRetries(n)

Next ==
    \/ \E t \in PThreads : PStep(t)
    \/ \E t \in GThreads : GStep(t)
    \/ StarterStep
    \/ Handle
    \/ Edit
    \/ \E t \in Threads : CloseBox(t)
    \/ Answer
    \/ ServerLoads
    \/ ServerFails

Spec == Init /\ [][Next]_vars

(* The scheduler runs every thread and the GUI empties its queue; a server *)
(* that loads gets ready, and a ready one answers.  Failures and users may  *)
(* or may not come: nobody need ever click a message box away.             *)
Fairness ==
    /\ \A t \in PThreads : WF_vars(PStep(t))
    /\ \A t \in GThreads : WF_vars(GStep(t))
    /\ WF_vars(StarterStep)
    /\ WF_vars(Handle)
    /\ WF_vars(Answer)
    /\ WF_vars(ServerLoads)

FairSpec == Spec /\ Fairness

-----------------------------------------------------------------------------
(* Properties.                                                             *)

\* The configuration has one watchdog, so one thread judges the server.
Solo(w) == enabled = [v \in Watchdog |-> v = w]

\* With one watchdog, a user who leaves the dialog alone and a first launch
\* that ends within 10 seconds, every process that exists is the one the global
\* handle names: no launch loses track of a server, or of the suspended
\* process of another launch (StartAndInject, CheckProcessActive).
AliveIsTracked == \A p \in Pid : procs[p] \in Alive => p = pi

\* With at most one gamespy thread, the process watchdog's doSleep flag, once
\* the messages still queued are handled, says exactly whether the gamespy
\* watchdog waits for an answer: no message is lost, doubled or overtaken,
\* whatever the user starts and stops (OnGamespyStateChecking and -None).
GMessage == {"G_CHECKING", "G_NONE"}
Waiting == \E g \in GThreads : pc[g] # "off" /\ wstate[g] # "NONE"
LastG(i) == /\ queue[i] \in GMessage
            /\ \A j \in 1 .. Len(queue) : j > i => queue[j] \notin GMessage
SleepMirrorsWaiting ==
    /\ \A i \in 1 .. Len(queue) : LastG(i) => (queue[i] = "G_CHECKING" <=> Waiting)
    /\ (\A i \in 1 .. Len(queue) : queue[i] \notin GMessage)
         => (asleep["process"] <=> Waiting)

\* The bound MaxLaunch is used up; liveness is about behaviours before that.
Exhausted == procs[MaxLaunch] # "none"

Serving == pi \in Pid /\ procs[pi] = "ready"

\* A failed launch waits for the user to click OK.
Asking == \E t \in Threads : pc[t] = "box"

\* The process watchdog alone replaces a server that is gone, unless yet
\* another failure comes first, and except while a launch that failed waits
\* for somebody to close its message box; once that is closed the watchdog
\* tries again (watchdogProcessThread, StartServerProcess).
ProcessRestarts ==
    \A f \in 0 .. MaxFailures :
        (Solo("process") /\ ~CheckProcessActive /\ failures = f)
            ~> (Serving \/ failures > f \/ Exhausted \/ Asking)

\* The gamespy watchdog alone replaces a server that does not answer, dead or
\* hung, unless yet another failure comes first, and except while it already
\* waits for the first answer of a server it has restarted
\* (watchdogGamespyThread).
GamespyRestarts ==
    \A f \in 0 .. MaxFailures :
        (/\ Solo("gamespy") /\ ~Serving /\ failures = f
         /\ \A g \in GThreads : wstate[g] # "RESTARTING")
            ~> (Serving \/ failures > f \/ Exhausted)

\* Docs/NWNX2.html: "If the child process crashes or becomes unresponsive to
\* network traffic, NWNX will reboot it."  Every failure is repaired.
RebootsUnresponsive ==
    \A f \in 0 .. MaxFailures :
        (Solo("gamespy") /\ ~Serving /\ failures = f) ~> (Serving \/ failures > f \/ Exhausted)

\* Docs/NWNX2.html: "The NWN Extender will make sure your server is restarted
\* should the module crash."  No launch leaves the process watchdog content
\* with a server that does not run, once every message box is closed.
RestartsForSure ==
    (Solo("process") /\ ~Listening /\ \E p \in Pid : procs[p] = "dead")
        ~> (Listening \/ Exhausted \/ Asking)

\* Docs/NWNX2.html: NWNX2 "takes over responsibility for restarting the server
\* should it crash".  Some watchdog that is switched on is awake again and
\* again; the two never put each other to sleep for good.
SomeWatchdogOnDuty == []<>(\E w \in Watchdog : enabled[w] /\ ~asleep[w])
=============================================================================
