--------------------------- MODULE WatchdogsProofs ---------------------------
(***************************************************************************)
(* Theorems about Watchdogs, for every number of threads, every bound and  *)
(* every configuration that their assumptions allow.                       *)
(***************************************************************************)
EXTENDS Watchdogs, TLAPS

-----------------------------------------------------------------------------
(* Type correctness.                                                       *)

\* Where a thread that ends a launch continues is a place its kind has.
LEMMA AfterLaunchType ==
    /\ \A t \in PThreads : AfterLaunch(t) \in PPc
    /\ \A t \in GThreads : AfterLaunch(t) \in GPc
    /\ AfterLaunch(Starter) = "off"
  BY WatchdogsAssumption DEF AfterLaunch, PPc, GPc, Workers

\* A step of one thread keeps pc well typed.
LEMMA GotoType ==
    ASSUME TypeOK, NEW t \in Threads, NEW from, NEW to, Goto(t, from, to),
           t \in PThreads => to \in PPc,
           t \in GThreads => to \in GPc,
           t = Starter => to \in Launching \cup {"box", "off"}
    PROVE  /\ pc' \in [Threads -> Pc]
           /\ \A u \in PThreads : pc'[u] \in PPc
           /\ \A u \in GThreads : pc'[u] \in GPc
           /\ pc'[Starter] \in Launching \cup {"box", "off"}
  BY WatchdogsAssumption
  DEF TypeOK, Goto, Pc, PPc, GPc, Threads, Workers, Launching

\* Posting keeps the queue and the counters well typed.
LEMMA PostType ==
    ASSUME TypeOK, NEW m \in Message, Post(m)
    PROVE  queue' \in Seq(Message) /\ counter' \in [Count -> Nat]
  BY DEF TypeOK, Post

\* The launch steps and the end of a failed one, for whichever thread.
LEMMA LaunchType ==
    ASSUME TypeOK, NEW t \in Threads,
           Launch(t) \/ CloseBox(t)
    PROVE  TypeOK'
<1>1. /\ t \in PThreads => AfterLaunch(t) \in PPc
      /\ t \in GThreads => AfterLaunch(t) \in GPc
      /\ t = Starter => AfterLaunch(t) \in Launching \cup {"box", "off"}
  BY AfterLaunchType
<1>2. CASE LaunchCreate(t)
  <2>1. /\ pc' \in [Threads -> Pc]
        /\ \A u \in PThreads : pc'[u] \in PPc
        /\ \A u \in GThreads : pc'[u] \in GPc
        /\ pc'[Starter] \in Launching \cup {"box", "off"}
    <3>1. CASE Goto(t, "create", "inject")
      BY <3>1, GotoType DEF PPc, GPc, Launching
    <3>2. CASE Goto(t, "create", "box")
      BY <3>2, GotoType DEF PPc, GPc
    <3> QED BY <1>2, <3>1, <3>2 DEF LaunchCreate
  <2>2. ServerTypeOK' /\ failures' \in 0 .. MaxFailures
    BY <1>2, WatchdogsAssumption, MaxLaunchAssumption
    DEF LaunchCreate, CreateProcess, CreateFails, Fail, TypeOK, ServerTypeOK, Pid, ProcState
  <2> QED BY <1>2, <2>1, <2>2 DEF LaunchCreate, TypeOK, dialogVars, flagVars, netVars
<1>3. CASE LaunchInject(t)
  <2>1. /\ pc' \in [Threads -> Pc]
        /\ \A u \in PThreads : pc'[u] \in PPc
        /\ \A u \in GThreads : pc'[u] \in GPc
        /\ pc'[Starter] \in Launching \cup {"box", "off"}
    <3>1. CASE Goto(t, "inject", "resume")
      BY <3>1, GotoType DEF PPc, GPc, Launching
    <3>2. CASE Goto(t, "inject", "box")
      BY <3>2, GotoType DEF PPc, GPc
    <3> QED BY <1>3, <3>1, <3>2 DEF LaunchInject
  <2>2. failures' \in 0 .. MaxFailures
    BY <1>3, WatchdogsAssumption DEF LaunchInject, Fail, TypeOK
  <2> QED
    BY <1>3, <2>1, <2>2
    DEF LaunchInject, TypeOK, ServerTypeOK, serverVars, dialogVars, flagVars, netVars
<1>4. CASE LaunchResume(t)
  <2>1. /\ pc' \in [Threads -> Pc]
        /\ \A u \in PThreads : pc'[u] \in PPc
        /\ \A u \in GThreads : pc'[u] \in GPc
        /\ pc'[Starter] \in Launching \cup {"box", "off"}
    <3>1. CASE Goto(t, "resume", "box")
      BY <3>1, GotoType DEF PPc, GPc
    <3>2. CASE Goto(t, "resume", AfterLaunch(t))
      BY <3>2, <1>1, GotoType
    <3> QED BY <1>4, <3>1, <3>2 DEF LaunchResume
  <2>2. ServerTypeOK'
    BY <1>4 DEF LaunchResume, ResumeProcess, TypeOK, ServerTypeOK, ProcState
  <2> QED
    BY <1>4, <2>1, <2>2
    DEF LaunchResume, TypeOK, dialogVars, flagVars, netVars, boundVars
<1>5. CASE CloseBox(t)
  BY <1>5, <1>1, GotoType
  DEF CloseBox, TypeOK, ServerTypeOK, serverVars, dialogVars, flagVars, netVars, boundVars
<1> QED BY <1>2, <1>3, <1>4, <1>5 DEF Launch

\* The steps both watchdogs share.
LEMMA SharedType ==
    ASSUME TypeOK, NEW t \in Workers, NEW w \in Watchdog, NEW none \in Message,
           Settle(t) \/ TestRunning(t, w, none)
    PROVE  TypeOK'
<1>0. t \in Threads /\ t # Starter
  BY WatchdogsAssumption DEF Threads
<1>1. CASE Settle(t)
  BY <1>0, <1>1, GotoType
  DEF Settle, TypeOK, PPc, GPc, ServerTypeOK, serverVars, dialogVars, flagVars, netVars, boundVars
<1>2. CASE TestRunning(t, w, none)
  <2>1. queue' \in Seq(Message) /\ counter' \in [Count -> Nat]
    BY <1>2, PostType DEF TestRunning, TypeOK, dialogVars
  <2>2. /\ pc' \in [Threads -> Pc]
        /\ \A u \in PThreads : pc'[u] \in PPc
        /\ \A u \in GThreads : pc'[u] \in GPc
        /\ pc'[Starter] \in Launching \cup {"box", "off"}
    BY <1>0, <1>2, GotoType DEF TestRunning, PPc, GPc
  <2> QED
    BY <1>2, <2>1, <2>2
    DEF TestRunning, TypeOK, ServerTypeOK, serverVars, flagVars, netVars, boundVars
<1> QED BY <1>1, <1>2

\* The process watchdog's own steps.
LEMMA ProcessType ==
    ASSUME TypeOK, NEW t \in PThreads,
           PLoop(t) \/ PBegin(t) \/ PCheck(t) \/ PClear(t) \/ PReport(t) \/ PPause(t)
    PROVE  TypeOK'
<1>0. t \in Threads /\ t # Starter /\ t \notin GThreads
  BY WatchdogsAssumption DEF Threads, Workers
<1>1. /\ pc' \in [Threads -> Pc]
      /\ \A u \in PThreads : pc'[u] \in PPc
      /\ \A u \in GThreads : pc'[u] \in GPc
      /\ pc'[Starter] \in Launching \cup {"box", "off"}
  <2>1. PICK to \in PPc : \E from : Goto(t, from, to)
    BY DEF PLoop, PBegin, PCheck, PClear, PReport, PPause, AfterSleep, PPc
  <2> QED BY <1>0, <2>1, GotoType
<1>2. queue' \in Seq(Message) /\ counter' \in [Count -> Nat]
  <2>1. CASE PBegin(t) \/ PClear(t) \/ PReport(t)
    BY <2>1, PostType DEF PBegin, PClear, PReport, Message
  <2>2. CASE PLoop(t) \/ PCheck(t) \/ PPause(t)
    BY <2>2 DEF PLoop, PCheck, PPause, TypeOK, dialogVars
  <2> QED BY <2>1, <2>2
<1> QED
  BY <1>1, <1>2
  DEF PLoop, PBegin, PCheck, PClear, PReport, PPause, TypeOK, ServerTypeOK,
      serverVars, flagVars, netVars, boundVars

\* The gamespy watchdog's own steps.
LEMMA GamespyType ==
    ASSUME TypeOK, NEW t \in GThreads,
           \/ GLoop(t) \/ GBegin(t) \/ GSend(t) \/ GRecv(t) \/ GJudge(t)
           \/ GCheck(t) \/ GKill(t) \/ GMourn(t)
    PROVE  TypeOK'
<1>0. t \in Threads /\ t # Starter /\ t \notin PThreads
  BY WatchdogsAssumption DEF Threads, Workers
<1>1. /\ pc' \in [Threads -> Pc]
      /\ \A u \in PThreads : pc'[u] \in PPc
      /\ \A u \in GThreads : pc'[u] \in GPc
      /\ pc'[Starter] \in Launching \cup {"box", "off"}
  <2>1. PICK to \in GPc : \E from : Goto(t, from, to)
    BY DEF GLoop, GBegin, GSend, GRecv, GJudge, GCheck, GKill, GMourn, AfterSleep, GPc
  <2> QED BY <1>0, <2>1, GotoType
<1>2. queue' \in Seq(Message) /\ counter' \in [Count -> Nat]
  <2>1. CASE GBegin(t) \/ GKill(t) \/ GMourn(t)
    BY <2>1, PostType DEF GBegin, GKill, GMourn, Message
  <2>2. CASE GLoop(t) \/ GSend(t) \/ GJudge(t) \/ GCheck(t)
    BY <2>2 DEF GLoop, GSend, GJudge, GCheck, TypeOK, dialogVars
  <2>3. CASE GRecv(t)
    BY <2>3, PostType DEF GRecv, TypeOK, dialogVars, Message
  <2> QED BY <2>1, <2>2, <2>3
<1>3. /\ wstate' \in [GThreads -> {"NONE", "WAITING", "RESTARTING"}]
      /\ retries' \in [GThreads -> 0 .. GamespyRetries + 1]
  <2>1. CASE GLoop(t) \/ GSend(t) \/ GCheck(t) \/ GKill(t) \/ GMourn(t)
    BY <2>1 DEF GLoop, GSend, GCheck, GKill, GMourn, TypeOK
  <2>2. CASE GBegin(t)
    BY <2>2, WatchdogsAssumption DEF GBegin, TypeOK
  <2>3. CASE GJudge(t)
    BY <2>3 DEF GJudge, TypeOK
  <2>4. CASE GRecv(t)
    <3>1. retries[t] \in 0 .. GamespyRetries + 1
      BY DEF TypeOK
    <3>2. (IF retries[t] > GamespyRetries THEN retries[t] ELSE retries[t] + 1)
               \in 0 .. GamespyRetries + 1
      BY <3>1, WatchdogsAssumption
    <3>3. 0 \in 0 .. GamespyRetries + 1
      BY WatchdogsAssumption
    <3> QED BY <2>4, <3>2, <3>3 DEF GRecv, TypeOK
  <2> QED BY <2>1, <2>2, <2>3, <2>4
<1>4. probes' \in 0 .. MaxDatagrams /\ inbox' \in 0 .. MaxDatagrams
  BY WatchdogsAssumption
  DEF GLoop, GBegin, GSend, GRecv, GJudge, GCheck, GKill, GMourn, TypeOK, netVars, DropProbes
<1>5. ServerTypeOK'
  BY DEF GLoop, GBegin, GSend, GRecv, GJudge, GCheck, GKill, GMourn, TypeOK, serverVars,
         ServerTypeOK, KillServerProcess, ProcState
<1> QED
  BY <1>1, <1>2, <1>3, <1>4, <1>5
  DEF GLoop, GBegin, GSend, GRecv, GJudge, GCheck, GKill, GMourn, TypeOK, flagVars, boundVars

\* The dialog handles a message.
LEMMA HandleType ==
    ASSUME TypeOK, Handle
    PROVE  TypeOK'
<1>1. Head(queue) \in Message /\ queue' \in Seq(Message)
  BY DEF TypeOK, Handle
<1>2. asleep' \in [Watchdog -> BOOLEAN] /\ counter' \in [Count -> Nat]
  <2> DEFINE m == Head(queue)
  <2>1. \/ \E b \in BOOLEAN, w \in Watchdog :
             asleep' = [asleep EXCEPT ![w] = b] /\ UNCHANGED counter
        \/ \E c \in Count :
             counter' = [counter EXCEPT ![c] = counter[c] + 1] /\ UNCHANGED asleep
    <3>1. CASE m \in {"P_CHECKING", "P_NONE", "G_CHECKING", "G_NONE"}
      <4>1. "process" \in Watchdog /\ "gamespy" \in Watchdog
        BY DEF Watchdog
      <4> QED BY <3>1, <4>1 DEF Handle, Effect
    <3>2. CASE m \in {"P_RESTARTED", "G_RESTARTED", "G_LOCKUP"}
      BY <3>2 DEF Handle, Effect, Count
    <3> QED BY <1>1, <3>1, <3>2 DEF Message
  <2>2. asleep \in [Watchdog -> BOOLEAN] /\ counter \in [Count -> Nat]
    BY DEF TypeOK
  <2>3. ASSUME NEW c \in Count PROVE counter[c] + 1 \in Nat
    BY <2>2
  <2> QED BY <2>1, <2>2, <2>3
<1> QED
  BY <1>1, <1>2
  DEF TypeOK, Handle, threadVars, netVars, boundVars, serverVars, ServerTypeOK

\* The user works on the dialog.
LEMMA UserType ==
    ASSUME TypeOK, Edit
    PROVE  TypeOK'
<1>1. ASSUME NEW w \in Watchdog, StartThread(w)
      PROVE  /\ pc' \in [Threads -> Pc]
             /\ \A u \in PThreads : pc'[u] \in PPc
             /\ \A u \in GThreads : pc'[u] \in GPc
             /\ pc'[Starter] \in Launching \cup {"box", "off"}
             /\ running' \in [Watchdog -> BOOLEAN]
             /\ wstate' \in [GThreads -> {"NONE", "WAITING", "RESTARTING"}]
  <2>1. CASE running[w]
    BY <1>1, <2>1 DEF StartThread, TypeOK
  <2>2. CASE ~running[w]
    <3>1. PICK t \in ThreadsOf(w) :
            /\ Goto(t, "off", "settle")
            /\ wstate' = [g \in GThreads |-> IF g = t THEN "NONE" ELSE wstate[g]]
      BY <1>1, <2>2 DEF StartThread
    <3>2. t \in Threads /\ t # Starter
      BY WatchdogsAssumption DEF ThreadsOf, Threads, Workers
    <3>3. "settle" \in PPc /\ "settle" \in GPc
      BY DEF PPc, GPc
    <3>4. running' \in [Watchdog -> BOOLEAN]
      BY <1>1 DEF StartThread, TypeOK
    <3> QED BY <3>1, <3>2, <3>3, <3>4, GotoType DEF TypeOK
  <2> QED BY <2>1, <2>2
<1>2. ASSUME NEW w \in Watchdog, StopThread(w)
      PROVE  running' \in [Watchdog -> BOOLEAN] /\ UNCHANGED <<pc, wstate>>
  BY <1>2 DEF StopThread, TypeOK
<1>3. ASSUME NEW w \in Watchdog, ToggleWatchdog(w)
      PROVE  TypeOK'
  <2>1. edits' \in 0 .. MaxEdits
    BY <1>3, WatchdogsAssumption DEF ToggleWatchdog, TypeOK
  <2>2. /\ enabled' \in [Watchdog -> BOOLEAN]
        /\ StartThread(w) \/ StopThread(w)
    BY <1>3 DEF ToggleWatchdog, TypeOK
  <2>3. /\ pc' \in [Threads -> Pc]
        /\ \A u \in PThreads : pc'[u] \in PPc
        /\ \A u \in GThreads : pc'[u] \in GPc
        /\ pc'[Starter] \in Launching \cup {"box", "off"}
        /\ running' \in [Watchdog -> BOOLEAN]
        /\ wstate' \in [GThreads -> {"NONE", "WAITING", "RESTARTING"}]
    BY <1>1, <1>2, <2>2 DEF TypeOK
  <2> QED
    BY <1>3, <2>1, <2>2, <2>3
    DEF ToggleWatchdog, TypeOK, dialogVars, netVars, serverVars, ServerTypeOK
<1>4. ASSUME NEW w \in Watchdog, ChangeInterval(w)
      PROVE  TypeOK'
  <2>0. 1 - interval[w] \in 0 .. 1
    <3>1. interval[w] \in 0 .. 1
      BY DEF TypeOK
    <3> QED BY <3>1
  <2>1. interval' \in [Watchdog -> 0 .. 1]
    BY <1>4, <2>0 DEF ChangeInterval, TypeOK
  <2>4. edits' \in 0 .. MaxEdits
    BY <1>4, WatchdogsAssumption DEF ChangeInterval, TypeOK
  <2>2. running' \in [Watchdog -> BOOLEAN] /\ UNCHANGED <<pc, wstate>>
    BY <1>2, <1>4 DEF ChangeInterval, TypeOK
  <2>3. enabled' \in [Watchdog -> BOOLEAN]
    BY <1>4 DEF ChangeInterval, TypeOK
  <2> QED
    BY <1>4, <2>1, <2>2, <2>3, <2>4
    DEF ChangeInterval, TypeOK, dialogVars, netVars, serverVars, ServerTypeOK
<1>5. ASSUME NEW n \in 0 .. GamespyRetries, ChangeRetries(n)
      PROVE  TypeOK'
  <2>1. edits' \in 0 .. MaxEdits /\ allowed' \in 0 .. GamespyRetries
    BY <1>5, WatchdogsAssumption DEF ChangeRetries, TypeOK
  <2>2. running' \in [Watchdog -> BOOLEAN] /\ UNCHANGED <<pc, wstate>>
    BY <1>2, <1>5 DEF ChangeRetries, TypeOK, Watchdog
  <2>3. enabled' \in [Watchdog -> BOOLEAN]
    BY <1>5 DEF ChangeRetries, TypeOK
  <2> QED
    BY <1>5, <2>1, <2>2, <2>3
    DEF ChangeRetries, TypeOK, dialogVars, netVars, serverVars, ServerTypeOK
<1> QED BY <1>3, <1>4, <1>5 DEF Edit

\* The server answers, gets ready and fails.
LEMMA ServerType ==
    ASSUME TypeOK, Answer \/ ServerLoads \/ ServerFails
    PROVE  TypeOK'
<1>1. ServerTypeOK'
  BY DEF Answer, ServerLoads, ServerFails, TypeOK, ServerTypeOK, serverVars,
         FinishLoading, Crash, Hang, ProcState
<1>2. probes' \in 0 .. MaxDatagrams /\ inbox' \in 0 .. MaxDatagrams
  BY WatchdogsAssumption
  DEF Answer, ServerLoads, ServerFails, TypeOK, Overdue, DropProbes, netVars
<1>3. failures' \in 0 .. MaxFailures
  BY WatchdogsAssumption DEF Answer, ServerLoads, ServerFails, Fail, TypeOK, boundVars
<1> QED
  BY <1>1, <1>2, <1>3
  DEF Answer, ServerLoads, ServerFails, TypeOK, threadVars, flagVars, dialogVars, boundVars

\* Every variable of the launcher stays in its type: no thread leaves the
\* places its code has, whatever the dialog, the server and the user do.
THEOREM TypeCorrect == Spec => []TypeOK
<1>1. Init => TypeOK
  BY WatchdogsAssumption, MaxLaunchAssumption
  DEF Init, TypeOK, ServerInit, ServerTypeOK, ProcState, Pc, PPc, GPc, Threads, Workers,
      Launching, Count, Message
<1>2. TypeOK /\ [Next]_vars => TypeOK'
  <2> SUFFICES ASSUME TypeOK, [Next]_vars PROVE TypeOK'
    OBVIOUS
  <2>0. /\ PThreads \subseteq Threads /\ PThreads \subseteq Workers
        /\ GThreads \subseteq Threads /\ GThreads \subseteq Workers
        /\ Starter \in Threads
    BY DEF Threads, Workers
  <2>1. ASSUME NEW t \in PThreads, PStep(t) PROVE TypeOK'
    BY <2>0, <2>1, ProcessType, LaunchType, SharedType DEF PStep, Watchdog, Message
  <2>2. ASSUME NEW t \in GThreads, GStep(t) PROVE TypeOK'
    BY <2>0, <2>2, GamespyType, LaunchType, SharedType DEF GStep, Watchdog, Message
  <2>3. CASE StarterStep
    BY <2>0, <2>3, LaunchType DEF StarterStep
  <2>4. CASE UNCHANGED vars
    BY <2>4 DEF vars, threadVars, flagVars, dialogVars, netVars, boundVars, serverVars,
                TypeOK, ServerTypeOK
  <2>5. ASSUME NEW t \in Threads, CloseBox(t) PROVE TypeOK'
    BY <2>5, LaunchType
  <2> QED
    BY <2>1, <2>2, <2>3, <2>4, <2>5, HandleType, UserType, ServerType DEF Next
<1> QED BY <1>1, <1>2, PTL DEF Spec

-----------------------------------------------------------------------------
(* The process watchdog's sleep flag.  The invariant is inductive beside   *)
(* TypeOK: each lemma is one way a step can touch the queue, the flag or   *)
(* the gamespy thread.                                                     *)

OneGamespyThread == \A g, h \in GThreads : g = h

\* Nothing the property speaks about changes.
LEMMA MirrorSame ==
    ASSUME SleepMirrorsWaiting, UNCHANGED <<queue, asleep>>, Waiting' <=> Waiting
    PROVE  SleepMirrorsWaiting'
  BY DEF SleepMirrorsWaiting, LastG

\* A message that is not about the gamespy watchdog is posted.
LEMMA MirrorPostOther ==
    ASSUME TypeOK, SleepMirrorsWaiting, NEW m, m \notin GMessage, Post(m),
           UNCHANGED asleep, Waiting' <=> Waiting
    PROVE  SleepMirrorsWaiting'
<1>1. /\ queue \in Seq(Message) /\ Len(queue) \in Nat
      /\ Len(queue') = Len(queue) + 1
      /\ \A i \in 1 .. Len(queue) : queue'[i] = queue[i]
      /\ queue'[Len(queue) + 1] = m
  BY DEF TypeOK, Post
<1>2. ASSUME NEW i \in 1 .. Len(queue'), LastG(i)'
      PROVE  i \in 1 .. Len(queue) /\ LastG(i)
  BY <1>1, <1>2 DEF LastG
<1>3. ASSUME \A i \in 1 .. Len(queue') : queue'[i] \notin GMessage
      PROVE  \A i \in 1 .. Len(queue) : queue[i] \notin GMessage
  BY <1>1, <1>3
<1> QED BY <1>1, <1>2, <1>3 DEF SleepMirrorsWaiting

\* The gamespy watchdog posts what it is about to be.
LEMMA MirrorPostG ==
    ASSUME TypeOK, NEW m \in GMessage, Post(m), m = "G_CHECKING" <=> Waiting'
    PROVE  SleepMirrorsWaiting'
<1>1. /\ queue \in Seq(Message) /\ Len(queue) \in Nat
      /\ Len(queue') = Len(queue) + 1
      /\ queue'[Len(queue) + 1] = m
  BY DEF TypeOK, Post
<1>2. ASSUME NEW i \in 1 .. Len(queue'), LastG(i)'
      PROVE  queue'[i] = m
  BY <1>1, <1>2 DEF LastG
<1> QED BY <1>1, <1>2 DEF SleepMirrorsWaiting

\* The dialog handles the oldest message.
LEMMA MirrorHandle ==
    ASSUME TypeOK, SleepMirrorsWaiting, Handle
    PROVE  SleepMirrorsWaiting'
<1> DEFINE n == Len(queue)
           m == Head(queue)
<1>1. /\ queue \in Seq(Message) /\ n \in Nat /\ n > 0
      /\ m = queue[1] /\ m \in Message
      /\ Len(queue') = n - 1
      /\ \A i \in 1 .. n - 1 : queue'[i] = queue[i + 1]
  BY DEF TypeOK, Handle
<1>2. Waiting' <=> Waiting
  BY DEF Handle, Waiting, threadVars
<1>3. ASSUME NEW i \in 1 .. n - 1, LastG(i)'
      PROVE  queue'[i] = "G_CHECKING" <=> Waiting
  <2>1. LastG(i + 1)
    <3>1. ASSUME NEW j \in 1 .. n, j > i + 1
          PROVE  queue[j] \notin GMessage
      <4>1. j - 1 \in 1 .. n - 1 /\ j - 1 > i /\ queue'[j - 1] = queue[j]
        BY <1>1, <3>1
      <4> QED BY <1>1, <1>3, <4>1 DEF LastG
    <3> QED BY <1>1, <1>3, <3>1 DEF LastG
  <2> QED BY <1>1, <2>1 DEF SleepMirrorsWaiting
<1>4. ASSUME \A i \in 1 .. n - 1 : queue'[i] \notin GMessage
      PROVE  asleep'["process"] <=> Waiting
  <2>1. \A j \in 1 .. n : j > 1 => queue[j] \notin GMessage
    <3> SUFFICES ASSUME NEW j \in 1 .. n, j > 1 PROVE queue[j] \notin GMessage
      OBVIOUS
    <3>1. j - 1 \in 1 .. n - 1 /\ queue'[j - 1] = queue[j]
      BY <1>1
    <3> QED BY <1>4, <3>1
  <2>2. CASE m \in GMessage
    <3>1. LastG(1)
      BY <1>1, <2>1, <2>2 DEF LastG
    <3>2. m = "G_CHECKING" <=> Waiting
      BY <1>1, <3>1 DEF SleepMirrorsWaiting
    <3>3. asleep'["process"] = (m = "G_CHECKING")
      BY <2>2 DEF Handle, Effect, GMessage, TypeOK, Watchdog
    <3> QED BY <3>2, <3>3
  <2>3. CASE m \notin GMessage
    <3>1. asleep["process"] <=> Waiting
      BY <1>1, <2>1, <2>3 DEF SleepMirrorsWaiting
    <3>2. asleep'["process"] = asleep["process"]
      BY <1>1, <2>3 DEF Handle, Effect, GMessage, Message, TypeOK, Watchdog
    <3> QED BY <3>1, <3>2
  <2> QED BY <2>2, <2>3
<1> QED BY <1>1, <1>2, <1>3, <1>4 DEF SleepMirrorsWaiting

\* A step of another thread does not change whether the gamespy thread waits.
LEMMA WaitingElsewhere ==
    ASSUME TypeOK, NEW t, t \notin GThreads, NEW from, NEW to, Goto(t, from, to),
           UNCHANGED wstate
    PROVE  Waiting' <=> Waiting
  BY DEF Waiting, Goto, TypeOK, Threads, Workers

\* A step of the gamespy thread decides it.
LEMMA WaitingHere ==
    ASSUME TypeOK, OneGamespyThread, NEW t \in GThreads, NEW from, NEW to, Goto(t, from, to)
    PROVE  /\ Waiting <=> (from # "off" /\ wstate[t] # "NONE")
           /\ Waiting' <=> (to # "off" /\ wstate'[t] # "NONE")
<1>1. pc[t] = from /\ pc'[t] = to
  BY DEF Goto, TypeOK, Threads, Workers
<1>2. Waiting <=> (pc[t] # "off" /\ wstate[t] # "NONE")
  BY DEF Waiting, OneGamespyThread
<1>3. Waiting' <=> (pc'[t] # "off" /\ wstate'[t] # "NONE")
  BY DEF Waiting, OneGamespyThread
<1> QED BY <1>1, <1>2, <1>3

\* The process watchdog's threads and the starter.
LEMMA MirrorElsewhere ==
    ASSUME TypeOK, SleepMirrorsWaiting, NEW t \in Threads, t \notin GThreads,
           PStep(t) \/ Launch(t) \/ CloseBox(t)
    PROVE  SleepMirrorsWaiting'
<1>1. /\ \E from, to : Goto(t, from, to)
      /\ UNCHANGED <<wstate, asleep>>
  BY DEF PStep, Settle, PLoop, PBegin, PCheck, PClear, Launch, LaunchCreate,
         LaunchInject, LaunchResume, CloseBox, PReport, PPause, TestRunning, flagVars
<1>2. Waiting' <=> Waiting
  BY <1>1, WaitingElsewhere
<1>3. \/ UNCHANGED queue
      \/ \E m \in {"P_CHECKING", "P_NONE", "P_RESTARTED"} : Post(m)
  BY DEF PStep, Settle, PLoop, PBegin, PCheck, PClear, Launch, LaunchCreate,
         LaunchInject, LaunchResume, CloseBox, PReport, PPause, TestRunning, dialogVars
<1>4. CASE UNCHANGED queue
  BY <1>1, <1>2, <1>4, MirrorSame
<1>5. CASE \E m \in {"P_CHECKING", "P_NONE", "P_RESTARTED"} : Post(m)
  BY <1>1, <1>2, <1>5, MirrorPostOther DEF GMessage
<1> QED BY <1>3, <1>4, <1>5

\* What a gamespy thread knows of its own state: it asks and listens only
\* while it waits, and a thread that judges without waiting counts no misses.
WaitInv ==
    \A t \in GThreads :
        /\ pc[t] \in {"send", "recv"} => wstate[t] # "NONE"
        /\ pc[t] = "judge" /\ wstate[t] = "NONE" => retries[t] = 0

\* One thread's step, from what it does to its own pc and state.
LEMMA WaitOther ==
    ASSUME TypeOK, WaitInv, NEW t \in Threads, NEW from, NEW to, Goto(t, from, to),
           UNCHANGED <<wstate, retries>>,
           to \in {"send", "recv"} => wstate[t] # "NONE",
           to # "judge"
    PROVE  WaitInv'
  BY DEF WaitInv, Goto, TypeOK, Threads, Workers

\* A gamespy thread's step keeps WaitInv.
LEMMA WaitGamespy ==
    ASSUME TypeOK, WaitInv, NEW t \in GThreads,
           \/ GLoop(t) \/ GBegin(t) \/ GSend(t) \/ GRecv(t) \/ GJudge(t)
           \/ GCheck(t) \/ GKill(t) \/ GMourn(t)
    PROVE  WaitInv'
<1>0. t \in Threads
  BY DEF Threads, Workers
<1>1. CASE GLoop(t) \/ GCheck(t) \/ GKill(t) \/ GMourn(t)
  BY <1>0, <1>1, WaitOther DEF GLoop, GCheck, GKill, GMourn
<1>2. CASE GBegin(t)
  BY <1>0, <1>2 DEF GBegin, Goto, WaitInv, TypeOK
<1>3. CASE GSend(t)
  <2>1. wstate[t] # "NONE"
    BY <1>3 DEF GSend, Goto, WaitInv
  <2> QED BY <1>0, <1>3, <2>1, WaitOther DEF GSend
<1>4. CASE GRecv(t)
  <2>1. wstate[t] # "NONE"
    BY <1>4 DEF GRecv, Goto, WaitInv
  <2>2. \A u \in GThreads : u # t => /\ pc'[u] = pc[u]
                                   /\ wstate'[u] = wstate[u]
                                   /\ retries'[u] = retries[u]
    BY <1>0, <1>4 DEF GRecv, Goto, TypeOK, Threads, Workers
  <2>3. pc'[t] \in {"judge", "oversleep"}
    BY <1>0, <1>4 DEF GRecv, Goto, TypeOK, AfterSleep
  <2>4. wstate'[t] # "NONE" \/ retries'[t] = 0
    BY <1>4, <2>1 DEF GRecv, TypeOK
  <2> QED BY <2>2, <2>3, <2>4 DEF WaitInv
<1>5. CASE GJudge(t)
  <2>1. /\ \A u \in GThreads : u # t => /\ pc'[u] = pc[u]
                                        /\ wstate'[u] = wstate[u]
        /\ pc'[t] \in {"check", "test"}
        /\ UNCHANGED retries
    BY <1>0, <1>5 DEF GJudge, Goto, TypeOK
  <2> QED BY <2>1 DEF WaitInv
<1> QED BY <1>1, <1>2, <1>3, <1>4, <1>5

\* The user's edits keep WaitInv: a new thread starts from scratch.
LEMMA WaitUser ==
    ASSUME TypeOK, WaitInv, Edit
    PROVE  WaitInv'
<1>1. ASSUME NEW w \in Watchdog, StartThread(w), UNCHANGED retries
      PROVE  WaitInv'
  <2>1. CASE running[w]
    BY <1>1, <2>1 DEF StartThread, WaitInv
  <2>2. CASE ~running[w]
    <3>1. PICK t \in ThreadsOf(w) :
            /\ Goto(t, "off", "settle")
            /\ wstate' = [g \in GThreads |-> IF g = t THEN "NONE" ELSE wstate[g]]
      BY <1>1, <2>2 DEF StartThread
    <3>2. t \in Threads
      BY DEF ThreadsOf, Threads, Workers
    <3>3. \A u \in GThreads : u # t => pc'[u] = pc[u] /\ wstate'[u] = wstate[u]
      BY <3>1, <3>2 DEF Goto, TypeOK, Threads, Workers
    <3>4. pc'[t] = "settle"
      BY <3>1, <3>2 DEF Goto, TypeOK
    <3> QED BY <1>1, <3>3, <3>4 DEF WaitInv
  <2> QED BY <2>1, <2>2
<1>2. ASSUME UNCHANGED <<pc, wstate, retries>> PROVE WaitInv'
  BY <1>2 DEF WaitInv
<1> QED
  BY <1>1, <1>2 DEF Edit, ToggleWatchdog, ChangeInterval, ChangeRetries, StopThread

\* WaitInv always holds.
LEMMA WaitCorrect == Spec => []WaitInv
<1>1. Init => WaitInv
  BY WatchdogsAssumption DEF Init, WaitInv, Threads, Workers
<1>2. TypeOK /\ WaitInv /\ [Next]_vars => WaitInv'
  <2> SUFFICES ASSUME TypeOK, WaitInv, [Next]_vars PROVE WaitInv'
    OBVIOUS
  <2>1. ASSUME NEW t \in Threads,
               \/ Launch(t) \/ CloseBox(t) \/ Settle(t)
               \/ \E w, none : TestRunning(t, w, none)
        PROVE  WaitInv'
    BY <2>1, WaitOther
    DEF Launch, LaunchCreate, LaunchInject, LaunchResume, CloseBox, Settle, TestRunning,
        AfterLaunch
  <2>2. ASSUME NEW t \in PThreads,
               PLoop(t) \/ PBegin(t) \/ PCheck(t) \/ PClear(t) \/ PReport(t) \/ PPause(t)
        PROVE  WaitInv'
    <3>1. t \in Threads
      BY DEF Threads, Workers
    <3> QED
      BY <2>2, <3>1, WaitOther
      DEF PLoop, PBegin, PCheck, PClear, PReport, PPause, AfterSleep
  <2>3. PThreads \subseteq Threads /\ GThreads \subseteq Threads /\ Starter \in Threads
    BY DEF Threads, Workers
  <2>4. ASSUME NEW t \in PThreads, PStep(t) PROVE WaitInv'
    BY <2>1, <2>2, <2>3, <2>4 DEF PStep
  <2>5. ASSUME NEW t \in GThreads, GStep(t) PROVE WaitInv'
    BY <2>1, <2>3, <2>5, WaitGamespy DEF GStep
  <2>6. CASE StarterStep
    BY <2>1, <2>3, <2>6 DEF StarterStep
  <2>7. CASE Handle \/ Answer \/ ServerLoads \/ ServerFails \/ UNCHANGED vars
    BY <2>7 DEF Handle, Answer, ServerLoads, ServerFails, vars, threadVars, WaitInv
  <2> QED BY <2>1, <2>4, <2>5, <2>6, <2>7, WaitUser DEF Next
<1> QED BY <1>1, <1>2, TypeCorrect, PTL DEF Spec

\* The gamespy watchdog's thread, action by action.
LEMMA MirrorGamespy ==
    ASSUME TypeOK, WaitInv, SleepMirrorsWaiting, OneGamespyThread,
           NEW t \in GThreads, GStep(t) \/ CloseBox(t)
    PROVE  SleepMirrorsWaiting'
<1>0. t \in Threads
  BY DEF Threads, Workers
<1>1. UNCHANGED asleep
  BY DEF GStep, Settle, GLoop, GBegin, GSend, GRecv, GJudge, GCheck, GKill, GMourn,
         Launch, LaunchCreate, LaunchInject, LaunchResume, CloseBox, TestRunning, flagVars
<1>2. CASE \/ Settle(t) \/ GLoop(t) \/ GSend(t) \/ GCheck(t)
           \/ Launch(t) \/ CloseBox(t)
  <2>1. /\ \E from, to : /\ Goto(t, from, to)
                         /\ from # "off" /\ to # "off"
        /\ UNCHANGED <<queue, wstate>>
    BY <1>2, WatchdogsAssumption
    DEF Settle, GLoop, GSend, GCheck, Launch, LaunchCreate, LaunchInject, LaunchResume,
        CloseBox, AfterLaunch, dialogVars, Workers
  <2>2. Waiting' <=> Waiting
    BY <2>1, WaitingHere
  <2> QED BY <1>1, <2>1, <2>2, MirrorSame
<1>3. CASE GBegin(t)
  <2>1. Goto(t, "begin", "send") /\ wstate'[t] = "WAITING" /\ Post("G_CHECKING")
    BY <1>3 DEF GBegin, TypeOK
  <2>2. Waiting'
    BY <2>1, WaitingHere
  <2> QED BY <2>1, <2>2, MirrorPostG DEF GMessage
<1>4. CASE GRecv(t)
  <2>1. CASE inbox = 0
    <3>1. Goto(t, "recv", "judge") /\ UNCHANGED <<queue, wstate>>
      BY <1>4, <2>1 DEF GRecv, dialogVars
    <3>2. Waiting' <=> Waiting
      BY <3>1, WaitingHere
    <3> QED BY <1>1, <3>1, <3>2, MirrorSame
  <2>2. CASE inbox > 0
    <3>1. /\ \E to : Goto(t, "recv", to)
          /\ wstate'[t] = "NONE"
          /\ Post("G_NONE")
      BY <1>4, <2>2 DEF GRecv, TypeOK
    <3>2. ~Waiting'
      BY <3>1, WaitingHere
    <3> QED BY <3>1, <3>2, MirrorPostG DEF GMessage
  <2> QED BY <1>4, <2>1, <2>2 DEF GRecv
<1>5. CASE GJudge(t)
  <2>1. /\ \E to : Goto(t, "judge", to) /\ to # "off"
        /\ UNCHANGED queue
    BY <1>5 DEF GJudge, dialogVars
  <2>2. wstate'[t] # "NONE" <=> wstate[t] # "NONE"
    <3>1. wstate[t] = "NONE" => ~(retries[t] > allowed)
      BY <1>5 DEF GJudge, Goto, WaitInv, TypeOK
    <3> QED BY <1>5, <3>1 DEF GJudge, TypeOK
  <2>3. Waiting' <=> Waiting
    BY <2>1, <2>2, WaitingHere
  <2> QED BY <1>1, <2>1, <2>3, MirrorSame
<1>6. CASE GKill(t) \/ GMourn(t)
  <2>1. /\ \E from, to : Goto(t, from, to) /\ from # "off" /\ to # "off"
        /\ UNCHANGED wstate
        /\ \E m \in {"G_LOCKUP", "G_RESTARTED"} : Post(m)
    BY <1>6 DEF GKill, GMourn
  <2>2. Waiting' <=> Waiting
    BY <2>1, WaitingHere
  <2> QED BY <1>1, <2>1, <2>2, MirrorPostOther DEF GMessage
<1>7. CASE TestRunning(t, "gamespy", "G_NONE")
  <2>1. CASE running["gamespy"]
    <3>1. Goto(t, "test", "loop") /\ UNCHANGED <<queue, wstate>>
      BY <1>7, <2>1 DEF TestRunning, dialogVars
    <3>2. Waiting' <=> Waiting
      BY <3>1, WaitingHere
    <3> QED BY <1>1, <3>1, <3>2, MirrorSame
  <2>2. CASE ~running["gamespy"]
    <3>1. Goto(t, "test", "off") /\ Post("G_NONE")
      BY <1>7, <2>2 DEF TestRunning
    <3>2. ~Waiting'
      BY <3>1, WaitingHere
    <3> QED BY <3>1, <3>2, MirrorPostG DEF GMessage
  <2> QED BY <2>1, <2>2
<1> QED BY <1>2, <1>3, <1>4, <1>5, <1>6, <1>7 DEF GStep

\* The user: a new gamespy thread does not wait, and replaces one that is off.
LEMMA MirrorUser ==
    ASSUME TypeOK, SleepMirrorsWaiting, OneGamespyThread, Edit
    PROVE  SleepMirrorsWaiting'
<1>1. UNCHANGED <<queue, asleep>>
  BY DEF Edit, ToggleWatchdog, ChangeInterval, ChangeRetries, dialogVars
<1>2. Waiting' <=> Waiting
  <2>1. ASSUME NEW w \in Watchdog, StartThread(w)
        PROVE  Waiting' <=> Waiting
    <3>1. CASE running[w]
      BY <2>1, <3>1 DEF StartThread, Waiting
    <3>2. CASE ~running[w]
      <4>1. PICK t \in ThreadsOf(w) :
              /\ Goto(t, "off", "settle")
              /\ wstate' = [g \in GThreads |-> IF g = t THEN "NONE" ELSE wstate[g]]
        BY <2>1, <3>2 DEF StartThread
      <4>2. CASE t \in GThreads
        BY <4>1, <4>2, WaitingHere
      <4>3. CASE t \notin GThreads
        <5>1. wstate' = wstate
          BY <4>1, <4>3 DEF TypeOK
        <5> QED BY <4>1, <4>3, <5>1, WaitingElsewhere
      <4> QED BY <4>2, <4>3
    <3> QED BY <3>1, <3>2
  <2>2. ASSUME UNCHANGED <<pc, wstate>> PROVE Waiting' <=> Waiting
    BY <2>2 DEF Waiting
  <2> QED
    BY <2>1, <2>2 DEF Edit, ToggleWatchdog, ChangeInterval, ChangeRetries, StopThread
<1> QED BY <1>1, <1>2, MirrorSame

\* With at most one gamespy thread, however often it is stopped and started,
\* the process watchdog sleeps exactly while the gamespy watchdog waits, as
\* soon as the dialog has caught up with its messages.
THEOREM MirrorCorrect ==
    ASSUME OneGamespyThread
    PROVE  Spec => []SleepMirrorsWaiting
<1>1. Init => SleepMirrorsWaiting
  BY WatchdogsAssumption
  DEF Init, SleepMirrorsWaiting, Waiting, LastG, Watchdog
<1>2. TypeOK /\ WaitInv /\ SleepMirrorsWaiting /\ [Next]_vars => SleepMirrorsWaiting'
  <2> SUFFICES ASSUME TypeOK, WaitInv, SleepMirrorsWaiting, [Next]_vars
               PROVE  SleepMirrorsWaiting'
    OBVIOUS
  <2>1. ASSUME NEW t \in PThreads, PStep(t) PROVE SleepMirrorsWaiting'
    BY <2>1, MirrorElsewhere, WatchdogsAssumption DEF Threads, Workers
  <2>2. ASSUME NEW t \in GThreads, GStep(t) PROVE SleepMirrorsWaiting'
    BY <2>2, MirrorGamespy
  <2>3. CASE StarterStep
    BY <2>3, MirrorElsewhere, WatchdogsAssumption DEF StarterStep, Threads, Workers
  <2>5. ASSUME NEW t \in Threads, CloseBox(t) PROVE SleepMirrorsWaiting'
    BY <2>5, MirrorElsewhere, MirrorGamespy
  <2>4. CASE Answer \/ ServerLoads \/ ServerFails \/ UNCHANGED vars
    <3>1. UNCHANGED <<queue, asleep, pc, wstate>>
      BY <2>4 DEF Answer, ServerLoads, ServerFails, vars, threadVars, flagVars, dialogVars
    <3> QED BY <3>1, MirrorSame DEF Waiting
  <2> QED BY <2>1, <2>2, <2>3, <2>4, <2>5, MirrorHandle, MirrorUser DEF Next
<1> QED BY <1>1, <1>2, TypeCorrect, WaitCorrect, PTL DEF Spec

-----------------------------------------------------------------------------
(* No lost server.  With one watchdog and a finished first launch, a       *)
(* thread that is about to launch has seen that nothing runs, and nobody   *)
(* launches between its check and its launch.                              *)

\* One watchdog, the first launch done within 10 seconds, nobody at the dialog.
LoneWatchdog ==
    /\ LaunchWithin10s
    /\ MaxEdits = 0
    /\ \A on \in Configs : \E w \in Watchdog : on \subseteq {w}

NoneAlive == \A p \in Pid : procs[p] \notin Alive

\* The inductive strengthening of AliveIsTracked.
LoneInv ==
    /\ \A t, u \in Workers : pc[t] # "off" /\ pc[u] # "off" => t = u
    /\ pc[Starter] \in Launching => \A t \in Workers : pc[t] \in {"off", "settle"}
    /\ \A t \in Threads : pc[t] \in {"create", "mourn"} => NoneAlive
    /\ AliveIsTracked

\* Beside a thread that is past its start, every other one is idle, or it is
\* the starter before its message box.
LEMMA OthersIdle ==
    ASSUME TypeOK, LoneInv, NEW t \in Threads, pc[t] \notin {"off", "settle"},
           t = Starter => pc[t] \in Launching,
           NEW u \in Threads, u # t
    PROVE  pc[u] \in IF u = Starter THEN {"off", "box"} ELSE {"off", "settle"}
  BY WatchdogsAssumption DEF LoneInv, Threads, TypeOK

\* A step of a busy thread keeps every other one idle.  What is left to show
\* is that a launch it is about to make finds no server.
LEMMA BusyStep ==
    ASSUME TypeOK, LoneInv, NEW t \in Threads, NEW from, NEW to, Goto(t, from, to),
           from \notin {"off", "settle"},
           t = Starter => from \in Launching,
           to \in {"create", "mourn"} => NoneAlive',
           AliveIsTracked'
    PROVE  LoneInv'
<1>1. pc[t] = from /\ pc'[t] = to /\ \A u \in Threads : u # t => pc'[u] = pc[u]
  BY DEF Goto, TypeOK
<1>2. \A u \in Threads :
        u # t => pc'[u] \in IF u = Starter THEN {"off", "box"} ELSE {"off", "settle"}
  BY <1>1, OthersIdle
<1>3. \A u, v \in Workers : pc'[u] # "off" /\ pc'[v] # "off" => u = v
  <2> SUFFICES ASSUME NEW u \in Workers, NEW v \in Workers,
                      pc'[u] # "off", pc'[v] # "off"
               PROVE  u = v
    OBVIOUS
  <2>1. pc[u] # "off" /\ pc[v] # "off"
    BY <1>1 DEF Threads
  <2> QED BY <2>1 DEF LoneInv
<1>4. pc'[Starter] \in Launching => \A u \in Workers : pc'[u] \in {"off", "settle"}
  <2>1. CASE t = Starter
    BY <1>2, <2>1, WatchdogsAssumption DEF Threads
  <2>2. CASE t # Starter
    <3>1. t \in Workers /\ pc'[Starter] = pc[Starter]
      BY <1>1, <2>2 DEF Threads
    <3>2. pc[Starter] \notin Launching
      BY <1>1, <3>1 DEF LoneInv
    <3> QED BY <3>1, <3>2
  <2> QED BY <2>1, <2>2
<1>5. \A u \in Threads : pc'[u] \in {"create", "mourn"} => NoneAlive'
  BY <1>1, <1>2
<1> QED BY <1>3, <1>4, <1>5 DEF LoneInv

\* The end of a launch.
LEMMA AfterLaunchPlace ==
    ASSUME NEW t \in Threads
    PROVE  AfterLaunch(t) \in {"report", "test", "off"}
  BY DEF AfterLaunch

\* A launch, by whichever thread is about to make it.
LEMMA LoneLaunch ==
    ASSUME TypeOK, LoneInv, NEW t \in Threads,
           Launch(t)
    PROVE  LoneInv'
<1>1. CASE LaunchCreate(t)
  <2>1. pc[t] = "create" /\ NoneAlive
    BY <1>1 DEF LaunchCreate, Goto, LoneInv
  <2>2. AliveIsTracked'
    BY <1>1, <2>1
    DEF LaunchCreate, CreateProcess, CreateFails, NoneAlive, AliveIsTracked, TypeOK, ServerTypeOK
  <2>3. \E to \in {"inject", "box"} : Goto(t, "create", to)
    BY <1>1 DEF LaunchCreate
  <2> QED BY <2>2, <2>3, BusyStep DEF Launching
<1>2. CASE LaunchInject(t)
  <2>1. AliveIsTracked'
    BY <1>2 DEF LaunchInject, LoneInv, AliveIsTracked, serverVars
  <2>2. \E to \in {"resume", "box"} : Goto(t, "inject", to)
    BY <1>2 DEF LaunchInject
  <2> QED BY <2>1, <2>2, BusyStep DEF Launching
<1>3. CASE LaunchResume(t)
  <2>1. AliveIsTracked'
    BY <1>3
    DEF LaunchResume, ResumeProcess, LoneInv, AliveIsTracked, Alive, TypeOK, ServerTypeOK
  <2>2. \E to \in {"box", "report", "test", "off"} : Goto(t, "resume", to)
    BY <1>3, AfterLaunchPlace DEF LaunchResume
  <2> QED BY <2>1, <2>2, BusyStep DEF Launching
<1> QED BY <1>1, <1>2, <1>3 DEF Launch

\* The user closes the message box of a launch that failed.
LEMMA LoneClose ==
    ASSUME TypeOK, LoneInv, NEW t \in Threads, CloseBox(t)
    PROVE  LoneInv'
<1>1. /\ pc[t] = "box" /\ pc'[t] \in {"report", "test", "off"}
      /\ \A u \in Threads : u # t => pc'[u] = pc[u]
      /\ UNCHANGED <<pi, procs>>
  BY AfterLaunchPlace DEF CloseBox, Goto, TypeOK, serverVars
<1>2. \A u, v \in Workers : pc'[u] # "off" /\ pc'[v] # "off" => u = v
  <2> SUFFICES ASSUME NEW u \in Workers, NEW v \in Workers,
                      pc'[u] # "off", pc'[v] # "off"
               PROVE  u = v
    OBVIOUS
  <2>1. pc[u] # "off" /\ pc[v] # "off"
    BY <1>1 DEF Threads
  <2> QED BY <2>1 DEF LoneInv
<1>3. pc'[Starter] \notin Launching
  BY <1>1, WatchdogsAssumption DEF Threads, LoneInv, Launching
<1>4. \A u \in Threads : pc'[u] \in {"create", "mourn"} => NoneAlive'
  BY <1>1 DEF LoneInv, NoneAlive
<1> QED BY <1>1, <1>2, <1>3, <1>4 DEF LoneInv, AliveIsTracked

\* The end of the initial Sleep: the starter is done.
LEMMA LoneSettle ==
    ASSUME TypeOK, LoneInv, LaunchWithin10s, NEW t \in Workers, Settle(t)
    PROVE  LoneInv'
<1>1. /\ t \in Threads /\ t # Starter
      /\ pc[Starter] \notin Launching /\ pc[t] = "settle" /\ pc'[t] = "loop"
      /\ \A u \in Threads : u # t => pc'[u] = pc[u]
      /\ UNCHANGED <<pi, procs>>
  BY WatchdogsAssumption DEF Settle, Goto, TypeOK, Threads, serverVars
<1>2. pc'[Starter] \notin Launching
  BY <1>1 DEF Threads
<1>3. \A u, v \in Workers : pc'[u] # "off" /\ pc'[v] # "off" => u = v
  <2> SUFFICES ASSUME NEW u \in Workers, NEW v \in Workers,
                      pc'[u] # "off", pc'[v] # "off"
               PROVE  u = v
    OBVIOUS
  <2>1. pc[u] # "off" /\ pc[v] # "off"
    BY <1>1 DEF Threads
  <2> QED BY <2>1 DEF LoneInv
<1>4. \A u \in Threads : pc'[u] \in {"create", "mourn"} => NoneAlive'
  BY <1>1 DEF LoneInv, NoneAlive
<1> QED BY <1>1, <1>2, <1>3, <1>4 DEF LoneInv, AliveIsTracked

\* What the check has seen: the handle names no live process, so none lives.
LEMMA InactiveMeansNone ==
    ASSUME AliveIsTracked, ~CheckProcessActive
    PROVE  NoneAlive
  BY DEF AliveIsTracked, CheckProcessActive, NoneAlive

\* The process watchdog.
LEMMA LoneProcess ==
    ASSUME TypeOK, LoneInv, LaunchWithin10s, NEW t \in PThreads, PStep(t)
    PROVE  LoneInv'
<1>0. t \in Threads /\ t \in Workers /\ t # Starter
  BY WatchdogsAssumption DEF Threads, Workers
<1>1. CASE PCheck(t)
  <2>1. AliveIsTracked' /\ (NoneAlive' <=> NoneAlive)
    BY <1>1 DEF PCheck, serverVars, LoneInv, AliveIsTracked, NoneAlive
  <2>2. \/ Goto(t, "check", "clear")
        \/ Goto(t, "check", "create") /\ NoneAlive
    BY <1>1, InactiveMeansNone DEF PCheck, LoneInv
  <2> QED BY <1>0, <2>1, <2>2, BusyStep
<1>2. CASE \/ PLoop(t) \/ PBegin(t) \/ PClear(t) \/ PReport(t) \/ PPause(t)
           \/ TestRunning(t, "process", "P_NONE")
  <2>1. AliveIsTracked'
    BY <1>2
    DEF PLoop, PBegin, PClear, PReport, PPause, TestRunning, serverVars, LoneInv, AliveIsTracked
  <2>2. \E from, to : /\ Goto(t, from, to)
                      /\ from \notin {"off", "settle"}
                      /\ to \notin {"create", "mourn"}
    BY <1>2 DEF PLoop, PBegin, PClear, PReport, PPause, TestRunning, AfterSleep
  <2> QED BY <1>0, <2>1, <2>2, BusyStep
<1> QED BY <1>0, <1>1, <1>2, LoneLaunch, LoneSettle DEF PStep

\* The gamespy watchdog: it kills what the handle names, which is all there is.
LEMMA LoneGamespy ==
    ASSUME TypeOK, LoneInv, LaunchWithin10s, NEW t \in GThreads, GStep(t)
    PROVE  LoneInv'
<1>0. t \in Threads /\ t \in Workers /\ t # Starter
  BY WatchdogsAssumption DEF Threads, Workers
<1>1. CASE GCheck(t)
  <2>1. AliveIsTracked' /\ (NoneAlive' <=> NoneAlive)
    BY <1>1 DEF GCheck, serverVars, LoneInv, AliveIsTracked, NoneAlive
  <2>2. \/ Goto(t, "check", "kill")
        \/ Goto(t, "check", "mourn") /\ NoneAlive
    BY <1>1, InactiveMeansNone DEF GCheck, LoneInv
  <2> QED BY <1>0, <2>1, <2>2, BusyStep
<1>2. CASE GKill(t)
  <2>1. NoneAlive'
    BY <1>2
    DEF GKill, KillServerProcess, LoneInv, AliveIsTracked, NoneAlive, Alive, TypeOK, ServerTypeOK
  <2>2. AliveIsTracked'
    BY <2>1 DEF NoneAlive, AliveIsTracked
  <2> QED BY <1>0, <1>2, <2>1, <2>2, BusyStep DEF GKill
<1>3. CASE GMourn(t)
  <2>1. pc[t] = "mourn" /\ UNCHANGED <<pi, procs>>
    BY <1>3 DEF GMourn, Goto, serverVars
  <2>2. NoneAlive' /\ AliveIsTracked'
    BY <1>0, <2>1 DEF LoneInv, NoneAlive, AliveIsTracked
  <2> QED BY <1>0, <1>3, <2>2, BusyStep DEF GMourn
<1>4. CASE \/ GLoop(t) \/ GBegin(t) \/ GSend(t) \/ GRecv(t) \/ GJudge(t)
           \/ TestRunning(t, "gamespy", "G_NONE")
  <2>1. AliveIsTracked'
    BY <1>4
    DEF GLoop, GBegin, GSend, GRecv, GJudge, TestRunning, serverVars, LoneInv, AliveIsTracked
  <2>2. \E from, to : /\ Goto(t, from, to)
                      /\ from \notin {"off", "settle"}
                      /\ to \notin {"create", "mourn"}
    BY <1>4 DEF GLoop, GBegin, GSend, GRecv, GJudge, TestRunning, AfterSleep
  <2> QED BY <1>0, <2>1, <2>2, BusyStep
<1> QED BY <1>0, <1>1, <1>2, <1>3, <1>4, LoneLaunch, LoneSettle DEF GStep

\* With one watchdog and nobody at the dialog, no server is ever started beside
\* one that lives, and none is lost from sight: what lives is what pi names.
THEOREM AliveTracked ==
    ASSUME LoneWatchdog
    PROVE  Spec => []AliveIsTracked
<1>1. Init => LoneInv
  <2> SUFFICES ASSUME Init PROVE LoneInv
    OBVIOUS
  <2>1. NoneAlive /\ AliveIsTracked
    BY DEF Init, ServerInit, NoneAlive, AliveIsTracked, Alive
  <2>2. PICK on \in Configs : \E first \in [Watchdog -> Workers] :
          /\ \A w \in Watchdog : first[w] \in ThreadsOf(w)
          /\ pc = [t \in Threads |->
                     IF t = Starter THEN "create"
                     ELSE IF \E w \in on : t = first[w] THEN "settle" ELSE "off"]
    BY DEF Init
  <2>3. PICK w \in Watchdog : on \subseteq {w}
    BY DEF LoneWatchdog
  <2>4. /\ \A t \in Workers : pc[t] \in {"off", "settle"}
        /\ \A t, u \in Workers : pc[t] # "off" /\ pc[u] # "off" => t = u
    BY <2>2, <2>3, WatchdogsAssumption DEF Threads
  <2> QED BY <2>1, <2>4 DEF LoneInv
<1>2. TypeOK /\ LoneInv /\ [Next]_vars => LoneInv'
  <2> SUFFICES ASSUME TypeOK, LoneInv, [Next]_vars PROVE LoneInv'
    OBVIOUS
  <2>1. LaunchWithin10s
    BY DEF LoneWatchdog
  <2>2. CASE StarterStep
    BY <2>2, LoneLaunch DEF StarterStep, Threads
  <2>3. CASE Edit
    <3>1. edits < 0
      BY <2>3 DEF Edit, ToggleWatchdog, ChangeInterval, ChangeRetries, LoneWatchdog
    <3>2. edits \in 0 .. 0
      BY DEF TypeOK, LoneWatchdog
    <3> QED BY <3>1, <3>2
  <2>4. CASE Handle \/ Answer \/ UNCHANGED vars
    BY <2>4
    DEF Handle, Answer, vars, threadVars, serverVars, LoneInv, NoneAlive, AliveIsTracked
  <2>5. CASE ServerLoads \/ ServerFails
    <3>1. UNCHANGED <<pc, pi>>
      BY <2>5 DEF ServerLoads, ServerFails, FinishLoading, Crash, Hang, threadVars
    <3>2. \A p \in Pid : procs'[p] \in Alive => procs[p] \in Alive
      BY <2>5
      DEF ServerLoads, ServerFails, FinishLoading, Crash, Hang, Alive, TypeOK, ServerTypeOK
    <3> QED BY <3>1, <3>2 DEF LoneInv, NoneAlive, AliveIsTracked
  <2> QED BY <2>1, <2>2, <2>3, <2>4, <2>5, LoneClose, LoneProcess, LoneGamespy DEF Next
<1>3. LoneInv => AliveIsTracked
  BY DEF LoneInv
<1> QED BY <1>1, <1>2, <1>3, TypeCorrect, PTL DEF Spec
=============================================================================
