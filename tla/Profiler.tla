------------------------------ MODULE Profiler ------------------------------
(***************************************************************************)
(* The profiler plugin (HookRunScript.cpp).  Its hooks wrap three functions*)
(* of the server that may call each other: a script or a part of one, and  *)
(* two searches for a path.  A hook starts a timer, calls the original and *)
(* stops the timer; iCallDepth, scriptName and liLast are its own picture  *)
(* of the server's call stack.                                             *)
(*                                                                         *)
(* A name stands for its first 16 characters, prefix included.  The log    *)
(* file, its size limit and the sums of the statistics are left out.       *)
(***************************************************************************)
EXTENDS Integers, Sequences, FiniteSets

CONSTANTS
    Accounts,      \* scripts, parts of scripts (with '>'), creatures ('@')
                   \* and areas ('$') that searches are made for
    MaxCallDepth,  \* MAX_CALLDEPTH
    FlushAfter,    \* the 10 seconds between statistics
    Wrap,          \* 2^32, for dwElapsedTime
    MaxNest,       \* bound: calls on the server's stack
    MaxCalls,      \* bound: calls that were timed
    MaxTime        \* bound: the clock

ASSUME ProfilerAssumption ==
    /\ MaxCallDepth \in Nat \ {0}
    /\ FlushAfter \in Nat
    /\ Wrap \in Nat \ {0}
    /\ MaxNest \in Nat
    /\ MaxCalls \in Nat
    /\ MaxTime \in Nat

VARIABLES
    stack,        \* the server's stack of hooked calls, outermost first
    now,          \* QueryPerformanceCounter
    depth,        \* iCallDepth
    names,        \* scriptName
    last,         \* liLast
    emptyScript,
    counter,      \* iScriptCounter
    calls,        \* ulCalls of every entry of scriptHash, 0 without one
    elapsed,      \* dwElapsedTime of the same
    updated,      \* entries with their flag "updated"
    lastStatistic,
    lost          \* "Maximum call depth reached!" is in the log, or a search
                  \* without a tag and a timed call were inside of each other

pictureVars == <<depth, names, last, emptyScript>>
hashVars == <<calls, elapsed, updated, lastStatistic>>
vars == <<stack, now, pictureVars, counter, hashVars, lost>>

Index == 0 .. MaxCallDepth - 1

\* "timed" calls start and stop the timer, "tagless" ones stop it only, and
\* "skipped" ones do neither.
Call == [kind : {"timed"}, name : Accounts, start : 0 .. MaxTime]
          \cup [kind : {"tagless", "skipped"}]
OnStack(k) == {i \in 1 .. Len(stack) : stack[i].kind = k}

TypeOK ==
    /\ stack \in Seq(Call)
    /\ now \in 0 .. MaxTime
    /\ depth \in {-1} \cup Index
    /\ DOMAIN names = Index /\ DOMAIN last = Index
    /\ \A i \in 0 .. depth : names[i] \in Accounts /\ last[i] \in 0 .. now
    /\ emptyScript \in BOOLEAN
    /\ counter \in 0 .. MaxCalls
    /\ calls \in [Accounts -> Nat]
    /\ elapsed \in [Accounts -> 0 .. Wrap - 1]
    /\ updated \subseteq Accounts
    /\ lastStatistic \in 0 .. now
    /\ lost \in BOOLEAN

Init ==
    /\ stack = <<>>
    /\ now = 0
    /\ depth = -1
    /\ names = [i \in Index |-> ""]
    /\ last = [i \in Index |-> 0]
    /\ emptyScript = FALSE
    /\ counter = 0
    /\ calls = [n \in Accounts |-> 0]
    /\ elapsed = [n \in Accounts |-> 0]
    /\ updated = {}
    /\ lastStatistic = 0
    /\ lost = FALSE

-----------------------------------------------------------------------------
\* Entering a hooked function.

CanCall == Len(stack) < MaxNest

\* Mutant: the deepest place is not given away.
StartTimerShort(n) ==
    /\ depth' = IF depth < MaxCallDepth - 1 THEN depth + 1 ELSE depth
    /\ lost' = (lost \/ depth >= MaxCallDepth \/ OnStack("tagless") # {})
    /\ emptyScript' = FALSE
    /\ names' = [names EXCEPT ![depth'] = n]
    /\ last' = [last EXCEPT ![depth'] = now]

\* myRunScript, myRunScriptPart, MyCrossArea and MyPathfind, with a name.  At
\* the maximum depth they take the place of the call above.
StartTimer(n) ==
    /\ depth' = IF depth < MaxCallDepth - 1 THEN depth + 1 ELSE depth
    /\ lost' = (lost \/ depth >= MaxCallDepth - 1 \/ OnStack("tagless") # {})
    /\ emptyScript' = FALSE
    /\ names' = [names EXCEPT ![depth'] = n]
    /\ last' = [last EXCEPT ![depth'] = now]

Enter(n) ==
    /\ CanCall
    /\ counter < MaxCalls
    /\ StartTimer(n)
    /\ counter' = counter + 1
    /\ stack' = Append(stack, [kind |-> "timed", name |-> n, start |-> now])
    /\ UNCHANGED <<now, hashVars>>

\* MyCrossArea for a creature without a tag.
EnterTagless ==
    /\ CanCall
    /\ emptyScript' = TRUE
    /\ stack' = Append(stack, [kind |-> "tagless"])
    /\ lost' = (lost \/ OnStack("timed") # {})
    /\ UNCHANGED <<now, depth, names, last, counter, hashVars>>

\* A script without a name, or a search that is a recursion of itself.
EnterSkipped ==
    /\ CanCall
    /\ stack' = Append(stack, [kind |-> "skipped"])
    /\ UNCHANGED <<now, pictureVars, counter, hashVars, lost>>

-----------------------------------------------------------------------------
\* Leaving it.

\* FlushStatistics, when it is time, takes the stars of all entries.
FlushWhenDue(starred) ==
    LET due == now - lastStatistic > FlushAfter IN
    /\ updated' = IF due THEN {} ELSE starred
    /\ lastStatistic' = IF due THEN now ELSE lastStatistic

\* The entry in scriptHash.
Charge(n, d) ==
    /\ calls' = [calls EXCEPT ![n] = @ + 1]
    /\ elapsed' = [elapsed EXCEPT ![n] = (@ + d) % Wrap]
    /\ FlushWhenDue(updated \cup {n})

\* Mutants: the innermost call is charged with the time of the outermost; no
\* check keeps iCallDepth from falling.
StopTimerOutermost ==
    \/ depth > -1 /\ depth' = depth - 1 /\ Charge(names[depth], now - last[0])
    \/ depth = -1 /\ UNCHANGED <<depth, hashVars>>

StopTimerUnchecked ==
    \/ depth > -1 /\ depth' = depth - 1 /\ Charge(names[depth], now - last[depth])
    \/ depth <= -1 /\ depth' = depth - 1 /\ UNCHANGED hashVars

\* After more calls were stopped than started, iCallDepth is -1 and StopTimer
\* reads what lies before the arrays, a name of the server or any other.
StopTimer ==
    \/ depth > -1 /\ depth' = depth - 1 /\ Charge(names[depth], now - last[depth])
    \/ /\ depth = -1
       /\ UNCHANGED depth
       /\ \/ \E n \in Accounts, d \in 0 .. Wrap - 1 : Charge(n, d)
          \/ FlushWhenDue(updated) /\ UNCHANGED <<calls, elapsed>>

\* The original function returns.
Leave ==
    /\ stack # <<>>
    /\ stack' = SubSeq(stack, 1, Len(stack) - 1)
    /\ IF stack[Len(stack)].kind # "skipped" /\ ~emptyScript
       THEN StopTimer
       ELSE UNCHANGED <<depth, hashVars>>
    /\ UNCHANGED <<now, names, last, emptyScript, counter, lost>>

Tick ==
    /\ now < MaxTime
    /\ now' = now + 1
    /\ UNCHANGED <<stack, pictureVars, counter, hashVars, lost>>

Next ==
    \/ \E n \in Accounts : Enter(n)
    \/ EnterTagless
    \/ EnterSkipped
    \/ Leave
    \/ Tick

Spec == Init /\ [][Next]_vars

-----------------------------------------------------------------------------
(* Properties.                                                             *)

\* Until the profiler is lost its depth is that of the server: no nesting, no
\* skipped call and no search without a tag between scripts makes it drift
\* (myRunScript, MyCrossArea, StopTimer).
DepthIsNesting == ~lost => depth = Cardinality(OnStack("timed")) - 1

\* Until then, every timed call that ends is charged once, to its own name and
\* with its own time, whatever ran inside of it, no other is, and the stars mark exactly the
\* entries that changed since the last statistics (StopTimer, FlushStatistics).
Charged(c) == IF c.kind = "timed" THEN [charged |-> TRUE, name |-> c.name, start |-> c.start]
                                  ELSE [charged |-> FALSE]
Open == [i \in 1 .. Len(stack) |-> Charged(stack[i])]
Statistics == INSTANCE Meter
                WITH open <- Open, starred <- updated, void <- lost
ChargesRight == Statistics!Spec
=============================================================================
