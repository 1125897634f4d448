-------------------------------- MODULE Meter --------------------------------
(***************************************************************************)
(* What the profiler promises (Docs/NWNX_Profiler): "how often a script    *)
(* has been called, how much time it took to complete", nested calls       *)
(* included, and a star at every entry that was updated since the last     *)
(* statistics.  The promise ends when the profiler is lost: the maximum    *)
(* call depth was reached, or a search without a tag nested with a call.   *)
(***************************************************************************)
EXTENDS Naturals, Sequences

CONSTANTS
    Accounts,   \* what calls are charged to
    Wrap        \* elapsed time is counted modulo Wrap

VARIABLES
    open,       \* calls that have begun and not ended, outermost first
    calls,      \* calls that have ended, per account
    elapsed,    \* the time they took
    starred,    \* accounts updated since the last statistics
    now,
    void        \* the promise has ended

vars == <<open, calls, elapsed, starred, now, void>>

Init ==
    /\ open = <<>>
    /\ calls = [n \in Accounts |-> 0]
    /\ elapsed = [n \in Accounts |-> 0]
    /\ starred = {}
    /\ now = 0
    /\ void = FALSE

\* A call begins; some, of functions or for creatures without a name, are free.
Begin ==
    /\ \/ \E n \in Accounts : open' = Append(open, [charged |-> TRUE, name |-> n, start |-> now])
       \/ open' = Append(open, [charged |-> FALSE])
    /\ UNCHANGED <<calls, elapsed, starred, now, void>>

\* The innermost call ends.
Return ==
    /\ open # <<>>
    /\ open' = SubSeq(open, 1, Len(open) - 1)
    /\ UNCHANGED <<now, void>>

EndFree ==
    /\ Return
    /\ ~open[Len(open)].charged
    /\ UNCHANGED <<calls, elapsed, starred>>

\* Its own account gets its own time.
EndCharged ==
    LET call == open[Len(open)] IN
    /\ Return
    /\ call.charged
    /\ calls' = [calls EXCEPT ![call.name] = @ + 1]
    /\ elapsed' = [elapsed EXCEPT ![call.name] = (@ + now - call.start) % Wrap]
    /\ starred' \in {starred \cup {call.name}, {}}

Pass ==
    /\ now' = now + 1
    /\ UNCHANGED <<open, calls, elapsed, starred, void>>

Next == Begin \/ EndFree \/ EndCharged \/ Pass \/ void'

Spec == Init /\ [][Next]_vars
=============================================================================
