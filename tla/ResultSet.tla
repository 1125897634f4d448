------------------------------ MODULE ResultSet ------------------------------
(***************************************************************************)
(* What the database functions promise a script (Docs/ODBC2): a statement  *)
(* opens a result set, every fetch delivers the next of its rows, once and *)
(* in order, and then reports that there are no more.                      *)
(***************************************************************************)
EXTENDS Sequences

CONSTANTS
    Rows,     \* what a row may be
    Results   \* result sets a statement may have: sequences of rows

VARIABLES
    left,     \* rows of the current result set that were not delivered yet
    reply     \* what the last call gave back

vars == <<left, reply>>

Init == left = <<>> /\ reply = "none"

\* SQLExecDirect.
Open == \E rs \in Results \cup {<<>>} : left' = rs /\ reply' = "ok"

\* RetrieveCampaignObject: opens a result set and delivers its first row.
OpenAndFetch ==
    \E rs \in Results :
        \/ rs = <<>> /\ left' = <<>> /\ reply' = "end"
        \/ rs # <<>> /\ left' = Tail(rs) /\ reply' = Head(rs)

\* A statement that fails may or may not close the set that was open.
Fail == left' \in {left, <<>>} /\ reply' = "error"

\* SQLFetch; RetrieveCampaignObject with FETCHMODE.
Fetch ==
    \/ left = <<>> /\ left' = <<>> /\ reply' = "end"
    \/ left # <<>> /\ left' = Tail(left) /\ reply' = Head(left)

\* StoreCampaignObject; it may close the set as well.
Store == left' \in {left, <<>>} /\ reply' \in {"stored", "refused"}

\* The server stops or starts.
Reset == left' = <<>> /\ reply' = "none"

Next == Open \/ OpenAndFetch \/ Fail \/ Fetch \/ Store \/ Reset

Spec == Init /\ [][Next]_vars
=============================================================================
