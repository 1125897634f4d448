--------------------------------- MODULE CDB ---------------------------------
(***************************************************************************)
(* What the three database classes of the ODBC2 plugin share: the session  *)
(* a CDB object keeps, and the database behind it, which is external and   *)
(* modelled as far as the plugin can tell it: what is committed, what the  *)
(* session sees, and whether a transaction is open.                        *)
(*                                                                         *)
(* A row, an item and a statement are what the properties tell apart; SQL  *)
(* text, columns and buffers are left out.                                 *)
(***************************************************************************)
EXTENDS Naturals, Sequences

CONSTANTS
    Rows,       \* what a row may be
    Results,    \* result sets that statements may have: sequences of rows
    Items,      \* what may be stored
    Backends    \* values of "source" in nwnx.ini; "none" for any other word

ASSUME CDBAssumption ==
    /\ Results \subseteq Seq(Rows)
    /\ Rows \cap {"none", "ok", "error", "end", "stored", "refused"} = {}
    /\ Backends \subseteq {"sqlite", "mysql", "odbc", "none"}

VARIABLES
    backend,     \* dbType
    set,         \* pStmt, result or the cursor of hstmt
    firstFetch,  \* CSQLite: the first row was stepped to and not fetched yet
    rc,          \* CODBC: whether the last query succeeded
    reply,       \* what the last call gave back
    work,        \* items that the session sees
    disk,        \* items that survive a crash
    inTx         \* a transaction is open

sessionVars == <<set, firstFetch, rc>>
dataVars == <<work, disk, inTx>>

\* rows: from the current row on, or those still to come.  on: Head(rows) is
\* the current row.
NoSet == [open |-> FALSE, rows |-> <<>>, on |-> FALSE]
Opened(rs) == [open |-> TRUE, rows |-> rs, on |-> FALSE]

Reply == Rows \cup {"none", "ok", "error", "end", "stored", "refused"}

CDBTypeOK ==
    /\ backend \in Backends
    /\ set \in [open : BOOLEAN, rows : Seq(Rows), on : BOOLEAN]
    /\ set.on => set.rows # <<>>
    /\ set.open \/ set = NoSet
    /\ firstFetch \in BOOLEAN
    /\ rc \in {"success", "failure"}
    /\ reply \in Reply
    /\ work \subseteq Items
    /\ disk \subseteq Items
    /\ inTx \in BOOLEAN

-----------------------------------------------------------------------------
\* Statements and the database.

Select(rs) == [kind |-> "select", rows |-> rs]
Insert(i) == [kind |-> "insert", item |-> i]
Other(k) == [kind |-> k]
Bad == Other("bad")    \* the database refuses it

\* Scripts handle transactions themselves only with the internal database.
Statements ==
    {Select(rs) : rs \in Results} \cup {Insert(i) : i \in Items} \cup {Bad}
      \cup IF backend = "sqlite" THEN {Other(k) : k \in {"begin", "commit", "rollback"}} ELSE {}

Fails(q) ==
    \/ q.kind = "bad"
    \/ q.kind = "begin" /\ inTx
    \/ q.kind \in {"commit", "rollback"} /\ ~inTx

\* Outside a transaction every statement commits itself.
Effect(q) ==
    \/ Fails(q) /\ UNCHANGED dataVars
    \/ /\ ~Fails(q)
       /\ inTx' = ((inTx \/ q.kind = "begin") /\ q.kind \notin {"commit", "rollback"})
       /\ work' = CASE q.kind = "insert" -> work \cup {q.item}
                    [] q.kind = "rollback" -> disk
                    [] OTHER -> work
       /\ disk' = IF inTx' THEN disk ELSE work'

\* A client-side cursor (MySQL, ODBC): the next row, as long as there is one.
TakeRow(s) ==
    /\ reply' = IF s.rows = <<>> THEN "end" ELSE Head(s.rows)
    /\ set' = IF s.rows = <<>> THEN s ELSE Opened(Tail(s.rows))
=============================================================================
