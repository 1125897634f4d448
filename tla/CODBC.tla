-------------------------------- MODULE CODBC --------------------------------
(***************************************************************************)
(* Any other database, through ODBC and one statement handle, hstmt.       *)
(***************************************************************************)
EXTENDS CDB

Code(q) == IF Fails(q) THEN "failure" ELSE "success"

OdbcExecute(q) ==
    /\ Effect(q)
    /\ set' = IF ~Fails(q) /\ q.kind = "select" THEN Opened(q.rows) ELSE NoSet
    /\ rc' = Code(q)
    /\ reply' = IF Fails(q) THEN "error" ELSE "ok"
    /\ UNCHANGED firstFetch

\* SQLFetch without a cursor fails like one past the last row.
OdbcFetch == TakeRow(set) /\ UNCHANGED <<firstFetch, rc, dataVars>>

OdbcRead(q) ==
    /\ \/ Fails(q) /\ reply' = "error" /\ set' = NoSet
       \/ ~Fails(q) /\ TakeRow(Opened(q.rows))
    /\ rc' = Code(q)
    /\ UNCHANGED <<firstFetch, dataVars>>

OdbcReadNext == OdbcFetch

\* WriteScorcoData asks rc, the outcome of an earlier query, whether SQLPrepare
\* succeeded, and reports success whatever SQLExecute says.
OdbcWrite(q) ==
    /\ set' = NoSet
    /\ \/ rc = "success" /\ Effect(q) /\ reply' = "stored"
       \/ rc = "failure" /\ UNCHANGED dataVars /\ reply' = "refused"
    /\ UNCHANGED <<firstFetch, rc>>
=============================================================================
