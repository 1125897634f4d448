------------------------------- MODULE CSQLite -------------------------------
(***************************************************************************)
(* The internal database.  One prepared statement, pStmt, serves queries,  *)
(* fetches and objects alike; sqlite3_step is at a row or past the last.   *)
(***************************************************************************)
EXTENDS CDB

\* Mutant: past the last row the statement is not finalized.
SteppedPast(s) ==
    [open |-> TRUE, rows |-> IF s.on THEN Tail(s.rows) ELSE s.rows, on |-> TRUE]

\* sqlite3_step: on to the next row; past the last one the caller finalizes.
\* Without a statement it says SQLITE_MISUSE, which no caller tells from done.
Stepped(s) ==
    LET ahead == IF s.on THEN Tail(s.rows) ELSE s.rows IN
    IF ahead = <<>> THEN NoSet ELSE [open |-> TRUE, rows |-> ahead, on |-> TRUE]

Current(s) == IF s.on THEN Head(s.rows) ELSE "end"

\* Mutant: the statement of an earlier call is left as it is.
FinalizedNot(s) == s

\* finalizeStatement, before anything else is prepared.
Finalized(s) == NoSet

\* The engine refuses to end a transaction while statement s is at a row
\* (OP_AutoCommit: "SQL statements in progress").
SqliteFails(q, s) == Fails(q) \/ (s.on /\ q.kind \in {"commit", "rollback"})
SqliteEffect(q, s) == IF SqliteFails(q, s) THEN UNCHANGED dataVars ELSE Effect(q)

\* Connect begins an implicit transaction.
SqliteConnect == inTx' = TRUE /\ UNCHANGED <<work, disk>>

\* Disconnect finalizes the statement and commits what is uncommitted.
SqliteDisconnect == SqliteEffect(Other("commit"), Finalized(set))

\* Mutant: Execute does not tell Fetch that it has stepped to the first row.
SqliteExecuteNoFirst(q) ==
    LET failed == SqliteFails(q, Finalized(set)) IN
    /\ SqliteEffect(q, Finalized(set))
    /\ set' = IF ~failed /\ q.kind = "select" THEN Stepped(Opened(q.rows)) ELSE NoSet
    /\ reply' = IF failed THEN "error" ELSE "ok"
    /\ UNCHANGED <<firstFetch, rc>>

\* Execute steps to the first row at once and leaves firstFetch for Fetch to
\* find; it is never cleared here.
SqliteExecute(q) ==
    LET failed == SqliteFails(q, Finalized(set)) IN
    /\ SqliteEffect(q, Finalized(set))
    /\ set' = IF ~failed /\ q.kind = "select" THEN Stepped(Opened(q.rows)) ELSE NoSet
    /\ firstFetch' = (firstFetch \/ set'.on)
    /\ reply' = IF failed THEN "error" ELSE "ok"
    /\ UNCHANGED rc

SqliteFetch ==
    /\ set' = IF firstFetch THEN set ELSE Stepped(set)
    /\ firstFetch' = FALSE
    /\ reply' = Current(set')
    /\ UNCHANGED <<rc, dataVars>>

\* ReadScorcoData with the statement that SETSCORCOSQL left.
SqliteRead(q) ==
    /\ set' = IF Fails(q) THEN NoSet ELSE Stepped(Opened(q.rows))
    /\ reply' = IF Fails(q) THEN "error" ELSE Current(set')
    /\ UNCHANGED <<firstFetch, rc, dataVars>>

\* ReadScorcoData in FETCHMODE.
SqliteReadNext ==
    /\ set' = Stepped(set)
    /\ reply' = Current(set')
    /\ UNCHANGED <<firstFetch, rc, dataVars>>

\* WriteScorcoData prepares, binds, steps and finalizes, all in one call.
SqliteWrite(q) ==
    /\ SqliteEffect(q, Finalized(set))
    /\ set' = NoSet
    /\ reply' = IF Fails(q) THEN "refused" ELSE "stored"
    /\ UNCHANGED <<firstFetch, rc>>
=============================================================================
