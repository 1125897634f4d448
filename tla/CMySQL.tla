-------------------------------- MODULE CMySQL --------------------------------
(***************************************************************************)
(* MySQL: the result of a query is stored in the client, in "result".      *)
(***************************************************************************)
EXTENDS CDB

MysqlExecute(q) ==
    /\ Effect(q)
    /\ set' = IF ~Fails(q) /\ q.kind = "select" THEN Opened(q.rows) ELSE NoSet
    /\ reply' = IF Fails(q) THEN "error" ELSE "ok"
    /\ UNCHANGED <<firstFetch, rc>>

MysqlFetch ==
    /\ \/ set.open /\ TakeRow(set)
       \/ ~set.open /\ reply' = "end" /\ UNCHANGED set
    /\ UNCHANGED <<firstFetch, rc, dataVars>>

\* A query that fails leaves the previous result where it was.
MysqlRead(q) ==
    /\ \/ Fails(q) /\ reply' = "error" /\ UNCHANGED set
       \/ ~Fails(q) /\ TakeRow(Opened(q.rows))
    /\ UNCHANGED <<firstFetch, rc, dataVars>>

\* mysql_fetch_row needs a result: MysqlReadNext is defined when set.open.
MysqlReadNext ==
    /\ set.open
    /\ TakeRow(set)
    /\ UNCHANGED <<firstFetch, rc, dataVars>>

\* Mutant: WriteScorcoData frees the result that ReadScorcoData left.
MysqlWriteFrees(q) ==
    /\ Effect(q)
    /\ set' = NoSet
    /\ reply' = IF Fails(q) THEN "refused" ELSE "stored"
    /\ UNCHANGED <<firstFetch, rc>>

\* WriteScorcoData has a result variable of its own: the previous result stays.
MysqlWrite(q) ==
    /\ Effect(q)
    /\ reply' = IF Fails(q) THEN "refused" ELSE "stored"
    /\ UNCHANGED sessionVars
=============================================================================
