-------------------------------- MODULE Odbc2 --------------------------------
(***************************************************************************)
(* The ODBC2 plugin (NWNXOdbc.cpp, scorcohook.cpp): one connection for all *)
(* scripts of the server, from OnCreate to OnRelease or to the end of the  *)
(* process, and what scripts do with it: statements and fetches through    *)
(* NWNX!ODBC!EXEC and FETCH, objects through the hooked SCO and RCO.       *)
(***************************************************************************)
EXTENDS CSQLite, CMySQL, CODBC

VARIABLES
    phase,    \* life of the plugin in the server process
    hooked,   \* hookScorco: SCO and RCO are intercepted, scorcoSQL is allocated
    scorco,   \* scorcoSQL: a SELECT, or an INSERT with a place for the object
    opener    \* scripts: who opened the result set they read, "exec" or "rco"

\* What the configuration file says stays as it is.
configVars == <<backend, hooked>>
vars == <<configVars, sessionVars, reply, dataVars, phase, scorco, opener>>

\* What malloc(MAXSQL) gave, or no memory at all, before SETSCORCOSQL.
Unset == Other("unset")
Template == Other("insert")
Scorco == {Select(rs) : rs \in Results} \cup {Template, Bad}

TypeOK ==
    /\ CDBTypeOK
    /\ phase \in {"off", "up", "failed", "stopped", "killed", "crashed"}
    /\ hooked \in BOOLEAN
    /\ scorco \in Scorco \cup {Unset}
    /\ opener \in {"exec", "rco", "nobody"}

Fresh ==
    /\ set' = NoSet
    /\ firstFetch' = FALSE
    /\ rc' = "success"
    /\ reply' = "none"
    /\ scorco' = Unset
    /\ opener' = "nobody"

Init ==
    /\ backend \in Backends
    /\ hooked \in BOOLEAN
    /\ set = NoSet
    /\ firstFetch = FALSE
    /\ rc = "success"
    /\ reply = "none"
    /\ work = {}
    /\ disk = {}
    /\ inTx = FALSE
    /\ phase = "off"
    /\ scorco = Unset
    /\ opener = "nobody"

-----------------------------------------------------------------------------
\* OnCreate: LoadConfiguration and Connect.  When it fails the plugin stays in
\* the table of plugins and gets requests all the same.
OnCreate ==
    /\ phase = "off"
    /\ \/ /\ backend # "none"
          /\ phase' = "up"
          /\ IF backend = "sqlite" THEN SqliteConnect ELSE UNCHANGED dataVars
       \/ /\ phase' = "failed"
          /\ UNCHANGED dataVars
    /\ UNCHANGED <<configVars, sessionVars, reply, scorco, opener>>

\* OnRelease: Disconnect.  MySQL and ODBC have no transaction of their own, and
\* take it without a connection as well.
OnRelease ==
    /\ phase = "up" \/ (phase = "failed" /\ backend \in {"mysql", "odbc"})
    /\ phase' = "stopped"
    /\ IF backend = "sqlite" THEN SqliteDisconnect ELSE UNCHANGED dataVars
    /\ Fresh
    /\ UNCHANGED configVars

\* The server crashes or the launcher terminates it: OnRelease does not run.
Kill ==
    /\ phase \in {"up", "failed"}
    /\ phase' = "killed"
    /\ work' = disk
    /\ inTx' = FALSE
    /\ Fresh
    /\ UNCHANGED <<configVars, disk>>

Restart ==
    /\ phase \in {"stopped", "killed", "crashed"}
    /\ phase' = "off"
    /\ UNCHANGED <<configVars, sessionVars, reply, dataVars, scorco, opener>>

\* The plugin dereferences what is not there.
Crash ==
    /\ phase' = "crashed"
    /\ work' = disk
    /\ inTx' = FALSE
    /\ Fresh
    /\ UNCHANGED <<configVars, disk>>

-----------------------------------------------------------------------------
\* Requests of scripts.

Serving == phase = "up" /\ UNCHANGED <<configVars, phase>>

\* NWNX!ODBC!EXEC
Execute(q) ==
    /\ Serving
    /\ \/ backend = "sqlite" /\ SqliteExecute(q)
       \/ backend = "mysql" /\ MysqlExecute(q)
       \/ backend = "odbc" /\ OdbcExecute(q)
    /\ opener' = "exec"
    /\ UNCHANGED scorco

\* NWNX!ODBC!FETCH
Fetch ==
    /\ Serving
    /\ \/ backend = "sqlite" /\ SqliteFetch
       \/ backend = "mysql" /\ MysqlFetch
       \/ backend = "odbc" /\ OdbcFetch
    /\ UNCHANGED <<scorco, opener>>

\* NWNX!ODBC!SETSCORCOSQL copies the statement into scorcoSQL, which is NULL
\* with hookscorco = false.
SetScorcoSQL(s) ==
    \/ /\ Serving
       /\ hooked
       /\ scorco' = s
       /\ UNCHANGED <<sessionVars, reply, dataVars, opener>>
    \/ phase = "up" /\ ~hooked /\ Crash

\* The bytes of memory that nobody wrote are used as a statement, and for a
\* store as the format of sprintf: the database refuses it or the server dies.
UseUnset == phase = "up" /\ hooked /\ scorco = Unset /\ Crash

\* SQLRCO, for a SELECT: runs it and returns the first row's object.
Read ==
    \/ /\ Serving
       /\ hooked
       /\ scorco # Template
       /\ LET q == IF scorco = Unset THEN Bad ELSE scorco IN
          \/ backend = "sqlite" /\ SqliteRead(q)
          \/ backend = "mysql" /\ MysqlRead(q)
          \/ backend = "odbc" /\ OdbcRead(q)
       /\ opener' = IF reply' \in Rows THEN "rco" ELSE "nobody"
       /\ UNCHANGED scorco
    \/ UseUnset

\* SQLRCO with FETCHMODE.
ReadNext ==
    /\ hooked
    /\ \/ /\ Serving
          /\ \/ backend = "sqlite" /\ SqliteReadNext
             \/ backend = "mysql" /\ MysqlReadNext
             \/ backend = "odbc" /\ OdbcReadNext
          /\ opener' = IF reply' \in Rows THEN opener ELSE "nobody"
          /\ UNCHANGED scorco
       \/ phase = "up" /\ backend = "mysql" /\ ~set.open /\ Crash

\* SQLSCO: stores item i with the statement that SETSCORCOSQL left.
Store(i) ==
    \/ /\ Serving
       /\ hooked
       /\ scorco \in {Template, Bad, Unset}
       /\ LET q == IF scorco = Template THEN Insert(i) ELSE Bad IN
          \/ backend = "sqlite" /\ SqliteWrite(q)
          \/ backend = "mysql" /\ MysqlWrite(q)
          \/ backend = "odbc" /\ OdbcWrite(q)
       /\ UNCHANGED <<scorco, opener>>
    \/ UseUnset

\* EXEC, FETCH or OnRelease after OnCreate failed: without a configuration db is NULL, the
\* internal database is closed, the others refuse.
RequestUnconnected ==
    /\ phase = "failed"
    /\ \/ backend \in {"none", "sqlite"} /\ Crash
       \/ /\ backend # "none"
          /\ reply' = "error"
          /\ UNCHANGED <<configVars, sessionVars, dataVars, phase, scorco, opener>>

Next ==
    \/ OnCreate \/ OnRelease \/ Kill \/ Restart
    \/ \E q \in Statements : Execute(q)
    \/ Fetch
    \/ \E s \in Scorco : SetScorcoSQL(s)
    \/ Read
    \/ ReadNext
    \/ \E i \in Items : Store(i)
    \/ RequestUnconnected

Spec == Init /\ [][Next]_vars

-----------------------------------------------------------------------------
(* Properties.                                                             *)

\* A result set is read with the call that did not open it, or in FETCHMODE
\* although the last read gave no object.
MixedRead == (Fetch /\ opener # "exec") \/ (ReadNext /\ opener # "rco")

\* Scripts that read a result set with the call that opened it get its rows in
\* order, each once, then the end, whatever other statements, stores and
\* failures came before (Fetch, ReadScorcoData and the firstFetch flag).  What a
\* mixed read delivers is left open; the others go on behind it.
Cursor == INSTANCE ResultSet
            WITH left <- IF set.on /\ ~(opener = "exec" /\ firstFetch)
                         THEN Tail(set.rows) ELSE set.rows
RowsInOrder == Cursor!Init /\ [][MixedRead \/ Cursor!Next]_(Cursor!vars)

\* OnRelease leaves in the database all that the session has seen stored, also
\* when scripts have ended or begun transactions and left result sets half read
\* (CSQLite::Disconnect).
StopKeepsAll == [][phase = "up" /\ phase' = "stopped" => disk' = work]_vars

\* However scripts mix EXEC, FETCH, stores and object reads, a connected plugin
\* brings the server down only in two ways: a script stores or reads an object
\* before any has set a statement, or sets one with hookscorco = false
\* (SetScorcoSQL, WriteScorcoData); or it reads on in FETCHMODE although the last
\* read in this way did not give it an object, or after somebody's EXEC
\* (CMySQL::ReadScorcoData, CMySQL::Execute).  Who sets his statement and goes on
\* reading only after an object is safe from everything that others do between,
\* stores and refused statements among it.
SafeWhenConnected ==
    [][phase = "up" /\ phase' = "crashed" => scorco = Unset \/ opener # "rco"]_vars

\* Docs/ODBC2: APS and NWNX2 "produce reliable persistence in a module".  An
\* object that is stored with a good statement is in the database, whichever
\* database that is and whatever failed before.
StoresReliable ==
    [][\A i \in Items : Store(i) /\ scorco = Template => i \in work']_vars
=============================================================================
