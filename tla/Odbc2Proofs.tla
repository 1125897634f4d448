----------------------------- MODULE Odbc2Proofs -----------------------------
(***************************************************************************)
(* Theorems about Odbc2, for all rows, result sets, items and databases.   *)
(***************************************************************************)
EXTENDS Odbc2, SequenceTheorems, TLAPS

\* What a cursor may look like: it is at a row only if there is one, and it has
\* rows only if it is open.
GoodSet(s) ==
    /\ s \in [open : BOOLEAN, rows : Seq(Rows), on : BOOLEAN]
    /\ s.on => s.rows # <<>>
    /\ s.open \/ s = NoSet

\* What the database classes rely on when they get a statement.
Statement(q) ==
    /\ q.kind = "insert" => q.item \in Items
    /\ q.kind = "select" => q.rows \in Results
    /\ backend # "sqlite" => q.kind # "begin"

\* The cursor of the internal database is at a row as long as it is open, those
\* of the others are never.
SessionOK ==
    /\ GoodSet(set)
    /\ backend = "sqlite" /\ set.open => set.on
    /\ backend # "sqlite" => ~set.on
    /\ firstFetch \in BOOLEAN
    /\ rc \in {"success", "failure"}
    /\ reply \in Reply

\* What scripts see is on disk unless a transaction is open, and only the
\* internal database opens one.
DatabaseOK ==
    /\ work \subseteq Items
    /\ disk \subseteq Items
    /\ inTx \in BOOLEAN
    /\ ~inTx => work = disk
    /\ inTx => backend = "sqlite"

\* Nothing is open unless the plugin is up, and who reads a result set with
\* SQLRCO on MySQL has one.
LifeOK ==
    /\ backend \in Backends
    /\ phase \in {"off", "up", "failed", "stopped", "killed", "crashed"}
    /\ hooked \in BOOLEAN
    /\ scorco \in Scorco \cup {Unset}
    /\ opener \in {"exec", "rco", "nobody"}
    /\ phase # "up" => set = NoSet /\ opener = "nobody" /\ ~inTx
    /\ opener = "rco" /\ backend = "mysql" => set.open
    /\ ~hooked => scorco = Unset

IInv == SessionOK /\ DatabaseOK /\ LifeOK

-----------------------------------------------------------------------------
(* Statements, cursors and the database.                                   *)

LEMMA NoSetGood == GoodSet(NoSet) /\ NoSet.rows = <<>> /\ ~NoSet.on /\ ~NoSet.open
  BY EmptySeq DEF GoodSet, NoSet

LEMMA OpenedGood ==
    ASSUME NEW rs \in Seq(Rows)
    PROVE  GoodSet(Opened(rs)) /\ Opened(rs).open /\ ~Opened(rs).on /\ Opened(rs).rows = rs
  BY DEF GoodSet, Opened

\* Statements that scripts send, and those that SETSCORCOSQL leaves.
LEMMA StatementKinds ==
    /\ \A q \in Statements : Statement(q)
    /\ \A s \in Scorco : s # Template => Statement(s) /\ s.kind \in {"select", "bad"}
    /\ \A i \in Items : Statement(Insert(i)) /\ Insert(i).kind = "insert" /\ Insert(i).item = i
    /\ Statement(Bad) /\ Bad.kind = "bad"
  BY DEF Statements, Scorco, Statement, Select, Insert, Other, Bad, Template

\* A step of the internal database's cursor goes to the next row or closes it.
LEMMA SteppedGood ==
    ASSUME NEW s, GoodSet(s)
    PROVE  /\ GoodSet(Stepped(s))
           /\ Stepped(s).open => Stepped(s).on
           /\ Stepped(s).on => Stepped(s).rows = IF s.on THEN Tail(s.rows) ELSE s.rows
           /\ ~Stepped(s).on => /\ Stepped(s) = NoSet
                                /\ (IF s.on THEN Tail(s.rows) ELSE s.rows) = <<>>
<1> DEFINE ahead == IF s.on THEN Tail(s.rows) ELSE s.rows
<1>1. ahead \in Seq(Rows)
  <2>1. CASE s.on
    BY <2>1, HeadTailProperties DEF GoodSet
  <2>2. CASE ~s.on
    BY <2>2 DEF GoodSet
  <2> QED BY <2>1, <2>2
<1>2. Stepped(s) = IF ahead = <<>> THEN NoSet ELSE [open |-> TRUE, rows |-> ahead, on |-> TRUE]
  BY DEF Stepped
<1> HIDE DEF ahead
<1>3. CASE ahead = <<>>
  BY <1>2, <1>3, NoSetGood DEF ahead
<1>4. CASE ahead # <<>>
  <2>1. Stepped(s).open /\ Stepped(s).on /\ Stepped(s).rows = ahead
    BY <1>2, <1>4
  <2>2. GoodSet(Stepped(s))
    BY <1>1, <1>2, <1>4 DEF GoodSet
  <2> QED BY <2>1, <2>2 DEF ahead
<1> QED BY <1>3, <1>4

LEMMA CurrentGood ==
    ASSUME NEW s, GoodSet(s)
    PROVE  Current(s) = (IF s.on THEN Head(s.rows) ELSE "end") /\ Current(s) \in Rows \cup {"end"}
<1>1. CASE s.on
  BY <1>1, HeadTailProperties DEF GoodSet, Current
<1>2. CASE ~s.on
  BY <1>2 DEF Current
<1> QED BY <1>1, <1>2

\* A client's cursor goes on, too, and never is at a row.
LEMMA TakeRowGood ==
    ASSUME NEW s, GoodSet(s), ~s.on, TakeRow(s)
    PROVE  /\ GoodSet(set') /\ ~set'.on /\ set'.open = s.open
           /\ s.rows = <<>> => reply' = "end" /\ set' = s
           /\ s.rows # <<>> => reply' = Head(s.rows) /\ reply' \in Rows /\ set'.rows = Tail(s.rows)
<1>1. CASE s.rows = <<>>
  BY <1>1 DEF TakeRow
<1>2. CASE s.rows # <<>>
  <2>1. Head(s.rows) \in Rows /\ Tail(s.rows) \in Seq(Rows)
    BY <1>2, HeadTailProperties DEF GoodSet
  <2>2. s.open
    BY <1>2, NoSetGood DEF GoodSet
  <2>3. set' = Opened(Tail(s.rows)) /\ reply' = Head(s.rows)
    BY <1>2 DEF TakeRow
  <2> QED BY <1>2, <2>1, <2>2, <2>3, OpenedGood DEF GoodSet
<1> QED BY <1>1, <1>2

\* The internal database gets a statement when the last one is finalized, so
\* that no result set that is half read keeps it from ending a transaction.
LEMMA FinalizedFirst ==
    /\ \A q : SqliteFails(q, Finalized(set)) <=> Fails(q)
    /\ \A q : SqliteEffect(q, Finalized(set)) => Effect(q)
<1>1. ~Finalized(set).on
  BY NoSetGood DEF Finalized
<1>2. \A q : SqliteFails(q, Finalized(set)) <=> Fails(q)
  BY <1>1 DEF SqliteFails
<1>3. \A q : SqliteEffect(q, Finalized(set)) => Effect(q)
  BY <1>2 DEF SqliteEffect, Effect
<1> QED BY <1>2, <1>3

\* Whatever a statement does to the database.
LEMMA EffectGood ==
    ASSUME DatabaseOK, UNCHANGED backend, NEW q, Statement(q), Effect(q)
    PROVE  DatabaseOK'
<1>1. CASE Fails(q)
  BY <1>1 DEF Effect, dataVars, DatabaseOK
<1>2. CASE ~Fails(q)
  <2>1. inTx' = ((inTx \/ q.kind = "begin") /\ q.kind \notin {"commit", "rollback"})
    BY <1>2 DEF Effect
  <2>2. work' = work \/ work' = disk \/ (q.kind = "insert" /\ work' = work \cup {q.item})
    BY <1>2 DEF Effect
  <2>3. disk' = IF inTx' THEN disk ELSE work'
    BY <1>2 DEF Effect
  <2>4. work' \subseteq Items
    BY <2>2 DEF Statement, DatabaseOK
  <2>5. inTx' \in BOOLEAN
    BY <2>1
  <2>6. inTx' => backend = "sqlite"
    BY <2>1 DEF Statement, DatabaseOK
  <2> QED BY <2>3, <2>4, <2>5, <2>6 DEF DatabaseOK
<1> QED BY <1>1, <1>2

-----------------------------------------------------------------------------
(* Calls of the database classes keep SessionOK and DatabaseOK.            *)

Calling == SessionOK /\ DatabaseOK /\ UNCHANGED backend

LEMMA ResultRows == \A rs \in Results : rs \in Seq(Rows)
  BY CDBAssumption

LEMMA SqliteExecuteGood ==
    ASSUME Calling, backend = "sqlite", NEW q, Statement(q), SqliteExecute(q)
    PROVE  SessionOK' /\ DatabaseOK'
<1>1. GoodSet(set') /\ (set'.open => set'.on)
  <2>1. CASE ~Fails(q) /\ q.kind = "select"
    <3>1. q.rows \in Seq(Rows)
      BY <2>1, ResultRows DEF Statement
    <3> QED BY <2>1, <3>1, FinalizedFirst, OpenedGood, SteppedGood DEF SqliteExecute
  <2>2. CASE ~(~Fails(q) /\ q.kind = "select")
    BY <2>2, FinalizedFirst, NoSetGood DEF SqliteExecute
  <2> QED BY <2>1, <2>2
<1>2. firstFetch' \in BOOLEAN /\ UNCHANGED rc /\ reply' \in {"ok", "error"}
  BY DEF SqliteExecute
<1>3. DatabaseOK'
  BY EffectGood, FinalizedFirst DEF SqliteExecute, Calling
<1>4. SessionOK'
  BY <1>1, <1>2 DEF Calling, SessionOK, Reply, GoodSet
<1> QED BY <1>3, <1>4

LEMMA SqliteFetchGood ==
    ASSUME Calling, backend = "sqlite", SqliteFetch \/ SqliteReadNext
    PROVE  SessionOK' /\ DatabaseOK'
<1>1. GoodSet(set') /\ (set'.open => set'.on)
  BY SteppedGood DEF SqliteFetch, SqliteReadNext, Calling, SessionOK
<1>2. reply' \in Rows \cup {"end"}
  BY <1>1, CurrentGood DEF SqliteFetch, SqliteReadNext
<1>3. firstFetch' \in BOOLEAN /\ UNCHANGED <<rc, dataVars>>
  BY DEF SqliteFetch, SqliteReadNext, Calling, SessionOK
<1>4. SessionOK'
  BY <1>1, <1>2, <1>3 DEF Calling, SessionOK, Reply, GoodSet
<1> QED BY <1>3, <1>4 DEF Calling, DatabaseOK, dataVars

LEMMA SqliteReadGood ==
    ASSUME Calling, backend = "sqlite", NEW q, Statement(q), q.kind \in {"select", "bad"},
           SqliteRead(q)
    PROVE  SessionOK' /\ DatabaseOK'
<1>1. GoodSet(set') /\ (set'.open => set'.on) /\ reply' \in Rows \cup {"end", "error"}
  <2>1. CASE Fails(q)
    BY <2>1, NoSetGood DEF SqliteRead
  <2>2. CASE ~Fails(q)
    <3>1. q.rows \in Seq(Rows)
      BY <2>2, ResultRows DEF Statement, Fails
    <3>2. GoodSet(set') /\ (set'.open => set'.on)
      BY <2>2, <3>1, OpenedGood, SteppedGood DEF SqliteRead
    <3> QED BY <2>2, <3>2, CurrentGood DEF SqliteRead
  <2> QED BY <2>1, <2>2
<1>2. UNCHANGED <<firstFetch, rc, dataVars>>
  BY DEF SqliteRead
<1>3. SessionOK'
  BY <1>1, <1>2 DEF Calling, SessionOK, Reply, GoodSet
<1> QED BY <1>2, <1>3 DEF Calling, DatabaseOK, dataVars

LEMMA WriteGood ==
    ASSUME Calling, NEW q, Statement(q),
           \/ backend = "sqlite" /\ SqliteWrite(q)
           \/ backend = "mysql" /\ MysqlWrite(q)
           \/ backend = "odbc" /\ OdbcWrite(q)
    PROVE  SessionOK' /\ DatabaseOK'
<1>1. set' \in {set, NoSet} /\ UNCHANGED <<firstFetch, rc>> /\ reply' \in {"stored", "refused"}
  BY DEF SqliteWrite, MysqlWrite, OdbcWrite, sessionVars
<1>2. Effect(q) \/ UNCHANGED dataVars
  BY FinalizedFirst DEF SqliteWrite, MysqlWrite, OdbcWrite
<1>3. DatabaseOK'
  BY <1>2, EffectGood DEF Calling, DatabaseOK, dataVars
<1>4. SessionOK'
  BY <1>1, NoSetGood DEF Calling, SessionOK, Reply, GoodSet
<1> QED BY <1>3, <1>4

LEMMA ClientExecuteGood ==
    ASSUME Calling, NEW q, Statement(q),
           \/ backend = "mysql" /\ MysqlExecute(q)
           \/ backend = "odbc" /\ OdbcExecute(q)
    PROVE  SessionOK' /\ DatabaseOK'
<1>1. GoodSet(set') /\ ~set'.on
  <2>1. CASE ~Fails(q) /\ q.kind = "select"
    <3>1. q.rows \in Seq(Rows)
      BY <2>1, ResultRows DEF Statement
    <3> QED BY <2>1, <3>1, OpenedGood DEF MysqlExecute, OdbcExecute
  <2>2. CASE ~(~Fails(q) /\ q.kind = "select")
    BY <2>2, NoSetGood DEF MysqlExecute, OdbcExecute
  <2> QED BY <2>1, <2>2
<1>2. /\ firstFetch' \in BOOLEAN
      /\ rc' \in {"success", "failure"}
      /\ reply' \in {"ok", "error"}
  BY DEF MysqlExecute, OdbcExecute, Code, Calling, SessionOK
<1>3. DatabaseOK'
  BY EffectGood DEF MysqlExecute, OdbcExecute, Calling
<1>4. SessionOK'
  BY <1>1, <1>2 DEF Calling, SessionOK, Reply, GoodSet
<1> QED BY <1>3, <1>4

LEMMA ClientFetchGood ==
    ASSUME Calling,
           \/ backend = "mysql" /\ (MysqlFetch \/ MysqlReadNext)
           \/ backend = "odbc" /\ (OdbcFetch \/ OdbcReadNext)
    PROVE  SessionOK' /\ DatabaseOK' /\ set'.open = set.open
<1>1. GoodSet(set) /\ ~set.on
  BY DEF Calling, SessionOK
<1>2. TakeRow(set) \/ (reply' = "end" /\ UNCHANGED set)
  BY DEF MysqlFetch, MysqlReadNext, OdbcFetch, OdbcReadNext
<1>3. GoodSet(set') /\ ~set'.on /\ set'.open = set.open /\ reply' \in Rows \cup {"end"}
  <2>1. CASE TakeRow(set)
    BY <1>1, <2>1, TakeRowGood
  <2>2. CASE reply' = "end" /\ UNCHANGED set
    BY <1>1, <2>2
  <2> QED BY <1>2, <2>1, <2>2
<1>4. UNCHANGED <<firstFetch, rc, dataVars>>
  BY DEF MysqlFetch, MysqlReadNext, OdbcFetch, OdbcReadNext
<1>5. SessionOK'
  BY <1>3, <1>4 DEF Calling, SessionOK, Reply, GoodSet
<1> QED BY <1>3, <1>4, <1>5 DEF Calling, DatabaseOK, dataVars

LEMMA ClientReadGood ==
    ASSUME Calling, NEW q, Statement(q), q.kind \in {"select", "bad"},
           \/ backend = "mysql" /\ MysqlRead(q)
           \/ backend = "odbc" /\ OdbcRead(q)
    PROVE  SessionOK' /\ DatabaseOK' /\ (set'.open \/ reply' = "error")
<1>1. GoodSet(set') /\ ~set'.on /\ reply' \in Rows \cup {"end", "error"}
      /\ (set'.open \/ reply' = "error")
  <2>1. CASE Fails(q)
    BY <2>1, NoSetGood DEF MysqlRead, OdbcRead, Calling, SessionOK
  <2>2. CASE ~Fails(q)
    <3>1. q.rows \in Seq(Rows)
      BY <2>2, ResultRows DEF Statement, Fails
    <3>2. TakeRow(Opened(q.rows))
      BY <2>2 DEF MysqlRead, OdbcRead
    <3> QED BY <3>1, <3>2, OpenedGood, TakeRowGood
  <2> QED BY <2>1, <2>2
<1>2. rc' \in {"success", "failure"} /\ UNCHANGED <<firstFetch, dataVars>>
  BY DEF MysqlRead, OdbcRead, Code, Calling, SessionOK
<1>3. SessionOK'
  BY <1>1, <1>2 DEF Calling, SessionOK, Reply, GoodSet
<1> QED BY <1>1, <1>2, <1>3 DEF Calling, DatabaseOK, dataVars

-----------------------------------------------------------------------------
(* The inductive invariant.                                                *)

\* What Fresh leaves behind.
LEMMA FreshGood ==
    ASSUME Fresh, UNCHANGED backend
    PROVE  SessionOK' /\ scorco' = Unset /\ opener' = "nobody" /\ set' = NoSet
<1>1. GoodSet(set') /\ ~set'.open /\ ~set'.on
  BY NoSetGood DEF Fresh
<1>2. firstFetch' \in BOOLEAN /\ rc' = "success" /\ reply' = "none"
  BY DEF Fresh
<1>3. SessionOK'
  BY <1>1, <1>2 DEF SessionOK, GoodSet, Reply
<1> QED BY <1>3 DEF Fresh

LEMMA InitGood == Init => IInv
<1> SUFFICES ASSUME Init PROVE IInv
  OBVIOUS
<1>1. SessionOK
  BY NoSetGood DEF Init, SessionOK, Reply
<1>2. DatabaseOK /\ LifeOK
  BY DEF Init, DatabaseOK, LifeOK
<1> QED BY <1>1, <1>2 DEF IInv

\* The requests of scripts while the plugin is up.
LEMMA RequestGood ==
    ASSUME IInv, Serving,
           \/ \E q \in Statements : Execute(q)
           \/ Fetch
           \/ \E s \in Scorco : SetScorcoSQL(s)
           \/ Read
           \/ ReadNext
           \/ \E i \in Items : Store(i)
    PROVE  IInv'
<1>0. Calling /\ LifeOK /\ UNCHANGED <<phase, hooked>> /\ phase = "up" /\ ~Crash /\ ~UseUnset
  BY DEF IInv, Calling, Serving, configVars, Crash, UseUnset
<1>1. ASSUME NEW q \in Statements, Execute(q) PROVE IInv'
  <2>1. SessionOK' /\ DatabaseOK'
    BY <1>0, <1>1, StatementKinds, SqliteExecuteGood, ClientExecuteGood DEF Execute
  <2> QED BY <1>0, <1>1, <2>1 DEF IInv, LifeOK, Execute, Calling
<1>2. CASE Fetch
  <2>1. SessionOK' /\ DatabaseOK'
    BY <1>0, <1>2, SqliteFetchGood, ClientFetchGood DEF Fetch
  <2>2. backend = "mysql" => set'.open = set.open
    BY <1>0, <1>2, ClientFetchGood DEF Fetch
  <2> QED BY <1>0, <1>2, <2>1, <2>2 DEF IInv, LifeOK, Fetch, Calling
<1>3. ASSUME NEW s \in Scorco, SetScorcoSQL(s) PROVE IInv'
  BY <1>0, <1>3 DEF IInv, SessionOK, GoodSet, DatabaseOK, LifeOK, SetScorcoSQL, Calling,
     sessionVars, dataVars
<1>4. CASE Read
  <2> DEFINE q == IF scorco = Unset THEN Bad ELSE scorco
  <2>1. Statement(q) /\ q.kind \in {"select", "bad"}
    BY <1>0, <1>4, StatementKinds DEF Read, LifeOK
  <2>r. /\ \/ backend = "sqlite" /\ SqliteRead(q)
           \/ backend = "mysql" /\ MysqlRead(q)
           \/ backend = "odbc" /\ OdbcRead(q)
        /\ opener' = IF reply' \in Rows THEN "rco" ELSE "nobody"
        /\ UNCHANGED scorco
    BY <1>0, <1>4 DEF Read
  <2> HIDE DEF q
  <2>2. SessionOK' /\ DatabaseOK'
    BY <1>0, <2>r, <2>1, SqliteReadGood, ClientReadGood
  <2>3. backend = "mysql" => set'.open \/ reply' = "error"
    BY <1>0, <2>r, <2>1, ClientReadGood
  <2>4. opener' = "rco" => reply' \in Rows
    BY <2>r
  <2>5. opener' \in {"rco", "nobody"} /\ UNCHANGED scorco
    BY <2>r
  <2>6. opener' = "rco" /\ backend = "mysql" => set'.open
    BY <2>3, <2>4, CDBAssumption
  <2> QED BY <1>0, <2>2, <2>5, <2>6 DEF IInv, LifeOK, Calling
<1>5. CASE ReadNext
  <2>1. \/ backend = "sqlite" /\ SqliteReadNext
        \/ backend = "mysql" /\ MysqlReadNext
        \/ backend = "odbc" /\ OdbcReadNext
    BY <1>0, <1>5 DEF ReadNext
  <2>2. SessionOK' /\ DatabaseOK'
    BY <1>0, <2>1, SqliteFetchGood, ClientFetchGood
  <2>3. backend = "mysql" => set'.open = set.open
    BY <1>0, <2>1, ClientFetchGood
  <2>4. opener' \in {opener, "nobody"} /\ UNCHANGED scorco
    BY <1>0, <1>5 DEF ReadNext
  <2> QED BY <1>0, <2>2, <2>3, <2>4 DEF IInv, LifeOK, Calling
<1>6. ASSUME NEW i \in Items, Store(i) PROVE IInv'
  <2>1. SessionOK' /\ DatabaseOK'
    BY <1>0, <1>6, StatementKinds, WriteGood DEF Store
  <2>2. backend = "mysql" => UNCHANGED set
    BY <1>0, <1>6 DEF Store, MysqlWrite, sessionVars
  <2> QED BY <1>0, <1>6, <2>1, <2>2 DEF IInv, LifeOK, Store, Calling
<1> QED BY <1>1, <1>2, <1>3, <1>4, <1>5, <1>6

LEMMA CrashGood == IInv /\ (Crash \/ Kill) => IInv'
<1> SUFFICES ASSUME IInv, Crash \/ Kill PROVE IInv'
  OBVIOUS
<1>1. Fresh /\ UNCHANGED <<backend, hooked, disk>> /\ work' = disk /\ inTx' = FALSE
      /\ phase' \in {"crashed", "killed"}
  BY DEF Crash, Kill, configVars
<1> QED BY <1>1, FreshGood DEF IInv, DatabaseOK, LifeOK

LEMMA NextGood == IInv /\ [Next]_vars => IInv'
<1> SUFFICES ASSUME IInv, [Next]_vars PROVE IInv'
  OBVIOUS
<1>1. CASE OnCreate
  <2>1. DatabaseOK'
    <3>1. CASE backend = "sqlite" /\ phase' = "up"
      BY <1>1, <3>1 DEF OnCreate, SqliteConnect, configVars, IInv, DatabaseOK, dataVars
    <3>2. CASE ~(backend = "sqlite" /\ phase' = "up")
      BY <1>1, <3>2 DEF OnCreate, configVars, IInv, DatabaseOK, dataVars
    <3> QED BY <3>1, <3>2
  <2>2. SessionOK'
    BY <1>1 DEF OnCreate, configVars, IInv, SessionOK, GoodSet, sessionVars
  <2>3. LifeOK'
    BY <1>1 DEF OnCreate, configVars, IInv, LifeOK, sessionVars, dataVars
  <2> QED BY <2>1, <2>2, <2>3 DEF IInv
<1>2. CASE OnRelease
  <2>1. DatabaseOK' /\ ~inTx'
    <3>1. CASE backend = "sqlite"
      <4>1. Statement(Other("commit")) /\ Effect(Other("commit"))
        BY <1>2, <3>1, FinalizedFirst DEF OnRelease, SqliteDisconnect, Statement, Other
      <4>2. ~inTx'
        BY <4>1 DEF Effect, Other, Fails, dataVars, IInv, DatabaseOK
      <4> QED BY <1>2, <4>1, <4>2, EffectGood DEF OnRelease, configVars, IInv
    <3>2. CASE backend # "sqlite"
      BY <1>2, <3>2 DEF OnRelease, configVars, IInv, DatabaseOK, dataVars
    <3> QED BY <3>1, <3>2
  <2> QED BY <1>2, <2>1, FreshGood DEF OnRelease, configVars, IInv, LifeOK
<1>3. CASE Restart
  BY <1>3 DEF Restart, IInv, SessionOK, GoodSet, DatabaseOK, LifeOK, configVars, sessionVars, dataVars
<1>4. CASE UNCHANGED vars
  BY <1>4 DEF vars, IInv, SessionOK, GoodSet, DatabaseOK, LifeOK, configVars, sessionVars, dataVars
<1>5. CASE RequestUnconnected
  <2>1. CASE Crash
    BY <2>1, CrashGood
  <2>2. CASE ~Crash
    BY <1>5, <2>2 DEF RequestUnconnected, IInv, SessionOK, GoodSet, Reply, DatabaseOK, LifeOK,
       configVars, sessionVars, dataVars
  <2> QED BY <2>1, <2>2
<1>6. CASE ~(OnCreate \/ OnRelease \/ Kill \/ Restart \/ RequestUnconnected \/ UNCHANGED vars)
  <2>1. \/ \E q \in Statements : Execute(q)
        \/ Fetch
        \/ \E s \in Scorco : SetScorcoSQL(s)
        \/ Read
        \/ ReadNext
        \/ \E i \in Items : Store(i)
    BY <1>6 DEF Next
  <2>2. Serving \/ Crash
    BY <2>1 DEF Execute, Fetch, SetScorcoSQL, Read, ReadNext, Store, UseUnset
  <2> QED BY <2>1, <2>2, RequestGood, CrashGood
<1> QED BY <1>1, <1>2, <1>3, <1>4, <1>5, <1>6, CrashGood

LEMMA IInvCorrect == Spec => []IInv
  BY InitGood, NextGood, PTL DEF Spec

\* Every variable stays in its type, and the cursor is never at a row that is
\* not there, on any database.
THEOREM Odbc2TypeCorrect == Spec => []TypeOK
<1>1. IInv => TypeOK
  BY DEF IInv, SessionOK, GoodSet, DatabaseOK, LifeOK, TypeOK, CDBTypeOK
<1> QED BY <1>1, IInvCorrect, PTL

-----------------------------------------------------------------------------
(* Properties of steps.                                                    *)

\* Disconnect commits what the session has seen, whatever transactions scripts
\* began, ended or left open, and whatever result set they left half read.
THEOREM StopKeeps == Spec => StopKeepsAll
<1>1. IInv /\ [Next]_vars => (phase = "up" /\ phase' = "stopped" => disk' = work)
  <2> SUFFICES ASSUME IInv, [Next]_vars, phase = "up", phase' = "stopped" PROVE disk' = work
    OBVIOUS
  <2>1. OnRelease
    BY DEF Next, vars, OnCreate, OnRelease, Kill, Restart, Crash, Serving, Execute, Fetch,
       SetScorcoSQL, Read, ReadNext, Store, RequestUnconnected, UseUnset, configVars
  <2>2. CASE backend = "sqlite"
    <3>1. Effect(Other("commit"))
      BY <2>1, <2>2, FinalizedFirst DEF OnRelease, SqliteDisconnect
    <3>2. inTx \in BOOLEAN /\ (~inTx => work = disk)
      BY DEF IInv, DatabaseOK
    <3> QED BY <3>1, <3>2 DEF Effect, Fails, Other, dataVars
  <2>3. CASE backend # "sqlite"
    BY <2>1, <2>3 DEF OnRelease, IInv, DatabaseOK, dataVars
  <2> QED BY <2>2, <2>3
<1> QED BY <1>1, IInvCorrect, PTL DEF Spec, StopKeepsAll

\* However scripts mix their calls, a connected plugin goes down only when a
\* script uses the statement for objects that none has set, or reads on without
\* an object of its own to read on from.
THEOREM ConnectedIsSafe == Spec => SafeWhenConnected
<1>1. IInv /\ [Next]_vars =>
        (phase = "up" /\ phase' = "crashed" => scorco = Unset \/ opener # "rco")
  <2> SUFFICES ASSUME IInv, [Next]_vars, phase = "up", phase' = "crashed", opener = "rco"
               PROVE  scorco = Unset
    OBVIOUS
  <2>1. CASE ReadNext
    <3>1. ~(backend = "mysql" /\ ~set.open)
      BY DEF IInv, LifeOK
    <3> QED BY <2>1, <3>1 DEF ReadNext, Serving
  <2>2. CASE \E s \in Scorco : SetScorcoSQL(s)
    BY <2>2 DEF SetScorcoSQL, Serving, IInv, LifeOK
  <2>3. CASE UseUnset
    BY <2>3 DEF UseUnset
  <2>4. CASE ~(ReadNext \/ UseUnset \/ \E s \in Scorco : SetScorcoSQL(s))
    BY <2>4 DEF Next, vars, OnCreate, OnRelease, Kill, Restart, Serving, Execute, Fetch,
       Read, Store, RequestUnconnected
  <2> QED BY <2>1, <2>2, <2>3, <2>4
<1> QED BY <1>1, IInvCorrect, PTL DEF Spec, SafeWhenConnected

-----------------------------------------------------------------------------
(* Refinement: the cursor that ResultSet describes.                        *)

\* Execute opens a result set with all of its rows to come.
LEMMA ExecuteOpens ==
    ASSUME IInv, NEW q \in Statements, Execute(q)
    PROVE  Cursor!Open \/ Cursor!Fail
<1>1. Statement(q) /\ opener' = "exec"
  BY StatementKinds DEF Execute
<1>2. CASE ~Fails(q) /\ q.kind = "select"
  <2>1. q.rows \in Results /\ q.rows \in Seq(Rows)
    BY <1>1, <1>2, ResultRows DEF Statement
  <2>2. reply' = "ok"
    BY <1>2, FinalizedFirst DEF Execute, SqliteExecute, MysqlExecute, OdbcExecute
  <2>3. CASE set' = Opened(q.rows)
    BY <2>1, <2>2, <2>3, OpenedGood DEF Cursor!Open
  <2>4. CASE set' = Stepped(Opened(q.rows)) /\ firstFetch' = (firstFetch \/ set'.on)
    <3>1. set'.on => set'.rows = q.rows
      BY <2>1, <2>4, OpenedGood, SteppedGood
    <3>2. ~set'.on => set'.rows = <<>> /\ q.rows = <<>>
      BY <2>1, <2>4, OpenedGood, SteppedGood, NoSetGood
    <3>3. set'.on => firstFetch'
      BY <2>4
    <3> QED BY <1>1, <2>1, <2>2, <3>1, <3>2, <3>3 DEF Cursor!Open
  <2> QED BY <1>2, <2>3, <2>4, FinalizedFirst DEF Execute, SqliteExecute, MysqlExecute, OdbcExecute
<1>3. CASE ~(~Fails(q) /\ q.kind = "select")
  <2>1. set' = NoSet /\ reply' \in {"ok", "error"}
    BY <1>3, FinalizedFirst DEF Execute, SqliteExecute, MysqlExecute, OdbcExecute
  <2>2. ~set'.on /\ set'.rows = <<>>
    BY <2>1, NoSetGood
  <2> QED BY <2>1, <2>2 DEF Cursor!Open, Cursor!Fail
<1> QED BY <1>2, <1>3

\* Fetch delivers the next row, whether or not Execute has stepped to it.
LEMMA FetchFetches ==
    ASSUME IInv, Fetch, opener = "exec"
    PROVE  Cursor!Fetch
<1>1. GoodSet(set) /\ opener' = "exec"
  BY DEF Fetch, IInv, SessionOK
<1>2. CASE backend = "sqlite" /\ firstFetch
  <2>1. set' = set /\ firstFetch' = FALSE /\ reply' = Current(set)
    BY <1>2 DEF Fetch, SqliteFetch
  <2>2. CASE set.on
    BY <1>1, <1>2, <2>1, <2>2, CurrentGood DEF Cursor!Fetch, GoodSet
  <2>3. CASE ~set.on
    <3>1. set.rows = <<>>
      BY <1>1, <1>2, <2>3, NoSetGood DEF GoodSet, IInv, SessionOK
    <3> QED BY <1>1, <2>1, <2>3, <3>1, CurrentGood DEF Cursor!Fetch
  <2> QED BY <2>2, <2>3
<1>3. CASE backend = "sqlite" /\ ~firstFetch
  <2>1. set' = Stepped(set) /\ firstFetch' = FALSE /\ reply' = Current(set')
    BY <1>3 DEF Fetch, SqliteFetch
  <2>2. CASE set'.on
    BY <1>1, <1>3, <2>1, <2>2, SteppedGood, CurrentGood DEF Cursor!Fetch, GoodSet
  <2>3. CASE ~set'.on
    BY <1>1, <1>3, <2>1, <2>3, SteppedGood, CurrentGood, NoSetGood DEF Cursor!Fetch
  <2> QED BY <2>2, <2>3
<1>4. CASE backend # "sqlite"
  <2>1. ~set.on
    BY <1>4 DEF IInv, SessionOK
  <2>2. CASE TakeRow(set)
    BY <1>1, <2>1, <2>2, TakeRowGood DEF Cursor!Fetch
  <2>3. CASE ~set.open /\ reply' = "end" /\ UNCHANGED set
    BY <1>1, <2>1, <2>3, NoSetGood DEF Cursor!Fetch, GoodSet
  <2> QED BY <1>4, <2>2, <2>3 DEF Fetch, MysqlFetch, OdbcFetch
<1> QED BY <1>2, <1>3, <1>4

\* The same with SQLRCO in FETCHMODE, which does not know firstFetch.
LEMMA ReadNextFetches ==
    ASSUME IInv, ReadNext, Serving, opener = "rco"
    PROVE  Cursor!Fetch
<1>1. GoodSet(set) /\ opener' # "exec"
  BY DEF ReadNext, IInv, SessionOK, Serving, Crash
<1>2. CASE backend = "sqlite" /\ SqliteReadNext
  <2>1. set' = Stepped(set) /\ reply' = Current(set')
    BY <1>2 DEF SqliteReadNext
  <2>2. CASE set'.on
    BY <1>1, <2>1, <2>2, SteppedGood, CurrentGood DEF Cursor!Fetch, GoodSet
  <2>3. CASE ~set'.on
    BY <1>1, <2>1, <2>3, SteppedGood, CurrentGood, NoSetGood DEF Cursor!Fetch
  <2> QED BY <2>2, <2>3
<1>3. CASE backend # "sqlite"
  <2>1. ~set.on
    BY <1>3 DEF IInv, SessionOK
  <2>2. TakeRow(set)
    BY <1>3 DEF ReadNext, MysqlReadNext, OdbcReadNext, OdbcFetch, Serving, Crash
  <2> QED BY <1>1, <2>1, <2>2, TakeRowGood DEF Cursor!Fetch
<1> QED BY <1>2, <1>3 DEF ReadNext, Serving, Crash

\* SQLRCO opens a result set and delivers its first row.
LEMMA ReadOpens ==
    ASSUME IInv, Read
    PROVE  Cursor!OpenAndFetch \/ Cursor!Fail \/ Fresh
<1> SUFFICES ASSUME ~UseUnset PROVE Cursor!OpenAndFetch \/ Cursor!Fail
  BY DEF UseUnset, Crash
<1> DEFINE q == IF scorco = Unset THEN Bad ELSE scorco
<1>r. /\ \/ backend = "sqlite" /\ SqliteRead(q)
         \/ backend = "mysql" /\ MysqlRead(q)
         \/ backend = "odbc" /\ OdbcRead(q)
      /\ opener' = IF reply' \in Rows THEN "rco" ELSE "nobody"
  BY DEF Read
<1>1. Statement(q) /\ q.kind \in {"select", "bad"} /\ opener' # "exec"
  BY StatementKinds DEF Read, IInv, LifeOK
<1> HIDE DEF q
<1>2. CASE Fails(q)
  <2>1. reply' = "error" /\ opener' = "nobody" /\ set' \in {set, NoSet}
    BY <1>2, <1>r, CDBAssumption DEF SqliteRead, MysqlRead, OdbcRead
  <2>2. set'.on => set' = NoSet
    BY <1>2, <1>r, <2>1, NoSetGood DEF SqliteRead, IInv, SessionOK
  <2>3. CASE set' = NoSet
    BY <2>1, <2>3, NoSetGood DEF Cursor!Fail
  <2>4. CASE set' = set /\ ~set.on
    BY <2>1, <2>4 DEF Cursor!Fail
  <2> QED BY <2>1, <2>2, <2>3, <2>4
<1>3. CASE ~Fails(q)
  <2>1. q.rows \in Results /\ q.rows \in Seq(Rows)
    BY <1>1, <1>3, ResultRows DEF Statement, Fails
  <2>2. CASE backend = "sqlite"
    <3>1. set' = Stepped(Opened(q.rows)) /\ reply' = Current(set')
      BY <1>3, <1>r, <2>2 DEF SqliteRead
    <3>2. GoodSet(set')
      BY <2>1, <3>1, OpenedGood, SteppedGood
    <3>3. CASE set'.on
      <4>1. set'.rows = q.rows /\ q.rows # <<>>
        BY <2>1, <3>1, <3>2, <3>3, OpenedGood, SteppedGood DEF GoodSet
      <4> QED BY <1>1, <2>1, <3>1, <3>2, <3>3, <4>1, CurrentGood DEF Cursor!OpenAndFetch
    <3>4. CASE ~set'.on
      <4>1. set' = NoSet /\ q.rows = <<>>
        BY <2>1, <3>1, <3>4, OpenedGood, SteppedGood
      <4> QED BY <2>1, <3>1, <3>2, <3>4, <4>1, CurrentGood, NoSetGood DEF Cursor!OpenAndFetch
    <3> QED BY <3>3, <3>4
  <2>3. CASE backend # "sqlite"
    <3>1. TakeRow(Opened(q.rows))
      BY <1>3, <1>r, <2>3 DEF MysqlRead, OdbcRead
    <3>2. GoodSet(Opened(q.rows)) /\ ~Opened(q.rows).on /\ Opened(q.rows).rows = q.rows
      BY <2>1, OpenedGood
    <3> QED BY <1>1, <2>1, <3>1, <3>2, TakeRowGood DEF Cursor!OpenAndFetch
  <2> QED BY <2>2, <2>3
<1> QED BY <1>2, <1>3

\* A store leaves the result set as it is or closes it.
LEMMA StoreStores ==
    ASSUME IInv, NEW i \in Items, Store(i)
    PROVE  Cursor!Store \/ Fresh
<1> SUFFICES ASSUME ~UseUnset PROVE Cursor!Store
  BY DEF UseUnset, Crash
<1>1. reply' \in {"stored", "refused"} /\ UNCHANGED <<opener, firstFetch>>
      /\ set' \in {set, NoSet}
  BY DEF Store, SqliteWrite, MysqlWrite, OdbcWrite, sessionVars
<1> QED BY <1>1, NoSetGood DEF Cursor!Store

\* Fresh closes it.
LEMMA FreshResets == Fresh => Cursor!Reset
  BY NoSetGood DEF Fresh, Cursor!Reset

\* Every statement, store, fetch and object read but a mixed one, on whichever
\* database, is a step of the cursor that scripts are promised.
THEOREM RowsArriveInOrder == Spec => RowsInOrder
<1>1. Init => Cursor!Init
  BY NoSetGood DEF Init, Cursor!Init
<1>2. IInv /\ [Next]_vars => [MixedRead \/ Cursor!Next]_(Cursor!vars)
  <2> SUFFICES ASSUME IInv, [Next]_vars, ~MixedRead
               PROVE  Cursor!Next \/ UNCHANGED Cursor!vars
    OBVIOUS
  <2>1. ASSUME NEW q \in Statements, Execute(q) PROVE Cursor!Next
    BY <2>1, ExecuteOpens DEF Cursor!Next
  <2>2. CASE Fetch
    BY <2>2, FetchFetches DEF MixedRead, Cursor!Next
  <2>3. CASE Read
    BY <2>3, ReadOpens, FreshResets DEF Cursor!Next
  <2>4. CASE ReadNext
    <3>1. opener = "rco"
      BY <2>4 DEF MixedRead
    <3>2. Serving \/ Crash
      BY <2>4 DEF ReadNext
    <3> QED BY <2>4, <3>1, <3>2, ReadNextFetches, FreshResets DEF Crash, Cursor!Next
  <2>5. ASSUME NEW i \in Items, Store(i) PROVE Cursor!Next
    BY <2>5, StoreStores, FreshResets DEF Cursor!Next
  <2>6. CASE OnRelease \/ Kill \/ Crash
    BY <2>6, FreshResets DEF OnRelease, Kill, Crash, Cursor!Next
  <2>7. CASE OnCreate \/ Restart \/ (\E s \in Scorco : SetScorcoSQL(s)) \/ UNCHANGED vars
    BY <2>6, <2>7 DEF OnCreate, Restart, SetScorcoSQL, vars, sessionVars, Cursor!vars
  <2>8. CASE RequestUnconnected
    BY <2>6, <2>8 DEF RequestUnconnected, sessionVars, Cursor!Next, Cursor!Fail
  <2> QED BY <2>1, <2>2, <2>3, <2>4, <2>5, <2>6, <2>7, <2>8 DEF Next
<1> QED BY <1>1, <1>2, IInvCorrect, PTL DEF Spec, RowsInOrder
=============================================================================
