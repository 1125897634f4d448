--------------------------------- MODULE Pager ---------------------------------
(***************************************************************************)
(* The pager of the SQLite library that is compiled into the ODBC2 plugin  *)
(* (pager.c), for one connection, in its default mode (synchronous=FULL):  *)
(* the page cache, the rollback journal and the database file, with the    *)
(* end of the process at any moment (the launcher kills a server that does *)
(* not answer) and the end of the power.  What the operating system has    *)
(* accepted survives the process; what has been flushed survives the loss  *)
(* of power.  The pages' contents are abstract.                            *)
(***************************************************************************)
EXTENDS Naturals, Sequences, FiniteSets

CONSTANTS
    Values,      \* contents of a page, Blank among them
    Blank,       \* a page of zeros
    FirstSize,   \* pages of the file at the start
    CacheSize,   \* pages the cache holds before it recycles one
    PowerFails,  \* whether the power may fail
    MaxPages,    \* bound: pages of the file
    MaxWrites,   \* bound: calls that change a page
    MaxCrashes   \* bound: ends of the process

ASSUME PagerAssumption ==
    /\ Blank \in Values
    /\ FirstSize \in 1..MaxPages
    /\ CacheSize \in Nat \ {0, 1}
    /\ PowerFails \in BOOLEAN
    /\ {MaxPages, MaxWrites, MaxCrashes} \subseteq Nat

VARIABLES
    file,        \* the database file as the operating system shows it
    stale,       \* contents that may still be on the disk instead, per page
    journal,     \* the journal file: none, or its header and records
    settled,     \* what of the journal is on the disk
    state,       \* Pager.state
    cache,       \* the pages in memory
    dbSize,      \* Pager.dbSize
    needSync,    \* the journal has to be flushed before the file is written
    dirtyCache,  \* a page has been written in this transaction
    stmt,        \* the running statement: none, or what it started with
    full,        \* PAGER_ERR_FULL in Pager.errMask
    job,         \* what is being done, one step at a time
    want,        \* the page a recycled one makes room for, 0 in a commit
    replayed,    \* records of the journal that the playback has written back
    rash,        \* pages that the journal has otherwise than the file, before it is safe
    loose,       \* a playback has ended, and the file not been flushed since
    unread,      \* pages of the cache that the file has otherwise, until the cache is emptied
    writes, crashes

disk == <<file, stale, journal, settled, loose>>
memory == <<cache, dbSize, needSync, dirtyCache, stmt, unread>>
bounds == <<writes, crashes>>
pagerVars == <<disk, state, memory, full, job, want, replayed, rash, bounds>>

Pages == 1..MaxPages
Record == [page : Pages, val : Values]
JournalFiles == [size : Pages, valid : BOOLEAN, recs : Seq(Record), counted : Nat]
Cached == [val : Values, dirty : BOOLEAN, needSync : BOOLEAN, inJournal : BOOLEAN]
Absent == [size |-> 0]
Least(a, b) == IF a < b THEN a ELSE b

PagerTypeOK ==
    /\ file \in Seq(Values) /\ Len(file) \in Pages
    /\ stale \in [Pages -> SUBSET Values]
    /\ \/ journal = Absent
       \/ journal \in JournalFiles /\ journal.counted <= Len(journal.recs)
    /\ settled \in [valid : BOOLEAN, recs : Nat, counts : SUBSET Nat]
    /\ state \in {"unlock", "shared", "reserved", "exclusive", "synced"}
    /\ DOMAIN cache \subseteq Pages
    /\ cache \in [DOMAIN cache -> Cached]
    /\ dbSize \in 0..MaxPages
    /\ {needSync, dirtyCache, full, loose} \subseteq BOOLEAN
    /\ stmt = Absent \/ stmt \in [size : Pages, skip : Nat, saved : Seq(Record)]
    /\ job \in {"ready", "sync", "count", "write", "flush", "delete", "playback",
               "append"}
    /\ want \in 0..MaxPages
    /\ replayed \in Nat
    /\ rash \subseteq Pages /\ unread \subseteq Pages
    /\ writes \in 0..MaxWrites /\ crashes \in 0..MaxCrashes

NothingSettled == [valid |-> FALSE, recs |-> 0, counts |-> {}]
InTransaction == state \in {"reserved", "exclusive"}

PagerInit ==
    /\ file = [p \in 1..FirstSize |-> Blank]
    /\ stale = [p \in Pages |-> {}]
    /\ journal = Absent
    /\ settled = NothingSettled
    /\ state = "unlock"
    /\ cache = <<>>
    /\ dbSize = 0
    /\ needSync = FALSE
    /\ dirtyCache = FALSE
    /\ stmt = Absent
    /\ full = FALSE
    /\ job = "ready"
    /\ want = 0
    /\ replayed = 0
    /\ rash = {}
    /\ loose = FALSE
    /\ unread = {}
    /\ writes = 0
    /\ crashes = 0

-----------------------------------------------------------------------------
\* A file cut or filled up to n pages, and one with a page written.
Truncated(f, n) == [p \in 1..n |-> IF p <= Len(f) THEN f[p] ELSE Blank]
Put(f, p, v) == [Truncated(f, IF p > Len(f) THEN p ELSE Len(f)) EXCEPT ![p] = v]

\* What was on the disk before a write stays possible until the file is flushed.
Overwritten(pages) ==
    [p \in Pages |-> IF p \in pages
                     THEN stale[p] \cup {IF p <= Len(file) THEN file[p] ELSE Blank}
                     ELSE stale[p]]

\* The pages of some records, and what the records say of one of them.
PagesOf(recs) == {recs[i].page : i \in 1..Len(recs)}
ValueIn(recs, p) == recs[CHOOSE i \in 1..Len(recs) : recs[i].page = p].val

\* The records that the headers of the journal count, and a file with those
\* written back.  A page has one record at most (Pager.aInJournal).
Counted == SubSeq(journal.recs, 1, journal.counted)
Restored ==
    IF ~journal.valid
    THEN file
    ELSE [p \in 1..journal.size |->
             IF p \in PagesOf(Counted) THEN ValueIn(Counted, p)
             ELSE IF p <= Len(file) THEN file[p] ELSE Blank]

Read(f, p) == [val |-> IF p <= Len(f) THEN f[p] ELSE Blank,
               dirty |-> FALSE, needSync |-> FALSE, inJournal |-> FALSE]

\* The cache with page p, and without page v (0 for none).
Loaded(f, p, v) == [q \in (DOMAIN cache \cup {p}) \ {v} |->
                    IF q = p
                    THEN [Read(IF p > dbSize THEN <<>> ELSE f, p) EXCEPT
                            !.inJournal = InTransaction /\ p \in PagesOf(journal.recs)]
                    ELSE cache[q]]

\* Page 1 is in use as long as there is a lock (BtShared.pPage1).
Recyclable == DOMAIN cache \ {1}

\* Mutant of InStmt: a page that is added to the journal is not marked as saved
\* for the statement.
InStmtSaved == PagesOf(stmt.saved)

\* The pages the running statement need not save any more (Pager.aInStmt).
InStmt == PagesOf(stmt.saved) \cup PagesOf(SubSeq(journal.recs, stmt.skip + 1, Len(journal.recs)))

\* What a rollback of the statement writes back: its own journal first, then
\* what it added to the other one.
StmtRecords == stmt.saved \o SubSeq(journal.recs, stmt.skip + 1, Len(journal.recs))

-----------------------------------------------------------------------------
\* pager_unwritelock: the journal is deleted, which ends the transaction.
EndTransaction(f, c) ==
    /\ file' = f
    /\ journal' = Absent
    /\ settled' = NothingSettled
    /\ state' = "shared"
    /\ cache' = [p \in DOMAIN c |-> [c[p] EXCEPT !.dirty = FALSE, !.needSync = FALSE, !.inJournal = FALSE]]
    /\ dbSize' = Len(f)
    /\ dirtyCache' = FALSE
    /\ stmt' = Absent
    /\ job' = "ready"
    /\ want' = 0
    /\ replayed' = 0
    /\ rash' = {}
    /\ UNCHANGED <<needSync, bounds>>

\* Mutant of Reloaded: the cache is left as it is.
ReloadedNot(f, size) == cache

\* pager_reload_cache: what has not been written is read again.
Reloaded(f, size) ==
    [p \in DOMAIN cache |->
        IF cache[p].dirty THEN Read(IF p > size THEN <<>> ELSE f, p) ELSE cache[p]]

\* sqlite3pager_rollback.  A file that has not been written is only cut, one
\* that has been gets its pages back from the journal, see Playback.
Undo ==
    IF ~dirtyCache
    THEN EndTransaction(file, cache) /\ UNCHANGED <<stale, loose, unread>>
    ELSE IF state = "reserved"
    THEN EndTransaction(Truncated(file, journal.size), Reloaded(file, journal.size))
         /\ UNCHANGED <<stale, loose, unread>>
    ELSE /\ file' = Truncated(file, journal.size)
         /\ job' = "playback"
         /\ replayed' = 0
         /\ want' = 0
         /\ UNCHANGED <<stale, journal, settled, loose, state, memory, rash, bounds>>

\* The first page that is asked for: a lock, and a journal that some process
\* has left is played back.  A journal without a header is not.
Open ==
    /\ state = "unlock"
    /\ IF journal = Absent
       THEN /\ state' = "shared"
            /\ dbSize' = Len(file)
            /\ cache' = [p \in {1} |-> Read(file, 1)]
            /\ UNCHANGED <<file, job>>
       ELSE /\ state' = "exclusive"
            /\ job' = "playback"
            /\ file' = IF journal.valid THEN Truncated(file, journal.size) ELSE file
            /\ dbSize' = Len(file')
            /\ UNCHANGED cache
    /\ UNCHANGED <<stale, journal, settled, loose, needSync, dirtyCache, stmt, unread, full, want,
                   replayed, rash, bounds>>

\* The last page is given back: the lock ends and the cache is emptied.
Release ==
    /\ state = "shared"
    /\ job = "ready"
    /\ state' = "unlock"
    /\ cache' = <<>>
    /\ unread' = {}
    /\ dbSize' = 0
    /\ UNCHANGED <<disk, needSync, dirtyCache, stmt, full, job, want, replayed, rash, bounds>>

\* sqlite3pager_begin: the journal is created with its first header.
Begin ==
    /\ state = "shared"
    /\ job = "ready"
    /\ 1 \in DOMAIN cache
    /\ ~full
    /\ writes < MaxWrites
    /\ state' = "reserved"
    /\ journal' = [size |-> dbSize, valid |-> TRUE, recs |-> <<>>, counted |-> 0]
    /\ settled' = [NothingSettled EXCEPT !.counts = {0}]
    /\ needSync' = FALSE
    /\ dirtyCache' = FALSE
    /\ UNCHANGED <<file, stale, loose, cache, dbSize, stmt, unread, full, job, want, replayed, rash,
                   bounds>>

\* A page beyond the end is asked for to be written at once (allocatePage).
Then(p) == IF p > dbSize THEN "append" ELSE "ready"

\* sqlite3pager_get of a page that is not in the cache.  If the cache is full
\* a page that needs no flush of the journal is recycled, and if there is none
\* the journal is flushed first.
Get ==
    /\ job = "ready"
    /\ state # "unlock"
    /\ \E p \in 1..Least(dbSize + (IF InTransaction /\ ~full /\ writes < MaxWrites THEN 1 ELSE 0), MaxPages) \ DOMAIN cache :
          IF Cardinality(DOMAIN cache) < CacheSize \/ Recyclable = {}
          THEN /\ cache' = Loaded(file, p, 0)
               /\ job' = Then(p)
               /\ want' = IF p > dbSize THEN p ELSE 0
          ELSE /\ want' = p
               /\ job' = IF \E v \in Recyclable : ~cache[v].needSync THEN "write" ELSE "sync"
               /\ UNCHANGED cache
    /\ UNCHANGED <<disk, state, dbSize, needSync, dirtyCache, stmt, unread, full, replayed, rash, bounds>>

\* sqlite3pager_write of page p and the change of its contents to v: the old
\* ones are added to the journal, and to that of the statement, once.  A page
\* beyond the end that a statement has added and lost again does not count as
\* an extension of the file any more.
Change(p, v) ==
    LET old == [page |-> p, val |-> cache[p].val]
        journals == p <= journal.size /\ p \notin PagesOf(journal.recs)
        appends == p > journal.size /\ ~cache[p].inJournal
        flag == CASE journals -> TRUE
                  [] appends -> ~settled.valid
                  [] OTHER -> cache[p].needSync
        saves == stmt # Absent /\ ~journals /\ p <= stmt.size /\ p \notin InStmt
    IN  /\ journal' = IF journals THEN [journal EXCEPT !.recs = Append(@, old)] ELSE journal
        /\ stmt' = IF saves THEN [stmt EXCEPT !.saved = Append(@, old)] ELSE stmt
        /\ cache' = [cache EXCEPT ![p] = [val |-> v, dirty |-> TRUE, needSync |-> flag,
                                         inJournal |-> TRUE]]
        /\ needSync' = (needSync \/ flag)
        /\ dirtyCache' = TRUE
        /\ rash' = IF journals /\ p \in unread THEN rash \cup {p} ELSE rash
        /\ dbSize' = IF p > dbSize /\ ~(cache[p].inJournal /\ stmt = Absent) THEN p ELSE dbSize
        /\ writes' = writes + 1

Write ==
    /\ job \in {"ready", "append"}
    /\ InTransaction
    /\ ~full
    /\ writes < MaxWrites
    /\ \E p \in IF job = "append" THEN {want} ELSE DOMAIN cache, v \in Values :
          p <= dbSize + 1 /\ Change(p, v)
    /\ job' = "ready"
    /\ want' = 0
    /\ UNCHANGED <<file, stale, settled, loose, state, unread, full, replayed, crashes>>

\* The same with no room for the journal on the disk: the transaction is
\* rolled back, and no page can be written any more.
WriteFails ==
    /\ job = "ready"
    /\ InTransaction
    /\ ~full
    /\ \E p \in DOMAIN cache :
          /\ \/ p <= journal.size /\ p \notin PagesOf(journal.recs)
             \/ stmt # Absent /\ p <= stmt.size /\ p \notin InStmt
          /\ full' = TRUE
          /\ Undo

-----------------------------------------------------------------------------
\* Statements within a transaction.
StmtBegin ==
    /\ job = "ready"
    /\ InTransaction
    /\ stmt = Absent
    /\ stmt' = [size |-> dbSize, skip |-> Len(journal.recs), saved |-> <<>>]
    /\ UNCHANGED <<disk, state, cache, dbSize, needSync, dirtyCache, unread, full, job, want,
                   replayed, rash, bounds>>

StmtCommit ==
    /\ job = "ready"
    /\ stmt # Absent
    /\ stmt' = Absent
    /\ UNCHANGED <<disk, state, cache, dbSize, needSync, dirtyCache, unread, full, job, want,
                   replayed, rash, bounds>>

\* pager_stmt_playback.  Pages that have been added stay in the cache.  Once
\* the file has been written, what is rolled back is written to it at once,
\* whether or not the journal has been flushed since the page was added to it.
StmtRollback ==
    /\ job = "ready"
    /\ stmt # Absent
    /\ LET recs == StmtRecords
           cut == Truncated(file, stmt.size)
           back == state = "exclusive"
           clean(c) == IF back THEN [c EXCEPT !.dirty = FALSE, !.needSync = FALSE] ELSE c
       IN  /\ file' = IF back
                      THEN [p \in 1..stmt.size |->
                              IF p \in PagesOf(recs) THEN ValueIn(recs, p) ELSE cut[p]]
                      ELSE cut
           /\ stale' = IF back THEN Overwritten(PagesOf(recs)) ELSE stale
           /\ cache' = [p \in DOMAIN cache |->
                           IF p \in PagesOf(recs)
                           THEN clean([cache[p] EXCEPT !.val = ValueIn(recs, p)])
                           ELSE cache[p]]
           /\ rash' = IF back
                      THEN rash \cup {p \in PagesOf(recs) :
                                        p <= journal.size /\ p \notin PagesOf(Counted)}
                      ELSE rash
    /\ dbSize' = stmt.size
    /\ stmt' = Absent
    /\ UNCHANGED <<journal, settled, loose, state, needSync, dirtyCache, unread, full, job, want,
                   replayed, bounds>>

-----------------------------------------------------------------------------
\* COMMIT.  Without a change the journal is deleted at once, after a full disk
\* the transaction is rolled back.  Otherwise the change counter on page 1 is
\* written (pager_incr_changecounter), and sqlite3pager_sync goes on.
Commit ==
    /\ job = "ready"
    /\ InTransaction
    /\ stmt = Absent
    /\ ~full
    /\ IF ~dirtyCache
       THEN /\ EndTransaction(file, cache)
            /\ UNCHANGED <<stale, loose, unread, full>>
       ELSE /\ writes < MaxWrites
            /\ \E v \in Values : Change(1, v)
            /\ job' = "sync"
            /\ want' = 0
            /\ UNCHANGED <<file, stale, settled, loose, state, unread, full, replayed, crashes>>

\* Mutant of NRec: off by one.
NRecOneMore == Len(journal.recs) + 1

\* The records that syncJournal counts.
NRec == Len(journal.recs)

\* syncJournal: flush the records, count them in the header, flush that, and
\* only then write to the file.
SyncRecords ==
    /\ job = "sync"
    /\ IF needSync
       THEN /\ job' = "count"
            /\ journal' = [journal EXCEPT !.counted = NRec]
            /\ settled' = [valid |-> TRUE, recs |-> Len(journal.recs),
                            counts |-> settled.counts \cup {journal.counted}]
       ELSE /\ job' = "write"
            /\ UNCHANGED <<journal, settled>>
    /\ UNCHANGED <<file, stale, loose, state, memory, full, want, replayed, rash, bounds>>

SyncCount ==
    /\ job = "count"
    /\ job' = "write"
    /\ settled' = [valid |-> TRUE, recs |-> Len(journal.recs), counts |-> {}]
    /\ needSync' = FALSE
    /\ cache' = [p \in DOMAIN cache |-> [cache[p] EXCEPT !.needSync = FALSE]]
    /\ rash' = {}
    /\ UNCHANGED <<file, stale, journal, loose, state, dbSize, dirtyCache, stmt, unread, full, want,
                   replayed, bounds>>

\* A page is recycled: a dirty one is written to the file before.  The new
\* header that a flush for this purpose adds to the journal counts nothing.
Recycle ==
    /\ job = "write"
    /\ want # 0
    /\ \E v \in Recyclable :
          /\ ~cache[v].needSync
          /\ IF cache[v].dirty
             THEN /\ file' = Put(file, v, cache[v].val)
                  /\ stale' = Overwritten({v})
                  /\ state' = "exclusive"
             ELSE UNCHANGED <<file, stale, state>>
          /\ cache' = Loaded(file', want, v)
    /\ job' = Then(want)
    /\ want' = IF want > dbSize THEN want ELSE 0
    /\ UNCHANGED <<journal, settled, loose, dbSize, needSync, dirtyCache, stmt, unread, full, replayed,
                   rash, bounds>>

\* A commit writes all dirty pages.
WriteDirty ==
    /\ job = "write"
    /\ want = 0
    /\ \E p \in DOMAIN cache :
          /\ cache[p].dirty
          /\ file' = Put(file, p, cache[p].val)
          /\ stale' = Overwritten({p})
          /\ cache' = [cache EXCEPT ![p].dirty = FALSE]
          /\ job' = IF \E q \in DOMAIN cache \ {p} : cache[q].dirty THEN "write" ELSE "flush"
    /\ state' = "exclusive"
    /\ UNCHANGED <<journal, settled, loose, dbSize, needSync, dirtyCache, stmt, unread, full, want,
                   replayed, rash, bounds>>

\* Another process reads, and the first write to the file gets no lock.  A
\* commit stays undone and may be tried again, a transaction that has to
\* recycle a page is rolled back.
Busy ==
    /\ job = "write"
    /\ state = "reserved"
    /\ IF want = 0
       THEN /\ job' = "ready"
            /\ UNCHANGED <<disk, state, memory, want, replayed, rash, bounds>>
       ELSE /\ \E v \in Recyclable : ~cache[v].needSync /\ cache[v].dirty
            /\ Undo
    /\ UNCHANGED full

\* The file is flushed, and the journal deleted: the transaction is committed.
Flush ==
    /\ job = "flush"
    /\ stale' = [p \in Pages |-> {}]
    /\ loose' = FALSE
    /\ state' = "synced"
    /\ job' = "delete"
    /\ UNCHANGED <<file, journal, settled, memory, full, want, replayed, rash, bounds>>

\* The journal is deleted, and the size of the database is that of the file from
\* now on.  Pages beyond the end, which the rollback of a statement has left in
\* the cache, are in the file again if a commit has written one behind them.
Delete ==
    /\ job = "delete"
    /\ EndTransaction(file, cache)
    /\ unread' = unread \cup {p \in DOMAIN cache :
                                dbSize < p /\ p <= Len(file) /\ cache[p].val # file[p]}
    /\ UNCHANGED <<stale, loose, full>>

\* ROLLBACK.
Rollback ==
    /\ job = "ready"
    /\ InTransaction
    /\ Undo
    /\ UNCHANGED full

\* pager_playback, one record at a time, and its end.  The file is not flushed
\* before the journal is deleted.  Nothing leads to the call of
\* pager_reload_cache after the loop, so that what has been changed since the
\* journal was last flushed stays in the cache.
Playback ==
    /\ job = "playback"
    /\ IF journal.valid /\ replayed < journal.counted
       THEN LET r == journal.recs[replayed + 1]
            IN  /\ file' = Put(file, r.page, r.val)
                /\ stale' = Overwritten({r.page})
                /\ cache' = [p \in DOMAIN cache |->
                               IF p = r.page
                               THEN [cache[p] EXCEPT !.val = r.val, !.dirty = FALSE, !.needSync = FALSE]
                               ELSE cache[p]]
                /\ replayed' = replayed + 1
                /\ UNCHANGED <<journal, settled, loose, state, dbSize, needSync, dirtyCache, stmt, unread,
                               job, want, rash, bounds>>
       ELSE /\ EndTransaction(file, cache)
            /\ unread' = unread \cup {p \in DOMAIN cache : cache[p].dirty /\ p <= journal.size}
            /\ loose' = TRUE
            /\ UNCHANGED stale
    /\ UNCHANGED full

-----------------------------------------------------------------------------
\* The process ends, at any moment.
Gone ==
    /\ crashes < MaxCrashes
    /\ crashes' = crashes + 1
    /\ state' = "unlock"
    /\ cache' = <<>>
    /\ unread' = {}
    /\ dbSize' = 0
    /\ needSync' = FALSE
    /\ dirtyCache' = FALSE
    /\ stmt' = Absent
    /\ full' = FALSE
    /\ job' = "ready"
    /\ want' = 0
    /\ replayed' = 0
    /\ UNCHANGED writes

Crash == Gone /\ UNCHANGED <<disk, rash>>

\* With the power go the writes that have not been flushed, any of them: pages
\* of the file, records of the journal, its count, its only header.
PowerLoss ==
    /\ PowerFails
    /\ Gone
    /\ file' \in {f \in [1..Len(file) -> Values] :
                    \A p \in 1..Len(file) : f[p] \in stale[p] \cup {file[p]}}
    /\ stale' = [p \in Pages |-> {}]
    /\ loose' = FALSE
    /\ IF journal = Absent
       THEN UNCHANGED <<journal, settled>>
       ELSE /\ \E valid \in {settled.valid, journal.valid},
                  n \in settled.counts \cup {journal.counted} :
                  LET kept == SubSeq(journal.recs, 1, settled.recs)
                  IN  journal' = [journal EXCEPT !.valid = valid, !.recs = kept,
                                                 !.counted = Least(n, Len(kept))]
            /\ settled' = [valid |-> journal'.valid, recs |-> Len(journal'.recs), counts |-> {}]
    /\ UNCHANGED rash

PagerNext ==
    \/ Open \/ Release \/ Begin \/ Get \/ Write \/ WriteFails
    \/ StmtBegin \/ StmtCommit \/ StmtRollback
    \/ Commit \/ SyncRecords \/ SyncCount \/ Recycle \/ WriteDirty \/ Busy \/ Flush \/ Delete
    \/ Rollback \/ Playback
    \/ Crash \/ PowerLoss

PagerSpec == PagerInit /\ [][PagerNext]_pagerVars

-----------------------------------------------------------------------------
\* The pages as the connection sees them, and as the next process finds them.
Page(p) == IF p \in DOMAIN cache THEN cache[p].val
           ELSE IF p <= Len(file) THEN file[p] ELSE Blank
OnDisk == IF journal = Absent THEN file ELSE Restored
InMemory == IF state = "unlock" \/ job = "playback"
            THEN OnDisk ELSE [p \in 1..dbSize |-> Page(p)]
AtStart ==
    IF stmt = Absent \/ job = "playback"
    THEN <<>>
    ELSE [p \in 1..stmt.size |->
             IF p \in PagesOf(StmtRecords) THEN ValueIn(StmtRecords, p) ELSE Page(p)]

Abstract == INSTANCE Store WITH committed <- OnDisk, working <- InMemory, mark <- AtStart

\* A transaction is committed or undone as a whole and a statement is undone as
\* a whole, whatever the cache recycles and wherever the process ends.
Atomic == Abstract!StoreSpec

\* No power failure changes the database.
Durable == [][PowerLoss => Abstract!Extends(OnDisk', OnDisk)]_pagerVars

\* Both hold but for three cases, and those are the only ones.  The part of the
\* journal that is not flushed has a page otherwise than the file: the rollback of
\* a statement has overwritten the file, or taken a page for clean, or the page
\* came from a cache as in the third case.  The power fails after a playback and
\* before the next commit has flushed the file.  A playback, or a commit that made
\* the file longer than the database, has left a cache behind the file, until that
\* is emptied.
AtomicOtherwise ==
    [][rash' = {} /\ ~(PowerLoss /\ loose) /\ unread \cup unread' = {}
       => Abstract!StoreNext \/ UNCHANGED <<OnDisk, InMemory, AtStart>>]_pagerVars

\* A page that is clean may leave the cache: the file has it, also after a
\* rollback of which some other part of the connection keeps the pages (as the
\* comments of pager_playback and pager_reload_cache say).
Stored(p) == ~cache[p].dirty /\ p <= dbSize => p <= Len(file) /\ cache[p].val = file[p]
CleanIsStored == job # "playback" => \A p \in DOMAIN cache : Stored(p)

\* ... but for the pages that should have been read again: those that a playback
\* has left dirty, and those beyond the end that a longer file has as zeros.
CleanIsStoredOtherwise == job # "playback" => \A p \in DOMAIN cache \ unread : Stored(p)

=============================================================================
