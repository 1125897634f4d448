------------------------------- MODULE FreePages -------------------------------
(***************************************************************************)
(* How the B-tree layer of SQLite (btree.c) frees pages and uses them      *)
(* again, on top of the page cache (pager.c).  Free pages form a list of   *)
(* trunks with leaves, which is itself stored in pages.  The contents of a *)
(* leaf do not matter to anybody, so the pager is told not to write it     *)
(* (dont_write) and not to save it before it is used again                 *)
(* (dont_rollback), unless a rollback might need it after all.  Module     *)
(* Pager has the disk and the end of the process; here a flush is one step *)
(* with what it is for, and of the power and the process nothing ends.     *)
(***************************************************************************)
EXTENDS Naturals, FiniteSets, Sequences

CONSTANTS
    Data,           \* contents of a page in use
    Nothing,        \* ... and of one that has none
    FirstPages,     \* pages of the file at the start
    TrunkCapacity,  \* leaves of a trunk, usableSize/4 - 8
    MostPages,      \* bound: pages of the file
    MaxCalls        \* bound: calls that change a page

ASSUME FreePagesAssumption ==
    /\ Nothing \notin Data
    /\ {TrunkCapacity, MostPages, MaxCalls} \subseteq Nat
    /\ FirstPages \in 1..MostPages

VARIABLES
    dbFile,     \* the database file
    pager,      \* struct Pager
    used,       \* the pages in use, and what was written to them last
    trunks,     \* the trunks of the list of free pages, the first one last
    atBegin,    \* both when the transaction began,
    atStmt,     \* ... when the statement began
    dropped,    \* pages that dont_write has made clean in this transaction,
    inStmt,     \* ... in this statement
    early,      \* pages that a rollback has written to the file before their records
                \* were counted
    twice,      \* pages that were in use when they were allocated
    forgotten,  \* what a rollback has forgotten
    calls

ghosts == <<used, trunks, atBegin, atStmt, dropped, inStmt, early, twice, forgotten>>
freePagesVars == <<dbFile, pager, ghosts, calls>>

\* A page: a row, or a trunk with the next one and its leaves.  Page 1 has the
\* first trunk and the number of free pages.
Contents(row, next, free, leaves) ==
    [row |-> row, next |-> next, free |-> free, leaves |-> leaves]
Zeros == Contents(Nothing, 0, 0, <<>>)
Row(v) == Contents(v, 0, 0, <<>>)

NoStmt == [inUse |-> FALSE, size |-> 0, skip |-> 0, saved |-> <<>>, marked |-> {}]
Entry(c, saved) ==
    [content |-> c, dirty |-> FALSE, inJournal |-> saved, needSync |-> FALSE,
     alwaysRollback |-> FALSE]
PageNumbers == 1..MostPages

\* What the B-tree keeps account of, and the pages whose contents matter to it.
Items(s) == {s[i] : i \in 1..Len(s)}
Book == [used |-> used, trunks |-> trunks]
Holding(book) == {1} \cup DOMAIN book.used \cup Items(book.trunks)

AllContents == [row : Data \cup {Nothing}, next : 0..MostPages, free : Nat,
                leaves : Seq(PageNumbers)]
Entries == [content : AllContents, dirty : BOOLEAN, inJournal : BOOLEAN, needSync : BOOLEAN,
            alwaysRollback : BOOLEAN]
Records == [page : PageNumbers, content : AllContents]
Statements == [inUse : BOOLEAN, size : 0..MostPages, skip : Nat, saved : Seq(Records),
               marked : SUBSET PageNumbers]
PagersWith(cache) ==
    [state : {"shared", "reserved", "exclusive"}, cache : {cache}, dbSize : PageNumbers,
     origDbSize : 0..MostPages, alwaysRollback : BOOLEAN, journal : Seq(Records),
     inJournal : SUBSET PageNumbers, counted : Nat, started : BOOLEAN, stmt : Statements]
Books == [used : UNION {[P -> Data] : P \in SUBSET (PageNumbers \ {1})},
          trunks : Seq(PageNumbers \ {1})]

FreePagesTypeOK ==
    /\ dbFile \in Seq(AllContents) /\ Len(dbFile) \in PageNumbers
    /\ pager \in PagersWith(pager.cache)
    /\ pager.cache \in [DOMAIN pager.cache -> Entries]
    /\ 1 \in DOMAIN pager.cache /\ DOMAIN pager.cache \subseteq PageNumbers
    /\ pager.inJournal \subseteq 1..pager.origDbSize /\ pager.origDbSize <= pager.dbSize
    /\ pager.counted <= Len(pager.journal)
    /\ pager.stmt.inUse => /\ pager.origDbSize <= pager.stmt.size
                           /\ pager.stmt.size <= pager.dbSize
                           /\ pager.stmt.skip <= Len(pager.journal)
                           /\ pager.stmt.marked \subseteq 1..pager.stmt.size
    /\ {Book, atBegin, atStmt} \subseteq Books
    /\ inStmt \subseteq dropped /\ dropped \cup early \subseteq PageNumbers
    /\ calls \in 0..MaxCalls

FreePagesInit ==
    /\ \E v \in Data : used = [p \in 2..FirstPages |-> v]
    /\ dbFile = [p \in 1..FirstPages |-> IF p = 1 THEN Zeros ELSE Row(used[p])]
    /\ pager = [state |-> "shared", cache |-> [p \in {1} |-> Entry(Zeros, FALSE)],
                dbSize |-> FirstPages, origDbSize |-> 0, alwaysRollback |-> FALSE,
                journal |-> <<>>, inJournal |-> {}, counted |-> 0, started |-> FALSE,
                stmt |-> NoStmt]
    /\ trunks = <<>>
    /\ atBegin = Book
    /\ atStmt = Book
    /\ dropped = {}
    /\ inStmt = {}
    /\ early = {}
    /\ twice = {}
    /\ forgotten = {}
    /\ calls = 0

-----------------------------------------------------------------------------
\* The pager.
InFile(p) == IF p <= Len(dbFile) THEN dbFile[p] ELSE Zeros
\* A journal has a page at most once.
Recorded(recs) == {recs[i].page : i \in 1..Len(recs)}
RecordOf(recs, p) == recs[CHOOSE i \in 1..Len(recs) : recs[i].page = p].content

\* The headers of the journal count its first g.counted records.  What has come
\* since is counted when the journal is flushed, before a page that has needSync
\* is written to the file.
Uncounted(g) == Recorded(SubSeq(g.journal, g.counted + 1, Len(g.journal)))

\* sqlite3pager_get.
Fetched(g, p) ==
    IF p \in DOMAIN g.cache
    THEN g
    ELSE [g EXCEPT !.cache = [q \in DOMAIN g.cache \cup {p} |->
                                IF q \in DOMAIN g.cache THEN g.cache[q]
                                ELSE Entry(IF p > g.dbSize THEN Zeros ELSE InFile(p),
                                           p \in g.inJournal)]]
Content(g, p) == Fetched(g, p).cache[p].content

\* What sqlite3pager_write does with a page that is about to change: nothing if
\* it is saved already, in this transaction and in this statement; else the page
\* is added to the journal, or to that of the statement.
Known(g, p) == Fetched(g, p).cache[p].inJournal /\ (g.stmt.inUse => p \in g.stmt.marked)
Journals(g, p) == ~Fetched(g, p).cache[p].inJournal /\ p <= g.origDbSize

\* Mutant of Saves: pages the statement has added are saved as well.
SavesAll(g, p) == g.stmt.inUse /\ p \notin g.stmt.marked /\ ~Journals(g, p)

Saves(g, p) == g.stmt.inUse /\ p \notin g.stmt.marked /\ ~Journals(g, p) /\ p <= g.stmt.size

\* A page that is added to the journal waits for its flush, and one beyond the
\* old end for that of the first header.
Waits(g, p) == LET e == Fetched(g, p).cache[p]
               IN  IF e.inJournal THEN e.needSync ELSE p <= g.origDbSize \/ ~g.started

\* sqlite3pager_write, and the change of the contents to c.
Changed(entry, c, waits) ==
    [entry EXCEPT !.content = c, !.dirty = TRUE, !.inJournal = TRUE, !.needSync = waits]
Written(g, p, c) ==
    LET f == Fetched(g, p)
        s == g.stmt
        old == [page |-> p, content |-> f.cache[p].content]
    IN  [f EXCEPT
            !.cache = [f.cache EXCEPT ![p] = Changed(f.cache[p], c, Waits(g, p))],
            !.journal = IF Journals(g, p) THEN Append(g.journal, old) ELSE g.journal,
            !.inJournal = IF Journals(g, p) THEN g.inJournal \cup {p} ELSE g.inJournal,
            !.stmt = IF ~s.inUse \/ ~(Saves(g, p) \/ Journals(g, p)) THEN s
                     ELSE [s EXCEPT !.saved = IF Saves(g, p) THEN Append(s.saved, old) ELSE s.saved,
                                    !.marked = s.marked \cup {p}],
            !.dbSize = IF ~Known(g, p) /\ p > g.dbSize THEN p ELSE g.dbSize]

\* sqlite3pager_dont_write.  The last page of a file that has grown is written,
\* so that the file gets its size.
Drops(g, p) == /\ Fetched(g, p).cache[p].dirty
               /\ ~(g.dbSize = p /\ g.origDbSize < g.dbSize)

\* Mutant of DontWrite: alwaysRollback is not set.
DontWriteOnly(g, p) ==
    LET f == Fetched(g, p)
        e == f.cache[p]
    IN  [f EXCEPT !.cache = [f.cache EXCEPT ![p] = [e EXCEPT !.dirty = e.dirty /\ ~Drops(g, p)]]]

DontWrite(g, p) ==
    LET f == Fetched(g, p)
        e == f.cache[p]
    IN  [f EXCEPT !.cache = [f.cache EXCEPT
            ![p] = [e EXCEPT !.alwaysRollback = TRUE, !.dirty = e.dirty /\ ~Drops(g, p)]]]

\* sqlite3pager_dont_rollback: the page counts as saved.
DontRollback(g, p) ==
    LET f == Fetched(g, p)
        e == f.cache[p]
        s == g.stmt
    IN  IF g.state # "exclusive" \/ e.alwaysRollback \/ g.alwaysRollback
        THEN f
        ELSE [f EXCEPT
                !.cache = [f.cache EXCEPT
                    ![p] = [e EXCEPT !.inJournal = e.inJournal \/ p <= g.origDbSize]],
                !.inJournal = IF p <= g.origDbSize THEN g.inJournal \cup {p} ELSE g.inJournal,
                !.stmt = IF s.inUse /\ p <= s.size THEN [s EXCEPT !.marked = s.marked \cup {p}] ELSE s]

-----------------------------------------------------------------------------
\* The list of free pages.
Head1(g) == Content(g, 1)
Leaves(g, t) == Content(g, t).leaves

\* freePage: the first free page and every page that finds the trunk full
\* become a trunk, others a leaf of the first trunk.
PutOnList(g, p) ==
    LET h == Head1(g)
        more == [h EXCEPT !.free = h.free + 1]
        trunk == Content(g, h.next)
    IN  IF h.free = 0
        THEN Written(Written(g, 1, [more EXCEPT !.next = p]), p, Zeros)
        ELSE IF Len(trunk.leaves) >= TrunkCapacity
        THEN Written(Written(g, 1, [more EXCEPT !.next = p]), p,
                     Contents(Nothing, h.next, 0, <<>>))
        ELSE DontWrite(Written(Written(g, 1, more), h.next,
                               [trunk EXCEPT !.leaves = Append(trunk.leaves, p)]), p)

\* Whether freePage(p) loses the only copy of what p holds.
TakesLeaf(g) == Head1(g).free > 0 /\ Len(Leaves(g, Head1(g).next)) < TrunkCapacity
Loses(g, p) == TakesLeaf(g) /\ Drops(g, p)

\* allocatePage: a leaf, a trunk without leaves, or a new page at the end.
Candidates(g) ==
    LET h == Head1(g)
    IN  IF h.free = 0 THEN {g.dbSize + 1}
        ELSE IF Leaves(g, h.next) = <<>> THEN {h.next}
        ELSE {Leaves(g, h.next)[i] : i \in 1..Len(Leaves(g, h.next))} \cap (1..g.dbSize)

PopsTrunk(g) == Head1(g).free > 0 /\ Leaves(g, Head1(g).next) = <<>>

Without(leaves, p) ==
    LET i == CHOOSE j \in 1..Len(leaves) : leaves[j] = p
        k == Len(leaves)
    IN  [j \in 1..k - 1 |-> IF j = i THEN leaves[k] ELSE leaves[j]]

\* Mutant of Allocated: the leaf stays in the list.
AllocatedKeeps(g, p) ==
    LET h == Head1(g)
        fewer == [h EXCEPT !.free = h.free - 1]
        trunk == Content(g, h.next)
    IN  IF h.free = 0 THEN g
        ELSE IF trunk.leaves = <<>>
        THEN Written(Written(g, 1, [fewer EXCEPT !.next = trunk.next]), p, trunk)
        ELSE DontRollback(Written(g, 1, fewer), p)

Allocated(g, p) ==
    LET h == Head1(g)
        fewer == [h EXCEPT !.free = h.free - 1]
        trunk == Content(g, h.next)
    IN  IF h.free = 0 THEN g
        ELSE IF trunk.leaves = <<>>
        THEN Written(Written(g, 1, [fewer EXCEPT !.next = trunk.next]), p, trunk)
        ELSE DontRollback(Written(Written(g, 1, fewer), h.next,
                                  [trunk EXCEPT !.leaves = Without(trunk.leaves, p)]), p)

-----------------------------------------------------------------------------
InTrans == pager.state # "shared"
Call == InTrans /\ calls < MaxCalls /\ calls' = calls + 1

\* A row is changed,
ChangeRow ==
    /\ Call
    /\ \E p \in DOMAIN used, v \in Data :
          /\ pager' = Written(pager, p, Row(v))
          /\ used' = [used EXCEPT ![p] = v]
    /\ UNCHANGED <<dbFile, trunks, atBegin, atStmt, dropped, inStmt, early, twice, forgotten>>

\* ... gets a page that is filled at once (fillInCell),
Allocate ==
    /\ Call
    /\ \E p \in Candidates(pager) \cap PageNumbers, v \in Data :
          /\ pager' = Written(Allocated(pager, p), p, Row(v))
          /\ used' = [q \in DOMAIN used \cup {p} |-> IF q = p THEN v ELSE used[q]]
          /\ trunks' = IF PopsTrunk(pager) THEN SubSeq(trunks, 1, Len(trunks) - 1) ELSE trunks
          /\ twice' = twice \cup ({p} \cap DOMAIN used)
    /\ UNCHANGED <<dbFile, atBegin, atStmt, dropped, inStmt, early, forgotten>>

\* ... or is deleted (clearCell).
Free ==
    /\ Call
    /\ \E p \in DOMAIN used :
          /\ pager' = PutOnList(pager, p)
          /\ used' = [q \in DOMAIN used \ {p} |-> used[q]]
          /\ trunks' = IF TakesLeaf(pager) THEN trunks ELSE Append(trunks, p)
          /\ LET d == IF Loses(pager, p) THEN {p} ELSE {}
             IN  /\ dropped' = dropped \cup d
                 /\ inStmt' = IF pager.stmt.inUse THEN inStmt \cup d ELSE inStmt
    /\ UNCHANGED <<dbFile, atBegin, atStmt, early, twice, forgotten>>

\* syncJournal: all records are counted, and no page waits any more.
Synced(g) ==
    [g EXCEPT !.counted = Len(g.journal),
              !.started = TRUE,
              !.cache = [p \in DOMAIN g.cache |-> [g.cache[p] EXCEPT !.needSync = FALSE]]]

\* Pager.needSync: a record or a page waits.
NeedSync(g) == g.counted < Len(g.journal) \/ \E p \in DOMAIN g.cache : g.cache[p].needSync

\* Mutant of Unwritten: page p goes to the file, whether or not it waits.
UnwrittenWaiting(p) == {pager, IF NeedSync(pager) THEN Synced(pager) ELSE pager}

\* The pager when page p may go: flushed before, if p waits, and perhaps also if
\* the pager has not noticed that p does not (pFirstSynced).
Unwritten(p) ==
    (IF pager.cache[p].needSync THEN {} ELSE {pager})
    \cup (IF NeedSync(pager) THEN {Synced(pager)} ELSE {})

\* The cache makes room, at any time (sqlite3pager_get).
MakeRoom ==
    /\ \E p \in DOMAIN pager.cache \ {1} :
          LET e == pager.cache[p]
          IN  /\ dbFile' = IF e.dirty
                         THEN [q \in 1..(IF p > Len(dbFile) THEN p ELSE Len(dbFile)) |->
                                  IF q = p THEN e.content ELSE InFile(q)]
                         ELSE dbFile
              /\ \E g \in Unwritten(p) :
                    pager' = [g EXCEPT
                        !.cache = [q \in DOMAIN g.cache \ {p} |-> g.cache[q]],
                        !.state = IF e.dirty THEN "exclusive" ELSE g.state,
                        !.alwaysRollback = g.alwaysRollback \/ e.alwaysRollback]
    /\ UNCHANGED <<ghosts, calls>>

-----------------------------------------------------------------------------
\* sqlite3pager_begin and pager_open_journal.
BeginTrans ==
    /\ pager.state = "shared"
    /\ calls < MaxCalls
    /\ pager' = [pager EXCEPT !.state = "reserved", !.origDbSize = pager.dbSize,
                              !.alwaysRollback = FALSE]
    /\ atBegin' = Book
    /\ UNCHANGED <<dbFile, used, trunks, atStmt, dropped, inStmt, early, twice, forgotten, calls>>

\* pager_unwritelock, with the pages that stay in the cache and a file.
Ended(cache, size) ==
    [pager EXCEPT !.state = "shared", !.dbSize = size, !.origDbSize = 0,
                  !.cache = [p \in DOMAIN cache |-> [cache[p] EXCEPT !.inJournal = FALSE,
                                                                     !.dirty = FALSE,
                                                                     !.needSync = FALSE]],
                  !.journal = <<>>, !.inJournal = {}, !.counted = 0, !.started = FALSE,
                  !.stmt = NoStmt]

\* sqlite3pager_sync and sqlite3pager_commit: what is dirty is written.
CommitTrans ==
    /\ InTrans
    /\ ~pager.stmt.inUse
    /\ LET dirty == {p \in DOMAIN pager.cache : pager.cache[p].dirty}
           last == CHOOSE n \in dirty \cup {Len(dbFile)} : \A m \in dirty \cup {Len(dbFile)} : n >= m
       IN  /\ dbFile' = [p \in 1..last |-> IF p \in dirty THEN pager.cache[p].content ELSE InFile(p)]
           /\ pager' = Ended(pager.cache, last)
    /\ dropped' = {}
    /\ inStmt' = {}
    /\ early' = {}
    /\ UNCHANGED <<used, trunks, atBegin, atStmt, twice, forgotten, calls>>

\* The records that pager_playback writes back: nothing leads to the call of
\* pager_reload_cache that should restore the pages of the others.
Playable(g) == SubSeq(g.journal, 1, g.counted)

\* What then stays as it is: the page of a record that is not counted, if it has
\* been written to the file nevertheless, or if it stays in the cache.
StaysChanged(cursor) ==
    Uncounted(pager) \cap (early \cup IF cursor THEN DOMAIN pager.cache ELSE {})

\* sqlite3pager_rollback.  If the file has been written, the journal goes back
\* to the file and to the cache (pager_playback), if not, the dirty pages of the
\* cache are read again (pager_reload_cache).  If no cursor is open page 1 is
\* given back as well, which empties the cache (unlockBtreeIfUnused).
RollbackTrans ==
    /\ InTrans
    /\ \E cursor \in BOOLEAN :
          LET back == pager.state = "exclusive"
              recs == Playable(pager)
              restored == [p \in 1..pager.origDbSize |->
                             IF back /\ p \in Recorded(recs) THEN RecordOf(recs, p) ELSE InFile(p)]
              old(p) == IF p <= pager.origDbSize THEN restored[p] ELSE Zeros
              goesBack(p) == IF back THEN p \in Recorded(recs) ELSE pager.cache[p].dirty
              lost == IF back THEN StaysChanged(cursor)
                      ELSE IF cursor THEN dropped \cap DOMAIN pager.cache ELSE {}
          IN  /\ dbFile' = restored
              /\ pager' = Ended(IF cursor
                                THEN [p \in DOMAIN pager.cache |->
                                        IF goesBack(p)
                                        THEN [pager.cache[p] EXCEPT !.content = old(p)]
                                        ELSE pager.cache[p]]
                                ELSE [p \in {1} |-> Entry(restored[1], FALSE)],
                                pager.origDbSize)
              /\ forgotten' = IF lost \cap Holding(atBegin) = {} THEN forgotten
                           ELSE forgotten \cup {IF back THEN "not counted" ELSE "cache stale"}
    /\ used' = atBegin.used
    /\ trunks' = atBegin.trunks
    /\ dropped' = {}
    /\ inStmt' = {}
    /\ early' = {}
    /\ UNCHANGED <<atBegin, atStmt, twice, calls>>

BeginStmt ==
    /\ InTrans
    /\ ~pager.stmt.inUse
    /\ pager' = [pager EXCEPT !.stmt = [inUse |-> TRUE, size |-> pager.dbSize,
                                        skip |-> Len(pager.journal),
                                        saved |-> <<>>, marked |-> {}]]
    /\ atStmt' = Book
    /\ inStmt' = {}
    /\ UNCHANGED <<dbFile, used, trunks, atBegin, dropped, early, twice, forgotten, calls>>

CommitStmt ==
    /\ pager.stmt.inUse
    /\ pager' = [pager EXCEPT !.stmt = NoStmt]
    /\ inStmt' = {}
    /\ UNCHANGED <<dbFile, used, trunks, atBegin, atStmt, dropped, early, twice, forgotten, calls>>

\* pager_stmt_playback: the file gets the old size back, and what the statement
\* has saved goes back to the cache, and to the file if that has been written:
\* at once, without a flush of the journal.  Pages that are not saved are not
\* touched, those beyond the old end included.
RollbackStmt ==
    /\ pager.stmt.inUse
    /\ LET s == pager.stmt
           recs == s.saved \o SubSeq(pager.journal, s.skip + 1, Len(pager.journal))
           back == pager.state = "exclusive"
       IN  /\ dbFile' = [p \in 1..s.size |->
                         IF back /\ p \in Recorded(recs) THEN RecordOf(recs, p) ELSE InFile(p)]
           /\ pager' = [pager EXCEPT
                !.stmt = NoStmt,
                !.dbSize = s.size,
                !.cache = [p \in DOMAIN pager.cache |->
                             IF p \in Recorded(recs)
                             THEN [pager.cache[p] EXCEPT !.content = RecordOf(recs, p),
                                                         !.dirty = ~back /\ pager.cache[p].dirty,
                                                         !.needSync = ~back /\ pager.cache[p].needSync]
                             ELSE pager.cache[p]]]
           /\ early' = IF back THEN early \cup (Recorded(recs) \cap Uncounted(pager)) ELSE early
           /\ forgotten' = forgotten
                \cup (IF inStmt \cap Holding(atStmt) = {} THEN {} ELSE {"not dirty"})
                \cup (IF DOMAIN pager.cache \subseteq 1..s.size THEN {} ELSE {"not new"})
    /\ used' = atStmt.used
    /\ trunks' = atStmt.trunks
    /\ inStmt' = {}
    /\ UNCHANGED <<atBegin, atStmt, dropped, twice, calls>>

FreePagesNext ==
    \/ ChangeRow \/ Allocate \/ Free \/ MakeRoom
    \/ BeginTrans \/ CommitTrans \/ RollbackTrans
    \/ BeginStmt \/ CommitStmt \/ RollbackStmt

FreePagesSpec == FreePagesInit /\ [][FreePagesNext]_freePagesVars

-----------------------------------------------------------------------------
\* Every page in use holds what was written to it last and has not been rolled
\* back, wherever the cache, dont_write, dont_rollback and the rollbacks have
\* moved it.
RowsKept(c, book) == \A p \in DOMAIN book.used : c[p].row = book.used[p]

\* A list of free pages: from page 1 the links lead along the trunks to 0, the
\* list has as many pages as page 1 says, each of them once and none of them in
\* use, and no trunk is overfull (see checkList).
Distinct(s) == \A i, j \in 1..Len(s) : s[i] = s[j] => i = j
Link(t, i) == IF i = 0 THEN 0 ELSE t[i]
LeavesOf(c, t, i) == Items(c[t[i]].leaves)
FreeIn(c, t) == Items(t) \cup UNION {LeavesOf(c, t, i) : i \in 1..Len(t)}
IsTrunk(c, t, i) ==
    /\ c[t[i]].next = Link(t, i - 1)
    /\ Len(c[t[i]].leaves) <= TrunkCapacity
    /\ Distinct(c[t[i]].leaves)
    /\ LeavesOf(c, t, i) \cap Items(t) = {}
    /\ \A j \in 1..Len(t) : j # i => LeavesOf(c, t, i) \cap LeavesOf(c, t, j) = {}
Chain(c, t) ==
    /\ c[1].next = Link(t, Len(t))
    /\ c[1].free = Cardinality(FreeIn(c, t))
    /\ Distinct(t)
    /\ \A i \in 1..Len(t) : IsTrunk(c, t, i)
IsList(c, book, size) ==
    /\ Chain(c, book.trunks)
    /\ FreeIn(c, book.trunks) \subseteq (2..size) \ DOMAIN book.used

Now == [p \in PageNumbers |-> Content(pager, p)]
Intact == RowsKept(Now, Book)
ListSound == IsList(Now, Book, pager.dbSize)

\* No page has two owners.
OneOwner == twice = {}

\* The three hold but after a rollback that forgets something: one that takes
\* back a call that had dropped changes of a page, of a statement or with the
\* pages still cached; one of a statement that had extended the file; and one of
\* a transaction whose journal has records that no header counts, of pages that
\* a cursor keeps in the cache or that the rollback of a statement has written.
IntactOtherwise == forgotten = {} => Intact
ListSoundOtherwise == forgotten = {} => ListSound
OneOwnerOtherwise == forgotten = {} => OneOwner

\* Once a transaction is committed the file alone has what it wrote, less what
\* the statements that were rolled back did: "the effect of that one statement
\* can be rolled back" (sqlite3BtreeBeginStmt).
OnFile ==
    pager.state = "shared" =>
        \A p \in DOMAIN used : p <= Len(dbFile) /\ dbFile[p].row = used[p]

=============================================================================
