------------------------------ MODULE PagesProofs ------------------------------
EXTENDS Pager, SequenceTheorems, FiniteSetTheorems, TLAPS

\* From BEGIN, or the discovery of a journal, to the deletion of the journal; and
\* the part of that in which the transaction still goes on.
Underway == InTransaction \/ state = "synced"
Live == Underway /\ job # "playback"

\* What there is, by Pager.state and by what is being done.
Places ==
    /\ state = "unlock" => cache = <<>> /\ unread = {} /\ stmt = Absent /\ ~dirtyCache /\ job = "ready"
    /\ state = "shared" => journal = Absent /\ stmt = Absent /\ ~dirtyCache
    /\ Underway => journal # Absent
    /\ state = "synced" <=> job = "delete"
    /\ job \in {"flush", "playback"} => state = "exclusive"
    /\ job \in {"sync", "count", "append"} => InTransaction
    /\ job = "write" => state # "unlock" /\ (want = 0 \/ want > dbSize => InTransaction)

\* Which pages are in the cache, by what is being done.
Present ==
    /\ Live => 1 \in DOMAIN cache
    /\ job = "append" => want \in DOMAIN cache
    /\ job \in {"sync", "count", "write"} /\ want # 0 => want \notin DOMAIN cache

\* The file, the journals and the sizes they were started with.
Sizes ==
    /\ journal = Absent => settled.recs = 0
    /\ journal # Absent => /\ settled.recs <= Len(journal.recs)
                           /\ \A p \in PagesOf(journal.recs) : p <= journal.size
    /\ state = "shared" => dbSize = Len(file)
    /\ Live => journal.valid /\ journal.size <= Len(file) /\ journal.size <= dbSize
    /\ job = "playback" => IF journal.valid THEN Len(file) = journal.size
                          ELSE cache = <<>> /\ unread = {}
    /\ Live /\ stmt # Absent =>
          /\ journal.size <= stmt.size /\ stmt.size <= dbSize
          /\ stmt.skip <= Len(journal.recs)

\* A transaction that has changed nothing.
Unchanged ==
    Live /\ ~dirtyCache =>
        /\ state = "reserved"
        /\ Len(file) = dbSize /\ journal.size = dbSize
        /\ journal.recs = <<>> /\ (stmt # Absent => stmt.saved = <<>>)

\* The flags of the pages.  As long as the file has not been written, every page
\* that a journal has is in the cache, and dirty.
Flags ==
    /\ state = "shared" \/ (Live /\ ~dirtyCache) \/ job \in {"flush", "delete"}
       => \A p \in DOMAIN cache : ~cache[p].dirty
    /\ state = "shared" => \A p \in DOMAIN cache : ~cache[p].needSync
    /\ state = "reserved" =>
          \A p \in PagesOf(journal.recs) \cup (IF stmt = Absent THEN {} ELSE PagesOf(stmt.saved)) :
              p \in DOMAIN cache /\ cache[p].dirty

\* Pages that have left the cache are in the file, and so are the clean ones.
Kept ==
    /\ job = "playback" =>
          \A p \in DOMAIN cache \ unread :
              ~cache[p].dirty /\ p <= Len(file) => cache[p].val = file[p]
    /\ job # "playback" => \A p \in 1..dbSize : p \in DOMAIN cache \/ p <= Len(file)
    /\ state = "shared" => \A p \in unread : p <= Len(file)
    /\ Underway => \A p \in unread : p <= journal.size
    /\ CleanIsStoredOtherwise

PagerInv == PagerTypeOK /\ Places /\ Present /\ Sizes /\ Unchanged /\ Flags /\ Kept

\* The records as a set, in which no page has two contents.
RecordsOf(recs) == {recs[i] : i \in 1..Len(recs)}
Consistent(recs) == \A r, s \in RecordsOf(recs) : r.page = s.page => r = s

\* Pages with a record that no header counts.
Uncounted == PagesOf(journal.recs) \ PagesOf(Counted)

\* The records of the journals, and the statement in a commit.
Records ==
    /\ journal # Absent => Consistent(journal.recs)
    /\ journal # Absent /\ journal.valid => journal.size <= Len(file)
    /\ Live /\ stmt # Absent =>
          /\ Consistent(StmtRecords)
          /\ \A p \in PagesOf(stmt.saved) : p <= journal.size => p \in PagesOf(journal.recs)
    /\ (job \in {"sync", "count", "write"} /\ want = 0) \/ job \in {"flush", "delete"} => stmt = Absent

\* What has been flushed of the journal, and what the flags say of it.
Flushed ==
    /\ journal # Absent => /\ journal.counted <= settled.recs
                           /\ \A n \in settled.counts : n <= journal.counted
                           /\ settled.valid => journal.valid
    /\ job = "count" => journal.counted = Len(journal.recs) /\ settled.valid
    /\ job = "write" /\ want = 0 => ~needSync
    /\ Live => /\ ~needSync => journal.counted = Len(journal.recs)
               /\ settled.valid /\ job # "count" => settled.counts = {}
               /\ ~settled.valid => journal.counted = 0
               /\ state # "reserved" => settled.valid
               /\ \A p \in Uncounted : \/ p \in DOMAIN cache /\ cache[p].needSync
                                       \/ p \in rash /\ state # "reserved"
    /\ Live => \A p \in DOMAIN cache :
                  /\ cache[p].needSync => needSync
                  /\ cache[p].dirty => cache[p].inJournal /\ (p <= journal.size => p \in PagesOf(journal.recs))
                  /\ journal.size < p /\ cache[p].inJournal /\ ~cache[p].needSync => settled.valid
    /\ state = "shared" => \A p \in DOMAIN cache : ~cache[p].inJournal

\* The records and the file.
Original ==
    /\ rash # {} => journal # Absent
    /\ Live /\ rash = {} => \A p \in Uncounted : ValueIn(journal.recs, p) = file[p]
    /\ state = "reserved" /\ unread = {} =>
          \A p \in PagesOf(journal.recs) : ValueIn(journal.recs, p) = file[p]
    /\ job # "playback" => replayed = 0
    /\ job = "playback" /\ journal.valid =>
          /\ replayed <= journal.counted
          /\ \A i \in 1..replayed : file[journal.recs[i].page] = journal.recs[i].val

\* The records that the journal is left with, whatever of its counts is on the
\* disk; a page that a power failure does not change.
Counts == settled.counts \cup {journal.counted}
Protected(p) == settled.valid /\ \A n \in Counts : p \in PagesOf(SubSeq(journal.recs, 1, n))
Untouched(p) == /\ p \in PagesOf(Counted) => file[p] = ValueIn(journal.recs, p)
                /\ ~loose => stale[p] \subseteq {file[p]}
Certain ==
    /\ ~loose /\ (journal = Absent \/ state \in {"reserved", "synced"}) => \A p \in Pages : stale[p] = {}
    /\ journal # Absent /\ ~journal.valid => \A p \in Pages : stale[p] = {}
    /\ Live /\ ~loose => \A p \in 1..journal.size : p \in PagesOf(journal.recs) \/ stale[p] = {}
    /\ journal # Absent /\ journal.valid /\ rash = {} =>
          \A p \in 1..journal.size : Protected(p) \/ Untouched(p)

\* The inductive invariant: all of the above is needed for the next step, since the
\* file alone does not say what a power failure leaves of it.
PagerIInv == PagerInv /\ Records /\ Flushed /\ Original /\ Certain

-----------------------------------------------------------------------------
USE PagerAssumption

LEMMA Numbers ==
    /\ MaxPages \in Nat /\ MaxWrites \in Nat /\ MaxCrashes \in Nat
    /\ \A p : p \in Pages <=> p \in Nat /\ 1 <= p /\ p <= MaxPages
BY DEF Pages

\* The file and the sizes, in full.
LEMMA FileType ==
    ASSUME PagerTypeOK
    PROVE  /\ file \in Seq(Values) /\ Len(file) \in Pages /\ Len(file) \in Nat
           /\ dbSize \in Nat /\ want \in Nat /\ replayed \in Nat
           /\ DOMAIN cache \subseteq Pages /\ unread \subseteq Pages
           /\ DOMAIN cache \subseteq Nat /\ unread \subseteq Nat
           /\ cache \in [DOMAIN cache -> Cached]
<1>1. /\ file \in Seq(Values) /\ Len(file) \in Pages
      /\ DOMAIN cache \subseteq Pages /\ unread \subseteq Pages
      /\ cache \in [DOMAIN cache -> Cached]
  BY DEF PagerTypeOK
<1>2. dbSize \in 0..MaxPages /\ want \in 0..MaxPages /\ replayed \in Nat
  BY DEF PagerTypeOK
<1>3. dbSize \in Nat /\ want \in Nat
  BY <1>2, Numbers
<1>4. QED
  BY <1>1, <1>2, <1>3, Numbers

LEMMA SeqOfFunction ==
    ASSUME NEW S, NEW n \in Nat, NEW f \in [1..n -> S]
    PROVE  f \in Seq(S) /\ Len(f) = n /\ DOMAIN f = 1..n
OBVIOUS

LEMMA TruncatedFacts ==
    ASSUME NEW f \in Seq(Values), NEW n \in Nat
    PROVE  /\ Truncated(f, n) \in Seq(Values)
           /\ Len(Truncated(f, n)) = n
           /\ \A p \in 1..n : Truncated(f, n)[p] = IF p <= Len(f) THEN f[p] ELSE Blank
<1>1. Truncated(f, n) \in [1..n -> Values]
  BY DEF Truncated
<1>2. QED
  BY <1>1, SeqOfFunction DEF Truncated

LEMMA PutFacts ==
    ASSUME NEW f \in Seq(Values), NEW p \in Nat \ {0}, NEW v \in Values
    PROVE  /\ Put(f, p, v) \in Seq(Values)
           /\ p > Len(f) => Len(Put(f, p, v)) = p
           /\ p <= Len(f) => Len(Put(f, p, v)) = Len(f)
           /\ Put(f, p, v)[p] = v
           /\ \A q \in 1..Len(f) : q # p => Put(f, p, v)[q] = f[q]
<1> DEFINE n == IF p > Len(f) THEN p ELSE Len(f)
<1>1. n \in Nat /\ p \in 1..n /\ 1..Len(f) \subseteq 1..n
  OBVIOUS
<1>2. Truncated(f, n) \in [1..n -> Values]
  BY <1>1 DEF Truncated
<1>3. Put(f, p, v) = [Truncated(f, n) EXCEPT ![p] = v]
  BY DEF Put
<1> HIDE DEF n
<1>4. Put(f, p, v) \in [1..n -> Values]
  BY <1>1, <1>2, <1>3
<1>5. Put(f, p, v) \in Seq(Values) /\ Len(Put(f, p, v)) = n
  BY <1>1, <1>4, SeqOfFunction
<1>6. \A q \in 1..Len(f) : Truncated(f, n)[q] = f[q]
  BY <1>1 DEF Truncated
<1>7. QED
  BY <1>1, <1>2, <1>3, <1>5, <1>6 DEF n

\* A page of the cache is written to the file.
LEMMA PutValue ==
    ASSUME file \in Seq(Values), NEW p \in Nat \ {0}, cache[p].val \in Values
    PROVE  /\ Put(file, p, cache[p].val) \in Seq(Values)
           /\ p > Len(file) => Len(Put(file, p, cache[p].val)) = p
           /\ p <= Len(file) => Len(Put(file, p, cache[p].val)) = Len(file)
           /\ Put(file, p, cache[p].val)[p] = cache[p].val
           /\ \A q \in 1..Len(file) : q # p => Put(file, p, cache[p].val)[q] = file[q]
<1> DEFINE v == cache[p].val
<1>1. v \in Values
  OBVIOUS
<1> HIDE DEF v
<1>2. Put(file, p, v) \in Seq(Values)
  BY <1>1, PutFacts
<1>5. p > Len(file) => Len(Put(file, p, v)) = p
  BY <1>1, PutFacts
<1>6. p <= Len(file) => Len(Put(file, p, v)) = Len(file)
  BY <1>1, PutFacts
<1>3. Put(file, p, v)[p] = v
  BY <1>1, PutFacts
<1>4. \A q \in 1..Len(file) : q # p => Put(file, p, v)[q] = file[q]
  BY <1>1, PutFacts
<1>7. QED
  BY <1>2, <1>3, <1>4, <1>5, <1>6 DEF v

LEMMA RecordFacts ==
    ASSUME NEW recs \in Seq(Record)
    PROVE  /\ PagesOf(recs) \subseteq Pages
           /\ \A p \in PagesOf(recs) : ValueIn(recs, p) \in Values
<1>1. \A i \in 1..Len(recs) : recs[i] \in Record
  OBVIOUS
<1>2. PagesOf(recs) \subseteq Pages
  BY <1>1 DEF PagesOf, Record
<1>3. ASSUME NEW p \in PagesOf(recs)
      PROVE  ValueIn(recs, p) \in Values
  <2>1. \E i \in 1..Len(recs) : recs[i].page = p
    BY DEF PagesOf
  <2>2. (CHOOSE i \in 1..Len(recs) : recs[i].page = p) \in 1..Len(recs)
    BY <2>1
  <2>3. QED
    BY <2>2, <1>1 DEF ValueIn, Record
<1>4. QED
  BY <1>2, <1>3


LEMMA ReadType ==
    ASSUME NEW f \in Seq(Values), NEW p \in Nat \ {0}
    PROVE  Read(f, p) \in Cached
BY DEF Read, Cached

LEMMA LoadedType ==
    ASSUME PagerTypeOK, NEW f \in Seq(Values), NEW p \in Pages, NEW v \in Pages \cup {0}
    PROVE  /\ DOMAIN Loaded(f, p, v) = (DOMAIN cache \cup {p}) \ {v}
           /\ Loaded(f, p, v) \in [DOMAIN Loaded(f, p, v) -> Cached]
<1>1. p \in Nat \ {0} /\ (IF p > dbSize THEN <<>> ELSE f) \in Seq(Values)
  BY Numbers
<1>2. Read(IF p > dbSize THEN <<>> ELSE f, p) \in Cached
  BY <1>1, ReadType
<1>3. \A b \in BOOLEAN : [Read(IF p > dbSize THEN <<>> ELSE f, p) EXCEPT !.inJournal = b] \in Cached
  BY <1>2 DEF Cached
<1>4. (InTransaction /\ p \in PagesOf(journal.recs)) \in BOOLEAN
  OBVIOUS
<1>5. QED
  BY <1>3, <1>4 DEF Loaded, PagerTypeOK

LEMMA ReloadedType ==
    ASSUME PagerTypeOK, NEW f \in Seq(Values), NEW size \in Nat
    PROVE  /\ DOMAIN Reloaded(f, size) = DOMAIN cache
           /\ Reloaded(f, size) \in [DOMAIN cache -> Cached]
<1>1. ASSUME NEW p \in DOMAIN cache
      PROVE  Read(IF p > size THEN <<>> ELSE f, p) \in Cached
  <2>1. p \in Nat \ {0} /\ (IF p > size THEN <<>> ELSE f) \in Seq(Values)
    BY Numbers DEF PagerTypeOK
  <2>2. QED
    BY <2>1, ReadType
<1>3. QED
  BY <1>1 DEF Reloaded, PagerTypeOK

\* A journal that is there, in full.
LEMMA JournalType ==
    ASSUME PagerTypeOK, journal # Absent
    PROVE  /\ journal \in JournalFiles
           /\ journal.size \in Pages
           /\ journal.recs \in Seq(Record)
           /\ journal.counted \in 0..Len(journal.recs)
BY DEF PagerTypeOK, JournalFiles

LEMMA JournalNumbers ==
    ASSUME PagerTypeOK, journal # Absent
    PROVE  /\ journal.size \in Pages /\ journal.size \in Nat /\ 1 <= journal.size
           /\ journal.recs \in Seq(Record) /\ Len(journal.recs) \in Nat
           /\ journal.counted \in Nat /\ journal.counted <= Len(journal.recs)
           /\ settled.recs \in Nat
<1>1. /\ journal.size \in Pages /\ journal.recs \in Seq(Record)
      /\ journal.counted \in 0..Len(journal.recs)
  BY JournalType
<1>2. settled.recs \in Nat
  BY DEF PagerTypeOK
<1>3. QED
  BY <1>1, <1>2, Numbers

\* The file cut back to the size the journal has, or filled up to it.
LEMMA CutFile ==
    ASSUME PagerTypeOK, journal # Absent
    PROVE  /\ Truncated(file, journal.size) \in Seq(Values)
           /\ Len(Truncated(file, journal.size)) \in Pages
<1> DEFINE n == journal.size
<1>1. n \in Pages /\ n \in Nat
  BY JournalNumbers
<1>2. file \in Seq(Values)
  BY FileType
<1> HIDE DEF n
<1>3. Truncated(file, n) \in Seq(Values) /\ Len(Truncated(file, n)) = n
  BY <1>1, <1>2, TruncatedFacts
<1>4. QED
  BY <1>1, <1>3 DEF n

LEMMA StmtType ==
    ASSUME PagerTypeOK, stmt # Absent
    PROVE  /\ stmt \in [size : Pages, skip : Nat, saved : Seq(Record)]
           /\ stmt.size \in Pages /\ stmt.skip \in Nat /\ stmt.saved \in Seq(Record)
BY DEF PagerTypeOK

LEMMA EndTransactionType ==
    ASSUME PagerTypeOK,
           NEW f \in Seq(Values), Len(f) \in Pages,
           NEW c, DOMAIN c \subseteq Pages, c \in [DOMAIN c -> Cached],
           EndTransaction(f, c),
           stale' \in [Pages -> SUBSET Values], full' \in BOOLEAN, loose' \in BOOLEAN,
           unread' \subseteq Pages
    PROVE  PagerTypeOK'
<1>1. DOMAIN cache' = DOMAIN c /\ cache' \in [DOMAIN c -> Cached]
  BY DEF EndTransaction, Cached
<1>2. settled' \in [valid : BOOLEAN, recs : Nat, counts : SUBSET Nat]
  BY DEF EndTransaction, NothingSettled
<1>3. {needSync, dirtyCache, full, loose}' \subseteq BOOLEAN
  BY Zenon DEF EndTransaction, PagerTypeOK
<1>4. dbSize' \in 0..MaxPages /\ want' \in 0..MaxPages /\ replayed' \in Nat
  <2>1. dbSize' = Len(f) /\ want' = 0 /\ replayed' = 0
    BY DEF EndTransaction
  <2>2. 0 \in 0..MaxPages /\ Len(f) \in 0..MaxPages
    BY Numbers
  <2>3. QED
    BY <2>1, <2>2
<1>5. file' \in Seq(Values) /\ Len(file') \in Pages /\ UNCHANGED <<writes, crashes>>
  BY DEF EndTransaction, bounds
<1>6. journal' = Absent /\ stmt' = Absent /\ rash' = {} /\ state' = "shared" /\ job' = "ready"
  BY DEF EndTransaction
<1>7. QED
  BY <1>1, <1>2, <1>3, <1>4, <1>5, <1>6 DEF PagerTypeOK

LEMMA UndoType ==
    ASSUME PagerTypeOK, Undo, dirtyCache => journal # Absent, full' \in BOOLEAN
    PROVE  PagerTypeOK'
<1>1. CASE ~dirtyCache
  BY <1>1, EndTransactionType DEF Undo, PagerTypeOK
<1>2. CASE dirtyCache /\ state = "reserved"
  <2>1. /\ Truncated(file, journal.size) \in Seq(Values)
        /\ Len(Truncated(file, journal.size)) \in Pages
    BY <1>2, CutFile DEF Undo
  <2>2. /\ DOMAIN Reloaded(file, journal.size) \subseteq Pages
        /\ Reloaded(file, journal.size) \in [DOMAIN Reloaded(file, journal.size) -> Cached]
    BY <1>2, JournalType, ReloadedType, Numbers DEF PagerTypeOK
  <2>3. QED
    BY <1>2, <2>1, <2>2, EndTransactionType DEF Undo, PagerTypeOK
<1>3. CASE dirtyCache /\ state # "reserved"
  <2>1. /\ Truncated(file, journal.size) \in Seq(Values)
        /\ Len(Truncated(file, journal.size)) \in Pages
    BY <1>3, CutFile DEF Undo
  <2>2. QED
    BY <1>3, <2>1 DEF Undo, PagerTypeOK, memory, bounds
<1>4. QED
  BY <1>1, <1>2, <1>3


LEMMA ChangeType ==
    ASSUME PagerTypeOK, journal # Absent, writes < MaxWrites,
           NEW p \in DOMAIN cache, NEW v \in Values, Change(p, v)
    PROVE  /\ journal' \in JournalFiles /\ journal'.counted <= Len(journal'.recs)
           /\ stmt' = Absent \/ stmt' \in [size : Pages, skip : Nat, saved : Seq(Record)]
           /\ DOMAIN cache' = DOMAIN cache /\ cache' \in [DOMAIN cache -> Cached]
           /\ needSync' \in BOOLEAN /\ dirtyCache' = TRUE
           /\ dbSize' \in 0..MaxPages
           /\ writes' \in 0..MaxWrites
           /\ rash' \subseteq Pages
<1> DEFINE old == [page |-> p, val |-> cache[p].val]
           flag == CASE p <= journal.size /\ p \notin PagesOf(journal.recs) -> TRUE
                     [] p > journal.size /\ ~cache[p].inJournal -> ~settled.valid
                     [] OTHER -> cache[p].needSync
<1>1. p \in Pages /\ old \in Record /\ cache[p] \in Cached
  BY DEF PagerTypeOK, Record, Cached
<1>2. journal' = journal \/ journal' = [journal EXCEPT !.recs = Append(@, old)]
  BY DEF Change
<1>3. stmt' = stmt \/ (stmt # Absent /\ stmt' = [stmt EXCEPT !.saved = Append(@, old)])
  BY DEF Change
<1>4. cache' = [cache EXCEPT ![p] = [val |-> v, dirty |-> TRUE, needSync |-> flag, inJournal |-> TRUE]]
  BY DEF Change
<1>5. flag \in BOOLEAN
  BY <1>1, Zenon DEF PagerTypeOK, Cached
<1> HIDE DEF old, flag
<1>6. journal' \in JournalFiles /\ journal'.counted <= Len(journal'.recs)
  <2>1. Append(journal.recs, old) \in Seq(Record) /\ Len(Append(journal.recs, old)) = Len(journal.recs) + 1
    BY <1>1, JournalType, AppendProperties
  <2>2. [journal EXCEPT !.recs = Append(@, old)] \in JournalFiles
    BY <2>1, JournalType DEF JournalFiles
  <2>3. /\ [journal EXCEPT !.recs = Append(@, old)].counted = journal.counted
        /\ [journal EXCEPT !.recs = Append(@, old)].recs = Append(journal.recs, old)
    BY JournalType DEF JournalFiles
  <2>4. CASE journal' = journal
    BY <2>4, JournalType
  <2>5. CASE journal' = [journal EXCEPT !.recs = Append(@, old)]
    BY <2>1, <2>2, <2>3, <2>5, JournalType
  <2>6. QED
    BY <1>2, <2>4, <2>5
<1>7. stmt' = Absent \/ stmt' \in [size : Pages, skip : Nat, saved : Seq(Record)]
  <2>1. CASE stmt' = stmt
    BY <2>1 DEF PagerTypeOK
  <2>2. CASE stmt # Absent /\ stmt' = [stmt EXCEPT !.saved = Append(@, old)]
    <3>1. stmt.saved \in Seq(Record)
      BY <2>2, StmtType
    <3>2. Append(stmt.saved, old) \in Seq(Record)
      BY <1>1, <3>1, AppendProperties
    <3>3. QED
      BY <2>2, <3>2, StmtType
  <2>3. QED
    BY <1>3, <2>1, <2>2
<1>8. DOMAIN cache' = DOMAIN cache /\ cache' \in [DOMAIN cache -> Cached]
  BY <1>4, <1>5 DEF PagerTypeOK, Cached
<1>9. needSync' \in BOOLEAN /\ dirtyCache' = TRUE
  BY Zenon DEF Change
<1>10. dbSize' \in 0..MaxPages
  BY <1>1, Numbers DEF Change, PagerTypeOK
<1>11. writes' \in 0..MaxWrites
  <2>1. writes' = writes + 1
    BY DEF Change
  <2>2. QED
    BY <2>1, FileType, Numbers DEF PagerTypeOK
<1>12. rash' \subseteq Pages
  BY DEF Change, PagerTypeOK
<1>13. QED
  BY <1>6, <1>7, <1>8, <1>9, <1>10, <1>11, <1>12

LEMMA OverwrittenType ==
    ASSUME PagerTypeOK, NEW pages
    PROVE  Overwritten(pages) \in [Pages -> SUBSET Values]
<1>1. ASSUME NEW p \in Pages
      PROVE  (IF p \in pages THEN stale[p] \cup {IF p <= Len(file) THEN file[p] ELSE Blank}
              ELSE stale[p]) \in SUBSET Values
  <2>1. (IF p <= Len(file) THEN file[p] ELSE Blank) \in Values /\ stale[p] \subseteq Values
    BY Numbers DEF PagerTypeOK
  <2>2. QED
    BY <2>1
<1>2. QED
  BY <1>1 DEF Overwritten

\* A page is written to the file.
LEMMA PutType ==
    ASSUME PagerTypeOK, NEW p \in Pages, NEW v \in Values
    PROVE  /\ Put(file, p, v) \in Seq(Values)
           /\ Len(Put(file, p, v)) \in Pages
           /\ Len(Put(file, p, v)) >= Len(file) /\ Len(Put(file, p, v)) >= p
<1>1. p \in Nat \ {0} /\ file \in Seq(Values) /\ Len(file) \in Pages /\ Len(file) \in Nat
  BY Numbers DEF PagerTypeOK
<1>2. /\ Put(file, p, v) \in Seq(Values)
      /\ p > Len(file) => Len(Put(file, p, v)) = p
      /\ p <= Len(file) => Len(Put(file, p, v)) = Len(file)
  BY <1>1, PutFacts
<1>3. QED
  BY <1>1, <1>2

LEMMA PutAt ==
    ASSUME PagerTypeOK, NEW p \in Nat \ {0}, NEW v \in Values
    PROVE  /\ Put(file, p, v)[p] = v
           /\ \A q \in 1..Len(file) : q # p => Put(file, p, v)[q] = file[q]
<1> DEFINE f == Put(file, p, v)
<1>1. file \in Seq(Values)
  BY DEF PagerTypeOK
<1>2. f[p] = v
  BY <1>1, PutFacts
<1>3. \A q \in 1..Len(file) : q # p => f[q] = file[q]
  BY <1>1, PutFacts
<1>4. QED
  BY <1>2, <1>3

\* What the rollback of a statement writes back.
LEMMA StmtRecordsType ==
    ASSUME PagerTypeOK, stmt # Absent, journal # Absent, stmt.skip <= Len(journal.recs)
    PROVE  /\ StmtRecords \in Seq(Record)
           /\ PagesOf(StmtRecords) \subseteq PagesOf(stmt.saved) \cup PagesOf(journal.recs)
<1> DEFINE recs == journal.recs
           saved == stmt.saved
           m == stmt.skip + 1
           added == SubSeq(recs, m, Len(recs))
<1>1. /\ recs \in Seq(Record) /\ saved \in Seq(Record) /\ stmt.skip \in Nat
      /\ Len(recs) \in Nat /\ m \in Int /\ 1 <= m
  BY JournalType, StmtType
<1>2. StmtRecords = saved \o added
  BY DEF StmtRecords
<1>3. PagesOf(stmt.saved) = PagesOf(saved) /\ PagesOf(journal.recs) = PagesOf(recs)
  OBVIOUS
<1> HIDE DEF recs, saved, m
<1>4. \A i \in m..Len(recs) : recs[i] \in Record
  BY <1>1
<1>5. /\ added \in Seq(Record)
      /\ Len(added) = IF m <= Len(recs) THEN Len(recs) - m + 1 ELSE 0
      /\ \A i \in 1..Len(recs) - m + 1 : added[i] = recs[m + i - 1]
  BY <1>1, <1>4, SubSeqProperties
<1>6. PagesOf(added) \subseteq PagesOf(recs)
  BY <1>1, <1>5 DEF PagesOf
<1> HIDE DEF added
<1>7. /\ saved \o added \in Seq(Record)
      /\ Len(saved \o added) = Len(saved) + Len(added)
      /\ \A i \in 1..Len(saved) + Len(added) :
             (saved \o added)[i] = IF i <= Len(saved) THEN saved[i] ELSE added[i - Len(saved)]
  <2>1. saved \in Seq(Record) /\ added \in Seq(Record)
    BY <1>1, <1>5
  <2> HIDE <1>1, <1>4, <1>5
  <2>2. QED
    BY <2>1, ConcatProperties
<1>8. PagesOf(saved \o added) \subseteq PagesOf(saved) \cup PagesOf(added)
  <2>1. ASSUME NEW i \in 1..Len(saved) + Len(added)
        PROVE  (saved \o added)[i].page \in PagesOf(saved) \cup PagesOf(added)
    <3>1. CASE i <= Len(saved)
      BY <1>7, <3>1, i \in 1..Len(saved) DEF PagesOf
    <3>2. CASE i > Len(saved)
      <4>1. i - Len(saved) \in 1..Len(added)
        BY <1>1, <1>5, <3>2
      <4>2. QED
        BY <1>1, <1>5, <1>7, <3>2, <4>1, (saved \o added)[i] = added[i - Len(saved)] DEF PagesOf
    <3>3. QED
      BY <1>1, <3>1, <3>2
  <2>2. QED
    BY <1>7, <2>1 DEF PagesOf
<1>9. QED
  BY <1>2, <1>3, <1>6, <1>7, <1>8

\* The end of the process: whatever it leaves on the disk.
LEMMA GoneType ==
    ASSUME PagerTypeOK, Gone,
           file' \in Seq(Values), Len(file') \in Pages, stale' \in [Pages -> SUBSET Values],
           journal' = Absent \/ (journal' \in JournalFiles /\ journal'.counted <= Len(journal'.recs)),
           settled' \in [valid : BOOLEAN, recs : Nat, counts : SUBSET Nat],
           loose' \in BOOLEAN, rash' = rash
    PROVE  PagerTypeOK'
<1>1. DOMAIN cache' \subseteq Pages /\ cache' \in [DOMAIN cache' -> Cached]
  <2>1. cache' = <<>>
    BY DEF Gone
  <2>2. QED
    BY <2>1
<1>2. crashes' \in 0..MaxCrashes /\ writes' = writes
  <2>1. writes' = writes /\ crashes' = crashes + 1 /\ crashes < MaxCrashes
    BY DEF Gone
  <2>2. crashes \in 0..MaxCrashes
    BY DEF PagerTypeOK
  <2>3. QED
    BY <2>1, <2>2, Numbers
<1>3. {needSync, dirtyCache, full, loose}' \subseteq BOOLEAN
  BY DEF Gone
<1>4. /\ dbSize' = 0 /\ want' = 0 /\ replayed' = 0 /\ unread' = {} /\ stmt' = Absent
      /\ state' = "unlock" /\ job' = "ready"
  BY DEF Gone
<1>5. 0 \in 0..MaxPages
  BY Numbers
<1>6. QED
  BY <1>1, <1>2, <1>3, <1>4, <1>5 DEF PagerTypeOK

\* Every step keeps the types.
LEMMA PagerTypeStep ==
    ASSUME PagerTypeOK, Places, Present, Sizes, PagerNext
    PROVE  PagerTypeOK'
<1> USE DEF disk, memory, bounds
<1>1. CASE Open
  <2>1. file' \in Seq(Values) /\ Len(file') \in Pages
    <3>1. CASE file' = file
      BY <3>1 DEF PagerTypeOK
    <3>2. CASE file' # file
      <4>1. journal # Absent /\ file' = Truncated(file, journal.size)
        BY <1>1, <3>2 DEF Open
      <4>2. QED
        BY <4>1, CutFile
    <3>3. QED
      BY <3>1, <3>2
  <2>2. dbSize' \in 0..MaxPages
    BY <1>1, <2>1, Numbers DEF Open
  <2>3. DOMAIN cache' \subseteq Pages /\ cache' \in [DOMAIN cache' -> Cached]
    <3>1. Read(file, 1) \in Cached /\ 1 \in Pages
      <4>1. file \in Seq(Values) /\ Len(file) \in Pages
        BY DEF PagerTypeOK
      <4>2. 1 \in Pages /\ 1 \in Nat \ {0}
        BY <4>1, Numbers
      <4>3. QED
        BY <4>1, <4>2, ReadType
    <3>2. cache' = cache \/ cache' = [p \in {1} |-> Read(file, 1)]
      BY <1>1 DEF Open
    <3>3. QED
      BY <3>1, <3>2 DEF PagerTypeOK
  <2>4. QED
    BY <1>1, <2>1, <2>2, <2>3 DEF Open, PagerTypeOK
<1>2. CASE Release
  BY <1>2, Numbers DEF Release, PagerTypeOK
<1>3. CASE Begin
  <2>1. journal' \in JournalFiles /\ journal'.counted <= Len(journal'.recs)
    BY <1>3, Numbers DEF Begin, JournalFiles, PagerTypeOK, Sizes
  <2>2. settled' \in [valid : BOOLEAN, recs : Nat, counts : SUBSET Nat]
    <3>1. {0} \in SUBSET Nat
      OBVIOUS
    <3>2. settled' = [valid |-> FALSE, recs |-> 0, counts |-> {0}]
      BY <1>3 DEF Begin, NothingSettled
    <3>3. QED
      BY <3>1, <3>2
  <2>3. QED
    BY <1>3, <2>1, <2>2 DEF Begin, PagerTypeOK
<1>4. CASE Get
  <2>1. PICK p \in Pages :
          /\ want' \in {0, p} /\ job' \in {"append", "ready", "write", "sync"}
          /\ cache' = cache \/ cache' = Loaded(file, p, 0)
    <3>1. 1..Least(dbSize + (IF InTransaction /\ ~full /\ writes < MaxWrites THEN 1 ELSE 0), MaxPages)
            \subseteq Pages
      BY Numbers DEF Least, PagerTypeOK, Pages
    <3>2. QED
      BY <1>4, <3>1 DEF Get, Then
  <2>2. DOMAIN cache' \subseteq Pages /\ cache' \in [DOMAIN cache' -> Cached]
    <3>1. CASE cache' = cache
      BY <3>1 DEF PagerTypeOK
    <3>2. CASE cache' = Loaded(file, p, 0)
      <4>1. /\ DOMAIN Loaded(file, p, 0) = (DOMAIN cache \cup {p}) \ {0}
            /\ Loaded(file, p, 0) \in [DOMAIN Loaded(file, p, 0) -> Cached]
        BY LoadedType DEF PagerTypeOK
      <4>2. QED
        BY <3>2, <4>1 DEF PagerTypeOK
    <3>3. QED
      BY <2>1, <3>1, <3>2
  <2>3. want' \in 0..MaxPages
    BY <2>1, Numbers
  <2>4. QED
    BY <1>4, <2>1, <2>2, <2>3 DEF Get, PagerTypeOK
<1>5. CASE Write
  <2>1. PICK p \in DOMAIN cache, v \in Values : Change(p, v)
    BY <1>5 DEF Write, Present
  <2>2. journal # Absent /\ writes < MaxWrites
    BY <1>5 DEF Write, Places, Underway
  <2>3. want' \in 0..MaxPages
    BY <1>5, Numbers DEF Write
  <2>4. QED
    BY <1>5, <2>1, <2>2, <2>3, ChangeType DEF Write, PagerTypeOK
<1>6. CASE WriteFails
  BY <1>6, UndoType DEF WriteFails, Places, Underway
<1>7. CASE StmtBegin
  <2>1. stmt' \in [size : Pages, skip : Nat, saved : Seq(Record)]
    <3>1. journal # Absent /\ dbSize \in Pages
      <4>1. journal # Absent /\ Live
        BY <1>7 DEF StmtBegin, Places, Underway, Live
      <4>2. journal.size <= dbSize
        BY <4>1 DEF Sizes
      <4>3. journal.size \in Nat /\ 1 <= journal.size /\ dbSize \in 0..MaxPages
        BY <4>1, JournalNumbers DEF PagerTypeOK
      <4>4. QED
        BY <4>1, <4>2, <4>3, Numbers
    <3>2. Len(journal.recs) \in Nat /\ <<>> \in Seq(Record)
      BY <3>1, JournalType
    <3>3. QED
      BY <1>7, <3>1, <3>2 DEF StmtBegin
  <2>2. QED
    BY <1>7, <2>1 DEF StmtBegin, PagerTypeOK
<1>8. CASE StmtCommit
  BY <1>8 DEF StmtCommit, PagerTypeOK
<1>9. CASE StmtRollback
  <2>1. stmt # Absent /\ journal # Absent /\ Live
    BY <1>9 DEF StmtRollback, Places, Underway, Live, InTransaction, PagerTypeOK
  <2>2. StmtRecords \in Seq(Record)
    BY <2>1, StmtRecordsType DEF Sizes
  <2>3. PagesOf(StmtRecords) \subseteq Pages /\ \A p \in PagesOf(StmtRecords) : ValueIn(StmtRecords, p) \in Values
    BY <2>2, RecordFacts
  <2>4. /\ Truncated(file, stmt.size) \in Seq(Values) /\ Len(Truncated(file, stmt.size)) \in Pages
        /\ Truncated(file, stmt.size) \in [1..stmt.size -> Values]
    <3>1. stmt.size \in Pages /\ stmt.size \in Nat /\ file \in Seq(Values)
      BY <2>1, StmtType, Numbers DEF PagerTypeOK
    <3>2. QED
      BY <3>1, TruncatedFacts, ElementOfSeq DEF Truncated
  <2>5. file' \in Seq(Values) /\ Len(file') \in Pages
    <3>1. CASE file' = Truncated(file, stmt.size)
      BY <2>4, <3>1
    <3>2. CASE file' = [p \in 1..stmt.size |-> IF p \in PagesOf(StmtRecords) THEN ValueIn(StmtRecords, p)
                                              ELSE Truncated(file, stmt.size)[p]]
      <4>1. file' \in [1..stmt.size -> Values]
        BY <2>3, <2>4, <3>2
      <4>2. QED
        BY <2>1, <4>1, StmtType, SeqOfFunction, Numbers
    <3>3. QED
      BY <1>9, <3>1, <3>2 DEF StmtRollback
  <2>6. stale' \in [Pages -> SUBSET Values]
    BY <1>9, OverwrittenType DEF StmtRollback, PagerTypeOK
  <2>7. DOMAIN cache' = DOMAIN cache /\ cache' \in [DOMAIN cache -> Cached]
    <3>1. \A p \in PagesOf(StmtRecords) \cap DOMAIN cache :
             [cache[p] EXCEPT !.val = ValueIn(StmtRecords, p)] \in Cached
      BY <2>3 DEF PagerTypeOK, Cached
    <3>2. \A c \in Cached : [c EXCEPT !.dirty = FALSE, !.needSync = FALSE] \in Cached
      BY DEF Cached
    <3>3. QED
      BY <1>9, <3>1, <3>2 DEF StmtRollback, PagerTypeOK
  <2>8. rash' \subseteq Pages
    BY <1>9, <2>3 DEF StmtRollback, PagerTypeOK
  <2>9. dbSize' \in 0..MaxPages
    <3>1. dbSize' = stmt.size /\ stmt.size \in Pages
      BY <1>9, <2>1, StmtType DEF StmtRollback
    <3>2. QED
      BY <3>1, Numbers
  <2>10. QED
    BY <1>9, <2>5, <2>6, <2>7, <2>8, <2>9 DEF StmtRollback, PagerTypeOK
<1>10. CASE Commit
  <2>1. CASE ~dirtyCache
    BY <1>10, <2>1, EndTransactionType DEF Commit, PagerTypeOK
  <2>2. CASE dirtyCache
    <3>1. PICK v \in Values : Change(1, v)
      BY <1>10, <2>2 DEF Commit
    <3>2. journal # Absent /\ writes < MaxWrites /\ 1 \in DOMAIN cache
      BY <1>10, <2>2 DEF Commit, Places, Underway, Present, Live
    <3>3. want' \in 0..MaxPages
      BY <1>10, <2>2, Numbers DEF Commit
    <3>4. QED
      BY <1>10, <2>2, <3>1, <3>2, <3>3, ChangeType DEF Commit, PagerTypeOK
  <2>3. QED
    BY <2>1, <2>2 DEF PagerTypeOK
<1>11. CASE SyncRecords
  <2>1. journal # Absent
    BY <1>11 DEF SyncRecords, Places, Underway
  <2>2. journal' \in JournalFiles /\ journal'.counted <= Len(journal'.recs)
    BY <1>11, <2>1, JournalType DEF SyncRecords, NRec, JournalFiles
  <2>3. settled' \in [valid : BOOLEAN, recs : Nat, counts : SUBSET Nat]
    <3>1. (settled.counts \cup {journal.counted}) \in SUBSET Nat /\ Len(journal.recs) \in Nat
      BY <2>1, JournalNumbers DEF PagerTypeOK
    <3>2. QED
      <4>1. \/ settled' = settled
            \/ settled' = [valid |-> TRUE, recs |-> Len(journal.recs),
                            counts |-> settled.counts \cup {journal.counted}]
        BY <1>11 DEF SyncRecords
      <4>2. QED
        <5>1. CASE settled' = settled
          BY <5>1 DEF PagerTypeOK
        <5>2. CASE settled' = [valid |-> TRUE, recs |-> Len(journal.recs),
                               counts |-> settled.counts \cup {journal.counted}]
          BY <3>1, <5>2
        <5>3. QED
          BY <4>1, <5>1, <5>2
  <2>4. QED
    BY <1>11, <2>2, <2>3 DEF SyncRecords, PagerTypeOK
<1>12. CASE SyncCount
  <2>1. journal # Absent
    BY <1>12 DEF SyncCount, Places, Underway
  <2>2. DOMAIN cache' = DOMAIN cache /\ cache' \in [DOMAIN cache -> Cached]
    BY <1>12 DEF SyncCount, Cached, PagerTypeOK
  <2>3. settled' \in [valid : BOOLEAN, recs : Nat, counts : SUBSET Nat]
    BY <1>12, <2>1, JournalType DEF SyncCount
  <2>4. QED
    BY <1>12, <2>2, <2>3 DEF SyncCount, PagerTypeOK
<1>13. CASE Recycle
  <2>1. PICK v \in Recyclable :
          /\ \/ UNCHANGED <<file, stale, state>>
             \/ file' = Put(file, v, cache[v].val) /\ stale' = Overwritten({v}) /\ state' = "exclusive"
          /\ cache' = Loaded(file', want, v)
    BY <1>13 DEF Recycle
  <2>2. v \in Pages /\ want \in Pages /\ cache[v].val \in Values
    BY <1>13, Numbers DEF Recycle, Recyclable, PagerTypeOK, Cached
  <2>3. file' \in Seq(Values) /\ Len(file') \in Pages
    <3>1. Put(file, v, cache[v].val) \in Seq(Values) /\ Len(Put(file, v, cache[v].val)) \in Pages
      BY <2>2, PutType
    <3>2. QED
      BY <2>1, <3>1 DEF PagerTypeOK
  <2>4. stale' \in [Pages -> SUBSET Values] /\ state' \in {state, "exclusive"}
    BY <2>1, OverwrittenType DEF PagerTypeOK
  <2>5. DOMAIN cache' \subseteq Pages /\ cache' \in [DOMAIN cache' -> Cached]
    <3>1. /\ DOMAIN Loaded(file', want, v) = (DOMAIN cache \cup {want}) \ {v}
          /\ Loaded(file', want, v) \in [DOMAIN Loaded(file', want, v) -> Cached]
      BY <2>2, <2>3, LoadedType
    <3>2. QED
      BY <2>1, <2>2, <3>1 DEF PagerTypeOK
  <2>6. want' \in 0..MaxPages /\ job' \in {"append", "ready"}
    BY <1>13, Numbers DEF Recycle, Then, PagerTypeOK
  <2>7. QED
    BY <1>13, <2>3, <2>4, <2>5, <2>6 DEF Recycle, PagerTypeOK
<1>14. CASE WriteDirty
  <2>1. PICK p \in DOMAIN cache :
          /\ file' = Put(file, p, cache[p].val)
          /\ stale' = Overwritten({p})
          /\ cache' = [cache EXCEPT ![p].dirty = FALSE]
          /\ job' \in {"write", "flush"}
    BY <1>14 DEF WriteDirty
  <2>2. p \in Pages /\ cache[p].val \in Values
    BY DEF PagerTypeOK, Cached
  <2>3. file' \in Seq(Values) /\ Len(file') \in Pages
    BY <2>1, <2>2, PutType DEF PagerTypeOK
  <2>4. stale' \in [Pages -> SUBSET Values]
    BY <2>1, OverwrittenType DEF PagerTypeOK
  <2>5. DOMAIN cache' = DOMAIN cache /\ cache' \in [DOMAIN cache -> Cached]
    BY <2>1 DEF PagerTypeOK, Cached
  <2>6. QED
    BY <1>14, <2>1, <2>3, <2>4, <2>5 DEF WriteDirty, PagerTypeOK
<1>15. CASE Busy
  BY <1>15, UndoType DEF Busy, Places, Underway, InTransaction, PagerTypeOK
<1>16. CASE Flush
  BY <1>16 DEF Flush, PagerTypeOK
<1>17. CASE Delete
  <2>1. unread' \subseteq Pages
    BY <1>17 DEF Delete, PagerTypeOK
  <2>2. QED
    BY <1>17, <2>1, EndTransactionType DEF Delete, PagerTypeOK
<1>18. CASE Rollback
  BY <1>18, UndoType DEF Rollback, Places, Underway, PagerTypeOK
<1>19. CASE Playback
  <2>1. journal # Absent
    BY <1>19 DEF Playback, Places, Underway, InTransaction
  <2>2. CASE journal.valid /\ replayed < journal.counted
    <3> DEFINE r == journal.recs[replayed + 1]
    <3>1. r \in Record
      <4>1. replayed + 1 \in 1..Len(journal.recs)
        <5>1. replayed \in Nat /\ Len(journal.recs) \in Nat /\ journal.counted <= Len(journal.recs)
              /\ journal.counted \in Nat /\ replayed < journal.counted
          BY <2>1, <2>2, JournalNumbers, FileType
        <5>2. QED
          BY <5>1
      <4>2. \A i \in 1..Len(journal.recs) : journal.recs[i] \in Record
        BY <2>1, JournalType
      <4>3. QED
        BY <4>1, <4>2
    <3>2. r.page \in Pages /\ r.val \in Values
      BY <3>1 DEF Record
    <3> HIDE DEF r
    <3>3. /\ file' = Put(file, r.page, r.val)
          /\ stale' = Overwritten({r.page})
          /\ cache' = [p \in DOMAIN cache |->
                         IF p = r.page
                         THEN [cache[p] EXCEPT !.val = r.val, !.dirty = FALSE, !.needSync = FALSE]
                         ELSE cache[p]]
      BY <1>19, <2>2 DEF Playback, r
    <3>4. file' \in Seq(Values) /\ Len(file') \in Pages
      BY <3>2, <3>3, PutType
    <3>5. stale' \in [Pages -> SUBSET Values]
      BY <3>3, OverwrittenType DEF PagerTypeOK
    <3>6. DOMAIN cache' = DOMAIN cache /\ cache' \in [DOMAIN cache -> Cached]
      BY <3>2, <3>3 DEF PagerTypeOK, Cached
    <3>7. replayed' \in Nat
      <4>1. replayed' = replayed + 1
        BY <1>19, <2>2 DEF Playback
      <4>2. QED
        BY <4>1 DEF PagerTypeOK
    <3>8. QED
      BY <1>19, <2>2, <3>4, <3>5, <3>6, <3>7 DEF Playback, PagerTypeOK
  <2>3. CASE ~(journal.valid /\ replayed < journal.counted)
    <3>1. unread' \subseteq Pages /\ loose' \in BOOLEAN
      BY <1>19, <2>3 DEF Playback, PagerTypeOK
    <3>2. QED
      BY <1>19, <2>3, <3>1, EndTransactionType DEF Playback, PagerTypeOK
  <2>4. QED
    BY <2>2, <2>3
<1>20. CASE Crash
  BY <1>20, GoneType DEF Crash, PagerTypeOK
<1>21. CASE PowerLoss
  <2>1. file' \in Seq(Values) /\ Len(file') \in Pages
    <3>1. file' \in [1..Len(file) -> Values] /\ Len(file) \in Nat
      <4>1. file' \in {f \in [1..Len(file) -> Values] :
                            \A p \in 1..Len(file) : f[p] \in stale[p] \cup {file[p]}}
        BY <1>21 DEF PowerLoss
      <4>2. QED
        BY <4>1 DEF PagerTypeOK
    <3>2. QED
      BY <3>1, SeqOfFunction DEF PagerTypeOK
  <2>2. CASE journal = Absent
    BY <1>21, <2>1, <2>2, GoneType DEF PowerLoss, PagerTypeOK
  <2>3. CASE journal # Absent
    <3> DEFINE kept == SubSeq(journal.recs, 1, settled.recs)
    <3>1. PICK valid \in {settled.valid, journal.valid}, n \in settled.counts \cup {journal.counted} :
             journal' = [journal EXCEPT !.valid = valid, !.recs = kept, !.counted = Least(n, Len(kept))]
      BY <1>21, <2>3 DEF PowerLoss
    <3>2. valid \in BOOLEAN /\ n \in Nat
      BY <2>3, JournalType DEF PagerTypeOK, JournalFiles
    <3>3. kept \in Seq(Record) /\ Len(kept) = settled.recs
      <4>1. /\ journal.recs \in Seq(Record) /\ Len(journal.recs) \in Nat
            /\ settled.recs \in Nat /\ settled.recs <= Len(journal.recs)
        BY <2>3, JournalNumbers DEF Sizes
      <4>2. \A i \in 1..settled.recs : journal.recs[i] \in Record
        BY <4>1
      <4>3. QED
        BY <4>1, <4>2, SubSeqProperties
    <3>4. Least(n, Len(kept)) \in Nat /\ Least(n, Len(kept)) <= Len(kept)
      BY <3>2, <3>3 DEF Least
    <3> HIDE DEF kept
    <3>5. /\ journal' \in JournalFiles /\ journal'.recs = kept
          /\ journal'.counted = Least(n, Len(kept)) /\ journal'.valid = valid
      BY <2>3, <3>1, <3>2, <3>3, <3>4, JournalType DEF JournalFiles
    <3>6. settled' \in [valid : BOOLEAN, recs : Nat, counts : SUBSET Nat]
      <4>1. settled' = [valid |-> journal'.valid, recs |-> Len(journal'.recs), counts |-> {}]
        BY <1>21, <2>3 DEF PowerLoss
      <4>2. QED
        BY <3>2, <3>3, <3>5, <4>1
    <3>7. QED
      BY <1>21, <2>1, <3>4, <3>5, <3>6, GoneType DEF PowerLoss, PagerTypeOK
  <2>4. QED
    BY <2>2, <2>3
<1> QED
  BY <1>1, <1>2, <1>3, <1>4, <1>5, <1>6, <1>7, <1>8, <1>9, <1>10, <1>11, <1>12, <1>13, <1>14,
     <1>15, <1>16, <1>17, <1>18, <1>19, <1>20, <1>21 DEF PagerNext

-----------------------------------------------------------------------------
\* The effect of the actions that choose a page.
LEMMA PagesOfAppend ==
    ASSUME NEW recs \in Seq(Record), NEW r \in Record
    PROVE  /\ Append(recs, r) \in Seq(Record)
           /\ Len(Append(recs, r)) = Len(recs) + 1
           /\ PagesOf(Append(recs, r)) = PagesOf(recs) \cup {r.page}
<1>1. /\ Append(recs, r) \in Seq(Record)
      /\ Len(Append(recs, r)) = Len(recs) + 1
      /\ \A i \in 1..Len(recs) : Append(recs, r)[i] = recs[i]
      /\ Append(recs, r)[Len(recs) + 1] = r
  BY AppendProperties
<1>2. Len(recs) \in Nat /\ 1..Len(recs) + 1 = 1..Len(recs) \cup {Len(recs) + 1}
  OBVIOUS
<1>3. QED
  BY <1>1, <1>2 DEF PagesOf

LEMMA ChangeEffect ==
    ASSUME PagerTypeOK, journal # Absent,
           NEW p \in DOMAIN cache, NEW v \in Values, Change(p, v)
    PROVE  /\ journal' # Absent
           /\ journal'.size = journal.size /\ journal'.valid = journal.valid
           /\ journal'.counted = journal.counted
           /\ Len(journal'.recs) >= Len(journal.recs)
           /\ \/ journal' = journal
              \/ p <= journal.size /\ PagesOf(journal'.recs) = PagesOf(journal.recs) \cup {p}
           /\ \/ stmt' = stmt
              \/ /\ stmt # Absent /\ stmt' # Absent /\ p <= stmt.size
                 /\ stmt'.size = stmt.size /\ stmt'.skip = stmt.skip
                 /\ PagesOf(stmt'.saved) = PagesOf(stmt.saved) \cup {p}
           /\ DOMAIN cache' = DOMAIN cache
           /\ cache'[p].dirty /\ cache'[p].val = v
           /\ \A q \in DOMAIN cache : q # p => cache'[q] = cache[q]
           /\ dbSize' = dbSize \/ (p > dbSize /\ dbSize' = p)
           /\ dirtyCache' = TRUE
<1> DEFINE old == [page |-> p, val |-> cache[p].val]
<1>1. old \in Record /\ old.page = p
  BY DEF PagerTypeOK, Record, Cached
<1>2. \/ journal' = journal
      \/ p <= journal.size /\ journal' = [journal EXCEPT !.recs = Append(@, old)]
  BY DEF Change
<1>3. \/ stmt' = stmt
      \/ /\ stmt # Absent /\ p <= stmt.size
         /\ stmt' = [stmt EXCEPT !.saved = Append(@, old)]
  BY DEF Change
<1>4. /\ DOMAIN cache' = DOMAIN cache
      /\ cache'[p].dirty /\ cache'[p].val = v
      /\ \A q \in DOMAIN cache : q # p => cache'[q] = cache[q]
  BY DEF Change, PagerTypeOK
<1>5. dbSize' = dbSize \/ (p > dbSize /\ dbSize' = p)
  BY DEF Change
<1>6. dirtyCache' = TRUE
  BY DEF Change
<1> HIDE DEF old
<1>7. journal \in JournalFiles /\ Len(journal.recs) \in Nat
  BY JournalType
<1>8. /\ journal' # Absent
      /\ journal'.size = journal.size /\ journal'.valid = journal.valid
      /\ journal'.counted = journal.counted
      /\ Len(journal'.recs) >= Len(journal.recs)
      /\ \/ journal' = journal
         \/ p <= journal.size /\ PagesOf(journal'.recs) = PagesOf(journal.recs) \cup {p}
  <2>1. CASE journal' = journal
    BY <1>7, <2>1
  <2>2. CASE p <= journal.size /\ journal' = [journal EXCEPT !.recs = Append(@, old)]
    <3>1. /\ journal'.size = journal.size /\ journal'.valid = journal.valid
          /\ journal'.counted = journal.counted
          /\ journal'.recs = Append(journal.recs, old)
      BY <1>7, <2>2 DEF JournalFiles
    <3>2. journal' # Absent
      BY <3>1, JournalType, Numbers DEF Absent
    <3>3. QED
      BY <1>1, <1>7, <2>2, <3>1, <3>2, JournalType, PagesOfAppend
  <2>3. QED
    BY <1>2, <2>1, <2>2
<1>9. \/ stmt' = stmt
      \/ /\ stmt # Absent /\ stmt' # Absent /\ p <= stmt.size
         /\ stmt'.size = stmt.size /\ stmt'.skip = stmt.skip
         /\ PagesOf(stmt'.saved) = PagesOf(stmt.saved) \cup {p}
  <2>1. ASSUME stmt # Absent, p <= stmt.size, stmt' = [stmt EXCEPT !.saved = Append(@, old)]
        PROVE  /\ stmt' # Absent
               /\ stmt'.size = stmt.size /\ stmt'.skip = stmt.skip
               /\ PagesOf(stmt'.saved) = PagesOf(stmt.saved) \cup {p}
    <3>1. /\ stmt'.size = stmt.size /\ stmt'.skip = stmt.skip
          /\ stmt'.saved = Append(stmt.saved, old)
      BY <2>1, StmtType
    <3>2. stmt' # Absent
      BY <2>1, <3>1, StmtType, Numbers DEF Absent
    <3>3. QED
      BY <1>1, <2>1, <3>1, <3>2, StmtType, PagesOfAppend
  <2>2. QED
    BY <1>3, <2>1
<1>10. QED
  BY <1>4, <1>5, <1>6, <1>8, <1>9

LEMMA GetEffect ==
    ASSUME PagerTypeOK, Get
    PROVE  \E p \in Pages \ DOMAIN cache :
              /\ p <= dbSize \/ (p = dbSize + 1 /\ InTransaction)
              /\ \/ /\ cache' = Loaded(file, p, 0)
                    /\ job' = Then(p)
                    /\ want' = IF p > dbSize THEN p ELSE 0
                 \/ /\ want' = p /\ cache' = cache
                    /\ \/ job' = "write"
                       \/ job' = "sync" /\ \E v \in Recyclable : cache[v].needSync
<1> DEFINE n == dbSize + (IF InTransaction /\ ~full /\ writes < MaxWrites THEN 1 ELSE 0)
<1>1. n \in Nat /\ (n = dbSize \/ (n = dbSize + 1 /\ InTransaction)) /\ dbSize \in Nat
  BY Numbers DEF PagerTypeOK
<1>2. PICK p \in 1..Least(n, MaxPages) \ DOMAIN cache :
          IF Cardinality(DOMAIN cache) < CacheSize \/ Recyclable = {}
          THEN /\ cache' = Loaded(file, p, 0)
               /\ job' = Then(p)
               /\ want' = IF p > dbSize THEN p ELSE 0
          ELSE /\ want' = p
               /\ job' = IF \E v \in Recyclable : ~cache[v].needSync THEN "write" ELSE "sync"
               /\ UNCHANGED cache
  BY DEF Get
<1> HIDE DEF n
<1>3. p \in Pages \ DOMAIN cache /\ p <= n
  BY <1>1, Numbers DEF Least
<1>4. p <= dbSize \/ (p = dbSize + 1 /\ InTransaction)
  BY <1>1, <1>3, Numbers
<1>5. ASSUME Recyclable # {}, ~\E v \in Recyclable : ~cache[v].needSync
      PROVE  \E v \in Recyclable : cache[v].needSync
  BY <1>5
<1>6. QED
  BY <1>2, <1>3, <1>4, <1>5

LEMMA RecycleEffect ==
    ASSUME PagerTypeOK, Present, Recycle
    PROVE  \E v \in Recyclable :
              /\ want \in Pages \ DOMAIN cache /\ v \in Pages \ {1, want}
              /\ \/ UNCHANGED <<file, stale, state>> /\ ~cache[v].dirty
                 \/ /\ cache[v].dirty
                    /\ file' = Put(file, v, cache[v].val)
                    /\ stale' = Overwritten({v})
                    /\ state' = "exclusive"
              /\ cache' = Loaded(file', want, v)
              /\ DOMAIN cache' = (DOMAIN cache \cup {want}) \ {v}
              /\ \A q \in DOMAIN cache \ {v} : cache'[q] = cache[q]
<1>1. PICK v \in Recyclable :
          /\ IF cache[v].dirty
             THEN /\ file' = Put(file, v, cache[v].val)
                  /\ stale' = Overwritten({v})
                  /\ state' = "exclusive"
             ELSE UNCHANGED <<file, stale, state>>
          /\ cache' = Loaded(file', want, v)
  BY DEF Recycle
<1>2. want \in Pages \ DOMAIN cache /\ v \in DOMAIN cache \ {1} /\ v \in Pages
  BY Numbers DEF Recycle, Recyclable, PagerTypeOK, Present
<1>3. DOMAIN cache' = (DOMAIN cache \cup {want}) \ {v}
  BY <1>1 DEF Loaded
<1>4. \A q \in DOMAIN cache \ {v} : cache'[q] = cache[q]
  BY <1>1, <1>2 DEF Loaded
<1>5. QED
  BY <1>1, <1>2, <1>3, <1>4

LEMMA PagesOfSubSeq ==
    ASSUME NEW recs \in Seq(Record), NEW n \in 0..Len(recs)
    PROVE  /\ SubSeq(recs, 1, n) \in Seq(Record)
           /\ Len(SubSeq(recs, 1, n)) = n
           /\ PagesOf(SubSeq(recs, 1, n)) \subseteq PagesOf(recs)
<1>1. n \in Int /\ 1 \in Int /\ \A i \in 1..n : recs[i] \in Record
  OBVIOUS
<1>2. /\ SubSeq(recs, 1, n) \in Seq(Record)
      /\ Len(SubSeq(recs, 1, n)) = IF 1 <= n THEN n - 1 + 1 ELSE 0
      /\ \A i \in 1..n - 1 + 1 : SubSeq(recs, 1, n)[i] = recs[1 + i - 1]
  BY <1>1, SubSeqProperties
<1>3. Len(SubSeq(recs, 1, n)) = n
  BY <1>2
<1>4. \A i \in 1..n : SubSeq(recs, 1, n)[i] = recs[i]
  BY <1>2
<1>5. QED
  BY <1>2, <1>3, <1>4 DEF PagesOf

LEMMA StmtRollbackEffect ==
    ASSUME PagerTypeOK, Places, Sizes, StmtRollback
    PROVE  /\ Live /\ InTransaction /\ stmt # Absent /\ journal # Absent
           /\ StmtRecords \in Seq(Record)
           /\ PagesOf(StmtRecords) \subseteq PagesOf(stmt.saved) \cup PagesOf(journal.recs)
           /\ stmt.size \in Pages
           /\ file' \in Seq(Values) /\ Len(file') = stmt.size /\ dbSize' = stmt.size
           /\ \A p \in 1..stmt.size :
                 file'[p] = IF state = "exclusive" /\ p \in PagesOf(StmtRecords)
                            THEN ValueIn(StmtRecords, p)
                            ELSE IF p <= Len(file) THEN file[p] ELSE Blank
           /\ DOMAIN cache' = DOMAIN cache
           /\ \A p \in DOMAIN cache :
                 /\ p \notin PagesOf(StmtRecords) => cache'[p] = cache[p]
                 /\ p \in PagesOf(StmtRecords) =>
                       /\ cache'[p].val = ValueIn(StmtRecords, p)
                       /\ cache'[p].dirty = (cache[p].dirty /\ state # "exclusive")
<1> DEFINE recs == StmtRecords
           cut == Truncated(file, stmt.size)
<1>1. stmt # Absent /\ journal # Absent /\ Live /\ InTransaction
  BY DEF StmtRollback, Places, Underway, Live, InTransaction, PagerTypeOK
<1>2. recs \in Seq(Record) /\ PagesOf(recs) \subseteq PagesOf(stmt.saved) \cup PagesOf(journal.recs)
  BY <1>1, StmtRecordsType DEF Sizes
<1>3. stmt.size \in Pages /\ stmt.size \in Nat /\ file \in Seq(Values)
  BY <1>1, StmtType, Numbers DEF PagerTypeOK
<1>4. /\ cut \in Seq(Values) /\ Len(cut) = stmt.size /\ cut \in [1..stmt.size -> Values]
      /\ \A p \in 1..stmt.size : cut[p] = IF p <= Len(file) THEN file[p] ELSE Blank
  BY <1>3, TruncatedFacts, ElementOfSeq DEF Truncated
<1>5. \A p \in PagesOf(recs) : ValueIn(recs, p) \in Values
  BY <1>2, RecordFacts
<1>6. /\ file' = IF state = "exclusive"
                 THEN [p \in 1..stmt.size |-> IF p \in PagesOf(recs) THEN ValueIn(recs, p) ELSE cut[p]]
                 ELSE cut
      /\ dbSize' = stmt.size
  BY DEF StmtRollback
<1>7. cache' = [p \in DOMAIN cache |->
                  IF p \in PagesOf(recs)
                  THEN IF state = "exclusive"
                       THEN [[cache[p] EXCEPT !.val = ValueIn(recs, p)]
                                EXCEPT !.dirty = FALSE, !.needSync = FALSE]
                       ELSE [cache[p] EXCEPT !.val = ValueIn(recs, p)]
                  ELSE cache[p]]
  BY DEF StmtRollback
<1> HIDE DEF recs, cut
<1>8. /\ file' \in Seq(Values) /\ Len(file') = stmt.size
      /\ \A p \in 1..stmt.size :
            file'[p] = IF state = "exclusive" /\ p \in PagesOf(recs)
                       THEN ValueIn(recs, p)
                       ELSE IF p <= Len(file) THEN file[p] ELSE Blank
  <2>1. CASE state = "exclusive"
    <3>1. file' = [p \in 1..stmt.size |-> IF p \in PagesOf(recs) THEN ValueIn(recs, p) ELSE cut[p]]
      BY <1>6, <2>1
    <3>2. file' \in [1..stmt.size -> Values]
      BY <1>4, <1>5, <3>1
    <3>3. file' \in Seq(Values) /\ Len(file') = stmt.size
      BY <1>3, <3>2, SeqOfFunction
    <3>4. QED
      BY <1>4, <2>1, <3>1, <3>3
  <2>2. CASE state # "exclusive"
    BY <1>4, <1>6, <2>2
  <2>3. QED
    BY <2>1, <2>2
<1>9. ASSUME NEW p \in DOMAIN cache, p \in PagesOf(recs)
      PROVE  /\ cache'[p].val = ValueIn(recs, p)
             /\ cache'[p].dirty = (cache[p].dirty /\ state # "exclusive")
  <2>1. cache[p] \in Cached
    BY DEF PagerTypeOK
  <2>2. CASE state = "exclusive"
    BY <1>7, <1>9, <2>1, <2>2 DEF Cached
  <2>3. CASE state # "exclusive"
    BY <1>7, <1>9, <2>1, <2>3 DEF Cached
  <2>4. QED
    BY <2>2, <2>3
<1>10. DOMAIN cache' = DOMAIN cache /\ \A p \in DOMAIN cache : p \notin PagesOf(recs) => cache'[p] = cache[p]
  BY <1>7
<1>11. QED
  BY <1>1, <1>2, <1>3, <1>6, <1>8, <1>9, <1>10 DEF recs

\* A record that is played back.
LEMMA PlaybackEffect ==
    ASSUME PagerTypeOK, Places, Sizes, Playback, journal.valid, replayed < journal.counted
    PROVE  \E r \in Record :
              /\ r.page \in PagesOf(journal.recs) /\ r.page \in 1..Len(file)
              /\ file' = Put(file, r.page, r.val) /\ Len(file') = Len(file)
              /\ DOMAIN cache' = DOMAIN cache
              /\ \A p \in DOMAIN cache \ {r.page} : cache'[p] = cache[p]
              /\ r.page \in DOMAIN cache => cache'[r.page].val = r.val
<1> DEFINE r == journal.recs[replayed + 1]
<1>1. journal # Absent
  BY DEF Playback, Places, Underway, InTransaction
<1>2. replayed + 1 \in 1..Len(journal.recs)
  <2>1. replayed \in Nat /\ Len(journal.recs) \in Nat /\ journal.counted <= Len(journal.recs)
        /\ journal.counted \in Nat
    BY <1>1, JournalNumbers, FileType
  <2>2. QED
    BY <2>1
<1>3. r \in Record /\ r.page \in PagesOf(journal.recs)
  BY <1>1, <1>2, JournalType DEF PagesOf
<1>4. r.page \in Pages /\ r.val \in Values /\ r.page <= Len(file) /\ r.page \in 1..Len(file)
  <2>1. r.page \in Pages /\ r.val \in Values
    BY <1>3 DEF Record
  <2>2. job = "playback"
    BY DEF Playback
  <2>3. Len(file) = journal.size /\ r.page <= journal.size /\ Len(file) \in Nat
    BY <1>1, <1>3, <2>2, Numbers DEF Sizes, PagerTypeOK
  <2>4. QED
    BY <2>1, <2>3, Numbers
<1>5. /\ file' = Put(file, r.page, r.val)
      /\ cache' = [p \in DOMAIN cache |->
                     IF p = r.page
                     THEN [cache[p] EXCEPT !.val = r.val, !.dirty = FALSE, !.needSync = FALSE]
                     ELSE cache[p]]
  BY DEF Playback
<1> HIDE DEF r
<1>6. Len(file') = Len(file)
  <2>1. r.page \in Nat \ {0} /\ file \in Seq(Values) /\ Len(file) \in Nat
    BY <1>4, Numbers DEF PagerTypeOK
  <2>2. r.page <= Len(file) => Len(Put(file, r.page, r.val)) = Len(file)
    <3> DEFINE q == r.page  v == r.val
    <3>1. q \in Nat \ {0} /\ v \in Values
      BY <1>4, <2>1
    <3> HIDE DEF q, v
    <3>2. q <= Len(file) => Len(Put(file, q, v)) = Len(file)
      BY <2>1, <3>1, PutFacts
    <3>3. QED
      BY <3>2 DEF q, v
  <2>3. r.page <= Len(file) /\ file' = Put(file, r.page, r.val)
    BY <1>4, <1>5
  <2>4. QED
    BY <2>1, <2>2, <2>3
<1>7. r.page \in DOMAIN cache => cache'[r.page].val = r.val
  BY <1>5 DEF PagerTypeOK, Cached
<1>8. QED
  BY <1>3, <1>4, <1>5, <1>6, <1>7

-----------------------------------------------------------------------------
\* What is there, after a rollback and after any step.
LEMMA UndoPlaces ==
    ASSUME PagerTypeOK, Places, Undo, InTransaction
    PROVE  Places'
<1>1. CASE ~dirtyCache \/ state = "reserved"
  BY <1>1 DEF Undo, EndTransaction, Places, Underway, InTransaction
<1>2. CASE dirtyCache /\ state # "reserved"
  BY <1>2 DEF Undo, Places, Underway, InTransaction, memory
<1>3. QED
  BY <1>1, <1>2

LEMMA PlacesStep ==
    ASSUME PagerTypeOK, Places, Present, Flags, PagerNext
    PROVE  Places'
<1> USE DEF Places, Underway, InTransaction, disk, memory
<1>1. CASE Open
  BY <1>1 DEF Open
<1>2. CASE Release
  BY <1>2 DEF Release
<1>3. CASE Begin
  <2>1. journal' # Absent
    <3>1. journal' = [size |-> dbSize, valid |-> TRUE, recs |-> <<>>, counted |-> 0]
      BY <1>3 DEF Begin
    <3>2. QED
      BY <3>1 DEF Absent
  <2>2. QED
    BY <1>3, <2>1 DEF Begin
<1>4. CASE Get
  <2>1. PICK p \in Pages \ DOMAIN cache :
          /\ p <= dbSize \/ (p = dbSize + 1 /\ InTransaction)
          /\ \/ job' = Then(p)
             \/ want' = p /\ job' = "write"
             \/ job' = "sync" /\ \E v \in Recyclable : cache[v].needSync
    BY <1>4, GetEffect
  <2>2. p \in Nat /\ p > 0 /\ dbSize \in Nat
    BY Numbers DEF PagerTypeOK
  <2>3. job' = "append" \/ (want' = p /\ p > dbSize) => InTransaction
    BY <2>1, <2>2 DEF Then
  <2>4. job' = "sync" => state # "shared"
    BY <2>1 DEF Then, Flags, Recyclable
  <2>5. /\ job' \in {"append", "ready"} \/ job' = "sync" \/ (job' = "write" /\ want' = p)
        /\ state # "unlock" /\ job = "ready" /\ state' = state /\ dbSize' = dbSize
        /\ UNCHANGED <<journal, stmt, dirtyCache>>
    BY <1>4, <2>1 DEF Get, Then
  <2>6. QED
    BY <2>2, <2>3, <2>4, <2>5 DEF PagerTypeOK
<1>5. CASE Write
  <2>1. PICK p \in DOMAIN cache, v \in Values : Change(p, v)
    BY <1>5 DEF Write, Present
  <2>2. journal' # Absent
    BY <1>5, <2>1, ChangeEffect DEF Write
  <2>3. QED
    BY <1>5, <2>2 DEF Write
<1>6. CASE WriteFails
  BY <1>6, UndoPlaces DEF WriteFails
<1>7. CASE StmtBegin
  BY <1>7 DEF StmtBegin
<1>8. CASE StmtCommit
  BY <1>8 DEF StmtCommit
<1>9. CASE StmtRollback
  BY <1>9 DEF StmtRollback
<1>10. CASE Commit
  <2>1. CASE ~dirtyCache
    BY <1>10, <2>1 DEF Commit, EndTransaction
  <2>2. CASE dirtyCache
    <3>1. PICK v \in Values : Change(1, v)
      BY <1>10, <2>2 DEF Commit
    <3>2. journal' # Absent
      BY <1>10, <3>1, ChangeEffect DEF Commit, Present, Live
    <3>3. QED
      BY <1>10, <2>2, <3>2 DEF Commit
  <2>3. QED
    BY <2>1, <2>2
<1>11. CASE SyncRecords
  <2>1. journal' # Absent
    <3>1. journal # Absent
      BY <1>11 DEF SyncRecords
    <3>2. journal'.size = journal.size
      BY <1>11, <3>1, JournalType DEF SyncRecords, JournalFiles
    <3>3. QED
      BY <3>1, <3>2, JournalType, Numbers DEF Absent
  <2>2. QED
    BY <1>11, <2>1 DEF SyncRecords
<1>12. CASE SyncCount
  BY <1>12 DEF SyncCount
<1>13. CASE Recycle
  <2>1. PICK v \in Recyclable :
          \/ state' = state
          \/ cache[v].dirty /\ state' = "exclusive"
    BY <1>13, RecycleEffect
  <2>2. v \in DOMAIN cache
    BY DEF Recyclable
  <2>3. state' = state \/ (state # "shared" /\ state' = "exclusive")
    BY <2>1, <2>2 DEF Flags
  <2>4. job' = "ready" \/ (job' = "append" /\ want > dbSize)
    BY <1>13 DEF Recycle, Then
  <2>5. QED
    BY <1>13, <2>3, <2>4 DEF Recycle, PagerTypeOK
<1>14. CASE WriteDirty
  BY <1>14 DEF WriteDirty
<1>15. CASE Busy
  BY <1>15, UndoPlaces DEF Busy
<1>16. CASE Flush
  BY <1>16 DEF Flush
<1>17. CASE Delete
  BY <1>17 DEF Delete, EndTransaction
<1>18. CASE Rollback
  BY <1>18, UndoPlaces DEF Rollback
<1>19. CASE Playback
  BY <1>19 DEF Playback, EndTransaction
<1>20. CASE Crash
  BY <1>20 DEF Crash, Gone
<1>21. CASE PowerLoss
  BY <1>21 DEF PowerLoss, Gone
<1> QED
  BY <1>1, <1>2, <1>3, <1>4, <1>5, <1>6, <1>7, <1>8, <1>9, <1>10, <1>11, <1>12, <1>13, <1>14,
     <1>15, <1>16, <1>17, <1>18, <1>19, <1>20, <1>21 DEF PagerNext

\* Where a rollback leads.
LEMMA UndoLeads ==
    ASSUME PagerTypeOK, Undo, InTransaction
    PROVE  \/ state' = "shared" /\ job' = "ready"
           \/ state' = "exclusive" /\ job' = "playback"
<1>1. CASE ~dirtyCache \/ state = "reserved"
  BY <1>1 DEF Undo, EndTransaction
<1>2. CASE dirtyCache /\ state # "reserved"
  BY <1>2 DEF Undo, InTransaction
<1>3. QED
  BY <1>1, <1>2

LEMMA PresentStep ==
    ASSUME PagerTypeOK, Places, Present, Flags, PagerNext
    PROVE  Present'
<1> USE DEF Present, Live, Underway, InTransaction, disk, memory
<1>1. CASE Open
  BY <1>1 DEF Open, Places
<1>2. CASE Release
  BY <1>2 DEF Release
<1>3. CASE Begin
  BY <1>3 DEF Begin
<1>4. CASE Get
  <2>1. PICK p \in Pages \ DOMAIN cache :
              \/ /\ cache' = Loaded(file, p, 0)
                 /\ job' = Then(p)
                 /\ want' = IF p > dbSize THEN p ELSE 0
              \/ want' = p /\ cache' = cache /\ job' \in {"write", "sync"}
    BY <1>4, GetEffect
  <2>2. CASE want' = p /\ cache' = cache /\ job' \in {"write", "sync"}
    BY <1>4, <2>1, <2>2 DEF Get
  <2>3. CASE cache' = Loaded(file, p, 0) /\ job' = Then(p) /\ want' = IF p > dbSize THEN p ELSE 0
    <3>1. DOMAIN cache' = DOMAIN cache \cup {p}
      BY <2>3, Numbers DEF Loaded, PagerTypeOK
    <3>2. (job' = "append" /\ want' = p) \/ job' = "ready"
      BY <2>3 DEF Then
    <3>3. QED
      BY <1>4, <3>1, <3>2 DEF Get
  <2>4. QED
    BY <2>1, <2>2, <2>3
<1>5. CASE Write
  <2>1. PICK p \in DOMAIN cache, v \in Values : Change(p, v)
    BY <1>5 DEF Write
  <2>2. DOMAIN cache' = DOMAIN cache
    BY <1>5, <2>1, ChangeEffect DEF Write, Places
  <2>3. QED
    BY <1>5, <2>2 DEF Write
<1>6. CASE WriteFails
  BY <1>6, UndoLeads DEF WriteFails
<1>7. CASE StmtBegin
  BY <1>7 DEF StmtBegin
<1>8. CASE StmtCommit
  BY <1>8 DEF StmtCommit
<1>9. CASE StmtRollback
  BY <1>9 DEF StmtRollback
<1>10. CASE Commit
  <2>1. CASE ~dirtyCache
    BY <1>10, <2>1 DEF Commit, EndTransaction
  <2>2. CASE dirtyCache
    <3>1. PICK v \in Values : Change(1, v)
      BY <1>10, <2>2 DEF Commit
    <3>2. DOMAIN cache' = DOMAIN cache
      BY <1>10, <3>1, ChangeEffect DEF Commit, Places
    <3>3. QED
      BY <1>10, <2>2, <3>2 DEF Commit
  <2>3. QED
    BY <2>1, <2>2
<1>11. CASE SyncRecords
  BY <1>11 DEF SyncRecords
<1>12. CASE SyncCount
  BY <1>12 DEF SyncCount
<1>13. CASE Recycle
  <2>1. PICK v \in Recyclable :
          /\ v \in Pages \ {1, want}
          /\ state' = state \/ cache[v].dirty
          /\ DOMAIN cache' = (DOMAIN cache \cup {want}) \ {v}
    BY <1>13, RecycleEffect
  <2>2. job' = "ready" \/ (job' = "append" /\ want' = want)
    BY <1>13 DEF Recycle, Then
  <2>3. Live' => Live
    BY <1>13, <2>1 DEF Recycle, Recyclable, Places, Flags, PagerTypeOK
  <2>4. QED
    BY <1>13, <2>1, <2>2, <2>3 DEF Recycle
<1>14. CASE WriteDirty
  BY <1>14 DEF WriteDirty, Places
<1>15. CASE Busy
  BY <1>15, UndoLeads DEF Busy
<1>16. CASE Flush
  BY <1>16 DEF Flush, Places
<1>17. CASE Delete
  BY <1>17 DEF Delete, EndTransaction
<1>18. CASE Rollback
  BY <1>18, UndoLeads DEF Rollback
<1>19. CASE Playback
  BY <1>19 DEF Playback, EndTransaction
<1>20. CASE Crash
  BY <1>20 DEF Crash, Gone
<1>21. CASE PowerLoss
  BY <1>21 DEF PowerLoss, Gone
<1> QED
  BY <1>1, <1>2, <1>3, <1>4, <1>5, <1>6, <1>7, <1>8, <1>9, <1>10, <1>11, <1>12, <1>13, <1>14,
     <1>15, <1>16, <1>17, <1>18, <1>19, <1>20, <1>21 DEF PagerNext

\* The sizes, after the end of a transaction, a rollback and any step.
LEMMA EndSizes ==
    ASSUME NEW f, NEW c, EndTransaction(f, c)
    PROVE  Sizes'
<1>1. /\ state' = "shared" /\ journal' = Absent /\ stmt' = Absent /\ job' = "ready"
      /\ file' = f /\ dbSize' = Len(f) /\ settled' = NothingSettled
  BY DEF EndTransaction
<1>2. settled'.recs = 0
  BY <1>1 DEF NothingSettled
<1>3. QED
  BY <1>1, <1>2 DEF Sizes, Live, Underway, InTransaction

LEMMA UndoSizes ==
    ASSUME PagerTypeOK, Places, Sizes, Undo, InTransaction, job # "playback"
    PROVE  Sizes'
<1>1. CASE ~dirtyCache \/ state = "reserved"
  BY <1>1, EndSizes DEF Undo
<1>2. CASE dirtyCache /\ state # "reserved"
  <2>1. journal # Absent /\ journal.valid
    BY DEF Places, Sizes, Live, Underway
  <2>2. journal.size \in Nat /\ file \in Seq(Values)
    BY <2>1, JournalType, Numbers DEF PagerTypeOK
  <2>3. Len(file') = journal.size
    BY <1>2, <2>2, TruncatedFacts DEF Undo
  <2>4. /\ UNCHANGED <<journal, settled, state, dbSize, stmt>> /\ job' = "playback"
    BY <1>2 DEF Undo, memory
  <2>5. QED
    BY <2>1, <2>3, <2>4 DEF Sizes, Live, Underway, InTransaction
<1>3. QED
  BY <1>1, <1>2

\* Sizes does not depend on what only flags the pages, or chooses one.
LEMMA SizesUnchanged ==
    ASSUME Sizes, UNCHANGED <<file, journal, settled, state, dbSize, stmt>>,
           job # "playback", job' # "playback"
    PROVE  Sizes'
BY DEF Sizes, Live, Underway, InTransaction

\* Nor on how far the file has grown in a transaction.
LEMMA SizesGrow ==
    ASSUME PagerTypeOK, Places, Sizes, state # "shared", state' # "shared", state # "unlock",
           job # "playback", job' # "playback",
           Len(file') >= Len(file), Len(file') \in Nat, UNCHANGED <<journal, settled, dbSize, stmt>>
    PROVE  Sizes'
<1>1. Live /\ journal # Absent /\ journal.size \in Nat /\ Len(file) \in Nat
  BY JournalType, Numbers DEF PagerTypeOK, Places, Live, Underway, InTransaction
<1>2. QED
  BY <1>1 DEF Sizes, Live, Underway, InTransaction

\* A change of a page.
LEMMA ChangeSizes ==
    ASSUME PagerTypeOK, Places, Sizes, InTransaction, job # "playback", job' # "playback",
           NEW p \in DOMAIN cache, NEW v \in Values, Change(p, v),
           UNCHANGED <<file, settled, state>>
    PROVE  Sizes'
<1>1. journal # Absent /\ Live
  BY DEF Places, Live, Underway
<1>2. p \in Nat /\ dbSize \in Nat /\ dbSize' \in Nat /\ dbSize <= dbSize'
  <2>1. dbSize' = dbSize \/ (p > dbSize /\ dbSize' = p)
    BY <1>1, ChangeEffect
  <2>2. p \in Nat /\ dbSize \in Nat
    BY Numbers DEF PagerTypeOK
  <2>3. QED
    BY <2>1, <2>2
<1>3. /\ settled.recs \in Nat /\ Len(journal.recs) \in Nat /\ Len(journal'.recs) \in Nat
      /\ journal.size \in Nat /\ (stmt # Absent => stmt.size \in Nat /\ stmt.skip \in Nat)
  <2>1. Len(journal'.recs) \in Nat
    <3>1. journal' = journal \/ journal'.recs = Append(journal.recs, [page |-> p, val |-> cache[p].val])
      BY <1>1, JournalType DEF Change, JournalFiles
    <3>2. [page |-> p, val |-> cache[p].val] \in Record
      BY DEF PagerTypeOK, Record, Cached
    <3>3. QED
      BY <1>1, <3>1, <3>2, JournalType, PagesOfAppend
  <2>2. QED
    <3>1. settled.recs \in Nat
      BY DEF PagerTypeOK
    <3>2. Len(journal.recs) \in Nat /\ journal.size \in Nat
      BY <1>1, JournalType, Numbers
    <3>3. stmt # Absent => stmt.size \in Nat /\ stmt.skip \in Nat
      BY StmtType, Numbers
    <3>4. QED
      BY <2>1, <3>1, <3>2, <3>3
<1>4. \A q \in PagesOf(journal'.recs) : q <= journal'.size
  BY <1>1, ChangeEffect DEF Sizes
<1>5. /\ journal'.size = journal.size /\ journal'.valid = journal.valid
      /\ Len(journal'.recs) >= Len(journal.recs)
      /\ stmt' = stmt \/ (stmt # Absent /\ stmt'.size = stmt.size /\ stmt'.skip = stmt.skip)
  BY <1>1, ChangeEffect
<1>6. settled'.recs <= Len(journal'.recs)
  <2>1. settled.recs <= Len(journal.recs)
    BY <1>1 DEF Sizes
  <2>2. settled' = settled
    OBVIOUS
  <2>3. \A a, b, c \in Nat : a <= b /\ c >= b => a <= c
    OBVIOUS
  <2>4. QED
    <3>1. settled.recs \in Nat /\ Len(journal.recs) \in Nat /\ Len(journal'.recs) \in Nat
      BY <1>3
    <3>2. Len(journal'.recs) >= Len(journal.recs)
      BY <1>5
    <3>3. QED
      BY <2>1, <2>2, <3>1, <3>2
<1>7. journal'.valid /\ journal'.size <= Len(file') /\ journal'.size <= dbSize'
  <2>1. journal.valid /\ journal.size <= Len(file) /\ journal.size <= dbSize
    BY <1>1 DEF Sizes
  <2>2. journal'.valid = journal.valid /\ journal'.size = journal.size /\ file' = file
    BY <1>5
  <2>3. journal'.size <= dbSize'
    BY <1>2, <1>3, <1>5, <2>1
  <2>4. QED
    BY <2>1, <2>2, <2>3
<1>8. stmt' # Absent => /\ journal'.size <= stmt'.size /\ stmt'.size <= dbSize'
                        /\ stmt'.skip <= Len(journal'.recs)
  <2>1. stmt # Absent => /\ journal.size <= stmt.size /\ stmt.size <= dbSize
                         /\ stmt.skip <= Len(journal.recs)
    BY <1>1 DEF Sizes
  <2>2. stmt' # Absent => journal'.size <= stmt'.size
    BY <1>5, <2>1
  <2>3. stmt' # Absent => stmt'.size <= dbSize'
    BY <1>2, <1>3, <1>5, <2>1
  <2>4. stmt' # Absent => stmt'.skip <= Len(journal'.recs)
    BY <1>2, <1>3, <1>5, <2>1
  <2>5. QED
    BY <2>2, <2>3, <2>4
<1>9. journal' # Absent /\ state' # "shared"
  BY <1>1, ChangeEffect DEF InTransaction
<1>10. QED
  BY <1>4, <1>6, <1>7, <1>8, <1>9 DEF Sizes

LEMMA SizesStep ==
    ASSUME PagerTypeOK, Places, Present, Sizes, Flags, PagerNext
    PROVE  Sizes'
<1> USE DEF disk, memory
<1>1. CASE Open
  <2>1. CASE journal = Absent
    <3>1. /\ state' = "shared" /\ dbSize' = Len(file) /\ job' = "ready"
          /\ UNCHANGED <<file, journal, settled>>
      BY <1>1, <2>1 DEF Open, Places
    <3>2. QED
      BY <2>1, <3>1 DEF Sizes, Live, Underway, InTransaction
  <2>2. CASE journal # Absent
    <3>1. journal.valid => Len(file') = journal.size
      <4>1. journal.size \in Nat /\ file \in Seq(Values)
        BY <2>2, JournalType, Numbers DEF PagerTypeOK
      <4>2. Len(Truncated(file, journal.size)) = journal.size
        BY <4>1, TruncatedFacts
      <4>3. QED
        BY <1>1, <2>2, <4>2 DEF Open
    <3>2. cache' = <<>> /\ unread' = {}
      BY <1>1, <2>2 DEF Open, Places
    <3>3. QED
      BY <1>1, <2>2, <3>1, <3>2 DEF Open, Sizes, Live
  <2>3. QED
    BY <2>1, <2>2
<1>2. CASE Release
  BY <1>2 DEF Release, Sizes, Live, Underway, InTransaction
<1>3. CASE Begin
  <2>1. journal' = [size |-> dbSize, valid |-> TRUE, recs |-> <<>>, counted |-> 0]
    BY <1>3 DEF Begin
  <2>2. /\ journal' # Absent /\ journal'.size = dbSize /\ journal'.valid
        /\ Len(journal'.recs) = 0 /\ PagesOf(journal'.recs) = {}
    BY <2>1 DEF Absent, PagesOf
  <2>3. /\ stmt' = Absent /\ settled'.recs = 0 /\ dbSize' = dbSize /\ Len(file') = dbSize /\ dbSize \in Nat
        /\ state' = "reserved" /\ job' = "ready"
    BY <1>3 DEF Begin, Places, Sizes, NothingSettled, PagerTypeOK
  <2>4. QED
    BY <2>2, <2>3 DEF Sizes
<1>4. CASE Get
  <2>1. job' # "playback"
    BY <1>4, GetEffect DEF Then
  <2>2. QED
    BY <1>4, <2>1, SizesUnchanged DEF Get
<1>5. CASE Write
  <2>1. PICK p \in DOMAIN cache, v \in Values : Change(p, v)
    BY <1>5 DEF Write, Present
  <2>2. QED
    BY <1>5, <2>1, ChangeSizes DEF Write
<1>6. CASE WriteFails
  BY <1>6, UndoSizes DEF WriteFails
<1>7. CASE StmtBegin
  <2>1. Live /\ journal # Absent
    BY <1>7 DEF StmtBegin, Live, Underway, Places
  <2>2. stmt'.size = dbSize /\ stmt'.skip = Len(journal.recs) /\ dbSize \in Nat /\ Len(journal.recs) \in Nat
    BY <1>7, <2>1, JournalType DEF StmtBegin, PagerTypeOK
  <2>3. QED
    BY <1>7, <2>1, <2>2 DEF StmtBegin, Sizes, Live, Underway, InTransaction
<1>8. CASE StmtCommit
  BY <1>8 DEF StmtCommit, Sizes, Live, Underway, InTransaction
<1>9. CASE StmtRollback
  <2>1. /\ Live /\ InTransaction /\ stmt # Absent /\ journal # Absent
        /\ Len(file') = stmt.size /\ dbSize' = stmt.size
    BY <1>9, StmtRollbackEffect
  <2>2. stmt' = Absent /\ UNCHANGED <<journal, settled, state, job>>
    BY <1>9 DEF StmtRollback
  <2>3. QED
    BY <2>1, <2>2 DEF Sizes, Live, Underway, InTransaction
<1>10. CASE Commit
  <2>1. CASE ~dirtyCache
    BY <1>10, <2>1, EndSizes DEF Commit
  <2>2. CASE dirtyCache
    <3>1. PICK v \in Values : Change(1, v)
      BY <1>10, <2>2 DEF Commit
    <3>2. QED
      BY <1>10, <2>2, <3>1, ChangeSizes DEF Commit, Present, Live, Underway
  <2>3. QED
    BY <2>1, <2>2
<1>11. CASE SyncRecords
  <2>1. journal # Absent
    BY <1>11 DEF SyncRecords, Places, Underway
  <2>2. /\ journal'.size = journal.size /\ journal'.valid = journal.valid /\ journal'.recs = journal.recs
        /\ journal' # Absent
    BY <1>11, <2>1, JournalType, Numbers DEF SyncRecords, JournalFiles, Absent
  <2>3. settled'.recs = settled.recs \/ settled'.recs = Len(journal.recs)
    BY <1>11 DEF SyncRecords
  <2>4. Len(journal.recs) \in Nat
    BY <2>1, JournalType
  <2>5. QED
    BY <1>11, <2>1, <2>2, <2>3, <2>4 DEF SyncRecords, Sizes, Live, Underway, InTransaction
<1>12. CASE SyncCount
  <2>1. journal # Absent
    BY <1>12 DEF SyncCount, Places, Underway
  <2>2. settled'.recs = Len(journal.recs) /\ Len(journal.recs) \in Nat
    BY <1>12, <2>1, JournalType DEF SyncCount
  <2>3. QED
    BY <1>12, <2>1, <2>2 DEF SyncCount, Sizes, Live, Underway, InTransaction
<1>13. CASE Recycle
  <2>1. PICK v \in Recyclable :
          /\ v \in Pages
          /\ \/ UNCHANGED <<file, state>>
             \/ cache[v].dirty /\ file' = Put(file, v, cache[v].val) /\ state' = "exclusive"
    BY <1>13, RecycleEffect
  <2>2. job' # "playback" /\ job # "playback" /\ v \in DOMAIN cache
    BY <1>13 DEF Recycle, Then, Recyclable
  <2>3. CASE UNCHANGED <<file, state>>
    BY <1>13, <2>2, <2>3, SizesUnchanged DEF Recycle
  <2>4. CASE cache[v].dirty /\ file' = Put(file, v, cache[v].val) /\ state' = "exclusive"
    <3>1. state # "shared" /\ state # "unlock"
      BY <1>13, <2>2, <2>4 DEF Flags, Places, Recycle
    <3>2. cache[v].val \in Values
      BY <2>2 DEF PagerTypeOK, Cached
    <3>3. Len(file') >= Len(file) /\ Len(file') \in Nat
      BY <2>1, <2>4, <3>2, PutType, Numbers
    <3>4. QED
      BY <1>13, <2>2, <2>4, <3>1, <3>3, SizesGrow DEF Recycle
  <2>5. QED
    BY <2>1, <2>3, <2>4
<1>14. CASE WriteDirty
  <2>1. PICK p \in DOMAIN cache : file' = Put(file, p, cache[p].val) /\ job' \in {"write", "flush"}
    BY <1>14 DEF WriteDirty
  <2>2. p \in Pages /\ cache[p].val \in Values
    BY DEF PagerTypeOK, Cached
  <2>3. Len(file') >= Len(file) /\ Len(file') \in Nat
    BY <2>1, <2>2, PutType, Numbers
  <2>4. InTransaction /\ job = "write" /\ state' = "exclusive"
    BY <1>14 DEF WriteDirty, Places
  <2>5. QED
    BY <1>14, <2>1, <2>3, <2>4, SizesGrow DEF WriteDirty, InTransaction
<1>15. CASE Busy
  <2>1. CASE want = 0
    BY <1>15, <2>1, SizesUnchanged DEF Busy
  <2>2. CASE want # 0
    BY <1>15, <2>2, UndoSizes DEF Busy, InTransaction
  <2>3. QED
    BY <2>1, <2>2
<1>16. CASE Flush
  <2>1. state = "exclusive" /\ job = "flush" /\ state' = "synced" /\ job' = "delete"
    BY <1>16 DEF Flush, Places
  <2>2. QED
    BY <1>16, <2>1 DEF Flush, Sizes, Live, Underway, InTransaction
<1>17. CASE Delete
  BY <1>17, EndSizes DEF Delete
<1>18. CASE Rollback
  BY <1>18, UndoSizes DEF Rollback
<1>20. CASE Crash
  BY <1>20 DEF Crash, Gone, Sizes, Live, Underway, InTransaction
<1>19. CASE Playback
  <2>1. CASE journal.valid /\ replayed < journal.counted
    <3>1. Len(file') = Len(file)
      BY <1>19, <2>1, PlaybackEffect
    <3>2. UNCHANGED <<journal, settled, state, dbSize, stmt, job>> /\ job = "playback"
      BY <1>19, <2>1 DEF Playback
    <3>3. QED
      BY <2>1, <3>1, <3>2 DEF Sizes, Live, Underway, InTransaction
  <2>2. CASE ~(journal.valid /\ replayed < journal.counted)
    BY <1>19, <2>2, EndSizes DEF Playback
  <2>3. QED
    BY <2>1, <2>2
<1>21. CASE PowerLoss
  <2>1. state' = "unlock" /\ job' = "ready"
    BY <1>21 DEF PowerLoss, Gone
  <2>2. CASE journal = Absent
    BY <1>21, <2>1, <2>2 DEF PowerLoss, Sizes, Live, Underway, InTransaction
  <2>3. CASE journal # Absent
    <3> DEFINE kept == SubSeq(journal.recs, 1, settled.recs)
    <3>1. PICK valid \in {settled.valid, journal.valid}, n \in settled.counts \cup {journal.counted} :
             journal' = [journal EXCEPT !.valid = valid, !.recs = kept, !.counted = Least(n, Len(kept))]
      BY <1>21, <2>3 DEF PowerLoss
    <3>2. journal.recs \in Seq(Record) /\ settled.recs \in 0..Len(journal.recs)
      BY <2>3, JournalNumbers DEF Sizes
    <3>3. Len(kept) = settled.recs /\ PagesOf(kept) \subseteq PagesOf(journal.recs)
      BY <3>2, PagesOfSubSeq
    <3> HIDE DEF kept
    <3>4. journal'.recs = kept /\ journal'.size = journal.size
      BY <2>3, <3>1, JournalType DEF JournalFiles
    <3>5. journal' # Absent
      BY <2>3, <3>4, JournalType, Numbers DEF Absent
    <3>6. settled'.recs = Len(journal'.recs)
      <4>1. settled' = [valid |-> journal'.valid, recs |-> Len(journal'.recs), counts |-> {}]
        BY <1>21, <2>3 DEF PowerLoss
      <4>2. QED
        BY <4>1
    <3>7. Len(kept) \in Nat
      BY <3>3 DEF PagerTypeOK
    <3>8. QED
      BY <2>1, <2>3, <3>3, <3>4, <3>5, <3>6, <3>7 DEF Sizes, Live, Underway, InTransaction
  <2>4. QED
    BY <2>2, <2>3
<1> QED
  BY <1>1, <1>2, <1>3, <1>4, <1>5, <1>6, <1>7, <1>8, <1>9, <1>10, <1>11, <1>12, <1>13, <1>14,
     <1>15, <1>16, <1>17, <1>18, <1>19, <1>20, <1>21 DEF PagerNext

\* A transaction that has changed nothing, after a rollback and after any step.
LEMMA EndUnchanged ==
    ASSUME state' = "shared" \/ state' = "unlock" \/ job' = "playback"
    PROVE  Unchanged'
BY DEF Unchanged, Live, Underway, InTransaction

LEMMA UndoUnchanged ==
    ASSUME PagerTypeOK, Undo, InTransaction
    PROVE  Unchanged'
BY UndoLeads, EndUnchanged

LEMMA UnchangedStep ==
    ASSUME PagerTypeOK, Places, Present, Sizes, Unchanged, Flags, PagerNext
    PROVE  Unchanged'
<1> USE DEF disk, memory
<1>1. CASE Open
  BY <1>1, EndUnchanged DEF Open
<1>2. CASE Release
  BY <1>2, EndUnchanged DEF Release
<1>3. CASE Begin
  <2>1. journal' = [size |-> dbSize, valid |-> TRUE, recs |-> <<>>, counted |-> 0]
    BY <1>3 DEF Begin
  <2>2. journal'.size = dbSize /\ journal'.recs = <<>>
    BY <2>1
  <2>3. stmt' = Absent /\ dbSize' = dbSize /\ Len(file') = dbSize /\ state' = "reserved"
    BY <1>3 DEF Begin, Places, Sizes
  <2>4. QED
    BY <2>2, <2>3 DEF Unchanged
<1>4. CASE Get
  BY <1>4 DEF Get, Unchanged, Live, Underway, InTransaction, Places
<1>5. CASE Write
  <2>1. PICK p \in DOMAIN cache, v \in Values : Change(p, v)
    BY <1>5 DEF Write, Present
  <2>2. QED
    BY <2>1 DEF Change, Unchanged
<1>6. CASE WriteFails
  BY <1>6, UndoUnchanged DEF WriteFails
<1>7. CASE StmtBegin
  <2>1. stmt'.saved = <<>>
    BY <1>7 DEF StmtBegin
  <2>2. QED
    BY <1>7, <2>1 DEF StmtBegin, Unchanged, Live, Underway, InTransaction
<1>8. CASE StmtCommit
  BY <1>8 DEF StmtCommit, Unchanged, Live, Underway, InTransaction
<1>9. CASE StmtRollback
  <2>1. /\ Live /\ stmt # Absent
        /\ Len(file') = stmt.size /\ dbSize' = stmt.size
    BY <1>9, StmtRollbackEffect
  <2>2. stmt' = Absent /\ UNCHANGED <<journal, state, job, dirtyCache>>
    BY <1>9 DEF StmtRollback
  <2>3. CASE ~dirtyCache
    <3>1. journal.size <= stmt.size /\ stmt.size <= dbSize /\ journal.size = dbSize
      BY <2>1, <2>3 DEF Sizes, Unchanged
    <3>2. dbSize \in Nat /\ stmt.size \in Nat
      BY <2>1, StmtType, Numbers DEF PagerTypeOK
    <3>3. stmt.size = dbSize
      BY <3>1, <3>2
    <3>4. QED
      BY <2>1, <2>2, <2>3, <3>3 DEF Unchanged
  <2>4. CASE dirtyCache
    BY <2>2, <2>4 DEF Unchanged
  <2>5. QED
    BY <2>3, <2>4
<1>10. CASE Commit
  <2>1. CASE ~dirtyCache
    BY <1>10, <2>1, EndUnchanged DEF Commit, EndTransaction
  <2>2. CASE dirtyCache
    <3>1. PICK v \in Values : Change(1, v)
      BY <1>10, <2>2 DEF Commit
    <3>2. QED
      BY <3>1 DEF Change, Unchanged
  <2>3. QED
    BY <2>1, <2>2
<1>11. CASE SyncRecords
  <2>1. journal # Absent
    BY <1>11 DEF SyncRecords, Places, Underway
  <2>2. journal'.size = journal.size /\ journal'.recs = journal.recs
    BY <1>11, <2>1, JournalType, Numbers DEF SyncRecords, JournalFiles
  <2>3. QED
    BY <1>11, <2>2 DEF SyncRecords, Unchanged, Live, Underway, InTransaction
<1>12. CASE SyncCount
  BY <1>12 DEF SyncCount, Unchanged, Live, Underway, InTransaction
<1>13. CASE Recycle
  <2>1. PICK v \in Recyclable :
          \/ UNCHANGED <<file, state>>
          \/ cache[v].dirty
    BY <1>13, RecycleEffect
  <2>2. CASE dirtyCache
    BY <1>13, <2>2 DEF Recycle, Unchanged
  <2>3. CASE ~dirtyCache /\ cache[v].dirty
    <3>1. v \in DOMAIN cache
      BY DEF Recyclable
    <3>2. state \in {"shared", "reserved", "exclusive"} /\ job = "write"
      BY <1>13 DEF Recycle, Places, PagerTypeOK
    <3>3. QED
      BY <2>3, <3>1, <3>2 DEF Flags, Live, Underway, InTransaction
  <2>4. CASE ~dirtyCache /\ UNCHANGED <<file, state>>
    BY <1>13, <2>4 DEF Recycle, Unchanged, Live, Underway, InTransaction
  <2>5. QED
    BY <2>1, <2>2, <2>3, <2>4
<1>14. CASE WriteDirty
  <2>1. PICK p \in DOMAIN cache : cache[p].dirty
    BY <1>14 DEF WriteDirty
  <2>2. dirtyCache
    BY <1>14, <2>1 DEF WriteDirty, Flags, Live, Underway, Places
  <2>3. QED
    BY <1>14, <2>2 DEF WriteDirty, Unchanged
<1>15. CASE Busy
  <2>1. CASE want = 0
    BY <1>15, <2>1 DEF Busy, Unchanged, Live, Underway, InTransaction
  <2>2. CASE want # 0
    BY <1>15, <2>2, UndoUnchanged DEF Busy, InTransaction
  <2>3. QED
    BY <2>1, <2>2
<1>16. CASE Flush
  <2>1. Live /\ state # "reserved"
    BY <1>16 DEF Flush, Places, Live, Underway, InTransaction
  <2>2. QED
    BY <1>16, <2>1 DEF Flush, Unchanged
<1>17. CASE Delete
  BY <1>17, EndUnchanged DEF Delete, EndTransaction
<1>18. CASE Rollback
  BY <1>18, UndoUnchanged DEF Rollback
<1>19. CASE Playback
  BY <1>19, EndUnchanged DEF Playback, EndTransaction
<1>20. CASE Crash
  BY <1>20, EndUnchanged DEF Crash, Gone
<1>21. CASE PowerLoss
  BY <1>21, EndUnchanged DEF PowerLoss, Gone
<1> QED
  BY <1>1, <1>2, <1>3, <1>4, <1>5, <1>6, <1>7, <1>8, <1>9, <1>10, <1>11, <1>12, <1>13, <1>14,
     <1>15, <1>16, <1>17, <1>18, <1>19, <1>20, <1>21 DEF PagerNext

\* A page that is loaded, and the others.
LEMMA LoadedFacts ==
    ASSUME PagerTypeOK, NEW f \in Seq(Values), NEW p \in Pages, NEW v \in Pages \cup {0}, p # v
    PROVE  /\ Loaded(f, p, v)[p].dirty = FALSE /\ Loaded(f, p, v)[p].needSync = FALSE
           /\ p <= dbSize /\ p <= Len(f) => Loaded(f, p, v)[p].val = f[p]
           /\ p \in DOMAIN Loaded(f, p, v)
           /\ \A q \in DOMAIN cache : q # p /\ q # v => Loaded(f, p, v)[q] = cache[q]
<1>1. p \in Nat /\ dbSize \in Nat /\ 0 \notin Pages
  BY Numbers DEF PagerTypeOK
<1>2. p <= dbSize => ~(p > dbSize)
  BY <1>1
<1>3. p \in (DOMAIN cache \cup {p}) \ {v}
  OBVIOUS
<1>4. Loaded(f, p, v)[p] = [Read(IF p > dbSize THEN <<>> ELSE f, p) EXCEPT
                              !.inJournal = InTransaction /\ p \in PagesOf(journal.recs)]
  BY <1>3 DEF Loaded
<1>5. QED
  BY <1>2, <1>3, <1>4 DEF Loaded, Read

\* In a free place, and in the place of another page.
LEMMA LoadedFree ==
    ASSUME PagerTypeOK, NEW p \in Pages
    PROVE  /\ Loaded(file, p, 0)[p].dirty = FALSE /\ Loaded(file, p, 0)[p].needSync = FALSE
           /\ p <= dbSize /\ p <= Len(file) => Loaded(file, p, 0)[p].val = file[p]
           /\ DOMAIN Loaded(file, p, 0) = (DOMAIN cache \cup {p}) \ {0}
           /\ \A q \in DOMAIN cache : q # p /\ q # 0 => Loaded(file, p, 0)[q] = cache[q]
<1> DEFINE z == 0
<1>1. file \in Seq(Values) /\ z \in Pages \cup {0} /\ p # z
  BY DEF PagerTypeOK, Pages
<1> HIDE DEF z
<1>2. DOMAIN Loaded(file, p, z) = (DOMAIN cache \cup {p}) \ {z}
  BY DEF Loaded
<1>3. Loaded(file, p, z)[p].dirty = FALSE /\ Loaded(file, p, z)[p].needSync = FALSE
  BY <1>1, LoadedFacts
<1>4. p <= dbSize /\ p <= Len(file) => Loaded(file, p, z)[p].val = file[p]
  BY <1>1, LoadedFacts
<1>5. \A q \in DOMAIN cache : q # p /\ q # z => Loaded(file, p, z)[q] = cache[q]
  BY <1>1, LoadedFacts
<1>6. QED
  BY <1>2, <1>3, <1>4, <1>5 DEF z

LEMMA LoadedWanted ==
    ASSUME PagerTypeOK, file' \in Seq(Values), want \in Pages, NEW v \in Pages, want # v
    PROVE  /\ Loaded(file', want, v)[want].dirty = FALSE /\ Loaded(file', want, v)[want].needSync = FALSE
           /\ want <= dbSize /\ want <= Len(file') => Loaded(file', want, v)[want].val = file'[want]
           /\ DOMAIN Loaded(file', want, v) = (DOMAIN cache \cup {want}) \ {v}
           /\ \A q \in DOMAIN cache : q # want /\ q # v => Loaded(file', want, v)[q] = cache[q]
<1> DEFINE f == file'
           w == want
<1>1. f \in Seq(Values) /\ v \in Pages \cup {0} /\ w # v /\ w \in Pages
  OBVIOUS
<1> HIDE DEF f, w
<1>2. DOMAIN Loaded(f, w, v) = (DOMAIN cache \cup {w}) \ {v}
  BY DEF Loaded
<1>3. Loaded(f, w, v)[w].dirty = FALSE
  BY <1>1, LoadedFacts
<1>4. Loaded(f, w, v)[w].needSync = FALSE
  BY <1>1, LoadedFacts
<1>5. w <= dbSize /\ w <= Len(f) => Loaded(f, w, v)[w].val = f[w]
  BY <1>1, LoadedFacts
<1>6. \A q \in DOMAIN cache : q # w /\ q # v => Loaded(f, w, v)[q] = cache[q]
  BY <1>1, LoadedFacts
<1>7. QED
  BY <1>2, <1>3, <1>4, <1>5, <1>6 DEF f, w

\* The flags, after the end of a transaction, a rollback and any step.
LEMMA EndFlags ==
    ASSUME NEW f, NEW c, c \in [DOMAIN c -> Cached], EndTransaction(f, c)
    PROVE  Flags'
<1>1. state' = "shared" /\ job' = "ready"
  BY DEF EndTransaction
<1>2. \A p \in DOMAIN cache' : ~cache'[p].dirty /\ ~cache'[p].needSync
  BY DEF EndTransaction, Cached
<1>3. QED
  BY <1>1, <1>2 DEF Flags

LEMMA UndoFlags ==
    ASSUME PagerTypeOK, Places, Undo, InTransaction
    PROVE  Flags'
<1>1. CASE ~dirtyCache
  BY <1>1, EndFlags DEF Undo, PagerTypeOK
<1>2. CASE dirtyCache /\ state = "reserved"
  <2>1. Reloaded(file, journal.size) \in [DOMAIN Reloaded(file, journal.size) -> Cached]
    <3>1. journal # Absent /\ file \in Seq(Values)
      BY DEF Places, Underway, PagerTypeOK
    <3>2. journal.size \in Nat
      BY <3>1, JournalType, Numbers
    <3>3. QED
      BY <3>1, <3>2, ReloadedType
  <2>2. QED
    BY <1>2, <2>1, EndFlags DEF Undo
<1>3. CASE dirtyCache /\ state # "reserved"
  BY <1>3, UndoLeads DEF Undo, Flags, Live, InTransaction
<1>4. QED
  BY <1>1, <1>2, <1>3

\* A change of a page.
LEMMA ChangeFlags ==
    ASSUME PagerTypeOK, Places, Flags, InTransaction, UNCHANGED state, job' \notin {"flush", "delete"},
           NEW p \in DOMAIN cache, NEW v \in Values, Change(p, v)
    PROVE  Flags'
<1>1. journal # Absent
  BY DEF Places, Underway
<1>2. /\ \/ journal' = journal
         \/ PagesOf(journal'.recs) = PagesOf(journal.recs) \cup {p}
      /\ \/ stmt' = stmt
         \/ stmt # Absent /\ stmt' # Absent /\ PagesOf(stmt'.saved) = PagesOf(stmt.saved) \cup {p}
      /\ DOMAIN cache' = DOMAIN cache
      /\ cache'[p].dirty
      /\ \A q \in DOMAIN cache : q # p => cache'[q] = cache[q]
      /\ dirtyCache'
  BY <1>1, ChangeEffect
<1>3. state' # "shared"
  BY DEF InTransaction
<1>4. ASSUME state' = "reserved",
             NEW q \in PagesOf(journal'.recs) \cup (IF stmt' = Absent THEN {} ELSE PagesOf(stmt'.saved))
      PROVE  q \in DOMAIN cache' /\ cache'[q].dirty
  <2>1. CASE q = p
    BY <1>2, <2>1
  <2>2. CASE q # p
    <3>1. q \in PagesOf(journal.recs) \cup (IF stmt = Absent THEN {} ELSE PagesOf(stmt.saved))
      BY <1>2, <1>4, <2>2
    <3>2. QED
      BY <1>2, <1>4, <2>2, <3>1 DEF Flags
  <2>3. QED
    BY <2>1, <2>2
<1>5. QED
  BY <1>2, <1>3, <1>4 DEF Flags

\* A page that is loaded is clean, and a page with a record stays.
LEMMA LoadedFlags ==
    ASSUME Flags, NEW p, NEW v,
           DOMAIN cache' = (DOMAIN cache \cup {p}) \ {v},
           ~cache'[p].dirty, ~cache'[p].needSync,
           \A q \in DOMAIN cache : q # p /\ q # v => cache'[q] = cache[q],
           p \notin DOMAIN cache, v \in DOMAIN cache => ~cache[v].dirty,
           UNCHANGED <<state, dirtyCache, journal, stmt>>,
           job # "playback", job' \notin {"flush", "delete"}
    PROVE  Flags'
<1>1. ASSUME \A q \in DOMAIN cache : ~cache[q].dirty
      PROVE  \A q \in DOMAIN cache' : ~cache'[q].dirty
  BY <1>1
<1>2. ASSUME state = "shared" \/ (Live' /\ ~dirtyCache)
      PROVE  \A q \in DOMAIN cache' : ~cache'[q].dirty
  <2>1. state = "shared" \/ (Live /\ ~dirtyCache)
    BY <1>2 DEF Live, Underway, InTransaction
  <2>2. QED
    BY <1>1, <2>1 DEF Flags
<1>3. ASSUME state = "shared"
      PROVE  \A q \in DOMAIN cache' : ~cache'[q].needSync
  BY <1>3 DEF Flags
<1>4. ASSUME state = "reserved",
             NEW q \in PagesOf(journal.recs) \cup (IF stmt = Absent THEN {} ELSE PagesOf(stmt.saved))
      PROVE  q \in DOMAIN cache' /\ cache'[q].dirty
  <2>1. q \in DOMAIN cache /\ cache[q].dirty
    BY <1>4 DEF Flags
  <2>2. QED
    BY <2>1
<1>5. QED
  BY <1>2, <1>3, <1>4 DEF Flags

LEMMA FlagsStep ==
    ASSUME PagerTypeOK, Places, Present, Sizes, Unchanged, Flags, PagerNext
    PROVE  Flags'
<1> USE DEF disk, memory
<1>1. CASE Open
  <2>1. CASE journal = Absent
    <3>1. state' = "shared" /\ cache' = [p \in {1} |-> Read(file, 1)]
      BY <1>1, <2>1 DEF Open
    <3>2. \A p \in DOMAIN cache' : ~cache'[p].dirty /\ ~cache'[p].needSync
      BY <3>1 DEF Read
    <3>3. QED
      BY <3>1, <3>2 DEF Flags
  <2>2. CASE journal # Absent
    BY <1>1, <2>2 DEF Open, Flags, Live
  <2>3. QED
    BY <2>1, <2>2
<1>2. CASE Release
  BY <1>2 DEF Release, Flags, Live, Underway, InTransaction
<1>3. CASE Begin
  <2>1. journal' = [size |-> dbSize, valid |-> TRUE, recs |-> <<>>, counted |-> 0]
    BY <1>3 DEF Begin
  <2>2. PagesOf(journal'.recs) = {}
    BY <2>1 DEF PagesOf
  <2>3. stmt' = Absent /\ state' = "reserved" /\ state = "shared" /\ UNCHANGED <<cache, job>> /\ job = "ready"
    BY <1>3 DEF Begin, Places
  <2>4. QED
    BY <2>2, <2>3 DEF Flags
<1>4. CASE Get
  <2>1. PICK p \in Pages \ DOMAIN cache :
             \/ cache' = Loaded(file, p, 0) /\ job' = Then(p)
             \/ cache' = cache /\ job' \in {"write", "sync"}
    BY <1>4, GetEffect
  <2>2. job = "ready" /\ UNCHANGED <<state, dirtyCache, journal, stmt>>
    BY <1>4 DEF Get
  <2>3. CASE cache' = Loaded(file, p, 0) /\ job' = Then(p)
    <3>1. file \in Seq(Values) /\ p # 0 /\ 0 \notin DOMAIN cache
      BY Numbers DEF PagerTypeOK
    <3>2. /\ DOMAIN cache' = (DOMAIN cache \cup {p}) \ {0}
          /\ ~cache'[p].dirty /\ ~cache'[p].needSync
          /\ \A q \in DOMAIN cache : q # p /\ q # 0 => cache'[q] = cache[q]
      BY <2>3, LoadedFree
    <3>3. QED
      BY <2>1, <2>2, <2>3, <3>1, <3>2, LoadedFlags DEF Then
  <2>4. CASE cache' = cache /\ job' \in {"write", "sync"}
    BY <2>2, <2>4 DEF Flags, Live, Underway, InTransaction
  <2>5. QED
    BY <2>1, <2>3, <2>4
<1>5. CASE Write
  <2>1. PICK p \in DOMAIN cache, v \in Values : Change(p, v)
    BY <1>5 DEF Write, Present
  <2>2. QED
    BY <1>5, <2>1, ChangeFlags DEF Write
<1>6. CASE WriteFails
  BY <1>6, UndoFlags DEF WriteFails
<1>7. CASE StmtBegin
  <2>1. stmt'.saved = <<>> /\ stmt = Absent /\ UNCHANGED <<state, journal, cache, job, dirtyCache>>
    BY <1>7 DEF StmtBegin
  <2>2. PagesOf(stmt'.saved) = {}
    BY <2>1 DEF PagesOf
  <2>3. QED
    BY <2>1, <2>2 DEF Flags, Live, Underway, InTransaction
<1>8. CASE StmtCommit
  BY <1>8 DEF StmtCommit, Flags, Live, Underway, InTransaction
<1>9. CASE StmtRollback
  <2>1. stmt' = Absent /\ UNCHANGED <<journal, state, job, dirtyCache>> /\ job = "ready"
    BY <1>9 DEF StmtRollback
  <2>2. /\ Live /\ InTransaction /\ stmt # Absent
        /\ PagesOf(StmtRecords) \subseteq PagesOf(stmt.saved) \cup PagesOf(journal.recs)
        /\ DOMAIN cache' = DOMAIN cache
        /\ \A p \in DOMAIN cache :
              /\ p \notin PagesOf(StmtRecords) => cache'[p] = cache[p]
              /\ p \in PagesOf(StmtRecords) => cache'[p].dirty = (cache[p].dirty /\ state # "exclusive")
    BY <1>9, StmtRollbackEffect
  <2>3. ASSUME NEW p \in DOMAIN cache, cache'[p].dirty
        PROVE  cache[p].dirty
    BY <2>2, <2>3
  <2>4. ASSUME NEW p \in DOMAIN cache, cache[p].dirty, state = "reserved"
        PROVE  cache'[p].dirty
    BY <2>2, <2>4
  <2>5. QED
    BY <2>1, <2>2, <2>3, <2>4 DEF Flags, InTransaction
<1>10. CASE Commit
  <2>1. CASE ~dirtyCache
    BY <1>10, <2>1, EndFlags DEF Commit, PagerTypeOK
  <2>2. CASE dirtyCache
    <3>1. PICK v \in Values : Change(1, v)
      BY <1>10, <2>2 DEF Commit
    <3>2. 1 \in DOMAIN cache
      BY <1>10 DEF Commit, Present, Live, Underway
    <3>3. QED
      BY <1>10, <2>2, <3>1, <3>2, ChangeFlags DEF Commit
  <2>3. QED
    BY <2>1, <2>2
<1>11. CASE SyncRecords
  <2>1. journal # Absent
    BY <1>11 DEF SyncRecords, Places, Underway
  <2>2. journal'.recs = journal.recs
    BY <1>11, <2>1, JournalType DEF SyncRecords, JournalFiles
  <2>3. job = "sync" /\ job' \in {"count", "write"} /\ UNCHANGED <<state, cache, stmt, dirtyCache>>
    BY <1>11 DEF SyncRecords
  <2>4. QED
    BY <2>2, <2>3 DEF Flags, Live, Underway, InTransaction
<1>12. CASE SyncCount
  <2>1. job = "count" /\ job' = "write" /\ UNCHANGED <<state, journal, stmt, dirtyCache>> /\ InTransaction
    BY <1>12 DEF SyncCount, Places
  <2>2. DOMAIN cache' = DOMAIN cache /\ \A p \in DOMAIN cache : cache'[p].dirty = cache[p].dirty
    BY <1>12 DEF SyncCount, PagerTypeOK, Cached
  <2>3. QED
    BY <2>1, <2>2 DEF Flags, Live, Underway, InTransaction
<1>13. CASE Recycle
  <2>1. PICK v \in Recyclable :
          /\ want \in Pages \ DOMAIN cache /\ v \in Pages \ {1, want}
          /\ \/ UNCHANGED <<file, state>> /\ ~cache[v].dirty
             \/ /\ cache[v].dirty
                /\ file' = Put(file, v, cache[v].val)
                /\ state' = "exclusive"
          /\ cache' = Loaded(file', want, v)
    BY <1>13, RecycleEffect
  <2>2. v \in DOMAIN cache /\ cache[v].val \in Values
    BY <2>1 DEF Recyclable, PagerTypeOK, Cached
  <2>3. file' \in Seq(Values)
    <3>1. v \in Pages /\ file \in Seq(Values)
      BY <2>1 DEF PagerTypeOK
    <3>2. Put(file, v, cache[v].val) \in Seq(Values)
      BY <3>1, <2>2, PutType
    <3>3. QED
      BY <2>1, <3>1, <3>2
  <2>4. /\ DOMAIN cache' = (DOMAIN cache \cup {want}) \ {v}
        /\ ~cache'[want].dirty /\ ~cache'[want].needSync
        /\ \A q \in DOMAIN cache : q # want /\ q # v => cache'[q] = cache[q]
    <3>1. want \in Pages /\ v \in Pages \cup {0} /\ want # v
      BY <2>1
    <3> DEFINE c == Loaded(file', want, v)
    <3>2. /\ ~c[want].dirty /\ ~c[want].needSync
          /\ \A q \in DOMAIN cache : q # want /\ q # v => c[q] = cache[q]
      BY <2>3, <3>1, LoadedFacts
    <3>3. DOMAIN c = (DOMAIN cache \cup {want}) \ {v}
      BY DEF Loaded
    <3> HIDE DEF c
    <3>4. cache' = c
      BY <2>1 DEF c
    <3>5. QED
      BY <3>2, <3>3, <3>4
  <2>5. /\ job = "write" /\ job' \in {"append", "ready"} /\ state # "unlock"
        /\ UNCHANGED <<dirtyCache, journal, stmt>>
    BY <1>13 DEF Recycle, Then, Places
  <2>6. CASE UNCHANGED <<file, state>> /\ ~cache[v].dirty
    BY <2>1, <2>4, <2>5, <2>6, LoadedFlags
  <2>7. CASE cache[v].dirty /\ state' = "exclusive"
    <3>1. dirtyCache
      BY <2>2, <2>5, <2>7 DEF Flags, Live, Underway, InTransaction, Places, PagerTypeOK
    <3>2. QED
      BY <2>5, <2>7, <3>1 DEF Flags
  <2>8. QED
    BY <2>1, <2>6, <2>7
<1>14. CASE WriteDirty
  <2>1. PICK p \in DOMAIN cache :
          /\ cache[p].dirty
          /\ cache' = [cache EXCEPT ![p].dirty = FALSE]
          /\ job' = IF \E q \in DOMAIN cache \ {p} : cache[q].dirty THEN "write" ELSE "flush"
    BY <1>14 DEF WriteDirty
  <2>2. dirtyCache' /\ state' = "exclusive"
    BY <1>14, <2>1 DEF WriteDirty, Flags, Live, Underway, Places
  <2>3. ASSUME job' = "flush", NEW q \in DOMAIN cache'
        PROVE  ~cache'[q].dirty
    <3>1. q \in DOMAIN cache /\ cache[q] \in Cached
      BY <2>1 DEF PagerTypeOK
    <3>2. q # p => ~cache[q].dirty
      BY <2>1, <2>3, <3>1
    <3>3. QED
      BY <2>1, <3>1, <3>2 DEF Cached
  <2>4. QED
    BY <2>1, <2>2, <2>3 DEF Flags
<1>15. CASE Busy
  <2>1. CASE want = 0
    BY <1>15, <2>1 DEF Busy, Flags, Live, Underway, InTransaction
  <2>2. CASE want # 0
    BY <1>15, <2>2, UndoFlags DEF Busy, InTransaction
  <2>3. QED
    BY <2>1, <2>2
<1>16. CASE Flush
  BY <1>16 DEF Flush, Flags
<1>17. CASE Delete
  BY <1>17, EndFlags DEF Delete, PagerTypeOK
<1>18. CASE Rollback
  BY <1>18, UndoFlags DEF Rollback
<1>19. CASE Playback
  <2>1. CASE journal.valid /\ replayed < journal.counted
    BY <1>19, <2>1 DEF Playback, Places, Flags, Live
  <2>2. CASE ~(journal.valid /\ replayed < journal.counted)
    BY <1>19, <2>2, EndFlags DEF Playback, PagerTypeOK
  <2>3. QED
    BY <2>1, <2>2
<1>20. CASE Crash
  BY <1>20 DEF Crash, Gone, Flags, Live, Underway, InTransaction
<1>21. CASE PowerLoss
  BY <1>21 DEF PowerLoss, Gone, Flags, Live, Underway, InTransaction
<1> QED
  BY <1>1, <1>2, <1>3, <1>4, <1>5, <1>6, <1>7, <1>8, <1>9, <1>10, <1>11, <1>12, <1>13, <1>14,
     <1>15, <1>16, <1>17, <1>18, <1>19, <1>20, <1>21 DEF PagerNext

\* What the file keeps, after the end of a transaction, a rollback and any step.
LEMMA EndKept ==
    ASSUME NEW f \in Seq(Values), NEW c, c \in [DOMAIN c -> Cached],
           EndTransaction(f, c),
           \A p \in unread' : p <= Len(f),
           \A p \in DOMAIN c \ unread' : p <= Len(f) => c[p].val = f[p]
    PROVE  Kept'
<1>1. /\ state' = "shared" /\ job' = "ready" /\ file' = f /\ dbSize' = Len(f)
  BY DEF EndTransaction
<1>2. DOMAIN cache' = DOMAIN c /\ \A p \in DOMAIN c : cache'[p].val = c[p].val
  BY DEF EndTransaction, Cached
<1>3. \A p \in 1..Len(f) : p <= Len(f)
  OBVIOUS
<1>4. QED
  BY <1>1, <1>2, <1>3 DEF Kept, CleanIsStoredOtherwise, Stored, Underway, InTransaction

LEMMA UndoKept ==
    ASSUME PagerTypeOK, Places, Sizes, Unchanged, Flags, Kept, Undo, InTransaction, job # "playback"
    PROVE  Kept'
<1>1. Live /\ Underway /\ journal # Absent
  BY DEF Places, Live, Underway
<1>2. /\ journal.size \in Nat /\ Len(file) \in Nat /\ file \in Seq(Values) /\ dbSize \in Nat
      /\ \A p \in Pages : p \in Nat /\ 1 <= p
      /\ DOMAIN cache \subseteq Pages /\ unread \subseteq Pages
  BY <1>1, JournalNumbers, FileType, Numbers
<1>3. /\ journal.size <= Len(file) /\ journal.size <= dbSize
      /\ \A p \in unread : p <= journal.size
      /\ \A p \in DOMAIN cache \ unread :
            ~cache[p].dirty /\ p <= dbSize => p <= Len(file) /\ cache[p].val = file[p]
  BY <1>1 DEF Sizes, Kept, CleanIsStoredOtherwise, Stored
<1>4. /\ Truncated(file, journal.size) \in Seq(Values)
      /\ Len(Truncated(file, journal.size)) = journal.size
      /\ \A p \in 1..journal.size : Truncated(file, journal.size)[p] = file[p]
  <2>1. \A p \in 1..journal.size : p <= Len(file)
    BY <1>2, <1>3
  <2>2. QED
    BY <1>2, <2>1, TruncatedFacts
<1>5. CASE ~dirtyCache
  <2>1. Len(file) = dbSize /\ journal.size = dbSize /\ \A p \in DOMAIN cache : ~cache[p].dirty
    BY <1>1, <1>5 DEF Unchanged, Flags
  <2>2. EndTransaction(file, cache) /\ unread' = unread
    BY <1>5 DEF Undo
  <2>3. \A p \in DOMAIN cache \ unread : p <= Len(file) => cache[p].val = file[p]
    BY <1>3, <2>1
  <2>4. \A p \in unread : p <= Len(file)
    BY <1>3, <2>1
  <2>5. cache \in [DOMAIN cache -> Cached]
    BY DEF PagerTypeOK
  <2>6. QED
    BY <1>2, <2>2, <2>3, <2>4, <2>5, EndKept
<1>6. CASE dirtyCache /\ state = "reserved"
  <2> DEFINE f == Truncated(file, journal.size)
             c == Reloaded(file, journal.size)
  <2>1. EndTransaction(f, c) /\ unread' = unread
    BY <1>6 DEF Undo
  <2>2. DOMAIN c = DOMAIN cache /\ c \in [DOMAIN c -> Cached]
    BY <1>2, ReloadedType
  <2>3. ASSUME NEW p \in DOMAIN cache \ unread, p <= journal.size
        PROVE  c[p].val = f[p]
    <3>1. p \in 1..journal.size /\ p <= Len(file) /\ p <= dbSize /\ ~(p > journal.size)
      BY <1>2, <1>3, <2>3
    <3>2. f[p] = file[p]
      BY <1>4, <3>1
    <3>3. CASE cache[p].dirty
      <4>1. c[p] = Read(file, p)
        BY <3>1, <3>3 DEF Reloaded
      <4>2. QED
        BY <3>1, <3>2, <4>1 DEF Read
    <3>4. CASE ~cache[p].dirty
      <4>1. c[p] = cache[p]
        BY <3>4 DEF Reloaded
      <4>2. QED
        BY <1>3, <3>1, <3>2, <3>4, <4>1
    <3>5. QED
      BY <3>3, <3>4
  <2> HIDE DEF f, c
  <2>4. f \in Seq(Values) /\ Len(f) = journal.size
    BY <1>4 DEF f
  <2>5. QED
    BY <1>3, <2>1, <2>2, <2>3, <2>4, EndKept
<1>7. CASE dirtyCache /\ state # "reserved"
  <2>1. /\ file' = Truncated(file, journal.size) /\ job' = "playback"
        /\ UNCHANGED <<journal, state, cache, dbSize, unread>>
    BY <1>7 DEF Undo, memory
  <2>2. ASSUME NEW p \in DOMAIN cache \ unread, ~cache[p].dirty, p <= Len(file')
        PROVE  cache[p].val = file'[p]
    <3>1. p \in 1..journal.size /\ p <= dbSize
      BY <1>2, <1>3, <1>4, <2>1, <2>2
    <3>2. QED
      BY <1>3, <1>4, <2>1, <2>2, <3>1
  <2>3. state' # "shared" /\ \A p \in unread' : p <= journal'.size
    BY <1>3, <2>1 DEF InTransaction
  <2>4. QED
    BY <2>1, <2>2, <2>3 DEF Kept, CleanIsStoredOtherwise
<1>8. QED
  BY <1>5, <1>6, <1>7

\* A change of a page.
LEMMA ChangeKept ==
    ASSUME PagerTypeOK, Places, Kept, InTransaction, job # "playback", job' # "playback",
           NEW p \in DOMAIN cache, NEW v \in Values, Change(p, v), p <= dbSize + 1,
           UNCHANGED <<file, state, unread>>
    PROVE  Kept'
<1>1. journal # Absent /\ Underway /\ state # "shared"
  BY DEF Places, Underway, InTransaction
<1>2. /\ journal'.size = journal.size /\ DOMAIN cache' = DOMAIN cache
      /\ cache'[p].dirty
      /\ \A q \in DOMAIN cache : q # p => cache'[q] = cache[q]
      /\ dbSize' = dbSize \/ (p > dbSize /\ dbSize' = p)
  BY <1>1, ChangeEffect
<1>3. dbSize \in Nat /\ p \in Nat /\ DOMAIN cache \subseteq Nat
  BY Numbers DEF PagerTypeOK
<1>4. dbSize' \in Nat /\ \A q \in Nat : q <= dbSize' /\ q # p => q <= dbSize
  BY <1>2, <1>3
<1>5. \A q \in 1..dbSize' : q \in DOMAIN cache \/ q <= Len(file)
  BY <1>3, <1>4 DEF Kept
<1>6. \A q \in DOMAIN cache' \ unread' : ~cache'[q].dirty /\ q <= dbSize' => q <= Len(file) /\ cache'[q].val = file[q]
  BY <1>2, <1>3, <1>4 DEF Kept, CleanIsStoredOtherwise, Stored
<1>7. \A q \in unread' : q <= journal'.size
  BY <1>1, <1>2 DEF Kept
<1>8. QED
  BY <1>1, <1>2, <1>5, <1>6, <1>7 DEF Kept, CleanIsStoredOtherwise, Stored

\* A page that is written to the file: the others stay as they are in it.
LEMMA PutKept ==
    ASSUME PagerTypeOK, Kept, job # "playback", NEW p \in DOMAIN cache,
           file' = Put(file, p, cache[p].val)
    PROVE  /\ file' \in Seq(Values)
           /\ Len(file') \in Nat /\ Len(file) \in Nat /\ Len(file) <= Len(file') /\ p <= Len(file')
           /\ file'[p] = cache[p].val
           /\ \A q \in 1..Len(file) : q # p => file'[q] = file[q]
<1>1. /\ p \in Pages /\ p \in Nat \ {0} /\ cache[p].val \in Values
      /\ file \in Seq(Values) /\ Len(file) \in Nat
  BY Numbers DEF PagerTypeOK, Cached
<1>2. /\ file' \in Seq(Values)
      /\ p > Len(file) => Len(file') = p
      /\ p <= Len(file) => Len(file') = Len(file)
      /\ file'[p] = cache[p].val
      /\ \A q \in 1..Len(file) : q # p => file'[q] = file[q]
  BY <1>1, PutValue
<1>3. Len(file') \in Nat /\ Len(file) <= Len(file') /\ p <= Len(file')
  BY <1>1, <1>2
<1>4. QED
  BY <1>1, <1>2, <1>3

\* A page that is loaded is what the file has, and the one that leaves the cache
\* for it is in the file.
LEMMA LoadedKept ==
    ASSUME PagerTypeOK, Kept, job # "playback", job' # "playback",
           NEW p \in Pages \ DOMAIN cache, NEW v \in Pages \cup {0}, p # v,
           file' \in Seq(Values), Len(file) <= Len(file'), v <= Len(file'),
           \A q \in 1..Len(file) : q # v => file'[q] = file[q],
           cache' = Loaded(file', p, v),
           UNCHANGED <<dbSize, unread, journal>>,
           state' = "shared" => state = "shared", Underway' => Underway
    PROVE  Kept'
<1>1. /\ dbSize \in Nat /\ Len(file) \in Nat /\ Len(file') \in Nat /\ p \in Nat /\ v \in Nat
      /\ DOMAIN cache \subseteq Pages /\ unread \subseteq Pages /\ \A q \in Pages : q \in Nat /\ 1 <= q
  BY FileType, Numbers
<1>2. /\ DOMAIN cache' = (DOMAIN cache \cup {p}) \ {v}
      /\ \A q \in DOMAIN cache : q # p /\ q # v => cache'[q] = cache[q]
  BY DEF Loaded
<1>3. p <= dbSize /\ p <= Len(file') => cache'[p].val = file'[p]
  <2> DEFINE c == Loaded(file', p, v)
  <2>1. p <= dbSize /\ p <= Len(file') => c[p].val = file'[p]
    BY LoadedFacts
  <2>2. cache' = c
    OBVIOUS
  <2> HIDE DEF c
  <2>3. QED
    BY <2>1, <2>2
<1>4. \A q \in 1..dbSize : q \in DOMAIN cache' \/ q <= Len(file')
  <2>1. ASSUME NEW q \in 1..dbSize
        PROVE  q \in DOMAIN cache' \/ q <= Len(file')
    <3>1. q \in DOMAIN cache \/ q <= Len(file)
      BY DEF Kept
    <3>2. CASE q <= Len(file)
      BY <1>1, <3>2
    <3>3. CASE q \in DOMAIN cache
      BY <1>2, <3>3
    <3>4. QED
      BY <3>1, <3>2, <3>3
  <2>2. QED
    BY <2>1
<1>5. ASSUME NEW q \in DOMAIN cache' \ unread, ~cache'[q].dirty, q <= dbSize
      PROVE  q <= Len(file') /\ cache'[q].val = file'[q]
  <2>1. CASE q = p
    <3>1. p \in 1..dbSize
      BY <1>1, <1>5, <2>1
    <3>2. p <= Len(file')
      BY <1>1, <3>1 DEF Kept
    <3>3. QED
      BY <1>3, <1>5, <2>1, <3>2
  <2>2. CASE q # p
    <3>1. q \in DOMAIN cache \ unread /\ q # v /\ cache'[q] = cache[q]
      BY <1>2, <2>2
    <3>2. q <= Len(file) /\ cache[q].val = file[q]
      BY <1>5, <3>1 DEF Kept, CleanIsStoredOtherwise, Stored
    <3>3. q \in Nat /\ 1 <= q
      BY <1>1, <3>1
    <3>4. q \in 1..Len(file) /\ q <= Len(file')
      BY <1>1, <3>2, <3>3
    <3>5. QED
      BY <3>1, <3>2, <3>4
  <2>3. QED
    BY <2>1, <2>2
<1>6. state' = "shared" => \A q \in unread : q <= Len(file')
  BY <1>1 DEF Kept
<1>7. Underway' => \A q \in unread' : q <= journal'.size
  BY DEF Kept
<1>8. QED
  BY <1>4, <1>5, <1>6, <1>7 DEF Kept, CleanIsStoredOtherwise, Stored

LEMMA KeptStep ==
    ASSUME PagerTypeOK, Places, Present, Sizes, Unchanged, Flags, Kept, PagerNext
    PROVE  Kept'
<1> USE DEF disk, memory
<1>1. CASE Open
  <2>1. unread = {} /\ cache = <<>> /\ unread' = {} /\ state = "unlock"
    BY <1>1 DEF Open, Places
  <2>2. CASE journal = Absent
    <3>1. /\ state' = "shared" /\ dbSize' = Len(file) /\ file' = file
          /\ cache' = [p \in {1} |-> Read(file, 1)] /\ job' = "ready"
      BY <1>1, <2>2 DEF Open, Places
    <3>2. Len(file) \in Nat /\ 1 <= Len(file) /\ file \in Seq(Values)
      BY Numbers DEF PagerTypeOK
    <3>3. DOMAIN cache' = {1} /\ cache'[1].val = file[1]
      BY <3>1, <3>2 DEF Read
    <3>4. QED
      BY <2>1, <3>1, <3>2, <3>3 DEF Kept, CleanIsStoredOtherwise, Stored, Underway, InTransaction
  <2>3. CASE journal # Absent
    <3>1. job' = "playback" /\ cache' = <<>> /\ state' = "exclusive"
      BY <1>1, <2>1, <2>3 DEF Open
    <3>2. QED
      BY <2>1, <3>1 DEF Kept, CleanIsStoredOtherwise
  <2>4. QED
    BY <2>2, <2>3
<1>2. CASE Release
  BY <1>2 DEF Release, Kept, CleanIsStoredOtherwise, Underway, InTransaction
<1>3. CASE Begin
  <2>1. journal' = [size |-> dbSize, valid |-> TRUE, recs |-> <<>>, counted |-> 0]
    BY <1>3 DEF Begin
  <2>2. journal'.size = dbSize
    BY <2>1
  <2>3. dbSize = Len(file) /\ \A p \in unread : p <= Len(file)
    BY <1>3 DEF Begin, Sizes, Kept
  <2>4. /\ UNCHANGED <<file, cache, dbSize, unread, job>>
        /\ state' = "reserved" /\ job = "ready"
    BY <1>3 DEF Begin
  <2>5. QED
    BY <2>2, <2>3, <2>4 DEF Kept, CleanIsStoredOtherwise, Stored
<1>4. CASE Get
  <2>1. PICK p \in Pages \ DOMAIN cache :
             \/ cache' = Loaded(file, p, 0) /\ job' = Then(p)
             \/ cache' = cache /\ job' \in {"write", "sync"}
    BY <1>4, GetEffect
  <2>2. /\ job = "ready" /\ UNCHANGED <<file, state, dbSize, unread, journal>>
    BY <1>4 DEF Get
  <2>3. CASE cache' = Loaded(file, p, 0) /\ job' = Then(p)
    <3>1. /\ p # 0 /\ 0 \in Pages \cup {0} /\ file' \in Seq(Values)
          /\ Len(file) <= Len(file') /\ 0 <= Len(file')
      BY <2>2, Numbers DEF PagerTypeOK
    <3>2. job' # "playback" /\ job # "playback"
      BY <2>2, <2>3 DEF Then
    <3>3. cache' = Loaded(file', p, 0)
      BY <2>2, <2>3
    <3>4. (state' = "shared" => state = "shared") /\ (Underway' => Underway)
      BY <2>2 DEF Underway, InTransaction
    <3>5. \A q \in 1..Len(file) : q # 0 => file'[q] = file[q]
      BY <2>2
    <3>6. QED
      BY <2>2, <3>1, <3>2, <3>3, <3>4, <3>5, LoadedKept
  <2>4. CASE cache' = cache /\ job' \in {"write", "sync"}
    BY <2>2, <2>4 DEF Kept, CleanIsStoredOtherwise, Stored, Underway, InTransaction
  <2>5. QED
    BY <2>1, <2>3, <2>4
<1>5. CASE Write
  <2>1. PICK p \in DOMAIN cache, v \in Values : p <= dbSize + 1 /\ Change(p, v)
    BY <1>5 DEF Write, Present
  <2>2. QED
    BY <1>5, <2>1, ChangeKept DEF Write
<1>6. CASE WriteFails
  BY <1>6, UndoKept DEF WriteFails
<1>7. CASE StmtBegin
  BY <1>7 DEF StmtBegin, Kept, CleanIsStoredOtherwise, Stored, Underway, InTransaction
<1>8. CASE StmtCommit
  BY <1>8 DEF StmtCommit, Kept, CleanIsStoredOtherwise, Stored, Underway, InTransaction
<1>9. CASE StmtRollback
  <2>1. /\ UNCHANGED <<journal, state, job, unread>> /\ job = "ready"
    BY <1>9 DEF StmtRollback
  <2>2. /\ Live /\ InTransaction /\ stmt # Absent /\ stmt.size \in Pages
        /\ PagesOf(StmtRecords) \subseteq PagesOf(stmt.saved) \cup PagesOf(journal.recs)
        /\ Len(file') = stmt.size /\ dbSize' = stmt.size
        /\ \A p \in 1..stmt.size :
              file'[p] = IF state = "exclusive" /\ p \in PagesOf(StmtRecords)
                         THEN ValueIn(StmtRecords, p)
                         ELSE IF p <= Len(file) THEN file[p] ELSE Blank
        /\ DOMAIN cache' = DOMAIN cache
    BY <1>9, StmtRollbackEffect
  <2>3. \A p \in DOMAIN cache :
              /\ p \notin PagesOf(StmtRecords) => cache'[p] = cache[p]
              /\ p \in PagesOf(StmtRecords) =>
                    /\ cache'[p].val = ValueIn(StmtRecords, p)
                    /\ cache'[p].dirty = (cache[p].dirty /\ state # "exclusive")
    BY <1>9, StmtRollbackEffect
  <2>4. stmt.size <= dbSize /\ stmt.size \in Nat /\ dbSize \in Nat
    BY <2>2, StmtType, FileType, Numbers DEF Sizes
  <2>5. ASSUME NEW p \in DOMAIN cache \ unread, ~cache'[p].dirty, p <= stmt.size
        PROVE  cache'[p].val = file'[p]
    <3>1. p \in 1..stmt.size /\ p <= dbSize
      BY <2>4, <2>5, FileType, Numbers
    <3>2. CASE p \in PagesOf(StmtRecords)
      <4>1. state # "reserved"
        BY <2>2, <2>3, <2>5, <3>2 DEF Flags
      <4>2. state = "exclusive"
        BY <2>2, <4>1 DEF InTransaction
      <4>3. QED
        BY <2>2, <2>3, <3>1, <3>2, <4>2
    <3>3. CASE p \notin PagesOf(StmtRecords)
      <4>1. cache'[p] = cache[p] /\ p <= Len(file) /\ cache[p].val = file[p]
        BY <2>1, <2>3, <2>5, <3>1, <3>3 DEF Kept, CleanIsStoredOtherwise, Stored
      <4>2. QED
        BY <2>2, <3>1, <3>3, <4>1
    <3>4. QED
      BY <3>2, <3>3
  <2>6. \A p \in 1..dbSize' : p <= Len(file')
    BY <2>2, <2>4
  <2>7. QED
    BY <2>1, <2>2, <2>5, <2>6 DEF Kept, CleanIsStoredOtherwise, Stored, Underway, InTransaction
<1>10. CASE Commit
  <2>1. CASE ~dirtyCache
    <3>1. Undo /\ InTransaction /\ job # "playback"
      BY <1>10, <2>1 DEF Commit, Undo
    <3>2. QED
      BY <3>1, UndoKept
  <2>2. CASE dirtyCache
    <3>1. PICK v \in Values : Change(1, v)
      BY <1>10, <2>2 DEF Commit
    <3>2. 1 \in DOMAIN cache
      BY <1>10 DEF Commit, Present, Live, Underway
    <3>3. 1 <= dbSize + 1
      BY Numbers DEF PagerTypeOK
    <3>4. QED
      BY <1>10, <2>2, <3>1, <3>2, <3>3, ChangeKept DEF Commit
  <2>3. QED
    BY <2>1, <2>2
<1>11. CASE SyncRecords
  <2>1. journal # Absent
    BY <1>11 DEF SyncRecords, Places, Underway
  <2>2. journal'.size = journal.size
    BY <1>11, <2>1, JournalType DEF SyncRecords, JournalFiles
  <2>3. /\ job = "sync" /\ job' \in {"count", "write"}
        /\ UNCHANGED <<file, state, cache, dbSize, unread>>
    BY <1>11 DEF SyncRecords
  <2>4. QED
    BY <2>2, <2>3 DEF Kept, CleanIsStoredOtherwise, Stored, Underway, InTransaction
<1>12. CASE SyncCount
  <2>1. /\ job = "count" /\ job' = "write"
        /\ UNCHANGED <<file, state, journal, dbSize, unread>>
    BY <1>12 DEF SyncCount
  <2>2. /\ DOMAIN cache' = DOMAIN cache
        /\ \A p \in DOMAIN cache : cache'[p].dirty = cache[p].dirty /\ cache'[p].val = cache[p].val
    BY <1>12 DEF SyncCount, PagerTypeOK, Cached
  <2>3. QED
    BY <2>1, <2>2 DEF Kept, CleanIsStoredOtherwise, Stored, Underway, InTransaction
<1>13. CASE Recycle
  <2>1. PICK v \in Recyclable :
          /\ want \in Pages \ DOMAIN cache /\ v \in Pages \ {1, want}
          /\ \/ UNCHANGED <<file, state>> /\ ~cache[v].dirty
             \/ /\ cache[v].dirty
                /\ file' = Put(file, v, cache[v].val)
                /\ state' = "exclusive"
          /\ cache' = Loaded(file', want, v)
    BY <1>13, RecycleEffect
  <2>2. v \in DOMAIN cache /\ v \in Nat /\ 1 <= v /\ dbSize \in Nat /\ Len(file) \in Nat /\ file \in Seq(Values)
    BY <2>1, Numbers DEF Recyclable, PagerTypeOK
  <2>3. /\ job = "write" /\ job' # "playback" /\ state # "unlock"
        /\ UNCHANGED <<dbSize, unread, journal>>
    BY <1>13 DEF Recycle, Then, Places
  <2>4. CASE UNCHANGED <<file, state>> /\ ~cache[v].dirty
    <3>1. CASE v <= dbSize
      <4>1. v <= Len(file)
        <5>1. CASE v \notin unread
          BY <2>2, <2>3, <2>4, <3>1, <5>1 DEF Kept, CleanIsStoredOtherwise, Stored
        <5>2. CASE v \in unread /\ state = "shared"
          BY <5>2 DEF Kept
        <5>3. CASE v \in unread /\ Underway
          <6>1. v <= journal.size /\ journal.size <= Len(file) /\ journal # Absent
            BY <2>3, <5>3 DEF Kept, Sizes, Live, Places
          <6>2. journal.size \in Nat
            BY <6>1, JournalType, Numbers
          <6>3. QED
            BY <2>2, <6>1, <6>2
        <5>4. state = "shared" \/ Underway
          BY <2>3 DEF Underway, InTransaction, PagerTypeOK
        <5>5. QED
          BY <5>1, <5>2, <5>3, <5>4
      <4>2. (state' = "shared" => state = "shared") /\ (Underway' => Underway)
        BY <2>4 DEF Underway, InTransaction
      <4>3. QED
        BY <2>1, <2>2, <2>3, <2>4, <4>1, <4>2, LoadedKept
    <3>2. CASE ~(v <= dbSize)
      <4>1. ASSUME NEW q \in 1..dbSize
            PROVE  q \in DOMAIN cache' \/ q <= Len(file')
        BY <2>1, <2>2, <2>3, <2>4, <3>2 DEF Kept, Loaded
      <4>2. want <= dbSize => want <= Len(file)
        BY <2>1, <2>2, <2>3, Numbers DEF Kept
      <4>3. want <= dbSize => cache'[want].val = file[want]
        <5>1. want \in Pages /\ v \in Pages \cup {0} /\ want # v
          BY <2>1
        <5>2. want <= dbSize /\ want <= Len(file) => Loaded(file, want, v)[want].val = file[want]
          BY <2>2, <5>1, LoadedFacts
        <5>3. QED
          BY <2>1, <2>4, <4>2, <5>2
      <4>4. \A q \in DOMAIN cache' : q # want => q \in DOMAIN cache /\ cache'[q] = cache[q]
        BY <2>1 DEF Loaded
      <4>5. QED
        BY <2>3, <2>4, <4>1, <4>2, <4>3, <4>4
           DEF Kept, CleanIsStoredOtherwise, Stored, Underway, InTransaction
    <3>3. QED
      BY <3>1, <3>2
  <2>5. CASE cache[v].dirty /\ file' = Put(file, v, cache[v].val) /\ state' = "exclusive"
    <3>1. /\ file' \in Seq(Values) /\ Len(file) <= Len(file') /\ v <= Len(file')
          /\ \A q \in 1..Len(file) : q # v => file'[q] = file[q]
      BY <2>2, <2>3, <2>5, PutKept
    <3>2. Underway
      BY <2>2, <2>3, <2>5 DEF Flags, Underway, InTransaction, PagerTypeOK
    <3>3. QED
      BY <2>1, <2>3, <2>5, <3>1, <3>2, LoadedKept
  <2>6. QED
    BY <2>1, <2>4, <2>5
<1>14. CASE WriteDirty
  <2>1. PICK p \in DOMAIN cache :
          /\ file' = Put(file, p, cache[p].val)
          /\ cache' = [cache EXCEPT ![p].dirty = FALSE]
          /\ job' \in {"write", "flush"}
    BY <1>14 DEF WriteDirty
  <2>2. InTransaction /\ job = "write" /\ state' = "exclusive" /\ UNCHANGED <<dbSize, unread, journal>>
    BY <1>14 DEF WriteDirty, Places
  <2>3. /\ Len(file') \in Nat /\ Len(file) \in Nat /\ Len(file) <= Len(file') /\ p <= Len(file')
        /\ file'[p] = cache[p].val
        /\ \A q \in 1..Len(file) : q # p => file'[q] = file[q]
    BY <2>1, <2>2, PutKept
  <2>4. /\ DOMAIN cache' = DOMAIN cache /\ cache'[p].val = cache[p].val
        /\ \A q \in DOMAIN cache : q # p => cache'[q] = cache[q]
    BY <2>1 DEF PagerTypeOK, Cached
  <2>5. /\ dbSize \in Nat /\ DOMAIN cache \subseteq Pages
        /\ \A q \in Pages : q \in Nat /\ 1 <= q
    BY Numbers DEF PagerTypeOK
  <2>6. \A q \in 1..dbSize : q \in DOMAIN cache \/ q <= Len(file')
    BY <2>2, <2>3, <2>5 DEF Kept
  <2>7. ASSUME NEW q \in DOMAIN cache \ unread, ~cache'[q].dirty, q <= dbSize
        PROVE  q <= Len(file') /\ cache'[q].val = file'[q]
    <3>1. CASE q = p
      BY <2>3, <2>4, <3>1
    <3>2. CASE q # p
      <4>1. q <= Len(file) /\ cache[q].val = file[q] /\ cache'[q] = cache[q]
        BY <2>2, <2>4, <2>7, <3>2 DEF Kept, CleanIsStoredOtherwise, Stored
      <4>2. q \in 1..Len(file) /\ q <= Len(file')
        BY <2>3, <2>5, <4>1
      <4>3. QED
        BY <2>3, <3>2, <4>1, <4>2
    <3>3. QED
      BY <3>1, <3>2
  <2>8. QED
    BY <2>1, <2>2, <2>4, <2>6, <2>7 DEF Kept, CleanIsStoredOtherwise, Stored, Underway
<1>15. CASE Busy
  <2>1. CASE want = 0
    BY <1>15, <2>1 DEF Busy, Kept, CleanIsStoredOtherwise, Stored, Underway, InTransaction
  <2>2. CASE want # 0
    BY <1>15, <2>2, UndoKept DEF Busy, InTransaction
  <2>3. QED
    BY <2>1, <2>2
<1>16. CASE Flush
  BY <1>16 DEF Flush, Places, Kept, CleanIsStoredOtherwise, Stored, Underway, InTransaction
<1>17. CASE Delete
  <2>1. /\ EndTransaction(file, cache) /\ Live
        /\ unread' = unread \cup {p \in DOMAIN cache : dbSize < p /\ p <= Len(file) /\ cache[p].val # file[p]}
    BY <1>17 DEF Delete, Places, Live, Underway
  <2>2. /\ journal.size \in Nat /\ Len(file) \in Nat /\ dbSize \in Nat /\ file \in Seq(Values)
        /\ unread \subseteq Nat /\ DOMAIN cache \subseteq Nat /\ cache \in [DOMAIN cache -> Cached]
    BY <2>1, JournalNumbers, FileType DEF Places, Live
  <2>3. \A p \in unread : p <= Len(file)
    <3>1. journal.size <= Len(file) /\ \A p \in unread : p <= journal.size
      BY <2>1 DEF Sizes, Kept, Live
    <3>2. QED
      BY <2>2, <3>1
  <2>4. ASSUME NEW p \in DOMAIN cache \ unread', p <= Len(file)
        PROVE  cache[p].val = file[p]
    <3>1. ~cache[p].dirty
      BY <1>17 DEF Delete, Flags
    <3>2. p \notin unread /\ p \in DOMAIN cache /\ ~(dbSize < p /\ cache[p].val # file[p])
      BY <2>1, <2>4
    <3>3. CASE p <= dbSize
      BY <1>17, <3>1, <3>2, <3>3 DEF Delete, Kept, CleanIsStoredOtherwise, Stored
    <3>4. CASE dbSize < p
      BY <3>2, <3>4
    <3>5. p \in Nat
      BY <2>2
    <3>6. QED
      BY <2>2, <3>3, <3>4, <3>5
  <2>5. \A p \in unread' : p <= Len(file)
    BY <2>1, <2>3
  <2>6. QED
    BY <2>1, <2>2, <2>4, <2>5, EndKept
<1>18. CASE Rollback
  BY <1>18, UndoKept DEF Rollback
<1>19. CASE Playback
  <2>1. CASE journal.valid /\ replayed < journal.counted
    <3>1. PICK r \in Record :
              /\ r.page \in 1..Len(file)
              /\ file' = Put(file, r.page, r.val) /\ Len(file') = Len(file)
              /\ DOMAIN cache' = DOMAIN cache
              /\ \A p \in DOMAIN cache \ {r.page} : cache'[p] = cache[p]
              /\ r.page \in DOMAIN cache => cache'[r.page].val = r.val
      BY <1>19, <2>1, PlaybackEffect
    <3>2. /\ UNCHANGED <<journal, state, unread, job>> /\ job = "playback"
      BY <1>19, <2>1 DEF Playback
    <3>3. /\ file'[r.page] = r.val
          /\ \A p \in 1..Len(file) : p # r.page => file'[p] = file[p]
      <4>1. r.page \in Nat \ {0} /\ r.val \in Values /\ file \in Seq(Values)
        BY <3>1 DEF Record, PagerTypeOK
      <4>2. /\ Put(file, r.page, r.val)[r.page] = r.val
            /\ \A q \in 1..Len(file) : q # r.page => Put(file, r.page, r.val)[q] = file[q]
        BY <4>1, PutAt
      <4>3. QED
        BY <3>1, <4>1, <4>2
    <3>4. ASSUME NEW p \in DOMAIN cache \ unread, ~cache'[p].dirty, p <= Len(file)
          PROVE  cache'[p].val = file'[p]
      <4>1. CASE p = r.page
        BY <3>1, <3>3, <4>1
      <4>2. CASE p # r.page
        <5>1. cache'[p] = cache[p] /\ p \in 1..Len(file)
          BY <3>1, <3>4, <4>2, Numbers DEF PagerTypeOK
        <5>2. cache[p].val = file[p]
          BY <3>2, <3>4, <5>1 DEF Kept
        <5>3. QED
          BY <3>3, <4>2, <5>1, <5>2
      <4>3. QED
        BY <4>1, <4>2
    <3>5. state # "shared"
      BY <3>2 DEF Places
    <3>6. QED
      BY <3>1, <3>2, <3>4, <3>5 DEF Kept, CleanIsStoredOtherwise, Underway, InTransaction
  <2>2. CASE ~(journal.valid /\ replayed < journal.counted)
    <3>1. /\ EndTransaction(file, cache) /\ job = "playback"
          /\ unread' = unread \cup {p \in DOMAIN cache : cache[p].dirty /\ p <= journal.size}
      BY <1>19, <2>2 DEF Playback
    <3>2. \A p \in unread : p <= journal.size
      BY <3>1 DEF Kept, Places, Underway, InTransaction
    <3>3. file \in Seq(Values) /\ cache \in [DOMAIN cache -> Cached]
      BY DEF PagerTypeOK
    <3>4. CASE journal.valid
      <4>1. Len(file) = journal.size
        BY <3>1, <3>4 DEF Sizes
      <4>2. \A p \in DOMAIN cache \ unread' : p <= Len(file) => cache[p].val = file[p]
        BY <3>1, <4>1 DEF Kept
      <4>3. \A p \in unread' : p <= Len(file)
        BY <3>1, <3>2, <4>1
      <4>4. QED
        BY <3>1, <3>3, <4>2, <4>3, EndKept
    <3>5. CASE ~journal.valid
      <4>1. cache = <<>> /\ unread = {}
        BY <3>1, <3>5 DEF Sizes
      <4>2. DOMAIN cache = {} /\ unread' = {}
        BY <3>1, <4>1
      <4>3. QED
        BY <3>1, <3>3, <4>2, EndKept
    <3>6. QED
      BY <3>4, <3>5
  <2>3. QED
    BY <2>1, <2>2
<1>20. CASE Crash
  BY <1>20 DEF Crash, Gone, Kept, CleanIsStoredOtherwise, Underway, InTransaction
<1>21. CASE PowerLoss
  <2>1. cache' = <<>> /\ unread' = {} /\ dbSize' = 0 /\ state' = "unlock" /\ job' = "ready"
    BY <1>21 DEF PowerLoss, Gone
  <2>2. QED
    BY <2>1 DEF Kept, CleanIsStoredOtherwise, Underway, InTransaction
<1> QED
  BY <1>1, <1>2, <1>3, <1>4, <1>5, <1>6, <1>7, <1>8, <1>9, <1>10, <1>11, <1>12, <1>13, <1>14,
     <1>15, <1>16, <1>17, <1>18, <1>19, <1>20, <1>21 DEF PagerNext

-----------------------------------------------------------------------------
LEMMA InvStarts == PagerInit => PagerInv
<1> SUFFICES ASSUME PagerInit
             PROVE  PagerInv
  OBVIOUS
<1>1. /\ file = [p \in 1..FirstSize |-> Blank] /\ stale = [p \in Pages |-> {}]
      /\ journal = Absent /\ settled = NothingSettled /\ state = "unlock" /\ cache = <<>>
      /\ dbSize = 0 /\ ~needSync /\ ~dirtyCache /\ stmt = Absent /\ ~full /\ job = "ready"
      /\ want = 0 /\ replayed = 0 /\ rash = {} /\ ~loose /\ unread = {} /\ writes = 0 /\ crashes = 0
  BY DEF PagerInit
<1>2. PagerTypeOK
  <2>1. FirstSize \in Nat /\ FirstSize \in Pages
    BY Numbers DEF Pages
  <2>2. file \in [1..FirstSize -> Values]
    BY <1>1
  <2>3. file \in Seq(Values) /\ Len(file) = FirstSize
    BY <2>1, <2>2, SeqOfFunction
  <2>4. settled \in [valid : BOOLEAN, recs : Nat, counts : SUBSET Nat]
    BY <1>1 DEF NothingSettled
  <2>5. {needSync, dirtyCache, full, loose} \subseteq BOOLEAN
    BY DEF PagerInit
  <2>6. DOMAIN cache \subseteq Pages /\ cache \in [DOMAIN cache -> Cached]
    BY <1>1
  <2>7. QED
    BY <1>1, <2>1, <2>3, <2>4, <2>5, <2>6, Numbers DEF PagerTypeOK
<1>3. settled.recs = 0
  BY <1>1 DEF NothingSettled
<1>4. QED
  BY <1>1, <1>2, <1>3 DEF PagerInv, Places, Present, Sizes, Unchanged, Flags, Kept, CleanIsStoredOtherwise,
     Live, Underway, InTransaction

LEMMA InvStays == PagerInv /\ [PagerNext]_pagerVars => PagerInv'
<1> SUFFICES ASSUME PagerInv, [PagerNext]_pagerVars
             PROVE  PagerInv'
  OBVIOUS
<1>1. CASE PagerNext
  BY <1>1, PagerTypeStep, PlacesStep, PresentStep, SizesStep, UnchangedStep, FlagsStep, KeptStep DEF PagerInv
<1>2. CASE UNCHANGED pagerVars
  BY <1>2 DEF pagerVars, disk, memory, bounds, PagerInv, PagerTypeOK, Places, Present, Sizes, Unchanged, Flags,
     Kept, CleanIsStoredOtherwise, Stored, Live, Underway, InTransaction
<1>3. QED
  BY <1>1, <1>2

LEMMA PagerInvariant == PagerSpec => []PagerInv
<1>1. PagerInv => PagerInv
  OBVIOUS
<1>2. QED
  BY InvStarts, InvStays, PTL DEF PagerSpec

\* Whatever is called, recycled, rolled back or lost in a crash, the pager's
\* variables keep their types: the file never has more pages than it may, and no
\* header of the journal counts a record that the journal does not have.
THEOREM PagerTypeCorrect == PagerSpec => []PagerTypeOK
<1>1. PagerInv => PagerTypeOK
  BY DEF PagerInv
<1>2. QED
  BY <1>1, PagerInvariant, PTL

\* A page of the cache that is not marked dirty is in the file as the cache has
\* it, so that recycling it (sqlite3pager_get) loses nothing, except for the
\* pages that a playback, or a commit that leaves pages beyond the end of the
\* file, has not read again.
THEOREM CleanStored == PagerSpec => []CleanIsStoredOtherwise
<1>1. PagerInv => CleanIsStoredOtherwise
  BY DEF PagerInv, Kept
<1>2. QED
  BY <1>1, PagerInvariant, PTL

-----------------------------------------------------------------------------
LEMMA RecordsOfFacts ==
    ASSUME NEW recs \in Seq(Record)
    PROVE  /\ RecordsOf(recs) \subseteq Record
           /\ PagesOf(recs) = {r.page : r \in RecordsOf(recs)}
           /\ Consistent(recs) => \A r \in RecordsOf(recs) : ValueIn(recs, r.page) = r.val
<1>1. \A i \in 1..Len(recs) : recs[i] \in Record
  OBVIOUS
<1>2. RecordsOf(recs) \subseteq Record
  BY <1>1 DEF RecordsOf
<1>3. PagesOf(recs) = {r.page : r \in RecordsOf(recs)}
  BY DEF RecordsOf, PagesOf
<1>4. ASSUME Consistent(recs), NEW r \in RecordsOf(recs)
      PROVE  ValueIn(recs, r.page) = r.val
  <2> DEFINE i == CHOOSE j \in 1..Len(recs) : recs[j].page = r.page
  <2>1. \E j \in 1..Len(recs) : recs[j].page = r.page
    BY DEF RecordsOf
  <2>2. i \in 1..Len(recs) /\ recs[i].page = r.page
    BY <2>1
  <2>3. recs[i] = r
    BY <1>4, <2>2 DEF RecordsOf, Consistent
  <2>4. QED
    BY <2>3 DEF ValueIn
<1>5. QED
  BY <1>2, <1>3, <1>4

\* Who has a record has one in the set.
LEMMA RecordOfPage ==
    ASSUME NEW recs \in Seq(Record), Consistent(recs), NEW p \in PagesOf(recs)
    PROVE  \E r \in RecordsOf(recs) : r.page = p /\ r.val = ValueIn(recs, p)
<1>1. PICK r \in RecordsOf(recs) : r.page = p
  BY RecordsOfFacts
<1>2. ValueIn(recs, r.page) = r.val
  BY RecordsOfFacts
<1>3. QED
  BY <1>1, <1>2

LEMMA SubSeqFacts ==
    ASSUME NEW recs \in Seq(Record), NEW m \in Nat \ {0}, NEW n \in 0..Len(recs), m <= n + 1
    PROVE  /\ SubSeq(recs, m, n) \in Seq(Record)
           /\ RecordsOf(SubSeq(recs, m, n)) = {recs[i] : i \in m..n}
<1>1. Len(recs) \in Nat /\ m \in Int /\ n \in Int /\ \A i \in m..n : recs[i] \in Record
  <2>1. \A i \in m..n : i \in 1..Len(recs)
    OBVIOUS
  <2>2. QED
    BY <2>1
<1> DEFINE k == IF m <= n THEN n - m + 1 ELSE 0
           s == SubSeq(recs, m, n)
<1>2. /\ s \in Seq(Record)
      /\ Len(s) = k
      /\ \A i \in 1..(n - m + 1) : s[i] = recs[m + i - 1]
  BY <1>1, SubSeqProperties
<1>3. k = n - m + 1
  OBVIOUS
<1> HIDE DEF s, k
<1>4. ASSUME NEW r \in RecordsOf(s)
      PROVE  r \in {recs[i] : i \in m..n}
  <2>1. PICK i \in 1..Len(s) : r = s[i]
    BY <1>4 DEF RecordsOf
  <2>2. i \in 1..(n - m + 1) /\ m + i - 1 \in m..n
    BY <1>2, <1>3, <2>1
  <2>3. QED
    BY <1>2, <2>1, <2>2
<1>5. ASSUME NEW i \in m..n
      PROVE  recs[i] \in RecordsOf(s)
  <2>1. i - m + 1 \in 1..(n - m + 1) /\ m + (i - m + 1) - 1 = i /\ Len(s) = n - m + 1
    BY <1>2, <1>3
  <2>2. s[i - m + 1] = recs[i]
    BY <1>2, <2>1
  <2>3. QED
    BY <2>1, <2>2 DEF RecordsOf
<1>6. RecordsOf(s) = {recs[i] : i \in m..n}
  BY <1>4, <1>5
<1>7. QED
  BY <1>2, <1>6 DEF s

\* A part of the records says what they all say.
LEMMA PartFacts ==
    ASSUME NEW recs \in Seq(Record), NEW part \in Seq(Record), Consistent(recs),
           RecordsOf(part) \subseteq RecordsOf(recs)
    PROVE  /\ Consistent(part) /\ PagesOf(part) \subseteq PagesOf(recs)
           /\ \A p \in PagesOf(part) : ValueIn(part, p) = ValueIn(recs, p)
<1>1. Consistent(part)
  BY DEF Consistent
<1>2. PagesOf(part) \subseteq PagesOf(recs)
  BY RecordsOfFacts
<1>3. ASSUME NEW p \in PagesOf(part)
      PROVE  ValueIn(part, p) = ValueIn(recs, p)
  <2>1. PICK r \in RecordsOf(part) : r.page = p /\ r.val = ValueIn(part, p)
    BY <1>1, RecordOfPage
  <2>2. ValueIn(recs, r.page) = r.val
    BY RecordsOfFacts
  <2>3. QED
    BY <2>1, <2>2
<1>4. QED
  BY <1>1, <1>2, <1>3

LEMMA PrefixFacts ==
    ASSUME NEW recs \in Seq(Record), NEW m \in 0..Len(recs), NEW n \in 0..Len(recs), m <= n
    PROVE  /\ SubSeq(recs, 1, n) \in Seq(Record) /\ SubSeq(recs, 1, m) \in Seq(Record)
           /\ RecordsOf(SubSeq(recs, 1, m)) \subseteq RecordsOf(SubSeq(recs, 1, n))
           /\ RecordsOf(SubSeq(recs, 1, n)) \subseteq RecordsOf(recs)
           /\ PagesOf(SubSeq(recs, 1, m)) \subseteq PagesOf(SubSeq(recs, 1, n))
           /\ n = Len(recs) => RecordsOf(SubSeq(recs, 1, n)) = RecordsOf(recs)
<1>1. /\ SubSeq(recs, 1, n) \in Seq(Record) /\ RecordsOf(SubSeq(recs, 1, n)) = {recs[i] : i \in 1..n}
      /\ SubSeq(recs, 1, m) \in Seq(Record) /\ RecordsOf(SubSeq(recs, 1, m)) = {recs[i] : i \in 1..m}
  <2>1. 1 \in Nat \ {0} /\ 1 <= n + 1 /\ 1 <= m + 1
    OBVIOUS
  <2>2. QED
    BY <2>1, SubSeqFacts
<1>2. 1..m \subseteq 1..n /\ 1..n \subseteq 1..Len(recs)
  OBVIOUS
<1>3. RecordsOf(SubSeq(recs, 1, m)) \subseteq RecordsOf(SubSeq(recs, 1, n))
  BY <1>1, <1>2
<1>4. /\ RecordsOf(SubSeq(recs, 1, n)) \subseteq RecordsOf(recs)
      /\ n = Len(recs) => RecordsOf(SubSeq(recs, 1, n)) = RecordsOf(recs)
  BY <1>1, <1>2 DEF RecordsOf
<1>5. PagesOf(SubSeq(recs, 1, m)) \subseteq PagesOf(SubSeq(recs, 1, n))
  <2>1. PagesOf(SubSeq(recs, 1, m)) = {r.page : r \in RecordsOf(SubSeq(recs, 1, m))}
    BY <1>1, RecordsOfFacts
  <2>2. PagesOf(SubSeq(recs, 1, n)) = {r.page : r \in RecordsOf(SubSeq(recs, 1, n))}
    BY <1>1, RecordsOfFacts
  <2>3. QED
    BY <1>3, <2>1, <2>2
<1>6. QED
  BY <1>1, <1>3, <1>4, <1>5

LEMMA AppendFacts ==
    ASSUME NEW recs \in Seq(Record), NEW r \in Record
    PROVE  /\ Append(recs, r) \in Seq(Record) /\ Len(Append(recs, r)) = Len(recs) + 1
           /\ RecordsOf(Append(recs, r)) = RecordsOf(recs) \cup {r}
           /\ \A n \in 0..Len(recs) : SubSeq(Append(recs, r), 1, n) = SubSeq(recs, 1, n)
           /\ \A k \in 0..Len(recs) :
                 RecordsOf(SubSeq(Append(recs, r), k + 1, Len(recs) + 1))
                    = RecordsOf(SubSeq(recs, k + 1, Len(recs))) \cup {r}
<1> DEFINE more == Append(recs, r)
<1>1. /\ more \in Seq(Record) /\ Len(more) = Len(recs) + 1
      /\ \A i \in 1..Len(recs) : more[i] = recs[i]
      /\ more[Len(recs) + 1] = r
  BY AppendProperties
<1> HIDE DEF more
<1>2. Len(recs) \in Nat /\ 1..Len(recs) + 1 = 1..Len(recs) \cup {Len(recs) + 1}
  OBVIOUS
<1>3. RecordsOf(more) = RecordsOf(recs) \cup {r}
  <2>1. RecordsOf(more) = {more[i] : i \in 1..Len(recs)} \cup {more[Len(recs) + 1]}
    BY <1>1, <1>2 DEF RecordsOf
  <2>2. {more[i] : i \in 1..Len(recs)} = RecordsOf(recs)
    BY <1>1 DEF RecordsOf
  <2>3. QED
    BY <1>1, <2>1, <2>2
<1>4. ASSUME NEW n \in 0..Len(recs)
      PROVE  SubSeq(more, 1, n) = SubSeq(recs, 1, n)
  <2>1. \A i \in 1..n : more[1 + i - 1] = recs[1 + i - 1]
    BY <1>1, <1>2
  <2>2. QED
    BY <1>1, <1>2, <2>1
<1>5. ASSUME NEW k \in 0..Len(recs)
      PROVE  RecordsOf(SubSeq(more, k + 1, Len(recs) + 1)) = RecordsOf(SubSeq(recs, k + 1, Len(recs))) \cup {r}
  <2>1. k + 1 \in Nat \ {0} /\ Len(recs) + 1 \in 0..Len(more) /\ Len(recs) \in 0..Len(recs)
        /\ k + 1 <= Len(recs) + 1 /\ k + 1 <= Len(recs) + 1 + 1
    BY <1>1, <1>2
  <2>2. RecordsOf(SubSeq(more, k + 1, Len(recs) + 1)) = {more[i] : i \in k + 1 .. Len(recs) + 1}
    BY <1>1, <2>1, SubSeqFacts
  <2>3. RecordsOf(SubSeq(recs, k + 1, Len(recs))) = {recs[i] : i \in k + 1 .. Len(recs)}
    BY <2>1, SubSeqFacts
  <2>4. k + 1 .. Len(recs) + 1 = (k + 1 .. Len(recs)) \cup {Len(recs) + 1}
    BY <1>2
  <2>5. \A i \in k + 1 .. Len(recs) : more[i] = recs[i]
    BY <1>1, <1>2
  <2>6. {more[i] : i \in k + 1 .. Len(recs) + 1}
            = {more[i] : i \in k + 1 .. Len(recs)} \cup {more[Len(recs) + 1]}
    BY <2>4
  <2>7. {more[i] : i \in k + 1 .. Len(recs)} = {recs[i] : i \in k + 1 .. Len(recs)}
    BY <2>5
  <2>8. QED
    BY <1>1, <2>2, <2>3, <2>6, <2>7
<1>6. QED
  BY <1>1, <1>3, <1>4, <1>5 DEF more

\* A page that has no record yet gets one.
LEMMA AddFacts ==
    ASSUME NEW recs \in Seq(Record), NEW more \in Seq(Record), NEW r \in Record, Consistent(recs),
           RecordsOf(more) = RecordsOf(recs) \cup {r}, r.page \notin PagesOf(recs)
    PROVE  /\ Consistent(more) /\ PagesOf(more) = PagesOf(recs) \cup {r.page}
           /\ ValueIn(more, r.page) = r.val
           /\ \A p \in PagesOf(recs) : ValueIn(more, p) = ValueIn(recs, p)
<1>1. PagesOf(recs) = {s.page : s \in RecordsOf(recs)} /\ PagesOf(more) = {s.page : s \in RecordsOf(more)}
  BY RecordsOfFacts
<1>2. Consistent(more)
  BY <1>1 DEF Consistent
<1>3. \A s \in RecordsOf(more) : ValueIn(more, s.page) = s.val
  BY <1>2, RecordsOfFacts
<1>4. ASSUME NEW p \in PagesOf(recs)
      PROVE  ValueIn(more, p) = ValueIn(recs, p)
  <2>1. PICK s \in RecordsOf(recs) : s.page = p /\ s.val = ValueIn(recs, p)
    BY RecordOfPage
  <2>2. QED
    BY <1>3, <2>1
<1>5. PagesOf(more) = PagesOf(recs) \cup {r.page}
  BY <1>1
<1>6. QED
  BY <1>2, <1>3, <1>4, <1>5

LEMMA AllRecords ==
    ASSUME NEW recs \in Seq(Record)
    PROVE  PagesOf(SubSeq(recs, 1, Len(recs))) = PagesOf(recs)
<1> DEFINE k == Len(recs)
<1>1. k \in 0..Len(recs) /\ k <= k /\ k = Len(recs)
  OBVIOUS
<1> HIDE DEF k
<1>2. SubSeq(recs, 1, k) \in Seq(Record) /\ RecordsOf(SubSeq(recs, 1, k)) = RecordsOf(recs)
  BY <1>1, PrefixFacts
<1>3. PagesOf(SubSeq(recs, 1, k)) = {r.page : r \in RecordsOf(SubSeq(recs, 1, k))}
  BY <1>2, RecordsOfFacts
<1>4. PagesOf(recs) = {r.page : r \in RecordsOf(recs)}
  BY RecordsOfFacts
<1>5. PagesOf(SubSeq(recs, 1, k)) = PagesOf(recs)
  BY <1>2, <1>3, <1>4
<1>6. QED
  BY <1>5 DEF k

\* A page of the file that the journal would be played back to.
Back(p) == IF p \in PagesOf(Counted) THEN ValueIn(journal.recs, p) ELSE file[p]

\* The records that a header counts.
LEMMA CountedFacts ==
    ASSUME PagerTypeOK, Records, journal # Absent
    PROVE  /\ Counted \in Seq(Record)
           /\ PagesOf(Counted) \subseteq PagesOf(journal.recs)
           /\ PagesOf(journal.recs) \subseteq Pages
           /\ \A p \in PagesOf(Counted) : ValueIn(Counted, p) = ValueIn(journal.recs, p)
           /\ \A p \in PagesOf(journal.recs) : ValueIn(journal.recs, p) \in Values
           /\ journal.counted = Len(journal.recs) => PagesOf(Counted) = PagesOf(journal.recs)
           /\ journal.counted = 0 => PagesOf(Counted) = {}
<1>1. journal.recs \in Seq(Record) /\ journal.counted \in 0..Len(journal.recs) /\ Consistent(journal.recs)
  BY JournalType DEF Records
<1>2. journal.counted <= journal.counted
  BY <1>1
<1>3. /\ Counted \in Seq(Record) /\ RecordsOf(Counted) \subseteq RecordsOf(journal.recs)
      /\ journal.counted = Len(journal.recs) => RecordsOf(Counted) = RecordsOf(journal.recs)
  BY <1>1, <1>2, PrefixFacts DEF Counted
<1>4. /\ PagesOf(Counted) \subseteq PagesOf(journal.recs)
      /\ \A p \in PagesOf(Counted) : ValueIn(Counted, p) = ValueIn(journal.recs, p)
  BY <1>1, <1>3, PartFacts
<1>5. /\ PagesOf(Counted) = {r.page : r \in RecordsOf(Counted)}
      /\ PagesOf(journal.recs) = {r.page : r \in RecordsOf(journal.recs)}
  BY <1>1, <1>3, RecordsOfFacts
<1>6. journal.counted = 0 => PagesOf(Counted) = {}
  <2>1. Len(Counted) = journal.counted
    BY <1>1, PagesOfSubSeq DEF Counted
  <2>2. QED
    BY <2>1 DEF PagesOf
<1>7. QED
  BY <1>1, <1>3, <1>4, <1>5, <1>6, RecordFacts

\* The file that a journal with a header leads back to.
RestoredBack ==
    PagerTypeOK /\ Records /\ journal # Absent /\ journal.valid
    => /\ Restored = [p \in 1..journal.size |-> Back(p)]
       /\ Restored \in Seq(Values) /\ Len(Restored) = journal.size
       /\ journal.size \in Pages /\ journal.size \in Nat
       /\ \A p \in 1..journal.size : Back(p) \in Values /\ p \in Pages /\ p \in 1..Len(file)

LEMMA RestoredIs == RestoredBack
<1> SUFFICES ASSUME PagerTypeOK, Records, journal # Absent, journal.valid
             PROVE  /\ Restored = [p \in 1..journal.size |-> Back(p)]
                    /\ Restored \in Seq(Values) /\ Len(Restored) = journal.size
                    /\ journal.size \in Pages /\ journal.size \in Nat
                    /\ \A p \in 1..journal.size : Back(p) \in Values /\ p \in Pages /\ p \in 1..Len(file)
  BY DEF RestoredBack
<1>1. /\ journal.size \in Pages /\ journal.size \in Nat /\ journal.size <= Len(file)
      /\ file \in Seq(Values) /\ Len(file) \in Nat
  BY JournalType, Numbers DEF Records, PagerTypeOK
<1>2. \A p \in 1..journal.size : p \in Pages /\ p \in 1..Len(file) /\ p <= Len(file) /\ file[p] \in Values
  BY <1>1, Numbers
<1>3. /\ PagesOf(Counted) \subseteq PagesOf(journal.recs)
      /\ \A p \in PagesOf(Counted) : ValueIn(Counted, p) = ValueIn(journal.recs, p)
      /\ \A p \in PagesOf(journal.recs) : ValueIn(journal.recs, p) \in Values
  BY CountedFacts
<1>4. Restored = [p \in 1..journal.size |-> Back(p)]
  BY <1>2, <1>3 DEF Restored, Back
<1>5. \A p \in 1..journal.size : Back(p) \in Values
  BY <1>2, <1>3 DEF Back
<1>6. Restored \in [1..journal.size -> Values]
  BY <1>4, <1>5
<1>7. Restored \in Seq(Values) /\ Len(Restored) = journal.size
  BY <1>1, <1>6, SeqOfFunction
<1>8. QED
  BY <1>1, <1>2, <1>4, <1>5, <1>7

LEMMA RestoredIsNext == RestoredBack'
BY RestoredIs, PTL

\* A journal leads back to the same file as long as it does so page by page.
LEMMA RestoredSame ==
    ASSUME PagerTypeOK, Records, journal # Absent, journal.valid,
           PagerTypeOK', Records', journal' # Absent, journal'.valid, journal'.size = journal.size,
           \A p \in 1..journal.size : Back(p)' = Back(p)
    PROVE  Restored' = Restored
<1>1. Restored = [p \in 1..journal.size |-> Back(p)]
  BY RestoredIs DEF RestoredBack
<1>2. Restored' = [p \in 1..journal'.size |-> Back(p)']
  BY RestoredIsNext DEF RestoredBack
<1>3. QED
  BY <1>1, <1>2

\* Until a power failure, a page that a header counts is safe.
LEMMA CountedProtected ==
    ASSUME PagerTypeOK, Records, Flushed, Live, journal # Absent, job # "count", settled.valid,
           NEW p \in PagesOf(Counted)
    PROVE  Protected(p)
<1>1. settled.counts = {}
  BY DEF Flushed
<1>2. QED
  BY <1>1 DEF Protected, Counts, Counted

\* A page that can be written to the file has its record flushed.
LEMMA DirtySettled ==
    ASSUME PagerTypeOK, Places, Sizes, Records, Flushed, Live,
           NEW p \in DOMAIN cache, cache[p].dirty, ~cache[p].needSync
    PROVE  /\ journal # Absent /\ settled.valid
           /\ p <= journal.size /\ rash = {} => p \in PagesOf(Counted) /\ p \notin Uncounted
           /\ p <= journal.size => p \in PagesOf(journal.recs)
<1>1. journal # Absent
  BY DEF Places, Live
<1>2. /\ cache[p].inJournal /\ (p <= journal.size => p \in PagesOf(journal.recs))
      /\ journal.size < p => settled.valid
  BY DEF Flushed
<1>3. /\ ~settled.valid => journal.counted = 0
      /\ state # "reserved" => settled.valid
      /\ p \in Uncounted => p \in rash /\ state # "reserved"
  BY DEF Flushed
<1>4. journal.counted = 0 => PagesOf(Counted) = {}
  BY <1>1, CountedFacts
<1>5. p <= journal.size => settled.valid
  BY <1>2, <1>3, <1>4 DEF Uncounted
<1>6. p \in Nat /\ journal.size \in Nat
  BY <1>1, JournalType, Numbers DEF PagerTypeOK
<1>7. settled.valid
  BY <1>2, <1>5, <1>6
<1>8. QED
  BY <1>1, <1>2, <1>3, <1>7 DEF Uncounted

\* The journal of a statement, followed by what it added to the other one.
LEMMA JoinFacts ==
    ASSUME NEW saved \in Seq(Record), NEW recs \in Seq(Record), NEW k \in 0..Len(recs)
    PROVE  /\ saved \o SubSeq(recs, k + 1, Len(recs)) \in Seq(Record)
           /\ RecordsOf(saved \o SubSeq(recs, k + 1, Len(recs)))
                = RecordsOf(saved) \cup RecordsOf(SubSeq(recs, k + 1, Len(recs)))
           /\ PagesOf(saved \o SubSeq(recs, k + 1, Len(recs)))
                = PagesOf(saved) \cup PagesOf(SubSeq(recs, k + 1, Len(recs)))
           /\ RecordsOf(SubSeq(recs, k + 1, Len(recs))) \subseteq RecordsOf(recs)
           /\ SubSeq(recs, k + 1, Len(recs)) \in Seq(Record)
<1> DEFINE added == SubSeq(recs, k + 1, Len(recs))
           both == saved \o added
<1>1. k + 1 \in Nat \ {0} /\ Len(recs) \in 0..Len(recs) /\ k + 1 <= Len(recs) + 1
  OBVIOUS
<1>2. added \in Seq(Record) /\ RecordsOf(added) = {recs[i] : i \in k + 1 .. Len(recs)}
  BY <1>1, SubSeqFacts
<1>3. k + 1 .. Len(recs) \subseteq 1..Len(recs)
  OBVIOUS
<1>4. RecordsOf(added) \subseteq RecordsOf(recs)
  BY <1>2, <1>3 DEF RecordsOf
<1> HIDE DEF added
<1>5. /\ both \in Seq(Record)
      /\ Len(both) = Len(saved) + Len(added)
      /\ \A i \in 1..Len(saved) + Len(added) :
             both[i] = IF i <= Len(saved) THEN saved[i] ELSE added[i - Len(saved)]
  BY <1>2, ConcatProperties
<1> HIDE DEF both
<1>6. Len(saved) \in Nat /\ Len(added) \in Nat
  BY <1>2
<1>7. ASSUME NEW r \in RecordsOf(both)
      PROVE  r \in RecordsOf(saved) \cup RecordsOf(added)
  <2>1. PICK i \in 1..Len(saved) + Len(added) : r = both[i]
    BY <1>5 DEF RecordsOf
  <2>2. \/ i \in 1..Len(saved) /\ r = saved[i]
        \/ i - Len(saved) \in 1..Len(added) /\ r = added[i - Len(saved)]
    BY <1>5, <1>6, <2>1
  <2>3. QED
    BY <2>2 DEF RecordsOf
<1>8. ASSUME NEW r \in RecordsOf(saved)
      PROVE  r \in RecordsOf(both)
  <2>1. PICK i \in 1..Len(saved) : r = saved[i]
    BY DEF RecordsOf
  <2>2. i \in 1..Len(saved) + Len(added) /\ i <= Len(saved)
    BY <1>6
  <2>3. QED
    BY <1>5, <2>1, <2>2 DEF RecordsOf
<1>9. ASSUME NEW r \in RecordsOf(added)
      PROVE  r \in RecordsOf(both)
  <2>1. PICK i \in 1..Len(added) : r = added[i]
    BY DEF RecordsOf
  <2>2. i + Len(saved) \in 1..Len(saved) + Len(added) /\ ~(i + Len(saved) <= Len(saved))
        /\ i + Len(saved) - Len(saved) = i
    BY <1>6
  <2>3. both[i + Len(saved)] = added[i]
    BY <1>5, <2>2
  <2>4. QED
    BY <1>5, <2>1, <2>2, <2>3 DEF RecordsOf
<1>10. RecordsOf(both) = RecordsOf(saved) \cup RecordsOf(added)
  BY <1>7, <1>8, <1>9
<1>11. PagesOf(both) = PagesOf(saved) \cup PagesOf(added)
  <2>1. PagesOf(both) = {r.page : r \in RecordsOf(both)}
    BY <1>5, RecordsOfFacts
  <2>2. PagesOf(saved) = {r.page : r \in RecordsOf(saved)}
    BY RecordsOfFacts
  <2>3. PagesOf(added) = {r.page : r \in RecordsOf(added)}
    BY <1>2, RecordsOfFacts
  <2>4. QED
    BY <1>10, <2>1, <2>2, <2>3
<1>12. QED
  BY <1>2, <1>4, <1>5, <1>10, <1>11 DEF both, added

\* What the rollback of a statement writes back, as a set.
LEMMA StmtRecordsSet ==
    ASSUME PagerTypeOK, stmt # Absent, journal # Absent, stmt.skip <= Len(journal.recs)
    PROVE  /\ StmtRecords \in Seq(Record)
           /\ RecordsOf(StmtRecords) = RecordsOf(stmt.saved)
                \cup RecordsOf(SubSeq(journal.recs, stmt.skip + 1, Len(journal.recs)))
           /\ PagesOf(StmtRecords) = InStmt
           /\ PagesOf(StmtRecords) \subseteq PagesOf(stmt.saved) \cup PagesOf(journal.recs)
<1>1. /\ journal.recs \in Seq(Record) /\ stmt.saved \in Seq(Record)
      /\ stmt.skip \in 0..Len(journal.recs)
  <2>1. journal.recs \in Seq(Record)
    BY JournalType
  <2>2. stmt.saved \in Seq(Record) /\ stmt.skip \in Nat
    BY StmtType
  <2>3. QED
    BY <2>1, <2>2
<1>2. QED
  <2> DEFINE saved == stmt.saved
             recs == journal.recs
             k == stmt.skip
             added == SubSeq(recs, k + 1, Len(recs))
             both == saved \o added
  <2>1. saved \in Seq(Record) /\ recs \in Seq(Record) /\ k \in 0..Len(recs)
    BY <1>1
  <2>2. StmtRecords = both /\ InStmt = PagesOf(saved) \cup PagesOf(added)
    BY DEF StmtRecords, InStmt
  <2> HIDE DEF saved, recs, k
  <2>3. /\ both \in Seq(Record)
        /\ RecordsOf(both) = RecordsOf(saved) \cup RecordsOf(added)
        /\ PagesOf(both) = PagesOf(saved) \cup PagesOf(added)
    BY <2>1, JoinFacts
  <2> HIDE DEF added, both
  <2>4. /\ StmtRecords \in Seq(Record)
        /\ RecordsOf(StmtRecords) = RecordsOf(saved) \cup RecordsOf(added)
        /\ PagesOf(StmtRecords) = InStmt
    BY <2>2, <2>3
  <2>5. PagesOf(StmtRecords) \subseteq PagesOf(stmt.saved) \cup PagesOf(journal.recs)
    BY StmtRecordsType
  <2>6. QED
    BY <2>4, <2>5 DEF saved, added, recs, k

\* How a change flags the page.
LEMMA ChangeFlag ==
    ASSUME PagerTypeOK, journal # Absent, NEW p \in DOMAIN cache, NEW v \in Values, Change(p, v)
    PROVE  /\ p <= journal.size /\ p \notin PagesOf(journal.recs) => cache'[p].needSync
           /\ p > journal.size /\ ~cache[p].inJournal => cache'[p].needSync = ~settled.valid
           /\ \/ p > journal.size /\ cache[p].inJournal
              \/ p <= journal.size /\ p \in PagesOf(journal.recs)
              => cache'[p].needSync = cache[p].needSync
           /\ cache'[p].inJournal
           /\ needSync' = (needSync \/ cache'[p].needSync)
<1> DEFINE flag == CASE p <= journal.size /\ p \notin PagesOf(journal.recs) -> TRUE
                     [] p > journal.size /\ ~cache[p].inJournal -> ~settled.valid
                     [] OTHER -> cache[p].needSync
<1>1. p \in Nat /\ journal.size \in Nat
  BY JournalType, Numbers DEF PagerTypeOK
<1>2. cache' = [cache EXCEPT ![p] = [val |-> v, dirty |-> TRUE, needSync |-> flag, inJournal |-> TRUE]]
  BY DEF Change
<1>3. needSync' = (needSync \/ flag)
  BY Zenon DEF Change
<1>4. /\ p <= journal.size /\ p \notin PagesOf(journal.recs) => flag = TRUE
      /\ p > journal.size /\ ~cache[p].inJournal => flag = ~settled.valid
      /\ \/ p > journal.size /\ cache[p].inJournal
         \/ p <= journal.size /\ p \in PagesOf(journal.recs)
         => flag = cache[p].needSync
  <2>1. ASSUME p <= journal.size
        PROVE  ~(p > journal.size)
    BY <1>1, <2>1
  <2>2. QED
    BY <2>1
<1> HIDE DEF flag
<1>5. cache'[p].needSync = flag /\ cache'[p].inJournal
  BY <1>2 DEF PagerTypeOK
<1>6. QED
  BY <1>3, <1>4, <1>5

\* A change of a page, as the journal keeps it.
LEMMA ChangeRecords ==
    ASSUME PagerTypeOK, journal # Absent, Consistent(journal.recs),
           NEW p \in DOMAIN cache, NEW v \in Values, Change(p, v)
    PROVE  /\ [page |-> p, val |-> cache[p].val] \in Record
           /\ journal.recs \in Seq(Record) /\ journal'.recs \in Seq(Record)
           /\ \/ /\ journal' = journal /\ rash' = rash
                 /\ p > journal.size \/ p \in PagesOf(journal.recs)
              \/ /\ p <= journal.size /\ p \notin PagesOf(journal.recs)
                 /\ journal'.recs = Append(journal.recs, [page |-> p, val |-> cache[p].val])
                 /\ PagesOf(journal'.recs) = PagesOf(journal.recs) \cup {p}
                 /\ ValueIn(journal'.recs, p) = cache[p].val
                 /\ needSync' /\ cache'[p].needSync
                 /\ p \in unread => p \in rash'
           /\ rash \subseteq rash'
           /\ Consistent(journal'.recs)
           /\ \A q \in PagesOf(journal.recs) : /\ ValueIn(journal'.recs, q) = ValueIn(journal.recs, q)
                                               /\ q \in PagesOf(journal'.recs)
           /\ Counted' = Counted
           /\ \A n \in 0..Len(journal.recs) : SubSeq(journal'.recs, 1, n) = SubSeq(journal.recs, 1, n)
<1> DEFINE old == [page |-> p, val |-> cache[p].val]
<1>1. old \in Record /\ old.page = p /\ old.val = cache[p].val
  BY DEF PagerTypeOK, Record, Cached
<1>2. /\ journal \in JournalFiles /\ journal.recs \in Seq(Record)
      /\ journal.counted \in 0..Len(journal.recs) /\ journal.size \in Nat /\ p \in Nat
  BY JournalType, Numbers DEF PagerTypeOK
<1>3. CASE p <= journal.size /\ p \notin PagesOf(journal.recs)
  <2>1. journal' = [journal EXCEPT !.recs = Append(@, old)]
    BY <1>3 DEF Change
  <2>2. journal'.recs = Append(journal.recs, old) /\ journal'.counted = journal.counted
    BY <1>2, <2>1 DEF JournalFiles
  <2>3. /\ journal'.recs \in Seq(Record)
        /\ RecordsOf(journal'.recs) = RecordsOf(journal.recs) \cup {old}
        /\ \A n \in 0..Len(journal.recs) : SubSeq(journal'.recs, 1, n) = SubSeq(journal.recs, 1, n)
    <3> HIDE DEF old
    <3>1. QED
      BY <1>1, <1>2, <2>2, AppendFacts
  <2>4. /\ Consistent(journal'.recs) /\ PagesOf(journal'.recs) = PagesOf(journal.recs) \cup {p}
        /\ ValueIn(journal'.recs, p) = cache[p].val
        /\ \A q \in PagesOf(journal.recs) : ValueIn(journal'.recs, q) = ValueIn(journal.recs, q)
    <3> HIDE DEF old
    <3>1. old.page \notin PagesOf(journal.recs)
      BY <1>1, <1>3
    <3>2. /\ Consistent(journal'.recs) /\ PagesOf(journal'.recs) = PagesOf(journal.recs) \cup {old.page}
          /\ ValueIn(journal'.recs, old.page) = old.val
          /\ \A q \in PagesOf(journal.recs) : ValueIn(journal'.recs, q) = ValueIn(journal.recs, q)
      BY <1>1, <1>2, <2>3, <3>1, AddFacts
    <3>3. QED
      BY <1>1, <3>2
  <2>5. Counted' = Counted
    BY <1>2, <2>2, <2>3 DEF Counted
  <2>6. needSync' /\ cache'[p].needSync
    <3>1. cache'[p].needSync /\ needSync' = (needSync \/ cache'[p].needSync)
      BY <1>3, ChangeFlag
    <3>2. QED
      BY <3>1
  <2>7. rash \subseteq rash' /\ (p \in unread => p \in rash')
    BY <1>3 DEF Change
  <2>8. QED
    BY <1>1, <1>2, <1>3, <2>2, <2>3, <2>4, <2>5, <2>6, <2>7
<1>4. CASE ~(p <= journal.size /\ p \notin PagesOf(journal.recs))
  <2>1. journal' = journal /\ rash' = rash
    BY <1>4 DEF Change
  <2>2. p > journal.size \/ p \in PagesOf(journal.recs)
    BY <1>2, <1>4
  <2>3. Counted' = Counted
    BY <2>1 DEF Counted
  <2>4. QED
    BY <1>1, <1>2, <2>1, <2>2, <2>3
<1>5. QED
  BY <1>3, <1>4

\* A change of a page, as a running statement keeps it.
LEMMA ChangeStmt ==
    ASSUME PagerTypeOK, Places, Sizes, Records, InTransaction, job # "playback", stmt # Absent,
           NEW p \in DOMAIN cache, NEW v \in Values, Change(p, v)
    PROVE  /\ stmt' # Absent /\ stmt'.size = stmt.size
           /\ StmtRecords \in Seq(Record) /\ StmtRecords' \in Seq(Record)
           /\ Consistent(StmtRecords')
           /\ \A q \in PagesOf(StmtRecords) : ValueIn(StmtRecords', q) = ValueIn(StmtRecords, q)
           /\ \/ p \in PagesOf(StmtRecords) \/ p > stmt.size
              \/ p \in PagesOf(StmtRecords') /\ ValueIn(StmtRecords', p) = cache[p].val
           /\ PagesOf(StmtRecords) \subseteq PagesOf(StmtRecords')
           /\ PagesOf(StmtRecords') \subseteq PagesOf(StmtRecords) \cup {p}
           /\ \A q \in PagesOf(stmt'.saved) : q <= journal'.size => q \in PagesOf(journal'.recs)
<1> DEFINE old == [page |-> p, val |-> cache[p].val]
           k == stmt.skip
           added == SubSeq(journal.recs, k + 1, Len(journal.recs))
           addedNext == SubSeq(journal'.recs, k + 1, Len(journal'.recs))
<1>1. old \in Record /\ old.page = p /\ old.val = cache[p].val
  BY DEF PagerTypeOK, Record, Cached
<1>2. /\ Live /\ journal # Absent /\ Consistent(StmtRecords) /\ Consistent(journal.recs)
      /\ \A q \in PagesOf(stmt.saved) : q <= journal.size => q \in PagesOf(journal.recs)
      /\ stmt.skip <= Len(journal.recs) /\ journal.size <= stmt.size
  BY DEF Places, Underway, Live, Records, Sizes
<1>3. /\ journal.recs \in Seq(Record) /\ stmt.saved \in Seq(Record)
      /\ k \in 0..Len(journal.recs) /\ stmt.size \in Nat /\ p \in Nat /\ journal.size \in Nat
  <2>1. /\ journal.recs \in Seq(Record) /\ stmt.saved \in Seq(Record) /\ stmt.skip \in Nat
        /\ stmt.size \in Pages /\ p \in Pages /\ journal.size \in Pages
    BY <1>2, JournalType, StmtType DEF PagerTypeOK
  <2>2. Len(journal.recs) \in Nat
    BY <2>1
  <2>3. QED
    BY <1>2, <2>1, <2>2, Numbers
<1>4. /\ StmtRecords \in Seq(Record)
      /\ RecordsOf(StmtRecords) = RecordsOf(stmt.saved) \cup RecordsOf(added)
      /\ PagesOf(StmtRecords) = InStmt
      /\ PagesOf(StmtRecords) \subseteq PagesOf(stmt.saved) \cup PagesOf(journal.recs)
  BY <1>2, StmtRecordsSet
<1>5. /\ journal'.size = journal.size
      /\ stmt' = stmt \/ (stmt # Absent /\ stmt' # Absent /\ stmt'.size = stmt.size /\ stmt'.skip = stmt.skip)
  BY <1>2, ChangeEffect
<1>6. stmt' # Absent /\ stmt'.size = stmt.size /\ stmt'.skip = k
  BY <1>5
<1>7. \/ journal' = journal /\ (p > journal.size \/ p \in PagesOf(journal.recs))
      \/ /\ p <= journal.size /\ p \notin PagesOf(journal.recs)
         /\ journal'.recs = Append(journal.recs, old)
         /\ PagesOf(journal'.recs) = PagesOf(journal.recs) \cup {p}
  BY <1>2, ChangeRecords
<1> HIDE DEF k
<1>8. ASSUME stmt'.saved \in Seq(Record), journal'.recs \in Seq(Record), Len(journal'.recs) >= Len(journal.recs)
      PROVE  /\ StmtRecords' \in Seq(Record)
             /\ RecordsOf(StmtRecords') = RecordsOf(stmt'.saved) \cup RecordsOf(addedNext)
  <2>1. k \in 0..Len(journal'.recs)
    BY <1>3, <1>8
  <2>2. StmtRecords' = stmt'.saved \o SubSeq(journal'.recs, k + 1, Len(journal'.recs))
    BY <1>6 DEF StmtRecords
  <2>3. /\ stmt'.saved \o SubSeq(journal'.recs, k + 1, Len(journal'.recs)) \in Seq(Record)
        /\ RecordsOf(stmt'.saved \o SubSeq(journal'.recs, k + 1, Len(journal'.recs)))
             = RecordsOf(stmt'.saved) \cup RecordsOf(SubSeq(journal'.recs, k + 1, Len(journal'.recs)))
    <3> DEFINE s == stmt'.saved
               r == journal'.recs
    <3>1. s \in Seq(Record) /\ r \in Seq(Record) /\ k \in 0..Len(r)
      BY <1>8, <2>1
    <3> HIDE DEF s, r
    <3>2. /\ s \o SubSeq(r, k + 1, Len(r)) \in Seq(Record)
          /\ RecordsOf(s \o SubSeq(r, k + 1, Len(r))) = RecordsOf(s) \cup RecordsOf(SubSeq(r, k + 1, Len(r)))
      BY <3>1, JoinFacts
    <3>3. QED
      BY <3>2 DEF s, r
  <2>4. QED
    BY <2>2, <2>3
<1>9. CASE p <= journal.size /\ p \notin PagesOf(journal.recs)
  <2>1. journal'.recs = Append(journal.recs, old) /\ PagesOf(journal'.recs) = PagesOf(journal.recs) \cup {p}
    BY <1>3, <1>7, <1>9
  <2>2. stmt' = stmt
    BY <1>9 DEF Change
  <2>3. /\ journal'.recs \in Seq(Record) /\ Len(journal'.recs) = Len(journal.recs) + 1
        /\ RecordsOf(addedNext) = RecordsOf(added) \cup {old}
    <3> DEFINE recs == journal.recs
    <3> HIDE DEF old
    <3>1. recs \in Seq(Record) /\ old \in Record /\ k \in 0..Len(recs)
      BY <1>1, <1>3
    <3> HIDE DEF recs, k
    <3>2. /\ Append(recs, old) \in Seq(Record) /\ Len(Append(recs, old)) = Len(recs) + 1
          /\ RecordsOf(SubSeq(Append(recs, old), k + 1, Len(recs) + 1))
                = RecordsOf(SubSeq(recs, k + 1, Len(recs))) \cup {old}
      BY <3>1, AppendFacts
    <3>3. QED
      BY <2>1, <3>2 DEF recs, k
  <2>4. StmtRecords' \in Seq(Record) /\ RecordsOf(StmtRecords') = RecordsOf(StmtRecords) \cup {old}
    <3>1. Len(journal'.recs) >= Len(journal.recs)
      BY <1>3, <2>3
    <3>2. QED
      BY <1>3, <1>4, <1>8, <2>2, <2>3, <3>1
  <2>5. p \notin PagesOf(StmtRecords)
    BY <1>2, <1>4, <1>9
  <2>6. /\ Consistent(StmtRecords') /\ PagesOf(StmtRecords') = PagesOf(StmtRecords) \cup {p}
        /\ ValueIn(StmtRecords', p) = cache[p].val
        /\ \A q \in PagesOf(StmtRecords) : ValueIn(StmtRecords', q) = ValueIn(StmtRecords, q)
    <3> HIDE DEF old
    <3>1. old.page \notin PagesOf(StmtRecords)
      BY <1>1, <2>5
    <3>2. /\ Consistent(StmtRecords') /\ PagesOf(StmtRecords') = PagesOf(StmtRecords) \cup {old.page}
          /\ ValueIn(StmtRecords', old.page) = old.val
          /\ \A q \in PagesOf(StmtRecords) : ValueIn(StmtRecords', q) = ValueIn(StmtRecords, q)
      BY <1>1, <1>2, <1>4, <2>4, <3>1, AddFacts
    <3>3. QED
      BY <1>1, <3>2
  <2>7. \A q \in PagesOf(stmt'.saved) : q <= journal'.size => q \in PagesOf(journal'.recs)
    BY <1>2, <1>5, <2>1, <2>2
  <2>8. QED
    BY <1>4, <1>6, <2>4, <2>6, <2>7
<1>10. CASE ~(p <= journal.size /\ p \notin PagesOf(journal.recs)) /\ p <= stmt.size /\ p \notin InStmt
  <2>1. journal' = journal /\ stmt' = [stmt EXCEPT !.saved = Append(@, old)]
    BY <1>10, <1>7 DEF Change
  <2>2. stmt'.saved = Append(stmt.saved, old)
    BY <2>1, StmtType
  <2>3. stmt'.saved \in Seq(Record) /\ RecordsOf(stmt'.saved) = RecordsOf(stmt.saved) \cup {old}
    <3> HIDE DEF old
    <3>1. QED
      BY <1>1, <1>3, <2>2, AppendFacts
  <2>4. StmtRecords' \in Seq(Record) /\ RecordsOf(StmtRecords') = RecordsOf(StmtRecords) \cup {old}
    <3>1. Len(journal'.recs) >= Len(journal.recs)
      BY <1>3, <2>1
    <3>2. addedNext = added
      BY <2>1
    <3> HIDE DEF old, added, addedNext
    <3>3. QED
      BY <1>3, <1>4, <1>8, <2>1, <2>3, <3>1, <3>2
  <2>5. p \notin PagesOf(StmtRecords)
    BY <1>4, <1>10
  <2>6. /\ Consistent(StmtRecords') /\ PagesOf(StmtRecords') = PagesOf(StmtRecords) \cup {p}
        /\ ValueIn(StmtRecords', p) = cache[p].val
        /\ \A q \in PagesOf(StmtRecords) : ValueIn(StmtRecords', q) = ValueIn(StmtRecords, q)
    <3> HIDE DEF old
    <3>1. old.page \notin PagesOf(StmtRecords)
      BY <1>1, <2>5
    <3>2. /\ Consistent(StmtRecords') /\ PagesOf(StmtRecords') = PagesOf(StmtRecords) \cup {old.page}
          /\ ValueIn(StmtRecords', old.page) = old.val
          /\ \A q \in PagesOf(StmtRecords) : ValueIn(StmtRecords', q) = ValueIn(StmtRecords, q)
      BY <1>1, <1>2, <1>4, <2>4, <3>1, AddFacts
    <3>3. QED
      BY <1>1, <3>2
  <2>7. \A q \in PagesOf(stmt'.saved) : q <= journal'.size => q \in PagesOf(journal'.recs)
    <3>1. PagesOf(stmt'.saved) = PagesOf(stmt.saved) \cup {p}
      BY <1>1, <1>3, <2>2, PagesOfAppend
    <3>2. p <= journal.size => p \in PagesOf(journal.recs)
      BY <1>10
    <3>3. QED
      BY <1>2, <2>1, <3>1, <3>2
  <2>8. QED
    BY <1>4, <1>6, <2>4, <2>6, <2>7
<1>11. CASE /\ ~(p <= journal.size /\ p \notin PagesOf(journal.recs))
            /\ ~(p <= stmt.size /\ p \notin InStmt)
  <2>1. journal' = journal /\ stmt' = stmt
    BY <1>11 DEF Change
  <2>2. StmtRecords' = StmtRecords
    BY <2>1 DEF StmtRecords
  <2>3. p \in PagesOf(StmtRecords) \/ p > stmt.size
    BY <1>3, <1>4, <1>11
  <2>4. QED
    BY <1>2, <1>4, <1>6, <2>1, <2>2, <2>3
<1>12. QED
  BY <1>9, <1>10, <1>11

\* A rollback of a statement, as the flags, the journal and the disk have it.
LEMMA StmtRollbackMore ==
    ASSUME PagerTypeOK, Places, Sizes, StmtRollback
    PROVE  /\ \A p \in DOMAIN cache :
                 /\ cache'[p].inJournal = cache[p].inJournal
                 /\ cache'[p].needSync => cache[p].needSync
                 /\ cache[p].needSync /\ ~cache'[p].needSync =>
                       state = "exclusive" /\ p \in PagesOf(StmtRecords)
           /\ stale' = IF state = "exclusive" THEN Overwritten(PagesOf(StmtRecords)) ELSE stale
           /\ rash' = IF state = "exclusive"
                      THEN rash \cup {p \in PagesOf(StmtRecords) :
                                        p <= journal.size /\ p \notin PagesOf(Counted)}
                      ELSE rash
<1> DEFINE recs == StmtRecords
<1>1. cache' = [p \in DOMAIN cache |->
                  IF p \in PagesOf(recs)
                  THEN IF state = "exclusive"
                       THEN [[cache[p] EXCEPT !.val = ValueIn(recs, p)]
                                EXCEPT !.dirty = FALSE, !.needSync = FALSE]
                       ELSE [cache[p] EXCEPT !.val = ValueIn(recs, p)]
                  ELSE cache[p]]
  BY DEF StmtRollback
<1>2. /\ stale' = IF state = "exclusive" THEN Overwritten(PagesOf(StmtRecords)) ELSE stale
      /\ rash' = IF state = "exclusive"
                 THEN rash \cup {p \in PagesOf(StmtRecords) :
                                   p <= journal.size /\ p \notin PagesOf(Counted)}
                 ELSE rash
  BY DEF StmtRollback
<1> HIDE DEF recs
<1>3. ASSUME NEW p \in DOMAIN cache
      PROVE  /\ cache'[p].inJournal = cache[p].inJournal
             /\ cache'[p].needSync => cache[p].needSync
             /\ cache[p].needSync /\ ~cache'[p].needSync => state = "exclusive" /\ p \in PagesOf(recs)
  <2>1. cache[p] \in Cached
    BY DEF PagerTypeOK
  <2>2. CASE state = "exclusive" /\ p \in PagesOf(recs)
    BY <1>1, <2>1, <2>2 DEF Cached
  <2>3. CASE ~(state = "exclusive" /\ p \in PagesOf(recs))
    BY <1>1, <2>1, <2>3 DEF Cached
  <2>4. QED
    BY <2>2, <2>3
<1>4. QED
  BY <1>2, <1>3 DEF recs

-----------------------------------------------------------------------------
\* The records, after the end of a transaction, a rollback and any step.
LEMMA RecordsEnd ==
    ASSUME NEW f, NEW c, EndTransaction(f, c)
    PROVE  Records'
BY DEF EndTransaction, Records, Live, Underway, InTransaction

LEMMA RecordsUndo ==
    ASSUME PagerTypeOK, Places, Sizes, Records, Undo, InTransaction, job # "playback"
    PROVE  Records'
<1>1. CASE ~dirtyCache \/ state = "reserved"
  BY <1>1, RecordsEnd DEF Undo
<1>2. CASE dirtyCache /\ state # "reserved"
  <2>1. journal # Absent
    BY DEF Places, Underway
  <2>2. journal.size \in Nat /\ file \in Seq(Values)
    BY <2>1, JournalType, Numbers DEF PagerTypeOK
  <2>3. Len(file') = journal.size
    BY <1>2, <2>2, TruncatedFacts DEF Undo
  <2>4. UNCHANGED <<journal, state, stmt>> /\ job' = "playback"
    BY <1>2 DEF Undo, memory
  <2>5. QED
    BY <2>1, <2>2, <2>3, <2>4 DEF Records, Live
<1>3. QED
  BY <1>1, <1>2

\* ... as long as the journals stay, and the file grows.
LEMMA RecordsUnchanged ==
    ASSUME PagerTypeOK, Records, UNCHANGED <<journal, stmt>>, Live' => Live,
           Len(file') \in Nat, Len(file') >= Len(file),
           (job' \in {"sync", "count", "write"} /\ want' = 0) \/ job' \in {"flush", "delete"}
              => \/ job \in {"sync", "count", "write"} /\ want = 0
                 \/ job \in {"flush", "delete"}
    PROVE  Records'
<1>1. journal # Absent /\ journal.valid => journal.size <= Len(file')
  <2>1. journal # Absent => journal.size \in Nat
    BY JournalType, Numbers
  <2>2. Len(file) \in Nat
    BY DEF PagerTypeOK
  <2>3. journal # Absent /\ journal.valid => journal.size <= Len(file)
    BY DEF Records
  <2>4. QED
    BY <2>1, <2>2, <2>3
<1>2. StmtRecords' = StmtRecords
  BY DEF StmtRecords
<1>3. QED
  BY <1>1, <1>2 DEF Records

LEMMA ChangeKeepsRecords ==
    ASSUME PagerTypeOK, Places, Sizes, Records, InTransaction, job # "playback",
           NEW p \in DOMAIN cache, NEW v \in Values, Change(p, v),
           UNCHANGED file, job' = "ready" \/ (job' = "sync" /\ stmt = Absent)
    PROVE  Records'
<1>1. journal # Absent /\ Consistent(journal.recs) /\ Live
  BY DEF Places, Underway, Live, Records
<1>2. Consistent(journal'.recs)
  BY <1>1, ChangeRecords
<1>3. /\ journal'.size = journal.size /\ journal'.valid = journal.valid
      /\ stmt' = stmt \/ (stmt # Absent /\ stmt' # Absent)
  BY <1>1, ChangeEffect
<1>4. stmt' # Absent =>
        /\ Consistent(StmtRecords')
        /\ \A q \in PagesOf(stmt'.saved) : q <= journal'.size => q \in PagesOf(journal'.recs)
  <2>1. stmt' # Absent => stmt # Absent
    BY <1>3
  <2>2. QED
    BY <2>1, ChangeStmt
<1>5. QED
  BY <1>1, <1>2, <1>3, <1>4 DEF Records

LEMMA RecordsStep ==
    ASSUME PagerInv, Records, Flushed, PagerTypeOK', PagerNext
    PROVE  Records'
<1> USE DEF PagerInv, disk, memory
<1>0. PagerTypeOK /\ Len(file) \in Nat /\ Len(file') \in Nat
  <2>1. PagerTypeOK /\ Len(file) \in Pages /\ Len(file') \in Pages
    BY DEF PagerTypeOK
  <2>2. QED
    BY <2>1, Numbers
<1>1. CASE Open
  <2>1. CASE journal = Absent
    BY <1>1, <2>1 DEF Open, Records, Live, Underway, InTransaction, Places
  <2>2. CASE journal # Absent
    <3>1. journal.valid => Len(file') = journal.size
      <4>1. journal.size \in Nat /\ file \in Seq(Values)
        BY <2>2, JournalType, Numbers DEF PagerTypeOK
      <4>2. Len(Truncated(file, journal.size)) = journal.size
        BY <4>1, TruncatedFacts
      <4>3. QED
        BY <1>1, <2>2, <4>2 DEF Open
    <3>2. UNCHANGED <<journal, stmt>> /\ job' = "playback" /\ journal.size \in Nat
      BY <1>1, <2>2, JournalType, Numbers DEF Open
    <3>3. QED
      BY <2>2, <3>1, <3>2 DEF Records, Live
  <2>3. QED
    BY <2>1, <2>2
<1>2. CASE Release
  BY <1>2 DEF Release, Records, Live, Underway, InTransaction, Places
<1>3. CASE Begin
  <2>1. /\ journal' = [size |-> dbSize, valid |-> TRUE, recs |-> <<>>, counted |-> 0]
        /\ stmt' = Absent /\ Len(file') = dbSize /\ job' = "ready"
    BY <1>3 DEF Begin, Places, Sizes
  <2>2. journal'.recs = <<>> /\ journal'.size = dbSize /\ dbSize \in Nat
    BY <2>1 DEF PagerTypeOK
  <2>3. Consistent(journal'.recs)
    BY <2>2 DEF Consistent, RecordsOf
  <2>4. QED
    BY <2>1, <2>2, <2>3 DEF Records
<1>4. CASE Get
  <2>1. PICK p \in Pages : job' \in {"append", "ready"} \/ want' = p
    BY <1>4, GetEffect DEF Then
  <2>2. job' \notin {"flush", "delete"} /\ p # 0
    BY <1>4, GetEffect, Numbers DEF Then
  <2>3. UNCHANGED <<journal, stmt, file, state>> /\ job = "ready"
    BY <1>4 DEF Get
  <2>4. QED
    BY <1>0, <2>1, <2>2, <2>3, RecordsUnchanged DEF Live, Underway, InTransaction
<1>5. CASE Write
  <2>1. PICK p \in DOMAIN cache, v \in Values : Change(p, v)
    BY <1>5 DEF Write, Present
  <2>2. QED
    BY <1>5, <2>1, ChangeKeepsRecords DEF Write
<1>6. CASE WriteFails
  BY <1>6, RecordsUndo DEF WriteFails
<1>7. CASE StmtBegin
  <2>1. Live /\ journal # Absent /\ UNCHANGED <<journal, file, job, state>> /\ job = "ready"
    BY <1>7 DEF StmtBegin, Live, Underway, Places
  <2>2. /\ journal.recs \in Seq(Record) /\ Len(journal.recs) \in Nat
        /\ stmt'.skip = Len(journal.recs) /\ stmt'.saved = <<>>
    BY <1>7, <2>1, JournalType DEF StmtBegin
  <2>3. StmtRecords' = <<>> \o SubSeq(journal.recs, Len(journal.recs) + 1, Len(journal.recs))
    BY <2>1, <2>2 DEF StmtRecords
  <2>4. RecordsOf(StmtRecords') = {}
    <3>1. Len(journal.recs) \in 0..Len(journal.recs) /\ <<>> \in Seq(Record)
      BY <2>2
    <3>2. RecordsOf(StmtRecords') = RecordsOf(<<>>) \cup RecordsOf(SubSeq(journal.recs, Len(journal.recs) + 1, Len(journal.recs)))
      <4> DEFINE k == Len(journal.recs)
                 r == journal.recs
                 none == <<>>
      <4>1. none \in Seq(Record) /\ r \in Seq(Record) /\ k \in 0..Len(r)
        BY <2>2, <3>1
      <4>2. StmtRecords' = none \o SubSeq(r, k + 1, Len(r))
        BY <2>3
      <4> HIDE DEF k, r, none
      <4>3. RecordsOf(StmtRecords') = RecordsOf(none) \cup RecordsOf(SubSeq(r, k + 1, Len(r)))
        BY <4>1, <4>2, JoinFacts
      <4>4. QED
        BY <4>3 DEF k, r, none
    <3>3. /\ Len(journal.recs) + 1 \in Nat \ {0} /\ Len(journal.recs) + 1 <= Len(journal.recs) + 1
          /\ Len(journal.recs) + 1 .. Len(journal.recs) = {}
      BY <2>2
    <3>4. RecordsOf(SubSeq(journal.recs, Len(journal.recs) + 1, Len(journal.recs))) = {}
      BY <2>2, <3>1, <3>3, SubSeqFacts
    <3>5. RecordsOf(<<>>) = {}
      BY DEF RecordsOf
    <3>6. QED
      BY <3>2, <3>4, <3>5
  <2>5. Consistent(StmtRecords') /\ PagesOf(stmt'.saved) = {}
    BY <2>2, <2>4 DEF Consistent, PagesOf
  <2>6. QED
    BY <2>1, <2>5 DEF Records
<1>8. CASE StmtCommit
  BY <1>8 DEF StmtCommit, Records, Live, Underway, InTransaction
<1>9. CASE StmtRollback
  <2>1. Live /\ journal # Absent /\ stmt # Absent /\ Len(file') = stmt.size
    BY <1>9, StmtRollbackEffect
  <2>2. stmt' = Absent /\ UNCHANGED journal /\ journal.size <= stmt.size
    BY <1>9, <2>1 DEF StmtRollback, Sizes
  <2>3. QED
    BY <2>1, <2>2 DEF Records
<1>10. CASE Commit
  <2>1. CASE ~dirtyCache
    BY <1>10, <2>1, RecordsEnd DEF Commit
  <2>2. CASE dirtyCache
    <3>1. PICK v \in Values : Change(1, v)
      BY <1>10, <2>2 DEF Commit
    <3>2. 1 \in DOMAIN cache
      BY <1>10 DEF Commit, Present, Live, Underway
    <3>3. QED
      BY <1>10, <2>2, <3>1, <3>2, ChangeKeepsRecords DEF Commit
  <2>3. QED
    BY <2>1, <2>2
<1>11. CASE SyncRecords
  <2>1. journal # Absent
    BY <1>11 DEF SyncRecords, Places, Underway
  <2>2. /\ journal'.size = journal.size /\ journal'.valid = journal.valid /\ journal'.recs = journal.recs
        /\ UNCHANGED <<file, state, stmt, want>> /\ job = "sync" /\ job' \in {"count", "write"}
    BY <1>11, <2>1, JournalType DEF SyncRecords, JournalFiles
  <2>3. StmtRecords' = StmtRecords
    BY <2>2 DEF StmtRecords
  <2>4. QED
    BY <2>1, <2>2, <2>3 DEF Records, Live, Underway, InTransaction
<1>12. CASE SyncCount
  BY <1>0, <1>12, RecordsUnchanged DEF SyncCount, Live, Underway, InTransaction
<1>13. CASE Recycle
  <2>1. PICK v \in Recyclable :
          /\ v \in Pages
          /\ \/ UNCHANGED <<file, state>>
             \/ cache[v].dirty /\ file' = Put(file, v, cache[v].val) /\ state' = "exclusive"
    BY <1>13, RecycleEffect
  <2>2. /\ job' \in {"append", "ready"} /\ job = "write" /\ v \in DOMAIN cache
        /\ UNCHANGED <<journal, stmt>>
    BY <1>13 DEF Recycle, Then, Recyclable
  <2>3. Len(file') >= Len(file) /\ (Live' => Live)
    <3>1. CASE UNCHANGED <<file, state>>
      BY <1>0, <2>2, <3>1 DEF Live, Underway, InTransaction
    <3>2. CASE cache[v].dirty /\ file' = Put(file, v, cache[v].val)
      <4>1. cache[v].val \in Values /\ state # "shared" /\ state # "unlock"
        BY <2>2, <3>2 DEF PagerTypeOK, Cached, Flags, Places
      <4>2. Len(file') >= Len(file)
        BY <1>0, <2>1, <3>2, <4>1, PutType
      <4>3. Live
        BY <2>2, <4>1 DEF Live, Underway, InTransaction, PagerTypeOK
      <4>4. QED
        BY <4>2, <4>3
    <3>3. QED
      BY <2>1, <3>1, <3>2
  <2>4. QED
    BY <1>0, <2>2, <2>3, RecordsUnchanged
<1>14. CASE WriteDirty
  <2>1. PICK p \in DOMAIN cache : file' = Put(file, p, cache[p].val) /\ job' \in {"write", "flush"}
    BY <1>14 DEF WriteDirty
  <2>2. p \in Pages /\ cache[p].val \in Values
    BY DEF PagerTypeOK, Cached
  <2>3. Len(file') >= Len(file)
    BY <1>0, <2>1, <2>2, PutType
  <2>4. Live /\ job = "write" /\ want = 0 /\ UNCHANGED <<journal, stmt>>
    BY <1>14 DEF WriteDirty, Places, Live, Underway
  <2>5. QED
    BY <1>0, <2>1, <2>3, <2>4, RecordsUnchanged
<1>15. CASE Busy
  <2>1. CASE want = 0
    BY <1>0, <1>15, <2>1, RecordsUnchanged DEF Busy, Live, Underway, InTransaction
  <2>2. CASE want # 0
    BY <1>15, <2>2, RecordsUndo DEF Busy, InTransaction
  <2>3. QED
    BY <2>1, <2>2
<1>16. CASE Flush
  <2>1. Live /\ job = "flush" /\ UNCHANGED <<journal, stmt, file>>
    BY <1>16 DEF Flush, Places, Live, Underway, InTransaction
  <2>2. QED
    BY <1>0, <2>1, RecordsUnchanged
<1>17. CASE Delete
  BY <1>17, RecordsEnd DEF Delete
<1>18. CASE Rollback
  BY <1>18, RecordsUndo DEF Rollback
<1>19. CASE Playback
  <2>1. CASE journal.valid /\ replayed < journal.counted
    <3>1. Len(file') = Len(file)
      BY <1>19, <2>1, PlaybackEffect
    <3>2. UNCHANGED <<journal, stmt, state, job>> /\ job = "playback"
      BY <1>19, <2>1 DEF Playback
    <3>3. QED
      BY <1>0, <3>1, <3>2, RecordsUnchanged DEF Live, Underway, InTransaction
  <2>2. CASE ~(journal.valid /\ replayed < journal.counted)
    BY <1>19, <2>2, RecordsEnd DEF Playback
  <2>3. QED
    BY <2>1, <2>2
<1>20. CASE Crash
  BY <1>20 DEF Crash, Gone, Records, Live, Underway, InTransaction
<1>21. CASE PowerLoss
  <2>1. state' = "unlock" /\ job' = "ready"
    BY <1>21 DEF PowerLoss, Gone
  <2>2. Len(file') = Len(file)
    <3>1. file' \in [1..Len(file) -> Values]
      BY <1>21 DEF PowerLoss
    <3>2. QED
      BY <1>0, <3>1, SeqOfFunction
  <2>3. CASE journal = Absent
    BY <1>21, <2>1, <2>3 DEF PowerLoss, Records, Live, Underway, InTransaction
  <2>4. CASE journal # Absent
    <3> DEFINE kept == SubSeq(journal.recs, 1, settled.recs)
    <3>1. PICK valid \in {settled.valid, journal.valid}, n \in settled.counts \cup {journal.counted} :
             journal' = [journal EXCEPT !.valid = valid, !.recs = kept, !.counted = Least(n, Len(kept))]
      BY <1>21, <2>4 DEF PowerLoss
    <3>2. /\ journal.recs \in Seq(Record) /\ settled.recs \in 0..Len(journal.recs)
          /\ Consistent(journal.recs) /\ settled.recs <= settled.recs
      <4>1. settled.recs \in Nat
        BY DEF PagerTypeOK
      <4>2. journal.recs \in Seq(Record) /\ Len(journal.recs) \in Nat
        BY <2>4, JournalType
      <4>3. settled.recs <= Len(journal.recs) /\ Consistent(journal.recs)
        BY <2>4 DEF Sizes, Records
      <4>4. QED
        BY <4>1, <4>2, <4>3
    <3>3. kept \in Seq(Record) /\ RecordsOf(kept) \subseteq RecordsOf(journal.recs)
      BY <3>2, PrefixFacts
    <3> HIDE DEF kept
    <3>4. journal'.recs = kept /\ journal'.size = journal.size /\ journal'.valid = valid
      BY <2>4, <3>1, JournalType DEF JournalFiles
    <3>5. Consistent(kept)
      BY <3>2, <3>3, PartFacts
    <3>6. valid => journal.valid
      BY <2>4, <3>1 DEF Flushed
    <3>7. QED
      BY <2>1, <2>2, <2>4, <3>4, <3>5, <3>6 DEF Records, Live, Underway, InTransaction
  <2>5. QED
    BY <2>3, <2>4
<1> QED
  BY <1>1, <1>2, <1>3, <1>4, <1>5, <1>6, <1>7, <1>8, <1>9, <1>10, <1>11, <1>12, <1>13, <1>14,
     <1>15, <1>16, <1>17, <1>18, <1>19, <1>20, <1>21 DEF PagerNext

\* What has been flushed, after the end of a transaction, a rollback and any step.
LEMMA FlushedEnd ==
    ASSUME NEW f, NEW c, c \in [DOMAIN c -> Cached], EndTransaction(f, c)
    PROVE  Flushed'
<1>1. state' = "shared" /\ job' = "ready" /\ journal' = Absent
  BY DEF EndTransaction
<1>2. \A p \in DOMAIN cache' : ~cache'[p].inJournal
  BY DEF EndTransaction, Cached
<1>3. QED
  BY <1>1, <1>2 DEF Flushed, Live, Underway, InTransaction

\* ... as long as no transaction goes on.
LEMMA FlushedNotLive ==
    ASSUME Flushed, UNCHANGED <<journal, settled>>, ~Live', state' # "shared", job' \notin {"count", "write"}
    PROVE  Flushed'
BY DEF Flushed

LEMMA FlushedUndo ==
    ASSUME PagerTypeOK, Places, Flushed, Undo, InTransaction
    PROVE  Flushed'
<1>1. CASE ~dirtyCache
  BY <1>1, FlushedEnd DEF Undo, PagerTypeOK
<1>2. CASE dirtyCache /\ state = "reserved"
  <2>1. Reloaded(file, journal.size) \in [DOMAIN Reloaded(file, journal.size) -> Cached]
    <3>1. journal # Absent /\ file \in Seq(Values)
      BY DEF Places, Underway, PagerTypeOK
    <3>2. journal.size \in Nat
      BY <3>1, JournalType, Numbers
    <3>3. QED
      BY <3>1, <3>2, ReloadedType
  <2>2. QED
    BY <1>2, <2>1, FlushedEnd DEF Undo
<1>3. CASE dirtyCache /\ state # "reserved"
  <2>1. UNCHANGED <<journal, settled, state>> /\ job' = "playback"
    BY <1>3 DEF Undo, memory
  <2>2. QED
    BY <2>1, FlushedNotLive DEF Live, InTransaction
<1>4. QED
  BY <1>1, <1>2, <1>3

\* ... as long as pages only leave the cache, are loaded or written.
LEMMA FlushedCache ==
    ASSUME PagerTypeOK, Sizes, Places, Flushed, UNCHANGED <<journal, settled, needSync, rash>>,
           job # "count", job' # "count",
           Live' => Live /\ (state' # "reserved" => settled.valid), state' = "reserved" => state = "reserved",
           state' = "shared" => state = "shared",
           job' = "write" /\ want' = 0 => ~needSync,
           \A p \in DOMAIN cache : cache[p].needSync => p \in DOMAIN cache' /\ cache'[p].needSync,
           \A p \in DOMAIN cache' :
              \/ /\ p \in DOMAIN cache
                 /\ cache'[p].needSync => cache[p].needSync
                 /\ cache'[p].inJournal = cache[p].inJournal
                 /\ cache'[p].dirty => cache[p].dirty
              \/ /\ ~cache'[p].needSync /\ ~cache'[p].dirty
                 /\ cache'[p].inJournal => InTransaction /\ p \in PagesOf(journal.recs)
    PROVE  Flushed'
<1>1. Uncounted' = Uncounted
  BY DEF Uncounted, Counted
<1>2. /\ journal' # Absent =>
            /\ journal'.counted <= settled'.recs
            /\ \A n \in settled'.counts : n <= journal'.counted
            /\ settled'.valid => journal'.valid
      /\ job' = "write" /\ want' = 0 => ~needSync'
      /\ Live' => /\ ~needSync' => journal'.counted = Len(journal'.recs)
                  /\ settled'.valid /\ job' # "count" => settled'.counts = {}
                  /\ ~settled'.valid => journal'.counted = 0
                  /\ state' # "reserved" => settled'.valid
  BY DEF Flushed
<1>3. ASSUME Live', NEW p \in Uncounted'
      PROVE  \/ p \in DOMAIN cache' /\ cache'[p].needSync
             \/ p \in rash' /\ state' # "reserved"
  <2>1. Live /\ p \in Uncounted
    BY <1>1, <1>3
  <2>2. \/ p \in DOMAIN cache /\ cache[p].needSync
        \/ p \in rash /\ state # "reserved"
    BY <2>1 DEF Flushed
  <2>3. QED
    BY <2>2
<1>4. ASSUME Live', NEW p \in DOMAIN cache'
      PROVE  /\ cache'[p].needSync => needSync'
             /\ cache'[p].dirty => cache'[p].inJournal /\ (p <= journal'.size => p \in PagesOf(journal'.recs))
             /\ journal'.size < p /\ cache'[p].inJournal /\ ~cache'[p].needSync => settled'.valid
  <2>1. Live /\ journal # Absent
    BY <1>4 DEF Live, Places
  <2>2. CASE /\ p \in DOMAIN cache
             /\ cache'[p].needSync => cache[p].needSync
             /\ cache'[p].inJournal = cache[p].inJournal
             /\ cache'[p].dirty => cache[p].dirty
    <3>1. /\ cache[p].needSync => needSync
          /\ cache[p].dirty => cache[p].inJournal /\ (p <= journal.size => p \in PagesOf(journal.recs))
          /\ journal.size < p /\ cache[p].inJournal /\ ~cache[p].needSync => settled.valid
      BY <2>1, <2>2 DEF Flushed
    <3>2. ~cache'[p].needSync => ~cache[p].needSync
      BY <2>2
    <3>3. QED
      BY <2>2, <3>1, <3>2
  <2>3. CASE /\ ~cache'[p].needSync /\ ~cache'[p].dirty
             /\ cache'[p].inJournal => InTransaction /\ p \in PagesOf(journal.recs)
    <3>1. p \in PagesOf(journal.recs) => p <= journal.size
      BY <2>1 DEF Sizes
    <3>2. p \in PagesOf(journal.recs) => p \in Nat /\ journal.size \in Nat
      BY <2>1, JournalType, RecordFacts, Numbers
    <3>3. journal.size < p => ~cache'[p].inJournal
      BY <2>3, <3>1, <3>2
    <3>4. QED
      BY <2>3, <3>3
  <2>4. QED
    BY <2>2, <2>3
<1>5. ASSUME state' = "shared", NEW p \in DOMAIN cache'
      PROVE  ~cache'[p].inJournal
  BY <1>5 DEF Flushed, InTransaction
<1>6. QED
  BY <1>2, <1>3, <1>4, <1>5 DEF Flushed

LEMMA ChangeKeepsFlushed ==
    ASSUME PagerTypeOK, Places, Sizes, Records, Flushed, InTransaction, job \notin {"playback", "count"},
           NEW p \in DOMAIN cache, NEW v \in Values, Change(p, v),
           UNCHANGED <<settled, state>>, job' \in {"ready", "sync"}
    PROVE  Flushed'
<1>1. journal # Absent /\ Consistent(journal.recs) /\ Live /\ p \in Nat /\ journal.size \in Nat
  <2>1. journal # Absent /\ Consistent(journal.recs) /\ Live
    BY DEF Places, Underway, Live, Records
  <2>2. p \in Pages /\ journal.size \in Pages
    BY <2>1, JournalType DEF PagerTypeOK
  <2>3. QED
    BY <2>1, <2>2, Numbers
<1>2. /\ journal'.size = journal.size /\ journal'.valid = journal.valid
      /\ journal'.counted = journal.counted /\ journal' # Absent
      /\ DOMAIN cache' = DOMAIN cache
      /\ \A q \in DOMAIN cache : q # p => cache'[q] = cache[q]
  BY <1>1, ChangeEffect
<1>3. /\ \/ /\ journal' = journal /\ rash' = rash
            /\ p > journal.size \/ p \in PagesOf(journal.recs)
         \/ /\ p <= journal.size /\ p \notin PagesOf(journal.recs)
            /\ PagesOf(journal'.recs) = PagesOf(journal.recs) \cup {p}
            /\ needSync' /\ cache'[p].needSync
      /\ rash \subseteq rash'
      /\ Counted' = Counted
  BY <1>1, ChangeRecords
<1>4. /\ p <= journal.size /\ p \notin PagesOf(journal.recs) => cache'[p].needSync
      /\ p > journal.size /\ ~cache[p].inJournal => cache'[p].needSync = ~settled.valid
      /\ \/ p > journal.size /\ cache[p].inJournal
         \/ p <= journal.size /\ p \in PagesOf(journal.recs)
         => cache'[p].needSync = cache[p].needSync
      /\ cache'[p].inJournal
      /\ needSync' = (needSync \/ cache'[p].needSync)
  BY <1>1, ChangeFlag
<1>5. p > journal.size \/ p <= journal.size
  BY <1>1
<1>6. p \in PagesOf(journal.recs) => p <= journal.size
  BY <1>1 DEF Sizes
<1>7. Live /\ Live' /\ job # "count" /\ job' # "count"
  BY <1>1 DEF Live, Underway, InTransaction
<1>8. /\ ~needSync => journal.counted = Len(journal.recs)
      /\ settled.valid => settled.counts = {}
      /\ ~settled.valid => journal.counted = 0
      /\ state # "reserved" => settled.valid
      /\ \A q \in Uncounted : \/ q \in DOMAIN cache /\ cache[q].needSync
                              \/ q \in rash /\ state # "reserved"
  BY <1>7 DEF Flushed
<1>9. ~needSync' => journal'.counted = Len(journal'.recs)
  BY <1>2, <1>3, <1>4, <1>8
<1>10. ASSUME NEW q \in Uncounted'
       PROVE  \/ q \in DOMAIN cache' /\ cache'[q].needSync
              \/ q \in rash' /\ state' # "reserved"
  <2>1. q \in PagesOf(journal'.recs) /\ q \notin PagesOf(Counted)
    BY <1>3, <1>10 DEF Uncounted
  <2>2. CASE q \notin PagesOf(journal.recs)
    BY <1>2, <1>3, <2>1, <2>2
  <2>3. CASE q \in PagesOf(journal.recs) /\ q # p
    BY <1>2, <1>3, <1>8, <2>1, <2>3 DEF Uncounted
  <2>4. CASE q \in PagesOf(journal.recs) /\ q = p
    <3>1. cache'[p].needSync = cache[p].needSync
      BY <1>4, <1>6, <2>4
    <3>2. QED
      BY <1>2, <1>3, <1>8, <2>1, <2>4, <3>1 DEF Uncounted
  <2>5. QED
    BY <2>2, <2>3, <2>4
<1>11. ASSUME NEW q \in DOMAIN cache'
       PROVE  /\ cache'[q].needSync => needSync'
              /\ cache'[q].dirty => cache'[q].inJournal /\ (q <= journal'.size => q \in PagesOf(journal'.recs))
              /\ journal'.size < q /\ cache'[q].inJournal /\ ~cache'[q].needSync => settled'.valid
  <2>1. /\ cache[q].needSync => needSync
        /\ cache[q].dirty => cache[q].inJournal /\ (q <= journal.size => q \in PagesOf(journal.recs))
        /\ journal.size < q /\ cache[q].inJournal /\ ~cache[q].needSync => settled.valid
    BY <1>2, <1>7 DEF Flushed
  <2>2. CASE q # p
    <3>1. cache'[q] = cache[q] /\ (needSync => needSync')
      BY <1>2, <1>4, <2>2
    <3>2. PagesOf(journal.recs) \subseteq PagesOf(journal'.recs)
      BY <1>3
    <3>3. QED
      BY <1>2, <2>1, <3>1, <3>2
  <2>3. CASE q = p
    <3>1. cache'[q].needSync => needSync'
      BY <1>4, <2>3
    <3>2. q <= journal'.size => q \in PagesOf(journal'.recs)
      <4>1. ~(p > journal.size /\ p <= journal.size)
        BY <1>1
      <4>2. QED
        BY <1>2, <1>3, <2>3, <4>1
    <3>3. journal'.size < q /\ ~cache'[q].needSync => settled.valid
      <4>1. ASSUME journal'.size < q, ~cache'[q].needSync
            PROVE  settled.valid
        <5>1. p > journal.size
          BY <1>1, <1>2, <2>3, <4>1
        <5>2. CASE cache[p].inJournal
          BY <1>4, <2>1, <2>3, <4>1, <5>1, <5>2
        <5>3. CASE ~cache[p].inJournal
          BY <1>4, <2>3, <4>1, <5>1, <5>3
        <5>4. QED
          BY <5>2, <5>3
      <4>2. QED
        BY <4>1
    <3>4. QED
      BY <1>4, <2>3, <3>1, <3>2, <3>3
  <2>4. QED
    BY <2>2, <2>3
<1>12. /\ journal'.counted <= settled'.recs
       /\ \A n \in settled'.counts : n <= journal'.counted
       /\ settled'.valid => journal'.valid
  BY <1>1, <1>2 DEF Flushed
<1>13. state' # "shared"
  BY DEF InTransaction
<1>14. /\ settled'.valid => settled'.counts = {}
       /\ ~settled'.valid => journal'.counted = 0
       /\ state' # "reserved" => settled'.valid
  BY <1>2, <1>8
<1>15. job' # "count" /\ job' # "write"
  OBVIOUS
<1>16. QED
  BY <1>9, <1>10, <1>11, <1>12, <1>13, <1>14, <1>15 DEF Flushed

\* A page that is loaded is clean, and needs no flush.
LEMMA LoadedJournal ==
    ASSUME PagerTypeOK, NEW f \in Seq(Values), NEW p \in Pages, NEW v \in Pages \cup {0}, p # v
    PROVE  /\ ~Loaded(f, p, v)[p].dirty /\ ~Loaded(f, p, v)[p].needSync
           /\ Loaded(f, p, v)[p].inJournal => InTransaction /\ p \in PagesOf(journal.recs)
           /\ DOMAIN Loaded(f, p, v) = (DOMAIN cache \cup {p}) \ {v}
           /\ \A q \in DOMAIN cache : q # p /\ q # v => Loaded(f, p, v)[q] = cache[q]
<1>1. Loaded(f, p, v)[p] = [Read(IF p > dbSize THEN <<>> ELSE f, p) EXCEPT
                              !.inJournal = InTransaction /\ p \in PagesOf(journal.recs)]
  BY DEF Loaded
<1>2. Loaded(f, p, v)[p].inJournal => InTransaction /\ p \in PagesOf(journal.recs)
  BY <1>1 DEF Read
<1>3. DOMAIN Loaded(f, p, v) = (DOMAIN cache \cup {p}) \ {v}
  BY DEF Loaded
<1>4. QED
  BY <1>2, <1>3, LoadedFacts

LEMMA FlushedStep ==
    ASSUME PagerInv, Records, Flushed, PagerTypeOK', PagerNext
    PROVE  Flushed'
<1> USE DEF PagerInv, disk, memory
<1>0. PagerTypeOK /\ Places /\ Sizes /\ Records /\ Flushed
  OBVIOUS
<1>1. CASE Open
  <2>1. CASE journal = Absent
    <3>1. journal' = Absent /\ job' = "ready" /\ state' = "shared" /\ cache' = [p \in {1} |-> Read(file, 1)]
      BY <1>1, <2>1 DEF Open, Places
    <3>2. \A p \in DOMAIN cache' : ~cache'[p].inJournal
      BY <3>1 DEF Read
    <3>3. QED
      BY <3>1, <3>2 DEF Flushed, Live, Underway, InTransaction
  <2>2. CASE journal # Absent
    BY <1>1, <2>2, FlushedNotLive DEF Open, Live
  <2>3. QED
    BY <2>1, <2>2
<1>2. CASE Release
  BY <1>2, FlushedNotLive DEF Release, Live, Underway, InTransaction
<1>3. CASE Begin
  <2>1. /\ journal' = [size |-> dbSize, valid |-> TRUE, recs |-> <<>>, counted |-> 0]
        /\ settled' = [NothingSettled EXCEPT !.counts = {0}]
        /\ job' = "ready" /\ state' = "reserved" /\ needSync' = FALSE /\ state = "shared"
        /\ cache' = cache
    BY <1>3 DEF Begin
  <2>2. /\ journal'.recs = <<>> /\ journal'.counted = 0
        /\ settled'.recs = 0 /\ settled'.counts = {0} /\ ~settled'.valid
    BY <2>1 DEF NothingSettled
  <2>3. Uncounted' = {} /\ Len(journal'.recs) = 0
    BY <2>2 DEF Uncounted, PagesOf
  <2>4. \A p \in DOMAIN cache : ~cache[p].dirty /\ ~cache[p].needSync /\ ~cache[p].inJournal
    BY <2>1 DEF Flags, Flushed
  <2>5. QED
    BY <2>1, <2>2, <2>3, <2>4 DEF Flushed
<1>4. CASE Get
  <2>1. PICK p \in Pages \ DOMAIN cache :
             \/ cache' = Loaded(file, p, 0) /\ job' \in {"append", "ready"}
             \/ cache' = cache /\ want' = p /\ job' \in {"write", "sync"}
    BY <1>4, GetEffect DEF Then
  <2>2. /\ job = "ready" /\ UNCHANGED <<state, journal, settled, needSync, rash>>
        /\ p # 0
    BY <1>4, Numbers DEF Get
  <2>3. /\ \A q \in DOMAIN cache : cache[q].needSync => q \in DOMAIN cache' /\ cache'[q].needSync
        /\ \A q \in DOMAIN cache' :
              \/ q \in DOMAIN cache /\ cache'[q] = cache[q]
              \/ /\ ~cache'[q].needSync /\ ~cache'[q].dirty
                 /\ cache'[q].inJournal => InTransaction /\ q \in PagesOf(journal.recs)
    <3>1. CASE cache' = cache
      BY <3>1
    <3>2. CASE cache' = Loaded(file, p, 0)
      <4>1. file \in Seq(Values) /\ 0 \in Pages \cup {0} /\ 0 \notin DOMAIN cache /\ p \in Pages
        BY Numbers DEF PagerTypeOK
      <4>2. /\ ~cache'[p].dirty /\ ~cache'[p].needSync
            /\ cache'[p].inJournal => InTransaction /\ p \in PagesOf(journal.recs)
            /\ DOMAIN cache' = (DOMAIN cache \cup {p}) \ {0}
            /\ \A q \in DOMAIN cache : q # p /\ q # 0 => cache'[q] = cache[q]
        <5> DEFINE c == Loaded(file, p, 0)
        <5>1. p # 0
          BY <2>2
        <5>2. /\ ~c[p].dirty /\ ~c[p].needSync
              /\ c[p].inJournal => InTransaction /\ p \in PagesOf(journal.recs)
              /\ DOMAIN c = (DOMAIN cache \cup {p}) \ {0}
              /\ \A q \in DOMAIN cache : q # p /\ q # 0 => c[q] = cache[q]
          BY <4>1, <5>1, LoadedJournal
        <5> HIDE DEF c
        <5>3. cache' = c
          BY <3>2 DEF c
        <5>4. QED
          BY <5>2, <5>3
      <4>3. QED
        BY <2>1, <2>2, <4>1, <4>2
    <3>3. QED
      BY <2>1, <3>1, <3>2
  <2>4. Live' => Live /\ (state' # "reserved" => settled.valid)
    BY <2>2 DEF Live, Underway, InTransaction, Flushed
  <2>5. job # "count" /\ job' # "count" /\ (job' = "write" /\ want' = 0 => ~needSync)
    BY <2>1, <2>2
  <2>6. QED
    BY <1>0, <2>2, <2>3, <2>4, <2>5, FlushedCache
<1>5. CASE Write
  <2>1. PICK p \in DOMAIN cache, v \in Values : Change(p, v)
    BY <1>5 DEF Write, Present
  <2>2. QED
    BY <1>5, <2>1, ChangeKeepsFlushed DEF Write
<1>6. CASE WriteFails
  BY <1>6, FlushedUndo DEF WriteFails
<1>7. CASE StmtBegin
  BY <1>0, <1>7, FlushedCache DEF StmtBegin, Live, Underway, InTransaction, Flushed
<1>8. CASE StmtCommit
  BY <1>0, <1>8, FlushedCache DEF StmtCommit, Live, Underway, InTransaction, Flushed
<1>9. CASE StmtRollback
  <2>1. /\ Live /\ InTransaction /\ journal # Absent
        /\ DOMAIN cache' = DOMAIN cache
        /\ \A p \in DOMAIN cache :
              /\ p \notin PagesOf(StmtRecords) => cache'[p] = cache[p]
              /\ p \in PagesOf(StmtRecords) => cache'[p].dirty = (cache[p].dirty /\ state # "exclusive")
    BY <1>9, StmtRollbackEffect
  <2>2. /\ UNCHANGED <<journal, settled, state, job, needSync>> /\ job = "ready"
    BY <1>9 DEF StmtRollback
  <2>3. \A p \in DOMAIN cache :
           /\ cache'[p].inJournal = cache[p].inJournal
           /\ cache'[p].needSync => cache[p].needSync
           /\ cache[p].needSync /\ ~cache'[p].needSync =>
                 state = "exclusive" /\ p \in PagesOf(StmtRecords)
    BY <1>9, StmtRollbackMore
  <2>4. rash' = IF state = "exclusive"
                THEN rash \cup {p \in PagesOf(StmtRecords) :
                                  p <= journal.size /\ p \notin PagesOf(Counted)}
                ELSE rash
    BY <1>9, StmtRollbackMore
  <2>5. Uncounted' = Uncounted /\ Live'
    BY <2>1, <2>2 DEF Uncounted, Counted, Live, Underway, InTransaction
  <2>6. ASSUME NEW p \in Uncounted
        PROVE  \/ p \in DOMAIN cache' /\ cache'[p].needSync
               \/ p \in rash' /\ state' # "reserved"
    <3>1. \/ p \in DOMAIN cache /\ cache[p].needSync
          \/ p \in rash /\ state # "reserved"
      BY <2>1 DEF Flushed
    <3>2. p <= journal.size /\ p \notin PagesOf(Counted)
      BY <2>1 DEF Uncounted, Sizes
    <3>3. CASE p \in rash /\ state # "reserved"
      BY <2>2, <2>4, <3>3
    <3>4. CASE p \in DOMAIN cache /\ cache[p].needSync /\ ~cache'[p].needSync
      BY <2>2, <2>3, <2>4, <3>2, <3>4
    <3>5. QED
      BY <2>1, <3>1, <3>3, <3>4
  <2>7. ASSUME NEW p \in DOMAIN cache'
        PROVE  /\ cache'[p].needSync => needSync'
               /\ cache'[p].dirty => cache'[p].inJournal /\ (p <= journal'.size => p \in PagesOf(journal'.recs))
               /\ journal'.size < p /\ cache'[p].inJournal /\ ~cache'[p].needSync => settled'.valid
    <3>1. /\ cache[p].needSync => needSync
          /\ cache[p].dirty => cache[p].inJournal /\ (p <= journal.size => p \in PagesOf(journal.recs))
          /\ journal.size < p /\ cache[p].inJournal /\ ~cache[p].needSync => settled.valid
          /\ state # "reserved" => settled.valid
      BY <2>1 DEF Flushed
    <3>2. cache'[p].dirty => cache[p].dirty
      BY <2>1
    <3>3. QED
      BY <2>1, <2>2, <2>3, <3>1, <3>2
  <2>8. /\ ~needSync' => journal'.counted = Len(journal'.recs)
        /\ settled'.valid /\ job' # "count" => settled'.counts = {}
        /\ ~settled'.valid => journal'.counted = 0
        /\ state' # "reserved" => settled'.valid
        /\ journal'.counted <= settled'.recs
        /\ \A n \in settled'.counts : n <= journal'.counted
        /\ settled'.valid => journal'.valid
    BY <2>1, <2>2 DEF Flushed
  <2>9. QED
    BY <2>1, <2>2, <2>5, <2>6, <2>7, <2>8 DEF Flushed, InTransaction
<1>10. CASE Commit
  <2>1. CASE ~dirtyCache
    BY <1>10, <2>1, FlushedEnd DEF Commit, PagerTypeOK
  <2>2. CASE dirtyCache
    <3>1. PICK v \in Values : Change(1, v)
      BY <1>10, <2>2 DEF Commit
    <3>2. 1 \in DOMAIN cache
      BY <1>10 DEF Commit, Present, Live, Underway
    <3>3. QED
      BY <1>10, <2>2, <3>1, <3>2, ChangeKeepsFlushed DEF Commit
  <2>3. QED
    BY <2>1, <2>2
<1>11. CASE SyncRecords
  <2>1. journal # Absent /\ Live /\ InTransaction /\ job = "sync" /\ UNCHANGED <<state, cache, needSync, want, rash>>
    BY <1>11 DEF SyncRecords, Places, Underway, Live
  <2>2. CASE needSync
    <3>1. /\ journal' = [journal EXCEPT !.counted = Len(journal.recs)]
          /\ settled' = [valid |-> TRUE, recs |-> Len(journal.recs),
                         counts |-> settled.counts \cup {journal.counted}]
          /\ job' = "count"
      BY <1>11, <2>2 DEF SyncRecords, NRec
    <3>2. /\ journal'.counted = Len(journal.recs) /\ journal'.recs = journal.recs
          /\ journal'.valid = journal.valid /\ journal'.size = journal.size
          /\ journal.recs \in Seq(Record) /\ journal.counted \in 0..Len(journal.recs)
      BY <2>1, <3>1, JournalType DEF JournalFiles
    <3>3. settled'.valid /\ settled'.recs = Len(journal.recs) /\ settled'.counts = settled.counts \cup {journal.counted}
      BY <3>1
    <3>4. \A n \in settled'.counts : n <= journal'.counted
      <4>1. \A n \in settled.counts : n <= journal.counted /\ n \in Nat
        BY <2>1 DEF Flushed, PagerTypeOK
      <4>2. journal.counted \in Nat /\ journal.counted <= Len(journal.recs) /\ Len(journal.recs) \in Nat
        BY <3>2
      <4>3. QED
        BY <3>2, <3>3, <4>1, <4>2
    <3>5. Uncounted' = {}
      <4>1. Counted' = SubSeq(journal.recs, 1, Len(journal.recs))
        BY <3>2 DEF Counted
      <4>2. PagesOf(SubSeq(journal.recs, 1, Len(journal.recs))) = PagesOf(journal.recs)
        BY <3>2, AllRecords
      <4>3. QED
        BY <3>2, <4>1, <4>2 DEF Uncounted
    <3>6. \A p \in DOMAIN cache :
             /\ cache[p].needSync => needSync
             /\ cache[p].dirty => cache[p].inJournal /\ (p <= journal.size => p \in PagesOf(journal.recs))
      BY <2>1 DEF Flushed
    <3>7. journal.valid
      BY <2>1 DEF Sizes
    <3>8. Len(journal.recs) \in Nat /\ Len(journal.recs) <= Len(journal.recs)
      BY <3>2
    <3>9. QED
      BY <2>1, <3>1, <3>2, <3>3, <3>4, <3>5, <3>6, <3>7, <3>8 DEF Flushed, InTransaction
  <2>3. CASE ~needSync
    <3>1. UNCHANGED <<journal, settled>> /\ job' = "write"
      BY <1>11, <2>3 DEF SyncRecords
    <3>2. Live' => Live /\ (state' # "reserved" => settled.valid)
      BY <2>1 DEF Flushed
    <3>3. QED
      BY <1>0, <2>1, <2>3, <3>1, <3>2, FlushedCache
  <2>4. QED
    BY <2>2, <2>3
<1>12. CASE SyncCount
  <2>1. /\ journal # Absent /\ Live /\ InTransaction /\ job = "count" /\ job' = "write"
        /\ UNCHANGED <<journal, state>>
        /\ settled' = [valid |-> TRUE, recs |-> Len(journal.recs), counts |-> {}]
        /\ ~needSync'
    BY <1>12 DEF SyncCount, Places, Underway, Live
  <2>2. /\ DOMAIN cache' = DOMAIN cache
        /\ \A p \in DOMAIN cache : /\ cache'[p].dirty = cache[p].dirty /\ cache'[p].inJournal = cache[p].inJournal
                                   /\ ~cache'[p].needSync
    BY <1>12 DEF SyncCount, PagerTypeOK, Cached
  <2>3. settled'.valid /\ settled'.recs = Len(journal.recs) /\ settled'.counts = {}
    BY <2>1
  <2>4. journal.counted = Len(journal.recs) /\ Len(journal.recs) \in Nat /\ journal.valid
    BY <2>1, JournalType DEF Flushed, Sizes
  <2>5. Uncounted' = {}
    <3>1. Uncounted' = Uncounted
      BY <2>1 DEF Uncounted, Counted
    <3>2. QED
      BY <2>1, <2>4, <3>1, CountedFacts DEF Uncounted
  <2>6. \A p \in DOMAIN cache :
           cache[p].dirty => cache[p].inJournal /\ (p <= journal.size => p \in PagesOf(journal.recs))
    BY <2>1 DEF Flushed
  <2>7. Len(journal.recs) <= Len(journal.recs)
    BY <2>4
  <2>8. QED
    BY <2>1, <2>2, <2>3, <2>4, <2>5, <2>6, <2>7 DEF Flushed, InTransaction
<1>13. CASE Recycle
  <2>1. PICK v \in Recyclable :
          /\ want \in Pages \ DOMAIN cache /\ v \in Pages \ {1, want} /\ ~cache[v].needSync
          /\ \/ UNCHANGED state
             \/ cache[v].dirty /\ state' = "exclusive"
          /\ cache' = Loaded(file', want, v)
    <3>1. PICK v \in Recyclable :
            /\ ~cache[v].needSync
            /\ IF cache[v].dirty
               THEN state' = "exclusive"
               ELSE UNCHANGED state
            /\ cache' = Loaded(file', want, v)
      BY <1>13 DEF Recycle
    <3>2. want \in Pages \ DOMAIN cache /\ v \in Pages \ {1, want}
      <4>1. want \in Nat /\ DOMAIN cache \subseteq Pages
        BY FileType
      <4>2. want # 0 /\ want \in 0..MaxPages
        BY <1>13 DEF Recycle, PagerTypeOK
      <4>3. job = "write" /\ want \notin DOMAIN cache
        BY <1>13, <4>2 DEF Recycle, Present
      <4>4. want \in Pages
        BY <4>2, Numbers
      <4>5. v \in DOMAIN cache /\ v # 1
        BY DEF Recyclable
      <4>6. QED
        BY <4>1, <4>3, <4>4, <4>5
    <3>3. QED
      BY <3>1, <3>2
  <2>2. /\ job' \in {"append", "ready"} /\ job = "write" /\ v \in DOMAIN cache
        /\ UNCHANGED <<journal, settled, needSync, rash>> /\ state # "unlock"
    BY <1>13 DEF Recycle, Then, Recyclable, Places
  <2>3. /\ ~cache'[want].dirty /\ ~cache'[want].needSync
        /\ cache'[want].inJournal => InTransaction /\ want \in PagesOf(journal.recs)
        /\ DOMAIN cache' = (DOMAIN cache \cup {want}) \ {v}
        /\ \A q \in DOMAIN cache : q # want /\ q # v => cache'[q] = cache[q]
    <3>1. file' \in Seq(Values) /\ want \in Pages /\ v \in Pages \cup {0} /\ want # v
      BY <2>1 DEF PagerTypeOK
    <3>2. cache'[want].inJournal => InTransaction /\ want \in PagesOf(journal.recs)
      <4> DEFINE f == file'
      <4>1. f \in Seq(Values)
        BY <3>1
      <4> HIDE DEF f
      <4>2. Loaded(f, want, v)[want].inJournal => InTransaction /\ want \in PagesOf(journal.recs)
        BY <3>1, <4>1, LoadedJournal
      <4>3. QED
        BY <2>1, <4>2 DEF f
    <3>3. v \in Pages
      BY <2>1
    <3>4. QED
      BY <2>1, <3>1, <3>2, <3>3, LoadedWanted
  <2>4. /\ \A q \in DOMAIN cache : cache[q].needSync => q \in DOMAIN cache' /\ cache'[q].needSync
        /\ \A q \in DOMAIN cache' :
              \/ q \in DOMAIN cache /\ cache'[q] = cache[q]
              \/ /\ ~cache'[q].needSync /\ ~cache'[q].dirty
                 /\ cache'[q].inJournal => InTransaction /\ q \in PagesOf(journal.recs)
    BY <2>1, <2>3
  <2>5. Live' => Live /\ (state' # "reserved" => settled.valid)
    <3>1. CASE UNCHANGED state
      BY <2>2, <3>1 DEF Live, Underway, InTransaction, Flushed
    <3>2. CASE cache[v].dirty /\ state' = "exclusive"
      <4>1. Live
        BY <2>2, <3>2 DEF Flags, Live, Underway, InTransaction, PagerTypeOK
      <4>2. settled.valid
        BY <1>0, <2>1, <2>2, <3>2, <4>1, DirtySettled
      <4>3. QED
        BY <4>1, <4>2
    <3>3. QED
      BY <2>1, <3>1, <3>2
  <2>6. (state' = "reserved" => state = "reserved") /\ (state' = "shared" => state = "shared")
    BY <2>1
  <2>7. job # "count" /\ job' # "count" /\ (job' = "write" /\ want' = 0 => ~needSync)
    BY <2>2
  <2>8. QED
    BY <1>0, <2>2, <2>4, <2>5, <2>6, <2>7, FlushedCache
<1>14. CASE WriteDirty
  <2>1. PICK p \in DOMAIN cache :
          /\ cache[p].dirty
          /\ cache' = [cache EXCEPT ![p].dirty = FALSE]
    BY <1>14 DEF WriteDirty
  <2>2. /\ job = "write" /\ want = 0 /\ job' \in {"write", "flush"} /\ state' = "exclusive" /\ Live
        /\ UNCHANGED <<journal, settled, needSync, rash>>
    BY <1>14 DEF WriteDirty, Places, Live, Underway
  <2>3. ~needSync
    BY <2>2 DEF Flushed
  <2>4. settled.valid
    <3>1. ~cache[p].needSync
      BY <2>1, <2>2, <2>3 DEF Flushed
    <3>2. QED
      BY <1>0, <2>1, <2>2, <3>1, DirtySettled
  <2>5. /\ DOMAIN cache' = DOMAIN cache
        /\ \A q \in DOMAIN cache : /\ cache'[q].needSync = cache[q].needSync
                                   /\ cache'[q].inJournal = cache[q].inJournal
                                   /\ cache'[q].dirty => cache[q].dirty
    BY <2>1 DEF PagerTypeOK, Cached
  <2>6. QED
    BY <1>0, <2>2, <2>3, <2>4, <2>5, FlushedCache
<1>15. CASE Busy
  <2>1. CASE want = 0
    BY <1>0, <1>15, <2>1, FlushedCache DEF Busy, Live, Underway, InTransaction, Flushed
  <2>2. CASE want # 0
    BY <1>15, <2>2, FlushedUndo DEF Busy, InTransaction
  <2>3. QED
    BY <2>1, <2>2
<1>16. CASE Flush
  <2>1. /\ Live /\ job = "flush" /\ job' = "delete" /\ state = "exclusive" /\ state' = "synced"
        /\ UNCHANGED <<journal, settled, needSync, cache, rash>>
    BY <1>16 DEF Flush, Places, Live, Underway, InTransaction
  <2>2. settled.valid
    BY <2>1 DEF Flushed
  <2>3. QED
    BY <1>0, <2>1, <2>2, FlushedCache
<1>17. CASE Delete
  BY <1>17, FlushedEnd DEF Delete, PagerTypeOK
<1>18. CASE Rollback
  BY <1>18, FlushedUndo DEF Rollback
<1>19. CASE Playback
  <2>1. CASE journal.valid /\ replayed < journal.counted
    BY <1>19, <2>1, FlushedNotLive DEF Playback, Live, Places
  <2>2. CASE ~(journal.valid /\ replayed < journal.counted)
    BY <1>19, <2>2, FlushedEnd DEF Playback, PagerTypeOK
  <2>3. QED
    BY <2>1, <2>2
<1>20. CASE Crash
  <2>1. UNCHANGED <<journal, settled>> /\ state' = "unlock" /\ job' = "ready"
    BY <1>20 DEF Crash, Gone
  <2>2. QED
    BY <2>1, FlushedNotLive DEF Live, Underway, InTransaction
<1>21. CASE PowerLoss
  <2>1. state' = "unlock" /\ job' = "ready"
    BY <1>21 DEF PowerLoss, Gone
  <2>2. CASE journal = Absent
    BY <1>21, <2>1, <2>2 DEF PowerLoss, Flushed, Live, Underway, InTransaction
  <2>3. CASE journal # Absent
    <3> DEFINE kept == SubSeq(journal.recs, 1, settled.recs)
    <3>1. PICK valid \in {settled.valid, journal.valid}, n \in settled.counts \cup {journal.counted} :
             journal' = [journal EXCEPT !.valid = valid, !.recs = kept, !.counted = Least(n, Len(kept))]
      BY <1>21, <2>3 DEF PowerLoss
    <3>2. settled' = [valid |-> journal'.valid, recs |-> Len(journal'.recs), counts |-> {}]
      BY <1>21, <2>3 DEF PowerLoss
    <3> HIDE DEF kept
    <3>3. journal'.recs = kept /\ journal'.counted = Least(n, Len(kept))
      BY <2>3, <3>1, JournalType DEF JournalFiles
    <3>4. settled'.valid = journal'.valid /\ settled'.recs = Len(journal'.recs) /\ settled'.counts = {}
      BY <3>2
    <3>5. journal' # Absent => journal'.counted <= settled'.recs
      BY <3>4 DEF PagerTypeOK
    <3>6. QED
      BY <2>1, <3>4, <3>5 DEF Flushed, Live, Underway, InTransaction
  <2>4. QED
    BY <2>2, <2>3
<1> QED
  BY <1>1, <1>2, <1>3, <1>4, <1>5, <1>6, <1>7, <1>8, <1>9, <1>10, <1>11, <1>12, <1>13, <1>14,
     <1>15, <1>16, <1>17, <1>18, <1>19, <1>20, <1>21 DEF PagerNext

\* Pages with a record are pages of the file.
LEMMA RecordPages ==
    ASSUME PagerTypeOK, Sizes, Records, journal # Absent
    PROVE  /\ \A p \in PagesOf(journal.recs) : p \in 1..journal.size
           /\ journal.valid => \A p \in 1..journal.size : p \in 1..Len(file)
           /\ journal.size \in Nat /\ Len(file) \in Nat
           /\ \A p \in 1..journal.size : p \in Pages /\ p \in Nat \ {0}
<1>1. journal.size \in Nat /\ journal.size \in Pages /\ Len(file) \in Nat
  BY JournalType, Numbers DEF PagerTypeOK
<1>2. \A p \in PagesOf(journal.recs) : p \in Nat /\ 1 <= p /\ p <= journal.size
  BY JournalType, RecordFacts, Numbers DEF Sizes
<1>3. journal.valid => journal.size <= Len(file)
  BY DEF Records
<1>4. \A p \in 1..journal.size : p \in Pages
  BY <1>1, Numbers
<1>5. QED
  BY <1>1, <1>2, <1>3, <1>4

\* A page in the cache without a record is in the file as the cache has it.
LEMMA NoRecordStored ==
    ASSUME PagerInv, Flushed, Live, journal # Absent,
           NEW p \in DOMAIN cache, p <= journal.size, p \notin PagesOf(journal.recs), p \notin unread
    PROVE  cache[p].val = file[p] /\ p \in 1..Len(file)
<1>1. ~cache[p].dirty
  BY DEF Flushed
<1>2. p \in Nat /\ 1 <= p /\ journal.size \in Nat /\ dbSize \in Nat /\ Len(file) \in Nat
  <2>1. p \in Pages /\ journal.size \in Pages
    BY JournalType DEF PagerInv, PagerTypeOK
  <2>2. dbSize \in Nat /\ Len(file) \in Nat
    BY DEF PagerInv, PagerTypeOK
  <2>3. QED
    BY <2>1, <2>2, Numbers
<1>3. journal.size <= dbSize
  BY DEF PagerInv, Sizes
<1>4. p <= dbSize
  BY <1>2, <1>3
<1>5. p <= Len(file) /\ cache[p].val = file[p]
  BY <1>1, <1>4 DEF PagerInv, Kept, CleanIsStoredOtherwise, Stored, Live
<1>6. QED
  BY <1>2, <1>5

-----------------------------------------------------------------------------
\* The records and the file, after the end of a transaction, a rollback and any step.
LEMMA OriginalEnd ==
    ASSUME NEW f, NEW c, EndTransaction(f, c)
    PROVE  Original'
BY DEF EndTransaction, Original, Live, Underway, InTransaction

LEMMA OriginalUndo ==
    ASSUME PagerTypeOK, Places, Original, Undo, InTransaction
    PROVE  Original'
<1>1. CASE ~dirtyCache \/ state = "reserved"
  BY <1>1, OriginalEnd DEF Undo
<1>2. CASE dirtyCache /\ state # "reserved"
  <2>1. journal # Absent
    BY DEF Places, Underway
  <2>2. journal.counted \in Nat
    BY <2>1, JournalType
  <2>3. UNCHANGED <<journal, state, rash>> /\ job' = "playback" /\ replayed' = 0
    BY <1>2 DEF Undo, memory
  <2>4. 0 <= journal.counted /\ 1..0 = {}
    BY <2>2
  <2>5. QED
    BY <1>2, <2>1, <2>3, <2>4 DEF Original, Live
<1>3. QED
  BY <1>1, <1>2

\* ... as long as the journal stays, and the file where it has not to be flushed.
LEMMA OriginalSame ==
    ASSUME Original, UNCHANGED <<journal, rash, unread, replayed>>,
           job # "playback", job' # "playback", Live' => Live,
           state' = "reserved" => state = "reserved" /\ UNCHANGED file,
           Live /\ rash = {} => \A p \in Uncounted : file'[p] = file[p]
    PROVE  Original'
<1>1. Uncounted' = Uncounted
  BY DEF Uncounted, Counted
<1>2. Live' /\ rash' = {} => \A p \in Uncounted' : ValueIn(journal'.recs, p) = file'[p]
  BY <1>1 DEF Original
<1>3. state' = "reserved" /\ unread' = {} =>
          \A p \in PagesOf(journal'.recs) : ValueIn(journal'.recs, p) = file'[p]
  BY DEF Original
<1>4. QED
  BY <1>2, <1>3 DEF Original

LEMMA ChangeKeepsOriginal ==
    ASSUME PagerInv, Records, Flushed, Original, InTransaction, job # "playback", job' # "playback",
           NEW p \in DOMAIN cache, NEW v \in Values, Change(p, v),
           UNCHANGED <<file, state, replayed, unread>>
    PROVE  Original'
<1>1. journal # Absent /\ Consistent(journal.recs) /\ Live
  BY DEF PagerInv, Places, Underway, Live, Records
<1>2. /\ \/ journal' = journal /\ rash' = rash
         \/ /\ p <= journal.size /\ p \notin PagesOf(journal.recs)
            /\ PagesOf(journal'.recs) = PagesOf(journal.recs) \cup {p}
            /\ ValueIn(journal'.recs, p) = cache[p].val
            /\ p \in unread => p \in rash'
      /\ rash \subseteq rash'
      /\ \A q \in PagesOf(journal.recs) : ValueIn(journal'.recs, q) = ValueIn(journal.recs, q)
      /\ Counted' = Counted
  BY <1>1, ChangeRecords DEF PagerInv
<1>3. journal' # Absent
  BY <1>1, ChangeEffect DEF PagerInv
<1>4. ASSUME p \notin unread, p <= journal.size, p \notin PagesOf(journal.recs)
      PROVE  cache[p].val = file[p]
  BY <1>1, <1>4, NoRecordStored
<1>5. ASSUME rash' = {}, NEW q \in Uncounted'
      PROVE  ValueIn(journal'.recs, q) = file'[q]
  <2>1. q \in PagesOf(journal'.recs) /\ q \notin PagesOf(Counted)
    BY <1>2, <1>5 DEF Uncounted
  <2>2. CASE q \in PagesOf(journal.recs)
    <3>1. ValueIn(journal.recs, q) = file[q]
      BY <1>1, <1>2, <1>5, <2>1, <2>2 DEF Original, Uncounted
    <3>2. QED
      BY <1>2, <2>2, <3>1
  <2>3. CASE q \notin PagesOf(journal.recs)
    BY <1>2, <1>4, <1>5, <2>1, <2>3
  <2>4. QED
    BY <2>2, <2>3
<1>6. ASSUME state' = "reserved", unread' = {}, NEW q \in PagesOf(journal'.recs)
      PROVE  ValueIn(journal'.recs, q) = file'[q]
  <2>1. CASE q \in PagesOf(journal.recs)
    <3>1. ValueIn(journal.recs, q) = file[q]
      BY <1>6, <2>1 DEF Original
    <3>2. QED
      BY <1>2, <2>1, <3>1
  <2>2. CASE q \notin PagesOf(journal.recs)
    BY <1>2, <1>4, <1>6, <2>2
  <2>3. QED
    BY <2>1, <2>2
<1>7. replayed' = 0
  BY DEF Original
<1>8. QED
  BY <1>3, <1>5, <1>6, <1>7 DEF Original

LEMMA OriginalStep ==
    ASSUME PagerInv, Records, Flushed, Original, PagerTypeOK', PagerNext
    PROVE  Original'
<1> USE DEF PagerInv, disk, memory
<1>0. PagerTypeOK /\ Places /\ Sizes /\ Records /\ Flushed
  OBVIOUS
<1>1. CASE Open
  <2>1. CASE journal = Absent
    <3>1. /\ journal' = Absent /\ job' = "ready" /\ state' = "shared" /\ UNCHANGED <<replayed, rash>>
          /\ job = "ready"
      BY <1>1, <2>1 DEF Open, Places
    <3>2. QED
      BY <2>1, <3>1 DEF Original, Live, Underway, InTransaction
  <2>2. CASE journal # Absent
    <3>1. /\ UNCHANGED <<journal, replayed, rash>> /\ job' = "playback" /\ job = "ready" /\ state' = "exclusive"
      BY <1>1, <2>2 DEF Open, Places
    <3>2. replayed' = 0 /\ journal.counted \in Nat
      BY <2>2, <3>1, JournalType DEF Original
    <3>3. 0 <= journal.counted /\ 1..0 = {}
      BY <3>2
    <3>4. QED
      BY <2>2, <3>1, <3>2, <3>3 DEF Original, Live
  <2>3. QED
    BY <2>1, <2>2
<1>2. CASE Release
  BY <1>2 DEF Release, Original, Live, Underway, InTransaction, Places
<1>3. CASE Begin
  <2>1. journal' = [size |-> dbSize, valid |-> TRUE, recs |-> <<>>, counted |-> 0]
    BY <1>3 DEF Begin
  <2>2. journal' # Absent /\ journal'.recs = <<>>
    BY <2>1 DEF Absent
  <2>3. PagesOf(journal'.recs) = {}
    BY <2>2 DEF PagesOf
  <2>4. job' = "ready" /\ job = "ready" /\ UNCHANGED replayed
    BY <1>3 DEF Begin
  <2>5. QED
    BY <2>2, <2>3, <2>4 DEF Original, Uncounted
<1>4. CASE Get
  <2>1. job' # "playback" /\ job = "ready" /\ UNCHANGED <<file, state, journal, rash, unread, replayed>>
    BY <1>4, GetEffect DEF Get, Then
  <2>2. QED
    BY <2>1, OriginalSame DEF Live, Underway, InTransaction
<1>5. CASE Write
  <2>1. PICK p \in DOMAIN cache, v \in Values : Change(p, v)
    BY <1>5 DEF Write, Present
  <2>2. job # "playback" /\ job' # "playback" /\ InTransaction /\ UNCHANGED <<file, state, replayed, unread>>
    BY <1>5 DEF Write
  <2>3. QED
    BY <2>1, <2>2, ChangeKeepsOriginal
<1>6. CASE WriteFails
  BY <1>6, OriginalUndo DEF WriteFails
<1>7. CASE StmtBegin
  BY <1>7, OriginalSame DEF StmtBegin, Live, Underway, InTransaction
<1>8. CASE StmtCommit
  BY <1>8, OriginalSame DEF StmtCommit, Live, Underway, InTransaction
<1>9. CASE StmtRollback
  <2>1. /\ Live /\ journal # Absent /\ stmt # Absent /\ stmt.size \in Pages
        /\ \A p \in 1..stmt.size :
              file'[p] = IF state = "exclusive" /\ p \in PagesOf(StmtRecords)
                         THEN ValueIn(StmtRecords, p)
                         ELSE IF p <= Len(file) THEN file[p] ELSE Blank
    BY <1>9, StmtRollbackEffect
  <2>2. rash' = IF state = "exclusive"
                THEN rash \cup {p \in PagesOf(StmtRecords) :
                                  p <= journal.size /\ p \notin PagesOf(Counted)}
                ELSE rash
    BY <1>9, StmtRollbackMore
  <2>3. UNCHANGED <<journal, state, unread, replayed, job>> /\ job = "ready"
    BY <1>9 DEF StmtRollback
  <2>4. ASSUME NEW p \in PagesOf(journal.recs), state = "exclusive" => p \notin PagesOf(StmtRecords)
        PROVE  file'[p] = file[p]
    <3>1. p \in 1..journal.size /\ p \in 1..Len(file)
      <4>1. journal.valid
        BY <2>1 DEF Sizes
      <4>2. QED
        BY <2>1, <4>1, RecordPages
    <3>2. journal.size <= stmt.size /\ stmt.size \in Nat /\ journal.size \in Nat
      BY <2>1, Numbers, RecordPages DEF Sizes
    <3>3. p \in 1..stmt.size /\ p <= Len(file)
      BY <3>1, <3>2
    <3>4. QED
      BY <2>1, <2>4, <3>3
  <2>5. ASSUME rash' = {}, NEW p \in Uncounted'
        PROVE  ValueIn(journal'.recs, p) = file'[p]
    <3>1. p \in PagesOf(journal.recs) /\ p \notin PagesOf(Counted)
      BY <2>3, <2>5 DEF Uncounted, Counted
    <3>2. p <= journal.size /\ rash = {}
      BY <2>1, <2>2, <2>5, <3>1 DEF Sizes
    <3>3. state = "exclusive" => p \notin PagesOf(StmtRecords)
      BY <2>2, <2>5, <3>1, <3>2
    <3>4. file'[p] = file[p]
      BY <2>4, <3>1, <3>3
    <3>5. ValueIn(journal.recs, p) = file[p]
      BY <2>1, <3>1, <3>2 DEF Original, Uncounted
    <3>6. QED
      BY <2>3, <3>4, <3>5
  <2>6. ASSUME state' = "reserved", unread' = {}, NEW p \in PagesOf(journal'.recs)
        PROVE  ValueIn(journal'.recs, p) = file'[p]
    <3>1. file'[p] = file[p]
      BY <2>3, <2>4, <2>6
    <3>2. ValueIn(journal.recs, p) = file[p]
      BY <2>3, <2>6 DEF Original
    <3>3. QED
      BY <2>3, <3>1, <3>2
  <2>7. QED
    BY <2>1, <2>3, <2>5, <2>6 DEF Original
<1>10. CASE Commit
  <2>1. CASE ~dirtyCache
    BY <1>10, <2>1, OriginalEnd DEF Commit
  <2>2. CASE dirtyCache
    <3>1. PICK v \in Values : Change(1, v)
      BY <1>10, <2>2 DEF Commit
    <3>2. 1 \in DOMAIN cache /\ job # "playback" /\ job' # "playback" /\ InTransaction
          /\ UNCHANGED <<file, state, replayed, unread>>
      BY <1>10, <2>2 DEF Commit, Present, Live, Underway
    <3>3. QED
      BY <3>1, <3>2, ChangeKeepsOriginal
  <2>3. QED
    BY <2>1, <2>2
<1>11. CASE SyncRecords
  <2>1. /\ journal # Absent /\ job = "sync" /\ job' \in {"count", "write"}
        /\ UNCHANGED <<file, state, rash, unread, replayed>>
    BY <1>11 DEF SyncRecords, Places, Underway
  <2>2. CASE needSync
    <3>1. journal' = [journal EXCEPT !.counted = Len(journal.recs)]
      BY <1>11, <2>2 DEF SyncRecords, NRec
    <3>2. journal'.counted = Len(journal.recs) /\ journal'.recs = journal.recs /\ journal'.size = journal.size
      BY <2>1, <3>1, JournalType DEF JournalFiles
    <3>3. journal' # Absent
      BY <2>1, <3>2, JournalType, Numbers DEF Absent
    <3>4. Uncounted' = {}
      <4>1. PagesOf(SubSeq(journal.recs, 1, Len(journal.recs))) = PagesOf(journal.recs)
        <5>1. journal.recs \in Seq(Record)
          BY <2>1, JournalType
        <5>2. QED
          BY <5>1, AllRecords
      <4>2. QED
        BY <3>2, <4>1 DEF Uncounted, Counted
    <3>5. state' = "reserved" /\ unread' = {} =>
             \A p \in PagesOf(journal'.recs) : ValueIn(journal'.recs, p) = file'[p]
      BY <2>1, <3>2 DEF Original
    <3>6. QED
      BY <2>1, <3>3, <3>4, <3>5 DEF Original
  <2>3. CASE ~needSync
    BY <1>11, <2>1, <2>3, OriginalSame DEF SyncRecords, Live, Underway, InTransaction
  <2>4. QED
    BY <2>2, <2>3
<1>12. CASE SyncCount
  <2>1. /\ journal # Absent /\ Live /\ InTransaction /\ job = "count" /\ job' = "write"
        /\ UNCHANGED <<journal, state, file, unread, replayed>> /\ rash' = {}
    BY <1>12 DEF SyncCount, Places, Underway, Live
  <2>2. journal.counted = Len(journal.recs)
    BY <2>1 DEF Flushed
  <2>3. Uncounted' = {}
    <3>1. Uncounted' = Uncounted
      BY <2>1 DEF Uncounted, Counted
    <3>2. QED
      BY <2>1, <2>2, <3>1, CountedFacts DEF Uncounted
  <2>4. state' = "reserved" /\ unread' = {} =>
           \A p \in PagesOf(journal'.recs) : ValueIn(journal'.recs, p) = file'[p]
    BY <2>1 DEF Original
  <2>5. QED
    BY <2>1, <2>3, <2>4 DEF Original
<1>13. CASE Recycle
  <2>1. PICK v \in Recyclable :
          /\ v \in Pages /\ ~cache[v].needSync
          /\ \/ UNCHANGED <<file, state>>
             \/ cache[v].dirty /\ file' = Put(file, v, cache[v].val) /\ state' = "exclusive"
    <3>1. PICK v \in Recyclable :
            /\ ~cache[v].needSync
            /\ IF cache[v].dirty
               THEN file' = Put(file, v, cache[v].val) /\ state' = "exclusive"
               ELSE UNCHANGED <<file, state>>
      BY <1>13 DEF Recycle
    <3>2. v \in Pages
      BY DEF Recyclable, PagerTypeOK
    <3>3. QED
      BY <3>1, <3>2
  <2>2. /\ job' \in {"append", "ready"} /\ job = "write" /\ v \in DOMAIN cache
        /\ UNCHANGED <<journal, rash, unread, replayed>> /\ state # "unlock"
    BY <1>13 DEF Recycle, Then, Recyclable, Places
  <2>3. CASE UNCHANGED <<file, state>>
    BY <2>2, <2>3, OriginalSame DEF Live, Underway, InTransaction
  <2>4. CASE cache[v].dirty /\ file' = Put(file, v, cache[v].val) /\ state' = "exclusive"
    <3>1. Live
      BY <2>2, <2>4 DEF Flags, Live, Underway, InTransaction, PagerTypeOK
    <3>2. /\ journal # Absent
          /\ v <= journal.size /\ rash = {} => v \notin Uncounted
      BY <1>0, <2>1, <2>2, <2>4, <3>1, DirtySettled
    <3>3. ASSUME rash = {}, NEW p \in Uncounted
          PROVE  file'[p] = file[p]
      <4>1. p \in PagesOf(journal.recs) /\ journal.valid
        BY <3>1 DEF Uncounted, Sizes
      <4>2. p \in 1..Len(file) /\ p <= journal.size
        BY <1>0, <3>2, <4>1, RecordPages
      <4>3. p # v
        BY <3>2, <3>3, <4>2
      <4>4. v \in Nat \ {0} /\ cache[v].val \in Values
        <5>1. v \in Pages /\ cache[v].val \in Values
          BY <2>1, <2>2 DEF PagerTypeOK, Cached
        <5>2. QED
          BY <5>1, Numbers
      <4>5. QED
        BY <2>4, <4>2, <4>3, <4>4, PutAt
    <3>4. QED
      BY <2>2, <2>4, <3>1, <3>3, OriginalSame
  <2>5. QED
    BY <2>1, <2>3, <2>4
<1>14. CASE WriteDirty
  <2>1. PICK v \in DOMAIN cache :
          cache[v].dirty /\ file' = Put(file, v, cache[v].val)
    BY <1>14 DEF WriteDirty
  <2>2. /\ job = "write" /\ want = 0 /\ job' \in {"write", "flush"} /\ state' = "exclusive" /\ Live
        /\ UNCHANGED <<journal, rash, unread, replayed>>
    BY <1>14 DEF WriteDirty, Places, Live, Underway
  <2>3. ~cache[v].needSync
    BY <2>2 DEF Flushed
  <2>4. /\ journal # Absent
        /\ v <= journal.size /\ rash = {} => v \notin Uncounted
    BY <1>0, <2>1, <2>2, <2>3, DirtySettled
  <2>5. ASSUME rash = {}, NEW p \in Uncounted
        PROVE  file'[p] = file[p]
    <3>1. p \in PagesOf(journal.recs) /\ journal.valid
      BY <2>2 DEF Uncounted, Sizes
    <3>2. p \in 1..Len(file) /\ p <= journal.size
      BY <1>0, <2>4, <3>1, RecordPages
    <3>3. p # v
      BY <2>4, <2>5, <3>2
    <3>4. v \in Nat \ {0} /\ cache[v].val \in Values
      <4>1. v \in Pages /\ cache[v].val \in Values
        BY DEF PagerTypeOK, Cached
      <4>2. QED
        BY <4>1, Numbers
    <3>5. QED
      BY <2>1, <3>2, <3>3, <3>4, PutAt
  <2>6. QED
    BY <2>2, <2>5, OriginalSame
<1>15. CASE Busy
  <2>1. CASE want = 0
    BY <1>15, <2>1, OriginalSame DEF Busy, Live, Underway, InTransaction
  <2>2. CASE want # 0
    BY <1>15, <2>2, OriginalUndo DEF Busy, InTransaction
  <2>3. QED
    BY <2>1, <2>2
<1>16. CASE Flush
  <2>1. /\ Live /\ job = "flush" /\ job' = "delete" /\ state' = "synced"
        /\ UNCHANGED <<journal, file, rash, unread, replayed>>
    BY <1>16 DEF Flush, Places, Live, Underway, InTransaction
  <2>2. QED
    BY <2>1, OriginalSame
<1>17. CASE Delete
  BY <1>17, OriginalEnd DEF Delete
<1>18. CASE Rollback
  BY <1>18, OriginalUndo DEF Rollback
<1>19. CASE Playback
  <2>1. CASE journal.valid /\ replayed < journal.counted
    <3> DEFINE r == journal.recs[replayed + 1]
    <3>1. /\ job = "playback" /\ job' = "playback" /\ state = "exclusive" /\ journal # Absent
          /\ UNCHANGED <<journal, state, rash>> /\ replayed' = replayed + 1
          /\ file' = Put(file, r.page, r.val)
      BY <1>19, <2>1 DEF Playback, Places, Underway, InTransaction
    <3>2. /\ replayed \in Nat /\ Len(journal.recs) \in Nat /\ journal.counted \in Nat
          /\ journal.counted <= Len(journal.recs) /\ journal.recs \in Seq(Record)
      <4>1. replayed \in Nat
        BY DEF PagerTypeOK
      <4>2. journal.recs \in Seq(Record) /\ journal.counted \in 0..Len(journal.recs)
        BY <3>1, JournalType
      <4>3. QED
        BY <4>1, <4>2
    <3>3. replayed + 1 \in 1..Len(journal.recs) /\ replayed' <= journal.counted
      BY <2>1, <3>1, <3>2
    <3>4. /\ r \in RecordsOf(journal.recs) /\ r.page \in PagesOf(journal.recs) /\ r \in Record
      BY <3>2, <3>3 DEF RecordsOf, PagesOf
    <3>5. ASSUME NEW i \in 1..replayed'
          PROVE  file'[journal.recs[i].page] = journal.recs[i].val
      <4> DEFINE s == journal.recs[i]
      <4>1. i \in 1..Len(journal.recs) /\ (i = replayed + 1 \/ i \in 1..replayed)
        BY <3>1, <3>2, <3>3
      <4>2. s \in RecordsOf(journal.recs) /\ s.page \in PagesOf(journal.recs)
        BY <4>1 DEF RecordsOf, PagesOf
      <4>3. s.page \in 1..Len(file) /\ r.page \in Nat \ {0} /\ r.val \in Values
        <5>1. s.page \in 1..Len(file)
          BY <1>0, <2>1, <3>1, <4>2, RecordPages
        <5>2. r.page \in Pages /\ r.val \in Values
          BY <3>4 DEF Record
        <5>3. QED
          BY <5>1, <5>2, Numbers
      <4>4. CASE s.page = r.page
        <5>1. s = r
          BY <3>1, <3>4, <4>2, <4>4 DEF Records, Consistent
        <5>2. Put(file, r.page, r.val)[r.page] = r.val
          BY <1>0, <4>3, PutAt
        <5>3. QED
          BY <3>1, <5>1, <5>2
      <4>5. CASE s.page # r.page
        <5>1. i \in 1..replayed
          BY <4>1, <4>5
        <5>2. file[s.page] = s.val
          BY <2>1, <3>1, <5>1 DEF Original
        <5>3. Put(file, r.page, r.val)[s.page] = file[s.page]
          <6> DEFINE p == r.page
                     v == r.val
                     q == s.page
          <6>1. q \in 1..Len(file) /\ p \in Nat \ {0} /\ v \in Values /\ q # p
            BY <4>3, <4>5
          <6> HIDE DEF p, v, q
          <6>2. Put(file, p, v)[q] = file[q]
            BY <1>0, <6>1, PutAt
          <6>3. QED
            BY <6>2 DEF p, v, q
        <5>4. QED
          BY <3>1, <5>2, <5>3
      <4>6. QED
        BY <4>4, <4>5
    <3>6. QED
      BY <3>1, <3>3, <3>5 DEF Original, Live
  <2>2. CASE ~(journal.valid /\ replayed < journal.counted)
    BY <1>19, <2>2, OriginalEnd DEF Playback
  <2>3. QED
    BY <2>1, <2>2
<1>20. CASE Crash
  <2>1. UNCHANGED <<journal, rash>> /\ state' = "unlock" /\ job' = "ready" /\ replayed' = 0
    BY <1>20 DEF Crash, Gone
  <2>2. QED
    BY <2>1 DEF Original, Live, Underway, InTransaction
<1>21. CASE PowerLoss
  <2>1. state' = "unlock" /\ job' = "ready" /\ replayed' = 0 /\ UNCHANGED rash
    BY <1>21 DEF PowerLoss, Gone
  <2>2. CASE journal = Absent
    BY <1>21, <2>1, <2>2 DEF PowerLoss, Original, Live, Underway, InTransaction
  <2>3. CASE journal # Absent
    <3> DEFINE kept == SubSeq(journal.recs, 1, settled.recs)
    <3>1. PICK valid \in {settled.valid, journal.valid}, n \in settled.counts \cup {journal.counted} :
             journal' = [journal EXCEPT !.valid = valid, !.recs = kept, !.counted = Least(n, Len(kept))]
      BY <1>21, <2>3 DEF PowerLoss
    <3>2. journal'.size = journal.size
      BY <2>3, <3>1, JournalType DEF JournalFiles
    <3>3. journal' # Absent
      BY <2>3, <3>2, JournalType, Numbers DEF Absent
    <3>4. QED
      BY <2>1, <3>3 DEF Original, Live, Underway, InTransaction
  <2>4. QED
    BY <2>2, <2>3
<1> QED
  BY <1>1, <1>2, <1>3, <1>4, <1>5, <1>6, <1>7, <1>8, <1>9, <1>10, <1>11, <1>12, <1>13, <1>14,
     <1>15, <1>16, <1>17, <1>18, <1>19, <1>20, <1>21 DEF PagerNext

LEMMA OverwrittenFacts ==
    ASSUME PagerTypeOK, NEW S, NEW p \in Pages
    PROVE  /\ p \notin S => Overwritten(S)[p] = stale[p]
           /\ p <= Len(file) => Overwritten(S)[p] \subseteq stale[p] \cup {file[p]}
BY DEF Overwritten

\* What is certain, after the end of a transaction, a rollback and any step.
LEMMA CertainEnd ==
    ASSUME NEW f, NEW c, EndTransaction(f, c), ~loose' => \A p \in Pages : stale'[p] = {}
    PROVE  Certain'
BY DEF EndTransaction, Certain, Live, Underway, InTransaction

\* ... as long as the journal, and the part of the file it was started with, stay.
LEMMA CertainSame ==
    ASSUME Certain, UNCHANGED <<journal, settled, stale, loose>>, rash \subseteq rash',
           Live' => Live, state' \in {"reserved", "synced"} => state \in {"reserved", "synced"},
           journal # Absent /\ journal.valid => \A p \in 1..journal.size : file'[p] = file[p]
    PROVE  Certain'
<1>1. ASSUME journal # Absent, journal.valid, rash' = {}, NEW p \in 1..journal.size
      PROVE  Protected(p)' \/ Untouched(p)'
  <2>1. Protected(p) \/ Untouched(p)
    BY <1>1 DEF Certain
  <2>2. file'[p] = file[p] /\ Counted' = Counted
    BY <1>1 DEF Counted
  <2>3. Protected(p)' = Protected(p)
    BY DEF Protected, Counts
  <2>4. Untouched(p)' = Untouched(p)
    BY <2>2 DEF Untouched
  <2>5. QED
    BY <2>1, <2>3, <2>4
<1>2. /\ ~loose' /\ (journal' = Absent \/ state' \in {"reserved", "synced"}) => \A p \in Pages : stale'[p] = {}
      /\ journal' # Absent /\ ~journal'.valid => \A p \in Pages : stale'[p] = {}
      /\ Live' /\ ~loose' => \A p \in 1..journal'.size : p \in PagesOf(journal'.recs) \/ stale'[p] = {}
  BY DEF Certain
<1>3. QED
  BY <1>1, <1>2 DEF Certain

LEMMA TruncatedSame ==
    ASSUME PagerTypeOK, Sizes, Records, journal # Absent, journal.valid
    PROVE  \A p \in 1..journal.size : Truncated(file, journal.size)[p] = file[p]
<1>1. \A p \in 1..journal.size : p <= Len(file)
  BY RecordPages
<1>2. QED
  BY <1>1 DEF Truncated

LEMMA CertainUndo ==
    ASSUME PagerInv, Records, Certain, Undo, InTransaction, job # "playback"
    PROVE  Certain'
<1> USE DEF PagerInv
<1>1. Live /\ journal # Absent /\ journal.valid
  BY DEF Places, Sizes, Live, Underway
<1>2. CASE ~dirtyCache \/ state = "reserved"
  <2>1. state = "reserved"
    BY <1>1, <1>2 DEF Unchanged
  <2>2. ~loose => \A p \in Pages : stale[p] = {}
    BY <2>1 DEF Certain
  <2>3. UNCHANGED <<stale, loose>>
    BY <1>2 DEF Undo
  <2>4. QED
    BY <1>2, <2>2, <2>3, CertainEnd DEF Undo
<1>3. CASE dirtyCache /\ state # "reserved"
  <2>1. /\ file' = Truncated(file, journal.size) /\ job' = "playback"
        /\ UNCHANGED <<stale, journal, settled, loose, state, rash>>
    BY <1>3 DEF Undo, memory
  <2>2. \A p \in 1..journal.size : file'[p] = file[p]
    BY <1>1, <2>1, TruncatedSame
  <2>3. QED
    BY <2>1, <2>2, CertainSame DEF Live
<1>4. QED
  BY <1>2, <1>3

\* A page that may be written to the file is safe.
LEMMA CertainWrite ==
    ASSUME PagerInv, Records, Flushed, Certain, Live, job # "count",
           NEW v \in DOMAIN cache, cache[v].dirty, ~cache[v].needSync,
           file' = Put(file, v, cache[v].val), stale' = Overwritten({v}), state' = "exclusive",
           UNCHANGED <<journal, settled, loose, rash>>
    PROVE  Certain'
<1> USE DEF PagerInv
<1>1. /\ journal # Absent /\ settled.valid
      /\ v <= journal.size /\ rash = {} => v \in PagesOf(Counted)
      /\ v <= journal.size => v \in PagesOf(journal.recs)
  BY DirtySettled
<1>2. journal.valid
  BY DEF Sizes
<1>3. /\ journal.size \in Nat
      /\ \A p \in 1..journal.size : p \in Pages /\ p \in 1..Len(file) /\ p <= journal.size
  BY <1>1, <1>2, RecordPages
<1>4. v \in Nat \ {0} /\ cache[v].val \in Values
  <2>1. v \in Pages /\ cache[v].val \in Values
    BY DEF PagerTypeOK, Cached
  <2>2. QED
    BY <2>1, Numbers
<1>5. \A p \in 1..journal.size : p # v => file'[p] = file[p] /\ stale'[p] = stale[p]
  BY <1>3, <1>4, PutAt, OverwrittenFacts
<1>6. ASSUME Live', ~loose', NEW p \in 1..journal.size
      PROVE  p \in PagesOf(journal.recs) \/ stale'[p] = {}
  BY <1>1, <1>3, <1>5, <1>6 DEF Certain
<1>7. ASSUME rash = {}, NEW p \in 1..journal.size
      PROVE  Protected(p)' \/ Untouched(p)'
  <2>1. Protected(p)' = Protected(p) /\ Counted' = Counted
    BY DEF Protected, Counts, Counted
  <2>2. CASE p = v
    <3>1. p \in PagesOf(Counted)
      BY <1>1, <1>3, <1>7, <2>2
    <3>2. Protected(p)
      BY <1>1, <3>1, CountedProtected
    <3>3. QED
      BY <2>1, <3>2
  <2>3. CASE p # v
    <3>1. Untouched(p)' = Untouched(p)
      BY <1>5, <2>1, <2>3 DEF Untouched
    <3>2. Protected(p) \/ Untouched(p)
      BY <1>1, <1>2, <1>7 DEF Certain
    <3>3. QED
      BY <2>1, <3>1, <3>2
  <2>4. QED
    BY <2>2, <2>3
<1>8. QED
  BY <1>1, <1>2, <1>6, <1>7 DEF Certain

LEMMA ChangeKeepsCertain ==
    ASSUME PagerInv, Records, Flushed, Certain, InTransaction, job # "playback", job' # "playback",
           NEW p \in DOMAIN cache, NEW v \in Values, Change(p, v),
           UNCHANGED <<file, stale, settled, loose, state>>
    PROVE  Certain'
<1> USE DEF PagerInv
<1>1. journal # Absent /\ Consistent(journal.recs) /\ Live /\ journal.valid
  BY DEF Places, Underway, Live, Records, Sizes
<1>2. /\ rash \subseteq rash'
      /\ \A q \in PagesOf(journal.recs) : /\ ValueIn(journal'.recs, q) = ValueIn(journal.recs, q)
                                          /\ q \in PagesOf(journal'.recs)
      /\ Counted' = Counted
      /\ \A n \in 0..Len(journal.recs) : SubSeq(journal'.recs, 1, n) = SubSeq(journal.recs, 1, n)
  BY <1>1, ChangeRecords
<1>3. /\ journal' # Absent /\ journal'.size = journal.size /\ journal'.valid = journal.valid
      /\ journal'.counted = journal.counted
  BY <1>1, ChangeEffect
<1>4. \A n \in Counts : n \in 0..Len(journal.recs)
  <2>1. /\ \A n \in settled.counts : n \in Nat /\ n <= journal.counted
        /\ journal.counted \in 0..Len(journal.recs) /\ Len(journal.recs) \in Nat
    <3>1. settled.counts \in SUBSET Nat
      BY <1>1 DEF PagerTypeOK
    <3>2. \A n \in settled.counts : n <= journal.counted
      BY <1>1 DEF Flushed
    <3>3. journal.counted \in 0..Len(journal.recs) /\ Len(journal.recs) \in Nat
      BY <1>1, JournalType, JournalNumbers
    <3>4. QED
      BY <3>1, <3>2, <3>3
  <2>2. QED
    BY <2>1 DEF Counts
<1>5. Counts' = Counts
  BY <1>3 DEF Counts
<1>6. ASSUME rash' = {}, NEW q \in 1..journal.size
      PROVE  Protected(q)' \/ Untouched(q)'
  <2>1. Protected(q) \/ Untouched(q)
    BY <1>1, <1>2, <1>6 DEF Certain
  <2>2. Protected(q) => Protected(q)'
    BY <1>2, <1>4, <1>5 DEF Protected
  <2>3. Untouched(q) => Untouched(q)'
    <3>1. PagesOf(Counted) \subseteq PagesOf(journal.recs)
      BY <1>1, CountedFacts
    <3>2. QED
      BY <1>2, <3>1 DEF Untouched
  <2>4. QED
    BY <2>1, <2>2, <2>3
<1>7. /\ ~loose' /\ (journal' = Absent \/ state' \in {"reserved", "synced"}) => \A q \in Pages : stale'[q] = {}
      /\ Live' /\ ~loose' => \A q \in 1..journal'.size : q \in PagesOf(journal'.recs) \/ stale'[q] = {}
  BY <1>1, <1>2, <1>3 DEF Certain
<1>8. QED
  BY <1>1, <1>3, <1>6, <1>7 DEF Certain


LEMMA CertainStep ==
    ASSUME PagerInv, Records, Flushed, Original, Certain, PagerTypeOK', PagerNext
    PROVE  Certain'
<1> USE DEF PagerInv, disk, memory
<1>0. PagerTypeOK /\ Places /\ Sizes /\ Records /\ Flushed
  OBVIOUS
<1>1. CASE Open
  <2>1. CASE journal = Absent
    BY <1>1, <2>1, CertainSame DEF Open, Live, Underway, InTransaction, Places
  <2>2. CASE journal # Absent
    <3>1. /\ UNCHANGED <<journal, settled, stale, loose, rash>> /\ state' = "exclusive" /\ job' = "playback"
          /\ file' = IF journal.valid THEN Truncated(file, journal.size) ELSE file
      BY <1>1, <2>2 DEF Open
    <3>2. journal.valid => \A p \in 1..journal.size : file'[p] = file[p]
      BY <1>0, <2>2, <3>1, TruncatedSame
    <3>3. QED
      BY <3>1, <3>2, CertainSame DEF Live
  <2>3. QED
    BY <2>1, <2>2
<1>2. CASE Release
  BY <1>2, CertainSame DEF Release, Live, Underway, InTransaction
<1>3. CASE Begin
  <2>1. /\ journal' = [size |-> dbSize, valid |-> TRUE, recs |-> <<>>, counted |-> 0]
        /\ UNCHANGED <<file, stale, loose>> /\ journal = Absent
    BY <1>3 DEF Begin, Places
  <2>2. journal'.recs = <<>> /\ journal'.valid /\ journal' # Absent /\ journal'.size = dbSize /\ journal'.counted = 0
    BY <2>1 DEF Absent
  <2>3. \A p \in 1..dbSize : p \in Pages
    <3>1. dbSize \in Nat /\ dbSize <= MaxPages
      BY Numbers DEF PagerTypeOK
    <3>2. QED
      BY <3>1, Numbers
  <2>4. ~loose' => \A p \in Pages : stale'[p] = {}
    BY <2>1 DEF Certain
  <2>5. PagesOf(Counted') = {}
    <3>1. Counted' = SubSeq(<<>>, 1, 0)
      BY <2>2 DEF Counted
    <3>2. Len(SubSeq(<<>>, 1, 0)) = 0
      OBVIOUS
    <3>3. QED
      BY <3>1, <3>2 DEF PagesOf
  <2>6. \A p \in 1..dbSize : Untouched(p)'
    BY <2>3, <2>4, <2>5 DEF Untouched
  <2>7. QED
    BY <2>2, <2>3, <2>4, <2>6 DEF Certain
<1>4. CASE Get
  <2>1. job = "ready" /\ UNCHANGED <<file, state, journal, settled, stale, loose, rash>>
    BY <1>4 DEF Get
  <2>2. QED
    BY <2>1, CertainSame DEF Live, Underway, InTransaction
<1>5. CASE Write
  <2>1. PICK p \in DOMAIN cache, v \in Values : Change(p, v)
    BY <1>5 DEF Write, Present
  <2>2. /\ job # "playback" /\ job' # "playback" /\ InTransaction
        /\ UNCHANGED <<file, stale, settled, loose, state>>
    BY <1>5 DEF Write
  <2>3. QED
    BY <2>1, <2>2, ChangeKeepsCertain
<1>6. CASE WriteFails
  BY <1>6, CertainUndo DEF WriteFails
<1>7. CASE StmtBegin
  BY <1>7, CertainSame DEF StmtBegin, Live, Underway, InTransaction
<1>8. CASE StmtCommit
  BY <1>8, CertainSame DEF StmtCommit, Live, Underway, InTransaction
<1>9. CASE StmtRollback
  <2>1. /\ Live /\ InTransaction /\ journal # Absent /\ stmt # Absent /\ stmt.size \in Pages
        /\ PagesOf(StmtRecords) \subseteq PagesOf(stmt.saved) \cup PagesOf(journal.recs)
        /\ \A p \in 1..stmt.size :
              file'[p] = IF state = "exclusive" /\ p \in PagesOf(StmtRecords)
                         THEN ValueIn(StmtRecords, p)
                         ELSE IF p <= Len(file) THEN file[p] ELSE Blank
    BY <1>9, StmtRollbackEffect
  <2>2. /\ stale' = IF state = "exclusive" THEN Overwritten(PagesOf(StmtRecords)) ELSE stale
        /\ rash' = IF state = "exclusive"
                   THEN rash \cup {p \in PagesOf(StmtRecords) :
                                     p <= journal.size /\ p \notin PagesOf(Counted)}
                   ELSE rash
    BY <1>9, StmtRollbackMore
  <2>3. UNCHANGED <<journal, settled, loose, state, job>> /\ job = "ready"
    BY <1>9 DEF StmtRollback
  <2>4. journal.valid
    BY <2>1 DEF Sizes
  <2>5. /\ journal.size <= stmt.size /\ stmt.size \in Nat /\ journal.size \in Nat
        /\ \A p \in 1..journal.size : p \in Pages /\ p \in 1..Len(file) /\ p <= Len(file) /\ p <= journal.size
    BY <1>0, <2>1, <2>4, Numbers, RecordPages DEF Sizes
  <2>6. \A p \in 1..journal.size : p \in 1..stmt.size
    BY <2>5
  <2>7. ASSUME NEW p \in 1..journal.size, state = "exclusive" => p \notin PagesOf(StmtRecords)
        PROVE  file'[p] = file[p] /\ stale'[p] = stale[p]
    <3>1. file'[p] = file[p]
      BY <2>1, <2>5, <2>6, <2>7
    <3>2. stale'[p] = stale[p]
      BY <2>2, <2>5, <2>7, OverwrittenFacts
    <3>3. QED
      BY <3>1, <3>2
  <2>8. ASSUME ~loose', NEW p \in 1..journal.size
        PROVE  p \in PagesOf(journal.recs) \/ stale'[p] = {}
    <3>1. CASE state = "exclusive" /\ p \in PagesOf(StmtRecords)
      BY <2>1, <2>5, <3>1 DEF Records
    <3>2. CASE ~(state = "exclusive" /\ p \in PagesOf(StmtRecords))
      BY <2>1, <2>3, <2>7, <2>8, <3>2 DEF Certain
    <3>3. QED
      BY <3>1, <3>2
  <2>9. ASSUME rash' = {}, NEW p \in 1..journal.size
        PROVE  Protected(p)' \/ Untouched(p)'
    <3>1. Protected(p)' = Protected(p) /\ Counted' = Counted
      BY <2>3 DEF Protected, Counts, Counted
    <3>2. CASE state = "exclusive" /\ p \in PagesOf(StmtRecords)
      <4>1. p \in PagesOf(Counted)
        BY <2>2, <2>5, <2>9, <3>2
      <4>2. settled.valid
        BY <2>1, <3>2 DEF Flushed
      <4>3. Protected(p)
        BY <1>0, <2>1, <2>3, <4>1, <4>2, CountedProtected
      <4>4. QED
        BY <3>1, <4>3
    <3>3. CASE ~(state = "exclusive" /\ p \in PagesOf(StmtRecords))
      <4>1. file'[p] = file[p] /\ stale'[p] = stale[p]
        BY <2>7, <3>3
      <4>2. Untouched(p)' = Untouched(p)
        BY <2>3, <3>1, <4>1 DEF Untouched
      <4>3. rash = {}
        BY <2>2, <2>9
      <4>4. Protected(p) \/ Untouched(p)
        BY <2>1, <2>4, <4>3 DEF Certain
      <4>5. QED
        BY <3>1, <4>2, <4>4
    <3>4. QED
      BY <3>2, <3>3
  <2>10. ~loose' /\ state' \in {"reserved", "synced"} => \A p \in Pages : stale'[p] = {}
    BY <2>2, <2>3 DEF Certain
  <2>11. QED
    BY <2>1, <2>3, <2>4, <2>8, <2>9, <2>10 DEF Certain
<1>10. CASE Commit
  <2>1. CASE ~dirtyCache
    <3>1. state = "reserved"
      BY <1>10, <2>1 DEF Commit, Unchanged, Live, Underway
    <3>2. UNCHANGED <<stale, loose>>
      BY <1>10, <2>1 DEF Commit
    <3>3. ~loose' => \A p \in Pages : stale'[p] = {}
      BY <3>1, <3>2 DEF Certain
    <3>4. QED
      BY <1>10, <2>1, <3>3, CertainEnd DEF Commit
  <2>2. CASE dirtyCache
    <3>1. PICK v \in Values : Change(1, v)
      BY <1>10, <2>2 DEF Commit
    <3>2. 1 \in DOMAIN cache /\ job # "playback" /\ job' # "playback" /\ InTransaction
          /\ UNCHANGED <<file, stale, settled, loose, state>>
      BY <1>10, <2>2 DEF Commit, Present, Live, Underway
    <3>3. QED
      BY <3>1, <3>2, ChangeKeepsCertain
  <2>3. QED
    BY <2>1, <2>2
<1>11. CASE SyncRecords
  <2>1. /\ journal # Absent /\ Live /\ job = "sync" /\ job' \in {"count", "write"} /\ journal.valid
        /\ UNCHANGED <<file, stale, loose, state, rash>>
    BY <1>11 DEF SyncRecords, Places, Underway, Live, Sizes
  <2>2. CASE needSync
    <3>1. /\ journal' = [journal EXCEPT !.counted = Len(journal.recs)]
          /\ settled' = [valid |-> TRUE, recs |-> Len(journal.recs),
                         counts |-> settled.counts \cup {journal.counted}]
      BY <1>11, <2>2 DEF SyncRecords, NRec
    <3>2. /\ journal'.counted = Len(journal.recs) /\ journal'.recs = journal.recs
          /\ journal'.size = journal.size /\ journal'.valid
          /\ journal.recs \in Seq(Record) /\ journal.counted \in 0..Len(journal.recs)
      BY <2>1, <3>1, JournalType DEF JournalFiles
    <3>3. settled'.valid /\ settled'.counts = settled.counts \cup {journal.counted}
      BY <3>1
    <3>4. PagesOf(SubSeq(journal.recs, 1, Len(journal.recs))) = PagesOf(journal.recs)
      BY <3>2, AllRecords
    <3>5. journal' # Absent
      BY <2>1, <3>2, JournalType, Numbers DEF Absent
    <3>6. ASSUME NEW p, Protected(p)
          PROVE  Protected(p)'
      <4>1. settled.valid /\ p \in PagesOf(Counted) /\ settled.counts = {}
        BY <2>1, <3>6 DEF Protected, Counts, Counted, Flushed
      <4>2. p \in PagesOf(journal.recs)
        BY <1>0, <2>1, <4>1, CountedFacts
      <4>3. Counts' = {journal.counted, Len(journal.recs)}
        BY <3>2, <3>3, <4>1 DEF Counts
      <4>4. QED
        BY <3>2, <3>3, <3>4, <4>1, <4>2, <4>3 DEF Protected, Counted
    <3>7. ASSUME rash = {}, NEW p, Untouched(p)
          PROVE  Untouched(p)'
      <4>1. p \in PagesOf(journal.recs) => file[p] = ValueIn(journal.recs, p)
        BY <2>1, <3>7 DEF Untouched, Original, Uncounted
      <4>2. PagesOf(Counted') = PagesOf(journal.recs)
        BY <3>2, <3>4 DEF Counted
      <4>3. QED
        BY <2>1, <3>2, <3>7, <4>1, <4>2 DEF Untouched
    <3>8. rash = {} => \A p \in 1..journal.size : Protected(p)' \/ Untouched(p)'
      BY <2>1, <3>6, <3>7 DEF Certain
    <3>9. /\ ~loose' /\ (journal' = Absent \/ state' \in {"reserved", "synced"}) => \A p \in Pages : stale'[p] = {}
          /\ Live' /\ ~loose' => \A p \in 1..journal'.size : p \in PagesOf(journal'.recs) \/ stale'[p] = {}
      BY <2>1, <3>2, <3>5 DEF Certain
    <3>10. QED
      BY <2>1, <3>2, <3>8, <3>9 DEF Certain
  <2>3. CASE ~needSync
    BY <1>11, <2>1, <2>3, CertainSame DEF SyncRecords, Live, Underway, InTransaction
  <2>4. QED
    BY <2>2, <2>3
<1>12. CASE SyncCount
  <2>1. /\ journal # Absent /\ Live /\ journal.valid /\ job = "count"
        /\ UNCHANGED <<journal, state, file, stale, loose>>
        /\ settled' = [valid |-> TRUE, recs |-> Len(journal.recs), counts |-> {}]
    BY <1>12 DEF SyncCount, Places, Underway, Live, Sizes
  <2>2. /\ journal.counted = Len(journal.recs) /\ settled'.valid /\ settled'.counts = {}
        /\ journal.recs \in Seq(Record)
    BY <2>1, JournalType DEF Flushed
  <2>3. PagesOf(SubSeq(journal.recs, 1, Len(journal.recs))) = PagesOf(journal.recs)
    BY <2>2, AllRecords
  <2>4. ASSUME NEW p \in 1..journal.size
        PROVE  Protected(p)' \/ Untouched(p)'
    <3>1. CASE p \in PagesOf(journal.recs)
      BY <2>1, <2>2, <2>3, <3>1 DEF Protected, Counts
    <3>2. CASE p \notin PagesOf(journal.recs)
      <4>1. ~loose => stale[p] = {}
        BY <2>1, <3>2 DEF Certain
      <4>2. p \notin PagesOf(Counted')
        BY <2>1, <2>2, <2>3, <3>2 DEF Counted
      <4>3. QED
        BY <2>1, <4>1, <4>2 DEF Untouched
    <3>3. QED
      BY <3>1, <3>2
  <2>5. /\ ~loose' /\ state' \in {"reserved", "synced"} => \A p \in Pages : stale'[p] = {}
        /\ ~loose' => \A p \in 1..journal'.size : p \in PagesOf(journal'.recs) \/ stale'[p] = {}
    BY <2>1 DEF Certain
  <2>6. QED
    BY <2>1, <2>4, <2>5 DEF Certain
<1>13. CASE Recycle
  <2>1. PICK v \in Recyclable :
          /\ ~cache[v].needSync
          /\ \/ UNCHANGED <<file, stale, state>>
             \/ /\ cache[v].dirty /\ file' = Put(file, v, cache[v].val)
                /\ stale' = Overwritten({v}) /\ state' = "exclusive"
    BY <1>13 DEF Recycle
  <2>2. /\ job' \in {"append", "ready"} /\ job = "write" /\ v \in DOMAIN cache
        /\ UNCHANGED <<journal, settled, loose, rash>> /\ state # "unlock"
    BY <1>13 DEF Recycle, Then, Recyclable, Places
  <2>3. CASE UNCHANGED <<file, stale, state>>
    BY <2>2, <2>3, CertainSame DEF Live, Underway, InTransaction
  <2>4. CASE /\ cache[v].dirty /\ file' = Put(file, v, cache[v].val)
             /\ stale' = Overwritten({v}) /\ state' = "exclusive"
    <3>1. Live
      BY <2>2, <2>4 DEF Flags, Live, Underway, InTransaction, PagerTypeOK
    <3>2. QED
      BY <2>1, <2>2, <2>4, <3>1, CertainWrite
  <2>5. QED
    BY <2>1, <2>3, <2>4
<1>14. CASE WriteDirty
  <2>1. PICK v \in DOMAIN cache :
          cache[v].dirty /\ file' = Put(file, v, cache[v].val) /\ stale' = Overwritten({v})
    BY <1>14 DEF WriteDirty
  <2>2. /\ job = "write" /\ want = 0 /\ state' = "exclusive" /\ Live
        /\ UNCHANGED <<journal, settled, loose, rash>>
    BY <1>14 DEF WriteDirty, Places, Live, Underway
  <2>3. ~cache[v].needSync
    BY <2>2 DEF Flushed
  <2>4. QED
    BY <2>1, <2>2, <2>3, CertainWrite
<1>15. CASE Busy
  <2>1. CASE want = 0
    BY <1>15, <2>1, CertainSame DEF Busy, Live, Underway, InTransaction
  <2>2. CASE want # 0
    BY <1>15, <2>2, CertainUndo DEF Busy, InTransaction
  <2>3. QED
    BY <2>1, <2>2
<1>16. CASE Flush
  <2>1. /\ journal # Absent /\ journal.valid
        /\ UNCHANGED <<journal, settled, file, rash>> /\ \A p \in Pages : stale'[p] = {}
    BY <1>16 DEF Flush, Places, Live, Underway, InTransaction, Sizes
  <2>2. /\ journal.size \in Nat /\ \A p \in 1..journal.size : p \in Pages
    BY <1>0, <2>1, RecordPages
  <2>3. ASSUME rash = {}, NEW p \in 1..journal.size
        PROVE  Protected(p)' \/ Untouched(p)'
    <3>1. Protected(p)' = Protected(p) /\ Counted' = Counted
      BY <2>1 DEF Protected, Counts, Counted
    <3>2. Untouched(p) => Untouched(p)'
      BY <2>1, <2>2, <3>1 DEF Untouched
    <3>3. QED
      BY <2>1, <2>3, <3>1, <3>2 DEF Certain
  <2>4. QED
    BY <2>1, <2>2, <2>3 DEF Certain
<1>17. CASE Delete
  <2>1. state = "synced" /\ UNCHANGED <<stale, loose>>
    BY <1>17 DEF Delete, Places
  <2>2. ~loose' => \A p \in Pages : stale'[p] = {}
    BY <2>1 DEF Certain
  <2>3. QED
    BY <1>17, <2>2, CertainEnd DEF Delete
<1>18. CASE Rollback
  BY <1>18, CertainUndo DEF Rollback
<1>19. CASE Playback
  <2>1. CASE journal.valid /\ replayed < journal.counted
    <3> DEFINE r == journal.recs[replayed + 1]
    <3>1. /\ job = "playback" /\ job' = "playback" /\ state = "exclusive" /\ journal # Absent
          /\ UNCHANGED <<journal, settled, loose, state, rash>>
          /\ file' = Put(file, r.page, r.val) /\ stale' = Overwritten({r.page})
      BY <1>19, <2>1 DEF Playback, Places, Underway, InTransaction
    <3>2. /\ replayed \in Nat /\ Len(journal.recs) \in Nat /\ journal.counted \in Nat
          /\ journal.counted <= Len(journal.recs) /\ journal.recs \in Seq(Record)
      <4>1. replayed \in Nat
        BY DEF PagerTypeOK
      <4>2. journal.recs \in Seq(Record) /\ journal.counted \in 0..Len(journal.recs)
        BY <3>1, JournalType
      <4>3. Len(journal.recs) \in Nat
        BY <4>2
      <4>4. QED
        BY <4>1, <4>2, <4>3
    <3>3. replayed + 1 \in 1..Len(journal.recs)
      BY <2>1, <3>2
    <3>4. r \in RecordsOf(journal.recs) /\ r.page \in PagesOf(journal.recs) /\ r \in Record
      BY <3>2, <3>3 DEF RecordsOf, PagesOf
    <3>5. ValueIn(journal.recs, r.page) = r.val
      BY <3>1, <3>2, <3>4, RecordsOfFacts DEF Records
    <3>6. /\ r.page \in Nat \ {0} /\ r.val \in Values
          /\ \A p \in 1..journal.size : p \in Pages /\ p \in 1..Len(file) /\ p <= Len(file)
      <4>1. r.page \in Pages /\ r.val \in Values
        BY <3>4 DEF Record
      <4>2. \A p \in 1..journal.size : p \in Pages /\ p \in 1..Len(file) /\ p <= Len(file)
        BY <1>0, <2>1, <3>1, RecordPages
      <4>3. QED
        BY <4>1, <4>2, Numbers
    <3> HIDE DEF r
    <3>7. r.page \in PagesOf(Counted)
      <4>1. replayed + 1 \in 1..journal.counted
        BY <2>1, <3>2
      <4>2. 1 \in Nat \ {0} /\ journal.counted \in 0..Len(journal.recs) /\ 1 <= journal.counted + 1
        BY <3>2
      <4>3. RecordsOf(Counted) = {journal.recs[i] : i \in 1..journal.counted} /\ Counted \in Seq(Record)
        BY <3>2, <4>2, SubSeqFacts DEF Counted
      <4>4. r \in RecordsOf(Counted)
        BY <4>1, <4>3 DEF r
      <4>5. PagesOf(Counted) = {s.page : s \in RecordsOf(Counted)}
        BY <4>3, RecordsOfFacts
      <4>6. QED
        BY <4>4, <4>5
    <3>8. ASSUME rash = {}, NEW p \in 1..journal.size
          PROVE  Protected(p)' \/ Untouched(p)'
      <4>1. Protected(p)' = Protected(p) /\ Counted' = Counted
        BY <3>1 DEF Protected, Counts, Counted
      <4>2. Untouched(p) => Untouched(p)'
        <5>1. CASE p = r.page
          <6>1. file'[p] = r.val
            BY <1>0, <3>1, <3>6, <5>1, PutAt
          <6>2. stale'[p] \subseteq stale[p] \cup {file[p]}
            BY <1>0, <3>1, <3>6, OverwrittenFacts
          <6>3. Untouched(p) => file[p] = r.val
            BY <3>5, <3>7, <5>1 DEF Untouched
          <6>4. QED
            BY <3>1, <3>5, <4>1, <5>1, <6>1, <6>2, <6>3 DEF Untouched
        <5>2. CASE p # r.page
          <6>1. file'[p] = file[p]
            BY <1>0, <3>1, <3>6, <5>2, PutAt
          <6>2. stale'[p] = stale[p]
            BY <1>0, <3>1, <3>6, <5>2, OverwrittenFacts
          <6>3. QED
            BY <3>1, <4>1, <6>1, <6>2 DEF Untouched
        <5>3. QED
          BY <5>1, <5>2
      <4>3. QED
        BY <2>1, <3>1, <3>8, <4>1, <4>2 DEF Certain
    <3>9. QED
      BY <2>1, <3>1, <3>8 DEF Certain, Live
  <2>2. CASE ~(journal.valid /\ replayed < journal.counted)
    BY <1>19, <2>2, CertainEnd DEF Playback
  <2>3. QED
    BY <2>1, <2>2
<1>20. CASE Crash
  <2>1. UNCHANGED <<file, journal, settled, stale, loose, rash>> /\ state' = "unlock"
    BY <1>20 DEF Crash, Gone
  <2>2. QED
    BY <2>1, CertainSame DEF Live, Underway, InTransaction
<1>21. CASE PowerLoss
  <2>1. state' = "unlock" /\ \A p \in Pages : stale'[p] = {}
    BY <1>21 DEF PowerLoss, Gone
  <2>2. CASE journal = Absent
    BY <1>21, <2>1, <2>2 DEF PowerLoss, Certain, Live, Underway, InTransaction
  <2>3. CASE journal # Absent
    <3> DEFINE kept == SubSeq(journal.recs, 1, settled.recs)
    <3>1. PICK valid \in {settled.valid, journal.valid}, n \in settled.counts \cup {journal.counted} :
             journal' = [journal EXCEPT !.valid = valid, !.recs = kept, !.counted = Least(n, Len(kept))]
      BY <1>21, <2>3 DEF PowerLoss
    <3>2. settled' = [valid |-> journal'.valid, recs |-> Len(journal'.recs), counts |-> {}]
      BY <1>21, <2>3 DEF PowerLoss
    <3>3. journal'.size = journal.size
      BY <2>3, <3>1, JournalType DEF JournalFiles
    <3>4. settled'.valid = journal'.valid /\ settled'.counts = {}
      BY <3>2
    <3>5. journal.size \in Nat /\ \A p \in 1..journal.size : p \in Pages
      BY <1>0, <2>3, RecordPages
    <3>6. ASSUME journal'.valid, NEW p \in 1..journal.size
          PROVE  Protected(p)' \/ Untouched(p)'
      <4>1. CASE p \in PagesOf(Counted')
        BY <3>4, <3>6, <4>1 DEF Protected, Counts, Counted
      <4>2. CASE p \notin PagesOf(Counted')
        BY <2>1, <3>5, <4>2 DEF Untouched
      <4>3. QED
        BY <4>1, <4>2
    <3>7. QED
      BY <2>1, <3>3, <3>5, <3>6 DEF Certain, Live, Underway, InTransaction
  <2>4. QED
    BY <2>2, <2>3
<1> QED
  BY <1>1, <1>2, <1>3, <1>4, <1>5, <1>6, <1>7, <1>8, <1>9, <1>10, <1>11, <1>12, <1>13, <1>14,
     <1>15, <1>16, <1>17, <1>18, <1>19, <1>20, <1>21 DEF PagerNext

LEMMA IInvStarts == PagerInit => PagerIInv
<1> SUFFICES ASSUME PagerInit
             PROVE  PagerIInv
  OBVIOUS
<1>1. PagerInv
  BY InvStarts
<1>2. /\ journal = Absent /\ state = "unlock" /\ job = "ready" /\ rash = {} /\ replayed = 0
      /\ \A p \in Pages : stale[p] = {}
  BY DEF PagerInit
<1>3. Records
  BY <1>2 DEF Records, Live, Underway, InTransaction
<1>4. Flushed
  BY <1>2 DEF Flushed, Live, Underway, InTransaction
<1>5. Original
  BY <1>2 DEF Original, Live, Underway, InTransaction
<1>6. Certain
  BY <1>2 DEF Certain, Live, Underway, InTransaction
<1>7. QED
  BY <1>1, <1>3, <1>4, <1>5, <1>6 DEF PagerIInv

LEMMA IInvStays == PagerIInv /\ [PagerNext]_pagerVars => PagerIInv'
<1> SUFFICES ASSUME PagerIInv, [PagerNext]_pagerVars
             PROVE  PagerIInv'
  OBVIOUS
<1>1. PagerInv /\ Records /\ Flushed /\ Original /\ Certain
  BY DEF PagerIInv
<1>2. PagerInv'
  BY <1>1, InvStays
<1>3. CASE PagerNext
  <2>1. PagerTypeOK'
    BY <1>2 DEF PagerInv
  <2>2. Records' /\ Flushed' /\ Original' /\ Certain'
    BY <1>1, <1>3, <2>1, RecordsStep, FlushedStep, OriginalStep, CertainStep
  <2>3. QED
    BY <1>2, <2>2 DEF PagerIInv
<1>4. CASE UNCHANGED pagerVars
  <2>1. UNCHANGED <<file, stale, journal, settled, loose, state, cache, dbSize, needSync, dirtyCache,
                    stmt, unread, full, job, want, replayed, rash>>
    BY <1>4 DEF pagerVars, disk, memory
  <2>2. /\ Live' = Live /\ InTransaction' = InTransaction /\ StmtRecords' = StmtRecords
        /\ Counted' = Counted /\ Uncounted' = Uncounted /\ Counts' = Counts
    BY <2>1 DEF Live, Underway, InTransaction, StmtRecords, Counted, Uncounted, Counts
  <2>3. Records' /\ Flushed' /\ Original'
    <3>1. Records'
      BY <1>1, <2>1, <2>2 DEF Records
    <3>2. Flushed'
      BY <1>1, <2>1, <2>2 DEF Flushed
    <3>3. Original'
      BY <1>1, <2>1, <2>2 DEF Original
    <3>4. QED
      BY <3>1, <3>2, <3>3
  <2>4. \A p : Protected(p)' = Protected(p) /\ Untouched(p)' = Untouched(p)
    BY <2>1, <2>2 DEF Protected, Untouched
  <2>5. Certain'
    BY <1>1, <2>1, <2>2, <2>4 DEF Certain
  <2>6. QED
    BY <1>2, <2>3, <2>5 DEF PagerIInv
<1>5. QED
  BY <1>3, <1>4

LEMMA PagerIInvariant == PagerSpec => []PagerIInv
BY IInvStarts, IInvStays, PTL DEF PagerSpec

\* The database as the next process finds it is a file.
DiskTyped == PagerIInv => OnDisk \in Seq(Values)

LEMMA DiskIs == DiskTyped
<1> SUFFICES ASSUME PagerIInv
             PROVE  OnDisk \in Seq(Values)
  BY DEF DiskTyped
<1>1. PagerTypeOK /\ Records /\ file \in Seq(Values)
  BY DEF PagerIInv, PagerInv, PagerTypeOK
<1>2. CASE journal = Absent
  BY <1>1, <1>2 DEF OnDisk
<1>3. CASE journal # Absent /\ ~journal.valid
  BY <1>1, <1>3 DEF OnDisk, Restored
<1>4. CASE journal # Absent /\ journal.valid
  BY <1>1, <1>4, RestoredIs DEF OnDisk, RestoredBack
<1>5. QED
  BY <1>2, <1>3, <1>4

LEMMA DiskIsNext == DiskTyped'
BY DiskIs, PTL

\* Outside a transaction, memory and disk agree.
SharedAgrees ==
    PagerIInv /\ state = "shared" /\ unread = {}
    => InMemory = file /\ OnDisk = file /\ AtStart = <<>>

LEMMA SharedIs == SharedAgrees
<1> SUFFICES ASSUME PagerIInv, state = "shared", unread = {}
             PROVE  InMemory = file /\ OnDisk = file /\ AtStart = <<>>
  BY DEF SharedAgrees
<1>1. /\ journal = Absent /\ stmt = Absent /\ job # "playback" /\ dbSize = Len(file)
      /\ \A p \in DOMAIN cache : ~cache[p].dirty
      /\ \A p \in DOMAIN cache : Stored(p)
      /\ file \in Seq(Values)
  BY DEF PagerIInv, PagerInv, PagerTypeOK, Places, Sizes, Flags, Kept, CleanIsStoredOtherwise
<1>2. OnDisk = file /\ AtStart = <<>>
  BY <1>1 DEF OnDisk, AtStart
<1>3. \A p \in 1..dbSize : Page(p) = file[p]
  BY <1>1 DEF Page, Stored
<1>4. InMemory = [p \in 1..dbSize |-> Page(p)]
  BY <1>1 DEF InMemory
<1>5. InMemory = [p \in 1..Len(file) |-> file[p]]
  BY <1>1, <1>3, <1>4
<1>6. [p \in 1..Len(file) |-> file[p]] = file
  BY <1>1
<1>7. QED
  BY <1>2, <1>5, <1>6

LEMMA SharedIsNext == SharedAgrees'
BY SharedIs, PTL

-----------------------------------------------------------------------------
\* What the journal leads back to stays the same.
LEMMA DiskSame ==
    ASSUME PagerIInv, PagerIInv', journal # Absent, journal.valid, journal' # Absent, journal'.valid,
           journal'.size = journal.size, \A p \in 1..journal.size : Back(p)' = Back(p)
    PROVE  OnDisk' = OnDisk
<1>1. PagerTypeOK /\ Records /\ PagerTypeOK' /\ Records'
  BY DEF PagerIInv, PagerInv
<1>2. Restored' = Restored
  BY <1>1, RestoredSame
<1>3. QED
  BY <1>2 DEF OnDisk

LEMMA DiskUnchanged ==
    ASSUME UNCHANGED <<journal, file>>
    PROVE  OnDisk' = OnDisk
<1>1. Counted' = Counted
  BY DEF Counted
<1>2. Restored' = Restored
  BY <1>1 DEF Restored
<1>3. QED
  BY <1>2 DEF OnDisk

\* The pages that are written are not those of which the journal needs the old contents.
LEMMA FileWritten ==
    ASSUME PagerIInv, PagerIInv', journal # Absent, journal.valid, UNCHANGED journal,
           \A p \in 1..journal.size : p \in PagesOf(Counted) \/ file'[p] = file[p]
    PROVE  OnDisk' = OnDisk
<1>1. Counted' = Counted
  BY DEF Counted
<1>2. \A p \in 1..journal.size : Back(p)' = Back(p)
  BY <1>1 DEF Back
<1>3. QED
  BY <1>2, DiskSame

\* What the connection sees stays the same.
LEMMA SeenSame ==
    ASSUME PagerIInv, state # "unlock", state' # "unlock", job # "playback", job' # "playback",
           UNCHANGED <<dbSize, stmt, journal>>, \A p \in 1..dbSize : Page(p)' = Page(p)
    PROVE  UNCHANGED <<InMemory, AtStart>>
<1>1. InMemory = [p \in 1..dbSize |-> Page(p)] /\ InMemory' = [p \in 1..dbSize' |-> Page(p)']
  BY DEF InMemory
<1>2. InMemory' = InMemory
  BY <1>1
<1>3. CASE stmt = Absent
  BY <1>2, <1>3 DEF AtStart
<1>4. CASE stmt # Absent
  <2>1. Live
    BY <1>4 DEF PagerIInv, PagerInv, PagerTypeOK, Places, Live, Underway, InTransaction
  <2>2. stmt.size <= dbSize /\ stmt.size \in Nat /\ dbSize \in Nat
    BY <1>4, <2>1, StmtType, Numbers DEF PagerIInv, PagerInv, PagerTypeOK, Sizes
  <2>3. \A p \in 1..stmt.size : Page(p)' = Page(p)
    BY <2>2
  <2>4. StmtRecords' = StmtRecords
    BY DEF StmtRecords
  <2>5. AtStart' = AtStart
    BY <1>4, <2>3, <2>4 DEF AtStart
  <2>6. QED
    BY <1>2, <2>5
<1>5. QED
  BY <1>3, <1>4

\* The end of a transaction without its changes.
LEMMA Forgotten ==
    ASSUME NEW m, OnDisk \in Seq(Values), OnDisk' \in Seq(Values), m = Len(OnDisk), Len(OnDisk') >= m,
           \A p \in 1..m : OnDisk'[p] = OnDisk[p], InMemory' = OnDisk', AtStart' = <<>>
    PROVE  Abstract!StoreNext
<1>1. SubSeq(OnDisk', 1, m) = OnDisk
  <2>1. m \in Nat /\ Len(OnDisk') \in Nat
    OBVIOUS
  <2>2. /\ SubSeq(OnDisk', 1, m) = [i \in 1..m |-> OnDisk'[i]]
    BY <2>1
  <2>3. OnDisk = [i \in 1..m |-> OnDisk[i]]
    OBVIOUS
  <2>4. QED
    BY <2>2, <2>3
<1>2. Abstract!Forget
  BY <1>1 DEF Abstract!Forget, Abstract!Extends
<1>3. QED
  BY <1>2 DEF Abstract!StoreNext

\* The journal is deleted with the file as the journal says.
LEMMA EndForgets ==
    ASSUME PagerIInv, PagerIInv', NEW f, NEW c, EndTransaction(f, c), unread' = {},
           Len(f) = Len(OnDisk), \A p \in 1..Len(OnDisk) : f[p] = OnDisk[p]
    PROVE  Abstract!StoreNext
<1>1. state' = "shared" /\ file' = f
  BY DEF EndTransaction
<1>2. InMemory' = f /\ OnDisk' = f /\ AtStart' = <<>>
  BY <1>1, SharedIsNext DEF SharedAgrees
<1>3. OnDisk \in Seq(Values) /\ OnDisk' \in Seq(Values)
  BY DiskIs, DiskIsNext DEF DiskTyped
<1>4. Len(OnDisk') >= Len(OnDisk)
  BY <1>2, <1>3
<1>5. QED
  BY <1>2, <1>3, <1>4, Forgotten

LEMMA UndoForgets ==
    ASSUME PagerIInv, PagerIInv', Undo, InTransaction, job # "playback", unread = {}, unread' = {}
    PROVE  Abstract!StoreNext
<1>0. /\ PagerTypeOK /\ Records /\ Places /\ Sizes /\ Unchanged /\ Original
      /\ Live /\ journal # Absent /\ journal.valid /\ journal.size <= Len(file)
  BY DEF PagerIInv, PagerInv, Places, Sizes, Live, Underway
<1>1. /\ OnDisk = [p \in 1..journal.size |-> Back(p)] /\ Len(OnDisk) = journal.size
      /\ journal.size \in Nat /\ \A p \in 1..journal.size : p \in 1..Len(file)
  BY <1>0, RestoredIs DEF RestoredBack, OnDisk
<1>2. PagesOf(Counted) \subseteq PagesOf(journal.recs)
  BY <1>0, CountedFacts
<1>3. CASE ~dirtyCache
  <2>1. journal.recs = <<>> /\ Len(file) = journal.size
    BY <1>0, <1>3 DEF Unchanged
  <2>2. PagesOf(Counted) = {}
    <3>1. PagesOf(<<>>) = {}
      BY DEF PagesOf
    <3>2. QED
      BY <1>2, <2>1, <3>1
  <2>3. \A p \in 1..Len(OnDisk) : file[p] = OnDisk[p]
    BY <1>1, <2>2 DEF Back
  <2>4. EndTransaction(file, cache)
    BY <1>3 DEF Undo
  <2>5. QED
    BY <1>1, <2>1, <2>3, <2>4, EndForgets
<1>4. CASE dirtyCache /\ state = "reserved"
  <2> DEFINE f == Truncated(file, journal.size)
  <2>1. Len(f) = journal.size /\ \A p \in 1..journal.size : f[p] = file[p]
    BY <1>0, <1>1, TruncatedFacts, TruncatedSame DEF PagerTypeOK
  <2>2. \A p \in PagesOf(Counted) : file[p] = ValueIn(journal.recs, p)
    BY <1>0, <1>2, <1>4 DEF Original
  <2>3. \A p \in 1..Len(OnDisk) : f[p] = OnDisk[p]
    BY <1>1, <2>1, <2>2 DEF Back
  <2>4. EndTransaction(f, Reloaded(file, journal.size))
    BY <1>4 DEF Undo
  <2> HIDE DEF f
  <2>5. QED
    BY <1>1, <2>1, <2>3, <2>4, EndForgets
<1>5. CASE dirtyCache /\ state # "reserved"
  <2>1. file' = Truncated(file, journal.size) /\ job' = "playback" /\ UNCHANGED journal
    BY <1>5 DEF Undo
  <2>2. \A p \in 1..journal.size : file'[p] = file[p]
    BY <1>0, <2>1, TruncatedSame
  <2>3. OnDisk' = OnDisk
    BY <1>0, <2>1, <2>2, FileWritten
  <2>4. InMemory' = OnDisk' /\ AtStart' = <<>>
    BY <2>1 DEF InMemory, AtStart
  <2>5. OnDisk \in Seq(Values) /\ Len(OnDisk) \in Nat
    BY <1>1, DiskIs DEF DiskTyped
  <2>6. QED
    BY <2>3, <2>4, <2>5, Forgotten
<1>6. QED
  BY <1>3, <1>4, <1>5

\* The end of a playback.
LEMMA PlaybackForgets ==
    ASSUME PagerIInv, PagerIInv', Playback, ~(journal.valid /\ replayed < journal.counted), unread' = {}
    PROVE  Abstract!StoreNext
<1>0. /\ PagerTypeOK /\ Records /\ Places /\ Sizes /\ Original
      /\ journal # Absent /\ job = "playback"
  BY DEF PagerIInv, PagerInv, Places, Underway, InTransaction, Playback
<1>1. EndTransaction(file, cache)
  BY DEF Playback
<1>2. CASE ~journal.valid
  <2>1. OnDisk = file
    BY <1>0, <1>2 DEF OnDisk, Restored
  <2>2. QED
    BY <1>1, <2>1, EndForgets
<1>3. CASE journal.valid
  <2>1. /\ OnDisk = [p \in 1..journal.size |-> Back(p)] /\ Len(OnDisk) = journal.size
        /\ journal.size \in Nat /\ Len(file) = journal.size
    BY <1>0, <1>3, RestoredIs DEF RestoredBack, OnDisk, Sizes
  <2>2. /\ journal.recs \in Seq(Record) /\ Consistent(journal.recs)
        /\ journal.counted \in 0..Len(journal.recs) /\ journal.counted \in Nat /\ replayed \in Nat
    <3>1. replayed \in Nat
      BY <1>0 DEF PagerTypeOK
    <3>2. journal.recs \in Seq(Record) /\ journal.counted \in 0..Len(journal.recs)
      BY <1>0, JournalType
    <3>3. QED
      BY <1>0, <3>1, <3>2 DEF Records
  <2>3. /\ replayed = journal.counted
        /\ \A i \in 1..replayed : file[journal.recs[i].page] = journal.recs[i].val
    <3>1. /\ replayed <= journal.counted
          /\ \A i \in 1..replayed : file[journal.recs[i].page] = journal.recs[i].val
      BY <1>0, <1>3 DEF Original
    <3>2. replayed = journal.counted
      BY <1>3, <2>2, <3>1
    <3>3. QED
      BY <3>1, <3>2
  <2>4. ASSUME NEW p \in PagesOf(Counted)
        PROVE  file[p] = ValueIn(journal.recs, p)
    <3>1. 1 \in Nat \ {0} /\ 1 <= journal.counted + 1
      BY <2>2
    <3>2. RecordsOf(Counted) = {journal.recs[i] : i \in 1..journal.counted} /\ Counted \in Seq(Record)
      BY <2>2, <3>1, SubSeqFacts DEF Counted
    <3>3. PICK r \in RecordsOf(Counted) : r.page = p
      BY <3>2, RecordsOfFacts
    <3>4. PICK i \in 1..journal.counted : r = journal.recs[i]
      BY <3>2
    <3>5. r \in RecordsOf(journal.recs)
      BY <2>2, <3>4 DEF RecordsOf
    <3>6. ValueIn(journal.recs, r.page) = r.val
      BY <2>2, <3>5, RecordsOfFacts
    <3>7. QED
      BY <2>3, <3>3, <3>4, <3>6
  <2>5. \A p \in 1..Len(OnDisk) : file[p] = OnDisk[p]
    BY <2>1, <2>4 DEF Back
  <2>6. QED
    BY <1>1, <2>1, <2>5, EndForgets
<1>4. QED
  BY <1>2, <1>3

\* A commit: the file has what memory has.
LEMMA DeleteKeeps ==
    ASSUME PagerIInv, PagerIInv', Delete, unread = {}, unread' = {}
    PROVE  Abstract!StoreNext
<1>1. /\ PagerTypeOK /\ state = "synced" /\ job = "delete" /\ stmt = Absent /\ file \in Seq(Values)
      /\ EndTransaction(file, cache)
      /\ \A p \in DOMAIN cache : ~cache[p].dirty /\ Stored(p)
      /\ \A p \in 1..dbSize : p \in DOMAIN cache \/ p <= Len(file)
  BY DEF PagerIInv, PagerInv, PagerTypeOK, Places, Records, Flags, Kept, CleanIsStoredOtherwise, Delete
<1>2. state' = "shared" /\ file' = file
  BY <1>1 DEF EndTransaction
<1>3. InMemory' = file /\ OnDisk' = file /\ AtStart' = <<>>
  BY <1>2, SharedIsNext DEF SharedAgrees
<1>4. dbSize \in Nat /\ Len(file) \in Nat
  BY <1>1, Numbers DEF PagerTypeOK
<1>5. \A p \in 1..dbSize : p <= Len(file) /\ Page(p) = file[p]
  BY <1>1, <1>4 DEF Page, Stored
<1>6. dbSize <= Len(file)
  <2>1. dbSize = 0 \/ dbSize \in 1..dbSize
    BY <1>4
  <2>2. QED
    BY <1>4, <1>5, <2>1
<1>7. InMemory = [p \in 1..dbSize |-> file[p]] /\ AtStart = <<>>
  BY <1>1, <1>5 DEF InMemory, AtStart
<1>8. SubSeq(file, 1, dbSize) = [p \in 1..dbSize |-> file[p]] /\ Len(InMemory) = dbSize
  BY <1>1, <1>4, <1>6, <1>7
<1>9. Abstract!Keep
  BY <1>3, <1>4, <1>6, <1>7, <1>8 DEF Abstract!Keep, Abstract!Extends
<1>10. QED
  BY <1>9 DEF Abstract!StoreNext

\* A page is changed, which the statement and the journal can undo.
LEMMA ChangeWrites ==
    ASSUME PagerIInv, PagerIInv', InTransaction, job # "playback", job' # "playback",
           NEW p \in DOMAIN cache, NEW v \in Values, Change(p, v), p <= dbSize + 1,
           UNCHANGED <<file, state>>
    PROVE  Abstract!StoreNext \/ UNCHANGED <<OnDisk, InMemory, AtStart>>
<1>0. /\ PagerTypeOK /\ Records /\ Places /\ Sizes /\ Live /\ journal # Absent /\ journal.valid
      /\ state # "unlock" /\ p \in Nat \ {0} /\ dbSize \in Nat
  <2>1. PagerTypeOK /\ Records /\ Places /\ Sizes
    BY DEF PagerIInv, PagerInv
  <2>2. Live /\ journal # Absent /\ journal.valid /\ state # "unlock"
    BY <2>1 DEF Places, Sizes, Live, Underway, InTransaction
  <2>3. p \in Pages /\ dbSize \in Nat
    BY <2>1, Numbers DEF PagerTypeOK
  <2>4. QED
    BY <2>1, <2>2, <2>3, Numbers
<1>1. /\ journal' # Absent /\ journal'.valid /\ journal'.size = journal.size
      /\ journal'.counted = journal.counted
      /\ DOMAIN cache' = DOMAIN cache /\ cache'[p].val = v
      /\ \A q \in DOMAIN cache : q # p => cache'[q] = cache[q]
      /\ dbSize' = dbSize \/ (p > dbSize /\ dbSize' = p)
  BY <1>0, ChangeEffect
<1>2. OnDisk' = OnDisk
  <2> DEFINE old == [page |-> p, val |-> cache[p].val]
  <2>1. /\ journal.recs \in Seq(Record) /\ journal.counted \in 0..Len(journal.recs)
        /\ Consistent(journal.recs) /\ PagesOf(Counted) \subseteq PagesOf(journal.recs)
    BY <1>0, JournalType, CountedFacts DEF Records
  <2>2. /\ old \in Record
        /\ \/ journal' = journal
           \/ p \notin PagesOf(journal.recs) /\ journal'.recs = Append(journal.recs, old)
    BY <1>0, <2>1, ChangeRecords
  <2> HIDE DEF old
  <2>3. CASE journal' = journal
    BY <2>3, DiskUnchanged
  <2>4. CASE p \notin PagesOf(journal.recs) /\ journal'.recs = Append(journal.recs, old)
    <3>1. Consistent(journal'.recs) /\ journal'.recs \in Seq(Record)
      BY <1>0, <2>1, ChangeRecords
    <3>2. SubSeq(journal'.recs, 1, journal.counted) = SubSeq(journal.recs, 1, journal.counted)
          /\ RecordsOf(journal'.recs) = RecordsOf(journal.recs) \cup {old}
      BY <2>1, <2>2, <2>4, AppendFacts
    <3>3. Counted' = Counted
      BY <1>1, <3>2 DEF Counted
    <3>4. \A q \in PagesOf(journal.recs) : ValueIn(journal'.recs, q) = ValueIn(journal.recs, q)
      <4>1. RecordsOf(journal.recs) \subseteq RecordsOf(journal'.recs)
        BY <3>2
      <4>2. QED
        BY <2>1, <3>1, <4>1, PartFacts
    <3>5. \A q \in 1..journal.size : Back(q)' = Back(q)
      BY <2>1, <3>3, <3>4 DEF Back
    <3>6. QED
      BY <1>0, <1>1, <3>5, DiskSame
  <2>5. QED
    BY <2>2, <2>3, <2>4
<1>3. /\ Page(p)' = v /\ Page(p) = cache[p].val
      /\ \A q : q # p => Page(q)' = Page(q)
  BY <1>1 DEF Page
<1>4. InMemory = [q \in 1..dbSize |-> Page(q)] /\ InMemory' = [q \in 1..dbSize' |-> Page(q)']
  BY <1>0 DEF InMemory
<1>5. AtStart' = AtStart
  <2>1. CASE stmt = Absent
    <3>1. stmt' = Absent
      BY <1>0, <2>1, ChangeEffect
    <3>2. QED
      BY <2>1, <3>1 DEF AtStart
  <2>2. CASE stmt # Absent
    <3>1. /\ stmt' # Absent /\ stmt'.size = stmt.size
          /\ \A q \in PagesOf(StmtRecords) : ValueIn(StmtRecords', q) = ValueIn(StmtRecords, q)
          /\ \/ p \in PagesOf(StmtRecords) \/ p > stmt.size
             \/ p \in PagesOf(StmtRecords') /\ ValueIn(StmtRecords', p) = cache[p].val
          /\ PagesOf(StmtRecords) \subseteq PagesOf(StmtRecords')
          /\ PagesOf(StmtRecords') \subseteq PagesOf(StmtRecords) \cup {p}
      BY <1>0, <2>2, ChangeStmt
    <3>2. stmt.size \in Nat
      BY <1>0, <2>2, StmtType, Numbers
    <3> DEFINE Was(q) == IF q \in PagesOf(StmtRecords) THEN ValueIn(StmtRecords, q) ELSE Page(q)
               Is(q) == IF q \in PagesOf(StmtRecords') THEN ValueIn(StmtRecords', q) ELSE Page(q)'
    <3>3. \A q \in 1..stmt.size : Is(q) = Was(q)
      <4>1. ASSUME NEW q \in 1..stmt.size
            PROVE  Is(q) = Was(q)
        <5>1. CASE q = p
          BY <1>0, <1>3, <3>1, <3>2, <5>1
        <5>2. CASE q # p
          BY <1>3, <3>1, <5>2
        <5>3. QED
          BY <5>1, <5>2
      <4>2. QED
        BY <4>1
    <3>4. AtStart = [q \in 1..stmt.size |-> Was(q)]
      BY <2>2 DEF AtStart
    <3>5. AtStart' = [q \in 1..stmt.size |-> Is(q)]
      BY <3>1 DEF AtStart
    <3>6. QED
      BY <3>3, <3>4, <3>5
  <2>3. QED
    BY <2>1, <2>2
<1>6. CASE p <= dbSize \/ dbSize' = p
  <2>1. Len(InMemory) = dbSize /\ p \in 1..Len(InMemory) + 1
    BY <1>0, <1>4
  <2>2. dbSize' \in Nat /\ 1..dbSize' = 1..dbSize \cup {p}
    <3>1. CASE p <= dbSize
      BY <1>0, <1>1, <3>1
    <3>2. CASE p > dbSize /\ dbSize' = p
      BY <1>0, <3>2
    <3>3. QED
      BY <1>0, <1>1, <1>6, <3>1, <3>2
  <2>3. InMemory' = [q \in 1..dbSize \cup {p} |-> IF q = p THEN v ELSE InMemory[q]]
    <3>1. \A q \in 1..dbSize' : Page(q)' = IF q = p THEN v ELSE InMemory[q]
      BY <1>3, <1>4, <2>2
    <3>2. QED
      BY <1>4, <2>2, <3>1
  <2>4. Abstract!WritePage
    BY <1>2, <1>5, <2>1, <2>3 DEF Abstract!WritePage
  <2>5. QED
    BY <2>4 DEF Abstract!StoreNext
<1>7. CASE p > dbSize /\ dbSize' = dbSize
  <2>1. \A q \in 1..dbSize : Page(q)' = Page(q)
    BY <1>0, <1>3, <1>7
  <2>2. InMemory' = InMemory
    BY <1>4, <1>7, <2>1
  <2>3. QED
    BY <1>2, <1>5, <2>2
<1>8. QED
  BY <1>0, <1>1, <1>6, <1>7

LEMMA StmtBeginStarts ==
    ASSUME PagerIInv, StmtBegin
    PROVE  Abstract!StoreNext
<1>1. /\ job = "ready" /\ InTransaction /\ state # "unlock" /\ stmt = Absent
      /\ stmt' = [size |-> dbSize, skip |-> Len(journal.recs), saved |-> <<>>]
      /\ UNCHANGED <<file, journal, state, cache, dbSize, job>>
  BY DEF StmtBegin, disk, InTransaction
<1>2. OnDisk' = OnDisk
  BY <1>1, DiskUnchanged
<1>3. \A p : Page(p)' = Page(p)
  BY <1>1 DEF Page
<1>4. InMemory = [p \in 1..dbSize |-> Page(p)] /\ InMemory' = InMemory
  BY <1>1, <1>3 DEF InMemory
<1>5. journal.recs \in Seq(Record) /\ dbSize \in Nat
  BY <1>1, JournalNumbers, FileType DEF PagerIInv, PagerInv, Places, Underway
<1>6. PagesOf(StmtRecords') = {}
  <2>1. StmtRecords' = <<>> \o SubSeq(journal.recs, Len(journal.recs) + 1, Len(journal.recs))
    BY <1>1 DEF StmtRecords
  <2>2. Len(<<>> \o SubSeq(journal.recs, Len(journal.recs) + 1, Len(journal.recs))) = 0
    BY <1>5
  <2>3. QED
    BY <2>1, <2>2 DEF PagesOf
<1>7. stmt' # Absent /\ stmt'.size = dbSize
  <2>1. stmt'.size = dbSize /\ stmt'.skip = Len(journal.recs)
    BY <1>1
  <2>2. DOMAIN stmt' # DOMAIN Absent
    BY <1>1 DEF Absent
  <2>3. QED
    BY <2>1, <2>2
<1>8. AtStart = <<>> /\ AtStart' = InMemory
  BY <1>1, <1>3, <1>4, <1>6, <1>7 DEF AtStart
<1>9. Abstract!StartStatement
  BY <1>2, <1>4, <1>8 DEF Abstract!StartStatement
<1>10. QED
  BY <1>9 DEF Abstract!StoreNext

\* What a statement started with is not nothing: page 1 is always there.
LEMMA Started ==
    ASSUME PagerIInv, stmt # Absent, job = "ready"
    PROVE  AtStart # <<>> /\ Live /\ state # "unlock" /\ state # "shared"
<1>1. Live /\ state # "unlock" /\ state # "shared"
  BY DEF PagerIInv, PagerInv, PagerTypeOK, Places, Live, Underway, InTransaction
<1>2. stmt.size \in Nat /\ 1 \in 1..stmt.size
  BY StmtType, Numbers DEF PagerIInv, PagerInv
<1>3. DOMAIN AtStart = 1..stmt.size
  BY DEF AtStart
<1>4. DOMAIN <<>> = {}
  OBVIOUS
<1>5. QED
  BY <1>1, <1>2, <1>3, <1>4

LEMMA StmtCommitEnds ==
    ASSUME PagerIInv, StmtCommit
    PROVE  Abstract!StoreNext
<1>1. /\ job = "ready" /\ stmt # Absent /\ stmt' = Absent
      /\ UNCHANGED <<file, journal, state, cache, dbSize, job>>
  BY DEF StmtCommit, disk
<1>2. OnDisk' = OnDisk
  BY <1>1, DiskUnchanged
<1>3. \A p : Page(p)' = Page(p)
  BY <1>1 DEF Page
<1>4. InMemory' = InMemory
  BY <1>1, <1>2, <1>3 DEF InMemory
<1>5. AtStart # <<>> /\ AtStart' = <<>>
  BY <1>1, Started DEF AtStart
<1>6. Abstract!EndStatement
  BY <1>2, <1>4, <1>5 DEF Abstract!EndStatement
<1>7. QED
  BY <1>6 DEF Abstract!StoreNext

\* The rollback of a statement: everything it has changed is back.
LEMMA StmtRollbackEnds ==
    ASSUME PagerIInv, PagerIInv', StmtRollback, rash' = {}
    PROVE  Abstract!StoreNext
<1>0. /\ PagerTypeOK /\ Places /\ Sizes /\ Records /\ Kept /\ Flags
      /\ job = "ready" /\ stmt # Absent /\ stmt' = Absent /\ state' = state /\ job' = job
      /\ UNCHANGED journal
  BY DEF PagerIInv, PagerInv, StmtRollback
<1>1. /\ Live /\ journal # Absent /\ journal.valid /\ StmtRecords \in Seq(Record) /\ stmt.size \in Pages
      /\ dbSize' = stmt.size /\ Len(file') = stmt.size
      /\ \A p \in 1..stmt.size :
           file'[p] = IF state = "exclusive" /\ p \in PagesOf(StmtRecords)
                      THEN ValueIn(StmtRecords, p)
                      ELSE IF p <= Len(file) THEN file[p] ELSE Blank
      /\ DOMAIN cache' = DOMAIN cache
      /\ \A p \in DOMAIN cache :
           /\ p \notin PagesOf(StmtRecords) => cache'[p] = cache[p]
           /\ p \in PagesOf(StmtRecords) => cache'[p].val = ValueIn(StmtRecords, p)
      /\ PagesOf(StmtRecords) \subseteq PagesOf(stmt.saved) \cup PagesOf(journal.recs)
  BY <1>0, StmtRollbackEffect DEF Sizes
<1>2. rash' = IF state = "exclusive"
              THEN rash \cup {p \in PagesOf(StmtRecords) : p <= journal.size /\ p \notin PagesOf(Counted)}
              ELSE rash
  BY <1>0, StmtRollbackMore
<1>3. /\ stmt.size \in Nat /\ dbSize \in Nat /\ stmt.size <= dbSize
      /\ journal.size <= stmt.size /\ journal.size <= Len(file)
      /\ journal.size \in Nat /\ Len(file) \in Nat
  <2>1. stmt.size \in Nat /\ dbSize \in Nat /\ Len(file) \in Nat
    BY <1>0, <1>1, StmtType, FileType, Numbers
  <2>2. journal.size \in Nat
    BY <1>0, <1>1, JournalNumbers
  <2>3. /\ stmt.size <= dbSize /\ journal.size <= stmt.size
        /\ journal.size <= Len(file)
    BY <1>0, <1>1 DEF Sizes
  <2>4. QED
    BY <2>1, <2>2, <2>3
<1>4. OnDisk' = OnDisk
  <2>1. ASSUME NEW p \in 1..journal.size, p \notin PagesOf(Counted)
        PROVE  file'[p] = file[p]
    <3>1. p \in 1..stmt.size /\ p <= Len(file) /\ p <= journal.size
      BY <1>3
    <3>2. ~(state = "exclusive" /\ p \in PagesOf(StmtRecords))
      BY <1>2, <2>1, <3>1
    <3>3. QED
      BY <1>1, <3>1, <3>2
  <2>2. QED
    BY <1>0, <1>1, <2>1, FileWritten
<1>5. ASSUME NEW p \in 1..stmt.size
      PROVE  Page(p)' = IF p \in PagesOf(StmtRecords) THEN ValueIn(StmtRecords, p) ELSE Page(p)
  <2>1. p \in 1..dbSize /\ p <= Len(file')
    BY <1>1, <1>3
  <2>2. CASE p \in DOMAIN cache
    BY <1>1, <2>2 DEF Page
  <2>3. CASE p \notin DOMAIN cache
    <3>1. Page(p)' = file'[p] /\ p <= Len(file) /\ Page(p) = file[p]
      BY <1>0, <1>1, <2>1, <2>3 DEF Page, Kept
    <3>2. p \in PagesOf(StmtRecords) => state = "exclusive"
      <4>1. state = "reserved" => p \notin PagesOf(stmt.saved) \cup PagesOf(journal.recs)
        BY <1>0, <2>3 DEF Flags
      <4>2. state \in {"reserved", "exclusive"}
        BY <1>0, <1>1, StmtRollbackEffect DEF InTransaction
      <4>3. QED
        BY <1>1, <4>1, <4>2
    <3>3. QED
      BY <1>1, <3>1, <3>2
  <2>4. QED
    BY <2>2, <2>3
<1>6. /\ InMemory' = [p \in 1..stmt.size |-> Page(p)']
      /\ AtStart = [p \in 1..stmt.size |->
                       IF p \in PagesOf(StmtRecords) THEN ValueIn(StmtRecords, p) ELSE Page(p)]
      /\ AtStart' = <<>> /\ AtStart # <<>>
  BY <1>0, <1>1, Started DEF InMemory, AtStart
<1>7. InMemory' = AtStart
  BY <1>5, <1>6
<1>8. Abstract!EndStatement
  BY <1>4, <1>6, <1>7 DEF Abstract!EndStatement
<1>9. QED
  BY <1>8 DEF Abstract!StoreNext

\* Both views are those of before.
Seen == UNCHANGED <<OnDisk, InMemory, AtStart>>

LEMMA OpenSees ==
    ASSUME PagerIInv, PagerIInv', Open, unread = {}, unread' = {}
    PROVE  Seen
<1>0. /\ PagerTypeOK /\ Sizes /\ Records /\ state = "unlock" /\ stmt = Absent /\ stmt' = stmt /\ UNCHANGED journal
  BY DEF PagerIInv, PagerInv, Places, Open
<1>1. InMemory = OnDisk /\ AtStart = <<>>
  BY <1>0 DEF InMemory, AtStart
<1>2. CASE journal = Absent
  <2>1. state' = "shared" /\ file' = file
    BY <1>2 DEF Open
  <2>2. OnDisk' = OnDisk
    BY <1>0, <2>1, DiskUnchanged
  <2>3. InMemory' = OnDisk' /\ AtStart' = <<>>
    BY <2>1, SharedIsNext DEF SharedAgrees
  <2>4. QED
    BY <1>1, <2>2, <2>3 DEF Seen
<1>3. CASE journal # Absent
  <2>1. job' = "playback" /\ file' = IF journal.valid THEN Truncated(file, journal.size) ELSE file
    BY <1>3 DEF Open
  <2>2. OnDisk' = OnDisk
    <3>1. CASE journal.valid
      <4>1. \A p \in 1..journal.size : file'[p] = file[p]
        BY <1>0, <1>3, <2>1, <3>1, TruncatedSame
      <4>2. QED
        BY <1>0, <1>3, <3>1, <4>1, FileWritten
    <3>2. CASE ~journal.valid
      BY <1>0, <2>1, <3>2, DiskUnchanged
    <3>3. QED
      BY <3>1, <3>2
  <2>3. InMemory' = OnDisk' /\ AtStart' = <<>>
    BY <2>1 DEF InMemory, AtStart
  <2>4. QED
    BY <1>1, <2>2, <2>3 DEF Seen
<1>4. QED
  BY <1>2, <1>3

LEMMA ReleaseSees ==
    ASSUME PagerIInv, Release, unread = {}
    PROVE  Seen
<1>1. /\ state = "shared" /\ stmt = Absent /\ stmt' = Absent /\ state' = "unlock"
      /\ UNCHANGED <<file, journal>>
  BY DEF PagerIInv, PagerInv, Places, Release, disk
<1>2. InMemory = OnDisk /\ AtStart = <<>>
  BY <1>1, SharedIs DEF SharedAgrees
<1>3. OnDisk' = OnDisk
  BY <1>1, DiskUnchanged
<1>4. InMemory' = OnDisk' /\ AtStart' = <<>>
  BY <1>1 DEF InMemory, AtStart
<1>5. QED
  BY <1>2, <1>3, <1>4 DEF Seen

LEMMA BeginSees ==
    ASSUME PagerIInv, PagerIInv', Begin, unread = {}
    PROVE  Seen
<1>1. /\ state = "shared" /\ stmt = Absent /\ stmt' = Absent /\ state' = "reserved" /\ job = "ready" /\ job' = job
      /\ journal' = [size |-> dbSize, valid |-> TRUE, recs |-> <<>>, counted |-> 0]
      /\ UNCHANGED <<file, cache, dbSize>> /\ dbSize = Len(file) /\ file \in Seq(Values)
  BY DEF PagerIInv, PagerInv, PagerTypeOK, Places, Sizes, Begin
<1>2. OnDisk = file /\ AtStart = <<>> /\ AtStart' = <<>>
  BY <1>1, SharedIs DEF SharedAgrees, AtStart
<1>3. InMemory' = InMemory
  BY <1>1 DEF InMemory, Page
<1>4. journal'.valid /\ journal' # Absent /\ journal'.size = dbSize /\ journal'.recs = <<>>
  BY <1>1 DEF Absent
<1>5. OnDisk' = [p \in 1..dbSize |-> Back(p)']
  <2>1. PagerTypeOK' /\ Records'
    BY DEF PagerIInv, PagerInv
  <2>2. QED
    BY <1>4, <2>1, RestoredIsNext DEF RestoredBack, OnDisk
<1>6. \A p \in 1..dbSize : Back(p)' = file[p]
  <2>1. Counted' = SubSeq(<<>>, 1, 0)
    BY <1>1 DEF Counted
  <2>2. Len(SubSeq(<<>>, 1, 0)) = 0
    OBVIOUS
  <2>3. PagesOf(Counted') = {}
    BY <2>1, <2>2 DEF PagesOf
  <2>4. QED
    BY <1>1, <2>3 DEF Back
<1>7. OnDisk' = file
  <2>1. OnDisk' = [p \in 1..Len(file) |-> file[p]]
    BY <1>1, <1>5, <1>6
  <2>2. QED
    BY <1>1, <2>1
<1>8. QED
  BY <1>2, <1>3, <1>7 DEF Seen

LEMMA GetSees ==
    ASSUME PagerIInv, Get
    PROVE  Seen
<1>0. /\ PagerTypeOK /\ Kept /\ job = "ready" /\ state # "unlock" /\ file \in Seq(Values)
      /\ UNCHANGED <<file, journal, state, dbSize, stmt>>
  BY DEF PagerIInv, PagerInv, PagerTypeOK, Get, disk
<1>1. PICK p \in Pages \ DOMAIN cache :
          \/ cache' = Loaded(file, p, 0) /\ job' = Then(p)
          \/ cache' = cache /\ job' \in {"write", "sync"}
  BY <1>0, GetEffect
<1>2. job' # "playback"
  BY <1>1 DEF Then
<1>3. ASSUME NEW q \in 1..dbSize
      PROVE  Page(q)' = Page(q)
  <2>1. CASE cache' = cache
    BY <1>0, <2>1 DEF Page
  <2>2. CASE cache' = Loaded(file, p, 0)
    <3>1. p # 0 /\ p \in Nat /\ dbSize \in Nat /\ 0 \in Pages \cup {0} /\ q <= dbSize /\ q # 0
      BY <1>0, FileType, Numbers
    <3>2. /\ DOMAIN cache' = (DOMAIN cache \cup {p}) \ {0}
          /\ p <= dbSize /\ p <= Len(file) => cache'[p].val = file[p]
          /\ \A r \in DOMAIN cache : r # p /\ r # 0 => cache'[r] = cache[r]
      BY <1>0, <2>2, LoadedFree
    <3>3. CASE q = p
      <4>1. p \notin DOMAIN cache /\ p <= dbSize /\ p <= Len(file)
        BY <1>0, <1>1, <3>1, <3>3 DEF Kept
      <4>2. QED
        BY <1>0, <3>1, <3>2, <3>3, <4>1 DEF Page
    <3>4. CASE q # p
      BY <1>0, <3>1, <3>2, <3>4 DEF Page
    <3>5. QED
      BY <3>3, <3>4
  <2>3. QED
    BY <1>1, <2>1, <2>2
<1>4. UNCHANGED <<InMemory, AtStart>>
  BY <1>0, <1>2, <1>3, SeenSame
<1>5. QED
  BY <1>0, <1>4, DiskUnchanged DEF Seen

\* The records that have not been counted are those of pages the file has still.
LEMMA SyncRecordsSees ==
    ASSUME PagerIInv, PagerIInv', SyncRecords, rash' = {}
    PROVE  Seen
<1>0. /\ PagerTypeOK /\ Places /\ Records /\ Original /\ job = "sync" /\ job' \in {"count", "write"} /\ rash = {}
      /\ Live /\ state # "unlock" /\ journal # Absent /\ journal.valid
      /\ UNCHANGED <<file, state, cache, dbSize, stmt>>
  BY DEF PagerIInv, PagerInv, Places, Sizes, Live, Underway, InTransaction, SyncRecords, memory
<1>1. CASE ~needSync
  <2>1. UNCHANGED journal
    BY <1>1 DEF SyncRecords
  <2>2. \A p \in 1..dbSize : Page(p)' = Page(p)
    BY <1>0 DEF Page
  <2>3. QED
    BY <1>0, <2>1, <2>2, SeenSame, DiskUnchanged DEF Seen
<1>2. CASE needSync
  <2>1. journal' = [journal EXCEPT !.counted = Len(journal.recs)]
    BY <1>2 DEF SyncRecords, NRec
  <2>2. /\ journal'.counted = Len(journal.recs) /\ journal'.recs = journal.recs
        /\ journal'.size = journal.size /\ journal'.valid /\ journal.recs \in Seq(Record)
        /\ journal.size \in Pages
    BY <1>0, <2>1, JournalType DEF JournalFiles
  <2>3. journal' # Absent
    BY <2>2, Numbers DEF Absent
  <2>4. PagesOf(Counted') = PagesOf(journal.recs)
    BY <2>2, AllRecords DEF Counted
  <2>5. \A p \in Uncounted : ValueIn(journal.recs, p) = file[p]
    BY <1>0 DEF Original
  <2>6. PagesOf(Counted) \subseteq PagesOf(journal.recs)
    BY <1>0, CountedFacts
  <2>7. \A p \in 1..journal.size : Back(p)' = Back(p)
    BY <1>0, <2>2, <2>4, <2>5, <2>6 DEF Back, Uncounted
  <2>8. OnDisk' = OnDisk
    BY <1>0, <2>2, <2>3, <2>7, DiskSame
  <2>9. StmtRecords' = StmtRecords
    BY <1>0, <2>2 DEF StmtRecords
  <2>10. \A p : Page(p)' = Page(p)
    BY <1>0 DEF Page
  <2>11. InMemory' = InMemory /\ AtStart' = AtStart
    BY <1>0, <2>9, <2>10 DEF InMemory, AtStart
  <2>12. QED
    BY <2>8, <2>11 DEF Seen
<1>3. QED
  BY <1>1, <1>2

LEMMA SyncCountSees ==
    ASSUME PagerIInv, SyncCount
    PROVE  Seen
<1>1. /\ job = "count" /\ job' = "write" /\ state # "unlock" /\ UNCHANGED <<file, journal, state, dbSize, stmt>>
      /\ cache' = [p \in DOMAIN cache |-> [cache[p] EXCEPT !.needSync = FALSE]]
      /\ PagerTypeOK
  BY DEF PagerIInv, PagerInv, Places, InTransaction, SyncCount
<1>2. \A p : Page(p)' = Page(p)
  <2>1. DOMAIN cache' = DOMAIN cache /\ \A p \in DOMAIN cache : cache'[p].val = cache[p].val
    BY <1>1 DEF PagerTypeOK, Cached
  <2>2. QED
    BY <1>1, <2>1 DEF Page
<1>3. QED
  BY <1>1, <1>2, SeenSame, DiskUnchanged DEF Seen

\* A page is written to the file, whose record the journal has; other pages may be
\* loaded and leave the cache.
LEMMA WrittenDisk ==
    ASSUME PagerIInv, PagerIInv', Live, rash' = {}, UNCHANGED <<journal, rash>>,
           NEW v \in DOMAIN cache, cache[v].dirty, ~cache[v].needSync, file' = Put(file, v, cache[v].val)
    PROVE  OnDisk' = OnDisk
<1>0. /\ PagerTypeOK /\ Places /\ Sizes /\ Records /\ Flushed /\ journal # Absent /\ journal.valid
      /\ v \in Nat \ {0} /\ cache[v].val \in Values
  <2>1. PagerTypeOK /\ Places /\ Sizes /\ Records /\ Flushed
    BY DEF PagerIInv, PagerInv
  <2>2. journal # Absent /\ journal.valid
    BY <2>1 DEF Places, Sizes, Live
  <2>3. v \in Pages /\ cache[v].val \in Values
    BY <2>1 DEF PagerTypeOK, Cached
  <2>4. QED
    BY <2>1, <2>2, <2>3, Numbers
<1>1. v <= journal.size => v \in PagesOf(Counted)
  BY <1>0, DirtySettled
<1>2. ASSUME NEW p \in 1..journal.size, p \notin PagesOf(Counted)
      PROVE  file'[p] = file[p]
  <2>1. p # v /\ p \in 1..Len(file)
    <3>1. p <= journal.size /\ p \in 1..Len(file)
      BY <1>0, RecordPages
    <3>2. QED
      BY <1>1, <1>2, <3>1
  <2>2. QED
    BY <1>0, <2>1, PutAt
<1>3. QED
  BY <1>0, <1>2, FileWritten

LEMMA RecycleSees ==
    ASSUME PagerIInv, PagerIInv', Recycle, rash' = {}, unread = {}
    PROVE  Seen
<1>0. /\ PagerTypeOK /\ Present /\ Flags /\ Places /\ Kept /\ job = "write" /\ state # "unlock" /\ file \in Seq(Values)
      /\ UNCHANGED <<journal, dbSize, stmt, rash>> /\ rash = {}
  BY DEF PagerIInv, PagerInv, PagerTypeOK, Places, Recycle
<1>1. PICK v \in Recyclable :
          /\ ~cache[v].needSync
          /\ IF cache[v].dirty
             THEN /\ file' = Put(file, v, cache[v].val)
                  /\ stale' = Overwritten({v})
                  /\ state' = "exclusive"
             ELSE UNCHANGED <<file, stale, state>>
          /\ cache' = Loaded(file', want, v)
  BY DEF Recycle
<1>2. v \in DOMAIN cache /\ v \in Pages /\ v # want /\ want \in Pages \ DOMAIN cache
      /\ job' # "playback" /\ state' # "unlock"
  <2>1. v \in DOMAIN cache /\ v \in Pages /\ want # 0 /\ want \in 0..MaxPages /\ job' # "playback"
    BY <1>0, <1>1 DEF Recyclable, Recycle, PagerTypeOK, Then
  <2>2. want \notin DOMAIN cache
    BY <1>0, <2>1 DEF Present
  <2>3. want \in Pages
    BY <2>1, Numbers
  <2>4. state' # "unlock"
    BY <1>0, <1>1
  <2>5. QED
    BY <2>1, <2>2, <2>3, <2>4
<1>3. OnDisk' = OnDisk
  <2>1. CASE cache[v].dirty
    <3>1. Live
      BY <1>0, <1>2, <2>1 DEF Flags, Live, Underway, InTransaction, PagerTypeOK
    <3>2. QED
      BY <1>0, <1>1, <1>2, <2>1, <3>1, WrittenDisk
  <2>2. CASE ~cache[v].dirty
    BY <1>0, <1>1, <2>2, DiskUnchanged
  <2>3. QED
    BY <2>1, <2>2
<1>4. /\ file' \in Seq(Values) /\ Len(file') \in Nat /\ Len(file) \in Nat /\ Len(file) <= Len(file')
      /\ v <= dbSize => v <= Len(file') /\ file'[v] = cache[v].val
      /\ \A q \in 1..Len(file) : q # v => file'[q] = file[q]
  <2>1. CASE cache[v].dirty
    BY <1>0, <1>1, <1>2, <2>1, PutKept
  <2>2. CASE ~cache[v].dirty
    <3>1. Stored(v) /\ file' = file
      BY <1>0, <1>1, <1>2, <2>2 DEF Kept, CleanIsStoredOtherwise
    <3>2. QED
      BY <1>0, <2>2, <3>1 DEF Stored
  <2>3. QED
    BY <2>1, <2>2
<1>5. /\ DOMAIN cache' = (DOMAIN cache \cup {want}) \ {v}
      /\ want <= dbSize /\ want <= Len(file') => cache'[want].val = file'[want]
      /\ \A q \in DOMAIN cache : q # want /\ q # v => cache'[q] = cache[q]
  <2>1. v \in Pages /\ want \in Pages /\ want # v /\ file' \in Seq(Values)
    BY <1>2, <1>4
  <2>2. QED
    BY <1>0, <1>1, <2>1, LoadedWanted
<1>6. ASSUME NEW q \in 1..dbSize
      PROVE  Page(q)' = Page(q)
  <2>1. q \in Nat \ {0} /\ dbSize \in Nat /\ q <= dbSize /\ (q \in DOMAIN cache \/ q <= Len(file))
    BY <1>0, Numbers DEF PagerTypeOK, Kept
  <2>2. CASE q = v
    BY <1>2, <1>4, <1>5, <2>1, <2>2 DEF Page
  <2>3. CASE q = want
    <3>1. q <= Len(file) /\ q <= Len(file') /\ file'[q] = file[q]
      BY <1>2, <1>4, <2>1, <2>3
    <3>2. QED
      BY <1>2, <1>5, <2>1, <2>3, <3>1 DEF Page
  <2>4. CASE q # v /\ q # want /\ q \in DOMAIN cache
    BY <1>5, <2>4 DEF Page
  <2>5. CASE q # v /\ q # want /\ q \notin DOMAIN cache
    <3>1. q <= Len(file) /\ q <= Len(file') /\ file'[q] = file[q]
      BY <1>4, <2>1, <2>5
    <3>2. QED
      BY <1>5, <2>5, <3>1 DEF Page
  <2>6. QED
    BY <2>2, <2>3, <2>4, <2>5
<1>7. QED
  BY <1>0, <1>2, <1>3, <1>6, SeenSame DEF Seen

LEMMA WriteDirtySees ==
    ASSUME PagerIInv, PagerIInv', WriteDirty, rash' = {}
    PROVE  Seen
<1>0. /\ PagerTypeOK /\ Kept /\ Live /\ Flushed /\ job = "write" /\ want = 0 /\ state # "unlock" /\ state' = "exclusive"
      /\ UNCHANGED <<journal, dbSize, stmt, rash>>
  BY DEF PagerIInv, PagerInv, Places, Live, Underway, InTransaction, WriteDirty
<1>1. PICK v \in DOMAIN cache :
          /\ cache[v].dirty
          /\ file' = Put(file, v, cache[v].val)
          /\ cache' = [cache EXCEPT ![v].dirty = FALSE]
          /\ job' \in {"write", "flush"}
  BY DEF WriteDirty
<1>2. ~cache[v].needSync
  BY <1>0 DEF Flushed
<1>3. OnDisk' = OnDisk
  BY <1>0, <1>1, <1>2, WrittenDisk
<1>4. /\ Len(file') \in Nat /\ Len(file) \in Nat /\ Len(file) <= Len(file')
      /\ \A q \in 1..Len(file) : q # v => file'[q] = file[q]
  BY <1>0, <1>1, PutKept
<1>5. DOMAIN cache' = DOMAIN cache /\ \A q \in DOMAIN cache : cache'[q].val = cache[q].val
  BY <1>0, <1>1 DEF PagerTypeOK, Cached
<1>6. ASSUME NEW q \in 1..dbSize
      PROVE  Page(q)' = Page(q)
  <2>1. q \in Nat \ {0} /\ dbSize \in Nat /\ q <= dbSize /\ (q \in DOMAIN cache \/ q <= Len(file))
    BY <1>0, Numbers DEF PagerTypeOK, Kept
  <2>2. CASE q \in DOMAIN cache
    BY <1>5, <2>2 DEF Page
  <2>3. CASE q \notin DOMAIN cache
    <3>1. q <= Len(file) /\ q <= Len(file') /\ file'[q] = file[q]
      BY <1>4, <2>1, <2>3
    <3>2. QED
      BY <1>5, <2>3, <3>1 DEF Page
  <2>4. QED
    BY <2>2, <2>3
<1>7. QED
  BY <1>0, <1>1, <1>3, <1>6, SeenSame DEF Seen

\* One record is written back.
LEMMA PlaybackSees ==
    ASSUME PagerIInv, PagerIInv', Playback, journal.valid, replayed < journal.counted
    PROVE  Seen
<1> DEFINE r == journal.recs[replayed + 1]
<1>1. /\ PagerTypeOK /\ Sizes /\ Records /\ job = "playback" /\ job' = "playback" /\ journal # Absent
      /\ UNCHANGED <<journal>> /\ file' = Put(file, r.page, r.val)
  BY DEF PagerIInv, PagerInv, Places, Underway, InTransaction, Playback
<1>2. /\ journal.recs \in Seq(Record) /\ journal.counted \in 0..Len(journal.recs) /\ journal.counted \in Nat
      /\ replayed \in Nat
  <2>1. replayed \in Nat
    BY <1>1 DEF PagerTypeOK
  <2>2. journal.recs \in Seq(Record) /\ journal.counted \in 0..Len(journal.recs)
    BY <1>1, JournalType
  <2>3. QED
    BY <2>1, <2>2
<1>3. replayed + 1 \in 1..journal.counted /\ replayed + 1 \in 1..Len(journal.recs)
      /\ 1 \in Nat \ {0} /\ 1 <= journal.counted + 1
  BY <1>2
<1>4. RecordsOf(Counted) = {journal.recs[i] : i \in 1..journal.counted} /\ Counted \in Seq(Record)
  BY <1>2, <1>3, SubSeqFacts DEF Counted
<1>5. r \in RecordsOf(Counted) /\ r \in Record
  BY <1>2, <1>3, <1>4
<1> HIDE DEF r
<1>6. r.page \in PagesOf(Counted) /\ r.page \in Nat \ {0} /\ r.val \in Values
  <2>1. PagesOf(Counted) = {s.page : s \in RecordsOf(Counted)}
    BY <1>4, RecordsOfFacts
  <2>2. r.page \in Pages /\ r.val \in Values
    BY <1>5 DEF Record
  <2>3. QED
    BY <1>5, <2>1, <2>2, Numbers
<1>7. ASSUME NEW p \in 1..journal.size, p \notin PagesOf(Counted)
      PROVE  file'[p] = file[p]
  <2>1. p # r.page /\ p \in 1..Len(file)
    BY <1>1, <1>6, <1>7, RecordPages
  <2>2. QED
    BY <1>1, <1>6, <2>1, PutAt
<1>8. OnDisk' = OnDisk
  BY <1>1, <1>7, FileWritten
<1>9. InMemory = OnDisk /\ InMemory' = OnDisk' /\ AtStart = <<>> /\ AtStart' = <<>>
  BY <1>1 DEF InMemory, AtStart
<1>10. QED
  BY <1>8, <1>9 DEF Seen

-----------------------------------------------------------------------------
\* A page that the count covers has a record.
CountedRecorded ==
    PagerTypeOK /\ Records /\ journal # Absent => PagesOf(Counted) \subseteq PagesOf(journal.recs)

LEMMA CountedIs == CountedRecorded
BY CountedFacts DEF CountedRecorded

LEMMA CountedPagesNext == CountedRecorded'
BY CountedIs, PTL

LEMMA CrashForgets ==
    ASSUME PagerIInv, PagerIInv', Crash
    PROVE  Abstract!StoreNext
<1>1. state' = "unlock" /\ stmt' = Absent /\ UNCHANGED <<file, journal>>
  BY DEF Crash, Gone, disk
<1>2. OnDisk' = OnDisk
  BY <1>1, DiskUnchanged
<1>3. InMemory' = OnDisk' /\ AtStart' = <<>>
  BY <1>1 DEF InMemory, AtStart
<1>4. OnDisk \in Seq(Values)
  BY DiskIs DEF DiskTyped
<1>5. Len(OnDisk) \in Nat
  BY <1>4
<1>6. QED
  BY <1>2, <1>3, <1>4, <1>5, Forgotten

\* The power fails: what is lost of the file, the journal brings back.
LEMMA PowerLossForgets ==
    ASSUME PagerIInv, PagerIInv', PowerLoss, ~loose, rash' = {}
    PROVE  Abstract!StoreNext
<1>0. /\ PagerTypeOK /\ PagerTypeOK' /\ Sizes /\ Records /\ Records' /\ Flushed /\ Certain
      /\ file \in Seq(Values) /\ Len(file) \in Nat /\ rash = {}
  BY Numbers DEF PagerIInv, PagerInv, PagerTypeOK, PowerLoss
<1>1. /\ state' = "unlock" /\ stmt' = Absent
      /\ file' \in [1..Len(file) -> Values]
      /\ \A p \in 1..Len(file) : file'[p] \in stale[p] \cup {file[p]}
  BY DEF PowerLoss, Gone
<1>2. file' \in Seq(Values) /\ Len(file') = Len(file)
  BY <1>0, <1>1, SeqOfFunction
<1>3. InMemory' = OnDisk' /\ AtStart' = <<>>
  BY <1>1 DEF InMemory, AtStart
<1>4. OnDisk \in Seq(Values) /\ OnDisk' \in Seq(Values)
  BY DiskIs, DiskIsNext DEF DiskTyped
<1>5. \A p \in 1..Len(file) : p \in Pages
  <2>1. Len(file) <= MaxPages
    BY <1>0, Numbers DEF PagerTypeOK
  <2>2. QED
    BY <1>0, <2>1, Numbers
<1>6. ASSUME \A p \in Pages : stale[p] = {}
      PROVE  file' = file
  <2>1. \A p \in 1..Len(file) : file'[p] = file[p]
    BY <1>1, <1>5, <1>6
  <2>2. file = [p \in 1..Len(file) |-> file[p]] /\ file' = [p \in 1..Len(file) |-> file'[p]]
    BY <1>0, <1>1
  <2>3. QED
    BY <2>1, <2>2
<1>7. Len(OnDisk) \in Nat
  BY <1>4
<1>8. CASE journal = Absent
  <2>1. journal' = Absent /\ file' = file
    BY <1>0, <1>6, <1>8 DEF PowerLoss, Certain
  <2>2. OnDisk' = OnDisk
    BY <1>8, <2>1 DEF OnDisk
  <2>3. QED
    BY <1>3, <1>4, <1>7, <2>2, Forgotten
<1>9. CASE journal # Absent
  <2> DEFINE kept == SubSeq(journal.recs, 1, settled.recs)
  <2>1. PICK valid \in {settled.valid, journal.valid}, n \in Counts :
           journal' = [journal EXCEPT !.valid = valid, !.recs = kept, !.counted = Least(n, Len(kept))]
    BY <1>9 DEF PowerLoss, Counts
  <2>2. /\ journal'.valid = valid /\ journal'.recs = kept /\ journal'.counted = Least(n, Len(kept))
        /\ journal'.size = journal.size
        /\ journal.recs \in Seq(Record) /\ journal.counted \in 0..Len(journal.recs) /\ journal.size \in Pages
        /\ Len(journal.recs) \in Nat
    <3> DEFINE counted == Least(n, Len(kept))
    <3> HIDE DEF counted, kept
    <3>1. journal' = [journal EXCEPT !.valid = valid, !.recs = kept, !.counted = counted]
      BY <2>1 DEF counted
    <3>2. /\ journal \in JournalFiles /\ journal.recs \in Seq(Record) /\ journal.size \in Pages
          /\ journal.counted \in 0..Len(journal.recs)
      BY <1>0, <1>9, JournalType
    <3>3. /\ journal'.valid = valid /\ journal'.recs = kept /\ journal'.counted = counted
          /\ journal'.size = journal.size
      BY <3>1, <3>2 DEF JournalFiles
    <3>4. Len(journal.recs) \in Nat
      BY <3>2
    <3>5. QED
      BY <3>2, <3>3, <3>4 DEF counted
  <2>3. journal' # Absent
    BY <2>2, Numbers DEF Absent
  <2>4. settled.recs \in 0..Len(journal.recs) /\ settled.recs \in Nat
    <3>1. settled.recs \in Nat /\ settled.recs <= Len(journal.recs)
      BY <1>0, <1>9 DEF PagerTypeOK, Sizes
    <3>2. QED
      BY <2>2, <3>1
  <2>5. n \in Nat /\ n <= settled.recs /\ n <= Len(journal.recs)
    <3>1. settled.counts \subseteq Nat
      BY <1>0 DEF PagerTypeOK
    <3>2. n \in Nat /\ n <= journal.counted /\ journal.counted <= settled.recs
      BY <1>0, <1>9, <2>2, <3>1 DEF Counts, Flushed
    <3>3. QED
      BY <2>2, <2>4, <3>2
  <2>6. kept \in Seq(Record) /\ Len(kept) = settled.recs
    BY <2>2, <2>4, PagesOfSubSeq
  <2>7. journal'.counted = n /\ Counted' = SubSeq(kept, 1, n)
    BY <2>2, <2>5, <2>6 DEF Least, Counted
  <2>8. Counted' = SubSeq(journal.recs, 1, n)
    <3>1. \A i \in 1..n : kept[i] = journal.recs[i]
      BY <2>2, <2>4, <2>5
    <3>2. SubSeq(kept, 1, n) = [i \in 1..n |-> kept[i]]
      BY <2>4, <2>5, <2>6
    <3>3. SubSeq(journal.recs, 1, n) = [i \in 1..n |-> journal.recs[i]]
      BY <2>2, <2>5
    <3>4. [i \in 1..n |-> kept[i]] = [i \in 1..n |-> journal.recs[i]]
      BY <3>1
    <3>5. QED
      BY <2>7, <3>2, <3>3, <3>4
  <2> HIDE DEF kept
  \* The records that are left say of their pages what they said before.
  <2>9. /\ PagesOf(Counted') \subseteq PagesOf(Counted)
        /\ \A p \in PagesOf(Counted') : ValueIn(journal'.recs, p) = ValueIn(journal.recs, p)
    <3>1. Consistent(journal.recs) /\ Consistent(journal'.recs)
      BY <1>0, <1>9, <2>3 DEF Records
    <3>2. n \in 0..Len(journal.recs) /\ n <= journal.counted /\ settled.recs <= settled.recs
      BY <1>0, <1>9, <2>2, <2>4, <2>5 DEF Counts, Flushed
    <3>3. PagesOf(Counted') \subseteq PagesOf(Counted)
      BY <2>2, <2>8, <3>2, PrefixFacts DEF Counted
    <3>4. RecordsOf(kept) \subseteq RecordsOf(journal.recs)
      BY <2>2, <2>4, <3>2, PrefixFacts DEF kept
    <3>5. \A p \in PagesOf(kept) : ValueIn(kept, p) = ValueIn(journal.recs, p)
      BY <2>2, <2>6, <3>1, <3>4, PartFacts
    <3>6. PagesOf(Counted') \subseteq PagesOf(kept)
      BY <1>0, <2>2, <2>3, CountedPagesNext DEF CountedRecorded
    <3>7. QED
      BY <2>2, <3>3, <3>5, <3>6
  <2>10. CASE ~journal.valid
    <3>1. file' = file /\ ~journal'.valid
      BY <1>0, <1>6, <1>9, <2>2, <2>10 DEF Certain, Flushed
    <3>2. OnDisk' = OnDisk
      BY <1>9, <2>3, <2>10, <3>1 DEF OnDisk, Restored
    <3>3. QED
      BY <1>3, <1>4, <1>7, <3>2, Forgotten
  <2>11. CASE journal.valid
    <3>1. /\ OnDisk = [p \in 1..journal.size |-> Back(p)] /\ Len(OnDisk) = journal.size
          /\ journal.size \in Nat /\ journal.size <= Len(file)
          /\ \A p \in 1..journal.size : p \in 1..Len(file) /\ p \in Pages
      BY <1>0, <1>9, <2>11, RestoredIs DEF RestoredBack, OnDisk, Records
    <3>2. ASSUME NEW p \in 1..journal.size, Protected(p)
          PROVE  journal'.valid /\ p \in PagesOf(Counted') /\ Back(p)' = Back(p)
      <4>1. journal'.valid
        BY <2>2, <2>11, <3>2 DEF Protected
      <4>2. p \in PagesOf(Counted') /\ p \in PagesOf(Counted)
        BY <2>8, <2>9, <3>2 DEF Protected
      <4>3. QED
        BY <2>9, <4>1, <4>2 DEF Back
    <3>3. ASSUME NEW p \in 1..journal.size, Untouched(p)
          PROVE  file'[p] = file[p] /\ Back(p)' = Back(p) /\ Back(p) = file[p]
      <4>1. file'[p] = file[p]
        BY <1>1, <3>1, <3>3 DEF Untouched
      <4>2. Back(p) = file[p]
        BY <3>3 DEF Back, Untouched
      <4>3. Back(p)' = file[p]
        <5>1. CASE p \in PagesOf(Counted')
          BY <2>9, <3>3, <5>1 DEF Back, Untouched
        <5>2. CASE p \notin PagesOf(Counted')
          BY <4>1, <5>2 DEF Back
        <5>3. QED
          BY <5>1, <5>2
      <4>4. QED
        BY <4>1, <4>2, <4>3
    <3>4. \A p \in 1..journal.size : Protected(p) \/ Untouched(p)
      BY <1>0, <1>9, <2>11 DEF Certain
    <3>5. CASE journal'.valid
      <4>1. \A p \in 1..journal.size : Back(p)' = Back(p)
        BY <3>2, <3>3, <3>4
      <4>2. OnDisk' = OnDisk
        BY <1>9, <2>2, <2>3, <2>11, <3>5, <4>1, DiskSame
      <4>3. QED
        BY <1>3, <1>4, <1>7, <4>2, Forgotten
    <3>6. CASE ~journal'.valid
      <4>1. OnDisk' = file'
        BY <2>3, <3>6 DEF OnDisk, Restored
      <4>2. \A p \in 1..journal.size : OnDisk'[p] = OnDisk[p]
        BY <3>1, <3>2, <3>3, <3>4, <3>6, <4>1
      <4>3. Len(OnDisk') >= journal.size
        BY <1>2, <3>1, <4>1
      <4>4. QED
        BY <1>3, <1>4, <3>1, <4>2, <4>3, Forgotten
    <3>7. QED
      BY <3>5, <3>6
  <2>12. QED
    BY <2>10, <2>11
<1>10. QED
  BY <1>8, <1>9

\* Every step that is none of the three cases is one of the abstract store, or none.
Allowed ==
    rash' = {} /\ ~(PowerLoss /\ loose) /\ unread \cup unread' = {}
    => Abstract!StoreNext \/ UNCHANGED <<OnDisk, InMemory, AtStart>>

LEMMA StepAllowed == PagerIInv /\ PagerIInv' /\ PagerNext => Allowed
<1> SUFFICES ASSUME PagerIInv, PagerIInv', PagerNext,
                    rash' = {}, ~(PowerLoss /\ loose), unread = {}, unread' = {}
             PROVE  Abstract!StoreNext \/ Seen
  BY DEF Allowed, Seen
<1>1. CASE Open
  BY <1>1, OpenSees
<1>2. CASE Release
  BY <1>2, ReleaseSees
<1>3. CASE Begin
  BY <1>3, BeginSees
<1>4. CASE Get
  BY <1>4, GetSees
<1>5. CASE Write
  <2>1. PICK p \in IF job = "append" THEN {want} ELSE DOMAIN cache, v \in Values :
           p <= dbSize + 1 /\ Change(p, v)
    BY <1>5 DEF Write
  <2>2. InTransaction /\ job # "playback" /\ job' # "playback" /\ UNCHANGED <<file, state>>
    BY <1>5 DEF Write
  <2>3. p \in DOMAIN cache
    BY <2>1 DEF PagerIInv, PagerInv, Present
  <2>4. QED
    BY <2>1, <2>2, <2>3, ChangeWrites DEF Seen
<1>6. CASE WriteFails
  BY <1>6, UndoForgets DEF WriteFails
<1>7. CASE StmtBegin
  BY <1>7, StmtBeginStarts
<1>8. CASE StmtCommit
  BY <1>8, StmtCommitEnds
<1>9. CASE StmtRollback
  BY <1>9, StmtRollbackEnds
<1>10. CASE Commit
  <2>1. CASE ~dirtyCache
    <3>1. Undo /\ InTransaction /\ job # "playback"
      BY <1>10, <2>1 DEF Commit, Undo
    <3>2. QED
      BY <3>1, UndoForgets
  <2>2. CASE dirtyCache
    <3>1. PICK v \in Values : Change(1, v)
      BY <1>10, <2>2 DEF Commit
    <3>2. InTransaction /\ job # "playback" /\ job' # "playback" /\ UNCHANGED <<file, state>>
      BY <1>10, <2>2 DEF Commit
    <3>3. 1 \in DOMAIN cache
      BY <3>2 DEF PagerIInv, PagerInv, Present, Live, Underway
    <3>4. 1 <= dbSize + 1
      <4>1. dbSize \in 0..MaxPages
        BY DEF PagerIInv, PagerInv, PagerTypeOK
      <4>2. QED
        BY <4>1
    <3>5. QED
      BY <3>1, <3>2, <3>3, <3>4, ChangeWrites DEF Seen
  <2>3. QED
    BY <2>1, <2>2
<1>11. CASE SyncRecords
  BY <1>11, SyncRecordsSees
<1>12. CASE SyncCount
  BY <1>12, SyncCountSees
<1>13. CASE Recycle
  BY <1>13, RecycleSees
<1>14. CASE WriteDirty
  BY <1>14, WriteDirtySees
<1>15. CASE Busy
  <2>1. CASE want = 0
    <3>1. /\ job' = "ready" /\ job = "write" /\ state = "reserved"
          /\ UNCHANGED <<file, journal, state, cache, dbSize, stmt>>
      BY <1>15, <2>1 DEF Busy, disk, memory
    <3>2. \A p : Page(p)' = Page(p)
      BY <3>1 DEF Page
    <3>3. QED
      BY <3>1, <3>2, SeenSame, DiskUnchanged DEF Seen
  <2>2. CASE want # 0
    BY <1>15, <2>2, UndoForgets DEF Busy, InTransaction
  <2>3. QED
    BY <2>1, <2>2
<1>16. CASE Flush
  <2>1. /\ job = "flush" /\ job' = "delete" /\ state # "unlock" /\ state' = "synced"
        /\ UNCHANGED <<file, journal, cache, dbSize, stmt>>
    BY <1>16 DEF Flush, memory, PagerIInv, PagerInv, Places
  <2>2. \A p : Page(p)' = Page(p)
    BY <2>1 DEF Page
  <2>3. QED
    BY <2>1, <2>2, SeenSame, DiskUnchanged DEF Seen
<1>17. CASE Delete
  BY <1>17, DeleteKeeps
<1>18. CASE Rollback
  BY <1>18, UndoForgets DEF Rollback
<1>19. CASE Playback
  BY <1>19, PlaybackSees, PlaybackForgets
<1>20. CASE Crash
  BY <1>20, CrashForgets
<1>21. CASE PowerLoss
  BY <1>21, PowerLossForgets
<1>22. QED
  BY <1>1, <1>2, <1>3, <1>4, <1>5, <1>6, <1>7, <1>8, <1>9, <1>10, <1>11, <1>12, <1>13, <1>14,
     <1>15, <1>16, <1>17, <1>18, <1>19, <1>20, <1>21 DEF PagerNext

\* The pager starts as the abstract store does: before the first process opens
\* it, the file is the database, and no statement runs.
THEOREM AtomicStarts == PagerInit => Abstract!StoreInit
<1> SUFFICES ASSUME PagerInit
             PROVE  Abstract!StoreInit
  OBVIOUS
<1>1. PagerTypeOK
  BY IInvStarts DEF PagerIInv, PagerInv
<1>2. file \in Seq(Values) /\ journal = Absent /\ state = "unlock" /\ stmt = Absent
  BY <1>1 DEF PagerInit, PagerTypeOK
<1>3. OnDisk = file /\ InMemory = file /\ AtStart = <<>>
  BY <1>2 DEF OnDisk, InMemory, AtStart
<1>4. QED
  BY <1>2, <1>3 DEF Abstract!StoreInit

\* Every step of the pager is one of the abstract store, or changes nothing of it:
\* what the next process finds, what the transaction sees and what the statement
\* started with change by one write, by the start or the end of a statement, by a
\* commit as a whole, or by a rollback, a crash or a power failure that leads back
\* to what the file was before.  The exceptions are the three cases of
\* AtomicOtherwise, in which sqlite3pager_stmt_rollback has overwritten what the
\* flushed journal does not have, a playback is not flushed, or pages are left
\* that were not read again.
THEOREM AtomicBut == PagerSpec => AtomicOtherwise
<1>1. PagerIInv /\ PagerIInv' /\ [PagerNext]_pagerVars => [Allowed]_pagerVars
  BY StepAllowed
<1>2. PagerSpec => [][Allowed]_pagerVars
  BY <1>1, PagerIInvariant, PTL DEF PagerSpec
<1>3. QED
  BY <1>2 DEF AtomicOtherwise, Allowed

=============================================================================
